---------------------------- MODULE DmCallsProofs ----------------------------
(***************************************************************************)
(* The records of calls, for any number of people, calls, requests and     *)
(* restarts.                                                               *)
(*                                                                         *)
(* A call in the memory that is not in the copy yet is one whose answer    *)
(* from the other instance is awaited.  What is in the memory or the copy  *)
(* has no record, neither written nor on its way; and what the sweep has   *)
(* yet to look at is still in the copy as it was read, except for calls    *)
(* that began after the process did.                                       *)
(***************************************************************************)
EXTENDS DmCalls, TLAPS

Phases == {"no", "ringing", "active"}
Reasons == {"hangup", "missed", "busy", "disconnect"}

TypeOK ==
    /\ call \in [Calls -> [caller : People \cup {"nobody"}, callee : People \cup {"nobody"}]]
    /\ live \in [Calls -> Phases]
    /\ remote \in [Calls -> Phases]
    /\ saved \in [Calls -> Phases]
    /\ start \in [Requests -> {Idle} \cup [at : {"checked"}, me : Users, peer : People]
                                     \cup [at : {"inviting"}, call : Calls]]
    /\ ending \in SUBSET [call : Calls, reason : Reasons, orphan : BOOLEAN]
    /\ sweep \in [at : {"boot", "done"}]
                 \cup [at : {"rest"}, copy : UNION {[D -> Phases \ {"no"}] : D \in SUBSET Calls}]
    /\ feed \in [Calls -> Seq(Reasons)]
    /\ answered \in SUBSET Calls /\ lost \in SUBSET Calls /\ refused \in SUBSET Calls
    /\ young \in SUBSET Calls /\ again \in SUBSET Calls
    /\ faults \in 0 .. MaxFaults

NoRecord(c) == feed[c] = <<>> /\ \A e \in ending : e.call # c

\* An id that is not used yet has left no trace.
Traceless ==
    \A c \in Calls : Unused(c) =>
        /\ live[c] = "no" /\ saved[c] = "no" /\ NoRecord(c)
        /\ c \notin answered
        /\ sweep.at = "rest" => c \notin DOMAIN sweep.copy

\* Only calls of the process are in its memory.
LiveIsYoung == \A c \in Calls : live[c] # "no" => c \in young

\* A call of ours that is not in the copy waits for the other instance.
Uncopied ==
    \A c \in Calls : (Ours(c) /\ live[c] # "no" /\ saved[c] = "no") =>
        \E r \in Requests : start[r].at = "inviting" /\ start[r].call = c

CallsInv == TypeOK /\ Traceless /\ LiveIsYoung /\ Uncopied /\ NothingForgotten

\* What the sweep has yet to look at.
CopyStands ==
    sweep.at = "rest" => \A c \in DOMAIN sweep.copy \ young :
        saved[c] = sweep.copy[c] /\ saved[c] # "no"

\* One record in all, and none as long as the call or its copy is there.
OneRecord(c) ==
    /\ live[c] # "no" \/ saved[c] # "no" => NoRecord(c)
    /\ (\E e \in ending : e.call = c) => feed[c] = <<>>
    /\ \A e, f \in ending : e.call = c /\ f.call = c => e = f
    /\ Len(feed[c]) <= 1

\* An answered call is nowhere taken for one that rings.
AnswerStands(c) ==
    c \in answered =>
        /\ live[c] # "ringing" /\ saved[c] # "ringing"
        /\ \A e \in ending : e.call = c => e.reason \in {"hangup", "disconnect"}
        /\ \A i \in DOMAIN feed[c] : feed[c][i] \in {"hangup", "disconnect"}

RecordInv == CopyStands /\ \A c \in Calls \ again : OneRecord(c) /\ AnswerStands(c)

----------------------------------------------------------------------------
LEMMA StartShapes ==
    ASSUME NEW p \in {Idle} \cup [at : {"checked"}, me : Users, peer : People]
                            \cup [at : {"inviting"}, call : Calls]
    PROVE  /\ p.at \in {"idle", "checked", "inviting"}
           /\ p.at = "checked" => p.me \in Users /\ p.peer \in People
           /\ p.at = "inviting" => p.call \in Calls
           /\ p = Idle => p.at = "idle"
BY DEF Idle

LEMMA SweepShapes ==
    ASSUME NEW w \in [at : {"boot", "done"}]
                     \cup [at : {"rest"}, copy : UNION {[D -> Phases \ {"no"}] : D \in SUBSET Calls}]
    PROVE  w.at = "rest" => /\ DOMAIN w.copy \in SUBSET Calls
                            /\ \A c \in DOMAIN w.copy : w.copy[c] \in {"ringing", "active"}
<1>1. CASE w \in [at : {"boot", "done"}]
  BY <1>1
<1>2. CASE w \in [at : {"rest"}, copy : UNION {[D -> Phases \ {"no"}] : D \in SUBSET Calls}]
  <2>1. PICK D \in SUBSET Calls : w.copy \in [D -> Phases \ {"no"}]
    BY <1>2
  <2> QED
    BY <2>1 DEF Phases
<1> QED
  BY <1>1, <1>2

\* Any assignment of phases to some calls can be the copy that is swept.
LEMMA SweepCopies ==
    ASSUME NEW D \in SUBSET Calls, NEW f \in [D -> {"ringing", "active"}]
    PROVE  [at |-> "rest", copy |-> f] \in
             [at : {"rest"}, copy : UNION {[E -> Phases \ {"no"}] : E \in SUBSET Calls}]
<1>1. f \in [D -> Phases \ {"no"}]
  BY DEF Phases
<1> QED
  BY <1>1

\* The three ways a call ends by itself are one: it leaves the memory and the
\* copy, and what was going on is not called missed.
EndedWith(c, reason) ==
    /\ live[c] # "no"
    /\ reason \in Reasons
    /\ live[c] = "active" => reason \in {"hangup", "disconnect"}
    /\ EndCall(c, reason)
    /\ UNCHANGED <<call, remote, start, sweep, feed, history>>

Ends(c) == RingTimeout(c) \/ Drop(c) \/ \E who \in People : HangUp(c, who)

LEMMA EndsWithAReason ==
    ASSUME NEW c \in Calls, Ends(c)
    PROVE  \E reason \in Reasons : EndedWith(c, reason)
<1>1. CASE RingTimeout(c)
  BY <1>1 DEF RingTimeout, EndedWith, Reasons
<1>2. CASE Drop(c)
  BY <1>2 DEF Drop, EndedWith, Reasons
<1>3. ASSUME NEW who \in People, HangUp(c, who) PROVE \E reason \in Reasons : EndedWith(c, reason)
  <2>1. Reason(c, who) \in Reasons /\ (live[c] = "active" => Reason(c, who) = "hangup")
    BY DEF Reason, Reasons
  <2> QED
    BY <1>3, <2>1 DEF HangUp, EndedWith
<1> QED
  BY <1>1, <1>2, <1>3 DEF Ends

\* The steps of the system, those alike taken together.
LEMMA Steps ==
    ASSUME Next
    PROVE  \/ \E r \in Requests : \/ \E me \in Users, peer \in People : CheckFree(r, me, peer)
                                  \/ Register(r) \/ Invited(r) \/ Refused(r)
           \/ \E c \in Calls : \/ Answer(c) \/ Ends(c) \/ Ping(c) \/ SweepNext(c)
                               \/ RemoteAnswered(c) \/ RemoteOver(c)
                               \/ \E g \in Guests, u \in Users : RingRemote(c, g, u)
           \/ \E e \in ending : Record(e) \/ RecordFails(e)
           \/ SweepRead \/ SweepDone \/ Restart
BY DEF Next, CounterCall, Ends

\* Every step keeps the types.
LEMMA TypesKept == TypeOK /\ [Next]_vars => TypeOK'
<1> SUFFICES ASSUME TypeOK, [Next]_vars PROVE TypeOK'
  OBVIOUS
<1> USE DEF TypeOK
<1>0. "no" \in Phases /\ "ringing" \in Phases /\ "active" \in Phases
      /\ (\A x \in Phases : x = "no" \/ x \in {"ringing", "active"})
      /\ \A r \in Requests : start[r].at = "inviting" => start[r].call \in Calls
  BY StartShapes DEF Phases
<1>1. CASE UNCHANGED vars
  BY <1>1 DEF vars, memory, history
<1>2. ASSUME NEW r \in Requests, NEW me \in Users, NEW peer \in People, CheckFree(r, me, peer) PROVE TypeOK'
  BY <1>2 DEF CheckFree, history
<1>3. ASSUME NEW r \in Requests, Register(r) PROVE TypeOK'
  <2>1. start[r].me \in Users /\ start[r].peer \in People
    BY <1>3, StartShapes DEF Register
  <2>2. PICK c \in Calls :
             /\ call' = [call EXCEPT ![c] = [caller |-> start[r].me, callee |-> start[r].peer]]
             /\ live' = [live EXCEPT ![c] = "ringing"]
             /\ young' = young \cup {c}
             /\ saved' = saved \/ saved' = [saved EXCEPT ![c] = "ringing"]
             /\ start' = [start EXCEPT ![r] = [at |-> "inviting", call |-> c]]
                \/ start' = [start EXCEPT ![r] = Idle]
    BY <1>3 DEF Register
  <2>3. [caller |-> start[r].me, callee |-> start[r].peer]
          \in [caller : People \cup {"nobody"}, callee : People \cup {"nobody"}]
    BY <2>1 DEF People
  <2>4. call' \in [Calls -> [caller : People \cup {"nobody"}, callee : People \cup {"nobody"}]]
    BY <2>2, <2>3
  <2>5. live' \in [Calls -> Phases] /\ young' \in SUBSET Calls
    BY <1>0, <2>2
  <2>6. saved' \in [Calls -> Phases]
    <3>1. CASE saved' = saved
      BY <3>1
    <3>2. CASE saved' = [saved EXCEPT ![c] = "ringing"]
      BY <1>0, <3>2
    <3> QED
      BY <2>2, <3>1, <3>2
  <2>7. start' \in [Requests -> {Idle} \cup [at : {"checked"}, me : Users, peer : People]
                                     \cup [at : {"inviting"}, call : Calls]]
    <3>1. [at |-> "inviting", call |-> c] \in [at : {"inviting"}, call : Calls]
      OBVIOUS
    <3>2. CASE start' = [start EXCEPT ![r] = [at |-> "inviting", call |-> c]]
      BY <3>1, <3>2
    <3>3. CASE start' = [start EXCEPT ![r] = Idle]
      BY <3>3
    <3> QED
      BY <2>2, <3>2, <3>3
  <2> QED
    BY <1>3, <2>4, <2>5, <2>6, <2>7 DEF Register
<1>4. ASSUME NEW r \in Requests, Invited(r) \/ Refused(r) PROVE TypeOK'
  <2>1. start[r].call \in Calls
    BY <1>0, <1>4 DEF Invited, Refused
  <2>2. start' \in [Requests -> {Idle} \cup [at : {"checked"}, me : Users, peer : People]
                                     \cup [at : {"inviting"}, call : Calls]]
    BY <1>4 DEF Invited, Refused
  <2>3. CASE Invited(r)
    <3>1. saved' \in [Calls -> Phases]
      BY <2>1, <2>3 DEF Invited
    <3> QED
      BY <2>2, <2>3, <3>1 DEF Invited, history
  <2>4. CASE Refused(r)
    <3>1. live' \in [Calls -> Phases] /\ refused' \in SUBSET Calls
      BY <1>0, <2>1, <2>4 DEF Refused
    <3> QED
      BY <2>2, <2>4, <3>1 DEF Refused
  <2> QED
    BY <1>4, <2>3, <2>4
<1>5. ASSUME NEW c \in Calls, Answer(c) PROVE TypeOK'
  BY <1>0, <1>5 DEF Answer
<1>6. ASSUME NEW c \in Calls, Ends(c) PROVE TypeOK'
  <2>1. PICK reason \in Reasons : EndedWith(c, reason)
    BY <1>6, EndsWithAReason
  <2>2. live' \in [Calls -> Phases] /\ saved' \in [Calls -> Phases]
    BY <1>0, <2>1 DEF EndedWith, EndCall
  <2>3. ending' \in SUBSET [call : Calls, reason : Reasons, orphan : BOOLEAN]
    <3>1. [call |-> c, reason |-> reason, orphan |-> FALSE] \in [call : Calls, reason : Reasons, orphan : BOOLEAN]
      OBVIOUS
    <3>2. ending' = ending \cup {[call |-> c, reason |-> reason, orphan |-> FALSE]}
      BY <2>1 DEF EndedWith, EndCall
    <3> QED
      BY <3>1, <3>2
  <2> QED
    BY <2>1, <2>2, <2>3 DEF EndedWith, history
<1>7. ASSUME NEW c \in Calls, Ping(c) PROVE TypeOK'
  BY <1>7 DEF Ping, memory, history
<1>8. ASSUME NEW c \in Calls, SweepNext(c) PROVE TypeOK'
  <2>1. sweep' \in [at : {"rest"}, copy : UNION {[D -> Phases \ {"no"}] : D \in SUBSET Calls}]
    <3>1. sweep.at = "rest" /\ sweep' = WithoutCopy(c)
      BY <1>8 DEF SweepNext
    <3>2. DOMAIN sweep.copy \in SUBSET Calls /\ \A x \in DOMAIN sweep.copy : sweep.copy[x] \in {"ringing", "active"}
      BY <3>1, SweepShapes
    <3> DEFINE D == DOMAIN sweep.copy \ {c}
               f == [x \in D |-> sweep.copy[x]]
    <3>3. D \in SUBSET Calls /\ f \in [D -> {"ringing", "active"}]
      BY <3>2
    <3>4. sweep' = [at |-> "rest", copy |-> f]
      BY <3>1 DEF WithoutCopy
    <3> HIDE DEF D, f
    <3> QED
      BY <3>3, <3>4, SweepCopies
  <2>2. saved' \in [Calls -> Phases] /\ again' \in SUBSET Calls
        /\ ending' \in SUBSET [call : Calls, reason : Reasons, orphan : BOOLEAN]
    <3>1. CASE live[c] # "no"
      BY <1>8, <3>1 DEF SweepNext
    <3>2. CASE live[c] = "no"
      <4>1. saved' = [saved EXCEPT ![c] = "no"] /\ again' = again \cup ({c} \cap young)
        BY <1>8, <3>2 DEF SweepNext
      <4>2. PICK reason \in {"disconnect", "missed"} :
              ending' = ending \cup {[call |-> c, orphan |-> TRUE, reason |-> reason]}
        BY <1>8, <3>2 DEF SweepNext
      <4>3. [call |-> c, orphan |-> TRUE, reason |-> reason] \in [call : Calls, reason : Reasons, orphan : BOOLEAN]
        BY DEF Reasons
      <4> QED
        BY <1>0, <4>1, <4>2, <4>3
    <3> QED
      BY <3>1, <3>2
  <2> QED
    BY <1>8, <2>1, <2>2 DEF SweepNext
<1>9. ASSUME NEW c \in Calls, RemoteAnswered(c) \/ RemoteOver(c) PROVE TypeOK'
  <2>1. remote' \in [Calls -> Phases]
    <3>1. CASE RemoteAnswered(c)
      BY <1>0, <3>1 DEF RemoteAnswered
    <3>2. CASE RemoteOver(c)
      BY <1>0, <3>2 DEF RemoteOver
    <3> QED
      BY <1>9, <3>1, <3>2
  <2> QED
    BY <1>9, <2>1 DEF RemoteAnswered, RemoteOver, history
<1>10. ASSUME NEW c \in Calls, NEW g \in Guests, NEW u \in Users, RingRemote(c, g, u) PROVE TypeOK'
  <2>1. [caller |-> g, callee |-> u] \in [caller : People \cup {"nobody"}, callee : People \cup {"nobody"}]
    BY DEF People
  <2>2. call' \in [Calls -> [caller : People \cup {"nobody"}, callee : People \cup {"nobody"}]]
        /\ remote' \in [Calls -> Phases]
    BY <1>0, <1>10, <2>1 DEF RingRemote
  <2> QED
    BY <1>10, <2>2 DEF RingRemote, history
<1>11. ASSUME NEW e \in ending, Record(e) \/ RecordFails(e) PROVE TypeOK'
  <2>1. e.call \in Calls /\ e.reason \in Reasons
    OBVIOUS
  <2>2. CASE Record(e)
    <3>1. Append(feed[e.call], e.reason) \in Seq(Reasons)
      BY <2>1
    <3>2. feed' \in [Calls -> Seq(Reasons)]
      BY <2>1, <2>2, <3>1 DEF Record
    <3>3. ending' \in SUBSET [call : Calls, reason : Reasons, orphan : BOOLEAN]
      BY <2>2 DEF Record
    <3> QED
      BY <2>2, <3>2, <3>3 DEF Record, history
  <2>3. CASE RecordFails(e)
    <3>1. faults' \in 0 .. MaxFaults /\ lost' \in SUBSET Calls
      BY <2>1, <2>3, CallsAssumption DEF RecordFails
    <3>2. ending' \in SUBSET [call : Calls, reason : Reasons, orphan : BOOLEAN]
      BY <2>3 DEF RecordFails
    <3> QED
      BY <2>3, <3>1, <3>2 DEF RecordFails
  <2> QED
    BY <1>11, <2>2, <2>3
<1>12. CASE SweepRead
  <2> DEFINE D == {x \in Calls : saved[x] # "no"}
             f == [c \in D |-> saved[c]]
  <2>1. D \in SUBSET Calls /\ f \in [D -> {"ringing", "active"}]
    BY <1>0
  <2>2. sweep' = [at |-> "rest", copy |-> f]
    BY <1>12 DEF SweepRead
  <2> HIDE DEF D, f
  <2>3. sweep' \in [at : {"rest"}, copy : UNION {[E -> Phases \ {"no"}] : E \in SUBSET Calls}]
    BY <2>1, <2>2, SweepCopies
  <2> QED
    BY <1>12, <2>3 DEF SweepRead, history
<1>13. CASE SweepDone
  BY <1>13 DEF SweepDone, Closed, history
<1>14. CASE Restart
  <2>1. lost' \in SUBSET Calls
    <3>1. {e.call : e \in ending} \subseteq Calls
      OBVIOUS
    <3>2. {start[r].call : r \in {q \in Requests : start[q].at = "inviting"}} \subseteq Calls
      BY <1>0
    <3> QED
      BY <1>14, <3>1, <3>2 DEF Restart
  <2>2. faults' \in 0 .. MaxFaults
    BY <1>14, CallsAssumption DEF Restart
  <2>3. live' \in [Calls -> Phases] /\ remote' \in [Calls -> Phases]
    BY <1>0, <1>14 DEF Restart
  <2>4. start' \in [Requests -> {Idle} \cup [at : {"checked"}, me : Users, peer : People]
                                     \cup [at : {"inviting"}, call : Calls]]
    BY <1>14 DEF Restart
  <2> QED
    BY <1>14, <2>1, <2>2, <2>3, <2>4 DEF Restart
<1> HIDE DEF TypeOK
<1> QED
  BY <1>1, <1>2, <1>3, <1>4, <1>5, <1>6, <1>7, <1>8, <1>9, <1>10, <1>11, <1>12, <1>13, <1>14, Steps

----------------------------------------------------------------------------
\* A step that touches no call leaves all as it was.
LEMMA UntouchedCalls ==
    ASSUME CallsInv, TypeOK',
           UNCHANGED <<call, live, saved, ending, feed, answered, lost, refused, young>>,
           sweep' = sweep \/ sweep'.at # "rest",
           \A r \in Requests : start[r].at = "inviting" => start'[r] = start[r]
    PROVE  CallsInv'
<1> USE DEF CallsInv
<1>1. Traceless'
  BY DEF Traceless, Unused, NoRecord
<1>2. LiveIsYoung'
  BY DEF LiveIsYoung
<1>3. Uncopied'
  BY DEF Uncopied, Ours
<1>4. NothingForgotten'
  BY DEF NothingForgotten, Ours
<1> QED
  BY <1>1, <1>2, <1>3, <1>4

\* Every step keeps the calls of ours in sight.
LEMMA CallsKept == CallsInv /\ [Next]_vars => CallsInv'
<1> SUFFICES ASSUME CallsInv, [Next]_vars PROVE CallsInv'
  OBVIOUS
<1> USE DEF CallsInv
<1>0. /\ TypeOK'
      /\ live \in [Calls -> Phases] /\ saved \in [Calls -> Phases] /\ feed \in [Calls -> Seq(Reasons)]
      /\ call \in [Calls -> [caller : People \cup {"nobody"}, callee : People \cup {"nobody"}]]
      /\ start \in [Requests -> {Idle} \cup [at : {"checked"}, me : Users, peer : People]
                                       \cup [at : {"inviting"}, call : Calls]]
      /\ \A r \in Requests : start[r].at = "inviting" => start[r].call \in Calls
      /\ ending \in SUBSET [call : Calls, reason : Reasons, orphan : BOOLEAN]
      /\ Idle.at = "idle"
  BY TypesKept, StartShapes DEF TypeOK, Idle
<1>1. CASE UNCHANGED vars
  BY <1>0, <1>1, UntouchedCalls DEF vars, memory, history
<1>2. ASSUME NEW r \in Requests, NEW me \in Users, NEW peer \in People, CheckFree(r, me, peer) PROVE CallsInv'
  <2>1. /\ start[r].at = "idle" /\ start' = [start EXCEPT ![r] = [at |-> "checked", me |-> me, peer |-> peer]]
        /\ UNCHANGED <<call, live, saved, ending, feed, sweep>> /\ UNCHANGED history
    BY <1>0, <1>2 DEF CheckFree
  <2>2. \A q \in Requests : start[q].at = "inviting" => start'[q] = start[q]
    BY <1>0, <2>1
  <2> QED
    BY <1>0, <2>1, <2>2, UntouchedCalls DEF history
\* What a step does that touches call k only.
<1>3. ASSUME NEW k \in Calls,
             \A c \in Calls \ {k} :
               /\ call'[c] = call[c] /\ live'[c] = live[c] /\ saved'[c] = saved[c] /\ feed'[c] = feed[c]
               /\ \A r \in Requests : start[r].at = "inviting" /\ start[r].call = c => start'[r] = start[r]
               /\ (\E e \in ending' : e.call = c) <=> (\E e \in ending : e.call = c)
               /\ c \in answered' <=> c \in answered
               /\ c \in young => c \in young'
               /\ c \in lost \cup refused => c \in lost' \cup refused',
             sweep' = sweep \/ (sweep.at = "rest" /\ DOMAIN sweep'.copy \subseteq DOMAIN sweep.copy),
             call'[k] # NotYet,
             live'[k] # "no" => k \in young',
             (Ours(k)' /\ live'[k] # "no") =>
               \/ saved'[k] # "no"
               \/ \E r \in Requests : start'[r].at = "inviting" /\ start'[r].call = k,
             (Ours(k)' /\ live'[k] = "no" /\ saved'[k] = "no") =>
               \/ \E e \in ending' : e.call = k
               \/ feed'[k] # <<>> \/ k \in lost' \cup refused'
      PROVE  CallsInv'
  <2>1. Traceless'
    BY <1>3 DEF Traceless, Unused, NoRecord
  <2>2. LiveIsYoung'
    BY <1>3 DEF LiveIsYoung
  <2>3. Uncopied'
    BY <1>3 DEF Uncopied, Ours
  <2>4. NothingForgotten'
    BY <1>3 DEF NothingForgotten, Ours
  <2> QED
    BY <1>0, <2>1, <2>2, <2>3, <2>4
<1>4. \A c \in Calls : live[c] # "no" \/ saved[c] # "no" => call[c] # NotYet
  BY DEF Traceless, Unused
<1>5. \A c \in Calls : live[c] # "no" => c \in young
  BY DEF LiveIsYoung
<1>6. \A c \in Calls : (Ours(c) /\ live[c] # "no" /\ saved[c] = "no") =>
        \E r \in Requests : start[r].at = "inviting" /\ start[r].call = c
  BY DEF Uncopied
<1>7. \A c \in Calls : (Ours(c) /\ live[c] = "no" /\ saved[c] = "no") =>
        \/ \E e \in ending : e.call = c
        \/ feed[c] # <<>> \/ c \in lost \cup refused
  BY DEF NothingForgotten
<1> HIDE DEF CallsInv
<1>8. ASSUME NEW r \in Requests, Register(r) PROVE CallsInv'
  <2> DEFINE abroad == start[r].peer \in Guests
  <2>1. PICK k \in Calls :
             /\ Unused(k)
             /\ call' = [call EXCEPT ![k] = [caller |-> start[r].me, callee |-> start[r].peer]]
             /\ live' = [live EXCEPT ![k] = "ringing"]
             /\ young' = young \cup {k}
             /\ saved' = IF abroad THEN saved ELSE [saved EXCEPT ![k] = "ringing"]
             /\ start' = [start EXCEPT ![r] = IF abroad THEN [at |-> "inviting", call |-> k] ELSE Idle]
    BY <1>8 DEF Register
  <2>2. start[r].at = "checked" /\ UNCHANGED <<ending, sweep, feed, answered, lost, refused>>
    BY <1>8 DEF Register
  <2>3. start[r].me # "nobody"
    BY <1>0, <2>2, StartShapes, CallsAssumption
  <2>4. call'[k] # NotYet
    BY <1>0, <2>1, <2>3 DEF NotYet
  <2>5. \/ saved'[k] # "no"
        \/ start'[r].at = "inviting" /\ start'[r].call = k
    BY <1>0, <2>1
  <2>6. \A q \in Requests : start[q].at = "inviting" => start'[q] = start[q]
    BY <1>0, <2>1, <2>2
  <2>7. \A c \in Calls \ {k} : call'[c] = call[c] /\ live'[c] = live[c] /\ saved'[c] = saved[c]
    BY <1>0, <2>1
  <2>8. live'[k] # "no" /\ k \in young' /\ young \subseteq young'
    BY <1>0, <2>1
  <2> QED
    BY <1>3, <2>2, <2>4, <2>5, <2>6, <2>7, <2>8
<1>9. ASSUME NEW r \in Requests, Invited(r) PROVE CallsInv'
  <2>0. PICK k \in Calls : k = start[r].call
    BY <1>0, <1>9 DEF Invited
  <2>1. /\ start[r].at = "inviting" /\ start[r].call = k
        /\ saved' = IF live[k] = "no" THEN saved ELSE [saved EXCEPT ![k] = live[k]]
        /\ start' = [start EXCEPT ![r] = Idle]
        /\ UNCHANGED <<call, live, ending, sweep, feed, answered, lost, refused, young>>
    BY <1>0, <1>9, <2>0 DEF Invited, history
  <2>2. \A q \in Requests : q # r => start'[q] = start[q]
    BY <1>0, <2>1
  <2>3. CASE live[k] = "no"
    <3>1. ASSUME NEW c \in Calls, c # k PROVE \A q \in Requests : start[q].at = "inviting" /\ start[q].call = c => start'[q] = start[q]
      BY <2>0, <2>2, <3>1
    <3>2. saved' = saved
      BY <2>1, <2>3
    <3>3. UNCHANGED <<call, live, saved, ending, sweep, feed, answered, lost, refused, young>>
      BY <2>1, <3>2
    <3>4. CASE call[k] # NotYet
      <4>1. Ours(k)' <=> Ours(k)
        BY <3>3 DEF Ours
      <4> QED
        BY <1>3, <1>7, <2>1, <2>3, <3>1, <3>3, <3>4, <4>1
    <3>5. CASE call[k] = NotYet
      <4>1. ~ Ours(k)
        BY <3>5, CallsAssumption DEF Ours, NotYet
      <4>2. Traceless' /\ LiveIsYoung' /\ NothingForgotten'
        BY <3>3 DEF CallsInv, Traceless, LiveIsYoung, NothingForgotten, Unused, NoRecord, Ours
      <4>3. Uncopied'
        BY <2>1, <3>1, <3>3, <4>1 DEF CallsInv, Uncopied, Ours
      <4> QED
        BY <1>0, <4>2, <4>3 DEF CallsInv
    <3> QED
      BY <3>4, <3>5
  <2>4. CASE live[k] # "no"
    <3>1. saved'[k] = live[k] /\ \A c \in Calls \ {k} : saved'[c] = saved[c]
      BY <1>0, <2>1, <2>4
    <3>2. ASSUME NEW c \in Calls, c # k PROVE \A q \in Requests : start[q].at = "inviting" /\ start[q].call = c => start'[q] = start[q]
      BY <2>0, <2>2, <3>2
    <3>3. call[k] # NotYet /\ k \in young
      BY <1>4, <1>5, <2>1, <2>4
    <3> QED
      BY <1>3, <2>1, <2>4, <3>1, <3>2, <3>3
  <2> QED
    BY <2>3, <2>4
<1>10. ASSUME NEW r \in Requests, Refused(r) PROVE CallsInv'
  <2>0. PICK k \in Calls : k = start[r].call
    BY <1>0, <1>10 DEF Refused
  <2>1. /\ start[r].at = "inviting" /\ start[r].call = k
        /\ live' = [live EXCEPT ![k] = "no"]
        /\ refused' = IF live[k] = "no" THEN refused ELSE refused \cup {k}
        /\ start' = [start EXCEPT ![r] = Idle]
        /\ UNCHANGED <<call, ending, sweep, saved, feed, answered, lost, young>>
    BY <1>0, <1>10, <2>0 DEF Refused
  <2>2. \A q \in Requests : q # r => start'[q] = start[q]
    BY <1>0, <2>1
  <2>3. ASSUME NEW c \in Calls, c # k PROVE \A q \in Requests : start[q].at = "inviting" /\ start[q].call = c => start'[q] = start[q]
    BY <2>0, <2>2, <2>3
  <2>4. live'[k] = "no" /\ (\A c \in Calls \ {k} : live'[c] = live[c]) /\ refused \subseteq refused'
    BY <1>0, <2>1
  <2>5. CASE call[k] # NotYet
    <3>1. Ours(k)' <=> Ours(k)
      BY <2>1 DEF Ours
    <3>2. (Ours(k) /\ saved[k] = "no") =>
            \/ \E e \in ending : e.call = k
            \/ feed[k] # <<>> \/ k \in lost \cup refused'
      BY <1>7, <2>1
    <3> QED
      BY <1>3, <2>1, <2>3, <2>4, <2>5, <3>1, <3>2
  <2>6. CASE call[k] = NotYet
    <3>1. live[k] = "no" /\ ~ Ours(k)
      BY <1>4, <2>1, <2>6, CallsAssumption DEF Ours, NotYet
    <3>2. live' = live /\ refused' = refused
      BY <1>0, <2>1, <3>1
    <3>3. Traceless' /\ LiveIsYoung' /\ NothingForgotten'
      BY <2>1, <3>2 DEF CallsInv, Traceless, LiveIsYoung, NothingForgotten, Unused, NoRecord, Ours
    <3>4. Uncopied'
      BY <2>1, <2>3, <3>1, <3>2 DEF CallsInv, Uncopied, Ours
    <3> QED
      BY <1>0, <3>3, <3>4 DEF CallsInv
  <2> QED
    BY <2>5, <2>6
<1>11. ASSUME NEW k \in Calls, Answer(k) PROVE CallsInv'
  <2>1. /\ live[k] = "ringing" /\ live' = [live EXCEPT ![k] = "active"]
        /\ saved' = [saved EXCEPT ![k] = "active"] /\ answered' = answered \cup {k}
        /\ UNCHANGED <<call, start, ending, sweep, feed, lost, refused, young>>
    BY <1>11 DEF Answer
  <2>2. /\ live'[k] = "active" /\ saved'[k] = "active"
        /\ \A c \in Calls \ {k} : live'[c] = live[c] /\ saved'[c] = saved[c] /\ (c \in answered' <=> c \in answered)
    BY <1>0, <2>1
  <2> QED
    BY <1>3, <1>4, <1>5, <2>1, <2>2
<1>12. ASSUME NEW k \in Calls, Ends(k) PROVE CallsInv'
  <2>1. PICK reason \in Reasons : EndedWith(k, reason)
    BY <1>12, EndsWithAReason
  <2>2. /\ live[k] # "no" /\ live'[k] = "no"
        /\ \A c \in Calls \ {k} : live'[c] = live[c] /\ saved'[c] = saved[c]
        /\ UNCHANGED <<call, start, sweep, feed>> /\ UNCHANGED history
    BY <1>0, <2>1 DEF EndedWith, EndCall
  <2>3. ending' = ending \cup {[call |-> k, reason |-> reason, orphan |-> FALSE]}
    BY <2>1 DEF EndedWith, EndCall
  <2>4. /\ \E e \in ending' : e.call = k
        /\ \A c \in Calls \ {k} : (\E e \in ending' : e.call = c) <=> (\E e \in ending : e.call = c)
    <3>1. PICK n : n.call = k /\ ending' = ending \cup {n}
      <4>1. [call |-> k, reason |-> reason, orphan |-> FALSE].call = k
        OBVIOUS
      <4> QED
        BY <2>3, <4>1
    <3> QED
      BY <3>1
  <2> QED
    BY <1>3, <1>4, <2>2, <2>4 DEF history
<1>13. ASSUME NEW k \in Calls, Ping(k) PROVE CallsInv'
  <2>1. /\ live[k] # "no" /\ saved' = [saved EXCEPT ![k] = live[k]]
        /\ UNCHANGED <<call, live, start, ending, sweep, feed>> /\ UNCHANGED history
    BY <1>13 DEF Ping, memory
  <2>2. saved'[k] = live[k] /\ \A c \in Calls \ {k} : saved'[c] = saved[c]
    BY <1>0, <2>1
  <2> QED
    BY <1>3, <1>4, <1>5, <2>1, <2>2 DEF history
<1>14. ASSUME NEW k \in Calls, SweepNext(k) PROVE CallsInv'
  <2>1. /\ sweep.at = "rest" /\ k \in DOMAIN sweep.copy /\ sweep' = WithoutCopy(k)
        /\ UNCHANGED <<call, live, start, feed, answered, lost, refused, young>>
    BY <1>14 DEF SweepNext
  <2>2. DOMAIN sweep'.copy \subseteq DOMAIN sweep.copy
    BY <2>1 DEF WithoutCopy
  <2>3. call[k] # NotYet
    BY <2>1 DEF CallsInv, Traceless, Unused
  <2>4. Ours(k)' <=> Ours(k)
    BY <2>1 DEF Ours
  <2>5. CASE live[k] # "no"
    <3>1. UNCHANGED <<saved, ending>>
      BY <1>14, <2>5 DEF SweepNext
    <3> QED
      BY <1>3, <1>5, <1>6, <2>1, <2>2, <2>3, <2>4, <2>5, <3>1
  <2>6. CASE live[k] = "no"
    <3>1. saved' = [saved EXCEPT ![k] = "no"]
      BY <1>14, <2>6 DEF SweepNext
    <3>2. PICK reason \in {"disconnect", "missed"} :
              ending' = ending \cup {[call |-> k, orphan |-> TRUE, reason |-> reason]}
      BY <1>14, <2>6 DEF SweepNext
    <3>3. /\ \E e \in ending' : e.call = k
          /\ \A c \in Calls \ {k} : (\E e \in ending' : e.call = c) <=> (\E e \in ending : e.call = c)
      <4>1. PICK n : n.call = k /\ ending' = ending \cup {n}
        <5>1. [call |-> k, orphan |-> TRUE, reason |-> reason].call = k
          OBVIOUS
        <5> QED
          BY <3>2, <5>1
      <4> QED
        BY <4>1
    <3>4. \A c \in Calls \ {k} : saved'[c] = saved[c]
      BY <1>0, <3>1
    <3> QED
      BY <1>3, <2>1, <2>2, <2>3, <2>6, <3>3, <3>4
  <2> QED
    BY <2>5, <2>6
<1>15. ASSUME NEW k \in Calls, RemoteAnswered(k) \/ RemoteOver(k) PROVE CallsInv'
  <2>1. UNCHANGED <<call, live, saved, start, ending, sweep, feed>> /\ UNCHANGED history
    BY <1>15 DEF RemoteAnswered, RemoteOver
  <2> QED
    BY <1>0, <2>1, UntouchedCalls DEF history
<1>16. ASSUME NEW k \in Calls, NEW g \in Guests, NEW u \in Users, RingRemote(k, g, u) PROVE CallsInv'
  <2>1. /\ Unused(k) /\ call' = [call EXCEPT ![k] = [caller |-> g, callee |-> u]]
        /\ UNCHANGED <<live, saved, start, ending, sweep, feed>> /\ UNCHANGED history
    BY <1>16 DEF RingRemote
  <2>2. /\ call'[k] = [caller |-> g, callee |-> u]
        /\ \A c \in Calls \ {k} : call'[c] = call[c]
    BY <1>0, <2>1
  <2>3. g # "nobody" /\ g \notin Users
    BY CallsAssumption
  <2>4. ~ Ours(k)' /\ call'[k] # NotYet
    BY <2>2, <2>3 DEF Ours, NotYet
  <2> QED
    BY <1>3, <1>5, <2>1, <2>2, <2>4 DEF history
<1>17. ASSUME NEW e \in ending, Record(e) PROVE CallsInv'
  <2>0. PICK k \in Calls : k = e.call
    BY <1>0
  <2>1. /\ e.reason \in Reasons
        /\ ending' = ending \ {e} /\ feed' = [feed EXCEPT ![k] = Append(feed[k], e.reason)]
        /\ UNCHANGED <<call, live, start, sweep, saved>> /\ UNCHANGED history
    BY <1>0, <1>17, <2>0 DEF Record
  <2>2. call[k] # NotYet
    BY <2>0 DEF CallsInv, Traceless, Unused, NoRecord
  <2>3. \A c \in Calls \ {k} : feed'[c] = feed[c] /\ ((\E f \in ending' : f.call = c) <=> (\E f \in ending : f.call = c))
    BY <1>0, <2>0, <2>1
  <2>4. feed'[k] # <<>>
    <3>1. feed[k] \in Seq(Reasons) /\ feed'[k] = Append(feed[k], e.reason)
      BY <1>0, <2>1
    <3>2. Len(feed'[k]) = Len(feed[k]) + 1 /\ Len(feed[k]) \in Nat
      BY <2>1, <3>1
    <3> QED
      BY <3>2
  <2>5. Ours(k)' <=> Ours(k)
    BY <2>1 DEF Ours
  <2> QED
    BY <1>3, <1>5, <1>6, <2>1, <2>2, <2>3, <2>4, <2>5 DEF history
<1>18. ASSUME NEW e \in ending, RecordFails(e) PROVE CallsInv'
  <2>0. PICK k \in Calls : k = e.call
    BY <1>0
  <2>1. /\ ending' = ending \ {e} /\ lost' = lost \cup {k}
        /\ UNCHANGED <<call, live, start, sweep, saved, feed, answered, refused, young>>
    BY <1>0, <1>18, <2>0 DEF RecordFails
  <2>2. call[k] # NotYet
    BY <2>0 DEF CallsInv, Traceless, Unused, NoRecord
  <2>3. \A c \in Calls \ {k} : (\E f \in ending' : f.call = c) <=> (\E f \in ending : f.call = c)
    BY <2>0, <2>1
  <2>5. Ours(k)' <=> Ours(k)
    BY <2>1 DEF Ours
  <2> QED
    BY <1>3, <1>5, <1>6, <2>1, <2>2, <2>3, <2>5
<1>19. CASE SweepRead
  <2>1. /\ sweep' = [at |-> "rest", copy |-> [c \in {x \in Calls : saved[x] # "no"} |-> saved[c]]]
        /\ UNCHANGED <<call, live, start, ending, saved, feed>> /\ UNCHANGED history
    BY <1>19 DEF SweepRead
  <2>2. DOMAIN sweep'.copy = {x \in Calls : saved[x] # "no"}
    BY <2>1
  <2>3. Traceless'
    BY <2>1, <2>2 DEF CallsInv, Traceless, Unused, NoRecord, history
  <2>4. LiveIsYoung' /\ Uncopied' /\ NothingForgotten'
    BY <2>1 DEF CallsInv, LiveIsYoung, Uncopied, NothingForgotten, Ours, history
  <2> QED
    BY <1>0, <2>3, <2>4 DEF CallsInv
<1>20. CASE SweepDone
  <2>1. UNCHANGED <<call, live, start, ending, saved, feed>> /\ UNCHANGED history /\ sweep'.at = "done"
    BY <1>20 DEF SweepDone, Closed
  <2> QED
    BY <1>0, <2>1, UntouchedCalls DEF history
<1>21. CASE Restart
  <2>1. /\ \A c \in Calls : live'[c] = "no"
        /\ ending' = {} /\ sweep'.at = "boot" /\ UNCHANGED <<call, saved, feed, answered, refused>>
    BY <1>21 DEF Restart
  <2>2. lost' = lost \cup {e.call : e \in ending}
                    \cup {start[r].call : r \in {q \in Requests : start[q].at = "inviting"}}
    BY <1>21 DEF Restart
  <2>3. Traceless'
    BY <2>1 DEF CallsInv, Traceless, Unused, NoRecord
  <2>4. LiveIsYoung' /\ Uncopied'
    BY <2>1 DEF LiveIsYoung, Uncopied
  <2>5. NothingForgotten'
    <3>1. ASSUME NEW c \in Calls, Ours(c), saved[c] = "no", feed[c] = <<>> PROVE c \in lost' \cup refused
      <4>1. CASE live[c] = "no"
        BY <1>7, <2>2, <3>1, <4>1
      <4>2. CASE live[c] # "no"
        BY <1>6, <2>2, <3>1, <4>2
      <4> QED
        BY <4>1, <4>2
    <3> QED
      BY <2>1, <3>1 DEF NothingForgotten, Ours
  <2> QED
    BY <1>0, <2>3, <2>4, <2>5 DEF CallsInv
<1> QED
  BY <1>1, <1>2, <1>8, <1>9, <1>10, <1>11, <1>12, <1>13, <1>14, <1>15, <1>16, <1>17, <1>18,
     <1>19, <1>20, <1>21, Steps

LEMMA CallsAtFirst == Init => CallsInv
<1> SUFFICES ASSUME Init PROVE CallsInv
  OBVIOUS
<1>1. TypeOK
  <2>1. NotYet \in [caller : People \cup {"nobody"}, callee : People \cup {"nobody"}]
    BY DEF NotYet
  <2>2. << >> \in Seq(Reasons) /\ 0 \in 0 .. MaxFaults
    BY CallsAssumption
  <2>3. /\ call \in [Calls -> [caller : People \cup {"nobody"}, callee : People \cup {"nobody"}]]
        /\ feed \in [Calls -> Seq(Reasons)]
    BY <2>1, <2>2 DEF Init
  <2> QED
    BY <2>2, <2>3 DEF Init, TypeOK, Phases
<1>2. Traceless /\ LiveIsYoung /\ Uncopied
  BY DEF Init, Traceless, NoRecord, LiveIsYoung, Uncopied
<1>3. \A c \in Calls : ~ Ours(c)
  BY CallsAssumption DEF Init, Ours, NotYet
<1>4. NothingForgotten
  BY <1>3 DEF NothingForgotten
<1> QED
  BY <1>1, <1>2, <1>4 DEF CallsInv

\* The types, with the facts the records rest on.
THEOREM TypeCorrect == Spec => []CallsInv
<1> QED
  BY CallsAtFirst, CallsKept, PTL DEF Spec

\* No call of ours vanishes without a record (calls.ts: the copy of the calls
\* is there to close the cut ones by a record): whatever the order in which
\* people, timers, the watchdog, the other instance, restarts and the sweep
\* come, what is gone from the memory and the copy is in the conversation or
\* about to be, was refused, or is one whose record failed.
THEOREM NoCallIsForgotten == Spec => []NothingForgotten
<1>1. CallsInv => NothingForgotten
  BY DEF CallsInv
<1> QED
  BY <1>1, TypeCorrect, PTL

----------------------------------------------------------------------------
\* The copies the sweep has yet to look at stand as long as only calls that
\* began after the process did are copied anew.
LEMMA CopiesLeftAlone ==
    ASSUME CopyStands, young \subseteq young',
           \A c \in Calls \ young' : saved'[c] = saved[c],
           sweep.at = "rest" => DOMAIN sweep.copy \subseteq Calls,
           sweep' = sweep \/ sweep'.at # "rest"
    PROVE  CopyStands'
BY DEF CopyStands

\* A call that no step touched has the records it had.
LEMMA RecordsLeftAlone ==
    ASSUME NEW c \in Calls, OneRecord(c), AnswerStands(c),
           live'[c] = live[c], saved'[c] = saved[c], feed'[c] = feed[c],
           c \in answered' => c \in answered,
           \A e \in ending' : e.call = c => e \in ending
    PROVE  OneRecord(c)' /\ AnswerStands(c)'
<1>1. OneRecord(c)'
  BY DEF OneRecord, NoRecord
<1>2. AnswerStands(c)'
  BY DEF AnswerStands
<1> QED
  BY <1>1, <1>2

\* Of a call that has no record and is about to get one, that is the only one.
LEMMA RecordBegun ==
    ASSUME NEW c \in Calls, NoRecord(c), feed' = feed,
           live'[c] = "no", saved'[c] = "no", answered' = answered,
           NEW n, n.call = c, ending' = ending \cup {n},
           c \in answered => n.reason \in {"hangup", "disconnect"}
    PROVE  OneRecord(c)' /\ AnswerStands(c)'
<1>1. feed'[c] = <<>> /\ \A e \in ending' : e.call = c => e = n
  BY DEF NoRecord
<1>2. Len(feed'[c]) = 0 /\ DOMAIN feed'[c] = {}
  BY <1>1
<1>3. OneRecord(c)'
  BY <1>1, <1>2 DEF OneRecord
<1>4. AnswerStands(c)'
  BY <1>1, <1>2 DEF AnswerStands
<1> QED
  BY <1>3, <1>4

\* Every step keeps the records of a call to one.
LEMMA RecordsKept == CallsInv /\ RecordInv /\ [Next]_vars => RecordInv'
<1> SUFFICES ASSUME CallsInv, RecordInv, [Next]_vars PROVE RecordInv'
  OBVIOUS
<1>0. /\ live \in [Calls -> Phases] /\ saved \in [Calls -> Phases] /\ feed \in [Calls -> Seq(Reasons)]
      /\ \A r \in Requests : start[r].at = "inviting" => start[r].call \in Calls
      /\ ending \in SUBSET [call : Calls, reason : Reasons, orphan : BOOLEAN]
      /\ \A c \in Calls : live[c] \in {"no", "ringing", "active"}
      /\ sweep.at = "rest" => /\ DOMAIN sweep.copy \in SUBSET Calls
                              /\ \A c \in DOMAIN sweep.copy : sweep.copy[c] \in {"ringing", "active"}
  BY StartShapes, SweepShapes DEF CallsInv, TypeOK, Phases
<1>a. CopyStands /\ \A c \in Calls \ again : OneRecord(c) /\ AnswerStands(c)
  BY DEF RecordInv
<1>b. \A c \in Calls : live[c] # "no" => c \in young
  BY DEF CallsInv, LiveIsYoung
<1>c. \A c \in Calls \ again : live[c] # "no" => NoRecord(c)
  BY <1>a DEF OneRecord
\* What a step does that touches call k only.
<1>d. ASSUME NEW k \in Calls, again \subseteq again', CopyStands',
             k \notin again' => OneRecord(k)' /\ AnswerStands(k)',
             \A c \in Calls \ {k} :
               /\ live'[c] = live[c] /\ saved'[c] = saved[c] /\ feed'[c] = feed[c]
               /\ c \in answered' => c \in answered
               /\ \A e \in ending' : e.call = c => e \in ending
      PROVE  RecordInv'
  <2>1. ASSUME NEW c \in Calls, c # k, c \notin again' PROVE OneRecord(c)' /\ AnswerStands(c)'
    BY <1>a, <1>d, <2>1, RecordsLeftAlone
  <2> QED
    BY <1>d, <2>1 DEF RecordInv
\* What a step does that touches no record.
<1>e. ASSUME UNCHANGED <<live, saved, feed, ending, answered, again, young>>,
             sweep' = sweep \/ sweep'.at # "rest"
      PROVE  RecordInv'
  <2>1. CopyStands'
    BY <1>0, <1>a, <1>e, CopiesLeftAlone
  <2>2. ASSUME NEW c \in Calls, c \notin again' PROVE OneRecord(c)' /\ AnswerStands(c)'
    BY <1>a, <1>e, <2>2, RecordsLeftAlone
  <2> QED
    BY <2>1, <2>2 DEF RecordInv
<1>1. CASE UNCHANGED vars
  BY <1>1, <1>e DEF vars, memory, history
<1>2. ASSUME NEW r \in Requests, NEW me \in Users, NEW peer \in People, CheckFree(r, me, peer) PROVE RecordInv'
  BY <1>2, <1>e DEF CheckFree, history
<1>3. ASSUME NEW r \in Requests, Register(r) PROVE RecordInv'
  <2>1. PICK k \in Calls :
             /\ Unused(k)
             /\ live' = [live EXCEPT ![k] = "ringing"]
             /\ young' = young \cup {k}
             /\ saved' = saved \/ saved' = [saved EXCEPT ![k] = "ringing"]
    BY <1>3 DEF Register
  <2>2. UNCHANGED <<ending, sweep, feed, answered, again>>
    BY <1>3 DEF Register
  <2>3. NoRecord(k) /\ k \notin answered
    BY <2>1 DEF CallsInv, Traceless
  <2>4. \A c \in Calls \ {k} : live'[c] = live[c] /\ saved'[c] = saved[c]
    BY <1>0, <2>1
  <2>5. CopyStands'
    BY <1>0, <1>a, <2>1, <2>2, <2>4, CopiesLeftAlone
  <2>6. OneRecord(k)' /\ AnswerStands(k)'
    <3>1. feed'[k] = <<>> /\ Len(feed'[k]) = 0
      BY <2>2, <2>3 DEF NoRecord
    <3> QED
      BY <2>2, <2>3, <3>1 DEF OneRecord, NoRecord, AnswerStands
  <2> QED
    BY <1>d, <2>2, <2>4, <2>5, <2>6
\* A copy made anew of what is in the memory.
<1>f. ASSUME NEW k \in Calls, live[k] # "no", saved' = [saved EXCEPT ![k] = live[k]],
             UNCHANGED <<live, feed, ending, sweep, answered, young, again>>
      PROVE  RecordInv'
  <2>1. saved'[k] = live[k] /\ \A c \in Calls \ {k} : saved'[c] = saved[c]
    BY <1>0, <1>f
  <2>2. CopyStands'
    BY <1>0, <1>a, <1>b, <1>f, <2>1, CopiesLeftAlone
  <2>3. ASSUME k \notin again PROVE OneRecord(k)' /\ AnswerStands(k)'
    <3>1. OneRecord(k) /\ AnswerStands(k) /\ NoRecord(k)
      BY <1>a, <1>c, <1>f, <2>3
    <3>2. OneRecord(k)'
      BY <1>f, <3>1 DEF OneRecord, NoRecord
    <3>3. AnswerStands(k)'
      BY <1>f, <2>1, <3>1 DEF AnswerStands
    <3> QED
      BY <3>2, <3>3
  <2> QED
    BY <1>d, <1>f, <2>1, <2>2, <2>3
<1>4. ASSUME NEW r \in Requests, Invited(r) PROVE RecordInv'
  <2>1. PICK k \in Calls : k = start[r].call
    BY <1>0, <1>4 DEF Invited
  <2>2. /\ saved' = IF live[k] = "no" THEN saved ELSE [saved EXCEPT ![k] = live[k]]
        /\ UNCHANGED <<live, feed, ending, sweep, answered, young, again>>
    BY <1>4, <2>1 DEF Invited, history
  <2>3. CASE live[k] = "no"
    BY <1>e, <2>2, <2>3
  <2>4. CASE live[k] # "no"
    BY <1>f, <2>2, <2>4
  <2> QED
    BY <2>3, <2>4
<1>5. ASSUME NEW r \in Requests, Refused(r) PROVE RecordInv'
  <2>1. PICK k \in Calls : k = start[r].call
    BY <1>0, <1>5 DEF Refused
  <2>2. /\ live' = [live EXCEPT ![k] = "no"]
        /\ UNCHANGED <<saved, feed, ending, sweep, answered, young, again>>
    BY <1>5, <2>1 DEF Refused
  <2>3. live'[k] = "no" /\ \A c \in Calls \ {k} : live'[c] = live[c]
    BY <1>0, <2>2
  <2>4. CopyStands'
    BY <1>0, <1>a, <2>2, CopiesLeftAlone
  <2>5. ASSUME k \notin again PROVE OneRecord(k)' /\ AnswerStands(k)'
    <3>1. OneRecord(k)'
      BY <1>a, <2>2, <2>3, <2>5 DEF OneRecord, NoRecord
    <3>2. AnswerStands(k)'
      BY <1>a, <2>2, <2>3, <2>5 DEF AnswerStands
    <3> QED
      BY <3>1, <3>2
  <2> QED
    BY <1>d, <2>2, <2>3, <2>4, <2>5
<1>6. ASSUME NEW k \in Calls, Answer(k) PROVE RecordInv'
  <2>1. /\ live[k] = "ringing" /\ live' = [live EXCEPT ![k] = "active"]
        /\ saved' = [saved EXCEPT ![k] = "active"] /\ answered' = answered \cup {k}
        /\ UNCHANGED <<feed, ending, sweep, young, again>>
    BY <1>6 DEF Answer
  <2>2. /\ live'[k] = "active" /\ saved'[k] = "active"
        /\ \A c \in Calls \ {k} : live'[c] = live[c] /\ saved'[c] = saved[c] /\ (c \in answered' => c \in answered)
    BY <1>0, <2>1
  <2>3. CopyStands'
    BY <1>0, <1>a, <1>b, <2>1, <2>2, CopiesLeftAlone
  <2>4. ASSUME k \notin again PROVE OneRecord(k)' /\ AnswerStands(k)'
    <3>1. feed'[k] = <<>> /\ \A e \in ending' : e.call # k
      BY <1>c, <2>1, <2>4 DEF NoRecord
    <3>2. Len(feed'[k]) = 0 /\ DOMAIN feed'[k] = {}
      BY <3>1
    <3>3. OneRecord(k)'
      BY <3>1, <3>2 DEF OneRecord, NoRecord
    <3>4. AnswerStands(k)'
      BY <2>2, <3>1, <3>2 DEF AnswerStands
    <3> QED
      BY <3>3, <3>4
  <2> QED
    BY <1>d, <2>1, <2>2, <2>3, <2>4
<1>7. ASSUME NEW k \in Calls, Ends(k) PROVE RecordInv'
  <2>1. PICK reason \in Reasons : EndedWith(k, reason)
    BY <1>7, EndsWithAReason
  <2>2. /\ live[k] # "no" /\ live'[k] = "no" /\ saved'[k] = "no"
        /\ \A c \in Calls \ {k} : live'[c] = live[c] /\ saved'[c] = saved[c]
        /\ UNCHANGED <<sweep, feed, answered, young, again>>
        /\ live[k] = "active" => reason \in {"hangup", "disconnect"}
    BY <1>0, <2>1 DEF EndedWith, EndCall, history
  <2>3. PICK n : n.call = k /\ n.reason = reason /\ ending' = ending \cup {n}
    <3>1. ending' = ending \cup {[call |-> k, reason |-> reason, orphan |-> FALSE]}
      BY <2>1 DEF EndedWith, EndCall
    <3>2. /\ [call |-> k, reason |-> reason, orphan |-> FALSE].call = k
          /\ [call |-> k, reason |-> reason, orphan |-> FALSE].reason = reason
      OBVIOUS
    <3> QED
      BY <3>1, <3>2
  <2>4. CopyStands'
    BY <1>0, <1>a, <1>b, <2>2, CopiesLeftAlone
  <2>5. ASSUME k \notin again PROVE OneRecord(k)' /\ AnswerStands(k)'
    <3>1. NoRecord(k) /\ (k \in answered => live[k] = "active")
      BY <1>0, <1>a, <1>c, <2>2, <2>5 DEF AnswerStands
    <3> QED
      BY <2>2, <2>3, <3>1, RecordBegun
  <2> QED
    BY <1>d, <2>2, <2>3, <2>4, <2>5
<1>8. ASSUME NEW k \in Calls, Ping(k) PROVE RecordInv'
  BY <1>8, <1>f DEF Ping, memory, history
<1>9. ASSUME NEW k \in Calls, SweepNext(k) PROVE RecordInv'
  <2>1. /\ sweep.at = "rest" /\ k \in DOMAIN sweep.copy
        /\ sweep' = [at |-> "rest", copy |-> [x \in DOMAIN sweep.copy \ {k} |-> sweep.copy[x]]]
        /\ UNCHANGED <<live, feed, answered, young>>
    BY <1>9 DEF SweepNext, WithoutCopy
  <2>2. /\ DOMAIN sweep'.copy = DOMAIN sweep.copy \ {k}
        /\ \A c \in DOMAIN sweep'.copy : sweep'.copy[c] = sweep.copy[c]
    BY <2>1
  <2>3. CASE live[k] # "no"
    <3>1. UNCHANGED <<saved, ending, again>>
      BY <1>9, <2>3 DEF SweepNext
    <3>2. CopyStands'
      BY <1>a, <2>1, <2>2, <3>1 DEF CopyStands
    <3>3. k \notin again => OneRecord(k)' /\ AnswerStands(k)'
      BY <1>a, <2>1, <3>1, RecordsLeftAlone
    <3> QED
      BY <1>d, <2>1, <3>1, <3>2, <3>3
  <2>4. CASE live[k] = "no"
    <3>1. saved' = [saved EXCEPT ![k] = "no"] /\ again' = again \cup ({k} \cap young)
      BY <1>9, <2>4 DEF SweepNext
    <3>2. PICK n : /\ n.call = k /\ ending' = ending \cup {n}
                   /\ n.reason = IF sweep.copy[k] = "active" THEN "disconnect" ELSE "missed"
      <4> DEFINE reason == IF sweep.copy[k] = "active" THEN "disconnect" ELSE "missed"
                 m == [call |-> k, orphan |-> TRUE, reason |-> reason]
      <4>1. ending' = ending \cup {m}
        BY <1>9, <2>4 DEF SweepNext
      <4>2. m.call = k /\ m.reason = reason
        OBVIOUS
      <4> QED
        BY <4>1, <4>2
    <3>3. saved'[k] = "no" /\ \A c \in Calls \ {k} : saved'[c] = saved[c]
      BY <1>0, <3>1
    <3>4. CopyStands'
      BY <1>0, <1>a, <2>1, <2>2, <3>3 DEF CopyStands
    <3>5. ASSUME k \notin again' PROVE OneRecord(k)' /\ AnswerStands(k)'
      <4>1. k \notin again /\ k \notin young
        BY <3>1, <3>5
      <4>2. saved[k] = sweep.copy[k] /\ saved[k] # "no"
        BY <1>a, <2>1, <4>1 DEF CopyStands
      <4>3. NoRecord(k)
        BY <1>a, <4>1, <4>2 DEF OneRecord
      <4>4. k \in answered => n.reason = "disconnect"
        BY <1>0, <1>a, <2>1, <3>2, <4>1, <4>2 DEF AnswerStands
      <4> QED
        BY <2>1, <2>4, <3>2, <3>3, <4>3, <4>4, RecordBegun
    <3> QED
      BY <1>d, <2>1, <3>1, <3>2, <3>3, <3>4, <3>5
  <2> QED
    BY <2>3, <2>4
<1>10. ASSUME NEW k \in Calls, RemoteAnswered(k) \/ RemoteOver(k) PROVE RecordInv'
  BY <1>10, <1>e DEF RemoteAnswered, RemoteOver, history
<1>11. ASSUME NEW k \in Calls, NEW g \in Guests, NEW u \in Users, RingRemote(k, g, u) PROVE RecordInv'
  BY <1>11, <1>e DEF RingRemote, history
<1>12. ASSUME NEW e \in ending, Record(e) PROVE RecordInv'
  <2>1. PICK k \in Calls : k = e.call
    BY <1>0
  <2>2. /\ ending' = ending \ {e} /\ feed' = [feed EXCEPT ![k] = Append(feed[k], e.reason)]
        /\ UNCHANGED <<live, saved, sweep, answered, young, again>>
    BY <1>12, <2>1 DEF Record, history
  <2>3. feed'[k] = Append(feed[k], e.reason) /\ \A c \in Calls \ {k} : feed'[c] = feed[c]
    BY <1>0, <2>2
  <2>4. CopyStands'
    BY <1>0, <1>a, <2>2, CopiesLeftAlone
  <2>5. ASSUME k \notin again PROVE OneRecord(k)' /\ AnswerStands(k)'
    <3>1. OneRecord(k) /\ AnswerStands(k)
      BY <1>a, <2>5
    <3>2. feed[k] = <<>> /\ live[k] = "no" /\ saved[k] = "no" /\ \A f \in ending' : f.call # k
      BY <2>1, <2>2, <3>1 DEF OneRecord, NoRecord
    <3>3. feed'[k] = <<e.reason>>
      BY <2>3, <3>2
    <3>4. Len(feed'[k]) = 1 /\ DOMAIN feed'[k] = {1} /\ feed'[k][1] = e.reason
      BY <3>3
    <3>5. OneRecord(k)'
      BY <2>2, <3>2, <3>4 DEF OneRecord
    <3>6. AnswerStands(k)'
      BY <2>1, <2>2, <3>1, <3>2, <3>4 DEF AnswerStands
    <3> QED
      BY <3>5, <3>6
  <2> QED
    BY <1>d, <2>2, <2>3, <2>4, <2>5
<1>13. ASSUME NEW e \in ending, RecordFails(e) PROVE RecordInv'
  <2>1. ending' = ending \ {e} /\ UNCHANGED <<live, saved, sweep, feed, answered, young, again>>
    BY <1>13 DEF RecordFails
  <2>2. CopyStands'
    BY <1>0, <1>a, <2>1, CopiesLeftAlone
  <2>3. ASSUME NEW c \in Calls, c \notin again' PROVE OneRecord(c)' /\ AnswerStands(c)'
    BY <1>a, <2>1, <2>3, RecordsLeftAlone
  <2> QED
    BY <2>2, <2>3 DEF RecordInv
<1>14. CASE SweepRead
  <2>1. /\ sweep' = [at |-> "rest", copy |-> [c \in {x \in Calls : saved[x] # "no"} |-> saved[c]]]
        /\ UNCHANGED <<live, feed, ending, saved, answered, young, again>>
    BY <1>14 DEF SweepRead, history
  <2>2. CopyStands'
    <3>1. /\ DOMAIN sweep'.copy = {x \in Calls : saved[x] # "no"}
          /\ \A c \in DOMAIN sweep'.copy : sweep'.copy[c] = saved[c]
      BY <2>1
    <3> QED
      BY <2>1, <3>1 DEF CopyStands
  <2>3. ASSUME NEW c \in Calls, c \notin again' PROVE OneRecord(c)' /\ AnswerStands(c)'
    BY <1>a, <2>1, <2>3, RecordsLeftAlone
  <2> QED
    BY <2>2, <2>3 DEF RecordInv
<1>15. CASE SweepDone
  BY <1>15, <1>e DEF SweepDone, Closed, history
<1>16. CASE Restart
  <2>1. /\ \A c \in Calls : live'[c] = "no"
        /\ ending' = {} /\ sweep'.at = "boot" /\ UNCHANGED <<saved, feed, answered, again>>
    BY <1>16 DEF Restart
  <2>2. CopyStands'
    BY <2>1 DEF CopyStands
  <2>3. ASSUME NEW c \in Calls, c \notin again' PROVE OneRecord(c)' /\ AnswerStands(c)'
    <3>1. OneRecord(c)'
      BY <1>a, <2>1, <2>3 DEF OneRecord, NoRecord
    <3>2. AnswerStands(c)'
      BY <1>a, <2>1, <2>3 DEF AnswerStands
    <3> QED
      BY <3>1, <3>2
  <2> QED
    BY <2>2, <2>3 DEF RecordInv
<1> QED
  BY <1>1, <1>2, <1>3, <1>4, <1>5, <1>6, <1>7, <1>8, <1>9, <1>10, <1>11, <1>12, <1>13, <1>14, <1>15, <1>16, Steps

LEMMA RecordsHold == Spec => []RecordInv
<1>1. Init => RecordInv
  <2> SUFFICES ASSUME Init PROVE RecordInv
    OBVIOUS
  <2>1. \A c \in Calls : Len(feed[c]) = 0 /\ DOMAIN feed[c] = {}
    BY DEF Init
  <2> QED
    BY <2>1 DEF Init, RecordInv, CopyStands, OneRecord, NoRecord, AnswerStands
<1> QED
  BY <1>1, RecordsKept, TypeCorrect, PTL DEF Spec

\* A call has one record (calls.ts: a call ends once, by its people, a timer,
\* the watchdog or the sweep after a restart); the exception is a call that
\* began after the restart and is in the sweep's copy all the same.
THEOREM CallHasOneRecord == Spec => []RecordedOnce
<1>1. CallsInv /\ RecordInv => RecordedOnce
  <2> SUFFICES ASSUME CallsInv, RecordInv, NEW c \in Calls, c \notin again, Len(feed[c]) > 1 PROVE FALSE
    BY DEF RecordedOnce
  <2>1. Len(feed[c]) <= 1
    BY DEF RecordInv, OneRecord
  <2>2. Len(feed[c]) \in Nat
    BY DEF CallsInv, TypeOK
  <2> QED
    BY <2>1, <2>2
<1> QED
  BY <1>1, TypeCorrect, RecordsHold, PTL

\* Who answered has not missed the call (callRules.ts: the reason of the
\* record), also when the sweep knows the call from its copy alone.
THEOREM AnsweredCallIsNotMissed == Spec => []AnsweredIsNotMissed
<1>1. CallsInv /\ RecordInv => AnsweredIsNotMissed
  BY DEF CallsInv, TypeOK, RecordInv, AnswerStands, AnsweredIsNotMissed
<1> QED
  BY <1>1, TypeCorrect, RecordsHold, PTL

=============================================================================
