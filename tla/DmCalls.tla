------------------------------- MODULE DmCalls -------------------------------
(***************************************************************************)
(* Calls between two people (backend calls.ts, callRules.ts).  A call lives *)
(* in the memory of the process with a copy in Redis; it ends by its        *)
(* people, its ring timer or the watchdog, and its end is a record in the   *)
(* conversation.  After a restart the calls of the copy are closed.  Every  *)
(* await is a step.  Redis, the database, and the other instance of a call  *)
(* that crosses instances are external.                                     *)
(***************************************************************************)
EXTENDS Integers, FiniteSets, Sequences

CONSTANTS
    Users,      \* people of this instance
    Guests,     \* people of another instance
    Calls,      \* bound: ids of calls
    Requests,   \* bound: startCall at work at one time
    MaxFaults   \* bound: restarts and failed records

VARIABLES
    call,       \* whose call it is: caller, callee; none before it starts
    live,       \* the map `live`: phase of a call, "no" when it is not there
    remote,     \* the map `remote`: calls of the other instance's people to ours
    saved,      \* the copy in Redis: the phase as saved
    start,      \* startCall, for each request
    ending,     \* end: calls whose record is being written
    sweep,      \* closeOrphanCalls: not begun, the copies still to look at, or done
    feed,       \* per call the reasons on its records in the conversation
    \* history
    answered,   \* calls that were answered
    lost,       \* calls whose record failed or was cut by a restart, and calls
                \* whose invitation was
    refused,    \* calls a refusal removed
    young,      \* calls that began since the process did
    again,      \* of those, the ones the sweep took for cut
    faults

memory == <<live, remote, start, ending, sweep>>
history == <<answered, lost, refused, young, again, faults>>
vars == <<call, memory, saved, feed, history>>

ASSUME CallsAssumption ==
    /\ Users \cap Guests = {}
    /\ "nobody" \notin Users \cup Guests
    /\ MaxFaults \in Nat

People == Users \cup Guests
NotYet == [caller |-> "nobody", callee |-> "nobody"]
Idle == [at |-> "idle"]
Closed == [at |-> "done"]

Unused(c) == call[c] = NotYet
Of(c, u) == u \in {call[c].caller, call[c].callee}

Init ==
    /\ call = [c \in Calls |-> NotYet]
    /\ live = [c \in Calls |-> "no"]
    /\ remote = [c \in Calls |-> "no"]
    /\ saved = [c \in Calls |-> "no"]
    /\ start = [r \in Requests |-> Idle]
    /\ ending = {}
    /\ sweep = [at |-> "boot"]
    /\ feed = [c \in Calls |-> <<>>]
    /\ answered = {}
    /\ lost = {}
    /\ refused = {}
    /\ young = {}
    /\ again = {}
    /\ faults = 0

\* The bound on calls: an id is left for every call that is starting.
IdsLeft == Cardinality({r \in Requests : start[r].at = "checked"}) < Cardinality({c \in Calls : Unused(c)})

\* inCall over allCalls: live and remote.
InCall(u) == \E c \in Calls : Of(c, u) /\ (live[c] # "no" \/ remote[c] # "no")

----------------------------------------------------------------------------
\* end, up to its first await: the call leaves the memory and the copy.
\* What follows is its record.
EndCall(c, reason) ==
    /\ live' = [live EXCEPT ![c] = "no"]
    /\ saved' = [saved EXCEPT ![c] = "no"]
    /\ ending' = ending \cup {[call |-> c, reason |-> reason, orphan |-> FALSE]}

\* Wrong: the copy keeps the phase it had.
AnswerUnsaved(c) ==
    /\ live[c] = "ringing"
    /\ live' = [live EXCEPT ![c] = "active"]
    /\ answered' = answered \cup {c}
    /\ UNCHANGED <<call, remote, start, ending, sweep, saved, feed, lost, refused, young, again, faults>>

\* act, "answer": the callee, while it rings.
Answer(c) ==
    /\ live[c] = "ringing"
    /\ live' = [live EXCEPT ![c] = "active"]
    /\ saved' = [saved EXCEPT ![c] = "active"]
    /\ answered' = answered \cup {c}
    /\ UNCHANGED <<call, remote, start, ending, sweep, feed, lost, refused, young, again, faults>>

\* callTransition: what a hang-up of one of the two means, by phase.
Reason(c, who) ==
    IF live[c] = "active" THEN "hangup"
    ELSE IF who = call[c].caller THEN "missed" ELSE "busy"

\* act, "decline" and "hangup".
HangUp(c, who) ==
    /\ live[c] # "no"
    /\ Of(c, who)
    /\ EndCall(c, Reason(c, who))
    /\ UNCHANGED <<call, remote, start, sweep, feed, history>>

\* The ring timer: finish, "timeout".
RingTimeout(c) ==
    /\ live[c] = "ringing"
    /\ EndCall(c, "missed")
    /\ UNCHANGED <<call, remote, start, sweep, feed, history>>

\* The watchdog finds a participant silent: finish, "drop".
Drop(c) ==
    /\ live[c] # "no"
    /\ EndCall(c, IF live[c] = "active" THEN "disconnect" ELSE "missed")
    /\ UNCHANGED <<call, remote, start, sweep, feed, history>>

\* ping: a sign of life renews the copy.
Ping(c) ==
    /\ live[c] # "no"
    /\ saved' = [saved EXCEPT ![c] = live[c]]
    /\ UNCHANGED <<call, memory, feed, history>>

----------------------------------------------------------------------------
\* startCall: the peer's call to me rings already, so this is its answer.
CounterCall(me, peer) ==
    \E c \in Calls :
        /\ call[c] = [caller |-> peer, callee |-> me]
        /\ Answer(c)

\* startCall: the line of both is free; the peer's home is asked for.
CheckFree(r, me, peer) ==
    /\ start[r] = Idle
    /\ IdsLeft
    /\ ~ InCall(me) /\ ~ InCall(peer)
    /\ start' = [start EXCEPT ![r] = [at |-> "checked", me |-> me, peer |-> peer]]
    /\ UNCHANGED <<call, live, remote, ending, sweep, saved, feed, history>>

\* Wrong: the copy waits for the first ping.
RegisterUnsaved(r) ==
    /\ start[r].at = "checked"
    /\ \E c \in Calls :
         /\ Unused(c)
         /\ call' = [call EXCEPT ![c] = [caller |-> start[r].me, callee |-> start[r].peer]]
         /\ live' = [live EXCEPT ![c] = "ringing"]
         /\ young' = young \cup {c}
    /\ start' = [start EXCEPT ![r] = Idle]
    /\ UNCHANGED <<remote, ending, sweep, saved, feed, answered, lost, refused, again, faults>>

\* startCall, the home is known: the call is there.  A local one is saved at
\* once, one to another instance after the answer of that instance.
Register(r) ==
    /\ start[r].at = "checked"
    /\ \E c \in Calls :
         LET abroad == start[r].peer \in Guests
         IN  /\ Unused(c)
             /\ call' = [call EXCEPT ![c] = [caller |-> start[r].me, callee |-> start[r].peer]]
             /\ live' = [live EXCEPT ![c] = "ringing"]
             /\ young' = young \cup {c}
             /\ saved' = IF abroad THEN saved ELSE [saved EXCEPT ![c] = "ringing"]
             /\ start' = [start EXCEPT ![r] = IF abroad THEN [at |-> "inviting", call |-> c]
                                              ELSE Idle]
    /\ UNCHANGED <<remote, ending, sweep, feed, answered, lost, refused, again, faults>>

\* invite returns: accepted.  The call may be over by then.
Invited(r) ==
    /\ start[r].at = "inviting"
    /\ LET c == start[r].call
       IN  saved' = IF live[c] = "no" THEN saved ELSE [saved EXCEPT ![c] = live[c]]
    /\ start' = [start EXCEPT ![r] = Idle]
    /\ UNCHANGED <<call, live, remote, ending, sweep, feed, history>>

\* invite returns: refused, or the other instance is not there.  The call is
\* removed without an end; a copy the callee's answer or ping has made stays.
Refused(r) ==
    /\ start[r].at = "inviting"
    /\ LET c == start[r].call
       IN  /\ live' = [live EXCEPT ![c] = "no"]
           /\ refused' = IF live[c] = "no" THEN refused ELSE refused \cup {c}
    /\ start' = [start EXCEPT ![r] = Idle]
    /\ UNCHANGED <<call, remote, ending, sweep, saved, feed, answered, lost, young, again, faults>>

----------------------------------------------------------------------------
\* record: the line in the conversation, written or not.
Record(e) ==
    /\ e \in ending
    /\ ending' = ending \ {e}
    /\ feed' = [feed EXCEPT ![e.call] = Append(@, e.reason)]
    /\ UNCHANGED <<call, live, remote, start, sweep, saved, history>>

RecordFails(e) ==
    /\ e \in ending
    /\ faults < MaxFaults
    /\ faults' = faults + 1
    /\ ending' = ending \ {e}
    /\ lost' = lost \cup {e.call}
    /\ UNCHANGED <<call, live, remote, start, sweep, saved, feed, answered, refused, young, again>>

----------------------------------------------------------------------------
\* Wrong: only conversations that were going on are closed.
SweepReadActive ==
    /\ sweep.at = "boot"
    /\ sweep' = [at |-> "rest", copy |-> [c \in {x \in Calls : saved[x] = "active"} |-> saved[c]]]
    /\ UNCHANGED <<call, live, remote, start, ending, saved, feed, history>>

\* closeOrphanCalls, begun after the process listens: the copies are read.
SweepRead ==
    /\ sweep.at = "boot"
    /\ sweep' = [at |-> "rest", copy |-> [c \in {x \in Calls : saved[x] # "no"} |-> saved[c]]]
    /\ UNCHANGED <<call, live, remote, start, ending, saved, feed, history>>

WithoutCopy(c) == [at |-> "rest", copy |-> [x \in DOMAIN sweep.copy \ {c} |-> sweep.copy[x]]]

\* Wrong: whatever is in the copy was cut.
SweepNextOfAny(c) ==
    /\ sweep.at = "rest"
    /\ c \in DOMAIN sweep.copy
    /\ \A e \in ending : ~ e.orphan
    /\ sweep' = WithoutCopy(c)
    /\ saved' = [saved EXCEPT ![c] = "no"]
    /\ ending' = ending \cup {[call |-> c, orphan |-> TRUE,
                  reason |-> IF sweep.copy[c] = "active" THEN "disconnect" ELSE "missed"]}
    /\ UNCHANGED <<call, live, remote, start, feed, history>>

\* The next copy, when the record of the one before is written.
SweepNext(c) ==
    /\ sweep.at = "rest"
    /\ c \in DOMAIN sweep.copy
    /\ \A e \in ending : ~ e.orphan
    /\ sweep' = WithoutCopy(c)
    /\ IF live[c] # "no" THEN UNCHANGED <<saved, ending, again>>
       ELSE /\ saved' = [saved EXCEPT ![c] = "no"]
            /\ ending' = ending \cup {[call |-> c, orphan |-> TRUE,
                          reason |-> IF sweep.copy[c] = "active" THEN "disconnect" ELSE "missed"]}
            /\ again' = again \cup ({c} \cap young)
    /\ UNCHANGED <<call, live, remote, start, feed, answered, lost, refused, young, faults>>

SweepDone ==
    /\ sweep.at = "rest"
    /\ DOMAIN sweep.copy = {}
    /\ sweep' = Closed
    /\ UNCHANGED <<call, live, remote, start, ending, saved, feed, history>>

\* The process dies and starts again.
Restart ==
    /\ faults < MaxFaults
    /\ faults' = faults + 1
    /\ live' = [c \in Calls |-> "no"]
    /\ remote' = [c \in Calls |-> "no"]
    /\ start' = [r \in Requests |-> Idle]
    /\ lost' = lost \cup {e.call : e \in ending}
                    \cup {start[r].call : r \in {q \in Requests : start[q].at = "inviting"}}
    /\ ending' = {}
    /\ sweep' = [at |-> "boot"]
    /\ young' = {}
    /\ UNCHANGED <<call, saved, feed, answered, refused, again>>

----------------------------------------------------------------------------
(* The other side of a call that crosses instances: our people are called. *)

\* ringRemote: a busy callee is refused.
RingRemote(c, caller, callee) ==
    /\ Unused(c) /\ IdsLeft
    /\ ~ InCall(callee)
    /\ call' = [call EXCEPT ![c] = [caller |-> caller, callee |-> callee]]
    /\ remote' = [remote EXCEPT ![c] = "ringing"]
    /\ UNCHANGED <<live, start, ending, sweep, saved, feed, history>>

\* applyRemoteState: answered.
RemoteAnswered(c) ==
    /\ remote[c] = "ringing"
    /\ remote' = [remote EXCEPT ![c] = "active"]
    /\ UNCHANGED <<call, live, start, ending, sweep, saved, feed, history>>

\* applyRemoteState, ended; or the timer, when the state never comes.
RemoteOver(c) ==
    /\ remote[c] # "no"
    /\ remote' = [remote EXCEPT ![c] = "no"]
    /\ UNCHANGED <<call, live, start, ending, sweep, saved, feed, history>>

----------------------------------------------------------------------------
Next ==
    \/ \E r \in Requests : \/ \E me \in Users, peer \in People : me # peer /\ CheckFree(r, me, peer)
                           \/ Register(r) \/ Invited(r) \/ Refused(r)
    \/ \E me \in Users, peer \in Users : CounterCall(me, peer)
    \/ \E c \in Calls : \/ Answer(c) \/ RingTimeout(c) \/ Drop(c) \/ Ping(c)
                        \/ \E who \in People : HangUp(c, who)
                        \/ SweepNext(c) \/ RemoteAnswered(c) \/ RemoteOver(c)
                        \/ \E g \in Guests, u \in Users : RingRemote(c, g, u)
    \/ \E e \in ending : Record(e) \/ RecordFails(e)
    \/ SweepRead \/ SweepDone \/ Restart

Spec == Init /\ [][Next]_vars

\* The process goes on with what it began.
FairSpec ==
    /\ Spec
    /\ WF_vars(\E e \in ending : Record(e))
    /\ WF_vars(SweepRead \/ SweepDone \/ \E c \in Calls : SweepNext(c))

----------------------------------------------------------------------------
Ours(c) == call[c].caller \in Users

\* INV: no call of ours vanishes without a record: a call that is neither in
\* the memory nor in the copy nor about to be recorded is in the conversation,
\* unless the record itself failed or was cut, or the other instance refused
\* the call (calls.ts: the copy is there to close cut calls by a record and
\* not to lose them silently).
NothingForgotten ==
    \A c \in Calls :
        (/\ Ours(c) /\ live[c] = "no" /\ saved[c] = "no"
         /\ \A e \in ending : e.call # c)
        => feed[c] # <<>> \/ c \in lost \cup refused

\* INV: a call has one record, be it ended by its people, a timer or the
\* sweep after a restart, unless the sweep meets the copy of a call that
\* began and ended after the restart.
RecordedOnce == \A c \in Calls : Len(feed[c]) > 1 => c \in again

\* INV: who answered has not missed the call, whatever ended it: the sweep
\* knows it from the copy alone.
AnsweredIsNotMissed ==
    \A c \in answered \ again : \A i \in DOMAIN feed[c] : feed[c][i] \in {"hangup", "disconnect"}

\* LIVE: a call cut by a restart gets its record, or loses it to a failure.
CutCallsAreClosed ==
    \A c \in Calls :
        (sweep.at = "boot" /\ saved[c] # "no" /\ live[c] = "no") ~> (feed[c] # <<>> \/ c \in lost)
=============================================================================
