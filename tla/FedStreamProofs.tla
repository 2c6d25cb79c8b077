--------------------------- MODULE FedStreamProofs --------------------------
(***************************************************************************)
(* The safety of the stream of events for any number of events, requests,  *)
(* crashes and pauses and any limits.                                      *)
(*                                                                         *)
(* Nothing is lost because every pair of numbers the receiver has, in the  *)
(* database or in the hands of a request, tells the truth: what is up to   *)
(* the last number and not missing was handled or no longer fitted.  As    *)
(* long as requests do not mix the converse holds too, so nothing is       *)
(* handled twice; and what is sent leaves out only numbers that are done,  *)
(* thrown away or late, so only those can be missing.                      *)
(***************************************************************************)
EXTENDS FedStream, FiniteSetTheorems, TLAPS

Done(n) == handled[n] # 0 \/ n \in forgotten

\* What a pair of numbers says was seen.
Known(n, last, miss) == n <= last /\ n \notin miss

Honest(last, miss) == \A n \in Numbers : Known(n, last, miss) => Done(n)

\* What a request's sender will take for delivered when the answer comes.
Charge(by) ==
    IF by = ThePass THEN FirstOf(pass.rest, BatchMax) ELSE IF by = Nobody THEN {} ELSE {by}

NumbersHonest ==
    /\ Honest(lastSeq, missing)
    /\ \A s \in Slots : AtWork(s) => Honest(slot[s].last, slot[s].missing)
    /\ \A n \in Numbers : InSeq(n, recent) => handled[n] # 0
    /\ \A s \in Slots : slot[s].at \in {"work", "save"} =>
         \A n \in Numbers : InSeq(n, slot[s].recent) => handled[n] # 0

AnswersHonest ==
    /\ \A s \in Slots : slot[s].at # "free" =>
         /\ slot[s].by \in Numbers \cup {ThePass, Nobody}
         /\ slot[s].by = ThePass => pass.at = "posted"
         /\ \A n \in Charge(slot[s].by) :
              Done(n) \/ (slot[s].at \notin {"answered", "save"} /\ n \in slot[s].events)
    /\ \A s, t \in Slots :
         (slot[s].at # "free" /\ slot[t].at # "free" /\ slot[s].by = ThePass /\ slot[t].by = ThePass)
           => s = t

\* The sending of a number: taken, queued, and only then on its way.
Stages ==
    \A n \in Numbers :
        /\ task[n] = "none" <=> n > outSeq
        /\ row[n].has => task[n] \in {"queued", "posted", "done"}

\* The pass holds no row that was tried too often.
Tries ==
    pass.at # "idle" => \A n \in pass.rest : row[n].has => row[n].attempts < MaxAttempts

StreamInv == TypeOK /\ Tries

LostInv == NumbersHonest /\ AnswersHonest /\ Stages /\ NothingLost

----------------------------------------------------------------------------
\* One request at a time: what it has at hand, or the database when there is
\* none, says exactly what was handled.
OneByOne ==
    ~ mixed =>
        /\ \A n \in Numbers : handled[n] <= 1
        /\ \A s, t \in Slots : AtWork(s) /\ AtWork(t) => s = t
        /\ (\A s \in Slots : ~ AtWork(s)) =>
             \A n \in Numbers : handled[n] # 0 => Known(n, lastSeq, missing)
        /\ \A s \in Slots : AtWork(s) =>
             /\ slot[s].was = <<lastSeq, missing>>
             /\ \A n \in Numbers : handled[n] # 0 => Known(n, slot[s].last, slot[s].missing)

\* What is missing is below the last number.
MissingBelow ==
    /\ \A m \in missing : m <= lastSeq
    /\ \A s \in Slots : AtWork(s) => \A m \in slot[s].missing : m <= slot[s].last

\* What a number below one that is sent may have become.
Excused(m) == handled[m] # 0 \/ m \in dropped \cup late

\* Whoever sends a number sends all below it that nothing excuses.
Complete(events) == \A n \in events : \A m \in 1 .. n - 1 : m \in events \/ Excused(m)

Overtaken ==
    \A n \in Numbers : \A m \in 1 .. n - 1 :
        (task[m] \in {"post", "queue"} /\ task[n] \notin {"none", "post", "queue"}) => m \in late

HolesInv ==
    ~ mixed =>
        /\ missing \subseteq dropped \cup late
        /\ forgotten \subseteq dropped \cup late
        /\ \A s \in Slots : AtWork(s) => slot[s].missing \subseteq dropped \cup late
        /\ \A s \in Slots : slot[s].at \notin {"free", "answered"} => Complete(slot[s].events)
        /\ pass.at # "idle" => Complete(pass.rest)

----------------------------------------------------------------------------
\* The constants are numbers.
LEMMA Bounds == MaxSeq \in Nat /\ 0 \in Last /\ Numbers \subseteq Last /\ Last \subseteq Nat
                /\ (\A n \in Last : n < MaxSeq => n + 1 \in Numbers)
                /\ 0 \notin Numbers /\ -1 \notin Numbers /\ Numbers \subseteq Int
BY StreamAssumption DEF Last, Numbers

\* The stages of a request, and what it carries at each.
LEMMA RequestShapes ==
    ASSUME NEW r \in Requests
    PROVE  /\ r.at \in {"free", "wire", "answered", "read", "work", "save"}
           /\ r.at = "free" <=> r = Free
           /\ r.at # "free" => r.by \in Int
           /\ r.at \notin {"free", "answered"} => r.events \in SUBSET Numbers
           /\ r.at \in {"read", "work", "save"} =>
                r.last \in Last /\ r.missing \in SUBSET Numbers /\ r.was \in Last \X SUBSET Numbers
           /\ r.at \in {"work", "save"} => r.recent \in Seq(Numbers)
<1>1. CASE r = Free
  BY <1>1 DEF Free
<1>2. CASE r \in [at : {"wire"}, by : Int, events : SUBSET Numbers]
  BY <1>2 DEF Free
<1>3. CASE r \in [at : {"answered"}, by : Int]
  BY <1>3 DEF Free
<1>4. CASE r \in [at : {"read"}, by : Int, events : SUBSET Numbers, last : Last,
                 missing : SUBSET Numbers, was : Last \X SUBSET Numbers]
  BY <1>4 DEF Free
<1>5. CASE r \in [at : {"work", "save"}, by : Int, events : SUBSET Numbers, last : Last,
                 missing : SUBSET Numbers, was : Last \X SUBSET Numbers, recent : Seq(Numbers)]
  BY <1>5 DEF Free
<1> QED
  BY <1>1, <1>2, <1>3, <1>4, <1>5 DEF Requests

\* One nobody waits for any more is a request still.
LEMMA OrphanIsARequest ==
    ASSUME NEW r \in Requests, r.at # "free"
    PROVE  [r EXCEPT !.by = Nobody] \in Requests
<1>0. Nobody \in Int
  BY DEF Nobody
<1>2. CASE r \in [at : {"wire"}, by : Int, events : SUBSET Numbers]
  BY <1>0, <1>2 DEF Requests
<1>3. CASE r \in [at : {"answered"}, by : Int]
  BY <1>0, <1>3 DEF Requests
<1>4. CASE r \in [at : {"read"}, by : Int, events : SUBSET Numbers, last : Last,
                 missing : SUBSET Numbers, was : Last \X SUBSET Numbers]
  BY <1>0, <1>4 DEF Requests
<1>5. CASE r \in [at : {"work", "save"}, by : Int, events : SUBSET Numbers, last : Last,
                 missing : SUBSET Numbers, was : Last \X SUBSET Numbers, recent : Seq(Numbers)]
  BY <1>0, <1>5 DEF Requests
<1> QED
  BY <1>2, <1>3, <1>4, <1>5, RequestShapes DEF Requests

\* A request at work has all of its parts.
LEMMA WorkShape ==
    ASSUME NEW r \in Requests, r.at \in {"work", "save"}
    PROVE  r \in [at : {"work", "save"}, by : Int, events : SUBSET Numbers, last : Last,
                  missing : SUBSET Numbers, was : Last \X SUBSET Numbers, recent : Seq(Numbers)]
BY DEF Requests, Free

\* The window of recent ids after one more.
LEMMA WindowOfRecent ==
    ASSUME NEW rec \in Seq(Numbers), NEW n \in Numbers
    PROVE  /\ RememberEventId(rec, n) \in Seq(Numbers)
           /\ \A x \in Numbers : InSeq(x, RememberEventId(rec, n)) => InSeq(x, rec) \/ x = n
<1> DEFINE kept == IF Len(rec) = RecentMax THEN Tail(rec) ELSE rec
<1>1. RecentMax \in Nat \ {0}
  BY StreamAssumption
<1>2. kept \in Seq(Numbers) /\ \A i \in 1 .. Len(kept) : \E j \in 1 .. Len(rec) : kept[i] = rec[j]
  <2>1. CASE Len(rec) = RecentMax
    <3>1. rec # <<>> /\ Len(rec) \in Nat /\ Len(rec) # 0
      BY <1>1, <2>1
    <3>2. /\ Tail(rec) \in Seq(Numbers) /\ Len(Tail(rec)) = Len(rec) - 1
          /\ \A i \in 1 .. Len(Tail(rec)) : Tail(rec)[i] = rec[i + 1]
      BY <3>1
    <3>3. \A i \in 1 .. Len(Tail(rec)) : i + 1 \in 1 .. Len(rec)
      BY <3>1, <3>2
    <3> QED
      BY <2>1, <3>2, <3>3
  <2>2. CASE Len(rec) # RecentMax
    BY <2>2
  <2> QED
    BY <2>1, <2>2
<1> HIDE DEF kept
<1>3. /\ Append(kept, n) \in Seq(Numbers)
      /\ Len(Append(kept, n)) = Len(kept) + 1
      /\ \A i \in 1 .. Len(kept) : Append(kept, n)[i] = kept[i]
      /\ Append(kept, n)[Len(kept) + 1] = n
  BY <1>2
<1>4. RememberEventId(rec, n) = Append(kept, n)
  BY DEF RememberEventId, kept
<1>5. ASSUME NEW x \in Numbers, InSeq(x, Append(kept, n)) PROVE InSeq(x, rec) \/ x = n
  <2>1. PICK i \in 1 .. Len(kept) + 1 : Append(kept, n)[i] = x
    BY <1>3, <1>5 DEF InSeq
  <2>2. CASE i \in 1 .. Len(kept)
    BY <1>2, <1>3, <2>1, <2>2 DEF InSeq
  <2>3. CASE i = Len(kept) + 1
    BY <1>3, <2>1, <2>3
  <2>4. Len(kept) \in Nat
    BY <1>2
  <2> QED
    BY <2>1, <2>2, <2>3, <2>4
<1> QED
  BY <1>3, <1>4, <1>5

\* The missing numbers after one more.
LEMMA MissingNumbers ==
    ASSUME NEW last \in Last, NEW miss \in SUBSET Numbers, NEW n \in Numbers
    PROVE  /\ AllMissing(miss, last, n) \in SUBSET Numbers
           /\ TrackMissingSeqs(miss, last, n) \subseteq AllMissing(miss, last, n)
           /\ \A m \in AllMissing(miss, last, n) : m \in miss \/ (last < m /\ m < n)
           /\ \A m \in Numbers :
                /\ m \in miss /\ m # n => m \in AllMissing(miss, last, n)
                /\ last < m /\ m < n => m \in AllMissing(miss, last, n)
           /\ n \notin AllMissing(miss, last, n) \/ (n > last /\ n \in miss)
<1>1. last \in Int /\ 0 <= last /\ last <= MaxSeq /\ n \in Int /\ 1 <= n /\ n <= MaxSeq /\ MaxSeq \in Int
  BY Bounds, StreamAssumption DEF Last, Numbers
<1>2. \A m \in Numbers : m \in Int /\ 1 <= m /\ m <= MaxSeq
  BY <1>1 DEF Numbers
<1>3. \A m \in last + 1 .. n - 1 : m \in Numbers /\ last < m /\ m < n
  BY <1>1 DEF Numbers
<1>4. \A m \in Numbers : last < m /\ m < n => m \in last + 1 .. n - 1
  BY <1>1, <1>2
<1> QED
  BY <1>1, <1>2, <1>3, <1>4 DEF AllMissing, TrackMissingSeqs, LastOf

LEMMA MissingTypes ==
    \A last \in Last, miss \in SUBSET Numbers, n \in Numbers :
        /\ AllMissing(miss, last, n) \in SUBSET Numbers
        /\ TrackMissingSeqs(miss, last, n) \in SUBSET Numbers
<1> TAKE last \in Last, miss \in SUBSET Numbers, n \in Numbers
<1> QED
  BY MissingNumbers

\* The rows of the queue.
Rows == {NoRow} \cup [has : {TRUE}, attempts : 0 .. MaxAttempts, due : BOOLEAN]

LEMMA RowShapes ==
    /\ \A r \in Rows : /\ r.has \in BOOLEAN
                       /\ r.has => r.attempts \in 0 .. MaxAttempts /\ r.due \in BOOLEAN
                       /\ ~ r.has => r = NoRow
                       /\ r.has => [r EXCEPT !.due = TRUE] \in Rows
    /\ NoRow \in Rows /\ ~ NoRow.has
    /\ NewRow \in Rows /\ NewRow.has /\ NewRow.attempts = 0
    /\ \A a \in 0 .. MaxAttempts : [has |-> TRUE, attempts |-> a, due |-> FALSE] \in Rows
    /\ MaxAttempts \in Nat /\ 0 < MaxAttempts
<1>1. MaxAttempts \in Nat /\ 0 < MaxAttempts /\ 0 \in 0 .. MaxAttempts
  BY StreamAssumption
<1>2. ASSUME NEW r \in Rows
      PROVE  /\ r.has \in BOOLEAN
             /\ r.has => r.attempts \in 0 .. MaxAttempts /\ r.due \in BOOLEAN
             /\ ~ r.has => r = NoRow
             /\ r.has => [r EXCEPT !.due = TRUE] \in Rows
  <2>1. CASE r = NoRow
    BY <2>1 DEF NoRow
  <2>2. CASE r \in [has : {TRUE}, attempts : 0 .. MaxAttempts, due : BOOLEAN]
    <3>1. r.has = TRUE /\ r.attempts \in 0 .. MaxAttempts /\ r.due \in BOOLEAN
      BY <2>2
    <3>2. [r EXCEPT !.due = TRUE] \in [has : {TRUE}, attempts : 0 .. MaxAttempts, due : BOOLEAN]
      BY <2>2
    <3> QED
      BY <3>1, <3>2 DEF Rows
  <2> QED
    BY <2>1, <2>2 DEF Rows
<1>3. NoRow \in Rows /\ ~ NoRow.has
  BY DEF Rows, NoRow
<1>4. NewRow \in Rows /\ NewRow.has /\ NewRow.attempts = 0
  BY <1>1 DEF Rows, NewRow
<1>5. \A a \in 0 .. MaxAttempts : [has |-> TRUE, attempts |-> a, due |-> FALSE] \in Rows
  BY DEF Rows
<1> QED
  BY <1>1, <1>2, <1>3, <1>4, <1>5

LEMMA AttemptsAreCounted ==
    ASSUME NEW r \in Rows, r.has
    PROVE  r.attempts \in 0 .. MaxAttempts /\ r.attempts \in Int /\ MaxAttempts \in Int
<1>1. r.attempts \in 0 .. MaxAttempts /\ MaxAttempts \in Nat
  BY RowShapes
<1> QED
  BY <1>1

\* The passes over the queue.
LEMMA PassShapes ==
    ASSUME NEW p \in {Idle} \cup [at : {"send", "posted"}, rest : SUBSET Numbers]
    PROVE  /\ p.at \in {"idle", "send", "posted"}
           /\ p = Idle <=> p.at = "idle"
           /\ p.at # "idle" => p.rest \in SUBSET Numbers
           /\ p.at # "idle" => /\ [p EXCEPT !.at = "posted"].rest = p.rest
                               /\ [p EXCEPT !.at = "posted"].at = "posted"
           /\ p.at # "idle" => [p EXCEPT !.at = "posted"] \in [at : {"send", "posted"}, rest : SUBSET Numbers]
<1>1. CASE p = Idle
  BY <1>1 DEF Idle
<1>2. CASE p \in [at : {"send", "posted"}, rest : SUBSET Numbers]
  BY <1>2 DEF Idle
<1> QED
  BY <1>1, <1>2

\* What becomes of the requests when their sender stops waiting.
LEMMA AbandonedRequests ==
    ASSUME NEW by \in Int, slot \in [Slots -> Requests], Abandon(by)
    PROVE  /\ slot' \in [Slots -> Requests]
           /\ \A s \in Slots :
                \/ slot'[s] = slot[s] /\ (slot[s] = Free \/ slot[s].by # by)
                \/ slot'[s] = Free /\ slot[s].at \in {"wire", "answered"}
                \/ slot[s].at \notin {"free", "answered"} /\ slot'[s] = [slot[s] EXCEPT !.by = Nobody]
<1>1. Free \in Requests
  BY DEF Requests
<1>2. PICK goesOn \in BOOLEAN :
        slot' = [s \in Slots |->
                   IF slot[s].at = "free" \/ slot[s].by # by THEN slot[s]
                   ELSE IF slot[s].at = "answered" \/ (slot[s].at = "wire" /\ ~ goesOn) THEN Free
                   ELSE [slot[s] EXCEPT !.by = Nobody]]
  BY DEF Abandon
<1>3. ASSUME NEW s \in Slots
      PROVE  /\ slot'[s] \in Requests
             /\ \/ slot'[s] = slot[s] /\ (slot[s] = Free \/ slot[s].by # by)
                \/ slot'[s] = Free /\ slot[s].at \in {"wire", "answered"}
                \/ slot[s].at \notin {"free", "answered"} /\ slot'[s] = [slot[s] EXCEPT !.by = Nobody]
  <2>1. slot[s] \in Requests
    OBVIOUS
  <2>2. slot[s].at = "free" <=> slot[s] = Free
    BY <2>1, RequestShapes
  <2>3. slot[s].at # "free" => [slot[s] EXCEPT !.by = Nobody] \in Requests
    BY <2>1, OrphanIsARequest
  <2> QED
    BY <1>1, <1>2, <2>1, <2>2, <2>3
<1> QED
  BY <1>2, <1>3

\* A request that leaves.
LEMMA PostedRequest ==
    ASSUME NEW by \in Int, NEW events \in SUBSET Numbers, slot \in [Slots -> Requests], Post(by, events)
    PROVE  /\ slot' \in [Slots -> Requests]
           /\ \E s \in Slots :
                /\ slot[s].at = "free"
                /\ slot'[s] = [at |-> "wire", by |-> by, events |-> events]
                /\ \A t \in Slots \ {s} : slot'[t] = slot[t]
<1>1. PICK s \in Slots :
        slot[s] = Free /\ slot' = [slot EXCEPT ![s] = [at |-> "wire", by |-> by, events |-> events]]
  BY DEF Post
<1>2. [at |-> "wire", by |-> by, events |-> events] \in Requests
  BY DEF Requests
<1>3. slot[s].at = "free"
  BY <1>1 DEF Free
<1> QED
  BY <1>1, <1>2, <1>3

----------------------------------------------------------------------------
\* A step of the sender keeps the types and the limit of attempts.
LEMMA SenderKeepsTypes ==
    ASSUME StreamInv, SenderStep
    PROVE  StreamInv'
<1> USE DEF StreamInv, TypeOK
<1> USE DEF Tries
<1>0. /\ row \in [Numbers -> Rows] /\ Free \in Requests /\ ThePass \in Int /\ Nobody \in Int
      /\ FirstOf(pass.rest, BatchMax) \subseteq pass.rest
  <2>1. row \in [Numbers -> Rows]
    BY DEF Rows
  <2> QED
    BY <2>1 DEF Requests, ThePass, Nobody, FirstOf
<1>1. ASSUME NEW now \in BOOLEAN, TakeNumber(now) PROVE StreamInv'
  <2>1. outSeq' \in Last
    BY <1>1, Bounds DEF TakeNumber
  <2>2. task' \in [Numbers -> {"none", "post", "queue", "queued", "posted", "done"}]
    BY <1>1 DEF TakeNumber
  <2> QED
    BY <1>1, <2>1, <2>2 DEF TakeNumber, receiver, history
<1>2. ASSUME NEW n \in Numbers, Enqueue(n) PROVE StreamInv'
  <2>1. row' \in [Numbers -> Rows]
    BY <1>0, <1>2, RowShapes DEF Enqueue
  <2>2. task' \in [Numbers -> {"none", "post", "queue", "queued", "posted", "done"}]
    BY <1>2 DEF Enqueue
  <2>3. late' \in SUBSET Numbers
    <3>1. 1 .. n - 1 \subseteq Numbers
      BY StreamAssumption DEF Numbers
    <3> QED
      BY <1>2, <3>1 DEF Enqueue
  <2>4. Tries'
    BY <1>0, <1>2, RowShapes DEF Enqueue
  <2> QED
    BY <1>2, <2>1, <2>2, <2>3, <2>4 DEF Enqueue, receiver, Rows
<1>3. ASSUME NEW n \in Numbers, LeaveToPass(n) PROVE StreamInv'
  BY <1>3 DEF LeaveToPass, receiver, history
<1>4. ASSUME NEW n \in Numbers, PostNow(n) PROVE StreamInv'
  <2>1. slot' \in [Slots -> Requests]
    BY <1>4, PostedRequest, Bounds DEF PostNow
  <2> QED
    BY <1>4, <2>1 DEF PostNow, receiver, history
<1>5. ASSUME NEW n \in Numbers, NowAnswered(n) PROVE StreamInv'
  <2>1. slot' \in [Slots -> Requests]
    BY <1>0, <1>5 DEF NowAnswered
  <2>2. row' \in [Numbers -> Rows] /\ \A m \in Numbers : row'[m].has => row'[m] = row[m]
    BY <1>0, <1>5, RowShapes DEF NowAnswered, Dequeue
  <2>3. task' \in [Numbers -> {"none", "post", "queue", "queued", "posted", "done"}]
    BY <1>5 DEF NowAnswered
  <2>4. Tries'
    BY <1>5, <2>2, PassShapes DEF NowAnswered
  <2> QED
    BY <1>5, <2>1, <2>2, <2>3, <2>4 DEF NowAnswered, receiver, history, Rows
<1>6. ASSUME NEW n \in Numbers, NowFailed(n) PROVE StreamInv'
  <2>1. slot' \in [Slots -> Requests]
    BY <1>6, AbandonedRequests, Bounds DEF NowFailed
  <2>2. task' \in [Numbers -> {"none", "post", "queue", "queued", "posted", "done"}]
    BY <1>6 DEF NowFailed
  <2> QED
    BY <1>6, <2>1, <2>2 DEF NowFailed, receiver, history
<1>7. ASSUME NEW n \in Numbers, Due(n) PROVE StreamInv'
  <2>1. row' \in [Numbers -> Rows] /\ \A m \in Numbers : row'[m].has => row[m].has /\ row'[m].attempts = row[m].attempts
    <3>1. row[n] \in Rows /\ row[n].has /\ row' = [row EXCEPT ![n] = [row[n] EXCEPT !.due = TRUE]]
      BY <1>0, <1>7 DEF Due
    <3>2. [row[n] EXCEPT !.due = TRUE] \in Rows
      BY <3>1, RowShapes
    <3>3. [row[n] EXCEPT !.due = TRUE].attempts = row[n].attempts
      BY <1>0, <3>1 DEF Rows, NoRow
    <3> QED
      BY <1>0, <3>1, <3>2, <3>3
  <2>2. Tries'
    BY <1>7, <2>1, PassShapes DEF Due
  <2> QED
    BY <1>7, <2>1, <2>2 DEF Due, receiver, history, Rows
<1>8. ASSUME PassDiscards PROVE StreamInv'
  <2>1. row' \in [Numbers -> Rows]
    BY <1>0, <1>8, RowShapes DEF PassDiscards, Dequeue
  <2> QED
    BY <1>8, <2>1, PassShapes DEF PassDiscards, receiver, Rows, Queued
<1>9. ASSUME PassReads PROVE StreamInv'
  <2>1. PICK old \in SUBSET Queued :
          LET out == Dropped(old)
              alive == DuePrefix(Queued \ out)
          IN  /\ dropped' = dropped \cup out
              /\ Dequeue(out)
              /\ pass' = IF alive = {} THEN Idle ELSE [at |-> "send", rest |-> alive]
    BY <1>9 DEF PassReads
  <2> DEFINE out == Dropped(old)
             alive == DuePrefix(Queued \ out)
  <2>2. out \subseteq Numbers /\ alive \subseteq Queued \ out /\ Queued \subseteq Numbers
    BY DEF Dropped, DuePrefix, Queued
  <2>3. \A n \in alive : row[n].has /\ row[n].attempts < MaxAttempts
    <3> SUFFICES ASSUME NEW n \in alive PROVE row[n].has /\ row[n].attempts < MaxAttempts
      OBVIOUS
    <3>1. n \in Numbers /\ row[n].has /\ ~ (row[n].attempts >= MaxAttempts)
      BY <2>2 DEF Dropped, Queued
    <3>2. row[n].attempts \in Int /\ MaxAttempts \in Int
      <4>1. row[n] \in Rows
        BY <1>0, <3>1
      <4> QED
        BY <3>1, <4>1, AttemptsAreCounted, Zenon
    <3> QED
      BY <3>1, <3>2
  <2> HIDE DEF out, alive
  <2>4. row' \in [Numbers -> Rows] /\ \A m \in Numbers : row'[m].has => row'[m] = row[m]
    BY <1>0, <2>1, RowShapes DEF Dequeue, out
  <2>5. pass' = IF alive = {} THEN Idle ELSE [at |-> "send", rest |-> alive]
    BY <2>1 DEF alive, out
  <2>6. pass' \in {Idle} \cup [at : {"send", "posted"}, rest : SUBSET Numbers]
    BY <2>2, <2>5
  <2>7. Tries'
    BY <2>2, <2>3, <2>4, <2>5, PassShapes DEF Idle
  <2>8. dropped' \in SUBSET Numbers
    BY <2>1, <2>2 DEF out
  <2> QED
    BY <1>9, <2>4, <2>6, <2>7, <2>8 DEF PassReads, receiver, Rows
<1>10. ASSUME PassPosts PROVE StreamInv'
  <2>1. pass.rest \in SUBSET Numbers /\ pass.at # "idle"
    BY <1>10, PassShapes DEF PassPosts
  <2>2. slot' \in [Slots -> Requests]
    <3>1. FirstOf(pass.rest, BatchMax) \in SUBSET Numbers
      BY <1>0, <2>1
    <3> QED
      BY <1>0, <1>10, <3>1, PostedRequest DEF PassPosts
  <2>3. pass' \in [at : {"send", "posted"}, rest : SUBSET Numbers] /\ pass'.rest = pass.rest
    BY <1>10, <2>1, PassShapes DEF PassPosts
  <2> QED
    BY <1>10, <2>1, <2>2, <2>3 DEF PassPosts, receiver, history
<1>11. ASSUME PassAnswered PROVE StreamInv'
  <2>1. pass.rest \in SUBSET Numbers /\ pass.at # "idle"
    BY <1>11, PassShapes DEF PassAnswered
  <2>2. slot' \in [Slots -> Requests]
    BY <1>0, <1>11 DEF PassAnswered
  <2>3. row' \in [Numbers -> Rows] /\ \A m \in Numbers : row'[m].has => row'[m] = row[m]
    BY <1>0, <1>11, RowShapes DEF PassAnswered, Dequeue
  <2>4. \/ pass' = Idle
        \/ pass' = [at |-> "send", rest |-> pass.rest \ FirstOf(pass.rest, BatchMax)]
    BY <1>11 DEF PassAnswered
  <2>5. Tries'
    BY <2>1, <2>3, <2>4 DEF Idle
  <2> QED
    BY <1>11, <2>1, <2>2, <2>3, <2>4, <2>5 DEF PassAnswered, receiver, history, Rows
<1>12. ASSUME PassFailed PROVE StreamInv'
  <2>1. pass.rest \in SUBSET Numbers /\ pass.at # "idle"
    BY <1>12, PassShapes DEF PassFailed
  <2>2. slot' \in [Slots -> Requests]
    BY <1>0, <1>12, AbandonedRequests DEF PassFailed
  <2>3. row' \in [Numbers -> Rows]
    <3> DEFINE batch == FirstOf(pass.rest, BatchMax)
    <3>1. batch \subseteq pass.rest
      BY <1>0
    <3> HIDE DEF batch
    <3>2. ASSUME NEW n \in Numbers, n \in batch, row[n].has
          PROVE  [has |-> TRUE, attempts |-> row[n].attempts + 1, due |-> FALSE] \in Rows
      <4>0. row[n] \in Rows
        BY <1>0
      <4>1. row[n].attempts \in 0 .. MaxAttempts /\ MaxAttempts \in Int
        BY <3>2, <4>0, AttemptsAreCounted, Zenon
      <4>2. n \in pass.rest /\ pass.at # "idle"
        BY <2>1, <3>1, <3>2
      <4>3. row[n].attempts < MaxAttempts
        BY <3>2, <4>2, Zenon
      <4>4. row[n].attempts + 1 \in 0 .. MaxAttempts
        BY <4>1, <4>3
      <4> QED
        BY <4>4, RowShapes
    <3>3. row' = [n \in Numbers |->
                   IF n \in batch /\ row[n].has
                   THEN [has |-> TRUE, attempts |-> row[n].attempts + 1, due |-> FALSE]
                   ELSE row[n]]
      BY <1>12 DEF PassFailed, batch
    <3> QED
      BY <1>0, <3>2, <3>3
  <2> QED
    BY <1>12, <2>1, <2>2, <2>3 DEF PassFailed, receiver, history, Rows, Idle
<1>13. ASSUME NEW state \in {"active", "paused", "blocked"}, SetLink(state) PROVE StreamInv'
  <2>1. faults' \in 0 .. MaxFaults
    BY <1>13, StreamAssumption DEF SetLink
  <2> QED
    BY <1>13, <2>1 DEF SetLink, receiver
<1>14. ASSUME SenderCrashes PROVE StreamInv'
  <2>1. faults' \in 0 .. MaxFaults
    BY <1>14, StreamAssumption DEF SenderCrashes
  <2>2. slot' \in [Slots -> Requests]
    <3>1. ASSUME NEW s \in Slots, slot[s].at # "free" PROVE [slot[s] EXCEPT !.by = Nobody] \in Requests
      BY <3>1, OrphanIsARequest
    <3> QED
      BY <1>0, <1>14, <3>1 DEF SenderCrashes
  <2>3. task' \in [Numbers -> {"none", "post", "queue", "queued", "posted", "done"}]
    BY <1>14 DEF SenderCrashes
  <2>4. dropped' \in SUBSET Numbers
    BY <1>14 DEF SenderCrashes
  <2> QED
    BY <1>14, <2>1, <2>2, <2>3, <2>4 DEF SenderCrashes, receiver, Idle
<1> QED
  BY <1>1, <1>2, <1>3, <1>4, <1>5, <1>6, <1>7, <1>8, <1>9, <1>10, <1>11, <1>12, <1>13, <1>14
     DEF SenderStep

\* So does one of the receiver.
LEMMA ReceiverKeepsTypes ==
    ASSUME StreamInv, ReceiverStep
    PROVE  StreamInv'
<1> USE DEF StreamInv, TypeOK
<1>0. Free \in Requests
  BY DEF Requests
<1>1. UNCHANGED sender
  BY DEF ReceiverStep, ReadLink, ReadRecent, HandleNext, KeepRecent, SaveLink, ReceiverCrashes, sender
<1>2. Tries'
  BY <1>1 DEF Tries, sender
<1>3. ASSUME NEW s \in Slots, ReadLink(s) PROVE StreamInv'
  <2>1. slot[s].at = "wire" /\ slot[s].by \in Int /\ slot[s].events \in SUBSET Numbers
    BY <1>3, RequestShapes DEF ReadLink
  <2>2. [at |-> "read", by |-> slot[s].by, events |-> slot[s].events,
         last |-> lastSeq, missing |-> missing, was |-> <<lastSeq, missing>>] \in Requests
    BY <2>1 DEF Requests
  <2>3. slot' \in [Slots -> Requests]
    BY <1>3, <2>2 DEF ReadLink
  <2>4. mixed' \in BOOLEAN
    BY <1>3 DEF ReadLink
  <2> QED
    BY <1>1, <1>2, <1>3, <2>3, <2>4 DEF ReadLink, sender, receiver
<1>4. ASSUME NEW s \in Slots, ReadRecent(s) PROVE StreamInv'
  <2>1. /\ slot[s].by \in Int /\ slot[s].events \in SUBSET Numbers
        /\ slot[s].last \in Last /\ slot[s].missing \in SUBSET Numbers /\ slot[s].was \in Last \X SUBSET Numbers
    BY <1>4, RequestShapes DEF ReadRecent
  <2>2. [at |-> "work", by |-> slot[s].by, events |-> slot[s].events,
         last |-> slot[s].last, missing |-> slot[s].missing, was |-> slot[s].was,
         recent |-> recent] \in Requests
    BY <2>1 DEF Requests
  <2>3. slot' \in [Slots -> Requests]
    BY <1>4, <2>2 DEF ReadRecent
  <2> QED
    BY <1>1, <1>2, <1>4, <2>3 DEF ReadRecent, sender, receiver, history
<1>5. ASSUME NEW s \in Slots, HandleNext(s) PROVE StreamInv'
  <2> DEFINE w == slot[s]
  <2>1. PICK n \in w.events :
          LET seen == Seen(n, w.last, w.missing, w.recent)
              miss == TrackMissingSeqs(w.missing, w.last, n)
          IN  /\ slot' = [slot EXCEPT ![s] =
                   IF seen THEN [w EXCEPT !.events = @ \ {n}]
                   ELSE [w EXCEPT !.events = @ \ {n},
                                  !.last = IF n <= @ THEN @ ELSE n,
                                  !.missing = miss,
                                  !.recent = RememberEventId(@, n)]]
              /\ handled' = IF seen THEN handled
                            ELSE [handled EXCEPT ![n] = IF @ = 0 THEN 1 ELSE 2]
              /\ forgotten' = IF seen THEN forgotten
                              ELSE forgotten \cup (AllMissing(w.missing, w.last, n) \ miss)
    BY <1>5 DEF HandleNext
  <2> DEFINE miss == TrackMissingSeqs(w.missing, w.last, n)
  <2>2. w \in [at : {"work", "save"}, by : Int, events : SUBSET Numbers, last : Last,
               missing : SUBSET Numbers, was : Last \X SUBSET Numbers, recent : Seq(Numbers)]
    BY <1>5, WorkShape DEF HandleNext
  <2>3. /\ n \in Numbers /\ n \in Last /\ w.last \in Last /\ w.missing \in SUBSET Numbers
        /\ w.recent \in Seq(Numbers) /\ w.events \in SUBSET Numbers
    BY <2>1, <2>2, Bounds
  <2>4. miss \in SUBSET Numbers /\ AllMissing(w.missing, w.last, n) \in SUBSET Numbers
    <3> HIDE DEF w
    <3> QED
      BY <2>3, MissingTypes
  <2>5. RememberEventId(w.recent, n) \in Seq(Numbers)
    BY <2>3, WindowOfRecent
  <2> HIDE DEF miss
  <2>6. [w EXCEPT !.events = @ \ {n}] \in Requests
    BY <2>2 DEF Requests
  <2>7. [w EXCEPT !.events = @ \ {n}, !.last = IF n <= @ THEN @ ELSE n,
                  !.missing = miss, !.recent = RememberEventId(@, n)] \in Requests
    BY <2>2, <2>3, <2>4, <2>5 DEF Requests
  <2>8. slot' \in [Slots -> Requests]
    BY <2>1, <2>6, <2>7 DEF miss
  <2>9. handled' \in [Numbers -> 0 .. 2]
    BY <2>1, <2>3
  <2>10. forgotten' \in SUBSET Numbers
    BY <2>1, <2>4
  <2> QED
    BY <1>1, <1>2, <1>5, <2>8, <2>9, <2>10 DEF HandleNext, sender, receiver
<1>6. ASSUME NEW s \in Slots, KeepRecent(s) PROVE StreamInv'
  <2>1. slot[s] \in [at : {"work", "save"}, by : Int, events : SUBSET Numbers, last : Last,
                     missing : SUBSET Numbers, was : Last \X SUBSET Numbers, recent : Seq(Numbers)]
    BY <1>6, WorkShape DEF KeepRecent
  <2>2. [slot[s] EXCEPT !.at = "save"] \in Requests /\ slot[s].recent \in Seq(Numbers)
    BY <2>1 DEF Requests
  <2>3. slot' \in [Slots -> Requests]
    BY <1>6, <2>2 DEF KeepRecent
  <2> QED
    BY <1>1, <1>2, <1>6, <2>2, <2>3 DEF KeepRecent, sender, history
<1>7. ASSUME NEW s \in Slots, SaveLink(s) PROVE StreamInv'
  <2>1. slot[s].by \in Int /\ slot[s].last \in Last /\ slot[s].missing \in SUBSET Numbers
    BY <1>7, RequestShapes DEF SaveLink
  <2>2. [at |-> "answered", by |-> slot[s].by] \in Requests
    BY <2>1 DEF Requests
  <2>3. slot' \in [Slots -> Requests]
    BY <1>0, <1>7, <2>2 DEF SaveLink
  <2>4. lastSeq' \in Last /\ missing' \in SUBSET Numbers
    BY <1>7, <2>1 DEF SaveLink
  <2> QED
    BY <1>1, <1>2, <1>7, <2>3, <2>4 DEF SaveLink, sender, history
<1>8. ASSUME ReceiverCrashes PROVE StreamInv'
  <2>1. faults' \in 0 .. MaxFaults
    BY <1>8, StreamAssumption DEF ReceiverCrashes
  <2>2. slot' \in [Slots -> Requests] /\ recent' \in Seq(Numbers) /\ mixed' \in BOOLEAN
    BY <1>0, <1>8 DEF ReceiverCrashes
  <2> QED
    BY <1>1, <1>2, <1>8, <2>1, <2>2 DEF ReceiverCrashes, sender
<1> QED
  BY <1>3, <1>4, <1>5, <1>6, <1>7, <1>8 DEF ReceiverStep

\* The types hold, and the pass sends no row that was tried too often.
THEOREM TypeCorrect == Spec => []StreamInv
<1>1. Init => StreamInv
  <2> SUFFICES ASSUME Init PROVE StreamInv
    OBVIOUS
  <2>1. Free \in Requests /\ 0 \in Last /\ 0 \in 0 .. MaxFaults
    BY Bounds, StreamAssumption DEF Requests
  <2>2. /\ outSeq \in Last /\ lastSeq \in Last /\ faults \in 0 .. MaxFaults
        /\ slot \in [Slots -> Requests]
        /\ link \in {"active", "paused", "blocked"}
        /\ task \in [Numbers -> {"none", "post", "queue", "queued", "posted", "done"}]
        /\ row \in [Numbers -> {NoRow} \cup [has : {TRUE}, attempts : 0 .. MaxAttempts, due : BOOLEAN]]
        /\ pass \in {Idle} \cup [at : {"send", "posted"}, rest : SUBSET Numbers]
    BY <2>1 DEF Init
  <2>4. /\ missing \in SUBSET Numbers /\ recent \in Seq(Numbers) /\ handled \in [Numbers -> 0 .. 2]
        /\ dropped \in SUBSET Numbers /\ forgotten \in SUBSET Numbers /\ late \in SUBSET Numbers
        /\ mixed \in BOOLEAN
    <3>1. handled = [n \in Numbers |-> 0] /\ \A n \in Numbers : 0 \in 0 .. 2
      BY DEF Init
    <3>2. handled \in [Numbers -> 0 .. 2]
      BY <3>1
    <3>3. recent = <<>> /\ <<>> \in Seq(Numbers)
      BY DEF Init
    <3>4. missing = {} /\ dropped = {} /\ forgotten = {} /\ late = {} /\ mixed = FALSE
      BY DEF Init
    <3> QED
      BY <3>2, <3>3, <3>4
  <2>3. Tries
    BY DEF Init, Tries, Idle
  <2> QED
    BY <2>2, <2>3, <2>4 DEF StreamInv, TypeOK
<1>2. StreamInv /\ [Next]_vars => StreamInv'
  <2> SUFFICES ASSUME StreamInv, [Next]_vars PROVE StreamInv'
    OBVIOUS
  <2>1. CASE UNCHANGED vars
    BY <2>1 DEF vars, sender, receiver, history, StreamInv, TypeOK, Tries
  <2> QED
    BY <2>1, SenderKeepsTypes, ReceiverKeepsTypes DEF Next
<1> QED
  BY <1>1, <1>2, PTL DEF Spec

----------------------------------------------------------------------------
\* An orphan carries what it carried.
Orphan(r) == [r EXCEPT !.by = Nobody]

LEMMA OrphanShape ==
    ASSUME NEW r \in Requests, r.at # "free"
    PROVE  /\ Orphan(r).at = r.at /\ Orphan(r).by = Nobody
           /\ r.at # "answered" => Orphan(r).events = r.events
           /\ r.at \in {"read", "work", "save"} =>
                /\ Orphan(r).last = r.last /\ Orphan(r).missing = r.missing
                /\ Orphan(r).was = r.was
           /\ r.at \in {"work", "save"} => Orphan(r).recent = r.recent
<1> USE DEF Orphan
<1>2. CASE r \in [at : {"wire"}, by : Int, events : SUBSET Numbers]
  BY <1>2
<1>3. CASE r \in [at : {"answered"}, by : Int]
  BY <1>3
<1>4. CASE r \in [at : {"read"}, by : Int, events : SUBSET Numbers, last : Last,
                 missing : SUBSET Numbers, was : Last \X SUBSET Numbers]
  BY <1>4
<1>5. CASE r \in [at : {"work", "save"}, by : Int, events : SUBSET Numbers, last : Last,
                 missing : SUBSET Numbers, was : Last \X SUBSET Numbers, recent : Seq(Numbers)]
  BY <1>5
<1> QED
  BY <1>2, <1>3, <1>4, <1>5, RequestShapes DEF Requests

\* The sender touches nothing of the receiver's, and a request it touches is
\* posted, done with, or left to itself.
LEMMA SenderLeaves ==
    ASSUME StreamInv, SenderStep
    PROVE  /\ UNCHANGED <<lastSeq, missing, recent, handled, forgotten, mixed>>
           /\ \A s \in Slots :
                \/ slot'[s] = slot[s]
                \/ slot'[s] = Free /\ ~ AtWork(s)
                \/ slot[s].at = "free" /\ slot'[s].at = "wire"
                \/ slot[s].at \notin {"free", "answered"} /\ slot'[s] = Orphan(slot[s])
<1>1. UNCHANGED <<lastSeq, missing, recent, handled, forgotten, mixed>>
  BY DEF SenderStep, TakeNumber, Enqueue, LeaveToPass, PostNow, NowAnswered, NowFailed, Due,
         PassDiscards, PassReads, PassPosts, PassAnswered, PassFailed, SetLink, SenderCrashes,
         receiver, history
<1>2. slot \in [Slots -> Requests] /\ ThePass \in Int
  BY DEF StreamInv, TypeOK, ThePass
<1>3. ASSUME NEW n \in Numbers, PostNow(n)
      PROVE  \A s \in Slots : slot'[s] = slot[s] \/ (slot[s].at = "free" /\ slot'[s].at = "wire")
  <2>1. n \in Int /\ {n} \in SUBSET Numbers
    BY Bounds
  <2>2. PICK s \in Slots : /\ slot[s].at = "free"
                           /\ slot'[s] = [at |-> "wire", by |-> n, events |-> {n}]
                           /\ \A t \in Slots \ {s} : slot'[t] = slot[t]
    BY <1>2, <1>3, <2>1, PostedRequest DEF PostNow
  <2> QED
    BY <2>2
<1>4. ASSUME PassPosts
      PROVE  \A s \in Slots : slot'[s] = slot[s] \/ (slot[s].at = "free" /\ slot'[s].at = "wire")
  <2> DEFINE batch == FirstOf(pass.rest, BatchMax)
  <2>1. pass.rest \in SUBSET Numbers
    BY <1>4, PassShapes DEF PassPosts, StreamInv, TypeOK
  <2>2. batch \in SUBSET Numbers
    BY <2>1 DEF FirstOf
  <2> HIDE DEF batch
  <2>3. Post(ThePass, batch)
    BY <1>4 DEF PassPosts, batch
  <2>4. PICK s \in Slots : /\ slot[s].at = "free"
                           /\ slot'[s] = [at |-> "wire", by |-> ThePass, events |-> batch]
                           /\ \A t \in Slots \ {s} : slot'[t] = slot[t]
    BY <1>2, <2>2, <2>3, PostedRequest
  <2> QED
    BY <2>4
<1>5. ASSUME NEW by \in Int, Abandon(by)
      PROVE  \A s \in Slots :
                \/ slot'[s] = slot[s]
                \/ slot'[s] = Free /\ ~ AtWork(s)
                \/ slot[s].at \notin {"free", "answered"} /\ slot'[s] = Orphan(slot[s])
  BY <1>2, <1>5, AbandonedRequests DEF Orphan, AtWork
<1>6. ASSUME SenderCrashes
      PROVE  \A s \in Slots :
                \/ slot'[s] = Free /\ ~ AtWork(s)
                \/ slot[s].at \notin {"free", "answered"} /\ slot'[s] = Orphan(slot[s])
  BY <1>6 DEF SenderCrashes, Orphan, AtWork
<1>7. ASSUME NEW n \in Numbers, NowAnswered(n) \/ NowFailed(n)
      PROVE  \A s \in Slots :
                \/ slot'[s] = slot[s]
                \/ slot'[s] = Free /\ ~ AtWork(s)
                \/ slot[s].at \notin {"free", "answered"} /\ slot'[s] = Orphan(slot[s])
  <2>1. CASE NowAnswered(n)
    BY <1>2, <2>1 DEF NowAnswered, AtWork
  <2>2. CASE NowFailed(n)
    BY <1>5, <2>2, Bounds DEF NowFailed
  <2> QED
    BY <1>7, <2>1, <2>2
<1>8. ASSUME PassAnswered \/ PassFailed
      PROVE  \A s \in Slots :
                \/ slot'[s] = slot[s]
                \/ slot'[s] = Free /\ ~ AtWork(s)
                \/ slot[s].at \notin {"free", "answered"} /\ slot'[s] = Orphan(slot[s])
  <2>1. CASE PassAnswered
    BY <1>2, <2>1 DEF PassAnswered, AtWork
  <2>2. CASE PassFailed
    BY <1>2, <1>5, <2>2 DEF PassFailed
  <2> QED
    BY <1>8, <2>1, <2>2
<1>9. \/ slot' = slot
      \/ \E n \in Numbers : PostNow(n) \/ NowAnswered(n) \/ NowFailed(n)
      \/ PassPosts \/ PassAnswered \/ PassFailed \/ SenderCrashes
  BY DEF SenderStep, TakeNumber, Enqueue, LeaveToPass, Due, PassDiscards, PassReads, SetLink
<1> QED
  BY <1>1, <1>3, <1>4, <1>6, <1>7, <1>8, <1>9, Zenon

\* A step of the sender leaves every pair of numbers as true as it was.
LEMMA SenderKeepsNumbers ==
    ASSUME StreamInv, NumbersHonest, SenderStep
    PROVE  NumbersHonest'
<1>1. /\ UNCHANGED <<lastSeq, missing, recent, handled, forgotten>>
      /\ \A s \in Slots :
           \/ slot'[s] = slot[s]
           \/ slot'[s] = Free
           \/ slot[s].at = "free" /\ slot'[s].at = "wire"
           \/ slot[s].at \notin {"free", "answered"} /\ slot'[s] = Orphan(slot[s])
  BY SenderLeaves
<1>2. slot \in [Slots -> Requests]
  BY DEF StreamInv, TypeOK
<1>4. ASSUME NEW s \in Slots, slot'[s].at \in {"read", "work", "save"}
      PROVE  /\ slot[s].at = slot'[s].at
             /\ slot'[s].last = slot[s].last /\ slot'[s].missing = slot[s].missing
             /\ slot'[s].at # "read" => slot'[s].recent = slot[s].recent
  <2>1. slot[s] \in Requests
    BY <1>2
  <2>2. slot'[s] = slot[s] \/ (slot[s].at # "free" /\ slot'[s] = Orphan(slot[s]))
    BY <1>1, <1>4 DEF Free
  <2>3. CASE slot'[s] = slot[s]
    BY <2>3
  <2>4. CASE slot[s].at # "free" /\ slot'[s] = Orphan(slot[s])
    BY <1>4, <2>1, <2>4, OrphanShape
  <2> QED
    BY <2>2, <2>3, <2>4
<1>5. ASSUME NEW s \in Slots, slot'[s].at \in {"read", "work", "save"}
      PROVE  Honest(slot[s].last, slot[s].missing)'
  <2>1. Honest(slot[s].last, slot[s].missing)
    BY <1>4, <1>5 DEF NumbersHonest, AtWork
  <2> QED
    BY <1>1, <1>4, <1>5, <2>1 DEF Honest, Done
<1>6. ASSUME NEW s \in Slots, slot'[s].at \in {"work", "save"},
             NEW n \in Numbers, InSeq(n, slot'[s].recent)
      PROVE  handled'[n] # 0
  BY <1>1, <1>4, <1>6 DEF NumbersHonest
<1>7. Honest(lastSeq, missing)' /\ (\A n \in Numbers : InSeq(n, recent) => handled[n] # 0)'
  BY <1>1 DEF NumbersHonest, Honest, Done
<1> QED
  BY <1>5, <1>6, <1>7 DEF NumbersHonest, AtWork

\* An answer still tells the truth when the sender moves on.
LEMMA SenderKeepsAnswers ==
    ASSUME StreamInv, AnswersHonest, SenderStep
    PROVE  AnswersHonest'
<1> DEFINE Waits(s) ==
             /\ slot[s].by \in Numbers \cup {ThePass, Nobody}
             /\ slot[s].by = ThePass => pass.at = "posted"
             /\ \A n \in Charge(slot[s].by) :
                  Done(n) \/ (slot[s].at \notin {"answered", "save"} /\ n \in slot[s].events)
           Sole == \A s, t \in Slots :
             (slot[s].at # "free" /\ slot[t].at # "free" /\ slot[s].by = ThePass /\ slot[t].by = ThePass)
               => s = t
<1>0. /\ slot \in [Slots -> Requests] /\ Nobody # ThePass /\ ThePass \in Int
      /\ \A n \in Numbers : n # ThePass /\ n # Nobody /\ n \in Int
      /\ Free.at = "free"
  BY Bounds DEF StreamInv, TypeOK, Nobody, ThePass, Free
<1>1. AnswersHonest <=> (\A s \in Slots : slot[s].at # "free" => Waits(s)) /\ Sole
  BY DEF AnswersHonest
<1>2. AnswersHonest' <=> (\A s \in Slots : slot'[s].at # "free" => Waits(s)') /\ Sole'
  BY DEF AnswersHonest
<1>3. \A n \in Numbers : Done(n)' <=> Done(n)
  BY SenderLeaves DEF Done
<1>4. ASSUME NEW s \in Slots, slot'[s] = slot[s], slot[s].at # "free",
             slot[s].by = ThePass => pass' = pass
      PROVE  Waits(s)'
  <2>1. Waits(s)
    BY <1>1, <1>4
  <2>2. Charge(slot[s].by)' = Charge(slot[s].by)
    <3>1. CASE slot[s].by = ThePass
      BY <1>4, <3>1 DEF Charge
    <3>2. CASE slot[s].by # ThePass
      BY <1>4, <3>2 DEF Charge
    <3> QED
      BY <3>1, <3>2
  <2>3. Charge(slot[s].by) \subseteq Numbers
    <3>1. CASE slot[s].by = ThePass
      <4>1. pass.rest \in SUBSET Numbers
        BY <2>1, <3>1, PassShapes DEF StreamInv, TypeOK
      <4> QED
        BY <3>1, <4>1 DEF Charge, FirstOf
    <3>2. CASE slot[s].by # ThePass
      BY <2>1, <3>2 DEF Charge
    <3> QED
      BY <3>1, <3>2
  <2> QED
    BY <1>3, <1>4, <2>1, <2>2, <2>3
<1>5. ASSUME NEW s \in Slots, slot[s].at \notin {"free", "answered"}, slot'[s] = Orphan(slot[s])
      PROVE  Waits(s)' /\ slot'[s].by # ThePass
  <2>1. slot'[s].by = Nobody
    BY <1>0, <1>5, OrphanShape
  <2>2. Charge(slot[s].by)' = {}
    BY <1>0, <2>1 DEF Charge
  <2> QED
    BY <1>0, <2>1, <2>2
<1> HIDE DEF Waits
\* What nobody touches stays, as long as the pass does or no request is its own.
<1>6. ASSUME NEW S \in SUBSET Slots,
             \A s \in S : slot'[s] = slot[s] \/ slot'[s] = Free
                          \/ (slot[s].at \notin {"free", "answered"} /\ slot'[s] = Orphan(slot[s])),
             \A s \in S : slot[s].at # "free" /\ slot'[s] = slot[s] /\ slot[s].by = ThePass => pass' = pass
      PROVE  /\ \A s \in S : slot'[s].at # "free" => Waits(s)'
             /\ \A s \in S : slot'[s].at # "free" /\ slot'[s].by = ThePass => slot'[s] = slot[s]
  BY <1>0, <1>4, <1>5, <1>6
<1>7. ASSUME \A s \in Slots : slot'[s] = slot[s] \/ slot'[s] = Free
                          \/ (slot[s].at \notin {"free", "answered"} /\ slot'[s] = Orphan(slot[s])),
             \A s \in Slots : slot[s].at # "free" /\ slot'[s] = slot[s] /\ slot[s].by = ThePass => pass' = pass
      PROVE  AnswersHonest'
  <2>1. /\ \A s \in Slots : slot'[s].at # "free" => Waits(s)'
        /\ \A s \in Slots : slot'[s].at # "free" /\ slot'[s].by = ThePass => slot'[s] = slot[s]
    BY <1>6, <1>7
  <2>2. Sole'
    BY <1>1, <2>1
  <2> QED
    BY <1>2, <2>1, <2>2
<1>8. ASSUME slot' = slot, pass' = pass \/ pass.at # "posted" PROVE AnswersHonest'
  <2>1. \A s \in Slots : slot[s].at # "free" /\ slot[s].by = ThePass => pass.at = "posted"
    BY <1>1 DEF Waits
  <2> QED
    BY <1>7, <1>8, <2>1
<1>9. ASSUME NEW n \in Numbers, PostNow(n) PROVE AnswersHonest'
  <2>0. n \in Int /\ {n} \in SUBSET Numbers
    BY <1>0
  <2>1. PICK s \in Slots : /\ slot[s].at = "free"
                           /\ slot'[s] = [at |-> "wire", by |-> n, events |-> {n}]
                           /\ \A t \in Slots \ {s} : slot'[t] = slot[t]
    BY <1>0, <1>9, <2>0, PostedRequest DEF PostNow
  <2>2. pass' = pass
    BY <1>9 DEF PostNow
  <2>3. /\ \A t \in Slots \ {s} : slot'[t].at # "free" => Waits(t)'
        /\ \A t \in Slots \ {s} : slot'[t].at # "free" /\ slot'[t].by = ThePass => slot'[t] = slot[t]
    BY <1>6, <2>1, <2>2
  <2>4. slot'[s].by = n /\ slot'[s].by # ThePass /\ slot'[s].at = "wire" /\ slot'[s].events = {n}
    BY <1>0, <2>1
  <2>5. Waits(s)'
    <3>1. Charge(slot[s].by)' = {n}
      BY <1>0, <2>4 DEF Charge
    <3> QED
      BY <1>0, <2>4, <3>1 DEF Waits
  <2>6. Sole'
    BY <1>1, <2>3, <2>4
  <2> QED
    BY <1>2, <2>3, <2>5, <2>6
<1>10. ASSUME PassPosts PROVE AnswersHonest'
  <2> DEFINE batch == FirstOf(pass.rest, BatchMax)
  <2>0. pass.rest \in SUBSET Numbers /\ pass.at = "send" /\ pass'.at = "posted" /\ pass'.rest = pass.rest
    BY <1>10, PassShapes DEF PassPosts, StreamInv, TypeOK
  <2>1. batch \in SUBSET Numbers
    BY <2>0 DEF FirstOf
  <2>2. Post(ThePass, batch)
    BY <1>10 DEF PassPosts
  <2>3. batch' = batch
    BY <2>0
  <2> HIDE DEF batch
  <2>4. PICK s \in Slots : /\ slot[s].at = "free"
                           /\ slot'[s] = [at |-> "wire", by |-> ThePass, events |-> batch]
                           /\ \A t \in Slots \ {s} : slot'[t] = slot[t]
    BY <1>0, <2>1, <2>2, PostedRequest
  <2>5. \A t \in Slots : slot[t].at # "free" => slot[t].by # ThePass
    BY <1>1, <2>0 DEF Waits
  <2>6. \A t \in Slots \ {s} : slot'[t].at # "free" => Waits(t)' /\ slot'[t].by # ThePass
    BY <1>6, <2>4, <2>5
  <2>7. slot'[s].by = ThePass /\ slot'[s].at = "wire" /\ slot'[s].events = batch
    BY <2>4
  <2>8. Waits(s)'
    <3>1. Charge(slot[s].by)' = batch
      BY <2>3, <2>7 DEF Charge, batch
    <3> QED
      BY <2>0, <2>7, <3>1 DEF Waits
  <2>9. Sole'
    BY <2>6
  <2> QED
    BY <1>2, <2>6, <2>8, <2>9
<1>11. ASSUME NEW n \in Numbers, NowAnswered(n) \/ NowFailed(n) PROVE AnswersHonest'
  <2>1. \A s \in Slots : slot'[s] = slot[s] \/ slot'[s] = Free
                          \/ (slot[s].at \notin {"free", "answered"} /\ slot'[s] = Orphan(slot[s]))
    <3>1. CASE NowAnswered(n)
      BY <1>0, <3>1 DEF NowAnswered
    <3>2. CASE NowFailed(n)
      BY <1>0, <3>2, AbandonedRequests DEF NowFailed, Orphan
    <3> QED
      BY <1>11, <3>1, <3>2
  <2>2. pass' = pass
    BY <1>11 DEF NowAnswered, NowFailed
  <2> QED
    BY <1>7, <2>1, <2>2
<1>12. ASSUME PassAnswered PROVE AnswersHonest'
  <2>1. PICK s \in Slots : /\ slot[s].at = "answered" /\ slot[s].by = ThePass
                           /\ slot' = [slot EXCEPT ![s] = Free]
    BY <1>12 DEF PassAnswered
  <2>2. \A t \in Slots : slot'[t] = slot[t] \/ slot'[t] = Free
    BY <1>0, <2>1
  <2>3. \A t \in Slots : slot[t].at # "free" /\ slot'[t] = slot[t] => slot[t].by # ThePass
    <3>1. slot'[s] = Free
      BY <1>0, <2>1
    <3>2. \A t \in Slots : slot[t].at # "free" /\ slot[t].by = ThePass => t = s
      BY <1>1, <2>1
    <3> QED
      BY <1>0, <3>1, <3>2
  <2> QED
    BY <1>7, <2>2, <2>3
<1>13. ASSUME PassFailed PROVE AnswersHonest'
  <2>1. \A s \in Slots : \/ slot'[s] = slot[s] /\ (slot[s] = Free \/ slot[s].by # ThePass)
                         \/ slot'[s] = Free
                         \/ (slot[s].at \notin {"free", "answered"} /\ slot'[s] = Orphan(slot[s]))
    BY <1>0, <1>13, AbandonedRequests DEF PassFailed, Orphan
  <2>2. \A s \in Slots : slot[s].at # "free" /\ slot'[s] = slot[s] /\ slot[s].by = ThePass => pass' = pass
    <3> SUFFICES ASSUME NEW s \in Slots, slot[s].at # "free", slot'[s] = slot[s], slot[s].by = ThePass
                 PROVE  FALSE
      OBVIOUS
    <3>1. slot'[s] # Free
      BY <1>0
    <3>2. slot'[s] = Orphan(slot[s])
      BY <1>0, <2>1, <3>1
    <3>3. slot'[s].by = Nobody
      BY <1>0, <3>2, OrphanShape
    <3> QED
      BY <1>0, <3>3
  <2> QED
    BY <1>7, <2>1, <2>2
<1>14. ASSUME SenderCrashes PROVE AnswersHonest'
  <2>1. \A s \in Slots : \/ slot'[s] = Free
                         \/ (slot[s].at \notin {"free", "answered"} /\ slot'[s] = Orphan(slot[s]))
    BY <1>14 DEF SenderCrashes, Orphan
  <2>2. \A s \in Slots : slot'[s].at # "free" => Waits(s)' /\ slot'[s].by # ThePass
    BY <1>0, <1>5, <2>1
  <2>3. Sole'
    BY <2>2
  <2> QED
    BY <1>2, <2>2, <2>3
<1>15. CASE \E now \in BOOLEAN : TakeNumber(now)
  BY <1>8, <1>15 DEF TakeNumber
<1>16. CASE \E n \in Numbers : Enqueue(n) \/ LeaveToPass(n) \/ Due(n)
  BY <1>8, <1>16 DEF Enqueue, LeaveToPass, Due
<1>17. CASE PassDiscards \/ PassReads
  <2>1. slot' = slot /\ pass.at # "posted"
    BY <1>17 DEF PassDiscards, PassReads, Idle
  <2> QED
    BY <1>8, <2>1
<1>18. CASE \E state \in {"active", "paused", "blocked"} : SetLink(state)
  BY <1>8, <1>18 DEF SetLink
<1> HIDE DEF Sole
<1> QED
  BY <1>9, <1>10, <1>11, <1>12, <1>13, <1>14, <1>15, <1>16, <1>17, <1>18 DEF SenderStep

\* The sender lets go of a number when it is done, or throws it away.
LEMMA SenderKeepsHold ==
    ASSUME StreamInv, LostInv, SenderStep
    PROVE  (Stages /\ NothingLost)'
<1> DEFINE Hands(n) == task[n] \in {"post", "queue"} \/ row[n].has \/ n \in dropped
           Safe == \A n \in Numbers : n <= outSeq => Done(n) \/ Hands(n)
<1>0. /\ task \in [Numbers -> {"none", "post", "queue", "queued", "posted", "done"}]
      /\ row \in [Numbers -> Rows] /\ outSeq \in Last /\ dropped \in SUBSET Numbers
      /\ pass \in {Idle} \cup [at : {"send", "posted"}, rest : SUBSET Numbers]
      /\ ~ NoRow.has /\ NewRow.has
      /\ \A n \in Numbers : n # ThePass /\ n # Nobody /\ n \in Int
  <2>1. row \in [Numbers -> Rows]
    BY DEF StreamInv, TypeOK, Rows
  <2>2. ~ NoRow.has /\ NewRow.has
    BY RowShapes
  <2> QED
    BY <2>1, <2>2, Bounds DEF StreamInv, TypeOK, ThePass, Nobody
<1>1. \A o \in Last : 1 .. o \subseteq Numbers /\ \A n \in Numbers : n <= o <=> n \in 1 .. o
  BY StreamAssumption DEF Last, Numbers
<1>2. NothingLost <=> Safe
  BY <1>0, <1>1 DEF NothingLost, Done, Pending, Queued
<1>3. ASSUME outSeq' \in Last PROVE NothingLost' <=> Safe'
  BY <1>1, <1>3 DEF NothingLost, Done, Pending, Queued
<1>4. outSeq' \in Last
  BY SenderKeepsTypes DEF StreamInv, TypeOK
<1>5. \A n \in Numbers : Done(n)' <=> Done(n)
  BY SenderLeaves DEF Done
<1>6. Safe /\ Stages
  BY <1>2 DEF LostInv
<1> SUFFICES Safe' /\ Stages'
  BY <1>3, <1>4
<1> HIDE DEF NothingLost
\* Most steps move one number on, or throw some away, or let some go.
<1>7. ASSUME outSeq' = outSeq,
             \A n \in Numbers : (task[n] = "none" <=> task'[n] = "none"),
             \A n \in Numbers : Hands(n) => Hands(n)' \/ Done(n),
             \A n \in Numbers : row'[n].has => task'[n] \in {"queued", "posted", "done"}
      PROVE  Safe' /\ Stages'
  BY <1>5, <1>6, <1>7 DEF Stages
<1> HIDE DEF Safe
<1>8. CASE \E now \in BOOLEAN : TakeNumber(now)
  <2>1. /\ outSeq < MaxSeq /\ outSeq' = outSeq + 1 /\ row' = row /\ dropped' = dropped
        /\ task' \in [Numbers -> {"none", "post", "queue", "queued", "posted", "done"}]
        /\ task'[outSeq + 1] \in {"post", "queue"}
        /\ \A n \in Numbers \ {outSeq + 1} : task'[n] = task[n]
    BY <1>0, <1>8, Bounds DEF TakeNumber, history
  <2>2. outSeq \in Int /\ outSeq + 1 \in Numbers
    BY <1>0, <2>1, Bounds
  <2>3. \A n \in Numbers : n # outSeq + 1 => (n <= outSeq + 1 <=> n <= outSeq) /\ (n > outSeq + 1 <=> n > outSeq)
    BY <1>0, <2>2
  <2>4. Safe'
    BY <1>5, <1>6, <2>1, <2>2, <2>3 DEF Safe
  <2>5. Stages'
    <3>1. ~ row[outSeq + 1].has
      BY <1>6, <2>2 DEF Stages
    <3>2. ASSUME NEW n \in Numbers
          PROVE  (task'[n] = "none" <=> n > outSeq') /\ (row'[n].has => task'[n] \in {"queued", "posted", "done"})
      <4>1. CASE n = outSeq + 1
        BY <2>1, <2>2, <3>1, <4>1
      <4>2. CASE n # outSeq + 1
        BY <1>6, <2>1, <2>3, <4>2 DEF Stages
      <4> QED
        BY <4>1, <4>2
    <3> QED
      BY <3>2 DEF Stages
  <2> QED
    BY <2>4, <2>5
<1>9. ASSUME NEW n \in Numbers, Enqueue(n) PROVE Safe' /\ Stages'
  <2>1. /\ row' = [row EXCEPT ![n] = NewRow] /\ dropped' = dropped /\ outSeq' = outSeq
        /\ task' = [task EXCEPT ![n] = IF @ = "post" THEN "queued" ELSE "done"]
        /\ task[n] \in {"post", "queue"}
    BY <1>9 DEF Enqueue
  <2>2. row'[n].has /\ \A m \in Numbers \ {n} : row'[m] = row[m] /\ task'[m] = task[m]
    BY <1>0, <2>1
  <2>3. task'[n] \in {"queued", "done"}
    BY <1>0, <2>1
  <2> QED
    BY <1>6, <1>7, <2>1, <2>2, <2>3 DEF Stages
<1>10. ASSUME NEW n \in Numbers, LeaveToPass(n) \/ PostNow(n) \/ NowFailed(n) PROVE Safe' /\ Stages'
  <2>1. /\ row' = row /\ dropped' = dropped /\ outSeq' = outSeq
        /\ task[n] \in {"queued", "posted"}
        /\ task' = [task EXCEPT ![n] = "done"] \/ task' = [task EXCEPT ![n] = "posted"]
    BY <1>10 DEF LeaveToPass, PostNow, NowFailed, history
  <2>2. task'[n] \in {"done", "posted"} /\ \A m \in Numbers \ {n} : task'[m] = task[m]
    BY <1>0, <2>1
  <2> QED
    BY <1>6, <1>7, <2>1, <2>2 DEF Stages
<1>11. ASSUME NEW n \in Numbers, NowAnswered(n) PROVE Safe' /\ Stages'
  <2>1. /\ row' = [m \in Numbers |-> IF m \in {n} THEN NoRow ELSE row[m]]
        /\ dropped' = dropped /\ outSeq' = outSeq
        /\ task[n] = "posted" /\ task' = [task EXCEPT ![n] = "done"]
    BY <1>11 DEF NowAnswered, Dequeue, history
  <2>2. PICK s \in Slots : slot[s].at = "answered" /\ slot[s].by = n
    BY <1>11 DEF NowAnswered
  <2>3. Done(n)
    <3>1. n \in Charge(slot[s].by)
      BY <1>0, <2>2 DEF Charge
    <3> QED
      BY <2>2, <3>1 DEF LostInv, AnswersHonest
  <2>4. task'[n] = "done" /\ ~ row'[n].has /\ \A m \in Numbers \ {n} : task'[m] = task[m] /\ row'[m] = row[m]
    BY <1>0, <2>1
  <2> QED
    BY <1>6, <1>7, <2>1, <2>3, <2>4 DEF Stages
<1>12. ASSUME NEW n \in Numbers, Due(n) PROVE Safe' /\ Stages'
  <2>1. /\ row[n].has /\ row' = [row EXCEPT ![n] = [row[n] EXCEPT !.due = TRUE]]
        /\ UNCHANGED <<task, outSeq, dropped>>
    BY <1>12 DEF Due, history
  <2>2. [row[n] EXCEPT !.due = TRUE].has = row[n].has
    BY <1>0, <2>1 DEF Rows, NoRow
  <2>3. \A m \in Numbers : row'[m].has <=> row[m].has
    BY <1>0, <2>1, <2>2
  <2> QED
    BY <1>6, <1>7, <2>1, <2>3 DEF Stages
<1>13. CASE PassDiscards
  <2>1. /\ dropped' = dropped \cup Queued /\ UNCHANGED <<task, outSeq>>
        /\ row' = [m \in Numbers |-> IF m \in Queued THEN NoRow ELSE row[m]]
    BY <1>13 DEF PassDiscards, Dequeue
  <2>2. \A m \in Numbers : (row[m].has => m \in Queued) /\ ~ row'[m].has
    BY <1>0, <2>1 DEF Queued
  <2> QED
    BY <1>6, <1>7, <2>1, <2>2 DEF Stages
<1>14. CASE PassReads
  <2>1. PICK old \in SUBSET Queued : dropped' = dropped \cup Dropped(old) /\ Dequeue(Dropped(old))
    BY <1>14 DEF PassReads
  <2>2. UNCHANGED <<task, outSeq>>
    BY <1>14 DEF PassReads
  <2>3. \A m \in Numbers : /\ m \in Dropped(old) => ~ row'[m].has
                           /\ m \notin Dropped(old) => row'[m] = row[m]
    BY <1>0, <2>1 DEF Dequeue
  <2> QED
    BY <1>6, <1>7, <2>1, <2>2, <2>3 DEF Stages
<1>15. CASE PassPosts \/ \E state \in {"active", "paused", "blocked"} : SetLink(state)
  <2>1. UNCHANGED <<task, outSeq, row, dropped>>
    BY <1>15 DEF PassPosts, SetLink, history
  <2> QED
    BY <1>6, <1>7, <2>1 DEF Stages
<1>16. CASE PassAnswered
  <2> DEFINE batch == FirstOf(pass.rest, BatchMax)
  <2>1. PICK s \in Slots : slot[s].at = "answered" /\ slot[s].by = ThePass
    BY <1>16 DEF PassAnswered
  <2>2. \A n \in batch : Done(n)
    <3>1. Charge(slot[s].by) = batch
      BY <2>1 DEF Charge
    <3> QED
      BY <2>1, <3>1 DEF LostInv, AnswersHonest
  <2>3. /\ row' = [m \in Numbers |-> IF m \in batch THEN NoRow ELSE row[m]]
        /\ UNCHANGED <<task, outSeq, dropped>>
    BY <1>16 DEF PassAnswered, Dequeue, history
  <2> HIDE DEF batch
  <2>4. \A m \in Numbers : /\ m \in batch => ~ row'[m].has
                           /\ m \notin batch => row'[m] = row[m]
    BY <1>0, <2>3
  <2> QED
    BY <1>6, <1>7, <2>2, <2>3, <2>4 DEF Stages
<1>17. CASE PassFailed
  <2> DEFINE batch == FirstOf(pass.rest, BatchMax)
  <2>1. /\ row' = [n \in Numbers |->
                     IF n \in batch /\ row[n].has
                     THEN [has |-> TRUE, attempts |-> row[n].attempts + 1, due |-> FALSE]
                     ELSE row[n]]
        /\ UNCHANGED <<task, outSeq, dropped>>
    BY <1>17 DEF PassFailed, history
  <2> HIDE DEF batch
  <2>2. \A m \in Numbers : row'[m].has <=> row[m].has
    BY <1>0, <2>1
  <2> QED
    BY <1>6, <1>7, <2>1, <2>2 DEF Stages
<1>18. CASE SenderCrashes
  <2>1. /\ dropped' = dropped \cup {n \in Numbers : task[n] \in {"post", "queue"}}
        /\ task' = [n \in Numbers |-> IF task[n] = "none" THEN "none" ELSE "done"]
        /\ UNCHANGED <<outSeq, row>>
    BY <1>18 DEF SenderCrashes
  <2>2. \A n \in Numbers : (task'[n] = "none" <=> task[n] = "none") /\ (task[n] # "none" => task'[n] = "done")
    BY <1>0, <2>1
  <2> QED
    BY <1>6, <1>7, <2>1, <2>2 DEF Stages
<1> QED
  BY <1>8, <1>9, <1>10, <1>11, <1>12, <1>13, <1>14, <1>15, <1>16, <1>17, <1>18 DEF SenderStep

----------------------------------------------------------------------------
\* The receiver's handling of the event with number n of request s: passed
\* over as a repeat, or handled, with the numbers that follow from it.
Repeated(s, n) ==
    /\ Seen(n, slot[s].last, slot[s].missing, slot[s].recent)
    /\ UNCHANGED <<handled, forgotten>>
    /\ slot'[s].last = slot[s].last
    /\ slot'[s].missing = slot[s].missing
    /\ slot'[s].recent = slot[s].recent

Handled(s, n) ==
    /\ ~ Seen(n, slot[s].last, slot[s].missing, slot[s].recent)
    /\ handled' = [handled EXCEPT ![n] = IF @ = 0 THEN 1 ELSE 2]
    /\ forgotten' = forgotten \cup (AllMissing(slot[s].missing, slot[s].last, n) \ slot'[s].missing)
    /\ slot'[s].last = IF n <= slot[s].last THEN slot[s].last ELSE n
    /\ slot'[s].missing = TrackMissingSeqs(slot[s].missing, slot[s].last, n)
    /\ slot'[s].recent = RememberEventId(slot[s].recent, n)

LEMMA HandlingDoes ==
    ASSUME slot \in [Slots -> Requests], NEW s \in Slots, HandleNext(s)
    PROVE  \E n \in slot[s].events :
             /\ n \in Numbers /\ slot[s].events \subseteq Numbers /\ \A m \in slot[s].events : n <= m
             /\ slot[s].at = "work" /\ slot'[s].at = "work"
             /\ slot'[s].by = slot[s].by /\ slot'[s].was = slot[s].was
             /\ slot'[s].events = slot[s].events \ {n}
             /\ \A t \in Slots \ {s} : slot'[t] = slot[t]
             /\ UNCHANGED <<sender, receiver, dropped, late, mixed>>
             /\ Repeated(s, n) \/ Handled(s, n)
<1> DEFINE w == slot[s]
<1>1. PICK n \in w.events :
        LET seen == Seen(n, w.last, w.missing, w.recent)
            miss == TrackMissingSeqs(w.missing, w.last, n)
        IN  /\ \A m \in w.events : n <= m
            /\ slot' = [slot EXCEPT ![s] =
                 IF seen THEN [w EXCEPT !.events = @ \ {n}]
                 ELSE [w EXCEPT !.events = @ \ {n},
                                !.last = IF n <= @ THEN @ ELSE n,
                                !.missing = miss,
                                !.recent = RememberEventId(@, n)]]
            /\ handled' = IF seen THEN handled
                          ELSE [handled EXCEPT ![n] = IF @ = 0 THEN 1 ELSE 2]
            /\ forgotten' = IF seen THEN forgotten
                            ELSE forgotten \cup (AllMissing(w.missing, w.last, n) \ miss)
  BY DEF HandleNext
<1>2. w.at = "work" /\ UNCHANGED <<sender, receiver, dropped, late, mixed>>
  BY DEF HandleNext
<1>3. w \in [at : {"work", "save"}, by : Int, events : SUBSET Numbers, last : Last,
             missing : SUBSET Numbers, was : Last \X SUBSET Numbers, recent : Seq(Numbers)]
  BY <1>2, WorkShape
<1>4. n \in Numbers /\ w.events \subseteq Numbers
  BY <1>1, <1>3
<1>5. \A t \in Slots \ {s} : slot'[t] = slot[t]
  BY <1>1
<1>6. CASE Seen(n, w.last, w.missing, w.recent)
  <2>1. slot'[s] = [w EXCEPT !.events = @ \ {n}] /\ UNCHANGED <<handled, forgotten>>
    BY <1>1, <1>6
  <2>2. /\ slot'[s].at = w.at /\ slot'[s].by = w.by /\ slot'[s].was = w.was
        /\ slot'[s].events = w.events \ {n} /\ slot'[s].last = w.last
        /\ slot'[s].missing = w.missing /\ slot'[s].recent = w.recent
    BY <1>3, <2>1
  <2> HIDE DEF w
  <2>3. Repeated(s, n)
    BY <1>6, <2>1, <2>2 DEF Repeated, w
  <2> QED
    BY <1>1, <1>2, <1>4, <1>5, <2>2, <2>3 DEF w
<1>7. CASE ~ Seen(n, w.last, w.missing, w.recent)
  <2> DEFINE miss == TrackMissingSeqs(w.missing, w.last, n)
             rec == RememberEventId(w.recent, n)
  <2>1. /\ slot'[s] = [w EXCEPT !.events = @ \ {n}, !.last = IF n <= @ THEN @ ELSE n,
                                !.missing = miss, !.recent = rec]
        /\ handled' = [handled EXCEPT ![n] = IF @ = 0 THEN 1 ELSE 2]
        /\ forgotten' = forgotten \cup (AllMissing(w.missing, w.last, n) \ miss)
    BY <1>1, <1>7
  <2> HIDE DEF miss, rec
  <2>2. /\ slot'[s].at = w.at /\ slot'[s].by = w.by /\ slot'[s].was = w.was
        /\ slot'[s].events = w.events \ {n} /\ slot'[s].last = IF n <= w.last THEN w.last ELSE n
        /\ slot'[s].missing = miss /\ slot'[s].recent = rec
    BY <1>3, <2>1
  <2>3. Handled(s, n)
    BY <1>7, <2>1, <2>2 DEF Handled, miss, rec
  <2> QED
    BY <1>1, <1>2, <1>4, <1>5, <2>2, <2>3
<1> QED
  BY <1>6, <1>7

\* What handling one more number makes of a pair that told the truth.
LEMMA HandlingIsHonest ==
    ASSUME NEW last \in Last, NEW miss \in SUBSET Numbers, NEW n \in Numbers,
           Honest(last, miss), handled \in [Numbers -> 0 .. 2],
           handled' = [handled EXCEPT ![n] = IF @ = 0 THEN 1 ELSE 2],
           forgotten' = forgotten \cup (AllMissing(miss, last, n) \ TrackMissingSeqs(miss, last, n))
    PROVE  /\ \A m \in Numbers :
                Known(m, IF n <= last THEN last ELSE n, TrackMissingSeqs(miss, last, n)) => Done(m)'
           /\ \A m \in Numbers : handled[m] # 0 => handled'[m] # 0
           /\ \A m \in Numbers : Done(m) => Done(m)'
           /\ handled'[n] # 0
<1> DEFINE all == AllMissing(miss, last, n)
           left == TrackMissingSeqs(miss, last, n)
           top == IF n <= last THEN last ELSE n
<1>1. /\ \A m \in Numbers : /\ m \in miss /\ m # n => m \in all
                            /\ last < m /\ m < n => m \in all
  BY MissingNumbers
<1>2. handled'[n] # 0 /\ \A m \in Numbers : handled[m] # 0 => handled'[m] # 0
  BY DEF Numbers
<1>3. \A m \in Numbers : Done(m) => Done(m)'
  BY <1>2 DEF Done
<1>4. last \in Int /\ n \in Int /\ \A m \in Numbers : m \in Int
  BY Bounds DEF Last
<1> HIDE DEF all, left
<1>5. ASSUME NEW m \in Numbers, Known(m, top, left) PROVE Done(m)'
  <2>1. m <= top /\ m \notin left
    BY <1>5 DEF Known
  <2>2. CASE m \in all
    BY <2>1, <2>2 DEF Done, all, left
  <2>3. CASE m = n
    BY <1>2, <2>3 DEF Done
  <2>4. CASE m \notin all /\ m # n
    <3>1. m <= last /\ m \notin miss
      BY <1>1, <1>4, <2>1, <2>4
    <3>2. Done(m)
      BY <3>1 DEF Honest, Known
    <3> QED
      BY <1>3, <3>2
  <2> QED
    BY <2>2, <2>3, <2>4
<1> QED
  BY <1>2, <1>3, <1>5 DEF left

\* A step of the receiver keeps the numbers and the answers true.
LEMMA ReceiverKeepsNumbers ==
    ASSUME StreamInv, NumbersHonest, AnswersHonest, ReceiverStep
    PROVE  /\ NumbersHonest' /\ AnswersHonest'
           /\ \A n \in Numbers : Done(n) => Done(n)'
           /\ UNCHANGED <<sender, dropped, late>>
<1> DEFINE Waits(s) ==
             /\ slot[s].by \in Numbers \cup {ThePass, Nobody}
             /\ slot[s].by = ThePass => pass.at = "posted"
             /\ \A n \in Charge(slot[s].by) :
                  Done(n) \/ (slot[s].at \notin {"answered", "save"} /\ n \in slot[s].events)
           True(s) ==
             /\ slot[s].at # "free" => Waits(s)
             /\ AtWork(s) => Honest(slot[s].last, slot[s].missing)
             /\ slot[s].at \in {"work", "save"} =>
                  \A n \in Numbers : InSeq(n, slot[s].recent) => handled[n] # 0
           Sole == \A s, t \in Slots :
             (slot[s].at # "free" /\ slot[t].at # "free" /\ slot[s].by = ThePass /\ slot[t].by = ThePass)
               => s = t
           Stored == /\ Honest(lastSeq, missing)
                     /\ \A n \in Numbers : InSeq(n, recent) => handled[n] # 0
           All == NumbersHonest /\ AnswersHonest
           Grows == /\ \A n \in Numbers : handled[n] # 0 => handled'[n] # 0
                    /\ \A n \in Numbers : Done(n) => Done(n)'
<1>0. /\ slot \in [Slots -> Requests] /\ Free.at = "free" /\ handled \in [Numbers -> 0 .. 2]
      /\ lastSeq \in Last /\ missing \in SUBSET Numbers
  BY DEF StreamInv, TypeOK, Free
<1>1. All <=> (\A s \in Slots : True(s)) /\ Sole /\ Stored
  BY DEF AnswersHonest, NumbersHonest, AtWork
<1>2. All' <=> (\A s \in Slots : True(s)') /\ Sole' /\ Stored'
  BY DEF AnswersHonest, NumbersHonest, AtWork
<1>3. /\ UNCHANGED sender /\ UNCHANGED <<dropped, late>>
  BY DEF ReceiverStep, ReadLink, ReadRecent, HandleNext, KeepRecent, SaveLink, ReceiverCrashes, sender, history
<1>4. ASSUME NEW s \in Slots, Waits(s) PROVE Charge(slot[s].by) \subseteq Numbers
  <2>1. CASE slot[s].by = ThePass
    <3>1. pass.rest \in SUBSET Numbers
      BY <1>4, <2>1, PassShapes DEF StreamInv, TypeOK
    <3> QED
      BY <2>1, <3>1 DEF Charge, FirstOf
  <2>2. CASE slot[s].by # ThePass
    BY <1>4, <2>2 DEF Charge
  <2> QED
    BY <2>1, <2>2
<1>5. \A by : Charge(by)' = Charge(by)
  BY <1>3 DEF Charge, sender
<1>6. ASSUME Grows, NEW s \in Slots, True(s), slot'[s] = slot[s] PROVE True(s)'
  <2>1. \A l, m : Honest(l, m) => Honest(l, m)'
    BY <1>6 DEF Honest
  <2>2. slot'[s].at # "free" => Waits(s)'
    <3>1. CASE slot[s].at = "free"
      BY <1>6, <3>1
    <3>2. CASE slot[s].at # "free"
      <4>1. Charge(slot[s].by)' = Charge(slot[s].by) /\ Charge(slot[s].by) \subseteq Numbers
        BY <1>3, <1>4, <1>6, <3>2 DEF Charge, sender
      <4> QED
        BY <1>3, <1>6, <3>2, <4>1 DEF sender
    <3> QED
      BY <3>1, <3>2
  <2>3. AtWork(s)' => Honest(slot[s].last, slot[s].missing)'
    <3>1. AtWork(s)' => Honest(slot[s].last, slot[s].missing)
      BY <1>6 DEF AtWork
    <3> QED
      BY <1>6, <3>1 DEF Honest
  <2>4. slot'[s].at \in {"work", "save"} =>
                  \A n \in Numbers : InSeq(n, slot'[s].recent) => handled'[n] # 0
    BY <1>6
  <2> QED
    BY <2>2, <2>3, <2>4
<1>7. ASSUME UNCHANGED <<handled, forgotten>> PROVE Grows
  BY <1>7 DEF Done
\* Only request s changes: it goes on, and nobody else waits for it.
<1>8. ASSUME Grows, NEW s \in Slots, slot[s].at # "free",
             \A t \in Slots \ {s} : slot'[t] = slot[t],
             slot'[s].at = "free" \/ slot'[s].by = slot[s].by,
             (\A t \in Slots : True(t)) /\ Sole /\ Stored,
             True(s)', Stored'
      PROVE  All'
  <2>1. \A t \in Slots : True(t)'
    BY <1>6, <1>8
  <2>2. Sole'
    BY <1>8
  <2> QED
    BY <1>2, <1>8, <2>1, <2>2
<1>9. ASSUME NEW s \in Slots, slot[s].at # "free", True(s),
             slot'[s].by = slot[s].by, slot'[s].at # "free",
             Grows,
             \A n \in Numbers : (slot[s].at \notin {"answered", "save"} /\ n \in slot[s].events) =>
                Done(n)' \/ (slot'[s].at \notin {"answered", "save"} /\ n \in slot'[s].events)
      PROVE  Waits(s)'
  <2>1. Waits(s) /\ Charge(slot[s].by) \subseteq Numbers
    BY <1>4, <1>9
  <2>2. Charge(slot[s].by)' = Charge(slot[s].by)
    BY <1>3, <1>9 DEF Charge, sender
  <2> QED
    BY <1>3, <1>9, <2>1, <2>2 DEF sender
<1>10. /\ (\A s \in Slots : True(s)) /\ Sole /\ Stored
  BY <1>1
<1> HIDE DEF Waits, Sole
<1>11. ASSUME NEW s \in Slots, ReadLink(s) PROVE Grows /\ All'
  <2>1. /\ slot[s].at = "wire" /\ UNCHANGED <<handled, forgotten>> /\ UNCHANGED receiver
        /\ slot' = [slot EXCEPT ![s] =
                  [at |-> "read", by |-> slot[s].by, events |-> slot[s].events,
                   last |-> lastSeq, missing |-> missing, was |-> <<lastSeq, missing>>]]
    BY <1>11 DEF ReadLink
  <2>2. /\ slot'[s].at = "read" /\ slot'[s].by = slot[s].by /\ slot'[s].events = slot[s].events
        /\ slot'[s].last = lastSeq /\ slot'[s].missing = missing
        /\ \A t \in Slots \ {s} : slot'[t] = slot[t]
    BY <1>0, <2>1
  <2>3. Grows
    BY <1>7, <2>1
  <2>4. Stored'
    BY <1>10, <2>1 DEF Honest, Done, receiver
  <2>5. Honest(slot[s].last, slot[s].missing)'
    BY <1>10, <2>1, <2>2 DEF Honest, Done
  <2>6. True(s)'
    BY <1>9, <1>10, <2>1, <2>2, <2>3, <2>5
  <2> QED
    BY <1>8, <1>10, <2>1, <2>2, <2>3, <2>4, <2>6
<1>12. ASSUME NEW s \in Slots, ReadRecent(s) PROVE Grows /\ All'
  <2>1. /\ slot[s].at = "read" /\ UNCHANGED <<handled, forgotten>> /\ UNCHANGED receiver
        /\ slot' = [slot EXCEPT ![s] =
                  [at |-> "work", by |-> slot[s].by, events |-> slot[s].events,
                   last |-> slot[s].last, missing |-> slot[s].missing, was |-> slot[s].was,
                   recent |-> recent]]
    BY <1>12 DEF ReadRecent, history
  <2>2. /\ slot'[s].at = "work" /\ slot'[s].by = slot[s].by /\ slot'[s].events = slot[s].events
        /\ slot'[s].last = slot[s].last /\ slot'[s].missing = slot[s].missing
        /\ slot'[s].recent = recent
        /\ \A t \in Slots \ {s} : slot'[t] = slot[t]
    BY <1>0, <2>1
  <2>3. Grows
    BY <1>7, <2>1
  <2>4. Stored'
    BY <1>10, <2>1 DEF Honest, Done, receiver
  <2>5. Honest(slot[s].last, slot[s].missing)'
    <3>1. Honest(slot[s].last, slot[s].missing)
      BY <1>10, <2>1 DEF AtWork
    <3> QED
      BY <2>1, <2>2, <3>1 DEF Honest, Done
  <2>6. True(s)'
    BY <1>9, <1>10, <2>1, <2>2, <2>3, <2>5
  <2> QED
    BY <1>8, <1>10, <2>1, <2>2, <2>3, <2>4, <2>6
<1>13. ASSUME NEW s \in Slots, HandleNext(s) PROVE Grows /\ All'
  <2>1. PICK n \in slot[s].events :
             /\ n \in Numbers /\ slot[s].events \subseteq Numbers
             /\ slot[s].at = "work" /\ slot'[s].at = "work"
             /\ slot'[s].by = slot[s].by /\ slot'[s].was = slot[s].was
             /\ slot'[s].events = slot[s].events \ {n}
             /\ \A t \in Slots \ {s} : slot'[t] = slot[t]
             /\ UNCHANGED receiver
             /\ Repeated(s, n) \/ Handled(s, n)
    BY <1>0, <1>13, HandlingDoes
  <2>2. slot[s].last \in Last /\ slot[s].missing \in SUBSET Numbers /\ slot[s].recent \in Seq(Numbers)
    BY <1>0, <2>1, RequestShapes
  <2>3. /\ Honest(slot[s].last, slot[s].missing)
        /\ \A m \in Numbers : InSeq(m, slot[s].recent) => handled[m] # 0
    BY <1>10, <2>1 DEF AtWork
  <2>4. /\ Grows /\ Done(n)'
        /\ Honest(slot[s].last, slot[s].missing)'
        /\ \A m \in Numbers : InSeq(m, slot'[s].recent) => handled'[m] # 0
    <3>1. CASE Repeated(s, n)
      <4>1. Seen(n, slot[s].last, slot[s].missing, slot[s].recent) /\ UNCHANGED <<handled, forgotten>>
            /\ slot'[s].last = slot[s].last /\ slot'[s].missing = slot[s].missing /\ slot'[s].recent = slot[s].recent
        BY <3>1 DEF Repeated
      <4>2. Done(n)
        BY <2>1, <2>3, <4>1 DEF Seen, Honest, Known, Done
      <4>3. Grows
        BY <1>7, <4>1
      <4>4. Honest(slot[s].last, slot[s].missing)'
        BY <2>3, <4>1 DEF Honest, Done
      <4> QED
        BY <2>1, <2>3, <4>1, <4>2, <4>3, <4>4
    <3>2. CASE Handled(s, n)
      <4> DEFINE last == slot[s].last
                 miss == slot[s].missing
                 left == TrackMissingSeqs(miss, last, n)
                 top == IF n <= last THEN last ELSE n
      <4>1. /\ handled' = [handled EXCEPT ![n] = IF @ = 0 THEN 1 ELSE 2]
            /\ forgotten' = forgotten \cup (AllMissing(miss, last, n) \ left)
            /\ slot'[s].last = top /\ slot'[s].missing = left
            /\ slot'[s].recent = RememberEventId(slot[s].recent, n)
        BY <3>2 DEF Handled
      <4>2. /\ \A m \in Numbers : Known(m, top, left) => Done(m)'
            /\ Grows /\ handled'[n] # 0
        <5>1. /\ last \in Last /\ miss \in SUBSET Numbers /\ n \in Numbers /\ Honest(last, miss)
              /\ handled \in [Numbers -> 0 .. 2]
          BY <1>0, <2>1, <2>2, <2>3
        <5> QED
          BY <4>1, <5>1, HandlingIsHonest, Zenon
      <4> HIDE DEF last, miss, left, top
      <4>3. Honest(slot[s].last, slot[s].missing)'
        BY <4>1, <4>2 DEF Honest, Known
      <4>4. \A m \in Numbers : InSeq(m, slot'[s].recent) => InSeq(m, slot[s].recent) \/ m = n
        BY <2>1, <2>2, <4>1, WindowOfRecent
      <4> QED
        BY <2>1, <2>3, <4>2, <4>3, <4>4 DEF Done
    <3> QED
      BY <2>1, <3>1, <3>2
  <2>5. Stored'
    BY <1>10, <2>1, <2>4 DEF Honest, receiver
  <2>6. Waits(s)'
    BY <1>9, <1>10, <2>1, <2>4
  <2>7. True(s)'
    BY <2>1, <2>4, <2>6
  <2> QED
    BY <1>8, <1>10, <2>1, <2>4, <2>5, <2>7
<1>14. ASSUME NEW s \in Slots, KeepRecent(s) PROVE Grows /\ All'
  <2>1. /\ slot[s].at = "work" /\ slot[s].events = {} /\ recent' = slot[s].recent
        /\ slot' = [slot EXCEPT ![s] = [slot[s] EXCEPT !.at = "save"]]
        /\ UNCHANGED <<lastSeq, missing, handled, forgotten>>
    BY <1>14 DEF KeepRecent, history
  <2>2. slot[s] \in [at : {"work", "save"}, by : Int, events : SUBSET Numbers, last : Last,
                     missing : SUBSET Numbers, was : Last \X SUBSET Numbers, recent : Seq(Numbers)]
    BY <1>0, <2>1, WorkShape
  <2>3. /\ slot'[s].at = "save" /\ slot'[s].by = slot[s].by
        /\ slot'[s].last = slot[s].last /\ slot'[s].missing = slot[s].missing
        /\ slot'[s].recent = slot[s].recent
        /\ \A t \in Slots \ {s} : slot'[t] = slot[t]
    <3>1. slot'[s] = [slot[s] EXCEPT !.at = "save"] /\ \A t \in Slots \ {s} : slot'[t] = slot[t]
      BY <1>0, <2>1
    <3> QED
      BY <2>2, <3>1
  <2>4. Grows
    BY <1>7, <2>1
  <2>5. /\ Honest(slot[s].last, slot[s].missing)
        /\ \A m \in Numbers : InSeq(m, slot[s].recent) => handled[m] # 0
    BY <1>10, <2>1 DEF AtWork
  <2>6. Stored'
    BY <1>10, <2>1, <2>5 DEF Honest, Done
  <2>7. Honest(slot[s].last, slot[s].missing)'
    BY <2>1, <2>3, <2>5 DEF Honest, Done
  <2>8. Waits(s)'
    BY <1>9, <1>10, <2>1, <2>3, <2>4
  <2>9. True(s)'
    BY <2>1, <2>3, <2>5, <2>7, <2>8
  <2> QED
    BY <1>8, <1>10, <2>1, <2>3, <2>4, <2>6, <2>9
<1>15. ASSUME NEW s \in Slots, SaveLink(s) PROVE Grows /\ All'
  <2>1. /\ slot[s].at = "save" /\ UNCHANGED <<recent, handled, forgotten>>
        /\ slot' = [slot EXCEPT ![s] = IF slot[s].by = Nobody THEN Free
                                   ELSE [at |-> "answered", by |-> slot[s].by]]
        /\ \/ UNCHANGED <<lastSeq, missing>>
           \/ lastSeq' = slot[s].last /\ missing' = slot[s].missing
    BY <1>15 DEF SaveLink, history
  <2>2. \A t \in Slots \ {s} : slot'[t] = slot[t]
    BY <1>0, <2>1
  <2>3. \/ slot'[s].at = "free"
        \/ slot'[s].at = "answered" /\ slot'[s].by = slot[s].by
    BY <1>0, <2>1
  <2>4. Grows
    BY <1>7, <2>1
  <2>5. Honest(slot[s].last, slot[s].missing)
    BY <1>10, <2>1 DEF AtWork
  <2>6. Stored'
    BY <1>10, <2>1, <2>5 DEF Honest, Done
  <2>7. slot'[s].at # "free" => Waits(s)'
    BY <1>9, <1>10, <2>1, <2>3, <2>4
  <2>8. True(s)'
    BY <2>3, <2>7 DEF AtWork
  <2> QED
    BY <1>8, <1>10, <2>1, <2>2, <2>3, <2>4, <2>6, <2>8
<1>16. ASSUME ReceiverCrashes PROVE Grows /\ All'
  <2>1. /\ recent' = <<>> /\ UNCHANGED <<lastSeq, missing, handled, forgotten>>
        /\ slot' = [s \in Slots |-> IF AtWork(s) THEN Free ELSE slot[s]]
    BY <1>16 DEF ReceiverCrashes
  <2>2. \A s \in Slots : slot'[s] = slot[s] \/ slot'[s] = Free
    BY <2>1
  <2>3. Grows
    BY <1>7, <2>1
  <2>4. \A s \in Slots : True(s)'
    BY <1>0, <1>6, <1>10, <2>2, <2>3 DEF AtWork
  <2>5. Sole'
    BY <1>0, <1>10, <2>2 DEF Sole
  <2>6. Stored'
    <3>1. \A n \in Numbers : ~ InSeq(n, recent')
      BY <2>1 DEF InSeq
    <3>2. Honest(lastSeq, missing)'
      BY <1>10, <2>1 DEF Honest, Done
    <3> QED
      BY <3>1, <3>2
  <2> QED
    BY <1>2, <2>3, <2>4, <2>5, <2>6
<1> HIDE DEF All
<1>17. Grows /\ All'
  BY <1>11, <1>12, <1>13, <1>14, <1>15, <1>16 DEF ReceiverStep
<1> QED
  BY <1>3, <1>17 DEF All

LEMMA LostInvHolds ==
    /\ Init => LostInv
    /\ StreamInv /\ LostInv /\ [Next]_vars => LostInv'
<1>1. Init => LostInv
  <2> SUFFICES ASSUME Init PROVE LostInv
    OBVIOUS
  <2>1. \A s \in Slots : slot[s].at = "free"
    BY DEF Init, Free
  <2>2. NumbersHonest
    <3>1. Honest(lastSeq, missing)
      BY DEF Init, Honest, Known, Numbers
    <3>2. \A n \in Numbers : ~ InSeq(n, recent)
      BY DEF Init, InSeq
    <3> QED
      BY <2>1, <3>1, <3>2 DEF NumbersHonest, AtWork
  <2>3. AnswersHonest
    BY <2>1 DEF AnswersHonest
  <2>4. Stages
    BY RowShapes DEF Init, Stages, Numbers
  <2>5. NothingLost
    BY DEF Init, NothingLost
  <2> QED
    BY <2>2, <2>3, <2>4, <2>5 DEF LostInv
<1>2. ASSUME StreamInv, LostInv, [Next]_vars PROVE LostInv'
  <2>1. CASE UNCHANGED vars
    <3> USE <2>1 DEF vars, sender, receiver, history
    <3>1. NumbersHonest'
      BY <1>2 DEF LostInv, NumbersHonest, Honest, Done, AtWork
    <3>2. AnswersHonest'
      BY <1>2 DEF LostInv, AnswersHonest, Charge, Done
    <3>3. Stages' /\ NothingLost'
      BY <1>2 DEF LostInv, Stages, NothingLost, Pending, Queued
    <3> QED
      BY <3>1, <3>2, <3>3 DEF LostInv
  <2>2. CASE SenderStep
    BY <1>2, <2>2, SenderKeepsNumbers, SenderKeepsAnswers, SenderKeepsHold DEF LostInv
  <2>3. CASE ReceiverStep
    <3>1. /\ NumbersHonest' /\ AnswersHonest'
          /\ \A n \in Numbers : Done(n) => Done(n)'
          /\ UNCHANGED <<sender, dropped, late>>
      BY <1>2, <2>3, ReceiverKeepsNumbers DEF LostInv
    <3>2. Stages'
      BY <1>2, <3>1 DEF LostInv, Stages, sender
    <3>3. NothingLost'
      <4>1. outSeq \in Last /\ \A o \in Last : 1 .. o \subseteq Numbers
        BY <1>2, StreamAssumption DEF StreamInv, TypeOK, Last, Numbers
      <4>2. outSeq' = outSeq /\ Pending' = Pending /\ dropped' = dropped
        BY <3>1 DEF sender, Pending, Queued
      <4> QED
        BY <1>2, <3>1, <4>1, <4>2 DEF LostInv, NothingLost, Done
    <3> QED
      BY <3>1, <3>2, <3>3 DEF LostInv
  <2> QED
    BY <1>2, <2>1, <2>2, <2>3 DEF Next
<1> QED
  BY <1>1, <1>2

\* The types and the honesty of numbers and answers, for what follows.
LEMMA Honesty == Spec => [](StreamInv /\ LostInv)
<1>1. Init /\ StreamInv => LostInv
  BY LostInvHolds
<1>2. StreamInv /\ LostInv /\ [Next]_vars => LostInv'
  BY LostInvHolds
<1> QED
  BY <1>1, <1>2, TypeCorrect, PTL DEF Spec

\* An event that is no longer on the sender's hands was handled by the
\* receiver, if it was not thrown away on purpose: overtaking requests,
\* requests at work side by side, lost answers and restarts lose nothing.
THEOREM NoEventIsLost == Spec => []NothingLost
<1>1. StreamInv /\ LostInv => NothingLost
  BY DEF LostInv
<1> QED
  BY <1>1, Honesty, PTL

----------------------------------------------------------------------------
\* What the sender does to requests at work: nothing but leaving them.
LEMMA SenderLeavesWork ==
    ASSUME StreamInv, SenderStep
    PROVE  \A s \in Slots :
             /\ AtWork(s)' <=> AtWork(s)
             /\ AtWork(s) => /\ slot'[s].last = slot[s].last /\ slot'[s].missing = slot[s].missing
                             /\ slot'[s].was = slot[s].was /\ slot'[s].events = slot[s].events
<1> SUFFICES ASSUME NEW s \in Slots
             PROVE  /\ AtWork(s)' <=> AtWork(s)
                    /\ AtWork(s) => /\ slot'[s].last = slot[s].last /\ slot'[s].missing = slot[s].missing
                                    /\ slot'[s].was = slot[s].was /\ slot'[s].events = slot[s].events
  OBVIOUS
<1>1. \/ slot'[s] = slot[s]
      \/ slot'[s] = Free /\ ~ AtWork(s)
      \/ slot[s].at = "free" /\ slot'[s].at = "wire"
      \/ slot[s].at \notin {"free", "answered"} /\ slot'[s] = Orphan(slot[s])
  BY SenderLeaves
<1>2. slot[s] \in Requests /\ Free.at = "free"
  BY DEF StreamInv, TypeOK, Free
<1>3. CASE slot'[s] = slot[s]
  BY <1>3 DEF AtWork
<1>4. CASE (slot'[s] = Free /\ ~ AtWork(s)) \/ (slot[s].at = "free" /\ slot'[s].at = "wire")
  BY <1>2, <1>4 DEF AtWork
<1>5. CASE slot[s].at \notin {"free", "answered"} /\ slot'[s] = Orphan(slot[s])
  <2>1. /\ Orphan(slot[s]).at = slot[s].at
        /\ Orphan(slot[s]).events = slot[s].events
        /\ AtWork(s) => /\ Orphan(slot[s]).last = slot[s].last
                        /\ Orphan(slot[s]).missing = slot[s].missing
                        /\ Orphan(slot[s]).was = slot[s].was
    BY <1>2, <1>5, OrphanShape DEF AtWork
  <2> QED
    BY <1>5, <2>1 DEF AtWork
<1> QED
  BY <1>1, <1>3, <1>4, <1>5

\* Handling one more number, when the pair at hand says all that was handled:
\* it was not handled before, and the pair says all again.
LEMMA HandlingIsComplete ==
    ASSUME NEW last \in Last, NEW miss \in SUBSET Numbers, NEW n \in Numbers,
           \A m \in miss : m <= last, ~ Known(n, last, miss)
    PROVE  LET top == IF n <= last THEN last ELSE n
               left == TrackMissingSeqs(miss, last, n)
           IN  /\ Known(n, top, left)
               /\ \A m \in Numbers : Known(m, last, miss) => Known(m, top, left)
               /\ \A m \in left : m <= top
<1> DEFINE top == IF n <= last THEN last ELSE n
           left == TrackMissingSeqs(miss, last, n)
<1>1. /\ AllMissing(miss, last, n) \in SUBSET Numbers
      /\ TrackMissingSeqs(miss, last, n) \subseteq AllMissing(miss, last, n)
      /\ \A m \in AllMissing(miss, last, n) : m \in miss \/ (last < m /\ m < n)
      /\ n \notin AllMissing(miss, last, n) \/ (n > last /\ n \in miss)
  BY MissingNumbers
<1>2. last \in Int /\ n \in Int /\ \A m \in Numbers : m \in Int
  BY Bounds DEF Last
<1>3. left \subseteq Numbers /\ (\A m \in left : m \in miss \/ (last < m /\ m < n)) /\ n \notin left
  BY <1>1, <1>2
<1> HIDE DEF left
<1>4. Known(n, top, left)
  BY <1>2, <1>3 DEF Known
<1>5. \A m \in Numbers : Known(m, last, miss) => Known(m, top, left)
  BY <1>2, <1>3 DEF Known
<1>6. \A m \in left : m <= top
  BY <1>2, <1>3
<1> QED
  BY <1>4, <1>5, <1>6 DEF left

\* No step of the system breaks the numbers' order.
LEMMA MissingBelowHolds ==
    /\ Init => MissingBelow
    /\ StreamInv /\ MissingBelow /\ [Next]_vars => MissingBelow'
<1>1. Init => MissingBelow
  BY DEF Init, MissingBelow, AtWork, Free
<1>2. ASSUME StreamInv, MissingBelow, [Next]_vars PROVE MissingBelow'
  <2>0. slot \in [Slots -> Requests] /\ Free.at = "free" /\ lastSeq \in Last
    BY <1>2 DEF StreamInv, TypeOK, Free
  <2>1. CASE UNCHANGED vars
    BY <1>2, <2>1 DEF vars, receiver, MissingBelow, AtWork
  <2>2. CASE SenderStep
    BY <1>2, <2>2, SenderLeaves, SenderLeavesWork DEF MissingBelow
  \* Only request s changes, and its numbers stay in order.
  <2>3. ASSUME NEW s \in Slots, \A t \in Slots \ {s} : slot'[t] = slot[t],
               \A m \in missing' : m <= lastSeq',
               AtWork(s)' => \A m \in slot'[s].missing : m <= slot'[s].last
        PROVE  MissingBelow'
    BY <1>2, <2>3 DEF MissingBelow, AtWork
  <2>4. ASSUME NEW s \in Slots, ReadLink(s) PROVE MissingBelow'
    <3>1. /\ UNCHANGED receiver /\ slot'[s].last = lastSeq /\ slot'[s].missing = missing
          /\ \A t \in Slots \ {s} : slot'[t] = slot[t]
      BY <2>0, <2>4 DEF ReadLink
    <3> QED
      BY <1>2, <2>3, <3>1 DEF MissingBelow, receiver
  <2>5. ASSUME NEW s \in Slots, ReadRecent(s) PROVE MissingBelow'
    <3>1. /\ UNCHANGED receiver /\ slot[s].at = "read"
          /\ slot'[s].last = slot[s].last /\ slot'[s].missing = slot[s].missing
          /\ \A t \in Slots \ {s} : slot'[t] = slot[t]
      BY <2>0, <2>5 DEF ReadRecent
    <3> QED
      BY <1>2, <2>3, <3>1 DEF MissingBelow, receiver, AtWork
  <2>6. ASSUME NEW s \in Slots, HandleNext(s) PROVE MissingBelow'
    <3>1. PICK n \in slot[s].events :
             /\ n \in Numbers /\ slot[s].at = "work"
             /\ \A t \in Slots \ {s} : slot'[t] = slot[t]
             /\ UNCHANGED receiver
             /\ Repeated(s, n) \/ Handled(s, n)
      BY <2>0, <2>6, HandlingDoes
    <3>2. slot[s].last \in Last /\ slot[s].missing \in SUBSET Numbers
      BY <2>0, <3>1, RequestShapes
    <3>3. \A m \in slot[s].missing : m <= slot[s].last
      BY <1>2, <3>1 DEF MissingBelow, AtWork
    <3>4. \A m \in slot'[s].missing : m <= slot'[s].last
      <4>1. CASE Repeated(s, n)
        BY <3>3, <4>1 DEF Repeated
      <4>2. CASE Handled(s, n)
        <5>1. /\ slot'[s].last = IF n <= slot[s].last THEN slot[s].last ELSE n
              /\ slot'[s].missing = TrackMissingSeqs(slot[s].missing, slot[s].last, n)
              /\ ~ Seen(n, slot[s].last, slot[s].missing, slot[s].recent)
          BY <4>2 DEF Handled
        <5>2. ~ Known(n, slot[s].last, slot[s].missing)
          BY <5>1 DEF Seen, Known
        <5> QED
          BY <3>1, <3>2, <3>3, <5>1, <5>2, HandlingIsComplete
      <4> QED
        BY <3>1, <4>1, <4>2
    <3> QED
      BY <1>2, <2>3, <3>1, <3>4 DEF MissingBelow, receiver
  <2>7. ASSUME NEW s \in Slots, KeepRecent(s) PROVE MissingBelow'
    <3>1. /\ slot[s].at = "work" /\ UNCHANGED <<lastSeq, missing>>
          /\ slot' = [slot EXCEPT ![s] = [slot[s] EXCEPT !.at = "save"]]
      BY <2>7 DEF KeepRecent
    <3>2. slot[s] \in [at : {"work", "save"}, by : Int, events : SUBSET Numbers, last : Last,
                       missing : SUBSET Numbers, was : Last \X SUBSET Numbers, recent : Seq(Numbers)]
      BY <2>0, <3>1, WorkShape
    <3>3. slot'[s] = [slot[s] EXCEPT !.at = "save"] /\ \A t \in Slots \ {s} : slot'[t] = slot[t]
      BY <2>0, <3>1
    <3>4. slot'[s].last = slot[s].last /\ slot'[s].missing = slot[s].missing
      BY <3>2, <3>3
    <3> QED
      BY <1>2, <2>3, <3>1, <3>3, <3>4 DEF MissingBelow, AtWork
  <2>8. ASSUME NEW s \in Slots, SaveLink(s) PROVE MissingBelow'
    <3>1. /\ slot[s].at = "save"
          /\ \/ UNCHANGED <<lastSeq, missing>>
             \/ lastSeq' = slot[s].last /\ missing' = slot[s].missing
          /\ ~ AtWork(s)' /\ \A t \in Slots \ {s} : slot'[t] = slot[t]
      BY <2>0, <2>8 DEF SaveLink, AtWork
    <3> QED
      BY <1>2, <2>3, <3>1 DEF MissingBelow, AtWork
  <2>9. ASSUME ReceiverCrashes PROVE MissingBelow'
    <3>1. /\ UNCHANGED <<lastSeq, missing>>
          /\ \A s \in Slots : ~ AtWork(s)'
      BY <2>0, <2>9 DEF ReceiverCrashes, AtWork
    <3> QED
      BY <1>2, <3>1 DEF MissingBelow
  <2> QED
    BY <1>2, <2>1, <2>2, <2>4, <2>5, <2>6, <2>7, <2>8, <2>9 DEF Next, ReceiverStep
<1> QED
  BY <1>1, <1>2

\* One request at a time keeps the numbers complete.
LEMMA OneByOneHolds ==
    /\ Init => OneByOne
    /\ StreamInv /\ LostInv /\ MissingBelow /\ OneByOne /\ [Next]_vars => OneByOne'
<1>1. Init => OneByOne
  BY DEF Init, OneByOne, AtWork, Free
<1>2. ASSUME StreamInv, LostInv, MissingBelow, OneByOne, [Next]_vars PROVE OneByOne'
  <2>0. /\ slot \in [Slots -> Requests] /\ Free.at = "free" /\ lastSeq \in Last
        /\ handled \in [Numbers -> 0 .. 2]
    BY <1>2 DEF StreamInv, TypeOK, Free
  <2>1. CASE UNCHANGED vars
    BY <1>2, <2>1 DEF vars, receiver, history, OneByOne, AtWork, Known
  <2>2. CASE SenderStep
    <3>1. /\ UNCHANGED <<lastSeq, missing, handled, mixed>>
          /\ \A s \in Slots :
               /\ AtWork(s)' <=> AtWork(s)
               /\ AtWork(s) => /\ slot'[s].last = slot[s].last /\ slot'[s].missing = slot[s].missing
                               /\ slot'[s].was = slot[s].was
      BY <1>2, <2>2, SenderLeaves, SenderLeavesWork
    <3> QED
      BY <1>2, <3>1 DEF OneByOne, Known
  \* One request was at work alone and is: nothing else has to be shown of it.
  <2>3. ASSUME NEW s \in Slots, AtWork(s), AtWork(s)',
               \A t \in Slots \ {s} : slot'[t] = slot[t],
               UNCHANGED <<lastSeq, missing, mixed>>, slot'[s].was = slot[s].was,
               ~ mixed => /\ \A n \in Numbers : handled'[n] <= 1
                          /\ \A n \in Numbers : handled'[n] # 0 => Known(n, slot'[s].last, slot'[s].missing)
        PROVE  OneByOne'
    <3> SUFFICES ASSUME ~ mixed PROVE OneByOne'
      BY <2>3 DEF OneByOne
    <3>1. \A t \in Slots : AtWork(t)' => t = s
      BY <1>2, <2>3 DEF OneByOne, AtWork
    <3>2. slot'[s].was = <<lastSeq', missing'>>
      BY <1>2, <2>3 DEF OneByOne
    <3> QED
      BY <2>3, <3>1, <3>2 DEF OneByOne, Known
  <2>4. ASSUME NEW s \in Slots, ReadLink(s) PROVE OneByOne'
    <3>1. /\ UNCHANGED receiver /\ handled' = handled
          /\ mixed' = (mixed \/ \E o \in Slots : AtWork(o))
          /\ slot'[s].last = lastSeq /\ slot'[s].missing = missing
          /\ slot'[s].was = <<lastSeq, missing>>
          /\ \A t \in Slots \ {s} : slot'[t] = slot[t]
      BY <2>0, <2>4 DEF ReadLink
    <3> SUFFICES ASSUME ~ mixed' PROVE OneByOne'
      BY DEF OneByOne
    <3>2. \A t \in Slots : AtWork(t)' => t = s
      BY <3>1 DEF AtWork
    <3>3. \A n \in Numbers : handled[n] <= 1 /\ (handled[n] # 0 => Known(n, lastSeq, missing))
      BY <1>2, <3>1 DEF OneByOne
    <3>4. AtWork(s)'
      BY <2>0, <2>4 DEF ReadLink, AtWork
    <3> QED
      BY <3>1, <3>2, <3>3, <3>4 DEF OneByOne, Known, receiver
  <2>5. ASSUME NEW s \in Slots, ReadRecent(s) PROVE OneByOne'
    <3>1. /\ UNCHANGED receiver /\ UNCHANGED history /\ slot[s].at = "read" /\ slot'[s].at = "work"
          /\ slot'[s].last = slot[s].last /\ slot'[s].missing = slot[s].missing
          /\ slot'[s].was = slot[s].was
          /\ \A t \in Slots \ {s} : slot'[t] = slot[t]
      BY <2>0, <2>5 DEF ReadRecent
    <3>2. AtWork(s) /\ AtWork(s)'
      BY <3>1 DEF AtWork
    <3> QED
      BY <1>2, <2>3, <3>1, <3>2 DEF OneByOne, Known, receiver, history
  <2>6. ASSUME NEW s \in Slots, HandleNext(s) PROVE OneByOne'
    <3>1. PICK n \in slot[s].events :
             /\ n \in Numbers
             /\ slot[s].at = "work" /\ slot'[s].at = "work" /\ slot'[s].was = slot[s].was
             /\ \A t \in Slots \ {s} : slot'[t] = slot[t]
             /\ UNCHANGED receiver /\ UNCHANGED mixed
             /\ Repeated(s, n) \/ Handled(s, n)
      BY <2>0, <2>6, HandlingDoes
    <3>2. slot[s].last \in Last /\ slot[s].missing \in SUBSET Numbers
      BY <2>0, <3>1, RequestShapes
    <3>3. AtWork(s) /\ AtWork(s)'
      BY <3>1 DEF AtWork
    <3>4. \A m \in slot[s].missing : m <= slot[s].last
      BY <1>2, <3>3 DEF MissingBelow
    <3>5. ASSUME ~ mixed
          PROVE  /\ \A m \in Numbers : handled'[m] <= 1
                 /\ \A m \in Numbers : handled'[m] # 0 => Known(m, slot'[s].last, slot'[s].missing)
      <4>1. /\ \A m \in Numbers : handled[m] <= 1
            /\ \A m \in Numbers : handled[m] # 0 => Known(m, slot[s].last, slot[s].missing)
        BY <1>2, <3>3, <3>5 DEF OneByOne
      <4>2. CASE Repeated(s, n)
        BY <4>1, <4>2 DEF Repeated
      <4>3. CASE Handled(s, n)
        <5>1. /\ slot'[s].last = IF n <= slot[s].last THEN slot[s].last ELSE n
              /\ slot'[s].missing = TrackMissingSeqs(slot[s].missing, slot[s].last, n)
              /\ ~ Seen(n, slot[s].last, slot[s].missing, slot[s].recent)
              /\ handled' = [handled EXCEPT ![n] = IF @ = 0 THEN 1 ELSE 2]
          BY <4>3 DEF Handled
        <5>2. ~ Known(n, slot[s].last, slot[s].missing)
          BY <5>1 DEF Seen, Known
        <5>3. /\ Known(n, slot'[s].last, slot'[s].missing)
              /\ \A m \in Numbers : Known(m, slot[s].last, slot[s].missing)
                                      => Known(m, slot'[s].last, slot'[s].missing)
          BY <3>1, <3>2, <3>4, <5>1, <5>2, HandlingIsComplete
        <5>4. handled[n] = 0
          BY <3>1, <4>1, <5>2
        <5>5. handled'[n] = 1 /\ \A m \in Numbers \ {n} : handled'[m] = handled[m]
          BY <2>0, <3>1, <5>1, <5>4
        <5> QED
          BY <4>1, <5>3, <5>5
      <4> QED
        BY <3>1, <4>2, <4>3
    <3> QED
      BY <2>3, <3>1, <3>3, <3>5 DEF receiver
  <2>7. ASSUME NEW s \in Slots, KeepRecent(s) PROVE OneByOne'
    <3>1. /\ slot[s].at = "work" /\ UNCHANGED <<lastSeq, missing>> /\ UNCHANGED history
          /\ slot' = [slot EXCEPT ![s] = [slot[s] EXCEPT !.at = "save"]]
      BY <2>7 DEF KeepRecent
    <3>2. slot[s] \in [at : {"work", "save"}, by : Int, events : SUBSET Numbers, last : Last,
                       missing : SUBSET Numbers, was : Last \X SUBSET Numbers, recent : Seq(Numbers)]
      BY <2>0, <3>1, WorkShape
    <3>3. slot'[s] = [slot[s] EXCEPT !.at = "save"] /\ \A t \in Slots \ {s} : slot'[t] = slot[t]
      BY <2>0, <3>1
    <3>4. /\ slot'[s].last = slot[s].last /\ slot'[s].missing = slot[s].missing
          /\ slot'[s].was = slot[s].was /\ slot'[s].at = "save"
      BY <3>2, <3>3
    <3>5. AtWork(s) /\ AtWork(s)'
      BY <3>1, <3>4 DEF AtWork
    <3> QED
      BY <1>2, <2>3, <3>1, <3>3, <3>4, <3>5 DEF OneByOne, Known, history
  <2>8. ASSUME NEW s \in Slots, SaveLink(s) PROVE OneByOne'
    <3> SUFFICES ASSUME ~ mixed' PROVE OneByOne'
      BY DEF OneByOne
    <3>1. /\ slot[s].at = "save" /\ UNCHANGED history
          /\ ~ AtWork(s)' /\ \A t \in Slots \ {s} : slot'[t] = slot[t]
      BY <2>0, <2>8 DEF SaveLink, AtWork
    <3>2. AtWork(s) /\ ~ mixed
      BY <3>1 DEF AtWork, history
    <3>3. \A t \in Slots : ~ AtWork(t)'
      BY <1>2, <3>1, <3>2 DEF OneByOne, AtWork
    <3>4. lastSeq' = slot[s].last /\ missing' = slot[s].missing
      <4>1. slot[s].was = <<lastSeq, missing>>
        BY <1>2, <3>2 DEF OneByOne
      <4> QED
        BY <2>8, <4>1 DEF SaveLink
    <3>5. \A n \in Numbers : handled[n] <= 1 /\ (handled[n] # 0 => Known(n, slot[s].last, slot[s].missing))
      BY <1>2, <3>2 DEF OneByOne
    <3> QED
      BY <3>1, <3>3, <3>4, <3>5 DEF OneByOne, Known, history
  <2>9. ASSUME ReceiverCrashes PROVE OneByOne'
    <3> SUFFICES ASSUME ~ mixed' PROVE OneByOne'
      BY DEF OneByOne
    <3>1. /\ UNCHANGED <<lastSeq, missing, handled>>
          /\ ~ mixed /\ \A s \in Slots : ~ AtWork(s)
          /\ \A s \in Slots : ~ AtWork(s)'
      BY <2>0, <2>9 DEF ReceiverCrashes, AtWork
    <3> QED
      BY <1>2, <3>1 DEF OneByOne, Known
  <2> QED
    BY <1>2, <2>1, <2>2, <2>4, <2>5, <2>6, <2>7, <2>8, <2>9 DEF Next, ReceiverStep
<1> QED
  BY <1>1, <1>2

\* An event is handled once, whatever is repeated or lost, as long as requests
\* are handled one after another and none is cut by a crash.
THEOREM HandledOnceUnlessMixed == Spec => []TwiceOnlyWhenMixed
<1>1. Init => MissingBelow /\ OneByOne
  BY MissingBelowHolds, OneByOneHolds
<1>2. StreamInv /\ LostInv /\ MissingBelow /\ OneByOne /\ [Next]_vars => MissingBelow' /\ OneByOne'
  BY MissingBelowHolds, OneByOneHolds
<1>3. OneByOne => TwiceOnlyWhenMixed
  BY DEF OneByOne, TwiceOnlyWhenMixed
<1> QED
  BY <1>1, <1>2, <1>3, Honesty, PTL DEF Spec

----------------------------------------------------------------------------
\* The first k of a set of numbers are a beginning of it.
LEMMA FirstOfIsABeginning ==
    ASSUME NEW set \in SUBSET Numbers, NEW k \in Nat,
           NEW n \in FirstOf(set, k), NEW m \in set, m <= n
    PROVE  m \in FirstOf(set, k)
<1> DEFINE upto(x) == {y \in set : y <= x}
<1>1. IsFiniteSet(Numbers)
  BY Bounds, FS_Interval DEF Numbers
<1>2. n \in set /\ Cardinality(upto(n)) <= k /\ n \in Int /\ m \in Int /\ \A y \in set : y \in Int
  BY Bounds DEF FirstOf
<1>3. upto(n) \in SUBSET Numbers /\ upto(m) \in SUBSET upto(n)
  <2>1. upto(n) \subseteq Numbers
    OBVIOUS
  <2>2. ASSUME NEW y \in upto(m) PROVE y \in upto(n)
    <3>1. y \in set /\ y <= m /\ y \in Int
      BY <1>2
    <3> QED
      BY <1>2, <3>1
  <2> HIDE DEF upto
  <2> QED
    BY <2>1, <2>2
<1> HIDE DEF upto
<1>4. IsFiniteSet(upto(n))
  BY <1>1, <1>3, FS_Subset
<1>5. Cardinality(upto(m)) <= Cardinality(upto(n)) /\ IsFiniteSet(upto(m))
  BY <1>3, <1>4, FS_Subset
<1>6. Cardinality(upto(m)) \in Nat /\ Cardinality(upto(n)) \in Nat
  BY <1>4, <1>5, FS_CardinalityType
<1>7. Cardinality(upto(m)) <= k
  BY <1>2, <1>5, <1>6
<1> QED
  BY <1>7 DEF upto, FirstOf

\* A number is put into the queue after a later one only when it is late.
LEMMA OvertakenHolds ==
    /\ Init => Overtaken
    /\ StreamInv /\ Stages /\ Overtaken /\ [Next]_vars => Overtaken'
<1>1. Init => Overtaken
  BY DEF Init, Overtaken
<1>2. ASSUME StreamInv, Stages, Overtaken, [Next]_vars PROVE Overtaken'
  <2>0. /\ task \in [Numbers -> {"none", "post", "queue", "queued", "posted", "done"}]
        /\ outSeq \in Last /\ \A n \in Numbers : n \in Int /\ 1 .. n - 1 \subseteq Numbers
        /\ \A n \in Numbers : \A m \in 1 .. n - 1 : m \in Int /\ m < n
    <3>1. \A n \in Numbers : n \in Int /\ 1 .. n - 1 \subseteq Numbers /\ \A m \in 1 .. n - 1 : m \in Int /\ m < n
      BY StreamAssumption DEF Numbers
    <3> QED
      BY <1>2, <3>1 DEF StreamInv, TypeOK
  <2> DEFINE before(n) == task[n] \in {"post", "queue"}
             sent(n) == task[n] \notin {"none", "post", "queue"}
  <2>1. ASSUME \A n \in Numbers : (before(n)' => before(n)) /\ (sent(n)' => sent(n)), late \subseteq late'
        PROVE  Overtaken'
    BY <1>2, <2>0, <2>1 DEF Overtaken
  <2>2. ASSUME UNCHANGED <<task, late>> PROVE Overtaken'
    BY <2>1, <2>2
  <2>3. ASSUME NEW now \in BOOLEAN, TakeNumber(now) PROVE Overtaken'
    <3>1. /\ outSeq < MaxSeq /\ late' = late
          /\ task'[outSeq + 1] \in {"post", "queue"}
          /\ \A n \in Numbers \ {outSeq + 1} : task'[n] = task[n]
      BY <2>0, <2>3, Bounds DEF TakeNumber, history
    <3>2. outSeq \in Int /\ outSeq + 1 \in Numbers
      BY <2>0, <3>1, Bounds
    <3>3. ASSUME NEW n \in Numbers, NEW m \in 1 .. n - 1, before(m)', sent(n)' PROVE m \in late'
      <4>1. n # outSeq + 1 /\ task[n] # "none" /\ task'[n] = task[n]
        BY <3>1, <3>3
      <4>2. ~ (n > outSeq)
        BY <1>2, <4>1 DEF Stages
      <4>3. m # outSeq + 1 /\ m \in Numbers
        BY <2>0, <3>2, <3>3, <4>2
      <4> QED
        BY <1>2, <3>1, <3>3, <4>1, <4>3 DEF Overtaken
    <3> QED
      BY <3>3 DEF Overtaken
  <2>4. ASSUME NEW k \in Numbers, Enqueue(k) PROVE Overtaken'
    <3>1. /\ late' = late \cup {m \in 1 .. k - 1 : task[m] \in {"post", "queue"}}
          /\ task'[k] \in {"queued", "done"} /\ \A n \in Numbers \ {k} : task'[n] = task[n]
      BY <2>0, <2>4 DEF Enqueue
    <3>2. ASSUME NEW n \in Numbers, NEW m \in 1 .. n - 1, before(m)', sent(n)' PROVE m \in late'
      <4>1. m # k /\ m \in Numbers /\ task'[m] = task[m]
        BY <2>0, <3>1, <3>2
      <4>2. CASE n = k
        BY <3>1, <3>2, <4>1, <4>2
      <4>3. CASE n # k
        BY <1>2, <3>1, <3>2, <4>1, <4>3 DEF Overtaken
      <4> QED
        BY <4>2, <4>3
    <3> QED
      BY <3>2 DEF Overtaken
  <2>5. ASSUME NEW n \in Numbers, LeaveToPass(n) \/ PostNow(n) \/ NowAnswered(n) \/ NowFailed(n)
        PROVE  Overtaken'
    <3>1. /\ task[n] \in {"queued", "posted"} /\ late' = late
          /\ task' = [task EXCEPT ![n] = "done"] \/ task' = [task EXCEPT ![n] = "posted"]
      BY <2>5 DEF LeaveToPass, PostNow, NowAnswered, NowFailed, history
    <3> QED
      BY <2>0, <2>1, <3>1
  <2>6. ASSUME SenderCrashes PROVE Overtaken'
    <3>1. task' = [n \in Numbers |-> IF task[n] = "none" THEN "none" ELSE "done"]
      BY <2>6 DEF SenderCrashes
    <3> QED
      BY <2>0, <3>1 DEF Overtaken
  <2> HIDE DEF before, sent
  <2>7. CASE \E n \in Numbers : Due(n)
    BY <2>2, <2>7 DEF Due, history
  <2>8. CASE PassDiscards \/ PassReads \/ PassPosts \/ PassAnswered \/ PassFailed
             \/ \E state \in {"active", "paused", "blocked"} : SetLink(state)
    BY <2>2, <2>8 DEF PassDiscards, PassReads, PassPosts, PassAnswered, PassFailed, SetLink, history
  <2>9. CASE ReceiverStep
    <3>1. UNCHANGED <<task, late>>
      BY <2>9 DEF ReceiverStep, ReadLink, ReadRecent, HandleNext, KeepRecent, SaveLink, ReceiverCrashes,
                  sender, history
    <3> QED
      BY <2>2, <3>1
  <2>10. CASE UNCHANGED vars
    BY <2>2, <2>10 DEF vars, sender, history
  <2> QED
    BY <1>2, <2>3, <2>4, <2>5, <2>6, <2>7, <2>8, <2>9, <2>10 DEF Next, SenderStep
<1> QED
  BY <1>1, <1>2

\* What is below a number that is queued or was: in the queue, or excused.
LEMMA BelowTheQueue ==
    ASSUME StreamInv, Stages, NothingLost, Overtaken, forgotten \subseteq dropped \cup late,
           NEW n \in Numbers, task[n] \notin {"none", "post", "queue"},
           NEW m \in 1 .. n - 1
    PROVE  m \in Queued \/ Excused(m)
<1>1. m \in Numbers /\ m \in Int /\ n \in Int /\ m < n /\ outSeq \in Int
  BY StreamAssumption DEF Numbers, StreamInv, TypeOK, Last
<1>2. n <= outSeq
  BY <1>1 DEF Stages
<1>3. m \in 1 .. outSeq
  BY <1>1, <1>2
<1>4. task[m] \in {"post", "queue"} => m \in late
  BY DEF Overtaken
<1> QED
  BY <1>3, <1>4 DEF NothingLost, Pending, Excused

\* What is sent stays complete when more is excused.
LEMMA CompleteStays ==
    ASSUME NEW events \in SUBSET Numbers, Complete(events),
           \A m \in Numbers : Excused(m) => Excused(m)'
    PROVE  \A n \in events : \A m \in 1 .. n - 1 : m \in events \/ Excused(m)'
<1>1. \A n \in Numbers : 1 .. n - 1 \subseteq Numbers
  BY StreamAssumption DEF Numbers
<1> QED
  BY <1>1 DEF Complete

\* The sender never leaves out a number without a cause.
LEMMA SenderKeepsHoles ==
    ASSUME StreamInv, LostInv, Overtaken, HolesInv, SenderStep
    PROVE  HolesInv'
<1> SUFFICES ASSUME ~ mixed' PROVE HolesInv'
  BY DEF HolesInv
<1>0. /\ slot \in [Slots -> Requests] /\ Free.at = "free" /\ ThePass \in Int
      /\ row \in [Numbers -> Rows] /\ pass \in {Idle} \cup [at : {"send", "posted"}, rest : SUBSET Numbers]
      /\ \A n \in Numbers : n \in Int /\ 1 .. n - 1 \subseteq Numbers
      /\ BatchMax \in Nat
  <2>1. \A n \in Numbers : n \in Int /\ 1 .. n - 1 \subseteq Numbers
    BY StreamAssumption DEF Numbers
  <2>2. row \in [Numbers -> Rows]
    BY DEF StreamInv, TypeOK, Rows
  <2> QED
    BY <2>1, <2>2, StreamAssumption DEF StreamInv, TypeOK, Free, ThePass
<1>1. /\ UNCHANGED <<missing, handled, forgotten, mixed>>
      /\ \A s \in Slots :
           \/ slot'[s] = slot[s]
           \/ slot'[s] = Free /\ ~ AtWork(s)
           \/ slot[s].at = "free" /\ slot'[s].at = "wire"
           \/ slot[s].at \notin {"free", "answered"} /\ slot'[s] = Orphan(slot[s])
  BY SenderLeaves
<1>2. dropped \subseteq dropped' /\ late \subseteq late'
  BY DEF SenderStep, TakeNumber, Enqueue, LeaveToPass, PostNow, NowAnswered, NowFailed, Due,
         PassDiscards, PassReads, PassPosts, PassAnswered, PassFailed, SetLink, SenderCrashes, history
<1>3. /\ missing \subseteq dropped \cup late
      /\ forgotten \subseteq dropped \cup late
      /\ \A s \in Slots : AtWork(s) => slot[s].missing \subseteq dropped \cup late
      /\ \A s \in Slots : slot[s].at \notin {"free", "answered"} => Complete(slot[s].events)
      /\ pass.at # "idle" => Complete(pass.rest)
  BY <1>1 DEF HolesInv
<1>4. \A m \in Numbers : Excused(m) => Excused(m)'
  BY <1>1, <1>2 DEF Excused
<1>5. /\ missing' \subseteq dropped' \cup late'
      /\ forgotten' \subseteq dropped' \cup late'
  BY <1>1, <1>2, <1>3
<1>6. \A s \in Slots : AtWork(s)' => slot'[s].missing \subseteq dropped' \cup late'
  BY <1>2, <1>3, SenderLeavesWork
\* A request that was there before.
<1>7. ASSUME NEW s \in Slots, slot'[s].at \notin {"free", "answered"}, slot[s].at # "free"
      PROVE  Complete(slot[s].events)'
  <2>1. \/ slot'[s] = slot[s]
        \/ slot[s].at \notin {"free", "answered"} /\ slot'[s] = Orphan(slot[s])
    BY <1>0, <1>1, <1>7
  <2>2. slot[s] \in Requests /\ slot[s].at \notin {"free", "answered"} /\ slot'[s].events = slot[s].events
    BY <1>0, <1>7, <2>1, OrphanShape
  <2>3. slot[s].events \in SUBSET Numbers /\ Complete(slot[s].events)
    BY <1>3, <2>2, RequestShapes
  <2>4. \A n \in slot[s].events : \A m \in 1 .. n - 1 : m \in slot[s].events \/ Excused(m)'
    BY <1>4, <2>3, CompleteStays
  <2> QED
    BY <2>2, <2>4 DEF Complete
\* A request that has just left.
<1>8. ASSUME NEW s \in Slots, slot'[s].at \notin {"free", "answered"}, slot[s].at = "free"
      PROVE  Complete(slot[s].events)'
  <2>0. slot'[s] # slot[s] /\ slot'[s].at = "wire"
    BY <1>0, <1>1, <1>8
  <2>1. \/ \E n \in Numbers : PostNow(n)
        \/ PassPosts
    <3>1. \/ slot' = slot
          \/ \E n \in Numbers : PostNow(n)
          \/ \E n \in Numbers : NowAnswered(n) \/ NowFailed(n)
          \/ PassPosts \/ PassAnswered \/ PassFailed \/ SenderCrashes
      BY DEF SenderStep, TakeNumber, Enqueue, LeaveToPass, Due, PassDiscards, PassReads, SetLink
    <3>2. ~ (PassAnswered \/ SenderCrashes \/ \E n \in Numbers : NowAnswered(n))
      BY <1>0, <1>8, <2>0 DEF PassAnswered, NowAnswered, SenderCrashes
    <3>3. ASSUME NEW by \in Int, Abandon(by) PROVE FALSE
      BY <1>0, <1>8, <2>0, <3>3 DEF Abandon
    <3>4. ~ (PassFailed \/ \E n \in Numbers : NowFailed(n))
      BY <1>0, <3>3 DEF PassFailed, NowFailed
    <3> QED
      BY <2>0, <3>1, <3>2, <3>4
  <2>2. ASSUME NEW n \in Numbers, PostNow(n) PROVE Complete(slot[s].events)'
    <3>1. /\ n \in Int /\ {n} \in SUBSET Numbers /\ task[n] = "queued" /\ ~ \E m \in Queued : m < n
          /\ Post(n, {n})
      BY <1>0, <2>2 DEF PostNow
    <3>2. PICK t \in Slots : /\ slot'[t] = [at |-> "wire", by |-> n, events |-> {n}]
                             /\ \A o \in Slots \ {t} : slot'[o] = slot[o]
      <4>1. /\ slot' \in [Slots -> Requests]
            /\ \E t \in Slots :
                 /\ slot[t].at = "free"
                 /\ slot'[t] = [at |-> "wire", by |-> n, events |-> {n}]
                 /\ \A o \in Slots \ {t} : slot'[o] = slot[o]
        <5>1. slot \in [Slots -> Requests]
          BY <1>0
        <5> QED
          BY <3>1, <5>1, PostedRequest
      <4> QED
        BY <4>1
    <3>3. slot'[s].events = {n}
      BY <2>0, <3>2
    <3>4. ASSUME NEW m \in 1 .. n - 1 PROVE Excused(m)'
      <4>1. m < n /\ m \in Numbers
        BY <1>0, <3>1
      <4>2. m \in Queued \/ Excused(m)
        BY <1>3, <3>1, BelowTheQueue DEF LostInv
      <4> QED
        BY <1>4, <3>1, <4>1, <4>2
    <3> QED
      BY <3>3, <3>4 DEF Complete
  <2>3. ASSUME PassPosts PROVE Complete(slot[s].events)'
    <3> DEFINE batch == FirstOf(pass.rest, BatchMax)
    <3>1. pass.rest \in SUBSET Numbers /\ pass.at = "send"
      BY <1>0, <2>3, PassShapes DEF PassPosts
    <3>2. batch \in SUBSET Numbers /\ batch \subseteq pass.rest
      BY <3>1 DEF FirstOf
    <3>3. ASSUME NEW n \in batch, NEW m \in 1 .. n - 1 PROVE m \in batch \/ Excused(m)'
      <4>1. n \in pass.rest /\ n \in Numbers /\ m \in Numbers /\ m <= n
        BY <1>0, <3>1, <3>2
      <4>2. m \in pass.rest \/ Excused(m)
        BY <1>3, <3>1, <4>1 DEF Complete
      <4>3. m \in pass.rest => m \in batch
        BY <1>0, <3>1, <4>1, FirstOfIsABeginning
      <4> QED
        BY <1>4, <4>1, <4>2, <4>3
    <3>4. Post(ThePass, batch)
      BY <2>3 DEF PassPosts
    <3> HIDE DEF batch
    <3>5. PICK t \in Slots : /\ slot'[t] = [at |-> "wire", by |-> ThePass, events |-> batch]
                             /\ \A o \in Slots \ {t} : slot'[o] = slot[o]
      BY <1>0, <3>2, <3>4, PostedRequest
    <3>6. slot'[s].events = batch
      BY <2>0, <3>5
    <3> QED
      BY <3>3, <3>6 DEF Complete
  <2> QED
    BY <2>1, <2>2, <2>3
<1>9. pass'.at # "idle" => Complete(pass.rest)'
  <2>1. ASSUME pass.at # "idle", pass'.rest = pass.rest PROVE Complete(pass.rest)'
    <3>1. pass.rest \in SUBSET Numbers /\ Complete(pass.rest)
      BY <1>0, <1>3, <2>1, PassShapes
    <3>2. \A n \in pass.rest : \A m \in 1 .. n - 1 : m \in pass.rest \/ Excused(m)'
      BY <1>4, <3>1, CompleteStays
    <3> QED
      BY <2>1, <3>2 DEF Complete
  <2>2. CASE pass' = pass
    BY <2>1, <2>2
  <2>3. CASE pass' = Idle
    BY <2>3 DEF Idle
  <2>4. CASE PassPosts
    <3>1. pass.at # "idle" /\ pass'.rest = pass.rest
      BY <1>0, <2>4, PassShapes DEF PassPosts
    <3> QED
      BY <2>1, <3>1
  <2>5. CASE PassAnswered
    <3> DEFINE batch == FirstOf(pass.rest, BatchMax)
    <3>1. pass.at = "posted" /\ (pass' = Idle \/ pass' = [at |-> "send", rest |-> pass.rest \ batch])
      BY <2>5 DEF PassAnswered
    <3>2. pass.rest \in SUBSET Numbers /\ Complete(pass.rest)
      BY <1>0, <1>3, <3>1, PassShapes
    <3>3. \A m \in batch : Done(m)
      <4>1. PICK s \in Slots : slot[s].at = "answered" /\ slot[s].by = ThePass
        BY <2>5 DEF PassAnswered
      <4>2. Charge(slot[s].by) = batch
        BY <4>1 DEF Charge
      <4> QED
        BY <4>1, <4>2 DEF LostInv, AnswersHonest
    <3>4. \A m \in batch : Excused(m)
      BY <1>3, <3>3 DEF Done, Excused
    <3> HIDE DEF batch
    <3>5. \A n \in pass.rest : \A m \in 1 .. n - 1 : m \in pass.rest \/ Excused(m)'
      BY <1>4, <3>2, CompleteStays
    <3>6. ASSUME NEW n \in pass.rest \ batch, NEW m \in 1 .. n - 1
          PROVE  m \in pass.rest \ batch \/ Excused(m)'
      <4>1. m \in Numbers
        BY <1>0, <3>2
      <4> QED
        BY <1>4, <3>4, <3>5, <4>1
    <3>7. pass' = Idle \/ pass'.rest = pass.rest \ batch
      BY <3>1
    <3> QED
      BY <3>6, <3>7 DEF Complete, Idle
  <2>6. CASE PassReads
    <3>1. PICK old \in SUBSET Queued :
            LET out == Dropped(old)
                alive == DuePrefix(Queued \ out)
            IN  /\ dropped' = dropped \cup out
                /\ pass' = IF alive = {} THEN Idle ELSE [at |-> "send", rest |-> alive]
      BY <2>6 DEF PassReads
    <3> DEFINE out == Dropped(old)
               alive == DuePrefix(Queued \ out)
    <3>2. Queued \subseteq Numbers
      BY DEF Queued
    <3>3. ASSUME NEW n \in alive, NEW m \in 1 .. n - 1 PROVE m \in alive \/ Excused(m)'
      <4>1. n \in Queued \ out /\ n \in Numbers /\ n \in Int
            /\ \A k \in Queued \ out : k <= n => row[k].due
        BY <1>0, <3>2 DEF DuePrefix
      <4>2. m \in Numbers /\ m \in Int /\ m < n
        BY <1>0, <4>1
      <4>3. task[n] \notin {"none", "post", "queue"}
        BY <4>1 DEF LostInv, Stages, Queued
      <4>4. m \in Queued \/ Excused(m)
        BY <1>3, <4>1, <4>3, BelowTheQueue DEF LostInv
      <4>5. CASE m \in out
        BY <3>1, <4>5 DEF Excused
      <4>6. CASE m \in Queued \ out
        <5>1. \A k \in Queued \ out : k <= m => row[k].due
          <6> SUFFICES ASSUME NEW k \in Queued \ out, k <= m PROVE row[k].due
            OBVIOUS
          <6>1. k \in Int
            BY <1>0, <3>2
          <6> QED
            BY <4>1, <4>2, <6>1
        <5> QED
          BY <4>6, <5>1 DEF DuePrefix
      <4> QED
        BY <1>4, <4>2, <4>4, <4>5, <4>6
    <3>4. pass' = IF alive = {} THEN Idle ELSE [at |-> "send", rest |-> alive]
      BY <3>1
    <3> HIDE DEF alive
    <3>5. pass' = Idle \/ pass'.rest = alive
      BY <3>4
    <3> QED
      BY <3>3, <3>5 DEF Complete, Idle
  <2>7. pass' = pass \/ pass' = Idle \/ PassPosts \/ PassAnswered \/ PassReads
    BY DEF SenderStep, TakeNumber, Enqueue, LeaveToPass, PostNow, NowAnswered, NowFailed, Due,
           PassDiscards, PassFailed, SetLink, SenderCrashes
  <2> QED
    BY <2>2, <2>3, <2>4, <2>5, <2>6, <2>7
<1> QED
  BY <1>5, <1>6, <1>7, <1>8, <1>9 DEF HolesInv

\* Nor does the receiver note one as missing without a cause: what it skips
\* was left out by the request, and was not handled before.
LEMMA ReceiverKeepsHoles ==
    ASSUME StreamInv, LostInv, MissingBelow, OneByOne, HolesInv, ReceiverStep
    PROVE  HolesInv'
<1> SUFFICES ASSUME ~ mixed' PROVE HolesInv'
  BY DEF HolesInv
<1> DEFINE causes == dropped \cup late
           Going(t) == slot[t].at \notin {"free", "answered"}
<1>0. /\ slot \in [Slots -> Requests] /\ Free.at = "free" /\ handled \in [Numbers -> 0 .. 2]
      /\ \A n \in Numbers : n \in Int /\ 1 .. n - 1 \subseteq Numbers
      /\ \A n \in Numbers : \A m \in Numbers : m < n => m \in 1 .. n - 1
      /\ pass \in {Idle} \cup [at : {"send", "posted"}, rest : SUBSET Numbers]
  <2>1. \A n \in Numbers : n \in Int /\ 1 .. n - 1 \subseteq Numbers
    BY StreamAssumption DEF Numbers
  <2>2. \A n \in Numbers : \A m \in Numbers : m < n => m \in 1 .. n - 1
    BY StreamAssumption DEF Numbers
  <2> QED
    BY <2>1, <2>2 DEF StreamInv, TypeOK, Free
<1>1. UNCHANGED <<pass, dropped, late>> /\ ~ mixed /\ causes' = causes
  <2>1. UNCHANGED <<pass, dropped, late>>
    BY ReceiverKeepsNumbers DEF LostInv, sender
  <2>2. ~ mixed
    <3>1. CASE \E s \in Slots : ReadLink(s)
      BY <3>1 DEF ReadLink
    <3>2. CASE ReceiverCrashes
      BY <3>2 DEF ReceiverCrashes
    <3>3. CASE \E s \in Slots : ReadRecent(s) \/ HandleNext(s) \/ KeepRecent(s) \/ SaveLink(s)
      BY <3>3 DEF ReadRecent, HandleNext, KeepRecent, SaveLink, history
    <3> QED
      BY <3>1, <3>2, <3>3 DEF ReceiverStep
  <2> QED
    BY <2>1, <2>2
<1>2. \A m \in Numbers : Done(m) => Done(m)'
  BY ReceiverKeepsNumbers DEF LostInv
<1>3. /\ missing \subseteq causes /\ forgotten \subseteq causes
      /\ \A t \in Slots : AtWork(t) => slot[t].missing \subseteq causes
      /\ \A t \in Slots : Going(t) => Complete(slot[t].events)
      /\ pass.at # "idle" => Complete(pass.rest)
  BY <1>1 DEF HolesInv
\* All that has to be shown of a step that changes one request only.
<1>4. ASSUME NEW s \in Slots, \A t \in Slots \ {s} : slot'[t] = slot[t],
             missing' \subseteq causes, forgotten' \subseteq causes,
             \A m \in Numbers : handled[m] # 0 => handled'[m] # 0,
             AtWork(s)' => slot'[s].missing \subseteq causes,
             Going(s)' => /\ Going(s) /\ slot'[s].events \subseteq slot[s].events
                          /\ \A m \in slot[s].events \ slot'[s].events : Excused(m)'
      PROVE  HolesInv'
  <2>1. \A m \in Numbers : Excused(m) => Excused(m)'
    BY <1>1, <1>4 DEF Excused
  <2>2. ASSUME NEW events \in SUBSET Numbers, Complete(events)
        PROVE  \A n \in events : \A m \in 1 .. n - 1 : m \in events \/ Excused(m)'
    BY <2>1, <2>2, CompleteStays
  <2>3. ASSUME NEW t \in Slots, Going(t)'
        PROVE  Complete(slot[t].events)'
    <3>1. Going(t) /\ slot'[t].events \subseteq slot[t].events
      BY <1>4, <2>3
    <3>2. slot[t].events \in SUBSET Numbers /\ Complete(slot[t].events)
      BY <1>0, <1>3, <3>1, RequestShapes
    <3>3. \A n \in slot[t].events : \A m \in 1 .. n - 1 : m \in slot[t].events \/ Excused(m)'
      BY <2>2, <3>2
    <3>4. \A m \in slot[t].events \ slot'[t].events : Excused(m)'
      BY <1>4, <2>3
    <3> QED
      BY <3>1, <3>3, <3>4 DEF Complete
  <2>4. pass'.at # "idle" => Complete(pass.rest)'
    <3>1. ASSUME pass.at # "idle" PROVE Complete(pass.rest)'
      <4>1. pass.rest \in SUBSET Numbers /\ Complete(pass.rest)
        BY <1>0, <1>3, <3>1, PassShapes
      <4>2. \A n \in pass.rest : \A m \in 1 .. n - 1 : m \in pass.rest \/ Excused(m)'
        BY <2>2, <4>1
      <4> QED
        BY <1>1, <4>2 DEF Complete
    <3> QED
      BY <1>1, <3>1
  <2>5. \A t \in Slots : AtWork(t)' => slot'[t].missing \subseteq causes
    BY <1>3, <1>4 DEF AtWork
  <2> QED
    BY <1>1, <1>4, <2>3, <2>4, <2>5 DEF HolesInv
<1> HIDE DEF causes
<1>5. ASSUME NEW s \in Slots, ReadLink(s) PROVE HolesInv'
  <2>1. /\ slot[s].at = "wire" /\ UNCHANGED <<missing, handled, forgotten>>
        /\ slot'[s].at = "read" /\ slot'[s].events = slot[s].events /\ slot'[s].missing = missing
        /\ \A t \in Slots \ {s} : slot'[t] = slot[t]
    BY <1>0, <1>5 DEF ReadLink, receiver
  <2> QED
    BY <1>3, <1>4, <2>1
<1>6. ASSUME NEW s \in Slots, ReadRecent(s) PROVE HolesInv'
  <2>1. /\ slot[s].at = "read" /\ UNCHANGED <<missing, handled, forgotten>>
        /\ slot'[s].at = "work" /\ slot'[s].events = slot[s].events /\ slot'[s].missing = slot[s].missing
        /\ \A t \in Slots \ {s} : slot'[t] = slot[t]
    BY <1>0, <1>6 DEF ReadRecent, receiver, history
  <2>2. AtWork(s)
    BY <2>1 DEF AtWork
  <2> QED
    BY <1>3, <1>4, <2>1, <2>2
<1>7. ASSUME NEW s \in Slots, HandleNext(s) PROVE HolesInv'
  <2>1. PICK n \in slot[s].events :
             /\ n \in Numbers /\ slot[s].events \subseteq Numbers /\ \A m \in slot[s].events : n <= m
             /\ slot[s].at = "work" /\ slot'[s].at = "work"
             /\ slot'[s].events = slot[s].events \ {n}
             /\ \A t \in Slots \ {s} : slot'[t] = slot[t]
             /\ UNCHANGED receiver
             /\ Repeated(s, n) \/ Handled(s, n)
    BY <1>0, <1>7, HandlingDoes
  <2>2. slot[s].last \in Last /\ slot[s].missing \in SUBSET Numbers /\ AtWork(s)
    BY <1>0, <2>1, RequestShapes DEF AtWork
  <2>3. slot[s].missing \subseteq causes /\ Complete(slot[s].events) /\ missing' \subseteq causes
    BY <1>3, <2>1, <2>2 DEF receiver
  <2>4. /\ Honest(slot[s].last, slot[s].missing)
        /\ \A m \in Numbers : InSeq(m, slot[s].recent) => handled[m] # 0
    BY <2>1, <2>2 DEF LostInv, NumbersHonest
  <2>5. CASE Repeated(s, n)
    <3>1. /\ Seen(n, slot[s].last, slot[s].missing, slot[s].recent)
          /\ UNCHANGED <<handled, forgotten>> /\ slot'[s].missing = slot[s].missing
      BY <2>5 DEF Repeated
    <3>2. handled[n] # 0 \/ n \in forgotten
      BY <2>1, <2>4, <3>1 DEF Seen, Honest, Known, Done
    <3>3. Excused(n)'
      BY <1>1, <1>3, <3>1, <3>2 DEF Excused, causes
    <3> QED
      BY <1>3, <1>4, <2>1, <2>3, <3>1, <3>3
  <2>6. CASE Handled(s, n)
    <3> DEFINE last == slot[s].last
               miss == slot[s].missing
    <3>1. /\ handled' = [handled EXCEPT ![n] = IF @ = 0 THEN 1 ELSE 2]
          /\ forgotten' = forgotten \cup (AllMissing(miss, last, n) \ slot'[s].missing)
          /\ slot'[s].missing = TrackMissingSeqs(miss, last, n)
      BY <2>6 DEF Handled
    <3>2. handled'[n] # 0 /\ \A m \in Numbers : handled[m] # 0 => handled'[m] # 0
      BY <1>0, <2>1, <3>1
    <3>3. ASSUME NEW m \in Numbers, last < m, m < n PROVE m \in causes
      <4>1. m \in 1 .. n - 1 /\ m \notin slot[s].events /\ last \in Int
        BY <1>0, <2>1, <2>2, <3>3, Bounds DEF Last
      <4>2. Excused(m)
        BY <2>1, <2>3, <4>1 DEF Complete
      <4>3. ~ Known(m, last, miss)
        BY <1>0, <3>3, <4>1 DEF Known
      <4>4. handled[m] = 0
        BY <1>1, <2>2, <4>3 DEF OneByOne
      <4> QED
        BY <4>2, <4>4 DEF Excused, causes
    <3>4. AllMissing(miss, last, n) \subseteq causes
          /\ TrackMissingSeqs(miss, last, n) \subseteq AllMissing(miss, last, n)
      <4>1. /\ AllMissing(miss, last, n) \in SUBSET Numbers
            /\ TrackMissingSeqs(miss, last, n) \subseteq AllMissing(miss, last, n)
            /\ \A m \in AllMissing(miss, last, n) : m \in miss \/ (last < m /\ m < n)
        BY <2>1, <2>2, MissingNumbers
      <4> QED
        BY <2>3, <3>3, <4>1
    <3> HIDE DEF last, miss
    <3>5. slot'[s].missing \subseteq causes /\ forgotten' \subseteq causes
      BY <1>3, <3>1, <3>4
    <3>6. Excused(n)'
      BY <3>2 DEF Excused
    <3> QED
      BY <1>4, <2>1, <2>3, <3>2, <3>5, <3>6
  <2> QED
    BY <2>1, <2>5, <2>6
<1>8. ASSUME NEW s \in Slots, KeepRecent(s) PROVE HolesInv'
  <2>1. /\ slot[s].at = "work" /\ UNCHANGED <<missing, handled, forgotten>>
        /\ slot' = [slot EXCEPT ![s] = [slot[s] EXCEPT !.at = "save"]]
    BY <1>8 DEF KeepRecent, history
  <2>2. slot[s] \in [at : {"work", "save"}, by : Int, events : SUBSET Numbers, last : Last,
                     missing : SUBSET Numbers, was : Last \X SUBSET Numbers, recent : Seq(Numbers)]
    BY <1>0, <2>1, WorkShape
  <2>3. slot'[s] = [slot[s] EXCEPT !.at = "save"] /\ \A t \in Slots \ {s} : slot'[t] = slot[t]
    BY <1>0, <2>1
  <2>4. slot'[s].at = "save" /\ slot'[s].events = slot[s].events /\ slot'[s].missing = slot[s].missing
    BY <2>2, <2>3
  <2>5. AtWork(s)
    BY <2>1 DEF AtWork
  <2> QED
    BY <1>3, <1>4, <2>1, <2>3, <2>4, <2>5
<1>9. ASSUME NEW s \in Slots, SaveLink(s) PROVE HolesInv'
  <2>1. /\ slot[s].at = "save" /\ UNCHANGED <<handled, forgotten>>
        /\ missing' = missing \/ missing' = slot[s].missing
        /\ slot'[s].at \in {"free", "answered"} /\ \A t \in Slots \ {s} : slot'[t] = slot[t]
    BY <1>0, <1>9 DEF SaveLink, history
  <2>2. AtWork(s) /\ ~ AtWork(s)'
    BY <2>1 DEF AtWork
  <2> QED
    BY <1>3, <1>4, <2>1, <2>2
<1>10. ASSUME ReceiverCrashes PROVE HolesInv'
  <2>1. UNCHANGED <<missing, handled, forgotten>> /\ \A s \in Slots : slot'[s] = slot[s]
    BY <1>0, <1>10 DEF ReceiverCrashes
  <2> QED
    BY <1>1, <2>1 DEF HolesInv, AtWork, Complete, Excused
<1> QED
  BY <1>5, <1>6, <1>7, <1>8, <1>9, <1>10 DEF ReceiverStep

LEMMA HolesInvHolds ==
    /\ Init => HolesInv
    /\ StreamInv /\ LostInv /\ MissingBelow /\ OneByOne /\ Overtaken /\ HolesInv /\ [Next]_vars => HolesInv'
<1>1. Init => HolesInv
  BY DEF Init, HolesInv, AtWork, Free, Idle
<1>2. ASSUME HolesInv, UNCHANGED vars PROVE HolesInv'
  BY <1>2 DEF vars, sender, receiver, history, HolesInv, AtWork, Complete, Excused
<1> QED
  BY <1>1, <1>2, SenderKeepsHoles, ReceiverKeepsHoles DEF Next

\* The receiver misses a number only for a reason: its event was thrown away,
\* or was queued after a later one.  An event that failed and waits for its
\* next attempt is never overtaken.
THEOREM OnlyCausedHoles == Spec => []HolesHaveACause
<1> DEFINE Inv == MissingBelow /\ OneByOne /\ Overtaken /\ HolesInv
<1>1. Init => Inv
  BY MissingBelowHolds, OneByOneHolds, OvertakenHolds, HolesInvHolds
<1>2. StreamInv /\ LostInv /\ Inv /\ [Next]_vars => Inv'
  BY MissingBelowHolds, OneByOneHolds, OvertakenHolds, HolesInvHolds DEF LostInv
<1>3. Inv => HolesHaveACause
  BY DEF HolesInv, HolesHaveACause
<1> HIDE DEF Inv
<1> QED
  BY <1>1, <1>2, <1>3, Honesty, PTL DEF Spec
=============================================================================
