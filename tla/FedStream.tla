------------------------------ MODULE FedStream ------------------------------
(***************************************************************************)
(* The stream of events from one instance to a linked one (backend         *)
(* federation/eventStream.ts, outbox.ts, shared federation/events.ts).     *)
(* The sender numbers an event, puts it into a queue and posts it, either  *)
(* at once or with the next pass over the queue; the receiver handles what *)
(* it has not seen and remembers the numbers it skipped.  Every await is a *)
(* step.  An event is known by its number: its random id goes with it.     *)
(* The two databases and HTTP are external.                                *)
(***************************************************************************)
EXTENDS Integers, FiniteSets, Sequences

CONSTANTS
    MaxSeq,         \* bound: how many events are numbered
    Slots,          \* bound: requests on their way or at work at one time
    BatchMax,       \* BATCH_MAX: events in one request of the pass
    MaxAttempts,    \* OUTBOX_MAX_ATTEMPTS
    MissingMax,     \* MISSING_EVENT_SEQS_MAX
    RecentMax,      \* RECENT_EVENT_IDS
    MaxFaults       \* bound: crashes and pauses

VARIABLES
    \* the sender
    outSeq,     \* federation_links.out_event_seq
    link,       \* federation_links.state
    task,       \* queueOne and sendEventTo, for each number
    row,        \* federation_outbox, by number
    pass,       \* runOutboxPass
    \* between them
    slot,       \* requests to POST /fed/v1/events
    \* the receiver
    lastSeq,    \* federation_links.last_event_seq
    missing,    \* federation_links.missing_event_seqs
    recent,     \* recentByLink
    \* history
    handled,    \* how often the handler of an event was called (2: more than once)
    dropped,    \* numbers whose event was thrown away on purpose or never queued
    forgotten,  \* skipped numbers that no longer fitted into `missing`
    late,       \* numbers whose event was queued after that of a later one
    mixed,      \* two requests were at work at once, or one was cut by a crash
    faults

sender == <<outSeq, link, task, row, pass>>
receiver == <<lastSeq, missing, recent>>
history == <<handled, dropped, forgotten, late, mixed, faults>>
vars == <<sender, slot, receiver, history>>

ASSUME StreamAssumption ==
    /\ MaxSeq \in Nat \ {0} /\ BatchMax \in Nat \ {0} /\ MaxAttempts \in Nat \ {0}
    /\ MissingMax \in Nat \ {0} /\ RecentMax \in Nat \ {0} /\ MaxFaults \in Nat

Numbers == 1 .. MaxSeq

NoRow == [has |-> FALSE]
NewRow == [has |-> TRUE, attempts |-> 0, due |-> TRUE]

\* Who waits for the answer to a request, when it is not the sending of a number.
ThePass == 0
Nobody == -1

Idle == [at |-> "idle"]
Free == [at |-> "free"]

Queued == {n \in Numbers : row[n].has}

\* The first k of a set of numbers, in their order; the last k.
FirstOf(set, k) == {n \in set : Cardinality({m \in set : m <= n}) <= k}
LastOf(set, k) == {n \in set : Cardinality({m \in set : m >= n}) <= k}

Init ==
    /\ outSeq = 0
    /\ link = "active"
    /\ task = [n \in Numbers |-> "none"]
    /\ row = [n \in Numbers |-> NoRow]
    /\ pass = Idle
    /\ slot = [s \in Slots |-> Free]
    /\ lastSeq = 0
    /\ missing = {}
    /\ recent = <<>>
    /\ handled = [n \in Numbers |-> 0]
    /\ dropped = {}
    /\ forgotten = {}
    /\ late = {}
    /\ mixed = FALSE
    /\ faults = 0

----------------------------------------------------------------------------
(* The sender.                                                             *)

\* queueOne: the link is looked at and the next number taken; when the link
\* is paused the event is only queued.  now: sendEventTo, else queueEventTo.
TakeNumber(now) ==
    /\ link \in {"active", "paused"}
    /\ outSeq < MaxSeq
    /\ outSeq' = outSeq + 1
    /\ task' = [task EXCEPT ![outSeq + 1] = IF now /\ link = "active" THEN "post" ELSE "queue"]
    /\ UNCHANGED <<link, row, pass, slot, receiver, history>>

\* enqueueEvent.
Enqueue(n) ==
    /\ task[n] \in {"post", "queue"}
    /\ row' = [row EXCEPT ![n] = NewRow]
    /\ task' = [task EXCEPT ![n] = IF @ = "post" THEN "queued" ELSE "done"]
    /\ late' = late \cup {m \in 1 .. n - 1 : task[m] \in {"post", "queue"}}
    /\ UNCHANGED <<outSeq, link, pass, slot, receiver, handled, dropped, forgotten, mixed, faults>>

\* A request leaves.
Post(by, events) ==
    \E s \in Slots :
        /\ slot[s] = Free
        /\ slot' = [slot EXCEPT ![s] = [at |-> "wire", by |-> by, events |-> events]]

\* hasEarlierQueued: the event waits for the pass...
LeaveToPass(n) ==
    /\ task[n] = "queued"
    /\ \E m \in Queued : m < n
    /\ task' = [task EXCEPT ![n] = "done"]
    /\ UNCHANGED <<outSeq, link, row, pass, slot, receiver, history>>

\* ...or is posted by itself.
PostNow(n) ==
    /\ task[n] = "queued"
    /\ ~ \E m \in Queued : m < n
    /\ Post(n, {n})
    /\ task' = [task EXCEPT ![n] = "posted"]
    /\ UNCHANGED <<outSeq, link, row, pass, receiver, history>>

\* dequeueEvent.
Dequeue(events) == row' = [n \in Numbers |-> IF n \in events THEN NoRow ELSE row[n]]

\* A 2xx answer to sendEventTo.
NowAnswered(n) ==
    /\ task[n] = "posted"
    /\ \E s \in Slots :
         /\ slot[s].at = "answered" /\ slot[s].by = n
         /\ slot' = [slot EXCEPT ![s] = Free]
    /\ Dequeue({n})
    /\ task' = [task EXCEPT ![n] = "done"]
    /\ UNCHANGED <<outSeq, link, pass, receiver, history>>

\* What becomes of the request when its sender stops waiting: it, or its
\* answer, is lost (or the answer was a refusal), or it goes on, with nobody
\* to answer to.  A request whose handler died is gone already.
Abandon(by) ==
    \E goesOn \in BOOLEAN :
        slot' = [s \in Slots |->
                   IF slot[s].at = "free" \/ slot[s].by # by THEN slot[s]
                   ELSE IF slot[s].at = "answered" \/ (slot[s].at = "wire" /\ ~ goesOn) THEN Free
                   ELSE [slot[s] EXCEPT !.by = Nobody]]

\* sendEventTo gets no answer in time, or a bad one: the event stays queued.
NowFailed(n) ==
    /\ task[n] = "posted"
    /\ Abandon(n)
    /\ task' = [task EXCEPT ![n] = "done"]
    /\ UNCHANGED <<outSeq, link, row, pass, receiver, history>>

\* nextAttemptAt comes.
Due(n) ==
    /\ row[n].has /\ ~ row[n].due
    /\ row' = [row EXCEPT ![n].due = TRUE]
    /\ UNCHANGED <<outSeq, link, task, pass, slot, receiver, history>>

\* runOutboxPass, "discard": the link is broken, its queue goes.
PassDiscards ==
    /\ pass = Idle
    /\ link = "blocked"
    /\ Queued # {}
    /\ dropped' = dropped \cup Queued
    /\ Dequeue(Queued)
    /\ UNCHANGED <<outSeq, link, task, pass, slot, receiver, handled, forgotten, late, mixed, faults>>

\* dropReason: tried too often, or (old) kept too long.
Dropped(old) == {n \in Queued : n \in old \/ row[n].attempts >= MaxAttempts}

\* Wrong: whatever is due, the first ones waiting or not.
AllDue(kept) == {n \in kept : row[n].due}

\* Of the rows kept, the unbroken beginning that is due.
DuePrefix(kept) == {n \in kept : \A m \in kept : m <= n => row[m].due}

\* runOutboxPass, "deliver": the rows are read, what is beyond help is thrown
\* away, the rest is to be sent.  ("hold", the link paused, does nothing.)
PassReads ==
    /\ pass = Idle
    /\ link = "active"
    /\ \E old \in SUBSET Queued :
         LET out == Dropped(old)
             alive == DuePrefix(Queued \ out)
         IN  /\ out \cup alive # {}
             /\ dropped' = dropped \cup out
             /\ Dequeue(out)
             /\ pass' = IF alive = {} THEN Idle ELSE [at |-> "send", rest |-> alive]
    /\ UNCHANGED <<outSeq, link, task, slot, receiver, handled, forgotten, late, mixed, faults>>

\* The next batch leaves, whatever became of its rows since they were read.
PassPosts ==
    /\ pass.at = "send"
    /\ Post(ThePass, FirstOf(pass.rest, BatchMax))
    /\ pass' = [pass EXCEPT !.at = "posted"]
    /\ UNCHANGED <<outSeq, link, task, row, receiver, history>>

\* It was delivered.
PassAnswered ==
    /\ pass.at = "posted"
    /\ \E s \in Slots :
         /\ slot[s].at = "answered" /\ slot[s].by = ThePass
         /\ slot' = [slot EXCEPT ![s] = Free]
    /\ LET batch == FirstOf(pass.rest, BatchMax)
       IN  /\ Dequeue(batch)
           /\ pass' = IF pass.rest = batch THEN Idle
                      ELSE [at |-> "send", rest |-> pass.rest \ batch]
    /\ UNCHANGED <<outSeq, link, task, receiver, history>>

\* It was not: the failure counts for every event of the batch, and the pass
\* goes no further on this link.
PassFailed ==
    /\ pass.at = "posted"
    /\ Abandon(ThePass)
    /\ LET batch == FirstOf(pass.rest, BatchMax)
       IN  row' = [n \in Numbers |->
                     IF n \in batch /\ row[n].has
                     THEN [has |-> TRUE, attempts |-> row[n].attempts + 1, due |-> FALSE]
                     ELSE row[n]]
    /\ pass' = Idle
    /\ UNCHANGED <<outSeq, link, task, receiver, history>>

\* The holder pauses the link, resumes it, or breaks it.
SetLink(state) ==
    /\ state # link /\ link # "blocked"
    /\ state = "active" \/ faults < MaxFaults
    /\ link' = state
    /\ faults' = IF state = "active" THEN faults ELSE faults + 1
    /\ UNCHANGED <<outSeq, task, row, pass, slot, receiver, handled, dropped, forgotten, late, mixed>>

\* The sender dies: a number taken and not queued is never used.
SenderCrashes ==
    /\ faults < MaxFaults
    /\ faults' = faults + 1
    /\ dropped' = dropped \cup {n \in Numbers : task[n] \in {"post", "queue"}}
    /\ task' = [n \in Numbers |-> IF task[n] = "none" THEN "none" ELSE "done"]
    /\ pass' = Idle
    /\ slot' = [s \in Slots |-> IF slot[s].at \in {"free", "answered"} THEN Free
                                ELSE [slot[s] EXCEPT !.by = Nobody]]
    /\ UNCHANGED <<outSeq, link, row, receiver, handled, forgotten, late, mixed>>

----------------------------------------------------------------------------
(* The receiver: receiveEvents.                                            *)

AtWork(s) == slot[s].at \in {"read", "work", "save"}

\* The link's row is read.
ReadLink(s) ==
    /\ slot[s].at = "wire"
    /\ slot' = [slot EXCEPT ![s] =
                  [at |-> "read", by |-> slot[s].by, events |-> slot[s].events,
                   last |-> lastSeq, missing |-> missing, was |-> <<lastSeq, missing>>]]
    /\ mixed' = (mixed \/ \E o \in Slots : AtWork(o))
    /\ UNCHANGED <<sender, receiver, handled, dropped, forgotten, late, faults>>

\* The window of recent ids is taken from memory.
ReadRecent(s) ==
    /\ slot[s].at = "read"
    /\ slot' = [slot EXCEPT ![s] =
                  [at |-> "work", by |-> slot[s].by, events |-> slot[s].events,
                   last |-> slot[s].last, missing |-> slot[s].missing, was |-> slot[s].was,
                   recent |-> recent]]
    /\ UNCHANGED <<sender, receiver, history>>

InSeq(x, seq) == \E i \in DOMAIN seq : seq[i] = x

\* Wrong: everything that is not above the last number is a repeat.
SeenByNumber(n, last, miss, rec) == InSeq(n, rec) \/ n <= last

\* judgeEvent: is it a repeat?
Seen(n, last, miss, rec) == InSeq(n, rec) \/ (n <= last /\ n \notin miss)

\* Wrong: a number that came late after all stays among the missing.
AllMissingKeepsLate(miss, last, n) == miss \cup (last + 1 .. n - 1)

\* trackMissingSeqs, before and after the limit.
AllMissing(miss, last, n) == IF n <= last THEN miss \ {n} ELSE miss \cup (last + 1 .. n - 1)
TrackMissingSeqs(miss, last, n) == LastOf(AllMissing(miss, last, n), MissingMax)

\* rememberEventId, of an id that is not among the recent ones.
RememberEventId(rec, n) == Append(IF Len(rec) = RecentMax THEN Tail(rec) ELSE rec, n)

\* The next event, by number: a repeat is passed over; else its handler is
\* called (a handler that throws is one that was called), a number above the
\* last one becomes the last, the numbers skipped are remembered.
HandleNext(s) ==
    /\ slot[s].at = "work"
    /\ \E n \in slot[s].events :
         LET w == slot[s]
             seen == Seen(n, w.last, w.missing, w.recent)
             miss == TrackMissingSeqs(w.missing, w.last, n)
         IN  /\ \A m \in w.events : n <= m
             /\ slot' = [slot EXCEPT ![s] =
                  IF seen THEN [w EXCEPT !.events = @ \ {n}]
                  ELSE [w EXCEPT !.events = @ \ {n},
                                 !.last = IF n <= @ THEN @ ELSE n,
                                 !.missing = miss,
                                 !.recent = RememberEventId(@, n)]]
             /\ handled' = IF seen THEN handled
                           ELSE [handled EXCEPT ![n] = IF @ = 0 THEN 1 ELSE 2]
             /\ forgotten' = IF seen THEN forgotten
                             ELSE forgotten \cup (AllMissing(w.missing, w.last, n) \ miss)
    /\ UNCHANGED <<sender, receiver, dropped, late, mixed, faults>>

\* The events are done: the window goes back into memory.
KeepRecent(s) ==
    /\ slot[s].at = "work"
    /\ slot[s].events = {}
    /\ recent' = slot[s].recent
    /\ slot' = [slot EXCEPT ![s].at = "save"]
    /\ UNCHANGED <<sender, lastSeq, missing, history>>

\* The numbers are written as this request has them, unless they are as it
\* read them, and the answer leaves.
SaveLink(s) ==
    /\ slot[s].at = "save"
    /\ IF slot[s].was = <<slot[s].last, slot[s].missing>>
       THEN UNCHANGED <<lastSeq, missing>>
       ELSE lastSeq' = slot[s].last /\ missing' = slot[s].missing
    /\ slot' = [slot EXCEPT ![s] = IF slot[s].by = Nobody THEN Free
                                   ELSE [at |-> "answered", by |-> slot[s].by]]
    /\ UNCHANGED <<sender, recent, history>>

\* The receiver dies: the window and the requests at work are gone.
ReceiverCrashes ==
    /\ faults < MaxFaults
    /\ faults' = faults + 1
    /\ recent' = <<>>
    /\ slot' = [s \in Slots |-> IF AtWork(s) THEN Free ELSE slot[s]]
    /\ mixed' = (mixed \/ \E s \in Slots : AtWork(s))
    /\ UNCHANGED <<sender, lastSeq, missing, handled, dropped, forgotten, late>>

----------------------------------------------------------------------------
SenderStep ==
    \/ \E now \in BOOLEAN : TakeNumber(now)
    \/ \E n \in Numbers : \/ Enqueue(n) \/ LeaveToPass(n) \/ PostNow(n)
                          \/ NowAnswered(n) \/ NowFailed(n) \/ Due(n)
    \/ PassDiscards \/ PassReads \/ PassPosts \/ PassAnswered \/ PassFailed
    \/ \E state \in {"active", "paused", "blocked"} : SetLink(state)
    \/ SenderCrashes

ReceiverStep ==
    \/ \E s \in Slots : \/ ReadLink(s) \/ ReadRecent(s) \/ HandleNext(s)
                        \/ KeepRecent(s) \/ SaveLink(s)
    \/ ReceiverCrashes

Next == SenderStep \/ ReceiverStep

Spec == Init /\ [][Next]_vars

----------------------------------------------------------------------------
Last == 0 .. MaxSeq
Requests ==
    {Free} \cup [at : {"wire"}, by : Int, events : SUBSET Numbers]
           \cup [at : {"answered"}, by : Int]
           \cup [at : {"read"}, by : Int, events : SUBSET Numbers, last : Last,
                 missing : SUBSET Numbers, was : Last \X SUBSET Numbers]
           \cup [at : {"work", "save"}, by : Int, events : SUBSET Numbers, last : Last,
                 missing : SUBSET Numbers, was : Last \X SUBSET Numbers, recent : Seq(Numbers)]

TypeOK ==
    /\ outSeq \in Last
    /\ link \in {"active", "paused", "blocked"}
    /\ task \in [Numbers -> {"none", "post", "queue", "queued", "posted", "done"}]
    /\ row \in [Numbers -> {NoRow} \cup [has : {TRUE}, attempts : 0 .. MaxAttempts, due : BOOLEAN]]
    /\ pass \in {Idle} \cup [at : {"send", "posted"}, rest : SUBSET Numbers]
    /\ slot \in [Slots -> Requests]
    /\ lastSeq \in Last
    /\ missing \in SUBSET Numbers
    /\ recent \in Seq(Numbers)
    /\ handled \in [Numbers -> 0 .. 2]
    /\ dropped \in SUBSET Numbers
    /\ forgotten \in SUBSET Numbers
    /\ late \in SUBSET Numbers
    /\ mixed \in BOOLEAN
    /\ faults \in 0 .. MaxFaults

\* Numbers that are taken and whose event is still on the sender's hands.
Pending == {n \in Numbers : task[n] \in {"post", "queue"}} \cup Queued

\* INV: an event that is no longer on the sender's hands was handled by the
\* receiver, if it was not thrown away on purpose: neither numbers that
\* overtake one another, nor requests handled side by side with the last one
\* writing the numbers, nor lost answers and restarts make the receiver take
\* an event it never saw for a repeat (judgeEvent, trackMissingSeqs).
NothingLost ==
    \A n \in 1 .. outSeq :
        handled[n] = 0 => n \in Pending \cup dropped \cup forgotten

\* INV: an event is handled once, whatever is repeated or lost, as long as
\* requests are handled one after another and none is cut by a crash.
TwiceOnlyWhenMixed == ~ mixed => \A n \in Numbers : handled[n] <= 1

\* INV: the receiver misses a number only for a reason: its event was thrown
\* away, or was queued after a later one (two sendings at once).  A failed
\* event that waits for its next attempt is never overtaken (sendEventTo asks
\* hasEarlierQueued, the pass sends only the beginning of the queue).
HolesHaveACause == ~ mixed => missing \subseteq dropped \cup late
=============================================================================
