----------------------------- MODULE ConvOutbox -----------------------------
(***************************************************************************)
(* The sending queue of one conversation in the tabs of one browser        *)
(* (client outboxRules.ts, convStore.ts, convCacheWriter.ts).  A tab sends *)
(* its rows one by one, repeats what failed, and writes them to the record *)
(* on disk, which all tabs share; the tab that holds the lock takes them   *)
(* up again after a restart.  pump is part of every action that calls it.  *)
(* The server, which knows a sending by its client id, is external, and so *)
(* is the browser.  The way round through the peer's instance is left out. *)
(***************************************************************************)
EXTENDS Integers, Sequences, Functions

CONSTANTS
    Tabs,
    MaxKeys,        \* bound: messages written
    WithFile,       \* those with an attachment
    MaxAttempts,    \* OUTBOX_MAX_ATTEMPTS
    NetAttempts,    \* OUTBOX_NET_ATTEMPTS
    MaxTroubles     \* bound: failed requests, closed and killed tabs

VARIABLES
    \* of a tab
    up,         \* the page is there
    box,        \* outbox: its rows in their order
    pump,       \* the row being sent, if any, and how far
    timer,      \* pumpTimers has one
    cancelled,  \* cancelledInFlight
    loading,    \* the record read and not yet taken up
    \* shared
    leader,     \* the tab that holds the lock
    behind,     \* tabs without a number, or with a lower one than the record's
    disk,       \* the outbox of the record
    \* the server
    server,     \* the messages it has taken, in their order
    gone,       \* those deleted for both
    stray,      \* requests nobody waits for any more
    deleting,   \* deletions on their way
    \* history
    written,    \* how many messages were written
    by,         \* the tab each was written in
    discarded,  \* cancelled or removed by their author
    failedOnce, \* rows that were "not sent" at some time
    untold,     \* rows whose author cannot know what the server did: a request ended
                \* without an answer, or with an error after it had been taken, or the
                \* deletion failed
    had,        \* the rows a tab has had since it was opened
    tangled,    \* rows on disk that a tab passed over, or wrote over without
                \* having had them, or read while an open tab has had them
    unsaved,    \* rows whose last change was not on disk when their tab went: it was
                \* killed, or its record was refused
    troubles

tabs == <<up, box, pump, timer, cancelled, loading, leader, behind>>
net == <<server, gone, stray, deleting>>
history == <<written, by, had, discarded, failedOnce, untold, tangled, unsaved, troubles>>
vars == <<tabs, disk, net, history>>

Nobody == "nobody"

ASSUME OutboxAssumption ==
    /\ MaxKeys \in Nat /\ WithFile \subseteq 1 .. MaxKeys
    /\ MaxAttempts \in Nat \ {0} /\ NetAttempts \in Nat \ {0} /\ MaxTroubles \in Nat
    /\ Nobody \notin Tabs

Keys == 1 .. MaxKeys
Idle == [at |-> "idle"]
Loaded == [at |-> "loaded"]

\* newOutboxItem.
NewRow(k) == [key |-> k, status |-> "sending", attempts |-> 0, waits |-> FALSE,
              net |-> FALSE, uploaded |-> k \notin WithFile, file |-> TRUE]

\* A key has one row at most.
RowKeys(rows) == {rows[i].key : i \in DOMAIN rows}
FailedKeys(rows) == {rows[i].key : i \in {j \in DOMAIN rows : rows[j].status = "failed"}}
RowsOf(rows, k) == {rows[i] : i \in {j \in DOMAIN rows : rows[j].key = k}}
Place(rows, k) == CHOOSE i \in DOMAIN rows : rows[i].key = k
Row(rows, k) == rows[Place(rows, k)]
Change(rows, k, Op(_)) == [i \in DOMAIN rows |-> IF rows[i].key = k THEN Op(rows[i]) ELSE rows[i]]
Without(rows, k) ==
    IF k \notin RowKeys(rows) THEN rows
    ELSE [i \in 1 .. Len(rows) - 1 |-> IF i < Place(rows, k) THEN rows[i] ELSE rows[i + 1]]

Sending(rows) == {i \in DOMAIN rows : rows[i].status = "sending"}

\* Wrong: a row that waits for its next attempt lets the others pass.
HeadNotWaiting(rows) ==
    {i \in Sending(rows) : \A j \in Sending(rows) :
        IF rows[i].waits THEN rows[j].waits /\ i <= j ELSE rows[j].waits \/ i <= j}

\* nextToSend: the head of what is to be sent, if any.
NextToSend(rows) == {i \in Sending(rows) : \A j \in Sending(rows) : i <= j}

\* pump of a tab that is sending nothing: the head is taken on, or a timer
\* set when it waits.
Pump(t, rows, timers) ==
    \/ /\ NextToSend(rows) = {}
       /\ pump' = [pump EXCEPT ![t] = Idle] /\ timer' = timers
    \/ \E i \in NextToSend(rows) :
         IF rows[i].waits
         THEN pump' = [pump EXCEPT ![t] = Idle] /\ timer' = [timers EXCEPT ![t] = TRUE]
         ELSE /\ pump' = [pump EXCEPT ![t] = [key |-> rows[i].key,
                            at |-> IF rows[i].uploaded THEN "wire" ELSE "upload"]]
              /\ timer' = timers

\* void pump(...) after a change: a tab that is sending goes on with it.
Poke(t, rows, timers) ==
    /\ box' = [box EXCEPT ![t] = rows]
    /\ IF pump[t] # Idle THEN pump' = pump /\ timer' = timers
       ELSE Pump(t, rows, timers)

Init ==
    /\ up = [t \in Tabs |-> FALSE]
    /\ box = [t \in Tabs |-> <<>>]
    /\ pump = [t \in Tabs |-> Idle]
    /\ timer = [t \in Tabs |-> FALSE]
    /\ cancelled = [t \in Tabs |-> {}]
    /\ loading = [t \in Tabs |-> Loaded]
    /\ leader = Nobody /\ behind = {}
    /\ disk = <<>>
    /\ server = <<>> /\ gone = {} /\ stray = {} /\ deleting = {}
    /\ written = 0
    /\ by = [k \in Keys |-> Nobody]
    /\ had = [t \in Tabs |-> {}]
    /\ discarded = {} /\ failedOnce = {} /\ untold = {} /\ tangled = {} /\ unsaved = {}
    /\ troubles = 0

----------------------------------------------------------------------------
(* What people do.                                                         *)

\* outboxEnqueue.
Enqueue(t) ==
    /\ up[t]
    /\ written < MaxKeys
    /\ written' = written + 1
    /\ by' = [by EXCEPT ![written + 1] = t]
    /\ had' = [had EXCEPT ![t] = @ \cup {written + 1}]
    /\ Poke(t, Append(box[t], NewRow(written + 1)), timer)
    /\ tangled' = IF loading[t] = Loaded THEN tangled ELSE tangled \cup RowKeys(loading[t].rows)
    /\ UNCHANGED <<up, cancelled, loading, leader, behind, disk, net,
                   discarded, failedOnce, untold, unsaved, troubles>>

\* manualRetry.
Retried(x) == [x EXCEPT !.status = "sending", !.attempts = 0, !.waits = FALSE, !.net = FALSE]

\* outboxRetry, of a row that was not sent.
Retry(t, k) ==
    /\ up[t]
    /\ k \in RowKeys(box[t]) /\ Row(box[t], k).status = "failed"
    /\ Poke(t, Change(box[t], k, Retried), [timer EXCEPT ![t] = FALSE])
    /\ UNCHANGED <<up, cancelled, loading, leader, behind, disk, net, history>>

\* Wrong: the row goes, and nobody remembers it when the answer comes.
DiscardSilently(t, k) ==
    /\ up[t]
    /\ k \in RowKeys(box[t])
    /\ Poke(t, Without(box[t], k), timer)
    /\ discarded' = discarded \cup {k}
    /\ UNCHANGED <<up, cancelled, loading, leader, behind, disk, net,
                   written, by, had, failedOnce, untold, tangled, unsaved, troubles>>

\* outboxDiscard: the row goes at once; one that is being sent is remembered.
Discard(t, k) ==
    /\ up[t]
    /\ k \in RowKeys(box[t])
    /\ cancelled' = IF pump[t] # Idle /\ pump[t].key = k
                    THEN [cancelled EXCEPT ![t] = @ \cup {k}] ELSE cancelled
    /\ Poke(t, Without(box[t], k), timer)
    /\ discarded' = discarded \cup {k}
    /\ UNCHANGED <<up, loading, leader, behind, disk, net,
                   written, by, had, failedOnce, untold, tangled, unsaved, troubles>>

----------------------------------------------------------------------------
(* The sending.                                                            *)

\* The files are there; the request leaves, unless the row was cancelled.
UploadDone(t) ==
    /\ pump[t] # Idle /\ pump[t].at = "upload"
    /\ LET k == pump[t].key
           loaded(x) == [x EXCEPT !.uploaded = TRUE]
       IN  IF k \in RowKeys(box[t])
           THEN /\ Row(box[t], k).file
                /\ box' = [box EXCEPT ![t] = Change(box[t], k, loaded)]
                /\ pump' = [pump EXCEPT ![t].at = "wire"]
                /\ UNCHANGED <<timer, cancelled>>
           ELSE /\ cancelled' = [cancelled EXCEPT ![t] = @ \ {k}]
                /\ Pump(t, box[t], timer)
                /\ UNCHANGED box
    /\ UNCHANGED <<up, loading, leader, behind, disk, net, history>>

\* The server takes the message, once for a client id.
Taken(k) == IF k \in Range(server) THEN server ELSE Append(server, k)

Accept(t) ==
    /\ pump[t] # Idle /\ pump[t].at = "wire"
    /\ server' = Taken(pump[t].key)
    /\ pump' = [pump EXCEPT ![t].at = "accepted"]
    /\ UNCHANGED <<up, box, timer, cancelled, loading, leader, behind, disk, gone, stray, deleting, history>>

\* Wrong: the next row is left to somebody else.
AnsweredNoPump(t) ==
    /\ pump[t] # Idle /\ pump[t].at = "accepted"
    /\ LET k == pump[t].key
       IN  /\ box' = [box EXCEPT ![t] = Without(box[t], k)]
           /\ deleting' = IF k \in cancelled[t] THEN deleting \cup {k} ELSE deleting
           /\ cancelled' = [cancelled EXCEPT ![t] = @ \ {k}]
    /\ pump' = [pump EXCEPT ![t] = Idle]
    /\ UNCHANGED <<up, timer, loading, leader, behind, disk, server, gone, stray, history>>

\* The answer: the row goes, a cancelled message is deleted for both, and
\* the next row is sent.
Answered(t) ==
    /\ pump[t] # Idle /\ pump[t].at = "accepted"
    /\ LET k == pump[t].key
           rows == Without(box[t], k)
       IN  /\ box' = [box EXCEPT ![t] = rows]
           /\ deleting' = IF k \in cancelled[t] THEN deleting \cup {k} ELSE deleting
           /\ cancelled' = [cancelled EXCEPT ![t] = @ \ {k}]
           /\ Pump(t, rows, timer)
    /\ UNCHANGED <<up, loading, leader, behind, disk, server, gone, stray, history>>

\* isTransient and afterFailure.  why: "refused" (4xx), "busy" (5xx, 429) or
\* "unreached"; offline: no connection, or no answer in time.
AfterFailure(x, why, offline) ==
    LET n == x.attempts + 1
        toNet == why # "refused" /\ (offline \/ (why = "unreached" /\ n >= NetAttempts))
    IN  IF toNet THEN [x EXCEPT !.attempts = n, !.status = "failed", !.waits = FALSE, !.net = TRUE]
        ELSE IF why # "refused" /\ n < MaxAttempts THEN [x EXCEPT !.attempts = n, !.waits = TRUE]
        ELSE [x EXCEPT !.attempts = n, !.status = "failed", !.waits = FALSE]

\* The catch of pump and failItem, then the next row.
Failed(t, why, offline) ==
    LET k == pump[t].key
        after(x) == AfterFailure(x, why, offline)
        rows == Change(box[t], k, after)
    IN  /\ box' = [box EXCEPT ![t] = rows]
        /\ cancelled' = [cancelled EXCEPT ![t] = @ \ {k}]
        /\ failedOnce' = failedOnce \cup FailedKeys(rows)
        /\ Pump(t, rows, timer)

\* The file is not there any more: the row came from disk without it.
FileMissing(t) ==
    /\ pump[t] # Idle /\ pump[t].at = "upload"
    /\ pump[t].key \in RowKeys(box[t]) /\ ~ Row(box[t], pump[t].key).file
    /\ Failed(t, "refused", FALSE)
    /\ UNCHANGED <<up, loading, leader, behind, disk, net,
                   written, by, had, discarded, untold, tangled, unsaved, troubles>>

\* The server, or the upload, answers with an error; what comes after the
\* message was stored (its fan-out, the reading of the conversation, a proxy)
\* can only fail on the server's side.
Rejected(t, why, offline) ==
    /\ pump[t] # Idle
    /\ pump[t].at = "accepted" => why = "busy"
    /\ troubles < MaxTroubles
    /\ troubles' = troubles + 1
    /\ untold' = IF pump[t].at = "accepted" THEN untold \cup {pump[t].key} ELSE untold
    /\ Failed(t, why, offline)
    /\ UNCHANGED <<up, loading, leader, behind, disk, net,
                   written, by, had, discarded, tangled, unsaved>>

\* No answer: the request was lost, or goes on to the server, or had been taken.
GivenUp(t, offline) ==
    /\ pump[t] # Idle
    /\ troubles < MaxTroubles
    /\ troubles' = troubles + 1
    /\ \E goesOn \in BOOLEAN :
         stray' = IF pump[t].at = "wire" /\ goesOn THEN stray \cup {pump[t].key} ELSE stray
    /\ untold' = untold \cup {pump[t].key}
    /\ Failed(t, "unreached", offline)
    /\ UNCHANGED <<up, loading, leader, behind, disk, server, gone, deleting,
                   written, by, had, discarded, tangled, unsaved>>

StrayArrives(k) ==
    /\ k \in stray
    /\ server' = Taken(k)
    /\ stray' = stray \ {k}
    /\ UNCHANGED <<tabs, disk, gone, deleting, history>>

\* convDelete for both, done or refused.
Deleted(k) ==
    /\ k \in deleting
    /\ deleting' = deleting \ {k}
    /\ \/ gone' = gone \cup {k} /\ UNCHANGED untold
       \/ untold' = untold \cup {k} /\ UNCHANGED gone
    /\ UNCHANGED <<tabs, disk, server, stray,
                   written, by, had, discarded, failedOnce, tangled, unsaved, troubles>>

\* A timer of schedulePump; the pause of some rows is over.
TimerFires(t) ==
    /\ timer[t]
    /\ \E ready \in SUBSET RowKeys(box[t]) :
         Poke(t, [i \in DOMAIN box[t] |->
                    IF box[t][i].key \in ready THEN [box[t][i] EXCEPT !.waits = FALSE] ELSE box[t][i]],
              [timer EXCEPT ![t] = FALSE])
    /\ UNCHANGED <<up, cancelled, loading, leader, behind, disk, net, history>>

\* afterReconnect: what the connection failed is sent again.
Revived(x) == IF x.net /\ x.status = "failed" THEN Retried(x) ELSE x

\* onOnline, or the end of the catch-up after `ready`.
Reconnect(t) ==
    /\ up[t]
    /\ Poke(t, [i \in DOMAIN box[t] |-> Revived(box[t][i])], timer)
    /\ UNCHANGED <<up, cancelled, loading, leader, behind, disk, net, history>>

----------------------------------------------------------------------------
(* The record on disk and the life of a tab.                               *)

\* toPersisted: without the files themselves.
Persisted(rows) == [i \in DOMAIN rows |-> [rows[i] EXCEPT !.file = FALSE]]

\* restoreItem: a row whose file is not uploaded cannot be sent any more.
Restored(x) ==
    IF ~ x.uploaded THEN [x EXCEPT !.status = "failed", !.waits = FALSE]
    ELSE IF x.status = "sending" THEN [x EXCEPT !.attempts = 0, !.waits = FALSE]
    ELSE x

\* A page is opened: it gets the lock when nobody has it, and reads the record,
\* whose number becomes its own.  Without a record it has none for a while.
Open(t) ==
    /\ ~ up[t]
    /\ \/ behind' = behind
       \/ disk = <<>> /\ behind' = behind \cup {t}
    /\ up' = [up EXCEPT ![t] = TRUE]
    /\ leader' = IF leader = Nobody THEN t ELSE leader
    /\ loading' = [loading EXCEPT ![t] = [at |-> "read", rows |-> disk]]
    /\ tangled' = tangled \cup (RowKeys(disk) \cap UNION {had[o] : o \in Tabs})
    /\ UNCHANGED <<box, pump, timer, cancelled, disk, net,
                   written, by, had, discarded, failedOnce, untold, unsaved, troubles>>

\* convHydrate in the tab with the lock: the rows are taken up, unless rows
\* were written here before the lock was granted.
TakeUp(t) ==
    /\ loading[t] # Loaded /\ leader = t
    /\ box[t] = <<>>
    /\ LET rows == [i \in DOMAIN loading[t].rows |-> Restored(loading[t].rows[i])]
       IN  /\ Poke(t, rows, timer)
           /\ had' = [had EXCEPT ![t] = @ \cup RowKeys(rows)]
           /\ failedOnce' = failedOnce \cup FailedKeys(rows)
    /\ loading' = [loading EXCEPT ![t] = Loaded]
    /\ UNCHANGED <<up, cancelled, leader, behind, disk, net, written, by, discarded, untold, tangled, unsaved, troubles>>

\* The rest of convHydrate: another tab has the lock, the list came from the
\* server before the record was read, or there are rows already.
PassOver(t) ==
    /\ loading[t] # Loaded
    /\ loading' = [loading EXCEPT ![t] = Loaded]
    /\ tangled' = tangled \cup RowKeys(loading[t].rows)
    /\ UNCHANGED <<up, box, pump, timer, cancelled, leader, behind, disk, net,
                   written, by, had, discarded, failedOnce, untold, unsaved, troubles>>

\* The list came, or the tab has caught up with the number of the record.
CaughtUp(t) ==
    /\ t \in behind
    /\ behind' = behind \ {t}
    /\ UNCHANGED <<up, box, pump, timer, cancelled, loading, leader, disk, net, history>>

\* Wrong: only what is on its way is written.
WriteSending(t) ==
    /\ disk' = Persisted(SelectSeq(box[t], LAMBDA x : x.status = "sending"))
    /\ tangled' = tangled \cup (RowKeys(disk) \ had[t])
    /\ UNCHANGED behind

\* buildRecord, shouldOverwrite: the tab's own rows, whatever is there; the
\* other open pages may now have a lower number than the record.
Write(t) ==
    /\ t \notin behind
    /\ disk' = Persisted(box[t])
    /\ tangled' = tangled \cup (RowKeys(disk) \ had[t])
    /\ \E later \in SUBSET {o \in Tabs \ {t} : up[o]} : behind' = behind \cup later

\* The writer's flush, once the record has been read.  That of a tab without a
\* number, or with a lower one, changes nothing.
Flush(t) ==
    /\ up[t] /\ loading[t] = Loaded
    /\ Write(t)
    /\ UNCHANGED <<up, box, pump, timer, cancelled, loading, leader, net,
                   written, by, had, discarded, failedOnce, untold, unsaved, troubles>>

\* The page is gone; its request, if any, goes on or not.
Gone(t) ==
    /\ troubles < MaxTroubles
    /\ troubles' = troubles + 1
    /\ up' = [up EXCEPT ![t] = FALSE]
    /\ box' = [box EXCEPT ![t] = <<>>]
    /\ timer' = [timer EXCEPT ![t] = FALSE]
    /\ cancelled' = [cancelled EXCEPT ![t] = {}]
    /\ loading' = [loading EXCEPT ![t] = Loaded]
    /\ leader' = IF leader = t THEN Nobody ELSE leader
    /\ pump' = [pump EXCEPT ![t] = Idle]
    /\ untold' = IF pump[t] = Idle THEN untold ELSE untold \cup {pump[t].key}
    /\ stray' = IF pump[t] # Idle /\ pump[t].at = "wire" THEN stray \cup {pump[t].key} ELSE stray
    /\ had' = [had EXCEPT ![t] = {}]

\* pagehide: the rows are written first.
Close(t) ==
    /\ up[t] /\ loading[t] = Loaded
    /\ Write(t)
    /\ Gone(t)
    /\ UNCHANGED <<server, gone, deleting, written, by, discarded, failedOnce, unsaved>>

\* The page is killed, or is closed while its record is refused: what is not on
\* disk is not there.
Kill(t) ==
    /\ up[t]
    /\ Gone(t)
    /\ behind' = behind \ {t}
    /\ unsaved' = unsaved \cup {k \in had[t] : RowsOf(disk, k) # RowsOf(Persisted(box[t]), k)}
    /\ UNCHANGED <<disk, server, gone, deleting, written, by, discarded, failedOnce, tangled>>

----------------------------------------------------------------------------
TabStep(t) ==
    \/ Enqueue(t) \/ UploadDone(t) \/ FileMissing(t) \/ Accept(t) \/ Answered(t) \/ TimerFires(t)
    \/ Reconnect(t) \/ Open(t) \/ TakeUp(t) \/ PassOver(t) \/ CaughtUp(t) \/ Flush(t) \/ Close(t) \/ Kill(t)
    \/ \E k \in Keys : Retry(t, k) \/ Discard(t, k)
    \/ \E offline \in BOOLEAN :
         \/ \E why \in {"refused", "busy"} : Rejected(t, why, offline)
         \/ GivenUp(t, offline)

Next == (\E t \in Tabs : TabStep(t)) \/ (\E k \in Keys : StrayArrives(k) \/ Deleted(k))

Spec == Init /\ [][Next]_vars

----------------------------------------------------------------------------
\* INV: no row of an open page sleeps: a row that is to be sent is being sent,
\* or waits behind one that is, or a timer will look after it.
SomebodySends ==
    \A t \in Tabs : Sending(box[t]) # {} => pump[t] # Idle \/ timer[t]

\* INV: messages of one tab reach the conversation in the order they were
\* written, over retries, lost answers and restarts; one that comes late was
\* shown as "not sent", or removed, or lost with its tab or under another's
\* record (the next row waits until the one before is sent or is finally not sent).
OrderKept ==
    \A i, j \in DOMAIN server :
        i < j /\ server[j] < server[i] /\ by[server[i]] = by[server[j]]
        => server[j] \in failedOnce \cup discarded \cup unsaved \cup tangled

\* INV: a message its author cancelled does not stay with the other person,
\* unless its author cannot know that the server has it (a request about it was
\* never answered, or answered with an error after the message was stored; its
\* deletion failed), or the row was lost with its tab.
CancelledStaysOut ==
    \A k \in discarded :
        (/\ k \in Range(server) /\ k \notin gone \cup deleting \cup stray
         /\ \A t \in Tabs : pump[t] = Idle \/ pump[t].key # k)
        => k \in untold \cup unsaved \cup tangled

\* INV: a message that was written and neither sent nor removed is still in a
\* queue or on disk, unless its tab was killed before the write, or closed while
\* its record was refused for its number, or another tab wrote over it.
QueueSurvives ==
    \A k \in 1 .. written :
        \/ k \in Range(server) \/ k \in discarded
        \/ \E t \in Tabs : k \in RowKeys(box[t])
        \/ k \in RowKeys(disk)
        \/ k \in unsaved \cup tangled
=============================================================================
