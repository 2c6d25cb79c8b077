------------------------------ MODULE ConvSync ------------------------------
(***************************************************************************)
(* One device following its person's DM journal (apps/client convStore.ts, *)
(* convSyncRules.ts) through live events of the gateway and HTTP catch-up. *)
(* The server commits a change, then builds its event in a transaction of  *)
(* its own and publishes it (conversations.deliver): the event of number p *)
(* may show things as they became after p, and events may overtake one     *)
(* another.  The gateway drops connections, the server restarts, HTTP      *)
(* fails; all the device has is its number and a buffer.                   *)
(*                                                                         *)
(* The journal is a sequence of entities: number p refreshed hist[p].  A   *)
(* view is known by the TIME it was taken (the last number then), so that  *)
(* "the view is right up to n" is: no number in (time, n] is about it.     *)
(* Entities are the summaries of conversations, which a device always      *)
(* holds; the feed of one conversation is in ConvWindow.                   *)
(***************************************************************************)
EXTENDS Integers, Sequences, FiniteSets

CONSTANTS
    Entities,   \* the conversations
    Limit,      \* rows in a page of /api/conv/sync
    MaxPts      \* bound: rows ever written

ASSUME SyncAssumption == Limit \in Nat \ {0} /\ MaxPts \in Nat

VARIABLES
    hist,       \* the journal, all that was ever written
    minPts,     \* user_sync.min_pts
    unsent,     \* committed, its event not yet published
    lost,       \* history: numbers whose event never went out
    conn,       \* the gateway of the server has the device's socket
    inbox,      \* events on their way through it
    gateway,    \* what the device takes the gateway for
    phase,      \* ConvState.phase
    cursor,     \* ConvState.pts; Never: null
    buffer,     \* ConvState.buffer
    at,         \* ConvState.summaries: when each view was taken
    fresh,      \* ConvState.summaryPts
    sync,       \* the catch-up in progress: its next request, or the answer
    again,      \* one more round is wanted
    retry       \* the retry timer is set

serverVars == <<hist, minPts, unsent, lost>>
copyVars == <<cursor, at, fresh>>
runVars == <<phase, sync, again>>
vars == <<hist, minPts, unsent, lost, conn, inbox, gateway, phase, cursor, buffer,
          at, fresh, sync, again, retry>>

Never == -1
Off == [stage |-> "off"]
AskSync == [stage |-> "ask"]
AskFirst == [stage |-> "askFirst"]
AskList == [stage |-> "askList"]

Pts == Len(hist)
Numbers(events) == {ev.pts : ev \in events}
MaxOf(S) == CHOOSE n \in S : \A m \in S : m <= n

Init ==
    /\ hist = <<>>
    /\ minPts = 0
    /\ unsent = {}
    /\ lost = {}
    /\ conn = FALSE
    /\ inbox = {}
    /\ gateway = "unknown"
    /\ phase = "idle"
    /\ cursor = Never
    /\ buffer = {}
    /\ at = [e \in Entities |-> 0]
    /\ fresh = [e \in Entities |-> Never]
    /\ sync = Off
    /\ again = FALSE
    /\ retry = FALSE

----------------------------------------------------------------------------
(* The server.                                                             *)

\* Any operation on a conversation: one row of the person's journal.
Commit(e) ==
    /\ Pts < MaxPts
    /\ hist' = Append(hist, e)
    /\ unsent' = unsent \cup {Pts + 1}
    /\ UNCHANGED <<minPts, lost, conn, inbox, gateway, buffer, copyVars, runVars, retry>>

\* deliver: the view is built now; who has no socket gets nothing.
Publish(p) ==
    /\ unsent' = unsent \ {p}
    /\ inbox' = IF conn THEN inbox \cup {[pts |-> p, at |-> Pts]} ELSE inbox
    /\ UNCHANGED <<hist, minPts, lost, conn, gateway, buffer, copyVars, runVars, retry>>

\* deliver failed after the commit (the routes log nothing and go on).
LoseEvent(p) ==
    /\ unsent' = unsent \ {p}
    /\ lost' = lost \cup {p}
    /\ UNCHANGED <<hist, minPts, conn, inbox, gateway, buffer, copyVars, runVars, retry>>

\* pruneJournal.
Prune ==
    /\ minPts' \in (minPts + 1) .. Pts
    /\ UNCHANGED <<hist, unsent, lost, conn, inbox, gateway, buffer, copyVars, runVars, retry>>

\* The connection breaks; a server that restarts also forgets what it owed.
Break ==
    /\ conn
    /\ conn' = FALSE
    /\ inbox' = {}
    /\ unsent' \in {unsent, {}}
    /\ UNCHANGED <<hist, minPts, lost, gateway, buffer, copyVars, runVars, retry>>

\* identify: the hub takes the socket first and says `ready` after.
Register ==
    /\ ~ conn
    /\ gateway # "up"
    /\ conn' = TRUE
    /\ UNCHANGED <<serverVars, inbox, gateway, buffer, copyVars, runVars, retry>>

\* syncSince or the list, from one snapshot.
Answer ==
    /\ \/ /\ \/ sync \in {AskList, AskFirst}
             \/ sync = AskSync /\ cursor = Never
          /\ sync' = [stage |-> "list", at |-> Pts, reset |-> sync = AskList]
       \/ /\ sync = AskSync /\ cursor # Never /\ cursor < minPts
          /\ sync' = AskList
       \/ /\ sync = AskSync /\ cursor # Never /\ cursor >= minPts
          /\ LET end == IF cursor + Limit < Pts THEN cursor + Limit ELSE Pts
             IN  sync' = [stage |-> "page", at |-> Pts, end |-> end, more |-> end < Pts]
    /\ UNCHANGED <<serverVars, conn, inbox, gateway, buffer, copyVars, phase, again, retry>>

----------------------------------------------------------------------------
(* The device.                                                             *)

\* Wrong: a wish for one more round is not kept.
RunSyncOnce(force) ==
    IF sync = Off
    THEN sync' = AskSync /\ again' = FALSE /\ phase' = "syncing"
    ELSE UNCHANGED <<sync, again, phase>>

\* runSync: a run in progress is only told to go round once more.
RunSync(force) ==
    IF sync = Off
    THEN /\ sync' = AskSync
         /\ again' = FALSE
         /\ phase' = "syncing"
    ELSE /\ again' = (again \/ force)
         /\ UNCHANGED <<sync, phase>>

\* Wrong: the round in progress is taken to be enough.
ReadyUnforced ==
    /\ conn /\ gateway # "up"
    /\ gateway' = "up"
    /\ RunSync(FALSE)
    /\ UNCHANGED <<serverVars, conn, inbox, buffer, copyVars, retry>>

\* convOnReady.
Ready ==
    /\ conn /\ gateway # "up"
    /\ gateway' = "up"
    /\ RunSync(TRUE)
    /\ UNCHANGED <<serverVars, conn, inbox, buffer, copyVars, retry>>

\* convOnGatewayLost.
NoticeLost ==
    /\ ~ conn /\ gateway # "down"
    /\ gateway' = "down"
    /\ RunSync(FALSE)
    /\ UNCHANGED <<serverVars, conn, inbox, buffer, copyVars, retry>>

\* convEnsureList: the list is opened for the first time.
EnsureList ==
    /\ cursor = Never
    /\ RunSync(FALSE)
    /\ UNCHANGED <<serverVars, conn, inbox, gateway, buffer, copyVars, retry>>

\* The timer of schedulePoll, and opening the list without a gateway.
Poll ==
    /\ gateway = "down"
    /\ sync = Off
    /\ RunSync(FALSE)
    /\ UNCHANGED <<serverVars, conn, inbox, gateway, buffer, copyVars, retry>>

\* The timer of scheduleRetry.
Retry ==
    /\ retry
    /\ retry' = FALSE
    /\ RunSync(TRUE)
    /\ UNCHANGED <<serverVars, conn, inbox, gateway, buffer, copyVars>>

\* Wrong: no timer is set.
FailSyncForgets ==
    /\ sync # Off
    /\ sync' = Off
    /\ UNCHANGED <<serverVars, conn, inbox, gateway, buffer, copyVars, phase, again, retry>>

\* The request or its answer is lost: the phase stays as it is.
FailSync ==
    /\ sync # Off
    /\ sync' = Off
    /\ retry' = TRUE
    /\ UNCHANGED <<serverVars, conn, inbox, gateway, buffer, copyVars, phase, again>>

\* bufferEvent: a number that is there already stays as it came first.
Buffered(ev) == IF ev.pts \in Numbers(buffer) THEN buffer ELSE buffer \cup {ev}

\* eventDecision.
EventDecision(ev) ==
    CASE phase # "live" \/ cursor = Never -> "buffer"
      [] phase = "live" /\ cursor # Never /\ ev.pts <= cursor -> "skip"
      [] phase = "live" /\ cursor # Never /\ ev.pts = cursor + 1 -> "apply"
      [] OTHER -> "gap"

\* convOnChange.
OnChange(ev) ==
    /\ inbox' = inbox \ {ev}
    /\ \/ /\ EventDecision(ev) = "buffer"
          /\ buffer' = Buffered(ev)
          /\ UNCHANGED <<copyVars, runVars>>
       \/ /\ EventDecision(ev) = "skip"
          /\ UNCHANGED <<buffer, copyVars, runVars>>
       \/ /\ EventDecision(ev) = "apply"
          /\ cursor' = ev.pts
          /\ LET e == hist[ev.pts]
             IN  IF ev.pts > fresh[e]
                 THEN /\ at' = [at EXCEPT ![e] = ev.at]
                      /\ fresh' = [fresh EXCEPT ![e] = ev.pts]
                 ELSE UNCHANGED <<at, fresh>>
          /\ UNCHANGED <<buffer, runVars>>
       \/ /\ EventDecision(ev) = "gap"
          /\ buffer' = Buffered(ev)
          /\ RunSync(TRUE)
          /\ UNCHANGED copyVars
    /\ UNCHANGED <<serverVars, conn, gateway, retry>>

\* Wrong: everything newer, over the gaps.
ConsecutiveOrNot(n) == {ev \in buffer : ev.pts > n}

\* drainPlan: the buffered events that follow number n without a gap.
Consecutive(n) == {ev \in buffer : \A p \in (n + 1) .. ev.pts : p \in Numbers(buffer)}

(***************************************************************************)
(* The end of syncOnce: the number is n and the views are a, f.  What the  *)
(* buffer has next is applied in order; a hole in it, or `again`, starts   *)
(* another round at once, and no event gets in between.                    *)
(***************************************************************************)
Finish(n, a, f) ==
    LET run   == {ev \in Consecutive(n) : ev.pts > n}
        last  == MaxOf({n} \cup Numbers(run))
        rest  == {ev \in buffer : ev.pts > last}
        on(e) == {ev \in run : hist[ev.pts] = e}
        top(e) == CHOOSE ev \in on(e) : \A other \in on(e) : other.pts <= ev.pts
        newer(e) == on(e) # {} /\ top(e).pts > f[e]
    IN  /\ cursor' = last
        /\ at' = [e \in Entities |-> IF newer(e) THEN top(e).at ELSE a[e]]
        /\ fresh' = [e \in Entities |-> IF newer(e) THEN top(e).pts ELSE f[e]]
        /\ buffer' = rest
        /\ again' = FALSE
        /\ IF rest # {} \/ again
           THEN sync' = AskSync /\ phase' = "syncing"
           ELSE sync' = Off /\ phase' = IF gateway = "up" THEN "live" ELSE "idle"

\* One page of a catch-up: every entity its rows name, as the snapshot had it.
TakePage ==
    /\ sync.stage = "page"
    /\ LET took(e) == (\E p \in (cursor + 1) .. sync.end : hist[p] = e) /\ sync.end > fresh[e]
           a == [e \in Entities |-> IF took(e) THEN sync.at ELSE at[e]]
           f == [e \in Entities |-> IF took(e) THEN sync.end ELSE fresh[e]]
       IN  \/ /\ sync.more
              /\ cursor' = sync.end /\ at' = a /\ fresh' = f
              /\ sync' = AskSync
              /\ UNCHANGED <<buffer, phase, again>>
           \/ /\ ~ sync.more
              /\ Finish(sync.end, a, f)
    /\ UNCHANGED <<serverVars, conn, inbox, gateway, retry>>

\* applyList; resetAll forgets what it had.
TakeList ==
    /\ sync.stage = "list"
    /\ LET kept(e) == ~ sync.reset /\ fresh[e] > sync.at
       IN  Finish(IF ~ sync.reset /\ cursor > sync.at THEN cursor ELSE sync.at,
                  [e \in Entities |-> IF kept(e) THEN at[e] ELSE sync.at],
                  [e \in Entities |-> IF kept(e) THEN fresh[e] ELSE sync.at])
    /\ UNCHANGED <<serverVars, conn, inbox, gateway, retry>>

\* convReset: the person logs out or goes to another instance, and comes back.
\* What was on its way is not waited for.
Leave ==
    /\ conn' = FALSE /\ inbox' = {}
    /\ gateway' = "unknown"
    /\ phase' = "idle"
    /\ cursor' = Never
    /\ buffer' = {}
    /\ at' = [e \in Entities |-> 0]
    /\ fresh' = [e \in Entities |-> Never]
    /\ sync' = Off /\ again' = FALSE /\ retry' = FALSE
    /\ UNCHANGED serverVars

\* convHydrate, before the gateway is called: the record of this device, or of
\* another tab of it, right up to its number.  The list may be on its way.
Hydrate ==
    /\ cursor = Never /\ ~ conn /\ gateway = "unknown"
    /\ \E n \in 0 .. Pts :
         /\ cursor' = n
         /\ at' \in [Entities -> n .. Pts]
         /\ fresh' = [e \in Entities |-> n]
    /\ phase' = "idle"
    /\ sync' = IF sync = AskSync THEN AskFirst ELSE sync
    /\ buffer' = {}
    /\ UNCHANGED <<serverVars, conn, inbox, gateway, again, retry>>

DeviceStep ==
    \/ EnsureList \/ Leave \/ Hydrate
    \/ Ready \/ NoticeLost \/ Retry \/ Poll \/ TakePage \/ TakeList
    \/ \E ev \in inbox : OnChange(ev)

Next ==
    \/ \E e \in Entities : Commit(e)
    \/ \E p \in unsent : Publish(p) \/ LoseEvent(p)
    \/ Prune \/ Break \/ Register \/ Answer \/ FailSync
    \/ DeviceStep

Spec == Init /\ [][Next]_vars

(***************************************************************************)
(* What is owed: the server answers and publishes, the socket reconnects   *)
(* (sockets.ts) and delivers, timers go off, answers are taken.            *)
(***************************************************************************)
Progress ==
    /\ WF_vars(Ready) /\ WF_vars(NoticeLost) /\ WF_vars(Retry) /\ WF_vars(Poll)
    /\ WF_vars(Register) /\ WF_vars(Answer) /\ WF_vars(TakePage \/ TakeList)
    /\ WF_vars(\E p \in unsent : Publish(p))
    /\ WF_vars(\E ev \in inbox : OnChange(ev))

FairSpec == Spec /\ Progress

----------------------------------------------------------------------------
Events == [pts : 1 .. MaxPts, at : 1 .. MaxPts]

\* A catch-up when the last number is n.
Rounds(n) ==
    {Off, AskSync, AskFirst, AskList}
    \cup [stage : {"page"}, at : 0 .. n, end : 0 .. n, more : BOOLEAN]
    \cup [stage : {"list"}, at : 0 .. n, reset : BOOLEAN]

TypeOK ==
    /\ hist \in Seq(Entities) /\ Len(hist) <= MaxPts
    /\ minPts \in 0 .. Pts
    /\ unsent \subseteq 1 .. Pts /\ lost \subseteq 1 .. Pts
    /\ conn \in BOOLEAN
    /\ inbox \subseteq Events /\ buffer \subseteq Events
    /\ gateway \in {"unknown", "up", "down"}
    /\ phase \in {"idle", "syncing", "live"}
    /\ cursor \in Never .. Pts
    /\ at \in [Entities -> 0 .. Pts]
    /\ fresh \in [Entities -> Never .. Pts]
    /\ sync \in Rounds(Pts)
    /\ again \in BOOLEAN /\ retry \in BOOLEAN

\* INV: whatever order the events and answers came in, each summary shows all
\* that the device's number says it has seen.
NothingSkipped ==
    \A e \in Entities : \A p \in (at[e] + 1) .. cursor : hist[p] # e

\* INV: a live device with a connection misses nothing: every number it has
\* not seen is still to be published, on its way, or was never sent at all.
\* (The snapshot of a catch-up taken before the socket was registered does
\* not see what came in between: convOnReady's "one more round".)
LiveMissesNothing ==
    (phase = "live" /\ conn) =>
        (cursor + 1) .. Pts \subseteq unsent \cup Numbers(inbox) \cup lost

\* INV: a device never waits for nobody: it is live, or a request, a timer or
\* a broken gateway will move it on, however the failures and gaps fell.
SomebodyActs ==
    phase = "live" \/ sync # Off \/ retry \/ gateway # "up"

\* LIVE: when the server is silent and nothing breaks any more, the device
\* ends up live with the last number, short only of changes at the end whose
\* event was never sent.
Quiet ==
    <>[][~ (\/ \E e \in Entities : Commit(e)
            \/ \E p \in unsent : LoseEvent(p)
            \/ Prune \/ Break \/ FailSync \/ Leave)]_vars

EndsUpLive == Quiet => <>[](phase = "live" /\ (cursor + 1) .. Pts \subseteq lost)
=============================================================================
