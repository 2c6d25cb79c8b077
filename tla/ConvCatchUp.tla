---------------------------- MODULE ConvCatchUp ----------------------------
(***************************************************************************)
(* One device of one person catching up with his DM journal over HTTP      *)
(* alone (the gateway is down, convStore.schedulePoll): it asks for        *)
(* "everything after my number" (syncSince, catchupPlan) and gets a page   *)
(* of at most Limit rows with the current views of the entities they name, *)
(* or `reset`, after which it takes the whole list (resetAll).  An answer  *)
(* is one database snapshot and may be used long after it was taken; the   *)
(* device may lose it, and may restart from what it last wrote to disk.    *)
(*                                                                         *)
(* `copy` speaks of every entity.  An entity the device does not hold (a   *)
(* feed it has not opened, or dropped on `reset`) counts as right: opening *)
(* it fetches it.  ConvSync models what that fetch does.                   *)
(***************************************************************************)
EXTENDS ConvLog, FiniteSets

CONSTANT Limit      \* rows in a page of /api/conv/sync

VARIABLES
    copy,       \* what the device shows of every entity
    cursor,     \* the number up to which it takes itself to be right; Never: not loaded
    answer,     \* the answer on its way to the device, or NoAnswer
    disk        \* the record on disk: a copy and the number it was right at

vars == <<view, pts, minPts, changes, copy, cursor, answer, disk>>

ASSUME LimitAssumption == Limit \in Nat \ {0}

Never == -1
NoAnswer == [kind |-> "none"]
ResetAnswer == [kind |-> "reset"]

Larger(a, b) == IF a > b THEN a ELSE b

Rows(from, to) == {p \in DOMAIN changes : from < p /\ p <= to}

Named(from, to) == UNION {changes[p] : p \in Rows(from, to)}

(***************************************************************************)
(* catchupPlan: where the page that starts after `since` ends.  Everything *)
(* fits: at the last number of the journal.  Otherwise at the number of    *)
(* the LAST ROW HANDED OUT, so that the next request starts with the rest. *)
(***************************************************************************)
PageEnd(since, end) ==
    IF Cardinality(Rows(since, pts)) <= Limit
    THEN end = pts
    ELSE end \in Rows(since, pts) /\ Cardinality(Rows(since, end)) = Limit

\* Wrong: a page that was cut short is stamped with the last number.
SyncPageStampedLast(since, end) ==
    [kind |-> "page", pts |-> pts, views |-> [e \in Named(since, end) |-> view[e]]]

SyncPage(since, end) ==
    [kind |-> "page", pts |-> end, views |-> [e \in Named(since, end) |-> view[e]]]

----------------------------------------------------------------------------
Init ==
    /\ LogInit
    /\ copy \in [Entities -> Values]
    /\ cursor = Never
    /\ answer = NoAnswer
    /\ disk = [pts |-> Never, copy |-> copy]

\* What other requests of the same server do to the person's journal.
ServerStep == LogNext /\ UNCHANGED <<copy, cursor, answer, disk>>

\* The device that has a number asks for what came after it.
AnswerSync ==
    /\ answer = NoAnswer
    /\ cursor # Never
    /\ \/ /\ cursor < minPts \/ cursor > pts
          /\ answer' = ResetAnswer
       \/ /\ ~ (cursor < minPts \/ cursor > pts)
          /\ \E end \in Rows(cursor, pts) \cup {pts} :
               /\ PageEnd(cursor, end)
               /\ answer' = SyncPage(cursor, end)
    /\ UNCHANGED <<view, pts, minPts, changes, copy, cursor, disk>>

\* The device that has none, or was told `reset`, asks for the whole list.
AnswerList ==
    /\ \/ answer = NoAnswer /\ cursor = Never
       \/ answer = ResetAnswer
    /\ answer' = [kind |-> "list", pts |-> pts, views |-> view]
    /\ UNCHANGED <<view, pts, minPts, changes, copy, cursor, disk>>

TakePage ==
    /\ answer.kind = "page"
    /\ copy' = [e \in Entities |-> IF e \in DOMAIN answer.views THEN answer.views[e] ELSE copy[e]]
    /\ cursor' = Larger(cursor, answer.pts)
    /\ answer' = NoAnswer
    /\ UNCHANGED <<view, pts, minPts, changes, disk>>

\* Wrong: the list after a `reset` leaves the old number.
TakeListKeepsNumber ==
    /\ answer.kind = "list"
    /\ copy' = answer.views
    /\ cursor' = IF cursor = Never THEN answer.pts ELSE cursor
    /\ answer' = NoAnswer
    /\ UNCHANGED <<view, pts, minPts, changes, disk>>

TakeList ==
    /\ answer.kind = "list"
    /\ copy' = answer.views
    /\ cursor' = answer.pts
    /\ answer' = NoAnswer
    /\ UNCHANGED <<view, pts, minPts, changes, disk>>

\* The request failed; runSync tries again later.
LoseAnswer ==
    /\ answer # NoAnswer
    /\ answer' = NoAnswer
    /\ UNCHANGED <<view, pts, minPts, changes, copy, cursor, disk>>

\* Wrong: the number is stored ahead of the copy it belongs to.
WriteNumberFirst ==
    /\ cursor # Never
    /\ disk' = [pts |-> cursor, copy |-> disk.copy]
    /\ disk' # disk
    /\ UNCHANGED <<view, pts, minPts, changes, copy, cursor, answer>>

\* buildRecord: the copy and its number, taken in one go.
WriteDisk ==
    /\ cursor # Never
    /\ disk' = [pts |-> cursor, copy |-> copy]
    /\ disk' # disk
    /\ UNCHANGED <<view, pts, minPts, changes, copy, cursor, answer>>

\* The application starts again: hydrateState, or an empty state.
Restart ==
    /\ copy' = disk.copy
    /\ cursor' = disk.pts
    /\ answer' = NoAnswer
    /\ UNCHANGED <<view, pts, minPts, changes, disk>>

DeviceStep == AnswerSync \/ AnswerList \/ TakePage \/ TakeList

Next == ServerStep \/ DeviceStep \/ LoseAnswer \/ WriteDisk \/ Restart

Spec == Init /\ [][Next]_vars

----------------------------------------------------------------------------
TypeOK ==
    /\ view \in [Entities -> Values]
    /\ pts \in Nat
    /\ minPts \in 0 .. pts
    /\ DOMAIN changes \subseteq 1 .. pts
    /\ changes \in [DOMAIN changes -> SUBSET Entities]
    /\ copy \in [Entities -> Values]
    /\ cursor \in Nat \cup {Never}
    /\ disk \in [pts : Nat \cup {Never}, copy : [Entities -> Values]]
    /\ \/ answer \in {NoAnswer, ResetAnswer}
       \/ /\ answer.kind = "list"
          /\ answer = [kind |-> "list", pts |-> answer.pts, views |-> answer.views]
          /\ answer.pts \in Nat
          /\ answer.views \in [Entities -> Values]
       \/ /\ answer.kind = "page"
          /\ answer = [kind |-> "page", pts |-> answer.pts, views |-> answer.views]
          /\ answer.pts \in Nat
          /\ DOMAIN answer.views \subseteq Entities
          /\ answer.views \in [DOMAIN answer.views -> Values]

\* INV: no step of the journal ever puts a device ahead of the server.
NeverAhead ==
    /\ cursor <= pts
    /\ disk.pts <= pts
    /\ answer.kind \in {"page", "list"} => answer.pts <= pts

\* INV: rows above min_pts are all there, without a gap.
NumbersWithoutGaps == (minPts + 1) .. pts \subseteq DOMAIN changes

\* INV: a device whose number the server still accepts will be told about
\* everything it shows wrongly: every stale entity is named by a stored row
\* above its number.
NothingMissed == (cursor # Never /\ cursor >= minPts) => Covered(copy, cursor)

\* INV: a device that has the last number shows everything as it is.
CaughtUpIsRight == cursor = pts => copy = view

\* The copy after the answer on its way is taken.
Merged == [e \in Entities |-> IF e \in DOMAIN answer.views THEN answer.views[e] ELSE copy[e]]

\* The inductive invariant.  The answer on its way, and the record on disk,
\* are as good as the copy: the server may prune and write before they are used.
DiskCovered == (disk.pts # Never /\ disk.pts >= minPts) => Covered(disk.copy, disk.pts)

ListCovered == (answer.kind = "list" /\ answer.pts >= minPts) => Covered(answer.views, answer.pts)

PageCovered ==
    answer.kind = "page" =>
        /\ cursor # Never
        /\ cursor <= answer.pts
        /\ answer.pts >= minPts => Covered(Merged, answer.pts)

CatchUpInv ==
    /\ NeverAhead
    /\ NumbersWithoutGaps
    /\ NothingMissed
    /\ DiskCovered
    /\ ListCovered
    /\ PageCovered
=============================================================================
