------------------------------ MODULE ConvLog ------------------------------
(***************************************************************************)
(* What the DM journal of ONE person promises, without saying how it is    *)
(* kept: numbered rows "these entities changed" (user_changes), the last   *)
(* number given out (user_sync.pts) and the last number forgotten          *)
(* (user_sync.min_pts).  Rows carry no data: whoever asks for "everything  *)
(* after N" gets the CURRENT view of every entity the rows name.           *)
(* ConvJournal is shown to implement this module for every person;         *)
(* ConvCatchUp puts a reader with a cursor on top of it.                   *)
(***************************************************************************)
EXTENDS Integers

CONSTANTS
    Entities,   \* what a row refreshes: a message, a summary, a list of pins
    Values,     \* what the person can be shown of an entity
    Numbers     \* the numbers a row can have: Nat, or a bound for TLC

ASSUME NumbersAssumption == Numbers \subseteq Nat

VARIABLES
    view,       \* view[e]: what the person would be shown of e if he asked now
    pts,        \* the number of the last row
    minPts,     \* rows up to this number may have been deleted
    changes     \* the rows still stored: number -> the entities it refreshes

logVars == <<view, pts, minPts, changes>>

LogInit ==
    /\ view \in [Entities -> Values]
    /\ pts = 0
    /\ minPts = 0
    /\ changes = [p \in {} |-> {}]

(***************************************************************************)
(* One committed write: a block of consecutive new numbers, one row each;  *)
(* no entity looks different afterwards unless a new row names it.         *)
(***************************************************************************)
Write ==
    /\ pts' \in {n \in Numbers : n > pts}
    /\ UNCHANGED minPts
    /\ changes' \in [DOMAIN changes \cup (pts + 1) .. pts' -> SUBSET Entities]
    /\ \A p \in DOMAIN changes : changes'[p] = changes[p]
    /\ view' \in [Entities -> Values]
    /\ \A e \in Entities :
         view'[e] # view[e] => \E p \in (pts + 1) .. pts' : e \in changes'[p]

\* Wrong: min_pts one past the last number.
PrunePastTheEnd ==
    /\ minPts' = pts + 1
    /\ changes' = [p \in {} |-> {}]
    /\ UNCHANGED <<view, pts>>

(***************************************************************************)
(* Old rows go, and the number that says so moves past every one of them.  *)
(***************************************************************************)
Prune ==
    /\ minPts' \in minPts .. pts
    /\ \E kept \in SUBSET DOMAIN changes :
         /\ changes' = [p \in kept |-> changes[p]]
         /\ \A p \in DOMAIN changes \ kept : p <= minPts'
    /\ UNCHANGED <<view, pts>>

LogNext == Write \/ Prune

LogSpec == LogInit /\ [][LogNext]_logVars

(***************************************************************************)
(* A copy that is right "up to number n" may differ from the view only in  *)
(* entities some stored row above n names.                                 *)
(***************************************************************************)
Covered(copy, n) ==
    \A e \in Entities :
        copy[e] # view[e] => \E p \in DOMAIN changes : p > n /\ e \in changes[p]
=============================================================================
