--------------------------- MODULE MCJournalLocks ---------------------------
(***************************************************************************)
(* JournalLocks for TLC: two people who share two conversations with       *)
(* people of another instance, so that two writers that do not wait for    *)
(* the same conversation meet in both people's rows and in the instance's. *)
(***************************************************************************)
EXTENDS JournalLocks

MCMembers == [direct |-> {1, 2}, group |-> {1, 2}]
MCHomes == [direct |-> {7}, group |-> {7}]
MCScheduled == {<<"direct", 2>>}
=============================================================================
