--------------------------- MODULE MCConvJournal ---------------------------
(***************************************************************************)
(* ConvJournal for TLC.  A full product of all operations is too large, so *)
(* each configuration names in Ops the ones that meet in it.               *)
(***************************************************************************)
EXTENDS ConvJournal, TLC

\* The two members, and the stamps of a device, are interchangeable; so are
\* the request slots.
Symmetry == Permutations(Users) \cup Permutations(Clients) \cup Permutations(Requests)
=============================================================================
