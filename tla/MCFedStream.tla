---------------------------- MODULE MCFedStream ----------------------------
(* FedStream for TLC: requests are interchangeable.                        *)
EXTENDS FedStream, TLC

Symmetry == Permutations(Slots)
=============================================================================
