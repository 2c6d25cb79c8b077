---------------------------- MODULE MCConvOutbox ----------------------------
(* ConvOutbox for TLC: the tabs are interchangeable.                       *)
EXTENDS ConvOutbox, TLC

Symmetry == Permutations(Tabs)

\* Two pages are open together only while little has gone wrong.
Bound == (\A t \in Tabs : up[t]) => troubles < 2
=============================================================================
