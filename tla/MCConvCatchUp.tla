--------------------------- MODULE MCConvCatchUp ---------------------------
(***************************************************************************)
(* ConvCatchUp for TLC: two entities with two looks each, a journal of at  *)
(* most MaxPts rows, pages of one row (so that `more` happens).            *)
(***************************************************************************)
EXTENDS ConvCatchUp

CONSTANT MaxPts

MCNumbers == 0 .. MaxPts

\* The device gets its answers and takes them; nothing else is owed to it.
FairSpec == Spec /\ WF_vars(DeviceStep)

\* LIVE: whatever was lost, pruned or restarted on the way, a device whose
\* server falls silent ends up with the last number (and then shows
\* everything as it is, CaughtUpIsRight) unless its answers keep getting
\* lost or it keeps starting again.
EndsUpCaughtUp ==
    <>[][DeviceStep]_vars => <>[](cursor = pts)
=============================================================================
