---------------------------- MODULE MCConvWindow ----------------------------
(***************************************************************************)
(* ConvWindow for TLC.  One answer to a sending is on its way at a time,   *)
(* and none while the feed's links are out.  Three changes meet            *)
(* everything else.  Three messages make a window that is cut, so a fourth *)
(* change, to one of them, is let in where nothing has been missed and no  *)
(* sending, new token or second request is about.  Two requests are in     *)
(* flight at once where none of these is about either.                     *)
(***************************************************************************)
EXTENDS ConvWindow, TLC

Symmetry == Permutations(Slots)

Plain == sends = {} /\ missed = {} /\ ~ torn /\ (win # NoWindow => ~ win.stale)
Two == Cardinality({s \in Slots : req[s] # Idle}) > 1

\* A jump is to a message that was there.
JumpsSomewhere ==
    \A s \in Slots : req[s].stage = "asked" =>
        /\ req[s].from = "after" /\ req[s].kind = "jump" => req[s].key < Cardinality(Created(Now))
        /\ req[s].from = "around" => req[s].key \in Created(Now)

Bound ==
    /\ Cardinality(sends) <= 1
    /\ win # NoWindow /\ win.stale => sends = {}
    /\ Now = 4 => Cardinality(Created(3)) = 3 /\ Plain /\ ~ Two
    /\ Two => Plain
    /\ JumpsSomewhere
=============================================================================
