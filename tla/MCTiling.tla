------------------------------ MODULE MCTiling ------------------------------
(***************************************************************************)
(* Tiling, instantiated by the Tiling_*.cfg configurations: a monitor of   *)
(* 1280 by 720, the second one of a row of two, with a panel over a part   *)
(* of its top.  Every border has a width of its own.                       *)
(***************************************************************************)
EXTENDS Tiling

MCAllLayouts == <<"left", "right", "column", "row", "monocle", "left monocle",
                  "right monocle", "left left", "right right">>
MCOneLayout == <<"left">>

MCAllPositions == <<"bottom", "top", "left", "right">>

MCSymmetry == Permutations(Clients)

MCDocks == {[side |-> "top", size |-> 30, from |-> 1366, to |-> 2000]}
=============================================================================
