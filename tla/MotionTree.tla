----------------------------- MODULE MotionTree -----------------------------
(***************************************************************************)
(* The motion tree of a monitor, motion_tree.c: which tile is to the left, *)
(* to the right, above or below another.  Every layout builds it anew, and *)
(* the keys that move the focus or a window follow it.  A tree is what the *)
(* children of each node are, in order; a node is the client it carries,   *)
(* and Root, which carries none.  A client that is not in the tree has no  *)
(* parent and no children.                                                 *)
(***************************************************************************)
EXTENDS Integers, Sequences, FiniteSets, SequencesExt

CONSTANTS Clients, Root, None

Nodes == Clients \cup {Root}

(* mt_init: a root without children.                                       *)
EmptyTree == [n \in Nodes |-> <<>>]

IsParent(kids, p, n) == \E i \in DOMAIN kids[p] : kids[p][i] = n

IsIn(kids, n) == n = Root \/ \E p \in Nodes : IsParent(kids, p, n)

Parent(kids, n) == CHOOSE p \in Nodes : IsParent(kids, p, n)

(* mt_insert_below_of: the last child of p, nothing when p is not in the   *)
(* tree or n is.                                                           *)
InsertBelow(kids, p, n) ==
  IF IsIn(kids, p) /\ ~IsIn(kids, n) THEN [kids EXCEPT ![p] = Append(@, n)] ELSE kids

(* The tiles of a layout that puts them side by side, or one below the     *)
(* other, or one over the other: children of the root, or a chain.         *)
InsertAll(kids, tiles) ==
  FoldLeft(LAMBDA t, n : InsertBelow(t, Root, n), kids, tiles)

InsertChain(kids, tiles) ==
  FoldLeft(LAMBDA t, i : InsertBelow(t, IF i = 1 THEN Root ELSE tiles[i - 1], tiles[i]),
           kids, [i \in DOMAIN tiles |-> i])

-----------------------------------------------------------------------------
(* The path from a node to the root, and the depth of the node.            *)
Ancestor(kids, n, k) ==
  LET up[i \in 0..k] == IF i = 0 THEN n
                        ELSE IF up[i - 1] = Root THEN Root
                        ELSE Parent(kids, up[i - 1])
  IN up[k]

Depth(kids, n) == CHOOSE k \in 0..Cardinality(Clients) :
  /\ Ancestor(kids, n, k) = Root
  /\ \A j \in 0..(k - 1) : Ancestor(kids, n, j) # Root

(* The sibling next to n, to the left for step -1, to the right for +1.    *)
Sibling(kids, n, step) ==
  LET line == kids[Parent(kids, n)]
      at   == (CHOOSE i \in DOMAIN line : line[i] = n) + step
  IN IF n # Root /\ at \in DOMAIN line THEN line[at] ELSE None

(* mt_descend_left_max_depth, mt_descend_right_max_depth: from n down      *)
(* along the first or the last children, levels of them at most.           *)
Descend(kids, n, levels, last) ==
  LET down[i \in 0..levels] ==
        IF i = 0 THEN n
        ELSE LET line == kids[down[i - 1]]
             IN IF line = <<>> THEN down[i - 1]
                ELSE IF last THEN line[Len(line)] ELSE line[1]
  IN down[levels]

(* Variant: only the siblings are looked at.                               *)
BesideSibling(kids, n, step, last) == Sibling(kids, n, step)

(* mt_left_of, mt_right_of: the sibling, or else the nearest ancestor with *)
(* a sibling on that side, and from that sibling down to the depth of n.   *)
Beside(kids, n, step, last) ==
  LET up == {k \in 0..(Depth(kids, n) - 1) : Sibling(kids, Ancestor(kids, n, k), step) # None}
      k  == CHOOSE i \in up : \A j \in up : i <= j
  IN IF up = {} THEN None
     ELSE Descend(kids, Sibling(kids, Ancestor(kids, n, k), step), k, last)

(* Where a key that points in a direction leads from the tile of n: None   *)
(* for a client whose tile is not in the tree.                             *)
Directions == {"left", "right", "up", "down"}

Toward(kids, n, direction) ==
  IF n = None \/ ~IsIn(kids, n) THEN None
  ELSE CASE direction = "left"  -> Beside(kids, n, -1, TRUE)
         [] direction = "right" -> Beside(kids, n, 1, FALSE)
         [] direction = "up"    -> Parent(kids, n)
         [] direction = "down"  -> IF kids[n] = <<>> THEN None ELSE kids[n][1]
=============================================================================
