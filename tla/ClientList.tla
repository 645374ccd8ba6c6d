----------------------------- MODULE ClientList -----------------------------
(***************************************************************************)
(* The tiled clients of a monitor, client_list.c, as a sequence without    *)
(* repetition.  Positions count from 1.  A client that leaves the list     *)
(* takes its position along, in the record of the list it goes to, and is  *)
(* put back at it by Reattach, whatever the list has become meanwhile.     *)
(***************************************************************************)
EXTENDS Integers, Sequences, SequencesExt

CONSTANT IntMax    (* INT_MAX, the position of a client that was in no list *)

ASSUME IntMaxAssumption == IntMax \in Nat

In(l, c) == \E i \in DOMAIN l : l[i] = c

(* cl_get_client_position                                                  *)
Position(l, c) == IF In(l, c) THEN CHOOSE i \in DOMAIN l : l[i] = c ELSE -1

(* cl_append, cl_push: nothing when the client is in the list.             *)
ClAppend(l, c) == IF In(l, c) THEN l ELSE Append(l, c)

ClPush(l, c) == IF In(l, c) THEN l ELSE <<c>> \o l

(* cl_insert_after: nothing when there is no client number pos either.     *)
ClInsertAfter(l, c, pos) ==
  IF In(l, c) \/ pos \notin DOMAIN l THEN l ELSE InsertAt(l, pos + 1, c)

(* cl_remove: nothing when the client is not in the list.                  *)
ClRemove(l, c) == IF In(l, c) THEN RemoveAt(l, Position(l, c)) ELSE l

(* cl_swap_clients                                                         *)
ClSwap(l, a, b) ==
  IF In(l, a) /\ In(l, b)
    THEN [i \in DOMAIN l |-> IF l[i] = a THEN b ELSE IF l[i] = b THEN a ELSE l[i]]
    ELSE l

(* fl_reattach_into_cl and both reattach_into_cl: a position that does not *)
(* exist any more, or never did, is taken for the end.                     *)
Reattach(l, c, pos) ==
  IF pos = 1 THEN ClPush(l, c)
  ELSE IF pos > Len(l) \/ pos <= 0 THEN ClAppend(l, c)
  ELSE ClInsertAfter(l, c, pos - 1)
=============================================================================
