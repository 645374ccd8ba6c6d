----------------------------- MODULE Places_proofs ----------------------------
(***************************************************************************)
(* Where a client is in the lists of its workspace, and what every         *)
(* operation does to it, for every set of windows and workspaces, every    *)
(* configuration and every bound.  Lists_proofs builds on this module.     *)
(*                                                                         *)
(* First the client list alone: what a client that leaves it and comes     *)
(* back does to it.  Then the four lists of a workspace.  At says what     *)
(* entry is in which list, Home that a client has this entry and no other, *)
(* Fits that its flags name the list; every operation on lists is shown to *)
(* lead from a Home to a Home.  Good is the invariant Lists_proofs proves: *)
(* every managed client has a Home its flags fit, no other client has one. *)
(* Last the notices and the Client structs: each operation of the X server *)
(* or of the window manager on one client is an operator of Visibility on  *)
(* that client's record, and the others' records stay as they were.        *)
(***************************************************************************)
EXTENDS Lists, SequenceTheorems, FiniteSetTheorems, TLAPS

-----------------------------------------------------------------------------
(* The client list. *)

(* t is l without its element number i, and with c as element number i.    *)
IsRemoval(t, l, i) ==
  /\ Len(t) = Len(l) - 1
  /\ \A j \in 1..(Len(l) - 1) : t[j] = IF j < i THEN l[j] ELSE l[j + 1]

IsInsertion(t, l, i, c) ==
  /\ Len(t) = Len(l) + 1
  /\ \A j \in 1..(Len(l) + 1) :
       t[j] = IF j < i THEN l[j] ELSE IF j = i THEN c ELSE l[j - 1]

LEMMA RemoveAtIs ==
  ASSUME NEW S, NEW l \in Seq(S), NEW i \in 1..Len(l)
  PROVE  RemoveAt(l, i) \in Seq(S) /\ IsRemoval(RemoveAt(l, i), l, i)
  <1> DEFINE a == SubSeq(l, 1, i - 1)
             b == SubSeq(l, i + 1, Len(l))
  <1>1. a \in Seq(S) /\ Len(a) = i - 1 /\ \A j \in 1..(i - 1) : a[j] = l[j]
    OBVIOUS
  <1>2. b \in Seq(S) /\ Len(b) = Len(l) - i /\ \A j \in 1..(Len(l) - i) : b[j] = l[i + j]
    OBVIOUS
  <1>3. RemoveAt(l, i) = a \o b
    BY DEF RemoveAt
  <1> HIDE DEF a, b
  <1>4. /\ a \o b \in Seq(S)
        /\ Len(a \o b) = Len(a) + Len(b)
        /\ \A j \in 1..(Len(a) + Len(b)) :
             (a \o b)[j] = IF j <= Len(a) THEN a[j] ELSE b[j - Len(a)]
    BY <1>1, <1>2, ConcatProperties
  <1>5. ASSUME NEW j \in 1..(Len(l) - 1)
        PROVE  (a \o b)[j] = IF j < i THEN l[j] ELSE l[j + 1]
    <2>1. CASE j < i
      BY <2>1, <1>1, <1>2, <1>4
    <2>2. CASE ~(j < i)
      <3>1. j - Len(a) \in 1..(Len(l) - i) /\ i + (j - Len(a)) = j + 1
        BY <2>2, <1>1
      <3>2. b[j - Len(a)] = l[j + 1]
        BY <3>1, <1>2
      <3>3. (a \o b)[j] = b[j - Len(a)]
        BY <2>2, <1>1, <1>2, <1>4
      <3> QED
        BY <2>2, <3>2, <3>3
    <2> QED
      BY <2>1, <2>2
  <1> QED
    BY <1>1, <1>2, <1>3, <1>4, <1>5 DEF IsRemoval

LEMMA InsertAtIs ==
  ASSUME NEW S, NEW l \in Seq(S), NEW c \in S, NEW i \in 1..(Len(l) + 1)
  PROVE  InsertAt(l, i, c) \in Seq(S) /\ IsInsertion(InsertAt(l, i, c), l, i, c)
  <1> DEFINE a == SubSeq(l, 1, i - 1)
             b == SubSeq(l, i, Len(l))
             d == a \o <<c>>
  <1>1. a \in Seq(S) /\ Len(a) = i - 1 /\ \A j \in 1..(i - 1) : a[j] = l[j]
    OBVIOUS
  <1>2. /\ b \in Seq(S) /\ Len(b) = Len(l) - i + 1
        /\ \A j \in 1..(Len(l) - i + 1) : b[j] = l[i + j - 1]
    OBVIOUS
  <1>3. d \in Seq(S) /\ Len(d) = i /\ d[i] = c /\ \A j \in 1..(i - 1) : d[j] = l[j]
    <2> HIDE DEF a
    <2> QED
      BY <1>1
  <1>4. InsertAt(l, i, c) = d \o b
    BY DEF InsertAt
  <1> HIDE DEF a, b, d
  <1>5. /\ d \o b \in Seq(S)
        /\ Len(d \o b) = Len(d) + Len(b)
        /\ \A j \in 1..(Len(d) + Len(b)) :
             (d \o b)[j] = IF j <= Len(d) THEN d[j] ELSE b[j - Len(d)]
    BY <1>2, <1>3, ConcatProperties
  <1>6. ASSUME NEW j \in 1..(Len(l) + 1)
        PROVE  (d \o b)[j] = IF j < i THEN l[j] ELSE IF j = i THEN c ELSE l[j - 1]
    <2>1. CASE j <= i
      <3>1. (d \o b)[j] = d[j]
        BY <2>1, <1>2, <1>3, <1>5
      <3> QED
        BY <3>1, <2>1, <1>3
    <2>2. CASE ~(j <= i)
      <3>1. j - Len(d) \in 1..(Len(l) - i + 1) /\ i + (j - Len(d)) - 1 = j - 1
        BY <2>2, <1>3
      <3> QED
        BY <3>1, <2>2, <1>2, <1>3, <1>5
    <2> QED
      BY <2>1, <2>2
  <1> QED
    BY <1>2, <1>3, <1>4, <1>5, <1>6 DEF IsInsertion

LEMMA PositionIs ==
  ASSUME NEW S, NEW l \in Seq(S), NEW c, In(l, c)
  PROVE  Position(l, c) \in 1..Len(l) /\ l[Position(l, c)] = c
  <1>1. \E i \in DOMAIN l : l[i] = c
    BY DEF In
  <1>2. (CHOOSE i \in DOMAIN l : l[i] = c) \in DOMAIN l
        /\ l[CHOOSE i \in DOMAIN l : l[i] = c] = c
    BY <1>1
  <1> QED
    BY <1>2 DEF Position

(* Reattach is an insertion, or the list has the client already.           *)
LEMMA ReattachIs ==
  ASSUME NEW S, NEW l \in Seq(S), NEW c \in S, ~In(l, c), NEW pos \in Int
  PROVE  LET i == IF pos > Len(l) \/ pos <= 0 THEN Len(l) + 1 ELSE pos
         IN Reattach(l, c, pos) = InsertAt(l, IF pos = 1 THEN 1 ELSE i, c)
  <1> DEFINE i == IF pos > Len(l) \/ pos <= 0 THEN Len(l) + 1 ELSE pos
             at == IF pos = 1 THEN 1 ELSE i
  <1>1. at \in 1..(Len(l) + 1)
    OBVIOUS
  <1>2. CASE pos = 1
    <2>1. Reattach(l, c, pos) = <<c>> \o l
      BY <1>2 DEF Reattach, ClPush
    <2>2. InsertAt(l, 1, c) \in Seq(S) /\ IsInsertion(InsertAt(l, 1, c), l, 1, c)
      BY InsertAtIs, 1 \in 1..(Len(l) + 1)
    <2>3. /\ <<c>> \o l \in Seq(S) /\ Len(<<c>> \o l) = Len(l) + 1
          /\ \A j \in 1..(Len(l) + 1) :
               (<<c>> \o l)[j] = IF j = 1 THEN c ELSE l[j - 1]
      OBVIOUS
    <2>4. <<c>> \o l = InsertAt(l, 1, c)
      <3> DEFINE x == <<c>> \o l
                 y == InsertAt(l, 1, c)
      <3>1. /\ x \in Seq(S) /\ y \in Seq(S) /\ Len(x) = Len(y)
            /\ \A j \in 1..Len(x) : x[j] = y[j]
        BY <2>2, <2>3 DEF IsInsertion
      <3> HIDE DEF x, y
      <3>2. x = y
        BY <3>1, SeqEqual
      <3> QED
        BY <3>2 DEF x, y
    <2> QED
      BY <2>1, <2>4, <1>2
  <1>3. CASE pos # 1 /\ (pos > Len(l) \/ pos <= 0)
    <2>1. Reattach(l, c, pos) = Append(l, c)
      BY <1>3 DEF Reattach, ClAppend
    <2>2. /\ InsertAt(l, Len(l) + 1, c) \in Seq(S)
          /\ IsInsertion(InsertAt(l, Len(l) + 1, c), l, Len(l) + 1, c)
      BY InsertAtIs, Len(l) + 1 \in 1..(Len(l) + 1)
    <2>3. Append(l, c) = InsertAt(l, Len(l) + 1, c)
      BY <2>2 DEF IsInsertion
    <2> QED
      BY <2>1, <2>3, <1>3
  <1>4. CASE pos # 1 /\ ~(pos > Len(l) \/ pos <= 0)
    <2>1. pos - 1 \in DOMAIN l /\ (pos - 1) + 1 = pos
      BY <1>4
    <2> QED
      BY <2>1, <1>4 DEF Reattach, ClInsertAfter
  <1> QED
    BY <1>2, <1>3, <1>4

LEMMA ClRemoveIs ==
  ASSUME NEW S, NEW l \in Seq(S), NEW c, IsInjective(l), In(l, c)
  PROVE  /\ ClRemove(l, c) = RemoveAt(l, Position(l, c))
         /\ ClRemove(l, c) \in Seq(S)
         /\ Len(ClRemove(l, c)) = Len(l) - 1
         /\ IsInjective(ClRemove(l, c))
         /\ ~In(ClRemove(l, c), c)
  <1> DEFINE p == Position(l, c)
             r == ClRemove(l, c)
  <1>1. p \in 1..Len(l) /\ l[p] = c
    BY PositionIs
  <1>2. r = RemoveAt(l, p)
    BY DEF ClRemove
  <1> HIDE DEF p, r
  <1>3. r \in Seq(S) /\ IsRemoval(r, l, p)
    BY <1>1, <1>2, RemoveAtIs
  <1>4. IsInjective(r)
    BY SMTT(60), <1>1, <1>3 DEF IsInjective, IsRemoval
  <1>5. ~In(r, c)
    BY SMTT(60), <1>1, <1>3 DEF IsInjective, In, IsRemoval
  <1> QED
    BY <1>2, <1>3, <1>4, <1>5 DEF p, r, IsRemoval

(* A client taken out of a list and put back at the position it left, the  *)
(* list being as it was, restores the list: floating or minimizing a tiled *)
(* client and undoing it changes nothing (detached.c:66, float_list.c:116).*)
THEOREM PutBack ==
  ASSUME NEW S, NEW l \in Seq(S), NEW c \in S, IsInjective(l), In(l, c)
  PROVE  Reattach(ClRemove(l, c), c, Position(l, c)) = l
  <1> DEFINE p == Position(l, c)
             r == ClRemove(l, c)
             t == Reattach(r, c, p)
  <1>1. p \in 1..Len(l) /\ l[p] = c
    BY PositionIs
  <1>2. /\ r = RemoveAt(l, p) /\ r \in Seq(S) /\ Len(r) = Len(l) - 1 /\ ~In(r, c)
    BY ClRemoveIs
  <1> HIDE DEF p, r
  <1>3. IsRemoval(r, l, p)
    BY <1>1, <1>2, RemoveAtIs
  <1>4. t = InsertAt(r, IF p = 1 THEN 1
                        ELSE IF p > Len(r) \/ p <= 0 THEN Len(r) + 1 ELSE p, c)
    BY <1>1, <1>2, ReattachIs
  <1>5. t = InsertAt(r, p, c)
    BY <1>1, <1>2, <1>4
  <1> HIDE DEF t
  <1>6. p \in 1..(Len(r) + 1)
    BY <1>1, <1>2
  <1>7. t \in Seq(S) /\ IsInsertion(t, r, p, c)
    BY <1>2, <1>5, <1>6, InsertAtIs
  <1>8. ASSUME NEW j \in 1..Len(l) PROVE t[j] = l[j]
    <2>1. CASE j < p
      BY <2>1, <1>1, <1>3, <1>7 DEF IsRemoval, IsInsertion
    <2>2. CASE j = p
      BY <2>2, <1>1, <1>2, <1>7 DEF IsInsertion
    <2>3. CASE j > p
      <3>1. j - 1 \in 1..(Len(l) - 1) /\ ~(j - 1 < p) /\ (j - 1) + 1 = j
        BY <2>3, <1>1
      <3> QED
        BY <3>1, <2>3, <1>1, <1>2, <1>3, <1>7 DEF IsRemoval, IsInsertion
    <2> QED
      BY <2>1, <2>2, <2>3, <1>1
  <1>9. t = l
    BY <1>2, <1>7, <1>8 DEF IsInsertion
  <1> QED
    BY <1>9 DEF t, r, p

(* Wherever a client is put back, the position it remembers being stale or *)
(* not, it is in the list once and the others are as they were.            *)
THEOREM OthersUndisturbed ==
  ASSUME NEW S, NEW l \in Seq(S), NEW c \in S, IsInjective(l), ~In(l, c), NEW pos \in Int
  PROVE  /\ Reattach(l, c, pos) \in Seq(S)
         /\ IsInjective(Reattach(l, c, pos))
         /\ In(Reattach(l, c, pos), c)
         /\ ClRemove(Reattach(l, c, pos), c) = l
  <1> DEFINE t == Reattach(l, c, pos)
             i == IF pos > Len(l) \/ pos <= 0 THEN Len(l) + 1 ELSE pos
             p == IF pos = 1 THEN 1 ELSE i
             r == ClRemove(t, c)
  <1>1. t = InsertAt(l, p, c)
    BY ReattachIs
  <1>2. p \in 1..(Len(l) + 1)
    OBVIOUS
  <1> HIDE DEF t, p, r
  <1>3. t \in Seq(S) /\ IsInsertion(t, l, p, c)
    BY <1>1, <1>2, InsertAtIs
  <1>4. \A j \in 1..Len(l) : l[j] # c
    BY DEF In
  <1>5. In(t, c)
    BY <1>2, <1>3 DEF In, IsInsertion
  <1>6. \A j \in 1..Len(t) : t[j] = c => j = p
    <2> SUFFICES ASSUME NEW j \in 1..Len(t), j # p PROVE t[j] # c
      OBVIOUS
    <2>1. CASE j < p
      BY <2>1, <1>2, <1>3, <1>4 DEF IsInsertion
    <2>2. CASE j > p
      <3>1. j - 1 \in 1..Len(l)
        BY <2>2, <1>2, <1>3 DEF IsInsertion
      <3> QED
        BY <3>1, <2>2, <1>2, <1>3, <1>4 DEF IsInsertion
    <2> QED
      BY <2>1, <2>2, <1>2, <1>3 DEF IsInsertion
  <1>7. IsInjective(t)
    <2> SUFFICES ASSUME NEW j \in 1..Len(t), NEW k \in 1..Len(t), t[j] = t[k]
                 PROVE  j = k
      BY <1>3 DEF IsInjective, IsInsertion
    <2>1. CASE j = p \/ k = p
      <3>1. p \in 1..Len(t) /\ t[p] = c
        BY <1>2, <1>3 DEF IsInsertion
      <3>2. t[j] = c /\ t[k] = c
        BY <2>1, <3>1
      <3> QED
        BY <3>2, <1>6
    <2>2. CASE j # p /\ k # p
      <3> DEFINE old(x) == IF x < p THEN x ELSE x - 1
      <3>1. /\ old(j) \in 1..Len(l) /\ t[j] = l[old(j)]
            /\ old(k) \in 1..Len(l) /\ t[k] = l[old(k)]
        BY <2>2, <1>2, <1>3 DEF IsInsertion
      <3>2. old(j) = old(k)
        <4> HIDE DEF old
        <4>1. l[old(j)] = l[old(k)]
          BY <3>1
        <4>2. old(j) \in DOMAIN l /\ old(k) \in DOMAIN l
          BY <3>1
        <4> QED
          BY <4>1, <4>2 DEF IsInjective
      <3> QED
        BY <3>2, <2>2, <1>2
    <2> QED
      BY <2>1, <2>2
  <1>8. Position(t, c) = p
    BY <1>3, <1>5, <1>6, PositionIs
  <1>9. r = RemoveAt(t, p)
    BY <1>5, <1>8 DEF ClRemove, r
  <1>10. p \in 1..Len(t)
    BY <1>2, <1>3 DEF IsInsertion
  <1>11. r \in Seq(S) /\ IsRemoval(r, t, p)
    BY <1>3, <1>9, <1>10, RemoveAtIs
  <1>12. ASSUME NEW j \in 1..Len(l) PROVE r[j] = l[j]
    <2>1. CASE j < p
      BY <2>1, <1>2, <1>3, <1>11 DEF IsInsertion, IsRemoval
    <2>2. CASE ~(j < p)
      <3>1. j + 1 \in 1..(Len(l) + 1) /\ ~(j + 1 < p) /\ j + 1 # p /\ (j + 1) - 1 = j
        BY <2>2, <1>2
      <3>2. t[j + 1] = l[(j + 1) - 1]
        BY <3>1, <1>2, <1>3 DEF IsInsertion
      <3> QED
        BY <3>1, <3>2, <2>2, <1>3, <1>11 DEF IsInsertion, IsRemoval
    <2> QED
      BY <2>1, <2>2
  <1>13. r = l
    BY <1>3, <1>11, <1>12 DEF IsInsertion, IsRemoval
  <1> QED
    BY <1>3, <1>5, <1>7, <1>13 DEF t, r

(* Clients that leave one after the other and come back the last one first *)
(* are where they were.  A switch of workspace maps the clients of the     *)
(* unmapped list from its head, the one that was unmapped last             *)
(* (unmapped_list.c:365), for this reason.                                 *)
THEOREM LastOutFirstIn ==
  ASSUME NEW S, NEW l \in Seq(S), IsInjective(l),
         NEW c \in S, NEW d \in S, c # d, In(l, c), In(l, d)
  PROVE  LET r == ClRemove(l, c)
         IN Reattach(Reattach(ClRemove(r, d), d, Position(r, d)), c, Position(l, c)) = l
  <1> DEFINE p == Position(l, c)
             r == ClRemove(l, c)
  <1>1. r = RemoveAt(l, p) /\ r \in Seq(S) /\ IsInjective(r)
    BY ClRemoveIs
  <1>2. p \in 1..Len(l) /\ l[p] = c
    BY PositionIs
  <1>3. In(r, d)
    <2>1. PICK i \in 1..Len(l) : l[i] = d
      BY DEF In
    <2> HIDE DEF p, r
    <2>2. IsRemoval(r, l, p)
      BY <1>1, <1>2, RemoveAtIs
    <2>3. CASE i < p
      BY <2>1, <2>2, <2>3, <1>1, <1>2 DEF In, IsRemoval
    <2>4. CASE ~(i < p)
      <3>1. i - 1 \in 1..(Len(l) - 1) /\ ~(i - 1 < p) /\ (i - 1) + 1 = i
        BY <2>1, <2>4, <1>2
      <3>2. r[i - 1] = d
        BY <3>1, <2>1, <2>2 DEF IsRemoval
      <3> QED
        BY <3>1, <3>2, <2>2, <1>1 DEF In, IsRemoval
    <2> QED
      BY <2>3, <2>4
  <1>4. Reattach(ClRemove(r, d), d, Position(r, d)) = r
    BY <1>1, <1>3, PutBack
  <1>5. Reattach(r, c, p) = l
    BY PutBack
  <1> QED
    BY <1>4, <1>5

-----------------------------------------------------------------------------
(* What the operations on a list of clients do to who is in it.            *)

LEMMA InOf ==
  ASSUME NEW S, NEW l \in Seq(S), NEW c
  PROVE  /\ In(l, c) <=> \E i \in 1..Len(l) : l[i] = c
         /\ In(l, c) => c \in S
  BY DEF In

LEMMA PushedIs ==
  ASSUME NEW S, NEW l \in Seq(S), NEW c \in S
  PROVE  /\ <<c>> \o l \in Seq(S)
         /\ \A x : In(<<c>> \o l, x) <=> x = c \/ In(l, x)
         /\ IsInjective(l) /\ ~In(l, c) => IsInjective(<<c>> \o l)
  <1> DEFINE t == <<c>> \o l
  <1>1. /\ t \in Seq(S) /\ Len(t) = Len(l) + 1 /\ Len(l) \in Nat /\ t[1] = c
        /\ \A i \in 1..Len(l) : t[i + 1] = l[i]
    OBVIOUS
  <1> HIDE DEF t
  <1>2. ASSUME NEW j \in 1..Len(t), j # 1 PROVE j - 1 \in 1..Len(l) /\ t[j] = l[j - 1]
    <2>1. j - 1 \in 1..Len(l) /\ (j - 1) + 1 = j
      BY <1>1, <1>2
    <2> QED
      BY <1>1, <2>1
  <1>3. \A x : In(t, x) => x = c \/ In(l, x)
    <2> SUFFICES ASSUME NEW x, In(t, x), x # c PROVE In(l, x)
      OBVIOUS
    <2>1. PICK j \in 1..Len(t) : t[j] = x
      BY <1>1, InOf
    <2>2. j - 1 \in 1..Len(l) /\ l[j - 1] = x
      BY <1>1, <1>2, <2>1
    <2> QED
      BY <2>2, InOf
  <1>4. \A x : x = c \/ In(l, x) => In(t, x)
    <2>1. In(t, c)
      <3>1. 1 \in 1..Len(t)
        BY <1>1
      <3> QED
        BY <1>1, <3>1, InOf
    <2>2. ASSUME NEW x, In(l, x) PROVE In(t, x)
      <3>1. PICK i \in 1..Len(l) : l[i] = x
        BY <2>2, InOf
      <3>2. i + 1 \in 1..Len(t) /\ t[i + 1] = x
        BY <1>1, <3>1
      <3> QED
        BY <1>1, <3>2, InOf
    <2> QED
      BY <2>1, <2>2
  <1>5. ASSUME IsInjective(l), ~In(l, c) PROVE IsInjective(t)
    <2> SUFFICES ASSUME NEW a \in 1..Len(t), NEW b \in 1..Len(t), t[a] = t[b] PROVE a = b
      BY <1>1 DEF IsInjective
    <2>1. \A j \in 1..Len(t) : j # 1 => t[j] # c
      <3> SUFFICES ASSUME NEW j \in 1..Len(t), j # 1, t[j] = c PROVE FALSE
        OBVIOUS
      <3>1. j - 1 \in 1..Len(l) /\ l[j - 1] = c
        BY <1>2
      <3> QED
        BY <1>5, <3>1, InOf
    <2>2. CASE a # 1 /\ b # 1
      <3>1. a - 1 \in 1..Len(l) /\ b - 1 \in 1..Len(l) /\ l[a - 1] = l[b - 1]
        BY <1>2, <2>2
      <3>2. a - 1 = b - 1
        BY <1>5, <3>1 DEF IsInjective
      <3> QED
        BY <3>2
    <2> QED
      BY <1>1, <2>1, <2>2
  <1> QED
    BY <1>1, <1>3, <1>4, <1>5 DEF t

LEMMA RemovalIs ==
  ASSUME NEW S, NEW l \in Seq(S), NEW i \in 1..Len(l)
  PROVE  /\ RemoveAt(l, i) \in Seq(S)
         /\ IsInjective(l) => /\ IsInjective(RemoveAt(l, i))
                              /\ \A x : In(RemoveAt(l, i), x) <=> In(l, x) /\ x # l[i]
  <1> DEFINE t == RemoveAt(l, i)
  <1>1. t \in Seq(S) /\ IsRemoval(t, l, i)
    BY RemoveAtIs
  <1> HIDE DEF t
  <1>2. /\ Len(t) = Len(l) - 1 /\ Len(l) \in Nat
        /\ \A j \in 1..Len(t) : t[j] = IF j < i THEN l[j] ELSE l[j + 1]
    BY <1>1 DEF IsRemoval
  <1>3. ASSUME IsInjective(l) PROVE IsInjective(t)
    BY SMTT(60), <1>1, <1>2, <1>3 DEF IsInjective
  <1>4. ASSUME IsInjective(l), NEW x, In(t, x) PROVE In(l, x) /\ x # l[i]
    <2>1. PICK j \in 1..Len(t) : t[j] = x
      BY <1>1, <1>4, InOf
    <2>2. PICK k \in 1..Len(l) : k # i /\ l[k] = x
      <3>1. CASE j < i
        <4>1. j \in 1..Len(l) /\ j # i /\ l[j] = x
          BY <1>2, <2>1, <3>1
        <4> QED
          BY <4>1
      <3>2. CASE ~(j < i)
        <4>1. j + 1 \in 1..Len(l) /\ j + 1 # i /\ l[j + 1] = x
          BY <1>2, <2>1, <3>2
        <4> QED
          BY <4>1
      <3> QED
        BY <3>1, <3>2
    <2>3. x # l[i]
      BY <1>4, <2>2 DEF IsInjective
    <2> QED
      BY <2>2, <2>3, InOf
  <1>5. ASSUME NEW x, In(l, x), x # l[i] PROVE In(t, x)
    <2>1. PICK k \in 1..Len(l) : l[k] = x
      BY <1>5, InOf
    <2>2. CASE k < i
      <3>1. k \in 1..Len(t) /\ t[k] = x
        BY <1>2, <2>1, <2>2
      <3> QED
        BY <1>1, <3>1, InOf
    <2>3. CASE ~(k < i)
      <3>0. k # i
        BY <1>5, <2>1
      <3>1. k - 1 \in 1..Len(t) /\ ~(k - 1 < i) /\ (k - 1) + 1 = k
        BY <1>2, <2>1, <2>3, <3>0
      <3>2. t[k - 1] = x
        BY <1>2, <2>1, <3>1
      <3> QED
        BY <1>1, <3>1, <3>2, InOf
    <2> QED
      BY <2>2, <2>3
  <1> QED
    BY <1>1, <1>3, <1>4, <1>5 DEF t

LEMMA InsertionIs ==
  ASSUME NEW S, NEW l \in Seq(S), NEW c \in S, ~In(l, c), NEW i \in 1..(Len(l) + 1)
  PROVE  /\ InsertAt(l, i, c) \in Seq(S)
         /\ IsInjective(l) => IsInjective(InsertAt(l, i, c))
         /\ \A x : In(InsertAt(l, i, c), x) <=> x = c \/ In(l, x)
  <1> DEFINE t == InsertAt(l, i, c)
  <1>1. t \in Seq(S) /\ IsInsertion(t, l, i, c)
    BY InsertAtIs
  <1> HIDE DEF t
  <1>2. /\ Len(t) = Len(l) + 1 /\ Len(l) \in Nat
        /\ \A j \in 1..Len(t) :
             t[j] = IF j < i THEN l[j] ELSE IF j = i THEN c ELSE l[j - 1]
    BY <1>1 DEF IsInsertion
  <1>3. \A j \in 1..Len(t) : j # i =>
          \E k \in 1..Len(l) : k = (IF j < i THEN j ELSE j - 1) /\ t[j] = l[k]
    <2> SUFFICES ASSUME NEW j \in 1..Len(t), j # i
                 PROVE  \E k \in 1..Len(l) : k = (IF j < i THEN j ELSE j - 1) /\ t[j] = l[k]
      OBVIOUS
    <2>1. CASE j < i
      <3>1. j \in 1..Len(l) /\ t[j] = l[j]
        BY <1>2, <2>1
      <3> QED
        BY <2>1, <3>1
    <2>2. CASE ~(j < i)
      <3>1. j - 1 \in 1..Len(l) /\ t[j] = l[j - 1]
        BY <1>2, <2>2
      <3> QED
        BY <2>2, <3>1
    <2> QED
      BY <2>1, <2>2
  <1>4. ASSUME NEW x, In(t, x), x # c PROVE In(l, x)
    <2>1. PICK j \in 1..Len(t) : t[j] = x
      BY <1>1, <1>4, InOf
    <2>2. j # i
      BY <1>2, <1>4, <2>1
    <2>3. PICK k \in 1..Len(l) : t[j] = l[k]
      BY <1>3, <2>2
    <2> QED
      BY <2>1, <2>3, InOf
  <1>5. In(t, c)
    <2>1. i \in 1..Len(t) /\ t[i] = c
      BY <1>2
    <2> QED
      BY <1>1, <2>1, InOf
  <1>6. ASSUME NEW x, In(l, x) PROVE In(t, x)
    <2>1. PICK k \in 1..Len(l) : l[k] = x
      BY <1>6, InOf
    <2>2. CASE k < i
      <3>1. k \in 1..Len(t) /\ t[k] = x
        BY <1>2, <2>1, <2>2
      <3> QED
        BY <1>1, <3>1, InOf
    <2>3. CASE ~(k < i)
      <3>1. k + 1 \in 1..Len(t) /\ ~(k + 1 < i) /\ k + 1 # i /\ (k + 1) - 1 = k
        BY <1>2, <2>1, <2>3
      <3>2. t[k + 1] = x
        BY <1>2, <2>1, <3>1
      <3> QED
        BY <1>1, <3>1, <3>2, InOf
    <2> QED
      BY <2>2, <2>3
  <1>7. ASSUME IsInjective(l) PROVE IsInjective(t)
    <2> SUFFICES ASSUME NEW a \in 1..Len(t), NEW b \in 1..Len(t), t[a] = t[b] PROVE a = b
      BY <1>1 DEF IsInjective
    <2>1. ASSUME NEW j \in 1..Len(t), j # i PROVE t[j] # c
      <3>1. \E k \in 1..Len(l) : t[j] = l[k]
        BY <1>3, <2>1
      <3> QED
        BY <3>1, InOf
    <2>2. CASE a # i /\ b # i
      <3>1. PICK k \in 1..Len(l) : k = (IF a < i THEN a ELSE a - 1) /\ t[a] = l[k]
        BY <1>3, <2>2
      <3>2. PICK m \in 1..Len(l) : m = (IF b < i THEN b ELSE b - 1) /\ t[b] = l[m]
        BY <1>3, <2>2
      <3>3. k = m
        <4>1. k \in DOMAIN l /\ m \in DOMAIN l
          OBVIOUS
        <4>2. l[k] = l[m]
          BY <3>1, <3>2, Zenon
        <4> QED
          BY <1>7, <4>1, <4>2 DEF IsInjective
      <3> QED
        BY <2>2, <3>1, <3>2, <3>3
    <2>3. t[i] = c
      BY <1>2
    <2> QED
      BY <2>1, <2>2, <2>3
  <1> QED
    BY <1>1, <1>4, <1>5, <1>6, <1>7 DEF t

LEMMA ClListIs ==
  ASSUME NEW S, NEW l \in Seq(S), IsInjective(l), NEW c \in S
  PROVE  /\ ClRemove(l, c) \in Seq(S) /\ IsInjective(ClRemove(l, c))
         /\ \A x : In(ClRemove(l, c), x) <=> In(l, x) /\ x # c
         /\ ClAppend(l, c) \in Seq(S) /\ IsInjective(ClAppend(l, c))
         /\ \A x : In(ClAppend(l, c), x) <=> In(l, x) \/ x = c
         /\ Position(l, c) \in Int
  <1>1. CASE In(l, c)
    <2>1. Position(l, c) \in 1..Len(l) /\ l[Position(l, c)] = c
      BY <1>1, PositionIs
    <2>2. ClRemove(l, c) = RemoveAt(l, Position(l, c)) /\ ClAppend(l, c) = l
      BY <1>1 DEF ClRemove, ClAppend
    <2>3. /\ ClRemove(l, c) \in Seq(S) /\ IsInjective(ClRemove(l, c))
          /\ \A x : In(ClRemove(l, c), x) <=> In(l, x) /\ x # c
      <3>1. PICK p \in 1..Len(l) : p = Position(l, c)
        BY <2>1
      <3>2. RemoveAt(l, p) \in Seq(S) /\ IsInjective(RemoveAt(l, p))
            /\ \A x : In(RemoveAt(l, p), x) <=> In(l, x) /\ x # l[p]
        BY RemovalIs
      <3> QED
        BY <2>1, <2>2, <3>1, <3>2
    <2> QED
      BY <1>1, <2>1, <2>2, <2>3
  <1>2. CASE ~In(l, c)
    <2>1. ClRemove(l, c) = l /\ ClAppend(l, c) = Append(l, c) /\ Position(l, c) = -1
      BY <1>2 DEF ClRemove, ClAppend, Position
    <2>2. PICK n \in Nat : n = Len(l) + 1
      OBVIOUS
    <2>3. n \in 1..(Len(l) + 1)
      BY <2>2
    <2>4. Append(l, c) \in Seq(S) /\ InsertAt(l, n, c) \in Seq(S)
          /\ IsInsertion(InsertAt(l, n, c), l, n, c)
      BY <2>3, InsertAtIs
    <2>5. Append(l, c) = InsertAt(l, n, c)
      BY <2>2, <2>4 DEF IsInsertion
    <2>6. /\ IsInjective(Append(l, c))
          /\ \A x : In(Append(l, c), x) <=> x = c \/ In(l, x)
      BY <1>2, <2>3, <2>5, InsertionIs
    <2> QED
      BY <1>2, <2>1, <2>4, <2>6
  <1> QED
    BY <1>1, <1>2

LEMMA ReattachedIs ==
  ASSUME NEW S, NEW l \in Seq(S), IsInjective(l), NEW c \in S, ~In(l, c), NEW pos \in Int
  PROVE  /\ Reattach(l, c, pos) \in Seq(S) /\ IsInjective(Reattach(l, c, pos))
         /\ \A x : In(Reattach(l, c, pos), x) <=> In(l, x) \/ x = c
  <1> DEFINE i == IF pos > Len(l) \/ pos <= 0 THEN Len(l) + 1 ELSE pos
             at == IF pos = 1 THEN 1 ELSE i
  <1>1. Reattach(l, c, pos) = InsertAt(l, at, c)
    BY ReattachIs
  <1>2. at \in 1..(Len(l) + 1)
    OBVIOUS
  <1> HIDE DEF at
  <1> QED
    BY <1>1, <1>2, InsertionIs

LEMMA SwappedIs ==
  ASSUME NEW S, NEW l \in Seq(S), IsInjective(l), NEW a \in S, NEW b \in S
  PROVE  /\ ClSwap(l, a, b) \in Seq(S) /\ IsInjective(ClSwap(l, a, b))
         /\ \A x : In(ClSwap(l, a, b), x) <=> In(l, x)
  <1>1. CASE ~(In(l, a) /\ In(l, b))
    BY <1>1 DEF ClSwap
  <1>2. CASE In(l, a) /\ In(l, b)
    <2> DEFINE t == [i \in DOMAIN l |-> IF l[i] = a THEN b ELSE IF l[i] = b THEN a ELSE l[i]]
    <2>1. ClSwap(l, a, b) = t
      BY <1>2 DEF ClSwap
    <2>2. /\ t \in Seq(S) /\ Len(t) = Len(l) /\ DOMAIN t = 1..Len(l) /\ DOMAIN l = 1..Len(l)
          /\ \A i \in 1..Len(l) : t[i] = IF l[i] = a THEN b ELSE IF l[i] = b THEN a ELSE l[i]
      OBVIOUS
    <2> HIDE DEF t
    <2>3. IsInjective(t)
      BY <2>2 DEF IsInjective
    <2>4. PICK i \in 1..Len(l) : l[i] = a
      BY <1>2, InOf
    <2>5. PICK j \in 1..Len(l) : l[j] = b
      BY <1>2, InOf
    <2>6. ASSUME NEW x, In(t, x) PROVE In(l, x)
      BY <1>2, <2>2, <2>6, InOf
    <2>7. ASSUME NEW x, In(l, x) PROVE In(t, x)
      <3>1. PICK k \in 1..Len(l) : l[k] = x
        BY <2>7, InOf
      <3>2. \E m \in 1..Len(l) : t[m] = x
        BY <2>2, <2>4, <2>5, <3>1
      <3> QED
        BY <2>2, <3>2 DEF In
    <2> QED
      BY <2>1, <2>2, <2>3, <2>6, <2>7
  <1> QED
    BY <1>1, <1>2

-----------------------------------------------------------------------------
(* The lists of records.                                                   *)

LEMMA MembersIs ==
  ASSUME NEW R, \A r \in R : r.of \in Clients, NEW l \in Seq(R)
  PROVE  /\ Members(l) \in Seq(Clients) /\ Len(Members(l)) = Len(l)
         /\ \A i \in 1..Len(l) : Members(l)[i] = l[i].of
         /\ \A c : In(Members(l), c) <=> Has(l, c)
         /\ \A c : Has(l, c) <=> \E e : In(l, e) /\ e.of = c
         /\ \A e : In(l, e) => e \in R
  <1>1. /\ Members(l) \in Seq(Clients) /\ Len(Members(l)) = Len(l)
        /\ \A i \in 1..Len(l) : Members(l)[i] = l[i].of
        /\ DOMAIN l = 1..Len(l) /\ DOMAIN Members(l) = 1..Len(l)
    BY DEF Members
  <1>2. \A c : In(Members(l), c) <=> Has(l, c)
    BY <1>1 DEF In, Has
  <1>3. \A c : Has(l, c) <=> \E e : In(l, e) /\ e.of = c
    BY <1>1 DEF In, Has
  <1>4. \A e : In(l, e) => e \in R
    BY <1>1 DEF In
  <1> QED
    BY <1>1, <1>2, <1>3, <1>4

LEMMA RecordPushed ==
  ASSUME NEW R, \A r \in R : r.of \in Clients, NEW l \in Seq(R), NEW rec \in R,
         IsInjective(Members(l)), ~Has(l, rec.of)
  PROVE  /\ <<rec>> \o l \in Seq(R) /\ IsInjective(Members(<<rec>> \o l))
         /\ \A e : In(<<rec>> \o l, e) <=> e = rec \/ In(l, e)
  <1>1. Members(l) \in Seq(Clients) /\ ~In(Members(l), rec.of) /\ rec.of \in Clients
    BY MembersIs
  <1>2. IsInjective(<<rec.of>> \o Members(l))
    BY <1>1, PushedIs
  <1>3. Members(<<rec>> \o l) = <<rec.of>> \o Members(l)
    <2> DEFINE x == <<rec>> \o l
               y == <<rec.of>> \o Members(l)
    <2>1. /\ x \in Seq(R) /\ Len(x) = Len(l) + 1 /\ x[1] = rec
          /\ \A i \in 1..Len(l) : x[i + 1] = l[i]
      OBVIOUS
    <2>2. /\ y \in Seq(Clients) /\ Len(y) = Len(l) + 1 /\ y[1] = rec.of
          /\ \A i \in 1..Len(l) : y[i + 1] = l[i].of
      <3>1. PICK a : a = Members(l)
        OBVIOUS
      <3>2. /\ a \in Seq(Clients) /\ Len(a) = Len(l)
            /\ \A i \in 1..Len(l) : a[i] = l[i].of
        BY <3>1, MembersIs
      <3>3. /\ <<rec.of>> \o a \in Seq(Clients) /\ Len(<<rec.of>> \o a) = Len(a) + 1
            /\ (<<rec.of>> \o a)[1] = rec.of
            /\ \A i \in 1..Len(a) : (<<rec.of>> \o a)[i + 1] = a[i]
        BY <1>1, <3>2
      <3> QED
        BY <3>1, <3>2, <3>3
    <2> HIDE DEF x, y
    <2>3. /\ Members(x) \in Seq(Clients) /\ Len(Members(x)) = Len(x)
          /\ \A i \in 1..Len(x) : Members(x)[i] = x[i].of
      BY <2>1, MembersIs
    <2>4. ASSUME NEW i \in 1..Len(x) PROVE Members(x)[i] = y[i]
      <3>1. CASE i = 1
        <4>1. 1 \in 1..Len(x) /\ x[1] = rec /\ y[1] = rec.of
          BY <2>1, <2>2
        <4>2. Members(x)[1] = x[1].of
          BY <2>3, <4>1
        <4> QED
          BY <3>1, <4>1, <4>2
      <3>2. CASE i # 1
        <4>1. i - 1 \in 1..Len(l) /\ (i - 1) + 1 = i
          BY <2>1, <3>2
        <4>2. PICK j \in 1..Len(l) : j + 1 = i
          BY <4>1
        <4>3. x[i] = l[j] /\ y[i] = l[j].of
          BY <2>1, <2>2, <4>2
        <4> QED
          BY <2>3, <4>3
      <3> QED
        BY <3>1, <3>2
    <2>5. Members(x) = y
      BY <2>1, <2>2, <2>3, <2>4, SeqEqual
    <2> QED
      BY <2>5 DEF x, y
  <1>4. <<rec>> \o l \in Seq(R) /\ \A e : In(<<rec>> \o l, e) <=> e = rec \/ In(l, e)
    BY PushedIs
  <1> QED
    BY <1>2, <1>3, <1>4

LEMMA RecordFound ==
  ASSUME NEW R, \A r \in R : r.of \in Clients, NEW l \in Seq(R),
         IsInjective(Members(l)), NEW e, In(l, e)
  PROVE  e \in R /\ Has(l, e.of) /\ RecordOf(l, e.of) = e
  <1>1. PICK i \in 1..Len(l) : l[i] = e
    BY InOf
  <1>2. /\ Members(l) \in Seq(Clients) /\ Len(Members(l)) = Len(l)
        /\ \A j \in 1..Len(l) : Members(l)[j] = l[j].of
        /\ Has(l, e.of) /\ In(Members(l), e.of) /\ e \in R
    BY MembersIs
  <1>3. PICK p : p = Position(Members(l), e.of)
    OBVIOUS
  <1>4. p \in 1..Len(l) /\ Members(l)[p] = e.of
    BY <1>2, <1>3, PositionIs
  <1>5. p = i
    BY <1>1, <1>2, <1>4 DEF IsInjective
  <1> QED
    BY <1>1, <1>2, <1>3, <1>5 DEF RecordOf

LEMMA RecordRemoved ==
  ASSUME NEW R, \A r \in R : r.of \in Clients, NEW l \in Seq(R),
         IsInjective(Members(l)), NEW c
  PROVE  /\ Without(l, c) \in Seq(R) /\ IsInjective(Members(Without(l, c)))
         /\ \A e : In(Without(l, c), e) <=> In(l, e) /\ e.of # c
  <1>1. CASE ~Has(l, c)
    BY <1>1, MembersIs DEF Without
  <1>2. CASE Has(l, c)
    <2>1. /\ Members(l) \in Seq(Clients) /\ Len(Members(l)) = Len(l)
          /\ \A j \in 1..Len(l) : Members(l)[j] = l[j].of
          /\ In(Members(l), c)
      BY <1>2, MembersIs
    <2>2. PICK p : p = Position(Members(l), c)
      OBVIOUS
    <2>3. p \in 1..Len(l) /\ Members(l)[p] = c
      BY <2>1, <2>2, PositionIs
    <2>4. PICK t : t = RemoveAt(l, p)
      OBVIOUS
    <2>5. Without(l, c) = t
      BY <1>2, <2>2, <2>4 DEF Without
    <2>6. IsInjective(l)
      BY <2>1 DEF IsInjective
    <2>7. /\ t \in Seq(R) /\ IsInjective(t) /\ \A x : In(t, x) <=> In(l, x) /\ x # l[p]
      BY <2>3, <2>4, <2>6, RemovalIs
    <2>8. \A e, f : In(l, e) /\ In(l, f) /\ e.of = f.of => e = f
      BY RecordFound
    <2>9. In(l, l[p]) /\ l[p].of = c
      BY <2>1, <2>3, InOf
    <2>10. \A e : In(t, e) <=> In(l, e) /\ e.of # c
      BY <2>7, <2>8, <2>9
    <2>11. IsInjective(Members(t))
      <3>1. /\ Members(t) \in Seq(Clients) /\ Len(Members(t)) = Len(t)
            /\ \A j \in 1..Len(t) : Members(t)[j] = t[j].of
        BY <2>7, MembersIs
      <3> SUFFICES ASSUME NEW a \in 1..Len(t), NEW b \in 1..Len(t), t[a].of = t[b].of
                   PROVE  a = b
        BY <3>1 DEF IsInjective
      <3>2. In(l, t[a]) /\ In(l, t[b])
        BY <2>7, InOf
      <3>3. t[a] = t[b]
        BY <2>8, <3>2
      <3> QED
        BY <2>7, <3>3 DEF IsInjective
    <2> QED
      BY <2>5, <2>7, <2>10, <2>11
  <1> QED
    BY <1>1, <1>2

-----------------------------------------------------------------------------
(* A state of the lists, and where a client is in it.                      *)

Flagsets == [float : BOOLEAN, mini : BOOLEAN, persistent : BOOLEAN]

Events == [what : V!Notices, of : Clients]

States == [current : Workspaces, client : [Clients -> V!Client],
           flags : [Clients -> Flagsets], lists : [Workspaces -> Monitor],
           queue : Seq(Events)]

(* No list holds a client twice.                                           *)
Once(m) == /\ IsInjective(m.cl) /\ IsInjective(Members(m.fl))
           /\ IsInjective(Members(m.ml)) /\ IsInjective(Members(m.ul))

Sound(s) == s \in States /\ \A w \in Workspaces : Once(s.lists[w])

(* e is in the list k of the workspace w: a client, or a record of one.    *)
At(s, k, w, e) ==
  /\ w \in Workspaces
  /\ \/ k = "cl" /\ In(s.lists[w].cl, e)
     \/ k = "fl" /\ In(s.lists[w].fl, e)
     \/ k = "ml" /\ In(s.lists[w].ml, e)
     \/ k = "ul" /\ In(s.lists[w].ul, e)

Who(k, e) == IF k = "cl" THEN e ELSE e.of

Lies(s, k, w, c) == \E e : At(s, k, w, e) /\ Who(k, e) = c

(* What an operation on the lists of w leaves alone, and what it does.     *)
SameElse(t, s) == t.current = s.current /\ t.client = s.client /\ t.queue = s.queue

Gains(t, s, k, w, e) ==
  \A k1, w1, e1 : At(t, k1, w1, e1) <=> At(s, k1, w1, e1) \/ (k1 = k /\ w1 = w /\ e1 = e)

Loses(t, s, k, w, c) ==
  \A k1, w1, e1 : At(t, k1, w1, e1) <=>
                    At(s, k1, w1, e1) /\ ~(k1 = k /\ w1 = w /\ Who(k1, e1) = c)

Flagged(t, s, c, f, m) ==
  /\ t.flags[c].float = f /\ t.flags[c].mini = m
  /\ t.flags[c].persistent = s.flags[c].persistent
  /\ \A d \in Clients : d # c => t.flags[d] = s.flags[d]

LEMMA RecordTypes ==
  /\ \A r \in Detached : r.of \in Clients /\ r.pos \in Int
  /\ \A r \in Minimized : r.of \in Clients /\ r.pos \in Int /\ r.origin \in Origins
  /\ \A r \in Unmapped : /\ r.of \in Clients /\ r.pos \in Int /\ r.origin \in Origins
                         /\ r.before \in Origins /\ r.stay \in BOOLEAN
  BY DEF Detached, Minimized, Unmapped

LEMMA SoundIs ==
  ASSUME NEW s, Sound(s), NEW w \in Workspaces
  PROVE  /\ s.lists[w].cl \in Seq(Clients) /\ IsInjective(s.lists[w].cl)
         /\ s.lists[w].fl \in Seq(Detached) /\ IsInjective(Members(s.lists[w].fl))
         /\ s.lists[w].ml \in Seq(Minimized) /\ IsInjective(Members(s.lists[w].ml))
         /\ s.lists[w].ul \in Seq(Unmapped) /\ IsInjective(Members(s.lists[w].ul))
  BY DEF Sound, States, Once, Monitor

LEMMA AtIs ==
  ASSUME NEW s, Sound(s), NEW k, NEW w, NEW e, At(s, k, w, e)
  PROVE  /\ k \in {"cl", "fl", "ml", "ul"} /\ w \in Workspaces /\ Who(k, e) \in Clients
         /\ k = "cl" => e \in Clients
         /\ k = "fl" => e \in Detached
         /\ k = "ml" => e \in Minimized
         /\ k = "ul" => e \in Unmapped
         /\ \A f : At(s, k, w, f) /\ Who(k, f) = Who(k, e) => f = e
  <1>1. k \in {"cl", "fl", "ml", "ul"} /\ w \in Workspaces
    BY DEF At
  <1>2. CASE k = "cl"
    <2>1. In(s.lists[w].cl, e)
      BY <1>2 DEF At
    <2> QED
      BY <1>1, <1>2, <2>1, SoundIs, InOf DEF Who
  <1>3. CASE k = "fl"
    <2>1. \A f : At(s, k, w, f) => In(s.lists[w].fl, f)
      BY <1>3 DEF At
    <2>2. \A f : At(s, k, w, f) => f \in Detached /\ RecordOf(s.lists[w].fl, f.of) = f
      BY <1>1, <2>1, SoundIs, RecordFound, RecordTypes
    <2> QED
      BY <1>1, <1>3, <2>2, RecordTypes DEF Who
  <1>4. CASE k = "ml"
    <2>1. \A f : At(s, k, w, f) => In(s.lists[w].ml, f)
      BY <1>4 DEF At
    <2>2. \A f : At(s, k, w, f) => f \in Minimized /\ RecordOf(s.lists[w].ml, f.of) = f
      BY <1>1, <2>1, SoundIs, RecordFound, RecordTypes
    <2> QED
      BY <1>1, <1>4, <2>2, RecordTypes DEF Who
  <1>5. CASE k = "ul"
    <2>1. \A f : At(s, k, w, f) => In(s.lists[w].ul, f)
      BY <1>5 DEF At
    <2>2. \A f : At(s, k, w, f) => f \in Unmapped /\ RecordOf(s.lists[w].ul, f.of) = f
      BY <1>1, <2>1, SoundIs, RecordFound, RecordTypes
    <2> QED
      BY <1>1, <1>5, <2>2, RecordTypes DEF Who
  <1> QED
    BY <1>1, <1>2, <1>3, <1>4, <1>5

(* How the code asks where a client is.                                    *)
LEMMA LiesIs ==
  ASSUME NEW s, Sound(s), NEW w \in Workspaces, NEW c
  PROVE  /\ In(s.lists[w].cl, c) <=> Lies(s, "cl", w, c)
         /\ In(s.lists[w].cl, c) <=> At(s, "cl", w, c)
         /\ Has(s.lists[w].fl, c) <=> Lies(s, "fl", w, c)
         /\ Has(s.lists[w].ml, c) <=> Lies(s, "ml", w, c)
         /\ Has(s.lists[w].ul, c) <=> Lies(s, "ul", w, c)
         /\ \A e : At(s, "fl", w, e) /\ e.of = c => RecordOf(s.lists[w].fl, c) = e
         /\ \A e : At(s, "ml", w, e) /\ e.of = c => RecordOf(s.lists[w].ml, c) = e
         /\ \A e : At(s, "ul", w, e) /\ e.of = c => RecordOf(s.lists[w].ul, c) = e
  <1>1. In(s.lists[w].cl, c) <=> Lies(s, "cl", w, c)
    BY DEF Lies, At, Who
  <1>2. /\ Has(s.lists[w].fl, c) <=> \E e : In(s.lists[w].fl, e) /\ e.of = c
        /\ Has(s.lists[w].ml, c) <=> \E e : In(s.lists[w].ml, e) /\ e.of = c
        /\ Has(s.lists[w].ul, c) <=> \E e : In(s.lists[w].ul, e) /\ e.of = c
    <2>1. /\ s.lists[w].fl \in Seq(Detached) /\ s.lists[w].ml \in Seq(Minimized)
          /\ s.lists[w].ul \in Seq(Unmapped)
      BY SoundIs
    <2>2. Has(s.lists[w].fl, c) <=> \E e : In(s.lists[w].fl, e) /\ e.of = c
      BY <2>1, RecordTypes, MembersIs
    <2>3. Has(s.lists[w].ml, c) <=> \E e : In(s.lists[w].ml, e) /\ e.of = c
      BY <2>1, RecordTypes, MembersIs
    <2>4. Has(s.lists[w].ul, c) <=> \E e : In(s.lists[w].ul, e) /\ e.of = c
      BY <2>1, RecordTypes, MembersIs
    <2> QED
      BY <2>2, <2>3, <2>4
  <1>3. /\ \A e : In(s.lists[w].fl, e) /\ e.of = c => RecordOf(s.lists[w].fl, c) = e
        /\ \A e : In(s.lists[w].ml, e) /\ e.of = c => RecordOf(s.lists[w].ml, c) = e
        /\ \A e : In(s.lists[w].ul, e) /\ e.of = c => RecordOf(s.lists[w].ul, c) = e
    <2>1. /\ s.lists[w].fl \in Seq(Detached) /\ IsInjective(Members(s.lists[w].fl))
          /\ s.lists[w].ml \in Seq(Minimized) /\ IsInjective(Members(s.lists[w].ml))
          /\ s.lists[w].ul \in Seq(Unmapped) /\ IsInjective(Members(s.lists[w].ul))
      BY SoundIs
    <2>2. \A e : In(s.lists[w].fl, e) /\ e.of = c => RecordOf(s.lists[w].fl, c) = e
      BY <2>1, RecordTypes, RecordFound
    <2>3. \A e : In(s.lists[w].ml, e) /\ e.of = c => RecordOf(s.lists[w].ml, c) = e
      BY <2>1, RecordTypes, RecordFound
    <2>4. \A e : In(s.lists[w].ul, e) /\ e.of = c => RecordOf(s.lists[w].ul, c) = e
      BY <2>1, RecordTypes, RecordFound
    <2> QED
      BY <2>2, <2>3, <2>4
  <1> QED
    BY <1>1, <1>2, <1>3 DEF Lies, At, Who

-----------------------------------------------------------------------------
(* The assignments.                                                        *)

WithCl(s, w, l) == [s EXCEPT !.lists[w].cl = l]
WithUl(s, w, l) == [s EXCEPT !.lists[w].ul = l]
WithFl(s, w, l, c, b) == [s EXCEPT !.lists[w].fl = l, !.flags[c].float = b]
WithMl(s, w, l, c, b) == [s EXCEPT !.lists[w].ml = l, !.flags[c].mini = b]

LEMMA ClSet ==
  ASSUME NEW s \in States, NEW w \in Workspaces, NEW l \in Seq(Clients),
         NEW t, t = WithCl(s, w, l)
  PROVE  /\ t \in States /\ SameElse(t, s) /\ t.flags = s.flags
         /\ \A v \in Workspaces : v # w => t.lists[v] = s.lists[v]
         /\ t.lists[w].cl = l /\ t.lists[w].fl = s.lists[w].fl
         /\ t.lists[w].ml = s.lists[w].ml /\ t.lists[w].ul = s.lists[w].ul
  BY DEF WithCl, States, Monitor, SameElse

LEMMA UlSet ==
  ASSUME NEW s \in States, NEW w \in Workspaces, NEW l \in Seq(Unmapped),
         NEW t, t = WithUl(s, w, l)
  PROVE  /\ t \in States /\ SameElse(t, s) /\ t.flags = s.flags
         /\ \A v \in Workspaces : v # w => t.lists[v] = s.lists[v]
         /\ t.lists[w].cl = s.lists[w].cl /\ t.lists[w].fl = s.lists[w].fl
         /\ t.lists[w].ml = s.lists[w].ml /\ t.lists[w].ul = l
  BY DEF WithUl, States, Monitor, SameElse

LEMMA FlSet ==
  ASSUME NEW s \in States, NEW w \in Workspaces, NEW l \in Seq(Detached),
         NEW c \in Clients, NEW b \in BOOLEAN,
         NEW t, t = WithFl(s, w, l, c, b)
  PROVE  /\ t \in States /\ SameElse(t, s) /\ Flagged(t, s, c, b, s.flags[c].mini)
         /\ \A v \in Workspaces : v # w => t.lists[v] = s.lists[v]
         /\ t.lists[w].cl = s.lists[w].cl /\ t.lists[w].fl = l
         /\ t.lists[w].ml = s.lists[w].ml /\ t.lists[w].ul = s.lists[w].ul
  BY ZenonT(60) DEF WithFl, States, Monitor, SameElse, Flagged, Flagsets

LEMMA MlSet ==
  ASSUME NEW s \in States, NEW w \in Workspaces, NEW l \in Seq(Minimized),
         NEW c \in Clients, NEW b \in BOOLEAN,
         NEW t, t = WithMl(s, w, l, c, b)
  PROVE  /\ t \in States /\ SameElse(t, s) /\ Flagged(t, s, c, s.flags[c].float, b)
         /\ \A v \in Workspaces : v # w => t.lists[v] = s.lists[v]
         /\ t.lists[w].cl = s.lists[w].cl /\ t.lists[w].fl = s.lists[w].fl
         /\ t.lists[w].ml = l /\ t.lists[w].ul = s.lists[w].ul
  BY ZenonT(60) DEF WithMl, States, Monitor, SameElse, Flagged, Flagsets

(* What is where, when one list of one workspace is another.               *)
LEMMA SoundWhen ==
  ASSUME NEW s, Sound(s), NEW t \in States, NEW w \in Workspaces,
         \A v \in Workspaces : v # w => t.lists[v] = s.lists[v],
         IsInjective(t.lists[w].cl), IsInjective(Members(t.lists[w].fl)),
         IsInjective(Members(t.lists[w].ml)), IsInjective(Members(t.lists[w].ul))
  PROVE  Sound(t)
  BY DEF Sound, Once

LEMMA ClUpdated ==
  ASSUME NEW s, Sound(s), NEW w \in Workspaces, NEW l \in Seq(Clients), IsInjective(l),
         NEW t, t = WithCl(s, w, l)
  PROVE  /\ Sound(t) /\ SameElse(t, s) /\ t.flags = s.flags
         /\ \A k1, w1, e1 : At(t, k1, w1, e1) <=>
              IF k1 = "cl" /\ w1 = w THEN In(l, e1) ELSE At(s, k1, w1, e1)
  <1>1. /\ t \in States /\ SameElse(t, s) /\ t.flags = s.flags
        /\ \A v \in Workspaces : v # w => t.lists[v] = s.lists[v]
        /\ t.lists[w].cl = l /\ t.lists[w].fl = s.lists[w].fl
        /\ t.lists[w].ml = s.lists[w].ml /\ t.lists[w].ul = s.lists[w].ul
    BY ClSet DEF Sound
  <1>2. Sound(t)
    BY <1>1, SoundIs, SoundWhen
  <1>3. ASSUME NEW k1, NEW w1, NEW e1
        PROVE  At(t, k1, w1, e1) <=>
                 IF k1 = "cl" /\ w1 = w THEN In(l, e1) ELSE At(s, k1, w1, e1)
    BY <1>1 DEF At
  <1> QED
    BY <1>1, <1>2, <1>3

LEMMA UlUpdated ==
  ASSUME NEW s, Sound(s), NEW w \in Workspaces, NEW l \in Seq(Unmapped), IsInjective(Members(l)),
         NEW t, t = WithUl(s, w, l)
  PROVE  /\ Sound(t) /\ SameElse(t, s) /\ t.flags = s.flags
         /\ \A k1, w1, e1 : At(t, k1, w1, e1) <=>
              IF k1 = "ul" /\ w1 = w THEN In(l, e1) ELSE At(s, k1, w1, e1)
  <1>1. /\ t \in States /\ SameElse(t, s) /\ t.flags = s.flags
        /\ \A v \in Workspaces : v # w => t.lists[v] = s.lists[v]
        /\ t.lists[w].cl = s.lists[w].cl /\ t.lists[w].fl = s.lists[w].fl
        /\ t.lists[w].ml = s.lists[w].ml /\ t.lists[w].ul = l
    BY UlSet DEF Sound
  <1>2. Sound(t)
    BY <1>1, SoundIs, SoundWhen
  <1>3. ASSUME NEW k1, NEW w1, NEW e1
        PROVE  At(t, k1, w1, e1) <=>
                 IF k1 = "ul" /\ w1 = w THEN In(l, e1) ELSE At(s, k1, w1, e1)
    BY <1>1 DEF At
  <1> QED
    BY <1>1, <1>2, <1>3

LEMMA FlUpdated ==
  ASSUME NEW s, Sound(s), NEW w \in Workspaces, NEW l \in Seq(Detached), IsInjective(Members(l)),
         NEW c \in Clients, NEW b \in BOOLEAN,
         NEW t, t = WithFl(s, w, l, c, b)
  PROVE  /\ Sound(t) /\ SameElse(t, s) /\ Flagged(t, s, c, b, s.flags[c].mini)
         /\ \A k1, w1, e1 : At(t, k1, w1, e1) <=>
              IF k1 = "fl" /\ w1 = w THEN In(l, e1) ELSE At(s, k1, w1, e1)
  <1>1. /\ t \in States /\ SameElse(t, s) /\ Flagged(t, s, c, b, s.flags[c].mini)
        /\ \A v \in Workspaces : v # w => t.lists[v] = s.lists[v]
        /\ t.lists[w].cl = s.lists[w].cl /\ t.lists[w].fl = l
        /\ t.lists[w].ml = s.lists[w].ml /\ t.lists[w].ul = s.lists[w].ul
    BY FlSet DEF Sound
  <1>2. Sound(t)
    BY <1>1, SoundIs, SoundWhen
  <1>3. ASSUME NEW k1, NEW w1, NEW e1
        PROVE  At(t, k1, w1, e1) <=>
                 IF k1 = "fl" /\ w1 = w THEN In(l, e1) ELSE At(s, k1, w1, e1)
    BY <1>1 DEF At
  <1> QED
    BY <1>1, <1>2, <1>3

LEMMA MlUpdated ==
  ASSUME NEW s, Sound(s), NEW w \in Workspaces, NEW l \in Seq(Minimized), IsInjective(Members(l)),
         NEW c \in Clients, NEW b \in BOOLEAN,
         NEW t, t = WithMl(s, w, l, c, b)
  PROVE  /\ Sound(t) /\ SameElse(t, s) /\ Flagged(t, s, c, s.flags[c].float, b)
         /\ \A k1, w1, e1 : At(t, k1, w1, e1) <=>
              IF k1 = "ml" /\ w1 = w THEN In(l, e1) ELSE At(s, k1, w1, e1)
  <1>1. /\ t \in States /\ SameElse(t, s) /\ Flagged(t, s, c, s.flags[c].float, b)
        /\ \A v \in Workspaces : v # w => t.lists[v] = s.lists[v]
        /\ t.lists[w].cl = s.lists[w].cl /\ t.lists[w].fl = s.lists[w].fl
        /\ t.lists[w].ml = l /\ t.lists[w].ul = s.lists[w].ul
    BY MlSet DEF Sound
  <1>2. Sound(t)
    BY <1>1, SoundIs, SoundWhen
  <1>3. ASSUME NEW k1, NEW w1, NEW e1
        PROVE  At(t, k1, w1, e1) <=>
                 IF k1 = "ml" /\ w1 = w THEN In(l, e1) ELSE At(s, k1, w1, e1)
    BY <1>1 DEF At
  <1> QED
    BY <1>1, <1>2, <1>3

ClTake(s, w, c) == [s EXCEPT !.lists[w].cl = ClRemove(@, c)]
ClAdd(s, w, c)  == [s EXCEPT !.lists[w].cl = ClAppend(@, c)]
UlTake(s, w, c) == [s EXCEPT !.lists[w].ul = Without(@, c)]
ClReattach(s, w, c, pos) == [s EXCEPT !.lists[w].cl = Reattach(@, c, pos)]

LEMMA AreWith ==
  ASSUME NEW s \in States, NEW w \in Workspaces
  PROVE  /\ \A c : ClTake(s, w, c) = WithCl(s, w, ClRemove(s.lists[w].cl, c))
         /\ \A c : UlTake(s, w, c) = WithUl(s, w, Without(s.lists[w].ul, c))
         /\ \A c : ClAdd(s, w, c) = WithCl(s, w, ClAppend(s.lists[w].cl, c))
         /\ \A c, pos : ClReattach(s, w, c, pos) =
                          WithCl(s, w, Reattach(s.lists[w].cl, c, pos))
         /\ \A rec : UlPush(s, w, rec) = WithUl(s, w, <<rec>> \o s.lists[w].ul)
         /\ \A rec : \A b \in BOOLEAN : b => FlPush(s, w, rec) =
                                 WithFl(s, w, <<rec>> \o s.lists[w].fl, rec.of, b)
         /\ \A rec : \A b \in BOOLEAN : b => MlPush(s, w, rec) =
                                 WithMl(s, w, <<rec>> \o s.lists[w].ml, rec.of, b)
         /\ \A c : \A b \in BOOLEAN : ~b /\ Has(s.lists[w].fl, c) => FlRemove(s, w, c) =
                                 WithFl(s, w, Without(s.lists[w].fl, c), c, b)
         /\ \A c : \A b \in BOOLEAN : ~b /\ Has(s.lists[w].ml, c) => MlRemove(s, w, c) =
                                 WithMl(s, w, Without(s.lists[w].ml, c), c, b)
  <1>1. \A c : ClTake(s, w, c) = WithCl(s, w, ClRemove(s.lists[w].cl, c))
    BY DEF ClTake, WithCl
  <1>2. \A c : UlTake(s, w, c) = WithUl(s, w, Without(s.lists[w].ul, c))
    BY DEF UlTake, WithUl
  <1>3. \A c : ClAdd(s, w, c) = WithCl(s, w, ClAppend(s.lists[w].cl, c))
    BY DEF ClAdd, WithCl
  <1>4. \A c, pos : ClReattach(s, w, c, pos) = WithCl(s, w, Reattach(s.lists[w].cl, c, pos))
    BY DEF ClReattach, WithCl
  <1>5. \A rec : UlPush(s, w, rec) = WithUl(s, w, <<rec>> \o s.lists[w].ul)
    BY DEF UlPush, WithUl
  <1>6. \A rec : \A b \in BOOLEAN : b => FlPush(s, w, rec) =
                                 WithFl(s, w, <<rec>> \o s.lists[w].fl, rec.of, b)
    <2> SUFFICES ASSUME NEW rec, NEW b \in BOOLEAN, b = TRUE
                 PROVE  FlPush(s, w, rec) = WithFl(s, w, <<rec>> \o s.lists[w].fl, rec.of, b)
      OBVIOUS
    <2> QED
      BY DEF FlPush, WithFl
  <1>7. \A rec : \A b \in BOOLEAN : b => MlPush(s, w, rec) =
                                 WithMl(s, w, <<rec>> \o s.lists[w].ml, rec.of, b)
    <2> SUFFICES ASSUME NEW rec, NEW b \in BOOLEAN, b = TRUE
                 PROVE  MlPush(s, w, rec) = WithMl(s, w, <<rec>> \o s.lists[w].ml, rec.of, b)
      OBVIOUS
    <2> QED
      BY DEF MlPush, WithMl
  <1>8. \A c : \A b \in BOOLEAN : ~b /\ Has(s.lists[w].fl, c) => FlRemove(s, w, c) =
                                 WithFl(s, w, Without(s.lists[w].fl, c), c, b)
    <2> SUFFICES ASSUME NEW c, NEW b \in BOOLEAN, b = FALSE, Has(s.lists[w].fl, c)
                 PROVE  FlRemove(s, w, c) = WithFl(s, w, Without(s.lists[w].fl, c), c, b)
      OBVIOUS
    <2> QED
      BY DEF FlRemove, WithFl
  <1>9. \A c : \A b \in BOOLEAN : ~b /\ Has(s.lists[w].ml, c) => MlRemove(s, w, c) =
                                 WithMl(s, w, Without(s.lists[w].ml, c), c, b)
    <2> SUFFICES ASSUME NEW c, NEW b \in BOOLEAN, b = FALSE, Has(s.lists[w].ml, c)
                 PROVE  MlRemove(s, w, c) = WithMl(s, w, Without(s.lists[w].ml, c), c, b)
      OBVIOUS
    <2> QED
      BY DEF MlRemove, WithMl
  <1> QED
    BY <1>1, <1>2, <1>3, <1>4, <1>5, <1>6, <1>7, <1>8, <1>9

(* A list operation, as what it does to where the clients are.             *)
LEMMA ClTaken ==
  ASSUME NEW s, Sound(s), NEW w \in Workspaces, NEW c \in Clients,
         NEW t, t = ClTake(s, w, c)
  PROVE  Sound(t) /\ SameElse(t, s) /\ t.flags = s.flags /\ Loses(t, s, "cl", w, c)
  <1>1. PICK a : a = s.lists[w].cl
    OBVIOUS
  <1>2. a \in Seq(Clients) /\ IsInjective(a) /\ s \in States
    BY <1>1, SoundIs DEF Sound
  <1>3. PICK l : l = ClRemove(a, c)
    OBVIOUS
  <1>4. l \in Seq(Clients) /\ IsInjective(l) /\ \A x : In(l, x) <=> In(a, x) /\ x # c
    BY <1>2, <1>3, ClListIs
  <1>5. t = WithCl(s, w, l)
    BY <1>1, <1>2, <1>3, AreWith
  <1>6. /\ Sound(t) /\ SameElse(t, s) /\ t.flags = s.flags
        /\ \A k1, w1, e1 : At(t, k1, w1, e1) <=>
             IF k1 = "cl" /\ w1 = w THEN In(l, e1) ELSE At(s, k1, w1, e1)
    BY <1>4, <1>5, ClUpdated
  <1>7. \A e1 : At(s, "cl", w, e1) <=> In(a, e1)
    BY <1>1 DEF At
  <1> QED
    BY <1>4, <1>6, <1>7 DEF Loses, Who

LEMMA ClPut ==
  ASSUME NEW s, Sound(s), NEW w \in Workspaces, NEW c \in Clients, NEW t,
         \/ t = ClAdd(s, w, c)
         \/ ~Lies(s, "cl", w, c) /\ \E pos \in Int : t = ClReattach(s, w, c, pos)
  PROVE  Sound(t) /\ SameElse(t, s) /\ t.flags = s.flags /\ Gains(t, s, "cl", w, c)
  <1>1. PICK a : a = s.lists[w].cl
    OBVIOUS
  <1>2. a \in Seq(Clients) /\ IsInjective(a) /\ s \in States
    BY <1>1, SoundIs DEF Sound
  <1>3. PICK l : /\ l \in Seq(Clients) /\ IsInjective(l) /\ t = WithCl(s, w, l)
                 /\ \A x : In(l, x) <=> In(a, x) \/ x = c
    <2>1. CASE t = ClAdd(s, w, c)
      <3>1. t = WithCl(s, w, ClAppend(a, c))
        BY <1>1, <1>2, <2>1, AreWith
      <3> QED
        BY <1>2, <3>1, ClListIs
    <2>2. CASE ~Lies(s, "cl", w, c) /\ \E pos \in Int : t = ClReattach(s, w, c, pos)
      <3>1. PICK pos \in Int : t = ClReattach(s, w, c, pos)
        BY <2>2
      <3>2. t = WithCl(s, w, Reattach(a, c, pos))
        BY <1>1, <1>2, <3>1, AreWith
      <3>3. ~In(a, c)
        BY <1>1, <2>2, LiesIs
      <3> QED
        BY <1>2, <3>2, <3>3, ReattachedIs
    <2> QED
      BY <2>1, <2>2
  <1>4. /\ Sound(t) /\ SameElse(t, s) /\ t.flags = s.flags
        /\ \A k1, w1, e1 : At(t, k1, w1, e1) <=>
             IF k1 = "cl" /\ w1 = w THEN In(l, e1) ELSE At(s, k1, w1, e1)
    BY <1>3, ClUpdated
  <1>5. \A e1 : At(s, "cl", w, e1) <=> In(a, e1)
    BY <1>1 DEF At
  <1> QED
    BY <1>3, <1>4, <1>5 DEF Gains

LEMMA UlPushed ==
  ASSUME NEW s, Sound(s), NEW w \in Workspaces, NEW rec \in Unmapped, ~Lies(s, "ul", w, rec.of),
         NEW t, t = UlPush(s, w, rec)
  PROVE  /\ Sound(t) /\ SameElse(t, s) /\ Gains(t, s, "ul", w, rec)
         /\ t.flags = s.flags
  <1>1. PICK a : a = s.lists[w].ul
    OBVIOUS
  <1>2. a \in Seq(Unmapped) /\ IsInjective(Members(a)) /\ s \in States /\ ~Has(a, rec.of)
    BY <1>1, SoundIs, LiesIs DEF Sound
  <1>3. PICK l : l = <<rec>> \o a
    OBVIOUS
  <1>4. /\ l \in Seq(Unmapped) /\ IsInjective(Members(l)) /\ rec.of \in Clients
        /\ \A e : In(l, e) <=> e = rec \/ In(a, e)
    BY <1>2, <1>3, RecordTypes, RecordPushed
  <1>5. t = WithUl(s, w, l)
    BY <1>1, <1>2, <1>3, AreWith
  <1>6. /\ Sound(t) /\ SameElse(t, s) /\ t.flags = s.flags
        /\ \A k1, w1, e1 : At(t, k1, w1, e1) <=>
             IF k1 = "ul" /\ w1 = w THEN In(l, e1) ELSE At(s, k1, w1, e1)
    BY <1>4, <1>5, UlUpdated
  <1>7. \A e1 : At(s, "ul", w, e1) <=> In(a, e1)
    BY <1>1 DEF At
  <1>8. Gains(t, s, "ul", w, rec)
    BY <1>4, <1>6, <1>7 DEF Gains
  <1> QED
    BY <1>6, <1>8

LEMMA UlTaken ==
  ASSUME NEW s, Sound(s), NEW w \in Workspaces, NEW c \in Clients, NEW t, t = UlTake(s, w, c)
  PROVE  Sound(t) /\ SameElse(t, s) /\ t.flags = s.flags /\ Loses(t, s, "ul", w, c)
  <1>1. PICK a : a = s.lists[w].ul
    OBVIOUS
  <1>2. a \in Seq(Unmapped) /\ IsInjective(Members(a)) /\ s \in States
    BY <1>1, SoundIs DEF Sound
  <1>3. PICK l : l = Without(a, c)
    OBVIOUS
  <1>4. /\ l \in Seq(Unmapped) /\ IsInjective(Members(l))
        /\ \A e : In(l, e) <=> In(a, e) /\ e.of # c
    BY <1>2, <1>3, RecordTypes, RecordRemoved
  <1>5. t = WithUl(s, w, l)
    BY <1>1, <1>2, <1>3, AreWith
  <1>6. /\ Sound(t) /\ SameElse(t, s) /\ t.flags = s.flags
        /\ \A k1, w1, e1 : At(t, k1, w1, e1) <=>
             IF k1 = "ul" /\ w1 = w THEN In(l, e1) ELSE At(s, k1, w1, e1)
    BY <1>4, <1>5, UlUpdated
  <1>7. \A e1 : At(s, "ul", w, e1) <=> In(a, e1)
    BY <1>1 DEF At
  <1> QED
    BY <1>4, <1>6, <1>7 DEF Loses, Who

LEMMA FlPushed ==
  ASSUME NEW s, Sound(s), NEW w \in Workspaces, NEW rec \in Detached, ~Lies(s, "fl", w, rec.of),
         NEW t, t = FlPush(s, w, rec)
  PROVE  /\ Sound(t) /\ SameElse(t, s) /\ Gains(t, s, "fl", w, rec)
         /\ Flagged(t, s, rec.of, TRUE, s.flags[rec.of].mini)
  <1>0. PICK b \in BOOLEAN : b = TRUE
    OBVIOUS
  <1>1. PICK a : a = s.lists[w].fl
    OBVIOUS
  <1>2. a \in Seq(Detached) /\ IsInjective(Members(a)) /\ s \in States /\ ~Has(a, rec.of)
    BY <1>1, SoundIs, LiesIs DEF Sound
  <1>3. PICK l : l = <<rec>> \o a
    OBVIOUS
  <1>4. /\ l \in Seq(Detached) /\ IsInjective(Members(l)) /\ rec.of \in Clients
        /\ \A e : In(l, e) <=> e = rec \/ In(a, e)
    BY <1>2, <1>3, RecordTypes, RecordPushed
  <1>5. t = WithFl(s, w, l, rec.of, b)
    BY <1>0, <1>1, <1>2, <1>3, AreWith
  <1>6. /\ Sound(t) /\ SameElse(t, s) /\ Flagged(t, s, rec.of, b, s.flags[rec.of].mini)
        /\ \A k1, w1, e1 : At(t, k1, w1, e1) <=>
             IF k1 = "fl" /\ w1 = w THEN In(l, e1) ELSE At(s, k1, w1, e1)
    BY <1>4, <1>5, FlUpdated
  <1>7. \A e1 : At(s, "fl", w, e1) <=> In(a, e1)
    BY <1>1 DEF At
  <1>8. Gains(t, s, "fl", w, rec)
    BY <1>4, <1>6, <1>7 DEF Gains
  <1> QED
    BY <1>0, <1>6, <1>8

LEMMA FlTaken ==
  ASSUME NEW s, Sound(s), NEW w \in Workspaces, NEW c \in Clients, NEW t, t = FlRemove(s, w, c)
  PROVE  /\ Sound(t) /\ SameElse(t, s) /\ Loses(t, s, "fl", w, c)
         /\ Lies(s, "fl", w, c) => Flagged(t, s, c, FALSE, s.flags[c].mini)
         /\ ~Lies(s, "fl", w, c) => t = s
  <1>1. PICK a : a = s.lists[w].fl
    OBVIOUS
  <1>2. /\ a \in Seq(Detached) /\ IsInjective(Members(a)) /\ s \in States
        /\ Has(a, c) <=> Lies(s, "fl", w, c)
    BY <1>1, SoundIs, LiesIs DEF Sound
  <1>3. CASE ~Has(a, c)
    <2>1. t = s
      BY <1>1, <1>3 DEF FlRemove
    <2> QED
      BY <1>2, <1>3, <2>1 DEF SameElse, Loses, Lies
  <1>4. CASE Has(a, c)
    <2>1. PICK b \in BOOLEAN : b = FALSE
      OBVIOUS
    <2>2. PICK l : l = Without(a, c)
      OBVIOUS
    <2>3. /\ l \in Seq(Detached) /\ IsInjective(Members(l))
          /\ \A e : In(l, e) <=> In(a, e) /\ e.of # c
      BY <1>2, <2>2, RecordTypes, RecordRemoved
    <2>4. t = WithFl(s, w, l, c, b)
      BY <1>1, <1>2, <1>4, <2>1, <2>2, AreWith
    <2>5. /\ Sound(t) /\ SameElse(t, s) /\ Flagged(t, s, c, b, s.flags[c].mini)
          /\ \A k1, w1, e1 : At(t, k1, w1, e1) <=>
               IF k1 = "fl" /\ w1 = w THEN In(l, e1) ELSE At(s, k1, w1, e1)
      BY <2>3, <2>4, FlUpdated
    <2>6. \A e1 : At(s, "fl", w, e1) <=> In(a, e1)
      BY <1>1 DEF At
    <2>7. Loses(t, s, "fl", w, c)
      BY <2>3, <2>5, <2>6 DEF Loses, Who
    <2> QED
      BY <1>2, <1>4, <2>1, <2>5, <2>7
  <1> QED
    BY <1>3, <1>4

LEMMA MlPushed ==
  ASSUME NEW s, Sound(s), NEW w \in Workspaces, NEW rec \in Minimized, ~Lies(s, "ml", w, rec.of),
         NEW t, t = MlPush(s, w, rec)
  PROVE  /\ Sound(t) /\ SameElse(t, s) /\ Gains(t, s, "ml", w, rec)
         /\ Flagged(t, s, rec.of, s.flags[rec.of].float, TRUE)
  <1>0. PICK b \in BOOLEAN : b = TRUE
    OBVIOUS
  <1>1. PICK a : a = s.lists[w].ml
    OBVIOUS
  <1>2. a \in Seq(Minimized) /\ IsInjective(Members(a)) /\ s \in States /\ ~Has(a, rec.of)
    BY <1>1, SoundIs, LiesIs DEF Sound
  <1>3. PICK l : l = <<rec>> \o a
    OBVIOUS
  <1>4. /\ l \in Seq(Minimized) /\ IsInjective(Members(l)) /\ rec.of \in Clients
        /\ \A e : In(l, e) <=> e = rec \/ In(a, e)
    BY <1>2, <1>3, RecordTypes, RecordPushed
  <1>5. t = WithMl(s, w, l, rec.of, b)
    BY <1>0, <1>1, <1>2, <1>3, AreWith
  <1>6. /\ Sound(t) /\ SameElse(t, s) /\ Flagged(t, s, rec.of, s.flags[rec.of].float, b)
        /\ \A k1, w1, e1 : At(t, k1, w1, e1) <=>
             IF k1 = "ml" /\ w1 = w THEN In(l, e1) ELSE At(s, k1, w1, e1)
    BY <1>4, <1>5, MlUpdated
  <1>7. \A e1 : At(s, "ml", w, e1) <=> In(a, e1)
    BY <1>1 DEF At
  <1>8. Gains(t, s, "ml", w, rec)
    BY <1>4, <1>6, <1>7 DEF Gains
  <1> QED
    BY <1>0, <1>6, <1>8

LEMMA MlTaken ==
  ASSUME NEW s, Sound(s), NEW w \in Workspaces, NEW c \in Clients, NEW t, t = MlRemove(s, w, c)
  PROVE  /\ Sound(t) /\ SameElse(t, s) /\ Loses(t, s, "ml", w, c)
         /\ Lies(s, "ml", w, c) => Flagged(t, s, c, s.flags[c].float, FALSE)
         /\ ~Lies(s, "ml", w, c) => t = s
  <1>1. PICK a : a = s.lists[w].ml
    OBVIOUS
  <1>2. /\ a \in Seq(Minimized) /\ IsInjective(Members(a)) /\ s \in States
        /\ Has(a, c) <=> Lies(s, "ml", w, c)
    BY <1>1, SoundIs, LiesIs DEF Sound
  <1>3. CASE ~Has(a, c)
    <2>1. t = s
      BY <1>1, <1>3 DEF MlRemove
    <2> QED
      BY <1>2, <1>3, <2>1 DEF SameElse, Loses, Lies
  <1>4. CASE Has(a, c)
    <2>1. PICK b \in BOOLEAN : b = FALSE
      OBVIOUS
    <2>2. PICK l : l = Without(a, c)
      OBVIOUS
    <2>3. /\ l \in Seq(Minimized) /\ IsInjective(Members(l))
          /\ \A e : In(l, e) <=> In(a, e) /\ e.of # c
      BY <1>2, <2>2, RecordTypes, RecordRemoved
    <2>4. t = WithMl(s, w, l, c, b)
      BY <1>1, <1>2, <1>4, <2>1, <2>2, AreWith
    <2>5. /\ Sound(t) /\ SameElse(t, s) /\ Flagged(t, s, c, s.flags[c].float, b)
          /\ \A k1, w1, e1 : At(t, k1, w1, e1) <=>
               IF k1 = "ml" /\ w1 = w THEN In(l, e1) ELSE At(s, k1, w1, e1)
      BY <2>3, <2>4, MlUpdated
    <2>6. \A e1 : At(s, "ml", w, e1) <=> In(a, e1)
      BY <1>1 DEF At
    <2>7. Loses(t, s, "ml", w, c)
      BY <2>3, <2>5, <2>6 DEF Loses, Who
    <2> QED
      BY <1>2, <1>4, <2>1, <2>5, <2>7
  <1> QED
    BY <1>3, <1>4

-----------------------------------------------------------------------------
(* A client that is in one list, once: in the list k of w, by e.           *)

Home(s, c, k, w, e) ==
  /\ At(s, k, w, e) /\ Who(k, e) = c
  /\ \A k1, w1, e1 : At(s, k1, w1, e1) /\ Who(k1, e1) = c => k1 = k /\ w1 = w /\ e1 = e

Nowhere(s, c) == \A k, w, e : At(s, k, w, e) => Who(k, e) # c

(* The flags f of a client that is in the list k by e.                     *)
Fits(f, k, e) ==
  /\ ~f.persistent
  /\ k = "cl" => ~f.float /\ ~f.mini
  /\ k = "fl" => f.float /\ ~f.mini
  /\ k = "ml" => ~f.float /\ f.mini /\ e.origin # "ML"
  /\ k = "ul" => ~f.mini /\ (f.float => e.origin = "FL") /\ e.before # "ML"

ModeAt(k, e) == CASE k = "cl" -> "CL" [] k = "fl" -> "FL" [] k = "ml" -> "ML"
                  [] OTHER -> e.origin

SameOthers(t, s, c) == \A k, w, e : Who(k, e) # c => (At(t, k, w, e) <=> At(s, k, w, e))

(* From s to t only c has been moved, or its flags changed.                *)
Touches(t, s, c) ==
  /\ Sound(t) /\ SameElse(t, s) /\ SameOthers(t, s, c)
  /\ \A d \in Clients : d # c => t.flags[d] = s.flags[d]

Moved(t, s, c, k, w, e) ==
  Touches(t, s, c) /\ Home(t, c, k, w, e) /\ Fits(t.flags[c], k, e)

LEMMA TouchesThen ==
  ASSUME NEW s, NEW a, NEW t, NEW c, Touches(a, s, c), Touches(t, a, c)
  PROVE  Touches(t, s, c)
  <1>1. SameOthers(t, s, c)
    BY DEF Touches, SameOthers
  <1> QED
    BY <1>1 DEF Touches, SameElse

LEMMA MovedThen ==
  ASSUME NEW s, NEW a, NEW t, NEW c, Touches(a, s, c), NEW k, NEW w, NEW e,
         Moved(t, a, c, k, w, e)
  PROVE  Moved(t, s, c, k, w, e)
  BY TouchesThen DEF Moved

LEMMA TouchesNot ==
  ASSUME NEW s, Sound(s), NEW c
  PROVE  Touches(s, s, c)
  BY DEF Touches, SameElse, SameOthers

(* What the code finds when it looks for a client.                         *)
LEMMA AtHome ==
  ASSUME NEW s, Sound(s), NEW c, NEW k, NEW w, NEW e, Home(s, c, k, w, e)
  PROVE  /\ w \in Workspaces /\ c \in Clients /\ s.flags[c] \in Flagsets
         /\ k \in {"cl", "fl", "ml", "ul"}
         /\ k = "cl" => e = c
         /\ k = "fl" => e \in Detached /\ e.of = c /\ RecordOf(s.lists[w].fl, c) = e
         /\ k = "ml" => e \in Minimized /\ e.of = c /\ RecordOf(s.lists[w].ml, c) = e
         /\ k = "ul" => e \in Unmapped /\ e.of = c /\ RecordOf(s.lists[w].ul, c) = e
         /\ \A v \in Workspaces : /\ In(s.lists[v].cl, c) <=> k = "cl" /\ v = w
                                  /\ Has(s.lists[v].fl, c) <=> k = "fl" /\ v = w
                                  /\ Has(s.lists[v].ml, c) <=> k = "ml" /\ v = w
                                  /\ Has(s.lists[v].ul, c) <=> k = "ul" /\ v = w
         /\ \A k1, v : Lies(s, k1, v, c) <=> k1 = k /\ v = w
  <1>1. At(s, k, w, e) /\ Who(k, e) = c
    BY DEF Home
  <1>2. /\ w \in Workspaces /\ c \in Clients /\ k \in {"cl", "fl", "ml", "ul"}
        /\ k = "fl" => e \in Detached
        /\ k = "ml" => e \in Minimized
        /\ k = "ul" => e \in Unmapped
    BY <1>1, AtIs
  <1>3. s.flags[c] \in Flagsets
    BY <1>2 DEF Sound, States
  <1>4. \A k1, v : Lies(s, k1, v, c) <=> k1 = k /\ v = w
    BY DEF Home, Lies
  <1>5. k = "cl" => e = c
    BY <1>1 DEF Who
  <1>6. k # "cl" => e.of = c
    BY <1>1 DEF Who
  <1>7. /\ k = "fl" => RecordOf(s.lists[w].fl, c) = e
        /\ k = "ml" => RecordOf(s.lists[w].ml, c) = e
        /\ k = "ul" => RecordOf(s.lists[w].ul, c) = e
    BY <1>1, <1>2, <1>6, LiesIs
  <1>8. \A v \in Workspaces : /\ In(s.lists[v].cl, c) <=> k = "cl" /\ v = w
                              /\ Has(s.lists[v].fl, c) <=> k = "fl" /\ v = w
                              /\ Has(s.lists[v].ml, c) <=> k = "ml" /\ v = w
                              /\ Has(s.lists[v].ul, c) <=> k = "ul" /\ v = w
    <2> SUFFICES ASSUME NEW v \in Workspaces
                 PROVE  /\ In(s.lists[v].cl, c) <=> k = "cl" /\ v = w
                        /\ Has(s.lists[v].fl, c) <=> k = "fl" /\ v = w
                        /\ Has(s.lists[v].ml, c) <=> k = "ml" /\ v = w
                        /\ Has(s.lists[v].ul, c) <=> k = "ul" /\ v = w
      OBVIOUS
    <2>1. /\ In(s.lists[v].cl, c) <=> Lies(s, "cl", v, c)
          /\ Has(s.lists[v].fl, c) <=> Lies(s, "fl", v, c)
          /\ Has(s.lists[v].ml, c) <=> Lies(s, "ml", v, c)
          /\ Has(s.lists[v].ul, c) <=> Lies(s, "ul", v, c)
      BY LiesIs
    <2>2. /\ Lies(s, "cl", v, c) <=> k = "cl" /\ v = w
          /\ Lies(s, "fl", v, c) <=> k = "fl" /\ v = w
          /\ Lies(s, "ml", v, c) <=> k = "ml" /\ v = w
          /\ Lies(s, "ul", v, c) <=> k = "ul" /\ v = w
      <3>1. Lies(s, "cl", v, c) <=> k = "cl" /\ v = w
        BY <1>4
      <3>2. Lies(s, "fl", v, c) <=> k = "fl" /\ v = w
        BY <1>4
      <3>3. Lies(s, "ml", v, c) <=> k = "ml" /\ v = w
        BY <1>4
      <3>4. Lies(s, "ul", v, c) <=> k = "ul" /\ v = w
        BY <1>4
      <3> QED
        BY <3>1, <3>2, <3>3, <3>4
    <2> QED
      BY <2>1, <2>2
  <1> QED
    BY <1>2, <1>3, <1>4, <1>5, <1>6, <1>7, <1>8

LEMMA PositionType ==
  ASSUME NEW s, Sound(s), NEW w \in Workspaces, NEW c \in Clients
  PROVE  Position(ClOf(s, w), c) \in Int
  BY SoundIs, ClListIs DEF ClOf

-----------------------------------------------------------------------------
(* Leaving a list, and coming into one.                                    *)

LEMMA Leaves ==
  ASSUME NEW s, NEW t, NEW c, NEW k, NEW w, NEW e, Home(s, c, k, w, e), Loses(t, s, k, w, c)
  PROVE  Nowhere(t, c) /\ SameOthers(t, s, c)
  <1>1. Nowhere(t, c)
    BY DEF Home, Loses, Nowhere
  <1>2. SameOthers(t, s, c)
    BY DEF Loses, SameOthers
  <1> QED
    BY <1>1, <1>2

LEMMA Absent ==
  ASSUME NEW s, NEW t, NEW c, NEW k, NEW w, Nowhere(s, c), Loses(t, s, k, w, c)
  PROVE  Nowhere(t, c) /\ SameOthers(t, s, c)
  <1>1. Nowhere(t, c)
    BY DEF Loses, Nowhere
  <1>2. SameOthers(t, s, c)
    BY DEF Loses, SameOthers
  <1> QED
    BY <1>1, <1>2

LEMMA Arrives ==
  ASSUME NEW s, NEW t, NEW c, NEW k, NEW w, NEW e, Nowhere(s, c), Gains(t, s, k, w, e),
         Who(k, e) = c
  PROVE  Home(t, c, k, w, e) /\ SameOthers(t, s, c)
  <1>1. Home(t, c, k, w, e)
    BY DEF Gains, Nowhere, Home
  <1>2. SameOthers(t, s, c)
    BY DEF Gains, SameOthers
  <1> QED
    BY <1>1, <1>2

Freed(t, s, c) == /\ Touches(t, s, c) /\ Nowhere(t, c)
                  /\ t.flags[c].persistent = s.flags[c].persistent

LEMMA Departs ==
  ASSUME NEW s, Sound(s), NEW c, NEW k, NEW w, NEW e, Home(s, c, k, w, e),
         Fits(s.flags[c], k, e), NEW t,
         \/ k = "cl" /\ t = ClTake(s, w, c)
         \/ k = "fl" /\ t = FlRemove(s, w, c)
         \/ k = "ml" /\ t = MlRemove(s, w, c)
         \/ k = "ul" /\ t = UlTake(s, w, c)
  PROVE  /\ Freed(t, s, c) /\ ~t.flags[c].mini
         /\ k = "fl" => ~t.flags[c].float
         /\ k # "fl" => t.flags[c].float = s.flags[c].float
  <1>1. w \in Workspaces /\ c \in Clients /\ Lies(s, k, w, c)
    BY AtHome
  <1>2. CASE k = "cl" /\ t = ClTake(s, w, c)
    <2>1. Sound(t) /\ SameElse(t, s) /\ t.flags = s.flags /\ Loses(t, s, k, w, c)
      BY <1>1, <1>2, ClTaken
    <2>2. Nowhere(t, c) /\ SameOthers(t, s, c)
      BY <2>1, Leaves
    <2> QED
      BY <1>2, <2>1, <2>2 DEF Freed, Touches, Fits
  <1>3. CASE k = "fl" /\ t = FlRemove(s, w, c)
    <2>1. /\ Sound(t) /\ SameElse(t, s) /\ Loses(t, s, k, w, c)
          /\ Flagged(t, s, c, FALSE, s.flags[c].mini)
      BY <1>1, <1>3, FlTaken
    <2>2. Nowhere(t, c) /\ SameOthers(t, s, c)
      BY <2>1, Leaves
    <2> QED
      BY <1>3, <2>1, <2>2 DEF Freed, Touches, Fits, Flagged
  <1>4. CASE k = "ml" /\ t = MlRemove(s, w, c)
    <2>1. /\ Sound(t) /\ SameElse(t, s) /\ Loses(t, s, k, w, c)
          /\ Flagged(t, s, c, s.flags[c].float, FALSE)
      BY <1>1, <1>4, MlTaken
    <2>2. Nowhere(t, c) /\ SameOthers(t, s, c)
      BY <2>1, Leaves
    <2> QED
      BY <1>4, <2>1, <2>2 DEF Freed, Touches, Fits, Flagged
  <1>5. CASE k = "ul" /\ t = UlTake(s, w, c)
    <2>1. Sound(t) /\ SameElse(t, s) /\ t.flags = s.flags /\ Loses(t, s, k, w, c)
      BY <1>1, <1>5, UlTaken
    <2>2. Nowhere(t, c) /\ SameOthers(t, s, c)
      BY <2>1, Leaves
    <2> QED
      BY <1>5, <2>1, <2>2 DEF Freed, Touches, Fits
  <1> QED
    BY <1>2, <1>3, <1>4, <1>5

(* Looking for a client that is in no list does nothing.                   *)
LEMMA StaysAway ==
  ASSUME NEW s, Sound(s), NEW c \in Clients, NEW w \in Workspaces, Nowhere(s, c), NEW t,
         \/ t = ClTake(s, w, c) \/ t = UlTake(s, w, c)
         \/ t = FlRemove(s, w, c) \/ t = MlRemove(s, w, c)
  PROVE  Freed(t, s, c) /\ t.flags = s.flags
  <1>1. \A k : ~Lies(s, k, w, c)
    BY DEF Lies, Nowhere
  <1>2. /\ Sound(t) /\ SameElse(t, s) /\ t.flags = s.flags
        /\ \E k : Loses(t, s, k, w, c)
    <2>1. CASE t = ClTake(s, w, c)
      BY <2>1, ClTaken
    <2>2. CASE t = UlTake(s, w, c)
      BY <2>2, UlTaken
    <2>3. CASE t = FlRemove(s, w, c)
      BY <1>1, <2>3, FlTaken
    <2>4. CASE t = MlRemove(s, w, c)
      BY <1>1, <2>4, MlTaken
    <2> QED
      BY <2>1, <2>2, <2>3, <2>4
  <1>3. Nowhere(t, c) /\ SameOthers(t, s, c)
    BY <1>2, Absent
  <1> QED
    BY <1>2, <1>3 DEF Freed, Touches

LEMMA IntoCl ==
  ASSUME NEW s, Sound(s), NEW c \in Clients, NEW w \in Workspaces, Nowhere(s, c), NEW t,
         \/ t = ClAdd(s, w, c)
         \/ \E pos \in Int : t = ClReattach(s, w, c, pos),
         Fits(s.flags[c], "cl", c)
  PROVE  Moved(t, s, c, "cl", w, c)
  <1>1. ~Lies(s, "cl", w, c)
    BY DEF Lies, Nowhere
  <1>2. Sound(t) /\ SameElse(t, s) /\ t.flags = s.flags /\ Gains(t, s, "cl", w, c)
    BY <1>1, ClPut
  <1>3. Who("cl", c) = c
    BY DEF Who
  <1>4. Home(t, c, "cl", w, c) /\ SameOthers(t, s, c)
    BY <1>2, <1>3, Arrives
  <1> QED
    BY <1>2, <1>4 DEF Moved, Touches

LEMMA IntoFl ==
  ASSUME NEW s, Sound(s), NEW rec \in Detached, NEW c, c = rec.of, NEW w \in Workspaces,
         Nowhere(s, c), NEW t, t = FlPush(s, w, rec), ~s.flags[c].mini, ~s.flags[c].persistent
  PROVE  Moved(t, s, c, "fl", w, rec)
  <1>1. ~Lies(s, "fl", w, c)
    BY DEF Lies, Nowhere
  <1>2. /\ Sound(t) /\ SameElse(t, s) /\ Gains(t, s, "fl", w, rec)
        /\ Flagged(t, s, c, TRUE, s.flags[c].mini)
    BY <1>1, FlPushed
  <1>3. Who("fl", rec) = c
    BY DEF Who
  <1>4. Home(t, c, "fl", w, rec) /\ SameOthers(t, s, c)
    BY <1>2, <1>3, Arrives
  <1> QED
    BY <1>2, <1>4 DEF Moved, Touches, Flagged, Fits

LEMMA IntoMl ==
  ASSUME NEW s, Sound(s), NEW rec \in Minimized, NEW c, c = rec.of, NEW w \in Workspaces,
         Nowhere(s, c), NEW t, t = MlPush(s, w, rec), ~s.flags[c].float,
         ~s.flags[c].persistent, rec.origin # "ML"
  PROVE  Moved(t, s, c, "ml", w, rec)
  <1>1. ~Lies(s, "ml", w, c)
    BY DEF Lies, Nowhere
  <1>2. /\ Sound(t) /\ SameElse(t, s) /\ Gains(t, s, "ml", w, rec)
        /\ Flagged(t, s, c, s.flags[c].float, TRUE)
    BY <1>1, MlPushed
  <1>3. Who("ml", rec) = c
    BY DEF Who
  <1>4. Home(t, c, "ml", w, rec) /\ SameOthers(t, s, c)
    BY <1>2, <1>3, Arrives
  <1> QED
    BY <1>2, <1>4 DEF Moved, Touches, Flagged, Fits

LEMMA IntoUl ==
  ASSUME NEW s, Sound(s), NEW rec \in Unmapped, NEW c, c = rec.of, NEW w \in Workspaces,
         Nowhere(s, c), NEW t, t = UlPush(s, w, rec), Fits(s.flags[c], "ul", rec)
  PROVE  Moved(t, s, c, "ul", w, rec)
  <1>1. ~Lies(s, "ul", w, c)
    BY DEF Lies, Nowhere
  <1>2. Sound(t) /\ SameElse(t, s) /\ Gains(t, s, "ul", w, rec) /\ t.flags = s.flags
    BY <1>1, UlPushed
  <1>3. Who("ul", rec) = c
    BY DEF Who
  <1>4. Home(t, c, "ul", w, rec) /\ SameOthers(t, s, c)
    BY <1>2, <1>3, Arrives
  <1> QED
    BY <1>2, <1>4 DEF Moved, Touches

-----------------------------------------------------------------------------
(* The operations on lists, from and to the lists they are made for.       *)

LEMMA DetachIs ==
  ASSUME NEW s, Sound(s), NEW c, NEW k \in {"cl", "ml"}, NEW w, NEW e, Home(s, c, k, w, e),
         Fits(s.flags[c], k, e), NEW t, t = Detach(s, w, c)
  PROVE  \E e1 : Moved(t, s, c, "fl", w, e1)
  <1>1. w \in Workspaces /\ c \in Clients
    BY AtHome
  <1>2. PICK pos : pos = Position(ClOf(s, w), c)
    OBVIOUS
  <1>3. PICK rec : rec = [of |-> c, pos |-> pos]
    OBVIOUS
  <1>4. rec \in Detached /\ rec.of = c
    BY <1>1, <1>2, <1>3, PositionType DEF Detached
  <1>5. PICK a : a = IF s.flags[c].mini THEN MlRemove(s, w, c) ELSE s
    OBVIOUS
  <1>6. PICK b : b = ClTake(a, w, c)
    OBVIOUS
  <1>7. t = FlPush(b, w, rec)
    BY <1>2, <1>3, <1>5, <1>6 DEF Detach, ClTake
  <1>8. Touches(b, s, c) /\ Nowhere(b, c) /\ ~b.flags[c].mini /\ ~b.flags[c].persistent
    <2>1. CASE k = "cl"
      <3>1. b = ClTake(s, w, c)
        BY <1>5, <1>6, <2>1 DEF Fits
      <3>2. Freed(b, s, c) /\ ~b.flags[c].mini
        BY <2>1, <3>1, Departs
      <3> QED
        BY <3>2 DEF Freed, Fits
    <2>2. CASE k = "ml"
      <3>1. a = MlRemove(s, w, c)
        BY <1>5, <2>2 DEF Fits
      <3>2. Freed(a, s, c) /\ ~a.flags[c].mini
        BY <2>2, <3>1, Departs
      <3>3. Freed(b, a, c) /\ b.flags = a.flags
        BY <1>1, <1>6, <3>2, StaysAway DEF Freed, Touches
      <3> QED
        BY <3>2, <3>3, TouchesThen DEF Freed, Fits
    <2> QED
      BY <2>1, <2>2
  <1>9. Moved(t, b, c, "fl", w, rec)
    BY <1>1, <1>4, <1>7, <1>8, IntoFl DEF Touches
  <1> QED
    BY <1>8, <1>9, MovedThen

LEMMA ReattachFloatIs ==
  ASSUME NEW s, Sound(s), NEW c, NEW w, NEW e, Home(s, c, "fl", w, e),
         Fits(s.flags[c], "fl", e), NEW t, t = ReattachFloat(s, w, c)
  PROVE  Moved(t, s, c, "cl", w, c)
  <1>1. /\ w \in Workspaces /\ c \in Clients /\ e \in Detached
        /\ RecordOf(s.lists[w].fl, c) = e
    BY AtHome
  <1>2. PICK a : a = FlRemove(s, w, c)
    OBVIOUS
  <1>3. t = ClReattach(a, w, c, e.pos) /\ e.pos \in Int
    BY <1>1, <1>2, RecordTypes DEF ReattachFloat, ClReattach
  <1>4. Freed(a, s, c) /\ ~a.flags[c].mini /\ ~a.flags[c].float
    BY <1>2, Departs
  <1>5. Moved(t, a, c, "cl", w, c)
    BY <1>1, <1>3, <1>4, IntoCl DEF Freed, Touches, Fits
  <1> QED
    BY <1>4, <1>5, MovedThen DEF Freed

LEMMA MinimizeIs ==
  ASSUME NEW s, Sound(s), NEW c, NEW k \in {"cl", "fl"}, NEW w, NEW e, Home(s, c, k, w, e),
         Fits(s.flags[c], k, e), NEW t, t = Minimize(s, w, c)
  PROVE  \E e1 : Moved(t, s, c, "ml", w, e1)
  <1>1. w \in Workspaces /\ c \in Clients
    BY AtHome
  <1>2. PICK pos : pos = Position(ClOf(s, w), c)
    OBVIOUS
  <1>3. PICK rec : rec = [of |-> c, pos |-> pos, origin |-> "CL"]
    OBVIOUS
  <1>4. rec \in Minimized /\ rec.of = c /\ rec.origin # "ML"
    BY <1>1, <1>2, <1>3, PositionType DEF Minimized, Origins
  <1>5. PICK a : a = FlRemove(s, w, c)
    OBVIOUS
  <1>6. PICK b : b = ClTake(a, w, c)
    OBVIOUS
  <1>7. t = MlPush(b, w, rec)
    BY <1>2, <1>3, <1>5, <1>6 DEF Minimize, ClTake
  <1>8. Touches(b, s, c) /\ Nowhere(b, c) /\ ~b.flags[c].float /\ ~b.flags[c].persistent
    <2>1. CASE k = "cl"
      <3>1. ~Lies(s, "fl", w, c)
        BY <2>1, AtHome
      <3>2. a = s
        BY <1>1, <1>5, <3>1, FlTaken
      <3>3. Freed(b, s, c) /\ b.flags[c].float = s.flags[c].float
        BY <1>6, <2>1, <3>2, Departs
      <3> QED
        BY <2>1, <3>3 DEF Freed, Fits
    <2>2. CASE k = "fl"
      <3>1. Freed(a, s, c) /\ ~a.flags[c].float
        BY <1>5, <2>2, Departs
      <3>2. Freed(b, a, c) /\ b.flags = a.flags
        BY <1>1, <1>6, <3>1, StaysAway DEF Freed, Touches
      <3> QED
        BY <3>1, <3>2, TouchesThen DEF Freed, Fits
    <2> QED
      BY <2>1, <2>2
  <1>9. Moved(t, b, c, "ml", w, rec)
    BY <1>1, <1>4, <1>7, <1>8, IntoMl DEF Touches
  <1> QED
    BY <1>8, <1>9, MovedThen

LEMMA RestoreIs ==
  ASSUME NEW s, Sound(s), NEW c, NEW w, NEW e, Home(s, c, "ml", w, e),
         Fits(s.flags[c], "ml", e), NEW t, t = Restore(s, w, c)
  PROVE  \E k1 \in {"cl", "fl"} : \E e1 : Moved(t, s, c, k1, w, e1)
  <1>1. /\ w \in Workspaces /\ c \in Clients /\ e \in Minimized
        /\ RecordOf(s.lists[w].ml, c) = e
    BY AtHome
  <1>2. e.pos \in Int /\ (e.origin = "CL" \/ e.origin = "FL")
    BY <1>1, RecordTypes DEF Fits, Origins
  <1>3. PICK a : a = MlRemove(s, w, c)
    OBVIOUS
  <1>4. Freed(a, s, c) /\ ~a.flags[c].mini /\ a.flags[c].float = s.flags[c].float
    BY <1>3, Departs
  <1>5. Sound(a) /\ Nowhere(a, c) /\ Touches(a, s, c)
    BY <1>4 DEF Freed, Touches
  <1>6. CASE e.origin = "CL"
    <2>1. t = ClReattach(a, w, c, e.pos)
      BY <1>1, <1>3, <1>6 DEF Restore, ClReattach
    <2>2. Moved(t, a, c, "cl", w, c)
      BY <1>1, <1>2, <1>4, <1>5, <2>1, IntoCl DEF Freed, Fits
    <2> QED
      BY <1>5, <2>2, MovedThen
  <1>7. CASE e.origin = "FL"
    <2>1. PICK rec : rec = [of |-> c, pos |-> e.pos]
      OBVIOUS
    <2>2. t = FlPush(a, w, rec)
      BY <1>1, <1>3, <1>7, <2>1 DEF Restore
    <2>3. rec \in Detached /\ rec.of = c
      BY <1>1, <1>2, <2>1 DEF Detached
    <2>4. Moved(t, a, c, "fl", w, rec)
      BY <1>1, <1>4, <1>5, <2>2, <2>3, IntoFl DEF Freed, Fits
    <2> QED
      BY <1>5, <2>4, MovedThen
  <1> QED
    BY <1>2, <1>6, <1>7

LEMMA DetachUnmappedIs ==
  ASSUME NEW s, Sound(s), NEW c, NEW k \in {"cl", "fl", "ml"}, NEW w, NEW e,
         Home(s, c, k, w, e), Fits(s.flags[c], k, e), s.client[c].future_stay \in BOOLEAN,
         NEW t, t = DetachUnmapped(s, w, c)
  PROVE  \E e1 : /\ Moved(t, s, c, "ul", w, e1)
                 /\ e1.stay = s.client[c].future_stay /\ e1.origin = ModeAt(k, e)
  <1>1. /\ w \in Workspaces /\ c \in Clients
        /\ \A v \in Workspaces : Has(s.lists[v].fl, c) <=> k = "fl" /\ v = w
    BY AtHome
  <1>2. PICK stay \in BOOLEAN : stay = s.client[c].future_stay
    OBVIOUS
  <1>3. CASE k = "cl"
    <2>1. PICK pos : pos = Position(ClOf(s, w), c)
      OBVIOUS
    <2>2. PICK rec : rec = [of |-> c, pos |-> pos, origin |-> "CL", before |-> "CL",
                            stay |-> stay]
      OBVIOUS
    <2>3. /\ rec \in Unmapped /\ rec.of = c /\ rec.stay = stay /\ rec.origin = "CL"
          /\ rec.before = "CL"
      BY <1>1, <1>2, <2>1, <2>2, PositionType DEF Unmapped, Origins
    <2>4. PICK a : a = ClTake(s, w, c)
      OBVIOUS
    <2>5. t = UlPush(a, w, rec)
      BY <1>2, <1>3, <2>1, <2>2, <2>4 DEF DetachUnmapped, ClTake, Fits
    <2>6. Freed(a, s, c) /\ ~a.flags[c].mini /\ a.flags[c].float = s.flags[c].float
      BY <1>3, <2>4, Departs
    <2>7. Fits(a.flags[c], "ul", rec)
      BY <1>3, <2>3, <2>6 DEF Fits, Freed
    <2>8. Moved(t, a, c, "ul", w, rec)
      BY <1>1, <2>3, <2>5, <2>6, <2>7, IntoUl DEF Freed, Touches
    <2>9. Moved(t, s, c, "ul", w, rec)
      BY <2>6, <2>8, MovedThen DEF Freed
    <2> QED
      BY <1>2, <1>3, <2>3, <2>9 DEF ModeAt
  <1>4. CASE k = "fl"
    <2>1. e \in Detached /\ RecordOf(s.lists[w].fl, c) = e /\ e.pos \in Int
      BY <1>4, AtHome, RecordTypes
    <2>2. PICK rec : rec = [of |-> c, pos |-> e.pos, origin |-> "FL", before |-> "CL",
                            stay |-> stay]
      OBVIOUS
    <2>3. /\ rec \in Unmapped /\ rec.of = c /\ rec.stay = stay /\ rec.origin = "FL"
          /\ rec.before = "CL"
      BY <1>1, <1>2, <2>1, <2>2 DEF Unmapped, Origins
    <2>4. PICK a : a = FlRemove(s, w, c)
      OBVIOUS
    <2>5. t = UlPush(a, w, rec)
      BY <1>1, <1>2, <1>4, <2>1, <2>2, <2>4 DEF DetachUnmapped, Fits
    <2>6. Freed(a, s, c) /\ ~a.flags[c].mini /\ ~a.flags[c].float
      BY <1>4, <2>4, Departs
    <2>7. Fits(a.flags[c], "ul", rec)
      BY <1>4, <2>3, <2>6 DEF Fits, Freed
    <2>8. Moved(t, a, c, "ul", w, rec)
      BY <1>1, <2>3, <2>5, <2>6, <2>7, IntoUl DEF Freed, Touches
    <2>9. Moved(t, s, c, "ul", w, rec)
      BY <2>6, <2>8, MovedThen DEF Freed
    <2> QED
      BY <1>2, <1>4, <2>3, <2>9 DEF ModeAt
  <1>5. CASE k = "ml"
    <2>1. /\ e \in Minimized /\ RecordOf(s.lists[w].ml, c) = e /\ e.pos \in Int
          /\ e.origin \in Origins /\ e.origin # "ML"
      BY <1>5, AtHome, RecordTypes DEF Fits
    <2>2. PICK rec : rec = [of |-> c, pos |-> e.pos, origin |-> "ML", before |-> e.origin,
                            stay |-> stay]
      OBVIOUS
    <2>3. /\ rec \in Unmapped /\ rec.of = c /\ rec.stay = stay /\ rec.origin = "ML"
          /\ rec.before # "ML"
      BY <1>1, <1>2, <2>1, <2>2 DEF Unmapped, Origins
    <2>4. PICK a : a = MlRemove(s, w, c)
      OBVIOUS
    <2>5. t = UlPush(a, w, rec)
      BY <1>1, <1>2, <1>5, <2>1, <2>2, <2>4 DEF DetachUnmapped, Fits
    <2>6. Freed(a, s, c) /\ ~a.flags[c].mini /\ a.flags[c].float = s.flags[c].float
      BY <1>5, <2>4, Departs
    <2>7. Fits(a.flags[c], "ul", rec)
      BY <1>5, <2>3, <2>6 DEF Fits, Freed
    <2>8. Moved(t, a, c, "ul", w, rec)
      BY <1>1, <2>3, <2>5, <2>6, <2>7, IntoUl DEF Freed, Touches
    <2>9. Moved(t, s, c, "ul", w, rec)
      BY <2>6, <2>8, MovedThen DEF Freed
    <2> QED
      BY <1>2, <1>5, <2>3, <2>9 DEF ModeAt
  <1> QED
    BY <1>3, <1>4, <1>5

LEMMA ReattachUnmappedIs ==
  ASSUME NEW s, Sound(s), NEW c, NEW w, NEW e, Home(s, c, "ul", w, e),
         Fits(s.flags[c], "ul", e), NEW t, t = ReattachUnmapped(s, w, c)
  PROVE  \E k1 \in {"cl", "fl", "ml"} : \E e1 :
           /\ Moved(t, s, c, k1, w, e1)
           /\ ModeAt(k1, e1) = e.origin
  <1>1. /\ w \in Workspaces /\ c \in Clients /\ e \in Unmapped
        /\ RecordOf(s.lists[w].ul, c) = e
    BY AtHome
  <1>2. e.pos \in Int /\ e.origin \in {"CL", "FL", "ML"} /\ e.before \in Origins
    BY <1>1, RecordTypes DEF Origins
  <1>3. PICK a : a = UlTake(s, w, c)
    OBVIOUS
  <1>4. Freed(a, s, c) /\ ~a.flags[c].mini /\ a.flags[c].float = s.flags[c].float
    BY <1>3, Departs
  <1>5. Sound(a) /\ Nowhere(a, c) /\ Touches(a, s, c) /\ ~a.flags[c].persistent
    BY <1>4 DEF Freed, Touches, Fits
  <1>6. CASE e.origin = "CL"
    <2>1. t = ClReattach(a, w, c, e.pos)
      BY <1>1, <1>3, <1>6 DEF ReattachUnmapped, ClReattach, UlTake
    <2>2. Fits(a.flags[c], "cl", c)
      BY <1>4, <1>5, <1>6 DEF Fits
    <2>3. Moved(t, a, c, "cl", w, c)
      BY <1>1, <1>2, <1>5, <2>1, <2>2, IntoCl
    <2>4. Moved(t, s, c, "cl", w, c)
      BY <1>5, <2>3, MovedThen
    <2> QED
      BY <1>6, <2>4 DEF ModeAt
  <1>7. CASE e.origin = "FL"
    <2>1. PICK rec : rec = [of |-> c, pos |-> e.pos]
      OBVIOUS
    <2>2. t = FlPush(a, w, rec)
      BY <1>1, <1>3, <1>7, <2>1 DEF ReattachUnmapped, UlTake
    <2>3. rec \in Detached /\ rec.of = c
      BY <1>1, <1>2, <2>1 DEF Detached
    <2>4. Moved(t, a, c, "fl", w, rec)
      BY <1>1, <1>4, <1>5, <2>2, <2>3, IntoFl
    <2>5. Moved(t, s, c, "fl", w, rec)
      BY <1>5, <2>4, MovedThen
    <2> QED
      BY <1>7, <2>5 DEF ModeAt
  <1>8. CASE e.origin = "ML"
    <2>1. PICK rec : rec = [of |-> c, pos |-> e.pos, origin |-> e.before]
      OBVIOUS
    <2>2. t = MlPush(a, w, rec)
      BY <1>1, <1>3, <1>8, <2>1 DEF ReattachUnmapped, UlTake
    <2>3. rec \in Minimized /\ rec.of = c /\ rec.origin # "ML" /\ ~a.flags[c].float
      BY <1>1, <1>2, <1>4, <1>8, <2>1 DEF Minimized, Fits
    <2>4. Moved(t, a, c, "ml", w, rec)
      BY <1>1, <1>5, <2>2, <2>3, IntoMl
    <2>5. Moved(t, s, c, "ml", w, rec)
      BY <1>5, <2>4, MovedThen
    <2> QED
      BY <1>8, <2>5 DEF ModeAt
  <1> QED
    BY <1>2, <1>6, <1>7, <1>8

MoveCl(s, c, from, to) ==
  [s EXCEPT !.lists[from].cl = ClRemove(@, c), !.lists[to].cl = ClAppend(@, c)]

LEMMA MovedTogether ==
  ASSUME NEW s \in States, NEW c, NEW w \in Workspaces, NEW v \in Workspaces, v # w
  PROVE  MoveCl(s, c, w, v) = ClAdd(ClTake(s, w, c), v, c)
  <1>1. PICK b : b = ClTake(s, w, c)
    OBVIOUS
  <1>2. b.lists[v].cl = s.lists[v].cl
    BY <1>1 DEF ClTake, States
  <1>3. PICK y : y = ClAppend(s.lists[v].cl, c)
    OBVIOUS
  <1>4. ClAdd(b, v, c) = [b EXCEPT !.lists[v].cl = y]
    BY <1>2, <1>3 DEF ClAdd
  <1>5. MoveCl(s, c, w, v) = [b EXCEPT !.lists[v].cl = y]
    BY <1>1, <1>3 DEF MoveCl, ClTake
  <1> QED
    BY <1>1, <1>4, <1>5

LEMMA MoveListsIs ==
  ASSUME NEW s, Sound(s), NEW c, NEW k \in {"cl", "fl", "ml"}, NEW w, NEW e,
         Home(s, c, k, w, e), Fits(s.flags[c], k, e), NEW v \in Workspaces, v # w,
         NEW t, t = MoveLists(s, c, w, v)
  PROVE  Moved(t, s, c, k, v, e)
  <1>1. w \in Workspaces /\ c \in Clients
    BY AtHome
  <1>2. CASE k = "cl"
    <2>1. e = c
      BY <1>2, AtHome
    <2>2. PICK a : a = ClTake(s, w, c)
      OBVIOUS
    <2>3. t = MoveCl(s, c, w, v)
      BY <1>2 DEF MoveLists, MoveCl, Fits
    <2>4. t = ClAdd(a, v, c)
      BY <1>1, <2>2, <2>3, MovedTogether DEF Sound
    <2>5. Freed(a, s, c) /\ ~a.flags[c].mini /\ a.flags[c].float = s.flags[c].float
      BY <1>2, <2>2, Departs
    <2>6. Fits(a.flags[c], "cl", c)
      BY <1>2, <2>5 DEF Fits, Freed
    <2>7. Moved(t, a, c, "cl", v, c)
      BY <1>1, <2>4, <2>5, <2>6, IntoCl DEF Freed, Touches
    <2> QED
      BY <1>2, <2>1, <2>5, <2>7, MovedThen DEF Freed
  <1>3. CASE k = "fl"
    <2>1. e \in Detached /\ e.of = c /\ RecordOf(s.lists[w].fl, c) = e
      BY <1>3, AtHome
    <2>2. PICK a : a = FlRemove(s, w, c)
      OBVIOUS
    <2>3. t = FlPush(a, v, e)
      BY <1>3, <2>1, <2>2 DEF MoveLists, Fits
    <2>4. Freed(a, s, c) /\ ~a.flags[c].mini
      BY <1>3, <2>2, Departs
    <2>5. ~a.flags[c].persistent
      BY <2>4 DEF Fits, Freed
    <2>6. Moved(t, a, c, "fl", v, e)
      BY <1>1, <2>1, <2>3, <2>4, <2>5, IntoFl DEF Freed, Touches
    <2> QED
      BY <1>3, <2>4, <2>6, MovedThen DEF Freed
  <1>4. CASE k = "ml"
    <2>1. e \in Minimized /\ e.of = c /\ RecordOf(s.lists[w].ml, c) = e
      BY <1>4, AtHome
    <2>2. PICK a : a = MlRemove(s, w, c)
      OBVIOUS
    <2>3. t = MlPush(a, v, e)
      BY <1>4, <2>1, <2>2 DEF MoveLists, Fits
    <2>4. Freed(a, s, c) /\ a.flags[c].float = s.flags[c].float
      BY <1>4, <2>2, Departs
    <2>5. ~a.flags[c].persistent /\ ~a.flags[c].float /\ e.origin # "ML"
      BY <1>4, <2>4 DEF Fits, Freed
    <2>6. Moved(t, a, c, "ml", v, e)
      BY <1>1, <2>1, <2>3, <2>4, <2>5, IntoMl DEF Freed, Touches
    <2> QED
      BY <1>4, <2>4, <2>6, MovedThen DEF Freed
  <1> QED
    BY <1>2, <1>3, <1>4

FloatFlag(s, c, b) == [s EXCEPT !.flags[c].float = b]

LEMMA FloatFlagIs ==
  ASSUME NEW s, Sound(s), NEW c \in Clients, NEW b \in BOOLEAN, NEW t, t = FloatFlag(s, c, b),
         Nowhere(s, c)
  PROVE  Freed(t, s, c) /\ t.flags[c].float = b /\ t.flags[c].mini = s.flags[c].mini
  <1>1. /\ t \in States /\ SameElse(t, s) /\ t.lists = s.lists
        /\ t.flags[c].float = b /\ t.flags[c].mini = s.flags[c].mini
        /\ t.flags[c].persistent = s.flags[c].persistent
        /\ \A d \in Clients : d # c => t.flags[d] = s.flags[d]
    BY DEF FloatFlag, Sound, States, Flagsets, SameElse
  <1>2. Sound(t)
    BY <1>1 DEF Sound
  <1>3. \A k, w, e : At(t, k, w, e) <=> At(s, k, w, e)
    BY <1>1 DEF At
  <1> QED
    BY <1>1, <1>2, <1>3 DEF Freed, Touches, SameOthers, Nowhere

LEMMA StartListsIs ==
  ASSUME NEW s, Sound(s), NEW c \in Clients, Nowhere(s, c), s.flags[c] = NoFlags,
         NEW w \in Workspaces, NEW float \in BOOLEAN, NEW focus, focus \in Clients \cup {None},
         NEW t, t = StartLists(s, c, w, float, focus), IntMax \in Int
  PROVE  \E e : Moved(t, s, c, "ul", w, e) /\ e.stay = FALSE
  <1>1. PICK pos : pos = IF (focus # None /\ FocusStart = "adjacent") /\ ~float
                           THEN Position(ClOf(s, w), focus) + 1 ELSE IntMax
    OBVIOUS
  <1>2. pos \in Int
    <2>1. focus # None => Position(ClOf(s, w), focus) \in Int
      BY PositionType
    <2> QED
      BY <1>1, <2>1
  <1>3. PICK kind \in {"CL", "FL"} : kind = IF float THEN "FL" ELSE "CL"
    OBVIOUS
  <1>4. PICK rec : rec = [of |-> c, pos |-> pos, origin |-> kind, before |-> kind,
                          stay |-> FALSE]
    OBVIOUS
  <1>5. /\ rec \in Unmapped /\ rec.of = c /\ rec.stay = FALSE /\ rec.before # "ML"
        /\ float => rec.origin = "FL"
    BY <1>2, <1>3, <1>4 DEF Unmapped, Origins
  <1>6. PICK a : a = FloatFlag(s, c, float)
    OBVIOUS
  <1>7. t = UlPush(a, w, rec)
    BY <1>1, <1>3, <1>4, <1>6 DEF StartLists, FloatFlag
  <1>8. Freed(a, s, c) /\ a.flags[c].float = float /\ a.flags[c].mini = s.flags[c].mini
    BY <1>6, FloatFlagIs
  <1>9. Fits(a.flags[c], "ul", rec)
    BY <1>5, <1>8 DEF Fits, Freed, NoFlags
  <1>10. Moved(t, a, c, "ul", w, rec)
    BY <1>5, <1>7, <1>8, <1>9, IntoUl DEF Freed, Touches
  <1> QED
    BY <1>5, <1>8, <1>10, MovedThen DEF Freed

EndLists(s, w, c) ==
  LET out == MlRemove(FlRemove([s EXCEPT !.lists[w].cl = ClRemove(@, c)], w, c), w, c)
      all == [out EXCEPT !.lists[w].ul = Without(@, c)]
  IN [all EXCEPT !.flags[c] = NoFlags]

LEMMA FlagsCleared ==
  ASSUME NEW s, Sound(s), NEW c \in Clients, NEW t, t = [s EXCEPT !.flags[c] = NoFlags],
         Nowhere(s, c)
  PROVE  Touches(t, s, c) /\ Nowhere(t, c) /\ t.flags[c] = NoFlags
  <1>1. /\ t \in States /\ SameElse(t, s) /\ t.lists = s.lists /\ t.flags[c] = NoFlags
        /\ \A d \in Clients : d # c => t.flags[d] = s.flags[d]
    BY DEF Sound, States, Flagsets, SameElse, NoFlags
  <1>2. Sound(t)
    BY <1>1 DEF Sound
  <1>3. \A k, w, e : At(t, k, w, e) <=> At(s, k, w, e)
    BY <1>1 DEF At
  <1> QED
    BY <1>1, <1>2, <1>3 DEF Touches, SameOthers, Nowhere

(* end_manage takes a client out of whatever list it is in.                *)
LEMMA EndListsIs ==
  ASSUME NEW s, Sound(s), NEW c, NEW k, NEW w, NEW e, Home(s, c, k, w, e),
         Fits(s.flags[c], k, e), NEW t, t = EndLists(s, w, c)
  PROVE  Touches(t, s, c) /\ Nowhere(t, c) /\ t.flags[c] = NoFlags
  <1>1. /\ w \in Workspaces /\ c \in Clients /\ k \in {"cl", "fl", "ml", "ul"}
        /\ \A k1 : k1 # k => ~Lies(s, k1, w, c)
    BY AtHome
  <1>2. PICK a1 : a1 = ClTake(s, w, c)
    OBVIOUS
  <1>3. PICK a2 : a2 = FlRemove(a1, w, c)
    OBVIOUS
  <1>4. PICK a3 : a3 = MlRemove(a2, w, c)
    OBVIOUS
  <1>5. PICK a4 : a4 = UlTake(a3, w, c)
    OBVIOUS
  <1>6. t = [a4 EXCEPT !.flags[c] = NoFlags]
    BY <1>2, <1>3, <1>4, <1>5 DEF EndLists, ClTake, UlTake
  <1> DEFINE Gone(a) == Touches(a, s, c) /\ Nowhere(a, c)
             Same(a) == Touches(a, s, c) /\ Home(a, c, k, w, e) /\ a.flags[c] = s.flags[c]
  <1>7. ASSUME NEW a, NEW b, \/ b = ClTake(a, w, c) \/ b = UlTake(a, w, c)
                             \/ b = FlRemove(a, w, c) \/ b = MlRemove(a, w, c), Gone(a)
        PROVE  Gone(b)
    <2>1. Sound(a)
      BY <1>7 DEF Touches
    <2>2. Freed(b, a, c)
      BY <1>1, <1>7, <2>1, StaysAway
    <2> QED
      BY <1>7, <2>2, TouchesThen DEF Freed
  <1>8. ASSUME NEW a, NEW b, Same(a),
               \/ b = ClTake(a, w, c) /\ k = "cl"
               \/ b = FlRemove(a, w, c) /\ k = "fl"
               \/ b = MlRemove(a, w, c) /\ k = "ml"
               \/ b = UlTake(a, w, c) /\ k = "ul"
        PROVE  Gone(b)
    <2>1. Sound(a) /\ Fits(a.flags[c], k, e)
      BY <1>8 DEF Touches
    <2>2. Freed(b, a, c)
      BY <1>8, <2>1, Departs
    <2> QED
      BY <1>8, <2>2, TouchesThen DEF Freed
  <1>9. ASSUME NEW a, NEW b, Same(a),
               \/ b = FlRemove(a, w, c) /\ k # "fl"
               \/ b = MlRemove(a, w, c) /\ k # "ml"
        PROVE  Same(b)
    <2>1. Sound(a)
      BY <1>9 DEF Touches
    <2>2. \A k1 : k1 # k => ~Lies(a, k1, w, c)
      BY <1>9, <2>1, AtHome
    <2>3. b = a
      BY <1>1, <1>9, <2>1, <2>2, FlTaken, MlTaken
    <2> QED
      BY <1>9, <2>3
  <1>10. k # "cl" => Same(a1)
    <2> SUFFICES ASSUME k # "cl" PROVE Same(a1)
      OBVIOUS
    <2>1. Sound(a1) /\ SameElse(a1, s) /\ a1.flags = s.flags /\ Loses(a1, s, "cl", w, c)
      BY <1>1, <1>2, ClTaken
    <2>2. SameOthers(a1, s, c)
      BY <2>1 DEF Loses, SameOthers
    <2>3. Home(a1, c, k, w, e)
      BY <2>1 DEF Home, Loses
    <2> QED
      BY <2>1, <2>2, <2>3 DEF Touches
  <1>11. Same(s)
    BY TouchesNot
  <1> HIDE DEF Gone, Same
  <1>12. Gone(a4)
    <2>1. CASE k = "cl"
      BY <1>2, <1>3, <1>4, <1>5, <1>7, <1>8, <1>11, <2>1
    <2>2. CASE k = "fl"
      BY <1>3, <1>4, <1>5, <1>7, <1>8, <1>10, <2>2
    <2>3. CASE k = "ml"
      BY <1>3, <1>4, <1>5, <1>7, <1>8, <1>9, <1>10, <2>3
    <2>4. CASE k = "ul"
      BY <1>3, <1>4, <1>5, <1>8, <1>9, <1>10, <2>4
    <2> QED
      BY <1>1, <2>1, <2>2, <2>3, <2>4
  <1>13. Sound(a4) /\ Touches(a4, s, c) /\ Nowhere(a4, c)
    BY <1>12 DEF Gone, Touches
  <1>14. Touches(t, a4, c) /\ Nowhere(t, c) /\ t.flags[c] = NoFlags
    BY <1>1, <1>6, <1>13, FlagsCleared
  <1> QED
    BY <1>13, <1>14, TouchesThen

-----------------------------------------------------------------------------
(* A client where its flags say.                                           *)

Spot(s, c, k, w, e) == Home(s, c, k, w, e) /\ Fits(s.flags[c], k, e)

Placed(s, c) ==
  IF s.client[c].managed THEN \E k, w, e : Spot(s, c, k, w, e)
                         ELSE Nowhere(s, c) /\ s.flags[c] = NoFlags

UlAt(k, e) == IF k # "ul" THEN "none" ELSE IF e.stay THEN "stay" ELSE "can"

(* What the code asks of the lists, answered.                              *)
LEMMA WhereIs ==
  ASSUME NEW s, Sound(s), NEW c, NEW k, NEW w, NEW e, Home(s, c, k, w, e)
  PROVE  /\ PlaceOf(s, c) = w /\ UlOf(s, w, c) = UlAt(k, e) /\ Mode(s, c) = ModeAt(k, e)
         /\ w \in Workspaces
  <1>1. /\ w \in Workspaces /\ c \in Clients /\ k \in {"cl", "fl", "ml", "ul"}
        /\ k = "ul" => RecordOf(s.lists[w].ul, c) = e
        /\ \A v \in Workspaces : /\ In(s.lists[v].cl, c) <=> k = "cl" /\ v = w
                                 /\ Has(s.lists[v].fl, c) <=> k = "fl" /\ v = w
                                 /\ Has(s.lists[v].ml, c) <=> k = "ml" /\ v = w
                                 /\ Has(s.lists[v].ul, c) <=> k = "ul" /\ v = w
    BY AtHome
  <1>2. \A v \in Workspaces : Holds(s.lists[v], c) <=> v = w
    BY <1>1 DEF Holds
  <1>3. PlaceOf(s, c) = w
    BY <1>1, <1>2 DEF PlaceOf
  <1>4. w # NoWorkspace
    BY <1>1, ListsAssumption
  <1>5. UlOf(s, w, c) = UlAt(k, e)
    BY <1>1, <1>4 DEF UlOf, UlAt
  <1>6. Mode(s, c) = ModeAt(k, e)
    <2>1. CASE k = "cl"
      BY <1>1, <1>3, <2>1 DEF Mode, ModeAt
    <2>2. CASE k = "fl"
      BY <1>1, <1>3, <2>2 DEF Mode, ModeAt
    <2>3. CASE k = "ml"
      BY <1>1, <1>3, <2>3 DEF Mode, ModeAt
    <2>4. CASE k = "ul"
      BY <1>1, <1>3, <2>4 DEF Mode, ModeAt
    <2> QED
      BY <1>1, <2>1, <2>2, <2>3, <2>4
  <1> QED
    BY <1>1, <1>3, <1>5, <1>6

LEMMA NowhereIs ==
  ASSUME NEW s, Sound(s), NEW c, Nowhere(s, c)
  PROVE  /\ PlaceOf(s, c) = NoWorkspace /\ UlOf(s, NoWorkspace, c) = "none"
         /\ \A w \in Workspaces : ~Holds(s.lists[w], c)
  <1>1. ASSUME NEW w \in Workspaces PROVE ~Holds(s.lists[w], c)
    <2>1. \A k : ~Lies(s, k, w, c)
      BY DEF Lies, Nowhere
    <2>2. /\ ~In(s.lists[w].cl, c) /\ ~Has(s.lists[w].fl, c)
          /\ ~Has(s.lists[w].ml, c) /\ ~Has(s.lists[w].ul, c)
      BY <2>1, LiesIs
    <2> QED
      BY <2>2 DEF Holds
  <1>2. PlaceOf(s, c) = NoWorkspace
    BY <1>1 DEF PlaceOf
  <1> QED
    BY <1>1, <1>2 DEF UlOf

(* Who is not touched stays where he is.                                   *)
LEMMA OthersKept ==
  ASSUME NEW s, NEW t, NEW c, Touches(t, s, c), NEW d \in Clients, d # c
  PROVE  /\ Nowhere(s, d) => Nowhere(t, d)
         /\ \A k, w, e : Spot(s, d, k, w, e) => Spot(t, d, k, w, e)
         /\ t.flags[d] = s.flags[d]
  <1>1. t.flags[d] = s.flags[d] /\ SameOthers(t, s, c)
    BY DEF Touches
  <1>2. Nowhere(s, d) => Nowhere(t, d)
    BY <1>1 DEF SameOthers, Nowhere
  <1>3. ASSUME NEW k, NEW w, NEW e, Home(s, d, k, w, e) PROVE Home(t, d, k, w, e)
    BY <1>1, <1>3 DEF SameOthers, Home
  <1> QED
    BY <1>1, <1>2, <1>3 DEF Spot

(* Two states where d is in the same place look the same to those who ask. *)
LEMMA SameAnswers ==
  ASSUME NEW s, Sound(s), NEW t, Sound(t), NEW d,
         \/ Nowhere(s, d) /\ Nowhere(t, d)
         \/ \E k, w, e : Home(s, d, k, w, e) /\ Home(t, d, k, w, e)
  PROVE  /\ PlaceOf(t, d) = PlaceOf(s, d)
         /\ UlOf(t, PlaceOf(t, d), d) = UlOf(s, PlaceOf(s, d), d)
  <1>1. CASE Nowhere(s, d) /\ Nowhere(t, d)
    BY <1>1, NowhereIs
  <1>2. CASE \E k, w, e : Home(s, d, k, w, e) /\ Home(t, d, k, w, e)
    BY <1>2, WhereIs
  <1> QED
    BY <1>1, <1>2

-----------------------------------------------------------------------------
(* The keys that change modes move clients between the lists of mapped     *)
(* ones, each within its workspace.                                        *)

Rearranged(t, s) ==
  /\ Sound(t) /\ SameElse(t, s)
  /\ \A c \in Clients :
       /\ Nowhere(s, c) => Nowhere(t, c) /\ t.flags[c] = s.flags[c]
       /\ \A k, w, e : Spot(s, c, k, w, e) =>
            IF k = "ul" THEN Spot(t, c, k, w, e)
            ELSE \E k1 \in {"cl", "fl", "ml"} : \E e1 : Spot(t, c, k1, w, e1)

LEMMA RearrangedNot ==
  ASSUME NEW s, Sound(s)
  PROVE  Rearranged(s, s)
  <1>1. \A c, k, w, e : Spot(s, c, k, w, e) => k \in {"cl", "fl", "ml", "ul"}
    BY AtHome DEF Spot
  <1> QED
    BY <1>1 DEF Rearranged, SameElse

LEMMA RearrangedBy ==
  ASSUME NEW s, Sound(s), NEW c \in Clients, NEW k, NEW w, NEW e, Home(s, c, k, w, e), k # "ul",
         NEW t, NEW k1 \in {"cl", "fl", "ml"}, NEW e1, Moved(t, s, c, k1, w, e1)
  PROVE  Rearranged(t, s)
  <1>1. Touches(t, s, c) /\ Spot(t, c, k1, w, e1)
    BY DEF Moved, Spot
  <1>2. Sound(t) /\ SameElse(t, s)
    BY <1>1 DEF Touches
  <1>3. ~Nowhere(s, c)
    BY DEF Home, Nowhere
  <1>4. \A k2, w2, e2 : Spot(s, c, k2, w2, e2) => k2 = k /\ w2 = w
    BY DEF Spot, Home
  <1>5. ASSUME NEW d \in Clients, d # c
        PROVE  /\ Nowhere(s, d) => Nowhere(t, d) /\ t.flags[d] = s.flags[d]
               /\ \A k2, w2, e2 : Spot(s, d, k2, w2, e2) =>
                    IF k2 = "ul" THEN Spot(t, d, k2, w2, e2)
                    ELSE \E k3 \in {"cl", "fl", "ml"} : \E e3 : Spot(t, d, k3, w2, e3)
    <2>1. /\ Nowhere(s, d) => Nowhere(t, d) /\ t.flags[d] = s.flags[d]
          /\ \A k2, w2, e2 : Spot(s, d, k2, w2, e2) => Spot(t, d, k2, w2, e2)
      BY <1>1, <1>5, OthersKept
    <2>2. \A k2, w2, e2 : Spot(s, d, k2, w2, e2) => k2 \in {"cl", "fl", "ml", "ul"}
      BY AtHome DEF Spot
    <2> QED
      BY <2>1, <2>2
  <1>6. /\ Nowhere(s, c) => Nowhere(t, c) /\ t.flags[c] = s.flags[c]
        /\ \A k2, w2, e2 : Spot(s, c, k2, w2, e2) =>
             IF k2 = "ul" THEN Spot(t, c, k2, w2, e2)
             ELSE \E k3 \in {"cl", "fl", "ml"} : \E e3 : Spot(t, c, k3, w2, e3)
    BY <1>1, <1>3, <1>4
  <1> QED
    BY <1>2, <1>5, <1>6 DEF Rearranged

LEMMA RearrangedThen ==
  ASSUME NEW s, NEW a, NEW t, Rearranged(a, s), Rearranged(t, a)
  PROVE  Rearranged(t, s)
  <1>1. Sound(t) /\ SameElse(t, s)
    BY DEF Rearranged, SameElse
  <1>2. ASSUME NEW c \in Clients, Nowhere(s, c)
        PROVE  Nowhere(t, c) /\ t.flags[c] = s.flags[c]
    BY <1>2 DEF Rearranged
  <1>3. ASSUME NEW c \in Clients, NEW k, NEW w, NEW e, Spot(s, c, k, w, e)
        PROVE  IF k = "ul" THEN Spot(t, c, k, w, e)
               ELSE \E k1 \in {"cl", "fl", "ml"} : \E e1 : Spot(t, c, k1, w, e1)
    <2>1. CASE k = "ul"
      <3>1. Spot(a, c, k, w, e)
        BY <1>3, <2>1 DEF Rearranged
      <3>2. Spot(t, c, k, w, e)
        BY <3>1, <2>1 DEF Rearranged
      <3> QED
        BY <2>1, <3>2
    <2>2. CASE k # "ul"
      <3>1. PICK k1, e1 : k1 \in {"cl", "fl", "ml"} /\ Spot(a, c, k1, w, e1)
        BY <1>3, <2>2 DEF Rearranged
      <3>2. k1 # "ul"
        BY <3>1
      <3>3. \E k2 \in {"cl", "fl", "ml"} : \E e2 : Spot(t, c, k2, w, e2)
        BY <3>1, <3>2 DEF Rearranged
      <3> QED
        BY <2>2, <3>3
    <2> QED
      BY <2>1, <2>2
  <1> QED
    BY <1>1, <1>2, <1>3 DEF Rearranged

(* A loop over the clients of some lists of w moves each of them.          *)
Modes(s, seq, w, K) ==
  [j \in 0..Len(seq) |->
     {t \in States : /\ Rearranged(t, s)
                     /\ \A i \in 1..Len(seq) : i > j =>
                          \E k \in K : \E e : Spot(t, seq[i], k, w, e)}]

LEMMA ModesStart ==
  ASSUME NEW s, Sound(s), NEW seq \in Seq(Clients), NEW w, NEW K,
         \A i \in 1..Len(seq) : \E k \in K : \E e : Spot(s, seq[i], k, w, e)
  PROVE  s \in Modes(s, seq, w, K)[0]
  <1>1. 0 \in 0..Len(seq)
    OBVIOUS
  <1> QED
    BY <1>1, RearrangedNot DEF Modes, Sound

LEMMA ModesEnd ==
  ASSUME NEW s, NEW seq \in Seq(Clients), NEW w, NEW K, NEW t,
         t \in Modes(s, seq, w, K)[Len(seq)]
  PROVE  Rearranged(t, s)
  <1>1. Len(seq) \in 0..Len(seq)
    OBVIOUS
  <1> QED
    BY <1>1 DEF Modes

LEMMA ModesStep ==
  ASSUME NEW s, NEW seq \in Seq(Clients), IsInjective(seq), NEW w,
         NEW K \in SUBSET {"cl", "fl", "ml"},
         NEW j \in 1..Len(seq), NEW a \in Modes(s, seq, w, K)[j - 1], NEW t,
         \A k \in K : \A e : Spot(a, seq[j], k, w, e) =>
           \E k1 \in {"cl", "fl", "ml"} : \E e1 : Moved(t, a, seq[j], k1, w, e1)
  PROVE  t \in Modes(s, seq, w, K)[j]
  <1>1. j \in 0..Len(seq) /\ j - 1 \in 0..Len(seq)
    OBVIOUS
  <1>2. /\ a \in States /\ Rearranged(a, s)
        /\ \A i \in 1..Len(seq) : i > j - 1 => \E k \in K : \E e : Spot(a, seq[i], k, w, e)
    BY <1>1 DEF Modes
  <1>3. seq[j] \in Clients /\ j > j - 1 /\ Sound(a)
    BY <1>2 DEF Rearranged
  <1>4. PICK k, e : k \in K /\ Spot(a, seq[j], k, w, e)
    BY <1>2, <1>3
  <1>5. PICK k1, e1 : k1 \in {"cl", "fl", "ml"} /\ Moved(t, a, seq[j], k1, w, e1)
    BY <1>4
  <1>6. k # "ul" /\ Home(a, seq[j], k, w, e)
    BY <1>4 DEF Spot
  <1>7. Rearranged(t, a)
    BY <1>3, <1>5, <1>6, RearrangedBy
  <1>8. Rearranged(t, s)
    BY <1>2, <1>7, RearrangedThen
  <1>9. ASSUME NEW i \in 1..Len(seq), i > j PROVE \E k2 \in K : \E e2 : Spot(t, seq[i], k2, w, e2)
    <2>1. i > j - 1 /\ seq[i] # seq[j] /\ seq[i] \in Clients
      BY <1>9 DEF IsInjective
    <2>2. PICK k2, e2 : k2 \in K /\ Spot(a, seq[i], k2, w, e2)
      BY <1>2, <2>1
    <2>3. Touches(t, a, seq[j])
      BY <1>5 DEF Moved
    <2>4. Spot(t, seq[i], k2, w, e2)
      BY <2>1, <2>2, <2>3, OthersKept
    <2> QED
      BY <2>2, <2>4
  <1>10. t \in States
    BY <1>8 DEF Rearranged, Sound
  <1> QED
    BY <1>1, <1>8, <1>9, <1>10 DEF Modes

LEMMA JoinedIs ==
  ASSUME NEW S, NEW a \in Seq(S), NEW b \in Seq(S)
  PROVE  /\ a \o b \in Seq(S) /\ Len(a \o b) = Len(a) + Len(b)
         /\ \A x : In(a \o b, x) <=> In(a, x) \/ In(b, x)
         /\ IsInjective(a) /\ IsInjective(b) /\ (\A x : ~(In(a, x) /\ In(b, x)))
              => IsInjective(a \o b)
  <1> DEFINE t == a \o b
  <1>1. /\ t \in Seq(S) /\ Len(t) = Len(a) + Len(b) /\ Len(a) \in Nat /\ Len(b) \in Nat
        /\ \A i \in 1..Len(a) : t[i] = a[i]
        /\ \A i \in 1..Len(b) : t[Len(a) + i] = b[i]
    OBVIOUS
  <1> HIDE DEF t
  <1>2. /\ \A x : In(t, x) <=> \E i \in 1..Len(t) : t[i] = x
        /\ \A x : In(a, x) <=> \E i \in 1..Len(a) : a[i] = x
        /\ \A x : In(b, x) <=> \E i \in 1..Len(b) : b[i] = x
    <2>1. \A x : In(t, x) <=> \E i \in 1..Len(t) : t[i] = x
      <3>1. DOMAIN t = 1..Len(t)
        BY <1>1
      <3> QED
        BY <3>1, Zenon DEF In
    <2>2. \A x : In(a, x) <=> \E i \in 1..Len(a) : a[i] = x
      BY InOf
    <2>3. \A x : In(b, x) <=> \E i \in 1..Len(b) : b[i] = x
      BY InOf
    <2> QED
      BY <2>1, <2>2, <2>3
  <1>3. ASSUME NEW i \in 1..Len(t)
        PROVE  \/ i \in 1..Len(a) /\ t[i] = a[i]
               \/ \E j \in 1..Len(b) : i = Len(a) + j /\ t[i] = b[j]
    <2>1. CASE i <= Len(a)
      BY SMTT(60), <1>1, <2>1
    <2>2. CASE ~(i <= Len(a))
      <3>1. i - Len(a) \in 1..Len(b) /\ i = Len(a) + (i - Len(a))
        BY <1>1, <2>2
      <3> QED
        BY <1>1, <3>1
    <2> QED
      BY <2>1, <2>2
  <1>4. ASSUME NEW x PROVE In(t, x) <=> In(a, x) \/ In(b, x)
    <2>1. ASSUME In(t, x) PROVE In(a, x) \/ In(b, x)
      BY <1>2, <1>3, <2>1
    <2>2. ASSUME In(a, x) PROVE In(t, x)
      <3>1. PICK i \in 1..Len(a) : a[i] = x
        BY <1>2, <2>2
      <3>2. i \in 1..Len(t) /\ t[i] = x
        BY <1>1, <3>1
      <3> QED
        BY <1>2, <3>2
    <2>3. ASSUME In(b, x) PROVE In(t, x)
      <3>1. PICK i \in 1..Len(b) : b[i] = x
        BY <1>2, <2>3
      <3>2. Len(a) + i \in 1..Len(t) /\ t[Len(a) + i] = x
        BY <1>1, <3>1
      <3> QED
        BY <1>2, <3>2
    <2> QED
      BY <2>1, <2>2, <2>3
  <1>5. ASSUME IsInjective(a), IsInjective(b), \A x : ~(In(a, x) /\ In(b, x))
        PROVE  IsInjective(t)
    <2>1. /\ \A i, j \in 1..Len(a) : a[i] = a[j] => i = j
          /\ \A i, j \in 1..Len(b) : b[i] = b[j] => i = j
      BY <1>1, <1>5 DEF IsInjective
    <2>2. \A i \in 1..Len(a), j \in 1..Len(b) : a[i] # b[j]
      BY <1>2, <1>5
    <2> SUFFICES ASSUME NEW i \in 1..Len(t), NEW j \in 1..Len(t), t[i] = t[j]
                 PROVE  i = j
      BY <1>1 DEF IsInjective
    <2>3. /\ \/ i \in 1..Len(a) /\ t[i] = a[i]
             \/ \E k \in 1..Len(b) : i = Len(a) + k /\ t[i] = b[k]
          /\ \/ j \in 1..Len(a) /\ t[j] = a[j]
             \/ \E k \in 1..Len(b) : j = Len(a) + k /\ t[j] = b[k]
      BY <1>3
    <2> QED
      BY <2>1, <2>2, <2>3
  <1> QED
    BY <1>1, <1>4, <1>5 DEF t

-----------------------------------------------------------------------------
(* Every client where it should be.                                        *)

Idles(s) == \A c \in Clients : Idle(s.client[c]) = s.client[c]

Good(s) == Sound(s) /\ Idles(s) /\ \A c \in Clients : Placed(s, c)

LEMMA SpotOf ==
  ASSUME NEW s, Good(s), NEW k, NEW w, NEW e, At(s, k, w, e)
  PROVE  Spot(s, Who(k, e), k, w, e)
  <1>1. PICK c \in Clients : c = Who(k, e)
    BY AtIs DEF Good
  <1>2. ~Nowhere(s, c)
    BY <1>1 DEF Nowhere
  <1>3. PICK k1, w1, e1 : Spot(s, c, k1, w1, e1)
    BY <1>2 DEF Good, Placed
  <1>4. k1 = k /\ w1 = w /\ e1 = e
    BY <1>1, <1>3 DEF Spot, Home
  <1> QED
    BY <1>1, <1>3, <1>4

LEMMA SpotIn ==
  ASSUME NEW s, Good(s), NEW w \in Workspaces, NEW c
  PROVE  /\ In(s.lists[w].cl, c) => \E e : Spot(s, c, "cl", w, e)
         /\ Has(s.lists[w].fl, c) => \E e : Spot(s, c, "fl", w, e)
         /\ Has(s.lists[w].ml, c) => \E e : Spot(s, c, "ml", w, e)
         /\ Has(s.lists[w].ul, c) => \E e : Spot(s, c, "ul", w, e)
  <1>1. Sound(s)
    BY DEF Good
  <1>2. /\ In(s.lists[w].cl, c) <=> Lies(s, "cl", w, c)
        /\ Has(s.lists[w].fl, c) <=> Lies(s, "fl", w, c)
        /\ Has(s.lists[w].ml, c) <=> Lies(s, "ml", w, c)
        /\ Has(s.lists[w].ul, c) <=> Lies(s, "ul", w, c)
    BY <1>1, LiesIs
  <1>3. ASSUME NEW k, Lies(s, k, w, c) PROVE \E e : Spot(s, c, k, w, e)
    BY <1>3, SpotOf DEF Lies
  <1> QED
    BY <1>2, <1>3

(* The members of the lists of a workspace, as sequences of clients.       *)
LEMMA ListsAre ==
  ASSUME NEW s, Sound(s), NEW w \in Workspaces, NEW m, m = s.lists[w]
  PROVE  /\ m.cl \in Seq(Clients) /\ IsInjective(m.cl)
         /\ Members(m.fl) \in Seq(Clients) /\ IsInjective(Members(m.fl))
         /\ Members(m.ml) \in Seq(Clients) /\ IsInjective(Members(m.ml))
         /\ Members(m.ul) \in Seq(Clients) /\ IsInjective(Members(m.ul))
         /\ \A c : In(Members(m.fl), c) <=> Has(m.fl, c)
         /\ \A c : In(Members(m.ml), c) <=> Has(m.ml, c)
         /\ \A c : In(Members(m.ul), c) <=> Has(m.ul, c)
  <1>1. /\ m.cl \in Seq(Clients) /\ IsInjective(m.cl)
        /\ m.fl \in Seq(Detached) /\ IsInjective(Members(m.fl))
        /\ m.ml \in Seq(Minimized) /\ IsInjective(Members(m.ml))
        /\ m.ul \in Seq(Unmapped) /\ IsInjective(Members(m.ul))
    BY SoundIs
  <1>2. Members(m.fl) \in Seq(Clients) /\ \A c : In(Members(m.fl), c) <=> Has(m.fl, c)
    BY <1>1, RecordTypes, MembersIs
  <1>3. Members(m.ml) \in Seq(Clients) /\ \A c : In(Members(m.ml), c) <=> Has(m.ml, c)
    BY <1>1, RecordTypes, MembersIs
  <1>4. Members(m.ul) \in Seq(Clients) /\ \A c : In(Members(m.ul), c) <=> Has(m.ul, c)
    BY <1>1, RecordTypes, MembersIs
  <1> QED
    BY <1>1, <1>2, <1>3, <1>4

(* No two lists of a workspace share a client.                             *)
LEMMA ListsApart ==
  ASSUME NEW s, Good(s), NEW w \in Workspaces, NEW c, NEW m, m = s.lists[w]
  PROVE  /\ ~(In(m.cl, c) /\ Has(m.fl, c)) /\ ~(In(m.cl, c) /\ Has(m.ml, c))
         /\ ~(In(m.cl, c) /\ Has(m.ul, c)) /\ ~(Has(m.fl, c) /\ Has(m.ml, c))
         /\ ~(Has(m.fl, c) /\ Has(m.ul, c)) /\ ~(Has(m.ml, c) /\ Has(m.ul, c))
  <1>1. Sound(s)
    BY DEF Good
  <1>2. /\ In(m.cl, c) <=> Lies(s, "cl", w, c)
        /\ Has(m.fl, c) <=> Lies(s, "fl", w, c)
        /\ Has(m.ml, c) <=> Lies(s, "ml", w, c)
        /\ Has(m.ul, c) <=> Lies(s, "ul", w, c)
    BY <1>1, LiesIs
  <1>3. ASSUME NEW k, NEW k1, Lies(s, k, w, c), Lies(s, k1, w, c) PROVE k = k1
    <2>1. PICK e, e1 : /\ At(s, k, w, e) /\ Who(k, e) = c
                       /\ At(s, k1, w, e1) /\ Who(k1, e1) = c
      BY <1>3 DEF Lies
    <2>2. Spot(s, c, k, w, e)
      BY <2>1, SpotOf
    <2> QED
      BY <2>1, <2>2 DEF Spot, Home
  <1>4. ~(Lies(s, "cl", w, c) /\ Lies(s, "fl", w, c)) /\ ~(Lies(s, "cl", w, c) /\ Lies(s, "ml", w, c))
    BY <1>3
  <1>5. ~(Lies(s, "cl", w, c) /\ Lies(s, "ul", w, c)) /\ ~(Lies(s, "fl", w, c) /\ Lies(s, "ml", w, c))
    BY <1>3
  <1>6. ~(Lies(s, "fl", w, c) /\ Lies(s, "ul", w, c)) /\ ~(Lies(s, "ml", w, c) /\ Lies(s, "ul", w, c))
    BY <1>3
  <1> QED
    BY <1>2, <1>4, <1>5, <1>6

LEMMA MappedAre ==
  ASSUME NEW s, Good(s), NEW w \in Workspaces, NEW m, m = s.lists[w]
  PROVE  /\ m.cl \o Members(m.fl) \in Seq(Clients)
         /\ IsInjective(m.cl \o Members(m.fl))
         /\ \A c : In(m.cl \o Members(m.fl), c) <=> In(m.cl, c) \/ Has(m.fl, c)
         /\ m.cl \o Members(m.fl) \o Members(m.ml) \in Seq(Clients)
         /\ IsInjective(m.cl \o Members(m.fl) \o Members(m.ml))
         /\ \A c : In(m.cl \o Members(m.fl) \o Members(m.ml), c) <=>
                     In(m.cl, c) \/ Has(m.fl, c) \/ Has(m.ml, c)
         /\ Everyone(m) \in Seq(Clients) /\ IsInjective(Everyone(m))
         /\ \A c : In(Everyone(m), c) <=> Holds(m, c)
  <1>1. PICK cl, fl, ml, ul : /\ cl = m.cl /\ fl = Members(m.fl)
                              /\ ml = Members(m.ml) /\ ul = Members(m.ul)
    OBVIOUS
  <1>2. /\ cl \in Seq(Clients) /\ IsInjective(cl) /\ fl \in Seq(Clients) /\ IsInjective(fl)
        /\ ml \in Seq(Clients) /\ IsInjective(ml) /\ ul \in Seq(Clients) /\ IsInjective(ul)
        /\ \A c : In(fl, c) <=> Has(m.fl, c)
        /\ \A c : In(ml, c) <=> Has(m.ml, c)
        /\ \A c : In(ul, c) <=> Has(m.ul, c)
    BY <1>1, ListsAre DEF Good
  <1>3. \A c : /\ ~(In(cl, c) /\ In(fl, c)) /\ ~(In(cl, c) /\ In(ml, c))
               /\ ~(In(cl, c) /\ In(ul, c)) /\ ~(In(fl, c) /\ In(ml, c))
               /\ ~(In(fl, c) /\ In(ul, c)) /\ ~(In(ml, c) /\ In(ul, c))
    BY <1>1, <1>2, ListsApart
  <1>4. PICK a : a = cl \o fl
    OBVIOUS
  <1>5. a \in Seq(Clients) /\ IsInjective(a) /\ \A c : In(a, c) <=> In(cl, c) \/ In(fl, c)
    BY <1>2, <1>3, <1>4, JoinedIs
  <1>6. PICK b : b = a \o ml
    OBVIOUS
  <1>7. b \in Seq(Clients) /\ IsInjective(b) /\ \A c : In(b, c) <=> In(a, c) \/ In(ml, c)
    BY <1>2, <1>3, <1>5, <1>6, JoinedIs
  <1>8. PICK d : d = b \o ul
    OBVIOUS
  <1>9. d \in Seq(Clients) /\ IsInjective(d) /\ \A c : In(d, c) <=> In(b, c) \/ In(ul, c)
    BY <1>2, <1>3, <1>5, <1>7, <1>8, JoinedIs
  <1>10. a = m.cl \o Members(m.fl) /\ b = m.cl \o Members(m.fl) \o Members(m.ml)
         /\ d = Everyone(m)
    BY <1>1, <1>4, <1>6, <1>8 DEF Everyone
  <1>11. \A c : In(d, c) <=> Holds(m, c)
    BY <1>1, <1>2, <1>5, <1>7, <1>9 DEF Holds
  <1>12. \A c : In(b, c) <=> In(m.cl, c) \/ Has(m.fl, c) \/ Has(m.ml, c)
    BY <1>1, <1>2, <1>5, <1>7
  <1>13. \A c : In(a, c) <=> In(m.cl, c) \/ Has(m.fl, c)
    BY <1>1, <1>2, <1>5
  <1> QED
    BY <1>5, <1>7, <1>9, <1>10, <1>11, <1>12, <1>13

(* The elements of a sequence are those it contains.                       *)
LEMMA ElementsIn ==
  ASSUME NEW S, NEW l \in Seq(S), NEW i \in 1..Len(l)
  PROVE  l[i] \in S /\ In(l, l[i])
  BY DEF In

LEMMA FloatAllIs ==
  ASSUME NEW s, Good(s), s.current \in Workspaces
  PROVE  Rearranged(ActionFloatAllTiled(s), s)
  <1>1. PICK w \in Workspaces : w = s.current
    OBVIOUS
  <1>2. PICK seq : seq = Members(s.lists[w].fl)
    OBVIOUS
  <1>3. Sound(s)
    BY DEF Good
  <1>4. seq \in Seq(Clients) /\ IsInjective(seq) /\ \A c : In(seq, c) <=> Has(s.lists[w].fl, c)
    BY <1>2, <1>3, ListsAre
  <1>5. ASSUME NEW i \in 1..Len(seq) PROVE \E k \in {"fl"} : \E e : Spot(s, seq[i], k, w, e)
    <2>1. Has(s.lists[w].fl, seq[i])
      BY <1>4, ElementsIn
    <2> QED
      BY <2>1, SpotIn
  <1> DEFINE Stage == Modes(s, seq, w, {"fl"})
  <1>6. s \in Stage[0]
    BY <1>3, <1>4, <1>5, ModesStart
  <1>7. ASSUME NEW j \in 1..Len(seq), NEW a \in Stage[j - 1]
        PROVE  TileOne(w, a, seq[j]) \in Stage[j]
    <2>1. PICK t : t = TileOne(w, a, seq[j])
      OBVIOUS
    <2>2. Sound(a)
      BY <1>4 DEF Modes, Rearranged
    <2>3. ASSUME NEW k \in {"fl"}, NEW e, Spot(a, seq[j], k, w, e)
          PROVE  \E k1 \in {"cl", "fl", "ml"} : \E e1 : Moved(t, a, seq[j], k1, w, e1)
      <3>1. Home(a, seq[j], "fl", w, e) /\ Fits(a.flags[seq[j]], "fl", e)
        BY <2>3 DEF Spot
      <3>2. t = ReattachFloat(a, w, seq[j])
        BY <2>1 DEF TileOne
      <3>3. Moved(t, a, seq[j], "cl", w, seq[j])
        BY <2>2, <3>1, <3>2, ReattachFloatIs
      <3> QED
        BY <3>3
    <2>4. t \in Stage[j]
      BY <1>4, <2>3, ModesStep
    <2> QED
      BY <2>1, <2>4
  <1>8. Tiling!Along(w, s, seq) \in Stage[Len(seq)]
    <2> HIDE DEF Stage
    <2> QED
      BY <1>4, <1>6, <1>7, Tiling!AlongStages
  <1>9. Rearranged(Tiling!Along(w, s, seq), s)
    BY <1>4, <1>8, ModesEnd
  <1> QED
    BY <1>1, <1>2, <1>9 DEF ActionFloatAllTiled

LEMMA TileAllIs ==
  ASSUME NEW s, Good(s), s.current \in Workspaces
  PROVE  Rearranged(ActionTileAllFloat(s), s)
  <1>1. PICK w \in Workspaces : w = s.current
    OBVIOUS
  <1>2. PICK seq : seq = s.lists[w].cl
    OBVIOUS
  <1>3. Sound(s)
    BY DEF Good
  <1>4. seq \in Seq(Clients) /\ IsInjective(seq)
    BY <1>2, <1>3, ListsAre
  <1>5. ASSUME NEW i \in 1..Len(seq) PROVE \E k \in {"cl"} : \E e : Spot(s, seq[i], k, w, e)
    <2>1. In(s.lists[w].cl, seq[i])
      BY <1>2, <1>4, ElementsIn
    <2> QED
      BY <2>1, SpotIn
  <1> DEFINE Stage == Modes(s, seq, w, {"cl"})
  <1>6. s \in Stage[0]
    BY <1>3, <1>4, <1>5, ModesStart
  <1>7. ASSUME NEW j \in 1..Len(seq), NEW a \in Stage[j - 1]
        PROVE  FloatOne(w, a, seq[j]) \in Stage[j]
    <2>1. PICK t : t = FloatOne(w, a, seq[j])
      OBVIOUS
    <2>2. Sound(a)
      BY <1>4 DEF Modes, Rearranged
    <2>3. ASSUME NEW k \in {"cl"}, NEW e, Spot(a, seq[j], k, w, e)
          PROVE  \E k1 \in {"cl", "fl", "ml"} : \E e1 : Moved(t, a, seq[j], k1, w, e1)
      <3>1. Home(a, seq[j], "cl", w, e) /\ Fits(a.flags[seq[j]], "cl", e)
        BY <2>3 DEF Spot
      <3>2. t = Detach(a, w, seq[j])
        BY <2>1 DEF FloatOne
      <3>3. \E e1 : Moved(t, a, seq[j], "fl", w, e1)
        BY <2>2, <3>1, <3>2, DetachIs
      <3> QED
        BY <3>3
    <2>4. t \in Stage[j]
      BY <1>4, <2>3, ModesStep
    <2> QED
      BY <2>1, <2>4
  <1>8. Floating!Along(w, s, seq) \in Stage[Len(seq)]
    <2> HIDE DEF Stage
    <2> QED
      BY <1>4, <1>6, <1>7, Floating!AlongStages
  <1>9. Rearranged(Floating!Along(w, s, seq), s)
    BY <1>4, <1>8, ModesEnd
  <1> QED
    BY <1>1, <1>2, <1>9 DEF ActionTileAllFloat, ClOf

LEMMA MinimizeAllIs ==
  ASSUME NEW s, Good(s), s.current \in Workspaces
  PROVE  Rearranged(ActionMinimizeAll(s), s)
  <1>1. PICK w \in Workspaces : w = s.current
    OBVIOUS
  <1>2. PICK m, seq : m = s.lists[w] /\ seq = m.cl \o Members(m.fl)
    OBVIOUS
  <1>3. Sound(s)
    BY DEF Good
  <1>4. /\ seq \in Seq(Clients) /\ IsInjective(seq)
        /\ \A c : In(seq, c) <=> In(m.cl, c) \/ Has(m.fl, c)
    BY <1>2, MappedAre
  <1>5. ASSUME NEW i \in 1..Len(seq) PROVE \E k \in {"cl", "fl"} : \E e : Spot(s, seq[i], k, w, e)
    <2>1. In(m.cl, seq[i]) \/ Has(m.fl, seq[i])
      BY <1>4, ElementsIn
    <2> QED
      BY <1>2, <2>1, SpotIn
  <1> DEFINE Stage == Modes(s, seq, w, {"cl", "fl"})
  <1>6. s \in Stage[0]
    BY <1>3, <1>4, <1>5, ModesStart
  <1>7. ASSUME NEW j \in 1..Len(seq), NEW a \in Stage[j - 1]
        PROVE  MinimizeOne(w, a, seq[j]) \in Stage[j]
    <2>1. PICK t : t = MinimizeOne(w, a, seq[j])
      OBVIOUS
    <2>2. Sound(a)
      BY <1>4 DEF Modes, Rearranged
    <2>3. ASSUME NEW k \in {"cl", "fl"}, NEW e, Spot(a, seq[j], k, w, e)
          PROVE  \E k1 \in {"cl", "fl", "ml"} : \E e1 : Moved(t, a, seq[j], k1, w, e1)
      <3>1. Home(a, seq[j], k, w, e) /\ Fits(a.flags[seq[j]], k, e)
        BY <2>3 DEF Spot
      <3>2. t = Minimize(a, w, seq[j])
        BY <2>1 DEF MinimizeOne
      <3>3. \E e1 : Moved(t, a, seq[j], "ml", w, e1)
        BY <2>2, <3>1, <3>2, MinimizeIs
      <3> QED
        BY <3>3
    <2>4. t \in Stage[j]
      BY <1>4, <2>3, ModesStep
    <2> QED
      BY <2>1, <2>4
  <1>8. Minimizing!Along(w, s, seq) \in Stage[Len(seq)]
    <2> HIDE DEF Stage
    <2> QED
      BY <1>4, <1>6, <1>7, Minimizing!AlongStages
  <1>9. Rearranged(Minimizing!Along(w, s, seq), s)
    BY <1>4, <1>8, ModesEnd
  <1> QED
    BY <1>1, <1>2, <1>9 DEF ActionMinimizeAll

LEMMA UnminimizeAllIs ==
  ASSUME NEW s, Good(s), s.current \in Workspaces
  PROVE  Rearranged(ActionUnminimizeAll(s), s)
  <1>1. PICK w \in Workspaces : w = s.current
    OBVIOUS
  <1>2. PICK seq : seq = Members(s.lists[w].ml)
    OBVIOUS
  <1>3. Sound(s)
    BY DEF Good
  <1>4. seq \in Seq(Clients) /\ IsInjective(seq) /\ \A c : In(seq, c) <=> Has(s.lists[w].ml, c)
    BY <1>2, <1>3, ListsAre
  <1>5. ASSUME NEW i \in 1..Len(seq) PROVE \E k \in {"ml"} : \E e : Spot(s, seq[i], k, w, e)
    <2>1. Has(s.lists[w].ml, seq[i])
      BY <1>4, ElementsIn
    <2> QED
      BY <2>1, SpotIn
  <1> DEFINE Stage == Modes(s, seq, w, {"ml"})
  <1>6. s \in Stage[0]
    BY <1>3, <1>4, <1>5, ModesStart
  <1>7. ASSUME NEW j \in 1..Len(seq), NEW a \in Stage[j - 1]
        PROVE  RestoreOne(w, a, seq[j]) \in Stage[j]
    <2>1. PICK t : t = RestoreOne(w, a, seq[j])
      OBVIOUS
    <2>2. Sound(a)
      BY <1>4 DEF Modes, Rearranged
    <2>3. ASSUME NEW k \in {"ml"}, NEW e, Spot(a, seq[j], k, w, e)
          PROVE  \E k1 \in {"cl", "fl", "ml"} : \E e1 : Moved(t, a, seq[j], k1, w, e1)
      <3>1. Home(a, seq[j], "ml", w, e) /\ Fits(a.flags[seq[j]], "ml", e)
        BY <2>3 DEF Spot
      <3>2. t = Restore(a, w, seq[j])
        BY <2>1 DEF RestoreOne
      <3>3. \E k1 \in {"cl", "fl"} : \E e1 : Moved(t, a, seq[j], k1, w, e1)
        BY <2>2, <3>1, <3>2, RestoreIs
      <3> QED
        BY <3>3
    <2>4. t \in Stage[j]
      BY <1>4, <2>3, ModesStep
    <2> QED
      BY <2>1, <2>4
  <1>8. Restoring!Along(w, s, seq) \in Stage[Len(seq)]
    <2> HIDE DEF Stage
    <2> QED
      BY <1>4, <1>6, <1>7, Restoring!AlongStages
  <1>9. Rearranged(Restoring!Along(w, s, seq), s)
    BY <1>4, <1>8, ModesEnd
  <1> QED
    BY <1>1, <1>2, <1>9 DEF ActionUnminimizeAll

LEMMA ToggleFloatIs ==
  ASSUME NEW s, Sound(s), NEW c \in Clients, NEW k \in {"cl", "fl", "ml"}, NEW e,
         Spot(s, c, k, s.current, e)
  PROVE  Rearranged(ActionToggleFloat(s, c), s)
  <1>1. PICK w, t : w = s.current /\ t = ActionToggleFloat(s, c)
    OBVIOUS
  <1>2. Home(s, c, k, w, e) /\ Fits(s.flags[c], k, e)
    BY <1>1 DEF Spot
  <1>3. \E k1 \in {"cl", "fl", "ml"} : \E e1 : Moved(t, s, c, k1, w, e1)
    <2>1. CASE k = "fl"
      <3>1. t = ReattachFloat(s, w, c)
        BY <1>1, <1>2, <2>1 DEF ActionToggleFloat, Fits
      <3>2. Moved(t, s, c, "cl", w, c)
        BY <1>2, <2>1, <3>1, ReattachFloatIs
      <3> QED
        BY <3>2
    <2>2. CASE k # "fl"
      <3>1. t = Detach(s, w, c)
        BY <1>1, <1>2, <2>2 DEF ActionToggleFloat, Fits
      <3>2. k \in {"cl", "ml"}
        BY <2>2
      <3>3. \E e1 : Moved(t, s, c, "fl", w, e1)
        BY <1>2, <3>1, <3>2, DetachIs
      <3> QED
        BY <3>3
    <2> QED
      BY <2>1, <2>2
  <1>4. k # "ul"
    OBVIOUS
  <1>5. Rearranged(t, s)
    BY <1>2, <1>3, <1>4, RearrangedBy
  <1> QED
    BY <1>1, <1>5

LEMMA MinimizeWindowIs ==
  ASSUME NEW s, Sound(s), NEW c \in Clients, NEW k \in {"cl", "fl", "ml"}, NEW e,
         Spot(s, c, k, s.current, e)
  PROVE  Rearranged(ActionMinimizeWindow(s, c), s)
  <1>1. PICK w, t : w = s.current /\ t = ActionMinimizeWindow(s, c)
    OBVIOUS
  <1>2. Home(s, c, k, w, e) /\ Fits(s.flags[c], k, e)
    BY <1>1 DEF Spot
  <1>3. \E k1 \in {"cl", "fl", "ml"} : \E e1 : Moved(t, s, c, k1, w, e1)
    <2>1. CASE k = "ml"
      <3>1. t = Restore(s, w, c)
        BY <1>1, <1>2, <2>1 DEF ActionMinimizeWindow, Fits
      <3>2. \E k1 \in {"cl", "fl"} : \E e1 : Moved(t, s, c, k1, w, e1)
        BY <1>2, <2>1, <3>1, RestoreIs
      <3> QED
        BY <3>2
    <2>2. CASE k # "ml"
      <3>1. t = Minimize(s, w, c)
        BY <1>1, <1>2, <2>2 DEF ActionMinimizeWindow, Fits
      <3>2. k \in {"cl", "fl"}
        BY <2>2
      <3>3. \E e1 : Moved(t, s, c, "ml", w, e1)
        BY <1>2, <3>1, <3>2, MinimizeIs
      <3> QED
        BY <3>3
    <2> QED
      BY <2>1, <2>2
  <1>4. k # "ul"
    OBVIOUS
  <1>5. Rearranged(t, s)
    BY <1>2, <1>3, <1>4, RearrangedBy
  <1> QED
    BY <1>1, <1>5

LEMMA NotMoreThanClients ==
  ASSUME NEW all \in Seq(Clients), IsInjective(all)
  PROVE  Len(all) <= Cardinality(Clients)
  <1>1. PICK n \in Nat : n = Len(all)
    OBVIOUS
  <1>2. DOMAIN all = 1..n /\ all \in [1..n -> Clients]
    BY <1>1
  <1>3. all \in Injection(1..n, Clients)
    BY <1>2 DEF Injection
  <1>4. IsFiniteSet(Clients)
    BY ListsAssumption
  <1>5. Cardinality(1..n) <= Cardinality(Clients)
    BY <1>3, <1>4, FS_Injection
  <1>6. Cardinality(1..n) = n
    <2>1. Cardinality(1..n) = IF 1 > n THEN 0 ELSE n - 1 + 1
      BY 1 \in Int, n \in Int, FS_Interval
    <2> QED
      BY <2>1
  <1> QED
    BY <1>1, <1>5, <1>6

LEMMA GoodOnce ==
  ASSUME Good(Now)
  PROVE  InExactlyOneList
  <1>1. \A w : Now.lists[w] = lists[w]
    BY DEF Now
  <1>2. \A c : Now.client[c] = client[c]
    BY DEF Now
  <1>3. ASSUME NEW w \in Workspaces
        PROVE  /\ Everyone(lists[w]) \in Seq(Clients) /\ IsInjective(Everyone(lists[w]))
               /\ \A c : In(Everyone(lists[w]), c) <=> Holds(lists[w], c)
               /\ Len(Everyone(lists[w])) <= Cardinality(Clients)
    <2>1. /\ Everyone(lists[w]) \in Seq(Clients) /\ IsInjective(Everyone(lists[w]))
          /\ \A c : In(Everyone(lists[w]), c) <=> Holds(lists[w], c)
      BY <1>1, MappedAre
    <2> QED
      BY <2>1, NotMoreThanClients
  <1>4. ASSUME NEW c \in Clients
        PROVE  Cardinality(HeldBy(c)) = IF client[c].managed THEN 1 ELSE 0
    <2>1. CASE ~client[c].managed
      <3>1. Nowhere(Now, c) /\ Sound(Now)
        BY <1>2, <2>1 DEF Good, Placed
      <3>2. \A w \in Workspaces : ~Holds(lists[w], c)
        BY <1>1, <3>1, NowhereIs
      <3>3. HeldBy(c) = {}
        <4> SUFFICES ASSUME NEW p \in Workspaces \X (1..Cardinality(Clients)),
                            p[2] \in DOMAIN Everyone(lists[p[1]]),
                            Everyone(lists[p[1]])[p[2]] = c
                     PROVE  FALSE
          BY DEF HeldBy
        <4>1. p[1] \in Workspaces
          OBVIOUS
        <4>2. In(Everyone(lists[p[1]]), c)
          BY Zenon DEF In
        <4> QED
          BY <1>3, <3>2, <4>1, <4>2
      <3> QED
        BY <2>1, <3>3, FS_EmptySet
    <2>2. CASE client[c].managed
      <3>1. PICK k, w, e : Home(Now, c, k, w, e)
        BY <1>2, <2>2 DEF Good, Placed, Spot
      <3>2. Sound(Now)
        BY DEF Good
      <3>3. /\ w \in Workspaces /\ k \in {"cl", "fl", "ml", "ul"}
            /\ \A v \in Workspaces : /\ In(lists[v].cl, c) <=> k = "cl" /\ v = w
                                     /\ Has(lists[v].fl, c) <=> k = "fl" /\ v = w
                                     /\ Has(lists[v].ml, c) <=> k = "ml" /\ v = w
                                     /\ Has(lists[v].ul, c) <=> k = "ul" /\ v = w
        BY <1>1, <3>1, <3>2, AtHome
      <3>4. \A v \in Workspaces : Holds(lists[v], c) <=> v = w
        BY <3>3 DEF Holds
      <3>5. PICK all : all = Everyone(lists[w])
        OBVIOUS
      <3>6. /\ all \in Seq(Clients) /\ IsInjective(all) /\ In(all, c)
            /\ Len(all) <= Cardinality(Clients) /\ DOMAIN all = 1..Len(all)
        BY <1>3, <3>3, <3>4, <3>5
      <3>7. PICK i \in 1..Len(all) : all[i] = c
        BY <3>6, InOf
      <3>8. i \in 1..Cardinality(Clients)
        <4>1. Cardinality(Clients) \in Nat
          BY ListsAssumption, FS_CardinalityType
        <4> QED
          BY <3>6, <4>1
      <3>9. HeldBy(c) = {<<w, i>>}
        <4>1. <<w, i>> \in HeldBy(c)
          BY <3>3, <3>5, <3>6, <3>7, <3>8 DEF HeldBy
        <4>2. ASSUME NEW p \in HeldBy(c) PROVE p = <<w, i>>
          <5>1. /\ p \in Workspaces \X (1..Cardinality(Clients))
                /\ p[2] \in DOMAIN Everyone(lists[p[1]]) /\ Everyone(lists[p[1]])[p[2]] = c
            BY DEF HeldBy
          <5>2. p[1] \in Workspaces /\ p = <<p[1], p[2]>>
            BY <5>1
          <5>3. In(Everyone(lists[p[1]]), c)
            BY <5>1, Zenon DEF In
          <5>4. p[1] = w
            BY <1>3, <3>4, <5>2, <5>3
          <5>5. p[2] \in 1..Len(all) /\ all[p[2]] = c
            BY <3>5, <3>6, <5>1, <5>4
          <5>6. p[2] = i
            BY <3>6, <3>7, <5>5 DEF IsInjective
          <5> QED
            BY <5>2, <5>4, <5>6
        <4> QED
          BY <4>1, <4>2
      <3> QED
        BY <2>2, <3>9, FS_Singleton
    <2> QED
      BY <2>1, <2>2
  <1> QED
    BY <1>3, <1>4 DEF InExactlyOneList

LEMMA GoodFlags ==
  ASSUME Good(Now)
  PROVE  FlagsNameTheList
  <1> SUFFICES ASSUME NEW w \in Workspaces, NEW c \in Clients
               PROVE  /\ In(lists[w].cl, c) => ~flags[c].float /\ ~flags[c].mini
                      /\ Has(lists[w].fl, c) => flags[c].float /\ ~flags[c].mini
                      /\ Has(lists[w].ml, c) => flags[c].mini /\ ~flags[c].float
    BY DEF FlagsNameTheList
  <1>1. Now.lists[w] = lists[w] /\ Now.flags[c] = flags[c]
    BY DEF Now
  <1>2. /\ In(lists[w].cl, c) => \E e : Spot(Now, c, "cl", w, e)
        /\ Has(lists[w].fl, c) => \E e : Spot(Now, c, "fl", w, e)
        /\ Has(lists[w].ml, c) => \E e : Spot(Now, c, "ml", w, e)
    BY <1>1, SpotIn
  <1>3. In(lists[w].cl, c) => ~flags[c].float /\ ~flags[c].mini
    BY <1>1, <1>2 DEF Spot, Fits
  <1>4. Has(lists[w].fl, c) => flags[c].float /\ ~flags[c].mini
    BY <1>1, <1>2 DEF Spot, Fits
  <1>5. Has(lists[w].ml, c) => flags[c].mini /\ ~flags[c].float
    BY <1>1, <1>2 DEF Spot, Fits
  <1> QED
    BY <1>3, <1>4, <1>5

-----------------------------------------------------------------------------
(* The notices of a client, in the queue.                                  *)

Told(c, ns) == [i \in DOMAIN ns |-> [what |-> ns[i], of |-> c]]

(* f is the course of the search for c's events in q.                      *)
Course(f, c, q) ==
  f[0] = <<>> /\ \A k \in 1..Len(q) : f[k] = Hear(c, f[k - 1], q[k])

LEMMA CourseEnds ==
  ASSUME NEW c, NEW q \in Seq(Events), NEW f, Course(f, c, q)
  PROVE  NoticesOf(q, c) = f[Len(q)]
  <1> DEFINE Stage == [k \in 0..Len(q) |-> {f[k]}]
  <1>1. Len(q) \in Nat /\ 0 \in 0..Len(q) /\ Len(q) \in 0..Len(q)
    OBVIOUS
  <1>2. <<>> \in Stage[0]
    BY <1>1 DEF Course
  <1>3. ASSUME NEW k \in 1..Len(q), NEW t \in Stage[k - 1] PROVE Hear(c, t, q[k]) \in Stage[k]
    <2>1. k \in 0..Len(q) /\ k - 1 \in 0..Len(q)
      BY <1>1
    <2>2. t = f[k - 1]
      BY <2>1
    <2>3. f[k] = Hear(c, f[k - 1], q[k])
      BY DEF Course
    <2> QED
      BY <2>1, <2>2, <2>3
  <1>4. Hearing!Along(c, <<>>, q) \in Stage[Len(q)]
    <2> HIDE DEF Stage
    <2> QED
      BY <1>2, <1>3, Hearing!AlongStages
  <1> QED
    BY <1>1, <1>4 DEF NoticesOf

LEMMA CourseExists ==
  ASSUME NEW c, NEW q \in Seq(Events)
  PROVE  \E f \in [0..Len(q) -> Seq(V!Notices)] : Course(f, c, q)
  <1>0. \A k \in 1..Len(q) : q[k] \in Events /\ k \in Nat
    OBVIOUS
  <1> DEFINE N == Seq(V!Notices)
             Part(f, k) == f[0] = <<>> /\ \A i \in 1..k : f[i] = Hear(c, f[i - 1], q[i])
             Stage == [k \in 0..Len(q) |-> {v \in N : \E f \in [0..k -> N] : Part(f, k) /\ f[k] = v}]
  <1>1. Len(q) \in Nat /\ 0 \in 0..Len(q) /\ Len(q) \in 0..Len(q)
    OBVIOUS
  <1>2. <<>> \in Stage[0]
    <2> DEFINE f == [i \in 0..0 |-> <<>>]
    <2>1. f \in [0..0 -> N] /\ Part(f, 0) /\ f[0] = <<>> /\ <<>> \in N
      OBVIOUS
    <2> QED
      BY <1>1, <2>1
  <1>3. ASSUME NEW k \in 1..Len(q), NEW t \in Stage[k - 1] PROVE Hear(c, t, q[k]) \in Stage[k]
    <2>1. k \in 0..Len(q) /\ k - 1 \in 0..Len(q)
      BY <1>1
    <2>2. PICK f \in [0..(k - 1) -> N] : Part(f, k - 1) /\ f[k - 1] = t
      BY <2>1
    <2>3. t \in N
      BY <2>1
    <2>4. PICK u : u = Hear(c, t, q[k])
      OBVIOUS
    <2>5. u \in N
      <3>1. PICK e \in Events : e = q[k]
        <4> HIDE DEF N, Stage, Part
        <4> QED
          BY <1>0
      <3>2. e.what \in V!Notices
        BY DEF Events
      <3> QED
        BY <2>3, <2>4, <3>1, <3>2 DEF Hear
    <2> DEFINE g == [i \in 0..k |-> IF i = k THEN u ELSE f[i]]
    <2>6. g \in [0..k -> N] /\ g[k] = u /\ \A i \in 0..(k - 1) : g[i] = f[i]
      <3>1. /\ \A i \in 0..k : i = k \/ i \in 0..(k - 1)
            /\ \A i \in 0..(k - 1) : i \in 0..k /\ i # k
            /\ k \in 0..k
        <4> HIDE DEF N, Stage, Part
        <4>1. k \in Nat
          BY <1>0
        <4> QED
          BY <4>1
      <3> HIDE DEF N, Stage, Part
      <3>2. \A i \in 0..k : g[i] \in N
        BY <2>5, <3>1
      <3> QED
        BY <3>1, <3>2
    <2> HIDE DEF g
    <2>7. Part(g, k)
      <3>1. g[0] = <<>>
        BY <2>1, <2>2, <2>6
      <3>2. ASSUME NEW i \in 1..k PROVE g[i] = Hear(c, g[i - 1], q[i])
        <4>1. CASE i = k
          <5>1. g[k - 1] = t
            BY <2>1, <2>2, <2>6
          <5> QED
            BY <2>4, <2>6, <4>1, <5>1
        <4>2. CASE i # k
          <5>1. i \in 1..(k - 1) /\ i \in 0..(k - 1) /\ i - 1 \in 0..(k - 1)
            BY <2>1, <4>2
          <5> QED
            BY <2>2, <2>6, <5>1
        <4> QED
          BY <4>1, <4>2
      <3> QED
        BY <3>1, <3>2
    <2> QED
      BY <2>1, <2>4, <2>5, <2>6, <2>7
  <1>4. Hearing!Along(c, <<>>, q) \in Stage[Len(q)]
    <2> HIDE DEF Stage
    <2> QED
      BY <1>2, <1>3, Hearing!AlongStages
  <1>5. PICK f \in [0..Len(q) -> N] : Part(f, Len(q))
    BY <1>1, <1>4
  <1> QED
    BY <1>5 DEF Course

LEMMA NoticesType ==
  ASSUME NEW c, NEW q \in Seq(Events)
  PROVE  NoticesOf(q, c) \in Seq(V!Notices)
  <1>1. PICK f \in [0..Len(q) -> Seq(V!Notices)] : Course(f, c, q)
    BY CourseExists
  <1>2. NoticesOf(q, c) = f[Len(q)] /\ Len(q) \in 0..Len(q)
    BY <1>1, CourseEnds
  <1> QED
    BY <1>1, <1>2

LEMMA NoticesJoined ==
  ASSUME NEW c, NEW a \in Seq(Events), NEW b \in Seq(Events)
  PROVE  NoticesOf(a \o b, c) = NoticesOf(a, c) \o NoticesOf(b, c)
  <1> DEFINE N == Seq(V!Notices)
  <1>1. PICK f \in [0..Len(a) -> N] : Course(f, c, a)
    BY CourseExists
  <1>2. PICK g \in [0..Len(b) -> N] : Course(g, c, b)
    BY CourseExists
  <1>3. PICK q : q = a \o b
    OBVIOUS
  <1>4. /\ q \in Seq(Events) /\ Len(q) = Len(a) + Len(b) /\ Len(a) \in Nat /\ Len(b) \in Nat
        /\ \A i \in 1..Len(a) : q[i] = a[i]
        /\ \A i \in 1..Len(b) : q[Len(a) + i] = b[i]
    BY <1>3
  <1>5. PICK fa \in N : fa = f[Len(a)]
    <2>1. Len(a) \in 0..Len(a)
      BY <1>4
    <2> HIDE DEF N
    <2> QED
      BY <2>1
  <1> DEFINE h == [k \in 0..Len(q) |-> IF k <= Len(a) THEN f[k] ELSE fa \o g[k - Len(a)]]
  <1>6. /\ \A k \in 0..Len(a) : h[k] = f[k]
        /\ \A j \in 0..Len(b) : h[Len(a) + j] = fa \o g[j]
    <2>1. \A k \in 0..Len(a) : h[k] = f[k]
      BY <1>4
    <2>2. ASSUME NEW j \in 0..Len(b) PROVE h[Len(a) + j] = fa \o g[j]
      <3>1. CASE j = 0
        <4>1. g[0] = <<>> /\ fa \o <<>> = fa
          BY <1>2, <1>5 DEF Course
        <4>2. h[Len(a) + 0] = f[Len(a)]
          BY <1>4
        <4> QED
          BY <1>5, <3>1, <4>1, <4>2
      <3>2. CASE j # 0
        <4>1. Len(a) + j \in 0..Len(q) /\ ~(Len(a) + j <= Len(a)) /\ (Len(a) + j) - Len(a) = j
          BY <1>4, <3>2
        <4> QED
          BY <4>1
      <3> QED
        BY <3>1, <3>2
    <2> QED
      BY <2>1, <2>2
  <1> HIDE DEF h
  <1>7. Course(h, c, q)
    <2>1. h[0] = <<>>
      BY <1>1, <1>4, <1>6 DEF Course
    <2>2. ASSUME NEW k \in 1..Len(q) PROVE h[k] = Hear(c, h[k - 1], q[k])
      <3>1. CASE k <= Len(a)
        <4>1. k \in 1..Len(a) /\ k \in 0..Len(a) /\ k - 1 \in 0..Len(a)
          BY <1>4, <3>1
        <4> QED
          BY <1>1, <1>4, <1>6, <4>1 DEF Course
      <3>2. CASE ~(k <= Len(a))
        <4>1. PICK j \in 1..Len(b) : k = Len(a) + j
          <5>1. k - Len(a) \in 1..Len(b) /\ k = Len(a) + (k - Len(a))
            BY <1>4, <3>2
          <5> QED
            BY <5>1
        <4>2. j \in 0..Len(b) /\ j - 1 \in 0..Len(b) /\ k - 1 = Len(a) + (j - 1)
          BY <1>4, <4>1
        <4>3. h[k] = fa \o g[j] /\ h[k - 1] = fa \o g[j - 1] /\ q[k] = b[j]
          BY <1>4, <1>6, <4>1, <4>2
        <4>4. g[j] = Hear(c, g[j - 1], b[j]) /\ g[j - 1] \in N /\ b[j] \in Events
          BY SMTT(60), <1>2, <4>1, <4>2 DEF Course
        <4>5. fa \o Hear(c, g[j - 1], b[j]) = Hear(c, fa \o g[j - 1], b[j])
          <5>1. PICK x \in N : x = g[j - 1]
            BY <4>4
          <5>2. PICK y \in V!Notices : y = b[j].what
            BY <4>4 DEF Events
          <5>3. fa \o Append(x, y) = Append(fa \o x, y)
            OBVIOUS
          <5> QED
            BY <5>1, <5>2, <5>3 DEF Hear
        <4> QED
          BY <4>3, <4>4, <4>5
      <3> QED
        BY <3>1, <3>2
    <2> QED
      BY <2>1, <2>2 DEF Course
  <1>8. NoticesOf(q, c) = h[Len(q)] /\ NoticesOf(a, c) = f[Len(a)] /\ NoticesOf(b, c) = g[Len(b)]
    BY <1>1, <1>2, <1>4, <1>7, CourseEnds
  <1>9. h[Len(q)] = fa \o g[Len(b)]
    <2>1. Len(b) \in 0..Len(b)
      BY <1>4
    <2> QED
      BY <1>4, <1>6, <2>1
  <1> QED
    BY <1>3, <1>5, <1>8, <1>9

LEMMA ToldIs ==
  ASSUME NEW c \in Clients, NEW ns \in Seq(V!Notices)
  PROVE  /\ Told(c, ns) \in Seq(Events)
         /\ NoticesOf(Told(c, ns), c) = ns
         /\ \A d : d # c => NoticesOf(Told(c, ns), d) = <<>>
  <1>1. PICK q : q = Told(c, ns)
    OBVIOUS
  <1>2. /\ q \in Seq(Events) /\ Len(q) = Len(ns) /\ Len(q) \in Nat
        /\ \A i \in 1..Len(q) : q[i].what = ns[i] /\ q[i].of = c
    <2>1. DOMAIN ns = 1..Len(ns) /\ Len(ns) \in Nat /\ \A i \in 1..Len(ns) : ns[i] \in V!Notices
      OBVIOUS
    <2>2. q = [i \in 1..Len(ns) |-> [what |-> ns[i], of |-> c]]
      BY <1>1, <2>1 DEF Told
    <2>3. \A i \in 1..Len(ns) : [what |-> ns[i], of |-> c] \in Events
      BY <2>1 DEF Events
    <2>4. q \in Seq(Events) /\ Len(q) = Len(ns)
      BY <2>1, <2>2, <2>3
    <2> QED
      BY <2>1, <2>2, <2>4
  <1>3. NoticesOf(q, c) = ns
    <2> DEFINE f == [k \in 0..Len(q) |-> SubSeq(ns, 1, k)]
    <2>1. f[0] = <<>>
      BY <1>2
    <2>2. ASSUME NEW k \in 1..Len(q) PROVE f[k] = Hear(c, f[k - 1], q[k])
      <3>1. f[k] = SubSeq(ns, 1, k) /\ f[k - 1] = SubSeq(ns, 1, k - 1)
        BY <1>2
      <3>2. PICK x, y : x = SubSeq(ns, 1, k) /\ y = SubSeq(ns, 1, k - 1)
        OBVIOUS
      <3>3. /\ x \in Seq(V!Notices) /\ Len(x) = k /\ \A i \in 1..k : x[i] = ns[i]
            /\ y \in Seq(V!Notices) /\ Len(y) = k - 1 /\ \A i \in 1..(k - 1) : y[i] = ns[i]
        BY <1>2, <3>2
      <3>4. ns[k] \in V!Notices
        BY <1>2
      <3>5. PICK z : z = Append(y, ns[k])
        OBVIOUS
      <3>6. /\ z \in Seq(V!Notices) /\ Len(z) = k /\ z[k] = ns[k]
            /\ \A i \in 1..(k - 1) : z[i] = ns[i]
        BY <1>2, <3>3, <3>4, <3>5
      <3>7. \A i \in 1..k : z[i] = x[i]
        BY <1>2, <3>3, <3>6
      <3>8. z = x
        BY <3>3, <3>6, <3>7, SeqEqual
      <3> QED
        BY <1>2, <3>1, <3>2, <3>5, <3>8 DEF Hear
    <2>3. f[Len(q)] = ns
      BY <1>2
    <2> HIDE DEF f
    <2>4. Course(f, c, q)
      BY <2>1, <2>2 DEF Course
    <2> QED
      BY <1>2, <2>3, <2>4, CourseEnds
  <1>4. ASSUME NEW d, d # c PROVE NoticesOf(q, d) = <<>>
    <2> DEFINE f == [k \in 0..Len(q) |-> <<>>]
    <2>1. Course(f, d, q)
      BY <1>2, <1>4 DEF Course, Hear
    <2>2. f[Len(q)] = <<>>
      BY <1>2
    <2> HIDE DEF f
    <2> QED
      BY <1>2, <2>1, <2>2, CourseEnds
  <1> QED
    BY <1>1, <1>2, <1>3, <1>4

(* The event that is read was the oldest of its client.                    *)
LEMMA NoticesRead ==
  ASSUME NEW q \in Seq(Events), q # <<>>
  PROVE  /\ Head(q) \in Events /\ Tail(q) \in Seq(Events)
         /\ NoticesOf(q, Head(q).of) = <<Head(q).what>> \o NoticesOf(Tail(q), Head(q).of)
         /\ \A d : d # Head(q).of => NoticesOf(Tail(q), d) = NoticesOf(q, d)
  <1>1. PICK e, r : e = Head(q) /\ r = Tail(q)
    OBVIOUS
  <1>2. e \in Events /\ r \in Seq(Events) /\ q = <<e>> \o r
    BY <1>1
  <1>3. e.of \in Clients /\ e.what \in V!Notices
    BY <1>2 DEF Events
  <1>4. PICK c \in Clients : c = e.of
    BY <1>3
  <1>5. PICK n \in V!Notices : n = e.what
    BY <1>3
  <1>6. <<e>> = Told(c, <<n>>)
    <2>1. e = [what |-> n, of |-> c]
      BY <1>2, <1>4, <1>5 DEF Events
    <2> QED
      BY <2>1 DEF Told
  <1>7. PICK ns : ns = <<n>>
    OBVIOUS
  <1>11. ns \in Seq(V!Notices)
    BY <1>7
  <1>8. /\ <<e>> \in Seq(Events) /\ NoticesOf(<<e>>, c) = <<n>>
        /\ \A d : d # c => NoticesOf(<<e>>, d) = <<>>
    <2>1. /\ Told(c, ns) \in Seq(Events) /\ NoticesOf(Told(c, ns), c) = ns
          /\ \A d : d # c => NoticesOf(Told(c, ns), d) = <<>>
      BY <1>11, ToldIs
    <2>2. PICK q1 : q1 = <<e>> /\ q1 = Told(c, ns)
      BY <1>6, <1>7
    <2>3. /\ q1 \in Seq(Events) /\ NoticesOf(q1, c) = ns
          /\ \A d : d # c => NoticesOf(q1, d) = <<>>
      BY <2>1, <2>2
    <2> QED
      BY <1>7, <2>2, <2>3, Zenon
  <1>9. NoticesOf(q, c) = <<n>> \o NoticesOf(r, c)
    BY ZenonT(60), <1>2, <1>8, NoticesJoined
  <1>10. ASSUME NEW d, d # c PROVE NoticesOf(r, d) = NoticesOf(q, d)
    <2>1. NoticesOf(q, d) = <<>> \o NoticesOf(r, d)
      BY ZenonT(60), <1>2, <1>8, <1>10, NoticesJoined
    <2>2. NoticesOf(r, d) \in Seq(V!Notices)
      BY <1>2, NoticesType
    <2> QED
      BY <2>1, <2>2
  <1> QED
    BY <1>1, <1>2, <1>4, <1>5, <1>9, <1>10

-----------------------------------------------------------------------------
(* What Visibility sees of a state.                                        *)

Prefixed(a, r) == [r EXCEPT !.notices = a \o @]

SameMode(t, s) == \A c \in Clients : s.client[c].managed /\ t.client[c].managed
                                       => Mode(t, c) = Mode(s, c)

LEMMA IdleIs ==
  ASSUME NEW r \in V!Client
  PROVE  /\ Idle(r) \in V!Client /\ Idle(Idle(r)) = Idle(r) /\ Idle(r).managed = r.managed
         /\ Idle(r).notices = <<>>
         /\ \A a : [[Idle(r) EXCEPT !.place = r.place, !.ul = r.ul] EXCEPT !.notices = a]
                     = [r EXCEPT !.notices = a]
  <1>. PICK N : N = V!Notices
    OBVIOUS
  <1>9. <<>> \in Seq(N)
    OBVIOUS
  <1>0. PICK n \in Seq(V!Notices) : n = <<>>
    BY <1>9
  <1>1. Idle(r) \in V!Client
    <2>1. [r EXCEPT !.notices = n, !.place = NoWorkspace, !.ul = "none"] \in V!Client
      BY DEF V!Client
    <2>2. Idle(r) = [r EXCEPT !.notices = n, !.place = NoWorkspace, !.ul = "none"]
      BY <1>0 DEF Idle
    <2> QED
      BY <2>1, <2>2
  <1>2. Idle(Idle(r)) = Idle(r)
    BY DEF Idle, V!Client
  <1>3. Idle(r).managed = r.managed /\ Idle(r).notices = <<>>
    BY DEF Idle, V!Client
  <1>4. ASSUME NEW a
        PROVE  [[Idle(r) EXCEPT !.place = r.place, !.ul = r.ul] EXCEPT !.notices = a]
                 = [r EXCEPT !.notices = a]
    BY DEF Idle, V!Client
  <1> QED
    BY <1>1, <1>2, <1>3, <1>4

LEMMA KnownIs ==
  ASSUME NEW s, Sound(s), Idles(s), NEW c \in Clients
  PROVE  /\ Known(s, c) \in V!Client /\ Known(s, c).notices = <<>>
         /\ Known(s, c).place = PlaceOf(s, c) /\ Known(s, c).ul = UlOf(s, PlaceOf(s, c), c)
         /\ Known(s, c).managed = s.client[c].managed
         /\ Known(s, c).workspace = s.client[c].workspace
         /\ Known(s, c).future_stay = s.client[c].future_stay
         /\ Known(s, c).win = s.client[c].win
         /\ Known(s, c).pending_unmap = s.client[c].pending_unmap
         /\ Idle(Known(s, c)) = s.client[c]
  <1>1. PICK r \in V!Client : r = s.client[c]
    BY DEF Sound, States
  <1>2. Idle(r) = r
    BY <1>1 DEF Idles
  <1>3. PICK w : w = PlaceOf(s, c)
    OBVIOUS
  <1>4. w \in Workspaces \cup {NoWorkspace}
    BY <1>3 DEF PlaceOf
  <1>5. PICK u \in {"none", "stay", "can"} : u = UlOf(s, w, c)
    BY DEF UlOf
  <1>6. Known(s, c) = [r EXCEPT !.place = w, !.ul = u]
    BY <1>1, <1>3, <1>5 DEF Known
  <1>7. [r EXCEPT !.place = w, !.ul = u] \in V!Client
    BY <1>4 DEF V!Client
  <1>8. r.notices = <<>> /\ r.place = NoWorkspace /\ r.ul = "none"
    BY <1>2 DEF Idle, V!Client
  <1>9. Idle([r EXCEPT !.place = w, !.ul = u]) = r
    BY <1>8 DEF Idle, V!Client
  <1>10. /\ [r EXCEPT !.place = w, !.ul = u].notices = <<>>
         /\ [r EXCEPT !.place = w, !.ul = u].place = w
         /\ [r EXCEPT !.place = w, !.ul = u].ul = u
         /\ [r EXCEPT !.place = w, !.ul = u].managed = r.managed
         /\ [r EXCEPT !.place = w, !.ul = u].workspace = r.workspace
         /\ [r EXCEPT !.place = w, !.ul = u].future_stay = r.future_stay
         /\ [r EXCEPT !.place = w, !.ul = u].win = r.win
         /\ [r EXCEPT !.place = w, !.ul = u].pending_unmap = r.pending_unmap
    BY <1>8 DEF V!Client
  <1> QED
    BY <1>1, <1>3, <1>5, <1>6, <1>7, <1>9, <1>10

LEMMA SeenIs ==
  ASSUME NEW s, Sound(s), Idles(s), NEW c \in Clients
  PROVE  /\ Seen(s, c) = Prefixed(NoticesOf(s.queue, c), Known(s, c))
         /\ NoticesOf(s.queue, c) \in Seq(V!Notices)
         /\ Seen(s, c) \in V!Client
         /\ Known(s, c) = [Seen(s, c) EXCEPT !.notices = <<>>]
         /\ Seen(s, c).notices = NoticesOf(s.queue, c)
  <1>1. PICK r \in V!Client : r = Known(s, c) /\ r.notices = <<>>
    BY KnownIs
  <1>2. s.queue \in Seq(Events)
    BY DEF Sound, States
  <1>3. PICK n \in Seq(V!Notices) : n = NoticesOf(s.queue, c)
    BY <1>2, NoticesType
  <1>4. Seen(s, c) = [r EXCEPT !.notices = n]
    BY <1>1, <1>3 DEF Seen
  <1>5. Prefixed(n, r) = [r EXCEPT !.notices = n]
    <2>1. n \o <<>> = n
      OBVIOUS
    <2> QED
      BY <1>1, <2>1 DEF Prefixed
  <1>6. /\ [r EXCEPT !.notices = n] \in V!Client /\ [r EXCEPT !.notices = n].notices = n
        /\ r = [[r EXCEPT !.notices = n] EXCEPT !.notices = <<>>]
    BY <1>1 DEF V!Client
  <1> QED
    BY <1>1, <1>3, <1>4, <1>5, <1>6

Puts(t, a, c, r) ==
  /\ Sound(t) /\ t.current = a.current /\ t.flags = a.flags /\ t.lists = a.lists
  /\ t.client[c] = Idle(r) /\ \A d \in Clients : d # c => t.client[d] = a.client[d]
  /\ t.queue = a.queue \o Told(c, r.notices)

LEMMA PutState ==
  ASSUME NEW a, Sound(a), NEW c \in Clients, NEW r \in V!Client, NEW t, t = Put(a, c, r)
  PROVE  Puts(t, a, c, r)
  <1>1. PICK i \in V!Client : i = Idle(r)
    BY IdleIs
  <1>2. PICK ns \in Seq(V!Notices) : ns = r.notices
    BY DEF V!Client
  <1>3. PICK b : b = Told(c, ns)
    OBVIOUS
  <1>4. b \in Seq(Events)
    BY <1>3, ToldIs
  <1>5. t = [a EXCEPT !.client[c] = i, !.queue = @ \o b]
    BY <1>1, <1>2, <1>3 DEF Put, Told
  <1>6. a \in States /\ a.queue \in Seq(Events)
    BY DEF Sound, States
  <1>7. PICK q : q = a.queue \o b
    OBVIOUS
  <1>8. q \in Seq(Events)
    BY <1>4, <1>6, <1>7
  <1>9. t = [a EXCEPT !.client[c] = i, !.queue = q]
    BY <1>5, <1>6, <1>7 DEF States
  <1>10. /\ t \in States /\ t.current = a.current /\ t.flags = a.flags /\ t.lists = a.lists
         /\ t.client[c] = i /\ \A d \in Clients : d # c => t.client[d] = a.client[d]
         /\ t.queue = q
    BY ZenonT(60), <1>6, <1>8, <1>9 DEF States
  <1>11. Sound(t)
    BY <1>10 DEF Sound
  <1> QED
    BY <1>1, <1>2, <1>3, <1>7, <1>10, <1>11 DEF Puts

Tells(t, a, c, r, d) ==
  /\ d = c => NoticesOf(t.queue, d) = NoticesOf(a.queue, d) \o r.notices
  /\ d # c => NoticesOf(t.queue, d) = NoticesOf(a.queue, d)

LEMMA PutNotices ==
  ASSUME NEW a, Sound(a), NEW c \in Clients, NEW r \in V!Client, NEW t, t = Put(a, c, r),
         NEW d \in Clients
  PROVE  Tells(t, a, c, r, d)
  <1>1. PICK ns \in Seq(V!Notices) : ns = r.notices
    BY DEF V!Client
  <1>2. PICK b : b = Told(c, ns)
    OBVIOUS
  <1>3. /\ b \in Seq(Events) /\ NoticesOf(b, c) = ns
        /\ d # c => NoticesOf(b, d) = <<>>
    BY <1>2, ToldIs
  <1>4. PICK q \in Seq(Events) : q = a.queue
    BY DEF Sound, States
  <1>5. t.queue = q \o b
    <2>1. Puts(t, a, c, r)
      BY PutState
    <2> QED
      BY <1>1, <1>2, <1>4, <2>1 DEF Puts
  <1>6. NoticesOf(t.queue, d) = NoticesOf(q, d) \o NoticesOf(b, d)
    BY <1>3, <1>5, NoticesJoined
  <1>7. NoticesOf(q, d) \in Seq(V!Notices)
    BY NoticesType
  <1>8. d # c => NoticesOf(t.queue, d) = NoticesOf(q, d)
    BY <1>3, <1>6, <1>7
  <1> QED
    BY <1>1, <1>3, <1>4, <1>6, <1>8 DEF Tells

LEMMA SeenPut ==
  ASSUME NEW a, Sound(a), NEW c \in Clients, NEW r \in V!Client, NEW t, t = Put(a, c, r)
  PROVE  /\ r.place = PlaceOf(a, c) /\ r.ul = UlOf(a, PlaceOf(a, c), c)
              => Seen(t, c) = Prefixed(NoticesOf(a.queue, c), r)
         /\ \A d \in Clients : d # c => Seen(t, d) = Seen(a, d)
  <1>0. Puts(t, a, c, r)
    BY PutState
  <1>1. /\ t.lists = a.lists
        /\ t.client[c] = Idle(r) /\ \A d \in Clients : d # c => t.client[d] = a.client[d]
    BY <1>0 DEF Puts
  <1>2. \A d : PlaceOf(t, d) = PlaceOf(a, d)
    BY <1>1 DEF PlaceOf
  <1>3. \A d, w : UlOf(t, w, d) = UlOf(a, w, d)
    BY <1>1 DEF UlOf
  <1>4. ASSUME NEW d \in Clients, d # c PROVE Seen(t, d) = Seen(a, d)
    <2>0. Tells(t, a, c, r, d)
      BY PutNotices
    <2>1. NoticesOf(t.queue, d) = NoticesOf(a.queue, d)
      BY <1>4, <2>0 DEF Tells
    <2> QED
      BY <1>1, <1>2, <1>3, <1>4, <2>1 DEF Seen, Known
  <1>5. ASSUME r.place = PlaceOf(a, c), r.ul = UlOf(a, PlaceOf(a, c), c)
        PROVE  Seen(t, c) = Prefixed(NoticesOf(a.queue, c), r)
    <2>1. Known(t, c) = [Idle(r) EXCEPT !.place = r.place, !.ul = r.ul]
      BY <1>1, <1>2, <1>3, <1>5 DEF Known
    <2>2. PICK n : n = NoticesOf(a.queue, c) \o r.notices
      OBVIOUS
    <2>3. Seen(t, c) = [[Idle(r) EXCEPT !.place = r.place, !.ul = r.ul] EXCEPT !.notices = n]
      <3>0. Tells(t, a, c, r, c)
        BY PutNotices
      <3>1. NoticesOf(t.queue, c) = n
        BY <2>2, <3>0 DEF Tells
      <3> QED
        BY <2>1, <3>1 DEF Seen
    <2>4. Seen(t, c) = [r EXCEPT !.notices = n]
      BY <2>3, IdleIs
    <2> QED
      BY <2>2, <2>4 DEF Prefixed
  <1> QED
    BY <1>4, <1>5

-----------------------------------------------------------------------------
(* A step about one client: the lists change for it alone, and then its    *)
(* record is replaced.                                                     *)

Stands(a, s, c, r) ==
  IF r.managed
    THEN \E k, w, e : /\ Spot(a, c, k, w, e) /\ r.place = w /\ r.ul = UlAt(k, e)
                      /\ s.client[c].managed => ModeAt(k, e) = Mode(s, c)
    ELSE Nowhere(a, c) /\ a.flags[c] = NoFlags /\ r.place = NoWorkspace /\ r.ul = "none"

LEMMA SameSpots ==
  ASSUME NEW a, NEW t, t.lists = a.lists, t.flags = a.flags
  PROVE  /\ \A c : Nowhere(t, c) <=> Nowhere(a, c)
         /\ \A c, k, w, e : Spot(t, c, k, w, e) <=> Spot(a, c, k, w, e)
  <1>1. \A k, w, e : At(t, k, w, e) <=> At(a, k, w, e)
    BY DEF At
  <1>2. \A c : Nowhere(t, c) <=> Nowhere(a, c)
    BY <1>1 DEF Nowhere
  <1>3. \A c, k, w, e : Home(t, c, k, w, e) <=> Home(a, c, k, w, e)
    BY <1>1 DEF Home
  <1> QED
    BY <1>2, <1>3 DEF Spot

LEMMA OneStep ==
  ASSUME NEW s, Good(s), NEW c \in Clients, NEW a, Touches(a, s, c), NEW r \in V!Client,
         Stands(a, s, c, r), NEW t, t = Put(a, c, r)
  PROVE  /\ Good(t) /\ SameMode(t, s) /\ t.current = s.current
         /\ Seen(t, c) = Prefixed(NoticesOf(s.queue, c), r)
         /\ \A d \in Clients : d # c => Seen(t, d) = Seen(s, d)
  <1>1. Sound(a) /\ a.current = s.current /\ a.client = s.client /\ a.queue = s.queue
    BY DEF Touches, SameElse
  <1>2. /\ Sound(t) /\ t.current = a.current /\ t.flags = a.flags /\ t.lists = a.lists
        /\ t.client[c] = Idle(r) /\ \A d \in Clients : d # c => t.client[d] = a.client[d]
    <2>1. Puts(t, a, c, r)
      BY <1>1, PutState
    <2> QED
      BY <2>1 DEF Puts
  <1>3. t.client[c].managed = r.managed /\ Idle(t.client[c]) = t.client[c]
    BY <1>2, IdleIs
  <1>4. Sound(s) /\ Idles(s) /\ \A d \in Clients : Placed(s, d)
    BY DEF Good
  <1>5. Idles(t)
    BY <1>1, <1>2, <1>3, <1>4 DEF Idles
  <1>6. /\ \A d : Nowhere(t, d) <=> Nowhere(a, d)
        /\ \A d, k, w, e : Spot(t, d, k, w, e) <=> Spot(a, d, k, w, e)
    BY <1>2, SameSpots
  <1>7. ASSUME NEW d \in Clients, d # c
        PROVE  /\ Placed(t, d) /\ Seen(t, d) = Seen(s, d)
               /\ s.client[d].managed => Mode(t, d) = Mode(s, d)
    <2>1. t.client[d] = s.client[d] /\ t.flags[d] = s.flags[d]
      BY <1>1, <1>2, <1>7, OthersKept
    <2>2. /\ Nowhere(s, d) => Nowhere(t, d) /\ Nowhere(a, d)
          /\ \A k, w, e : Spot(s, d, k, w, e) => Spot(t, d, k, w, e) /\ Spot(a, d, k, w, e)
      BY <1>6, <1>7, OthersKept
    <2>3. Placed(t, d)
      BY <1>4, <2>1, <2>2 DEF Placed
    <2>4. s.client[d].managed => \E k, w, e : Spot(s, d, k, w, e)
      BY <1>4 DEF Placed
    <2>5. s.client[d].managed => Mode(t, d) = Mode(s, d)
      <3> SUFFICES ASSUME s.client[d].managed PROVE Mode(t, d) = Mode(s, d)
        OBVIOUS
      <3>1. PICK k, w, e : Spot(s, d, k, w, e)
        BY <2>4
      <3>2. Home(s, d, k, w, e) /\ Home(t, d, k, w, e)
        BY <2>2, <3>1 DEF Spot
      <3>3. Mode(s, d) = ModeAt(k, e)
        BY <1>4, <3>2, WhereIs
      <3>4. Mode(t, d) = ModeAt(k, e)
        BY <1>2, <3>2, WhereIs
      <3> QED
        BY <3>3, <3>4
    <2>6. \/ Nowhere(s, d) /\ Nowhere(a, d)
          \/ \E k, w, e : Home(s, d, k, w, e) /\ Home(a, d, k, w, e)
      BY <1>4, <2>2 DEF Placed, Spot
    <2>7. /\ PlaceOf(a, d) = PlaceOf(s, d)
          /\ UlOf(a, PlaceOf(a, d), d) = UlOf(s, PlaceOf(s, d), d)
      BY <1>1, <1>4, <2>6, SameAnswers
    <2>8. Seen(a, d) = Seen(s, d)
      BY <1>1, <2>7 DEF Seen, Known
    <2>9. Seen(t, d) = Seen(a, d)
      BY <1>1, <1>7, SeenPut
    <2> QED
      BY <2>3, <2>5, <2>8, <2>9
  <1>8. /\ Placed(t, c) /\ Seen(t, c) = Prefixed(NoticesOf(s.queue, c), r)
        /\ s.client[c].managed /\ t.client[c].managed => Mode(t, c) = Mode(s, c)
    <2>1. CASE r.managed
      <3>1. PICK k, w, e : /\ Spot(a, c, k, w, e) /\ r.place = w /\ r.ul = UlAt(k, e)
                           /\ s.client[c].managed => ModeAt(k, e) = Mode(s, c)
        BY <2>1 DEF Stands
      <3>2. Spot(t, c, k, w, e)
        BY <1>6, <3>1
      <3>3. Placed(t, c)
        BY <1>3, <2>1, <3>2 DEF Placed
      <3>4. Home(a, c, k, w, e) /\ Home(t, c, k, w, e)
        BY <3>1, <3>2 DEF Spot
      <3>5. PlaceOf(a, c) = w /\ UlOf(a, w, c) = UlAt(k, e)
        BY <1>1, <3>4, WhereIs
      <3>6. Mode(t, c) = ModeAt(k, e)
        BY <1>2, <3>4, WhereIs
      <3>7. Seen(t, c) = Prefixed(NoticesOf(a.queue, c), r)
        BY <1>1, <3>1, <3>5, SeenPut
      <3> QED
        BY <1>1, <3>1, <3>3, <3>6, <3>7
    <2>2. CASE ~r.managed
      <3>1. Nowhere(a, c) /\ a.flags[c] = NoFlags /\ r.place = NoWorkspace /\ r.ul = "none"
        BY <2>2 DEF Stands
      <3>2. Placed(t, c)
        BY <1>2, <1>3, <1>6, <2>2, <3>1 DEF Placed
      <3>3. PlaceOf(a, c) = NoWorkspace /\ UlOf(a, NoWorkspace, c) = "none"
        BY <1>1, <3>1, NowhereIs
      <3>4. Seen(t, c) = Prefixed(NoticesOf(a.queue, c), r)
        BY <1>1, <3>1, <3>3, SeenPut
      <3> QED
        BY <1>1, <1>3, <2>2, <3>2, <3>4
    <2> QED
      BY <2>1, <2>2
  <1>9. Good(t)
    BY <1>2, <1>5, <1>7, <1>8 DEF Good
  <1>10. SameMode(t, s)
    BY <1>7, <1>8 DEF SameMode
  <1> QED
    BY <1>1, <1>2, <1>7, <1>8, <1>9, <1>10

-----------------------------------------------------------------------------
(* The operators of Visibility add notices at the end, and look at none.   *)

Keeps(q, r) == /\ q \in V!Client /\ q.place = r.place /\ q.ul = r.ul /\ q.managed = r.managed
               /\ q.workspace = r.workspace

Extends(q, p, a, r) == q = Prefixed(a, p) /\ Keeps(p, r)

LEMMA PrefixedIs ==
  ASSUME NEW a \in Seq(V!Notices), NEW r \in V!Client
  PROVE  /\ Prefixed(a, r) \in V!Client
         /\ Prefixed(a, r).win = r.win /\ Prefixed(a, r).managed = r.managed
         /\ Prefixed(a, r).known = r.known /\ Prefixed(a, r).workspace = r.workspace
         /\ Prefixed(a, r).place = r.place /\ Prefixed(a, r).desktop = r.desktop
         /\ Prefixed(a, r).mapped = r.mapped /\ Prefixed(a, r).state = r.state
         /\ Prefixed(a, r).pending_unmap = r.pending_unmap /\ Prefixed(a, r).ul = r.ul
         /\ Prefixed(a, r).future_stay = r.future_stay
         /\ Prefixed(a, r).from_switch = r.from_switch
         /\ Prefixed(a, r).map_after = r.map_after
         /\ Prefixed(a, r).unmap_after = r.unmap_after
         /\ Prefixed(a, r).notices = a \o r.notices
  <1>2. PICK b \in Seq(V!Notices) : b = r.notices
    BY DEF V!Client
  <1>3. a \o b \in Seq(V!Notices)
    OBVIOUS
  <1>. PICK n \in Seq(V!Notices) : n = a \o r.notices
    BY <1>2, <1>3
  <1>1. Prefixed(a, r) = [r EXCEPT !.notices = n]
    BY DEF Prefixed, V!Client
  <1> QED
    BY <1>1 DEF V!Client

LEMMA Appended ==
  ASSUME NEW a \in Seq(V!Notices), NEW n \in Seq(V!Notices), NEW e \in V!Notices
  PROVE  Append(n, e) \in Seq(V!Notices) /\ a \o Append(n, e) = Append(a \o n, e)
  <1>. PICK N : N = V!Notices
    OBVIOUS
  <1> QED
    OBVIOUS

(* One notice more.                                                        *)
Says(r, win, e) == [r EXCEPT !.win = win, !.notices = Append(@, e)]

LEMMA SaysIs ==
  ASSUME NEW a \in Seq(V!Notices), NEW r \in V!Client, NEW e \in V!Notices,
         NEW win \in {"unmapped", "mapped", "gone"}
  PROVE  Extends(Says(Prefixed(a, r), win, e), Says(r, win, e), a, r)
  <1>1. PICK n \in Seq(V!Notices) : n = r.notices
    BY DEF V!Client
  <1>2. PICK m \in Seq(V!Notices) : m = Append(n, e)
    BY Appended
  <1>3. PICK am : am = a \o m
    OBVIOUS
  <1>4. am = Append(a \o n, e)
    BY <1>2, <1>3, Appended
  <1>5. Says(r, win, e) = [r EXCEPT !.win = win, !.notices = m]
    BY <1>1, <1>2 DEF Says, V!Client
  <1>6. Keeps([r EXCEPT !.win = win, !.notices = m], r)
    BY DEF Keeps, V!Client
  <1>7. PICK an : an = a \o n
    OBVIOUS
  <1>8. Prefixed(a, r) = [r EXCEPT !.notices = an]
    BY <1>1, <1>7 DEF Prefixed, V!Client
  <1>9. Says(Prefixed(a, r), win, e) = [r EXCEPT !.win = win, !.notices = am]
    BY <1>4, <1>7, <1>8 DEF Says, V!Client
  <1>10. Prefixed(a, [r EXCEPT !.win = win, !.notices = m]) = [r EXCEPT !.win = win, !.notices = am]
    BY <1>3 DEF Prefixed, V!Client
  <1> QED
    BY <1>5, <1>6, <1>9, <1>10 DEF Extends

LEMMA XMapIs ==
  ASSUME NEW a \in Seq(V!Notices), NEW r \in V!Client
  PROVE  Extends(V!XMapWindow(Prefixed(a, r)), V!XMapWindow(r), a, r)
  <1>1. CASE r.win = "unmapped"
    <2>1. V!XMapWindow(r) = Says(r, "mapped", "map")
      BY <1>1 DEF V!XMapWindow, Says
    <2>2. Prefixed(a, r).win = "unmapped"
      BY <1>1, PrefixedIs
    <2>3. V!XMapWindow(Prefixed(a, r)) = Says(Prefixed(a, r), "mapped", "map")
      BY <2>2 DEF V!XMapWindow, Says
    <2>4. "map" \in V!Notices
      BY DEF V!Notices
    <2> QED
      BY <2>1, <2>3, <2>4, SaysIs
  <1>2. CASE r.win # "unmapped"
    <2>1. V!XMapWindow(r) = r
      BY <1>2 DEF V!XMapWindow
    <2>2. Prefixed(a, r).win # "unmapped"
      BY <1>2, PrefixedIs
    <2>3. V!XMapWindow(Prefixed(a, r)) = Prefixed(a, r)
      BY <2>2 DEF V!XMapWindow
    <2> QED
      BY <2>1, <2>3 DEF Extends, Keeps
  <1> QED
    BY <1>1, <1>2

LEMMA XUnmapIs ==
  ASSUME NEW a \in Seq(V!Notices), NEW r \in V!Client
  PROVE  Extends(V!XUnmapWindow(Prefixed(a, r)), V!XUnmapWindow(r), a, r)
  <1>1. CASE r.win = "mapped"
    <2>1. V!XUnmapWindow(r) = Says(r, "unmapped", "unmap")
      BY <1>1 DEF V!XUnmapWindow, Says
    <2>2. Prefixed(a, r).win = "mapped"
      BY <1>1, PrefixedIs
    <2>3. V!XUnmapWindow(Prefixed(a, r)) = Says(Prefixed(a, r), "unmapped", "unmap")
      BY <2>2 DEF V!XUnmapWindow, Says
    <2>4. "unmap" \in V!Notices
      BY DEF V!Notices
    <2> QED
      BY <2>1, <2>3, <2>4, SaysIs
  <1>2. CASE r.win # "mapped"
    <2>1. V!XUnmapWindow(r) = r
      BY <1>2 DEF V!XUnmapWindow
    <2>2. Prefixed(a, r).win # "mapped"
      BY <1>2, PrefixedIs
    <2>3. V!XUnmapWindow(Prefixed(a, r)) = Prefixed(a, r)
      BY <2>2 DEF V!XUnmapWindow
    <2> QED
      BY <2>1, <2>3 DEF Extends, Keeps
  <1> QED
    BY <1>1, <1>2

LEMMA MapIs ==
  ASSUME NEW a \in Seq(V!Notices), NEW r \in V!Client
  PROVE  Extends(V!MapClient(Prefixed(a, r)), V!MapClient(r), a, r)
  <1> DEFINE Stay(q) == \/ V!IsClientMapped(q) \/ q.state \in {"MAP_PENDING", "UNMAP_PENDING"}
                        \/ q.ul = "stay" /\ V!IsInPlace(q)
             Pend(q) == [q EXCEPT !.state = "MAP_PENDING"]
  <1>0. PICK p \in V!Client : p = Prefixed(a, r)
    BY PrefixedIs
  <1>1. Stay(p) <=> Stay(r)
    BY <1>0, PrefixedIs DEF V!IsClientMapped, V!IsInPlace
  <1>2. CASE Stay(r)
    <2>1. V!MapClient(r) = r /\ V!MapClient(p) = p
      BY <1>1, <1>2 DEF V!MapClient
    <2> QED
      BY <1>0, <2>1 DEF Extends, Keeps
  <1>3. CASE ~Stay(r)
    <2>1. V!MapClient(r) = V!XMapWindow(Pend(r)) /\ V!MapClient(p) = V!XMapWindow(Pend(p))
      BY <1>1, <1>3 DEF V!MapClient
    <2>2. PICK q \in V!Client : q = Pend(r)
      BY DEF V!Client, V!States
    <2>3. Keeps(q, r)
      BY <2>2 DEF Keeps, V!Client
    <2>4. Pend(p) = Prefixed(a, q)
      BY <1>0, <2>2 DEF Prefixed, V!Client
    <2>5. Extends(V!XMapWindow(Prefixed(a, q)), V!XMapWindow(q), a, q)
      BY XMapIs
    <2> QED
      BY <1>0, <2>1, <2>2, <2>3, <2>4, <2>5 DEF Extends, Keeps
  <1> QED
    BY <1>2, <1>3

LEMMA UnmapIs ==
  ASSUME NEW a \in Seq(V!Notices), NEW r \in V!Client
  PROVE  Extends(V!UnmapClient(Prefixed(a, r)), V!UnmapClient(r), a, r)
  <1> DEFINE Stay(q) == ~V!IsClientMapped(q) \/ q.state \in {"MAP_PENDING", "UNMAP_PENDING"}
             Pend(q) == [q EXCEPT !.state = "UNMAP_PENDING", !.pending_unmap = @ + 1]
  <1>0. PICK p \in V!Client : p = Prefixed(a, r)
    BY PrefixedIs
  <1>1. Stay(p) <=> Stay(r)
    BY <1>0, PrefixedIs DEF V!IsClientMapped
  <1>2. CASE Stay(r)
    <2>1. V!UnmapClient(r) = r /\ V!UnmapClient(p) = p
      BY <1>1, <1>2 DEF V!UnmapClient
    <2> QED
      BY <1>0, <2>1 DEF Extends, Keeps
  <1>3. CASE ~Stay(r)
    <2>1. V!UnmapClient(r) = V!XUnmapWindow(Pend(r)) /\ V!UnmapClient(p) = V!XUnmapWindow(Pend(p))
      BY <1>1, <1>3 DEF V!UnmapClient
    <2>0. PICK k \in Nat : k = r.pending_unmap + 1
      BY DEF V!Client
    <2>20. Pend(r) = [r EXCEPT !.state = "UNMAP_PENDING", !.pending_unmap = k]
      BY <2>0 DEF V!Client
    <2>21. [r EXCEPT !.state = "UNMAP_PENDING", !.pending_unmap = k] \in V!Client
      BY DEF V!Client, V!States
    <2>2. PICK q \in V!Client : q = Pend(r)
      BY <2>20, <2>21
    <2>3. Keeps(q, r)
      BY <2>2 DEF Keeps, V!Client
    <2>4. Pend(p) = Prefixed(a, q)
      BY <1>0, <2>2 DEF Prefixed, V!Client
    <2>5. Extends(V!XUnmapWindow(Prefixed(a, q)), V!XUnmapWindow(q), a, q)
      BY XUnmapIs
    <2> QED
      BY <1>0, <2>1, <2>2, <2>3, <2>4, <2>5 DEF Extends, Keeps
  <1> QED
    BY <1>2, <1>3

(* A record that is changed but for its notices.                           *)
LEMMA FreshIs ==
  ASSUME NEW a \in Seq(V!Notices), NEW r \in V!Client
  PROVE  /\ V!Fresh(Prefixed(a, r)) = Prefixed(a, V!Fresh(r)) /\ V!Fresh(r) \in V!Client
         /\ ~V!Fresh(r).managed /\ V!Fresh(r).place = NoWorkspace /\ V!Fresh(r).ul = "none"
         /\ V!Fresh(r).win = r.win /\ V!Fresh(r).desktop = r.desktop
  <1>1. V!Fresh(r) \in V!Client
    BY ZenonT(60) DEF V!Fresh, V!Client, V!States
  <1>2. V!Fresh(Prefixed(a, r)) = Prefixed(a, V!Fresh(r))
    BY ZenonT(60) DEF V!Fresh, V!Client, Prefixed
  <1>3. /\ ~V!Fresh(r).managed /\ V!Fresh(r).place = NoWorkspace /\ V!Fresh(r).ul = "none"
        /\ V!Fresh(r).win = r.win /\ V!Fresh(r).desktop = r.desktop
    BY DEF V!Fresh, V!Client
  <1> QED
    BY <1>1, <1>2, <1>3

Kept(r, ul) == [r EXCEPT !.state = "UNMAPPED", !.mapped = FALSE,
                         !.pending_unmap = @ - 1, !.ul = ul]

LEMMA KeptIs ==
  ASSUME NEW a \in Seq(V!Notices), NEW r \in V!Client, NEW ul \in {"none", "stay", "can"},
         r.pending_unmap # 0
  PROVE  /\ Kept(Prefixed(a, r), ul) = Prefixed(a, Kept(r, ul)) /\ Kept(r, ul) \in V!Client
         /\ Kept(r, ul).managed = r.managed /\ Kept(r, ul).place = r.place
         /\ Kept(r, ul).ul = ul /\ Kept(r, ul).map_after = r.map_after
  <1>1. PICK n \in Nat : n = r.pending_unmap - 1
    BY DEF V!Client
  <1>2. Kept(r, ul) = [r EXCEPT !.state = "UNMAPPED", !.mapped = FALSE,
                                !.pending_unmap = n, !.ul = ul]
    BY <1>1 DEF Kept, V!Client
  <1>6. [r EXCEPT !.state = "UNMAPPED", !.mapped = FALSE,
                  !.pending_unmap = n, !.ul = ul] \in V!Client
    BY DEF V!Client, V!States
  <1>3. PICK k \in V!Client : k = Kept(r, ul)
    BY <1>2, <1>6
  <1>4. /\ k.managed = r.managed /\ k.place = r.place
        /\ k.ul = ul /\ k.map_after = r.map_after
    BY <1>2, <1>3 DEF V!Client
  <1>5. Kept(Prefixed(a, r), ul) = Prefixed(a, Kept(r, ul))
    BY DEF Prefixed, V!Client, Kept
  <1> QED
    BY <1>3, <1>4, <1>5

LEMMA UnmapNotifyIs ==
  ASSUME NEW a \in Seq(V!Notices), NEW r \in V!Client, r.managed, r.pending_unmap # 0, NEW t,
         t = V!HandleUnmapNotify(r)
  PROVE  /\ V!HandleUnmapNotify(Prefixed(a, r)) = Prefixed(a, t)
         /\ t \in V!Client /\ t.managed /\ t.place = r.place
         /\ t.ul = V!IntoUnmappedList(r)
  <1>1. PICK p \in V!Client : p = Prefixed(a, r)
    BY PrefixedIs
  <1>2. PICK ul \in {"none", "stay", "can"} : ul = V!IntoUnmappedList(r)
    BY DEF V!IntoUnmappedList, V!Client
  <1>3. ul = V!IntoUnmappedList(p)
    BY <1>1, <1>2, PrefixedIs DEF V!IntoUnmappedList, V!IsInPlace
  <1>4. PICK k \in V!Client : /\ k = Kept(r, ul) /\ Kept(p, ul) = Prefixed(a, k)
                              /\ k.managed = r.managed /\ k.place = r.place
                              /\ k.ul = ul /\ k.map_after = r.map_after
    <2>1. Kept(Prefixed(a, r), ul) = Prefixed(a, Kept(r, ul)) /\ Kept(r, ul) \in V!Client
      BY KeptIs
    <2>2. /\ Kept(r, ul).managed = r.managed /\ Kept(r, ul).place = r.place
          /\ Kept(r, ul).ul = ul /\ Kept(r, ul).map_after = r.map_after
      BY KeptIs
    <2> QED
      BY <1>1, <2>1, <2>2
  <1>5. p.managed /\ p.pending_unmap # 0 /\ p.map_after = r.map_after
    BY <1>1, PrefixedIs
  <1>6. CASE ~r.map_after
    <2>1. t = k /\ V!HandleUnmapNotify(p) = Prefixed(a, k)
      BY <1>2, <1>3, <1>4, <1>5, <1>6 DEF V!HandleUnmapNotify, Kept
    <2> QED
      BY <1>1, <1>2, <1>4, <2>1
  <1>7. CASE r.map_after
    <2>1. t = [V!MapClient(k) EXCEPT !.map_after = FALSE]
      BY <1>2, <1>4, <1>7 DEF V!HandleUnmapNotify, Kept
    <2>2. V!HandleUnmapNotify(p) = [V!MapClient(Prefixed(a, k)) EXCEPT !.map_after = FALSE]
      BY <1>3, <1>4, <1>5, <1>7 DEF V!HandleUnmapNotify, Kept
    <2>3. PICK q \in V!Client : /\ q = V!MapClient(k) /\ V!MapClient(Prefixed(a, k)) = Prefixed(a, q)
                                /\ Keeps(q, k)
      BY MapIs DEF Extends, Keeps
    <2>4. [Prefixed(a, q) EXCEPT !.map_after = FALSE] = Prefixed(a, [q EXCEPT !.map_after = FALSE])
      BY DEF Prefixed, V!Client
    <2>5. [q EXCEPT !.map_after = FALSE] \in V!Client /\ Keeps([q EXCEPT !.map_after = FALSE], k)
      <3>1. PICK z : z = [q EXCEPT !.map_after = FALSE]
        OBVIOUS
      <3>2. z \in V!Client
        BY ZenonT(60), <2>3, <3>1 DEF V!Client
      <3>3. z.place = q.place /\ z.ul = q.ul /\ z.managed = q.managed /\ z.workspace = q.workspace
        BY <2>3, <3>1 DEF V!Client
      <3>4. Keeps(z, k)
        BY <2>3, <3>2, <3>3 DEF Keeps
      <3> QED
        BY <3>1, <3>2, <3>4
    <2> QED
      BY ZenonT(60), <1>1, <1>2, <1>4, <2>1, <2>2, <2>3, <2>4, <2>5 DEF Keeps
  <1> QED
    BY <1>6, <1>7

Shown(r, ul) == [r EXCEPT !.mapped = TRUE, !.state = "MAPPED", !.ul = ul, !.from_switch = FALSE]

Rehidden(r) == [r EXCEPT !.unmap_after = FALSE, !.from_switch = TRUE]

LEMMA MapNotifyIs ==
  ASSUME NEW a \in Seq(V!Notices), NEW r \in V!Client, r.managed, NEW cur, NEW t,
         t = V!HandleMapNotify(r, cur, FALSE)
  PROVE  /\ V!HandleMapNotify(Prefixed(a, r), cur, FALSE) = Prefixed(a, t)
         /\ t \in V!Client /\ t.managed /\ t.place = r.place
         /\ t.ul = V!OutOfUnmappedList(r)
  <1>1. PICK p \in V!Client : p = Prefixed(a, r)
    BY PrefixedIs
  <1>2. PICK ul \in {"none", "stay", "can"} : ul = V!OutOfUnmappedList(r)
    BY DEF V!OutOfUnmappedList, V!Client
  <1>3. ul = V!OutOfUnmappedList(p)
    BY <1>1, <1>2, PrefixedIs DEF V!OutOfUnmappedList, V!IsInPlace
  <1>4. PICK k \in V!Client : k = Shown(r, ul)
    BY ZenonT(60) DEF Shown, V!Client, V!States
  <1>5. Shown(p, ul) = Prefixed(a, k)
    BY <1>1, <1>4 DEF Shown, Prefixed, V!Client
  <1>6. k.managed = r.managed /\ k.place = r.place /\ k.ul = ul
    BY <1>4 DEF Shown, V!Client
  <1>7. p.managed /\ p.workspace = r.workspace /\ p.unmap_after = r.unmap_after
    BY <1>1, PrefixedIs
  <1>8. CASE ~(r.workspace # cur \/ r.unmap_after)
    <2>1. t = k /\ V!HandleMapNotify(p, cur, FALSE) = Prefixed(a, k)
      BY <1>2, <1>3, <1>4, <1>5, <1>7, <1>8 DEF V!HandleMapNotify, Shown
    <2> QED
      BY <1>1, <1>2, <1>6, <2>1
  <1>9. CASE r.workspace # cur \/ r.unmap_after
    <2>0. Rehidden(k) \in V!Client
      BY DEF Rehidden, V!Client
    <2>1. PICK q \in V!Client : q = Rehidden(k)
      BY <2>0
    <2>2. t = V!UnmapClient(q)
      BY <1>2, <1>4, <1>9, <2>1 DEF V!HandleMapNotify, Shown, Rehidden
    <2>3. V!HandleMapNotify(p, cur, FALSE) = V!UnmapClient(Rehidden(Prefixed(a, k)))
      BY <1>3, <1>5, <1>7, <1>9 DEF V!HandleMapNotify, Shown, Rehidden
    <2>4. Rehidden(Prefixed(a, k)) = Prefixed(a, q) /\ Keeps(q, k)
      BY <2>1 DEF Rehidden, Prefixed, V!Client, Keeps
    <2>5. Extends(V!UnmapClient(Prefixed(a, q)), V!UnmapClient(q), a, q)
      BY UnmapIs
    <2> QED
      BY <1>1, <1>2, <1>6, <2>2, <2>3, <2>4, <2>5 DEF Extends, Keeps
  <1> QED
    BY <1>8, <1>9

LEMMA LeaveIs ==
  ASSUME NEW a \in Seq(V!Notices), NEW r \in V!Client
  PROVE  Extends(V!Leave(Prefixed(a, r)), V!Leave(r), a, r)
  <1> DEFINE Cl(q) == V!CancelPendingMaps(V!CancelCancelPendingUnmaps(V!SetUnmappedFromSwitch(q)))
  <1>1. PICK p \in V!Client : p = Prefixed(a, r)
    BY PrefixedIs
  <1>2. PICK k \in V!Client : k = Cl(r)
    BY ZenonT(60) DEF V!CancelPendingMaps, V!CancelCancelPendingUnmaps, V!SetUnmappedFromSwitch,
           V!InUnmappedList, V!Client
  <1>3. Cl(p) = Prefixed(a, k)
    <2>1. PICK k1 \in V!Client : k1 = V!SetUnmappedFromSwitch(r)
      BY DEF V!SetUnmappedFromSwitch, V!Client
    <2>2. V!SetUnmappedFromSwitch(p) = Prefixed(a, k1)
      BY <1>1, <2>1 DEF V!SetUnmappedFromSwitch, V!Client, Prefixed
    <2>3. PICK k2 \in V!Client : k2 = V!CancelCancelPendingUnmaps(k1)
      BY DEF V!CancelCancelPendingUnmaps, V!InUnmappedList, V!Client
    <2>4. V!CancelCancelPendingUnmaps(Prefixed(a, k1)) = Prefixed(a, k2)
      BY <2>3 DEF V!CancelCancelPendingUnmaps, V!InUnmappedList, V!Client, Prefixed
    <2>5. V!CancelPendingMaps(Prefixed(a, k2)) = Prefixed(a, V!CancelPendingMaps(k2))
      BY DEF V!CancelPendingMaps, V!InUnmappedList, V!Client, Prefixed
    <2> QED
      BY <1>2, <2>1, <2>2, <2>3, <2>4, <2>5
  <1>4. Keeps(k, r)
    BY <1>2 DEF V!CancelPendingMaps, V!CancelCancelPendingUnmaps, V!SetUnmappedFromSwitch,
           V!InUnmappedList, V!Client, Keeps
  <1>5. V!InUnmappedList(p) <=> V!InUnmappedList(r)
    BY <1>1, PrefixedIs DEF V!InUnmappedList
  <1>6. /\ V!InUnmappedList(r) => V!Leave(r) = k /\ V!Leave(p) = Prefixed(a, k)
        /\ ~V!InUnmappedList(r) => /\ V!Leave(r) = V!UnmapClient(k)
                                   /\ V!Leave(p) = V!UnmapClient(Prefixed(a, k))
    BY <1>2, <1>3, <1>5 DEF V!Leave
  <1>7. Extends(V!UnmapClient(Prefixed(a, k)), V!UnmapClient(k), a, k)
    BY UnmapIs
  <1> QED
    BY <1>1, <1>4, <1>6, <1>7 DEF Extends, Keeps

LEMMA EnterIs ==
  ASSUME NEW a \in Seq(V!Notices), NEW r \in V!Client
  PROVE  Extends(V!Enter(Prefixed(a, r)), V!Enter(r), a, r)
  <1> DEFINE Cl(q) == V!CancelPendingUnmaps(V!CancelCancelPendingMaps(q))
  <1>1. PICK p \in V!Client : p = Prefixed(a, r)
    BY PrefixedIs
  <1>2. PICK k \in V!Client : k = Cl(r)
    BY ZenonT(60) DEF V!CancelPendingUnmaps, V!CancelCancelPendingMaps, V!InUnmappedList, V!Client
  <1>3. Cl(p) = Prefixed(a, k)
    BY ZenonT(60), <1>1, <1>2 DEF V!CancelPendingUnmaps, V!CancelCancelPendingMaps,
           V!InUnmappedList, V!Client, Prefixed
  <1>4. Keeps(k, r)
    BY <1>2 DEF V!CancelPendingUnmaps, V!CancelCancelPendingMaps,
           V!InUnmappedList, V!Client, Keeps
  <1>5. V!InUnmappedList(p) <=> V!InUnmappedList(r)
    BY <1>1, PrefixedIs DEF V!InUnmappedList
  <1>6. /\ ~V!InUnmappedList(r) => V!Enter(r) = k /\ V!Enter(p) = Prefixed(a, k)
        /\ V!InUnmappedList(r) => /\ V!Enter(r) = V!MapClient(k)
                                  /\ V!Enter(p) = V!MapClient(Prefixed(a, k))
    BY <1>2, <1>3, <1>5 DEF V!Enter
  <1>7. Extends(V!MapClient(Prefixed(a, k)), V!MapClient(k), a, k)
    BY MapIs
  <1> QED
    BY <1>1, <1>4, <1>6, <1>7 DEF Extends, Keeps
=============================================================================
