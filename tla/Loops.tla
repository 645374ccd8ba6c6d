-------------------------------- MODULE Loops --------------------------------
(***************************************************************************)
(* A loop over a list or a set, as the code has them everywhere, and what  *)
(* can be said of where it ends.  Step(env, s, x) is one turn: what the    *)
(* state s becomes when x is handled; env is what the loop does not change.*)
(*                                                                         *)
(* A module that loops gives its turn a name and instantiates this one.    *)
(* That makes induction over the elements a theorem about sets, which is   *)
(* cited like any other: a predicate on the turns done is the set of the   *)
(* states that satisfy it.                                                 *)
(***************************************************************************)
EXTENDS Integers, Sequences, FiniteSets, SequencesExt, FiniteSetTheorems,
        WellFoundedInduction, TLAPS

CONSTANT Step(_, _, _)

(* The elements of a sequence, the first one first.                        *)
Along(env, s, seq) == FoldLeft(LAMBDA t, x : Step(env, t, x), s, seq)

(* The elements of a set, in an order nobody knows.                        *)
Over(env, s, set) == FoldSet(LAMBDA x, t : Step(env, t, x), s, set)

-----------------------------------------------------------------------------
(* A non-empty set of naturals has a least element.                        *)
LEMMA LeastNatural ==
  ASSUME NEW B \in SUBSET Nat, B # {}
  PROVE  \E k \in B : \A j \in B : k <= j
  <1> DEFINE R == OpToRel(<, Nat)
  <1>1. IsWellFoundedOn(R, Nat)
    BY NatLessThanWellFounded
  <1>2. ASSUME NEW x \in Nat, NEW y \in Nat PROVE <<x, y>> \in R <=> x < y
    BY DEF OpToRel
  <1> HIDE DEF R
  <1>3. PICK x \in B : \A y \in B : ~ (<<y, x>> \in R)
    BY <1>1, WFMin
  <1>4. ASSUME NEW y \in B PROVE x <= y
    <2>1. x \in Nat /\ y \in Nat /\ ~ (<<y, x>> \in R)
      BY <1>3
    <2>2. ~ (y < x)
      BY <2>1, <1>2
    <2> QED
      BY <2>1, <2>2
  <1> QED
    BY <1>4

(* iter is what MapThenFoldSet makes of the subsets of D: the element next *)
(* names is handled last.                                                  *)
IsIter(iter, env, D, s, next, value) ==
  iter = [T \in SUBSET D |-> IF T = {} THEN s
                             ELSE Step(env, iter[T \ {next[T]}], value[next[T]])]

(* Recursion over the subsets of a finite set is well defined.             *)
LEMMA IterExists ==
  ASSUME NEW env, NEW D, IsFiniteSet(D), NEW s, NEW next, NEW value,
         \A T \in SUBSET D : T # {} => next[T] \in T
  PROVE  \E iter : IsIter(iter, env, D, s, next, value)
  <1> DEFINE Small(k) == {T \in SUBSET D : Cardinality(T) <= k}
             IsPart(f, k) == f = [T \in Small(k) |->
                                    IF T = {} THEN s
                                    ELSE Step(env, f[T \ {next[T]}], value[next[T]])]
             Bad == {k \in Nat : ~ \E f : IsPart(f, k)}
  <1>1. \A T \in SUBSET D : IsFiniteSet(T) /\ Cardinality(T) \in Nat
                            /\ Cardinality(T) <= Cardinality(D)
    BY FS_Subset, FS_CardinalityType
  <1>2. \A T \in SUBSET D : T # {} => /\ T \ {next[T]} \in SUBSET D
                                      /\ Cardinality(T \ {next[T]}) = Cardinality(T) - 1
    BY <1>1, FS_RemoveElement
  <1>3. ASSUME Bad # {} PROVE FALSE
    <2>1. PICK k \in Bad : \A j \in Bad : k <= j
      <3>1. Bad \in SUBSET Nat
        OBVIOUS
      <3> HIDE DEF Bad
      <3> QED
        BY <1>3, <3>1, LeastNatural
    <2>2. CASE k = 0
      <3> DEFINE f == [T \in Small(0) |-> s]
      <3>1. \A T \in Small(0) : T = {}
        <4> SUFFICES ASSUME NEW T \in Small(0), T # {} PROVE FALSE
          OBVIOUS
        <4>1. IsFiniteSet(T) /\ Cardinality(T) \in Nat /\ Cardinality(T) <= 0
          BY <1>1
        <4> QED
          BY <4>1, FS_EmptySet
      <3>2. IsPart(f, 0)
        BY <3>1
      <3> QED
        BY <2>1, <2>2, <3>2
    <2>3. CASE k # 0
      <3>1. k \in Nat /\ k - 1 \in Nat /\ k - 1 \notin Bad
        <4>1. k \in Nat
          OBVIOUS
        <4>2. k - 1 \in Nat /\ ~(k <= k - 1)
          BY <4>1, <2>3
        <4> HIDE DEF Bad
        <4> QED
          BY <4>1, <4>2, <2>1
      <3>2. PICK f : IsPart(f, k - 1)
        BY <3>1
      <3> DEFINE g == [T \in Small(k) |-> IF T = {} THEN s
                                          ELSE Step(env, f[T \ {next[T]}], value[next[T]])]
      <3>3. \A T \in Small(k) : T # {} => T \ {next[T]} \in Small(k - 1)
        BY <1>1, <1>2, <3>1
      <3>4. \A T \in Small(k - 1) : T \in Small(k)
        BY <1>1, <3>1
      <3>5. \A T \in Small(k - 1) : f[T] = g[T]
        BY <3>2, <3>4
      <3>6. IsPart(g, k)
        <4>1. \A T \in Small(k) : T # {} => f[T \ {next[T]}] = g[T \ {next[T]}]
          BY <3>3, <3>5
        <4> QED
          BY <4>1
      <3> QED
        BY <2>1, <3>6
    <2> QED
      BY <2>2, <2>3
  <1>4. PICK f : IsPart(f, Cardinality(D))
    BY <1>3, FS_CardinalityType
  <1>5. Small(Cardinality(D)) = SUBSET D
    BY <1>1
  <1>6. IsIter(f, env, D, s, next, value)
    BY <1>4, <1>5 DEF IsIter
  <1> QED
    BY <1>6

(* A non-empty set of positions has a greatest element.                    *)
LEMMA GreatestOf ==
  ASSUME NEW n \in Nat, NEW T \in SUBSET (1..n), T # {}
  PROVE  Max(T) \in T /\ \A x \in T : x <= Max(T)
  <1> DEFINE B == {k \in Nat : \E x \in T : k = n - x}
  <1>1. B \in SUBSET Nat /\ B # {}
    <2>1. PICK x \in T : x \in 1..n
      OBVIOUS
    <2>2. n - x \in B
      BY <2>1
    <2> QED
      BY <2>2
  <1>2. PICK k \in B : \A j \in B : k <= j
    <2> HIDE DEF B
    <2> QED
      BY <1>1, LeastNatural
  <1>3. PICK x \in T : k = n - x
    BY <1>2
  <1>4. ASSUME NEW y \in T PROVE x >= y
    <2>1. n - y \in B
      OBVIOUS
    <2>2. k <= n - y
      BY <2>1, <1>2
    <2> QED
      BY <2>2, <1>3
  <1>5. \E z \in T : \A y \in T : z >= y
    BY <1>4
  <1>6. Max(T) \in T /\ \A y \in T : Max(T) >= y
    BY <1>5 DEF Max
  <1> QED
    BY <1>6

(* Induction along a sequence: Stage[k] is what holds after k turns.       *)
THEOREM AlongStages ==
  ASSUME NEW env, NEW E, NEW seq \in Seq(E), NEW s, NEW Stage, s \in Stage[0],
         \A k \in 1..Len(seq) : \A t \in Stage[k - 1] : Step(env, t, seq[k]) \in Stage[k]
  PROVE  Along(env, s, seq) \in Stage[Len(seq)]
  <1> DEFINE n == Len(seq)
             next == [T \in SUBSET DOMAIN seq |-> Max(T)]
             iter == CHOOSE f : IsIter(f, env, DOMAIN seq, s, next, seq)
  <1>1. n \in Nat /\ DOMAIN seq = 1..n
    OBVIOUS
  <1>2. Along(env, s, seq) = iter[1..n]
    BY <1>1 DEF Along, FoldLeft, MapThenFoldSet, IsIter
  <1>3. IsIter(iter, env, DOMAIN seq, s, next, seq)
    <2>1. IsFiniteSet(DOMAIN seq)
      <3>1. IsFiniteSet(1..n)
        BY <1>1, 1 \in Int, n \in Int, FS_Interval
      <3> QED
        BY <3>1, <1>1
    <2>2. \A T \in SUBSET DOMAIN seq : T # {} => next[T] \in T
      BY <1>1, GreatestOf
    <2> HIDE DEF next
    <2> QED
      BY <2>1, <2>2, IterExists
  <1> HIDE DEF iter
  <1> DEFINE Bad == {k \in Nat : k <= n /\ iter[1..k] \notin Stage[k]}
  <1>4. ASSUME Bad # {} PROVE FALSE
    <2>1. PICK k \in Bad : \A j \in Bad : k <= j
      <3>1. Bad \in SUBSET Nat
        OBVIOUS
      <3> HIDE DEF Bad
      <3> QED
        BY <1>4, <3>1, LeastNatural
    <2>2. CASE k = 0
      <3>1. 1..k = {} /\ 1..k \in SUBSET DOMAIN seq
        BY <2>2
      <3>2. iter[1..k] = s
        BY <3>1, <1>3 DEF IsIter
      <3> QED
        BY <3>2, <2>1, <2>2
    <2>3. CASE k # 0
      <3>1. k \in 1..n /\ k - 1 \in Nat /\ ~(k <= k - 1)
        BY <2>1, <2>3, <1>1
      <3>2. iter[1..(k - 1)] \in Stage[k - 1]
        BY <3>1, <2>1, <1>1
      <3>3. /\ 1..k \in SUBSET DOMAIN seq /\ 1..k # {} /\ k \in 1..k
            /\ \A x \in 1..k : x <= k
        BY <3>1, <1>1
      <3>4. Max(1..k) = k
        <4>1. Max(1..k) \in 1..k /\ k <= Max(1..k)
          BY <3>1, <3>3, <1>1, GreatestOf
        <4> QED
          BY <4>1, <3>1
      <3>5. (1..k) \ {k} = 1..(k - 1)
        BY <3>1
      <3>6. iter[1..k] = Step(env, iter[1..(k - 1)], seq[k])
        BY <3>3, <3>4, <3>5, <1>3 DEF IsIter
      <3> QED
        BY <3>1, <3>2, <3>6, <2>1
    <2> QED
      BY <2>2, <2>3
  <1> QED
    BY <1>1, <1>2, <1>4

(* Induction over a set: Stage[T] is what holds when T has been handled.   *)
THEOREM OverStages ==
  ASSUME NEW env, NEW D, IsFiniteSet(D), NEW s, NEW Stage, s \in Stage[{}],
         \A T \in SUBSET D : \A x \in D \ T : \A t \in Stage[T] :
           Step(env, t, x) \in Stage[T \cup {x}]
  PROVE  Over(env, s, D) \in Stage[D]
  <1> DEFINE next == [T \in SUBSET D |-> CHOOSE x \in T : TRUE]
             value == [x \in D |-> x]
             iter == CHOOSE f : IsIter(f, env, D, s, next, value)
             plain == CHOOSE f : f = [T \in SUBSET D |-> 
                         IF T = {} THEN s ELSE Step(env, f[T \ {CHOOSE x \in T : TRUE}], CHOOSE x \in T : TRUE)]
  <1>1. Over(env, s, D) = plain[D]
    BY DEF Over, FoldSet, MapThenFoldSet
  <1>2. \A T \in SUBSET D : T # {} => next[T] \in T
    OBVIOUS
  <1>3. \A f : IsIter(f, env, D, s, next, value) <=> 
         f = [T \in SUBSET D |-> 
                 IF T = {} THEN s ELSE Step(env, f[T \ {CHOOSE x \in T : TRUE}], CHOOSE x \in T : TRUE)]
    BY <1>2 DEF IsIter
  <1>4. \E f : IsIter(f, env, D, s, next, value)
    <2> HIDE DEF next, value
    <2> QED
      BY <1>2, IterExists
  <1>5. IsIter(plain, env, D, s, next, value)
    BY ZenonT(60), <1>3, <1>4
  <1> HIDE DEF plain
  <1>6. \A T \in SUBSET D : plain[T] = IF T = {} THEN s ELSE Step(env, plain[T \ {next[T]}], next[T])
    BY <1>2, <1>5 DEF IsIter
  <1> HIDE DEF next
  <1> DEFINE Bad == {k \in Nat : \E T \in SUBSET D : Cardinality(T) = k /\ plain[T] \notin Stage[T]}
  <1>7. ASSUME Bad # {} PROVE FALSE
    <2>1. PICK k \in Bad : \A j \in Bad : k <= j
      <3>1. Bad \in SUBSET Nat
        OBVIOUS
      <3> HIDE DEF Bad
      <3> QED
        BY <1>7, <3>1, LeastNatural
    <2>2. PICK T \in SUBSET D : Cardinality(T) = k /\ plain[T] \notin Stage[T]
      BY <2>1
    <2> DEFINE x == next[T]
               R == T \ {x}
    <2>3. T # {}
      BY <1>6, <2>2
    <2>4. x \in T /\ R \in SUBSET D /\ x \in D \ R /\ R \cup {x} = T
      BY <1>2, <2>3
    <2>5. IsFiniteSet(T) /\ k \in Nat /\ Cardinality(R) = k - 1 /\ Cardinality(R) \in Nat
      BY <2>2, <2>4, FS_Subset, FS_RemoveElement, FS_CardinalityType
    <2> HIDE DEF x
    <2>6. plain[R] \in Stage[R]
      <3>1. ~(k <= k - 1)
        BY <2>5
      <3>2. k - 1 \notin Bad
        <4> HIDE DEF Bad
        <4> QED
          BY <3>1, <2>1
      <3> QED
        BY <3>2, <2>4, <2>5
    <2>7. plain[T] = Step(env, plain[R], x)
      BY <1>6, <2>3, <2>4 DEF x
    <2>8. Step(env, plain[R], x) \in Stage[R \cup {x}]
      <3> HIDE DEF R
      <3> QED
        BY <2>4, <2>6
    <2> QED
      BY <2>2, <2>4, <2>7, <2>8
  <1>8. Cardinality(D) \in Nat
    BY FS_CardinalityType
  <1> QED
    BY <1>1, <1>7, <1>8
=============================================================================
