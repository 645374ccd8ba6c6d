---------------------------- MODULE Screens_proofs ----------------------------
(***************************************************************************)
(* Proofs about Monitors and Screens, for any workspaces, clients, outputs *)
(* and steps of the pointer: which neighbour a monitor has and what is     *)
(* left of the monitors after outputs have come and gone; the monitors of  *)
(* all workspaces are the same and follow the outputs, no client is lost   *)
(* or in two places, and no drag outlives its grab.                        *)
(***************************************************************************)
EXTENDS Screens, SequenceTheorems, FiniteSetTheorems, TLAPS

-----------------------------------------------------------------------------
(* The monitors of a workspace.                                            *)

(* A monitor that holds clients of C.                                      *)
Monitor(C) ==
  [name : Names \cup {NoName}, primary : BOOLEAN, x : Int, y : Int, w : Nat, h : Nat,
   holds : [Kinds -> SUBSET C]]

-----------------------------------------------------------------------------
(* Lookups.                                                                *)

(* The least of some positions is one of them.                             *)
LEMMA FirstOf ==
  ASSUME NEW n \in Nat, NEW I \in SUBSET (1..n), I # {}
  PROVE  Min(I) \in I /\ \A i \in I : Min(I) <= i
  <1>1. I \in SUBSET Nat
    OBVIOUS
  <1>2. \E k \in I : \A j \in I : k <= j
    BY <1>1, Search!LeastNatural
  <1> QED
    BY <1>2 DEF Min

LEMMA WithNameIs ==
  ASSUME NEW S, NEW ms \in Seq(S), NEW name
  PROVE  LET k == WithName(ms, name)
         IN /\ k \in 0..Len(ms)
            /\ k # 0 => ms[k].name = name /\ name # NoName
            /\ k = 0 /\ name # NoName => \A i \in 1..Len(ms) : ms[i].name # name
  <1> DEFINE I == {i \in 1..Len(ms) : ms[i].name = name}
  <1>1. WithName(ms, name) = IF name = NoName \/ I = {} THEN 0 ELSE Min(I)
    BY DEF WithName, SelectInSeq
  <1>2. I # {} => Min(I) \in I
    <2>1. Len(ms) \in Nat /\ I \in SUBSET (1..Len(ms))
      OBVIOUS
    <2> HIDE DEF I
    <2> QED
      BY <2>1, FirstOf
  <1> QED
    BY <1>1, <1>2

LEMMA HolderIs ==
  ASSUME NEW S, NEW ms \in Seq(S), NEW c
  PROVE  LET k == Holder(ms, c)
         IN /\ k \in 0..Len(ms)
            /\ k # 0 => \E l \in Kinds : c \in ms[k].holds[l]
            /\ k = 0 => \A i \in 1..Len(ms) : \A l \in Kinds : c \notin ms[i].holds[l]
  <1> DEFINE I == {i \in 1..Len(ms) : \E l \in Kinds : c \in ms[i].holds[l]}
  <1>1. Holder(ms, c) = IF I = {} THEN 0 ELSE Min(I)
    BY DEF Holder, SelectInSeq
  <1>2. I # {} => Min(I) \in I
    <2>1. Len(ms) \in Nat /\ I \in SUBSET (1..Len(ms))
      OBVIOUS
    <2> HIDE DEF I
    <2> QED
      BY <2>1, FirstOf
  <1> QED
    BY <1>1, <1>2

LEMMA AtPositionIs ==
  ASSUME NEW S, NEW ms \in Seq(S), NEW x, NEW y
  PROVE  AtPosition(ms, x, y) \in 0..Len(ms)
  <1> DEFINE I == {i \in 1..Len(ms) : /\ x \in ms[i].x .. ms[i].x + ms[i].w
                                      /\ y \in ms[i].y .. ms[i].y + ms[i].h}
  <1>1. AtPosition(ms, x, y) = IF I = {} THEN 0 ELSE Min(I)
    BY DEF AtPosition, SelectInSeq
  <1>2. I # {} => Min(I) \in I
    <2>1. Len(ms) \in Nat /\ I \in SUBSET (1..Len(ms))
      OBVIOUS
    <2> HIDE DEF I
    <2> QED
      BY <2>1, FirstOf
  <1> QED
    BY <1>1, <1>2

LEMMA MostOfIs ==
  ASSUME NEW S, NEW ms \in Seq(S), NEW b, NEW own \in 0..Len(ms)
  PROVE  MostOf(ms, b, own) \in 0..Len(ms) /\ (own # 0 => MostOf(ms, b, own) # 0)
  <1> DEFINE I == {i \in 1..Len(ms) :
                     /\ Overlap(ms[i], b).touches
                     /\ \A n \in All(ms) : Overlap(n, b).touches
                          => Overlap(n, b).area <= Overlap(ms[i], b).area}
  <1>1. MostOf(ms, b, own) = IF (IF I = {} THEN 0 ELSE Min(I)) # 0
                               THEN IF I = {} THEN 0 ELSE Min(I) ELSE own
    BY DEF MostOf, SelectInSeq
  <1>2. I # {} => Min(I) \in I
    <2>1. Len(ms) \in Nat /\ I \in SUBSET (1..Len(ms))
      OBVIOUS
    <2> HIDE DEF I
    <2> QED
      BY <2>1, FirstOf
  <1> HIDE DEF I
  <1>3. I # {} => Min(I) \in 1..Len(ms)
    BY <1>2 DEF I
  <1> QED
    BY <1>1, <1>3

-----------------------------------------------------------------------------
(* The search for a neighbour.                                             *)

LEMMA CoordinatesAreIntegers ==
  ASSUME NEW C, NEW m \in Monitor(C), NEW n \in Monitor(C),
         NEW main \in {"x", "y"}, NEW sub \in {"x", "y"}, NEW sign \in {-1, 1}
  PROVE  Along(m, main, sign) \in Int /\ Aside(m, n, sub) \in Int
  <1>1. /\ m[main] \in Int /\ m[sub] \in Int /\ n[sub] \in Int
    <2>1. \A o \in Monitor(C) : o["x"] \in Int /\ o["y"] \in Int
      BY DEF Monitor
    <2> QED
      BY <2>1
  <1>2. sign * m[main] \in Int
    BY <1>1
  <1>3. Abs(m[sub] - n[sub]) \in Int
    BY <1>1 DEF Abs
  <1> QED
    BY <1>2, <1>3 DEF Along, Aside

(* b is a monitor beyond k that no other one beyond k comes before, or     *)
(* NULL when there is none beyond k.                                       *)
Nearest(ms, k, main, sub, sign, b) ==
  LET at(j)  == Along(ms[j], main, sign)
      off(j) == Aside(ms[j], ms[k], sub)
  IN /\ b \in 0..Len(ms)
     /\ b = 0 => \A j \in 1..Len(ms) : ~(at(j) > at(k))
     /\ b # 0 => /\ at(b) > at(k)
                 /\ \A j \in 1..Len(ms) : at(j) > at(k) =>
                      at(b) < at(j) \/ (at(b) = at(j) /\ off(b) <= off(j))

(* The search ends there.                                                  *)
LEMMA AdjacentIsNearest ==
  ASSUME NEW C, NEW ms \in Seq(Monitor(C)), NEW k \in 1..Len(ms),
         NEW main \in {"x", "y"}, NEW sub \in {"x", "y"}, NEW sign \in {-1, 1}
  PROVE  Nearest(ms, k, main, sub, sign, Adjacent(ms, k, main, sub, sign))
  <1> DEFINE n      == Len(ms)
             at     == [j \in 1..n |-> Along(ms[j], main, sign)]
             off    == [j \in 1..n |-> Aside(ms[j], ms[k], sub)]
             e      == [ms |-> ms, k |-> k, main |-> main, sub |-> sub, sign |-> sign]
             all    == [j \in DOMAIN ms |-> j]
             Best(i) == {b \in 0..n :
                           /\ b = 0 => \A j \in 1..i : ~(at[j] > at[k])
                           /\ b # 0 => /\ at[b] > at[k]
                                       /\ \A j \in 1..i : at[j] > at[k] =>
                                            \/ at[b] < at[j]
                                            \/ at[b] = at[j] /\ off[b] <= off[j]}
             Stage  == [i \in 0..n |-> Best(i)]
  <1>1. n \in Nat /\ DOMAIN ms = 1..n /\ \A j \in 1..n : ms[j] \in Monitor(C)
    OBVIOUS
  <1>2. at \in [1..n -> Int] /\ off \in [1..n -> Int]
    BY <1>1, CoordinatesAreIntegers
  <1>3. all \in Seq(1..n) /\ Len(all) = n /\ \A j \in 1..n : all[j] = j
    BY <1>1
  <1>4. \A i \in 1..n, b \in 0..n :
          Better(e, b, i) = IF i = k THEN b
                            ELSE IF b # 0 /\ at[i] = at[b]
                              THEN IF off[i] < off[b] THEN i ELSE b
                            ELSE IF at[i] > at[k] /\ (b = 0 \/ at[i] < at[b]) THEN i ELSE b
    BY <1>1 DEF Better
  <1> HIDE DEF at, off, all, e
  <1>5. 0 \in Best(0)
    BY <1>1
  <1>6. ASSUME NEW i \in 1..n, NEW b \in Best(i - 1)
        PROVE  Better(e, b, i) \in Best(i)
    <2>1. b \in 0..n /\ i - 1 \in 0..n
      BY <1>1
    <2>2. CASE i = k
      <3>1. Better(e, b, i) = b
        BY <2>1, <2>2, <1>4
      <3> QED
        BY <3>1, <2>1, <2>2, <1>1, <1>2
    <2>3. CASE i # k /\ b = 0
      <3>1. Better(e, b, i) = IF at[i] > at[k] THEN i ELSE 0
        BY <2>1, <2>3, <1>4
      <3> QED
        BY <3>1, <2>1, <2>3, <1>1, <1>2
    <2>4. CASE i # k /\ b # 0 /\ at[i] = at[b]
      <3>1. Better(e, b, i) = IF off[i] < off[b] THEN i ELSE b
        BY <2>1, <2>4, <1>4
      <3>2. /\ at[b] \in Int /\ at[i] \in Int /\ off[b] \in Int /\ off[i] \in Int /\ at[k] \in Int
            /\ at[b] > at[k]
        BY <2>1, <2>4, <1>1, <1>2
      <3>3. ASSUME NEW j \in 1..i, at[j] > at[k], Better(e, b, i) # 0
            PROVE  LET c == Better(e, b, i)
                   IN at[c] < at[j] \/ (at[c] = at[j] /\ off[c] <= off[j])
        <4>1. at[j] \in Int /\ off[j] \in Int
          BY <1>1, <1>2
        <4>2. CASE j = i
          BY <4>1, <4>2, <3>1, <3>2, <3>3, <2>4
        <4>3. CASE j # i
          <5>1. j \in 1..(i - 1)
            BY <4>3
          <5>2. at[b] < at[j] \/ (at[b] = at[j] /\ off[b] <= off[j])
            BY <5>1, <3>3, <2>4
          <5> QED
            BY <5>2, <4>1, <3>1, <3>2, <2>4
        <4> QED
          BY <4>2, <4>3
      <3>4. Better(e, b, i) \in 1..n /\ at[Better(e, b, i)] > at[k]
        BY <3>1, <3>2, <2>1, <2>4, <1>1
      <3> QED
        BY <3>3, <3>4
    <2>5. CASE i # k /\ b # 0 /\ at[i] # at[b]
      <3>1. Better(e, b, i) = IF at[i] > at[k] /\ at[i] < at[b] THEN i ELSE b
        BY <2>1, <2>5, <1>4
      <3>2. /\ at[b] \in Int /\ at[i] \in Int /\ off[b] \in Int /\ off[i] \in Int /\ at[k] \in Int
            /\ at[b] > at[k]
        BY <2>1, <2>5, <1>1, <1>2
      <3>3. ASSUME NEW j \in 1..i, at[j] > at[k], Better(e, b, i) # 0
            PROVE  LET c == Better(e, b, i)
                   IN at[c] < at[j] \/ (at[c] = at[j] /\ off[c] <= off[j])
        <4>1. at[j] \in Int /\ off[j] \in Int
          BY <1>1, <1>2
        <4>2. CASE j = i
          BY <4>1, <4>2, <3>1, <3>2, <3>3, <2>5
        <4>3. CASE j # i
          <5>1. j \in 1..(i - 1)
            BY <4>3
          <5>2. at[b] < at[j] \/ (at[b] = at[j] /\ off[b] <= off[j])
            BY <5>1, <3>3, <2>5
          <5> QED
            BY <5>2, <4>1, <3>1, <3>2, <2>5
        <4> QED
          BY <4>2, <4>3
      <3>4. Better(e, b, i) \in 1..n /\ at[Better(e, b, i)] > at[k]
        BY <3>1, <3>2, <2>1, <2>5, <1>1
      <3> QED
        BY <3>3, <3>4
    <2> QED
      BY <2>2, <2>3, <2>4, <2>5
  <1>7. /\ 0 \in Stage[0]
        /\ \A i \in 1..Len(all) : \A b \in Stage[i - 1] : Better(e, b, all[i]) \in Stage[i]
    <2> HIDE DEF Best
    <2> QED
      BY <1>1, <1>3, <1>5, <1>6
  <1>8. Search!Along(e, 0, all) \in Stage[Len(all)]
    <2> HIDE DEF Stage
    <2> QED
      BY <1>3, <1>7, Search!AlongStages
  <1>9. Adjacent(ms, k, main, sub, sign) \in Best(n)
    BY <1>1, <1>3, <1>8 DEF Adjacent, all, e
  <1>10. \A j \in 1..n : at[j] = Along(ms[j], main, sign) /\ off[j] = Aside(ms[j], ms[k], sub)
    BY DEF at, off
  <1> QED
    BY <1>1, <1>9, <1>10 DEF Nearest

(* Wherever the search starts, it ends in the sequence or at NULL.         *)
LEMMA AdjacentIsThere ==
  ASSUME NEW S, NEW ms \in Seq(S), NEW k, NEW main, NEW sub, NEW sign
  PROVE  Adjacent(ms, k, main, sub, sign) \in 0..Len(ms)
  <1> DEFINE n     == Len(ms)
             e     == [ms |-> ms, k |-> k, main |-> main, sub |-> sub, sign |-> sign]
             all   == [j \in DOMAIN ms |-> j]
             Stage == [i \in 0..n |-> 0..n]
  <1>1. n \in Nat /\ all \in Seq(1..n) /\ Len(all) = n /\ \A j \in 1..n : all[j] = j
    OBVIOUS
  <1> HIDE DEF e, all
  <1>2. \A b, i : Better(e, b, i) = b \/ Better(e, b, i) = i
    BY DEF Better
  <1>3. /\ 0 \in Stage[0]
        /\ \A i \in 1..Len(all) : \A b \in Stage[i - 1] : Better(e, b, all[i]) \in Stage[i]
    BY <1>1, <1>2
  <1> HIDE DEF Stage
  <1>4. Search!Along(e, 0, all) \in Stage[Len(all)]
    BY <1>1, <1>3, Search!AlongStages
  <1> QED
    BY <1>1, <1>4 DEF Adjacent, e, all, Stage

LEMMA NeighbourIsThere ==
  ASSUME NEW S, NEW ms \in Seq(S), NEW k, NEW direction \in Directions
  PROVE  Neighbour(ms, k, direction) \in 0..Len(ms)
  BY AdjacentIsThere DEF Neighbour, Directions

-----------------------------------------------------------------------------
(* A monitor goes.                                                         *)

(* ms are monitors as they are on record between two changes: with names   *)
(* of their own, and the one called p is the primary one.                  *)
Fit(C, p, ms) ==
  /\ ms \in Seq(Monitor(C))
  /\ \A i \in 1..Len(ms) : ms[i].name \in Names /\ (ms[i].primary <=> ms[i].name = p)
  /\ \A i, j \in 1..Len(ms) : ms[i].name = ms[j].name => i = j
  /\ \E i \in 1..Len(ms) : ms[i].name = p

SameNames(ms, ns) ==
  Len(ms) = Len(ns) /\ \A i \in 1..Len(ms) : ms[i].name = ns[i].name

(* Client c is in a list l of some monitor.                                *)
Holds(ms, l, c) == \E i \in 1..Len(ms) : c \in ms[i].holds[l]

(* No client is on two monitors.                                           *)
Apart(C, ms) ==
  \A c \in C : \A i, j \in 1..Len(ms) : \A k, l \in Kinds :
    c \in ms[i].holds[k] /\ c \in ms[j].holds[l] => i = j

(* The clients of ms are those of ns, in the same lists.                   *)
SameHolds(C, ms, ns) ==
  /\ \A c \in C, l \in Kinds : Holds(ns, l, c) <=> Holds(ms, l, c)
  /\ Apart(C, ms) => Apart(C, ns)

(* Where element j was before element k went.                              *)
Before(j, k) == IF j < k THEN j ELSE j + 1

LEMMA RemoveAtIs ==
  ASSUME NEW S, NEW s \in Seq(S), NEW i \in 1..Len(s)
  PROVE  /\ RemoveAt(s, i) \in Seq(S) /\ Len(RemoveAt(s, i)) = Len(s) - 1
         /\ \A j \in 1..(Len(s) - 1) : RemoveAt(s, i)[j] = s[Before(j, i)]
  <1> DEFINE a == SubSeq(s, 1, i - 1)
             b == SubSeq(s, i + 1, Len(s))
  <1>1. a \in Seq(S) /\ Len(a) = i - 1 /\ \A j \in 1..(i - 1) : a[j] = s[j]
    OBVIOUS
  <1>2. b \in Seq(S) /\ Len(b) = Len(s) - i /\ \A j \in 1..(Len(s) - i) : b[j] = s[i + j]
    OBVIOUS
  <1>3. RemoveAt(s, i) = a \o b
    BY DEF RemoveAt
  <1> HIDE DEF a, b
  <1>4. /\ a \o b \in Seq(S)
        /\ Len(a \o b) = Len(a) + Len(b)
        /\ \A j \in 1..(Len(a) + Len(b)) :
             (a \o b)[j] = IF j <= Len(a) THEN a[j] ELSE b[j - Len(a)]
    BY <1>1, <1>2, ConcatProperties
  <1>5. ASSUME NEW j \in 1..(Len(s) - 1)
        PROVE  (a \o b)[j] = s[Before(j, i)]
    <2>1. CASE j < i
      <3>1. (a \o b)[j] = s[j]
        BY <2>1, <1>1, <1>2, <1>4
      <3> QED
        BY <3>1, <2>1 DEF Before
    <2>2. CASE ~(j < i)
      <3>1. j - Len(a) \in 1..(Len(s) - i) /\ i + (j - Len(a)) = j + 1
        BY <2>2, <1>1
      <3>2. (a \o b)[j] = b[j - Len(a)] /\ b[j - Len(a)] = s[i + (j - Len(a))]
        BY <3>1, <2>2, <1>1, <1>2, <1>4
      <3>3. Before(j, i) = j + 1
        BY <2>2 DEF Before
      <3> QED
        BY <3>1, <3>2, <3>3
    <2> QED
      BY <2>1, <2>2
  <1> QED
    BY <1>1, <1>2, <1>3, <1>4, <1>5

(* What is absorbed is a monitor of the same place with both one's clients.*)
LEMMA AbsorbIs ==
  ASSUME NEW C, NEW to \in Monitor(C), NEW from \in Monitor(C)
  PROVE  /\ Absorb(to, from) \in Monitor(C)
         /\ Absorb(to, from).name = to.name /\ Absorb(to, from).primary = to.primary
         /\ \A l \in Kinds : Absorb(to, from).holds[l] = to.holds[l] \cup from.holds[l]
  BY DEF Absorb, Monitor

(* The primary monitor takes over: it is there, and is not the one to go.  *)
LEMMA PrimaryAbsorbs ==
  ASSUME NEW C, NEW p \in Names, NEW ms, Fit(C, p, ms), NEW pointer,
         NEW k \in 1..Len(ms), ms[k].name # p
  PROVE  LET a == AbsorberOf(ms, k, pointer) IN a \in 1..Len(ms) /\ a # k
  <1> DEFINE I == {i \in 1..Len(ms) : ms[i].primary}
  <1>1. Len(ms) \in Nat /\ I \in SUBSET (1..Len(ms)) /\ I # {} /\ k \notin I
    BY DEF Fit
  <1>2. Min(I) \in I
    <2> HIDE DEF I
    <2> QED
      BY <1>1, FirstOf
  <1>3. SelectInSeq(ms, LAMBDA m : m.primary) = Min(I)
    BY <1>1 DEF SelectInSeq
  <1>4. Min(I) \in 1..Len(ms) /\ Min(I) # k
    BY <1>1, <1>2
  <1> HIDE DEF I
  <1> QED
    BY <1>3, <1>4 DEF AbsorberOf

(* remove_monitor_from_workspaces, in one workspace: the other monitors    *)
(* stay as they were, and so does every client in its list.                *)
LEMMA RemoveMonitorIs ==
  ASSUME NEW C, NEW p \in Names, NEW ms, Fit(C, p, ms), NEW pointer,
         NEW name \in Names, name # p
  PROVE  LET ns == RemoveMonitor(ms, name, pointer)
             k  == WithName(ms, name)
         IN /\ Fit(C, p, ns) /\ SameHolds(C, ms, ns)
            /\ k = 0 => ns = ms
            /\ k # 0 => /\ Len(ns) = Len(ms) - 1
                        /\ \A j \in 1..Len(ns) :
                             ns[j].name = ms[Before(j, k)].name
  <1> DEFINE k  == WithName(ms, name)
             a  == AbsorberOf(ms, k, pointer)
             bs == [ms EXCEPT ![a] = Absorb(@, ms[k])]
             ns == RemoveAt(bs, k)
             of(j) == Before(j, k)
  <1>1. ms \in Seq(Monitor(C)) /\ Len(ms) \in Nat
    BY DEF Fit
  <1>2. k \in 0..Len(ms) /\ (k # 0 => ms[k].name = name)
    BY <1>1, WithNameIs
  <1>3. CASE k = 0
    <2>1. RemoveMonitor(ms, name, pointer) = ms
      BY <1>3 DEF RemoveMonitor
    <2>2. SameHolds(C, ms, ms)
      BY DEF SameHolds
    <2> QED
      BY <2>1, <2>2, <1>3
  <1>4. CASE k # 0
    <2>1. k \in 1..Len(ms) /\ a \in 1..Len(ms) /\ a # k
      BY <1>2, <1>4, PrimaryAbsorbs
    <2>2. RemoveMonitor(ms, name, pointer) = ns
      BY <1>4, <2>1 DEF RemoveMonitor
    <2> HIDE DEF k, a
    <2>3. \A i \in 1..Len(ms) : ms[i] \in Monitor(C)
      BY <1>1
    <2>4. /\ bs \in Seq(Monitor(C)) /\ Len(bs) = Len(ms)
          /\ \A i \in 1..Len(ms) : i # a => bs[i] = ms[i]
          /\ bs[a] = Absorb(ms[a], ms[k])
      <3>1. Absorb(ms[a], ms[k]) \in Monitor(C)
        BY <2>1, <2>3, AbsorbIs
      <3> QED
        BY <1>1, <2>1, <3>1, ExceptSeq
    <2>5. /\ \A i \in 1..Len(ms) : bs[i].name = ms[i].name /\ bs[i].primary = ms[i].primary
          /\ \A i \in 1..Len(ms) : \A l \in Kinds : i # a => bs[i].holds[l] = ms[i].holds[l]
          /\ \A l \in Kinds : bs[a].holds[l] = ms[a].holds[l] \cup ms[k].holds[l]
      BY <2>1, <2>3, <2>4, AbsorbIs
    <2> HIDE DEF bs
    <2>6. /\ ns \in Seq(Monitor(C)) /\ Len(ns) = Len(ms) - 1
          /\ \A j \in 1..Len(ns) : ns[j] = bs[of(j)]
      <3> PICK M : M = Monitor(C)
        OBVIOUS
      <3>1. bs \in Seq(M) /\ k \in 1..Len(bs) /\ Len(bs) = Len(ms)
        BY <2>1, <2>4
      <3>2. /\ ns \in Seq(M) /\ Len(ns) = Len(ms) - 1
            /\ \A j \in 1..(Len(ms) - 1) : ns[j] = bs[of(j)]
        BY <3>1, RemoveAtIs
      <3> QED
        BY <3>2
    <2>7. /\ \A j \in 1..Len(ns) : of(j) \in 1..Len(ms) /\ of(j) # k
          /\ \A i, j \in 1..Len(ns) : of(i) = of(j) => i = j
          /\ \A i \in 1..Len(ms) : i # k => \E j \in 1..Len(ns) : of(j) = i
      <3>1. \A j \in 1..Len(ns) : of(j) \in 1..Len(ms) /\ of(j) # k
        BY <1>1, <2>1, <2>6 DEF Before
      <3>2. \A i, j \in 1..Len(ns) : of(i) = of(j) => i = j
        BY <1>1, <2>1, <2>6 DEF Before
      <3>3. ASSUME NEW i \in 1..Len(ms), i # k PROVE \E j \in 1..Len(ns) : of(j) = i
        <4>1. CASE i < k
          BY <4>1, <1>1, <2>1, <2>6 DEF Before
        <4>2. CASE i > k
          <5>1. i - 1 \in 1..Len(ns) /\ of(i - 1) = i
            BY <4>2, <1>1, <2>1, <2>6 DEF Before
          <5> QED
            BY <5>1
        <4> QED
          BY <4>1, <4>2, <3>3, <2>1
      <3> QED
        BY <3>1, <3>2, <3>3
    <2> HIDE DEF ns
    <2>8. \A j \in 1..Len(ns) : /\ ns[j].name = ms[of(j)].name
                                /\ ns[j].primary = ms[of(j)].primary
      BY <2>5, <2>6, <2>7
    <2>9. Fit(C, p, ns)
      <3>1. \A j \in 1..Len(ns) : ns[j].name \in Names /\ (ns[j].primary <=> ns[j].name = p)
        BY <2>7, <2>8 DEF Fit
      <3>2. ASSUME NEW i \in 1..Len(ns), NEW j \in 1..Len(ns), ns[i].name = ns[j].name
            PROVE  i = j
        <4>1. ms[of(i)].name = ms[of(j)].name /\ of(i) \in 1..Len(ms) /\ of(j) \in 1..Len(ms)
          BY <3>2, <2>7, <2>8
        <4>2. of(i) = of(j)
          <5> HIDE DEF of
          <5> QED
            BY <4>1 DEF Fit
        <4> QED
          BY <4>2, <2>7
      <3>3. \E j \in 1..Len(ns) : ns[j].name = p
        <4>1. PICK i \in 1..Len(ms) : ms[i].name = p
          BY DEF Fit
        <4>2. i # k
          BY <4>1, <1>2, <1>4
        <4> QED
          BY <4>1, <4>2, <2>7, <2>8
      <3> QED
        BY <3>1, <3>2, <3>3, <2>6 DEF Fit
    <2> HIDE DEF of
    <2>10. \A j \in 1..Len(ns) : \A l \in Kinds : \A c \in C :
             c \in ns[j].holds[l] <=>
               (c \in ms[of(j)].holds[l] \/ (of(j) = a /\ c \in ms[k].holds[l]))
      BY SMTT(60), <2>5, <2>6, <2>7
    <2>11. ASSUME NEW c \in C, NEW l \in Kinds PROVE Holds(ns, l, c) <=> Holds(ms, l, c)
      <3>1. ASSUME Holds(ns, l, c) PROVE Holds(ms, l, c)
        <4>1. PICK j \in 1..Len(ns) : c \in ns[j].holds[l]
          BY <3>1 DEF Holds
        <4>2. c \in ms[of(j)].holds[l] \/ c \in ms[k].holds[l]
          BY <4>1, <2>10
        <4> QED
          BY <4>2, <2>1, <2>7 DEF Holds
      <3>2. ASSUME Holds(ms, l, c) PROVE Holds(ns, l, c)
        <4>1. PICK i \in 1..Len(ms) : c \in ms[i].holds[l]
          BY <3>2 DEF Holds
        <4>2. CASE i = k
          <5>1. PICK j \in 1..Len(ns) : of(j) = a
            BY <2>1, <2>7
          <5> QED
            BY <5>1, <4>1, <4>2, <2>10 DEF Holds
        <4>3. CASE i # k
          <5>1. PICK j \in 1..Len(ns) : of(j) = i
            BY <4>3, <2>7
          <5> QED
            BY <5>1, <4>1, <2>10 DEF Holds
        <4> QED
          BY <4>2, <4>3
      <3> QED
        BY <3>1, <3>2
    <2>12. ASSUME Apart(C, ms) PROVE Apart(C, ns)
      <3>1. SUFFICES ASSUME NEW c \in C, NEW i \in 1..Len(ns), NEW j \in 1..Len(ns),
                            NEW l \in Kinds, NEW m \in Kinds,
                            c \in ns[i].holds[l], c \in ns[j].holds[m]
                     PROVE  i = j
        BY DEF Apart
      <3>2. c \in ms[of(i)].holds[l] \/ (of(i) = a /\ c \in ms[k].holds[l])
        BY <3>1, <2>10
      <3>3. c \in ms[of(j)].holds[m] \/ (of(j) = a /\ c \in ms[k].holds[m])
        BY <3>1, <2>10
      <3>4. of(i) = of(j)
        BY <3>2, <3>3, <2>1, <2>7, <2>12 DEF Apart
      <3> QED
        BY <3>4, <2>7
    <2> QED
      BY <2>2, <2>6, <2>8, <2>9, <2>11, <2>12, <1>4 DEF SameHolds, k, of
  <1> QED
    BY <1>3, <1>4

-----------------------------------------------------------------------------
(* Outputs have come and gone.                                             *)

(* The monitors of all workspaces W: fit, and everywhere the same ones.    *)
AllFit(C, p, W, all) ==
  /\ all \in [W -> Seq(Monitor(C))]
  /\ \A w \in W : Fit(C, p, all[w])
  /\ \A v, w \in W : SameNames(all[v], all[w])

HasName(ms, name) == \E i \in 1..Len(ms) : ms[i].name = name

LEMMA HasNameIs ==
  ASSUME NEW S, NEW ms \in Seq(S), NEW name, name # NoName
  PROVE  WithName(ms, name) # 0 <=> HasName(ms, name)
  BY WithNameIs DEF HasName

(* Monitors of the same names are searched alike.                          *)
LEMMA SameLookup ==
  ASSUME NEW S, NEW ms \in Seq(S), NEW ns \in Seq(S), SameNames(ms, ns), NEW name
  PROVE  WithName(ms, name) = WithName(ns, name)
  <1>1. {i \in 1..Len(ms) : ms[i].name = name} = {i \in 1..Len(ns) : ns[i].name = name}
    BY DEF SameNames
  <1> QED
    BY <1>1 DEF WithName, SelectInSeq

(* One turn of the loop on find_removed_monitor.                           *)
LEMMA UnplugIs ==
  ASSUME NEW C, NEW p \in Names, NEW W, NEW first \in W, NEW all, AllFit(C, p, W, all),
         NEW info, AreOutputs(p, info), NEW pointer, NEW name \in Names
  PROVE  LET e    == [first |-> first, info |-> info, pointer |-> pointer]
             next == Unplug(e, all, name)
         IN /\ AllFit(C, p, W, next)
            /\ \A w \in W : SameHolds(C, all[w], next[w])
            /\ HasName(next[first], name) => HasName(info, name)
            /\ \A i \in 1..Len(next[first]) : HasName(all[first], next[first][i].name)
  <1> DEFINE e    == [first |-> first, info |-> info, pointer |-> pointer]
             next == Unplug(e, all, name)
             k    == WithName(all[first], name)
  <1>1. WithName(info, name) # 0 <=> HasName(info, name)
    BY HasNameIs, NamesAssumption DEF AreOutputs
  <1>2. CASE HasName(info, name)
    <2>1. next = all
      BY <1>1, <1>2 DEF Unplug
    <2>2. \A w \in W : SameHolds(C, all[w], all[w])
      BY DEF SameHolds
    <2> QED
      BY <2>1, <2>2, <1>2 DEF HasName
  <1>3. CASE ~HasName(info, name)
    <2>1. next = [w \in W |-> RemoveMonitor(all[w], name, pointer)]
      BY <1>1, <1>3 DEF Unplug, AllFit
    <2>2. name # p
      BY <1>3 DEF AreOutputs, HasName
    <2>3. \A w \in W : WithName(all[w], name) = k
      BY SameLookup DEF AllFit
    <2>4. ASSUME NEW w \in W
          PROVE  /\ Fit(C, p, next[w]) /\ SameHolds(C, all[w], next[w])
                 /\ k = 0 => next[w] = all[w]
                 /\ k # 0 => /\ Len(next[w]) = Len(all[w]) - 1
                             /\ \A j \in 1..Len(next[w]) :
                                  next[w][j].name = all[w][Before(j, k)].name
      <3>1. Fit(C, p, all[w]) /\ next[w] = RemoveMonitor(all[w], name, pointer)
        BY <2>1 DEF AllFit
      <3> DEFINE ns == RemoveMonitor(all[w], name, pointer)
                 m  == WithName(all[w], name)
      <3> HIDE DEF next, k
      <3>2. /\ Fit(C, p, ns) /\ SameHolds(C, all[w], ns)
            /\ m = 0 => ns = all[w]
            /\ m # 0 => /\ Len(ns) = Len(all[w]) - 1
                        /\ \A j \in 1..Len(ns) :
                             ns[j].name = all[w][Before(j, m)].name
        BY SMTT(60), <3>1, <2>2, RemoveMonitorIs
      <3>3. m = k
        BY <2>3
      <3> HIDE DEF ns, m
      <3>4. next[w] = ns
        BY <3>1 DEF ns
      <3> QED
        BY <3>2, <3>3, <3>4
    <2>5. next \in [W -> Seq(Monitor(C))]
      <3> HIDE DEF next
      <3>1. DOMAIN next = W /\ next = [w \in W |-> next[w]]
        BY <2>1
      <3> QED
        BY <3>1, <2>4 DEF Fit
    <2> HIDE DEF next
    <2>6. all \in [W -> Seq(Monitor(C))] /\ \A w \in W : Len(all[w]) \in Nat
      BY DEF AllFit
    <2>7. k \in 0..Len(all[first]) /\ (k # 0 => all[first][k].name = name)
      BY <2>6, WithNameIs
    <2>8. k = 0 => ~HasName(all[first], name)
      BY <2>6, HasNameIs, NamesAssumption
    <2> HIDE DEF k
    <2>9. ASSUME NEW v \in W, NEW w \in W PROVE SameNames(next[v], next[w])
      <3>1. Len(all[v]) = Len(all[w]) /\ \A i \in 1..Len(all[v]) : all[v][i].name = all[w][i].name
        BY DEF AllFit, SameNames
      <3>2. CASE k = 0
        BY <3>1, <3>2, <2>4 DEF SameNames
      <3>3. CASE k # 0
        <4>1. Len(next[v]) = Len(next[w])
          BY <3>1, <3>3, <2>4
        <4>2. ASSUME NEW i \in 1..Len(next[v]) PROVE next[v][i].name = next[w][i].name
          <5>1. Before(i, k) \in 1..Len(all[v])
            BY <3>3, <2>4, <2>6, <2>7 DEF Before
          <5> QED
            BY <5>1, <4>1, <3>1, <3>3, <2>4
        <4> QED
          BY <4>1, <4>2 DEF SameNames
      <3> QED
        BY <3>2, <3>3
    <2>10. ASSUME NEW i \in 1..Len(next[first])
           PROVE  HasName(all[first], next[first][i].name) /\ next[first][i].name # name
      <3>1. CASE k = 0
        BY <3>1, <2>4, <2>8 DEF HasName
      <3>2. CASE k # 0
        <4> DEFINE j == Before(i, k)
        <4>1. j \in 1..Len(all[first]) /\ j # k
          BY <3>2, <2>4, <2>6, <2>7 DEF Before
        <4>2. next[first][i].name = all[first][j].name
          BY <3>2, <2>4
        <4> HIDE DEF j
        <4>3. all[first][j].name # name
          BY <4>1, <2>7, <3>2 DEF AllFit, Fit
        <4> QED
          BY <4>1, <4>2, <4>3 DEF HasName
      <3> QED
        BY <3>1, <3>2
    <2>11. AllFit(C, p, W, next) /\ \A w \in W : SameHolds(C, all[w], next[w])
      BY <2>4, <2>5, <2>9 DEF AllFit
    <2>12. ~HasName(next[first], name)
      BY <2>10 DEF HasName
    <2> QED
      BY <2>10, <2>11, <2>12 DEF next
  <1> QED
    BY <1>2, <1>3

LEMMA CreateMonitorIs ==
  ASSUME NEW C, NEW o \in Output
  PROVE  /\ CreateMonitor(o) \in Monitor(C)
         /\ CreateMonitor(o).name = o.name /\ CreateMonitor(o).primary = o.primary
         /\ \A l \in Kinds : \A c : c \notin CreateMonitor(o).holds[l]
  BY DEF CreateMonitor, Monitor, Output, Nobody, Kinds

PrimaryIs(p, o) == o.primary <=> o.name = p

(* One turn of the loop on find_new_monitor.                               *)
LEMMA PlugIs ==
  ASSUME NEW C, NEW p \in Names, NEW W, NEW first \in W, NEW all, AllFit(C, p, W, all),
         NEW e, e.first = first, NEW o \in Output, PrimaryIs(p, o)
  PROVE  LET next == Plug(e, all, o)
         IN /\ AllFit(C, p, W, next)
            /\ \A w \in W : SameHolds(C, all[w], next[w])
            /\ HasName(next[first], o.name)
            /\ \A name : HasName(all[first], name) => HasName(next[first], name)
            /\ \A i \in 1..Len(next[first]) :
                 next[first][i].name # o.name => HasName(all[first], next[first][i].name)
  <1> DEFINE next == Plug(e, all, o)
             m    == CreateMonitor(o)
  <1>1. /\ all \in [W -> Seq(Monitor(C))] /\ o.name \in Names /\ o.name # NoName
        /\ \A w \in W : all[w] \in Seq(Monitor(C)) /\ Len(all[w]) \in Nat
    BY NamesAssumption DEF AllFit, Output
  <1>2. WithName(all[first], o.name) # 0 <=> HasName(all[first], o.name)
    BY <1>1, HasNameIs
  <1>3. CASE HasName(all[first], o.name)
    <2>1. next = all
      BY <1>2, <1>3 DEF Plug
    <2>2. \A w \in W : SameHolds(C, all[w], all[w])
      BY DEF SameHolds
    <2>3. \A i \in 1..Len(all[first]) : HasName(all[first], all[first][i].name)
      BY DEF HasName
    <2> QED
      BY <2>1, <2>2, <2>3, <1>3
  <1>4. CASE ~HasName(all[first], o.name)
    <2>1. next = [w \in W |-> Append(all[w], m)]
      BY <1>1, <1>2, <1>4 DEF Plug
    <2>2. /\ m \in Monitor(C) /\ m.name = o.name /\ m.primary = o.primary
          /\ \A l \in Kinds : \A c : c \notin m.holds[l]
      BY CreateMonitorIs
    <2> HIDE DEF next, m
    <2>3. ASSUME NEW w \in W
          PROVE  /\ next[w] \in Seq(Monitor(C)) /\ Len(next[w]) = Len(all[w]) + 1
                 /\ \A i \in 1..Len(all[w]) : next[w][i] = all[w][i]
                 /\ next[w][Len(all[w]) + 1] = m
      <3>1. next[w] = Append(all[w], m) /\ all[w] \in Seq(Monitor(C)) /\ m \in Monitor(C)
        BY <2>1, <2>2, <1>1
      <3> QED
        BY <3>1, AppendProperties
    <2>4. ASSUME NEW v \in W, NEW w \in W PROVE SameNames(next[v], next[w])
      <3>1. Len(all[v]) = Len(all[w]) /\ \A i \in 1..Len(all[v]) : all[v][i].name = all[w][i].name
        BY DEF AllFit, SameNames
      <3>2. Len(next[v]) = Len(next[w])
        BY <3>1, <2>3
      <3>3. ASSUME NEW i \in 1..Len(next[v]) PROVE next[v][i].name = next[w][i].name
        <4>1. i \in 1..Len(all[v]) \/ i = Len(all[v]) + 1
          BY <1>1, <2>3
        <4>2. CASE i \in 1..Len(all[v])
          <5>1. i \in 1..Len(all[w]) /\ next[v][i] = all[v][i] /\ next[w][i] = all[w][i]
            BY <4>2, <3>1, <2>3
          <5> QED
            BY <5>1, <4>2, <3>1
        <4>3. CASE i = Len(all[v]) + 1
          BY <4>3, <3>1, <2>3
        <4> QED
          BY <4>1, <4>2, <4>3
      <3> QED
        BY <3>2, <3>3 DEF SameNames
    <2>5. \A w \in W : \A i \in 1..Len(all[w]) : all[w][i].name # o.name
      <3>1. \A i \in 1..Len(all[first]) : all[first][i].name # o.name
        BY <1>4 DEF HasName
      <3> QED
        BY <3>1 DEF AllFit, SameNames
    <2>6. ASSUME NEW w \in W PROVE Fit(C, p, next[w])
      <3>1. Fit(C, p, all[w])
        BY DEF AllFit
      <3>2. \A i \in 1..Len(next[w]) : i \in 1..Len(all[w]) \/ i = Len(all[w]) + 1
        BY <1>1, <2>3
      <3>3. \A i \in 1..Len(next[w]) : /\ next[w][i].name \in Names
                                       /\ next[w][i].primary <=> next[w][i].name = p
        BY <3>1, <3>2, <2>2, <2>3, <1>1 DEF Fit, PrimaryIs
      <3>4. ASSUME NEW i \in 1..Len(next[w]), NEW j \in 1..Len(next[w]),
                   next[w][i].name = next[w][j].name
            PROVE  i = j
        <4>1. CASE i \in 1..Len(all[w]) /\ j \in 1..Len(all[w])
          <5>1. next[w][i] = all[w][i] /\ next[w][j] = all[w][j]
            BY <4>1, <2>3
          <5> QED
            BY <5>1, <4>1, <3>1, <3>4 DEF Fit
        <4>2. CASE i = Len(all[w]) + 1 /\ j \in 1..Len(all[w])
          <5>1. next[w][i] = m /\ next[w][j] = all[w][j]
            BY <4>2, <2>3
          <5> QED
            BY <5>1, <4>2, <3>4, <2>2, <2>5
        <4>3. CASE i \in 1..Len(all[w]) /\ j = Len(all[w]) + 1
          <5>1. next[w][i] = all[w][i] /\ next[w][j] = m
            BY <4>3, <2>3
          <5> QED
            BY <5>1, <4>3, <3>4, <2>2, <2>5
        <4> QED
          BY <3>2, <4>1, <4>2, <4>3
      <3>5. \E i \in 1..Len(next[w]) : next[w][i].name = p
        BY SMTT(60), <3>1, <2>3, <1>1 DEF Fit
      <3> QED
        BY <3>3, <3>4, <3>5, <2>3 DEF Fit
    <2>7. ASSUME NEW w \in W PROVE SameHolds(C, all[w], next[w])
      <3>1. \A i \in 1..Len(next[w]) : i \in 1..Len(all[w]) \/ i = Len(all[w]) + 1
        BY <1>1, <2>3
      <3>2. \A i \in 1..Len(all[w]) : i \in 1..Len(next[w])
        BY <1>1, <2>3
      <3>3. \A c \in C, l \in Kinds : Holds(next[w], l, c) <=> Holds(all[w], l, c)
        BY <3>1, <3>2, <2>2, <2>3 DEF Holds
      <3>4. Apart(C, all[w]) => Apart(C, next[w])
        BY <3>1, <2>2, <2>3 DEF Apart
      <3> QED
        BY <3>3, <3>4 DEF SameHolds
    <2>8. \A name : HasName(all[first], name) => HasName(next[first], name)
      BY <2>3, <1>1 DEF HasName
    <2>9. HasName(next[first], o.name)
      <3>1. Len(all[first]) + 1 \in 1..Len(next[first])
        BY <2>3, <1>1
      <3> QED
        BY <3>1, <2>2, <2>3 DEF HasName
    <2>10. \A i \in 1..Len(next[first]) :
             next[first][i].name # o.name => HasName(all[first], next[first][i].name)
      <3>1. \A i \in 1..Len(next[first]) : i \in 1..Len(all[first]) \/ i = Len(all[first]) + 1
        BY <1>1, <2>3
      <3> QED
        BY <3>1, <2>2, <2>3 DEF HasName
    <2>11. next \in [W -> Seq(Monitor(C))]
      <3>1. DOMAIN next = W /\ next = [w \in W |-> next[w]]
        BY <2>1
      <3> QED
        BY <3>1, <2>3
    <2>12. AllFit(C, p, W, next)
      BY <2>4, <2>6, <2>11 DEF AllFit
    <2> QED
      BY <2>7, <2>8, <2>9, <2>10, <2>12 DEF next
  <1> QED
    BY <1>3, <1>4

LEMMA SameHoldsTransitive ==
  ASSUME NEW C, NEW ms, NEW ns, NEW os, SameHolds(C, ms, ns), SameHolds(C, ns, os)
  PROVE  SameHolds(C, ms, os)
  BY DEF SameHolds

(* No monitor is without a name, so the loop looks at all of them.         *)
LEMMA NamedIs ==
  ASSUME NEW C, NEW p, NEW ms, Fit(C, p, ms)
  PROVE  /\ Named(ms) \in Seq(Names) /\ Len(Named(ms)) = Len(ms)
         /\ \A i \in 1..Len(ms) : Named(ms)[i] = ms[i].name
  <1>1. Len(ms) \in Nat /\ {i \in 1..Len(ms) : ms[i].name = NoName} = {}
    BY NamesAssumption DEF Fit
  <1>2. SelectInSeq(ms, LAMBDA m : m.name = NoName) = 0
    BY <1>1 DEF SelectInSeq
  <1>3. Named(ms) = [i \in 1..Len(ms) |-> ms[i].name]
    BY <1>2 DEF Named
  <1> QED
    BY <1>1, <1>3, IsASeq DEF Fit

(* The loop on find_removed_monitor: what is left is outputs.              *)
LEMMA UnplugAllIs ==
  ASSUME NEW C, NEW p \in Names, NEW W, NEW first \in W, NEW all, AllFit(C, p, W, all),
         NEW info, AreOutputs(p, info), NEW pointer
  PROVE  LET e    == [first |-> first, info |-> info, pointer |-> pointer]
             kept == UnplugAll!Along(e, all, Named(all[first]))
         IN /\ AllFit(C, p, W, kept)
            /\ \A w \in W : SameHolds(C, all[w], kept[w])
            /\ \A i \in 1..Len(kept[first]) : HasName(info, kept[first][i].name)
  <1> DEFINE e     == [first |-> first, info |-> info, pointer |-> pointer]
             names == Named(all[first])
             Left(t, k) == \A i \in 1..Len(t[first]) :
                             \/ HasName(info, t[first][i].name)
                             \/ \E j \in (k + 1)..Len(names) : t[first][i].name = names[j]
             Stage == [k \in 0..Len(names) |->
                         {t \in [W -> Seq(Monitor(C))] :
                            /\ AllFit(C, p, W, t)
                            /\ \A w \in W : SameHolds(C, all[w], t[w])
                            /\ Left(t, k)}]
             kept  == UnplugAll!Along(e, all, names)
  <1>1. /\ names \in Seq(Names) /\ Len(names) \in Nat /\ Len(names) = Len(all[first])
        /\ \A i \in 1..Len(all[first]) : names[i] = all[first][i].name
    BY NamedIs DEF AllFit
  <1> HIDE DEF names, e
  <1>2. all \in Stage[0]
    <2>1. \A w \in W : SameHolds(C, all[w], all[w])
      BY DEF SameHolds
    <2>2. Left(all, 0)
      BY <1>1
    <2> QED
      BY <2>1, <2>2, <1>1 DEF AllFit
  <1>3. ASSUME NEW k \in 1..Len(names), NEW t \in Stage[k - 1]
        PROVE  Unplug(e, t, names[k]) \in Stage[k]
    <2> DEFINE u == Unplug(e, t, names[k])
    <2>1. /\ k - 1 \in 0..Len(names) /\ k \in 0..Len(names) /\ names[k] \in Names
      BY <1>1
    <2>2. AllFit(C, p, W, t) /\ (\A w \in W : SameHolds(C, all[w], t[w])) /\ Left(t, k - 1)
      BY <2>1
    <2>3. /\ AllFit(C, p, W, u) /\ (\A w \in W : SameHolds(C, t[w], u[w]))
          /\ HasName(u[first], names[k]) => HasName(info, names[k])
          /\ \A i \in 1..Len(u[first]) : HasName(t[first], u[first][i].name)
      BY ZenonT(60), <2>1, <2>2, UnplugIs DEF e
    <2> HIDE DEF u
    <2>4. \A w \in W : SameHolds(C, all[w], u[w])
      BY <2>2, <2>3, SameHoldsTransitive
    <2>5. ASSUME NEW i \in 1..Len(u[first]), ~HasName(info, u[first][i].name)
          PROVE  \E j \in (k + 1)..Len(names) : u[first][i].name = names[j]
      <3>1. PICK h \in 1..Len(t[first]) : t[first][h].name = u[first][i].name
        BY <2>3 DEF HasName
      <3>2. PICK j \in ((k - 1) + 1)..Len(names) : t[first][h].name = names[j]
        BY <3>1, <2>2, <2>5
      <3>3. HasName(u[first], u[first][i].name)
        BY DEF HasName
      <3>4. u[first][i].name # names[k]
        BY <3>3, <2>3, <2>5
      <3>5. j # k
        BY <3>1, <3>2, <3>4
      <3>6. j \in (k + 1)..Len(names)
        BY <3>5, <3>2, <1>1
      <3> QED
        BY <3>1, <3>2, <3>6
    <2> QED
      BY <2>1, <2>3, <2>4, <2>5 DEF AllFit, u
  <1>4. kept \in Stage[Len(names)]
    <2> HIDE DEF Stage
    <2> QED
      BY <1>1, <1>2, <1>3, UnplugAll!AlongStages
  <1> HIDE DEF kept
  <1>5. AllFit(C, p, W, kept) /\ (\A w \in W : SameHolds(C, all[w], kept[w])) /\ Left(kept, Len(names))
    BY <1>1, <1>4
  <1>6. \A i \in 1..Len(kept[first]) : HasName(info, kept[first][i].name)
    BY <1>1, <1>5
  <1> QED
    BY <1>5, <1>6 DEF kept, names, e

(* The loop on find_new_monitor: every output is there.                    *)
LEMMA PlugAllIs ==
  ASSUME NEW C, NEW p \in Names, NEW W, NEW first \in W, NEW all, AllFit(C, p, W, all),
         NEW info, AreOutputs(p, info), NEW e, e.first = first,
         \A i \in 1..Len(all[first]) : HasName(info, all[first][i].name)
  PROVE  LET full == PlugAll!Along(e, all, info)
         IN /\ AllFit(C, p, W, full)
            /\ \A w \in W : SameHolds(C, all[w], full[w])
            /\ \A i \in 1..Len(full[first]) : HasName(info, full[first][i].name)
            /\ \A k \in 1..Len(info) : HasName(full[first], info[k].name)
  <1> DEFINE In(t, k) == /\ \A i \in 1..Len(t[first]) : HasName(info, t[first][i].name)
                         /\ \A j \in 1..k : HasName(t[first], info[j].name)
             Stage == [k \in 0..Len(info) |->
                         {t \in [W -> Seq(Monitor(C))] :
                            /\ AllFit(C, p, W, t)
                            /\ \A w \in W : SameHolds(C, all[w], t[w])
                            /\ In(t, k)}]
             full  == PlugAll!Along(e, all, info)
  <1>1. info \in Seq(Output) /\ Len(info) \in Nat
    BY DEF AreOutputs
  <1>2. all \in Stage[0]
    <2>1. \A w \in W : SameHolds(C, all[w], all[w])
      BY DEF SameHolds
    <2> QED
      BY <2>1, <1>1 DEF AllFit
  <1>3. ASSUME NEW k \in 1..Len(info), NEW t \in Stage[k - 1]
        PROVE  Plug(e, t, info[k]) \in Stage[k]
    <2> DEFINE u == Plug(e, t, info[k])
               o == info[k]
    <2>1. /\ k - 1 \in 0..Len(info) /\ k \in 0..Len(info)
          /\ o \in Output /\ PrimaryIs(p, o)
      BY <1>1 DEF AreOutputs, PrimaryIs
    <2>2. AllFit(C, p, W, t) /\ (\A w \in W : SameHolds(C, all[w], t[w])) /\ In(t, k - 1)
      BY <2>1
    <2>3. /\ AllFit(C, p, W, u) /\ (\A w \in W : SameHolds(C, t[w], u[w]))
          /\ HasName(u[first], o.name)
          /\ \A name : HasName(t[first], name) => HasName(u[first], name)
          /\ \A i \in 1..Len(u[first]) :
               u[first][i].name # o.name => HasName(t[first], u[first][i].name)
      <3> HIDE DEF o, In, Stage
      <3>1. u = Plug(e, t, o)
        BY DEF o
      <3>2. AllFit(C, p, W, t)
        BY <2>2
      <3> QED
        BY <3>1, <3>2, <2>1, PlugIs
    <2> HIDE DEF u
    <2>4. \A w \in W : SameHolds(C, all[w], u[w])
      BY <2>2, <2>3, SameHoldsTransitive
    <2>5. \A i \in 1..Len(u[first]) : HasName(info, u[first][i].name)
      <3>1. HasName(info, o.name)
        BY DEF HasName
      <3> HIDE DEF o
      <3>2. ASSUME NEW name, HasName(t[first], name) PROVE HasName(info, name)
        <4>1. PICK i \in 1..Len(t[first]) : t[first][i].name = name
          BY <3>2 DEF HasName
        <4> QED
          BY <4>1, <2>2
      <3> QED
        BY <3>1, <3>2, <2>3
    <2>6. ASSUME NEW j \in 1..k PROVE HasName(u[first], info[j].name)
      <3>1. CASE j = k
        BY <3>1, <2>3
      <3>2. CASE j # k
        <4>1. j \in 1..(k - 1)
          BY <3>2, <1>1
        <4> QED
          BY <4>1, <2>2, <2>3
      <3> QED
        BY <3>1, <3>2
    <2> QED
      BY <2>1, <2>3, <2>4, <2>5, <2>6 DEF AllFit, u
  <1>4. full \in Stage[Len(info)]
    <2> HIDE DEF Stage
    <2> QED
      BY <1>1, <1>2, <1>3, PlugAll!AlongStages
  <1> QED
    BY <1>1, <1>4

(* What monitors_update_internal_data copies right.                        *)
Matches(m, o) ==
  m.name = o.name /\ m.primary = o.primary /\ m.x = o.x /\ m.w = o.w /\ m.h = o.h

(* The monitors are the outputs.                                           *)
Follows(ms, info) ==
  /\ \A i \in 1..Len(ms) : \E k \in 1..Len(info) : Matches(ms[i], info[k])
  /\ \A k \in 1..Len(info) : \E i \in 1..Len(ms) : Matches(ms[i], info[k])

LEMMA UpdateInternalDataIs ==
  ASSUME NEW C, NEW p \in Names, NEW ms, Fit(C, p, ms), NEW info, AreOutputs(p, info),
         \A i \in 1..Len(ms) : HasName(info, ms[i].name)
  PROVE  LET ns == UpdateInternalData(ms, info)
         IN /\ Fit(C, p, ns) /\ SameHolds(C, ms, ns) /\ SameNames(ms, ns)
            /\ \A i \in 1..Len(ns) : \E k \in 1..Len(info) : Matches(ns[i], info[k])
  <1> DEFINE ns   == UpdateInternalData(ms, info)
             k(i) == WithName(info, ms[i].name)
             new(i) == [ms[i] EXCEPT !.x = info[k(i)].x, !.y = info[k(i)].x,
                                     !.w = info[k(i)].w, !.h = info[k(i)].h,
                                     !.primary = info[k(i)].primary]
  <1>1. /\ ms \in Seq(Monitor(C)) /\ Len(ms) \in Nat
        /\ \A i \in 1..Len(ms) : ms[i] \in Monitor(C) /\ ms[i].name \in Names
        /\ info \in Seq(Output)
        /\ \A j \in 1..Len(info) : info[j] \in Output
    BY DEF Fit, AreOutputs
  <1>2. ASSUME NEW i \in 1..Len(ms)
        PROVE  k(i) \in 1..Len(info) /\ info[k(i)].name = ms[i].name
    <2>1. k(i) # 0
      BY <1>1, HasNameIs, NamesAssumption
    <2> QED
      BY <2>1, <1>1, WithNameIs
  <1>3. ns = [i \in 1..Len(ms) |-> IF k(i) = 0 THEN ms[i] ELSE new(i)]
    BY <1>1 DEF UpdateInternalData
  <1>4. ASSUME NEW i \in 1..Len(ms)
        PROVE  /\ ns[i] \in Monitor(C) /\ ns[i].name = ms[i].name
               /\ ns[i].holds = ms[i].holds
               /\ Matches(ns[i], info[k(i)])
    <2>1. ns[i] = new(i)
      <3>1. k(i) # 0
        BY <1>2
      <3> HIDE DEF k, new, ns
      <3> QED
        BY <3>1, <1>3
    <2>2. info[k(i)] \in Output /\ ms[i] \in Monitor(C) /\ info[k(i)].name = ms[i].name
      BY <1>1, <1>2
    <2> HIDE DEF k
    <2>3. /\ new(i) \in Monitor(C) /\ new(i).name = ms[i].name /\ new(i).holds = ms[i].holds
          /\ Matches(new(i), info[k(i)])
      BY <2>2 DEF Monitor, Output, Matches
    <2> HIDE DEF new, ns
    <2> QED
      BY <2>1, <2>3
  <1>5. ns \in Seq(Monitor(C)) /\ Len(ns) = Len(ms)
    <2>1. Len(ms) \in Nat /\ DOMAIN ns = 1..Len(ms) /\ ns = [i \in 1..Len(ms) |-> ns[i]]
      BY <1>1, <1>3
    <2> HIDE DEF ns
    <2> QED
      BY <2>1, <1>4, IsASeq
  <1> HIDE DEF ns, k, new
  <1>6. \A i \in 1..Len(ms) : ns[i].primary <=> ns[i].name = p
    BY <1>2, <1>4 DEF Matches, AreOutputs
  <1>7. Fit(C, p, ns)
    BY <1>1, <1>4, <1>5, <1>6 DEF Fit
  <1>8. SameNames(ms, ns)
    BY <1>4, <1>5 DEF SameNames
  <1>9. SameHolds(C, ms, ns)
    BY <1>4, <1>5 DEF SameHolds, Holds, Apart
  <1>10. \A i \in 1..Len(ns) : \E j \in 1..Len(info) : Matches(ns[i], info[j])
    BY <1>2, <1>4, <1>5
  <1> QED
    BY <1>7, <1>8, <1>9, <1>10 DEF ns

(* update_monitors, from and to any outputs, as long as the primary one    *)
(* stays: whatever has come and gone together, the monitors of every       *)
(* workspace are the outputs, everywhere in the same order; and no client  *)
(* is lost, is in another list or is on two monitors.                      *)
THEOREM UpdateMonitorsFollows ==
  ASSUME NEW C, NEW p \in Names, NEW W, NEW first \in W, NEW all, AllFit(C, p, W, all),
         NEW info, AreOutputs(p, info), NEW pointer
  PROVE  LET new == UpdateMonitors(all, first, info, pointer)
         IN /\ AllFit(C, p, W, new)
            /\ \A w \in W : SameHolds(C, all[w], new[w])
            /\ \A w \in W : Follows(new[w], info)
  <1> DEFINE e    == [first |-> first, info |-> info, pointer |-> pointer]
             kept == UnplugAll!Along(e, all, Named(all[first]))
             full == PlugAll!Along(e, kept, info)
             new  == UpdateMonitors(all, first, info, pointer)
  <1>1. /\ AllFit(C, p, W, kept)
        /\ \A w \in W : SameHolds(C, all[w], kept[w])
        /\ \A i \in 1..Len(kept[first]) : HasName(info, kept[first][i].name)
    BY UnplugAllIs
  <1>2. new = [w \in W |-> UpdateInternalData(full[w], info)]
    <2>1. DOMAIN all = W
      BY DEF AllFit
    <2> QED
      BY <2>1 DEF UpdateMonitors
  <1> HIDE DEF kept
  <1>3. /\ AllFit(C, p, W, full)
        /\ \A w \in W : SameHolds(C, kept[w], full[w])
        /\ \A i \in 1..Len(full[first]) : HasName(info, full[first][i].name)
        /\ \A k \in 1..Len(info) : HasName(full[first], info[k].name)
    <2>1. e.first = first
      OBVIOUS
    <2> HIDE DEF e
    <2> QED
      BY <1>1, <2>1, PlugAllIs
  <1> HIDE DEF full, new
  <1>4. ASSUME NEW w \in W
        PROVE  /\ Fit(C, p, new[w]) /\ SameHolds(C, full[w], new[w])
               /\ SameNames(full[w], new[w])
               /\ \A i \in 1..Len(new[w]) : \E k \in 1..Len(info) : Matches(new[w][i], info[k])
    <2>1. Fit(C, p, full[w]) /\ new[w] = UpdateInternalData(full[w], info)
      BY <1>2, <1>3 DEF AllFit
    <2>2. ASSUME NEW i \in 1..Len(full[w]) PROVE HasName(info, full[w][i].name)
      <3>1. i \in 1..Len(full[first]) /\ full[w][i].name = full[first][i].name
        BY <1>3 DEF AllFit, SameNames
      <3> QED
        BY <3>1, <1>3
    <2> QED
      BY <2>1, <2>2, UpdateInternalDataIs
  <1>5. AllFit(C, p, W, new)
    <2>1. DOMAIN new = W /\ new = [w \in W |-> new[w]]
      BY <1>2
    <2>2. new \in [W -> Seq(Monitor(C))]
      BY <2>1, <1>4 DEF Fit
    <2>3. \A v, w \in W : SameNames(new[v], new[w])
      BY <1>3, <1>4 DEF AllFit, SameNames
    <2> QED
      BY <2>2, <2>3, <1>4 DEF AllFit
  <1>6. \A w \in W : SameHolds(C, all[w], new[w])
    BY <1>1, <1>3, <1>4, SameHoldsTransitive
  <1>7. ASSUME NEW w \in W, NEW k \in 1..Len(info)
        PROVE  \E i \in 1..Len(new[w]) : Matches(new[w][i], info[k])
    <2>1. PICK i \in 1..Len(full[first]) : full[first][i].name = info[k].name
      BY <1>3 DEF HasName
    <2>2. i \in 1..Len(full[w]) /\ full[w][i].name = info[k].name
      BY <2>1, <1>3 DEF AllFit, SameNames
    <2>3. i \in 1..Len(new[w]) /\ new[w][i].name = info[k].name
      BY <2>2, <1>4 DEF SameNames
    <2>4. PICK j \in 1..Len(info) : Matches(new[w][i], info[j])
      BY <2>3, <1>4
    <2>5. j = k
      BY <2>3, <2>4 DEF Matches, AreOutputs
    <2> QED
      BY <2>3, <2>4, <2>5
  <1>8. \A w \in W : Follows(new[w], info)
    BY <1>4, <1>7 DEF Follows
  <1> QED
    BY <1>5, <1>6, <1>8 DEF new

-----------------------------------------------------------------------------
(* Outputs, workspaces and clients.                                        *)

States == {"out", "coming", "mapped", "going", "unmapped"}

Box == [x : Int, y : Int, w : Nat, h : Nat]

Record ==
  [state : States, workspace : Workspaces \cup {NoWorkspace}, mode : Kinds \ {"ul"},
   prop : Names \cup {NoName}, box : Box, placed : BOOLEAN,
   drag : {"no", "drag", "mouse_resize"}]

State == [monitors : [Workspaces -> Seq(Monitor(Clients))], client : [Clients -> Record]]

(* What no client changes by going from list to list.                      *)
SameShape(ms, ns) ==
  /\ Len(ms) = Len(ns)
  /\ \A i \in 1..Len(ms) :
       /\ ms[i].name = ns[i].name /\ ms[i].primary = ns[i].primary
       /\ ms[i].x = ns[i].x /\ ms[i].y = ns[i].y /\ ms[i].w = ns[i].w /\ ms[i].h = ns[i].h

SameMonitors(s, t) == \A w \in Workspaces : SameShape(s.monitors[w], t.monitors[w])

(* The lists of t hold d as those of s do.                                 *)
Undisturbed(s, t, d) ==
  \A v \in Workspaces : \A j \in 1..Len(s.monitors[v]) : \A m \in Kinds :
    d \in t.monitors[v][j].holds[m] <=> d \in s.monitors[v][j].holds[m]

(* One list holds c: list l of monitor k of workspace w.                   *)
HeldAt(s, c, w, k, l) ==
  \A v \in Workspaces : \A j \in 1..Len(s.monitors[v]) : \A m \in Kinds :
    c \in s.monitors[v][j].holds[m] <=> (v = w /\ j = k /\ m = l)

Nowhere(s, c) ==
  \A v \in Workspaces : \A j \in 1..Len(s.monitors[v]) : \A m \in Kinds :
    c \notin s.monitors[v][j].holds[m]

-----------------------------------------------------------------------------
(* Clients in lists.                                                       *)

SameFrame(m, n) ==
  /\ m.name = n.name /\ m.primary = n.primary
  /\ m.x = n.x /\ m.y = n.y /\ m.w = n.w /\ m.h = n.h

(* One monitor has got other lists.                                        *)
Replaced(s, w, k, m) == [s EXCEPT !.monitors[w][k] = m]

LEMMA ReplaceIs ==
  ASSUME NEW s \in State, NEW w \in Workspaces, NEW k \in 1..Len(s.monitors[w]),
         NEW m \in Monitor(Clients), SameFrame(s.monitors[w][k], m)
  PROVE  LET t == Replaced(s, w, k, m)
         IN /\ t \in State /\ t.client = s.client /\ SameMonitors(s, t)
            /\ t.monitors[w][k] = m
            /\ \A v \in Workspaces : \A j \in 1..Len(s.monitors[v]) :
                 v # w \/ j # k => t.monitors[v][j] = s.monitors[v][j]
  <1> DEFINE ms == [s.monitors[w] EXCEPT ![k] = m]
             all == [s.monitors EXCEPT ![w] = ms]
             t  == Replaced(s, w, k, m)
  <1>1. /\ s.monitors \in [Workspaces -> Seq(Monitor(Clients))]
        /\ s.monitors[w] \in Seq(Monitor(Clients)) /\ Len(s.monitors[w]) \in Nat
    BY DEF State
  <1>2. /\ ms \in Seq(Monitor(Clients)) /\ Len(ms) = Len(s.monitors[w])
        /\ ms[k] = m
        /\ \A j \in 1..Len(s.monitors[w]) : j # k => ms[j] = s.monitors[w][j]
    BY <1>1, ExceptSeq
  <1> HIDE DEF ms
  <1>3. /\ all \in [Workspaces -> Seq(Monitor(Clients))] /\ all[w] = ms
        /\ \A v \in Workspaces : v # w => all[v] = s.monitors[v]
    BY <1>1, <1>2
  <1> HIDE DEF all
  <1>4. t \in State /\ t.client = s.client /\ t.monitors = all
    <2>1. t = [s EXCEPT !.monitors = all]
      BY DEF all, ms, Replaced
    <2> HIDE DEF t
    <2> QED
      BY <2>1, <1>3 DEF State
  <1> HIDE DEF t
  <1>5. SameMonitors(s, t)
    <2> SUFFICES ASSUME NEW v \in Workspaces PROVE SameShape(s.monitors[v], t.monitors[v])
      BY DEF SameMonitors
    <2>1. CASE v # w
      BY <2>1, <1>3, <1>4 DEF SameShape
    <2>2. CASE v = w
      <3>1. Len(t.monitors[v]) = Len(s.monitors[v])
        BY <2>2, <1>2, <1>3, <1>4
      <3>2. ASSUME NEW i \in 1..Len(s.monitors[v])
            PROVE  SameFrame(s.monitors[v][i], t.monitors[v][i])
        <4>1. CASE i = k
          BY <4>1, <2>2, <1>2, <1>3, <1>4
        <4>2. CASE i # k
          BY <4>2, <2>2, <1>2, <1>3, <1>4 DEF SameFrame
        <4> QED
          BY <4>1, <4>2
      <3> QED
        BY <3>1, <3>2 DEF SameShape, SameFrame
    <2> QED
      BY <2>1, <2>2
  <1>6. t.monitors[w][k] = m
    BY <1>2, <1>3, <1>4
  <1>7. ASSUME NEW v \in Workspaces, NEW j \in 1..Len(s.monitors[v]), v # w \/ j # k
        PROVE  t.monitors[v][j] = s.monitors[v][j]
    BY <1>2, <1>3, <1>4, <1>7
  <1> QED
    BY <1>4, <1>5, <1>6, <1>7 DEF t, all, ms

LEMMA SameMonitorsReflexive ==
  ASSUME NEW s
  PROVE  SameMonitors(s, s) /\ \A d : Undisturbed(s, s, d)
  BY DEF SameMonitors, SameShape, Undisturbed

LEMMA TakeIs ==
  ASSUME NEW s \in State, NEW w \in Workspaces, NEW k \in 0..Len(s.monitors[w]),
         NEW l \in Kinds, NEW c \in Clients
  PROVE  LET t == Take(s, w, k, l, c)
         IN /\ t \in State /\ t.client = s.client /\ SameMonitors(s, t)
            /\ \A d \in Clients \ {c} : Undisturbed(s, t, d)
            /\ HeldAt(s, c, w, k, l) => Nowhere(t, c)
  <1> DEFINE m == [s.monitors[w][k] EXCEPT !.holds[l] = @ \ {c}]
             t == Take(s, w, k, l, c)
  <1>1. t = Replaced(s, w, k, m)
    BY DEF Take, Replaced
  <1>2. CASE k = 0
    <2>1. s.monitors[w] \in Seq(Monitor(Clients)) /\ s.monitors \in [Workspaces -> Seq(Monitor(Clients))]
      BY DEF State
    <2> HIDE DEF m
    <2>2. [s.monitors[w] EXCEPT ![k] = m] = s.monitors[w]
      BY <1>2, <2>1
    <2>3. [s.monitors EXCEPT ![w] = s.monitors[w]] = s.monitors
      BY <2>1
    <2>4. t = [s EXCEPT !.monitors = s.monitors]
      BY <1>1, <2>2, <2>3 DEF Replaced
    <2>5. t = s
      BY <2>4 DEF State
    <2>6. HeldAt(s, c, w, k, l) => Nowhere(s, c)
      BY <1>2 DEF HeldAt, Nowhere
    <2> QED
      BY <2>5, <2>6, SameMonitorsReflexive
  <1>3. CASE k # 0
    <2>1. /\ m \in Monitor(Clients) /\ SameFrame(s.monitors[w][k], m)
          /\ \A j \in Kinds : j # l => m.holds[j] = s.monitors[w][k].holds[j]
          /\ m.holds[l] = s.monitors[w][k].holds[l] \ {c}
      <3>1. s.monitors[w][k] \in Monitor(Clients)
        BY <1>3 DEF State
      <3> QED
        BY <3>1 DEF Monitor, SameFrame
    <2> HIDE DEF m, t
    <2>2. /\ t \in State /\ t.client = s.client /\ SameMonitors(s, t)
          /\ t.monitors[w][k] = m
          /\ \A v \in Workspaces : \A j \in 1..Len(s.monitors[v]) :
               v # w \/ j # k => t.monitors[v][j] = s.monitors[v][j]
      BY <1>1, <1>3, <2>1, ReplaceIs
    <2>3. ASSUME NEW d \in Clients, NEW v \in Workspaces, NEW j \in 1..Len(s.monitors[v]),
                 NEW n \in Kinds
          PROVE  d \in t.monitors[v][j].holds[n]
                   <=> (d \in s.monitors[v][j].holds[n] /\ ~(v = w /\ j = k /\ n = l /\ d = c))
      <3>1. CASE v # w \/ j # k
        BY <3>1, <2>2
      <3>2. CASE v = w /\ j = k
        BY <3>2, <2>1, <2>2
      <3> QED
        BY <3>1, <3>2
    <2>4. \A d \in Clients \ {c} : Undisturbed(s, t, d)
      BY <2>3 DEF Undisturbed
    <2>5. HeldAt(s, c, w, k, l) => Nowhere(t, c)
      <3>1. \A v \in Workspaces : Len(t.monitors[v]) = Len(s.monitors[v])
        BY <2>2 DEF SameMonitors, SameShape
      <3> QED
        BY <3>1, <2>3 DEF HeldAt, Nowhere
    <2> QED
      BY <2>2, <2>4, <2>5 DEF t
  <1> QED
    BY <1>2, <1>3

LEMMA GiveIs ==
  ASSUME NEW s \in State, NEW w \in Workspaces, NEW k \in 0..Len(s.monitors[w]),
         NEW l \in Kinds, NEW c \in Clients
  PROVE  LET t == Give(s, w, k, l, c)
         IN /\ t \in State /\ t.client = s.client /\ SameMonitors(s, t)
            /\ \A d \in Clients \ {c} : Undisturbed(s, t, d)
            /\ k # 0 /\ Nowhere(s, c) => HeldAt(t, c, w, k, l)
  <1> DEFINE m == [s.monitors[w][k] EXCEPT !.holds[l] = @ \cup {c}]
             t == Give(s, w, k, l, c)
  <1>0. CASE k = 0
    <2>1. t = s
      BY <1>0 DEF Give
    <2>2. SameMonitors(s, s) /\ \A d \in Clients \ {c} : Undisturbed(s, s, d)
      BY DEF SameMonitors, SameShape, Undisturbed
    <2> QED
      BY <2>1, <2>2, <1>0
  <1>7. CASE k # 0
    <2>1. t = Replaced(s, w, k, m)
      BY <1>7 DEF Give, Replaced
    <2>2. /\ m \in Monitor(Clients) /\ SameFrame(s.monitors[w][k], m)
          /\ \A j \in Kinds : j # l => m.holds[j] = s.monitors[w][k].holds[j]
          /\ m.holds[l] = s.monitors[w][k].holds[l] \cup {c}
      <3>1. s.monitors[w][k] \in Monitor(Clients)
        BY <1>7 DEF State
      <3> QED
        BY <3>1 DEF Monitor, SameFrame
    <2> HIDE DEF m, t
    <2>3. /\ t \in State /\ t.client = s.client /\ SameMonitors(s, t)
          /\ t.monitors[w][k] = m
          /\ \A v \in Workspaces : \A j \in 1..Len(s.monitors[v]) :
               v # w \/ j # k => t.monitors[v][j] = s.monitors[v][j]
      BY <2>1, <2>2, <1>7, ReplaceIs
    <2>4. ASSUME NEW d \in Clients, NEW v \in Workspaces, NEW j \in 1..Len(s.monitors[v]),
                 NEW n \in Kinds
          PROVE  d \in t.monitors[v][j].holds[n]
                   <=> (d \in s.monitors[v][j].holds[n] \/ (v = w /\ j = k /\ n = l /\ d = c))
      <3>1. CASE v # w \/ j # k
        BY <3>1, <2>3
      <3>2. CASE v = w /\ j = k
        BY <3>2, <2>2, <2>3
      <3> QED
        BY <3>1, <3>2
    <2>5. \A d \in Clients \ {c} : Undisturbed(s, t, d)
      BY <2>4 DEF Undisturbed
    <2>6. Nowhere(s, c) => HeldAt(t, c, w, k, l)
      <3>1. \A v \in Workspaces : Len(t.monitors[v]) = Len(s.monitors[v])
        BY <2>3 DEF SameMonitors, SameShape
      <3> QED
        BY <3>1, <2>4 DEF HeldAt, Nowhere
    <2> QED
      BY <2>3, <2>5, <2>6 DEF t
  <1> QED
    BY <1>0, <1>7

(* t is s but for the lists that hold c.                                   *)
Rehung(s, t, c) ==
  /\ t \in State /\ t.client = s.client /\ SameMonitors(s, t)
  /\ \A d \in Clients \ {c} : Undisturbed(s, t, d)

LEMMA SameMonitorsTransitive ==
  ASSUME NEW s, NEW t, NEW u, SameMonitors(s, t), SameMonitors(t, u)
  PROVE  /\ SameMonitors(s, u)
         /\ \A d : Undisturbed(s, t, d) /\ Undisturbed(t, u, d) => Undisturbed(s, u, d)
  BY DEF SameMonitors, SameShape, Undisturbed

(* A client goes from one list to another.                                 *)
LEMMA TakeGive ==
  ASSUME NEW s \in State, NEW c \in Clients,
         NEW v \in Workspaces, NEW j \in 0..Len(s.monitors[v]), NEW m \in Kinds,
         NEW w \in Workspaces, NEW k \in 0..Len(s.monitors[w]), NEW l \in Kinds
  PROVE  LET t == Give(Take(s, v, j, m, c), w, k, l, c)
         IN Rehung(s, t, c) /\ (HeldAt(s, c, v, j, m) /\ k # 0 => HeldAt(t, c, w, k, l))
  <1> DEFINE t == Take(s, v, j, m, c)
             u == Give(t, w, k, l, c)
  <1>1. /\ t \in State /\ t.client = s.client /\ SameMonitors(s, t)
        /\ \A d \in Clients \ {c} : Undisturbed(s, t, d)
        /\ HeldAt(s, c, v, j, m) => Nowhere(t, c)
    BY TakeIs
  <1> HIDE DEF t
  <1>2. k \in 0..Len(t.monitors[w])
    BY <1>1 DEF SameMonitors, SameShape
  <1>3. /\ u \in State /\ u.client = t.client /\ SameMonitors(t, u)
        /\ \A d \in Clients \ {c} : Undisturbed(t, u, d)
        /\ k # 0 /\ Nowhere(t, c) => HeldAt(u, c, w, k, l)
    BY <1>1, <1>2, GiveIs
  <1> HIDE DEF u
  <1>4. Rehung(s, u, c)
    BY <1>1, <1>3, SameMonitorsTransitive DEF Rehung
  <1> QED
    BY <1>1, <1>3, <1>4 DEF t, u

LEMMA HeldIsHolder ==
  ASSUME NEW s \in State, NEW c \in Clients, NEW w \in Workspaces,
         NEW k \in 1..Len(s.monitors[w]), NEW l \in Kinds, HeldAt(s, c, w, k, l)
  PROVE  Holder(s.monitors[w], c) = k
  <1>1. s.monitors[w] \in Seq(Monitor(Clients))
    BY DEF State
  <1>2. c \in s.monitors[w][k].holds[l]
    BY DEF HeldAt
  <1>3. Holder(s.monitors[w], c) \in 1..Len(s.monitors[w])
    BY <1>1, <1>2, HolderIs
  <1>4. PICK m \in Kinds : c \in s.monitors[w][Holder(s.monitors[w], c)].holds[m]
    BY <1>1, <1>3, HolderIs
  <1> QED
    BY <1>3, <1>4 DEF HeldAt

LEMMA NobodyHolds ==
  ASSUME NEW s \in State, NEW c \in Clients, NEW w \in Workspaces,
         NEW v \in Workspaces, NEW k, NEW l, HeldAt(s, c, w, k, l), v # w
  PROVE  Holder(s.monitors[v], c) = 0
  <1>1. s.monitors[v] \in Seq(Monitor(Clients))
    BY DEF State
  <1>2. \A j \in 1..Len(s.monitors[v]) : \A m \in Kinds : c \notin s.monitors[v][j].holds[m]
    BY DEF HeldAt
  <1> QED
    BY <1>1, <1>2, HolderIs

-----------------------------------------------------------------------------
(* Records.                                                                *)

WithRecord(s, c, r) == [s EXCEPT !.client[c] = r]

LEMMA WithRecordIs ==
  ASSUME NEW s \in State, NEW c \in Clients, NEW r \in Record
  PROVE  LET t == WithRecord(s, c, r)
         IN /\ t \in State /\ t.monitors = s.monitors /\ t.client[c] = r
            /\ \A d \in Clients : d # c => t.client[d] = s.client[d]
  BY DEF State, WithRecord

(* A window of this place can be reached.                                  *)
InReach(ms, b) == InBounds(ms, b) \/ (b.x = Gap /\ b.y = Gap)

(* What reconcile_floaters leaves alone.                                   *)
SameButBox(r, q) ==
  /\ r.state = q.state /\ r.workspace = q.workspace /\ r.mode = q.mode
  /\ r.prop = q.prop /\ r.drag = q.drag

LEMMA ReconciledIs ==
  ASSUME NEW ms, NEW m \in Monitor(Clients), NEW r \in Record
  PROVE  LET q == Reconciled(ms, m, r)
         IN q \in Record /\ SameButBox(r, q) /\ InReach(ms, q.box)
  <1> DEFINE b == IF r.placed THEN r.box
                  ELSE [x |-> m.x + m.w \div 4, y |-> m.y + m.h \div 4,
                        w |-> m.w \div 2, h |-> m.h \div 2]
             a == IF InBounds(ms, b) THEN b ELSE [b EXCEPT !.x = Gap, !.y = Gap]
             q == Reconciled(ms, m, r)
  <1>1. b \in Box
    <2>1. r.box \in Box /\ m.x \in Int /\ m.y \in Int /\ m.w \in Nat /\ m.h \in Nat
      BY DEF Record, Monitor
    <2>2. \A n \in Nat : n \div 2 \in Nat /\ n \div 4 \in Nat
      OBVIOUS
    <2>3. /\ m.w \div 4 \in Nat /\ m.h \div 4 \in Nat
          /\ m.w \div 2 \in Nat /\ m.h \div 2 \in Nat
      BY <2>1, <2>2
    <2>4. [x |-> m.x + m.w \div 4, y |-> m.y + m.h \div 4,
           w |-> m.w \div 2, h |-> m.h \div 2] \in Box
      BY <2>1, <2>3 DEF Box
    <2> QED
      BY <2>1, <2>4
  <1>2. q = [r EXCEPT !.placed = TRUE, !.box = a]
    BY DEF Reconciled
  <1> HIDE DEF b
  <1>3. a \in Box /\ InReach(ms, a)
    <2>1. CASE InBounds(ms, b)
      BY <2>1, <1>1 DEF InReach
    <2>2. CASE ~InBounds(ms, b)
      <3>1. a = [b EXCEPT !.x = Gap, !.y = Gap]
        BY <2>2
      <3>2. Gap \in Int
        BY SizesAssumption
      <3>3. a = [x |-> Gap, y |-> Gap, w |-> b.w, h |-> b.h] /\ b.w \in Nat /\ b.h \in Nat
        BY <3>1, <1>1 DEF Box
      <3> HIDE DEF a
      <3>4. a \in Box /\ a.x = Gap /\ a.y = Gap
        BY <3>2, <3>3 DEF Box
      <3> QED
        BY <3>4 DEF InReach
    <2> QED
      BY <2>1, <2>2
  <1> HIDE DEF a, q
  <1>4. q \in Record /\ SameButBox(r, q) /\ q.box = a
    BY <1>2, <1>3 DEF Record, SameButBox
  <1> QED
    BY <1>3, <1>4 DEF q

(* arrange_monitors: all that float in the workspace are within reach.     *)
LEMMA ArrangedIs ==
  ASSUME NEW s \in State, NEW w \in Workspaces
  PROVE  LET t == Arranged(s, w)
         IN /\ t \in State /\ t.monitors = s.monitors
            /\ \A c \in Clients : SameButBox(s.client[c], t.client[c])
            /\ \A c \in Clients : \A k \in 1..Len(s.monitors[w]) :
                 HeldAt(s, c, w, k, "fl") => InReach(t.monitors[w], t.client[c].box)
  <1> DEFINE ms == s.monitors[w]
             k(c) == Holder(ms, c)
             new(c) == IF k(c) # 0 /\ c \in ms[k(c)].holds.fl
                         THEN Reconciled(ms, ms[k(c)], s.client[c]) ELSE s.client[c]
             all == [c \in Clients |-> new(c)]
             t == Arranged(s, w)
  <1>1. /\ ms \in Seq(Monitor(Clients)) /\ s.client \in [Clients -> Record]
        /\ \A c \in Clients : s.client[c] \in Record
    BY DEF State
  <1>2. t = [s EXCEPT !.client = all]
    BY DEF Arranged
  <1>3. ASSUME NEW c \in Clients
        PROVE  /\ new(c) \in Record /\ SameButBox(s.client[c], new(c))
               /\ k(c) # 0 /\ c \in ms[k(c)].holds.fl => InReach(ms, new(c).box)
    <2>1. CASE k(c) # 0 /\ c \in ms[k(c)].holds.fl
      <3>1. k(c) \in 1..Len(ms)
        BY <2>1, <1>1, HolderIs
      <3>2. ms[k(c)] \in Monitor(Clients) /\ s.client[c] \in Record
        BY <3>1, <1>1
      <3>3. new(c) = Reconciled(ms, ms[k(c)], s.client[c])
        BY <2>1
      <3> HIDE DEF new, ms, k
      <3> QED
        BY <3>2, <3>3, ReconciledIs
    <2>2. CASE ~(k(c) # 0 /\ c \in ms[k(c)].holds.fl)
      <3>1. new(c) = s.client[c]
        BY <2>2
      <3> HIDE DEF new
      <3> QED
        BY <3>1, <2>2, <1>1 DEF SameButBox
    <2> QED
      BY <2>1, <2>2
  <1> HIDE DEF new
  <1>4. all \in [Clients -> Record] /\ \A c \in Clients : all[c] = new(c)
    BY <1>3
  <1> HIDE DEF all, t
  <1>5. t \in State /\ t.monitors = s.monitors /\ t.client = all
    BY <1>2, <1>4 DEF State
  <1>6. \A c \in Clients : SameButBox(s.client[c], t.client[c])
    BY <1>3, <1>4, <1>5
  <1>7. ASSUME NEW c \in Clients, NEW j \in 1..Len(ms), HeldAt(s, c, w, j, "fl")
        PROVE  InReach(t.monitors[w], t.client[c].box)
    <2>1. "fl" \in Kinds
      BY DEF Kinds
    <2>2. k(c) = j /\ c \in ms[j].holds.fl /\ j # 0
      BY <2>1, <1>7, HeldIsHolder DEF HeldAt
    <2> HIDE DEF k, ms
    <2>3. InReach(ms, new(c).box)
      BY <2>2, <1>3
    <2> QED
      BY <2>3, <1>4, <1>5 DEF ms
  <1> QED
    BY <1>5, <1>6, <1>7 DEF t

-----------------------------------------------------------------------------
(* Where clients have to be.                                               *)

(* The list a client with this record has to be in.                        *)
Place(r) == IF r.state \in {"coming", "unmapped"} THEN "ul" ELSE r.mode

InPlace(s, c, k) ==
  LET r == s.client[c]
  IN /\ r.workspace \in Workspaces /\ k \in 1..Len(s.monitors[r.workspace])
     /\ HeldAt(s, c, r.workspace, k, Place(r))

PlacedIn(s, c) ==
  IF s.client[c].state = "out" THEN Nowhere(s, c) ELSE \E k \in Nat : InPlace(s, c, k)

HasHome(r) == r.state # "out" => r.workspace \in Workspaces

(* What the record of c may say while cur is shown: of a window that is    *)
(* not shown, or does not float, there is no drag; a window that is mapped *)
(* or about to be is in the workspace shown; and docks stay docks.         *)
Fits(c, r, cur) ==
  /\ HasHome(r)
  /\ r.state \in {"out", "coming", "unmapped"} => r.drag = "no"
  /\ r.mode # "fl" => r.drag = "no"
  /\ r.state \in {"coming", "mapped"} => r.workspace = cur
  /\ r.state # "out" /\ c \in Docks => r.mode = "dl"

Typed(p, s) ==
  /\ s \in State /\ AllFit(Clients, p, Workspaces, s.monitors)
  /\ \A c \in Clients : HasHome(s.client[c])

Sound(p, cur, s) ==
  Typed(p, s) /\ \A c \in Clients : PlacedIn(s, c) /\ Fits(c, s.client[c], cur)

(* The windows that float are within reach.                                *)
Reached(cur, s) ==
  \A c \in Clients :
    s.client[c].state = "mapped" /\ s.client[c].mode = "fl"
      => InReach(s.monitors[cur], s.client[c].box)

(* t is s but for the lists and the record of c.                           *)
Touches(s, t, c) ==
  /\ t \in State /\ SameMonitors(s, t)
  /\ \A d \in Clients \ {c} : Undisturbed(s, t, d) /\ t.client[d] = s.client[d]

(* Who is on a monitor of s is on the same one of t.                       *)
Stays(s, t, d) == \A k \in Nat : InPlace(s, d, k) => InPlace(t, d, k)

LEMMA StaysInPlace ==
  ASSUME NEW s, NEW t, NEW d, SameMonitors(s, t), Undisturbed(s, t, d),
         SameButBox(s.client[d], t.client[d])
  PROVE  /\ Stays(s, t, d) /\ (PlacedIn(s, d) => PlacedIn(t, d))
         /\ HasHome(s.client[d]) => HasHome(t.client[d])
         /\ \A cur : Fits(d, s.client[d], cur) => Fits(d, t.client[d], cur)
  <1>1. \A v \in Workspaces : Len(s.monitors[v]) = Len(t.monitors[v])
    BY DEF SameMonitors, SameShape
  <1>2. Stays(s, t, d)
    BY <1>1 DEF Stays, InPlace, Undisturbed, SameButBox, HeldAt, Place
  <1>3. Nowhere(s, d) => Nowhere(t, d)
    BY <1>1 DEF Nowhere, Undisturbed
  <1>4. PlacedIn(s, d) => PlacedIn(t, d)
    BY <1>2, <1>3 DEF PlacedIn, Stays, SameButBox
  <1>5. HasHome(s.client[d]) => HasHome(t.client[d])
    BY DEF SameButBox, HasHome
  <1>6. \A cur : Fits(d, s.client[d], cur) => Fits(d, t.client[d], cur)
    BY <1>5 DEF SameButBox, Fits
  <1> QED
    BY <1>2, <1>4, <1>5, <1>6

LEMMA SameMonitorsFit ==
  ASSUME NEW p, NEW s, NEW t \in State, SameMonitors(s, t),
         AllFit(Clients, p, Workspaces, s.monitors)
  PROVE  AllFit(Clients, p, Workspaces, t.monitors)
  <1>1. t.monitors \in [Workspaces -> Seq(Monitor(Clients))]
    BY DEF State
  <1>2. ASSUME NEW w \in Workspaces PROVE Fit(Clients, p, t.monitors[w])
    <2>1. t.monitors[w] \in Seq(Monitor(Clients))
      BY <1>1
    <2>2. SameShape(s.monitors[w], t.monitors[w]) /\ Fit(Clients, p, s.monitors[w])
      BY DEF SameMonitors, AllFit
    <2> QED
      BY SMTT(60), <2>1, <2>2 DEF SameShape, Fit
  <1>3. ASSUME NEW v \in Workspaces, NEW w \in Workspaces
        PROVE  SameNames(t.monitors[v], t.monitors[w])
    <2>1. /\ SameShape(s.monitors[v], t.monitors[v]) /\ SameShape(s.monitors[w], t.monitors[w])
          /\ SameNames(s.monitors[v], s.monitors[w])
      BY DEF SameMonitors, AllFit
    <2> QED
      BY <2>1 DEF SameShape, SameNames
  <1> QED
    BY <1>1, <1>2, <1>3 DEF AllFit

(* A handler that is about one client.                                     *)
LEMMA OneTouched ==
  ASSUME NEW p, NEW s, NEW t, NEW c \in Clients, Typed(p, s), Touches(s, t, c),
         HasHome(t.client[c])
  PROVE  /\ Typed(p, t)
         /\ \A d \in Clients \ {c} : Stays(s, t, d)
         /\ \A cur : Sound(p, cur, s) /\ PlacedIn(t, c) /\ Fits(c, t.client[c], cur)
                       => Sound(p, cur, t)
  <1>1. /\ t \in State /\ SameMonitors(s, t)
        /\ \A d \in Clients \ {c} : Undisturbed(s, t, d) /\ SameButBox(s.client[d], t.client[d])
    BY DEF Touches, SameButBox
  <1>2. AllFit(Clients, p, Workspaces, t.monitors)
    BY <1>1, SameMonitorsFit DEF Typed
  <1>3. ASSUME NEW d \in Clients, d # c
        PROVE  /\ Stays(s, t, d) /\ (PlacedIn(s, d) => PlacedIn(t, d))
               /\ HasHome(t.client[d])
               /\ \A cur : Fits(d, s.client[d], cur) => Fits(d, t.client[d], cur)
    BY <1>1, <1>3, StaysInPlace DEF Typed
  <1>4. Typed(p, t)
    BY <1>1, <1>2, <1>3 DEF Typed
  <1>5. ASSUME NEW cur, Sound(p, cur, s), PlacedIn(t, c), Fits(c, t.client[c], cur)
        PROVE  Sound(p, cur, t)
    BY <1>3, <1>4, <1>5 DEF Sound
  <1> QED
    BY <1>3, <1>4, <1>5

(* arrange_monitors changes nothing but places.                            *)
LEMMA ArrangedSound ==
  ASSUME NEW p, NEW s, Typed(p, s), NEW cur \in Workspaces
  PROVE  LET t == Arranged(s, cur)
         IN /\ Typed(p, t) /\ t.monitors = s.monitors
            /\ \A d \in Clients : Stays(s, t, d) /\ SameButBox(s.client[d], t.client[d])
            /\ Sound(p, cur, s) => Sound(p, cur, t) /\ Reached(cur, t)
  <1> DEFINE t == Arranged(s, cur)
  <1>1. /\ t \in State /\ t.monitors = s.monitors
        /\ \A c \in Clients : SameButBox(s.client[c], t.client[c])
        /\ \A c \in Clients : \A k \in 1..Len(s.monitors[cur]) :
             HeldAt(s, c, cur, k, "fl") => InReach(t.monitors[cur], t.client[c].box)
    BY ArrangedIs DEF Typed
  <1> HIDE DEF t
  <1>2. SameMonitors(s, t) /\ \A d : Undisturbed(s, t, d)
    BY <1>1 DEF SameMonitors, SameShape, Undisturbed
  <1>3. ASSUME NEW d \in Clients
        PROVE  /\ Stays(s, t, d) /\ (PlacedIn(s, d) => PlacedIn(t, d))
               /\ HasHome(t.client[d])
               /\ Fits(d, s.client[d], cur) => Fits(d, t.client[d], cur)
    BY <1>1, <1>2, StaysInPlace DEF Typed
  <1>4. Typed(p, t)
    BY <1>1, <1>3 DEF Typed
  <1>5. ASSUME Sound(p, cur, s) PROVE Sound(p, cur, t) /\ Reached(cur, t)
    <2>1. Sound(p, cur, t)
      BY <1>3, <1>4, <1>5 DEF Sound
    <2>2. ASSUME NEW c \in Clients, t.client[c].state = "mapped", t.client[c].mode = "fl"
          PROVE  InReach(t.monitors[cur], t.client[c].box)
      <3>1. s.client[c].state = "mapped" /\ s.client[c].mode = "fl"
        BY <2>2, <1>1 DEF SameButBox
      <3>2. Place(s.client[c]) = "fl" /\ s.client[c].workspace = cur
        BY <3>1, <1>5 DEF Place, Sound, Fits
      <3>3. PICK k \in Nat : InPlace(s, c, k)
        BY <3>1, <1>5 DEF Sound, PlacedIn
      <3>4. k \in 1..Len(s.monitors[cur]) /\ HeldAt(s, c, cur, k, "fl")
        BY <3>2, <3>3 DEF InPlace
      <3> QED
        BY <3>4, <1>1
    <2> QED
      BY <2>1, <2>2 DEF Reached
  <1> QED
    BY <1>1, <1>3, <1>4, <1>5 DEF t

-----------------------------------------------------------------------------
(* A client is taken from a list, gets another record, and goes to a list. *)

LEMMA TouchesTransitive ==
  ASSUME NEW s, NEW t, NEW u, NEW c, Touches(s, t, c), Touches(t, u, c)
  PROVE  Touches(s, u, c)
  <1>1. SameMonitors(s, u)
    BY SameMonitorsTransitive DEF Touches
  <1>2. \A d \in Clients \ {c} : Undisturbed(s, u, d)
    BY SameMonitorsTransitive DEF Touches
  <1> QED
    BY <1>1, <1>2 DEF Touches

LEMMA RecordTouches ==
  ASSUME NEW s \in State, NEW c \in Clients, NEW r \in Record
  PROVE  LET t == WithRecord(s, c, r)
         IN /\ Touches(s, t, c) /\ t.monitors = s.monitors /\ t.client[c] = r
            /\ \A w, k, l : HeldAt(s, c, w, k, l) => HeldAt(t, c, w, k, l)
            /\ Nowhere(s, c) => Nowhere(t, c)
  <1> DEFINE t == WithRecord(s, c, r)
  <1>1. /\ t \in State /\ t.monitors = s.monitors /\ t.client[c] = r
        /\ \A d \in Clients : d # c => t.client[d] = s.client[d]
    BY WithRecordIs
  <1> HIDE DEF t
  <1>2. Touches(s, t, c)
    BY <1>1 DEF Touches, SameMonitors, SameShape, Undisturbed
  <1>3. \A w, k, l : HeldAt(s, c, w, k, l) => HeldAt(t, c, w, k, l)
    BY <1>1 DEF HeldAt
  <1>4. Nowhere(s, c) => Nowhere(t, c)
    BY <1>1 DEF Nowhere
  <1> QED
    BY <1>1, <1>2, <1>3, <1>4 DEF t

LEMMA TakeTouches ==
  ASSUME NEW s \in State, NEW w \in Workspaces, NEW k \in 0..Len(s.monitors[w]),
         NEW l \in Kinds, NEW c \in Clients
  PROVE  LET t == Take(s, w, k, l, c)
         IN /\ Touches(s, t, c) /\ t.client[c] = s.client[c]
            /\ HeldAt(s, c, w, k, l) => Nowhere(t, c)
  <1> DEFINE t == Take(s, w, k, l, c)
  <1>1. /\ t \in State /\ t.client = s.client /\ SameMonitors(s, t)
        /\ \A d \in Clients \ {c} : Undisturbed(s, t, d)
        /\ HeldAt(s, c, w, k, l) => Nowhere(t, c)
    BY TakeIs
  <1> HIDE DEF t
  <1>2. Touches(s, t, c)
    BY <1>1 DEF Touches
  <1> QED
    BY <1>1, <1>2 DEF t

LEMMA GiveTouches ==
  ASSUME NEW s \in State, NEW w \in Workspaces, NEW k \in 0..Len(s.monitors[w]),
         NEW l \in Kinds, NEW c \in Clients
  PROVE  LET t == Give(s, w, k, l, c)
         IN /\ Touches(s, t, c) /\ t.client[c] = s.client[c]
            /\ k # 0 /\ Nowhere(s, c) => HeldAt(t, c, w, k, l)
  <1> DEFINE t == Give(s, w, k, l, c)
  <1>1. /\ t \in State /\ t.client = s.client /\ SameMonitors(s, t)
        /\ \A d \in Clients \ {c} : Undisturbed(s, t, d)
        /\ k # 0 /\ Nowhere(s, c) => HeldAt(t, c, w, k, l)
    BY GiveIs
  <1> HIDE DEF t
  <1>2. Touches(s, t, c)
    BY <1>1 DEF Touches
  <1> QED
    BY <1>1, <1>2 DEF t

LEMMA SameLengths ==
  ASSUME NEW s, NEW t, NEW c, Touches(s, t, c)
  PROVE  \A w \in Workspaces : Len(t.monitors[w]) = Len(s.monitors[w])
  BY DEF Touches, SameMonitors, SameShape

(* The record is written between the two.                                  *)
LEMMA TakeWriteGive ==
  ASSUME NEW s \in State, NEW c \in Clients, NEW r \in Record,
         NEW v \in Workspaces, NEW j \in 0..Len(s.monitors[v]), NEW m \in Kinds,
         NEW w \in Workspaces, NEW k \in 0..Len(s.monitors[w]), NEW l \in Kinds
  PROVE  LET t == Give(WithRecord(Take(s, v, j, m, c), c, r), w, k, l, c)
         IN /\ Touches(s, t, c) /\ t.client[c] = r
            /\ HeldAt(s, c, v, j, m) /\ k # 0 => HeldAt(t, c, w, k, l)
  <1> DEFINE a == Take(s, v, j, m, c)
             b == WithRecord(a, c, r)
             t == Give(b, w, k, l, c)
  <1>1. Touches(s, a, c) /\ (HeldAt(s, c, v, j, m) => Nowhere(a, c))
    BY TakeTouches
  <1> HIDE DEF a
  <1>2. Touches(a, b, c) /\ b.client[c] = r /\ (Nowhere(a, c) => Nowhere(b, c))
    BY <1>1, RecordTouches DEF Touches
  <1> HIDE DEF b
  <1>3. Touches(s, b, c)
    BY <1>1, <1>2, TouchesTransitive
  <1>4. b \in State /\ k \in 0..Len(b.monitors[w])
    BY <1>3, SameLengths DEF Touches
  <1>5. /\ Touches(b, t, c) /\ t.client[c] = b.client[c]
        /\ k # 0 /\ Nowhere(b, c) => HeldAt(t, c, w, k, l)
    BY <1>4, GiveTouches
  <1> HIDE DEF t
  <1>6. Touches(s, t, c)
    BY <1>3, <1>5, TouchesTransitive
  <1> QED
    BY <1>1, <1>2, <1>5, <1>6 DEF t, b, a

(* The record is written before.                                           *)
LEMMA WriteTakeGive ==
  ASSUME NEW s \in State, NEW c \in Clients, NEW r \in Record,
         NEW v \in Workspaces, NEW j \in 0..Len(s.monitors[v]), NEW m \in Kinds,
         NEW w \in Workspaces, NEW k \in 0..Len(s.monitors[w]), NEW l \in Kinds
  PROVE  LET t == Give(Take(WithRecord(s, c, r), v, j, m, c), w, k, l, c)
         IN /\ Touches(s, t, c) /\ t.client[c] = r
            /\ HeldAt(s, c, v, j, m) /\ k # 0 => HeldAt(t, c, w, k, l)
  <1> DEFINE a == WithRecord(s, c, r)
             b == Take(a, v, j, m, c)
             t == Give(b, w, k, l, c)
  <1>1. /\ Touches(s, a, c) /\ a.client[c] = r
        /\ HeldAt(s, c, v, j, m) => HeldAt(a, c, v, j, m)
    BY RecordTouches
  <1> HIDE DEF a
  <1>2. a \in State /\ j \in 0..Len(a.monitors[v])
    BY <1>1, SameLengths DEF Touches
  <1>3. /\ Touches(a, b, c) /\ b.client[c] = a.client[c]
        /\ HeldAt(a, c, v, j, m) => Nowhere(b, c)
    BY <1>2, TakeTouches
  <1> HIDE DEF b
  <1>4. Touches(s, b, c)
    BY <1>1, <1>3, TouchesTransitive
  <1>5. b \in State /\ k \in 0..Len(b.monitors[w])
    BY <1>4, SameLengths DEF Touches
  <1>6. /\ Touches(b, t, c) /\ t.client[c] = b.client[c]
        /\ k # 0 /\ Nowhere(b, c) => HeldAt(t, c, w, k, l)
    BY <1>5, GiveTouches
  <1> HIDE DEF t
  <1>7. Touches(s, t, c)
    BY <1>4, <1>6, TouchesTransitive
  <1> QED
    BY <1>1, <1>3, <1>6, <1>7 DEF t, b, a

(* The record is written at the end.                                       *)
LEMMA TakeGiveWrite ==
  ASSUME NEW s \in State, NEW c \in Clients, NEW r \in Record,
         NEW v \in Workspaces, NEW j \in 0..Len(s.monitors[v]), NEW m \in Kinds,
         NEW w \in Workspaces, NEW k \in 0..Len(s.monitors[w]), NEW l \in Kinds
  PROVE  LET t == WithRecord(Give(Take(s, v, j, m, c), w, k, l, c), c, r)
         IN /\ Touches(s, t, c) /\ t.client[c] = r
            /\ HeldAt(s, c, v, j, m) /\ k # 0 => HeldAt(t, c, w, k, l)
  <1> DEFINE a == Give(Take(s, v, j, m, c), w, k, l, c)
             t == WithRecord(a, c, r)
  <1>1. Rehung(s, a, c) /\ (HeldAt(s, c, v, j, m) /\ k # 0 => HeldAt(a, c, w, k, l))
    BY TakeGive
  <1> HIDE DEF a
  <1>2. Touches(s, a, c)
    BY <1>1 DEF Rehung, Touches
  <1>3. /\ Touches(a, t, c) /\ t.client[c] = r
        /\ HeldAt(a, c, w, k, l) => HeldAt(t, c, w, k, l)
    BY <1>2, RecordTouches DEF Touches
  <1> HIDE DEF t
  <1>4. Touches(s, t, c)
    BY <1>2, <1>3, TouchesTransitive
  <1> QED
    BY <1>1, <1>3, <1>4 DEF t, a

-----------------------------------------------------------------------------
(* Handlers and actions, before anything is arranged.                      *)

(* A handler that is about c leaves it in place, if it was.                *)
Handled(p, cur, s, t, c) ==
  /\ Touches(s, t, c) /\ HasHome(t.client[c])
  /\ Sound(p, cur, s) => PlacedIn(t, c) /\ Fits(c, t.client[c], cur)

LEMMA AtIs ==
  ASSUME NEW p, NEW s, Typed(p, s), NEW c \in Clients, s.client[c].state # "out"
  PROVE  /\ s.client[c].workspace \in Workspaces
         /\ s.monitors[s.client[c].workspace] \in Seq(Monitor(Clients))
         /\ At(s, c) \in 0..Len(s.monitors[s.client[c].workspace])
         /\ s.client[c] \in Record /\ s.client[c].mode \in Kinds /\ "ul" \in Kinds
         /\ Place(s.client[c]) \in Kinds
         /\ \A k \in Nat : InPlace(s, c, k) =>
              /\ k = At(s, c) /\ k # 0
              /\ HeldAt(s, c, s.client[c].workspace, k, Place(s.client[c]))
         /\ PlacedIn(s, c) => InPlace(s, c, At(s, c))
  <1> DEFINE w == s.client[c].workspace
  <1>1. w \in Workspaces /\ s.monitors[w] \in Seq(Monitor(Clients)) /\ s.client[c] \in Record
    BY DEF Typed, HasHome, State
  <1>2. s.client[c].mode \in Kinds /\ "ul" \in Kinds /\ Place(s.client[c]) \in Kinds
    BY <1>1 DEF Record, Place, Kinds
  <1>3. At(s, c) \in 0..Len(s.monitors[w])
    BY <1>1, HolderIs DEF At
  <1>4. ASSUME NEW k \in Nat, InPlace(s, c, k)
        PROVE  /\ k = At(s, c) /\ k # 0
               /\ HeldAt(s, c, w, k, Place(s.client[c]))
    <2>1. k \in 1..Len(s.monitors[w]) /\ HeldAt(s, c, w, k, Place(s.client[c]))
      BY <1>4 DEF InPlace
    <2>2. Holder(s.monitors[w], c) = k
      BY <2>1, <1>1, <1>2, HeldIsHolder DEF Typed
    <2> QED
      BY <2>1, <2>2 DEF At
  <1>5. PlacedIn(s, c) => InPlace(s, c, At(s, c))
    BY <1>4 DEF PlacedIn
  <1> QED
    BY <1>1, <1>2, <1>3, <1>4, <1>5

(* It is enough to say where c is.                                         *)
LEMMA IsInPlace ==
  ASSUME NEW s, NEW t, NEW c, Touches(s, t, c), t.client[c].workspace \in Workspaces,
         NEW k \in 1..Len(s.monitors[t.client[c].workspace]),
         HeldAt(t, c, t.client[c].workspace, k, Place(t.client[c]))
  PROVE  InPlace(t, c, k) /\ (t.client[c].state # "out" => PlacedIn(t, c))
  BY SameLengths DEF InPlace, PlacedIn

LEMMA MoveToMonitorIs ==
  ASSUME NEW p, NEW s, Typed(p, s), NEW c \in Clients, s.client[c].state # "out",
         NEW from \in 0..Len(s.monitors[s.client[c].workspace]),
         NEW to \in 0..Len(s.monitors[s.client[c].workspace])
  PROVE  LET t == MoveToMonitor(s, s.client[c].workspace, c, from, to)
         IN /\ Touches(s, t, c) /\ t.client[c] = s.client[c]
            /\ InPlace(s, c, from) => PlacedIn(t, c)
  <1> DEFINE w == s.client[c].workspace
             l == s.client[c].mode
             t == MoveToMonitor(s, w, c, from, to)
             u == Give(Take(s, w, from, l, c), w, to, l, c)
  <1>1. w \in Workspaces /\ l \in Kinds /\ s \in State
    BY AtIs DEF Typed
  <1>2. CASE t = s
    <2>1. Touches(s, s, c)
      BY <1>1, SameMonitorsReflexive DEF Touches
    <2>2. InPlace(s, c, from) => PlacedIn(s, c)
      BY DEF PlacedIn
    <2> HIDE DEF t
    <2> QED
      BY <1>2, <2>1, <2>2 DEF t
  <1>3. CASE ~(from = 0 \/ to = 0 \/ from = to \/ ~Mapped(s, c))
    <2>1. t = u
      BY <1>3 DEF MoveToMonitor
    <2> HIDE DEF t
    <2>2. Rehung(s, u, c) /\ (HeldAt(s, c, w, from, l) /\ to # 0 => HeldAt(u, c, w, to, l))
      BY <1>1, TakeGive
    <2> HIDE DEF u
    <2>3. Touches(s, u, c) /\ u.client[c] = s.client[c]
      BY <2>2 DEF Rehung, Touches
    <2>4. Place(s.client[c]) = l
      BY <1>3 DEF Mapped, Place
    <2>5. InPlace(s, c, from) => PlacedIn(u, c)
      <3>1. SUFFICES ASSUME InPlace(s, c, from) PROVE PlacedIn(u, c)
        OBVIOUS
      <3>2. HeldAt(u, c, w, to, l)
        BY <3>1, <2>2, <2>4, <1>3 DEF InPlace
      <3>3. to \in 1..Len(s.monitors[u.client[c].workspace])
        BY <1>3, <2>3
      <3> QED
        BY <3>2, <3>3, <2>3, <2>4, <1>1, IsInPlace
    <2> QED
      BY <2>1, <2>3, <2>5 DEF t
  <1>4. t = s \/ ~(from = 0 \/ to = 0 \/ from = to \/ ~Mapped(s, c))
    BY DEF MoveToMonitor
  <1> QED
    BY <1>2, <1>3, <1>4

(* The notice of a map: the window is put on the list it was noted for.    *)
LEMMA MapNotifyShows ==
  ASSUME NEW p, NEW s, Typed(p, s), NEW c \in Clients, s.client[c].state = "coming",
         NEW cur
  PROVE  LET w == s.client[c].workspace
             k == At(s, c)
             t == Give(Take([s EXCEPT !.client[c].state = "mapped"], w, k, "ul", c),
                       w, k, s.client[c].mode, c)
         IN /\ Handled(p, cur, s, t, c) /\ (Sound(p, cur, s) => Stays(s, t, c))
            /\ t.client[c] = [s.client[c] EXCEPT !.state = "mapped"]
  <1> DEFINE w == s.client[c].workspace
             k == At(s, c)
             r == [s.client[c] EXCEPT !.state = "mapped"]
             t == Give(Take(WithRecord(s, c, r), w, k, "ul", c), w, k, s.client[c].mode, c)
  <1>1. /\ w \in Workspaces /\ k \in 0..Len(s.monitors[w]) /\ s.client[c] \in Record
        /\ s.client[c].mode \in Kinds /\ "ul" \in Kinds /\ s \in State
    BY AtIs DEF Typed
  <1>2. [s EXCEPT !.client[c].state = "mapped"] = WithRecord(s, c, r)
    BY DEF WithRecord
  <1>3. /\ r \in Record /\ r.state = "mapped" /\ r.workspace = w /\ r.mode = s.client[c].mode
        /\ r.drag = s.client[c].drag
    BY <1>1 DEF Record, States
  <1> HIDE DEF r
  <1>4. /\ Touches(s, t, c) /\ t.client[c] = r
        /\ HeldAt(s, c, w, k, "ul") /\ k # 0 => HeldAt(t, c, w, k, s.client[c].mode)
    BY <1>1, <1>3, WriteTakeGive
  <1> HIDE DEF t
  <1>5. HasHome(r)
    BY <1>1, <1>3 DEF HasHome
  <1>6. ASSUME Sound(p, cur, s) PROVE Stays(s, t, c) /\ PlacedIn(t, c) /\ Fits(c, r, cur)
    <2>1. InPlace(s, c, k) /\ Place(s.client[c]) = "ul"
      BY <1>6, AtIs DEF Sound, Place
    <2>2. HeldAt(t, c, w, k, Place(r)) /\ k \in 1..Len(s.monitors[w])
      BY <2>1, <1>3, <1>4 DEF InPlace, Place
    <2>3. InPlace(t, c, k) /\ PlacedIn(t, c)
      BY <2>2, <1>1, <1>3, <1>4, IsInPlace
    <2>4. Stays(s, t, c)
      BY <2>3, AtIs DEF Stays
    <2>5. Fits(c, r, cur)
      BY <1>5, <1>3, <1>6 DEF Sound, Fits
    <2> QED
      BY <2>3, <2>4, <2>5
  <1> QED
    BY <1>2, <1>4, <1>5, <1>6 DEF Handled, t, r

(* A client that leaves its list and goes to list l of its monitor, with   *)
(* another record.                                                         *)
LEMMA ListChanges ==
  ASSUME NEW p, NEW s, Typed(p, s), NEW c \in Clients, NEW cur,
         s.client[c].state \in {"mapped", "going"},
         NEW r \in Record, r.workspace = s.client[c].workspace, r.state # "out",
         NEW l \in Kinds, l = Place(r),
         NEW t, LET w == s.client[c].workspace
                    k == At(s, c)
                    m == s.client[c].mode
                IN \/ t = Give(Take(WithRecord(s, c, r), w, k, m, c), w, k, l, c)
                   \/ t = Give(WithRecord(Take(s, w, k, m, c), c, r), w, k, l, c)
  PROVE  /\ Touches(s, t, c) /\ t.client[c] = r /\ HasHome(r)
         /\ Sound(p, cur, s) => Stays(s, t, c) /\ PlacedIn(t, c)
  <1> DEFINE w == s.client[c].workspace
             k == At(s, c)
             m == s.client[c].mode
  <1>1. /\ w \in Workspaces /\ k \in 0..Len(s.monitors[w]) /\ m \in Kinds /\ s \in State
        /\ Place(s.client[c]) = m
    BY AtIs DEF Typed, Place
  <1>2. /\ Touches(s, t, c) /\ t.client[c] = r
        /\ HeldAt(s, c, w, k, m) /\ k # 0 => HeldAt(t, c, w, k, l)
    <2>1. CASE t = Give(Take(WithRecord(s, c, r), w, k, m, c), w, k, l, c)
      BY <2>1, <1>1, WriteTakeGive
    <2>2. CASE t = Give(WithRecord(Take(s, w, k, m, c), c, r), w, k, l, c)
      BY <2>2, <1>1, TakeWriteGive
    <2> QED
      BY <2>1, <2>2
  <1>3. ASSUME Sound(p, cur, s) PROVE Stays(s, t, c) /\ PlacedIn(t, c)
    <2>1. InPlace(s, c, k)
      BY <1>3, AtIs DEF Sound
    <2>2. HeldAt(t, c, w, k, Place(r)) /\ k \in 1..Len(s.monitors[w])
      BY <2>1, <1>1, <1>2 DEF InPlace
    <2>3. InPlace(t, c, k) /\ PlacedIn(t, c)
      BY <2>2, <1>1, <1>2, IsInPlace
    <2> QED
      BY <2>3, AtIs DEF Stays
  <1> QED
    BY <1>1, <1>2, <1>3 DEF HasHome

LEMMA NoRecordIs ==
  ASSUME NEW r \in Record
  PROVE  /\ NoRecord(r) \in Record /\ NoRecord(r).drag = "no"
         /\ NoRecord(r).state = r.state /\ NoRecord(r).workspace = r.workspace
         /\ NoRecord(r).mode = r.mode
  <1>1. NoBox \in Box
    BY DEF NoBox, Box
  <1> QED
    BY <1>1 DEF NoRecord, Record

LEMMA UnmapNotifyHides ==
  ASSUME NEW p, NEW s, Typed(p, s), NEW c \in Clients, s.client[c].state = "going",
         NEW cur
  PROVE  LET w == s.client[c].workspace
             k == At(s, c)
             t == Give(Take([s EXCEPT !.client[c] = [NoRecord(@) EXCEPT !.state = "unmapped"]],
                            w, k, s.client[c].mode, c), w, k, "ul", c)
         IN /\ Handled(p, cur, s, t, c) /\ (Sound(p, cur, s) => Stays(s, t, c))
            /\ t.client[c].state = "unmapped"
  <1> DEFINE w == s.client[c].workspace
             k == At(s, c)
             n == NoRecord(s.client[c])
             r == [n EXCEPT !.state = "unmapped"]
             t == Give(Take(WithRecord(s, c, r), w, k, s.client[c].mode, c), w, k, "ul", c)
  <1>1. [s EXCEPT !.client[c] = [NoRecord(@) EXCEPT !.state = "unmapped"]] = WithRecord(s, c, r)
    BY DEF WithRecord
  <1>2. s.client[c] \in Record /\ s \in State
    BY AtIs DEF Typed
  <1>3. /\ n \in Record /\ n.drag = "no" /\ n.workspace = w /\ n.mode = s.client[c].mode
    BY <1>2, NoRecordIs
  <1> HIDE DEF n
  <1>4. /\ r \in Record /\ r.state = "unmapped" /\ r.workspace = w /\ r.drag = "no"
        /\ r.mode = s.client[c].mode
    BY <1>3 DEF Record, States
  <1> HIDE DEF r
  <1>5. "ul" \in Kinds /\ Place(r) = "ul"
    BY <1>4 DEF Kinds, Place
  <1> HIDE DEF t
  <1>6. /\ Touches(s, t, c) /\ t.client[c] = r /\ HasHome(r)
        /\ Sound(p, cur, s) => Stays(s, t, c) /\ PlacedIn(t, c)
    BY <1>4, <1>5, ListChanges DEF t
  <1>7. Sound(p, cur, s) => Fits(c, r, cur)
    BY <1>4, <1>6 DEF Sound, Fits
  <1> QED
    BY <1>1, <1>4, <1>6, <1>7 DEF Handled, t, r, n

(* The window that has a key's focus.                                      *)
IsFocus(s, c) ==
  Mapped(s, c) /\ s.client[c].workspace = current /\ c \notin Docks

LEMMA FocusIs ==
  ASSUME NEW p, NEW s, Typed(p, s), NEW c \in Clients, IsFocus(s, c)
  PROVE  /\ s.client[c].state = "mapped" /\ current \in Workspaces
         /\ s.monitors[current] \in Seq(Monitor(Clients))
         /\ At(s, c) \in 0..Len(s.monitors[current]) /\ s \in State
         /\ s.client[c] \in Record /\ Place(s.client[c]) = s.client[c].mode
         /\ s.client[c].mode \in Kinds
         /\ Sound(p, current, s) => At(s, c) # 0 /\ InPlace(s, c, At(s, c))
  <1>1. s.client[c].state = "mapped" /\ s.client[c].workspace = current
    BY DEF IsFocus, Mapped
  <1>2. Sound(p, current, s) => At(s, c) # 0 /\ InPlace(s, c, At(s, c))
    BY <1>1, AtIs DEF Sound
  <1> QED
    BY <1>1, <1>2, AtIs DEF Place, Typed

LEMMA DetachFloats ==
  ASSUME NEW p, NEW s, Typed(p, s), NEW c \in Clients, IsFocus(s, c),
         s.client[c].mode # "fl"
  PROVE  LET t == Detach(s, c)
         IN /\ Handled(p, current, s, t, c)
            /\ Sound(p, current, s) => Stays(s, t, c) /\ t.client[c].drag = "no"
  <1> DEFINE k == At(s, c)
             a == Take(s, current, k, s.client[c].mode, c)
             r == [s.client[c] EXCEPT !.mode = "fl"]
             t == Detach(s, c)
  <1>1. /\ s.client[c] \in Record /\ "fl" \in Kinds \ {"ul"} /\ current \in Workspaces
        /\ s.client[c].state = "mapped" /\ s.client[c].workspace = current
        /\ c \notin Docks
    BY FocusIs DEF Kinds, IsFocus
  <1>2. a.client = s.client
    BY FocusIs, TakeIs
  <1>3. t = Give(WithRecord(a, c, r), current, k, "fl", c)
    BY <1>2 DEF Detach, WithRecord
  <1>4. /\ r \in Record /\ r.state = "mapped" /\ r.workspace = current /\ r.mode = "fl"
        /\ r.drag = s.client[c].drag
    BY <1>1 DEF Record
  <1> HIDE DEF r, t
  <1>5. Place(r) = "fl"
    BY <1>4 DEF Place
  <1>6. /\ Touches(s, t, c) /\ t.client[c] = r /\ HasHome(r)
        /\ Sound(p, current, s) => Stays(s, t, c) /\ PlacedIn(t, c)
    BY <1>1, <1>3, <1>4, <1>5, ListChanges
  <1>7. Sound(p, current, s) => Fits(c, r, current) /\ r.drag = "no"
    BY <1>1, <1>4, <1>6 DEF Sound, Fits
  <1> QED
    BY <1>6, <1>7 DEF Handled, t

LEMMA MinimizeKeeps ==
  ASSUME NEW p, NEW s, Typed(p, s), NEW c \in Clients, IsFocus(s, c)
  PROVE  LET q == s.client[c]
             k == At(s, c)
             l == IF q.mode = "ml" THEN "cl" ELSE "ml"
             t == Give([Take(s, current, k, q.mode, c) EXCEPT
                          !.client[c] = [NoRecord(@) EXCEPT !.mode = l]], current, k, l, c)
         IN /\ Handled(p, current, s, t, c)
            /\ t.client[c].drag = "no"
            /\ Sound(p, current, s) => Stays(s, t, c)
  <1> DEFINE q == s.client[c]
             k == At(s, c)
             l == IF q.mode = "ml" THEN "cl" ELSE "ml"
             a == Take(s, current, k, q.mode, c)
             n == NoRecord(q)
             r == [n EXCEPT !.mode = l]
             t == Give(WithRecord(a, c, r), current, k, l, c)
  <1>1. /\ q \in Record /\ l \in Kinds \ {"ul"} /\ current \in Workspaces
        /\ q.state = "mapped" /\ q.workspace = current
        /\ c \notin Docks /\ l # "fl"
    BY FocusIs DEF Kinds, IsFocus
  <1> HIDE DEF l
  <1>2. a.client = s.client
    BY FocusIs, TakeIs
  <1>3. [a EXCEPT !.client[c] = [NoRecord(@) EXCEPT !.mode = l]] = WithRecord(a, c, r)
    BY <1>2 DEF WithRecord
  <1>4. /\ n \in Record /\ n.state = "mapped" /\ n.workspace = current /\ n.drag = "no"
    BY <1>1, NoRecordIs
  <1> HIDE DEF n
  <1>5. /\ r \in Record /\ r.state = "mapped" /\ r.workspace = current /\ r.mode = l
        /\ r.drag = "no"
    BY <1>1, <1>4 DEF Record
  <1> HIDE DEF r, t
  <1>6. Place(r) = l /\ l \in Kinds
    BY <1>1, <1>5 DEF Place
  <1>7. /\ Touches(s, t, c) /\ t.client[c] = r /\ HasHome(r)
        /\ Sound(p, current, s) => Stays(s, t, c) /\ PlacedIn(t, c)
    BY <1>1, <1>5, <1>6, ListChanges DEF t
  <1>8. Sound(p, current, s) => Fits(c, r, current)
    BY <1>1, <1>5, <1>7 DEF Sound, Fits
  <1> QED
    BY <1>3, <1>5, <1>7, <1>8 DEF Handled, t, r, n, l

(* Back to the tiled ones, if there is a monitor where the window is.      *)
LEMMA ReattachTiles ==
  ASSUME NEW p, NEW s, Typed(p, s), NEW c \in Clients, IsFocus(s, c),
         s.client[c].mode = "fl"
  PROVE  LET t == ReattachIntoCl(s, c)
             b == s.client[c].box
         IN /\ Touches(s, t, c) /\ HasHome(t.client[c])
            /\ t.client[c].drag = "no"
            /\ AtPosition(s.monitors[current], b.x, b.y) # 0 => Handled(p, current, s, t, c)
  <1> DEFINE k == At(s, c)
             b == s.client[c].box
             j == AtPosition(s.monitors[current], b.x, b.y)
             a == Take(s, current, k, "fl", c)
             n == NoRecord(s.client[c])
             r == [n EXCEPT !.mode = "cl"]
             t == ReattachIntoCl(s, c)
  <1>1. /\ s.client[c] \in Record /\ {"cl", "fl"} \in SUBSET Kinds /\ current \in Workspaces
        /\ s.client[c].state = "mapped" /\ s.client[c].workspace = current
        /\ c \notin Docks /\ k \in 0..Len(s.monitors[current]) /\ s \in State
    BY FocusIs DEF Kinds, IsFocus
  <1>2. a.client = s.client
    BY <1>1, TakeIs
  <1>3. [a EXCEPT !.client[c] = [NoRecord(@) EXCEPT !.mode = "cl"]] = WithRecord(a, c, r)
    BY <1>2 DEF WithRecord
  <1>4. t = Give(WithRecord(a, c, r), current, j, "cl", c)
    BY <1>3 DEF ReattachIntoCl
  <1>5. j \in 0..Len(s.monitors[current])
    BY FocusIs, AtPositionIs
  <1> HIDE DEF j
  <1>6. n \in Record /\ n.state = "mapped" /\ n.workspace = current /\ n.drag = "no"
    BY <1>1, NoRecordIs
  <1> HIDE DEF n
  <1>7. /\ r \in Record /\ r.state = "mapped" /\ r.workspace = current /\ r.mode = "cl"
        /\ r.drag = "no"
    BY <1>1, <1>6 DEF Record, Kinds
  <1> HIDE DEF r, t
  <1>8. /\ Touches(s, t, c) /\ t.client[c] = r
        /\ HeldAt(s, c, current, k, "fl") /\ j # 0 => HeldAt(t, c, current, j, "cl")
    BY <1>1, <1>4, <1>5, <1>7, TakeWriteGive
  <1>9. HasHome(r)
    BY <1>1, <1>7 DEF HasHome
  <1>10. ASSUME j # 0, Sound(p, current, s) PROVE PlacedIn(t, c) /\ Fits(c, r, current)
    <2>1. InPlace(s, c, k) /\ Place(s.client[c]) = "fl" /\ Place(r) = "cl"
      BY <1>1, <1>7, <1>10, FocusIs DEF Place
    <2>2. HeldAt(t, c, current, j, Place(r)) /\ j \in 1..Len(s.monitors[current])
      BY <1>1, <1>5, <1>8, <1>10, <2>1 DEF InPlace
    <2>3. PlacedIn(t, c)
      BY <1>1, <1>7, <1>8, <2>2, IsInPlace
    <2> QED
      BY <2>3, <1>1, <1>7, <1>9, <1>10 DEF Sound, Fits
  <1> QED
    BY <1>7, <1>8, <1>9, <1>10 DEF Handled, t, j

(* A monitor has the same place in all workspaces.                         *)
LEMMA SymmetricIs ==
  ASSUME NEW p, NEW s, Typed(p, s), NEW v \in Workspaces, NEW w \in Workspaces,
         NEW k \in 0..Len(s.monitors[v])
  PROVE  /\ Len(s.monitors[v]) = Len(s.monitors[w])
         /\ Symmetric(s, s.monitors[v], k, w) = k
  <1> DEFINE ms == s.monitors[v]
             ns == s.monitors[w]
  <1>1. /\ Fit(Clients, p, ms) /\ Fit(Clients, p, ns) /\ SameNames(ms, ns)
    BY DEF Typed, AllFit
  <1>2. CASE k = 0
    BY <1>1, <1>2 DEF Symmetric, SameNames
  <1>3. CASE k # 0
    <2>1. /\ ms[k].name \in Names /\ ms[k].name # NoName /\ ms[k].name = ns[k].name
          /\ k \in 1..Len(ns) /\ ns \in Seq(Monitor(Clients))
      BY <1>1, <1>3, NamesAssumption DEF Fit, SameNames
    <2>2. WithName(ns, ms[k].name) # 0
      BY <2>1, WithNameIs
    <2>3. /\ WithName(ns, ms[k].name) \in 1..Len(ns)
          /\ ns[WithName(ns, ms[k].name)].name = ns[k].name
      BY <2>1, <2>2, WithNameIs
    <2>4. WithName(ns, ms[k].name) = k
      BY <2>1, <2>3, <1>1 DEF Fit
    <2> QED
      BY <2>4, <1>1, <1>3 DEF Symmetric, SameNames
  <1> QED
    BY <1>2, <1>3

LEMMA MoveToWorkspaceKeeps ==
  ASSUME NEW p, NEW s, Typed(p, s), NEW c \in Clients, IsFocus(s, c),
         NEW w \in Workspaces
  PROVE  LET t == ActionMoveToWorkspace(s, c, w)
         IN /\ Handled(p, current, s, t, c) /\ t.client[c].state = "going"
            /\ Sound(p, current, s) => Stays(s, t, c)
  <1> DEFINE ms == s.monitors[current]
             k == Holder(ms, c)
             j == Symmetric(s, ms, k, w)
             l == s.client[c].mode
             a == Give(Take(s, current, k, l, c), w, j, l, c)
             r == [s.client[c] EXCEPT !.workspace = w, !.state = "going"]
             t == ActionMoveToWorkspace(s, c, w)
  <1>1. /\ s.client[c] \in Record /\ current \in Workspaces /\ l \in Kinds
        /\ s.client[c].state = "mapped" /\ s.client[c].workspace = current
        /\ c \notin Docks /\ k \in 0..Len(s.monitors[current]) /\ s \in State
        /\ k = At(s, c) /\ Place(s.client[c]) = l
    BY FocusIs DEF IsFocus, At
  <1>2. j = k /\ k \in 0..Len(s.monitors[w])
    BY <1>1, SymmetricIs
  <1> HIDE DEF k, j
  <1>3. Rehung(s, a, c)
    BY <1>1, <1>2, TakeGive
  <1>4. t = WithRecord(a, c, r)
    <2>1. t = [a EXCEPT !.client[c].workspace = w, !.client[c].state = "going"]
      BY DEF ActionMoveToWorkspace, j, k
    <2> HIDE DEF a, t
    <2>2. a.client = s.client /\ a \in State
      BY <1>3 DEF Rehung
    <2> QED
      BY <2>1, <2>2 DEF WithRecord, State
  <1>5. /\ r \in Record /\ r.state = "going" /\ r.workspace = w /\ r.mode = l
        /\ r.drag = s.client[c].drag
    BY <1>1 DEF Record, States
  <1> HIDE DEF r, t
  <1>6. /\ Touches(s, t, c) /\ t.client[c] = r
        /\ HeldAt(s, c, current, k, l) /\ j # 0 => HeldAt(t, c, w, j, l)
    BY <1>1, <1>2, <1>4, <1>5, TakeGiveWrite
  <1>7. HasHome(r)
    BY <1>5 DEF HasHome
  <1>8. ASSUME Sound(p, current, s) PROVE Stays(s, t, c) /\ PlacedIn(t, c) /\ Fits(c, r, current)
    <2>1. InPlace(s, c, k) /\ k # 0
      BY <1>1, <1>8, FocusIs
    <2>2. HeldAt(t, c, w, k, Place(r)) /\ k \in 1..Len(s.monitors[w])
      BY <1>1, <1>2, <1>5, <1>6, <2>1 DEF InPlace, Place
    <2>3. InPlace(t, c, k) /\ PlacedIn(t, c)
      BY <1>5, <1>6, <2>2, IsInPlace
    <2>4. Stays(s, t, c)
      BY <2>3, <1>1, AtIs DEF Stays
    <2>5. Fits(c, r, current)
      BY <1>1, <1>5, <1>7, <1>8 DEF Sound, Fits
    <2> QED
      BY <2>3, <2>4, <2>5
  <1> QED
    BY <1>5, <1>6, <1>7, <1>8 DEF Handled, t

(* The lists are the same, and the record names the same list.             *)
LEMMA SameHome ==
  ASSUME NEW s, NEW t, NEW c, s.monitors = t.monitors,
         s.client[c].state = t.client[c].state,
         s.client[c].workspace = t.client[c].workspace,
         s.client[c].mode = t.client[c].mode
  PROVE  Stays(s, t, c) /\ (PlacedIn(s, c) => PlacedIn(t, c))
  <1>1. ASSUME NEW k \in Nat, InPlace(s, c, k) PROVE InPlace(t, c, k)
    BY <1>1 DEF InPlace, HeldAt, Place
  <1>2. Nowhere(s, c) => Nowhere(t, c)
    BY DEF Nowhere
  <1> QED
    BY <1>1, <1>2 DEF PlacedIn, Stays

LEMMA MoveWinMonitorIs ==
  ASSUME NEW p, NEW s, Typed(p, s), NEW c \in Clients, IsFocus(s, c),
         NEW to \in 1..Len(s.monitors[current])
  PROVE  LET k == At(s, c)
             t == [MoveToMonitor(s, current, c, k, to) EXCEPT
                     !.client[c].prop = s.monitors[current][to].name]
         IN Handled(p, current, s, t, c) /\ t.client[c].drag = s.client[c].drag
  <1> DEFINE k == At(s, c)
             a == MoveToMonitor(s, current, c, k, to)
             n == s.monitors[current][to].name
             r == [s.client[c] EXCEPT !.prop = n]
             t == WithRecord(a, c, r)
  <1>1. /\ s.client[c] \in Record /\ current \in Workspaces
        /\ s.client[c].state = "mapped" /\ s.client[c].workspace = current
        /\ c \notin Docks /\ k \in 0..Len(s.monitors[current]) /\ s \in State
        /\ s.monitors[current][to] \in Monitor(Clients)
    BY FocusIs DEF IsFocus
  <1>2. /\ Touches(s, a, c) /\ a.client[c] = s.client[c]
        /\ InPlace(s, c, k) => PlacedIn(a, c)
    BY <1>1, MoveToMonitorIs
  <1>3. n \in Names \cup {NoName}
    BY <1>1 DEF Monitor
  <1> HIDE DEF n
  <1>4. [a EXCEPT !.client[c].prop = n] = t
    <2> HIDE DEF a
    <2> QED
      BY <1>2 DEF WithRecord
  <1>5. /\ r \in Record /\ r.state = "mapped" /\ r.workspace = current
        /\ r.mode = s.client[c].mode /\ r.drag = s.client[c].drag
    BY <1>1, <1>3 DEF Record
  <1> HIDE DEF r, a
  <1>6. /\ Touches(a, t, c) /\ t.monitors = a.monitors /\ t.client[c] = r
    BY <1>2, <1>5, RecordTouches DEF Touches
  <1> HIDE DEF t
  <1>7. Touches(s, t, c)
    BY <1>2, <1>6, TouchesTransitive
  <1>8. ASSUME Sound(p, current, s) PROVE PlacedIn(t, c) /\ Fits(c, r, current)
    <2>1. PlacedIn(a, c)
      BY <1>2, <1>8, FocusIs
    <2>2. PlacedIn(t, c)
      BY <2>1, <1>1, <1>2, <1>5, <1>6, SameHome
    <2>3. Fits(c, r, current)
      BY <1>1, <1>5, <1>8 DEF Sound, Fits, HasHome
    <2> QED
      BY <2>2, <2>3
  <1>9. HasHome(r)
    BY <1>1, <1>5 DEF HasHome
  <1> QED
    BY <1>4, <1>5, <1>6, <1>7, <1>8, <1>9 DEF Handled, t, a, n

LEMMA WindowlessIs ==
  Windowless \in Record /\ Windowless.state = "out" /\ Windowless.drag = "no"
  <1>1. NoBox \in Box
    BY DEF NoBox, Box
  <1> QED
    BY <1>1 DEF Windowless, Record, States, Kinds

StartRecord(c, state, w, prop) ==
  [Windowless EXCEPT !.state = state, !.workspace = w, !.mode = StartMode(c), !.prop = prop]

LEMMA StartRecordIs ==
  ASSUME NEW c \in Clients, NEW state \in States, NEW w \in Workspaces,
         NEW prop \in Names \cup {NoName}
  PROVE  LET r == StartRecord(c, state, w, prop)
         IN /\ r \in Record /\ r.state = state /\ r.workspace = w
            /\ r.mode = StartMode(c) /\ r.drag = "no"
  <1>1. StartMode(c) \in Kinds \ {"ul"}
    BY DEF StartMode, Kinds
  <1> QED
    BY <1>1, WindowlessIs DEF Record, StartRecord

LEMMA StartingMonitorIs ==
  ASSUME NEW p, NEW s, Typed(p, s), NEW w \in Workspaces, NEW prop, NEW focus, NEW pointer,
         focus # None => focus \in Clients /\ s.client[focus].workspace = w
  PROVE  StartingMonitor(s, w, prop, focus, pointer) \in 0..Len(s.monitors[w])
  <1>1. s.monitors[w] \in Seq(Monitor(Clients))
    BY DEF Typed, State
  <1>2. WithName(s.monitors[w], prop) \in 0..Len(s.monitors[w])
    BY <1>1, WithNameIs
  <1>3. AtPosition(s.monitors[w], pointer.x, pointer.y) \in 0..Len(s.monitors[w])
    BY <1>1, AtPositionIs
  <1>4. focus # None => At(s, focus) \in 0..Len(s.monitors[w])
    BY <1>1, HolderIs DEF At
  <1> QED
    BY <1>2, <1>3, <1>4 DEF StartingMonitor

(* The list for a client that starts in this state.                        *)
StartList(c, state) == IF state \in {"coming", "unmapped"} THEN "ul" ELSE StartMode(c)

Started(s, t, c, w, state) ==
  /\ Touches(s, t, c) /\ HasHome(t.client[c])
  /\ t.client[c].state \in {"out", state} /\ t.client[c].drag = "no"
  /\ Nowhere(s, c) => PlacedIn(t, c)
  /\ \A cur : (state \in {"coming", "mapped"} => w = cur) => Fits(c, t.client[c], cur)

(* A client that is in no list is in the right one, or is not managed.     *)
LEMMA StartManageIs ==
  ASSUME NEW p, NEW s, Typed(p, s), NEW c \in Clients, NEW w \in Workspaces,
         NEW state \in States, state # "out", NEW focus, NEW pointer,
         focus # None => focus \in Clients /\ s.client[focus].workspace = w,
         NEW l, l = StartList(c, state)
  PROVE  Started(s, StartManage(s, c, w, l, state, focus, pointer), c, w, state)
  <1> DEFINE ms   == s.monitors[w]
             k    == StartingMonitor(s, w, s.client[c].prop, focus, pointer)
             to   == IF c \in Docks THEN MostOf(ms, DockBox, k) ELSE k
             prop == IF k = 0 THEN NoName ELSE ms[k].name
             r    == StartRecord(c, state, w, prop)
             t    == StartManage(s, c, w, l, state, focus, pointer)
  <1>1. s \in State /\ ms \in Seq(Monitor(Clients))
    BY DEF Typed, State
  <1>2. k \in 0..Len(ms)
    BY StartingMonitorIs
  <1> HIDE DEF k
  <1>3. to \in 0..Len(ms)
    BY <1>1, <1>2, MostOfIs
  <1>4. prop \in Names \cup {NoName}
    <2>1. k # 0 => ms[k] \in Monitor(Clients)
      BY <1>1, <1>2
    <2> QED
      BY <2>1 DEF Monitor
  <1>5. t = IF to = 0 THEN WithRecord(s, c, Windowless)
            ELSE Give(WithRecord(s, c, r), w, to, l, c)
    BY DEF StartManage, WithRecord, StartRecord, to, k
  <1> HIDE DEF to, prop, t
  <1>6. CASE to = 0
    <2>1. t = WithRecord(s, c, Windowless)
      BY <1>5, <1>6
    <2>2. /\ Touches(s, t, c) /\ t.client[c] = Windowless
          /\ Nowhere(s, c) => Nowhere(t, c)
      BY <1>1, <2>1, WindowlessIs, RecordTouches
    <2>3. /\ HasHome(Windowless) /\ Windowless.state = "out" /\ Windowless.drag = "no"
      BY WindowlessIs DEF HasHome
    <2>4. \A cur : Fits(c, Windowless, cur)
      BY <2>3 DEF Fits
    <2>5. Nowhere(s, c) => PlacedIn(t, c)
      BY <2>2, <2>3 DEF PlacedIn
    <2> QED
      BY <2>2, <2>3, <2>4, <2>5 DEF t, Started
  <1>7. CASE to # 0
    <2> DEFINE b == WithRecord(s, c, r)
    <2>1. /\ r \in Record /\ r.state = state /\ r.workspace = w /\ r.mode = StartMode(c)
          /\ r.drag = "no"
      BY <1>4, StartRecordIs
    <2> HIDE DEF r
    <2>2. t = Give(b, w, to, l, c)
      BY <1>5, <1>7
    <2>3. /\ Touches(s, b, c) /\ b.client[c] = r /\ (Nowhere(s, c) => Nowhere(b, c))
      BY <1>1, <2>1, RecordTouches
    <2> HIDE DEF b
    <2>4. l \in Kinds /\ l = Place(r)
      BY <2>1 DEF StartMode, StartList, Kinds, Place
    <2>5. b \in State /\ to \in 0..Len(b.monitors[w])
      BY <1>3, <2>3, SameLengths DEF Touches
    <2>6. /\ Touches(b, t, c) /\ t.client[c] = b.client[c]
          /\ to # 0 /\ Nowhere(b, c) => HeldAt(t, c, w, to, l)
      BY <2>2, <2>4, <2>5, GiveTouches
    <2>7. Touches(s, t, c) /\ t.client[c] = r
      BY <2>3, <2>6, TouchesTransitive
    <2>8. HasHome(r)
      BY <2>1 DEF HasHome
    <2>9. Nowhere(s, c) => PlacedIn(t, c)
      <3>1. Nowhere(s, c) => HeldAt(t, c, w, to, Place(r))
        BY <1>7, <2>3, <2>4, <2>6
      <3> QED
        BY <3>1, <1>3, <1>7, <2>1, <2>7, IsInPlace
    <2>10. \A cur : (state \in {"coming", "mapped"} => w = cur) => Fits(c, r, cur)
      BY <2>1, <2>8 DEF Fits, StartMode
    <2> QED
      BY <2>1, <2>7, <2>8, <2>9, <2>10 DEF t, Started
  <1> QED
    BY <1>6, <1>7

(* One client less.                                                        *)
LEMMA EndManageIs ==
  ASSUME NEW p, NEW s, Typed(p, s), NEW c \in Clients, NEW cur
  PROVE  LET t == EndManage(s, c)
         IN Handled(p, cur, s, t, c) /\ t.client[c].state = "out" /\ t.client[c].drag = "no"
  <1> DEFINE less(m) == [m EXCEPT !.holds = [l \in Kinds |-> m.holds[l] \ {c}]]
             all  == [w \in Workspaces |-> [k \in DOMAIN s.monitors[w] |-> less(s.monitors[w][k])]]
             a    == [s EXCEPT !.monitors = all]
             t    == WithRecord(a, c, Windowless)
  <1>1. EndManage(s, c) = t
    BY DEF EndManage, WithRecord
  <1>2. s \in State /\ \A w \in Workspaces : s.monitors[w] \in Seq(Monitor(Clients))
    BY DEF Typed, State
  <1>3. ASSUME NEW m \in Monitor(Clients)
        PROVE  /\ less(m) \in Monitor(Clients) /\ SameFrame(m, less(m))
               /\ \A l \in Kinds : less(m).holds[l] = m.holds[l] \ {c}
    BY <1>3 DEF Monitor, SameFrame
  <1> HIDE DEF less
  <1>4. ASSUME NEW w \in Workspaces
        PROVE  /\ all[w] \in Seq(Monitor(Clients)) /\ Len(all[w]) = Len(s.monitors[w])
               /\ \A k \in 1..Len(s.monitors[w]) : all[w][k] = less(s.monitors[w][k])
    BY <1>2, <1>3
  <1>5. all \in [Workspaces -> Seq(Monitor(Clients))]
    BY <1>4
  <1> HIDE DEF all
  <1>6. a \in State /\ a.client = s.client /\ a.monitors = all
    BY <1>2, <1>5 DEF State
  <1> HIDE DEF a
  <1>7. ASSUME NEW w \in Workspaces, NEW k \in 1..Len(s.monitors[w])
        PROVE  /\ SameFrame(s.monitors[w][k], a.monitors[w][k])
               /\ \A l \in Kinds : a.monitors[w][k].holds[l] = s.monitors[w][k].holds[l] \ {c}
    <2>1. s.monitors[w][k] \in Monitor(Clients)
      BY <1>2
    <2> QED
      BY <2>1, <1>3, <1>4, <1>6
  <1>8. SameMonitors(s, a)
    BY <1>4, <1>6, <1>7 DEF SameMonitors, SameShape, SameFrame
  <1>9. \A d \in Clients \ {c} : Undisturbed(s, a, d)
    BY <1>7 DEF Undisturbed
  <1>10. Nowhere(a, c)
    BY <1>7, <1>8 DEF Nowhere, SameMonitors, SameShape
  <1>11. Touches(s, a, c)
    BY <1>6, <1>8, <1>9 DEF Touches
  <1>12. /\ Touches(a, t, c) /\ t.client[c] = Windowless /\ Nowhere(t, c)
    BY <1>6, <1>10, WindowlessIs, RecordTouches
  <1> HIDE DEF t
  <1>13. Touches(s, t, c)
    BY <1>11, <1>12, TouchesTransitive
  <1>14. HasHome(Windowless) /\ \A x : Fits(c, Windowless, x)
    BY WindowlessIs DEF Fits, HasHome
  <1>15. PlacedIn(t, c)
    BY <1>12, WindowlessIs DEF PlacedIn
  <1> QED
    BY <1>1, <1>12, <1>13, <1>14, <1>15, WindowlessIs DEF Handled

(* Pointer and keys: the window changes its place only.                    *)
LEMMA ShiftedBox ==
  ASSUME NEW b \in Box, NEW i \in Int, NEW j \in Int
  PROVE  /\ [b EXCEPT !.x = b.x + i, !.y = b.y + j] \in Box
         /\ LET a == [b EXCEPT !.w = b.w + i, !.h = b.h + j]
            IN a.w >= 0 /\ a.h >= 0 => a \in Box
  <1> DEFINE x == b.x + i
             y == b.y + j
             w == b.w + i
             h == b.h + j
  <1>1. x \in Int /\ y \in Int /\ w \in Int /\ h \in Int
    BY DEF Box
  <1> HIDE DEF x, y, w, h
  <1>2. [b EXCEPT !.x = x, !.y = y] \in Box
    BY <1>1 DEF Box
  <1>3. LET a == [b EXCEPT !.w = w, !.h = h]
        IN a.w >= 0 /\ a.h >= 0 => a \in Box
    <2> DEFINE a == [b EXCEPT !.w = w, !.h = h]
    <2>1. b \in [x : Int, y : Int, w : Int, h : Int]
      BY DEF Box
    <2>2. a \in [x : Int, y : Int, w : Int, h : Int]
      BY <1>1, <2>1
    <2> HIDE DEF a
    <2>3. a.w >= 0 /\ a.h >= 0 => a \in Box
      BY <2>2 DEF Box
    <2> QED
      BY <2>3 DEF a
  <1> QED
    BY <1>2, <1>3 DEF x, y, w, h

LEMMA FloaterIs ==
  ASSUME NEW ms, NEW m, NEW r \in Record, NEW d \in Steps,
         NEW q, q = MoveFloater(ms, r, d) \/ q = ResizeFloater(ms, m, r, d)
  PROVE  q \in Record /\ SameButBox(r, q) /\ (InReach(ms, r.box) => InReach(ms, q.box))
  <1>1. d.x \in Int /\ d.y \in Int /\ r.box \in Box
    BY SizesAssumption DEF Record
  <1>2. PICK b \in Box : q = r \/ (q = [r EXCEPT !.box = b] /\ InBounds(ms, b))
    <2>1. CASE q = MoveFloater(ms, r, d)
      <3> DEFINE b == [r.box EXCEPT !.x = @ + d.x, !.y = @ + d.y]
      <3>1. b \in Box
        BY <1>1, ShiftedBox
      <3> QED
        BY <2>1, <3>1 DEF MoveFloater
    <2>2. CASE q = ResizeFloater(ms, m, r, d)
      <3> DEFINE b == [r.box EXCEPT !.w = @ + d.x, !.h = @ + d.y]
                 fits == /\ b.w \in MinSide .. m.w - 2 * Gap - 2 * Border
                         /\ b.h \in MinSide .. m.h - 2 * Gap - 2 * Border
                         /\ InBounds(ms, b)
      <3>1. q = IF fits THEN [r EXCEPT !.box = b] ELSE r
        BY <2>2 DEF ResizeFloater
      <3>2. \A x, y : x \in MinSide .. y => x >= 0
        BY SizesAssumption
      <3>3. b.w >= 0 /\ b.h >= 0 => b \in Box
        BY <1>1, ShiftedBox
      <3> HIDE DEF b
      <3>4. fits => b \in Box
        BY <3>2, <3>3
      <3> QED
        BY <1>1, <3>1, <3>4
    <2> QED
      BY <2>1, <2>2
  <1> QED
    BY <1>2 DEF Record, SameButBox, InReach

LEMMA MotionIs ==
  ASSUME NEW p, NEW s, Typed(p, s), NEW c \in Clients, NEW d \in Steps, NEW t,
         t = Moved(s, c, d) \/ t = Resized(s, c, d), NEW cur
  PROVE  /\ Handled(p, cur, s, t, c) /\ Stays(s, t, c)
         /\ SameButBox(s.client[c], t.client[c])
         /\ LET ms == s.monitors[s.client[c].workspace]
            IN InReach(ms, s.client[c].box) => InReach(ms, t.client[c].box)
  <1> DEFINE ms == s.monitors[s.client[c].workspace]
             r  == s.client[c]
             q1 == MoveFloater(ms, r, d)
             q2 == ResizeFloater(ms, ms[At(s, c)], r, d)
  <1>1. r \in Record /\ s \in State
    BY DEF Typed, State
  <1>2. PICK q : /\ q = q1 \/ q = q2
                 /\ t = WithRecord(s, c, q)
    BY DEF Moved, Resized, WithRecord
  <1>3. q \in Record /\ SameButBox(r, q) /\ (InReach(ms, r.box) => InReach(ms, q.box))
    BY <1>1, <1>2, FloaterIs
  <1>4. Touches(s, t, c) /\ t.monitors = s.monitors /\ t.client[c] = q
    BY <1>1, <1>2, <1>3, RecordTouches
  <1>5. Stays(s, t, c) /\ (PlacedIn(s, c) => PlacedIn(t, c))
    BY <1>3, <1>4, SameHome DEF SameButBox
  <1>6. HasHome(t.client[c])
    BY <1>3, <1>4 DEF Typed, HasHome, SameButBox
  <1>7. Fits(c, r, cur) => Fits(c, q, cur)
    BY <1>3 DEF Fits, HasHome, SameButBox
  <1> QED
    BY <1>3, <1>4, <1>5, <1>6, <1>7 DEF Handled, Sound

-----------------------------------------------------------------------------
(* Another workspace.                                                      *)

DocksShown(s) ==
  {c \in Docks : \E k \in 1..Len(s.monitors[current]) : c \in s.monitors[current][k].holds.dl}

Leave(m, moving) == [m EXCEPT !.holds.dl = m.holds.dl \ moving]

Enter(m, coming) == [m EXCEPT !.holds.dl = m.holds.dl \cup coming]

LEMMA LeaveEnter ==
  ASSUME NEW m \in Monitor(Clients), NEW D \in SUBSET Clients
  PROVE  /\ Leave(m, D) \in Monitor(Clients) /\ SameFrame(m, Leave(m, D))
         /\ Leave(m, D).holds["dl"] = m.holds["dl"] \ D
         /\ Enter(m, D) \in Monitor(Clients) /\ SameFrame(m, Enter(m, D))
         /\ Enter(m, D).holds["dl"] = m.holds["dl"] \cup D
         /\ \A l \in Kinds : l # "dl" => /\ Leave(m, D).holds[l] = m.holds[l]
                                         /\ Enter(m, D).holds[l] = m.holds[l]
  <1>1. "dl" \in Kinds
    BY DEF Kinds
  <1>2. /\ Leave(m, D) \in Monitor(Clients) /\ SameFrame(m, Leave(m, D))
        /\ Leave(m, D).holds["dl"] = m.holds["dl"] \ D
        /\ \A l \in Kinds : l # "dl" => Leave(m, D).holds[l] = m.holds[l]
    BY <1>1 DEF Leave, Monitor, SameFrame
  <1>3. /\ Enter(m, D) \in Monitor(Clients) /\ SameFrame(m, Enter(m, D))
        /\ Enter(m, D).holds["dl"] = m.holds["dl"] \cup D
        /\ \A l \in Kinds : l # "dl" => Enter(m, D).holds[l] = m.holds[l]
    BY <1>1 DEF Enter, Monitor, SameFrame
  <1> QED
    BY <1>2, <1>3

(* The docks that are shown, and no others, go along.                      *)
LEMMA MoveDocksIs ==
  ASSUME NEW p, NEW s, Typed(p, s), current \in Workspaces,
         NEW w \in Workspaces, w # current
  PROVE  LET t == MoveDocks(s, w)
         IN /\ t \in State /\ SameMonitors(s, t)
            /\ \A d \in Clients \ DocksShown(s) :
                 Undisturbed(s, t, d) /\ t.client[d] = s.client[d]
            /\ \A d \in DocksShown(s) :
                 /\ t.client[d] = [s.client[d] EXCEPT !.workspace = w]
                 /\ \A k \in Nat : HeldAt(s, d, current, k, "dl") => HeldAt(t, d, w, k, "dl")
  <1> DEFINE old    == s.monitors[current]
             moving == DocksShown(s)
             to(k)  == {c \in moving : Holder(old, c) = k}
             A      == [k \in DOMAIN old |-> Leave(old[k], moving)]
             B      == [k \in DOMAIN s.monitors[w] |-> Enter(s.monitors[w][k], to(k))]
             all    == [s.monitors EXCEPT ![current] = A, ![w] = B]
             rs     == [c \in Clients |->
                          IF c \in moving THEN [s.client[c] EXCEPT !.workspace = w] ELSE s.client[c]]
             t      == MoveDocks(s, w)
  <1>1. /\ s \in State /\ s.monitors \in [Workspaces -> Seq(Monitor(Clients))]
        /\ \A v \in Workspaces : s.monitors[v] \in Seq(Monitor(Clients))
        /\ \A c \in Clients : s.client[c] \in Record
    BY DEF Typed, State
  <1>2. moving \subseteq Clients
    BY KindsOfWindow DEF DocksShown
  <1>3. ASSUME NEW k \in 0..Len(old) PROVE Symmetric(s, old, k, w) = k
    BY SymmetricIs
  <1>4. \A c : Holder(old, c) \in 0..Len(old)
    BY <1>1, HolderIs
  <1>5. t = [monitors |-> all, client |-> rs]
    <2>1. moving = {c \in Docks : \E k \in DOMAIN old :
                      c \in old[k].holds.dl /\ Symmetric(s, old, k, w) # 0}
      <3>1. DOMAIN old = 1..Len(old)
        BY <1>1
      <3>2. \A k \in DOMAIN old : Symmetric(s, old, k, w) # 0
        BY <3>1, <1>3
      <3> QED
        BY <3>1, <3>2 DEF DocksShown
    <2>2. \A c : Symmetric(s, old, Holder(old, c), w) = Holder(old, c)
      BY <1>3, <1>4
    <2> HIDE DEF moving
    <2>3. MoveDocks(s, w) =
            [monitors |-> [s.monitors EXCEPT
               ![current] = [k \in DOMAIN s.monitors[current] |->
                               Leave(s.monitors[current][k], moving)],
               ![w] = [k \in DOMAIN s.monitors[w] |->
                         Enter(s.monitors[w][k],
                               {c \in moving : Symmetric(s, old, Holder(old, c), w) = k})]],
             client |-> rs]
      BY <2>1 DEF MoveDocks, Leave, Enter
    <2> QED
      BY <2>2, <2>3
  <1> HIDE DEF moving, t
  <1>6. \A k : to(k) \in SUBSET Clients
    BY <1>2
  <1>7. /\ A \in Seq(Monitor(Clients)) /\ Len(A) = Len(old)
        /\ \A k \in 1..Len(old) : A[k] = Leave(old[k], moving)
    BY SMTT(60), <1>1, <1>2, LeaveEnter
  <1> HIDE DEF A, to
  <1>8. /\ B \in Seq(Monitor(Clients)) /\ Len(B) = Len(s.monitors[w])
        /\ \A k \in 1..Len(s.monitors[w]) : B[k] = Enter(s.monitors[w][k], to(k))
    <2> DEFINE ns == s.monitors[w]
               new == [k \in 1..Len(ns) |-> Enter(ns[k], to(k))]
    <2>1. ns \in Seq(Monitor(Clients)) /\ Len(ns) \in Nat /\ DOMAIN ns = 1..Len(ns)
      BY <1>1
    <2>2. B = new
      BY <2>1 DEF B
    <2> HIDE DEF ns
    <2>3. \A k \in 1..Len(ns) : ns[k] \in Monitor(Clients)
      BY <2>1
    <2>4. \A k \in 1..Len(ns) : Enter(ns[k], to(k)) \in Monitor(Clients)
      BY <2>3, <1>6, LeaveEnter
    <2>5. /\ new \in Seq(Monitor(Clients)) /\ Len(new) = Len(ns)
          /\ \A k \in 1..Len(ns) : new[k] = Enter(ns[k], to(k))
      BY <2>1, <2>4
    <2> QED
      BY <2>2, <2>5 DEF ns
  <1> HIDE DEF B
  <1>9. /\ all \in [Workspaces -> Seq(Monitor(Clients))] /\ all[current] = A /\ all[w] = B
        /\ \A v \in Workspaces : v # current /\ v # w => all[v] = s.monitors[v]
    BY <1>1, <1>7, <1>8
  <1>10. rs \in [Clients -> Record]
    <2>1. \A c \in Clients : [s.client[c] EXCEPT !.workspace = w] \in Record
      BY <1>1 DEF Record
    <2> QED
      BY <2>1, <1>1
  <1> HIDE DEF all, rs
  <1>11. t \in State /\ t.monitors = all /\ t.client = rs
    BY <1>5, <1>9, <1>10 DEF State
  <1>12. ASSUME NEW v \in Workspaces, NEW k \in 1..Len(s.monitors[v])
         PROVE  /\ SameFrame(s.monitors[v][k], all[v][k])
                /\ \A l \in Kinds : \A d \in Clients :
                     d \in all[v][k].holds[l] <=>
                       \/ d \in s.monitors[v][k].holds[l]
                          /\ ~(v = current /\ l = "dl" /\ d \in moving)
                       \/ v = w /\ l = "dl" /\ d \in to(k)
    <2>1. s.monitors[v][k] \in Monitor(Clients) /\ moving \in SUBSET Clients
      BY <1>1, <1>2
    <2>2. CASE v = current
      <3>1. all[v][k] = Leave(s.monitors[v][k], moving)
        BY <2>2, <1>7, <1>9
      <3> QED
        BY <3>1, <2>1, <2>2, LeaveEnter
    <2>3. CASE v = w
      <3>1. all[v][k] = Enter(s.monitors[v][k], to(k))
        BY <2>3, <1>8, <1>9
      <3> QED
        BY <3>1, <2>1, <2>3, <1>6, LeaveEnter
    <2>4. CASE v # current /\ v # w
      BY <2>4, <1>9 DEF SameFrame
    <2> QED
      BY <2>2, <2>3, <2>4
  <1>13. \A v \in Workspaces : Len(all[v]) = Len(s.monitors[v])
    BY <1>7, <1>8, <1>9
  <1>14. SameMonitors(s, t)
    BY <1>11, <1>12, <1>13 DEF SameMonitors, SameShape, SameFrame
  <1>15. ASSUME NEW d \in Clients \ moving
         PROVE  Undisturbed(s, t, d) /\ t.client[d] = s.client[d]
    <2>1. \A k : d \notin to(k)
      BY DEF to
    <2>2. Undisturbed(s, t, d)
      BY <2>1, <1>11, <1>12 DEF Undisturbed
    <2> QED
      BY <2>2, <1>11 DEF rs
  <1>16. ASSUME NEW d \in moving
         PROVE  t.client[d] = [s.client[d] EXCEPT !.workspace = w]
    BY <1>2, <1>11 DEF rs
  <1>17. ASSUME NEW d \in moving, NEW k \in Nat, HeldAt(s, d, current, k, "dl")
         PROVE  HeldAt(t, d, w, k, "dl")
    <2>1. d \in Clients /\ "dl" \in Kinds
      BY <1>2 DEF Kinds
    <2>2. \E j \in 1..Len(old) : d \in old[j].holds["dl"]
      BY DEF moving, DocksShown
    <2>3. k \in 1..Len(old)
      BY <2>1, <2>2, <1>17 DEF HeldAt
    <2>4. Holder(old, d) = k
      BY <2>1, <2>3, <1>1, <1>17, HeldIsHolder
    <2>5. \A j : d \in to(j) <=> j = k
      BY <2>4 DEF to
    <2>6. ASSUME NEW v \in Workspaces, NEW j \in 1..Len(s.monitors[v]), NEW l \in Kinds
          PROVE  d \in all[v][j].holds[l] <=> (v = w /\ j = k /\ l = "dl")
      <3>1. d \in s.monitors[v][j].holds[l] <=> (v = current /\ j = k /\ l = "dl")
        BY <1>17 DEF HeldAt
      <3> QED
        BY <3>1, <2>1, <2>5, <1>12
    <2> QED
      BY <2>6, <1>11, <1>13 DEF HeldAt
  <1> QED
    BY <1>11, <1>14, <1>15, <1>16, <1>17 DEF t, moving

(* The state of c once the manager has asked to unmap what was shown and   *)
(* to map what is on w.                                                    *)
StateOn(u, w, c) ==
  IF c \in HeldIn(u, current) /\ Mapped(u, c) THEN "going"
  ELSE IF c \in HeldIn(u, w) /\ u.client[c].state = "unmapped" THEN "coming"
  ELSE u.client[c].state

LEMMA SwitchWorkspaceIs ==
  ASSUME NEW p, NEW s, Typed(p, s), current \in Workspaces, NEW w \in Workspaces,
         w # current, \A c \in Clients : s.client[c].state \in {"out", "unmapped", "mapped"}
  PROVE  LET t == ActionSwitchWorkspace(s, w)
         IN /\ Typed(p, t) /\ SameMonitors(s, t)
            /\ \A c \in Clients : /\ t.client[c].state = "mapped" => s.client[c].state = "mapped"
                                  /\ t.client[c].drag = s.client[c].drag
            /\ Sound(p, current, s) =>
                 Sound(p, w, t) /\ \A c \in Clients \ Docks : Stays(s, t, c)
  <1> DEFINE u == MoveDocks(s, w)
             new(c) == [u.client[c] EXCEPT !.state = StateOn(u, w, c)]
             rs == [c \in Clients |-> new(c)]
             t  == ActionSwitchWorkspace(s, w)
  <1>1. /\ u \in State /\ SameMonitors(s, u)
        /\ \A d \in Clients \ DocksShown(s) :
             Undisturbed(s, u, d) /\ u.client[d] = s.client[d]
        /\ \A d \in DocksShown(s) :
             /\ u.client[d] = [s.client[d] EXCEPT !.workspace = w]
             /\ \A k \in Nat : HeldAt(s, d, current, k, "dl") => HeldAt(u, d, w, k, "dl")
    BY MoveDocksIs
  <1>2. DocksShown(s) \subseteq Docks /\ DocksShown(s) \subseteq Clients
    BY KindsOfWindow DEF DocksShown
  <1> HIDE DEF u
  <1>3. \A c \in Clients : u.client[c] \in Record /\ s.client[c] \in Record
    BY <1>1 DEF Typed, State
  <1>4. ASSUME NEW c \in Clients
        PROVE  /\ u.client[c].state = s.client[c].state /\ u.client[c].mode = s.client[c].mode
               /\ u.client[c].drag = s.client[c].drag
               /\ u.client[c].workspace =
                    IF c \in DocksShown(s) THEN w ELSE s.client[c].workspace
    <2>1. CASE c \in DocksShown(s)
      <3>1. u.client[c] = [s.client[c] EXCEPT !.workspace = w] /\ s.client[c] \in Record
        BY <2>1, <1>1, <1>3
      <3> QED
        BY <2>1, <3>1 DEF Record
    <2>2. CASE c \notin DocksShown(s)
      BY <2>2, <1>1
    <2> QED
      BY <2>1, <2>2
  <1>5. ASSUME NEW c \in Clients PROVE StateOn(u, w, c) \in States
    BY <1>3 DEF StateOn, States, Record
  <1>6. t = [u EXCEPT !.client = rs]
    <2>1. \A c \in Clients :
            new(c) = IF c \in HeldIn(u, current) /\ Mapped(u, c)
                       THEN [u.client[c] EXCEPT !.state = "going"]
                     ELSE IF c \in HeldIn(u, w) /\ u.client[c].state = "unmapped"
                       THEN [u.client[c] EXCEPT !.state = "coming"]
                     ELSE u.client[c]
      <3>1. \A c \in Clients : [u.client[c] EXCEPT !.state = u.client[c].state] = u.client[c]
        BY <1>3 DEF Record
      <3> QED
        BY <3>1 DEF StateOn
    <2> HIDE DEF new
    <2>2. rs = [c \in Clients |->
                  IF c \in HeldIn(u, current) /\ Mapped(u, c)
                    THEN [u.client[c] EXCEPT !.state = "going"]
                  ELSE IF c \in HeldIn(u, w) /\ u.client[c].state = "unmapped"
                    THEN [u.client[c] EXCEPT !.state = "coming"]
                  ELSE u.client[c]]
      BY <2>1
    <2> HIDE DEF rs
    <2> QED
      BY <2>2 DEF ActionSwitchWorkspace, u
  <1>7. ASSUME NEW c \in Clients
        PROVE  /\ new(c) \in Record /\ new(c).state = StateOn(u, w, c)
               /\ new(c).mode = s.client[c].mode /\ new(c).drag = s.client[c].drag
               /\ new(c).workspace = IF c \in DocksShown(s) THEN w ELSE s.client[c].workspace
    BY <1>3, <1>4, <1>5 DEF Record
  <1> HIDE DEF new
  <1>8. rs \in [Clients -> Record] /\ \A c \in Clients : rs[c] = new(c)
    BY <1>7
  <1> HIDE DEF rs, t
  <1>9. t \in State /\ t.monitors = u.monitors /\ t.client = rs
    BY <1>1, <1>6, <1>8 DEF State
  <1>10. SameMonitors(s, t) /\ \A w1 \in Workspaces : Len(t.monitors[w1]) = Len(s.monitors[w1])
    BY <1>1, <1>9 DEF SameMonitors, SameShape
  <1>11. \A c \in Clients : StateOn(u, w, c) = "out" <=> s.client[c].state = "out"
    BY <1>4 DEF StateOn, Mapped
  <1>12. \A c \in Clients : HasHome(t.client[c])
    BY <1>7, <1>8, <1>9, <1>11 DEF Typed, HasHome
  <1>13. Typed(p, t)
    BY <1>9, <1>10, <1>12, SameMonitorsFit DEF Typed
  <1>14. \A c \in Clients : /\ t.client[c].state = "mapped" => s.client[c].state = "mapped"
                            /\ t.client[c].drag = s.client[c].drag
    BY <1>4, <1>7, <1>8, <1>9 DEF StateOn
  <1>15. ASSUME Sound(p, current, s), NEW c \in Clients
         PROVE  PlacedIn(t, c) /\ Fits(c, t.client[c], w) /\ (c \notin Docks => Stays(s, t, c))
    <2>1. PlacedIn(s, c) /\ Fits(c, s.client[c], current) /\ s.client[c] \in Record
      BY <1>3, <1>15 DEF Sound
    <2>2. CASE s.client[c].state = "out"
      <3>1. c \notin DocksShown(s)
        BY <2>1, <2>2 DEF PlacedIn, Nowhere, DocksShown, Kinds
      <3>2. Nowhere(t, c)
        BY <2>1, <2>2, <3>1, <1>1, <1>9, <1>10 DEF PlacedIn, Nowhere, Undisturbed
      <3>3. t.client[c].state = "out" /\ t.client[c].drag = s.client[c].drag
        BY <2>2, <1>7, <1>8, <1>9, <1>11, <1>14
      <3>4. Fits(c, t.client[c], w)
        BY <2>1, <2>2, <3>3 DEF Fits, HasHome
      <3>5. Stays(s, t, c)
        <4>1. \A k \in Nat : ~InPlace(s, c, k)
          BY SMTT(60), <2>1, <2>2 DEF InPlace, PlacedIn, Nowhere, HeldAt, Place, Record
        <4> QED
          BY <4>1 DEF Stays
      <3> QED
        BY <3>2, <3>3, <3>4, <3>5 DEF PlacedIn
    <2>3. CASE s.client[c].state # "out"
      <3> DEFINE v == s.client[c].workspace
                 q == t.client[c]
      <3>1. PICK k \in Nat : InPlace(s, c, k)
        BY <2>1, <2>3 DEF PlacedIn
      <3>2. /\ v \in Workspaces /\ k \in 1..Len(s.monitors[v])
            /\ HeldAt(s, c, v, k, Place(s.client[c])) /\ Place(s.client[c]) \in Kinds
        BY <2>3, <3>1, AtIs DEF InPlace
      <3>3. /\ q.state = StateOn(u, w, c) /\ q.mode = s.client[c].mode
            /\ q.drag = s.client[c].drag
            /\ q.workspace = IF c \in DocksShown(s) THEN w ELSE v
        BY <1>7, <1>8, <1>9
      <3> HIDE DEF v, q
      <3>4. CASE c \in DocksShown(s)
        <4>1. c \in Docks /\ "dl" \in Kinds /\ s.client[c].mode = "dl"
          BY <1>2, <2>1, <2>3, <3>4 DEF Kinds, Fits
        <4>2. PICK j \in 1..Len(s.monitors[current]) : c \in s.monitors[current][j].holds["dl"]
          BY <3>4 DEF DocksShown
        <4>3. v = current /\ Place(s.client[c]) = "dl"
          BY <4>1, <4>2, <3>2 DEF HeldAt
        <4>4. s.client[c].state = "mapped"
          BY <4>3, <2>3 DEF Place
        <4>5. HeldAt(u, c, w, k, "dl")
          BY <4>3, <3>2, <3>4, <1>1
        <4>6. Holder(u.monitors[current], c) = 0
          BY <4>5, <1>1, NobodyHolds
        <4>7. q.state = "mapped" /\ q.workspace = w
          BY <4>4, <4>6, <3>3, <3>4, <1>4 DEF StateOn, HeldIn
        <4>8. HeldAt(t, c, w, k, Place(q))
          BY <4>1, <4>5, <4>7, <3>3, <1>9 DEF HeldAt, Place
        <4>9. k \in 1..Len(t.monitors[w])
          <5>1. Len(s.monitors[current]) = Len(s.monitors[w])
            BY SymmetricIs, 0 \in 0..Len(s.monitors[current])
          <5> QED
            BY <5>1, <4>3, <3>2, <1>10
        <4>10. InPlace(t, c, k)
          BY <4>7, <4>8, <4>9 DEF InPlace, q
        <4>11. PlacedIn(t, c)
          BY <4>7, <4>10, <3>1 DEF PlacedIn, q
        <4>12. Fits(c, q, w)
          BY <4>1, <4>7, <3>3, <2>1, <2>3 DEF Fits, HasHome
        <4> QED
          BY <4>1, <4>11, <4>12 DEF q
      <3>5. CASE c \notin DocksShown(s)
        <4>1. Undisturbed(s, t, c)
          BY <3>5, <1>1, <1>9 DEF Undisturbed
        <4>2. HeldAt(t, c, v, k, Place(s.client[c]))
          BY <4>1, <3>2, <1>10 DEF HeldAt, Undisturbed
        <4>3. HeldAt(u, c, v, k, Place(s.client[c])) /\ k \in 1..Len(u.monitors[v])
          BY <4>2, <3>2, <1>9, <1>10 DEF HeldAt
        <4>4. Holder(u.monitors[v], c) = k /\ k # 0
          BY <4>3, <3>2, <1>1, HeldIsHolder
        <4>5. ASSUME v # w PROVE Holder(u.monitors[w], c) = 0
          BY <4>3, <4>5, <3>2, <1>1, NobodyHolds
        <4>6. s.client[c].state = "mapped" => v = current
          BY <2>1 DEF Fits, v
        <4>7. u.client[c].state = s.client[c].state
          BY <1>4
        <4>8. \/ s.client[c].state = "mapped" /\ q.state = "going"
              \/ s.client[c].state = "unmapped" /\ v = w /\ q.state = "coming"
              \/ s.client[c].state = "unmapped" /\ q.state = "unmapped"
          <5>1. c \in HeldIn(u, v)
            BY <4>4 DEF HeldIn
          <5>2. v # w => c \notin HeldIn(u, w)
            BY <4>5 DEF HeldIn
          <5>3. s.client[c].state \in {"mapped", "unmapped"}
            BY <2>3
          <5> QED
            BY <5>1, <5>2, <5>3, <4>6, <4>7, <3>3 DEF StateOn, Mapped
        <4>9. Place(q) = Place(s.client[c]) /\ q.workspace = v
          BY <4>8, <3>3, <3>5 DEF Place
        <4>10. InPlace(t, c, k)
          BY <4>2, <4>9, <3>2, <1>10 DEF InPlace, q
        <4>11. PlacedIn(t, c)
          BY <4>8, <4>10 DEF PlacedIn, q
        <4>12. Fits(c, q, w)
          BY <4>8, <4>9, <3>2, <3>3, <2>1, <2>3 DEF Fits, HasHome
        <4>13. Stays(s, t, c)
          <5>1. \A j \in Nat : InPlace(s, c, j) => j = k
            BY <3>1, <2>3, AtIs
          <5> QED
            BY <5>1, <4>10 DEF Stays
        <4> QED
          BY <4>11, <4>12, <4>13 DEF q
      <3> QED
        BY <3>4, <3>5
    <2> QED
      BY <2>2, <2>3
  <1> QED
    BY <1>10, <1>13, <1>14, <1>15 DEF Sound, t

-----------------------------------------------------------------------------
(* Outputs, and a restart.                                                 *)

SameOutline(ms, ns) ==
  /\ Len(ms) = Len(ns)
  /\ \A i \in 1..Len(ms) :
       /\ ms[i].name = ns[i].name /\ ms[i].primary = ns[i].primary
       /\ ms[i].x = ns[i].x /\ ms[i].w = ns[i].w /\ ms[i].h = ns[i].h

(* All workspaces have the same monitors.                                  *)
Alike(s) == \A v, w \in Workspaces : SameOutline(s.monitors[v], s.monitors[w])

LEMMA StaysAlike ==
  ASSUME NEW s, NEW t, SameMonitors(s, t)
  PROVE  /\ Alike(s) => Alike(t)
         /\ \A w \in Workspaces : \A info : Follows(s.monitors[w], info) => Follows(t.monitors[w], info)
  <1>1. Alike(s) => Alike(t)
    BY DEF Alike, SameMonitors, SameOutline, SameShape
  <1>2. ASSUME NEW w \in Workspaces, NEW info, Follows(s.monitors[w], info)
        PROVE  Follows(t.monitors[w], info)
    <2>1. Len(t.monitors[w]) = Len(s.monitors[w])
      BY DEF SameMonitors, SameShape
    <2>2. \A i \in 1..Len(s.monitors[w]) : \A o :
            Matches(s.monitors[w][i], o) => Matches(t.monitors[w][i], o)
      BY DEF SameMonitors, SameShape, Matches
    <2> QED
      BY <2>1, <2>2, <1>2 DEF Follows
  <1> QED
    BY <1>1, <1>2

(* Monitors that are the outputs are the same everywhere.                  *)
LEMMA FollowersAlike ==
  ASSUME NEW p, NEW s, AllFit(Clients, p, Workspaces, s.monitors),
         NEW info, AreOutputs(p, info), \A w \in Workspaces : Follows(s.monitors[w], info)
  PROVE  Alike(s)
  <1> SUFFICES ASSUME NEW v \in Workspaces, NEW w \in Workspaces
               PROVE  SameOutline(s.monitors[v], s.monitors[w])
    BY DEF Alike
  <1> DEFINE ms == s.monitors[v]
             ns == s.monitors[w]
  <1>1. SameNames(ms, ns) /\ Follows(ms, info) /\ Follows(ns, info)
    BY DEF AllFit
  <1> HIDE DEF ms, ns
  <1>2. ASSUME NEW i \in 1..Len(ms)
        PROVE  /\ ms[i].name = ns[i].name /\ ms[i].primary = ns[i].primary
               /\ ms[i].x = ns[i].x /\ ms[i].w = ns[i].w /\ ms[i].h = ns[i].h
    <2>1. i \in 1..Len(ns) /\ ms[i].name = ns[i].name
      BY <1>1 DEF SameNames
    <2>2. PICK k \in 1..Len(info) : Matches(ms[i], info[k])
      BY <1>1 DEF Follows
    <2>3. PICK j \in 1..Len(info) : Matches(ns[i], info[j])
      BY <1>1, <2>1 DEF Follows
    <2>4. j = k
      BY <2>1, <2>2, <2>3 DEF Matches, AreOutputs
    <2> QED
      BY <2>1, <2>2, <2>3, <2>4 DEF Matches
  <1> QED
    BY <1>1, <1>2 DEF SameOutline, SameNames, ms, ns

LEMMA FillMonitorsIs ==
  ASSUME NEW p \in Names, NEW info, AreOutputs(p, info)
  PROVE  LET s == [monitors |-> FillMonitors(info), client |-> [c \in Clients |-> Windowless]]
         IN /\ Typed(p, s) /\ \A c \in Clients : Nowhere(s, c) /\ s.client[c] = Windowless
            /\ \A w \in Workspaces : Follows(s.monitors[w], info)
  <1> DEFINE ms == [i \in DOMAIN info |-> CreateMonitor(info[i])]
             all == FillMonitors(info)
             rs == [c \in Clients |-> Windowless]
             s == [monitors |-> all, client |-> rs]
  <1>1. info \in Seq(Output) /\ Len(info) \in Nat /\ DOMAIN info = 1..Len(info)
    BY DEF AreOutputs
  <1>2. ASSUME NEW o \in Output
        PROVE  /\ CreateMonitor(o) \in Monitor(Clients) /\ Matches(CreateMonitor(o), o)
               /\ CreateMonitor(o).name \in Names
               /\ \A l \in Kinds : \A c : c \notin CreateMonitor(o).holds[l]
    <2>1. Matches(CreateMonitor(o), o)
      BY DEF CreateMonitor, Matches
    <2> QED
      BY <2>1, CreateMonitorIs DEF Matches, Output
  <1>3. /\ ms \in Seq(Monitor(Clients)) /\ Len(ms) = Len(info)
        /\ \A i \in 1..Len(info) : ms[i] = CreateMonitor(info[i])
    BY <1>1, <1>2
  <1> HIDE DEF ms
  <1>4. /\ \A i \in 1..Len(info) : /\ Matches(ms[i], info[i]) /\ ms[i].name \in Names
                                   /\ \A l \in Kinds : \A c : c \notin ms[i].holds[l]
    BY <1>1, <1>2, <1>3
  <1>5. Fit(Clients, p, ms) /\ Follows(ms, info)
    BY <1>3, <1>4 DEF Fit, Follows, AreOutputs, Matches
  <1>6. all = [w \in Workspaces |-> ms]
    BY DEF FillMonitors, ms
  <1>7. AllFit(Clients, p, Workspaces, all)
    BY <1>5, <1>6 DEF AllFit, SameNames, Fit
  <1>8. rs \in [Clients -> Record] /\ \A c \in Clients : rs[c] = Windowless
    BY WindowlessIs
  <1> HIDE DEF rs, all
  <1>9. s \in State
    BY <1>7, <1>8 DEF State, AllFit
  <1>10. \A c \in Clients : HasHome(s.client[c])
    BY <1>8, WindowlessIs DEF HasHome
  <1>11. \A c \in Clients : Nowhere(s, c)
    BY <1>3, <1>4, <1>6 DEF Nowhere
  <1>12. \A w \in Workspaces : Follows(s.monitors[w], info)
    BY <1>5, <1>6
  <1> QED
    BY <1>7, <1>8, <1>9, <1>10, <1>11, <1>12 DEF Typed, all, rs

(* Who is in one list of one monitor, while no client is on two, is in the *)
(* same list of one monitor when the outputs have come and gone.           *)
LEMMA HeldThrough ==
  ASSUME NEW s \in State, NEW t \in State, NEW c \in Clients, NEW w \in Workspaces, NEW k,
         NEW l \in Kinds, k \in 1..Len(s.monitors[w]), HeldAt(s, c, w, k, l),
         \A v \in Workspaces : /\ SameHolds(Clients, s.monitors[v], t.monitors[v])
                               /\ Apart(Clients, s.monitors[v])
  PROVE  \E j \in 1..Len(t.monitors[w]) : HeldAt(t, c, w, j, l)
  <1>1. \A v \in Workspaces, m \in Kinds :
          Holds(t.monitors[v], m, c) <=> Holds(s.monitors[v], m, c)
    BY DEF SameHolds
  <1>2. \A v \in Workspaces, m \in Kinds :
          Holds(s.monitors[v], m, c) <=> (v = w /\ m = l)
    BY DEF Holds, HeldAt
  <1>3. PICK j \in 1..Len(t.monitors[w]) : c \in t.monitors[w][j].holds[l]
    BY <1>1, <1>2 DEF Holds
  <1>4. Apart(Clients, t.monitors[w])
    BY DEF SameHolds
  <1>5. ASSUME NEW v \in Workspaces, NEW i \in 1..Len(t.monitors[v]), NEW m \in Kinds
        PROVE  c \in t.monitors[v][i].holds[m] <=> (v = w /\ i = j /\ m = l)
    <2>1. ASSUME c \in t.monitors[v][i].holds[m] PROVE v = w /\ i = j /\ m = l
      <3>1. v = w /\ m = l
        BY <2>1, <1>1, <1>2 DEF Holds
      <3>2. i = j
        BY <2>1, <3>1, <1>3, <1>4 DEF Apart
      <3> QED
        BY <3>1, <3>2
    <2> QED
      BY <2>1, <1>3
  <1> QED
    BY <1>5 DEF HeldAt

LEMMA PlacedApart ==
  ASSUME NEW p, NEW s, Typed(p, s), \A c \in Clients : PlacedIn(s, c)
  PROVE  \A w \in Workspaces : Apart(Clients, s.monitors[w])
  <1> SUFFICES ASSUME NEW w \in Workspaces, NEW c \in Clients,
                      NEW i \in 1..Len(s.monitors[w]), NEW j \in 1..Len(s.monitors[w]),
                      NEW k \in Kinds, NEW l \in Kinds,
                      c \in s.monitors[w][i].holds[k], c \in s.monitors[w][j].holds[l]
               PROVE  i = j
    BY DEF Apart
  <1>1. CASE s.client[c].state = "out"
    BY <1>1 DEF PlacedIn, Nowhere
  <1>2. CASE s.client[c].state # "out"
    <2>1. PICK n \in Nat : InPlace(s, c, n)
      BY <1>2 DEF PlacedIn
    <2> QED
      BY <2>1 DEF InPlace, HeldAt
  <1> QED
    BY <1>1, <1>2

(* handle_screen_change_notify, before anything is arranged.               *)
LEMMA ScreenChangeIs ==
  ASSUME NEW p \in Names, NEW s, Typed(p, s), NEW info, AreOutputs(p, info), NEW pointer
  PROVE  LET t == [monitors |-> UpdateMonitors(s.monitors, First, info, pointer),
                   client |-> s.client]
         IN /\ Typed(p, t)
            /\ \A w \in Workspaces : Follows(t.monitors[w], info)
            /\ \A cur : Sound(p, cur, s) => Sound(p, cur, t)
  <1> DEFINE new == UpdateMonitors(s.monitors, First, info, pointer)
             t   == [monitors |-> new, client |-> s.client]
  <1>1. First \in Workspaces
    BY WorkspacesAssumption DEF First
  <1>2. AllFit(Clients, p, Workspaces, s.monitors) /\ s \in State
    BY DEF Typed
  <1>3. /\ AllFit(Clients, p, Workspaces, new)
        /\ \A w \in Workspaces : SameHolds(Clients, s.monitors[w], new[w])
        /\ \A w \in Workspaces : Follows(new[w], info)
    BY <1>1, <1>2, UpdateMonitorsFollows
  <1> HIDE DEF new
  <1>4. t \in State /\ t.monitors = new /\ t.client = s.client
    BY <1>2, <1>3 DEF State, AllFit
  <1> HIDE DEF t
  <1>5. Typed(p, t)
    BY <1>3, <1>4 DEF Typed
  <1>6. ASSUME NEW cur, Sound(p, cur, s), NEW c \in Clients PROVE PlacedIn(t, c)
    <2>1. PlacedIn(s, c) /\ \A w \in Workspaces : Apart(Clients, s.monitors[w])
      BY <1>6, PlacedApart DEF Sound
    <2>2. CASE s.client[c].state = "out"
      <3>1. \A w \in Workspaces, l \in Kinds : ~Holds(s.monitors[w], l, c)
        BY <2>1, <2>2 DEF PlacedIn, Nowhere, Holds
      <3>2. \A w \in Workspaces, l \in Kinds : ~Holds(t.monitors[w], l, c)
        BY <3>1, <1>3, <1>4 DEF SameHolds
      <3> QED
        BY <3>2, <2>2, <1>4 DEF PlacedIn, Nowhere, Holds
    <2>3. CASE s.client[c].state # "out"
      <3> DEFINE w == s.client[c].workspace
                 l == Place(s.client[c])
      <3>1. PICK k \in Nat : InPlace(s, c, k)
        BY <2>1, <2>3 DEF PlacedIn
      <3>2. /\ w \in Workspaces /\ k \in 1..Len(s.monitors[w]) /\ l \in Kinds
            /\ HeldAt(s, c, w, k, l)
        BY <2>3, <3>1, AtIs DEF InPlace
      <3> HIDE DEF w, l
      <3>3. PICK j \in 1..Len(t.monitors[w]) : HeldAt(t, c, w, j, l)
        BY <3>2, <2>1, <1>2, <1>3, <1>4, HeldThrough
      <3>4. InPlace(t, c, j) /\ j \in Nat
        BY <3>2, <3>3, <1>4 DEF InPlace, w, l
      <3> QED
        BY <3>4, <2>3, <1>4 DEF PlacedIn
    <2> QED
      BY <2>2, <2>3
  <1> QED
    BY <1>3, <1>4, <1>5, <1>6 DEF Sound, t, new

(* One turn of the loop of manage_existing.                                *)
LEMMA AdoptIs ==
  ASSUME NEW p, NEW e, e.client \in [Clients -> Record],
         \A c \in Clients : HasHome(e.client[c]),
         NEW s, Typed(p, s), NEW c \in Clients, Nowhere(s, c), s.client[c] = Windowless
  PROVE  LET t == Adopt(e, s, c)
         IN /\ Touches(s, t, c) /\ HasHome(t.client[c]) /\ t.client[c].drag = "no"
            /\ PlacedIn(t, c) /\ Fits(c, t.client[c], e.current)
  <1> DEFINE r     == e.client[c]
             q     == [Windowless EXCEPT !.prop = r.prop]
             known == WithRecord(s, c, q)
             w     == r.workspace
             state == IF w = e.current THEN "mapped" ELSE "unmapped"
             l     == StartList(c, state)
             t     == Adopt(e, s, c)
  <1>1. CASE r.state = "out"
    <2>1. t = s
      BY <1>1 DEF Adopt
    <2> HIDE DEF t
    <2>2. Touches(s, s, c)
      BY SameMonitorsReflexive DEF Touches, Typed
    <2>3. /\ HasHome(Windowless) /\ Fits(c, Windowless, e.current)
          /\ Windowless.state = "out" /\ Windowless.drag = "no"
      BY WindowlessIs DEF HasHome, Fits
    <2>4. PlacedIn(s, c)
      BY <2>3 DEF PlacedIn
    <2> QED
      BY <2>1, <2>2, <2>3, <2>4 DEF t
  <1>2. CASE r.state # "out"
    <2>1. r \in Record /\ w \in Workspaces /\ s \in State
      BY <1>2 DEF HasHome, Typed
    <2>2. q \in Record /\ q.state = "out"
      BY <2>1, WindowlessIs DEF Record
    <2>3. t = StartManage(known, c, w, l, state, None, e.pointer)
      <3>1. known = [s EXCEPT !.client[c] = [Windowless EXCEPT !.prop = r.prop]]
        BY DEF WithRecord
      <3> HIDE DEF known
      <3> QED
        BY <3>1, <1>2 DEF Adopt, StartList
    <2> HIDE DEF q, t
    <2>4. /\ Touches(s, known, c) /\ known.client[c] = q
          /\ Nowhere(s, c) => Nowhere(known, c)
      BY <2>1, <2>2, RecordTouches
    <2> HIDE DEF known
    <2>5. HasHome(known.client[c])
      BY <2>2, <2>4 DEF HasHome
    <2>6. Typed(p, known)
      BY <2>4, <2>5, OneTouched
    <2>7. state \in States /\ state # "out" /\ l = StartList(c, state)
      BY DEF States
    <2>12. w \in Workspaces
      BY <2>1
    <2> HIDE DEF w
    <2>8. state \in {"coming", "mapped"} => w = e.current
      OBVIOUS
    <2> HIDE DEF state, l
    <2>9. None # None => None \in Clients /\ known.client[None].workspace = w
      OBVIOUS
    <2>10. /\ Touches(known, t, c) /\ HasHome(t.client[c])
           /\ t.client[c].drag = "no"
           /\ Nowhere(known, c) => PlacedIn(t, c)
           /\ Fits(c, t.client[c], e.current)
      <3>1. Started(known, t, c, w, state)
        BY <2>3, <2>6, <2>7, <2>9, <2>12, StartManageIs
      <3> QED
        BY <3>1, <2>8 DEF Started
    <2>11. Touches(s, t, c)
      BY <2>4, <2>10, TouchesTransitive
    <2> QED
      BY <2>4, <2>8, <2>10, <2>11 DEF t
  <1> QED
    BY <1>1, <1>2

(* manage_existing, when the monitors are the outputs and nobody is in a   *)
(* list: each window is adopted where its properties say, in any order.    *)
LEMMA ManageExistingIs ==
  ASSUME NEW p \in Names, NEW info, AreOutputs(p, info),
         NEW e, e.client \in [Clients -> Record], \A c \in Clients : HasHome(e.client[c])
  PROVE  LET bare == [monitors |-> FillMonitors(info), client |-> [c \in Clients |-> Windowless]]
             t    == ManageExisting!Over(e, bare, Clients)
         IN /\ Sound(p, e.current, t)
            /\ \A w \in Workspaces : Follows(t.monitors[w], info)
            /\ \A c \in Clients : t.client[c].drag = "no"
  <1> DEFINE bare == [monitors |-> FillMonitors(info), client |-> [c \in Clients |-> Windowless]]
             Done(t, c) == /\ PlacedIn(t, c) /\ Fits(c, t.client[c], e.current)
                           /\ t.client[c].drag = "no"
             Left(t, c) == Nowhere(t, c) /\ t.client[c] = Windowless
             Follow(t)  == \A w \in Workspaces : Follows(t.monitors[w], info)
             Good(t, T) == /\ Typed(p, t) /\ Follow(t)
                           /\ \A c \in T : Done(t, c)
                           /\ \A c \in Clients \ T : Left(t, c)
             Stage == [T \in SUBSET Clients |-> {t \in State : Good(t, T)}]
  <1>1. bare \in State /\ Good(bare, {})
    BY FillMonitorsIs DEF Typed
  <1> HIDE DEF bare
  <1>2. ASSUME NEW T \in SUBSET Clients, NEW c \in Clients \ T, NEW s \in State, Good(s, T)
        PROVE  Adopt(e, s, c) \in State /\ Good(Adopt(e, s, c), T \cup {c})
    <2> DEFINE t == Adopt(e, s, c)
    <2>1. Typed(p, s) /\ Follow(s) /\ Left(s, c)
      BY <1>2
    <2>2. /\ Touches(s, t, c) /\ HasHome(t.client[c]) /\ t.client[c].drag = "no"
          /\ PlacedIn(t, c) /\ Fits(c, t.client[c], e.current)
      BY <2>1, AdoptIs
    <2> HIDE DEF t
    <2>3. Typed(p, t) /\ t \in State
      BY <2>1, <2>2, OneTouched DEF Touches
    <2>4. Follow(t)
      BY <2>1, <2>2, StaysAlike DEF Touches
    <2>5. Done(t, c)
      BY <2>2
    <2>6. ASSUME NEW d \in T PROVE Done(t, d)
      <3>1. d \in Clients \ {c} /\ Done(s, d)
        BY <1>2
      <3>2. /\ Undisturbed(s, t, d) /\ t.client[d] = s.client[d] /\ SameMonitors(s, t)
            /\ SameButBox(s.client[d], t.client[d])
        BY <3>1, <2>2 DEF Touches, SameButBox
      <3> QED
        BY <3>1, <3>2, StaysInPlace
    <2>7. ASSUME NEW d \in Clients \ (T \cup {c}) PROVE Left(t, d)
      <3>1. Left(s, d) /\ Undisturbed(s, t, d) /\ t.client[d] = s.client[d]
        BY <1>2, <2>2 DEF Touches
      <3>2. \A w \in Workspaces : Len(t.monitors[w]) = Len(s.monitors[w])
        BY <2>2, SameLengths
      <3> QED
        BY <3>1, <3>2 DEF Nowhere, Undisturbed
    <2> HIDE DEF Done, Left, Follow
    <2>8. Good(t, T \cup {c})
      BY <2>3, <2>4, <2>5, <2>6, <2>7
    <2> QED
      BY <2>3, <2>8 DEF t
  <1> HIDE DEF Good
  <1>3. /\ bare \in Stage[{}]
        /\ \A T \in SUBSET Clients : \A c \in Clients \ T : \A t \in Stage[T] :
             Adopt(e, t, c) \in Stage[T \cup {c}]
    BY <1>1, <1>2
  <1> HIDE DEF Stage
  <1>4. ManageExisting!Over(e, bare, Clients) \in Stage[Clients]
    <2>1. ManageExisting!IsFiniteSet(Clients)
      BY KindsOfWindow DEF IsFiniteSet, ManageExisting!IsFiniteSet
    <2> QED
      BY <1>3, <2>1, ManageExisting!OverStages
  <1>5. Good(ManageExisting!Over(e, bare, Clients), Clients)
    BY <1>4 DEF Stage
  <1> QED
    BY <1>5 DEF Good, Sound, bare

-----------------------------------------------------------------------------
(* The invariants.                                                         *)

(* The output that is the primary one in all layouts of this setup.        *)
Primary(su) == CHOOSE p \in Names : \A outputs \in su.layouts : AreOutputs(p, outputs)

(* Types, and the monitors: they are the same in all workspaces and are    *)
(* the outputs, unless there is an event to be read.                       *)
TypeInv ==
  /\ setup \in Setups /\ server \in setup.layouts /\ notified \in BOOLEAN
  /\ current \in Workspaces /\ grab \in Clients \cup {None}
  /\ Typed(Primary(setup), Now) /\ Alike(Now)
  /\ ~notified => \A w \in Workspaces : Follows(monitors[w], server)

(* Every client in its place.                                              *)
Inv ==
  /\ TypeInv
  /\ Sound(Primary(setup), current, Now) /\ Reached(current, Now)
  /\ DragHasGrab

(* What the run screens_float shows: toggle-float is pressed for a floating *)
(* window whose corner is on no monitor, and no list takes it.             *)
TogglesAway ==
  \E c \in Clients :
    /\ ToggleFloat(c) /\ client[c].mode = "fl"
    /\ AtPosition(monitors[current], client[c].box.x, client[c].box.y) = 0

LEMMA PrimaryOf ==
  ASSUME NEW su \in Setups
  PROVE  Primary(su) \in Names /\ \A outputs \in su.layouts : AreOutputs(Primary(su), outputs)
  BY SetupsAssumption DEF Primary

LEMMA BecomeIs ==
  ASSUME NEW s \in State, Become(s)
  PROVE  Now' = s
  BY DEF Become, Now, State

LEMMA NowIs ==
  /\ Now.monitors = monitors /\ Now.client = client
  /\ Now'.monitors = monitors' /\ Now'.client = client'
  BY DEF Now

LEMMA ReachedAlike ==
  ASSUME NEW p, NEW s, NEW t, Typed(p, s), Typed(p, t), SameMonitors(s, t), NEW w \in Workspaces, NEW b
  PROVE  InReach(s.monitors[w], b) => InReach(t.monitors[w], b)
  <1> DEFINE ms == s.monitors[w]
             ns == t.monitors[w]
  <1>1. SameShape(ms, ns) /\ ms \in Seq(Monitor(Clients)) /\ ns \in Seq(Monitor(Clients))
    BY DEF SameMonitors, Typed, State
  <1> HIDE DEF ms, ns
  <1>2. /\ Len(ms) = Len(ns) /\ DOMAIN ms = 1..Len(ms) /\ DOMAIN ns = 1..Len(ms)
        /\ \A i \in 1..Len(ms) :
             ms[i].x = ns[i].x /\ ms[i].y = ns[i].y /\ ms[i].w = ns[i].w /\ ms[i].h = ns[i].h
    BY <1>1 DEF SameShape
  <1>3. ms = <<>> <=> ns = <<>>
    BY <1>1, <1>2
  <1>4. /\ {m.x : m \in All(ms)} = {m.x : m \in All(ns)}
        /\ {m.y : m \in All(ms)} = {m.y : m \in All(ns)}
        /\ {m.x + m.w : m \in All(ms)} = {m.x + m.w : m \in All(ns)}
        /\ {m.y + m.h : m \in All(ms)} = {m.y + m.h : m \in All(ns)}
    BY <1>2 DEF All
  <1>5. /\ SmallestX(ms) = SmallestX(ns) /\ SmallestY(ms) = SmallestY(ns)
        /\ LargestX(ms) = LargestX(ns) /\ LargestY(ms) = LargestY(ns)
    BY <1>3, <1>4 DEF SmallestX, SmallestY, LargestX, LargestY
  <1> QED
    BY <1>5 DEF InReach, InBounds, ms, ns

(* What is true of a step that is about one client.                        *)
LEMMA OneStep ==
  ASSUME TypeInv, NEW c \in Clients, NEW t, Touches(Now, t, c), HasHome(t.client[c]),
         NEW u, u = t \/ u = Arranged(t, current), Become(u),
         UNCHANGED <<setup, server, notified, current>>, grab' \in Clients \cup {None}
  PROVE  /\ TypeInv' /\ Now' = u /\ SameMonitors(Now, u)
         /\ \A d \in Clients \ {c} : Stays(Now, u, d) /\ SameButBox(client[d], u.client[d])
         /\ SameButBox(t.client[c], u.client[c])
         /\ Stays(Now, t, c) => Stays(Now, u, c)
         /\ Sound(Primary(setup), current, Now) /\ Handled(Primary(setup), current, Now, t, c)
              => /\ Sound(Primary(setup), current, u)
                 /\ u = Arranged(t, current) => Reached(current, u)
  <1> DEFINE p == Primary(setup)
  <1>1. /\ Typed(p, Now) /\ Alike(Now) /\ current \in Workspaces
        /\ ~notified => \A w \in Workspaces : Follows(monitors[w], server)
    BY DEF TypeInv
  <1> HIDE DEF p
  <1>2. /\ Typed(p, t) /\ SameMonitors(Now, t)
        /\ \A d \in Clients \ {c} : Stays(Now, t, d) /\ t.client[d] = Now.client[d]
        /\ Sound(p, current, Now) /\ PlacedIn(t, c) /\ Fits(c, t.client[c], current)
             => Sound(p, current, t)
    BY <1>1, OneTouched DEF Touches
  <1>3. /\ Typed(p, u) /\ u.monitors = t.monitors
        /\ \A d \in Clients : Stays(t, u, d) /\ SameButBox(t.client[d], u.client[d])
        /\ Sound(p, current, t) =>
             Sound(p, current, u) /\ (u = Arranged(t, current) => Reached(current, u))
    <2>1. CASE u = Arranged(t, current)
      BY <2>1, <1>1, <1>2, ArrangedSound
    <2>2. CASE u # Arranged(t, current)
      BY <2>2, <1>2 DEF Stays, SameButBox
    <2> QED
      BY <2>1, <2>2
  <1>4. Now' = u
    BY <1>3, BecomeIs DEF Typed
  <1>5. SameMonitors(Now, u)
    BY <1>2, <1>3 DEF SameMonitors
  <1>6. \A d \in Clients \ {c} : Stays(Now, u, d) /\ SameButBox(client[d], u.client[d])
    BY <1>2, <1>3, NowIs DEF Stays
  <1>7. Stays(Now, t, c) => Stays(Now, u, c)
    BY <1>3 DEF Stays
  <1>8. ASSUME Sound(p, current, Now), Handled(p, current, Now, t, c)
        PROVE  Sound(p, current, u) /\ (u = Arranged(t, current) => Reached(current, u))
    BY <1>2, <1>3, <1>8 DEF Handled
  <1>9. Alike(u)
    BY <1>1, <1>5, StaysAlike
  <1>10. ~notified => \A w \in Workspaces : Follows(u.monitors[w], server)
    BY <1>1, <1>5, StaysAlike, NowIs
  <1>11. TypeInv'
    <2>1. u.monitors = monitors'
      BY <1>4, NowIs
    <2> QED
      BY <1>3, <1>4, <1>9, <1>10, <2>1 DEF TypeInv, p
  <1> QED
    BY <1>3, <1>4, <1>5, <1>6, <1>7, <1>8, <1>11 DEF p

(* No step but a button press starts a drag.                               *)
LEMMA DragStep ==
  ASSUME DragHasGrab, grab' = grab \/ EndGrab,
         \A d \in Clients : client'[d].state = "mapped" /\ client'[d].drag # "no"
                              => client[d].state = "mapped" /\ client[d].drag # "no"
  PROVE  DragHasGrab'
  <1> SUFFICES ASSUME NEW d \in Clients, client'[d].state = "mapped", client'[d].drag # "no"
               PROVE  grab' = d
    BY NowIs DEF DragHasGrab, Mapped
  <1>1. grab = d
    BY NowIs DEF DragHasGrab, Mapped
  <1>2. d # None
    BY KindsOfWindow
  <1> QED
    BY <1>1, <1>2 DEF EndGrab

LEMMA ReachedStep ==
  ASSUME TypeInv, Reached(current, Now), TypeInv', SameMonitors(Now, Now'), current' = current,
         setup' = setup,
         \A d \in Clients : client'[d].state = "mapped" /\ client'[d].mode = "fl"
           => /\ client[d].state = "mapped" /\ client[d].mode = "fl"
              /\ InReach(monitors[current], client[d].box)
                   => InReach(monitors[current], client'[d].box)
  PROVE  Reached(current', Now')
  <1> SUFFICES ASSUME NEW d \in Clients, client'[d].state = "mapped", client'[d].mode = "fl"
               PROVE  InReach(monitors'[current], client'[d].box)
    BY NowIs DEF Reached
  <1>1. InReach(monitors[current], client'[d].box)
    BY NowIs DEF Reached
  <1>2. Typed(Primary(setup), Now) /\ Typed(Primary(setup), Now') /\ current \in Workspaces
    BY DEF TypeInv
  <1> QED
    BY <1>1, <1>2, NowIs, ReachedAlike

(* The client is on the monitor it was on, if it is one still.             *)
StaysHere(d) ==
  client[d].state # "out" /\ client'[d].state # "out"
    => Stays(Now, Now', d) /\ SameMonitors(Now, Now')

LEMMA MapRequestStep ==
  ASSUME TypeInv, NEW c \in Clients, MapRequest(c)
  PROVE  TypeInv' /\ (Inv => Inv' /\ \A d \in Clients : StaysHere(d))
  <1>1. PICK focus \in {d \in Clients : FocusMayBe(d)} \cup {None}, pointer \in Pointers :
          Become(HandleMapRequest(Now, c, focus, pointer))
    BY DEF MapRequest
  <1>2. client[c].state = "out" /\ Same
    BY DEF MapRequest
  <1> DEFINE t == StartManage(Now, c, current, "ul", "coming", focus, pointer)
             p == Primary(setup)
  <1>3. Become(t)
    BY <1>1 DEF HandleMapRequest
  <1>4. Started(Now, t, c, current, "coming")
    <2>1. focus # None => focus \in Clients /\ Now.client[focus].workspace = current
      BY NowIs DEF FocusMayBe
    <2>2. Typed(p, Now) /\ current \in Workspaces
      BY DEF TypeInv
    <2>3. "coming" \in States /\ "coming" # "out" /\ "ul" = StartList(c, "coming")
      BY DEF States, StartList
    <2> HIDE DEF t, p
    <2> QED
      BY <2>1, <2>2, <2>3, StartManageIs DEF t
  <1> HIDE DEF t
  <1>5. /\ Touches(Now, t, c) /\ HasHome(t.client[c]) /\ t.client[c].state \in {"out", "coming"}
        /\ Nowhere(Now, c) => PlacedIn(t, c)
        /\ Fits(c, t.client[c], current)
    BY <1>4 DEF Started
  <1>6. UNCHANGED <<setup, server, notified, current>> /\ grab' = grab
    BY <1>2 DEF Same
  <1>7. grab' \in Clients \cup {None}
    BY <1>6 DEF TypeInv
  <1>8. /\ TypeInv' /\ Now' = t /\ SameMonitors(Now, t)
        /\ \A d \in Clients \ {c} : Stays(Now, t, d)
        /\ Sound(p, current, Now) /\ Handled(p, current, Now, t, c) => Sound(p, current, t)
    BY <1>3, <1>5, <1>6, <1>7, OneStep
  <1> HIDE DEF p
  <1>9. ASSUME Inv PROVE Inv' /\ \A d \in Clients : StaysHere(d)
    <2>1. Sound(p, current, Now) /\ Reached(current, Now) /\ DragHasGrab
      BY <1>9 DEF Inv, p
    <2>2. Nowhere(Now, c)
      BY <1>2, <2>1, NowIs DEF Sound, PlacedIn
    <2>3. Handled(p, current, Now, t, c)
      BY <1>5, <2>2 DEF Handled
    <2>4. Sound(Primary(setup'), current', Now')
      BY <1>6, <1>8, <2>1, <2>3 DEF p
    <2>5. \A d \in Clients \ {c} : client'[d] = client[d]
      BY <1>5, <1>8, NowIs DEF Touches
    <2>6. client'[c].state \in {"out", "coming"}
      BY <1>5, <1>8, NowIs
    <2>7. Reached(current', Now')
      BY <1>6, <1>8, <2>1, <2>5, <2>6, ReachedStep
    <2>8. DragHasGrab'
      BY <1>6, <2>1, <2>5, <2>6, DragStep
    <2>9. \A d \in Clients : StaysHere(d)
      BY <1>2, <1>8 DEF StaysHere
    <2> QED
      BY <1>8, <2>4, <2>7, <2>8, <2>9 DEF Inv
  <1> QED
    BY <1>8, <1>9

(* A step that is about c and ends in arrange_monitors.                    *)
LEMMA ArrangedStep ==
  ASSUME TypeInv, NEW c \in Clients, NEW t, Touches(Now, t, c), HasHome(t.client[c]),
         Become(Arranged(t, current)), UNCHANGED <<setup, server, notified, current>>,
         grab' \in Clients \cup {None}
  PROVE  /\ TypeInv'
         /\ /\ Inv /\ Handled(Primary(setup), current, Now, t, c)
            /\ grab' = grab \/ EndGrab
            /\ t.client[c].state = "mapped" /\ t.client[c].drag # "no"
                 => client[c].state = "mapped" /\ client[c].drag # "no"
            => Inv' /\ \A d \in Clients \ {c} : StaysHere(d)
         /\ Stays(Now, t, c) => StaysHere(c)
         /\ client'[c].state = t.client[c].state
  <1> DEFINE u == Arranged(t, current)
             p == Primary(setup)
  <1>1. /\ TypeInv' /\ Now' = u /\ SameMonitors(Now, u)
        /\ \A d \in Clients \ {c} : Stays(Now, u, d) /\ SameButBox(client[d], u.client[d])
        /\ SameButBox(t.client[c], u.client[c])
        /\ Stays(Now, t, c) => Stays(Now, u, c)
        /\ Sound(p, current, Now) /\ Handled(p, current, Now, t, c)
             => Sound(p, current, u) /\ Reached(current, u)
    BY OneStep
  <1> HIDE DEF u, p
  <1>2. u.client = client'
    BY <1>1, NowIs
  <1>3. ASSUME Inv, Handled(p, current, Now, t, c), grab' = grab \/ EndGrab,
               t.client[c].state = "mapped" /\ t.client[c].drag # "no"
                 => client[c].state = "mapped" /\ client[c].drag # "no"
        PROVE  Inv' /\ \A d \in Clients \ {c} : StaysHere(d)
    <2>1. Sound(p, current, Now) /\ DragHasGrab
      BY <1>3 DEF Inv, p
    <2>2. Sound(Primary(setup'), current', Now') /\ Reached(current', Now')
      BY <1>1, <1>3, <2>1 DEF p
    <2>3. \A d \in Clients : client'[d].state = "mapped" /\ client'[d].drag # "no"
                               => client[d].state = "mapped" /\ client[d].drag # "no"
      BY <1>1, <1>2, <1>3 DEF SameButBox
    <2>4. DragHasGrab'
      BY <1>3, <2>1, <2>3, DragStep
    <2>5. \A d \in Clients \ {c} : StaysHere(d)
      BY <1>1 DEF StaysHere
    <2> QED
      BY <1>1, <2>2, <2>4, <2>5 DEF Inv
  <1> QED
    BY <1>1, <1>2, <1>3 DEF SameButBox, StaysHere, p

LEMMA NowTyped ==
  ASSUME TypeInv
  PROVE  /\ Typed(Primary(setup), Now) /\ current \in Workspaces /\ Now \in State
         /\ \A c \in Clients : client[c] \in Record
         /\ grab \in Clients \cup {None}
  BY NowIs DEF TypeInv, Typed, State

LEMMA NowSound ==
  ASSUME Inv
  PROVE  /\ Sound(Primary(setup), current, Now)
         /\ \A c \in Clients : PlacedIn(Now, c) /\ Fits(c, client[c], current)
  BY NowIs DEF Inv, Sound

LEMMA MapNotifyStep ==
  ASSUME TypeInv, NEW c \in Clients, MapNotify(c)
  PROVE  TypeInv' /\ (Inv => Inv' /\ \A d \in Clients \ Docks : StaysHere(d))
  <1> DEFINE w     == client[c].workspace
             k     == At(Now, c)
             shown == Give(Take([Now EXCEPT !.client[c].state = "mapped"], w, k, "ul", c),
                           w, k, client[c].mode, c)
             to    == MostOf(monitors[w], DockBox, k)
             moved == IF c \notin Docks THEN shown ELSE MoveToMonitor(shown, w, c, k, to)
             p     == Primary(setup)
  <1>1. /\ client[c].state = "coming" /\ Become(Arranged(moved, current))
        /\ UNCHANGED <<setup, server, notified, current>> /\ grab' = grab
    BY NowIs DEF MapNotify, HandleMapNotify, Same
  <1>2. /\ Typed(p, Now) /\ client[c] \in Record /\ grab' \in Clients \cup {None}
    BY <1>1, NowTyped
  <1>3. /\ Handled(p, current, Now, shown, c)
        /\ Sound(p, current, Now) => Stays(Now, shown, c)
        /\ shown.client[c] = [client[c] EXCEPT !.state = "mapped"]
    BY <1>1, <1>2, NowIs, MapNotifyShows
  <1> HIDE DEF shown, p
  <1>4. /\ shown.client[c].state = "mapped" /\ shown.client[c].drag = client[c].drag
        /\ shown.client[c].workspace = w /\ shown.client[c].mode = client[c].mode
    BY <1>2, <1>3 DEF Record
  <1>5. Typed(p, shown) /\ Touches(Now, shown, c) /\ HasHome(shown.client[c])
    BY <1>2, <1>3, OneTouched DEF Handled
  <1>6. /\ w \in Workspaces /\ monitors[w] \in Seq(Monitor(Clients)) /\ k \in 0..Len(monitors[w])
    BY <1>1, <1>2, NowIs, AtIs
  <1>7. to \in 0..Len(monitors[w])
    BY <1>6, MostOfIs
  <1> HIDE DEF to, k, w
  <1>8. /\ Touches(Now, moved, c) /\ moved.client[c] = shown.client[c]
        /\ Inv => PlacedIn(moved, c)
    <2>1. CASE c \notin Docks
      <3>1. Inv => PlacedIn(shown, c)
        BY <1>3, NowSound DEF Handled, p
      <3> QED
        BY <2>1, <3>1, <1>5
    <2>2. CASE c \in Docks
      <3>1. Len(shown.monitors[w]) = Len(monitors[w])
        BY <1>5, <1>6, SameLengths, NowIs
      <3>2. moved = MoveToMonitor(shown, shown.client[c].workspace, c, k, to)
        BY <2>2, <1>4
      <3>3. /\ k \in 0..Len(shown.monitors[shown.client[c].workspace])
            /\ to \in 0..Len(shown.monitors[shown.client[c].workspace])
        BY <3>1, <1>4, <1>6, <1>7
      <3> HIDE DEF moved
      <3>4. /\ Touches(shown, moved, c) /\ moved.client[c] = shown.client[c]
            /\ InPlace(shown, c, k) => PlacedIn(moved, c)
        BY <3>2, <3>3, <1>4, <1>5, MoveToMonitorIs
      <3>5. Touches(Now, moved, c)
        BY <3>4, <1>5, TouchesTransitive
      <3>6. Inv => InPlace(shown, c, k)
        <4>1. Inv => Stays(Now, shown, c) /\ PlacedIn(Now, c)
          BY <1>3, NowSound DEF p
        <4>2. PlacedIn(Now, c) => InPlace(Now, c, k)
          BY <1>1, <1>2, NowIs, AtIs DEF k
        <4> QED
          BY <4>1, <4>2, <1>6 DEF Stays
      <3> QED
        BY <3>4, <3>5, <3>6
    <2> QED
      BY <2>1, <2>2
  <1>9. c \notin Docks => moved = shown
    OBVIOUS
  <1> HIDE DEF moved
  <1>10. HasHome(moved.client[c])
    BY <1>5, <1>8
  <1>11. Inv => /\ Handled(p, current, Now, moved, c)
                /\ moved.client[c].drag = "no"
    <2>1. Inv => Fits(c, shown.client[c], current) /\ client[c].drag = "no"
      BY <1>1, <1>3, NowSound DEF Handled, Fits, p
    <2> QED
      BY <2>1, <1>4, <1>8, <1>10 DEF Handled
  <1>12. TypeInv' /\ (Stays(Now, moved, c) => StaysHere(c))
    BY <1>1, <1>2, <1>8, <1>10, ArrangedStep
  <1>13. Inv => Inv' /\ \A d \in Clients \ {c} : StaysHere(d)
    BY <1>1, <1>2, <1>8, <1>10, <1>11, ArrangedStep DEF p
  <1>14. Inv /\ c \notin Docks => StaysHere(c)
    BY <1>3, <1>9, <1>12, NowSound DEF p
  <1> QED
    BY <1>12, <1>13, <1>14

LEMMA UnmapNotifyStep ==
  ASSUME TypeInv, NEW c \in Clients, UnmapNotify(c)
  PROVE  TypeInv' /\ (Inv => Inv' /\ \A d \in Clients : StaysHere(d))
  <1> DEFINE w == client[c].workspace
             k == At(Now, c)
             t == Give(Take([Now EXCEPT !.client[c] = [NoRecord(@) EXCEPT !.state = "unmapped"]],
                            w, k, client[c].mode, c), w, k, "ul", c)
             p == Primary(setup)
  <1>1. /\ client[c].state = "going" /\ Become(Arranged(t, current))
        /\ UNCHANGED <<setup, server, notified, current>> /\ grab' = grab
    BY NowIs DEF UnmapNotify, HandleUnmapNotify, Same
  <1>2. Typed(p, Now) /\ grab' \in Clients \cup {None}
    BY <1>1, NowTyped
  <1>3. /\ Handled(p, current, Now, t, c)
        /\ Sound(p, current, Now) => Stays(Now, t, c)
        /\ t.client[c].state = "unmapped"
    BY <1>1, <1>2, NowIs, UnmapNotifyHides
  <1> HIDE DEF t
  <1>4. /\ TypeInv' /\ (Stays(Now, t, c) => StaysHere(c))
        /\ Inv => Inv' /\ \A d \in Clients \ {c} : StaysHere(d)
    BY <1>1, <1>2, <1>3, ArrangedStep DEF Handled
  <1> QED
    BY <1>3, <1>4, NowSound

LEMMA ConfigureRequestStep ==
  ASSUME TypeInv, NEW c \in Clients, ConfigureRequest(c)
  PROVE  TypeInv' /\ (Inv => Inv' /\ \A d \in Clients \ Docks : StaysHere(d))
  <1> DEFINE w  == client[c].workspace
             k  == At(Now, c)
             to == MostOf(monitors[w], DockBox, k)
             t  == MoveToMonitor(Now, w, c, k, to)
             p  == Primary(setup)
  <1>1. /\ c \in Docks /\ client[c].state = "mapped" /\ Become(Arranged(t, current))
        /\ UNCHANGED <<setup, server, notified, current>> /\ grab' = grab
    BY NowIs DEF ConfigureRequest, Same, Mapped
  <1>2. Typed(p, Now) /\ grab' \in Clients \cup {None}
    BY <1>1, NowTyped
  <1> HIDE DEF p
  <1>3. /\ monitors[w] \in Seq(Monitor(Clients)) /\ k \in 0..Len(monitors[w])
        /\ PlacedIn(Now, c) => InPlace(Now, c, k)
        /\ w \in Workspaces
    BY <1>1, <1>2, NowIs, AtIs
  <1>4. to \in 0..Len(monitors[w])
    BY <1>3, MostOfIs
  <1> HIDE DEF to, k
  <1>5. /\ Touches(Now, t, c) /\ t.client[c] = Now.client[c]
        /\ InPlace(Now, c, k) => PlacedIn(t, c)
    <2>1. Now.client[c].state # "out" /\ w = Now.client[c].workspace
      BY <1>1, NowIs
    <2>3. t = MoveToMonitor(Now, Now.client[c].workspace, c, k, to)
      BY <2>1
    <2>2. /\ k \in 0..Len(Now.monitors[Now.client[c].workspace])
          /\ to \in 0..Len(Now.monitors[Now.client[c].workspace])
      BY <1>3, <1>4, NowIs
    <2> HIDE DEF t
    <2> QED
      BY <2>1, <2>2, <2>3, <1>2, MoveToMonitorIs
  <1> HIDE DEF t
  <1>6. HasHome(t.client[c])
    BY <1>3, <1>5, NowIs DEF HasHome
  <1>7. Inv => Handled(p, current, Now, t, c)
    BY <1>3, <1>5, <1>6, NowSound, NowIs DEF Handled
  <1>8. /\ TypeInv'
        /\ Inv => Inv' /\ \A d \in Clients \ {c} : StaysHere(d)
    BY <1>1, <1>2, <1>5, <1>6, <1>7, NowIs, ArrangedStep DEF p
  <1> QED
    BY <1>1, <1>8

LEMMA CloseStep ==
  ASSUME TypeInv, NEW c \in Clients, Close(c)
  PROVE  TypeInv' /\ (Inv => Inv' /\ \A d \in Clients : StaysHere(d))
  <1> DEFINE t == EndManage(Now, c)
             p == Primary(setup)
  <1>1. /\ Become(Arranged(t, current)) /\ EndGrab
        /\ UNCHANGED <<setup, server, notified, current>>
    BY DEF Close
  <1>2. Typed(p, Now) /\ grab' \in Clients \cup {None}
    BY <1>1, NowTyped DEF EndGrab
  <1>3. Handled(p, current, Now, t, c) /\ t.client[c].state = "out"
    BY <1>2, EndManageIs
  <1> HIDE DEF t
  <1>4. /\ TypeInv' /\ client'[c].state = "out"
        /\ Inv => Inv' /\ \A d \in Clients \ {c} : StaysHere(d)
    BY <1>1, <1>2, <1>3, ArrangedStep DEF Handled
  <1> QED
    BY <1>4 DEF StaysHere

LEMMA KeyIs ==
  ASSUME NEW binding, NEW c \in Clients, Key(binding, c)
  PROVE  /\ IsFocus(Now, c) /\ client[c].state = "mapped" /\ client[c].workspace = current
         /\ c \notin Docks
         /\ \A d \in Clients : Now.client[d].state \in {"out", "unmapped", "mapped"}
  BY NowIs DEF Key, FocusMayBe, IsFocus, Mapped, Settled

LEMMA MinimizeStep ==
  ASSUME TypeInv, NEW c \in Clients, MinimizeWindow(c)
  PROVE  TypeInv' /\ (Inv => Inv' /\ \A d \in Clients : StaysHere(d))
  <1> DEFINE q == client[c]
             k == At(Now, c)
             l == IF q.mode = "ml" THEN "cl" ELSE "ml"
             t == Give([Take(Now, current, k, q.mode, c) EXCEPT
                          !.client[c] = [NoRecord(@) EXCEPT !.mode = l]], current, k, l, c)
             p == Primary(setup)
  <1>1. /\ IsFocus(Now, c) /\ Become(Arranged(t, current))
        /\ UNCHANGED <<setup, server, notified, current>> /\ grab' = grab
    BY NowIs, KeyIs DEF MinimizeWindow, ActionMinimizeWindow, Same
  <1>2. Typed(p, Now) /\ grab' \in Clients \cup {None}
    BY <1>1, NowTyped
  <1>3. /\ Handled(p, current, Now, t, c) /\ t.client[c].drag = "no"
        /\ Sound(p, current, Now) => Stays(Now, t, c)
    BY <1>1, <1>2, NowIs, MinimizeKeeps
  <1> HIDE DEF t
  <1>4. /\ TypeInv' /\ (Stays(Now, t, c) => StaysHere(c))
        /\ Inv => Inv' /\ \A d \in Clients \ {c} : StaysHere(d)
    BY <1>1, <1>2, <1>3, ArrangedStep DEF Handled
  <1> QED
    BY <1>3, <1>4, NowSound

LEMMA ToggleFloatStep ==
  ASSUME TypeInv, NEW c \in Clients, ToggleFloat(c)
  PROVE  /\ TypeInv'
         /\ Inv /\ ~TogglesAway => /\ Inv' /\ \A d \in Clients \ {c} : StaysHere(d)
                                   /\ client[c].mode # "fl" => StaysHere(c)
  <1> DEFINE t == IF client[c].mode = "fl" THEN ReattachIntoCl(Now, c) ELSE Detach(Now, c)
             b == client[c].box
             p == Primary(setup)
  <1>1. /\ IsFocus(Now, c) /\ client[c].state = "mapped" /\ Become(Arranged(t, current))
        /\ UNCHANGED <<setup, server, notified, current>> /\ grab' = grab /\ Bound("float")
    BY NowIs, KeyIs DEF ToggleFloat, ActionToggleFloat, Same, Key
  <1>2. Typed(p, Now) /\ grab' \in Clients \cup {None} /\ client[c] \in Record
    BY <1>1, NowTyped
  <1> HIDE DEF p
  <1>3. CASE client[c].mode = "fl"
    <2>1. t = ReattachIntoCl(Now, c)
      BY <1>3
    <2> HIDE DEF t
    <2>2. /\ Touches(Now, t, c) /\ HasHome(t.client[c]) /\ t.client[c].drag = "no"
          /\ AtPosition(monitors[current], b.x, b.y) # 0 => Handled(p, current, Now, t, c)
      BY <2>1, <1>1, <1>2, <1>3, NowIs, ReattachTiles
    <2>3. ~TogglesAway => Handled(p, current, Now, t, c)
      BY <1>3, <2>2 DEF TogglesAway
    <2>4. TypeInv' /\ (Inv /\ ~TogglesAway => Inv' /\ \A d \in Clients \ {c} : StaysHere(d))
      BY <1>1, <1>2, <2>2, <2>3, ArrangedStep DEF p
    <2> QED
      BY <2>4, <1>3
  <1>4. CASE client[c].mode # "fl"
    <2>1. t = Detach(Now, c)
      BY <1>4
    <2> HIDE DEF t
    <2>2. /\ Handled(p, current, Now, t, c)
          /\ Sound(p, current, Now) => Stays(Now, t, c) /\ t.client[c].drag = "no"
      BY <2>1, <1>1, <1>2, <1>4, NowIs, DetachFloats
    <2>3. Inv => Stays(Now, t, c) /\ t.client[c].drag = "no"
      BY <2>2, NowSound DEF p
    <2>4. /\ TypeInv' /\ (Stays(Now, t, c) => StaysHere(c))
          /\ Inv => Inv' /\ \A d \in Clients \ {c} : StaysHere(d)
      BY <1>1, <1>2, <2>2, <2>3, ArrangedStep DEF Handled, p
    <2> QED
      BY <2>3, <2>4
  <1> QED
    BY <1>3, <1>4

(* Nobody moves and no record changes but where drag and grab agree.       *)
LEMMA RecordStep ==
  ASSUME TypeInv, UNCHANGED <<setup, current, monitors>>,
         client' \in [Clients -> Record], grab' \in Clients \cup {None},
         server' \in setup.layouts, notified' \in BOOLEAN,
         ~notified' => notified' = notified /\ server' = server,
         \A d \in Clients : /\ client'[d].state = client[d].state
                            /\ client'[d].workspace = client[d].workspace
                            /\ client'[d].mode = client[d].mode
                            /\ client'[d].box = client[d].box,
         Inv => \A d \in Clients :
                  client'[d].drag # "no" => /\ client[d].state # "mapped" => client[d].drag # "no"
                                            /\ client[d].state = "mapped" => grab' = d
                                            /\ client[d].mode = "fl"
  PROVE  TypeInv' /\ (Inv => Inv' /\ \A d \in Clients : StaysHere(d))
  <1> DEFINE p == Primary(setup)
  <1>1. /\ Typed(p, Now) /\ Alike(Now)
        /\ Now'.monitors = Now.monitors /\ Now.monitors = monitors
        /\ Now'.client = client' /\ Now.client = client
    BY NowIs DEF TypeInv
  <1> HIDE DEF p
  <1>2. Now' \in State
    BY <1>1 DEF Now, Typed, State
  <1>3. ASSUME NEW d \in Clients
        PROVE  /\ Stays(Now, Now', d) /\ (PlacedIn(Now, d) => PlacedIn(Now', d))
               /\ HasHome(client'[d])
    <2>1. Stays(Now, Now', d) /\ (PlacedIn(Now, d) => PlacedIn(Now', d))
      BY <1>1, SameHome
    <2>2. HasHome(client[d])
      BY <1>1 DEF Typed
    <2> QED
      BY <2>1, <2>2 DEF HasHome
  <1>4. Typed(p, Now')
    BY <1>1, <1>2, <1>3 DEF Typed
  <1>5. Alike(Now')
    BY <1>1 DEF Alike
  <1>6. TypeInv'
    BY <1>4, <1>5 DEF TypeInv, p
  <1>7. ASSUME Inv PROVE Inv' /\ \A d \in Clients : StaysHere(d)
    <2>1. \A d \in Clients : Fits(d, client'[d], current)
      <3>1. \A d \in Clients : Fits(d, client[d], current)
        BY <1>7, NowSound
      <3> QED
        BY <3>1, <1>7 DEF Fits, HasHome
    <2>2. \A d \in Clients : PlacedIn(Now', d)
      BY <1>3, <1>7, NowSound
    <2>3. Sound(Primary(setup'), current', Now')
      BY <1>1, <1>4, <2>1, <2>2 DEF Sound, p
    <2>4. Reached(current', Now')
      BY <1>1, <1>7 DEF Inv, Reached
    <2>5. DragHasGrab'
      BY <1>7, NowIs DEF DragHasGrab, Mapped
    <2>6. SameMonitors(Now, Now')
      BY <1>1 DEF SameMonitors, SameShape
    <2> QED
      BY <1>3, <1>6, <2>3, <2>4, <2>5, <2>6 DEF Inv, StaysHere
  <1> QED
    BY <1>6, <1>7

LEMMA NoDrag ==
  ASSUME Inv
  PROVE  \A d \in Clients : client[d].drag # "no" =>
           client[d].mode = "fl" /\ (client[d].state = "mapped" => grab = d)
  BY NowSound, NowIs DEF Fits, Inv, DragHasGrab, Mapped

LEMMA StutterStep ==
  ASSUME TypeInv, UNCHANGED vars
  PROVE  TypeInv' /\ (Inv => Inv' /\ \A d \in Clients : StaysHere(d))
  <1>1. UNCHANGED <<setup, server, notified, current, monitors, client, grab>>
    BY DEF vars
  <1>2. client \in [Clients -> Record] /\ server \in setup.layouts /\ notified \in BOOLEAN
    BY NowIs DEF TypeInv, Typed, State
  <1> QED
    BY <1>1, <1>2, NowTyped, NoDrag, RecordStep

LEMMA ConnectStep ==
  ASSUME TypeInv, NEW outputs \in setup.layouts, Connect(outputs)
  PROVE  TypeInv' /\ (Inv => Inv' /\ \A d \in Clients : StaysHere(d))
  <1>1. UNCHANGED <<setup, current, monitors, client, grab>> /\ notified' = TRUE /\ server' = outputs
    BY DEF Connect
  <1>2. client \in [Clients -> Record]
    BY NowIs DEF TypeInv, Typed, State
  <1> QED
    BY <1>1, <1>2, NowTyped, NoDrag, RecordStep

LEMMA ButtonPressStep ==
  ASSUME TypeInv, NEW c \in Clients, NEW drag \in {"drag", "mouse_resize"}, ButtonPress(c, drag)
  PROVE  TypeInv' /\ (Inv => Inv' /\ \A d \in Clients : StaysHere(d))
  <1>1. /\ grab = None /\ grab' = c /\ client[c].mode = "fl"
        /\ client' = [client EXCEPT ![c].drag = drag]
        /\ UNCHANGED <<setup, server, notified, current, monitors>>
    BY DEF ButtonPress
  <1>2. /\ client \in [Clients -> Record] /\ server \in setup.layouts /\ notified \in BOOLEAN
    BY NowIs DEF TypeInv, Typed, State
  <1> DEFINE r == [client[c] EXCEPT !.drag = drag]
  <1>3. /\ r \in Record /\ r.state = client[c].state /\ r.workspace = client[c].workspace
        /\ r.mode = client[c].mode /\ r.box = client[c].box
    BY <1>2 DEF Record
  <1>4. client' = [client EXCEPT ![c] = r]
    BY <1>1
  <1> HIDE DEF r
  <1>5. /\ client' \in [Clients -> Record] /\ client'[c] = r
        /\ \A d \in Clients \ {c} : client'[d] = client[d]
    BY <1>2, <1>3, <1>4
  <1>6. c # None
    BY KindsOfWindow
  <1>7. Inv => \A d \in Clients :
          client'[d].drag # "no" => /\ client[d].state # "mapped" => client[d].drag # "no"
                                    /\ client[d].state = "mapped" => grab' = d
                                    /\ client[d].mode = "fl"
    <2>1. client[c].state = "mapped"
      BY NowIs DEF ButtonPress, FocusMayBe, Mapped
    <2>2. Inv => \A d \in Clients \ {c} : client[d].state = "mapped" => client[d].drag = "no"
      BY <1>1, KindsOfWindow, NoDrag
    <2> QED
      BY <2>1, <2>2, <1>1, <1>5, NoDrag
  <1> QED
    BY <1>1, <1>2, <1>3, <1>5, <1>7, RecordStep

LEMMA ButtonReleaseStep ==
  ASSUME TypeInv, NEW c \in Clients, ButtonRelease(c)
  PROVE  TypeInv' /\ (Inv => Inv' /\ \A d \in Clients : StaysHere(d))
  <1>1. /\ grab = c /\ grab' = None
        /\ client' = IF client[c].workspace = current /\ client[c].mode = "fl"
                       THEN [client EXCEPT ![c].drag = "no"] ELSE client
        /\ UNCHANGED <<setup, server, notified, current, monitors>>
    BY DEF ButtonRelease
  <1>2. /\ client \in [Clients -> Record] /\ server \in setup.layouts /\ notified \in BOOLEAN
    BY NowIs DEF TypeInv, Typed, State
  <1> DEFINE r == [client[c] EXCEPT !.drag = "no"]
  <1>3. /\ r \in Record /\ r.state = client[c].state /\ r.workspace = client[c].workspace
        /\ r.mode = client[c].mode /\ r.box = client[c].box /\ r.drag = "no"
    BY <1>2 DEF Record
  <1>4. client' = [client EXCEPT ![c] = r] \/ client' = client
    BY <1>1
  <1> HIDE DEF r
  <1>5. /\ client' \in [Clients -> Record] /\ (client'[c] = r \/ client' = client)
        /\ \A d \in Clients \ {c} : client'[d] = client[d]
    BY <1>2, <1>3, <1>4
  <1>6. Inv => \A d \in Clients :
          client'[d].drag # "no" => /\ client[d].state # "mapped" => client[d].drag # "no"
                                    /\ client[d].state = "mapped" => grab' = d
                                    /\ client[d].mode = "fl"
    <2>1. ASSUME Inv, NEW d \in Clients, client'[d].drag # "no"
          PROVE  client[d].drag # "no" /\ client[d].mode = "fl" /\ client[d].state # "mapped"
      <3>1. client[d].drag # "no"
        BY <2>1, <1>3, <1>5
      <3>2. client[d].mode = "fl" /\ (client[d].state = "mapped" => c = d)
        BY <2>1, <3>1, <1>1, NoDrag
      <3>3. ASSUME client[d].state = "mapped" PROVE FALSE
        <4>1. d = c /\ client[c].mode = "fl" /\ client[c].workspace = current
          BY <2>1, <3>2, <3>3, NowSound DEF Fits
        <4>2. client' = [client EXCEPT ![c].drag = "no"]
          BY <4>1, <1>1
        <4>3. client'[c].drag = "no"
          BY <4>2, <1>2 DEF Record
        <4> QED
          BY <4>1, <4>3, <2>1
      <3> QED
        BY <3>1, <3>2, <3>3
    <2> QED
      BY <2>1
  <1> QED
    BY <1>1, <1>2, <1>3, <1>5, <1>6, RecordStep

LEMMA MoveToWorkspaceStep ==
  ASSUME TypeInv, NEW c \in Clients, NEW w \in Workspaces, MoveToWorkspace(c, w)
  PROVE  TypeInv' /\ (Inv => Inv' /\ \A d \in Clients : StaysHere(d))
  <1> DEFINE t == ActionMoveToWorkspace(Now, c, w)
             p == Primary(setup)
  <1>1. /\ IsFocus(Now, c) /\ Become(t) /\ EndGrab
        /\ UNCHANGED <<setup, server, notified, current>>
    BY KeyIs DEF MoveToWorkspace
  <1>2. Typed(p, Now) /\ grab' \in Clients \cup {None}
    BY <1>1, NowTyped DEF EndGrab
  <1>3. /\ Handled(p, current, Now, t, c) /\ t.client[c].state = "going"
        /\ Sound(p, current, Now) => Stays(Now, t, c)
    BY <1>1, <1>2, MoveToWorkspaceKeeps
  <1> HIDE DEF t
  <1>4. Touches(Now, t, c) /\ HasHome(t.client[c])
    BY <1>3 DEF Handled
  <1>5. /\ TypeInv' /\ Now' = t /\ SameMonitors(Now, t)
        /\ \A d \in Clients \ {c} : Stays(Now, t, d)
        /\ Sound(p, current, Now) /\ Handled(p, current, Now, t, c) => Sound(p, current, t)
    BY <1>1, <1>2, <1>4, OneStep
  <1>6. /\ \A d \in Clients \ {c} : client'[d] = client[d]
        /\ client'[c].state = "going"
    BY <1>3, <1>4, <1>5, NowIs DEF Touches
  <1> HIDE DEF p
  <1>7. ASSUME Inv PROVE Inv' /\ \A d \in Clients : StaysHere(d)
    <2>1. Sound(p, current, Now) /\ Reached(current, Now) /\ DragHasGrab
      BY <1>7 DEF Inv, p
    <2>2. Sound(Primary(setup'), current', Now')
      BY <2>1, <1>1, <1>3, <1>5 DEF p
    <2>3. Reached(current', Now')
      BY <2>1, <1>1, <1>5, <1>6, ReachedStep
    <2>4. DragHasGrab'
      BY <2>1, <1>1, <1>6, DragStep
    <2> QED
      BY <2>1, <2>2, <2>3, <2>4, <1>3, <1>5 DEF Inv, StaysHere
  <1> QED
    BY <1>5, <1>7

LEMMA MoveWinMonitorStep ==
  ASSUME TypeInv, NEW c \in Clients, NEW direction \in Directions,
         MoveWinMonitor(c, direction)
  PROVE  TypeInv' /\ (Inv => Inv' /\ \A d \in Clients \ {c} : StaysHere(d))
  <1> DEFINE k  == At(Now, c)
             to == Neighbour(monitors[current], k, direction)
             n  == monitors[current][to].name
             t  == [MoveToMonitor(Now, current, c, k, to) EXCEPT !.client[c].prop = n]
             p  == Primary(setup)
  <1>1. /\ IsFocus(Now, c) /\ client[c].state = "mapped"
        /\ UNCHANGED <<setup, server, notified, current>> /\ grab' = grab
        /\ Become(ActionMoveWinMonitor(Now, c, direction))
    BY KeyIs DEF MoveWinMonitor, Same
  <1>2. Typed(p, Now) /\ grab' \in Clients \cup {None} /\ Now \in State
    BY <1>1, NowTyped
  <1>3. CASE to = 0 \/ client[c].mode = "fl"
    <2>1. Become(Now)
      BY <1>1, <1>3, NowIs DEF ActionMoveWinMonitor
    <2>2. UNCHANGED vars
      BY <2>1, <1>1, NowIs DEF Become, vars
    <2> QED
      BY <2>2, StutterStep
  <1>4. CASE ~(to = 0 \/ client[c].mode = "fl")
    <2>1. Become(Arranged(t, current))
      BY <1>1, <1>4, NowIs DEF ActionMoveWinMonitor
    <2>2. monitors[current] \in Seq(Monitor(Clients))
      BY <1>1, <1>2, FocusIs, NowIs
    <2>3. to \in 1..Len(monitors[current])
      BY <2>2, <1>4, NeighbourIsThere
    <2> HIDE DEF to, p
    <2>4. Handled(p, current, Now, t, c) /\ t.client[c].drag = client[c].drag
      BY SMTT(60), <2>3, <1>1, <1>2, NowIs, MoveWinMonitorIs
    <2> HIDE DEF t
    <2> QED
      BY <2>1, <2>4, <1>1, <1>2, ArrangedStep DEF Handled, p
  <1> QED
    BY <1>3, <1>4

(* By key or by pointer.                                                   *)
LEMMA MotionStep ==
  ASSUME TypeInv, NEW c \in Clients, NEW d \in Steps, MoveByKey(c, d) \/ MotionNotify(c, d)
  PROVE  TypeInv' /\ (Inv => Inv' /\ \A x \in Clients : StaysHere(x))
  <1>1. PICK t : (t = Moved(Now, c, d) \/ t = Resized(Now, c, d)) /\ Become(t) /\ Same
    BY DEF MoveByKey, MotionNotify
  <1>2. client[c].workspace = current /\ client[c].mode = "fl"
    BY KeyIs DEF MoveByKey, MotionNotify
  <1> DEFINE p == Primary(setup)
  <1>3. Typed(p, Now) /\ current \in Workspaces
    BY NowTyped
  <1> HIDE DEF p
  <1>4. /\ Handled(p, current, Now, t, c) /\ Stays(Now, t, c)
        /\ SameButBox(client[c], t.client[c])
        /\ InReach(monitors[current], client[c].box) => InReach(monitors[current], t.client[c].box)
    BY <1>1, <1>2, <1>3, NowIs, MotionIs
  <1>5. Touches(Now, t, c) /\ HasHome(t.client[c])
    BY <1>4 DEF Handled
  <1>6. UNCHANGED <<setup, server, notified, current>> /\ grab' = grab
    BY <1>1 DEF Same
  <1>7. grab' \in Clients \cup {None}
    BY <1>6, NowTyped
  <1>8. /\ TypeInv' /\ Now' = t /\ SameMonitors(Now, t)
        /\ \A x \in Clients \ {c} : Stays(Now, t, x)
        /\ Sound(p, current, Now) /\ Handled(p, current, Now, t, c) => Sound(p, current, t)
    BY <1>1, <1>5, <1>6, <1>7, OneStep DEF p
  <1>9. /\ \A x \in Clients \ {c} : client'[x] = client[x]
        /\ client'[c] = t.client[c]
    BY <1>5, <1>8, NowIs DEF Touches
  <1>10. ASSUME Inv PROVE Inv' /\ \A x \in Clients : StaysHere(x)
    <2>1. Sound(p, current, Now) /\ Reached(current, Now) /\ DragHasGrab
      BY <1>10 DEF Inv, p
    <2>2. Sound(Primary(setup'), current', Now')
      BY <2>1, <1>4, <1>6, <1>8 DEF p
    <2>3. Reached(current', Now')
      <3>1. \A x \in Clients : client'[x].state = "mapped" /\ client'[x].mode = "fl"
              => /\ client[x].state = "mapped" /\ client[x].mode = "fl"
                 /\ InReach(monitors[current], client[x].box)
                      => InReach(monitors[current], client'[x].box)
        BY <1>4, <1>9 DEF SameButBox
      <3> QED
        BY <3>1, <2>1, <1>6, <1>8, ReachedStep
    <2>4. DragHasGrab'
      BY <2>1, <1>4, <1>6, <1>9, DragStep DEF SameButBox
    <2> QED
      BY <2>2, <2>3, <2>4, <1>4, <1>8 DEF Inv, StaysHere
  <1> QED
    BY <1>8, <1>10

LEMMA SwitchWorkspaceStep ==
  ASSUME TypeInv, NEW w \in Workspaces, SwitchWorkspace(w)
  PROVE  TypeInv' /\ (Inv => Inv' /\ \A d \in Clients \ Docks : StaysHere(d))
  <1> DEFINE t == ActionSwitchWorkspace(Now, w)
             u == Arranged(t, w)
             p == Primary(setup)
  <1>1. /\ Become(u) /\ EndGrab /\ current' = w /\ w # current /\ Bound("switch") /\ Settled
        /\ UNCHANGED <<setup, server, notified>>
    BY DEF SwitchWorkspace
  <1>2. /\ Typed(p, Now) /\ current \in Workspaces /\ grab' \in Clients \cup {None}
    BY <1>1, NowTyped DEF EndGrab
  <1>3. /\ Typed(p, t) /\ SameMonitors(Now, t)
        /\ \A c \in Clients : /\ t.client[c].state = "mapped" => client[c].state = "mapped"
                              /\ t.client[c].drag = client[c].drag
        /\ Sound(p, current, Now) =>
             Sound(p, w, t) /\ \A c \in Clients \ Docks : Stays(Now, t, c)
    <2>1. \A c \in Clients : Now.client[c].state \in {"out", "unmapped", "mapped"}
      BY <1>1, NowIs DEF Settled
    <2> HIDE DEF p
    <2> QED
      BY <2>1, <1>1, <1>2, NowIs, SwitchWorkspaceIs
  <1> HIDE DEF t, p
  <1>4. /\ Typed(p, u) /\ u.monitors = t.monitors
        /\ \A d \in Clients : Stays(t, u, d) /\ SameButBox(t.client[d], u.client[d])
        /\ Sound(p, w, t) => Sound(p, w, u) /\ Reached(w, u)
    BY <1>3, ArrangedSound
  <1> HIDE DEF u
  <1>5. Now' = u
    BY <1>1, <1>4, BecomeIs DEF Typed
  <1>6. SameMonitors(Now, u)
    BY <1>3, <1>4 DEF SameMonitors
  <1>7. /\ Alike(u)
        /\ ~notified => \A v \in Workspaces : Follows(u.monitors[v], server)
    <2>1. Alike(Now) /\ (~notified => \A v \in Workspaces : Follows(monitors[v], server))
      BY DEF TypeInv
    <2> QED
      BY <2>1, <1>6, StaysAlike, NowIs
  <1>8. TypeInv'
    <2>1. /\ setup' \in Setups /\ server' \in setup'.layouts /\ notified' \in BOOLEAN
          /\ current' \in Workspaces
      BY <1>1 DEF TypeInv
    <2>2. Typed(Primary(setup'), Now') /\ Alike(Now')
      BY <1>1, <1>4, <1>5, <1>7 DEF p
    <2>3. ~notified' => \A v \in Workspaces : Follows(monitors'[v], server')
      BY <1>1, <1>5, <1>7, NowIs
    <2> QED
      BY <2>1, <2>2, <2>3, <1>2 DEF TypeInv
  <1>9. ASSUME Inv PROVE Inv' /\ \A d \in Clients \ Docks : StaysHere(d)
    <2>1. Sound(p, current, Now) /\ DragHasGrab
      BY <1>9 DEF Inv, p
    <2>2. Sound(Primary(setup'), current', Now') /\ Reached(current', Now')
      BY <2>1, <1>1, <1>3, <1>4, <1>5 DEF p
    <2>3. \A d \in Clients : client'[d].state = "mapped" /\ client'[d].drag # "no"
                               => client[d].state = "mapped" /\ client[d].drag # "no"
      BY <1>3, <1>4, <1>5, NowIs DEF SameButBox
    <2>4. DragHasGrab'
      BY <1>1, <2>1, <2>3, DragStep
    <2>5. \A d \in Clients \ Docks : Stays(Now, u, d)
      BY <2>1, <1>3, <1>4 DEF Stays
    <2> QED
      BY <1>5, <1>6, <1>8, <2>2, <2>4, <2>5 DEF Inv, StaysHere
  <1> QED
    BY <1>8, <1>9

(* The monitors become the outputs there are.                              *)
LEMMA FollowStep ==
  ASSUME TypeInv, NEW t, Typed(Primary(setup), t),
         \A w \in Workspaces : Follows(t.monitors[w], server),
         Become(Arranged(t, current)), UNCHANGED <<setup, server, current>>,
         notified' \in BOOLEAN, grab' \in Clients \cup {None}
  PROVE  /\ TypeInv'
         /\ \A d \in Clients : client'[d].state = t.client[d].state /\ client'[d].drag = t.client[d].drag
         /\ Sound(Primary(setup), current, t) /\ DragHasGrab' => Inv'
  <1> DEFINE u == Arranged(t, current)
             p == Primary(setup)
  <1>1. /\ current \in Workspaces /\ AreOutputs(p, server)
    BY PrimaryOf DEF TypeInv
  <1> HIDE DEF p
  <1>2. /\ Typed(p, u) /\ u.monitors = t.monitors
        /\ \A d \in Clients : SameButBox(t.client[d], u.client[d])
        /\ Sound(p, current, t) => Sound(p, current, u) /\ Reached(current, u)
    BY <1>1, ArrangedSound DEF p
  <1> HIDE DEF u
  <1>3. Now' = u
    BY <1>2, BecomeIs DEF Typed, u
  <1>4. Alike(u)
    BY <1>1, <1>2, FollowersAlike DEF Typed
  <1>5. TypeInv'
    <2>1. /\ setup' \in Setups /\ server' \in setup'.layouts /\ current' \in Workspaces
      BY DEF TypeInv
    <2>2. Typed(Primary(setup'), Now') /\ Alike(Now')
      BY <1>2, <1>3, <1>4 DEF p
    <2>3. \A w \in Workspaces : Follows(monitors'[w], server')
      BY <1>2, <1>3, NowIs
    <2> QED
      BY <2>1, <2>2, <2>3 DEF TypeInv
  <1>6. \A d \in Clients : client'[d].state = t.client[d].state /\ client'[d].drag = t.client[d].drag
    BY <1>2, <1>3, NowIs DEF SameButBox
  <1> QED
    BY <1>2, <1>3, <1>5, <1>6 DEF Inv, p

LEMMA ScreenChangeStep ==
  ASSUME TypeInv, ScreenChange
  PROVE  TypeInv' /\ (Inv => Inv')
  <1>1. PICK pointer \in Pointers :
          Become(Arranged([monitors |-> UpdateMonitors(monitors, First, server, pointer),
                           client |-> client], current))
    BY DEF ScreenChange
  <1> DEFINE t == [monitors |-> UpdateMonitors(monitors, First, server, pointer),
                   client |-> client]
             p == Primary(setup)
  <1>2. UNCHANGED <<setup, server, current>> /\ grab' = grab /\ notified' \in BOOLEAN
    BY DEF ScreenChange
  <1>3. Typed(p, Now) /\ grab' \in Clients \cup {None} /\ p \in Names /\ AreOutputs(p, server)
    BY <1>2, NowTyped, PrimaryOf DEF TypeInv
  <1>4. t.client = client
    OBVIOUS
  <1> HIDE DEF p
  <1>5. /\ Typed(p, t) /\ \A w \in Workspaces : Follows(t.monitors[w], server)
        /\ \A cur : Sound(p, cur, Now) => Sound(p, cur, t)
    BY <1>3, NowIs, ScreenChangeIs
  <1>6. Become(Arranged(t, current))
    BY <1>1
  <1> HIDE DEF t
  <1>7. /\ TypeInv'
        /\ \A d \in Clients : client'[d].state = client[d].state /\ client'[d].drag = client[d].drag
        /\ Sound(p, current, t) /\ DragHasGrab' => Inv'
    BY <1>2, <1>3, <1>4, <1>5, <1>6, FollowStep DEF p
  <1>8. ASSUME Inv PROVE Inv'
    <2>1. Sound(p, current, t) /\ DragHasGrab
      BY <1>5, <1>8 DEF Inv, p
    <2>2. DragHasGrab'
      BY <2>1, <1>2, <1>7, DragStep
    <2> QED
      BY <2>1, <2>2, <1>7
  <1> QED
    BY <1>7, <1>8

LEMMA RestartStep ==
  ASSUME TypeInv, Restart
  PROVE  TypeInv' /\ Inv'
  <1> DEFINE bare == [monitors |-> FillMonitors(server), client |-> [c \in Clients |-> Windowless]]
             p == Primary(setup)
  <1>1. PICK pointer \in Pointers :
          LET e == [client |-> client, current |-> current, pointer |-> pointer]
          IN Become(Arranged(ManageExisting!Over(e, bare, Clients), current))
    BY DEF Restart
  <1> DEFINE e == [client |-> client, current |-> current, pointer |-> pointer]
             t == ManageExisting!Over(e, bare, Clients)
  <1>2. UNCHANGED <<setup, server, current>> /\ grab' = None /\ notified' \in BOOLEAN
    BY DEF Restart
  <1>3. Typed(p, Now) /\ p \in Names /\ AreOutputs(p, server)
    BY NowTyped, PrimaryOf DEF TypeInv
  <1>4. /\ e.client \in [Clients -> Record] /\ \A c \in Clients : HasHome(e.client[c])
        /\ e.current = current
    BY <1>3, NowIs DEF Typed, State
  <1>5. Become(Arranged(t, current))
    BY <1>1
  <1> HIDE DEF p, e
  <1>6. /\ Sound(p, current, t) /\ \A w \in Workspaces : Follows(t.monitors[w], server)
        /\ \A c \in Clients : t.client[c].drag = "no"
    BY <1>3, <1>4, ManageExistingIs
  <1> HIDE DEF t, bare
  <1>7. Typed(p, t)
    BY <1>6 DEF Sound
  <1>8. /\ TypeInv'
        /\ \A d \in Clients : client'[d].drag = "no"
        /\ Sound(p, current, t) /\ DragHasGrab' => Inv'
    BY <1>2, <1>5, <1>6, <1>7, FollowStep DEF p
  <1>9. DragHasGrab'
    BY <1>8 DEF DragHasGrab
  <1> QED
    BY <1>6, <1>8, <1>9

LEMMA InitStep ==
  ASSUME Init
  PROVE  Inv
  <1> DEFINE s == [monitors |-> FillMonitors(server), client |-> [c \in Clients |-> Windowless]]
             p == Primary(setup)
  <1>1. /\ setup \in Setups /\ server \in setup.layouts /\ notified = FALSE
        /\ current = First /\ grab = None
        /\ monitors = FillMonitors(server) /\ client = [c \in Clients |-> Windowless]
    BY DEF Init
  <1>2. p \in Names /\ AreOutputs(p, server)
    BY <1>1, PrimaryOf
  <1> HIDE DEF p
  <1>3. /\ Typed(p, s) /\ \A c \in Clients : Nowhere(s, c) /\ s.client[c] = Windowless
        /\ \A w \in Workspaces : Follows(s.monitors[w], server)
    BY <1>2, FillMonitorsIs
  <1>4. Now = s
    BY <1>1 DEF Now
  <1> HIDE DEF s
  <1>5. current \in Workspaces
    BY <1>1, WorkspacesAssumption DEF First
  <1>6. Alike(Now)
    BY <1>2, <1>3, <1>4, FollowersAlike DEF Typed
  <1>7. TypeInv
    BY <1>1, <1>3, <1>4, <1>5, <1>6, NowIs DEF TypeInv, p
  <1>8. \A c \in Clients : client[c].state = "out" /\ client[c].mode = "cl" /\ client[c].drag = "no"
    BY <1>1 DEF Windowless
  <1>9. Sound(p, current, Now)
    BY <1>3, <1>4, <1>8, NowIs, KindsOfWindow DEF Sound, PlacedIn, Fits, Typed
  <1>10. Reached(current, Now) /\ DragHasGrab
    BY <1>8, NowIs DEF Reached, DragHasGrab, Mapped
  <1> QED
    BY <1>7, <1>9, <1>10 DEF Inv, p

LEMMA NextStep ==
  ASSUME TypeInv, [Next]_vars
  PROVE  TypeInv' /\ (Inv /\ ~TogglesAway => Inv')
  <1>1. CASE UNCHANGED vars
    BY <1>1, StutterStep
  <1>2. ASSUME NEW outputs \in setup.layouts, Connect(outputs) PROVE TypeInv' /\ (Inv => Inv')
    BY <1>2, ConnectStep
  <1>3. CASE ScreenChange
    BY <1>3, ScreenChangeStep
  <1>4. ASSUME NEW c \in Clients, MapRequest(c) PROVE TypeInv' /\ (Inv => Inv')
    BY <1>4, MapRequestStep
  <1>5. ASSUME NEW c \in Clients, MapNotify(c) PROVE TypeInv' /\ (Inv => Inv')
    BY <1>5, MapNotifyStep
  <1>6. ASSUME NEW c \in Clients, UnmapNotify(c) PROVE TypeInv' /\ (Inv => Inv')
    BY <1>6, UnmapNotifyStep
  <1>7. ASSUME NEW c \in Clients, ConfigureRequest(c) PROVE TypeInv' /\ (Inv => Inv')
    BY <1>7, ConfigureRequestStep
  <1>8. ASSUME NEW c \in Clients, Close(c) PROVE TypeInv' /\ (Inv => Inv')
    BY <1>8, CloseStep
  <1>9. ASSUME NEW w \in Workspaces, SwitchWorkspace(w) PROVE TypeInv' /\ (Inv => Inv')
    BY <1>9, SwitchWorkspaceStep
  <1>10. ASSUME NEW c \in Clients, NEW w \in Workspaces, MoveToWorkspace(c, w)
         PROVE  TypeInv' /\ (Inv => Inv')
    BY <1>10, MoveToWorkspaceStep
  <1>11. ASSUME NEW c \in Clients, NEW direction \in Directions, MoveWinMonitor(c, direction)
         PROVE  TypeInv' /\ (Inv => Inv')
    BY <1>11, MoveWinMonitorStep
  <1>12. ASSUME NEW c \in Clients, ToggleFloat(c)
         PROVE  TypeInv' /\ (Inv /\ ~TogglesAway => Inv')
    BY <1>12, ToggleFloatStep
  <1>13. ASSUME NEW c \in Clients, MinimizeWindow(c) PROVE TypeInv' /\ (Inv => Inv')
    BY <1>13, MinimizeStep
  <1>14. ASSUME NEW c \in Clients, NEW d \in Steps, MoveByKey(c, d) \/ MotionNotify(c, d)
         PROVE  TypeInv' /\ (Inv => Inv')
    BY <1>14, MotionStep
  <1>15. ASSUME NEW c \in Clients, NEW drag \in {"drag", "mouse_resize"}, ButtonPress(c, drag)
         PROVE  TypeInv' /\ (Inv => Inv')
    BY <1>15, ButtonPressStep
  <1>16. ASSUME NEW c \in Clients, ButtonRelease(c) PROVE TypeInv' /\ (Inv => Inv')
    BY <1>16, ButtonReleaseStep
  <1>17. CASE Restart
    BY <1>17, RestartStep
  <1> QED
    BY <1>1, <1>2, <1>3, <1>4, <1>5, <1>6, <1>7, <1>8, <1>9, <1>10, <1>11, <1>12, <1>13,
       <1>14, <1>15, <1>16, <1>17 DEF Next

(* The steps that leave a window on its monitor.                           *)
LEMMA StaysStep ==
  ASSUME Inv, ~TogglesAway, [Next]_vars, NEW c \in Clients \ Docks
  PROVE  \/ StaysHere(c)
         \/ ScreenChange
         \/ \E direction \in Directions : MoveWinMonitor(c, direction)
         \/ ToggleFloat(c) /\ client[c].mode = "fl"
         \/ Restart
  <1>1. TypeInv
    BY DEF Inv
  <1>2. CASE UNCHANGED vars
    BY <1>1, <1>2, StutterStep
  <1>3. ASSUME NEW outputs \in setup.layouts, Connect(outputs) PROVE StaysHere(c)
    BY <1>1, <1>3, ConnectStep
  <1>4. ASSUME NEW d \in Clients, MapRequest(d) PROVE StaysHere(c)
    BY <1>1, <1>4, MapRequestStep
  <1>5. ASSUME NEW d \in Clients, MapNotify(d) PROVE StaysHere(c)
    BY <1>1, <1>5, MapNotifyStep
  <1>6. ASSUME NEW d \in Clients, UnmapNotify(d) PROVE StaysHere(c)
    BY <1>1, <1>6, UnmapNotifyStep
  <1>7. ASSUME NEW d \in Clients, ConfigureRequest(d) PROVE StaysHere(c)
    BY <1>1, <1>7, ConfigureRequestStep
  <1>8. ASSUME NEW d \in Clients, Close(d) PROVE StaysHere(c)
    BY <1>1, <1>8, CloseStep
  <1>9. ASSUME NEW w \in Workspaces, SwitchWorkspace(w) PROVE StaysHere(c)
    BY <1>1, <1>9, SwitchWorkspaceStep
  <1>10. ASSUME NEW d \in Clients, NEW w \in Workspaces, MoveToWorkspace(d, w)
         PROVE  StaysHere(c)
    BY <1>1, <1>10, MoveToWorkspaceStep
  <1>11. ASSUME NEW d \in Clients, NEW direction \in Directions, MoveWinMonitor(d, direction)
         PROVE  c = d \/ StaysHere(c)
    BY <1>1, <1>11, MoveWinMonitorStep
  <1>12. ASSUME NEW d \in Clients, ToggleFloat(d)
         PROVE  StaysHere(c) \/ (c = d /\ client[d].mode = "fl")
    BY <1>1, <1>12, ToggleFloatStep
  <1>13. ASSUME NEW d \in Clients, MinimizeWindow(d) PROVE StaysHere(c)
    BY <1>1, <1>13, MinimizeStep
  <1>14. ASSUME NEW d \in Clients, NEW e \in Steps, MoveByKey(d, e) \/ MotionNotify(d, e)
         PROVE  StaysHere(c)
    BY <1>1, <1>14, MotionStep
  <1>15. ASSUME NEW d \in Clients, NEW drag \in {"drag", "mouse_resize"}, ButtonPress(d, drag)
         PROVE  StaysHere(c)
    BY <1>1, <1>15, ButtonPressStep
  <1>16. ASSUME NEW d \in Clients, ButtonRelease(d) PROVE StaysHere(c)
    BY <1>1, <1>16, ButtonReleaseStep
  <1> QED
    BY <1>2, <1>3, <1>4, <1>5, <1>6, <1>7, <1>8, <1>9, <1>10, <1>11, <1>12, <1>13,
       <1>14, <1>15, <1>16 DEF Next

(* The monitor a client is on.                                             *)
LEMMA MonitorIs ==
  ASSUME NEW p, NEW cur, NEW s, Sound(p, cur, s), NEW c \in Clients,
         s.client[c].state # "out"
  PROVE  LET w == s.client[c].workspace
         IN \E k \in Nat : /\ InPlace(s, c, k)
                          /\ w \in Workspaces /\ k \in 1..Len(s.monitors[w])
                          /\ Holder(s.monitors[w], c) = k
                          /\ \A i \in Nat : InPlace(s, c, i) => i = k
  <1> DEFINE w == s.client[c].workspace
             l == Place(s.client[c])
  <1>1. PICK k \in Nat : InPlace(s, c, k)
    BY DEF Sound, PlacedIn
  <1>2. w \in Workspaces /\ k \in 1..Len(s.monitors[w]) /\ HeldAt(s, c, w, k, l)
    BY <1>1 DEF InPlace
  <1>3. l \in Kinds /\ s \in State
    BY DEF Sound, Typed, State, Place, Record, Kinds
  <1>4. Holder(s.monitors[w], c) = k
    BY <1>2, <1>3, HeldIsHolder
  <1>5. \A i \in Nat : InPlace(s, c, i) => i = k
    BY <1>2, <1>3 DEF InPlace, HeldAt
  <1> QED
    BY <1>1, <1>2, <1>4, <1>5

LEMMA StaysOnMonitor ==
  ASSUME Inv, Inv', NEW c \in Clients, StaysHere(c),
         client[c].state # "out", client'[c].state # "out"
  PROVE  MonitorOf(c)' = MonitorOf(c)
  <1> DEFINE v == client[c].workspace
             w == client'[c].workspace
  <1>1. /\ Sound(Primary(setup), current, Now) /\ Sound(Primary(setup'), current', Now')
        /\ Now.client[c].state # "out" /\ Now'.client[c].state # "out"
    BY NowIs DEF Inv
  <1>2. PICK k \in Nat : /\ InPlace(Now, c, k) /\ v \in Workspaces
                         /\ k \in 1..Len(monitors[v]) /\ Holder(monitors[v], c) = k
    BY <1>1, MonitorIs, NowIs
  <1>3. PICK j \in Nat : /\ w \in Workspaces
                         /\ j \in 1..Len(monitors'[w]) /\ Holder(monitors'[w], c) = j
                         /\ \A i \in Nat : InPlace(Now', c, i) => i = j
    BY <1>1, MonitorIs, NowIs
  <1>4. InPlace(Now', c, k) /\ SameMonitors(Now, Now')
    BY <1>2 DEF StaysHere, Stays
  <1>5. j = k
    BY <1>3, <1>4
  <1>6. MonitorOf(c) = monitors[v][k].name /\ MonitorOf(c)' = monitors'[w][k].name
    BY <1>2, <1>3, <1>5 DEF MonitorOf
  <1>7. SameNames(monitors[v], monitors[w])
    BY <1>2, <1>3, NowIs DEF Inv, TypeInv, Typed, AllFit
  <1>8. SameShape(monitors[w], monitors'[w])
    BY <1>3, <1>4, NowIs DEF SameMonitors
  <1> QED
    BY <1>2, <1>6, <1>7, <1>8 DEF SameNames, SameShape

-----------------------------------------------------------------------------
(* What the invariants say.                                                *)

LEMMA TypeInvTypes ==
  ASSUME TypeInv
  PROVE  TypeOK
  <1>1. ASSUME NEW w \in Workspaces, NEW m \in All(monitors[w])
        PROVE  m.primary \in BOOLEAN /\ m.holds \in [Kinds -> SUBSET Clients]
    <2>1. monitors[w] \in Seq(Monitor(Clients))
      BY NowTyped, NowIs DEF State
    <2>2. m \in Monitor(Clients)
      BY <2>1 DEF All
    <2> QED
      BY <2>2 DEF Monitor
  <1>2. \A c \in Clients : client[c] \in Record
    BY NowTyped
  <1> QED
    BY <1>1, <1>2 DEF TypeOK, TypeInv, Record, States

LEMMA TypeInvFollows ==
  ASSUME TypeInv
  PROVE  FollowsServer
  <1> DEFINE Line(m) == [name |-> m.name, primary |-> m.primary, x |-> m.x, w |-> m.w, h |-> m.h]
  <1>1. /\ \A w \in Workspaces : monitors[w] \in Seq(Monitor(Clients))
        /\ server \in Seq(Output) /\ First \in Workspaces
    <2>1. \A w \in Workspaces : monitors[w] \in Seq(Monitor(Clients))
      BY NowTyped, NowIs DEF State
    <2>2. server \in Seq(Output)
      BY PrimaryOf DEF TypeInv, AreOutputs
    <2> QED
      BY <2>1, <2>2, WorkspacesAssumption DEF First
  <1>2. \A ms : /\ Outline(ms) = [i \in DOMAIN ms |-> Line(ms[i])]
                /\ All(Outline(ms)) = {Line(ms[i]) : i \in DOMAIN ms}
    BY DEF Outline, All
  <1>3. \A m, n : Line(m) = Line(n) <=> Matches(m, n)
    BY DEF Matches
  <1> HIDE DEF Line
  <1>4. ASSUME NEW v \in Workspaces, NEW w \in Workspaces
        PROVE  Outline(monitors[v]) = Outline(monitors[w])
    <2>1. /\ Len(monitors[v]) = Len(monitors[w])
          /\ \A i \in 1..Len(monitors[v]) : Matches(monitors[v][i], monitors[w][i])
      BY NowIs DEF TypeInv, Alike, SameOutline, Matches
    <2>2. DOMAIN monitors[v] = 1..Len(monitors[v]) /\ DOMAIN monitors[w] = 1..Len(monitors[v])
      BY <2>1, <1>1
    <2> QED
      BY <2>1, <2>2, <1>2, <1>3
  <1>5. ASSUME ~notified PROVE All(Outline(monitors[First])) = All(Outline(server))
    <2> DEFINE ms == monitors[First]
    <2>1. Follows(ms, server)
      BY <1>1, <1>5 DEF TypeInv
    <2>2. DOMAIN ms = 1..Len(ms) /\ DOMAIN server = 1..Len(server)
      BY <1>1
    <2> HIDE DEF ms
    <2>3. /\ \A i \in DOMAIN ms : \E k \in DOMAIN server : Line(ms[i]) = Line(server[k])
          /\ \A k \in DOMAIN server : \E i \in DOMAIN ms : Line(ms[i]) = Line(server[k])
      BY <2>1, <2>2, <1>3 DEF Follows
    <2>4. {Line(ms[i]) : i \in DOMAIN ms} = {Line(server[k]) : k \in DOMAIN server}
      BY <2>3
    <2> QED
      BY <2>4, <1>2 DEF ms
  <1> QED
    BY <1>4, <1>5 DEF FollowsServer

LEMMA NearestFound ==
  ASSUME NEW ms \in Seq(Monitor(Clients)), NEW k \in 1..Len(ms),
         NEW main \in {"x", "y"}, NEW sub \in {"x", "y"}, NEW sign \in {-1, 1}
  PROVE  LET n == Adjacent(ms, k, main, sub, sign)
         IN IF n = 0 THEN IsFarthest(ms, ms[k], main, sign)
                     ELSE IsNearest(ms, ms[k], ms[n], main, sub, sign)
  <1> DEFINE b == Adjacent(ms, k, main, sub, sign)
  <1>0. Nearest(ms, k, main, sub, sign, b)
    BY AdjacentIsNearest
  <1> HIDE DEF b
  <1>1. /\ b \in 0..Len(ms)
        /\ b = 0 => \A j \in 1..Len(ms) : ~(Along(ms[j], main, sign) > Along(ms[k], main, sign))
        /\ b # 0 => /\ Along(ms[b], main, sign) > Along(ms[k], main, sign)
                    /\ \A j \in 1..Len(ms) :
                         Along(ms[j], main, sign) > Along(ms[k], main, sign) =>
                           \/ Along(ms[b], main, sign) < Along(ms[j], main, sign)
                           \/ /\ Along(ms[b], main, sign) = Along(ms[j], main, sign)
                              /\ Aside(ms[b], ms[k], sub) <= Aside(ms[j], ms[k], sub)
    BY <1>0 DEF Nearest
  <1>2. ASSUME NEW j \in 1..Len(ms) PROVE Along(ms[j], main, sign) \in Int
    <2>1. ms[j] \in Monitor(Clients)
      OBVIOUS
    <2>3. ms[j].x \in Int /\ ms[j].y \in Int
      BY <2>1 DEF Monitor
    <2>2. ms[j][main] \in Int
      BY <2>3
    <2> QED
      BY <2>2 DEF Along
  <1>3. All(ms) = {ms[i] : i \in 1..Len(ms)}
    BY DEF All
  <1>4. CASE b = 0
    <2>1. \A j \in 1..Len(ms) : Along(ms[j], main, sign) <= Along(ms[k], main, sign)
      BY <1>1, <1>2, <1>4
    <2> QED
      BY <2>1, <1>3, <1>4 DEF IsFarthest, b
  <1>5. CASE b # 0
    <2>1. b \in 1..Len(ms) /\ Along(ms[b], main, sign) - Along(ms[k], main, sign) > 0
      BY <1>1, <1>2, <1>5
    <2>2. ASSUME NEW j \in 1..Len(ms), Along(ms[j], main, sign) - Along(ms[k], main, sign) > 0
          PROVE  \/ Along(ms[b], main, sign) - Along(ms[k], main, sign)
                      < Along(ms[j], main, sign) - Along(ms[k], main, sign)
                 \/ /\ Along(ms[b], main, sign) - Along(ms[k], main, sign)
                          = Along(ms[j], main, sign) - Along(ms[k], main, sign)
                    /\ Aside(ms[b], ms[k], sub) <= Aside(ms[j], ms[k], sub)
      BY <2>1, <2>2, <1>1, <1>2, <1>5
    <2>3. IsNearest(ms, ms[k], ms[b], main, sub, sign)
      BY <2>1, <2>2, <1>3 DEF IsNearest
    <2> QED
      BY <2>3, <1>5 DEF b
  <1> QED
    BY <1>4, <1>5

LEMMA TypeInvNearest ==
  ASSUME TypeInv
  PROVE  NeighbourIsNearest
  <1>1. \A w \in Workspaces : monitors[w] \in Seq(Monitor(Clients))
    BY NowTyped, NowIs DEF State
  <1>2. \A w \in Workspaces : DOMAIN monitors[w] = 1..Len(monitors[w])
    BY <1>1
  <1> QED
    BY <1>1, <1>2, NearestFound DEF NeighbourIsNearest, Neighbour

LEMMA InvHoldsOnce ==
  ASSUME Inv
  PROVE  HeldOnce
  <1> SUFFICES ASSUME NEW c \in Clients
               PROVE  IF client[c].state = "out" THEN HeldBy(c) = {}
                      ELSE /\ Cardinality(HeldBy(c)) = 1
                           /\ \A h \in HeldBy(c) :
                                /\ h.w = client[c].workspace
                                /\ h.l = Place(client[c])
    BY DEF HeldOnce, Place
  <1>1. \A w \in Workspaces : DOMAIN monitors[w] = 1..Len(monitors[w])
    BY NowTyped, NowIs DEF Inv, State
  <1>2. Spots = {h \in [w : Workspaces, k : Nat, l : Kinds] : h.k \in 1..Len(monitors[h.w])}
    BY <1>1 DEF Spots
  <1>3. CASE client[c].state = "out"
    <2>1. Nowhere(Now, c)
      BY <1>3, NowSound, NowIs DEF PlacedIn
    <2> QED
      BY <2>1, <1>2, <1>3, NowIs DEF HeldBy, Nowhere
  <1>4. CASE client[c].state # "out"
    <2> DEFINE v == client[c].workspace
               m == Place(client[c])
    <2>1. PICK k \in Nat : InPlace(Now, c, k)
      BY <1>4, NowSound, NowIs DEF PlacedIn
    <2>2. v \in Workspaces /\ k \in 1..Len(monitors[v]) /\ HeldAt(Now, c, v, k, m)
      BY <2>1, NowIs DEF InPlace
    <2>3. m \in Kinds
      BY NowTyped DEF Inv, Place, Record, Kinds
    <2> HIDE DEF v, m
    <2> DEFINE only == [w |-> v, k |-> k, l |-> m]
    <2>4. only \in Spots
      BY <2>2, <2>3, <1>2
    <2>5. ASSUME NEW h \in Spots
          PROVE  c \in monitors[h.w][h.k].holds[h.l] <=> h.w = v /\ h.k = k /\ h.l = m
      BY <2>2, <1>2, NowIs DEF HeldAt
    <2>6. ASSUME NEW h \in Spots PROVE h = only <=> h.w = v /\ h.k = k /\ h.l = m
      BY <1>2
    <2>7. HeldBy(c) = {only}
      BY <2>4, <2>5, <2>6 DEF HeldBy
    <2>8. Cardinality({only}) = 1
      BY FS_Singleton
    <2> QED
      BY <2>7, <2>8, <1>4 DEF v, m
  <1> QED
    BY <1>3, <1>4

(* Every point of the rectangle around the outputs is on one of them, and  *)
(* so is the corner where windows out of bounds are put.                   *)
OnOutput(outputs, x, y) ==
  \E o \in All(outputs) : o.x <= x /\ x < o.x + o.w /\ o.y <= y /\ y < o.y + o.h

Filled(outputs) ==
  /\ OnOutput(outputs, Gap, Gap)
  /\ \A x, y \in Int :
       /\ SmallestX(outputs) <= x /\ x < LargestX(outputs)
       /\ SmallestY(outputs) <= y /\ y < LargestY(outputs)
       => OnOutput(outputs, x, y)

(* Finitely many integers have a greatest one.                             *)
LEMMA GreatestOf ==
  ASSUME NEW n \in Nat \ {0}, NEW f \in [1..n -> Int]
  PROVE  \E i \in 1..n : \A j \in 1..n : f[i] >= f[j]
  <1> DEFINE Bad == {k \in 1..n : \A i \in 1..k : \E j \in 1..k : ~(f[i] >= f[j])}
  <1>1. \A k \in 1..n : k \notin Bad => \E i \in 1..k : \A j \in 1..k : f[i] >= f[j]
    OBVIOUS
  <1>2. \A k \in Bad : \A i \in 1..k : \E j \in 1..k : ~(f[i] >= f[j])
    OBVIOUS
  <1>3. Bad \in SUBSET Nat /\ Bad \in SUBSET (1..n)
    OBVIOUS
  <1> HIDE DEF Bad
  <1>4. ASSUME Bad # {} PROVE FALSE
    <2>1. PICK k \in Bad : \A j \in Bad : k <= j
      BY <1>3, <1>4, Search!LeastNatural
    <2>2. k \in 1..n
      BY <1>3
    <2>3. k # 1
      <3>1. \A j \in 1..1 : f[1] >= f[j]
        OBVIOUS
      <3> QED
        BY <3>1, <1>2
    <2>4. k - 1 \in 1..n /\ k - 1 \notin Bad
      BY <2>1, <2>2, <2>3, <1>3
    <2>5. PICK i \in 1..(k - 1) : \A j \in 1..(k - 1) : f[i] >= f[j]
      BY <2>4, <1>1
    <2>6. /\ i \in 1..k /\ k \in 1..k /\ f[i] \in Int /\ f[k] \in Int
          /\ \A j \in 1..k : j = k \/ j \in 1..(k - 1)
          /\ \A j \in 1..(k - 1) : f[j] \in Int
      BY <2>2, <2>4
    <2>7. CASE f[i] >= f[k]
      <3>1. \A j \in 1..k : f[i] >= f[j]
        BY <2>5, <2>6, <2>7
      <3> QED
        BY <3>1, <2>1, <2>6, <1>2
    <2>8. CASE ~(f[i] >= f[k])
      <3>1. \A j \in 1..(k - 1) : f[k] >= f[j]
        BY <2>5, <2>6, <2>8
      <3>2. \A j \in 1..k : f[k] >= f[j]
        BY <3>1, <2>6
      <3> QED
        BY <3>2, <2>1, <2>6, <1>2
    <2> QED
      BY <2>7, <2>8
  <1>5. n \in 1..n
    OBVIOUS
  <1> QED
    BY <1>1, <1>4, <1>5

(* The rectangle is a matter of the places of the monitors.                *)
LEMMA SameRectangle ==
  ASSUME NEW ms, NEW ns, Where(ms) = Where(ns), ms # <<>>, ns # <<>>
  PROVE  /\ SmallestX(ms) = SmallestX(ns) /\ LargestX(ms) = LargestX(ns)
         /\ SmallestY(ms) = SmallestY(ns) /\ LargestY(ms) = LargestY(ns)
  <1>1. ASSUME NEW a, NEW b, Where(a) = Where(b), NEW m \in All(a)
        PROVE  \E o \in All(b) : o.x = m.x /\ o.y = m.y /\ o.w = m.w /\ o.h = m.h
    <2>1. [name |-> m.name, x |-> m.x, y |-> m.y, w |-> m.w, h |-> m.h] \in Where(b)
      BY <1>1 DEF Where
    <2> QED
      BY <2>1 DEF Where
  <1>2. /\ \A m \in All(ms) : \E o \in All(ns) : o.x = m.x /\ o.y = m.y /\ o.w = m.w /\ o.h = m.h
        /\ \A m \in All(ns) : \E o \in All(ms) : o.x = m.x /\ o.y = m.y /\ o.w = m.w /\ o.h = m.h
    BY <1>1
  <1>3. /\ {m.x : m \in All(ms)} = {m.x : m \in All(ns)}
        /\ {m.y : m \in All(ms)} = {m.y : m \in All(ns)}
    BY <1>2
  <1>4. {m.x + m.w : m \in All(ms)} = {m.x + m.w : m \in All(ns)}
    BY <1>2
  <1>5. {m.y + m.h : m \in All(ms)} = {m.y + m.h : m \in All(ns)}
    BY <1>2
  <1> QED
    BY <1>3, <1>4, <1>5 DEF SmallestX, SmallestY, LargestX, LargestY

LEMMA RectangleEnds ==
  ASSUME NEW outputs \in Seq(Output), outputs # <<>>
  PROVE  LargestX(outputs) \in Int /\ LargestY(outputs) \in Int
  <1>1. Len(outputs) \in Nat \ {0} /\ All(outputs) = {outputs[i] : i \in 1..Len(outputs)}
    BY DEF All
  <1>2. ASSUME NEW i \in 1..Len(outputs)
        PROVE  /\ outputs[i].x \in Int /\ outputs[i].y \in Int
               /\ outputs[i].w \in Nat /\ outputs[i].h \in Nat
    <2>1. outputs[i] \in Output
      OBVIOUS
    <2> QED
      BY <2>1 DEF Output
  <1> DEFINE n == Len(outputs)
             right == [i \in 1..n |-> outputs[i].x + outputs[i].w]
             low   == [i \in 1..n |-> outputs[i].y + outputs[i].h]
  <1>3. right \in [1..n -> Int] /\ low \in [1..n -> Int]
    BY <1>2
  <1>4. /\ {m.x + m.w : m \in All(outputs)} = {right[i] : i \in 1..n}
        /\ {m.y + m.h : m \in All(outputs)} = {low[i] : i \in 1..n}
    BY <1>1
  <1> HIDE DEF n, right, low
  <1>5. PICK p \in 1..n : \A j \in 1..n : right[p] >= right[j]
    BY <1>1, <1>3, GreatestOf DEF n
  <1>6. PICK q \in 1..n : \A j \in 1..n : low[q] >= low[j]
    BY <1>1, <1>3, GreatestOf DEF n
  <1>7. Max({right[i] : i \in 1..n}) \in {right[i] : i \in 1..n}
    <2>1. \E x \in {right[i] : i \in 1..n} : \A y \in {right[i] : i \in 1..n} : x >= y
      BY <1>5
    <2> QED
      BY <2>1 DEF Max
  <1>8. Max({low[i] : i \in 1..n}) \in {low[i] : i \in 1..n}
    <2>1. \E x \in {low[i] : i \in 1..n} : \A y \in {low[i] : i \in 1..n} : x >= y
      BY <1>6
    <2> QED
      BY <2>1 DEF Max
  <1> QED
    BY <1>3, <1>4, <1>7, <1>8 DEF LargestX, LargestY

LEMMA InvReached ==
  ASSUME Inv, Border > 0, Filled(server)
  PROVE  FloatersInReach
  <1> SUFFICES ASSUME Accurate, NEW c \in Clients, FocusMayBe(c), client[c].mode = "fl"
               PROVE  Shows(server, client[c].box)
    BY DEF FloatersInReach
  <1> DEFINE b == client[c].box
  <1>1. InReach(monitors[current], b)
    BY NowIs DEF Inv, Reached, FocusMayBe, Mapped
  <1>2. b.x \in Int /\ b.y \in Int /\ b.w \in Nat /\ b.h \in Nat
    BY NowTyped DEF Inv, Record, Box
  <1>3. server \in Seq(Output) /\ server # <<>>
    BY PrimaryOf DEF Inv, TypeInv, AreOutputs
  <1>4. Border \in Nat /\ Gap \in Nat
    BY SizesAssumption
  <1>5. \A o \in All(server) : o.x \in Int /\ o.y \in Int /\ o.w \in Nat /\ o.h \in Nat
    <2>1. \A o \in All(server) : o \in Output
      BY <1>3 DEF All
    <2> QED
      BY <2>1 DEF Output
  <1> HIDE DEF b
  <1>6. OnOutput(server, b.x, b.y)
    <2>1. CASE b.x = Gap /\ b.y = Gap
      BY <2>1 DEF Filled
    <2>2. CASE InBounds(monitors[current], b)
      <3>1. monitors[current] # <<>>
        <4>2. server[1] \in All(server)
          BY <1>3 DEF All
        <4>1. Where(server) # {}
          BY <4>2 DEF Where
        <4> QED
          BY <4>1 DEF Accurate, Where, All
      <3>2. InBounds(server, b)
        BY <2>2, <3>1, <1>3, SameRectangle DEF Accurate, InBounds
      <3>3. LargestX(server) \in Int /\ LargestY(server) \in Int
        BY <1>3, RectangleEnds
      <3>4. /\ SmallestX(server) <= b.x /\ b.x < LargestX(server)
            /\ SmallestY(server) <= b.y /\ b.y < LargestY(server)
        BY <3>2, <3>3, <1>2, <1>4 DEF InBounds
      <3> QED
        BY <3>4, <1>2 DEF Filled
    <2> QED
      BY <2>1, <2>2, <1>1 DEF InReach
  <1>7. PICK o \in All(server) : b.x < o.x + o.w /\ o.x <= b.x /\ b.y < o.y + o.h /\ o.y <= b.y
    BY <1>6 DEF OnOutput
  <1>8. o.x < b.x + b.w + 2 * Border /\ o.y < b.y + b.h + 2 * Border
    BY <1>2, <1>4, <1>5, <1>7
  <1> QED
    BY <1>7, <1>8 DEF Shows, b

-----------------------------------------------------------------------------
(* The theorems.                                                           *)

(* Whatever the outputs, the windows, the keys and the pointer do, the     *)
(* types are kept, and the monitors are those of the last update.          *)
THEOREM TypeInvariant == Spec => []TypeInv
  <1>1. Init => TypeInv
    BY InitStep DEF Inv
  <1>2. TypeInv /\ [Next]_vars => TypeInv'
    BY NextStep
  <1> QED
    BY <1>1, <1>2, PTL DEF Spec

(* Every state of Screens is well typed.                                   *)
THEOREM ScreensTypeCorrect == Spec => []TypeOK
  <1>1. TypeInv => TypeOK
    BY TypeInvTypes
  <1> QED
    BY <1>1, TypeInvariant, PTL

(* update_monitors keeps the monitors of all workspaces the same, and when *)
(* the last event is read they are the outputs: for any outputs that come  *)
(* and go together, in any number of changes.                              *)
THEOREM MonitorsFollowServer == Spec => []FollowsServer
  <1>1. TypeInv => FollowsServer
    BY TypeInvFollows
  <1> QED
    BY <1>1, TypeInvariant, PTL

(* get_adjacent_monitor finds the nearest monitor on a side, and none only *)
(* where there is none, for any number of monitors in any places.          *)
THEOREM MonitorsHaveNeighbours == Spec => []NeighbourIsNearest
  <1>1. TypeInv => NeighbourIsNearest
    BY TypeInvNearest
  <1> QED
    BY <1>1, TypeInvariant, PTL

(* All that is true of clients and their monitors, unless toggle-float is  *)
(* pressed for a window whose corner is on no monitor.                     *)
THEOREM ScreensInvariant == Spec /\ [][~TogglesAway]_vars => []Inv
  <1>1. Init => Inv
    BY InitStep
  <1>2. Inv /\ [Next]_vars /\ [~TogglesAway]_vars => Inv'
    <2>1. CASE UNCHANGED vars
      BY <2>1, StutterStep DEF Inv
    <2>2. CASE ~TogglesAway
      BY <2>2, NextStep DEF Inv
    <2> QED
      BY <2>1, <2>2
  <1> QED
    BY <1>1, <1>2, PTL DEF Spec

(* No client is lost and none is in two places, through outputs that come  *)
(* and go, moves and restarts, unless toggle-float is pressed for a window *)
(* whose corner is on no monitor, which loses it (screens_float).          *)
THEOREM ClientsHeldOnce == Spec /\ [][~TogglesAway]_vars => []HeldOnce
  <1>1. Inv => HeldOnce
    BY InvHoldsOnce
  <1> QED
    BY <1>1, ScreensInvariant, PTL

(* Pointer, keys and outputs leave some of every floating window on an     *)
(* output, as long as the records have the outputs where they are, if the  *)
(* outputs fill a rectangle with the corner in it and windows have a       *)
(* border.                                                                 *)
THEOREM FloatersStayInReach ==
  ASSUME Border > 0, \A su \in Setups : \A outputs \in su.layouts : Filled(outputs)
  PROVE  Spec /\ [][~TogglesAway]_vars => []FloatersInReach
  <1>1. Inv => FloatersInReach
    BY InvReached DEF Inv, TypeInv
  <1> QED
    BY <1>1, ScreensInvariant, PTL

(* No drag outlives the grab of the pointer.                               *)
THEOREM DragsHaveGrab == Spec /\ [][~TogglesAway]_vars => []DragHasGrab
  <1>1. Inv => DragHasGrab
    BY DEF Inv
  <1> QED
    BY <1>1, ScreensInvariant, PTL

(* A window leaves its monitor by the key for that, with the outputs, when *)
(* it stops floating elsewhere, and by a restart, and never otherwise.     *)
THEOREM ClientsKeepMonitor == Spec /\ [][~TogglesAway]_vars => KeepsMonitor
  <1> DEFINE A == \A c \in Clients \ Docks :
                    client[c].state # "out" /\ client'[c].state # "out"
                      => \/ MonitorOf(c)' = MonitorOf(c)
                         \/ ScreenChange
                         \/ \E direction \in Directions : MoveWinMonitor(c, direction)
                         \/ ToggleFloat(c) /\ client[c].mode = "fl"
                         \/ Restart
  <1>1. ASSUME Inv, Inv', ~TogglesAway, [Next]_vars PROVE A
    <2> SUFFICES ASSUME NEW c \in Clients \ Docks,
                        client[c].state # "out", client'[c].state # "out"
                 PROVE  \/ MonitorOf(c)' = MonitorOf(c)
                        \/ ScreenChange
                        \/ \E direction \in Directions : MoveWinMonitor(c, direction)
                        \/ ToggleFloat(c) /\ client[c].mode = "fl"
                        \/ Restart
      OBVIOUS
    <2>1. CASE StaysHere(c)
      BY <1>1, <2>1, StaysOnMonitor
    <2> QED
      BY <1>1, <2>1, StaysStep
  <1>2. Inv /\ Inv' /\ [~TogglesAway]_vars /\ [Next]_vars => [A]_vars
    BY <1>1
  <1> QED
    BY <1>2, ScreensInvariant, PTL DEF Spec, KeepsMonitor
=============================================================================
