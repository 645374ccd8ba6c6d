----------------------- MODULE FocusVisibility_proofs -----------------------
(***************************************************************************)
(* That Focus implements Visibility, with View as the refinement mapping:  *)
(* what each handler and key does to the records of the clients and to the *)
(* one queue of events is what Visibility does to one client's record and  *)
(* its notices, and the focus it acts on is one Visibility allows.         *)
(***************************************************************************)
EXTENDS Focus_proofs

-----------------------------------------------------------------------------
(* The notices of a client, in the queue.                                  *)

Hearing == INSTANCE Loops WITH Step <- Hear

(* f is the course of the search for c's notices in q.                     *)
Course(f, c, q) ==
  f[0] = <<>> /\ \A k \in 1..Len(q) : f[k] = Hear(c, f[k - 1], q[k])
LEMMA CourseAlong ==
  ASSUME NEW c, NEW q \in Seq(Events), NEW f, Course(f, c, q)
  PROVE  Hearing!Along(c, <<>>, q) = f[Len(q)]
  <1> DEFINE Stage == [k \in 0..Len(q) |-> {f[k]}]
  <1>1. Len(q) \in Nat /\ 0 \in 0..Len(q) /\ Len(q) \in 0..Len(q)
    OBVIOUS
  <1>2. <<>> \in Stage[0]
    BY <1>1 DEF Course
  <1>3. ASSUME NEW k \in 1..Len(q), NEW t \in Stage[k - 1] PROVE Hear(c, t, q[k]) \in Stage[k]
    <2>1. k \in 0..Len(q) /\ k - 1 \in 0..Len(q)
      BY <1>1
    <2>2. t = f[k - 1]
      BY <2>1
    <2>3. f[k] = Hear(c, f[k - 1], q[k])
      BY DEF Course
    <2> QED
      BY <2>1, <2>2, <2>3
  <1>4. Hearing!Along(c, <<>>, q) \in Stage[Len(q)]
    <2> HIDE DEF Stage
    <2> QED
      BY <1>2, <1>3, Hearing!AlongStages
  <1> QED
    BY <1>1, <1>4
LEMMA CourseExists ==
  ASSUME NEW c, NEW q \in Seq(Events)
  PROVE  \E f \in [0..Len(q) -> Seq(V!Notices)] : Course(f, c, q)
  <1>0. \A k \in 1..Len(q) : q[k] \in Events /\ k \in Nat
    OBVIOUS
  <1> DEFINE N == Seq(V!Notices)
             Part(f, k) == f[0] = <<>> /\ \A i \in 1..k : f[i] = Hear(c, f[i - 1], q[i])
             Stage == [k \in 0..Len(q) |-> {v \in N : \E f \in [0..k -> N] : Part(f, k) /\ f[k] = v}]
  <1>1. Len(q) \in Nat /\ 0 \in 0..Len(q) /\ Len(q) \in 0..Len(q)
    OBVIOUS
  <1>2. <<>> \in Stage[0]
    <2> DEFINE f == [i \in 0..0 |-> <<>>]
    <2>1. f \in [0..0 -> N] /\ Part(f, 0) /\ f[0] = <<>> /\ <<>> \in N
      OBVIOUS
    <2> QED
      BY <1>1, <2>1
  <1>3. ASSUME NEW k \in 1..Len(q), NEW t \in Stage[k - 1] PROVE Hear(c, t, q[k]) \in Stage[k]
    <2>1. k \in 0..Len(q) /\ k - 1 \in 0..Len(q)
      BY <1>1
    <2>2. PICK f \in [0..(k - 1) -> N] : Part(f, k - 1) /\ f[k - 1] = t
      BY <2>1
    <2>3. t \in N
      BY <2>1
    <2>4. PICK u : u = Hear(c, t, q[k])
      OBVIOUS
    <2>5. u \in N
      <3>1. PICK e \in Events : e = q[k]
        <4> HIDE DEF N, Stage, Part
        <4> QED
          BY <1>0
      <3>2. CASE e.of = c /\ e.what \in V!Notices
        BY <2>3, <2>4, <3>1, <3>2 DEF Hear
      <3>3. CASE ~(e.of = c /\ e.what \in V!Notices)
        BY <2>3, <2>4, <3>1, <3>3 DEF Hear, V!Notices
      <3> QED
        BY <3>2, <3>3
    <2> DEFINE g == [i \in 0..k |-> IF i = k THEN u ELSE f[i]]
    <2>6. g \in [0..k -> N] /\ g[k] = u /\ \A i \in 0..(k - 1) : g[i] = f[i]
      <3>1. /\ \A i \in 0..k : i = k \/ i \in 0..(k - 1)
            /\ \A i \in 0..(k - 1) : i \in 0..k /\ i # k
            /\ k \in 0..k
        <4> HIDE DEF N, Stage, Part
        <4>1. k \in Nat
          BY <1>0
        <4> QED
          BY <4>1
      <3> HIDE DEF N, Stage, Part
      <3>2. \A i \in 0..k : g[i] \in N
        BY <2>5, <3>1
      <3> QED
        BY <3>1, <3>2
    <2> HIDE DEF g
    <2>7. Part(g, k)
      <3>1. g[0] = <<>>
        BY <2>1, <2>2, <2>6
      <3>2. ASSUME NEW i \in 1..k PROVE g[i] = Hear(c, g[i - 1], q[i])
        <4>1. CASE i = k
          <5>1. g[k - 1] = t
            BY <2>1, <2>2, <2>6
          <5> QED
            BY <2>4, <2>6, <4>1, <5>1
        <4>2. CASE i # k
          <5>1. i \in 1..(k - 1) /\ i \in 0..(k - 1) /\ i - 1 \in 0..(k - 1)
            BY <2>1, <4>2
          <5> QED
            BY <2>2, <2>6, <5>1
        <4> QED
          BY <4>1, <4>2
      <3> QED
        BY <3>1, <3>2
    <2> QED
      BY <2>1, <2>4, <2>5, <2>6, <2>7
  <1>4. Hearing!Along(c, <<>>, q) \in Stage[Len(q)]
    <2> HIDE DEF Stage
    <2> QED
      BY <1>2, <1>3, Hearing!AlongStages
  <1>5. PICK f \in [0..Len(q) -> N] : Part(f, Len(q))
    BY <1>1, <1>4
  <1> QED
    BY <1>5 DEF Course
LEMMA CourseEnds ==
  ASSUME NEW c, NEW q \in Seq(Events), NEW f, Course(f, c, q)
  PROVE  NoticesOf(q, c) = f[Len(q)]
  <1> DEFINE IsTrack(g) == g = [k \in 0..Len(q) |-> IF k = 0 THEN <<>> ELSE Hear(c, g[k - 1], q[k])]
             track == CHOOSE g : IsTrack(g)
  <1>1. Len(q) \in Nat
    OBVIOUS
  <1>2. PICK h \in [0..Len(q) -> Seq(V!Notices)] : Course(h, c, q)
    BY CourseExists
  <1>3. IsTrack(h)
    <2>1. \A k \in 0..Len(q) : k # 0 => k \in 1..Len(q)
      BY <1>1
    <2>2. \A k \in 0..Len(q) : h[k] = IF k = 0 THEN <<>> ELSE Hear(c, h[k - 1], q[k])
      BY <1>2, <2>1 DEF Course
    <2> QED
      BY <1>2, <2>2
  <1>4. IsTrack(track)
    <2> HIDE DEF IsTrack
    <2> QED
      BY <1>3
  <1>5. NoticesOf(q, c) = track[Len(q)]
    BY DEF NoticesOf
  <1> HIDE DEF track
  <1>6. Course(track, c, q)
    <2>1. \A k \in 1..Len(q) : k \in 0..Len(q) /\ k # 0
      BY <1>1
    <2>2. 0 \in 0..Len(q)
      BY <1>1
    <2>3. track[0] = <<>>
      BY <1>4, <2>2
    <2>4. \A k \in 1..Len(q) : track[k] = Hear(c, track[k - 1], q[k])
      BY <1>4, <2>1
    <2> QED
      BY <2>3, <2>4 DEF Course
  <1> QED
    BY <1>5, <1>6, CourseAlong

LEMMA NoticesType ==
  ASSUME NEW c, NEW q \in Seq(Events)
  PROVE  NoticesOf(q, c) \in Seq(V!Notices)
  <1>1. PICK f \in [0..Len(q) -> Seq(V!Notices)] : Course(f, c, q)
    BY CourseExists
  <1>2. NoticesOf(q, c) = f[Len(q)] /\ Len(q) \in 0..Len(q)
    BY <1>1, CourseEnds
  <1> QED
    BY <1>1, <1>2

LEMMA NoticesJoined ==
  ASSUME NEW c, NEW a \in Seq(Events), NEW b \in Seq(Events)
  PROVE  NoticesOf(a \o b, c) = NoticesOf(a, c) \o NoticesOf(b, c)
  <1> DEFINE N == Seq(V!Notices)
  <1>1. PICK f \in [0..Len(a) -> N] : Course(f, c, a)
    BY CourseExists
  <1>2. PICK g \in [0..Len(b) -> N] : Course(g, c, b)
    BY CourseExists
  <1>3. PICK q : q = a \o b
    OBVIOUS
  <1>4. /\ q \in Seq(Events) /\ Len(q) = Len(a) + Len(b) /\ Len(a) \in Nat /\ Len(b) \in Nat
        /\ \A i \in 1..Len(a) : q[i] = a[i]
        /\ \A i \in 1..Len(b) : q[Len(a) + i] = b[i]
    BY <1>3
  <1>5. PICK fa \in N : fa = f[Len(a)]
    <2>1. Len(a) \in 0..Len(a)
      BY <1>4
    <2> HIDE DEF N
    <2> QED
      BY <2>1
  <1> DEFINE h == [k \in 0..Len(q) |-> IF k <= Len(a) THEN f[k] ELSE fa \o g[k - Len(a)]]
  <1>6. /\ \A k \in 0..Len(a) : h[k] = f[k]
        /\ \A j \in 0..Len(b) : h[Len(a) + j] = fa \o g[j]
    <2>1. \A k \in 0..Len(a) : h[k] = f[k]
      BY <1>4
    <2>2. ASSUME NEW j \in 0..Len(b) PROVE h[Len(a) + j] = fa \o g[j]
      <3>1. CASE j = 0
        <4>1. g[0] = <<>> /\ fa \o <<>> = fa
          BY <1>2, <1>5 DEF Course
        <4>2. h[Len(a) + 0] = f[Len(a)]
          BY <1>4
        <4> QED
          BY <1>5, <3>1, <4>1, <4>2
      <3>2. CASE j # 0
        <4>1. Len(a) + j \in 0..Len(q) /\ ~(Len(a) + j <= Len(a)) /\ (Len(a) + j) - Len(a) = j
          BY <1>4, <3>2
        <4> QED
          BY <4>1
      <3> QED
        BY <3>1, <3>2
    <2> QED
      BY <2>1, <2>2
  <1> HIDE DEF h
  <1>7. Course(h, c, q)
    <2>1. h[0] = <<>>
      BY <1>1, <1>4, <1>6 DEF Course
    <2>2. ASSUME NEW k \in 1..Len(q) PROVE h[k] = Hear(c, h[k - 1], q[k])
      <3>1. CASE k <= Len(a)
        <4>1. k \in 1..Len(a) /\ k \in 0..Len(a) /\ k - 1 \in 0..Len(a)
          BY <1>4, <3>1
        <4> QED
          BY <1>1, <1>4, <1>6, <4>1 DEF Course
      <3>2. CASE ~(k <= Len(a))
        <4>1. PICK j \in 1..Len(b) : k = Len(a) + j
          <5>1. k - Len(a) \in 1..Len(b) /\ k = Len(a) + (k - Len(a))
            BY <1>4, <3>2
          <5> QED
            BY <5>1
        <4>2. j \in 0..Len(b) /\ j - 1 \in 0..Len(b) /\ k - 1 = Len(a) + (j - 1)
          BY <1>4, <4>1
        <4>3. h[k] = fa \o g[j] /\ h[k - 1] = fa \o g[j - 1] /\ q[k] = b[j]
          BY <1>4, <1>6, <4>1, <4>2
        <4>4. g[j] = Hear(c, g[j - 1], b[j]) /\ g[j - 1] \in N /\ b[j] \in Events
          BY SMTT(60), <1>2, <4>1, <4>2 DEF Course
        <4>5. fa \o Hear(c, g[j - 1], b[j]) = Hear(c, fa \o g[j - 1], b[j])
          <5>1. PICK x \in N : x = g[j - 1]
            BY <4>4
          <5>2. CASE b[j].of = c /\ b[j].what \in V!Notices
            <6>1. PICK y \in V!Notices : y = b[j].what
              BY <5>2
            <6>2. fa \o Append(x, y) = Append(fa \o x, y)
              OBVIOUS
            <6> QED
              BY <5>1, <5>2, <6>1, <6>2 DEF Hear
          <5>3. CASE ~(b[j].of = c /\ b[j].what \in V!Notices)
            BY <5>1, <5>3 DEF Hear, V!Notices
          <5> QED
            BY <5>2, <5>3
        <4> QED
          BY <4>3, <4>4, <4>5
      <3> QED
        BY <3>1, <3>2
    <2> QED
      BY <2>1, <2>2 DEF Course
  <1>8. NoticesOf(q, c) = h[Len(q)] /\ NoticesOf(a, c) = f[Len(a)] /\ NoticesOf(b, c) = g[Len(b)]
    BY <1>1, <1>2, <1>4, <1>7, CourseEnds
  <1>9. h[Len(q)] = fa \o g[Len(b)]
    <2>1. Len(b) \in 0..Len(b)
      BY <1>4
    <2> QED
      BY <1>4, <1>6, <2>1
  <1> QED
    BY <1>3, <1>5, <1>8, <1>9
LEMMA NoticesOne ==
  ASSUME NEW c, NEW e \in Events
  PROVE  /\ <<e>> \in Seq(Events) /\ NoticesOf(<<>>, c) = <<>>
         /\ NoticesOf(<<e>>, c) = IF e.of = c /\ e.what \in V!Notices THEN <<e.what>> ELSE <<>>
  <1>1. NoticesOf(<<>>, c) = <<>>
    <2>1. PICK q \in Seq(Events) : q = <<>> /\ Len(q) = 0
      <3>1. <<>> \in Seq(Events) /\ Len(<<>>) = 0
        OBVIOUS
      <3> QED
        BY <3>1
    <2>2. PICK f \in [0..Len(q) -> Seq(V!Notices)] : Course(f, c, q)
      BY CourseExists
    <2>3. NoticesOf(q, c) = f[Len(q)]
      BY <2>2, CourseEnds
    <2> QED
      BY <2>1, <2>2, <2>3 DEF Course
  <1>2. PICK q \in Seq(Events) : q = <<e>>
    <2>1. <<e>> \in Seq(Events)
      OBVIOUS
    <2> QED
      BY <2>1
  <1>3. PICK f \in [0..Len(q) -> Seq(V!Notices)] : Course(f, c, q)
    BY CourseExists
  <1>4. NoticesOf(q, c) = f[Len(q)]
    BY <1>3, CourseEnds
  <1>5. Len(q) = 1 /\ q[1] = e
    BY <1>2
  <1>6. f[1] = Hear(c, <<>>, e)
    <2>1. f[0] = <<>> /\ f[1] = Hear(c, f[1 - 1], q[1])
      BY <1>3, <1>5 DEF Course
    <2> QED
      BY <1>5, <2>1
  <1>7. Hear(c, <<>>, e) = IF e.of = c /\ e.what \in V!Notices THEN <<e.what>> ELSE <<>>
    BY DEF Hear, V!Notices
  <1> QED
    BY <1>1, <1>2, <1>4, <1>5, <1>6, <1>7

(* The event that is read is the oldest of its client.                     *)
LEMMA NoticesRead ==
  ASSUME NEW c, NEW q \in Seq(Events), q # <<>>
  PROVE  NoticesOf(q, c) =
           IF Head(q).of = c /\ Head(q).what \in V!Notices
             THEN <<Head(q).what>> \o NoticesOf(Tail(q), c) ELSE NoticesOf(Tail(q), c)
  <1>1. PICK e, r : e = Head(q) /\ r = Tail(q)
    OBVIOUS
  <1>2. e \in Events /\ r \in Seq(Events) /\ <<e>> \in Seq(Events) /\ q = <<e>> \o r
    BY <1>1
  <1>3. NoticesOf(q, c) = NoticesOf(<<e>>, c) \o NoticesOf(r, c)
    BY <1>2, NoticesJoined
  <1>4. PICK n \in Seq(V!Notices) : n = NoticesOf(r, c)
    BY <1>2, NoticesType
  <1>5. <<>> \o n = n
    OBVIOUS
  <1>6. NoticesOf(<<e>>, c) = IF e.of = c /\ e.what \in V!Notices THEN <<e.what>> ELSE <<>>
    BY <1>2, NoticesOne
  <1> QED
    BY <1>1, <1>3, <1>4, <1>5, <1>6

(* Some events late.                                                       *)
LEMMA NoticesAlike ==
  ASSUME NEW c, NEW q \in Seq(Events), NEW q2 \in Seq(Events), Len(q2) = Len(q),
         \A k \in 1..Len(q) : q2[k].what = q[k].what /\ q2[k].of = q[k].of
  PROVE  NoticesOf(q2, c) = NoticesOf(q, c)
  <1>1. PICK f \in [0..Len(q) -> Seq(V!Notices)] : Course(f, c, q)
    BY CourseExists
  <1>2. Course(f, c, q2)
    BY <1>1 DEF Course, Hear
  <1> QED
    BY <1>1, <1>2, CourseEnds

(* Events that are no notices of c.                                        *)
LEMMA NoticesNone ==
  ASSUME NEW c, NEW q \in Seq(Events),
         \A k \in 1..Len(q) : q[k].of # c \/ q[k].what \notin V!Notices
  PROVE  NoticesOf(q, c) = <<>>
  <1> DEFINE f == [k \in 0..Len(q) |-> <<>>]
  <1>1. Len(q) \in Nat
    OBVIOUS
  <1>2. f[Len(q)] = <<>> /\ f[0] = <<>> /\ \A k \in 1..Len(q) : f[k] = <<>> /\ f[k - 1] = <<>>
    BY <1>1
  <1> HIDE DEF f
  <1>3. Course(f, c, q)
    BY <1>2 DEF Course, Hear, V!Notices
  <1> QED
    BY <1>2, <1>3, CourseEnds

(* Without the keys.                                                       *)
LEMMA NoticesCleared ==
  ASSUME NEW c, c # None, NEW q \in Seq(Events)
  PROVE  /\ Clearing!Along(q, <<>>, q) \in Seq(Events)
         /\ NoticesOf(Clearing!Along(q, <<>>, q), c) = NoticesOf(q, c)
  <1>1. PICK f \in [0..Len(q) -> Seq(V!Notices)] : Course(f, c, q)
    BY CourseExists
  <1> DEFINE Stage == [k \in 0..Len(q) |-> {t \in Seq(Events) : NoticesOf(t, c) = f[k]}]
  <1>2. Len(q) \in Nat /\ 0 \in 0..Len(q) /\ Len(q) \in 0..Len(q)
    OBVIOUS
  <1>3. <<>> \in Stage[0]
    <2>1. \E e : e \in Events
      BY DEF Events, V!Notices
    <2>2. NoticesOf(<<>>, c) = <<>>
      BY <2>1, NoticesOne
    <2> QED
      BY <1>1, <1>2, <2>2 DEF Course
  <1>4. ASSUME NEW k \in 1..Len(q), NEW t \in Stage[k - 1] PROVE Clear(q, t, q[k]) \in Stage[k]
    <2>1. k \in 0..Len(q) /\ k - 1 \in 0..Len(q)
      BY <1>2
    <2>2. t \in Seq(Events) /\ NoticesOf(t, c) = f[k - 1]
      BY <2>1
    <2>3. PICK e \in Events : e = q[k]
      OBVIOUS
    <2>4. f[k] = Hear(c, f[k - 1], e)
      BY <1>1, <2>3 DEF Course
    <2>5. CASE e.what = "key"
      <3>1. f[k] = f[k - 1]
        BY <2>4, <2>5 DEF Hear
      <3> QED
        BY <2>1, <2>2, <2>3, <2>5, <3>1 DEF Clear
    <2>6. CASE e.what # "key"
      <3>1. <<e>> \in Seq(Events) /\ Append(t, e) = t \o <<e>>
            /\ Append(t, e) \in Seq(Events)
        BY <2>2
      <3>2. NoticesOf(Append(t, e), c) = NoticesOf(t, c) \o NoticesOf(<<e>>, c)
        BY ZenonT(60), <2>2, <3>1, NoticesJoined
      <3>3. PICK n \in Seq(V!Notices) : n = f[k - 1]
        BY <1>1, <2>1
      <3>4. CASE e.of = c /\ e.what \in V!Notices
        <4>1. PICK w \in V!Notices : w = e.what
          BY <3>4
        <4>2. Append(n, w) = n \o <<w>>
          OBVIOUS
        <4>3. NoticesOf(<<e>>, c) = <<w>>
          BY <3>4, <4>1, NoticesOne
        <4>4. f[k] = Append(n, w)
          BY <2>4, <3>3, <3>4, <4>1 DEF Hear, V!Notices
        <4> QED
          BY <2>1, <2>2, <2>3, <2>6, <3>1, <3>2, <3>3, <4>2, <4>3, <4>4 DEF Clear
      <3>5. CASE ~(e.of = c /\ e.what \in V!Notices)
        <4>1. NoticesOf(<<e>>, c) = <<>>
          BY <3>5, NoticesOne
        <4>2. n \o <<>> = n
          OBVIOUS
        <4>3. f[k] = n
          BY <2>4, <3>3, <3>5 DEF Hear, V!Notices
        <4> QED
          BY <2>1, <2>2, <2>3, <2>6, <3>1, <3>2, <3>3, <4>1, <4>2, <4>3 DEF Clear
      <3> QED
        BY <3>4, <3>5
    <2> QED
      BY <2>5, <2>6
  <1>5. Clearing!Along(q, <<>>, q) \in Stage[Len(q)]
    <2> HIDE DEF Stage
    <2> QED
      BY <1>3, <1>4, Clearing!AlongStages
  <1>6. NoticesOf(q, c) = f[Len(q)]
    BY <1>1, CourseEnds
  <1> QED
    BY <1>2, <1>5, <1>6

(* The events ns makes of c.                                               *)
Notices(c, ns) == [i \in DOMAIN ns |-> Event(ns[i], c)]

LEMMA NoticesTold ==
  ASSUME NEW c \in Clients, NEW ns \in Seq(V!Notices)
  PROVE  /\ Notices(c, ns) \in Seq(Events)
         /\ NoticesOf(Notices(c, ns), c) = ns
         /\ \A d : d # c => NoticesOf(Notices(c, ns), d) = <<>>
  <1>1. PICK q : q = Notices(c, ns)
    OBVIOUS
  <1>2. /\ q \in Seq(Events) /\ Len(q) = Len(ns) /\ Len(q) \in Nat
        /\ \A i \in 1..Len(q) : q[i].what = ns[i] /\ q[i].of = c
    <2>1. DOMAIN ns = 1..Len(ns) /\ Len(ns) \in Nat /\ \A i \in 1..Len(ns) : ns[i] \in V!Notices
      OBVIOUS
    <2>2. q = [i \in 1..Len(ns) |-> Event(ns[i], c)]
      BY <1>1, <2>1 DEF Notices
    <2>3. \A i \in 1..Len(ns) : Event(ns[i], c) \in Events
      BY <2>1 DEF Events, Event
    <2>4. q \in Seq(Events) /\ Len(q) = Len(ns)
      BY <2>1, <2>2, <2>3
    <2> QED
      BY <2>1, <2>2, <2>4 DEF Event
  <1>3. NoticesOf(q, c) = ns
    <2> DEFINE f == [k \in 0..Len(q) |-> SubSeq(ns, 1, k)]
    <2>1. f[0] = <<>>
      BY <1>2
    <2>2. ASSUME NEW k \in 1..Len(q) PROVE f[k] = Hear(c, f[k - 1], q[k])
      <3>1. f[k] = SubSeq(ns, 1, k) /\ f[k - 1] = SubSeq(ns, 1, k - 1)
        <4>1. k \in 0..Len(q) /\ k - 1 \in 0..Len(q)
          BY <1>2
        <4> QED
          BY <4>1
      <3>2. PICK x, y : x = SubSeq(ns, 1, k) /\ y = SubSeq(ns, 1, k - 1)
        OBVIOUS
      <3>3. /\ x \in Seq(V!Notices) /\ Len(x) = k /\ \A i \in 1..k : x[i] = ns[i]
            /\ y \in Seq(V!Notices) /\ Len(y) = k - 1 /\ \A i \in 1..(k - 1) : y[i] = ns[i]
        BY <1>2, <3>2
      <3>4. ns[k] \in V!Notices
        BY <1>2
      <3>5. PICK z : z = Append(y, ns[k])
        OBVIOUS
      <3>6. /\ z \in Seq(V!Notices) /\ Len(z) = k /\ z[k] = ns[k]
            /\ \A i \in 1..(k - 1) : z[i] = ns[i]
        BY <1>2, <3>3, <3>4, <3>5
      <3>7. \A i \in 1..k : z[i] = x[i]
        BY <1>2, <3>3, <3>6
      <3>8. z = x
        BY <3>3, <3>6, <3>7, SeqEqual
      <3> QED
        BY <1>2, <3>1, <3>2, <3>4, <3>5, <3>8 DEF Hear, V!Notices
    <2>3. f[Len(q)] = ns
      BY <1>2
    <2> HIDE DEF f
    <2>4. Course(f, c, q)
      BY <2>1, <2>2 DEF Course
    <2> QED
      BY <1>2, <2>3, <2>4, CourseEnds
  <1>4. ASSUME NEW d, d # c PROVE NoticesOf(q, d) = <<>>
    BY <1>2, <1>4, NoticesNone
  <1> QED
    BY <1>1, <1>2, <1>3, <1>4

-----------------------------------------------------------------------------
(* What Visibility knows of a client: y shows x, with the notices of x     *)
(* behind those in a.                                                      *)
Shows(y, x, a) ==
  /\ y.win = x.win /\ y.notices = a \o x.notices
  /\ y.managed = x.managed /\ y.known = x.known /\ y.workspace = x.workspace
  /\ y.place = x.place /\ y.desktop = x.desktop /\ y.mapped = x.mapped
  /\ y.state = x.state /\ y.pending_unmap = x.pending_unmap /\ y.ul = x.ul
  /\ y.future_stay = x.future_stay /\ y.from_switch = x.from_switch
  /\ y.map_after = x.map_after /\ y.unmap_after = x.unmap_after

LEMMA ShownIs ==
  ASSUME NEW a \in Seq(V!Notices), NEW x, NEW y \in V!Client, Shows(y, x, a)
  PROVE  y = Known(x, a \o x.notices)
  <1>1. PICK n : n = a \o x.notices
    OBVIOUS
  <1>2. /\ y.win = x.win /\ y.notices = n
        /\ y.managed = x.managed /\ y.known = x.known /\ y.workspace = x.workspace
        /\ y.place = x.place /\ y.desktop = x.desktop /\ y.mapped = x.mapped
        /\ y.state = x.state /\ y.pending_unmap = x.pending_unmap /\ y.ul = x.ul
        /\ y.future_stay = x.future_stay /\ y.from_switch = x.from_switch
        /\ y.map_after = x.map_after /\ y.unmap_after = x.unmap_after
    BY <1>1 DEF Shows
  <1>3. y = Known(x, n)
    BY <1>2 DEF Known, V!Client
  <1> QED
    BY <1>1, <1>3

LEMMA KnownShows ==
  ASSUME NEW a \in Seq(V!Notices), NEW r \in Record
  PROVE  Known(r, a) \in V!Client /\ Shows(Known(r, a), r, a)
  <1>1. /\ r.win \in {"unmapped", "mapped", "gone"} /\ r.managed \in BOOLEAN /\ r.known \in BOOLEAN
        /\ r.workspace \in Workspaces \cup {NoWorkspace} /\ r.place \in Workspaces \cup {NoWorkspace}
        /\ r.desktop \in Workspaces \cup {NoWorkspace, AllWorkspaces}
        /\ r.mapped \in BOOLEAN /\ r.state \in V!States /\ r.pending_unmap \in Nat
        /\ r.ul \in {"none", "can", "stay"} /\ r.future_stay \in BOOLEAN
        /\ r.from_switch \in BOOLEAN /\ r.map_after \in BOOLEAN /\ r.unmap_after \in BOOLEAN
    BY DEF Record
  <1>2. Known(r, a) \in V!Client
    BY <1>1 DEF Known, V!Client
  <1>3. r.notices = <<>> /\ a \o <<>> = a
    BY DEF Record
  <1> QED
    BY <1>2, <1>3 DEF Known, Shows

LEMMA AppendBehind ==
  ASSUME NEW S, NEW a \in Seq(S), NEW n \in Seq(S), NEW w \in S
  PROVE  a \o Append(n, w) = Append(a \o n, w) /\ Append(a \o n, w) \in Seq(S)
  OBVIOUS

LEMMA XMapWindowShows ==
  ASSUME NEW a \in Seq(V!Notices), NEW x, IsTold(x), NEW y \in V!Client, Shows(y, x, a)
  PROVE  /\ V!XMapWindow(y) \in V!Client /\ IsTold(V!XMapWindow(x))
         /\ Shows(V!XMapWindow(y), V!XMapWindow(x), a)
  <1>1. "map" \in V!Notices
    BY DEF V!Notices
  <1>2. /\ a \o Append(x.notices, "map") = Append(a \o x.notices, "map")
        /\ Append(a \o x.notices, "map") \in Seq(V!Notices)
    BY <1>1, AppendBehind DEF IsTold
  <1>3. CASE x.win = "unmapped"
    <2>1. PICK u : u = [x EXCEPT !.win = "mapped", !.notices = Append(@, "map")]
      OBVIOUS
    <2>2. PICK v : v = [y EXCEPT !.win = "mapped", !.notices = Append(@, "map")]
      OBVIOUS
    <2>3. Shows(v, u, a)
      BY <1>2, <2>1, <2>2 DEF Shows, IsTold, Record, V!Client
    <2>4. v \in V!Client
      BY <1>2, <2>2 DEF V!Client, Shows
    <2>5. V!XMapWindow(y) = v /\ V!XMapWindow(x) = u
      BY <1>3, <2>1, <2>2 DEF V!XMapWindow, Shows
    <2> QED
      BY <2>3, <2>4, <2>5, XMapWindowIs
  <1>4. CASE x.win # "unmapped"
    BY <1>4 DEF V!XMapWindow, Shows
  <1> QED
    BY <1>3, <1>4

LEMMA XUnmapWindowShows ==
  ASSUME NEW a \in Seq(V!Notices), NEW x, IsTold(x), NEW y \in V!Client, Shows(y, x, a)
  PROVE  /\ V!XUnmapWindow(y) \in V!Client /\ IsTold(V!XUnmapWindow(x))
         /\ Shows(V!XUnmapWindow(y), V!XUnmapWindow(x), a)
  <1>1. "unmap" \in V!Notices
    BY DEF V!Notices
  <1>2. /\ a \o Append(x.notices, "unmap") = Append(a \o x.notices, "unmap")
        /\ Append(a \o x.notices, "unmap") \in Seq(V!Notices)
        /\ Append(x.notices, "unmap") \in Seq(V!Notices)
    BY <1>1, AppendBehind DEF IsTold
  <1>3. CASE x.win = "mapped"
    <2>1. PICK u : u = [x EXCEPT !.win = "unmapped", !.notices = Append(@, "unmap")]
      OBVIOUS
    <2>2. PICK v : v = [y EXCEPT !.win = "unmapped", !.notices = Append(@, "unmap")]
      OBVIOUS
    <2>3. Shows(v, u, a)
      BY <1>2, <2>1, <2>2 DEF Shows, IsTold, Record, V!Client
    <2>4. v \in V!Client
      BY <1>2, <2>2 DEF V!Client, Shows
    <2>5. V!XUnmapWindow(y) = v /\ V!XUnmapWindow(x) = u
      BY <1>3, <2>1, <2>2 DEF V!XUnmapWindow, Shows
    <2>6. IsTold(u)
      BY <1>2, <2>1 DEF IsTold, Record
    <2> QED
      BY <2>3, <2>4, <2>5, <2>6
  <1>4. CASE x.win # "mapped"
    BY <1>4 DEF V!XUnmapWindow, Shows
  <1> QED
    BY <1>3, <1>4

Sees(a, y, x) == y \in V!Client /\ IsTold(x) /\ Shows(y, x, a)

LEMMA XWindowSees ==
  ASSUME NEW a \in Seq(V!Notices), NEW x, NEW y, Sees(a, y, x)
  PROVE  Sees(a, V!XMapWindow(y), V!XMapWindow(x)) /\ Sees(a, V!XUnmapWindow(y), V!XUnmapWindow(x))
  BY XMapWindowShows, XUnmapWindowShows DEF Sees

LEMMA MapClientSees ==
  ASSUME NEW a \in Seq(V!Notices), NEW x, NEW y, Sees(a, y, x)
  PROVE  Sees(a, V!MapClient(y), V!MapClient(x))
  <1>1. PICK u : u = [x EXCEPT !.state = "MAP_PENDING"]
    OBVIOUS
  <1>2. PICK v : v = [y EXCEPT !.state = "MAP_PENDING"]
    OBVIOUS
  <1>3. Sees(a, v, u)
    <2>1. IsTold(u)
      BY <1>1, <1>2 DEF Sees, IsTold, Record, V!States
    <2>2. v \in V!Client
      BY <1>1, <1>2 DEF Sees, V!Client, V!States
    <2>3. Shows(v, u, a)
      BY <1>1, <1>2 DEF Sees, Shows, IsTold, Record, V!Client
    <2> QED
      BY <2>1, <2>2, <2>3 DEF Sees
  <1>4. Sees(a, V!XMapWindow(v), V!XMapWindow(u))
    BY <1>3, XWindowSees
  <1>5. (V!MapClient(y) = V!XMapWindow(v) /\ V!MapClient(x) = V!XMapWindow(u))
          \/ (V!MapClient(y) = y /\ V!MapClient(x) = x)
    BY <1>1, <1>2 DEF V!MapClient, V!IsClientMapped, V!IsInPlace, Sees, Shows
  <1> QED
    BY <1>4, <1>5

LEMMA UnmapClientSees ==
  ASSUME NEW a \in Seq(V!Notices), NEW x, NEW y, Sees(a, y, x)
  PROVE  Sees(a, V!UnmapClient(y), V!UnmapClient(x))
  <1>1. PICK u : u = [x EXCEPT !.state = "UNMAP_PENDING", !.pending_unmap = @ + 1]
    OBVIOUS
  <1>2. PICK v : v = [y EXCEPT !.state = "UNMAP_PENDING", !.pending_unmap = @ + 1]
    OBVIOUS
  <1>3. Sees(a, v, u)
    <2>0. PICK p \in Nat : p = x.pending_unmap + 1 /\ p = y.pending_unmap + 1
      <3>1. y.pending_unmap \in Nat /\ x.pending_unmap = y.pending_unmap
        BY DEF Sees, Shows, V!Client
      <3>2. y.pending_unmap + 1 \in Nat
        BY <3>1
      <3> QED
        BY <3>1, <3>2
    <2>1. IsTold(u)
      <3>1. u = [x EXCEPT !.state = "UNMAP_PENDING", !.pending_unmap = p]
        BY <1>1, <2>0
      <3> QED
        BY <3>1 DEF Sees, IsTold, Record, V!States
    <2>2. v \in V!Client
      <3>1. v = [y EXCEPT !.state = "UNMAP_PENDING", !.pending_unmap = p]
        BY <1>2, <2>0
      <3> QED
        BY <3>1 DEF Sees, V!Client, V!States
    <2>3. Shows(v, u, a)
      BY <1>1, <1>2, <2>0 DEF Sees, Shows, IsTold, Record, V!Client
    <2> QED
      BY <2>1, <2>2, <2>3 DEF Sees
  <1>4. Sees(a, V!XUnmapWindow(v), V!XUnmapWindow(u))
    BY <1>3, XWindowSees
  <1>5. (V!UnmapClient(y) = V!XUnmapWindow(v) /\ V!UnmapClient(x) = V!XUnmapWindow(u))
          \/ (V!UnmapClient(y) = y /\ V!UnmapClient(x) = x)
    BY <1>1, <1>2 DEF V!UnmapClient, V!IsClientMapped, Sees, Shows
  <1> QED
    BY <1>4, <1>5

LEMMA FreshSees ==
  ASSUME NEW a \in Seq(V!Notices), NEW x, NEW y, Sees(a, y, x)
  PROVE  Sees(a, V!Fresh(y), V!Fresh(x))
  <1>1. PICK u : u = V!Fresh(x)
    OBVIOUS
  <1>2. PICK v : v = V!Fresh(y)
    OBVIOUS
  <1>3. IsTold(u)
    BY <1>1 DEF Sees, IsTold, Record, V!States, V!Fresh
  <1>4. v \in V!Client
    BY ZenonT(60), <1>2 DEF Sees, V!Client, V!States, V!Fresh
  <1>5. Shows(v, u, a)
    BY <1>1, <1>2 DEF Sees, Shows, IsTold, Record, V!Client, V!Fresh
  <1> QED
    BY <1>1, <1>2, <1>3, <1>4, <1>5 DEF Sees

LEMMA StartManageSees ==
  ASSUME NEW a \in Seq(V!Notices), NEW x, NEW y, Sees(a, y, x), NEW cur \in Workspaces
  PROVE  Sees(a, V!StartManage(y, cur), V!StartManage(x, cur))
  <1> DEFINE known == x.win # "gone"
             ws == IF known /\ x.desktop \in Workspaces THEN x.desktop ELSE cur
             viewed == x.win = "mapped" /\ ws = cur
             New(r) == [V!Fresh(r) EXCEPT !.managed = TRUE, !.known = known, !.workspace = ws,
                          !.place = ws, !.desktop = IF @ = NoWorkspace THEN ws ELSE @]
             Done(r) == IF viewed THEN [New(r) EXCEPT !.mapped = TRUE, !.state = "MAPPED"]
                        ELSE [New(r) EXCEPT !.ul = "can",
                                            !.pending_unmap = IF x.win = "mapped" THEN 1 ELSE 0]
  <1>1. PICK x1, y1 : /\ x1 = IF ws = cur THEN x ELSE V!XUnmapWindow(x)
                      /\ y1 = IF ws = cur THEN y ELSE V!XUnmapWindow(y)
    OBVIOUS
  <1>2. Sees(a, y1, x1)
    BY <1>1, XWindowSees
  <1>3. PICK x2, y2 : x2 = V!Fresh(x1) /\ y2 = V!Fresh(y1)
    OBVIOUS
  <1>4. Sees(a, y2, x2)
    BY <1>2, <1>3, FreshSees
  <1>5. ws \in Workspaces /\ known \in BOOLEAN
    OBVIOUS
  <1>6. PICK w \in Workspaces, k \in BOOLEAN, vw \in BOOLEAN, p \in {0, 1} :
          w = ws /\ k = known /\ vw = viewed /\ p = IF x.win = "mapped" THEN 1 ELSE 0
    BY <1>5
  <1>7. PICK x3, y3 :
          /\ x3 = [x2 EXCEPT !.managed = TRUE, !.known = k, !.workspace = w,
                             !.place = w, !.desktop = IF @ = NoWorkspace THEN w ELSE @]
          /\ y3 = [y2 EXCEPT !.managed = TRUE, !.known = k, !.workspace = w,
                             !.place = w, !.desktop = IF @ = NoWorkspace THEN w ELSE @]
    OBVIOUS
  <1>8. Sees(a, y3, x3)
    <2>1. IsTold(x3)
      <3>1. PICK d \in Workspaces \cup {NoWorkspace, AllWorkspaces} :
              d = IF x2.desktop = NoWorkspace THEN w ELSE x2.desktop
        BY <1>4 DEF Sees, IsTold, Record
      <3>2. x3 = [x2 EXCEPT !.managed = TRUE, !.known = k, !.workspace = w, !.place = w, !.desktop = d]
        BY <1>7, <3>1
      <3>3. k \in BOOLEAN /\ w \in Workspaces
        BY <1>6
      <3> QED
        BY ZenonT(60), <1>4, <3>1, <3>2, <3>3 DEF Sees, IsTold, Record
    <2>2. y3 \in V!Client
      BY ZenonT(60), <1>4, <1>7 DEF Sees, V!Client
    <2>3. Shows(y3, x3, a)
      BY <1>4, <1>7 DEF Sees, Shows, IsTold, Record, V!Client
    <2> QED
      BY <2>1, <2>2, <2>3 DEF Sees
  <1>9. PICK x4, y4 :
          /\ x4 = IF vw THEN [x3 EXCEPT !.mapped = TRUE, !.state = "MAPPED"]
                  ELSE [x3 EXCEPT !.ul = "can", !.pending_unmap = p]
          /\ y4 = IF vw THEN [y3 EXCEPT !.mapped = TRUE, !.state = "MAPPED"]
                  ELSE [y3 EXCEPT !.ul = "can", !.pending_unmap = p]
    OBVIOUS
  <1>10. Sees(a, y4, x4)
    <2>1. CASE vw
      <3>0. /\ x4 = [x3 EXCEPT !.mapped = TRUE, !.state = "MAPPED"]
            /\ y4 = [y3 EXCEPT !.mapped = TRUE, !.state = "MAPPED"]
        BY <1>9, <2>1
      <3>1. IsTold(x4)
        BY ZenonT(60), <1>8, <3>0 DEF Sees, IsTold, Record, V!States
      <3>2. y4 \in V!Client
        BY <1>8, <3>0 DEF Sees, V!Client, V!States
      <3>3. Shows(y4, x4, a)
        BY <1>8, <3>0 DEF Sees, Shows, IsTold, Record, V!Client
      <3> QED
        BY <3>1, <3>2, <3>3 DEF Sees
    <2>2. CASE ~vw
      <3>0. /\ x4 = [x3 EXCEPT !.ul = "can", !.pending_unmap = p]
            /\ y4 = [y3 EXCEPT !.ul = "can", !.pending_unmap = p]
            /\ p \in Nat
        BY <1>6, <1>9, <2>2
      <3>1. IsTold(x4)
        BY ZenonT(60), <1>8, <3>0 DEF Sees, IsTold, Record, V!States
      <3>2. y4 \in V!Client
        BY <1>8, <3>0 DEF Sees, V!Client, V!States
      <3>3. Shows(y4, x4, a)
        BY <1>8, <3>0 DEF Sees, Shows, IsTold, Record, V!Client
      <3> QED
        BY <3>1, <3>2, <3>3 DEF Sees
    <2> QED
      BY <2>1, <2>2
  <1>11. V!StartManage(x, cur) = x4
    BY <1>1, <1>3, <1>6, <1>7, <1>9 DEF V!StartManage
  <1>12. V!StartManage(y, cur) = y4
    <2>1. y.win = x.win /\ y.desktop = x.desktop
      BY DEF Sees, Shows
    <2> QED
      BY <1>1, <1>3, <1>6, <1>7, <1>9, <2>1 DEF V!StartManage
  <1> QED
    BY <1>10, <1>11, <1>12

LEMMA HandleMapRequestSees ==
  ASSUME NEW a \in Seq(V!Notices), NEW x, NEW y, Sees(a, y, x), NEW cur \in Workspaces
  PROVE  Sees(a, V!HandleMapRequest(y, cur), V!HandleMapRequest(x, cur))
  <1>1. y.managed = x.managed /\ y.place = x.place
    BY DEF Sees, Shows
  <1> QED
    BY <1>1, MapClientSees, StartManageSees DEF V!HandleMapRequest

(* A flag is set or cleared.                                               *)
LEMMA FlagSees ==
  ASSUME NEW a \in Seq(V!Notices), NEW x, NEW y, Sees(a, y, x), NEW b \in BOOLEAN
  PROVE  /\ Sees(a, [y EXCEPT !.from_switch = b], [x EXCEPT !.from_switch = b])
         /\ Sees(a, [y EXCEPT !.map_after = b], [x EXCEPT !.map_after = b])
         /\ Sees(a, [y EXCEPT !.unmap_after = b], [x EXCEPT !.unmap_after = b])
         /\ Sees(a, [y EXCEPT !.future_stay = b], [x EXCEPT !.future_stay = b])
  <1>1. ASSUME NEW u, NEW v, u = [x EXCEPT !.from_switch = b], v = [y EXCEPT !.from_switch = b]
        PROVE  Sees(a, v, u)
    <2>1. IsTold(u)
      BY <1>1 DEF Sees, IsTold, Record
    <2>2. v \in V!Client
      BY <1>1 DEF Sees, V!Client
    <2>3. Shows(v, u, a)
      BY <1>1 DEF Sees, Shows, IsTold, Record, V!Client
    <2> QED
      BY <2>1, <2>2, <2>3 DEF Sees
  <1>2. ASSUME NEW u, NEW v, u = [x EXCEPT !.map_after = b], v = [y EXCEPT !.map_after = b]
        PROVE  Sees(a, v, u)
    <2>1. IsTold(u)
      BY <1>2 DEF Sees, IsTold, Record
    <2>2. v \in V!Client
      BY <1>2 DEF Sees, V!Client
    <2>3. Shows(v, u, a)
      BY <1>2 DEF Sees, Shows, IsTold, Record, V!Client
    <2> QED
      BY <2>1, <2>2, <2>3 DEF Sees
  <1>3. ASSUME NEW u, NEW v, u = [x EXCEPT !.unmap_after = b], v = [y EXCEPT !.unmap_after = b]
        PROVE  Sees(a, v, u)
    <2>1. IsTold(u)
      BY <1>3 DEF Sees, IsTold, Record
    <2>2. v \in V!Client
      BY <1>3 DEF Sees, V!Client
    <2>3. Shows(v, u, a)
      BY <1>3 DEF Sees, Shows, IsTold, Record, V!Client
    <2> QED
      BY <2>1, <2>2, <2>3 DEF Sees
  <1>4. ASSUME NEW u, NEW v, u = [x EXCEPT !.future_stay = b], v = [y EXCEPT !.future_stay = b]
        PROVE  Sees(a, v, u)
    <2>1. IsTold(u)
      BY <1>4 DEF Sees, IsTold, Record
    <2>2. v \in V!Client
      BY <1>4 DEF Sees, V!Client
    <2>3. Shows(v, u, a)
      BY <1>4 DEF Sees, Shows, IsTold, Record, V!Client
    <2> QED
      BY <2>1, <2>2, <2>3 DEF Sees
  <1> QED
    BY <1>1, <1>2, <1>3, <1>4

LEMMA SeenAlike ==
  ASSUME NEW a, NEW x, NEW y, Sees(a, y, x)
  PROVE  y.ul = x.ul /\ y.state = x.state /\ y.from_switch = x.from_switch
         /\ y.place = x.place /\ y.workspace = x.workspace /\ y.managed = x.managed
         /\ y.map_after = x.map_after /\ y.unmap_after = x.unmap_after
         /\ y.future_stay = x.future_stay /\ y.pending_unmap = x.pending_unmap
         /\ y.win = x.win /\ y.mapped = x.mapped
  BY DEF Sees, Shows

LEMMA LeaveSees ==
  ASSUME NEW a \in Seq(V!Notices), NEW x, NEW y, Sees(a, y, x)
  PROVE  Sees(a, V!Leave(y), V!Leave(x))
  <1>1. PICK u, v : u = V!SetUnmappedFromSwitch(x) /\ v = V!SetUnmappedFromSwitch(y)
    OBVIOUS
  <1>2. Sees(a, v, u)
    BY <1>1, FlagSees DEF V!SetUnmappedFromSwitch
  <1>3. PICK u2, v2 : u2 = V!CancelCancelPendingUnmaps(u) /\ v2 = V!CancelCancelPendingUnmaps(v)
    OBVIOUS
  <1>4. Sees(a, v2, u2)
    <2>1. (u2 = u /\ v2 = v) \/ (u2 = [u EXCEPT !.map_after = FALSE] /\ v2 = [v EXCEPT !.map_after = FALSE])
      BY <1>2, <1>3, SeenAlike DEF V!CancelCancelPendingUnmaps, V!InUnmappedList
    <2>2. Sees(a, [v EXCEPT !.map_after = FALSE], [u EXCEPT !.map_after = FALSE])
      BY <1>2, FlagSees
    <2> QED
      BY <1>2, <2>1, <2>2
  <1>5. PICK u3, v3 : u3 = V!CancelPendingMaps(u2) /\ v3 = V!CancelPendingMaps(v2)
    OBVIOUS
  <1>6. Sees(a, v3, u3)
    <2>1. (u3 = u2 /\ v3 = v2) \/ (u3 = [u2 EXCEPT !.unmap_after = TRUE] /\ v3 = [v2 EXCEPT !.unmap_after = TRUE])
      BY <1>4, <1>5, SeenAlike DEF V!CancelPendingMaps, V!InUnmappedList
    <2>2. Sees(a, [v2 EXCEPT !.unmap_after = TRUE], [u2 EXCEPT !.unmap_after = TRUE])
      BY <1>4, FlagSees
    <2> QED
      BY <1>4, <2>1, <2>2
  <1>7. Sees(a, V!UnmapClient(v3), V!UnmapClient(u3))
    BY <1>6, UnmapClientSees
  <1>8. (V!Leave(y) = v3 /\ V!Leave(x) = u3) \/ (V!Leave(y) = V!UnmapClient(v3) /\ V!Leave(x) = V!UnmapClient(u3))
    BY <1>1, <1>3, <1>5, SeenAlike DEF V!Leave, V!InUnmappedList
  <1> QED
    BY <1>6, <1>7, <1>8

LEMMA EnterSees ==
  ASSUME NEW a \in Seq(V!Notices), NEW x, NEW y, Sees(a, y, x)
  PROVE  Sees(a, V!Enter(y), V!Enter(x))
  <1>1. PICK u, v : u = V!CancelCancelPendingMaps(x) /\ v = V!CancelCancelPendingMaps(y)
    OBVIOUS
  <1>2. Sees(a, v, u)
    <2>1. (u = x /\ v = y) \/ (u = [x EXCEPT !.unmap_after = FALSE] /\ v = [y EXCEPT !.unmap_after = FALSE])
      BY <1>1, SeenAlike DEF V!CancelCancelPendingMaps, V!InUnmappedList
    <2>2. Sees(a, [y EXCEPT !.unmap_after = FALSE], [x EXCEPT !.unmap_after = FALSE])
      BY FlagSees
    <2> QED
      BY <2>1, <2>2
  <1>3. PICK u2, v2 : u2 = V!CancelPendingUnmaps(u) /\ v2 = V!CancelPendingUnmaps(v)
    OBVIOUS
  <1>4. Sees(a, v2, u2)
    <2>1. (u2 = u /\ v2 = v) \/ (u2 = [u EXCEPT !.map_after = TRUE] /\ v2 = [v EXCEPT !.map_after = TRUE])
      BY <1>2, <1>3, SeenAlike DEF V!CancelPendingUnmaps, V!InUnmappedList
    <2>2. Sees(a, [v EXCEPT !.map_after = TRUE], [u EXCEPT !.map_after = TRUE])
      BY <1>2, FlagSees
    <2> QED
      BY <1>2, <2>1, <2>2
  <1>5. Sees(a, V!MapClient(v2), V!MapClient(u2))
    BY <1>4, MapClientSees
  <1>6. (V!Enter(y) = v2 /\ V!Enter(x) = u2) \/ (V!Enter(y) = V!MapClient(v2) /\ V!Enter(x) = V!MapClient(u2))
    BY <1>1, <1>3, SeenAlike DEF V!Enter, V!InUnmappedList
  <1> QED
    BY <1>4, <1>5, <1>6

LEMMA HandleMapNotifySees ==
  ASSUME NEW a \in Seq(V!Notices), NEW x, NEW y, Sees(a, y, x), NEW cur
  PROVE  Sees(a, V!HandleMapNotify(y, cur, FALSE), V!HandleMapNotify(x, cur, FALSE))
  <1>1. PICK l \in {"none", "can", "stay"} : l = V!OutOfUnmappedList(x) /\ l = V!OutOfUnmappedList(y)
    <2>1. y.ul \in {"none", "can", "stay"} /\ y.ul = x.ul /\ y.place = x.place /\ y.workspace = x.workspace
      BY DEF Sees, Shows, V!Client
    <2> QED
      BY <2>1 DEF V!OutOfUnmappedList, V!IsInPlace
  <1>2. PICK u, v : /\ u = [x EXCEPT !.mapped = TRUE, !.state = "MAPPED", !.ul = l, !.from_switch = FALSE]
                    /\ v = [y EXCEPT !.mapped = TRUE, !.state = "MAPPED", !.ul = l, !.from_switch = FALSE]
    OBVIOUS
  <1>3. Sees(a, v, u)
    <2>1. IsTold(u)
      BY <1>2 DEF Sees, IsTold, Record, V!States
    <2>2. v \in V!Client
      BY <1>2 DEF Sees, V!Client, V!States
    <2>3. Shows(v, u, a)
      BY <1>2 DEF Sees, Shows, IsTold, Record, V!Client
    <2> QED
      BY <2>1, <2>2, <2>3 DEF Sees
  <1>4. PICK u2, v2 : u2 = [u EXCEPT !.unmap_after = FALSE] /\ v2 = [v EXCEPT !.unmap_after = FALSE]
    OBVIOUS
  <1>5. Sees(a, v2, u2)
    BY <1>3, <1>4, FlagSees
  <1>6. PICK u3, v3 : u3 = [u2 EXCEPT !.from_switch = TRUE] /\ v3 = [v2 EXCEPT !.from_switch = TRUE]
    OBVIOUS
  <1>7. Sees(a, v3, u3)
    BY <1>5, <1>6, FlagSees
  <1>8. Sees(a, V!UnmapClient(v3), V!UnmapClient(u3))
    BY <1>7, UnmapClientSees
  <1>9. /\ u3 = [u EXCEPT !.unmap_after = FALSE, !.from_switch = TRUE]
        /\ v3 = [v EXCEPT !.unmap_after = FALSE, !.from_switch = TRUE]
    BY <1>4, <1>6
  <1>10. \/ V!HandleMapNotify(y, cur, FALSE) = y /\ V!HandleMapNotify(x, cur, FALSE) = x
         \/ V!HandleMapNotify(y, cur, FALSE) = v /\ V!HandleMapNotify(x, cur, FALSE) = u
         \/ V!HandleMapNotify(y, cur, FALSE) = V!UnmapClient(v3) /\ V!HandleMapNotify(x, cur, FALSE) = V!UnmapClient(u3)
    BY <1>1, <1>2, <1>9, SeenAlike DEF V!HandleMapNotify
  <1> QED
    BY <1>3, <1>8, <1>10

(* What Focus alone keeps of a client is not seen.                         *)
LEMMA MarkedSees ==
  ASSUME NEW a \in Seq(V!Notices), NEW x, NEW y, Sees(a, y, x), NEW b \in BOOLEAN, NEW d \in Clients \cup {None}
  PROVE  /\ Sees(a, y, [x EXCEPT !.want = b]) /\ Sees(a, y, [x EXCEPT !.moved = b])
         /\ Sees(a, y, Forgotten(x))
  <1>1. ASSUME NEW u, u = [x EXCEPT !.want = b] PROVE Sees(a, y, u)
    <2>1. IsTold(u)
      BY <1>1 DEF Sees, IsTold, Record
    <2> QED
      BY <1>1, <2>1 DEF Sees, Shows
  <1>2. ASSUME NEW u, u = [x EXCEPT !.moved = b] PROVE Sees(a, y, u)
    <2>1. IsTold(u)
      BY <1>2 DEF Sees, IsTold, Record
    <2> QED
      BY <1>2, <2>1 DEF Sees, Shows
  <1>3. ASSUME NEW u, u = Forgotten(x) PROVE Sees(a, y, u)
    <2>1. IsTold(u)
      BY <1>3 DEF Sees, IsTold, Record, Forgotten
    <2> QED
      BY <1>3, <2>1 DEF Sees, Shows, Forgotten
  <1> QED
    BY <1>1, <1>2, <1>3

(* A client adds to its notices.                                           *)
LEMMA AppendSees ==
  ASSUME NEW a \in Seq(V!Notices), NEW x, NEW y, Sees(a, y, x), NEW w \in V!Notices
  PROVE  /\ Sees(a, [y EXCEPT !.notices = Append(@, w)], [x EXCEPT !.notices = Append(@, w)])
         /\ Sees(a, [y EXCEPT !.notices = Append(@, w), !.win = "gone"],
                    [x EXCEPT !.notices = Append(@, w), !.win = "gone"])
  <1>1. /\ a \o Append(x.notices, w) = Append(a \o x.notices, w)
        /\ Append(a \o x.notices, w) \in Seq(V!Notices)
        /\ Append(x.notices, w) \in Seq(V!Notices)
    BY AppendBehind DEF Sees, IsTold
  <1>2. y.notices = a \o x.notices
    BY DEF Sees, Shows
  <1>3. ASSUME NEW u, NEW v, u = [x EXCEPT !.notices = Append(@, w)], v = [y EXCEPT !.notices = Append(@, w)]
        PROVE  Sees(a, v, u)
    <2>1. IsTold(u)
      BY <1>1, <1>3 DEF Sees, IsTold, Record
    <2>2. v \in V!Client
      BY <1>1, <1>2, <1>3 DEF Sees, V!Client
    <2>3. Shows(v, u, a)
      BY <1>1, <1>2, <1>3 DEF Sees, Shows, IsTold, Record, V!Client
    <2> QED
      BY <2>1, <2>2, <2>3 DEF Sees
  <1>4. ASSUME NEW u, NEW v, u = [x EXCEPT !.notices = Append(@, w), !.win = "gone"],
               v = [y EXCEPT !.notices = Append(@, w), !.win = "gone"]
        PROVE  Sees(a, v, u)
    <2>1. IsTold(u)
      BY <1>1, <1>4 DEF Sees, IsTold, Record
    <2>2. v \in V!Client
      BY <1>1, <1>2, <1>4 DEF Sees, V!Client
    <2>3. Shows(v, u, a)
      BY <1>1, <1>2, <1>4 DEF Sees, Shows, IsTold, Record, V!Client
    <2> QED
      BY <2>1, <2>2, <2>3 DEF Sees
  <1> QED
    BY <1>3, <1>4

(* A client leaves the unmapped list's protection.                         *)
LEMMA CanSees ==
  ASSUME NEW a \in Seq(V!Notices), NEW x, NEW y, Sees(a, y, x)
  PROVE  Sees(a, [y EXCEPT !.ul = "can", !.future_stay = FALSE], [x EXCEPT !.ul = "can", !.future_stay = FALSE])
  <1>1. ASSUME NEW u, NEW v, u = [x EXCEPT !.ul = "can", !.future_stay = FALSE],
               v = [y EXCEPT !.ul = "can", !.future_stay = FALSE]
        PROVE  Sees(a, v, u)
    <2>1. IsTold(u)
      BY <1>1 DEF Sees, IsTold, Record
    <2>2. v \in V!Client
      BY <1>1 DEF Sees, V!Client
    <2>3. Shows(v, u, a)
      BY <1>1 DEF Sees, Shows, IsTold, Record, V!Client
    <2> QED
      BY <2>1, <2>2, <2>3 DEF Sees
  <1> QED
    BY <1>1

(* What an unmap that was asked for leaves of a client, before it is asked *)
(* whether the client is to be mapped again.                               *)
Noted(r) == [r EXCEPT !.state = "UNMAPPED", !.mapped = FALSE,
                      !.pending_unmap = @ - 1, !.ul = V!IntoUnmappedList(r)]

LEMMA NotedSees ==
  ASSUME NEW a \in Seq(V!Notices), NEW x, NEW y, Sees(a, y, x), x.managed, x.pending_unmap > 0
  PROVE  LET k == [V!HandleUnmapNotify([x EXCEPT !.map_after = FALSE]) EXCEPT
                     !.map_after = x.map_after, !.moved = FALSE] IN
         Sees(a, Noted(y), k)
  <1>1. PICK p \in Nat : p = x.pending_unmap - 1 /\ p = y.pending_unmap - 1
    <2>1. y.pending_unmap \in Nat /\ x.pending_unmap = y.pending_unmap
      BY DEF Sees, Shows, V!Client
    <2>2. y.pending_unmap - 1 \in Nat
      BY <2>1
    <2> QED
      BY <2>1, <2>2
  <1>2. PICK l \in {"none", "can", "stay"} : l = V!IntoUnmappedList(x) /\ l = V!IntoUnmappedList(y)
    <2>1. y.ul \in {"none", "can", "stay"} /\ y.ul = x.ul /\ y.place = x.place /\ y.workspace = x.workspace
          /\ y.future_stay = x.future_stay
      BY DEF Sees, Shows, V!Client
    <2> QED
      BY <2>1 DEF V!IntoUnmappedList, V!IsInPlace
  <1>3. PICK u : u = [x EXCEPT !.state = "UNMAPPED", !.mapped = FALSE, !.pending_unmap = p, !.ul = l,
                               !.moved = FALSE]
    OBVIOUS
  <1>4. PICK v : v = [y EXCEPT !.state = "UNMAPPED", !.mapped = FALSE, !.pending_unmap = p, !.ul = l]
    OBVIOUS
  <1>5. Sees(a, v, u)
    <2>1. IsTold(u)
      BY <1>3 DEF Sees, IsTold, Record, V!States
    <2>2. v \in V!Client
      BY <1>4 DEF Sees, V!Client, V!States
    <2>3. Shows(v, u, a)
      BY <1>3, <1>4 DEF Sees, Shows, IsTold, Record, V!Client
    <2> QED
      BY <2>1, <2>2, <2>3 DEF Sees
  <1>6. Noted(y) = v
    BY <1>1, <1>2, <1>4 DEF Noted
  <1>7. [V!HandleUnmapNotify([x EXCEPT !.map_after = FALSE]) EXCEPT !.map_after = x.map_after, !.moved = FALSE] = u
    <2>1. PICK z : z = [x EXCEPT !.map_after = FALSE]
      OBVIOUS
    <2>2. /\ z.managed = x.managed /\ z.pending_unmap = x.pending_unmap /\ z.map_after = FALSE
          /\ z.ul = x.ul /\ z.place = x.place /\ z.workspace = x.workspace /\ z.future_stay = x.future_stay
      BY <2>1 DEF Sees, IsTold, Record
    <2>3. V!IntoUnmappedList(z) = l
      BY <1>2, <2>2 DEF V!IntoUnmappedList, V!IsInPlace
    <2>4. x.pending_unmap # 0
      BY <1>1
    <2>5. V!HandleUnmapNotify(z) =
            [z EXCEPT !.state = "UNMAPPED", !.mapped = FALSE, !.pending_unmap = @ - 1, !.ul = l]
      BY <2>2, <2>3, <2>4 DEF V!HandleUnmapNotify
    <2>6. z.pending_unmap - 1 = p
      BY <1>1, <2>2
    <2>7. V!HandleUnmapNotify(z) =
            [z EXCEPT !.state = "UNMAPPED", !.mapped = FALSE, !.pending_unmap = p, !.ul = l]
      BY <2>5, <2>6
    <2>8. PICK k : k = [z EXCEPT !.state = "UNMAPPED", !.mapped = FALSE, !.pending_unmap = p, !.ul = l]
      OBVIOUS
    <2>9. [k EXCEPT !.map_after = x.map_after, !.moved = FALSE] = u
      BY <1>3, <2>1, <2>8 DEF Sees, IsTold, Record
    <2> QED
      BY <2>1, <2>7, <2>8, <2>9
  <1> QED
    BY <1>5, <1>6, <1>7

LEMMA HandleUnmapNotifyIs ==
  ASSUME NEW y \in V!Client, y.managed, y.pending_unmap > 0
  PROVE  V!HandleUnmapNotify(y) =
           IF y.map_after THEN [V!MapClient(Noted(y)) EXCEPT !.map_after = FALSE] ELSE Noted(y)
  <1>1. y.pending_unmap # 0
    BY DEF V!Client
  <1> QED
    BY <1>1 DEF V!HandleUnmapNotify, Noted

-----------------------------------------------------------------------------
(* The FocusOut of a window that is unmapped comes right behind the        *)
(* UnmapNotify.                                                            *)
Paired(q) ==
  \A i, k \in 1..Len(q) : q[i].what = "unmap" /\ q[k].what = "out" /\ Follows(q, q[i].of, i, k)
                            => k = i + 1

(* The last thing heard of the window that has the input is not that it is *)
(* unmapped.                                                               *)
LastKept(s) ==
  s.input # None =>
    \A k \in Own(s.queue, s.input) : Silent(s.queue, s.input, k) => s.queue[k].what # "unmap"

Coupled(s) == HasInput(s) /\ Paired(s.queue) /\ LastKept(s)

LEMMA ThinBack ==
  ASSUME NEW q \in Seq(Events), NEW q2 \in Seq(Events), NEW f, Thin(q, q2, f), NEW c
  PROVE  /\ \A k \in Own(q2, c) : f[k] \in Own(q, c) /\ q[f[k]].what = q2[k].what
         /\ \A i \in 0..Len(q2) : \A j \in Own(q, c) :
              f[i] < j => \E l \in Own(q2, c) : f[l] = j /\ i < l
  <1>1. /\ f \in [0..Len(q2) -> 0..Len(q)] /\ Len(q) \in Nat /\ Len(q2) \in Nat
        /\ \A i, j \in 0..Len(q2) : i < j => f[i] < f[j]
        /\ \A k \in 1..Len(q2) : q2[k].what = q[f[k]].what /\ q2[k].of = q[f[k]].of
        /\ \A j \in 1..Len(q) : j > f[0] /\ q[j].what \in Notable => \E k \in 1..Len(q2) : f[k] = j
    BY DEF Thin
  <1>2. \A k \in 1..Len(q2) : f[k] \in 1..Len(q) /\ k \in 0..Len(q2)
    <2> SUFFICES ASSUME NEW k \in 1..Len(q2) PROVE f[k] \in 1..Len(q) /\ k \in 0..Len(q2)
      OBVIOUS
    <2>1. 0 \in 0..Len(q2) /\ k \in 0..Len(q2) /\ 0 < k
      BY <1>1
    <2>2. f[0] \in 0..Len(q) /\ f[k] \in 0..Len(q) /\ f[0] < f[k]
      BY <1>1, <2>1
    <2> QED
      BY <1>1, <2>1, <2>2
  <1>3. ASSUME NEW k \in Own(q2, c) PROVE f[k] \in Own(q, c) /\ q[f[k]].what = q2[k].what
    BY <1>1, <1>2, <1>3 DEF Own
  <1>4. ASSUME NEW i \in 0..Len(q2), NEW j \in Own(q, c), f[i] < j
        PROVE  \E l \in Own(q2, c) : f[l] = j /\ i < l
    <2>1. j \in 1..Len(q) /\ q[j].what \in Notable /\ q[j].of = c
      BY <1>4 DEF Own
    <2>2. f[0] <= f[i] /\ f[0] \in Int /\ f[i] \in Int
      <3>1. 0 \in 0..Len(q2) /\ (i = 0 \/ 0 < i)
        BY <1>1
      <3>2. f[0] \in 0..Len(q) /\ f[i] \in 0..Len(q)
        BY <1>1, <3>1
      <3>3. i # 0 => f[0] < f[i]
        BY <1>1, <3>1
      <3> QED
        BY <1>1, <3>2, <3>3
    <2>3. j > f[0]
      BY <1>4, <2>1, <2>2
    <2>4. PICK l \in 1..Len(q2) : f[l] = j
      BY <1>1, <2>1, <2>3
    <2>5. l \in Own(q2, c)
      BY <1>1, <2>1, <2>4 DEF Own
    <2>6. i < l
      <3>1. l \in 0..Len(q2) /\ (l < i \/ l = i \/ i < l)
        BY <1>1, <2>4
      <3>2. l < i => f[l] < f[i]
        BY <1>1, <3>1
      <3> QED
        BY <1>4, <2>1, <2>2, <2>4, <3>1, <3>2
    <2> QED
      BY <2>4, <2>5, <2>6
  <1> QED
    BY <1>3, <1>4

LEMMA PairedThin ==
  ASSUME NEW q \in Seq(Events), NEW q2 \in Seq(Events), NEW f, Thin(q, q2, f), Paired(q)
  PROVE  Paired(q2)
  <1> SUFFICES ASSUME NEW i \in 1..Len(q2), NEW k \in 1..Len(q2), q2[i].what = "unmap",
                      q2[k].what = "out", Follows(q2, q2[i].of, i, k)
               PROVE  k = i + 1
    BY DEF Paired
  <1> DEFINE c == q2[i].of
  <1>1. k \in Own(q2, c) /\ i \in Own(q2, c) /\ i < k /\ \A j \in Own(q2, c) : ~(i < j /\ j < k)
    BY DEF Follows, Own, Notable, V!Notices
  <1>2. f[i] \in Own(q, c) /\ f[k] \in Own(q, c) /\ q[f[i]].what = "unmap" /\ q[f[k]].what = "out"
    BY <1>1, ThinBack
  <1>3. f[i] < f[k] /\ \A a, b \in 0..Len(q2) : a < b => f[a] < f[b]
    BY <1>1 DEF Thin
  <1>4. ASSUME NEW j \in Own(q, c), f[i] < j, j < f[k] PROVE FALSE
    <2>1. PICK l \in Own(q2, c) : f[l] = j /\ i < l
      BY <1>4, ThinBack
    <2>2. l \in 1..Len(q2) /\ (l < k \/ l = k \/ k < l)
      BY DEF Own
    <2>3. k < l => f[k] < f[l]
      BY <1>3, <2>2
    <2>4. f[k] \in 1..Len(q) /\ j \in 1..Len(q)
      BY <1>2 DEF Own
    <2>5. l < k
      BY <1>4, <2>1, <2>2, <2>3, <2>4
    <2> QED
      BY <1>1, <2>1, <2>5
  <1>5. q[f[i]].of = c /\ f[i] \in 1..Len(q) /\ f[k] \in 1..Len(q)
    BY <1>2 DEF Own
  <1>6. Follows(q, c, f[i], f[k])
    BY <1>2, <1>3, <1>4 DEF Follows
  <1>7. f[k] = f[i] + 1
    BY <1>2, <1>5, <1>6 DEF Paired
  <1>8. CASE k # i + 1
    <2>1. i + 1 \in 0..Len(q2) /\ i < i + 1 /\ i + 1 < k /\ i \in 0..Len(q2) /\ k \in 0..Len(q2)
      BY <1>1, <1>8
    <2>2. f[i] < f[i + 1] /\ f[i + 1] < f[k] /\ f[i + 1] \in 0..Len(q)
      BY <1>3, <2>1 DEF Thin
    <2> QED
      BY <1>5, <1>7, <2>2
  <1> QED
    BY <1>8

LEMMA CoupledThin ==
  ASSUME NEW s \in State, NEW t \in State, Coupled(s), NEW f, Thin(s.queue, t.queue, f),
         t.input = s.input, HasInput(t)
  PROVE  Coupled(t)
  <1>1. s.queue \in Seq(Events) /\ t.queue \in Seq(Events)
    BY DEF State
  <1>2. Paired(t.queue)
    BY <1>1, PairedThin DEF Coupled
  <1>3. LastKept(t)
    <2> SUFFICES ASSUME t.input # None, NEW k \in Own(t.queue, t.input), Silent(t.queue, t.input, k)
                 PROVE  t.queue[k].what # "unmap"
      BY DEF LastKept
    <2>1. f[k] \in Own(s.queue, t.input) /\ s.queue[f[k]].what = t.queue[k].what
      BY <1>1, ThinBack
    <2>2. Silent(s.queue, s.input, f[k])
      <3> SUFFICES ASSUME NEW j \in Own(s.queue, s.input), ~(j <= f[k]) PROVE FALSE
        BY DEF Silent
      <3>1. j \in Int /\ f[k] \in Int /\ k \in 0..Len(t.queue) /\ k \in Int
        BY <1>1, <2>1 DEF Own
      <3>2. PICK l \in Own(t.queue, t.input) : f[l] = j /\ k < l
        BY <1>1, <3>1, ThinBack
      <3>3. l \in Int /\ l <= k
        BY <3>2 DEF Silent, Own
      <3> QED
        BY <3>1, <3>2, <3>3
    <2> QED
      BY <2>1, <2>2 DEF Coupled, LastKept
  <1> QED
    BY <1>2, <1>3 DEF Coupled

(* More events behind.                                                     *)
LEMMA CoupledBehind ==
  ASSUME NEW s \in State, NEW t \in State, Coupled(s), NEW e \in Seq(Events),
         t.queue = s.queue \o e, HasInput(t), Paired(e),
         \A c : \A k \in 1..Len(e) : Follows(e, c, 0, k) /\ e[k].what = "out" => c = s.input,
         t.input # None => \/ t.input = s.input /\ Own(e, s.input) = {}
                           \/ e # <<>> /\ e[Len(e)].what = "in" /\ e[Len(e)].of = t.input
  PROVE  Coupled(t)
  <1> DEFINE q == s.queue
             n == Len(q)
             p == t.queue
  <1>1. /\ q \in Seq(Events) /\ n \in Nat /\ Len(e) \in Nat /\ Len(p) = n + Len(e)
        /\ \A i \in 1..n : p[i] = q[i]
        /\ \A i \in 1..Len(e) : p[n + i] = e[i]
    BY DEF State
  <1>2. None \notin Clients
    BY FocusAssumption
  <1>3. ASSUME NEW c PROVE /\ \A i \in 1..n : i \in Own(p, c) <=> i \in Own(q, c)
                           /\ \A i \in 1..Len(e) : n + i \in Own(p, c) <=> i \in Own(e, c)
    <2>1. \A i \in 1..n : i \in 1..Len(p)
      BY <1>1
    <2>2. \A i \in 1..Len(e) : n + i \in 1..Len(p)
      BY <1>1
    <2> HIDE DEF p, q, n
    <2>3. \A i \in 1..n : i \in Own(p, c) <=> i \in Own(q, c)
      BY <1>1, <2>1 DEF Own, n
    <2>4. \A i \in 1..Len(e) : n + i \in Own(p, c) <=> i \in Own(e, c)
      BY <1>1, <2>2 DEF Own
    <2> QED
      BY <2>3, <2>4
  <1>4. Paired(p)
    <2> SUFFICES ASSUME NEW i \in 1..Len(p), NEW k \in 1..Len(p), p[i].what = "unmap",
                        p[k].what = "out", Follows(p, p[i].of, i, k)
                 PROVE  k = i + 1
      BY DEF Paired
    <2> DEFINE c == p[i].of
    <2>1. k \in Own(p, c) /\ i \in Own(p, c) /\ i < k /\ \A j \in Own(p, c) : ~(i < j /\ j < k)
      BY DEF Follows, Own, Notable, V!Notices
    <2> HIDE DEF p, q, c
    <2>2. CASE k \in 1..n
      <3>1. i \in 1..n
        BY <1>1, <2>1, <2>2
      <3>2. p[i] = q[i] /\ p[k] = q[k] /\ k \in Own(q, c) /\ i \in Own(q, c)
        BY <1>1, <1>3, <2>1, <2>2, <3>1
      <3>3. ASSUME NEW j \in Own(q, c) PROVE ~(i < j /\ j < k)
        <4>1. j \in 1..n
          BY DEF Own, q
        <4>2. j \in Own(p, c)
          BY <1>3, <4>1
        <4> QED
          BY <2>1, <4>2
      <3>4. Follows(q, c, i, k)
        BY <2>1, <3>2, <3>3 DEF Follows
      <3>5. q[i].of = c
        BY <3>2 DEF Own
      <3> QED
        BY <2>2, <3>1, <3>2, <3>4, <3>5 DEF Coupled, Paired, q
    <2>3. CASE i \in 1..n /\ k \notin 1..n
      <3>1. PICK l \in 1..Len(e) : k = n + l
        <4>1. k - n \in 1..Len(e) /\ k = n + (k - n)
          BY <1>1, <2>3
        <4> QED
          BY <4>1
      <3>2. l \in Own(e, c) /\ i \in Own(q, c) /\ p[k] = e[l] /\ p[i] = q[i]
        BY <1>1, <1>3, <2>1, <2>3, <3>1
      <3>3. ASSUME NEW j \in Own(e, c) PROVE ~(0 < j /\ j < l)
        <4>1. j \in 1..Len(e)
          BY DEF Own
        <4>2. n + j \in Own(p, c)
          BY <1>3, <4>1
        <4>3. ~(i < n + j /\ n + j < n + l)
          BY <2>1, <3>1, <4>2
        <4> QED
          BY <1>1, <2>3, <3>1, <4>1, <4>3
      <3>4. Follows(e, c, 0, l)
        BY <3>1, <3>2, <3>3 DEF Follows
      <3>5. c = s.input
        BY <3>1, <3>2, <3>4
      <3>6. ASSUME NEW j \in Own(q, c) PROVE j <= i
        <4>1. j \in 1..n
          BY DEF Own, q
        <4>2. j \in Own(p, c) /\ j < k
          BY <1>1, <1>3, <2>3, <4>1
        <4>3. ~(i < j)
          BY <2>1, <4>2
        <4> QED
          BY <1>1, <2>3, <4>1, <4>3
      <3>7. Silent(q, c, i)
        BY <3>6 DEF Silent
      <3>8. s.input # None
        <4>1. q[i].of = c /\ q[i].what = "unmap" /\ q[i] \in Events
          BY <1>1, <2>3, <3>2 DEF Own
        <4> QED
          BY <1>2, <3>5, <4>1 DEF Events
      <3>9. q[i].what # "unmap"
        BY <3>2, <3>5, <3>7, <3>8 DEF Coupled, LastKept, q
      <3> QED
        BY <3>2, <3>9
    <2>4. CASE i \notin 1..n
      <3>1. PICK a \in 1..Len(e) : i = n + a
        <4>1. i - n \in 1..Len(e) /\ i = n + (i - n)
          BY <1>1, <2>4
        <4> QED
          BY <4>1
      <3>2. PICK l \in 1..Len(e) : k = n + l
        <4>1. k - n \in 1..Len(e) /\ k = n + (k - n)
          BY <1>1, <2>1, <2>4
        <4> QED
          BY <4>1
      <3>3. a \in Own(e, c) /\ l \in Own(e, c) /\ p[i] = e[a] /\ p[k] = e[l] /\ a < l
        BY <1>1, <1>3, <2>1, <3>1, <3>2
      <3>4. ASSUME NEW j \in Own(e, c) PROVE ~(a < j /\ j < l)
        <4>1. j \in 1..Len(e)
          BY DEF Own
        <4>2. n + j \in Own(p, c)
          BY <1>3, <4>1
        <4>3. ~(n + a < n + j /\ n + j < n + l)
          BY <2>1, <3>1, <3>2, <4>2
        <4> QED
          BY <1>1, <3>1, <3>2, <4>1, <4>3
      <3>5. Follows(e, c, a, l) /\ e[a].of = c
        BY <3>3, <3>4 DEF Follows, Own
      <3>6. l = a + 1
        BY <3>3, <3>5 DEF Paired
      <3> QED
        BY <1>1, <3>1, <3>2, <3>6
    <2> QED
      BY <2>2, <2>3, <2>4
  <1>5. LastKept(t)
    <2> SUFFICES ASSUME t.input # None, NEW k \in Own(p, t.input), Silent(p, t.input, k)
                 PROVE  p[k].what # "unmap"
      BY DEF LastKept
    <2>1. k \in 1..Len(p)
      BY DEF Own
    <2>2. CASE t.input = s.input /\ Own(e, s.input) = {}
      <3>1. k \in 1..n
        <4>1. ASSUME k \notin 1..n PROVE FALSE
          <5>1. k - n \in 1..Len(e) /\ k = n + (k - n)
            BY <1>1, <2>1, <4>1
          <5>2. k - n \in Own(e, s.input)
            BY <1>3, <2>2, <5>1
          <5> QED
            BY <2>2, <5>2
        <4> QED
          BY <4>1
      <3>2. k \in Own(q, s.input) /\ p[k] = q[k]
        BY <1>1, <1>3, <2>2, <3>1
      <3>3. ASSUME NEW j \in Own(q, s.input) PROVE j <= k
        <4>1. j \in 1..n
          BY DEF Own
        <4>2. j \in Own(p, s.input)
          BY <1>3, <4>1
        <4> QED
          BY <2>2, <4>2 DEF Silent
      <3>4. Silent(q, s.input, k)
        BY <3>3 DEF Silent
      <3> QED
        BY <2>2, <3>2, <3>4 DEF Coupled, LastKept
    <2>3. CASE e # <<>> /\ e[Len(e)].what = "in" /\ e[Len(e)].of = t.input
      <3>1. Len(e) \in 1..Len(e)
        BY <2>3
      <3>2. Len(e) \in Own(e, t.input)
        BY <2>3, <3>1 DEF Own, Notable
      <3>3. n + Len(e) \in Own(p, t.input) /\ p[n + Len(e)] = e[Len(e)]
        BY <1>1, <1>3, <3>1, <3>2
      <3>4. k = n + Len(e)
        BY <1>1, <2>1, <3>3 DEF Silent
      <3> QED
        BY <2>3, <3>3, <3>4
    <2> QED
      BY <2>2, <2>3
  <1> QED
    BY <1>4, <1>5 DEF Coupled

-----------------------------------------------------------------------------
(* What Visibility sees of the state a handler works on.                   *)
Seen(s, c) == Known(s.client[c], NoticesOf(s.queue, c))

Sight(s) == [c \in Clients |-> Seen(s, c)]

LEMMA SeesSeen ==
  ASSUME NEW s \in State, NEW c \in Clients
  PROVE  /\ NoticesOf(s.queue, c) \in Seq(V!Notices)
         /\ Sees(NoticesOf(s.queue, c), Seen(s, c), s.client[c])
         /\ Seen(s, c) \in V!Client /\ Seen(s, c).notices = NoticesOf(s.queue, c)
  <1>1. s.client[c] \in Record /\ s.queue \in Seq(Events)
    BY DEF State
  <1>2. NoticesOf(s.queue, c) \in Seq(V!Notices)
    BY <1>1, NoticesType
  <1>3. /\ Known(s.client[c], NoticesOf(s.queue, c)) \in V!Client
        /\ Shows(Known(s.client[c], NoticesOf(s.queue, c)), s.client[c], NoticesOf(s.queue, c))
    BY <1>1, <1>2, KnownShows
  <1>4. IsTold(s.client[c])
    BY <1>1, RecordIsTold
  <1> QED
    BY <1>2, <1>3, <1>4 DEF Sees, Seen, Known

LEMMA SightIs ==
  ASSUME NEW s, NEW t, NEW c \in Clients, NEW y, Seen(t, c) = y,
         \A d \in Clients : d # c => Seen(t, d) = Seen(s, d)
  PROVE  Sight(t) = [Sight(s) EXCEPT ![c] = y]
  BY DEF Sight

LEMMA SightSame ==
  ASSUME NEW s, NEW t, \A d \in Clients : Seen(t, d) = Seen(s, d)
  PROVE  Sight(t) = Sight(s)
  BY DEF Sight

LEMMA SightAt ==
  ASSUME NEW s, NEW c \in Clients PROVE Sight(s)[c] = Seen(s, c)
  BY DEF Sight

(* An event that is next and says that the focus is lost stays the next.   *)
OutKept(q, q2) ==
  q # <<>> /\ q[1].what = "out" => q2 # <<>> /\ q2[1].what = "out" /\ q2[1].of = q[1].of

(* From s to t a handler may go.                                           *)
Leads(s, t) ==
  /\ t \in State /\ t.current = s.current
  /\ \A w \in Workspaces : t.desk[w].tracked \in {s.desk[w].tracked, None}
  /\ OutKept(s.queue, t.queue)
  /\ Coupled(s) => Coupled(t)

(* And Visibility sees nothing of it.                                      *)
Quiet(s, t) == Leads(s, t) /\ Sight(t) = Sight(s)

LEMMA LeadsSelf ==
  ASSUME NEW s \in State PROVE Quiet(s, s) /\ Leads(s, s)
  BY DEF Leads, OutKept, Quiet

LEMMA LeadsTwice ==
  ASSUME NEW s, NEW t, NEW u, Leads(s, t), Leads(t, u)
  PROVE  Leads(s, u)
  <1>1. OutKept(s.queue, u.queue)
    BY DEF Leads, OutKept
  <1> QED
    BY <1>1 DEF Leads

LEMMA QuietTwice ==
  ASSUME NEW s, NEW t, NEW u, Quiet(s, t), Quiet(t, u)
  PROVE  Quiet(s, u)
  BY LeadsTwice DEF Quiet

LEMMA QuietSees ==
  ASSUME NEW s, NEW t, Sight(t) = Sight(s), NEW c \in Clients
  PROVE  /\ Seen(t, c) = Seen(s, c) /\ NoticesOf(t.queue, c) = NoticesOf(s.queue, c)
         /\ t.client[c].win = s.client[c].win /\ t.client[c].managed = s.client[c].managed
         /\ t.client[c].place = s.client[c].place /\ t.client[c].workspace = s.client[c].workspace
         /\ t.client[c].ul = s.client[c].ul /\ t.client[c].state = s.client[c].state
         /\ t.client[c].mapped = s.client[c].mapped /\ t.client[c].map_after = s.client[c].map_after
         /\ t.client[c].pending_unmap = s.client[c].pending_unmap
  <1>1. Seen(t, c) = Seen(s, c)
    BY SightAt
  <1> QED
    BY <1>1 DEF Seen, Known

(* The clients as they were, but for what Visibility does not see, and the *)
(* same events, but for some keys.                                         *)
LEMMA QuietThin ==
  ASSUME NEW s \in State, NEW t \in State, t.current = s.current,
         \A w \in Workspaces : t.desk[w].tracked \in {s.desk[w].tracked, None},
         \A c \in Clients : \A n : Known(t.client[c], n) = Known(s.client[c], n),
         NEW f, Thin(s.queue, t.queue, f), f[0] = 0, t.input = s.input,
         \A c \in Clients : NoticesOf(t.queue, c) = NoticesOf(s.queue, c)
  PROVE  Quiet(s, t)
  <1>1. \A c \in Clients : t.client[c].win = s.client[c].win
    BY DEF Known
  <1>2. Coupled(s) => Coupled(t)
    <2> SUFFICES ASSUME Coupled(s) PROVE Coupled(t)
      OBVIOUS
    <2>1. HasInput(t)
      BY <1>1 DEF Coupled, HasInput, State
    <2> QED
      BY <2>1, CoupledThin
  <1>3. OutKept(s.queue, t.queue)
    <2> SUFFICES ASSUME s.queue # <<>>, s.queue[1].what = "out"
                 PROVE  t.queue # <<>> /\ t.queue[1].what = "out" /\ t.queue[1].of = s.queue[1].of
      BY DEF OutKept
    <2>1. s.queue \in Seq(Events) /\ t.queue \in Seq(Events)
      BY DEF State
    <2>2. 1 \in Own(s.queue, s.queue[1].of) /\ 0 \in 0..Len(t.queue) /\ f[0] < 1
      BY <2>1 DEF Own, Notable
    <2>3. PICK l \in Own(t.queue, s.queue[1].of) : f[l] = 1 /\ 0 < l
      BY <2>1, <2>2, ThinBack
    <2>4. l \in 1..Len(t.queue)
      BY DEF Own
    <2>5. l = 1
      <3>1. ASSUME l # 1 PROVE FALSE
        <4>1. 0 \in 0..Len(t.queue) /\ 1 \in 0..Len(t.queue) /\ l \in 0..Len(t.queue) /\ 0 < 1 /\ 1 < l
          BY <2>1, <2>4, <3>1
        <4>2. f[0] < f[1] /\ f[1] < f[l] /\ f[1] \in 0..Len(s.queue)
          BY <4>1 DEF Thin
        <4> QED
          BY <2>3, <4>2
      <3> QED
        BY <3>1
    <2>6. t.queue[1].what = s.queue[f[1]].what /\ t.queue[1].of = s.queue[f[1]].of
      BY <2>4, <2>5 DEF Thin
    <2> QED
      BY <2>1, <2>3, <2>4, <2>5, <2>6
  <1>4. Sight(t) = Sight(s)
    BY SightSame DEF Seen
  <1> QED
    BY <1>2, <1>3, <1>4 DEF Quiet, Leads

LEMMA QuietArrange ==
  ASSUME NEW s \in State PROVE Quiet(s, Arrange(s))
  <1>1. Rerouted(s, Arrange(s)) /\ Arrange(s).input = s.input
    BY ArrangeIs
  <1>2. PICK f : Thin(s.queue, Arrange(s).queue, f) /\ f[0] = 0
    BY ArrangeThin
  <1>3. \A c \in Clients : NoticesOf(Arrange(s).queue, c) = NoticesOf(s.queue, c)
    <2>1. s.queue \in Seq(Events) /\ None \notin Clients
      BY FocusAssumption DEF State
    <2>2. Arrange(s).queue = Clearing!Along(s.queue, <<>>, s.queue)
      BY DEF Arrange, State
    <2> QED
      BY <2>1, <2>2, NoticesCleared
  <1>4. PICK t : t = Arrange(s)
    OBVIOUS
  <1>5. t \in State /\ t.current = s.current /\ t.client = s.client /\ t.desk = s.desk
    BY <1>1, <1>4 DEF Rerouted
  <1>6. \A w \in Workspaces : t.desk[w].tracked \in {s.desk[w].tracked, None}
    BY <1>5
  <1>7. \A c \in Clients : \A n : Known(t.client[c], n) = Known(s.client[c], n)
    BY <1>5
  <1>8. Quiet(s, t)
    BY <1>1, <1>2, <1>3, <1>4, <1>5, <1>6, <1>7, QuietThin
  <1> QED
    BY <1>4, <1>8

(* Nothing but what Visibility does not see is changed.                    *)
LEMMA QuietMarked ==
  ASSUME NEW s \in State, NEW t \in State, t.current = s.current, t.queue = s.queue, t.input = s.input,
         \A w \in Workspaces : t.desk[w].tracked \in {s.desk[w].tracked, None},
         \A c \in Clients : \A n : Known(t.client[c], n) = Known(s.client[c], n)
  PROVE  Quiet(s, t)
  <1>1. s.queue \in Seq(Events)
    BY DEF State
  <1>2. PICK f : Thin(s.queue, s.queue, f) /\ f[0] = 0
    BY <1>1, AgedThin
  <1> QED
    BY <1>2, QuietThin

LEMMA KnownSame ==
  ASSUME NEW r \in Record, NEW x
  PROVE  /\ x = [r EXCEPT !.next = x.next] => \A n : Known(x, n) = Known(r, n)
         /\ x = [r EXCEPT !.full = x.full] => \A n : Known(x, n) = Known(r, n)
         /\ x = [r EXCEPT !.mini = x.mini] => \A n : Known(x, n) = Known(r, n)
         /\ x = [r EXCEPT !.want = x.want] => \A n : Known(x, n) = Known(r, n)
  <1>1. ASSUME x = [r EXCEPT !.next = x.next] PROVE \A n : Known(x, n) = Known(r, n)
    BY <1>1 DEF Record, Known
  <1>2. ASSUME x = [r EXCEPT !.full = x.full] PROVE \A n : Known(x, n) = Known(r, n)
    BY <1>2 DEF Record, Known
  <1>3. ASSUME x = [r EXCEPT !.mini = x.mini] PROVE \A n : Known(x, n) = Known(r, n)
    BY <1>3 DEF Record, Known
  <1>4. ASSUME x = [r EXCEPT !.want = x.want] PROVE \A n : Known(x, n) = Known(r, n)
    BY <1>4 DEF Record, Known
  <1> QED
    BY <1>1, <1>2, <1>3, <1>4

LEMMA QuietRestacked ==
  ASSUME NEW s \in State, NEW t, Restacked(s, t)
  PROVE  Quiet(s, t)
  <1>1. t \in State /\ t.current = s.current /\ t.queue = s.queue /\ t.input = s.input
    BY DEF Restacked
  <1>2. ASSUME NEW w \in Workspaces PROVE t.desk[w].tracked \in {s.desk[w].tracked, None}
    <2>1. s.desk[w] \in Desk /\ t.desk[w] = [s.desk[w] EXCEPT !.head = t.desk[w].head, !.n = t.desk[w].n]
      BY DEF State, Restacked
    <2> QED
      BY <2>1 DEF Desk
  <1>3. ASSUME NEW c \in Clients, NEW n PROVE Known(t.client[c], n) = Known(s.client[c], n)
    <2>1. s.client[c] \in Record /\ t.client[c] = [s.client[c] EXCEPT !.next = t.client[c].next]
      BY DEF State, Restacked
    <2> QED
      BY <2>1, KnownSame
  <1> QED
    BY <1>1, <1>2, <1>3, QuietMarked

LEMMA QuietDesk ==
  ASSUME NEW s \in State, NEW w \in Workspaces, NEW d \in Desk, d.tracked \in {s.desk[w].tracked, None}
  PROVE  Quiet(s, SetDesk(s, w, d))
  <1>1. PICK t : t = SetDesk(s, w, d)
    OBVIOUS
  <1>2. /\ t \in State /\ t.current = s.current /\ t.client = s.client
        /\ t.input = s.input /\ t.queue = s.queue /\ t.desk[w] = d
        /\ \A u \in Workspaces : u # w => t.desk[u] = s.desk[u]
    BY <1>1, SetDeskIs
  <1>3. Quiet(s, t)
    BY <1>2, QuietMarked
  <1> QED
    BY <1>1, <1>3

LEMMA QuietUntrack ==
  ASSUME NEW s \in State, NEW w \in Workspaces
  PROVE  Quiet(s, Track(s, w, None))
  <1>1. s.desk[w] \in Desk
    BY DEF State
  <1>2. PICK d : d = [s.desk[w] EXCEPT !.tracked = None]
    OBVIOUS
  <1>3. d \in Desk /\ d.tracked = None
    BY <1>1, <1>2 DEF Desk
  <1> QED
    BY <1>2, <1>3, QuietDesk DEF Track

LEMMA QuietSetClient ==
  ASSUME NEW s \in State, NEW c \in Clients, NEW r \in Record,
         \A n : Known(r, n) = Known(s.client[c], n)
  PROVE  Quiet(s, SetClient(s, c, r))
  <1>1. PICK t : t = SetClient(s, c, r)
    OBVIOUS
  <1>2. /\ t \in State /\ t.current = s.current /\ t.desk = s.desk
        /\ t.input = s.input /\ t.queue = s.queue /\ t.client[c] = r
        /\ \A x \in Clients : x # c => t.client[x] = s.client[x]
    BY <1>1, SetClientIs
  <1>3. \A x \in Clients : \A n : Known(t.client[x], n) = Known(s.client[x], n)
    BY <1>2
  <1>4. Quiet(s, t)
    BY <1>2, <1>3, QuietMarked
  <1> QED
    BY <1>1, <1>4

LEMMA QuietSetFullscreen ==
  ASSUME NEW s \in State, NEW w \in Workspaces, NEW c \in Clients
  PROVE  Quiet(s, SetFullscreen(s, w, c))
  <1>1. PICK t : t = SetFullscreen(s, w, c)
    OBVIOUS
  <1>2. /\ t \in State /\ t.current = s.current /\ t.input = s.input /\ t.queue = s.queue
        /\ \A x \in Clients : t.client[x] = [s.client[x] EXCEPT !.full = x = c \/ (s.client[x].full /\ x # s.desk[w].full)]
        /\ t.desk[w] = [s.desk[w] EXCEPT !.full = c]
        /\ \A u \in Workspaces : u # w => t.desk[u] = s.desk[u]
    BY <1>1, SetFullscreenIs
  <1>3. ASSUME NEW u \in Workspaces PROVE t.desk[u].tracked \in {s.desk[u].tracked, None}
    <2>1. s.desk[w] \in Desk
      BY DEF State
    <2>2. t.desk[w].tracked = s.desk[w].tracked
      BY <1>2, <2>1 DEF Desk
    <2> QED
      BY <1>2, <2>2
  <1>4. ASSUME NEW x \in Clients, NEW n PROVE Known(t.client[x], n) = Known(s.client[x], n)
    <2>1. s.client[x] \in Record
      BY DEF State
    <2>2. PICK b : b = (x = c \/ (s.client[x].full /\ x # s.desk[w].full))
      OBVIOUS
    <2>3. t.client[x] = [s.client[x] EXCEPT !.full = b]
      BY <1>2, <2>2
    <2>4. t.client[x].full = b
      BY <2>1, <2>3 DEF Record
    <2>5. t.client[x] = [s.client[x] EXCEPT !.full = t.client[x].full]
      BY <2>3, <2>4
    <2> QED
      BY <2>1, <2>5, KnownSame
  <1>5. Quiet(s, t)
    BY <1>2, <1>3, <1>4, QuietMarked
  <1> QED
    BY <1>1, <1>5

LEMMA OutKeptBehind ==
  ASSUME NEW q \in Seq(Events), NEW a \in Seq(Events), Len(a) = Len(q), NEW e \in Seq(Events),
         \A k \in 1..Len(q) : a[k].what = q[k].what /\ a[k].of = q[k].of
  PROVE  OutKept(q, a \o e)
  <1> SUFFICES ASSUME q # <<>>
               PROVE  a \o e # <<>> /\ (a \o e)[1].what = q[1].what /\ (a \o e)[1].of = q[1].of
    BY DEF OutKept
  <1>1. 1 \in 1..Len(q) /\ 1 \in 1..Len(a) /\ Len(a \o e) = Len(a) + Len(e) /\ Len(e) \in Nat /\ Len(a) \in Nat
    <2>1. Len(q) \in Nat /\ Len(q) # 0 /\ Len(a) \in Nat /\ Len(e) \in Nat
      OBVIOUS
    <2>2. Len(a \o e) = Len(a) + Len(e)
      BY ConcatProperties
    <2> QED
      BY <2>1, <2>2
  <1>2. (a \o e)[1] = a[1]
    BY <1>1
  <1> QED
    BY <1>1, <1>2

LEMMA QuietSetInput ==
  ASSUME NEW s \in State, NEW c \in Clients \cup {None}, NEW time
  PROVE  Quiet(s, SetInput(s, c, time))
  <1> DEFINE t == SetInput(s, c, time)
  <1>0. Rerouted(s, t)
    BY SetInputIs
  <1>1. t = s \/ \E a, o, i : Asked(s, t, c, a, o, i)
    BY SetInputAsks
  <1> HIDE DEF t
  <1>2. CASE t = s
    BY <1>2, LeadsSelf DEF t
  <1>3. CASE \E a, o, i : Asked(s, t, c, a, o, i)
    <2>1. PICK a, o, i : Asked(s, t, c, a, o, i)
      BY <1>3
    <2>2. /\ a \in Seq(Events) /\ Len(a) = Len(s.queue) /\ s.queue \in Seq(Events)
          /\ \A k \in 1..Len(s.queue) : a[k].what = s.queue[k].what /\ a[k].of = s.queue[k].of
      BY <2>1 DEF Asked, State
    <2>3. /\ o \in Seq(Events) /\ o = IF s.input = None THEN <<>> ELSE <<Event("out", s.input)>>
          /\ i \in Seq(Events) /\ i = IF c = None THEN <<>> ELSE <<Event("in", c)>>
      BY <2>1 DEF Asked
    <2>4. /\ c # None => s.client[c].win = "mapped"
          /\ t.input = c /\ t.queue = IF s.input = c THEN a ELSE a \o (o \o i)
      BY <2>1 DEF Asked
    <2>5. PICK e : e = IF s.input = c THEN <<>> ELSE o \o i
      OBVIOUS
    <2>6. e \in Seq(Events) /\ t.queue = a \o e
      <3>1. CASE s.input = c
        <4>1. e = <<>> /\ t.queue = a
          BY <2>4, <2>5, <3>1
        <4> QED
          BY <2>2, <4>1
      <3>2. CASE s.input # c
        <4>1. e = o \o i /\ t.queue = a \o (o \o i)
          BY <2>4, <2>5, <3>2
        <4> QED
          BY <2>3, <4>1
      <3> QED
        BY <3>1, <3>2
    <2>7. /\ Len(o) \in Nat /\ Len(i) \in Nat
          /\ \A k \in 1..Len(o) : o[k].what = "out" /\ o[k].of = s.input
          /\ \A k \in 1..Len(i) : i[k].what = "in" /\ i[k].of = c
      BY <2>3 DEF Event
    <2>8. \A k \in 1..Len(e) : \/ e[k].what = "out" /\ e[k].of = s.input
                               \/ e[k].what = "in" /\ e[k].of = c
      <3>1. CASE e = <<>>
        BY <3>1
      <3>2. CASE e = o \o i
        <4> SUFFICES ASSUME NEW k \in 1..Len(e)
                     PROVE  (e[k].what = "out" /\ e[k].of = s.input) \/ (e[k].what = "in" /\ e[k].of = c)
          OBVIOUS
        <4>1. Len(e) = Len(o) + Len(i)
          BY <2>3, <3>2
        <4>2. CASE k <= Len(o)
          <5>1. k \in 1..Len(o) /\ e[k] = o[k]
            BY <2>3, <2>7, <3>2, <4>2
          <5> QED
            BY <2>7, <5>1
        <4>3. CASE ~(k <= Len(o))
          <5>1. k - Len(o) \in 1..Len(i) /\ e[k] = i[k - Len(o)]
            BY <2>3, <2>7, <3>2, <4>1, <4>3
          <5> QED
            BY <2>7, <5>1
        <4> QED
          BY <4>2, <4>3
      <3> QED
        BY <2>5, <3>1, <3>2
    <2>9. OutKept(s.queue, t.queue)
      BY <2>2, <2>6, OutKeptBehind
    <2>10. \A d \in Clients : NoticesOf(t.queue, d) = NoticesOf(s.queue, d)
      <3> SUFFICES ASSUME NEW d \in Clients PROVE NoticesOf(t.queue, d) = NoticesOf(s.queue, d)
        OBVIOUS
      <3>1. NoticesOf(a, d) = NoticesOf(s.queue, d)
        BY <2>2, NoticesAlike
      <3>2. NoticesOf(e, d) = <<>>
        BY <2>6, <2>8, NoticesNone DEF V!Notices
      <3>3. NoticesOf(t.queue, d) = NoticesOf(a, d) \o NoticesOf(e, d)
        BY <2>2, <2>6, NoticesJoined
      <3>4. NoticesOf(a, d) \in Seq(V!Notices)
        BY <2>2, NoticesType
      <3>5. \A n \in Seq(V!Notices) : n \o <<>> = n
        OBVIOUS
      <3> QED
        BY <3>1, <3>2, <3>3, <3>4, <3>5
    <2>11. Sight(t) = Sight(s)
      BY <1>0, <2>10, SightSame DEF Seen, Rerouted
    <2>12. ASSUME Coupled(s) PROVE Coupled(t)
      <3>1. HasInput(t)
        BY <1>0, <2>4 DEF HasInput, Rerouted
      <3>2. PICK z : z = [s EXCEPT !.queue = a]
        OBVIOUS
      <3>3. z \in State /\ z.queue = a /\ z.input = s.input /\ z.client = s.client
        BY <2>2, <3>2 DEF State
      <3>4. PICK f : Thin(s.queue, a, f)
        BY <2>2, AgedThin
      <3>5. HasInput(z)
        BY <2>12, <3>3 DEF Coupled, HasInput
      <3>6. Coupled(z)
        BY <2>12, <3>3, <3>4, <3>5, CoupledThin
      <3>7. t \in State /\ t.queue = z.queue \o e
        BY <1>0, <2>6, <3>3 DEF Rerouted
      <3>8. Paired(e)
        BY <2>8 DEF Paired
      <3>9. ASSUME NEW d, NEW k \in 1..Len(e), Follows(e, d, 0, k), e[k].what = "out" PROVE d = z.input
        BY <2>8, <3>3, <3>9 DEF Follows, Own
      <3>10. t.input # None => \/ t.input = z.input /\ Own(e, z.input) = {}
                               \/ e # <<>> /\ e[Len(e)].what = "in" /\ e[Len(e)].of = t.input
        <4>1. CASE s.input = c
          BY <2>4, <2>5, <3>3, <4>1 DEF Own
        <4>2. CASE s.input # c /\ c # None
          <5>1. e = o \o i /\ i = <<Event("in", c)>>
            BY <2>3, <2>5, <4>2
          <5>2. Len(i) = 1
            BY <5>1
          <5>3. Len(e) = Len(o) + 1 /\ e[Len(e)] = i[1]
            BY <2>3, <2>7, <5>1, <5>2
          <5>4. i[1].what = "in" /\ i[1].of = c
            BY <2>7, <5>2
          <5>5. e # <<>>
            BY <2>7, <5>3
          <5> QED
            BY <2>4, <5>3, <5>4, <5>5
        <4> QED
          BY <2>4, <4>1, <4>2
      <3> QED
        BY <2>6, <3>1, <3>3, <3>6, <3>7, <3>8, <3>9, <3>10, CoupledBehind
    <2>13. Leads(s, t)
      BY <1>0, <2>9, <2>12 DEF Leads, Rerouted
    <2> QED
      BY <2>11, <2>13 DEF Quiet, t
  <1>4. Quiet(s, t)
    BY <1>1, <1>2, <1>3 DEF t
  <1> QED
    BY <1>4 DEF t

LEMMA QuietState ==
  ASSUME NEW s, NEW t, Quiet(s, t) PROVE t \in State /\ t.current = s.current
  BY DEF Quiet, Leads

LEMMA QuietSetCurrentFocus ==
  ASSUME NEW s \in State, NEW c \in Clients \cup {None}, NEW time
  PROVE  Quiet(s, SetCurrentFocus(s, c, time))
  <1>0. s.current \in Workspaces
    BY DEF State
  <1>1. CASE c = None
    <2>1. PICK t : t = SetInput(s, None, time)
      OBVIOUS
    <2>2. Quiet(s, t)
      BY <2>1, QuietSetInput
    <2>3. Quiet(t, Track(t, s.current, None))
      BY <1>0, <2>2, QuietState, QuietUntrack
    <2>4. SetCurrentFocus(s, c, time) = Track(t, s.current, None)
      BY <1>1, <2>1 DEF SetCurrentFocus
    <2> QED
      BY <2>2, <2>3, <2>4, QuietTwice
  <1>2. CASE c # None
    <2>0. c \in Clients
      BY <1>2
    <2>1. PICK f : f = SetFullscreen(s, s.current, c)
      OBVIOUS
    <2>2. Quiet(s, f)
      BY <1>0, <2>0, <2>1, QuietSetFullscreen
    <2>3. PICK g : g = Arrange(f)
      OBVIOUS
    <2>4. Quiet(f, g)
      BY <2>2, <2>3, QuietState, QuietArrange
    <2>5. Quiet(s, g)
      BY <2>2, <2>4, QuietTwice
    <2>6. Quiet(s, SetInput(g, c, time))
      BY <2>5, QuietState, QuietSetInput, QuietTwice
    <2>7. Quiet(s, SetInput(s, c, time)) /\ Quiet(s, s)
      BY QuietSetInput, LeadsSelf
    <2>8. SetCurrentFocus(s, c, time) \in {s, SetInput(g, c, time), SetInput(s, c, time)}
      BY <1>2, <2>1, <2>3 DEF SetCurrentFocus
    <2> QED
      BY <2>6, <2>7, <2>8
  <1> QED
    BY <1>1, <1>2

LEMMA QuietArrangeJustify ==
  ASSUME NEW s \in State, NEW first
  PROVE  Quiet(s, ArrangeJustify(s, first))
  <1>1. Quiet(s, Arrange(s))
    BY QuietArrange
  <1>2. PICK n \in Clients \cup {None} : n = NextFocus(s, s.current, first)
    BY NextFocusIs
  <1>3. Quiet(Arrange(s), SetCurrentFocus(Arrange(s), n, "current"))
    BY <1>1, QuietState, QuietSetCurrentFocus
  <1>4. Quiet(s, SetCurrentFocus(Arrange(s), n, "current"))
    BY <1>1, <1>3, QuietTwice
  <1> QED
    BY <1>1, <1>2, <1>4 DEF ArrangeJustify

(* What Put appends to the queue: the notices, and behind an unmap of the  *)
(* window that has the input its FocusOut.                                 *)
Appended(s, c, r, e) ==
  /\ e \in Seq(Events) /\ Put(s, c, r).queue = s.queue \o e
  /\ NoticesOf(e, c) = r.notices /\ \A d : d # c => NoticesOf(e, d) = <<>>
  /\ \A k \in 1..Len(e) : e[k].of = c
  /\ Paired(e) /\ \A d : \A k \in 1..Len(e) : Follows(e, d, 0, k) => e[k].what # "out"
  /\ r.notices = <<>> => e = <<>>

LEMMA PutAppends ==
  ASSUME NEW s \in State, NEW c \in Clients, NEW r, IsTold(r)
  PROVE  \E e : Appended(s, c, r, e)
  <1> DEFINE ns   == r.notices
             lost == s.input = c /\ ns # <<>> /\ Head(ns) = "unmap"
             told == Notices(c, ns)
             out  == Event("out", c)
             t    == Put(s, c, r)
  <1>1. ns \in Seq(V!Notices) /\ Len(ns) \in Nat
    BY DEF IsTold
  <1>2. told \in Seq(Events) /\ NoticesOf(told, c) = ns /\ \A d : d # c => NoticesOf(told, d) = <<>>
    BY <1>1, NoticesTold
  <1>3. Len(told) = Len(ns) /\ \A i \in 1..Len(ns) : told[i] = Event(ns[i], c)
    BY <1>1 DEF Notices
  <1>4. out \in Events /\ out.of = c /\ out.what = "out"
    BY DEF Event, Events
  <1>5. t.queue = s.queue \o IF lost THEN <<Head(told), out>> \o Tail(told) ELSE told
    BY DEF Put, State, Notices
  <1>6. \A i \in 1..Len(ns) : told[i].what # "out" /\ told[i].of = c /\ told[i].what = ns[i]
    <2> SUFFICES ASSUME NEW i \in 1..Len(ns)
                 PROVE  told[i].what # "out" /\ told[i].of = c /\ told[i].what = ns[i]
      OBVIOUS
    <2>1. told[i] = Event(ns[i], c)
      BY <1>3
    <2>2. ns[i] \in V!Notices
      BY <1>1
    <2> HIDE DEF told, ns
    <2>3. ns[i] # "out"
      BY <2>2 DEF V!Notices
    <2> QED
      BY <2>1, <2>3 DEF Event
  <1> HIDE DEF t, told, out, ns
  <1>7. CASE ~lost
    <2>1. t.queue = s.queue \o told
      BY <1>5, <1>7
    <2>2. \A k \in 1..Len(told) : told[k].what # "out" /\ told[k].of = c
      BY <1>3, <1>6
    <2>3. ns = <<>> => told = <<>>
      BY <1>1, <1>2, <1>3
    <2>4. Appended(s, c, r, told)
      BY <1>2, <2>1, <2>2, <2>3 DEF Appended, Paired, t, ns
    <2> QED
      BY <2>4
  <1>8. CASE lost
    <2>1. Len(ns) \in Nat /\ Len(ns) # 0
      BY <1>1, <1>8
    <2>2. told # <<>> /\ Head(told) = told[1] /\ told[1] = Event("unmap", c)
      BY <1>1, <1>2, <1>3, <1>8, <2>1
    <2> DEFINE h == Head(told)
               l == Tail(told)
               e == <<h, out>> \o l
    <2>3. h \in Events /\ h.what = "unmap" /\ h.of = c /\ l \in Seq(Events)
      BY <1>2, <2>2 DEF Event
    <2>4. told = <<h>> \o l /\ Len(l) = Len(ns) - 1 /\ \A k \in 1..Len(l) : l[k] = told[k + 1]
      BY <1>2, <1>3, <2>1, <2>2
    <2> HIDE DEF h, l
    <2>5. <<h>> \in Seq(Events) /\ <<out>> \in Seq(Events) /\ <<out>> \o l \in Seq(Events)
      BY <1>4, <2>3
    <2>6. e = <<h>> \o (<<out>> \o l) /\ e \in Seq(Events) /\ Len(e) = Len(l) + 2
      BY <2>3, <1>4
    <2>7. e[1] = h /\ e[2] = out /\ \A k \in 3..Len(e) : e[k] = l[k - 2]
      BY <2>3, <1>4
    <2>8. ASSUME NEW k \in 1..Len(e) PROVE e[k].of = c /\ (k # 2 => e[k].what # "out")
      <3>1. CASE k \in {1, 2}
        BY <3>1, <2>3, <2>7, <1>4
      <3>2. CASE k \notin {1, 2}
        <4>1. k \in 3..Len(e) /\ k - 2 \in 1..Len(l) /\ k - 1 \in 1..Len(ns)
          BY <3>2, <2>6, <2>4, <2>1
        <4>2. e[k] = told[k - 1]
          BY <4>1, <2>7, <2>4
        <4> QED
          BY <4>1, <4>2, <1>6
      <3> QED
        BY <3>1, <3>2
    <2>9. t.queue = s.queue \o e
      BY <1>5, <1>8 DEF h, l
    <2> HIDE DEF e
    <2>10. ASSUME NEW d
           PROVE  NoticesOf(e, d) = NoticesOf(<<h>>, d) \o (NoticesOf(<<out>>, d) \o NoticesOf(l, d))
      <3>1. NoticesOf(<<out>> \o l, d) = NoticesOf(<<out>>, d) \o NoticesOf(l, d)
        BY <2>3, <2>5, NoticesJoined
      <3> QED
        BY ZenonT(60), <2>5, <2>6, <3>1, NoticesJoined
    <2>11. ASSUME NEW d PROVE NoticesOf(told, d) = NoticesOf(<<h>>, d) \o NoticesOf(l, d)
      BY <2>3, <2>4, <2>5, NoticesJoined
    <2>12. ASSUME NEW d PROVE NoticesOf(e, d) = NoticesOf(told, d)
      <3>1. NoticesOf(<<out>>, d) = <<>>
        <4>1. out.what \notin V!Notices
          BY <1>4 DEF V!Notices
        <4> QED
          BY <4>1, <1>4, NoticesOne
      <3>2. NoticesOf(l, d) \in Seq(V!Notices)
        BY <2>3, NoticesType
      <3>3. <<>> \o NoticesOf(l, d) = NoticesOf(l, d)
        BY <3>2
      <3> QED
        BY <2>10, <2>11, <3>1, <3>3
    <2>13. Paired(e)
      <3> SUFFICES ASSUME NEW i \in 1..Len(e), NEW k \in 1..Len(e), e[k].what = "out", Follows(e, e[i].of, i, k)
                   PROVE  k = i + 1
        BY DEF Paired
      <3>1. k = 2 /\ i < k
        BY <2>8 DEF Follows
      <3> QED
        BY <3>1
    <2>14. ASSUME NEW d, NEW k \in 1..Len(e), Follows(e, d, 0, k) PROVE e[k].what # "out"
      <3>1. CASE k # 2
        BY <2>8, <3>1
      <3>2. CASE k = 2
        <4>1. d = c /\ \A j \in Own(e, d) : ~(0 < j /\ j < k)
          BY <2>8, <2>14 DEF Follows, Own
        <4>2. 1 \in 1..Len(e)
          BY <2>6, <2>4, <2>1
        <4>3. 1 \in Own(e, c)
          BY <4>2, <2>7, <2>3 DEF Own, Notable, V!Notices
        <4> QED
          BY <4>1, <4>3, <3>2
      <3> QED
        BY <3>1, <3>2
    <2>15. ns # <<>>
      BY <1>8
    <2>16. Appended(s, c, r, e)
      <3>1. NoticesOf(e, c) = ns /\ \A d : d # c => NoticesOf(e, d) = <<>>
        BY <1>2, <2>12
      <3>2. \A k \in 1..Len(e) : e[k].of = c
        BY <2>8
      <3>3. \A d : \A k \in 1..Len(e) : Follows(e, d, 0, k) => e[k].what # "out"
        BY <2>14
      <3>4. e \in Seq(Events) /\ Put(s, c, r).queue = s.queue \o e
        BY <2>6, <2>9 DEF t
      <3> QED
        BY <3>1, <3>2, <3>3, <3>4, <2>13, <2>15 DEF Appended, ns
    <2> QED
      BY <2>16
  <1> QED
    BY <1>7, <1>8

(* And one client is y now, to Visibility.                                 *)
Turns(s, t, c, y) == Leads(s, t) /\ Sight(t) = [Sight(s) EXCEPT ![c] = y]

(* Client c is now r, of which Visibility sees y.                          *)
LEMMA PutSees ==
  ASSUME NEW s \in State, NEW c \in Clients, NEW r, NEW y, Sees(NoticesOf(s.queue, c), y, r),
         s.client[c].win = "mapped" => IF r.notices = <<>> THEN r.win = "mapped" ELSE Head(r.notices) = "unmap"
  PROVE  Turns(s, Put(s, c, r), c, y)
  <1> DEFINE a == NoticesOf(s.queue, c)
  <1>1. PICK t : t = Put(s, c, r)
    OBVIOUS
  <1>2. IsTold(r) /\ Shows(y, r, a) /\ y \in V!Client
    BY DEF Sees
  <1>3. /\ t \in State /\ t.current = s.current /\ t.desk = s.desk
        /\ t.client[c] = [r EXCEPT !.notices = <<>>]
        /\ \A x \in Clients : x # c => t.client[x] = s.client[x]
    BY <1>1, <1>2, PutIs
  <1>4. PICK e : Appended(s, c, r, e)
    BY <1>2, PutAppends
  <1>5. e \in Seq(Events) /\ t.queue = s.queue \o e /\ s.queue \in Seq(Events) /\ a \in Seq(V!Notices)
    BY <1>1, <1>4, NoticesType DEF Appended, State
  <1>6. Seen(t, c) = y
    <2>1. NoticesOf(t.queue, c) = a \o r.notices
      BY <1>4, <1>5, NoticesJoined DEF Appended
    <2>2. y = Known(r, a \o r.notices)
      BY <1>2, <1>5, ShownIs
    <2>3. \A n : Known(t.client[c], n) = Known(r, n)
      <3>1. r.notices \in Seq(V!Notices) /\ [r EXCEPT !.notices = <<>>] \in Record
        BY <1>2 DEF IsTold
      <3> QED
        BY <1>3 DEF Known
    <2> QED
      BY <2>1, <2>2, <2>3 DEF Seen
  <1>7. ASSUME NEW d \in Clients, d # c PROVE Seen(t, d) = Seen(s, d)
    <2>1. NoticesOf(t.queue, d) = NoticesOf(s.queue, d) \o <<>>
      BY <1>4, <1>5, <1>7, NoticesJoined DEF Appended
    <2>2. NoticesOf(s.queue, d) \in Seq(V!Notices)
      BY <1>5, NoticesType
    <2> QED
      BY <1>3, <1>7, <2>1, <2>2 DEF Seen
  <1>8. Sight(t) = [Sight(s) EXCEPT ![c] = y]
    BY <1>6, <1>7, SightIs
  <1>9. OutKept(s.queue, t.queue)
    BY <1>5 DEF OutKept
  <1>10. ASSUME Coupled(s) PROVE Coupled(t)
    <2>1. t.input = IF s.input = c /\ r.notices # <<>> /\ Head(r.notices) = "unmap" THEN None ELSE s.input
      BY <1>1 DEF Put, State
    <2>2. t.input # None => t.input = s.input /\ s.client[s.input].win = "mapped" /\ s.input \in Clients
      BY <1>10, <2>1 DEF Coupled, HasInput, State
    <2>3. t.input = c => r.notices = <<>> /\ r.win = "mapped"
      <3>1. None \notin Clients
        BY FocusAssumption
      <3> QED
        BY <2>1, <2>2, <3>1
    <2>4. t.client[c].win = r.win
      <3>1. [r EXCEPT !.notices = <<>>] \in Record
        BY <1>2 DEF IsTold
      <3> QED
        BY <1>3
    <2>5. HasInput(t)
      <3> SUFFICES ASSUME t.input # None PROVE t.client[t.input].win = "mapped"
        BY DEF HasInput
      <3>1. CASE t.input = c
        BY <3>1, <2>3, <2>4
      <3>2. CASE t.input # c
        BY <3>2, <2>2, <1>3
      <3> QED
        BY <3>1, <3>2
    <2>6. Paired(e) /\ \A d : \A k \in 1..Len(e) : Follows(e, d, 0, k) /\ e[k].what = "out" => d = s.input
      BY <1>4 DEF Appended
    <2>7. t.input # None => t.input = s.input /\ Own(e, s.input) = {}
      <3> SUFFICES ASSUME t.input # None, NEW k \in Own(e, s.input) PROVE FALSE
        BY <2>2
      <3>1. Len(e) \in Nat /\ k \in 1..Len(e)
        BY <1>5 DEF Own
      <3>2. e # <<>>
        BY <3>1
      <3>3. r.notices # <<>> /\ s.input # c
        BY <3>2, <1>4, <2>2, <2>3 DEF Appended
      <3>4. \A j \in 1..Len(e) : e[j].of = c
        BY <1>4 DEF Appended
      <3> QED
        BY <3>1, <3>3, <3>4 DEF Own
    <2> QED
      BY <1>3, <1>5, <1>10, <2>5, <2>6, <2>7, CoupledBehind
  <1> QED
    BY <1>1, <1>3, <1>8, <1>9, <1>10 DEF Leads, Turns

(* The windows and the events are as they were.                            *)
LEMMA LeadsSame ==
  ASSUME NEW s \in State, NEW t \in State, t.current = s.current, t.queue = s.queue, t.input = s.input,
         \A w \in Workspaces : t.desk[w].tracked \in {s.desk[w].tracked, None},
         \A c \in Clients : t.client[c].win = s.client[c].win
  PROVE  Leads(s, t)
  <1>1. OutKept(s.queue, t.queue)
    BY DEF OutKept
  <1>2. ASSUME Coupled(s) PROVE Coupled(t)
    <2>1. s.input \in Clients \cup {None}
      BY DEF State
    <2>2. HasInput(t)
      BY <1>2, <2>1 DEF Coupled, HasInput
    <2> QED
      BY <1>2, <2>2 DEF Coupled, LastKept
  <1> QED
    BY <1>1, <1>2 DEF Leads

LEMMA TurnsQuiet ==
  ASSUME NEW s, NEW t, Quiet(s, t), NEW c \in Clients
  PROVE  Turns(s, t, c, Seen(s, c))
  BY DEF Sight, Turns, Quiet

(* Client c is replaced by r, of which Visibility sees y.                  *)
LEMMA ReplacedSees ==
  ASSUME NEW s \in State, NEW t \in State, t.current = s.current, t.queue = s.queue, t.input = s.input,
         \A w \in Workspaces : t.desk[w].tracked \in {s.desk[w].tracked, None},
         NEW c \in Clients, NEW y, Sees(NoticesOf(s.queue, c), y, t.client[c]),
         t.client[c].win = s.client[c].win,
         \A d \in Clients : d # c => \A n : Known(t.client[d], n) = Known(s.client[d], n)
  PROVE  Turns(s, t, c, y)
  <1> DEFINE a == NoticesOf(s.queue, c)
  <1>1. \A d \in Clients : t.client[d].win = s.client[d].win
    <2>1. ASSUME NEW d \in Clients, d # c PROVE t.client[d].win = s.client[d].win
      <3>1. Known(t.client[d], <<>>) = Known(s.client[d], <<>>)
        BY <2>1
      <3> QED
        BY <3>1 DEF Known
    <2> QED
      BY <2>1
  <1>2. Leads(s, t)
    BY <1>1, LeadsSame
  <1>3. Seen(t, c) = y
    <2>1. a \in Seq(V!Notices) /\ s.queue \in Seq(Events)
      BY NoticesType DEF State
    <2>2. y = Known(t.client[c], a \o t.client[c].notices)
      BY <2>1, ShownIs DEF Sees
    <2>3. t.client[c].notices = <<>>
      BY DEF State, Record
    <2>4. a \o <<>> = a
      BY <2>1
    <2> QED
      BY <2>2, <2>3, <2>4 DEF Seen
  <1>4. ASSUME NEW d \in Clients, d # c PROVE Seen(t, d) = Seen(s, d)
    BY <1>4 DEF Seen
  <1> QED
    BY <1>2, <1>3, <1>4, SightIs DEF Turns

LEMMA SetClientSees ==
  ASSUME NEW s \in State, NEW c \in Clients, NEW r \in Record, NEW y, Sees(NoticesOf(s.queue, c), y, r),
         r.win = s.client[c].win
  PROVE  Turns(s, SetClient(s, c, r), c, y)
  <1>1. PICK t : t = SetClient(s, c, r)
    OBVIOUS
  <1>2. /\ t \in State /\ t.current = s.current /\ t.desk = s.desk
        /\ t.input = s.input /\ t.queue = s.queue /\ t.client[c] = r
        /\ \A x \in Clients : x # c => t.client[x] = s.client[x]
    BY <1>1, SetClientIs
  <1>3. Turns(s, t, c, y)
    BY <1>2, ReplacedSees
  <1> QED
    BY <1>1, <1>3

(* A step that Visibility does not see, before and after one it does.      *)
LEMMA QuietBefore ==
  ASSUME NEW s, NEW t, NEW u, NEW c \in Clients, NEW y,
         Quiet(s, t), Turns(t, u, c, y)
  PROVE  Turns(s, u, c, y)
  BY LeadsTwice DEF Quiet, Turns

LEMMA QuietAfter ==
  ASSUME NEW s, NEW t, NEW u, NEW c \in Clients, NEW y,
         Turns(s, t, c, y), Quiet(t, u)
  PROVE  Turns(s, u, c, y)
  BY LeadsTwice DEF Quiet, Turns

LEMMA TurnsTwice ==
  ASSUME NEW s, NEW t, NEW u, NEW c \in Clients, NEW y, NEW z,
         Turns(s, t, c, y), Turns(t, u, c, z)
  PROVE  Turns(s, u, c, z)
  BY LeadsTwice DEF Turns, Sight

(* end_manage is a client that is not managed any more, to Visibility.     *)
LEMMA EndManageSees ==
  ASSUME NEW s, Sound(s), NEW c \in Clients, s.client[c].managed, NEW first
  PROVE  Turns(s, EndManage(s, c, first), c, V!Fresh(Seen(s, c)))
  <1> DEFINE a == NoticesOf(s.queue, c)
  <1>1. PICK f, n : /\ Sound(f) /\ Freed(s, f, c) /\ Anew(s, f, c) /\ n \in Clients \cup {None}
                    /\ EndManage(s, c, first) = SetCurrentFocus(f, n, "current")
    BY EndManageIs
  <1>2. s \in State /\ f \in State
    BY <1>1 DEF Sound
  <1>3. PICK x \in Record : x = [s.client[c] EXCEPT !.next = x.next] /\ f.client[c] = Forgotten(V!Fresh(x))
    BY <1>1 DEF Anew
  <1>4. a \in Seq(V!Notices)
    BY <1>2, SeesSeen
  <1>5. s.client[c] \in Record /\ \A d \in Clients : s.client[d] \in Record
    BY <1>2 DEF State
  <1>6. Sees(a, Seen(s, c), x)
    <2>1. Known(x, a) = Known(s.client[c], a)
      BY <1>3, <1>5, KnownSame
    <2>2. Known(x, a) \in V!Client /\ Shows(Known(x, a), x, a)
      BY <1>4, KnownShows
    <2>3. IsTold(x)
      BY RecordIsTold
    <2> QED
      BY <2>1, <2>2, <2>3 DEF Sees, Seen
  <1>7. Sees(a, V!Fresh(Seen(s, c)), f.client[c])
    <2>1. Sees(a, V!Fresh(Seen(s, c)), V!Fresh(x))
      BY <1>4, <1>6, FreshSees
    <2>2. Sees(a, V!Fresh(Seen(s, c)), Forgotten(V!Fresh(x)))
      BY <1>4, <2>1, MarkedSees
    <2> QED
      BY <1>3, <2>2
  <1>8. Turns(s, f, c, V!Fresh(Seen(s, c)))
    <2>1. /\ f.current = s.current /\ f.queue = s.queue /\ f.input = s.input
          /\ \A w \in Workspaces : f.desk[w].tracked \in {s.desk[w].tracked, None}
          /\ f.client[c].win = s.client[c].win
      BY <1>1 DEF Freed
    <2>2. ASSUME NEW d \in Clients, d # c PROVE \A k : Known(f.client[d], k) = Known(s.client[d], k)
      <3>1. f.client[d] = [s.client[d] EXCEPT !.next = f.client[d].next]
        BY <1>1, <2>2 DEF Freed
      <3> QED
        BY <1>5, <3>1, KnownSame
    <2> QED
      BY <1>2, <1>7, <2>1, <2>2, ReplacedSees
  <1>9. Quiet(f, SetCurrentFocus(f, n, "current"))
    BY <1>1, <1>2, QuietSetCurrentFocus
  <1> QED
    BY <1>1, <1>8, <1>9, QuietAfter

-----------------------------------------------------------------------------
(* The handlers, to Visibility: each replaces the client of its event.     *)

(* Where an unmap or a map of a window the manager has mapped leaves it.   *)
LEMMA MapClientKeepsMapped ==
  ASSUME NEW r \in Record
  PROVE  LET x == V!MapClient(r) IN
         r.win = "mapped" => IF x.notices = <<>> THEN x.win = "mapped" ELSE Head(x.notices) = "unmap"
  BY DEF V!MapClient, V!XMapWindow, Record

(* dec_mapped_in_workspace and inc_mapped_in_workspace.                    *)
LEMMA QuietCount ==
  ASSUME NEW s, Sound(s), NEW w \in Workspaces
  PROVE  Quiet(s, CountMapped(s, w)) /\ Quiet(s, CountUnmapped(s, w))
  <1>1. s \in State /\ s.desk[w] \in Desk
    BY DEF Sound, State
  <1>2. PICK m \in Nat : m = s.desk[w].nmapped + 1
    BY <1>1 DEF Desk
  <1>3. PICK l \in Nat : l = IF s.desk[w].nmapped = 0 THEN 0 ELSE s.desk[w].nmapped - 1
    BY <1>1 DEF Desk
  <1>4. ASSUME NEW n \in Nat
        PROVE  [s.desk[w] EXCEPT !.nmapped = n] \in Desk
               /\ [s.desk[w] EXCEPT !.nmapped = n].tracked = s.desk[w].tracked
    BY <1>1 DEF Desk
  <1>5. [s.desk[w] EXCEPT !.nmapped = @ + 1] = [s.desk[w] EXCEPT !.nmapped = m]
    BY <1>2
  <1>6. [s.desk[w] EXCEPT !.nmapped = IF @ = 0 THEN 0 ELSE @ - 1] = [s.desk[w] EXCEPT !.nmapped = l]
    BY <1>3
  <1>7. PICK d, e : d = [s.desk[w] EXCEPT !.nmapped = m] /\ e = [s.desk[w] EXCEPT !.nmapped = l]
    OBVIOUS
  <1>8. d \in Desk /\ d.tracked = s.desk[w].tracked /\ e \in Desk /\ e.tracked = s.desk[w].tracked
    BY <1>4, <1>7
  <1>9. Quiet(s, SetDesk(s, w, d)) /\ Quiet(s, SetDesk(s, w, e))
    BY <1>1, <1>8, QuietDesk
  <1> QED
    BY <1>5, <1>6, <1>7, <1>9 DEF CountMapped, CountUnmapped

LEMMA HandleMapRequestTurns ==
  ASSUME NEW s, Sound(s), NEW c \in Clients
  PROVE  Turns(s, HandleMapRequest(s, c), c, V!HandleMapRequest(Seen(s, c), s.current))
  <1> DEFINE a     == NoticesOf(s.queue, c)
             y     == Seen(s, c)
             cur   == s.current
             z     == V!HandleMapRequest(y, cur)
  <1>1. PICK r : r = s.client[c]
    OBVIOUS
  <1>2. s \in State /\ cur \in Workspaces /\ r \in Record /\ RecordOK(r, cur)
    BY <1>1 DEF Sound, State, Records
  <1>3. a \in Seq(V!Notices) /\ Sees(a, y, r) /\ y \in V!Client
    BY <1>1, <1>2, SeesSeen
  <1>4. y.managed = r.managed /\ y.place = r.place
    BY <1>3, SeenAlike
  <1>5. CASE r.managed /\ r.place # cur
    <2>1. HandleMapRequest(s, c) = s
      BY <1>1, <1>5 DEF HandleMapRequest
    <2>2. z = y
      BY <1>4, <1>5 DEF V!HandleMapRequest
    <2>3. Turns(s, s, c, y)
      BY <1>2, LeadsSelf, TurnsQuiet
    <2> QED
      BY <2>1, <2>2, <2>3
  <1>6. CASE ~(r.managed /\ r.place # cur)
    <2>1. PICK new : new = V!HandleMapRequest(r, cur)
      OBVIOUS
    <2>2. /\ IsTold(new) /\ RecordOK(new, cur) /\ new.managed
          /\ r.win = "mapped" => IF new.notices = <<>> THEN new.win = "mapped" ELSE Head(new.notices) = "unmap"
      BY <1>2, <2>1, HandleMapRequestIs
    <2>3. PICK w : w = [new EXCEPT !.want = TRUE]
      OBVIOUS
    <2>4. Sees(a, z, new)
      BY <1>2, <1>3, <2>1, HandleMapRequestSees
    <2>5. Sees(a, z, w)
      BY <1>3, <2>3, <2>4, MarkedSees
    <2>6. w.notices = new.notices /\ w.win = new.win
      BY <2>2, <2>3, MarkedIs
    <2>7. PICK t : t = IF ~r.managed /\ new.mapped THEN CountMapped(s, new.workspace) ELSE s
      OBVIOUS
    <2>8. HandleMapRequest(s, c) = Put(t, c, w)
      BY <1>1, <1>6, <2>1, <2>3, <2>7 DEF HandleMapRequest
    <2>9. Quiet(s, t) /\ t.client = s.client /\ t.queue = s.queue /\ t \in State
      <3>1. CASE ~r.managed /\ new.mapped
        <4>1. new.workspace \in Workspaces
          BY <2>2 DEF RecordOK
        <4>2. t = CountMapped(s, new.workspace) /\ Counted(s, t)
          BY <2>7, <3>1, <4>1, SoundCount
        <4>5. Quiet(s, t)
          BY <4>1, <4>2, QuietCount
        <4> QED
          BY <4>2, <4>5 DEF Counted
      <3>2. CASE ~(~r.managed /\ new.mapped)
        BY <1>2, <2>7, <3>2, LeadsSelf
      <3> QED
        BY <3>1, <3>2
    <2>10. Turns(t, Put(t, c, w), c, z)
      BY <1>1, <2>2, <2>5, <2>6, <2>9, PutSees
    <2> QED
      BY <2>8, <2>9, <2>10, QuietBefore
  <1> QED
    BY <1>5, <1>6

LEMMA HandleDestroyNotifyTurns ==
  ASSUME NEW s, Sound(s), NEW c \in Clients, NEW first
  PROVE  Turns(s, HandleDestroyNotify(s, c, first), c, V!HandleDestroyNotify(Seen(s, c)))
  <1> DEFINE y == Seen(s, c)
  <1>1. s \in State
    BY DEF Sound
  <1>2. y.managed = s.client[c].managed
    BY <1>1, SeesSeen, SeenAlike
  <1>3. CASE s.client[c].managed
    <2>1. PICK u : u = EndManage(s, c, first)
      OBVIOUS
    <2>2. Turns(s, u, c, V!Fresh(y)) /\ u \in State
      <3>1. Sound(u)
        BY <1>3, <2>1, SoundEndManage
      <3> QED
        BY <1>3, <2>1, <3>1, EndManageSees DEF Sound
    <2>3. Turns(s, Arrange(u), c, V!Fresh(y))
      BY <2>2, QuietArrange, QuietAfter
    <2>4. HandleDestroyNotify(s, c, first) = Arrange(u) /\ V!HandleDestroyNotify(y) = V!Fresh(y)
      BY <1>2, <1>3, <2>1 DEF HandleDestroyNotify, V!HandleDestroyNotify
    <2> QED
      BY <2>3, <2>4
  <1>4. CASE ~s.client[c].managed
    <2>1. HandleDestroyNotify(s, c, first) = s /\ V!HandleDestroyNotify(y) = y
      BY <1>2, <1>4 DEF HandleDestroyNotify, V!HandleDestroyNotify
    <2>2. Turns(s, s, c, y)
      BY <1>1, LeadsSelf, TurnsQuiet
    <2> QED
      BY <2>1, <2>2
  <1> QED
    BY <1>3, <1>4

LEMMA HandleUnmapNotifyTurns ==
  ASSUME NEW s, Sound(s), NEW c \in Clients, NEW first
  PROVE  Turns(s, HandleUnmapNotify(s, c, first), c, V!HandleUnmapNotify(Seen(s, c)))
  <1> DEFINE a == NoticesOf(s.queue, c)
             y == Seen(s, c)
             z == V!HandleUnmapNotify(y)
  <1>1. PICK r : r = s.client[c]
    OBVIOUS
  <1>2. s \in State /\ s.current \in Workspaces /\ r \in Record /\ RecordOK(r, s.current)
    BY <1>1 DEF Sound, State, Records
  <1>3. a \in Seq(V!Notices) /\ Sees(a, y, r) /\ y \in V!Client
    BY <1>1, <1>2, SeesSeen
  <1>4. y.managed = r.managed /\ y.pending_unmap = r.pending_unmap /\ y.map_after = r.map_after
    BY <1>3, SeenAlike
  <1>5. CASE ~r.managed
    <2>1. HandleUnmapNotify(s, c, first) = s
      BY <1>1, <1>5 DEF HandleUnmapNotify
    <2>2. z = y
      BY <1>4, <1>5 DEF V!HandleUnmapNotify
    <2>3. Turns(s, s, c, y)
      BY <1>2, LeadsSelf, TurnsQuiet
    <2> QED
      BY <2>1, <2>2, <2>3
  <1>6. CASE r.managed
    <2>1. r.workspace \in Workspaces /\ r.pending_unmap \in Nat
      BY <1>2, <1>6 DEF RecordOK, Record
    <2>2. PICK t : t = CountUnmapped(s, r.workspace)
      OBVIOUS
    <2>3. Sound(t) /\ Quiet(s, t) /\ t.client = s.client /\ t.queue = s.queue /\ t.current = s.current
      BY <2>1, <2>2, QuietCount, SoundCount DEF Counted
    <2>4. t \in State /\ Seen(t, c) = y
      BY <2>3 DEF Sound, Seen
    <2>5. CASE r.pending_unmap = 0
      <3>1. PICK u : u = EndManage(t, c, first)
        OBVIOUS
      <3>2. HandleUnmapNotify(s, c, first) \in {u, Arrange(u)}
        BY <1>1, <1>6, <2>2, <2>5, <3>1 DEF HandleUnmapNotify
      <3>3. z = V!Fresh(y)
        BY <1>4, <1>6, <2>5 DEF V!HandleUnmapNotify
      <3>4. t.client[c].managed
        BY <1>1, <1>6, <2>3
      <3>5. Turns(t, u, c, z) /\ u \in State
        <4>1. Sound(u)
          BY <2>3, <3>1, <3>4, SoundEndManage
        <4> QED
          BY <2>3, <2>4, <3>1, <3>3, <3>4, <4>1, EndManageSees DEF Sound
      <3>6. Turns(s, u, c, z)
        BY <2>3, <3>5, QuietBefore
      <3>7. Turns(s, Arrange(u), c, z)
        BY <3>5, <3>6, QuietArrange, QuietAfter
      <3> QED
        BY <3>2, <3>6, <3>7
    <2>6. CASE r.pending_unmap > 0
      <3>1. PICK k : k = [V!HandleUnmapNotify([r EXCEPT !.map_after = FALSE]) EXCEPT
                            !.map_after = r.map_after, !.moved = FALSE]
        OBVIOUS
      <3>2. k \in Record /\ k.win = r.win
        BY <1>2, <1>6, <2>6, <3>1, UnmapNotedIs
      <3>3. PICK o : o = SetClient(t, c, k)
        OBVIOUS
      <3>4. PICK v : v = IF r.workspace = s.current \/ r.moved THEN ArrangeJustify(o, first) ELSE o
        OBVIOUS
      <3>5. Sees(a, Noted(y), k)
        BY <1>3, <1>6, <2>6, <3>1, NotedSees
      <3>6. Turns(t, o, c, Noted(y))
        BY <1>1, <2>3, <2>4, <3>2, <3>3, <3>5, SetClientSees
      <3>7. o \in State
        BY <2>4, <3>2, <3>3, SetClientIs
      <3>8. Quiet(o, v)
        BY <3>4, <3>7, LeadsSelf, QuietArrangeJustify
      <3>9. Turns(s, v, c, Noted(y)) /\ v \in State
        <4>1. Turns(s, o, c, Noted(y))
          BY <2>3, <3>6, QuietBefore
        <4> QED
          BY <3>8, <4>1, QuietAfter, QuietState
      <3>10. z = IF y.map_after THEN [V!MapClient(Noted(y)) EXCEPT !.map_after = FALSE] ELSE Noted(y)
        BY <1>3, <1>4, <1>6, <2>6, HandleUnmapNotifyIs
      <3>11. CASE ~r.map_after
        <4>1. HandleUnmapNotify(s, c, first) = v
          BY <1>1, <1>6, <2>2, <2>6, <3>1, <3>3, <3>4, <3>11 DEF HandleUnmapNotify
        <4> QED
          BY <1>4, <3>9, <3>10, <3>11, <4>1
      <3>12. CASE r.map_after
        <4>1. PICK m : m = V!MapClient(v.client[c])
          OBVIOUS
        <4>2. PICK x : x = [m EXCEPT !.map_after = FALSE]
          OBVIOUS
        <4>3. HandleUnmapNotify(s, c, first) = Put(v, c, x)
          BY <1>1, <1>6, <2>2, <2>6, <3>1, <3>3, <3>4, <3>12, <4>1, <4>2 DEF HandleUnmapNotify
        <4> DEFINE b == NoticesOf(v.queue, c)
        <4>4. Seen(v, c) = Noted(y)
          <5>1. Sight(v)[c] = Noted(y)
            BY <3>9 DEF Turns, Sight
          <5> QED
            BY <5>1, SightAt
        <4>5. b \in Seq(V!Notices) /\ Sees(b, Noted(y), v.client[c])
          BY <3>9, <4>4, SeesSeen
        <4>6. Sees(b, V!MapClient(Noted(y)), m)
          BY <4>1, <4>5, MapClientSees
        <4>7. PICK n : n = V!MapClient(Noted(y))
          OBVIOUS
        <4>8. Sees(b, [n EXCEPT !.map_after = FALSE], x)
          <5>1. Sees(b, [n EXCEPT !.map_after = FALSE], [m EXCEPT !.map_after = FALSE])
            BY <4>5, <4>6, <4>7, FlagSees
          <5> QED
            BY <4>2, <5>1
        <4>9. v.client[c] \in Record
          BY <3>9 DEF State
        <4>10. v.client[c].win = "mapped" => IF m.notices = <<>> THEN m.win = "mapped" ELSE Head(m.notices) = "unmap"
          BY <4>1, <4>9, MapClientKeepsMapped
        <4>11. x.notices = m.notices /\ x.win = m.win
          BY <4>2, <4>6, MarkedIs DEF Sees
        <4>12. Turns(v, Put(v, c, x), c, [n EXCEPT !.map_after = FALSE])
          BY <3>9, <4>8, <4>10, <4>11, PutSees
        <4>13. z = [n EXCEPT !.map_after = FALSE]
          BY <1>4, <3>10, <3>12, <4>7
        <4> QED
          BY <3>9, <4>3, <4>12, <4>13, TurnsTwice
      <3> QED
        BY <3>11, <3>12
    <2> QED
      BY <2>1, <2>5, <2>6
  <1> QED
    BY <1>5, <1>6

LEMMA HandleMapNotifyTurns ==
  ASSUME NEW s, Sound(s), NEW c \in Clients, NEW first
  PROVE  Turns(s, HandleMapNotify(s, c, first), c, V!HandleMapNotify(Seen(s, c), s.current, FALSE))
  <1> DEFINE a   == NoticesOf(s.queue, c)
             y   == Seen(s, c)
             cur == s.current
             z   == V!HandleMapNotify(y, cur, FALSE)
  <1>1. PICK r : r = s.client[c]
    OBVIOUS
  <1>2. s \in State /\ cur \in Workspaces /\ r \in Record /\ RecordOK(r, cur)
    BY <1>1 DEF Sound, State, Records
  <1>3. a \in Seq(V!Notices) /\ Sees(a, y, r) /\ y \in V!Client
    BY <1>1, <1>2, SeesSeen
  <1>4. y.managed = r.managed
    BY <1>3, SeenAlike
  <1>5. CASE ~r.managed
    <2>1. HandleMapNotify(s, c, first) = s
      BY <1>1, <1>5 DEF HandleMapNotify
    <2>2. z = y
      BY <1>4, <1>5 DEF V!HandleMapNotify
    <2>3. Turns(s, s, c, y)
      BY <1>2, LeadsSelf, TurnsQuiet
    <2> QED
      BY <2>1, <2>2, <2>3
  <1>6. CASE r.managed
    <2>1. r.workspace \in Workspaces
      BY <1>2, <1>6 DEF RecordOK
    <2>2. PICK t : t = CountMapped(s, r.workspace)
      OBVIOUS
    <2>3. Sound(t) /\ Quiet(s, t) /\ t.client = s.client /\ t.queue = s.queue /\ t.current = s.current
      BY <2>1, <2>2, QuietCount, SoundCount DEF Counted
    <2>4. t \in State
      BY <2>3 DEF Sound
    <2>5. PICK m : m = V!HandleMapNotify(r, cur, FALSE)
      OBVIOUS
    <2>6. /\ IsTold(m)
          /\ r.win = "mapped" => IF m.notices = <<>> THEN m.win = "mapped" ELSE Head(m.notices) = "unmap"
      BY <1>2, <1>6, <2>5, HandleMapNotifyIs
    <2>7. PICK u : u = Put(t, c, m)
      OBVIOUS
    <2>8. u \in State /\ u.current = cur
      BY ZenonT(60), <2>3, <2>4, <2>6, <2>7, PutIs
    <2>9. Sees(a, z, m)
      BY <1>3, <2>5, HandleMapNotifySees
    <2>10. Turns(s, u, c, z)
      <3>1. Turns(t, u, c, z)
        BY <1>1, <2>3, <2>4, <2>6, <2>7, <2>9, PutSees
      <3> QED
        BY <2>3, <3>1, QuietBefore
    <2> DEFINE full   == s.desk[cur].full
               before == s.desk[cur].before
               asked  == SetCurrentFocus(u, IF full = None THEN c ELSE full, "current")
               given  == SetCurrentFocus(u, c, "current")
               own    == SetClient(asked, c, [asked.client[c] EXCEPT !.want = FALSE])
               noted  == SetDesk(own, cur, [asked.desk[cur] EXCEPT !.before = IF @ = c THEN None ELSE @])
               viewed == Cardinality(Tiled(u, cur) \cup Minimized(u, cur))
    <2>11. HandleMapNotify(s, c, first) =
             IF r.workspace # cur \/ r.unmap_after THEN u
             ELSE IF s.desk[cur].tracked # None /\ s.desk[cur].tracked = full
               THEN Arrange(SetFullscreen(given, cur, c))
             ELSE IF before = c \/ r.want THEN Arrange(noted)
             ELSE IF u.desk[cur].nmapped = viewed /\ u.desk[cur].tracked = None /\ before = None
               THEN SetCurrentFocus(Arrange(u), NextFocus(u, cur, first), "current")
             ELSE Arrange(u)
      BY <1>1, <1>6, <2>2, <2>5, <2>7 DEF HandleMapNotify
    <2>12. full \in Clients \cup {None} /\ (IF full = None THEN c ELSE full) \in Clients \cup {None}
      BY <1>2 DEF State, Desk
    <2>13. Quiet(u, given) /\ Quiet(u, asked)
      BY <2>8, <2>12, QuietSetCurrentFocus
    <2>14. given \in State /\ asked \in State
      BY <2>13, QuietState
    <2>15. Quiet(u, Arrange(SetFullscreen(given, cur, c)))
      <3>1. PICK v : v = SetFullscreen(given, cur, c)
        OBVIOUS
      <3>2. Quiet(u, v)
        <4>1. Quiet(given, v)
          BY <1>2, <2>14, <3>1, QuietSetFullscreen
        <4> QED
          BY <2>13, <4>1, QuietTwice
      <3>3. Quiet(v, Arrange(v))
        BY <3>2, QuietState, QuietArrange
      <3> QED
        BY <3>1, <3>2, <3>3, QuietTwice
    <2>16. Quiet(u, Arrange(noted))
      <3>1. PICK v : v = asked
        OBVIOUS
      <3>2. Quiet(u, v) /\ v \in State /\ v.client[c] \in Record /\ v.desk[cur] \in Desk
        BY <1>2, <2>13, <2>14, <3>1 DEF State
      <3>3. PICK x : x = [v.client[c] EXCEPT !.want = FALSE]
        OBVIOUS
      <3>4. x \in Record /\ x = [v.client[c] EXCEPT !.want = x.want]
        BY <3>2, <3>3 DEF Record
      <3>5. PICK o : o = SetClient(v, c, x)
        OBVIOUS
      <3>6. Quiet(v, o)
        <4>1. \A n : Known(x, n) = Known(v.client[c], n)
          BY <3>2, <3>4, KnownSame
        <4> QED
          BY <3>2, <3>4, <3>5, <4>1, QuietSetClient
      <3>7. PICK d : d = [v.desk[cur] EXCEPT !.before = IF @ = c THEN None ELSE @]
        OBVIOUS
      <3>8. d \in Desk /\ d.tracked = v.desk[cur].tracked
        BY <3>2, <3>7 DEF Desk
      <3>9. o \in State /\ o.desk = v.desk
        BY <3>2, <3>4, <3>5, SetClientIs
      <3>10. PICK p : p = SetDesk(o, cur, d)
        OBVIOUS
      <3>11. Quiet(o, p)
        BY <1>2, <3>8, <3>9, <3>10, QuietDesk
      <3>12. Quiet(u, p)
        BY <3>2, <3>6, <3>11, QuietTwice
      <3>13. Quiet(p, Arrange(p))
        BY <3>12, QuietState, QuietArrange
      <3>14. p = noted
        BY <3>1, <3>3, <3>5, <3>7, <3>10
      <3> HIDE DEF noted
      <3> QED
        BY <3>12, <3>13, <3>14, QuietTwice
    <2>17. Quiet(u, Arrange(u))
      BY <2>8, QuietArrange
    <2>18. Quiet(u, SetCurrentFocus(Arrange(u), NextFocus(u, cur, first), "current"))
      <3>1. NextFocus(u, cur, first) \in Clients \cup {None}
        BY <2>8, NextFocusIs
      <3>2. PICK v : v = Arrange(u)
        OBVIOUS
      <3>3. Quiet(u, v) /\ v \in State
        BY <2>17, <3>2, QuietState
      <3>4. Quiet(v, SetCurrentFocus(v, NextFocus(u, cur, first), "current"))
        BY <3>1, <3>3, QuietSetCurrentFocus
      <3> QED
        BY <3>2, <3>3, <3>4, QuietTwice
    <2>19. Quiet(u, u)
      BY <2>8, LeadsSelf
    <2> HIDE DEF full, before, asked, given, own, noted, viewed
    <2>20. Quiet(u, HandleMapNotify(s, c, first))
      BY <2>11, <2>15, <2>16, <2>17, <2>18, <2>19
    <2> QED
      BY <2>10, <2>20, QuietAfter
  <1> QED
    BY <1>5, <1>6

-----------------------------------------------------------------------------
(* The handlers that Visibility sees nothing of.                           *)
LEMMA QuietHandleFocusOut ==
  ASSUME NEW s, Sound(s), NEW c \in Clients
  PROVE  Quiet(s, HandleFocusOut(s, c))
  <1>1. s \in State /\ RecordOK(s.client[c], s.current)
    BY DEF Sound, Records
  <1>2. CASE s.client[c].managed /\ s.desk[s.client[c].workspace].tracked = c
    <2>1. s.client[c].workspace \in Workspaces
      BY <1>1, <1>2 DEF RecordOK
    <2>2. HandleFocusOut(s, c) = Track(s, s.client[c].workspace, None)
      BY <1>2 DEF HandleFocusOut
    <2> QED
      BY <1>1, <2>1, <2>2, QuietUntrack
  <1>3. CASE ~(s.client[c].managed /\ s.desk[s.client[c].workspace].tracked = c)
    <2>1. HandleFocusOut(s, c) = s
      BY <1>3 DEF HandleFocusOut
    <2> QED
      BY <1>1, <2>1, LeadsSelf
  <1> QED
    BY <1>2, <1>3

LEMMA QuietHandleEnterNotify ==
  ASSUME NEW s, Sound(s), NEW c \in Clients, NEW time
  PROVE  Quiet(s, HandleEnterNotify(s, c, time))
  BY LeadsSelf, QuietSetCurrentFocus DEF HandleEnterNotify, Sound

LEMMA QuietSetMini ==
  ASSUME NEW s \in State, NEW c \in Clients, NEW b \in BOOLEAN
  PROVE  Quiet(s, SetClient(s, c, [s.client[c] EXCEPT !.mini = b]))
  <1>1. PICK x : x = [s.client[c] EXCEPT !.mini = b]
    OBVIOUS
  <1>2. s.client[c] \in Record
    BY DEF State
  <1>3. x \in Record /\ x = [s.client[c] EXCEPT !.mini = x.mini]
    BY <1>1, <1>2 DEF Record
  <1>4. \A n : Known(x, n) = Known(s.client[c], n)
    BY <1>2, <1>3, KnownSame
  <1> QED
    BY <1>1, <1>3, <1>4, QuietSetClient

LEMMA QuietActionMinimizeWindow ==
  ASSUME NEW s, Sound(s), NEW first, NEW time
  PROVE  Quiet(s, ActionMinimizeWindow(s, first, time))
  <1> DEFINE cur   == s.current
             focus == s.desk[cur].tracked
             mini  == IF focus = None THEN s
                      ELSE SetClient(s, focus, [s.client[focus] EXCEPT !.mini = TRUE])
             popped == FsPop(Arrange(mini), cur)
             back   == SetClient(s, focus, [s.client[focus] EXCEPT !.mini = FALSE])
  <1>1. s \in State /\ cur \in Workspaces /\ focus \in Clients \cup {None}
    BY DEF Sound, State, Desk
  <1>2. ActionMinimizeWindow(s, first, time) =
          IF focus # None /\ s.client[focus].workspace # cur THEN s
          ELSE IF focus = s.desk[cur].full THEN s
          ELSE IF focus = None \/ ~s.client[focus].mini
            THEN SetCurrentFocus(popped, NextFocus(popped, cur, first), time)
          ELSE ArrangeJustify(back, first)
    BY DEF ActionMinimizeWindow
  <1>3. Quiet(s, mini) /\ (focus # None => Quiet(s, back))
    BY <1>1, LeadsSelf, QuietSetMini
  <1>4. ASSUME focus # None => s.client[focus].workspace = cur
        PROVE  Quiet(s, SetCurrentFocus(popped, NextFocus(popped, cur, first), time))
    <2>1. PICK m : m = mini
      OBVIOUS
    <2>2. Sound(m) /\ m.current = cur
      <3>1. CASE focus = None
        BY <2>1, <3>1
      <3>2. CASE focus # None
        <4>1. s.client[focus].managed
          BY <1>1, <1>4, <3>2, FocusAssumption DEF Sound, Records, RecordOK
        <4>2. m = SetClient(s, focus, [s.client[focus] EXCEPT !.mini = TRUE])
          BY <2>1, <3>2
        <4>3. Sound(m)
          BY <1>1, <3>2, <4>1, <4>2, SoundSetMini
        <4>4. m.current = s.current
          BY <1>3, <2>1, QuietState
        <4> QED
          BY <4>3, <4>4
      <3> QED
        BY <3>1, <3>2
    <2>3. PICK v : v = Arrange(m)
      OBVIOUS
    <2>4. Sound(v) /\ v.current = cur /\ Quiet(m, v)
      BY <2>2, <2>3, SoundArrange, QuietArrange DEF Rerouted, Sound
    <2>5. PICK p : p = FsPop(v, cur)
      OBVIOUS
    <2>6. Restacked(v, p) /\ p \in State
      BY <2>4, <2>5, SoundFsPop DEF Sound
    <2>7. Quiet(v, p)
      BY <2>4, <2>6, QuietRestacked DEF Sound
    <2>8. Quiet(p, SetCurrentFocus(p, NextFocus(p, cur, first), time))
      BY <2>6, NextFocusIs, QuietSetCurrentFocus
    <2>9. p = popped
      BY <2>1, <2>3, <2>5
    <2> HIDE DEF popped
    <2>10. Quiet(s, p)
      BY <1>3, <2>1, <2>4, <2>7, QuietTwice
    <2> QED
      BY <2>8, <2>9, <2>10, QuietTwice
  <1>5. ASSUME focus # None PROVE Quiet(s, ArrangeJustify(back, first))
    <2>1. PICK b : b = back
      OBVIOUS
    <2>2. Quiet(s, b)
      BY <1>3, <1>5, <2>1
    <2>3. Quiet(b, ArrangeJustify(b, first))
      BY <2>2, QuietState, QuietArrangeJustify
    <2> QED
      BY <2>1, <2>2, <2>3, QuietTwice
  <1>6. Quiet(s, s)
    BY <1>1, LeadsSelf
  <1> HIDE DEF cur, focus, mini, popped, back
  <1> QED
    BY <1>2, <1>4, <1>5, <1>6

LEMMA QuietActionMinimizeAll ==
  ASSUME NEW s, Sound(s)
  PROVE  Quiet(s, ActionMinimizeAll(s))
  <1> DEFINE focus == s.desk[s.current].tracked
             here  == Tiled(s, s.client[focus].place)
             t     == [s EXCEPT !.client = [c \in Clients |->
                        [s.client[c] EXCEPT !.mini = s.client[c].mini \/ c \in here]]]
  <1>1. s \in State
    BY DEF Sound
  <1>2. CASE focus = None
    <2>1. ActionMinimizeAll(s) = s
      BY <1>2 DEF ActionMinimizeAll
    <2> QED
      BY <1>1, <2>1, LeadsSelf
  <1>3. CASE focus # None
    <2>1. ActionMinimizeAll(s) = Arrange(t)
      BY <1>3 DEF ActionMinimizeAll
    <2>2. \A c \in Clients : s.client[c] \in Record
      BY <1>1 DEF State
    <2> HIDE DEF here
    <2>3. ASSUME NEW c \in Clients
          PROVE  [s.client[c] EXCEPT !.mini = s.client[c].mini \/ c \in here] \in Record
      BY ZenonT(60), <2>2 DEF Record
    <2>4. t.client = [c \in Clients |-> [s.client[c] EXCEPT !.mini = s.client[c].mini \/ c \in here]]
      BY <1>1 DEF State
    <2>5. t.client \in [Clients -> Record]
      BY <2>3, <2>4
    <2>6. t \in State /\ t.current = s.current /\ t.queue = s.queue /\ t.input = s.input /\ t.desk = s.desk
      BY <1>1, <2>4, <2>5 DEF State
    <2>7. ASSUME NEW c \in Clients PROVE \A n : Known(t.client[c], n) = Known(s.client[c], n)
      <3>1. t.client[c] = [s.client[c] EXCEPT !.mini = s.client[c].mini \/ c \in here]
        BY <2>4
      <3>2. t.client[c] = [s.client[c] EXCEPT !.mini = t.client[c].mini]
        BY <2>2, <3>1 DEF Record
      <3> QED
        BY <2>2, <3>2, KnownSame
    <2> HIDE DEF t
    <2>8. Quiet(s, t)
      BY <1>1, <2>6, <2>7, QuietMarked
    <2> QED
      BY <2>1, <2>6, <2>8, QuietArrange, QuietTwice
  <1> QED
    BY <1>2, <1>3

LEMMA QuietActionToggleFullscreen ==
  ASSUME NEW s, Sound(s)
  PROVE  Quiet(s, ActionToggleFullscreen(s))
  <1> DEFINE cur   == s.current
             focus == s.desk[cur].tracked
             on    == ~s.client[focus].full
  <1>1. s \in State /\ cur \in Workspaces /\ focus \in Clients \cup {None} /\ s.desk[cur] \in Desk
    BY DEF Sound, State, Desk
  <1>2. CASE focus = None \/ s.client[focus].workspace # cur \/ s.desk[cur].full \notin {None, focus}
    <2>1. ActionToggleFullscreen(s) = s
      BY <1>2 DEF ActionToggleFullscreen
    <2> QED
      BY <1>1, <2>1, LeadsSelf
  <1>3. CASE ~(focus = None \/ s.client[focus].workspace # cur \/ s.desk[cur].full \notin {None, focus})
    <2>1. PICK x : x = [s.client[focus] EXCEPT !.full = on]
      OBVIOUS
    <2>2. PICK d : d = [s.desk[cur] EXCEPT !.full = IF on THEN focus ELSE None]
      OBVIOUS
    <2>3. PICK o : o = SetClient(s, focus, x)
      OBVIOUS
    <2>4. PICK t : t = SetDesk(o, cur, d)
      OBVIOUS
    <2>5. ActionToggleFullscreen(s) = Arrange(t)
      BY <1>3, <2>1, <2>2, <2>3, <2>4 DEF ActionToggleFullscreen
    <2>6. focus \in Clients /\ s.client[focus] \in Record
      BY <1>1, <1>3 DEF State
    <2>7. on \in BOOLEAN
      OBVIOUS
    <2> HIDE DEF on, focus
    <2>8. x \in Record /\ x = [s.client[focus] EXCEPT !.full = x.full]
      BY <2>1, <2>6, <2>7 DEF Record
    <2>9. d \in Desk /\ d.tracked = s.desk[cur].tracked
      BY <1>1, <2>2, <2>6 DEF Desk
    <2>10. Quiet(s, o)
      <3>1. \A n : Known(x, n) = Known(s.client[focus], n)
        BY <2>6, <2>8, KnownSame
      <3> QED
        BY <1>1, <2>3, <2>6, <2>8, <3>1, QuietSetClient
    <2>11. Quiet(o, t)
      <3>1. o \in State /\ o.desk = s.desk
        BY <1>1, <2>3, <2>6, <2>8, SetClientIs
      <3> QED
        BY <1>1, <2>4, <2>9, <3>1, QuietDesk
    <2>12. Quiet(s, t)
      BY <2>10, <2>11, QuietTwice
    <2>13. Quiet(t, Arrange(t))
      BY <2>12, QuietState, QuietArrange
    <2> QED
      BY <2>5, <2>12, <2>13, QuietTwice
  <1> QED
    BY <1>2, <1>3

(* A FocusIn is seen by nobody else, but it sets a focus.                  *)
LEMMA HandleFocusInIs ==
  ASSUME NEW s, Sound(s), NEW c \in Clients
  PROVE  LET t == HandleFocusIn(s, c) IN
         /\ t \in State /\ t.current = s.current /\ Sight(t) = Sight(s)
         /\ \A w \in Workspaces : 
              \/ t.desk[w].tracked = s.desk[w].tracked
              \/ /\ t.desk[w].tracked = c /\ w = s.current /\ s.client[c].managed
                 /\ s.client[c].ul = "none" /\ s.client[c].state = "MAPPED"
         /\ Coupled(s) => Coupled(t)
  <1> DEFINE r == s.client[c]
  <1>1. s \in State /\ Stacked(s) /\ RecordOK(r, s.current) /\ s.current \in Workspaces /\ r \in Record
    BY DEF Sound, Records, State
  <1>2. CASE ~(r.managed /\ V!IsClientMapped(r))
    <2>1. HandleFocusIn(s, c) = s
      BY <1>2 DEF HandleFocusIn
    <2> QED
      BY <1>1, <2>1
  <1>3. CASE r.managed /\ V!IsClientMapped(r)
    <2>1. r.workspace = s.current /\ r.ul = "none" /\ r.state = "MAPPED"
      BY <1>1, <1>3 DEF RecordOK, V!IsClientMapped
    <2>2. PICK p : p = FsPush(s, c)
      OBVIOUS
    <2>3. Restacked(s, p)
      BY <1>1, <1>3, <2>1, <2>2, FsPushIs
    <2>4. Quiet(s, p) /\ p \in State
      BY <1>1, <2>3, QuietRestacked, QuietState
    <2>5. PICK d : d = [p.desk[s.current] EXCEPT !.tracked = c]
      OBVIOUS
    <2>6. p.desk[s.current] \in Desk
      BY <1>1, <2>4 DEF State
    <2>7. d \in Desk /\ d.tracked = c
      BY <2>5, <2>6 DEF Desk
    <2>8. PICK t : t = SetDesk(p, s.current, d)
      OBVIOUS
    <2>9. HandleFocusIn(s, c) = t
      BY <1>3, <2>1, <2>2, <2>5, <2>8 DEF HandleFocusIn, Track
    <2>10. /\ t \in State /\ t.current = p.current /\ t.client = p.client
           /\ t.input = p.input /\ t.queue = p.queue /\ t.desk[s.current] = d
           /\ \A u \in Workspaces : u # s.current => t.desk[u] = p.desk[u]
      BY <1>1, <2>4, <2>7, <2>8, SetDeskIs
    <2>11. Sight(t) = Sight(s)
      BY <2>4, <2>10 DEF Quiet, Sight, Seen
    <2>12. Coupled(s) => Coupled(t)
      <3>1. Coupled(p) => Coupled(t)
        BY <2>10 DEF Coupled, HasInput, LastKept
      <3> QED
        BY <2>4, <3>1 DEF Quiet, Leads
    <2>13. \A u \in Workspaces : p.desk[u].tracked = s.desk[u].tracked
      <3> SUFFICES ASSUME NEW u \in Workspaces PROVE p.desk[u].tracked = s.desk[u].tracked
        OBVIOUS
      <3>1. p.desk[u] = [s.desk[u] EXCEPT !.head = p.desk[u].head, !.n = p.desk[u].n] /\ s.desk[u] \in Desk
        BY <1>1, <2>3 DEF Restacked, State
      <3> QED
        BY <3>1 DEF Desk
    <2>14. t.current = s.current
      BY <2>3, <2>10 DEF Restacked
    <2>15. \A w \in Workspaces : t.desk[w].tracked = s.desk[w].tracked \/ (t.desk[w].tracked = c /\ w = s.current)
      BY <2>7, <2>10, <2>13
    <2> QED
      BY <1>3, <2>1, <2>9, <2>10, <2>11, <2>12, <2>14, <2>15
  <1> QED
    BY <1>2, <1>3

-----------------------------------------------------------------------------
(* The keys that unmap and map.                                            *)
LEMMA UnmapClientKeepsMapped ==
  ASSUME NEW r, NEW x, r.notices = <<>>, x = V!UnmapClient(r), IsTold(r)
  PROVE  r.win = "mapped" => IF x.notices = <<>> THEN x.win = "mapped" ELSE Head(x.notices) = "unmap"
  <1>1. PICK y : y = [r EXCEPT !.state = "UNMAP_PENDING", !.pending_unmap = @ + 1]
    OBVIOUS
  <1>2. y.notices = <<>> /\ y.win = r.win /\ (x = r \/ x = V!XUnmapWindow(y))
    <2>1. [r EXCEPT !.notices = <<>>] \in Record
      BY DEF IsTold
    <2>2. y.notices = r.notices /\ y.win = r.win
      BY <1>1
    <2> QED
      BY <1>1, <2>2 DEF V!UnmapClient
  <1>3. CASE x = r
    BY <1>3
  <1>4. CASE x = V!XUnmapWindow(y) /\ r.win = "mapped"
    <2>1. x = [y EXCEPT !.win = "unmapped", !.notices = Append(@, "unmap")]
      BY <1>2, <1>4 DEF V!XUnmapWindow
    <2> QED
      BY <1>2, <2>1
  <1> QED
    BY <1>2, <1>3, <1>4

LEMMA LeaveKeepsMapped ==
  ASSUME NEW r \in Record
  PROVE  LET x == V!Leave(r) IN
         r.win = "mapped" => IF x.notices = <<>> THEN x.win = "mapped" ELSE Head(x.notices) = "unmap"
  <1>1. PICK a : a = [r EXCEPT !.from_switch = TRUE]
    OBVIOUS
  <1>2. PICK b : b = V!CancelCancelPendingUnmaps(a)
    OBVIOUS
  <1>3. PICK x : x = V!CancelPendingMaps(b)
    OBVIOUS
  <1>4. a \in Record /\ a.win = r.win /\ a.notices = <<>>
    BY <1>1 DEF Record
  <1>5. b \in Record /\ b.win = r.win /\ b.notices = <<>>
    <2>1. b = a \/ b = [a EXCEPT !.map_after = FALSE]
      BY <1>2 DEF V!CancelCancelPendingUnmaps
    <2>2. [a EXCEPT !.map_after = FALSE] \in Record
      BY <1>4 DEF Record
    <2>3. [a EXCEPT !.map_after = FALSE].win = a.win /\ [a EXCEPT !.map_after = FALSE].notices = a.notices
      BY <1>4 DEF Record
    <2> QED
      BY <1>4, <2>1, <2>2, <2>3
  <1>6. x \in Record /\ x.win = r.win /\ x.notices = <<>>
    <2>1. x = b \/ x = [b EXCEPT !.unmap_after = TRUE]
      BY <1>3 DEF V!CancelPendingMaps
    <2>2. [b EXCEPT !.unmap_after = TRUE] \in Record
      BY <1>5 DEF Record
    <2>3. [b EXCEPT !.unmap_after = TRUE].win = b.win /\ [b EXCEPT !.unmap_after = TRUE].notices = b.notices
      BY <1>5 DEF Record
    <2> QED
      BY <1>5, <2>1, <2>2, <2>3
  <1>7. V!Leave(r) = IF V!InUnmappedList(r) THEN x ELSE V!UnmapClient(x)
    BY <1>1, <1>2, <1>3 DEF V!Leave, V!SetUnmappedFromSwitch
  <1>8. PICK u : u = V!UnmapClient(x)
    OBVIOUS
  <1>9. x.win = "mapped" => IF u.notices = <<>> THEN u.win = "mapped" ELSE Head(u.notices) = "unmap"
    BY <1>6, <1>8, RecordIsTold, UnmapClientKeepsMapped
  <1> QED
    BY <1>6, <1>7, <1>8, <1>9

LEMMA EnterKeepsMapped ==
  ASSUME NEW r \in Record
  PROVE  LET x == V!Enter(r) IN
         r.win = "mapped" => IF x.notices = <<>> THEN x.win = "mapped" ELSE Head(x.notices) = "unmap"
  <1>1. PICK a : a = V!CancelCancelPendingMaps(r)
    OBVIOUS
  <1>2. PICK b : b = V!CancelPendingUnmaps(a)
    OBVIOUS
  <1>3. a \in Record /\ a.win = r.win
    BY <1>1 DEF V!CancelCancelPendingMaps, Record
  <1>4. b \in Record /\ b.win = r.win /\ b.notices = <<>>
    BY ZenonT(60), <1>2, <1>3 DEF V!CancelPendingUnmaps, Record
  <1>5. V!Enter(r) = IF V!InUnmappedList(r) THEN V!MapClient(b) ELSE b
    BY <1>1, <1>2 DEF V!Enter
  <1>6. PICK u : u = V!MapClient(b)
    OBVIOUS
  <1>7. b.win = "mapped" => IF u.notices = <<>> THEN u.win = "mapped" ELSE Head(u.notices) = "unmap"
    BY <1>4, <1>6, MapClientKeepsMapped
  <1> QED
    BY <1>4, <1>5, <1>6, <1>7

LEMMA ActionUnmapWindowTurns ==
  ASSUME NEW s, Sound(s), s.desk[s.current].tracked # None
  PROVE  LET c == s.desk[s.current].tracked IN
         /\ c \in Clients
         /\ Turns(s, ActionUnmapWindow(s), c, V!UnmapClient([Seen(s, c) EXCEPT !.future_stay = TRUE]))
  <1>1. PICK c : c = s.desk[s.current].tracked
    OBVIOUS
  <1>2. s \in State /\ c \in Clients /\ s.client[c] \in Record
    BY <1>1 DEF Sound, State, Desk
  <1> DEFINE a == NoticesOf(s.queue, c)
             y == Seen(s, c)
  <1>3. PICK r, z : r = [s.client[c] EXCEPT !.future_stay = TRUE] /\ z = [y EXCEPT !.future_stay = TRUE]
    OBVIOUS
  <1>4. a \in Seq(V!Notices) /\ Sees(a, z, r)
    <2>1. a \in Seq(V!Notices) /\ Sees(a, y, s.client[c])
      BY <1>2, SeesSeen
    <2>2. Sees(a, [y EXCEPT !.future_stay = TRUE], [s.client[c] EXCEPT !.future_stay = TRUE])
      BY <2>1, FlagSees
    <2> QED
      BY <1>3, <2>1, <2>2
  <1>5. PICK x : x = V!UnmapClient(r)
    OBVIOUS
  <1>6. r \in Record /\ r.win = s.client[c].win /\ r.notices = <<>>
    BY <1>2, <1>3 DEF Record
  <1>7. Sees(a, V!UnmapClient(z), x)
    BY <1>4, <1>5, UnmapClientSees
  <1>8. s.client[c].win = "mapped" => IF x.notices = <<>> THEN x.win = "mapped" ELSE Head(x.notices) = "unmap"
    BY <1>5, <1>6, RecordIsTold, UnmapClientKeepsMapped
  <1>9. Turns(s, Put(s, c, x), c, V!UnmapClient(z))
    BY <1>2, <1>7, <1>8, PutSees
  <1>10. ActionUnmapWindow(s) = Put(s, c, x)
    BY <1>1, <1>2, <1>3, <1>5, FocusAssumption DEF ActionUnmapWindow
  <1> QED
    BY <1>1, <1>2, <1>3, <1>9, <1>10

LEMMA ActionMapLatestUnmapTurns ==
  ASSUME NEW s, Sound(s), NEW c \in Clients
  PROVE  Turns(s, ActionMapLatestUnmap(s, c), c,
               V!MapClient([Seen(s, c) EXCEPT !.ul = "can", !.future_stay = FALSE]))
  <1> DEFINE a == NoticesOf(s.queue, c)
             y == Seen(s, c)
  <1>1. s \in State /\ s.client[c] \in Record
    BY DEF Sound, State
  <1>2. PICK r, z : /\ r = [s.client[c] EXCEPT !.ul = "can", !.future_stay = FALSE]
                    /\ z = [y EXCEPT !.ul = "can", !.future_stay = FALSE]
    OBVIOUS
  <1>3. a \in Seq(V!Notices) /\ Sees(a, z, r)
    <2>1. a \in Seq(V!Notices) /\ Sees(a, y, s.client[c])
      BY <1>1, SeesSeen
    <2>2. Sees(a, [y EXCEPT !.ul = "can", !.future_stay = FALSE],
                  [s.client[c] EXCEPT !.ul = "can", !.future_stay = FALSE])
      BY <2>1, CanSees
    <2> QED
      BY <1>2, <2>1, <2>2
  <1>4. PICK x : x = V!MapClient(r)
    OBVIOUS
  <1>5. r \in Record /\ r.win = s.client[c].win
    BY <1>1, <1>2 DEF Record
  <1>6. Sees(a, V!MapClient(z), x)
    BY <1>3, <1>4, MapClientSees
  <1>7. s.client[c].win = "mapped" => IF x.notices = <<>> THEN x.win = "mapped" ELSE Head(x.notices) = "unmap"
    BY <1>4, <1>5, MapClientKeepsMapped
  <1>8. Turns(s, Put(s, c, x), c, V!MapClient(z))
    BY <1>1, <1>6, <1>7, PutSees
  <1>9. ActionMapLatestUnmap(s, c) = Put(s, c, x)
    BY <1>2, <1>4 DEF ActionMapLatestUnmap
  <1> QED
    BY <1>2, <1>8, <1>9

(* One client of the workspace that is left, one of the one entered.       *)
LEMMA LeaveTurns ==
  ASSUME NEW t \in State, NEW x \in Clients, NEW w
  PROVE  /\ Turns(t, UnmapOne(w, t, x), x, V!Leave(Seen(t, x)))
         /\ Turns(t, MapOne(w, t, x), x, V!Enter(Seen(t, x)))
  <1> DEFINE a == NoticesOf(t.queue, x)
             y == Seen(t, x)
  <1>1. a \in Seq(V!Notices) /\ Sees(a, y, t.client[x]) /\ t.client[x] \in Record
    BY SeesSeen DEF State
  <1>2. PICK l, e : l = V!Leave(t.client[x]) /\ e = V!Enter(t.client[x])
    OBVIOUS
  <1>3. Sees(a, V!Leave(y), l) /\ Sees(a, V!Enter(y), e)
    BY <1>1, <1>2, LeaveSees, EnterSees
  <1>4. t.client[x].win = "mapped" => IF l.notices = <<>> THEN l.win = "mapped" ELSE Head(l.notices) = "unmap"
    BY <1>1, <1>2, LeaveKeepsMapped
  <1>5. t.client[x].win = "mapped" => IF e.notices = <<>> THEN e.win = "mapped" ELSE Head(e.notices) = "unmap"
    BY <1>1, <1>2, EnterKeepsMapped
  <1>6. Turns(t, Put(t, x, l), x, V!Leave(y)) /\ Turns(t, Put(t, x, e), x, V!Enter(y))
    BY <1>3, <1>4, <1>5, PutSees
  <1> QED
    BY <1>2, <1>6 DEF UnmapOne, MapOne

(* From s to t the clients of D are handled, each as in F.                 *)
AllTurn(s, t, D, F) == Leads(s, t) /\ Sight(t) = [c \in Clients |-> IF c \in D THEN F[c] ELSE Seen(s, c)]

LEMMA AllTurnOne ==
  ASSUME NEW s, NEW t, NEW u, NEW D, NEW F, AllTurn(s, t, D, F),
         NEW x \in Clients, Turns(t, u, x, F[x])
  PROVE  AllTurn(s, u, D \cup {x}, F)
  <1>1. Leads(s, u)
    BY LeadsTwice DEF AllTurn, Turns
  <1>2. Sight(u) = [Sight(t) EXCEPT ![x] = F[x]]
    BY DEF Turns
  <1>3. Sight(t) = [c \in Clients |-> IF c \in D THEN F[c] ELSE Seen(s, c)]
    BY DEF AllTurn
  <1>4. Sight(u) = [c \in Clients |-> IF c \in D \cup {x} THEN F[c] ELSE Seen(s, c)]
    BY <1>2, <1>3
  <1> QED
    BY <1>1, <1>4 DEF AllTurn

LEMMA UnmapWorkspaceTurns ==
  ASSUME NEW s \in State, NEW w, NEW D \in SUBSET Clients
  PROVE  AllTurn(s, UnmapWorkspace!Over(w, s, D), D, [c \in Clients |-> V!Leave(Seen(s, c))])
  <1> DEFINE F == [c \in Clients |-> V!Leave(Seen(s, c))]
             Stage == [T \in SUBSET D |-> {t \in State : AllTurn(s, t, T, F)}]
             t == UnmapWorkspace!Over(w, s, D)
  <1>1. UnmapWorkspace!IsFiniteSet(D)
    <2>1. IsFiniteSet(D)
      BY FocusAssumption, FS_Subset
    <2> QED
      BY <2>1 DEF IsFiniteSet, UnmapWorkspace!IsFiniteSet
  <1>2. s \in Stage[{}]
    BY LeadsSelf DEF AllTurn, Sight
  <1>3. ASSUME NEW T \in SUBSET D, NEW x \in D \ T, NEW q \in Stage[T]
        PROVE  UnmapOne(w, q, x) \in Stage[T \cup {x}]
    <2>1. q \in State /\ AllTurn(s, q, T, F) /\ x \in Clients /\ x \notin T
      BY <1>3
    <2>2. Seen(q, x) = Seen(s, x)
      <3>1. Sight(q)[x] = Seen(s, x)
        BY <2>1 DEF AllTurn
      <3> QED
        BY <2>1, <3>1, SightAt
    <2>3. F[x] = V!Leave(Seen(q, x))
      BY <2>1, <2>2
    <2> HIDE DEF F
    <2>4. Turns(q, UnmapOne(w, q, x), x, F[x])
      BY <2>1, <2>3, LeaveTurns
    <2>5. AllTurn(s, UnmapOne(w, q, x), T \cup {x}, F)
      BY <2>1, <2>4, AllTurnOne
    <2>6. UnmapOne(w, q, x) \in State
      BY <2>4 DEF Turns, Leads
    <2> QED
      BY <2>1, <2>5, <2>6
  <1> HIDE DEF Stage
  <1>4. t \in Stage[D]
    BY <1>1, <1>2, <1>3, UnmapWorkspace!OverStages
  <1> QED
    BY <1>4 DEF Stage

LEMMA MapWorkspaceTurns ==
  ASSUME NEW s \in State, NEW w, NEW D \in SUBSET Clients
  PROVE  AllTurn(s, MapWorkspace!Over(w, s, D), D, [c \in Clients |-> V!Enter(Seen(s, c))])
  <1> DEFINE F == [c \in Clients |-> V!Enter(Seen(s, c))]
             Stage == [T \in SUBSET D |-> {t \in State : AllTurn(s, t, T, F)}]
             t == MapWorkspace!Over(w, s, D)
  <1>1. MapWorkspace!IsFiniteSet(D)
    <2>1. IsFiniteSet(D)
      BY FocusAssumption, FS_Subset
    <2> QED
      BY <2>1 DEF IsFiniteSet, MapWorkspace!IsFiniteSet
  <1>2. s \in Stage[{}]
    BY LeadsSelf DEF AllTurn, Sight
  <1>3. ASSUME NEW T \in SUBSET D, NEW x \in D \ T, NEW q \in Stage[T]
        PROVE  MapOne(w, q, x) \in Stage[T \cup {x}]
    <2>1. q \in State /\ AllTurn(s, q, T, F) /\ x \in Clients /\ x \notin T
      BY <1>3
    <2>2. Seen(q, x) = Seen(s, x)
      <3>1. Sight(q)[x] = Seen(s, x)
        BY <2>1 DEF AllTurn
      <3> QED
        BY <2>1, <3>1, SightAt
    <2>3. F[x] = V!Enter(Seen(q, x))
      BY <2>1, <2>2
    <2> HIDE DEF F
    <2>4. Turns(q, MapOne(w, q, x), x, F[x])
      BY <2>1, <2>3, LeaveTurns
    <2>5. AllTurn(s, MapOne(w, q, x), T \cup {x}, F)
      BY <2>1, <2>4, AllTurnOne
    <2>6. MapOne(w, q, x) \in State
      BY <2>4 DEF Turns, Leads
    <2> QED
      BY <2>1, <2>5, <2>6
  <1> HIDE DEF Stage
  <1>4. t \in Stage[D]
    BY <1>1, <1>2, <1>3, MapWorkspace!OverStages
  <1> QED
    BY <1>4 DEF Stage

(* When another workspace becomes the current one.                         *)
Followed(s, u) ==
  /\ \A x \in Workspaces : u.desk[x].tracked \in {s.desk[x].tracked, None}
  /\ Coupled(s) => Coupled(u)

LEMMA CurrentIs ==
  ASSUME NEW s \in State, NEW t, Leads(s, t), NEW w \in Workspaces, NEW u, u = [t EXCEPT !.current = w]
  PROVE  /\ u \in State /\ u.current = w /\ Sight(u) = Sight(t)
         /\ Followed(s, u)
  <1>1. t \in State
    BY DEF Leads
  <1>2. /\ u \in State /\ u.current = w /\ u.client = t.client /\ u.desk = t.desk
        /\ u.input = t.input /\ u.queue = t.queue
    BY <1>1 DEF State
  <1>3. Sight(u) = Sight(t)
    BY <1>2 DEF Sight, Seen
  <1>4. Coupled(t) => Coupled(u)
    BY <1>2 DEF Coupled, HasInput, LastKept
  <1> QED
    BY <1>2, <1>3, <1>4 DEF Leads, Followed

LEMMA ActionSwitchWorkspaceTurns ==
  ASSUME NEW s, Sound(s), NEW w \in Workspaces, w # s.current, NEW first
  PROVE  LET t == ActionSwitchWorkspace(s, w, first) IN
         /\ t \in State /\ t.current = w
         /\ Followed(s, t)
         /\ Sight(t) = [c \in Clients |->
              IF s.client[c].managed /\ s.client[c].place = s.current THEN V!Leave(Seen(s, c))
              ELSE IF s.client[c].managed /\ s.client[c].place = w THEN V!Enter(Seen(s, c))
              ELSE Seen(s, c)]
  <1> DEFINE cur == s.current
             focus == s.desk[cur].tracked
             m     == MonitorAt(s, cur, focus)
             gone  == focus # None /\ s.client[focus].workspace # cur
             At(u) == {c \in Clients : s.client[c].managed /\ s.client[c].place = u}
  <1>1. s \in State /\ cur \in Workspaces
    BY DEF Sound, State
  <1>2. PICK p : p = IF m = NoWorkspace THEN s ELSE FsPop(s, cur)
    OBVIOUS
  <1>3. PICK left : left = IF ~gone THEN s ELSE SetCurrentFocus(p, NextFocus(p, m, first), "current")
    OBVIOUS
  <1>4. PICK d : d = [left.desk[cur] EXCEPT !.before = left.desk[cur].tracked]
    OBVIOUS
  <1>5. PICK kept : kept = SetDesk(left, cur, d)
    OBVIOUS
  <1>6. PICK away : away = UnmapWorkspace!Over(cur, kept, At(cur))
    OBVIOUS
  <1>7. PICK back : back = MapWorkspace!Over(w, away, At(w))
    OBVIOUS
  <1>8. PICK u : u = [back EXCEPT !.current = w]
    OBVIOUS
  <1>9. ActionSwitchWorkspace(s, w, first) = ArrangeJustify(u, first)
    BY <1>2, <1>3, <1>4, <1>5, <1>6, <1>7, <1>8 DEF ActionSwitchWorkspace
  <1>10. Quiet(s, p) /\ p \in State
    <2>1. Restacked(s, FsPop(s, cur))
      BY SoundFsPop
    <2>2. Quiet(s, FsPop(s, cur))
      BY <1>1, <2>1, QuietRestacked
    <2>3. Quiet(s, s)
      BY <1>1, LeadsSelf
    <2> QED
      BY <1>2, <2>2, <2>3, QuietState
  <1>11. Quiet(s, left) /\ left \in State
    <2>1. NextFocus(p, m, first) \in Clients \cup {None}
      BY <1>10, NextFocusIs
    <2>2. Quiet(p, SetCurrentFocus(p, NextFocus(p, m, first), "current"))
      BY <1>10, <2>1, QuietSetCurrentFocus
    <2>3. Quiet(s, SetCurrentFocus(p, NextFocus(p, m, first), "current"))
      BY <1>10, <2>2, QuietTwice
    <2>4. Quiet(s, s)
      BY <1>1, LeadsSelf
    <2> QED
      BY <1>3, <2>3, <2>4, QuietState
  <1>12. Quiet(s, kept) /\ kept \in State
    <2>1. left.desk[cur] \in Desk
      BY <1>1, <1>11 DEF State
    <2>2. d \in Desk /\ d.tracked = left.desk[cur].tracked
      BY <1>4, <2>1 DEF Desk
    <2>3. Quiet(left, kept)
      BY <1>1, <1>5, <1>11, <2>2, QuietDesk
    <2> QED
      BY <1>11, <2>3, QuietTwice, QuietState
  <1>13. \A c \in Clients : Seen(kept, c) = Seen(s, c)
    BY <1>12, QuietSees DEF Quiet
  <1>14. At(cur) \in SUBSET Clients /\ At(w) \in SUBSET Clients
         /\ \A c \in Clients : ~(c \in At(cur) /\ c \in At(w))
    OBVIOUS
  <1>15. \A u1 : \A c \in Clients : c \in At(u1) <=> s.client[c].managed /\ s.client[c].place = u1
    OBVIOUS
  <1> HIDE DEF At
  <1>16. Leads(kept, away) /\ away \in State
         /\ \A c \in Clients : Seen(away, c) = IF c \in At(cur) THEN V!Leave(Seen(s, c)) ELSE Seen(s, c)
    <2> DEFINE F == [c \in Clients |-> V!Leave(Seen(kept, c))]
    <2>1. AllTurn(kept, away, At(cur), F)
      BY <1>6, <1>12, <1>14, UnmapWorkspaceTurns
    <2>2. Leads(kept, away) /\ Sight(away) = [c \in Clients |-> IF c \in At(cur) THEN F[c] ELSE Seen(kept, c)]
      BY <2>1 DEF AllTurn
    <2>3. ASSUME NEW c \in Clients
          PROVE  Seen(away, c) = IF c \in At(cur) THEN V!Leave(Seen(s, c)) ELSE Seen(s, c)
      <3>1. Sight(away)[c] = IF c \in At(cur) THEN V!Leave(Seen(s, c)) ELSE Seen(s, c)
        BY <1>13, <2>2
      <3> QED
        BY <3>1, SightAt
    <2> QED
      BY <2>2, <2>3 DEF Leads
  <1>17. Leads(away, back)
         /\ \A c \in Clients : Seen(back, c) = IF c \in At(w) THEN V!Enter(Seen(away, c)) ELSE Seen(away, c)
    <2> DEFINE F == [c \in Clients |-> V!Enter(Seen(away, c))]
    <2>1. AllTurn(away, back, At(w), F)
      BY <1>7, <1>14, <1>16, MapWorkspaceTurns
    <2>2. Leads(away, back) /\ Sight(back) = [c \in Clients |-> IF c \in At(w) THEN F[c] ELSE Seen(away, c)]
      BY <2>1 DEF AllTurn
    <2>3. ASSUME NEW c \in Clients
          PROVE  Seen(back, c) = IF c \in At(w) THEN V!Enter(Seen(away, c)) ELSE Seen(away, c)
      <3>1. Sight(back)[c] = IF c \in At(w) THEN V!Enter(Seen(away, c)) ELSE Seen(away, c)
        BY <2>2
      <3> QED
        BY <3>1, SightAt
    <2> QED
      BY <2>2, <2>3
  <1>18. Leads(s, back)
    BY <1>12, <1>16, <1>17, LeadsTwice DEF Quiet
  <1> DEFINE S == [c \in Clients |->
              IF s.client[c].managed /\ s.client[c].place = cur THEN V!Leave(Seen(s, c))
              ELSE IF s.client[c].managed /\ s.client[c].place = w THEN V!Enter(Seen(s, c))
              ELSE Seen(s, c)]
  <1>19. \A c \in Clients : Seen(back, c) = S[c]
    BY <1>14, <1>15, <1>16, <1>17
  <1>20. Sight(back) = S
    BY <1>19 DEF Sight
  <1> HIDE DEF S
  <1>21. /\ u \in State /\ u.current = w /\ Sight(u) = S
         /\ Followed(s, u)
    <2>1. /\ u \in State /\ u.current = w /\ Sight(u) = Sight(back)
          /\ Followed(s, u)
      BY <1>1, <1>8, <1>18, CurrentIs
    <2> QED
      BY <1>20, <2>1
  <1>22. Quiet(u, ArrangeJustify(u, first))
    BY <1>21, QuietArrangeJustify
  <1>23. PICK t : t = ArrangeJustify(u, first)
    OBVIOUS
  <1>24. /\ t \in State /\ t.current = w /\ Sight(t) = S
         /\ Followed(s, t)
    BY <1>21, <1>22, <1>23 DEF Quiet, Leads, Followed
  <1> QED
    BY <1>9, <1>23, <1>24 DEF S

-----------------------------------------------------------------------------
(* A focus that is in the unmapped list is about to be given up: its       *)
(* FocusOut is the next event.                                             *)
OutFirst(s) ==
  \A w \in Workspaces, c \in Clients : s.desk[w].tracked = c /\ s.client[c].ul # "none" =>
    s.queue # <<>> /\ s.queue[1].what = "out" /\ s.queue[1].of = c

Linked(s) == Sound(s) /\ Told(s) /\ Coupled(s) /\ OutFirst(s)

LEMMA BecomeSight ==
  ASSUME NEW s \in State, Become(s)
  PROVE  Now' = s /\ View' = Sight(s) /\ current' = s.current
  <1>1. Now' = s
    BY BecomeIs
  <1>2. client' = s.client /\ queue' = s.queue /\ current' = s.current
    BY DEF Become
  <1> QED
    BY <1>1, <1>2 DEF View, Sight, Seen

LEMMA ViewIs ==
  View = Sight(Now) /\ \A c \in Clients : View[c] = Seen(Now, c)
  BY DEF View, Sight, Seen, Now

(* An event is read.                                                       *)
LEMMA RestCoupled ==
  ASSUME Linked(Now), queue # <<>>
  PROVE  Rest \in State /\ Coupled(Rest)
  <1>1. Sound(Rest) /\ Rest.queue = Tail(queue) /\ Rest.input = input /\ Rest.client = client
    BY RestIs DEF Linked
  <1>2. Now \in State /\ Rest \in State /\ queue \in Seq(Events)
    BY <1>1 DEF Linked, Sound, State, Now
  <1> DEFINE f == [i \in 0..Len(Tail(queue)) |-> i + 1]
  <1>3. Len(queue) \in Nat /\ Len(queue) # 0 /\ Len(Tail(queue)) = Len(queue) - 1
    BY <1>2
  <1>4. \A k \in 1..Len(Tail(queue)) : Tail(queue)[k] = queue[k + 1]
    BY <1>2, <1>3
  <1>5. Thin(queue, Tail(queue), f)
    <2>1. f \in [0..Len(Tail(queue)) -> 0..Len(queue)]
      BY <1>3
    <2>2. \A i, j \in 0..Len(Tail(queue)) : i < j => f[i] < f[j]
      BY <1>3
    <2>3. \A k \in 1..Len(Tail(queue)) : f[k] = k + 1
      BY <1>3
    <2>4. f[0] = 1
      BY <1>3
    <2>5. ASSUME NEW j \in 1..Len(queue), j > f[0] PROVE \E k \in 1..Len(Tail(queue)) : f[k] = j
      <3>1. j - 1 \in 1..Len(Tail(queue))
        BY <1>3, <2>4, <2>5
      <3>2. f[j - 1] = j
        BY <2>3, <3>1
      <3> QED
        BY <3>1, <3>2
    <2> HIDE DEF f
    <2> QED
      BY <1>4, <2>1, <2>2, <2>3, <2>5 DEF Thin
  <1> HIDE DEF f
  <1>6. HasInput(Rest)
    BY <1>1 DEF Linked, Told, HasInput, Now
  <1>7. Now.queue = queue /\ Now.input = input
    BY DEF Now
  <1>8. Coupled(Now)
    BY DEF Linked
  <1> QED
    BY <1>1, <1>2, <1>5, <1>6, <1>7, <1>8, CoupledThin

LEMMA RestSeen ==
  ASSUME Linked(Now), queue # <<>>
  PROVE  /\ Head(queue).what \notin V!Notices => Sight(Rest) = View
         /\ Head(queue).what \in V!Notices =>
              /\ Of \in Clients
              /\ View[Of].notices # <<>> /\ Head(View[Of].notices) = Head(queue).what
              /\ Seen(Rest, Of) = V!Read(View[Of])
              /\ \A d \in Clients : d # Of => Seen(Rest, d) = View[d]
  <1>1. /\ Rest.queue = Tail(queue) /\ Rest.client = client
        /\ Head(queue).what # "key" => Of \in Clients
    BY RestIs DEF Linked
  <1>2. queue \in Seq(Events) /\ Tail(queue) \in Seq(Events)
    BY DEF Linked, Sound, State, Now
  <1>3. \A c \in Clients : View[c] = Known(client[c], NoticesOf(queue, c))
                           /\ Seen(Rest, c) = Known(client[c], NoticesOf(Tail(queue), c))
    BY <1>1 DEF View, Seen
  <1>4. \A c : NoticesOf(queue, c) =
                 IF Head(queue).of = c /\ Head(queue).what \in V!Notices
                   THEN <<Head(queue).what>> \o NoticesOf(Tail(queue), c) ELSE NoticesOf(Tail(queue), c)
    BY <1>2, NoticesRead
  <1>5. ASSUME Head(queue).what \notin V!Notices PROVE Sight(Rest) = View
    BY <1>3, <1>4, <1>5 DEF View, Sight
  <1>6. ASSUME Head(queue).what \in V!Notices
        PROVE  /\ Of \in Clients
               /\ View[Of].notices # <<>> /\ Head(View[Of].notices) = Head(queue).what
               /\ Seen(Rest, Of) = V!Read(View[Of])
               /\ \A d \in Clients : d # Of => Seen(Rest, d) = View[d]
    <2>1. Of \in Clients
      BY <1>1, <1>6 DEF V!Notices
    <2>2. PICK ns : ns = NoticesOf(Tail(queue), Of)
      OBVIOUS
    <2>3. ns \in Seq(V!Notices)
      BY <1>2, <2>2, NoticesType
    <2>4. PICK e : e = Head(queue).what
      OBVIOUS
    <2>5. View[Of] = Known(client[Of], <<e>> \o ns) /\ Seen(Rest, Of) = Known(client[Of], ns)
      BY <1>3, <1>4, <1>6, <2>1, <2>2, <2>4 DEF Of
    <2>6. <<e>> \o ns # <<>> /\ Head(<<e>> \o ns) = e /\ Tail(<<e>> \o ns) = ns
      BY <2>3, <1>6, <2>4
    <2>7. View[Of].notices = <<e>> \o ns
      BY <2>5 DEF Known
    <2>8. PICK n : n = <<e>> \o ns
      OBVIOUS
    <2>9. PICK k : k = View[Of]
      OBVIOUS
    <2>10. Seen(Rest, Of) = V!Read(View[Of])
      <3> PICK r : r = client[Of]
        OBVIOUS
      <3>1. k = Known(r, n)
        BY <2>5, <2>8, <2>9
      <3>2. k.notices = n
        BY <3>1 DEF Known
      <3>3. [k EXCEPT !.notices = Tail(n)] = Known(client[Of], Tail(n))
        <4>1. r \in Record /\ r.notices = <<>>
          BY <2>1 DEF Linked, Sound, State, Now, Record
        <4>2. PICK m : m = Tail(n)
          OBVIOUS
        <4>3. n \in Seq(V!Notices) /\ m \in Seq(V!Notices) /\ m \o <<>> = m
          BY <1>6, <2>3, <2>4, <2>8, <4>2
        <4>4. k \in V!Client /\ Shows(k, r, n)
          BY <3>1, <4>1, <4>3, KnownShows
        <4>5. PICK x : x = [k EXCEPT !.notices = m]
          OBVIOUS
        <4>6. x \in V!Client
          BY <4>3, <4>4, <4>5 DEF V!Client
        <4>7. Shows(x, r, m)
          BY <4>1, <4>3, <4>4, <4>5, <4>6 DEF Shows, V!Client
        <4>8. x = Known(r, m)
          BY <4>1, <4>3, <4>6, <4>7, ShownIs
        <4> QED
          BY <4>2, <4>5, <4>8
      <3>4. Tail(n) = ns
        BY <2>6, <2>8
      <3>5. V!Read(k) = [k EXCEPT !.notices = Tail(n)]
        BY <3>2 DEF V!Read
      <3> QED
        BY <2>5, <2>9, <3>3, <3>4, <3>5
    <2>11. \A d \in Clients : d # Of => Seen(Rest, d) = View[d]
      BY <1>3, <1>4 DEF Of
    <2> QED
      BY <2>1, <2>4, <2>6, <2>7, <2>10, <2>11
  <1> QED
    BY <1>5, <1>6

(* The manager finds no focus in the unmapped list.                        *)
LEMMA FocusIsNotUnmapped ==
  ASSUME Linked(Now), queue # <<>>, Head(queue).what # "out",
         NEW w \in Workspaces, NEW c \in Clients, desk[w].tracked = c
  PROVE  client[c].ul = "none"
  <1>1. Now.desk = desk /\ Now.client = client /\ Now.queue = queue
    BY DEF Now
  <1>2. queue \in Seq(Events)
    BY DEF Linked, Sound, State, Now
  <1>3. Head(queue) = queue[1]
    BY <1>2
  <1> QED
    BY <1>1, <1>3 DEF Linked, OutFirst

(* What a handler leads to, when it puts no focus in the unmapped list.    *)
LEMMA FollowedLinked ==
  ASSUME Linked(Now), queue # <<>>, Head(queue).what # "out",
         NEW t \in State, Become(t), Followed(Rest, t),
         \A c \in Clients : t.client[c].ul # "none" /\ client[c].ul = "none" =>
           \/ \A w \in Workspaces : desk[w].tracked # c
           \/ t.queue # <<>> /\ t.queue[1].what = "out" /\ t.queue[1].of = c
  PROVE  Coupled(Now') /\ OutFirst(Now')
  <1>1. Now' = t
    BY BecomeSight
  <1>2. Coupled(t)
    BY RestCoupled DEF Followed
  <1>3. OutFirst(t)
    <2> SUFFICES ASSUME NEW w \in Workspaces, NEW c \in Clients, t.desk[w].tracked = c, t.client[c].ul # "none"
                 PROVE  t.queue # <<>> /\ t.queue[1].what = "out" /\ t.queue[1].of = c
      BY DEF OutFirst
    <2>1. Rest.desk = desk
      BY RestIs DEF Linked
    <2>2. desk[w].tracked = c
      BY <2>1, FocusAssumption DEF Followed
    <2>3. client[c].ul = "none"
      BY <2>2, FocusIsNotUnmapped
    <2> QED
      BY <2>2, <2>3
  <1> QED
    BY <1>1, <1>2, <1>3

(* A handler that Visibility sees nothing of.                              *)
LEMMA QuietStep ==
  ASSUME Linked(Now), queue # <<>>, Head(queue).what \notin V!Notices \cup {"out"},
         NEW t, Quiet(Rest, t), Become(t)
  PROVE  Coupled(Now') /\ OutFirst(Now') /\ UNCHANGED V!vars
  <1>1. t \in State /\ t.current = Rest.current /\ Rest.current = current /\ Rest.client = client
    BY QuietState, RestIs DEF Linked
  <1>2. View' = Sight(t) /\ current' = t.current
    BY <1>1, BecomeSight
  <1>3. Sight(t) = View
    BY RestSeen DEF Quiet
  <1>4. Followed(Rest, t)
    BY DEF Quiet, Leads, Followed
  <1>5. \A c \in Clients : t.client[c].ul = client[c].ul
    BY <1>1, QuietSees DEF Quiet
  <1>6. Coupled(Now') /\ OutFirst(Now')
    BY <1>1, <1>4, <1>5, FollowedLinked
  <1> QED
    BY <1>1, <1>2, <1>3, <1>6 DEF V!vars

(* A handler of an event that Visibility has.                              *)
LEMMA TurnStep ==
  ASSUME Linked(Now), queue # <<>>, Head(queue).what \in V!Notices,
         NEW t, NEW y, Turns(Rest, t, Of, y), Become(t)
  PROVE  Of \in Clients /\ V!Set(Of, y) /\ t.client[Of].ul = y.ul
         /\ \A d \in Clients : d # Of => t.client[d].ul = client[d].ul
  <1>1. t \in State /\ t.current = Rest.current /\ Rest.current = current /\ Rest.client = client
    BY RestIs DEF Linked, Turns, Leads
  <1>2. View' = Sight(t) /\ current' = t.current
    BY <1>1, BecomeSight
  <1>3. Of \in Clients /\ \A d \in Clients : d # Of => Seen(Rest, d) = View[d]
    BY RestSeen
  <1>4. Sight(t) = [Sight(Rest) EXCEPT ![Of] = y]
    BY DEF Turns
  <1>5. Sight(t) = [View EXCEPT ![Of] = y]
    <2>1. \A d \in Clients : Sight(Rest)[d] = Seen(Rest, d)
      BY SightAt
    <2>2. View = [c \in Clients |-> View[c]] /\ Sight(Rest) = [c \in Clients |-> Seen(Rest, c)]
      BY DEF View, Sight
    <2> QED
      BY <1>3, <1>4, <2>1, <2>2
  <1>6. \A d \in Clients : Seen(t, d).ul = t.client[d].ul
    BY DEF Seen, Known
  <1>7. Seen(t, Of) = y
    <2>1. Sight(t)[Of] = y
      BY <1>3, <1>4 DEF Sight
    <2> QED
      BY <1>3, <2>1, SightAt
  <1>8. \A d \in Clients : d # Of => Seen(t, d) = Seen(Rest, d)
    <2>1. \A d \in Clients : d # Of => Sight(t)[d] = Sight(Rest)[d]
      BY <1>4 DEF Sight
    <2> QED
      BY <2>1, SightAt
  <1>9. \A d \in Clients : d # Of => t.client[d].ul = client[d].ul
    BY <1>1, <1>6, <1>8 DEF Seen, Known
  <1> QED
    BY <1>1, <1>2, <1>3, <1>5, <1>6, <1>7, <1>9 DEF V!Set

-----------------------------------------------------------------------------
(* The steps.  Each keeps what Linked says and is a step of Visibility.    *)
Seconded == Coupled(Now') /\ OutFirst(Now') /\ [V!Next]_(V!vars)

(* The client of a request, of a MapNotify or of a DestroyNotify is not    *)
(* tracked.                                                                *)
LEMMA UntrackedTurn ==
  ASSUME Linked(Now), queue # <<>>, Head(queue).what \in V!Notices \ {"unmap"},
         NEW t, NEW y, Turns(Rest, t, Of, y), Become(t)
  PROVE  Coupled(Now') /\ OutFirst(Now')
  <1>1. Read
    BY RestTold DEF Linked
  <1>2. \A w \in Workspaces : desk[w].tracked # Of
    BY <1>1, TurnStep DEF Read, V!Notices
  <1>3. t \in State /\ Followed(Rest, t)
    BY RestCoupled DEF Turns, Leads, Followed
  <1>4. \A d \in Clients : d # Of => t.client[d].ul = client[d].ul
    BY TurnStep
  <1>5. Head(queue).what # "out"
    BY DEF V!Notices
  <1> QED
    BY <1>2, <1>3, <1>4, <1>5, FollowedLinked

LEMMA MapRequestSeconded ==
  ASSUME Linked(Now), MapRequest
  PROVE  Seconded
  <1>1. PICK t : t = HandleMapRequest(Rest, Of)
    OBVIOUS
  <1>2. queue # <<>> /\ Head(queue).what = "request" /\ Become(t)
    BY <1>1 DEF MapRequest, Reads
  <1>3. /\ Of \in Clients /\ View[Of].notices # <<>> /\ Head(View[Of].notices) = "request"
        /\ Seen(Rest, Of) = V!Read(View[Of])
    BY <1>2, RestSeen DEF V!Notices
  <1>4. Sound(Rest) /\ Rest.current = current
    BY <1>2, RestIs DEF Linked
  <1>5. PICK y : y = V!HandleMapRequest(V!Read(View[Of]), current)
    OBVIOUS
  <1>6. Turns(Rest, t, Of, y)
    BY <1>1, <1>3, <1>4, <1>5, HandleMapRequestTurns
  <1>7. Head(queue).what \in V!Notices \ {"unmap"}
    BY <1>2 DEF V!Notices
  <1>8. Coupled(Now') /\ OutFirst(Now') /\ V!Set(Of, y)
    BY <1>2, <1>6, <1>7, UntrackedTurn, TurnStep
  <1>9. V!MapRequest(Of)
    BY <1>3, <1>5, <1>8 DEF V!MapRequest, V!Reads
  <1> QED
    BY <1>3, <1>8, <1>9 DEF Seconded, V!Next, V!Handle

LEMMA DestroyNotifySeconded ==
  ASSUME Linked(Now), DestroyNotify
  PROVE  Seconded
  <1>1. PICK first \in Clients : Become(HandleDestroyNotify(Rest, Of, first))
    BY DEF DestroyNotify
  <1>2. PICK t : t = HandleDestroyNotify(Rest, Of, first)
    OBVIOUS
  <1>3. queue # <<>> /\ Head(queue).what = "destroy" /\ Become(t)
    BY <1>1, <1>2 DEF DestroyNotify, Reads
  <1>4. /\ Of \in Clients /\ View[Of].notices # <<>> /\ Head(View[Of].notices) = "destroy"
        /\ Seen(Rest, Of) = V!Read(View[Of])
    BY <1>3, RestSeen DEF V!Notices
  <1>5. Sound(Rest)
    BY <1>3, RestIs DEF Linked
  <1>6. PICK y : y = V!HandleDestroyNotify(V!Read(View[Of]))
    OBVIOUS
  <1>7. Turns(Rest, t, Of, y)
    BY <1>2, <1>4, <1>5, <1>6, HandleDestroyNotifyTurns
  <1>8. Head(queue).what \in V!Notices \ {"unmap"}
    BY <1>3 DEF V!Notices
  <1>9. Coupled(Now') /\ OutFirst(Now') /\ V!Set(Of, y)
    BY <1>3, <1>7, <1>8, UntrackedTurn, TurnStep
  <1>10. V!DestroyNotify(Of)
    BY <1>4, <1>6, <1>9 DEF V!DestroyNotify, V!Reads
  <1> QED
    BY <1>4, <1>9, <1>10 DEF Seconded, V!Next, V!Handle

LEMMA MapNotifySeconded ==
  ASSUME Linked(Now), MapNotify
  PROVE  Seconded
  <1>1. PICK first \in Clients : Become(HandleMapNotify(Rest, Of, first))
    BY DEF MapNotify
  <1>2. PICK t : t = HandleMapNotify(Rest, Of, first)
    OBVIOUS
  <1>3. queue # <<>> /\ Head(queue).what = "map" /\ Become(t)
    BY <1>1, <1>2 DEF MapNotify, Reads
  <1>4. /\ Of \in Clients /\ View[Of].notices # <<>> /\ Head(View[Of].notices) = "map"
        /\ Seen(Rest, Of) = V!Read(View[Of])
    BY <1>3, RestSeen DEF V!Notices
  <1>5. Sound(Rest) /\ Rest.current = current
    BY <1>3, RestIs DEF Linked
  <1>6. PICK y : y = V!HandleMapNotify(V!Read(View[Of]), current, FALSE)
    OBVIOUS
  <1>7. Turns(Rest, t, Of, y)
    BY <1>2, <1>4, <1>5, <1>6, HandleMapNotifyTurns
  <1>8. Head(queue).what \in V!Notices \ {"unmap"}
    BY <1>3 DEF V!Notices
  <1>9. Coupled(Now') /\ OutFirst(Now') /\ V!Set(Of, y)
    BY <1>3, <1>7, <1>8, UntrackedTurn, TurnStep
  <1>10. V!IsDock(Of) = FALSE
    BY DEF V!IsDock
  <1>11. V!MapNotify(Of)
    BY <1>4, <1>6, <1>9, <1>10 DEF V!MapNotify, V!Reads
  <1> QED
    BY <1>4, <1>9, <1>11 DEF Seconded, V!Next, V!Handle

(* The focus that is unmapped: what is next is its FocusOut.               *)
LEMMA OutIsNext ==
  ASSUME Linked(Now), queue # <<>>, Head(queue).what = "unmap", OutNext(Rest.queue, Of, 0)
  PROVE  Rest.queue # <<>> /\ Rest.queue[1].what = "out" /\ Rest.queue[1].of = Of
  <1>1. Rest.queue = Tail(queue)
    BY RestIs DEF Linked
  <1>2. queue \in Seq(Events) /\ Paired(queue)
    BY DEF Linked, Sound, State, Coupled, Now
  <1>3. Len(queue) \in Nat /\ Len(queue) # 0 /\ Len(Tail(queue)) = Len(queue) - 1
        /\ \A k \in 1..Len(Tail(queue)) : Tail(queue)[k] = queue[k + 1]
    BY <1>2
  <1>4. PICK k \in Own(Tail(queue), Of) : Follows(Tail(queue), Of, 0, k) /\ Tail(queue)[k].what = "out"
    BY <1>1 DEF OutNext
  <1>5. k \in 1..Len(Tail(queue)) /\ queue[k + 1].what = "out" /\ queue[k + 1].of = Of
        /\ Tail(queue)[k].of = Of
    BY <1>3, <1>4 DEF Own
  <1>6. 1 \in 1..Len(queue) /\ queue[1].of = Of /\ queue[1].what = "unmap" /\ k + 1 \in 1..Len(queue)
    BY <1>2, <1>3, <1>5 DEF Of
  <1>7. Follows(queue, Of, 1, k + 1)
    <2>1. k + 1 \in Own(queue, Of) /\ 1 < k + 1
      BY <1>5, <1>6 DEF Own, Notable
    <2>2. ASSUME NEW j \in Own(queue, Of), 1 < j, j < k + 1 PROVE FALSE
      <3>1. j \in 1..Len(queue) /\ queue[j].of = Of /\ queue[j].what \in Notable
        BY DEF Own
      <3>2. j - 1 \in 1..Len(Tail(queue)) /\ Tail(queue)[j - 1] = queue[j]
        BY <1>3, <2>2, <3>1
      <3>3. j - 1 \in Own(Tail(queue), Of)
        BY <3>1, <3>2 DEF Own
      <3>4. 0 < j - 1 /\ j - 1 < k
        BY <1>5, <2>2, <3>1
      <3> QED
        BY <1>4, <3>3, <3>4 DEF Follows
    <2> QED
      BY <2>1, <2>2 DEF Follows
  <1>8. k + 1 = 1 + 1
    BY <1>2, <1>5, <1>6, <1>7 DEF Paired
  <1>9. k = 1 /\ Tail(queue) # <<>>
    <2>1. k \in Nat /\ Len(Tail(queue)) \in Nat
      BY <1>3, <1>5
    <2>2. k = 1
      BY <1>8, <2>1
    <2>3. Len(Tail(queue)) # 0
      BY <1>5, <2>1, <2>2
    <2>4. Len(<<>>) = 0
      OBVIOUS
    <2> QED
      BY <2>2, <2>3, <2>4
  <1> QED
    BY <1>1, <1>4, <1>5, <1>9

LEMMA UnmapNotifySeconded ==
  ASSUME Linked(Now), UnmapNotify
  PROVE  Seconded
  <1>1. PICK first \in Clients : Become(HandleUnmapNotify(Rest, Of, first))
    BY DEF UnmapNotify
  <1>2. PICK t : t = HandleUnmapNotify(Rest, Of, first)
    OBVIOUS
  <1>3. queue # <<>> /\ Head(queue).what \in {"unmap", "synthetic"} /\ Become(t)
    BY <1>1, <1>2 DEF UnmapNotify, Reads
  <1>4. Head(queue).what \in V!Notices
    BY <1>3 DEF V!Notices
  <1>5. /\ Of \in Clients /\ View[Of].notices # <<>> /\ Head(View[Of].notices) = Head(queue).what
        /\ Seen(Rest, Of) = V!Read(View[Of])
    BY <1>3, <1>4, RestSeen
  <1>6. Sound(Rest)
    BY <1>3, RestIs DEF Linked
  <1>7. PICK y : y = V!HandleUnmapNotify(V!Read(View[Of]))
    OBVIOUS
  <1>8. Turns(Rest, t, Of, y)
    BY <1>2, <1>5, <1>6, <1>7, HandleUnmapNotifyTurns
  <1>9. V!Set(Of, y) /\ \A d \in Clients : d # Of => t.client[d].ul = client[d].ul
    BY <1>3, <1>4, <1>8, TurnStep
  <1>10. Coupled(Now') /\ OutFirst(Now')
    <2>1. CASE Head(queue).what = "synthetic"
      <3>1. Head(queue).what \in V!Notices \ {"unmap"}
        BY <2>1 DEF V!Notices
      <3> QED
        BY <1>3, <1>8, <3>1, UntrackedTurn
    <2>2. CASE Head(queue).what = "unmap"
      <3>1. Read
        BY <1>3, RestTold DEF Linked
      <3>2. t \in State /\ Followed(Rest, t) /\ OutKept(Rest.queue, t.queue)
        BY <1>3, <1>8, RestCoupled DEF Turns, Leads, Followed
      <3>3. ASSUME NEW w \in Workspaces, desk[w].tracked = Of
            PROVE  t.queue # <<>> /\ t.queue[1].what = "out" /\ t.queue[1].of = Of
        <4>1. OutNext(Rest.queue, Of, 0)
          BY <1>5, <2>2, <3>1, <3>3 DEF Read
        <4>2. Rest.queue # <<>> /\ Rest.queue[1].what = "out" /\ Rest.queue[1].of = Of
          BY <1>3, <2>2, <4>1, OutIsNext
        <4> QED
          BY <3>2, <4>2 DEF OutKept
      <3>4. Head(queue).what # "out"
        BY <2>2
      <3>5. \A c \in Clients : t.client[c].ul # "none" /\ client[c].ul = "none" =>
              \/ \A w \in Workspaces : desk[w].tracked # c
              \/ t.queue # <<>> /\ t.queue[1].what = "out" /\ t.queue[1].of = c
        BY <1>9, <3>3
      <3> QED
        BY <1>3, <3>2, <3>4, <3>5, FollowedLinked
    <2> QED
      BY <1>3, <2>1, <2>2
  <1>11. V!UnmapNotify(Of)
    BY <1>3, <1>5, <1>7, <1>9 DEF V!UnmapNotify, V!Reads
  <1> QED
    BY <1>5, <1>10, <1>11 DEF Seconded, V!Next, V!Handle

LEMMA FocusInSeconded ==
  ASSUME Linked(Now), FocusIn
  PROVE  Seconded
  <1>1. PICK t : t = HandleFocusIn(Rest, Of)
    OBVIOUS
  <1>2. queue # <<>> /\ Head(queue).what = "in" /\ Become(t)
    BY <1>1 DEF FocusIn, Reads
  <1>3. Sound(Rest) /\ Rest.current = current /\ Rest.client = client /\ Rest.desk = desk /\ Of \in Clients
    BY <1>2, RestIs DEF Linked
  <1>4. /\ t \in State /\ t.current = Rest.current /\ Sight(t) = Sight(Rest)
        /\ \A w \in Workspaces :
             \/ t.desk[w].tracked = Rest.desk[w].tracked
             \/ t.desk[w].tracked = Of /\ Rest.client[Of].ul = "none"
        /\ Coupled(Rest) => Coupled(t)
    BY <1>1, <1>3, HandleFocusInIs
  <1>5. Coupled(t)
    BY <1>2, <1>4, RestCoupled
  <1>6. Head(queue).what \notin V!Notices
    BY <1>2 DEF V!Notices
  <1>7. Now' = t /\ View' = View /\ current' = current
    BY <1>2, <1>3, <1>4, <1>6, BecomeSight, RestSeen
  <1>8. OutFirst(t)
    <2> SUFFICES ASSUME NEW w \in Workspaces, NEW c \in Clients, t.desk[w].tracked = c, t.client[c].ul # "none"
                 PROVE  FALSE
      BY DEF OutFirst
    <2>1. t.client[c].ul = client[c].ul
      BY <1>3, <1>4, QuietSees
    <2>2. CASE t.desk[w].tracked = Rest.desk[w].tracked
      BY <1>2, <1>3, <2>1, <2>2, FocusIsNotUnmapped
    <2>3. CASE t.desk[w].tracked = Of /\ Rest.client[Of].ul = "none"
      BY <1>3, <2>1, <2>3
    <2> QED
      BY <1>4, <2>2, <2>3
  <1> QED
    BY <1>5, <1>7, <1>8 DEF Seconded, V!vars

LEMMA FocusOutSeconded ==
  ASSUME Linked(Now), FocusOut
  PROVE  Seconded
  <1>1. PICK t : t = HandleFocusOut(Rest, Of)
    OBVIOUS
  <1>2. queue # <<>> /\ Head(queue).what = "out" /\ Become(t)
    BY <1>1 DEF FocusOut, Reads
  <1>3. Sound(Rest) /\ Rest.current = current /\ Rest.client = client /\ Rest.desk = desk /\ Of \in Clients
    BY <1>2, RestIs DEF Linked
  <1>4. Quiet(Rest, t)
    BY <1>1, <1>3, QuietHandleFocusOut
  <1>5. t \in State /\ t.current = Rest.current /\ Sight(t) = Sight(Rest)
        /\ (\A w \in Workspaces : t.desk[w].tracked \in {desk[w].tracked, None})
        /\ Coupled(t)
    BY <1>2, <1>3, <1>4, RestCoupled DEF Quiet, Leads
  <1>6. Head(queue).what \notin V!Notices
    BY <1>2 DEF V!Notices
  <1>7. Now' = t /\ View' = View /\ current' = current
    BY <1>2, <1>3, <1>5, <1>6, BecomeSight, RestSeen
  <1>8. OutFirst(t)
    <2> SUFFICES ASSUME NEW w \in Workspaces, NEW c \in Clients, t.desk[w].tracked = c, t.client[c].ul # "none"
                 PROVE  FALSE
      BY DEF OutFirst
    <2>1. t.client[c].ul = client[c].ul
      BY <1>3, <1>5, QuietSees
    <2>2. desk[w].tracked = c
      BY <1>5, FocusAssumption
    <2>3. Now.desk = desk /\ Now.client = client /\ Now.queue = queue
      BY DEF Now
    <2>4. queue[1].of = c
      BY <2>1, <2>2, <2>3 DEF Linked, OutFirst
    <2>5. Of = c
      <3>1. queue \in Seq(Events)
        BY <2>3 DEF Linked, Sound, State
      <3> QED
        BY <1>2, <2>4, <3>1 DEF Of
    <2>6. client[c].managed /\ client[c].workspace = w
      BY <2>2, <2>3 DEF Linked, Told, Points
    <2>7. t = Track(Rest, w, None)
      BY <1>1, <1>3, <2>2, <2>5, <2>6 DEF HandleFocusOut
    <2>8. t.desk[w].tracked = None
      <3>1. PICK r : r = Rest
        OBVIOUS
      <3>2. r \in State /\ w \in DOMAIN r.desk
        BY <1>3, <3>1 DEF Sound, State
      <3>3. r.desk[w] \in Desk
        BY <3>2 DEF State
      <3> QED
        BY <2>7, <3>1, <3>2, <3>3 DEF Track, SetDesk, State, Desk
    <2> QED
      BY <2>8, FocusAssumption
  <1> QED
    BY <1>5, <1>7, <1>8 DEF Seconded, V!vars

(* The steps that Visibility sees nothing of.                              *)
LEMMA QuietSeconded ==
  ASSUME Linked(Now), EnterNotify \/ MinimizeWindow \/ MinimizeAll \/ ToggleFullscreen \/ KeyOfNoUse
  PROVE  Seconded
  <1>1. queue # <<>> /\ Head(queue).what \in {"enter", "key"}
    BY DEF EnterNotify, MinimizeWindow, MinimizeAll, ToggleFullscreen, KeyOfNoUse, Key, Reads
  <1>2. Sound(Rest) /\ Rest \in State /\ (Head(queue).what # "key" => Of \in Clients)
    BY <1>1, RestIs DEF Linked, Sound
  <1>3. \E t : Quiet(Rest, t) /\ Become(t)
    <2>1. CASE EnterNotify
      <3>1. Head(queue).what = "enter" /\ Become(HandleEnterNotify(Rest, Of, Time))
        BY <2>1 DEF EnterNotify, Reads
      <3> QED
        BY <1>2, <3>1, QuietHandleEnterNotify
    <2>2. CASE MinimizeWindow
      <3>1. PICK first \in Clients : Become(ActionMinimizeWindow(Rest, first, Time))
        BY <2>2 DEF MinimizeWindow
      <3> QED
        BY <1>2, <3>1, QuietActionMinimizeWindow
    <2>3. CASE MinimizeAll
      BY <1>2, <2>3, QuietActionMinimizeAll DEF MinimizeAll
    <2>4. CASE ToggleFullscreen
      BY <1>2, <2>4, QuietActionToggleFullscreen DEF ToggleFullscreen
    <2>5. CASE KeyOfNoUse
      BY <1>2, <2>5, LeadsSelf DEF KeyOfNoUse
    <2> QED
      BY <2>1, <2>2, <2>3, <2>4, <2>5
  <1>4. Head(queue).what \notin V!Notices \cup {"out"}
    BY <1>1 DEF V!Notices
  <1> QED
    BY <1>1, <1>3, <1>4, QuietStep DEF Seconded

(* A key that unmaps or maps one client.                                   *)
LEMMA KeyStep ==
  ASSUME Linked(Now), queue # <<>>, Head(queue).what = "key",
         NEW c \in Clients, NEW t, NEW y, Turns(Rest, t, c, y), Become(t),
         y.ul # "none" => client[c].ul # "none"
  PROVE  Coupled(Now') /\ OutFirst(Now') /\ V!Set(c, y)
  <1>1. Rest.current = current /\ Rest.client = client
    BY RestIs DEF Linked
  <1>2. t \in State /\ t.current = current /\ Followed(Rest, t) /\ Sight(t) = [Sight(Rest) EXCEPT ![c] = y]
    BY <1>1 DEF Turns, Leads, Followed
  <1>3. Sight(Rest) = View
    BY RestSeen DEF V!Notices
  <1>4. View' = [View EXCEPT ![c] = y] /\ current' = current
    BY <1>2, <1>3, BecomeSight
  <1>5. \A d \in Clients : Seen(t, d) = IF d = c THEN y ELSE View[d]
    <2>1. \A d \in Clients : Sight(t)[d] = IF d = c THEN y ELSE View[d]
      BY <1>2, <1>3 DEF View
    <2> QED
      BY <2>1, SightAt
  <1>6. \A d \in Clients : t.client[d].ul # "none" => client[d].ul # "none"
    <2>1. \A d \in Clients : Seen(t, d).ul = t.client[d].ul /\ View[d].ul = client[d].ul
      BY DEF Seen, View, Known
    <2> QED
      BY <1>5, <2>1
  <1>7. Coupled(Now') /\ OutFirst(Now')
    BY <1>2, <1>6, FollowedLinked
  <1> QED
    BY <1>4, <1>7 DEF V!Set

(* What Visibility knows of a client is what the manager does.             *)
LEMMA ViewShows ==
  ASSUME Linked(Now), NEW c \in Clients
  PROVE  /\ View[c] \in V!Client /\ View[c].managed = client[c].managed /\ View[c].place = client[c].place
         /\ View[c].ul = client[c].ul /\ View[c].win = client[c].win
         /\ View[c] = Seen(Now, c)
  <1>1. Now \in State
    BY DEF Linked, Sound
  <1>2. View[c] = Seen(Now, c)
    BY ViewIs
  <1>3. Now.client = client
    BY DEF Now
  <1> QED
    BY <1>1, <1>2, <1>3, SeesSeen DEF Seen, Known

LEMMA UnmapWindowSeconded ==
  ASSUME Linked(Now), UnmapWindow
  PROVE  Seconded
  <1>1. PICK t : t = ActionUnmapWindow(Rest)
    OBVIOUS
  <1>2. "unmap_window" \in Bindings /\ queue # <<>> /\ Head(queue).what = "key" /\ Become(t)
    BY <1>1 DEF UnmapWindow, Key, Reads
  <1>3. Sound(Rest) /\ Rest.current = current /\ Rest.client = client /\ Rest.desk = desk
    BY <1>2, RestIs DEF Linked
  <1>4. CASE desk[current].tracked = None
    <2>1. t = Rest
      BY <1>1, <1>3, <1>4 DEF ActionUnmapWindow
    <2>2. Quiet(Rest, t)
      BY <1>3, <2>1, LeadsSelf DEF Sound
    <2>3. Head(queue).what \notin V!Notices \cup {"out"}
      BY <1>2 DEF V!Notices
    <2> QED
      BY <1>2, <2>2, <2>3, QuietStep DEF Seconded
  <1>5. CASE desk[current].tracked # None
    <2>1. PICK c : c = desk[current].tracked
      OBVIOUS
    <2>2. PICK y : y = V!UnmapClient([Seen(Rest, c) EXCEPT !.future_stay = TRUE])
      OBVIOUS
    <2>3. c \in Clients /\ Turns(Rest, t, c, y)
      BY <1>1, <1>3, <1>5, <2>1, <2>2, ActionUnmapWindowTurns
    <2>4. Seen(Rest, c) = View[c]
      <3>1. Sight(Rest) = View
        BY <1>2, RestSeen DEF V!Notices
      <3> QED
        BY <2>3, <3>1, SightAt
    <2>5. current \in Workspaces /\ Now.desk = desk /\ Now.client = client /\ Now.current = current
      BY DEF Linked, Sound, State, Now
    <2>6. client[c].ul = "none"
      BY <1>2, <2>1, <2>3, <2>5, FocusIsNotUnmapped
    <2>7. client[c].managed /\ client[c].place = current
      <3>1. client[c].managed /\ client[c].workspace = current
        BY <2>1, <2>3, <2>5 DEF Linked, Told, Points
      <3> QED
        BY <2>3, <2>5, <3>1 DEF Linked, Sound, Records, RecordOK
    <2>8. y.ul = "none"
      <3>1. PICK v : v = View[c]
        OBVIOUS
      <3>2. v \in V!Client /\ v.ul = "none"
        BY <2>3, <2>6, <3>1, ViewShows
      <3>3. PICK u : u = [v EXCEPT !.future_stay = TRUE]
        OBVIOUS
      <3>4. u \in V!Client /\ u.ul = "none" /\ y = V!UnmapClient(u)
        BY <2>2, <2>4, <3>1, <3>2, <3>3 DEF V!Client
      <3> QED
        BY <3>4 DEF V!UnmapClient, V!XUnmapWindow, V!Client
    <2>9. Coupled(Now') /\ OutFirst(Now') /\ V!Set(c, y)
      BY <1>2, <2>3, <2>8, KeyStep
    <2>10. V!FocusMayBe(c)
      BY <2>3, <2>6, <2>7, ViewShows DEF V!FocusMayBe, V!IsDock, V!InUnmappedList
    <2>11. V!UnmapWindow(c)
      BY <1>2, <2>2, <2>4, <2>9, <2>10 DEF V!UnmapWindow
    <2> QED
      BY <2>3, <2>9, <2>11 DEF Seconded, V!Next
  <1> QED
    BY <1>4, <1>5

LEMMA MapLatestUnmapSeconded ==
  ASSUME Linked(Now), NEW c \in Clients, MapLatestUnmap(c)
  PROVE  Seconded
  <1>1. PICK t : t = ActionMapLatestUnmap(Rest, c)
    OBVIOUS
  <1>2. /\ "map_latest" \in Bindings /\ queue # <<>> /\ Head(queue).what = "key" /\ Become(t)
        /\ client[c].managed /\ client[c].place = current /\ client[c].ul # "none"
    BY <1>1 DEF MapLatestUnmap, Key, Reads
  <1>3. Sound(Rest)
    BY <1>2, RestIs DEF Linked
  <1>4. PICK y : y = V!MapClient([Seen(Rest, c) EXCEPT !.ul = "can", !.future_stay = FALSE])
    OBVIOUS
  <1>5. Turns(Rest, t, c, y)
    BY <1>1, <1>3, <1>4, ActionMapLatestUnmapTurns
  <1>6. Seen(Rest, c) = View[c]
    <2>1. Sight(Rest) = View
      BY <1>2, RestSeen DEF V!Notices
    <2> QED
      BY <2>1, SightAt
  <1>7. Coupled(Now') /\ OutFirst(Now') /\ V!Set(c, y)
    BY <1>2, <1>5, KeyStep
  <1>8. V!OnCurrent(c) /\ View[c].ul # "none"
    BY <1>2, ViewShows DEF V!OnCurrent
  <1>9. V!MapLatestUnmap(c)
    BY <1>2, <1>4, <1>6, <1>7, <1>8 DEF V!MapLatestUnmap
  <1> QED
    BY <1>7, <1>9 DEF Seconded, V!Next

LEMMA SwitchKeepsUl ==
  ASSUME NEW y \in V!Client
  PROVE  V!Leave(y).ul = y.ul /\ V!Enter(y).ul = y.ul
  BY DEF V!Leave, V!Enter, V!SetUnmappedFromSwitch, V!CancelCancelPendingUnmaps, V!CancelPendingMaps,
         V!CancelCancelPendingMaps, V!CancelPendingUnmaps, V!UnmapClient, V!MapClient,
         V!XMapWindow, V!XUnmapWindow, V!Client

LEMMA SwitchWorkspaceSeconded ==
  ASSUME Linked(Now), NEW w \in Workspaces, SwitchWorkspace(w)
  PROVE  Seconded
  <1>1. PICK first \in Clients : Become(ActionSwitchWorkspace(Rest, w, first))
    BY DEF SwitchWorkspace
  <1>2. PICK t : t = ActionSwitchWorkspace(Rest, w, first)
    OBVIOUS
  <1>3. "switch" \in Bindings /\ queue # <<>> /\ Head(queue).what = "key" /\ w # current /\ Become(t)
    BY <1>1, <1>2 DEF SwitchWorkspace, Key, Reads
  <1>4. Sound(Rest) /\ Rest.current = current /\ Rest.client = client
    BY <1>3, RestIs DEF Linked
  <1>5. Sight(Rest) = View
    BY <1>3, RestSeen DEF V!Notices
  <1>6. /\ t \in State /\ t.current = w /\ Followed(Rest, t)
        /\ Sight(t) = [c \in Clients |->
              IF Rest.client[c].managed /\ Rest.client[c].place = Rest.current THEN V!Leave(Seen(Rest, c))
              ELSE IF Rest.client[c].managed /\ Rest.client[c].place = w THEN V!Enter(Seen(Rest, c))
              ELSE Seen(Rest, c)]
    BY <1>2, <1>3, <1>4, ActionSwitchWorkspaceTurns
  <1>7. \A c \in Clients : Seen(Rest, c) = View[c]
    BY <1>5, SightAt
  <1>8. Sight(t) = [c \in Clients |->
              IF client[c].managed /\ client[c].place = current THEN V!Leave(View[c])
              ELSE IF client[c].managed /\ client[c].place = w THEN V!Enter(View[c])
              ELSE View[c]]
    BY <1>4, <1>6, <1>7
  <1>9. \A c \in Clients : t.client[c].ul = client[c].ul
    <2> SUFFICES ASSUME NEW c \in Clients PROVE t.client[c].ul = client[c].ul
      OBVIOUS
    <2>1. Sight(t)[c] = Seen(t, c) /\ Seen(t, c).ul = t.client[c].ul
      BY SightAt DEF Seen, Known
    <2>2. View[c] \in V!Client /\ View[c].ul = client[c].ul
      BY ViewShows
    <2>3. Sight(t)[c] \in {V!Leave(View[c]), V!Enter(View[c]), View[c]}
      BY <1>8
    <2> QED
      BY <2>1, <2>2, <2>3, SwitchKeepsUl
  <1>10. Coupled(Now') /\ OutFirst(Now')
    BY <1>3, <1>6, <1>9, FollowedLinked
  <1>11. View' = Sight(t) /\ current' = w
    BY <1>3, <1>6, BecomeSight
  <1>12. V!SwitchWorkspace(w)
    <2>1. \A c \in Clients : /\ V!MovesAlong(c) = FALSE
                             /\ V!OnCurrent(c) <=> client[c].managed /\ client[c].place = current
                             /\ View[c].managed = client[c].managed /\ View[c].place = client[c].place
      BY ViewShows DEF V!MovesAlong, V!IsDock, V!OnCurrent
    <2>2. View' = [c \in Clients |->
              IF V!OnCurrent(c) /\ V!MovesAlong(c) THEN V!Enter([View[c] EXCEPT !.workspace = w, !.place = w])
              ELSE IF V!OnCurrent(c) THEN V!Leave(View[c])
              ELSE IF View[c].managed /\ View[c].place = w THEN V!Enter(View[c])
              ELSE View[c]]
      BY <1>8, <1>11, <2>1
    <2> QED
      BY <1>3, <1>11, <2>2 DEF V!SwitchWorkspace
  <1> QED
    BY <1>10, <1>12 DEF Seconded, V!Next

-----------------------------------------------------------------------------
(* The clients and the user.                                               *)
LEMMA ActStep ==
  ASSUME Linked(Now), NEW c \in Clients, NEW r, NEW y, Sees(NoticesOf(queue, c), y, r),
         client[c].win = "mapped" => IF r.notices = <<>> THEN r.win = "mapped" ELSE Head(r.notices) = "unmap",
         Become(Put(Now, c, r)), y.ul = client[c].ul
  PROVE  Coupled(Now') /\ OutFirst(Now') /\ V!Set(c, y)
  <1>1. Now \in State /\ Now.current = current /\ Now.client = client /\ Now.queue = queue
        /\ Now.desk = desk /\ View = Sight(Now) /\ Coupled(Now) /\ OutFirst(Now)
    BY ViewIs DEF Linked, Sound, Now
  <1>2. PICK t : t = Put(Now, c, r)
    OBVIOUS
  <1>3. Turns(Now, t, c, y)
    BY <1>1, <1>2, PutSees
  <1>4. t \in State /\ t.current = current /\ OutKept(queue, t.queue) /\ Coupled(t)
        /\ (\A w \in Workspaces : t.desk[w].tracked \in {desk[w].tracked, None})
        /\ Sight(t) = [View EXCEPT ![c] = y]
    BY <1>1, <1>3 DEF Turns, Leads
  <1>5. Now' = t /\ View' = Sight(t) /\ current' = t.current
    BY <1>2, <1>4, BecomeSight
  <1>6. \A d \in Clients : t.client[d].ul = client[d].ul
    <2>1. \A d \in Clients : Sight(t)[d] = IF d = c THEN y ELSE View[d]
      BY <1>4 DEF View
    <2>2. \A d \in Clients : Sight(t)[d].ul = t.client[d].ul
      BY DEF Sight, Seen, Known
    <2>3. \A d \in Clients : View[d].ul = client[d].ul
      BY DEF View, Known
    <2> QED
      BY <2>1, <2>2, <2>3
  <1>7. OutFirst(t)
    <2> SUFFICES ASSUME NEW w \in Workspaces, NEW d \in Clients, t.desk[w].tracked = d, t.client[d].ul # "none"
                 PROVE  t.queue # <<>> /\ t.queue[1].what = "out" /\ t.queue[1].of = d
      BY DEF OutFirst
    <2>1. desk[w].tracked = d /\ client[d].ul # "none"
      BY <1>4, <1>6, FocusAssumption
    <2>2. queue # <<>> /\ queue[1].what = "out" /\ queue[1].of = d
      BY <1>1, <2>1 DEF OutFirst
    <2> QED
      BY <1>4, <2>2 DEF OutKept
  <1> QED
    BY <1>4, <1>5, <1>7 DEF V!Set

LEMMA ClientSeen ==
  ASSUME Linked(Now), NEW c \in Clients
  PROVE  /\ NoticesOf(queue, c) \in Seq(V!Notices) /\ client[c] \in Record
         /\ Sees(NoticesOf(queue, c), View[c], client[c])
  <1>1. Now \in State /\ Now.client = client /\ Now.queue = queue
    BY DEF Linked, Sound, Now
  <1>2. View[c] = Seen(Now, c)
    BY ViewIs
  <1> QED
    BY <1>1, <1>2, SeesSeen DEF State

LEMMA ClientActsSeconded ==
  ASSUME Linked(Now), NEW c \in Clients, ClientMap(c) \/ ClientWithdraw(c) \/ ClientDestroy(c)
  PROVE  Seconded
  <1>1. PICK x : x = client[c]
    OBVIOUS
  <1>2. PICK v : v = View[c]
    OBVIOUS
  <1>3. PICK a : a = NoticesOf(queue, c)
    OBVIOUS
  <1>4. a \in Seq(V!Notices) /\ x \in Record /\ v \in V!Client /\ Sees(a, v, x) /\ v.ul = x.ul /\ v.win = x.win
    BY <1>1, <1>2, <1>3, ClientSeen, ViewShows
  <1>5. PICK x2 : x2 = V!XUnmapWindow(x)
    OBVIOUS
  <1>6. PICK v2 : v2 = V!XUnmapWindow(v)
    OBVIOUS
  <1>7. Sees(a, v2, x2)
    BY <1>4, <1>5, <1>6, XWindowSees
  <1>8. v2 \in V!Client /\ v2.ul = x.ul
    BY <1>4, <1>6, <1>7 DEF V!XUnmapWindow, V!Client, Sees
  <1>9. /\ x.notices = <<>> /\ x2.notices \in Seq(V!Notices)
        /\ x.win = "mapped" => x2.notices = <<"unmap">>
    <2>1. x.notices = <<>>
      BY <1>4 DEF Record
    <2>2. IsTold(x2)
      BY <1>7 DEF Sees
    <2>3. x.win = "mapped" => x2.notices = Append(x.notices, "unmap")
      BY <1>4, <1>5 DEF V!XUnmapWindow, Record
    <2> QED
      BY <2>1, <2>2, <2>3 DEF IsTold
  <1>10. CASE ClientMap(c)
    <2>1. PICK r : r = [x EXCEPT !.notices = <<"request">>]
      OBVIOUS
    <2>2. PICK y : y = [v EXCEPT !.notices = Append(@, "request")]
      OBVIOUS
    <2>3. r = [x EXCEPT !.notices = Append(@, "request")]
      BY <1>4, <1>9, <2>1
    <2>4. Sees(a, y, r)
      BY <1>4, <2>2, <2>3, AppendSees DEF V!Notices
    <2>5. "map" \in ClientOps /\ V!ClientMayAct(c) /\ x.win = "unmapped" /\ Become(Put(Now, c, r))
      BY <1>1, <1>10, <2>1 DEF ClientMap, ClientActs
    <2>6. y.ul = x.ul
      BY <1>4, <2>2 DEF V!Client
    <2>7. Coupled(Now') /\ OutFirst(Now') /\ V!Set(c, y)
      BY <1>1, <1>3, <2>4, <2>5, <2>6, ActStep
    <2>8. V!ClientMap(c)
      BY <1>2, <1>4, <2>2, <2>5, <2>7 DEF V!ClientMap
    <2> QED
      BY <2>7, <2>8 DEF Seconded, V!Next
  <1>11. CASE ClientWithdraw(c)
    <2>1. PICK r : r = [x2 EXCEPT !.notices = Append(@, "synthetic")]
      OBVIOUS
    <2>2. PICK y : y = [v2 EXCEPT !.notices = Append(@, "synthetic")]
      OBVIOUS
    <2>3. Sees(a, y, r)
      BY <1>4, <1>7, <2>1, <2>2, AppendSees DEF V!Notices
    <2>4. "withdraw" \in ClientOps /\ V!ClientMayAct(c) /\ Become(Put(Now, c, r))
      BY <1>1, <1>5, <1>11, <2>1 DEF ClientWithdraw, ClientActs
    <2>5. y.ul = x.ul
      BY <1>8, <2>2 DEF V!Client
    <2>6. x.win = "mapped" => r.notices # <<>> /\ Head(r.notices) = "unmap"
      <3>1. x.win = "mapped" => r.notices = Append(x2.notices, "synthetic")
        <4>1. x.win = "mapped" => x2 = [x EXCEPT !.win = "unmapped", !.notices = Append(@, "unmap")]
          BY <1>5 DEF V!XUnmapWindow
        <4> QED
          BY <1>4, <2>1, <4>1 DEF Record
      <3> QED
        BY <1>9, <3>1
    <2>7. Coupled(Now') /\ OutFirst(Now') /\ V!Set(c, y)
      BY <1>1, <1>3, <2>3, <2>4, <2>5, <2>6, ActStep
    <2>8. V!ClientWithdraw(c)
      BY <1>2, <1>6, <2>2, <2>4, <2>7 DEF V!ClientWithdraw
    <2> QED
      BY <2>7, <2>8 DEF Seconded, V!Next
  <1>12. CASE ClientDestroy(c)
    <2>1. PICK r : r = [x2 EXCEPT !.notices = Append(@, "destroy"), !.win = "gone"]
      OBVIOUS
    <2>2. PICK y : y = [v2 EXCEPT !.notices = Append(@, "destroy"), !.win = "gone"]
      OBVIOUS
    <2>3. Sees(a, y, r)
      BY <1>4, <1>7, <2>1, <2>2, AppendSees DEF V!Notices
    <2>4. "destroy" \in ClientOps /\ V!ClientMayAct(c) /\ Become(Put(Now, c, r))
      BY <1>1, <1>5, <1>12, <2>1 DEF ClientDestroy, ClientActs
    <2>5. y.ul = x.ul
      BY <1>8, <2>2 DEF V!Client
    <2>6. x.win = "mapped" => r.notices # <<>> /\ Head(r.notices) = "unmap"
      <3>1. x.win = "mapped" => r.notices = Append(x2.notices, "destroy")
        <4>1. x.win = "mapped" => x2 = [x EXCEPT !.win = "unmapped", !.notices = Append(@, "unmap")]
          BY <1>5 DEF V!XUnmapWindow
        <4> QED
          BY <1>4, <2>1, <4>1 DEF Record
      <3> QED
        BY <1>9, <3>1
    <2>7. Coupled(Now') /\ OutFirst(Now') /\ V!Set(c, y)
      BY <1>1, <1>3, <2>3, <2>4, <2>5, <2>6, ActStep
    <2>8. V!ClientDestroy(c)
      BY <1>2, <1>6, <2>2, <2>4, <2>7 DEF V!ClientDestroy
    <2> QED
      BY <2>7, <2>8 DEF Seconded, V!Next
  <1> QED
    BY <1>10, <1>11, <1>12

LEMMA UserEventSeconded ==
  ASSUME Linked(Now), PressKey \/ \E c \in Clients : PointerEnters(c)
  PROVE  Seconded
  <1>1. PICK e \in Events : /\ UserEvent(e) /\ e.what \notin Notable /\ e.what \notin V!Notices
    <2>1. CASE PressKey
      <3>1. Event("key", None) \in Events /\ Event("key", None).what = "key"
        BY DEF Events, Event
      <3> QED
        BY <2>1, <3>1 DEF PressKey, Notable, V!Notices
    <2>2. CASE \E c \in Clients : PointerEnters(c)
      <3>1. PICK c \in Clients : UserEvent(Event("enter", c))
        BY <2>2 DEF PointerEnters
      <3>2. Event("enter", c) \in Events /\ Event("enter", c).what = "enter"
        BY DEF Events, Event
      <3> QED
        BY <3>1, <3>2 DEF Notable, V!Notices
    <2> QED
      BY <2>1, <2>2
  <1>2. Now \in State /\ Now.current = current /\ Now.client = client /\ Now.queue = queue
        /\ Now.desk = desk /\ Now.input = input /\ Coupled(Now) /\ OutFirst(Now)
    BY DEF Linked, Sound, Now
  <1>3. queue \in Seq(Events)
    BY <1>2 DEF State
  <1>4. PICK t : t = [Now EXCEPT !.queue = Append(queue, e)]
    OBVIOUS
  <1>5. /\ t \in State /\ t.current = current /\ t.client = client /\ t.desk = desk /\ t.input = input
        /\ t.queue = Append(queue, e)
    BY <1>2, <1>3, <1>4 DEF State
  <1>6. Become(t)
    BY <1>1, <1>5 DEF Become, UserEvent
  <1>7. Now' = t /\ View' = Sight(t) /\ current' = current
    BY <1>5, <1>6, BecomeSight
  <1>8. <<e>> \in Seq(Events) /\ \A c : NoticesOf(<<e>>, c) = <<>>
    BY <1>1, NoticesOne
  <1>9. Append(queue, e) = queue \o <<e>>
    BY <1>3
  <1>10. \A c \in Clients : NoticesOf(t.queue, c) = NoticesOf(queue, c)
    <2> SUFFICES ASSUME NEW c \in Clients PROVE NoticesOf(t.queue, c) = NoticesOf(queue, c)
      OBVIOUS
    <2> PICK b : b = <<e>>
      OBVIOUS
    <2>1. NoticesOf(t.queue, c) = NoticesOf(queue, c) \o NoticesOf(b, c)
      <3>1. t.queue = queue \o b /\ b \in Seq(Events)
        BY <1>5, <1>8, <1>9
      <3>2. NoticesOf(queue \o b, c) = NoticesOf(queue, c) \o NoticesOf(b, c)
        BY <1>3, <3>1, NoticesJoined
      <3> QED
        BY <3>1, <3>2
    <2>2. NoticesOf(queue, c) \in Seq(V!Notices)
      BY <1>3, NoticesType
    <2> QED
      BY <1>8, <2>1, <2>2
  <1>11. Sight(t) = View
    BY <1>5, <1>10 DEF Sight, Seen, View
  <1>12. Coupled(t)
    <2>1. PICK b : b = <<e>>
      OBVIOUS
    <2>2. b \in Seq(Events) /\ Len(b) = 1 /\ b[1] = e /\ t.queue = queue \o b
      BY <1>5, <1>8, <1>9, <2>1
    <2>3. \A k \in 1..Len(b) : b[k].what \notin Notable
      BY <1>1, <2>2
    <2>4. Paired(b) /\ \A c : Own(b, c) = {}
      BY <2>3 DEF Paired, Own, Notable, V!Notices
    <2>5. HasInput(t)
      BY <1>2, <1>5 DEF Coupled, HasInput
    <2>6. \A c : \A k \in 1..Len(b) : Follows(b, c, 0, k) /\ b[k].what = "out" => c = input
      BY <2>3 DEF Notable
    <2> QED
      BY <1>2, <1>5, <2>2, <2>4, <2>5, <2>6, CoupledBehind
  <1>13. OutFirst(t)
    <2> SUFFICES ASSUME NEW w \in Workspaces, NEW d \in Clients, t.desk[w].tracked = d, t.client[d].ul # "none"
                 PROVE  t.queue # <<>> /\ t.queue[1].what = "out" /\ t.queue[1].of = d
      BY DEF OutFirst
    <2>1. queue # <<>> /\ queue[1].what = "out" /\ queue[1].of = d
      BY <1>2, <1>5 DEF OutFirst
    <2>2. Append(queue, e)[1] = queue[1] /\ Append(queue, e) # <<>>
      <3>1. Len(queue) \in Nat /\ Len(queue) # 0
        BY <1>3, <2>1
      <3> QED
        BY <1>3, <3>1
    <2> QED
      BY <1>5, <2>1, <2>2
  <1> QED
    BY <1>7, <1>11, <1>12, <1>13 DEF Seconded, V!vars

-----------------------------------------------------------------------------
LEMMA NextSeconded ==
  ASSUME Linked(Now), "move" \notin Bindings, Next
  PROVE  Linked(Now)' /\ [V!Next]_(V!vars)
  <1>1. Sound(Now) /\ Told(Now)
    BY DEF Linked
  <1>2. CASE \E c \in Clients : ClientMap(c) \/ ClientWithdraw(c) \/ ClientDestroy(c)
    <2>1. Sound(Now') /\ Told(Now') /\ Seconded
      BY <1>1, <1>2, ClientActsSound, ClientActsTold, ClientActsSeconded
    <2> QED
      BY <2>1 DEF Seconded, Linked
  <1>3. CASE PressKey \/ \E c \in Clients : PointerEnters(c)
    <2>1. Sound(Now') /\ Told(Now') /\ Seconded
      BY <1>1, <1>3, UserEventSound, UserEventTold, UserEventSeconded
    <2> QED
      BY <2>1 DEF Seconded, Linked
  <1>4. CASE Handle
    <2>1. Sound(Now') /\ Told(Now')
      BY <1>1, <1>4, HandleSound, HandleTold
    <2>2. \A w : ~MoveToWorkspace(w)
      BY DEF MoveToWorkspace, Key
    <2>3. Seconded
      BY <1>4, <2>2, MapRequestSeconded, UnmapNotifySeconded, MapNotifySeconded, DestroyNotifySeconded,
         FocusInSeconded, FocusOutSeconded, QuietSeconded, SwitchWorkspaceSeconded,
         MapLatestUnmapSeconded, UnmapWindowSeconded DEF Handle
    <2> QED
      BY <2>1, <2>3 DEF Seconded, Linked
  <1> QED
    BY <1>2, <1>3, <1>4 DEF Next

LEMMA InitLinked ==
  ASSUME Init
  PROVE  Linked(Now) /\ V!Init
  <1>1. Sound(Now) /\ Told(Now)
    BY InitSound, InitTold
  <1>2. /\ Now.queue = <<>> /\ Now.input = None /\ Now.client = [c \in Clients |-> NewClient]
        /\ \A w \in Workspaces : Now.desk[w].tracked = None
    BY DEF Init, Now
  <1>3. Coupled(Now)
    BY <1>2 DEF Coupled, HasInput, Paired, LastKept
  <1>4. OutFirst(Now)
    BY <1>2, FocusAssumption DEF OutFirst
  <1>5. \A c \in Clients : View[c] = V!NewWindow(NoWorkspace)
    <2> SUFFICES ASSUME NEW c \in Clients PROVE View[c] = V!NewWindow(NoWorkspace)
      OBVIOUS
    <2>1. Event("enter", c) \in Events
      BY DEF Event, Events
    <2>2. NoticesOf(<<>>, c) = <<>>
      BY <2>1, NoticesOne
    <2>3. View[c] = Known(NewClient, <<>>)
      BY <2>2 DEF Init, View
    <2> QED
      BY <2>3 DEF Known, NewClient, V!NewWindow
  <1>6. View \in [Clients -> {V!NewWindow(NoWorkspace), V!NewWindow(AllWorkspaces)}]
    BY <1>5 DEF View
  <1>7. V!Init
    BY <1>6 DEF V!Init, Init
  <1> QED
    BY <1>1, <1>3, <1>4, <1>7 DEF Linked

(* Unless windows are sent to other workspaces, the maps and unmaps of the *)
(* manager that has a focus, one queue of events and a pointer are those   *)
(* of Visibility: every handler and key does to a client what Visibility   *)
(* says, and what Visibility takes for granted of the focus is true.       *)
THEOREM FocusImplements ==
  ASSUME "move" \notin Bindings
  PROVE  Spec => Implements
  <1>1. Init => Linked(Now) /\ V!Init
    BY InitLinked
  <1>2. Linked(Now) /\ [Next]_vars => Linked(Now)' /\ [V!Next]_(V!vars)
    <2> SUFFICES ASSUME Linked(Now), [Next]_vars PROVE Linked(Now)' /\ [V!Next]_(V!vars)
      OBVIOUS
    <2>1. CASE Next
      BY <2>1, NextSeconded
    <2>2. CASE UNCHANGED vars
      <3>1. Now' = Now /\ View' = View /\ current' = current
        BY <2>2 DEF vars, Now, View
      <3> QED
        BY <3>1 DEF V!vars
    <2> QED
      BY <2>1, <2>2
  <1> QED
    BY <1>1, <1>2, PTL DEF Spec, Implements, V!Spec

=============================================================================
