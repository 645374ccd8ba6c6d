----------------------------- MODULE Focus_proofs -----------------------------
(* What the focus stacks and the fullscreen pointers rely on, for any      *)
(* number of clients and workspaces: the invariant Sound of the state a    *)
(* handler works on, one lemma for each call a handler makes, one for each *)
(* handler.  The stacks share one link per client: Sound has a rank for    *)
(* each client in a stack, the number of clients from it to the end.       *)
(* Then, from Told on, that no pointer outlives its client: what is on the *)
(* way in the queue for each client.                                       *)
EXTENDS Focus, SequenceTheorems, FiniteSetTheorems, TLAPS

-----------------------------------------------------------------------------
(* What a handler works on, and what every step of it keeps.               *)

State == [current : Workspaces, client : [Clients -> Record],
          desk : [Workspaces -> Desk], input : Clients \cup {None},
          queue : Seq(Events)]

(* A record as an operator of Visibility leaves it, with its notices.      *)
IsTold(r) == [r EXCEPT !.notices = <<>>] \in Record /\ r.notices \in Seq(V!Notices)

LEMMA SetClientIs ==
  ASSUME NEW s \in State, NEW c \in Clients, NEW r \in Record
  PROVE  /\ SetClient(s, c, r) \in State
         /\ SetClient(s, c, r).current = s.current /\ SetClient(s, c, r).desk = s.desk
         /\ SetClient(s, c, r).input = s.input /\ SetClient(s, c, r).queue = s.queue
         /\ SetClient(s, c, r).client[c] = r
         /\ \A x \in Clients : x # c => SetClient(s, c, r).client[x] = s.client[x]
  BY DEF State, SetClient

LEMMA SetDeskIs ==
  ASSUME NEW s \in State, NEW w, NEW d, w \in Workspaces => d \in Desk
  PROVE  /\ SetDesk(s, w, d) \in State
         /\ SetDesk(s, w, d).current = s.current /\ SetDesk(s, w, d).client = s.client
         /\ SetDesk(s, w, d).input = s.input /\ SetDesk(s, w, d).queue = s.queue
         /\ w \in Workspaces => SetDesk(s, w, d).desk[w] = d
         /\ \A u \in Workspaces : u # w => SetDesk(s, w, d).desk[u] = s.desk[u]
  BY DEF State, SetDesk

LEMMA PutIs ==
  ASSUME NEW s \in State, NEW c \in Clients, NEW r, IsTold(r)
  PROVE  /\ Put(s, c, r) \in State
         /\ Put(s, c, r).current = s.current /\ Put(s, c, r).desk = s.desk
         /\ Put(s, c, r).client[c] = [r EXCEPT !.notices = <<>>]
         /\ \A x \in Clients : x # c => Put(s, c, r).client[x] = s.client[x]
  <1> DEFINE lost == s.input = c /\ r.notices # <<>> /\ Head(r.notices) = "unmap"
             told == [i \in DOMAIN r.notices |-> Event(r.notices[i], c)]
             new  == IF lost THEN <<Head(told), Event("out", c)>> \o Tail(told) ELSE told
  <1>1. told \in Seq(Events) /\ Len(told) = Len(r.notices)
    <2>1. r.notices \in Seq(V!Notices) /\ Len(r.notices) \in Nat
      BY DEF IsTold
    <2>2. \A i \in 1..Len(r.notices) : Event(r.notices[i], c) \in Events
      BY <2>1 DEF Event, Events
    <2> QED
      BY <2>1, <2>2
  <1>2. new \in Seq(Events)
    <2>1. CASE lost
      <3>1. told # <<>>
        BY <1>1, <2>1
      <3>2. Head(told) \in Events /\ Tail(told) \in Seq(Events) /\ Event("out", c) \in Events
        BY <1>1, <3>1 DEF Event, Events
      <3> HIDE DEF told
      <3> QED
        BY <2>1, <3>2
    <2>2. CASE ~lost
      BY <1>1, <2>2
    <2> QED
      BY <2>1, <2>2
  <1> HIDE DEF new, told
  <1>3. Put(s, c, r) = [s EXCEPT !.client = [s.client EXCEPT ![c] = [r EXCEPT !.notices = <<>>]],
                                 !.input = IF lost THEN None ELSE s.input,
                                 !.queue = s.queue \o new]
    BY DEF Put, new, told, State
  <1>4. s.queue \o new \in Seq(Events)
    BY <1>2 DEF State
  <1> HIDE DEF lost
  <1> DEFINE r2 == [r EXCEPT !.notices = <<>>]
             cs == [s.client EXCEPT ![c] = r2]
             i2 == IF lost THEN None ELSE s.input
             q2 == s.queue \o new
  <1>5. r2 \in Record /\ i2 \in Clients \cup {None} /\ s.client \in [Clients -> Record]
    BY DEF IsTold, State
  <1> HIDE DEF r2
  <1>6. cs \in [Clients -> Record] /\ cs[c] = r2 /\ \A x \in Clients : x # c => cs[x] = s.client[x]
    BY <1>5
  <1>7. Put(s, c, r) = [s EXCEPT !.client = cs, !.input = i2, !.queue = q2]
    BY <1>3 DEF r2
  <1> HIDE DEF cs, i2, q2
  <1> QED
    BY <1>4, <1>5, <1>6, <1>7 DEF State, r2, q2

(* Only the input and the queue are not what they were.                    *)
Rerouted(s, t) ==
  /\ t \in State
  /\ t.current = s.current /\ t.client = s.client /\ t.desk = s.desk

LEMMA ArrangeIs ==
  ASSUME NEW s \in State
  PROVE  Rerouted(s, Arrange(s)) /\ Arrange(s).input = s.input
  <1> DEFINE Stage == [k \in 0..Len(s.queue) |-> Seq(Events)]
             q == Clearing!Along(s.queue, <<>>, s.queue)
  <1>1. s.queue \in Seq(Events) /\ Len(s.queue) \in Nat /\ <<>> \in Seq(Events)
    BY DEF State
  <1>2. <<>> \in Stage[0]
    BY <1>1
  <1>3. \A k \in 1..Len(s.queue) : \A t \in Stage[k - 1] : Clear(s.queue, t, s.queue[k]) \in Stage[k]
    <2> SUFFICES ASSUME NEW k \in 1..Len(s.queue), NEW t \in Seq(Events)
                 PROVE  Clear(s.queue, t, s.queue[k]) \in Seq(Events)
      BY <1>1
    <2>1. s.queue[k] \in Events
      BY <1>1
    <2> QED
      BY <2>1 DEF Clear
  <1>4. Stage[Len(s.queue)] = Seq(Events)
    BY <1>1
  <1> HIDE DEF Stage
  <1>5. q \in Stage[Len(s.queue)]
    BY <1>1, <1>2, <1>3, Clearing!AlongStages
  <1>6. Arrange(s) = [s EXCEPT !.queue = q]
    BY DEF Arrange
  <1> HIDE DEF q
  <1> QED
    BY <1>4, <1>5, <1>6 DEF Rerouted, State

LEMMA SetInputIs ==
  ASSUME NEW s \in State, NEW c \in Clients \cup {None}, NEW time
  PROVE  Rerouted(s, SetInput(s, c, time))
  <1> DEFINE aged == IF time # "current" THEN s.queue
                     ELSE [i \in DOMAIN s.queue |-> [s.queue[i] EXCEPT !.late = @ \/ s.queue[i].what \in {"key", "enter"}]]
             outs == IF s.input = None THEN <<>> ELSE <<Event("out", s.input)>>
             ins  == IF c = None THEN <<>> ELSE <<Event("in", c)>>
  <1>1. aged \in Seq(Events)
    <2>1. s.queue \in Seq(Events)
      BY DEF State
    <2>2. \A i \in 1..Len(s.queue) : \A b \in BOOLEAN : [s.queue[i] EXCEPT !.late = b] \in Events
      BY <2>1 DEF Events
    <2>3. \A i \in 1..Len(s.queue) : (s.queue[i].late \/ s.queue[i].what \in {"key", "enter"}) \in BOOLEAN
      BY <2>1 DEF Events
    <2>4. CASE time # "current"
      BY <2>1, <2>4
    <2>5. CASE time = "current"
      <3> DEFINE old(i) == s.queue[i].late \/ s.queue[i].what \in {"key", "enter"}
      <3>1. \A i \in 1..Len(s.queue) : [s.queue[i] EXCEPT !.late = old(i)] \in Events
        BY <2>2, <2>3
      <3>2. aged = [i \in 1..Len(s.queue) |-> [s.queue[i] EXCEPT !.late = old(i)]]
        BY <2>1, <2>5
      <3>3. Len(s.queue) \in Nat
        BY <2>1
      <3> HIDE DEF aged, old
      <3>4. aged \in [1..Len(s.queue) -> Events]
        BY <3>1, <3>2
      <3> QED
        BY <3>3, <3>4
    <2> QED
      BY <2>4, <2>5
  <1>2. outs \in Seq(Events)
    <2>1. CASE s.input = None
      BY <2>1
    <2>2. CASE s.input # None
      <3>1. Event("out", s.input) \in Events
        BY <2>2 DEF Event, Events, State
      <3> QED
        BY <2>2, <3>1
    <2> QED
      BY <2>1, <2>2
  <1>3. ins \in Seq(Events)
    <2>1. CASE c = None
      BY <2>1
    <2>2. CASE c # None
      <3>1. Event("in", c) \in Events
        BY <2>2 DEF Event, Events
      <3> QED
        BY <2>2, <3>1
    <2> QED
      BY <2>1, <2>2
  <1> DEFINE q == IF s.input = c THEN aged ELSE aged \o outs \o ins
  <1>4. q \in Seq(Events)
    <2> HIDE DEF aged, outs, ins
    <2> QED
      BY <1>1, <1>2, <1>3
  <1>5. SetInput(s, c, time) = s \/ SetInput(s, c, time) = [s EXCEPT !.input = c, !.queue = q]
    BY DEF SetInput
  <1> HIDE DEF q
  <1> QED
    BY <1>4, <1>5 DEF Rerouted, State

-----------------------------------------------------------------------------
(* The stacks.                                                             *)

LEMMA BehindIs ==
  ASSUME NEW s \in State, NEW c \in Clients \cup {None}, NEW k \in Nat
  PROVE  /\ Behind(s, c, k) \in Clients \cup {None}
         /\ Behind(s, c, 0) = c
         /\ Behind(s, c, k + 1) = IF Behind(s, c, k) = None THEN None
                                  ELSE s.client[Behind(s, c, k)].next
  <1> DEFINE IsLink(f, n) == f = [i \in 0..n |-> IF i = 0 THEN c
                                               ELSE IF f[i - 1] = None THEN None
                                               ELSE s.client[f[i - 1]].next]
             link(n) == CHOOSE f : IsLink(f, n)
             NoLink == {n \in Nat : ~ \E f : IsLink(f, n)}
  <1>1. NoLink = {}
    <2> SUFFICES ASSUME NoLink # {} PROVE FALSE
      OBVIOUS
    <2>1. PICK n \in NoLink : \A j \in NoLink : n <= j
      <3>1. NoLink \in SUBSET Nat
        OBVIOUS
      <3> HIDE DEF NoLink
      <3> QED
        BY <3>1, Clearing!LeastNatural
    <2>2. n \in Nat
      OBVIOUS
    <2>3. n # 0
      <3>1. ASSUME n = 0 PROVE IsLink([i \in 0..0 |-> c], n)
        BY <3>1
      <3> QED
        BY <3>1
    <2>4. n - 1 \in Nat /\ ~(n <= n - 1)
      BY <2>2, <2>3
    <2>5. n - 1 \notin NoLink
      <3> HIDE DEF NoLink
      <3> QED
        BY <2>1, <2>4
    <2>6. PICK f : IsLink(f, n - 1)
      BY <2>4, <2>5
    <2> DEFINE g == [i \in 0..n |-> IF i = 0 THEN c
                                    ELSE IF f[i - 1] = None THEN None
                                    ELSE s.client[f[i - 1]].next]
    <2>7. \A i \in 0..(n - 1) : f[i] = g[i]
      <3>1. \A i \in 0..(n - 1) : i \in 0..n
        BY <2>2
      <3>2. \A i \in 0..(n - 1) : f[i] = IF i = 0 THEN c
                                        ELSE IF f[i - 1] = None THEN None
                                        ELSE s.client[f[i - 1]].next
        BY <2>6
      <3> QED
        BY <3>1, <3>2
    <2>8. IsLink(g, n)
      <3>1. \A i \in 0..n : i # 0 => i - 1 \in 0..(n - 1)
        BY <2>2
      <3> QED
        BY <2>7, <3>1
    <2> QED
      BY <2>8
  <1>2. ASSUME NEW n \in Nat PROVE IsLink(link(n), n)
    BY <1>1
  <1>3. \A n \in Nat : Behind(s, c, n) = link(n)[n]
    BY DEF Behind
  <1>4. \A n \in Nat : /\ link(n)[0] = c
                       /\ \A i \in 0..n : i # 0 => link(n)[i] = IF link(n)[i - 1] = None THEN None
                                                               ELSE s.client[link(n)[i - 1]].next
    <2> SUFFICES ASSUME NEW n \in Nat, NEW i \in 0..n
                 PROVE  link(n)[i] = IF i = 0 THEN c
                                     ELSE IF link(n)[i - 1] = None THEN None
                                     ELSE s.client[link(n)[i - 1]].next
      <3> HIDE DEF link
      <3> QED
        OBVIOUS
    <2>1. IsLink(link(n), n)
      BY <1>2
    <2> HIDE DEF link
    <2> QED
      BY <2>1
  <1> HIDE DEF link
  (* However far the links are followed, they are the same.                *)
  <1> DEFINE Other == {i \in Nat : \E n \in Nat : i <= n /\ link(n)[i] # link(i)[i]}
  <1>5. ASSUME Other # {} PROVE FALSE
    <2>1. PICK i \in Other : \A j \in Other : i <= j
      <3>1. Other \in SUBSET Nat
        OBVIOUS
      <3> HIDE DEF Other
      <3> QED
        BY <1>5, <3>1, Clearing!LeastNatural
    <2>2. PICK n \in Nat : i <= n /\ link(n)[i] # link(i)[i]
      BY <2>1
    <2>3. i # 0
      BY <1>4, <2>2
    <2>4. i - 1 \in Nat /\ ~(i <= i - 1) /\ i \in Nat /\ i - 1 <= n /\ i - 1 <= i /\ i \in 0..n /\ i \in 0..i
      BY <2>2, <2>3
    <2>5. link(n)[i - 1] = link(i)[i - 1]
      <3>1. i - 1 \notin Other
        <4> HIDE DEF Other
        <4> QED
          BY <2>1, <2>4
      <3> QED
        BY <2>4, <3>1
    <2> QED
      BY <1>4, <2>2, <2>3, <2>4, <2>5
  <1> DEFINE Wild == {i \in Nat : link(i)[i] \notin Clients \cup {None}}
  <1>6. \A n \in Nat : link(n + 1)[n + 1] = IF link(n)[n] = None THEN None ELSE s.client[link(n)[n]].next
    <2> SUFFICES ASSUME NEW n \in Nat
                 PROVE  link(n + 1)[n + 1] = IF link(n)[n] = None THEN None ELSE s.client[link(n)[n]].next
      OBVIOUS
    <2>1. n + 1 \in Nat /\ n <= n + 1 /\ n + 1 # 0 /\ (n + 1) - 1 = n /\ n + 1 \in 0..(n + 1)
      OBVIOUS
    <2>2. link(n + 1)[n] = link(n)[n]
      BY <1>5, <2>1
    <2> QED
      BY <1>4, <2>1, <2>2
  <1>7. ASSUME Wild # {} PROVE FALSE
    <2>1. PICK i \in Wild : \A j \in Wild : i <= j
      <3>1. Wild \in SUBSET Nat
        OBVIOUS
      <3> HIDE DEF Wild
      <3> QED
        BY <1>7, <3>1, Clearing!LeastNatural
    <2>2. i # 0
      BY <1>4, <2>1
    <2>3. i - 1 \in Nat /\ ~(i <= i - 1) /\ (i - 1) + 1 = i
      BY <2>1, <2>2
    <2>4. link(i - 1)[i - 1] \in Clients \cup {None}
      <3>1. i - 1 \notin Wild
        <4> HIDE DEF Wild
        <4> QED
          BY <2>1, <2>3
      <3> QED
        BY <2>3, <3>1
    <2>5. \A x \in Clients : s.client[x].next \in Clients \cup {None}
      BY DEF State, Record
    <2> QED
      BY <1>6, <2>1, <2>3, <2>4, <2>5
  <1> QED
    BY <1>3, <1>4, <1>5, <1>6, <1>7

(* rank is the place of a client in the stack of its workspace, from the   *)
(* bottom; 0 when it is in none.                                           *)
Ranked(s, rank) ==
  /\ rank \in [Clients -> Nat]
  /\ \A c \in Clients : rank[c] = 0 => s.client[c].next = None
  /\ \A c \in Clients : rank[c] > 0 =>
       /\ s.client[c].managed /\ s.client[c].workspace \in Workspaces
       /\ rank[c] <= s.desk[s.client[c].workspace].n
       /\ rank[c] = 1 => s.client[c].next = None
       /\ rank[c] > 1 => /\ s.client[c].next \in Clients
                         /\ rank[s.client[c].next] = rank[c] - 1
                         /\ s.client[s.client[c].next].workspace = s.client[c].workspace
  /\ \A c, x \in Clients : rank[c] > 0 /\ rank[x] = rank[c]
       /\ s.client[x].workspace = s.client[c].workspace => c = x
  /\ \A w \in Workspaces :
       /\ s.desk[w].n = 0 => s.desk[w].head = None
       /\ s.desk[w].n > 0 => /\ s.desk[w].head \in Clients
                             /\ rank[s.desk[w].head] = s.desk[w].n
                             /\ s.client[s.desk[w].head].workspace = w

Stacked(s) == \E rank : Ranked(s, rank)

InStack(s, rank, w) == {c \in Clients : rank[c] > 0 /\ s.client[c].workspace = w}

(* Following the links from the head goes through the stack and ends.      *)
LEMMA ChainIs ==
  ASSUME NEW s \in State, NEW rank, Ranked(s, rank), NEW w \in Workspaces
  PROVE  /\ Chain(s, s.desk[w].head) = InStack(s, rank, w)
         /\ Cardinality(InStack(s, rank, w)) = s.desk[w].n
         /\ Behind(s, s.desk[w].head, Cardinality(Clients)) = None
         /\ \A k \in 1..s.desk[w].n : \E c \in InStack(s, rank, w) : rank[c] = k
  <1> DEFINE n == s.desk[w].n
             at(k) == Behind(s, s.desk[w].head, k)
             H == InStack(s, rank, w)
             Right(k) == IF k < n THEN at(k) \in H /\ rank[at(k)] = n - k ELSE at(k) = None
  <1>1. n \in Nat /\ s.desk[w].head \in Clients \cup {None}
    BY DEF State, Desk
  <1>2. \A k \in Nat : /\ at(k) \in Clients \cup {None}
                       /\ at(0) = s.desk[w].head
                       /\ at(k + 1) = IF at(k) = None THEN None ELSE s.client[at(k)].next
    BY <1>1, BehindIs
  <1>3. Right(0)
    BY <1>1, <1>2 DEF Ranked, InStack
  <1>4. ASSUME NEW k \in Nat, Right(k) PROVE Right(k + 1)
    <2>1. CASE k < n
      <3> DEFINE c == at(k)
      <3>1. c \in Clients /\ rank[c] = n - k /\ rank[c] \in Nat /\ rank[c] > 0 /\ s.client[c].workspace = w
        BY <1>1, <1>4, <2>1 DEF InStack, Ranked
      <3>2. c # None
        BY <3>1, FocusAssumption
      <3>3. at(k + 1) = s.client[c].next
        BY <1>2, <3>2
      <3> HIDE DEF at, c
      <3>4. CASE rank[c] = 1
        BY <1>1, <3>1, <3>3, <3>4 DEF Ranked
      <3>5. CASE rank[c] > 1
        BY <1>1, <3>1, <3>3, <3>5 DEF Ranked, InStack
      <3> QED
        BY <3>1, <3>4, <3>5
    <2>2. CASE ~(k < n)
      BY <1>1, <1>2, <1>4, <2>2
    <2> QED
      BY <2>1, <2>2
  <1> HIDE DEF at
  <1>5. \A k \in Nat : Right(k)
    <2> DEFINE Wrong == {k \in Nat : ~Right(k)}
    <2>1. ASSUME Wrong # {} PROVE FALSE
      <3>1. PICK k \in Wrong : \A j \in Wrong : k <= j
        <4>1. Wrong \in SUBSET Nat
          OBVIOUS
        <4> HIDE DEF Wrong
        <4> QED
          BY <2>1, <4>1, Clearing!LeastNatural
      <3>2. k \in Nat /\ k # 0
        BY <1>3, <3>1
      <3>3. k - 1 \in Nat /\ ~(k <= k - 1) /\ (k - 1) + 1 = k
        BY <3>2
      <3>4. k - 1 \notin Wrong
        <4> HIDE DEF Wrong
        <4> QED
          BY <3>1, <3>3
      <3>5. Right(k - 1)
        BY <3>3, <3>4
      <3>6. Right((k - 1) + 1)
        <4> HIDE DEF Right
        <4> QED
          BY <1>4, <3>3, <3>5
      <3> QED
        BY <3>1, <3>3, <3>6
    <2> QED
      BY <2>1
  (* As many links as the stack counts.                                    *)
  <1>6. Cardinality(H) = n
    <2> DEFINE f == [i \in 1..n |-> at(n - i)]
    <2>1. \A i \in 1..n : f[i] \in H /\ rank[f[i]] = i
      <3> SUFFICES ASSUME NEW i \in 1..n PROVE at(n - i) \in H /\ rank[at(n - i)] = i
        OBVIOUS
      <3>1. n - i \in Nat /\ n - i < n /\ n - (n - i) = i
        BY <1>1
      <3> QED
        BY <1>5, <3>1
    <2>2. f \in [1..n -> H]
      BY <2>1
    <2> HIDE DEF f
    <2>3. \A c \in H : rank[c] \in 1..n /\ f[rank[c]] = c
      <3> SUFFICES ASSUME NEW c \in H PROVE rank[c] \in 1..n /\ f[rank[c]] = c
        OBVIOUS
      <3>1. rank[c] \in 1..n
        BY <1>1 DEF InStack, Ranked
      <3>2. f[rank[c]] \in H /\ rank[f[rank[c]]] = rank[c]
        BY <2>1, <3>1
      <3> QED
        BY <3>1, <3>2 DEF Ranked, InStack
    <2>4. f \in Bijection(1..n, H)
      BY <2>1, <2>2, <2>3 DEF Bijection, Injection, Surjection, IsInjective
    <2> QED
      BY <1>1, <2>4, FS_CountingElements DEF ExistsBijection
  <1>7. n <= Cardinality(Clients) /\ Cardinality(Clients) \in Nat
    <2>1. H \in SUBSET Clients
      BY DEF InStack
    <2>2. IsFiniteSet(Clients)
      BY FocusAssumption
    <2> HIDE DEF H
    <2> QED
      BY <1>6, <2>1, <2>2, FS_Subset, FS_CardinalityType
  <1>8. Chain(s, s.desk[w].head) = {at(k) : k \in 0..Cardinality(Clients)} \ {None}
    BY DEF Chain, Depth, at
  <1>9. ASSUME NEW c \in H PROVE c \in {at(k) : k \in 0..Cardinality(Clients)} \ {None}
    <2>1. c \in Clients /\ c # None /\ rank[c] \in Nat /\ rank[c] > 0 /\ rank[c] <= n
      BY FocusAssumption DEF InStack, Ranked
    <2>2. n - rank[c] \in 0..Cardinality(Clients) /\ n - rank[c] < n /\ n - rank[c] \in Nat
          /\ n - (n - rank[c]) = rank[c]
      BY <1>1, <1>7, <2>1
    <2>3. at(n - rank[c]) \in H /\ rank[at(n - rank[c])] = rank[c]
      BY <1>5, <2>2
    <2>4. at(n - rank[c]) = c
      BY <2>1, <2>3 DEF InStack, Ranked
    <2> QED
      BY <2>1, <2>2, <2>4
  <1>10. ASSUME NEW k \in 0..Cardinality(Clients), at(k) # None PROVE at(k) \in H
    BY <1>5, <1>7, <1>10
  <1>11. at(Cardinality(Clients)) = None
    BY <1>1, <1>5, <1>7
  <1>12. \A k \in 1..n : \E c \in H : rank[c] = k
    <2> SUFFICES ASSUME NEW k \in 1..n PROVE \E c \in H : rank[c] = k
      OBVIOUS
    <2>1. n - k \in Nat /\ n - k < n /\ n - (n - k) = k
      BY <1>1
    <2>2. at(n - k) \in H /\ rank[at(n - k)] = k
      BY <1>5, <2>1
    <2> QED
      BY <2>2
  <1> QED
    <2> HIDE DEF H
    <2>1. {at(k) : k \in 0..Cardinality(Clients)} \ {None} = H
      BY <1>9, <1>10
    <2> QED
      BY <1>6, <1>8, <1>11, <1>12, <2>1 DEF at, H

(* Only the stacks are not what they were.                                 *)
Restacked(s, t) ==
  /\ t \in State
  /\ t.current = s.current /\ t.input = s.input /\ t.queue = s.queue
  /\ \A c \in Clients : t.client[c] = [s.client[c] EXCEPT !.next = t.client[c].next]
  /\ \A w \in Workspaces : t.desk[w] = [s.desk[w] EXCEPT !.head = t.desk[w].head, !.n = t.desk[w].n]

LEMMA RestackedSelf ==
  ASSUME NEW s \in State PROVE Restacked(s, s)
  <1>1. \A c \in Clients : s.client[c] \in Record
    BY DEF State
  <1>2. \A w \in Workspaces : s.desk[w] \in Desk
    BY DEF State
  <1>3. \A r \in Record : r = [r EXCEPT !.next = r.next]
    BY DEF Record
  <1>4. \A d \in Desk : d = [d EXCEPT !.head = d.head, !.n = d.n]
    BY DEF Desk
  <1> QED
    BY <1>1, <1>2, <1>3, <1>4 DEF Restacked

(* One client and one desk are not what they were.                         *)
LEMMA SetBothIs ==
  ASSUME NEW s \in State, NEW c \in Clients, NEW r \in Record, NEW w \in Workspaces, NEW d \in Desk,
         NEW t, t = SetDesk(SetClient(s, c, r), w, d)
  PROVE  /\ t \in State
         /\ t.current = s.current /\ t.input = s.input /\ t.queue = s.queue
         /\ t.client[c] = r
         /\ \A x \in Clients : x # c => t.client[x] = s.client[x]
         /\ t.desk[w] = d
         /\ \A u \in Workspaces : u # w => t.desk[u] = s.desk[u]
  <1> DEFINE m == SetClient(s, c, r)
  <1>1. /\ m \in State /\ m.current = s.current /\ m.desk = s.desk
        /\ m.input = s.input /\ m.queue = s.queue /\ m.client[c] = r
        /\ \A x \in Clients : x # c => m.client[x] = s.client[x]
    BY SetClientIs
  <1>2. t = SetDesk(m, w, d)
    OBVIOUS
  <1> HIDE DEF m
  <1> QED
    BY <1>1, <1>2, SetDeskIs

LEMMA FsPopIs ==
  ASSUME NEW s \in State, NEW rank, Ranked(s, rank), NEW w \in Workspaces
  PROVE  /\ Restacked(s, FsPop(s, w))
         /\ \E rank2 : \/ Ranked(FsPop(s, w), rank2) /\ rank2[s.desk[w].head] = 0
                       \/ s.desk[w].n = 0
         /\ Stacked(FsPop(s, w))
  <1> DEFINE h == s.desk[w].head
             n == s.desk[w].n
             r == [s.client[h] EXCEPT !.next = None]
             d == [s.desk[w] EXCEPT !.head = IF n = 1 THEN None ELSE s.client[h].next, !.n = n - 1]
             t == SetDesk(SetClient(s, h, r), w, d)
  <1>1. n \in Nat /\ h \in Clients \cup {None} /\ s.desk[w] \in Desk /\ None \notin Clients
    BY FocusAssumption DEF State, Desk
  <1>2. CASE n = 0
    <2>1. FsPop(s, w) = s
      BY <1>2 DEF FsPop
    <2> QED
      BY <1>2, <2>1, RestackedSelf DEF Stacked
  <1>3. CASE n # 0
    <2>1. h \in Clients /\ rank[h] = n /\ s.client[h].workspace = w /\ h # None
      BY <1>1, <1>3 DEF Ranked
    <2>2. FsPop(s, w) = t
      BY <1>3, <2>1 DEF FsPop
    <2>3. r \in Record /\ d \in Desk
      <3>1. s.client[h] \in Record /\ s.client[h].next \in Clients \cup {None}
        BY <2>1 DEF State, Record
      <3>2. r \in Record
        BY <3>1 DEF Record
      <3>3. n - 1 \in Nat
        BY <1>1, <1>3
      <3>4. d \in Desk
        BY <1>1, <3>1, <3>3 DEF Desk
      <3> QED
        BY <3>2, <3>4
    <2>5. /\ t \in State /\ t.current = s.current /\ t.input = s.input /\ t.queue = s.queue
          /\ t.client[h] = r /\ \A x \in Clients : x # h => t.client[x] = s.client[x]
          /\ t.desk[w] = d /\ \A u \in Workspaces : u # w => t.desk[u] = s.desk[u]
      <3>1. t = SetDesk(SetClient(s, h, r), w, d)
        OBVIOUS
      <3> HIDE DEF r, d, t
      <3> QED
        BY <2>1, <2>3, <3>1, SetBothIs
    <2> HIDE DEF t
    <2>6. r.next = None /\ r = [s.client[h] EXCEPT !.next = r.next] /\ r.managed = s.client[h].managed /\ r.workspace = w
      BY <2>1, <2>3 DEF State, Record
    <2>7. d.n = n - 1 /\ d.head = (IF n = 1 THEN None ELSE s.client[h].next)
          /\ d = [s.desk[w] EXCEPT !.head = d.head, !.n = d.n]
      BY <1>1 DEF Desk
    <2> HIDE DEF r, d
    <2>8. Restacked(s, t)
      BY ZenonT(60), <2>5, <2>6, <2>7 DEF Restacked, State, Record, Desk
    <2> DEFINE rank2 == [rank EXCEPT ![h] = 0]
    <2>9. rank \in [Clients -> Nat] /\ rank2 \in [Clients -> Nat] /\ rank2[h] = 0
          /\ \A x \in Clients : x # h => rank2[x] = rank[x]
      BY <2>1 DEF Ranked
    <2> HIDE DEF rank2
    <2>10. \A x \in Clients : x # h /\ rank[x] > 0 /\ s.client[x].workspace = w => rank[x] < n
      BY <1>1, <2>1, <2>9 DEF Ranked
    <2>11. \A x \in Clients : rank[x] > 1 => s.client[x].next # h
      BY <1>1, <2>1, <2>9 DEF Ranked
    <2>12. Ranked(t, rank2)
      <3>1. \A x \in Clients : rank2[x] = 0 => t.client[x].next = None
        <4>1. ASSUME NEW x \in Clients, rank2[x] = 0 PROVE t.client[x].next = None
          <5>1. CASE x = h
            BY <2>5, <2>6, <5>1
          <5>2. CASE x # h
            <6>1. rank[x] = 0 /\ t.client[x] = s.client[x]
              BY <2>5, <2>9, <4>1, <5>2
            <6>2. s.client[x].next = None
              BY <6>1 DEF Ranked
            <6> QED
              BY <6>1, <6>2
          <5> QED
            BY <5>1, <5>2
        <4> QED
          BY <4>1
      <3>2. ASSUME NEW x \in Clients, rank2[x] > 0
            PROVE  /\ t.client[x].managed /\ t.client[x].workspace \in Workspaces
                   /\ rank2[x] <= t.desk[t.client[x].workspace].n
                   /\ rank2[x] = 1 => t.client[x].next = None
                   /\ rank2[x] > 1 => /\ t.client[x].next \in Clients
                                      /\ rank2[t.client[x].next] = rank2[x] - 1
                                      /\ t.client[t.client[x].next].workspace = t.client[x].workspace
        <4>1. x # h /\ t.client[x] = s.client[x] /\ rank2[x] = rank[x] /\ rank[x] > 0 /\ rank[x] \in Nat
          BY <2>5, <2>9, <3>2
        <4>2. rank2[x] <= t.desk[t.client[x].workspace].n
          <5>1. s.client[x].workspace \in Workspaces /\ rank[x] <= s.desk[s.client[x].workspace].n
            BY <4>1 DEF Ranked
          <5>2. CASE s.client[x].workspace = w
            <6>1. rank[x] < n /\ t.desk[w].n = n - 1
              BY <2>5, <2>7, <2>10, <4>1, <5>2
            <6>2. rank[x] <= n - 1
              BY <1>1, <4>1, <6>1
            <6> QED
              BY <4>1, <5>2, <6>1, <6>2
          <5>3. CASE s.client[x].workspace # w
            BY <2>5, <4>1, <5>1, <5>3
          <5> QED
            BY <5>2, <5>3
        <4>3. rank[x] > 1 => s.client[x].next # h
          BY <2>11
        <4> QED
          BY <2>5, <2>9, <4>1, <4>2, <4>3 DEF Ranked
      <3>3. \A c, x \in Clients : rank2[c] > 0 /\ rank2[x] = rank2[c]
               /\ t.client[x].workspace = t.client[c].workspace => c = x
        BY <2>5, <2>9 DEF Ranked
      <3>4. ASSUME NEW u \in Workspaces
            PROVE  /\ t.desk[u].n = 0 => t.desk[u].head = None
                   /\ t.desk[u].n > 0 => /\ t.desk[u].head \in Clients
                                         /\ rank2[t.desk[u].head] = t.desk[u].n
                                         /\ t.client[t.desk[u].head].workspace = u
        <4>1. CASE u # w
          <5>1. /\ s.desk[u].n = 0 => s.desk[u].head = None
                /\ s.desk[u].n > 0 => /\ s.desk[u].head \in Clients
                                      /\ rank[s.desk[u].head] = s.desk[u].n
                                      /\ s.client[s.desk[u].head].workspace = u
            BY DEF Ranked
          <5>2. s.desk[u].n > 0 => s.desk[u].head # h
            BY <2>1, <4>1, <5>1
          <5>3. t.desk[u] = s.desk[u]
            BY <2>5, <4>1
          <5> QED
            BY <2>5, <2>9, <5>1, <5>2, <5>3
        <4>2. CASE u = w
          <5>1. n > 1 => /\ s.client[h].next \in Clients /\ rank[s.client[h].next] = n - 1
                         /\ s.client[s.client[h].next].workspace = w /\ s.client[h].next # h
            BY SMTT(60), <1>1, <2>1, <2>11 DEF Ranked
          <5>2. t.desk[u].n = n - 1 /\ t.desk[u].head = (IF n = 1 THEN None ELSE s.client[h].next)
            BY <2>5, <2>7, <4>2
          <5>3. CASE n = 1
            BY <5>2, <5>3
          <5>4. CASE n # 1
            <6>1. n > 1 /\ n - 1 > 0
              BY <1>1, <1>3, <5>4
            <6> QED
              BY SMTT(60), <2>5, <2>9, <4>2, <5>1, <5>2, <5>4, <6>1
          <5> QED
            BY <5>3, <5>4
        <4> QED
          BY <4>1, <4>2
      <3> QED
        BY <2>9, <3>1, <3>2, <3>3, <3>4 DEF Ranked
    <2> QED
      BY <2>2, <2>8, <2>9, <2>12 DEF Stacked
  <1> QED
    BY <1>2, <1>3

(* A client is taken out of the middle of the stack.                       *)
LEMMA UnlinkIs ==
  ASSUME NEW s \in State, NEW rank, Ranked(s, rank), NEW w \in Workspaces,
         NEW c \in Clients, rank[c] > 0, s.client[c].workspace = w, s.desk[w].head # c,
         NEW p \in Clients, s.client[p].next = c, s.client[p].workspace = w,
         NEW t \in State, t.current = s.current, t.input = s.input, t.queue = s.queue,
         t.client[c] = [s.client[c] EXCEPT !.next = None],
         t.client[p] = [s.client[p] EXCEPT !.next = s.client[c].next],
         \A x \in Clients : x # c /\ x # p => t.client[x] = s.client[x],
         t.desk[w] = [s.desk[w] EXCEPT !.n = s.desk[w].n - 1],
         \A u \in Workspaces : u # w => t.desk[u] = s.desk[u]
  PROVE  /\ Restacked(s, t)
         /\ \E rank2 : Ranked(t, rank2) /\ rank2[c] = 0
  <1> DEFINE n == s.desk[w].n
             rp == t.client[p]
             rc == t.client[c]
             d == t.desk[w]
  <1>1. None \notin Clients /\ rank \in [Clients -> Nat] /\ rank[c] \in Nat /\ rank[p] \in Nat
    BY FocusAssumption DEF Ranked
  <1>2. rank[p] > 1
    <2>1. rank[p] # 0 /\ (rank[p] = 1 => ~(rank[p] > 0))
      BY <1>1 DEF Ranked
    <2> QED
      BY <1>1, <2>1
  <1>3. rank[p] = rank[c] + 1 /\ p # c
    <2>1. rank[c] = rank[p] - 1
      BY <1>1, <1>2 DEF Ranked
    <2> QED
      BY <1>1, <2>1
  <1>4. n \in Nat /\ n > 1 /\ rank[c] < n /\ s.client[p].managed /\ s.client[c].managed
    <2>1. n \in Nat /\ rank[p] <= n /\ s.client[p].managed /\ s.client[c].managed
      BY <1>1, <1>2 DEF Ranked, State, Desk
    <2> QED
      BY <1>1, <1>2, <1>3, <2>1
  <1>6. /\ rp.next = s.client[c].next /\ rp = [s.client[p] EXCEPT !.next = rp.next]
        /\ rp.managed = s.client[p].managed /\ rp.workspace = w
        /\ rc.next = None /\ rc = [s.client[c] EXCEPT !.next = rc.next]
        /\ rc.managed = s.client[c].managed /\ rc.workspace = w
    <2>1. s.client[p] \in Record /\ s.client[c] \in Record
      BY DEF State
    <2> QED
      BY <2>1 DEF Record
  <1>7. d.n = n - 1 /\ d.head = s.desk[w].head /\ d = [s.desk[w] EXCEPT !.head = d.head, !.n = d.n]
    <2>1. s.desk[w] \in Desk
      BY DEF State
    <2> QED
      BY <2>1 DEF Desk
  <1> HIDE DEF rp, rc, d
  <1>11. /\ t.client[c] = rc /\ t.client[p] = rp
         /\ \A x \in Clients : x # c /\ x # p => t.client[x] = s.client[x]
         /\ t.desk[w] = d /\ \A u \in Workspaces : u # w => t.desk[u] = s.desk[u]
    BY DEF rp, rc, d
  <1>12. \A x \in Clients : t.client[x].managed = s.client[x].managed
                           /\ t.client[x].workspace = s.client[x].workspace
    BY <1>6, <1>11
  <1>13. Restacked(s, t)
    <2>1. /\ \A x \in Clients : s.client[x] = [s.client[x] EXCEPT !.next = s.client[x].next]
          /\ \A u \in Workspaces : s.desk[u] = [s.desk[u] EXCEPT !.head = s.desk[u].head, !.n = s.desk[u].n]
      BY RestackedSelf DEF Restacked
    <2>2. \A x \in Clients : t.client[x] = [s.client[x] EXCEPT !.next = t.client[x].next]
      BY ZenonT(60), <1>6, <1>11, <2>1
    <2>3. \A u \in Workspaces : t.desk[u] = [s.desk[u] EXCEPT !.head = t.desk[u].head, !.n = t.desk[u].n]
      BY ZenonT(60), <1>7, <1>11, <2>1
    <2> QED
      BY <2>2, <2>3 DEF Restacked
  <1> DEFINE above(x) == s.client[x].workspace = w /\ rank[x] > rank[c]
             rank2 == [x \in Clients |-> IF x = c THEN 0 ELSE IF above(x) THEN rank[x] - 1 ELSE rank[x]]
  <1>14. /\ rank2 \in [Clients -> Nat] /\ rank2[c] = 0
         /\ \A x \in Clients : x # c /\ above(x) => rank2[x] = rank[x] - 1 /\ rank[x] > 1
         /\ \A x \in Clients : x # c /\ ~above(x) => rank2[x] = rank[x]
    BY <1>1
  <1> HIDE DEF rank2
  <1>15. \A x \in Clients : x # c /\ rank[x] > 0 /\ s.client[x].workspace = w /\ ~above(x) => rank[x] < rank[c]
    <2> SUFFICES ASSUME NEW x \in Clients, x # c, rank[x] > 0, s.client[x].workspace = w, ~(rank[x] > rank[c])
                 PROVE  rank[x] < rank[c]
      OBVIOUS
    <2>1. rank[x] # rank[c]
      BY <1>1 DEF Ranked
    <2>2. rank[x] \in Nat
      BY <1>1
    <2> QED
      BY <1>1, <2>1, <2>2
  (* Whoever links to c is p.                                              *)
  <1>16. \A x \in Clients : x # p => s.client[x].next # c
    <2> SUFFICES ASSUME NEW x \in Clients, s.client[x].next = c PROVE x = p
      OBVIOUS
    <2>1. rank[x] \in Nat /\ rank[x] # 0
      BY <1>1 DEF Ranked
    <2>2. rank[x] # 1
      BY <1>1, <2>1 DEF Ranked
    <2>3. rank[c] = rank[x] - 1 /\ s.client[x].workspace = w
      BY <2>1, <2>2 DEF Ranked
    <2>4. rank[x] = rank[p]
      BY <1>1, <1>3, <2>1, <2>3
    <2> QED
      BY <1>1, <1>2, <2>3, <2>4 DEF Ranked
  <1>17. ASSUME NEW x \in Clients, rank2[x] = 0 PROVE t.client[x].next = None
    <2>1. CASE x = c
      BY <1>6, <1>11, <2>1
    <2>2. CASE x # c
      <3>1. ~above(x) /\ rank[x] = 0
        <4>1. rank[x] \in Nat
          BY <1>1
        <4> QED
          BY <1>14, <1>17, <2>2, <4>1
      <3>2. x # p
        BY <1>2, <3>1
      <3> QED
        BY <1>11, <2>2, <3>1, <3>2 DEF Ranked
    <2> QED
      BY <2>1, <2>2
  <1>18. ASSUME NEW x \in Clients, rank2[x] > 0
         PROVE  /\ t.client[x].managed /\ t.client[x].workspace \in Workspaces
                /\ rank2[x] <= t.desk[t.client[x].workspace].n
                /\ rank2[x] = 1 => t.client[x].next = None
                /\ rank2[x] > 1 => /\ t.client[x].next \in Clients
                                   /\ rank2[t.client[x].next] = rank2[x] - 1
                                   /\ t.client[t.client[x].next].workspace = t.client[x].workspace
    <2>1. x # c /\ rank[x] \in Nat /\ rank[x] > 0
      BY <1>1, <1>14, <1>18
    <2>2. /\ s.client[x].managed /\ s.client[x].workspace \in Workspaces
          /\ rank[x] <= s.desk[s.client[x].workspace].n
          /\ rank[x] = 1 => s.client[x].next = None
          /\ rank[x] > 1 => /\ s.client[x].next \in Clients
                            /\ rank[s.client[x].next] = rank[x] - 1
                            /\ s.client[s.client[x].next].workspace = s.client[x].workspace
      BY <2>1 DEF Ranked
    <2>3. rank2[x] <= t.desk[t.client[x].workspace].n
      <3>1. CASE s.client[x].workspace = w
        <4>1. t.desk[w].n = n - 1 /\ t.client[x].workspace = w /\ rank[x] <= n
          BY <1>7, <1>11, <1>12, <2>2, <3>1
        <4>2. rank2[x] <= n - 1
          <5>1. CASE above(x)
            <6>1. rank2[x] = rank[x] - 1
              BY <1>14, <2>1, <5>1
            <6> QED
              BY <1>4, <2>1, <4>1, <6>1
          <5>2. CASE ~above(x)
            <6>1. rank2[x] = rank[x] /\ rank[x] < rank[c]
              BY <1>14, <1>15, <2>1, <3>1, <5>2
            <6> QED
              BY <1>1, <1>4, <2>1, <4>1, <6>1
          <5> QED
            BY <5>1, <5>2
        <4> QED
          BY <4>1, <4>2
      <3>2. CASE s.client[x].workspace # w
        <4>1. rank2[x] = rank[x]
          BY <1>14, <2>1, <3>2
        <4>2. t.client[x].workspace = s.client[x].workspace
          BY <1>12
        <4>3. t.desk[s.client[x].workspace] = s.desk[s.client[x].workspace]
          BY <1>11, <2>2, <3>2
        <4> QED
          BY <2>2, <4>1, <4>2, <4>3
      <3> QED
        BY <3>1, <3>2
    <2>4. CASE x = p
      <3>1. rank2[x] = rank[c] /\ t.client[x].next = s.client[c].next
        BY <1>1, <1>3, <1>6, <1>11, <1>14, <2>4
      <3>2. rank[c] > 1 => /\ s.client[c].next \in Clients /\ rank[s.client[c].next] = rank[c] - 1
                           /\ s.client[s.client[c].next].workspace = w
        BY DEF Ranked
      <3>3. rank[c] = 1 => s.client[c].next = None
        BY DEF Ranked
      <3>4. ASSUME rank[c] > 1 PROVE rank2[s.client[c].next] = rank[c] - 1
        <4> DEFINE y == s.client[c].next
        <4>1. y \in Clients /\ rank[y] = rank[c] - 1 /\ rank[y] < rank[c]
          BY <1>1, <3>2, <3>4
        <4>2. y # c /\ ~(rank[y] > rank[c])
          BY <1>1, <4>1
        <4> HIDE DEF y
        <4>3. rank2[y] = rank[y]
          BY <1>14, <4>1, <4>2
        <4> QED
          BY <4>1, <4>3 DEF y
      <3>5. t.client[x].managed /\ t.client[x].workspace \in Workspaces /\ t.client[x].workspace = w
        BY <1>12, <2>2, <2>4
      <3>6. rank[c] > 1 => t.client[s.client[c].next].workspace = w
        BY <1>12, <3>2
      <3> QED
        BY <2>3, <3>1, <3>2, <3>3, <3>4, <3>5, <3>6
    <2>5. CASE x # p
      <3>1. t.client[x] = s.client[x] /\ s.client[x].next # c
        BY <1>11, <1>16, <2>1, <2>5
      <3>2. ASSUME rank2[x] = 1 PROVE t.client[x].next = None
        <4>1. CASE above(x)
          <5>1. rank[x] = 2 /\ rank[c] = 1
            BY <1>1, <1>14, <2>1, <3>2, <4>1
          <5>2. rank[x] = rank[p]
            BY <1>3, <5>1
          <5>3. x = p
            BY <2>1, <4>1, <5>2 DEF Ranked
          <5> QED
            BY <2>5, <5>3
        <4>2. CASE ~above(x)
          BY <1>14, <2>1, <2>2, <3>1, <3>2, <4>2
        <4> QED
          BY <4>1, <4>2
      <3>3. ASSUME rank2[x] > 1
            PROVE  /\ t.client[x].next \in Clients /\ rank2[t.client[x].next] = rank2[x] - 1
                   /\ t.client[t.client[x].next].workspace = t.client[x].workspace
        <4> DEFINE y == s.client[x].next
        <4>1. rank[x] > 1
          BY <1>14, <2>1, <3>3
        <4>2. y \in Clients /\ rank[y] = rank[x] - 1 /\ s.client[y].workspace = s.client[x].workspace /\ y # c
          BY <2>2, <3>1, <4>1
        <4> HIDE DEF y
        <4>3. rank[y] \in Nat
          BY <1>1, <4>2
        <4>4. rank2[y] = rank2[x] - 1
          <5>1. CASE s.client[x].workspace # w
            BY <1>14, <2>1, <4>2, <5>1
          <5>2. CASE s.client[x].workspace = w /\ ~above(x)
            <6>1. rank2[x] = rank[x] /\ rank[x] < rank[c]
              BY <1>14, <1>15, <2>1, <5>2
            <6>2. ~above(y)
              BY <1>1, <2>1, <4>2, <4>3, <6>1
            <6> QED
              BY <1>14, <4>2, <6>1, <6>2
          <5>3. CASE above(x)
            <6>1. rank[x] # rank[p]
              BY <1>2, <2>1, <2>5, <5>3 DEF Ranked
            <6>2. rank[y] > rank[c]
              BY <1>1, <1>3, <2>1, <4>2, <4>3, <5>3, <6>1
            <6>3. above(y)
              BY <4>2, <5>3, <6>2
            <6> QED
              BY <1>14, <2>1, <4>2, <4>3, <5>3, <6>3
          <5> QED
            BY <5>1, <5>2, <5>3
        <4>5. t.client[x].next = y
          BY <3>1 DEF y
        <4> QED
          BY <1>12, <4>2, <4>4, <4>5
      <3> QED
        BY <1>12, <2>2, <2>3, <3>2, <3>3
    <2> QED
      BY <2>4, <2>5
  <1>19. ASSUME NEW x \in Clients, NEW y \in Clients, rank2[x] > 0, rank2[y] = rank2[x],
                t.client[y].workspace = t.client[x].workspace
         PROVE  x = y
    <2>1. x # c /\ y # c /\ rank[x] \in Nat /\ rank[y] \in Nat /\ rank[x] > 0 /\ rank[y] > 0
          /\ s.client[y].workspace = s.client[x].workspace
      <3>1. x # c /\ y # c /\ rank[x] \in Nat /\ rank[y] \in Nat
        BY <1>1, <1>14, <1>19
      <3>2. rank[x] > 0
        BY <1>14, <1>19, <3>1
      <3>3. rank[y] > 0
        BY <1>14, <1>19, <3>1
      <3> QED
        BY <1>12, <1>19, <3>1, <3>2, <3>3
    <2>2. rank[x] = rank[y]
      <3>1. CASE s.client[x].workspace # w
        BY <1>14, <1>19, <2>1, <3>1
      <3>2. CASE s.client[x].workspace = w
        <4>1. ~above(x) => rank2[x] = rank[x] /\ rank[x] < rank[c]
          BY <1>14, <1>15, <2>1, <3>2
        <4>2. ~above(y) => rank2[y] = rank[y] /\ rank[y] < rank[c]
          BY <1>14, <1>15, <2>1, <3>2
        <4>3. above(x) => rank2[x] = rank[x] - 1 /\ rank[x] > rank[c]
          BY <1>14, <2>1
        <4>4. above(y) => rank2[y] = rank[y] - 1 /\ rank[y] > rank[c]
          BY <1>14, <2>1
        <4> QED
          BY <1>1, <1>19, <2>1, <4>1, <4>2, <4>3, <4>4
      <3> QED
        BY <3>1, <3>2
    <2> QED
      BY <2>1, <2>2 DEF Ranked
  <1>20. ASSUME NEW u \in Workspaces
         PROVE  /\ t.desk[u].n = 0 => t.desk[u].head = None
                /\ t.desk[u].n > 0 => /\ t.desk[u].head \in Clients
                                      /\ rank2[t.desk[u].head] = t.desk[u].n
                                      /\ t.client[t.desk[u].head].workspace = u
    <2>1. /\ s.desk[u].n = 0 => s.desk[u].head = None
          /\ s.desk[u].n > 0 => /\ s.desk[u].head \in Clients
                                /\ rank[s.desk[u].head] = s.desk[u].n
                                /\ s.client[s.desk[u].head].workspace = u
      BY DEF Ranked
    <2> DEFINE h == s.desk[u].head
    <2>2. CASE u # w
      <3>1. s.desk[u].n > 0 => h # c /\ rank2[h] = rank[h]
        BY <1>14, <2>1, <2>2
      <3>2. t.desk[u] = s.desk[u]
        BY <1>11, <2>2
      <3> QED
        BY <1>12, <2>1, <3>1, <3>2
    <2>3. CASE u = w
      <3>1. t.desk[u].n = n - 1 /\ t.desk[u].head = h
        BY <1>7, <1>11, <2>3
      <3>2. n > 0 /\ h # c /\ h \in Clients /\ rank[h] = n /\ s.client[h].workspace = w
        BY <1>4, <2>1, <2>3
      <3> HIDE DEF h
      <3>3. rank2[h] = n - 1
        <4>1. above(h)
          BY <1>1, <1>4, <3>2
        <4> QED
          BY <1>14, <3>2, <4>1
      <3>4. n - 1 > 0 /\ n - 1 # 0
        BY <1>4
      <3>5. t.client[h].workspace = u
        BY <1>12, <2>3, <3>2
      <3> QED
        BY <3>1, <3>2, <3>3, <3>4, <3>5
    <2> QED
      BY <2>2, <2>3
  <1>21. Ranked(t, rank2)
    <2>1. \A x \in Clients : rank2[x] = 0 => t.client[x].next = None
      BY <1>17
    <2>2. rank2 \in [Clients -> Nat]
      BY <1>14
    <2>3. \A x, y \in Clients : rank2[x] > 0 /\ rank2[y] = rank2[x]
            /\ t.client[y].workspace = t.client[x].workspace => x = y
      BY <1>19
    <2> QED
      BY <1>18, <1>20, <2>1, <2>2, <2>3 DEF Ranked
  <1> QED
    BY <1>13, <1>14, <1>21

LEMMA FsRemoveIs ==
  ASSUME NEW s \in State, NEW rank, Ranked(s, rank), NEW w \in Workspaces,
         NEW c \in Clients, rank[c] > 0 => s.client[c].workspace = w
  PROVE  /\ Restacked(s, FsRemove(s, w, c))
         /\ \E rank2 : Ranked(FsRemove(s, w, c), rank2) /\ rank2[c] = 0
  <1> DEFINE h == s.desk[w].head
             H == InStack(s, rank, w)
  <1>1. Chain(s, h) = H /\ \A k \in 1..s.desk[w].n : \E x \in H : rank[x] = k
    BY ChainIs
  <1>2. rank[c] \in Nat /\ s.desk[w].n \in Nat /\ None \notin Clients /\ s.desk[w] \in Desk
    BY FocusAssumption DEF Ranked, State, Desk
  <1>3. CASE c \notin H
    <2>1. FsRemove(s, w, c) = s
      BY <1>1, <1>3 DEF FsRemove
    <2>2. rank[c] = 0
      BY <1>2, <1>3 DEF InStack
    <2> QED
      BY <2>1, <2>2, RestackedSelf
  <1>4. CASE c \in H /\ h = c
    <2>1. FsRemove(s, w, c) = FsPop(s, w)
      BY <1>1, <1>4 DEF FsRemove
    <2>2. s.desk[w].n # 0
      BY <1>2, <1>4 DEF Ranked
    <2> QED
      BY <1>4, <2>1, <2>2, FsPopIs
  <1>5. CASE c \in H /\ h # c
    <2> DEFINE p == CHOOSE p \in Chain(s, h) : s.client[p].next = c
               rp == [s.client[p] EXCEPT !.next = s.client[c].next]
               rc == [s.client[c] EXCEPT !.next = None]
               d == [s.desk[w] EXCEPT !.n = s.desk[w].n - 1]
               m == SetClient(s, p, rp)
    <2>1. rank[c] > 0 /\ s.client[c].workspace = w /\ rank[c] <= s.desk[w].n
      BY <1>5 DEF InStack, Ranked
    <2>2. rank[c] < s.desk[w].n
      <3>1. rank[c] # s.desk[w].n
        BY <1>2, <1>5, <2>1 DEF Ranked
      <3> QED
        BY <1>2, <2>1, <3>1
    <2>3. PICK x \in H : rank[x] = rank[c] + 1
      <3>1. rank[c] + 1 \in 1..s.desk[w].n
        BY <1>2, <2>1, <2>2
      <3> QED
        BY <1>1, <3>1
    <2>4. s.client[x].next = c
      <3>1. rank[x] > 1 /\ x \in Clients /\ s.client[x].workspace = w /\ rank[x] \in Nat
        BY <1>2, <2>1, <2>3 DEF InStack
      <3>2. s.client[x].next \in Clients /\ rank[s.client[x].next] = rank[c]
            /\ s.client[s.client[x].next].workspace = w
        BY <1>2, <2>3, <3>1 DEF Ranked
      <3> QED
        BY <2>1, <3>2 DEF Ranked
    <2>5. p \in H /\ s.client[p].next = c
      BY <1>1, <2>4
    <2>6. FsRemove(s, w, c) = SetDesk(SetClient(m, c, rc), w, d)
      BY <1>1, <1>5 DEF FsRemove
    <2> HIDE DEF p
    <2>7. p \in Clients /\ s.client[p].workspace = w
      BY <2>5 DEF InStack
    <2>8. p # c
      <3>1. rank[p] \in Nat /\ rank[p] > 0
        BY <2>5 DEF InStack, Ranked
      <3>2. rank[p] # 1
        BY <1>2, <2>5, <2>7, <3>1 DEF Ranked
      <3>3. rank[c] = rank[p] - 1
        BY <2>5, <2>7, <3>1, <3>2 DEF Ranked
      <3> QED
        BY <3>1, <3>3
    <2>9. rp \in Record /\ rc \in Record
      <3>1. s.client[p] \in Record /\ s.client[c] \in Record /\ s.client[c].next \in Clients \cup {None}
        BY <2>7 DEF State, Record
      <3>2. rp \in Record
        BY <3>1 DEF Record
      <3>3. rc \in Record
        BY <3>1 DEF Record
      <3> QED
        BY <3>2, <3>3
    <2>10. d \in Desk
      <3>1. s.desk[w].n - 1 \in Nat
        BY <1>2, <2>1, <2>2
      <3> QED
        BY <1>2, <3>1 DEF Desk
    <2> DEFINE t == FsRemove(s, w, c)
    <2>16. t = SetDesk(SetClient(m, c, rc), w, d)
      BY <2>6
    <2>17. m = SetClient(s, p, rp)
      OBVIOUS
    <2>11. /\ rp = [s.client[p] EXCEPT !.next = s.client[c].next]
           /\ rc = [s.client[c] EXCEPT !.next = None]
           /\ d = [s.desk[w] EXCEPT !.n = s.desk[w].n - 1]
      OBVIOUS
    <2> HIDE DEF t, rp, rc, d, m
    <2>12. /\ m \in State /\ m.current = s.current /\ m.desk = s.desk /\ m.input = s.input
           /\ m.queue = s.queue /\ m.client[p] = rp
           /\ \A y \in Clients : y # p => m.client[y] = s.client[y]
      BY SMTT(60), <2>7, <2>9, <2>17, SetClientIs
    <2>13. m \in State /\ t = SetDesk(SetClient(m, c, rc), w, d)
      BY <2>12, <2>16
    <2>14. /\ t \in State /\ t.current = m.current /\ t.input = m.input /\ t.queue = m.queue
           /\ t.client[c] = rc /\ \A y \in Clients : y # c => t.client[y] = m.client[y]
           /\ t.desk[w] = d /\ \A u \in Workspaces : u # w => t.desk[u] = m.desk[u]
      BY <2>9, <2>10, <2>13, SetBothIs
    <2>15. /\ t \in State /\ t.current = s.current /\ t.input = s.input /\ t.queue = s.queue
           /\ t.client[c] = [s.client[c] EXCEPT !.next = None]
           /\ t.client[p] = [s.client[p] EXCEPT !.next = s.client[c].next]
           /\ \A y \in Clients : y # c /\ y # p => t.client[y] = s.client[y]
           /\ t.desk[w] = [s.desk[w] EXCEPT !.n = s.desk[w].n - 1]
           /\ \A u \in Workspaces : u # w => t.desk[u] = s.desk[u]
      <3>1. t.client[p] = rp /\ \A y \in Clients : y # c /\ y # p => t.client[y] = s.client[y]
        BY <2>7, <2>8, <2>12, <2>14
      <3>2. t.current = s.current /\ t.input = s.input /\ t.queue = s.queue
            /\ \A u \in Workspaces : u # w => t.desk[u] = s.desk[u]
        BY <2>12, <2>14
      <3> QED
        BY <2>11, <2>14, <3>1, <3>2
    <2> QED
      <3>1. Restacked(s, t) /\ \E rank2 : Ranked(t, rank2) /\ rank2[c] = 0
        BY <1>5, <2>1, <2>5, <2>7, <2>15, UnlinkIs
      <3> QED
        BY <3>1 DEF t
  <1> QED
    BY <1>3, <1>4, <1>5

LEMMA RestackedTwice ==
  ASSUME NEW s, NEW t, NEW u, Restacked(s, t), Restacked(t, u)
  PROVE  Restacked(s, u)
  <1>1. ASSUME NEW c \in Clients PROVE u.client[c] = [s.client[c] EXCEPT !.next = u.client[c].next]
    <2>1. t.client[c] = [s.client[c] EXCEPT !.next = t.client[c].next]
      BY DEF Restacked
    <2>2. u.client[c] = [t.client[c] EXCEPT !.next = u.client[c].next]
      BY DEF Restacked
    <2> QED
      BY <2>1, <2>2
  <1>2. ASSUME NEW w \in Workspaces
        PROVE  u.desk[w] = [s.desk[w] EXCEPT !.head = u.desk[w].head, !.n = u.desk[w].n]
    <2>1. t.desk[w] = [s.desk[w] EXCEPT !.head = t.desk[w].head, !.n = t.desk[w].n]
      BY DEF Restacked
    <2>2. u.desk[w] = [t.desk[w] EXCEPT !.head = u.desk[w].head, !.n = u.desk[w].n]
      BY DEF Restacked
    <2> QED
      BY <2>1, <2>2
  <1> QED
    BY <1>1, <1>2 DEF Restacked

LEMMA FsPushIs ==
  ASSUME NEW s \in State, Stacked(s), NEW c \in Clients, s.client[c].managed,
         s.client[c].workspace = s.current
  PROVE  Restacked(s, FsPush(s, c)) /\ Stacked(FsPush(s, c))
  <1> DEFINE w == s.current
             m == FsRemove(s, w, c)
  <1>1. w \in Workspaces /\ None \notin Clients
    BY FocusAssumption DEF State
  <1>2. CASE s.client[c].mini
    BY <1>2, RestackedSelf DEF FsPush
  <1>3. CASE ~s.client[c].mini
    <2>1. PICK rank0 : Ranked(s, rank0)
      BY DEF Stacked
    <2>2. Restacked(s, m) /\ \E rank : Ranked(m, rank) /\ rank[c] = 0
      BY <1>1, <2>1, FsRemoveIs
    <2>3. FsPush(s, c) = FsPushFront(m, c)
      BY <1>3 DEF FsPush
    <2> HIDE DEF m
    <2>4. PICK rank : Ranked(m, rank) /\ rank[c] = 0
      BY <2>2
    <2>5. /\ m \in State /\ m.current = w /\ m.client[c].managed /\ m.client[c].workspace = w
          /\ m.client[c] \in Record /\ m.desk[w] \in Desk
      <3>1. m.client[c] = [s.client[c] EXCEPT !.next = m.client[c].next] /\ m \in State /\ m.current = w
        BY <2>2 DEF Restacked
      <3>2. s.client[c] \in Record /\ m.client[c] \in Record /\ m.desk[w] \in Desk
        BY <1>1, <3>1 DEF State
      <3> QED
        BY <3>1, <3>2 DEF Record
    <2> DEFINE n == m.desk[w].n
               h == m.desk[w].head
               r == [m.client[c] EXCEPT !.next = h]
               d == [m.desk[w] EXCEPT !.head = c, !.n = n + 1]
               t == FsPush(s, c)
    <2>6. n \in Nat /\ h \in Clients \cup {None}
      BY <2>5 DEF Desk
    <2>7. r \in Record /\ d \in Desk
      <3>1. n + 1 \in Nat
        BY <2>6
      <3>2. d \in Desk
        BY <2>5, <3>1 DEF Desk
      <3>3. r \in Record
        BY <2>5, <2>6 DEF Record
      <3> QED
        BY <3>2, <3>3
    <2>8. t = SetDesk(SetClient(m, c, r), w, d)
      BY <2>3, <2>5 DEF FsPushFront
    <2>9. /\ r.next = h /\ r.managed /\ r.workspace = w /\ r = [m.client[c] EXCEPT !.next = r.next]
          /\ d.head = c /\ d.n = n + 1 /\ d = [m.desk[w] EXCEPT !.head = d.head, !.n = d.n]
      BY <2>5 DEF Record, Desk
    <2> HIDE DEF t, r, d
    <2>10. /\ t \in State /\ t.current = m.current /\ t.input = m.input /\ t.queue = m.queue
           /\ t.client[c] = r /\ \A x \in Clients : x # c => t.client[x] = m.client[x]
           /\ t.desk[w] = d /\ \A u \in Workspaces : u # w => t.desk[u] = m.desk[u]
      BY <1>1, <2>5, <2>7, <2>8, SetBothIs
    <2> HIDE DEF w, n, h
    <2>11. Restacked(m, t)
      <3>1. /\ \A x \in Clients : m.client[x] = [m.client[x] EXCEPT !.next = m.client[x].next]
            /\ \A u \in Workspaces : m.desk[u] = [m.desk[u] EXCEPT !.head = m.desk[u].head, !.n = m.desk[u].n]
        BY <2>5, RestackedSelf DEF Restacked
      <3>2. \A x \in Clients : t.client[x] = [m.client[x] EXCEPT !.next = t.client[x].next]
        <4> SUFFICES ASSUME NEW x \in Clients PROVE t.client[x] = [m.client[x] EXCEPT !.next = t.client[x].next]
          OBVIOUS
        <4>1. CASE x = c
          <5>1. r = [m.client[c] EXCEPT !.next = r.next] /\ t.client[c] = r
            BY <2>9, <2>10
          <5> QED
            BY <4>1, <5>1
        <4>2. CASE x # c
          <5>1. t.client[x] = m.client[x]
            BY <2>10, <4>2
          <5> QED
            BY <3>1, <5>1
        <4> QED
          BY <4>1, <4>2
      <3>3. \A u \in Workspaces : t.desk[u] = [m.desk[u] EXCEPT !.head = t.desk[u].head, !.n = t.desk[u].n]
        <4> SUFFICES ASSUME NEW u \in Workspaces
                     PROVE  t.desk[u] = [m.desk[u] EXCEPT !.head = t.desk[u].head, !.n = t.desk[u].n]
          OBVIOUS
        <4>1. CASE u = w
          <5>1. d = [m.desk[w] EXCEPT !.head = d.head, !.n = d.n] /\ t.desk[w] = d
            BY <2>9, <2>10
          <5> QED
            BY <4>1, <5>1
        <4>2. CASE u # w
          <5>1. t.desk[u] = m.desk[u]
            BY <2>10, <4>2
          <5> QED
            BY <3>1, <5>1
        <4> QED
          BY <4>1, <4>2
      <3> QED
        BY <2>5, <2>10, <3>2, <3>3 DEF Restacked
    <2> DEFINE rank2 == [rank EXCEPT ![c] = n + 1]
    <2>12. rank \in [Clients -> Nat] /\ rank2 \in [Clients -> Nat] /\ rank2[c] = n + 1
           /\ \A x \in Clients : x # c => rank2[x] = rank[x]
      BY <2>4, <2>6 DEF Ranked
    <2> HIDE DEF rank2
    <2>13. /\ n = 0 => h = None
           /\ n > 0 => h \in Clients /\ rank[h] = n /\ m.client[h].workspace = w /\ h # c
      BY <1>1, <2>4 DEF Ranked, n, h
    <2>14. \A x \in Clients : t.client[x].managed = m.client[x].managed
                             /\ t.client[x].workspace = m.client[x].workspace
      <3>1. r.managed = m.client[c].managed /\ r.workspace = m.client[c].workspace
        BY <2>5, <2>9
      <3> QED
        BY <2>10, <3>1
    <2>15. \A x \in Clients : rank2[x] = 0 => t.client[x].next = None
      BY <2>4, <2>6, <2>10, <2>12 DEF Ranked
    <2>16. ASSUME NEW x \in Clients, rank2[x] > 0
           PROVE  /\ t.client[x].managed /\ t.client[x].workspace \in Workspaces
                  /\ rank2[x] <= t.desk[t.client[x].workspace].n
                  /\ rank2[x] = 1 => t.client[x].next = None
                  /\ rank2[x] > 1 => /\ t.client[x].next \in Clients
                                     /\ rank2[t.client[x].next] = rank2[x] - 1
                                     /\ t.client[t.client[x].next].workspace = t.client[x].workspace
      <3>1. CASE x = c
        <4>1. t.client[c].managed /\ t.client[c].workspace = w /\ t.client[c].next = h /\ t.desk[w].n = n + 1
          BY <2>9, <2>10
        <4>2. n + 1 = 1 => n = 0
          BY <2>6
        <4>3. n + 1 > 1 => n > 0
          BY <2>6
        <4>4. n > 0 => rank2[h] = (n + 1) - 1
          BY <2>6, <2>12, <2>13
        <4> QED
          BY <1>1, <2>6, <2>12, <2>13, <2>14, <3>1, <4>1, <4>2, <4>3, <4>4
      <3>2. CASE x # c
        <4>1. rank2[x] = rank[x] /\ rank[x] > 0 /\ rank[x] \in Nat /\ t.client[x] = m.client[x]
          BY <2>10, <2>12, <2>16, <3>2
        <4>2. /\ m.client[x].managed /\ m.client[x].workspace \in Workspaces
              /\ rank[x] <= m.desk[m.client[x].workspace].n
              /\ rank[x] = 1 => m.client[x].next = None
              /\ rank[x] > 1 => /\ m.client[x].next \in Clients
                                /\ rank[m.client[x].next] = rank[x] - 1
                                /\ m.client[m.client[x].next].workspace = m.client[x].workspace
          BY <2>4, <4>1 DEF Ranked
        <4>3. rank[x] <= t.desk[m.client[x].workspace].n
          <5>1. CASE m.client[x].workspace = w
            <6>1. rank[x] <= n /\ t.desk[w].n = n + 1
              BY <2>9, <2>10, <4>2, <5>1 DEF n
            <6> QED
              BY <2>6, <4>1, <5>1, <6>1
          <5>2. CASE m.client[x].workspace # w
            BY <2>10, <4>2, <5>2
          <5> QED
            BY <5>1, <5>2
        <4>4. rank[x] > 1 => m.client[x].next # c
          <5>1. rank[x] > 1 => rank[x] - 1 # 0
            BY <4>1
          <5> QED
            BY <2>4, <4>2, <5>1
        <4> QED
          BY <2>12, <2>14, <4>1, <4>2, <4>3, <4>4
      <3> QED
        BY <3>1, <3>2
    <2>17. ASSUME NEW x \in Clients, NEW y \in Clients, rank2[x] > 0, rank2[y] = rank2[x],
                  t.client[y].workspace = t.client[x].workspace
           PROVE  x = y
      <3>1. \A z \in Clients : z # c /\ rank[z] > 0 /\ m.client[z].workspace = w => rank[z] <= n
        BY <2>4 DEF Ranked, n
      <3>2. \A z \in Clients : z # c /\ rank[z] > 0 /\ m.client[z].workspace = w => rank[z] # n + 1
        BY <2>6, <2>12, <3>1
      <3>3. m.client[x].workspace = m.client[y].workspace
        BY <2>14, <2>17
      <3>4. CASE x # c /\ y # c
        BY <2>4, <2>12, <2>17, <3>3, <3>4 DEF Ranked
      <3>5. CASE x = c \/ y = c
        <4>1. rank2[x] = n + 1 /\ rank2[y] = n + 1 /\ m.client[x].workspace = w /\ m.client[y].workspace = w /\ n + 1 > 0
          BY <2>5, <2>6, <2>12, <2>17, <3>3, <3>5
        <4> QED
          BY <2>12, <3>2, <3>5, <4>1
      <3> QED
        BY <3>4, <3>5
    <2>18. ASSUME NEW u \in Workspaces
           PROVE  /\ t.desk[u].n = 0 => t.desk[u].head = None
                  /\ t.desk[u].n > 0 => /\ t.desk[u].head \in Clients
                                        /\ rank2[t.desk[u].head] = t.desk[u].n
                                        /\ t.client[t.desk[u].head].workspace = u
      <3>1. CASE u = w
        <4>1. n + 1 # 0
          BY <2>6
        <4>2. t.desk[u].n = n + 1 /\ t.desk[u].head = c /\ t.client[c].workspace = w
          BY <2>9, <2>10, <3>1
        <4> QED
          BY <2>12, <3>1, <4>1, <4>2
      <3>2. CASE u # w
        <4>1. /\ m.desk[u].n = 0 => m.desk[u].head = None
              /\ m.desk[u].n > 0 => /\ m.desk[u].head \in Clients
                                    /\ rank[m.desk[u].head] = m.desk[u].n
                                    /\ m.client[m.desk[u].head].workspace = u
          BY <2>4 DEF Ranked
        <4>2. m.desk[u].n > 0 => m.desk[u].head # c
          BY <2>5, <3>2, <4>1
        <4>3. t.desk[u] = m.desk[u]
          BY <2>10, <3>2
        <4> QED
          BY <2>12, <2>14, <4>1, <4>2, <4>3
      <3> QED
        BY <3>1, <3>2
    <2>19. Ranked(t, rank2)
      <3>1. \A x, y \in Clients : rank2[x] > 0 /\ rank2[y] = rank2[x]
              /\ t.client[y].workspace = t.client[x].workspace => x = y
        BY <2>17
      <3> QED
        BY <2>12, <2>15, <2>16, <2>18, <3>1 DEF Ranked
    <2> QED
      <3>1. Restacked(s, t)
        BY <2>2, <2>11, RestackedTwice
      <3> QED
        BY <2>19, <3>1 DEF Stacked, t
  <1> QED
    BY <1>2, <1>3

-----------------------------------------------------------------------------
(* One client.                                                             *)

(* What is true of a client when cur is the current workspace.             *)
RecordOK(r, cur) ==
  /\ r.moved = FALSE
  /\ r.mapped <=> r.state \in {"MAPPED", "UNMAP_PENDING"}
  /\ r.managed => /\ r.workspace \in Workspaces /\ r.place = r.workspace
                  /\ r.mapped <=> r.ul = "none"
                  /\ r.state = "MAPPED" => r.workspace = cur
  /\ ~r.managed => /\ r.workspace = NoWorkspace /\ r.place = NoWorkspace
                   /\ r.state = "UNMAPPED" /\ ~r.full /\ ~r.mini

FullAt(r, w) == r.managed /\ r.full /\ r.place = w

(* r may take the place of o: nothing that points to o needs to change.    *)
Fits(o, r) ==
  /\ \A w \in Workspaces : FullAt(o, w) <=> FullAt(r, w)
  /\ o.managed => r.managed /\ r.workspace = o.workspace
  /\ r.next = o.next

(* The focus may rest on a client until the notice that it is unmapped.    *)
Awaited(r) == r.state = "MAPPED" \/ r.pending_unmap >= 1

(* The server is told of what the manager notes down.                      *)
Tells(o, r) ==
  /\ o.win = "mapped" => IF r.notices = <<>> THEN r.win = "mapped" ELSE Head(r.notices) = "unmap"
  /\ Awaited(o) => Awaited(r)

LEMMA RecordIsTold ==
  ASSUME NEW r \in Record
  PROVE  IsTold(r) /\ r.notices = <<>> /\ r = [r EXCEPT !.notices = <<>>] /\ Fits(r, r) /\ Tells(r, r)
  <1>1. r.notices = <<>> /\ r = [r EXCEPT !.notices = <<>>]
    BY DEF Record
  <1>2. <<>> \in Seq(V!Notices)
    OBVIOUS
  <1> QED
    BY <1>1, <1>2 DEF IsTold, Fits, Tells

LEMMA XMapWindowIs ==
  ASSUME NEW r, IsTold(r)
  PROVE  /\ IsTold(V!XMapWindow(r))
         /\ \A cur : RecordOK(r, cur) => RecordOK(V!XMapWindow(r), cur)
         /\ Fits(r, V!XMapWindow(r))
         /\ V!XMapWindow(r).state = r.state /\ V!XMapWindow(r).pending_unmap = r.pending_unmap
         /\ r.notices = <<>> => Tells(r, V!XMapWindow(r))
         /\ r.notices # <<>> => /\ V!XMapWindow(r).notices # <<>>
                               /\ Head(V!XMapWindow(r).notices) = Head(r.notices)
  <1>1. CASE r.win # "unmapped"
    BY <1>1 DEF V!XMapWindow, Fits, Tells, Awaited
  <1>2. CASE r.win = "unmapped"
    <2> DEFINE n == Append(r.notices, "map")
               m == [r EXCEPT !.win = "mapped", !.notices = n]
    <2>1. V!XMapWindow(r) = m
      BY <1>2 DEF V!XMapWindow
    <2>2. n \in Seq(V!Notices)
      BY DEF IsTold, V!Notices
    <2>3. IsTold(m)
      BY <2>2 DEF IsTold, Record
    <2>4. /\ m.state = r.state /\ m.pending_unmap = r.pending_unmap /\ m.moved = r.moved
          /\ m.mapped = r.mapped /\ m.managed = r.managed /\ m.workspace = r.workspace
          /\ m.place = r.place /\ m.ul = r.ul /\ m.full = r.full /\ m.mini = r.mini /\ m.next = r.next
          /\ m.notices = n
      BY DEF IsTold, Record
    <2>5. r.notices # <<>> => n # <<>> /\ Head(n) = Head(r.notices)
      <3>1. r.notices \in Seq(V!Notices)
        BY DEF IsTold
      <3>2. \A q \in Seq(V!Notices) : q # <<>> => Append(q, "map") # <<>> /\ Head(Append(q, "map")) = Head(q)
        OBVIOUS
      <3> QED
        BY <3>1, <3>2
    <2> HIDE DEF m, n
    <2> QED
      BY <1>2, <2>1, <2>3, <2>4, <2>5 DEF RecordOK, Fits, FullAt, Tells, Awaited
  <1> QED
    BY <1>1, <1>2

LEMMA XUnmapWindowIs ==
  ASSUME NEW r \in Record
  PROVE  /\ IsTold(V!XUnmapWindow(r))
         /\ \A cur : RecordOK(r, cur) => RecordOK(V!XUnmapWindow(r), cur)
         /\ Fits(r, V!XUnmapWindow(r)) /\ Tells(r, V!XUnmapWindow(r))
         /\ V!XUnmapWindow(r).win # "mapped"
         /\ V!XUnmapWindow(r).desktop = r.desktop
  <1>1. CASE r.win # "mapped"
    <2>1. V!XUnmapWindow(r) = r
      BY <1>1 DEF V!XUnmapWindow
    <2> QED
      BY <1>1, <2>1, RecordIsTold
  <1>2. CASE r.win = "mapped"
    <2> DEFINE n == Append(r.notices, "unmap")
               m == [r EXCEPT !.win = "unmapped", !.notices = n]
    <2>1. V!XUnmapWindow(r) = m
      BY <1>2 DEF V!XUnmapWindow
    <2>2. n = <<"unmap">> /\ n \in Seq(V!Notices) /\ Head(n) = "unmap" /\ n # <<>>
      <3>1. n = <<"unmap">>
        <4>1. r.notices = <<>>
          BY RecordIsTold
        <4>2. Append(<<>>, "unmap") = <<"unmap">>
          OBVIOUS
        <4> QED
          BY <4>1, <4>2
      <3> HIDE DEF n
      <3> QED
        BY <3>1 DEF V!Notices
    <2>3. IsTold(m)
      BY <2>2 DEF IsTold, Record
    <2>4. /\ m.state = r.state /\ m.pending_unmap = r.pending_unmap /\ m.moved = r.moved
          /\ m.mapped = r.mapped /\ m.managed = r.managed /\ m.workspace = r.workspace
          /\ m.place = r.place /\ m.ul = r.ul /\ m.full = r.full /\ m.mini = r.mini /\ m.next = r.next
          /\ m.notices = n /\ m.win = "unmapped" /\ m.desktop = r.desktop
      BY DEF Record
    <2> HIDE DEF m
    <2> QED
      BY <1>2, <2>1, <2>2, <2>3, <2>4 DEF RecordOK, Fits, FullAt, Tells, Awaited
  <1> QED
    BY <1>1, <1>2

LEMMA MapClientIs ==
  ASSUME NEW r, IsTold(r), NEW cur, RecordOK(r, cur), r.managed
  PROVE  /\ IsTold(V!MapClient(r)) /\ RecordOK(V!MapClient(r), cur)
         /\ Fits(r, V!MapClient(r))
         /\ V!MapClient(r).state = "MAPPED" => r.state = "MAPPED"
         /\ r.notices = <<>> => Tells(r, V!MapClient(r))
         /\ r.notices # <<>> => /\ V!MapClient(r).notices # <<>>
                               /\ Head(V!MapClient(r).notices) = Head(r.notices)
  <1>1. CASE V!MapClient(r) = r
    BY <1>1 DEF Fits, Tells, Awaited
  <1>2. CASE V!MapClient(r) # r
    <2> DEFINE m == [r EXCEPT !.state = "MAP_PENDING"]
    <2>1. /\ V!MapClient(r) = V!XMapWindow(m)
          /\ ~V!IsClientMapped(r) /\ r.state \notin {"MAP_PENDING", "UNMAP_PENDING"}
      BY <1>2 DEF V!MapClient
    <2>2. r.state = "UNMAPPED" /\ ~r.mapped
      <3>1. r.state \in V!States /\ r.mapped \in BOOLEAN
        BY DEF IsTold, Record
      <3> QED
        BY <2>1, <3>1 DEF V!IsClientMapped, RecordOK, V!States
    <2>3. IsTold(m)
      BY DEF IsTold, Record, V!States
    <2>4. /\ m.state = "MAP_PENDING" /\ m.pending_unmap = r.pending_unmap /\ m.moved = r.moved
          /\ m.mapped = r.mapped /\ m.managed = r.managed /\ m.workspace = r.workspace
          /\ m.place = r.place /\ m.ul = r.ul /\ m.full = r.full /\ m.mini = r.mini /\ m.next = r.next
          /\ m.notices = r.notices /\ m.win = r.win
      BY DEF IsTold, Record
    <2> HIDE DEF m
    <2>5. RecordOK(m, cur) /\ Fits(r, m) /\ (r.notices = <<>> => Tells(r, m))
      BY <2>2, <2>4 DEF RecordOK, Fits, FullAt, Tells, Awaited
    <2> DEFINE x == V!XMapWindow(m)
    <2>6. /\ IsTold(x) /\ RecordOK(x, cur) /\ Fits(m, x) /\ x.state = "MAP_PENDING"
          /\ (m.notices = <<>> => Tells(m, x))
          /\ (m.notices # <<>> => x.notices # <<>> /\ Head(x.notices) = Head(m.notices))
      BY <2>3, <2>4, <2>5, XMapWindowIs
    <2> HIDE DEF x
    <2>7. Fits(r, x)
      BY <2>4, <2>5, <2>6 DEF Fits
    <2>8. r.notices = <<>> => Tells(r, x)
      BY <2>4, <2>5, <2>6 DEF Tells
    <2> QED
      BY <2>1, <2>4, <2>6, <2>7, <2>8 DEF x
  <1> QED
    BY <1>1, <1>2

LEMMA UnmapClientIs ==
  ASSUME NEW r \in Record, NEW cur, RecordOK(r, cur)
  PROVE  /\ IsTold(V!UnmapClient(r)) /\ RecordOK(V!UnmapClient(r), cur)
         /\ Fits(r, V!UnmapClient(r)) /\ Tells(r, V!UnmapClient(r))
         /\ V!UnmapClient(r).state # "MAPPED"
         /\ V!UnmapClient(r).map_after = r.map_after
  <1>0. r.state \in V!States /\ r.mapped \in BOOLEAN /\ r.pending_unmap \in Nat /\ r.notices = <<>>
    BY DEF Record
  <1>1. CASE V!UnmapClient(r) = r
    <2>1. r.state # "MAPPED"
      <3> DEFINE m == [r EXCEPT !.state = "UNMAP_PENDING", !.pending_unmap = @ + 1]
      <3>1. m.state # r.state \/ r.state = "UNMAP_PENDING"
        BY DEF Record
      <3>2. V!XUnmapWindow(m).state = "UNMAP_PENDING"
        BY DEF V!XUnmapWindow, Record
      <3>3. ~V!IsClientMapped(r) \/ r.state \in {"MAP_PENDING", "UNMAP_PENDING"}
        BY <1>1, <3>2 DEF V!UnmapClient
      <3> QED
        BY <3>3 DEF V!IsClientMapped, RecordOK
    <2> QED
      BY <1>1, <2>1, RecordIsTold
  <1>2. CASE V!UnmapClient(r) # r
    <2> DEFINE n == r.pending_unmap + 1
               m == [r EXCEPT !.state = "UNMAP_PENDING", !.pending_unmap = n]
    <2>1. V!UnmapClient(r) = V!XUnmapWindow(m) /\ V!IsClientMapped(r)
      BY <1>2 DEF V!UnmapClient
    <2>2. n \in Nat /\ n >= 1
      BY <1>0
    <2>3. r.mapped
      BY <2>1 DEF V!IsClientMapped
    <2>4. m \in Record
      BY <2>2 DEF Record, V!States
    <2>5. /\ m.state = "UNMAP_PENDING" /\ m.pending_unmap = n /\ m.moved = r.moved
          /\ m.mapped = r.mapped /\ m.managed = r.managed /\ m.workspace = r.workspace
          /\ m.place = r.place /\ m.ul = r.ul /\ m.full = r.full /\ m.mini = r.mini /\ m.next = r.next
          /\ m.notices = r.notices /\ m.win = r.win /\ m.map_after = r.map_after
      BY DEF Record
    <2> HIDE DEF m, n
    <2>6. RecordOK(m, cur) /\ Fits(r, m) /\ Awaited(m)
      BY <1>0, <2>2, <2>3, <2>5 DEF RecordOK, Fits, FullAt, Awaited
    <2> DEFINE x == V!XUnmapWindow(m)
    <2>7. IsTold(x) /\ RecordOK(x, cur) /\ Fits(m, x) /\ Tells(m, x)
      BY <2>4, <2>6, XUnmapWindowIs
    <2>8. x.state = "UNMAP_PENDING" /\ x.map_after = r.map_after
      BY <2>4, <2>5 DEF V!XUnmapWindow, Record
    <2> HIDE DEF x
    <2>9. Fits(r, x)
      BY <2>5, <2>6, <2>7 DEF Fits
    <2>10. Tells(r, x)
      BY <2>5, <2>6, <2>7 DEF Tells
    <2> QED
      BY <2>1, <2>7, <2>8, <2>9, <2>10 DEF x
  <1> QED
    BY <1>1, <1>2

LEMMA EnterIs ==
  ASSUME NEW r \in Record, NEW cur, RecordOK(r, cur), r.managed
  PROVE  /\ IsTold(V!Enter(r)) /\ RecordOK(V!Enter(r), cur)
         /\ Fits(r, V!Enter(r)) /\ Tells(r, V!Enter(r))
         /\ V!Enter(r).state = "MAPPED" => r.state = "MAPPED"
  <1> DEFINE m == V!CancelPendingUnmaps(V!CancelCancelPendingMaps(r))
  <1>1. m \in Record
    <2>1. \A q \in Record : \A b \in BOOLEAN : [q EXCEPT !.unmap_after = b] \in Record
      BY DEF Record
    <2>2. \A q \in Record : \A b \in BOOLEAN : [q EXCEPT !.map_after = b] \in Record
      BY DEF Record
    <2>3. V!CancelCancelPendingMaps(r) \in Record
      BY <2>1 DEF V!CancelCancelPendingMaps
    <2> QED
      BY <2>2, <2>3 DEF V!CancelPendingUnmaps
  <1>2. /\ m.state = r.state /\ m.pending_unmap = r.pending_unmap /\ m.moved = r.moved
        /\ m.mapped = r.mapped /\ m.managed = r.managed /\ m.workspace = r.workspace
        /\ m.place = r.place /\ m.ul = r.ul /\ m.full = r.full /\ m.mini = r.mini /\ m.next = r.next
        /\ m.notices = r.notices /\ m.win = r.win
    BY DEF V!CancelPendingUnmaps, V!CancelCancelPendingMaps, V!InUnmappedList, Record
  <1>3. V!Enter(r) = IF V!InUnmappedList(r) THEN V!MapClient(m) ELSE m
    BY DEF V!Enter
  <1> HIDE DEF m
  <1>4. RecordOK(m, cur) /\ IsTold(m) /\ m.notices = <<>> /\ Fits(r, m) /\ Tells(r, m)
    <2>1. IsTold(m) /\ m.notices = <<>>
      BY <1>1, RecordIsTold
    <2> QED
      BY <1>2, <2>1 DEF RecordOK, Fits, FullAt, Tells, Awaited
  <1>5. CASE ~V!InUnmappedList(r)
    BY <1>2, <1>3, <1>4, <1>5
  <1>6. CASE V!InUnmappedList(r)
    <2> DEFINE x == V!MapClient(m)
    <2>1. IsTold(x) /\ RecordOK(x, cur) /\ Fits(m, x) /\ (x.state = "MAPPED" => m.state = "MAPPED") /\ Tells(m, x)
      BY <1>2, <1>4, MapClientIs
    <2> HIDE DEF x
    <2>2. Fits(r, x) /\ Tells(r, x) /\ (x.state = "MAPPED" => r.state = "MAPPED")
      BY <1>2, <1>4, <2>1 DEF Fits, Tells
    <2> QED
      BY <1>3, <1>6, <2>1, <2>2 DEF x
  <1> QED
    BY <1>5, <1>6

LEMMA LeaveIs ==
  ASSUME NEW r \in Record, NEW cur, RecordOK(r, cur), r.managed
  PROVE  /\ IsTold(V!Leave(r)) /\ RecordOK(V!Leave(r), cur)
         /\ Fits(r, V!Leave(r)) /\ Tells(r, V!Leave(r))
         /\ V!Leave(r).state # "MAPPED"
  <1> DEFINE m == V!CancelPendingMaps(V!CancelCancelPendingUnmaps(V!SetUnmappedFromSwitch(r)))
  <1>1. m \in Record
    <2>1. \A q \in Record : \A b \in BOOLEAN : [q EXCEPT !.unmap_after = b] \in Record
      BY DEF Record
    <2>2. \A q \in Record : \A b \in BOOLEAN : [q EXCEPT !.map_after = b] \in Record
      BY DEF Record
    <2>3. V!SetUnmappedFromSwitch(r) \in Record
      BY DEF V!SetUnmappedFromSwitch, Record
    <2>4. V!CancelCancelPendingUnmaps(V!SetUnmappedFromSwitch(r)) \in Record
      BY <2>2, <2>3 DEF V!CancelCancelPendingUnmaps
    <2> QED
      BY <2>1, <2>4 DEF V!CancelPendingMaps
  <1>2. /\ m.state = r.state /\ m.pending_unmap = r.pending_unmap /\ m.moved = r.moved
        /\ m.mapped = r.mapped /\ m.managed = r.managed /\ m.workspace = r.workspace
        /\ m.place = r.place /\ m.ul = r.ul /\ m.full = r.full /\ m.mini = r.mini /\ m.next = r.next
        /\ m.notices = r.notices /\ m.win = r.win
    BY DEF V!CancelPendingMaps, V!CancelCancelPendingUnmaps, V!SetUnmappedFromSwitch, V!InUnmappedList, Record
  <1>3. V!Leave(r) = IF V!InUnmappedList(r) THEN m ELSE V!UnmapClient(m)
    BY DEF V!Leave
  <1> HIDE DEF m
  <1>4. RecordOK(m, cur) /\ IsTold(m) /\ m.notices = <<>> /\ Fits(r, m) /\ Tells(r, m)
    <2>1. IsTold(m) /\ m.notices = <<>>
      BY <1>1, RecordIsTold
    <2> QED
      BY <1>2, <2>1 DEF RecordOK, Fits, FullAt, Tells, Awaited
  <1>5. CASE V!InUnmappedList(r)
    BY <1>2, <1>3, <1>4, <1>5 DEF V!InUnmappedList, RecordOK
  <1>6. CASE ~V!InUnmappedList(r)
    <2> DEFINE x == V!UnmapClient(m)
    <2>1. IsTold(x) /\ RecordOK(x, cur) /\ Fits(m, x) /\ x.state # "MAPPED" /\ Tells(m, x)
      BY <1>1, <1>4, UnmapClientIs
    <2> HIDE DEF x
    <2>2. Fits(r, x) /\ Tells(r, x)
      BY <1>2, <1>4, <2>1 DEF Fits, Tells
    <2> QED
      BY <1>3, <1>6, <2>1, <2>2 DEF x
  <1> QED
    BY <1>5, <1>6

LEMMA HandleMapNotifyIs ==
  ASSUME NEW r \in Record, NEW cur, RecordOK(r, cur), r.managed
  PROVE  /\ IsTold(V!HandleMapNotify(r, cur, FALSE))
         /\ RecordOK(V!HandleMapNotify(r, cur, FALSE), cur)
         /\ Fits(r, V!HandleMapNotify(r, cur, FALSE))
         /\ LET x == V!HandleMapNotify(r, cur, FALSE) IN
              r.win = "mapped" => IF x.notices = <<>> THEN x.win = "mapped" ELSE Head(x.notices) = "unmap"
  <1> DEFINE m == [r EXCEPT !.mapped = TRUE, !.state = "MAPPED",
                            !.ul = V!OutOfUnmappedList(r), !.from_switch = FALSE]
             a == [m EXCEPT !.unmap_after = FALSE, !.from_switch = TRUE]
             x == V!HandleMapNotify(r, cur, FALSE)
  <1>1. V!OutOfUnmappedList(r) = "none" /\ r.workspace \in Workspaces /\ r.place = r.workspace /\ r.moved = FALSE
    BY DEF V!OutOfUnmappedList, V!IsInPlace, RecordOK
  <1>2. m \in Record /\ a \in Record
    BY ZenonT(60), <1>1 DEF Record, V!States
  <1>3. /\ m.state = "MAPPED" /\ m.moved = r.moved
        /\ m.mapped /\ m.managed = r.managed /\ m.workspace = r.workspace
        /\ m.place = r.place /\ m.ul = "none" /\ m.full = r.full /\ m.mini = r.mini /\ m.next = r.next
        /\ m.win = r.win
    BY <1>1 DEF Record
  <1>4. /\ a.state = "MAPPED" /\ a.moved = r.moved
        /\ a.mapped /\ a.managed = r.managed /\ a.workspace = r.workspace
        /\ a.place = r.place /\ a.ul = "none" /\ a.full = r.full /\ a.mini = r.mini /\ a.next = r.next
        /\ a.win = r.win
    BY <1>1 DEF Record
  <1>5. x = IF r.workspace # cur \/ r.unmap_after THEN V!UnmapClient(a) ELSE m
    BY DEF V!HandleMapNotify
  <1> HIDE DEF m, a, x
  <1>6. CASE ~(r.workspace # cur \/ r.unmap_after)
    <2>1. IsTold(m) /\ m.notices = <<>>
      BY <1>2, RecordIsTold
    <2>2. RecordOK(m, cur) /\ Fits(r, m)
      BY <1>1, <1>3, <1>6 DEF RecordOK, Fits, FullAt
    <2> QED
      BY <1>3, <1>5, <1>6, <2>1, <2>2 DEF x
  <1>7. CASE r.workspace # cur \/ r.unmap_after
    <2>1. RecordOK(a, a.workspace) /\ Fits(r, a)
      BY <1>1, <1>4 DEF RecordOK, Fits, FullAt
    <2> DEFINE y == V!UnmapClient(a)
    <2>2. IsTold(y) /\ RecordOK(y, a.workspace) /\ Fits(a, y) /\ Tells(a, y) /\ y.state # "MAPPED"
      BY <1>2, <2>1, UnmapClientIs
    <2> HIDE DEF y
    <2>3. RecordOK(y, cur) /\ Fits(r, y)
      BY <1>4, <2>1, <2>2 DEF RecordOK, Fits
    <2>4. x = y
      BY <1>5, <1>7 DEF y
    <2> QED
      BY <1>4, <2>2, <2>3, <2>4 DEF x, Tells
  <1> QED
    BY <1>6, <1>7

(* HandleMapRequest: a client that was not managed, or one that was.       *)
LEMMA StartManageIs ==
  ASSUME NEW r \in Record, NEW cur \in Workspaces, RecordOK(r, cur), ~r.managed
  PROVE  /\ IsTold(V!StartManage(r, cur)) /\ RecordOK(V!StartManage(r, cur), cur)
         /\ V!StartManage(r, cur).managed /\ Fits(r, V!StartManage(r, cur))
         /\ LET x == V!StartManage(r, cur) IN
              r.win = "mapped" => IF x.notices = <<>> THEN x.win = "mapped" ELSE Head(x.notices) = "unmap"
         /\ V!StartManage(r, cur).notices # <<>> => Head(V!StartManage(r, cur).notices) = "unmap"
  <1> DEFINE known  == r.win # "gone"
             ws     == IF known /\ r.desktop \in Workspaces THEN r.desktop ELSE cur
             viewed == r.win = "mapped" /\ ws = cur
             told   == IF ws = cur THEN r ELSE V!XUnmapWindow(r)
             new    == [V!Fresh(told) EXCEPT
                          !.managed = TRUE, !.known = known, !.workspace = ws, !.place = ws,
                          !.desktop = IF @ = NoWorkspace THEN ws ELSE @]
             shown  == [new EXCEPT !.mapped = TRUE, !.state = "MAPPED"]
             p      == IF r.win = "mapped" THEN 1 ELSE 0
             hidden == [new EXCEPT !.ul = "can", !.pending_unmap = p]
             x      == V!StartManage(r, cur)
  <1>1. x = IF viewed THEN shown ELSE hidden
    BY DEF V!StartManage
  <1>2. ws \in Workspaces /\ known \in BOOLEAN /\ p \in Nat
    OBVIOUS
  <1>3. /\ IsTold(told) /\ Fits(r, told) /\ Tells(r, told)
        /\ told.notices # <<>> => Head(told.notices) = "unmap"
    <2>1. CASE ws = cur
      BY <2>1, RecordIsTold
    <2>2. CASE ws # cur
      <3>1. told = V!XUnmapWindow(r)
        BY <2>2
      <3>2. r.win # "mapped" => told = r
        BY <3>1 DEF V!XUnmapWindow
      <3> HIDE DEF told
      <3> QED
        BY <3>1, <3>2, XUnmapWindowIs, RecordIsTold DEF Tells
    <2> QED
      BY <2>1, <2>2
  <1>4. told.desktop \in Workspaces \cup {NoWorkspace, AllWorkspaces}
    BY <1>3 DEF IsTold, Record
  <1> HIDE DEF told, ws, known
  <1>5. /\ IsTold(new) /\ new.notices = told.notices /\ new.win = told.win /\ new.managed
        /\ new.workspace = ws /\ new.place = ws /\ ~new.mapped /\ new.state = "UNMAPPED"
        /\ new.ul = "none" /\ new.moved = told.moved /\ new.full = told.full /\ new.mini = told.mini
        /\ new.next = told.next
    <2> DEFINE fresh == V!Fresh(told)
               d == IF told.desktop = NoWorkspace THEN ws ELSE told.desktop
    <2>1. IsTold(fresh)
      BY ZenonT(60), <1>3 DEF IsTold, Record, V!Fresh, V!States
    <2>2. /\ fresh.desktop = told.desktop /\ fresh.notices = told.notices /\ fresh.win = told.win
          /\ ~fresh.mapped /\ fresh.state = "UNMAPPED" /\ fresh.ul = "none" /\ fresh.moved = told.moved
          /\ fresh.full = told.full /\ fresh.mini = told.mini /\ fresh.next = told.next
      BY <1>3 DEF IsTold, Record, V!Fresh
    <2>3. d \in Workspaces \cup {NoWorkspace, AllWorkspaces}
      BY <1>2, <1>4
    <2>4. new = [fresh EXCEPT !.managed = TRUE, !.known = known, !.workspace = ws, !.place = ws, !.desktop = d]
      BY <2>2
    <2> HIDE DEF fresh, d, new
    <2>5. IsTold(new)
      <3> DEFINE b == [fresh EXCEPT !.notices = <<>>]
                 b2 == [b EXCEPT !.managed = TRUE, !.known = known, !.workspace = ws, !.place = ws, !.desktop = d]
      <3>1. b \in Record /\ fresh.notices \in Seq(V!Notices)
        BY <2>1 DEF IsTold
      <3>2. b2 \in Record
        <4> HIDE DEF b
        <4> QED
          BY <1>2, <2>3, <3>1 DEF Record
      <3>3. [new EXCEPT !.notices = <<>>] = b2
        BY <2>4
      <3>4. new.notices = fresh.notices
        BY <2>1, <2>4 DEF IsTold, Record
      <3> QED
        BY <3>1, <3>2, <3>3, <3>4 DEF IsTold
    <2> QED
      BY <2>1, <2>2, <2>4, <2>5 DEF IsTold, Record
  <1> HIDE DEF new
  <1>6. told.moved = r.moved /\ told.full = r.full /\ told.mini = r.mini /\ told.next = r.next
    BY DEF told, V!XUnmapWindow, Record
  <1>7. r.moved = FALSE /\ ~r.full /\ ~r.mini
    BY DEF RecordOK
  <1>8. CASE viewed
    <2>1. told = r /\ ws = cur /\ r.notices = <<>> /\ r.win = "mapped"
      BY <1>8, RecordIsTold DEF told
    <2>2. IsTold(shown)
      BY ZenonT(60), <1>5 DEF IsTold, Record, V!States
    <2>3. /\ shown.notices = new.notices /\ shown.win = new.win /\ shown.managed
          /\ shown.workspace = ws /\ shown.place = ws /\ shown.mapped /\ shown.state = "MAPPED"
          /\ shown.ul = "none" /\ shown.moved = new.moved /\ shown.full = new.full /\ shown.mini = new.mini
          /\ shown.next = new.next
      BY <1>5 DEF IsTold, Record
    <2> HIDE DEF shown, hidden
    <2>4. RecordOK(shown, cur) /\ Fits(r, shown)
      BY <1>2, <1>5, <1>6, <1>7, <2>1, <2>3 DEF RecordOK, Fits, FullAt
    <2> QED
      BY <1>1, <1>5, <1>8, <2>1, <2>2, <2>3, <2>4 DEF x
  <1>9. CASE ~viewed
    <2>1. IsTold(hidden)
      <3> HIDE DEF p
      <3> DEFINE b == [new EXCEPT !.notices = <<>>]
      <3>1. b \in Record /\ new.notices \in Seq(V!Notices)
        BY <1>5 DEF IsTold
      <3>2. [b EXCEPT !.ul = "can", !.pending_unmap = p] \in Record
        <4> HIDE DEF b
        <4> QED
          BY <1>2, <3>1 DEF Record
      <3>3. [hidden EXCEPT !.notices = <<>>] = [b EXCEPT !.ul = "can", !.pending_unmap = p]
        OBVIOUS
      <3>4. hidden.notices = new.notices
        BY <1>5 DEF IsTold, Record
      <3> QED
        BY <3>1, <3>2, <3>3, <3>4 DEF IsTold
    <2>2. /\ hidden.notices = new.notices /\ hidden.win = new.win /\ hidden.managed
          /\ hidden.workspace = ws /\ hidden.place = ws /\ ~hidden.mapped /\ hidden.state = "UNMAPPED"
          /\ hidden.ul = "can" /\ hidden.moved = new.moved /\ hidden.full = new.full /\ hidden.mini = new.mini
          /\ hidden.next = new.next
      BY <1>5 DEF IsTold, Record
    <2> HIDE DEF shown, hidden
    <2>3. RecordOK(hidden, cur) /\ Fits(r, hidden)
      BY <1>2, <1>5, <1>6, <1>7, <2>2 DEF RecordOK, Fits, FullAt
    <2>4. x = hidden
      BY <1>1, <1>9
    <2> HIDE DEF x
    <2> QED
      BY <1>3, <1>5, <2>1, <2>2, <2>3, <2>4 DEF x, Tells
  <1> QED
    BY <1>8, <1>9

LEMMA HandleMapRequestIs ==
  ASSUME NEW r \in Record, NEW cur \in Workspaces, RecordOK(r, cur)
  PROVE  LET x == V!HandleMapRequest(r, cur) IN
         /\ IsTold(x) /\ RecordOK(x, cur) /\ Fits(r, x) /\ x.managed
         /\ r.win = "mapped" => IF x.notices = <<>> THEN x.win = "mapped" ELSE Head(x.notices) = "unmap"
         /\ r.managed => Tells(r, x)
  <1>0. IsTold(r) /\ r.notices = <<>> /\ Fits(r, r) /\ Tells(r, r)
    BY RecordIsTold
  <1>1. CASE r.managed /\ r.place # cur
    BY <1>0, <1>1 DEF V!HandleMapRequest, Tells
  <1>2. CASE r.managed /\ r.place = cur
    <2>1. V!HandleMapRequest(r, cur) = V!MapClient(r)
      BY <1>2 DEF V!HandleMapRequest
    <2> DEFINE x == V!MapClient(r)
    <2>2. IsTold(x) /\ RecordOK(x, cur) /\ Fits(r, x) /\ Tells(r, x)
      BY <1>0, <1>2, MapClientIs
    <2> HIDE DEF x
    <2>3. x.managed
      BY <1>2, <2>2 DEF Fits
    <2> QED
      BY <2>1, <2>2, <2>3 DEF x, Tells
  <1>3. CASE ~r.managed
    <2> DEFINE y == V!StartManage(r, cur)
               x == V!MapClient(y)
    <2>1. V!HandleMapRequest(r, cur) = x
      BY <1>3 DEF V!HandleMapRequest
    <2>2. /\ IsTold(y) /\ RecordOK(y, cur) /\ y.managed /\ Fits(r, y)
          /\ r.win = "mapped" => IF y.notices = <<>> THEN y.win = "mapped" ELSE Head(y.notices) = "unmap"
      BY <1>3, StartManageIs
    <2> HIDE DEF y
    <2>3. /\ IsTold(x) /\ RecordOK(x, cur) /\ Fits(y, x)
          /\ y.notices = <<>> => Tells(y, x)
          /\ y.notices # <<>> => x.notices # <<>> /\ Head(x.notices) = Head(y.notices)
      BY <2>2, MapClientIs
    <2> HIDE DEF x
    <2>4. Fits(r, x) /\ x.managed
      BY <1>3, <2>2, <2>3 DEF Fits
    <2>5. r.win = "mapped" => IF x.notices = <<>> THEN x.win = "mapped" ELSE Head(x.notices) = "unmap"
      BY <2>2, <2>3 DEF Tells
    <2> QED
      BY <1>3, <2>1, <2>3, <2>4, <2>5
  <1> QED
    BY <1>1, <1>2, <1>3

(* What HandleUnmapNotify leaves of a client that stays managed.           *)
LEMMA UnmapNotedIs ==
  ASSUME NEW r \in Record, NEW cur, RecordOK(r, cur), r.managed, r.pending_unmap > 0
  PROVE  LET k == [V!HandleUnmapNotify([r EXCEPT !.map_after = FALSE]) EXCEPT
                     !.map_after = r.map_after, !.moved = FALSE] IN
         /\ k \in Record /\ RecordOK(k, cur) /\ Fits(r, k) /\ k.managed
         /\ k.win = r.win /\ k.state = "UNMAPPED"
  <1> DEFINE k == [V!HandleUnmapNotify([r EXCEPT !.map_after = FALSE]) EXCEPT
                     !.map_after = r.map_after, !.moved = FALSE]
             q == [r EXCEPT !.map_after = FALSE]
             u == IF r.future_stay THEN "stay" ELSE "can"
             n == r.pending_unmap - 1
             k2 == [r EXCEPT !.state = "UNMAPPED", !.mapped = FALSE, !.pending_unmap = n, !.ul = u, !.moved = FALSE]
  <1>1. r.workspace \in Workspaces /\ r.place = r.workspace /\ r.moved = FALSE /\ n \in Nat
    BY DEF RecordOK, Record
  <1>2. V!IntoUnmappedList(q) = u
    BY <1>1 DEF V!IntoUnmappedList, V!IsInPlace, Record
  <1>3. q.managed /\ q.pending_unmap = r.pending_unmap /\ q.pending_unmap # 0 /\ ~q.map_after
    BY DEF Record
  <1>4. V!HandleUnmapNotify(q) = [q EXCEPT !.state = "UNMAPPED", !.mapped = FALSE, !.pending_unmap = n, !.ul = u]
    BY <1>2, <1>3 DEF V!HandleUnmapNotify
  <1>5. k = k2
    BY <1>4 DEF Record
  <1>6. u \in {"none", "can", "stay"} /\ u # "none"
    OBVIOUS
  <1> HIDE DEF k, n, u
  <1>7. k2 \in Record
    BY <1>1, <1>6 DEF Record, V!States
  <1>8. /\ k2.state = "UNMAPPED" /\ k2.moved = FALSE /\ ~k2.mapped /\ k2.managed = r.managed
        /\ k2.workspace = r.workspace /\ k2.place = r.place /\ k2.ul = u /\ k2.full = r.full
        /\ k2.mini = r.mini /\ k2.next = r.next /\ k2.win = r.win
    BY DEF Record
  <1> HIDE DEF k2
  <1>9. RecordOK(k2, cur) /\ Fits(r, k2)
    BY <1>1, <1>6, <1>8 DEF RecordOK, Fits, FullAt
  <1> QED
    BY <1>5, <1>7, <1>8, <1>9 DEF k

-----------------------------------------------------------------------------
(* The first half of the inductive invariant: types, clients, fullscreen   *)
(* pointers and stacks.                                                    *)

Records(s) == \A c \in Clients : RecordOK(s.client[c], s.current)

FullOK(s) ==
  \A c \in Clients, w \in Workspaces : s.desk[w].full = c <=> FullAt(s.client[c], w)

Sound(s) == s \in State /\ Records(s) /\ FullOK(s) /\ Stacked(s)

LEMMA SoundRerouted ==
  ASSUME NEW s, NEW t, Sound(s), Rerouted(s, t)
  PROVE  Sound(t)
  <1>1. t \in State /\ t.current = s.current /\ t.client = s.client /\ t.desk = s.desk
    BY DEF Rerouted
  <1>2. PICK rank : Ranked(s, rank)
    BY DEF Sound, Stacked
  <1>3. Ranked(t, rank)
    BY <1>1, <1>2 DEF Ranked
  <1> QED
    BY <1>1, <1>3 DEF Sound, Records, FullOK, Stacked

LEMMA SoundRestacked ==
  ASSUME NEW s, NEW t, Sound(s), Restacked(s, t), Stacked(t)
  PROVE  Sound(t)
  <1>1. s \in State /\ t \in State /\ t.current = s.current
    BY DEF Sound, Restacked
  <1>2. ASSUME NEW c \in Clients
        PROVE  RecordOK(t.client[c], t.current)
               /\ \A w \in Workspaces : FullAt(t.client[c], w) <=> FullAt(s.client[c], w)
    <2> DEFINE r == s.client[c]
               n == t.client[c].next
               q == t.client[c]
    <2>1. r \in Record /\ q = [r EXCEPT !.next = n]
      BY <1>1 DEF State, Restacked
    <2>2. RecordOK(r, s.current)
      BY DEF Sound, Records
    <2> HIDE DEF r, n, q
    <2>3. /\ q.moved = r.moved /\ q.mapped = r.mapped /\ q.managed = r.managed /\ q.state = r.state
          /\ q.workspace = r.workspace /\ q.place = r.place /\ q.ul = r.ul /\ q.full = r.full /\ q.mini = r.mini
      BY <2>1 DEF Record
    <2>4. RecordOK(q, s.current) /\ \A w \in Workspaces : FullAt(q, w) <=> FullAt(r, w)
      BY <2>2, <2>3 DEF RecordOK, FullAt
    <2> QED
      BY <1>1, <2>4 DEF q, r
  <1>3. \A w \in Workspaces : t.desk[w].full = s.desk[w].full
    <2> SUFFICES ASSUME NEW w \in Workspaces PROVE t.desk[w].full = s.desk[w].full
      OBVIOUS
    <2>1. s.desk[w] \in Desk
      BY <1>1 DEF State
    <2>2. t.desk[w] = [s.desk[w] EXCEPT !.head = t.desk[w].head, !.n = t.desk[w].n]
      BY DEF Restacked
    <2>3. [s.desk[w] EXCEPT !.head = t.desk[w].head, !.n = t.desk[w].n].full = s.desk[w].full
      BY <2>1 DEF Desk
    <2> QED
      BY <2>2, <2>3
  <1>4. FullOK(t)
    BY <1>2, <1>3 DEF FullOK, Sound
  <1> QED
    BY <1>1, <1>2, <1>4 DEF Sound, Records

(* A client is replaced by one that fits.                                  *)
LEMMA SoundFits ==
  ASSUME NEW s, Sound(s), NEW c \in Clients, NEW t \in State,
         t.current = s.current, t.desk = s.desk,
         RecordOK(t.client[c], s.current), Fits(s.client[c], t.client[c]),
         \A x \in Clients : x # c => t.client[x] = s.client[x]
  PROVE  Sound(t)
  <1>1. Records(t)
    BY DEF Sound, Records
  <1>2. FullOK(t)
    <2>1. \A x \in Clients, w \in Workspaces : FullAt(t.client[x], w) <=> FullAt(s.client[x], w)
      BY DEF Fits
    <2> QED
      BY <2>1 DEF Sound, FullOK
  <1>3. PICK rank : Ranked(s, rank)
    BY DEF Sound, Stacked
  <1>4. /\ \A x \in Clients : t.client[x].next = s.client[x].next
        /\ \A x \in Clients : s.client[x].managed =>
             t.client[x].managed /\ t.client[x].workspace = s.client[x].workspace
    BY DEF Fits
  <1>5. \A x \in Clients : rank[x] > 0 =>
          t.client[x].managed /\ t.client[x].workspace = s.client[x].workspace
    BY <1>3, <1>4 DEF Ranked
  <1>6. Ranked(t, rank)
    <2>1. \A x \in Clients : rank[x] = 0 => t.client[x].next = None
      BY <1>3, <1>4 DEF Ranked
    <2>2. ASSUME NEW x \in Clients, rank[x] > 0
          PROVE  /\ t.client[x].managed /\ t.client[x].workspace \in Workspaces
                 /\ rank[x] <= t.desk[t.client[x].workspace].n
                 /\ rank[x] = 1 => t.client[x].next = None
                 /\ rank[x] > 1 => /\ t.client[x].next \in Clients
                                   /\ rank[t.client[x].next] = rank[x] - 1
                                   /\ t.client[t.client[x].next].workspace = t.client[x].workspace
      <3>1. /\ s.client[x].managed /\ s.client[x].workspace \in Workspaces
            /\ rank[x] <= s.desk[s.client[x].workspace].n
            /\ rank[x] = 1 => s.client[x].next = None
            /\ rank[x] > 1 => /\ s.client[x].next \in Clients
                              /\ rank[s.client[x].next] = rank[x] - 1
                              /\ s.client[s.client[x].next].workspace = s.client[x].workspace
        BY <1>3, <2>2 DEF Ranked
      <3>2. rank[x] \in Nat
        BY <1>3 DEF Ranked
      <3>3. rank[x] > 1 => rank[s.client[x].next] > 0
        BY <3>1, <3>2
      <3> QED
        BY <1>4, <1>5, <2>2, <3>1, <3>3
    <2>3. ASSUME NEW x \in Clients, NEW y \in Clients, rank[x] > 0, rank[y] = rank[x],
                 t.client[y].workspace = t.client[x].workspace
          PROVE  x = y
      BY <1>3, <1>5, <2>3 DEF Ranked
    <2>4. ASSUME NEW w \in Workspaces
          PROVE  /\ t.desk[w].n = 0 => t.desk[w].head = None
                 /\ t.desk[w].n > 0 => /\ t.desk[w].head \in Clients
                                       /\ rank[t.desk[w].head] = t.desk[w].n
                                       /\ t.client[t.desk[w].head].workspace = w
      BY <1>3, <1>5 DEF Ranked
    <2>5. rank \in [Clients -> Nat]
      BY <1>3 DEF Ranked
    <2> QED
      <3>1. \A x, y \in Clients : rank[x] > 0 /\ rank[y] = rank[x]
              /\ t.client[y].workspace = t.client[x].workspace => x = y
        BY <2>3
      <3> QED
        BY <2>1, <2>2, <2>4, <2>5, <3>1 DEF Ranked
  <1> QED
    BY <1>1, <1>2, <1>6 DEF Sound, Stacked

LEMMA SoundPut ==
  ASSUME NEW s, Sound(s), NEW c \in Clients, NEW r, IsTold(r),
         RecordOK(r, s.current), Fits(s.client[c], r)
  PROVE  Sound(Put(s, c, r))
  <1> DEFINE q == [r EXCEPT !.notices = <<>>]
             t == Put(s, c, r)
  <1>1. s \in State
    BY DEF Sound
  <1>2. /\ t \in State /\ t.current = s.current /\ t.desk = s.desk
        /\ t.client[c] = q /\ \A x \in Clients : x # c => t.client[x] = s.client[x]
    BY <1>1, PutIs
  <1>3. /\ q.moved = r.moved /\ q.mapped = r.mapped /\ q.managed = r.managed /\ q.state = r.state
        /\ q.workspace = r.workspace /\ q.place = r.place /\ q.ul = r.ul /\ q.full = r.full /\ q.mini = r.mini
        /\ q.next = r.next
    BY DEF IsTold, Record
  <1> HIDE DEF q
  <1>4. RecordOK(q, s.current) /\ Fits(s.client[c], q)
    BY <1>3 DEF RecordOK, Fits, FullAt
  <1> HIDE DEF t
  <1>5. Sound(t)
    BY <1>2, <1>4, SoundFits
  <1> QED
    BY <1>5 DEF t

LEMMA SoundSetClient ==
  ASSUME NEW s, Sound(s), NEW c \in Clients, NEW r \in Record,
         RecordOK(r, s.current), Fits(s.client[c], r)
  PROVE  Sound(SetClient(s, c, r))
  <1> DEFINE t == SetClient(s, c, r)
  <1>1. s \in State
    BY DEF Sound
  <1>2. /\ t \in State /\ t.current = s.current /\ t.desk = s.desk
        /\ t.client[c] = r /\ \A x \in Clients : x # c => t.client[x] = s.client[x]
    BY <1>1, SetClientIs
  <1> HIDE DEF t
  <1>3. Sound(t)
    BY <1>2, SoundFits
  <1> QED
    BY <1>3 DEF t

LEMMA SoundSetDesk ==
  ASSUME NEW s, Sound(s), NEW w \in Workspaces, NEW d \in Desk,
         d.full = s.desk[w].full, d.head = s.desk[w].head, d.n = s.desk[w].n
  PROVE  Sound(SetDesk(s, w, d))
  <1> DEFINE t == SetDesk(s, w, d)
  <1>1. s \in State
    BY DEF Sound
  <1>2. /\ t \in State /\ t.current = s.current /\ t.client = s.client
        /\ t.desk[w] = d /\ \A u \in Workspaces : u # w => t.desk[u] = s.desk[u]
    BY <1>1, SetDeskIs
  <1> HIDE DEF t
  <1>3. \A u \in Workspaces : t.desk[u].full = s.desk[u].full /\ t.desk[u].head = s.desk[u].head /\ t.desk[u].n = s.desk[u].n
    BY <1>2
  <1>4. FullOK(t)
    BY <1>2, <1>3 DEF Sound, FullOK
  <1>5. PICK rank : Ranked(s, rank)
    BY DEF Sound, Stacked
  <1>6. Ranked(t, rank)
    BY <1>2, <1>3, <1>5 DEF Ranked
  <1>7. Sound(t)
    BY <1>2, <1>4, <1>6 DEF Sound, Records, Stacked
  <1> QED
    BY <1>7 DEF t

-----------------------------------------------------------------------------
(* Passing the focus on.                                                   *)

LEMMA FirstMappedIs ==
  ASSUME NEW s \in State, NEW c \in Clients \cup {None}
  PROVE  FirstMapped(s, c) \in Clients \cup {None}
  <1> DEFINE stop(k) == \/ Behind(s, c, k) = None
                        \/ V!IsClientMapped(s.client[Behind(s, c, k)])
             last == CHOOSE k \in Depth : stop(k) /\ \A i \in 0..(k - 1) : ~stop(i)
  <1>1. CASE ~ \E k \in Depth : stop(k)
    BY <1>1 DEF FirstMapped
  <1>2. CASE \E k \in Depth : stop(k)
    <2>1. Cardinality(Clients) \in Nat
      BY FocusAssumption, FS_CardinalityType
    <2>2. Depth \subseteq Nat
      BY <2>1 DEF Depth
    <2> DEFINE B == {k \in Depth : stop(k)}
    <2>3. PICK k \in B : \A j \in B : k <= j
      <3>1. B \in SUBSET Nat /\ B # {}
        BY <1>2, <2>2
      <3> HIDE DEF B
      <3> QED
        BY <3>1, Clearing!LeastNatural
    <2>4. \A i \in 0..(k - 1) : i \in Depth /\ ~(k <= i)
      BY <2>1, <2>2 DEF Depth
    <2>5. k \in Depth /\ stop(k) /\ \A i \in 0..(k - 1) : ~stop(i)
      BY <2>3, <2>4
    <2>6. last \in Depth
      <3> HIDE DEF stop
      <3> QED
        BY <2>5
    <2>7. FirstMapped(s, c) = Behind(s, c, last)
      BY <1>2 DEF FirstMapped
    <2> HIDE DEF last
    <2> QED
      BY <2>2, <2>6, <2>7, BehindIs
  <1> QED
    BY <1>1, <1>2

LEMMA PickIs ==
  ASSUME NEW S \in SUBSET Clients, NEW first
  PROVE  Pick(S, first) \in Clients \cup {None}
  BY DEF Pick

LEMMA NextFocusIs ==
  ASSUME NEW s \in State, NEW m, NEW first
  PROVE  NextFocus(s, m, first) \in Clients \cup {None}
  <1> DEFINE inLine   == FirstMapped(s, s.desk[s.current].head)
             tiled    == IF Tiled(s, m) # {} THEN Tiled(s, m) ELSE Tiled(s, s.current)
             fallback == Pick(IF tiled # {} THEN tiled ELSE Minimized(s, m), first)
  <1>1. s.desk[s.current].head \in Clients \cup {None}
    BY DEF State, Desk
  <1>2. inLine \in Clients \cup {None}
    BY <1>1, FirstMappedIs
  <1>3. Tiled(s, m) \in SUBSET Clients /\ Tiled(s, s.current) \in SUBSET Clients /\ Minimized(s, m) \in SUBSET Clients
    BY DEF Tiled, Minimized
  <1>4. fallback \in Clients \cup {None}
    <2>1. tiled \in SUBSET Clients
      BY <1>3
    <2> HIDE DEF tiled
    <2> QED
      BY <1>3, <2>1, PickIs
  <1>5. FirstMapped(s, fallback) \in Clients \cup {None}
    <2> HIDE DEF fallback
    <2> QED
      BY <1>4, FirstMappedIs
  <1> HIDE DEF inLine, fallback
  <1>6. NextFocus(s, m, first) \in {None, inLine, FirstMapped(s, fallback)}
    BY DEF NextFocus, inLine, fallback
  <1> QED
    BY <1>2, <1>5, <1>6

LEMMA SoundTrack ==
  ASSUME NEW s, Sound(s), NEW w \in Workspaces, NEW c \in Clients \cup {None}
  PROVE  Sound(Track(s, w, c))
  <1> DEFINE d == [s.desk[w] EXCEPT !.tracked = c]
  <1>1. s.desk[w] \in Desk
    BY DEF Sound, State
  <1>2. d \in Desk /\ d.full = s.desk[w].full /\ d.head = s.desk[w].head /\ d.n = s.desk[w].n
    BY <1>1 DEF Desk
  <1>3. Track(s, w, c) = SetDesk(s, w, d)
    BY DEF Track
  <1> HIDE DEF d
  <1> QED
    BY <1>2, <1>3, SoundSetDesk

LEMMA SetFullscreenIs ==
  ASSUME NEW s \in State, NEW w \in Workspaces, NEW c \in Clients
  PROVE  LET t == SetFullscreen(s, w, c) IN
         /\ t \in State /\ t.current = s.current /\ t.input = s.input /\ t.queue = s.queue
         /\ \A x \in Clients : t.client[x] = [s.client[x] EXCEPT !.full = x = c \/ (s.client[x].full /\ x # s.desk[w].full)]
         /\ t.desk[w] = [s.desk[w] EXCEPT !.full = c]
         /\ \A u \in Workspaces : u # w => t.desk[u] = s.desk[u]
  <1> DEFINE full(x) == x = c \/ (s.client[x].full /\ x # s.desk[w].full)
             cs == [x \in Clients |-> [s.client[x] EXCEPT !.full = full(x)]]
             m == [s EXCEPT !.client = cs]
             d == [s.desk[w] EXCEPT !.full = c]
             t == SetFullscreen(s, w, c)
  <1>1. cs \in [Clients -> Record]
    <2>1. \A x \in Clients : s.client[x] \in Record
      BY DEF State
    <2>2. \A q \in Record : \A b \in BOOLEAN : [q EXCEPT !.full = b] \in Record
      BY DEF Record
    <2>3. \A x \in Clients : full(x) \in BOOLEAN
      BY <2>1 DEF Record
    <2> QED
      BY <2>1, <2>2, <2>3
  <1>2. d \in Desk
    BY DEF State, Desk
  <1>3. \A x \in Clients : cs[x] = [s.client[x] EXCEPT !.full = full(x)]
    OBVIOUS
  <1>4. t = SetDesk(m, w, d)
    BY DEF SetFullscreen
  <1> HIDE DEF cs, t, d
  <1>5. m \in State /\ m.current = s.current /\ m.input = s.input /\ m.queue = s.queue /\ m.client = cs /\ m.desk = s.desk
    BY <1>1 DEF State
  <1> HIDE DEF m
  <1>6. /\ t \in State /\ t.current = m.current /\ t.client = m.client /\ t.input = m.input /\ t.queue = m.queue
        /\ t.desk[w] = d /\ \A u \in Workspaces : u # w => t.desk[u] = m.desk[u]
    BY <1>2, <1>4, <1>5, SetDeskIs
  <1>7. \A x \in Clients : t.client[x] = [s.client[x] EXCEPT !.full = x = c \/ (s.client[x].full /\ x # s.desk[w].full)]
    BY <1>3, <1>5, <1>6
  <1> QED
    BY <1>5, <1>6, <1>7 DEF d, t

LEMMA StackedSame ==
  ASSUME NEW s, NEW t, Stacked(s),
         \A c \in Clients : /\ t.client[c].next = s.client[c].next
                            /\ t.client[c].managed = s.client[c].managed
                            /\ t.client[c].workspace = s.client[c].workspace,
         \A w \in Workspaces : t.desk[w].head = s.desk[w].head /\ t.desk[w].n = s.desk[w].n
  PROVE  Stacked(t)
  <1>1. PICK rank : Ranked(s, rank)
    BY DEF Stacked
  <1>2. Ranked(t, rank)
    BY <1>1 DEF Ranked
  <1> QED
    BY <1>2 DEF Stacked

LEMMA SoundSetFullscreen ==
  ASSUME NEW s, Sound(s), NEW w \in Workspaces, NEW c \in Clients,
         s.client[c].managed, s.client[c].place = w
  PROVE  Sound(SetFullscreen(s, w, c))
  <1> DEFINE t == SetFullscreen(s, w, c)
             full(x) == x = c \/ (s.client[x].full /\ x # s.desk[w].full)
  <1>1. s \in State
    BY DEF Sound
  <1>2. /\ t \in State /\ t.current = s.current
        /\ \A x \in Clients : t.client[x] = [s.client[x] EXCEPT !.full = full(x)]
        /\ t.desk[w] = [s.desk[w] EXCEPT !.full = c]
        /\ \A u \in Workspaces : u # w => t.desk[u] = s.desk[u]
    BY <1>1, SetFullscreenIs
  <1> HIDE DEF t
  <1>3. ASSUME NEW x \in Clients
        PROVE  LET r == s.client[x]
                   q == t.client[x] IN
               /\ q.moved = r.moved /\ q.mapped = r.mapped /\ q.managed = r.managed /\ q.state = r.state
               /\ q.workspace = r.workspace /\ q.place = r.place /\ q.ul = r.ul /\ q.mini = r.mini
               /\ q.next = r.next /\ q.full = full(x)
    <2>1. s.client[x] \in Record
      BY <1>1 DEF State
    <2> DEFINE r == s.client[x]
               q == t.client[x]
    <2>2. q = [r EXCEPT !.full = full(x)] /\ r \in Record
      BY <1>2, <2>1
    <2> HIDE DEF r, q, full
    <2>3. /\ q.moved = r.moved /\ q.mapped = r.mapped /\ q.managed = r.managed /\ q.state = r.state
          /\ q.workspace = r.workspace /\ q.place = r.place /\ q.ul = r.ul /\ q.mini = r.mini
          /\ q.next = r.next /\ q.full = full(x)
      BY <2>2 DEF Record
    <2> QED
      BY <2>3 DEF r, q
  <1>4. \A u \in Workspaces : /\ t.desk[u].head = s.desk[u].head /\ t.desk[u].n = s.desk[u].n
                              /\ t.desk[u].full = IF u = w THEN c ELSE s.desk[u].full
    <2>1. s.desk[w] \in Desk
      BY <1>1 DEF State
    <2>2. t.desk[w].head = s.desk[w].head /\ t.desk[w].n = s.desk[w].n /\ t.desk[w].full = c
      BY <1>2, <2>1 DEF Desk
    <2> QED
      BY <1>2, <2>2
  <1>5. Records(t)
    <2> SUFFICES ASSUME NEW x \in Clients PROVE RecordOK(t.client[x], s.current)
      BY <1>2 DEF Records
    <2>1. RecordOK(s.client[x], s.current)
      BY DEF Sound, Records
    <2> QED
      BY <1>3, <2>1 DEF RecordOK
  <1>6. FullOK(t)
    <2> SUFFICES ASSUME NEW x \in Clients, NEW u \in Workspaces
                 PROVE  t.desk[u].full = x <=> FullAt(t.client[x], u)
      BY DEF FullOK
    <2>1. \A y \in Clients, v \in Workspaces : s.desk[v].full = y <=> FullAt(s.client[y], v)
      BY DEF Sound, FullOK
    <2>2. CASE u = w
      <3>1. x # c /\ FullAt(s.client[x], w) => s.desk[w].full = x
        BY <2>1
      <3>2. t.client[x].managed = s.client[x].managed /\ t.client[x].place = s.client[x].place
            /\ t.client[x].full = (x = c \/ (s.client[x].full /\ x # s.desk[w].full))
        BY <1>3
      <3>3. t.desk[u].full = c
        BY <1>4, <2>2
      <3>4. CASE x = c
        BY <2>2, <3>2, <3>3, <3>4 DEF FullAt
      <3>5. CASE x # c
        BY <2>2, <3>1, <3>2, <3>3, <3>5 DEF FullAt
      <3> QED
        BY <3>4, <3>5
    <2>3. CASE u # w
      <3>1. t.desk[u].full = x <=> FullAt(s.client[x], u)
        BY <1>4, <2>1, <2>3
      <3>2. FullAt(s.client[x], u) => x # s.desk[w].full
        BY <2>1, <2>3 DEF FullAt
      <3>3. t.client[x].managed = s.client[x].managed /\ t.client[x].place = s.client[x].place
            /\ t.client[x].full = (x = c \/ (s.client[x].full /\ x # s.desk[w].full))
        BY <1>3
      <3>4. CASE x = c
        BY <2>3, <3>1, <3>3, <3>4 DEF FullAt
      <3>5. CASE x # c
        BY <2>3, <3>1, <3>2, <3>3, <3>5 DEF FullAt
      <3> QED
        BY <3>4, <3>5
    <2> QED
      BY <2>2, <2>3
  <1>7. Stacked(t)
    BY <1>3, <1>4, StackedSame DEF Sound
  <1> QED
    BY <1>2, <1>5, <1>6, <1>7 DEF Sound, t

LEMMA SoundArrange ==
  ASSUME NEW s, Sound(s)
  PROVE  Sound(Arrange(s)) /\ Rerouted(s, Arrange(s))
  <1>1. s \in State
    BY DEF Sound
  <1> QED
    BY <1>1, ArrangeIs, SoundRerouted

LEMMA SoundSetCurrentFocus ==
  ASSUME NEW s, Sound(s), NEW c \in Clients \cup {None}, NEW time
  PROVE  Sound(SetCurrentFocus(s, c, time)) /\ SetCurrentFocus(s, c, time).current = s.current
  <1> DEFINE cur == s.current
             full == s.desk[s.current].full
             handsOver == full # None /\ s.desk[s.current].tracked = full /\ s.client[c].place = s.current
             t == SetCurrentFocus(s, c, time)
  <1>1. s \in State /\ s.current \in Workspaces /\ None \notin Clients
    BY FocusAssumption DEF Sound, State
  <1>2. CASE c = None
    <2> DEFINE a == SetInput(s, None, time)
    <2>1. t = Track(a, s.current, None)
      BY <1>2 DEF SetCurrentFocus
    <2>2. Rerouted(s, a)
      BY <1>1, SetInputIs
    <2> HIDE DEF a
    <2>3. Sound(a) /\ a.current = s.current /\ a \in State
      BY <2>2, SoundRerouted DEF Rerouted
    <2>4. Sound(Track(a, s.current, None))
      BY <1>1, <2>3, SoundTrack
    <2>5. Track(a, s.current, None).current = a.current
      BY <2>3 DEF Track, SetDesk, State
    <2> QED
      BY <2>1, <2>3, <2>4, <2>5
  <1>3. CASE c # None /\ (s.client[c].workspace # s.current \/ ~V!IsClientMapped(s.client[c]))
    BY <1>3 DEF SetCurrentFocus
  <1>4. CASE c # None /\ ~(s.client[c].workspace # s.current \/ ~V!IsClientMapped(s.client[c]))
    <2> DEFINE a == SetFullscreen(s, s.current, c)
               b == Arrange(a)
               m == IF handsOver THEN b ELSE s
    <2>1. t = SetInput(m, c, time)
      BY <1>4 DEF SetCurrentFocus
    <2>2. c \in Clients /\ s.client[c].workspace = s.current
      BY <1>4
    <2>3. s.client[c].managed /\ s.client[c].place = s.current
      <3>1. RecordOK(s.client[c], s.current)
        BY <2>2 DEF Sound, Records
      <3> QED
        BY <1>1, <2>2, <3>1, FocusAssumption DEF RecordOK
    <2>4. Sound(a) /\ a.current = s.current
      BY <1>1, <2>2, <2>3, SoundSetFullscreen, SetFullscreenIs
    <2> HIDE DEF a
    <2>5. Sound(b) /\ b.current = s.current
      BY <2>4, SoundArrange DEF Rerouted
    <2> HIDE DEF b
    <2>6. Sound(m) /\ m.current = s.current /\ m \in State
      BY <1>1, <2>5 DEF Sound
    <2> HIDE DEF m, t
    <2>7. Rerouted(m, t)
      BY <2>1, <2>2, <2>6, SetInputIs
    <2>8. Sound(t) /\ t.current = s.current
      BY <2>6, <2>7, SoundRerouted DEF Rerouted
    <2> QED
      BY <2>8 DEF t
  <1> QED
    BY <1>2, <1>3, <1>4

LEMMA SoundArrangeJustify ==
  ASSUME NEW s, Sound(s), NEW first
  PROVE  Sound(ArrangeJustify(s, first)) /\ ArrangeJustify(s, first).current = s.current
  <1> DEFINE a == Arrange(s)
             n == NextFocus(s, s.current, first)
  <1>1. s \in State /\ Sound(a) /\ a.current = s.current
    BY SoundArrange DEF Sound, Rerouted
  <1>2. n \in Clients \cup {None}
    BY <1>1, NextFocusIs
  <1> HIDE DEF a, n
  <1>3. Sound(SetCurrentFocus(a, n, "current")) /\ SetCurrentFocus(a, n, "current").current = s.current
    BY <1>1, <1>2, SoundSetCurrentFocus
  <1> QED
    BY <1>1, <1>3 DEF ArrangeJustify, a, n

-----------------------------------------------------------------------------
(* end_manage: f is s without client c.                                    *)
Freed(s, f, c) ==
  /\ f.current = s.current /\ f.input = s.input /\ f.queue = s.queue
  /\ ~f.client[c].managed /\ f.client[c].win = s.client[c].win
  /\ \A x \in Clients : x # c =>
       f.client[x] = [s.client[x] EXCEPT !.next = f.client[x].next]
  /\ \A w \in Workspaces :
       /\ f.desk[w].tracked = IF w = s.current /\ s.desk[w].tracked = c THEN None ELSE s.desk[w].tracked
       /\ f.desk[w].before = s.desk[w].before \/ f.desk[w].before = None
       /\ w = s.client[c].workspace => f.desk[w].before # c

(* What is left of c: nothing but its window.                              *)
Anew(s, f, c) ==
  \E x \in Record : x = [s.client[c] EXCEPT !.next = x.next] /\ f.client[c] = Forgotten(V!Fresh(x))

LEMMA EndManageIs ==
  ASSUME NEW s, Sound(s), NEW c \in Clients, s.client[c].managed, NEW first
  PROVE  \E f, n : /\ Sound(f) /\ Freed(s, f, c) /\ Anew(s, f, c) /\ n \in Clients \cup {None}
                   /\ EndManage(s, c, first) = SetCurrentFocus(f, n, "current")
  <1> DEFINE r     == s.client[c]
             cur   == s.current
             held  == s.desk[cur].tracked = c
             list  == IF r.mini THEN Minimized(s, r.place) ELSE Tiled(s, r.place)
             next  == IF /\ held /\ c \in list /\ first # c
                         /\ r.mini \/ FocusEnd = "next"
                        THEN Pick(list \ {c}, first) ELSE None
             anew(w) == [s.desk[w] EXCEPT
                           !.tracked = IF w = cur /\ held THEN None ELSE @,
                           !.full = IF w = r.place /\ r.full THEN None ELSE @,
                           !.before = IF w = r.workspace /\ (\E u \in Workspaces : s.desk[u].before = c)
                                        THEN None ELSE @]
             desks == [w \in Workspaces |-> anew(w)]
             cleared == [s EXCEPT !.desk = desks]
             removed == FsRemove(cleared, r.workspace, c)
             gone == Forgotten(V!Fresh(removed.client[c]))
             freed == SetClient(removed, c, gone)
             n == IF next # None THEN next ELSE NextFocus(freed, r.place, first)
  <1>1. EndManage(s, c, first) = SetCurrentFocus(freed, n, "current")
    BY DEF EndManage
  <1>2. s \in State /\ s.current \in Workspaces /\ None \notin Clients /\ r \in Record
    BY FocusAssumption DEF Sound, State
  <1>3. RecordOK(r, cur) /\ r.workspace \in Workspaces /\ r.place = r.workspace
    BY DEF Sound, Records, RecordOK
  <1>4. next \in Clients \cup {None}
    <2>1. list \ {c} \in SUBSET Clients
      BY DEF Tiled, Minimized
    <2> HIDE DEF list
    <2> QED
      BY <2>1, PickIs
  <1> HIDE DEF next
  <1>5. ASSUME NEW w \in Workspaces
        PROVE  /\ anew(w) \in Desk /\ anew(w).head = s.desk[w].head /\ anew(w).n = s.desk[w].n
               /\ anew(w).tracked = IF w = cur /\ s.desk[w].tracked = c THEN None ELSE s.desk[w].tracked
               /\ anew(w).full = IF w = r.place /\ r.full THEN None ELSE s.desk[w].full
               /\ anew(w).before = s.desk[w].before \/ anew(w).before = None
               /\ w = r.workspace => anew(w).before # c
    <2>1. s.desk[w] \in Desk
      BY <1>2 DEF State
    <2> DEFINE a == IF w = cur /\ held THEN None ELSE s.desk[w].tracked
               f == IF w = r.place /\ r.full THEN None ELSE s.desk[w].full
               b == IF w = r.workspace /\ (\E u \in Workspaces : s.desk[u].before = c)
                      THEN None ELSE s.desk[w].before
    <2>2. a \in Clients \cup {None} /\ f \in Clients \cup {None} /\ b \in Clients \cup {None}
      BY <2>1 DEF Desk
    <2>3. a = IF w = cur /\ s.desk[w].tracked = c THEN None ELSE s.desk[w].tracked
      OBVIOUS
    <2>4. (b = s.desk[w].before \/ b = None) /\ (w = r.workspace => b # c)
      BY <1>2
    <2>5. anew(w) = [s.desk[w] EXCEPT !.tracked = a, !.full = f, !.before = b]
      OBVIOUS
    <2> DEFINE d == anew(w)
    <2>6. d = [s.desk[w] EXCEPT !.tracked = a, !.full = f, !.before = b]
      BY <2>5
    <2> HIDE DEF a, b, d
    <2>7. d \in Desk /\ d.tracked = a /\ d.before = b /\ d.full = f /\ d.head = s.desk[w].head /\ d.n = s.desk[w].n
      BY <2>1, <2>2, <2>6 DEF Desk
    <2> QED
      BY <2>3, <2>4, <2>7 DEF d
  <1>6. desks \in [Workspaces -> Desk] /\ \A w \in Workspaces : desks[w] = anew(w)
    BY <1>5
  <1> HIDE DEF anew, desks
  <1>7. /\ cleared \in State /\ cleared.current = cur /\ cleared.input = s.input
        /\ cleared.queue = s.queue /\ cleared.client = s.client /\ cleared.desk = desks
    BY <1>2, <1>6 DEF State
  <1> HIDE DEF cleared
  <1>8. Stacked(cleared)
    <2>1. Stacked(s)
      BY DEF Sound
    <2>2. \A w \in Workspaces : cleared.desk[w].head = s.desk[w].head /\ cleared.desk[w].n = s.desk[w].n
      BY <1>5, <1>6, <1>7
    <2> QED
      BY <1>7, <2>1, <2>2, StackedSame
  <1>9. PICK rank0 : Ranked(cleared, rank0)
    BY <1>8 DEF Stacked
  <1>10. Restacked(cleared, removed) /\ \E rank : Ranked(removed, rank) /\ rank[c] = 0
    BY <1>3, <1>7, <1>9, FsRemoveIs
  <1> HIDE DEF removed
  <1>11. PICK rank : Ranked(removed, rank) /\ rank[c] = 0
    BY <1>10
  <1>12. /\ removed \in State /\ removed.current = cur /\ removed.input = s.input /\ removed.queue = s.queue
         /\ \A x \in Clients : removed.client[x] = [s.client[x] EXCEPT !.next = removed.client[x].next]
    BY <1>7, <1>10 DEF Restacked
  <1>13. \A w \in Workspaces : /\ removed.desk[w].tracked = anew(w).tracked
                               /\ removed.desk[w].before = anew(w).before
                               /\ removed.desk[w].full = anew(w).full
    <2> SUFFICES ASSUME NEW w \in Workspaces
                 PROVE  /\ removed.desk[w].tracked = anew(w).tracked
                        /\ removed.desk[w].before = anew(w).before
                        /\ removed.desk[w].full = anew(w).full
      OBVIOUS
    <2> DEFINE d == removed.desk[w]
    <2>1. d = [anew(w) EXCEPT !.head = d.head, !.n = d.n]
      BY <1>6, <1>7, <1>10 DEF Restacked
    <2>2. anew(w) \in Desk
      BY <1>5
    <2> HIDE DEF d
    <2> QED
      BY <2>1, <2>2 DEF Desk, d
  <1>14. /\ gone \in Record /\ RecordOK(gone, cur) /\ ~gone.managed /\ gone.win = r.win /\ gone.next = None
    <2> DEFINE q == removed.client[c]
               y == V!Fresh(q)
    <2>1. q \in Record /\ q = [r EXCEPT !.next = q.next]
      BY <1>12 DEF State
    <2>2. q.win = r.win
      <3> HIDE DEF q, r
      <3> QED
        BY <1>2, <2>1 DEF Record
    <2> HIDE DEF q
    <2>3. y \in Record
      BY ZenonT(60), <2>1 DEF V!Fresh, Record, V!States
    <2>4. y.win = q.win /\ ~y.managed /\ ~y.mapped /\ y.state = "UNMAPPED" /\ y.workspace = NoWorkspace
          /\ y.place = NoWorkspace
      BY <2>1 DEF V!Fresh, Record
    <2>5. gone = [y EXCEPT !.mini = FALSE, !.full = FALSE, !.want = FALSE, !.moved = FALSE, !.next = None]
      BY DEF Forgotten, q
    <2> HIDE DEF y, gone
    <2>6. gone \in Record
      BY <2>3, <2>5 DEF Record
    <2>7. /\ gone.win = y.win /\ ~gone.managed /\ ~gone.mapped /\ gone.state = "UNMAPPED"
          /\ gone.workspace = NoWorkspace /\ gone.place = NoWorkspace /\ ~gone.full /\ ~gone.mini
          /\ gone.moved = FALSE /\ gone.next = None
      BY <2>3, <2>4, <2>5 DEF Record
    <2>8. RecordOK(gone, cur)
      BY <2>7 DEF RecordOK
    <2> QED
      BY <2>2, <2>4, <2>6, <2>7, <2>8
  <1> HIDE DEF gone
  <1>15. /\ freed \in State /\ freed.current = cur /\ freed.input = s.input /\ freed.queue = s.queue
         /\ freed.desk = removed.desk /\ freed.client[c] = gone
         /\ \A x \in Clients : x # c => freed.client[x] = removed.client[x]
    BY <1>12, <1>14, SetClientIs
  <1> HIDE DEF freed
  <1>16. \A x \in Clients : x # c => freed.client[x] = [s.client[x] EXCEPT !.next = freed.client[x].next]
    BY <1>12, <1>15
  <1>17. Records(freed)
    <2> SUFFICES ASSUME NEW x \in Clients, x # c PROVE RecordOK(freed.client[x], cur)
      BY <1>14, <1>15 DEF Records
    <2> DEFINE o == s.client[x]
               q == freed.client[x]
    <2>1. o \in Record /\ RecordOK(o, cur) /\ q = [o EXCEPT !.next = q.next]
      BY <1>2, <1>16 DEF State, Sound, Records
    <2> HIDE DEF o, q
    <2>2. /\ q.moved = o.moved /\ q.mapped = o.mapped /\ q.managed = o.managed /\ q.state = o.state
          /\ q.workspace = o.workspace /\ q.place = o.place /\ q.ul = o.ul /\ q.full = o.full /\ q.mini = o.mini
      BY <2>1 DEF Record
    <2>3. RecordOK(q, cur)
      BY <2>1, <2>2 DEF RecordOK
    <2> QED
      BY <2>3 DEF q
  <1>18. FullOK(freed)
    <2> SUFFICES ASSUME NEW x \in Clients, NEW w \in Workspaces
                 PROVE  freed.desk[w].full = x <=> FullAt(freed.client[x], w)
      BY DEF FullOK
    <2>1. \A y \in Clients : s.desk[w].full = y <=> FullAt(s.client[y], w)
      BY DEF Sound, FullOK
    <2>2. freed.desk[w].full = IF w = r.place /\ r.full THEN None ELSE s.desk[w].full
      BY <1>5, <1>13, <1>15
    <2>3. CASE x = c
      <3>1. freed.desk[w].full # c
        BY <1>2, <2>1, <2>2 DEF FullAt
      <3> QED
        BY <1>14, <1>15, <2>3, <3>1 DEF FullAt
    <2>4. CASE x # c
      <3> DEFINE o == s.client[x]
                 q == freed.client[x]
      <3>1. o \in Record /\ q = [o EXCEPT !.next = q.next]
        BY <1>2, <1>16, <2>4 DEF State
      <3> HIDE DEF o, q
      <3>2. q.managed = o.managed /\ q.full = o.full /\ q.place = o.place
        BY <3>1 DEF Record
      <3>3. w = r.place /\ r.full => s.desk[w].full = c
        BY <2>1 DEF FullAt
      <3>4. freed.desk[w].full = x <=> s.desk[w].full = x
        BY <1>2, <2>2, <2>4, <3>3
      <3> QED
        BY <2>1, <3>2, <3>4 DEF FullAt, o, q
    <2> QED
      BY <2>3, <2>4
  <1>19. Ranked(freed, rank)
    <2>1. rank \in [Clients -> Nat] /\ rank[c] = 0
      BY <1>11 DEF Ranked
    <2>2. \A x \in Clients : rank[x] = 0 => freed.client[x].next = None
      BY <1>11, <1>14, <1>15 DEF Ranked
    <2>3. ASSUME NEW x \in Clients, rank[x] > 0
          PROVE  /\ freed.client[x].managed /\ freed.client[x].workspace \in Workspaces
                 /\ rank[x] <= freed.desk[freed.client[x].workspace].n
                 /\ rank[x] = 1 => freed.client[x].next = None
                 /\ rank[x] > 1 => /\ freed.client[x].next \in Clients
                                   /\ rank[freed.client[x].next] = rank[x] - 1
                                   /\ freed.client[freed.client[x].next].workspace = freed.client[x].workspace
      <3>1. /\ removed.client[x].managed /\ removed.client[x].workspace \in Workspaces
            /\ rank[x] <= removed.desk[removed.client[x].workspace].n
            /\ rank[x] = 1 => removed.client[x].next = None
            /\ rank[x] > 1 => /\ removed.client[x].next \in Clients
                              /\ rank[removed.client[x].next] = rank[x] - 1
                              /\ removed.client[removed.client[x].next].workspace = removed.client[x].workspace
        BY <1>11, <2>3 DEF Ranked
      <3>2. x # c /\ rank[x] \in Nat
        BY <2>1, <2>3
      <3>3. rank[x] > 1 => removed.client[x].next # c
        BY <2>1, <3>1, <3>2
      <3> QED
        BY <1>15, <3>1, <3>2, <3>3
    <2>4. \A x, y \in Clients : rank[x] > 0 /\ rank[y] = rank[x]
            /\ freed.client[y].workspace = freed.client[x].workspace => x = y
      BY <1>11, <1>15, <2>1 DEF Ranked
    <2>5. ASSUME NEW w \in Workspaces
          PROVE  /\ freed.desk[w].n = 0 => freed.desk[w].head = None
                 /\ freed.desk[w].n > 0 => /\ freed.desk[w].head \in Clients
                                           /\ rank[freed.desk[w].head] = freed.desk[w].n
                                           /\ freed.client[freed.desk[w].head].workspace = w
      BY <1>11, <1>15, <2>1 DEF Ranked
    <2> QED
      BY <2>1, <2>2, <2>3, <2>4, <2>5 DEF Ranked
  <1>20. Sound(freed)
    BY <1>15, <1>17, <1>18, <1>19 DEF Sound, Stacked
  <1>21. Freed(s, freed, c)
    <2>1. \A w \in Workspaces :
            /\ freed.desk[w].tracked = IF w = s.current /\ s.desk[w].tracked = c THEN None ELSE s.desk[w].tracked
            /\ freed.desk[w].before = s.desk[w].before \/ freed.desk[w].before = None
            /\ w = s.client[c].workspace => freed.desk[w].before # c
      BY <1>5, <1>13, <1>15
    <2> QED
      BY <1>14, <1>15, <1>16, <2>1 DEF Freed
  <1>22. n \in Clients \cup {None}
    BY <1>4, <1>15, NextFocusIs
  <1>23. Anew(s, freed, c)
    <2>1. removed.client[c] \in Record
      BY <1>12 DEF State
    <2>2. removed.client[c] = [s.client[c] EXCEPT !.next = removed.client[c].next]
      BY <1>12
    <2>3. freed.client[c] = Forgotten(V!Fresh(removed.client[c]))
      BY <1>15 DEF gone
    <2> QED
      BY <2>1, <2>2, <2>3 DEF Anew
  <1> QED
    BY <1>1, <1>20, <1>21, <1>22, <1>23

LEMMA SoundEndManage ==
  ASSUME NEW s, Sound(s), NEW c \in Clients, s.client[c].managed, NEW first
  PROVE  Sound(EndManage(s, c, first)) /\ EndManage(s, c, first).current = s.current
  <1>1. PICK f, n : /\ Sound(f) /\ Freed(s, f, c) /\ n \in Clients \cup {None}
                    /\ EndManage(s, c, first) = SetCurrentFocus(f, n, "current")
    BY EndManageIs
  <1> QED
    BY <1>1, SoundSetCurrentFocus DEF Freed

-----------------------------------------------------------------------------
(* What asking for the focus leaves of every client.                       *)
Stays(s, t) ==
  /\ t.current = s.current
  /\ \A x \in Clients :
       /\ t.client[x].managed = s.client[x].managed
       /\ t.client[x].workspace = s.client[x].workspace
       /\ t.client[x].place = s.client[x].place
       /\ t.client[x].win = s.client[x].win
       /\ t.client[x].state = s.client[x].state
       /\ t.client[x].pending_unmap = s.client[x].pending_unmap

LEMMA StaysRerouted ==
  ASSUME NEW s, NEW t, Rerouted(s, t)
  PROVE  Stays(s, t)
  BY DEF Rerouted, Stays

LEMMA StaysRestacked ==
  ASSUME NEW s, s \in State, NEW t, Restacked(s, t)
  PROVE  Stays(s, t)
  <1> SUFFICES ASSUME NEW x \in Clients
               PROVE  /\ t.client[x].managed = s.client[x].managed
                      /\ t.client[x].workspace = s.client[x].workspace
                      /\ t.client[x].place = s.client[x].place
                      /\ t.client[x].win = s.client[x].win
                      /\ t.client[x].state = s.client[x].state
                      /\ t.client[x].pending_unmap = s.client[x].pending_unmap
    BY DEF Restacked, Stays
  <1> DEFINE o == s.client[x]
             q == t.client[x]
  <1>1. o \in Record /\ q = [o EXCEPT !.next = q.next]
    BY DEF State, Restacked
  <1> HIDE DEF o, q
  <1>2. /\ q.managed = o.managed /\ q.workspace = o.workspace /\ q.place = o.place
        /\ q.win = o.win /\ q.state = o.state /\ q.pending_unmap = o.pending_unmap
    BY <1>1 DEF Record
  <1> QED
    BY <1>2 DEF o, q

LEMMA StaysSetFullscreen ==
  ASSUME NEW s \in State, NEW w \in Workspaces, NEW c \in Clients
  PROVE  Stays(s, SetFullscreen(s, w, c))
  <1> DEFINE t == SetFullscreen(s, w, c)
             b(x) == x = c \/ (s.client[x].full /\ x # s.desk[w].full)
  <1>0. s \in State
    OBVIOUS
  <1>1. /\ t \in State /\ t.current = s.current
        /\ \A x \in Clients : t.client[x] = [s.client[x] EXCEPT !.full = b(x)]
        /\ t.desk[w] = [s.desk[w] EXCEPT !.full = c]
        /\ \A u \in Workspaces : u # w => t.desk[u] = s.desk[u]
    BY <1>0, SetFullscreenIs
  <1> HIDE DEF b, t
  <1>2. ASSUME NEW x \in Clients
        PROVE  /\ t.client[x].managed = s.client[x].managed
               /\ t.client[x].workspace = s.client[x].workspace
               /\ t.client[x].place = s.client[x].place
               /\ t.client[x].win = s.client[x].win
               /\ t.client[x].state = s.client[x].state
               /\ t.client[x].pending_unmap = s.client[x].pending_unmap
    <2> DEFINE o == s.client[x]
               q == t.client[x]
    <2>1. o \in Record /\ q = [o EXCEPT !.full = b(x)]
      BY <1>1 DEF State
    <2> HIDE DEF o, q
    <2>2. /\ q.managed = o.managed /\ q.workspace = o.workspace /\ q.place = o.place
          /\ q.win = o.win /\ q.state = o.state /\ q.pending_unmap = o.pending_unmap
      BY <2>1 DEF Record
    <2> QED
      BY <2>2 DEF o, q
  <1> QED
    BY <1>1, <1>2 DEF Stays, t

LEMMA StaysTwice ==
  ASSUME NEW s, NEW t, NEW u, Stays(s, t), Stays(t, u)
  PROVE  Stays(s, u)
  BY DEF Stays

LEMMA StaysSetCurrentFocus ==
  ASSUME NEW s \in State, NEW c \in Clients \cup {None}, NEW time
  PROVE  Stays(s, SetCurrentFocus(s, c, time)) /\ SetCurrentFocus(s, c, time) \in State
  <1> DEFINE full == s.desk[s.current].full
             handsOver == full # None /\ s.desk[s.current].tracked = full /\ s.client[c].place = s.current
             t == SetCurrentFocus(s, c, time)
  <1>1. s.current \in Workspaces /\ None \notin Clients
    BY FocusAssumption DEF State
  <1>2. CASE c = None
    <2> DEFINE a == SetInput(s, None, time)
               d == [a.desk[s.current] EXCEPT !.tracked = None]
    <2>1. t = SetDesk(a, s.current, d)
      BY <1>2 DEF SetCurrentFocus, Track
    <2>2. Rerouted(s, a)
      BY <1>1, SetInputIs
    <2> HIDE DEF a
    <2>3. d \in Desk /\ a \in State
      BY ZenonT(60), <1>1, <2>2 DEF Rerouted, State, Desk
    <2> HIDE DEF d, t
    <2>4. t \in State /\ t.current = a.current /\ t.client = a.client
      BY <1>1, <2>1, <2>3, SetDeskIs
    <2>5. Stays(s, t)
      BY <2>2, <2>4 DEF Rerouted, Stays
    <2> QED
      BY <2>4, <2>5 DEF t
  <1>3. CASE c # None /\ (s.client[c].workspace # s.current \/ ~V!IsClientMapped(s.client[c]))
    BY <1>3 DEF SetCurrentFocus, Stays
  <1>4. CASE c # None /\ ~(s.client[c].workspace # s.current \/ ~V!IsClientMapped(s.client[c]))
    <2> DEFINE a == SetFullscreen(s, s.current, c)
               b == Arrange(a)
               m == IF handsOver THEN b ELSE s
    <2>1. t = SetInput(m, c, time)
      BY <1>4 DEF SetCurrentFocus
    <2>2. c \in Clients
      BY <1>4
    <2>3. Stays(s, a) /\ a \in State
      BY <1>1, <2>2, StaysSetFullscreen, SetFullscreenIs
    <2> HIDE DEF a
    <2>4. Stays(a, b) /\ b \in State
      BY <2>3, ArrangeIs, StaysRerouted DEF Rerouted
    <2> HIDE DEF b
    <2>5. Stays(s, b)
      BY <2>3, <2>4, StaysTwice
    <2>6. Stays(s, m) /\ m \in State
      BY <2>4, <2>5 DEF Stays
    <2> HIDE DEF m, t
    <2>7. Stays(m, t) /\ t \in State
      BY <2>1, <2>2, <2>6, SetInputIs, StaysRerouted DEF Rerouted
    <2>8. Stays(s, t)
      BY <2>6, <2>7, StaysTwice
    <2> QED
      BY <2>7, <2>8 DEF t
  <1> QED
    BY <1>2, <1>3, <1>4

LEMMA StaysArrangeJustify ==
  ASSUME NEW s \in State, NEW first
  PROVE  Stays(s, ArrangeJustify(s, first)) /\ ArrangeJustify(s, first) \in State
  <1> DEFINE a == Arrange(s)
             n == NextFocus(s, s.current, first)
             t == SetCurrentFocus(a, n, "current")
  <1>1. Stays(s, a) /\ a \in State
    BY ArrangeIs, StaysRerouted DEF Rerouted
  <1>2. n \in Clients \cup {None}
    BY NextFocusIs
  <1> HIDE DEF a, n
  <1>3. Stays(a, t) /\ t \in State
    BY <1>1, <1>2, StaysSetCurrentFocus
  <1> HIDE DEF t
  <1>4. Stays(s, t)
    BY <1>1, <1>3, StaysTwice
  <1> QED
    BY <1>1, <1>3, <1>4 DEF ArrangeJustify, a, n, t

-----------------------------------------------------------------------------
(* The handlers of events.c.                                               *)

(* Only the count of mapped clients differs.                               *)
Counted(s, t) ==
  /\ t \in State /\ t.current = s.current /\ t.client = s.client
  /\ t.input = s.input /\ t.queue = s.queue
  /\ \A w \in Workspaces : /\ t.desk[w].tracked = s.desk[w].tracked
                           /\ t.desk[w].before = s.desk[w].before
                           /\ t.desk[w].full = s.desk[w].full

LEMMA SetCountIs ==
  ASSUME NEW s, Sound(s), NEW w \in Workspaces, NEW m \in Nat
  PROVE  LET t == SetDesk(s, w, [s.desk[w] EXCEPT !.nmapped = m]) IN
         Sound(t) /\ Counted(s, t)
  <1> DEFINE d == [s.desk[w] EXCEPT !.nmapped = m]
             t == SetDesk(s, w, d)
  <1>1. s \in State /\ s.desk[w] \in Desk
    BY DEF Sound, State
  <1>2. d \in Desk /\ d.full = s.desk[w].full /\ d.head = s.desk[w].head /\ d.n = s.desk[w].n
        /\ d.tracked = s.desk[w].tracked /\ d.before = s.desk[w].before
    BY <1>1 DEF Desk
  <1> HIDE DEF d
  <1>3. Sound(t)
    BY <1>2, SoundSetDesk
  <1>4. /\ t \in State /\ t.current = s.current /\ t.client = s.client
        /\ t.input = s.input /\ t.queue = s.queue
        /\ t.desk[w] = d /\ \A u \in Workspaces : u # w => t.desk[u] = s.desk[u]
    BY <1>1, <1>2, SetDeskIs
  <1> HIDE DEF t
  <1>5. Counted(s, t)
    BY <1>2, <1>4 DEF Counted
  <1> QED
    BY <1>3, <1>5 DEF t, d

LEMMA SoundCount ==
  ASSUME NEW s, Sound(s), NEW w \in Workspaces
  PROVE  /\ Sound(CountMapped(s, w)) /\ Counted(s, CountMapped(s, w))
         /\ Sound(CountUnmapped(s, w)) /\ Counted(s, CountUnmapped(s, w))
  <1> DEFINE n == s.desk[w].nmapped
             m == IF n = 0 THEN 0 ELSE n - 1
  <1>1. n \in Nat
    BY DEF Sound, State, Desk
  <1>2. m \in Nat /\ n + 1 \in Nat
    BY <1>1
  <1>3. CountMapped(s, w) = SetDesk(s, w, [s.desk[w] EXCEPT !.nmapped = n + 1])
    BY DEF CountMapped
  <1>4. CountUnmapped(s, w) = SetDesk(s, w, [s.desk[w] EXCEPT !.nmapped = m])
    BY DEF CountUnmapped
  <1> HIDE DEF m
  <1>5. Sound(CountMapped(s, w)) /\ Counted(s, CountMapped(s, w))
    BY <1>2, <1>3, SetCountIs
  <1>6. Sound(CountUnmapped(s, w)) /\ Counted(s, CountUnmapped(s, w))
    BY <1>2, <1>4, SetCountIs
  <1> QED
    BY <1>5, <1>6

LEMMA SoundHandleMapRequest ==
  ASSUME NEW s, Sound(s), NEW c \in Clients
  PROVE  Sound(HandleMapRequest(s, c))
  <1> DEFINE r     == s.client[c]
             new   == V!HandleMapRequest(r, s.current)
             wide  == CountMapped(s, new.workspace)
             count == IF ~r.managed /\ new.mapped THEN wide ELSE s
             x     == [new EXCEPT !.want = TRUE]
  <1>1. s \in State /\ s.current \in Workspaces /\ r \in Record /\ RecordOK(r, s.current)
    BY DEF Sound, State, Records
  <1>2. IsTold(new) /\ RecordOK(new, s.current) /\ Fits(r, new) /\ new.managed
    BY <1>1, HandleMapRequestIs
  <1> HIDE DEF new
  <1>3. new.workspace \in Workspaces
    BY <1>2 DEF RecordOK
  <1>4. Sound(wide) /\ wide.current = s.current /\ wide.client = s.client
    <2> DEFINE w == new.workspace
    <2>1. w \in Workspaces
      BY <1>3
    <2> HIDE DEF w
    <2>2. Sound(CountMapped(s, w)) /\ Counted(s, CountMapped(s, w))
      BY <2>1, SoundCount
    <2> QED
      BY <2>2 DEF Counted, w
  <1> HIDE DEF wide
  <1>5. Sound(count) /\ count.current = s.current /\ count.client = s.client
    BY <1>4
  <1> HIDE DEF count
  <1>6. IsTold(x) /\ RecordOK(x, s.current) /\ Fits(r, x)
    <2>1. [new EXCEPT !.notices = <<>>] \in Record /\ new.notices \in Seq(V!Notices)
      BY <1>2 DEF IsTold
    <2> DEFINE y == [new EXCEPT !.notices = <<>>]
    <2>2. /\ x.moved = new.moved /\ x.mapped = new.mapped /\ x.managed = new.managed /\ x.state = new.state
          /\ x.workspace = new.workspace /\ x.place = new.place /\ x.ul = new.ul /\ x.full = new.full
          /\ x.mini = new.mini /\ x.notices = new.notices /\ x.next = new.next
      BY <2>1 DEF Record
    <2>3. IsTold(x)
      <3>1. [x EXCEPT !.notices = <<>>] = [y EXCEPT !.want = TRUE]
        BY <2>1 DEF Record
      <3>2. [x EXCEPT !.notices = <<>>] \in Record
        BY <2>1, <3>1 DEF Record
      <3> QED
        BY <2>1, <2>2, <3>2 DEF IsTold
    <2> HIDE DEF x
    <2> QED
      BY <1>2, <2>2, <2>3 DEF RecordOK, Fits, FullAt
  <1> HIDE DEF x
  <1>7. Sound(Put(count, c, x))
    BY <1>5, <1>6, SoundPut
  <1> QED
    BY <1>7 DEF HandleMapRequest, x, count, new, wide

LEMMA SoundHandleUnmapNotify ==
  ASSUME NEW s, Sound(s), NEW c \in Clients, NEW first
  PROVE  Sound(HandleUnmapNotify(s, c, first))
  <1> DEFINE r       == s.client[c]
             counted == CountUnmapped(s, r.workspace)
             kept    == [V!HandleUnmapNotify([r EXCEPT !.map_after = FALSE]) EXCEPT
                           !.map_after = r.map_after, !.moved = FALSE]
             own     == SetClient(counted, c, kept)
             settled == IF r.workspace = s.current \/ r.moved THEN ArrangeJustify(own, first) ELSE own
             ended   == EndManage(counted, c, first)
             q       == settled.client[c]
             x       == [V!MapClient(q) EXCEPT !.map_after = FALSE]
  <1>1. s \in State /\ s.current \in Workspaces /\ r \in Record /\ RecordOK(r, s.current)
    BY DEF Sound, State, Records
  <1>2. CASE ~r.managed
    BY <1>2 DEF HandleUnmapNotify
  <1>3. CASE r.managed
    <2>1. r.workspace \in Workspaces
      BY <1>1, <1>3 DEF RecordOK
    <2>2. Sound(counted) /\ counted.current = s.current /\ counted.client = s.client
      <3> DEFINE w == r.workspace
      <3>1. w \in Workspaces
        BY <2>1
      <3> HIDE DEF w
      <3>2. Sound(CountUnmapped(s, w)) /\ Counted(s, CountUnmapped(s, w))
        BY <3>1, SoundCount
      <3> QED
        BY <3>2 DEF Counted, w
    <2> HIDE DEF counted
    <2>3. counted.client[c] = r
      BY <2>2
    <2>4. CASE r.pending_unmap = 0
      <3>1. Sound(ended)
        BY <1>3, <2>2, <2>3, SoundEndManage
      <3>2. HandleUnmapNotify(s, c, first) = IF r.workspace = s.current THEN Arrange(ended) ELSE ended
        BY <1>3, <2>4 DEF HandleUnmapNotify, counted
      <3> HIDE DEF ended
      <3> QED
        BY <3>1, <3>2, SoundArrange
    <2>5. CASE r.pending_unmap > 0
      <3>1. kept \in Record /\ RecordOK(kept, s.current) /\ Fits(r, kept) /\ kept.managed
        BY <1>1, <1>3, <2>5, UnmapNotedIs
      <3> HIDE DEF kept
      <3>2. Sound(own) /\ own.client[c] = kept
        BY <2>2, <2>3, <3>1, SoundSetClient, SetClientIs DEF Sound
      <3> HIDE DEF own
      <3>3. Sound(settled) /\ Stays(own, settled)
        <4>1. Sound(ArrangeJustify(own, first))
          BY <3>2, SoundArrangeJustify
        <4>2. Stays(own, ArrangeJustify(own, first))
          BY <3>2, StaysArrangeJustify DEF Sound
        <4>3. Stays(own, own)
          BY DEF Stays
        <4> QED
          BY <3>2, <4>1, <4>2, <4>3
      <3> HIDE DEF settled
      <3>4. q.managed /\ q \in Record /\ RecordOK(q, settled.current)
        BY <3>1, <3>2, <3>3 DEF Stays, Sound, State, Records
      <3>5. IsTold(x) /\ RecordOK(x, settled.current) /\ Fits(q, x)
        <4> DEFINE y == V!MapClient(q)
        <4>1. IsTold(y) /\ RecordOK(y, settled.current) /\ Fits(q, y)
          BY <3>4, RecordIsTold, MapClientIs
        <4> HIDE DEF y
        <4>2. x = [y EXCEPT !.map_after = FALSE]
          BY DEF y
        <4> HIDE DEF x
        <4>3. [y EXCEPT !.notices = <<>>] \in Record /\ y.notices \in Seq(V!Notices)
          BY <4>1 DEF IsTold
        <4>4. /\ x.moved = y.moved /\ x.mapped = y.mapped /\ x.managed = y.managed /\ x.state = y.state
              /\ x.workspace = y.workspace /\ x.place = y.place /\ x.ul = y.ul /\ x.full = y.full
              /\ x.mini = y.mini /\ x.notices = y.notices /\ x.next = y.next
          BY <4>2, <4>3 DEF Record
        <4> DEFINE z == [y EXCEPT !.notices = <<>>]
        <4>5. [x EXCEPT !.notices = <<>>] = [z EXCEPT !.map_after = FALSE]
          BY <4>2, <4>3 DEF Record
        <4>6. [x EXCEPT !.notices = <<>>] \in Record
          BY <4>3, <4>5 DEF Record
        <4> QED
          BY <4>1, <4>3, <4>4, <4>6 DEF IsTold, RecordOK, Fits, FullAt
      <3> HIDE DEF x
      <3>6. Sound(Put(settled, c, x))
        BY <3>3, <3>5, SoundPut
      <3>7. HandleUnmapNotify(s, c, first) = IF r.map_after THEN Put(settled, c, x) ELSE settled
        BY <1>3, <2>5 DEF HandleUnmapNotify, settled, own, kept, x, counted
      <3> QED
        BY <3>3, <3>6, <3>7
    <2> QED
      <3>1. r.pending_unmap \in Nat
        BY <1>1 DEF Record
      <3> QED
        BY <2>4, <2>5, <3>1
  <1> QED
    BY <1>2, <1>3

LEMMA SoundHandleMapNotify ==
  ASSUME NEW s, Sound(s), NEW c \in Clients, NEW first
  PROVE  Sound(HandleMapNotify(s, c, first))
  <1> DEFINE r    == s.client[c]
             cur  == s.current
             full == s.desk[cur].full
             counted == CountMapped(s, r.workspace)
             x == V!HandleMapNotify(r, cur, FALSE)
             shown == Put(counted, c, x)
             before == s.desk[cur].before
             f == IF full = None THEN c ELSE full
             asked == SetCurrentFocus(shown, f, "current")
             given == SetCurrentFocus(shown, c, "current")
             y == [asked.client[c] EXCEPT !.want = FALSE]
             wanted == SetClient(asked, c, y)
             d == [asked.desk[cur] EXCEPT !.before = IF @ = c THEN None ELSE @]
             cleared == SetDesk(wanted, cur, d)
             nf == NextFocus(shown, cur, first)
             res == HandleMapNotify(s, c, first)
  <1>1. /\ s \in State /\ cur \in Workspaces /\ r \in Record /\ RecordOK(r, cur) /\ None \notin Clients
        /\ full \in Clients \cup {None}
    BY FocusAssumption DEF Sound, State, Records, Desk
  <1>2. CASE ~r.managed
    BY <1>2 DEF HandleMapNotify
  <1>3. CASE r.managed
    <2>1. r.workspace \in Workspaces
      BY <1>1, <1>3 DEF RecordOK
    <2>2. Sound(counted) /\ counted.current = cur /\ counted.client = s.client
      <3> DEFINE w == r.workspace
      <3>1. w \in Workspaces
        BY <2>1
      <3> HIDE DEF w
      <3>2. Sound(CountMapped(s, w)) /\ Counted(s, CountMapped(s, w))
        BY <3>1, SoundCount
      <3> QED
        BY <3>2 DEF Counted, w
    <2>3. \/ res = shown
          \/ r.workspace = cur /\ res = Arrange(SetFullscreen(given, cur, c))
          \/ res = Arrange(cleared)
          \/ res = SetCurrentFocus(Arrange(shown), nf, "current")
          \/ res = Arrange(shown)
      BY <1>3 DEF HandleMapNotify
    <2> HIDE DEF counted
    <2>4. IsTold(x) /\ RecordOK(x, cur) /\ Fits(r, x)
      BY <1>1, <1>3, HandleMapNotifyIs
    <2> HIDE DEF x
    <2>5. Sound(shown) /\ shown \in State /\ shown.current = cur
      <3>1. Sound(shown)
        BY <2>2, <2>4, SoundPut
      <3>2. counted \in State
        BY <2>2 DEF Sound
      <3>4. IsTold(x)
        BY <2>4
      <3>5. /\ shown \in State
            /\ shown.current = counted.current /\ shown.desk = counted.desk
            /\ shown.client[c] = [x EXCEPT !.notices = <<>>]
            /\ \A u \in Clients : u # c => shown.client[u] = counted.client[u]
        BY <3>2, <3>4, PutIs
      <3>3. shown.current = cur
        BY <2>2, <3>5
      <3> QED
        BY <3>1, <3>3 DEF Sound
    <2>6. shown.client[c].managed /\ shown.client[c].workspace = r.workspace
      <3>1. shown.client[c] = [x EXCEPT !.notices = <<>>]
        BY <2>2, <2>4, PutIs DEF Sound
      <3>2. x.managed /\ x.workspace = r.workspace
        BY <1>3, <2>4 DEF Fits
      <3>3. [x EXCEPT !.notices = <<>>] \in Record
        BY <2>4 DEF IsTold
      <3> QED
        BY <3>1, <3>2, <3>3 DEF Record
    <2> HIDE DEF shown
    <2>7. /\ Sound(given) /\ given.current = cur /\ Stays(shown, given)
          /\ Sound(asked) /\ asked.current = cur /\ Stays(shown, asked)
      BY <1>1, <2>5, SoundSetCurrentFocus, StaysSetCurrentFocus
    <2> HIDE DEF given, asked
    <2>8. r.workspace = cur => Sound(Arrange(SetFullscreen(given, cur, c)))
      <3> SUFFICES ASSUME r.workspace = cur PROVE Sound(Arrange(SetFullscreen(given, cur, c)))
        OBVIOUS
      <3>1. given.client[c].managed /\ given.client[c].workspace = cur
        BY <2>6, <2>7 DEF Stays
      <3>2. RecordOK(given.client[c], cur)
        BY <2>7 DEF Sound, Records
      <3>3. given.client[c].place = cur
        BY <3>1, <3>2 DEF RecordOK
      <3>4. Sound(SetFullscreen(given, cur, c))
        BY <1>1, <2>7, <3>1, <3>3, SoundSetFullscreen
      <3> QED
        BY <3>4, SoundArrange
    <2>9. Sound(wanted) /\ wanted.current = cur /\ wanted.desk = asked.desk
      <3> DEFINE q == asked.client[c]
      <3>1. q \in Record /\ RecordOK(q, cur) /\ asked \in State
        BY <2>7 DEF Sound, State, Records
      <3>2. y = [q EXCEPT !.want = FALSE]
        OBVIOUS
      <3> HIDE DEF q, y
      <3>3. /\ y.moved = q.moved /\ y.mapped = q.mapped /\ y.managed = q.managed /\ y.state = q.state
            /\ y.workspace = q.workspace /\ y.place = q.place /\ y.ul = q.ul /\ y.full = q.full
            /\ y.mini = q.mini /\ y.next = q.next /\ y \in Record
        BY <3>1, <3>2 DEF Record
      <3>4. RecordOK(y, cur) /\ Fits(q, y)
        BY <3>1, <3>3 DEF RecordOK, Fits, FullAt
      <3> QED
        BY <2>7, <3>1, <3>3, <3>4, SoundSetClient, SetClientIs DEF q
    <2> HIDE DEF y, wanted
    <2>10. Sound(cleared)
      <3> DEFINE b == IF asked.desk[cur].before = c THEN None ELSE asked.desk[cur].before
      <3>1. asked.desk[cur] \in Desk
        BY <1>1, <2>7 DEF Sound, State
      <3>2. b \in Clients \cup {None}
        BY <3>1 DEF Desk
      <3>3. d = [asked.desk[cur] EXCEPT !.before = b]
        OBVIOUS
      <3> HIDE DEF b, d
      <3>4. /\ d \in Desk /\ d.full = asked.desk[cur].full /\ d.head = asked.desk[cur].head
            /\ d.n = asked.desk[cur].n
        BY <3>1, <3>2, <3>3 DEF Desk
      <3> QED
        BY <1>1, <2>9, <3>4, SoundSetDesk
    <2> HIDE DEF d, cleared
    <2>11. Sound(SetCurrentFocus(Arrange(shown), nf, "current"))
      <3>1. nf \in Clients \cup {None}
        BY <2>5, NextFocusIs
      <3> HIDE DEF nf
      <3> QED
        BY <2>5, <3>1, SoundArrange, SoundSetCurrentFocus
    <2> HIDE DEF nf, res
    <2>12. Sound(res)
      BY <2>3, <2>5, <2>8, <2>10, <2>11, SoundArrange
    <2> QED
      BY <2>12 DEF res
  <1> QED
    BY <1>2, <1>3

LEMMA SoundHandleDestroyNotify ==
  ASSUME NEW s, Sound(s), NEW c \in Clients, NEW first
  PROVE  Sound(HandleDestroyNotify(s, c, first))
  BY SoundEndManage, SoundArrange DEF HandleDestroyNotify

LEMMA SoundHandleFocusIn ==
  ASSUME NEW s, Sound(s), NEW c \in Clients
  PROVE  Sound(HandleFocusIn(s, c))
  <1> DEFINE r == s.client[c]
             p == FsPush(s, c)
  <1>1. s \in State /\ Stacked(s) /\ RecordOK(r, s.current)
    BY DEF Sound, Records
  <1>2. CASE ~(r.managed /\ V!IsClientMapped(r))
    BY <1>2 DEF HandleFocusIn
  <1>3. CASE r.managed /\ V!IsClientMapped(r)
    <2>1. r.workspace = s.current
      BY <1>1, <1>3 DEF RecordOK, V!IsClientMapped
    <2>2. Restacked(s, p) /\ Stacked(p)
      BY <1>1, <1>3, <2>1, FsPushIs
    <2> HIDE DEF p
    <2>3. Sound(p)
      BY <2>2, SoundRestacked
    <2>4. s.current \in Workspaces
      BY <1>1 DEF State
    <2>5. Sound(Track(p, s.current, c))
      BY <2>3, <2>4, SoundTrack
    <2>6. HandleFocusIn(s, c) = Track(p, s.current, c)
      BY <1>3, <2>1 DEF HandleFocusIn, p
    <2> QED
      BY <2>5, <2>6
  <1> QED
    BY <1>2, <1>3

LEMMA SoundHandleFocusOut ==
  ASSUME NEW s, Sound(s), NEW c \in Clients
  PROVE  Sound(HandleFocusOut(s, c))
  <1> DEFINE w == s.client[c].workspace
  <1>1. RecordOK(s.client[c], s.current)
    BY DEF Sound, Records
  <1>2. s.client[c].managed => w \in Workspaces
    BY <1>1 DEF RecordOK
  <1> HIDE DEF w
  <1>3. s.client[c].managed => Sound(Track(s, w, None))
    BY <1>2, SoundTrack
  <1> QED
    BY <1>3 DEF HandleFocusOut, w

LEMMA SoundHandleEnterNotify ==
  ASSUME NEW s, Sound(s), NEW c \in Clients, NEW time
  PROVE  Sound(HandleEnterNotify(s, c, time))
  BY SoundSetCurrentFocus DEF HandleEnterNotify

-----------------------------------------------------------------------------
(* The key actions.                                                        *)

LEMMA SoundActionUnmapWindow ==
  ASSUME NEW s, Sound(s)
  PROVE  Sound(ActionUnmapWindow(s))
  <1> DEFINE c == s.desk[s.current].tracked
             o == s.client[c]
             r == [o EXCEPT !.future_stay = TRUE]
             x == V!UnmapClient(r)
  <1>1. ActionUnmapWindow(s) = IF c = None THEN s ELSE Put(s, c, x)
    BY DEF ActionUnmapWindow
  <1>2. c \in Clients \cup {None}
    BY DEF Sound, State, Desk
  <1> HIDE DEF c
  <1>3. CASE c = None
    BY <1>1, <1>3
  <1>4. CASE c # None
    <2>1. o \in Record /\ RecordOK(o, s.current) /\ c \in Clients
      BY <1>2, <1>4 DEF Sound, State, Records
    <2> HIDE DEF o
    <2>2. /\ r.moved = o.moved /\ r.mapped = o.mapped /\ r.managed = o.managed /\ r.state = o.state
          /\ r.workspace = o.workspace /\ r.place = o.place /\ r.ul = o.ul /\ r.full = o.full
          /\ r.mini = o.mini /\ r.next = o.next /\ r \in Record
      BY <2>1 DEF Record
    <2> HIDE DEF r
    <2>3. RecordOK(r, s.current) /\ Fits(o, r)
      BY <2>1, <2>2 DEF RecordOK, Fits, FullAt
    <2>4. IsTold(x) /\ RecordOK(x, s.current) /\ Fits(r, x)
      BY <2>2, <2>3, UnmapClientIs
    <2> HIDE DEF x
    <2>5. Fits(o, x)
      BY <2>2, <2>3, <2>4 DEF Fits
    <2>6. Sound(Put(s, c, x))
      BY <2>1, <2>4, <2>5, SoundPut DEF o
    <2> QED
      BY <1>1, <1>4, <2>6
  <1> QED
    BY <1>3, <1>4

LEMMA SoundActionMapLatestUnmap ==
  ASSUME NEW s, Sound(s), NEW c \in Clients, s.client[c].managed, s.client[c].ul # "none"
  PROVE  Sound(ActionMapLatestUnmap(s, c))
  <1> DEFINE o == s.client[c]
             r == [o EXCEPT !.ul = "can", !.future_stay = FALSE]
             x == V!MapClient(r)
  <1>1. ActionMapLatestUnmap(s, c) = Put(s, c, x)
    BY DEF ActionMapLatestUnmap
  <1>2. o \in Record /\ RecordOK(o, s.current) /\ o.managed /\ o.ul # "none"
    BY DEF Sound, State, Records
  <1> HIDE DEF o
  <1>3. /\ r.moved = o.moved /\ r.mapped = o.mapped /\ r.managed = o.managed /\ r.state = o.state
        /\ r.workspace = o.workspace /\ r.place = o.place /\ r.ul = "can" /\ r.full = o.full
        /\ r.mini = o.mini /\ r.next = o.next /\ r \in Record
    BY <1>2 DEF Record
  <1> HIDE DEF r
  <1>4. RecordOK(r, s.current) /\ Fits(o, r)
    BY <1>2, <1>3 DEF RecordOK, Fits, FullAt
  <1>5. IsTold(x) /\ RecordOK(x, s.current) /\ Fits(r, x)
    BY <1>2, <1>3, <1>4, RecordIsTold, MapClientIs
  <1> HIDE DEF x
  <1>6. Fits(o, x)
    BY <1>3, <1>4, <1>5 DEF Fits
  <1>7. Sound(Put(s, c, x))
    BY <1>5, <1>6, SoundPut DEF o
  <1> QED
    BY <1>1, <1>7

LEMMA SoundSetMini ==
  ASSUME NEW s, Sound(s), NEW c \in Clients, s.client[c].managed, NEW b \in BOOLEAN
  PROVE  Sound(SetClient(s, c, [s.client[c] EXCEPT !.mini = b]))
  <1> DEFINE o == s.client[c]
             r == [o EXCEPT !.mini = b]
  <1>1. o \in Record /\ RecordOK(o, s.current) /\ o.managed
    BY DEF Sound, State, Records
  <1> HIDE DEF o
  <1>2. /\ r.moved = o.moved /\ r.mapped = o.mapped /\ r.managed = o.managed /\ r.state = o.state
        /\ r.workspace = o.workspace /\ r.place = o.place /\ r.ul = o.ul /\ r.full = o.full
        /\ r.next = o.next /\ r \in Record
    BY <1>1 DEF Record
  <1> HIDE DEF r
  <1>3. RecordOK(r, s.current) /\ Fits(o, r)
    BY <1>1, <1>2 DEF RecordOK, Fits, FullAt
  <1>4. Sound(SetClient(s, c, r))
    BY <1>2, <1>3, SoundSetClient DEF o
  <1> QED
    BY <1>4 DEF r, o

(* The pop that the minimized focus is taken out of the stack by.          *)
LEMMA SoundFsPop ==
  ASSUME NEW s, Sound(s)
  PROVE  /\ Sound(FsPop(s, s.current)) /\ Restacked(s, FsPop(s, s.current))
         /\ FsPop(s, s.current).current = s.current
  <1>1. s \in State /\ s.current \in Workspaces /\ Stacked(s)
    BY DEF Sound, State
  <1>2. PICK rank : Ranked(s, rank)
    BY <1>1 DEF Stacked
  <1>3. Restacked(s, FsPop(s, s.current)) /\ Stacked(FsPop(s, s.current))
    BY <1>1, <1>2, FsPopIs
  <1> QED
    BY <1>3, SoundRestacked DEF Restacked

LEMMA SoundActionMinimizeWindow ==
  ASSUME NEW s, Sound(s), NEW first, NEW time
  PROVE  Sound(ActionMinimizeWindow(s, first, time))
  <1> DEFINE cur   == s.current
             focus == s.desk[cur].tracked
             hid == SetClient(s, focus, [s.client[focus] EXCEPT !.mini = TRUE])
             mini  == IF focus = None THEN s ELSE hid
             arranged == Arrange(mini)
             popped == FsPop(arranged, cur)
             n == NextFocus(popped, cur, first)
             seen == SetClient(s, focus, [s.client[focus] EXCEPT !.mini = FALSE])
             res == ActionMinimizeWindow(s, first, time)
  <1>1. s \in State /\ cur \in Workspaces /\ focus \in Clients \cup {None} /\ None \notin Clients
    BY FocusAssumption DEF Sound, State, Desk
  <1>2. \/ res = s
        \/ (focus = None \/ s.client[focus].workspace = cur) /\ res = SetCurrentFocus(popped, n, time)
        \/ (focus # None /\ s.client[focus].workspace = cur) /\ res = ArrangeJustify(seen, first)
    BY DEF ActionMinimizeWindow
  <1> HIDE DEF focus
  <1>3. focus # None /\ s.client[focus].workspace = cur => Sound(seen) /\ Sound(hid) /\ hid.current = cur
    <2> SUFFICES ASSUME focus # None, s.client[focus].workspace = cur
                 PROVE  Sound(seen) /\ Sound(hid) /\ hid.current = cur
      OBVIOUS
    <2>1. focus \in Clients
      BY <1>1
    <2>2. RecordOK(s.client[focus], cur)
      BY <2>1 DEF Sound, Records
    <2>3. s.client[focus].managed
      BY <1>1, <2>2, FocusAssumption DEF RecordOK
    <2>4. Sound(seen) /\ Sound(hid)
      BY <2>1, <2>3, SoundSetMini
    <2>5. hid.current = cur
      BY <1>1 DEF SetClient, State
    <2> QED
      BY <2>4, <2>5
  <1> HIDE DEF seen, hid
  <1>4. focus = None \/ s.client[focus].workspace = cur => Sound(mini) /\ mini.current = cur
    BY <1>3
  <1> HIDE DEF mini
  <1>5. focus = None \/ s.client[focus].workspace = cur => Sound(arranged) /\ arranged.current = cur
    BY <1>4, SoundArrange DEF Rerouted
  <1> HIDE DEF arranged
  <1>6. focus = None \/ s.client[focus].workspace = cur => Sound(popped) /\ popped.current = cur
    BY <1>5, SoundFsPop
  <1> HIDE DEF popped
  <1>7. focus = None \/ s.client[focus].workspace = cur => Sound(SetCurrentFocus(popped, n, time))
    <2> SUFFICES ASSUME Sound(popped) PROVE Sound(SetCurrentFocus(popped, n, time))
      BY <1>6
    <2>1. n \in Clients \cup {None}
      BY NextFocusIs DEF Sound
    <2> HIDE DEF n
    <2> QED
      BY <2>1, SoundSetCurrentFocus
  <1> HIDE DEF n, res
  <1>8. Sound(res)
    BY <1>2, <1>3, <1>7, SoundArrangeJustify
  <1> QED
    BY <1>8 DEF res

LEMMA SoundActionMinimizeAll ==
  ASSUME NEW s, Sound(s)
  PROVE  Sound(ActionMinimizeAll(s))
  <1> DEFINE focus == s.desk[s.current].tracked
             here  == Tiled(s, s.client[focus].place)
             b(c)  == s.client[c].mini \/ c \in here
             rec(c) == [s.client[c] EXCEPT !.mini = b(c)]
             clients == [c \in Clients |-> rec(c)]
             t == [s EXCEPT !.client = clients]
  <1>1. s \in State
    BY DEF Sound
  <1>2. \A c \in here : s.client[c].managed
    BY DEF Tiled
  <1> HIDE DEF here
  <1>3. ASSUME NEW c \in Clients
        PROVE  rec(c) \in Record /\ RecordOK(rec(c), s.current) /\ Fits(s.client[c], rec(c))
    <2> DEFINE o == s.client[c]
               q == rec(c)
    <2>1. o \in Record /\ RecordOK(o, s.current) /\ (~o.managed => b(c) = FALSE)
      BY <1>1, <1>2 DEF Sound, State, Records, RecordOK, Record
    <2>2. b(c) \in BOOLEAN
      BY <1>1, <2>1 DEF Record
    <2>3. q = [o EXCEPT !.mini = b(c)]
      OBVIOUS
    <2> HIDE DEF o, b, q
    <2>4. /\ q.moved = o.moved /\ q.mapped = o.mapped /\ q.managed = o.managed /\ q.state = o.state
          /\ q.workspace = o.workspace /\ q.place = o.place /\ q.ul = o.ul /\ q.full = o.full
          /\ q.mini = b(c) /\ q.next = o.next /\ q \in Record
      BY <2>1, <2>2, <2>3 DEF Record
    <2>5. RecordOK(q, s.current) /\ Fits(o, q)
      BY <2>1, <2>4 DEF RecordOK, Fits, FullAt
    <2> QED
      BY <2>4, <2>5 DEF q, o, b
  <1> HIDE DEF rec
  <1>4. clients \in [Clients -> Record] /\ \A c \in Clients : clients[c] = rec(c)
    BY <1>3
  <1> HIDE DEF clients
  <1>5. t \in State /\ t.current = s.current /\ t.client = clients /\ t.desk = s.desk
    BY <1>1, <1>4 DEF State
  <1> HIDE DEF t
  <1>6. Records(t)
    BY <1>3, <1>4, <1>5 DEF Records
  <1>7. FullOK(t)
    <2> SUFFICES ASSUME NEW c \in Clients, NEW w \in Workspaces
                 PROVE  t.desk[w].full = c <=> FullAt(t.client[c], w)
      BY DEF FullOK
    <2>1. s.desk[w].full = c <=> FullAt(s.client[c], w)
      BY DEF Sound, FullOK
    <2>2. FullAt(s.client[c], w) <=> FullAt(rec(c), w)
      BY <1>3 DEF Fits
    <2> QED
      BY <1>4, <1>5, <2>1, <2>2
  <1>8. Stacked(t)
    <2>1. \A c \in Clients : /\ t.client[c].next = s.client[c].next
                             /\ t.client[c].managed = s.client[c].managed
                             /\ t.client[c].workspace = s.client[c].workspace
      <3> SUFFICES ASSUME NEW c \in Clients
                   PROVE  /\ t.client[c].next = s.client[c].next
                          /\ t.client[c].managed = s.client[c].managed
                          /\ t.client[c].workspace = s.client[c].workspace
        OBVIOUS
      <3> DEFINE o == s.client[c]
                 q == rec(c)
      <3>1. o \in Record /\ q = [o EXCEPT !.mini = b(c)] /\ t.client[c] = q
        BY <1>1, <1>4, <1>5 DEF State, rec
      <3> HIDE DEF o, q, b
      <3>2. q.next = o.next /\ q.managed = o.managed /\ q.workspace = o.workspace
        BY <3>1 DEF Record
      <3> QED
        BY <3>1, <3>2 DEF o
    <2>2. \A w \in Workspaces : t.desk[w].head = s.desk[w].head /\ t.desk[w].n = s.desk[w].n
      BY <1>5
    <2>3. Stacked(s)
      BY DEF Sound
    <2> QED
      BY <2>1, <2>2, <2>3, StackedSame
  <1>9. Sound(t)
    BY <1>5, <1>6, <1>7, <1>8 DEF Sound
  <1>10. ActionMinimizeAll(s) = IF focus = None THEN s ELSE Arrange(t)
    BY DEF ActionMinimizeAll, t, clients, rec, here
  <1> HIDE DEF focus, b
  <1> QED
    BY <1>9, <1>10, SoundArrange

LEMMA SoundActionToggleFullscreen ==
  ASSUME NEW s, Sound(s)
  PROVE  Sound(ActionToggleFullscreen(s))
  <1> DEFINE cur   == s.current
             focus == s.desk[cur].tracked
             o     == s.client[focus]
             on    == ~o.full
             r     == [o EXCEPT !.full = on]
             f     == IF on THEN focus ELSE None
             d     == [s.desk[cur] EXCEPT !.full = f]
             t     == SetDesk(SetClient(s, focus, r), cur, d)
  <1>1. s \in State /\ cur \in Workspaces /\ focus \in Clients \cup {None} /\ None \notin Clients
        /\ s.desk[cur] \in Desk
    BY FocusAssumption DEF Sound, State, Desk
  <1>2. CASE focus = None \/ o.workspace # cur \/ s.desk[cur].full \notin {None, focus}
    BY <1>2 DEF ActionToggleFullscreen
  <1>3. CASE ~(focus = None \/ o.workspace # cur \/ s.desk[cur].full \notin {None, focus})
    <2>0. ActionToggleFullscreen(s) = Arrange(t)
      BY <1>3 DEF ActionToggleFullscreen
    <2>1. focus \in Clients /\ o.workspace = cur /\ (s.desk[cur].full = None \/ s.desk[cur].full = focus)
      BY <1>1, <1>3
    <2> HIDE DEF focus
    <2>2. o \in Record /\ RecordOK(o, cur)
      BY <2>1, <1>1 DEF Sound, State, Records
    <2>3. o.managed /\ o.place = cur
      BY <1>1, <2>1, <2>2, FocusAssumption DEF RecordOK
    <2>4. \A x \in Clients, w \in Workspaces : s.desk[w].full = x <=> FullAt(s.client[x], w)
      BY DEF Sound, FullOK
    <2>5. r \in Record /\ r.full = ~o.full /\ r.moved = o.moved /\ r.mapped = o.mapped
          /\ r.managed = o.managed /\ r.state = o.state
          /\ r.workspace = o.workspace /\ r.place = o.place /\ r.ul = o.ul
          /\ r.mini = o.mini /\ r.next = o.next
      <3>1. o.full \in BOOLEAN /\ on = ~o.full /\ on \in BOOLEAN
        BY <2>2 DEF Record
      <3> HIDE DEF o, on
      <3>2. /\ r \in Record /\ r.full = on /\ r.moved = o.moved /\ r.mapped = o.mapped
            /\ r.managed = o.managed /\ r.state = o.state
            /\ r.workspace = o.workspace /\ r.place = o.place /\ r.ul = o.ul
            /\ r.mini = o.mini /\ r.next = o.next
        BY ZenonT(60), <2>2, <3>1 DEF Record
      <3> QED
        BY <3>1, <3>2
    <2> HIDE DEF r
    <2>6. f \in Clients \cup {None}
      BY <2>1
    <2>7. f = IF o.full THEN None ELSE focus
      OBVIOUS
    <2> HIDE DEF f
    <2>8. d \in Desk /\ d.full = f /\ d.head = s.desk[cur].head /\ d.n = s.desk[cur].n
      BY <1>1, <2>6 DEF Desk
    <2> HIDE DEF d
    <2>9. /\ t \in State
          /\ t.current = cur
          /\ t.client[focus] = r
          /\ \A x \in Clients : x # focus => t.client[x] = s.client[x]
          /\ t.desk[cur] = d
          /\ \A u \in Workspaces : u # cur => t.desk[u] = s.desk[u]
      BY <1>1, <2>1, <2>5, <2>8, SetBothIs
    <2> HIDE DEF t
    <2>10. RecordOK(r, cur)
      BY <2>2, <2>3, <2>5 DEF RecordOK
    <2>11. Records(t)
      BY <2>9, <2>10 DEF Sound, Records
    <2>12. FullOK(t)
      <3> SUFFICES ASSUME NEW x \in Clients, NEW w \in Workspaces
                   PROVE  t.desk[w].full = x <=> FullAt(t.client[x], w)
        BY DEF FullOK
      <3>1. CASE x = focus /\ w = cur
        <4>1. FullAt(r, cur) <=> ~o.full
          BY <2>3, <2>5 DEF FullAt
        <4>2. d.full = focus <=> ~o.full
          BY <1>1, <2>1, <2>7, <2>8
        <4> QED
          BY <2>9, <3>1, <4>1, <4>2
      <3>2. CASE x = focus /\ w # cur
        <4>1. ~FullAt(r, w)
          BY <2>3, <2>5, <3>2 DEF FullAt
        <4>2. ~FullAt(o, w)
          BY <2>3, <3>2 DEF FullAt
        <4>3. t.desk[w].full # focus
          BY <2>1, <2>4, <2>9, <3>2, <4>2
        <4> QED
          BY <2>9, <3>2, <4>1, <4>3
      <3>3. CASE x # focus /\ w = cur
        <4>1. d.full # x
          BY <1>1, <2>7, <2>8, <3>3
        <4>2. s.desk[cur].full # x
          BY <1>1, <2>1, <3>3
        <4>3. ~FullAt(s.client[x], cur)
          BY <1>1, <2>4, <4>2
        <4> QED
          BY <2>9, <3>3, <4>1, <4>3
      <3>4. CASE x # focus /\ w # cur
        BY <2>4, <2>9, <3>4
      <3> QED
        BY <3>1, <3>2, <3>3, <3>4
    <2>13. Stacked(t)
      <3>1. \A x \in Clients : /\ t.client[x].next = s.client[x].next
                               /\ t.client[x].managed = s.client[x].managed
                               /\ t.client[x].workspace = s.client[x].workspace
        BY <2>5, <2>9
      <3>2. \A w \in Workspaces : t.desk[w].head = s.desk[w].head /\ t.desk[w].n = s.desk[w].n
        BY <2>8, <2>9
      <3>3. Stacked(s)
        BY DEF Sound
      <3> QED
        BY <3>1, <3>2, <3>3, StackedSame
    <2>14. Sound(t)
      BY <2>9, <2>11, <2>12, <2>13 DEF Sound
    <2> QED
      BY <2>0, <2>14, SoundArrange
  <1> QED
    BY <1>2, <1>3

(* One window of the workspace that is left, and one of the one entered.   *)
LEMMA SoundUnmapOne ==
  ASSUME NEW s, Sound(s), NEW c \in Clients, s.client[c].managed
  PROVE  LET t == Put(s, c, V!Leave(s.client[c])) IN
         /\ Sound(t) /\ t \in State /\ t.current = s.current
         /\ t.client[c].state # "MAPPED"
         /\ t.client[c].managed
         /\ \A x \in Clients : x # c => t.client[x] = s.client[x]
  <1> DEFINE o == s.client[c]
             x == V!Leave(o)
             t == Put(s, c, x)
  <1>1. o \in Record /\ RecordOK(o, s.current) /\ o.managed /\ s \in State
    BY DEF Sound, State, Records
  <1>2. IsTold(x) /\ RecordOK(x, s.current) /\ Fits(o, x) /\ x.state # "MAPPED"
    BY <1>1, LeaveIs
  <1> HIDE DEF x
  <1>3. Sound(t)
    BY <1>2, SoundPut
  <1>4. /\ t \in State
        /\ t.current = s.current /\ t.desk = s.desk
        /\ t.client[c] = [x EXCEPT !.notices = <<>>]
        /\ \A y \in Clients : y # c => t.client[y] = s.client[y]
    BY <1>1, <1>2, PutIs
  <1> HIDE DEF t
  <1>5. t.client[c].state = x.state /\ t.client[c].managed = x.managed
    <2>1. [x EXCEPT !.notices = <<>>] \in Record
      BY <1>2 DEF IsTold
    <2> QED
      BY <1>4, <2>1 DEF Record
  <1>6. x.managed
    BY <1>1, <1>2 DEF Fits
  <1> QED
    BY <1>2, <1>3, <1>4, <1>5, <1>6 DEF t, x

LEMMA SoundMapOne ==
  ASSUME NEW s, Sound(s), NEW c \in Clients, s.client[c].managed
  PROVE  LET t == Put(s, c, V!Enter(s.client[c])) IN
         /\ Sound(t) /\ t \in State /\ t.current = s.current
         /\ t.client[c].state = "MAPPED" => s.client[c].state = "MAPPED"
         /\ \A x \in Clients : x # c => t.client[x] = s.client[x]
  <1> DEFINE o == s.client[c]
             x == V!Enter(o)
             t == Put(s, c, x)
  <1>1. o \in Record /\ RecordOK(o, s.current) /\ o.managed /\ s \in State
    BY DEF Sound, State, Records
  <1>2. IsTold(x) /\ RecordOK(x, s.current) /\ Fits(o, x) /\ (x.state = "MAPPED" => o.state = "MAPPED")
    BY <1>1, EnterIs
  <1> HIDE DEF x
  <1>3. Sound(t)
    BY <1>2, SoundPut
  <1>4. /\ t \in State
        /\ t.current = s.current /\ t.desk = s.desk
        /\ t.client[c] = [x EXCEPT !.notices = <<>>]
        /\ \A y \in Clients : y # c => t.client[y] = s.client[y]
    BY <1>1, <1>2, PutIs
  <1> HIDE DEF t
  <1>5. t.client[c].state = x.state
    <2>1. [x EXCEPT !.notices = <<>>] \in Record
      BY <1>2 DEF IsTold
    <2> QED
      BY <1>4, <2>1 DEF Record
  <1> QED
    BY <1>2, <1>3, <1>4, <1>5 DEF t, x

NoneMapped(s) == \A c \in Clients : s.client[c].state # "MAPPED"

(* A switch unmaps what is on the workspace it leaves, so that nothing is  *)
(* mapped when the current workspace changes.                              *)
LEMMA SoundUnmapWorkspace ==
  ASSUME NEW s, Sound(s), NEW D \in SUBSET Clients,
         D = {c \in Clients : s.client[c].managed /\ s.client[c].place = s.current}
  PROVE  LET t == UnmapWorkspace!Over(s.current, s, D) IN
         /\ Sound(t) /\ t.current = s.current /\ NoneMapped(t)
         /\ \A x \in Clients \ D : t.client[x] = s.client[x]
  <1> DEFINE cur == s.current
             Stage == [T \in SUBSET D |->
               {t \in State : /\ Sound(t) /\ t.current = cur
                              /\ \A x \in T : t.client[x].state # "MAPPED"
                              /\ \A x \in Clients \ T : t.client[x] = s.client[x]}]
             t == UnmapWorkspace!Over(cur, s, D)
  <1>1. UnmapWorkspace!IsFiniteSet(D)
    <2>1. IsFiniteSet(D)
      BY FocusAssumption, FS_Subset
    <2> QED
      BY <2>1 DEF IsFiniteSet, UnmapWorkspace!IsFiniteSet
  <1>2. s \in Stage[{}]
    BY DEF Sound
  <1>3. ASSUME NEW T \in SUBSET D, NEW x \in D \ T, NEW q \in Stage[T]
        PROVE  UnmapOne(cur, q, x) \in Stage[T \cup {x}]
    <2> DEFINE u == Put(q, x, V!Leave(q.client[x]))
    <2>1. /\ Sound(q) /\ q.current = cur /\ x \in Clients /\ q.client[x] = s.client[x]
          /\ \A y \in T : q.client[y].state # "MAPPED"
          /\ \A y \in Clients \ T : q.client[y] = s.client[y]
      BY <1>3
    <2>2. q.client[x].managed
      BY <2>1
    <2>3. /\ Sound(u) /\ u \in State /\ u.current = cur
          /\ u.client[x].state # "MAPPED"
          /\ \A y \in Clients : y # x => u.client[y] = q.client[y]
      BY <2>1, <2>2, SoundUnmapOne
    <2>4. UnmapOne(cur, q, x) = u
      BY DEF UnmapOne
    <2> HIDE DEF u
    <2>5. \A y \in T \cup {x} : u.client[y].state # "MAPPED"
      BY <2>1, <2>3
    <2>6. \A y \in Clients \ (T \cup {x}) : u.client[y] = s.client[y]
      BY <2>1, <2>3
    <2> QED
      BY <2>3, <2>4, <2>5, <2>6
  <1> HIDE DEF Stage
  <1>4. t \in Stage[D]
    BY <1>1, <1>2, <1>3, UnmapWorkspace!OverStages
  <1>5. /\ t \in State /\ Sound(t) /\ t.current = cur
        /\ \A x \in D : t.client[x].state # "MAPPED"
        /\ \A x \in Clients \ D : t.client[x] = s.client[x]
    BY <1>4 DEF Stage
  <1> HIDE DEF t
  <1>6. NoneMapped(t)
    <2> SUFFICES ASSUME NEW c \in Clients, t.client[c].state = "MAPPED" PROVE FALSE
      BY DEF NoneMapped
    <2>1. t.client[c] = s.client[c] /\ c \notin D
      BY <1>5
    <2>2. RecordOK(s.client[c], cur)
      BY DEF Sound, Records
    <2>3. s.client[c].managed /\ s.client[c].place = cur
      BY <2>1, <2>2 DEF RecordOK
    <2> QED
      BY <2>1, <2>3
  <1> QED
    BY <1>5, <1>6 DEF t

LEMMA SoundMapWorkspace ==
  ASSUME NEW s, Sound(s), NoneMapped(s), NEW w, NEW D \in SUBSET Clients,
         \A c \in D : s.client[c].managed
  PROVE  LET t == MapWorkspace!Over(w, s, D) IN
         Sound(t) /\ t.current = s.current /\ NoneMapped(t)
  <1> DEFINE cur == s.current
             Stage == [T \in SUBSET D |->
               {t \in State : /\ Sound(t) /\ t.current = cur /\ NoneMapped(t)
                              /\ \A x \in Clients \ T : t.client[x] = s.client[x]}]
             t == MapWorkspace!Over(w, s, D)
  <1>1. MapWorkspace!IsFiniteSet(D)
    <2>1. IsFiniteSet(D)
      BY FocusAssumption, FS_Subset
    <2> QED
      BY <2>1 DEF IsFiniteSet, MapWorkspace!IsFiniteSet
  <1>2. s \in Stage[{}]
    BY DEF Sound
  <1>3. ASSUME NEW T \in SUBSET D, NEW x \in D \ T, NEW q \in Stage[T]
        PROVE  MapOne(w, q, x) \in Stage[T \cup {x}]
    <2> DEFINE u == Put(q, x, V!Enter(q.client[x]))
    <2>1. /\ Sound(q) /\ q.current = cur /\ NoneMapped(q) /\ x \in Clients
          /\ q.client[x] = s.client[x]
          /\ \A y \in Clients \ T : q.client[y] = s.client[y]
      BY <1>3
    <2>2. q.client[x].managed
      BY <2>1
    <2>3. /\ Sound(u) /\ u \in State /\ u.current = cur
          /\ u.client[x].state = "MAPPED" => q.client[x].state = "MAPPED"
          /\ \A y \in Clients : y # x => u.client[y] = q.client[y]
      BY <2>1, <2>2, SoundMapOne
    <2>4. MapOne(w, q, x) = u
      BY DEF MapOne
    <2> HIDE DEF u
    <2>5. NoneMapped(u)
      BY <2>1, <2>3 DEF NoneMapped
    <2>6. \A y \in Clients \ (T \cup {x}) : u.client[y] = s.client[y]
      BY <2>1, <2>3
    <2> QED
      BY <2>3, <2>4, <2>5, <2>6
  <1> HIDE DEF Stage
  <1>4. t \in Stage[D]
    BY <1>1, <1>2, <1>3, MapWorkspace!OverStages
  <1>5. Sound(t) /\ t.current = cur /\ NoneMapped(t)
    BY <1>4 DEF Stage
  <1> QED
    BY <1>5

LEMMA SoundSetCurrent ==
  ASSUME NEW s, Sound(s), NoneMapped(s), NEW w \in Workspaces
  PROVE  Sound([s EXCEPT !.current = w])
  <1> DEFINE t == [s EXCEPT !.current = w]
  <1>1. s \in State
    BY DEF Sound
  <1>2. t \in State /\ t.current = w /\ t.client = s.client /\ t.desk = s.desk
    BY <1>1 DEF State
  <1> HIDE DEF t
  <1>3. Records(t)
    <2> SUFFICES ASSUME NEW c \in Clients PROVE RecordOK(t.client[c], w)
      BY <1>2 DEF Records
    <2>1. RecordOK(s.client[c], s.current) /\ s.client[c].state # "MAPPED"
      BY DEF Sound, Records, NoneMapped
    <2> QED
      BY <1>2, <2>1 DEF RecordOK
  <1>4. FullOK(t)
    BY <1>2 DEF FullOK, Sound
  <1>5. Stacked(t)
    <2>1. Stacked(s)
      BY DEF Sound
    <2> QED
      BY <1>2, <2>1, StackedSame
  <1>6. Sound(t)
    BY <1>2, <1>3, <1>4, <1>5 DEF Sound
  <1> QED
    BY <1>6 DEF t

LEMMA SoundActionSwitchWorkspace ==
  ASSUME NEW s, Sound(s), NEW w \in Workspaces, w # s.current, NEW first
  PROVE  Sound(ActionSwitchWorkspace(s, w, first))
  <1> DEFINE cur == s.current
             focus == s.desk[cur].tracked
             m     == MonitorAt(s, cur, focus)
             gone  == focus # None /\ s.client[focus].workspace # cur
             p == IF m = NoWorkspace THEN s ELSE FsPop(s, cur)
             asked == SetCurrentFocus(p, NextFocus(p, m, first), "current")
             left  == IF ~gone THEN s ELSE asked
             d == [left.desk[cur] EXCEPT !.before = left.desk[cur].tracked]
             kept  == SetDesk(left, cur, d)
             At(u) == {c \in Clients : s.client[c].managed /\ s.client[c].place = u}
             away  == UnmapWorkspace!Over(cur, kept, At(cur))
             back  == MapWorkspace!Over(w, away, At(w))
  <1>1. ActionSwitchWorkspace(s, w, first) = ArrangeJustify([back EXCEPT !.current = w], first)
    BY DEF ActionSwitchWorkspace
  <1>2. s \in State /\ cur \in Workspaces
    BY DEF Sound, State
  <1>3. Sound(p) /\ Stays(s, p)
    <2>1. Sound(FsPop(s, cur)) /\ Restacked(s, FsPop(s, cur))
      BY SoundFsPop
    <2>2. Stays(s, FsPop(s, cur))
      BY <1>2, <2>1, StaysRestacked
    <2>3. Stays(s, s)
      BY DEF Stays
    <2> QED
      BY <2>1, <2>2, <2>3
  <1> HIDE DEF p
  <1>4. Sound(asked) /\ Stays(s, asked)
    <2> DEFINE n == NextFocus(p, m, first)
    <2>1. n \in Clients \cup {None} /\ p \in State
      BY <1>3, NextFocusIs DEF Sound
    <2> HIDE DEF n
    <2>2. Sound(SetCurrentFocus(p, n, "current")) /\ Stays(p, SetCurrentFocus(p, n, "current"))
      BY <1>3, <2>1, SoundSetCurrentFocus, StaysSetCurrentFocus
    <2>3. Stays(s, SetCurrentFocus(p, n, "current"))
      BY <1>3, <2>2, StaysTwice
    <2> QED
      BY <2>2, <2>3 DEF n
  <1> HIDE DEF asked
  <1>5. Sound(left) /\ Stays(s, left)
    <2>1. Stays(s, s)
      BY DEF Stays
    <2> QED
      BY <1>4, <2>1
  <1> HIDE DEF left
  <1>6. Sound(kept) /\ Stays(s, kept)
    <2>1. left \in State /\ left.desk[cur] \in Desk
      BY <1>2, <1>5 DEF Sound, State
    <2>2. d \in Desk /\ d.full = left.desk[cur].full /\ d.head = left.desk[cur].head /\ d.n = left.desk[cur].n
      BY <2>1 DEF Desk
    <2> HIDE DEF d
    <2>3. Sound(kept)
      BY <1>2, <1>5, <2>2, SoundSetDesk
    <2>4. kept.current = left.current /\ kept.client = left.client
      BY <1>2, <2>1, <2>2, SetDeskIs
    <2> HIDE DEF kept
    <2> QED
      BY <1>5, <2>3, <2>4 DEF Stays
  <1> HIDE DEF kept
  <1>7. At(cur) = {c \in Clients : kept.client[c].managed /\ kept.client[c].place = kept.current}
    BY <1>6 DEF Stays
  <1>8. \A c \in At(w) : c \in Clients \ At(cur) /\ kept.client[c].managed
    BY <1>6 DEF Stays
  <1>9. At(cur) \in SUBSET Clients /\ At(w) \in SUBSET Clients
    OBVIOUS
  <1> HIDE DEF At
  <1>10. /\ Sound(away) /\ away.current = cur /\ NoneMapped(away)
         /\ \A x \in Clients \ At(cur) : away.client[x] = kept.client[x]
    <2>1. kept.current = cur
      BY <1>6 DEF Stays
    <2> DEFINE D == At(cur)
               a == UnmapWorkspace!Over(kept.current, kept, D)
    <2>2. D \in SUBSET Clients /\ D = {c \in Clients : kept.client[c].managed /\ kept.client[c].place = kept.current}
      BY <1>7, <1>9
    <2> HIDE DEF D
    <2>3. /\ Sound(a) /\ a.current = kept.current /\ NoneMapped(a)
          /\ \A x \in Clients \ D : a.client[x] = kept.client[x]
      BY <1>6, <2>2, SoundUnmapWorkspace
    <2>4. away = a
      BY <2>1 DEF D
    <2> HIDE DEF a, away
    <2> QED
      BY <2>1, <2>3, <2>4 DEF D
  <1> HIDE DEF away
  <1>11. \A c \in At(w) : away.client[c].managed
    BY <1>8, <1>10
  <1>12. Sound(back) /\ NoneMapped(back)
    BY <1>9, <1>10, <1>11, SoundMapWorkspace
  <1> HIDE DEF back
  <1>13. Sound([back EXCEPT !.current = w])
    BY <1>12, SoundSetCurrent
  <1> QED
    BY <1>1, <1>13, SoundArrangeJustify

-----------------------------------------------------------------------------
(* The steps.                                                              *)

LEMMA BecomeIs ==
  ASSUME NEW s, Become(s), s \in State
  PROVE  Now' = s
  BY DEF Become, Now, State

LEMMA StepSound ==
  ASSUME NEW s, Sound(s), Become(s)
  PROVE  Sound(Now')
  BY BecomeIs DEF Sound

(* What is left when the next event has been taken out of the queue.       *)
LEMMA RestIs ==
  ASSUME Sound(Now), queue # <<>>
  PROVE  /\ Sound(Rest) /\ Rest.client = client /\ Rest.desk = desk /\ Rest.current = current
         /\ Rest.input = input /\ Rest.queue = Tail(queue)
         /\ Head(queue) \in Events
         /\ Head(queue).what # "key" => Of \in Clients
  <1> DEFINE t == Rest
  <1>1. Now \in State /\ Now.client = client /\ Now.desk = desk /\ Now.current = current
        /\ Now.input = input /\ Now.queue = queue
    BY DEF Sound, Now
  <1>2. queue \in Seq(Events)
    BY <1>1 DEF State
  <1>3. Tail(queue) \in Seq(Events) /\ Head(queue) \in Events
    BY <1>2
  <1>4. t \in State /\ t.client = client /\ t.desk = desk /\ t.current = current
        /\ t.input = input /\ t.queue = Tail(queue)
    BY <1>1, <1>3 DEF Rest, State
  <1> HIDE DEF t
  <1>5. Rerouted(Now, t)
    BY <1>1, <1>4 DEF Rerouted
  <1>6. Sound(t)
    BY <1>5, SoundRerouted
  <1>7. Head(queue).what # "key" => Of \in Clients
    BY <1>3 DEF Events, Of
  <1> QED
    BY <1>3, <1>4, <1>6, <1>7 DEF t

LEMMA ClientActsSound ==
  ASSUME Sound(Now), NEW c \in Clients, ClientMap(c) \/ ClientWithdraw(c) \/ ClientDestroy(c)
  PROVE  Sound(Now')
  <1> DEFINE o == client[c]
             x == V!XUnmapWindow(o)
             a == [o EXCEPT !.notices = <<"request">>]
             b == [x EXCEPT !.notices = Append(@, "synthetic")]
             d == [x EXCEPT !.notices = Append(@, "destroy"), !.win = "gone"]
  <1>1. Now.client = client /\ Now.current = current /\ Now \in State
    BY DEF Now, Sound
  <1>2. o \in Record /\ RecordOK(o, current)
    BY <1>1 DEF Sound, State, Records
  <1>3. PICK r \in {a, b, d} : Become(Put(Now, c, r))
    BY DEF ClientMap, ClientWithdraw, ClientDestroy, ClientActs
  <1> HIDE DEF o
  <1>4. IsTold(x) /\ RecordOK(x, current) /\ Fits(o, x)
    BY <1>2, XUnmapWindowIs
  <1>5. [x EXCEPT !.notices = <<>>] \in Record /\ x.notices \in Seq(V!Notices)
    BY <1>4 DEF IsTold
  <1> HIDE DEF x
  <1>6. ASSUME NEW q \in {a, b, d}
        PROVE  IsTold(q) /\ RecordOK(q, current) /\ Fits(o, q)
    <2>1. CASE q = a
      <3>1. [q EXCEPT !.notices = <<>>] \in Record /\ q.notices \in Seq(V!Notices)
        <4>1. [q EXCEPT !.notices = <<>>] = [o EXCEPT !.notices = <<>>]
          BY <1>2, <2>1 DEF Record
        <4>2. [o EXCEPT !.notices = <<>>] \in Record
          BY <1>2 DEF Record
        <4>3. q.notices = <<"request">>
          BY <1>2, <2>1 DEF Record
        <4>4. "request" \in V!Notices
          BY DEF V!Notices
        <4> QED
          BY <4>1, <4>2, <4>3, <4>4
      <3>2. /\ q.moved = o.moved /\ q.mapped = o.mapped /\ q.managed = o.managed /\ q.state = o.state
            /\ q.workspace = o.workspace /\ q.place = o.place /\ q.ul = o.ul /\ q.full = o.full
            /\ q.next = o.next /\ q.mini = o.mini
        BY <1>2, <2>1 DEF Record
      <3> HIDE DEF a, b, d
      <3> QED
        BY <1>2, <3>1, <3>2 DEF IsTold, RecordOK, Fits, FullAt
    <2>2. CASE q = b \/ q = d
      <3>1. /\ q.moved = x.moved /\ q.mapped = x.mapped /\ q.managed = x.managed /\ q.state = x.state
            /\ q.workspace = x.workspace /\ q.place = x.place /\ q.ul = x.ul /\ q.full = x.full
            /\ q.next = x.next /\ q.mini = x.mini
        BY ZenonT(60), <1>5, <2>2 DEF Record
      <3>2. [q EXCEPT !.notices = <<>>] \in Record
        <4> DEFINE y == [x EXCEPT !.notices = <<>>]
        <4>1. CASE q = b
          <5>1. [q EXCEPT !.notices = <<>>] = y
            BY <1>5, <4>1 DEF Record
          <5> QED
            BY <1>5, <5>1
        <4>2. CASE q = d
          <5>1. [q EXCEPT !.notices = <<>>] = [y EXCEPT !.win = "gone"]
            BY ZenonT(60), <1>5, <4>2 DEF Record
          <5>2. y \in Record
            BY <1>5
          <5> HIDE DEF y
          <5>3. [y EXCEPT !.win = "gone"] \in Record
            BY <5>2 DEF Record
          <5> QED
            BY <5>1, <5>3
        <4> QED
          BY <2>2, <4>1, <4>2
      <3>3. q.notices \in Seq(V!Notices)
        <4>1. q.notices = Append(x.notices, "synthetic") \/ q.notices = Append(x.notices, "destroy")
          BY <1>5, <2>2 DEF Record
        <4>2. "synthetic" \in V!Notices /\ "destroy" \in V!Notices
          BY DEF V!Notices
        <4> QED
          BY SMTT(60), <1>5, <4>1, <4>2
      <3> HIDE DEF a, b, d
      <3> QED
        BY <1>4, <3>1, <3>2, <3>3 DEF IsTold, RecordOK, Fits, FullAt
    <2> QED
      BY <2>1, <2>2
  <1>7. IsTold(r) /\ RecordOK(r, current) /\ Fits(o, r)
    BY <1>3, <1>6
  <1> HIDE DEF a, b, d
  <1>8. Sound(Put(Now, c, r))
    BY <1>1, <1>7, SoundPut DEF o
  <1> QED
    BY <1>3, <1>8, StepSound

LEMMA UserEventSound ==
  ASSUME Sound(Now), PressKey \/ \E c \in Clients : PointerEnters(c)
  PROVE  Sound(Now')
  <1>1. PICK e \in Events : UserEvent(e)
    BY DEF PressKey, PointerEnters, Event, Events
  <1>2. Now \in State
    BY DEF Sound
  <1>3. queue \in Seq(Events)
    BY <1>2 DEF Now, State
  <1>4. queue' \in Seq(Events)
    BY <1>1, <1>3 DEF UserEvent
  <1>5. Now' \in State
    BY <1>1, <1>2, <1>4 DEF UserEvent, Now, State
  <1>6. Rerouted(Now, Now')
    BY <1>1, <1>5 DEF UserEvent, Now, Rerouted
  <1> QED
    BY <1>6, SoundRerouted

LEMMA HandleSound ==
  ASSUME Sound(Now), "move" \notin Bindings, Handle
  PROVE  Sound(Now')
  <1>1. queue # <<>>
    BY DEF Handle, MapRequest, UnmapNotify, MapNotify, DestroyNotify, FocusIn, FocusOut, EnterNotify,
           SwitchWorkspace, MoveToWorkspace, MapLatestUnmap, UnmapWindow, MinimizeWindow, MinimizeAll,
           ToggleFullscreen, KeyOfNoUse, Key, Reads
  <1>2. /\ Sound(Rest) /\ Rest.client = client /\ Rest.desk = desk /\ Rest.current = current
        /\ Head(queue).what # "key" => Of \in Clients
    BY <1>1, RestIs
  <1>3. CASE MapRequest
    BY <1>2, <1>3, SoundHandleMapRequest, StepSound DEF MapRequest, Reads
  <1>4. CASE UnmapNotify
    BY <1>2, <1>4, SoundHandleUnmapNotify, StepSound DEF UnmapNotify, Reads
  <1>5. CASE MapNotify
    BY <1>2, <1>5, SoundHandleMapNotify, StepSound DEF MapNotify, Reads
  <1>6. CASE DestroyNotify
    BY <1>2, <1>6, SoundHandleDestroyNotify, StepSound DEF DestroyNotify, Reads
  <1>7. CASE FocusIn
    BY <1>2, <1>7, SoundHandleFocusIn, StepSound DEF FocusIn, Reads
  <1>8. CASE FocusOut
    BY <1>2, <1>8, SoundHandleFocusOut, StepSound DEF FocusOut, Reads
  <1>9. CASE EnterNotify
    BY <1>2, <1>9, SoundHandleEnterNotify, StepSound DEF EnterNotify, Reads
  <1>10. CASE \E w \in Workspaces : SwitchWorkspace(w) \/ MoveToWorkspace(w)
    <2>1. PICK w \in Workspaces : SwitchWorkspace(w)
      BY <1>10 DEF MoveToWorkspace, Key
    <2>2. PICK first \in Clients : Become(ActionSwitchWorkspace(Rest, w, first))
      BY <2>1 DEF SwitchWorkspace
    <2>3. w # Rest.current
      BY <1>2, <2>1 DEF SwitchWorkspace
    <2>4. Sound(ActionSwitchWorkspace(Rest, w, first))
      BY <1>2, <2>3, SoundActionSwitchWorkspace
    <2> QED
      BY <2>2, <2>4, StepSound
  <1>11. CASE \E c \in Clients : MapLatestUnmap(c)
    <2>1. PICK c \in Clients : MapLatestUnmap(c)
      BY <1>11
    <2>2. Rest.client[c].managed /\ Rest.client[c].ul # "none" /\ Become(ActionMapLatestUnmap(Rest, c))
      BY <1>2, <2>1 DEF MapLatestUnmap
    <2>3. Sound(ActionMapLatestUnmap(Rest, c))
      BY <1>2, <2>2, SoundActionMapLatestUnmap
    <2> QED
      BY <2>2, <2>3, StepSound
  <1>12. CASE UnmapWindow
    BY <1>2, <1>12, SoundActionUnmapWindow, StepSound DEF UnmapWindow
  <1>13. CASE MinimizeWindow
    BY <1>2, <1>13, SoundActionMinimizeWindow, StepSound DEF MinimizeWindow
  <1>14. CASE MinimizeAll
    BY <1>2, <1>14, SoundActionMinimizeAll, StepSound DEF MinimizeAll
  <1>15. CASE ToggleFullscreen
    BY <1>2, <1>15, SoundActionToggleFullscreen, StepSound DEF ToggleFullscreen
  <1>16. CASE KeyOfNoUse
    BY <1>2, <1>16, StepSound DEF KeyOfNoUse
  <1> QED
    BY <1>3, <1>4, <1>5, <1>6, <1>7, <1>8, <1>9, <1>10, <1>11, <1>12, <1>13, <1>14, <1>15, <1>16 DEF Handle

LEMMA InitSound ==
  ASSUME Init
  PROVE  Sound(Now)
  <1> DEFINE new == NewClient
             empty == [tracked |-> None, before |-> None, full |-> None, head |-> None,
                       n |-> 0, nmapped |-> 0]
  <1>1. /\ new.win = "unmapped" /\ new.notices = <<>> /\ new.managed = FALSE /\ new.known = FALSE
        /\ new.workspace = NoWorkspace /\ new.place = NoWorkspace /\ new.desktop = NoWorkspace
        /\ new.mapped = FALSE /\ new.state = "UNMAPPED" /\ new.pending_unmap = 0 /\ new.ul = "none"
        /\ new.future_stay = FALSE /\ new.from_switch = FALSE /\ new.map_after = FALSE
        /\ new.unmap_after = FALSE
        /\ new.mini = FALSE /\ new.full = FALSE /\ new.want = FALSE /\ new.moved = FALSE /\ new.next = None
    BY DEF NewClient
  <1>2. new \in Record
    BY DEF NewClient, Record, V!States
  <1> HIDE DEF new
  <1>3. empty \in Desk /\ empty.full = None /\ empty.head = None /\ empty.n = 0
    BY DEF Desk
  <1> HIDE DEF empty
  <1>4. client \in [Clients -> Record] /\ \A c \in Clients : client[c] = new
    BY <1>2 DEF Init, new
  <1>5. desk \in [Workspaces -> Desk] /\ \A w \in Workspaces : desk[w] = empty
    BY <1>3 DEF Init, empty
  <1>6. queue \in Seq(Events) /\ input \in Clients \cup {None} /\ current \in Workspaces
    BY DEF Init
  <1>7. Now \in State /\ Now.client = client /\ Now.desk = desk /\ Now.current = current
    BY <1>4, <1>5, <1>6 DEF Now, State
  <1>8. Records(Now)
    <2>1. RecordOK(new, current)
      BY <1>1 DEF RecordOK
    <2> QED
      BY <1>4, <1>7, <2>1 DEF Records
  <1>9. FullOK(Now)
    BY <1>1, <1>3, <1>4, <1>5, <1>7, FocusAssumption DEF FullOK, FullAt
  <1>10. Stacked(Now)
    <2> DEFINE rank == [c \in Clients |-> 0]
    <2>1. rank \in [Clients -> Nat] /\ \A c \in Clients : rank[c] = 0
      OBVIOUS
    <2> HIDE DEF rank
    <2>2. Ranked(Now, rank)
      BY <1>1, <1>3, <1>4, <1>5, <1>7, <2>1 DEF Ranked
    <2> QED
      BY <2>2 DEF Stacked
  <1> QED
    BY <1>7, <1>8, <1>9, <1>10 DEF Sound

-----------------------------------------------------------------------------
Inv == Sound(Now)

LEMMA InvInductive ==
  ASSUME "move" \notin Bindings
  PROVE  Spec => []Inv
  <1>1. Init => Inv
    BY InitSound DEF Inv
  <1>2. Inv /\ [Next]_vars => Inv'
    <2> SUFFICES ASSUME Inv, [Next]_vars PROVE Inv'
      OBVIOUS
    <2>1. Sound(Now)
      BY DEF Inv
    <2>2. CASE UNCHANGED vars
      <3>1. Now' = Now
        BY <2>2 DEF vars, Now
      <3> QED
        BY <2>1, <3>1 DEF Inv
    <2>3. CASE \E c \in Clients : ClientMap(c) \/ ClientWithdraw(c) \/ ClientDestroy(c)
      BY <2>1, <2>3, ClientActsSound DEF Inv
    <2>4. CASE PressKey \/ \E c \in Clients : PointerEnters(c)
      BY <2>1, <2>4, UserEventSound DEF Inv
    <2>5. CASE Handle
      BY <2>1, <2>5, HandleSound DEF Inv
    <2> QED
      BY <2>2, <2>3, <2>4, <2>5 DEF Next
  <1> QED
    BY <1>1, <1>2, PTL DEF Spec

(* Unless windows are sent to other workspaces, every pointer is None or a *)
(* client and every counter a natural number, through every handler.       *)
THEOREM FocusTypeCorrect ==
  ASSUME "move" \notin Bindings
  PROVE  Spec => []TypeOK
  <1>1. Inv => TypeOK
    BY DEF Inv, Sound, State, Now, TypeOK
  <1> QED
    BY <1>1, InvInductive, PTL

(* Unless windows are sent to other workspaces, the fullscreen pointer of  *)
(* a monitor and the flags of the clients agree, in whatever order clients *)
(* are closed, hidden and made fullscreen.                                 *)
THEOREM FullscreenConsistent ==
  ASSUME "move" \notin Bindings
  PROVE  Spec => []FullscreenAgrees
  <1>1. Inv => FullscreenAgrees
    BY DEF Inv, Sound, FullOK, FullAt, Now, FullscreenAgrees
  <1> QED
    BY <1>1, InvInductive, PTL

(* Unless windows are sent to other workspaces, each focus stack ends, has *)
(* as many clients as it counts, none twice, and all of its workspace.     *)
THEOREM StacksWellFormed ==
  ASSUME "move" \notin Bindings
  PROVE  Spec => []StackWellFormed
  <1>1. Inv => StackWellFormed
    <2> SUFFICES ASSUME Inv, NEW w \in Workspaces
                 PROVE  LET held == Chain(Now, desk[w].head) IN
                        /\ Behind(Now, desk[w].head, Cardinality(Clients)) = None
                        /\ Cardinality(held) = desk[w].n
                        /\ \A c \in held : client[c].workspace = w
      BY DEF StackWellFormed
    <2>1. Now \in State /\ Now.desk = desk /\ Now.client = client
      BY DEF Inv, Sound, Now
    <2>2. PICK rank : Ranked(Now, rank)
      BY DEF Inv, Sound, Stacked
    <2>3. /\ Chain(Now, Now.desk[w].head) = InStack(Now, rank, w)
          /\ Cardinality(InStack(Now, rank, w)) = Now.desk[w].n
          /\ Behind(Now, Now.desk[w].head, Cardinality(Clients)) = None
      BY <2>1, <2>2, ChainIs
    <2>4. \A c \in InStack(Now, rank, w) : Now.client[c].workspace = w
      BY DEF InStack
    <2> QED
      BY <2>1, <2>3, <2>4
  <1> QED
    BY <1>1, InvInductive, PTL

-----------------------------------------------------------------------------
(* That no pointer of the manager outlives its client.  The tracked focus  *)
(* is set by FocusIn and cleared by FocusOut, which are read long after    *)
(* the server sent them, and only the workspace that is current is looked  *)
(* at when a client goes: the proof follows what is on the way for each    *)
(* client.  A tracked client still has the input, or its FocusOut is on    *)
(* the way before anything else about it but one unmap (Told).             *)

(* The events about one client.                                            *)

Notable == V!Notices \cup {"in", "out"}

Own(q, c) == {k \in 1..Len(q) : q[k].of = c /\ q[k].what \in Notable}

(* The next event about c after i is k.                                    *)
Follows(q, c, i, k) ==
  k \in Own(q, c) /\ i < k /\ \A j \in Own(q, c) : ~(i < j /\ j < k)

OutNext(q, c, i) == \E k \in Own(q, c) : Follows(q, c, i, k) /\ q[k].what = "out"

(* After i, c loses the input, by an unmap maybe.                          *)
Loses(q, c, i) ==
  \/ OutNext(q, c, i)
  \/ \E k \in Own(q, c) : /\ Follows(q, c, i, k) /\ q[k].what = "unmap"
                          /\ OutNext(q, c, k)

Silent(q, c, i) == \A k \in Own(q, c) : k <= i

(* q2 is what comes after the first f[0] events of q, less some keys.      *)
Thin(q, q2, f) ==
  /\ f \in [0..Len(q2) -> 0..Len(q)]
  /\ \A i, j \in 0..Len(q2) : i < j => f[i] < f[j]
  /\ \A k \in 1..Len(q2) : q2[k].what = q[f[k]].what /\ q2[k].of = q[f[k]].of
  /\ \A j \in 1..Len(q) : j > f[0] /\ q[j].what \in Notable => \E k \in 1..Len(q2) : f[k] = j

LEMMA ThinFollows ==
  ASSUME NEW q \in Seq(Events), NEW q2 \in Seq(Events), NEW f, Thin(q, q2, f),
         NEW c, NEW i \in 0..Len(q2), NEW k, Follows(q, c, f[i], k)
  PROVE  \E l \in Own(q2, c) : f[l] = k /\ Follows(q2, c, i, l) /\ q2[l].what = q[k].what
  <1>1. k \in 1..Len(q) /\ q[k].of = c /\ q[k].what \in Notable /\ f[i] < k
    BY DEF Follows, Own
  <1>2. Len(q) \in Nat /\ Len(q2) \in Nat /\ f[0] <= f[i]
    BY DEF Thin
  <1>3. PICK l \in 1..Len(q2) : f[l] = k
    BY <1>1, <1>2 DEF Thin
  <1>4. l \in Own(q2, c) /\ q2[l].what = q[k].what
    BY <1>1, <1>3 DEF Thin, Own
  <1>5. i < l
    <2>1. l \in 0..Len(q2) /\ l # i
      BY <1>1, <1>2, <1>3
    <2>2. l < i => f[l] < f[i]
      BY <2>1 DEF Thin
    <2>3. f[l] \in Int /\ f[i] \in Int /\ f[i] < f[l]
      BY <1>1, <1>2, <1>3, <2>1 DEF Thin
    <2>4. l \in Int /\ i \in Int
      BY <2>1
    <2> QED
      BY <2>1, <2>2, <2>3, <2>4
  <1>6. ASSUME NEW j \in Own(q2, c), i < j, j < l PROVE FALSE
    <2>1. j \in 1..Len(q2) /\ j \in 0..Len(q2) /\ l \in 0..Len(q2)
      BY <1>2, <1>3 DEF Own
    <2>2. f[i] < f[j] /\ f[j] < k
      BY <1>3, <1>6, <2>1 DEF Thin
    <2>3. f[j] \in 1..Len(q)
      BY SMTT(60), <1>2, <2>1, <2>2 DEF Thin
    <2>4. f[j] \in Own(q, c)
      BY <2>1, <2>3 DEF Own, Thin
    <2> QED
      BY <2>2, <2>4 DEF Follows
  <1> QED
    BY <1>3, <1>4, <1>5, <1>6 DEF Follows

LEMMA ThinKeeps ==
  ASSUME NEW q \in Seq(Events), NEW q2 \in Seq(Events), NEW f, Thin(q, q2, f),
         NEW c, NEW i \in 0..Len(q2)
  PROVE  /\ OutNext(q, c, f[i]) => OutNext(q2, c, i)
         /\ Loses(q, c, f[i]) => Loses(q2, c, i)
         /\ Silent(q, c, f[i]) => Silent(q2, c, i)
  <1>1. ASSUME NEW j \in 0..Len(q2), OutNext(q, c, f[j]) PROVE OutNext(q2, c, j)
    <2>1. PICK k \in Own(q, c) : Follows(q, c, f[j], k) /\ q[k].what = "out"
      BY <1>1 DEF OutNext
    <2>2. PICK l \in Own(q2, c) : Follows(q2, c, j, l) /\ q2[l].what = q[k].what
      BY <2>1, ThinFollows
    <2> QED
      BY <2>1, <2>2 DEF OutNext
  <1>2. ASSUME Loses(q, c, f[i]) PROVE Loses(q2, c, i)
    <2>1. CASE OutNext(q, c, f[i])
      BY <1>1, <2>1 DEF Loses
    <2>2. CASE ~OutNext(q, c, f[i])
      <3>1. PICK k \in Own(q, c) : /\ Follows(q, c, f[i], k) /\ q[k].what = "unmap"
                                   /\ OutNext(q, c, k)
        BY <1>2, <2>2 DEF Loses
      <3>2. PICK l : l \in Own(q2, c) /\ f[l] = k /\ Follows(q2, c, i, l) /\ q2[l].what = q[k].what
        <4>1. Follows(q, c, f[i], k)
          BY <3>1
        <4> QED
          BY SMTT(60), <4>1, ThinFollows
      <3>3. OutNext(q2, c, l)
        <4>1. l \in 0..Len(q2)
          BY <3>2 DEF Own
        <4> QED
          BY <1>1, <3>1, <3>2, <4>1
      <3> QED
        BY <3>1, <3>2, <3>3 DEF Loses
    <2> QED
      BY <2>1, <2>2
  <1>3. ASSUME Silent(q, c, f[i]), NEW k \in Own(q2, c), ~(k <= i) PROVE FALSE
    <2>1. k \in 1..Len(q2) /\ k \in 0..Len(q2) /\ Len(q2) \in Nat /\ Len(q) \in Nat
      BY DEF Own
    <2>2. f[i] < f[k] /\ f[i] \in 0..Len(q) /\ f[k] \in 0..Len(q)
      BY <1>3, <2>1 DEF Thin
    <2>3. f[k] \in Own(q, c)
      BY <2>1, <2>2 DEF Own, Thin
    <2> QED
      BY <1>3, <2>1, <2>2, <2>3 DEF Silent
  <1> QED
    BY <1>1, <1>2, <1>3 DEF Silent

(* More events behind.                                                     *)
LEMMA FollowsBehind ==
  ASSUME NEW q \in Seq(Events), NEW e \in Seq(Events), NEW c, NEW i \in 0..Len(q)
  PROVE  /\ \A k : Follows(q, c, i, k) => Follows(q \o e, c, i, k) /\ (q \o e)[k] = q[k]
         /\ Silent(q, c, i) /\ Own(e, c) = {} => Silent(q \o e, c, i)
         /\ \A k \in 1..Len(e) : Silent(q, c, i) /\ Follows(e, c, 0, k)
              => /\ Follows(q \o e, c, i, Len(q) + k) /\ (q \o e)[Len(q) + k] = e[k]
         /\ \A k, l \in 1..Len(e) : Follows(e, c, k, l)
              => Follows(q \o e, c, Len(q) + k, Len(q) + l) /\ (q \o e)[Len(q) + l] = e[l]
  <1> DEFINE p == q \o e
  <1>1. /\ p \in Seq(Events) /\ Len(p) = Len(q) + Len(e) /\ Len(q) \in Nat /\ Len(e) \in Nat
        /\ \A k \in 1..Len(q) : p[k] = q[k]
        /\ \A k \in 1..Len(e) : p[Len(q) + k] = e[k]
    OBVIOUS
  <1> HIDE DEF p
  <1>2. \A k \in 1..Len(q) : k \in Own(p, c) <=> k \in Own(q, c)
    BY <1>1 DEF Own
  <1>3. \A k \in 1..Len(e) : Len(q) + k \in Own(p, c) <=> k \in Own(e, c)
    BY <1>1 DEF Own
  <1>4. \A k \in Own(p, c) : k \in Own(q, c) \/ \E l \in Own(e, c) : k = Len(q) + l
    <2> SUFFICES ASSUME NEW k \in Own(p, c), k \notin Own(q, c)
                 PROVE  \E l \in Own(e, c) : k = Len(q) + l
      OBVIOUS
    <2>1. k \in 1..Len(p) /\ k \notin 1..Len(q)
      BY <1>2 DEF Own
    <2>2. k - Len(q) \in 1..Len(e) /\ k = Len(q) + (k - Len(q))
      BY <1>1, <2>1
    <2> QED
      BY <1>3, <2>2
  <1>5. Own(q, c) \subseteq 1..Len(q) /\ Own(e, c) \subseteq 1..Len(e)
    BY DEF Own
  <1>6. ASSUME NEW k, Follows(q, c, i, k) PROVE Follows(p, c, i, k) /\ p[k] = q[k]
    BY <1>1, <1>2, <1>4, <1>5, <1>6 DEF Follows
  <1>7. ASSUME Silent(q, c, i), Own(e, c) = {} PROVE Silent(p, c, i)
    BY <1>4, <1>7 DEF Silent
  <1>8. ASSUME NEW k \in 1..Len(e), Silent(q, c, i), Follows(e, c, 0, k)
        PROVE  Follows(p, c, i, Len(q) + k)
    <2>1. k \in Own(e, c) /\ Len(q) + k \in Own(p, c) /\ i < Len(q) + k
      BY <1>1, <1>3, <1>8 DEF Follows
    <2>2. ASSUME NEW j \in Own(p, c), i < j, j < Len(q) + k PROVE FALSE
      <3>1. j \notin Own(q, c)
        BY <1>1, <1>5, <1>8, <2>2 DEF Silent
      <3>2. PICK l \in Own(e, c) : j = Len(q) + l
        BY <1>4, <3>1
      <3>3. 0 < l /\ l < k
        BY <1>1, <1>5, <2>2, <3>2
      <3> QED
        BY <1>8, <3>3 DEF Follows
    <2> QED
      BY <2>1, <2>2 DEF Follows
  <1>9. ASSUME NEW k \in 1..Len(e), NEW l \in 1..Len(e), Follows(e, c, k, l)
        PROVE  Follows(p, c, Len(q) + k, Len(q) + l)
    <2>1. l \in Own(e, c) /\ Len(q) + l \in Own(p, c) /\ Len(q) + k < Len(q) + l
      BY <1>1, <1>3, <1>9 DEF Follows
    <2>2. ASSUME NEW j \in Own(p, c), Len(q) + k < j, j < Len(q) + l PROVE FALSE
      <3>1. j \notin Own(q, c)
        BY <1>1, <1>5, <2>2
      <3>2. PICK x \in Own(e, c) : j = Len(q) + x
        BY <1>4, <3>1
      <3>3. k < x /\ x < l
        BY <1>1, <1>5, <2>2, <3>2
      <3> QED
        BY <1>9, <3>3 DEF Follows
    <2> QED
      BY <2>1, <2>2 DEF Follows
  <1> QED
    BY <1>1, <1>6, <1>7, <1>8, <1>9 DEF p

-----------------------------------------------------------------------------
(* What the manager has been told, and will be, of the focus.              *)

(* After event i, c keeps the input, or its loss is on the way.            *)
Safe(s, c, i) ==
  \/ s.input = c /\ Silent(s.queue, c, i)
  \/ Loses(s.queue, c, i)

Points(s) ==
  \A w \in Workspaces, c \in Clients :
    s.desk[w].tracked = c \/ s.desk[w].before = c => s.client[c].managed /\ s.client[c].workspace = w

HasInput(s) == s.input # None => s.client[s.input].win = "mapped"

InsSafe(s) == \A i \in 1..Len(s.queue) : s.queue[i].what = "in" => Safe(s, s.queue[i].of, i)

TrackedSafe(s) ==
  \A w \in Workspaces, c \in Clients : s.desk[w].tracked = c =>
    /\ Safe(s, c, 0)
    /\ OutNext(s.queue, c, 0) \/ Awaited(s.client[c])

Told(s) == Points(s) /\ HasInput(s) /\ InsSafe(s) /\ TrackedSafe(s)

(* From s to t, what is on the way still is.                               *)
Conveys(s, t) ==
  /\ \A c \in Clients : /\ Safe(s, c, 0) => Safe(t, c, 0)
                        /\ OutNext(s.queue, c, 0) => OutNext(t.queue, c, 0)
  /\ InsSafe(t) /\ HasInput(t)

(* No pointer to a client is set, and those there are stay good.           *)
Tame(s, t) ==
  /\ \A w \in Workspaces : /\ t.desk[w].tracked \in {s.desk[w].tracked, None}
                           /\ t.desk[w].before \in {s.desk[w].before, s.desk[w].tracked, None}
  /\ \A c \in Clients, w \in Workspaces :
       /\ t.desk[w].tracked = c \/ t.desk[w].before = c =>
            (s.client[c].managed => t.client[c].managed /\ t.client[c].workspace = s.client[c].workspace)
       /\ t.desk[w].tracked = c =>
            (Awaited(s.client[c]) => Awaited(t.client[c]) \/ OutNext(t.queue, c, 0))

LEMMA ToldTame ==
  ASSUME NEW s, NEW t, Told(s), Tame(s, t), Conveys(s, t)
  PROVE  Told(t)
  <1>1. Points(t)
    <2> SUFFICES ASSUME NEW w \in Workspaces, NEW c \in Clients,
                        t.desk[w].tracked = c \/ t.desk[w].before = c
                 PROVE  t.client[c].managed /\ t.client[c].workspace = w
      BY DEF Points
    <2>1. s.desk[w].tracked = c \/ s.desk[w].before = c
      BY FocusAssumption DEF Tame
    <2>2. s.client[c].managed /\ s.client[c].workspace = w
      BY <2>1 DEF Told, Points
    <2> QED
      BY <2>2 DEF Tame
  <1>2. TrackedSafe(t)
    <2> SUFFICES ASSUME NEW w \in Workspaces, NEW c \in Clients, t.desk[w].tracked = c
                 PROVE  Safe(t, c, 0) /\ (OutNext(t.queue, c, 0) \/ Awaited(t.client[c]))
      BY DEF TrackedSafe
    <2>1. s.desk[w].tracked = c
      BY FocusAssumption DEF Tame
    <2>2. Safe(s, c, 0) /\ (OutNext(s.queue, c, 0) \/ Awaited(s.client[c]))
      BY <2>1 DEF Told, TrackedSafe
    <2> QED
      BY <2>2 DEF Tame, Conveys
  <1> QED
    BY <1>1, <1>2 DEF Told, Conveys

(* The queue and the windows are as they were.                             *)
LEMMA ConveysSame ==
  ASSUME NEW s, NEW t, Told(s), s \in State, t.queue = s.queue, t.input = s.input,
         \A c \in Clients : t.client[c].win = s.client[c].win
  PROVE  Conveys(s, t)
  <1>1. \A c, i : Safe(t, c, i) <=> Safe(s, c, i)
    BY DEF Safe
  <1>2. InsSafe(t)
    BY <1>1 DEF Told, InsSafe
  <1>3. HasInput(t)
    BY DEF Told, HasInput, State
  <1> QED
    BY <1>1, <1>2, <1>3 DEF Conveys

LEMMA ToldStays ==
  ASSUME NEW s, NEW t, Told(s), s \in State, Stays(s, t), t.queue = s.queue, t.input = s.input,
         \A w \in Workspaces : /\ t.desk[w].tracked \in {s.desk[w].tracked, None}
                               /\ t.desk[w].before \in {s.desk[w].before, s.desk[w].tracked, None}
  PROVE  Told(t)
  <1>1. Conveys(s, t)
    BY ConveysSame DEF Stays
  <1>2. Tame(s, t)
    BY DEF Stays, Tame, Awaited
  <1> QED
    BY <1>1, <1>2, ToldTame

(* Only the queue and the input differ.                                    *)
LEMMA ToldRerouted ==
  ASSUME NEW s, NEW t, Told(s), Rerouted(s, t), Conveys(s, t)
  PROVE  Told(t)
  <1>1. Tame(s, t)
    BY DEF Rerouted, Tame
  <1> QED
    BY <1>1, ToldTame

(* The queue without some keys.                                            *)
LEMMA ConveysThin ==
  ASSUME NEW s \in State, NEW t \in State, Told(s), NEW f, Thin(s.queue, t.queue, f), f[0] = 0,
         t.input = s.input, t.client = s.client
  PROVE  Conveys(s, t)
  <1> DEFINE q == s.queue
             p == t.queue
  <1>1. q \in Seq(Events) /\ p \in Seq(Events)
    BY DEF State
  <1>2. \A c, i : i \in 0..Len(p) =>
          /\ OutNext(q, c, f[i]) => OutNext(p, c, i)
          /\ Loses(q, c, f[i]) => Loses(p, c, i)
          /\ Silent(q, c, f[i]) => Silent(p, c, i)
    BY <1>1, ThinKeeps
  <1>3. \A c, i : i \in 0..Len(p) => (Safe(s, c, f[i]) => Safe(t, c, i))
    BY <1>2 DEF Safe
  <1>4. 0 \in 0..Len(p)
    BY <1>1
  <1>5. InsSafe(t)
    <2> SUFFICES ASSUME NEW i \in 1..Len(p), p[i].what = "in" PROVE Safe(t, p[i].of, i)
      BY DEF InsSafe
    <2>1. i \in 0..Len(p) /\ Len(p) \in Nat /\ Len(q) \in Nat
      BY <1>1
    <2>2. f[i] \in 0..Len(q) /\ f[0] < f[i]
      BY <1>4, <2>1 DEF Thin
    <2>3. f[i] \in 1..Len(q)
      BY <2>1, <2>2
    <2>4. q[f[i]].what = "in" /\ q[f[i]].of = p[i].of
      BY DEF Thin
    <2>5. Safe(s, p[i].of, f[i])
      BY <2>3, <2>4 DEF Told, InsSafe
    <2> QED
      BY <1>3, <2>1, <2>5
  <1>6. HasInput(t)
    BY DEF Told, HasInput
  <1> QED
    BY <1>2, <1>3, <1>4, <1>5, <1>6 DEF Conveys

(* The queue with more events behind.                                      *)
LEMMA ConveysBehind ==
  ASSUME NEW s \in State, NEW t \in State, Told(s), NEW e \in Seq(Events), t.queue = s.queue \o e,
         s.input # None => \/ t.input = s.input /\ Own(e, s.input) = {}
                           \/ Loses(e, s.input, 0),
         \A k \in 1..Len(e) : e[k].what = "in" => t.input = e[k].of /\ Silent(e, e[k].of, k),
         HasInput(t)
  PROVE  Conveys(s, t)
  <1> DEFINE q == s.queue
             p == q \o e
             n == Len(q)
  <1>1. /\ q \in Seq(Events) /\ p \in Seq(Events) /\ Len(p) = n + Len(e) /\ n \in Nat /\ Len(e) \in Nat
        /\ t.queue = p /\ 0 \in 0..n
        /\ \A k \in 1..n : p[k] = q[k]
        /\ \A k \in 1..Len(e) : p[n + k] = e[k]
    BY DEF State
  <1>2. ASSUME NEW c, NEW i \in 0..n
        PROVE  /\ \A k : Follows(q, c, i, k) => Follows(p, c, i, k) /\ p[k] = q[k]
               /\ Silent(q, c, i) /\ Own(e, c) = {} => Silent(p, c, i)
               /\ \A k \in 1..Len(e) : Silent(q, c, i) /\ Follows(e, c, 0, k)
                    => /\ Follows(p, c, i, n + k) /\ p[n + k] = e[k]
               /\ \A k, l \in 1..Len(e) : Follows(e, c, k, l)
                    => Follows(p, c, n + k, n + l) /\ p[n + l] = e[l]
    BY <1>1, FollowsBehind
  <1> HIDE DEF p, q, n
  <1>3. \A c, k, i : Follows(q, c, i, k) => k \in 1..n /\ k \in 0..n /\ k \in Own(q, c)
    BY <1>1 DEF Follows, Own, n
  <1>4. \A c, k, i : Follows(p, c, i, k) => k \in Own(p, c)
    BY DEF Follows
  <1>5. ASSUME NEW c, NEW i \in 0..n, OutNext(q, c, i) PROVE OutNext(p, c, i)
    BY <1>2, <1>4, <1>5 DEF OutNext
  <1>6. ASSUME NEW c, NEW i \in 0..n, Loses(q, c, i) PROVE Loses(p, c, i)
    <2>1. CASE OutNext(q, c, i)
      BY <1>5, <2>1 DEF Loses
    <2>2. CASE ~OutNext(q, c, i)
      <3>1. PICK k \in Own(q, c) : Follows(q, c, i, k) /\ q[k].what = "unmap" /\ OutNext(q, c, k)
        BY <1>6, <2>2 DEF Loses
      <3>2. k \in 0..n /\ Follows(p, c, i, k) /\ p[k].what = "unmap" /\ k \in Own(p, c)
        BY <1>2, <1>3, <1>4, <3>1
      <3>3. OutNext(p, c, k)
        BY <1>5, <3>1, <3>2
      <3> QED
        BY <3>2, <3>3 DEF Loses
    <2> QED
      BY <2>1, <2>2
  <1>7. ASSUME NEW c, NEW i \in 0..n, Silent(q, c, i), Loses(e, c, 0) PROVE Loses(p, c, i)
    <2>1. \A k, j : Follows(e, c, j, k) => k \in 1..Len(e)
      BY DEF Follows, Own
    <2>2. CASE OutNext(e, c, 0)
      <3>1. PICK k \in Own(e, c) : Follows(e, c, 0, k) /\ e[k].what = "out"
        BY <2>2 DEF OutNext
      <3>2. Follows(p, c, i, n + k) /\ p[n + k].what = "out" /\ n + k \in Own(p, c)
        BY <1>2, <1>4, <1>7, <2>1, <3>1
      <3>3. OutNext(p, c, i)
        BY <3>2 DEF OutNext
      <3> QED
        BY <3>3 DEF Loses
    <2>3. CASE ~OutNext(e, c, 0)
      <3>1. PICK k \in Own(e, c) : Follows(e, c, 0, k) /\ e[k].what = "unmap" /\ OutNext(e, c, k)
        BY <1>7, <2>3 DEF Loses
      <3>2. PICK l \in Own(e, c) : Follows(e, c, k, l) /\ e[l].what = "out"
        BY <3>1 DEF OutNext
      <3>3. k \in 1..Len(e) /\ l \in 1..Len(e)
        BY <2>1, <3>1, <3>2
      <3>4. Follows(p, c, i, n + k) /\ p[n + k].what = "unmap" /\ n + k \in Own(p, c)
        BY <1>2, <1>4, <1>7, <3>1, <3>3
      <3>5. Follows(p, c, n + k, n + l) /\ p[n + l].what = "out" /\ n + l \in Own(p, c)
        BY <1>2, <1>4, <3>2, <3>3
      <3>6. OutNext(p, c, n + k)
        BY <3>5 DEF OutNext
      <3> QED
        BY <3>4, <3>6 DEF Loses
    <2> QED
      BY <2>2, <2>3
  <1>8. ASSUME NEW c \in Clients, NEW i \in 0..n, Safe(s, c, i) PROVE Safe(t, c, i)
    <2>1. CASE Loses(q, c, i)
      BY <1>1, <1>6, <2>1 DEF Safe
    <2>2. CASE s.input = c /\ Silent(q, c, i)
      <3>1. \/ t.input = c /\ Own(e, c) = {}
            \/ Loses(e, c, 0)
        BY <2>2, FocusAssumption
      <3>2. CASE t.input = c /\ Own(e, c) = {}
        <4>1. Silent(p, c, i)
          BY <1>2, <2>2, <3>2
        <4> QED
          BY <1>1, <3>2, <4>1 DEF Safe
      <3>3. CASE Loses(e, c, 0)
        BY <1>1, <1>7, <2>2, <3>3 DEF Safe
      <3> QED
        BY <3>1, <3>2, <3>3
    <2> QED
      BY <1>8, <2>1, <2>2 DEF Safe, q
  <1>9. InsSafe(t)
    <2> SUFFICES ASSUME NEW i \in 1..Len(p), p[i].what = "in" PROVE Safe(t, p[i].of, i)
      BY <1>1 DEF InsSafe
    <2>0. p[i] \in Events
      BY <1>1
    <2>1. p[i].of \in Clients
      BY <2>0 DEF Events
    <2>2. CASE i \in 1..n
      <3>1. q[i] = p[i] /\ i \in 0..n
        BY <1>1, <2>2
      <3>2. Safe(s, p[i].of, i)
        BY <1>1, <2>2, <3>1 DEF Told, InsSafe, q, n
      <3> QED
        BY <1>8, <2>1, <3>1, <3>2
    <2>3. CASE i \notin 1..n
      <3> DEFINE k == i - n
      <3>1. k \in 1..Len(e) /\ i = n + k
        BY <1>1, <2>3
      <3> HIDE DEF k
      <3>2. p[i] = e[k]
        BY <1>1, <3>1
      <3>3. t.input = p[i].of /\ Silent(e, p[i].of, k)
        BY <3>1, <3>2
      <3>4. Silent(p, p[i].of, i)
        <4> SUFFICES ASSUME NEW j \in Own(p, p[i].of), ~(j <= i) PROVE FALSE
          BY DEF Silent
        <4>1. j \in 1..Len(p) /\ p[j].of = p[i].of /\ p[j].what \in Notable
          BY DEF Own
        <4>2. j - n \in 1..Len(e) /\ j = n + (j - n) /\ ~(j - n <= k)
          BY <1>1, <3>1, <4>1
        <4>3. p[j] = e[j - n]
          BY <1>1, <4>2
        <4>4. j - n \in Own(e, p[i].of)
          BY <4>1, <4>2, <4>3 DEF Own
        <4> QED
          BY <3>3, <4>2, <4>4 DEF Silent
      <3> QED
        BY <1>1, <3>3, <3>4 DEF Safe
    <2> QED
      BY <2>2, <2>3
  <1> QED
    BY <1>1, <1>5, <1>8, <1>9 DEF Conveys, q, n

(* The queue from which keys have been dropped, up to event k.             *)
ThinTo(q, k, q2, f) ==
  /\ f \in [0..Len(q2) -> 0..k] /\ f[0] = 0
  /\ \A i, j \in 0..Len(q2) : i < j => f[i] < f[j]
  /\ \A i \in 1..Len(q2) : q2[i].what = q[f[i]].what /\ q2[i].of = q[f[i]].of
  /\ \A j \in 1..k : q[j].what \in Notable => \E i \in 1..Len(q2) : f[i] = j

LEMMA ArrangeThin ==
  ASSUME NEW s \in State
  PROVE  \E f : Thin(s.queue, Arrange(s).queue, f) /\ f[0] = 0
  <1> DEFINE q == s.queue
             n == Len(q)
             Stage == [k \in 0..n |-> {p \in Seq(Events) : \E f : ThinTo(q, k, p, f)}]
             z == Clearing!Along(q, <<>>, q)
  <1>1. q \in Seq(Events) /\ n \in Nat
    BY DEF State
  <1> HIDE DEF q
  <1>2. <<>> \in Stage[0]
    <2> DEFINE f == [i \in 0..0 |-> 0]
    <2>1. ThinTo(q, 0, <<>>, f)
      BY DEF ThinTo
    <2> QED
      BY <1>1, <2>1
  <1>3. \A k \in 1..n : \A p \in Stage[k - 1] : Clear(q, p, q[k]) \in Stage[k]
    <2> SUFFICES ASSUME NEW k \in 1..n, NEW p \in Seq(Events), \E f : ThinTo(q, k - 1, p, f)
                 PROVE  Clear(q, p, q[k]) \in Seq(Events) /\ \E f : ThinTo(q, k, Clear(q, p, q[k]), f)
      BY <1>1
    <2>1. PICK f : ThinTo(q, k - 1, p, f)
      OBVIOUS
    <2>2. q[k] \in Events /\ Len(p) \in Nat /\ k \in Nat /\ k >= 1
      BY <1>1
    <2>3. CASE q[k].what = "key"
      <3>1. Clear(q, p, q[k]) = p
        BY <2>3 DEF Clear
      <3>2. f \in [0..Len(p) -> 0..k]
        BY <2>1, <2>2 DEF ThinTo
      <3>3. q[k].what \notin Notable
        BY <2>3 DEF Notable, V!Notices
      <3>4. ThinTo(q, k, p, f)
        <4>1. ASSUME NEW j \in 1..k, q[j].what \in Notable PROVE \E i \in 1..Len(p) : f[i] = j
          <5>1. j \in 1..(k - 1)
            BY <2>2, <3>3, <4>1
          <5> QED
            BY <2>1, <4>1, <5>1 DEF ThinTo
        <4> QED
          BY <2>1, <3>2, <4>1 DEF ThinTo
      <3> QED
        BY <3>1, <3>4
    <2>4. CASE q[k].what # "key"
      <3> DEFINE p2 == Append(p, q[k])
                 m == Len(p)
                 g == [i \in 0..(m + 1) |-> IF i <= m THEN f[i] ELSE k]
      <3>1. Clear(q, p, q[k]) = p2
        BY <2>4 DEF Clear
      <3>2. p2 \in Seq(Events) /\ Len(p2) = m + 1 /\ p2[m + 1] = q[k] /\ \A i \in 1..m : p2[i] = p[i]
        BY <2>2
      <3> HIDE DEF p2
      <3>3. /\ f \in [0..m -> 0..(k - 1)] /\ f[0] = 0
            /\ \A i, j \in 0..m : i < j => f[i] < f[j]
            /\ \A i \in 1..m : p[i].what = q[f[i]].what /\ p[i].of = q[f[i]].of
            /\ \A j \in 1..(k - 1) : q[j].what \in Notable => \E i \in 1..m : f[i] = j
        BY <2>1 DEF ThinTo
      <3>4. /\ \A i \in 0..m : g[i] = f[i] /\ f[i] \in 0..(k - 1) /\ f[i] < k
            /\ g[m + 1] = k
        BY <2>2, <3>3
      <3>5. g \in [0..(m + 1) -> 0..k]
        BY <2>2, <3>3
      <3> HIDE DEF g, m
      <3>6. m \in Nat
        BY <2>2 DEF m
      <3>7. ASSUME NEW i \in 0..(m + 1), NEW j \in 0..(m + 1), i < j PROVE g[i] < g[j]
        <4>1. i \in 0..m
          BY <3>6, <3>7
        <4>2. CASE j \in 0..m
          BY <3>3, <3>4, <3>7, <4>1, <4>2
        <4>3. CASE j = m + 1
          BY <3>4, <4>1, <4>3
        <4> QED
          BY <3>6, <4>2, <4>3
      <3>8. ASSUME NEW i \in 1..(m + 1) PROVE p2[i].what = q[g[i]].what /\ p2[i].of = q[g[i]].of
        <4>1. CASE i \in 1..m
          <5>1. p2[i] = p[i]
            BY <3>2, <4>1
          <5>2. i \in 0..m
            BY <3>6, <4>1
          <5>3. g[i] = f[i]
            BY <3>4, <5>2
          <5>4. p[i].what = q[f[i]].what /\ p[i].of = q[f[i]].of
            BY <3>3, <4>1
          <5> QED
            BY <5>1, <5>3, <5>4
        <4>2. CASE i = m + 1
          <5>1. p2[i] = q[k] /\ g[i] = k
            BY <3>2, <3>4, <4>2
          <5> QED
            BY <5>1
        <4> QED
          BY <3>6, <4>1, <4>2
      <3>9. ASSUME NEW j \in 1..k, q[j].what \in Notable PROVE \E i \in 1..(m + 1) : g[i] = j
        <4>1. CASE j = k
          BY <3>4, <3>6, <4>1
        <4>2. CASE j # k
          <5>1. PICK i \in 1..m : f[i] = j
            BY <2>2, <3>3, <3>9, <4>2
          <5> QED
            BY <3>4, <3>6, <5>1
        <4> QED
          BY <4>1, <4>2
      <3>10. g[0] = 0
        BY <3>3, <3>4, <3>6
      <3>11. ThinTo(q, k, p2, g)
        BY <3>2, <3>5, <3>7, <3>8, <3>9, <3>10 DEF ThinTo
      <3> QED
        BY <3>1, <3>2, <3>11
    <2> QED
      BY <2>3, <2>4
  <1>4. Stage[n] = {p \in Seq(Events) : \E f : ThinTo(q, n, p, f)}
    BY <1>1
  <1> HIDE DEF Stage
  <1>5. z \in Stage[n]
    BY <1>1, <1>2, <1>3, Clearing!AlongStages
  <1>6. Arrange(s) = [s EXCEPT !.queue = z]
    BY DEF Arrange, q
  <1> HIDE DEF z
  <1>7. Arrange(s).queue = z
    BY <1>6 DEF State
  <1>8. PICK f : ThinTo(q, n, z, f)
    BY <1>4, <1>5
  <1>9. Thin(q, z, f) /\ f[0] = 0
    <2>1. \A j \in 1..n : q[j].what \in Notable => \E i \in 1..Len(z) : f[i] = j
      BY <1>8 DEF ThinTo
    <2> QED
      BY <1>8, <2>1 DEF ThinTo, Thin
  <1> QED
    BY <1>7, <1>9 DEF q

LEMMA ToldArrange ==
  ASSUME NEW s \in State, Told(s)
  PROVE  Told(Arrange(s))
  <1>1. Rerouted(s, Arrange(s)) /\ Arrange(s).input = s.input
    BY ArrangeIs
  <1>2. PICK f : Thin(s.queue, Arrange(s).queue, f) /\ f[0] = 0
    BY ArrangeThin
  <1>3. Conveys(s, Arrange(s))
    BY <1>1, <1>2, ConveysThin DEF Rerouted
  <1> QED
    BY <1>1, <1>3, ToldRerouted

(* What XSetInputFocus does to the queue: the events that are late, and    *)
(* those of the focus that are new.                                        *)
Asked(s, t, c, a, o, i) ==
  /\ a \in Seq(Events) /\ Len(a) = Len(s.queue)
  /\ \A k \in 1..Len(s.queue) : a[k].what = s.queue[k].what /\ a[k].of = s.queue[k].of
  /\ o \in Seq(Events) /\ o = IF s.input = None THEN <<>> ELSE <<Event("out", s.input)>>
  /\ i \in Seq(Events) /\ i = IF c = None THEN <<>> ELSE <<Event("in", c)>>
  /\ c # None => s.client[c].win = "mapped"
  /\ t.input = c /\ t.queue = IF s.input = c THEN a ELSE a \o (o \o i)

LEMMA SetInputAsks ==
  ASSUME NEW s \in State, NEW c \in Clients \cup {None}, NEW time
  PROVE  \/ SetInput(s, c, time) = s
         \/ \E a, o, i : Asked(s, SetInput(s, c, time), c, a, o, i)
  <1> DEFINE aged == IF time # "current" THEN s.queue
                     ELSE [i \in DOMAIN s.queue |-> [s.queue[i] EXCEPT !.late = @ \/ s.queue[i].what \in {"key", "enter"}]]
             outs == IF s.input = None THEN <<>> ELSE <<Event("out", s.input)>>
             ins  == IF c = None THEN <<>> ELSE <<Event("in", c)>>
             t == SetInput(s, c, time)
  <1>1. CASE time = "late" \/ (c # None /\ s.client[c].win # "mapped")
    BY <1>1 DEF SetInput
  <1>2. CASE ~(time = "late" \/ (c # None /\ s.client[c].win # "mapped"))
    <2>1. t = [s EXCEPT !.input = c, !.queue = IF s.input = c THEN aged ELSE aged \o outs \o ins]
      BY <1>2 DEF SetInput
    <2>2. /\ aged \in Seq(Events) /\ Len(aged) = Len(s.queue)
          /\ \A i \in 1..Len(s.queue) : aged[i].what = s.queue[i].what /\ aged[i].of = s.queue[i].of
      <3>1. s.queue \in Seq(Events)
        BY DEF State
      <3>2. CASE time # "current"
        BY <3>1, <3>2
      <3>3. CASE time = "current"
        <4> DEFINE old(i) == s.queue[i].late \/ s.queue[i].what \in {"key", "enter"}
                   n == Len(s.queue)
        <4>1. \A i \in 1..n : \A b \in BOOLEAN : [s.queue[i] EXCEPT !.late = b] \in Events
          BY <3>1 DEF Events
        <4>2. \A i \in 1..n : \A b \in BOOLEAN : [s.queue[i] EXCEPT !.late = b].what = s.queue[i].what
          BY <3>1 DEF Events
        <4>3. \A i \in 1..n : \A b \in BOOLEAN : [s.queue[i] EXCEPT !.late = b].of = s.queue[i].of
          BY <3>1 DEF Events
        <4>4. \A i \in 1..n : old(i) \in BOOLEAN
          BY <3>1 DEF Events
        <4>5. aged = [i \in 1..n |-> [s.queue[i] EXCEPT !.late = old(i)]]
          BY <3>1, <3>3
        <4>6. n \in Nat
          BY <3>1
        <4> HIDE DEF aged, old, n
        <4>7. aged \in [1..n -> Events]
          BY <4>1, <4>4, <4>5
        <4>8. aged \in Seq(Events) /\ Len(aged) = n
          BY <4>6, <4>7
        <4>9. ASSUME NEW i \in 1..n PROVE aged[i].what = s.queue[i].what /\ aged[i].of = s.queue[i].of
          <5>1. aged[i] = [s.queue[i] EXCEPT !.late = old(i)]
            BY <4>5
          <5> QED
            BY <4>2, <4>3, <4>4, <5>1
        <4> QED
          BY <4>8, <4>9 DEF n
      <3> QED
        BY <3>2, <3>3
    <2> HIDE DEF aged
    <2>3. outs \in Seq(Events) /\ ins \in Seq(Events)
      <3>1. s.input # None => Event("out", s.input) \in Events
        BY DEF Event, Events, State
      <3>2. c # None => Event("in", c) \in Events
        BY DEF Event, Events
      <3>3. outs \in Seq(Events)
        BY <3>1
      <3>4. ins \in Seq(Events)
        BY <3>2
      <3> QED
        BY <3>3, <3>4
    <2>4. aged \o outs \o ins = aged \o (outs \o ins)
      <3> HIDE DEF outs, ins
      <3> QED
        BY <2>2, <2>3, ConcatAssociative
    <2>5. t.input = c /\ t.queue = IF s.input = c THEN aged ELSE aged \o outs \o ins
      BY <2>1 DEF State
    <2>6. Asked(s, t, c, aged, outs, ins)
      BY <1>2, <2>2, <2>3, <2>4, <2>5 DEF Asked
    <2> QED
      BY <2>6
  <1> QED
    BY <1>1, <1>2

(* Late or not, the events are the same.                                   *)
LEMMA AgedThin ==
  ASSUME NEW q \in Seq(Events), NEW a \in Seq(Events), Len(a) = Len(q),
         \A k \in 1..Len(q) : a[k].what = q[k].what /\ a[k].of = q[k].of
  PROVE  \E f : Thin(q, a, f) /\ f[0] = 0
  <1> DEFINE f == [i \in 0..Len(a) |-> i]
  <1>1. Thin(q, a, f) /\ f[0] = 0
    <2>1. Len(a) \in Nat
      OBVIOUS
    <2>2. f \in [0..Len(a) -> 0..Len(q)] /\ \A i \in 0..Len(a) : f[i] = i
      OBVIOUS
    <2> HIDE DEF f
    <2>3. \A j \in 1..Len(q) : \E i \in 1..Len(a) : f[i] = j
      BY <2>1, <2>2
    <2>4. \A k \in 1..Len(a) : a[k].what = q[f[k]].what /\ a[k].of = q[f[k]].of
      BY <2>1, <2>2
    <2> QED
      BY <2>1, <2>2, <2>3, <2>4 DEF Thin
  <1> HIDE DEF f
  <1> QED
    BY <1>1

LEMMA ToldSetInput ==
  ASSUME NEW s \in State, Told(s), NEW c \in Clients \cup {None}, NEW time
  PROVE  Told(SetInput(s, c, time))
  <1> DEFINE t == SetInput(s, c, time)
  <1>1. CASE t = s
    BY <1>1
  <1>2. CASE \E a, o, i : Asked(s, t, c, a, o, i)
    <2>1. PICK aged, outs, ins : Asked(s, t, c, aged, outs, ins)
      BY <1>2
    <2> DEFINE more == IF s.input = c THEN <<>> ELSE outs \o ins
               a == [s EXCEPT !.queue = aged]
    <2>2. /\ aged \in Seq(Events) /\ Len(aged) = Len(s.queue)
          /\ \A i \in 1..Len(s.queue) : aged[i].what = s.queue[i].what /\ aged[i].of = s.queue[i].of
      BY <2>1 DEF Asked
    <2>3. /\ outs \in Seq(Events) /\ outs = IF s.input = None THEN <<>> ELSE <<Event("out", s.input)>>
          /\ ins \in Seq(Events) /\ ins = IF c = None THEN <<>> ELSE <<Event("in", c)>>
      BY <2>1 DEF Asked
    <2>5. more \in Seq(Events)
      BY <2>3
    <2>6. aged \o <<>> = aged
      BY <2>2
    <2>7. t.queue = aged \o more /\ t.input = c /\ Rerouted(s, t)
      <3>1. t.input = c /\ t.queue = IF s.input = c THEN aged ELSE aged \o (outs \o ins)
        BY <2>1 DEF Asked
      <3>2. Rerouted(s, t)
        BY SetInputIs
      <3> QED
        BY <2>6, <3>1, <3>2
    <2>4. c # None => s.client[c].win = "mapped"
      BY <2>1 DEF Asked
    <2> HIDE DEF t
    <2>8. a \in State /\ a.queue = aged /\ a.input = s.input /\ Rerouted(s, a)
      BY <2>2 DEF State, Rerouted
    <2> HIDE DEF a
    <2>9. Told(a)
      <3>0. s.queue \in Seq(Events)
        BY DEF State
      <3>1. PICK f : Thin(s.queue, aged, f) /\ f[0] = 0
        BY <2>2, <3>0, AgedThin
      <3>2. Conveys(s, a)
        BY <2>8, <3>1, ConveysThin DEF Rerouted
      <3> QED
        BY <2>8, <3>2, ToldRerouted
    <2>10. Rerouted(a, t)
      BY <2>7, <2>8 DEF Rerouted
    <2>11. HasInput(t)
      BY <2>4, <2>7 DEF HasInput, Rerouted
    <2>12. a.input # None => \/ t.input = a.input /\ Own(more, a.input) = {}
                             \/ Loses(more, a.input, 0)
      <3>1. CASE s.input = c
        BY <2>7, <2>8, <3>1 DEF Own
      <3>2. CASE s.input # c /\ s.input # None
        <4> DEFINE o == Event("out", s.input)
        <4>1. more = <<o>> \o ins
          BY <2>3, <3>2
        <4>2. ins \in Seq(Events) /\ o \in Events
          BY <2>3, <3>2 DEF Event, Events, State
        <4>3. Len(more) \in Nat /\ 1 \in 1..Len(more) /\ more[1] = o
          BY <4>1, <4>2
        <4>4. o.what = "out" /\ o.of = s.input
          BY DEF Event
        <4> HIDE DEF o, more
        <4>5. 1 \in Own(more, s.input)
          BY <4>3, <4>4 DEF Own, Notable
        <4>6. Follows(more, s.input, 0, 1)
          BY <4>5, <4>3 DEF Follows, Own
        <4> QED
          BY <2>8, <4>3, <4>4, <4>5, <4>6 DEF Loses, OutNext
      <3> QED
        BY <2>8, <3>1, <3>2
    <2>13. \A k \in 1..Len(more) : more[k].what = "in" => t.input = more[k].of /\ Silent(more, more[k].of, k)
      <3> SUFFICES ASSUME NEW k \in 1..Len(more), more[k].what = "in"
                   PROVE  t.input = more[k].of /\ Silent(more, more[k].of, k)
        OBVIOUS
      <3>1. s.input # c
        BY DEF Own
      <3>2. more = outs \o ins
        BY <3>1
      <3>4. \A i \in 1..Len(outs) : outs[i].what = "out"
        BY <2>3 DEF Event
      <3>5. \A i \in 1..Len(ins) : ins[i].of = c
        BY <2>3 DEF Event
      <3>14. Len(outs) <= 1 /\ Len(ins) <= 1
        BY <2>3
      <3> HIDE DEF more
      <3>3. Len(outs) \in Nat /\ Len(ins) \in Nat /\ Len(outs) <= 1 /\ Len(ins) <= 1
            /\ Len(more) = Len(outs) + Len(ins)
            /\ \A i \in 1..Len(outs) : more[i] = outs[i]
        BY <2>3, <3>2, <3>14
      <3>13. \A i \in 1..Len(ins) : more[Len(outs) + i] = ins[i]
        BY <2>3, <3>2
      <3>6. k \notin 1..Len(outs)
        BY <3>3, <3>4
      <3>7. k = Len(more) /\ k - Len(outs) \in 1..Len(ins) /\ k = Len(outs) + (k - Len(outs))
        BY <3>3, <3>6
      <3>8. PICK l \in 1..Len(ins) : k = Len(outs) + l
        BY <3>7
      <3>11. more[Len(outs) + l] = ins[l]
        BY <3>13, Zenon
      <3>12. ins[l].of = c
        BY <3>5
      <3>9. more[k].of = c
        BY <3>8, <3>11, <3>12
      <3>10. Silent(more, more[k].of, k)
        BY <3>3, <3>7 DEF Silent, Own
      <3> QED
        BY <2>7, <3>9, <3>10
    <2> HIDE DEF more
    <2>14. Conveys(a, t)
      BY <2>5, <2>7, <2>8, <2>9, <2>11, <2>12, <2>13, ConveysBehind DEF Rerouted
    <2>15. Told(t)
      BY <2>9, <2>10, <2>14, ToldRerouted
    <2> QED
      BY <2>15 DEF t
  <1> HIDE DEF t
  <1>3. t = s \/ \E a, o, i : Asked(s, t, c, a, o, i)
    BY SetInputAsks DEF t
  <1> QED
    BY <1>1, <1>2, <1>3 DEF t

(* What Put appends to the queue.                                          *)
LEMMA PutQueue ==
  ASSUME NEW s \in State, NEW c \in Clients, NEW r, IsTold(r)
  PROVE  LET lost == s.input = c /\ r.notices # <<>> /\ Head(r.notices) = "unmap" IN
         /\ Put(s, c, r).input = IF lost THEN None ELSE s.input
         /\ \E e \in Seq(Events) :
              /\ Put(s, c, r).queue = s.queue \o e
              /\ \A k \in 1..Len(e) : e[k].of = c /\ e[k].what # "in"
              /\ r.notices = <<>> => e = <<>>
              /\ lost => Loses(e, c, 0)
  <1> DEFINE lost == s.input = c /\ r.notices # <<>> /\ Head(r.notices) = "unmap"
             told == [i \in DOMAIN r.notices |-> Event(r.notices[i], c)]
             out  == Event("out", c)
             new  == IF lost THEN <<Head(told), out>> \o Tail(told) ELSE told
             t    == Put(s, c, r)
  <1>1. r.notices \in Seq(V!Notices) /\ Len(r.notices) \in Nat
    BY DEF IsTold
  <1>2. /\ told \in Seq(Events) /\ Len(told) = Len(r.notices)
        /\ \A i \in 1..Len(told) : told[i].of = c /\ told[i].what = r.notices[i] /\ told[i].what # "in"
    <2>1. \A i \in 1..Len(r.notices) : Event(r.notices[i], c) \in Events
      BY <1>1 DEF Event, Events
    <2>2. \A i \in 1..Len(r.notices) : r.notices[i] # "in"
      BY <1>1 DEF V!Notices
    <2>3. told = [i \in 1..Len(r.notices) |-> Event(r.notices[i], c)]
      BY <1>1
    <2>4. told \in Seq(Events) /\ Len(told) = Len(r.notices)
      BY <1>1, <2>1, <2>3
    <2>5. ASSUME NEW i \in 1..Len(told)
          PROVE  told[i].of = c /\ told[i].what = r.notices[i] /\ told[i].what # "in"
      <3>1. told[i] = Event(r.notices[i], c)
        BY <2>3, <2>4
      <3>2. r.notices[i] # "in"
        BY <2>2, <2>4
      <3> QED
        BY <3>1, <3>2 DEF Event
    <2> QED
      BY <2>4, <2>5
  <1>3. out \in Events /\ out.of = c /\ out.what = "out"
    BY DEF Event, Events
  <1>4. t.queue = s.queue \o new /\ t.input = IF lost THEN None ELSE s.input
    BY DEF Put, State
  <1> HIDE DEF t, told, out
  <1>5. /\ new \in Seq(Events)
        /\ \A k \in 1..Len(new) : new[k].of = c /\ new[k].what # "in"
        /\ r.notices = <<>> => new = <<>>
        /\ lost => Loses(new, c, 0)
    <2>1. CASE ~lost
      <3>1. new = told
        BY <2>1
      <3>2. r.notices = <<>> => told = <<>>
        BY <1>1, <1>2
      <3> QED
        BY <1>2, <2>1, <3>1, <3>2
    <2>2. CASE lost
      <3>0. Len(told) \in Nat /\ Len(told) >= 1
        BY <1>1, <1>2, <2>2
      <3>1. /\ told # <<>> /\ Head(told) \in Events /\ Tail(told) \in Seq(Events)
            /\ Len(Tail(told)) = Len(told) - 1
            /\ Head(told) = told[1] /\ \A i \in 1..Len(Tail(told)) : Tail(told)[i] = told[i + 1]
        BY <1>2, <3>0
      <3> DEFINE h == Head(told)
                 e == Tail(told)
      <3>2. h.of = c /\ h.what = "unmap"
        BY <1>1, <1>2, <2>2, <3>0, <3>1
      <3>3. \A i \in 1..Len(e) : e[i].of = c /\ e[i].what # "in"
        BY <1>2, <3>0, <3>1
      <3>4. h \in Events /\ e \in Seq(Events)
        BY <3>1
      <3>5. new = <<h, out>> \o e
        BY <2>2
      <3> HIDE DEF new, h, e
      <3>6. /\ new \in Seq(Events) /\ Len(new) = 2 + Len(e) /\ Len(e) \in Nat
            /\ new[1] = h /\ new[2] = out
            /\ \A i \in 1..Len(e) : new[2 + i] = e[i]
        BY <1>3, <3>4, <3>5
      <3>7. ASSUME NEW k \in 1..Len(new) PROVE new[k].of = c /\ new[k].what # "in"
        <4>1. CASE k = 1
          BY <3>2, <3>6, <4>1
        <4>2. CASE k = 2
          BY <1>3, <3>6, <4>2
        <4>3. CASE k > 2
          <5>1. k - 2 \in 1..Len(e) /\ k = 2 + (k - 2)
            BY <3>6, <4>3
          <5>2. PICK i \in 1..Len(e) : k = 2 + i
            BY <5>1
          <5>3. new[2 + i] = e[i]
            BY <3>6
          <5> QED
            BY <3>3, <5>2, <5>3
        <4> QED
          BY <4>1, <4>2, <4>3
      <3>8. 1 \in Own(new, c) /\ 2 \in Own(new, c)
        BY <1>3, <3>2, <3>6 DEF Own, Notable, V!Notices
      <3>9. Follows(new, c, 0, 1) /\ Follows(new, c, 1, 2)
        BY <3>6, <3>8 DEF Follows, Own
      <3>10. Loses(new, c, 0)
        BY <1>3, <3>2, <3>6, <3>8, <3>9 DEF Loses, OutNext
      <3>11. r.notices # <<>>
        BY <2>2
      <3> QED
        BY <3>6, <3>7, <3>10, <3>11
    <2> QED
      BY <2>1, <2>2
  <1> HIDE DEF new, lost
  <1>6. \E e \in Seq(Events) :
          /\ t.queue = s.queue \o e
          /\ \A k \in 1..Len(e) : e[k].of = c /\ e[k].what # "in"
          /\ r.notices = <<>> => e = <<>>
          /\ lost => Loses(e, c, 0)
    BY <1>4, <1>5
  <1> QED
    BY <1>4, <1>6 DEF t, lost

(* A handler on client c: what is left of its window, and of its place in  *)
(* the manager.                                                            *)
LEMMA ToldPut ==
  ASSUME NEW s \in State, Told(s), NEW c \in Clients, NEW r, IsTold(r),
         s.client[c].win = "mapped" => IF r.notices = <<>> THEN r.win = "mapped" ELSE Head(r.notices) = "unmap",
         s.client[c].managed => r.managed /\ r.workspace = s.client[c].workspace,
         \/ Awaited(s.client[c]) => Awaited(r)
         \/ \A w \in Workspaces : s.desk[w].tracked # c
  PROVE  Told(Put(s, c, r))
  <1> DEFINE lost == s.input = c /\ r.notices # <<>> /\ Head(r.notices) = "unmap"
             t == Put(s, c, r)
             r2 == [r EXCEPT !.notices = <<>>]
  <1>1. t \in State /\ t.desk = s.desk /\ t.client[c] = r2
        /\ \A x \in Clients : x # c => t.client[x] = s.client[x]
    BY PutIs
  <1>2. t.input = IF lost THEN None ELSE s.input
    BY PutQueue
  <1>3. PICK e \in Seq(Events) :
              /\ t.queue = s.queue \o e
              /\ \A k \in 1..Len(e) : e[k].of = c /\ e[k].what # "in"
              /\ r.notices = <<>> => e = <<>>
              /\ lost => Loses(e, c, 0)
    BY PutQueue
  <1> HIDE DEF t
  <1>4. r2 \in Record /\ r2.win = r.win /\ r2.managed = r.managed /\ r2.workspace = r.workspace
        /\ r2.state = r.state /\ r2.pending_unmap = r.pending_unmap
    BY DEF IsTold, Record
  <1> HIDE DEF r2
  <1>5. s.input = c => s.client[c].win = "mapped"
    BY FocusAssumption DEF Told, HasInput
  <1>6. HasInput(t)
    <2>1. CASE s.input = c
      <3>1. CASE r.notices = <<>>
        BY <1>1, <1>2, <1>4, <1>5, <2>1, <3>1 DEF HasInput
      <3>2. CASE r.notices # <<>>
        BY <1>2, <1>5, <2>1, <3>2 DEF HasInput
      <3> QED
        BY <3>1, <3>2
    <2>2. CASE s.input # c
      BY <1>1, <1>2, <2>2 DEF HasInput, Told, State
    <2> QED
      BY <2>1, <2>2
  <1>7. s.input # None => \/ t.input = s.input /\ Own(e, s.input) = {}
                          \/ Loses(e, s.input, 0)
    <2>1. CASE s.input = c
      <3>1. CASE r.notices = <<>>
        BY <1>2, <1>3, <3>1 DEF Own
      <3>2. CASE r.notices # <<>>
        BY <1>3, <1>5, <2>1, <3>2
      <3> QED
        BY <3>1, <3>2
    <2>2. CASE s.input # c
      BY <1>2, <1>3, <2>2 DEF Own
    <2> QED
      BY <2>1, <2>2
  <1>8. Conveys(s, t)
    BY <1>1, <1>3, <1>6, <1>7, ConveysBehind
  <1>9. Tame(s, t)
    <2>1. \A w \in Workspaces : /\ t.desk[w].tracked \in {s.desk[w].tracked, None}
                                /\ t.desk[w].before \in {s.desk[w].before, s.desk[w].tracked, None}
      BY <1>1
    <2>2. ASSUME NEW x \in Clients, NEW w \in Workspaces
          PROVE  /\ t.desk[w].tracked = x \/ t.desk[w].before = x =>
                      (s.client[x].managed => t.client[x].managed /\ t.client[x].workspace = s.client[x].workspace)
                 /\ t.desk[w].tracked = x =>
                      (Awaited(s.client[x]) => Awaited(t.client[x]) \/ OutNext(t.queue, x, 0))
      <3>1. CASE x = c
        <4>1. Awaited(r) => Awaited(r2)
          BY <1>4 DEF Awaited
        <4> QED
          BY <1>1, <1>4, <3>1, <4>1
      <3>2. CASE x # c
        BY <1>1, <3>2
      <3> QED
        BY <3>1, <3>2
    <2> QED
      BY <2>1, <2>2 DEF Tame
  <1>10. Told(t)
    BY <1>8, <1>9, ToldTame
  <1> QED
    BY <1>10 DEF t

-----------------------------------------------------------------------------
(* An event is read.                                                       *)

(* What the handler of the head of the queue may rely on.                  *)
Read ==
  /\ Points(Rest) /\ HasInput(Rest) /\ InsSafe(Rest)
  /\ \A w \in Workspaces, c \in Clients : desk[w].tracked = c =>
       \/ Of = c /\ Head(queue).what = "out"
       \/ /\ Safe(Rest, c, 0) /\ (OutNext(Rest.queue, c, 0) \/ Awaited(client[c]))
          /\ Of = c => Head(queue).what \in {"unmap", "enter"}
          /\ Of = c /\ Head(queue).what = "unmap" => Awaited(client[c]) /\ OutNext(Rest.queue, c, 0)
  /\ Head(queue).what = "in" => Safe(Rest, Of, 0)

LEMMA RestTold ==
  ASSUME Sound(Now), Told(Now), queue # <<>>
  PROVE  Read
  <1> DEFINE q == queue
             p == Tail(q)
             f == [i \in 0..Len(p) |-> i + 1]
             e == Head(q)
  <1>1. /\ Rest.client = client /\ Rest.desk = desk /\ Rest.current = current
        /\ Rest.input = input /\ Rest.queue = p /\ e \in Events
    BY RestIs
  <1>2. Now.client = client /\ Now.desk = desk /\ Now.input = input /\ Now.queue = q
    BY DEF Now
  <1>3. q \in Seq(Events)
    BY <1>2 DEF Sound, State
  <1>4. /\ p \in Seq(Events) /\ Len(p) \in Nat /\ Len(q) = Len(p) + 1 /\ e = q[1]
        /\ \A k \in 1..Len(p) : p[k] = q[k + 1]
    BY <1>3
  <1> HIDE DEF p, e, q
  <1>5. f[0] = 1 /\ \A i \in 0..Len(p) : f[i] = i + 1
    BY <1>4
  <1>6. Thin(q, p, f)
    <2>1. f \in [0..Len(p) -> 0..Len(q)]
      BY <1>4
    <2>2. \A i, j \in 0..Len(p) : i < j => f[i] < f[j]
      BY <1>4
    <2>3. \A k \in 1..Len(p) : p[k].what = q[f[k]].what /\ p[k].of = q[f[k]].of
      BY <1>4
    <2>4. ASSUME NEW j \in 1..Len(q), j > f[0] PROVE \E k \in 1..Len(p) : f[k] = j
      <3>1. j - 1 \in 1..Len(p) /\ f[j - 1] = j
        BY <1>4, <1>5, <2>4
      <3> QED
        BY <3>1
    <2> HIDE DEF f
    <2> QED
      BY <2>1, <2>2, <2>3, <2>4 DEF Thin
  <1> HIDE DEF f
  <1>7. ASSUME NEW c, NEW i \in 0..Len(p)
        PROVE  /\ OutNext(q, c, i + 1) => OutNext(p, c, i)
               /\ Loses(q, c, i + 1) => Loses(p, c, i)
               /\ Silent(q, c, i + 1) => Silent(p, c, i)
    <2>1. f[i] = i + 1
      BY <1>5
    <2> QED
      BY <1>3, <1>4, <1>6, <2>1, ThinKeeps
  <1>8. ASSUME NEW c, NEW i \in 0..Len(p), Safe(Now, c, i + 1) PROVE Safe(Rest, c, i)
    BY <1>1, <1>2, <1>7, <1>8 DEF Safe
  <1>9. 0 \in 0..Len(p) /\ 0 + 1 = 1 /\ 1 \in 1..Len(q)
    BY <1>4
  <1>10. Points(Rest) /\ HasInput(Rest)
    BY <1>1, <1>2 DEF Told, Points, HasInput
  <1>11. InsSafe(Rest)
    <2> SUFFICES ASSUME NEW i \in 1..Len(p), p[i].what = "in" PROVE Safe(Rest, p[i].of, i)
      BY <1>1 DEF InsSafe
    <2>1. i + 1 \in 1..Len(q) /\ i \in 0..Len(p) /\ q[i + 1] = p[i]
      BY <1>4
    <2>2. Safe(Now, p[i].of, i + 1)
      BY <1>2, <2>1 DEF Told, InsSafe
    <2> QED
      BY <1>8, <2>1, <2>2
  <1>12. ASSUME e.what = "in" PROVE Safe(Rest, e.of, 0)
    <2>1. Safe(Now, e.of, 1)
      BY <1>2, <1>4, <1>9, <1>12 DEF Told, InsSafe
    <2> QED
      BY <1>8, <1>9, <2>1
  <1>13. ASSUME NEW w \in Workspaces, NEW c \in Clients, desk[w].tracked = c
         PROVE  \/ e.of = c /\ e.what = "out"
                \/ /\ Safe(Rest, c, 0) /\ (OutNext(p, c, 0) \/ Awaited(client[c]))
                   /\ e.of = c => e.what \in {"unmap", "enter"}
                   /\ e.of = c /\ e.what = "unmap" => Awaited(client[c]) /\ OutNext(p, c, 0)
    <2>1. Safe(Now, c, 0) /\ (OutNext(q, c, 0) \/ Awaited(client[c]))
      BY <1>2, <1>13 DEF Told, TrackedSafe
    <2>2. Own(q, c) \subseteq 1..Len(q)
      BY DEF Own
    <2>3. CASE 1 \in Own(q, c)
      <3>1. \A k : Follows(q, c, 0, k) => k = 1
        BY <2>2, <2>3, <1>4 DEF Follows
      <3>2. ~Silent(q, c, 0)
        BY <2>3 DEF Silent
      <3>3. Loses(q, c, 0)
        BY <1>2, <2>1, <3>2 DEF Safe
      <3>4. OutNext(q, c, 0) => e.what = "out"
        BY <1>4, <3>1 DEF OutNext
      <3>5. e.what = "out" \/ (e.what = "unmap" /\ OutNext(q, c, 1))
        BY <1>4, <3>1, <3>3, <3>4 DEF Loses
      <3>6. e.of = c
        BY <1>4, <2>3 DEF Own
      <3>7. CASE e.what = "out"
        BY <3>6, <3>7
      <3>8. CASE e.what = "unmap" /\ OutNext(q, c, 1)
        <4>1. OutNext(p, c, 0)
          BY <1>7, <1>9, <3>8
        <4>2. Awaited(client[c])
          BY <2>1, <3>4, <3>8
        <4>3. Safe(Rest, c, 0)
          BY <1>1, <4>1 DEF Safe, Loses
        <4> QED
          BY <3>8, <4>1, <4>2, <4>3
      <3> QED
        BY <3>5, <3>7, <3>8
    <2>4. CASE 1 \notin Own(q, c)
      <3>1. ASSUME NEW k, Follows(q, c, 0, k) PROVE Follows(q, c, 1, k)
        <4>1. k \in 1..Len(q) /\ k # 1
          BY <2>2, <2>4, <3>1 DEF Follows
        <4>2. 1 < k
          BY <1>4, <4>1
        <4>3. \A j \in Own(q, c) : 1 < j => 0 < j
          BY <1>4, <2>2
        <4> QED
          BY <3>1, <4>2, <4>3 DEF Follows
      <3>2. OutNext(q, c, 0) => OutNext(q, c, 1)
        BY <3>1 DEF OutNext
      <3>3. Loses(q, c, 0) => Loses(q, c, 1)
        BY <3>1, <3>2 DEF Loses
      <3>4. Silent(q, c, 0) => Silent(q, c, 1)
        BY <2>2, <1>4 DEF Silent
      <3>5. Safe(Now, c, 1)
        BY <1>2, <2>1, <3>3, <3>4 DEF Safe
      <3>6. Safe(Rest, c, 0)
        BY <1>8, <1>9, <3>5
      <3>7. OutNext(p, c, 0) \/ Awaited(client[c])
        BY <1>7, <1>9, <2>1, <3>2
      <3>8. e.of = c => e.what = "enter"
        <4>1. e.of = c => e.what \notin Notable
          BY <1>4, <1>9, <2>4 DEF Own
        <4>2. ASSUME e.of = c, e.what = "key" PROVE FALSE
          <5>1. e \in [what : {"key"}, of : {None}, late : BOOLEAN]
            BY <1>1, <4>2 DEF Events, V!Notices
          <5>2. e.of = None
            BY <5>1
          <5> QED
            BY <4>2, <5>2, FocusAssumption
        <4> QED
          BY <1>1, <4>1, <4>2 DEF Notable, Events
      <3> QED
        BY <3>6, <3>7, <3>8
    <2> QED
      BY <2>3, <2>4
  <1> QED
    BY <1>1, <1>10, <1>11, <1>12, <1>13 DEF Read, Of, e, q

-----------------------------------------------------------------------------
(* The calls the handlers are made of.                                     *)

LEMMA ToldDesk ==
  ASSUME NEW s \in State, Told(s), NEW w \in Workspaces, NEW d \in Desk,
         d.tracked \in {s.desk[w].tracked, None},
         d.before \in {s.desk[w].before, s.desk[w].tracked, None}
  PROVE  Told(SetDesk(s, w, d))
  <1> DEFINE t == SetDesk(s, w, d)
  <1>1. /\ t \in State /\ t.current = s.current /\ t.client = s.client
        /\ t.input = s.input /\ t.queue = s.queue
        /\ t.desk[w] = d /\ \A u \in Workspaces : u # w => t.desk[u] = s.desk[u]
    BY SetDeskIs
  <1> HIDE DEF t
  <1>2. Stays(s, t)
    BY <1>1 DEF Stays
  <1>3. \A u \in Workspaces : /\ t.desk[u].tracked \in {s.desk[u].tracked, None}
                              /\ t.desk[u].before \in {s.desk[u].before, s.desk[u].tracked, None}
    BY <1>1
  <1>4. Told(t)
    BY <1>1, <1>2, <1>3, ToldStays
  <1> QED
    BY <1>4 DEF t

LEMMA ToldUntrack ==
  ASSUME NEW s \in State, Told(s), NEW w \in Workspaces
  PROVE  Told(Track(s, w, None))
  <1> DEFINE d == [s.desk[w] EXCEPT !.tracked = None]
  <1>1. d \in Desk /\ d.tracked = None /\ d.before = s.desk[w].before
    BY DEF State, Desk
  <1>2. Track(s, w, None) = SetDesk(s, w, d)
    BY DEF Track
  <1> HIDE DEF d
  <1> QED
    BY <1>1, <1>2, ToldDesk

LEMMA ToldRestacked ==
  ASSUME NEW s \in State, Told(s), NEW t, Restacked(s, t)
  PROVE  Told(t)
  <1>1. Stays(s, t)
    BY StaysRestacked
  <1>2. t.queue = s.queue /\ t.input = s.input
    BY DEF Restacked
  <1>3. \A w \in Workspaces : t.desk[w].tracked = s.desk[w].tracked /\ t.desk[w].before = s.desk[w].before
    BY DEF Restacked, State, Desk
  <1> QED
    BY <1>1, <1>2, <1>3, ToldStays

LEMMA ToldSetFullscreen ==
  ASSUME NEW s \in State, Told(s), NEW w \in Workspaces, NEW c \in Clients
  PROVE  Told(SetFullscreen(s, w, c)) /\ SetFullscreen(s, w, c) \in State
  <1> DEFINE t == SetFullscreen(s, w, c)
  <1>1. /\ t \in State /\ t.input = s.input /\ t.queue = s.queue
        /\ t.desk[w] = [s.desk[w] EXCEPT !.full = c]
        /\ \A u \in Workspaces : u # w => t.desk[u] = s.desk[u]
    BY SetFullscreenIs
  <1>2. Stays(s, t)
    BY StaysSetFullscreen
  <1> HIDE DEF t
  <1>3. \A u \in Workspaces : t.desk[u].tracked = s.desk[u].tracked /\ t.desk[u].before = s.desk[u].before
    <2>1. s.desk[w] \in Desk
      BY DEF State
    <2>2. t.desk[w].tracked = s.desk[w].tracked /\ t.desk[w].before = s.desk[w].before
      BY <1>1, <2>1 DEF Desk
    <2> QED
      BY <1>1, <2>2
  <1>4. Told(t)
    BY <1>1, <1>2, <1>3, ToldStays
  <1> QED
    BY <1>1, <1>4 DEF t

LEMMA ToldSetCurrentFocus ==
  ASSUME NEW s \in State, Told(s), NEW c \in Clients \cup {None}, NEW time
  PROVE  Told(SetCurrentFocus(s, c, time))
  <1>1. CASE c = None
    <2>1. SetInput(s, None, time) \in State /\ SetInput(s, None, time).current = s.current
      BY SetInputIs DEF Rerouted
    <2>2. Told(SetInput(s, None, time))
      BY ToldSetInput
    <2>3. SetCurrentFocus(s, c, time) = Track(SetInput(s, None, time), s.current, None)
      BY <1>1 DEF SetCurrentFocus
    <2>4. s.current \in Workspaces
      BY DEF State
    <2> QED
      BY <2>1, <2>2, <2>3, <2>4, ToldUntrack
  <1>2. CASE c # None
    <2>1. c \in Clients /\ s.current \in Workspaces
      BY <1>2 DEF State
    <2> DEFINE u == Arrange(SetFullscreen(s, s.current, c))
    <2>2. u \in State /\ Told(u)
      BY <2>1, ToldSetFullscreen, ArrangeIs, ToldArrange DEF Rerouted
    <2>3. Told(SetInput(s, c, time)) /\ Told(SetInput(u, c, time))
      BY <2>2, ToldSetInput
    <2>4. SetCurrentFocus(s, c, time) \in {s, SetInput(s, c, time), SetInput(u, c, time)}
      BY <1>2 DEF SetCurrentFocus
    <2> HIDE DEF u
    <2> QED
      BY <2>3, <2>4
  <1> QED
    BY <1>1, <1>2

LEMMA ToldArrangeJustify ==
  ASSUME NEW s \in State, Told(s), NEW first
  PROVE  Told(ArrangeJustify(s, first))
  <1>1. Told(Arrange(s)) /\ Arrange(s) \in State
    BY ToldArrange, ArrangeIs DEF Rerouted
  <1>2. NextFocus(s, s.current, first) \in Clients \cup {None}
    BY NextFocusIs
  <1>3. Told(SetCurrentFocus(Arrange(s), NextFocus(s, s.current, first), "current"))
    BY <1>1, <1>2, ToldSetCurrentFocus
  <1> QED
    BY <1>1, <1>3 DEF ArrangeJustify

(* A client that is freed is left nowhere.                                 *)
LEMMA ToldFreed ==
  ASSUME NEW s \in State, Told(s), NEW c \in Clients, NEW f \in State, Freed(s, f, c),
         \A w \in Workspaces : s.desk[w].tracked = c => w = s.current
  PROVE  Told(f)
  <1>1. f.queue = s.queue /\ f.input = s.input
    BY DEF Freed
  <1>2. \A x \in Clients : x # c => /\ f.client[x].win = s.client[x].win
                                    /\ f.client[x].managed = s.client[x].managed
                                    /\ f.client[x].workspace = s.client[x].workspace
                                    /\ f.client[x].state = s.client[x].state
                                    /\ f.client[x].pending_unmap = s.client[x].pending_unmap
    <2> SUFFICES ASSUME NEW x \in Clients, x # c
                 PROVE  /\ f.client[x].win = s.client[x].win
                        /\ f.client[x].managed = s.client[x].managed
                        /\ f.client[x].workspace = s.client[x].workspace
                        /\ f.client[x].state = s.client[x].state
                        /\ f.client[x].pending_unmap = s.client[x].pending_unmap
      OBVIOUS
    <2>1. f.client[x] = [s.client[x] EXCEPT !.next = f.client[x].next]
      BY DEF Freed
    <2>2. s.client[x] \in Record
      BY DEF State
    <2> QED
      BY <2>1, <2>2 DEF Record
  <1>3. f.client[c].win = s.client[c].win
    BY DEF Freed
  <1>4. Conveys(s, f)
    BY <1>1, <1>2, <1>3, ConveysSame
  <1>5. \A w \in Workspaces : f.desk[w].tracked \in {s.desk[w].tracked, None} /\ f.desk[w].tracked # c
    BY FocusAssumption DEF Freed
  <1>6. \A w \in Workspaces : f.desk[w].before \in {s.desk[w].before, None} /\ f.desk[w].before # c
    <2> SUFFICES ASSUME NEW w \in Workspaces
                 PROVE  f.desk[w].before \in {s.desk[w].before, None} /\ f.desk[w].before # c
      OBVIOUS
    <2>1. f.desk[w].before = s.desk[w].before \/ f.desk[w].before = None
      BY DEF Freed
    <2>2. s.desk[w].before = c => w = s.client[c].workspace
      BY DEF Told, Points
    <2>3. w = s.client[c].workspace => f.desk[w].before # c
      BY DEF Freed
    <2> QED
      BY <2>1, <2>2, <2>3, FocusAssumption
  <1>7. Tame(s, f)
    BY <1>2, <1>5, <1>6 DEF Tame, Awaited
  <1> QED
    BY <1>4, <1>7, ToldTame

LEMMA ToldEndManage ==
  ASSUME NEW s, Sound(s), Told(s), NEW c \in Clients, s.client[c].managed, NEW first,
         \A w \in Workspaces : s.desk[w].tracked = c => w = s.current
  PROVE  Told(EndManage(s, c, first))
  <1>1. PICK f, n : /\ Sound(f) /\ Freed(s, f, c) /\ n \in Clients \cup {None}
                    /\ EndManage(s, c, first) = SetCurrentFocus(f, n, "current")
    BY EndManageIs
  <1>2. s \in State /\ f \in State
    BY <1>1 DEF Sound
  <1>3. Told(f)
    BY <1>1, <1>2, ToldFreed
  <1> QED
    BY <1>1, <1>2, <1>3, ToldSetCurrentFocus

LEMMA ToldCounted ==
  ASSUME NEW s, Sound(s), Told(s), NEW w \in Workspaces
  PROVE  /\ Sound(CountMapped(s, w)) /\ Told(CountMapped(s, w))
         /\ CountMapped(s, w).client = s.client /\ CountMapped(s, w).current = s.current
         /\ CountMapped(s, w).queue = s.queue
         /\ \A u \in Workspaces : CountMapped(s, w).desk[u].tracked = s.desk[u].tracked
         /\ Sound(CountUnmapped(s, w)) /\ Told(CountUnmapped(s, w))
         /\ CountUnmapped(s, w).client = s.client /\ CountUnmapped(s, w).current = s.current
         /\ CountUnmapped(s, w).queue = s.queue
         /\ \A u \in Workspaces : CountUnmapped(s, w).desk[u].tracked = s.desk[u].tracked
  <1>1. /\ Sound(CountMapped(s, w)) /\ Counted(s, CountMapped(s, w))
        /\ Sound(CountUnmapped(s, w)) /\ Counted(s, CountUnmapped(s, w))
    BY SoundCount
  <1>2. ASSUME NEW t, Counted(s, t) PROVE Told(t)
    <2>1. s \in State
      BY DEF Sound
    <2>2. Stays(s, t)
      BY <1>2 DEF Counted, Stays
    <2>3. t.queue = s.queue /\ t.input = s.input
      BY <1>2 DEF Counted
    <2>4. \A u \in Workspaces : /\ t.desk[u].tracked \in {s.desk[u].tracked, None}
                                /\ t.desk[u].before \in {s.desk[u].before, s.desk[u].tracked, None}
      BY <1>2 DEF Counted
    <2> QED
      BY <2>1, <2>2, <2>3, <2>4, ToldStays
  <1>3. Told(CountMapped(s, w)) /\ Told(CountUnmapped(s, w))
    BY <1>1, <1>2
  <1> QED
    BY <1>1, <1>3 DEF Counted

(* A client whose window and place are left alone.                         *)
LEMMA ToldMark ==
  ASSUME NEW s \in State, Told(s), NEW c \in Clients, NEW r \in Record,
         r.managed = s.client[c].managed, r.workspace = s.client[c].workspace,
         r.place = s.client[c].place, r.win = s.client[c].win,
         r.state = s.client[c].state, r.pending_unmap = s.client[c].pending_unmap
  PROVE  Told(SetClient(s, c, r)) /\ SetClient(s, c, r) \in State /\ SetClient(s, c, r).desk = s.desk
  <1> DEFINE t == SetClient(s, c, r)
  <1>1. /\ t \in State /\ t.current = s.current /\ t.desk = s.desk
        /\ t.input = s.input /\ t.queue = s.queue
        /\ t.client[c] = r /\ \A x \in Clients : x # c => t.client[x] = s.client[x]
    BY SetClientIs
  <1> HIDE DEF t
  <1>2. Stays(s, t)
    BY <1>1 DEF Stays
  <1>3. Told(t)
    BY <1>1, <1>2, ToldStays
  <1> QED
    BY <1>1, <1>3 DEF t

(* What a handler adds to a record says nothing of its window.             *)
LEMMA MarkedIs ==
  ASSUME NEW r, IsTold(r), NEW x, x = [r EXCEPT !.want = TRUE] \/ x = [r EXCEPT !.map_after = FALSE]
  PROVE  /\ IsTold(x) /\ x.win = r.win /\ x.notices = r.notices /\ x.managed = r.managed
         /\ x.workspace = r.workspace /\ (Awaited(r) => Awaited(x))
  <1> DEFINE y == [r EXCEPT !.notices = <<>>]
  <1>1. y \in Record /\ r.notices \in Seq(V!Notices)
    BY DEF IsTold
  <1>2. /\ x.win = r.win /\ x.notices = r.notices /\ x.managed = r.managed
        /\ x.workspace = r.workspace /\ x.state = r.state /\ x.pending_unmap = r.pending_unmap
    BY <1>1 DEF Record
  <1>3. [x EXCEPT !.notices = <<>>] \in Record
    <2>1. CASE x = [r EXCEPT !.want = TRUE]
      <3>1. [x EXCEPT !.notices = <<>>] = [y EXCEPT !.want = TRUE]
        BY <1>1, <2>1 DEF Record
      <3> HIDE DEF y
      <3> QED
        BY ZenonT(60), <1>1, <3>1 DEF Record
    <2>2. CASE x = [r EXCEPT !.map_after = FALSE]
      <3>1. [x EXCEPT !.notices = <<>>] = [y EXCEPT !.map_after = FALSE]
        BY <1>1, <2>2 DEF Record
      <3> HIDE DEF y
      <3> QED
        BY ZenonT(60), <1>1, <3>1 DEF Record
    <2> QED
      BY <2>1, <2>2
  <1> QED
    BY <1>1, <1>2, <1>3 DEF IsTold, Awaited

-----------------------------------------------------------------------------
(* The handlers.                                                           *)

LEMMA ToldHandleMapRequest ==
  ASSUME NEW s, Sound(s), Told(s), NEW c \in Clients, \A w \in Workspaces : s.desk[w].tracked # c
  PROVE  Told(HandleMapRequest(s, c))
  <1> DEFINE r     == s.client[c]
             new   == V!HandleMapRequest(r, s.current)
             wide  == CountMapped(s, new.workspace)
             count == IF ~r.managed /\ new.mapped THEN wide ELSE s
             x     == [new EXCEPT !.want = TRUE]
  <1>1. s \in State /\ s.current \in Workspaces /\ r \in Record /\ RecordOK(r, s.current)
    BY DEF Sound, State, Records
  <1>2. /\ IsTold(new) /\ RecordOK(new, s.current) /\ Fits(r, new) /\ new.managed
        /\ r.win = "mapped" => IF new.notices = <<>> THEN new.win = "mapped" ELSE Head(new.notices) = "unmap"
        /\ r.managed => Tells(r, new)
    BY <1>1, HandleMapRequestIs
  <1> HIDE DEF new
  <1>3. new.workspace \in Workspaces
    BY <1>2 DEF RecordOK
  <1>4. /\ Sound(wide) /\ Told(wide) /\ wide.client = s.client
        /\ \A u \in Workspaces : wide.desk[u].tracked = s.desk[u].tracked
    <2> DEFINE w == new.workspace
    <2>1. w \in Workspaces
      BY <1>3
    <2> HIDE DEF w
    <2>2. /\ Sound(CountMapped(s, w)) /\ Told(CountMapped(s, w)) /\ CountMapped(s, w).client = s.client
          /\ \A u \in Workspaces : CountMapped(s, w).desk[u].tracked = s.desk[u].tracked
      BY <2>1, ToldCounted
    <2> QED
      BY <2>2 DEF w
  <1> HIDE DEF wide
  <1>5. /\ Told(count) /\ count \in State /\ count.client[c] = r
        /\ \A w \in Workspaces : count.desk[w].tracked # c
    BY <1>1, <1>4 DEF Sound
  <1> HIDE DEF count
  <1>6. /\ IsTold(x) /\ x.win = new.win /\ x.notices = new.notices /\ x.managed = new.managed
        /\ x.workspace = new.workspace
    BY <1>2, MarkedIs
  <1> HIDE DEF x
  <1>7. r.managed => x.managed /\ x.workspace = r.workspace
    BY <1>2, <1>6 DEF Fits
  <1>8. Told(Put(count, c, x))
    BY <1>2, <1>5, <1>6, <1>7, ToldPut
  <1> QED
    BY <1>8 DEF HandleMapRequest, x, count, new, wide

LEMMA ToldHandleUnmapNotify ==
  ASSUME NEW s, Sound(s), Told(s), NEW c \in Clients, NEW first,
         \A w \in Workspaces : s.desk[w].tracked = c =>
           Awaited(s.client[c]) /\ OutNext(s.queue, c, 0)
  PROVE  Told(HandleUnmapNotify(s, c, first))
  <1> DEFINE r       == s.client[c]
             counted == CountUnmapped(s, r.workspace)
             kept    == [V!HandleUnmapNotify([r EXCEPT !.map_after = FALSE]) EXCEPT
                           !.map_after = r.map_after, !.moved = FALSE]
             own     == SetClient(counted, c, kept)
             settled == IF r.workspace = s.current \/ r.moved THEN ArrangeJustify(own, first) ELSE own
             ended   == EndManage(counted, c, first)
             q       == settled.client[c]
             x       == [V!MapClient(q) EXCEPT !.map_after = FALSE]
  <1>1. s \in State /\ s.current \in Workspaces /\ r \in Record /\ RecordOK(r, s.current)
    BY DEF Sound, State, Records
  <1>2. CASE ~r.managed
    BY <1>2 DEF HandleUnmapNotify
  <1>3. CASE r.managed
    <2>1. r.workspace \in Workspaces
      BY <1>1, <1>3 DEF RecordOK
    <2>2. /\ Sound(counted) /\ Told(counted) /\ counted.client = s.client /\ counted.current = s.current
          /\ counted.queue = s.queue
          /\ \A u \in Workspaces : counted.desk[u].tracked = s.desk[u].tracked
      <3> DEFINE w == r.workspace
      <3>1. w \in Workspaces
        BY <2>1
      <3> HIDE DEF w
      <3>2. /\ Sound(CountUnmapped(s, w)) /\ Told(CountUnmapped(s, w))
            /\ CountUnmapped(s, w).client = s.client /\ CountUnmapped(s, w).current = s.current
            /\ CountUnmapped(s, w).queue = s.queue
            /\ \A u \in Workspaces : CountUnmapped(s, w).desk[u].tracked = s.desk[u].tracked
        BY <3>1, ToldCounted
      <3> QED
        BY <3>2 DEF w
    <2> HIDE DEF counted
    <2>3. counted.client[c] = r /\ counted \in State
      BY <2>2 DEF Sound
    <2>4. CASE r.pending_unmap = 0
      <3>1. \A w \in Workspaces : counted.desk[w].tracked = c => w = counted.current
        <4> SUFFICES ASSUME NEW w \in Workspaces, s.desk[w].tracked = c PROVE w = s.current
          BY <2>2
        <4>1. r.state = "MAPPED"
          BY <2>4 DEF Awaited
        <4>2. r.workspace = w
          BY DEF Told, Points
        <4> QED
          BY <1>1, <1>3, <4>1, <4>2 DEF RecordOK
      <3>2. Sound(ended) /\ Told(ended)
        BY <1>3, <2>2, <2>3, <3>1, ToldEndManage, SoundEndManage
      <3>3. HandleUnmapNotify(s, c, first) = IF r.workspace = s.current THEN Arrange(ended) ELSE ended
        BY <1>3, <2>4 DEF HandleUnmapNotify, counted
      <3> HIDE DEF ended
      <3> QED
        BY <3>2, <3>3, ToldArrange DEF Sound
    <2>5. CASE r.pending_unmap > 0
      <3>1. /\ kept \in Record /\ RecordOK(kept, s.current) /\ Fits(r, kept) /\ kept.managed
            /\ kept.win = r.win
        BY <1>1, <1>3, <2>5, UnmapNotedIs
      <3> HIDE DEF kept
      <3>2. /\ own \in State /\ own.current = counted.current /\ own.desk = counted.desk
            /\ own.input = counted.input /\ own.queue = counted.queue
            /\ own.client[c] = kept /\ \A y \in Clients : y # c => own.client[y] = counted.client[y]
        BY <2>3, <3>1, SetClientIs
      <3>13. Sound(own)
        BY <2>2, <2>3, <3>1, SoundSetClient
      <3> HIDE DEF own
      <3>3. Conveys(counted, own)
        <4>1. \A y \in Clients : own.client[y].win = counted.client[y].win
          BY <2>3, <3>1, <3>2
        <4> QED
          BY <2>2, <2>3, <3>2, <4>1, ConveysSame
      <3>4. Tame(counted, own)
        <4>1. \A w \in Workspaces : own.desk[w].tracked = c => OutNext(own.queue, c, 0)
          BY <2>2, <3>2
        <4>2. kept.managed /\ kept.workspace = r.workspace
          BY <1>3, <3>1 DEF Fits
        <4> QED
          BY <2>3, <3>2, <4>1, <4>2 DEF Tame
      <3>5. Told(own)
        BY <2>2, <3>3, <3>4, ToldTame
      <3>6. Told(settled) /\ Stays(own, settled) /\ Sound(settled)
        <4>1. Told(ArrangeJustify(own, first))
          BY <3>2, <3>5, ToldArrangeJustify
        <4>2. Stays(own, ArrangeJustify(own, first)) /\ Sound(ArrangeJustify(own, first))
          BY <3>2, <3>13, StaysArrangeJustify, SoundArrangeJustify
        <4>3. Stays(own, own)
          BY DEF Stays
        <4> QED
          BY <3>5, <3>13, <4>1, <4>2, <4>3
      <3> HIDE DEF settled
      <3>7. q \in Record /\ q.managed /\ RecordOK(q, settled.current)
        BY <3>1, <3>2, <3>6 DEF Stays, Sound, State, Records
      <3> DEFINE y == V!MapClient(q)
      <3>8. IsTold(y) /\ Fits(q, y) /\ Tells(q, y)
        BY <3>7, RecordIsTold, MapClientIs
      <3>9. IsTold(x) /\ x.win = y.win /\ x.notices = y.notices /\ x.managed = y.managed
            /\ x.workspace = y.workspace /\ (Awaited(y) => Awaited(x))
        BY <3>8, MarkedIs
      <3> HIDE DEF x, y
      <3>10. /\ q.win = "mapped" => IF x.notices = <<>> THEN x.win = "mapped" ELSE Head(x.notices) = "unmap"
             /\ q.managed => x.managed /\ x.workspace = q.workspace
             /\ Awaited(q) => Awaited(x)
        BY <3>8, <3>9 DEF Tells, Fits
      <3>11. Told(Put(settled, c, x))
        BY <3>6, <3>9, <3>10, ToldPut DEF Sound
      <3>12. HandleUnmapNotify(s, c, first) = IF r.map_after THEN Put(settled, c, x) ELSE settled
        BY <1>3, <2>5 DEF HandleUnmapNotify, settled, own, kept, x, counted
      <3> QED
        BY <3>6, <3>11, <3>12
    <2> QED
      <3>1. r.pending_unmap \in Nat
        BY <1>1 DEF Record
      <3> QED
        BY <2>4, <2>5, <3>1
  <1> QED
    BY <1>2, <1>3

LEMMA ToldHandleMapNotify ==
  ASSUME NEW s, Sound(s), Told(s), NEW c \in Clients, NEW first,
         \A w \in Workspaces : s.desk[w].tracked # c
  PROVE  Told(HandleMapNotify(s, c, first))
  <1> DEFINE r    == s.client[c]
             cur  == s.current
             full == s.desk[cur].full
             counted == CountMapped(s, r.workspace)
             x == V!HandleMapNotify(r, cur, FALSE)
             shown == Put(counted, c, x)
             before == s.desk[cur].before
             f == IF full = None THEN c ELSE full
             asked == SetCurrentFocus(shown, f, "current")
             given == SetCurrentFocus(shown, c, "current")
             y == [asked.client[c] EXCEPT !.want = FALSE]
             wanted == SetClient(asked, c, y)
             d == [asked.desk[cur] EXCEPT !.before = IF @ = c THEN None ELSE @]
             cleared == SetDesk(wanted, cur, d)
             nf == NextFocus(shown, cur, first)
             res == HandleMapNotify(s, c, first)
  <1>1. /\ s \in State /\ cur \in Workspaces /\ r \in Record /\ RecordOK(r, cur) /\ None \notin Clients
        /\ full \in Clients \cup {None}
    BY FocusAssumption DEF Sound, State, Records, Desk
  <1>2. CASE ~r.managed
    BY <1>2 DEF HandleMapNotify
  <1>3. CASE r.managed
    <2>1. r.workspace \in Workspaces
      BY <1>1, <1>3 DEF RecordOK
    <2>2. /\ Told(counted) /\ counted \in State /\ counted.client = s.client
          /\ \A u \in Workspaces : counted.desk[u].tracked # c
      <3> DEFINE w == r.workspace
      <3>1. w \in Workspaces
        BY <2>1
      <3> HIDE DEF w
      <3>2. /\ Sound(CountMapped(s, w)) /\ Told(CountMapped(s, w))
            /\ CountMapped(s, w).client = s.client
            /\ \A u \in Workspaces : CountMapped(s, w).desk[u].tracked = s.desk[u].tracked
        BY <3>1, ToldCounted
      <3> QED
        BY <3>2 DEF w, Sound
    <2>3. \/ res = shown
          \/ r.workspace = cur /\ res = Arrange(SetFullscreen(given, cur, c))
          \/ res = Arrange(cleared)
          \/ res = SetCurrentFocus(Arrange(shown), nf, "current")
          \/ res = Arrange(shown)
      BY <1>3 DEF HandleMapNotify
    <2> HIDE DEF counted
    <2>4. /\ IsTold(x) /\ Fits(r, x)
          /\ r.win = "mapped" => IF x.notices = <<>> THEN x.win = "mapped" ELSE Head(x.notices) = "unmap"
      BY <1>1, <1>3, HandleMapNotifyIs
    <2> HIDE DEF x
    <2>5. Told(shown) /\ shown \in State
      <3>1. IsTold(x) /\ counted.client[c] = r
        BY <2>2, <2>4
      <3>2. r.managed => x.managed /\ x.workspace = r.workspace
        BY <2>4 DEF Fits
      <3>3. Told(shown)
        BY <2>2, <2>4, <3>1, <3>2, ToldPut
      <3>4. shown \in State
        BY <2>2, <3>1, PutIs
      <3> QED
        BY <3>3, <3>4
    <2> HIDE DEF shown
    <2>6. /\ Told(given) /\ given \in State
          /\ Told(asked) /\ asked \in State
      BY <1>1, <2>5, ToldSetCurrentFocus, StaysSetCurrentFocus
    <2> HIDE DEF given, asked
    <2>7. Told(Arrange(SetFullscreen(given, cur, c)))
      BY <1>1, <2>6, ToldSetFullscreen, ToldArrange
    <2>8. Told(wanted) /\ wanted \in State /\ wanted.desk = asked.desk
      <3> DEFINE q == asked.client[c]
      <3>1. q \in Record
        BY <2>6 DEF State
      <3>2. y = [q EXCEPT !.want = FALSE]
        OBVIOUS
      <3> HIDE DEF q, y
      <3>3. /\ y \in Record /\ y.managed = q.managed /\ y.workspace = q.workspace /\ y.place = q.place
            /\ y.win = q.win /\ y.state = q.state /\ y.pending_unmap = q.pending_unmap
        BY <3>1, <3>2 DEF Record
      <3> QED
        BY <2>6, <3>3, ToldMark DEF q
    <2> HIDE DEF y, wanted
    <2>9. Told(cleared) /\ cleared \in State
      <3> DEFINE b == IF asked.desk[cur].before = c THEN None ELSE asked.desk[cur].before
      <3>1. asked.desk[cur] \in Desk
        BY <1>1, <2>6 DEF State
      <3>2. b \in Clients \cup {None} /\ b \in {asked.desk[cur].before, None}
        BY <3>1 DEF Desk
      <3>3. d = [asked.desk[cur] EXCEPT !.before = b]
        OBVIOUS
      <3> HIDE DEF b, d
      <3>4. d \in Desk /\ d.tracked = asked.desk[cur].tracked /\ d.before = b
        BY <3>1, <3>2, <3>3 DEF Desk
      <3>5. d.tracked \in {wanted.desk[cur].tracked, None}
        BY <2>8, <3>4
      <3>6. d.before \in {wanted.desk[cur].before, wanted.desk[cur].tracked, None}
        BY <2>8, <3>2, <3>4
      <3> QED
        BY <1>1, <2>8, <3>4, <3>5, <3>6, ToldDesk, SetDeskIs
    <2> HIDE DEF d, cleared
    <2>10. Told(Arrange(shown)) /\ Told(SetCurrentFocus(Arrange(shown), nf, "current"))
      <3>1. nf \in Clients \cup {None}
        BY <2>5, NextFocusIs
      <3>2. Told(Arrange(shown)) /\ Arrange(shown) \in State
        BY <2>5, ToldArrange, ArrangeIs DEF Rerouted
      <3> HIDE DEF nf
      <3> QED
        BY <3>1, <3>2, ToldSetCurrentFocus
    <2> HIDE DEF nf, res
    <2>11. Told(res)
      BY <2>3, <2>5, <2>7, <2>9, <2>10, ToldArrange
    <2> QED
      BY <2>11 DEF res
  <1> QED
    BY <1>2, <1>3

LEMMA ToldHandleDestroyNotify ==
  ASSUME NEW s, Sound(s), Told(s), NEW c \in Clients, NEW first,
         \A w \in Workspaces : s.desk[w].tracked # c
  PROVE  Told(HandleDestroyNotify(s, c, first))
  <1>1. CASE ~s.client[c].managed
    BY <1>1 DEF HandleDestroyNotify
  <1>2. CASE s.client[c].managed
    <2>1. Told(EndManage(s, c, first)) /\ EndManage(s, c, first) \in State
      BY <1>2, ToldEndManage, SoundEndManage DEF Sound
    <2> QED
      BY <1>2, <2>1, ToldArrange DEF HandleDestroyNotify
  <1> QED
    BY <1>1, <1>2

(* The focus is tracked only while its loss is not on the way unseen.      *)
LEMMA ToldHandleFocusIn ==
  ASSUME NEW s, Sound(s), Told(s), NEW c \in Clients, Safe(s, c, 0)
  PROVE  Told(HandleFocusIn(s, c))
  <1> DEFINE r == s.client[c]
             p == FsPush(s, c)
             cur == s.current
             d == [p.desk[cur] EXCEPT !.tracked = c]
             t == SetDesk(p, cur, d)
  <1>1. s \in State /\ Stacked(s) /\ RecordOK(r, cur) /\ cur \in Workspaces
    BY DEF Sound, Records, State
  <1>2. CASE ~(r.managed /\ V!IsClientMapped(r))
    BY <1>2 DEF HandleFocusIn
  <1>3. CASE r.managed /\ V!IsClientMapped(r)
    <2>1. r.workspace = cur /\ r.state = "MAPPED"
      BY <1>1, <1>3 DEF RecordOK, V!IsClientMapped
    <2>2. Restacked(s, p)
      BY <1>1, <1>3, <2>1, FsPushIs
    <2>3. HandleFocusIn(s, c) = t
      BY <1>3, <2>1 DEF HandleFocusIn, Track
    <2> HIDE DEF p
    <2>4. Told(p) /\ Stays(s, p) /\ p \in State /\ p.queue = s.queue /\ p.input = s.input
      <3>1. Told(p)
        BY <1>1, <2>2, ToldRestacked
      <3>2. Stays(s, p)
        BY <1>1, <2>2, StaysRestacked
      <3>3. p \in State /\ p.queue = s.queue /\ p.input = s.input
        BY <2>2 DEF Restacked
      <3> QED
        BY <3>1, <3>2, <3>3
    <2>5. p.desk[cur] \in Desk
      BY <1>1, <2>4 DEF State
    <2>6. d \in Desk /\ d.tracked = c /\ d.before = p.desk[cur].before
      BY <2>5 DEF Desk
    <2> HIDE DEF d
    <2>7. /\ t \in State /\ t.client = p.client /\ t.input = p.input /\ t.queue = p.queue
          /\ t.desk[cur] = d /\ \A u \in Workspaces : u # cur => t.desk[u] = p.desk[u]
      BY <1>1, <2>4, <2>6, SetDeskIs
    <2> HIDE DEF t
    <2>8. p.client[c].managed /\ p.client[c].workspace = cur /\ Awaited(p.client[c])
      BY <1>3, <2>1, <2>4 DEF Stays, Awaited
    <2>9. \A x, i : Safe(t, x, i) <=> Safe(p, x, i)
      BY <2>7 DEF Safe
    <2>10. Safe(p, c, 0)
      BY <2>4 DEF Safe
    <2>11. Points(t)
      <3> SUFFICES ASSUME NEW w \in Workspaces, NEW x \in Clients,
                          t.desk[w].tracked = x \/ t.desk[w].before = x
                   PROVE  p.client[x].managed /\ p.client[x].workspace = w
        BY <2>7 DEF Points
      <3>1. CASE w = cur /\ x = c
        BY <2>8, <3>1
      <3>2. CASE ~(w = cur /\ x = c)
        <4>1. p.desk[w].tracked = x \/ p.desk[w].before = x
          BY <2>6, <2>7, <3>2
        <4> QED
          BY <2>4, <4>1 DEF Told, Points
      <3> QED
        BY <3>1, <3>2
    <2>12. HasInput(t) /\ InsSafe(t)
      BY <2>4, <2>7, <2>9 DEF Told, HasInput, InsSafe
    <2>13. TrackedSafe(t)
      <3> SUFFICES ASSUME NEW w \in Workspaces, NEW x \in Clients, t.desk[w].tracked = x
                   PROVE  Safe(p, x, 0) /\ (OutNext(p.queue, x, 0) \/ Awaited(p.client[x]))
        BY <2>7, <2>9 DEF TrackedSafe
      <3>1. CASE x = c
        BY <2>8, <2>10, <3>1
      <3>2. CASE x # c
        <4>1. p.desk[w].tracked = x
          BY <2>6, <2>7, <3>2
        <4> QED
          BY <2>4, <4>1 DEF Told, TrackedSafe
      <3> QED
        BY <3>1, <3>2
    <2>14. Told(t)
      BY <2>11, <2>12, <2>13 DEF Told
    <2> QED
      BY <2>3, <2>14
  <1> QED
    BY <1>2, <1>3

LEMMA ToldHandleFocusOut ==
  ASSUME Sound(Now), Told(Now), queue # <<>>, Head(queue).what = "out"
  PROVE  Told(HandleFocusOut(Rest, Of))
  <1> DEFINE s == Rest
             c == Of
             w == s.client[c].workspace
             d == [s.desk[w] EXCEPT !.tracked = None]
             t == HandleFocusOut(s, c)
  <1>1. Read
    BY RestTold
  <1>2. Sound(s) /\ s.client = client /\ s.desk = desk /\ c \in Clients
    BY RestIs
  <1>3. s \in State /\ RecordOK(s.client[c], s.current)
    BY <1>2 DEF Sound, Records
  <1>4. /\ Points(s) /\ HasInput(s) /\ InsSafe(s)
        /\ \A u \in Workspaces, x \in Clients : s.desk[u].tracked = x /\ x # c =>
             Safe(s, x, 0) /\ (OutNext(s.queue, x, 0) \/ Awaited(s.client[x]))
    BY <1>1, <1>2 DEF Read
  <1>5. t = IF s.client[c].managed /\ s.desk[w].tracked = c THEN SetDesk(s, w, d) ELSE s
    BY DEF HandleFocusOut, Track
  <1> HIDE DEF s, c, t
  <1>6. CASE ~(s.client[c].managed /\ s.desk[w].tracked = c)
    <2>1. \A u \in Workspaces : s.desk[u].tracked # c
      BY <1>2, <1>4, <1>6 DEF Points
    <2>2. TrackedSafe(s)
      BY <1>4, <2>1 DEF TrackedSafe
    <2> QED
      BY <1>4, <1>5, <1>6, <2>2 DEF Told, s, c, t
  <1>7. CASE s.client[c].managed /\ s.desk[w].tracked = c
    <2>1. w \in Workspaces
      BY <1>3, <1>7 DEF RecordOK
    <2>2. s.desk[w] \in Desk
      BY <1>3, <2>1 DEF State
    <2> HIDE DEF w
    <2>3. d \in Desk /\ d.tracked = None /\ d.before = s.desk[w].before
      BY <2>2 DEF Desk
    <2> HIDE DEF d
    <2>4. /\ t.client = s.client /\ t.input = s.input /\ t.queue = s.queue
          /\ t.desk[w] = d /\ \A u \in Workspaces : u # w => t.desk[u] = s.desk[u]
      <3>1. t = SetDesk(s, w, d)
        BY <1>5, <1>7 DEF w, d
      <3> QED
        BY <1>3, <2>1, <2>3, <3>1, SetDeskIs
    <2>5. \A x, i : Safe(t, x, i) <=> Safe(s, x, i)
      BY <2>4 DEF Safe
    <2>6. \A u \in Workspaces, x \in Clients : /\ t.desk[u].tracked = x => s.desk[u].tracked = x
                                               /\ t.desk[u].before = x => s.desk[u].before = x
                                               /\ t.desk[u].tracked = x => u # w
      BY <2>3, <2>4, FocusAssumption
    <2>7. \A u \in Workspaces : u # w => s.desk[u].tracked # c
      BY <1>2, <1>4, <2>1 DEF Points, w
    <2>8. Points(t) /\ HasInput(t) /\ InsSafe(t)
      BY <1>4, <2>4, <2>5, <2>6 DEF Points, HasInput, InsSafe
    <2>9. TrackedSafe(t)
      BY <1>4, <2>4, <2>5, <2>6, <2>7 DEF TrackedSafe
    <2> QED
      BY <2>8, <2>9 DEF Told, t, s, c
  <1> QED
    BY <1>6, <1>7

LEMMA ToldHandleEnterNotify ==
  ASSUME NEW s, Sound(s), Told(s), NEW c \in Clients, NEW time
  PROVE  Told(HandleEnterNotify(s, c, time))
  BY ToldSetCurrentFocus DEF HandleEnterNotify, Sound

-----------------------------------------------------------------------------
(* The keys.                                                               *)

LEMMA ToldUnmapOne ==
  ASSUME NEW s, Sound(s), Told(s), NEW c \in Clients, s.client[c].managed
  PROVE  Told(Put(s, c, V!Leave(s.client[c]))) /\ Told(Put(s, c, V!Enter(s.client[c])))
  <1> DEFINE r == s.client[c]
             x == V!Leave(r)
             y == V!Enter(r)
  <1>1. s \in State /\ r \in Record /\ RecordOK(r, s.current) /\ r.managed
    BY DEF Sound, State, Records
  <1>2. IsTold(x) /\ Fits(r, x) /\ Tells(r, x)
    BY <1>1, LeaveIs
  <1>3. IsTold(y) /\ Fits(r, y) /\ Tells(r, y)
    BY <1>1, EnterIs
  <1> HIDE DEF x, y
  <1>4. Told(Put(s, c, x))
    <2>1. /\ r.win = "mapped" => IF x.notices = <<>> THEN x.win = "mapped" ELSE Head(x.notices) = "unmap"
          /\ r.managed => x.managed /\ x.workspace = r.workspace
          /\ Awaited(r) => Awaited(x)
      BY <1>2 DEF Tells, Fits
    <2> QED
      BY <1>1, <1>2, <2>1, ToldPut
  <1>5. Told(Put(s, c, y))
    <2>1. /\ r.win = "mapped" => IF y.notices = <<>> THEN y.win = "mapped" ELSE Head(y.notices) = "unmap"
          /\ r.managed => y.managed /\ y.workspace = r.workspace
          /\ Awaited(r) => Awaited(y)
      BY <1>3 DEF Tells, Fits
    <2> QED
      BY <1>1, <1>3, <2>1, ToldPut
  <1> QED
    BY <1>4, <1>5 DEF x, y

LEMMA ToldUnmapWorkspace ==
  ASSUME NEW s, Sound(s), Told(s), NEW w, NEW D \in SUBSET Clients, \A c \in D : s.client[c].managed
  PROVE  Told(UnmapWorkspace!Over(w, s, D))
  <1> DEFINE Stage == [T \in SUBSET D |->
               {t \in State : /\ Sound(t) /\ Told(t)
                              /\ \A x \in Clients \ T : t.client[x] = s.client[x]}]
             t == UnmapWorkspace!Over(w, s, D)
  <1>1. UnmapWorkspace!IsFiniteSet(D)
    <2>1. IsFiniteSet(D)
      BY FocusAssumption, FS_Subset
    <2> QED
      BY <2>1 DEF IsFiniteSet, UnmapWorkspace!IsFiniteSet
  <1>2. s \in Stage[{}]
    BY DEF Sound
  <1>3. ASSUME NEW T \in SUBSET D, NEW x \in D \ T, NEW q \in Stage[T]
        PROVE  UnmapOne(w, q, x) \in Stage[T \cup {x}]
    <2> DEFINE u == Put(q, x, V!Leave(q.client[x]))
    <2>1. /\ Sound(q) /\ Told(q) /\ x \in Clients /\ q.client[x].managed
          /\ \A y \in Clients \ T : q.client[y] = s.client[y]
      BY <1>3
    <2>2. /\ Sound(u) /\ u \in State /\ u.current = q.current
          /\ u.client[x].state # "MAPPED"
          /\ u.client[x].managed
          /\ \A y \in Clients : y # x => u.client[y] = q.client[y]
      BY <2>1, SoundUnmapOne
    <2>3. Told(u)
      BY <2>1, ToldUnmapOne
    <2>4. UnmapOne(w, q, x) = u
      BY DEF UnmapOne
    <2> HIDE DEF u
    <2>5. \A y \in Clients \ (T \cup {x}) : u.client[y] = s.client[y]
      BY <2>1, <2>2
    <2> QED
      BY <2>2, <2>3, <2>4, <2>5
  <1> HIDE DEF Stage
  <1>4. t \in Stage[D]
    BY <1>1, <1>2, <1>3, UnmapWorkspace!OverStages
  <1> QED
    BY <1>4 DEF Stage

LEMMA ToldMapWorkspace ==
  ASSUME NEW s, Sound(s), Told(s), NEW w, NEW D \in SUBSET Clients, \A c \in D : s.client[c].managed
  PROVE  Told(MapWorkspace!Over(w, s, D))
  <1> DEFINE Stage == [T \in SUBSET D |->
               {t \in State : /\ Sound(t) /\ Told(t)
                              /\ \A x \in Clients \ T : t.client[x] = s.client[x]}]
             t == MapWorkspace!Over(w, s, D)
  <1>1. MapWorkspace!IsFiniteSet(D)
    <2>1. IsFiniteSet(D)
      BY FocusAssumption, FS_Subset
    <2> QED
      BY <2>1 DEF IsFiniteSet, MapWorkspace!IsFiniteSet
  <1>2. s \in Stage[{}]
    BY DEF Sound
  <1>3. ASSUME NEW T \in SUBSET D, NEW x \in D \ T, NEW q \in Stage[T]
        PROVE  MapOne(w, q, x) \in Stage[T \cup {x}]
    <2> DEFINE u == Put(q, x, V!Enter(q.client[x]))
    <2>1. /\ Sound(q) /\ Told(q) /\ x \in Clients /\ q.client[x].managed
          /\ \A y \in Clients \ T : q.client[y] = s.client[y]
      BY <1>3
    <2>2. /\ Sound(u) /\ u \in State /\ u.current = q.current
          /\ u.client[x].state = "MAPPED" => q.client[x].state = "MAPPED"
          /\ \A y \in Clients : y # x => u.client[y] = q.client[y]
      BY <2>1, SoundMapOne
    <2>3. Told(u)
      BY <2>1, ToldUnmapOne
    <2>4. MapOne(w, q, x) = u
      BY DEF MapOne
    <2> HIDE DEF u
    <2>5. \A y \in Clients \ (T \cup {x}) : u.client[y] = s.client[y]
      BY <2>1, <2>2
    <2> QED
      BY <2>2, <2>3, <2>4, <2>5
  <1> HIDE DEF Stage
  <1>4. t \in Stage[D]
    BY <1>1, <1>2, <1>3, MapWorkspace!OverStages
  <1> QED
    BY <1>4 DEF Stage

LEMMA ToldActionSwitchWorkspace ==
  ASSUME NEW s, Sound(s), Told(s), NEW w \in Workspaces, w # s.current, NEW first
  PROVE  Told(ActionSwitchWorkspace(s, w, first))
  <1> DEFINE cur == s.current
             focus == s.desk[cur].tracked
             m     == MonitorAt(s, cur, focus)
             gone  == focus # None /\ s.client[focus].workspace # cur
             p == IF m = NoWorkspace THEN s ELSE FsPop(s, cur)
             asked == SetCurrentFocus(p, NextFocus(p, m, first), "current")
             left  == IF ~gone THEN s ELSE asked
             d == [left.desk[cur] EXCEPT !.before = left.desk[cur].tracked]
             kept  == SetDesk(left, cur, d)
             At(u) == {c \in Clients : s.client[c].managed /\ s.client[c].place = u}
             away  == UnmapWorkspace!Over(cur, kept, At(cur))
             back  == MapWorkspace!Over(w, away, At(w))
             turned == [back EXCEPT !.current = w]
  <1>1. ActionSwitchWorkspace(s, w, first) = ArrangeJustify(turned, first)
    BY DEF ActionSwitchWorkspace
  <1>2. s \in State /\ cur \in Workspaces
    BY DEF Sound, State
  <1>3. Sound(p) /\ Told(p) /\ Stays(s, p)
    <2>1. Sound(FsPop(s, cur)) /\ Restacked(s, FsPop(s, cur))
      BY SoundFsPop
    <2>2. Stays(s, FsPop(s, cur)) /\ Told(FsPop(s, cur))
      BY <1>2, <2>1, StaysRestacked, ToldRestacked
    <2>3. Stays(s, s)
      BY DEF Stays
    <2> QED
      BY <2>1, <2>2, <2>3
  <1> HIDE DEF p
  <1>4. Sound(asked) /\ Told(asked) /\ Stays(s, asked)
    <2> DEFINE n == NextFocus(p, m, first)
    <2>1. n \in Clients \cup {None} /\ p \in State
      BY <1>3, NextFocusIs DEF Sound
    <2> HIDE DEF n
    <2>2. Sound(SetCurrentFocus(p, n, "current")) /\ Stays(p, SetCurrentFocus(p, n, "current"))
      BY <1>3, <2>1, SoundSetCurrentFocus, StaysSetCurrentFocus
    <2>3. Stays(s, SetCurrentFocus(p, n, "current"))
      BY <1>3, <2>2, StaysTwice
    <2>4. Told(SetCurrentFocus(p, n, "current"))
      BY <1>3, <2>1, ToldSetCurrentFocus
    <2> QED
      BY <2>2, <2>3, <2>4 DEF n
  <1> HIDE DEF asked
  <1>5. Sound(left) /\ Told(left) /\ Stays(s, left)
    <2>1. Stays(s, s)
      BY DEF Stays
    <2> QED
      BY <1>4, <2>1
  <1> HIDE DEF left
  <1>6. Sound(kept) /\ Told(kept) /\ Stays(s, kept)
    <2>1. left \in State /\ left.desk[cur] \in Desk
      BY <1>2, <1>5 DEF Sound, State
    <2>2. /\ d \in Desk /\ d.full = left.desk[cur].full /\ d.head = left.desk[cur].head /\ d.n = left.desk[cur].n
          /\ d.tracked = left.desk[cur].tracked /\ d.before = left.desk[cur].tracked
      BY <2>1 DEF Desk
    <2> HIDE DEF d
    <2>3. Sound(kept)
      BY <1>2, <1>5, <2>2, SoundSetDesk
    <2>4. kept.current = left.current /\ kept.client = left.client
      BY <1>2, <2>1, <2>2, SetDeskIs
    <2>5. Told(kept)
      BY <1>2, <1>5, <2>1, <2>2, ToldDesk
    <2> HIDE DEF kept
    <2> QED
      BY <1>5, <2>3, <2>4, <2>5 DEF Stays
  <1> HIDE DEF kept
  <1>7. At(cur) = {c \in Clients : kept.client[c].managed /\ kept.client[c].place = kept.current}
    BY <1>6 DEF Stays
  <1>8. /\ \A c \in At(w) : c \in Clients \ At(cur) /\ kept.client[c].managed
        /\ \A c \in At(cur) : kept.client[c].managed
    BY <1>6 DEF Stays
  <1>9. At(cur) \in SUBSET Clients /\ At(w) \in SUBSET Clients
    OBVIOUS
  <1> HIDE DEF At
  <1>10. /\ Sound(away) /\ Told(away)
         /\ \A x \in Clients \ At(cur) : away.client[x] = kept.client[x]
    <2>1. kept.current = cur
      BY <1>6 DEF Stays
    <2> DEFINE D == At(cur)
               a == UnmapWorkspace!Over(kept.current, kept, D)
    <2>2. D \in SUBSET Clients /\ D = {c \in Clients : kept.client[c].managed /\ kept.client[c].place = kept.current}
          /\ \A c \in D : kept.client[c].managed
      BY <1>7, <1>8, <1>9
    <2> HIDE DEF D
    <2>3. /\ Sound(a) /\ a.current = kept.current /\ NoneMapped(a)
          /\ \A x \in Clients \ D : a.client[x] = kept.client[x]
      BY <1>6, <2>2, SoundUnmapWorkspace
    <2>4. Told(a)
      BY <1>6, <2>2, ToldUnmapWorkspace
    <2>5. away = a
      BY <2>1 DEF D
    <2> HIDE DEF a, away
    <2> QED
      BY <2>3, <2>4, <2>5 DEF D
  <1> HIDE DEF away
  <1>11. \A c \in At(w) : away.client[c].managed
    BY <1>8, <1>10
  <1>12. Told(back)
    BY <1>9, <1>10, <1>11, ToldMapWorkspace
  <1>13. back \in State
    <2>1. NoneMapped(away)
      <3>1. kept.current = cur
        BY <1>6 DEF Stays
      <3> DEFINE D == At(cur)
                 a == UnmapWorkspace!Over(kept.current, kept, D)
      <3>2. D \in SUBSET Clients /\ D = {c \in Clients : kept.client[c].managed /\ kept.client[c].place = kept.current}
        BY <1>7, <1>9
      <3> HIDE DEF D
      <3>3. /\ Sound(a) /\ a.current = kept.current /\ NoneMapped(a)
            /\ \A x \in Clients \ D : a.client[x] = kept.client[x]
        BY <1>6, <3>2, SoundUnmapWorkspace
      <3>4. away = a
        BY <3>1 DEF D, away
      <3> QED
        BY <3>3, <3>4
    <2>2. Sound(back) /\ back.current = away.current /\ NoneMapped(back)
      BY <1>9, <1>10, <1>11, <2>1, SoundMapWorkspace
    <2> QED
      BY <2>2 DEF Sound
  <1> HIDE DEF back
  <1>14. /\ turned \in State /\ turned.client = back.client /\ turned.desk = back.desk
         /\ turned.input = back.input /\ turned.queue = back.queue
    BY <1>13 DEF State
  <1> HIDE DEF turned
  <1>15. Told(turned)
    BY <1>12, <1>14 DEF Told, Points, HasInput, InsSafe, TrackedSafe, Safe
  <1> QED
    BY <1>1, <1>14, <1>15, ToldArrangeJustify

LEMMA ToldActionUnmapWindow ==
  ASSUME NEW s, Sound(s), Told(s)
  PROVE  Told(ActionUnmapWindow(s))
  <1> DEFINE c == s.desk[s.current].tracked
             o == s.client[c]
             r == [o EXCEPT !.future_stay = TRUE]
             x == V!UnmapClient(r)
  <1>1. ActionUnmapWindow(s) = IF c = None THEN s ELSE Put(s, c, x)
    BY DEF ActionUnmapWindow
  <1>2. c \in Clients \cup {None} /\ s \in State
    BY DEF Sound, State, Desk
  <1> HIDE DEF c
  <1>3. CASE c = None
    BY <1>1, <1>3
  <1>4. CASE c # None
    <2>1. o \in Record /\ RecordOK(o, s.current) /\ c \in Clients
      BY <1>2, <1>4 DEF Sound, State, Records
    <2> HIDE DEF o
    <2>2. /\ r.moved = o.moved /\ r.mapped = o.mapped /\ r.managed = o.managed /\ r.state = o.state
          /\ r.workspace = o.workspace /\ r.place = o.place /\ r.ul = o.ul /\ r.full = o.full
          /\ r.mini = o.mini /\ r.next = o.next /\ r \in Record
          /\ r.win = o.win /\ r.pending_unmap = o.pending_unmap
      BY <2>1 DEF Record
    <2> HIDE DEF r
    <2>3. RecordOK(r, s.current)
      BY <2>1, <2>2 DEF RecordOK
    <2>4. IsTold(x) /\ Fits(r, x) /\ Tells(r, x)
      BY <2>2, <2>3, UnmapClientIs
    <2> HIDE DEF x
    <2>5. /\ o.win = "mapped" => IF x.notices = <<>> THEN x.win = "mapped" ELSE Head(x.notices) = "unmap"
          /\ o.managed => x.managed /\ x.workspace = o.workspace
          /\ Awaited(o) => Awaited(x)
      BY <2>2, <2>4 DEF Tells, Fits, Awaited
    <2>6. Told(Put(s, c, x))
      BY <1>2, <2>1, <2>4, <2>5, ToldPut DEF o
    <2> QED
      BY <1>1, <1>4, <2>6
  <1> QED
    BY <1>3, <1>4

LEMMA ToldActionMapLatestUnmap ==
  ASSUME NEW s, Sound(s), Told(s), NEW c \in Clients, s.client[c].managed, s.client[c].ul # "none"
  PROVE  Told(ActionMapLatestUnmap(s, c))
  <1> DEFINE o == s.client[c]
             r == [o EXCEPT !.ul = "can", !.future_stay = FALSE]
             x == V!MapClient(r)
  <1>1. ActionMapLatestUnmap(s, c) = Put(s, c, x)
    BY DEF ActionMapLatestUnmap
  <1>2. o \in Record /\ RecordOK(o, s.current) /\ o.managed /\ o.ul # "none" /\ s \in State
    BY DEF Sound, State, Records
  <1> HIDE DEF o
  <1>3. /\ r.moved = o.moved /\ r.mapped = o.mapped /\ r.managed = o.managed /\ r.state = o.state
        /\ r.workspace = o.workspace /\ r.place = o.place /\ r.ul = "can" /\ r.full = o.full
        /\ r.mini = o.mini /\ r.next = o.next /\ r \in Record
        /\ r.win = o.win /\ r.pending_unmap = o.pending_unmap
    BY <1>2 DEF Record
  <1> HIDE DEF r
  <1>4. RecordOK(r, s.current)
    BY <1>2, <1>3 DEF RecordOK
  <1>5. IsTold(x) /\ Fits(r, x) /\ Tells(r, x)
    BY <1>2, <1>3, <1>4, RecordIsTold, MapClientIs
  <1> HIDE DEF x
  <1>6. /\ o.win = "mapped" => IF x.notices = <<>> THEN x.win = "mapped" ELSE Head(x.notices) = "unmap"
        /\ o.managed => x.managed /\ x.workspace = o.workspace
        /\ Awaited(o) => Awaited(x)
    BY <1>3, <1>5 DEF Tells, Fits, Awaited
  <1>7. Told(Put(s, c, x))
    BY <1>2, <1>5, <1>6, ToldPut DEF o
  <1> QED
    BY <1>1, <1>7

LEMMA ToldSetMini ==
  ASSUME NEW s \in State, Told(s), NEW c \in Clients, NEW b \in BOOLEAN
  PROVE  LET t == SetClient(s, c, [s.client[c] EXCEPT !.mini = b]) IN Told(t) /\ t \in State
  <1> DEFINE o == s.client[c]
             r == [o EXCEPT !.mini = b]
  <1>1. o \in Record
    BY DEF State
  <1> HIDE DEF o
  <1>2. /\ r \in Record /\ r.managed = o.managed /\ r.workspace = o.workspace /\ r.place = o.place
        /\ r.win = o.win /\ r.state = o.state /\ r.pending_unmap = o.pending_unmap
    BY <1>1 DEF Record
  <1> HIDE DEF r
  <1>3. Told(SetClient(s, c, r)) /\ SetClient(s, c, r) \in State
    BY <1>2, ToldMark DEF o
  <1> QED
    BY <1>3 DEF r, o

LEMMA ToldActionMinimizeWindow ==
  ASSUME NEW s, Sound(s), Told(s), NEW first, NEW time
  PROVE  Told(ActionMinimizeWindow(s, first, time))
  <1> DEFINE cur   == s.current
             focus == s.desk[cur].tracked
             hid == SetClient(s, focus, [s.client[focus] EXCEPT !.mini = TRUE])
             mini  == IF focus = None THEN s ELSE hid
             arranged == Arrange(mini)
             popped == FsPop(arranged, cur)
             n == NextFocus(popped, cur, first)
             seen == SetClient(s, focus, [s.client[focus] EXCEPT !.mini = FALSE])
             res == ActionMinimizeWindow(s, first, time)
             here == focus = None \/ s.client[focus].workspace = cur
  <1>1. s \in State /\ cur \in Workspaces /\ focus \in Clients \cup {None} /\ None \notin Clients
    BY FocusAssumption DEF Sound, State, Desk
  <1>2. \/ res = s
        \/ here /\ res = SetCurrentFocus(popped, n, time)
        \/ focus # None /\ s.client[focus].workspace = cur /\ res = ArrangeJustify(seen, first)
    BY DEF ActionMinimizeWindow
  <1> HIDE DEF focus
  <1>3. focus # None => Told(seen) /\ seen \in State /\ Told(hid) /\ hid \in State
    BY <1>1, ToldSetMini
  <1>4. focus # None /\ s.client[focus].workspace = cur => Sound(hid) /\ hid.current = cur
    <2> SUFFICES ASSUME focus # None, s.client[focus].workspace = cur
                 PROVE  Sound(hid) /\ hid.current = cur
      OBVIOUS
    <2>1. focus \in Clients
      BY <1>1
    <2>2. RecordOK(s.client[focus], cur)
      BY <2>1 DEF Sound, Records
    <2>3. s.client[focus].managed
      BY <1>1, <2>2, FocusAssumption DEF RecordOK
    <2>4. Sound(hid)
      BY <2>1, <2>3, SoundSetMini
    <2>5. hid.current = cur
      BY <1>1 DEF SetClient, State
    <2> QED
      BY <2>4, <2>5
  <1> HIDE DEF seen, hid
  <1>5. here => Sound(mini) /\ mini.current = cur /\ Told(mini)
    BY <1>3, <1>4
  <1> HIDE DEF mini
  <1>6. here => Sound(arranged) /\ arranged.current = cur /\ Told(arranged) /\ arranged \in State
    BY <1>5, SoundArrange, ToldArrange DEF Rerouted, Sound
  <1> HIDE DEF arranged
  <1>7. here => Told(popped) /\ popped \in State
    <2> SUFFICES ASSUME here PROVE Told(popped) /\ popped \in State
      OBVIOUS
    <2>1. Restacked(arranged, popped)
      BY <1>6, SoundFsPop
    <2> HIDE DEF popped
    <2> QED
      BY <1>6, <2>1, ToldRestacked DEF Restacked
  <1> HIDE DEF popped
  <1>8. here => Told(SetCurrentFocus(popped, n, time))
    <2> SUFFICES ASSUME Told(popped), popped \in State PROVE Told(SetCurrentFocus(popped, n, time))
      BY <1>7
    <2>1. n \in Clients \cup {None}
      BY NextFocusIs
    <2> HIDE DEF n
    <2> QED
      BY <2>1, ToldSetCurrentFocus
  <1>9. focus # None => Told(ArrangeJustify(seen, first))
    BY <1>3, ToldArrangeJustify
  <1> HIDE DEF n, res
  <1>10. Told(res)
    BY <1>2, <1>8, <1>9
  <1> QED
    BY <1>10 DEF res

LEMMA ToldActionMinimizeAll ==
  ASSUME NEW s, Sound(s), Told(s)
  PROVE  Told(ActionMinimizeAll(s))
  <1> DEFINE focus == s.desk[s.current].tracked
             here  == Tiled(s, s.client[focus].place)
             b(c)  == s.client[c].mini \/ c \in here
             rec(c) == [s.client[c] EXCEPT !.mini = b(c)]
             clients == [c \in Clients |-> rec(c)]
             t == [s EXCEPT !.client = clients]
  <1>1. s \in State
    BY DEF Sound
  <1> HIDE DEF here
  <1>2. ASSUME NEW c \in Clients
        PROVE  LET o == s.client[c] IN
               /\ rec(c) \in Record /\ rec(c).managed = o.managed /\ rec(c).workspace = o.workspace
               /\ rec(c).place = o.place /\ rec(c).win = o.win /\ rec(c).state = o.state
               /\ rec(c).pending_unmap = o.pending_unmap
    <2> DEFINE o == s.client[c]
               q == rec(c)
    <2>1. o \in Record
      BY <1>1 DEF State
    <2>2. b(c) \in BOOLEAN
      BY <2>1 DEF Record
    <2>3. q = [o EXCEPT !.mini = b(c)]
      OBVIOUS
    <2> HIDE DEF o, b, q
    <2>4. /\ q \in Record /\ q.managed = o.managed /\ q.workspace = o.workspace /\ q.place = o.place
          /\ q.win = o.win /\ q.state = o.state /\ q.pending_unmap = o.pending_unmap
      BY <2>1, <2>2, <2>3 DEF Record
    <2> QED
      BY <2>4 DEF q, o, b
  <1> HIDE DEF rec
  <1>3. clients \in [Clients -> Record] /\ \A c \in Clients : clients[c] = rec(c)
    BY <1>2
  <1> HIDE DEF clients
  <1>4. /\ t \in State /\ t.current = s.current /\ t.client = clients /\ t.desk = s.desk
        /\ t.input = s.input /\ t.queue = s.queue
    BY <1>1, <1>3 DEF State
  <1> HIDE DEF t
  <1>5. Stays(s, t)
    BY <1>2, <1>3, <1>4 DEF Stays
  <1>6. Told(t)
    BY <1>1, <1>4, <1>5, ToldStays
  <1>7. ActionMinimizeAll(s) = IF focus = None THEN s ELSE Arrange(t)
    BY DEF ActionMinimizeAll, t, clients, rec, here
  <1> HIDE DEF focus, b
  <1> QED
    BY <1>4, <1>6, <1>7, ToldArrange

LEMMA ToldActionToggleFullscreen ==
  ASSUME NEW s, Sound(s), Told(s)
  PROVE  Told(ActionToggleFullscreen(s))
  <1> DEFINE cur   == s.current
             focus == s.desk[cur].tracked
             o     == s.client[focus]
             on    == ~o.full
             r     == [o EXCEPT !.full = on]
             f     == IF on THEN focus ELSE None
             d     == [s.desk[cur] EXCEPT !.full = f]
             h     == SetClient(s, focus, r)
             t     == SetDesk(h, cur, d)
  <1>1. s \in State /\ cur \in Workspaces /\ focus \in Clients \cup {None} /\ s.desk[cur] \in Desk
    BY DEF Sound, State, Desk
  <1>2. CASE focus = None \/ o.workspace # cur \/ s.desk[cur].full \notin {None, focus}
    BY <1>2 DEF ActionToggleFullscreen
  <1>3. CASE ~(focus = None \/ o.workspace # cur \/ s.desk[cur].full \notin {None, focus})
    <2>1. ActionToggleFullscreen(s) = Arrange(t)
      BY <1>3 DEF ActionToggleFullscreen
    <2>2. focus \in Clients
      BY <1>1, <1>3
    <2> HIDE DEF focus
    <2>3. o \in Record
      BY <2>2, <1>1 DEF State
    <2>4. on \in BOOLEAN
      OBVIOUS
    <2>5. f \in Clients \cup {None}
      BY <2>2
    <2> HIDE DEF on, f
    <2>6. /\ r \in Record /\ r.managed = o.managed /\ r.workspace = o.workspace /\ r.place = o.place
          /\ r.win = o.win /\ r.state = o.state /\ r.pending_unmap = o.pending_unmap
      <3> HIDE DEF o
      <3> QED
        BY <2>3, <2>4 DEF Record
    <2> HIDE DEF r
    <2>7. Told(h) /\ h \in State /\ h.desk = s.desk
      BY <1>1, <2>2, <2>6, ToldMark
    <2> HIDE DEF h
    <2>8. d \in Desk /\ d.tracked = h.desk[cur].tracked /\ d.before = h.desk[cur].before
      BY <1>1, <2>5, <2>7 DEF Desk
    <2> HIDE DEF d
    <2>9. Told(t) /\ t \in State
      BY <1>1, <2>7, <2>8, ToldDesk, SetDeskIs
    <2> HIDE DEF t
    <2> QED
      BY <2>1, <2>9, ToldArrange
  <1> QED
    BY <1>2, <1>3

-----------------------------------------------------------------------------
(* The steps.                                                              *)

LEMMA StepTold ==
  ASSUME NEW s \in State, Told(s), Become(s)
  PROVE  Told(Now')
  BY BecomeIs

LEMMA ClientActsTold ==
  ASSUME Sound(Now), Told(Now), NEW c \in Clients, ClientMap(c) \/ ClientWithdraw(c) \/ ClientDestroy(c)
  PROVE  Told(Now')
  <1> DEFINE o == client[c]
             x == V!XUnmapWindow(o)
             a == [o EXCEPT !.notices = <<"request">>]
             b == [x EXCEPT !.notices = Append(@, "synthetic")]
             d == [x EXCEPT !.notices = Append(@, "destroy"), !.win = "gone"]
  <1>1. Now.client = client /\ Now.current = current /\ Now \in State
    BY DEF Now, Sound
  <1>2. o \in Record /\ RecordOK(o, current)
    BY <1>1 DEF Sound, State, Records
  <1>3. \/ Become(Put(Now, c, a)) /\ o.win = "unmapped"
        \/ Become(Put(Now, c, b)) \/ Become(Put(Now, c, d))
    BY DEF ClientMap, ClientWithdraw, ClientDestroy, ClientActs
  <1> HIDE DEF o
  <1>4. IsTold(x) /\ Fits(o, x) /\ Tells(o, x) /\ x.win # "mapped"
    BY <1>2, XUnmapWindowIs
  <1>5. [x EXCEPT !.notices = <<>>] \in Record /\ x.notices \in Seq(V!Notices)
    BY <1>4 DEF IsTold
  <1> HIDE DEF x
  <1>6. ASSUME NEW q, q = a, o.win = "unmapped" PROVE Told(Put(Now, c, q)) /\ Put(Now, c, q) \in State
    <2>1. [q EXCEPT !.notices = <<>>] = [o EXCEPT !.notices = <<>>]
      BY <1>2, <1>6 DEF Record
    <2>2. [o EXCEPT !.notices = <<>>] \in Record
      BY <1>2 DEF Record
    <2>3. /\ q.notices = <<"request">> /\ q.managed = o.managed /\ q.workspace = o.workspace
          /\ q.state = o.state /\ q.pending_unmap = o.pending_unmap
      BY <1>2, <1>6 DEF Record
    <2>4. "request" \in V!Notices
      BY DEF V!Notices
    <2> HIDE DEF a
    <2>5. IsTold(q)
      BY <2>1, <2>2, <2>3, <2>4 DEF IsTold
    <2>6. Awaited(o) => Awaited(q)
      BY <2>3 DEF Awaited
    <2>7. Now.client[c] = o
      BY <1>1 DEF o
    <2> QED
      BY <1>1, <1>6, <2>3, <2>5, <2>6, <2>7, ToldPut, PutIs
  <1>7. ASSUME NEW q, q = b \/ q = d PROVE Told(Put(Now, c, q)) /\ Put(Now, c, q) \in State
    <2> DEFINE y == [x EXCEPT !.notices = <<>>]
    <2>1. /\ q.managed = x.managed /\ q.workspace = x.workspace
          /\ q.state = x.state /\ q.pending_unmap = x.pending_unmap
          /\ q.notices = Append(x.notices, "synthetic") \/ q.notices = Append(x.notices, "destroy")
      BY <1>5, <1>7 DEF Record
    <2>2. [q EXCEPT !.notices = <<>>] = y \/ [q EXCEPT !.notices = <<>>] = [y EXCEPT !.win = "gone"]
      BY <1>5, <1>7 DEF Record
    <2>3. y \in Record
      BY <1>5
    <2> HIDE DEF y, b, d
    <2>4. [y EXCEPT !.win = "gone"] \in Record
      BY <2>3 DEF Record
    <2>5. "synthetic" \in V!Notices /\ "destroy" \in V!Notices
      BY DEF V!Notices
    <2>6. /\ q.notices \in Seq(V!Notices) /\ q.notices # <<>>
          /\ x.notices # <<>> => Head(q.notices) = Head(x.notices)
      BY SMTT(60), <1>5, <2>1, <2>5
    <2>7. IsTold(q)
      BY <2>2, <2>3, <2>4, <2>6 DEF IsTold
    <2>8. o.win = "mapped" => Head(q.notices) = "unmap"
      BY <1>4, <2>6 DEF Tells
    <2>9. Awaited(o) => Awaited(q)
      BY <1>4, <2>1 DEF Tells, Awaited
    <2>10. o.managed => q.managed /\ q.workspace = o.workspace
      BY <1>4, <2>1 DEF Fits
    <2>11. Now.client[c] = o
      BY <1>1 DEF o
    <2> QED
      BY <1>1, <2>6, <2>7, <2>8, <2>9, <2>10, <2>11, ToldPut, PutIs
  <1>8. PICK q \in {a, b, d} : Told(Put(Now, c, q)) /\ Put(Now, c, q) \in State /\ Become(Put(Now, c, q))
    BY <1>3, <1>6, <1>7
  <1> HIDE DEF a, b, d
  <1> QED
    BY <1>8, StepTold

LEMMA UserEventTold ==
  ASSUME Sound(Now), Told(Now), PressKey \/ \E c \in Clients : PointerEnters(c)
  PROVE  Told(Now')
  <1>0. Event("key", None) \in Events /\ Event("key", None).what = "key"
        /\ \A c \in Clients : Event("enter", c) \in Events /\ Event("enter", c).what = "enter"
    BY DEF Event, Events
  <1>1. PICK e \in Events : UserEvent(e) /\ e.what \in {"key", "enter"}
    <2>1. CASE PressKey
      BY <1>0, <2>1 DEF PressKey
    <2>2. CASE \E c \in Clients : PointerEnters(c)
      BY <1>0, <2>2 DEF PointerEnters
    <2> QED
      BY <2>1, <2>2
  <1> DEFINE f == <<e>>
  <1>2. /\ f \in Seq(Events) /\ Len(f) = 1 /\ f[1] = e
        /\ \A c : Own(f, c) = {}
    BY <1>1 DEF Own, Notable, V!Notices
  <1> HIDE DEF f
  <1>3. Now \in State /\ Now.queue = queue /\ Now.input = input
    BY DEF Sound, Now
  <1>4. queue \in Seq(Events)
    BY <1>3 DEF State
  <1>5. queue' = queue \o f
    BY <1>1, <1>4 DEF UserEvent, f
  <1>6. queue' \in Seq(Events)
    BY <1>2, <1>4, <1>5
  <1>7. Now' \in State
    BY <1>1, <1>3, <1>6 DEF UserEvent, Now, State
  <1> DEFINE t == Now'
  <1>8. Rerouted(Now, t) /\ t.queue = Now.queue \o f /\ t.input = Now.input
    BY <1>1, <1>3, <1>5, <1>7 DEF UserEvent, Now, Rerouted
  <1>9. t \in State
    BY <1>7
  <1> HIDE DEF t
  <1>10. HasInput(t)
    BY <1>8 DEF Told, HasInput, Rerouted
  <1>11. \A k \in 1..Len(f) : f[k].what # "in"
    BY <1>1, <1>2
  <1>12. Conveys(Now, t)
    BY <1>2, <1>3, <1>8, <1>9, <1>10, <1>11, ConveysBehind
  <1>13. Told(t)
    BY <1>8, <1>12, ToldRerouted
  <1> QED
    BY <1>13 DEF t

LEMMA ReadTold ==
  ASSUME Sound(Now), Told(Now), queue # <<>>, Head(queue).what # "out"
  PROVE  Told(Rest)
  <1>1. Read
    BY RestTold
  <1>2. Rest.client = client /\ Rest.desk = desk
    BY RestIs
  <1>3. TrackedSafe(Rest)
    BY <1>1, <1>2 DEF Read, TrackedSafe
  <1> QED
    BY <1>1, <1>3 DEF Read, Told

LEMMA HandleTold ==
  ASSUME Sound(Now), Told(Now), "move" \notin Bindings, Handle
  PROVE  Told(Now')
  <1> DEFINE what == Head(queue).what
  <1>1. queue # <<>>
    BY DEF Handle, MapRequest, UnmapNotify, MapNotify, DestroyNotify, FocusIn, FocusOut, EnterNotify,
           SwitchWorkspace, MoveToWorkspace, MapLatestUnmap, UnmapWindow, MinimizeWindow, MinimizeAll,
           ToggleFullscreen, KeyOfNoUse, Key, Reads
  <1>2. /\ Sound(Rest) /\ Rest.client = client /\ Rest.desk = desk /\ Rest.current = current
        /\ what # "key" => Of \in Clients
    BY <1>1, RestIs
  <1>3. what # "out" => Told(Rest)
    BY <1>1, ReadTold
  <1>4. Read
    BY <1>1, RestTold
  <1>5. what \notin {"unmap", "enter", "out"} => \A w \in Workspaces : what # "key" => Rest.desk[w].tracked # Of
    BY <1>2, <1>4 DEF Read
  <1>6. what = "unmap" => \A w \in Workspaces : Rest.desk[w].tracked = Of =>
                            Awaited(Rest.client[Of]) /\ OutNext(Rest.queue, Of, 0)
    BY <1>2, <1>4 DEF Read
  <1>7. ASSUME NEW t, Told(t), Sound(t), Become(t) PROVE Told(Now')
    BY <1>7, StepTold DEF Sound
  <1>8. CASE MapRequest
    <2>1. what = "request" /\ Become(HandleMapRequest(Rest, Of))
      BY <1>8 DEF MapRequest, Reads
    <2>2. Told(HandleMapRequest(Rest, Of)) /\ Sound(HandleMapRequest(Rest, Of))
      BY <1>2, <1>3, <1>5, <2>1, ToldHandleMapRequest, SoundHandleMapRequest
    <2> QED
      BY <1>7, <2>1, <2>2
  <1>9. CASE UnmapNotify
    <2>1. PICK first \in Clients : what \in {"unmap", "synthetic"} /\ Become(HandleUnmapNotify(Rest, Of, first))
      BY <1>9 DEF UnmapNotify, Reads
    <2>2. Told(HandleUnmapNotify(Rest, Of, first)) /\ Sound(HandleUnmapNotify(Rest, Of, first))
      BY <1>2, <1>3, <1>5, <1>6, <2>1, ToldHandleUnmapNotify, SoundHandleUnmapNotify
    <2> QED
      BY <1>7, <2>1, <2>2
  <1>10. CASE MapNotify
    <2>1. PICK first \in Clients : what = "map" /\ Become(HandleMapNotify(Rest, Of, first))
      BY <1>10 DEF MapNotify, Reads
    <2>2. Told(HandleMapNotify(Rest, Of, first)) /\ Sound(HandleMapNotify(Rest, Of, first))
      BY <1>2, <1>3, <1>5, <2>1, ToldHandleMapNotify, SoundHandleMapNotify
    <2> QED
      BY <1>7, <2>1, <2>2
  <1>11. CASE DestroyNotify
    <2>1. PICK first \in Clients : what = "destroy" /\ Become(HandleDestroyNotify(Rest, Of, first))
      BY <1>11 DEF DestroyNotify, Reads
    <2>2. Told(HandleDestroyNotify(Rest, Of, first)) /\ Sound(HandleDestroyNotify(Rest, Of, first))
      BY <1>2, <1>3, <1>5, <2>1, ToldHandleDestroyNotify, SoundHandleDestroyNotify
    <2> QED
      BY <1>7, <2>1, <2>2
  <1>12. CASE FocusIn
    <2>1. what = "in" /\ Become(HandleFocusIn(Rest, Of))
      BY <1>12 DEF FocusIn, Reads
    <2>2. Safe(Rest, Of, 0)
      BY <1>4, <2>1 DEF Read
    <2>3. Told(HandleFocusIn(Rest, Of)) /\ Sound(HandleFocusIn(Rest, Of))
      BY <1>2, <1>3, <2>1, <2>2, ToldHandleFocusIn, SoundHandleFocusIn
    <2> QED
      BY <1>7, <2>1, <2>3
  <1>13. CASE FocusOut
    <2>1. what = "out" /\ Become(HandleFocusOut(Rest, Of))
      BY <1>13 DEF FocusOut, Reads
    <2>2. Told(HandleFocusOut(Rest, Of)) /\ Sound(HandleFocusOut(Rest, Of))
      BY <1>1, <1>2, <2>1, ToldHandleFocusOut, SoundHandleFocusOut
    <2> QED
      BY <1>7, <2>1, <2>2
  <1>14. CASE EnterNotify
    <2>1. what = "enter" /\ Become(HandleEnterNotify(Rest, Of, Time))
      BY <1>14 DEF EnterNotify, Reads
    <2>2. Told(HandleEnterNotify(Rest, Of, Time)) /\ Sound(HandleEnterNotify(Rest, Of, Time))
      BY <1>2, <1>3, <2>1, ToldHandleEnterNotify, SoundHandleEnterNotify
    <2> QED
      BY <1>7, <2>1, <2>2
  <1>15. CASE \E w \in Workspaces : SwitchWorkspace(w) \/ MoveToWorkspace(w)
    <2>1. PICK w \in Workspaces : SwitchWorkspace(w)
      BY <1>15 DEF MoveToWorkspace, Key
    <2>2. PICK first \in Clients : Become(ActionSwitchWorkspace(Rest, w, first))
      BY <2>1 DEF SwitchWorkspace
    <2>3. w # Rest.current /\ Told(Rest)
      BY <1>2, <1>3, <2>1 DEF SwitchWorkspace, Key, Reads
    <2>4. Told(ActionSwitchWorkspace(Rest, w, first)) /\ Sound(ActionSwitchWorkspace(Rest, w, first))
      BY <1>2, <2>3, ToldActionSwitchWorkspace, SoundActionSwitchWorkspace
    <2> QED
      BY <1>7, <2>2, <2>4
  <1>16. CASE \E c \in Clients : MapLatestUnmap(c)
    <2>1. PICK c \in Clients : MapLatestUnmap(c)
      BY <1>16
    <2>2. /\ Rest.client[c].managed /\ Rest.client[c].ul # "none" /\ Become(ActionMapLatestUnmap(Rest, c))
          /\ Told(Rest)
      BY <1>2, <1>3, <2>1 DEF MapLatestUnmap, Key, Reads
    <2>3. Told(ActionMapLatestUnmap(Rest, c)) /\ Sound(ActionMapLatestUnmap(Rest, c))
      BY <1>2, <2>2, ToldActionMapLatestUnmap, SoundActionMapLatestUnmap
    <2> QED
      BY <1>7, <2>2, <2>3
  <1>17. CASE UnmapWindow
    <2>1. Told(Rest) /\ Become(ActionUnmapWindow(Rest))
      BY <1>3, <1>17 DEF UnmapWindow, Key, Reads
    <2>2. Told(ActionUnmapWindow(Rest)) /\ Sound(ActionUnmapWindow(Rest))
      BY <1>2, <2>1, ToldActionUnmapWindow, SoundActionUnmapWindow
    <2> QED
      BY <1>7, <2>1, <2>2
  <1>18. CASE MinimizeWindow
    <2>1. PICK first \in Clients : Told(Rest) /\ Become(ActionMinimizeWindow(Rest, first, Time))
      BY <1>3, <1>18 DEF MinimizeWindow, Key, Reads
    <2>2. Told(ActionMinimizeWindow(Rest, first, Time)) /\ Sound(ActionMinimizeWindow(Rest, first, Time))
      BY <1>2, <2>1, ToldActionMinimizeWindow, SoundActionMinimizeWindow
    <2> QED
      BY <1>7, <2>1, <2>2
  <1>19. CASE MinimizeAll
    <2>1. Told(Rest) /\ Become(ActionMinimizeAll(Rest))
      BY <1>3, <1>19 DEF MinimizeAll, Key, Reads
    <2>2. Told(ActionMinimizeAll(Rest)) /\ Sound(ActionMinimizeAll(Rest))
      BY <1>2, <2>1, ToldActionMinimizeAll, SoundActionMinimizeAll
    <2> QED
      BY <1>7, <2>1, <2>2
  <1>20. CASE ToggleFullscreen
    <2>1. Told(Rest) /\ Become(ActionToggleFullscreen(Rest))
      BY <1>3, <1>20 DEF ToggleFullscreen, Key, Reads
    <2>2. Told(ActionToggleFullscreen(Rest)) /\ Sound(ActionToggleFullscreen(Rest))
      BY <1>2, <2>1, ToldActionToggleFullscreen, SoundActionToggleFullscreen
    <2> QED
      BY <1>7, <2>1, <2>2
  <1>21. CASE KeyOfNoUse
    <2>1. Told(Rest) /\ Become(Rest)
      BY <1>3, <1>21 DEF KeyOfNoUse, Reads
    <2> QED
      BY <1>2, <1>7, <2>1
  <1> QED
    BY <1>8, <1>9, <1>10, <1>11, <1>12, <1>13, <1>14, <1>15, <1>16, <1>17, <1>18, <1>19, <1>20, <1>21 DEF Handle

LEMMA InitTold ==
  ASSUME Init
  PROVE  Told(Now)
  <1>1. Now.client = client /\ Now.desk = desk /\ Now.input = None /\ Now.queue = <<>>
    BY DEF Now, Init
  <1>2. \A w \in Workspaces : desk[w].tracked = None /\ desk[w].before = None
    BY DEF Init
  <1>3. \A w \in Workspaces, c \in Clients : Now.desk[w].tracked # c /\ Now.desk[w].before # c
    BY <1>1, <1>2, FocusAssumption
  <1> QED
    BY <1>1, <1>3 DEF Told, Points, HasInput, InsSafe, TrackedSafe

-----------------------------------------------------------------------------
(* Unless windows are sent to other workspaces, nothing that says who has  *)
(* the focus, had it or may get it points to a client the manager has      *)
(* forgotten: not the focus of a workspace, though it is set and cleared   *)
(* by events that are read long after the window has gone, not the focus   *)
(* from before a switch, the fullscreen client or the links of the stacks. *)
THEOREM PointersLive ==
  ASSUME "move" \notin Bindings
  PROVE  Spec => []NoDanglingPointer
  <1>1. Init => Told(Now)
    BY InitTold
  <1>2. Inv /\ Told(Now) /\ [Next]_vars => Told(Now)'
    <2> SUFFICES ASSUME Sound(Now), Told(Now), [Next]_vars PROVE Told(Now')
      BY DEF Inv
    <2>1. CASE UNCHANGED vars
      <3>1. Now' = Now
        BY <2>1 DEF vars, Now
      <3> QED
        BY <3>1
    <2>2. CASE \E c \in Clients : ClientMap(c) \/ ClientWithdraw(c) \/ ClientDestroy(c)
      BY <2>2, ClientActsTold
    <2>3. CASE PressKey \/ \E c \in Clients : PointerEnters(c)
      BY <2>3, UserEventTold
    <2>4. CASE Handle
      BY <2>4, HandleTold
    <2> QED
      BY <2>1, <2>2, <2>3, <2>4 DEF Next
  <1>3. Inv /\ Told(Now) => NoDanglingPointer
    <2> SUFFICES ASSUME Sound(Now), Points(Now) PROVE NoDanglingPointer
      BY DEF Inv, Told
    <2>1. Now \in State /\ Now.client = client /\ Now.desk = desk
      BY DEF Sound, Now
    <2>2. PICK rank : Ranked(Now, rank)
      BY DEF Sound, Stacked
    <2>3. \A c \in Clients : client[c].next \in Clients \cup {None}
      BY <2>1 DEF State, Record
    <2>4. \A w \in Workspaces : /\ desk[w].tracked \in Clients \cup {None} /\ desk[w].before \in Clients \cup {None}
                                /\ desk[w].full \in Clients \cup {None} /\ desk[w].head \in Clients \cup {None}
      BY <2>1 DEF State, Desk
    <2>5. ASSUME NEW w \in Workspaces
          PROVE  Managed(desk[w].tracked) /\ Managed(desk[w].before)
      BY <2>1, <2>4 DEF Points, Managed
    <2>6. ASSUME NEW w \in Workspaces PROVE Managed(desk[w].full)
      BY <2>1, <2>4 DEF Sound, FullOK, FullAt, Managed
    <2>7. \A c \in Clients : rank[c] \in Nat
      BY <2>2 DEF Ranked
    <2>8. ASSUME NEW w \in Workspaces PROVE Managed(desk[w].head)
      <3>1. desk[w].n \in Nat
        BY <2>1 DEF State, Desk
      <3>2. CASE desk[w].n = 0
        BY <2>1, <2>2, <3>2 DEF Ranked, Managed
      <3>3. CASE desk[w].n > 0
        <4>1. desk[w].head \in Clients /\ rank[desk[w].head] > 0
          BY <2>1, <2>2, <3>3 DEF Ranked
        <4> QED
          BY <2>1, <2>2, <4>1 DEF Ranked, Managed
      <3> QED
        BY <3>1, <3>2, <3>3
    <2>9. ASSUME NEW c \in Clients PROVE Managed(client[c].next)
      <3>1. CASE rank[c] \in {0, 1}
        BY <2>1, <2>2, <3>1 DEF Ranked, Managed
      <3>2. CASE rank[c] > 1
        <4>1. client[c].next \in Clients /\ rank[client[c].next] = rank[c] - 1
          BY <2>1, <2>2, <2>7, <3>2 DEF Ranked
        <4>2. rank[client[c].next] > 0
          BY <2>7, <3>2, <4>1
        <4> QED
          BY <2>1, <2>2, <4>1, <4>2 DEF Ranked, Managed
      <3> QED
        BY <2>7, <3>1, <3>2
    <2> QED
      BY <2>5, <2>6, <2>8, <2>9 DEF NoDanglingPointer
  <1> QED
    BY <1>1, <1>2, <1>3, InvInductive, PTL DEF Spec
=============================================================================
