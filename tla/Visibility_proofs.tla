-------------------------- MODULE Visibility_proofs --------------------------
(***************************************************************************)
(* Proofs about the map/unmap protocol, for every set of windows, docks    *)
(* and workspaces, every configuration and every bound.                    *)
(*                                                                         *)
(* Every action replaces a client's record by an operator applied to it,   *)
(* so the proof goes record by record: Core is what map_client and         *)
(* unmap_client need and keep, and each handler is shown to lead from a    *)
(* record of the inductive invariant to another. The second half is about  *)
(* where only some bindings are used: what a user unmapped stays unmapped, *)
(* and a window of the current workspace comes back. Each needs more than  *)
(* IInv, and adds its part (StayMarked, SInv) record by record again.      *)
(***************************************************************************)
EXTENDS Visibility, TLAPS

LEMMA AppendNotice ==
  ASSUME NEW s \in Seq(Notices), NEW e \in Notices, NEW kinds, NEW k
  PROVE  /\ Append(s, e) \in Seq(Notices)
         /\ e = k /\ k \notin kinds => FollowedBy(Append(s, e), kinds, k)
         /\ e \notin kinds /\ FollowedBy(s, kinds, k)
              => FollowedBy(Append(s, e), kinds, k)
         /\ \A x : (\E i \in 1..Len(s) : s[i] = x)
                     => \E i \in 1..Len(Append(s, e)) : Append(s, e)[i] = x
         /\ \E i \in 1..Len(Append(s, e)) : Append(s, e)[i] = e
  <1> DEFINE t == Append(s, e)
  <1>1. /\ t \in Seq(Notices)
        /\ Len(t) = Len(s) + 1
        /\ Len(s) \in Nat
        /\ t[Len(s) + 1] = e
        /\ \A i \in 1..Len(s) : t[i] = s[i]
    OBVIOUS
  <1>2. ASSUME e = k, k \notin kinds PROVE FollowedBy(t, kinds, k)
    <2> SUFFICES ASSUME NEW i \in 1..Len(t), t[i] \in kinds
                 PROVE  \E j \in (i + 1)..Len(t) : t[j] = k
      BY DEF FollowedBy
    <2>1. i # Len(t)
      BY <1>1, <1>2
    <2>2. Len(t) \in (i + 1)..Len(t)
      BY <2>1, <1>1
    <2> QED
      BY <2>2, <1>1, <1>2
  <1>3. ASSUME e \notin kinds, FollowedBy(s, kinds, k) PROVE FollowedBy(t, kinds, k)
    <2> SUFFICES ASSUME NEW i \in 1..Len(t), t[i] \in kinds
                 PROVE  \E j \in (i + 1)..Len(t) : t[j] = k
      BY DEF FollowedBy
    <2>1. i \in 1..Len(s) /\ s[i] \in kinds
      BY <1>1, <1>3
    <2>2. PICK j \in (i + 1)..Len(s) : s[j] = k
      BY <2>1, <1>3 DEF FollowedBy
    <2> QED
      BY <1>1, <2>1, <2>2
  <1>4. ASSUME NEW x, NEW i \in 1..Len(s), s[i] = x
        PROVE  \E j \in 1..Len(t) : t[j] = x
    BY <1>1, <1>4
  <1> QED
    BY <1>1, <1>2, <1>3, <1>4

LEMMA TailNotice ==
  ASSUME NEW s \in Seq(Notices), s # <<>>, NEW kinds, NEW k
  PROVE  /\ Head(s) \in Notices
         /\ Tail(s) \in Seq(Notices)
         /\ FollowedBy(s, kinds, k) => FollowedBy(Tail(s), kinds, k)
         /\ FollowedBy(s, kinds, k) /\ Head(s) \in kinds
              => \E i \in 1..Len(Tail(s)) : Tail(s)[i] = k
         /\ \A x : (\E i \in 1..Len(s) : s[i] = x) /\ x # Head(s)
                     => \E i \in 1..Len(Tail(s)) : Tail(s)[i] = x
  <1> DEFINE t == Tail(s)
  <1>1. /\ t \in Seq(Notices)
        /\ Head(s) \in Notices
        /\ Head(s) = s[1]
        /\ Len(s) \in Nat
        /\ Len(t) = Len(s) - 1
        /\ \A i \in 1..Len(t) : t[i] = s[i + 1]
    OBVIOUS
  <1>2. ASSUME FollowedBy(s, kinds, k) PROVE FollowedBy(t, kinds, k)
    <2> SUFFICES ASSUME NEW i \in 1..Len(t), t[i] \in kinds
                 PROVE  \E j \in (i + 1)..Len(t) : t[j] = k
      BY DEF FollowedBy
    <2>1. i + 1 \in 1..Len(s) /\ s[i + 1] \in kinds
      BY <1>1
    <2>2. PICK j \in (i + 2)..Len(s) : s[j] = k
      BY <2>1, <1>2 DEF FollowedBy
    <2>3. j - 1 \in (i + 1)..Len(t) /\ t[j - 1] = k
      BY <2>2, <1>1
    <2> QED
      BY <2>3
  <1>3. ASSUME FollowedBy(s, kinds, k), Head(s) \in kinds
        PROVE  \E i \in 1..Len(t) : t[i] = k
    <2>0. Len(s) > 0
      BY <1>1
    <2>1. PICK j \in 2..Len(s) : s[j] = k
      BY <1>1, <1>3, <2>0 DEF FollowedBy
    <2>2. j - 1 \in 1..Len(t) /\ t[j - 1] = k
      BY <2>1, <1>1
    <2> QED
      BY <2>2
  <1>4. ASSUME NEW x, NEW i \in 1..Len(s), s[i] = x, x # Head(s)
        PROVE  \E j \in 1..Len(t) : t[j] = x
    <2>1. i - 1 \in 1..Len(t) /\ t[i - 1] = x
      BY <1>1, <1>4
    <2> QED
      BY <2>1
  <1> QED
    BY <1>1, <1>2, <1>3, <1>4

-----------------------------------------------------------------------------
(* What map_client and unmap_client need of a client, and leave true.      *)
Core(r) ==
  /\ r \in Client /\ r.managed /\ r.workspace \in Workspaces /\ IsInPlace(r)
  /\ History(r) /\ Lag(r) /\ Flags(r)

LEMMA XMapWindowProperties ==
  ASSUME NEW r \in Client, History(r)
  PROVE  /\ XMapWindow(r) \in Client
         /\ History(XMapWindow(r))
         /\ r.win = "unmapped" => /\ XMapWindow(r).win = "mapped"
                                  /\ Has(XMapWindow(r), "map")
         /\ r.win # "unmapped" => XMapWindow(r) = r
         /\ \A x : Has(r, x) => Has(XMapWindow(r), x)
         /\ XMapWindow(r) = [r EXCEPT !.win = XMapWindow(r).win,
                                      !.notices = XMapWindow(r).notices]
  <1>1. CASE r.win = "unmapped"
    <2> DEFINE t == Append(r.notices, "map")
               q == [r EXCEPT !.win = "mapped", !.notices = t]
    <2>1. XMapWindow(r) = q
      BY <1>1 DEF XMapWindow
    <2>2. r.notices \in Seq(Notices) /\ "map" \in Notices
      BY DEF Client, Notices
    <2>3. t \in Seq(Notices) /\ FollowedBy(t, {"unmap", "synthetic", "destroy"}, "map")
      BY <2>2, AppendNotice
    <2>4. q \in Client /\ q.notices = t /\ q.win = "mapped"
      BY <2>3 DEF Client
    <2>5. \A x : Has(r, x) => Has(q, x)
      BY <2>2, <2>4, AppendNotice DEF Has
    <2>6. Has(q, "map")
      BY <2>2, <2>4, AppendNotice DEF Has
    <2>7. History(q)
      BY <2>3, <2>4 DEF History
    <2>8. q = [r EXCEPT !.win = q.win, !.notices = q.notices]
      BY <2>4
    <2> QED
      BY <1>1, <2>1, <2>4, <2>5, <2>6, <2>7, <2>8
  <1>2. CASE r.win # "unmapped"
    <2>1. XMapWindow(r) = r
      BY <1>2 DEF XMapWindow
    <2>2. r = [r EXCEPT !.win = r.win, !.notices = r.notices]
      BY DEF Client
    <2> QED
      BY <1>2, <2>1, <2>2
  <1> QED
    BY <1>1, <1>2

LEMMA XUnmapWindowProperties ==
  ASSUME NEW r \in Client, History(r)
  PROVE  /\ XUnmapWindow(r) \in Client
         /\ History(XUnmapWindow(r))
         /\ XUnmapWindow(r).win # "mapped"
         /\ r.win = "mapped" => Has(XUnmapWindow(r), "unmap")
         /\ r.win # "mapped" => XUnmapWindow(r) = r
         /\ \A x : Has(r, x) => Has(XUnmapWindow(r), x)
         /\ XUnmapWindow(r) = [r EXCEPT !.win = XUnmapWindow(r).win,
                                        !.notices = XUnmapWindow(r).notices]
  <1>1. CASE r.win = "mapped"
    <2> DEFINE t == Append(r.notices, "unmap")
               q == [r EXCEPT !.win = "unmapped", !.notices = t]
    <2>1. XUnmapWindow(r) = q
      BY <1>1 DEF XUnmapWindow
    <2>2. r.notices \in Seq(Notices) /\ "unmap" \in Notices
      BY DEF Client, Notices
    <2>3. t \in Seq(Notices) /\ FollowedBy(t, {"map"}, "unmap")
      BY <2>2, AppendNotice
    <2>4. q \in Client /\ q.notices = t /\ q.win = "unmapped"
      BY <2>3 DEF Client
    <2>5. \A x : Has(r, x) => Has(q, x)
      BY <2>2, <2>4, AppendNotice DEF Has
    <2>6. Has(q, "unmap")
      BY <2>2, <2>4, AppendNotice DEF Has
    <2>7. History(q)
      BY <2>3, <2>4 DEF History
    <2>8. q = [r EXCEPT !.win = q.win, !.notices = q.notices]
      BY <2>4
    <2> QED
      BY <1>1, <2>1, <2>4, <2>5, <2>6, <2>7, <2>8
  <1>2. CASE r.win # "mapped"
    <2>1. XUnmapWindow(r) = r
      BY <1>2 DEF XUnmapWindow
    <2>2. r = [r EXCEPT !.win = r.win, !.notices = r.notices]
      BY DEF Client
    <2> QED
      BY <1>2, <2>1, <2>2
  <1> QED
    BY <1>1, <1>2

LEMMA MapClientCore ==
  ASSUME NEW r, Core(r)
  PROVE  /\ Core(MapClient(r))
         /\ MapClient(r).workspace = r.workspace
         /\ MapClient(r).state = "MAPPED" => r.state = "MAPPED"
  <1> DEFINE q == [r EXCEPT !.state = "MAP_PENDING"]
             m == XMapWindow(q)
  <1>1. CASE MapClient(r) = r
    BY <1>1
  <1>2. CASE MapClient(r) # r
    <2>1. /\ MapClient(r) = m
          /\ ~IsClientMapped(r) /\ r.state # "UNMAP_PENDING"
      BY <1>2 DEF MapClient
    <2>2. ~r.mapped /\ r.ul # "none"
      BY <2>1 DEF Core, Flags, IsClientMapped, Client, IsInPlace
    <2>3. q \in Client /\ q.win = r.win /\ q.notices = r.notices
      BY DEF Core, Client, States, IsInPlace
    <2>4. History(q)
      BY <2>3 DEF Core, History, IsInPlace
    <2>5. /\ m \in Client /\ History(m)
          /\ q.win = "unmapped" => m.win = "mapped" /\ Has(m, "map")
          /\ q.win # "unmapped" => m = q
          /\ \A x : Has(q, x) => Has(m, x)
          /\ m = [q EXCEPT !.win = m.win, !.notices = m.notices]
      BY <2>3, <2>4, XMapWindowProperties
    <2>6. /\ m.managed = r.managed /\ m.workspace = r.workspace /\ m.place = r.place
          /\ m.mapped = r.mapped /\ m.state = "MAP_PENDING" /\ m.ul = r.ul
      BY <2>3, <2>5 DEF Core, Client, IsInPlace
    <2>7. \A x : Has(r, x) => Has(q, x)
      BY <2>3 DEF Has
    <2>8. /\ r.win = "mapped" => Has(m, "map")
          /\ m.win = "gone" => Has(m, "destroy")
          /\ m.win = "gone" \/ Has(m, "map")
      BY <2>2, <2>3, <2>5, <2>7 DEF Core, Lag, Client, IsInPlace
    <2>9. Lag(m)
      BY <2>2, <2>3, <2>5, <2>6, <2>8 DEF Lag
    <2>10. Flags(m)
      BY <2>2, <2>6, <2>8 DEF Flags
    <2> QED
      BY <2>1, <2>5, <2>6, <2>9, <2>10 DEF Core, IsInPlace
  <1> QED
    BY <1>1, <1>2

LEMMA UnmapClientCore ==
  ASSUME NEW r, Core(r)
  PROVE  /\ Core(UnmapClient(r))
         /\ UnmapClient(r).workspace = r.workspace
         /\ UnmapClient(r).state # "MAPPED"
  <1> DEFINE q == [r EXCEPT !.state = "UNMAP_PENDING", !.pending_unmap = @ + 1]
             m == XUnmapWindow(q)
  <1>1. CASE ~IsClientMapped(r) \/ r.state \in {"MAP_PENDING", "UNMAP_PENDING"}
    <2>1. UnmapClient(r) = r
      BY <1>1 DEF UnmapClient
    <2>2. r.state # "MAPPED"
      BY <1>1 DEF Core, Flags, IsClientMapped, IsInPlace
    <2> QED
      BY <2>1, <2>2
  <1>2. CASE IsClientMapped(r) /\ r.state \notin {"MAP_PENDING", "UNMAP_PENDING"}
    <2>1. UnmapClient(r) = m
      BY <1>2 DEF UnmapClient
    <2>2. r.mapped /\ r.ul = "none"
      BY <1>2 DEF Core, Flags, IsClientMapped, IsInPlace
    <2>0. PICK p \in Nat : p = r.pending_unmap + 1
      BY DEF Core, Client, IsInPlace
    <2>3. q \in Client /\ q.win = r.win /\ q.notices = r.notices
      <3>1. q = [r EXCEPT !.state = "UNMAP_PENDING", !.pending_unmap = p]
        BY <2>0
      <3> QED
        BY <3>1 DEF Core, Client, States, IsInPlace
    <2>4. History(q)
      BY <2>3 DEF Core, History, IsInPlace
    <2>5. /\ m \in Client /\ History(m) /\ m.win # "mapped"
          /\ q.win = "mapped" => Has(m, "unmap")
          /\ q.win # "mapped" => m = q
          /\ \A x : Has(q, x) => Has(m, x)
          /\ m = [q EXCEPT !.win = m.win, !.notices = m.notices]
      BY <2>3, <2>4, XUnmapWindowProperties
    <2>6. /\ m.managed = r.managed /\ m.workspace = r.workspace /\ m.place = r.place
          /\ m.mapped = r.mapped /\ m.state = "UNMAP_PENDING" /\ m.ul = r.ul
      BY ZenonT(60), <2>3, <2>5 DEF Core, Client, IsInPlace
    <2>7. \A x : Has(r, x) => Has(q, x)
      BY <2>3 DEF Has
    <2>8. Has(m, "unmap")
      BY <2>2, <2>3, <2>5, <2>7 DEF Core, Lag, IsInPlace
    <2>9. m.win = "gone" => r.win = "gone"
      BY <2>1, <2>3 DEF XUnmapWindow
    <2>10. m.win = "gone" => Has(m, "destroy")
      BY <2>3, <2>5, <2>7, <2>9 DEF Core, Lag, IsInPlace
    <2>11. Lag(m)
      BY <2>5, <2>8, <2>10 DEF Lag
    <2>12. Flags(m)
      BY <2>2, <2>5, <2>6 DEF Flags
    <2> QED
      BY <2>1, <2>5, <2>6, <2>11, <2>12 DEF Core, IsInPlace
  <1> QED
    BY <1>1, <1>2

-----------------------------------------------------------------------------
(* The handlers. *)

Good(r, cur, dock) == r \in Client /\ Inductive(r, cur, dock)

LEMMA FreshProperties ==
  ASSUME NEW r \in Client
  PROVE  /\ Fresh(r) \in Client /\ ~Fresh(r).managed
         /\ Fresh(r).win = r.win /\ Fresh(r).notices = r.notices
         /\ Fresh(r).desktop = r.desktop
         /\ ~Fresh(r).mapped /\ Fresh(r).state = "UNMAPPED" /\ Fresh(r).ul = "none"
         /\ History(r) => History(Fresh(r))
  BY ZenonT(60) DEF Fresh, Client, States, History

LEMMA FreshGood ==
  ASSUME NEW r \in Client, History(r), NEW cur, NEW dock
  PROVE  Good(Fresh(r), cur, dock)
  BY FreshProperties DEF Good, Inductive, IsInPlace

LEMMA ReadProperties ==
  ASSUME NEW r \in Client, History(r), r.notices # <<>>
  PROVE  /\ Read(r) \in Client
         /\ Read(r) = [r EXCEPT !.notices = Tail(r.notices)]
         /\ Read(r).win = r.win
         /\ History(Read(r))
         /\ \A x : Has(r, x) /\ x # Head(r.notices) => Has(Read(r), x)
         /\ r.win = "mapped" /\ Head(r.notices) \in {"unmap", "synthetic", "destroy"}
              => Has(Read(r), "map")
         /\ r.win # "mapped" /\ Head(r.notices) = "map" => Has(Read(r), "unmap")
         /\ r.win = "gone" /\ Head(r.notices) # "destroy" => Has(Read(r), "destroy")
  <1> DEFINE t == Tail(r.notices)
             q == [r EXCEPT !.notices = t]
  <1>1. r.notices \in Seq(Notices)
    BY DEF Client
  <1>2. t \in Seq(Notices)
    BY <1>1, TailNotice
  <1>3. /\ Read(r) = q /\ q \in Client
        /\ q.win = r.win /\ q.notices = t
    BY <1>2 DEF Read, Client
  <1>4. History(q)
    BY <1>1, <1>3, TailNotice DEF History
  <1>5. ASSUME NEW x, Has(r, x), x # Head(r.notices) PROVE Has(q, x)
    <2>1. \E i \in 1..Len(r.notices) : r.notices[i] = x
      BY <1>5 DEF Has
    <2>2. \E i \in 1..Len(t) : t[i] = x
      BY <1>1, <1>5, <2>1, TailNotice
    <2> QED
      BY <2>2, <1>3 DEF Has
  <1>6. ASSUME r.win = "mapped", Head(r.notices) \in {"unmap", "synthetic", "destroy"}
        PROVE  Has(q, "map")
    <2>1. FollowedBy(r.notices, {"unmap", "synthetic", "destroy"}, "map")
      BY <1>6 DEF History
    <2>2. \E i \in 1..Len(t) : t[i] = "map"
      BY <1>1, <1>6, <2>1, TailNotice
    <2> QED
      BY <2>2, <1>3 DEF Has
  <1>7. ASSUME r.win # "mapped", Head(r.notices) = "map"
        PROVE  Has(q, "unmap")
    <2>1. FollowedBy(r.notices, {"map"}, "unmap")
      BY <1>7 DEF History
    <2>2. \E i \in 1..Len(t) : t[i] = "unmap"
      BY <1>1, <1>7, <2>1, TailNotice
    <2> QED
      BY <2>2, <1>3 DEF Has
  <1>8. ASSUME r.win = "gone", Head(r.notices) # "destroy"
        PROVE  Has(q, "destroy")
    <2>1. FollowedBy(r.notices, Notices \ {"destroy"}, "destroy")
      BY <1>8 DEF History
    <2>2. Head(r.notices) \in Notices \ {"destroy"}
      BY <1>1, <1>8, TailNotice
    <2>3. \E i \in 1..Len(t) : t[i] = "destroy"
      BY <1>1, <2>1, <2>2, TailNotice
    <2> QED
      BY <2>3, <1>3 DEF Has
  <1> QED
    BY <1>3, <1>4, <1>5, <1>6, <1>7, <1>8

LEMMA StartManageCore ==
  ASSUME NEW r \in Client, History(r), NEW cur \in Workspaces,
         r.win = "gone" => Has(r, "destroy")
  PROVE  /\ Core(StartManage(r, cur))
         /\ StartManage(r, cur).workspace # cur => StartManage(r, cur).state # "MAPPED"
  <1> DEFINE known  == r.win # "gone"
             ws     == IF known /\ r.desktop \in Workspaces THEN r.desktop ELSE cur
             viewed == r.win = "mapped" /\ ws = cur
             told   == IF ws = cur THEN r ELSE XUnmapWindow(r)
             f      == Fresh(told)
             d      == IF f.desktop = NoWorkspace THEN ws ELSE f.desktop
             new    == [f EXCEPT !.managed = TRUE, !.known = known, !.workspace = ws,
                                 !.place = ws, !.desktop = d]
             n      == IF r.win = "mapped" THEN 1 ELSE 0
             shown  == [new EXCEPT !.mapped = TRUE, !.state = "MAPPED"]
             hidden == [new EXCEPT !.ul = "can", !.pending_unmap = n]
  <1>1. StartManage(r, cur) = IF viewed THEN shown ELSE hidden
    BY DEF StartManage
  <1>2. ws \in Workspaces /\ known \in BOOLEAN /\ n \in Nat
    OBVIOUS
  <1>3. told \in Client /\ History(told) /\ (ws # cur => told.win # "mapped")
    BY XUnmapWindowProperties
  <1>4. told.win = "gone" => Has(told, "destroy")
    <2>1. told.win = "gone" => r.win = "gone"
      BY DEF XUnmapWindow, Client
    <2>2. r.win = "gone" => told = r
      BY XUnmapWindowProperties
    <2> QED
      BY <2>1, <2>2
  <1>5. /\ f \in Client /\ f.win = told.win /\ f.notices = told.notices
        /\ ~f.mapped /\ f.state = "UNMAPPED" /\ f.ul = "none"
    BY <1>3, FreshProperties
  <1>6. d \in Workspaces \cup {NoWorkspace, AllWorkspaces}
    <2> HIDE DEF f, ws
    <2> QED
      BY <1>2, <1>5 DEF Client
  <1>7. /\ new \in Client /\ new.managed /\ new.workspace = ws /\ new.place = ws
        /\ new.win = told.win /\ new.notices = told.notices
        /\ ~new.mapped /\ new.state = "UNMAPPED" /\ new.ul = "none"
    <2> HIDE DEF known, ws, told, f, d
    <2> QED
      BY <1>2, <1>5, <1>6 DEF Client
  <1>8. viewed => told.win = "mapped"
    OBVIOUS
  <1>9. ~viewed => told.win # "mapped"
    BY <1>3
  <1> HIDE DEF told, new, n, ws, viewed
  <1>10. CASE viewed
    <2>1. /\ shown \in Client /\ shown.managed /\ shown.workspace = ws
          /\ shown.place = ws /\ shown.win = told.win /\ shown.notices = told.notices
          /\ shown.mapped /\ shown.state = "MAPPED" /\ shown.ul = "none"
      BY <1>7 DEF Client, States
    <2> HIDE DEF shown
    <2>2. History(shown) /\ Lag(shown) /\ Flags(shown)
      BY <1>3, <1>8, <1>10, <2>1 DEF History, Lag, Flags
    <2>3. ws = cur
      BY <1>10 DEF viewed
    <2> QED
      BY <1>1, <1>2, <1>10, <2>1, <2>2, <2>3 DEF Core, IsInPlace
  <1>11. CASE ~viewed
    <2>1. /\ hidden \in Client /\ hidden.managed /\ hidden.workspace = ws
          /\ hidden.place = ws /\ hidden.win = told.win /\ hidden.notices = told.notices
          /\ ~hidden.mapped /\ hidden.state = "UNMAPPED" /\ hidden.ul = "can"
      BY <1>2, <1>7 DEF Client
    <2> HIDE DEF hidden
    <2>2. History(hidden)
      BY <1>3, <2>1 DEF History
    <2>3. Lag(hidden) /\ Flags(hidden)
      BY <1>4, <1>9, <1>11, <2>1 DEF Lag, Flags, Has
    <2> QED
      BY <1>1, <1>2, <1>11, <2>1, <2>2, <2>3 DEF Core, IsInPlace
  <1> QED
    BY <1>10, <1>11

(* Reading a notice changes nothing but the queue, so a managed client     *)
(* keeps what its other notices still promise.                             *)
LEMMA MapRequestGood ==
  ASSUME NEW r, NEW cur \in Workspaces, NEW dock \in BOOLEAN, Good(r, cur, dock),
         r.notices # <<>>, Head(r.notices) = "request"
  PROVE  Good(HandleMapRequest(Read(r), cur), cur, dock)
  <1>0. r \in Client /\ History(r)
    BY DEF Good, Inductive, IsInPlace
  <1> SUFFICES ASSUME NEW q, q = Read(r)
               PROVE  Good(HandleMapRequest(q, cur), cur, dock)
    OBVIOUS
  <1>1. /\ q \in Client /\ q.win = r.win /\ History(q)
        /\ q = [r EXCEPT !.notices = Tail(r.notices)]
        /\ \A x : Has(r, x) /\ x # "request" => Has(q, x)
        /\ q.win = "gone" => Has(q, "destroy")
    BY <1>0, ReadProperties
  <1>2. /\ q.managed = r.managed /\ q.workspace = r.workspace /\ q.place = r.place /\ q.state = r.state
        /\ q.mapped = r.mapped /\ q.ul = r.ul
    BY <1>0, <1>1 DEF Client
  <1>3. r.managed => Core(q)
    BY <1>1, <1>2 DEF Good, Inductive, Core, Lag, Flags, IsInPlace
  <1>4. Good(q, cur, dock)
    BY <1>1, <1>2, <1>3 DEF Good, Inductive, Core, Away, IsInPlace
  <1>5. CASE q.managed /\ q.place # cur
    BY <1>4, <1>5 DEF HandleMapRequest
  <1>6. CASE q.managed /\ q.place = cur
    <2>1. HandleMapRequest(q, cur) = MapClient(q)
      BY <1>6 DEF HandleMapRequest
    <2> QED
      BY <1>2, <1>3, <1>6, <2>1, MapClientCore DEF Good, Inductive, Core, Away, IsInPlace
  <1>7. CASE ~q.managed
    <2> DEFINE n == StartManage(q, cur)
    <2>1. HandleMapRequest(q, cur) = MapClient(n)
      BY <1>7 DEF HandleMapRequest
    <2>2. Core(n) /\ (n.workspace # cur => n.state # "MAPPED")
      BY <1>1, <1>7, StartManageCore
    <2> HIDE DEF n
    <2> QED
      BY <2>1, <2>2, MapClientCore DEF Good, Inductive, Core, Away, IsInPlace
  <1> QED
    BY <1>5, <1>6, <1>7

LEMMA UnmapNotifyGood ==
  ASSUME NEW r, NEW cur \in Workspaces, NEW dock \in BOOLEAN, Good(r, cur, dock),
         r.notices # <<>>, Head(r.notices) \in {"unmap", "synthetic"}
  PROVE  Good(HandleUnmapNotify(Read(r)), cur, dock)
  <1>0. r \in Client /\ History(r)
    BY DEF Good, Inductive, IsInPlace
  <1> SUFFICES ASSUME NEW q, q = Read(r)
               PROVE  Good(HandleUnmapNotify(q), cur, dock)
    OBVIOUS
  <1>1. /\ q \in Client /\ q.win = r.win /\ History(q)
        /\ q = [r EXCEPT !.notices = Tail(r.notices)]
        /\ \A x : Has(r, x) /\ x # Head(r.notices) => Has(q, x)
        /\ r.win = "mapped" => Has(q, "map")
    BY <1>0, ReadProperties
  <1>2. /\ q.managed = r.managed /\ q.workspace = r.workspace /\ q.place = r.place
    BY <1>0, <1>1 DEF Client
  <1>i. q.managed => IsInPlace(q)
    BY <1>2 DEF Good, Inductive, IsInPlace
  <1>3. q.managed => q.workspace \in Workspaces
    BY <1>2 DEF Good, Inductive, IsInPlace
  <1>4. q.managed /\ q.win = "gone" => Has(q, "destroy")
    BY <1>1, <1>2 DEF Good, Inductive, Lag, IsInPlace
  <1>5. q.win = "mapped" => Has(q, "map")
    BY <1>1
  <1>6. CASE ~q.managed
    BY <1>1, <1>6 DEF HandleUnmapNotify, Good, Inductive, IsInPlace
  <1>7. CASE q.managed /\ q.pending_unmap = 0
    <2>1. HandleUnmapNotify(q) = Fresh(q)
      BY <1>7 DEF HandleUnmapNotify
    <2> QED
      BY <1>1, <2>1, FreshGood
  <1>8. CASE q.managed /\ q.pending_unmap # 0
    <2> DEFINE kept == [q EXCEPT !.state = "UNMAPPED", !.mapped = FALSE,
                                 !.pending_unmap = @ - 1,
                                 !.ul = IntoUnmappedList(q)]
               h == MapClient(kept)
    <2>0. PICK p \in Nat : p = q.pending_unmap - 1
      <3>1. q.pending_unmap \in Nat
        BY <1>1 DEF Client
      <3> QED
        BY <1>8, <3>1
    <2>1. /\ kept \in Client /\ kept.managed /\ kept.win = q.win
          /\ kept.notices = q.notices /\ kept.workspace = q.workspace /\ kept.place = q.place
          /\ kept.mapped = FALSE /\ kept.state = "UNMAPPED" /\ kept.ul # "none"
      <3>1. kept = [q EXCEPT !.state = "UNMAPPED", !.mapped = FALSE,
                             !.pending_unmap = p,
                             !.ul = IF q.future_stay THEN "stay" ELSE "can"]
        BY <1>i, <1>8, <2>0 DEF IntoUnmappedList
      <3> QED
        BY ZenonT(60), <1>1, <1>8, <3>1 DEF Client, States
    <2>2. Core(kept)
      <3>1. (\A x : Has(q, x) => Has(kept, x)) /\ IsInPlace(kept)
        BY <1>i, <1>8, <2>1 DEF Has, IsInPlace
      <3> HIDE DEF kept
      <3>2. History(kept)
        BY <1>1, <2>1 DEF History
      <3>3. Lag(kept) /\ Flags(kept)
        BY <1>4, <1>5, <1>8, <2>1, <3>1 DEF Lag, Flags
      <3> QED
        BY <1>3, <1>8, <2>1, <3>1, <3>2, <3>3 DEF Core
    <2>3. HandleUnmapNotify(q) = IF q.map_after THEN [h EXCEPT !.map_after = FALSE]
                                                ELSE kept
      <3>1. kept.map_after = q.map_after
        BY <1>1 DEF Client
      <3> QED
        BY <1>8 DEF HandleUnmapNotify
    <2>4. CASE ~q.map_after
      <3> HIDE DEF kept
      <3> QED
        BY <2>1, <2>2, <2>3, <2>4 DEF Good, Inductive, Core, Away, IsInPlace
    <2>5. CASE q.map_after
      <3> HIDE DEF kept
      <3>1. Core(h) /\ h.state # "MAPPED"
        BY <2>1, <2>2, MapClientCore
      <3> HIDE DEF h
      <3> DEFINE e == [h EXCEPT !.map_after = FALSE]
      <3>2. /\ e \in Client /\ e.managed /\ e.win = h.win /\ e.notices = h.notices
            /\ e.workspace = h.workspace /\ e.place = h.place /\ e.state = h.state
            /\ e.mapped = h.mapped /\ e.ul = h.ul
        BY <3>1 DEF Core, Client, IsInPlace
      <3> HIDE DEF e
      <3>3. Good(e, cur, dock)
        BY <3>1, <3>2 DEF Good, Inductive, Core, History, Lag, Flags, Away, Has, IsInPlace
      <3> QED
        BY <2>3, <2>5, <3>3 DEF e
    <2> QED
      BY <2>4, <2>5
  <1> QED
    BY <1>6, <1>7, <1>8

LEMMA MapNotifyGood ==
  ASSUME NEW r, NEW cur \in Workspaces, NEW dock \in BOOLEAN, Good(r, cur, dock),
         r.notices # <<>>, Head(r.notices) = "map",
         NEW flag \in BOOLEAN, flag => dock
  PROVE  Good(HandleMapNotify(Read(r), cur, flag), cur, dock)
  <1>0. r \in Client /\ History(r)
    BY DEF Good, Inductive, IsInPlace
  <1> SUFFICES ASSUME NEW q, q = Read(r)
               PROVE  Good(HandleMapNotify(q, cur, flag), cur, dock)
    OBVIOUS
  <1>1. /\ q \in Client /\ q.win = r.win /\ History(q)
        /\ q = [r EXCEPT !.notices = Tail(r.notices)]
        /\ \A x : Has(r, x) /\ x # "map" => Has(q, x)
        /\ r.win # "mapped" => Has(q, "unmap")
    BY <1>0, ReadProperties
  <1>2. q.managed = r.managed /\ q.workspace = r.workspace /\ q.place = r.place
    BY <1>0, <1>1 DEF Client
  <1>i. q.managed => IsInPlace(q)
    BY <1>2 DEF Good, Inductive, IsInPlace
  <1>3. CASE ~q.managed
    BY <1>1, <1>3 DEF HandleMapNotify, Good, Inductive, IsInPlace
  <1>4. CASE q.managed
    <2> DEFINE shown == [q EXCEPT !.mapped = TRUE, !.state = "MAPPED",
                                  !.ul = OutOfUnmappedList(q), !.from_switch = FALSE]
               away  == [shown EXCEPT !.unmap_after = FALSE, !.from_switch = TRUE]
    <2>1. \A a \in {shown, away} :
            /\ a \in Client /\ a.managed /\ a.win = q.win /\ a.notices = q.notices
            /\ a.workspace = q.workspace /\ a.place = q.place /\ a.mapped /\ a.state = "MAPPED"
            /\ a.ul = "none"
      <3>1. /\ shown \in Client /\ shown.managed /\ shown.win = q.win
            /\ shown.notices = q.notices /\ shown.workspace = q.workspace /\ shown.place = q.place
            /\ shown.mapped /\ shown.state = "MAPPED" /\ shown.ul = "none"
        BY <1>1, <1>4, <1>i DEF Client, States, OutOfUnmappedList
      <3> HIDE DEF shown
      <3>2. /\ away \in Client /\ away.managed /\ away.win = q.win
            /\ away.notices = q.notices /\ away.workspace = q.workspace /\ away.place = q.place
            /\ away.mapped /\ away.state = "MAPPED" /\ away.ul = "none"
        BY <3>1 DEF Client
      <3> QED
        BY <3>1, <3>2
    <2>2. HandleMapNotify(q, cur, flag) =
            IF flag /\ q.ul # "none" THEN shown
            ELSE IF q.workspace # cur \/ q.unmap_after THEN UnmapClient(away)
            ELSE shown
      <3>1. shown.workspace = q.workspace /\ shown.place = q.place /\ shown.unmap_after = q.unmap_after
        BY <1>1 DEF Client
      <3> QED
        BY <1>4 DEF HandleMapNotify
    <2>3. Core(shown) /\ Core(away)
      <3> SUFFICES ASSUME NEW a \in {shown, away} PROVE Core(a)
        OBVIOUS
      <3>1. /\ a \in Client /\ a.managed /\ a.win = q.win /\ a.notices = q.notices
            /\ a.workspace = q.workspace /\ a.place = q.place /\ a.mapped /\ a.state = "MAPPED"
            /\ a.ul = "none"
        BY <2>1
      <3>2. \A x : Has(q, x) => Has(a, x)
        BY <3>1 DEF Has
      <3>3. q.win = "gone" => Has(q, "destroy")
        BY <1>1, <1>2, <1>4 DEF Good, Inductive, Lag, IsInPlace
      <3>4. q.workspace \in Workspaces /\ IsInPlace(a)
        BY <1>2, <1>4, <1>i, <3>1 DEF Good, Inductive, IsInPlace
      <3> HIDE DEF shown, away
      <3>5. History(a)
        BY <1>1, <3>1 DEF History
      <3>6. Lag(a) /\ Flags(a)
        BY <1>1, <3>1, <3>2, <3>3 DEF Lag, Flags
      <3> QED
        BY <3>1, <3>4, <3>5, <3>6 DEF Core
    <2>4. shown.workspace = q.workspace /\ shown.place = q.place
      BY <2>1
    <2> HIDE DEF shown, away
    <2>5. CASE HandleMapNotify(q, cur, flag) = UnmapClient(away)
      BY <2>3, <2>5, UnmapClientCore DEF Good, Inductive, Core, Away, IsInPlace
    <2>6. CASE HandleMapNotify(q, cur, flag) = shown /\ (dock \/ q.workspace = cur)
      BY <2>3, <2>4, <2>6 DEF Good, Inductive, Core, Away, IsInPlace
    <2> QED
      BY <2>2, <2>5, <2>6
  <1> QED
    BY <1>3, <1>4

LEMMA DestroyNotifyGood ==
  ASSUME NEW r, NEW cur, NEW dock, Good(r, cur, dock), r.notices # <<>>
  PROVE  Good(HandleDestroyNotify(Read(r)), cur, dock)
  <1>0. r \in Client /\ History(r)
    BY DEF Good, Inductive, IsInPlace
  <1>1. Read(r) \in Client /\ History(Read(r))
    BY <1>0, ReadProperties
  <1> QED
    BY <1>1, FreshGood DEF HandleDestroyNotify, Good, Inductive, IsInPlace

-----------------------------------------------------------------------------
(* What clients do. *)

LEMMA ClientOpGood ==
  ASSUME NEW r, NEW cur, NEW dock, Good(r, cur, dock), r.win # "gone",
         NEW e \in {"synthetic", "destroy"},
         NEW w \in {"unmapped", "gone"}, e = "synthetic" <=> w = "unmapped"
  PROVE  Good([XUnmapWindow(r) EXCEPT !.notices = Append(@, e), !.win = w], cur, dock)
  <1> DEFINE x == XUnmapWindow(r)
             n == Append(x.notices, e)
             q == [x EXCEPT !.notices = n, !.win = w]
  <1>0. r \in Client /\ History(r)
    BY DEF Good, Inductive, IsInPlace
  <1>1. /\ x \in Client /\ History(x) /\ x.win # "mapped"
        /\ r.win = "mapped" => Has(x, "unmap")
        /\ \A k : Has(r, k) => Has(x, k)
        /\ x = [r EXCEPT !.win = x.win, !.notices = x.notices]
    BY <1>0, XUnmapWindowProperties
  <1>2. /\ x.managed = r.managed /\ x.workspace = r.workspace /\ x.place = r.place /\ x.mapped = r.mapped
        /\ x.state = r.state /\ x.ul = r.ul
    <2> HIDE DEF x
    <2> QED
      BY <1>0, <1>1 DEF Client
  <1> HIDE DEF x
  <1>3. x.notices \in Seq(Notices) /\ e \in Notices
    BY <1>1 DEF Client, Notices
  <1>4. n \in Seq(Notices)
    BY <1>3, AppendNotice
  <1>5. FollowedBy(n, {"map"}, "unmap")
    BY <1>1, <1>3, AppendNotice DEF History
  <1>6. /\ q \in Client /\ q.notices = n /\ q.win = w
        /\ q.managed = r.managed /\ q.workspace = r.workspace /\ q.place = r.place /\ q.mapped = r.mapped
        /\ q.state = r.state /\ q.ul = r.ul
    BY <1>1, <1>2, <1>4 DEF Client
  <1>7. \A k : Has(x, k) => Has(q, k)
    BY <1>3, <1>6, AppendNotice DEF Has
  <1>8. Has(q, e)
    BY <1>3, <1>6, AppendNotice DEF Has
  <1> HIDE DEF q
  <1>a. w = "gone" => FollowedBy(n, Notices \ {"destroy"}, "destroy")
    <2>1. e = "destroy" => FollowedBy(n, Notices \ {"destroy"}, "destroy")
      BY <1>3, AppendNotice
    <2> QED
      BY <2>1
  <1> HIDE DEF n
  <1>9. History(q)
    BY <1>5, <1>6, <1>a DEF History
  <1>10. q.managed => Lag(q) /\ Flags(q)
    BY <1>0, <1>1, <1>6, <1>7, <1>8 DEF Good, Inductive, Lag, Flags, Client, IsInPlace
  <1>11. Good(q, cur, dock)
    BY <1>6, <1>9, <1>10 DEF Good, Inductive, Away, IsInPlace
  <1> QED
    BY <1>11 DEF q, x, n

-----------------------------------------------------------------------------
(* Switching workspaces. *)

LEMMA GoodIsCore ==
  ASSUME NEW r, NEW cur, NEW dock, Good(r, cur, dock), r.managed
  PROVE  Core(r)
  BY DEF Good, Inductive, Core, IsInPlace

(* Only the four flags of the workspace switch differ between r and a.     *)
SameBut(a, r) ==
  /\ a \in Client /\ a.managed = r.managed /\ a.win = r.win
  /\ a.notices = r.notices /\ a.workspace = r.workspace /\ a.place = r.place
  /\ a.mapped = r.mapped /\ a.state = r.state /\ a.ul = r.ul

LEMMA SameButCore ==
  ASSUME NEW a, NEW r, Core(r), SameBut(a, r)
  PROVE  Core(a)
  BY DEF SameBut, Core, History, Lag, Flags, Has, IsInPlace

(* What a switch does to the flags of a client changes nothing else.       *)
LEMMA SwitchFlags ==
  ASSUME NEW r \in Client
  PROVE  /\ SameBut(SetUnmappedFromSwitch(r), r)
         /\ SameBut(CancelCancelPendingUnmaps(r), r)
         /\ SameBut(CancelPendingMaps(r), r)
         /\ SameBut(CancelCancelPendingMaps(r), r)
         /\ SameBut(CancelPendingUnmaps(r), r)
  <1>0. /\ SameBut(r, r)
        /\ SameBut([r EXCEPT !.from_switch = TRUE], r)
        /\ SameBut([r EXCEPT !.map_after = FALSE], r)
        /\ SameBut([r EXCEPT !.map_after = TRUE], r)
        /\ SameBut([r EXCEPT !.unmap_after = FALSE], r)
        /\ SameBut([r EXCEPT !.unmap_after = TRUE], r)
    BY DEF SameBut, Client
  <1>1. SameBut(SetUnmappedFromSwitch(r), r)
    BY <1>0, Zenon DEF SetUnmappedFromSwitch
  <1>2. SameBut(CancelCancelPendingUnmaps(r), r)
    BY <1>0, Zenon DEF CancelCancelPendingUnmaps
  <1>3. SameBut(CancelPendingMaps(r), r)
    BY <1>0, Zenon DEF CancelPendingMaps
  <1>4. SameBut(CancelCancelPendingMaps(r), r)
    BY <1>0, Zenon DEF CancelCancelPendingMaps
  <1>5. SameBut(CancelPendingUnmaps(r), r)
    BY <1>0, Zenon DEF CancelPendingUnmaps
  <1> QED
    BY <1>1, <1>2, <1>3, <1>4, <1>5

LEMMA LeaveProperties ==
  ASSUME NEW r, Core(r)
  PROVE  Core(Leave(r)) /\ Leave(r).state # "MAPPED"
  <1> DEFINE one   == SetUnmappedFromSwitch(r)
             two   == CancelCancelPendingUnmaps(one)
             three == CancelPendingMaps(two)
  <1>1. r \in Client
    BY DEF Core, IsInPlace
  <1>2. SameBut(one, r)
    BY <1>1, SwitchFlags
  <1>3. SameBut(two, one)
    BY <1>2, SwitchFlags DEF SameBut
  <1>4. SameBut(three, two)
    BY <1>3, SwitchFlags DEF SameBut
  <1>5. SameBut(three, r) /\ Core(three)
    <2> HIDE DEF one, two, three
    <2>1. SameBut(three, r)
      BY <1>2, <1>3, <1>4 DEF SameBut
    <2> QED
      BY <2>1, SameButCore
  <1>6. Leave(r) = IF r.ul = "none" THEN UnmapClient(three) ELSE three
    BY DEF Leave, InUnmappedList
  <1> HIDE DEF three
  <1>7. CASE r.ul = "none"
    BY <1>5, <1>6, <1>7, UnmapClientCore
  <1>8. CASE r.ul # "none"
    <2>1. three.state # "MAPPED"
      BY <1>5, <1>8 DEF SameBut, Core, Flags, IsInPlace
    <2> QED
      BY <1>5, <1>6, <1>8, <2>1
  <1> QED
    BY <1>7, <1>8

LEMMA EnterProperties ==
  ASSUME NEW r, Core(r)
  PROVE  Core(Enter(r)) /\ Enter(r).workspace = r.workspace
  <1> DEFINE one == CancelCancelPendingMaps(r)
             two == CancelPendingUnmaps(one)
  <1>1. r \in Client
    BY DEF Core, IsInPlace
  <1>2. SameBut(one, r)
    BY <1>1, SwitchFlags
  <1>3. SameBut(two, one)
    BY <1>2, SwitchFlags DEF SameBut
  <1>4. SameBut(two, r) /\ Core(two)
    <2> HIDE DEF one, two
    <2>1. SameBut(two, r)
      BY <1>2, <1>3 DEF SameBut
    <2> QED
      BY <2>1, SameButCore
  <1>5. Enter(r) = IF r.ul # "none" THEN MapClient(two) ELSE two
    BY DEF Enter, InUnmappedList
  <1> HIDE DEF two
  <1> QED
    BY <1>4, <1>5, MapClientCore DEF SameBut

(* A dock that moves along with the switch.                                *)
LEMMA MovedCore ==
  ASSUME NEW r, Core(r), NEW ws \in Workspaces
  PROVE  LET q == [r EXCEPT !.workspace = ws, !.place = ws]
         IN  Core(q) /\ q.workspace = ws
  <1> DEFINE q == [r EXCEPT !.workspace = ws, !.place = ws]
  <1>1. r \in Client
    BY DEF Core, IsInPlace
  <1>2. /\ q \in Client /\ q.managed = r.managed /\ q.win = r.win
        /\ q.notices = r.notices /\ q.workspace = ws /\ q.place = ws
        /\ q.mapped = r.mapped /\ q.state = r.state /\ q.ul = r.ul
    BY <1>1 DEF Client
  <1> HIDE DEF q
  <1>3. Core(q)
    BY <1>1, <1>2 DEF Core, History, Lag, Flags, Has, IsInPlace
  <1> QED
    BY <1>2, <1>3 DEF q

(* The key actions that change the flags of a managed client and then ask  *)
(* for it to be mapped or unmapped.                                        *)
LEMMA UnmapRequestGood ==
  ASSUME NEW r, NEW cur, NEW dock, Good(r, cur, dock), r.managed,
         NEW stay \in BOOLEAN, NEW ws \in Workspaces
  PROVE  /\ Good(UnmapClient([r EXCEPT !.future_stay = stay]), cur, dock)
         /\ Good(UnmapClient([r EXCEPT !.workspace = ws, !.desktop = ws, !.place = ws]), cur, dock)
  <1> DEFINE a == [r EXCEPT !.future_stay = stay]
             b == [r EXCEPT !.workspace = ws, !.desktop = ws, !.place = ws]
  <1>1. Core(r) /\ r \in Client
    BY GoodIsCore DEF Core, IsInPlace
  <1>2. SameBut(a, r)
    BY <1>1 DEF SameBut, Client
  <1>3. Core(a)
    BY <1>1, <1>2, SameButCore
  <1>4. /\ b \in Client /\ b.managed = r.managed /\ b.win = r.win
        /\ b.notices = r.notices /\ b.workspace = ws /\ b.place = ws
        /\ b.mapped = r.mapped /\ b.state = r.state /\ b.ul = r.ul
    BY <1>1 DEF Client
  <1> HIDE DEF a, b
  <1>5. Core(b)
    BY <1>1, <1>4 DEF Core, History, Lag, Flags, Has, IsInPlace
  <1>6. Good(UnmapClient(a), cur, dock)
    BY <1>3, UnmapClientCore DEF Good, Inductive, Core, Away, IsInPlace
  <1>7. Good(UnmapClient(b), cur, dock)
    BY <1>5, UnmapClientCore DEF Good, Inductive, Core, Away, IsInPlace
  <1> QED
    BY <1>6, <1>7 DEF a, b

LEMMA MapRequestedGood ==
  ASSUME NEW r, NEW cur, NEW dock, Good(r, cur, dock), r.managed, r.ul # "none"
  PROVE  Good(MapClient([r EXCEPT !.ul = "can", !.future_stay = FALSE]), cur, dock)
  <1> DEFINE a == [r EXCEPT !.ul = "can", !.future_stay = FALSE]
  <1>1. Core(r) /\ r \in Client
    BY GoodIsCore DEF Core, IsInPlace
  <1>2. /\ a \in Client /\ a.managed = r.managed /\ a.win = r.win
        /\ a.notices = r.notices /\ a.workspace = r.workspace /\ a.place = r.place
        /\ a.mapped = r.mapped /\ a.state = r.state /\ a.ul = "can"
    BY <1>1 DEF Client
  <1> HIDE DEF a
  <1>3. Core(a)
    BY <1>1, <1>2 DEF Core, History, Lag, Flags, Has, IsInPlace
  <1>4. Good(MapClient(a), cur, dock)
    BY <1>2, <1>3, MapClientCore DEF Good, Inductive, Core, Away, IsInPlace
  <1> QED
    BY <1>4 DEF a

LEMMA AdoptGood ==
  ASSUME NEW r \in Client, NEW cur \in Workspaces, NEW dock
  PROVE  Good(Adopt(r, cur), cur, dock)
  <1> DEFINE quiet == [r EXCEPT !.notices = <<>>]
             old   == Fresh(quiet)
             new   == StartManage(old, cur)
  <1>1. quiet \in Client /\ quiet.notices = <<>> /\ quiet.win = r.win
    <2>0. <<>> \in Seq(Notices)
      OBVIOUS
    <2>1. PICK t \in Seq(Notices) : t = <<>>
      BY <2>0, Zenon
    <2>2. quiet = [r EXCEPT !.notices = t]
      BY <2>1
    <2>3. quiet \in Client /\ quiet.notices = t /\ quiet.win = r.win
      BY <2>2 DEF Client
    <2> QED
      BY <2>1, <2>3
  <1>2. History(quiet)
    BY <1>1 DEF History, FollowedBy
  <1>3. Good(old, cur, dock) /\ old \in Client /\ History(old) /\ old.win = r.win
    BY <1>1, <1>2, FreshProperties, FreshGood
  <1>4. Adopt(r, cur) =
          IF r.win = "gone" \/ (r.win = "unmapped" /\ r.desktop \notin Workspaces)
            THEN old
            ELSE IF new.workspace = cur /\ new.ul # "none" THEN MapClient(new)
                                                           ELSE new
    BY DEF Adopt
  <1> HIDE DEF old, quiet
  <1>5. CASE r.win = "gone"
    BY <1>3, <1>4, <1>5
  <1>6. CASE r.win # "gone"
    <2>1. Core(new) /\ (new.workspace # cur => new.state # "MAPPED")
      BY <1>3, <1>6, StartManageCore
    <2> HIDE DEF new
    <2>2. Good(new, cur, dock) /\ Good(MapClient(new), cur, dock)
      BY <2>1, MapClientCore DEF Good, Inductive, Core, Away, IsInPlace
    <2> QED
      BY <1>3, <1>4, <2>2
  <1> QED
    BY <1>5, <1>6

-----------------------------------------------------------------------------
(* The inductive invariant holds initially and is preserved by every step. *)

LEMMA InitIInv == Init => IInv
  <1> SUFFICES ASSUME Init PROVE IInv
    OBVIOUS
  <1>1. ASSUME NEW ws \in Workspaces \cup {NoWorkspace, AllWorkspaces}, NEW dock
        PROVE  Good(NewWindow(ws), current, dock)
    <2>0. <<>> \in Seq(Notices)
      OBVIOUS
    <2>1. PICK t \in Seq(Notices) : t = <<>>
      BY <2>0, Zenon
    <2>2. NewWindow(ws) \in Client
      BY <2>1 DEF NewWindow, Client, States
    <2>3. History(NewWindow(ws))
      BY DEF NewWindow, History, FollowedBy
    <2> QED
      BY <2>2, <2>3 DEF Good, Inductive, NewWindow, IsInPlace
  <1>2. \A c \in Clients : Good(client[c], current, c \in Docks)
    BY <1>1 DEF Init
  <1>3. current \in Workspaces /\ client \in [Clients -> Client]
    BY <1>2 DEF Init, Good
  <1> QED
    BY <1>2, <1>3 DEF IInv, TypeOK, Good

LEMMA SetGood ==
  ASSUME IInv, NEW c \in Clients, NEW r, Set(c, r), Good(r, current, c \in Docks)
  PROVE  IInv'
  <1>1. current' = current /\ client' = [client EXCEPT ![c] = r]
    BY DEF Set
  <1>2. client' \in [Clients -> Client] /\ current' \in Workspaces
    BY <1>1 DEF IInv, TypeOK, Good
  <1>3. ASSUME NEW d \in Clients PROVE Inductive(client[d], current, d \in Docks)'
    BY <1>1, <1>3 DEF IInv, TypeOK, Good
  <1> QED
    BY <1>2, <1>3 DEF IInv, TypeOK

(* Steps that replace every record at once.                                *)
LEMMA AllGood ==
  ASSUME current' \in Workspaces, client' = [c \in Clients |-> client'[c]],
         \A c \in Clients : Good(client'[c], current', c \in Docks)
  PROVE  IInv'
  <1>1. client' \in [Clients -> Client]
    BY DEF Good
  <1>2. ASSUME NEW d \in Clients PROVE Inductive(client[d], current, d \in Docks)'
    BY <1>2 DEF Good
  <1> QED
    BY <1>1, <1>2 DEF IInv, TypeOK

(* With a third workspace, a client that is moved twice before the focus    *)
(* has followed ends up in the lists of a workspace it is not on. It takes *)
(* keys that overtake the FocusIn, and the binding that moves.             *)
TwoWorkspaces == \A u, v, w \in Workspaces : u = v \/ v = w \/ u = w

FocusFollows == ~Hurried \/ TwoWorkspaces \/ "move" \notin Bindings

LEMMA NextIInv ==
  ASSUME FocusFollows
  PROVE  IInv /\ [Next]_vars => IInv'
  <1> SUFFICES ASSUME IInv, [Next]_vars PROVE IInv'
    OBVIOUS
  <1>0. /\ current \in Workspaces
        /\ \A c \in Clients : /\ Good(client[c], current, c \in Docks)
                               /\ client[c] \in Client
                               /\ (c \in Docks) \in BOOLEAN
    BY DEF IInv, TypeOK, Good
  <1>1. ASSUME NEW c \in Clients, ClientMap(c) PROVE IInv'
    <2> DEFINE n == Append(client[c].notices, "request")
               q == [client[c] EXCEPT !.notices = n]
    <2>1. client[c].notices \in Seq(Notices) /\ "request" \in Notices
      BY <1>0 DEF Client, Notices
    <2>2. /\ n \in Seq(Notices)
          /\ History(client[c]) => FollowedBy(n, {"map"}, "unmap")
      BY <1>1, <2>1, AppendNotice DEF History, ClientMap
    <2>4. /\ q \in Client /\ q.notices = n /\ q.win = "unmapped"
          /\ q.managed = client[c].managed /\ q.workspace = client[c].workspace
          /\ q.place = client[c].place
          /\ q.mapped = client[c].mapped /\ q.state = client[c].state
          /\ q.ul = client[c].ul
      BY <1>0, <1>1, <2>2 DEF Client, ClientMap
    <2>5. \A x : Has(client[c], x) => Has(q, x)
      BY <2>1, <2>4, AppendNotice DEF Has
    <2>6. client[c].win = "unmapped"
      BY <1>1 DEF ClientMap
    <2>7. Set(c, q)
      BY <1>1 DEF ClientMap
    <2> HIDE DEF q
    <2>8. Good(q, current, c \in Docks)
      BY <1>0, <2>2, <2>4, <2>5, <2>6
         DEF Good, Inductive, History, Lag, Flags, Away, IsInPlace
    <2> QED
      BY <2>7, <2>8, SetGood
  <1>2. ASSUME NEW c \in Clients, ClientWithdraw(c) PROVE IInv'
    <2> DEFINE x == XUnmapWindow(client[c])
               q == [x EXCEPT !.notices = Append(@, "synthetic")]
               z == [x EXCEPT !.notices = Append(@, "synthetic"), !.win = "unmapped"]
    <2>1. client[c].win # "gone" /\ Set(c, q)
      BY <1>2 DEF ClientWithdraw, ClientMayAct
    <2>2. x \in Client /\ x.win = "unmapped"
      <3>1. x \in Client
        BY <1>0, XUnmapWindowProperties DEF Good, Inductive, IsInPlace
      <3>2. x.win = "unmapped"
        BY <1>0, <2>1 DEF XUnmapWindow, Client
      <3> QED
        BY <3>1, <3>2
    <2>3. q = z
      <3> HIDE DEF x
      <3> QED
        BY <2>2 DEF Client
    <2>4. Good(z, current, c \in Docks)
      BY <1>0, <2>1, ClientOpGood
    <2> QED
      BY <2>1, <2>3, <2>4, SetGood
  <1>3. ASSUME NEW c \in Clients, ClientDestroy(c) PROVE IInv'
    <2> DEFINE q == [XUnmapWindow(client[c]) EXCEPT !.notices = Append(@, "destroy"),
                                                    !.win = "gone"]
    <2>1. client[c].win # "gone" /\ Set(c, q)
      BY <1>3 DEF ClientDestroy, ClientMayAct
    <2>2. Good(q, current, c \in Docks)
      BY <1>0, <2>1, ClientOpGood
    <2> QED
      BY <2>1, <2>2, SetGood
  <1>4. ASSUME NEW c \in Clients, Handle(c) PROVE IInv'
    <2>1. CASE MapRequest(c)
      BY <1>0, <2>1, MapRequestGood, SetGood DEF MapRequest, Reads
    <2>2. CASE UnmapNotify(c)
      BY <1>0, <2>2, UnmapNotifyGood, SetGood DEF UnmapNotify, Reads
    <2>3. CASE MapNotify(c)
      <3>1. IsDock(c) \in BOOLEAN /\ (IsDock(c) => c \in Docks)
        BY <1>0 DEF IsDock, Client
      <3>2. Good(HandleMapNotify(Read(client[c]), current, IsDock(c)),
                 current, c \in Docks)
        BY <1>0, <2>3, <3>1, MapNotifyGood DEF MapNotify, Reads
      <3> QED
        BY <2>3, <3>2, SetGood DEF MapNotify
    <2>4. CASE DestroyNotify(c)
      BY <1>0, <2>4, DestroyNotifyGood, SetGood DEF DestroyNotify, Reads
    <2> QED
      BY <1>4, <2>1, <2>2, <2>3, <2>4 DEF Handle
  <1>5. ASSUME NEW w \in Workspaces, SwitchWorkspace(w) PROVE IInv'
    <2>1. /\ current' = w /\ client' = [c \in Clients |-> client'[c]]
          /\ \A c \in Clients : client'[c] =
               IF OnCurrent(c) /\ MovesAlong(c)
                 THEN Enter([client[c] EXCEPT !.workspace = w, !.place = w])
               ELSE IF OnCurrent(c) THEN Leave(client[c])
               ELSE IF client[c].managed /\ client[c].place = w THEN Enter(client[c])
               ELSE client[c]
      BY <1>5 DEF SwitchWorkspace
    <2>2. ASSUME NEW c \in Clients PROVE Good(client'[c], w, c \in Docks)
      <3>0. CASE OnCurrent(c) /\ MovesAlong(c)
        <4> DEFINE q == [client[c] EXCEPT !.workspace = w, !.place = w]
        <4>1. Core(client[c])
          BY <1>0, <3>0, GoodIsCore DEF OnCurrent
        <4>2. Core(q) /\ q.workspace = w
          BY <4>1, MovedCore
        <4> HIDE DEF q
        <4>3. Core(Enter(q)) /\ Enter(q).workspace = w
          BY <4>2, EnterProperties
        <4> QED
          BY <2>1, <3>0, <4>3 DEF q, Good, Inductive, Core, Away, IsInPlace
      <3>1. CASE OnCurrent(c) /\ ~MovesAlong(c)
        <4>1. Core(Leave(client[c])) /\ Leave(client[c]).state # "MAPPED"
          BY <1>0, <3>1, GoodIsCore, LeaveProperties DEF OnCurrent
        <4> QED
          BY <2>1, <3>1, <4>1 DEF Good, Inductive, Core, Away, IsInPlace
      <3>2. CASE ~OnCurrent(c) /\ client[c].managed /\ client[c].place = w
        <4>0. Core(client[c]) /\ client[c].workspace = w
          BY <1>0, <3>2, GoodIsCore DEF Core, IsInPlace
        <4>1. Core(Enter(client[c])) /\ Enter(client[c]).workspace = w
          BY <4>0, EnterProperties
        <4> QED
          BY <2>1, <3>2, <4>1 DEF Good, Inductive, Core, Away, IsInPlace
      <3>3. CASE /\ ~OnCurrent(c)
                 /\ ~(client[c].managed /\ client[c].place = w)
        BY <1>0, <2>1, <3>3 DEF Good, Inductive, Away, OnCurrent, IsInPlace
      <3> QED
        BY <3>0, <3>1, <3>2, <3>3
    <2> QED
      BY <2>1, <2>2, AllGood
  <1>6. ASSUME NEW c \in Clients, NEW w \in Workspaces, MoveToWorkspace(c, w)
        PROVE  IInv'
    <2> DEFINE p == IF client[c].place = current THEN w ELSE client[c].place
               q == [client[c] EXCEPT !.workspace = w, !.desktop = w, !.place = p]
    <2>1. /\ client[c].managed /\ w # current /\ Set(c, UnmapClient(q))
          /\ client[c].place = current \/ TwoWorkspaces
      BY <1>6 DEF FocusFollows, MoveToWorkspace, FocusMayBe
    <2>2. client[c].place \in Workspaces
      BY <1>0, <2>1 DEF Good, Inductive, IsInPlace
    <2>3. p = w
      BY <1>0, <2>1, <2>2 DEF TwoWorkspaces
    <2>4. q = [client[c] EXCEPT !.workspace = w, !.desktop = w, !.place = w]
      BY <2>3
    <2> HIDE DEF q
    <2>5. Good(UnmapClient(q), current, c \in Docks)
      BY <1>0, <2>1, <2>4, UnmapRequestGood
    <2> QED
      BY <2>1, <2>5, SetGood
  <1>7. ASSUME NEW c \in Clients, UnmapWindow(c) PROVE IInv'
    BY <1>0, <1>7, UnmapRequestGood, SetGood DEF UnmapWindow, FocusMayBe
  <1>8. ASSUME NEW c \in Clients, MapLatestUnmap(c) PROVE IInv'
    BY <1>0, <1>8, MapRequestedGood, SetGood DEF MapLatestUnmap, OnCurrent
  <1>9. ASSUME NEW T, UnmapAll(T) PROVE IInv'
    <2>1. /\ current' = current /\ client' = [c \in Clients |-> client'[c]]
          /\ \A c \in Clients : client'[c] =
               IF ~OnCurrent(c) \/ client[c].ul # "none" THEN client[c]
               ELSE UnmapClient([client[c] EXCEPT !.future_stay =
                                   client[c].future_stay \/ c \in T])
      BY <1>9 DEF UnmapAll
    <2>2. ASSUME NEW c \in Clients PROVE Good(client'[c], current, c \in Docks)
      <3>1. PICK stay \in BOOLEAN : stay = (client[c].future_stay \/ c \in T)
        BY Zenon
      <3>2. \/ client'[c] = client[c]
            \/ /\ client[c].managed
               /\ client'[c] = UnmapClient([client[c] EXCEPT !.future_stay = stay])
        BY <2>1, <3>1, Zenon DEF OnCurrent
      <3>3. ASSUME client[c].managed
            PROVE  Good(UnmapClient([client[c] EXCEPT !.future_stay = stay]),
                        current, c \in Docks)
        BY <1>0, <3>3, UnmapRequestGood, Zenon
      <3> QED
        BY <1>0, <3>2, <3>3, Zenon
    <2> QED
      BY <1>0, <2>1, <2>2, AllGood
  <1>10. CASE MapAll
    <2>1. /\ current' = current /\ client' = [c \in Clients |-> client'[c]]
          /\ \A c \in Clients : client'[c] =
               IF ~OnCurrent(c) \/ client[c].ul = "none" THEN client[c]
               ELSE MapClient([client[c] EXCEPT !.ul = "can", !.future_stay = FALSE])
      BY <1>10 DEF MapAll
    <2>2. ASSUME NEW c \in Clients PROVE Good(client'[c], current, c \in Docks)
      <3>1. ASSUME client[c].managed, client[c].ul # "none"
            PROVE  Good(MapClient([client[c] EXCEPT !.ul = "can", !.future_stay = FALSE]),
                        current, c \in Docks)
        BY <1>0, <3>1, MapRequestedGood, Zenon
      <3> QED
        BY <1>0, <2>1, <3>1, Zenon DEF OnCurrent
    <2> QED
      BY <1>0, <2>1, <2>2, AllGood
  <1>11. CASE Restart
    <2>1. /\ current' = current /\ client' = [c \in Clients |-> client'[c]]
          /\ \A c \in Clients : client'[c] = Adopt(client[c], current)
      BY <1>11 DEF Restart
    <2>2. ASSUME NEW c \in Clients PROVE Good(client'[c], current, c \in Docks)
      BY <1>0, <2>1, AdoptGood
    <2> QED
      BY <1>0, <2>1, <2>2, AllGood
  <1>12. CASE UNCHANGED vars
    BY <1>12 DEF vars, IInv, TypeOK, Inductive, History, Lag, Flags, Away, Has, FollowedBy, IsInPlace
  <1> QED
    BY <1>1, <1>2, <1>3, <1>4, <1>5, <1>6, <1>7, <1>8, <1>9, <1>10, <1>11, <1>12
       DEF Next

(* Every behaviour keeps the inductive invariant: the flags of a Client    *)
(* lag behind the server by exactly the notices still to be read.          *)
THEOREM InductiveInvariant ==
  ASSUME FocusFollows
  PROVE  Spec => []IInv
  <1>1. Init => IInv
    BY InitIInv
  <1>2. IInv /\ [Next]_vars => IInv'
    BY NextIInv
  <1> QED
    BY <1>1, <1>2, PTL DEF Spec

-----------------------------------------------------------------------------
(* The theorems about the protocol. *)

(* Type correctness of the protocol's state.                               *)
THEOREM TypeCorrect ==
  ASSUME FocusFollows
  PROVE  Spec => []TypeOK
  <1>1. IInv => TypeOK
    BY DEF IInv
  <1> QED
    BY <1>1, InductiveInvariant, PTL

(* The mapped flag, the transition state and the unmapped list always say  *)
(* the same of a managed client, whichever handlers wrote them last.       *)
THEOREM CopiesAlwaysAgree ==
  ASSUME FocusFollows
  PROVE  Spec => []CopiesAgree
  <1>1. IInv => CopiesAgree
    BY DEF IInv, Inductive, Flags, CopiesAgree, IsInPlace
  <1> QED
    BY <1>1, InductiveInvariant, PTL

(* No client is ever stuck: map_client and unmap_client enter a pending    *)
(* state only when the server owes a notice that ends it.                  *)
THEOREM NoticeAlwaysOnTheWay ==
  ASSUME FocusFollows
  PROVE  Spec => []NoticeOnTheWay
  <1>1. IInv => NoticeOnTheWay
    BY DEF IInv, Inductive, Lag, Flags, NoticeOnTheWay, IsInPlace
  <1> QED
    BY <1>1, InductiveInvariant, PTL

(* Whatever the user and the clients do, a settled window of a hidden      *)
(* workspace is not on the screen.                                         *)
THEOREM AwayIsHidden ==
  ASSUME FocusFollows
  PROVE  Spec => []HiddenWhenAway
  <1>1. ASSUME IInv PROVE HiddenWhenAway
    <2> SUFFICES ASSUME NEW c \in Clients \ Docks, Settled(c),
                        client[c].workspace # current, client[c].win = "mapped"
                 PROVE  FALSE
      BY DEF HiddenWhenAway
    <2>1. /\ client[c].managed /\ ~Has(client[c], "map")
      BY DEF Settled, Has
    <2>2. Lag(client[c]) /\ Flags(client[c]) /\ Away(client[c], current, FALSE)
      BY <1>1, <2>1 DEF IInv, Inductive, Away, IsInPlace
    <2> QED
      BY <2>1, <2>2 DEF Lag, Flags, Away
  <1> QED
    BY <1>1, InductiveInvariant, PTL

-----------------------------------------------------------------------------
(* What map_client and unmap_client leave alone, and what they do to the   *)
(* window.                                                                 *)

SameMarks(m, r) ==
  /\ m.managed = r.managed /\ m.known = r.known /\ m.workspace = r.workspace
  /\ m.place = r.place /\ m.future_stay = r.future_stay
  /\ m.from_switch = r.from_switch /\ m.map_after = r.map_after
  /\ m.unmap_after = r.unmap_after

SameFlags(m, r) == SameMarks(m, r) /\ m.mapped = r.mapped /\ m.ul = r.ul

SameWindow(m, r) == m.win = r.win /\ m.notices = r.notices

LEMMA MapClientIs ==
  ASSUME NEW r \in Client
  PROVE  LET m == MapClient(r) IN
         /\ m \in Client /\ SameFlags(m, r) /\ m.pending_unmap = r.pending_unmap
         /\ \/ /\ m = r
               /\ \/ IsClientMapped(r) \/ r.state \in {"MAP_PENDING", "UNMAP_PENDING"}
                  \/ r.ul = "stay" /\ IsInPlace(r)
            \/ /\ ~IsClientMapped(r)
               /\ r.state \notin {"MAP_PENDING", "UNMAP_PENDING"}
               /\ ~(r.ul = "stay" /\ IsInPlace(r))
               /\ m.state = "MAP_PENDING"
               /\ r.win = "unmapped" =>
                    m.win = "mapped" /\ m.notices = Append(r.notices, "map")
               /\ r.win # "unmapped" => SameWindow(m, r)
  <1> DEFINE q == [r EXCEPT !.state = "MAP_PENDING"]
             x == [q EXCEPT !.win = "mapped", !.notices = Append(r.notices, "map")]
  <1>0. Append(r.notices, "map") \in Seq(Notices)
    BY AppendNotice DEF Client, Notices
  <1>1. SameFlags(r, r)
    BY DEF SameFlags, SameMarks
  <1>2. /\ q \in Client /\ SameFlags(q, r) /\ q.pending_unmap = r.pending_unmap
        /\ q.state = "MAP_PENDING" /\ SameWindow(q, r)
    BY <1>0 DEF SameFlags, SameMarks, SameWindow, Client, States
  <1>3. /\ x \in Client /\ SameFlags(x, r) /\ x.pending_unmap = r.pending_unmap
        /\ x.state = "MAP_PENDING"
        /\ x.win = "mapped" /\ x.notices = Append(r.notices, "map")
    BY <1>0 DEF SameFlags, SameMarks, Client, States
  <1>4. XMapWindow(q) = IF r.win = "unmapped" THEN x ELSE q
    BY <1>2 DEF XMapWindow, SameWindow
  <1> HIDE DEF q, x
  <1>5. MapClient(r) = IF \/ IsClientMapped(r)
                          \/ r.state \in {"MAP_PENDING", "UNMAP_PENDING"}
                          \/ r.ul = "stay" /\ IsInPlace(r)
                         THEN r
                       ELSE IF r.win = "unmapped" THEN x ELSE q
    BY <1>4 DEF MapClient, q
  <1> QED
    BY <1>1, <1>2, <1>3, <1>5

LEMMA UnmapClientIs ==
  ASSUME NEW r \in Client
  PROVE  LET m == UnmapClient(r) IN
         /\ m \in Client /\ SameFlags(m, r)
         /\ \/ /\ m = r
               /\ ~IsClientMapped(r) \/ r.state \in {"MAP_PENDING", "UNMAP_PENDING"}
            \/ /\ r.mapped /\ r.state \notin {"MAP_PENDING", "UNMAP_PENDING"}
               /\ m.state = "UNMAP_PENDING" /\ m.pending_unmap = r.pending_unmap + 1
               /\ r.win = "mapped" =>
                    m.win = "unmapped" /\ m.notices = Append(r.notices, "unmap")
               /\ r.win # "mapped" => SameWindow(m, r)
  <1> DEFINE q == [r EXCEPT !.state = "UNMAP_PENDING",
                            !.pending_unmap = r.pending_unmap + 1]
             x == [q EXCEPT !.win = "unmapped", !.notices = Append(r.notices, "unmap")]
  <1>0. Append(r.notices, "unmap") \in Seq(Notices) /\ r.pending_unmap + 1 \in Nat
    BY AppendNotice DEF Client, Notices
  <1>1. SameFlags(r, r)
    BY DEF SameFlags, SameMarks
  <1>2. /\ q \in Client /\ SameFlags(q, r) /\ q.pending_unmap = r.pending_unmap + 1
        /\ q.state = "UNMAP_PENDING" /\ SameWindow(q, r)
    BY <1>0 DEF SameFlags, SameMarks, SameWindow, Client, States
  <1>3. /\ x \in Client /\ SameFlags(x, r) /\ x.pending_unmap = r.pending_unmap + 1
        /\ x.state = "UNMAP_PENDING"
        /\ x.win = "unmapped" /\ x.notices = Append(r.notices, "unmap")
    BY <1>0, <1>2 DEF SameFlags, SameMarks, Client, States
  <1>4. XUnmapWindow(q) = IF r.win = "mapped" THEN x ELSE q
    BY <1>2 DEF XUnmapWindow, SameWindow
  <1> HIDE DEF q, x
  <1>5. UnmapClient(r) = IF ~IsClientMapped(r) \/ r.state \in {"MAP_PENDING", "UNMAP_PENDING"}
                           THEN r
                         ELSE IF r.win = "mapped" THEN x ELSE q
    BY <1>4 DEF UnmapClient, q
  <1> QED
    BY <1>1, <1>2, <1>3, <1>5 DEF IsClientMapped

LEMMA LeaveIs ==
  ASSUME NEW r \in Client
  PROVE  /\ r.ul = "none" =>
              Leave(r) = UnmapClient([r EXCEPT !.from_switch = TRUE, !.map_after = FALSE])
         /\ r.ul # "none" /\ r.state = "MAP_PENDING" =>
              Leave(r) = [r EXCEPT !.from_switch = TRUE, !.unmap_after = TRUE]
         /\ r.ul # "none" /\ r.state # "MAP_PENDING" =>
              Leave(r) = [r EXCEPT !.from_switch = TRUE]
  <1> DEFINE one == [r EXCEPT !.from_switch = TRUE]
             two == [one EXCEPT !.map_after = FALSE]
  <1>1. SetUnmappedFromSwitch(r) = one
    BY DEF SetUnmappedFromSwitch
  <1>2. /\ one.ul = r.ul /\ one.state = r.state /\ one.from_switch
        /\ two.ul = r.ul /\ two.state = r.state
        /\ two = [r EXCEPT !.from_switch = TRUE, !.map_after = FALSE]
    BY DEF Client
  <1>3. CASE r.ul = "none"
    <2> HIDE DEF one, two
    <2>1. CancelCancelPendingUnmaps(one) = two
      BY <1>2, <1>3 DEF CancelCancelPendingUnmaps, InUnmappedList, two
    <2>2. CancelPendingMaps(two) = two
      BY <1>2, <1>3 DEF CancelPendingMaps, InUnmappedList
    <2> QED
      BY <1>1, <1>2, <1>3, <2>1, <2>2 DEF Leave, InUnmappedList
  <1>4. CASE r.ul # "none"
    <2> HIDE DEF one, two
    <2>1. CancelCancelPendingUnmaps(one) = one
      BY <1>2, <1>4 DEF CancelCancelPendingUnmaps, InUnmappedList
    <2>2. CancelPendingMaps(one) =
            IF r.state = "MAP_PENDING" THEN [one EXCEPT !.unmap_after = TRUE] ELSE one
      BY <1>2, <1>4 DEF CancelPendingMaps, InUnmappedList
    <2>3. Leave(r) = CancelPendingMaps(one)
      BY <1>1, <1>4, <2>1 DEF Leave, InUnmappedList
    <2>4. [one EXCEPT !.unmap_after = TRUE] =
            [r EXCEPT !.from_switch = TRUE, !.unmap_after = TRUE]
      BY DEF one, Client
    <2> QED
      BY <1>4, <2>2, <2>3, <2>4 DEF one
  <1> QED
    BY <1>3, <1>4

LEMMA EnterIs ==
  ASSUME NEW r \in Client
  PROVE  /\ r.ul # "none" => Enter(r) = MapClient([r EXCEPT !.unmap_after = FALSE])
         /\ r.ul = "none" /\ r.state = "UNMAP_PENDING" /\ r.from_switch =>
              Enter(r) = [r EXCEPT !.map_after = TRUE]
         /\ r.ul = "none" /\ ~(r.state = "UNMAP_PENDING" /\ r.from_switch) =>
              Enter(r) = r
  <1> DEFINE one == [r EXCEPT !.unmap_after = FALSE]
  <1>1. one.ul = r.ul
    BY DEF Client
  <1> HIDE DEF one
  <1>2. CASE r.ul = "none"
    BY <1>2 DEF Enter, InUnmappedList, CancelPendingUnmaps, CancelCancelPendingMaps
  <1>3. CASE r.ul # "none"
    <2>1. CancelCancelPendingMaps(r) = one
      BY <1>3 DEF CancelCancelPendingMaps, InUnmappedList, one
    <2>2. CancelPendingUnmaps(one) = one
      BY <1>1, <1>3 DEF CancelPendingUnmaps, InUnmappedList
    <2> QED
      BY <1>3, <2>1, <2>2 DEF Enter, InUnmappedList, one
  <1> QED
    BY <1>2, <1>3

-----------------------------------------------------------------------------
(* What the user has unmapped: the mark in the list and the mark in the    *)
(* Client, and the window under them.                                      *)

Marked(r) == r.ul = "stay" => r.future_stay

(* A client that is to stay unmapped in r is not on the screen in q.       *)
Stays(r, q) == r.managed /\ r.ul = "stay" /\ r.win # "mapped" => q.win # "mapped"

LEMMA MapClientStays ==
  ASSUME NEW r \in Client, Marked(r)
  PROVE  /\ Marked(MapClient(r))
         /\ IsInPlace(r) => Stays(r, MapClient(r))
  BY MapClientIs DEF Marked, Stays, SameFlags, SameMarks, SameWindow

LEMMA UnmapClientStays ==
  ASSUME NEW r \in Client, Marked(r)
  PROVE  Marked(UnmapClient(r)) /\ (r.win # "mapped" => UnmapClient(r).win # "mapped")
  BY UnmapClientIs DEF Marked, SameFlags, SameMarks, SameWindow

LEMMA FreshStays ==
  ASSUME NEW r \in Client
  PROVE  Marked(Fresh(r)) /\ (r.win # "mapped" => Fresh(r).win # "mapped")
  BY FreshProperties DEF Marked

LEMMA StartManageMarked ==
  ASSUME NEW r \in Client, History(r), NEW cur \in Workspaces,
         r.win = "gone" => Has(r, "destroy")
  PROVE  Marked(StartManage(r, cur))
  <1> DEFINE known  == r.win # "gone"
             ws     == IF known /\ r.desktop \in Workspaces THEN r.desktop ELSE cur
             told   == IF ws = cur THEN r ELSE XUnmapWindow(r)
             f      == Fresh(told)
             new    == [f EXCEPT !.managed = TRUE, !.known = known, !.workspace = ws,
                                 !.place = ws,
                                 !.desktop = IF @ = NoWorkspace THEN ws ELSE @]
             shown  == [new EXCEPT !.mapped = TRUE, !.state = "MAPPED"]
             hidden == [new EXCEPT !.ul = "can",
                                   !.pending_unmap = IF r.win = "mapped" THEN 1 ELSE 0]
  <1>1. StartManage(r, cur) = shown \/ StartManage(r, cur) = hidden
    BY DEF StartManage
  <1>2. told \in Client
    BY XUnmapWindowProperties
  <1>3. f \in Client /\ f.ul = "none"
    BY <1>2, FreshProperties
  <1> HIDE DEF f, ws, known
  <1>4. new.ul = "none" /\ hidden.ul = "can" /\ shown.ul = "none"
    BY <1>3 DEF Client
  <1> QED
    BY <1>1, <1>4 DEF Marked

(* A handler reads the notice first, which leaves all else as it was.      *)
LEMMA ReadIs ==
  ASSUME NEW r \in Client, r.notices # <<>>
  PROVE  LET q == Read(r) IN
         /\ q \in Client /\ SameFlags(q, r) /\ q.win = r.win /\ q.state = r.state
         /\ q.pending_unmap = r.pending_unmap /\ q.notices = Tail(r.notices)
  <1>1. r.notices \in Seq(Notices)
    BY DEF Client
  <1>2. PICK t \in Seq(Notices) : t = Tail(r.notices)
    BY <1>1, TailNotice
  <1>3. Read(r) = [r EXCEPT !.notices = t]
    BY <1>2 DEF Read
  <1> QED
    BY <1>2, <1>3 DEF SameFlags, SameMarks, Client

LEMMA MapRequestStays ==
  ASSUME NEW r \in Client, NEW cur \in Workspaces, Inductive(r, cur, FALSE) \/ Inductive(r, cur, TRUE),
         Marked(r), r.notices # <<>>, Head(r.notices) = "request"
  PROVE  Marked(HandleMapRequest(Read(r), cur)) /\ Stays(r, HandleMapRequest(Read(r), cur))
  <1> SUFFICES ASSUME NEW q, q = Read(r)
               PROVE  Marked(HandleMapRequest(q, cur)) /\ Stays(r, HandleMapRequest(q, cur))
    OBVIOUS
  <1>1. /\ q \in Client /\ SameFlags(q, r) /\ q.win = r.win
    BY ReadIs
  <1>2. /\ History(r) /\ (r.managed => IsInPlace(r))
    BY DEF Inductive
  <1>3. /\ History(q) /\ (q.win = "gone" => Has(q, "destroy"))
    BY <1>1, <1>2, ReadProperties
  <1>4. Marked(q) /\ (q.managed => IsInPlace(q)) /\ q.managed = r.managed /\ q.ul = r.ul
    BY <1>1, <1>2 DEF Marked, IsInPlace, SameFlags, SameMarks
  <1>5. CASE q.managed
    <2>1. HandleMapRequest(q, cur) = q \/ HandleMapRequest(q, cur) = MapClient(q)
      BY <1>5 DEF HandleMapRequest
    <2>2. Marked(MapClient(q)) /\ Stays(q, MapClient(q))
      BY <1>1, <1>4, <1>5, MapClientStays
    <2>3. Stays(r, MapClient(q)) /\ Stays(r, q)
      BY <1>1, <1>4, <2>2 DEF Stays
    <2> QED
      BY <1>4, <2>1, <2>2, <2>3
  <1>6. CASE ~q.managed
    <2> DEFINE n == StartManage(q, cur)
    <2>1. HandleMapRequest(q, cur) = MapClient(n)
      BY <1>6 DEF HandleMapRequest
    <2>2. Marked(n) /\ n \in Client
      BY <1>1, <1>3, StartManageMarked, StartManageCore DEF Core
    <2> HIDE DEF n
    <2>3. Marked(MapClient(n))
      BY <2>2, MapClientStays
    <2> QED
      BY <1>4, <1>6, <2>1, <2>3 DEF Stays
  <1> QED
    BY <1>5, <1>6

LEMMA UnmappedIs ==
  ASSUME NEW q \in Client, NEW p \in Nat, NEW u \in {"none", "can", "stay"}, NEW k,
         k = [q EXCEPT !.state = "UNMAPPED", !.mapped = FALSE,
                       !.pending_unmap = p, !.ul = u]
  PROVE
         /\ k \in Client /\ SameWindow(k, q)
         /\ k.state = "UNMAPPED" /\ ~k.mapped
         /\ k.ul = u
         /\ SameMarks(k, q)
  BY DEF Client, States, SameWindow, SameMarks

LEMMA UnmapHandledStays ==
  ASSUME NEW q \in Client, q.managed, IsInPlace(q), Marked(q)
  PROVE  Marked(HandleUnmapNotify(q)) /\ Stays(q, HandleUnmapNotify(q))
  <1>0. CASE q.pending_unmap = 0
    BY <1>0, FreshStays DEF HandleUnmapNotify, Stays
  <1>p. CASE q.pending_unmap # 0
    <2>0. PICK p \in Nat : p = q.pending_unmap - 1
      <3>1. q.pending_unmap \in Nat
        BY DEF Client
      <3> QED
        BY <1>p, <3>1
    <2>1. PICK u \in {"can", "stay"} : u = IF q.future_stay THEN "stay" ELSE "can"
      OBVIOUS
    <2>2. PICK kept : kept = [q EXCEPT !.state = "UNMAPPED", !.mapped = FALSE,
                                       !.pending_unmap = p, !.ul = u]
      OBVIOUS
    <2> DEFINE h == MapClient(kept)
               e == [h EXCEPT !.map_after = FALSE]
    <2>3. kept = [q EXCEPT !.state = "UNMAPPED", !.mapped = FALSE,
                           !.pending_unmap = @ - 1, !.ul = IntoUnmappedList(q)]
      BY <2>0, <2>1, <2>2 DEF IntoUnmappedList
    <2>4. kept \in Client
      BY <2>2, UnmappedIs
    <2>5. SameWindow(kept, q) /\ SameMarks(kept, q)
      BY <2>2, UnmappedIs
    <2>6. kept.ul = u
      BY <2>2 DEF Client
    <2>7. IsInPlace(kept) /\ kept.managed
      BY <2>5 DEF IsInPlace, SameMarks
    <2>8. Marked(kept) /\ (q.ul = "stay" => kept.ul = "stay")
      BY <2>1, <2>5, <2>6 DEF Marked, SameMarks
    <2>9. HandleUnmapNotify(q) = IF q.map_after THEN e ELSE kept
      BY <1>p, <2>3, <2>5 DEF HandleUnmapNotify, SameMarks
    <2>10. Marked(h) /\ Stays(kept, h) /\ h \in Client
      BY <2>4, <2>7, <2>8, MapClientStays, MapClientIs
    <2> HIDE DEF h
    <2>11. Stays(q, h) /\ Stays(q, kept)
      BY <2>5, <2>7, <2>8, <2>10 DEF Stays, SameWindow
    <2>12. e.ul = h.ul /\ e.future_stay = h.future_stay /\ e.win = h.win
      BY <2>10 DEF Client
    <2> QED
      BY <2>8, <2>9, <2>10, <2>11, <2>12 DEF Marked, Stays, h
  <1> QED
    BY <1>0, <1>p

LEMMA UnmapNotifyStays ==
  ASSUME NEW r \in Client, r.managed => IsInPlace(r), Marked(r), r.notices # <<>>
  PROVE  Marked(HandleUnmapNotify(Read(r))) /\ Stays(r, HandleUnmapNotify(Read(r)))
  <1> SUFFICES ASSUME NEW q, q = Read(r)
               PROVE  Marked(HandleUnmapNotify(q)) /\ Stays(r, HandleUnmapNotify(q))
    OBVIOUS
  <1>1. /\ q \in Client /\ q.managed = r.managed /\ q.win = r.win
        /\ q.ul = r.ul /\ q.future_stay = r.future_stay
        /\ q.managed => IsInPlace(q)
    BY ReadIs DEF SameFlags, SameMarks, IsInPlace
  <1>2. Marked(q)
    BY <1>1 DEF Marked
  <1>3. CASE ~q.managed
    BY <1>1, <1>2, <1>3 DEF HandleUnmapNotify, Stays
  <1>4. CASE q.managed
    BY <1>1, <1>2, <1>4, UnmapHandledStays DEF Stays
  <1> QED
    BY <1>3, <1>4

LEMMA MapHandledStays ==
  ASSUME NEW q \in Client, q.managed, IsInPlace(q), Marked(q),
         NEW cur, NEW flag \in BOOLEAN
  PROVE  Marked(HandleMapNotify(q, cur, flag)) /\ Stays(q, HandleMapNotify(q, cur, flag))
  <1> DEFINE shown == [q EXCEPT !.mapped = TRUE, !.state = "MAPPED",
                                !.ul = OutOfUnmappedList(q), !.from_switch = FALSE]
             away  == [shown EXCEPT !.unmap_after = FALSE, !.from_switch = TRUE]
  <1>1. shown \in Client /\ shown.win = q.win /\ shown.ul = "none"
    BY DEF Client, States, OutOfUnmappedList
  <1>2. \/ HandleMapNotify(q, cur, flag) = shown
        \/ HandleMapNotify(q, cur, flag) = UnmapClient(away)
    BY DEF HandleMapNotify
  <1> HIDE DEF shown
  <1>3. away \in Client /\ away.win = q.win /\ away.ul = "none"
    BY <1>1 DEF Client
  <1> HIDE DEF away
  <1>4. Marked(shown) /\ Marked(away)
    BY <1>1, <1>3 DEF Marked
  <1>5. Marked(UnmapClient(away)) /\ (q.win # "mapped" => UnmapClient(away).win # "mapped")
    BY <1>3, <1>4, UnmapClientStays
  <1> QED
    BY <1>1, <1>2, <1>4, <1>5 DEF Stays

LEMMA MapNotifyStays ==
  ASSUME NEW r \in Client, r.managed => IsInPlace(r), Marked(r), r.notices # <<>>,
         NEW cur, NEW flag \in BOOLEAN
  PROVE  /\ Marked(HandleMapNotify(Read(r), cur, flag))
         /\ Stays(r, HandleMapNotify(Read(r), cur, flag))
  <1> SUFFICES ASSUME NEW q, q = Read(r)
               PROVE  /\ Marked(HandleMapNotify(q, cur, flag))
                      /\ Stays(r, HandleMapNotify(q, cur, flag))
    OBVIOUS
  <1>1. /\ q \in Client /\ q.managed = r.managed /\ q.win = r.win
        /\ q.ul = r.ul /\ q.future_stay = r.future_stay
        /\ q.managed => IsInPlace(q)
    BY ReadIs DEF SameFlags, SameMarks, IsInPlace
  <1>2. Marked(q) /\ Stays(r, q)
    BY <1>1 DEF Marked, Stays
  <1>3. CASE ~q.managed
    BY <1>2, <1>3 DEF HandleMapNotify
  <1>4. CASE q.managed
    BY <1>1, <1>2, <1>4, MapHandledStays DEF Stays
  <1> QED
    BY <1>3, <1>4

LEMMA DestroyNotifyStays ==
  ASSUME NEW r \in Client, Marked(r), r.notices # <<>>
  PROVE  /\ Marked(HandleDestroyNotify(Read(r)))
         /\ Stays(r, HandleDestroyNotify(Read(r)))
  BY ReadIs, FreshStays DEF HandleDestroyNotify, Marked, Stays, SameFlags, SameMarks

LEMMA LeaveStays ==
  ASSUME NEW r \in Client, Marked(r)
  PROVE  Marked(Leave(r)) /\ Stays(r, Leave(r))
  <1> DEFINE a == [r EXCEPT !.from_switch = TRUE, !.map_after = FALSE]
             b == [r EXCEPT !.from_switch = TRUE, !.unmap_after = TRUE]
             d == [r EXCEPT !.from_switch = TRUE]
  <1>1. /\ a \in Client /\ b \in Client /\ d \in Client
        /\ Marked(a) /\ Marked(b) /\ Marked(d) /\ Stays(r, b) /\ Stays(r, d)
        /\ a.win = r.win
    BY ZenonT(60) DEF Client, Marked, Stays
  <1>2. Leave(r) \in {UnmapClient(a), b, d}
    BY LeaveIs
  <1> HIDE DEF a, b, d
  <1> QED
    BY <1>1, <1>2, UnmapClientStays DEF Stays

LEMMA EnterStays ==
  ASSUME NEW r \in Client, Marked(r), IsInPlace(r)
  PROVE  Marked(Enter(r)) /\ Stays(r, Enter(r))
  <1> DEFINE a == [r EXCEPT !.unmap_after = FALSE]
             b == [r EXCEPT !.map_after = TRUE]
  <1>1. /\ a \in Client /\ Marked(a) /\ Marked(b) /\ Stays(r, b) /\ Stays(r, r)
        /\ a.win = r.win /\ a.ul = r.ul /\ a.managed = r.managed /\ IsInPlace(a)
    BY DEF Client, Marked, Stays, IsInPlace
  <1>2. Enter(r) \in {MapClient(a), b, r}
    BY EnterIs
  <1> HIDE DEF a, b
  <1> QED
    BY <1>1, <1>2, MapClientStays DEF Stays

LEMMA AdoptMarked ==
  ASSUME NEW r \in Client, NEW cur \in Workspaces
  PROVE  Marked(Adopt(r, cur))
  <1> DEFINE quiet == [r EXCEPT !.notices = <<>>]
             old   == Fresh(quiet)
             new   == StartManage(old, cur)
  <1>1. quiet \in Client /\ quiet.notices = <<>> /\ quiet.win = r.win
    <2>0. <<>> \in Seq(Notices)
      OBVIOUS
    <2>1. PICK t \in Seq(Notices) : t = <<>>
      BY <2>0, Zenon
    <2>2. quiet = [r EXCEPT !.notices = t]
      BY <2>1
    <2>3. quiet \in Client /\ quiet.notices = t /\ quiet.win = r.win
      BY <2>2 DEF Client
    <2> QED
      BY <2>1, <2>3
  <1>2. History(quiet)
    BY <1>1 DEF History, FollowedBy
  <1>3. old \in Client /\ History(old) /\ old.win = r.win /\ Marked(old)
    BY <1>1, <1>2, FreshProperties, FreshStays
  <1>4. Adopt(r, cur) =
          IF r.win = "gone" \/ (r.win = "unmapped" /\ r.desktop \notin Workspaces)
            THEN old
            ELSE IF new.workspace = cur /\ new.ul # "none" THEN MapClient(new)
                                                           ELSE new
    BY DEF Adopt
  <1> HIDE DEF old, quiet
  <1>5. CASE r.win = "gone"
    BY <1>3, <1>4, <1>5
  <1>6. CASE r.win # "gone"
    <2>1. Marked(new) /\ new \in Client
      BY <1>3, <1>6, StartManageMarked, StartManageCore DEF Core
    <2> HIDE DEF new
    <2>2. Marked(MapClient(new))
      BY <2>1, MapClientStays
    <2> QED
      BY <1>3, <1>4, <2>1, <2>2
  <1> QED
    BY <1>5, <1>6

(* What a step does to the clients the user has unmapped.                  *)
StepStays ==
  \A c \in Clients : /\ Marked(client'[c])
                     /\ \/ Stays(client[c], client'[c])
                        \/ MapLatestUnmap(c) \/ MapAll \/ Restart

LEMMA SetStays ==
  ASSUME IInv, StayMarked, NEW c \in Clients, NEW q, Set(c, q), Marked(q),
         Stays(client[c], q) \/ MapLatestUnmap(c)
  PROVE  StepStays
  <1>1. client' = [client EXCEPT ![c] = q] /\ client \in [Clients -> Client]
    BY DEF Set, IInv, TypeOK
  <1>2. client'[c] = q
    BY <1>1
  <1>3. ASSUME NEW d \in Clients, d # c PROVE client'[d] = client[d]
    BY <1>1, <1>3
  <1> QED
    BY <1>2, <1>3 DEF StepStays, Stays, Marked, StayMarked

LEMMA NextStays ==
  ASSUME IInv, StayMarked, [Next]_vars
  PROVE  StepStays
  <1>0. ASSUME NEW c \in Clients
        PROVE  /\ client[c] \in Client /\ Inductive(client[c], current, c \in Docks)
               /\ (client[c].managed => IsInPlace(client[c]))
               /\ Marked(client[c]) /\ History(client[c])
    BY <1>0 DEF IInv, TypeOK, Inductive, StayMarked, Marked
  <1>c. current \in Workspaces
    BY DEF IInv, TypeOK
  <1>1. ASSUME NEW c \in Clients, ClientMap(c) PROVE StepStays
    <2> DEFINE q == [client[c] EXCEPT !.notices = Append(@, "request")]
    <2>1. Set(c, q)
      BY <1>1 DEF ClientMap
    <2>2. q.ul = client[c].ul /\ q.future_stay = client[c].future_stay /\ q.win = client[c].win
      BY <1>0 DEF Client
    <2> HIDE DEF q
    <2>3. Marked(q) /\ Stays(client[c], q)
      BY <1>0, <2>2 DEF Marked, Stays
    <2> QED
      BY <2>1, <2>3, SetStays
  <1>2. ASSUME NEW c \in Clients, NEW e, NEW w \in {"unmapped", "gone"},
               NEW q, q = [XUnmapWindow(client[c]) EXCEPT !.notices = Append(@, e), !.win = w],
               Set(c, q)
        PROVE  StepStays
    <2> DEFINE x == XUnmapWindow(client[c])
    <2>1. /\ x \in Client
          /\ x = [client[c] EXCEPT !.win = x.win, !.notices = x.notices]
      BY <1>0, XUnmapWindowProperties
    <2> HIDE DEF x
    <2>2. x.ul = client[c].ul /\ x.future_stay = client[c].future_stay
      BY <1>0, <2>1 DEF Client
    <2>3. q.ul = x.ul /\ q.future_stay = x.future_stay /\ q.win = w
      BY <1>2, <2>1 DEF Client, x
    <2>4. Marked(q) /\ Stays(client[c], q)
      BY <1>0, <2>2, <2>3 DEF Marked, Stays
    <2> QED
      BY <1>2, <2>4, SetStays
  <1>3. ASSUME NEW c \in Clients, ClientWithdraw(c) PROVE StepStays
    <2> DEFINE x == XUnmapWindow(client[c])
               z == [x EXCEPT !.notices = Append(@, "synthetic"), !.win = "unmapped"]
    <2>1. Set(c, [x EXCEPT !.notices = Append(@, "synthetic")])
      BY <1>3 DEF ClientWithdraw
    <2>2. x \in Client
      BY <1>0, XUnmapWindowProperties
    <2>3. x.win = "unmapped"
      BY <1>0, <1>3 DEF XUnmapWindow, Client, ClientWithdraw, ClientMayAct
    <2>4. [x EXCEPT !.notices = Append(@, "synthetic")] = z
      <3> HIDE DEF x
      <3> QED
        BY <2>2, <2>3 DEF Client
    <2>5. Set(c, z)
      BY <2>1, <2>4
    <2> QED
      BY <1>2, <2>5
  <1>4. ASSUME NEW c \in Clients, ClientDestroy(c) PROVE StepStays
    BY <1>2, <1>4 DEF ClientDestroy
  <1>5. ASSUME NEW c \in Clients, Handle(c) PROVE StepStays
    <2>1. CASE MapRequest(c)
      <3>1. Inductive(client[c], current, FALSE) \/ Inductive(client[c], current, TRUE)
        BY <1>0 DEF Inductive, Away
      <3> QED
        BY <1>0, <1>c, <2>1, <3>1, MapRequestStays, SetStays DEF MapRequest, Reads
    <2>2. CASE UnmapNotify(c)
      BY <1>0, <2>2, UnmapNotifyStays, SetStays DEF UnmapNotify, Reads
    <2>3. CASE MapNotify(c)
      <3>1. IsDock(c) \in BOOLEAN
        BY <1>0 DEF IsDock, Client
      <3>2. /\ Marked(HandleMapNotify(Read(client[c]), current, IsDock(c)))
            /\ Stays(client[c], HandleMapNotify(Read(client[c]), current, IsDock(c)))
        BY <1>0, <2>3, <3>1, MapNotifyStays DEF MapNotify, Reads
      <3> QED
        BY <2>3, <3>2, SetStays DEF MapNotify
    <2>4. CASE DestroyNotify(c)
      BY <1>0, <2>4, DestroyNotifyStays, SetStays DEF DestroyNotify, Reads
    <2> QED
      BY <1>5, <2>1, <2>2, <2>3, <2>4 DEF Handle
  <1>6. ASSUME NEW w \in Workspaces, SwitchWorkspace(w) PROVE StepStays
    <2> SUFFICES ASSUME NEW c \in Clients
                 PROVE  Marked(client'[c]) /\ Stays(client[c], client'[c])
      BY DEF StepStays
    <2> DEFINE q == [client[c] EXCEPT !.workspace = w, !.place = w]
    <2>1. \/ client'[c] \in {Enter(q), Leave(client[c]), client[c]}
          \/ client[c].managed /\ client'[c] = Enter(client[c])
      BY <1>6 DEF SwitchWorkspace
    <2>2. /\ q \in Client /\ Marked(q) /\ IsInPlace(q)
          /\ q.managed = client[c].managed /\ q.ul = client[c].ul /\ q.win = client[c].win
      BY <1>0 DEF Client, Marked, IsInPlace
    <2> HIDE DEF q
    <2>3. CASE client'[c] = Enter(q)
      BY <2>2, <2>3, EnterStays DEF Stays
    <2>4. CASE client'[c] = Leave(client[c])
      BY <1>0, <2>4, LeaveStays
    <2>5. CASE client'[c] = client[c]
      BY <1>0, <2>5 DEF Stays
    <2>6. CASE client[c].managed /\ client'[c] = Enter(client[c])
      BY <1>0, <2>6, EnterStays
    <2> QED
      BY <2>1, <2>3, <2>4, <2>5, <2>6
  <1>7. ASSUME NEW c \in Clients, NEW w \in Workspaces, MoveToWorkspace(c, w)
        PROVE  StepStays
    <2> DEFINE p == IF client[c].place = current THEN w ELSE client[c].place
               q == [client[c] EXCEPT !.workspace = w, !.desktop = w, !.place = p]
    <2>1. Set(c, UnmapClient(q))
      BY <1>7 DEF MoveToWorkspace
    <2>2. p \in Workspaces \cup {NoWorkspace}
      BY <1>0 DEF Client
    <2> HIDE DEF p
    <2>3. q \in Client /\ q.ul = client[c].ul /\ q.win = client[c].win /\ Marked(q)
      BY <1>0, <2>2 DEF Client, Marked
    <2> HIDE DEF q
    <2>4. Marked(UnmapClient(q)) /\ Stays(client[c], UnmapClient(q))
      BY <2>3, UnmapClientStays DEF Stays
    <2> QED
      BY <2>1, <2>4, SetStays
  <1>8. ASSUME NEW c \in Clients, NEW stay \in BOOLEAN, client[c].future_stay => stay
        PROVE  /\ Marked(UnmapClient([client[c] EXCEPT !.future_stay = stay]))
               /\ Stays(client[c], UnmapClient([client[c] EXCEPT !.future_stay = stay]))
    <2> DEFINE q == [client[c] EXCEPT !.future_stay = stay]
    <2>1. q \in Client /\ q.ul = client[c].ul /\ q.win = client[c].win /\ Marked(q)
      BY <1>0, <1>8 DEF Client, Marked
    <2> HIDE DEF q
    <2>2. Marked(UnmapClient(q)) /\ Stays(client[c], UnmapClient(q))
      BY <2>1, UnmapClientStays DEF Stays
    <2> QED
      BY <2>2 DEF q
  <1>9. ASSUME NEW c \in Clients, UnmapWindow(c) PROVE StepStays
    BY <1>8, <1>9, SetStays DEF UnmapWindow
  <1>10. ASSUME NEW c \in Clients
         PROVE  Marked(MapClient([client[c] EXCEPT !.ul = "can", !.future_stay = FALSE]))
    <2> DEFINE q == [client[c] EXCEPT !.ul = "can", !.future_stay = FALSE]
    <2>1. q \in Client /\ Marked(q)
      BY <1>0 DEF Client, Marked
    <2> HIDE DEF q
    <2>2. Marked(MapClient(q))
      BY <2>1, MapClientStays
    <2> QED
      BY <2>2 DEF q
  <1>11. ASSUME NEW c \in Clients, MapLatestUnmap(c) PROVE StepStays
    <2>1. Set(c, MapClient([client[c] EXCEPT !.ul = "can", !.future_stay = FALSE]))
      BY <1>11 DEF MapLatestUnmap
    <2> QED
      BY <1>10, <1>11, <2>1, SetStays
  <1>12. ASSUME NEW T, UnmapAll(T) PROVE StepStays
    <2> SUFFICES ASSUME NEW c \in Clients
                 PROVE  Marked(client'[c]) /\ Stays(client[c], client'[c])
      BY DEF StepStays
    <2>1. PICK stay \in BOOLEAN : stay = (client[c].future_stay \/ c \in T)
      BY Zenon
    <2>2. \/ client'[c] = client[c]
          \/ client'[c] = UnmapClient([client[c] EXCEPT !.future_stay = stay])
      BY <1>12, <2>1, Zenon DEF UnmapAll
    <2>3. client[c].future_stay => stay
      BY <2>1, Zenon
    <2>4. Stays(client[c], client[c])
      BY DEF Stays
    <2>5. /\ Marked(UnmapClient([client[c] EXCEPT !.future_stay = stay]))
          /\ Stays(client[c], UnmapClient([client[c] EXCEPT !.future_stay = stay]))
      BY <1>8, <2>3, Zenon
    <2> QED
      BY <1>0, <2>2, <2>4, <2>5, Zenon
  <1>13. CASE MapAll
    <2> SUFFICES ASSUME NEW c \in Clients PROVE Marked(client'[c])
      BY <1>13 DEF StepStays
    <2>1. \/ client'[c] = client[c]
          \/ client'[c] = MapClient([client[c] EXCEPT !.ul = "can", !.future_stay = FALSE])
      BY <1>13 DEF MapAll
    <2> QED
      BY <1>0, <1>10, <2>1
  <1>14. CASE Restart
    <2> SUFFICES ASSUME NEW c \in Clients PROVE Marked(client'[c])
      BY <1>14 DEF StepStays
    <2> QED
      BY <1>0, <1>c, <1>14, AdoptMarked DEF Restart
  <1>15. CASE UNCHANGED vars
    BY <1>0, <1>15 DEF vars, StepStays, Stays
  <1> QED
    BY <1>1, <1>3, <1>4, <1>5, <1>6, <1>7, <1>9, <1>11, <1>12, <1>13, <1>14, <1>15
       DEF Next

LEMMA InvariantAndMarks ==
  ASSUME FocusFollows
  PROVE  Spec => [](IInv /\ StayMarked)
  <1>1. Init => StayMarked
    BY DEF Init, StayMarked, NewWindow
  <1>2. ASSUME IInv, StayMarked, [Next]_vars PROVE StayMarked'
    BY <1>2, NextStays DEF StepStays, Marked, StayMarked
  <1>3. Init => IInv
    BY InitIInv
  <1>4. IInv /\ [Next]_vars => IInv'
    BY NextIInv
  <1> QED
    BY <1>1, <1>2, <1>3, <1>4, PTL DEF Spec

(* A window that the user has unmapped is brought back by the user's        *)
(* map keys and by a restart, and by nothing else: no request of the client *)
(* (handle_map_request), no late notice and no switch of workspace gets     *)
(* past stay_unmapped.                                                     *)
THEOREM UserUnmapStays ==
  ASSUME FocusFollows
  PROVE  Spec => UserUnmapSticks
  <1>1. ASSUME IInv, StayMarked, [Next]_vars
        PROVE  [\A c \in Clients :
                  ( /\ client[c].managed /\ client[c].ul = "stay"
                    /\ client[c].win # "mapped" /\ client'[c].win = "mapped" )
                  => MapLatestUnmap(c) \/ MapAll \/ Restart]_vars
    BY <1>1, NextStays DEF StepStays, Stays
  <1>2. [](IInv /\ StayMarked) /\ [][Next]_vars => UserUnmapSticks
    BY <1>1, PTL DEF UserUnmapSticks
  <1> QED
    BY <1>2, InvariantAndMarks, PTL DEF Spec

-----------------------------------------------------------------------------
(* The order of the notices, where only the manager maps and unmaps.       *)

LEMMA OrderlyAppend ==
  ASSUME NEW s \in Seq(Notices), NEW e \in Notices, Orderly(s),
         e \in {"map", "unmap"} => \A i \in 1..Len(s) : s[i] # "map",
         e = "unmap" => \A i \in 1..Len(s) : s[i] # "unmap"
  PROVE  Orderly(Append(s, e))
  <1> DEFINE t == Append(s, e)
  <1>1. /\ Len(t) = Len(s) + 1
        /\ Len(s) \in Nat
        /\ t[Len(s) + 1] = e
        /\ \A i \in 1..Len(s) : t[i] = s[i]
    OBVIOUS
  <1> HIDE DEF t
  <1> SUFFICES ASSUME NEW i \in 1..Len(t), NEW j \in 1..Len(t), i < j
               PROVE  /\ t[i] = "map" => t[j] \notin {"map", "unmap"}
                      /\ t[i] = "unmap" => t[j] # "unmap"
    BY DEF Orderly, t
  <1>2. i \in 1..Len(s) /\ t[i] = s[i]
    BY <1>1
  <1>3. CASE j \in 1..Len(s)
    <2>1. t[j] = s[j]
      BY <1>1, <1>3
    <2> QED
      BY <1>2, <1>3, <2>1 DEF Orderly
  <1>4. CASE j = Len(s) + 1
    <2>1. t[j] = e
      BY <1>1, <1>4
    <2> QED
      BY <1>2, <2>1
  <1> QED
    BY <1>1, <1>3, <1>4

LEMMA OrderlyTail ==
  ASSUME NEW s \in Seq(Notices), s # <<>>, Orderly(s)
  PROVE  /\ Orderly(Tail(s))
         /\ Head(s) \in {"map", "unmap"} => \A i \in 1..Len(Tail(s)) : Tail(s)[i] # "unmap"
         /\ Head(s) = "map" => \A i \in 1..Len(Tail(s)) : Tail(s)[i] # "map"
  <1> DEFINE t == Tail(s)
  <1>1. /\ Head(s) = s[1] /\ Len(s) \in Nat /\ Len(s) > 0
        /\ Len(t) = Len(s) - 1
        /\ \A i \in 1..Len(t) : t[i] = s[i + 1]
    OBVIOUS
  <1> HIDE DEF t
  <1>2. ASSUME NEW i \in 1..Len(t) PROVE t[i] = s[i + 1] /\ i + 1 \in 1..Len(s) /\ 1 < i + 1
    BY <1>1
  <1>3. Orderly(t)
    <2> SUFFICES ASSUME NEW i \in 1..Len(t), NEW j \in 1..Len(t), i < j
                 PROVE  /\ t[i] = "map" => t[j] \notin {"map", "unmap"}
                        /\ t[i] = "unmap" => t[j] # "unmap"
      BY DEF Orderly
    <2>1. i + 1 < j + 1
      BY <1>1
    <2> QED
      BY <1>2, <2>1 DEF Orderly
  <1>4. ASSUME NEW i \in 1..Len(t)
        PROVE  /\ Head(s) \in {"map", "unmap"} => t[i] # "unmap"
               /\ Head(s) = "map" => t[i] # "map"
    <2>1. 1 \in 1..Len(s)
      BY <1>1
    <2> QED
      BY <1>1, <1>2, <2>1 DEF Orderly
  <1> QED
    BY <1>3, <1>4 DEF t

(* A window that is not mapped has no map to be read: an unmap would have  *)
(* to follow it.                                                           *)
LEMMA NoMapToRead ==
  ASSUME NEW r \in Client, History(r), Orderly(r.notices), r.win # "mapped"
  PROVE  ~Has(r, "map")
  <1> SUFFICES ASSUME NEW i \in 1..Len(r.notices), r.notices[i] = "map" PROVE FALSE
    BY DEF Has
  <1>1. FollowedBy(r.notices, {"map"}, "unmap")
    BY DEF History
  <1>2. PICK j \in (i + 1)..Len(r.notices) : r.notices[j] = "unmap"
    BY <1>1 DEF FollowedBy
  <1>3. Len(r.notices) \in Nat
    BY DEF Client
  <1>4. j \in 1..Len(r.notices) /\ i < j
    BY <1>2, <1>3
  <1> QED
    BY <1>2, <1>4 DEF Orderly

(* Appending a notice adds just that one.                                  *)
LEMMA AppendHas ==
  ASSUME NEW r \in Client, NEW q, NEW e \in Notices, q.notices = Append(r.notices, e)
  PROVE  \A x : Has(q, x) <=> Has(r, x) \/ x = e
  <1> DEFINE s == r.notices
             t == Append(s, e)
  <1>0. s \in Seq(Notices)
    BY DEF Client
  <1> HIDE DEF s
  <1>1. /\ Len(t) = Len(s) + 1
        /\ Len(s) \in Nat
        /\ t[Len(s) + 1] = e
        /\ \A i \in 1..Len(s) : t[i] = s[i]
    BY <1>0
  <1>2. q.notices = t
    BY DEF s
  <1> HIDE DEF t
  <1> SUFFICES ASSUME NEW x PROVE Has(q, x) <=> Has(r, x) \/ x = e
    OBVIOUS
  <1>3. ASSUME NEW i \in 1..Len(t), t[i] = x, x # e PROVE \E j \in 1..Len(s) : s[j] = x
    BY <1>1, <1>3
  <1>4. ASSUME NEW i \in 1..Len(s), s[i] = x PROVE \E j \in 1..Len(t) : t[j] = x
    BY <1>1, <1>4
  <1>5. Len(t) \in 1..Len(t)
    BY <1>1
  <1> QED
    BY <1>1, <1>2, <1>3, <1>4, <1>5 DEF Has, s

(* Reading a notice takes away that one, and what is left was there.       *)
LEMMA TailHas ==
  ASSUME NEW r \in Client, r.notices # <<>>, NEW q, q.notices = Tail(r.notices)
  PROVE  /\ \A x : Has(q, x) => Has(r, x)
         /\ \A x : Has(r, x) /\ x # Head(r.notices) => Has(q, x)
         /\ Has(r, Head(r.notices))
  <1> DEFINE s == r.notices
             t == Tail(s)
  <1>0. s \in Seq(Notices) /\ s # <<>>
    BY DEF Client
  <1> HIDE DEF s
  <1>1. /\ Head(s) = s[1] /\ Len(s) \in Nat /\ Len(s) > 0
        /\ Len(t) = Len(s) - 1
        /\ \A i \in 1..Len(t) : t[i] = s[i + 1]
    BY <1>0
  <1>2. q.notices = t
    BY DEF s
  <1> HIDE DEF t
  <1>3. ASSUME NEW x, NEW i \in 1..Len(t), t[i] = x PROVE \E j \in 1..Len(s) : s[j] = x
    <2>1. i + 1 \in 1..Len(s) /\ s[i + 1] = x
      BY <1>1, <1>3
    <2> QED
      BY <2>1
  <1>4. ASSUME NEW x, NEW i \in 1..Len(s), s[i] = x, x # Head(s)
        PROVE  \E j \in 1..Len(t) : t[j] = x
    <2>1. i - 1 \in 1..Len(t) /\ t[i - 1] = x
      BY <1>1, <1>4
    <2> QED
      BY <2>1
  <1>5. 1 \in 1..Len(s)
    BY <1>1
  <1> QED
    BY <1>1, <1>2, <1>3, <1>4, <1>5 DEF Has, s

-----------------------------------------------------------------------------
(* map_client and unmap_client. *)

(* What of a record Answered and ComesBack speak of, but for the notices.  *)
LEMMA SameAnswered ==
  ASSUME NEW r \in Client, NEW m, NEW cur, NEW dock, Answered(r, cur, dock),
         SameFlags(m, r), SameWindow(m, r), m.state = r.state,
         m.pending_unmap = r.pending_unmap
  PROVE  Answered(m, cur, dock) /\ (ComesBack(r, cur) => ComesBack(m, cur))
  BY DEF Answered, ComesBack, SameFlags, SameMarks, SameWindow, Has

LEMMA MapClientAnswered ==
  ASSUME NEW r, Core(r), NEW cur, NEW dock, Answered(r, cur, dock)
  PROVE  Answered(MapClient(r), cur, dock) /\ ComesBack(MapClient(r), cur)
  <1>0. r \in Client /\ r.managed /\ History(r) /\ Lag(r) /\ Flags(r)
    BY DEF Core
  <1> SUFFICES ASSUME NEW m, m = MapClient(r)
               PROVE  Answered(m, cur, dock) /\ ComesBack(m, cur)
    OBVIOUS
  <1>1. CASE m = r
    <2>1. \/ IsClientMapped(r) \/ r.state \in {"MAP_PENDING", "UNMAP_PENDING"}
          \/ r.ul = "stay"
      <3>1. \/ \/ IsClientMapped(r) \/ r.state \in {"MAP_PENDING", "UNMAP_PENDING"}
               \/ r.ul = "stay" /\ IsInPlace(r)
            \/ m.state = "MAP_PENDING"
        BY <1>0, MapClientIs
      <3> QED
        BY <1>1, <3>1
    <2>2. ComesBack(r, cur)
      BY <1>0, <2>1 DEF ComesBack, Flags, IsClientMapped
    <2> QED
      BY <1>1, <2>2
  <1>2. CASE m # r
    <2>1. /\ SameFlags(m, r) /\ m.pending_unmap = r.pending_unmap
          /\ ~IsClientMapped(r) /\ r.state # "UNMAP_PENDING"
          /\ m.state = "MAP_PENDING"
          /\ r.win = "unmapped" =>
               m.win = "mapped" /\ m.notices = Append(r.notices, "map")
          /\ r.win # "unmapped" => SameWindow(m, r)
      BY <1>0, <1>2, MapClientIs
    <2>2. ~r.mapped
      BY <1>0, <2>1 DEF IsClientMapped, Flags
    <2>3. CASE r.win = "gone"
      BY <2>1, <2>3 DEF Answered, ComesBack, SameWindow
    <2>4. CASE r.win = "mapped"
      <3>1. Has(r, "map")
        BY <1>0, <2>2, <2>4 DEF Lag
      <3>2. SameWindow(m, r) /\ (\A x : Has(m, x) <=> Has(r, x))
        BY <2>1, <2>4 DEF SameWindow, Has
      <3> QED
        BY <1>0, <2>1, <2>2, <2>4, <3>1, <3>2
           DEF Answered, ComesBack, SameFlags, SameMarks, SameWindow
    <2>5. CASE r.win = "unmapped"
      <3>1. ~Has(r, "map") /\ Orderly(r.notices) /\ r.notices \in Seq(Notices)
        BY <1>0, <2>5, NoMapToRead DEF Answered, Client
      <3>2. m.notices = Append(r.notices, "map") /\ "map" \in Notices
        BY <2>1, <2>5 DEF Notices
      <3>3. Orderly(m.notices)
        BY <3>1, <3>2, OrderlyAppend DEF Has
      <3>4. \A x : Has(m, x) <=> Has(r, x) \/ x = "map"
        BY <1>0, <3>2, AppendHas
      <3> QED
        BY <1>0, <2>1, <2>2, <2>5, <3>3, <3>4
           DEF Answered, ComesBack, SameFlags, SameMarks
    <2> QED
      BY <1>0, <2>3, <2>4, <2>5 DEF Client
  <1> QED
    BY <1>1, <1>2

LEMMA UnmapClientAnswered ==
  ASSUME NEW r, Core(r), NEW cur, NEW dock, Answered(r, cur, dock),
         r.state = "MAPPED" => /\ r.future_stay \/ r.from_switch
                               /\ r.workspace = cur => r.future_stay \/ r.map_after
  PROVE  /\ Answered(UnmapClient(r), cur, dock)
         /\ ComesBack(r, cur) => ComesBack(UnmapClient(r), cur)
  <1>0. r \in Client /\ r.managed /\ History(r) /\ Lag(r) /\ Flags(r)
    BY DEF Core
  <1> SUFFICES ASSUME NEW m, m = UnmapClient(r), m # r
               PROVE  /\ Answered(m, cur, dock)
                      /\ ComesBack(r, cur) => ComesBack(m, cur)
    OBVIOUS
  <1>1. /\ SameFlags(m, r)
        /\ r.mapped /\ r.state \notin {"MAP_PENDING", "UNMAP_PENDING"}
        /\ m.state = "UNMAP_PENDING" /\ m.pending_unmap = r.pending_unmap + 1
        /\ r.win = "mapped" =>
             m.win = "unmapped" /\ m.notices = Append(r.notices, "unmap")
        /\ r.win # "mapped" => SameWindow(m, r)
    BY <1>0, UnmapClientIs
  <1>2. r.state = "MAPPED" /\ r.ul = "none" /\ m.ul = "none"
    BY <1>0, <1>1 DEF Flags, SameFlags
  <1>3. CASE r.win = "gone"
    BY <1>1, <1>3 DEF Answered, ComesBack, SameWindow
  <1>4. CASE r.win = "unmapped"
    BY <1>0, <1>1, <1>2, <1>4 DEF Lag, Answered
  <1>5. CASE r.win = "mapped"
    <2>1. /\ ~Has(r, "map") /\ ~Has(r, "unmap") /\ Orderly(r.notices)
          /\ r.notices \in Seq(Notices)
      BY <1>0, <1>1, <1>2, <1>5 DEF Answered, Client
    <2>2. m.notices = Append(r.notices, "unmap") /\ "unmap" \in Notices
      BY <1>1, <1>5 DEF Notices
    <2>3. Orderly(m.notices)
      BY <2>1, <2>2, OrderlyAppend DEF Has
    <2>4. \A x : Has(m, x) <=> Has(r, x) \/ x = "unmap"
      BY <1>0, <2>2, AppendHas
    <2>5. r.pending_unmap = 0
      BY <1>0, <1>5, <2>1 DEF Answered
    <2>6. m.pending_unmap = 1
      BY <1>1, <2>5
    <2>7. Answered(m, cur, dock)
      BY <1>0, <1>1, <1>2, <1>5, <2>1, <2>3, <2>4, <2>6
         DEF Answered, SameFlags, SameMarks
    <2> QED
      BY <1>2, <2>7 DEF ComesBack
  <1> QED
    BY <1>0, <1>3, <1>4, <1>5 DEF Client

-----------------------------------------------------------------------------
(* start_manage and the handlers. *)

LEMMA FreshIs ==
  ASSUME NEW r \in Client
  PROVE  /\ ~Fresh(r).unmap_after /\ ~Fresh(r).map_after /\ ~Fresh(r).future_stay
         /\ Fresh(r).pending_unmap = 0
  BY DEF Fresh, Client

LEMMA StartManageAnswered ==
  ASSUME NEW r \in Client, History(r), NEW cur \in Workspaces, NEW dock,
         r.win # "gone" => /\ Orderly(r.notices)
                           /\ ~Has(r, "synthetic") /\ ~Has(r, "destroy")
                           /\ ~Has(r, "map") /\ ~Has(r, "unmap")
  PROVE  LET m == StartManage(r, cur) IN
         /\ Answered(m, cur, dock)
         /\ m.win # "gone" /\ m.ul = "can" /\ m.workspace = cur => m.win = "unmapped"
  <1> DEFINE known  == r.win # "gone"
             ws     == IF known /\ r.desktop \in Workspaces THEN r.desktop ELSE cur
             viewed == r.win = "mapped" /\ ws = cur
             told   == IF ws = cur THEN r ELSE XUnmapWindow(r)
             f      == Fresh(told)
             d      == IF f.desktop = NoWorkspace THEN ws ELSE f.desktop
             new    == [f EXCEPT !.managed = TRUE, !.known = known, !.workspace = ws,
                                 !.place = ws, !.desktop = d]
             n      == IF r.win = "mapped" THEN 1 ELSE 0
             shown  == [new EXCEPT !.mapped = TRUE, !.state = "MAPPED"]
             hidden == [new EXCEPT !.ul = "can", !.pending_unmap = n]
  <1>1. StartManage(r, cur) = IF viewed THEN shown ELSE hidden
    BY DEF StartManage
  <1>2. told \in Client
    BY XUnmapWindowProperties
  <1>3. /\ r.win = "gone" => told.win = "gone"
        /\ r.win # "mapped" \/ ws = cur => told = r
        /\ r.win = "mapped" /\ ws # cur =>
             told.win = "unmapped" /\ told.notices = Append(r.notices, "unmap")
    BY DEF XUnmapWindow, Client
  <1>4. /\ f \in Client /\ f.win = told.win /\ f.notices = told.notices
        /\ ~f.mapped /\ f.state = "UNMAPPED" /\ f.ul = "none"
        /\ ~f.unmap_after /\ f.pending_unmap = 0
    BY <1>2, FreshProperties, FreshIs
  <1> HIDE DEF f
  <1>5. /\ new.managed /\ new.known = known /\ new.workspace = ws
        /\ new.win = told.win /\ new.notices = told.notices
        /\ ~new.mapped /\ new.state = "UNMAPPED" /\ new.ul = "none"
        /\ ~new.unmap_after /\ new.pending_unmap = 0
    <2> HIDE DEF known, ws, told, d
    <2> QED
      BY <1>4 DEF Client
  <1>6. /\ shown.managed /\ shown.known = known /\ shown.workspace = ws
        /\ shown.win = told.win /\ shown.notices = told.notices
        /\ shown.mapped /\ shown.state = "MAPPED" /\ shown.ul = "none"
        /\ ~shown.unmap_after /\ shown.pending_unmap = 0
    <2> HIDE DEF known, ws, told, d
    <2> QED
      BY <1>4 DEF Client
  <1>7. /\ hidden.managed /\ hidden.known = known /\ hidden.workspace = ws
        /\ hidden.win = told.win /\ hidden.notices = told.notices
        /\ ~hidden.mapped /\ hidden.state = "UNMAPPED" /\ hidden.ul = "can"
        /\ ~hidden.unmap_after /\ hidden.pending_unmap = n
    <2> HIDE DEF known, ws, told, d, n
    <2> QED
      BY <1>4 DEF Client
  <1> HIDE DEF new, shown, hidden, told, ws
  <1>8. CASE r.win = "gone"
    BY <1>1, <1>3, <1>6, <1>7, <1>8 DEF Answered
  <1>9. CASE viewed
    <2>1. \A x : Has(shown, x) <=> Has(r, x)
      BY <1>3, <1>6, <1>9 DEF Has
    <2> QED
      BY <1>1, <1>3, <1>6, <1>9, <2>1 DEF Answered
  <1>10. CASE r.win = "unmapped"
    <2>1. \A x : Has(hidden, x) <=> Has(r, x)
      BY <1>3, <1>7, <1>10 DEF Has
    <2>2. n = 0
      BY <1>10
    <2> HIDE DEF n
    <2> QED
      BY <1>1, <1>3, <1>7, <1>10, <2>1, <2>2 DEF Answered
  <1>11. CASE r.win = "mapped" /\ ~viewed
    <2>1. hidden.notices = Append(r.notices, "unmap") /\ hidden.win = "unmapped" /\ ws # cur
      BY <1>3, <1>7, <1>11
    <2>2. \A x : Has(hidden, x) <=> Has(r, x) \/ x = "unmap"
      BY <2>1, AppendHas DEF Notices
    <2>3. Orderly(hidden.notices)
      BY <1>11, <2>1, OrderlyAppend DEF Has, Notices, Client
    <2>4. n = 1
      BY <1>11
    <2> HIDE DEF n
    <2> QED
      BY <1>1, <1>7, <1>11, <2>1, <2>2, <2>3, <2>4 DEF Answered
  <1> QED
    BY <1>8, <1>9, <1>10, <1>11 DEF Client

(* A record of the invariant.                                              *)
Right(r, cur, dock) ==
  Good(r, cur, dock) /\ Marked(r) /\ Answered(r, cur, dock) /\ ComesBack(r, cur)

LEMMA RightIs ==
  ASSUME NEW r, NEW cur, NEW dock, Right(r, cur, dock)
  PROVE  /\ r \in Client /\ History(r) /\ Marked(r)
         /\ Answered(r, cur, dock) /\ ComesBack(r, cur)
         /\ r.managed => Core(r)
  BY GoodIsCore DEF Right, Good, Inductive

LEMMA MapRequestAnswered ==
  ASSUME NEW r, NEW cur \in Workspaces, NEW dock, Right(r, cur, dock),
         r.notices # <<>>, Head(r.notices) = "request"
  PROVE  /\ Answered(HandleMapRequest(Read(r), cur), cur, dock)
         /\ ComesBack(HandleMapRequest(Read(r), cur), cur)
  <1>0. /\ r \in Client /\ History(r) /\ Answered(r, cur, dock) /\ ComesBack(r, cur)
        /\ r.managed => Core(r)
    BY RightIs
  <1> SUFFICES ASSUME NEW q, q = Read(r)
               PROVE  /\ Answered(HandleMapRequest(q, cur), cur, dock)
                      /\ ComesBack(HandleMapRequest(q, cur), cur)
    OBVIOUS
  <1>1. /\ q \in Client /\ SameFlags(q, r) /\ q.win = r.win /\ q.state = r.state
        /\ q.pending_unmap = r.pending_unmap /\ q.notices = Tail(r.notices)
    BY <1>0, ReadIs
  <1>2. /\ History(q)
        /\ q.win = "gone" => Has(q, "destroy")
    BY <1>0, <1>1, ReadProperties
  <1>3. \A x : x # "request" => (Has(q, x) <=> Has(r, x))
    BY <1>0, <1>1, TailHas
  <1>4. q.win # "gone" => Orderly(q.notices)
    BY <1>0, <1>1, OrderlyTail DEF Answered, Client
  <1>5. Answered(q, cur, dock) /\ ComesBack(q, cur)
    BY <1>0, <1>1, <1>3, <1>4 DEF Answered, ComesBack, SameFlags, SameMarks
  <1>6. CASE q.managed
    <2>1. HandleMapRequest(q, cur) = q \/ HandleMapRequest(q, cur) = MapClient(q)
      BY <1>6 DEF HandleMapRequest
    <2>2. Core(q)
      BY <1>0, <1>1, <1>2, <1>3, <1>6
         DEF Core, Lag, Flags, IsInPlace, SameFlags, SameMarks
    <2> QED
      BY <1>5, <2>1, <2>2, MapClientAnswered
  <1>7. CASE ~q.managed
    <2> DEFINE n == StartManage(q, cur)
    <2>1. HandleMapRequest(q, cur) = MapClient(n)
      BY <1>7 DEF HandleMapRequest
    <2>2. Core(n) /\ Answered(n, cur, dock)
      BY <1>1, <1>2, <1>5, <1>7, StartManageCore, StartManageAnswered DEF Answered
    <2> HIDE DEF n
    <2> QED
      BY <2>1, <2>2, MapClientAnswered
  <1> QED
    BY <1>6, <1>7

(* The notice is the one unmap the client has pending, so the window stays  *)
(* managed; and it comes back if it is of the current workspace and not    *)
(* the user who unmapped it.                                               *)
LEMMA UnmapHandledAnswered ==
  ASSUME NEW q \in Client, NEW cur, NEW dock, q.managed, IsInPlace(q), q.win # "gone",
         q.known, q.pending_unmap = 1, Orderly(q.notices),
         ~Has(q, "synthetic"), ~Has(q, "destroy"), ~Has(q, "unmap"),
         q.unmap_after => dock \/ q.workspace # cur,
         q.workspace = cur => q.future_stay \/ q.map_after \/ Has(q, "map"),
         History(q), q.workspace \in Workspaces, q.win = "mapped" => Has(q, "map")
  PROVE  /\ Answered(HandleUnmapNotify(q), cur, dock)
         /\ ComesBack(HandleUnmapNotify(q), cur)
  <1>1. PICK u \in {"can", "stay"} : u = IF q.future_stay THEN "stay" ELSE "can"
    OBVIOUS
  <1>2. PICK k : k = [q EXCEPT !.state = "UNMAPPED", !.mapped = FALSE,
                               !.pending_unmap = 0, !.ul = u]
    OBVIOUS
  <1> DEFINE h == MapClient(k)
             e == [h EXCEPT !.map_after = FALSE]
  <1>3. k = [q EXCEPT !.state = "UNMAPPED", !.mapped = FALSE,
                      !.pending_unmap = @ - 1, !.ul = IntoUnmappedList(q)]
    BY <1>1, <1>2 DEF IntoUnmappedList
  <1>4. /\ k \in Client /\ SameWindow(k, q) /\ SameMarks(k, q) /\ k.ul = u
        /\ ~k.mapped /\ k.state = "UNMAPPED" /\ k.pending_unmap = 0
    BY <1>2 DEF Client, States, SameWindow, SameMarks
  <1>5. HandleUnmapNotify(q) = IF q.map_after THEN e ELSE k
    BY <1>3, <1>4 DEF HandleUnmapNotify, SameMarks
  <1>6. (\A x : Has(k, x) <=> Has(q, x)) /\ k.notices = q.notices /\ k.win = q.win
    BY <1>4 DEF SameWindow, Has
  <1>7. Answered(k, cur, dock)
    BY <1>1, <1>4, <1>6 DEF Answered, SameMarks
  <1>8. Core(k)
    <2>1. History(k)
      BY <1>6 DEF History
    <2>2. Lag(k) /\ Flags(k)
      BY <1>1, <1>4, <1>6 DEF Lag, Flags
    <2> QED
      BY <1>4, <2>1, <2>2 DEF Core, SameMarks, IsInPlace
  <1>9. CASE ~q.map_after
    <2>1. ComesBack(k, cur)
      BY <1>1, <1>4, <1>6, <1>9 DEF ComesBack, SameMarks
    <2> QED
      BY <1>5, <1>7, <1>9, <2>1
  <1>10. CASE q.map_after
    <2>1. Answered(h, cur, dock) /\ ComesBack(h, cur) /\ h \in Client
      BY <1>4, <1>7, <1>8, MapClientAnswered, MapClientIs
    <2>2. h.state # "UNMAP_PENDING"
      BY <1>4, MapClientIs
    <2> HIDE DEF h
    <2>3. /\ e.win = h.win /\ e.notices = h.notices /\ e.managed = h.managed
          /\ e.known = h.known /\ e.pending_unmap = h.pending_unmap
          /\ e.mapped = h.mapped /\ e.state = h.state /\ e.ul = h.ul
          /\ e.unmap_after = h.unmap_after /\ e.workspace = h.workspace
      BY <2>1 DEF Client
    <2> HIDE DEF e
    <2>4. Answered(e, cur, dock) /\ ComesBack(e, cur)
      BY <2>1, <2>2, <2>3 DEF Answered, ComesBack, Has
    <2> QED
      BY <1>5, <1>10, <2>4 DEF e
  <1> QED
    BY <1>9, <1>10

LEMMA UnmapNotifyAnswered ==
  ASSUME NEW r, NEW cur \in Workspaces, NEW dock, Right(r, cur, dock),
         r.notices # <<>>, Head(r.notices) \in {"unmap", "synthetic"}
  PROVE  /\ Answered(HandleUnmapNotify(Read(r)), cur, dock)
         /\ ComesBack(HandleUnmapNotify(Read(r)), cur)
  <1>0. /\ r \in Client /\ History(r) /\ Answered(r, cur, dock) /\ ComesBack(r, cur)
        /\ r.managed => Core(r)
        /\ Marked(r)
    BY RightIs
  <1> SUFFICES ASSUME NEW q, q = Read(r)
               PROVE  /\ Answered(HandleUnmapNotify(q), cur, dock)
                      /\ ComesBack(HandleUnmapNotify(q), cur)
    OBVIOUS
  <1>1. /\ q \in Client /\ SameFlags(q, r) /\ q.win = r.win /\ q.state = r.state
        /\ q.pending_unmap = r.pending_unmap /\ q.notices = Tail(r.notices)
    BY <1>0, ReadIs
  <1>2. /\ History(q) /\ (r.win = "mapped" => Has(q, "map"))
    BY <1>0, <1>1, ReadProperties
  <1>3. CASE r.win = "gone"
    <2>1. HandleUnmapNotify(q).win = "gone"
      <3>1. CASE ~q.managed \/ q.pending_unmap = 0
        BY <1>1, <1>3, <3>1, FreshProperties DEF HandleUnmapNotify
      <3>2. CASE q.managed /\ q.pending_unmap # 0
        <4>0. PICK p \in Nat : p = q.pending_unmap - 1
          <5>1. q.pending_unmap \in Nat
            BY <1>1 DEF Client
          <5> QED
            BY <3>2, <5>1
        <4>1. PICK u \in {"none", "can", "stay"} : u = IntoUnmappedList(q)
          BY <1>1 DEF IntoUnmappedList, Client
        <4>2. PICK k : k = [q EXCEPT !.state = "UNMAPPED", !.mapped = FALSE,
                                     !.pending_unmap = p, !.ul = u]
          OBVIOUS
        <4> DEFINE h == MapClient(k)
        <4>3. k \in Client
          BY <1>1, <4>2, UnmappedIs
        <4>4. SameWindow(k, q)
          BY <1>1, <4>2, UnmappedIs
        <4>5. h \in Client /\ h.win = "gone"
          BY <1>1, <1>3, <4>3, <4>4, MapClientIs DEF SameWindow
        <4>6. \/ HandleUnmapNotify(q) = k
              \/ HandleUnmapNotify(q) = [h EXCEPT !.map_after = FALSE]
          BY <3>2, <4>0, <4>1, <4>2 DEF HandleUnmapNotify
        <4> HIDE DEF h
        <4>7. [h EXCEPT !.map_after = FALSE].win = "gone"
          BY <4>5 DEF Client
        <4> QED
          BY <1>1, <1>3, <4>4, <4>6, <4>7 DEF SameWindow
      <3> QED
        BY <3>1, <3>2
    <2> QED
      BY <2>1 DEF Answered, ComesBack
  <1>4. CASE r.win # "gone"
    <2>1. /\ \A x : Has(q, x) => Has(r, x)
          /\ Has(r, Head(r.notices))
          /\ \A x : Has(r, x) /\ x # Head(r.notices) => Has(q, x)
      BY <1>0, <1>1, TailHas
    <2>2. Has(r, "unmap") /\ r.managed /\ Head(r.notices) = "unmap"
      BY <1>0, <1>4, <2>1 DEF Answered
    <2>3. Orderly(q.notices) /\ ~Has(q, "unmap")
      BY <1>0, <1>1, <1>4, <2>2, OrderlyTail DEF Answered, Client, Has
    <2>4. /\ q.managed /\ IsInPlace(q) /\ q.known /\ q.pending_unmap = 1
          /\ q.workspace \in Workspaces
      BY <1>0, <1>1, <1>4, <2>2 DEF Answered, Core, IsInPlace, SameFlags, SameMarks
    <2>5. q.unmap_after => dock \/ q.workspace # cur
      BY <1>0, <1>1, <1>4, <2>2 DEF Answered, SameFlags, SameMarks
    <2>6. ASSUME q.workspace = cur PROVE q.future_stay \/ q.map_after \/ Has(q, "map")
      <3>1. r.state \in States /\ r.ul \in {"none", "can", "stay"}
        BY <1>0 DEF Client
      <3>2. CASE r.state = "UNMAP_PENDING"
        BY <1>0, <1>1, <1>4, <2>2, <2>6, <3>2 DEF Answered, SameFlags, SameMarks
      <3>3. CASE r.state = "MAPPED"
        BY <1>0, <1>4, <2>2, <3>3 DEF Answered
      <3>4. CASE r.state \in {"UNMAPPED", "MAP_PENDING"}
        <4>1. r.ul # "none"
          BY <1>0, <2>2, <3>4 DEF Core, Flags
        <4>2. r.ul = "stay" => q.future_stay
          BY <1>0, <1>1 DEF Marked, SameFlags, SameMarks
        <4>3. r.ul = "can" => Has(r, "map")
          BY <1>0, <1>1, <1>4, <2>2, <2>6 DEF ComesBack, SameFlags, SameMarks
        <4> QED
          BY <2>1, <2>2, <3>1, <4>1, <4>2, <4>3
      <3> QED
        BY <3>1, <3>2, <3>3, <3>4 DEF States
    <2>7. ~Has(q, "synthetic") /\ ~Has(q, "destroy")
      BY <1>0, <1>4, <2>1 DEF Answered
    <2> QED
      BY <1>1, <1>2, <1>4, <2>3, <2>4, <2>5, <2>6, <2>7, UnmapHandledAnswered
  <1> QED
    BY <1>3, <1>4

LEMMA MapHandledAnswered ==
  ASSUME NEW q \in Client, NEW cur, NEW dock \in BOOLEAN, q.managed, IsInPlace(q),
         q.win # "gone", q.known, q.pending_unmap = 0, Orderly(q.notices),
         ~Has(q, "synthetic"), ~Has(q, "destroy"), ~Has(q, "unmap"), ~Has(q, "map"),
         q.unmap_after => dock \/ q.workspace # cur,
         History(q), q.workspace \in Workspaces, q.win = "mapped", q.ul # "none"
  PROVE  /\ Answered(HandleMapNotify(q, cur, dock), cur, dock)
         /\ ComesBack(HandleMapNotify(q, cur, dock), cur)
  <1> DEFINE shown == [q EXCEPT !.mapped = TRUE, !.state = "MAPPED",
                                !.ul = OutOfUnmappedList(q), !.from_switch = FALSE]
             away  == [shown EXCEPT !.unmap_after = FALSE, !.from_switch = TRUE]
  <1>1. /\ shown \in Client /\ SameWindow(shown, q) /\ shown.ul = "none"
        /\ shown.mapped /\ shown.state = "MAPPED" /\ shown.pending_unmap = 0
        /\ shown.managed /\ shown.known /\ shown.workspace = q.workspace
        /\ shown.place = q.place /\ shown.unmap_after = q.unmap_after
    BY DEF Client, States, OutOfUnmappedList, SameWindow
  <1>2. HandleMapNotify(q, cur, dock) =
          IF dock /\ q.ul # "none" THEN shown
          ELSE IF shown.workspace # cur \/ shown.unmap_after THEN UnmapClient(away)
          ELSE shown
    BY <1>1 DEF HandleMapNotify
  <1> HIDE DEF shown
  <1>3. /\ away \in Client /\ SameWindow(away, q) /\ away.ul = "none"
        /\ away.mapped /\ away.state = "MAPPED" /\ away.pending_unmap = 0
        /\ away.managed /\ away.known /\ away.workspace = q.workspace
        /\ away.place = q.place /\ ~away.unmap_after /\ away.from_switch
    BY <1>1 DEF Client, SameWindow
  <1> HIDE DEF away
  <1>4. ASSUME NEW a \in {shown, away}, a.unmap_after => dock
        PROVE  Answered(a, cur, dock) /\ ComesBack(a, cur)
    <2>1. /\ a.notices = q.notices /\ a.win = q.win /\ a.ul = "none"
          /\ a.mapped /\ a.state = "MAPPED" /\ a.pending_unmap = 0
          /\ a.managed /\ a.known
      BY <1>1, <1>3 DEF SameWindow
    <2>2. \A x : Has(a, x) <=> Has(q, x)
      BY <2>1 DEF Has
    <2> QED
      BY <1>4, <2>1, <2>2 DEF Answered, ComesBack
  <1>5. CASE HandleMapNotify(q, cur, dock) = shown /\ (shown.unmap_after => dock)
    BY <1>4, <1>5
  <1>6. CASE HandleMapNotify(q, cur, dock) = UnmapClient(away) /\ q.workspace # cur
    <2>1. Answered(away, cur, dock) /\ ComesBack(away, cur)
      BY <1>3, <1>4
    <2>2. away.notices = q.notices /\ away.win = q.win
      BY <1>3 DEF SameWindow
    <2>3. History(away) /\ Lag(away) /\ Flags(away)
      BY <1>3, <2>2 DEF History, Lag, Flags
    <2>4. Core(away)
      BY <1>3, <2>3 DEF Core, IsInPlace
    <2> QED
      BY <1>3, <1>6, <2>1, <2>4, UnmapClientAnswered
  <1> QED
    BY <1>1, <1>2, <1>5, <1>6

LEMMA MapNotifyAnswered ==
  ASSUME NEW r, NEW cur \in Workspaces, NEW dock \in BOOLEAN, Right(r, cur, dock),
         r.notices # <<>>, Head(r.notices) = "map",
         NEW flag \in BOOLEAN, r.managed /\ r.known => flag = dock
  PROVE  /\ Answered(HandleMapNotify(Read(r), cur, flag), cur, dock)
         /\ ComesBack(HandleMapNotify(Read(r), cur, flag), cur)
  <1>0. /\ r \in Client /\ History(r) /\ Answered(r, cur, dock) /\ ComesBack(r, cur)
        /\ r.managed => Core(r)
    BY RightIs
  <1> SUFFICES ASSUME NEW q, q = Read(r)
               PROVE  /\ Answered(HandleMapNotify(q, cur, flag), cur, dock)
                      /\ ComesBack(HandleMapNotify(q, cur, flag), cur)
    OBVIOUS
  <1>1. /\ q \in Client /\ SameFlags(q, r) /\ q.win = r.win /\ q.state = r.state
        /\ q.pending_unmap = r.pending_unmap /\ q.notices = Tail(r.notices)
    BY <1>0, ReadIs
  <1>2. /\ History(q) /\ (r.win # "mapped" => Has(q, "unmap"))
    BY <1>0, <1>1, ReadProperties
  <1>3. CASE r.win = "gone"
    <2> DEFINE shown == [q EXCEPT !.mapped = TRUE, !.state = "MAPPED",
                                  !.ul = OutOfUnmappedList(q), !.from_switch = FALSE]
               away  == [shown EXCEPT !.unmap_after = FALSE, !.from_switch = TRUE]
    <2>0. PICK u \in {"none", "can", "stay"} : u = OutOfUnmappedList(q)
      BY <1>1 DEF OutOfUnmappedList, Client
    <2>1. shown \in Client /\ shown.win = "gone"
      BY ZenonT(60), <1>1, <1>3, <2>0 DEF Client, States
    <2>2. HandleMapNotify(q, cur, flag) \in {q, shown, UnmapClient(away)}
      BY DEF HandleMapNotify
    <2> HIDE DEF shown
    <2>3. away \in Client /\ away.win = "gone"
      BY <2>1 DEF Client
    <2> HIDE DEF away
    <2>4. UnmapClient(away).win = "gone"
      BY <2>3, UnmapClientIs DEF SameWindow
    <2> QED
      BY <1>1, <1>3, <2>1, <2>2, <2>4 DEF Answered, ComesBack
  <1>4. CASE r.win # "gone"
    <2>1. /\ \A x : Has(q, x) => Has(r, x)
          /\ Has(r, "map")
          /\ \A x : Has(r, x) /\ x # "map" => Has(q, x)
      BY <1>0, <1>1, TailHas
    <2>2. r.managed /\ r.known /\ ~r.mapped
      BY <1>0, <1>4, <2>1 DEF Answered
    <2>3. Orderly(q.notices) /\ ~Has(q, "unmap") /\ ~Has(q, "map")
      BY <1>0, <1>1, <1>4, OrderlyTail DEF Answered, Client, Has
    <2>4. /\ q.managed /\ IsInPlace(q) /\ q.known /\ q.ul # "none"
          /\ q.workspace \in Workspaces
      BY <1>0, <1>1, <1>4, <2>2 DEF Core, Flags, IsInPlace, SameFlags, SameMarks
    <2>5. ~Has(r, "unmap")
      BY <2>1, <2>3
    <2>6. q.pending_unmap = 0
      BY <1>0, <1>1, <1>4, <2>2, <2>5 DEF Answered
    <2>7. q.unmap_after => dock \/ q.workspace # cur
      BY <1>0, <1>1, <1>4, <2>2 DEF Answered, SameFlags, SameMarks
    <2>8. ~Has(q, "synthetic") /\ ~Has(q, "destroy")
      BY <1>0, <1>4, <2>1 DEF Answered
    <2>9. q.win = "mapped" /\ flag = dock
      BY <1>1, <1>2, <2>2, <2>3
    <2> QED
      BY <1>1, <1>2, <1>4, <2>3, <2>4, <2>6, <2>7, <2>8, <2>9, MapHandledAnswered
  <1> QED
    BY <1>3, <1>4

LEMMA DestroyNotifyAnswered ==
  ASSUME NEW r, NEW cur \in Workspaces, NEW dock, Right(r, cur, dock),
         r.notices # <<>>, Head(r.notices) = "destroy"
  PROVE  /\ Answered(HandleDestroyNotify(Read(r)), cur, dock)
         /\ ComesBack(HandleDestroyNotify(Read(r)), cur)
  <1>0. r \in Client /\ Answered(r, cur, dock)
    BY RightIs
  <1>1. Has(r, "destroy") /\ Read(r) \in Client /\ Read(r).win = r.win
    BY <1>0, TailHas, ReadIs
  <1>2. r.win = "gone"
    BY <1>0, <1>1 DEF Answered
  <1>3. HandleDestroyNotify(Read(r)).win = "gone"
    BY <1>1, <1>2, FreshProperties DEF HandleDestroyNotify
  <1> QED
    BY <1>3 DEF Answered, ComesBack

-----------------------------------------------------------------------------
(* Switches, keys and the restart. *)

LEMMA LeaveAnswered ==
  ASSUME NEW r, Core(r), NEW cur, NEW dock, Answered(r, cur, dock), r.workspace = cur,
         NEW w, w # cur
  PROVE  Answered(Leave(r), w, dock) /\ ComesBack(Leave(r), w)
  <1> DEFINE a == [r EXCEPT !.from_switch = TRUE, !.map_after = FALSE]
             b == [r EXCEPT !.from_switch = TRUE, !.unmap_after = TRUE]
             d == [r EXCEPT !.from_switch = TRUE]
  <1>0. r \in Client /\ r.managed /\ Flags(r)
    BY DEF Core
  <1>1. /\ \A x \in {a, b, d} :
             /\ SameBut(x, r) /\ x.pending_unmap = r.pending_unmap /\ x.from_switch
             /\ x.known = r.known /\ x.future_stay = r.future_stay
        /\ a.unmap_after = r.unmap_after /\ d.unmap_after = r.unmap_after
    <2>1. /\ SameBut(a, r) /\ a.pending_unmap = r.pending_unmap /\ a.from_switch
          /\ a.known = r.known /\ a.future_stay = r.future_stay
          /\ a.unmap_after = r.unmap_after
      BY <1>0 DEF Client, SameBut
    <2>2. /\ SameBut(b, r) /\ b.pending_unmap = r.pending_unmap /\ b.from_switch
          /\ b.known = r.known /\ b.future_stay = r.future_stay
      BY <1>0 DEF Client, SameBut
    <2>3. /\ SameBut(d, r) /\ d.pending_unmap = r.pending_unmap /\ d.from_switch
          /\ d.known = r.known /\ d.future_stay = r.future_stay
          /\ d.unmap_after = r.unmap_after
      BY <1>0 DEF Client, SameBut
    <2> QED
      BY <2>1, <2>2, <2>3
  <1>2. /\ r.ul = "none" => Leave(r) = UnmapClient(a)
        /\ r.ul # "none" => Leave(r) \in {b, d}
    BY <1>0, LeaveIs
  <1> HIDE DEF a, b, d
  <1>3. ASSUME NEW x \in {a, b, d}, x.win # "gone" /\ x.unmap_after => dock \/ r.ul # "none"
        PROVE  Answered(x, w, dock) /\ ComesBack(x, w) /\ Core(x)
    <2>1. \A n : Has(x, n) <=> Has(r, n)
      BY <1>1 DEF SameBut, Has
    <2>2. Answered(x, w, dock)
      BY <1>0, <1>1, <1>3, <2>1 DEF Answered, SameBut
    <2>3. ComesBack(x, w)
      BY <1>1 DEF ComesBack, SameBut
    <2> QED
      BY <1>1, <2>2, <2>3, SameButCore
  <1>4. r.win # "gone" /\ r.unmap_after => dock
    BY <1>0 DEF Answered
  <1> QED
    BY <1>1, <1>2, <1>3, <1>4, UnmapClientAnswered DEF SameBut

LEMMA EnterAnswered ==
  ASSUME NEW r, Core(r), NEW cur, NEW dock, Answered(r, cur, dock), NEW w
  PROVE  Answered(Enter(r), w, dock) /\ ComesBack(Enter(r), w)
  <1> DEFINE a == [r EXCEPT !.unmap_after = FALSE]
             b == [r EXCEPT !.map_after = TRUE]
  <1>0. r \in Client /\ r.managed /\ Flags(r)
    BY DEF Core
  <1>1. /\ SameBut(a, r) /\ a.pending_unmap = r.pending_unmap
        /\ a.known = r.known /\ ~a.unmap_after
    BY <1>0 DEF Client, SameBut
  <1>2. /\ SameBut(b, r) /\ b.pending_unmap = r.pending_unmap
        /\ b.known = r.known /\ b.unmap_after = r.unmap_after /\ b.map_after
        /\ b.future_stay = r.future_stay /\ b.from_switch = r.from_switch
    BY <1>0 DEF Client, SameBut
  <1>3. /\ r.ul # "none" => Enter(r) = MapClient(a)
        /\ r.ul = "none" /\ r.state = "UNMAP_PENDING" /\ r.from_switch => Enter(r) = b
        /\ r.ul = "none" /\ ~(r.state = "UNMAP_PENDING" /\ r.from_switch) => Enter(r) = r
    BY <1>0, EnterIs
  <1> HIDE DEF a, b
  <1>4. CASE r.ul # "none"
    <2>1. \A n : Has(a, n) <=> Has(r, n)
      BY <1>1 DEF SameBut, Has
    <2>2. a.state # "UNMAP_PENDING"
      BY <1>0, <1>1, <1>4 DEF SameBut, Flags
    <2>3. Answered(a, w, dock)
      BY <1>0, <1>1, <2>1, <2>2 DEF Answered, SameBut
    <2> QED
      BY <1>1, <1>3, <1>4, <2>3, SameButCore, MapClientAnswered
  <1>5. CASE r.ul = "none" /\ r.state = "UNMAP_PENDING" /\ r.from_switch
    <2>1. \A n : Has(b, n) <=> Has(r, n)
      BY <1>2 DEF SameBut, Has
    <2>2. Answered(b, w, dock)
      BY <1>0, <1>2, <1>5, <2>1 DEF Answered, SameBut
    <2> QED
      BY <1>2, <1>3, <1>5, <2>2 DEF ComesBack, SameBut
  <1>6. CASE r.ul = "none" /\ ~(r.state = "UNMAP_PENDING" /\ r.from_switch)
    <2>1. Answered(r, w, dock)
      BY <1>0, <1>6 DEF Answered
    <2> QED
      BY <1>3, <1>6, <2>1 DEF ComesBack
  <1> QED
    BY <1>4, <1>5, <1>6

LEMMA AdoptAnswered ==
  ASSUME NEW r \in Client, NEW cur \in Workspaces, NEW dock
  PROVE  Answered(Adopt(r, cur), cur, dock) /\ ComesBack(Adopt(r, cur), cur)
  <1> DEFINE quiet == [r EXCEPT !.notices = <<>>]
             old   == Fresh(quiet)
             new   == StartManage(old, cur)
  <1>1. quiet \in Client /\ quiet.notices = <<>> /\ quiet.win = r.win
    <2>0. <<>> \in Seq(Notices)
      OBVIOUS
    <2>1. PICK t \in Seq(Notices) : t = <<>>
      BY <2>0, Zenon
    <2>2. quiet = [r EXCEPT !.notices = t]
      BY <2>1
    <2>3. quiet \in Client /\ quiet.notices = t /\ quiet.win = r.win
      BY <2>2 DEF Client
    <2> QED
      BY <2>1, <2>3
  <1>2. History(quiet)
    BY <1>1 DEF History, FollowedBy
  <1>3. /\ old \in Client /\ History(old) /\ old.win = r.win /\ old.notices = <<>>
        /\ ~old.managed
    BY <1>1, <1>2, FreshProperties
  <1>4. Adopt(r, cur) =
          IF r.win = "gone" \/ (r.win = "unmapped" /\ r.desktop \notin Workspaces)
            THEN old
            ELSE IF new.workspace = cur /\ new.ul # "none" THEN MapClient(new)
                                                           ELSE new
    BY DEF Adopt
  <1> HIDE DEF old, quiet
  <1>5. (\A x : ~Has(old, x)) /\ Orderly(old.notices)
    BY <1>3 DEF Has, Orderly
  <1>6. CASE r.win = "gone"
    BY <1>3, <1>4, <1>6 DEF Answered, ComesBack
  <1>7. CASE r.win = "unmapped" /\ r.desktop \notin Workspaces
    BY <1>3, <1>4, <1>5, <1>7 DEF Answered, ComesBack
  <1>8. CASE ~(r.win = "gone" \/ (r.win = "unmapped" /\ r.desktop \notin Workspaces))
    <2>1. Core(new) /\ Answered(new, cur, dock)
      BY <1>3, <1>5, <1>8, StartManageCore, StartManageAnswered
    <2> HIDE DEF new
    <2>2. Answered(MapClient(new), cur, dock) /\ ComesBack(MapClient(new), cur)
      BY <2>1, MapClientAnswered
    <2>3. new.workspace # cur \/ new.ul = "none" => ComesBack(new, cur)
      BY DEF ComesBack
    <2> QED
      BY <1>4, <1>8, <2>1, <2>2, <2>3
  <1> QED
    BY <1>6, <1>7, <1>8

(* A client asks for its window, or destroys it.                           *)
LEMMA RequestAnswered ==
  ASSUME NEW r, NEW cur, NEW dock, Right(r, cur, dock)
  PROVE  LET q == [r EXCEPT !.notices = Append(r.notices, "request")]
         IN  Answered(q, cur, dock) /\ ComesBack(q, cur)
  <1> DEFINE q == [r EXCEPT !.notices = Append(r.notices, "request")]
  <1>0. r \in Client /\ Answered(r, cur, dock) /\ ComesBack(r, cur)
    BY RightIs
  <1>1. /\ SameFlags(q, r) /\ q.win = r.win /\ q.state = r.state
        /\ q.pending_unmap = r.pending_unmap /\ q.notices = Append(r.notices, "request")
    BY <1>0 DEF Client, SameFlags, SameMarks
  <1> HIDE DEF q
  <1>2. \A x : Has(q, x) <=> Has(r, x) \/ x = "request"
    BY <1>0, <1>1, AppendHas DEF Notices
  <1>3. r.win # "gone" => Orderly(q.notices)
    BY <1>0, <1>1, OrderlyAppend DEF Answered, Notices, Client
  <1>4. Answered(q, cur, dock) /\ ComesBack(q, cur)
    BY <1>0, <1>1, <1>2, <1>3 DEF Answered, ComesBack, SameFlags, SameMarks
  <1> QED
    BY <1>4 DEF q

LEMMA StayAnswered ==
  ASSUME NEW r, NEW cur, NEW dock, Right(r, cur, dock), r.managed
  PROVE  LET q == UnmapClient([r EXCEPT !.future_stay = TRUE])
         IN  Answered(q, cur, dock) /\ ComesBack(q, cur)
  <1> DEFINE q == [r EXCEPT !.future_stay = TRUE]
  <1>0. r \in Client /\ Answered(r, cur, dock) /\ ComesBack(r, cur) /\ Core(r)
    BY RightIs
  <1>1. /\ SameBut(q, r) /\ q.pending_unmap = r.pending_unmap /\ q.future_stay
        /\ q.known = r.known /\ q.unmap_after = r.unmap_after
    BY <1>0 DEF Client, SameBut
  <1> HIDE DEF q
  <1>2. \A n : Has(q, n) <=> Has(r, n)
    BY <1>1 DEF SameBut, Has
  <1>3. Answered(q, cur, dock) /\ ComesBack(q, cur)
    BY <1>0, <1>1, <1>2 DEF Answered, ComesBack, SameBut
  <1>4. Core(q)
    BY <1>0, <1>1, SameButCore
  <1> QED
    BY <1>1, <1>3, <1>4, UnmapClientAnswered DEF q

LEMMA MapAgainAnswered ==
  ASSUME NEW r, NEW cur, NEW dock, Right(r, cur, dock), r.managed, r.ul # "none"
  PROVE  LET q == MapClient([r EXCEPT !.ul = "can", !.future_stay = FALSE])
         IN  Answered(q, cur, dock) /\ ComesBack(q, cur)
  <1> DEFINE q == [r EXCEPT !.ul = "can", !.future_stay = FALSE]
  <1>0. r \in Client /\ Answered(r, cur, dock) /\ ComesBack(r, cur) /\ Core(r)
    BY RightIs
  <1>1. /\ q \in Client /\ q.managed = r.managed /\ q.win = r.win
        /\ q.notices = r.notices /\ q.workspace = r.workspace /\ q.place = r.place
        /\ q.mapped = r.mapped /\ q.state = r.state /\ q.ul = "can"
        /\ q.pending_unmap = r.pending_unmap
        /\ q.known = r.known /\ q.unmap_after = r.unmap_after
    BY <1>0 DEF Client
  <1> HIDE DEF q
  <1>2. \A n : Has(q, n) <=> Has(r, n)
    BY <1>1 DEF Has
  <1>3. q.state # "UNMAP_PENDING"
    BY <1>0, <1>1 DEF Core, Flags
  <1>4. Answered(q, cur, dock)
    BY <1>0, <1>1, <1>2, <1>3 DEF Answered
  <1>5. Core(q)
    BY <1>0, <1>1, <1>2 DEF Core, History, Lag, Flags, IsInPlace
  <1> QED
    BY <1>4, <1>5, MapClientAnswered DEF q

-----------------------------------------------------------------------------
(* The steps, where nobody moves a window, unmaps a whole workspace or     *)
(* withdraws its window.                                                   *)

Promised(r, cur, dock) == Answered(r, cur, dock) /\ ComesBack(r, cur)

AllPromised == \A c \in Clients : Promised(client[c], current, c \in Docks)

LEMMA SetPromised ==
  ASSUME IInv, AllPromised, NEW c \in Clients, NEW q, Set(c, q),
         Promised(q, current, c \in Docks)
  PROVE  AllPromised'
  <1>1. /\ client' = [client EXCEPT ![c] = q] /\ client \in [Clients -> Client]
        /\ current' = current
    BY DEF Set, IInv, TypeOK
  <1>2. client'[c] = q /\ \A d \in Clients : d # c => client'[d] = client[d]
    BY <1>1
  <1>3. ASSUME NEW d \in Clients PROVE Promised(client'[d], current', d \in Docks)
    BY <1>1, <1>2, <1>3 DEF AllPromised
  <1> QED
    BY <1>3 DEF AllPromised

LEMMA NextPromised ==
  ASSUME IInv, StayMarked, AllPromised, [Next]_vars,
         "move" \notin Bindings, "unmap_all" \notin Bindings, "withdraw" \notin ClientOps
  PROVE  AllPromised'
  <1>0. ASSUME NEW c \in Clients
        PROVE  /\ Right(client[c], current, c \in Docks)
               /\ client[c] \in Client
               /\ (client[c].managed => Core(client[c]))
               /\ Promised(client[c], current, c \in Docks)
    <2>1. Right(client[c], current, c \in Docks)
      BY <1>0 DEF IInv, TypeOK, Good, Right, StayMarked, Marked, AllPromised, Promised
    <2> QED
      BY <2>1, RightIs DEF Promised
  <1>c. current \in Workspaces /\ (\A c \in Clients : (c \in Docks) \in BOOLEAN)
    BY DEF IInv, TypeOK
  <1>1. ASSUME NEW c \in Clients, ClientMap(c) PROVE AllPromised'
    <2>1. Set(c, [client[c] EXCEPT !.notices = Append(client[c].notices, "request")])
      BY <1>1 DEF ClientMap
    <2> QED
      BY <1>0, <2>1, RequestAnswered, SetPromised DEF Promised
  <1>2. ASSUME NEW c \in Clients, ClientDestroy(c) PROVE AllPromised'
    <2> DEFINE x == XUnmapWindow(client[c])
               q == [x EXCEPT !.notices = Append(@, "destroy"), !.win = "gone"]
    <2>1. Set(c, q)
      BY <1>2 DEF ClientDestroy
    <2>2. x \in Client
      BY <1>0, XUnmapWindowProperties DEF Right, Good, Inductive
    <2> HIDE DEF x
    <2>3. q.win = "gone"
      BY <2>2 DEF Client
    <2> HIDE DEF q
    <2>4. Promised(q, current, c \in Docks)
      BY <2>3 DEF Promised, Answered, ComesBack
    <2> QED
      BY <2>1, <2>4, SetPromised
  <1>3. ASSUME NEW c \in Clients, Handle(c) PROVE AllPromised'
    <2>1. CASE MapRequest(c)
      BY <1>0, <1>c, <2>1, MapRequestAnswered, SetPromised DEF MapRequest, Reads, Promised
    <2>2. CASE UnmapNotify(c)
      BY <1>0, <1>c, <2>2, UnmapNotifyAnswered, SetPromised
         DEF UnmapNotify, Reads, Promised
    <2>3. CASE MapNotify(c)
      <3>1. /\ IsDock(c) \in BOOLEAN
            /\ client[c].managed /\ client[c].known => IsDock(c) = (c \in Docks)
        BY <1>0 DEF IsDock, Client
      <3>2. Promised(HandleMapNotify(Read(client[c]), current, IsDock(c)),
                     current, c \in Docks)
        BY <1>0, <1>c, <2>3, <3>1, MapNotifyAnswered DEF MapNotify, Reads, Promised
      <3> QED
        BY <2>3, <3>2, SetPromised DEF MapNotify
    <2>4. CASE DestroyNotify(c)
      BY <1>0, <1>c, <2>4, DestroyNotifyAnswered, SetPromised
         DEF DestroyNotify, Reads, Promised
    <2> QED
      BY <1>3, <2>1, <2>2, <2>3, <2>4 DEF Handle
  <1>4. ASSUME NEW w \in Workspaces, SwitchWorkspace(w) PROVE AllPromised'
    <2>0. current' = w /\ w # current
      BY <1>4 DEF SwitchWorkspace
    <2> SUFFICES ASSUME NEW c \in Clients
                 PROVE  Promised(client'[c], w, c \in Docks)
      BY <2>0 DEF AllPromised
    <2> DEFINE r == client[c]
               dock == c \in Docks
    <2>1. client'[c] =
            IF OnCurrent(c) /\ MovesAlong(c)
              THEN Enter([r EXCEPT !.workspace = w, !.place = w])
            ELSE IF OnCurrent(c) THEN Leave(r)
            ELSE IF r.managed /\ r.place = w THEN Enter(r)
            ELSE r
      BY <1>4 DEF SwitchWorkspace
    <2>2. /\ r \in Client /\ (r.managed => Core(r))
          /\ Answered(r, current, dock) /\ ComesBack(r, current)
      BY <1>0 DEF Promised
    <2> HIDE DEF r, dock
    <2>3. CASE OnCurrent(c) /\ MovesAlong(c)
      <3> DEFINE q == [r EXCEPT !.workspace = w, !.place = w]
      <3>1. r.managed /\ r.workspace = current /\ r.ul = "none" /\ Core(r)
        BY <2>2, <2>3 DEF OnCurrent, MovesAlong, InUnmappedList, Core, IsInPlace, r
      <3>2. Core(q)
        BY <3>1, MovedCore
      <3>3. /\ q.managed = r.managed /\ q.win = r.win /\ q.notices = r.notices
            /\ q.workspace = w /\ q.mapped = r.mapped /\ q.state = r.state
            /\ q.ul = r.ul /\ q.known = r.known /\ q.future_stay = r.future_stay
            /\ q.pending_unmap = r.pending_unmap /\ q.from_switch = r.from_switch
            /\ q.unmap_after = r.unmap_after
        BY <2>2 DEF Client
      <3> HIDE DEF q
      <3>4. Answered(q, current, dock)
        BY <2>0, <2>2, <3>1, <3>3 DEF Answered, Has
      <3>5. Answered(Enter(q), w, dock) /\ ComesBack(Enter(q), w)
        BY <3>2, <3>4, EnterAnswered
      <3> QED
        BY <2>1, <2>3, <3>5 DEF Promised, q, dock
    <2>4. CASE OnCurrent(c) /\ ~MovesAlong(c)
      <3>1. Core(r) /\ r.workspace = current
        BY <2>2, <2>4 DEF OnCurrent, Core, IsInPlace, r
      <3>2. Answered(Leave(r), w, dock) /\ ComesBack(Leave(r), w)
        BY <2>0, <2>2, <3>1, LeaveAnswered
      <3> QED
        BY <2>1, <2>4, <3>2 DEF Promised, dock
    <2>5. CASE ~OnCurrent(c) /\ r.managed /\ r.place = w
      BY <2>1, <2>2, <2>5, EnterAnswered DEF Promised, dock
    <2>6. CASE ~OnCurrent(c) /\ ~(r.managed /\ r.place = w)
      <3>1. client'[c] = r
        BY <2>1, <2>6
      <3>2. r.managed => r.workspace # current /\ r.workspace # w
        BY <2>2, <2>6 DEF OnCurrent, Core, IsInPlace, r
      <3> QED
        BY <2>2, <3>1, <3>2 DEF Answered, ComesBack, Promised, dock
    <2> QED
      BY <2>3, <2>4, <2>5, <2>6
  <1>5. ASSUME NEW c \in Clients, UnmapWindow(c) PROVE AllPromised'
    BY <1>0, <1>5, StayAnswered, SetPromised DEF UnmapWindow, FocusMayBe, Promised
  <1>6. ASSUME NEW c \in Clients, MapLatestUnmap(c) PROVE AllPromised'
    BY <1>0, <1>6, MapAgainAnswered, SetPromised DEF MapLatestUnmap, OnCurrent, Promised
  <1>7. CASE MapAll
    <2>0. current' = current
      BY <1>7 DEF MapAll
    <2> SUFFICES ASSUME NEW c \in Clients
                 PROVE  Promised(client'[c], current, c \in Docks)
      BY <2>0 DEF AllPromised
    <2>1. \/ client'[c] = client[c]
          \/ /\ client[c].managed /\ client[c].ul # "none"
             /\ client'[c] = MapClient([client[c] EXCEPT !.ul = "can", !.future_stay = FALSE])
      BY <1>7 DEF MapAll, OnCurrent
    <2> QED
      BY <1>0, <2>1, MapAgainAnswered DEF Promised
  <1>8. CASE Restart
    <2> SUFFICES ASSUME NEW c \in Clients
                 PROVE  Promised(client'[c], current, c \in Docks)
      BY <1>8 DEF AllPromised, Restart
    <2> QED
      BY <1>0, <1>c, <1>8, AdoptAnswered DEF Restart, Promised
  <1>9. CASE UNCHANGED vars
    BY <1>9 DEF vars, AllPromised, Promised, Answered, ComesBack, Has, Orderly
  <1> QED
    BY <1>1, <1>2, <1>3, <1>4, <1>5, <1>6, <1>7, <1>8, <1>9
       DEF Next, ClientWithdraw, MoveToWorkspace, UnmapAll

(* A window of the current workspace that the user has not unmapped is on  *)
(* the screen once its notices are read, whatever switches and restarts    *)
(* crossed them: the flags map_after_unmap_notify and unmap_after_map_notify *)
(* of client.c undo just what is in flight.  Keys that move a window or    *)
(* unmap a workspace, and clients that withdraw, break this in the program *)
(* (Visibility_move.cfg), and are left out.                                *)
THEOREM ShownAgain ==
  ASSUME "move" \notin Bindings, "unmap_all" \notin Bindings, "withdraw" \notin ClientOps
  PROVE  Spec => []SInv /\ []ShownWhenHere
  <1>1. FocusFollows
    BY DEF FocusFollows
  <1>2. Init => AllPromised
    <2> SUFFICES ASSUME Init, NEW c \in Clients
                 PROVE  Promised(client[c], current, c \in Docks)
      BY DEF AllPromised
    <2>1. /\ client[c].win = "unmapped" /\ client[c].notices = <<>>
          /\ ~client[c].managed
      BY DEF Init, NewWindow
    <2> QED
      BY <2>1 DEF Promised, Answered, ComesBack, Has, Orderly
  <1>3. IInv /\ StayMarked /\ AllPromised /\ [Next]_vars => AllPromised'
    BY NextPromised
  <1>4. IInv /\ StayMarked /\ AllPromised => SInv
    BY DEF SInv, AllPromised, Promised
  <1>5. ASSUME IInv, AllPromised PROVE ShownWhenHere
    <2> SUFFICES ASSUME NEW c \in Clients, Settled(c), client[c].workspace = current,
                        client[c].ul # "stay", client[c].win # "mapped"
                 PROVE  FALSE
      BY DEF ShownWhenHere
    <2> DEFINE r == client[c]
    <2>1. r.managed /\ ~Has(r, "map") /\ ~Has(r, "unmap") /\ ~Has(r, "destroy")
      BY DEF Settled, Has
    <2>2. r \in Client /\ Lag(r) /\ Flags(r) /\ ComesBack(r, current)
      BY <1>5, <2>1 DEF IInv, TypeOK, Inductive, AllPromised, Promised
    <2>3. r.win # "gone" /\ ~r.mapped
      BY <2>1, <2>2 DEF Lag
    <2>4. r.ul = "can"
      BY <2>2, <2>3 DEF Flags, Client
    <2> QED
      BY <2>1, <2>2, <2>3, <2>4 DEF ComesBack
  <1> QED
    BY <1>1, <1>2, <1>3, <1>4, <1>5, InvariantAndMarks, PTL DEF Spec

-----------------------------------------------------------------------------
(* Maps and unmaps in turn, where no client withdraws and the manager is   *)
(* not restarted.                                                          *)

LEMMA InTurnAppend ==
  ASSUME NEW s \in Seq(Notices), NEW e \in Notices, InTurn(s),
         e \in {"map", "unmap"} => \A i \in 1..Len(s) : s[i] \notin {"unmap", "destroy"},
         e = "map" => \A i \in 1..Len(s) : s[i] # "map"
  PROVE  InTurn(Append(s, e))
  <1> DEFINE t == Append(s, e)
  <1>1. /\ Len(t) = Len(s) + 1
        /\ Len(s) \in Nat
        /\ t[Len(s) + 1] = e
        /\ \A i \in 1..Len(s) : t[i] = s[i]
    OBVIOUS
  <1> HIDE DEF t
  <1> SUFFICES ASSUME NEW i \in 1..Len(t), NEW j \in 1..Len(t), i < j
               PROVE  /\ t[i] = "map" => t[j] # "map"
                      /\ t[i] = "unmap" => t[j] \notin {"map", "unmap"}
                      /\ t[i] = "destroy" => t[j] \notin {"map", "unmap"}
    BY DEF InTurn, t
  <1>2. i \in 1..Len(s) /\ t[i] = s[i]
    BY <1>1
  <1>3. CASE j \in 1..Len(s)
    <2>1. t[j] = s[j]
      BY <1>1, <1>3
    <2> QED
      BY <1>2, <1>3, <2>1 DEF InTurn
  <1>4. CASE j = Len(s) + 1
    <2>1. t[j] = e
      BY <1>1, <1>4
    <2> QED
      BY <1>2, <2>1
  <1> QED
    BY <1>1, <1>3, <1>4

LEMMA InTurnTail ==
  ASSUME NEW s \in Seq(Notices), s # <<>>, InTurn(s)
  PROVE  /\ InTurn(Tail(s))
         /\ Head(s) \in {"unmap", "destroy"} =>
              \A i \in 1..Len(Tail(s)) : Tail(s)[i] \notin {"map", "unmap"}
         /\ Head(s) = "map" => \A i \in 1..Len(Tail(s)) : Tail(s)[i] # "map"
  <1> DEFINE t == Tail(s)
  <1>1. /\ Head(s) = s[1] /\ Len(s) \in Nat /\ Len(s) > 0
        /\ Len(t) = Len(s) - 1
        /\ \A i \in 1..Len(t) : t[i] = s[i + 1]
    OBVIOUS
  <1> HIDE DEF t
  <1>2. ASSUME NEW i \in 1..Len(t) PROVE t[i] = s[i + 1] /\ i + 1 \in 1..Len(s) /\ 1 < i + 1
    BY <1>1
  <1>3. InTurn(t)
    <2> SUFFICES ASSUME NEW i \in 1..Len(t), NEW j \in 1..Len(t), i < j
                 PROVE  /\ t[i] = "map" => t[j] # "map"
                        /\ t[i] = "unmap" => t[j] \notin {"map", "unmap"}
                        /\ t[i] = "destroy" => t[j] \notin {"map", "unmap"}
      BY DEF InTurn
    <2>1. i + 1 < j + 1
      BY <1>1
    <2> QED
      BY <1>2, <2>1 DEF InTurn
  <1>4. ASSUME NEW i \in 1..Len(t)
        PROVE  /\ Head(s) \in {"unmap", "destroy"} => t[i] \notin {"map", "unmap"}
               /\ Head(s) = "map" => t[i] # "map"
    <2>1. 1 \in 1..Len(s)
      BY <1>1
    <2> QED
      BY <1>1, <1>2, <2>1 DEF InTurn
  <1> QED
    BY <1>3, <1>4 DEF t

(* What Turn speaks of, the notices being the same.                        *)
LEMMA SameTurn ==
  ASSUME NEW r, Turn(r), NEW m, m.notices = r.notices, m.win = r.win,
         m.managed = r.managed, m.state = r.state, m.pending_unmap = r.pending_unmap
  PROVE  Turn(m)
  BY DEF Turn, Has

LEMMA MapClientTurn ==
  ASSUME NEW r \in Client, r.managed, Turn(r), r.state = "MAPPED" => r.mapped
  PROVE  Turn(MapClient(r))
  <1> SUFFICES ASSUME NEW m, m = MapClient(r), m # r
               PROVE  Turn(m)
    OBVIOUS
  <1>1. /\ SameFlags(m, r) /\ m.pending_unmap = r.pending_unmap
        /\ ~IsClientMapped(r) /\ r.state \notin {"MAP_PENDING", "UNMAP_PENDING"}
        /\ m.state = "MAP_PENDING"
        /\ r.win = "unmapped" =>
             m.win = "mapped" /\ m.notices = Append(r.notices, "map")
        /\ r.win # "unmapped" => SameWindow(m, r)
    BY MapClientIs
  <1>2. r.state = "UNMAPPED" /\ ~Has(r, "map") /\ ~Has(r, "unmap")
    BY <1>1 DEF IsClientMapped, Client, States, Turn
  <1>3. CASE r.win # "unmapped"
    <2>1. \A x : Has(m, x) <=> Has(r, x)
      BY <1>1, <1>3 DEF Has, SameWindow
    <2> QED
      BY <1>1, <1>2, <1>3, <2>1 DEF Turn, SameWindow, SameFlags, SameMarks
  <1>4. CASE r.win = "unmapped"
    <2>1. \A x : Has(m, x) <=> Has(r, x) \/ x = "map"
      BY <1>1, <1>4, AppendHas DEF Notices
    <2>2. ~Has(r, "destroy")
      BY <1>4 DEF Turn
    <2>3. InTurn(m.notices)
      BY <1>1, <1>2, <1>4, <2>2, InTurnAppend DEF Has, Notices, Client, Turn
    <2> QED
      BY <1>1, <1>2, <1>4, <2>1, <2>2, <2>3 DEF Turn, SameFlags, SameMarks
  <1> QED
    BY <1>3, <1>4

LEMMA UnmapClientTurn ==
  ASSUME NEW r \in Client, r.managed, Turn(r), r.mapped => r.state # "UNMAPPED"
  PROVE  Turn(UnmapClient(r))
  <1> SUFFICES ASSUME NEW m, m = UnmapClient(r), m # r
               PROVE  Turn(m)
    OBVIOUS
  <1>1. /\ SameFlags(m, r)
        /\ r.mapped /\ r.state \notin {"MAP_PENDING", "UNMAP_PENDING"}
        /\ m.state = "UNMAP_PENDING" /\ m.pending_unmap = r.pending_unmap + 1
        /\ r.win = "mapped" =>
             m.win = "unmapped" /\ m.notices = Append(r.notices, "unmap")
        /\ r.win # "mapped" => SameWindow(m, r)
    BY UnmapClientIs
  <1>2. r.state = "MAPPED" /\ ~Has(r, "map")
    BY <1>1 DEF Client, States, Turn
  <1>0. m.pending_unmap # 0
    <2>1. r.pending_unmap \in Nat
      BY DEF Client
    <2> QED
      BY <1>1, <2>1
  <1>3. CASE r.win # "mapped"
    <2>1. \A x : Has(m, x) <=> Has(r, x)
      BY <1>1, <1>3 DEF Has, SameWindow
    <2> QED
      BY <1>0, <1>1, <1>2, <1>3, <2>1 DEF Turn, SameWindow, SameFlags, SameMarks
  <1>4. CASE r.win = "mapped"
    <2>1. \A x : Has(m, x) <=> Has(r, x) \/ x = "unmap"
      BY <1>1, <1>4, AppendHas DEF Notices
    <2>2. ~Has(r, "destroy") /\ ~Has(r, "unmap")
      BY <1>2, <1>4 DEF Turn
    <2>3. InTurn(m.notices)
      BY <1>1, <1>2, <1>4, <2>2, InTurnAppend DEF Has, Notices, Client, Turn
    <2> QED
      BY <1>0, <1>1, <1>2, <1>4, <2>1, <2>2, <2>3 DEF Turn, SameFlags, SameMarks
  <1> QED
    BY <1>3, <1>4

(* What the handlers find when they have read the notice.                  *)
LEMMA ReadTurn ==
  ASSUME NEW r \in Client, r.notices # <<>>, Turn(r), NEW q, q = Read(r)
  PROVE  /\ q \in Client /\ SameFlags(q, r) /\ q.win = r.win /\ q.state = r.state
         /\ q.pending_unmap = r.pending_unmap
         /\ InTurn(q.notices) /\ ~Has(q, "synthetic")
         /\ \A x : Has(q, x) => Has(r, x)
         /\ \A x : Has(r, x) /\ x # Head(r.notices) => Has(q, x)
         /\ Has(r, Head(r.notices))
         /\ Head(r.notices) \in {"unmap", "destroy"} => ~Has(q, "map") /\ ~Has(q, "unmap")
         /\ Head(r.notices) = "map" => ~Has(q, "map")
  <1>1. /\ q \in Client /\ SameFlags(q, r) /\ q.win = r.win /\ q.state = r.state
        /\ q.pending_unmap = r.pending_unmap /\ q.notices = Tail(r.notices)
    BY ReadIs
  <1>2. /\ \A x : Has(q, x) => Has(r, x)
        /\ Has(r, Head(r.notices))
        /\ \A x : Has(r, x) /\ x # Head(r.notices) => Has(q, x)
    BY <1>1, TailHas
  <1>3. r.notices \in Seq(Notices) /\ InTurn(r.notices)
    BY DEF Client, Turn
  <1>4. /\ InTurn(q.notices)
        /\ Head(r.notices) \in {"unmap", "destroy"} => ~Has(q, "map") /\ ~Has(q, "unmap")
        /\ Head(r.notices) = "map" => ~Has(q, "map")
    BY <1>1, <1>3, InTurnTail DEF Has
  <1>5. ~Has(q, "synthetic")
    BY <1>2 DEF Turn
  <1> QED
    BY <1>1, <1>2, <1>4, <1>5

LEMMA MapRequestTurn ==
  ASSUME NEW r, NEW cur \in Workspaces, NEW dock, Good(r, cur, dock), Turn(r),
         r.notices # <<>>, Head(r.notices) = "request"
  PROVE  Turn(HandleMapRequest(Read(r), cur))
  <1> SUFFICES ASSUME NEW q, q = Read(r) PROVE Turn(HandleMapRequest(q, cur))
    OBVIOUS
  <1>0. r \in Client /\ History(r)
    BY DEF Good, Inductive
  <1>1. /\ q \in Client /\ SameFlags(q, r) /\ q.win = r.win /\ q.state = r.state
        /\ q.pending_unmap = r.pending_unmap
        /\ InTurn(q.notices) /\ ~Has(q, "synthetic")
        /\ \A x : x # "request" => (Has(q, x) <=> Has(r, x))
    BY <1>0, ReadTurn
  <1>2. Turn(q)
    BY <1>1 DEF Turn, SameFlags, SameMarks
  <1>3. CASE q.managed
    <2>1. q.state = "MAPPED" => q.mapped
      BY <1>1, <1>3 DEF Good, Inductive, Flags, SameFlags, SameMarks
    <2> QED
      BY <1>1, <1>2, <1>3, <2>1, MapClientTurn DEF HandleMapRequest
  <1>4. CASE ~q.managed
    <2> DEFINE n == StartManage(q, cur)
    <2>1. HandleMapRequest(q, cur) = MapClient(n)
      BY <1>4 DEF HandleMapRequest
    <2>2. n \in Client /\ n.managed
      <3>1. History(q) /\ (q.win = "gone" => Has(q, "destroy"))
        BY <1>0, <1>1, ReadProperties
      <3> QED
        BY <1>1, <3>1, StartManageCore DEF Core
    <2>3. /\ n.win = q.win /\ n.notices = q.notices /\ n.state = "UNMAPPED"
      <3> DEFINE known == q.win # "gone"
                 ws    == IF known /\ q.desktop \in Workspaces THEN q.desktop ELSE cur
                 told  == IF ws = cur THEN q ELSE XUnmapWindow(q)
                 f     == Fresh(q)
                 d     == IF f.desktop = NoWorkspace THEN ws ELSE f.desktop
                 new   == [f EXCEPT !.managed = TRUE, !.known = known, !.workspace = ws,
                                    !.place = ws, !.desktop = d]
      <3>1. q.win # "mapped"
        BY <1>2, <1>4 DEF Turn
      <3>2. told = q
        BY <3>1 DEF XUnmapWindow
      <3>3. n = [new EXCEPT !.ul = "can", !.pending_unmap = 0]
        BY <3>1, <3>2 DEF StartManage
      <3>4. f \in Client /\ f.win = q.win /\ f.notices = q.notices /\ f.state = "UNMAPPED"
        BY <1>1, FreshProperties
      <3> HIDE DEF f, ws, known, d, n
      <3> QED
        BY <3>3, <3>4 DEF Client
    <2> HIDE DEF n
    <2>4. \A x : Has(n, x) <=> Has(q, x)
      BY <2>3 DEF Has
    <2>5. Turn(n)
      BY <1>2, <1>4, <2>2, <2>3, <2>4 DEF Turn
    <2> QED
      BY <2>1, <2>2, <2>3, <2>5, MapClientTurn
  <1> QED
    BY <1>3, <1>4

(* An unmap is read of a client that is in a list it is shown from, and a  *)
(* client is taken for one that has withdrawn only when its window is gone.*)
LEMMA UnmapIsOfMapped ==
  ASSUME NEW r, NEW cur, NEW dock, Good(r, cur, dock), Turn(r), r.managed,
         r.notices # <<>>, Head(r.notices) = "unmap"
  PROVE  /\ r.mapped /\ r.ul = "none"
         /\ r.pending_unmap = 0 => r.win = "gone"
  <1>0. r \in Client /\ Flags(r)
    BY DEF Good, Inductive
  <1>1. Has(r, "unmap") /\ (Has(r, "map") => Has(Read(r), "map")) /\ ~Has(Read(r), "map")
    BY <1>0, ReadTurn
  <1>2. r.state \in {"MAPPED", "UNMAP_PENDING"}
    BY <1>0, <1>1 DEF Turn, Client, States
  <1> QED
    BY <1>0, <1>1, <1>2 DEF Turn, Flags

LEMMA UnmapNotifyTurn ==
  ASSUME NEW r, NEW cur \in Workspaces, NEW dock, Good(r, cur, dock), Turn(r),
         r.notices # <<>>, Head(r.notices) = "unmap"
  PROVE  Turn(HandleUnmapNotify(Read(r)))
  <1> SUFFICES ASSUME NEW q, q = Read(r) PROVE Turn(HandleUnmapNotify(q))
    OBVIOUS
  <1>0. r \in Client
    BY DEF Good
  <1>1. /\ q \in Client /\ SameFlags(q, r) /\ q.win = r.win /\ q.state = r.state
        /\ q.pending_unmap = r.pending_unmap
        /\ InTurn(q.notices) /\ ~Has(q, "synthetic") /\ ~Has(q, "map") /\ ~Has(q, "unmap")
        /\ \A x : Has(q, x) => Has(r, x)
        /\ Has(r, "unmap")
    BY <1>0, ReadTurn
  <1>2. q.managed
    BY <1>1 DEF Turn, SameFlags, SameMarks
  <1>3. CASE q.pending_unmap = 0
    <2>1. q.win = "gone"
      BY <1>1, <1>2, <1>3, UnmapIsOfMapped DEF SameFlags, SameMarks
    <2>2. /\ HandleUnmapNotify(q) = Fresh(q) /\ ~Fresh(q).managed
          /\ Fresh(q).win = q.win /\ Fresh(q).notices = q.notices
      BY <1>1, <1>2, <1>3, FreshProperties DEF HandleUnmapNotify
    <2>3. \A x : Has(Fresh(q), x) <=> Has(q, x)
      BY <2>2 DEF Has
    <2> QED
      BY <1>1, <2>1, <2>2, <2>3 DEF Turn
  <1>4. CASE q.pending_unmap # 0
    <2>0. PICK p \in Nat : p = q.pending_unmap - 1
      <3>1. q.pending_unmap \in Nat
        BY <1>1 DEF Client
      <3> QED
        BY <1>4, <3>1
    <2>1. PICK u \in {"none", "can", "stay"} : u = IntoUnmappedList(q)
      BY <1>1 DEF IntoUnmappedList, Client
    <2>2. PICK k : k = [q EXCEPT !.state = "UNMAPPED", !.mapped = FALSE,
                                 !.pending_unmap = p, !.ul = u]
      OBVIOUS
    <2> DEFINE h == MapClient(k)
               e == [h EXCEPT !.map_after = FALSE]
    <2>3. /\ k \in Client /\ SameWindow(k, q) /\ SameMarks(k, q)
          /\ k.state = "UNMAPPED"
      BY ZenonT(60), <1>1, <2>2 DEF Client, States, SameWindow, SameMarks
    <2>4. HandleUnmapNotify(q) = e \/ HandleUnmapNotify(q) = k
      BY <1>2, <1>4, <2>0, <2>1, <2>2 DEF HandleUnmapNotify
    <2>5. \A x : Has(k, x) <=> Has(q, x)
      BY <2>3 DEF Has, SameWindow
    <2>6. Has(q, "destroy") => q.win = "gone"
      BY <1>1 DEF Turn
    <2>7. Turn(k) /\ k.managed
      BY <1>1, <1>2, <2>3, <2>5, <2>6 DEF Turn, SameWindow, SameMarks
    <2>8. Turn(h) /\ h \in Client
      BY <2>3, <2>7, MapClientTurn, MapClientIs
    <2> HIDE DEF h
    <2>9. /\ e.notices = h.notices /\ e.win = h.win /\ e.managed = h.managed
          /\ e.state = h.state /\ e.pending_unmap = h.pending_unmap
      BY <2>8 DEF Client
    <2> HIDE DEF e
    <2>10. Turn(e)
      BY <2>8, <2>9, SameTurn
    <2> QED
      BY <2>4, <2>7, <2>10
  <1> QED
    BY <1>3, <1>4

LEMMA MapNotifyTurn ==
  ASSUME NEW r, NEW cur \in Workspaces, NEW dock, Good(r, cur, dock), Turn(r),
         r.notices # <<>>, Head(r.notices) = "map", NEW flag \in BOOLEAN
  PROVE  Turn(HandleMapNotify(Read(r), cur, flag))
  <1> SUFFICES ASSUME NEW q, q = Read(r) PROVE Turn(HandleMapNotify(q, cur, flag))
    OBVIOUS
  <1>0. r \in Client
    BY DEF Good
  <1>1. /\ q \in Client /\ SameFlags(q, r) /\ q.win = r.win /\ q.state = r.state
        /\ q.pending_unmap = r.pending_unmap
        /\ InTurn(q.notices) /\ ~Has(q, "synthetic") /\ ~Has(q, "map")
        /\ \A x : Has(q, x) => Has(r, x)
        /\ Has(r, "map")
    BY <1>0, ReadTurn
  <1>2. q.managed /\ q.state = "MAP_PENDING"
    BY <1>1 DEF Turn, SameFlags, SameMarks
  <1>3. /\ Has(q, "unmap") => q.win = "gone"
        /\ Has(q, "destroy") => q.win = "gone"
    BY <1>1, <1>2 DEF Turn, SameFlags, SameMarks
  <1> DEFINE shown == [q EXCEPT !.mapped = TRUE, !.state = "MAPPED",
                                !.ul = OutOfUnmappedList(q), !.from_switch = FALSE]
             away  == [shown EXCEPT !.unmap_after = FALSE, !.from_switch = TRUE]
  <1>4. PICK u \in {"none", "can", "stay"} : u = OutOfUnmappedList(q)
    BY <1>1 DEF OutOfUnmappedList, Client
  <1>5. /\ shown \in Client /\ SameWindow(shown, q)
        /\ shown.state = "MAPPED" /\ shown.managed
    BY ZenonT(60), <1>1, <1>2, <1>4 DEF Client, States, SameWindow
  <1>6. HandleMapNotify(q, cur, flag) = shown \/ HandleMapNotify(q, cur, flag) = UnmapClient(away)
    BY <1>2 DEF HandleMapNotify
  <1> HIDE DEF shown
  <1>7. /\ away \in Client /\ SameWindow(away, q)
        /\ away.state = "MAPPED" /\ away.managed
    BY <1>5 DEF Client, SameWindow
  <1> HIDE DEF away
  <1>8. ASSUME NEW a \in {shown, away} PROVE Turn(a)
    <2>1. /\ a.notices = q.notices /\ a.win = q.win /\ a.managed /\ a.state = "MAPPED"
      BY <1>5, <1>7 DEF SameWindow
    <2>2. \A x : Has(a, x) <=> Has(q, x)
      BY <2>1 DEF Has
    <2> QED
      BY <1>1, <1>3, <2>1, <2>2 DEF Turn
  <1>9. Turn(UnmapClient(away))
    BY <1>7, <1>8, UnmapClientTurn
  <1> QED
    BY <1>6, <1>8, <1>9

LEMMA DestroyNotifyTurn ==
  ASSUME NEW r, NEW cur \in Workspaces, NEW dock, Good(r, cur, dock), Turn(r),
         r.notices # <<>>, Head(r.notices) = "destroy"
  PROVE  Turn(HandleDestroyNotify(Read(r)))
  <1> SUFFICES ASSUME NEW q, q = Read(r) PROVE Turn(HandleDestroyNotify(q))
    OBVIOUS
  <1>0. r \in Client
    BY DEF Good
  <1>1. /\ q \in Client /\ SameFlags(q, r) /\ q.win = r.win
        /\ InTurn(q.notices) /\ ~Has(q, "synthetic") /\ ~Has(q, "map") /\ ~Has(q, "unmap")
        /\ Has(r, "destroy")
    BY <1>0, ReadTurn
  <1>2. q.win = "gone"
    BY <1>1 DEF Turn
  <1>3. PICK f : f = HandleDestroyNotify(q)
    OBVIOUS
  <1>4. f.notices = q.notices /\ f.win = q.win /\ ~f.managed
    BY <1>1, <1>3, FreshProperties DEF HandleDestroyNotify
  <1>5. \A x : Has(f, x) <=> Has(q, x)
    BY <1>4 DEF Has
  <1> QED
    BY <1>1, <1>2, <1>3, <1>4, <1>5 DEF Turn

(* A client asks for its window, or destroys it.                           *)
LEMMA RequestTurn ==
  ASSUME NEW r \in Client, Turn(r)
  PROVE  Turn([r EXCEPT !.notices = Append(r.notices, "request")])
  <1> DEFINE q == [r EXCEPT !.notices = Append(r.notices, "request")]
  <1>1. /\ SameFlags(q, r) /\ q.win = r.win /\ q.state = r.state
        /\ q.pending_unmap = r.pending_unmap /\ q.notices = Append(r.notices, "request")
    BY DEF Client, SameFlags, SameMarks
  <1> HIDE DEF q
  <1>2. \A x : Has(q, x) <=> Has(r, x) \/ x = "request"
    BY <1>1, AppendHas DEF Notices
  <1>3. InTurn(q.notices)
    BY <1>1, InTurnAppend DEF Turn, Notices, Client
  <1>4. Turn(q)
    BY <1>1, <1>2, <1>3 DEF Turn, SameFlags, SameMarks
  <1> QED
    BY <1>4 DEF q

LEMMA DestroyTurn ==
  ASSUME NEW r, NEW cur, NEW dock, Good(r, cur, dock), Turn(r), r.win # "gone"
  PROVE  Turn([XUnmapWindow(r) EXCEPT !.notices = Append(@, "destroy"), !.win = "gone"])
  <1>0. r \in Client /\ History(r)
    BY DEF Good, Inductive
  <1>1. PICK x : x = XUnmapWindow(r)
    OBVIOUS
  <1>2. /\ x \in Client /\ x.managed = r.managed /\ x.state = r.state
        /\ x.pending_unmap = r.pending_unmap
        /\ r.win = "mapped" => x.notices = Append(r.notices, "unmap")
        /\ r.win # "mapped" => x.notices = r.notices
    <2>1. x \in Client
      BY <1>0, <1>1, XUnmapWindowProperties
    <2> QED
      BY <1>0, <1>1, <2>1 DEF XUnmapWindow, Client
  <1> DEFINE q == [x EXCEPT !.notices = Append(x.notices, "destroy"), !.win = "gone"]
  <1>3. /\ q.managed = r.managed /\ q.state = r.state /\ q.pending_unmap = r.pending_unmap
        /\ q.win = "gone" /\ q.notices = Append(x.notices, "destroy")
    BY <1>2 DEF Client
  <1> HIDE DEF q
  <1>4. \A e : Has(q, e) <=> Has(x, e) \/ e = "destroy"
    BY <1>2, <1>3, AppendHas DEF Notices
  <1>5. \A e : Has(x, e) <=> Has(r, e) \/ (r.win = "mapped" /\ e = "unmap")
    BY SMTT(60), <1>0, <1>2, AppendHas DEF Notices, Has
  <1>6. r.win = "mapped" =>
          /\ ~Has(r, "unmap") /\ ~Has(r, "destroy") /\ r.managed
          /\ r.state # "UNMAP_PENDING" /\ r.state # "UNMAPPED"
          /\ r.state = "MAP_PENDING" => Has(r, "map")
    BY <1>0 DEF Turn, Good, Inductive, Lag, Flags
  <1>7. InTurn(x.notices)
    BY <1>0, <1>2, <1>6, InTurnAppend DEF Turn, Notices, Client, Has
  <1>8. InTurn(q.notices)
    BY <1>2, <1>3, <1>7, InTurnAppend DEF Notices, Client
  <1>9. Turn(q)
    BY <1>3, <1>4, <1>5, <1>6, <1>8 DEF Turn
  <1> QED
    BY <1>1, <1>9 DEF q

(* The record of a managed client with other marks and in another place,   *)
(* and the map or unmap that is asked for it then.                         *)
LEMMA RemarkedTurn ==
  ASSUME NEW r, NEW cur, NEW dock, Good(r, cur, dock), Turn(r), r.managed,
         NEW q \in Client, q.notices = r.notices, q.win = r.win, q.managed,
         q.state = r.state, q.mapped = r.mapped, q.pending_unmap = r.pending_unmap
  PROVE  Turn(q) /\ Turn(MapClient(q)) /\ Turn(UnmapClient(q))
  <1>1. Turn(q)
    BY SameTurn
  <1>2. /\ q.state = "MAPPED" => q.mapped
        /\ q.mapped => q.state # "UNMAPPED"
    BY DEF Good, Inductive, Flags
  <1> QED
    BY <1>1, <1>2, MapClientTurn, UnmapClientTurn

LEMMA LeaveTurn ==
  ASSUME NEW r, NEW cur, NEW dock, Good(r, cur, dock), Turn(r), r.managed
  PROVE  Turn(Leave(r))
  <1>0. r \in Client
    BY DEF Good
  <1> DEFINE a == [r EXCEPT !.from_switch = TRUE, !.map_after = FALSE]
             b == [r EXCEPT !.from_switch = TRUE, !.unmap_after = TRUE]
             d == [r EXCEPT !.from_switch = TRUE]
  <1>1. /\ a \in Client /\ a.notices = r.notices /\ a.win = r.win /\ a.managed
        /\ a.state = r.state /\ a.mapped = r.mapped /\ a.pending_unmap = r.pending_unmap
    BY <1>0 DEF Client
  <1>2. /\ b.notices = r.notices /\ b.win = r.win /\ b.managed = r.managed
        /\ b.state = r.state /\ b.pending_unmap = r.pending_unmap
    BY <1>0 DEF Client
  <1>3. /\ d.notices = r.notices /\ d.win = r.win /\ d.managed = r.managed
        /\ d.state = r.state /\ d.pending_unmap = r.pending_unmap
    BY <1>0 DEF Client
  <1>4. Leave(r) = UnmapClient(a) \/ Leave(r) = b \/ Leave(r) = d
    BY <1>0, LeaveIs
  <1> HIDE DEF a, b, d
  <1>5. Turn(UnmapClient(a))
    BY <1>1, RemarkedTurn
  <1>6. Turn(b) /\ Turn(d)
    BY <1>2, <1>3, SameTurn
  <1> QED
    BY <1>4, <1>5, <1>6

LEMMA EnterTurn ==
  ASSUME NEW r \in Client, Turn(r), r.managed, r.state = "MAPPED" => r.mapped
  PROVE  Turn(Enter(r))
  <1> DEFINE a == [r EXCEPT !.unmap_after = FALSE]
             b == [r EXCEPT !.map_after = TRUE]
  <1>1. /\ a \in Client /\ a.notices = r.notices /\ a.win = r.win /\ a.managed = r.managed
        /\ a.state = r.state /\ a.mapped = r.mapped /\ a.pending_unmap = r.pending_unmap
    BY DEF Client
  <1>2. /\ b.notices = r.notices /\ b.win = r.win /\ b.managed = r.managed
        /\ b.state = r.state /\ b.pending_unmap = r.pending_unmap
    BY DEF Client
  <1>3. Enter(r) = MapClient(a) \/ Enter(r) = b \/ Enter(r) = r
    BY EnterIs
  <1> HIDE DEF a, b
  <1>4. Turn(a) /\ Turn(b)
    BY <1>1, <1>2, SameTurn
  <1>5. Turn(MapClient(a))
    BY <1>1, <1>4, MapClientTurn
  <1> QED
    BY <1>3, <1>4, <1>5

LEMMA SetTurn ==
  ASSUME IInv, AllInTurn, NEW c \in Clients, NEW q, Set(c, q), Turn(q)
  PROVE  AllInTurn'
  <1>1. client' = [client EXCEPT ![c] = q] /\ client \in [Clients -> Client]
    BY DEF Set, IInv, TypeOK
  <1>2. client'[c] = q /\ \A d \in Clients : d # c => client'[d] = client[d]
    BY <1>1
  <1>3. ASSUME NEW d \in Clients PROVE Turn(client'[d])
    BY <1>2 DEF AllInTurn
  <1> QED
    BY <1>3 DEF AllInTurn

LEMMA NextTurn ==
  ASSUME IInv, AllInTurn, [Next]_vars,
         "withdraw" \notin ClientOps, "restart" \notin Bindings
  PROVE  AllInTurn'
  <1>0. ASSUME NEW c \in Clients
        PROVE  /\ Good(client[c], current, c \in Docks)
               /\ client[c] \in Client /\ Turn(client[c])
               /\ client[c].managed /\ client[c].state = "MAPPED" => client[c].mapped
    BY DEF IInv, TypeOK, Good, AllInTurn, Inductive, Flags
  <1>c. current \in Workspaces
    BY DEF IInv, TypeOK
  <1>1. ASSUME NEW c \in Clients, ClientMap(c) PROVE AllInTurn'
    <2>1. Set(c, [client[c] EXCEPT !.notices = Append(client[c].notices, "request")])
      BY <1>1 DEF ClientMap
    <2> QED
      BY <1>0, <2>1, RequestTurn, SetTurn
  <1>2. ASSUME NEW c \in Clients, ClientDestroy(c) PROVE AllInTurn'
    <2>1. PICK q : q = [XUnmapWindow(client[c]) EXCEPT !.notices = Append(@, "destroy"),
                                                       !.win = "gone"]
      OBVIOUS
    <2>2. Set(c, q) /\ client[c].win # "gone"
      BY <1>2, <2>1 DEF ClientDestroy, ClientMayAct
    <2>3. Turn(q)
      BY <1>0, <2>1, <2>2, DestroyTurn
    <2> QED
      BY <2>2, <2>3, SetTurn
  <1>3. ASSUME NEW c \in Clients, Handle(c) PROVE AllInTurn'
    <2>1. CASE MapRequest(c)
      BY <1>0, <1>c, <2>1, MapRequestTurn, SetTurn DEF MapRequest, Reads
    <2>2. CASE UnmapNotify(c)
      <3>1. client[c].notices # <<>> /\ Head(client[c].notices) \in {"unmap", "synthetic"}
        BY <2>2 DEF UnmapNotify, Reads
      <3>2. Head(client[c].notices) # "synthetic"
        BY <1>0, <3>1, ReadTurn DEF Turn
      <3>3. Turn(HandleUnmapNotify(Read(client[c])))
        BY <1>0, <1>c, <3>1, <3>2, UnmapNotifyTurn
      <3> QED
        BY <2>2, <3>3, SetTurn DEF UnmapNotify
    <2>3. CASE MapNotify(c)
      <3>1. IsDock(c) \in BOOLEAN
        BY <1>0 DEF IsDock, Client
      <3>2. Turn(HandleMapNotify(Read(client[c]), current, IsDock(c)))
        BY <1>0, <1>c, <2>3, <3>1, MapNotifyTurn DEF MapNotify, Reads
      <3> QED
        BY <2>3, <3>2, SetTurn DEF MapNotify
    <2>4. CASE DestroyNotify(c)
      BY <1>0, <1>c, <2>4, DestroyNotifyTurn, SetTurn DEF DestroyNotify, Reads
    <2> QED
      BY <1>3, <2>1, <2>2, <2>3, <2>4 DEF Handle
  <1>4. ASSUME NEW w \in Workspaces, SwitchWorkspace(w) PROVE AllInTurn'
    <2> SUFFICES ASSUME NEW c \in Clients PROVE Turn(client'[c])
      BY DEF AllInTurn
    <2> DEFINE r == client[c]
               q == [r EXCEPT !.workspace = w, !.place = w]
    <2>1. client'[c] =
            IF OnCurrent(c) /\ MovesAlong(c) THEN Enter(q)
            ELSE IF OnCurrent(c) THEN Leave(r)
            ELSE IF r.managed /\ r.place = w THEN Enter(r)
            ELSE r
      BY <1>4 DEF SwitchWorkspace
    <2>2. OnCurrent(c) => r.managed
      BY DEF OnCurrent
    <2>3. /\ q \in Client /\ q.notices = r.notices /\ q.win = r.win
          /\ q.managed = r.managed /\ q.state = r.state /\ q.mapped = r.mapped
          /\ q.pending_unmap = r.pending_unmap
      BY <1>0 DEF Client
    <2> HIDE DEF r, q
    <2>4. /\ r \in Client /\ Turn(r) /\ Good(r, current, c \in Docks)
          /\ r.managed /\ r.state = "MAPPED" => r.mapped
      BY <1>0 DEF r
    <2>5. ASSUME r.managed PROVE Turn(Enter(q)) /\ Turn(Leave(r)) /\ Turn(Enter(r))
      BY <2>3, <2>4, <2>5, SameTurn, EnterTurn, LeaveTurn
    <2> QED
      BY <2>1, <2>2, <2>4, <2>5
  <1>5. ASSUME NEW c \in Clients, NEW w \in Workspaces, MoveToWorkspace(c, w)
        PROVE  AllInTurn'
    <2> DEFINE r == client[c]
               p == IF r.place = current THEN w ELSE r.place
               q == [r EXCEPT !.workspace = w, !.desktop = w, !.place = p]
    <2>1. Set(c, UnmapClient(q)) /\ r.managed
      BY <1>5 DEF MoveToWorkspace, FocusMayBe
    <2>2. /\ q \in Client /\ q.notices = r.notices /\ q.win = r.win
          /\ q.managed = r.managed /\ q.state = r.state /\ q.mapped = r.mapped
          /\ q.pending_unmap = r.pending_unmap
      BY ZenonT(60), <1>0 DEF Client
    <2> HIDE DEF q
    <2>3. Turn(UnmapClient(q))
      BY <1>0, <2>1, <2>2, RemarkedTurn
    <2> QED
      BY <2>1, <2>3, SetTurn
  <1>6. ASSUME NEW c \in Clients, UnmapWindow(c) PROVE AllInTurn'
    <2> DEFINE r == client[c]
               q == [r EXCEPT !.future_stay = TRUE]
    <2>1. Set(c, UnmapClient(q)) /\ r.managed
      BY <1>6 DEF UnmapWindow, FocusMayBe
    <2>2. /\ q \in Client /\ q.notices = r.notices /\ q.win = r.win
          /\ q.managed = r.managed /\ q.state = r.state /\ q.mapped = r.mapped
          /\ q.pending_unmap = r.pending_unmap
      BY <1>0 DEF Client
    <2> HIDE DEF q
    <2>3. Turn(UnmapClient(q))
      BY <1>0, <2>1, <2>2, RemarkedTurn
    <2> QED
      BY <2>1, <2>3, SetTurn
  <1>m. ASSUME NEW c \in Clients, client[c].managed
        PROVE  Turn(MapClient([client[c] EXCEPT !.ul = "can", !.future_stay = FALSE]))
    <2> DEFINE r == client[c]
               q == [r EXCEPT !.ul = "can", !.future_stay = FALSE]
    <2>2. /\ q \in Client /\ q.notices = r.notices /\ q.win = r.win
          /\ q.managed = r.managed /\ q.state = r.state /\ q.mapped = r.mapped
          /\ q.pending_unmap = r.pending_unmap
      BY <1>0 DEF Client
    <2> HIDE DEF q
    <2>3. Turn(MapClient(q))
      BY <1>0, <1>m, <2>2, RemarkedTurn
    <2> QED
      BY <2>3 DEF q
  <1>7. ASSUME NEW c \in Clients, MapLatestUnmap(c) PROVE AllInTurn'
    BY <1>m, <1>7, SetTurn DEF MapLatestUnmap, OnCurrent
  <1>8. ASSUME NEW T \in SUBSET {c \in Clients : ~IsDock(c)}, UnmapAll(T) PROVE AllInTurn'
    <2> SUFFICES ASSUME NEW c \in Clients PROVE Turn(client'[c])
      BY DEF AllInTurn
    <2> DEFINE r == client[c]
    <2>1. PICK f \in BOOLEAN : f = (r.future_stay \/ c \in T)
      OBVIOUS
    <2> DEFINE q == [r EXCEPT !.future_stay = f]
    <2>2. \/ client'[c] = r
          \/ r.managed /\ client'[c] = UnmapClient(q)
      BY <1>8, <2>1 DEF UnmapAll, OnCurrent
    <2>3. /\ q \in Client /\ q.notices = r.notices /\ q.win = r.win
          /\ q.managed = r.managed /\ q.state = r.state /\ q.mapped = r.mapped
          /\ q.pending_unmap = r.pending_unmap
      BY <1>0 DEF Client
    <2> HIDE DEF q
    <2>4. r.managed => Turn(UnmapClient(q))
      BY <1>0, <2>3, RemarkedTurn
    <2> QED
      BY <1>0, <2>2, <2>4
  <1>9. CASE MapAll
    <2> SUFFICES ASSUME NEW c \in Clients PROVE Turn(client'[c])
      BY DEF AllInTurn
    <2>1. \/ client'[c] = client[c]
          \/ /\ client[c].managed
             /\ client'[c] = MapClient([client[c] EXCEPT !.ul = "can", !.future_stay = FALSE])
      BY <1>9 DEF MapAll, OnCurrent
    <2> QED
      BY <1>0, <1>m, <2>1
  <1>10. CASE UNCHANGED vars
    BY <1>10 DEF vars, AllInTurn
  <1> QED
    BY <1>1, <1>2, <1>3, <1>4, <1>5, <1>6, <1>7, <1>8, <1>9, <1>10
       DEF Next, ClientWithdraw, Restart

(* Where no client withdraws its window and the manager is not restarted,  *)
(* map_client and unmap_client are never ahead of the notices: they ask    *)
(* for the next map or unmap when the last one has been read, so a notice  *)
(* settles the state that asked for it, and handle_unmap_notify takes a    *)
(* client for withdrawn only when its window is gone.                      *)
THEOREM MapsInTurn ==
  ASSUME FocusFollows, "withdraw" \notin ClientOps, "restart" \notin Bindings
  PROVE  Spec => [](IInv /\ AllInTurn)
  <1>1. Init => AllInTurn
    <2> SUFFICES ASSUME Init, NEW c \in Clients PROVE Turn(client[c])
      BY DEF AllInTurn
    <2>1. /\ client[c].win = "unmapped" /\ client[c].notices = <<>>
          /\ ~client[c].managed
      BY DEF Init, NewWindow
    <2> QED
      BY <2>1 DEF Turn, InTurn, Has
  <1>2. IInv /\ AllInTurn /\ [Next]_vars => AllInTurn'
    BY NextTurn
  <1>3. Init => IInv
    BY InitIInv
  <1>4. IInv /\ [Next]_vars => IInv'
    BY NextIInv
  <1> QED
    BY <1>1, <1>2, <1>3, <1>4, PTL DEF Spec
=============================================================================
