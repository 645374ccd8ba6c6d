----------------------------- MODULE Lists_proofs -----------------------------
(***************************************************************************)
(* Proofs about the client lists, for every set of windows and workspaces, *)
(* every configuration that does not bind toggle-persistent, and every     *)
(* bound.                                                                  *)
(*                                                                         *)
(* Each handler and key is an operation on the lists about one client, or  *)
(* a loop of them (Loops), and an operator of Visibility on that client's  *)
(* record: Stepped, Reaches and Rearranged say so.  The lists need to know *)
(* that a client is where its Client struct says and that an UnmapNotify   *)
(* is of a client that is not unmapped yet; Visibility_proofs shows both   *)
(* (Inductive, Turn) of the steps the lists are shown to take, so the two  *)
(* invariants are proved together: ListsInv.                               *)
(***************************************************************************)
EXTENDS Places_proofs

(* A window that is managed while it is not on the screen.                 *)
Begun(r, known, ws, desktop) ==
  [r EXCEPT !.managed = TRUE, !.known = known, !.workspace = ws, !.place = ws,
            !.desktop = desktop, !.ul = "can", !.pending_unmap = 0]

LEMMA BegunIs ==
  ASSUME NEW a \in Seq(V!Notices), NEW r \in V!Client, NEW known \in BOOLEAN, NEW ws \in Workspaces,
         NEW desktop \in Workspaces \cup {NoWorkspace, AllWorkspaces}, NEW t,
         t = Begun(r, known, ws, desktop)
  PROVE  /\ Begun(Prefixed(a, r), known, ws, desktop) = Prefixed(a, t) /\ t \in V!Client
         /\ t.managed /\ t.ul = "can" /\ t.place = ws /\ t.workspace = ws
  <1>1. t \in V!Client
    BY DEF Begun, V!Client
  <1>2. Begun(Prefixed(a, r), known, ws, desktop) = Prefixed(a, t)
    BY DEF Begun, Prefixed, V!Client
  <1>3. t.managed /\ t.ul = "can" /\ t.place = ws /\ t.workspace = ws
    BY DEF Begun, V!Client
  <1> QED
    BY <1>1, <1>2, <1>3

LEMMA StartManageIs ==
  ASSUME NEW a \in Seq(V!Notices), NEW r \in V!Client, r.win # "mapped", NEW cur \in Workspaces,
         NEW t, t = V!StartManage(r, cur)
  PROVE  /\ V!StartManage(Prefixed(a, r), cur) = Prefixed(a, t)
         /\ t \in V!Client /\ t.managed /\ t.ul = "can" /\ t.place = t.workspace
         /\ t.workspace \in Workspaces
  <1>1. PICK p \in V!Client : p = Prefixed(a, r)
    BY PrefixedIs
  <1>2. p.win = r.win /\ p.desktop = r.desktop
    BY <1>1, PrefixedIs
  <1>3. PICK known \in BOOLEAN : known <=> r.win # "gone"
    OBVIOUS
  <1>4. PICK ws \in Workspaces :
           ws = IF r.win # "gone" /\ r.desktop \in Workspaces THEN r.desktop ELSE cur
    OBVIOUS
  <1>5. PICK desktop : desktop = IF r.desktop = NoWorkspace THEN ws ELSE r.desktop
    OBVIOUS
  <1>6. desktop \in Workspaces \cup {NoWorkspace, AllWorkspaces}
    BY <1>5 DEF V!Client
  <1>7. V!XUnmapWindow(r) = r /\ V!XUnmapWindow(p) = p
    BY <1>2 DEF V!XUnmapWindow
  <1>8. PICK f \in V!Client : f = V!Fresh(r) /\ V!Fresh(p) = Prefixed(a, f) /\ f.desktop = r.desktop
    <2>1. V!Fresh(r) \in V!Client /\ V!Fresh(r).desktop = r.desktop
      BY FreshIs
    <2>2. V!Fresh(p) = Prefixed(a, V!Fresh(r))
      BY <1>1, FreshIs
    <2> QED
      BY <2>1, <2>2
  <1>9. PICK g \in V!Client : g = Prefixed(a, f) /\ g.desktop = r.desktop
    BY <1>8, PrefixedIs
  <1>10. t = Begun(f, known, ws, desktop)
    <2>1. t = [[f EXCEPT !.managed = TRUE, !.known = known, !.workspace = ws, !.place = ws,
                         !.desktop = IF @ = NoWorkspace THEN ws ELSE @]
                 EXCEPT !.ul = "can", !.pending_unmap = 0]
      BY <1>3, <1>4, <1>7, <1>8 DEF V!StartManage
    <2> QED
      BY <1>5, <1>8, <2>1 DEF Begun, V!Client
  <1>11. V!StartManage(p, cur) = Begun(g, known, ws, desktop)
    <2>1. V!StartManage(p, cur)
            = [[g EXCEPT !.managed = TRUE, !.known = known, !.workspace = ws, !.place = ws,
                         !.desktop = IF @ = NoWorkspace THEN ws ELSE @]
                 EXCEPT !.ul = "can", !.pending_unmap = 0]
      BY ZenonT(60), <1>2, <1>3, <1>4, <1>7, <1>8, <1>9 DEF V!StartManage
    <2> QED
      BY <1>5, <1>9, <2>1 DEF Begun, V!Client
  <1>12. /\ Begun(Prefixed(a, f), known, ws, desktop) = Prefixed(a, t)
         /\ t \in V!Client /\ t.managed /\ t.ul = "can" /\ t.place = ws /\ t.workspace = ws
    BY SMTT(60), <1>6, <1>10, BegunIs
  <1> QED
    BY <1>1, <1>9, <1>11, <1>12

LEMMA MapRequestIs ==
  ASSUME NEW a \in Seq(V!Notices), NEW r \in V!Client, r.managed \/ r.win # "mapped",
         NEW cur \in Workspaces, NEW t, t = V!HandleMapRequest(r, cur)
  PROVE  /\ V!HandleMapRequest(Prefixed(a, r), cur) = Prefixed(a, t)
         /\ t \in V!Client /\ t.managed
         /\ r.managed => t.place = r.place /\ t.ul = r.ul
         /\ ~r.managed => t.ul = "can" /\ t.place = t.workspace /\ t.workspace \in Workspaces
  <1>1. PICK p \in V!Client : p = Prefixed(a, r)
    BY PrefixedIs
  <1>2. p.managed = r.managed /\ p.place = r.place
    BY <1>1, PrefixedIs
  <1>3. CASE r.managed /\ r.place # cur
    <2>1. t = r /\ V!HandleMapRequest(p, cur) = p
      BY <1>2, <1>3 DEF V!HandleMapRequest
    <2> QED
      BY <1>1, <1>3, <2>1
  <1>4. CASE r.managed /\ r.place = cur
    <2>1. t = V!MapClient(r) /\ V!HandleMapRequest(p, cur) = V!MapClient(p)
      BY <1>2, <1>4 DEF V!HandleMapRequest
    <2>2. Extends(V!MapClient(Prefixed(a, r)), V!MapClient(r), a, r)
      BY MapIs
    <2> QED
      BY <1>1, <1>4, <2>1, <2>2 DEF Extends, Keeps
  <1>5. CASE ~r.managed
    <2>1. PICK k : k = V!StartManage(r, cur)
      OBVIOUS
    <2>2. /\ V!StartManage(p, cur) = Prefixed(a, k)
          /\ k \in V!Client /\ k.managed /\ k.ul = "can" /\ k.place = k.workspace
          /\ k.workspace \in Workspaces
      BY <1>1, <1>5, <2>1, StartManageIs
    <2>3. t = V!MapClient(k) /\ V!HandleMapRequest(p, cur) = V!MapClient(Prefixed(a, k))
      BY <1>2, <1>5, <2>1, <2>2 DEF V!HandleMapRequest
    <2>4. Extends(V!MapClient(Prefixed(a, k)), V!MapClient(k), a, k)
      BY <2>2, MapIs
    <2> QED
      BY <1>1, <1>5, <2>2, <2>3, <2>4 DEF Extends, Keeps
  <1> QED
    BY <1>3, <1>4, <1>5

-----------------------------------------------------------------------------
(* A step that makes of client c the record q, as Visibility sees it.      *)
Stepped(t, s, c, q) ==
  /\ Good(t) /\ SameMode(t, s) /\ t.current = s.current
  /\ Seen(t, c) = q /\ \A d \in Clients : d # c => Seen(t, d) = Seen(s, d)

LEMMA StepIs ==
  ASSUME NEW s, Good(s), NEW c \in Clients, NEW a, Touches(a, s, c), NEW r \in V!Client,
         Stands(a, s, c, r), NEW q, q = Prefixed(NoticesOf(s.queue, c), r), NEW t, t = Put(a, c, r)
  PROVE  Stepped(t, s, c, q)
  <1>1. /\ Good(t) /\ SameMode(t, s) /\ t.current = s.current
        /\ Seen(t, c) = Prefixed(NoticesOf(s.queue, c), r)
    BY OneStep
  <1>2. \A d \in Clients : d # c => Seen(t, d) = Seen(s, d)
    BY OneStep
  <1> QED
    BY <1>1, <1>2 DEF Stepped

LEMMA NoStep ==
  ASSUME NEW s, Good(s), NEW c \in Clients
  PROVE  Stepped(s, s, c, Seen(s, c))
  BY DEF Stepped, SameMode

(* Where a client is, as Known tells it.                                   *)
LEMMA KnownSpot ==
  ASSUME NEW s, Good(s), NEW c \in Clients
  PROVE  /\ Known(s, c).managed =>
              \E k, w, e : /\ Spot(s, c, k, w, e) /\ Known(s, c).place = w
                           /\ Known(s, c).ul = UlAt(k, e) /\ ModeAt(k, e) = Mode(s, c)
                           /\ w \in Workspaces /\ k \in {"cl", "fl", "ml", "ul"}
         /\ ~Known(s, c).managed =>
              /\ Nowhere(s, c) /\ s.flags[c] = NoFlags
              /\ Known(s, c).place = NoWorkspace /\ Known(s, c).ul = "none"
  <1>1. Sound(s) /\ Idles(s) /\ Placed(s, c)
    BY DEF Good
  <1>2. /\ Known(s, c).place = PlaceOf(s, c) /\ Known(s, c).ul = UlOf(s, PlaceOf(s, c), c)
        /\ Known(s, c).managed = s.client[c].managed
    BY <1>1, KnownIs
  <1>3. ASSUME Known(s, c).managed
        PROVE  \E k, w, e : /\ Spot(s, c, k, w, e) /\ Known(s, c).place = w
                            /\ Known(s, c).ul = UlAt(k, e) /\ ModeAt(k, e) = Mode(s, c)
                            /\ w \in Workspaces /\ k \in {"cl", "fl", "ml", "ul"}
    <2>1. PICK k, w, e : Spot(s, c, k, w, e)
      BY <1>1, <1>2, <1>3 DEF Placed
    <2>2. Home(s, c, k, w, e)
      BY <2>1 DEF Spot
    <2>3. /\ PlaceOf(s, c) = w /\ UlOf(s, w, c) = UlAt(k, e) /\ Mode(s, c) = ModeAt(k, e)
          /\ w \in Workspaces
      BY <1>1, <2>2, WhereIs
    <2>4. k \in {"cl", "fl", "ml", "ul"}
      BY <1>1, <2>2, AtHome
    <2> QED
      BY <1>2, <2>1, <2>3, <2>4
  <1>4. ASSUME ~Known(s, c).managed
        PROVE  /\ Nowhere(s, c) /\ s.flags[c] = NoFlags
               /\ Known(s, c).place = NoWorkspace /\ Known(s, c).ul = "none"
    <2>1. Nowhere(s, c) /\ s.flags[c] = NoFlags
      BY <1>1, <1>2, <1>4 DEF Placed
    <2>2. PlaceOf(s, c) = NoWorkspace /\ UlOf(s, NoWorkspace, c) = "none"
      BY <1>1, <2>1, NowhereIs
    <2> QED
      BY <1>2, <2>1, <2>2
  <1> QED
    BY <1>3, <1>4

(* The record is replaced and the lists are left.                          *)
LEMMA StillIs ==
  ASSUME NEW s, Good(s), NEW c \in Clients, NEW r \in V!Client, Keeps(r, Known(s, c)),
         NEW q, q = Prefixed(NoticesOf(s.queue, c), r), NEW t, t = Put(s, c, r)
  PROVE  Stepped(t, s, c, q)
  <1>1. Sound(s) /\ Idles(s)
    BY DEF Good
  <1>2. Touches(s, s, c)
    BY <1>1, TouchesNot
  <1>3. /\ r.managed = Known(s, c).managed /\ r.place = Known(s, c).place /\ r.ul = Known(s, c).ul
    BY DEF Keeps
  <1>4. Known(s, c).managed = s.client[c].managed
    BY <1>1, KnownIs
  <1>5. CASE r.managed
    <2>0. Known(s, c).managed
      BY <1>3, <1>5
    <2>1. PICK k, w, e : /\ Spot(s, c, k, w, e) /\ Known(s, c).place = w
                         /\ Known(s, c).ul = UlAt(k, e) /\ ModeAt(k, e) = Mode(s, c)
      BY <2>0, KnownSpot
    <2>2. Stands(s, s, c, r)
      BY <1>3, <1>5, <2>1 DEF Stands
    <2> QED
      BY <1>2, <2>2, StepIs
  <1>6. CASE ~r.managed
    <2>1. /\ Nowhere(s, c) /\ s.flags[c] = NoFlags
          /\ Known(s, c).place = NoWorkspace /\ Known(s, c).ul = "none"
      BY <1>3, <1>6, KnownSpot
    <2>2. Stands(s, s, c, r)
      BY <1>3, <1>6, <2>1 DEF Stands
    <2> QED
      BY <1>2, <2>2, StepIs
  <1> QED
    BY <1>5, <1>6

(* Operators of Visibility on Known are those on Seen.                     *)
LEMMA SeenAgain ==
  ASSUME NEW s, Good(s), NEW c \in Clients
  PROVE  /\ NoticesOf(s.queue, c) \in Seq(V!Notices) /\ Known(s, c) \in V!Client
         /\ Seen(s, c) = Prefixed(NoticesOf(s.queue, c), Known(s, c))
         /\ Seen(s, c) \in V!Client
  BY SeenIs, KnownIs DEF Good

LEMMA EndManageIs ==
  ASSUME NEW s, Good(s), NEW c \in Clients, Known(s, c).managed, NEW t, t = EndManage(s, c)
  PROVE  Stepped(t, s, c, V!Fresh(Seen(s, c)))
  <1>1. Sound(s) /\ Idles(s)
    BY DEF Good
  <1>2. PICK k, w, e : Spot(s, c, k, w, e) /\ Known(s, c).place = w
    BY KnownSpot
  <1>3. PlaceOf(s, c) = w
    BY <1>1, <1>2, KnownIs
  <1>4. PICK a : a = EndLists(s, w, c)
    OBVIOUS
  <1>5. Touches(a, s, c) /\ Nowhere(a, c) /\ a.flags[c] = NoFlags
    BY <1>1, <1>2, <1>4, EndListsIs DEF Spot
  <1>6. PICK n \in Seq(V!Notices) : n = NoticesOf(s.queue, c) /\ Seen(s, c) = Prefixed(n, Known(s, c))
    BY SeenAgain
  <1>7. PICK r \in V!Client : /\ r = V!Fresh(Known(s, c)) /\ V!Fresh(Seen(s, c)) = Prefixed(n, r)
                              /\ ~r.managed /\ r.place = NoWorkspace /\ r.ul = "none"
    BY <1>6, SeenAgain, FreshIs
  <1>8. t = Put(a, c, r)
    BY <1>3, <1>4, <1>7 DEF EndManage, EndLists
  <1>9. Stands(a, s, c, r)
    BY <1>5, <1>7 DEF Stands
  <1> QED
    BY <1>5, <1>6, <1>7, <1>8, <1>9, StepIs

(* The handlers of events.c, of an event that has been read.               *)

LEMMA HandleUnmapNotifyIs ==
  ASSUME NEW s, Good(s), NEW c \in Clients,
         Known(s, c).managed => V!IsInPlace(Known(s, c)),
         Known(s, c).pending_unmap # 0 => Known(s, c).ul = "none",
         NEW t, t = HandleUnmapNotify(s, c)
  PROVE  Stepped(t, s, c, V!HandleUnmapNotify(Seen(s, c)))
  <1>1. Sound(s) /\ Idles(s)
    BY DEF Good
  <1>2. PICK n \in Seq(V!Notices) : n = NoticesOf(s.queue, c) /\ Seen(s, c) = Prefixed(n, Known(s, c))
    BY SeenAgain
  <1>3. PICK r \in V!Client : r = Known(s, c)
    BY SeenAgain
  <1>4. Seen(s, c).managed = r.managed /\ Seen(s, c).pending_unmap = r.pending_unmap
    BY <1>2, <1>3, PrefixedIs
  <1>5. CASE ~r.managed
    <2>1. t = s /\ V!HandleUnmapNotify(Seen(s, c)) = Seen(s, c)
      BY <1>3, <1>4, <1>5 DEF HandleUnmapNotify, V!HandleUnmapNotify
    <2> QED
      BY <2>1, NoStep
  <1>6. CASE r.managed /\ r.pending_unmap = 0
    <2>1. t = EndManage(s, c)
      BY <1>3, <1>6 DEF HandleUnmapNotify
    <2>2. V!HandleUnmapNotify(Seen(s, c)) = V!Fresh(Seen(s, c))
      BY <1>4, <1>6 DEF V!HandleUnmapNotify
    <2> QED
      BY <1>3, <1>6, <2>1, <2>2, EndManageIs
  <1>7. CASE r.managed /\ r.pending_unmap # 0
    <2>1. PICK k, w, e : /\ Spot(s, c, k, w, e) /\ r.place = w /\ r.ul = UlAt(k, e)
                         /\ ModeAt(k, e) = Mode(s, c) /\ k \in {"cl", "fl", "ml", "ul"}
      BY <1>3, <1>7, KnownSpot
    <2>2. k \in {"cl", "fl", "ml"}
      BY <1>3, <1>7, <2>1 DEF UlAt
    <2>3. PICK a : a = DetachUnmapped(s, w, c)
      OBVIOUS
    <2>4. s.client[c].future_stay = r.future_stay /\ r.future_stay \in BOOLEAN
      <3>1. s.client[c].future_stay = r.future_stay
        BY <1>1, <1>3, KnownIs
      <3> QED
        BY <3>1 DEF V!Client
    <2>5. Home(s, c, k, w, e) /\ Fits(s.flags[c], k, e)
      BY <2>1 DEF Spot
    <2>6. PICK e1 : /\ Moved(a, s, c, "ul", w, e1)
                    /\ e1.stay = s.client[c].future_stay /\ e1.origin = ModeAt(k, e)
      BY <1>1, <2>2, <2>3, <2>4, <2>5, DetachUnmappedIs
    <2>7. PICK q : q = V!HandleUnmapNotify(r)
      OBVIOUS
    <2>8. /\ V!HandleUnmapNotify(Prefixed(n, r)) = Prefixed(n, q)
          /\ q \in V!Client /\ q.managed /\ q.place = r.place
          /\ q.ul = V!IntoUnmappedList(r)
      BY <1>7, <2>7, UnmapNotifyIs
    <2>9. q.ul = UlAt("ul", e1)
      BY <1>3, <1>7, <2>4, <2>6, <2>8 DEF V!IntoUnmappedList, UlAt
    <2>10. Stands(a, s, c, q)
      <3>1. Spot(a, c, "ul", w, e1)
        BY <2>6 DEF Moved, Spot
      <3>2. ModeAt("ul", e1) = Mode(s, c)
        BY <2>1, <2>6 DEF ModeAt
      <3> QED
        BY <2>1, <2>8, <2>9, <3>1, <3>2 DEF Stands
    <2>11. t = Put(a, c, q)
      BY <1>3, <1>7, <2>1, <2>3, <2>7 DEF HandleUnmapNotify, V!IsInPlace
    <2>12. Touches(a, s, c)
      BY <2>6 DEF Moved
    <2> QED
      BY <1>2, <1>3, <2>8, <2>10, <2>11, <2>12, StepIs
  <1> QED
    BY <1>5, <1>6, <1>7

LEMMA HandleMapNotifyIs ==
  ASSUME NEW s, Good(s), NEW c \in Clients,
         Known(s, c).managed => V!IsInPlace(Known(s, c)),
         NEW t, t = HandleMapNotify(s, c)
  PROVE  Stepped(t, s, c, V!HandleMapNotify(Seen(s, c), s.current, FALSE))
  <1>1. Sound(s) /\ Idles(s)
    BY DEF Good
  <1>2. PICK n \in Seq(V!Notices) : n = NoticesOf(s.queue, c) /\ Seen(s, c) = Prefixed(n, Known(s, c))
    BY SeenAgain
  <1>3. PICK r \in V!Client : r = Known(s, c)
    BY SeenAgain
  <1>4. Seen(s, c).managed = r.managed
    BY <1>2, <1>3, PrefixedIs
  <1>5. CASE ~r.managed
    <2>1. t = s /\ V!HandleMapNotify(Seen(s, c), s.current, FALSE) = Seen(s, c)
      BY <1>3, <1>4, <1>5 DEF HandleMapNotify, V!HandleMapNotify
    <2> QED
      BY <2>1, NoStep
  <1>6. CASE r.managed
    <2>1. PICK k, w, e : /\ Spot(s, c, k, w, e) /\ r.place = w /\ r.ul = UlAt(k, e)
                         /\ ModeAt(k, e) = Mode(s, c) /\ k \in {"cl", "fl", "ml", "ul"}
      BY <1>3, <1>6, KnownSpot
    <2>2. PICK q : q = V!HandleMapNotify(r, s.current, FALSE)
      OBVIOUS
    <2>3. /\ V!HandleMapNotify(Prefixed(n, r), s.current, FALSE) = Prefixed(n, q)
          /\ q \in V!Client /\ q.managed /\ q.place = r.place
          /\ q.ul = V!OutOfUnmappedList(r)
      BY <1>6, <2>2, MapNotifyIs
    <2>4. q.ul = "none"
      BY <1>3, <1>6, <2>3 DEF V!OutOfUnmappedList
    <2>5. Home(s, c, k, w, e) /\ Fits(s.flags[c], k, e)
      BY <2>1 DEF Spot
    <2>6. PICK a : a = IF r.ul # "none" THEN ReattachUnmapped(s, w, c) ELSE s
      OBVIOUS
    <2>7. t = Put(a, c, q)
      BY <1>3, <1>6, <2>1, <2>2, <2>6 DEF HandleMapNotify, V!IsInPlace
    <2>8. Touches(a, s, c) /\ Stands(a, s, c, q)
      <3>1. CASE k = "ul"
        <4>1. a = ReattachUnmapped(s, w, c)
          BY <2>1, <2>6, <3>1 DEF UlAt
        <4>2. PICK k1, e1 : k1 \in {"cl", "fl", "ml"} /\ Moved(a, s, c, k1, w, e1) /\ ModeAt(k1, e1) = e.origin
          BY <1>1, <2>5, <3>1, <4>1, ReattachUnmappedIs
        <4>3. Spot(a, c, k1, w, e1) /\ Touches(a, s, c)
          BY <4>2 DEF Moved, Spot
        <4>4. ModeAt(k1, e1) = Mode(s, c) /\ q.ul = UlAt(k1, e1)
          BY <2>1, <2>4, <3>1, <4>2 DEF ModeAt, UlAt
        <4> QED
          BY <2>1, <2>3, <4>3, <4>4 DEF Stands
      <3>2. CASE k # "ul"
        <4>1. a = s /\ q.ul = UlAt(k, e)
          BY <2>1, <2>4, <2>6, <3>2 DEF UlAt
        <4>2. Touches(s, s, c)
          BY <1>1, TouchesNot
        <4> QED
          BY <2>1, <2>3, <4>1, <4>2 DEF Stands
      <3> QED
        BY <3>1, <3>2
    <2> QED
      BY <1>2, <1>3, <2>3, <2>7, <2>8, StepIs
  <1> QED
    BY <1>5, <1>6

LEMMA HandleDestroyNotifyIs ==
  ASSUME NEW s, Good(s), NEW c \in Clients, NEW t, t = HandleDestroyNotify(s, c)
  PROVE  Stepped(t, s, c, V!HandleDestroyNotify(Seen(s, c)))
  <1>1. Sound(s) /\ Idles(s)
    BY DEF Good
  <1>2. s.client[c].managed = Known(s, c).managed
    BY <1>1, KnownIs
  <1>3. Seen(s, c).managed = Known(s, c).managed
    BY SeenAgain, PrefixedIs
  <1>4. CASE Known(s, c).managed
    <2>1. t = EndManage(s, c) /\ V!HandleDestroyNotify(Seen(s, c)) = V!Fresh(Seen(s, c))
      BY <1>2, <1>3, <1>4 DEF HandleDestroyNotify, V!HandleDestroyNotify
    <2> QED
      BY <1>4, <2>1, EndManageIs
  <1>5. CASE ~Known(s, c).managed
    <2>1. t = s /\ V!HandleDestroyNotify(Seen(s, c)) = Seen(s, c)
      BY <1>2, <1>3, <1>5 DEF HandleDestroyNotify, V!HandleDestroyNotify
    <2> QED
      BY <2>1, NoStep
  <1> QED
    BY <1>4, <1>5

LEMMA HandleMapRequestIs ==
  ASSUME NEW s, Good(s), NEW c \in Clients, Known(s, c).managed \/ Known(s, c).win # "mapped",
         NEW focus, focus \in Clients \cup {None}, NEW t, t = HandleMapRequest(s, c, focus)
  PROVE  Stepped(t, s, c, V!HandleMapRequest(Seen(s, c), s.current))
  <1>1. Sound(s) /\ Idles(s) /\ s.current \in Workspaces
    BY DEF Good, Sound, States
  <1>2. PICK n \in Seq(V!Notices) : n = NoticesOf(s.queue, c) /\ Seen(s, c) = Prefixed(n, Known(s, c))
    BY SeenAgain
  <1>3. PICK r \in V!Client : r = Known(s, c)
    BY SeenAgain
  <1>4. PICK q : q = V!HandleMapRequest(r, s.current)
    OBVIOUS
  <1>5. /\ V!HandleMapRequest(Prefixed(n, r), s.current) = Prefixed(n, q)
        /\ q \in V!Client /\ q.managed
        /\ r.managed => q.place = r.place /\ q.ul = r.ul
        /\ ~r.managed => q.ul = "can" /\ q.place = q.workspace /\ q.workspace \in Workspaces
    BY <1>1, <1>3, <1>4, MapRequestIs
  <1>6. CASE r.managed
    <2>1. PICK k, w, e : /\ Spot(s, c, k, w, e) /\ r.place = w /\ r.ul = UlAt(k, e)
                         /\ ModeAt(k, e) = Mode(s, c)
      BY <1>3, <1>6, KnownSpot
    <2>2. t = Put(s, c, q)
      BY <1>3, <1>4, <1>6 DEF HandleMapRequest
    <2>3. Stands(s, s, c, q)
      BY <1>5, <1>6, <2>1 DEF Stands
    <2>4. Touches(s, s, c)
      BY <1>1, TouchesNot
    <2> QED
      BY <1>2, <1>3, <1>5, <2>2, <2>3, <2>4, StepIs
  <1>7. CASE ~r.managed
    <2>1. Nowhere(s, c) /\ s.flags[c] = NoFlags
      BY <1>3, <1>7, KnownSpot
    <2>2. PICK float \in BOOLEAN : float = (c \in Floats /\ q.known)
      OBVIOUS
    <2>3. PICK a : a = StartLists(s, c, q.workspace, float, focus)
      OBVIOUS
    <2>4. PICK e : Moved(a, s, c, "ul", q.workspace, e) /\ e.stay = FALSE
      <3>1. IntMax \in Int
        BY IntMaxAssumption
      <3> QED
        BY <1>1, <1>5, <1>7, <2>1, <2>3, <3>1, StartListsIs
    <2>5. t = Put(a, c, q)
      BY <1>3, <1>4, <1>7, <2>2, <2>3 DEF HandleMapRequest
    <2>6. Touches(a, s, c) /\ Spot(a, c, "ul", q.workspace, e)
      BY <2>4 DEF Moved, Spot
    <2>7. ~s.client[c].managed
      BY <1>1, <1>3, <1>7, KnownIs
    <2>8. q.ul = UlAt("ul", e)
      BY <1>5, <1>7, <2>4 DEF UlAt
    <2>9. Stands(a, s, c, q)
      BY <1>5, <1>7, <2>6, <2>7, <2>8 DEF Stands
    <2> QED
      BY <1>2, <1>3, <1>5, <2>5, <2>6, <2>9, StepIs
  <1> QED
    BY <1>6, <1>7

(* What clients do, and the keys about one client.                         *)

LEMMA RequestedIs ==
  ASSUME NEW s, Good(s), NEW c \in Clients,
         NEW t, t = Put(s, c, [Known(s, c) EXCEPT !.notices = <<"request">>])
  PROVE  Stepped(t, s, c, [Seen(s, c) EXCEPT !.notices = Append(@, "request")])
  <1>1. PICK n \in Seq(V!Notices) : n = NoticesOf(s.queue, c) /\ Seen(s, c) = Prefixed(n, Known(s, c))
    BY SeenAgain
  <1>2. PICK r \in V!Client : r = Known(s, c) /\ r.notices = <<>>
    BY KnownIs DEF Good
  <1>3. PICK e \in V!Notices : e = "request"
    BY DEF V!Notices
  <1>4. PICK b \in Seq(V!Notices) : b = <<e>>
    <2>1. <<e>> \in Seq(V!Notices)
      OBVIOUS
    <2> QED
      BY <2>1
  <1>5. PICK q \in V!Client : q = [r EXCEPT !.notices = b]
    BY DEF V!Client
  <1>6. Keeps(q, r)
    BY <1>5 DEF Keeps, V!Client
  <1>7. Seen(s, c) = [r EXCEPT !.notices = n]
    <2>1. n \o <<>> = n
      OBVIOUS
    <2> QED
      BY <1>1, <1>2, <2>1 DEF Prefixed, V!Client
  <1>8. PICK m : m = n \o b
    OBVIOUS
  <1>9. m = Append(n, e)
    BY <1>4, <1>8
  <1>10. [Seen(s, c) EXCEPT !.notices = Append(@, e)] = [r EXCEPT !.notices = m]
    BY <1>7, <1>9 DEF V!Client
  <1>11. Prefixed(n, q) = [r EXCEPT !.notices = m]
    BY <1>5, <1>8 DEF Prefixed, V!Client
  <1>12. t = Put(s, c, q)
    BY <1>2, <1>3, <1>4, <1>5
  <1> QED
    BY <1>1, <1>2, <1>3, <1>6, <1>10, <1>11, <1>12, StillIs

LEMMA DestroyedIs ==
  ASSUME NEW s, Good(s), NEW c \in Clients,
         NEW t, t = Put(s, c, [V!XUnmapWindow(Known(s, c)) EXCEPT
                                 !.notices = Append(@, "destroy"), !.win = "gone"])
  PROVE  Stepped(t, s, c, [V!XUnmapWindow(Seen(s, c)) EXCEPT
                             !.notices = Append(@, "destroy"), !.win = "gone"])
  <1>1. PICK n \in Seq(V!Notices) : n = NoticesOf(s.queue, c) /\ Seen(s, c) = Prefixed(n, Known(s, c))
    BY SeenAgain
  <1>2. PICK r \in V!Client : r = Known(s, c)
    BY SeenAgain
  <1>3. PICK x : x = V!XUnmapWindow(r)
    OBVIOUS
  <1>4. /\ V!XUnmapWindow(Prefixed(n, r)) = Prefixed(n, x) /\ x \in V!Client /\ Keeps(x, r)
    <2>1. Extends(V!XUnmapWindow(Prefixed(n, r)), V!XUnmapWindow(r), n, r)
      BY XUnmapIs
    <2> QED
      BY <1>3, <2>1 DEF Extends, Keeps
  <1>5. PICK y : y = Says(x, "gone", "destroy")
    OBVIOUS
  <1>6. /\ Says(Prefixed(n, x), "gone", "destroy") = Prefixed(n, y) /\ Keeps(y, x)
    <2>1. "destroy" \in V!Notices
      BY DEF V!Notices
    <2>2. Extends(Says(Prefixed(n, x), "gone", "destroy"), Says(x, "gone", "destroy"), n, x)
      BY <1>4, <2>1, SaysIs
    <2> QED
      BY <1>5, <2>2 DEF Extends
  <1>7. y \in V!Client /\ Keeps(y, r)
    BY <1>4, <1>6 DEF Keeps
  <1>8. t = Put(s, c, y)
    <2>1. y = [x EXCEPT !.notices = Append(@, "destroy"), !.win = "gone"]
      BY <1>4, <1>5 DEF Says, V!Client
    <2> QED
      BY <1>2, <1>3, <2>1
  <1>9. [V!XUnmapWindow(Seen(s, c)) EXCEPT !.notices = Append(@, "destroy"), !.win = "gone"]
          = Prefixed(n, y)
    <2>1. PICK p \in V!Client : p = Prefixed(n, x)
      BY <1>4, PrefixedIs
    <2>2. Says(p, "gone", "destroy") = [p EXCEPT !.notices = Append(@, "destroy"), !.win = "gone"]
      BY DEF Says, V!Client
    <2> QED
      BY <1>1, <1>2, <1>4, <1>6, <2>1, <2>2
  <1> QED
    BY <1>1, <1>2, <1>7, <1>8, <1>9, StillIs

(* The marks of the user: to stay unmapped, or not.                        *)
Marked(r, b) == [r EXCEPT !.future_stay = b]

LEMMA MarkedIs ==
  ASSUME NEW a \in Seq(V!Notices), NEW r \in V!Client, NEW b \in BOOLEAN
  PROVE  /\ Marked(Prefixed(a, r), b) = Prefixed(a, Marked(r, b)) /\ Keeps(Marked(r, b), r)
         /\ Marked(r, b) \in V!Client
  <1>1. Marked(r, b) \in V!Client
    BY DEF Marked, V!Client
  <1>2. Keeps(Marked(r, b), r)
    BY <1>1 DEF Marked, V!Client, Keeps
  <1>3. Marked(Prefixed(a, r), b) = Prefixed(a, Marked(r, b))
    BY DEF Marked, V!Client, Prefixed
  <1> QED
    BY <1>1, <1>2, <1>3

LEMMA UnmappedIs ==
  ASSUME NEW s, Good(s), NEW c \in Clients, NEW b \in BOOLEAN,
         NEW t, t = Put(s, c, V!UnmapClient(Marked(Known(s, c), b)))
  PROVE  Stepped(t, s, c, V!UnmapClient(Marked(Seen(s, c), b)))
  <1>1. PICK n \in Seq(V!Notices) : n = NoticesOf(s.queue, c) /\ Seen(s, c) = Prefixed(n, Known(s, c))
    BY SeenAgain
  <1>2. PICK r \in V!Client : r = Known(s, c)
    BY SeenAgain
  <1>3. PICK m \in V!Client : m = Marked(r, b) /\ Marked(Prefixed(n, r), b) = Prefixed(n, m) /\ Keeps(m, r)
    BY MarkedIs
  <1>4. Extends(V!UnmapClient(Prefixed(n, m)), V!UnmapClient(m), n, m)
    BY UnmapIs
  <1>5. PICK q : q = V!UnmapClient(m)
    OBVIOUS
  <1>6. q \in V!Client /\ Keeps(q, r) /\ V!UnmapClient(Prefixed(n, m)) = Prefixed(n, q)
    BY <1>3, <1>4, <1>5 DEF Extends, Keeps
  <1> QED
    BY <1>1, <1>2, <1>3, <1>5, <1>6, StillIs

LEMMA MappedIs ==
  ASSUME NEW s, Good(s), NEW c \in Clients, NEW b \in BOOLEAN,
         NEW t, t = Put(s, c, V!MapClient(Marked(Known(s, c), b)))
  PROVE  Stepped(t, s, c, V!MapClient(Marked(Seen(s, c), b)))
  <1>1. PICK n \in Seq(V!Notices) : n = NoticesOf(s.queue, c) /\ Seen(s, c) = Prefixed(n, Known(s, c))
    BY SeenAgain
  <1>2. PICK r \in V!Client : r = Known(s, c)
    BY SeenAgain
  <1>3. PICK m \in V!Client : m = Marked(r, b) /\ Marked(Prefixed(n, r), b) = Prefixed(n, m) /\ Keeps(m, r)
    BY MarkedIs
  <1>4. Extends(V!MapClient(Prefixed(n, m)), V!MapClient(m), n, m)
    BY MapIs
  <1>5. PICK q : q = V!MapClient(m)
    OBVIOUS
  <1>6. q \in V!Client /\ Keeps(q, r) /\ V!MapClient(Prefixed(n, m)) = Prefixed(n, q)
    BY <1>3, <1>4, <1>5 DEF Extends, Keeps
  <1> QED
    BY <1>1, <1>2, <1>3, <1>5, <1>6, StillIs

LEMMA LeftIs ==
  ASSUME NEW s, Good(s), NEW c \in Clients, NEW t, t = Put(s, c, V!Leave(Known(s, c)))
  PROVE  Stepped(t, s, c, V!Leave(Seen(s, c)))
  <1>1. PICK n \in Seq(V!Notices) : n = NoticesOf(s.queue, c) /\ Seen(s, c) = Prefixed(n, Known(s, c))
    BY SeenAgain
  <1>2. PICK r \in V!Client : r = Known(s, c)
    BY SeenAgain
  <1>3. Extends(V!Leave(Prefixed(n, r)), V!Leave(r), n, r)
    BY LeaveIs
  <1>4. PICK q : q = V!Leave(r)
    OBVIOUS
  <1>5. q \in V!Client /\ Keeps(q, r) /\ V!Leave(Prefixed(n, r)) = Prefixed(n, q)
    BY <1>3, <1>4 DEF Extends, Keeps
  <1> QED
    BY <1>1, <1>2, <1>4, <1>5, StillIs

LEMMA EnteredIs ==
  ASSUME NEW s, Good(s), NEW c \in Clients, NEW t, t = Put(s, c, V!Enter(Known(s, c)))
  PROVE  Stepped(t, s, c, V!Enter(Seen(s, c)))
  <1>1. PICK n \in Seq(V!Notices) : n = NoticesOf(s.queue, c) /\ Seen(s, c) = Prefixed(n, Known(s, c))
    BY SeenAgain
  <1>2. PICK r \in V!Client : r = Known(s, c)
    BY SeenAgain
  <1>3. Extends(V!Enter(Prefixed(n, r)), V!Enter(r), n, r)
    BY EnterIs
  <1>4. PICK q : q = V!Enter(r)
    OBVIOUS
  <1>5. q \in V!Client /\ Keeps(q, r) /\ V!Enter(Prefixed(n, r)) = Prefixed(n, q)
    BY <1>3, <1>4 DEF Extends, Keeps
  <1> QED
    BY <1>1, <1>2, <1>4, <1>5, StillIs

-----------------------------------------------------------------------------
(* Clients of an unmapped list are allowed to be mapped.                   *)
Eased(e) == [e EXCEPT !.stay = FALSE]

LEMMA EasedRecord ==
  ASSUME NEW e \in Unmapped
  PROVE  /\ Eased(e) \in Unmapped /\ Eased(e).of = e.of /\ Eased(e).origin = e.origin
         /\ Eased(e).before = e.before /\ Eased(e).stay = FALSE
  BY DEF Eased, Unmapped

(* The record e as it is in l2, where some of those of l have been eased.  *)
Eases(l2, l) ==
  /\ l2 \in Seq(Unmapped) /\ Len(l2) = Len(l)
  /\ \A i \in 1..Len(l) : l2[i] = l[i] \/ l2[i] = Eased(l[i])

LEMMA EasedList ==
  ASSUME NEW l \in Seq(Unmapped), IsInjective(Members(l)), NEW l2, Eases(l2, l)
  PROVE  /\ IsInjective(Members(l2))
         /\ \A i \in 1..Len(l) : l2[i] \in Unmapped /\ l2[i].of = l[i].of
                                 /\ l2[i].origin = l[i].origin /\ l2[i].before = l[i].before
  <1>1. \A i \in 1..Len(l) : l2[i] \in Unmapped /\ l2[i].of = l[i].of
                             /\ l2[i].origin = l[i].origin /\ l2[i].before = l[i].before
    <2> SUFFICES ASSUME NEW i \in 1..Len(l)
                 PROVE  l2[i] \in Unmapped /\ l2[i].of = l[i].of
                        /\ l2[i].origin = l[i].origin /\ l2[i].before = l[i].before
      OBVIOUS
    <2>1. l[i] \in Unmapped
      OBVIOUS
    <2>2. l2[i] = l[i] \/ l2[i] = Eased(l[i])
      BY DEF Eases
    <2> QED
      BY <2>1, <2>2, EasedRecord
  <1>2. l2 \in Seq(Unmapped) /\ Len(l2) = Len(l)
    BY DEF Eases
  <1>3. /\ \A r \in Unmapped : r.of \in Clients
    BY RecordTypes
  <1>4. PICK m : m = Members(l)
    OBVIOUS
  <1>5. PICK m2 : m2 = Members(l2)
    OBVIOUS
  <1>6. m \in Seq(Clients) /\ Len(m) = Len(l) /\ \A i \in 1..Len(l) : m[i] = l[i].of
    BY <1>3, <1>4, MembersIs
  <1>7. m2 \in Seq(Clients) /\ Len(m2) = Len(l) /\ \A i \in 1..Len(l) : m2[i] = l2[i].of
    BY <1>2, <1>3, <1>5, MembersIs
  <1>8. IsInjective(m)
    BY <1>4
  <1>9. IsInjective(m2)
    BY <1>1, <1>6, <1>7, <1>8 DEF IsInjective
  <1> QED
    BY <1>1, <1>5, <1>9

(* l2 takes the place of l.                                                *)
UlIsNow(t, s, w, l, l2) ==
  /\ \A k, v, e : ~(k = "ul" /\ v = w) => (At(t, k, v, e) <=> At(s, k, v, e))
  /\ \A i \in 1..Len(l) : At(s, "ul", w, l[i]) /\ At(t, "ul", w, l2[i])
  /\ \A e : At(t, "ul", w, e) => \E i \in 1..Len(l) : e = l2[i]
  /\ \A e : At(s, "ul", w, e) => \E i \in 1..Len(l) : e = l[i]

LEMMA EasedAt ==
  ASSUME NEW s, Sound(s), NEW w \in Workspaces, NEW l, l = s.lists[w].ul, NEW l2, Eases(l2, l),
         NEW t, t = WithUl(s, w, l2)
  PROVE  /\ Sound(t) /\ SameElse(t, s) /\ t.flags = s.flags
         /\ UlIsNow(t, s, w, l, l2)
  <1>1. l \in Seq(Unmapped) /\ IsInjective(Members(l))
    BY SoundIs
  <1>2. l2 \in Seq(Unmapped) /\ Len(l2) = Len(l) /\ IsInjective(Members(l2))
    BY <1>1, EasedList DEF Eases
  <1>3. /\ Sound(t) /\ SameElse(t, s) /\ t.flags = s.flags
        /\ \A k1, w1, e1 : At(t, k1, w1, e1) <=>
              IF k1 = "ul" /\ w1 = w THEN In(l2, e1) ELSE At(s, k1, w1, e1)
    BY <1>2, UlUpdated
  <1>4. /\ \A e : In(l, e) <=> \E i \in 1..Len(l) : l[i] = e
        /\ \A e : In(l2, e) <=> \E i \in 1..Len(l) : l2[i] = e
    BY SMTT(60), <1>1, <1>2, InOf
  <1>5. \A e : At(s, "ul", w, e) <=> In(l, e)
    BY DEF At
  <1>6. \A k, v, e : ~(k = "ul" /\ v = w) => (At(t, k, v, e) <=> At(s, k, v, e))
    BY <1>3
  <1>7. \A e : At(t, "ul", w, e) <=> In(l2, e)
    BY <1>3
  <1> QED
    BY <1>3, <1>4, <1>5, <1>6, <1>7 DEF UlIsNow

SpotsAway(t, s, w, c) ==
  \A k, v, e : Spot(s, c, k, v, e) /\ ~(k = "ul" /\ v = w) => Spot(t, c, k, v, e)

SpotsThere(t, s, w, l, l2, c) ==
  \A i \in 1..Len(l) : Spot(s, c, "ul", w, l[i]) => Spot(t, c, "ul", w, l2[i])

LEMMA EasedSpots ==
  ASSUME NEW s, Sound(s), NEW w \in Workspaces, NEW l, l = s.lists[w].ul, NEW l2, Eases(l2, l),
         NEW t, t = WithUl(s, w, l2), NEW c
  PROVE  /\ Nowhere(s, c) => Nowhere(t, c)
         /\ SpotsAway(t, s, w, c) /\ SpotsThere(t, s, w, l, l2, c)
  <1>1. /\ \A k, v, e : ~(k = "ul" /\ v = w) => (At(t, k, v, e) <=> At(s, k, v, e))
        /\ \A i \in 1..Len(l) : At(s, "ul", w, l[i]) /\ At(t, "ul", w, l2[i])
        /\ \A e : At(t, "ul", w, e) => \E i \in 1..Len(l) : e = l2[i]
        /\ \A e : At(s, "ul", w, e) => \E i \in 1..Len(l) : e = l[i]
    <2>1. UlIsNow(t, s, w, l, l2)
      BY EasedAt
    <2> QED
      BY <2>1 DEF UlIsNow
  <1>2. t.flags = s.flags
    BY EasedAt
  <1>3. l \in Seq(Unmapped) /\ IsInjective(Members(l))
    BY SoundIs
  <1>4. \A i \in 1..Len(l) : l2[i] \in Unmapped /\ l2[i].of = l[i].of
                             /\ l2[i].origin = l[i].origin /\ l2[i].before = l[i].before
    BY <1>3, EasedList
  <1>5. \A i \in 1..Len(l) : Who("ul", l2[i]) = Who("ul", l[i])
    BY <1>4 DEF Who
  <1>6. ASSUME Nowhere(s, c), NEW k, NEW v, NEW e, At(t, k, v, e)
        PROVE  Who(k, e) # c
    <2>1. CASE k = "ul" /\ v = w
      <3>1. PICK i \in 1..Len(l) : e = l2[i]
        BY <1>1, <1>6, <2>1
      <3>2. At(s, "ul", w, l[i])
        BY <1>1
      <3>3. Who("ul", l[i]) # c
        BY <1>6, <3>2 DEF Nowhere
      <3> QED
        BY <1>5, <2>1, <3>1, <3>3
    <2>2. CASE ~(k = "ul" /\ v = w)
      BY <1>1, <1>6, <2>2 DEF Nowhere
    <2> QED
      BY <2>1, <2>2
  <1>7. ASSUME NEW k, NEW v, NEW e, Spot(s, c, k, v, e), ~(k = "ul" /\ v = w)
        PROVE  Spot(t, c, k, v, e)
    <2>1. /\ At(s, k, v, e) /\ Who(k, e) = c
          /\ \A k1, w1, e1 : At(s, k1, w1, e1) /\ Who(k1, e1) = c => k1 = k /\ w1 = v /\ e1 = e
      BY <1>7 DEF Spot, Home
    <2>2. ASSUME NEW k1, NEW w1, NEW e1, At(t, k1, w1, e1), Who(k1, e1) = c
          PROVE  k1 = k /\ w1 = v /\ e1 = e
      <3>1. CASE k1 = "ul" /\ w1 = w
        <4>1. PICK i \in 1..Len(l) : e1 = l2[i]
          BY <1>1, <2>2, <3>1
        <4>2. At(s, k1, w1, l[i]) /\ Who(k1, l[i]) = c
          BY <1>1, <1>5, <2>2, <3>1, <4>1
        <4> QED
          BY <1>7, <2>1, <3>1, <4>2
      <3>2. CASE ~(k1 = "ul" /\ w1 = w)
        BY <1>1, <2>1, <2>2, <3>2
      <3> QED
        BY <3>1, <3>2
    <2>3. At(t, k, v, e)
      BY <1>1, <1>7, <2>1
    <2>4. Home(t, c, k, v, e)
      BY <2>1, <2>2, <2>3 DEF Home
    <2> QED
      BY <1>2, <1>7, <2>4 DEF Spot
  <1>8. ASSUME NEW i \in 1..Len(l), Spot(s, c, "ul", w, l[i])
        PROVE  Spot(t, c, "ul", w, l2[i])
    <2>1. /\ At(s, "ul", w, l[i]) /\ Who("ul", l[i]) = c
          /\ \A k1, w1, e1 : At(s, k1, w1, e1) /\ Who(k1, e1) = c => k1 = "ul" /\ w1 = w /\ e1 = l[i]
      BY <1>8 DEF Spot, Home
    <2>2. ASSUME NEW k1, NEW w1, NEW e1, At(t, k1, w1, e1), Who(k1, e1) = c
          PROVE  k1 = "ul" /\ w1 = w /\ e1 = l2[i]
      <3>1. CASE k1 = "ul" /\ w1 = w
        <4>1. PICK j \in 1..Len(l) : e1 = l2[j]
          BY <1>1, <2>2, <3>1
        <4>2. At(s, "ul", w, l[j]) /\ Who("ul", l[j]) = c
          BY <1>1, <1>5, <2>2, <3>1, <4>1
        <4>3. l[j] = l[i] /\ l[i].of = c /\ l[j].of = c
          BY <2>1, <4>2 DEF Who
        <4>4. j = i
          <5>1. PICK m : m = Members(l)
            OBVIOUS
          <5>2. m \in Seq(Clients) /\ Len(m) = Len(l) /\ \A x \in 1..Len(l) : m[x] = l[x].of
            BY <1>3, <5>1, RecordTypes, MembersIs
          <5>3. IsInjective(m)
            BY <1>3, <5>1
          <5> QED
            BY <4>3, <5>2, <5>3 DEF IsInjective
        <4> QED
          BY <3>1, <4>1, <4>4
      <3>2. CASE ~(k1 = "ul" /\ w1 = w)
        BY <1>1, <2>1, <2>2, <3>2
      <3> QED
        BY <3>1, <3>2
    <2>3. At(t, "ul", w, l2[i]) /\ Who("ul", l2[i]) = c
      BY <1>1, <1>5, <2>1
    <2>4. Home(t, c, "ul", w, l2[i])
      BY <2>2, <2>3 DEF Home
    <2>5. Fits(s.flags[c], "ul", l[i])
      BY <1>8 DEF Spot
    <2>6. Fits(t.flags[c], "ul", l2[i])
      BY <1>2, <1>4, <2>5 DEF Fits
    <2> QED
      BY <2>4, <2>6 DEF Spot
  <1>9. Nowhere(s, c) => Nowhere(t, c)
    BY <1>6 DEF Nowhere
  <1> QED
    BY <1>7, <1>8, <1>9 DEF SpotsAway, SpotsThere

CanMap(r) == [r EXCEPT !.ul = "can"]

LEMMA EasedThere ==
  ASSUME NEW s, Good(s), NEW w \in Workspaces, NEW l, l = s.lists[w].ul, NEW l2, Eases(l2, l),
         NEW t, t = WithUl(s, w, l2)
  PROVE  \A i \in 1..Len(l) : /\ Spot(s, l[i].of, "ul", w, l[i])
                              /\ Spot(t, l[i].of, "ul", w, l2[i])
  <1>1. Sound(s)
    BY DEF Good
  <1>0. UlIsNow(t, s, w, l, l2)
    BY <1>1, EasedAt
  <1>2. \A i \in 1..Len(l) : At(s, "ul", w, l[i]) /\ At(t, "ul", w, l2[i])
    BY <1>0 DEF UlIsNow
  <1>5. ASSUME NEW c PROVE SpotsThere(t, s, w, l, l2, c)
    BY <1>1, EasedSpots
  <1>3. \A c : \A i \in 1..Len(l) : Spot(s, c, "ul", w, l[i]) => Spot(t, c, "ul", w, l2[i])
    BY <1>5 DEF SpotsThere
  <1>4. ASSUME NEW i \in 1..Len(l) PROVE Spot(s, l[i].of, "ul", w, l[i])
    <2>1. At(s, "ul", w, l[i]) /\ Who("ul", l[i]) = l[i].of
      BY <1>2 DEF Who
    <2> QED
      BY <2>1, SpotOf
  <1> QED
    BY <1>3, <1>4

LEMMA EasedAway ==
  ASSUME NEW s, Good(s), NEW w \in Workspaces, NEW l, l = s.lists[w].ul, NEW l2, Eases(l2, l),
         NEW t, t = WithUl(s, w, l2), NEW c, NEW k, NEW v, NEW e, Spot(s, c, k, v, e),
         \A i \in 1..Len(l) : l[i].of # c
  PROVE  Spot(t, c, k, v, e)
  <1>1. Sound(s)
    BY DEF Good
  <1>2. At(s, k, v, e) /\ Who(k, e) = c
    BY DEF Spot, Home
  <1>3. ~(k = "ul" /\ v = w)
    <2>1. UlIsNow(t, s, w, l, l2)
      BY <1>1, EasedAt
    <2>2. \A f : At(s, "ul", w, f) => \E i \in 1..Len(l) : f = l[i]
      BY <2>1 DEF UlIsNow
    <2> QED
      BY <1>2, <2>2 DEF Who
  <1>4. SpotsAway(t, s, w, c)
    BY <1>1, EasedSpots
  <1> QED
    BY <1>3, <1>4 DEF SpotsAway

LEMMA EasedOne ==
  ASSUME NEW s, Good(s), NEW w \in Workspaces, NEW l, l = s.lists[w].ul, NEW l2, Eases(l2, l),
         NEW t, t = WithUl(s, w, l2), NEW i \in 1..Len(l), NEW c, c = l[i].of
  PROVE  /\ Spot(s, c, "ul", w, l[i]) /\ Spot(t, c, "ul", w, l2[i]) /\ c \in Clients
         /\ Mode(t, c) = Mode(s, c)
         /\ l2[i] = l[i] => Seen(t, c) = Seen(s, c)
         /\ l2[i] = Eased(l[i]) => Seen(t, c) = CanMap(Seen(s, c))
  <1>1. Sound(s)
    BY DEF Good
  <1>3. Sound(t) /\ SameElse(t, s)
    BY <1>1, EasedAt
  <1>4. \A j \in 1..Len(l) : /\ Spot(s, l[j].of, "ul", w, l[j])
                             /\ Spot(t, l[j].of, "ul", w, l2[j])
    BY EasedThere
  <1>5. Spot(s, c, "ul", w, l[i])
    BY <1>4
  <1>6. Spot(t, c, "ul", w, l2[i])
    BY <1>4
  <1>7. Home(s, c, "ul", w, l[i]) /\ Home(t, c, "ul", w, l2[i])
    BY <1>5, <1>6 DEF Spot
  <1>8. c \in Clients /\ l[i] \in Unmapped
    BY <1>1, <1>7, AtHome
  <1>9. /\ PlaceOf(s, c) = w /\ UlOf(s, w, c) = UlAt("ul", l[i]) /\ Mode(s, c) = ModeAt("ul", l[i])
    BY <1>1, <1>7, WhereIs
  <1>10. /\ PlaceOf(t, c) = w /\ UlOf(t, w, c) = UlAt("ul", l2[i]) /\ Mode(t, c) = ModeAt("ul", l2[i])
    BY <1>3, <1>7, WhereIs
  <1>11. l2[i].origin = l[i].origin
    BY <1>8, EasedRecord DEF Eases
  <1>12. Mode(t, c) = Mode(s, c)
    BY <1>9, <1>10, <1>11 DEF ModeAt
  <1>13. ASSUME l2[i] = l[i] PROVE Seen(t, c) = Seen(s, c)
    BY <1>3, <1>9, <1>10, <1>13 DEF Seen, Known, SameElse
  <1>14. ASSUME l2[i] = Eased(l[i]) PROVE Seen(t, c) = CanMap(Seen(s, c))
    <2>1. UlAt("ul", l2[i]) = "can"
      BY <1>8, <1>14, EasedRecord DEF UlAt
    <2>2. PICK r \in V!Client : r = s.client[c]
      BY <1>1, <1>8 DEF Sound, States
    <2>3. Seen(t, c) = [[r EXCEPT !.place = w, !.ul = "can"] EXCEPT !.notices = NoticesOf(s.queue, c)]
      BY <1>3, <1>10, <2>1, <2>2 DEF Seen, Known, SameElse
    <2>4. PICK u : u = UlAt("ul", l[i])
      OBVIOUS
    <2>5. Seen(s, c) = [[r EXCEPT !.place = w, !.ul = u] EXCEPT !.notices = NoticesOf(s.queue, c)]
      BY <1>9, <2>2, <2>4 DEF Seen, Known
    <2>6. PICK n : n = NoticesOf(s.queue, c)
      OBVIOUS
    <2>7. [[[r EXCEPT !.place = w, !.ul = u] EXCEPT !.notices = n] EXCEPT !.ul = "can"]
            = [[r EXCEPT !.place = w, !.ul = "can"] EXCEPT !.notices = n]
      BY DEF V!Client
    <2> QED
      BY <2>3, <2>5, <2>6, <2>7 DEF CanMap
  <1> QED
    BY <1>5, <1>6, <1>8, <1>12, <1>13, <1>14

LEMMA EasedOthers ==
  ASSUME NEW s, Good(s), NEW w \in Workspaces, NEW l, l = s.lists[w].ul, NEW l2, Eases(l2, l),
         NEW t, t = WithUl(s, w, l2), NEW c \in Clients, \A i \in 1..Len(l) : l[i].of # c
  PROVE  /\ Nowhere(s, c) => Nowhere(t, c)
         /\ \A k, v, e : Spot(s, c, k, v, e) => Spot(t, c, k, v, e)
         /\ s.client[c].managed => Mode(t, c) = Mode(s, c)
         /\ Seen(t, c) = Seen(s, c)
  <1>1. Sound(s) /\ Placed(s, c)
    BY DEF Good
  <1>2. Sound(t) /\ SameElse(t, s)
    BY <1>1, EasedAt
  <1>3. Nowhere(s, c) => Nowhere(t, c)
    BY <1>1, EasedSpots
  <1>4. ASSUME NEW k, NEW v, NEW e, Spot(s, c, k, v, e)
        PROVE  Spot(t, c, k, v, e)
    BY <1>4, EasedAway
  <1>5. \/ Nowhere(s, c) /\ Nowhere(t, c)
        \/ \E k, v, e : Home(s, c, k, v, e) /\ Home(t, c, k, v, e)
    BY <1>1, <1>3, <1>4 DEF Placed, Spot
  <1>6. /\ PlaceOf(t, c) = PlaceOf(s, c)
        /\ UlOf(t, PlaceOf(t, c), c) = UlOf(s, PlaceOf(s, c), c)
    BY <1>1, <1>2, <1>5, SameAnswers
  <1>7. Seen(t, c) = Seen(s, c)
    BY <1>2, <1>6 DEF Seen, Known, SameElse
  <1>8. ASSUME s.client[c].managed PROVE Mode(t, c) = Mode(s, c)
    <2>1. PICK k, v, e : Spot(s, c, k, v, e)
      BY <1>1, <1>8 DEF Placed
    <2>2. Home(s, c, k, v, e) /\ Home(t, c, k, v, e)
      BY <1>4, <2>1 DEF Spot
    <2>3. Mode(s, c) = ModeAt(k, e)
      BY <1>1, <2>2, WhereIs
    <2>4. Mode(t, c) = ModeAt(k, e)
      BY <1>2, <2>2, WhereIs
    <2> QED
      BY <2>3, <2>4
  <1> QED
    BY <1>3, <1>4, <1>7, <1>8

LEMMA EasedIs ==
  ASSUME NEW s, Good(s), NEW w \in Workspaces, NEW l, l = s.lists[w].ul, NEW l2, Eases(l2, l),
         NEW t, t = WithUl(s, w, l2)
  PROVE  /\ Good(t) /\ SameMode(t, s) /\ t.client = s.client /\ t.current = s.current
  <1>1. Sound(s) /\ Idles(s) /\ \A c \in Clients : Placed(s, c)
    BY DEF Good
  <1>2. Sound(t) /\ SameElse(t, s) /\ t.flags = s.flags
    BY <1>1, EasedAt
  <1>3. t.client = s.client /\ t.current = s.current
    BY <1>2 DEF SameElse
  <1>4. ASSUME NEW c \in Clients
        PROVE  Placed(t, c) /\ (s.client[c].managed => Mode(t, c) = Mode(s, c))
    <2>1. CASE \A i \in 1..Len(l) : l[i].of # c
      <3>1. /\ Nowhere(s, c) => Nowhere(t, c)
            /\ \A k, v, e : Spot(s, c, k, v, e) => Spot(t, c, k, v, e)
            /\ s.client[c].managed => Mode(t, c) = Mode(s, c)
        BY <2>1, EasedOthers
      <3> QED
        BY <1>1, <1>2, <1>3, <3>1 DEF Placed
    <2>2. CASE \E i \in 1..Len(l) : l[i].of = c
      <3>1. PICK i \in 1..Len(l) : l[i].of = c
        BY <2>2
      <3>2. /\ Spot(s, c, "ul", w, l[i]) /\ Spot(t, c, "ul", w, l2[i])
            /\ Mode(t, c) = Mode(s, c)
        <4>1. c = l[i].of
          BY <3>1
        <4>2. Spot(s, c, "ul", w, l[i]) /\ Spot(t, c, "ul", w, l2[i])
          BY <4>1, EasedThere
        <4>3. Mode(t, c) = Mode(s, c)
          BY <4>1, <4>2, EasedOne, SMTT(30)
        <4> QED
          BY <4>2, <4>3
      <3>3. s.client[c].managed
        <4>1. ~Nowhere(s, c)
          BY <3>2 DEF Nowhere, Spot, Home
        <4> QED
          BY <1>1, <4>1 DEF Placed
      <3> QED
        BY <1>3, <3>2, <3>3 DEF Placed
    <2> QED
      BY <2>1, <2>2
  <1>5. Idles(t)
    BY <1>1, <1>3 DEF Idles
  <1>6. SameMode(t, s)
    BY <1>4 DEF SameMode
  <1> QED
    BY <1>2, <1>3, <1>4, <1>5, <1>6 DEF Good

Sent(r, w) == [r EXCEPT !.workspace = w, !.desktop = w, !.place = w]

LEMMA SentIs ==
  ASSUME NEW a \in Seq(V!Notices), NEW r \in V!Client, NEW w \in Workspaces
  PROVE  /\ Sent(Prefixed(a, r), w) = Prefixed(a, Sent(r, w)) /\ Sent(r, w) \in V!Client
         /\ Sent(r, w).managed = r.managed /\ Sent(r, w).ul = r.ul /\ Sent(r, w).place = w
  <1>1. Sent(r, w) \in V!Client
    BY DEF Sent, V!Client
  <1>2. Sent(r, w).managed = r.managed /\ Sent(r, w).ul = r.ul /\ Sent(r, w).place = w
    BY DEF Sent, V!Client
  <1>3. Sent(Prefixed(a, r), w) = Prefixed(a, Sent(r, w))
    BY DEF Sent, V!Client, Prefixed
  <1> QED
    BY <1>1, <1>2, <1>3

LEMMA MoveIs ==
  ASSUME NEW s, Good(s), NEW c \in Clients, Known(s, c).managed, Known(s, c).place = s.current,
         Known(s, c).ul = "none", NEW w \in Workspaces, w # s.current,
         NEW t, t = ActionMoveToWorkspace(s, c, w)
  PROVE  Stepped(t, s, c, V!UnmapClient(Sent(Seen(s, c), w)))
  <1>1. Sound(s)
    BY DEF Good
  <1>2. PICK n \in Seq(V!Notices) : n = NoticesOf(s.queue, c) /\ Seen(s, c) = Prefixed(n, Known(s, c))
    BY SeenAgain
  <1>3. PICK r \in V!Client : r = Known(s, c)
    BY SeenAgain
  <1>4. PICK k, v, e : /\ Spot(s, c, k, v, e) /\ r.place = v /\ r.ul = UlAt(k, e)
                       /\ ModeAt(k, e) = Mode(s, c) /\ k \in {"cl", "fl", "ml", "ul"}
    BY <1>3, KnownSpot
  <1>5. k \in {"cl", "fl", "ml"} /\ v = s.current
    BY <1>3, <1>4 DEF UlAt
  <1>6. PICK a : a = MoveLists(s, c, s.current, w)
    OBVIOUS
  <1>7. Home(s, c, k, v, e) /\ Fits(s.flags[c], k, e)
    BY <1>4 DEF Spot
  <1>8. Moved(a, s, c, k, w, e)
    BY <1>1, <1>5, <1>6, <1>7, MoveListsIs
  <1>9. Touches(a, s, c) /\ Spot(a, c, k, w, e)
    BY <1>8 DEF Moved, Spot
  <1>10. PICK m \in V!Client : /\ m = Sent(r, w) /\ Sent(Prefixed(n, r), w) = Prefixed(n, m)
                               /\ m.managed = r.managed /\ m.ul = r.ul /\ m.place = w
    BY SentIs
  <1>11. PICK q : q = V!UnmapClient(m)
    OBVIOUS
  <1>12. q \in V!Client /\ Keeps(q, m) /\ V!UnmapClient(Prefixed(n, m)) = Prefixed(n, q)
    <2>1. Extends(V!UnmapClient(Prefixed(n, m)), V!UnmapClient(m), n, m)
      BY UnmapIs
    <2> QED
      BY <1>11, <2>1 DEF Extends, Keeps
  <1>13. t = Put(a, c, q)
    BY <1>3, <1>6, <1>10, <1>11 DEF ActionMoveToWorkspace, Sent
  <1>14. Stands(a, s, c, q)
    <2>1. q.managed /\ q.place = w /\ q.ul = UlAt(k, e)
      BY <1>3, <1>4, <1>10, <1>12 DEF Keeps
    <2> QED
      BY <1>4, <1>9, <2>1 DEF Stands
  <1> QED
    BY <1>2, <1>3, <1>9, <1>10, <1>11, <1>12, <1>13, <1>14, StepIs

(* map-latest-unmap eases the head of the unmapped list.                   *)
EaseFirst(s, w) == [s EXCEPT !.lists[w].ul[1].stay = FALSE]

LEMMA EaseFirstIs ==
  ASSUME NEW s \in States, NEW w \in Workspaces, NEW l \in Seq(Unmapped), l = s.lists[w].ul,
         l # <<>>
  PROVE  \E l2 : /\ EaseFirst(s, w) = WithUl(s, w, l2) /\ Eases(l2, l)
                 /\ l2[1] = Eased(l[1]) /\ \A i \in 1..Len(l) : i # 1 => l2[i] = l[i]
  <1>1. Len(l) \in Nat \ {0} /\ 1 \in 1..Len(l) /\ l[1] \in Unmapped
    OBVIOUS
  <1>2. PICK x \in Unmapped : x = Eased(l[1])
    BY <1>1, EasedRecord
  <1>3. PICK l2 : l2 = [l EXCEPT ![1] = x]
    OBVIOUS
  <1>4. /\ l2 \in Seq(Unmapped) /\ Len(l2) = Len(l) /\ l2[1] = x
        /\ \A i \in 1..Len(l) : i # 1 => l2[i] = l[i]
    BY <1>1, <1>3
  <1>5. Eases(l2, l)
    <2>1. ASSUME NEW i \in 1..Len(l) PROVE l2[i] = l[i] \/ l2[i] = Eased(l[i])
      <3>1. CASE i = 1
        BY <1>2, <1>4, <3>1
      <3>2. CASE i # 1
        BY <1>4, <3>2
      <3> QED
        BY <3>1, <3>2
    <2> QED
      BY <1>4, <2>1 DEF Eases
  <1>6. EaseFirst(s, w) = WithUl(s, w, l2)
    <2>1. l2 = [l EXCEPT ![1].stay = FALSE]
      BY <1>1, <1>2, <1>3 DEF Eased
    <2> QED
      BY <2>1 DEF EaseFirst, WithUl, States, Monitor
  <1> QED
    BY <1>2, <1>4, <1>5, <1>6

LEMMA EaseAllIs ==
  ASSUME NEW s \in States, NEW w \in Workspaces, NEW l \in Seq(Unmapped), l = s.lists[w].ul
  PROVE  \E l2 : /\ CanBeMapped(s, w) = WithUl(s, w, l2) /\ Eases(l2, l)
                 /\ \A i \in 1..Len(l) : l2[i] = Eased(l[i])
  <1>1. PICK l2 : l2 = [i \in DOMAIN l |-> Eased(l[i])]
    OBVIOUS
  <1>2. \A i \in 1..Len(l) : l[i] \in Unmapped /\ Eased(l[i]) \in Unmapped
    <2>1. \A i \in 1..Len(l) : l[i] \in Unmapped
      OBVIOUS
    <2> QED
      BY <2>1, EasedRecord
  <1>3. /\ l2 \in Seq(Unmapped) /\ Len(l2) = Len(l)
        /\ \A i \in 1..Len(l) : l2[i] = Eased(l[i])
    <2>1. DOMAIN l = 1..Len(l) /\ Len(l) \in Nat
      OBVIOUS
    <2> QED
      BY <1>1, <1>2, <2>1
  <1>4. Eases(l2, l)
    BY <1>3 DEF Eases
  <1>5. CanBeMapped(s, w) = WithUl(s, w, l2)
    BY <1>1 DEF CanBeMapped, WithUl, Eased, States, Monitor
  <1> QED
    BY <1>3, <1>4, <1>5

(* Only what is seen of c may differ.                                      *)
Resembles(a, s, c) ==
  /\ Good(a) /\ SameMode(a, s) /\ a.client = s.client /\ a.current = s.current
  /\ \A d \in Clients : d # c => Seen(a, d) = Seen(s, d)

LEMMA SteppedAfter ==
  ASSUME NEW s, NEW a, NEW t, NEW c, NEW q, Resembles(a, s, c), Stepped(t, a, c, q)
  PROVE  Stepped(t, s, c, q)
  BY DEF Resembles, Stepped, SameMode

LEMMA MapLatestIs ==
  ASSUME NEW s, Good(s), s.lists[s.current].ul # <<>>, NEW t, t = ActionMapLatestUnmap(s)
  PROVE  \E c \in Clients :
           /\ Known(s, c).managed /\ Known(s, c).place = s.current /\ Known(s, c).ul # "none"
           /\ Stepped(t, s, c, V!MapClient(Marked(CanMap(Seen(s, c)), FALSE)))
  <1>1. Sound(s) /\ s \in States
    BY DEF Good, Sound
  <1>2. PICK w \in Workspaces : w = s.current
    BY <1>1 DEF States
  <1>3. PICK l \in Seq(Unmapped) : l = s.lists[w].ul
    BY <1>1, SoundIs
  <1>4. l # <<>>
    BY <1>2, <1>3
  <1>5. 1 \in 1..Len(l) /\ Head(l) = l[1]
    BY <1>4
  <1>6. PICK a : a = EaseFirst(s, w)
    OBVIOUS
  <1>7. PICK l2 : /\ a = WithUl(s, w, l2) /\ Eases(l2, l)
                  /\ l2[1] = Eased(l[1]) /\ \A i \in 1..Len(l) : i # 1 => l2[i] = l[i]
    BY <1>1, <1>3, <1>4, <1>6, EaseFirstIs
  <1>8. PICK c : c = l[1].of
    OBVIOUS
  <1>9. Good(a) /\ SameMode(a, s) /\ a.client = s.client /\ a.current = s.current
    BY <1>3, <1>7, EasedIs
  <1>10. PICK i \in 1..Len(l) : i = 1
    BY <1>5
  <1>11. c \in Clients /\ Spot(s, c, "ul", w, l[i])
    BY <1>3, <1>7, <1>8, <1>10, EasedOne
  <1>12. Seen(a, c) = CanMap(Seen(s, c))
    <2>1. l2[i] = Eased(l[i]) /\ c = l[i].of
      BY <1>7, <1>8, <1>10
    <2> QED
      BY <1>3, <1>7, <2>1, EasedOne
  <1>13. ASSUME NEW d \in Clients, d # c PROVE Seen(a, d) = Seen(s, d)
    <2>1. CASE \A j \in 1..Len(l) : l[j].of # d
      BY <1>3, <1>7, <2>1, EasedOthers
    <2>2. CASE \E j \in 1..Len(l) : l[j].of = d
      <3>1. PICK j \in 1..Len(l) : l[j].of = d
        BY <2>2
      <3>2. l2[j] = l[j]
        BY <1>7, <1>8, <1>13, <3>1
      <3> QED
        BY <1>3, <1>7, <3>1, <3>2, EasedOne
    <2> QED
      BY <2>1, <2>2
  <1>14. Resembles(a, s, c)
    BY <1>9, <1>13 DEF Resembles
  <1>15. t = Put(a, c, V!MapClient(Marked(Known(a, c), FALSE)))
    BY <1>2, <1>3, <1>5, <1>6, <1>8 DEF ActionMapLatestUnmap, EaseFirst, Marked
  <1>16. Stepped(t, a, c, V!MapClient(Marked(Seen(a, c), FALSE)))
    <2>1. PICK b \in BOOLEAN : b = FALSE
      OBVIOUS
    <2>2. t = Put(a, c, V!MapClient(Marked(Known(a, c), b)))
      BY <1>15, <2>1
    <2>3. Stepped(t, a, c, V!MapClient(Marked(Seen(a, c), b)))
      BY <1>9, <1>11, <2>2, MappedIs
    <2> QED
      BY <2>1, <2>3
  <1>17. Stepped(t, s, c, V!MapClient(Marked(Seen(a, c), FALSE)))
    BY <1>14, <1>16, SteppedAfter
  <1>18. /\ Known(s, c).managed /\ Known(s, c).place = s.current /\ Known(s, c).ul # "none"
    <2>1. Home(s, c, "ul", w, l[i])
      BY <1>11 DEF Spot
    <2>2. PlaceOf(s, c) = w /\ UlOf(s, w, c) = UlAt("ul", l[i])
      BY <1>1, <2>1, WhereIs
    <2>3. Known(s, c).place = w /\ Known(s, c).ul = UlAt("ul", l[i])
      BY <1>11, <2>2, KnownIs DEF Good
    <2>4. Known(s, c).managed
      <3>1. ~Nowhere(s, c)
        BY <2>1 DEF Home, Nowhere
      <3> QED
        BY <1>11, <3>1, KnownSpot
    <2> QED
      BY <1>2, <2>3, <2>4 DEF UlAt
  <1> QED
    BY <1>11, <1>12, <1>17, <1>18

-----------------------------------------------------------------------------
(* The event that is read.                                                 *)
LEMMA RestIs ==
  ASSUME NEW s, Good(s), s.queue # <<>>, NEW t, t = [s EXCEPT !.queue = Tail(@)],
         NEW c, c = Head(s.queue).of
  PROVE  /\ c \in Clients /\ Resembles(t, s, c) /\ Known(t, c) = Known(s, c)
         /\ Seen(t, c) = V!Read(Seen(s, c))
         /\ Seen(s, c).notices # <<>> /\ Head(Seen(s, c).notices) = Head(s.queue).what
  <1>1. Sound(s) /\ Idles(s) /\ \A d \in Clients : Placed(s, d)
    BY DEF Good
  <1>2. PICK q \in Seq(Events) : q = s.queue
    BY <1>1 DEF Sound, States
  <1>3. /\ Head(q) \in Events /\ Tail(q) \in Seq(Events)
    BY <1>2, NoticesRead
  <1>4. NoticesOf(q, c) = <<Head(q).what>> \o NoticesOf(Tail(q), c)
    BY <1>2, NoticesRead
  <1>5. \A d : d # c => NoticesOf(Tail(q), d) = NoticesOf(q, d)
    BY <1>2, NoticesRead
  <1>6. c \in Clients /\ Head(q).what \in V!Notices
    BY <1>2, <1>3 DEF Events
  <1>7. PICK p \in Seq(Events) : p = Tail(q)
    BY <1>3
  <1>8. /\ t \in States /\ t.queue = p /\ t.client = s.client /\ t.current = s.current
        /\ t.flags = s.flags /\ t.lists = s.lists
    <2>1. t = [s EXCEPT !.queue = p] /\ s \in States
      BY <1>1, <1>2, <1>7 DEF Sound, States
    <2> QED
      BY <2>1 DEF States
  <1>9. Sound(t)
    BY <1>1, <1>8 DEF Sound
  <1>10. \A d : /\ Nowhere(t, d) <=> Nowhere(s, d)
                /\ \A k, w, e : Spot(t, d, k, w, e) <=> Spot(s, d, k, w, e)
    BY <1>8, SameSpots
  <1>11. Good(t)
    BY <1>1, <1>8, <1>9, <1>10 DEF Good, Idles, Placed
  <1>12. \A d : PlaceOf(t, d) = PlaceOf(s, d) /\ Mode(t, d) = Mode(s, d)
    BY <1>8 DEF PlaceOf, Mode
  <1>13. \A d : Known(t, d) = Known(s, d)
    BY <1>8, <1>12 DEF Known, UlOf
  <1>14. \A d \in Clients : d # c => Seen(t, d) = Seen(s, d)
    BY <1>2, <1>5, <1>7, <1>8, <1>13 DEF Seen
  <1>15. Resembles(t, s, c)
    BY <1>8, <1>11, <1>12, <1>14 DEF Resembles, SameMode
  <1>16. PICK n \in Seq(V!Notices) : n = NoticesOf(p, c)
    BY <1>7, NoticesType
  <1>17. PICK x \in V!Notices : x = Head(q).what
    BY <1>6
  <1>18. PICK m \in Seq(V!Notices) : m = NoticesOf(q, c)
    BY <1>2, NoticesType
  <1>19. m = <<x>> \o n
    BY <1>4, <1>7, <1>16, <1>17, <1>18
  <1>20. m # <<>> /\ Head(m) = x /\ Tail(m) = n
    BY <1>19
  <1>21. PICK r \in V!Client : r = Known(s, c)
    BY <1>6, SeenAgain
  <1>22. Seen(s, c) = [r EXCEPT !.notices = m] /\ Seen(t, c) = [r EXCEPT !.notices = n]
    BY <1>2, <1>7, <1>8, <1>13, <1>16, <1>18, <1>21 DEF Seen
  <1>23. [r EXCEPT !.notices = n] = V!Read([r EXCEPT !.notices = m])
    BY <1>20 DEF V!Read, V!Client
  <1>24. [r EXCEPT !.notices = m].notices = m
    BY DEF V!Client
  <1> QED
    BY <1>2, <1>6, <1>13, <1>15, <1>17, <1>20, <1>22, <1>23, <1>24

-----------------------------------------------------------------------------
(* A loop over clients makes of each what goal says, and leaves the others.*)
SameManaged(t, s) == \A c \in Clients : Seen(t, c).managed = Seen(s, c).managed

SameElsewhere(t, s, seq) == \A c \in Clients : ~In(seq, c) => Seen(t, c) = Seen(s, c)

Turned(s, seq, goal) ==
  [k \in 0..Len(seq) |->
     {t \in States :
        /\ Good(t) /\ SameMode(t, s) /\ t.current = s.current /\ SameManaged(t, s)
        /\ SameElsewhere(t, s, seq)
        /\ \A i \in 1..Len(seq) : i <= k => Seen(t, seq[i]) = goal[seq[i]]
        /\ \A i \in 1..Len(seq) : i > k => Seen(t, seq[i]) = Seen(s, seq[i])}]

Achieved(t, s, seq, goal) ==
  /\ Good(t) /\ SameMode(t, s) /\ t.current = s.current /\ SameManaged(t, s)
  /\ SameElsewhere(t, s, seq)
  /\ \A c \in Clients : In(seq, c) => Seen(t, c) = goal[c]

LEMMA ManagedSeen ==
  ASSUME NEW s, Good(s), NEW c \in Clients
  PROVE  Seen(s, c).managed = s.client[c].managed
  <1>1. Known(s, c).managed = s.client[c].managed
    BY KnownIs DEF Good
  <1>2. Seen(s, c).managed = Known(s, c).managed
    BY SeenAgain, PrefixedIs
  <1> QED
    BY <1>1, <1>2

LEMMA GoodState ==
  ASSUME NEW s, Good(s)
  PROVE  s \in States
  BY DEF Good, Sound

LEMMA SameModeThen ==
  ASSUME NEW s, Good(s), NEW a, Good(a), NEW t, Good(t), SameMode(a, s), SameMode(t, a),
         SameManaged(a, s)
  PROVE  SameMode(t, s)
  <1>1. \A c \in Clients : a.client[c].managed = s.client[c].managed
    BY ManagedSeen DEF SameManaged
  <1> QED
    BY <1>1 DEF SameMode

LEMMA TurnsStart ==
  ASSUME NEW s, Good(s), NEW seq \in Seq(Clients), NEW goal
  PROVE  s \in Turned(s, seq, goal)[0]
  <1>1. 0 \in 0..Len(seq) /\ s \in States
    BY GoodState
  <1>2. SameMode(s, s) /\ SameManaged(s, s) /\ SameElsewhere(s, s, seq)
    BY DEF SameMode, SameManaged, SameElsewhere
  <1>3. \A i \in 1..Len(seq) : ~(i <= 0)
    OBVIOUS
  <1> QED
    BY <1>1, <1>2, <1>3 DEF Turned

LEMMA TurnsEnd ==
  ASSUME NEW s, NEW seq \in Seq(Clients), NEW goal, NEW t, t \in Turned(s, seq, goal)[Len(seq)]
  PROVE  Achieved(t, s, seq, goal)
  <1>1. Len(seq) \in 0..Len(seq)
    OBVIOUS
  <1>2. /\ Good(t) /\ SameMode(t, s) /\ t.current = s.current /\ SameManaged(t, s)
        /\ SameElsewhere(t, s, seq)
        /\ \A i \in 1..Len(seq) : i <= Len(seq) => Seen(t, seq[i]) = goal[seq[i]]
    BY <1>1 DEF Turned
  <1>3. ASSUME NEW c \in Clients, In(seq, c) PROVE Seen(t, c) = goal[c]
    <2>1. PICK i \in 1..Len(seq) : seq[i] = c
      BY <1>3, InOf
    <2> QED
      BY <1>2, <2>1
  <1> QED
    BY <1>2, <1>3 DEF Achieved

LEMMA TurnIs ==
  ASSUME NEW s, NEW seq \in Seq(Clients), NEW goal, NEW j \in 1..Len(seq),
         NEW a \in Turned(s, seq, goal)[j - 1]
  PROVE  Good(a) /\ Seen(a, seq[j]) = Seen(s, seq[j]) /\ seq[j] \in Clients /\ In(seq, seq[j])
  <1>1. j - 1 \in 0..Len(seq) /\ j > j - 1
    OBVIOUS
  <1>2. seq[j] \in Clients /\ In(seq, seq[j])
    BY ElementsIn
  <1>3. Good(a) /\ \A i \in 1..Len(seq) : i > j - 1 => Seen(a, seq[i]) = Seen(s, seq[i])
    BY <1>1 DEF Turned
  <1> QED
    BY <1>1, <1>2, <1>3

LEMMA TurnsStep ==
  ASSUME NEW s, Good(s), NEW seq \in Seq(Clients), IsInjective(seq), NEW goal, NEW j \in 1..Len(seq),
         NEW a \in Turned(s, seq, goal)[j - 1], NEW t, Stepped(t, a, seq[j], goal[seq[j]]),
         goal[seq[j]].managed = Seen(s, seq[j]).managed
  PROVE  t \in Turned(s, seq, goal)[j]
  <1>1. j \in 0..Len(seq) /\ j - 1 \in 0..Len(seq)
    OBVIOUS
  <1>2. /\ Good(a) /\ SameMode(a, s) /\ a.current = s.current /\ SameManaged(a, s)
        /\ SameElsewhere(a, s, seq)
        /\ \A i \in 1..Len(seq) : i <= j - 1 => Seen(a, seq[i]) = goal[seq[i]]
        /\ \A i \in 1..Len(seq) : i > j - 1 => Seen(a, seq[i]) = Seen(s, seq[i])
    BY <1>1 DEF Turned
  <1>3. PICK c : c = seq[j]
    OBVIOUS
  <1>4. c \in Clients /\ In(seq, c)
    BY <1>3, ElementsIn
  <1>5. /\ Good(t) /\ SameMode(t, a) /\ t.current = a.current
        /\ Seen(t, c) = goal[c] /\ \A d \in Clients : d # c => Seen(t, d) = Seen(a, d)
    BY <1>3 DEF Stepped
  <1>6. SameManaged(t, s)
    BY <1>2, <1>3, <1>5 DEF SameManaged
  <1>7. SameMode(t, s)
    BY <1>2, <1>5, SameModeThen
  <1>8. SameElsewhere(t, s, seq)
    BY <1>2, <1>4, <1>5 DEF SameElsewhere
  <1>9. \A i \in 1..Len(seq) : i # j => seq[i] # c /\ seq[i] \in Clients
    BY <1>3 DEF IsInjective
  <1>10. ASSUME NEW i \in 1..Len(seq), i <= j PROVE Seen(t, seq[i]) = goal[seq[i]]
    <2>1. CASE i = j
      BY <1>3, <1>5, <2>1
    <2>2. CASE i # j
      BY <1>2, <1>5, <1>9, <1>10, <2>2
    <2> QED
      BY <2>1, <2>2
  <1>11. ASSUME NEW i \in 1..Len(seq), i > j PROVE Seen(t, seq[i]) = Seen(s, seq[i])
    <2>1. i # j /\ i > j - 1
      BY <1>11
    <2> QED
      BY <1>2, <1>5, <1>9, <2>1
  <1>12. t \in States
    BY <1>5, GoodState
  <1> QED
    BY <1>1, <1>2, <1>5, <1>6, <1>7, <1>8, <1>10, <1>11, <1>12 DEF Turned

-----------------------------------------------------------------------------
(* Who is in the lists of a workspace, as Visibility sees it.              *)
LEMMA WhoIsThere ==
  ASSUME NEW s, Good(s), NEW w \in Workspaces, NEW c \in Clients, NEW m, m = s.lists[w]
  PROVE  /\ Holds(m, c) <=> Seen(s, c).managed /\ Seen(s, c).place = w
         /\ Has(m.ul, c) <=> Seen(s, c).managed /\ Seen(s, c).place = w /\ Seen(s, c).ul # "none"
         /\ In(m.cl, c) \/ Has(m.fl, c) \/ Has(m.ml, c) <=>
              Seen(s, c).managed /\ Seen(s, c).place = w /\ Seen(s, c).ul = "none"
  <1>1. Sound(s)
    BY DEF Good
  <1>2. PICK r \in V!Client : r = Known(s, c)
    BY SeenAgain
  <1>3. /\ Seen(s, c).managed = r.managed /\ Seen(s, c).place = r.place /\ Seen(s, c).ul = r.ul
    BY <1>2, SeenAgain, PrefixedIs
  <1>4. CASE ~r.managed
    <2>1. Nowhere(s, c)
      BY <1>2, <1>4, KnownSpot
    <2>2. ~Holds(s.lists[w], c)
      BY <1>1, <2>1, NowhereIs
    <2> QED
      BY <1>3, <1>4, <2>2 DEF Holds
  <1>5. CASE r.managed
    <2>1. PICK k, v, e : /\ Spot(s, c, k, v, e) /\ r.place = v /\ r.ul = UlAt(k, e)
                         /\ k \in {"cl", "fl", "ml", "ul"}
      BY <1>2, <1>5, KnownSpot
    <2>2. Home(s, c, k, v, e)
      BY <2>1 DEF Spot
    <2>3. /\ In(s.lists[w].cl, c) <=> k = "cl" /\ w = v
          /\ Has(s.lists[w].fl, c) <=> k = "fl" /\ w = v
          /\ Has(s.lists[w].ml, c) <=> k = "ml" /\ w = v
          /\ Has(s.lists[w].ul, c) <=> k = "ul" /\ w = v
      BY <1>1, <2>2, AtHome
    <2>4. r.ul = "none" <=> k # "ul"
      BY <2>1 DEF UlAt
    <2> QED
      BY <1>3, <1>5, <2>1, <2>3, <2>4 DEF Holds
  <1> QED
    BY <1>4, <1>5

-----------------------------------------------------------------------------
(* The loops over the clients of a workspace.                              *)
LEMMA AllKeep ==
  ASSUME NEW r \in V!Client
  PROVE  /\ Keeps(V!Leave(r), r) /\ Keeps(V!Enter(r), r)
         /\ Keeps(V!MapClient(r), r) /\ Keeps(V!UnmapClient(r), r)
  <1>1. <<>> \in Seq(V!Notices)
    OBVIOUS
  <1>2. Extends(V!Leave(Prefixed(<<>>, r)), V!Leave(r), <<>>, r)
    BY <1>1, LeaveIs
  <1>3. Extends(V!Enter(Prefixed(<<>>, r)), V!Enter(r), <<>>, r)
    BY <1>1, EnterIs
  <1>4. Extends(V!MapClient(Prefixed(<<>>, r)), V!MapClient(r), <<>>, r)
    BY <1>1, MapIs
  <1>5. Extends(V!UnmapClient(Prefixed(<<>>, r)), V!UnmapClient(r), <<>>, r)
    BY <1>1, UnmapIs
  <1> QED
    BY <1>2, <1>3, <1>4, <1>5 DEF Extends

LeaveGoal(s) == [c \in Clients |-> V!Leave(Seen(s, c))]
EnterGoal(s) == [c \in Clients |-> V!Enter(Seen(s, c))]

LEMMA LeaveAllIs ==
  ASSUME NEW s, Good(s), NEW w \in Workspaces, NEW seq, seq = Everyone(s.lists[w])
  PROVE  Achieved(LeaveAll(s, w), s, seq, LeaveGoal(s))
  <1>1. seq \in Seq(Clients) /\ IsInjective(seq)
    BY MappedAre
  <1>2. PICK goal : goal = LeaveGoal(s)
    OBVIOUS
  <1> DEFINE Stage == Turned(s, seq, goal)
  <1>3. s \in Stage[0]
    BY <1>1, TurnsStart
  <1>4. ASSUME NEW j \in 1..Len(seq), NEW a \in Stage[j - 1]
        PROVE  LeaveOne(w, a, seq[j]) \in Stage[j]
    <2>1. Good(a) /\ Seen(a, seq[j]) = Seen(s, seq[j]) /\ seq[j] \in Clients
      BY <1>1, TurnIs
    <2>2. PICK c \in Clients : c = seq[j]
      BY <2>1
    <2>3. PICK t : t = LeaveOne(w, a, c)
      OBVIOUS
    <2>4. t = Put(a, c, V!Leave(Known(a, c)))
      BY <2>3 DEF LeaveOne
    <2>5. Stepped(t, a, c, V!Leave(Seen(a, c)))
      BY <2>1, <2>4, LeftIs
    <2>6. goal[c] = V!Leave(Seen(s, c))
      BY <1>2 DEF LeaveGoal
    <2>7. Seen(s, c) \in V!Client
      BY SeenAgain
    <2>8. goal[c].managed = Seen(s, c).managed
      BY <2>6, <2>7, AllKeep DEF Keeps
    <2>9. Stepped(t, a, c, goal[c])
      BY <2>1, <2>2, <2>5, <2>6
    <2>10. Stepped(t, a, seq[j], goal[seq[j]])
      BY <2>2, <2>9
    <2>11. goal[seq[j]].managed = Seen(s, seq[j]).managed
      BY <2>2, <2>8
    <2>12. t \in Turned(s, seq, goal)[j]
      BY <1>1, <2>10, <2>11, TurnsStep
    <2> QED
      BY <2>2, <2>3, <2>12
  <1>5. Leaving!Along(w, s, seq) \in Stage[Len(seq)]
    <2> HIDE DEF Stage
    <2> QED
      BY <1>1, <1>3, <1>4, Leaving!AlongStages
  <1>6. Achieved(Leaving!Along(w, s, seq), s, seq, goal)
    BY <1>1, <1>5, TurnsEnd
  <1> QED
    BY <1>2, <1>6 DEF LeaveAll

LEMMA EnterAllIs ==
  ASSUME NEW s, Good(s), NEW w \in Workspaces, NEW seq, seq = Everyone(s.lists[w])
  PROVE  Achieved(EnterAll(s, w), s, seq, EnterGoal(s))
  <1>1. seq \in Seq(Clients) /\ IsInjective(seq)
    BY MappedAre
  <1>2. PICK goal : goal = EnterGoal(s)
    OBVIOUS
  <1> DEFINE Stage == Turned(s, seq, goal)
  <1>3. s \in Stage[0]
    BY <1>1, TurnsStart
  <1>4. ASSUME NEW j \in 1..Len(seq), NEW a \in Stage[j - 1]
        PROVE  EnterOne(w, a, seq[j]) \in Stage[j]
    <2>1. Good(a) /\ Seen(a, seq[j]) = Seen(s, seq[j]) /\ seq[j] \in Clients
      BY <1>1, TurnIs
    <2>2. PICK c \in Clients : c = seq[j]
      BY <2>1
    <2>3. PICK t : t = EnterOne(w, a, c)
      OBVIOUS
    <2>4. t = Put(a, c, V!Enter(Known(a, c)))
      BY <2>3 DEF EnterOne
    <2>5. Stepped(t, a, c, V!Enter(Seen(a, c)))
      BY <2>1, <2>4, EnteredIs
    <2>6. goal[c] = V!Enter(Seen(s, c))
      BY <1>2 DEF EnterGoal
    <2>7. Seen(s, c) \in V!Client
      BY SeenAgain
    <2>8. goal[c].managed = Seen(s, c).managed
      BY <2>6, <2>7, AllKeep DEF Keeps
    <2>9. Stepped(t, a, c, goal[c])
      BY <2>1, <2>2, <2>5, <2>6
    <2>10. Stepped(t, a, seq[j], goal[seq[j]])
      BY <2>2, <2>9
    <2>11. goal[seq[j]].managed = Seen(s, seq[j]).managed
      BY <2>2, <2>8
    <2>12. t \in Turned(s, seq, goal)[j]
      BY <1>1, <2>10, <2>11, TurnsStep
    <2> QED
      BY <2>2, <2>3, <2>12
  <1>5. Entering!Along(w, s, seq) \in Stage[Len(seq)]
    <2> HIDE DEF Stage
    <2> QED
      BY <1>1, <1>3, <1>4, Entering!AlongStages
  <1>6. Achieved(Entering!Along(w, s, seq), s, seq, goal)
    BY <1>1, <1>5, TurnsEnd
  <1> QED
    BY <1>2, <1>6 DEF EnterAll

Tagged(r, tiled, c) == [r EXCEPT !.future_stay = @ \/ In(tiled, c)]

LEMMA TaggedIs ==
  ASSUME NEW r \in V!Client, NEW tiled, NEW c
  PROVE  /\ In(tiled, c) => Tagged(r, tiled, c) = Marked(r, TRUE)
         /\ ~In(tiled, c) => Tagged(r, tiled, c) = Marked(r, r.future_stay)
  <1>1. PICK x \in BOOLEAN : x = r.future_stay
    BY DEF V!Client
  <1>2. Tagged(r, tiled, c) = [r EXCEPT !.future_stay = (x \/ In(tiled, c))]
    BY <1>1 DEF Tagged
  <1>3. CASE In(tiled, c)
    <2>1. (x \/ In(tiled, c)) = TRUE
      BY <1>3
    <2>2. Tagged(r, tiled, c) = [r EXCEPT !.future_stay = TRUE]
      BY <1>2, <2>1
    <2> QED
      BY <1>3, <2>2 DEF Marked
  <1>4. CASE ~In(tiled, c)
    <2>1. (x \/ In(tiled, c)) = x
      BY <1>4
    <2>2. Tagged(r, tiled, c) = [r EXCEPT !.future_stay = x]
      BY <1>2, <2>1
    <2> QED
      BY <1>1, <1>4, <2>2 DEF Marked
  <1> QED
    BY <1>3, <1>4

UnmapGoal(s, tiled) == [c \in Clients |-> V!UnmapClient(Tagged(Seen(s, c), tiled, c))]

LEMMA TaggedSeen ==
  ASSUME NEW s, Good(s), NEW c \in Clients, NEW tiled
  PROVE  \E b \in BOOLEAN : /\ Tagged(Known(s, c), tiled, c) = Marked(Known(s, c), b)
                            /\ Tagged(Seen(s, c), tiled, c) = Marked(Seen(s, c), b)
  <1>1. PICK r \in V!Client : r = Known(s, c)
    BY SeenAgain
  <1>2. PICK q \in V!Client : q = Seen(s, c)
    BY SeenAgain
  <1>3. q = Prefixed(NoticesOf(s.queue, c), r) /\ NoticesOf(s.queue, c) \in Seq(V!Notices)
    BY <1>1, <1>2, SeenAgain
  <1>4. q.future_stay = r.future_stay
    BY <1>3, PrefixedIs
  <1>5. PICK x \in BOOLEAN : x = r.future_stay
    BY DEF V!Client
  <1>6. CASE In(tiled, c)
    <2>1. Tagged(r, tiled, c) = Marked(r, TRUE) /\ Tagged(q, tiled, c) = Marked(q, TRUE)
      BY <1>6, TaggedIs
    <2> QED
      BY <1>1, <1>2, <2>1
  <1>7. CASE ~In(tiled, c)
    <2>1. Tagged(r, tiled, c) = Marked(r, x) /\ Tagged(q, tiled, c) = Marked(q, x)
      BY <1>4, <1>5, <1>7, TaggedIs
    <2> QED
      BY <1>1, <1>2, <2>1
  <1> QED
    BY <1>6, <1>7

MappedList(m) == m.cl \o Members(m.fl) \o Members(m.ml)

LEMMA MarkedKeeps ==
  ASSUME NEW r \in V!Client, NEW b \in BOOLEAN
  PROVE  Marked(r, b) \in V!Client /\ Marked(r, b).managed = r.managed
  <1>1. <<>> \in Seq(V!Notices)
    OBVIOUS
  <1> QED
    BY <1>1, MarkedIs DEF Keeps

LEMMA UnmapAllIs ==
  ASSUME NEW s, Good(s), NEW m, m = s.lists[s.current]
  PROVE  Achieved(ActionUnmapAll(s), s, MappedList(m), UnmapGoal(s, m.cl))
  <1>1. PICK w \in Workspaces : w = s.current
    BY DEF Good, Sound, States
  <1>2. PICK seq : seq = MappedList(m)
    OBVIOUS
  <1>3. seq \in Seq(Clients) /\ IsInjective(seq)
    BY <1>1, <1>2, MappedAre DEF MappedList
  <1>4. PICK tiled : tiled = m.cl
    OBVIOUS
  <1>5. PICK goal : goal = UnmapGoal(s, tiled)
    OBVIOUS
  <1> DEFINE Stage == Turned(s, seq, goal)
  <1>6. s \in Stage[0]
    BY <1>3, TurnsStart
  <1>7. ASSUME NEW j \in 1..Len(seq), NEW a \in Stage[j - 1]
        PROVE  UnmapOne(tiled, a, seq[j]) \in Stage[j]
    <2>1. Good(a) /\ Seen(a, seq[j]) = Seen(s, seq[j]) /\ seq[j] \in Clients
      BY <1>3, TurnIs
    <2>2. PICK c \in Clients : c = seq[j]
      BY <2>1
    <2>3. PICK t : t = UnmapOne(tiled, a, c)
      OBVIOUS
    <2>4. PICK b \in BOOLEAN : /\ Tagged(Known(a, c), tiled, c) = Marked(Known(a, c), b)
                               /\ Tagged(Seen(a, c), tiled, c) = Marked(Seen(a, c), b)
      BY <2>1, TaggedSeen
    <2>5. t = Put(a, c, V!UnmapClient(Tagged(Known(a, c), tiled, c)))
      BY <2>3 DEF UnmapOne, Tagged
    <2>6. t = Put(a, c, V!UnmapClient(Marked(Known(a, c), b)))
      BY <2>4, <2>5
    <2>7. Stepped(t, a, c, V!UnmapClient(Marked(Seen(a, c), b)))
      BY <2>1, <2>6, UnmappedIs
    <2>8. goal[c] = V!UnmapClient(Tagged(Seen(s, c), tiled, c))
      BY <1>5 DEF UnmapGoal
    <2>9. goal[c] = V!UnmapClient(Marked(Seen(s, c), b))
      BY <2>1, <2>2, <2>4, <2>8
    <2>10. PICK q \in V!Client : q = Seen(s, c)
      BY SeenAgain
    <2>11. goal[c].managed = q.managed
      BY <2>9, <2>10, MarkedKeeps, AllKeep DEF Keeps
    <2>12. Stepped(t, a, seq[j], goal[seq[j]])
      BY <2>1, <2>2, <2>7, <2>9
    <2>13. goal[seq[j]].managed = Seen(s, seq[j]).managed
      BY <2>2, <2>10, <2>11
    <2>14. t \in Turned(s, seq, goal)[j]
      BY <1>3, <2>12, <2>13, TurnsStep
    <2> QED
      BY <2>2, <2>3, <2>14
  <1>8. Unmapping!Along(tiled, s, seq) \in Stage[Len(seq)]
    <2> HIDE DEF Stage
    <2> QED
      BY <1>3, <1>6, <1>7, Unmapping!AlongStages
  <1>9. Achieved(Unmapping!Along(tiled, s, seq), s, seq, goal)
    BY <1>3, <1>8, TurnsEnd
  <1>10. ActionUnmapAll(s) = Unmapping!Along(tiled, s, seq)
    BY <1>2, <1>4 DEF ActionUnmapAll, MappedList
  <1> QED
    BY <1>2, <1>4, <1>5, <1>9, <1>10

(* The clients that are mapped, after CanBeMapped.                         *)
MapGoal(s) == [c \in Clients |-> V!MapClient(Marked(Seen(s, c), FALSE))]

LEMMA MapLoopIs ==
  ASSUME NEW s, Good(s), NEW w, NEW seq \in Seq(Clients), IsInjective(seq)
  PROVE  Achieved(Mapping!Along(w, s, seq), s, seq, MapGoal(s))
  <1>2. PICK goal : goal = MapGoal(s)
    OBVIOUS
  <1> DEFINE Stage == Turned(s, seq, goal)
  <1>3. s \in Stage[0]
    BY TurnsStart
  <1>4. ASSUME NEW j \in 1..Len(seq), NEW a \in Stage[j - 1]
        PROVE  MapOne(w, a, seq[j]) \in Stage[j]
    <2>1. Good(a) /\ Seen(a, seq[j]) = Seen(s, seq[j]) /\ seq[j] \in Clients
      BY TurnIs
    <2>2. PICK c \in Clients : c = seq[j]
      BY <2>1
    <2>3. PICK t : t = MapOne(w, a, c)
      OBVIOUS
    <2>4. PICK b \in BOOLEAN : b = FALSE
      OBVIOUS
    <2>5. t = Put(a, c, V!MapClient(Marked(Known(a, c), b)))
      BY <2>3, <2>4 DEF MapOne, Marked
    <2>6. Stepped(t, a, c, V!MapClient(Marked(Seen(a, c), b)))
      BY <2>1, <2>5, MappedIs
    <2>7. goal[c] = V!MapClient(Marked(Seen(s, c), b))
      BY <1>2, <2>4 DEF MapGoal
    <2>8. PICK q \in V!Client : q = Seen(s, c)
      BY SeenAgain
    <2>9. goal[c].managed = q.managed
      BY <2>7, <2>8, MarkedKeeps, AllKeep DEF Keeps
    <2>10. Stepped(t, a, seq[j], goal[seq[j]])
      BY <2>1, <2>2, <2>6, <2>7
    <2>11. goal[seq[j]].managed = Seen(s, seq[j]).managed
      BY <2>2, <2>8, <2>9
    <2>12. t \in Turned(s, seq, goal)[j]
      BY <2>10, <2>11, TurnsStep
    <2> QED
      BY <2>2, <2>3, <2>12
  <1>5. Mapping!Along(w, s, seq) \in Stage[Len(seq)]
    <2> HIDE DEF Stage
    <2> QED
      BY <1>3, <1>4, Mapping!AlongStages
  <1> QED
    BY <1>2, <1>5, TurnsEnd

(* A step that makes of every client what goal says.                       *)
Reaches(t, s, cur, goal) ==
  /\ Good(t) /\ SameMode(t, s) /\ t.current = cur
  /\ \A c \in Clients : Seen(t, c) = goal[c]

Remapped(r) == V!MapClient(Marked(CanMap(r), FALSE))

MapAllGoal(s) ==
  [c \in Clients |-> IF Has(s.lists[s.current].ul, c) THEN Remapped(Seen(s, c)) ELSE Seen(s, c)]

LEMMA MapAllIs ==
  ASSUME NEW s, Good(s)
  PROVE  Reaches(ActionMapAll(s), s, s.current, MapAllGoal(s))
  <1>1. PICK w \in Workspaces : w = s.current
    BY DEF Good, Sound, States
  <1>2. PICK l : l = s.lists[w].ul
    OBVIOUS
  <1>3. Sound(s) /\ s \in States
    BY DEF Good, Sound
  <1>4. l \in Seq(Unmapped)
    BY <1>2, <1>3, SoundIs
  <1>5. PICK seq : seq = Members(l)
    OBVIOUS
  <1>6. /\ seq \in Seq(Clients) /\ IsInjective(seq)
        /\ \A c : In(seq, c) <=> Has(l, c)
    BY <1>2, <1>3, <1>5, ListsAre
  <1>7. PICK a : a = CanBeMapped(s, w)
    OBVIOUS
  <1>8. PICK l2 : /\ a = WithUl(s, w, l2) /\ Eases(l2, l)
                  /\ \A i \in 1..Len(l) : l2[i] = Eased(l[i])
    BY <1>2, <1>3, <1>4, <1>7, EaseAllIs
  <1>9. Good(a) /\ SameMode(a, s) /\ a.client = s.client /\ a.current = s.current
    BY <1>2, <1>8, EasedIs
  <1>10. PICK t : t = ActionMapAll(s)
    OBVIOUS
  <1>11. t = Mapping!Along(w, a, seq)
    BY <1>1, <1>2, <1>5, <1>7, <1>10 DEF ActionMapAll
  <1>12. Achieved(t, a, seq, MapGoal(a))
    BY <1>6, <1>9, <1>11, MapLoopIs
  <1>13. ASSUME NEW c \in Clients, Has(l, c)
         PROVE  Seen(t, c) = Remapped(Seen(s, c))
    <2>1. PICK i \in 1..Len(l) : l[i].of = c
      <3>1. PICK i \in DOMAIN l : l[i].of = c
        BY <1>13 DEF Has
      <3> QED
        BY <1>4, <3>1
    <2>2. l2[i] = Eased(l[i])
      BY <1>8
    <2>3. Seen(a, c) = CanMap(Seen(s, c))
      BY <1>2, <1>8, <2>1, <2>2, EasedOne
    <2>4. Seen(t, c) = MapGoal(a)[c]
      BY <1>6, <1>12, <1>13 DEF Achieved
    <2> QED
      BY <2>3, <2>4 DEF MapGoal, Remapped
  <1>14. ASSUME NEW c \in Clients, ~Has(l, c)
         PROVE  Seen(t, c) = Seen(s, c)
    <2>1. \A i \in 1..Len(l) : l[i].of # c
      BY <1>4, <1>14 DEF Has
    <2>2. Seen(a, c) = Seen(s, c)
      BY <1>2, <1>8, <2>1, EasedOthers
    <2>3. Seen(t, c) = Seen(a, c)
      BY <1>6, <1>12, <1>14 DEF Achieved, SameElsewhere
    <2> QED
      BY <2>2, <2>3
  <1>15. SameManaged(a, s)
    <2>1. \A c \in Clients : Seen(a, c).managed = Seen(s, c).managed
      BY <1>9, ManagedSeen
    <2> QED
      BY <2>1 DEF SameManaged
  <1>16. Good(t) /\ SameMode(t, a) /\ t.current = s.current
    BY <1>9, <1>12 DEF Achieved
  <1>17. SameMode(t, s)
    BY <1>9, <1>15, <1>16, SameModeThen
  <1>18. ASSUME NEW c \in Clients PROVE Seen(t, c) = MapAllGoal(s)[c]
    BY <1>1, <1>2, <1>13, <1>14 DEF MapAllGoal
  <1> QED
    BY <1>10, <1>16, <1>17, <1>18 DEF Reaches

UnmapAllGoal(s) ==
  LET m == s.lists[s.current] IN
  [c \in Clients |-> IF In(m.cl, c) \/ Has(m.fl, c) \/ Has(m.ml, c)
                       THEN V!UnmapClient(Tagged(Seen(s, c), m.cl, c)) ELSE Seen(s, c)]

LEMMA UnmapAllReaches ==
  ASSUME NEW s, Good(s)
  PROVE  Reaches(ActionUnmapAll(s), s, s.current, UnmapAllGoal(s))
  <1>1. PICK w \in Workspaces : w = s.current
    BY DEF Good, Sound, States
  <1>2. PICK m : m = s.lists[w]
    OBVIOUS
  <1>3. PICK t : t = ActionUnmapAll(s)
    OBVIOUS
  <1>4. Achieved(t, s, MappedList(m), UnmapGoal(s, m.cl))
    BY <1>1, <1>2, <1>3, UnmapAllIs
  <1>5. \A c : In(MappedList(m), c) <=> In(m.cl, c) \/ Has(m.fl, c) \/ Has(m.ml, c)
    BY <1>2, MappedAre DEF MappedList
  <1>6. Good(t) /\ SameMode(t, s) /\ t.current = s.current
    BY <1>4 DEF Achieved
  <1>7. ASSUME NEW c \in Clients, In(m.cl, c) \/ Has(m.fl, c) \/ Has(m.ml, c)
        PROVE  Seen(t, c) = V!UnmapClient(Tagged(Seen(s, c), m.cl, c))
    <2>1. Seen(t, c) = UnmapGoal(s, m.cl)[c]
      BY <1>4, <1>5, <1>7 DEF Achieved
    <2> QED
      BY <2>1 DEF UnmapGoal
  <1>8. ASSUME NEW c \in Clients, ~(In(m.cl, c) \/ Has(m.fl, c) \/ Has(m.ml, c))
        PROVE  Seen(t, c) = Seen(s, c)
    BY <1>4, <1>5, <1>8 DEF Achieved, SameElsewhere
  <1>9. ASSUME NEW c \in Clients PROVE Seen(t, c) = UnmapAllGoal(s)[c]
    BY <1>1, <1>2, <1>7, <1>8 DEF UnmapAllGoal
  <1> QED
    BY <1>3, <1>6, <1>9 DEF Reaches

-----------------------------------------------------------------------------
(* Nothing is persistent.                                                  *)
LEMMA NothingPersists ==
  ASSUME NEW s, Good(s), NEW c \in Clients
  PROVE  ~s.flags[c].persistent
  <1>1. Placed(s, c)
    BY DEF Good
  <1>2. CASE s.client[c].managed
    <2>1. PICK k, w, e : Spot(s, c, k, w, e)
      BY <1>1, <1>2 DEF Placed
    <2> QED
      BY <2>1 DEF Spot, Fits
  <1>3. CASE ~s.client[c].managed
    <2>1. s.flags[c] = NoFlags
      BY <1>1, <1>3 DEF Placed
    <2> QED
      BY <2>1 DEF NoFlags
  <1> QED
    BY <1>2, <1>3

LEMMA NoneMoved ==
  ASSUME NEW s, Good(s), NEW l \in Seq(Clients), NEW to
  PROVE  MoveAllPersistent(s, l, to) = s
  <1>1. PICK walk : walk = [s |-> s, past |-> FALSE]
    OBVIOUS
  <1> DEFINE Stage == [k \in 0..Len(l) |-> {walk}]
  <1>2. walk \in Stage[0]
    OBVIOUS
  <1>3. ASSUME NEW j \in 1..Len(l), NEW a \in Stage[j - 1]
        PROVE  MovePersistent(to, a, l[j]) \in Stage[j]
    <2>1. j - 1 \in 0..Len(l) /\ j \in 0..Len(l)
      OBVIOUS
    <2>2. a = walk /\ a.s = s
      BY <1>1, <2>1
    <2>3. ~a.s.flags[l[j]].persistent
      BY <2>2, NothingPersists
    <2>4. MovePersistent(to, a, l[j]) = a
      BY <2>3 DEF MovePersistent
    <2> QED
      BY <2>1, <2>2, <2>4
  <1>4. Persisting!Along(to, walk, l) \in Stage[Len(l)]
    <2> HIDE DEF Stage
    <2> QED
      BY <1>2, <1>3, Persisting!AlongStages
  <1>5. Len(l) \in 0..Len(l)
    OBVIOUS
  <1>6. Persisting!Along(to, walk, l) = walk
    BY <1>4, <1>5
  <1> QED
    BY <1>1, <1>6 DEF MoveAllPersistent

LEMMA NoneMovedToWorkspace ==
  ASSUME NEW s, Good(s), NEW to
  PROVE  MovePersistentToWorkspace(s, to) = s
  <1>1. PICK w \in Workspaces : w = s.current
    BY DEF Good, Sound, States
  <1>2. PICK m : m = s.lists[w]
    OBVIOUS
  <1>3. Sound(s)
    BY DEF Good
  <1>4. /\ m.cl \in Seq(Clients) /\ Members(m.fl) \in Seq(Clients)
        /\ Members(m.ml) \in Seq(Clients) /\ Members(m.ul) \in Seq(Clients)
    BY <1>2, <1>3, ListsAre
  <1>5. /\ MoveAllPersistent(s, m.cl, to) = s /\ MoveAllPersistent(s, Members(m.fl), to) = s
        /\ MoveAllPersistent(s, Members(m.ml), to) = s
        /\ MoveAllPersistent(s, Members(m.ul), to) = s
    BY <1>4, NoneMoved
  <1> QED
    BY <1>1, <1>2, <1>5 DEF MovePersistentToWorkspace

(* Nobody is elsewhere.                                                    *)
SameSeen(t, s) == \A c \in Clients : Seen(t, c) = Seen(s, c)

LEMMA SameWhere ==
  ASSUME NEW s, Good(s), NEW t, Sound(t), t.client = s.client, t.queue = s.queue,
         t.flags = s.flags, \A k, w, e : At(t, k, w, e) <=> At(s, k, w, e)
  PROVE  Good(t) /\ SameMode(t, s) /\ SameSeen(t, s)
  <1>1. Sound(s) /\ Idles(s) /\ \A c \in Clients : Placed(s, c)
    BY DEF Good
  <1>2. \A c : Nowhere(t, c) <=> Nowhere(s, c)
    BY DEF Nowhere
  <1>3. \A c, k, w, e : Home(t, c, k, w, e) <=> Home(s, c, k, w, e)
    BY DEF Home
  <1>4. \A c, k, w, e : Spot(t, c, k, w, e) <=> Spot(s, c, k, w, e)
    BY <1>3 DEF Spot
  <1>5. Good(t)
    BY <1>1, <1>2, <1>4 DEF Good, Idles, Placed
  <1>6. ASSUME NEW c \in Clients
        PROVE  /\ Seen(t, c) = Seen(s, c)
               /\ s.client[c].managed => Mode(t, c) = Mode(s, c)
    <2>1. \/ Nowhere(s, c) /\ Nowhere(t, c)
          \/ \E k, w, e : Home(s, c, k, w, e) /\ Home(t, c, k, w, e)
      BY <1>1, <1>2, <1>3 DEF Placed, Spot
    <2>2. /\ PlaceOf(t, c) = PlaceOf(s, c)
          /\ UlOf(t, PlaceOf(t, c), c) = UlOf(s, PlaceOf(s, c), c)
      BY <1>1, <2>1, SameAnswers
    <2>3. Seen(t, c) = Seen(s, c)
      BY <2>2 DEF Seen, Known
    <2>4. ASSUME s.client[c].managed PROVE Mode(t, c) = Mode(s, c)
      <3>1. PICK k, w, e : Spot(s, c, k, w, e)
        BY <1>1, <2>4 DEF Placed
      <3>2. Home(s, c, k, w, e) /\ Home(t, c, k, w, e)
        BY <1>3, <3>1 DEF Spot
      <3>3. Mode(s, c) = ModeAt(k, e)
        BY <1>1, <3>2, WhereIs
      <3>4. Mode(t, c) = ModeAt(k, e)
        BY <3>2, WhereIs
      <3> QED
        BY <3>3, <3>4
    <2> QED
      BY <2>3, <2>4
  <1>7. SameMode(t, s) /\ SameSeen(t, s)
    BY <1>6 DEF SameMode, SameSeen
  <1> QED
    BY <1>5, <1>7

LEMMA WinSwitchIs ==
  ASSUME NEW s, Good(s), NEW c \in Clients, NEW d \in Clients, NEW t, t = ActionWinSwitch(s, c, d)
  PROVE  Good(t) /\ SameMode(t, s) /\ SameSeen(t, s) /\ t.current = s.current
  <1>1. Sound(s) /\ s \in States
    BY DEF Good, Sound
  <1>2. PICK w \in Workspaces : w = s.current
    BY <1>1 DEF States
  <1>3. PICK old \in Seq(Clients) : old = s.lists[w].cl /\ IsInjective(old)
    BY <1>1, SoundIs
  <1>4. PICK l \in Seq(Clients) : l = ClSwap(old, c, d)
    BY <1>3, SwappedIs
  <1>5. IsInjective(l) /\ \A x : In(l, x) <=> In(old, x)
    BY <1>3, <1>4, SwappedIs
  <1>6. t = WithCl(s, w, l)
    BY <1>1, <1>2, <1>3, <1>4 DEF ActionWinSwitch, WithCl, States
  <1>7. /\ Sound(t) /\ SameElse(t, s) /\ t.flags = s.flags
        /\ \A k1, w1, e1 : At(t, k1, w1, e1) <=>
              IF k1 = "cl" /\ w1 = w THEN In(l, e1) ELSE At(s, k1, w1, e1)
    BY <1>1, <1>5, <1>6, ClUpdated
  <1>8. \A e : At(s, "cl", w, e) <=> In(old, e)
    BY <1>3 DEF At
  <1>9. \A k, v, e : At(t, k, v, e) <=> At(s, k, v, e)
    BY <1>5, <1>7, <1>8
  <1>10. t.client = s.client /\ t.queue = s.queue /\ t.current = s.current
    BY <1>7 DEF SameElse
  <1> QED
    BY <1>7, <1>9, <1>10, SameWhere

(* The mode of a client is not known to Visibility.                        *)
LEMMA RearrangedIs ==
  ASSUME NEW s, Good(s), NEW t, Rearranged(t, s)
  PROVE  Good(t) /\ SameSeen(t, s) /\ t.current = s.current
  <1>1. Sound(s) /\ Idles(s) /\ \A c \in Clients : Placed(s, c)
    BY DEF Good
  <1>2. Sound(t) /\ t.current = s.current /\ t.client = s.client /\ t.queue = s.queue
    BY DEF Rearranged, SameElse
  <1>3. ASSUME NEW c \in Clients
        PROVE  Placed(t, c) /\ Seen(t, c) = Seen(s, c)
    <2>1. CASE ~s.client[c].managed
      <3>1. Nowhere(s, c) /\ s.flags[c] = NoFlags
        BY <1>1, <2>1 DEF Placed
      <3>2. Nowhere(t, c) /\ t.flags[c] = NoFlags
        BY <3>1 DEF Rearranged
      <3>3. /\ PlaceOf(t, c) = PlaceOf(s, c)
            /\ UlOf(t, PlaceOf(t, c), c) = UlOf(s, PlaceOf(s, c), c)
        BY <1>1, <1>2, <3>1, <3>2, SameAnswers
      <3>4. Seen(t, c) = Seen(s, c)
        BY <1>2, <3>3 DEF Seen, Known
      <3> QED
        BY <1>2, <2>1, <3>2, <3>4 DEF Placed
    <2>2. CASE s.client[c].managed
      <3>1. PICK k, w, e : Spot(s, c, k, w, e)
        BY <1>1, <2>2 DEF Placed
      <3>2. \E k1, e1 : Spot(t, c, k1, w, e1) /\ UlAt(k1, e1) = UlAt(k, e)
        <4>1. CASE k = "ul"
          <5>1. Spot(t, c, k, w, e)
            BY <3>1, <4>1 DEF Rearranged
          <5> QED
            BY <5>1
        <4>2. CASE k # "ul"
          <5>1. PICK k1, e1 : k1 \in {"cl", "fl", "ml"} /\ Spot(t, c, k1, w, e1)
            BY <3>1, <4>2 DEF Rearranged
          <5>2. UlAt(k1, e1) = UlAt(k, e)
            BY <4>2, <5>1 DEF UlAt
          <5> QED
            BY <5>1, <5>2
        <4> QED
          BY <4>1, <4>2
      <3>3. PICK k1, e1 : Spot(t, c, k1, w, e1) /\ UlAt(k1, e1) = UlAt(k, e)
        BY <3>2
      <3>4. Home(s, c, k, w, e) /\ Home(t, c, k1, w, e1)
        BY <3>1, <3>3 DEF Spot
      <3>5. PlaceOf(s, c) = w /\ UlOf(s, w, c) = UlAt(k, e)
        BY <1>1, <3>4, WhereIs
      <3>6. PlaceOf(t, c) = w /\ UlOf(t, w, c) = UlAt(k1, e1)
        BY <1>2, <3>4, WhereIs
      <3>7. Seen(t, c) = Seen(s, c)
        BY <1>2, <3>3, <3>5, <3>6 DEF Seen, Known
      <3> QED
        BY <1>2, <2>2, <3>3, <3>7 DEF Placed
    <2> QED
      BY <2>1, <2>2
  <1>4. Idles(t)
    BY <1>1, <1>2 DEF Idles
  <1> QED
    BY <1>2, <1>3, <1>4 DEF Good, SameSeen

-----------------------------------------------------------------------------
(* A switch.                                                               *)
LEMMA CurrentIs ==
  ASSUME NEW s, Good(s), NEW w \in Workspaces, NEW t, t = [s EXCEPT !.current = w]
  PROVE  Good(t) /\ SameMode(t, s) /\ SameSeen(t, s) /\ t.current = w /\ t.lists = s.lists
  <1>1. Sound(s) /\ s \in States
    BY DEF Good, Sound
  <1>2. /\ t \in States /\ t.current = w /\ t.client = s.client /\ t.flags = s.flags
        /\ t.lists = s.lists /\ t.queue = s.queue
    BY <1>1 DEF States
  <1>3. Sound(t)
    BY <1>1, <1>2 DEF Sound
  <1>4. \A k, v, e : At(t, k, v, e) <=> At(s, k, v, e)
    BY <1>2 DEF At
  <1> QED
    BY <1>2, <1>3, <1>4, SameWhere

SwitchGoal(s, w) ==
  [c \in Clients |->
     LET r == Seen(s, c) IN
     IF r.managed /\ r.place = s.current THEN V!Leave(r)
     ELSE IF r.managed /\ r.place = w THEN V!Enter(r) ELSE r]

LEMMA SwitchIs ==
  ASSUME NEW s, Good(s), NEW w \in Workspaces, w # s.current
  PROVE  Reaches(ActionSwitchWorkspace(s, w), s, w, SwitchGoal(s, w))
  <1>1. PICK from \in Workspaces : from = s.current
    BY DEF Good, Sound, States
  <1>2. PICK out : out = LeaveAll(s, from)
    OBVIOUS
  <1>3. Achieved(out, s, Everyone(s.lists[from]), LeaveGoal(s))
    BY <1>2, LeaveAllIs
  <1>4. Good(out) /\ SameMode(out, s) /\ SameManaged(out, s)
    BY <1>3 DEF Achieved
  <1>5. PICK a : a = [out EXCEPT !.current = w]
    OBVIOUS
  <1>6. Good(a) /\ SameMode(a, out) /\ SameSeen(a, out) /\ a.current = w
    BY <1>4, <1>5, CurrentIs
  <1>7. PICK t : t = EnterAll(a, w)
    OBVIOUS
  <1>8. Achieved(t, a, Everyone(a.lists[w]), EnterGoal(a))
    BY <1>6, <1>7, EnterAllIs
  <1>9. Good(t) /\ SameMode(t, a) /\ t.current = w
    BY <1>6, <1>8 DEF Achieved
  <1>10. ActionSwitchWorkspace(s, w) = t
    <2>1. MovePersistentToWorkspace(s, w) = s
      BY NoneMovedToWorkspace
    <2> QED
      BY <1>1, <1>2, <1>5, <1>7, <2>1 DEF ActionSwitchWorkspace
  <1>11. SameMode(a, s) /\ SameManaged(a, s)
    <2>1. SameMode(a, s)
      BY <1>4, <1>6, SameModeThen
    <2>2. SameManaged(a, s)
      BY <1>4, <1>6 DEF SameManaged, SameSeen
    <2> QED
      BY <2>1, <2>2
  <1>12. SameMode(t, s)
    BY <1>6, <1>9, <1>11, SameModeThen
  <1>13. ASSUME NEW c \in Clients PROVE Seen(t, c) = SwitchGoal(s, w)[c]
    <2>1. PICK r \in V!Client : r = Seen(s, c)
      BY SeenAgain
    <2>2. In(Everyone(s.lists[from]), c) <=> r.managed /\ r.place = from
      <3>1. PICK m : m = s.lists[from]
        OBVIOUS
      <3>2. In(Everyone(m), c) <=> Holds(m, c)
        BY <3>1, MappedAre
      <3>3. Holds(m, c) <=> r.managed /\ r.place = from
        BY <2>1, <3>1, WhoIsThere
      <3> QED
        BY <3>1, <3>2, <3>3
    <2>3. PICK q : q = Seen(a, c)
      OBVIOUS
    <2>4. q = IF r.managed /\ r.place = from THEN V!Leave(r) ELSE r
      <3>1. q = Seen(out, c)
        BY <1>6, <2>3 DEF SameSeen
      <3>2. ASSUME r.managed /\ r.place = from PROVE Seen(out, c) = V!Leave(r)
        BY <1>3, <2>1, <2>2, <3>2 DEF Achieved, LeaveGoal
      <3>3. ASSUME ~(r.managed /\ r.place = from) PROVE Seen(out, c) = r
        BY <1>3, <2>1, <2>2, <3>3 DEF Achieved, SameElsewhere
      <3> QED
        BY <3>1, <3>2, <3>3
    <2>5. q.managed = r.managed /\ q.place = r.place
      <3>1. V!Leave(r).managed = r.managed /\ V!Leave(r).place = r.place
        BY <2>1, AllKeep DEF Keeps
      <3> QED
        BY <2>4, <3>1
    <2>6. In(Everyone(a.lists[w]), c) <=> r.managed /\ r.place = w
      <3>1. PICK m : m = a.lists[w]
        OBVIOUS
      <3>2. In(Everyone(m), c) <=> Holds(m, c)
        BY <1>6, <3>1, MappedAre
      <3>3. Holds(m, c) <=> q.managed /\ q.place = w
        BY <1>6, <2>3, <3>1, WhoIsThere
      <3> QED
        BY <2>5, <3>1, <3>2, <3>3
    <2>7. ASSUME r.managed /\ r.place = w PROVE Seen(t, c) = V!Enter(q)
      BY <1>8, <2>3, <2>6, <2>7 DEF Achieved, EnterGoal
    <2>8. ASSUME ~(r.managed /\ r.place = w) PROVE Seen(t, c) = q
      BY <1>8, <2>3, <2>6, <2>8 DEF Achieved, SameElsewhere
    <2>9. SwitchGoal(s, w)[c] = IF r.managed /\ r.place = from THEN V!Leave(r)
                                ELSE IF r.managed /\ r.place = w THEN V!Enter(r) ELSE r
      BY <1>1, <2>1 DEF SwitchGoal
    <2> QED
      BY <1>1, <2>4, <2>7, <2>8, <2>9
  <1> QED
    BY <1>9, <1>10, <1>12, <1>13 DEF Reaches

VP == INSTANCE Visibility_proofs WITH
       client <- View, Docks <- {}, Hurried <- FALSE,
       Bindings <- Bindings \cap {"switch", "move", "unmap_window", "map_latest",
                                  "unmap_all", "map_all"}

(* The two instances of Visibility, of the specification and of its        *)
(* proofs, say the same.                                                   *)
LEMMA SameOperators ==
  /\ \A r : V!MapClient(r) = VP!MapClient(r) /\ V!UnmapClient(r) = VP!UnmapClient(r)
  /\ \A r : V!XUnmapWindow(r) = VP!XUnmapWindow(r) /\ V!Fresh(r) = VP!Fresh(r)
  /\ \A r : (V!InUnmappedList(r) <=> VP!InUnmappedList(r)) /\ V!Read(r) = VP!Read(r)
  /\ \A r, cur : V!StartManage(r, cur) = VP!StartManage(r, cur)
  <1>1. \A r : V!XMapWindow(r) = VP!XMapWindow(r) /\ V!XUnmapWindow(r) = VP!XUnmapWindow(r)
    BY DEF V!XMapWindow, VP!XMapWindow, V!XUnmapWindow, VP!XUnmapWindow
  <1>2. \A r : (V!IsClientMapped(r) <=> VP!IsClientMapped(r))
               /\ (V!IsInPlace(r) <=> VP!IsInPlace(r))
    BY DEF V!IsClientMapped, VP!IsClientMapped, V!IsInPlace, VP!IsInPlace
  <1>3. \A r : V!MapClient(r) = VP!MapClient(r) /\ V!UnmapClient(r) = VP!UnmapClient(r)
    BY <1>1, <1>2 DEF V!MapClient, VP!MapClient, V!UnmapClient, VP!UnmapClient
  <1>4. \A r : V!Fresh(r) = VP!Fresh(r) /\ V!Read(r) = VP!Read(r)
    BY DEF V!Fresh, VP!Fresh, V!Read, VP!Read
  <1>5. \A r : V!InUnmappedList(r) <=> VP!InUnmappedList(r)
    BY DEF V!InUnmappedList, VP!InUnmappedList
  <1>6. \A r, cur : V!StartManage(r, cur) = VP!StartManage(r, cur)
    <2> SUFFICES ASSUME NEW r, NEW cur PROVE V!StartManage(r, cur) = VP!StartManage(r, cur)
      OBVIOUS
    <2>1. PICK x : x = V!XUnmapWindow(r)
      OBVIOUS
    <2>2. PICK f : f = V!Fresh(IF (IF r.win # "gone" /\ r.desktop \in Workspaces
                                     THEN r.desktop ELSE cur) = cur THEN r ELSE x)
      OBVIOUS
    <2>3. x = VP!XUnmapWindow(r)
      BY <1>1, <2>1
    <2>4. f = VP!Fresh(IF (IF r.win # "gone" /\ r.desktop \in Workspaces
                             THEN r.desktop ELSE cur) = cur THEN r ELSE x)
      BY <1>4, <2>2
    <2> QED
      BY <2>1, <2>2, <2>3, <2>4 DEF V!StartManage, VP!StartManage
  <1> QED
    BY <1>1, <1>3, <1>4, <1>5, <1>6

LEMMA SameHandlers ==
  /\ \A r, cur : V!HandleMapRequest(r, cur) = VP!HandleMapRequest(r, cur)
  /\ \A r : V!HandleUnmapNotify(r) = VP!HandleUnmapNotify(r)
  /\ \A r, cur, dock : V!HandleMapNotify(r, cur, dock) = VP!HandleMapNotify(r, cur, dock)
  /\ \A r : V!HandleDestroyNotify(r) = VP!HandleDestroyNotify(r)
  /\ \A r : V!Leave(r) = VP!Leave(r) /\ V!Enter(r) = VP!Enter(r)
  <1>1. \A r : /\ V!IntoUnmappedList(r) = VP!IntoUnmappedList(r)
               /\ V!OutOfUnmappedList(r) = VP!OutOfUnmappedList(r)
    BY DEF V!IntoUnmappedList, VP!IntoUnmappedList, V!OutOfUnmappedList, VP!OutOfUnmappedList,
           V!IsInPlace, VP!IsInPlace
  <1>2. \A r, cur : V!HandleMapRequest(r, cur) = VP!HandleMapRequest(r, cur)
    BY SameOperators DEF V!HandleMapRequest, VP!HandleMapRequest
  <1>3. \A r : V!HandleUnmapNotify(r) = VP!HandleUnmapNotify(r)
    BY <1>1, SameOperators DEF V!HandleUnmapNotify, VP!HandleUnmapNotify
  <1>4. \A r, cur, dock : V!HandleMapNotify(r, cur, dock) = VP!HandleMapNotify(r, cur, dock)
    BY <1>1, SameOperators DEF V!HandleMapNotify, VP!HandleMapNotify
  <1>5. \A r : V!HandleDestroyNotify(r) = VP!HandleDestroyNotify(r)
    BY SameOperators DEF V!HandleDestroyNotify, VP!HandleDestroyNotify
  <1>6. \A r : /\ V!CancelCancelPendingUnmaps(r) = VP!CancelCancelPendingUnmaps(r)
               /\ V!CancelCancelPendingMaps(r) = VP!CancelCancelPendingMaps(r)
               /\ V!CancelPendingMaps(r) = VP!CancelPendingMaps(r)
               /\ V!CancelPendingUnmaps(r) = VP!CancelPendingUnmaps(r)
               /\ V!SetUnmappedFromSwitch(r) = VP!SetUnmappedFromSwitch(r)
    BY SameOperators DEF V!CancelCancelPendingUnmaps, VP!CancelCancelPendingUnmaps,
      V!CancelCancelPendingMaps, VP!CancelCancelPendingMaps, V!CancelPendingMaps,
      VP!CancelPendingMaps, V!CancelPendingUnmaps, VP!CancelPendingUnmaps,
      V!SetUnmappedFromSwitch, VP!SetUnmappedFromSwitch
  <1>7. \A r : V!Leave(r) = VP!Leave(r) /\ V!Enter(r) = VP!Enter(r)
    BY <1>6, SameOperators DEF V!Leave, VP!Leave, V!Enter, VP!Enter
  <1> QED
    BY <1>2, <1>3, <1>4, <1>5, <1>7

LEMMA SameNext ==
  V!Next => VP!Next
  <1>1. \A c \in Clients : V!ClientMap(c) => VP!ClientMap(c)
    BY DEF V!ClientMap, VP!ClientMap, V!ClientMayAct, VP!ClientMayAct, V!Set, VP!Set
  <1>2. \A c \in Clients : V!ClientWithdraw(c) => VP!ClientWithdraw(c)
    BY SameOperators
    DEF V!ClientWithdraw, VP!ClientWithdraw, V!ClientMayAct, VP!ClientMayAct, V!Set, VP!Set
  <1>3. \A c \in Clients : V!ClientDestroy(c) => VP!ClientDestroy(c)
    BY SameOperators
    DEF V!ClientDestroy, VP!ClientDestroy, V!ClientMayAct, VP!ClientMayAct, V!Set, VP!Set
  <1>4. \A c \in Clients : V!Handle(c) => VP!Handle(c)
    BY SameOperators, SameHandlers
    DEF V!Handle, VP!Handle, V!MapRequest, VP!MapRequest, V!UnmapNotify, VP!UnmapNotify,
        V!MapNotify, VP!MapNotify, V!DestroyNotify, VP!DestroyNotify, V!Reads, VP!Reads,
        V!Set, VP!Set, V!IsDock, VP!IsDock
  <1>5. \A w \in Workspaces : V!SwitchWorkspace(w) => VP!SwitchWorkspace(w)
    BY SameOperators, SameHandlers
    DEF V!SwitchWorkspace, VP!SwitchWorkspace, V!OnCurrent, VP!OnCurrent, V!MovesAlong,
        VP!MovesAlong, V!IsDock, VP!IsDock
  <1>6. \A c \in Clients, w \in Workspaces : V!MoveToWorkspace(c, w) => VP!MoveToWorkspace(c, w)
    BY SameOperators
    DEF V!MoveToWorkspace, VP!MoveToWorkspace, V!FocusMayBe, VP!FocusMayBe, V!Set, VP!Set,
        V!IsDock, VP!IsDock
  <1>7. \A c \in Clients : V!UnmapWindow(c) => VP!UnmapWindow(c)
    BY SameOperators
    DEF V!UnmapWindow, VP!UnmapWindow, V!FocusMayBe, VP!FocusMayBe, V!Set, VP!Set,
        V!IsDock, VP!IsDock
  <1>8. \A c \in Clients : V!MapLatestUnmap(c) => VP!MapLatestUnmap(c)
    BY SameOperators
    DEF V!MapLatestUnmap, VP!MapLatestUnmap, V!OnCurrent, VP!OnCurrent, V!Set, VP!Set
  <1>9. ASSUME NEW T \in SUBSET {c \in Clients : ~V!IsDock(c)}, V!UnmapAll(T)
        PROVE  T \in SUBSET {c \in Clients : ~VP!IsDock(c)} /\ VP!UnmapAll(T)
    BY <1>9, SameOperators
    DEF V!UnmapAll, VP!UnmapAll, V!OnCurrent, VP!OnCurrent, V!IsDock, VP!IsDock
  <1>10. V!MapAll => VP!MapAll
    BY SameOperators DEF V!MapAll, VP!MapAll, V!OnCurrent, VP!OnCurrent
  <1>11. ~V!Restart
    BY DEF V!Restart
  <1> QED
    BY <1>1, <1>2, <1>3, <1>4, <1>5, <1>6, <1>7, <1>8, <1>9, <1>10, <1>11
    DEF V!Next, VP!Next

LEMMA SameInv ==
  /\ V!IInv <=> VP!IInv
  /\ V!IInv' <=> VP!IInv'
  <1>1. V!IInv <=> VP!IInv
    BY DEF V!IInv, VP!IInv, V!TypeOK, VP!TypeOK, V!Client, VP!Client, V!Notices, VP!Notices, V!States, VP!States,
     V!Inductive, VP!Inductive, V!History, VP!History, V!FollowedBy, VP!FollowedBy, V!Lag, VP!Lag, V!Flags, VP!Flags,
     V!Away, VP!Away, V!IsInPlace, VP!IsInPlace, V!Has, VP!Has
  <1>2. V!IInv' <=> VP!IInv'
    BY DEF V!IInv, VP!IInv, V!TypeOK, VP!TypeOK, V!Client, VP!Client, V!Notices, VP!Notices, V!States, VP!States,
     V!Inductive, VP!Inductive, V!History, VP!History, V!FollowedBy, VP!FollowedBy, V!Lag, VP!Lag, V!Flags, VP!Flags,
     V!Away, VP!Away, V!IsInPlace, VP!IsInPlace, V!Has, VP!Has
  <1> QED
    BY <1>1, <1>2

LEMMA SameTurn ==
  /\ V!AllInTurn <=> VP!AllInTurn
  /\ V!AllInTurn' <=> VP!AllInTurn'
  <1>1. V!AllInTurn <=> VP!AllInTurn
    BY DEF V!AllInTurn, VP!AllInTurn, V!Turn, VP!Turn, V!InTurn, VP!InTurn, V!Has, VP!Has
  <1>2. V!AllInTurn' <=> VP!AllInTurn'
    BY DEF V!AllInTurn, VP!AllInTurn, V!Turn, VP!Turn, V!InTurn, VP!InTurn, V!Has, VP!Has
  <1> QED
    BY <1>1, <1>2

(* What a step of Visibility keeps.                                        *)
LEMMA SeesNext ==
  ASSUME V!IInv, V!AllInTurn, V!Next \/ UNCHANGED <<current, View>>
  PROVE  V!IInv' /\ V!AllInTurn'
  <1>1. VP!FocusFollows
    BY DEF VP!FocusFollows
  <1>2. VP!ConstantsAssumption
    BY ListsAssumption DEF VP!ConstantsAssumption, VP!AllBindings, VP!AllClientOps
  <1>3. VP!IInv /\ [VP!Next]_(VP!vars) => VP!IInv'
    BY SMT, <1>1, <1>2, VP!NextIInv
  <1>4. [VP!Next]_(VP!vars)
    BY SameNext DEF VP!vars
  <1>5. VP!IInv /\ VP!AllInTurn
    BY SameInv, SameTurn
  <1>6. "withdraw" \notin ClientOps
    BY ListsAssumption
  <1>7. "restart" \notin Bindings \cap {"switch", "move", "unmap_window", "map_latest",
                                       "unmap_all", "map_all"}
    OBVIOUS
  <1>8. VP!AllInTurn'
    BY <1>1, <1>2, <1>4, <1>5, <1>6, <1>7, VP!NextTurn
  <1>9. VP!IInv'
    BY <1>3, <1>4, <1>5
  <1> QED
    BY <1>8, <1>9, SameInv, SameTurn

ViewOf(s) == [c \in Clients |-> Seen(s, c)]

LEMMA Becoming ==
  ASSUME NEW t \in States, Become(t)
  PROVE  /\ View' = ViewOf(t) /\ current' = t.current /\ Now' = t
  <1>1. Now' = t
    BY DEF Become, Now, States
  <1>2. View' = ViewOf(t)
    BY <1>1 DEF View, ViewOf
  <1> QED
    BY <1>1, <1>2 DEF Become

LEMMA GoodNext ==
  ASSUME NEW t \in States, Become(t), Good(t)
  PROVE  Good(Now)'
  BY Becoming

-----------------------------------------------------------------------------
(* A step of the lists, and what it is to Visibility.                      *)
SeenNow == current \in Workspaces /\ \A c \in Clients : View[c] = Seen(Now, c)

Follows == Good(Now)' /\ (V!Next \/ UNCHANGED <<current, View>>)
KeepsModes == SameMode(Then, Now)

LEMMA NowIs ==
  ASSUME Good(Now)
  PROVE  /\ SeenNow /\ Now.current = current /\ Now.client = client /\ Now.flags = flags
         /\ Now.lists = lists /\ Now.queue = queue /\ Now \in States
  <1>1. /\ Now.current = current /\ Now.client = client /\ Now.flags = flags
        /\ Now.lists = lists /\ Now.queue = queue
    BY DEF Now
  <1>2. Now \in States
    BY DEF Good, Sound
  <1>3. Now.current \in Workspaces
    BY <1>2 DEF States
  <1>4. \A c \in Clients : View[c] = Seen(Now, c)
    BY DEF View
  <1> QED
    BY <1>1, <1>2, <1>3, <1>4 DEF SeenNow

LEMMA ThenIs ==
  ASSUME NEW t \in States, Become(t)
  PROVE  Then = t
  BY DEF Become, Then, States

(* One client is another to Visibility.                                    *)
LEMMA OneFollows ==
  ASSUME Good(Now), NEW c \in Clients, NEW q, NEW t, Stepped(t, Now, c, q), Become(t)
  PROVE  Good(Now)' /\ V!Set(c, q) /\ KeepsModes
  <1>1. Good(t) /\ t \in States /\ SameMode(t, Now) /\ t.current = Now.current
    BY GoodState DEF Stepped
  <1>2. Good(Now)'
    BY <1>1, GoodNext
  <1>3. Then = t
    BY <1>1, ThenIs
  <1>4. View' = ViewOf(t) /\ current' = t.current
    BY <1>1, Becoming
  <1>5. \A d \in Clients : ViewOf(t)[d] = IF d = c THEN q ELSE View[d]
    <2>1. Seen(t, c) = q /\ \A d \in Clients : d # c => Seen(t, d) = Seen(Now, d)
      BY DEF Stepped
    <2> QED
      BY <2>1 DEF View, ViewOf
  <1>6. View' = [View EXCEPT ![c] = q]
    BY <1>4, <1>5 DEF View, ViewOf
  <1>7. current' = current
    BY <1>1, <1>4, NowIs
  <1> QED
    BY <1>1, <1>2, <1>3, <1>6, <1>7 DEF V!Set, KeepsModes

(* Every client is another.                                                *)
LEMMA AllFollow ==
  ASSUME Good(Now), NEW t, NEW cur, NEW goal, Reaches(t, Now, cur, goal), Become(t)
  PROVE  Good(Now)' /\ View' = [c \in Clients |-> goal[c]] /\ current' = cur /\ KeepsModes
  <1>1. Good(t) /\ t \in States /\ SameMode(t, Now) /\ t.current = cur
    BY GoodState DEF Reaches
  <1>2. Good(Now)'
    BY <1>1, GoodNext
  <1>3. Then = t
    BY <1>1, ThenIs
  <1>4. View' = ViewOf(t) /\ current' = t.current
    BY <1>1, Becoming
  <1>5. ViewOf(t) = [c \in Clients |-> goal[c]]
    BY DEF Reaches, ViewOf
  <1> QED
    BY <1>1, <1>2, <1>3, <1>4, <1>5 DEF KeepsModes

(* None is.                                                                *)
LEMMA NoneFollows ==
  ASSUME Good(Now), NEW t, Good(t), SameSeen(t, Now), t.current = Now.current, Become(t)
  PROVE  Good(Now)' /\ UNCHANGED <<current, View>> /\ Then = t
  <1>1. t \in States
    BY GoodState
  <1>2. Good(Now)' /\ Then = t
    BY <1>1, GoodNext, ThenIs
  <1>3. View' = ViewOf(t) /\ current' = t.current
    BY <1>1, Becoming
  <1>4. ViewOf(t) = View
    BY DEF SameSeen, ViewOf, View
  <1>5. current' = current
    BY <1>3, NowIs
  <1> QED
    BY <1>2, <1>3, <1>4, <1>5

-----------------------------------------------------------------------------
(* What clients do.                                                        *)
LEMMA ClientMapFollows ==
  ASSUME Good(Now), NEW c \in Clients, ClientMap(c)
  PROVE  Follows /\ KeepsModes
  <1>1. PICK t : t = Put(Now, c, [Known(Now, c) EXCEPT !.notices = <<"request">>])
    OBVIOUS
  <1>2. PICK q : q = [Seen(Now, c) EXCEPT !.notices = Append(@, "request")]
    OBVIOUS
  <1>3. Stepped(t, Now, c, q)
    BY <1>1, <1>2, RequestedIs
  <1>4. Become(t)
    BY <1>1 DEF ClientMap
  <1>5. Good(Now)' /\ V!Set(c, q) /\ KeepsModes
    BY <1>3, <1>4, OneFollows
  <1>6. q = [View[c] EXCEPT !.notices = Append(@, "request")]
    BY <1>2 DEF View
  <1>7. View[c].win = "unmapped"
    <2>1. PICK r \in V!Client : r = Known(Now, c) /\ Seen(Now, c) = Prefixed(NoticesOf(Now.queue, c), r)
          /\ NoticesOf(Now.queue, c) \in Seq(V!Notices)
      BY SeenAgain
    <2>2. Seen(Now, c).win = r.win
      BY <2>1, PrefixedIs
    <2>3. r.win = Now.client[c].win
      BY <2>1, KnownIs DEF Good
    <2> QED
      BY <2>2, <2>3, NowIs DEF SeenNow, ClientMap
  <1>8. V!ClientMap(c)
    BY <1>5, <1>6, <1>7 DEF V!ClientMap, ClientMap
  <1> QED
    BY <1>5, <1>8 DEF Follows, V!Next

LEMMA ClientDestroyFollows ==
  ASSUME Good(Now), NEW c \in Clients, ClientDestroy(c)
  PROVE  Follows /\ KeepsModes
  <1>1. PICK t : t = Put(Now, c, [V!XUnmapWindow(Known(Now, c)) EXCEPT
                                    !.notices = Append(@, "destroy"), !.win = "gone"])
    OBVIOUS
  <1>2. PICK q : q = [V!XUnmapWindow(Seen(Now, c)) EXCEPT
                        !.notices = Append(@, "destroy"), !.win = "gone"]
    OBVIOUS
  <1>3. Stepped(t, Now, c, q)
    BY <1>1, <1>2, DestroyedIs
  <1>4. Become(t)
    BY <1>1 DEF ClientDestroy
  <1>5. Good(Now)' /\ V!Set(c, q) /\ KeepsModes
    BY <1>3, <1>4, OneFollows
  <1>6. q = [V!XUnmapWindow(View[c]) EXCEPT !.notices = Append(@, "destroy"), !.win = "gone"]
    BY <1>2 DEF View
  <1>7. V!ClientDestroy(c)
    BY <1>5, <1>6 DEF V!ClientDestroy, ClientDestroy
  <1> QED
    BY <1>5, <1>7 DEF Follows, V!Next

-----------------------------------------------------------------------------
(* The keys about one client.                                              *)
(* The focus is on its workspace, and mapped.                              *)
LEMMA FocusIs ==
  ASSUME Good(Now), NEW c \in Clients, V!FocusMayBe(c)
  PROVE  /\ Known(Now, c).managed /\ Known(Now, c).place = Now.current
         /\ Known(Now, c).ul = "none"
         /\ \E k \in {"cl", "fl", "ml"} : \E e : Spot(Now, c, k, Now.current, e)
  <1>1. PICK r \in V!Client : /\ r = Known(Now, c)
                              /\ Seen(Now, c) = Prefixed(NoticesOf(Now.queue, c), r)
                              /\ NoticesOf(Now.queue, c) \in Seq(V!Notices)
    BY SeenAgain
  <1>2. View[c].managed = r.managed /\ View[c].place = r.place /\ View[c].ul = r.ul
    BY <1>1, PrefixedIs, NowIs DEF SeenNow
  <1>3. View[c].managed /\ View[c].place = current /\ View[c].ul = "none"
    BY DEF V!FocusMayBe, V!InUnmappedList
  <1>4. r.managed /\ r.place = Now.current /\ r.ul = "none"
    BY <1>2, <1>3, NowIs
  <1>5. PICK k, w, e : /\ Spot(Now, c, k, w, e) /\ r.place = w /\ r.ul = UlAt(k, e)
                       /\ k \in {"cl", "fl", "ml", "ul"}
    BY <1>1, <1>4, KnownSpot
  <1>6. k # "ul"
    BY <1>4, <1>5 DEF UlAt
  <1> QED
    BY <1>1, <1>4, <1>5, <1>6

LEMMA UnmapWindowFollows ==
  ASSUME Good(Now), NEW c \in Clients, UnmapWindow(c)
  PROVE  Follows /\ KeepsModes
  <1>1. PICK b \in BOOLEAN : b = TRUE
    OBVIOUS
  <1>2. PICK t : t = Put(Now, c, V!UnmapClient(Marked(Known(Now, c), b)))
    OBVIOUS
  <1>3. PICK q : q = V!UnmapClient(Marked(Seen(Now, c), b))
    OBVIOUS
  <1>4. Stepped(t, Now, c, q)
    BY <1>2, <1>3, UnmappedIs
  <1>5. Become(t)
    BY <1>1, <1>2 DEF UnmapWindow, ActionUnmapWindow, Marked
  <1>6. Good(Now)' /\ V!Set(c, q) /\ KeepsModes
    BY <1>4, <1>5, OneFollows
  <1>7. q = V!UnmapClient([View[c] EXCEPT !.future_stay = TRUE])
    BY <1>1, <1>3 DEF View, Marked
  <1>8. V!UnmapWindow(c)
    BY <1>6, <1>7 DEF V!UnmapWindow, UnmapWindow, Key
  <1> QED
    BY <1>6, <1>8 DEF Follows, V!Next

LEMMA MoveFollows ==
  ASSUME Good(Now), NEW c \in Clients, NEW w \in Workspaces, MoveToWorkspace(c, w)
  PROVE  Follows /\ KeepsModes
  <1>1. PICK t : t = ActionMoveToWorkspace(Now, c, w)
    OBVIOUS
  <1>2. PICK q : q = V!UnmapClient(Sent(Seen(Now, c), w))
    OBVIOUS
  <1>3. V!FocusMayBe(c) /\ w # Now.current /\ Become(t)
    BY <1>1, NowIs DEF MoveToWorkspace, Key
  <1>4. Stepped(t, Now, c, q)
    BY <1>1, <1>2, <1>3, FocusIs, MoveIs
  <1>5. Good(Now)' /\ V!Set(c, q) /\ KeepsModes
    BY <1>3, <1>4, OneFollows
  <1>6. View[c].place = current
    BY <1>3 DEF V!FocusMayBe
  <1>7. View[c] = Seen(Now, c) /\ Seen(Now, c) \in V!Client
    BY SeenAgain, NowIs DEF SeenNow
  <1>8. Sent(View[c], w) = [View[c] EXCEPT !.workspace = w, !.desktop = w,
                                           !.place = IF @ = current THEN w ELSE @]
    BY <1>6, <1>7 DEF Sent, V!Client
  <1>9. V!MoveToWorkspace(c, w)
    BY <1>2, <1>3, <1>5, <1>7, <1>8 DEF V!MoveToWorkspace, MoveToWorkspace, Key
  <1> QED
    BY <1>5, <1>9 DEF Follows, V!Next

LEMMA MapLatestFollows ==
  ASSUME Good(Now), MapLatestUnmap
  PROVE  Follows /\ KeepsModes
  <1>1. PICK t : t = ActionMapLatestUnmap(Now)
    OBVIOUS
  <1>2. Become(t) /\ Now.lists[Now.current].ul # <<>>
    BY <1>1, NowIs DEF MapLatestUnmap
  <1>3. PICK c \in Clients :
           /\ Known(Now, c).managed /\ Known(Now, c).place = Now.current
           /\ Known(Now, c).ul # "none"
           /\ Stepped(t, Now, c, V!MapClient(Marked(CanMap(Seen(Now, c)), FALSE)))
    BY <1>1, <1>2, MapLatestIs
  <1>4. PICK q : q = V!MapClient(Marked(CanMap(Seen(Now, c)), FALSE))
    OBVIOUS
  <1>5. Good(Now)' /\ V!Set(c, q) /\ KeepsModes
    BY <1>2, <1>3, <1>4, OneFollows
  <1>6. View[c] = Seen(Now, c)
    BY NowIs DEF SeenNow
  <1>7. q = V!MapClient([View[c] EXCEPT !.ul = "can", !.future_stay = FALSE])
    BY <1>4, <1>6 DEF Marked, CanMap
  <1>8. View[c].managed /\ View[c].place = current /\ View[c].ul # "none"
    <2>1. PICK r \in V!Client : /\ r = Known(Now, c)
                                /\ Seen(Now, c) = Prefixed(NoticesOf(Now.queue, c), r)
                                /\ NoticesOf(Now.queue, c) \in Seq(V!Notices)
      BY SeenAgain
    <2>2. View[c].managed = r.managed /\ View[c].place = r.place /\ View[c].ul = r.ul
      BY <1>6, <2>1, PrefixedIs
    <2> QED
      BY <1>3, <2>1, <2>2, NowIs
  <1>9. V!MapLatestUnmap(c)
    BY <1>5, <1>7, <1>8 DEF V!MapLatestUnmap, MapLatestUnmap, V!OnCurrent
  <1> QED
    BY <1>5, <1>9 DEF Follows, V!Next

-----------------------------------------------------------------------------
(* What a handler reads.                                                   *)
LEMMA ReadIsOf ==
  ASSUME Good(Now), queue # <<>>, NEW c, c = Of
  PROVE  /\ c \in Clients /\ Good(Rest) /\ Resembles(Rest, Now, c)
         /\ Known(Rest, c) = Known(Now, c) /\ Seen(Rest, c) = V!Read(View[c])
         /\ View[c].notices # <<>> /\ Head(View[c].notices) = Head(queue).what
  <1>1. Now.queue = queue /\ Rest = [Now EXCEPT !.queue = Tail(@)]
    BY NowIs DEF Rest
  <1>2. c = Head(Now.queue).of /\ Now.queue # <<>>
    BY <1>1 DEF Of
  <1>3. PICK t : t = [Now EXCEPT !.queue = Tail(@)]
    OBVIOUS
  <1>4. /\ c \in Clients /\ Resembles(t, Now, c) /\ Known(t, c) = Known(Now, c)
        /\ Seen(t, c) = V!Read(Seen(Now, c))
        /\ Seen(Now, c).notices # <<>> /\ Head(Seen(Now, c).notices) = Head(Now.queue).what
    BY <1>2, <1>3, RestIs
  <1>5. View[c] = Seen(Now, c)
    BY <1>4, NowIs DEF SeenNow
  <1>6. Good(t)
    BY <1>4 DEF Resembles
  <1> QED
    BY <1>1, <1>3, <1>4, <1>5, <1>6

LEMMA KnownNow ==
  ASSUME Good(Now), NEW c \in Clients
  PROVE  \E r \in V!Client :
           /\ r = Known(Now, c) /\ View[c].managed = r.managed /\ View[c].place = r.place
           /\ View[c].ul = r.ul /\ View[c].workspace = r.workspace /\ View[c].win = r.win
           /\ View[c].pending_unmap = r.pending_unmap
  <1>1. PICK r \in V!Client : /\ r = Known(Now, c)
                              /\ Seen(Now, c) = Prefixed(NoticesOf(Now.queue, c), r)
                              /\ NoticesOf(Now.queue, c) \in Seq(V!Notices)
    BY SeenAgain
  <1>2. View[c] = Prefixed(NoticesOf(Now.queue, c), r)
    BY <1>1, NowIs DEF SeenNow
  <1>3. /\ View[c].managed = r.managed /\ View[c].place = r.place
        /\ View[c].ul = r.ul /\ View[c].workspace = r.workspace /\ View[c].win = r.win
        /\ View[c].pending_unmap = r.pending_unmap
    BY <1>1, <1>2, PrefixedIs
  <1> QED
    BY <1>1, <1>3

LEMMA InPlaceNow ==
  ASSUME Good(Now), V!IInv, V!AllInTurn, NEW c \in Clients
  PROVE  /\ Known(Now, c).managed => V!IsInPlace(Known(Now, c))
         /\ Known(Now, c).managed \/ Known(Now, c).win # "mapped"
  <1>1. PICK r \in V!Client :
           /\ r = Known(Now, c) /\ View[c].managed = r.managed /\ View[c].place = r.place
           /\ View[c].ul = r.ul /\ View[c].workspace = r.workspace /\ View[c].win = r.win
           /\ View[c].pending_unmap = r.pending_unmap
    BY KnownNow
  <1>2. View[c].managed => V!IsInPlace(View[c])
    BY DEF V!IInv, V!Inductive
  <1>3. View[c].managed \/ View[c].win # "mapped"
    BY DEF V!AllInTurn, V!Turn
  <1> QED
    BY <1>1, <1>2, <1>3 DEF V!IsInPlace

LEMMA UnmapOfMapped ==
  ASSUME Good(Now), V!IInv, V!AllInTurn, NEW c \in Clients, View[c].notices # <<>>,
         Head(View[c].notices) = "unmap"
  PROVE  Known(Now, c).ul = "none"
  <1>1. PICK r \in V!Client :
           /\ r = Known(Now, c) /\ View[c].managed = r.managed /\ View[c].place = r.place
           /\ View[c].ul = r.ul /\ View[c].workspace = r.workspace /\ View[c].win = r.win
           /\ View[c].pending_unmap = r.pending_unmap
    BY KnownNow
  <1>2. CASE ~r.managed
    BY <1>1, <1>2, KnownSpot
  <1>3. CASE r.managed
    <2>1. VP!IInv /\ VP!AllInTurn
      BY SameInv, SameTurn
    <2>2. PICK q : q = View[c]
      OBVIOUS
    <2>3. VP!Inductive(q, current, c \in {}) /\ VP!Turn(q)
      BY <2>1, <2>2 DEF VP!IInv, VP!AllInTurn
    <2>4. q \in VP!Client
      BY <2>1, <2>2 DEF VP!IInv, VP!TypeOK
    <2>5. VP!Good(q, current, c \in {})
      BY <2>3, <2>4 DEF VP!Good
    <2>6. VP!ConstantsAssumption
      BY ListsAssumption DEF VP!ConstantsAssumption, VP!AllBindings, VP!AllClientOps
    <2>7. q.managed /\ q.notices # <<>> /\ Head(q.notices) = "unmap"
      BY <1>1, <1>3, <2>2
    <2>8. q.ul = "none"
      BY <2>3, <2>5, <2>6, <2>7, VP!UnmapIsOfMapped
    <2> QED
      BY <1>1, <2>2, <2>8
  <1> QED
    BY <1>2, <1>3

-----------------------------------------------------------------------------
(* The handlers.                                                           *)
LEMMA HandledFollows ==
  ASSUME Good(Now), NEW c \in Clients, Resembles(Rest, Now, c), NEW q, NEW t,
         Stepped(t, Rest, c, q), Become(t)
  PROVE  Good(Now)' /\ V!Set(c, q) /\ KeepsModes
  <1>1. Stepped(t, Now, c, q)
    BY SteppedAfter
  <1> QED
    BY <1>1, OneFollows

LEMMA MapRequestFollows ==
  ASSUME Good(Now), V!IInv, V!AllInTurn, MapRequest
  PROVE  Follows /\ KeepsModes
  <1>1. queue # <<>> /\ Head(queue).what = "request"
    BY DEF MapRequest, Reads
  <1>2. PICK c : c = Of
    OBVIOUS
  <1>3. /\ c \in Clients /\ Good(Rest) /\ Resembles(Rest, Now, c)
        /\ Known(Rest, c) = Known(Now, c) /\ Seen(Rest, c) = V!Read(View[c])
        /\ View[c].notices # <<>> /\ Head(View[c].notices) = "request"
    BY <1>1, <1>2, ReadIsOf
  <1>4. PICK focus \in Clients \cup {None} : Become(HandleMapRequest(Rest, c, focus))
    BY <1>2 DEF MapRequest
  <1>5. PICK t : t = HandleMapRequest(Rest, c, focus)
    OBVIOUS
  <1>6. PICK q : q = V!HandleMapRequest(Seen(Rest, c), Rest.current)
    OBVIOUS
  <1>7. Known(Rest, c).managed \/ Known(Rest, c).win # "mapped"
    BY <1>3, InPlaceNow
  <1>8. Stepped(t, Rest, c, q)
    BY <1>3, <1>5, <1>6, <1>7, HandleMapRequestIs
  <1>9. Good(Now)' /\ V!Set(c, q) /\ KeepsModes
    BY <1>3, <1>4, <1>5, <1>8, HandledFollows
  <1>10. Rest.current = current
    BY <1>3, NowIs DEF Resembles
  <1>11. V!MapRequest(c)
    BY <1>3, <1>6, <1>9, <1>10 DEF V!MapRequest, V!Reads
  <1> QED
    BY <1>3, <1>9, <1>11 DEF Follows, V!Next, V!Handle

LEMMA UnmapNotifyFollows ==
  ASSUME Good(Now), V!IInv, V!AllInTurn, UnmapNotify
  PROVE  Follows /\ KeepsModes
  <1>1. queue # <<>> /\ Head(queue).what = "unmap"
    BY DEF UnmapNotify, Reads
  <1>2. PICK c : c = Of
    OBVIOUS
  <1>3. /\ c \in Clients /\ Good(Rest) /\ Resembles(Rest, Now, c)
        /\ Known(Rest, c) = Known(Now, c) /\ Seen(Rest, c) = V!Read(View[c])
        /\ View[c].notices # <<>> /\ Head(View[c].notices) = "unmap"
    BY <1>1, <1>2, ReadIsOf
  <1>4. PICK t : t = HandleUnmapNotify(Rest, c)
    OBVIOUS
  <1>5. Become(t)
    BY <1>2, <1>4 DEF UnmapNotify
  <1>6. PICK q : q = V!HandleUnmapNotify(Seen(Rest, c))
    OBVIOUS
  <1>7. Known(Rest, c).managed => V!IsInPlace(Known(Rest, c))
    BY <1>3, InPlaceNow
  <1>8. Known(Rest, c).ul = "none"
    BY <1>3, UnmapOfMapped
  <1>9. Stepped(t, Rest, c, q)
    BY <1>3, <1>4, <1>6, <1>7, <1>8, HandleUnmapNotifyIs
  <1>10. Good(Now)' /\ V!Set(c, q) /\ KeepsModes
    BY <1>3, <1>5, <1>9, HandledFollows
  <1>11. V!UnmapNotify(c)
    BY <1>3, <1>6, <1>10 DEF V!UnmapNotify, V!Reads
  <1> QED
    BY <1>3, <1>10, <1>11 DEF Follows, V!Next, V!Handle

LEMMA MapNotifyFollows ==
  ASSUME Good(Now), V!IInv, V!AllInTurn, MapNotify
  PROVE  Follows /\ KeepsModes
  <1>1. queue # <<>> /\ Head(queue).what = "map"
    BY DEF MapNotify, Reads
  <1>2. PICK c : c = Of
    OBVIOUS
  <1>3. /\ c \in Clients /\ Good(Rest) /\ Resembles(Rest, Now, c)
        /\ Known(Rest, c) = Known(Now, c) /\ Seen(Rest, c) = V!Read(View[c])
        /\ View[c].notices # <<>> /\ Head(View[c].notices) = "map"
    BY <1>1, <1>2, ReadIsOf
  <1>4. PICK t : t = HandleMapNotify(Rest, c)
    OBVIOUS
  <1>5. Become(t)
    BY <1>2, <1>4 DEF MapNotify
  <1>6. PICK q : q = V!HandleMapNotify(Seen(Rest, c), Rest.current, FALSE)
    OBVIOUS
  <1>7. Known(Rest, c).managed => V!IsInPlace(Known(Rest, c))
    BY <1>3, InPlaceNow
  <1>8. Stepped(t, Rest, c, q)
    BY <1>3, <1>4, <1>6, <1>7, HandleMapNotifyIs
  <1>9. Good(Now)' /\ V!Set(c, q) /\ KeepsModes
    BY <1>3, <1>5, <1>8, HandledFollows
  <1>10. Rest.current = current
    BY <1>3, NowIs DEF Resembles
  <1>11. V!IsDock(c) = FALSE
    BY DEF V!IsDock
  <1>12. V!MapNotify(c)
    BY <1>3, <1>6, <1>9, <1>10, <1>11 DEF V!MapNotify, V!Reads
  <1> QED
    BY <1>3, <1>9, <1>12 DEF Follows, V!Next, V!Handle

LEMMA DestroyNotifyFollows ==
  ASSUME Good(Now), DestroyNotify
  PROVE  Follows /\ KeepsModes
  <1>1. queue # <<>> /\ Head(queue).what = "destroy"
    BY DEF DestroyNotify, Reads
  <1>2. PICK c : c = Of
    OBVIOUS
  <1>3. /\ c \in Clients /\ Good(Rest) /\ Resembles(Rest, Now, c)
        /\ Known(Rest, c) = Known(Now, c) /\ Seen(Rest, c) = V!Read(View[c])
        /\ View[c].notices # <<>> /\ Head(View[c].notices) = "destroy"
    BY <1>1, <1>2, ReadIsOf
  <1>4. PICK t : t = HandleDestroyNotify(Rest, c)
    OBVIOUS
  <1>5. Become(t)
    BY <1>2, <1>4 DEF DestroyNotify
  <1>6. PICK q : q = V!HandleDestroyNotify(Seen(Rest, c))
    OBVIOUS
  <1>7. Stepped(t, Rest, c, q)
    BY <1>3, <1>4, <1>6, HandleDestroyNotifyIs
  <1>8. Good(Now)' /\ V!Set(c, q) /\ KeepsModes
    BY <1>3, <1>5, <1>7, HandledFollows
  <1>9. V!DestroyNotify(c)
    BY <1>3, <1>6, <1>8 DEF V!DestroyNotify, V!Reads
  <1> QED
    BY <1>3, <1>8, <1>9 DEF Follows, V!Next, V!Handle

-----------------------------------------------------------------------------
(* The keys about all clients.                                             *)
LEMMA SwitchFollows ==
  ASSUME Good(Now), NEW w \in Workspaces, SwitchWorkspace(w)
  PROVE  Follows /\ KeepsModes
  <1>1. PICK t : t = ActionSwitchWorkspace(Now, w)
    OBVIOUS
  <1>2. PICK goal : goal = SwitchGoal(Now, w)
    OBVIOUS
  <1>3. w # Now.current /\ Become(t)
    BY <1>1, NowIs DEF SwitchWorkspace
  <1>4. Reaches(t, Now, w, goal)
    BY <1>1, <1>2, <1>3, SwitchIs
  <1>5. /\ Good(Now)' /\ View' = [c \in Clients |-> goal[c]] /\ current' = w /\ KeepsModes
    BY <1>3, <1>4, AllFollow
  <1>6. ASSUME NEW c \in Clients
        PROVE  goal[c] = IF V!OnCurrent(c) /\ V!MovesAlong(c)
                           THEN V!Enter([View[c] EXCEPT !.workspace = w, !.place = w])
                         ELSE IF V!OnCurrent(c) THEN V!Leave(View[c])
                         ELSE IF View[c].managed /\ View[c].place = w THEN V!Enter(View[c])
                         ELSE View[c]
    <2>1. ~V!MovesAlong(c)
      BY DEF V!MovesAlong, V!IsDock
    <2>2. V!OnCurrent(c) <=> View[c].managed /\ View[c].place = Now.current
      BY NowIs DEF V!OnCurrent
    <2>3. View[c] = Seen(Now, c)
      BY NowIs DEF SeenNow
    <2>4. goal[c] = IF View[c].managed /\ View[c].place = Now.current THEN V!Leave(View[c])
                    ELSE IF View[c].managed /\ View[c].place = w THEN V!Enter(View[c])
                    ELSE View[c]
      BY <1>2, <2>3 DEF SwitchGoal
    <2> QED
      BY <2>1, <2>2, <2>4
  <1>7. V!SwitchWorkspace(w)
    BY <1>5, <1>6 DEF V!SwitchWorkspace, SwitchWorkspace
  <1> QED
    BY <1>5, <1>7 DEF Follows, V!Next

LEMMA UnmapAllFollows ==
  ASSUME Good(Now), UnmapAll
  PROVE  Follows /\ KeepsModes
  <1>1. PICK t : t = ActionUnmapAll(Now)
    OBVIOUS
  <1>2. PICK goal : goal = UnmapAllGoal(Now)
    OBVIOUS
  <1>3. Become(t)
    BY <1>1 DEF UnmapAll
  <1>4. Reaches(t, Now, Now.current, goal)
    BY <1>1, <1>2, UnmapAllReaches
  <1>5. /\ Good(Now)' /\ View' = [c \in Clients |-> goal[c]] /\ current' = Now.current
        /\ KeepsModes
    BY <1>3, <1>4, AllFollow
  <1>6. PICK w \in Workspaces : w = current
    BY NowIs DEF SeenNow
  <1>7. PICK m : m = Now.lists[w]
    OBVIOUS
  <1>8. PICK T : T = {c \in Clients : In(m.cl, c)}
    OBVIOUS
  <1>9. ASSUME NEW c \in Clients
        PROVE  goal[c] = IF ~V!OnCurrent(c) \/ View[c].ul # "none" THEN View[c]
                         ELSE V!UnmapClient([View[c] EXCEPT !.future_stay = @ \/ c \in T])
    <2>1. PICK r : r = View[c]
      OBVIOUS
    <2>2. r = Seen(Now, c)
      BY <2>1, NowIs DEF SeenNow
    <2>3. V!OnCurrent(c) <=> r.managed /\ r.place = w
      BY <1>6, <2>1 DEF V!OnCurrent
    <2>4. In(m.cl, c) \/ Has(m.fl, c) \/ Has(m.ml, c) <=>
            r.managed /\ r.place = w /\ r.ul = "none"
      BY <1>7, <2>2, WhoIsThere
    <2>5. goal[c] = IF In(m.cl, c) \/ Has(m.fl, c) \/ Has(m.ml, c)
                      THEN V!UnmapClient(Tagged(r, m.cl, c)) ELSE r
      BY <1>2, <1>6, <1>7, <2>2, NowIs DEF UnmapAllGoal
    <2>6. Tagged(r, m.cl, c) = [r EXCEPT !.future_stay = @ \/ c \in T]
      BY <1>8 DEF Tagged
    <2>7. goal[c] = IF ~V!OnCurrent(c) \/ r.ul # "none" THEN r
                    ELSE V!UnmapClient(Tagged(r, m.cl, c))
      BY <2>3, <2>4, <2>5
    <2> QED
      BY <2>1, <2>6, <2>7
  <1>10. T \in SUBSET {c \in Clients : ~V!IsDock(c)}
    BY <1>8 DEF V!IsDock
  <1>11. V!UnmapAll(T)
    BY <1>5, <1>9, NowIs DEF V!UnmapAll, UnmapAll
  <1> QED
    BY <1>5, <1>10, <1>11 DEF Follows, V!Next

LEMMA MapAllFollows ==
  ASSUME Good(Now), MapAll
  PROVE  Follows /\ KeepsModes
  <1>1. PICK t : t = ActionMapAll(Now)
    OBVIOUS
  <1>2. PICK goal : goal = MapAllGoal(Now)
    OBVIOUS
  <1>3. Become(t)
    BY <1>1 DEF MapAll
  <1>4. Reaches(t, Now, Now.current, goal)
    BY <1>1, <1>2, MapAllIs
  <1>5. /\ Good(Now)' /\ View' = [c \in Clients |-> goal[c]] /\ current' = Now.current
        /\ KeepsModes
    BY <1>3, <1>4, AllFollow
  <1>6. PICK w \in Workspaces : w = current
    BY NowIs DEF SeenNow
  <1>7. PICK m : m = Now.lists[w]
    OBVIOUS
  <1>8. ASSUME NEW c \in Clients
        PROVE  goal[c] = IF ~V!OnCurrent(c) \/ View[c].ul = "none" THEN View[c]
                         ELSE V!MapClient([View[c] EXCEPT !.ul = "can", !.future_stay = FALSE])
    <2>1. PICK r : r = View[c]
      OBVIOUS
    <2>2. r = Seen(Now, c)
      BY <2>1, NowIs DEF SeenNow
    <2>3. V!OnCurrent(c) <=> r.managed /\ r.place = w
      BY <1>6, <2>1 DEF V!OnCurrent
    <2>4. Has(m.ul, c) <=> r.managed /\ r.place = w /\ r.ul # "none"
      BY <1>7, <2>2, WhoIsThere
    <2>5. goal[c] = IF Has(m.ul, c) THEN Remapped(r) ELSE r
      BY <1>2, <1>6, <1>7, <2>2, NowIs DEF MapAllGoal
    <2>6. Remapped(r) = V!MapClient([r EXCEPT !.ul = "can", !.future_stay = FALSE])
      BY DEF Remapped, Marked, CanMap
    <2>7. goal[c] = IF ~V!OnCurrent(c) \/ r.ul = "none" THEN r ELSE Remapped(r)
      BY <2>3, <2>4, <2>5
    <2> QED
      BY <2>1, <2>6, <2>7
  <1>9. V!MapAll
    BY <1>5, <1>8, NowIs DEF V!MapAll, MapAll
  <1> QED
    BY <1>5, <1>9 DEF Follows, V!Next

-----------------------------------------------------------------------------
(* The keys that rearrange the lists.                                      *)
LEMMA RearrangedFollows ==
  ASSUME Good(Now), NEW t, Rearranged(t, Now), Become(t)
  PROVE  Follows
  <1>1. Good(t) /\ SameSeen(t, Now) /\ t.current = Now.current
    BY RearrangedIs
  <1> QED
    BY <1>1, NoneFollows DEF Follows

LEMMA ModeKeyFollows ==
  ASSUME Good(Now), ModeKey
  PROVE  Follows
  <1>1. Sound(Now) /\ Now.current \in Workspaces
    BY NowIs DEF Good, SeenNow
  <1>2. PICK c \in Clients :
          \/ ToggleFloat(c) \/ MinimizeWindow(c) \/ FloatAllTiled(c) \/ TileAllFloat(c)
          \/ MinimizeAll(c) \/ UnminimizeAll(c)
    BY DEF ModeKey
  <1>3. ASSUME NEW b, ListKey(b, c)
        PROVE  \E k \in {"cl", "fl", "ml"} : \E e : Spot(Now, c, k, Now.current, e)
    BY <1>3, FocusIs DEF ListKey, Key
  <1>4. CASE ToggleFloat(c)
    <2>1. PICK k, e : k \in {"cl", "fl", "ml"} /\ Spot(Now, c, k, Now.current, e)
      BY <1>3, <1>4 DEF ToggleFloat
    <2>2. Rearranged(ActionToggleFloat(Now, c), Now)
      BY <1>1, <2>1, ToggleFloatIs
    <2> QED
      BY <1>4, <2>2, RearrangedFollows DEF ToggleFloat
  <1>5. CASE MinimizeWindow(c)
    <2>1. PICK k, e : k \in {"cl", "fl", "ml"} /\ Spot(Now, c, k, Now.current, e)
      BY <1>3, <1>5 DEF MinimizeWindow
    <2>2. Rearranged(ActionMinimizeWindow(Now, c), Now)
      BY <1>1, <2>1, MinimizeWindowIs
    <2> QED
      BY <1>5, <2>2, RearrangedFollows DEF MinimizeWindow
  <1>6. CASE FloatAllTiled(c)
    BY <1>1, <1>6, FloatAllIs, RearrangedFollows DEF FloatAllTiled
  <1>7. CASE TileAllFloat(c)
    BY <1>1, <1>7, TileAllIs, RearrangedFollows DEF TileAllFloat
  <1>8. CASE MinimizeAll(c)
    BY <1>1, <1>8, MinimizeAllIs, RearrangedFollows DEF MinimizeAll
  <1>9. CASE UnminimizeAll(c)
    BY <1>1, <1>9, UnminimizeAllIs, RearrangedFollows DEF UnminimizeAll
  <1> QED
    BY <1>2, <1>4, <1>5, <1>6, <1>7, <1>8, <1>9

LEMMA WinSwitchFollows ==
  ASSUME Good(Now), NEW c \in Clients, NEW d \in Clients, WinSwitch(c, d)
  PROVE  Follows /\ KeepsModes
  <1>1. PICK t : t = ActionWinSwitch(Now, c, d)
    OBVIOUS
  <1>2. Good(t) /\ SameMode(t, Now) /\ SameSeen(t, Now) /\ t.current = Now.current
    BY <1>1, WinSwitchIs
  <1>3. Become(t)
    BY <1>1 DEF WinSwitch
  <1>4. Good(Now)' /\ UNCHANGED <<current, View>> /\ Then = t
    BY <1>2, <1>3, NoneFollows
  <1> QED
    BY <1>2, <1>4 DEF Follows, KeepsModes

-----------------------------------------------------------------------------
(* Every step.                                                             *)
LEMMA NextFollows ==
  ASSUME Good(Now), V!IInv, V!AllInTurn, Next, "persistent" \notin Bindings
  PROVE  Follows /\ (KeepsModes \/ ModeKey)
  <1>1. ~ \E c \in Clients : TogglePersistent(c)
    BY DEF TogglePersistent, Key
  <1>2. CASE Handle
    BY <1>2, MapRequestFollows, UnmapNotifyFollows, MapNotifyFollows, DestroyNotifyFollows
    DEF Handle
  <1> QED
    BY <1>1, <1>2, ClientMapFollows, ClientDestroyFollows, SwitchFollows, MoveFollows,
       UnmapWindowFollows, MapLatestFollows, UnmapAllFollows, MapAllFollows, ModeKeyFollows,
       WinSwitchFollows
    DEF Next

-----------------------------------------------------------------------------
(* The invariant.                                                          *)
ListsInv == Good(Now) /\ V!IInv /\ V!AllInTurn

LEMMA InitIs ==
  ASSUME Init
  PROVE  Good(Now) /\ V!Init
  <1>1. PICK s : s = Now
    OBVIOUS
  <1>2. PICK new : new = V!NewWindow(NoWorkspace)
    OBVIOUS
  <1>3. <<>> \in Seq(V!Notices)
    OBVIOUS
  <1>4. new \in V!Client /\ Idle(new) = new /\ ~new.managed
    <2>1. PICK n \in Seq(V!Notices) : n = <<>>
      BY <1>3
    <2>2. new = [win |-> "unmapped", notices |-> n, managed |-> FALSE, known |-> FALSE,
                 workspace |-> NoWorkspace, place |-> NoWorkspace, desktop |-> NoWorkspace,
                 mapped |-> FALSE, state |-> "UNMAPPED", pending_unmap |-> 0, ul |-> "none",
                 future_stay |-> FALSE, from_switch |-> FALSE, map_after |-> FALSE,
                 unmap_after |-> FALSE]
      BY <1>2, <2>1 DEF V!NewWindow
    <2>3. new \in V!Client
      BY <2>2 DEF V!Client, V!States
    <2>4. Idle(new) = new
      <3>1. Idle(new) = [new EXCEPT !.notices = n, !.place = NoWorkspace, !.ul = "none"]
        BY <2>1 DEF Idle
      <3>2. new.notices = n /\ new.place = NoWorkspace /\ new.ul = "none"
        BY <2>2
      <3> QED
        BY ZenonT(60), <2>2, <3>1, <3>2
    <2> QED
      BY <2>2, <2>3, <2>4
  <1>5. PICK m : m = [cl |-> <<>>, fl |-> <<>>, ml |-> <<>>, ul |-> <<>>]
    OBVIOUS
  <1>6. /\ s.current \in Workspaces /\ s.client = [c \in Clients |-> new]
        /\ s.flags = [c \in Clients |-> NoFlags] /\ s.lists = [w \in Workspaces |-> m]
        /\ s.queue = <<>>
    BY <1>1, <1>2, <1>5 DEF Init, Now
  <1>7. m \in Monitor
    <2>1. <<>> \in Seq(Clients) /\ <<>> \in Seq(Detached) /\ <<>> \in Seq(Minimized)
          /\ <<>> \in Seq(Unmapped)
      OBVIOUS
    <2> QED
      BY <1>5, <2>1 DEF Monitor
  <1>8. s \in States
    <2>1. NoFlags \in Flagsets
      BY DEF NoFlags, Flagsets
    <2>2. s.queue \in Seq(Events)
      BY <1>6
    <2>3. s = [current |-> s.current, client |-> s.client, flags |-> s.flags,
               lists |-> s.lists, queue |-> s.queue]
      BY <1>1 DEF Now
    <2> QED
      BY <1>4, <1>6, <1>7, <2>1, <2>2, <2>3 DEF States
  <1>9. \A x : ~In(<<>>, x)
    BY DEF In
  <1>10. IsInjective(<<>>) /\ Members(<<>>) = <<>>
    BY DEF IsInjective, Members
  <1>11. Sound(s)
    BY <1>5, <1>6, <1>8, <1>10 DEF Sound, Once
  <1>12. \A k, w, e : ~At(s, k, w, e)
    BY <1>5, <1>6, <1>9 DEF At
  <1>13. \A c \in Clients : Placed(s, c)
    BY <1>4, <1>6, <1>12 DEF Placed, Nowhere
  <1>14. Good(s)
    BY <1>4, <1>6, <1>11, <1>13 DEF Good, Idles
  <1>15. ASSUME NEW c \in Clients PROVE View[c] = new
    <2>1. /\ NoticesOf(s.queue, c) \in Seq(V!Notices) /\ Known(s, c) \in V!Client
          /\ Seen(s, c) = Prefixed(NoticesOf(s.queue, c), Known(s, c))
      BY <1>14, SeenAgain
    <2>2. s.client[c] = new
      BY <1>6
    <2>3. ~Known(s, c).managed
      BY <1>4, <1>14, <2>2, KnownIs DEF Good
    <2>4. Known(s, c).place = NoWorkspace /\ Known(s, c).ul = "none"
      BY <1>14, <2>3, KnownSpot
    <2>5. PlaceOf(s, c) = NoWorkspace /\ UlOf(s, PlaceOf(s, c), c) = "none"
      BY <1>14, <2>4, KnownIs DEF Good
    <2>6. Known(s, c) = [new EXCEPT !.place = NoWorkspace, !.ul = "none"]
      BY <2>2, <2>5 DEF Known
    <2>7. NoticesOf(s.queue, c) = <<>>
      <3>1. PICK q \in Seq(Events) : q = s.queue
        BY <1>8 DEF States
      <3>2. Len(q) = 0
        BY <1>6, <3>1
      <3>3. PICK f \in [0..Len(q) -> Seq(V!Notices)] : Course(f, c, q)
        BY CourseExists
      <3>4. NoticesOf(q, c) = f[Len(q)]
        BY <3>3, CourseEnds
      <3>5. f[0] = <<>>
        BY <3>3 DEF Course
      <3> QED
        BY <3>1, <3>2, <3>4, <3>5
    <2>8. View[c] = [Known(s, c) EXCEPT !.notices = <<>>]
      BY <1>1, <2>7 DEF View, Seen
    <2>9. View[c] = Idle(new)
      BY <1>4, <2>6, <2>8 DEF Idle, V!Client
    <2> QED
      BY <1>4, <2>9
  <1>16. View \in [Clients -> {V!NewWindow(NoWorkspace), V!NewWindow(AllWorkspaces)}]
    BY <1>2, <1>15 DEF View
  <1> QED
    BY <1>1, <1>6, <1>14, <1>16 DEF V!Init, Init

LEMMA InitSees ==
  ASSUME V!Init
  PROVE  V!IInv /\ V!AllInTurn
  <1>1. VP!ConstantsAssumption
    BY ListsAssumption DEF VP!ConstantsAssumption, VP!AllBindings, VP!AllClientOps
  <1>2. VP!Init
    BY DEF V!Init, VP!Init, V!NewWindow, VP!NewWindow
  <1>3. VP!IInv
    BY <1>1, <1>2, VP!InitIInv
  <1>4. ASSUME NEW c \in Clients PROVE V!Turn(View[c])
    <2>1. /\ View[c].win = "unmapped" /\ View[c].notices = <<>> /\ ~View[c].managed
      BY DEF V!Init, V!NewWindow
    <2> QED
      BY <2>1 DEF V!Turn, V!InTurn, V!Has
  <1> QED
    BY <1>3, <1>4, SameInv DEF V!AllInTurn

LEMMA StutterFollows ==
  ASSUME Good(Now), UNCHANGED vars
  PROVE  Follows /\ Then = Now
  <1>1. Now' = Now
    BY DEF vars, Now
  <1>2. View' = View
    BY <1>1 DEF View
  <1>3. Good(Now)'
    BY <1>1
  <1>4. Then = Now
    BY DEF vars, Then, Now
  <1> QED
    BY <1>2, <1>3, <1>4 DEF vars, Follows

LEMMA NextInv ==
  ASSUME ListsInv, [Next]_vars, "persistent" \notin Bindings
  PROVE  ListsInv' /\ Follows
  <1>1. Follows
    BY NextFollows, StutterFollows DEF ListsInv
  <1>2. V!IInv' /\ V!AllInTurn'
    BY <1>1, SeesNext DEF ListsInv, Follows
  <1> QED
    BY <1>1, <1>2 DEF ListsInv, Follows

(* The inductive invariant: every managed client has one entry in one list *)
(* of one workspace, which its flags fit, and nobody else has one; it is   *)
(* where its Client struct says; and its notices come in turn, so that an  *)
(* UnmapNotify never makes a second record of a client that is in the      *)
(* unmapped list.  Whatever handlers and keys follow each other, before or *)
(* after the notices of the last ones are read.                            *)
THEOREM ListsInvariant ==
  ASSUME "persistent" \notin Bindings
  PROVE  Spec => []ListsInv
  <1>1. Init => ListsInv
    BY InitIs, InitSees DEF ListsInv
  <1>2. ListsInv /\ [Next]_vars => ListsInv'
    BY NextInv
  <1> QED
    BY <1>1, <1>2, PTL DEF Spec

LEMMA GoodTypes ==
  ASSUME Good(Now)
  PROVE  TypeOK
  <1>1. Now \in States /\ Now.lists = lists /\ Now.flags = flags
    BY NowIs
  <1>2. lists \in [Workspaces -> Monitor] /\ flags \in [Clients -> Flagsets]
    BY <1>1 DEF States
  <1>3. \A c \in Clients : View[c] \in V!Client
    BY SeenAgain, NowIs DEF SeenNow
  <1> QED
    BY <1>2, <1>3 DEF TypeOK, Flagsets

(* Lists, records, flags and the clients as Visibility sees them keep their*)
(* types, through every detach, reattach and swap.                         *)
THEOREM ListsTyped ==
  ASSUME "persistent" \notin Bindings
  PROVE  Spec => []TypeOK
  <1>1. ListsInv => TypeOK
    BY GoodTypes DEF ListsInv
  <1> QED
    BY <1>1, ListsInvariant, PTL

(* A client is in exactly one list of exactly one workspace, once, from    *)
(* the time it is managed until it is not: no detach, reattach, switch,    *)
(* move or walk over a list that shrinks under it loses or doubles one,    *)
(* however late the notices are read.                                      *)
THEOREM AlwaysInOneList ==
  ASSUME "persistent" \notin Bindings
  PROVE  Spec => []InExactlyOneList
  <1>1. ListsInv => InExactlyOneList
    BY GoodOnce DEF ListsInv
  <1> QED
    BY <1>1, ListsInvariant, PTL

(* The flags floating and minimized of a mapped Client name the list it is *)
(* in, so detach_unmapped and move_client_to_workspace, which choose the   *)
(* list to search by them, find it.                                        *)
THEOREM FlagsAlwaysName ==
  ASSUME "persistent" \notin Bindings
  PROVE  Spec => []FlagsNameTheList
  <1>1. ListsInv => FlagsNameTheList
    BY GoodFlags DEF ListsInv
  <1> QED
    BY <1>1, ListsInvariant, PTL

(* Tiled, floating or minimized is what the user made a client: unmapping  *)
(* it, mapping it, leaving its workspace, coming back and moving it keep   *)
(* that, by way of the origin its record in the unmapped list remembers.   *)
THEOREM ModesSurvive ==
  ASSUME "persistent" \notin Bindings
  PROVE  Spec => ModeSurvives
  <1>1. ASSUME ListsInv, [Next]_vars
        PROVE  [ \/ \A c \in Clients : client[c].managed /\ client'[c].managed
                                         => Mode(Then, c) = Mode(Now, c)
                 \/ ModeKey ]_vars
    <2>1. CASE Next
      <3>1. KeepsModes \/ ModeKey
        BY <1>1, <2>1, NextFollows DEF ListsInv
      <3>2. Now.client = client /\ Then.client = client'
        BY DEF Now, Then
      <3> QED
        BY <3>1, <3>2 DEF KeepsModes, SameMode
    <2> QED
      BY <1>1, <2>1
  <1> QED
    BY <1>1, ListsInvariant, PTL DEF ModeSurvives, Spec

(* The lists implement the map and unmap protocol: seen through View, each *)
(* step on the lists is the step of Visibility of its name, or none.  What *)
(* Visibility_proofs shows of its place and ul holds of the lists.         *)
THEOREM ListsImplement ==
  ASSUME "persistent" \notin Bindings
  PROVE  Spec => Implements
  <1>1. Init => V!Init
    BY InitIs
  <1>2. ListsInv /\ [Next]_vars => [V!Next]_(V!vars)
    BY NextInv DEF Follows, V!vars
  <1> QED
    BY <1>1, <1>2, ListsInvariant, PTL DEF Spec, Implements, V!Spec
=============================================================================
