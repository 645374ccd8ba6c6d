-------------------------------- MODULE Lists --------------------------------
(***************************************************************************)
(* The lists of a workspace: its tiled, floating, minimized and unmapped   *)
(* clients, in order.  A client goes from list to list by a record that    *)
(* remembers where it came from: the user floats and minimizes it, a       *)
(* switch of workspace unmaps it, and each way back has to find the list   *)
(* and the position.  Maps and unmaps go on below, as in Visibility, whose *)
(* operators on one client are used here and whose specification this one  *)
(* implements; all events are in one queue, for the order in which clients *)
(* leave and enter the lists is that of their notices.                     *)
(*                                                                         *)
(* Every workspace has one monitor, and there are no docks.  The tracked   *)
(* focus is any client it may be (Visibility, FocusMayBe).  A client does  *)
(* not withdraw its window and the manager is not restarted, so no window  *)
(* is on the screen when it is first managed.                              *)
(***************************************************************************)
EXTENDS ClientList, FiniteSets, TLC

CONSTANTS
  Clients,       (* top-level windows                                      *)
  Floats,        (* those declared float, or transient                     *)
  Workspaces,    (* 0 .. N_WORKSPACES - 1                                  *)
  NoWorkspace, AllWorkspaces, None,
  Bindings,      (* what this configuration binds                          *)
  ClientOps,     (* what clients do with their windows                     *)
  FocusStart,    (* new-focus-start: "adjacent" or "end"                   *)
  Patient,       (* nobody acts before all events have been read           *)
  MaxNotices,    (* bound: notices of one window on their way              *)
  MaxPending     (* bound: pending unmaps when the client unmaps by itself *)

ASSUME ListsAssumption ==
  /\ IsFiniteSet(Clients) /\ Floats \subseteq Clients
  /\ NoWorkspace \notin Workspaces /\ AllWorkspaces \notin Workspaces
  /\ AllWorkspaces # NoWorkspace
  /\ ClientOps \subseteq {"map", "destroy"}
  /\ MaxNotices \in Nat /\ MaxPending \in Nat

VARIABLES
  current,       (* current_workspace                                      *)
  client,        (* a record of Visibility less its place                  *)
  flags,         (* of each client: float, mini, persistent                *)
  lists,         (* of each workspace: cl, fl, ml and ul of its monitor    *)
  queue          (* the events the manager has not read yet, oldest first  *)

vars == <<current, client, flags, lists, queue>>

Now == [current |-> current, client |-> client, flags |-> flags, lists |-> lists,
        queue |-> queue]

Become(s) == /\ current' = s.current /\ client' = s.client /\ flags' = s.flags
             /\ lists' = s.lists /\ queue' = s.queue

-----------------------------------------------------------------------------
(* Records, and where a client is.                                         *)

Origins == {"CL", "FL", "ML"}

Detached  == [of : Clients, pos : Int]
Minimized == [of : Clients, pos : Int, origin : Origins]
Unmapped  == [of : Clients, pos : Int, origin : Origins, before : Origins,
              stay : BOOLEAN]      \* before is origin_origin

Monitor == [cl : Seq(Clients), fl : Seq(Detached), ml : Seq(Minimized),
            ul : Seq(Unmapped)]

Members(l) == [i \in DOMAIN l |-> l[i].of]

Has(l, c) == \E i \in DOMAIN l : l[i].of = c

(* The first record of c in l, and l without it: the find_from_client and  *)
(* remove functions of the three lists of records.                         *)
RecordOf(l, c) == l[Position(Members(l), c)]
Without(l, c)  == IF Has(l, c) THEN RemoveAt(l, Position(Members(l), c)) ELSE l

Everyone(m) == m.cl \o Members(m.fl) \o Members(m.ml) \o Members(m.ul)

Holds(m, c) == In(m.cl, c) \/ Has(m.fl, c) \/ Has(m.ml, c) \/ Has(m.ul, c)

PlaceOf(s, c) ==
  IF \E w \in Workspaces : Holds(s.lists[w], c)
    THEN CHOOSE w \in Workspaces : Holds(s.lists[w], c) ELSE NoWorkspace

UlOf(s, w, c) ==
  IF w = NoWorkspace \/ ~Has(s.lists[w].ul, c) THEN "none"
  ELSE IF RecordOf(s.lists[w].ul, c).stay THEN "stay" ELSE "can"

(* The Client for the operators of Visibility: it has there a place and a  *)
(* ul, which the lists tell, and notices, which are in the queue.  These   *)
(* three are idle in the variable client.                                  *)
Idle(r) == [r EXCEPT !.notices = <<>>, !.place = NoWorkspace, !.ul = "none"]

Known(s, c) ==
  LET w == PlaceOf(s, c) IN [s.client[c] EXCEPT !.place = w, !.ul = UlOf(s, w, c)]

(* The events about c, the oldest first.                                   *)
Hear(c, told, e) == IF e.of = c THEN Append(told, e.what) ELSE told

Hearing == INSTANCE Loops WITH Step <- Hear

NoticesOf(q, c) == Hearing!Along(c, <<>>, q)

Seen(s, c) == [Known(s, c) EXCEPT !.notices = NoticesOf(s.queue, c)]

View == [c \in Clients |-> Seen(Now, c)]

V == INSTANCE Visibility WITH
       client <- View, Docks <- {}, Hurried <- FALSE,
       Bindings <- Bindings \cap {"switch", "move", "unmap_window", "map_latest",
                                  "unmap_all", "map_all"}

(* Client c is now r, which was Known; the notices of r go to the end of   *)
(* the queue.                                                              *)
Put(s, c, r) ==
  [s EXCEPT !.client[c] = Idle(r),
            !.queue = @ \o [i \in DOMAIN r.notices |-> [what |-> r.notices[i], of |-> c]]]

Mapped(s, c) == V!IsClientMapped(Known(s, c))

-----------------------------------------------------------------------------
(* Putting records into lists and taking them out.                         *)

ClOf(s, w) == s.lists[w].cl

NoFlags == [float |-> FALSE, mini |-> FALSE, persistent |-> FALSE]

FlPush(s, w, rec) ==
  [s EXCEPT !.lists[w].fl = <<rec>> \o @, !.flags[rec.of].float = TRUE]

FlRemove(s, w, c) ==
  IF Has(s.lists[w].fl, c)
    THEN [s EXCEPT !.lists[w].fl = Without(@, c), !.flags[c].float = FALSE] ELSE s

MlPush(s, w, rec) ==
  [s EXCEPT !.lists[w].ml = <<rec>> \o @, !.flags[rec.of].mini = TRUE]

(* Variant: the flag is left.                                              *)
MlRemoveFlagged(s, w, c) == [s EXCEPT !.lists[w].ml = Without(@, c)]

MlRemove(s, w, c) ==
  IF Has(s.lists[w].ml, c)
    THEN [s EXCEPT !.lists[w].ml = Without(@, c), !.flags[c].mini = FALSE] ELSE s

UlPush(s, w, rec) == [s EXCEPT !.lists[w].ul = <<rec>> \o @]

(* detach_client and fl_push.  The position is looked up when the client   *)
(* has left the minimized list, and was in no client list before.          *)
Detach(s, w, c) ==
  LET pos == Position(ClOf(s, w), c)
      t   == IF s.flags[c].mini THEN MlRemove(s, w, c) ELSE s
  IN FlPush([t EXCEPT !.lists[w].cl = ClRemove(@, c)], w, [of |-> c, pos |-> pos])

(* fl_reattach_into_cl, where the client's monitor is the one of the list. *)
ReattachFloat(s, w, c) ==
  LET pos == RecordOf(s.lists[w].fl, c).pos
  IN [FlRemove(s, w, c) EXCEPT !.lists[w].cl = Reattach(@, c, pos)]

(* Variant: the record of a floating client is not taken out of its list.  *)
MinimizeFloating(s, w, c) ==
  MlPush([s EXCEPT !.lists[w].cl = ClRemove(@, c)], w,
         [of |-> c, pos |-> Position(ClOf(s, w), c), origin |-> "CL"])

(* minimize_client and ml_push.  What minimize_client_from_fl returns is   *)
(* dropped, so a floating client is taken for one that was nowhere.        *)
Minimize(s, w, c) ==
  LET pos == Position(ClOf(s, w), c)
  IN MlPush([FlRemove(s, w, c) EXCEPT !.lists[w].cl = ClRemove(@, c)], w,
            [of |-> c, pos |-> pos, origin |-> "CL"])

(* ml_reattach                                                             *)
Restore(s, w, c) ==
  LET rec == RecordOf(s.lists[w].ml, c)
      out == MlRemove(s, w, c)
  IN CASE rec.origin = "CL" -> [out EXCEPT !.lists[w].cl = Reattach(@, c, rec.pos)]
       [] rec.origin = "FL" -> FlPush(out, w, [of |-> c, pos |-> rec.pos])
       [] OTHER -> out

(* Variant: a minimized client is looked for among the tiled.              *)
DetachUnmappedTiled(s, w, c) ==
  LET stay == s.client[c].future_stay
      Rec(pos, origin, before) == [of |-> c, pos |-> pos, origin |-> origin,
                                   before |-> before, stay |-> stay]
  IN IF s.flags[c].float
       THEN UlPush(FlRemove(s, w, c), w, Rec(RecordOf(s.lists[w].fl, c).pos, "FL", "CL"))
     ELSE UlPush([MlRemove(s, w, c) EXCEPT !.lists[w].cl = ClRemove(@, c)], w,
                 Rec(Position(ClOf(s, w), c), "CL", "CL"))

(* detach_unmapped, unmapped_set_stay_unmapped and ul_push.  A floating    *)
(* client that is not in the list of floating ones has no record to make.  *)
DetachUnmapped(s, w, c) ==
  LET stay == s.client[c].future_stay
      Rec(pos, origin, before) == [of |-> c, pos |-> pos, origin |-> origin,
                                   before |-> before, stay |-> stay]
  IN IF s.flags[c].float
       THEN IF ~Has(s.lists[w].fl, c) THEN s
            ELSE UlPush(FlRemove(s, w, c), w, Rec(RecordOf(s.lists[w].fl, c).pos, "FL", "CL"))
     ELSE IF s.flags[c].mini
       THEN LET rec == RecordOf(s.lists[w].ml, c)
            IN UlPush(MlRemove(s, w, c), w, Rec(rec.pos, "ML", rec.origin))
     ELSE UlPush([s EXCEPT !.lists[w].cl = ClRemove(@, c)], w,
                 Rec(Position(ClOf(s, w), c), "CL", "CL"))

(* ul_reattach                                                             *)
ReattachUnmapped(s, w, c) ==
  LET rec == RecordOf(s.lists[w].ul, c)
      out == [s EXCEPT !.lists[w].ul = Without(@, c)]
  IN CASE rec.origin = "CL" -> [out EXCEPT !.lists[w].cl = Reattach(@, c, rec.pos)]
       [] rec.origin = "FL" -> FlPush(out, w, [of |-> c, pos |-> rec.pos])
       [] rec.origin = "ML" -> MlPush(out, w, [of |-> c, pos |-> rec.pos, origin |-> rec.before])

(* move_client_to_monitor_from_*, and move_from_current_*_list: at the     *)
(* head of a list of records, at the end of the client list.               *)
MoveLists(s, c, from, to) ==
  IF s.flags[c].float
    THEN FlPush(FlRemove(s, from, c), to, RecordOf(s.lists[from].fl, c))
  ELSE IF s.flags[c].mini
    THEN MlPush(MlRemove(s, from, c), to, RecordOf(s.lists[from].ml, c))
  ELSE [s EXCEPT !.lists[from].cl = ClRemove(@, c), !.lists[to].cl = ClAppend(@, c)]

-----------------------------------------------------------------------------
(* The handlers of events.c, on a state whose event has been read.         *)

(* Variant: the record of a new client does not say where it belongs.      *)
StartListsUnknown(s, c, w, float, focus) ==
  UlPush(s, w, [of |-> c, pos |-> IntMax, origin |-> "UNKNOWN", before |-> "UNKNOWN",
                stay |-> FALSE])

(* start_manage_unmapped_float and start_manage_unmapped_tiled.            *)
StartLists(s, c, w, float, focus) ==
  LET adjacent == focus # None /\ FocusStart = "adjacent"
      pos  == IF adjacent /\ ~float THEN Position(ClOf(s, w), focus) + 1 ELSE IntMax
      kind == IF float THEN "FL" ELSE "CL"
  IN UlPush([s EXCEPT !.flags[c].float = float], w,
            [of |-> c, pos |-> pos, origin |-> kind, before |-> kind, stay |-> FALSE])

HandleMapRequest(s, c, focus) ==
  LET r   == Known(s, c)
      new == V!HandleMapRequest(r, s.current)
  IN IF r.managed THEN Put(s, c, new)
     ELSE Put(StartLists(s, c, new.workspace, c \in Floats /\ new.known, focus), c, new)

EndManage(s, c) ==
  LET w   == PlaceOf(s, c)
      out == MlRemove(FlRemove([s EXCEPT !.lists[w].cl = ClRemove(@, c)], w, c), w, c)
      all == [out EXCEPT !.lists[w].ul = Without(@, c)]
  IN Put([all EXCEPT !.flags[c] = NoFlags], c, V!Fresh(Known(s, c)))

HandleUnmapNotify(s, c) ==
  LET r == Known(s, c) IN
  IF ~r.managed THEN s
  ELSE IF r.pending_unmap = 0 THEN EndManage(s, c)
  ELSE Put(IF V!IsInPlace(r) THEN DetachUnmapped(s, r.workspace, c) ELSE s,
           c, V!HandleUnmapNotify(r))

HandleMapNotify(s, c) ==
  LET r == Known(s, c) IN
  IF ~r.managed THEN s
  ELSE Put(IF V!IsInPlace(r) /\ r.ul # "none" THEN ReattachUnmapped(s, r.workspace, c) ELSE s,
           c, V!HandleMapNotify(r, s.current, FALSE))

HandleDestroyNotify(s, c) == IF s.client[c].managed THEN EndManage(s, c) ELSE s

-----------------------------------------------------------------------------
(* The key actions of events.c.                                            *)

(* One turn of a loop of monitor_move_persistent.  It goes on from the     *)
(* client it has just moved, which is at the end of the other workspace's  *)
(* list, or in front of clients that are there already: past is set when   *)
(* it has left the list it walks.  move_client_to_monitor leaves a client  *)
(* that is not mapped where it is, and monitor_change_client_state_after_  *)
(* move does not.                                                          *)
MovePersistent(to, walk, c) ==
  LET s       == walk.s
      mapped  == Mapped(s, c)
      moved   == IF mapped THEN MoveLists(s, c, s.current, to) ELSE s
  IN IF walk.past \/ ~s.flags[c].persistent THEN walk
     ELSE [s    |-> [moved EXCEPT !.client[c].workspace = to, !.client[c].desktop = to],
           past |-> mapped]

Persisting == INSTANCE Loops WITH Step <- MovePersistent

MoveAllPersistent(s, l, to) == Persisting!Along(to, [s |-> s, past |-> FALSE], l).s

MovePersistentToWorkspace(s, to) ==
  LET m == s.lists[s.current]
      tiled     == MoveAllPersistent(s, m.cl, to)
      float     == MoveAllPersistent(tiled, Members(m.fl), to)
      minimized == MoveAllPersistent(float, Members(m.ml), to)
  IN MoveAllPersistent(minimized, Members(m.ul), to)

LeaveOne(w, s, c) == Put(s, c, V!Leave(Known(s, c)))
EnterOne(w, s, c) == Put(s, c, V!Enter(Known(s, c)))

Leaving  == INSTANCE Loops WITH Step <- LeaveOne
Entering == INSTANCE Loops WITH Step <- EnterOne

LeaveAll(s, w) == Leaving!Along(w, s, Everyone(s.lists[w]))

(* Variant: the clients come back in the order they went.                  *)
EnterAllReversed(s, w) == Entering!Along(w, s, Reverse(Everyone(s.lists[w])))

EnterAll(s, w) == Entering!Along(w, s, Everyone(s.lists[w]))

ActionSwitchWorkspace(s, w) ==
  LET persisted == MovePersistentToWorkspace(s, w)
      left      == LeaveAll(persisted, s.current)
  IN EnterAll([left EXCEPT !.current = w], w)

ActionMoveToWorkspace(s, c, w) ==
  LET r == [Known(s, c) EXCEPT !.workspace = w, !.desktop = w, !.place = w]
  IN Put(MoveLists(s, c, s.current, w), c, V!UnmapClient(r))

ActionUnmapWindow(s, c) ==
  Put(s, c, V!UnmapClient([Known(s, c) EXCEPT !.future_stay = TRUE]))

(* Variant: only the latest unmap is taken back.                           *)
CanBeMappedLatest(s, w) ==
  IF s.lists[w].ul = <<>> THEN s ELSE [s EXCEPT !.lists[w].ul[1].stay = FALSE]

(* ul_set_all_can_be_mapped                                                *)
CanBeMapped(s, w) ==
  [s EXCEPT !.lists[w].ul = [i \in DOMAIN @ |-> [@[i] EXCEPT !.stay = FALSE]]]

ActionMapLatestUnmap(s) ==
  LET w == s.current
      c == Head(s.lists[w].ul).of
      t == [s EXCEPT !.lists[w].ul[1].stay = FALSE]
  IN Put(t, c, V!MapClient([Known(t, c) EXCEPT !.future_stay = FALSE]))

(* Only the clients of the client list, tiled, are marked to stay unmapped. *)
UnmapOne(tiled, s, c) ==
  Put(s, c, V!UnmapClient([Known(s, c) EXCEPT !.future_stay = @ \/ In(tiled, c)]))

MapOne(w, s, c) == Put(s, c, V!MapClient([Known(s, c) EXCEPT !.future_stay = FALSE]))

Unmapping == INSTANCE Loops WITH Step <- UnmapOne
Mapping   == INSTANCE Loops WITH Step <- MapOne

ActionUnmapAll(s) ==
  LET m == s.lists[s.current]
  IN Unmapping!Along(m.cl, s, m.cl \o Members(m.fl) \o Members(m.ml))

ActionMapAll(s) ==
  Mapping!Along(s.current, CanBeMapped(s, s.current), Members(s.lists[s.current].ul))

ActionToggleFloat(s, c) ==
  IF s.flags[c].float THEN ReattachFloat(s, s.current, c) ELSE Detach(s, s.current, c)

ActionMinimizeWindow(s, c) ==
  IF s.flags[c].mini THEN Restore(s, s.current, c) ELSE Minimize(s, s.current, c)

TileOne(w, s, c)     == ReattachFloat(s, w, c)
FloatOne(w, s, c)    == Detach(s, w, c)
MinimizeOne(w, s, c) == Minimize(s, w, c)
RestoreOne(w, s, c)  == Restore(s, w, c)

Tiling     == INSTANCE Loops WITH Step <- TileOne
Floating   == INSTANCE Loops WITH Step <- FloatOne
Minimizing == INSTANCE Loops WITH Step <- MinimizeOne
Restoring  == INSTANCE Loops WITH Step <- RestoreOne

ActionFloatAllTiled(s) == Tiling!Along(s.current, s, Members(s.lists[s.current].fl))

ActionTileAllFloat(s) == Floating!Along(s.current, s, ClOf(s, s.current))

ActionMinimizeAll(s) ==
  LET m == s.lists[s.current] IN Minimizing!Along(s.current, s, m.cl \o Members(m.fl))

ActionUnminimizeAll(s) == Restoring!Along(s.current, s, Members(s.lists[s.current].ml))

ActionWinSwitch(s, c, d) == [s EXCEPT !.lists[s.current].cl = ClSwap(@, c, d)]

ActionTogglePersistent(s, c) == [s EXCEPT !.flags[c].persistent = ~@]

-----------------------------------------------------------------------------
Init ==
  /\ current \in Workspaces
  /\ client = [c \in Clients |-> V!NewWindow(NoWorkspace)]
  /\ flags = [c \in Clients |-> NoFlags]
  /\ lists = [w \in Workspaces |-> [cl |-> <<>>, fl |-> <<>>, ml |-> <<>>, ul |-> <<>>]]
  /\ queue = <<>>

MayAct == Patient => queue = <<>>

ClientMap(c) ==
  /\ "map" \in ClientOps /\ V!ClientMayAct(c) /\ MayAct
  /\ client[c].win = "unmapped"
  /\ Become(Put(Now, c, [Known(Now, c) EXCEPT !.notices = <<"request">>]))

ClientDestroy(c) ==
  /\ "destroy" \in ClientOps /\ V!ClientMayAct(c) /\ MayAct
  /\ Become(Put(Now, c, [V!XUnmapWindow(Known(Now, c)) EXCEPT
                           !.notices = Append(@, "destroy"), !.win = "gone"]))

-----------------------------------------------------------------------------
(* The event loop. *)

Reads(kind) == queue # <<>> /\ Head(queue).what = kind

Rest == [Now EXCEPT !.queue = Tail(@)]
Of   == Head(queue).of

(* get_current_focus() when a client is managed: any it may be, or none.   *)
MapRequest ==
  /\ Reads("request")
  /\ \E focus \in {c \in Clients : V!FocusMayBe(c)} \cup {None} :
       Become(HandleMapRequest(Rest, Of, focus))

UnmapNotify   == Reads("unmap") /\ Become(HandleUnmapNotify(Rest, Of))
MapNotify     == Reads("map") /\ Become(HandleMapNotify(Rest, Of))
DestroyNotify == Reads("destroy") /\ Become(HandleDestroyNotify(Rest, Of))

Handle == MapRequest \/ UnmapNotify \/ MapNotify \/ DestroyNotify

(* A key is read with c tracked as the focus; the actions on lists do      *)
(* nothing when it is not a client of the current workspace.               *)
Key(binding, c) == binding \in Bindings /\ MayAct /\ V!FocusMayBe(c)

ListKey(binding, c) == Key(binding, c) /\ client[c].workspace = current

SwitchWorkspace(w) ==
  /\ "switch" \in Bindings /\ MayAct /\ w # current
  /\ Become(ActionSwitchWorkspace(Now, w))

MoveToWorkspace(c, w) ==
  Key("move", c) /\ w # current /\ Become(ActionMoveToWorkspace(Now, c, w))

UnmapWindow(c) == Key("unmap_window", c) /\ Become(ActionUnmapWindow(Now, c))

MapLatestUnmap ==
  /\ "map_latest" \in Bindings /\ MayAct
  /\ lists[current].ul # <<>>
  /\ Become(ActionMapLatestUnmap(Now))

UnmapAll == "unmap_all" \in Bindings /\ MayAct /\ Become(ActionUnmapAll(Now))
MapAll   == "map_all" \in Bindings /\ MayAct /\ Become(ActionMapAll(Now))

ToggleFloat(c)    == ListKey("float", c) /\ Become(ActionToggleFloat(Now, c))
MinimizeWindow(c) == ListKey("minimize", c) /\ Become(ActionMinimizeWindow(Now, c))
FloatAllTiled(c)  == ListKey("float_all", c) /\ Become(ActionFloatAllTiled(Now))
TileAllFloat(c)   == ListKey("tile_all", c) /\ Become(ActionTileAllFloat(Now))
MinimizeAll(c)    == ListKey("minimize_all", c) /\ Become(ActionMinimizeAll(Now))
UnminimizeAll(c)  == ListKey("unminimize_all", c) /\ Become(ActionUnminimizeAll(Now))

(* The neighbour in a direction is any other tiled client.                 *)
WinSwitch(c, d) ==
  /\ ListKey("win_switch", c) /\ c # d
  /\ In(lists[current].cl, c) /\ In(lists[current].cl, d)
  /\ Become(ActionWinSwitch(Now, c, d))

TogglePersistent(c) == Key("persistent", c) /\ Become(ActionTogglePersistent(Now, c))

(* The keys that change the mode of clients: tiled, floating, minimized.   *)
ModeKey == \E c \in Clients :
  \/ ToggleFloat(c) \/ MinimizeWindow(c) \/ FloatAllTiled(c) \/ TileAllFloat(c)
  \/ MinimizeAll(c) \/ UnminimizeAll(c)

Next ==
  \/ \E c \in Clients : ClientMap(c) \/ ClientDestroy(c)
  \/ Handle
  \/ \E w \in Workspaces : SwitchWorkspace(w)
  \/ \E c \in Clients, w \in Workspaces : MoveToWorkspace(c, w)
  \/ \E c \in Clients : UnmapWindow(c) \/ TogglePersistent(c)
  \/ MapLatestUnmap \/ UnmapAll \/ MapAll
  \/ ModeKey
  \/ \E c, d \in Clients : WinSwitch(c, d)

Spec == Init /\ [][Next]_vars

-----------------------------------------------------------------------------
(* Properties *)

(* Type invariant of the lists (client.h, monitor.h, detached.h, ...).     *)
TypeOK ==
  /\ lists \in [Workspaces -> Monitor]
  /\ flags \in [Clients -> [float : BOOLEAN, mini : BOOLEAN, persistent : BOOLEAN]]
  /\ \A c \in Clients : View[c] \in V!Client

HeldBy(c) == {p \in Workspaces \X (1..Cardinality(Clients)) :
                LET all == Everyone(lists[p[1]]) IN p[2] \in DOMAIN all /\ all[p[2]] = c}

(* Every managed client is in one list of one workspace, once, and the     *)
(* lists hold no other: each detach has its reattach, on the same monitor, *)
(* and end_manage finds every record.                                      *)
InExactlyOneList ==
  /\ \A w \in Workspaces : Len(Everyone(lists[w])) <= Cardinality(Clients)
  /\ \A c \in Clients : Cardinality(HeldBy(c)) = IF client[c].managed THEN 1 ELSE 0

(* detach_unmapped and move_client_to_workspace choose the list to search  *)
(* by the float and minimized flags, not by looking: of a mapped client    *)
(* they name the list it is in.                                            *)
FlagsNameTheList ==
  \A w \in Workspaces, c \in Clients :
    /\ In(lists[w].cl, c) => ~flags[c].float /\ ~flags[c].mini
    /\ Has(lists[w].fl, c) => flags[c].float /\ ~flags[c].mini
    /\ Has(lists[w].ml, c) => flags[c].mini /\ ~flags[c].float

(* What the user has made of a client: the list it is in or, of one that   *)
(* is unmapped, the list its record says it came from.                     *)
Mode(s, c) ==
  LET m == s.lists[PlaceOf(s, c)] IN
  IF In(m.cl, c) THEN "CL" ELSE IF Has(m.fl, c) THEN "FL"
  ELSE IF Has(m.ml, c) THEN "ML" ELSE RecordOf(m.ul, c).origin

Then == [current |-> current', client |-> client', flags |-> flags', lists |-> lists',
         queue |-> queue']

(* Unmapping, mapping, switching and moving keep a client tiled, floating  *)
(* or minimized: only the keys that are for it change that.                *)
ModeSurvives ==
  [][ \/ \A c \in Clients : client[c].managed /\ client'[c].managed
                              => Mode(Then, c) = Mode(Now, c)
      \/ ModeKey ]_vars

(* The tiled clients of a workspace in the order it will have when all its *)
(* unmapped ones are mapped again, the last unmapped first.                *)
TiledOrder(s, w) ==
  FoldLeft(LAMBDA l, rec : IF rec.origin = "CL" THEN Reattach(l, rec.of, rec.pos) ELSE l,
           s.lists[w].cl, s.lists[w].ul)

(* The order of tiled windows is the user's: leaving a workspace and       *)
(* coming back, opening, closing, floating and minimizing others leave two *)
(* tiled windows in the order they had.                                    *)
OrderSurvives ==
  [][ \/ \A w \in Workspaces :
           LET old == TiledOrder(Now, w)
               new == TiledOrder(Then, w)
           IN SelectSeq(old, LAMBDA c : In(new, c)) = SelectSeq(new, LAMBDA c : In(old, c))
      \/ \E c, d \in Clients : WinSwitch(c, d) ]_vars

(* readme.md: float-all-tiled converts all tiled windows to floating.      *)
FloatAllFloats ==
  [][ \A c \in Clients : FloatAllTiled(c) => lists'[current].cl = <<>> ]_vars

(* readme.md: a persistent window appears on all workspaces, so wherever   *)
(* the user is when all events have been read, it is there.                *)
PersistentIsHere ==
  queue = <<>> => \A c \in Clients : client[c].managed /\ flags[c].persistent
                                       => In(lists[current].cl \o Members(lists[current].fl)
                                             \o Members(lists[current].ml), c)

(* The maps and unmaps are those of Visibility, which knows nothing of     *)
(* lists but whether a client is in the unmapped one: looking it up in     *)
(* these lists gives what Visibility says.                                 *)
Implements == V!Spec
=============================================================================
