----------------------------- MODULE Visibility -----------------------------
(***************************************************************************)
(* The map/unmap protocol between angel-wm, the X server and the clients.  *)
(*                                                                         *)
(* The window manager never waits for the server: map_client and           *)
(* unmap_client send a request and put the client in a pending state, and  *)
(* the MapNotify or UnmapNotify that settles it arrives any number of      *)
(* workspace switches later.  Four flags of a Client carry, across those   *)
(* switches, what has to be done when the notice comes.  This module keeps *)
(* exactly that part of the program: one record per client, the server's   *)
(* view of its window, and the notices on their way to the window manager. *)
(* Lists, focus and geometry are left to the other modules: nothing here   *)
(* depends on the place of a client in a list.                             *)
(***************************************************************************)
EXTENDS Naturals, Sequences

CONSTANTS
  Clients,       (* top-level windows, each with at most one Client struct *)
  Docks,         (* those of type _NET_WM_WINDOW_TYPE_DOCK, with a strut   *)
  Workspaces,    (* 0 .. N_WORKSPACES - 1                                  *)
  NoWorkspace,   (* _NET_WM_DESKTOP is not set                             *)
  AllWorkspaces, (* _NET_WM_DESKTOP is 0xFFFFFFFF                          *)
  Bindings,      (* the key actions this configuration binds               *)
  ClientOps,     (* what clients do with their windows                     *)
  Hurried,       (* a key may be read before the FocusIn of an earlier one *)
  MaxNotices,    (* bound: notices of one window on their way              *)
  MaxPending     (* bound: pending unmaps when the client unmaps by itself *)

AllBindings == {"switch", "move", "unmap_window", "map_latest",
                "unmap_all", "map_all", "restart"}
AllClientOps == {"map", "withdraw", "destroy"}

ASSUME ConstantsAssumption ==
  /\ Docks \subseteq Clients
  /\ NoWorkspace \notin Workspaces /\ AllWorkspaces \notin Workspaces
  /\ AllWorkspaces # NoWorkspace
  /\ Bindings \subseteq AllBindings
  /\ ClientOps \subseteq AllClientOps
  /\ Hurried \in BOOLEAN
  /\ MaxNotices \in Nat
  /\ MaxPending \in Nat

VARIABLES
  current,       (* current_workspace                                      *)
  client         (* for each window, its Client struct, server state, FIFO *)

vars == <<current, client>>

Notices == {"request", "map", "unmap", "synthetic", "destroy"}
States  == {"UNMAPPED", "UNMAP_PENDING", "MAPPED", "MAP_PENDING"}

(***************************************************************************)
(* The fields of a client.                                                 *)
(*   win        what the server knows of the window                        *)
(*   notices    events about it the manager has not read yet, oldest first *)
(*   managed    some list of some workspace holds its Client struct        *)
(*   known      the window was still there when it was managed: its type    *)
(*              and its desktop could be read                              *)
(*   workspace  on_workspace, NoWorkspace when it is not managed           *)
(*   place      the workspace whose lists hold it, most often the same     *)
(*   desktop    _NET_WM_DESKTOP, a property of the window                  *)
(*   ul         its UnmappedClient record, by its stay_unmapped flag       *)
(*   future_stay, from_switch, map_after, unmap_after   the Client flags   *)
(*     future_unmap_stay_unmapped, unmapped_from_workspace_switch,         *)
(*     map_after_unmap_notify and unmap_after_map_notify                   *)
(***************************************************************************)
Client ==
  [win : {"unmapped", "mapped", "gone"}, notices : Seq(Notices),
   managed : BOOLEAN, known : BOOLEAN,
   workspace : Workspaces \cup {NoWorkspace},
   place : Workspaces \cup {NoWorkspace},
   desktop : Workspaces \cup {NoWorkspace, AllWorkspaces},
   mapped : BOOLEAN, state : States, pending_unmap : Nat,
   ul : {"none", "can", "stay"}, future_stay : BOOLEAN,
   from_switch : BOOLEAN, map_after : BOOLEAN, unmap_after : BOOLEAN]

(* The values calloc and init_client leave in a Client; kept while the     *)
(* window is not managed.                                                  *)
Fresh(r) == [r EXCEPT !.managed = FALSE, !.known = FALSE,
                      !.workspace = NoWorkspace, !.place = NoWorkspace,
                      !.mapped = FALSE, !.state = "UNMAPPED",
                      !.pending_unmap = 0, !.ul = "none",
                      !.future_stay = FALSE, !.from_switch = FALSE,
                      !.map_after = FALSE, !.unmap_after = FALSE]

-----------------------------------------------------------------------------
(* What the server does with XMapWindow and XUnmapWindow of the manager,   *)
(* and of a client that unmaps its own window: a notice only on a change.  *)

XMapWindow(r) ==
  IF r.win = "unmapped"
    THEN [r EXCEPT !.win = "mapped", !.notices = Append(@, "map")]
    ELSE r

XUnmapWindow(r) ==
  IF r.win = "mapped"
    THEN [r EXCEPT !.win = "unmapped", !.notices = Append(@, "unmap")]
    ELSE r

-----------------------------------------------------------------------------
(* client.c *)

IsClientMapped(r) == r.mapped /\ r.state # "UNMAP_PENDING"

(* get_monitor_from_list_membership looks only among the lists of          *)
(* on_workspace, and finds no monitor for a client whose list is elsewhere.*)
IsInPlace(r) == r.place = r.workspace

(* Variant: the user's own unmap is not respected.                         *)
MapClientAnyway(r) ==
  IF IsClientMapped(r) \/ r.state \in {"MAP_PENDING", "UNMAP_PENDING"}
    THEN r
    ELSE XMapWindow([r EXCEPT !.state = "MAP_PENDING"])

MapClient(r) ==
  IF \/ IsClientMapped(r)
     \/ r.state \in {"MAP_PENDING", "UNMAP_PENDING"}
     \/ r.ul = "stay" /\ IsInPlace(r)
    THEN r
    ELSE XMapWindow([r EXCEPT !.state = "MAP_PENDING"])

(* Variant: an unmap that does not ask whether the client is mapped.       *)
UnmapClientUnasked(r) ==
  IF r.state \in {"MAP_PENDING", "UNMAP_PENDING"}
    THEN r
    ELSE XUnmapWindow([r EXCEPT !.state = "UNMAP_PENDING",
                                !.pending_unmap = @ + 1])

(* unmap_client(client, MANAGE_CONT), the only way it is called.           *)
UnmapClient(r) ==
  IF ~IsClientMapped(r) \/ r.state \in {"MAP_PENDING", "UNMAP_PENDING"}
    THEN r
    ELSE XUnmapWindow([r EXCEPT !.state = "UNMAP_PENDING",
                                !.pending_unmap = @ + 1])

-----------------------------------------------------------------------------
(* manage.c *)

(* get_win_attrs returns zeroed attributes for a window that is gone, so   *)
(* it is managed all the same, on the current workspace.                   *)
StartManage(r, cur) ==
  LET known  == r.win # "gone"
      ws     == IF known /\ r.desktop \in Workspaces THEN r.desktop ELSE cur
      viewed == r.win = "mapped" /\ ws = cur
      told   == IF ws = cur THEN r ELSE XUnmapWindow(r)
      new    == [Fresh(told) EXCEPT
                   !.managed = TRUE, !.known = known, !.workspace = ws, !.place = ws,
                   !.desktop = IF @ = NoWorkspace THEN ws ELSE @]
  IN IF viewed
       THEN [new EXCEPT !.mapped = TRUE, !.state = "MAPPED"]
       ELSE [new EXCEPT !.ul = "can", !.pending_unmap = IF r.win = "mapped" THEN 1 ELSE 0]

(* manage_existing and map_current_workspace for one window of the root's  *)
(* children, after the old connection and its unread events are gone.      *)
Adopt(r, cur) ==
  LET old == Fresh([r EXCEPT !.notices = <<>>])
      new == StartManage(old, cur)
  IN IF r.win = "gone" \/ (r.win = "unmapped" /\ r.desktop \notin Workspaces)
       THEN old
       ELSE IF new.workspace = cur /\ new.ul # "none" THEN MapClient(new)
                                                      ELSE new

-----------------------------------------------------------------------------
(* The handlers of events.c.  r is the client, its notice already read.    *)

(* detach_unmapped and ul_push, when the client's monitor is found.        *)
IntoUnmappedList(r) ==
  IF ~IsInPlace(r) THEN r.ul ELSE IF r.future_stay THEN "stay" ELSE "can"

(* ul_find_from_client and ul_reattach.                                    *)
OutOfUnmappedList(r) == IF IsInPlace(r) THEN "none" ELSE r.ul

HandleMapRequest(r, cur) ==
  IF r.managed /\ r.place # cur                \* scan_other_workspaces_for_window
    THEN r
    ELSE MapClient(IF r.managed THEN r ELSE StartManage(r, cur))

(* Variant: every UnmapNotify is taken for one the manager has asked for.  *)
HandleUnmapNotifyUncounted(r) ==
  IF ~r.managed THEN r
  ELSE LET kept == [r EXCEPT !.state = "UNMAPPED", !.mapped = FALSE,
                             !.pending_unmap = @ - 1,
                             !.ul = IntoUnmappedList(r)]
       IN IF r.map_after THEN [MapClient(kept) EXCEPT !.map_after = FALSE]
                         ELSE kept

HandleUnmapNotify(r) ==
  IF ~r.managed THEN r
  ELSE IF r.pending_unmap = 0 THEN Fresh(r)   \* end_manage
  ELSE LET kept == [r EXCEPT !.state = "UNMAPPED", !.mapped = FALSE,
                             !.pending_unmap = @ - 1,
                             !.ul = IntoUnmappedList(r)]
       IN IF r.map_after THEN [MapClient(kept) EXCEPT !.map_after = FALSE]
                         ELSE kept

(* Variant: only the flag is looked at, not the workspace.                 *)
HandleMapNotifyByFlag(r, cur, dock) ==
  LET shown == [r EXCEPT !.mapped = TRUE, !.state = "MAPPED",
                         !.ul = OutOfUnmappedList(r), !.from_switch = FALSE]
  IN IF ~r.managed THEN r
     ELSE IF (dock /\ r.ul # "none") \/ ~r.unmap_after THEN shown
     ELSE UnmapClient([shown EXCEPT !.unmap_after = FALSE, !.from_switch = TRUE])

(* Variant: the state is set only when the client is to be shown.          *)
HandleMapNotifyLate(r, cur, dock) ==
  LET shown == [r EXCEPT !.mapped = TRUE, !.ul = OutOfUnmappedList(r),
                         !.from_switch = FALSE]
  IN IF ~r.managed THEN r
     ELSE IF (dock /\ r.ul # "none") \/ (r.workspace = cur /\ ~r.unmap_after)
       THEN [shown EXCEPT !.state = "MAPPED"]
     ELSE UnmapClient([shown EXCEPT !.unmap_after = FALSE, !.from_switch = TRUE])

HandleMapNotify(r, cur, dock) ==
  LET shown == [r EXCEPT !.mapped = TRUE, !.state = "MAPPED",
                         !.ul = OutOfUnmappedList(r), !.from_switch = FALSE]
  IN IF ~r.managed THEN r
     ELSE IF dock /\ r.ul # "none" THEN shown
     ELSE IF r.workspace # cur \/ r.unmap_after
       THEN UnmapClient([shown EXCEPT !.unmap_after = FALSE,
                                      !.from_switch = TRUE])
       ELSE shown

HandleDestroyNotify(r) == IF r.managed THEN Fresh(r) ELSE r

-----------------------------------------------------------------------------
(* action_switch_workspace, for a client of the workspace left (Leave), of *)
(* the workspace entered (Enter).  Leave counts on nothing already in      *)
(* flight to show the window later, Enter on nothing to hide it.           *)

InUnmappedList(r) == r.ul # "none"

SetUnmappedFromSwitch(r) == [r EXCEPT !.from_switch = TRUE]

CancelCancelPendingUnmaps(r) ==
  IF InUnmappedList(r) THEN r ELSE [r EXCEPT !.map_after = FALSE]

CancelPendingMaps(r) ==
  IF InUnmappedList(r) /\ r.state = "MAP_PENDING" /\ r.from_switch
    THEN [r EXCEPT !.unmap_after = TRUE]
    ELSE r

CancelCancelPendingMaps(r) ==
  IF InUnmappedList(r) THEN [r EXCEPT !.unmap_after = FALSE] ELSE r

CancelPendingUnmaps(r) ==
  IF ~InUnmappedList(r) /\ r.state = "UNMAP_PENDING" /\ r.from_switch
    THEN [r EXCEPT !.map_after = TRUE]
    ELSE r

Leave(r) ==
  LET cleared == CancelPendingMaps(
                   CancelCancelPendingUnmaps(SetUnmappedFromSwitch(r)))
  IN IF InUnmappedList(r) THEN cleared ELSE UnmapClient(cleared)

(* Variant: pending unmaps are not cancelled on the way in.                *)
EnterNoCancel(r) ==
  IF InUnmappedList(r) THEN MapClient(CancelCancelPendingMaps(r)) ELSE r

(* Variant: map_window in place of map_client.                             *)
EnterMapsAll(r) ==
  LET cleared == CancelPendingUnmaps(CancelCancelPendingMaps(r))
  IN IF InUnmappedList(r)
       THEN XMapWindow([cleared EXCEPT !.state = "MAP_PENDING"])
       ELSE cleared

Enter(r) ==
  LET cleared == CancelPendingUnmaps(CancelCancelPendingMaps(r))
  IN IF InUnmappedList(r) THEN MapClient(cleared) ELSE cleared

-----------------------------------------------------------------------------
(* Initial states: the manager has just started on a display where no      *)
(* window is mapped yet; a client may have asked for all workspaces.       *)

NewWindow(desktop) ==
  [win |-> "unmapped", notices |-> <<>>, managed |-> FALSE, known |-> FALSE,
   workspace |-> NoWorkspace, place |-> NoWorkspace,
   desktop |-> desktop, mapped |-> FALSE, state |-> "UNMAPPED", pending_unmap |-> 0, ul |-> "none",
   future_stay |-> FALSE, from_switch |-> FALSE, map_after |-> FALSE,
   unmap_after |-> FALSE]

Init ==
  /\ current \in Workspaces
  /\ client \in [Clients -> {NewWindow(NoWorkspace), NewWindow(AllWorkspaces)}]

(* Every step about one window replaces its record and leaves the rest.    *)
Set(c, r) == client' = [client EXCEPT ![c] = r] /\ UNCHANGED current

-----------------------------------------------------------------------------
(* Clients. XMapWindow of a client is redirected to the manager while the  *)
(* window is unmapped; withdrawing is ICCCM 4.1.4: unmap, then send the    *)
(* root a synthetic UnmapNotify.                                           *)

ClientMayAct(c) ==
  /\ client[c].win # "gone"
  /\ Len(client[c].notices) < MaxNotices
  /\ client[c].pending_unmap < MaxPending

ClientMap(c) ==
  /\ "map" \in ClientOps
  /\ ClientMayAct(c)
  /\ client[c].win = "unmapped"
  /\ Set(c, [client[c] EXCEPT !.notices = Append(@, "request")])

ClientWithdraw(c) ==
  /\ "withdraw" \in ClientOps
  /\ ClientMayAct(c)
  /\ Set(c, [XUnmapWindow(client[c]) EXCEPT !.notices = Append(@, "synthetic")])

ClientDestroy(c) ==
  /\ "destroy" \in ClientOps
  /\ ClientMayAct(c)
  /\ Set(c, [XUnmapWindow(client[c]) EXCEPT !.notices = Append(@, "destroy"),
                                            !.win = "gone"])

-----------------------------------------------------------------------------
(* The event loop. *)

Reads(c, kinds) == client[c].notices # <<>> /\ Head(client[c].notices) \in kinds

Read(r) == [r EXCEPT !.notices = Tail(@)]

(* The dock flag of a Client.                                              *)
IsDock(c) == c \in Docks /\ client[c].known

MapRequest(c) ==
  /\ Reads(c, {"request"})
  /\ Set(c, HandleMapRequest(Read(client[c]), current))

UnmapNotify(c) ==
  /\ Reads(c, {"unmap", "synthetic"})
  /\ Set(c, HandleUnmapNotify(Read(client[c])))

MapNotify(c) ==
  /\ Reads(c, {"map"})
  /\ Set(c, HandleMapNotify(Read(client[c]), current, IsDock(c)))

DestroyNotify(c) ==
  /\ Reads(c, {"destroy"})
  /\ Set(c, HandleDestroyNotify(Read(client[c])))

-----------------------------------------------------------------------------
(* Key actions. *)

OnCurrent(c) == client[c].managed /\ client[c].place = current

(* A dock of all workspaces moves along, if it is in the list of docks.    *)
MovesAlong(c) ==
  /\ IsDock(c)
  /\ client[c].desktop = AllWorkspaces
  /\ ~InUnmappedList(client[c])

SwitchWorkspace(w) ==
  /\ "switch" \in Bindings
  /\ w # current
  /\ current' = w
  /\ client' = [c \in Clients |->
       IF OnCurrent(c) /\ MovesAlong(c)
         THEN Enter([client[c] EXCEPT !.workspace = w, !.place = w])
       ELSE IF OnCurrent(c) THEN Leave(client[c])
       ELSE IF client[c].managed /\ client[c].place = w THEN Enter(client[c])
       ELSE client[c]]

(* The focus of the current workspace, which is never a dock.  It is a     *)
(* client of this workspace that is not yet in its unmapped list (the      *)
(* FocusOut comes right behind the UnmapNotify), or one that has just been *)
(* moved away, as long as the FocusIn of the next focus is still to come.  *)
FocusMayBe(c) ==
  /\ client[c].managed /\ ~IsDock(c)
  /\ IF client[c].place = current THEN ~InUnmappedList(client[c]) ELSE Hurried

(* Only the lists of the current workspace are searched for the client.    *)
MoveToWorkspace(c, w) ==
  /\ "move" \in Bindings
  /\ FocusMayBe(c)
  /\ w # current
  /\ Set(c, UnmapClient([client[c] EXCEPT
               !.workspace = w, !.desktop = w,
               !.place = IF @ = current THEN w ELSE @]))

UnmapWindow(c) ==
  /\ "unmap_window" \in Bindings
  /\ FocusMayBe(c)
  /\ Set(c, UnmapClient([client[c] EXCEPT !.future_stay = TRUE]))

MapLatestUnmap(c) ==
  /\ "map_latest" \in Bindings
  /\ OnCurrent(c)
  /\ client[c].ul # "none"
  /\ Set(c, MapClient([client[c] EXCEPT !.ul = "can", !.future_stay = FALSE]))

(* Only the tiled clients, T, are marked to stay unmapped.                 *)
UnmapAll(T) ==
  /\ "unmap_all" \in Bindings
  /\ client' = [c \in Clients |->
       IF ~OnCurrent(c) \/ client[c].ul # "none" THEN client[c]
       ELSE UnmapClient([client[c] EXCEPT !.future_stay = @ \/ c \in T])]
  /\ UNCHANGED current

MapAll ==
  /\ "map_all" \in Bindings
  /\ client' = [c \in Clients |->
       IF ~OnCurrent(c) \/ client[c].ul = "none" THEN client[c]
       ELSE MapClient([client[c] EXCEPT !.ul = "can", !.future_stay = FALSE])]
  /\ UNCHANGED current

(* Restart: execvp, then prologue.  The current desktop is read back from  *)
(* the root window.                                                        *)
Restart ==
  /\ "restart" \in Bindings
  /\ client' = [c \in Clients |-> Adopt(client[c], current)]
  /\ UNCHANGED current

-----------------------------------------------------------------------------
Handle(c) == MapRequest(c) \/ UnmapNotify(c) \/ MapNotify(c) \/ DestroyNotify(c)

Next ==
  \/ \E c \in Clients : ClientMap(c)
  \/ \E c \in Clients : ClientWithdraw(c)
  \/ \E c \in Clients : ClientDestroy(c)
  \/ \E c \in Clients : Handle(c)
  \/ \E w \in Workspaces : SwitchWorkspace(w)
  \/ \E c \in Clients, w \in Workspaces : MoveToWorkspace(c, w)
  \/ \E c \in Clients : UnmapWindow(c)
  \/ \E c \in Clients : MapLatestUnmap(c)
  \/ \E T \in SUBSET {c \in Clients : ~IsDock(c)} : UnmapAll(T)
  \/ MapAll
  \/ Restart

Spec == Init /\ [][Next]_vars

(* The event loop reads every event the server has queued.                 *)
FairSpec == Spec /\ \A c \in Clients : WF_vars(Handle(c))

-----------------------------------------------------------------------------
(* Properties *)

Has(r, kind) == \E i \in 1..Len(r.notices) : r.notices[i] = kind

(* Type invariant of the protocol's state (client.h, struct Client).       *)
TypeOK == current \in Workspaces /\ client \in [Clients -> Client]

(* The mapped flag, the transition state and the list a client is in are   *)
(* three copies of one fact, written by different handlers: a managed      *)
(* client is in the unmapped list exactly when it is not mapped, and its   *)
(* state says so.                                                          *)
CopiesAgree ==
  \A c \in Clients : client[c].managed =>
    /\ client[c].mapped <=> client[c].state \in {"MAPPED", "UNMAP_PENDING"}
    /\ client[c].mapped <=> client[c].ul = "none"

(* A pending client blocks every later map_client and unmap_client, so the *)
(* notice that ends the pending state must be on its way: an XUnmapWindow  *)
(* or XMapWindow that the server answers with nothing would leave the      *)
(* client stuck.                                                           *)
NoticeOnTheWay ==
  \A c \in Clients : client[c].managed =>
    /\ client[c].state = "UNMAP_PENDING" => Has(client[c], "unmap")
    /\ client[c].state = "MAP_PENDING" =>
         Has(client[c], "map") \/ Has(client[c], "destroy")

Settled(c) == client[c].managed /\ client[c].notices = <<>>

(* Once its notices are read, a window of a workspace that is not shown is *)
(* not on the screen, whatever switches, moves, maps and restarts crossed. *)
HiddenWhenAway ==
  \A c \in Clients \ Docks :
    Settled(c) /\ client[c].workspace # current => client[c].win # "mapped"

(* Once its notices are read, a window of the current workspace that the   *)
(* user has not unmapped is on the screen: the two cancel flags undo       *)
(* exactly the unmaps that switching away has left in flight.              *)
ShownWhenHere ==
  \A c \in Clients :
    Settled(c) /\ client[c].workspace = current /\ client[c].ul # "stay"
      => client[c].win = "mapped"

(* A window the user has unmapped stays off the screen until the user maps *)
(* it: neither its own requests nor a switch of workspace bring it back.   *)
(* A restart forgets it.                                                   *)
UserUnmapSticks ==
  [][\A c \in Clients :
       ( /\ client[c].managed /\ client[c].ul = "stay"
         /\ client[c].win # "mapped" /\ client'[c].win = "mapped" )
       => MapLatestUnmap(c) \/ MapAll \/ Restart]_vars

(* A pending map or unmap is settled: the handlers run to the end of the   *)
(* queue and no handler leaves a pending state behind it for ever.         *)
PendingSettles ==
  \A c \in Clients :
    /\ client[c].state = "UNMAP_PENDING" ~> client[c].state # "UNMAP_PENDING"
    /\ client[c].state = "MAP_PENDING" ~> client[c].state # "MAP_PENDING"

-----------------------------------------------------------------------------
(* The inductive invariant behind them.  A window's notices tell its       *)
(* history: the last map or unmap among them is the state the server holds *)
(* now, and the flags of the Client lag behind by just those notices.      *)

(* In the sequence s, something of kinds is never the last word: a k comes *)
(* after it.                                                               *)
FollowedBy(s, kinds, k) ==
  \A i \in 1..Len(s) : s[i] \in kinds => \E j \in (i + 1)..Len(s) : s[j] = k

History(r) ==
  /\ r.win = "mapped" =>
       FollowedBy(r.notices, {"unmap", "synthetic", "destroy"}, "map")
  /\ r.win # "mapped" => FollowedBy(r.notices, {"map"}, "unmap")
  /\ r.win = "gone" => FollowedBy(r.notices, Notices \ {"destroy"}, "destroy")

Lag(r) ==
  /\ r.win = "mapped" /\ ~r.mapped => Has(r, "map")
  /\ r.win # "mapped" /\ r.mapped => Has(r, "unmap")
  /\ r.win = "gone" => Has(r, "destroy")

Flags(r) ==
  /\ r.mapped <=> r.state \in {"MAPPED", "UNMAP_PENDING"}
  /\ r.mapped <=> r.ul = "none"
  /\ r.state = "UNMAP_PENDING" => r.win # "mapped"
  /\ r.state = "MAP_PENDING" => r.win = "gone" \/ Has(r, "map")

Away(r, cur, dock) == r.workspace # cur /\ ~dock => r.state # "MAPPED"

Inductive(r, cur, dock) ==
  /\ History(r)
  /\ r.managed => /\ r.workspace \in Workspaces /\ IsInPlace(r)
                  /\ Lag(r) /\ Flags(r) /\ Away(r, cur, dock)

IInv == TypeOK /\ \A c \in Clients : Inductive(client[c], current, c \in Docks)

(* What the user has unmapped is marked twice, in its record of the         *)
(* unmapped list and in the Client.                                        *)
StayMarked == \A c \in Clients : client[c].ul = "stay" => client[c].future_stay

(* Where nobody moves, withdraws or unmaps a whole workspace, the manager   *)
(* is the only one to map and unmap, and never ahead of itself: at most    *)
(* one unmap and one map are unread, the unmap first.                      *)
Orderly(s) ==
  \A i, j \in 1..Len(s) : i < j =>
    /\ s[i] = "map" => s[j] \notin {"map", "unmap"}
    /\ s[i] = "unmap" => s[j] # "unmap"

(* Then every pending unmap is the user's or a switch's; on the way back   *)
(* to the workspace it is answered by a map, and no map by an unmap.       *)
Answered(r, cur, dock) ==
  r.win # "gone" =>
    /\ Orderly(r.notices) /\ ~Has(r, "synthetic") /\ ~Has(r, "destroy")
    /\ ~r.managed => r.win = "unmapped" /\ ~Has(r, "map") /\ ~Has(r, "unmap")
    /\ r.managed =>
         /\ r.known
         /\ r.pending_unmap = IF Has(r, "unmap") THEN 1 ELSE 0
         /\ r.mapped => ~Has(r, "map")
         /\ r.state = "MAPPED" => ~Has(r, "unmap")
         /\ r.state = "UNMAP_PENDING" =>
              /\ r.future_stay \/ r.from_switch
              /\ r.workspace = cur => r.future_stay \/ r.map_after
         /\ r.unmap_after => dock \/ (r.ul # "none" /\ r.workspace # cur)

(* A client of the current workspace that may be mapped is about to be.    *)
ComesBack(r, cur) ==
  r.win # "gone" /\ r.managed /\ r.workspace = cur /\ r.ul = "can" => Has(r, "map")

SInv ==
  /\ IInv /\ StayMarked
  /\ \A c \in Clients : /\ Answered(client[c], current, c \in Docks)
                        /\ ComesBack(client[c], current)

(* Where no client withdraws and the manager is not restarted, the next map *)
(* or unmap is asked for when the last one has been read, but for the      *)
(* unmap of a window that goes while its map is unread.                    *)
InTurn(s) ==
  \A i, j \in 1..Len(s) : i < j =>
    /\ s[i] = "map" => s[j] # "map"
    /\ s[i] = "unmap" => s[j] \notin {"map", "unmap"}
    /\ s[i] = "destroy" => s[j] \notin {"map", "unmap"}

(* So the state of a Client says which of them may come.                   *)
Turn(r) ==
  /\ InTurn(r.notices) /\ ~Has(r, "synthetic")
  /\ Has(r, "destroy") => r.win = "gone"
  /\ ~r.managed => r.win # "mapped" /\ ~Has(r, "map") /\ ~Has(r, "unmap")
  /\ r.managed =>
       /\ r.state # "MAP_PENDING" => ~Has(r, "map")
       /\ r.state = "UNMAPPED" => ~Has(r, "unmap")
       /\ r.state = "UNMAP_PENDING" => r.pending_unmap # 0
       /\ r.state # "UNMAP_PENDING" /\ Has(r, "unmap") => r.win = "gone"
       /\ r.state = "MAP_PENDING" /\ Has(r, "unmap") => Has(r, "map")

AllInTurn == \A c \in Clients : Turn(client[c])
=============================================================================
