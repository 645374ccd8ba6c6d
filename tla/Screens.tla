------------------------------- MODULE Screens -------------------------------
(***************************************************************************)
(* Several monitors: outputs are plugged and unplugged, windows move from  *)
(* monitor to monitor, from workspace to workspace and under the pointer,  *)
(* and the manager restarts.  Every workspace has its own monitors, and a  *)
(* client is found again by searching their lists.                         *)
(*                                                                         *)
(* The maps and unmaps are those of Visibility, the lists those of Lists:  *)
(* here a client is in a state, the manager's or a user's request and its  *)
(* notice are two steps, and nobody presses a key between them; an output  *)
(* may change, and a window close, at any time.  The tracked focus is any  *)
(* client it may be.  No client is persistent or fullscreen, floating      *)
(* windows have no size hints, and a dock is on all workspaces.            *)
(***************************************************************************)
EXTENDS Monitors, FiniteSets

CONSTANTS
  Clients,        (* top-level windows                                     *)
  Floats,         (* those declared float, or transient                    *)
  Docks,          (* those of type dock                                    *)
  DockBox,        (* the place of a dock: a dock is managed where it is    *)
  Workspaces,     (* 0 .. N_WORKSPACES - 1                                 *)
  NoWorkspace, None,
  Setups,         (* windows, what can be connected, what is bound to keys *)
  Gap, Border,    (* sizes, and the border of a floating window            *)
  MinSide,        (* get_min_width and get_min_height                      *)
  Steps           (* how far a pointer or a key moves or resizes           *)

ASSUME KindsOfWindow ==
  /\ IsFiniteSet(Clients) /\ None \notin Clients
  /\ Floats \subseteq Clients /\ Docks \subseteq Clients \ Floats

ASSUME WorkspacesAssumption == 0 \in Workspaces /\ NoWorkspace \notin Workspaces

ASSUME SizesAssumption ==
  /\ Gap \in Nat /\ Border \in Nat /\ MinSide \in Nat
  /\ Steps \subseteq [x : Int, y : Int]

(* Outputs have names of their own, and one of them is the primary one,    *)
(* which stays connected (what happens when it goes is in the README).     *)
ASSUME SetupsAssumption ==
  \A s \in Setups :
    /\ s.windows \subseteq Clients
    /\ \E p \in Names : \A outputs \in s.layouts : AreOutputs(p, outputs)

VARIABLES
  setup,          (* one of Setups: [windows, layouts, bindings]           *)
  server,         (* the outputs there are: what XRRGetMonitors returns    *)
  notified,       (* a RandR event has not been read                       *)
  current,        (* current_workspace                                     *)
  monitors,       (* of each workspace                                     *)
  client,         (* of each window, see below                             *)
  grab            (* the window of the active pointer grab, or None        *)

vars == <<setup, server, notified, current, monitors, client, grab>>

NoBox == [x |-> 0, y |-> 0, w |-> 0, h |-> 0]

(* A window and its Client: state is "out" when it is not managed,         *)
(* "coming" from a map request to its MapNotify and "going" from an unmap  *)
(* request to its UnmapNotify; mode tells by float, mini and dock flags    *)
(* the list that holds it while it is mapped, or will; prop is the monitor *)
(* name property; and box, placed and drag are the DetachedClient's.       *)
Windowless ==
  [state |-> "out", workspace |-> NoWorkspace, mode |-> "cl", prop |-> NoName,
   box |-> NoBox, placed |-> FALSE, drag |-> "no"]

NoRecord(r) == [r EXCEPT !.box = NoBox, !.placed = FALSE, !.drag = "no"]

Now == [monitors |-> monitors, client |-> client]

Become(s) == monitors' = s.monitors /\ client' = s.client

First == 0

-----------------------------------------------------------------------------
(* Clients in lists.                                                       *)

At(s, c) == Holder(s.monitors[s.client[c].workspace], c)

Mapped(s, c) == s.client[c].state = "mapped"

Take(s, w, k, l, c) == [s EXCEPT !.monitors[w][k].holds[l] = @ \ {c}]

(* Where the monitor is NULL nothing is put anywhere.                      *)
Give(s, w, k, l, c) ==
  IF k = 0 THEN s ELSE [s EXCEPT !.monitors[w][k].holds[l] = @ \cup {c}]

(* move_client_to_monitor                                                  *)
MoveToMonitor(s, w, c, from, to) ==
  LET l == s.client[c].mode
  IN IF from = 0 \/ to = 0 \/ from = to \/ ~Mapped(s, c) THEN s
     ELSE Give(Take(s, w, from, l, c), w, to, l, c)

-----------------------------------------------------------------------------
(* Floating windows (geometry.c).                                          *)

InBounds(ms, b) ==
  /\ b.x >= SmallestX(ms) /\ b.x + b.w + 2 * Border <= LargestX(ms)
  /\ b.y >= SmallestY(ms) /\ b.y + b.h + 2 * Border <= LargestY(ms)

(* reconcile_floaters for one client, of monitor m in ms.                  *)
Reconciled(ms, m, r) ==
  LET b == IF r.placed THEN r.box
           ELSE [x |-> m.x + m.w \div 4, y |-> m.y + m.h \div 4,
                 w |-> m.w \div 2, h |-> m.h \div 2]
  IN [r EXCEPT !.placed = TRUE,
               !.box = IF InBounds(ms, b) THEN b ELSE [b EXCEPT !.x = Gap, !.y = Gap]]

(* arrange_monitors, of workspace w: the floating windows.                 *)
Arranged(s, w) ==
  LET ms == s.monitors[w]
  IN [s EXCEPT !.client = [c \in Clients |->
        LET k == Holder(ms, c)
        IN IF k # 0 /\ c \in ms[k].holds.fl THEN Reconciled(ms, ms[k], @[c]) ELSE @[c]]]

(* Variant: the window goes wherever the pointer goes.                     *)
MoveFloaterAnywhere(ms, r, d) == [r EXCEPT !.box.x = @ + d.x, !.box.y = @ + d.y]

MoveFloater(ms, r, d) ==
  LET b == [r.box EXCEPT !.x = @ + d.x, !.y = @ + d.y]
  IN IF InBounds(ms, b) THEN [r EXCEPT !.box = b] ELSE r

ResizeFloater(ms, m, r, d) ==
  LET b == [r.box EXCEPT !.w = @ + d.x, !.h = @ + d.y]
  IN IF /\ b.w \in MinSide .. m.w - 2 * Gap - 2 * Border
        /\ b.h \in MinSide .. m.h - 2 * Gap - 2 * Border
        /\ InBounds(ms, b)
       THEN [r EXCEPT !.box = b] ELSE r

-----------------------------------------------------------------------------
(* Handlers.                                                               *)

(* Variant: a floating window's record does not say where it belongs.      *)
StartModeUnknown(c) == IF c \in Docks THEN "dl" ELSE IF c \in Floats THEN "UNKNOWN" ELSE "cl"

(* The list a client goes to when it is mapped.                            *)
StartMode(c) == IF c \in Docks THEN "dl" ELSE IF c \in Floats THEN "fl" ELSE "cl"

(* reconcile_client_starting_monitor, in the monitors of workspace w.  A   *)
(* focus that is None stands for the focus mode of the pointer, too.       *)
StartingMonitor(s, w, prop, focus, pointer) ==
  LET named == WithName(s.monitors[w], prop)
  IN IF named # 0 THEN named
     ELSE IF focus = None THEN AtPosition(s.monitors[w], pointer.x, pointer.y)
     ELSE At(s, focus)

(* start_manage, which puts a dock where it is on the screen; without a    *)
(* monitor the client is in no list, and nobody will find it.              *)
StartManage(s, c, w, l, state, focus, pointer) ==
  LET ms   == s.monitors[w]
      k    == StartingMonitor(s, w, s.client[c].prop, focus, pointer)
      to   == IF c \in Docks THEN MostOf(ms, DockBox, k) ELSE k
      prop == IF k = 0 THEN NoName ELSE ms[k].name
  IN IF to = 0 THEN [s EXCEPT !.client[c] = Windowless]
     ELSE Give([s EXCEPT !.client[c] =
                  [Windowless EXCEPT !.state = state, !.workspace = w,
                                     !.mode = StartMode(c), !.prop = prop]],
               w, to, l, c)

(* handle_map_request of a new window.                                     *)
HandleMapRequest(s, c, focus, pointer) ==
  StartManage(s, c, current, "ul", "coming", focus, pointer)

HandleMapNotify(s, c) ==
  LET w == s.client[c].workspace
      k == At(s, c)
      shown == Give(Take([s EXCEPT !.client[c].state = "mapped"], w, k, "ul", c),
                    w, k, s.client[c].mode, c)
      moved == IF c \notin Docks THEN shown
               ELSE MoveToMonitor(shown, w, c, k, MostOf(s.monitors[w], DockBox, k))
  IN Arranged(moved, current)

(* Variant: the record of a floating window outlives the unmapping.        *)
HandleUnmapNotifyKept(s, c) ==
  LET w == s.client[c].workspace
      k == At(s, c)
      gone == Give(Take([s EXCEPT !.client[c].state = "unmapped"],
                        w, k, s.client[c].mode, c), w, k, "ul", c)
  IN Arranged(gone, current)

(* handle_unmap_notify of an unmap the manager has asked for.              *)
HandleUnmapNotify(s, c) ==
  LET w == s.client[c].workspace
      k == At(s, c)
      gone == Give(Take([s EXCEPT !.client[c] = [NoRecord(@) EXCEPT !.state = "unmapped"]],
                        w, k, s.client[c].mode, c), w, k, "ul", c)
  IN Arranged(gone, current)

(* end_manage, for a window that has been closed.                          *)
EndManage(s, c) ==
  LET without(ms) == [k \in DOMAIN ms |->
                        [ms[k] EXCEPT !.holds = [l \in Kinds |-> @[l] \ {c}]]]
  IN [s EXCEPT !.monitors = [w \in Workspaces |-> without(@[w])], !.client[c] = Windowless]

-----------------------------------------------------------------------------
(* Key actions, and those of the pointer.                                  *)

(* get_symmetric_monitor: the one of workspace w that is called as ms[k].  *)
Symmetric(s, ms, k, w) == IF k = 0 THEN 0 ELSE WithName(s.monitors[w], ms[k].name)

(* move_persistent_docks_to_workspace                                      *)
MoveDocks(s, w) ==
  LET old == s.monitors[current]
      moving == {c \in Docks : \E k \in DOMAIN old :
                   c \in old[k].holds.dl /\ Symmetric(s, old, k, w) # 0}
      place(c) == Symmetric(s, old, Holder(old, c), w)
      leave(m) == [m EXCEPT !.holds.dl = @ \ moving]
      enter(m, k) == [m EXCEPT !.holds.dl = @ \cup {c \in moving : place(c) = k}]
  IN [monitors |-> [s.monitors EXCEPT
        ![current] = [k \in DOMAIN @ |-> leave(@[k])],
        ![w]       = [k \in DOMAIN @ |-> enter(@[k], k)]],
      client |-> [c \in Clients |->
        IF c \in moving THEN [s.client[c] EXCEPT !.workspace = w] ELSE s.client[c]]]

HeldIn(s, w) == {c \in Clients : Holder(s.monitors[w], c) # 0}

(* action_switch_workspace                                                 *)
ActionSwitchWorkspace(s, w) ==
  LET t == MoveDocks(s, w)
  IN [t EXCEPT !.client = [c \in Clients |->
        IF c \in HeldIn(t, current) /\ Mapped(t, c) THEN [@[c] EXCEPT !.state = "going"]
        ELSE IF c \in HeldIn(t, w) /\ @[c].state = "unmapped"
          THEN [@[c] EXCEPT !.state = "coming"]
        ELSE @[c]]]

(* Variant: the first monitor of the other workspace, not the same one.    *)
ActionMoveToFirst(s, c, w) ==
  LET ms == s.monitors[current]
      k  == Holder(ms, c)
      l  == s.client[c].mode
      t  == Give(Take(s, current, k, l, c), w, 1, l, c)
  IN [t EXCEPT !.client[c].workspace = w, !.client[c].state = "going"]

(* move_client_to_workspace, and unmap_client.                             *)
ActionMoveToWorkspace(s, c, w) ==
  LET ms == s.monitors[current]
      k  == Holder(ms, c)
      l  == s.client[c].mode
      t  == Give(Take(s, current, k, l, c), w, Symmetric(s, ms, k, w), l, c)
  IN [t EXCEPT !.client[c].workspace = w, !.client[c].state = "going"]

(* action_move_win_monitor, which is not for floating windows.             *)
ActionMoveWinMonitor(s, c, direction) ==
  LET ms == s.monitors[current]
      k  == At(s, c)
      to == Neighbour(ms, k, direction)
  IN IF to = 0 \/ s.client[c].mode = "fl" THEN s
     ELSE Arranged([MoveToMonitor(s, current, c, k, to) EXCEPT
                      !.client[c].prop = ms[to].name], current)

(* detach_client and fl_push.                                              *)
Detach(s, c) ==
  LET k == At(s, c)
  IN Give([Take(s, current, k, s.client[c].mode, c) EXCEPT !.client[c].mode = "fl"],
          current, k, "fl", c)

(* fl_reattach_into_cl: back to the tiled ones, of the monitor where the   *)
(* corner of the window is now.                                            *)
ReattachIntoCl(s, c) ==
  LET b == s.client[c].box
      out == [Take(s, current, At(s, c), "fl", c) EXCEPT
                !.client[c] = [NoRecord(@) EXCEPT !.mode = "cl"]]
  IN Give(out, current, AtPosition(s.monitors[current], b.x, b.y), "cl", c)

ActionToggleFloat(s, c) ==
  Arranged(IF s.client[c].mode = "fl" THEN ReattachIntoCl(s, c) ELSE Detach(s, c), current)

(* Minimized from the tiled or the floating ones, and back to the tiled.   *)
ActionMinimizeWindow(s, c) ==
  LET r == s.client[c]
      k == At(s, c)
      l == IF r.mode = "ml" THEN "cl" ELSE "ml"
  IN Arranged(Give([Take(s, current, k, r.mode, c) EXCEPT
                      !.client[c] = [NoRecord(@) EXCEPT !.mode = l]], current, k, l, c),
              current)

Moved(s, c, d) == [s EXCEPT !.client[c] = MoveFloater(s.monitors[@.workspace], @, d)]

Resized(s, c, d) ==
  LET ms == s.monitors[s.client[c].workspace]
  IN [s EXCEPT !.client[c] = ResizeFloater(ms, ms[At(s, c)], @, d)]

-----------------------------------------------------------------------------
(* What happens: the manager has just started, and shows no window.        *)

FillMonitors(info) ==
  [w \in Workspaces |-> [i \in DOMAIN info |-> CreateMonitor(info[i])]]

Init ==
  /\ setup \in Setups
  /\ server \in setup.layouts
  /\ notified = FALSE
  /\ current = First
  /\ monitors = FillMonitors(server)
  /\ client = [c \in Clients |-> Windowless]
  /\ grab = None

Same == UNCHANGED <<setup, server, notified, current, grab>>

(* The server ends the grab of a window that is no longer viewable.        *)
EndGrab == grab' = IF grab # None /\ client'[grab].state = "mapped" THEN grab ELSE None

Bound(binding) == binding \in setup.bindings

Settled == \A c \in Clients : client[c].state \in {"out", "unmapped", "mapped"}

(* A key is read with c tracked as the focus.                              *)
FocusMayBe(c) == Mapped(Now, c) /\ client[c].workspace = current /\ c \notin Docks

Key(binding, c) == Bound(binding) /\ Settled /\ FocusMayBe(c)

(* The pointer is on an output.                                            *)
Pointers == {[x |-> o.x + o.w \div 2, y |-> o.y + o.h \div 2] : o \in All(server)}

(* RandR: other outputs, or the same ones in other places.                 *)
Connect(outputs) ==
  /\ outputs # server
  /\ server' = outputs /\ notified' = TRUE
  /\ UNCHANGED <<setup, current, monitors, client, grab>>

(* handle_screen_change_notify and handle_rr_notify: one change sends      *)
(* several events, and each looks at what is connected when it is read.    *)
ScreenChange ==
  /\ notified
  /\ notified' \in BOOLEAN
  /\ \E pointer \in Pointers :
       Become(Arranged([monitors |-> UpdateMonitors(monitors, First, server, pointer),
                        client |-> client], current))
  /\ UNCHANGED <<setup, server, current, grab>>

MapRequest(c) ==
  /\ c \in setup.windows /\ client[c].state = "out"
  /\ \E focus \in {d \in Clients : FocusMayBe(d)} \cup {None}, pointer \in Pointers :
       Become(HandleMapRequest(Now, c, focus, pointer))
  /\ Same

MapNotify(c) ==
  /\ client[c].state = "coming"
  /\ Become(HandleMapNotify(Now, c))
  /\ Same

UnmapNotify(c) ==
  /\ client[c].state = "going"
  /\ Become(HandleUnmapNotify(Now, c))
  /\ Same

(* handle_configure_request of a dock, which the server grants; the        *)
(* position on record is still the one the window was managed with.        *)
ConfigureRequest(c) ==
  /\ c \in Docks /\ Mapped(Now, c)
  /\ LET w  == client[c].workspace
         to == MostOf(monitors[w], DockBox, At(Now, c))
     IN Become(Arranged(MoveToMonitor(Now, w, c, At(Now, c), to), current))
  /\ Same

(* A client closes its window, and the notices are read.                   *)
Close(c) ==
  /\ client[c].state # "out"
  /\ Become(Arranged(EndManage(Now, c), current))
  /\ EndGrab
  /\ UNCHANGED <<setup, server, notified, current>>

SwitchWorkspace(w) ==
  /\ Bound("switch") /\ Settled
  /\ w # current
  /\ current' = w
  /\ Become(Arranged(ActionSwitchWorkspace(Now, w), w))
  /\ EndGrab
  /\ UNCHANGED <<setup, server, notified>>

MoveToWorkspace(c, w) ==
  /\ Key("move", c)
  /\ w # current
  /\ Become(ActionMoveToWorkspace(Now, c, w))
  /\ EndGrab
  /\ UNCHANGED <<setup, server, notified, current>>

MoveWinMonitor(c, direction) ==
  Key("move_win", c) /\ Become(ActionMoveWinMonitor(Now, c, direction)) /\ Same

ToggleFloat(c) == Key("float", c) /\ Become(ActionToggleFloat(Now, c)) /\ Same

MinimizeWindow(c) == Key("minimize", c) /\ Become(ActionMinimizeWindow(Now, c)) /\ Same

(* action_motion_from_fl and action_resize, for a floating focus.          *)
MoveByKey(c, d) ==
  /\ Key("motion", c) /\ client[c].mode = "fl"
  /\ Become(Moved(Now, c, d)) \/ Become(Resized(Now, c, d))
  /\ Same

(* handle_button_press on a floating window, with the modifier.            *)
ButtonPress(c, drag) ==
  /\ Bound(drag)
  /\ grab = None /\ FocusMayBe(c) /\ client[c].mode = "fl"
  /\ grab' = c
  /\ client' = [client EXCEPT ![c].drag = drag]
  /\ UNCHANGED <<setup, server, notified, current, monitors>>

MotionNotify(c, d) ==
  /\ grab = c
  /\ client[c].workspace = current /\ client[c].mode = "fl"
  /\ \/ client[c].drag = "drag" /\ Become(Moved(Now, c, d))
     \/ client[c].drag = "mouse_resize" /\ Become(Resized(Now, c, d))
  /\ Same

ButtonRelease(c) ==
  /\ grab = c
  /\ grab' = None
  /\ client' = IF client[c].workspace = current /\ client[c].mode = "fl"
                 THEN [client EXCEPT ![c].drag = "no"] ELSE client
  /\ UNCHANGED <<setup, server, notified, current, monitors>>

(* Restart: fill_monitors, and manage_existing for every window; there is  *)
(* no focus yet.  Every window has a name property (FollowsServer), so the *)
(* primary monitor, which is for those that have none, is not asked for.   *)
Adopt(e, s, c) ==
  LET r == e.client[c]
      known == [s EXCEPT !.client[c] = [Windowless EXCEPT !.prop = r.prop]]
  IN IF r.state = "out" THEN s
     ELSE IF r.workspace = e.current
       THEN StartManage(known, c, r.workspace, StartMode(c), "mapped", None, e.pointer)
     ELSE StartManage(known, c, r.workspace, "ul", "unmapped", None, e.pointer)

ManageExisting == INSTANCE Loops WITH Step <- Adopt

Restart ==
  /\ Bound("restart") /\ Settled
  /\ notified' = FALSE /\ grab' = None
  /\ \E pointer \in Pointers :
       LET e    == [client |-> client, current |-> current, pointer |-> pointer]
           bare == [monitors |-> FillMonitors(server),
                    client |-> [c \in Clients |-> Windowless]]
       IN Become(Arranged(ManageExisting!Over(e, bare, Clients), current))
  /\ UNCHANGED <<setup, server, current>>

-----------------------------------------------------------------------------
Next ==
  \/ \E outputs \in setup.layouts : Connect(outputs)
  \/ ScreenChange
  \/ \E c \in Clients : MapRequest(c)
  \/ \E c \in Clients : MapNotify(c)
  \/ \E c \in Clients : UnmapNotify(c)
  \/ \E c \in Clients : ConfigureRequest(c)
  \/ \E c \in Clients : Close(c)
  \/ \E w \in Workspaces : SwitchWorkspace(w)
  \/ \E c \in Clients, w \in Workspaces : MoveToWorkspace(c, w)
  \/ \E c \in Clients, direction \in Directions : MoveWinMonitor(c, direction)
  \/ \E c \in Clients : ToggleFloat(c)
  \/ \E c \in Clients : MinimizeWindow(c)
  \/ \E c \in Clients, d \in Steps : MoveByKey(c, d)
  \/ \E c \in Clients, drag \in {"drag", "mouse_resize"} : ButtonPress(c, drag)
  \/ \E c \in Clients, d \in Steps : MotionNotify(c, d)
  \/ \E c \in Clients : ButtonRelease(c)
  \/ Restart

Spec == Init /\ [][Next]_vars

-----------------------------------------------------------------------------
(* Properties *)

(* Type invariant of the monitors and of the clients in them (monitor.h,   *)
(* client.h, detached.h).                                                  *)
TypeOK ==
  /\ setup \in Setups /\ server \in setup.layouts /\ notified \in BOOLEAN
  /\ current \in Workspaces /\ grab \in Clients \cup {None}
  /\ \A w \in Workspaces : \A m \in All(monitors[w]) :
       m.primary \in BOOLEAN /\ m.holds \in [Kinds -> SUBSET Clients]
  /\ \A c \in Clients :
       /\ client[c].state \in {"out", "coming", "mapped", "going", "unmapped"}
       /\ client[c].workspace \in Workspaces \cup {NoWorkspace}
       /\ client[c].mode \in Kinds \ {"ul"}
       /\ client[c].drag \in {"no", "drag", "mouse_resize"}

Spots == UNION {[w : {v}, k : DOMAIN monitors[v], l : Kinds] : v \in Workspaces}

HeldBy(c) == {h \in Spots : c \in monitors[h.w][h.k].holds[h.l]}

(* Nobody is lost and nobody is in two places: through unplugged outputs,  *)
(* moves to monitors and workspaces, maps and unmaps, every managed client *)
(* is in one list of one monitor, of the workspace it has on record, and   *)
(* in the list its state and its flags name.                               *)
HeldOnce ==
  \A c \in Clients :
    IF client[c].state = "out" THEN HeldBy(c) = {}
    ELSE /\ Cardinality(HeldBy(c)) = 1
         /\ \A h \in HeldBy(c) :
              /\ h.w = client[c].workspace
              /\ h.l = IF client[c].state \in {"coming", "unmapped"}
                         THEN "ul" ELSE client[c].mode

Outline(ms) == [i \in DOMAIN ms |-> [name |-> ms[i].name, primary |-> ms[i].primary,
                                     x |-> ms[i].x, w |-> ms[i].w, h |-> ms[i].h]]

(* When the RandR events have been read, the monitors are the outputs, of  *)
(* which several may have come and gone at once.  And at all times, though *)
(* they are updated one by one, all workspaces have the same monitors: a   *)
(* client that goes to another workspace is put, by its name, on the       *)
(* monitor it is on.                                                       *)
FollowsServer ==
  /\ \A v, w \in Workspaces : Outline(monitors[v]) = Outline(monitors[w])
  /\ ~notified => All(Outline(monitors[First])) = All(Outline(server))

(* The nearest beyond m on its side, and of those that are as far the one  *)
(* that is least off to the side.                                          *)
IsNearest(ms, m, n, main, sub, sign) ==
  LET far(o) == Along(o, main, sign) - Along(m, main, sign)
  IN /\ far(n) > 0
     /\ \A o \in All(ms) : far(o) > 0 =>
          far(n) < far(o) \/ (far(n) = far(o) /\ Aside(n, m, sub) <= Aside(o, m, sub))

IsFarthest(ms, m, main, sign) ==
  \A o \in All(ms) : Along(o, main, sign) <= Along(m, main, sign)

(* move-win-monitor-* and the motions across monitors go to the nearest    *)
(* monitor on that side, and nowhere only where there is none.             *)
NeighbourIsNearest ==
  \A w \in Workspaces : \A k \in DOMAIN monitors[w] :
    LET ms == monitors[w]
        Right(main, sub, sign, n) ==
          IF n = 0 THEN IsFarthest(ms, ms[k], main, sign)
                   ELSE IsNearest(ms, ms[k], ms[n], main, sub, sign)
    IN /\ Right("x", "y", 1, Neighbour(ms, k, "right"))
       /\ Right("x", "y", -1, Neighbour(ms, k, "left"))
       /\ Right("y", "x", 1, Neighbour(ms, k, "below"))
       /\ Right("y", "x", -1, Neighbour(ms, k, "above"))

Where(ms) == {[name |-> m.name, x |-> m.x, y |-> m.y, w |-> m.w, h |-> m.h] : m \in All(ms)}

(* The monitors are on record where the outputs are.  A start sees to it,  *)
(* and a RandR event undoes it (BelowIsBelow).                             *)
Accurate == Where(monitors[current]) = Where(server)

(* Some of a window at b, or of its border, is on an output.               *)
Shows(outputs, b) ==
  \E o \in All(outputs) : /\ b.x < o.x + o.w /\ o.x < b.x + b.w + 2 * Border
                          /\ b.y < o.y + o.h /\ o.y < b.y + b.h + 2 * Border

(* A floating window is where it can be seen and reached, with records     *)
(* that are right: motions, resizes, moves to another workspace and        *)
(* changes of the outputs leave some of it on an output of the server.     *)
FloatersInReach ==
  Accurate => \A c \in Clients :
    FocusMayBe(c) /\ client[c].mode = "fl" => Shows(server, client[c].box)

(* A window follows the pointer only as long as the button is held, even   *)
(* when the workspace is switched, the window moved or its output          *)
(* unplugged under the pointer: a release that is not told to the manager  *)
(* leaves no record in move or resize mode.                                *)
DragHasGrab ==
  \A c \in Clients : Mapped(Now, c) /\ client[c].drag # "no" => grab = c

MonitorOf(c) == LET ms == monitors[client[c].workspace]
                IN IF Holder(ms, c) = 0 THEN NoName ELSE ms[Holder(ms, c)].name

(* A client stays on its monitor when it is unmapped and mapped, floated,  *)
(* dragged, minimized and moved to another workspace: it goes to another   *)
(* one by the key for that, with the outputs, when it stops floating in    *)
(* another place, and by a restart.                                        *)
KeepsMonitor ==
  [][ \A c \in Clients \ Docks :
        client[c].state # "out" /\ client'[c].state # "out"
          => \/ MonitorOf(c)' = MonitorOf(c)
             \/ ScreenChange
             \/ \E direction \in Directions : MoveWinMonitor(c, direction)
             \/ ToggleFloat(c) /\ client[c].mode = "fl"
             \/ Restart ]_vars

OutputOf(c) == server[WithName(server, MonitorOf(c))]

(* readme.md: move-win-monitor-down moves the focused window to the        *)
(* monitor below, so once all events about outputs have been read a window *)
(* that the key takes to another monitor is on a lower output then.        *)
BelowIsBelow ==
  [][ \A c \in Clients :
        ~notified /\ MoveWinMonitor(c, "below") /\ MonitorOf(c)' # MonitorOf(c)
          => OutputOf(c)'.y > OutputOf(c).y ]_vars

(* readme.md: toggle-float toggles the focused window between tiled and    *)
(* floating, so it is then in the other of the two lists.                  *)
ToggleFloatToggles ==
  [][ \A c \in Clients : ToggleFloat(c) =>
        \E k \in DOMAIN monitors[current] :
          c \in monitors'[current][k].holds[IF client[c].mode = "fl" THEN "cl" ELSE "fl"] ]_vars
=============================================================================
