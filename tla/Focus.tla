-------------------------------- MODULE Focus --------------------------------
(***************************************************************************)
(* The input focus of angel-wm: what XSetInputFocus is asked for, what the *)
(* FocusIn and FocusOut that come back later are taken to mean, and the    *)
(* pointers to clients that are kept meanwhile: of each workspace the      *)
(* tracked focus, the focus before the switch and the focus stack, and of  *)
(* its monitor the fullscreen client.  Maps and unmaps go on below, as in  *)
(* Visibility, whose operators on one client are used here and whose       *)
(* specification this one implements; here all events are in one queue.    *)
(*                                                                         *)
(* Every workspace has one monitor.  All clients are tiled or minimized,   *)
(* take their input passively and are no docks.  The order of a client     *)
(* list is not kept: who is first in it, or next in it to another client,  *)
(* is any of its clients, the parameter "first" of the operators below.    *)
(***************************************************************************)
EXTENDS Naturals, Sequences, FiniteSets, TLC

CONSTANTS
  Clients,       (* top-level windows                                      *)
  Workspaces,    (* 0 .. N_WORKSPACES - 1                                  *)
  NoWorkspace, AllWorkspaces, None,
  Bindings,      (* what this configuration binds, "enter" for the pointer *)
  ClientOps,     (* what clients do with their windows                     *)
  FocusEnd,      (* next-focus-on-close: "stack" or "next"                 *)
  MaxPresses,    (* bound: keys pressed and windows entered                *)
  MaxNotices,    (* bound: notices of one window on their way              *)
  MaxPending     (* bound: pending unmaps when the client unmaps by itself *)

ASSUME FocusAssumption ==
  /\ IsFiniteSet(Clients) /\ None \notin Clients
  /\ NoWorkspace \notin Workspaces /\ AllWorkspaces \notin Workspaces
  /\ AllWorkspaces # NoWorkspace
  /\ ClientOps \subseteq {"map", "withdraw", "destroy"}
  /\ MaxNotices \in Nat /\ MaxPending \in Nat

VARIABLES
  current,       (* current_workspace                                      *)
  client,        (* a record of Visibility, and the fields of the focus    *)
  desk,          (* the pointers of a workspace and of its monitor         *)
  input,         (* the window the server sends keys to, None for the root *)
  queue,         (* the events the manager has not read yet, oldest first  *)
  presses        (* user events so far                                     *)

vars == <<current, client, desk, input, queue, presses>>

(* The notices of one window, the oldest first, and what Visibility knows  *)
(* of a client.                                                            *)
Hear(c, told, e) ==
  IF e.of = c /\ e.what \in {"request", "map", "unmap", "synthetic", "destroy"}
    THEN Append(told, e.what) ELSE told

NoticesOf(q, c) ==
  LET told[k \in 0..Len(q)] == IF k = 0 THEN <<>> ELSE Hear(c, told[k - 1], q[k])
  IN told[Len(q)]

Known(r, notices) ==
  [win |-> r.win, notices |-> notices, managed |-> r.managed, known |-> r.known,
   workspace |-> r.workspace, place |-> r.place, desktop |-> r.desktop,
   mapped |-> r.mapped, state |-> r.state, pending_unmap |-> r.pending_unmap, ul |-> r.ul,
   future_stay |-> r.future_stay, from_switch |-> r.from_switch,
   map_after |-> r.map_after, unmap_after |-> r.unmap_after]

View == [c \in Clients |-> Known(client[c], NoticesOf(queue, c))]

V == INSTANCE Visibility WITH
       client <- View, Docks <- {}, Hurried <- TRUE,
       Bindings <- Bindings \cap {"switch", "move", "unmap_window", "map_latest"}

(* calloc: mini is minimized, full is fullscreen, want is should_set_focus *)
(* and next is fs_next.                                                    *)
NewClient ==
  [win |-> "unmapped", notices |-> <<>>, managed |-> FALSE, known |-> FALSE,
   workspace |-> NoWorkspace, place |-> NoWorkspace, desktop |-> NoWorkspace,
   mapped |-> FALSE, state |-> "UNMAPPED", pending_unmap |-> 0, ul |-> "none",
   future_stay |-> FALSE, from_switch |-> FALSE, map_after |-> FALSE,
   unmap_after |-> FALSE,
   mini |-> FALSE, full |-> FALSE, want |-> FALSE, moved |-> FALSE, next |-> None]

Forgotten(r) == [r EXCEPT !.mini = FALSE, !.full = FALSE, !.want = FALSE,
                          !.moved = FALSE, !.next = None]

Record ==
  [win : {"unmapped", "mapped", "gone"}, notices : {<<>>},
   managed : BOOLEAN, known : BOOLEAN,
   workspace : Workspaces \cup {NoWorkspace}, place : Workspaces \cup {NoWorkspace},
   desktop : Workspaces \cup {NoWorkspace, AllWorkspaces},
   mapped : BOOLEAN, state : V!States, pending_unmap : Nat,
   ul : {"none", "can", "stay"}, future_stay : BOOLEAN,
   from_switch : BOOLEAN, map_after : BOOLEAN, unmap_after : BOOLEAN,
   mini : BOOLEAN, full : BOOLEAN, want : BOOLEAN, moved : BOOLEAN,
   next : Clients \cup {None}]

Desk == [tracked : Clients \cup {None}, before : Clients \cup {None},
         full : Clients \cup {None}, head : Clients \cup {None},
         n : Nat, nmapped : Nat]

-----------------------------------------------------------------------------
(* A handler is a sequence of calls: operators from state to state, where  *)
(* a state is the record of all variables but presses.                     *)

Now == [current |-> current, client |-> client, desk |-> desk,
        input |-> input, queue |-> queue]

Become(s) ==
  /\ current' = s.current /\ client' = s.client /\ desk' = s.desk
  /\ input' = s.input /\ queue' = s.queue

SetClient(s, c, r) == [s EXCEPT !.client[c] = r]
SetDesk(s, w, d)   == [s EXCEPT !.desk[w] = d]

Event(what, c) == [what |-> what, of |-> c, late |-> FALSE]

(* A key is nobody's; every other event is about a client.                 *)
Events == [what : V!Notices \cup {"in", "out", "enter"}, of : Clients, late : BOOLEAN]
            \cup [what : {"key"}, of : {None}, late : BOOLEAN]

(* Client c is now r: the notices the operators of Visibility have left in *)
(* it go to the end of the queue.  A window that is unmapped loses the     *)
(* input to the root, and its FocusOut comes right after its UnmapNotify.  *)
Put(s, c, r) ==
  LET lost == s.input = c /\ r.notices # <<>> /\ Head(r.notices) = "unmap"
      told == [i \in DOMAIN r.notices |-> Event(r.notices[i], c)]
  IN [s EXCEPT !.client[c] = [r EXCEPT !.notices = <<>>],
               !.input = IF lost THEN None ELSE @,
               !.queue = @ \o IF lost THEN <<Head(told), Event("out", c)>> \o Tail(told)
                                      ELSE told]

(* XSetInputFocus, by the time of the request: "current" for CurrentTime,  *)
(* "fresh" or "late" for a user event read in this handler.  The server    *)
(* ignores a request older than the last change: after one made with       *)
(* CurrentTime, every user event that is still in the queue is late.       *)
SetInput(s, c, time) ==
  LET aged == IF time # "current" THEN s.queue
              ELSE [i \in DOMAIN s.queue |-> [s.queue[i] EXCEPT !.late = @ \/ s.queue[i].what \in {"key", "enter"}]]
      outs == IF s.input = None THEN <<>> ELSE <<Event("out", s.input)>>
      ins  == IF c = None THEN <<>> ELSE <<Event("in", c)>>
  IN IF time = "late" \/ (c # None /\ s.client[c].win # "mapped") THEN s
     ELSE [s EXCEPT !.input = c,
                    !.queue = IF s.input = c THEN aged ELSE aged \o outs \o ins]

-----------------------------------------------------------------------------
(* Lists.  A client that is not in the unmapped list is in the client list *)
(* or in the minimized list of its monitor.                                *)

Tiled(s, w)     == {c \in Clients : s.client[c].managed /\ s.client[c].place = w
                                    /\ s.client[c].ul = "none" /\ ~s.client[c].mini}
Minimized(s, w) == {c \in Clients : s.client[c].managed /\ s.client[c].place = w
                                    /\ s.client[c].ul = "none" /\ s.client[c].mini}

Pick(S, first) == IF first \in S THEN first
                  ELSE IF S = {} THEN None ELSE CHOOSE c \in S : TRUE

(* The monitor of workspace w, when its lists hold c.                      *)
MonitorAt(s, w, c) ==
  IF c # None /\ s.client[c].place # w THEN NoWorkspace ELSE w

(* focus_stack.c: the client k links behind c.                             *)
Behind(s, c, k) ==
  LET at[i \in 0..k] == IF i = 0 THEN c
                        ELSE IF at[i - 1] = None THEN None
                        ELSE s.client[at[i - 1]].next
  IN at[k]

Depth == 0..Cardinality(Clients)

Chain(s, c) == {Behind(s, c, k) : k \in Depth} \ {None}

FsPop(s, w) ==
  LET head == s.desk[w].head IN
  IF s.desk[w].n = 0 \/ head = None THEN s
  ELSE SetDesk(SetClient(s, head, [s.client[head] EXCEPT !.next = None]), w,
               [s.desk[w] EXCEPT
                  !.head = IF s.desk[w].n = 1 THEN None ELSE s.client[head].next,
                  !.n = @ - 1])

(* Variant: only the head is looked at.                                    *)
FsRemoveHead(s, w, c) == IF s.desk[w].head = c THEN FsPop(s, w) ELSE s

FsRemove(s, w, c) ==
  IF c \notin Chain(s, s.desk[w].head) THEN s
  ELSE IF s.desk[w].head = c THEN FsPop(s, w)
  ELSE LET parent == CHOOSE p \in Chain(s, s.desk[w].head) : s.client[p].next = c
       IN SetDesk(SetClient(SetClient(s, parent, [s.client[parent] EXCEPT !.next = s.client[c].next]),
                            c, [s.client[c] EXCEPT !.next = None]),
                  w, [s.desk[w] EXCEPT !.n = @ - 1])

FsPushFront(s, c) ==
  SetDesk(SetClient(s, c, [s.client[c] EXCEPT !.next = s.desk[s.current].head]), s.current,
          [s.desk[s.current] EXCEPT !.head = c, !.n = @ + 1])

(* Variant: a client that is in the stack is pushed again.                 *)
FsPushAgain(s, c) ==
  IF s.client[c].mini THEN s ELSE FsPushFront(s, c)

(* Always the stack of the current workspace.                              *)
FsPush(s, c) ==
  IF s.client[c].mini THEN s ELSE FsPushFront(FsRemove(s, s.current, c), c)

FirstMapped(s, c) ==
  LET stop(k) == \/ Behind(s, c, k) = None
                 \/ V!IsClientMapped(s.client[Behind(s, c, k)])
  IN IF \E k \in Depth : stop(k)
       THEN Behind(s, c, CHOOSE k \in Depth : stop(k) /\ \A i \in 0..(k - 1) : ~stop(i))
       ELSE None

(* Variant: nothing to fall back to when the stack has no mapped client.   *)
NextFocusInLine(s, m, first) ==
  IF m = NoWorkspace THEN None ELSE FirstMapped(s, s.desk[s.current].head)

(* get_next_focus(monitor of workspace m, NO_FS_REMOVE)                    *)
NextFocus(s, m, first) ==
  LET inLine   == FirstMapped(s, s.desk[s.current].head)
      tiled    == IF Tiled(s, m) # {} THEN Tiled(s, m) ELSE Tiled(s, s.current)
      fallback == Pick(IF tiled # {} THEN tiled ELSE Minimized(s, m), first)
  IN IF m = NoWorkspace THEN None
     ELSE IF inLine # None THEN inLine ELSE FirstMapped(s, fallback)

-----------------------------------------------------------------------------
(* geometry.c, workspaces.c *)

(* arrange_monitor without focus: clear_layout_enter_events waits for the  *)
(* server and then drops key and button presses, not the enter events.     *)
Clear(all, kept, e) == IF e.what = "key" THEN kept ELSE Append(kept, e)

Clearing == INSTANCE Loops WITH Step <- Clear

Arrange(s) == [s EXCEPT !.queue = Clearing!Along(s.queue, <<>>, s.queue)]

(* Variant: the flag of the client that was fullscreen is left.            *)
SetFullscreenToo(s, w, c) ==
  [s EXCEPT !.client[c].full = TRUE, !.desk[w].full = c]

SetFullscreen(s, w, c) ==
  SetDesk([s EXCEPT !.client = [x \in Clients |->
             [s.client[x] EXCEPT !.full = x = c \/ (s.client[x].full /\ x # s.desk[w].full)]]],
          w, [s.desk[w] EXCEPT !.full = c])

Track(s, w, c) == SetDesk(s, w, [s.desk[w] EXCEPT !.tracked = c])

SetCurrentFocus(s, c, time) ==
  LET full == s.desk[s.current].full
      handsOver == full # None /\ s.desk[s.current].tracked = full /\ s.client[c].place = s.current
  IN IF c = None
       THEN Track(SetInput(s, None, time), s.current, None)
     ELSE IF s.client[c].workspace # s.current \/ ~V!IsClientMapped(s.client[c]) THEN s
     ELSE SetInput(IF handsOver THEN Arrange(SetFullscreen(s, s.current, c)) ELSE s, c, time)

(* arrange_monitors(CurrentTime, JUSTIFY_FOCUS) on the current workspace.  *)
ArrangeJustify(s, first) ==
  LET d == s.desk[s.current] IN
  IF d.full # None /\ d.full = d.tracked THEN Arrange(s)
  ELSE SetCurrentFocus(Arrange(s), NextFocus(s, s.current, first), "current")

-----------------------------------------------------------------------------
(* manage.c *)

EndManage(s, c, first) ==
  LET r     == s.client[c]
      cur   == s.current
      held  == s.desk[cur].tracked = c
      list  == IF r.mini THEN Minimized(s, r.place) ELSE Tiled(s, r.place)
      next  == IF /\ held /\ c \in list /\ first # c     \* c is not the last
                  /\ r.mini \/ FocusEnd = "next"
                 THEN Pick(list \ {c}, first) ELSE None
      cleared == [s EXCEPT
        !.desk = [w \in Workspaces |->
           [s.desk[w] EXCEPT
              !.tracked = IF w = cur /\ held THEN None ELSE @,
              !.full = IF w = r.place /\ r.full THEN None ELSE @,
              !.before = IF w = r.workspace /\ (\E u \in Workspaces : s.desk[u].before = c)
                           THEN None ELSE @]]]
      removed == FsRemove(cleared, r.workspace, c)
      freed   == SetClient(removed, c, Forgotten(V!Fresh(removed.client[c])))
  IN SetCurrentFocus(freed,
       IF next # None THEN next ELSE NextFocus(freed, r.place, first),
       "current")

-----------------------------------------------------------------------------
(* The handlers of events.c, on a state whose event has been read.         *)

(* Variant: the counter may go below zero.                                 *)
CountUnmappedBelow(s, w) == SetDesk(s, w, [s.desk[w] EXCEPT !.nmapped = @ - 1])

(* inc_mapped_in_workspace and dec_mapped_in_workspace.                    *)
CountMapped(s, w)   == SetDesk(s, w, [s.desk[w] EXCEPT !.nmapped = @ + 1])
CountUnmapped(s, w) == SetDesk(s, w, [s.desk[w] EXCEPT !.nmapped = IF @ = 0 THEN 0 ELSE @ - 1])

HandleMapRequest(s, c) ==
  LET r     == s.client[c]
      new   == V!HandleMapRequest(r, s.current)
      count == IF ~r.managed /\ new.mapped THEN CountMapped(s, new.workspace) ELSE s
  IN IF r.managed /\ r.place # s.current THEN s
     ELSE Put(count, c, [new EXCEPT !.want = TRUE])

HandleUnmapNotify(s, c, first) ==
  LET r       == s.client[c]
      counted == CountUnmapped(s, r.workspace)
      kept    == [V!HandleUnmapNotify([r EXCEPT !.map_after = FALSE]) EXCEPT
                    !.map_after = r.map_after, !.moved = FALSE]
      own     == SetClient(counted, c, kept)
      settled == IF r.workspace = s.current \/ r.moved THEN ArrangeJustify(own, first) ELSE own
      ended   == EndManage(counted, c, first)
  IN IF ~r.managed THEN s
     ELSE IF r.pending_unmap > 0 /\ r.map_after
       THEN Put(settled, c, [V!MapClient(settled.client[c]) EXCEPT !.map_after = FALSE])
     ELSE IF r.pending_unmap > 0 THEN settled
     ELSE IF r.workspace = s.current THEN Arrange(ended) ELSE ended

HandleMapNotify(s, c, first) ==
  LET r    == s.client[c]
      cur  == s.current
      full == s.desk[cur].full
      shown == Put(CountMapped(s, r.workspace), c, V!HandleMapNotify(r, cur, FALSE))
      before == s.desk[cur].before
      asked == SetCurrentFocus(shown, IF full = None THEN c ELSE full, "current")
      viewable == Cardinality(Tiled(shown, cur) \cup Minimized(shown, cur))
  IN IF ~r.managed THEN s
     ELSE IF r.workspace # cur \/ r.unmap_after THEN shown
     ELSE IF s.desk[cur].tracked # None /\ s.desk[cur].tracked = full
       THEN Arrange(SetFullscreen(SetCurrentFocus(shown, c, "current"), cur, c))
     ELSE IF before = c \/ r.want
       THEN Arrange(SetDesk(SetClient(asked, c, [asked.client[c] EXCEPT !.want = FALSE]), cur,
                            [asked.desk[cur] EXCEPT !.before = IF @ = c THEN None ELSE @]))
     ELSE IF /\ shown.desk[cur].nmapped = viewable
             /\ shown.desk[cur].tracked = None /\ before = None
       THEN SetCurrentFocus(Arrange(shown), NextFocus(shown, cur, first), "current")
     ELSE Arrange(shown)

HandleDestroyNotify(s, c, first) ==
  IF s.client[c].managed THEN Arrange(EndManage(s, c, first)) ELSE s

(* Variant: a minimized client is not taken for the focus.                 *)
HandleFocusInTiled(s, c) ==
  IF /\ s.client[c].managed /\ ~s.client[c].mini
     /\ V!IsClientMapped(s.client[c])
    THEN Track(FsPush(s, c), s.client[c].workspace, c)
    ELSE s

HandleFocusIn(s, c) ==
  IF s.client[c].managed /\ V!IsClientMapped(s.client[c])
    THEN Track(FsPush(s, c), s.client[c].workspace, c)
    ELSE s

HandleFocusOut(s, c) ==
  LET w == s.client[c].workspace IN
  IF s.client[c].managed /\ s.desk[w].tracked = c
    THEN Track(s, w, None) ELSE s

HandleEnterNotify(s, c, time) ==
  IF s.client[c].managed THEN SetCurrentFocus(s, c, time) ELSE s

-----------------------------------------------------------------------------
(* The key actions of events.c. focus is get_current_focus().              *)

UnmapOne(w, t, c) == Put(t, c, V!Leave(t.client[c]))
MapOne(w, t, c)   == Put(t, c, V!Enter(t.client[c]))

UnmapWorkspace == INSTANCE Loops WITH Step <- UnmapOne
MapWorkspace   == INSTANCE Loops WITH Step <- MapOne

ActionSwitchWorkspace(s, w, first) ==
  LET focus == s.desk[s.current].tracked
      m     == MonitorAt(s, s.current, focus)
      gone  == focus # None /\ s.client[focus].workspace # s.current
      left  == IF ~gone THEN s
               ELSE LET p == IF m = NoWorkspace THEN s ELSE FsPop(s, s.current)
                    IN SetCurrentFocus(p, NextFocus(p, m, first), "current")
      kept  == SetDesk(left, s.current,
                       [left.desk[s.current] EXCEPT !.before = left.desk[s.current].tracked])
      At(u) == {c \in Clients : s.client[c].managed /\ s.client[c].place = u}
      away  == UnmapWorkspace!Over(s.current, kept, At(s.current))
      back  == MapWorkspace!Over(w, away, At(w))
  IN ArrangeJustify([back EXCEPT !.current = w], first)

ActionMoveToWorkspace(s, w, first, time) ==
  LET focus == s.desk[s.current].tracked
      m     == MonitorAt(s, s.current, focus)
      moved == [s.client[focus] EXCEPT !.workspace = w, !.desktop = w, !.moved = TRUE,
                                       !.place = IF m = NoWorkspace THEN @ ELSE w]
      hidden == Put(s, focus, V!UnmapClient(moved))
      popped == IF m = NoWorkspace THEN hidden ELSE FsPop(hidden, s.current)
  IN IF focus = None THEN s
     ELSE SetCurrentFocus(popped, NextFocus(popped, m, first), time)

ActionUnmapWindow(s) ==
  LET focus == s.desk[s.current].tracked IN
  IF focus = None THEN s
  ELSE Put(s, focus, V!UnmapClient([s.client[focus] EXCEPT !.future_stay = TRUE]))

(* Variant: the mark that the next unmap is to last is left.               *)
ActionMapLatestUnmapOnce(s, c) ==
  Put(s, c, V!MapClient([s.client[c] EXCEPT !.ul = "can"]))

ActionMapLatestUnmap(s, c) ==
  Put(s, c, V!MapClient([s.client[c] EXCEPT !.ul = "can", !.future_stay = FALSE]))

ActionMinimizeWindow(s, first, time) ==
  LET cur   == s.current
      focus == s.desk[cur].tracked
      mini  == IF focus = None THEN s
               ELSE SetClient(s, focus, [s.client[focus] EXCEPT !.mini = TRUE])
      popped == FsPop(Arrange(mini), cur)
  IN IF focus # None /\ s.client[focus].workspace # cur THEN s
     ELSE IF focus = s.desk[cur].full THEN s
     ELSE IF focus = None \/ ~s.client[focus].mini
       THEN SetCurrentFocus(popped, NextFocus(popped, cur, first), time)
     ELSE ArrangeJustify(SetClient(s, focus, [s.client[focus] EXCEPT !.mini = FALSE]), first)

(* The monitor is that of the focus, wherever it is.                       *)
ActionMinimizeAll(s) ==
  LET focus == s.desk[s.current].tracked
      here  == Tiled(s, s.client[focus].place)
  IN IF focus = None THEN s
     ELSE Arrange([s EXCEPT !.client = [c \in Clients |->
            [s.client[c] EXCEPT !.mini = s.client[c].mini \/ c \in here]]])

ActionToggleFullscreen(s) ==
  LET cur   == s.current
      focus == s.desk[cur].tracked
      on    == ~s.client[focus].full
  IN IF focus = None \/ s.client[focus].workspace # cur
        \/ s.desk[cur].full \notin {None, focus}
       THEN s
     ELSE Arrange(SetDesk(SetClient(s, focus, [s.client[focus] EXCEPT !.full = on]), cur,
                          [s.desk[cur] EXCEPT !.full = IF on THEN focus ELSE None]))

-----------------------------------------------------------------------------
Init ==
  /\ current \in Workspaces
  /\ client = [c \in Clients |-> NewClient]
  /\ desk = [w \in Workspaces |->
               [tracked |-> None, before |-> None, full |-> None, head |-> None,
                n |-> 0, nmapped |-> 0]]
  /\ input = None /\ queue = <<>> /\ presses = 0

(* Clients, as in Visibility.                                              *)
ClientActs(c, r) == Become(Put(Now, c, r)) /\ UNCHANGED presses

ClientMap(c) ==
  /\ "map" \in ClientOps /\ V!ClientMayAct(c)
  /\ client[c].win = "unmapped"
  /\ ClientActs(c, [client[c] EXCEPT !.notices = <<"request">>])

ClientWithdraw(c) ==
  /\ "withdraw" \in ClientOps /\ V!ClientMayAct(c)
  /\ ClientActs(c, [V!XUnmapWindow(client[c]) EXCEPT !.notices = Append(@, "synthetic")])

ClientDestroy(c) ==
  /\ "destroy" \in ClientOps /\ V!ClientMayAct(c)
  /\ ClientActs(c, [V!XUnmapWindow(client[c]) EXCEPT !.notices = Append(@, "destroy"),
                                                     !.win = "gone"])

(* The user presses a bound key, or moves the pointer into a window.  What *)
(* the key does is chosen when it is read.                                 *)
UserEvent(e) ==
  /\ presses < MaxPresses /\ presses' = presses + 1
  /\ queue' = Append(queue, e)
  /\ UNCHANGED <<current, client, desk, input>>

PressKey == Bindings # {"enter"} /\ UserEvent(Event("key", None))

PointerEnters(c) ==
  "enter" \in Bindings /\ client[c].win = "mapped" /\ UserEvent(Event("enter", c))

-----------------------------------------------------------------------------
(* The event loop.                                                         *)

Reads(kinds) == queue # <<>> /\ Head(queue).what \in kinds /\ UNCHANGED presses

Rest == [Now EXCEPT !.queue = Tail(@)]
Of   == Head(queue).of
Time == IF Head(queue).late THEN "late" ELSE "fresh"

MapRequest    == Reads({"request"}) /\ Become(HandleMapRequest(Rest, Of))
UnmapNotify   == /\ Reads({"unmap", "synthetic"})
                 /\ \E first \in Clients : Become(HandleUnmapNotify(Rest, Of, first))
MapNotify     == /\ Reads({"map"})
                 /\ \E first \in Clients : Become(HandleMapNotify(Rest, Of, first))
DestroyNotify == /\ Reads({"destroy"})
                 /\ \E first \in Clients : Become(HandleDestroyNotify(Rest, Of, first))
FocusIn       == Reads({"in"}) /\ Become(HandleFocusIn(Rest, Of))
FocusOut      == Reads({"out"}) /\ Become(HandleFocusOut(Rest, Of))
EnterNotify   == Reads({"enter"}) /\ Become(HandleEnterNotify(Rest, Of, Time))

Key(binding) == binding \in Bindings /\ Reads({"key"})

SwitchWorkspace(w) ==
  /\ Key("switch") /\ w # current
  /\ \E first \in Clients : Become(ActionSwitchWorkspace(Rest, w, first))

MoveToWorkspace(w) ==
  /\ Key("move") /\ w # current
  /\ \E first \in Clients : Become(ActionMoveToWorkspace(Rest, w, first, Time))

UnmapWindow == Key("unmap_window") /\ Become(ActionUnmapWindow(Rest))

MapLatestUnmap(c) ==
  /\ Key("map_latest")
  /\ MonitorAt(Now, current, desk[current].tracked) # NoWorkspace
  /\ client[c].managed /\ client[c].place = current /\ client[c].ul # "none"
  /\ Become(ActionMapLatestUnmap(Rest, c))

MinimizeWindow ==
  /\ Key("minimize")
  /\ \E first \in Clients : Become(ActionMinimizeWindow(Rest, first, Time))

MinimizeAll == Key("minimize_all") /\ Become(ActionMinimizeAll(Rest))

ToggleFullscreen == Key("fullscreen") /\ Become(ActionToggleFullscreen(Rest))

(* A key that does nothing here: map_latest with nothing unmapped, ...     *)
KeyOfNoUse == Reads({"key"}) /\ Become(Rest)

Handle ==
  \/ MapRequest \/ UnmapNotify \/ MapNotify \/ DestroyNotify
  \/ FocusIn \/ FocusOut \/ EnterNotify
  \/ \E w \in Workspaces : SwitchWorkspace(w) \/ MoveToWorkspace(w)
  \/ \E c \in Clients : MapLatestUnmap(c)
  \/ UnmapWindow \/ MinimizeWindow \/ MinimizeAll \/ ToggleFullscreen \/ KeyOfNoUse

Next ==
  \/ \E c \in Clients : ClientMap(c) \/ ClientWithdraw(c) \/ ClientDestroy(c)
  \/ PressKey
  \/ \E c \in Clients : PointerEnters(c)
  \/ Handle

Spec == Init /\ [][Next]_vars

-----------------------------------------------------------------------------
(* Properties *)

(* Type invariant of the focus state (workspaces.h, client.h).             *)
TypeOK ==
  /\ current \in Workspaces /\ input \in Clients \cup {None}
  /\ client \in [Clients -> Record] /\ desk \in [Workspaces -> Desk]
  /\ queue \in Seq(Events)

Managed(c) == c = None \/ client[c].managed

(* No pointer outlives the Client it points to: end_manage frees the       *)
(* struct, and everything that may still hold its address was cleared, on  *)
(* whatever workspace it is kept.                                          *)
NoDanglingPointer ==
  /\ \A w \in Workspaces : /\ Managed(desk[w].tracked) /\ Managed(desk[w].before)
                           /\ Managed(desk[w].full) /\ Managed(desk[w].head)
  /\ \A c \in Clients : Managed(client[c].next)

(* The focus stack of a workspace holds each of its clients at most once,  *)
(* only clients of that workspace, and as many as it counts: two stacks    *)
(* share the one link of a client, so a client left in the wrong stack     *)
(* joins the two.                                                          *)
StackWellFormed ==
  \A w \in Workspaces :
    LET held == Chain(Now, desk[w].head) IN
    /\ Behind(Now, desk[w].head, Cardinality(Clients)) = None
    /\ Cardinality(held) = desk[w].n
    /\ \A c \in held : client[c].workspace = w

(* The fullscreen pointer of a monitor and the flag of the client say the  *)
(* same, and the client is on that monitor.                                *)
FullscreenAgrees ==
  \A c \in Clients, w \in Workspaces :
    desk[w].full = c <=> client[c].managed /\ client[c].full /\ client[c].place = w

AtRest == queue = <<>>

(* When every event has been read, the focus the manager tracks is the     *)
(* window the server sends keys to.                                        *)
TrackedIsInput == AtRest => desk[current].tracked = input

(* When every event has been read and a tiled window can have the focus,   *)
(* some window has it: closing, hiding and switching pass it on.           *)
FocusIsPassedOn ==
  AtRest /\ (\E c \in Tiled(Now, current) : V!IsClientMapped(client[c]))
    => desk[current].tracked # None

(* The maps and unmaps are those of Visibility: what it takes for granted  *)
(* of the focus, that it is a client it may be, is true.                   *)
Implements == V!Spec
=============================================================================
