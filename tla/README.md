# A verification project for angel-wm

angel-wm is a tiling window manager for X11 written in C (`src/src`, 18 000
lines). It is one process with one thread: `evloop` (events/events.c:1747) reads
an X event, runs its handler to the end, and reads the next. What makes it hard
is not threads but asynchrony. Every request to the X server is sent and
forgotten, and what it did comes back as an event, any number of other events
and user actions later. In between, the manager works from its own copies: the
`mapped` flag and transition state of a client, the list a client is in, the
tracked focus, the fullscreen pointer, the focus stack. Workspaces are switched,
clients are moved, the manager is restarted while those copies are behind.

The repository has no tests.

## 1. Inventory

| Component | State it keeps | Operations | Who it talks to |
|---|---|---|---|
| Event loop, handlers (events/) | pointer position, key actions, focus mode | 14 event handlers, about 40 key actions | everything below |
| Client (client/) | mapped, transition state, pending_unmap, four deferred map/unmap flags, geometry, workspace, fullscreen, moved | map_client, unmap_client, setters | X server |
| Managing (manage/, setup/) | none of its own | start_manage, end_manage, manage_existing | lists, monitors, ICCCM/EWMH hints |
| Workspaces (workspaces/) | current workspace; per workspace tracked focus, focus before the switch, mapped counter, focus stack, monitors | set_current_focus, switch, move, cancel functions | monitors, X focus |
| Monitors, Monitor (monitors/, monitor/) | per workspace a list of monitors; per monitor client, float, minimized, unmapped and dock lists, layout, fullscreen client, struts | membership, move between monitors, hotplug, persistent windows | lists |
| Client list, float list, minimized list, unmapped list, docks, detached (client_list/, float_list/, minimize/, unmapped_list/, docks/, detached/) | doubly linked lists of records that remember where a client came from | push, insert, remove, detach, reattach at the old position, swap | each other |
| Focus stack (focus/) | head, count, the `fs_next` link inside each client | push, pop, remove, get_next_focus, justify_focus | workspaces, monitors |
| Geometry, layouts (layout/geometry, layout/layouts) | splits, gaps, resize steps | arrange_monitor and nine layouts | clients, X server |
| Motion tree (layout/motiontree) | a tree over the tiles, built by each arrangement | directional focus, swap | geometry |
| Hotplug (randr/, workspaces.c 736-813) | none of its own | compare outputs, absorb, update | monitors |
| Configuration (config/) | symbol table, options, key bindings | lexer, parser, defaults | keyboard |
| Keyboard (keyboard/) | key maps, grabs | grab, dispatch | events |
| ICCCM, EWMH (icccm/, ewmh/) | window properties | read hints, write state | X server |
| Start, restart, clean-up (angel/, main.c, cleanup/) | none | prologue, execvp, free | everything |
| Workspace pipe (wspipe/) | a FIFO | one write per switch | status bars |
| Thin wrappers (windows/, colors/, cursors/, logging/, ...) | none | Xlib calls | X server |

### What is hard, and what makes it correct

* **Map and unmap.** A switch of workspace unmaps some windows and maps others;
  before the notices arrive the user switches again. Four flags of a client say
  what to do when they do. Correct: after the notices are read, the windows of
  the current workspace are on the screen and the others are not; no client is
  stuck in a pending state; the copies agree.
* **Lists.** A client is in one of five lists of one monitor of one workspace,
  and each move between lists takes a record out, makes another, and remembers
  the position. Correct: exactly one list, the right workspace, no record
  survives its client.
* **Focus.** XSetInputFocus is ignored or not according to its time stamp and
  the window's map state; FocusIn and FocusOut come later and are believed.
  Correct: when the queue is empty, the tracked focus is the window that has the
  input; a focusable window has it when there is one; no pointer to a freed
  client is left.
* **Fullscreen.** A pointer per monitor and a flag per client. Correct: the two
  agree, and follow the client when it is moved.
* **Hotplug.** Outputs come and go, several at once, and each workspace updates
  its own list of monitors. Correct: no client is lost, all workspaces have the
  monitors there are, a client stays on its monitor unless something moves it.
* **Restart.** `execvp`: everything but window properties is forgotten.
* **Geometry.** Integer division with gaps, borders and resize steps that
  pile up. Correct: tiles fill the area and do not overlap, none is too small to
  be seen, the loops that take steps back end, and the motion tree leads where
  the screen shows.
* **Configuration.** Thirty places in the parser report an error and say for
  themselves where to go on. Correct: reading ends, the options and keys are
  those the file says, and an error takes no innocent line along.

PROJECT.json lists these as hazards at their lines.

## 2. Modules and plan

| module | models | checked by | uses |
|---|---|---|---|
| `Visibility` | the map/unmap protocol, the heart of the event loop | `MCVisibility`, visibility_all, visibility_shown; `Visibility_proofs` | |
| `Loops` | a loop over a list or a set, and induction along it | through the modules that use it; holds its own theorems | |
| `Focus` | the input focus, the focus stacks, tracked focus, focus before the switch, fullscreen, over one event queue | `MCFocus`, focus_modes, focus_moves; `Focus_proofs`, `FocusVisibility_proofs` | Visibility's operators on one client, Loops; implements Visibility |
| `ClientList` | the operations on a list of tiled windows | with Lists; `Places_proofs` | |
| `Lists` | the lists of a monitor, with the positions the records remember | `MCLists`, lists_order, lists_modes, lists_persistent; `Places_proofs`, `Lists_proofs` | ClientList, Loops, Visibility's operators on one client; implements Visibility |
| `MotionTree` | the tree of the tiles and the motion in it | with Tiling | |
| `Tiling` | what arrange_monitor does, and all that makes it do so | `MCTiling`, tiling | ClientList, MotionTree |
| `Monitors` | the monitors of a workspace: neighbours, absorb, update | with Screens; `Screens_proofs` | Loops |
| `Screens` | outputs, workspaces, moves between monitors, floating windows, drags, docks, restart | `MCScreens`, screens, screens_float; `Screens_proofs` | Monitors, Loops |
| `Config` | the parser of the configuration, options, key maps | `MCConfig`, config, config_check; `Config_proofs` | Loops |

A run answers a question about the whole of a module, or shows a disagreement between
the code and what its documents say. Ten further configurations are small counterexamples, each one
minute or less of TLC, that are kept because a section below refers to them. They
check a property that is false with the keys they bind or the files they read:

| configuration | module | violates | with |
|---|---|---|---|
| `Visibility_move.cfg` | `MCVisibility` | `ShownWhenHere` | moves; 1 window |
| `Focus_stack.cfg` | `MCFocus` | `NoDanglingPointer` | moves and minimize-all; 2 windows, 4 user events |
| `Focus_fullscreen.cfg` | `MCFocus` | `FullscreenAgrees` | moves; 2 windows, 2 user events |
| `Lists_names.cfg` | `MCLists` | `FloatAllFloats`, float-all-tiled floats | 2 windows |
| `Tiling_strip.cfg` | `MCTiling` | `NoWildRead`, no key follows a pointer to a freed record | 2 windows, 6 actions |
| `Screens_uneven.cfg` | `MCScreens` | `ToggleFloatToggles` | outputs of two heights |
| `Screens_below.cfg` | `MCScreens` | `BelowIsBelow`, move-win-monitor-down goes down | 2 outputs side by side |
| `Config_comments.cfg` | `MCConfig` | `ReadAsWritten` | a comment behind a statement |
| `Config_end.cfg` | `MCConfig` | `ReadAsWritten` | a last line that no newline ends |
| `Config_numbers.cfg` | `MCConfig` | `ReadAsWritten` | a variable that is a number |

Each of the modules has its own cut through the program, and what one leaves open
another fills in: Visibility lets the focus be any client and Focus says which;
Lists lets the neighbour be any client and MotionTree says which; Screens
lets nobody act between a request and its notice, and Visibility and Lists do
nothing else. Where two of them speak of the same state, the one implements the
other (`Implements` in Focus and Lists) or uses its operators.

Left, in this order:

1. Proofs about `Lists` with toggle-persistent for a patient user: the loops of
   monitor_move_persistent, a queue that is empty when a key is read, and another
   invariant than that of `Lists_proofs`, whose `IsInPlace` is false there (section 9).
2. Proofs about `Focus`: `TrackedIsInput`, which takes the converse of what
   `Focus_proofs` knows of the events on the way (`Told`); `FocusIsPassedOn`, which
   needs the counters of mapped windows too.
3. The linked lists by pointers (client_list.c, float_list.c), refined to the
   sequences of `ClientList`. Only the `prev` of the minimized list is in a model so
   far (Tiling), for that is where it is wrong.
4. Size hints (icccm.c): they change the sizes of floating windows and
   nothing else.

## 3. Visibility

### State

`client` maps each top-level window to one record: what the server knows of the
window (`win`), the events about it the manager has not read (`notices`), and
the fields of `struct Client` (client/client.h:22) that the protocol uses, under
their names there, except

| field | in the code |
|---|---|
| `managed` | some list of some workspace holds its Client |
| `known` | the window still existed when it was managed |
| `workspace` | `on_workspace` |
| `place` | the workspace whose lists hold the client; not in the code, where it is found by searching the lists of `on_workspace` |
| `desktop` | the property _NET_WM_DESKTOP of the window |
| `ul` | its record in the unmapped list: none, or `stay_unmapped` false ("can") or true ("stay") |
| `future_stay` | `future_unmap_stay_unmapped` |
| `from_switch` | `unmapped_from_workspace_switch` |
| `map_after` | `map_after_unmap_notify` |
| `unmap_after` | `unmap_after_map_notify` |

`current` is the current workspace. The field `mapped_from_workspace_switch` is
written and never read, and left out.

### Actions

| action | code |
|---|---|
| `ClientMap`, `ClientWithdraw`, `ClientDestroy` | what any client may do with its window; external |
| `MapRequest`, `UnmapNotify`, `MapNotify`, `DestroyNotify` | the four handlers, events.c 470-666 |
| `SwitchWorkspace` | `action_switch_workspace`, with `Leave` and `Enter` for what it does to one client |
| `MoveToWorkspace`, `UnmapWindow`, `MapLatestUnmap`, `UnmapAll`, `MapAll` | the key actions of these names |
| `Restart` | `action_restart_manager`, execvp, and `prologue` of the new process |

The event queue is one FIFO per window. The server orders the events of one
window, and no handler of this module reads the state of another window, so the
order between windows cannot be observed here. A key action is a step of its
own: it is an event in the same queue, but it names no window, and the state
it meets can be any state between two notices.

`XUnmapWindow` and `XMapWindow` are the server's: an event only when the state of
the window changes.

### What is abstracted

* The order of the lists, positions, monitors, focus and geometry. `MoveToWorkspace`
  and `UnmapWindow` act on the tracked focus; here (`FocusMayBe`) on any client of
  the current workspace that is not a dock and not yet in the unmapped list.
  With `Hurried`, on a client that has been moved away as well: the tracked focus
  changes with the FocusIn of the next one, and a key may be read before it.
* `arrange_monitors` throws away key presses that are queued behind the
  action (`clear_layout_enter_events`; Focus models it), so some orders of key
  presses this model allows cannot happen while the server is slower than the
  user. The disagreements below do not depend on such an order: neither
  `action_move_to_workspace` nor a restart arranges before the key that follows.
* A client has at most one record in the unmapped list. In the code an UnmapNotify
  for a client that is in the list already pushes a second one, and
  the records are looked up newest first, so the model keeps the newest. `Lists`
  has the list in full, and its `InExactlyOneList` shows that there is no
  second record unless the manager was restarted or a client withdrew its
  window; only beyond those the model is approximate.
* Clients do nothing between the exit of the old process and the end of the
  new one's `manage_existing`.
* A preset _NET_WM_DESKTOP with a workspace number is not in the initial states:
  what `start_manage` does with it depends on monitors (Screens). "All
  workspaces" is. Docks are docks with a strut: one without is dropped from
  every list when it is mapped (docks.c:97).
* Persistent windows (toggle-persistent).

### Runs

| run | question | bounds |
|---|---|---|
| visibility_all | do the invariants, the inductive one included, hold under every binding and every client operation, and does a user's unmap stick? | 2 windows (one a dock), 2 workspaces, 2 unread notices per window |
| visibility_shown | do windows of the current workspace always come back, and are pending states always settled? | the same, without the move, unmap-workspace and withdrawal |

A step touches one window or every window in the same way, and no guard of one
window reads another's record, so one window shows every behaviour of the
protocol; the second is there because docks take other paths. Two workspaces
are the least that have another one; a third adds only a second hidden
workspace, which matters to a window that is moved twice and nowhere else. `MaxNotices` bounds only what *clients* may add to the queue: the
manager's own maps and unmaps come on top, so queues of five and more notices
occur. `MaxPending` bounds how often a client may act while the manager's own
unmaps are not settled.

`PendingSettles` needs fairness: weak fairness of `Handle(c)` for each window. The
event loop reads until the queue is empty (`evloop` blocks only in XNextEvent),
handlers do not block, and nothing but a handler takes a notice away.

### What the runs say of the code

* `Visibility_move.cfg`: `action_move_to_workspace` unmaps the window without marking the
  unmap as one that a switch may undo. If the user follows the window before
  the UnmapNotify was read, `cl_cancel_pending_unmaps` passes it over,
  `map_current_workspace` does not find it in the unmapped list yet, and the
  window stays invisible on the workspace it was moved to.
* `UserUnmapSticks` exempts the restart: the mark that the user unmapped a
  window does not survive it, and the new process maps the window.
* `IInv` is checked, and proved, for at most two workspaces when keys overtake the
  FocusIn (`Hurried`) and windows can be moved; with three it is not true. `action_move_to_workspace` looks the focus up in the lists of the
  current workspace and sets `on_workspace` whether it found it there or not. A
  second move before the FocusIn of the next focus finds the client moved
  already: `on_workspace` and _NET_WM_DESKTOP name the second target, the lists of
  the first one hold the client. No later handler finds its monitor, so it
  is never shown on the workspace it was moved to.

Withdrawal is left out of visibility_shown for a reason that belongs to ICCCM
clients more than to angel-wm: the synthetic UnmapNotify that follows the real one
meets a client that may have been mapped again, and is taken for a second
withdrawal.

## 4. Focus

### State

`client` has the records of Visibility, their notices empty, and five fields
more; `queue` is the one event queue, in the order of the server.

| variable, field | in the code |
|---|---|
| `desk[w].tracked`, `.before` | `current_focus`, `focus_before_workspace_switch` of the workspace |
| `desk[w].full` | the fullscreen client of its monitor |
| `desk[w].head`, `.n` | the focus stack |
| `desk[w].nmapped` | `mapped_in_workspace` |
| `mini`, `full`, `want`, `moved`, `next` of a client | `minimized`, `fullscreen`, `should_set_focus`, `moved`, `fs_next` |
| `input` | not in the code: the server's focus window |
| `late` of an event | not in the code: its time stamp is older than the server's last focus change |

`Record`, `Desk` and `Events` are the types of these; `NewClient` is the record calloc
leaves. `FocusAssumption` asks that there are finitely many windows and that None and
the two that are no workspaces are none of the others.

A handler calls functions that change several of these one after another and
look at what the earlier calls did. So each function is an operator from
a state (the record `Now`) to a state, a handler is their composition in the order
of the code, and an action is `Become` of it. The loops over the
queue and over the clients of a workspace (`Clear`, `UnmapOne`, `MapOne`) are
instances of `Loops`. `View` forgets the additional
fields and gives each client the notices about it in the queue; with it
`Implements` says that every step is a step of Visibility or none.

The server: `Put` sends what the manager's maps and unmaps cause, with the FocusOut
behind the UnmapNotify of the window that had the input (it reverts to the root,
which nobody tracks). `SetInput` is XSetInputFocus: no effect on a window that is
not mapped, or with a time before the last change. After a request with
CurrentTime every user event still queued is too old. `Arrange` is what
`arrange_monitor` does to the queue: it drops key presses.

Who is first in a client list is left open (`first`, chosen by every step that may
ask). `FocusEnd` is the option next-focus-on-close: "next", the code's default
(manage.c:34), in focus_modes, "stack" in the others. Windows take
their input passively; there are no floating windows, docks or persistent windows, and
one monitor per workspace. Restart and unmap-workspace are left to Visibility.

### Runs

| run | question | bounds |
|---|---|---|
| focus_modes | are the stacks sound, do tracked focus, server focus and fullscreen agree, and is there always a focus? | 2 windows, 2 workspaces, 4 user events |
| focus_moves | are these steps Visibility's? | 2 windows, 2 workspaces, 3 user events |

Two windows are what it takes to have one that is in a stack and is not its head;
two workspaces, each with its stack, are what it takes to get into the wrong
one. `MaxPresses` bounds the user's events in all; a key and its effect, a second
key that overtakes the FocusIn, and a third that comes back are the shortest
story of each hazard, and windows open, close and withdraw around them without
a bound in number. `CHECK_DEADLOCK` is off: when the user's events are used up
and all windows are gone, nothing is left to happen.

### What the runs say of the code

* `Focus_stack.cfg`: with everything
  minimized by minimize-all-windows the clients stay in the focus stack, while a minimized client that gets the focus is not pushed.
  `action_move_to_workspace` takes out the head for it, hence another client, and
  the moved one stays behind in the stack. Closing it looks in the stack of its
  new workspace, and the comment at manage.c:381, "Frees the client and removes it
  from the focus stack", is wrong of it.
* `Focus_fullscreen.cfg`: `move_client_to_workspace` does not touch the fullscreen pointer of
  the monitor it takes the client from, and readme.md:30 has fullscreen per monitor.
* `FocusIsPassedOn` is checked without moves and unmap-window because it is not true
  with them, and no text of the repository promises it there. After a move the
  counters of mapped windows are off by one (the client is counted on the old
  workspace and discounted on the new), and the last resort of `handle_map_notify`,
  which compares them, no longer gives the focus. After unmap-window and an
  immediate switch, `focus_before_workspace_switch` names a window that is never
  mapped again, which has the same effect.
* It is stated of tiled windows: a window that is closed on a hidden workspace
  makes `end_manage` look for the next focus in the minimized list of *that*
  workspace's monitor, and a focused minimized window loses the focus.
* `TrackedIsInput` holds even though requests are ignored as too old: each
  handler that gives up a focus is followed by one that asks again with CurrentTime.

## 5. Lists

### State

| variable, field | in the code |
|---|---|
| `lists[w].cl` | the client list of the workspace's monitor, head first |
| `lists[w].fl`, `.ml`, `.ul` | its floating, minimized and unmapped lists, of records |
| `of`, `pos`, `origin`, `before`, `stay` of a record | the client, `position_in_client_list`, the list it came from (`ClientListOrigin`), `origin_origin`, `stay_unmapped` |
| `flags[c].float`, `.mini`, `.persistent` | `floating`, `minimized`, `persistent` of the Client; `client[c]` is as in Visibility |
| `queue` | the one event queue |

`place`, `ul` and `notices` of a client, which Visibility keeps in its record, are
computed here: by looking the client up in the lists, as the code does, and in the
queue. `View` is the client so completed, and `Implements` says that every step of
this module is a step of Visibility or none.

### Actions

The handlers and key actions of Visibility, each with what it does to the lists, and
`ToggleFloat`, `MinimizeWindow`, `FloatAllTiled`, `TileAllFloat`, `MinimizeAll`,
`UnminimizeAll`, `WinSwitch` and `TogglePersistent`, named as in events.c. A function
that walks a list is an instance of `Loops` or a fold over the sequence, in the order of the walk:
`LeaveAll` and `EnterAll` send the unmaps and maps of a switch in that order,
and it is in that order that their notices are read.

`MovePersistentToWorkspace` follows the loops of monitor_move_persistent as they are.
Each walks a list while it moves elements to another one (`Reached`).

### What is abstracted

One monitor per workspace, no docks, no withdrawal and no restart (Visibility
has those). The tracked focus is any client it may be. Fullscreen, which
makes some of these keys do nothing, is in Focus. The neighbour of win-switch
is any other tiled client: which one it is, the motion tree says. A client is
floating from the start or not (`Floats`): the hints that decide it are read once.

### Runs

| run | question | bounds |
|---|---|---|
| lists_order | is no window lost or doubled, and do tiled windows keep their order? | 3 windows (one declared float), 2 workspaces; patient |
| lists_modes | do the flags name the list, does a window stay what the user made it, and is every step on the lists a step of Visibility? | 2 windows (one float) that are not closed, 2 workspaces, 1 pending unmap |
| lists_persistent | `PersistentIsHere`: violated | 2 windows |

Three windows make a list with a middle, and let one come back to a list that has
changed at both ends. The order of two windows and the list of one are what the
other properties speak of, and the two runs share the keys between them so that
each finishes. `IntMax` stands for INT_MAX: larger than any position.

`Patient` (lists_order and lists_persistent) lets nobody act before all events are
read. lists_modes does without it.

### What the runs say of the code

* `Lists_names.cfg`: `float-all-tiled` tiles
  the floating windows, `tile-all-float` floats the tiled ones, the other way
  round than readme.md names them.
* lists_persistent: of several persistent windows in one list, only the first
  mapped one is taken along.
* A persistent window that is unmapped when the workspace is switched changes its
  `on_workspace` and stays in the lists of the old workspace.
* `OrderSurvives` is stated for a patient user, for it is not true of a hurried
  one. A switch away and back, before the UnmapNotifies are read, maps the
  windows in the order they were unmapped instead of the opposite: with `<<a, b>>`,
  `a` leaves position 1, then `b` leaves position 1, `a` comes back in
  front, and `b` comes back in front of it. `LastOutFirstIn` (section 9) is why the
  slow switch works. No text of the repository promises the order of tiled windows, so
  this is no run.
* Nor is it stated with unmap-window: the record of a window that stays
  unmapped while others close is out of date, and the window comes back one place late.
* Minimizing a floating window forgets that it floats: minimize_client drops the
  record that minimize_client_from_fl returns (minimized_client.c:73) and makes another
  with origin ORIGIN_CL, so the window comes back tiled, at the end, and the branch
  of ml_reattach for ORIGIN_FL is never taken.

## 6. Tiling and MotionTree

### State

One monitor. `tile[c]` is where the window of a client is with its border width
(`x`, `y`, `w`, `h`, `bw`), how often it was resized in each direction (`down`,
`up`, `left`, `right`, the four counters of the Client), whether it is mapped, on
its way out, and in resize mode. `cl` and `ml` are the tiled and the minimized
clients, `ml` with the position and the `prev` pointer of its records (`Freed` is a
pointer to a freed record). `kids` is the motion tree: of each node its children
(`MotionTree`; the program links nodes by pointers, and the tree is the
function those make up). `desk` has the rest: the area left for tiles, the
layout, side and height of the strip of minimized windows, the gap, the
fullscreen and the focused client, the mode, the docks with a strut, and
`status`, which is not in the code and says "hangs" or "wild" where a loop of the
code would not end or a freed record is read.

### Actions

Every handler and key that ends in `arrange_monitor`, or changes what it reads: the
map and unmap notices, closing, resizing, minimizing and back, fullscreen,
win-switch, the layouts, the gap, the strip's side and height, docks that come and
go; and those that change a border without an arrangement: focus and mode
(`Reborder`). `Arrange` is arrange_monitor in its order: the whole monitor, struts,
strip, layout, and the policing of the gap until the tiles fit. The nine
layouts share one operator for a row or column with steps (`Adjusted`), where
`Settled` takes steps back as the loops of the code do. Where the code divides by
the number of tiles, remainders go where the code puts them.

Floating windows are in Screens; size hints are in neither. The events that
answer a request for the focus are one step with it.

### Runs

| run | question | bounds |
|---|---|---|
| tiling | do the tiles fill the area, apart, visible and on the monitor; does arranging twice change nothing; does the tree lead where the screen shows; does every loop end; are the strip's links right; does a border change leave the frame alone? | 3 windows, 9 layouts, 4 sides of the strip, a panel over half the top edge, 3 actions on windows and 1 change of layout, gap, strip or docks |

The monitor is the real thing, 1280 by 720, the right one of two: sizes do not cost
states. Every border has a width of its own, since the mistakes to be
found are those of a width taken for another. `ResizeInc` is 340 so that
three steps already reach the limits on which the loops of `Settled` work; the
code's default of 15 would reach them after sixty. Three windows
are what it takes for a master with a stack, and for a row with a middle. The
symmetry is sound: no constant, guard or `CHOOSE` tells the windows apart.
`CHECK_DEADLOCK` is off because the bounds stop the user.

`NeverHangs` covers the loops of `Settled` and of the gap's policing; a loop
that does not end in the code is a fixpoint that is not reached in the model.

### What the runs say of the code

* `Tiling_strip.cfg`: ml_remove of the head of the strip leaves the
  `prev` pointer of the new head at the record its caller frees
  (minimized_list.c:83). With the focus on the new head, win-left ("Focus the
  window to the left", readme.md:434), or win-up for a strip at a side, makes
  action_motion_from_ml follow it. `StripLinked`
  holds of all others, and does not catch this.
* `TilesVisible`, `TilesApart` are stated with what the code does not get right
  left out, each named in the module: in "left left" and "right right" the nested
  master may be resized beyond its area, which leaves its stack a negative width;
  monocle cards get the size that fits the border of the first card while one in
  resize mode has another (the configuration gives both the same width; the
  program's own defaults never set the monocle border, scatter_defaults leaves
  it out).
* A strip at the left takes 4 pixels less off the area than it needs, one at the
  right 2: with a gap below 4 the tiles stick out of the monitor or overlap
  the strip. The run has a gap of 10 and lowers it once.
* A tile that is alone keeps the steps it is resized by, and makes use of them when
  another one comes.
* Thirty tiles in a column leave less than the least height to each, and both loops
  go on for ever. Three windows on 720 pixels do not get there, so `NeverHangs` is a
  statement about up to three tiles.
* Minimizing a window that is on its way out leaves the strip unconfigured until
  the next arrangement; the properties wait for quiet (`Quiet`).

## 7. Monitors and Screens

### State

`server` is the outputs there are, in the order XRRGetMonitors returns them;
`notified` says that a RandR event about them has not been read. `monitors[w]` is the
list of monitors of workspace `w`, each with the name, the primary mark, the
place and size it has *on record*, and the clients each of its lists `holds`. An output has a
name of `Names`; `SetupsAssumption` says that names are distinct among the outputs
connected together, and that one of them, the primary one, always is.
`client[c]` has the state of a window ("out", "coming" and "going" between a
request and its notice, "mapped", "unmapped"), `on_workspace`, the list its flags
name, the monitor name property, and the place, `placed` and `drag` of the
DetachedClient. `grab` is the server's pointer grab.

### Actions

`Connect` is the server's; `ScreenChange` is handle_screen_change_notify and
handle_rr_notify with update_monitors: removed outputs are absorbed workspace by
workspace, new ones made, records updated. Its loops, the search for a neighbour and
manage_existing are instances of `Loops` (`UnplugAll`, `PlugAll`, `Search`,
`ManageExisting`). `ToggleFloat`, `MinimizeWindow`,
`MoveWinMonitor` (four directions), `MoveToWorkspace`, `SwitchWorkspace`, `MoveByKey`
are the keys, `ButtonPress`, `MotionNotify`, `ButtonRelease` a drag or a resize by
pointer, `MapRequest`, `MapNotify`, `UnmapNotify`, `ConfigureRequest`, `Close` the
handlers, `Restart` execvp and prologue, which finds windows by their
properties. A server ends a grab when its window is no longer viewable.

### Runs

| run | question | bounds |
|---|---|---|
| screens | is every client in one list, do workspaces and server agree on the monitors, is the neighbour the nearest, do floating windows show on an output, does a drag end, does a client stay on its monitor? | 2 windows, 2 workspaces, four setups |
| screens_float | `ToggleFloatToggles` with outputs that change: violated | 2 windows, 2 outputs side by side |

A setup says what can be connected and what is bound: `Plugging` (one output or
three, so that two come or go at once, with a drag, moves and restarts), `Panel` (a dock on an
output that comes and goes, and restarts), `Floating` (two outputs, floating
windows by key and pointer), `Square` (four outputs, for the neighbours). Outputs
are 12 by 8, a pointer moves by a whole output or by 2 up, gap and border are 1:
the least at which being in bounds, over the edge and on the other output are
three things. The state space is finite without a counter.

`FloatersInReach` is judged by the outputs of the server: some of the window or of its
border is on one. It is stated of states in which the manager has the outputs where
they are (`Accurate`), which is from a start or a restart to the next RandR event that
changes anything: that event spoils the records (below), and until the next restart
nothing can be said of where a window is put. In `Plugging`, with its restarts, the
manager starts with one output or with three, and windows that were placed by
spoiled records meet true ones again.

`notified` stays true through several events: RandR sends more than one for a
change, and they may be read before or after others, which over-approximates the
order.

### What is assumed

The primary output stays. Without one, or when the pointer is on no monitor on
record while the primary one goes, nobody absorbs (monitors.c:244): the clients
go to a nameless monitor of no size in the list in use (the list of saved
monitors is always empty), and from then on no removal is noticed, and a client
that is moved to that workspace is lost. Outputs do not change while a window is
toggled between floating and tiled (no setup that changes outputs binds the key): the
place it has on record may be on none then, which is screens_float once more.
Section 9 has theorems about outputs that change with the key bound. Nobody presses a key between a
request and its notice.

### What the runs say of the code

* monitors_update_internal_data stores the `x` of an output as its `y`
  (monitors.c:1084), so after a RandR event a row of outputs is a staircase on record.
  The model does the same. screens_float shows what that does to a floating window on
  the output on the right: its corner is on no monitor on record. toggle-float takes it
  off the float list and puts it nowhere (float_list.c:128), and no key and no
  handler finds it again. With outputs of different heights no RandR event is needed:
  a window above the smaller one is on no monitor either (`Screens_uneven.cfg`).
* The same records tell move-win-monitor-down that the output on the right is
  below (`Screens_below.cfg`). Another effect is that floater_in_bounds, which
  knows the rectangle round all records, lets a window be dragged below every output:
  this is why `FloatersInReach` speaks of records that are true. `FollowsServer` speaks of
  all but the `y`. readme.md:36 asks the user to refresh after xrandr because of a bug
  it does not name.
* action_move_win_monitor on a window that is on its way out changes its name property
  and moves the fullscreen pointer, while the window is not moved.
* Neither absorbing nor a floating window that is tiled elsewhere sets the name
  property again, so a restart takes the window back to another monitor than it
  was on, which readme.md:161 says it keeps. `KeepsMonitor` exempts those.
* manage_existing gives a window without the property a monitor of the current
  workspace, whatever workspace it is on.
* readme.md:86 says that without a focus new windows go to the primary monitor; they go
  to that of the pointer.
* A floating window out of bounds is put at (gap, gap) of the screen with its size
  kept; it gets its first place back at every switch of workspace.
* Absorbing turns the order of tiled windows round, and forgets fullscreen.

## 8. Config

### State

The model starts from tokens: `file` is the lines on disk, `text` its tokens as
get_next_token delivers them, `pos` the parser's `next_token`. `config` is what has
been read: the symbol table, the modifier, the options, the layouts of the
workspaces, the list of initial states, the commands executed, and the three lists
of key maps. `healthy` is parse_config's result, `checking` is HEALTH_CHECK, and
`phase` says whether the parser is at a statement, in a block of layouts, at the
end, or has crashed.

### Actions

One action for each parse function, named after it. A parse function is a list of
`Check`s in the order of the code, each with the place where reading goes on when
it fails. That place is the point of the model: `create_error_skip_statement`
skips to the next statement, some callers skip again, blocks are skipped by braces,
and some errors skip nothing. `Statement` takes the first check that fails.
`DispatchKeybind` is what a key press finds.

The lexer appears as `Lexed`: comments go, and with them the newline at their end; the
lines are joined and the comments dropped by two instances of `Loops`.
Words are model values, or sequences of the parts between their dashes where
`bind` takes them apart.

### Runs

| run | question | bounds |
|---|---|---|
| config | is a file read as it is written, and does reading end? | every file of one or two lines out of a menu of 44 kinds of line; of three lines out of 27; each read by the manager and by the health check |
| config_check | `CheckTells`, the health check runs nothing, ends, and tells the files with an error from those without: violated | one file of three lines |

`ReadAsWritten` compares the parser with a reading of the file line by line
(`Reading` in `MCConfig`), in which a line has the meaning readme.md gives it, or is an
error. It holds with the allowance for errors that its comment states: the
line after an error may be lost, and an unknown variable for the action of a bind may end
the program. Lines that mean something to a reader of readme.md and something else
to the parser are not in the menu of config: each kind is in a configuration of its own, where
the same property fails, or in config_check. Of the health check it says nothing: that
is `CheckTells`, which fails for three reasons, all met in the one file of config_check. A statement at the end of a file has its
newline, its semicolon or its brace in config, and only comments that fill a line are
there. `ReadsOn`, with the absence of deadlock, is
termination: the position grows, or the file is done. Three lines are an error, what it
skips into, and what is lost behind it; or a definition, its use, and its use again.

### What the runs say of the code

* config_check: `angel -c`, which "merely checks the health" (readme.md:157), runs the
  exec command of the first line (and would set the background). It does not see the
  bad value of the second, since only the override functions know values, and they are
  not called. On the third, a bind with a comment behind it, it crashes.
* A comment swallows its newline. A statement with a comment behind it
  is joined to the next one and is an error; after the action of a `bind` the program
  crashes, `free((char*)*command)` being called with a NULL `command`
  (config_parser.c:969). readme.md:423 shows such a line, "Will work". The manager does the
  same (`Config_comments.cfg`).
* The same goes for a last line without a newline (`Config_end.cfg`): an error, or a
  crash. Where readme.md:139 says that newlines and semicolons separate statements, the
  parser wants one behind each.
* An integer from a variable is 0 (`Config_numbers.cfg`): the token made up for it has a
  text and no number.
* With an undefined variable as the action of a bind an address on the stack is
  freed (config_parser.c:954), by the health check as by the manager.

### What else was met on the way

The first four of these are in the menu and allowed for, the others left out of it.

* After an undefined variable in exec, a bad value of an option or a bad layout
  variable, two statements are skipped.
* parse_let reports what is not a name but goes on: `let 5 = "x"` followed by `gap = 7`
  installs a variable `gap`, and the health check reports no error.
* A block of layouts whose last item is cut short loses the rest of the file.
* Of several default binds of an action a remap removes one. The table binds
  cycle_tiled_forward twice (keymaps.c:101-102), the second one with shift, where its
  opposite would be expected.
* Unknown actions are accepted, as doing nothing.
* A bind takes tokens until a key ends one and joins them: `bind super- q close-win` binds
  super-q, and `bind $mod-, close-win` works, although readme.md:411 says it does not.
* A variable whose name has a dash is cut at the dash in a bind (readme.md:198-199
  uses one).
* `define next-focus-on-close` has no effect: it has no override function, and its
  value is looked up in the table of new-focus-start.
* The greatest minimized-height depends on whether minimized-position comes
  before or after it.
* Words of one enumeration are taken for another (`set gap = left` is 0).
* Symbols that hash to bucket 0 crash the table: get_bucket(0) is NULL.

## 9. Proofs

Every theorem is about every value of the constants that satisfies the
assumptions of the modules: any number of windows, workspaces, outputs, any file, any
bound. Hypotheses beyond that are those named here, and each is there because
the code does not have the property without it.

### Induction over loops

Handlers of this code are loops over lists. `Loops` has one operator for a loop along a
sequence (`Along`) and one for a set (`Over`), both the folds of the
community modules with the turn (`Step`) as a parameter of the module, so that a loop is
an instance. `AlongStages` and `OverStages` are induction over the turns: `Stage[k]` is
the set of states that are possible after `k` turns (or after the turns for a set
of elements); when the start is in the first, and every turn leads from each to the next,
the end is in the last. A predicate on the turns is
a function to sets here, so the theorems are cited like any others. They rest on
`LeastNatural`, that a non-empty set of naturals has a least element, and on
well-founded induction over the subsets of a finite set.

### Visibility

`Visibility_proofs` proves, if `FocusFollows`,

* `InductiveInvariant`: `Spec => []IInv`,
* `TypeCorrect`, `NoticeAlwaysOnTheWay`, `AwayIsHidden`: the invariants of
  visibility_all;
* `CopiesAlwaysAgree`: a part of `IInv` that deserves a name, that the three copies of
  a client's state agree;
* `UserUnmapStays`: its action property, `UserUnmapSticks`.

`FocusFollows` is: no key overtakes a FocusIn, or there are at most two
workspaces, or no window can be moved. Without it the theorems are false of the code:
section 3 tells how a window that is moved twice gets lost.

`HiddenWhenAway` is not inductive: it says nothing of clients with unread
notices. `IInv` says what those notices still promise:

* `History`: the unread notices tell how the window got into its present state.
  After the last unmap of a mapped window there is a map; after the last map of
  one that is not mapped there is an unmap; a window that is gone has its
  DestroyNotify at the end.
* `Lag`: where the manager's `mapped` differs from the server's, the notice that
  corrects it is unread.
* `Flags`: the three copies agree; UNMAP_PENDING means the server has unmapped;
  MAP_PENDING means a MapNotify is unread, or the window is gone.
* `Away`: a client of another workspace is never MAPPED.
* `IsInPlace`: a client is in the lists of the workspace it is on.

The proof goes by records. `Core` is what `map_client` and `unmap_client` need and
keep (`MapClientCore`, `UnmapClientCore`); each handler and each action on one client
is shown to lead from a record of the invariant to another (`MapNotifyGood`, ...);
`SetGood` and `AllGood` lift that to the whole state, and `NextIInv` has one step per
action. `UserUnmapStays` needs one fact more, `StayMarked`: what is to stay unmapped still
has `future_unmap_stay_unmapped`, which is what makes `handle_map_request` and
`handle_map_notify` leave it alone.

`MapsInTurn` is about configurations without a restart key and clients that do not
withdraw. Of a window at most one map is unread and at most one unmap, the unmap last
(`InTurn`), and the transition state says which (`Turn`): a map only when it is MAP_PENDING,
an unmap only when it is UNMAP_PENDING or the window is gone. So `handle_unmap_notify`
never meets a client that is in the unmapped list already, which is what `Lists` needs
of the notices.

`ShownAgain` is `ShownWhenHere`, for configurations that bind neither move nor
unmap-workspace and clients that do not withdraw: with a move it is false
(`Visibility_move.cfg`), unmap-workspace marks only the clients of the client list and
unmaps the others as a switch would, but without its mark, and what a withdrawal
does to it is in section 3. Its invariant is `SInv`, which adds to `IInv` and
`StayMarked`

* `Answered`: of a window that is not gone, at most one unmap and one map are unread,
  the unmap first (`Orderly`), and `pending_unmap` counts them; a pending unmap is the
  user's or has `unmapped_from_workspace_switch`, and on the current workspace it is
  the user's or has `map_after_unmap_notify`; a pending map that is to be undone
  (`unmap_after_map_notify`) is one of a client that is elsewhere;
* `ComesBack`: a client of the current workspace that is in the unmapped list and may
  be mapped has its map on the way.

TLC finds both true on the instance of visibility_shown, and `StayMarked` on that of
visibility_all.

### Focus

Three of these are about the same invariant, `Sound`, of the state a handler works on:

* `FocusTypeCorrect`, `FullscreenConsistent`, `StacksWellFormed`: three invariants of
  focus_modes and focus_moves, where no window can be moved.

With the move bound they are false of the code: `Focus_stack.cfg` and
`Focus_fullscreen.cfg` show it. `Sound` says of each record what the stack functions take for granted
(`RecordOK`), that a monitor's fullscreen pointer is a client just when the client
is there and has the flag (`FullOK`), and that the stacks are well formed (`Stacked`). The
link of the stack is in the client, so one function `next` holds the stacks of all
workspaces. `Stacked` has a rank for each client in one, the number of clients
from it to the end: the rank goes down by one along `next`, no two
clients of a workspace have the same, and the head has the counter of the
stack. So a stack ends, has no cycle and no other workspace's clients, for any number
of clients, without an operator that follows links. There is one lemma per
function (what it keeps of `Sound`, and what else it leaves alone) and one per
handler.

* `PointersLive`: no pointer of the manager is left to a client that is gone, of
  focus_modes.

For the stacks and the fullscreen pointer this follows from `Sound`. For the tracked focus it
is a matter of events: FocusIn sets it, FocusOut clears it, both are read long after
they were sent, and `end_manage` clears it only in some cases. `Told`
follows the next event about a client in the
queue: one with the input has no more news (`Silent`); one that a FocusIn on its way
names, or that is tracked, has the input still or loses it (`Loses`), with the FocusOut next
about it, or next after one unmap. So the FocusOut is read before the
UnmapNotify or DestroyNotify that ends the client, or right after an UnmapNotify which does
not end it. That `clear_layout_enter_events` takes keys out from between is one lemma
(`ThinKeeps`): a queue less some keys says the same of every client. TLC
checked `Told` on four configurations, that of focus_modes among them, before it was proved.

`FocusVisibility_proofs` proves, again without moves,

* `FocusImplements`: `Implements` of focus_moves, with `View` as the refinement mapping. Every
  handler and key, with its calls of the focus, the stacks and the geometry between
  those that map and unmap, is a step of Visibility or none.

Focus works on a record with no notices in it and one queue, Visibility on a record with the
client's own notices. `Sees` says that the one record shows the other, with the notices in
the queue before those a handler has just made; each operator of Visibility keeps it
(`MapClientSees`, `LeaveSees`, ...). `Sight` is what Visibility sees of a state a handler
works on. A call is `Quiet` if it leaves the `Sight` alone, as all calls about focus, stack
and geometry do, or `Turns` one client into what Visibility says; a handler is a turn with
quiet calls round it, and a switch a turn of each client of two workspaces.

That leaves what Visibility takes for granted of the focus, `FocusMayBe`: unmap-window may
meet no focus that is in the unmapped list. The UnmapNotify that puts it there is
read before the FocusOut that takes the focus from it. `OutFirst` says that such a
focus has its FocusOut at the head of the queue, so that no key is read before it. It rests on
`Paired` and `LastKept` (`Coupled`): the FocusOut that is the next event about a window after its
UnmapNotify is right behind it, whatever other windows do, because the server sends the
two together, and the window with the input has no unmap as the last news of it. `Linked` is the
invariant of all this, `Sound` and `Told` included. The theorem needs no fairness, and none
is in `Implements`.

### Lists

`Places_proofs` begins with one list of tiled windows, and proves for every list
without repetition

* `PutBack`: a client that leaves a list and is put back at the position it took
  along restores the list, the list being as it was;
* `OthersUndisturbed`: put back at any position, right or stale, it is in the
  list once and the others are as they were;
* `LastOutFirstIn`: two clients that leave and come back in the opposite order are
  where they were, which is `PutBack` twice.

They rest on two facts about sequences, `RemoveAtIs` and `InsertAtIs`, which say
which element the result has at each index, and on `ReattachIs`: the three
branches of `Reattach` are one insertion. These are the facts behind `OrderSurvives`.

`Lists_proofs` then proves of all the lists of all the workspaces, for any number of windows,
workspaces and unread events, for a hurried user too, if toggle-persistent is not bound,

* `ListsTyped`, `AlwaysInOneList`, `FlagsAlwaysName`: the invariants of lists_order and
  lists_modes;
* `ModesSurvive`: the action property of lists_modes, that a window changes between
  tiled, floating and minimized only by the keys that are there for it;
* `ListsImplement`: `Implements`, every step on the lists is a step of Visibility or
  none, with `View` as the refinement mapping.

The hypothesis is needed, for two reasons. A switch that takes persistent windows along
moves clients from one workspace's lists to another's, which no step of Visibility
does. And the invariant is false with the key bound: a persistent window that the user
has unmapped gets the new workspace as its `on_workspace`
(monitor_change_client_state_after_move), while move_client_to_monitor leaves its record in the
unmapped list of the old one, so the client is no longer where its Client struct
says. TLC finds both in eight steps of one window, the second with a patient user too. That
`TypeOK` and `InExactlyOneList` hold with the key bound is left to lists_order.

The invariant is `ListsInv`, of three parts.

* `Good`: every managed client is `Placed`, in one list of one workspace, by one
  entry (`Home`), and its flags and the entry's origin fit the list (`Fits`); no other
  client has an entry anywhere; no list has a client twice.
* `IInv` of Visibility, of the `View`. The lists need `IsInPlace`, that a client
  is in the lists of the workspace its Client struct says: a handler looks there, and does
  nothing if it finds nothing.
* `AllInTurn` of Visibility, of the `View`: an UnmapNotify is unread only of a client that
  is not in the unmapped list yet, so that no second record is made. This is
  `MapsInTurn` of `Visibility_proofs`.

`Good` is not inductive without the other two, and those are about Visibility's steps, of
which the steps of `Lists` must first be shown to be some, which in turn takes `Good`. So
the three are proved together: from `ListsInv`, a step keeps `Good` and is a step of
Visibility on the `View` (`NextFollows`); Visibility keeps its own (`NextInv`).

The argument is about one client at a time. Each operation on lists moves one client from a
`Home` to a `Home`, and touches nobody else's (`Moved`, `Touches`). `Seen` is the
record Visibility has of a client in a state, `Stepped` says that an operation is the
one of Visibility on one client's record and leaves the others' as they were. A walk
through a list is a loop of these, where each client must be met once and be found
where the walk began; the stages of `Loops` are the sets of states in which those
behind are done and those ahead untouched (`Turns`, `Modes`). What the queue holds of a
client is a walk too (`Course`, a function on the prefixes of the queue). Keys that
rearrange windows within a workspace change no `View` at all (`Rearranged`).

### Monitors and Screens

* `UpdateMonitorsFollows`: whatever outputs have come and gone together,
  `update_monitors` leaves every workspace with the monitors there are, in one order,
  and every client in the list it was in, on one monitor. Removed monitors are
  absorbed one by one while the list shrinks, which is the induction: a
  stage says which of the names are gone and which clients are held.

`Screens_proofs` proves by one invariant without further hypothesis (`TypeInvariant`)

* `ScreensTypeCorrect`;
* `MonitorsFollowServer`: `FollowsServer`, all workspaces have the monitors of the
  last update, which are the outputs when the last event about them is read;
* `MonitorsHaveNeighbours`: `NeighbourIsNearest`, for any number of outputs in any places;

and by the invariant `Inv` (`ScreensInvariant`) under the hypothesis `[][~TogglesAway]_vars`

* `ClientsHeldOnce`, `DragsHaveGrab`, `ClientsKeepMonitor`: three other properties of the
  run screens;
* `FloatersStayInReach`, the fourth, where besides the outputs of every layout are `Filled`
  and borders are not 0 wide.

`TogglesAway` is the one step after which the four are false, and which screens_float
shows: toggle-float pressed for a floating window whose corner is on no monitor on
record takes it off its list and puts it nowhere. It is a step of the code, not an
impossible one: it can happen with outputs of different heights, and after a RandR event with
any two outputs, the records being a staircase then. The theorems say that it is the
only one: every other step, and this one for any other window, keeps the four,
whatever outputs come and go and whatever is bound.

`Filled` says that the outputs fill the rectangle around them, and that the corner
(Gap, Gap), where a window out of bounds is put, is on one. floater_in_bounds knows only the
rectangle: a window it lets pass shows on an output only if no part of the rectangle is
bare. With no border a window at the edge shows nothing. What the theorem then says of
windows is about the server's outputs, in states with true records (`Accurate`).

`Inv` adds to the types what each state of
a window says of the lists: a client is in place, in the list its `mode` names on one monitor
of the workspace it is on, unless it is "out"; one that is coming or mapped is on
the current workspace; only a floating one is dragged, and the pointer grab is its. A
change of outputs and a handler can then be taken apart: the one keeps what each list
holds, the other keeps the monitors.

### Config

* `ParserReadsOn`: whatever is in the file, each step of the parser goes on in it,
  leaves a block, or ends. With the checks for deadlock of the run config it says that
  parse_config ends. It is by cases over the parse functions: each ends where one of its
  `Check`s says, and all these places are after the token the step began at
  (`OnwardAll`).

### Only model-checked

* `PendingSettles` (liveness), and the refinement `Implements` of `Focus` where windows can
  be moved.
* `TrackedIsInput`, `FocusIsPassedOn` of `Focus`: `Linked` says that a focus that is lost
  will be told, not that one that is got will be believed, and nothing of the counters of
  mapped windows.
* `OrderSurvives` of `Lists`, for a patient user: what is proved is its core,
  `LastOutFirstIn`, of two clients and one list. `Lists` with toggle-persistent.
* `Tiling` takes steps back until the tiles fit by RECURSIVE operators, which the
  prover cannot be used with; `MotionTree` is checked by its properties.
* `ReadAsWritten` of `MCConfig`: it compares the parser with another reading of the whole
  file, and allows for what an error takes along.

## 10. Not modelled

* Thin wrappers round Xlib, colours, cursors, logging and the workspace pipe have no
  state whose order matters.
* Of ICCCM and EWMH only the desktop of a window and the current desktop; size
  hints, window types and protocols are read once and written once.
* Characters: the lexer's buffer and the string type. Their loops are over bytes, and
  the parser sees tokens.
* Key grabs (keyboard.c 123-206) and the change of the keyboard mapping.
* The focus among floating windows (fs_next_non_floating and its neighbours).
* Memory beyond the pointers named above: freeing at exit and at a restart.
* What section 7 assumes away: no primary output.
