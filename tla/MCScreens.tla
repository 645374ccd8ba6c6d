----------------------------- MODULE MCScreens -----------------------------
(***************************************************************************)
(* Screens, instantiated by the Screens_*.cfg configurations: outputs of   *)
(* 12 by 8, in a row, and once in a square.  A is the primary output.      *)
(***************************************************************************)
EXTENDS Screens

Sized(name, x, y) == [name |-> name, primary |-> name = "A", x |-> x, y |-> y, w |-> 12, h |-> 8]

A == Sized("A", 0, 0)
B == Sized("B", 12, 0)
C == Sized("C", 24, 0)
D == Sized("D", 12, 8)
E == Sized("E", 0, 8)

(* Outputs come and go, several at once; the primary one stays.            *)
Plugging == [windows  |-> {"tiled", "float"},
             layouts  |-> {<<A>>, <<A, B, C>>},
             bindings |-> {"switch", "move", "move_win", "drag", "restart"}]

(* The same with a panel, which is on B when there is a B.                 *)
Panel == [windows  |-> {"tiled", "dock"},
          layouts  |-> {<<A>>, <<A, B>>, <<A, C>>},
          bindings |-> {"switch", "move", "move_win", "minimize", "restart"}]

(* A row of two: windows float, are moved over to the other one and stop   *)
(* floating there.                                                         *)
Floating == [windows  |-> {"tiled", "float"},
             layouts  |-> {<<A, B>>},
             bindings |-> {"move", "move_win", "minimize", "float", "motion", "restart",
                           "drag", "mouse_resize"}]

Square == [windows  |-> {"tiled"}, layouts |-> {<<A, D, B, E>>},
           bindings |-> {"move_win", "switch"}]

(* The smaller output is aligned with the bottom of the other.             *)
F == [Sized("F", 12, 4) EXCEPT !.h = 4]

Uneven == [windows |-> {"tiled", "float"}, layouts |-> {<<A, F>>},
           bindings |-> {"float", "motion"}]

MCUneven == {Uneven}

(* A row of two, and windows that are toggled.                             *)
Toggled == [windows |-> {"tiled", "float"}, layouts |-> {<<A>>, <<A, B>>},
            bindings |-> {"float", "move_win"}]

MCToggled == {Toggled}

(* A second output is plugged in, on the right of the first.               *)
Beside == [windows |-> {"tiled"}, layouts |-> {<<A>>, <<A, B>>}, bindings |-> {"move_win"}]

MCBeside == {Beside}

MCSetups == {Plugging, Panel, Floating, Square}

MCSteps == {[x |-> 12, y |-> 0], [x |-> -12, y |-> 0], [x |-> 0, y |-> -2]}

MCDockBox == [x |-> 12, y |-> 0, w |-> 12, h |-> 1]

MCWorkspaces == 0..1

MCClients == {"tiled", "float", "dock"}
=============================================================================
