------------------------------ MODULE Monitors ------------------------------
(***************************************************************************)
(* The monitors of a workspace (monitors.c, monitor.c).  Every workspace   *)
(* has its own sequence of monitors, one for each output of the screen and *)
(* with the same name, and each monitor holds clients in five lists.  Who  *)
(* is in which list is told here, not the order (which is in Lists).       *)
(*                                                                         *)
(* The functions of the code take and return pointers to monitors; here    *)
(* they are positions in the sequence, and 0 is NULL.                      *)
(***************************************************************************)
EXTENDS Integers, Sequences, SequencesExt

CONSTANTS
  Names,                 (* the atoms that name outputs *)
  NoName                 (* the atom None               *)

ASSUME NamesAssumption == NoName \notin Names

(* What RandR says of the outputs there are: they have names of their own, *)
(* and the one called p is the primary one.                                *)
Output == [name : Names, primary : BOOLEAN, x : Int, y : Int, w : Nat, h : Nat]

AreOutputs(p, info) ==
  /\ info \in Seq(Output)
  /\ \A i \in 1..Len(info) : info[i].primary <=> info[i].name = p
  /\ \A i, j \in 1..Len(info) : info[i].name = info[j].name => i = j
  /\ \E i \in 1..Len(info) : info[i].name = p

Kinds == {"cl", "fl", "ml", "ul", "dl"}

Nobody == [l \in Kinds |-> {}]

(* create_monitor; o is what RandR says of an output.                      *)
CreateMonitor(o) ==
  [name |-> o.name, primary |-> o.primary, x |-> o.x, y |-> o.y, w |-> o.w, h |-> o.h,
   holds |-> Nobody]

WithName(ms, name) ==
  IF name = NoName THEN 0 ELSE SelectInSeq(ms, LAMBDA m : m.name = name)

(* get_monitor_from_list_membership                                        *)
Holder(ms, c) == SelectInSeq(ms, LAMBDA m : \E l \in Kinds : c \in m.holds[l])

(* get_monitor_from_position: both edges belong to the monitor.            *)
AtPosition(ms, x, y) ==
  SelectInSeq(ms, LAMBDA m : x \in m.x .. m.x + m.w /\ y \in m.y .. m.y + m.h)

-----------------------------------------------------------------------------
(* The corners of the rectangle around all monitors of ms.                 *)

All(ms) == {ms[i] : i \in DOMAIN ms}

SmallestX(ms) == IF ms = <<>> THEN 0 ELSE Min({m.x : m \in All(ms)})
SmallestY(ms) == IF ms = <<>> THEN 0 ELSE Min({m.y : m \in All(ms)})
LargestX(ms)  == IF ms = <<>> THEN 0 ELSE Max({m.x + m.w : m \in All(ms)})
LargestY(ms)  == IF ms = <<>> THEN 0 ELSE Max({m.y + m.h : m \in All(ms)})

-----------------------------------------------------------------------------
(* get_adjacent_monitor: the loop, which keeps the best so far.  The main  *)
(* concern is a coordinate times sign, which turns left into right and up  *)
(* into down; the sub concern is the other coordinate.                     *)

Abs(n) == IF n < 0 THEN -n ELSE n

Along(m, main, sign) == sign * m[main]
Aside(m, n, sub)     == Abs(m[sub] - n[sub])

(* e is the search: from ms[e.k], by the coordinates main and sub.         *)
(* Variant: the monitor does not have to be beyond the one left.           *)
BetterAnywhere(e, best, i) ==
  LET at(j)  == Along(e.ms[j], e.main, e.sign)
      off(j) == Aside(e.ms[j], e.ms[e.k], e.sub)
  IN IF i = e.k THEN best
     ELSE IF best # 0 /\ at(i) = at(best) THEN IF off(i) < off(best) THEN i ELSE best
     ELSE IF best = 0 \/ at(i) < at(best) THEN i ELSE best

Better(e, best, i) ==
  LET at(j)  == Along(e.ms[j], e.main, e.sign)
      off(j) == Aside(e.ms[j], e.ms[e.k], e.sub)
  IN IF i = e.k THEN best
     ELSE IF best # 0 /\ at(i) = at(best) THEN IF off(i) < off(best) THEN i ELSE best
     ELSE IF at(i) > at(e.k) /\ (best = 0 \/ at(i) < at(best)) THEN i ELSE best

Search == INSTANCE Loops WITH Step <- Better

Adjacent(ms, k, main, sub, sign) ==
  Search!Along([ms |-> ms, k |-> k, main |-> main, sub |-> sub, sign |-> sign],
               0, [i \in DOMAIN ms |-> i])

Directions == {"right", "left", "below", "above"}

Neighbour(ms, k, direction) ==
  CASE direction = "right" -> Adjacent(ms, k, "x", "y", 1)
    [] direction = "left"  -> Adjacent(ms, k, "x", "y", -1)
    [] direction = "below" -> Adjacent(ms, k, "y", "x", 1)
    [] direction = "above" -> Adjacent(ms, k, "y", "x", -1)

-----------------------------------------------------------------------------
(* move_client_to_monitor_with_position: the first monitor that has most   *)
(* of the rectangle b, or own when b touches none.                         *)

Overlap(m, b) ==
  LET w == Min({m.x + m.w, b.x + b.w}) - Max({m.x, b.x})
      h == Min({m.y + m.h, b.y + b.h}) - Max({m.y, b.y})
  IN [touches |-> w >= 0 /\ h >= 0, area |-> w * h]

MostOf(ms, b, own) ==
  LET k == SelectInSeq(ms, LAMBDA m :
             /\ Overlap(m, b).touches
             /\ \A n \in All(ms) : Overlap(n, b).touches
                                     => Overlap(n, b).area <= Overlap(m, b).area)
  IN IF k # 0 THEN k ELSE own

-----------------------------------------------------------------------------
(* A monitor goes: another takes over its clients.                         *)

(* Variant: the clients that are unmapped stay behind.                     *)
AbsorbShown(to, from) ==
  [to EXCEPT !.holds = [l \in Kinds |-> @[l] \cup (IF l = "ul" THEN {} ELSE from.holds[l])]]

Absorb(to, from) == [to EXCEPT !.holds = [l \in Kinds |-> @[l] \cup from.holds[l]]]

(* The choice of monitors_absorb_monitor for monitor k: the primary one;   *)
(* if it is the one that goes, the monitor with the pointer; if that is    *)
(* the one that goes, the first of the others.  A NULL is not replaced.    *)
AbsorberOf(ms, k, pointer) ==
  LET primary == SelectInSeq(ms, LAMBDA m : m.primary)
      under   == AtPosition(ms, pointer.x, pointer.y)
  IN IF primary # k THEN primary
     ELSE IF under # k THEN under
     ELSE IF k # 1 THEN 1
     ELSE IF Len(ms) > 1 THEN 2 ELSE 0

(* remove_monitor_from_workspaces, in one workspace.  When nobody absorbs, *)
(* add_monitor_to_save puts the clients into a new monitor, which is added *)
(* to the monitors in use, without a name and of no size.                  *)
RemoveMonitor(ms, name, pointer) ==
  LET k     == WithName(ms, name)
      a     == AbsorberOf(ms, k, pointer)
      saved == CreateMonitor([name |-> NoName, primary |-> FALSE,
                              x |-> 0, y |-> 0, w |-> 0, h |-> 0])
  IN IF k = 0 THEN ms
     ELSE RemoveAt(IF a # 0 THEN [ms EXCEPT ![a] = Absorb(@, ms[k])]
                            ELSE Append(ms, Absorb(saved, ms[k])), k)

(* What find_removed_monitor looks at: it ends at a monitor without name.  *)
Named(ms) ==
  LET stop == SelectInSeq(ms, LAMBDA m : m.name = NoName)
  IN [i \in 1 .. IF stop = 0 THEN Len(ms) ELSE stop - 1 |-> ms[i].name]

(* Variant: only the first workspace loses the monitor.                    *)
UnplugFirst(e, all, name) ==
  IF WithName(e.info, name) # 0 THEN all
  ELSE [all EXCEPT ![e.first] = RemoveMonitor(@, name, e.pointer)]

(* The loop on find_removed_monitor: a monitor that is no output goes from *)
(* all workspaces.                                                         *)
Unplug(e, all, name) ==
  IF WithName(e.info, name) # 0 THEN all
  ELSE [w \in DOMAIN all |-> RemoveMonitor(all[w], name, e.pointer)]

UnplugAll == INSTANCE Loops WITH Step <- Unplug

(* The loop on find_new_monitor: an output that is no monitor is one more  *)
(* in all workspaces.                                                      *)
Plug(e, all, o) ==
  IF WithName(all[e.first], o.name) # 0 THEN all
  ELSE [w \in DOMAIN all |-> Append(all[w], CreateMonitor(o))]

PlugAll == INSTANCE Loops WITH Step <- Plug

(* monitors_update_internal_data.  The y it stores is the x of the output. *)
UpdateInternalData(ms, info) ==
  [i \in DOMAIN ms |->
     LET k == WithName(info, ms[i].name)
     IN IF k = 0 THEN ms[i]
        ELSE [ms[i] EXCEPT !.x = info[k].x, !.y = info[k].x, !.w = info[k].w,
                           !.h = info[k].h, !.primary = info[k].primary]]

(* update_monitors.  What has come and gone is looked up in the monitors   *)
(* of the first workspace and done in all.                                 *)
UpdateMonitors(all, first, info, pointer) ==
  LET e    == [first |-> first, info |-> info, pointer |-> pointer]
      kept == UnplugAll!Along(e, all, Named(all[first]))
      full == PlugAll!Along(e, kept, info)
  IN [w \in DOMAIN all |-> UpdateInternalData(full[w], info)]

=============================================================================
