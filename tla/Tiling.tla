------------------------------- MODULE Tiling -------------------------------
(***************************************************************************)
(* Where the windows of a monitor are: geometry.c.  arrange_monitor takes  *)
(* the struts of the docks and the strip of the minimized windows off the  *)
(* monitor and tiles the rest, by one of nine layouts; every tile keeps    *)
(* how often it was resized in each direction, and the layout takes back   *)
(* the steps it cannot honour.  A change of focus or of mode changes the   *)
(* border of a tile, and its size so that the two add up as before.        *)
(*                                                                         *)
(* One workspace with one monitor, and no floating windows (Screens has    *)
(* more of either).  A request for the focus and the events that answer it *)
(* are one step, as are a key and all it does; what comes between them is  *)
(* in Focus.  Whom the focus goes to when it is passed on is any client.   *)
(* An unmap of the manager's and its notice are two steps: a tile that is  *)
(* on its way out still has its place in the list.                         *)
(***************************************************************************)
EXTENDS Integers, Sequences, FiniteSets, FiniteSetsExt, TLC

CONSTANTS
  Clients,       (* top-level windows                                      *)
  Root, None, Freed,
  IntMax,        (* INT_MAX                                                *)
  X, Y, W, H,    (* the monitor                                            *)
  RootW, RootH,  (* the screen it is a part of                             *)
  Unfocused, Focused, Resized, Shrunk, Stacked, Full,   (* border widths   *)
  Gap, GapInc, ResizeInc, Space,     (* Space is space-between-monocle     *)
  StripHeight, StripInc,             (* the height of minimized windows    *)
  Layouts,       (* those bound to a key, the first one is the default     *)
  Positions,     (* those of the strip that are bound to a key             *)
  Docks,         (* struts: [side, size, from, to]                         *)
  Places,        (* positions in the list that windows are mapped at       *)
  Bindings,      (* what this configuration binds                          *)
  MaxPresses,    (* bound: what the user does to windows                   *)
  MaxChanges     (* bound: changes of layout, strip, gap and docks         *)

VARIABLES
  tile,          (* of each client: its place on the screen and its steps  *)
  cl, ml,        (* the tiled and the minimized clients of the monitor     *)
  kids,          (* the motion tree                                        *)
  desk,          (* the other fields of the monitor and of geometry        *)
  presses, changes

vars == <<tile, cl, ml, kids, desk, presses, changes>>

L == INSTANCE ClientList
M == INSTANCE MotionTree

Tile == [x : Int, y : Int, w : Int, h : Int, bw : Nat,
         down : Nat, up : Nat, left : Nat, right : Nat,
         mapped : BOOLEAN, leaving : BOOLEAN, resize : BOOLEAN]

Fresh == [x |-> 0, y |-> 0, w |-> 1, h |-> 1, bw |-> 0,
          down |-> 0, up |-> 0, left |-> 0, right |-> 0,
          mapped |-> FALSE, leaving |-> FALSE, resize |-> FALSE]

(* A handler is a sequence of calls: operators on the record of all        *)
(* variables but the counters.  status tells what became of the manager:   *)
(* "hangs" in a loop that does not end, "wild" after a read of a freed     *)
(* record.                                                                 *)
Now == [tile |-> tile, cl |-> cl, ml |-> ml, kids |-> kids, desk |-> desk]

Become(s) == /\ tile' = s.tile /\ cl' = s.cl /\ ml' = s.ml
             /\ kids' = s.kids /\ desk' = s.desk

Ends(s, status) == [s EXCEPT !.desk.status = status]

(* One call after another: f of what s has come to, evaluated once.        *)
Then(s, f(_)) == CHOOSE r \in {f(t) : t \in {s}} : TRUE

-----------------------------------------------------------------------------
(* Limits and borders.                                                     *)

Least == 20                            (* get_min_width, get_min_height    *)
Greatest(side) == (9 * (IF side = "w" THEN W ELSE H)) \div 10
SpaceBetween == 2                      (* in reconcile_minimized           *)
MinGap == Gap                          (* set_min_gap_while_policing       *)

Up(s, c) == s.tile[c].mapped /\ ~s.tile[c].leaving     (* is_client_mapped *)

Shrunken(s, c) == \E i \in DOMAIN s.ml : s.ml[i].of = c

InMonocleStack(s, c) ==
  \/ s.desk.layout = "monocle"
  \/ s.desk.layout \in {"left monocle", "right monocle"} /\ L!Position(s.cl, c) > 1

Border(s, c) ==
  CASE s.desk.full = c       -> Full
    [] Shrunken(s, c)        -> Shrunk
    [] s.tile[c].resize      -> Resized
    [] InMonocleStack(s, c)  -> Stacked
    [] s.desk.focus # c      -> Unfocused
    [] OTHER                 -> Focused

(* Variant: any gap is taken.                                              *)
SetGapAsIs(s, g) == IF g < 0 THEN s ELSE [s EXCEPT !.desk.gap = g]

(* set_gap: an odd gap is made even, away from the one before.             *)
SetGap(s, g) ==
  IF g < 0 THEN s
  ELSE [s EXCEPT !.desk.gap = IF g % 2 = 0 THEN g ELSE IF g >= @ THEN g + 1 ELSE g - 1]

(* configure_client.                                                       *)
Configure(s, c, x, y, w, h) ==
  IF ~Up(s, c) THEN s
  ELSE IF s.desk.full = c
    THEN [s EXCEPT !.tile[c] = [@ EXCEPT !.x = X, !.y = Y, !.bw = Full,
                                         !.w = W - 2 * Full, !.h = H - 2 * Full]]
    ELSE [s EXCEPT !.tile[c] = [@ EXCEPT !.x = x, !.y = y, !.w = w, !.h = h,
                                         !.bw = Border(s, c)]]

(* Variant: a wider border makes the window larger.                        *)
ReborderOnly(s, c, least) == [s EXCEPT !.tile[c].bw = Border(s, c)]

(* The size of a tile and its border is kept, the border is the new one.   *)
Reborder(s, c, least) ==
  LET t == s.tile[c]
      b == Border(s, c)
      size(n) == Max({least, n + 2 * t.bw - 2 * b})
  IN [s EXCEPT !.tile[c] = [t EXCEPT !.w = size(t.w), !.h = size(t.h), !.bw = b]]

-----------------------------------------------------------------------------
(* Equal tiles side by side or one below the other.                        *)

(* Along a direction: the size and the place of a tile, and the steps that *)
(* make it larger and smaller.                                             *)
Along(dir) == IF dir = "row"
                THEN [size |-> "w", at |-> "x", more |-> "right", less |-> "left"]
                ELSE [size |-> "h", at |-> "y", more |-> "down", less |-> "up"]

(* Variants: nobody gets what is left over, in the sizes or in the places. *)
ShareFloor(total, k, n) == total \div n

BeforeFloor(total, k, n) == (k - 1) * (total \div n)

(* get_true_width_for_minimized, simple_get_resize_share_size: n neighbours *)
(* share what is to be divided, the first ones a pixel more than the last; *)
(* a share of what is negative is the opposite, and Breaks asks for number *)
(* 0, which has the share of the first.                                    *)
Share(total, number, n) ==
  LET k == Max({1, number})
  IN IF total >= 0 THEN (total + n - k) \div n ELSE -((n - k - total) \div n)

(* The shares of those before the k-th.                                    *)
Before(total, k, n) ==
  LET first(t) == (k - 1) * (t \div n) + Min({k - 1, t % n})
  IN IF total >= 0 THEN first(total) ELSE -first(-total)

(* simple_initial_default_configure: the positions and sizes of a row or a *)
(* column of equal tiles.                                                  *)
EqualTiles(s, dir, tiles, a) ==
  LET n == Len(tiles)
      g == s.desk.gap
      placed(t, k) ==
        LET b == 2 * Border(s, tiles[k]) IN
        IF dir = "row"
        THEN [t EXCEPT !.x = a.x + g + Before(a.w - g, k, n), !.y = a.y + g,
                       !.w = Share(a.w - g, k, n) - g - b, !.h = a.h - 2 * g - b]
        ELSE [t EXCEPT !.x = a.x + g, !.y = a.y + g + Before(a.h - g, k, n),
                       !.w = a.w - 2 * g - b, !.h = Share(a.h - g, k, n) - g - b]
  IN [s EXCEPT !.tile = [c \in Clients |->
        IF L!In(tiles, c)
          THEN [placed(@[c], L!Position(tiles, c)) EXCEPT !.bw = Border(s, c)] ELSE @[c]]]

(* The setters of the steps clamp at zero.                                 *)
Fewer(t, f) == [t EXCEPT ![f] = Max({0, @ - 1})]

Growth(t, d) == ResizeInc * (t[d.more] - t[d.less])

(* simple_get_horizontal_resize, simple_get_vertical_resize: the steps     *)
(* that would make the tile larger or smaller than a tile may be go first. *)
RECURSIVE Trimmed(_, _)
Trimmed(t, d) ==
  LET size == t[d.size] + Growth(t, d) IN
  IF size > Greatest(d.size) /\ t[d.more] > 0 THEN Trimmed(Fewer(t, d.more), d)
  ELSE IF size < Least /\ t[d.less] > 0 THEN Trimmed(Fewer(t, d.less), d)
  ELSE t

(* Variants: that a neighbour gets too small is not looked at, or answered *)
(* with a step the wrong way.                                              *)
BreaksTooLarge(s, tiles, i, d) ==
  LET inc == Growth(s.tile[tiles[i]], d)
      n   == Len(tiles) - i
      bad == {k \in i..Len(tiles) :
                s.tile[tiles[k]][d.size] - Share(inc, k - i, n) > Greatest(d.size)}
  IN IF inc = 0 \/ bad = {} THEN [of |-> 0, step |-> "none"] ELSE [of |-> Min(bad), step |-> d.less]

BreaksOtherWay(s, tiles, i, d) ==
  LET inc == Growth(s.tile[tiles[i]], d)
      n   == Len(tiles) - i
      bad == {k \in i..Len(tiles) : s.tile[tiles[k]][d.size] - Share(inc, k - i, n) < Least}
  IN IF inc = 0 \/ bad = {} THEN [of |-> 0, step |-> "none"] ELSE [of |-> Min(bad), step |-> d.less]

(* simple_adjust_on_resize_breaks_other_stackees: the first of the tiles   *)
(* from number i on that could not give its share; 0 for none.             *)
Breaks(s, tiles, i, d) ==
  LET inc == Growth(s.tile[tiles[i]], d)
      n   == Len(tiles) - i
      left(k) == s.tile[tiles[k]][d.size] - Share(inc, k - i, n)
      bad == {k \in i..Len(tiles) : left(k) < Least \/ left(k) > Greatest(d.size)}
  IN IF inc = 0 \/ bad = {} THEN [of |-> 0, step |-> "none"]
     ELSE [of |-> Min(bad), step |-> IF left(Min(bad)) < Least THEN d.more ELSE d.less]

(* The loop of simple_adjust_stackees: it does not end when no step is     *)
(* left to take back.                                                      *)
RECURSIVE Settled(_, _, _, _)
Settled(s, tiles, i, d) ==
  LET t == [s EXCEPT !.tile[tiles[i]] = Trimmed(@, d)]
      b == Breaks(t, tiles, i, d)
  IN IF b.of = 0 THEN t
     ELSE IF t.tile[tiles[i]][b.step] = 0 THEN Ends(t, "hangs")
     ELSE Settled([t EXCEPT !.tile[tiles[i]] = Fewer(@, b.step)], tiles, i, d)

(* simple_reconfigure_stackees: the neighbours move and give their shares. *)
Shared(s, tiles, i, d) ==
  LET inc == Growth(s.tile[tiles[i]], d)
      n   == Len(tiles) - i
      new(c, k) ==
        CASE k = 0 -> [s.tile[c] EXCEPT ![d.size] = @ + inc]
          [] k > 0 -> [s.tile[c] EXCEPT ![d.at] = @ + inc - Before(inc, k, n),
                                        ![d.size] = @ - Share(inc, k, n)]
          [] OTHER -> s.tile[c]
  IN [s EXCEPT !.tile = [c \in Clients |->
        IF L!In(tiles, c) THEN new(c, L!Position(tiles, c) - i) ELSE @[c]]]

Adjusted(s, dir, tiles) ==
  LET d == Along(dir)
      ok(t) == t.desk.status = "ok"
      one(t, i) == Then(Settled(t, tiles, i, d),
                        LAMBDA u : IF ok(u) THEN Shared(u, tiles, i, d) ELSE u)
  IN L!FoldLeft(LAMBDA t, i : IF ok(t) THEN one(t, i) ELSE t, s,
                [i \in 1..(Len(tiles) - 1) |-> i])

(* configure_client with what the tile holds already.                      *)
ConfigureAll(s, tiles) ==
  [s EXCEPT !.tile = [c \in Clients |->
     LET r == @[c] IN IF L!In(tiles, c) THEN Configure(s, c, r.x, r.y, r.w, r.h).tile[c] ELSE r]]

(* fast_tile, for a tile that is alone in its area.                        *)
Alone(s, c, a) ==
  LET g == s.desk.gap
      b == Border(s, c)
  IN Then([s EXCEPT !.tile[c] = [@ EXCEPT !.x = a.x + g, !.y = a.y + g, !.bw = b,
                                          !.w = a.w - 2 * g - 2 * b,
                                          !.h = a.h - 2 * g - 2 * b],
                    !.kids = M!InsertBelow(@, Root, c)],
          LAMBDA t : ConfigureAll(t, <<c>>))

(* simple_tile.                                                            *)
Simple(s, dir, tiles, a) ==
  LET k == IF dir = "row" THEN M!InsertAll(s.kids, tiles) ELSE M!InsertChain(s.kids, tiles)
  IN Then(Then([EqualTiles(s, dir, tiles, a) EXCEPT !.kids = k],
               LAMBDA t : Adjusted(t, dir, tiles)),
          LAMBDA t : ConfigureAll(t, tiles))

(* tile_monocle_custom: one over the other, each a little lower.           *)
Monocle(s, tiles, a) ==
  LET g == s.desk.gap
      b == Border(s, tiles[1])
      card(t, k) == [t EXCEPT !.x = a.x + g, !.y = a.y + g + (k - 1) * Space,
                              !.w = a.w - 2 * g - 2 * b, !.bw = Stacked,
                              !.h = a.h - 2 * g - 2 * b - (k - 1) * Space]
  IN Then([s EXCEPT !.tile = [c \in Clients |->
                       IF L!In(tiles, c) THEN card(@[c], L!Position(tiles, c)) ELSE @[c]],
                    !.kids = M!InsertChain(@, tiles)],
          LAMBDA t : ConfigureAll(t, tiles))

-----------------------------------------------------------------------------
(* A master beside the rest, which is tiled as "rest" says.                *)

(* The loop of get_master_geometry over stackee_hor_resize_breaks_master:  *)
(* the steps of the stack toward the master are made more or fewer until   *)
(* what they leave of its width is within the limits.  The loop does not   *)
(* end when a step leads from one side of the limits to the other.         *)
Fitted(width, toward, away) ==
  LET left  == width - ResizeInc * (toward - away)
      steps(excess) == -((-excess) \div ResizeInc)          \* rounded up
      new   == IF left > Greatest("w") THEN toward + steps(left - Greatest("w"))
               ELSE IF left < Least THEN toward - steps(Least - left) ELSE toward
  IN CASE left \in Least..Greatest("w") -> [ends |-> TRUE, toward |-> toward]
       [] ResizeInc = 0 -> [ends |-> FALSE, toward |-> toward]
       [] OTHER -> [ends |-> width - ResizeInc * (new - away) \in Least..Greatest("w"),
                    toward |-> new]

(* get_master_geometry: the state after it has taken steps back and made   *)
(* those of the stack equal, and the widths of the master and of the rest. *)
(* For a width beyond a limit the master gives one step back, however many *)
(* it would take.                                                          *)
MasterGeometry(s, side, tiles, a) ==
  LET m      == s.tile[tiles[1]]
      grow   == IF side = "left" THEN "right" ELSE "left"
      shrink == side
      half   == a.w \div 2 - (s.desk.gap + 2 * Border(s, tiles[1]))
      asked  == ResizeInc * (m[grow] - m[shrink])
      big    == half + asked > Greatest("w")
      lower  == asked - IF big THEN ResizeInc ELSE 0
      small  == half + lower < Least
      growth == lower + IF small THEN ResizeInc ELSE 0
      m1     == IF big THEN Fewer(m, grow) ELSE m
      m2     == IF small THEN Fewer(m1, shrink) ELSE m1
      most(f) == Max({s.tile[tiles[i]][f] : i \in 2..Len(tiles)})
      fit    == Fitted(half + growth, most(shrink), most(grow))
      taken  == ResizeInc * (fit.toward - most(grow))
      made(c) == IF c = tiles[1] THEN m2
                 ELSE [s.tile[c] EXCEPT ![shrink] = Max({0, fit.toward}), ![grow] = most(grow)]
  IN [state |-> IF fit.ends
                  THEN [s EXCEPT !.tile = [c \in Clients |-> IF L!In(tiles, c) THEN made(c) ELSE @[c]]]
                  ELSE Ends(s, "hangs"),
      width |-> half + growth - taken,
      rest  |-> a.w \div 2 - growth + taken]

(* configure_master_and_insert.                                            *)
MasterPlaced(s, side, c, width, a) ==
  LET g == s.desk.gap
      b == 2 * Border(s, c)
      x == IF side = "left" THEN a.x + g ELSE a.x + a.w - width - g - b
      t == Configure(s, c, x, a.y + g, width, a.h - 2 * g - b)
  IN [t EXCEPT !.kids = M!InsertBelow(@, Root, c)]

(* The layout of what is beside the master.                                *)
Side(layout) == IF layout \in {"left", "left monocle", "left left"} THEN "left" ELSE "right"

Rest(layout) ==
  CASE layout \in {"left", "right"}                 -> "column"
    [] layout \in {"left monocle", "right monocle"} -> "monocle"
    [] layout = "left left"   -> "left"
    [] layout = "right right" -> "right"

RECURSIVE Laid(_, _, _, _)

(* tile_master_custom: the rest is laid out as Rest says.  On the left the *)
(* master is placed first, and the rest begins where the client then is:   *)
(* elsewhere when it is fullscreen, or was not configured because it is on *)
(* its way out.                                                            *)
Master(s, layout, tiles, a) ==
  LET m == tiles[1]
      side == Side(layout)
      placed(t, g) == MasterPlaced(t, side, m, g.width, a)
      beside(t, g) == [x |-> t.tile[m].x + 2 * Border(t, m) + g.width,
                       y |-> t.tile[m].y - t.desk.gap, w |-> g.rest, h |-> a.h]
      first(t, g) == IF side = "left" THEN placed(t, g) ELSE t
      last(t, g)  == IF side = "left" THEN t ELSE placed(t, g)
      both(g) ==
        IF g.state.desk.status = "hangs" THEN g.state
        ELSE Then(Then(first(g.state, g),
                       LAMBDA t : Laid(t, Rest(layout), Tail(tiles),
                                       IF side = "left" THEN beside(t, g)
                                                        ELSE [a EXCEPT !.w = g.rest])),
                  LAMBDA t : last(t, g))
  IN Then(MasterGeometry(s, side, tiles, a), both)

(* The nine layouts, for the tiles of an area; one that is alone there is  *)
(* tiled by fast_tile.                                                     *)
Laid(s, layout, tiles, a) ==
  CASE tiles = <<>>                  -> s
    [] Len(tiles) = 1                -> Alone(s, tiles[1], a)
    [] layout \in {"column", "row"} /\ Len(tiles) > 1 -> Simple(s, layout, tiles, a)
    [] layout = "monocle" /\ Len(tiles) > 1           -> Monocle(s, tiles, a)
    [] OTHER -> Master(s, layout, tiles, a)

(* Variant: the old tree is built on.                                      *)
TiledOn(s) == Laid(s, s.desk.layout, s.cl, s.desk.area)

(* get_layout_fn, and what each of the nine functions begins with.         *)
Tiled(s) ==
  Then([s EXCEPT !.kids = M!EmptyTree], LAMBDA t : Laid(t, t.desk.layout, t.cl, t.desk.area))

-----------------------------------------------------------------------------
(* What is taken off the monitor.                                          *)

(* Variant: a strut at the top or the left pushes the area, whole.         *)
CutPushed(a, side, r) ==
  CASE side = "left" -> [a EXCEPT !.x = Max({@, r.x + r.w})]
    [] side = "top"  -> [a EXCEPT !.y = Max({@, r.y + r.h})]
    [] OTHER -> a

(* update_monitor_on_strut_intersect: the area gives way where a strut     *)
(* reaches over the edge it is at.                                         *)
Cut(a, side, r) ==
  LET x0 == Max({a.x, r.x})
      x1 == Min({a.x + a.w, r.x + r.w})
      y0 == Max({a.y, r.y})
      y1 == Min({a.y + a.h, r.y + r.h})
  IN CASE x0 >= x1 \/ y0 >= y1 -> a
       [] side = "left" /\ x0 = a.x         -> [a EXCEPT !.x = @ + x1 - x0, !.w = @ - (x1 - x0)]
       [] side = "right" /\ x1 = a.x + a.w  -> [a EXCEPT !.w = @ - (x1 - x0)]
       [] side = "top" /\ y0 = a.y          -> [a EXCEPT !.y = @ + y1 - y0, !.h = @ - (y1 - y0)]
       [] side = "bottom" /\ y1 = a.y + a.h -> [a EXCEPT !.h = @ - (y1 - y0)]
       [] OTHER -> a

(* reserve_space_for_partial_struts: the rectangle of a strut, at an edge  *)
(* of the screen; one that is not partial reaches from end to end.         *)
StrutRect(d) ==
  LET long == d.to - d.from + 1 IN
  CASE d.side = "top"    -> [x |-> d.from, y |-> 0, w |-> long, h |-> d.size]
    [] d.side = "bottom" -> [x |-> d.from, y |-> RootH - d.size, w |-> long, h |-> d.size]
    [] d.side = "left"   -> [x |-> 0, y |-> d.from, w |-> d.size, h |-> long]
    [] d.side = "right"  -> [x |-> RootW - d.size, y |-> d.from, w |-> d.size, h |-> long]

(* reconcile_struts.                                                       *)
Struts(s) ==
  [s EXCEPT !.desk.area = L!FoldLeft(LAMBDA a, d : Cut(a, d.side, StrutRect(d)), @, s.desk.docks)]

(* clamp_minimized_height, also when nothing is minimized.                 *)
StripClamped(s) ==
  LET a == s.desk.area
      room == IF s.desk.mpos \in {"top", "bottom"} THEN a.h ELSE a.w
  IN [s EXCEPT !.desk.strip = Min({Max({@, 2 * Shrunk + SpaceBetween + 5}), (9 * room) \div 10})]

(* reconcile_minimized_top_or_bottom, reconcile_minimized_left_or_right:   *)
(* the windows of the strip, from "at" on, each with its share of "room".  *)
InStrip(s, at, along, room) ==
  LET n == Len(s.ml)
      thin == s.desk.strip - 2 * Shrunk - SpaceBetween
      one(t, k) ==
        LET c    == s.ml[k].of
            long == Share(room, k, n) - 2 * Border(t, c)
        IN IF along = "x"
             THEN Configure(t, c, at.x + Before(room, k, n), at.y, long, thin)
             ELSE Configure(t, c, at.x, at.y + Before(room, k, n), thin, long)
  IN L!FoldLeft(one, s, [k \in 1..n |-> k])

(* reconcile_minimized.  A strip at the top or at the bottom takes its     *)
(* height and the space between off the area, one at a side takes only its *)
(* width less that space.                                                  *)
Strip(s) ==
  LET a  == s.desk.area
      g  == s.desk.gap
      th == s.desk.strip + SpaceBetween
      tw == s.desk.strip - SpaceBetween
      in == IF g # 0 THEN SpaceBetween ELSE 0
      p  == [x |-> a.x + g, y |-> a.y + g]
  IN IF s.ml = <<>> THEN s
     ELSE CASE s.desk.mpos = "top" ->
                 [InStrip(s, p, "x", a.w - 2 * g)
                    EXCEPT !.desk.area = [@ EXCEPT !.y = @ + th, !.h = @ - th]]
            [] s.desk.mpos = "bottom" ->
                 [InStrip(s, [p EXCEPT !.y = a.y + a.h - g + in - s.desk.strip], "x", a.w - 2 * g)
                    EXCEPT !.desk.area = [@ EXCEPT !.h = @ - th]]
            [] s.desk.mpos = "left" ->
                 [InStrip(s, p, "y", a.h - 2 * g)
                    EXCEPT !.desk.area = [@ EXCEPT !.x = @ + th, !.w = @ - tw]]
            [] s.desk.mpos = "right" ->
                 [InStrip(s, [p EXCEPT !.x = a.x + a.w - g + in - s.desk.strip], "y", a.h - 2 * g)
                    EXCEPT !.desk.area = [@ EXCEPT !.w = @ - tw]]

-----------------------------------------------------------------------------
(* The gap, and the whole.                                                 *)

(* geometry_out_of_bounds, for the gap as it is in s.                      *)
OutOfBounds(s, w, h) ==
  \/ w > s.desk.area.w - 2 * s.desk.gap \/ w < Least
  \/ h > s.desk.area.h - 2 * s.desk.gap \/ h < Least

(* The inner loop of police_gap for one tile: the state, and by how much   *)
(* all of them have changed.  Without a gap to give up it does not end for *)
(* a tile that is too large.                                               *)
RECURSIVE Narrowed(_, _, _, _, _)
Narrowed(s, c, w, h, change) ==
  IF s.desk.full = c \/ s.desk.gap < MinGap \/ ~OutOfBounds(s, w, h)
    THEN [state |-> s, change |-> change]
  ELSE IF s.desk.gap = 0 /\ (w > s.desk.area.w \/ h > s.desk.area.h)
    THEN [state |-> Ends(s, "hangs"), change |-> change]
  ELSE Narrowed(SetGap(s, Max({s.desk.gap - 2, 0})), c, w + 2, h + 2, change + 2)

Policed(s) ==
  L!FoldLeft(LAMBDA r, c :
      IF r.state.desk.gap < MinGap \/ r.state.desk.status = "hangs" THEN r
      ELSE LET t == r.state.tile[c]
           IN Narrowed(r.state, c, t.w + 2 * r.change, t.h + 2 * r.change, r.change),
    [state |-> s, change |-> 0], s.cl)

(* Variant: what was taken off is taken off again.                         *)
WholeKept(s) == s

(* What arrange_monitor begins with: the area is the monitor.              *)
Whole(s) == [s EXCEPT !.desk.area = [x |-> X, y |-> Y, w |-> W, h |-> H]]

(* arrange_monitor; a layout that has changed the gap arranges again.      *)
RECURSIVE Arrange(_)
Arrange(s) ==
  LET tiled == Then(Then(Then(Then(Whole(s), Struts), StripClamped), Strip), Tiled)
      wider(t, p, c) == IF L!In(t.cl, c)
                          THEN [t.tile[c] EXCEPT !.w = @ + 2 * p.change, !.h = @ + 2 * p.change,
                                                 !.bw = Border(p.state, c)]
                          ELSE t.tile[c]
      policed(t, p) ==
        IF p.change = 0 \/ p.state.desk.status = "hangs" THEN p.state
        ELSE Arrange([p.state EXCEPT !.tile = [c \in Clients |-> wider(t, p, c)]])
  IN Then(tiled, LAMBDA t : IF t.desk.status = "hangs" THEN t
                            ELSE Then(Policed(t), LAMBDA p : policed(t, p)))

-----------------------------------------------------------------------------
(* The focus.                                                              *)

(* handle_old_focus_state_changes, for the FocusOut of c.                  *)
FocusOut(s, c) ==
  IF c = None THEN s
  ELSE LET t == [s EXCEPT !.desk.focus = IF @ = c THEN None ELSE @, !.tile[c].resize = FALSE]
       IN IF Up(t, c) THEN Reborder(t, c, 1) ELSE t

(* handle_new_focus_state_changes, for the FocusIn of c.                   *)
FocusIn(s, c) ==
  IF ~Up(s, c) THEN s
  ELSE Reborder([s EXCEPT !.desk.focus = c, !.tile[c].resize = @ \/ s.desk.resizing], c, -IntMax)

Moved(s, c) ==
  IF s.desk.focus = c THEN s
  ELSE Then(FocusOut(s, s.desk.focus), LAMBDA t : FocusIn(t, c))

ThenMoved(s, c) == Then(s, LAMBDA t : Moved(t, c))

(* set_current_focus: the focus takes fullscreen along.                    *)
FocusTo(s, c) ==
  IF c = None THEN FocusOut(s, s.desk.focus)
  ELSE IF ~Up(s, c) THEN s
  ELSE IF s.desk.full # None /\ s.desk.full = s.desk.focus
    THEN ThenMoved(Arrange([s EXCEPT !.desk.full = c]), c)
  ELSE Moved(s, c)

ThenFocusTo(s, c) == Then(s, LAMBDA t : FocusTo(t, c))

(* get_next_focus: any client that is on the screen, None without one.     *)
NextFocus(c) ==
  LET others == {d \in Clients \ {c} : Up(Now, d)} IN
  IF others = {} THEN {None} ELSE others

-----------------------------------------------------------------------------
(* The strip, a list linked both ways.                                     *)

(* Variant: the old head does not point back.                              *)
MlPushOneWay(l, c, pos) == <<[of |-> c, pos |-> pos, prev |-> None]>> \o l

(* ml_push.                                                                *)
MlPush(l, c, pos) ==
  <<[of |-> c, pos |-> pos, prev |-> None]>> \o
  [i \in DOMAIN l |-> IF i = 1 THEN [l[i] EXCEPT !.prev = c] ELSE l[i]]

MlAt(l, c) == CHOOSE i \in DOMAIN l : l[i].of = c

(* ml_remove: a head that goes leaves its successor pointing back at it,   *)
(* and is freed.                                                           *)
MlRemove(l, c) ==
  LET at   == MlAt(l, c)
      back == IF at = 1 THEN Freed ELSE l[at - 1].of
  IN L!RemoveAt([i \in DOMAIN l |-> IF i = at + 1 THEN [l[i] EXCEPT !.prev = back] ELSE l[i]],
                at)

Without(s, c) ==
  [s EXCEPT !.cl = L!ClRemove(@, c), !.ml = IF Shrunken(s, c) THEN MlRemove(@, c) ELSE @]

-----------------------------------------------------------------------------
(* Events.                                                                 *)

Init ==
  /\ tile = [c \in Clients |-> Fresh]
  /\ cl = <<>> /\ ml = <<>> /\ kids = M!EmptyTree
  /\ desk = [area |-> [x |-> X, y |-> Y, w |-> W, h |-> H],
             layout |-> Head(Layouts), mpos |-> Head(Positions),
             gap |-> SetGap([desk |-> [gap |-> 0]], Gap).desk.gap, strip |-> StripHeight,
             full |-> None, focus |-> None, resizing |-> FALSE, docks |-> <<>>,
             status |-> "ok"]
  /\ presses = 0 /\ changes = 0

Runs(s) == desk.status = "ok" /\ \E t \in {s} : Become(t)

(* What the user does is counted.                                          *)
Acts(s) ==
  Runs(s) /\ presses < MaxPresses /\ presses' = presses + 1 /\ UNCHANGED changes

Changes(s) ==
  Runs(s) /\ changes < MaxChanges /\ changes' = changes + 1 /\ UNCHANGED presses

Answers(s) == Runs(s) /\ UNCHANGED <<presses, changes>>

Bound(b) == b \in Bindings

F == desk.focus

(* handle_map_notify.  A window comes back to the position it had, or to   *)
(* the one it is given when it is new; it gets the focus when that was     *)
(* asked for, or when it takes the screen over from the fullscreen window  *)
(* that has it.                                                            *)
MapNotify(c, pos, wanted) ==
  LET s == [Now EXCEPT !.tile[c].mapped = TRUE, !.cl = L!Reattach(@, c, pos)]
      whom == IF desk.full # None THEN desk.full ELSE c
  IN /\ ~tile[c].mapped
     /\ Answers(IF F # None /\ F = desk.full
                  THEN ThenMoved(Arrange([s EXCEPT !.desk.full = c]), c)
                ELSE IF wanted /\ Up(s, whom) THEN ThenMoved(Arrange(s), whom)
                ELSE Arrange(s))

(* action_unmap_window.                                                    *)
UnmapWindow ==
  /\ Bound("unmap_window") /\ L!In(cl, F) /\ Up(Now, F)
  /\ Acts([Now EXCEPT !.tile[F].leaving = TRUE])

(* handle_unmap_notify of an unmap of the manager's.  justify_focus leaves *)
(* the focus where a fullscreen window has it.                             *)
UnmapNotify(c) ==
  /\ tile[c].leaving
  /\ \E s \in {Arrange([Without(Now, c) EXCEPT !.tile[c].mapped = FALSE,
                                               !.tile[c].leaving = FALSE])} :
       IF F # c THEN Answers(s)
       ELSE IF desk.full = c THEN Answers(FocusOut(s, c))
       ELSE \E next \in NextFocus(c) : Answers(ThenFocusTo(FocusOut(s, c), next))

(* end_manage, for a window its client has withdrawn or destroyed.         *)
Close(c) ==
  /\ Bound("close") /\ tile[c] # Fresh
  /\ \E s \in {Arrange([Without(Now, c) EXCEPT !.tile[c] = Fresh,
                                               !.desk.full = IF @ = c THEN None ELSE @,
                                               !.desk.focus = IF @ = c THEN None ELSE @])} :
       IF F # c THEN Acts(s) ELSE \E next \in NextFocus(c) : Acts(FocusTo(s, next))

(* handle_enter_notify.                                                    *)
Enter(c) == Bound("enter") /\ ~desk.resizing /\ tile[c].mapped /\ c # F /\ Acts(FocusTo(Now, c))

(* action_motion_from_cl: from a tile to the next one, or into the strip.  *)
MotionFromTile(direction) ==
  LET to    == M!Toward(kids, F, direction)
      strip == [down |-> "bottom", up |-> "top", right |-> "right", left |-> "left"][direction]
  IN /\ Bound("motion") /\ L!In(cl, F)
     /\ \/ to \notin {None, Root} /\ Acts(FocusTo(Now, to))
        \/ to \in {None, Root} /\ ml # <<>> /\ desk.mpos = strip /\ Acts(FocusTo(Now, ml[1].of))

(* action_motion_from_ml: out of the strip, or along it.                   *)
MotionFromStrip(direction) ==
  LET out == [bottom |-> "up", top |-> "down", right |-> "left", left |-> "right"][desk.mpos]
      at  == MlAt(ml, F)
      along == IF desk.mpos \in {"top", "bottom"} THEN {"left", "right"} ELSE {"up", "down"}
      to  == IF direction \in {"left", "up"} THEN ml[at].prev
             ELSE IF at < Len(ml) THEN ml[at + 1].of ELSE None
  IN /\ Bound("motion") /\ Shrunken(Now, F)
     /\ \/ direction = out /\ \E next \in NextFocus(None) : Acts(FocusTo(Now, next))
        \/ /\ direction \in along /\ to # None
           /\ Acts(IF to = Freed THEN Ends(Now, "wild") ELSE FocusTo(Now, to))

(* action_win_switch, and cl_swap_clients with swap_clients_geometry: from *)
(* the top of the tree it arranges, and no more.                           *)
WinSwitch(direction) ==
  LET to == M!Toward(kids, F, direction)
      place(c, d) == [tile[d] EXCEPT !.mapped = tile[c].mapped, !.leaving = tile[c].leaving,
                                     !.resize = tile[c].resize]
      swapped == [Now EXCEPT !.cl = L!ClSwap(@, F, to),
                             !.tile[F] = place(F, to), !.tile[to] = place(to, F)]
  IN /\ Bound("win_switch") /\ F # None /\ to # None
     /\ Acts(Arrange(IF to = Root THEN Now ELSE swapped))

(* action_resize.                                                          *)
Resize(step) ==
  /\ Bound("resize") /\ L!In(cl, F) /\ tile[F].resize
  /\ Acts(Arrange([Now EXCEPT !.tile[F][step] = @ + 1]))

(* action_enter_resize and action_exit_resize, each of which is the other  *)
(* in the other mode.                                                      *)
ToggleResize ==
  /\ Bound("resize") /\ F # None /\ ~Shrunken(Now, F)
  /\ Acts(Reborder([Now EXCEPT !.tile[F].resize = ~desk.resizing,
                               !.desk.resizing = ~@], F, -IntMax))

ToggleFullscreen ==
  /\ Bound("fullscreen") /\ F # None /\ desk.full \in {None, F}
  /\ Acts(Arrange([Now EXCEPT !.desk.full = IF @ = None THEN F ELSE None]))

(* action_minimize_window.                                                 *)
Minimize ==
  /\ Bound("minimize") /\ L!In(cl, F) /\ F # desk.full
  /\ \E s \in {Arrange([Now EXCEPT !.cl = L!ClRemove(@, F),
                                    !.ml = MlPush(@, F, L!Position(cl, F))])} :
       \E next \in NextFocus(F) : Acts(FocusTo(s, next))

Unminimize ==
  /\ Bound("minimize") /\ Shrunken(Now, F) /\ F # desk.full
  /\ Acts(Arrange([Without(Now, F) EXCEPT !.cl = L!Reattach(@, F, ml[MlAt(ml, F)].pos)]))

(* action_toggle_minimize_focus.                                           *)
ToggleMinimizeFocus ==
  /\ Bound("minimize_focus") /\ ml # <<>> /\ desk.full = None
  /\ \E to \in IF Shrunken(Now, F) THEN NextFocus(F) ELSE {ml[1].of} : Acts(FocusTo(Now, to))

(* action_cycle_tiled: the next or the previous in the list, and around.   *)
CycleTiled(step) ==
  LET to == cl[1 + ((L!Position(cl, F) - 1 + step) % Len(cl))]
  IN Bound("cycle") /\ L!In(cl, F) /\ to # F /\ Acts(FocusTo(Now, to))

ChangeLayout(l) ==
  Bound("layout") /\ F # None /\ l # desk.layout /\ Changes(Arrange([Now EXCEPT !.desk.layout = l]))

MoveStrip(p) ==
  Bound("strip") /\ F # None /\ p # desk.mpos /\ Changes(Arrange([Now EXCEPT !.desk.mpos = p]))

GapWider    == Bound("gap") /\ Changes(Arrange(SetGap(Now, desk.gap + GapInc)))
GapNarrower == Bound("gap") /\ Changes(Arrange(SetGap(Now, Max({desk.gap - GapInc, 0}))))

StripHigher == Bound("strip") /\ Changes(Arrange([Now EXCEPT !.desk.strip = @ + StripInc]))
StripLower  == Bound("strip") /\ Changes(Arrange([Now EXCEPT !.desk.strip = Max({@ - StripInc, 0})]))

(* A dock with a strut is mapped, or goes.                                 *)
DockMapped(d) ==
  /\ Bound("dock") /\ ~L!In(desk.docks, d)
  /\ Changes(Arrange([Now EXCEPT !.desk.docks = Append(@, d)]))

DockGone(d) ==
  /\ Bound("dock") /\ L!In(desk.docks, d)
  /\ Answers(Arrange([Now EXCEPT !.desk.docks = SelectSeq(@, LAMBDA e : e # d)]))

Next ==
  \/ \E c \in Clients : \/ \E pos \in Places, wanted \in BOOLEAN : MapNotify(c, pos, wanted)
                        \/ UnmapNotify(c) \/ Close(c) \/ Enter(c)
  \/ UnmapWindow \/ ToggleResize \/ ToggleFullscreen
  \/ Minimize \/ Unminimize \/ ToggleMinimizeFocus
  \/ \E direction \in M!Directions :
       MotionFromTile(direction) \/ MotionFromStrip(direction) \/ WinSwitch(direction)
         \/ Resize(direction)
  \/ \E step \in {-1, 1} : CycleTiled(step)
  \/ \E i \in DOMAIN Layouts : ChangeLayout(Layouts[i])
  \/ \E i \in DOMAIN Positions : MoveStrip(Positions[i])
  \/ GapWider \/ GapNarrower \/ StripHigher \/ StripLower
  \/ \E d \in Docks : DockMapped(d) \/ DockGone(d)

Spec == Init /\ [][Next]_vars

-----------------------------------------------------------------------------
(* Properties.                                                             *)

(* A window with its border.                                               *)
Frame(s, c) == [x |-> s.tile[c].x, y |-> s.tile[c].y,
                w |-> s.tile[c].w + 2 * s.tile[c].bw, h |-> s.tile[c].h + 2 * s.tile[c].bw]

Frames(s) == [c \in {d \in Clients : L!In(s.cl, d) \/ Shrunken(s, d)} |-> Frame(s, c)]

(* Nothing fullscreen hides the windows, and none is on its way out.  What *)
(* a master within a stack is resized by is left out: its limit is that of *)
(* the whole monitor, and it may take more than there is.                  *)
Quiet(s) ==
  /\ s.desk.status = "ok" /\ s.desk.full = None
  /\ \A c \in Clients : L!In(s.cl, c) \/ Shrunken(s, c) => Up(s, c)
  /\ s.desk.layout \in {"left left", "right right"} =>
       \A c \in Clients : s.tile[c].left = 0 /\ s.tile[c].right = 0

Apart(p, q, by) ==
  \/ p.x + p.w + by <= q.x \/ q.x + q.w + by <= p.x
  \/ p.y + p.h + by <= q.y \/ q.y + q.h + by <= p.y

(* The tiles of a layout keep the gap between them, whatever steps they    *)
(* were resized by: arrange_monitor.                                       *)
TilesApart ==
  Quiet(Now) =>
    \A c, d \in Clients :
      c # d /\ L!In(cl, c) /\ L!In(cl, d) /\ ~(InMonocleStack(Now, c) /\ InMonocleStack(Now, d))
        => Apart(Frame(Now, c), Frame(Now, d), desk.gap)

(* No tile is resized out of existence, however the steps of others add up: *)
(* simple_adjust_stackees, get_master_geometry.                            *)
TilesVisible ==
  Quiet(Now) => \A c \in Clients : L!In(cl, c) => tile[c].w >= Least /\ tile[c].h >= Least

Pixels(f) == (f.w + desk.gap) * (f.h + desk.gap)

(* Where nothing overlaps, the tiles with the gap to their right and below *)
(* fill the area: a master, which takes one half, leaves a pixel at most.  *)
AreaFilled ==
  LET a    == desk.area
      free == (a.w - desk.gap) * (a.h - desk.gap)
              - FoldFunction(+, 0, [i \in DOMAIN cl |-> Pixels(Frame(Now, cl[i]))])
  IN Quiet(Now) /\ cl # <<>> /\ (\A c \in Clients : L!In(cl, c) => ~InMonocleStack(Now, c))
       => free \in 0..(2 * (a.h - desk.gap))

(* The strip, the docks and the tiles keep off each other, and all is on   *)
(* the monitor: arrange_monitor.  A strip at a side needs a gap, which     *)
(* makes up for the width it takes too little off the area.                *)
Inside(f) == f.x >= X /\ f.y >= Y /\ f.x + f.w <= X + W /\ f.y + f.h <= Y + H

OnTheMonitor ==
  Quiet(Now) /\ (ml # <<>> /\ desk.mpos \in {"left", "right"} => desk.gap >= 2 * SpaceBetween) =>
    /\ \A c \in DOMAIN Frames(Now) : Inside(Frame(Now, c))
    /\ \A c, d \in Clients : L!In(cl, c) /\ Shrunken(Now, d)
          => Apart(Frame(Now, c), Frame(Now, d), 0)
    /\ \A i \in DOMAIN desk.docks : \A c \in DOMAIN Frames(Now) :
          Apart(Frame(Now, c), StrutRect(desk.docks[i]), 0)

(* What is arranged again stays where it is, unless steps are taken back:  *)
(* a master that was alone may have more of them than one arrangement      *)
(* takes.                                                                  *)
Steps(s) == [c \in Clients |-> [f \in {"left", "right", "up", "down"} |-> s.tile[c][f]]]

ArrangedAgain ==
  LET again == Arrange(Now)
  IN Quiet(Now) /\ Steps(again) = Steps(Now) => Frames(again) = Frames(Now)

(* The keys that move the focus lead to what the user sees on that side,   *)
(* and somewhere whenever there is something: mt_left_of and its likes on  *)
(* the tree that the layouts build.                                        *)
Beyond(f, g, direction) ==
  CASE direction = "left"  -> g.x + g.w <= f.x
    [] direction = "right" -> f.x + f.w <= g.x
    [] direction = "up"    -> g.y < f.y /\ g.x < f.x + f.w /\ f.x < g.x + g.w
    [] direction = "down"  -> f.y < g.y /\ g.x < f.x + f.w /\ f.x < g.x + g.w

MotionMatchesScreen ==
  Quiet(Now) =>
    \A c \in Clients : \A direction \in M!Directions :
      LET to == M!Toward(kids, c, direction)
          is(d) == Beyond(Frame(Now, c), Frame(Now, d), direction)
      IN L!In(cl, c) =>
           IF to \in Clients THEN is(to) ELSE \A d \in Clients : L!In(cl, d) => ~is(d)

(* The tree carries the tiles and nobody else: a key never follows it to a *)
(* client that has been freed.  Every change of the list is arranged.      *)
TreeCarriesTiles == \A c \in Clients : M!IsIn(kids, c) <=> L!In(cl, c)

(* No loop of an arrangement runs forever: simple_adjust_stackees,         *)
(* get_master_geometry and police_gap each change a tile until it fits.    *)
NeverHangs == desk.status # "hangs"

(* No key follows a pointer to a record that was freed: ml_remove.         *)
NoWildRead == desk.status # "wild"

(* Behind its head, the strip is linked both ways: ml_push and ml_remove.  *)
StripLinked == \A i \in 2..Len(ml) : ml[i].prev = ml[i - 1].of

(* What the variables hold: no window is in the lists twice, and the gap   *)
(* is even, so that half of it is a number of pixels.                      *)
TypeOK ==
  /\ tile \in [Clients -> Tile]
  /\ \A c \in Clients : Cardinality({i \in DOMAIN cl : cl[i] = c})
                         + Cardinality({i \in DOMAIN ml : ml[i].of = c}) <= 1
  /\ \A i \in DOMAIN ml : ml[i].prev \in Clients \cup {None, Freed}
  /\ kids \in [M!Nodes -> Seq(Clients)]
  /\ {desk.focus, desk.full} \subseteq Clients \cup {None}
  /\ desk.gap \in Nat /\ desk.gap % 2 = 0
  /\ desk.status \in {"ok", "hangs", "wild"}

(* A change of the focus or of the mode changes borders, and moves no      *)
(* window: handle_old_focus_state_changes, handle_new_focus_state_changes. *)
FrameKept ==
  [][Quiet(Now) /\ Quiet(Now') /\ cl' = cl /\ ml' = ml
     /\ desk' = [desk EXCEPT !.focus = desk'.focus, !.resizing = desk'.resizing]
     /\ Steps(Now') = Steps(Now)
       => Frames(Now') = Frames(Now)]_vars
=============================================================================
