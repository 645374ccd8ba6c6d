SPECIFICATION Spec
CONSTANTS
  Clients = {c1, c2, c3}
  c1 = c1
  c2 = c2
  c3 = c3
  Root = Root
  None = None
  Freed = Freed
  IntMax = 2147483647
  X = 1366
  Y = 0
  W = 1280
  H = 720
  RootW = 2646
  RootH = 768
  Unfocused = 5
  Focused = 4
  Resized = 6
  Shrunk = 3
  Stacked = 6
  Full = 1
  Gap = 10
  GapInc = 3
  ResizeInc = 340
  Space = 20
  StripHeight = 10
  StripInc = 5
  Layouts <- MCAllLayouts
  Positions <- MCAllPositions
  Docks <- MCDocks
  Places = {2}
  Bindings = {"resize", "minimize", "layout", "fullscreen", "motion", "win_switch", "gap", "dock", "strip", "unmap_window", "close", "enter", "minimize_focus", "cycle"}
  MaxPresses = 3
  MaxChanges = 1
CHECK_DEADLOCK FALSE
SYMMETRY MCSymmetry
INVARIANTS TypeOK TilesApart TilesVisible AreaFilled OnTheMonitor ArrangedAgain MotionMatchesScreen TreeCarriesTiles NeverHangs StripLinked
PROPERTIES FrameKept
