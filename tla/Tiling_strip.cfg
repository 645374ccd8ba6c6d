SPECIFICATION Spec
CONSTANTS
  Clients = {c1, c2}
  c1 = c1
  c2 = c2
  Root = Root
  None = None
  Freed = Freed
  IntMax = 2147483647
  X = 1366
  Y = 0
  W = 1280
  H = 720
  RootW = 2646
  RootH = 768
  Unfocused = 5
  Focused = 4
  Resized = 6
  Shrunk = 3
  Stacked = 6
  Full = 1
  Gap = 10
  GapInc = 3
  ResizeInc = 340
  Space = 20
  StripHeight = 10
  StripInc = 5
  Layouts <- MCOneLayout
  Positions <- MCAllPositions
  Docks <- MCDocks
  Places = {2}
  Bindings = {"minimize", "minimize_focus", "motion"}
  MaxPresses = 6
  MaxChanges = 0
CHECK_DEADLOCK FALSE
INVARIANTS NoWildRead
