SPECIFICATION Spec
CONSTANTS
  Clients = {c1, c2, c3}
  c1 = c1
  c2 = c2
  c3 = c3
  Floats = {c3}
  Workspaces = {0, 1}
  NoWorkspace = NoWorkspace
  AllWorkspaces = AllWorkspaces
  None = None
  IntMax = 9
  Bindings = {"switch", "float", "float_all", "tile_all", "minimize", "minimize_all", "unminimize_all", "persistent", "win_switch"}
  ClientOps = {"map", "destroy"}
  FocusStart = "adjacent"
  Patient = TRUE
  MaxNotices = 2
  MaxPending = 2
INVARIANTS TypeOK InExactlyOneList
PROPERTIES OrderSurvives
