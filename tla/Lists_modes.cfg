SPECIFICATION Spec
CONSTANTS
  Clients = {c1, c2}
  c1 = c1
  c2 = c2
  Floats = {c2}
  Workspaces = {0, 1}
  NoWorkspace = NoWorkspace
  AllWorkspaces = AllWorkspaces
  None = None
  IntMax = 9
  Bindings = {"switch", "move", "minimize", "unmap_window", "map_latest", "unmap_all", "map_all"}
  ClientOps = {"map"}
  FocusStart = "adjacent"
  Patient = FALSE
  MaxNotices = 1
  MaxPending = 1
INVARIANTS FlagsNameTheList
PROPERTIES ModeSurvives Implements
