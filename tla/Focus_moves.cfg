SPECIFICATION Spec
CONSTANTS
  Clients = {c1, c2}
  c1 = c1
  c2 = c2
  Workspaces = {0, 1}
  NoWorkspace = NoWorkspace
  AllWorkspaces = AllWorkspaces
  None = None
  Bindings = {"switch", "move", "unmap_window", "map_latest", "enter"}
  ClientOps = {"map", "withdraw"}
  FocusEnd = "stack"
  MaxPresses = 3
  MaxNotices = 1
  MaxPending = 2
CHECK_DEADLOCK FALSE
INVARIANTS TypeOK
PROPERTIES Implements
