SPECIFICATION Spec
CONSTANTS
  Clients = {c1, c2}
  c1 = c1
  c2 = c2
  Workspaces = {0, 1}
  NoWorkspace = NoWorkspace
  AllWorkspaces = AllWorkspaces
  None = None
  Bindings = {"move", "fullscreen"}
  ClientOps = {"map", "destroy"}
  FocusEnd = "stack"
  MaxPresses = 2
  MaxNotices = 1
  MaxPending = 2
CHECK_DEADLOCK FALSE
INVARIANTS FullscreenAgrees
