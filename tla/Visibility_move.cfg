SPECIFICATION Spec
CONSTANTS
  Clients = {c1}
  c1 = c1
  Docks = {}
  Workspaces = {0, 1}
  NoWorkspace = NoWorkspace
  AllWorkspaces = AllWorkspaces
  Bindings = {"switch", "move"}
  ClientOps = {"map"}
  Hurried = FALSE
  MaxNotices = 2
  MaxPending = 3
INVARIANTS ShownWhenHere
