SPECIFICATION FairSpec
CONSTANTS
  Clients = {c1, c2}
  c1 = c1
  c2 = c2
  Docks = {c2}
  Workspaces = {0, 1}
  NoWorkspace = NoWorkspace
  AllWorkspaces = AllWorkspaces
  Bindings = {"switch", "unmap_window", "map_latest", "map_all", "restart"}
  ClientOps = {"map", "destroy"}
  Hurried = FALSE
  MaxNotices = 2
  MaxPending = 3
INVARIANTS ShownWhenHere
PROPERTIES PendingSettles
