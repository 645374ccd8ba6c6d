SPECIFICATION Spec
CONSTANTS
  Clients = {c1, c2}
  c2 = c2
  c1 = c1
  Docks = {c2}
  Workspaces = {0, 1}
  NoWorkspace = NoWorkspace
  AllWorkspaces = AllWorkspaces
  Bindings = {"switch", "move", "unmap_window", "map_latest", "unmap_all", "map_all", "restart"}
  ClientOps = {"map", "withdraw", "destroy"}
  Hurried = TRUE
  MaxNotices = 2
  MaxPending = 2
INVARIANTS IInv TypeOK NoticeOnTheWay HiddenWhenAway
PROPERTIES UserUnmapSticks
