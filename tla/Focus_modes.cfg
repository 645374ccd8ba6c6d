SPECIFICATION Spec
CONSTANTS
  Clients = {c1, c2}
  c1 = c1
  c2 = c2
  Workspaces = {0, 1}
  NoWorkspace = NoWorkspace
  AllWorkspaces = AllWorkspaces
  None = None
  Bindings = {"switch", "minimize", "minimize_all", "fullscreen", "enter"}
  ClientOps = {"map", "destroy"}
  FocusEnd = "next"
  MaxPresses = 4
  MaxNotices = 1
  MaxPending = 2
CHECK_DEADLOCK FALSE
INVARIANTS NoDanglingPointer StackWellFormed FullscreenAgrees TrackedIsInput FocusIsPassedOn
