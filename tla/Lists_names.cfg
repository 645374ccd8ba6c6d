SPECIFICATION Spec
CONSTANTS
  Clients = {c1, c2}
  c1 = c1
  c2 = c2
  Floats = {c2}
  Workspaces = {0, 1}
  NoWorkspace = NoWorkspace
  AllWorkspaces = AllWorkspaces
  None = None
  IntMax = 9
  Bindings = {"float_all"}
  ClientOps = {"map"}
  FocusStart = "end"
  Patient = TRUE
  MaxNotices = 1
  MaxPending = 2
PROPERTIES FloatAllFloats
