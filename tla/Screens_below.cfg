SPECIFICATION Spec
CONSTANTS
  Clients <- MCClients
  Floats = {"float"}
  Docks = {"dock"}
  DockBox <- MCDockBox
  Workspaces <- MCWorkspaces
  NoWorkspace = NoWorkspace
  Names = {"A", "B", "C", "D", "E", "F"}
  NoName = NoName
  None = None
  Setups <- MCBeside
  Gap = 1
  Border = 1
  MinSide = 2
  Steps <- MCSteps
PROPERTIES BelowIsBelow
