SPECIFICATION Spec
CONSTANTS
  LongFile = 3
  Menu <- MCChecked
  Words <- MCWords
  Files <- MCCheckedFile
  DefaultBinds <- MCDefaultBinds
  Keys = {"q", "x", "u", "ret"}
  Actions = {"close-win", "open-term", "cycle-tiled-forward"}
  Layouts = {"angel_master_left", "angel_master_right", "angel_monocle"}
  Cursors = {"standard_pointer", "crosshair"}
  Paths <- MCPaths
  Colors <- MCColors
  MinWidth = 100
  MinHeight = 40
  N_WORKSPACES = 3
INVARIANTS CheckTells
