SPECIFICATION CommandsSpec
CONSTANTS
  Parts = {"history"}
  Kinds = {"undo", "save", "gain"}
  MaxCommands = 3
  MaxRestores = 1
  MaxSaves = 0
  MaxEdits = 1
  MaxMoves = 1
  MaxPumps = 1
  Params = {a, b}
  a = a
  b = b
  Declaring = {b}
  Depth = 1
  MaxStores = 1
  MaxAutomation = 1
  MaxGestures = 1
  MaxActs = 1
  MaxInputs = 4
CHECK_DEADLOCK FALSE
INVARIANTS UndoKeepsAutomation
