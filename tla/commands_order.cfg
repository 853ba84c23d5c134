SPECIFICATION CommandsSpec
CONSTANTS
  Parts = {"gate"}
  Kinds = {"undo"}
  MaxCommands = 3
  MaxRestores = 1
  MaxSaves = 1
  MaxEdits = 0
  MaxMoves = 0
  MaxPumps = 1
  Params = {a, b}
  a = a
  b = b
  Declaring = {b}
  Depth = 2
  MaxStores = 2
  MaxAutomation = 1
  MaxGestures = 3
  MaxActs = 3
  MaxInputs = 5
CHECK_DEADLOCK FALSE
INVARIANTS QueueAlwaysInOrder
