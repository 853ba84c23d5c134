SPECIFICATION CommandsSpec
CONSTANTS
  Parts = {"gate", "history"}
  Kinds = {"undo", "save", "gain"}
  MaxCommands = 3
  MaxRestores = 1
  MaxSaves = 0
  MaxEdits = 1
  MaxMoves = 1
  MaxPumps = 1
  Params = {a, b}
  a = a
  b = b
  Declaring = {b}
  Depth = 2
  MaxStores = 2
  MaxAutomation = 1
  MaxGestures = 3
  MaxActs = 3
  MaxInputs = 5
INVARIANTS GateHolds HistoryHolds StepsAreActions
PROPERTIES BurstsKeepSession EditsAreRecorded
