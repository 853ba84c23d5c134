SPECIFICATION SessionSpec
CONSTANTS
  Parts = {"handoff", "gate"}
  Params = {p, q}
  MaxEvents = 3
  MaxEdits = 1
  Kinds = {"undo"}
  MaxCommands = 2
  MaxRestores = 1
  MaxSaves = 1
  MaxMoves = 1
  MaxPumps = 1
CHECK_DEADLOCK FALSE
INVARIANTS SessionIsWhole SaveIsTrue
PROPERTIES EditsSurvive RestoreAdopted PutOffIsDone
