SPECIFICATION ScopeSpec
CONSTANTS
  Parts = {"displays"}
  Capacity = 3
  Limit = 2
  MaxPush = 4
  MaxFrames = 8
  HistoryFrames = 3
  WindowSizes = {1, 2}
  FftSize = 2
  MaxBlock = 2
  MaxPlayed = 6
  MaxStall = 3
  MaxSettings = 1
CHECK_DEADLOCK FALSE
INVARIANTS IdleShowsSilence
