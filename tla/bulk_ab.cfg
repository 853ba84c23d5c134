SPECIFICATION FairSpec
CONSTANTS
  os = os
  width = width
  Params = {os}
  Discrete = {os}
  Held = {os}
  LatencyParam = os
  Payloads = {0, 1}
  SeqCount = 2
  Top = 1
  MaxSwaps = 2
  MaxEvents = 1
CHECK_DEADLOCK FALSE
INVARIANTS DryPathAligned
PROPERTIES RestoredMatchFits SwapLands
