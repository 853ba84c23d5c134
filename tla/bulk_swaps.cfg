SPECIFICATION Spec
CONSTANTS
  os = os
  width = width
  Params = {os, width}
  Discrete = {os}
  Held = {os}
  LatencyParam = os
  Payloads = {0}
  SeqCount = 2
  Top = 1
  MaxSwaps = 2
  MaxEvents = 1
CHECK_DEADLOCK FALSE
INVARIANTS NoMixture NoSwapLost
PROPERTIES SwapMasked
