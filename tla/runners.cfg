SPECIFICATION Spec
CONSTANTS
  Drivers = {"scope", "launch", "handshake"}
  Caps = {10}
  Budgets = {140}
  Overrun = 30
  Cells <- MCCells
  PacedBlocks <- MCBlocks
  Repetitions = 5
  MinRepetitions = 5
  Durations <- MCDurations
  Troubled <- MCTroubled
  MaxSignals = 1
  Scripts = {"scope", "launch", "handshake", "capture", "completed"}
  MaxFacts = 2
  Attempts = 2
  Procs = {p1, p2}
  Members = {exe, plist}
  Flaws = {entry}
  MaxHarm = 1
  MaxRuns = 3
  Suites = {"dsp", "state"}
  Suffixes = {"vst3", "au", "app"}
INVARIANTS
  NothingLeft EvidenceIsEarned CampaignHolds CacheIsSound GreenIsEarned InstallIsProven
PROPERTIES InterruptEnds NeverOverExisting
CHECK_DEADLOCK FALSE
