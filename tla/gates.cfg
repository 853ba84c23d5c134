SPECIFICATION Spec
CONSTANTS
  Scenarios = {"haas", "velvet"}
  Dumps <- MCDumps
  Binaries <- MCBinaries
  Floors <- MCFloors
  Packages <- MCPackages
  Icons <- MCIcons
  Bytes <- MCBytes
  Pixels = 3
  Channels = 2
  MaxAltered = 2
  Gates = {"gcc", "clang"}
  Sites <- MCSites
  Spellings <- MCSpellings
  Root <- MCRoot
  Build <- MCBuild
  GatedFlags = {"shadow"}
  Emits <- MCEmits
  MaxChanges = 4
  Files <- LintFiles
  Names = {"process", "toEngine", "prepare", "helper", "third", "T", "V", "C", "w", "m", "std", "if", "return"}
  Keywords = {"if", "return"}
  AudioNames = {"process", "toEngine"}
  NeverFollow = {"prepare"}
  OrderedNames = {"toEngine"}
  Forbidden = {"new process", "new toEngine", "new helper", "new third", "new prepare"}
  WeakLoads = {"relaxed toEngine", "relaxed helper", "relaxed process", "relaxed third", "relaxed prepare"}
  Fields = {"algorithm", "dimMode", "bypass", "mix", "width"}
  NewField = "width"
  Modules <- MCModules
  Tree <- MCTree
  MaxEdits = 2
  MaxForgotten = 2
  Lints <- Strippers
  Fragments <- TextFragments
  MaxFragments = 2
  MaxPieces = 2
  Pages <- MCPages
  Pieces <- MCPieces
  Places <- MCPlaces
  Clones <- MCClones
INVARIANTS
  ZeroIsMeasured IconsHold RatchetHolds FindingsAreReached
  MergedIsAnswered CodeIsSeen DefectsAreFound
CHECK_DEADLOCK FALSE
