SPECIFICATION Spec
CONSTANTS
  BaseFile <- MCBaseFile
  NowFiles <- MCNowFiles
  BaseDocs <- MCBaseDocs
  NowDocs <- MCNowDocs
  DocOrder <- MCDocOrder
  GlossChecked = {"d1", "d2"}
  PinLine = 4
  NoteLine = 3
  PinValue <- MCPinValue
  NoteValue <- MCNoteValue
  Declarations <- MCDeclarations
  MaxRuns = 2
  Documents <- MCDocumentLines
  Wanted = {1, 2}
  Categories <- MCCategories
  Releases = {1, 2}
  MaxCommits = 4
  MaxSlips = 0
  Checkouts <- MCCheckouts
  LandsTags = FALSE
INVARIANT FixedIsGreen
CHECK_DEADLOCK FALSE
