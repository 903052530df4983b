\* Two inputs, or three with OpenTelemetry; a log of four lines, seven in all; panes of 1, 2 and 5 rows.
CONSTANTS
  x = x
  s1 = s1
  s2 = s2
  Lines <- MCLines
  Scripts <- MCScripts
  Paths <- MCPaths
  Listing <- MCListing
  Printing <- MCPrinting
  LogLines <- MCLogLines
  Typed <- MCTyped
  Sizes <- MCSizes
  Screens <- MCScreens
  MaxEntries = 2
  MaxHistory <- MCMaxHistory
  MaxNotices = 1
  MaxLines = 7
  MaxStored = 4
  MinPane = 1
  DefaultPane = 2
SPECIFICATION Spec
INVARIANTS TypeOK SessionIsHistory TranscriptIsTail PaneNeverEmpty FrameFillsScreen
PROPERTIES ViewStable DraftComesBack CompletionKeepsCandidates
CHECK_DEADLOCK FALSE
