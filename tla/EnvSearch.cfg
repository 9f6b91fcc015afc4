SPECIFICATION Spec
CONSTANTS
  n1 = n1
  n2 = n2
  NoNet = NoNet
  NoCkpt = NoCkpt
  Net <- MCNet
  MultiPad <- MCNet
  Board <- MCBoard
  FileBoard <- BareFile
  Ratsnest <- MCRatsnest
  Unrouted <- MCUnrouted
  Strip <- MCStrip
  Commit <- MCCommit
  Phi <- MCPhi
  PhiBlind <- MCPhiBlind
  Action <- MCAction
  When <- ShippedRule
  NetReselect = FALSE
  FreeStart = FALSE
  MaxSteps = 9
  Patience = 4
  OutputBest = TRUE
  TerminalMode = FALSE
  KeepSizes <- NoSizes
  TargetChoices <- OneTarget
  Search = TRUE
  KeepsStale = FALSE
  MidReset = TRUE
INVARIANTS TypeOK BestBoardAfterValid BestIsRestorable ReportIsOfFinalBoard SessionHasItsNet SelectableNet StagnationBaseline
