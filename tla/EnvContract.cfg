SPECIFICATION Spec
CONSTANTS
  n1 = n1
  n2 = n2
  NoNet = NoNet
  NoCkpt = NoCkpt
  Net <- MCNet
  MultiPad <- MCNet
  Board <- MCBoard
  FileBoard <- HalfFile
  Ratsnest <- MCRatsnest
  Unrouted <- MCUnrouted
  Strip <- MCStrip
  Commit <- MCCommit
  Phi <- MCPhi
  PhiBlind <- MCPhiBlind
  Action <- MCAction
  When <- ShippedRule
  NetReselect = TRUE
  FreeStart = TRUE
  MaxSteps = 12
  Patience = 0
  OutputBest = TRUE
  TerminalMode = FALSE
  KeepSizes <- SomeSize
  TargetChoices <- NoTargets
  Search = FALSE
  KeepsStale = FALSE
  MidReset = TRUE
INVARIANT EpisodeCutFromFile
PROPERTY ImplementsContract
