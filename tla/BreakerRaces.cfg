SPECIFICATION FairSpec
CONSTANTS
  h1 = h1
  h2 = h2
  w1 = w1
  z1 = z1
  c1 = c1
  c2 = c2
  a1 = a1
  Hooks <- MCOneHook
  Workers <- MCWorkers
  Stops <- MCNone
  Free = free
  Claims <- MCOneClaim
  NoClaim = noclaim
  Matches <- MCOneMatch
  Actions <- MCActions
  NoAction = noaction
  MaxPrompt = 2
  MaxClock = 2
  MaxBlocks = 1
  MaxAdjudicated = 2
  JudgeWindow = 3
  CoalesceWindow = 2
  VerifyWindow = 2
  LiftUses = 2
  MaxLiftCalls = 1
  Tools <- MCShellTools
  Verdicts <- MCVerdicts
  Expirers <- MCProcs
  Overlap = FALSE
  GateLifts = TRUE
  JudgeErrors = TRUE
INVARIANTS
  RowConsistent
  ScopeOwnPrompt
PROPERTIES
  NoWedge
CHECK_DEADLOCK FALSE
