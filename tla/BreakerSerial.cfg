SPECIFICATION Spec
CONSTANTS
  h1 = h1
  h2 = h2
  w1 = w1
  z1 = z1
  c1 = c1
  c2 = c2
  a1 = a1
  Hooks <- MCHooks
  Workers <- MCWorkers
  Stops <- MCStops
  Free = free
  Claims <- MCClaims
  NoClaim = noclaim
  Matches <- MCMatches
  Actions <- MCActions
  NoAction = noaction
  MaxPrompt = 2
  MaxClock = 4
  MaxBlocks = 2
  MaxAdjudicated = 2
  JudgeWindow = 3
  CoalesceWindow = 2
  VerifyWindow = 2
  LiftUses = 2
  MaxLiftCalls = 1
  Tools <- MCTools
  Verdicts <- MCVerdicts
  Expirers <- MCNone
  Overlap = FALSE
  GateLifts = FALSE
  JudgeErrors = FALSE
INVARIANTS
  Serialized
  BudgetHonest
  OneJudgePerBatch
PROPERTIES
  NoSilentDisarm
  ImplementsGate
CHECK_DEADLOCK FALSE
