SPECIFICATION MCSpec
CONSTANTS
  NoSpec = NoSpec
  NoScope = NoScope
  Calls <- MCCalls
  Specs <- MCSpecs
  Scopes <- MCScopes
  GateHosts = {"claude", "codex"}
  EnvGrades = {"unset", "HEAVY"}
  Verdicts <- MCVerdicts
  Pins = {"none", "STANDARD"}
  LiftUses = 2
  MaxJudgeCalls = 2
  NoEpoch = NoEpoch
  NoTurn = NoTurn
  NoText = NoText
  Nobody = Nobody
  b2 = b2
  sb = sb
  Blocks = {b1, b2}
  Sigs = {sa, sb}
  Hosts = {"claude", "codex"}
  Text <- MCText
  MaxRepeat = 2
  ka = ka
  kb = kb
  Packs = {ka, kb}
  Prompts <- MCPrompts
  MaxPacks = 1
  MaxSubmits = 3
  MaxKills = 1
  Hooks = {h1, h2}
  Jobs = {j1, j2}
  Titles = {"x", "y"}
  Offers <- MCAnswers
  Window = 2
  TTL = 2
  MinTools = 1
  MaxDiscoveries = 1
  MaxFrontiers = 2
  MaxCalls = 2
  MaxClock = 2
  MaxTurns = 2
  h1 = h1
  h2 = h2
  j1 = j1
  j2 = j2
INVARIANTS
  RefusalsTold
  InstructedOnce
  BatchOnce
  FrontiersSound
PROPERTIES
  MutationEarned
  OpensWhenEarned
CHECK_DEADLOCK FALSE
SYMMETRY MCSymmetry
