SPECIFICATION MCFairSpec
CONSTANTS
  h1 = h1
  h2 = h2
  s1 = s1
  s2 = s2
  j1 = j1
  j2 = j2
  y1 = y1
  c1 = c1
  c2 = c2
  r1 = r1
  r2 = r2
  MaxDoubts = 1
  MaxReap = 2
  Syncers <- MCSyncers
  Newest = 2
  Keep = 1
  MaxKills = 1
  Window = 1
  MaxArms = 2
  Lanes <- MCLanes
  Hooks <- MCHooks
  Jobs <- MCJobs
  Readers <- MCReaders
  TTL = 2
  Refuses = TRUE
  MaxExtra = 1
  Sessions <- MCSessions
  Root <- MCRoot
  Kinds <- MCKinds
  Cmds <- MCCmds
  Trees <- MCTrees
  GitState <- MCGitState
  Runners <- MCRunners
PROPERTIES
  ErrorKeepsRuntime
CHECK_DEADLOCK FALSE
