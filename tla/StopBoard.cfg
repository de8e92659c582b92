SPECIFICATION MCSpec
CONSTANTS
  StallCap = 2
  MaxRevises = 1
  MaxJudgeOpen = 1
  MaxTasks = 3
  Overlap = FALSE
  t1 = t1
  t2 = t2
  r1 = r1
  Tasks <- MCTasks
  JudgeTasks <- MCJudgeTasks
  Fragments <- MCFragments
  CapChoices <- MCCaps
  Threshold = 2
  StallSignature = 2
  RefireStep = 1
  LiftMax = 2
  MaxStopBlocks = 1
  Rivals <- MCRivals
  None = None
  MaxBlocks = 3
  MaxNags = 0
INVARIANTS
  TypeOK
  AdoptionInvariant
  StaysWorkableUnlessUndone
  NoStall
  LedgerCoherent
  TrapBounded
  LiftsGranted
PROPERTIES
  PrimaryWaits
  WithdrawnStaysUnrevised
  RefiresUnlessRestarted
VIEW MCView
SYMMETRY MCSymmetry
