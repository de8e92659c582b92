SPECIFICATION Spec
CONSTANTS
  StallCap = 2
  MaxRevises = 1
  MaxJudgeOpen = 1
  MaxTasks = 3
  Overlap = FALSE
INVARIANTS
  StaysWorkable
VIEW View
