\* Two warriors: the loop implements Fight, and it returns.
CONSTANTS
  NumWarriors = 2
  CoreSize = 2
  MaxProcesses = 2
  MaxCycles = 3
  NumRounds = 2
  Outcomes = {"continue", "split", "die"}
  WordSize = 64
  NULL = NULL
SPECIFICATION FairSpec
PROPERTIES Implements Returns
CHECK_DEADLOCK FALSE
