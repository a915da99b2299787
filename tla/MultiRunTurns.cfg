\* Three warriors: the budget wraps around zero and the round goes on.
CONSTANTS
  NumWarriors = 3
  CoreSize = 1
  MaxProcesses = 2
  MaxCycles = 3
  NumRounds = 2
  Outcomes = {"continue", "split", "die"}
  WordSize = 64
  NULL = NULL
SPECIFICATION Spec
INVARIANT NoExtraTurns
CHECK_DEADLOCK FALSE
