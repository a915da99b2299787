\* run_94nop: warrior 1 moves first in even rounds.  No lost process.
CONSTANTS
  CoreSize = 2
  MaxProcesses = 2
  MaxCycles = 6
  NumRounds = 2
  Opening = 1
  Outcomes = {"continue", "split", "die"}
  NULL = NULL
SPECIFICATION FairSpec
INVARIANT QueuesWhole
PROPERTIES Implements Returns
CHECK_DEADLOCK FALSE
