\* p_run_94nop: warrior 2 moves first in even rounds.  All outcomes.
CONSTANTS
  CoreSize = 2
  MaxProcesses = 2
  MaxCycles = 5
  NumRounds = 2
  Opening = 2
  Outcomes = {"continue", "split", "die", "lost"}
  NULL = NULL
SPECIFICATION Spec
INVARIANTS QueuesDisjoint
CHECK_DEADLOCK FALSE
