\* Three warriors, all outcomes.
CONSTANTS
  NumWarriors = 3
  CoreSize = 1
  MaxProcesses = 2
  MaxCycles = 3
  NumRounds = 2
  Outcomes = {"continue", "split", "die", "lost"}
  WordSize = 128
  NULL = NULL
SPECIFICATION Spec
INVARIANTS RingOfLiving QueuesDisjoint FairTurns NoOverrun ResultsAddUp
PROPERTY CountsTurns
CHECK_DEADLOCK FALSE
