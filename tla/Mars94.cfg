\* Short warriors of every kind fight each other for two rounds.
CONSTANTS
  CoreSize = 5
  MinDistance = 2
  MaxProcesses = 2
  MaxCycles = 4
  NumRounds = 2
  Programs <- Warriors
  NULL = NULL
SPECIFICATION Spec
INVARIANTS NoOverrun CoreValid FreshCore QueuesCounted
PROPERTY Implements
CHECK_DEADLOCK FALSE
