\* Short warriors of every kind fight each other for two rounds.
CONSTANTS
  CoreSize = 5
  MinDistance = 2
  MaxProcesses = 2
  MaxCycles = 4
  NumRounds = 2
  Outcomes = {"continue", "split", "die", "lost", "invalid"}
  Programs <- Warriors
  NULL = NULL
SPECIFICATION MarsSpec
INVARIANTS NoOverrun CoreValid FreshCore QueuesCounted NoStaleFetch
PROPERTY Implements
CHECK_DEADLOCK FALSE
