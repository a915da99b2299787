\* A JMZ with modes predecrement, indirect drops its process.
CONSTANTS
  CoreSize = 5
  MinDistance = 2
  MaxProcesses = 2
  MaxCycles = 3
  NumRounds = 2
  Outcomes = {"continue", "split", "die", "lost", "invalid"}
  Programs <- Losers
  NULL = NULL
SPECIFICATION MarsFairSpec
PROPERTY ProcessHandled
CHECK_DEADLOCK FALSE
