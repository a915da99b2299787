\* Calls on MARS objects of every kind.
CONSTANTS
  Retries1 = 20
  Retries2 = 4
  Behind <- Foreign
  IntRange = 128
  Sizes <- SomeSizes
  Calls <- SomeCalls
SPECIFICATION Spec
INVARIANTS Plausible NoOverlap AllPositions Cleaned
PROPERTY Answers
CHECK_DEADLOCK FALSE
