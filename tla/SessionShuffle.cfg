\* The shuffle of calc_pos_backup uses elements behind the array.
CONSTANTS
  Retries1 = 20
  Retries2 = 4
  Behind <- Foreign
  IntRange = 128
  Sizes <- SomeSizes
  Calls <- SomeCalls
SPECIFICATION Spec
PROPERTY Permuted
CHECK_DEADLOCK FALSE
