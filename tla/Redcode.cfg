\* Instruction objects of both standards, on cores of one, three and 200000
\* cells.
CONSTANTS
  CoreSizes <- MCCoreSizes
  Values <- MCValues
  States <- MCStates
  Texts <- MCTexts
  IntRange = 1048576
  LongRange = 16777216
SPECIFICATION Spec
INVARIANTS RoundTrip RulesAgree
PROPERTY SettersApart
