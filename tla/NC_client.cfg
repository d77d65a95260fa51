CONSTANTS
  MaxBuffer = 5
  MaxLate = 1
  MaxBroken = 2
  MaxUser = 1
  MaxWide = 1
SPECIFICATION NisSpec
INVARIANTS AnswersMatch WholeUnlessCut
PROPERTY Recovers
CHECK_DEADLOCK FALSE
