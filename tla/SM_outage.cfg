CONSTANTS
  Value <- SelfTests
  MaxQueue = 2
  MaxTime = 0
  Percent = 5
  Runtime = 3
SPECIFICATION SteadySpec
INVARIANTS NoMissedPowerFailure NoMissedMainsReturn NoMissedTestEnd EventsFit TriggersOnTheWay
PROPERTY PowerContract
