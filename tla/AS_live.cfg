CONSTANTS
  Value <- SelfTests
  Caps = {"WHY_BATT", "ST_STAT"}
  TestResult = {5}
  MaxLost = 1
  MaxQueue = 1
  MaxTime = 60
  Percent = 5
  Runtime = 3
SPECIFICATION ApcSmartLive
PROPERTIES DriverRefines OutageNoticed MainsReturnNoticed TimeLimitReached
