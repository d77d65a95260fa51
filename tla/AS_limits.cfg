CONSTANTS
  Value <- Levels
  Caps = {"BATTLEV", "REG2"}
  TestResult = {5}
  MaxLost = 1
  MaxQueue = 1
  MaxTime = 0
  Percent = 5
  Runtime = 3
SPECIFICATION ApcSmartLive
PROPERTY LowChargeReached
