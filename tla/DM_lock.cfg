CONSTANTS
  Pid = {"p1", "p2"}
  Serial = TRUE
  Retrier = "p1"
  MaxFaults = 2
SPECIFICATION LockSpec
INVARIANTS OneOwner LeftByCrash
PROPERTY StaleGivesWay
