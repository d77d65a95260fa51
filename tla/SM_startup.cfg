CONSTANTS
  Value <- StatusOnly
  MaxQueue = 2
  MaxTime = 60
  Percent = 5
  Runtime = 3
SPECIFICATION Spec
INVARIANTS QueueEndsAtInfo ReportsMatchState OnbattTimeoutsOnTheWay
