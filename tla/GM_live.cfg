CONSTANTS
  Every = 2
  MaxRequests = 1
  MaxUser = 1
SPECIFICATION MonitorSpec
INVARIANTS TimersLast ShownWhole HostFollowed
PROPERTIES Refreshed LossShown CloseEnds
CHECK_DEADLOCK FALSE
