CONSTANTS
  Value <- WordValue
  Raw <- MainsRaw
  Caps = {"STATUS", "BatteryPresent"}
  Generic = FALSE
  Named = FALSE
  Other = FALSE
  MaxReports = 2
  MaxQueue = 1
  MaxTime = 0
  Percent = 5
  Runtime = 3
SPECIFICATION UsbLive
PROPERTIES UsbRefines OutageNoticed DatabaseFollows LossReported
