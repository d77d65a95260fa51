CONSTANTS
  Value <- UsageValue
  Raw <- MainsRaw
  Caps = {"Discharging"}
  Generic = TRUE
  Named = FALSE
  Other = FALSE
  MaxReports = 1
  MaxQueue = 1
  MaxTime = 0
  Percent = 5
  Runtime = 3
SPECIFICATION UsbLive
PROPERTY OutageNoticed
