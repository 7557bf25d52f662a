SPECIFICATION Spec
CONSTANTS
  BodyLen = 3
  DownRing = 4
  Transports = {"rtt"}
  Resets = 0
  FailsAt = {1}
  StoreFaults = FALSE
PROPERTY ReportHeld
CHECK_DEADLOCK FALSE
