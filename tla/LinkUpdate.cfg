SPECIFICATION FairSpec
CONSTANTS
  BodyLen = 4
  DownRing = 3
  Transports = {"rtt", "rs485"}
  Resets = 1
  FailsAt = {0, 2}
  StoreFaults = TRUE
INVARIANT TypeOK
INVARIANT BodyMeetsStream
INVARIANT VerdictRight
PROPERTY BackInService
CHECK_DEADLOCK FALSE
