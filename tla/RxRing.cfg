SPECIFICATION Spec
CONSTANTS
  RingSize = 5
  FifoDepth = 2
  NBytes = 6
INVARIANT TypeOK
INVARIANT InOrder
INVARIANT NoSilentGap
INVARIANT EchoNeverRead
