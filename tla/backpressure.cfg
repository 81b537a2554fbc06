SPECIFICATION FairSpec
CONSTANTS
  BUFFER_COUNT = 6
  LOW_WATERMARK = 2
  HIGH_WATERMARK = 4
  MALLOC_MAY_FAIL = FALSE
  MAX_UNOBSERVED = 3
  Observer = {p1, p2, p3}
  NoObserver = NoObserver
INVARIANTS TypeOK NoLostWakeup
PROPERTY BlockedPeerResumes
CHECK_DEADLOCK FALSE
