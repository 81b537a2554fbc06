SPECIFICATION FairSpec
CONSTANTS
  BUFFER_COUNT = 6
  LOW_WATERMARK = 2
  HIGH_WATERMARK = 4
  MALLOC_MAY_FAIL = TRUE
  MAX_UNOBSERVED = 0
  Observer = {p1, p2}
  NoObserver = NoObserver
PROPERTY BlockedPeerResumes
CHECK_DEADLOCK FALSE
