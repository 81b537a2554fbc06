SPECIFICATION FairSpec
CONSTANTS
  Torrent = {t1, t2}
  CTL = ctl
  USER = user0
  Client = {ctl, user0}
  MAX_USER_CALLS = 2
INVARIANTS TypeOK NothingRunsAtTeardown ServerIsThere ControllerWaitsForDownloads
PROPERTIES ShutdownCompletes 
CHECK_DEADLOCK FALSE
