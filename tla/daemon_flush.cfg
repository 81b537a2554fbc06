SPECIFICATION Spec
CONSTANTS
  Torrent = {t1}
  CTL = ctl
  USER = user0
  Client = {ctl, user0}
  MAX_USER_CALLS = 2
INVARIANT FlushedAtExit
CHECK_DEADLOCK FALSE
