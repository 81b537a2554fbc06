SPECIFICATION Spec
CONSTANTS
  Torrent = {t1, t2, t3, t4}
  NoTorrent = NoTorrent
  Job = {j1, j2}
  MAX_INDEX = 3
  HandlersHoldTorrent = TRUE
INVARIANTS TypeOK SlotsAreSound 
SYMMETRY StoragesSymmetry
CHECK_DEADLOCK FALSE
