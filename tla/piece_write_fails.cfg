SPECIFICATION PieceSpec
CONSTANTS
  Storage = {s1}
  Piece = {0}
  piece_size <- ShortLast
  DEFAULT_BLOCK_SIZE = 2
  Val = {good, bad}
  InitVal = bad
  GoodVal = good
  BadName = {}
  WriteJob = {j1, j2}
  ReadJob = {}
  HashJob = {h1}
  NoJob = NoJob
  WRITE_THREADS = 2
  READ_THREADS = 1
  HASH_THREADS = 1
  TRANSFER_MAY_FAIL = TRUE
  Overlap = TRUE
  MAX_CLEARS = 0
  BUFFER_COUNT = 3
  LOW_WATERMARK = 1
  HIGH_WATERMARK = 2
  Observer = {p1}
  NoObserver = NoObserver
  MALLOC_MAY_FAIL = FALSE
INVARIANTS WrongDataIsFetchedAgain
SYMMETRY JobSymmetry
CHECK_DEADLOCK FALSE
