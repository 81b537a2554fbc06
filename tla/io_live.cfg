SPECIFICATION LiveSpec
CONSTANTS
  s1 = s1
  Storage = {s1}
  Piece = {0}
  piece_size <- OneBlock
  DEFAULT_BLOCK_SIZE = 1
  Val = {v0}
  InitVal = v0
  BadName = {}
  WriteJob = {j1, j2, j3}
  ReadJob = {r1}
  HashJob = {h1}
  NoJob = NoJob
  WRITE_THREADS = 2
  READ_THREADS = 1
  HASH_THREADS = 1
  TRANSFER_MAY_FAIL = FALSE
  Overlap = TRUE
  BUFFER_COUNT = 2
  LOW_WATERMARK = 0
  HIGH_WATERMARK = 1
  Observer = {p1}
  NoObserver = NoObserver
  MALLOC_MAY_FAIL = FALSE
INVARIANTS NoDanglingBuffer BufferAccounting
PROPERTIES   PeersResume
CHECK_DEADLOCK FALSE
