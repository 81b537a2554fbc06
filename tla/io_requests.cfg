SPECIFICATION RequestSpec
CONSTANTS
  s1 = s1
  Storage = {s1}
  Piece = {0}
  piece_size <- ShortLast
  DEFAULT_BLOCK_SIZE = 2
  Val = {v0, v1}
  InitVal = v0
  BadName <- LastIsBad
  WriteJob = {j1, j2}
  ReadJob = {r1}
  HashJob = {h1}
  NoJob = NoJob
  WRITE_THREADS = 2
  READ_THREADS = 1
  HASH_THREADS = 1
  TRANSFER_MAY_FAIL = FALSE
  Overlap = FALSE
  BUFFER_COUNT = 2
  LOW_WATERMARK = 0
  HIGH_WATERMARK = 1
  Observer = {p1}
  NoObserver = NoObserver
  MALLOC_MAY_FAIL = TRUE
INVARIANTS TypeOK PostedIsOnDisk
PROPERTIES ReadsAreRegular
SYMMETRY JobSymmetry
