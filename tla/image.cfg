SPECIFICATION ImageSpec
CONSTANTS
  BASE = 3
  Extents <- FourExtents
  piece_length = 5
  DEFAULT_BLOCK_SIZE = 2
  PARTITION_SIZE = 11
  Reader = {r1, r2}
  MAX_FD = 2
  MAX_LENGTH = 4
INVARIANTS TypeOK DeploymentIsExact ReadsBack ServedIsDeployed 
SYMMETRY ReaderSymmetry
