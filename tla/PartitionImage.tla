--------------------------- MODULE PartitionImage ---------------------------
(***************************************************************************)
(* Where the data of an image goes.  partclone writes down the extents of  *)
(* a partition that are in use; partclone_create_torrent.py makes a        *)
(* torrent with one file for each, named by its offset in hexadecimal;     *)
(* class partition_storage (raw_disk_io.cpp) turns a block of the torrent  *)
(* into slices of files and each slice into a place on the partition;      *)
(* utils/clear_test_disk.py clears those places before a test.             *)
(*                                                                         *)
(* A unit is what one byte is to the code.  Unit n of the torrent has the  *)
(* value n + 1, so that misplaced data shows; 0 is a cleared unit.         *)
(***************************************************************************)
EXTENDS Integers, Sequences, FiniteSets

CONSTANTS
  BASE,                 \* 16 in the code
  Extents,              \* torrent.info: its extents [offset, length], in order
  piece_length,         \* 16 MiB in the code
  DEFAULT_BLOCK_SIZE,
  PARTITION_SIZE

\* A number by its digits; all names have the same width.
Value(name) ==
  LET v[k \in 0 .. Len(name)] == IF k = 0 THEN 0 ELSE v[k - 1] * BASE + name[k]
  IN  v[Len(name)]

\* partclone_create_torrent: one file for each extent, in the order of torrent.info.
files == [i \in DOMAIN Extents |-> [file_name |-> Extents[i].offset, file_size |-> Extents[i].length]]

Places(i) == Value(Extents[i].offset) .. Value(Extents[i].offset) + Extents[i].length - 1

\* What partclone writes: ascending extents in the partition, names of one width.
ASSUME ImageAssumption ==
  /\ BASE \in Nat \ {0, 1} /\ {piece_length, DEFAULT_BLOCK_SIZE} \subseteq Nat \ {0}
  /\ PARTITION_SIZE \in Nat
  /\ Extents \in Seq([offset : Seq(0 .. BASE - 1), length : Nat \ {0}])
  /\ \A i \in DOMAIN Extents :
       /\ Places(i) \subseteq 0 .. PARTITION_SIZE - 1
       /\ Len(Extents[i].offset) = Len(Extents[1].offset)
  /\ \A i, j \in DOMAIN Extents : i < j => \A a \in Places(i), b \in Places(j) : a < b

\* Where file i ends and begins in the torrent; the size of the torrent.
FileEnd[i \in 0 .. Len(files)] == IF i = 0 THEN 0 ELSE FileEnd[i - 1] + files[i].file_size
FileStart(i) == FileEnd[i - 1]
TotalSize == FileEnd[Len(files)]

\* The content of the partition that the image was made of, 0 where it is not in use.
Original ==
  [place \in 0 .. PARTITION_SIZE - 1 |->
     IF \E i \in DOMAIN Extents : place \in Places(i)
     THEN LET i == CHOOSE k \in DOMAIN Extents : place \in Places(k)
          IN  FileStart(i) + place - Value(Extents[i].offset) + 1
     ELSE 0]

VARIABLES
  partition,   \* place -> content
  written      \* the blocks <<piece, offset>> written so far

partitionVars == <<partition, written>>

\* The blocks that libtorrent writes.
PieceSize(piece) ==
  IF TotalSize - piece * piece_length < piece_length THEN TotalSize - piece * piece_length
  ELSE piece_length
BlockSize(b) ==
  IF PieceSize(b[1]) - b[2] < DEFAULT_BLOCK_SIZE THEN PieceSize(b[1]) - b[2] ELSE DEFAULT_BLOCK_SIZE
Block ==
  {b \in (0 .. TotalSize \div piece_length) \X (0 .. piece_length - 1) :
     b[2] % DEFAULT_BLOCK_SIZE = 0 /\ b[2] < PieceSize(b[1])}
BlockUnits(b) == [n \in 1 .. BlockSize(b) |-> b[1] * piece_length + b[2] + n]

PartitionInit ==
  /\ partition = [place \in 0 .. PARTITION_SIZE - 1 |-> -1]
  /\ written = {}

-----------------------------------------------------------------------------
\* file_storage::map_block: the slices of files that a range of a piece covers.  A
\* file it does not touch has an empty one here, which the loops below pass over.
map_block(piece, offset, length) ==
  LET from == piece * piece_length + offset
      Lo(i) == IF FileStart(i) < from THEN from ELSE FileStart(i)
      Hi(i) == IF FileEnd[i] < from + length THEN FileEnd[i] ELSE from + length
  IN  [i \in DOMAIN files |->
         [file_index |-> i, offset |-> Lo(i) - FileStart(i),
          size |-> IF Lo(i) < Hi(i) THEN Hi(i) - Lo(i) ELSE 0]]

\* Bug: every slice is taken to be at the start of its file.
partition_offset_of_file(slice) == Value(files[slice.file_index].file_name)

partition_offset(slice) == Value(files[slice.file_index].file_name) + slice.offset

\* Bug: the buffer pointer does not advance.
write_slice_again(buffer, w, slice) ==
  LET at == partition_offset(slice)
  IN  [pos |-> w.pos,
       partition |-> [place \in DOMAIN w.partition |->
         IF place \in at .. at + slice.size - 1 THEN buffer[w.pos + place - at + 1]
         ELSE w.partition[place]]]

\* pwrite of one slice from where the buffer pointer is, which then advances.
write_slice(buffer, w, slice) ==
  LET at == partition_offset(slice)
  IN  [pos |-> w.pos + slice.size,
       partition |-> [place \in DOMAIN w.partition |->
         IF place \in at .. at + slice.size - 1 THEN buffer[w.pos + place - at + 1]
         ELSE w.partition[place]]]

\* partition_storage::write
Written(b, slices) ==
  LET w[i \in 0 .. Len(slices)] ==
        IF i = 0 THEN [pos |-> 0, partition |-> partition]
        ELSE write_slice(BlockUnits(b), w[i - 1], slices[i])
  IN  w[Len(slices)].partition

write(b) ==
  /\ partition' = Written(b, map_block(b[1], b[2], BlockSize(b)))
  /\ written' = written \cup {b}

\* partition_storage::read of any range of a piece.
read(piece, offset, length) ==
  LET slices == map_block(piece, offset, length)
      buffer[i \in 0 .. Len(slices)] ==
        IF i = 0 THEN <<>>
        ELSE buffer[i - 1] \o [n \in 1 .. slices[i].size |->
                                 partition[partition_offset(slices[i]) + n - 1]]
  IN  buffer[Len(slices)]

\* Before the deployment.
clear_test_disk ==
  /\ written = {}
  /\ partition' = [place \in DOMAIN partition |->
       IF \E i \in DOMAIN files :
            LET at == Value(files[i].file_name)
            IN  place \in at .. at + files[i].file_size - 1
       THEN 0 ELSE partition[place]]
  /\ UNCHANGED written

PartitionNext == clear_test_disk \/ \E b \in Block : write(b)

-----------------------------------------------------------------------------
\* Whatever the order in which the blocks arrive and however files, pieces and
\* blocks cut across each other: what was written is where it was on the original
\* partition, and nothing outside the extents is touched.
DeploymentIsExact ==
  \A place \in DOMAIN partition :
    LET unit == Original[place]
    IN  IF \E b \in written : \E n \in DOMAIN BlockUnits(b) : BlockUnits(b)[n] = unit
        THEN partition[place] = unit
        ELSE partition[place] \in IF unit = 0 THEN {-1} ELSE {-1, 0}

\* A read of any range of a piece whose blocks were written returns its units, in
\* order, whichever blocks and files it lies in.
ReadsBack ==
  \A piece \in {b[1] : b \in written} :
    (\A b \in Block : b[1] = piece => b \in written) =>
      \A length \in 1 .. PieceSize(piece) : \A offset \in 0 .. PieceSize(piece) - length :
        read(piece, offset, length) = [n \in 1 .. length |-> piece * piece_length + offset + n]
=============================================================================
