------------------------------ MODULE RawDiskIO ------------------------------
(***************************************************************************)
(* The data path of class raw_disk_io (raw_disk_io.cpp): async_read,       *)
(* async_write and async_hash, which libtorrent's network thread calls,    *)
(* the jobs they post to the three thread pools, and the handlers those    *)
(* post back to the io_context.  The storages of the torrents exist        *)
(* throughout (module Storages is about their coming and going).           *)
(*                                                                         *)
(* Data is counted in units: a unit is what one pread or pwrite of         *)
(* partition_storage transfers at least (a file slice), a cell is the      *)
(* place of a unit on the partition.  A write job carries one value for    *)
(* all the units of its block.  Every unit is a step of its own, so that   *)
(* threads interleave inside a block.  A call on the network thread and a  *)
(* method of a class with a mutex are one step.                            *)
(***************************************************************************)
EXTENDS Integers, Sequences, FiniteSets

CONSTANTS
  Storage, Piece,
  piece_size,           \* file_storage::piece_size, in units
  DEFAULT_BLOCK_SIZE,   \* in units
  Val, InitVal,         \* contents of a unit
  BadName,              \* cells of files whose name is not a hexadecimal number
  WriteJob, ReadJob, HashJob, NoJob,           \* bounds on the jobs in flight
  WRITE_THREADS, READ_THREADS, HASH_THREADS,   \* 8 each in the build
  Overlap,              \* may a block be written again before its handler ran?
  TRANSFER_MAY_FAIL,    \* may a pread or pwrite fail or come up short?
  BUFFER_COUNT, LOW_WATERMARK, HIGH_WATERMARK, Observer, NoObserver, MALLOC_MAY_FAIL

Cell == UNION {Storage \X {p} \X (0 .. piece_size[p] - 1) : p \in Piece}
Location == {c \in Cell : c[3] % DEFAULT_BLOCK_SIZE = 0}

ASSUME IOAssumption ==
  /\ piece_size \in [Piece -> Nat]
  /\ DEFAULT_BLOCK_SIZE \in Nat \ {0}
  /\ InitVal \in Val
  /\ BadName \subseteq Cell
  /\ IsFiniteSet(WriteJob) /\ IsFiniteSet(ReadJob) /\ IsFiniteSet(HashJob)
  /\ NoJob \notin WriteJob
  /\ ReadJob \cap HashJob = {}
  /\ Overlap \in BOOLEAN /\ TRANSFER_MAY_FAIL \in BOOLEAN
  /\ BUFFER_COUNT \in Nat /\ LOW_WATERMARK \in Nat /\ HIGH_WATERMARK \in Nat
  /\ LOW_WATERMARK < HIGH_WATERMARK /\ HIGH_WATERMARK < BUFFER_COUNT
  /\ NoObserver \notin Observer
  /\ MALLOC_MAY_FAIL \in BOOLEAN

VARIABLES
  disk,          \* the partition
  store_buffer,  \* Location -> the write job whose buffer the entry points to
  write, read, hash,                             \* the jobs
  write_queue, read_queue, hash_queue,           \* jobs posted to the thread pools
  w_size, w_exceeded, w_observers, peer, posted, \* write_buffer_pool_: Backpressure
  r_size, r_exceeded,                            \* read_buffer_pool_: BufferPool
  seen           \* history: what its cells have held since a job was requested

poolVars == <<w_size, w_exceeded, w_observers, peer, posted>>
readPoolVars == <<r_size, r_exceeded>>
writeVars == <<disk, store_buffer, write, write_queue>>
readVars == <<read, read_queue>>
hashVars == <<hash, hash_queue>>
vars == <<poolVars, readPoolVars, writeVars, readVars, hashVars, seen>>

WP == INSTANCE Backpressure WITH
        m_size <- w_size, m_exceeded_max_size <- w_exceeded, m_observers <- w_observers,
        MAX_UNOBSERVED <- 0, unobserved <- 0
RP == INSTANCE BufferPool WITH
        m_size <- r_size, m_exceeded_max_size <- r_exceeded, m_observers <- {}
SB == INSTANCE StoreBuffer WITH
        Buffer <- WriteJob, NoBuffer <- NoJob, m_store_buffer <- store_buffer

\* The length of the block at an offset: the last one of a piece may be short.
BlockLength(p, offset) ==
  IF piece_size[p] - offset < DEFAULT_BLOCK_SIZE THEN piece_size[p] - offset
  ELSE DEFAULT_BLOCK_SIZE

Units(s, p, start, length) == {s} \X {p} \X (start .. start + length - 1)
BlockOf(loc) == Units(loc[1], loc[2], loc[3], BlockLength(loc[2], loc[3]))

Idle == [stage |-> "idle"]

WriteRec ==
  [stage : {"queued", "writing", "posted", "handled"}, loc : Location, val : Val,
   offset : Nat, err : BOOLEAN, buf : BOOLEAN]
\* slot: where in the buffer the next unit goes; data: the units <<slot, unit,
\* value>> in the buffer.
ReadRec ==
  [stage : {"queued", "reading", "posted", "held"}, s : Storage, p : Piece, start : Nat,
   length : Nat, offset : Nat, end : Nat, slot : Int, data : SUBSET (Int \X Nat \X Val),
   err : BOOLEAN]
\* i: the blocks done; [from, end) the disk read in progress; ph: the units
\* <<unit, value>> the hasher was fed, in order.
HashRec ==
  [stage : {"queued", "hashing", "reading", "posted", "handled"}, s : Storage, p : Piece,
   i : Nat, offset : Nat, from : Nat, end : Nat, ph : Seq(Nat \X Val), err : BOOLEAN,
   buf : BOOLEAN]

TypeOK ==
  /\ disk \in [Cell -> Val]
  /\ SB!StoreBufferTypeOK
  /\ write \in [WriteJob -> WriteRec \cup {Idle}]
  /\ read \in [ReadJob -> ReadRec \cup {Idle}]
  /\ hash \in [HashJob -> HashRec \cup {Idle}]
  /\ write_queue \in Seq(WriteJob)
  /\ read_queue \in Seq(ReadJob)
  /\ hash_queue \in Seq(HashJob)
  /\ WP!TypeOK
  /\ RP!PoolTypeOK
  /\ seen \in [ReadJob \cup HashJob -> SUBSET (Cell \X Val)]

Init ==
  /\ disk = [c \in Cell |-> InitVal]
  /\ SB!StoreBufferInit
  /\ write = [j \in WriteJob |-> Idle]
  /\ read = [j \in ReadJob |-> Idle]
  /\ hash = [j \in HashJob |-> Idle]
  /\ write_queue = <<>> /\ read_queue = <<>> /\ hash_queue = <<>>
  /\ WP!Init
  /\ RP!PoolInit
  /\ seen = [j \in ReadJob \cup HashJob |-> {}]

-----------------------------------------------------------------------------
\* What a request made now should see: the accepted write, else the partition.
Current(c) ==
  LET loc == SB!torrent_location(c[1], c[2], c[3] - (c[3] % DEFAULT_BLOCK_SIZE))
  IN  IF SB!hit(loc) THEN write[SB!get(loc)].val ELSE disk[c]

Now(cells) == {<<c, Current(c)>> : c \in cells}

\* The cells whose history job j follows: those of a read or hash under way.
Wanted(j) ==
  IF j \in ReadJob
  THEN IF read[j].stage \in {"queued", "reading"}
       THEN Units(read[j].s, read[j].p, read[j].start, read[j].length) ELSE {}
  ELSE IF hash[j].stage \in {"queued", "hashing", "reading"}
       THEN Units(hash[j].s, hash[j].p, 0, piece_size[hash[j].p]) ELSE {}

-----------------------------------------------------------------------------
(* What pread and pwrite do: their results are ignored, so a failed or     *)
(* short call looks like any other to the jobs.                            *)

\* The units that a pwrite of these cells may leave on the partition.
Stored(cells) == IF TRANSFER_MAY_FAIL THEN SUBSET cells ELSE {cells}

\* What the buffer may hold after a pread of a cell: on failure, what was in it.
Loaded(c) == IF TRANSFER_MAY_FAIL THEN Val ELSE {disk[c]}

-----------------------------------------------------------------------------
(* async_write                                                             *)

\* The units of a block that partition_storage::write gets to before a file name
\* it cannot parse; the write reports an error iff it does not get to them all.
Writable(loc) ==
  {c \in BlockOf(loc) : \A b \in BlockOf(loc) \cap BadName : c[3] < b[3]}

Outstanding(j) == write[j].stage \notin {"idle", "handled"}

async_write(j, o, loc, v) ==
  /\ write[j] = Idle
  /\ Overlap \/ \A k \in WriteJob : ~(Outstanding(k) /\ write[k].loc = loc)
  /\ \E got \in BOOLEAN :
       /\ WP!PeerWrite(o, got)
       /\ write' = [write EXCEPT ![j] =
            [stage |-> IF got THEN "queued" ELSE "posted", loc |-> loc, val |-> v,
             offset |-> loc[3], err |-> ~got /\ Writable(loc) # BlockOf(loc), buf |-> got]]
       /\ IF got
          THEN /\ SB!insert(loc, j)
               /\ write_queue' = Append(write_queue, j)
               /\ UNCHANGED disk
          ELSE /\ \E done \in Stored(Writable(loc)) :
                    disk' = [c \in Cell |-> IF c \in done THEN v ELSE disk[c]]
               /\ UNCHANGED <<store_buffer, write_queue>>
  /\ seen' = [k \in ReadJob \cup HashJob |->
                seen[k] \cup {<<c, v>> : c \in Wanted(k) \cap BlockOf(loc)}]
  /\ UNCHANGED <<readPoolVars, readVars, hashVars>>

\* A thread runs its lambda until the captured buffer holder is destroyed.
Writers == {j \in WriteJob : write[j].stage # "idle" /\ write[j].buf /\ write[j].stage # "queued"}

\* Bug: the entry is erased before the block is on disk.
StartWrite_erases_first ==
  /\ write_queue # <<>>
  /\ Cardinality(Writers) < WRITE_THREADS
  /\ SB!erase(write[Head(write_queue)].loc)
  /\ write' = [write EXCEPT ![Head(write_queue)].stage = "writing"]
  /\ write_queue' = Tail(write_queue)
  /\ UNCHANGED <<disk, poolVars, readPoolVars, readVars, hashVars, seen>>

StartWrite ==
  /\ write_queue # <<>>
  /\ Cardinality(Writers) < WRITE_THREADS
  /\ write' = [write EXCEPT ![Head(write_queue)].stage = "writing"]
  /\ write_queue' = Tail(write_queue)
  /\ UNCHANGED <<disk, store_buffer, poolVars, readPoolVars, readVars, hashVars, seen>>

\* Bug: the last unit of a block is not written.
WriteEnd_short(w) == w.loc[3] + BlockLength(w.loc[2], w.loc[3]) - 1

WriteEnd(w) == w.loc[3] + BlockLength(w.loc[2], w.loc[3])

\* partition_storage::write, one file slice.
WriteSlice(j) ==
  LET w == write[j]
      c == <<w.loc[1], w.loc[2], w.offset>>
  IN  /\ w.stage = "writing" /\ ~w.err /\ w.offset < WriteEnd(w)
      /\ IF c \in BadName
         THEN write' = [write EXCEPT ![j].err = TRUE] /\ UNCHANGED disk
         ELSE /\ \E done \in Stored({c}) :
                   disk' = [d \in Cell |-> IF d \in done THEN w.val ELSE disk[d]]
              /\ write' = [write EXCEPT ![j].offset = @ + 1]
      /\ UNCHANGED <<store_buffer, write_queue, poolVars, readPoolVars, readVars, hashVars, seen>>

\* Bug: the handler is posted while the block is being written.
FinishWrite_early(j) ==
  /\ write[j].stage = "writing"
  /\ SB!erase(write[j].loc)
  /\ write' = [write EXCEPT ![j].stage = "posted"]
  /\ UNCHANGED <<disk, write_queue, poolVars, readPoolVars, readVars, hashVars, seen>>

\* Bug: the entry is not erased.
FinishWrite_keeps_entry(j) ==
  /\ write[j].stage = "writing"
  /\ write[j].err \/ write[j].offset = WriteEnd(write[j])
  /\ write' = [write EXCEPT ![j].stage = "posted"]
  /\ UNCHANGED <<disk, store_buffer, write_queue, poolVars, readPoolVars, readVars, hashVars, seen>>

\* The entry is erased and the handler posted.
FinishWrite(j) ==
  LET w == write[j]
  IN  /\ w.stage = "writing"
      /\ w.err \/ w.offset = WriteEnd(w)
      /\ SB!erase(w.loc)
      /\ write' = [write EXCEPT ![j].stage = "posted"]
      /\ UNCHANGED <<disk, write_queue, poolVars, readPoolVars, readVars, hashVars, seen>>

\* Bug: the observers are forgotten when the pool reopens.
FreeWrite_silent(j) ==
  /\ write[j].stage \in {"posted", "handled"} /\ write[j].buf
  /\ w_size' = w_size - 1
  /\ WP!check_buffer_level(w_size - 1)
  /\ write' = [write EXCEPT ![j] =
                 IF @.stage = "handled" THEN Idle ELSE [@ EXCEPT !.buf = FALSE]]
  /\ UNCHANGED <<disk, store_buffer, write_queue, peer, posted, readPoolVars, readVars, hashVars, seen>>

\* The lambda is destroyed and gives the buffer back.
FreeWrite(j) ==
  /\ write[j].stage \in {"posted", "handled"} /\ write[j].buf
  /\ WP!FreeBuffer
  /\ write' = [write EXCEPT ![j] =
                 IF @.stage = "handled" THEN Idle ELSE [@ EXCEPT !.buf = FALSE]]
  /\ UNCHANGED <<disk, store_buffer, write_queue, readPoolVars, readVars, hashVars, seen>>

\* The network thread runs the handler.
HandleWrite(j) ==
  /\ write[j].stage = "posted"
  /\ write' = [write EXCEPT ![j] =
                 IF @.buf THEN [@ EXCEPT !.stage = "handled"] ELSE Idle]
  /\ UNCHANGED <<disk, store_buffer, write_queue, poolVars, readPoolVars, readVars, hashVars, seen>>

-----------------------------------------------------------------------------
(* async_read                                                              *)

\* memcpy of n units from position off of the buffer at loc to position slot.
Copied(loc, off, slot, n) ==
  {<<slot + i, loc[3] + off + i, write[SB!get(loc)].val>> : i \in 0 .. n - 1}

\* What is left to read from disk after the store buffer was asked, and what was
\* copied from it: a request may lie in two blocks, either of which may be there.
Lookup(s, p, start, length) ==
  LET block_offset == start - (start % DEFAULT_BLOCK_SIZE)
      read_offset == start - block_offset
      len1 == DEFAULT_BLOCK_SIZE - read_offset
      loc1 == SB!torrent_location(s, p, block_offset)
      loc2 == SB!torrent_location(s, p, block_offset + DEFAULT_BLOCK_SIZE)
      fromDisk == [offset |-> start, length |-> length, slot |-> 0, data |-> {}]
  IN  IF read_offset + length > DEFAULT_BLOCK_SIZE
      THEN LET data1 == Copied(loc1, read_offset, 0, len1)
               data2 == Copied(loc2, 0, len1, length - len1)
           IN  CASE SB!hit(loc1) /\ SB!hit(loc2) ->
                      [fromDisk EXCEPT !.length = 0, !.data = data1 \cup data2]
                 [] SB!hit(loc2) /\ ~SB!hit(loc1) ->
                      [fromDisk EXCEPT !.length = len1, !.data = data2]
                 [] SB!hit(loc1) /\ ~SB!hit(loc2) ->
                      [offset |-> block_offset + DEFAULT_BLOCK_SIZE, length |-> length - len1,
                       slot |-> len1, data |-> data1]
                 [] OTHER -> fromDisk
      ELSE IF SB!hit(loc1)
           THEN [fromDisk EXCEPT !.length = 0, !.data = Copied(loc1, read_offset, 0, length)]
           ELSE fromDisk

\* A full hit runs the handler in place.  Without a buffer, and for a request
\* with r.length <= 0 or r.start < 0, the handler gets an error in place.
async_read(j, s, p, start, length) ==
  LET todo == Lookup(s, p, start, length)
      rec == [stage |-> IF todo.length = 0 THEN "held" ELSE "queued", s |-> s, p |-> p,
              start |-> start, length |-> length, offset |-> todo.offset,
              end |-> todo.offset + todo.length, slot |-> todo.slot, data |-> todo.data,
              err |-> FALSE]
  IN  /\ read[j] = Idle
      /\ length > 0 /\ start >= 0
      /\ \/ /\ RP!allocate_buffer(FALSE)
            /\ UNCHANGED <<readVars, seen>>
         \/ /\ RP!allocate_buffer(TRUE)
            /\ read' = [read EXCEPT ![j] = rec]
            /\ read_queue' = IF todo.length = 0 THEN read_queue ELSE Append(read_queue, j)
            /\ seen' = [seen EXCEPT ![j] = Now(Units(s, p, start, length))]
      /\ UNCHANGED <<poolVars, writeVars, hashVars>>

\* Bug: the pool keeps one of its threads back.
StartRead_one_thread_less ==
  /\ read_queue # <<>>
  /\ Cardinality({j \in ReadJob : read[j].stage = "reading"}) < READ_THREADS - 1
  /\ read' = [read EXCEPT ![Head(read_queue)].stage = "reading"]
  /\ read_queue' = Tail(read_queue)
  /\ UNCHANGED <<poolVars, readPoolVars, writeVars, hashVars, seen>>

StartRead ==
  /\ read_queue # <<>>
  /\ Cardinality({j \in ReadJob : read[j].stage = "reading"}) < READ_THREADS
  /\ read' = [read EXCEPT ![Head(read_queue)].stage = "reading"]
  /\ read_queue' = Tail(read_queue)
  /\ UNCHANGED <<poolVars, readPoolVars, writeVars, hashVars, seen>>

\* partition_storage::read, one file slice.
ReadSlice(j) ==
  LET r == read[j]
      c == <<r.s, r.p, r.offset>>
  IN  /\ r.stage = "reading" /\ ~r.err /\ r.offset < r.end
      /\ \E v \in Loaded(c) :
           read' = [read EXCEPT ![j] =
             IF c \in BadName THEN [r EXCEPT !.err = TRUE]
             ELSE [r EXCEPT !.offset = @ + 1, !.slot = @ + 1,
                            !.data = @ \cup {<<r.slot, r.offset, v>>}]]
      /\ UNCHANGED <<poolVars, readPoolVars, writeVars, read_queue, hashVars, seen>>

\* The handler is posted and takes the buffer with it.
FinishRead(j) ==
  /\ read[j].stage = "reading"
  /\ read[j].err \/ read[j].offset = read[j].end
  /\ read' = [read EXCEPT ![j].stage = "posted"]
  /\ UNCHANGED <<poolVars, readPoolVars, writeVars, read_queue, hashVars, seen>>

\* Bug: the handler's argument and the posted lambda both free the buffer.
HandleRead_frees(j) ==
  /\ read[j].stage = "posted"
  /\ RP!free_disk_buffer
  /\ read' = [read EXCEPT ![j].stage = "held"]
  /\ UNCHANGED <<poolVars, writeVars, read_queue, hashVars, seen>>

\* The network thread hands the buffer to libtorrent, which sends and frees it.
HandleRead(j) ==
  /\ read[j].stage = "posted"
  /\ read' = [read EXCEPT ![j].stage = "held"]
  /\ UNCHANGED <<poolVars, readPoolVars, writeVars, read_queue, hashVars, seen>>

FreeRead(j) ==
  /\ read[j].stage = "held"
  /\ RP!free_disk_buffer
  /\ read' = [read EXCEPT ![j] = Idle]
  /\ seen' = [seen EXCEPT ![j] = {}]
  /\ UNCHANGED <<poolVars, writeVars, read_queue, hashVars>>

-----------------------------------------------------------------------------
(* async_hash                                                              *)

\* Without a buffer an error is posted at once.
async_hash(j, s, p) ==
  /\ hash[j] = Idle
  /\ \E got \in BOOLEAN :
       /\ RP!allocate_buffer(got)
       /\ hash' = [hash EXCEPT ![j] =
            [stage |-> IF got THEN "queued" ELSE "posted", s |-> s, p |-> p, i |-> 0,
             offset |-> 0, from |-> 0, end |-> 0, ph |-> <<>>, err |-> ~got, buf |-> got]]
       /\ hash_queue' = IF got THEN Append(hash_queue, j) ELSE hash_queue
       /\ seen' = [seen EXCEPT ![j] = IF got THEN Now(Units(s, p, 0, piece_size[p])) ELSE {}]
  /\ UNCHANGED <<poolVars, writeVars, readVars>>

Hashers == {j \in HashJob : hash[j].stage # "idle" /\ hash[j].buf /\ hash[j].stage # "queued"}

StartHash ==
  /\ hash_queue # <<>>
  /\ Cardinality(Hashers) < HASH_THREADS
  /\ hash' = [hash EXCEPT ![Head(hash_queue)].stage = "hashing"]
  /\ hash_queue' = Tail(hash_queue)
  /\ UNCHANGED <<poolVars, readPoolVars, writeVars, readVars, seen>>

blocks_in_piece(p) == (piece_size[p] + DEFAULT_BLOCK_SIZE - 1) \div DEFAULT_BLOCK_SIZE

\* One turn of the loop: the block comes from the store buffer, or a disk read
\* begins.  (After a short read offset is no longer the start of a block.)
HashBlock(j) ==
  LET h == hash[j]
      loc == SB!torrent_location(h.s, h.p, h.offset)
      len == BlockLength(h.p, h.offset)
  IN  /\ h.stage = "hashing" /\ h.i < blocks_in_piece(h.p)
      /\ hash' = [hash EXCEPT ![j] =
           IF loc \in Location /\ SB!hit(loc)
           THEN [h EXCEPT !.i = @ + 1, !.offset = @ + len,
                   !.ph = @ \o [n \in 1 .. len |-> <<h.offset + n - 1, write[SB!get(loc)].val>>]]
           ELSE [h EXCEPT !.stage = "reading", !.from = h.offset, !.end = h.offset + len]]
      /\ UNCHANGED <<poolVars, readPoolVars, writeVars, readVars, hash_queue, seen>>

\* One file slice of the disk read; an error ends the read, and the loop too
\* when nothing was read.
HashSlice(j) ==
  LET h == hash[j]
      c == <<h.s, h.p, h.offset>>
  IN  /\ h.stage = "reading"
      /\ \E v \in Loaded(c) :
           hash' = [hash EXCEPT ![j] =
             IF c \in BadName
             THEN [h EXCEPT !.err = TRUE, !.stage = "hashing",
                     !.i = IF h.offset = h.from THEN blocks_in_piece(h.p) ELSE @ + 1]
             ELSE [h EXCEPT !.ph = Append(@, <<h.offset, v>>), !.offset = @ + 1,
                     !.stage = IF h.offset + 1 = h.end THEN "hashing" ELSE @,
                     !.i = IF h.offset + 1 = h.end THEN @ + 1 ELSE @]]
      /\ UNCHANGED <<poolVars, readPoolVars, writeVars, readVars, hash_queue, seen>>

\* The hash is final and the handler posted.
FinishHash(j) ==
  /\ hash[j].stage = "hashing" /\ hash[j].i = blocks_in_piece(hash[j].p)
  /\ hash' = [hash EXCEPT ![j].stage = "posted"]
  /\ UNCHANGED <<poolVars, readPoolVars, writeVars, readVars, hash_queue, seen>>

FreeHash(j) ==
  /\ hash[j].stage \in {"posted", "handled"} /\ hash[j].buf
  /\ RP!free_disk_buffer
  /\ hash' = [hash EXCEPT ![j] =
                IF @.stage = "handled" THEN Idle ELSE [@ EXCEPT !.buf = FALSE]]
  /\ seen' = IF hash[j].stage = "handled" THEN [seen EXCEPT ![j] = {}] ELSE seen
  /\ UNCHANGED <<poolVars, writeVars, readVars, hash_queue>>

HandleHash(j) ==
  /\ hash[j].stage = "posted"
  /\ hash' = [hash EXCEPT ![j] =
                IF @.buf THEN [@ EXCEPT !.stage = "handled"] ELSE Idle]
  /\ seen' = IF hash[j].buf THEN seen ELSE [seen EXCEPT ![j] = {}]
  /\ UNCHANGED <<poolVars, readPoolVars, writeVars, readVars, hash_queue>>

-----------------------------------------------------------------------------
RunCallback ==
  /\ WP!RunCallback
  /\ UNCHANGED <<readPoolVars, writeVars, readVars, hashVars, seen>>

Disconnect(o) ==
  /\ WP!Disconnect(o)
  /\ UNCHANGED <<readPoolVars, writeVars, readVars, hashVars, seen>>

\* libtorrent's calls, on the network thread.  Requests lie within their piece
\* and are at most a block long; writes are whole blocks.
Call ==
  \/ \E j \in WriteJob, o \in Observer, loc \in Location, v \in Val : async_write(j, o, loc, v)
  \/ \E j \in ReadJob, c \in Cell, length \in 1 .. DEFAULT_BLOCK_SIZE :
       /\ c[3] + length <= piece_size[c[2]]
       /\ async_read(j, c[1], c[2], c[3], length)
  \/ \E j \in HashJob, s \in Storage, p \in Piece : async_hash(j, s, p)

WriteStep(j) == WriteSlice(j) \/ FinishWrite(j) \/ FreeWrite(j)
ReadStep(j) == ReadSlice(j) \/ FinishRead(j)
HashStep(j) == HashBlock(j) \/ HashSlice(j) \/ FinishHash(j) \/ FreeHash(j)

\* Everything but libtorrent's calls and its reaction to a hash.
Background ==
  \/ StartWrite \/ \E j \in WriteJob : WriteStep(j) \/ HandleWrite(j)
  \/ StartRead \/ \E j \in ReadJob : ReadStep(j) \/ HandleRead(j) \/ FreeRead(j)
  \/ StartHash \/ \E j \in HashJob : HashStep(j)
  \/ RunCallback
  \/ \E o \in Observer : Disconnect(o)

Next == Call \/ Background \/ \E j \in HashJob : HandleHash(j)

Spec == Init /\ [][Next]_vars

\* A pool thread that has a job goes on with it and an idle one takes the next;
\* the network thread runs what is posted to the io_context.
Fairness ==
  /\ WF_vars(StartWrite) /\ WF_vars(StartRead) /\ WF_vars(StartHash) /\ WF_vars(RunCallback)
  /\ \A j \in WriteJob : WF_vars(WriteStep(j)) /\ WF_vars(HandleWrite(j))
  /\ \A j \in ReadJob : WF_vars(ReadStep(j)) /\ WF_vars(HandleRead(j))
  /\ \A j \in HashJob : WF_vars(HashStep(j)) /\ WF_vars(HandleHash(j))

FairSpec == Spec /\ Fairness

-----------------------------------------------------------------------------
(* Correctness                                                             *)

\* A lookup never copies from a freed or reused buffer: an entry of store_buffer_
\* points to the buffer of a write for that very location which its thread has
\* not yet erased and freed, however the writes of a block overlap.
NoDanglingBuffer ==
  \A loc \in Location : SB!hit(loc) =>
    LET w == write[SB!get(loc)]
    IN  w.stage \in {"queued", "writing"} /\ w.buf /\ w.loc = loc

\* The jobs that hold a buffer of the write pool and of the read pool.
WriteHolders == {j \in WriteJob : write[j] # Idle /\ write[j].buf}
ReadHolders == {j \in ReadJob : read[j] # Idle}
HashHolders == {j \in HashJob : hash[j] # Idle /\ hash[j].buf}

\* m_size of each pool is the number of disk_buffer_holders that hold one of its
\* buffers: no path of a job loses a buffer or frees it twice.
BufferAccounting ==
  /\ w_size = Cardinality(WriteHolders)
  /\ r_size = Cardinality(ReadHolders) + Cardinality(HashHolders)

\* When a write's handler is told of success its whole block is on the partition,
\* and stays there until the block is written again.
PostedIsOnDisk ==
  \A j \in WriteJob : write[j].stage = "posted" /\ ~write[j].err =>
    \A c \in BlockOf(write[j].loc) : disk[c] = write[j].val

\* However many jobs wait for however few threads, the handler of every job that
\* was posted to a pool runs.
HandlersRun ==
  /\ \A j \in WriteJob : write[j].stage = "queued" ~> write[j].stage \in {"handled", "idle"}
  /\ \A j \in ReadJob : read[j].stage = "queued" ~> read[j].stage = "held"
  /\ \A j \in HashJob : hash[j].stage = "queued" ~> hash[j].stage \in {"handled", "idle"}

\* The writes that fill the pool also drain it: a peer that was held back resumes.
PeersResume == WP!BlockedPeerResumes

\* The data path leaves its write pool to the protocol of Backpressure.
PoolProtocol == WP!Spec
=============================================================================
