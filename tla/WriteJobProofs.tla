--------------------------- MODULE WriteJobProofs ----------------------------
(***************************************************************************)
(* The arithmetic of blocks and cells and the facts about queues and counts *)
(* that the proofs rest on; then the steps of a write job and of the peers *)
(* that wait for a buffer: they preserve WriteInv and PlacedInv, and with  *)
(* RegInv they are writes of BlockStore or leave it alone.  Last, what the *)
(* steps of writes mean for a piece: for blocks that are written once they *)
(* are Calm, and so preserve FreshInv.                                     *)
(***************************************************************************)
EXTENDS PieceInvariant, TLAPS

\* The provers a step is tried with, in this order, unless it names its own.  (SMT is
\* named twice since its translation of a step has a fixed time, whatever the limit.)
USE Zenon, SMTT(60), SMTT(90)

-----------------------------------------------------------------------------
(* Arithmetic of blocks                                                    *)

\* x - x % DEFAULT_BLOCK_SIZE, as async_read computes it, is a block's offset, and
\* adding a block's length gives the next one.
LEMMA BlockStartIsAligned ==
  ASSUME NEW x \in Nat
  PROVE  /\ BlockStart(x) \in Nat
         /\ BlockStart(x) <= x /\ x < BlockStart(x) + DEFAULT_BLOCK_SIZE
         /\ BlockStart(x) % DEFAULT_BLOCK_SIZE = 0
         /\ (BlockStart(x) + DEFAULT_BLOCK_SIZE) % DEFAULT_BLOCK_SIZE = 0
<1> DEFINE B == DEFAULT_BLOCK_SIZE
           q == x \div B
<1>1. B \in Nat \ {0}
  BY IOAssumption
<1> HIDE DEF B
<1>2. q \in Nat /\ x % B \in 0 .. B - 1 /\ x = B * q + (x % B)
  BY <1>1
<1> HIDE DEF q
<1>3. x - (x % B) = B * q
  BY <1>1, <1>2
<1>4. (B * q) % B = 0 /\ B * q \in Nat
  BY <1>1, <1>2
<1>5. (x - (x % B) + B) % B = 0
  BY <1>1
<1>6. QED
  BY <1>1, <1>2, <1>3, <1>4, <1>5 DEF BlockStart, B

\* A cell is given by its storage, its piece and an offset in the piece.
LEMMA CellForm ==
  ASSUME NEW s \in Storage, NEW p \in Piece, NEW u \in Nat, u < piece_size[p]
  PROVE  <<s, p, u>> \in Cell
<1>1. piece_size[p] \in Nat
  BY IOAssumption
<1>2. u \in 0 .. piece_size[p] - 1
  BY <1>1
<1>3. <<s, p, u>> \in Storage \X {p} \X (0 .. piece_size[p] - 1)
  BY <1>2
<1>4. QED
  BY <1>3 DEF Cell

\* The parts of a cell are those it is made of.
LEMMA CellParts ==
  ASSUME NEW c \in Cell
  PROVE  /\ c[1] \in Storage /\ c[2] \in Piece /\ c[3] \in Nat
         /\ c[3] < piece_size[c[2]] /\ c = <<c[1], c[2], c[3]>>
         /\ piece_size[c[2]] \in Nat
<1>1. PICK p \in Piece : c \in Storage \X {p} \X (0 .. piece_size[p] - 1)
  BY DEF Cell
<1>2. piece_size[p] \in Nat
  BY IOAssumption
<1>3. c[1] \in Storage /\ c[2] = p /\ c[3] \in 0 .. piece_size[p] - 1 /\ c = <<c[1], c[2], c[3]>>
  BY <1>1
<1>4. QED
  BY <1>2, <1>3

\* The units of a range of a piece are cells.
LEMMA UnitsAreCells ==
  ASSUME NEW s \in Storage, NEW p \in Piece, NEW start \in Nat, NEW length \in Nat,
         start + length <= piece_size[p]
  PROVE  Units(s, p, start, length) \subseteq Cell
<1> SUFFICES ASSUME NEW c \in Units(s, p, start, length)
             PROVE  c \in Cell
  OBVIOUS
<1>1. PICK u \in start .. start + length - 1 : c = <<s, p, u>>
  BY DEF Units
<1>2. u \in Nat /\ u < piece_size[p]
  BY SMTT(60), <1>1, IOAssumption
<1>3. QED
  BY <1>1, <1>2, CellForm

\* A block has at least one unit and lies in its piece.
LEMMA BlockInPiece ==
  ASSUME NEW p \in Piece, NEW offset \in Nat, offset < piece_size[p]
  PROVE  /\ BlockLength(p, offset) \in Nat /\ BlockLength(p, offset) > 0
         /\ BlockLength(p, offset) <= DEFAULT_BLOCK_SIZE
         /\ offset + BlockLength(p, offset) <= piece_size[p]
  BY SMTT(60), IOAssumption DEF BlockLength

\* The units of a block are cells.
LEMMA BlockIsCells ==
  ASSUME NEW loc \in Location
  PROVE  BlockOf(loc) \subseteq Cell
<1>1. loc \in Cell
  BY DEF Location
<1>2. /\ loc[1] \in Storage /\ loc[2] \in Piece /\ loc[3] \in Nat /\ loc[3] < piece_size[loc[2]]
  BY <1>1, CellParts
<1>3. QED
  BY <1>2, BlockInPiece, UnitsAreCells DEF BlockOf

\* The key under which the store buffer keeps the block of a unit.
LEMMA KeyIsLocation ==
  ASSUME NEW s \in Storage, NEW p \in Piece, NEW x \in Nat, x < piece_size[p]
  PROVE  <<s, p, BlockStart(x)>> \in Location
<1>1. BlockStart(x) \in Nat /\ BlockStart(x) <= x /\ BlockStart(x) % DEFAULT_BLOCK_SIZE = 0
  BY BlockStartIsAligned
<1>2. BlockStart(x) < piece_size[p]
  BY SMTT(60), <1>1, IOAssumption
<1>3. <<s, p, BlockStart(x)>> \in Cell
  BY <1>1, <1>2, CellForm
<1>4. QED
  BY <1>1, <1>3 DEF Location

\* A unit lies in one block only.
LEMMA BlocksAreDisjoint ==
  ASSUME NEW l \in Location, NEW m \in Location, NEW c \in BlockOf(l), c \in BlockOf(m)
  PROVE  l = m
<1> DEFINE B == DEFAULT_BLOCK_SIZE
<1>1. B \in Nat \ {0}
  BY IOAssumption
<1>2. /\ l[1] \in Storage /\ l[2] \in Piece /\ l[3] \in Nat /\ l[3] < piece_size[l[2]] /\ l = <<l[1], l[2], l[3]>>
      /\ m[1] \in Storage /\ m[2] \in Piece /\ m[3] \in Nat /\ m[3] < piece_size[m[2]] /\ m = <<m[1], m[2], m[3]>>
      /\ l[3] % B = 0 /\ m[3] % B = 0
  BY CellParts DEF Location
<1>3. PICK x \in l[3] .. l[3] + BlockLength(l[2], l[3]) - 1 : c = <<l[1], l[2], x>>
  BY DEF BlockOf, Units
<1>4. PICK y \in m[3] .. m[3] + BlockLength(m[2], m[3]) - 1 : c = <<m[1], m[2], y>>
  BY DEF BlockOf, Units
<1>5. l[1] = m[1] /\ l[2] = m[2] /\ x = y
  BY <1>3, <1>4
<1>6. x \in Int /\ l[3] <= x /\ x < l[3] + B /\ m[3] <= x /\ x < m[3] + B
  BY SMTT(60), <1>1, <1>2, <1>3, <1>4, <1>5, BlockInPiece
<1> HIDE DEF B
<1>7. l[3] = m[3]
  <2> DEFINE q == l[3] \div B
             r == m[3] \div B
  <2>0. ASSUME NEW u \in Nat, u % B = 0 PROVE u \div B \in Nat /\ u = B * (u \div B)
    <3>1. u \div B \in Nat /\ u = B * (u \div B) + (u % B)
      BY <1>1
    <3>2. QED
      BY <1>1, <2>0, <3>1
  <2>1. q \in Nat /\ l[3] = B * q /\ r \in Nat /\ m[3] = B * r
    BY <1>2, <2>0
  <2> HIDE DEF q, r
  <2>2. ASSUME NEW a \in Nat, NEW b \in Nat, a < b PROVE B * a + B <= B * b
    <3>1. B * (a + 1) = B * a + B
      BY <1>1
    <3>2. B * (a + 1) <= B * b
      BY <1>1, <2>2
    <3>3. QED
      BY <3>1, <3>2
  <2>3. B * q \in Nat /\ B * r \in Nat
    BY <1>2, <2>1
  <2>4. ~(q < r)
    BY SMTT(60), <1>1, <1>6, <2>1, <2>2, <2>3
  <2>5. ~(r < q)
    BY SMTT(60), <1>1, <1>6, <2>1, <2>2, <2>3
  <2>6. QED
    BY <2>1, <2>4, <2>5
<1>8. QED
  BY <1>2, <1>5, <1>7

-----------------------------------------------------------------------------
(* Queues: a job is appended, or the head is taken by a thread.            *)

\* A job that is posted joins the queue once, as queued.
LEMMA QueueAppend ==
  ASSUME NEW S, NEW queue \in Seq(S), NEW job, NEW job1, NEW j \in S,
         Queued(queue, job), job[j].stage # "queued", job1[j].stage = "queued",
         \A k \in S : k # j => job1[k] = job[k]
  PROVE  Append(queue, j) \in Seq(S) /\ Queued(Append(queue, j), job1)
<1> DEFINE q1 == Append(queue, j)
<1>1. /\ q1 \in Seq(S)
      /\ DOMAIN q1 = DOMAIN queue \cup {Len(queue) + 1}
      /\ Len(queue) + 1 \notin DOMAIN queue
      /\ \A n \in DOMAIN queue : q1[n] = queue[n] /\ queue[n] \in S
      /\ q1[Len(queue) + 1] = j
  OBVIOUS
<1>2. \A n \in DOMAIN queue : queue[n] # j
  BY DEF Queued
<1> HIDE DEF q1
<1>3. Queued(q1, job1)
  BY SMTT(60), <1>1, <1>2 DEF Queued
<1>4. QED
  BY <1>1, <1>3 DEF q1

\* The job that a thread takes is queued, and those behind it stay so.
LEMMA QueueTail ==
  ASSUME NEW S, NEW queue \in Seq(S), NEW job, NEW job1, queue # <<>>,
         Queued(queue, job), \A k \in S : k # Head(queue) => job1[k] = job[k]
  PROVE  /\ Head(queue) \in S /\ job[Head(queue)].stage = "queued"
         /\ Tail(queue) \in Seq(S) /\ Queued(Tail(queue), job1)
<1> DEFINE q1 == Tail(queue)
<1>1. /\ q1 \in Seq(S)
      /\ 1 \in DOMAIN queue /\ Head(queue) = queue[1]
      /\ \A n \in DOMAIN q1 : /\ n \in Nat \ {0} /\ n + 1 \in DOMAIN queue /\ q1[n] = queue[n + 1]
                              /\ queue[n + 1] \in S
  OBVIOUS
<1>2. Head(queue) \in S /\ job[Head(queue)].stage = "queued"
  BY SMTT(60), <1>1 DEF Queued
<1>3. \A n \in DOMAIN q1 : q1[n] # Head(queue)
  BY SMTT(60), <1>1 DEF Queued
<1> HIDE DEF q1
<1>4. \A n \in DOMAIN q1 : job1[q1[n]].stage = "queued"
  BY SMTT(60), <1>1, <1>3 DEF Queued
<1>5. \A m, n \in DOMAIN q1 : q1[m] = q1[n] => m = n
  BY SMTT(60), <1>1 DEF Queued
<1>6. QED
  BY <1>1, <1>2, <1>4, <1>5 DEF q1, Queued

\* Changing jobs that are not queued, into such, leaves a queue sound.
LEMMA QueueKept ==
  ASSUME NEW S, NEW queue \in Seq(S), NEW job, NEW job1, Queued(queue, job),
         \A k \in S : job[k].stage = "queued" => job1[k] = job[k]
  PROVE  Queued(queue, job1)
<1>1. \A n \in DOMAIN queue : queue[n] \in S
  OBVIOUS
<1>2. QED
  BY <1>1 DEF Queued

-----------------------------------------------------------------------------
(* Counting the jobs that hold a buffer                                    *)

\* The sets of the jobs that hold a buffer are finite.
LEMMA HoldersCounted ==
  ASSUME CountingFacts
  PROVE  Counted(WriteHolders) /\ Counted(ReadHolders) /\ Counted(HashHolders)
<1>1. WriteHolders \subseteq WriteJob /\ ReadHolders \subseteq ReadJob /\ HashHolders \subseteq HashJob
  BY DEF WriteHolders, ReadHolders, HashHolders
<1>2. QED
  BY <1>1 DEF CountingFacts

-----------------------------------------------------------------------------
(* What a step leaves alone                                                *)

\* What leaves the variables of the writes alone preserves WriteInv.
LEMMA WriteStutter == WriteInv /\ UNCHANGED <<writeVars, poolVars>> => WriteInv'
  BY SMTT(60) DEF WriteInv, WriteTypes, writeVars, poolVars, Queued, NoDanglingBuffer, WriteHolders,
         SB!StoreBufferTypeOK, SB!hit, SB!get, WP!TypeOK, WP!PoolTypeOK

\* What leaves the variables of the reads alone preserves ReadInv.
LEMMA ReadStutter == ReadInv /\ UNCHANGED readVars => ReadInv'
  BY DEF ReadInv, readVars, Queued, ReadInRange

\* What leaves the variables of the hashes alone preserves HashInv.
LEMMA HashStutter == HashInv /\ UNCHANGED hashVars => HashInv'
  BY DEF HashInv, hashVars, Queued, HashInRange

\* What leaves the read pool and its users alone preserves ReadPoolInv.
LEMMA ReadPoolStutter ==
  ReadPoolInv /\ UNCHANGED <<readPoolVars, read, hash>> => ReadPoolInv'
  BY DEF ReadPoolInv, readPoolVars, RP!PoolTypeOK, ReadHolders, HashHolders

-----------------------------------------------------------------------------
(* The store buffer as the lookups see it, and the read pool               *)

\* A record of a write job that is not idle.
LEMMA WriteIsRec ==
  ASSUME WriteTypes, NEW j \in WriteJob, write[j].stage # "idle"
  PROVE  write[j] \in WriteRec /\ write[j] # Idle
  BY DEF WriteTypes, Idle

\* What is copied from the store buffer are values of accepted writes.
LEMMA HitIsValue ==
  ASSUME WriteInv, NEW loc \in Location, SB!hit(loc)
  PROVE  write[SB!get(loc)].val \in Val
<1>1. SB!get(loc) \in WriteJob
  BY DEF WriteInv, WriteTypes, SB!StoreBufferTypeOK, SB!hit, SB!get
<1>2. write[SB!get(loc)].stage # "idle"
  BY DEF WriteInv, NoDanglingBuffer
<1>3. write[SB!get(loc)] \in WriteRec
  BY <1>1, <1>2, WriteIsRec DEF WriteInv
<1>4. QED
  BY <1>3 DEF WriteRec

\* An outstanding write has the fields of a write.
LEMMA OutstandingIsRec ==
  ASSUME WriteInv, NEW j \in WriteJob, Outstanding(j)
  PROVE  write[j] \in WriteRec /\ write[j].loc \in Location /\ write[j].offset \in Nat
<1>1. write[j] \in WriteRec
  BY WriteIsRec DEF Outstanding, WriteInv
<1>2. QED
  BY <1>1 DEF WriteRec

\* A read that is not idle has the fields of a read and ends within its piece.
LEMMA ReadIsRec ==
  ASSUME ReadInv, NEW j \in ReadJob, read[j].stage # "idle"
  PROVE  read[j] \in ReadRec /\ read[j] # Idle /\ ReadInRange(read[j])
  BY DEF ReadInv, Idle

\* A hash that is not idle has the fields of a hash and is within its piece.
LEMMA HashIsRec ==
  ASSUME HashInv, NEW j \in HashJob, hash[j].stage # "idle"
  PROVE  hash[j] \in HashRec /\ hash[j] # Idle /\ HashInRange(hash[j])
  BY DEF HashInv, Idle

\* The loop of async_hash runs over the blocks that begin inside the piece.
LEMMA BlocksInPiece ==
  ASSUME NEW p \in Piece, NEW i \in Nat
  PROVE  /\ blocks_in_piece(p) \in Nat
         /\ i < blocks_in_piece(p) => DEFAULT_BLOCK_SIZE * i < piece_size[p]
         /\ DEFAULT_BLOCK_SIZE * i \in Nat
         /\ DEFAULT_BLOCK_SIZE * (i + 1) = DEFAULT_BLOCK_SIZE * i + DEFAULT_BLOCK_SIZE
<1> DEFINE B == DEFAULT_BLOCK_SIZE
           n == piece_size[p]
<1>1. B \in Nat \ {0} /\ n \in Nat
  BY IOAssumption
<1> HIDE DEF B, n
<1>2. (n + B - 1) \div B \in Nat
  BY <1>1
<1>3. i < (n + B - 1) \div B => B * i < n
  BY <1>1
<1>4. B * i \in Nat /\ B * (i + 1) = B * i + B
  BY SMTT(60), <1>1
<1>5. QED
  BY <1>2, <1>3, <1>4 DEF B, n, blocks_in_piece

\* A copy from the store buffer is a set of units with a place and a value.
LEMMA CopiedTypes ==
  ASSUME WriteInv, NEW loc \in Location, SB!hit(loc), NEW off \in Nat, NEW slot \in Nat, NEW n \in Nat
  PROVE  Copied(loc, off, slot, n) \in SUBSET (Int \X Nat \X Val)
<1>1. loc[3] \in Nat
  BY CellParts DEF Location
<1>2. write[SB!get(loc)].val \in Val
  BY HitIsValue
<1>3. \A i \in 0 .. n - 1 : slot + i \in Int /\ loc[3] + off + i \in Nat
  BY SMTT(60), <1>1
<1>4. QED
  BY SMTT(60), <1>2, <1>3 DEF Copied

\* What Lookup leaves to be read from disk lies in the piece.
LEMMA LookupTypes ==
  ASSUME WriteInv, NEW s \in Storage, NEW p \in Piece, NEW start \in Nat,
         NEW length \in 1 .. DEFAULT_BLOCK_SIZE, start + length <= piece_size[p]
  PROVE  LET todo == Lookup(s, p, start, length)
         IN  /\ todo.offset \in Nat /\ todo.length \in Nat /\ todo.slot \in Int
             /\ todo.data \in SUBSET (Int \X Nat \X Val)
             /\ todo.offset + todo.length <= piece_size[p]
<1> DEFINE B == DEFAULT_BLOCK_SIZE
           block_offset == BlockStart(start)
           read_offset == start - block_offset
           len1 == B - read_offset
           loc1 == <<s, p, block_offset>>
           loc2 == <<s, p, block_offset + B>>
           todo == Lookup(s, p, start, length)
           fromDisk == [offset |-> start, length |-> length, slot |-> 0, data |-> {}]
           data1 == Copied(loc1, read_offset, 0, len1)
           data2 == Copied(loc2, 0, len1, length - len1)
           Units3 == SUBSET (Int \X Nat \X Val)
<1>1. B \in Nat \ {0} /\ piece_size[p] \in Nat /\ length \in Nat /\ length > 0
  BY SMTT(60), IOAssumption
<1>2. /\ block_offset \in Nat /\ block_offset <= start /\ start < block_offset + B
      /\ (block_offset + B) % B = 0
  BY BlockStartIsAligned
<1>3. /\ loc1 \in Location
      /\ read_offset + length > B => loc2 \in Location
  <2>1. loc1 \in Location
    BY SMTT(60), <1>1, KeyIsLocation
  <2> SUFFICES ASSUME read_offset + length > B
               PROVE  loc2 \in Location
    BY <2>1
  <2>2. block_offset + B \in Nat /\ block_offset + B < piece_size[p]
    BY SMTT(60), <1>1, <1>2
  <2>3. loc2 \in Cell
    BY <2>2, CellForm
  <2>4. QED
    BY <1>2, <2>3 DEF Location
<1>4. read_offset \in Nat /\ len1 \in Nat
  BY <1>1, <1>2
<1>5. read_offset + length > B => length - len1 \in Nat
  BY <1>1, <1>2
<1>6. todo = IF read_offset + length > B
             THEN CASE SB!hit(loc1) /\ SB!hit(loc2) ->
                         [fromDisk EXCEPT !.length = 0, !.data = data1 \cup data2]
                    [] SB!hit(loc2) /\ ~SB!hit(loc1) ->
                         [fromDisk EXCEPT !.length = len1, !.data = data2]
                    [] SB!hit(loc1) /\ ~SB!hit(loc2) ->
                         [offset |-> block_offset + B, length |-> length - len1,
                          slot |-> len1, data |-> data1]
                    [] OTHER -> fromDisk
             ELSE IF SB!hit(loc1)
                  THEN [fromDisk EXCEPT !.length = 0, !.data = Copied(loc1, read_offset, 0, length)]
                  ELSE fromDisk
  BY DEF Lookup, SB!torrent_location, BlockStart
<1>7. /\ SB!hit(loc1) => data1 \in Units3 /\ Copied(loc1, read_offset, 0, length) \in Units3
      /\ read_offset + length > B /\ SB!hit(loc2) => data2 \in Units3
  BY <1>1, <1>3, <1>4, <1>5, CopiedTypes
<1> HIDE DEF block_offset, loc1, loc2, todo, data1, data2
<1>8. CASE read_offset + length > B /\ SB!hit(loc1) /\ SB!hit(loc2)
  <2>1. todo = [offset |-> start, length |-> 0, slot |-> 0, data |-> data1 \cup data2]
    BY ZenonT(60), <1>6, <1>8
  <2>2. data1 \cup data2 \in Units3
    BY <1>7, <1>8
  <2>3. QED
    BY <1>1, <2>1, <2>2 DEF todo
<1>9. CASE read_offset + length > B /\ SB!hit(loc2) /\ ~SB!hit(loc1)
  <2>1. todo = [offset |-> start, length |-> len1, slot |-> 0, data |-> data2]
    BY ZenonT(60), <1>6, <1>9
  <2>2. QED
    BY SMTT(60), <1>1, <1>2, <1>4, <1>7, <1>9, <2>1 DEF todo
<1>10. CASE read_offset + length > B /\ SB!hit(loc1) /\ ~SB!hit(loc2)
  <2>1. todo = [offset |-> block_offset + B, length |-> length - len1, slot |-> len1, data |-> data1]
    BY <1>6, <1>10
  <2>2. QED
    BY SMTT(60), <1>1, <1>2, <1>4, <1>5, <1>7, <1>10, <2>1 DEF todo
<1>11. CASE ~(read_offset + length > B) /\ SB!hit(loc1)
  <2>1. todo = [offset |-> start, length |-> 0, slot |-> 0, data |-> Copied(loc1, read_offset, 0, length)]
    BY ZenonT(60), <1>6, <1>11
  <2>2. QED
    BY SMTT(60), <1>1, <1>7, <1>11, <2>1 DEF todo
<1>12. CASE \/ read_offset + length > B /\ ~SB!hit(loc1) /\ ~SB!hit(loc2)
            \/ ~(read_offset + length > B) /\ ~SB!hit(loc1)
  <2>1. todo = fromDisk
    BY <1>6, <1>12
  <2>2. QED
    BY <1>1, <2>1 DEF todo
<1>13. QED
  BY <1>8, <1>9, <1>10, <1>11, <1>12

\* A step that changes neither the read pool nor who holds its buffers preserves ReadPoolInv.
LEMMA ReadPoolKept ==
  ASSUME ReadPoolInv, UNCHANGED readPoolVars, ReadHolders' = ReadHolders, HashHolders' = HashHolders
  PROVE  ReadPoolInv'
  BY DEF ReadPoolInv, readPoolVars, RP!PoolTypeOK

\* allocate_buffer of the read pool counts the buffer it gives.
LEMMA AllocateTypes ==
  ASSUME RP!PoolTypeOK, NEW got \in BOOLEAN, RP!allocate_buffer(got)
  PROVE  RP!PoolTypeOK' /\ r_size' = IF got THEN r_size + 1 ELSE r_size
<1> USE DEF RP!PoolTypeOK, RP!allocate_buffer, RP!allocate_buffer_impl
<1>1. r_size' \in 0 .. BUFFER_COUNT
  BY SMTT(60), IOAssumption
<1>2. r_exceeded' \in BOOLEAN
  OBVIOUS
<1>3. QED
  BY <1>1, <1>2

\* free_disk_buffer of the read pool takes one buffer off the count.
LEMMA FreeTypes ==
  ASSUME RP!PoolTypeOK, RP!free_disk_buffer, r_size > 0
  PROVE  RP!PoolTypeOK' /\ r_size' = r_size - 1
<1> USE DEF RP!PoolTypeOK, RP!free_disk_buffer
<1>1. r_size' \in 0 .. BUFFER_COUNT /\ r_size' = r_size - 1
  BY SMTT(60), IOAssumption
<1>2. r_exceeded' \in BOOLEAN
  <2>1. CASE RP!Reopens(r_size - 1)
    BY ZenonT(60), <2>1 DEF RP!check_buffer_level
  <2>2. CASE ~RP!Reopens(r_size - 1)
    BY <2>2 DEF RP!check_buffer_level
  <2>3. QED
    BY <2>1, <2>2
<1>3. QED
  BY <1>1, <1>2

\* What a new request would see of a cell is a value.
LEMMA CurrentIsValue ==
  ASSUME WriteInv, NEW c \in Cell
  PROVE  Current(c) \in Val
<1> DEFINE loc == SB!torrent_location(c[1], c[2], c[3] - (c[3] % DEFAULT_BLOCK_SIZE))
<1>1. loc \in Location
  BY CellParts, KeyIsLocation DEF SB!torrent_location, BlockStart
<1>2. SB!hit(loc) => write[SB!get(loc)].val \in Val
  BY <1>1, HitIsValue
<1>3. disk[c] \in Val
  BY DEF WriteInv, WriteTypes
<1>4. QED
  BY <1>2, <1>3 DEF Current

\* What a new request would see of some cells is a set of cells with values.
LEMMA NowTypes ==
  ASSUME WriteInv, NEW cells \in SUBSET Cell
  PROVE  Now(cells) \in SUBSET (Cell \X Val)
  BY SMTT(60), CurrentIsValue DEF Now

\* A request that is over forgets its history.
LEMMA ForgetSeen ==
  ASSUME SeenInv, NEW j \in ReadJob \cup HashJob, FreeRead(j) \/ FreeHash(j) \/ HandleHash(j)
  PROVE  SeenInv'
<1>1. UNCHANGED seen \/ seen' = [seen EXCEPT ![j] = {}]
  BY DEF FreeRead, FreeHash, HandleHash
<1>2. QED
  BY <1>1 DEF SeenInv

-----------------------------------------------------------------------------
(* The steps of writes and of peers keep the invariant                     *)

\* One lemma for the steps of each kind of job: what they change is preserved by
\* the lemmas above, the rest is unchanged.
LEMMA WriteStepIInv ==
  CountingFacts /\ IInv /\ (WriteAction \/ PeerAction) => IInv'
<1>WriteQueueKept.
  ASSUME WriteInv, write_queue' = write_queue,
         \A k \in WriteJob : write[k].stage = "queued" => write'[k] = write[k]
  PROVE  Queued(write_queue', write')
  <2> USE <1>WriteQueueKept
  <2>1. write_queue \in Seq(WriteJob) /\ Queued(write_queue, write)
    BY DEF WriteInv, WriteTypes
  <2>2. Queued(write_queue, write')
    BY SMTT(60), <2>1, QueueKept
  <2>3. QED
    BY <2>2
<1>WriteCallStep.
  ASSUME CountingFacts, WriteInv, NEW j \in WriteJob, NEW o \in Observer, NEW loc \in Location, NEW v \in Val,
         async_write(j, o, loc, v)
  PROVE  WriteInv'
  <2> USE <1>WriteCallStep
  <2> PICK got \in BOOLEAN :
        /\ WP!PeerWrite(o, got)
        /\ write' = [write EXCEPT ![j] =
              [stage |-> IF got THEN "queued" ELSE "posted", loc |-> loc, val |-> v,
               offset |-> loc[3], err |-> ~got /\ Writable(loc) # BlockOf(loc), buf |-> got]]
        /\ IF got
           THEN /\ SB!insert(loc, j)
                /\ write_queue' = Append(write_queue, j)
                /\ UNCHANGED disk
           ELSE /\ \E done \in Stored(Writable(loc)) :
                     disk' = [c \in Cell |-> IF c \in done THEN v ELSE disk[c]]
                /\ UNCHANGED <<store_buffer, write_queue>>
    BY ZenonT(60) DEF async_write
  <2>0. write[j] = Idle /\ Idle.stage = "idle"
    BY DEF async_write, Idle
  <2>a. loc[3] \in Nat
    BY CellParts DEF Location
  <2> USE DEF WriteInv, WriteTypes
  <2>1. write'[j] \in WriteRec /\ write'[j] # Idle /\ write'[j].loc = loc /\ write'[j].buf = got
    <3>1. (~got /\ Writable(loc) # BlockOf(loc)) \in BOOLEAN
      OBVIOUS
    <3>2. QED
      BY <3>1, <2>a DEF WriteRec, Idle
  <2>2. \A k \in WriteJob : k # j => write'[k] = write[k]
    OBVIOUS
  <2>3. write' \in [WriteJob -> WriteRec \cup {Idle}]
    BY <2>1
  <2>4. WP!TypeOK'
    BY SMTT(60), IOAssumption DEF WP!TypeOK, WP!PoolTypeOK, WP!PeerWrite, WP!allocate_buffer_observed,
                        WP!allocate_buffer_impl
  <2>5. CASE got
    <3>1. disk' = disk /\ write_queue' = Append(write_queue, j) /\ SB!insert(loc, j)
      BY <2>5
    <3>2. write'[j].stage = "queued" /\ write'[j].buf
      BY <2>5
    <3>3. write_queue' \in Seq(WriteJob) /\ Queued(write_queue', write')
      BY ZenonT(60), <3>1, <3>2, <2>0, <2>2, QueueAppend
    <3>4. SB!StoreBufferTypeOK'
      BY <3>1 DEF SB!insert, SB!StoreBufferTypeOK, SB!hit
    <3>5. NoDanglingBuffer'
      <4> SUFFICES ASSUME NEW l \in Location, store_buffer'[l] # NoJob
                   PROVE  /\ write'[store_buffer'[l]].stage \in {"queued", "writing"}
                          /\ write'[store_buffer'[l]].buf /\ write'[store_buffer'[l]].loc = l
        BY DEF NoDanglingBuffer, SB!hit, SB!get
      <4>1. CASE store_buffer'[l] = store_buffer[l]
        <5>1. store_buffer[l] \in WriteJob
          BY <4>1 DEF SB!StoreBufferTypeOK
        <5>2. /\ write[store_buffer[l]].stage \in {"queued", "writing"}
              /\ write[store_buffer[l]].buf /\ write[store_buffer[l]].loc = l
          BY <4>1 DEF NoDanglingBuffer, SB!hit, SB!get
        <5>3. store_buffer[l] # j
          BY <5>2, <2>0
        <5>4. QED
          BY <4>1, <5>1, <5>2, <5>3, <2>2
      <4>2. CASE store_buffer'[l] # store_buffer[l]
        <5>1. l = loc /\ store_buffer'[l] = j
          BY <3>1, <4>2 DEF SB!insert, SB!hit, SB!StoreBufferTypeOK
        <5>2. QED
          BY <5>1, <3>2, <2>1
      <4>3. QED
        BY <4>1, <4>2
    <3>6. w_size' = Cardinality(WriteHolders')
      <4>1. WriteHolders' = WriteHolders \cup {j} /\ j \notin WriteHolders
        BY <2>0, <2>1, <2>2, <2>5 DEF WriteHolders
      <4>2. w_size' = w_size + 1
        BY <2>5 DEF WP!PeerWrite, WP!allocate_buffer_observed, WP!allocate_buffer_impl
      <4>3. QED
        BY <4>1, <4>2, HoldersCounted DEF Counted
    <3>7. QED
      BY <3>1, <3>3, <3>4, <3>5, <3>6, <2>3, <2>4
  <2>6. CASE ~got
    <3>1. /\ \E done \in Stored(Writable(loc)) :
               disk' = [c \in Cell |-> IF c \in done THEN v ELSE disk[c]]
          /\ store_buffer' = store_buffer /\ write_queue' = write_queue
      BY <2>6
    <3>2. write'[j].stage = "posted" /\ ~write'[j].buf
      BY <2>6
    <3>3. Queued(write_queue', write')
      <4>1. \A k \in WriteJob : write[k].stage = "queued" => write'[k] = write[k]
        BY <2>0, <2>2
      <4>2. QED
        BY <4>1, <3>1, <1>WriteQueueKept
    <3>4. disk' \in [Cell -> Val] /\ SB!StoreBufferTypeOK'
      BY <3>1 DEF SB!StoreBufferTypeOK
    <3>5. NoDanglingBuffer'
      BY SMTT(60), <3>1, <2>0, <2>2 DEF NoDanglingBuffer, SB!hit, SB!get, SB!StoreBufferTypeOK
    <3>6. w_size' = Cardinality(WriteHolders')
      <4>1. WriteHolders' = WriteHolders
        BY <2>0, <2>1, <2>2, <3>2 DEF WriteHolders
      <4>2. w_size' = w_size
        BY <2>6 DEF WP!PeerWrite, WP!allocate_buffer_observed, WP!allocate_buffer_impl
      <4>3. QED
        BY <4>1, <4>2
    <3>7. QED
      BY <3>1, <3>3, <3>4, <3>5, <3>6, <2>3, <2>4
  <2>7. QED
    BY <2>5, <2>6
<1>StartWriteStep. WriteInv /\ StartWrite => WriteInv'
  <2> SUFFICES ASSUME WriteInv, StartWrite
               PROVE  WriteInv'
    OBVIOUS
  <2> DEFINE j == Head(write_queue)
  <2> USE DEF WriteInv, WriteTypes
  <2>1. /\ write_queue # <<>> /\ write_queue' = Tail(write_queue)
        /\ write' = [write EXCEPT ![j].stage = "writing"]
        /\ UNCHANGED <<disk, store_buffer, poolVars>>
    BY DEF StartWrite
  <2>2. \A k \in WriteJob : k # j => write'[k] = write[k]
    BY <2>1
  <2>3. /\ j \in WriteJob /\ write[j].stage = "queued"
        /\ write_queue' \in Seq(WriteJob) /\ Queued(write_queue', write')
    BY ZenonT(60), <2>1, <2>2, QueueTail
  <2> HIDE DEF j
  <2>4. write[j] \in WriteRec
    BY <2>3, WriteIsRec
  <2>5. /\ write'[j] \in WriteRec /\ write'[j].stage = "writing"
        /\ write'[j].loc = write[j].loc /\ write'[j].buf = write[j].buf
    BY <2>1, <2>3, <2>4 DEF WriteRec
  <2>6. write' \in [WriteJob -> WriteRec \cup {Idle}]
    BY ZenonT(60), <2>1, <2>5
  <2>7. WriteHolders' = WriteHolders
    <3>1. write'[j] # Idle /\ write[j] # Idle
      BY SMTT(60), <2>3, <2>5 DEF Idle
    <3>2. QED
      BY <3>1, <2>2, <2>3, <2>5 DEF WriteHolders
  <2>8. NoDanglingBuffer'
    BY SMTT(60), <2>1, <2>2, <2>3, <2>5 DEF NoDanglingBuffer, SB!hit, SB!get, SB!StoreBufferTypeOK
  <2>9. QED
    BY <2>1, <2>3, <2>6, <2>7, <2>8
       DEF poolVars, WP!TypeOK, WP!PoolTypeOK, SB!StoreBufferTypeOK
\* Steps of a job in a thread's hands that keep its location and its buffer.
<1>WritingStep.
  ASSUME WriteInv, NEW j \in WriteJob, write[j].stage = "writing", UNCHANGED <<write_queue, poolVars>>,
         write' = [write EXCEPT ![j] = write'[j]], write'[j] \in WriteRec,
         write'[j].stage # "queued", write'[j].loc = write[j].loc, write'[j].buf = write[j].buf,
         disk' \in [Cell -> Val],
         \/ write'[j].stage = "writing" /\ UNCHANGED store_buffer
         \/ store_buffer' = [store_buffer EXCEPT ![write[j].loc] = NoJob]
  PROVE  WriteInv'
  <2> USE <1>WritingStep
  <2> USE DEF WriteInv, WriteTypes
  <2>1. write[j] \in WriteRec /\ write[j] # Idle
    BY WriteIsRec
  <2>2. write'[j] # Idle
    BY SMTT(60) DEF WriteRec, Idle
  <2>3. \A k \in WriteJob : k # j => write'[k] = write[k]
    OBVIOUS
  <2>4. write' \in [WriteJob -> WriteRec \cup {Idle}]
    OBVIOUS
  <2>5. Queued(write_queue', write')
    <3>1. \A k \in WriteJob : write[k].stage = "queued" => write'[k] = write[k]
      BY <2>3
    <3>2. QED
      BY <3>1, <1>WriteQueueKept
  <2>6. WriteHolders' = WriteHolders
    BY <2>1, <2>2, <2>3 DEF WriteHolders
  <2>7. SB!StoreBufferTypeOK'
    BY DEF SB!StoreBufferTypeOK
  <2>8. NoDanglingBuffer'
    <3> SUFFICES ASSUME NEW l \in Location, store_buffer'[l] # NoJob
                 PROVE  /\ write'[store_buffer'[l]].stage \in {"queued", "writing"}
                        /\ write'[store_buffer'[l]].buf /\ write'[store_buffer'[l]].loc = l
      BY DEF NoDanglingBuffer, SB!hit, SB!get
    <3>1. write[j].loc \in Location
      BY <2>1 DEF WriteRec
    <3>2. store_buffer'[l] = store_buffer[l]
      BY <3>1 DEF SB!StoreBufferTypeOK
    <3>3. store_buffer[l] \in WriteJob
      BY <3>2 DEF SB!StoreBufferTypeOK
    <3>4. /\ write[store_buffer[l]].stage \in {"queued", "writing"}
          /\ write[store_buffer[l]].buf /\ write[store_buffer[l]].loc = l
      BY <3>2 DEF NoDanglingBuffer, SB!hit, SB!get
    <3>5. CASE store_buffer[l] = j
      BY SMTT(60), <3>1, <3>2, <3>4, <3>5 DEF SB!StoreBufferTypeOK
    <3>6. CASE store_buffer[l] # j
      BY <3>2, <3>3, <3>4, <3>6, <2>3
    <3>7. QED
      BY <3>5, <3>6
  <2>9. QED
    BY <2>4, <2>5, <2>6, <2>7, <2>8 DEF poolVars, WP!TypeOK, WP!PoolTypeOK
<1>WriteSliceStep.
  ASSUME WriteInv, NEW j \in WriteJob, WriteSlice(j)
  PROVE  WriteInv'
  <2> USE <1>WriteSliceStep
  <2>1. write[j].stage = "writing" /\ write[j] \in WriteRec
    BY WriteIsRec DEF WriteSlice, WriteInv
  <2> DEFINE c == <<write[j].loc[1], write[j].loc[2], write[j].offset>>
  <2>2. CASE c \in BadName
    <3>1. write' = [write EXCEPT ![j].err = TRUE] /\ UNCHANGED <<disk, store_buffer, write_queue, poolVars>>
      BY <2>2 DEF WriteSlice
    <3>2. /\ write'[j] \in WriteRec /\ write'[j].stage = "writing"
          /\ write'[j].loc = write[j].loc /\ write'[j].buf = write[j].buf
          /\ write' = [write EXCEPT ![j] = write'[j]]
      BY ZenonT(60), <2>1, <3>1 DEF WriteInv, WriteTypes, WriteRec
    <3>3. QED
      BY ZenonT(60), <2>1, <3>1, <3>2, <1>WritingStep DEF WriteInv, WriteTypes
  <2>3. CASE c \notin BadName
    <3>1. /\ \E done \in Stored({c}) :
               disk' = [d \in Cell |-> IF d \in done THEN write[j].val ELSE disk[d]]
          /\ write' = [write EXCEPT ![j].offset = @ + 1]
          /\ UNCHANGED <<store_buffer, write_queue, poolVars>>
      BY <2>3 DEF WriteSlice
    <3>2. /\ write'[j] \in WriteRec /\ write'[j].stage = "writing"
          /\ write'[j].loc = write[j].loc /\ write'[j].buf = write[j].buf
          /\ write' = [write EXCEPT ![j] = write'[j]]
      BY SMTT(60), <2>1, <3>1 DEF WriteInv, WriteTypes, WriteRec
    <3>3. disk' \in [Cell -> Val]
      BY ZenonT(60), <2>1, <3>1 DEF WriteInv, WriteTypes, WriteRec
    <3>4. QED
      BY ZenonT(60), <2>1, <3>1, <3>2, <3>3, <1>WritingStep
  <2>4. QED
    BY <2>2, <2>3
<1>FinishWriteStep.
  ASSUME WriteInv, NEW j \in WriteJob, FinishWrite(j)
  PROVE  WriteInv'
  <2> USE <1>FinishWriteStep
  <2>1. write[j].stage = "writing" /\ write[j] \in WriteRec
    BY WriteIsRec DEF FinishWrite, WriteInv
  <2>2. /\ store_buffer' = [store_buffer EXCEPT ![write[j].loc] = NoJob]
        /\ write' = [write EXCEPT ![j].stage = "posted"]
        /\ UNCHANGED <<disk, write_queue, poolVars>>
    BY DEF FinishWrite, SB!erase
  <2>3. /\ write'[j] \in WriteRec /\ write'[j].stage = "posted"
        /\ write'[j].loc = write[j].loc /\ write'[j].buf = write[j].buf
        /\ write' = [write EXCEPT ![j] = write'[j]]
    BY <2>1, <2>2 DEF WriteInv, WriteTypes, WriteRec
  <2>4. QED
    BY ZenonT(60), <2>1, <2>2, <2>3, <1>WritingStep DEF WriteInv, WriteTypes
<1>FreeBufferTypes.
  ASSUME WP!TypeOK, WP!FreeBuffer
  PROVE  WP!TypeOK'
  <2> USE <1>FreeBufferTypes
  <2> USE DEF WP!TypeOK, WP!PoolTypeOK
  <2>1. w_size' \in 0 .. BUFFER_COUNT
    BY SMTT(60), IOAssumption DEF WP!FreeBuffer, WP!free_disk_buffer
  <2>2. w_exceeded' \in BOOLEAN /\ w_observers' \in SUBSET Observer
    <3>1. CASE WP!Reopens(w_size - 1)
      BY ZenonT(60), <3>1 DEF WP!FreeBuffer, WP!free_disk_buffer, WP!check_buffer_level
    <3>2. CASE ~WP!Reopens(w_size - 1)
      BY <3>2 DEF WP!FreeBuffer, WP!free_disk_buffer, WP!check_buffer_level
    <3>3. QED
      BY <3>1, <3>2
  <2>3. posted' \in Seq(SUBSET Observer)
    <3>1. WP!Posted(w_size - 1) \in Seq(SUBSET Observer)
      <4>1. <<w_observers>> \in Seq(SUBSET Observer) /\ <<>> \in Seq(SUBSET Observer)
        OBVIOUS
      <4>2. QED
        BY ZenonT(60), <4>1 DEF WP!Posted
    <3>2. QED
      BY <3>1 DEF WP!FreeBuffer
  <2>4. QED
    BY <2>1, <2>2, <2>3 DEF WP!FreeBuffer
<1>FreeWriteStep.
  ASSUME CountingFacts, WriteInv, NEW j \in WriteJob, FreeWrite(j)
  PROVE  WriteInv'
  <2> USE <1>FreeWriteStep
  <2> USE DEF WriteInv, WriteTypes
  <2>1. /\ write[j].stage \in {"posted", "handled"} /\ write[j].buf
        /\ write[j] \in WriteRec /\ write[j] # Idle
    BY WriteIsRec DEF FreeWrite
  <2>2. /\ WP!FreeBuffer
        /\ write' = [write EXCEPT ![j] = IF write[j].stage = "handled" THEN Idle
                                         ELSE [write[j] EXCEPT !.buf = FALSE]]
        /\ UNCHANGED <<disk, store_buffer, write_queue>>
    BY DEF FreeWrite
  <2>3. /\ \A k \in WriteJob : k # j => write'[k] = write[k]
        /\ write'[j] = Idle \/ (write'[j] \in WriteRec /\ write'[j].buf = FALSE)
    <3>1. \A k \in WriteJob : k # j => write'[k] = write[k]
      BY <2>2
    <3>2. CASE write[j].stage = "handled"
      <4>1. write'[j] = Idle
        BY <2>2, <3>2
      <4>2. QED
        BY <3>1, <4>1
    <3>3. CASE write[j].stage # "handled"
      <4>1. write'[j] = [write[j] EXCEPT !.buf = FALSE]
        BY <2>2, <3>3
      <4>2. QED
        BY ZenonT(60), <2>1, <3>1, <4>1 DEF WriteRec
    <3>4. QED
      BY ZenonT(60), <3>2, <3>3
  <2>4. write' \in [WriteJob -> WriteRec \cup {Idle}]
    BY <2>2, <2>3
  <2>5. Queued(write_queue', write')
    <3>1. \A k \in WriteJob : write[k].stage = "queued" => write'[k] = write[k]
      BY <2>1, <2>3
    <3>2. QED
      BY <3>1, <2>2, <1>WriteQueueKept
  <2>6. WriteHolders' = WriteHolders \ {j} /\ j \in WriteHolders
    BY <2>1, <2>3 DEF WriteHolders
  <2>7. w_size' = Cardinality(WriteHolders') /\ w_size \in Nat /\ w_size > 0
    BY <2>2, <2>6, HoldersCounted DEF WP!FreeBuffer, WP!free_disk_buffer, Counted
  <2>8. WP!TypeOK'
    BY <2>2, <1>FreeBufferTypes
  <2>9. NoDanglingBuffer'
    BY <2>1, <2>2, <2>3 DEF NoDanglingBuffer, SB!hit, SB!get, SB!StoreBufferTypeOK
  <2>10. SB!StoreBufferTypeOK'
    BY <2>2 DEF SB!StoreBufferTypeOK
  <2>11. QED
    BY <2>2, <2>4, <2>5, <2>7, <2>8, <2>9, <2>10
<1>HandleWriteStep.
  ASSUME WriteInv, NEW j \in WriteJob, HandleWrite(j)
  PROVE  WriteInv'
  <2> USE <1>HandleWriteStep
  <2> USE DEF WriteInv, WriteTypes
  <2>1. write[j].stage = "posted" /\ write[j] \in WriteRec /\ write[j] # Idle
    BY WriteIsRec DEF HandleWrite
  <2>2. /\ write' = [write EXCEPT ![j] = IF write[j].buf THEN [write[j] EXCEPT !.stage = "handled"]
                                         ELSE Idle]
        /\ UNCHANGED <<disk, store_buffer, write_queue, poolVars>>
    BY DEF HandleWrite
  <2>3. /\ \A k \in WriteJob : k # j => write'[k] = write[k]
        /\ \/ ~write[j].buf /\ write'[j] = Idle
           \/ /\ write[j].buf /\ write'[j] \in WriteRec /\ write'[j].buf = write[j].buf
              /\ write'[j].stage = "handled"
    BY <2>1, <2>2 DEF WriteRec
  <2>4. write' \in [WriteJob -> WriteRec \cup {Idle}]
    BY <2>2, <2>3
  <2>5. Queued(write_queue', write')
    <3>1. \A k \in WriteJob : write[k].stage = "queued" => write'[k] = write[k]
      BY <2>1, <2>3
    <3>2. QED
      BY <3>1, <2>2, <1>WriteQueueKept
  <2>6. WriteHolders' = WriteHolders
    BY SMTT(60), <2>1, <2>3 DEF WriteHolders, Idle
  <2>7. NoDanglingBuffer'
    BY <2>1, <2>2, <2>3 DEF NoDanglingBuffer, SB!hit, SB!get, SB!StoreBufferTypeOK
  <2>8. QED
    BY <2>2, <2>4, <2>5, <2>6, <2>7 DEF SB!StoreBufferTypeOK, poolVars, WP!TypeOK, WP!PoolTypeOK
\* The callbacks of the write pool and a peer's leaving touch neither jobs nor counts.
<1>PeerStep.
  ASSUME WriteInv, RunCallback \/ \E o \in Observer : Disconnect(o)
  PROVE  WriteInv'
  <2> USE <1>PeerStep
  <2>1. UNCHANGED <<writeVars, w_size, w_exceeded, w_observers>>
    BY DEF RunCallback, Disconnect, WP!RunCallback, WP!Disconnect
  <2>2. peer' \in [Observer -> {"sending", "blocked", "gone"}] /\ posted' \in Seq(SUBSET Observer)
    <3> USE DEF WriteInv, WP!TypeOK
    <3>1. CASE RunCallback
      BY SMTT(60), <3>1 DEF RunCallback, WP!RunCallback, WP!watermark_callback
    <3>2. CASE \E o \in Observer : Disconnect(o)
      BY <3>2 DEF Disconnect, WP!Disconnect
    <3>3. QED
      BY <3>1, <3>2
  <2>3. WP!TypeOK'
    BY <2>1, <2>2 DEF WriteInv, WP!TypeOK, WP!PoolTypeOK
  <2>4. QED
    BY <2>1, <2>3 DEF WriteInv, WriteTypes, writeVars, Queued, NoDanglingBuffer, WriteHolders,
                      SB!StoreBufferTypeOK, SB!hit, SB!get
<1>WriteCallSeen.
  ASSUME SeenInv, NEW j, NEW o, NEW loc \in Location, NEW v \in Val, async_write(j, o, loc, v)
  PROVE  SeenInv'
  <2> USE <1>WriteCallSeen
  <2>1. seen' = [k \in ReadJob \cup HashJob |->
                   seen[k] \cup {<<c, v>> : c \in Wanted(k) \cap BlockOf(loc)}]
    BY DEF async_write
  <2>2. \A k \in ReadJob \cup HashJob :
          {<<c, v>> : c \in Wanted(k) \cap BlockOf(loc)} \in SUBSET (Cell \X Val)
    BY SMTT(60), BlockIsCells
  <2>3. QED
    BY <2>1, <2>2 DEF SeenInv
<1> SUFFICES ASSUME CountingFacts, IInv, WriteAction \/ PeerAction
             PROVE  IInv'
  OBVIOUS
<1> USE DEF IInv, WriteAction, PeerAction
<1>1. UNCHANGED <<readPoolVars, readVars, hashVars>>
  BY ZenonT(60) DEF async_write, StartWrite, WriteStep, WriteSlice, FinishWrite, FreeWrite, HandleWrite,
         RunCallback, Disconnect
<1>2. ReadInv' /\ HashInv' /\ ReadPoolInv'
  BY <1>1, ReadStutter, HashStutter, ReadPoolStutter DEF readVars, hashVars
<1>3. WriteInv'
  <2>1. CASE \E j \in WriteJob, o \in Observer, loc \in Location, v \in Val : async_write(j, o, loc, v)
    BY <2>1, <1>WriteCallStep
  <2>2. CASE StartWrite
    BY <2>2, <1>StartWriteStep
  <2>3. CASE \E j \in WriteJob : WriteStep(j) \/ HandleWrite(j)
    BY <2>3, <1>WriteSliceStep, <1>FinishWriteStep, <1>FreeWriteStep, <1>HandleWriteStep DEF WriteStep
  <2>4. CASE RunCallback \/ \E o \in Observer : Disconnect(o)
    BY <2>4, <1>PeerStep
  <2>5. QED
    BY <2>1, <2>2, <2>3, <2>4
<1>4. SeenInv'
  <2>1. CASE \E j \in WriteJob, o \in Observer, loc \in Location, v \in Val : async_write(j, o, loc, v)
    BY <2>1, <1>WriteCallSeen
  <2>2. CASE UNCHANGED seen
    BY <2>2 DEF SeenInv
  <2>3. QED
    BY ZenonT(60), <2>1, <2>2 DEF StartWrite, WriteStep, WriteSlice, FinishWrite, FreeWrite, HandleWrite,
                      RunCallback, Disconnect
<1>5. QED
  BY <1>2, <1>3, <1>4

\* Every step of a write keeps PlacedInv.
LEMMA WritesPlaced ==
  ~Overlap /\ ~TRANSFER_MAY_FAIL /\ WriteInv /\ PlacedInv /\ WriteAction => PlacedInv'
\* A step of one job that leaves the partition alone.
<1>PlacedKept.
  ASSUME PlacedInv, NEW j \in WriteJob, disk' = disk, \A k \in WriteJob : k # j => write'[k] = write[k],
         \/ write'[j].stage \in {"idle", "handled"}
         \/ Outstanding(j) /\ write'[j].loc = write[j].loc /\ Placed(disk, write'[j])
  PROVE  PlacedInv'
  <2> USE <1>PlacedKept
  <2>1. \A k \in WriteJob : Outstanding(k)' =>
          Outstanding(k) /\ write'[k].loc = write[k].loc /\ Placed(disk', write'[k])
    BY DEF PlacedInv, Outstanding
  <2>2. QED
    BY <2>1 DEF PlacedInv
\* Writing units of one block leaves those of the others alone.
<1>OthersStayPlaced.
  ASSUME WriteInv, PlacedInv, NEW loc \in Location, NEW cells \in SUBSET BlockOf(loc), NEW v,
         disk' = [c \in Cell |-> IF c \in cells THEN v ELSE disk[c]],
         NEW k \in WriteJob, Outstanding(k), write[k].loc # loc
  PROVE  Placed(disk', write[k])
  <2> USE <1>OthersStayPlaced
  <2>1. write[k].loc \in Location
    BY OutstandingIsRec
  <2>2. \A c \in BlockOf(write[k].loc) : c \in Cell /\ c \notin cells
    BY <2>1, BlockIsCells, BlocksAreDisjoint
  <2>3. \A c \in BlockOf(write[k].loc) : disk'[c] = disk[c]
    BY <2>2
  <2>4. Placed(disk, write[k])
    BY DEF PlacedInv
  <2>5. QED
    BY <2>3, <2>4 DEF Placed
<1>WriteCallPlaced.
  ASSUME ~Overlap, ~TRANSFER_MAY_FAIL, WriteInv, PlacedInv,
         NEW j \in WriteJob, NEW o \in Observer, NEW loc \in Location, NEW v \in Val, async_write(j, o, loc, v)
  PROVE  PlacedInv'
  <2> USE <1>WriteCallPlaced
  <2>1. /\ write[j] = Idle
        /\ \A k \in WriteJob : ~(Outstanding(k) /\ write[k].loc = loc)
    BY DEF async_write
  <2>2. PICK got \in BOOLEAN :
        /\ write' = [write EXCEPT ![j] =
              [stage |-> IF got THEN "queued" ELSE "posted", loc |-> loc, val |-> v,
               offset |-> loc[3], err |-> ~got /\ Writable(loc) # BlockOf(loc), buf |-> got]]
        /\ IF got THEN disk' = disk
           ELSE \E done \in Stored(Writable(loc)) :
                  disk' = [c \in Cell |-> IF c \in done THEN v ELSE disk[c]]
    BY ZenonT(60) DEF async_write
  <2>3. /\ write'[j].loc = loc /\ write'[j].val = v /\ write'[j].offset = loc[3]
        /\ write'[j].stage = IF got THEN "queued" ELSE "posted"
        /\ write'[j].err = (~got /\ Writable(loc) # BlockOf(loc))
        /\ \A k \in WriteJob : k # j => write'[k] = write[k]
    BY <2>2 DEF WriteInv, WriteTypes
  <2>4. loc[3] \in Nat /\ \A c \in BlockOf(loc) : c[3] \in Nat /\ c[3] >= loc[3]
    <3>1. /\ loc[1] \in Storage /\ loc[2] \in Piece /\ loc[3] \in Nat /\ loc[3] < piece_size[loc[2]]
      BY CellParts DEF Location
    <3>2. BlockLength(loc[2], loc[3]) \in Nat
      BY <3>1, BlockInPiece
    <3>3. QED
      BY SMTT(60), <3>1, <3>2 DEF BlockOf, Units
  <2> DEFINE cells == IF got THEN {} ELSE Writable(loc)
  <2>5. /\ cells \in SUBSET BlockOf(loc) /\ (~got => cells = Writable(loc))
        /\ disk' = [c \in Cell |-> IF c \in cells THEN v ELSE disk[c]]
    <3>1. CASE got
      BY <2>2, <3>1 DEF WriteInv, WriteTypes
    <3>2. CASE ~got
      BY <2>2, <3>2 DEF Stored, Writable
    <3>3. QED
      BY <3>1, <3>2
  <2> HIDE DEF cells
  <2>6. Placed(disk', write'[j])
    <3>1. CASE got
      BY SMTT(60), <2>3, <2>4, <3>1 DEF Placed
    <3>2. CASE ~got
      <4>1. write'[j].stage = "posted"
        BY <2>3, <3>2
      <4>2. ASSUME ~write'[j].err, NEW c \in BlockOf(loc) PROVE disk'[c] = v
        BY <2>3, <2>5, <3>2, <4>2, BlockIsCells
      <4>3. QED
        BY <2>3, <4>1, <4>2 DEF Placed
    <3>3. QED
      BY <3>1, <3>2
  <2>7. \A k \in WriteJob : k # j /\ Outstanding(k) => Placed(disk', write[k]) /\ write[k].loc # loc
    BY <2>1, <2>5, <1>OthersStayPlaced
  <2>8. \A k \in WriteJob : k # j => (Outstanding(k)' <=> Outstanding(k))
    BY <2>3 DEF Outstanding
  <2>9. QED
    BY <2>3, <2>6, <2>7, <2>8 DEF PlacedInv
<1>WriteSlicePlaced.
  ASSUME ~TRANSFER_MAY_FAIL, WriteInv, PlacedInv, NEW j \in WriteJob, WriteSlice(j)
  PROVE  PlacedInv'
  <2> USE <1>WriteSlicePlaced
  <2> DEFINE w == write[j]
             c == <<w.loc[1], w.loc[2], w.offset>>
  <2>1. /\ w.stage = "writing" /\ w.offset < WriteEnd(w)
        /\ IF c \in BadName
           THEN write' = [write EXCEPT ![j].err = TRUE] /\ UNCHANGED disk
           ELSE /\ \E done \in Stored({c}) : disk' = [d \in Cell |-> IF d \in done THEN w.val ELSE disk[d]]
                /\ write' = [write EXCEPT ![j].offset = @ + 1]
    BY DEF WriteSlice
  <2>2. Outstanding(j) /\ w \in WriteRec /\ w.loc \in Location /\ w.offset \in Nat
    BY <2>1, OutstandingIsRec DEF Outstanding
  <2>3. Placed(disk, w)
    BY <2>2 DEF PlacedInv
  <2>4. \A k \in WriteJob : k # j => write'[k] = write[k]
    BY <2>1 DEF WriteInv, WriteTypes
  <2>5. CASE c \in BadName
    <3>1. /\ write'[j].stage = w.stage /\ write'[j].loc = w.loc /\ write'[j].offset = w.offset
          /\ write'[j].val = w.val /\ disk' = disk
      BY SMTT(60), <2>1, <2>2, <2>5 DEF WriteInv, WriteTypes, WriteRec
    <3>2. Placed(disk, write'[j])
      BY <2>1, <2>3, <3>1 DEF Placed
    <3>3. QED
      BY <2>2, <2>4, <3>1, <3>2, <1>PlacedKept
  <2>6. CASE c \notin BadName
    <3>1. /\ write'[j].stage = w.stage /\ write'[j].loc = w.loc /\ write'[j].offset = w.offset + 1
          /\ write'[j].val = w.val
      BY SMTT(60), <2>1, <2>2, <2>6 DEF WriteInv, WriteTypes, WriteRec
    <3>2. disk' = [d \in Cell |-> IF d \in {c} THEN w.val ELSE disk[d]]
      BY <2>1, <2>6 DEF Stored
    <3>3. /\ w.loc[1] \in Storage /\ w.loc[2] \in Piece /\ w.loc[3] \in Nat
          /\ w.loc[3] < piece_size[w.loc[2]]
      BY <2>2, CellParts DEF Location
    <3>4. BlockLength(w.loc[2], w.loc[3]) \in Nat
      BY <3>3, BlockInPiece
    <3>5. w.offset \in w.loc[3] .. w.loc[3] + BlockLength(w.loc[2], w.loc[3]) - 1
      BY SMTT(60), <2>1, <2>2, <2>3, <3>3, <3>4 DEF Placed, WriteEnd
    <3>6. c \in BlockOf(w.loc)
      BY <3>5 DEF BlockOf, Units
    <3>7. Placed(disk', write'[j])
      <4>1. w.loc[3] <= w.offset + 1
        BY SMTT(60), <2>2, <3>3, <3>5
      <4>2. ASSUME NEW d \in BlockOf(w.loc), d[3] < w.offset + 1 PROVE disk'[d] = w.val
        <5>1. PICK u \in w.loc[3] .. w.loc[3] + BlockLength(w.loc[2], w.loc[3]) - 1 : d = <<w.loc[1], w.loc[2], u>>
          BY SMTT(60) DEF BlockOf, Units
        <5>2. d[3] = u /\ u \in Int
          BY SMTT(60), <3>3, <3>4, <5>1
        <5>3. d \in Cell
          BY <2>2, BlockIsCells
        <5>4. CASE u = w.offset
          BY <3>2, <5>1, <5>3, <5>4
        <5>5. CASE u # w.offset
          <6>1. d[3] < w.offset
            BY SMTT(60), <2>2, <4>2, <5>2, <5>5
          <6>2. disk[d] = w.val
            BY <2>1, <2>3, <6>1 DEF Placed
          <6>3. QED
            BY <3>2, <5>3, <6>2
        <5>6. QED
          BY <5>4, <5>5
      <4>3. QED
        BY <2>1, <3>1, <4>1, <4>2 DEF Placed
    <3>8. \A k \in WriteJob : k # j /\ Outstanding(k) => Placed(disk', write[k]) /\ write[k].loc # w.loc
      <4>1. {c} \in SUBSET BlockOf(w.loc)
        BY <3>6
      <4>2. \A k \in WriteJob : k # j /\ Outstanding(k) => write[k].loc # w.loc
        BY <2>2 DEF PlacedInv
      <4> HIDE DEF c
      <4>3. QED
        BY <2>2, <3>2, <4>1, <4>2, <1>OthersStayPlaced
    <3>9. \A k \in WriteJob : k # j => (Outstanding(k)' <=> Outstanding(k))
      BY <2>4 DEF Outstanding
    <3>10. QED
      BY <2>4, <3>1, <3>7, <3>8, <3>9 DEF PlacedInv
  <2>7. QED
    BY <2>5, <2>6
<1>StartWritePlaced.
  ASSUME WriteInv, PlacedInv, StartWrite
  PROVE  PlacedInv'
  <2> USE <1>StartWritePlaced
  <2> DEFINE j == Head(write_queue)
  <2>1. write_queue # <<>> /\ write' = [write EXCEPT ![j].stage = "writing"] /\ disk' = disk
    BY DEF StartWrite
  <2>2. j \in WriteJob /\ write[j].stage = "queued"
    BY SMTT(60), <2>1 DEF WriteInv, WriteTypes, Queued
  <2> HIDE DEF j
  <2>3. Outstanding(j) /\ write[j] \in WriteRec
    BY <2>2, OutstandingIsRec DEF Outstanding
  <2>4. /\ write'[j].stage = "writing" /\ write'[j].loc = write[j].loc /\ write'[j].val = write[j].val
        /\ write'[j].offset = write[j].offset
        /\ \A k \in WriteJob : k # j => write'[k] = write[k]
    BY <2>1, <2>2, <2>3 DEF WriteInv, WriteTypes, WriteRec
  <2>5. Placed(disk, write'[j])
    BY <2>2, <2>3, <2>4 DEF PlacedInv, Placed
  <2>6. QED
    BY <2>1, <2>2, <2>3, <2>4, <2>5, <1>PlacedKept
<1>FinishWritePlaced.
  ASSUME WriteInv, PlacedInv, NEW j \in WriteJob, FinishWrite(j)
  PROVE  PlacedInv'
  <2> USE <1>FinishWritePlaced
  <2> DEFINE w == write[j]
  <2>1. /\ w.stage = "writing" /\ (w.err \/ w.offset = WriteEnd(w))
        /\ write' = [write EXCEPT ![j].stage = "posted"] /\ disk' = disk
    BY DEF FinishWrite
  <2>2. Outstanding(j) /\ w \in WriteRec /\ w.loc \in Location
    BY <2>1, OutstandingIsRec DEF Outstanding
  <2>3. /\ write'[j].stage = "posted" /\ write'[j].loc = w.loc /\ write'[j].val = w.val /\ write'[j].err = w.err
        /\ \A k \in WriteJob : k # j => write'[k] = write[k]
    BY <2>1, <2>2 DEF WriteInv, WriteTypes, WriteRec
  <2>4. ASSUME ~w.err, NEW c \in BlockOf(w.loc) PROVE disk[c] = w.val
    <3>1. /\ w.loc[2] \in Piece /\ w.loc[3] \in Nat /\ w.loc[3] < piece_size[w.loc[2]]
      BY <2>2, CellParts DEF Location
    <3>2. BlockLength(w.loc[2], w.loc[3]) \in Nat
      BY <3>1, BlockInPiece
    <3>3. c[3] < w.offset
      BY SMTT(60), <2>1, <2>4, <3>1, <3>2 DEF BlockOf, Units, WriteEnd
    <3>4. QED
      BY <2>1, <2>2, <3>3 DEF PlacedInv, Placed
  <2>5. Placed(disk, write'[j])
    BY <2>3, <2>4 DEF Placed
  <2>6. QED
    BY <2>1, <2>2, <2>3, <2>5, <1>PlacedKept
<1>WriteOverPlaced.
  ASSUME WriteInv, PlacedInv, NEW j \in WriteJob, FreeWrite(j) \/ HandleWrite(j)
  PROVE  PlacedInv'
  <2> USE <1>WriteOverPlaced
  <2>1. /\ write[j].stage \in {"posted", "handled"} /\ disk' = disk
        /\ \/ write' = [write EXCEPT ![j] = Idle]
           \/ write' = [write EXCEPT ![j] = [@ EXCEPT !.stage = "handled"]]
           \/ write[j].stage = "posted" /\ write' = [write EXCEPT ![j] = [@ EXCEPT !.buf = FALSE]]
    BY DEF FreeWrite, HandleWrite
  <2>2. write[j] \in WriteRec
    BY <2>1, WriteIsRec DEF WriteInv
  <2>3. \A k \in WriteJob : k # j => write'[k] = write[k]
    BY <2>1 DEF WriteInv, WriteTypes
  <2>4. CASE write[j].stage = "posted" /\ write' = [write EXCEPT ![j] = [@ EXCEPT !.buf = FALSE]]
    <3>1. /\ write'[j].stage = "posted" /\ write'[j].loc = write[j].loc /\ write'[j].val = write[j].val
          /\ write'[j].err = write[j].err
      BY <2>2, <2>4 DEF WriteInv, WriteTypes, WriteRec
    <3>2. Outstanding(j)
      BY <2>4 DEF Outstanding
    <3>3. Placed(disk, write'[j])
      BY <2>4, <3>1, <3>2 DEF PlacedInv, Placed
    <3>4. QED
      BY <2>1, <2>3, <3>1, <3>2, <3>3, <1>PlacedKept
  <2>5. CASE \/ write' = [write EXCEPT ![j] = Idle]
             \/ write' = [write EXCEPT ![j] = [@ EXCEPT !.stage = "handled"]]
    <3>1. write'[j].stage \in {"idle", "handled"}
      BY SMTT(60), <2>2, <2>5 DEF WriteInv, WriteTypes, WriteRec, Idle
    <3>2. QED
      BY <2>1, <2>3, <3>1, <1>PlacedKept
  <2>6. QED
    BY <2>1, <2>4, <2>5
<1> SUFFICES ASSUME ~Overlap, ~TRANSFER_MAY_FAIL, WriteInv, PlacedInv, WriteAction
             PROVE  PlacedInv'
  OBVIOUS
<1>1. CASE \E j \in WriteJob, o \in Observer, loc \in Location, v \in Val : async_write(j, o, loc, v)
  BY <1>1, <1>WriteCallPlaced
<1>2. CASE StartWrite
  BY <1>2, <1>StartWritePlaced
<1>3. CASE \E j \in WriteJob : WriteStep(j) \/ HandleWrite(j)
  BY <1>3, <1>WriteSlicePlaced, <1>FinishWritePlaced, <1>WriteOverPlaced DEF WriteStep
<1>4. QED
  BY <1>1, <1>2, <1>3 DEF WriteAction

-----------------------------------------------------------------------------
(* Cells, blocks and what a new request would see                          *)

\* A cell lies in the block of its location.
LEMMA HomeOfCell ==
  ASSUME NEW c \in Cell
  PROVE  Home(c) \in Location /\ c \in BlockOf(Home(c))
<1>1. /\ c[1] \in Storage /\ c[2] \in Piece /\ c[3] \in Nat
      /\ c[3] < piece_size[c[2]] /\ c = <<c[1], c[2], c[3]>>
  BY CellParts
<1>2. Home(c) \in Location
  BY <1>1, KeyIsLocation DEF Home
<1>3. /\ BlockStart(c[3]) \in Nat /\ BlockStart(c[3]) <= c[3]
      /\ c[3] < BlockStart(c[3]) + DEFAULT_BLOCK_SIZE
  BY <1>1, BlockStartIsAligned
<1>4. c[3] \in BlockStart(c[3]) .. BlockStart(c[3]) + BlockLength(c[2], BlockStart(c[3])) - 1
  BY SMTT(60), <1>1, <1>3, IOAssumption DEF BlockLength
<1>5. c \in BlockOf(Home(c))
  BY <1>1, <1>4 DEF BlockOf, Units, Home
<1>6. QED
  BY <1>2, <1>5

\* The location of a cell of a block is that of the block.
LEMMA HomeOfBlock ==
  ASSUME NEW loc \in Location, NEW c \in BlockOf(loc)
  PROVE  c \in Cell /\ Home(c) = loc
<1>1. c \in Cell
  BY BlockIsCells
<1>2. Home(c) \in Location /\ c \in BlockOf(Home(c))
  BY <1>1, HomeOfCell
<1>3. QED
  BY <1>1, <1>2, BlocksAreDisjoint

\* No file name of a good cell's block is unparsable.
LEMMA GoodCell ==
  ASSUME NEW c \in Good
  PROVE  c \in Cell /\ c \notin BadName /\ BlockOf(Home(c)) \cap BadName = {}
<1>1. c \in Cell
  BY DEF Good
<1>2. QED
  BY <1>1, HomeOfCell DEF Good

\* A new request sees the store buffer's entry for the block, or the partition.
LEMMA CurrentIs ==
  ASSUME NEW c
  PROVE  /\ Current(c) = IF store_buffer[Home(c)] # NoJob THEN write[store_buffer[Home(c)]].val
                         ELSE disk[c]
         /\ Current(c)' = IF store_buffer'[Home(c)] # NoJob THEN write'[store_buffer'[Home(c)]].val
                          ELSE disk'[c]
  BY DEF Current, Home, BlockStart, SB!torrent_location, SB!hit, SB!get

\* An entry leads to a write of its block that is under way.
LEMMA EntryIsWrite ==
  ASSUME WriteInv, NEW loc \in Location, store_buffer[loc] # NoJob
  PROVE  /\ store_buffer[loc] \in WriteJob
         /\ write[store_buffer[loc]].stage \in {"queued", "writing"}
         /\ write[store_buffer[loc]].loc = loc /\ Outstanding(store_buffer[loc])
<1>1. store_buffer[loc] \in WriteJob
  BY DEF WriteInv, WriteTypes, SB!StoreBufferTypeOK
<1>2. write[store_buffer[loc]].stage \in {"queued", "writing"} /\ write[store_buffer[loc]].loc = loc
  BY DEF WriteInv, NoDanglingBuffer, SB!hit, SB!get
<1>3. QED
  BY <1>1, <1>2 DEF Outstanding

\* What leaves the variables of the writes alone changes nothing that a request sees.
LEMMA CurrentKept ==
  ASSUME UNCHANGED writeVars
  PROVE  \A c : Current(c)' = Current(c)
  BY CurrentIs DEF writeVars

\* The units of a block, by its place in the piece.
LEMMA UnitOfBlock ==
  ASSUME NEW s, NEW p, NEW lo, <<s, p, lo>> \in Location, NEW u \in lo .. lo + BlockLength(p, lo) - 1
  PROVE  Current(<<s, p, u>>) = IF SB!hit(<<s, p, lo>>) THEN write[SB!get(<<s, p, lo>>)].val
                                ELSE disk[<<s, p, u>>]
<1>1. <<s, p, u>> \in BlockOf(<<s, p, lo>>)
  BY DEF BlockOf, Units
<1>2. Home(<<s, p, u>>) = <<s, p, lo>>
  BY <1>1, HomeOfBlock
<1>3. QED
  BY <1>2, CurrentIs DEF SB!hit, SB!get

\* A request stays sound when cells change to what their history has.
LEMMA ReadSoundKept ==
  ASSUME NEW r \in ReadRec, NEW held, NEW held2, NEW d, NEW d2, ReadSound(r, held, d), held \subseteq held2,
         r.stage \in {"queued", "reading"} =>
           \A c \in Units(r.s, r.p, r.start, r.length) \cap Good : d2[c] = d[c] \/ <<c, d2[c]>> \in held2
  PROVE  ReadSound(r, held2, d2)
<1>1. ASSUME r.stage \in {"queued", "reading"}, NEW u \in r.offset .. r.end - 1, <<r.s, r.p, u>> \in Good
      PROVE  <<<<r.s, r.p, u>>, d2[<<r.s, r.p, u>>]>> \in held2
  <2>1. u \in r.start .. r.start + r.length - 1
    BY SMTT(60), <1>1 DEF ReadSound, ReadRec
  <2>2. <<r.s, r.p, u>> \in Units(r.s, r.p, r.start, r.length)
    BY <2>1 DEF Units
  <2>3. <<<<r.s, r.p, u>>, d[<<r.s, r.p, u>>]>> \in held
    BY <1>1 DEF ReadSound
  <2>4. QED
    BY <1>1, <2>2, <2>3
<1>2. QED
  BY <1>1 DEF ReadSound

\* A hash stays sound when its history grows and what it still reads has been current.
LEMMA HashSoundKept ==
  ASSUME NEW h \in HashRec, NEW held, NEW held2, NEW d, NEW d2, HashSound(h, held, d), HashInRange(h),
         held \subseteq held2, held2 = {} <=> held = {},
         h.stage = "reading" =>
           \A c \in Units(h.s, h.p, 0, piece_size[h.p]) \cap Good : d2[c] = d[c] \/ <<c, d2[c]>> \in held2
  PROVE  HashSound(h, held2, d2)
<1>1. ASSUME h.stage = "reading", ~h.err, NEW u \in h.offset .. h.end - 1, <<h.s, h.p, u>> \in Good
      PROVE  <<<<h.s, h.p, u>>, d2[<<h.s, h.p, u>>]>> \in held2
  <2>1. piece_size[h.p] \in Nat
    BY IOAssumption DEF HashRec
  <2>2. u \in 0 .. 0 + piece_size[h.p] - 1
    BY SMTT(60), <1>1, <2>1 DEF HashInRange, HashRec
  <2>3. <<h.s, h.p, u>> \in Units(h.s, h.p, 0, piece_size[h.p])
    BY <2>2 DEF Units
  <2>4. <<<<h.s, h.p, u>>, d[<<h.s, h.p, u>>]>> \in held
    BY <1>1 DEF HashSound
  <2>5. QED
    BY <1>1, <2>3, <2>4
<1>2. Fed(h.ph, h.s, h.p, h.offset, held) => Fed(h.ph, h.s, h.p, h.offset, held2)
  BY DEF Fed
<1>3. QED
  BY <1>1, <1>2 DEF HashSound

-----------------------------------------------------------------------------
(* The store that a state stands for                                       *)

\* The part of a history that BlockStore keeps.
GoodPart(held) == {x \in held : x[1] \in Good}

\* Steps that leave the store alone.
LEMMA StoreKept ==
  ASSUME \A c \in Good : Current(c)' = Current(c),
         \A k \in ReadJob \cup HashJob :
           /\ Requested(k)' = Requested(k) /\ Answered(k)' = Answered(k)
           /\ GoodPart(seen'[k]) = GoodPart(seen[k])
  PROVE  UNCHANGED BS!vars
<1>1. Contents' = Contents
  BY DEF Contents
<1>2. Requests' = Requests
  BY DEF Requests
<1>3. Histories' = Histories
  BY DEF Histories, GoodPart
<1>4. Answers' = Answers
  BY DEF Answers
<1>5. QED
  BY <1>1, <1>2, <1>3, <1>4 DEF BS!vars

\* What a job stands for depends on its record and its history.
LEMMA JobKept ==
  ASSUME NEW k \in ReadJob \cup HashJob, seen'[k] = seen[k],
         k \in ReadJob => read'[k] = read[k], k \notin ReadJob => hash'[k] = hash[k]
  PROVE  Requested(k)' = Requested(k) /\ Answered(k)' = Answered(k)
  BY DEF Requested, Answered

\* Steps that change what one job stands for.
LEMMA JobChanged ==
  ASSUME \A c \in Good : Current(c)' = Current(c), NEW j \in ReadJob \cup HashJob,
         \A k \in ReadJob \cup HashJob : k # j =>
           /\ seen'[k] = seen[k]
           /\ k \in ReadJob => read'[k] = read[k]
           /\ k \notin ReadJob => hash'[k] = hash[k]
  PROVE  /\ Contents' = Contents
         /\ Requests' = [Requests EXCEPT ![j] = Requested(j)']
         /\ Histories' = [Histories EXCEPT ![j] = GoodPart(seen'[j])]
         /\ Answers' = [Answers EXCEPT ![j] = Answered(j)']
         /\ Answers'[j] = Answered(j)' /\ Histories'[j] = GoodPart(seen'[j])
<1>1. \A k \in ReadJob \cup HashJob : k # j => Requested(k)' = Requested(k) /\ Answered(k)' = Answered(k)
  BY JobKept
<1>2. Contents' = Contents
  BY DEF Contents
<1>3. Requests' = [Requests EXCEPT ![j] = Requested(j)']
  BY <1>1 DEF Requests
<1>4. Histories' = [Histories EXCEPT ![j] = GoodPart(seen'[j])] /\ Histories'[j] = GoodPart(seen'[j])
  BY DEF Histories, GoodPart
<1>5. Answers' = [Answers EXCEPT ![j] = Answered(j)'] /\ Answers'[j] = Answered(j)'
  BY <1>1 DEF Answers
<1>6. QED
  BY <1>2, <1>3, <1>4, <1>5

\* What the refinement mapping makes of a request and of a cell.
LEMMA JobStands ==
  ASSUME NEW j \in ReadJob \cup HashJob
  PROVE  /\ Requests[j] = Requested(j) /\ Answers[j] = Answered(j) /\ Histories[j] = GoodPart(seen[j])
         /\ \A c \in Good : Contents[c] = Current(c)
  BY DEF Requests, Answers, Histories, Contents, GoodPart

\* The same, when the job stands for the same.
LEMMA JobSame ==
  ASSUME \A c \in Good : Current(c)' = Current(c), NEW j \in ReadJob \cup HashJob,
         \A k \in ReadJob \cup HashJob : k # j =>
           /\ seen'[k] = seen[k]
           /\ k \in ReadJob => read'[k] = read[k]
           /\ k \notin ReadJob => hash'[k] = hash[k],
         Requested(j)' = Requested(j), Answered(j)' = Answered(j), seen'[j] = seen[j]
  PROVE  UNCHANGED BS!vars
<1>1. \A k \in ReadJob \cup HashJob : Requested(k)' = Requested(k) /\ Answered(k)' = Answered(k)
  BY JobKept
<1>2. \A k \in ReadJob \cup HashJob : GoodPart(seen'[k]) = GoodPart(seen[k])
  BY DEF GoodPart
<1>3. QED
  BY <1>1, <1>2, StoreKept

\* A step that changes no contents, request, history or answer leaves BlockStore alone.
LEMMA SameAnswer ==
  ASSUME NEW j \in ReadJob \cup HashJob, Contents' = Contents, Requests' = Requests, Histories' = Histories,
         Answers' = [Answers EXCEPT ![j] = Answers[j]]
  PROVE  UNCHANGED BS!vars
<1>1. Answers' = Answers
  BY DEF Answers
<1>2. QED
  BY <1>1 DEF BS!vars

-----------------------------------------------------------------------------
(* Steps of writes, seen in BlockStore                                     *)

\* What the steps of writes on pool threads and their handlers leave as it is.
Quiet ==
  /\ EntryInv'
  /\ \A c \in Good : Current(c)' = Current(c) /\ (disk'[c] = disk[c] \/ disk'[c] = Current(c)')

\* Each step of a write preserves RegInv and is a step of BlockStore, or leaves it alone.
LEMMA WritesImplement ==
  ~Overlap /\ ~TRANSFER_MAY_FAIL /\ IInv /\ PlacedInv /\ RegInv /\ WriteAction
  => RegInv' /\ (BS!Next \/ UNCHANGED BS!vars)
<1>WriteCallEffect.
  ASSUME ~Overlap, ~TRANSFER_MAY_FAIL, WriteInv, EntryInv,
         NEW j \in WriteJob, NEW o \in Observer, NEW loc \in Location, NEW v \in Val, async_write(j, o, loc, v)
  PROVE  /\ EntryInv'
         /\ \A c \in Good : /\ Current(c)' = IF c \in BlockOf(loc) THEN v ELSE Current(c)
                            /\ disk'[c] = disk[c] \/ disk'[c] = Current(c)'
  <2> USE <1>WriteCallEffect
  <2>1. /\ write[j] = Idle /\ write[j].stage = "idle"
        /\ \A k \in WriteJob : ~(Outstanding(k) /\ write[k].loc = loc)
    BY SMTT(60) DEF async_write, Idle
  <2>2. store_buffer[loc] = NoJob
    BY <2>1, EntryIsWrite
  <2>3. PICK got \in BOOLEAN :
        /\ write' = [write EXCEPT ![j] =
              [stage |-> IF got THEN "queued" ELSE "posted", loc |-> loc, val |-> v,
               offset |-> loc[3], err |-> ~got /\ Writable(loc) # BlockOf(loc), buf |-> got]]
        /\ IF got THEN SB!insert(loc, j) /\ disk' = disk
           ELSE /\ \E done \in Stored(Writable(loc)) :
                     disk' = [c \in Cell |-> IF c \in done THEN v ELSE disk[c]]
                /\ store_buffer' = store_buffer
    BY ZenonT(60) DEF async_write
  <2>4. /\ write'[j].loc = loc /\ write'[j].val = v
        /\ write'[j].stage = IF got THEN "queued" ELSE "posted"
        /\ write'[j].err = (~got /\ Writable(loc) # BlockOf(loc))
        /\ \A k \in WriteJob : k # j => write'[k] = write[k]
    BY <2>3 DEF WriteInv, WriteTypes
  <2>5. store_buffer' = IF got THEN [store_buffer EXCEPT ![loc] = j] ELSE store_buffer
    BY <2>2, <2>3 DEF SB!insert, SB!hit
  <2>6. \A l \in Location : l # loc => store_buffer'[l] = store_buffer[l]
    BY <2>5 DEF WriteInv, WriteTypes, SB!StoreBufferTypeOK
  <2>7. store_buffer'[loc] = IF got THEN j ELSE NoJob
    BY <2>2, <2>5 DEF WriteInv, WriteTypes, SB!StoreBufferTypeOK
  <2>8. EntryInv'
    <3> SUFFICES ASSUME NEW k \in WriteJob, write'[k].stage \in {"queued", "writing"}
                 PROVE  /\ store_buffer'[write'[k].loc] = k
                        /\ write'[k].err => BlockOf(write'[k].loc) \cap BadName # {}
      BY DEF EntryInv
    <3>1. CASE k = j
      BY <2>4, <2>7, <3>1
    <3>2. CASE k # j
      <4>1. write'[k] = write[k] /\ write[k].stage \in {"queued", "writing"}
        BY <2>4, <3>2
      <4>2. Outstanding(k)
        BY <4>1 DEF Outstanding
      <4>3. write[k].loc \in Location /\ write[k].loc # loc
        BY <2>1, <4>2, OutstandingIsRec
      <4>4. QED
        BY <2>6, <4>1, <4>3 DEF EntryInv
    <3>3. QED
      BY <3>1, <3>2
  <2>9. ASSUME NEW c \in Good
        PROVE  /\ Current(c)' = IF c \in BlockOf(loc) THEN v ELSE Current(c)
               /\ disk'[c] = disk[c] \/ disk'[c] = Current(c)'
    <3>1. c \in Cell /\ Home(c) \in Location /\ c \in BlockOf(Home(c)) /\ BlockOf(Home(c)) \cap BadName = {}
      BY GoodCell, HomeOfCell
    <3>2. CASE c \in BlockOf(loc)
      <4>1. Home(c) = loc
        BY <3>2, HomeOfBlock
      <4>2. CASE got
        <5>1. Current(c)' = v
          BY SMTT(60), <2>4, <2>7, <4>1, <4>2, CurrentIs, IOAssumption
        <5>2. QED
          BY <2>3, <3>2, <4>2, <5>1
      <4>3. CASE ~got
        <5>1. c \in Writable(loc)
          BY <3>1, <3>2, <4>1 DEF Writable
        <5>2. disk'[c] = v
          BY <2>3, <3>1, <4>3, <5>1 DEF Stored
        <5>3. Current(c)' = v
          BY <2>7, <4>1, <4>3, <5>2, CurrentIs
        <5>4. QED
          BY <3>2, <5>2, <5>3
      <4>4. QED
        BY <4>2, <4>3
    <3>3. CASE c \notin BlockOf(loc)
      <4>1. Home(c) # loc
        BY <3>1, <3>3
      <4>2. store_buffer'[Home(c)] = store_buffer[Home(c)]
        BY <2>6, <3>1, <4>1
      <4>3. disk'[c] = disk[c]
        <5>1. Writable(loc) \subseteq BlockOf(loc)
          BY DEF Writable
        <5>2. QED
          BY <2>3, <3>1, <3>3, <5>1 DEF Stored
      <4>4. store_buffer[Home(c)] # NoJob => write'[store_buffer[Home(c)]] = write[store_buffer[Home(c)]]
        BY <2>1, <2>4, <3>1, EntryIsWrite
      <4>5. Current(c)' = Current(c)
        <5>1. CASE store_buffer[Home(c)] = NoJob
          BY <4>2, <4>3, <5>1, CurrentIs
        <5>2. CASE store_buffer[Home(c)] # NoJob
          <6>1. write'[store_buffer'[Home(c)]] = write[store_buffer[Home(c)]] /\ store_buffer'[Home(c)] # NoJob
            BY <4>2, <4>4, <5>2
          <6>2. QED
            BY <5>2, <6>1, CurrentIs
        <5>3. QED
          BY <5>1, <5>2
      <4>6. QED
        BY <3>3, <4>3, <4>5
    <3>4. QED
      BY <3>2, <3>3
  <2>10. QED
    BY <2>8, <2>9
\* A step of a write that leaves the store buffer alone.
<1>QuietWrite.
  ASSUME WriteInv, EntryInv, NEW j \in WriteJob, store_buffer' = store_buffer,
         \A k \in WriteJob : k # j => write'[k] = write[k],
         write'[j].stage \in {"queued", "writing"} <=> write[j].stage \in {"queued", "writing"},
         write[j].stage \in {"queued", "writing"} =>
           /\ write'[j].loc = write[j].loc /\ write'[j].val = write[j].val
           /\ write'[j].err => BlockOf(write[j].loc) \cap BadName # {},
         \A c \in Cell : \/ disk'[c] = disk[c]
                         \/ /\ write[j].stage = "writing" /\ c \in BlockOf(write[j].loc)
                            /\ disk'[c] = write[j].val
  PROVE  /\ EntryInv'
         /\ \A c \in Good : Current(c)' = Current(c) /\ (disk'[c] = disk[c] \/ disk'[c] = Current(c)')
  <2> USE <1>QuietWrite
  <2>1. EntryInv'
    <3> SUFFICES ASSUME NEW k \in WriteJob, write'[k].stage \in {"queued", "writing"}
                 PROVE  /\ store_buffer'[write'[k].loc] = k
                        /\ write'[k].err => BlockOf(write'[k].loc) \cap BadName # {}
      BY DEF EntryInv
    <3>1. CASE k = j
      BY <3>1 DEF EntryInv
    <3>2. CASE k # j
      BY <3>2 DEF EntryInv
    <3>3. QED
      BY <3>1, <3>2
  <2>2. ASSUME NEW c \in Good
        PROVE  Current(c)' = Current(c) /\ (disk'[c] = disk[c] \/ disk'[c] = Current(c)')
    <3>1. c \in Cell /\ Home(c) \in Location
      BY GoodCell, HomeOfCell
    <3>2. CASE store_buffer[Home(c)] # NoJob
      <4> DEFINE k == store_buffer[Home(c)]
      <4>1. k \in WriteJob /\ write[k].stage \in {"queued", "writing"} /\ write[k].loc = Home(c)
        BY <3>1, <3>2, EntryIsWrite
      <4>2. write'[k].val = write[k].val
        BY <4>1
      <4>3. Current(c) = write[k].val /\ Current(c)' = write[k].val
        BY <3>2, <4>2, CurrentIs
      <4>4. CASE disk'[c] # disk[c]
        <5>1. write[j].stage = "writing" /\ c \in BlockOf(write[j].loc) /\ disk'[c] = write[j].val
          BY <3>1, <4>4
        <5>2. write[j].loc \in Location
          BY <5>1, OutstandingIsRec DEF Outstanding
        <5>3. Home(c) = write[j].loc
          BY <5>1, <5>2, HomeOfBlock
        <5>4. k = j
          BY <5>1, <5>3 DEF EntryInv
        <5>5. QED
          BY <4>3, <5>1, <5>4
      <4>5. QED
        BY <4>3, <4>4
    <3>3. CASE store_buffer[Home(c)] = NoJob
      <4>1. disk'[c] = disk[c]
        <5> SUFFICES ASSUME disk'[c] # disk[c] PROVE FALSE
          OBVIOUS
        <5>1. write[j].stage = "writing" /\ c \in BlockOf(write[j].loc)
          BY <3>1
        <5>2. write[j].loc \in Location
          BY <5>1, OutstandingIsRec DEF Outstanding
        <5>3. Home(c) = write[j].loc
          BY <5>1, <5>2, HomeOfBlock
        <5>4. store_buffer[Home(c)] = j
          BY <5>1, <5>3 DEF EntryInv
        <5>5. QED
          BY <3>3, <5>4, IOAssumption
      <4>2. QED
        BY <3>3, <4>1, CurrentIs
    <3>4. QED
      BY <3>2, <3>3
  <2>3. QED
    BY <2>1, <2>2
<1>StartWriteQuiet.
  ASSUME WriteInv, EntryInv, StartWrite
  PROVE  Quiet
  <2> USE <1>StartWriteQuiet
  <2> DEFINE j == Head(write_queue)
  <2>1. /\ write_queue # <<>> /\ write' = [write EXCEPT ![j].stage = "writing"]
        /\ disk' = disk /\ store_buffer' = store_buffer
    BY DEF StartWrite
  <2>2. j \in WriteJob /\ write[j].stage = "queued"
    BY SMTT(60), <2>1 DEF WriteInv, WriteTypes, Queued
  <2> HIDE DEF j
  <2>3. write[j] \in WriteRec
    BY <2>2, OutstandingIsRec DEF Outstanding
  <2>4. /\ write'[j].stage = "writing" /\ write'[j].loc = write[j].loc /\ write'[j].val = write[j].val
        /\ write'[j].err = write[j].err
        /\ \A k \in WriteJob : k # j => write'[k] = write[k]
    BY <2>1, <2>2, <2>3 DEF WriteInv, WriteTypes, WriteRec
  <2>5. write[j].err => BlockOf(write[j].loc) \cap BadName # {}
    BY <2>2 DEF EntryInv
  <2>6. QED
    BY <2>1, <2>2, <2>4, <2>5, <1>QuietWrite DEF Quiet
<1>WriteSliceQuiet.
  ASSUME ~TRANSFER_MAY_FAIL, WriteInv, PlacedInv, EntryInv, NEW j \in WriteJob, WriteSlice(j)
  PROVE  Quiet
  <2> USE <1>WriteSliceQuiet
  <2> DEFINE w == write[j]
             c == <<w.loc[1], w.loc[2], w.offset>>
  <2>1. /\ w.stage = "writing" /\ ~w.err /\ w.offset < WriteEnd(w) /\ store_buffer' = store_buffer
        /\ IF c \in BadName
           THEN write' = [write EXCEPT ![j].err = TRUE] /\ UNCHANGED disk
           ELSE /\ \E done \in Stored({c}) : disk' = [d \in Cell |-> IF d \in done THEN w.val ELSE disk[d]]
                /\ write' = [write EXCEPT ![j].offset = @ + 1]
    BY DEF WriteSlice
  <2>2. Outstanding(j) /\ w \in WriteRec /\ w.loc \in Location /\ w.offset \in Nat
    BY <2>1, OutstandingIsRec DEF Outstanding
  <2>3. w.loc[3] <= w.offset
    BY <2>1, <2>2 DEF PlacedInv, Placed
  <2>4. c \in BlockOf(w.loc)
    <3>1. /\ w.loc[1] \in Storage /\ w.loc[2] \in Piece /\ w.loc[3] \in Nat /\ w.loc[3] < piece_size[w.loc[2]]
      BY <2>2, CellParts DEF Location
    <3>2. BlockLength(w.loc[2], w.loc[3]) \in Nat
      BY <3>1, BlockInPiece
    <3>3. w.offset \in w.loc[3] .. w.loc[3] + BlockLength(w.loc[2], w.loc[3]) - 1
      BY SMTT(60), SMTT(90), <2>1, <2>2, <2>3, <3>1, <3>2 DEF WriteEnd
    <3>4. QED
      BY <3>3 DEF BlockOf, Units
  <2>5. /\ write'[j].stage = "writing" /\ write'[j].loc = w.loc /\ write'[j].val = w.val
        /\ c \notin BadName => write'[j].err = w.err
        /\ \A k \in WriteJob : k # j => write'[k] = write[k]
    <3>1. CASE c \in BadName
      BY <2>1, <2>2, <3>1 DEF WriteInv, WriteTypes, WriteRec
    <3>2. CASE c \notin BadName
      BY <2>1, <2>2, <3>2 DEF WriteInv, WriteTypes, WriteRec
    <3>3. QED
      BY <3>1, <3>2
  <2>6. \A d \in Cell : disk'[d] = disk[d] \/ (d \in BlockOf(w.loc) /\ disk'[d] = w.val)
    <3> HIDE DEF c
    <3>1. CASE c \in BadName
      BY <2>1, <3>1
    <3>2. CASE c \notin BadName
      BY <2>1, <2>4, <3>2 DEF Stored
    <3>3. QED
      BY <3>1, <3>2
  <2>7. write'[j].err => BlockOf(w.loc) \cap BadName # {}
    <3> HIDE DEF c
    <3>1. QED
      BY <2>1, <2>4, <2>5
  <2> HIDE DEF c
  <2>8. QED
    BY <2>1, <2>5, <2>6, <2>7, <1>QuietWrite DEF Quiet
<1>WriteOverQuiet.
  ASSUME WriteInv, EntryInv, NEW j \in WriteJob, FreeWrite(j) \/ HandleWrite(j)
  PROVE  Quiet
  <2> USE <1>WriteOverQuiet
  <2>1. /\ write[j].stage \in {"posted", "handled"} /\ disk' = disk /\ store_buffer' = store_buffer
        /\ \/ write' = [write EXCEPT ![j] = Idle]
           \/ write' = [write EXCEPT ![j] = [@ EXCEPT !.stage = "handled"]]
           \/ write[j].stage = "posted" /\ write' = [write EXCEPT ![j] = [@ EXCEPT !.buf = FALSE]]
    BY DEF FreeWrite, HandleWrite
  <2>2. write[j] \in WriteRec
    BY <2>1, WriteIsRec DEF WriteInv
  <2>3. \A k \in WriteJob : k # j => write'[k] = write[k]
    BY <2>1 DEF WriteInv, WriteTypes
  <2>4. write'[j].stage \notin {"queued", "writing"}
    BY SMTT(60), <2>1, <2>2 DEF WriteInv, WriteTypes, WriteRec, Idle
  <2>5. QED
    BY <2>1, <2>3, <2>4, <1>QuietWrite DEF Quiet
\* When a block's entry is erased, the block is on the partition.
<1>FinishWriteQuiet.
  ASSUME WriteInv, PlacedInv, EntryInv, NEW j \in WriteJob, FinishWrite(j)
  PROVE  Quiet
  <2> USE <1>FinishWriteQuiet
  <2> DEFINE w == write[j]
  <2>1. /\ w.stage = "writing" /\ (w.err \/ w.offset = WriteEnd(w))
        /\ store_buffer' = [store_buffer EXCEPT ![w.loc] = NoJob]
        /\ write' = [write EXCEPT ![j].stage = "posted"] /\ disk' = disk
    BY DEF FinishWrite, SB!erase
  <2>2. Outstanding(j) /\ w \in WriteRec /\ w.loc \in Location /\ w.offset \in Nat
    BY <2>1, OutstandingIsRec DEF Outstanding
  <2>3. /\ write'[j].stage = "posted"
        /\ \A k \in WriteJob : k # j => write'[k] = write[k]
    BY <2>1, <2>2 DEF WriteInv, WriteTypes, WriteRec
  <2>4. /\ store_buffer'[w.loc] = NoJob
        /\ \A l \in Location : l # w.loc => store_buffer'[l] = store_buffer[l]
    BY <2>1, <2>2 DEF WriteInv, WriteTypes, SB!StoreBufferTypeOK
  <2>5. EntryInv'
    <3> SUFFICES ASSUME NEW k \in WriteJob, write'[k].stage \in {"queued", "writing"}
                 PROVE  /\ store_buffer'[write'[k].loc] = k
                        /\ write'[k].err => BlockOf(write'[k].loc) \cap BadName # {}
      BY DEF EntryInv
    <3>1. k # j /\ write'[k] = write[k]
      BY <2>3
    <3>2. Outstanding(k) /\ write[k].stage \in {"queued", "writing"}
      BY <3>1 DEF Outstanding
    <3>3. write[k].loc \in Location /\ write[k].loc # w.loc
      BY <2>2, <3>1, <3>2, OutstandingIsRec DEF PlacedInv
    <3>4. QED
      BY <2>4, <3>1, <3>2, <3>3 DEF EntryInv
  <2>6. ASSUME NEW c \in Good PROVE Current(c)' = Current(c)
    <3>1. c \in Cell /\ Home(c) \in Location /\ c \in BlockOf(Home(c)) /\ BlockOf(Home(c)) \cap BadName = {}
      BY GoodCell, HomeOfCell
    <3>2. CASE Home(c) = w.loc
      <4>1. ~w.err
        BY <2>1, <3>1, <3>2 DEF EntryInv
      <4>2. /\ w.loc[2] \in Piece /\ w.loc[3] \in Nat /\ w.loc[3] < piece_size[w.loc[2]]
        BY <2>2, CellParts DEF Location
      <4>3. BlockLength(w.loc[2], w.loc[3]) \in Nat
        BY <4>2, BlockInPiece
      <4>4. c[3] < w.offset
        BY SMTT(60), SMTT(90), <2>1, <3>1, <3>2, <4>1, <4>2, <4>3 DEF BlockOf, Units, WriteEnd
      <4>5. disk[c] = w.val
        BY <2>1, <2>2, <3>1, <3>2, <4>4 DEF PlacedInv, Placed
      <4>6. store_buffer[Home(c)] = j
        BY <2>1, <3>2 DEF EntryInv
      <4>7. Current(c) = w.val
        BY <4>6, CurrentIs, IOAssumption
      <4>8. Current(c)' = disk'[c]
        BY <2>4, <3>2, CurrentIs
      <4>9. QED
        BY <2>1, <4>5, <4>7, <4>8
    <3>3. CASE Home(c) # w.loc
      <4>1. store_buffer'[Home(c)] = store_buffer[Home(c)]
        BY <2>4, <3>1, <3>3
      <4>2. ASSUME store_buffer[Home(c)] # NoJob
            PROVE  write'[store_buffer[Home(c)]] = write[store_buffer[Home(c)]]
        BY <2>3, <3>1, <3>3, <4>2, EntryIsWrite
      <4>3. QED
        BY SMTT(60), SMTT(90), <2>1, <4>1, <4>2, CurrentIs
    <3>4. QED
      BY <3>2, <3>3
  <2>7. QED
    BY <2>1, <2>5, <2>6 DEF Quiet
\* A step that writes keeps every request sound when what the cells of a request
\* change to goes into its history.
<1>WriteKeepsRequests.
  ASSUME RegInv, ReadInv, HashInv, EntryInv', UNCHANGED <<readVars, hashVars>>,
         \A k \in ReadJob \cup HashJob : seen[k] \subseteq seen'[k] /\ (seen'[k] = {} <=> seen[k] = {}),
         \A c \in Good : disk'[c] = disk[c] \/ disk'[c] = Current(c)',
         \A k \in ReadJob \cup HashJob : \A c \in Wanted(k) \cap Good : <<c, Current(c)'>> \in seen'[k]
  PROVE  RegInv'
  <2> USE <1>WriteKeepsRequests
  <2>1. read' = read /\ hash' = hash
    BY DEF readVars, hashVars
  <2>2. FollowInv'
    BY <2>1 DEF FollowInv, Wanted
  <2>3. ReadSoundInv'
    <3> SUFFICES ASSUME NEW k \in ReadJob
                 PROVE  IF read[k] = Idle THEN seen'[k] = {} ELSE ReadSound(read[k], seen'[k], disk')
      BY <2>1 DEF ReadSoundInv
    <3>1. CASE read[k] = Idle
      BY <3>1 DEF RegInv, ReadSoundInv
    <3>2. CASE read[k] # Idle
      <4>1. read[k] \in ReadRec /\ ReadSound(read[k], seen[k], disk)
        BY <3>2 DEF RegInv, ReadSoundInv, ReadInv
      <4>2. ASSUME read[k].stage \in {"queued", "reading"}
            PROVE  \A c \in Units(read[k].s, read[k].p, read[k].start, read[k].length) \cap Good :
                     disk'[c] = disk[c] \/ <<c, disk'[c]>> \in seen'[k]
        BY <4>2 DEF Wanted
      <4>3. QED
        BY <3>2, <4>1, <4>2, ReadSoundKept
    <3>3. QED
      BY <3>1, <3>2
  <2>4. HashSoundInv'
    <3> SUFFICES ASSUME NEW k \in HashJob
                 PROVE  IF hash[k] = Idle THEN seen'[k] = {} ELSE HashSound(hash[k], seen'[k], disk')
      BY <2>1 DEF HashSoundInv
    <3>1. CASE hash[k] = Idle
      BY <3>1 DEF RegInv, HashSoundInv
    <3>2. CASE hash[k] # Idle
      <4>1. hash[k] \in HashRec /\ HashSound(hash[k], seen[k], disk) /\ HashInRange(hash[k])
        BY <3>2 DEF RegInv, HashSoundInv, HashInv
      <4>2. ASSUME hash[k].stage = "reading"
            PROVE  \A c \in Units(hash[k].s, hash[k].p, 0, piece_size[hash[k].p]) \cap Good :
                     disk'[c] = disk[c] \/ <<c, disk'[c]>> \in seen'[k]
        BY <4>2, IOAssumption DEF Wanted
      <4>3. QED
        BY <3>2, <4>1, <4>2, HashSoundKept
    <3>3. QED
      BY <3>1, <3>2
  <2>5. QED
    BY <2>2, <2>3, <2>4 DEF RegInv
<1>QuietKeepsRequests.
  ASSUME RegInv, ReadInv, HashInv, Quiet, UNCHANGED <<readVars, hashVars, seen>>
  PROVE  RegInv'
  <2> USE <1>QuietKeepsRequests
  <2>1. \A k \in ReadJob \cup HashJob : \A c \in Wanted(k) \cap Good : <<c, Current(c)'>> \in seen'[k]
    BY DEF Quiet, RegInv, FollowInv
  <2>2. QED
    BY <2>1, <1>WriteKeepsRequests DEF Quiet
\* A job without a history follows no cell.
<1>NothingWanted.
  ASSUME RegInv, ReadInv, HashInv, NEW k \in ReadJob \cup HashJob, seen[k] = {}
  PROVE  Wanted(k) = {}
  <2> USE <1>NothingWanted
  <2>1. CASE k \in ReadJob
    <3>1. read[k] = Idle
      BY <2>1 DEF RegInv, ReadSoundInv, ReadSound
    <3>2. QED
      BY SMTT(60), <2>1, <3>1 DEF Wanted, Idle
  <2>2. CASE k \notin ReadJob /\ hash[k] = Idle
    BY SMTT(60), <2>2 DEF Wanted, Idle
  <2>3. CASE k \notin ReadJob /\ hash[k] # Idle
    <3>1. piece_size[hash[k].p] = 0 \/ hash[k].stage \in {"posted", "handled"}
      BY <2>3 DEF RegInv, HashSoundInv, HashSound
    <3>2. CASE piece_size[hash[k].p] = 0
      <4>1. Units(hash[k].s, hash[k].p, 0, piece_size[hash[k].p]) = {}
        BY SMTT(60), <3>2 DEF Units
      <4>2. QED
        BY <2>3, <4>1 DEF Wanted
    <3>3. QED
      BY <2>3, <3>1, <3>2 DEF Wanted
  <2>4. QED
    BY <2>1, <2>2, <2>3
<1>WriteCallRegular.
  ASSUME ~Overlap, ~TRANSFER_MAY_FAIL, WriteInv, ReadInv, HashInv, RegInv,
         NEW j \in WriteJob, NEW o \in Observer, NEW loc \in Location, NEW v \in Val, async_write(j, o, loc, v)
  PROVE  RegInv'
  <2> USE <1>WriteCallRegular
  <2>1. /\ EntryInv'
        /\ \A c \in Good : /\ Current(c)' = IF c \in BlockOf(loc) THEN v ELSE Current(c)
                           /\ disk'[c] = disk[c] \/ disk'[c] = Current(c)'
    BY <1>WriteCallEffect DEF RegInv
  <2>2. /\ seen' = [k \in ReadJob \cup HashJob |->
                      seen[k] \cup {<<c, v>> : c \in Wanted(k) \cap BlockOf(loc)}]
        /\ UNCHANGED <<readVars, hashVars>>
    BY DEF async_write
  <2>3. \A k \in ReadJob \cup HashJob : seen[k] \subseteq seen'[k] /\ (seen'[k] = {} <=> seen[k] = {})
    BY <2>2, <1>NothingWanted
  <2>4. ASSUME NEW k \in ReadJob \cup HashJob, NEW c \in Wanted(k) \cap Good
        PROVE  <<c, Current(c)'>> \in seen'[k]
    <3>1. CASE c \in BlockOf(loc)
      BY <2>1, <2>2, <3>1
    <3>2. CASE c \notin BlockOf(loc)
      BY <2>1, <2>2, <3>2 DEF RegInv, FollowInv
    <3>3. QED
      BY <3>1, <3>2
  <2>5. QED
    BY <2>1, <2>2, <2>3, <2>4, <1>WriteKeepsRequests
<1>WriteStepRegular.
  ASSUME ~TRANSFER_MAY_FAIL, WriteInv, PlacedInv, ReadInv, HashInv, RegInv, NEW j \in WriteJob,
         StartWrite \/ WriteStep(j) \/ HandleWrite(j)
  PROVE  RegInv' /\ UNCHANGED <<readVars, hashVars, seen>> /\ \A c \in Good : Current(c)' = Current(c)
  <2> USE <1>WriteStepRegular
  <2>1. Quiet
    BY <1>StartWriteQuiet, <1>WriteSliceQuiet, <1>FinishWriteQuiet, <1>WriteOverQuiet DEF WriteStep, RegInv
  <2>2. UNCHANGED <<readVars, hashVars, seen>>
    BY DEF StartWrite, WriteStep, WriteSlice, FinishWrite, FreeWrite, HandleWrite
  <2>3. QED
    BY <2>1, <2>2, <1>QuietKeepsRequests DEF Quiet
\* A job follows the cells of its request until it has an answer.
<1>WantedIsRequested.
  ASSUME ReadInv, HashInv, RegInv, NEW k \in ReadJob \cup HashJob
  PROVE  Wanted(k) = IF Answered(k) = BS!NoAnswer THEN Requested(k) ELSE {}
  <2> USE <1>WantedIsRequested
  <2> USE DEF BS!NoAnswer
  <2>1. CASE k \in ReadJob /\ read[k] = Idle
    <3>1. seen[k] = {} /\ Idle.stage = "idle"
      BY <2>1 DEF RegInv, ReadSoundInv, Idle
    <3>2. QED
      BY <2>1, <3>1 DEF Wanted, Requested, Answered, ReadAnswer
  <2>2. CASE k \in ReadJob /\ read[k] # Idle
    <3>1. seen[k] # {} /\ read[k] \in ReadRec
      BY ZenonT(60), <2>2 DEF RegInv, ReadSoundInv, ReadSound, ReadInv
    <3>2. read[k].stage \in {"queued", "reading", "posted", "held"}
      BY <3>1 DEF ReadRec
    <3>3. CASE read[k].stage \in {"queued", "reading"}
      BY <2>2, <3>1, <3>3 DEF Wanted, Requested, Answered, ReadAnswer
    <3>4. CASE read[k].stage \in {"posted", "held"}
      <4>1. Answered(k).kind \in {"error", "data"}
        BY <2>2, <3>4 DEF Answered, ReadAnswer
      <4>2. QED
        BY SMTT(60), <2>2, <3>4, <4>1 DEF Wanted
    <3>5. QED
      BY <3>2, <3>3, <3>4
  <2>3. CASE k \notin ReadJob /\ seen[k] = {}
    <3>1. Wanted(k) = {}
      BY <2>3, <1>NothingWanted
    <3>2. Requested(k) = {}
      BY <2>3 DEF Requested
    <3>3. QED
      BY <3>1, <3>2
  <2>4. CASE k \notin ReadJob /\ seen[k] # {}
    <3>1. hash[k] # Idle /\ hash[k] \in HashRec
      BY <2>4 DEF RegInv, HashSoundInv, HashInv
    <3>2. hash[k].stage \in {"queued", "hashing", "reading", "posted", "handled"}
      BY <3>1 DEF HashRec
    <3>3. CASE hash[k].stage \in {"queued", "hashing", "reading"}
      BY <2>4, <3>1, <3>3 DEF Wanted, Requested, Answered, HashAnswer
    <3>4. CASE hash[k].stage \in {"posted", "handled"}
      <4>1. Answered(k).kind \in {"error", "data"}
        BY <2>4, <3>4 DEF Answered, HashAnswer
      <4>2. QED
        BY SMTT(60), SMTT(90), <2>4, <3>4, <4>1 DEF Wanted
    <3>5. QED
      BY <3>2, <3>3, <3>4
  <2>5. QED
    BY <2>1, <2>2, <2>3, <2>4
<1>WriteIsWrite.
  ASSUME ~Overlap, ~TRANSFER_MAY_FAIL, WriteInv, ReadInv, HashInv, RegInv,
         NEW j \in WriteJob, NEW o \in Observer, NEW loc \in Location, NEW v \in Val, async_write(j, o, loc, v)
  PROVE  BS!Next
  <2> USE <1>WriteIsWrite
  <2> DEFINE b == BlockOf(loc)
             Job == ReadJob \cup HashJob
  <2>1. \A c \in Good : Current(c)' = IF c \in b THEN v ELSE Current(c)
    BY <1>WriteCallEffect DEF RegInv
  <2>2. /\ seen' = [k \in Job |-> seen[k] \cup {<<c, v>> : c \in Wanted(k) \cap b}]
        /\ read' = read /\ hash' = hash
    BY DEF async_write, readVars, hashVars
  <2> HIDE DEF b
  <2>3. ASSUME NEW k \in Job
        PROVE  /\ seen'[k] = {} <=> seen[k] = {}
               /\ GoodPart(seen'[k]) =
                    IF Answers[k] = BS!NoAnswer
                    THEN Histories[k] \cup {<<c, v>> : c \in Requests[k] \cap b \cap Good}
                    ELSE Histories[k]
    <3>1. seen'[k] = seen[k] \cup {<<c, v>> : c \in Wanted(k) \cap b}
      BY <2>2
    <3>2. seen'[k] = {} <=> seen[k] = {}
      BY <3>1, <1>NothingWanted
    <3>3. GoodPart(seen'[k]) = GoodPart(seen[k]) \cup {<<c, v>> : c \in Wanted(k) \cap b \cap Good}
      BY SMTT(60), <3>1 DEF GoodPart
    <3>4. Requests[k] = Requested(k) /\ Answers[k] = Answered(k) /\ Histories[k] = GoodPart(seen[k])
      BY JobStands
    <3>5. Wanted(k) = IF Answered(k) = BS!NoAnswer THEN Requested(k) ELSE {}
      BY <1>WantedIsRequested
    <3>6. CASE Answered(k) = BS!NoAnswer
      BY <3>2, <3>3, <3>4, <3>5, <3>6
    <3>7. CASE Answered(k) # BS!NoAnswer
      <4>1. {<<c, v>> : c \in Wanted(k) \cap b \cap Good} = {}
        BY <3>5, <3>7
      <4>2. QED
        BY <3>2, <3>3, <3>4, <3>7, <4>1
    <3>8. QED
      BY <3>6, <3>7
  <2>4. \A k \in Job : Requested(k)' = Requested(k) /\ Answered(k)' = Answered(k)
    BY <2>2, <2>3 DEF Requested, Answered
  <2>5. Contents' = [c \in Good |-> IF c \in b THEN v ELSE Contents[c]]
    BY <2>1 DEF Contents
  <2>6. Histories' = [k \in Job |->
           IF Answers[k] = BS!NoAnswer
           THEN Histories[k] \cup {<<c, v>> : c \in Requests[k] \cap b \cap Good} ELSE Histories[k]]
    <3>1. Histories' = [k \in Job |-> GoodPart(seen'[k])]
      BY DEF Histories, GoodPart
    <3>2. QED
      BY <2>3, <3>1
  <2>7. Requests' = Requests /\ Answers' = Answers
    BY <2>4 DEF Requests, Answers
  <2>8. BS!Write(b, v)
    BY <2>5, <2>6, <2>7 DEF BS!Write
  <2>9. QED
    BY <2>8 DEF BS!Next, b
<1>WriteStepIsSilent.
  ASSUME ~TRANSFER_MAY_FAIL, WriteInv, PlacedInv, ReadInv, HashInv, RegInv, NEW j \in WriteJob,
         StartWrite \/ WriteStep(j) \/ HandleWrite(j)
  PROVE  UNCHANGED BS!vars
  <2> USE <1>WriteStepIsSilent
  <2>1. read' = read /\ hash' = hash /\ seen' = seen /\ \A c \in Good : Current(c)' = Current(c)
    BY <1>WriteStepRegular DEF readVars, hashVars
  <2>2. \A k \in ReadJob \cup HashJob : Requested(k)' = Requested(k) /\ Answered(k)' = Answered(k)
    BY <2>1, JobKept
  <2>3. QED
    BY <2>1, <2>2, StoreKept DEF GoodPart
<1> SUFFICES ASSUME ~Overlap, ~TRANSFER_MAY_FAIL, IInv, PlacedInv, RegInv, WriteAction
             PROVE  RegInv' /\ (BS!Next \/ UNCHANGED BS!vars)
  OBVIOUS
<1> USE DEF WriteAction
<1>0. WriteInv /\ ReadInv /\ HashInv
  BY DEF IInv
<1>1. CASE \E j \in WriteJob, o \in Observer, loc \in Location, v \in Val : async_write(j, o, loc, v)
  BY <1>0, <1>1, <1>WriteCallRegular, <1>WriteIsWrite
<1>2. CASE StartWrite
  <2>1. Head(write_queue) \in WriteJob
    BY SMTT(60), SMTT(90), <1>0, <1>2 DEF StartWrite, WriteInv, WriteTypes, Queued
  <2>2. QED
    BY <1>0, <1>2, <2>1, <1>WriteStepRegular, <1>WriteStepIsSilent
<1>3. CASE \E j \in WriteJob : WriteStep(j) \/ HandleWrite(j)
  BY <1>0, <1>3, <1>WriteStepRegular, <1>WriteStepIsSilent
<1>4. QED
  BY <1>1, <1>2, <1>3

-----------------------------------------------------------------------------
(* Blocks that only one write at a time is under way for                   *)

\* A step that begins no write of these blocks and changes nothing that a request
\* for them would see.
Calm(locs) ==
  /\ Settled(locs)'
  /\ \A k \in WriteJob : UnderWay(k)' => \/ UnderWay(k) /\ write'[k].loc = write[k].loc
                                         \/ write'[k].loc \notin locs
  /\ \A loc \in locs : \A c \in BlockOf(loc) :
       Current(c)' = Current(c) /\ (disk'[c] = disk[c] \/ disk'[c] = Current(c)')

\* A write under way has the fields of a write.
LEMMA UnderWayIsRec ==
  ASSUME WriteInv, NEW j \in WriteJob, UnderWay(j)
  PROVE  write[j] \in WriteRec /\ write[j].loc \in Location /\ write[j].offset \in Nat
  BY OutstandingIsRec DEF UnderWay, Outstanding

\* What leaves the variables of the writes alone is calm for any blocks.
LEMMA CalmStutter ==
  ASSUME UNCHANGED writeVars, NEW locs, Settled(locs)
  PROVE  Calm(locs)
<1>1. write' = write /\ disk' = disk /\ store_buffer' = store_buffer
  BY DEF writeVars
<1>2. \A c : Current(c)' = Current(c)
  BY CurrentKept
<1>3. QED
  BY <1>1, <1>2 DEF Calm, Settled, UnderWay

\* A write elsewhere leaves what a write has put on the partition.
LEMMA StaysPlaced ==
  ASSUME WriteInv, NEW loc \in Location,
         \A c \in Cell : disk'[c] = disk[c] \/ c \in BlockOf(loc),
         NEW k \in WriteJob, UnderWay(k), write[k].loc # loc, Placed(disk, write[k])
  PROVE  Placed(disk', write[k])
<1>1. write[k].loc \in Location
  BY UnderWayIsRec
<1>2. \A c \in BlockOf(write[k].loc) : disk'[c] = disk[c]
  BY <1>1, BlockIsCells, BlocksAreDisjoint
<1>3. QED
  BY <1>2 DEF Placed

\* A step of a write that leaves the store buffer alone.
LEMMA CalmWrite ==
  ASSUME WriteInv, NEW locs \in SUBSET Location, Settled(locs), NEW j \in WriteJob,
         store_buffer' = store_buffer, \A k \in WriteJob : k # j => write'[k] = write[k],
         UnderWay(j)' <=> UnderWay(j),
         UnderWay(j) =>
           /\ write'[j].loc = write[j].loc /\ write'[j].val = write[j].val
           /\ write'[j].loc[3] <= write'[j].offset
           /\ write[j].loc \in locs => ~write'[j].err /\ Placed(disk', write'[j]),
         \A c \in Cell : \/ disk'[c] = disk[c]
                         \/ /\ UnderWay(j) /\ c \in BlockOf(write[j].loc)
                            /\ disk'[c] = write[j].val
  PROVE  Calm(locs)
<1>1. ASSUME NEW k \in WriteJob, UnderWay(k)', write'[k].loc \in locs
      PROVE  store_buffer'[write'[k].loc] = k /\ ~write'[k].err /\ Placed(disk', write'[k])
  <2>1. CASE k = j
    BY <1>1, <2>1 DEF Settled
  <2>2. CASE k # j
    <3>1. write'[k] = write[k] /\ UnderWay(k) /\ write[k].loc \in locs
      BY <1>1, <2>2 DEF UnderWay
    <3>2. store_buffer[write[k].loc] = k /\ ~write[k].err /\ Placed(disk, write[k])
      BY <3>1 DEF Settled
    <3>3. CASE UnderWay(j)
      <4>1. write[j].loc # write[k].loc /\ write[j].loc \in Location
        BY <2>2, <3>1, <3>2, <3>3, UnderWayIsRec DEF Settled
      <4>2. Placed(disk', write[k])
        BY <3>1, <3>2, <4>1, StaysPlaced
      <4>3. QED
        BY <3>1, <3>2, <4>2
    <3>4. CASE ~UnderWay(j)
      <4>1. write[k].loc \in Location
        BY <3>1
      <4>2. \A c \in BlockOf(write[k].loc) : disk'[c] = disk[c]
        BY <3>4, <4>1, BlockIsCells
      <4>3. Placed(disk', write[k])
        BY <3>2, <4>2 DEF Placed
      <4>4. QED
        BY <3>1, <3>2, <4>3
    <3>5. QED
      BY <3>3, <3>4
  <2>3. QED
    BY <2>1, <2>2
<1>2. \A k \in WriteJob : UnderWay(k)' => UnderWay(k) /\ write'[k].loc = write[k].loc
  BY DEF UnderWay
<1>3. ASSUME NEW loc \in locs, NEW c \in BlockOf(loc)
      PROVE  Current(c)' = Current(c) /\ (disk'[c] = disk[c] \/ disk'[c] = Current(c)')
  <2>1. c \in Cell /\ Home(c) = loc
    BY HomeOfBlock
  <2>2. CASE store_buffer[loc] # NoJob
    <3> DEFINE k == store_buffer[loc]
    <3>1. k \in WriteJob /\ UnderWay(k) /\ write[k].loc = loc
      BY <2>2, EntryIsWrite DEF UnderWay
    <3>2. write'[k].val = write[k].val
      BY <3>1
    <3>3. Current(c) = write[k].val /\ Current(c)' = write[k].val
      BY <2>1, <2>2, <3>2, CurrentIs
    <3>4. CASE disk'[c] # disk[c]
      <4>1. UnderWay(j) /\ c \in BlockOf(write[j].loc) /\ disk'[c] = write[j].val
        BY <2>1, <3>4
      <4>2. write[j].loc = loc
        BY <2>1, <4>1, UnderWayIsRec, HomeOfBlock
      <4>3. k = j
        BY <4>1, <4>2 DEF Settled
      <4>4. QED
        BY <3>3, <4>1, <4>3
    <3>5. QED
      BY <3>3, <3>4
  <2>3. CASE store_buffer[loc] = NoJob
    <3>1. disk'[c] = disk[c]
      <4> SUFFICES ASSUME disk'[c] # disk[c] PROVE FALSE
        OBVIOUS
      <4>1. UnderWay(j) /\ c \in BlockOf(write[j].loc)
        BY <2>1
      <4>2. write[j].loc = loc
        BY <2>1, <4>1, UnderWayIsRec, HomeOfBlock
      <4>3. QED
        BY <2>3, <4>1, <4>2, IOAssumption DEF Settled
    <3>2. QED
      BY <2>1, <2>3, <3>1, CurrentIs
  <2>4. QED
    BY <2>2, <2>3
<1>4. \A k \in WriteJob : UnderWay(k)' => write'[k].loc[3] <= write'[k].offset
  <2> TAKE k \in WriteJob
  <2>1. CASE k = j
    BY <2>1
  <2>2. CASE k # j
    BY <2>2 DEF Settled, UnderWay
  <2>3. QED
    BY <2>1, <2>2
<1>5. QED
  BY <1>1, <1>2, <1>3, <1>4 DEF Calm, Settled

\* The step of a thread that takes a write is calm.
LEMMA StartWriteCalm ==
  ASSUME WriteInv, NEW locs \in SUBSET Location, Settled(locs), StartWrite
  PROVE  Calm(locs)
<1>0. Head(write_queue) \in WriteJob /\ write[Head(write_queue)].stage = "queued"
  BY SMTT(60) DEF StartWrite, WriteInv, WriteTypes, Queued
<1>1. PICK j \in WriteJob :
      /\ write[j].stage = "queued" /\ write' = [write EXCEPT ![j].stage = "writing"]
      /\ disk' = disk /\ store_buffer' = store_buffer
  BY <1>0 DEF StartWrite
<1>2. write[j].stage = "queued"
  BY <1>1
<1>3. UnderWay(j) /\ write[j] \in WriteRec
  BY <1>2, UnderWayIsRec DEF UnderWay
<1>4. /\ write'[j].stage = "writing" /\ write'[j].loc = write[j].loc /\ write'[j].val = write[j].val
      /\ write'[j].err = write[j].err /\ write'[j].offset = write[j].offset
      /\ \A k \in WriteJob : k # j => write'[k] = write[k]
  BY <1>1, <1>2, <1>3 DEF WriteInv, WriteTypes, WriteRec
<1>5. /\ write'[j].loc[3] <= write'[j].offset
      /\ write[j].loc \in locs => ~write'[j].err /\ Placed(disk', write'[j])
  BY <1>1, <1>2, <1>3, <1>4 DEF Settled, Placed
<1>6. UnderWay(j)'
  BY <1>4 DEF UnderWay
<1>7. QED
  BY <1>1, <1>2, <1>3, <1>4, <1>5, <1>6, CalmWrite

\* The release of a buffer and the handler of a write are calm.
LEMMA WriteOverCalm ==
  ASSUME WriteInv, NEW locs \in SUBSET Location, Settled(locs), NEW j \in WriteJob,
         FreeWrite(j) \/ HandleWrite(j)
  PROVE  Calm(locs)
<1>1. /\ write[j].stage \in {"posted", "handled"} /\ disk' = disk /\ store_buffer' = store_buffer
      /\ \/ write' = [write EXCEPT ![j] = Idle]
         \/ write' = [write EXCEPT ![j] = [@ EXCEPT !.stage = "handled"]]
         \/ write[j].stage = "posted" /\ write' = [write EXCEPT ![j] = [@ EXCEPT !.buf = FALSE]]
  BY DEF FreeWrite, HandleWrite
<1>2. write[j] \in WriteRec
  BY <1>1, WriteIsRec DEF WriteInv
<1>3. \A k \in WriteJob : k # j => write'[k] = write[k]
  BY <1>1 DEF WriteInv, WriteTypes
<1>4. ~UnderWay(j)' /\ ~UnderWay(j)
  BY SMTT(60), SMTT(90), <1>1, <1>2 DEF WriteInv, WriteTypes, WriteRec, Idle, UnderWay
<1>5. QED
  BY <1>1, <1>3, <1>4, CalmWrite

\* A unit that a write puts on the partition is calm: the store buffer has its block.
LEMMA WriteSliceCalm ==
  ASSUME BadName = {}, ~TRANSFER_MAY_FAIL, WriteInv, NEW locs \in SUBSET Location, Settled(locs),
         NEW j \in WriteJob, WriteSlice(j)
  PROVE  Calm(locs)
<1> DEFINE w == write[j]
           c == <<w.loc[1], w.loc[2], w.offset>>
<1>1. /\ w.stage = "writing" /\ ~w.err /\ w.offset < WriteEnd(w) /\ store_buffer' = store_buffer
      /\ disk' = [d \in Cell |-> IF d = c THEN w.val ELSE disk[d]]
      /\ write' = [write EXCEPT ![j].offset = @ + 1]
  <2>1. c \notin BadName
    OBVIOUS
  <2>2. QED
    BY <2>1 DEF WriteSlice, Stored
<1>2. UnderWay(j) /\ w \in WriteRec /\ w.loc \in Location /\ w.offset \in Nat
  BY <1>1, UnderWayIsRec DEF UnderWay
<1>3. w.loc[3] <= w.offset
  BY <1>2 DEF Settled
<1>4. /\ w.loc[1] \in Storage /\ w.loc[2] \in Piece /\ w.loc[3] \in Nat
      /\ w.loc[3] < piece_size[w.loc[2]]
  BY <1>2, CellParts DEF Location
<1>5. BlockLength(w.loc[2], w.loc[3]) \in Nat
  BY <1>4, BlockInPiece
<1>6. c \in BlockOf(w.loc)
  <2>1. w.offset \in w.loc[3] .. w.loc[3] + BlockLength(w.loc[2], w.loc[3]) - 1
    BY SMTT(60), SMTT(90), <1>1, <1>2, <1>3, <1>4, <1>5 DEF WriteEnd
  <2>2. QED
    BY <2>1 DEF BlockOf, Units
<1>7. /\ write'[j].stage = "writing" /\ write'[j].loc = w.loc /\ write'[j].val = w.val
      /\ write'[j].err = w.err /\ write'[j].offset = w.offset + 1
      /\ \A k \in WriteJob : k # j => write'[k] = write[k]
  BY <1>1, <1>2 DEF WriteInv, WriteTypes, WriteRec
<1>8. w.loc[3] <= w.offset + 1
  BY SMTT(60), SMTT(90), <1>2, <1>3, <1>4
<1>9. ASSUME w.loc \in locs PROVE Placed(disk', write'[j])
  <2>1. Placed(disk, w)
    BY <1>2, <1>9 DEF Settled
  <2>2. ASSUME NEW d \in BlockOf(w.loc), d[3] < w.offset + 1 PROVE disk'[d] = w.val
    <3>1. PICK u \in w.loc[3] .. w.loc[3] + BlockLength(w.loc[2], w.loc[3]) - 1 : d = <<w.loc[1], w.loc[2], u>>
      BY SMTT(60), SMTT(90) DEF BlockOf, Units
    <3>2. d[3] = u /\ u \in Int
      BY SMTT(60), SMTT(90), <1>4, <1>5, <3>1
    <3>3. d \in Cell
      BY <1>2, BlockIsCells
    <3>4. CASE u = w.offset
      BY <1>1, <3>1, <3>3, <3>4
    <3>5. CASE u # w.offset
      <4>1. d[3] < w.offset
        BY SMTT(60), SMTT(90), <1>2, <2>2, <3>2, <3>5
      <4>2. disk[d] = w.val
        BY <1>1, <2>1, <4>1 DEF Placed
      <4>3. QED
        BY <1>1, <3>3, <4>2
    <3>6. QED
      BY <3>4, <3>5
  <2>3. QED
    BY <1>7, <1>8, <2>2 DEF Placed
<1>10. \A d \in Cell : disk'[d] = disk[d] \/ (d \in BlockOf(w.loc) /\ disk'[d] = w.val)
  <2> HIDE DEF c
  <2>1. QED
    BY <1>1, <1>6
<1>11. UnderWay(j)'
  BY <1>7 DEF UnderWay
<1> HIDE DEF c
<1>12. QED
  BY <1>1, <1>2, <1>7, <1>8, <1>9, <1>10, <1>11, CalmWrite

\* When the entry of such a block is erased, the block is on the partition.
LEMMA FinishWriteCalm ==
  ASSUME WriteInv, NEW locs \in SUBSET Location, Settled(locs), NEW j \in WriteJob, FinishWrite(j)
  PROVE  Calm(locs)
<1> DEFINE w == write[j]
<1>1. /\ w.stage = "writing" /\ (w.err \/ w.offset = WriteEnd(w))
      /\ store_buffer' = [store_buffer EXCEPT ![w.loc] = NoJob]
      /\ write' = [write EXCEPT ![j].stage = "posted"] /\ disk' = disk
  BY DEF FinishWrite, SB!erase
<1>2. UnderWay(j) /\ w \in WriteRec /\ w.loc \in Location /\ w.offset \in Nat
  BY <1>1, UnderWayIsRec DEF UnderWay
<1>3. /\ write'[j].stage = "posted"
      /\ \A k \in WriteJob : k # j => write'[k] = write[k]
  BY <1>1, <1>2 DEF WriteInv, WriteTypes, WriteRec
<1>4. /\ store_buffer'[w.loc] = NoJob
      /\ \A l \in Location : l # w.loc => store_buffer'[l] = store_buffer[l]
  BY <1>1, <1>2 DEF WriteInv, WriteTypes, SB!StoreBufferTypeOK
<1>5. \A k \in WriteJob : UnderWay(k)' => k # j /\ write'[k] = write[k] /\ UnderWay(k)
  BY <1>3 DEF UnderWay
<1>6. Settled(locs)'
  <2> SUFFICES ASSUME NEW k \in WriteJob, k # j, write'[k] = write[k], UnderWay(k)
               PROVE  /\ write[k].loc[3] <= write[k].offset
                      /\ write[k].loc \in locs => /\ store_buffer'[write[k].loc] = k
                                                  /\ ~write[k].err /\ Placed(disk', write[k])
    BY <1>5 DEF Settled
  <2>1. write[k].loc \in locs => write[k].loc # w.loc
    BY <1>2 DEF Settled
  <2>2. QED
    BY <1>1, <1>4, <2>1 DEF Settled
<1>7. ASSUME NEW loc \in locs, NEW c \in BlockOf(loc) PROVE Current(c)' = Current(c)
  <2>1. c \in Cell /\ Home(c) = loc
    BY HomeOfBlock
  <2>2. CASE loc = w.loc
    <3>1. ~w.err /\ store_buffer[loc] = j /\ Placed(disk, w)
      BY <1>2, <2>2 DEF Settled
    <3>2. /\ w.loc[2] \in Piece /\ w.loc[3] \in Nat /\ w.loc[3] < piece_size[w.loc[2]]
      BY <1>2, CellParts DEF Location
    <3>3. BlockLength(w.loc[2], w.loc[3]) \in Nat
      BY <3>2, BlockInPiece
    <3>4. c[3] < w.offset
      BY SMTT(60), SMTT(90), <1>1, <1>7, <2>2, <3>1, <3>2, <3>3 DEF BlockOf, Units, WriteEnd
    <3>5. disk[c] = w.val
      BY <1>1, <2>2, <3>1, <3>4 DEF Placed
    <3>6. Current(c) = w.val
      BY <2>1, <3>1, CurrentIs, IOAssumption
    <3>7. Current(c)' = disk'[c]
      BY <1>4, <2>1, <2>2, CurrentIs
    <3>8. QED
      BY <1>1, <3>5, <3>6, <3>7
  <2>3. CASE loc # w.loc
    <3>1. store_buffer'[loc] = store_buffer[loc]
      BY <1>4, <2>3
    <3>2. ASSUME store_buffer[loc] # NoJob
          PROVE  write'[store_buffer[loc]] = write[store_buffer[loc]]
      BY <1>3, <2>3, <3>2, EntryIsWrite
    <3>3. QED
      BY SMTT(60), SMTT(90), <1>1, <2>1, <3>1, <3>2, CurrentIs
  <2>4. QED
    BY <2>2, <2>3
<1>8. QED
  BY <1>1, <1>5, <1>6, <1>7 DEF Calm

\* Nothing changes of the blocks at locs but that loc may have a new write.
CalmBut(locs, loc) ==
  /\ Settled(locs)'
  /\ \A k \in WriteJob : UnderWay(k)' => \/ UnderWay(k) /\ write'[k].loc = write[k].loc
                                         \/ write'[k].loc = loc
  /\ \A l \in locs : l # loc => \A c \in BlockOf(l) : Current(c)' = Current(c) /\ disk'[c] = disk[c]

\* A write call, for a block that no write is under way for if it is one of these.
LEMMA WriteCallSettled ==
  ASSUME ~TRANSFER_MAY_FAIL, WriteInv, NEW locs \in SUBSET Location, Settled(locs),
         NEW j \in WriteJob, NEW o \in Observer, NEW loc \in Location, NEW v \in Val, async_write(j, o, loc, v),
         loc \in locs => \A k \in WriteJob : UnderWay(k) => write[k].loc # loc
  PROVE  CalmBut(locs, loc)
<1>1. write[j] = Idle /\ write[j].stage = "idle"
  BY SMTT(60) DEF async_write, Idle
<1>2. PICK got \in BOOLEAN :
      /\ write' = [write EXCEPT ![j] =
            [stage |-> IF got THEN "queued" ELSE "posted", loc |-> loc, val |-> v,
             offset |-> loc[3], err |-> ~got /\ Writable(loc) # BlockOf(loc), buf |-> got]]
      /\ IF got THEN SB!insert(loc, j) /\ disk' = disk
         ELSE /\ \E done \in Stored(Writable(loc)) :
                   disk' = [c \in Cell |-> IF c \in done THEN v ELSE disk[c]]
              /\ store_buffer' = store_buffer
  BY ZenonT(60) DEF async_write
<1>3. /\ write'[j].loc = loc /\ write'[j].val = v /\ write'[j].offset = loc[3]
      /\ write'[j].stage = IF got THEN "queued" ELSE "posted"
      /\ write'[j].err = (~got /\ Writable(loc) # BlockOf(loc))
      /\ \A k \in WriteJob : k # j => write'[k] = write[k]
  BY <1>2 DEF WriteInv, WriteTypes
<1>4. \A c \in Cell : disk'[c] = disk[c] \/ c \in BlockOf(loc)
  BY <1>2 DEF Stored, Writable
<1>5. loc[3] \in Nat /\ \A c \in BlockOf(loc) : c[3] \in Nat /\ c[3] >= loc[3]
  <2>1. /\ loc[1] \in Storage /\ loc[2] \in Piece /\ loc[3] \in Nat /\ loc[3] < piece_size[loc[2]]
    BY CellParts DEF Location
  <2>2. BlockLength(loc[2], loc[3]) \in Nat
    BY <2>1, BlockInPiece
  <2>3. QED
    BY SMTT(60), <2>1, <2>2 DEF BlockOf, Units
<1>6. \A l \in Location : l # loc => store_buffer'[l] = store_buffer[l]
  BY <1>2 DEF SB!insert, SB!hit, WriteInv, WriteTypes, SB!StoreBufferTypeOK
<1>7. ASSUME loc \in locs, got PROVE store_buffer'[loc] = j
  <2>1. store_buffer[loc] = NoJob
    BY <1>7, EntryIsWrite DEF UnderWay
  <2>2. QED
    BY <1>2, <1>7, <2>1 DEF SB!insert, SB!hit, WriteInv, WriteTypes, SB!StoreBufferTypeOK
<1>8. Settled(locs)'
  <2> SUFFICES ASSUME NEW k \in WriteJob, UnderWay(k)'
               PROVE  /\ write'[k].loc[3] <= write'[k].offset
                      /\ write'[k].loc \in locs => /\ store_buffer'[write'[k].loc] = k
                                                   /\ ~write'[k].err /\ Placed(disk', write'[k])
    BY DEF Settled
  <2>1. CASE k = j
    <3>1. got
      BY <1>3, <2>1 DEF UnderWay
    <3>2. loc[3] <= loc[3]
      BY SMTT(60), <1>5
    <3>3. \A c \in BlockOf(loc) : ~(c[3] < loc[3])
      BY SMTT(60), <1>5
    <3>4. Placed(disk', write'[j])
      BY <1>3, <3>1, <3>2, <3>3 DEF Placed
    <3>5. QED
      BY <1>3, <1>7, <2>1, <3>1, <3>2, <3>4
  <2>2. CASE k # j
    <3>1. write'[k] = write[k] /\ UnderWay(k)
      BY <1>3, <2>2 DEF UnderWay
    <3>2. write[k].loc[3] <= write[k].offset
      BY <3>1 DEF Settled
    <3>3. ASSUME write[k].loc \in locs
          PROVE  store_buffer'[write[k].loc] = k /\ ~write[k].err /\ Placed(disk', write[k])
      <4>1. write[k].loc # loc
        BY <3>1, <3>3
      <4>2. store_buffer[write[k].loc] = k /\ ~write[k].err /\ Placed(disk, write[k])
        BY <3>1, <3>3 DEF Settled
      <4>3. Placed(disk', write[k])
        BY <1>4, <3>1, <4>1, <4>2, StaysPlaced
      <4>4. QED
        BY <1>6, <3>3, <4>1, <4>2, <4>3
    <3>4. QED
      BY <3>1, <3>2, <3>3
  <2>3. QED
    BY <2>1, <2>2
<1>9. ASSUME NEW l \in locs, l # loc, NEW c \in BlockOf(l)
      PROVE  Current(c)' = Current(c) /\ disk'[c] = disk[c]
  <2>1. c \in Cell /\ Home(c) = l
    BY HomeOfBlock
  <2>2. disk'[c] = disk[c]
    BY <1>4, <1>9, <2>1, HomeOfBlock
  <2>3. store_buffer[l] # NoJob => write'[store_buffer[l]] = write[store_buffer[l]]
    BY <1>1, <1>3, EntryIsWrite
  <2>4. store_buffer'[l] = store_buffer[l]
    BY <1>6, <1>9
  <2>5. Current(c)' = Current(c)
    <3>1. CASE store_buffer[l] = NoJob
      BY <2>1, <2>2, <2>4, <3>1, CurrentIs
    <3>2. CASE store_buffer[l] # NoJob
      BY <2>1, <2>3, <2>4, <3>2, CurrentIs
    <3>3. QED
      BY <3>1, <3>2
  <2>6. QED
    BY <2>2, <2>5
<1>10. \A k \in WriteJob : UnderWay(k)' => \/ UnderWay(k) /\ write'[k].loc = write[k].loc
                                           \/ write'[k].loc = loc
  BY <1>3 DEF UnderWay
<1>11. QED
  BY <1>8, <1>9, <1>10 DEF CalmBut

-----------------------------------------------------------------------------
(* Pieces                                                                  *)

\* The parts of a piece's name, and that its blocks are locations.
LEMMA PieceForm ==
  ASSUME NEW id \in PieceId
  PROVE  /\ id[1] \in Storage /\ id[2] \in Piece /\ id = <<id[1], id[2]>> /\ piece_size[id[2]] \in Nat
         /\ Blocks(id) \in SUBSET Location
<1>1. id[1] \in Storage /\ id[2] \in Piece /\ id = <<id[1], id[2]>>
  BY SMTT(60) DEF PieceId
<1>2. piece_size[id[2]] \in Nat
  BY <1>1, IOAssumption
<1>3. QED
  BY <1>1, <1>2 DEF Blocks

\* A cell of a piece lies in one of the blocks of the piece.
LEMMA CellOfPiece ==
  ASSUME NEW id \in PieceId, NEW c \in PieceCells(id)
  PROVE  c \in Cell /\ Home(c) \in Blocks(id) /\ c \in BlockOf(Home(c))
<1>1. id[1] \in Storage /\ id[2] \in Piece /\ piece_size[id[2]] \in Nat
  BY PieceForm
<1>2. PICK u \in 0 .. 0 + piece_size[id[2]] - 1 : c = <<id[1], id[2], u>>
  BY SMTT(60) DEF PieceCells, Units
<1>3. u \in Nat /\ u < piece_size[id[2]]
  BY SMTT(60), <1>1
<1>4. c \in Cell
  BY <1>1, <1>2, <1>3, CellForm
<1>5. Home(c) \in Location /\ c \in BlockOf(Home(c))
  BY <1>4, HomeOfCell
<1>6. Home(c)[1] = id[1] /\ Home(c)[2] = id[2]
  BY <1>2 DEF Home
<1>7. QED
  BY <1>4, <1>5, <1>6 DEF Blocks

\* If all file names can be parsed, every cell is good.
LEMMA AllGood ==
  ASSUME BadName = {}
  PROVE  Good = Cell
  BY DEF Good

\* What a request would see of the piece stays the same.
LEMMA HeldKept ==
  ASSUME NEW id \in PieceId, Calm(Blocks(id))
  PROVE  /\ Now(PieceCells(id))' = Now(PieceCells(id))
         /\ \A c \in PieceCells(id) : /\ Current(c)' = Current(c)
                                      /\ disk'[c] = disk[c] \/ <<c, disk'[c]>> \in Now(PieceCells(id))
<1>1. \A c \in PieceCells(id) : Current(c)' = Current(c) /\ (disk'[c] = disk[c] \/ disk'[c] = Current(c)')
  BY CellOfPiece DEF Calm
<1>2. PieceCells(id)' = PieceCells(id)
  BY DEF PieceCells, Units
<1>3. Now(PieceCells(id)) = {<<c, Current(c)>> : c \in PieceCells(id)}
  BY DEF Now
<1>4. Now(PieceCells(id))' = {<<c, Current(c)'>> : c \in PieceCells(id)}
  BY <1>2 DEF Now
<1>5. Now(PieceCells(id))' = Now(PieceCells(id))
  BY <1>1, <1>3, <1>4
<1>6. QED
  BY <1>1, <1>3, <1>5

\* A read of a piece stays fresh in a calm step that keeps it sound.
LEMMA ReadFreshKept ==
  ASSUME ReadInv', NEW id \in PieceId, Calm(Blocks(id)), NEW j \in ReadsOf(id)',
         phase'[id] # "downloading", ReadSound(read'[j], Now(PieceCells(id)), disk)
  PROVE  ReadFresh(id, j)'
<1> DEFINE r == read'[j]
           held == Now(PieceCells(id))
<1>1. j \in ReadJob /\ r # Idle /\ r.s = id[1] /\ r.p = id[2]
  BY SMTT(60), SMTT(90), PieceForm DEF ReadsOf
<1>2. r \in ReadRec
  BY <1>1 DEF ReadInv
<1>3. held' = held /\ \A c \in PieceCells(id) : disk'[c] = disk[c] \/ <<c, disk'[c]>> \in held
  BY HeldKept
<1>4. Units(r.s, r.p, r.start, r.length) \subseteq PieceCells(id)
  <2>1. r.start \in Nat /\ r.length \in Nat /\ piece_size[id[2]] \in Nat /\ r.start + r.length <= piece_size[id[2]]
    BY <1>1, <1>2, PieceForm DEF ReadRec, ReadSound
  <2>2. r.start .. r.start + r.length - 1 \subseteq 0 .. 0 + piece_size[id[2]] - 1
    BY SMTT(60), SMTT(90), <2>1
  <2>3. QED
    BY <1>1, <2>2 DEF PieceCells, Units
<1>5. ReadSound(r, held, disk')
  <2> HIDE DEF r, held
  <2>1. held \subseteq held
    OBVIOUS
  <2>2. ReadSound(r, held, disk)
    BY DEF r, held
  <2>3. \A c \in Units(r.s, r.p, r.start, r.length) \cap Good : disk'[c] = disk[c] \/ <<c, disk'[c]>> \in held
    BY <1>3, <1>4
  <2>4. QED
    BY <1>2, <2>1, <2>2, <2>3, ReadSoundKept
<1>6. QED
  BY <1>3, <1>5 DEF ReadFresh

\* A hash of a piece stays fresh in a calm step that keeps it sound.
LEMMA HashFreshKept ==
  ASSUME HashInv', NEW id \in PieceId, Calm(Blocks(id)), NEW j \in HashesOf(id)', phase'[id] # "downloading",
         ~hash'[j].err => HashSound(hash'[j], Now(PieceCells(id)), disk)
  PROVE  HashFresh(id, j)'
<1> DEFINE h == hash'[j]
           held == Now(PieceCells(id))
<1>1. j \in HashJob /\ h.stage # "idle" /\ h.s = id[1] /\ h.p = id[2]
  BY SMTT(60), PieceForm DEF HashesOf
<1>2. h \in HashRec /\ HashInRange(h)
  <2>1. h # Idle
    BY SMTT(60), <1>1 DEF Idle
  <2>2. QED
    BY <1>1, <2>1 DEF HashInv
<1>3. held' = held /\ \A c \in PieceCells(id) : disk'[c] = disk[c] \/ <<c, disk'[c]>> \in held
  BY HeldKept
<1>4. Units(h.s, h.p, 0, piece_size[h.p]) = PieceCells(id)
  BY <1>1 DEF PieceCells
<1>5. ASSUME ~h.err PROVE HashSound(h, held, disk')
  <2> HIDE DEF h, held
  <2>1. held \subseteq held /\ (held = {} <=> held = {})
    OBVIOUS
  <2>2. HashSound(h, held, disk)
    BY <1>5 DEF h, held
  <2>3. \A c \in Units(h.s, h.p, 0, piece_size[h.p]) \cap Good : disk'[c] = disk[c] \/ <<c, disk'[c]>> \in held
    BY <1>3, <1>4
  <2>4. QED
    BY <1>2, <2>1, <2>2, <2>3, HashSoundKept
<1>6. QED
  BY <1>3, <1>5 DEF HashFresh

\* A step that writes no block of the piece, when the requests that it changes see
\* what they should.
LEMMA FreshStep ==
  ASSUME ReadInv', HashInv', NEW id \in PieceId, FreshInv(id), Calm(Blocks(id)),
         arrived[id] \subseteq arrived'[id],
         phase'[id] = "downloading" => phase[id] = "downloading",
         \A j \in ReadsOf(id)' : \/ j \in ReadsOf(id) /\ read'[j] = read[j]
                                 \/ /\ phase'[id] # "downloading"
                                    /\ ReadSound(read'[j], Now(PieceCells(id)), disk),
         \A j \in HashesOf(id)' : \/ j \in HashesOf(id) /\ hash'[j] = hash[j]
                                  \/ /\ phase'[id] # "downloading"
                                     /\ ~hash'[j].err => HashSound(hash'[j], Now(PieceCells(id)), disk),
         phase'[id] = "have" => phase[id] = "have" \/ \A c \in PieceCells(id) : Current(c) = GoodVal
  PROVE  FreshInv(id)'
<1>1. Settled(Blocks(id))'
  BY DEF Calm, Blocks
<1>2. ASSUME NEW j \in WriteJob, UnderWay(j)', write'[j].loc \in Blocks(id)
      PROVE  write'[j].loc \in arrived'[id]
  BY <1>2 DEF Calm, FreshInv
<1>3. ASSUME NEW j \in ReadsOf(id)' PROVE ReadFresh(id, j)'
  <2>1. phase'[id] # "downloading" /\ ReadSound(read'[j], Now(PieceCells(id)), disk)
    BY DEF FreshInv, ReadFresh
  <2>2. QED
    BY <2>1, ReadFreshKept
<1>4. ASSUME NEW j \in HashesOf(id)' PROVE HashFresh(id, j)'
  <2>1. phase'[id] # "downloading" /\ (~hash'[j].err => HashSound(hash'[j], Now(PieceCells(id)), disk))
    BY DEF FreshInv, HashFresh
  <2>2. QED
    BY <2>1, HashFreshKept
<1>5. ASSUME phase'[id] = "have" PROVE \A c \in PieceCells(id) : Current(c)' = GoodVal
  <2>1. \A c \in PieceCells(id) : Current(c) = GoodVal
    BY <1>5 DEF FreshInv
  <2>2. QED
    BY <2>1, HeldKept
<1>6. PieceCells(id)' = PieceCells(id) /\ Blocks(id)' = Blocks(id)
  BY DEF PieceCells, Units, Blocks
<1>7. QED
  BY <1>1, <1>2, <1>3, <1>4, <1>5, <1>6 DEF FreshInv

\* Steps that change no request.
LEMMA FreshAside ==
  ASSUME ReadInv', HashInv', NEW id \in PieceId, FreshInv(id), Calm(Blocks(id)), UNCHANGED <<readVars, hashVars>>,
         phase'[id] = phase[id], arrived[id] \subseteq arrived'[id]
  PROVE  FreshInv(id)'
<1>1. read' = read /\ hash' = hash
  BY DEF readVars, hashVars
<1>2. ReadsOf(id)' = ReadsOf(id) /\ HashesOf(id)' = HashesOf(id)
  BY <1>1 DEF ReadsOf, HashesOf
<1>3. QED
  BY <1>1, <1>2, FreshStep

\* The steps of write jobs and their handlers preserve FreshInv.
LEMMA FreshWrites ==
  ASSUME BadName = {}, ~TRANSFER_MAY_FAIL, WriteInv, ReadInv', HashInv', NEW id \in PieceId, FreshInv(id),
         StartWrite \/ (\E j \in WriteJob : WriteStep(j) \/ HandleWrite(j)), UNCHANGED pieceVars
  PROVE  FreshInv(id)'
<1>1. Blocks(id) \in SUBSET Location /\ Settled(Blocks(id))
  BY PieceForm DEF FreshInv
<1>2. Calm(Blocks(id))
  BY <1>1, StartWriteCalm, WriteSliceCalm, FinishWriteCalm, WriteOverCalm DEF WriteStep
<1>3. UNCHANGED <<readVars, hashVars>>
  BY DEF StartWrite, WriteStep, WriteSlice, FinishWrite, FreeWrite, HandleWrite
<1>4. phase' = phase /\ arrived' = arrived
  BY DEF pieceVars
<1>5. QED
  BY <1>2, <1>3, <1>4, FreshAside

\* A block that another piece receives leaves this one alone.
LEMMA FreshElsewhere ==
  ASSUME ~TRANSFER_MAY_FAIL, PieceTypes, WriteInv, ReadInv', HashInv', NEW id \in PieceId, FreshInv(id),
         NEW id2 \in PieceId, id2 # id, ReceiveBlock(id2)
  PROVE  FreshInv(id)'
<1>1. PICK loc \in Blocks(id2) \ arrived[id2], j \in WriteJob, o \in Observer, v \in Val :
        /\ async_write(j, o, loc, v)
        /\ arrived' = [arrived EXCEPT ![id2] = @ \cup {loc}]
  BY DEF ReceiveBlock
<1>2. loc \in Location /\ loc \notin Blocks(id)
  <2>1. /\ id = <<id[1], id[2]>> /\ id2 = <<id2[1], id2[2]>>
        /\ loc[1] = id2[1] /\ loc[2] = id2[2] /\ loc \in Location
    BY PieceForm DEF Blocks
  <2>2. QED
    BY <2>1 DEF Blocks
<1>3. Blocks(id) \in SUBSET Location /\ Settled(Blocks(id))
  BY PieceForm DEF FreshInv
<1>4. CalmBut(Blocks(id), loc)
  <2>1. loc \in Blocks(id) => \A k \in WriteJob : UnderWay(k) => write[k].loc # loc
    BY <1>2
  <2>2. async_write(j, o, loc, v)
    BY <1>1
  <2>3. QED
    BY <1>2, <1>3, <2>1, <2>2, WriteCallSettled
<1>5. Calm(Blocks(id))
  BY <1>2, <1>4 DEF Calm, CalmBut
<1>6. UNCHANGED <<readVars, hashVars>>
  BY <1>1 DEF async_write
<1>7. phase'[id] = phase[id] /\ arrived'[id] = arrived[id]
  BY <1>1 DEF PieceTypes, ReceiveBlock
<1>8. QED
  BY <1>5, <1>6, <1>7, FreshAside

\* A block of the piece itself: nothing asks for the piece yet.
LEMMA FreshReceive ==
  ASSUME ~TRANSFER_MAY_FAIL, PieceTypes, WriteInv, NEW id \in PieceId, FreshInv(id), ReceiveBlock(id)
  PROVE  FreshInv(id)'
<1>1. PICK loc \in Blocks(id) \ arrived[id], j \in WriteJob, o \in Observer, v \in Val :
        /\ async_write(j, o, loc, v)
        /\ arrived' = [arrived EXCEPT ![id] = @ \cup {loc}]
  BY DEF ReceiveBlock
<1>2. Blocks(id) \in SUBSET Location /\ Settled(Blocks(id)) /\ loc \in Location
  BY PieceForm DEF FreshInv
<1>3. \A k \in WriteJob : UnderWay(k) => write[k].loc # loc
  BY DEF FreshInv
<1>4. /\ Settled(Blocks(id))'
      /\ \A k \in WriteJob : UnderWay(k)' => \/ UnderWay(k) /\ write'[k].loc = write[k].loc
                                             \/ write'[k].loc = loc
  <2>1. CalmBut(Blocks(id), loc)
    BY <1>1, <1>2, <1>3, WriteCallSettled
  <2>2. QED
    BY <2>1 DEF CalmBut
<1>5. arrived'[id] = arrived[id] \cup {loc} /\ phase'[id] = "downloading"
  BY <1>1 DEF PieceTypes, ReceiveBlock
<1>6. read' = read /\ hash' = hash
  BY <1>1 DEF async_write, readVars, hashVars
<1>7. ReadsOf(id) = {} /\ HashesOf(id) = {}
  BY DEF FreshInv, ReadFresh, HashFresh, ReceiveBlock
<1>8. ReadsOf(id)' = {} /\ HashesOf(id)' = {}
  BY <1>6, <1>7 DEF ReadsOf, HashesOf
<1>9. \A k \in WriteJob : UnderWay(k)' /\ write'[k].loc \in Blocks(id) => write'[k].loc \in arrived'[id]
  BY <1>4, <1>5 DEF FreshInv
<1>10. phase'[id] # "have"
  BY <1>5
<1>11. Blocks(id)' = Blocks(id)
  BY DEF Blocks
<1>12. QED
  BY <1>4, <1>8, <1>9, <1>10, <1>11 DEF FreshInv
==============================================================================
