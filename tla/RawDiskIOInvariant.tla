------------------------- MODULE RawDiskIOInvariant --------------------------
(***************************************************************************)
(* The inductive invariants of RawDiskIO: IInv, under any calls, and        *)
(* PlacedInv and RegInv, when libtorrent does not write a block again      *)
(* before its handler ran and transfers do not fail.                       *)
(***************************************************************************)
EXTENDS RawDiskIORefinement

\* The offset of the block a unit lies in.
BlockStart(x) == x - (x % DEFAULT_BLOCK_SIZE)

\* What a count does when an element is added or removed.
Counted(S) ==
  /\ Cardinality(S) \in Nat
  /\ \A x : x \notin S => Cardinality(S \cup {x}) = Cardinality(S) + 1
  /\ \A x \in S : Cardinality(S) > 0 /\ Cardinality(S \ {x}) = Cardinality(S) - 1

\* What the lemmas on steps use of Cardinality (proved in RawDiskIOProofs, from
\* the finiteness of the sets of jobs).
CountingFacts ==
  \A jobs \in {WriteJob, ReadJob, HashJob} : \A S \in SUBSET jobs : Counted(S)

\* The steps of Next by the kind of job that takes them, and those of the peers
\* that wait for a buffer.
WriteAction ==
  \/ \E j \in WriteJob, o \in Observer, loc \in Location, v \in Val : async_write(j, o, loc, v)
  \/ StartWrite
  \/ \E j \in WriteJob : WriteStep(j) \/ HandleWrite(j)

ReadAction ==
  \/ \E j \in ReadJob, c \in Cell, length \in 1 .. DEFAULT_BLOCK_SIZE :
       c[3] + length <= piece_size[c[2]] /\ async_read(j, c[1], c[2], c[3], length)
  \/ StartRead
  \/ \E j \in ReadJob : ReadStep(j) \/ HandleRead(j) \/ FreeRead(j)

HashAction ==
  \/ \E j \in HashJob, s \in Storage, p \in Piece : async_hash(j, s, p)
  \/ StartHash
  \/ \E j \in HashJob : HashStep(j) \/ HandleHash(j)

PeerAction == RunCallback \/ \E o \in Observer : Disconnect(o)

-----------------------------------------------------------------------------
(* The inductive invariant                                                 *)

\* A queue holds jobs that are queued, each once.
Queued(queue, job) ==
  /\ \A n \in DOMAIN queue : job[queue[n]].stage = "queued"
  /\ \A m, n \in DOMAIN queue : queue[m] = queue[n] => m = n

WriteTypes ==
  /\ disk \in [Cell -> Val]
  /\ SB!StoreBufferTypeOK
  /\ write \in [WriteJob -> WriteRec \cup {Idle}]
  /\ write_queue \in Seq(WriteJob)

WriteInv ==
  /\ WriteTypes
  /\ Queued(write_queue, write)
  /\ NoDanglingBuffer
  /\ WP!TypeOK
  /\ w_size = Cardinality(WriteHolders)

\* What write w has put on partition d: the units below its offset, and the whole
\* block once it has reported success.
Placed(d, w) ==
  /\ w.stage \in {"queued", "writing"} =>
       /\ w.loc[3] <= w.offset
       /\ \A c \in BlockOf(w.loc) : c[3] < w.offset => d[c] = w.val
  /\ w.stage = "posted" /\ ~w.err => \A c \in BlockOf(w.loc) : d[c] = w.val

\* It stays there as long as no other write has the block.
PlacedInv ==
  /\ \A j \in WriteJob : Outstanding(j) => Placed(disk, write[j])
  /\ \A j, k \in WriteJob : Outstanding(j) /\ Outstanding(k) /\ write[j].loc = write[k].loc => j = k

\* The disk read of a read job stays in its piece.
ReadInRange(r) == r.end <= piece_size[r.p]

ReadInv ==
  /\ read \in [ReadJob -> ReadRec \cup {Idle}]
  /\ read_queue \in Seq(ReadJob)
  /\ Queued(read_queue, read)
  /\ \A j \in ReadJob : read[j] # Idle => ReadInRange(read[j])

\* A hash that has done i blocks has read at most i blocks' length.
HashInRange(h) ==
  /\ h.stage = "queued" => h.i = 0 /\ h.offset = 0
  /\ h.stage = "hashing" /\ h.i < blocks_in_piece(h.p) => h.offset <= DEFAULT_BLOCK_SIZE * h.i
  /\ h.stage = "reading" => /\ h.offset < h.end /\ h.end <= piece_size[h.p]
                            /\ h.end <= DEFAULT_BLOCK_SIZE * h.i + DEFAULT_BLOCK_SIZE

HashInv ==
  /\ hash \in [HashJob -> HashRec \cup {Idle}]
  /\ hash_queue \in Seq(HashJob)
  /\ Queued(hash_queue, hash)
  /\ \A j \in HashJob : hash[j] # Idle => HashInRange(hash[j])

ReadPoolInv ==
  /\ RP!PoolTypeOK
  /\ r_size = Cardinality(ReadHolders) + Cardinality(HashHolders)

SeenInv == seen \in [ReadJob \cup HashJob -> SUBSET (Cell \X Val)]

IInv == WriteInv /\ ReadInv /\ HashInv /\ ReadPoolInv /\ SeenInv

-----------------------------------------------------------------------------
(* Requests see what their cells have held                                 *)

\* The location of the block that a cell lies in.
Home(c) == <<c[1], c[2], BlockStart(c[3])>>

\* A write under way is the one that its entry in the store buffer points to, and
\* fails only over a file name that cannot be parsed.
EntryInv ==
  \A j \in WriteJob : write[j].stage \in {"queued", "writing"} =>
    /\ store_buffer[write[j].loc] = j
    /\ write[j].err => BlockOf(write[j].loc) \cap BadName # {}

\* What a read r in flight has in its buffer and has still to read from partition
\* d, when its cells have held what is in held: every unit is in its place or is
\* still to be read, once, and either way has a value that the cell has held.
ReadSound(r, held, d) ==
  /\ held # {} /\ r.length > 0 /\ r.start + r.length <= piece_size[r.p]
  /\ r.err => Units(r.s, r.p, r.start, r.length) \cap BadName # {}
  /\ r.start <= r.offset /\ r.offset <= r.end /\ r.end <= r.start + r.length
  /\ r.slot = r.offset - r.start
  /\ \A x \in r.data :
       /\ x[1] \in 0 .. r.length - 1 /\ x[2] = r.start + x[1] /\ x[3] \in Val
       /\ <<r.s, r.p, x[2]>> \in Good => <<<<r.s, r.p, x[2]>>, x[3]>> \in held
  /\ \A n \in 0 .. r.length - 1 :
       (\E x \in r.data : x[1] = n) <=> r.start + n \notin r.offset .. r.end - 1
  /\ \A x, y \in r.data : x[1] = y[1] => x = y
  /\ r.stage \in {"queued", "reading"} =>
       \A u \in r.offset .. r.end - 1 : <<r.s, r.p, u>> \in Good =>
         <<<<r.s, r.p, u>>, d[<<r.s, r.p, u>>]>> \in held

\* The hasher was fed the units below offset, in order.
Fed(ph, s, p, offset, held) ==
  /\ Len(ph) = offset
  /\ \A n \in 1 .. offset :
       /\ ph[n][1] = n - 1 /\ ph[n][2] \in Val
       /\ <<s, p, n - 1>> \in Good => <<<<s, p, n - 1>>, ph[n][2]>> \in held

\* Where i blocks of a piece end.
AfterBlocks(p, i, offset) ==
  \/ offset = DEFAULT_BLOCK_SIZE * i /\ offset <= piece_size[p]
  \/ offset = piece_size[p] /\ DEFAULT_BLOCK_SIZE * i >= piece_size[p]

\* The same for a hash h: unless it failed it was fed the blocks it has done, and
\* what it has still to read of a block has a value that the cell has held.
HashSound(h, held, d) ==
  /\ piece_size[h.p] = 0 => held = {}
  /\ held = {} => piece_size[h.p] = 0 \/ h.stage \in {"posted", "handled"}
  /\ h.err /\ held # {} => Units(h.s, h.p, 0, piece_size[h.p]) \cap BadName # {}
  /\ ~h.err =>
       /\ Fed(h.ph, h.s, h.p, h.offset, held)
       /\ h.stage \in {"queued", "hashing"} => AfterBlocks(h.p, h.i, h.offset)
       /\ h.stage = "reading" =>
            /\ AfterBlocks(h.p, h.i + 1, h.end)
            /\ \A u \in h.offset .. h.end - 1 : <<h.s, h.p, u>> \in Good =>
                 <<<<h.s, h.p, u>>, d[<<h.s, h.p, u>>]>> \in held

\* The history of a request in flight has what a new request would see.
FollowInv ==
  \A j \in ReadJob \cup HashJob : \A c \in Wanted(j) \cap Good : <<c, Current(c)>> \in seen[j]

ReadSoundInv ==
  \A j \in ReadJob : IF read[j] = Idle THEN seen[j] = {} ELSE ReadSound(read[j], seen[j], disk)

HashSoundInv ==
  \A j \in HashJob : IF hash[j] = Idle THEN seen[j] = {} ELSE HashSound(hash[j], seen[j], disk)

RegInv == EntryInv /\ FollowInv /\ ReadSoundInv /\ HashSoundInv

-----------------------------------------------------------------------------
(* Blocks no two writes of which are under way, whatever the others do     *)

UnderWay(j) == write[j].stage \in {"queued", "writing"}

\* No write is below its block, and a write to one of these blocks has its entry,
\* has not failed and has put on the partition what it has written so far.
Settled(locs) ==
  \A j \in WriteJob : UnderWay(j) =>
    /\ write[j].loc[3] <= write[j].offset
    /\ write[j].loc \in locs =>
         store_buffer[write[j].loc] = j /\ ~write[j].err /\ Placed(disk, write[j])
==============================================================================
