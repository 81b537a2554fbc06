--------------------------- MODULE RawDiskIOProofs ---------------------------
(***************************************************************************)
(* Theorems about RawDiskIO for any number of jobs, threads, pieces and    *)
(* values and any block and pool sizes: its types, that the store buffer   *)
(* never points to a freed buffer, that every buffer is accounted for,     *)
(* that success means data on the partition, that the write pool is used   *)
(* as Backpressure allows, that requests are answered as BlockStore        *)
(* allows, and, for PieceVerification, that a verified piece is served.    *)
(***************************************************************************)
EXTENDS ReadJobProofs, HashJobProofs

\* The provers a step is tried with, in this order, unless it names its own.  (SMT is
\* named twice since its translation of a step has a fixed time, whatever the limit.)
USE Zenon, SMTT(60), SMTT(90)

-----------------------------------------------------------------------------
(* The steps preserve the invariant                                        *)

\* Every step is one of a write, a read, a hash or a peer.
LEMMA NextIs == Next = (WriteAction \/ ReadAction \/ HashAction \/ PeerAction)
  BY DEF Next, Call, Background, WriteAction, ReadAction, HashAction, PeerAction

\* Steps that are not of writes leave the writes, and but for the peers', the pool
\* of the writes alone.
LEMMA OthersAside ==
  ASSUME ReadAction \/ HashAction
  PROVE  UNCHANGED <<writeVars, poolVars>>
  BY ZenonT(60) DEF ReadAction, async_read, StartRead, ReadStep, ReadSlice, FinishRead, HandleRead, FreeRead,
                    HashAction, async_hash, StartHash, HashStep, HashBlock, HashSlice, FinishHash, FreeHash, HandleHash

\* Every step preserves the inductive invariant.
LEMMA NextIInv ==
  ASSUME CountingFacts, IInv, [Next]_vars
  PROVE  IInv'
<1>1. CASE WriteAction \/ ReadAction \/ HashAction \/ PeerAction
  BY <1>1, WriteStepIInv, ReadStepIInv, HashStepIInv
<1>2. CASE UNCHANGED vars
  <2>1. UNCHANGED <<writeVars, poolVars, readVars, hashVars, readPoolVars, seen>>
    BY <1>2 DEF vars
  <2>2. UNCHANGED <<read, hash>>
    BY <2>1 DEF readVars, hashVars
  <2>3. SeenInv'
    BY <2>1 DEF IInv, SeenInv
  <2>4. QED
    BY <2>1, <2>2, <2>3, WriteStutter, ReadStutter, HashStutter, ReadPoolStutter DEF IInv
<1>3. QED
  BY <1>1, <1>2, NextIs

-----------------------------------------------------------------------------
(* The steps, seen in Backpressure and in BlockStore                       *)

\* The write pool under the jobs of raw_disk_io is the pool of Backpressure: each
\* step of the data path is one of its steps or leaves it alone, so what is proved
\* of Backpressure holds of the pool here.
THEOREM PoolIsBackpressure == Spec => PoolProtocol
<1>1. Init => WP!Init
  BY DEF Init, WP!Init
<1>2. ASSUME [Next]_vars PROVE [WP!Next]_(WP!vars)
  <2>1. ASSUME NEW j \in WriteJob, NEW o \in Observer, NEW loc \in Location, NEW v \in Val,
               async_write(j, o, loc, v)
        PROVE  WP!Next
    <3>1. PICK got \in BOOLEAN : WP!PeerWrite(o, got)
      BY ZenonT(60), <2>1 DEF async_write
    <3>2. QED
      BY ZenonT(60), <3>1 DEF WP!Next
  <2>2. ASSUME NEW j \in WriteJob, FreeWrite(j) PROVE WP!Next
    BY ZenonT(60), <2>2 DEF FreeWrite, WP!Next
  <2>3. ASSUME PeerAction PROVE WP!Next
    BY ZenonT(60), <2>3 DEF PeerAction, RunCallback, Disconnect, WP!Next
  <2>4. CASE UNCHANGED poolVars
    BY <2>4 DEF poolVars, WP!vars
  <2>5. CASE StartWrite \/ \E j \in WriteJob : WriteSlice(j) \/ FinishWrite(j) \/ HandleWrite(j)
    BY ZenonT(60), <2>4, <2>5 DEF StartWrite, WriteSlice, FinishWrite, HandleWrite
  <2>6. CASE WriteAction
    BY ZenonT(60), <2>1, <2>2, <2>5, <2>6 DEF WriteAction, WriteStep
  <2>7. CASE UNCHANGED vars
    BY ZenonT(60), <2>4, <2>7 DEF vars
  <2>8. QED
    BY <1>2, <2>3, <2>4, <2>6, <2>7, NextIs, OthersAside
<1>3. QED
  BY <1>1, <1>2, PTL DEF Spec, PoolProtocol, WP!Spec

\* Nothing is requested at the start, and the store is that of the empty store buffer.
LEMMA InitRegular == Init => RegInv /\ BS!Init
<1> SUFFICES ASSUME Init
             PROVE  RegInv /\ BS!Init
  OBVIOUS
<1>1. /\ write = [j \in WriteJob |-> Idle] /\ read = [j \in ReadJob |-> Idle]
      /\ hash = [j \in HashJob |-> Idle] /\ seen = [j \in ReadJob \cup HashJob |-> {}]
      /\ disk = [c \in Cell |-> InitVal] /\ store_buffer = [loc \in Location |-> NoJob]
      /\ Idle.stage = "idle"
  BY DEF Init, Idle, SB!StoreBufferInit
<1>2. EntryInv /\ ReadSoundInv /\ HashSoundInv
  BY <1>1 DEF EntryInv, ReadSoundInv, HashSoundInv
<1>3. \A j \in ReadJob \cup HashJob :
        /\ Wanted(j) = {} /\ Requested(j) = {} /\ GoodPart(seen[j]) = {} /\ Answered(j) = BS!NoAnswer
  <2> SUFFICES ASSUME NEW j \in ReadJob \cup HashJob
               PROVE  /\ Wanted(j) = {} /\ Requested(j) = {} /\ GoodPart(seen[j]) = {}
                      /\ Answered(j) = BS!NoAnswer
    OBVIOUS
  <2>1. seen[j] = {}
    BY <1>1
  <2>2. CASE j \in ReadJob
    <3>1. read[j].stage = "idle"
      BY <1>1, <2>2
    <3>2. QED
      BY <2>1, <2>2, <3>1 DEF Wanted, Requested, GoodPart, Answered, ReadAnswer, BS!NoAnswer
  <2>3. CASE j \notin ReadJob
    <3>1. hash[j].stage = "idle"
      BY <1>1, <2>3
    <3>2. QED
      BY <1>1, <2>1, <2>3, <3>1 DEF Wanted, Requested, GoodPart, Answered, HashAnswer, BS!NoAnswer
  <2>4. QED
    BY <2>2, <2>3
<1>4. FollowInv
  BY <1>3 DEF FollowInv
<1>5. ASSUME NEW c \in Good PROVE Current(c) = InitVal
  <2>1. c \in Cell /\ Home(c) \in Location
    BY GoodCell, HomeOfCell
  <2>2. QED
    BY <1>1, <2>1, CurrentIs
<1>6. BS!Init
  BY <1>3, <1>5 DEF BS!Init, Contents, Requests, Histories, Answers, GoodPart
<1>7. QED
  BY <1>2, <1>4, <1>6 DEF RegInv

\* Steps of peers leave the store alone.
LEMMA OthersImplement ==
  ASSUME RegInv, PeerAction \/ UNCHANGED vars
  PROVE  RegInv' /\ UNCHANGED BS!vars
<1>1. UNCHANGED <<writeVars, readVars, hashVars, seen>>
  BY ZenonT(60) DEF PeerAction, RunCallback, Disconnect, vars
<1>2. /\ disk' = disk /\ store_buffer' = store_buffer /\ write' = write /\ read' = read /\ hash' = hash
      /\ seen' = seen
  BY <1>1 DEF writeVars, readVars, hashVars
<1>3. \A c : Current(c)' = Current(c)
  BY <1>1, CurrentKept
<1>4. EntryInv' /\ ReadSoundInv' /\ HashSoundInv'
  BY <1>2 DEF RegInv, EntryInv, ReadSoundInv, HashSoundInv
<1>5. FollowInv'
  BY <1>2, <1>3 DEF RegInv, FollowInv, Wanted
<1>6. \A k \in ReadJob \cup HashJob : Requested(k)' = Requested(k) /\ Answered(k)' = Answered(k)
  BY <1>2, JobKept
<1>7. UNCHANGED BS!vars
  BY <1>2, <1>3, <1>6, StoreKept
<1>8. QED
  BY <1>4, <1>5, <1>7 DEF RegInv

\* Each step of RawDiskIO preserves RegInv, and is a step of BlockStore or
\* leaves it alone.
LEMMA StepImplements ==
  ASSUME ~Overlap, ~TRANSFER_MAY_FAIL, IInv, PlacedInv, RegInv, [Next]_vars
  PROVE  RegInv' /\ [BS!Next]_(BS!vars)
<1>1. RegInv' /\ (BS!Next \/ UNCHANGED BS!vars)
  BY NextIs, WritesImplement, ReadsImplement, HashesImplement, OthersImplement
<1>2. QED
  BY <1>1

-----------------------------------------------------------------------------
(* The reads of a piece                                                    *)

\* Steps of one read.
LEMMA FreshRead ==
  ASSUME ReadInv', HashInv', NEW id \in PieceId, FreshInv(id), UNCHANGED <<writeVars, hashVars, pieceVars>>,
         NEW j \in ReadJob, \A k \in ReadJob : k # j => read'[k] = read[k],
         j \in ReadsOf(id)' => phase[id] # "downloading" /\ ReadSound(read'[j], Now(PieceCells(id)), disk)
  PROVE  FreshInv(id)'
<1>1. Calm(Blocks(id))
  BY CalmStutter DEF FreshInv
<1>2. hash' = hash /\ phase' = phase /\ arrived' = arrived
  BY DEF hashVars, pieceVars
<1>3. \A k \in ReadsOf(id)' : k # j => k \in ReadsOf(id) /\ read'[k] = read[k]
  BY DEF ReadsOf
<1>4. HashesOf(id)' = HashesOf(id)
  BY <1>2 DEF HashesOf
<1>5. \A k \in ReadsOf(id)' : \/ k \in ReadsOf(id) /\ read'[k] = read[k]
                              \/ /\ phase'[id] # "downloading"
                                 /\ ReadSound(read'[k], Now(PieceCells(id)), disk)
  BY <1>2, <1>3
<1>6. QED
  BY <1>1, <1>2, <1>4, <1>5, FreshStep

\* A read that only goes on to its next stage changes nothing that FreshInv is about.
LEMMA FreshReadStage ==
  ASSUME ReadInv, ReadInv', HashInv', NEW id \in PieceId, FreshInv(id), UNCHANGED <<writeVars, hashVars, pieceVars>>,
         NEW j \in ReadJob, NEW st, read' = [read EXCEPT ![j].stage = st], read[j].stage # "idle",
         st = "reading" => read[j].stage = "queued", st # "queued"
  PROVE  FreshInv(id)'
<1>1. read[j] \in ReadRec /\ read[j] # Idle
  BY ReadIsRec
<1>2. /\ read'[j] = [read[j] EXCEPT !.stage = st]
      /\ \A k \in ReadJob : k # j => read'[k] = read[k]
  BY DEF ReadInv
<1>3. read'[j].s = read[j].s /\ read'[j].p = read[j].p
  BY ZenonT(60), <1>1, <1>2 DEF ReadRec
<1>4. ASSUME j \in ReadsOf(id)'
      PROVE  phase[id] # "downloading" /\ ReadSound(read'[j], Now(PieceCells(id)), disk)
  <2>1. j \in ReadsOf(id)
    BY <1>1, <1>3, <1>4 DEF ReadsOf
  <2>2. phase[id] # "downloading" /\ ReadSound(read[j], Now(PieceCells(id)), disk)
    BY <2>1 DEF FreshInv, ReadFresh
  <2>3. ReadSound([read[j] EXCEPT !.stage = st], Now(PieceCells(id)), disk)
    BY <1>1, <2>2, ReadStageSound
  <2>4. QED
    BY <1>2, <2>2, <2>3
<1>5. QED
  BY <1>2, <1>4, FreshRead

\* The steps of read jobs and their handlers preserve FreshInv.
LEMMA FreshReads ==
  ASSUME ~TRANSFER_MAY_FAIL, WriteInv, ReadInv, ReadInv', HashInv', NEW id \in PieceId, FreshInv(id),
         StartRead \/ (\E j \in ReadJob : ReadStep(j) \/ HandleRead(j) \/ FreeRead(j)), UNCHANGED pieceVars
  PROVE  FreshInv(id)'
<1>1. CASE StartRead
  <2>1. Head(read_queue) \in ReadJob /\ read[Head(read_queue)].stage = "queued"
    BY SMTT(60), <1>1 DEF StartRead, ReadInv, Queued
  <2>2. PICK j \in ReadJob : /\ read[j].stage = "queued" /\ read' = [read EXCEPT ![j].stage = "reading"]
                             /\ UNCHANGED <<writeVars, hashVars>>
    BY <1>1, <2>1 DEF StartRead
  <2>3. QED
    BY <2>2, FreshReadStage
<1>2. ASSUME NEW j \in ReadJob, ReadSlice(j) PROVE FreshInv(id)'
  <2>1. read[j] # Idle
    BY <1>2, ReadIsRec DEF ReadSlice
  <2>2. UNCHANGED <<writeVars, hashVars>>
    BY <1>2 DEF ReadSlice
  <2>3. CASE <<read[j].s, read[j].p>> = id
    <3>1. phase[id] # "downloading" /\ ReadSound(read[j], Now(PieceCells(id)), disk)
      BY <2>1, <2>3 DEF FreshInv, ReadFresh, ReadsOf
    <3>2. /\ ReadSound(read'[j], Now(PieceCells(id)), disk)
          /\ \A k \in ReadJob : k # j => read'[k] = read[k]
      BY <1>2, <3>1, ReadSliceSound
    <3>3. QED
      BY <2>2, <3>1, <3>2, FreshRead
  <2>4. CASE <<read[j].s, read[j].p>> # id
    <3>1. read[j] \in ReadRec
      BY <1>2, ReadIsRec DEF ReadSlice
    <3>2. /\ read'[j].s = read[j].s /\ read'[j].p = read[j].p
          /\ \A k \in ReadJob : k # j => read'[k] = read[k]
      <4>1. PICK v : read' = [read EXCEPT ![j] =
               IF <<read[j].s, read[j].p, read[j].offset>> \in BadName THEN [read[j] EXCEPT !.err = TRUE]
               ELSE [read[j] EXCEPT !.offset = @ + 1, !.slot = @ + 1,
                            !.data = @ \cup {<<read[j].slot, read[j].offset, v>>}]]
        BY <1>2 DEF ReadSlice
      <4>2. \A k \in ReadJob : k # j => read'[k] = read[k]
        BY <4>1 DEF ReadInv
      <4>3. \/ read'[j] = [read[j] EXCEPT !.err = TRUE]
            \/ read'[j] = [read[j] EXCEPT !.offset = @ + 1, !.slot = @ + 1,
                            !.data = @ \cup {<<read[j].slot, read[j].offset, v>>}]
        BY <4>1 DEF ReadInv
      <4>4. read'[j].s = read[j].s /\ read'[j].p = read[j].p
        BY ZenonT(60), <3>1, <4>3 DEF ReadRec
      <4>5. QED
        BY <4>2, <4>4
    <3>3. j \notin ReadsOf(id)'
      BY <2>4, <3>2 DEF ReadsOf
    <3>4. QED
      BY <2>2, <3>2, <3>3, FreshRead
  <2>5. QED
    BY <2>3, <2>4
<1>3. ASSUME NEW j \in ReadJob, FinishRead(j) PROVE FreshInv(id)'
  <2>1. /\ read[j].stage = "reading" /\ read' = [read EXCEPT ![j].stage = "posted"]
        /\ UNCHANGED <<writeVars, hashVars>>
    BY <1>3 DEF FinishRead
  <2>2. QED
    BY <2>1, FreshReadStage
<1>4. ASSUME NEW j \in ReadJob, HandleRead(j) PROVE FreshInv(id)'
  <2>1. /\ read[j].stage = "posted" /\ read' = [read EXCEPT ![j].stage = "held"]
        /\ UNCHANGED <<writeVars, hashVars>>
    BY <1>4 DEF HandleRead
  <2>2. QED
    BY <2>1, FreshReadStage
<1>5. ASSUME NEW j \in ReadJob, FreeRead(j) PROVE FreshInv(id)'
  <2>1. /\ read' = [read EXCEPT ![j] = Idle] /\ UNCHANGED <<writeVars, hashVars>>
    BY <1>5 DEF FreeRead
  <2>2. read'[j] = Idle /\ \A k \in ReadJob : k # j => read'[k] = read[k]
    BY <2>1 DEF ReadInv
  <2>3. j \notin ReadsOf(id)'
    BY <2>2 DEF ReadsOf
  <2>4. QED
    BY <2>1, <2>2, <2>3, FreshRead
<1>6. QED
  BY <1>1, <1>2, <1>3, <1>4, <1>5 DEF ReadStep

\* A request of a peer.
LEMMA FreshReadCall ==
  ASSUME WriteInv, ReadInv, SeenInv, ReadInv', HashInv', NEW id \in PieceId, FreshInv(id), UNCHANGED pieceVars,
         NEW j \in ReadJob, NEW c \in Cell, NEW length \in 1 .. DEFAULT_BLOCK_SIZE,
         c[3] + length <= piece_size[c[2]], async_read(j, c[1], c[2], c[3], length),
         phase[<<c[1], c[2]>>] = "have"
  PROVE  FreshInv(id)'
<1> DEFINE r == read'[j]
           held == Now(Units(c[1], c[2], c[3], length))
<1>1. /\ UNCHANGED <<writeVars, hashVars>> /\ read[j] = Idle
      /\ \/ UNCHANGED <<readVars, seen>>
         \/ /\ r \in ReadRec /\ r.s = c[1] /\ r.p = c[2] /\ r.start = c[3] /\ r.length = length
            /\ ReadSound(r, held, disk)
            /\ \A k \in ReadJob : k # j => read'[k] = read[k]
  BY SMTT(60), ReadCallIs
<1>2. CASE UNCHANGED <<readVars, seen>>
  <2>1. read' = read
    BY <1>2 DEF readVars
  <2>2. j \notin ReadsOf(id)'
    BY <1>1, <2>1 DEF ReadsOf
  <2>3. QED
    BY <1>1, <2>1, <2>2, FreshRead
<1>3. CASE ~UNCHANGED <<readVars, seen>>
  <2>1. /\ r \in ReadRec /\ r.s = c[1] /\ r.p = c[2] /\ r.start = c[3] /\ r.length = length
        /\ ReadSound(r, held, disk)
        /\ \A k \in ReadJob : k # j => read'[k] = read[k]
    BY <1>1, <1>3
  <2>2. ASSUME j \in ReadsOf(id)'
        PROVE  phase[id] # "downloading" /\ ReadSound(r, Now(PieceCells(id)), disk)
    <3>1. <<c[1], c[2]>> = id /\ c[1] = id[1] /\ c[2] = id[2]
      BY SMTT(60), SMTT(90), <2>1, <2>2 DEF ReadsOf
    <3>2. phase[id] # "downloading"
      BY <3>1
    <3>3. Units(c[1], c[2], c[3], length) \subseteq PieceCells(id)
      <4>1. c[3] \in Nat /\ length \in Nat /\ piece_size[c[2]] \in Nat
        <5>1. length \in Nat
          BY SMTT(60), IOAssumption
        <5>2. QED
          BY <3>1, <5>1, CellParts, PieceForm
      <4>2. c[3] .. c[3] + length - 1 \subseteq 0 .. 0 + piece_size[c[2]] - 1
        BY SMTT(60), <4>1
      <4>3. QED
        BY <3>1, <4>2 DEF PieceCells, Units
    <3>4. held \subseteq Now(PieceCells(id))
      BY <3>3 DEF Now
    <3> HIDE DEF r, held
    <3>5. ReadSound(r, Now(PieceCells(id)), disk)
      BY <2>1, <3>4, ReadSoundKept
    <3>6. QED
      BY <3>2, <3>5
  <2>3. QED
    BY <1>1, <2>1, <2>2, FreshRead
<1>4. QED
  BY <1>2, <1>3

\* A call that PieceVerification makes is one that RawDiskIO allows.
LEMMA ServeIsRead ==
  ASSUME NEW id \in PieceId, ServeRequest(id)
  PROVE  \E j \in ReadJob, c \in Cell, length \in 1 .. DEFAULT_BLOCK_SIZE :
           /\ c[3] + length <= piece_size[c[2]] /\ async_read(j, c[1], c[2], c[3], length)
           /\ <<c[1], c[2]>> = id
<1>1. PICK j \in ReadJob, start \in 0 .. piece_size[id[2]] - 1, length \in 1 .. DEFAULT_BLOCK_SIZE :
        start + length <= piece_size[id[2]] /\ async_read(j, id[1], id[2], start, length)
  BY DEF ServeRequest
<1> DEFINE c == <<id[1], id[2], start>>
<1>2. /\ c \in Cell /\ c[1] = id[1] /\ c[2] = id[2] /\ c[3] = start /\ <<c[1], c[2]>> = id
  <2>1. id[1] \in Storage /\ id[2] \in Piece /\ piece_size[id[2]] \in Nat /\ id = <<id[1], id[2]>>
    BY PieceForm
  <2>2. start \in Nat /\ start < piece_size[id[2]]
    BY SMTT(60), <2>1
  <2>3. QED
    BY <2>1, <2>2, CellForm
<1> HIDE DEF c
<1>3. c[3] + length <= piece_size[c[2]] /\ async_read(j, c[1], c[2], c[3], length)
  BY <1>1, <1>2
<1>4. QED
  BY <1>2, <1>3

\* A read that is called for a verified piece starts with what is current.
LEMMA FreshServe ==
  ASSUME WriteInv, ReadInv, SeenInv, ReadInv', HashInv', NEW id \in PieceId, FreshInv(id),
         NEW id2 \in PieceId, ServeRequest(id2)
  PROVE  FreshInv(id)'
<1>1. PICK j \in ReadJob, c \in Cell, length \in 1 .. DEFAULT_BLOCK_SIZE :
           /\ c[3] + length <= piece_size[c[2]] /\ async_read(j, c[1], c[2], c[3], length)
           /\ <<c[1], c[2]>> = id2
  BY ServeIsRead
<1>2. phase[id2] = "have" /\ UNCHANGED pieceVars
  BY DEF ServeRequest
<1>3. QED
  BY <1>1, <1>2, FreshReadCall

-----------------------------------------------------------------------------
(* The hashes of a piece                                                   *)

\* Steps of one hash.
LEMMA FreshHash ==
  ASSUME ReadInv', HashInv', NEW id \in PieceId, FreshInv(id), UNCHANGED <<writeVars, readVars>>,
         NEW j \in HashJob, \A k \in HashJob : k # j => hash'[k] = hash[k],
         arrived' = arrived, phase'[id] = "downloading" => phase[id] = "downloading",
         phase'[id] = "have" => phase[id] = "have" \/ \A c \in PieceCells(id) : Current(c) = GoodVal,
         j \in HashesOf(id)' =>
           /\ phase'[id] # "downloading"
           /\ ~hash'[j].err => HashSound(hash'[j], Now(PieceCells(id)), disk)
  PROVE  FreshInv(id)'
<1>1. Calm(Blocks(id))
  BY CalmStutter DEF FreshInv
<1>2. read' = read
  BY DEF readVars
<1>3. \A k \in HashesOf(id)' : k # j => k \in HashesOf(id) /\ hash'[k] = hash[k]
  BY DEF HashesOf
<1>4. ReadsOf(id)' = ReadsOf(id)
  BY <1>2 DEF ReadsOf
<1>5. \A k \in HashesOf(id)' : \/ k \in HashesOf(id) /\ hash'[k] = hash[k]
                               \/ /\ phase'[id] # "downloading"
                                  /\ ~hash'[k].err => HashSound(hash'[k], Now(PieceCells(id)), disk)
  BY <1>3
<1>6. QED
  BY <1>1, <1>2, <1>4, <1>5, FreshStep

\* A hash that passes from stage to stage.
LEMMA FreshHashStage ==
  ASSUME HashInv, ReadInv', HashInv', NEW id \in PieceId, FreshInv(id), UNCHANGED <<writeVars, readVars, pieceVars>>,
         NEW j \in HashJob, hash[j].stage \in {"queued", "hashing", "posted"}, NEW q,
         hash' = [hash EXCEPT ![j] = q], q.s = hash[j].s, q.p = hash[j].p, q.i = hash[j].i,
         q.offset = hash[j].offset, q.ph = hash[j].ph, q.err = hash[j].err,
         \/ hash[j].stage = "queued" /\ q.stage = "hashing"
         \/ q.stage = "posted"
  PROVE  FreshInv(id)'
<1>1. hash'[j] = q /\ \A k \in HashJob : k # j => hash'[k] = hash[k]
  BY DEF HashInv
<1>2. phase' = phase /\ arrived' = arrived
  BY DEF pieceVars
<1>3. ASSUME j \in HashesOf(id)'
      PROVE  phase[id] # "downloading" /\ (~q.err => HashSound(q, Now(PieceCells(id)), disk))
  <2>1. hash[j].stage \notin {"idle", "handled"}
    OBVIOUS
  <2>2. j \in HashesOf(id)
    BY <1>1, <1>3, <2>1 DEF HashesOf
  <2>3. phase[id] # "downloading" /\ (~hash[j].err => HashSound(hash[j], Now(PieceCells(id)), disk))
    BY <2>2 DEF FreshInv, HashFresh
  <2>4. ASSUME ~q.err PROVE HashSound(q, Now(PieceCells(id)), disk)
    <3> DEFINE held == Now(PieceCells(id))
    <3>1. HashSound(hash[j], held, disk)
      BY <2>3, <2>4
    <3> HIDE DEF held
    <3>2. HashSound(q, held, disk)
      BY <3>1, HashStageSound
    <3>3. QED
      BY <3>2 DEF held
  <2>5. QED
    BY <2>3, <2>4
<1>4. QED
  BY <1>1, <1>2, <1>3, FreshHash

\* The loop of a hash: without a bad file name it does not come upon an error.
LEMMA HashLoopKeeps ==
  ASSUME BadName = {}, HashInv, NEW j \in HashJob, HashBlock(j) \/ HashSlice(j)
  PROVE  /\ hash'[j].s = hash[j].s /\ hash'[j].p = hash[j].p /\ hash'[j].err = hash[j].err
         /\ \A k \in HashJob : k # j => hash'[k] = hash[k]
<1>1. hash[j].stage \in {"hashing", "reading"}
  BY DEF HashBlock, HashSlice
<1>2. hash[j] \in HashRec
  BY <1>1, HashIsRec
<1> DEFINE h == hash[j]
<1>3. \E q : /\ hash' = [hash EXCEPT ![j] = q]
             /\ q.s = h.s /\ q.p = h.p /\ q.err = h.err
  <2>1. CASE HashBlock(j)
    <3> DEFINE loc == SB!torrent_location(h.s, h.p, h.offset)
               len == BlockLength(h.p, h.offset)
               a == [h EXCEPT !.i = @ + 1, !.offset = @ + len,
                       !.ph = @ \o [n \in 1 .. len |-> <<h.offset + n - 1, write[SB!get(loc)].val>>]]
               b == [h EXCEPT !.stage = "reading", !.from = h.offset, !.end = h.offset + len]
    <3>1. hash' = [hash EXCEPT ![j] = IF loc \in Location /\ SB!hit(loc) THEN a ELSE b]
      BY <2>1 DEF HashBlock
    <3>2. a.s = h.s /\ a.p = h.p /\ a.err = h.err /\ b.s = h.s /\ b.p = h.p /\ b.err = h.err
      BY ZenonT(60), <1>2 DEF HashRec
    <3> HIDE DEF a, b, loc
    <3>3. QED
      BY <3>1, <3>2
  <2>2. CASE HashSlice(j)
    <3>1. PICK v : hash' = [hash EXCEPT ![j] =
             IF <<h.s, h.p, h.offset>> \in BadName
             THEN [h EXCEPT !.err = TRUE, !.stage = "hashing",
                     !.i = IF h.offset = h.from THEN blocks_in_piece(h.p) ELSE @ + 1]
             ELSE [h EXCEPT !.ph = Append(@, <<h.offset, v>>), !.offset = @ + 1,
                     !.stage = IF h.offset + 1 = h.end THEN "hashing" ELSE @,
                     !.i = IF h.offset + 1 = h.end THEN @ + 1 ELSE @]]
      BY <2>2 DEF HashSlice
    <3> DEFINE a == [h EXCEPT !.ph = Append(@, <<h.offset, v>>), !.offset = @ + 1,
                     !.stage = IF h.offset + 1 = h.end THEN "hashing" ELSE @,
                     !.i = IF h.offset + 1 = h.end THEN @ + 1 ELSE @]
    <3>2. hash' = [hash EXCEPT ![j] = a]
      BY <3>1
    <3>3. a.s = h.s /\ a.p = h.p /\ a.err = h.err
      BY ZenonT(60), <1>2 DEF HashRec
    <3> HIDE DEF a
    <3>4. QED
      BY <3>2, <3>3
  <2>3. QED
    BY <2>1, <2>2
<1>4. PICK q : /\ hash' = [hash EXCEPT ![j] = q]
               /\ q.s = h.s /\ q.p = h.p /\ q.err = h.err
  BY <1>3
<1>5. hash'[j] = q /\ \A k \in HashJob : k # j => hash'[k] = hash[k]
  BY <1>4 DEF HashInv
<1>6. QED
  BY <1>4, <1>5

\* The rounds of the loop of a hash job preserve FreshInv.
LEMMA FreshHashLoop ==
  ASSUME BadName = {}, ~TRANSFER_MAY_FAIL, WriteInv, HashInv, ReadInv', HashInv', NEW id \in PieceId, FreshInv(id),
         UNCHANGED pieceVars, NEW j \in HashJob, HashBlock(j) \/ HashSlice(j)
  PROVE  FreshInv(id)'
<1> DEFINE held == Now(PieceCells(id))
<1>1. UNCHANGED <<writeVars, readVars>>
  BY DEF HashBlock, HashSlice
<1>2. phase' = phase /\ arrived' = arrived
  BY DEF pieceVars
<1>3. /\ hash'[j].s = hash[j].s /\ hash'[j].p = hash[j].p /\ hash'[j].err = hash[j].err
      /\ \A k \in HashJob : k # j => hash'[k] = hash[k]
  BY HashLoopKeeps
<1>4. ASSUME j \in HashesOf(id)'
      PROVE  phase[id] # "downloading" /\ (~hash'[j].err => HashSound(hash'[j], held, disk))
  <2>1. j \in HashesOf(id) /\ <<hash[j].s, hash[j].p>> = id
    BY <1>3, <1>4 DEF HashesOf, HashBlock, HashSlice
  <2>2. phase[id] # "downloading" /\ (~hash[j].err => HashSound(hash[j], held, disk))
    BY <2>1 DEF FreshInv, HashFresh
  <2>3. \A c \in Units(hash[j].s, hash[j].p, 0, piece_size[hash[j].p]) \cap Good : <<c, Current(c)>> \in held
    <3>1. hash[j].s = id[1] /\ hash[j].p = id[2]
      BY <2>1
    <3>2. QED
      BY <3>1 DEF Now, PieceCells
  <2> HIDE DEF held
  <2>4. ASSUME ~hash'[j].err PROVE HashSound(hash'[j], held, disk)
    <3>1. HashSound(hash[j], held, disk)
      BY <1>3, <2>2, <2>4
    <3>2. QED
      BY <2>3, <3>1, HashBlockSound, HashSliceSound
  <2>5. QED
    BY <2>2, <2>4
<1>5. QED
  BY <1>1, <1>2, <1>3, <1>4, FreshHash

\* The steps of hash jobs preserve FreshInv.
LEMMA FreshHashes ==
  ASSUME BadName = {}, ~TRANSFER_MAY_FAIL, WriteInv, HashInv, ReadInv', HashInv', NEW id \in PieceId, FreshInv(id),
         StartHash \/ (\E j \in HashJob : HashStep(j)), UNCHANGED pieceVars
  PROVE  FreshInv(id)'
<1>1. UNCHANGED <<writeVars, readVars>>
  BY DEF StartHash, HashStep, HashBlock, HashSlice, FinishHash, FreeHash
<1>2. CASE StartHash
  <2>1. Head(hash_queue) \in HashJob /\ hash[Head(hash_queue)].stage = "queued"
    BY SMTT(60), <1>2 DEF StartHash, HashInv, Queued
  <2>2. PICK j \in HashJob : hash[j].stage = "queued" /\ hash' = [hash EXCEPT ![j].stage = "hashing"]
    BY <1>2, <2>1 DEF StartHash
  <2>3. hash[j] \in HashRec
    BY <2>2, HashIsRec
  <2> DEFINE q == [hash[j] EXCEPT !.stage = "hashing"]
  <2>4. /\ q.s = hash[j].s /\ q.p = hash[j].p /\ q.i = hash[j].i /\ q.offset = hash[j].offset
        /\ q.ph = hash[j].ph /\ q.err = hash[j].err /\ q.stage = "hashing"
    BY ZenonT(60), <2>3 DEF HashRec
  <2>5. hash' = [hash EXCEPT ![j] = q]
    BY <2>2
  <2> HIDE DEF q
  <2>6. hash[j].stage \in {"queued", "hashing", "posted"}
    BY <2>2
  <2>7. QED
    BY <1>1, <2>2, <2>4, <2>5, <2>6, FreshHashStage
<1>3. ASSUME NEW j \in HashJob, FinishHash(j) PROVE FreshInv(id)'
  <2>1. hash[j].stage = "hashing" /\ hash' = [hash EXCEPT ![j].stage = "posted"]
    BY <1>3 DEF FinishHash
  <2>2. hash[j] \in HashRec
    BY <2>1, HashIsRec
  <2> DEFINE q == [hash[j] EXCEPT !.stage = "posted"]
  <2>3. /\ q.s = hash[j].s /\ q.p = hash[j].p /\ q.i = hash[j].i /\ q.offset = hash[j].offset
        /\ q.ph = hash[j].ph /\ q.err = hash[j].err /\ q.stage = "posted"
    BY ZenonT(60), <2>2 DEF HashRec
  <2>4. hash' = [hash EXCEPT ![j] = q]
    BY <2>1
  <2> HIDE DEF q
  <2>5. hash[j].stage \in {"queued", "hashing", "posted"}
    BY <2>1
  <2>6. QED
    BY <1>1, <2>3, <2>4, <2>5, FreshHashStage
<1>4. ASSUME NEW j \in HashJob, FreeHash(j), hash[j].stage # "handled" PROVE FreshInv(id)'
  <2>1. hash[j].stage = "posted" /\ hash' = [hash EXCEPT ![j] = [hash[j] EXCEPT !.buf = FALSE]]
    BY <1>4 DEF FreeHash
  <2>2. hash[j] \in HashRec
    BY <2>1, HashIsRec
  <2> DEFINE q == [hash[j] EXCEPT !.buf = FALSE]
  <2>3. /\ q.s = hash[j].s /\ q.p = hash[j].p /\ q.i = hash[j].i /\ q.offset = hash[j].offset
        /\ q.ph = hash[j].ph /\ q.err = hash[j].err /\ q.stage = "posted"
    BY ZenonT(60), <2>1, <2>2 DEF HashRec
  <2>4. hash' = [hash EXCEPT ![j] = q]
    BY <2>1
  <2> HIDE DEF q
  <2>5. hash[j].stage \in {"queued", "hashing", "posted"}
    BY <2>1
  <2>6. QED
    BY <1>1, <2>3, <2>4, <2>5, FreshHashStage
<1>5. ASSUME NEW j \in HashJob, FreeHash(j), hash[j].stage = "handled" PROVE FreshInv(id)'
  <2>1. hash' = [hash EXCEPT ![j] = Idle] /\ Idle.stage = "idle"
    BY <1>5 DEF FreeHash, Idle
  <2>2. hash'[j] = Idle /\ \A k \in HashJob : k # j => hash'[k] = hash[k]
    BY <2>1 DEF HashInv
  <2>3. j \notin HashesOf(id)' /\ phase' = phase /\ arrived' = arrived
    BY <2>1, <2>2 DEF HashesOf, pieceVars
  <2>4. QED
    BY <1>1, <2>2, <2>3, FreshHash
<1>6. QED
  BY <1>2, <1>3, <1>4, <1>5, FreshHashLoop DEF HashStep

\* The hash is asked for when every block was passed to async_write.
LEMMA FreshVerify ==
  ASSUME PieceTypes, HashInv, ReadInv', HashInv', NEW id \in PieceId, FreshInv(id),
         NEW id2 \in PieceId, VerifyPiece(id2)
  PROVE  FreshInv(id)'
<1>1. PICK j \in HashJob : async_hash(j, id2[1], id2[2])
  BY DEF VerifyPiece
<1> DEFINE h == hash'[j]
           held == Now(PieceCells(id))
<1>2. PICK got \in BOOLEAN : hash' = [hash EXCEPT ![j] =
            [stage |-> IF got THEN "queued" ELSE "posted", s |-> id2[1], p |-> id2[2], i |-> 0,
             offset |-> 0, from |-> 0, end |-> 0, ph |-> <<>>, err |-> ~got, buf |-> got]]
  BY <1>1 DEF async_hash
<1>3. /\ h.stage = (IF got THEN "queued" ELSE "posted") /\ h.s = id2[1] /\ h.p = id2[2] /\ h.i = 0
      /\ h.offset = 0 /\ h.ph = <<>> /\ h.err = ~got
      /\ \A k \in HashJob : k # j => hash'[k] = hash[k]
  BY <1>2 DEF HashInv
<1>4. UNCHANGED <<writeVars, readVars>>
  BY <1>1 DEF async_hash
<1>5. /\ arrived' = arrived /\ phase'[id2] = "verifying" /\ (id # id2 => phase'[id] = phase[id])
  BY DEF VerifyPiece, PieceTypes
<1>6. phase'[id2] \notin {"downloading", "have"}
  BY <1>5
<1>7. ASSUME j \in HashesOf(id)'
      PROVE  phase'[id] # "downloading" /\ (~h.err => HashSound(h, held, disk))
  <2>1. <<h.s, h.p>> = id /\ id2 = <<id2[1], id2[2]>> /\ id[1] \in Storage /\ id[2] \in Piece
    BY <1>7, PieceForm DEF HashesOf
  <2>2. id = id2
    BY <1>3, <2>1
  <2>3. ASSUME ~h.err PROVE HashSound(h, held, disk)
    <3>1. h.stage = "queued"
      BY <1>3, <2>3
    <3> HIDE DEF h
    <3>2. HashSound(h, Now(Units(id[1], id[2], 0, piece_size[id[2]])), disk)
      BY <1>3, <2>1, <2>2, <2>3, <3>1, HashCallSound
    <3>3. QED
      BY <3>2 DEF PieceCells
  <2>4. QED
    BY <1>6, <2>2, <2>3
<1> HIDE DEF held
<1>8. /\ phase'[id] = "downloading" => phase[id] = "downloading"
      /\ phase'[id] = "have" => phase[id] = "have"
  BY <1>5, <1>6
<1>9. QED
  BY <1>3, <1>4, <1>5, <1>7, <1>8, FreshHash DEF held

\* A hash that passed says what a request made now would see.
LEMMA PassedIsGood ==
  ASSUME BadName = {}, NEW id \in PieceId, NEW h \in HashRec, h.s = id[1], h.p = id[2], ~h.err, Passes(h),
         HashSound(h, Now(PieceCells(id)), disk), NEW c \in PieceCells(id)
  PROVE  Current(c) = GoodVal
<1>1. id[1] \in Storage /\ id[2] \in Piece /\ piece_size[id[2]] \in Nat
  BY PieceForm
<1>2. PICK u \in 0 .. 0 + piece_size[id[2]] - 1 : c = <<id[1], id[2], u>>
  BY SMTT(60) DEF PieceCells, Units
<1> DEFINE n == u + 1
<1>3. n \in 1 .. piece_size[id[2]] /\ n - 1 = u
  BY SMTT(60), <1>1
<1>4. h.ph = [m \in 1 .. piece_size[id[2]] |-> <<m - 1, GoodVal>>]
  BY DEF Passes
<1>5. Fed(h.ph, id[1], id[2], h.offset, Now(PieceCells(id)))
  BY DEF HashSound
<1>6. n \in 1 .. h.offset
  <2>1. DOMAIN h.ph = 1 .. piece_size[id[2]]
    BY <1>4
  <2>2. DOMAIN h.ph = 1 .. Len(h.ph)
    <3>1. h.ph \in Seq(Nat \X Val)
      BY DEF HashRec
    <3>2. QED
      BY SMTT(60), <3>1
  <2>3. Len(h.ph) = h.offset
    BY <1>5 DEF Fed
  <2>4. QED
    BY <1>3, <2>1, <2>2, <2>3
<1> HIDE DEF n
<1>7. h.ph[n][2] = GoodVal
  <2>1. h.ph[n] = <<n - 1, GoodVal>>
    BY <1>3, <1>4
  <2>2. QED
    BY SMTT(60), <2>1
<1>8. <<id[1], id[2], n - 1>> \in Good
  BY <1>2, <1>3, CellOfPiece, AllGood
<1>9. <<<<id[1], id[2], n - 1>>, h.ph[n][2]>> \in Now(PieceCells(id))
  BY <1>5, <1>6, <1>8 DEF Fed
<1>10. <<c, GoodVal>> \in Now(PieceCells(id))
  BY <1>2, <1>3, <1>7, <1>9
<1>11. QED
  BY <1>10 DEF Now

\* A hash check that passes has seen what is current, so a piece that is verified then
\* has the value of its hash.
LEMMA FreshVerdict ==
  ASSUME BadName = {}, PieceTypes, HashInv, ReadInv', HashInv', NEW id \in PieceId, FreshInv(id),
         NEW j \in HashJob, PieceHashed(j)
  PROVE  FreshInv(id)'
<1> DEFINE id2 == <<hash[j].s, hash[j].p>>
           verdict == IF hash[j].err THEN "stopped" ELSE IF Passes(hash[j]) THEN "have" ELSE "clearing"
<1>1. /\ HandleHash(j) /\ phase' = [phase EXCEPT ![id2] = verdict] /\ arrived' = arrived
  BY DEF PieceHashed
<1>2. hash[j].stage = "posted" /\ UNCHANGED <<writeVars, readVars>>
  BY <1>1 DEF HandleHash
<1>3. hash[j] \in HashRec
  BY <1>2, HashIsRec
<1>4. \A k \in HashJob : k # j => hash'[k] = hash[k]
  BY <1>1 DEF HashInv, HandleHash
<1>5. j \notin HashesOf(id)'
  <2>1. hash'[j] = IF hash[j].buf THEN [hash[j] EXCEPT !.stage = "handled"] ELSE Idle
    BY <1>1 DEF HashInv, HandleHash
  <2>2. [hash[j] EXCEPT !.stage = "handled"].stage = "handled" /\ Idle.stage = "idle"
    BY ZenonT(60), <1>3 DEF HashRec, Idle
  <2>3. hash'[j].stage \in {"idle", "handled"}
    BY <2>1, <2>2
  <2>4. QED
    BY <2>3 DEF HashesOf
<1>6. phase'[id] = IF id = id2 THEN verdict ELSE phase[id]
  BY <1>1 DEF PieceTypes
<1>7. verdict # "downloading" /\ (verdict = "have" => ~hash[j].err /\ Passes(hash[j]))
  OBVIOUS
<1>8. ASSUME phase'[id] = "have", phase[id] # "have"
      PROVE  \A c \in PieceCells(id) : Current(c) = GoodVal
  <2>1. id = id2 /\ ~hash[j].err /\ Passes(hash[j])
    BY <1>6, <1>7, <1>8
  <2>2. hash[j].stage \notin {"idle", "handled"}
    BY <1>2
  <2>3. j \in HashesOf(id)
    BY <2>1, <2>2 DEF HashesOf
  <2>4. HashSound(hash[j], Now(PieceCells(id)), disk)
    BY <2>1, <2>3 DEF FreshInv, HashFresh
  <2>5. hash[j].s = id[1] /\ hash[j].p = id[2]
    BY <2>1
  <2>6. QED
    BY <1>3, <2>1, <2>4, <2>5, PassedIsGood
<1> HIDE DEF verdict, id2
<1>9. /\ phase'[id] = "downloading" => phase[id] = "downloading"
      /\ phase'[id] = "have" => phase[id] = "have" \/ \A c \in PieceCells(id) : Current(c) = GoodVal
  BY <1>6, <1>7, <1>8
<1>10. QED
  BY <1>1, <1>2, <1>4, <1>5, <1>9, FreshHash

-----------------------------------------------------------------------------
(* The life of a piece                                                     *)

\* libtorrent's use of the disk back end is a use that RawDiskIO allows.
LEMMA PieceStepIsStep == [PieceNext]_allVars => [Next]_vars
<1> SUFFICES ASSUME [PieceNext]_allVars
             PROVE  [Next]_vars
  OBVIOUS
<1>1. ASSUME NEW id \in PieceId, ReceiveBlock(id) PROVE Call
  <2>1. \E loc \in Blocks(id), j \in WriteJob, o \in Observer, v \in Val : async_write(j, o, loc, v)
    BY <1>1 DEF ReceiveBlock
  <2>2. QED
    BY <2>1 DEF Blocks, Call
<1>2. ASSUME NEW id \in PieceId, VerifyPiece(id) PROVE Call
  <2>1. \E j \in HashJob : async_hash(j, id[1], id[2])
    BY <1>2 DEF VerifyPiece
  <2>2. id[1] \in Storage /\ id[2] \in Piece
    BY PieceForm
  <2>3. QED
    BY <2>1, <2>2 DEF Call
<1>3. ASSUME NEW id \in PieceId, ServeRequest(id) PROVE Call
  BY <1>3, ServeIsRead DEF Call
<1>4. ASSUME NEW id \in PieceId, async_clear_piece(id) PROVE UNCHANGED vars
  BY <1>4 DEF async_clear_piece
<1>5. ASSUME NEW j \in HashJob, PieceHashed(j) PROVE HandleHash(j)
  BY <1>5 DEF PieceHashed
<1>6. ASSUME UNCHANGED allVars PROVE UNCHANGED vars
  BY <1>6 DEF allVars
<1>7. QED
  BY <1>1, <1>2, <1>3, <1>4, <1>5, <1>6 DEF PieceNext, Next

\* The bookkeeping of pieces keeps its types, and async_clear_piece is counted.
LEMMA PieceTypesKept ==
  ASSUME PieceTypes, [PieceNext]_allVars
  PROVE  /\ PieceTypes'
         /\ \A id \in PieceId : clears'[id] = 0 => clears[id] = 0 /\ ~async_clear_piece(id)
<1> DEFINE Phases == {"downloading", "verifying", "clearing", "have", "stopped"}
<1>0. /\ phase \in [PieceId -> Phases] /\ arrived \in [PieceId -> SUBSET Location] /\ clears \in [PieceId -> Nat]
  BY DEF PieceTypes
<1>1. ASSUME NEW id \in PieceId, ReceiveBlock(id)
      PROVE  PieceTypes' /\ clears' = clears
  <2>1. PICK loc \in Location : arrived' = [arrived EXCEPT ![id] = @ \cup {loc}]
    BY <1>1 DEF ReceiveBlock, Blocks
  <2>2. arrived[id] \cup {loc} \in SUBSET Location
    BY <1>0
  <2>3. arrived' \in [PieceId -> SUBSET Location]
    BY <1>0, <2>1, <2>2
  <2>4. QED
    BY <1>0, <1>1, <2>3 DEF ReceiveBlock, PieceTypes
<1>2. ASSUME NEW id \in PieceId, VerifyPiece(id)
      PROVE  PieceTypes' /\ clears' = clears
  <2>1. phase' \in [PieceId -> Phases]
    BY <1>0, <1>2 DEF VerifyPiece
  <2>2. QED
    BY <1>0, <1>2, <2>1 DEF VerifyPiece, PieceTypes
<1>3. ASSUME NEW id \in PieceId, async_clear_piece(id)
      PROVE  /\ PieceTypes'
             /\ \A k \in PieceId : clears'[k] = 0 => clears[k] = 0 /\ k # id
  <2>1. phase' \in [PieceId -> Phases] /\ arrived' \in [PieceId -> SUBSET Location]
    BY <1>0, <1>3 DEF async_clear_piece
  <2>2. clears[id] \in Nat /\ clears[id] + 1 \in Nat /\ clears[id] + 1 # 0
    BY <1>0
  <2>3. clears' = [clears EXCEPT ![id] = clears[id] + 1]
    BY <1>3 DEF async_clear_piece
  <2>4. clears' \in [PieceId -> Nat]
    BY <1>0, <2>2, <2>3
  <2>5. \A k \in PieceId : clears'[k] = 0 => clears[k] = 0 /\ k # id
    BY <1>0, <2>2, <2>3
  <2>6. QED
    BY <2>1, <2>4, <2>5 DEF PieceTypes
<1>4. ASSUME NEW j \in HashJob, PieceHashed(j)
      PROVE  PieceTypes' /\ clears' = clears
  <2> DEFINE verdict == IF hash[j].err THEN "stopped" ELSE IF Passes(hash[j]) THEN "have" ELSE "clearing"
  <2>1. verdict \in Phases
    OBVIOUS
  <2>2. phase' = [phase EXCEPT ![<<hash[j].s, hash[j].p>>] = verdict] /\ arrived' = arrived /\ clears' = clears
    BY <1>4 DEF PieceHashed
  <2> HIDE DEF verdict
  <2>3. phase' \in [PieceId -> Phases]
    BY <1>0, <2>1, <2>2
  <2>4. QED
    BY <1>0, <2>2, <2>3 DEF PieceTypes
<1>5. ASSUME UNCHANGED pieceVars
      PROVE  PieceTypes' /\ clears' = clears
  BY <1>0, <1>5 DEF PieceTypes, pieceVars
<1>6. ASSUME NEW id \in PieceId, clears' = clears
      PROVE  ~async_clear_piece(id)
  <2>1. clears[id] \in Nat /\ clears[id] + 1 # clears[id]
    BY <1>0
  <2>2. QED
    BY <1>0, <1>6, <2>1 DEF async_clear_piece
<1>7. CASE \E id \in PieceId : async_clear_piece(id)
  <2>1. PICK id2 \in PieceId : async_clear_piece(id2)
    BY <1>7
  <2>2. ASSUME NEW id \in PieceId, clears'[id] = 0 PROVE ~async_clear_piece(id)
    BY <1>3, <2>2
  <2>3. QED
    BY <1>3, <2>1, <2>2
<1>8. CASE ~\E id \in PieceId : async_clear_piece(id)
  <2>1. PieceTypes' /\ clears' = clears
    BY <1>1, <1>2, <1>4, <1>5, <1>8 DEF PieceNext, ServeRequest, allVars
  <2>2. QED
    BY <1>6, <2>1
<1>9. QED
  BY <1>7, <1>8

\* Every step but the clearing of the piece itself preserves FreshInv.
LEMMA FreshNext ==
  ASSUME BadName = {}, ~TRANSFER_MAY_FAIL, IInv, IInv', PieceTypes, [PieceNext]_allVars,
         NEW id \in PieceId, FreshInv(id), ~async_clear_piece(id)
  PROVE  FreshInv(id)'
<1>1. WriteInv /\ ReadInv /\ HashInv /\ SeenInv /\ ReadInv' /\ HashInv'
  BY DEF IInv
<1>2. ASSUME UNCHANGED <<writeVars, readVars, hashVars>>, phase'[id] = phase[id], arrived'[id] = arrived[id]
      PROVE  FreshInv(id)'
  <2>1. Calm(Blocks(id))
    BY <1>2, CalmStutter DEF FreshInv
  <2>2. QED
    BY <1>1, <1>2, <2>1, FreshAside
<1>3. ASSUME NEW id2 \in PieceId, ReceiveBlock(id2) PROVE FreshInv(id)'
  BY <1>1, <1>3, FreshReceive, FreshElsewhere
<1>4. ASSUME NEW id2 \in PieceId, async_clear_piece(id2) PROVE FreshInv(id)'
  <2>1. UNCHANGED <<writeVars, readVars, hashVars>>
    BY <1>4 DEF async_clear_piece, vars
  <2>2. phase'[id] = phase[id] /\ arrived'[id] = arrived[id]
    BY <1>4 DEF async_clear_piece, PieceTypes
  <2>3. QED
    BY <1>2, <2>1, <2>2
<1>5. ASSUME Background, UNCHANGED pieceVars PROVE FreshInv(id)'
  <2>1. CASE RunCallback \/ (\E o \in Observer : Disconnect(o))
    <3>1. UNCHANGED <<writeVars, readVars, hashVars>>
      BY <2>1 DEF RunCallback, Disconnect
    <3>2. QED
      BY <1>2, <1>5, <3>1 DEF pieceVars
  <2>2. QED
    BY <1>1, <1>5, <2>1, FreshWrites, FreshReads, FreshHashes DEF Background
<1>6. ASSUME UNCHANGED allVars PROVE FreshInv(id)'
  BY <1>2, <1>6 DEF allVars, vars, pieceVars
<1>7. QED
  BY <1>1, <1>3, <1>4, <1>5, <1>6, FreshVerify, FreshServe, FreshVerdict DEF PieceNext

-----------------------------------------------------------------------------
(* Counting: the jobs are finitely many                                    *)

FS == INSTANCE FiniteSetTheorems

\* The theorems on finite sets are about the operators that the model uses.
LEMMA FiniteSetsAreThose ==
  \A S : FS!Cardinality(S) = Cardinality(S) /\ FS!IsFiniteSet(S) = IsFiniteSet(S)
  BY DEF FS!Cardinality, Cardinality, FS!IsFiniteSet, IsFiniteSet

\* A finite set changes its cardinality by one when an element comes or goes.
LEMMA FiniteIsCounted ==
  ASSUME NEW S, IsFiniteSet(S)
  PROVE  Counted(S)
<1>1. Cardinality(S) \in Nat
  BY FiniteSetsAreThose, FS!FS_CardinalityType
<1>2. ASSUME NEW x, x \notin S
      PROVE  Cardinality(S \cup {x}) = Cardinality(S) + 1
  BY <1>2, FiniteSetsAreThose, FS!FS_AddElement
<1>3. ASSUME NEW x \in S
      PROVE  Cardinality(S) > 0 /\ Cardinality(S \ {x}) = Cardinality(S) - 1
  <2>1. IsFiniteSet(S \ {x}) /\ Cardinality(S \ {x}) = Cardinality(S) - 1
    BY FiniteSetsAreThose, FS!FS_RemoveElement
  <2>2. Cardinality(S \ {x}) \in Nat
    BY <2>1, FiniteSetsAreThose, FS!FS_CardinalityType
  <2>3. QED
    BY SMTT(60), SMTT(90), <1>1, <2>1, <2>2
<1>4. QED
  BY <1>1, <1>2, <1>3 DEF Counted

\* The facts about counting that the steps use hold, the sets of jobs being finite.
LEMMA Counting == CountingFacts
<1>1. ASSUME NEW jobs \in {WriteJob, ReadJob, HashJob}, NEW S \in SUBSET jobs
      PROVE  Counted(S)
  <2>1. IsFiniteSet(jobs)
    BY IOAssumption
  <2>2. IsFiniteSet(S)
    BY <2>1, FiniteSetsAreThose, FS!FS_Subset
  <2>3. QED
    BY <2>2, FiniteIsCounted
<1>2. QED
  BY <1>1 DEF CountingFacts

-----------------------------------------------------------------------------
(* The invariant holds always                                              *)

\* The initial state satisfies the inductive invariant.
LEMMA InitIInv == Init => IInv
<1> SUFFICES ASSUME Init
             PROVE  IInv
  OBVIOUS
<1> USE DEF Init
<1>1. WriteTypes
  BY SMTT(60), SMTT(90), IOAssumption DEF WriteTypes, SB!StoreBufferTypeOK, SB!StoreBufferInit
<1>2. /\ Queued(write_queue, write) /\ Queued(read_queue, read) /\ Queued(hash_queue, hash)
  BY SMTT(60) DEF Queued
<1>3. NoDanglingBuffer
  BY DEF NoDanglingBuffer, SB!StoreBufferInit, SB!hit
<1>4. WP!TypeOK
  <2>1. w_size \in 0 .. BUFFER_COUNT
    BY SMTT(60), SMTT(90), IOAssumption DEF WP!Init, WP!PoolInit
  <2>2. w_exceeded \in BOOLEAN /\ w_observers \in SUBSET Observer
    BY ZenonT(60) DEF WP!Init, WP!PoolInit
  <2>3. /\ peer \in [Observer -> {"sending", "blocked", "gone"}] /\ posted \in Seq(SUBSET Observer)
        /\ 0 \in 0 .. 0
    BY DEF WP!Init
  <2>4. QED
    BY <2>1, <2>2, <2>3 DEF WP!TypeOK, WP!PoolTypeOK
<1>5. WriteHolders = {} /\ ReadHolders = {} /\ HashHolders = {}
  BY DEF WriteHolders, ReadHolders, HashHolders
<1>6. w_size = Cardinality(WriteHolders) /\ r_size = Cardinality(ReadHolders) + Cardinality(HashHolders)
  BY SMTT(60), SMTT(90), <1>5, FiniteSetsAreThose, FS!FS_EmptySet DEF WP!Init, WP!PoolInit, RP!PoolInit
<1>7. ReadInv /\ HashInv
  BY <1>2 DEF ReadInv, HashInv
<1>8. RP!PoolTypeOK
  <2>1. r_size \in 0 .. BUFFER_COUNT
    BY SMTT(60), SMTT(90), IOAssumption DEF RP!PoolInit
  <2>2. r_exceeded \in BOOLEAN
    BY ZenonT(60) DEF RP!PoolInit
  <2>3. QED
    BY <2>1, <2>2 DEF RP!PoolTypeOK
<1>9. SeenInv
  BY DEF SeenInv
<1>10. QED
  BY <1>1, <1>2, <1>3, <1>4, <1>6, <1>7, <1>8, <1>9 DEF IInv, WriteInv, ReadPoolInv

\* The invariant holds always.
LEMMA Invariance == Spec => []IInv
<1>1. IInv /\ [Next]_vars => IInv'
  BY Counting, NextIInv
<1>2. QED
  BY <1>1, InitIInv, PTL DEF Spec

\* Every job record, queue, store buffer entry and pool count of raw_disk_io has
\* its type; in particular no pread of a read or a hash leaves its piece (the
\* disk is applied to cells only) and no pool counts beyond its limit.
THEOREM TypeCorrect == Spec => []TypeOK
<1>1. IInv => TypeOK
  BY DEF IInv, WriteInv, WriteTypes, ReadInv, HashInv, ReadPoolInv, SeenInv, TypeOK
<1>2. QED
  BY <1>1, Invariance, PTL

\* However many threads run and however writes to a block overlap, an entry of
\* store_buffer_ points to a buffer that is still held for that location, so the
\* memcpy of async_read and the hasher of async_hash never touch freed memory.
THEOREM StoreBufferIsSound == Spec => []NoDanglingBuffer
<1>1. IInv => NoDanglingBuffer
  BY DEF IInv, WriteInv
<1>2. QED
  BY <1>1, Invariance, PTL

\* Both pools count exactly the buffers that jobs hold: no path through
\* async_read, async_write and async_hash leaks a buffer or frees it twice.
THEOREM BuffersAreAccounted == Spec => []BufferAccounting
<1>1. IInv => BufferAccounting
  BY DEF IInv, WriteInv, ReadPoolInv, BufferAccounting
<1>2. QED
  BY <1>1, Invariance, PTL

\* PlacedInv is an invariant if writes of a block do not overlap and transfers do not fail.
LEMMA PlacedInvariance ==
  ASSUME ~Overlap, ~TRANSFER_MAY_FAIL
  PROVE  Spec => []PlacedInv
<1>1. Init => PlacedInv
  BY SMTT(60) DEF Init, PlacedInv, Outstanding, Idle
<1>2. ASSUME IInv, PlacedInv, [Next]_vars PROVE PlacedInv'
  <2>1. CASE WriteAction
    BY <1>2, <2>1, WritesPlaced DEF IInv
  <2>2. CASE UNCHANGED writeVars
    BY <1>2, <2>2 DEF PlacedInv, Outstanding, writeVars
  <2>3. CASE PeerAction \/ UNCHANGED vars
    BY ZenonT(60), <2>2, <2>3 DEF PeerAction, RunCallback, Disconnect, vars
  <2>4. QED
    BY <1>2, <2>1, <2>2, <2>3, NextIs, OthersAside
<1>3. QED
  BY <1>1, <1>2, Invariance, PTL DEF Spec

\* Where libtorrent does not write a block again before its handler ran and the
\* transfers succeed, a write that reports success has its whole block on the
\* partition, for any number of threads and any interleaving of their slices.
THEOREM SuccessIsOnDisk ==
  ASSUME ~Overlap, ~TRANSFER_MAY_FAIL
  PROVE  Spec => []PostedIsOnDisk
<1>1. PlacedInv => PostedIsOnDisk
  BY DEF PlacedInv, Placed, Outstanding, PostedIsOnDisk
<1>2. QED
  BY <1>1, PlacedInvariance, PTL

-----------------------------------------------------------------------------
(* Requests are answered as BlockStore allows                              *)

\* RegInv is an invariant under the same conditions.
LEMMA RegInvariance ==
  ASSUME ~Overlap, ~TRANSFER_MAY_FAIL
  PROVE  Spec => []RegInv
<1>1. Init => RegInv
  BY InitRegular
<1>2. ASSUME IInv, PlacedInv, RegInv, [Next]_vars PROVE RegInv'
  BY <1>2, StepImplements
<1>3. QED
  BY <1>1, <1>2, Invariance, PlacedInvariance, PTL DEF Spec

\* raw_disk_io implements the regular store of BlockStore, where libtorrent does
\* not write a block again before its handler ran and the transfers succeed:
\* whatever lookups in the store buffer, slices read from the partition and
\* erasures interleave, async_read and async_hash answer, for every unit they
\* were asked for and in its place, with a value it has held since the call, and
\* fail only over a file name that cannot be parsed.
THEOREM RequestsAreRegular ==
  ASSUME ~Overlap, ~TRANSFER_MAY_FAIL
  PROVE  Spec => ReadsAreRegular
<1>1. Init => BS!Init
  BY InitRegular
<1>2. ASSUME IInv, PlacedInv, RegInv, [Next]_vars PROVE [BS!Next]_(BS!vars)
  BY <1>2, StepImplements
<1>3. QED
  BY <1>1, <1>2, Invariance, PlacedInvariance, RegInvariance, PTL DEF Spec, ReadsAreRegular, BS!Spec

-----------------------------------------------------------------------------
(* Verified pieces are served                                              *)

\* At the start no piece is there and no job runs.
LEMMA FreshInit == PieceInit => IInv /\ PieceInv
<1> SUFFICES ASSUME PieceInit
             PROVE  IInv /\ PieceInv
  OBVIOUS
<1>1. Init /\ IInv
  BY InitIInv DEF PieceInit
<1>2. PieceTypes
  <2>1. 0 \in Nat /\ {} \in SUBSET Location
    OBVIOUS
  <2>2. QED
    BY <2>1 DEF PieceInit, PieceTypes
<1>3. /\ \A j \in WriteJob : write[j] = Idle
      /\ \A j \in ReadJob : read[j] = Idle
      /\ \A j \in HashJob : hash[j] = Idle
      /\ Idle.stage = "idle"
  BY <1>1 DEF Init, Idle
<1>4. ASSUME NEW id \in PieceId PROVE FreshInv(id)
  <2>1. \A j \in WriteJob : ~UnderWay(j)
    BY <1>3 DEF UnderWay
  <2>2. ReadsOf(id) = {} /\ HashesOf(id) = {}
    BY <1>3 DEF ReadsOf, HashesOf
  <2>3. phase[id] # "have"
    BY DEF PieceInit
  <2>4. QED
    BY <2>1, <2>2, <2>3 DEF FreshInv, Settled
<1>5. QED
  BY <1>1, <1>2, <1>4 DEF PieceInv

\* IInv and PieceInv are invariants of the life of pieces, if names can be parsed and
\* transfers do not fail.
LEMMA PieceInvariance ==
  ASSUME BadName = {}, ~TRANSFER_MAY_FAIL
  PROVE  PieceSpec => [](IInv /\ PieceInv)
<1>1. IInv /\ PieceInv /\ [PieceNext]_allVars => (IInv /\ PieceInv)'
  <2> SUFFICES ASSUME IInv, PieceInv, [PieceNext]_allVars
               PROVE  (IInv /\ PieceInv)'
    OBVIOUS
  <2>1. IInv'
    BY PieceStepIsStep, Counting, NextIInv
  <2>2. PieceTypes' /\ \A id \in PieceId : clears'[id] = 0 => clears[id] = 0 /\ ~async_clear_piece(id)
    BY PieceTypesKept DEF PieceInv
  <2>3. ASSUME NEW id \in PieceId, clears'[id] = 0 PROVE FreshInv(id)'
    BY <2>1, <2>2, <2>3, FreshNext DEF PieceInv
  <2>4. QED
    BY <2>1, <2>2, <2>3 DEF PieceInv
<1>2. QED
  BY <1>1, FreshInit, PTL DEF PieceSpec

\* A piece that passed its first hash check is, for good, what the partition holds
\* or will hold and what every peer is sent: whatever the threads are at when
\* async_hash and async_read look into store_buffer_ or read the partition,
\* whatever the blocks that arrive hold, however often other pieces fail and are
\* cleared, and whether or not libtorrent writes blocks of other pieces again
\* while they are under way (Overlap).  File names are hexadecimal numbers and
\* transfers complete.
THEOREM VerifiedHolds ==
  ASSUME BadName = {}, ~TRANSFER_MAY_FAIL
  PROVE  PieceSpec => []VerifiedIsServed
<1>1. ASSUME IInv, PieceInv PROVE VerifiedIsServed
  <2> SUFFICES ASSUME NEW id \in PieceId, phase[id] = "have", clears[id] = 0
               PROVE  /\ \A c \in Units(id[1], id[2], 0, piece_size[id[2]]) : Current(c) = GoodVal
                      /\ \A j \in ReadJob :
                           read[j].stage \in {"posted", "held"} /\ <<read[j].s, read[j].p>> = id =>
                             \A d \in read[j].data : d[3] = GoodVal
    BY DEF VerifiedIsServed
  <2>1. FreshInv(id)
    BY <1>1 DEF PieceInv
  <2>2. \A c \in PieceCells(id) : Current(c) = GoodVal
    BY <2>1 DEF FreshInv
  <2>3. ASSUME NEW j \in ReadJob, read[j].stage \in {"posted", "held"}, <<read[j].s, read[j].p>> = id,
               NEW d \in read[j].data
        PROVE  d[3] = GoodVal
    <3>1. read[j].stage # "idle"
      BY <2>3
    <3>2. read[j] \in ReadRec /\ read[j] # Idle
      BY <1>1, <3>1, ReadIsRec DEF IInv
    <3>3. ReadSound(read[j], Now(PieceCells(id)), disk)
      BY <2>1, <2>3, <3>2 DEF FreshInv, ReadFresh, ReadsOf
    <3>4. /\ d[1] \in 0 .. read[j].length - 1 /\ d[2] = read[j].start + d[1]
          /\ read[j].start + read[j].length <= piece_size[read[j].p]
          /\ <<read[j].s, read[j].p, d[2]>> \in Good =>
               <<<<read[j].s, read[j].p, d[2]>>, d[3]>> \in Now(PieceCells(id))
      BY <3>3 DEF ReadSound
    <3>5. read[j].s = id[1] /\ read[j].p = id[2] /\ read[j].start \in Nat /\ read[j].length \in Nat
      BY <2>3, <3>2 DEF ReadRec
    <3>6. d[2] \in Nat /\ d[2] < piece_size[id[2]]
      <4>1. piece_size[id[2]] \in Nat
        BY PieceForm
      <4>2. QED
        BY SMTT(60), SMTT(90), <3>4, <3>5, <4>1
    <3>7. <<id[1], id[2], d[2]>> \in Good
      BY <3>6, PieceForm, CellForm, AllGood
    <3>8. PICK c \in PieceCells(id) : <<<<id[1], id[2], d[2]>>, d[3]>> = <<c, Current(c)>>
      BY <3>4, <3>5, <3>7 DEF Now
    <3>9. QED
      BY <2>2, <3>8
  <2>4. QED
    BY <2>2, <2>3 DEF PieceCells
<1>2. QED
  BY <1>1, PieceInvariance, PTL
==============================================================================
