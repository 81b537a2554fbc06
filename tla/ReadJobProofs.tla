---------------------------- MODULE ReadJobProofs ----------------------------
(***************************************************************************)
(* The steps of a read preserve ReadInv and ReadPoolInv, and RegInv: what  *)
(* async_read copies from the store buffer and what its job reads from the *)
(* partition are values that the cells have held since the call.  In       *)
(* BlockStore they ask, answer or forget.                                  *)
(***************************************************************************)
EXTENDS WriteJobProofs

\* The provers a step is tried with, in this order, unless it names its own.  (SMT is
\* named twice since its translation of a step has a fixed time, whatever the limit.)
USE Zenon, SMTT(60), SMTT(90)

-----------------------------------------------------------------------------
(* The steps of reads keep the invariant                                   *)

\* A call of async_read and the steps of its job and of its handler preserve the
\* inductive invariant.
LEMMA ReadStepIInv ==
  CountingFacts /\ IInv /\ ReadAction => IInv'
<1>ReadQueueKept.
  ASSUME ReadInv, read_queue' = read_queue,
         \A k \in ReadJob : read[k].stage = "queued" => read'[k] = read[k]
  PROVE  Queued(read_queue', read')
  <2> USE <1>ReadQueueKept
  <2>1. read_queue \in Seq(ReadJob) /\ Queued(read_queue, read)
    BY DEF ReadInv
  <2>2. Queued(read_queue, read')
    BY SMTT(60), <2>1, QueueKept
  <2>3. QED
    BY <2>2
<1>ReadCallStep.
  ASSUME WriteInv, ReadInv, NEW j \in ReadJob, NEW c \in Cell, NEW length \in 1 .. DEFAULT_BLOCK_SIZE,
         c[3] + length <= piece_size[c[2]], async_read(j, c[1], c[2], c[3], length)
  PROVE  ReadInv'
  <2> USE <1>ReadCallStep
  <2> DEFINE todo == Lookup(c[1], c[2], c[3], length)
             rec == [stage |-> IF todo.length = 0 THEN "held" ELSE "queued", s |-> c[1], p |-> c[2],
                     start |-> c[3], length |-> length, offset |-> todo.offset,
                     end |-> todo.offset + todo.length, slot |-> todo.slot, data |-> todo.data,
                     err |-> FALSE]
  <2>1. /\ c[1] \in Storage /\ c[2] \in Piece /\ c[3] \in Nat /\ length \in Nat
    BY SMTT(60), CellParts, IOAssumption
  <2>2. /\ todo.offset \in Nat /\ todo.length \in Nat /\ todo.slot \in Int
        /\ todo.data \in SUBSET (Int \X Nat \X Val)
        /\ todo.offset + todo.length <= piece_size[c[2]]
    BY <2>1, LookupTypes
  <2>3. CASE UNCHANGED readVars
    BY <2>3, ReadStutter
  <2>4. CASE /\ read' = [read EXCEPT ![j] = rec]
             /\ read_queue' = IF todo.length = 0 THEN read_queue ELSE Append(read_queue, j)
    <3> HIDE DEF todo
    <3>1. rec \in ReadRec /\ ReadInRange(rec) /\ rec # Idle
      BY SMTT(60), <2>1, <2>2 DEF ReadRec, ReadInRange, Idle
    <3>2. read[j] = Idle /\ Idle.stage = "idle"
      BY DEF async_read, Idle
    <3>3. /\ read' \in [ReadJob -> ReadRec \cup {Idle}] /\ read'[j] = rec
          /\ \A k \in ReadJob : k # j => read'[k] = read[k]
      BY <2>4, <3>1 DEF ReadInv
    <3>4. read_queue' \in Seq(ReadJob) /\ Queued(read_queue', read')
      <4>1. read_queue \in Seq(ReadJob) /\ Queued(read_queue, read)
        BY DEF ReadInv
      <4>2. CASE todo.length = 0
        <5>1. \A k \in ReadJob : read[k].stage = "queued" => read'[k] = read[k]
          BY <3>2, <3>3
        <5>2. read_queue' = read_queue
          BY <2>4, <4>2
        <5>3. QED
          BY <4>1, <5>1, <5>2, <1>ReadQueueKept
      <4>3. CASE todo.length # 0
        <5>1. read_queue' = Append(read_queue, j) /\ read'[j].stage = "queued"
          BY <2>4, <3>3, <4>3
        <5> HIDE DEF rec
        <5>2. QED
          BY <3>2, <3>3, <4>1, <5>1, QueueAppend
      <4>4. QED
        BY <4>2, <4>3
    <3> HIDE DEF rec
    <3>5. QED
      BY <3>1, <3>3, <3>4 DEF ReadInv
  <2>5. QED
    BY ZenonT(60), <2>3, <2>4 DEF async_read
<1>StartReadStep. ReadInv /\ StartRead => ReadInv'
  <2> SUFFICES ASSUME ReadInv, StartRead
               PROVE  ReadInv'
    OBVIOUS
  <2> DEFINE j == Head(read_queue)
  <2>1. /\ read_queue # <<>> /\ read_queue' = Tail(read_queue)
        /\ read' = [read EXCEPT ![j].stage = "reading"]
    BY DEF StartRead
  <2>2. \A k \in ReadJob : k # j => read'[k] = read[k]
    BY <2>1 DEF ReadInv
  <2>3. /\ j \in ReadJob /\ read[j].stage = "queued"
        /\ read_queue' \in Seq(ReadJob) /\ Queued(read_queue', read')
    BY ZenonT(60), <2>1, <2>2, QueueTail DEF ReadInv
  <2> HIDE DEF j
  <2>4. read[j] \in ReadRec /\ ReadInRange(read[j])
    BY <2>3, ReadIsRec
  <2>5. read'[j] \in ReadRec /\ ReadInRange(read'[j])
    BY ZenonT(60), <2>1, <2>3, <2>4 DEF ReadRec, ReadInRange, ReadInv
  <2>6. read' \in [ReadJob -> ReadRec \cup {Idle}]
    BY ZenonT(60), <2>1, <2>5 DEF ReadInv
  <2>7. QED
    BY <2>2, <2>3, <2>5, <2>6 DEF ReadInv
\* Steps of a read that is in a thread's or in libtorrent's hands.
<1>ReadingStep.
  ASSUME ReadInv, NEW j \in ReadJob, read[j].stage # "queued", UNCHANGED read_queue,
         read' = [read EXCEPT ![j] = read'[j]],
         read'[j] = Idle \/ (read'[j] \in ReadRec /\ ReadInRange(read'[j]))
  PROVE  ReadInv'
  <2> USE <1>ReadingStep
  <2>1. \A k \in ReadJob : k # j => read'[k] = read[k]
    BY DEF ReadInv
  <2>2. Queued(read_queue', read')
    BY <2>1, <1>ReadQueueKept
  <2>3. read' \in [ReadJob -> ReadRec \cup {Idle}]
    BY DEF ReadInv
  <2>4. QED
    BY <2>1, <2>2, <2>3 DEF ReadInv
<1>ReadSliceStep.
  ASSUME WriteInv, ReadInv, NEW j \in ReadJob, ReadSlice(j)
  PROVE  ReadInv'
  <2> USE <1>ReadSliceStep
  <2> DEFINE r == read[j]
             c == <<r.s, r.p, r.offset>>
  <2>1. r \in ReadRec /\ r # Idle /\ ReadInRange(r) /\ r.stage = "reading" /\ r.offset < r.end
    BY ReadIsRec DEF ReadSlice
  <2>2. PICK v \in Loaded(c) :
        /\ UNCHANGED read_queue
        /\ read' = [read EXCEPT ![j] =
             IF c \in BadName THEN [r EXCEPT !.err = TRUE]
             ELSE [r EXCEPT !.offset = @ + 1, !.slot = @ + 1,
                            !.data = @ \cup {<<r.slot, r.offset, v>>}]]
    BY DEF ReadSlice
  <2>3. v \in Val
    <3>1. r.s \in Storage /\ r.p \in Piece /\ r.offset \in Nat /\ r.end \in Nat
      BY <2>1 DEF ReadRec
    <3>2. piece_size[r.p] \in Nat
      BY <3>1, IOAssumption
    <3>3. r.offset < piece_size[r.p]
      BY SMTT(60), <2>1, <3>1, <3>2 DEF ReadInRange
    <3>4. c \in Cell
      BY <3>1, <3>3, CellForm
    <3>5. QED
      BY <3>4 DEF WriteInv, WriteTypes, Loaded
  <2>4. read'[j] \in ReadRec /\ ReadInRange(read'[j])
    <3>1. CASE c \in BadName
      <4>1. read'[j] = [r EXCEPT !.err = TRUE]
        BY <2>2, <3>1 DEF ReadInv
      <4> HIDE DEF r
      <4>2. QED
        BY ZenonT(60), <2>1, <4>1 DEF ReadRec, ReadInRange
    <3>2. CASE c \notin BadName
      <4>1. read'[j] = [r EXCEPT !.offset = @ + 1, !.slot = @ + 1,
                                 !.data = @ \cup {<<r.slot, r.offset, v>>}]
        BY <2>2, <3>2 DEF ReadInv
      <4> HIDE DEF r
      <4>2. r.slot \in Int /\ r.offset \in Nat /\ r.data \in SUBSET (Int \X Nat \X Val)
        BY <2>1 DEF ReadRec
      <4>3. r.data \cup {<<r.slot, r.offset, v>>} \in SUBSET (Int \X Nat \X Val)
        BY SMTT(60), <2>3, <4>2
      <4> DEFINE o == r.offset + 1
                 sl == r.slot + 1
                 d == r.data \cup {<<r.slot, r.offset, v>>}
      <4>4. o \in Nat /\ sl \in Int /\ d \in SUBSET (Int \X Nat \X Val)
        BY SMTT(60), <4>2, <4>3
      <4>5. read'[j] = [r EXCEPT !.offset = o, !.slot = sl, !.data = d]
        BY <4>1
      <4> HIDE DEF o, sl, d
      <4>6. /\ read'[j] \in ReadRec
            /\ read'[j].end = r.end /\ read'[j].p = r.p
        BY ZenonT(60), <2>1, <4>4, <4>5 DEF ReadRec
      <4>7. QED
        BY <2>1, <4>6 DEF ReadInRange
    <3>3. QED
      BY <3>1, <3>2
  <2>5. read' = [read EXCEPT ![j] = read'[j]]
    BY <2>2 DEF ReadInv
  <2>6. QED
    BY ZenonT(60), <2>1, <2>2, <2>4, <2>5, <1>ReadingStep
<1>ReadEndsStep.
  ASSUME ReadInv, NEW j \in ReadJob, FinishRead(j) \/ HandleRead(j) \/ FreeRead(j)
  PROVE  ReadInv'
  <2> USE <1>ReadEndsStep
  <2>1. CASE FinishRead(j) \/ HandleRead(j)
    <3>1. PICK st \in {"posted", "held"} : read' = [read EXCEPT ![j].stage = st]
      BY <2>1 DEF FinishRead, HandleRead
    <3>2. read[j].stage \in {"reading", "posted"} /\ UNCHANGED read_queue
      BY <2>1 DEF FinishRead, HandleRead
    <3>3. read[j] \in ReadRec /\ ReadInRange(read[j])
      BY <3>2, ReadIsRec
    <3>4. read'[j] \in ReadRec /\ ReadInRange(read'[j]) /\ read' = [read EXCEPT ![j] = read'[j]]
      BY ZenonT(60), <3>1, <3>3 DEF ReadRec, ReadInRange, ReadInv
    <3>5. QED
      BY <3>2, <3>4, <1>ReadingStep
  <2>2. CASE FreeRead(j)
    <3>1. read[j].stage = "held" /\ UNCHANGED read_queue /\ read' = [read EXCEPT ![j] = Idle]
      BY <2>2 DEF FreeRead
    <3>2. read'[j] = Idle /\ read' = [read EXCEPT ![j] = read'[j]]
      BY <3>1 DEF ReadInv
    <3>3. QED
      BY ZenonT(60), <3>1, <3>2, <1>ReadingStep
  <2>3. QED
    BY <2>1, <2>2
\* A job that goes on holding its buffer.
<1>ReadHoldersKept.
  ASSUME NEW j \in ReadJob, read[j] # Idle, read'[j].stage # "idle",
         \A k \in ReadJob : k # j => read'[k] = read[k]
  PROVE  ReadHolders' = ReadHolders
  <2> USE <1>ReadHoldersKept
  <2>1. read'[j] # Idle
    BY DEF Idle
  <2>2. QED
    BY <2>1 DEF ReadHolders
<1>ReadCallPool.
  ASSUME CountingFacts, ReadInv, ReadPoolInv, NEW j \in ReadJob, NEW s, NEW p, NEW start, NEW length,
         async_read(j, s, p, start, length)
  PROVE  ReadPoolInv'
  <2> USE <1>ReadCallPool
  <2>1. HashHolders' = HashHolders
    BY DEF async_read, hashVars, HashHolders
  <2>2. CASE RP!allocate_buffer(FALSE) /\ UNCHANGED readVars
    <3>1. RP!PoolTypeOK' /\ r_size' = r_size
      BY ZenonT(60), <2>2, AllocateTypes DEF ReadPoolInv
    <3>2. ReadHolders' = ReadHolders
      BY <2>2 DEF readVars, ReadHolders
    <3>3. QED
      BY <2>1, <3>1, <3>2 DEF ReadPoolInv
  <2>3. CASE RP!allocate_buffer(TRUE) /\ read' = [read EXCEPT ![j] = read'[j]]
             /\ read'[j].stage \in {"held", "queued"}
    <3>1. RP!PoolTypeOK' /\ r_size' = r_size + 1
      BY ZenonT(60), <2>3, AllocateTypes DEF ReadPoolInv
    <3>2. read[j] = Idle /\ read'[j] # Idle
      <4>1. read[j] = Idle
        BY DEF async_read
      <4>2. QED
        BY SMTT(60), <2>3, <4>1 DEF Idle
    <3>3. ReadHolders' = ReadHolders \cup {j} /\ j \notin ReadHolders
      BY <2>3, <3>2 DEF ReadHolders, ReadInv
    <3>4. Cardinality(ReadHolders') = Cardinality(ReadHolders) + 1
      BY <3>3, HoldersCounted DEF Counted
    <3>5. QED
      BY SMTT(60), SMTT(90), <2>1, <3>1, <3>4, HoldersCounted DEF ReadPoolInv, Counted
  <2>4. QED
    <3> DEFINE todo == Lookup(s, p, start, length)
               rec == [stage |-> IF todo.length = 0 THEN "held" ELSE "queued", s |-> s, p |-> p,
                       start |-> start, length |-> length, offset |-> todo.offset,
                       end |-> todo.offset + todo.length, slot |-> todo.slot, data |-> todo.data,
                       err |-> FALSE]
    <3>1. \/ RP!allocate_buffer(FALSE) /\ UNCHANGED readVars
          \/ RP!allocate_buffer(TRUE) /\ read' = [read EXCEPT ![j] = rec]
      BY ZenonT(60) DEF async_read
    <3> HIDE DEF todo
    <3>2. rec.stage \in {"held", "queued"}
      OBVIOUS
    <3> HIDE DEF rec
    <3>3. CASE RP!allocate_buffer(TRUE) /\ read' = [read EXCEPT ![j] = rec]
      <4>1. read'[j] = rec /\ read' = [read EXCEPT ![j] = read'[j]]
        BY <3>3 DEF ReadInv
      <4>2. QED
        BY ZenonT(60), <2>3, <3>2, <3>3, <4>1
    <3>4. QED
      BY ZenonT(60), <2>2, <3>1, <3>3
<1>ReadStepPool.
  ASSUME ReadInv, ReadPoolInv,
         StartRead \/ \E j \in ReadJob : ReadSlice(j) \/ FinishRead(j) \/ HandleRead(j)
  PROVE  ReadPoolInv'
  <2> USE <1>ReadStepPool
  <2>1. UNCHANGED readPoolVars /\ HashHolders' = HashHolders
    BY ZenonT(60) DEF StartRead, ReadSlice, FinishRead, HandleRead, hashVars, HashHolders
  <2>2. ReadHolders' = ReadHolders
    <3>1. CASE StartRead
      <4> DEFINE j == Head(read_queue)
      <4>1. read_queue # <<>> /\ read' = [read EXCEPT ![j].stage = "reading"]
        BY <3>1 DEF StartRead
      <4>2. j \in ReadJob /\ read[j].stage = "queued"
        <5>1. 1 \in DOMAIN read_queue /\ j = read_queue[1] /\ j \in ReadJob
          BY SMTT(60), <4>1 DEF ReadInv
        <5>2. QED
          BY <5>1 DEF ReadInv, Queued
      <4> HIDE DEF j
      <4>3. read[j] \in ReadRec /\ read[j] # Idle
        BY <4>2, ReadIsRec
      <4>4. read'[j].stage = "reading" /\ \A k \in ReadJob : k # j => read'[k] = read[k]
        BY <4>1, <4>2, <4>3 DEF ReadRec, ReadInv
      <4>5. QED
        BY <4>2, <4>3, <4>4, <1>ReadHoldersKept
    <3>2. CASE \E j \in ReadJob : ReadSlice(j) \/ FinishRead(j) \/ HandleRead(j)
      <4>1. PICK j \in ReadJob : ReadSlice(j) \/ FinishRead(j) \/ HandleRead(j)
        BY <3>2
      <4>2. read[j] \in ReadRec /\ read[j] # Idle
        BY ZenonT(60), <4>1, ReadIsRec DEF ReadSlice, FinishRead, HandleRead
      <4>3. \A k \in ReadJob : k # j => read'[k] = read[k]
        BY ZenonT(60), <4>1 DEF ReadSlice, FinishRead, HandleRead, ReadInv
      <4>4. read'[j].stage # "idle"
        <5>1. CASE ReadSlice(j)
          <6> DEFINE r == read[j]
          <6>1. PICK v : read'[j] =
                  IF <<r.s, r.p, r.offset>> \in BadName THEN [r EXCEPT !.err = TRUE]
                  ELSE [r EXCEPT !.offset = @ + 1, !.slot = @ + 1,
                                 !.data = @ \cup {<<r.slot, r.offset, v>>}]
            BY <5>1 DEF ReadSlice, ReadInv
          <6>2. r.stage = "reading"
            BY <5>1 DEF ReadSlice
          <6> HIDE DEF r
          <6>3. QED
            BY ZenonT(60), <4>2, <6>1, <6>2 DEF ReadRec, r
        <5>2. CASE FinishRead(j) \/ HandleRead(j)
          BY SMTT(60), <4>2, <5>2 DEF FinishRead, HandleRead, ReadRec, ReadInv
        <5>3. QED
          BY <4>1, <5>1, <5>2
      <4>5. QED
        BY <4>2, <4>3, <4>4, <1>ReadHoldersKept
    <3>3. QED
      BY <3>1, <3>2
  <2>3. QED
    BY <2>1, <2>2, ReadPoolKept
<1>FreeReadPool.
  ASSUME CountingFacts, ReadInv, ReadPoolInv, NEW j \in ReadJob, FreeRead(j)
  PROVE  ReadPoolInv'
  <2> USE <1>FreeReadPool
  <2>1. HashHolders' = HashHolders
    BY DEF FreeRead, hashVars, HashHolders
  <2>2. ReadHolders' = ReadHolders \ {j} /\ j \in ReadHolders
    BY ReadIsRec DEF FreeRead, ReadHolders, ReadInv
  <2>3. /\ Cardinality(ReadHolders') = Cardinality(ReadHolders) - 1
        /\ Cardinality(ReadHolders) > 0
    BY <2>2, HoldersCounted DEF Counted
  <2>4. r_size > 0
    BY SMTT(60), <2>3, HoldersCounted DEF ReadPoolInv, Counted
  <2>5. RP!PoolTypeOK' /\ r_size' = r_size - 1
    BY <2>4, FreeTypes DEF FreeRead, ReadPoolInv
  <2>6. QED
    BY SMTT(60), SMTT(90), <2>1, <2>3, <2>5, HoldersCounted DEF ReadPoolInv, Counted
<1>ReadCallSeen.
  ASSUME WriteInv, SeenInv, NEW j \in ReadJob, NEW c \in Cell, NEW length \in 1 .. DEFAULT_BLOCK_SIZE,
         c[3] + length <= piece_size[c[2]], async_read(j, c[1], c[2], c[3], length)
  PROVE  SeenInv'
  <2> USE <1>ReadCallSeen
  <2>1. length \in Nat /\ c[1] \in Storage /\ c[2] \in Piece /\ c[3] \in Nat
    BY SMTT(60), CellParts, IOAssumption
  <2>2. Now(Units(c[1], c[2], c[3], length)) \in SUBSET (Cell \X Val)
    BY <2>1, UnitsAreCells, NowTypes
  <2>3. \/ UNCHANGED seen
        \/ seen' = [seen EXCEPT ![j] = Now(Units(c[1], c[2], c[3], length))]
    BY ZenonT(60) DEF async_read
  <2>4. QED
    BY <2>2, <2>3 DEF SeenInv
<1> SUFFICES ASSUME CountingFacts, IInv, ReadAction
             PROVE  IInv'
  OBVIOUS
<1> USE DEF IInv, ReadAction
<1>1. UNCHANGED <<poolVars, writeVars, hashVars>>
  BY ZenonT(60) DEF async_read, StartRead, ReadStep, ReadSlice, FinishRead, HandleRead, FreeRead
<1>2. WriteInv' /\ HashInv'
  BY <1>1, WriteStutter, HashStutter
<1>3. ReadInv'
  BY <1>ReadCallStep, <1>StartReadStep, <1>ReadSliceStep, <1>ReadEndsStep DEF ReadStep
<1>4. ReadPoolInv'
  BY <1>ReadCallPool, <1>ReadStepPool, <1>FreeReadPool DEF ReadStep
<1>5. SeenInv'
  <2>1. CASE \E j \in ReadJob, c \in Cell, length \in 1 .. DEFAULT_BLOCK_SIZE :
               c[3] + length <= piece_size[c[2]] /\ async_read(j, c[1], c[2], c[3], length)
    BY <2>1, <1>ReadCallSeen
  <2>2. CASE \E j \in ReadJob : FreeRead(j)
    BY <2>2, ForgetSeen
  <2>3. CASE UNCHANGED seen
    BY <2>3 DEF SeenInv
  <2>4. QED
    BY ZenonT(60), <2>1, <2>2, <2>3 DEF StartRead, ReadStep, ReadSlice, FinishRead, HandleRead
<1>6. QED
  BY <1>2, <1>3, <1>4, <1>5

-----------------------------------------------------------------------------
(* What is read                                                            *)

\* A job that passes on its way without reading.
LEMMA ReadStageSound ==
  ASSUME NEW r \in ReadRec, NEW held, NEW d, ReadSound(r, held, d), NEW st,
         st = "reading" => r.stage = "queued", st # "queued"
  PROVE  ReadSound([r EXCEPT !.stage = st], held, d)
<1> DEFINE q == [r EXCEPT !.stage = st]
<1>1. /\ q.s = r.s /\ q.p = r.p /\ q.start = r.start /\ q.length = r.length /\ q.offset = r.offset
      /\ q.end = r.end /\ q.slot = r.slot /\ q.data = r.data /\ q.err = r.err /\ q.stage = st
  BY ZenonT(60) DEF ReadRec
<1> HIDE DEF q
<1>2. ReadSound(q, held, d)
  BY <1>1 DEF ReadSound
<1>3. QED
  BY <1>2 DEF q

\* The unit that a slice reads goes where it belongs, with a value its cell has held.
LEMMA ReadUnitSound ==
  ASSUME NEW r \in ReadRec, NEW held, NEW d, ReadSound(r, held, d), r.stage = "reading", r.offset < r.end,
         NEW v \in Val, v = d[<<r.s, r.p, r.offset>>]
  PROVE  ReadSound([r EXCEPT !.offset = r.offset + 1, !.slot = r.slot + 1,
                             !.data = r.data \cup {<<r.slot, r.offset, v>>}], held, d)
<1> DEFINE x0 == <<r.slot, r.offset, v>>
           o == r.offset + 1
           sl == r.slot + 1
           da == r.data \cup {x0}
           q == [r EXCEPT !.offset = o, !.slot = sl, !.data = da]
<1>1. /\ r.start \in Nat /\ r.length \in Nat /\ r.offset \in Nat /\ r.end \in Nat /\ r.slot \in Int
      /\ r.slot = r.offset - r.start /\ r.start <= r.offset /\ r.end <= r.start + r.length
  BY DEF ReadRec, ReadSound
<1>2. /\ x0[1] = r.slot /\ x0[2] = r.offset /\ x0[3] = v
      /\ r.slot \in 0 .. r.length - 1 /\ r.offset = r.start + r.slot
      /\ o \in Nat /\ r.start <= o /\ o <= r.end /\ sl = o - r.start
  BY <1>1
<1>3. \A x \in da :
        /\ x[1] \in 0 .. r.length - 1 /\ x[2] = r.start + x[1] /\ x[3] \in Val
        /\ <<r.s, r.p, x[2]>> \in Good => <<<<r.s, r.p, x[2]>>, x[3]>> \in held
  <2>1. <<r.s, r.p, r.offset>> \in Good => <<<<r.s, r.p, r.offset>>, v>> \in held
    BY SMTT(60), <1>1 DEF ReadSound
  <2> HIDE DEF x0
  <2>2. QED
    BY <1>2, <2>1 DEF ReadSound
<1>4. ~\E x \in r.data : x[1] = r.slot
  BY SMTT(60), <1>1, <1>2 DEF ReadSound
<1>5. \A n \in 0 .. r.length - 1 : (\E x \in da : x[1] = n) <=> r.start + n \notin o .. r.end - 1
  <2> SUFFICES ASSUME NEW n \in 0 .. r.length - 1
               PROVE  (\E x \in da : x[1] = n) <=> r.start + n \notin o .. r.end - 1
    OBVIOUS
  <2>1. (\E x \in r.data : x[1] = n) <=> r.start + n \notin r.offset .. r.end - 1
    BY DEF ReadSound
  <2>2. (\E x \in da : x[1] = n) <=> (n = r.slot \/ \E x \in r.data : x[1] = n)
    BY <1>2
  <2>3. r.start + n \notin o .. r.end - 1 <=> (n = r.slot \/ r.start + n \notin r.offset .. r.end - 1)
    BY <1>1, <1>2
  <2>4. QED
    BY <2>1, <2>2, <2>3
<1>6. \A x, y \in da : x[1] = y[1] => x = y
  <2> HIDE DEF x0
  <2>1. QED
    BY <1>2, <1>4 DEF ReadSound
<1>7. \A u \in o .. r.end - 1 : <<r.s, r.p, u>> \in Good => <<<<r.s, r.p, u>>, d[<<r.s, r.p, u>>]>> \in held
  BY SMTT(60), <1>1 DEF ReadSound
<1> HIDE DEF o, sl, da
<1>8. /\ q.s = r.s /\ q.p = r.p /\ q.start = r.start /\ q.length = r.length /\ q.offset = o
      /\ q.end = r.end /\ q.slot = sl /\ q.data = da /\ q.err = r.err /\ q.stage = r.stage
  BY ZenonT(60) DEF ReadRec
<1> HIDE DEF q
<1>9. ReadSound(q, held, d)
  BY SMTT(60), SMTT(90), <1>2, <1>3, <1>5, <1>6, <1>7, <1>8 DEF ReadSound
<1>10. QED
  BY <1>9 DEF q, o, sl, da

\* A file name that cannot be parsed ends a read with an error; its other units stay sound.
LEMMA ReadErrorSound ==
  ASSUME NEW r \in ReadRec, NEW held, NEW d, ReadSound(r, held, d), r.offset < r.end,
         <<r.s, r.p, r.offset>> \in BadName
  PROVE  ReadSound([r EXCEPT !.err = TRUE], held, d)
<1> DEFINE q == [r EXCEPT !.err = TRUE]
<1>1. /\ q.s = r.s /\ q.p = r.p /\ q.start = r.start /\ q.length = r.length /\ q.offset = r.offset
      /\ q.end = r.end /\ q.slot = r.slot /\ q.data = r.data /\ q.stage = r.stage
  BY ZenonT(60) DEF ReadRec
<1>2. <<r.s, r.p, r.offset>> \in Units(r.s, r.p, r.start, r.length)
  <2>1. r.offset \in r.start .. r.start + r.length - 1
    BY SMTT(60) DEF ReadRec, ReadSound
  <2>2. QED
    BY <2>1 DEF Units
<1> HIDE DEF q
<1>3. ReadSound(q, held, d)
  BY <1>1, <1>2 DEF ReadSound
<1>4. QED
  BY <1>3 DEF q

\* Whatever held is: the units that a read has still to read are in it.
LEMMA ReadSliceSound ==
  ASSUME ~TRANSFER_MAY_FAIL, WriteInv, ReadInv, NEW j \in ReadJob, ReadSlice(j),
         NEW held, ReadSound(read[j], held, disk)
  PROVE  /\ ReadSound(read'[j], held, disk)
         /\ read'[j].stage = "reading" /\ read[j].stage = "reading" /\ read'[j] # Idle /\ read[j] # Idle
         /\ read'[j].s = read[j].s /\ read'[j].p = read[j].p
         /\ read'[j].start = read[j].start /\ read'[j].length = read[j].length
         /\ \A k \in ReadJob : k # j => read'[k] = read[k]
         /\ UNCHANGED <<writeVars, hashVars, seen>>
<1> DEFINE r == read[j]
           c == <<r.s, r.p, r.offset>>
<1>1. r \in ReadRec /\ r # Idle /\ ReadInRange(r) /\ r.stage = "reading" /\ r.offset < r.end
  BY ReadIsRec DEF ReadSlice
<1>2. PICK v \in Loaded(c) :
      /\ UNCHANGED <<writeVars, hashVars, seen>>
      /\ read' = [read EXCEPT ![j] =
           IF c \in BadName THEN [r EXCEPT !.err = TRUE]
           ELSE [r EXCEPT !.offset = @ + 1, !.slot = @ + 1,
                          !.data = @ \cup {<<r.slot, r.offset, v>>}]]
  BY DEF ReadSlice
<1>3. v = disk[c] /\ v \in Val
  <2>1. r.s \in Storage /\ r.p \in Piece /\ r.offset \in Nat /\ r.end \in Nat
    BY <1>1 DEF ReadRec
  <2>2. r.offset < piece_size[r.p]
    BY SMTT(60), <1>1, <2>1, IOAssumption DEF ReadInRange
  <2>3. c \in Cell
    BY <2>1, <2>2, CellForm
  <2>4. QED
    BY <2>3 DEF WriteInv, WriteTypes, Loaded
<1>4. /\ read'[j] = IF c \in BadName THEN [r EXCEPT !.err = TRUE]
                    ELSE [r EXCEPT !.offset = r.offset + 1, !.slot = r.slot + 1,
                                   !.data = r.data \cup {<<r.slot, r.offset, v>>}]
      /\ \A k \in ReadJob : k # j => read'[k] = read[k]
  BY <1>2 DEF ReadInv
<1>5. ReadSound(r, held, disk)
  OBVIOUS
<1>6. ReadSound(read'[j], held, disk)
  <2>1. CASE c \in BadName
    BY SMTT(60), SMTT(90), <1>1, <1>4, <1>5, <2>1, ReadErrorSound
  <2>2. CASE c \notin BadName
    <3> DEFINE q == [r EXCEPT !.offset = r.offset + 1, !.slot = r.slot + 1,
                              !.data = r.data \cup {<<r.slot, r.offset, v>>}]
    <3>1. read'[j] = q
      BY <1>4, <2>2
    <3>2. ReadSound(q, held, disk)
      <4> HIDE DEF r
      <4>1. QED
        BY <1>1, <1>3, <1>5, ReadUnitSound
    <3> HIDE DEF q
    <3>3. QED
      BY <3>1, <3>2
  <2>3. QED
    BY <2>1, <2>2
<1> HIDE DEF c
<1>7. /\ read'[j].stage = r.stage /\ read'[j].s = r.s /\ read'[j].p = r.p
      /\ read'[j].start = r.start /\ read'[j].length = r.length
  <2> HIDE DEF r
  <2>1. QED
    BY ZenonT(60), <1>1, <1>4 DEF ReadRec
<1>8. read'[j].stage = "reading"
  BY <1>1, <1>7
<1>9. read'[j] # Idle
  BY SMTT(60), <1>8 DEF Idle
<1>10. QED
  BY <1>1, <1>2, <1>4, <1>6, <1>7, <1>8, <1>9

-----------------------------------------------------------------------------
(* What async_read copies                                                  *)

\* The data of a request from start on that has the units U, as they are now.
Covers(data, s, p, start, U) ==
  /\ \A x \in data : x[2] \in U /\ x[1] = x[2] - start /\ x[3] = Current(<<s, p, x[2]>>)
  /\ \A u \in U : \E x \in data : x[2] = u

\* A copy from the store buffer covers the units it is taken from, each in its slot.
LEMMA CopiedCovers ==
  ASSUME NEW s, NEW p, NEW lo \in Nat, <<s, p, lo>> \in Location, SB!hit(<<s, p, lo>>),
         BlockLength(p, lo) \in Nat, NEW off \in Nat, NEW n \in Nat, off + n <= BlockLength(p, lo),
         NEW start \in Nat, NEW slot \in Int, slot = lo + off - start
  PROVE  Covers(Copied(<<s, p, lo>>, off, slot, n), s, p, start, lo + off .. lo + off + n - 1)
<1> DEFINE loc == <<s, p, lo>>
           val == write[SB!get(loc)].val
           data == Copied(loc, off, slot, n)
           U == lo + off .. lo + off + n - 1
<1>1. data = {<<slot + i, lo + off + i, val>> : i \in 0 .. n - 1}
  BY DEF Copied
<1>2. \A u \in U : Current(<<s, p, u>>) = val
  BY SMTT(60), UnitOfBlock
<1> HIDE DEF val, data
<1>3. ASSUME NEW x \in data
      PROVE  x[2] \in U /\ x[1] = x[2] - start /\ x[3] = Current(<<s, p, x[2]>>)
  <2>1. PICK i \in 0 .. n - 1 : x = <<slot + i, lo + off + i, val>>
    BY <1>1
  <2>2. x[1] = slot + i /\ x[2] = lo + off + i /\ x[3] = val
    BY <2>1
  <2>3. lo + off + i \in U /\ slot + i = lo + off + i - start
    OBVIOUS
  <2>4. QED
    BY SMTT(60), <1>2, <2>2, <2>3
<1>4. ASSUME NEW u \in U
      PROVE  \E x \in data : x[2] = u
  <2>1. u - lo - off \in 0 .. n - 1 /\ u = lo + off + (u - lo - off)
    OBVIOUS
  <2>2. <<slot + (u - lo - off), lo + off + (u - lo - off), val>> \in data
    BY <1>1, <2>1
  <2>3. QED
    BY <2>1, <2>2
<1>5. QED
  BY <1>3, <1>4 DEF Covers, data

\* Two copies into one buffer cover the units of both.
LEMMA CoversBoth ==
  ASSUME NEW a, NEW b, NEW s, NEW p, NEW start, NEW U, NEW V,
         Covers(a, s, p, start, U), Covers(b, s, p, start, V)
  PROVE  Covers(a \cup b, s, p, start, U \cup V)
<1>1. ASSUME NEW u \in U \cup V PROVE \E x \in a \cup b : x[2] = u
  BY DEF Covers
<1>2. QED
  BY <1>1 DEF Covers

\* What a lookup copied is right, and what it left to the disk is not buffered.
LEMMA LookupSound ==
  ASSUME NEW s \in Storage, NEW p \in Piece, NEW start \in Nat,
         NEW length \in 1 .. DEFAULT_BLOCK_SIZE, start + length <= piece_size[p]
  PROVE  LET todo == Lookup(s, p, start, length)
             rest == todo.offset .. todo.offset + todo.length - 1
         IN  /\ todo.offset \in Nat /\ todo.length \in Nat
             /\ start <= todo.offset /\ todo.offset + todo.length <= start + length
             /\ todo.slot = todo.offset - start
             /\ \A u \in rest : Current(<<s, p, u>>) = disk[<<s, p, u>>]
             /\ Covers(todo.data, s, p, start, (start .. start + length - 1) \ rest)
<1> DEFINE B == DEFAULT_BLOCK_SIZE
           block_offset == BlockStart(start)
           next == block_offset + B
           read_offset == start - block_offset
           len1 == B - read_offset
           loc1 == <<s, p, block_offset>>
           loc2 == <<s, p, next>>
           todo == Lookup(s, p, start, length)
           all == start .. start + length - 1
           fromDisk == [offset |-> start, length |-> length, slot |-> 0, data |-> {}]
           data1 == Copied(loc1, read_offset, 0, len1)
           data2 == Copied(loc2, 0, len1, length - len1)
           data0 == Copied(loc1, read_offset, 0, length)
<1>1. B \in Nat \ {0} /\ piece_size[p] \in Nat /\ length \in Nat /\ length > 0 /\ length <= B
  BY SMTT(60), IOAssumption
<1>2. /\ block_offset \in Nat /\ block_offset <= start /\ start < next /\ next \in Nat
      /\ next % B = 0
  <2>1. /\ block_offset \in Nat /\ block_offset <= start /\ start < block_offset + B
        /\ (block_offset + B) % B = 0
    BY BlockStartIsAligned
  <2> HIDE DEF block_offset, B
  <2>2. QED
    BY SMTT(60), <1>1, <2>1
<1>3. loc1 \in Location /\ (start + length > next => loc2 \in Location)
  <2>1. loc1 \in Location
    BY SMTT(60), <1>1, KeyIsLocation
  <2> SUFFICES ASSUME start + length > next
               PROVE  loc2 \in Location
    BY <2>1
  <2>2. next < piece_size[p]
    BY SMTT(60), <1>1, <1>2
  <2>3. loc2 \in Cell
    BY <1>2, <2>2, CellForm
  <2>4. QED
    BY <1>2, <2>3 DEF Location
<1>4. read_offset + length > B <=> start + length > next
  BY SMTT(60), <1>1, <1>2
<1>5. todo = IF start + length > next
             THEN CASE SB!hit(loc1) /\ SB!hit(loc2) ->
                         [fromDisk EXCEPT !.length = 0, !.data = data1 \cup data2]
                    [] SB!hit(loc2) /\ ~SB!hit(loc1) ->
                         [fromDisk EXCEPT !.length = len1, !.data = data2]
                    [] SB!hit(loc1) /\ ~SB!hit(loc2) ->
                         [offset |-> next, length |-> length - len1,
                          slot |-> len1, data |-> data1]
                    [] OTHER -> fromDisk
             ELSE IF SB!hit(loc1)
                  THEN [fromDisk EXCEPT !.length = 0, !.data = data0]
                  ELSE fromDisk
  BY <1>4 DEF Lookup, SB!torrent_location, BlockStart
<1>6. /\ start + length <= next => read_offset + length <= BlockLength(p, block_offset)
      /\ start + length > next => BlockLength(p, block_offset) = B
      /\ start + length > next =>
           BlockLength(p, next) \in Nat /\ length - len1 \in Nat /\ length - len1 <= BlockLength(p, next)
  BY SMTT(60), SMTT(90), <1>1, <1>2, IOAssumption DEF BlockLength
<1>7. /\ read_offset \in Nat /\ len1 \in Nat /\ len1 > 0 /\ read_offset + len1 = B
      /\ next = start + len1 /\ block_offset + read_offset = start
  BY SMTT(60), <1>1, <1>2
<1>8. BlockLength(p, block_offset) \in Nat
  BY SMTT(60), <1>1, <1>2, IOAssumption DEF BlockLength
<1> HIDE DEF block_offset, next, read_offset, len1
<1>9. SB!hit(loc1) /\ start + length <= next => Covers(data0, s, p, start, all)
  <2>1. block_offset + read_offset .. block_offset + read_offset + length - 1 = all
    BY <1>7
  <2>2. 0 = block_offset + read_offset - start /\ 0 \in Int
    BY SMTT(60), <1>2, <1>7
  <2>3. SB!hit(loc1) /\ start + length <= next =>
          Covers(data0, s, p, start, block_offset + read_offset .. block_offset + read_offset + length - 1)
    BY <1>1, <1>2, <1>3, <1>6, <1>7, <1>8, <2>2, CopiedCovers
  <2>4. QED
    BY <2>1, <2>3
<1>10. SB!hit(loc1) /\ start + length > next => Covers(data1, s, p, start, start .. next - 1)
  <2> SUFFICES ASSUME SB!hit(loc1), start + length > next
               PROVE  Covers(data1, s, p, start, start .. next - 1)
    OBVIOUS
  <2>1. block_offset + read_offset .. block_offset + read_offset + len1 - 1 = start .. next - 1
    BY SMTT(60), <1>7
  <2>2. 0 = block_offset + read_offset - start /\ 0 \in Int
    BY SMTT(60), <1>2, <1>7
  <2>3. read_offset + len1 <= BlockLength(p, block_offset)
    BY SMTT(60), <1>1, <1>6, <1>7
  <2>4. Covers(data1, s, p, start, block_offset + read_offset .. block_offset + read_offset + len1 - 1)
    BY <1>2, <1>3, <1>7, <1>8, <2>2, <2>3, CopiedCovers
  <2>5. QED
    BY <2>1, <2>4
<1>11. SB!hit(loc2) /\ start + length > next => Covers(data2, s, p, start, next .. start + length - 1)
  <2> SUFFICES ASSUME SB!hit(loc2), start + length > next
               PROVE  Covers(data2, s, p, start, next .. start + length - 1)
    OBVIOUS
  <2>1. next + 0 .. next + 0 + (length - len1) - 1 = next .. start + length - 1
    BY SMTT(60), <1>1, <1>2, <1>7
  <2>2. length - len1 \in Nat /\ 0 + (length - len1) <= BlockLength(p, next) /\ BlockLength(p, next) \in Nat
    BY SMTT(60), <1>6
  <2>3. len1 = next + 0 - start /\ len1 \in Int /\ 0 \in Nat
    BY SMTT(60), <1>2, <1>7
  <2>4. Covers(data2, s, p, start, next + 0 .. next + 0 + (length - len1) - 1)
    BY <1>2, <1>3, <1>7, <2>2, <2>3, CopiedCovers
  <2>5. QED
    BY <2>1, <2>4
<1>12. /\ ~SB!hit(loc1) => \A u \in start .. next - 1 :
             u < start + length => Current(<<s, p, u>>) = disk[<<s, p, u>>]
       /\ ~SB!hit(loc2) /\ start + length > next => \A u \in next .. start + length - 1 :
             Current(<<s, p, u>>) = disk[<<s, p, u>>]
  <2>1. ASSUME NEW u \in start .. next - 1, u < start + length
        PROVE  u \in block_offset .. block_offset + BlockLength(p, block_offset) - 1
    BY SMTT(60), SMTT(90), <1>1, <1>2, <1>6, <1>7, <1>8, <2>1
  <2>2. ASSUME start + length > next, NEW u \in next .. start + length - 1
        PROVE  u \in next .. next + BlockLength(p, next) - 1
    BY SMTT(60), SMTT(90), <1>1, <1>2, <1>6, <1>7, <2>2
  <2>3. QED
    BY <1>3, <2>1, <2>2, UnitOfBlock
<1> HIDE DEF loc1, loc2, data0, data1, data2, todo
<1>13. Covers({}, s, p, start, {})
  BY DEF Covers
<1>14. CASE start + length > next /\ SB!hit(loc1) /\ SB!hit(loc2)
  <2>1. todo = [offset |-> start, length |-> 0, slot |-> 0, data |-> data1 \cup data2]
    BY ZenonT(60), <1>5, <1>14
  <2>2. (start .. next - 1) \cup (next .. start + length - 1) = all \ (start .. start + 0 - 1)
    BY SMTT(60), <1>1, <1>2, <1>14
  <2>3. Covers(data1 \cup data2, s, p, start, (start .. next - 1) \cup (next .. start + length - 1))
    BY <1>10, <1>11, <1>14, CoversBoth
  <2>4. todo.offset = start /\ todo.length = 0 /\ todo.slot = 0 /\ todo.data = data1 \cup data2
    BY <2>1
  <2>5. Covers(todo.data, s, p, start, all \ (todo.offset .. todo.offset + todo.length - 1))
    BY <2>2, <2>3, <2>4
  <2>6. QED
    BY SMTT(60), <1>1, <2>4, <2>5 DEF todo
<1>15. CASE start + length > next /\ SB!hit(loc2) /\ ~SB!hit(loc1)
  <2>1. todo = [offset |-> start, length |-> len1, slot |-> 0, data |-> data2]
    BY ZenonT(60), <1>5, <1>15
  <2>2. /\ next .. start + length - 1 = all \ (start .. start + len1 - 1)
        /\ start .. start + len1 - 1 = start .. next - 1
    BY SMTT(60), SMTT(90), <1>1, <1>2, <1>7, <1>15
  <2>3. \A u \in start .. start + len1 - 1 : Current(<<s, p, u>>) = disk[<<s, p, u>>]
    BY SMTT(60), SMTT(90), <1>1, <1>2, <1>7, <1>12, <1>15
  <2>4. todo.offset = start /\ todo.length = len1 /\ todo.slot = 0 /\ todo.data = data2
    BY <2>1
  <2>5. Covers(todo.data, s, p, start, all \ (todo.offset .. todo.offset + todo.length - 1))
    BY <1>11, <1>15, <2>2, <2>4
  <2>6. \A u \in todo.offset .. todo.offset + todo.length - 1 : Current(<<s, p, u>>) = disk[<<s, p, u>>]
    BY <2>3, <2>4
  <2>7. QED
    BY SMTT(60), SMTT(90), <1>1, <1>2, <1>7, <1>15, <2>4, <2>5, <2>6 DEF todo
<1>16. CASE start + length > next /\ SB!hit(loc1) /\ ~SB!hit(loc2)
  <2>1. todo = [offset |-> next, length |-> length - len1, slot |-> len1, data |-> data1]
    BY <1>5, <1>16
  <2>2. /\ start .. next - 1 = all \ (next .. next + (length - len1) - 1)
        /\ next .. next + (length - len1) - 1 = next .. start + length - 1
    BY SMTT(60), SMTT(90), <1>1, <1>2, <1>7, <1>16
  <2>3. \A u \in next .. next + (length - len1) - 1 : Current(<<s, p, u>>) = disk[<<s, p, u>>]
    BY <1>12, <1>16, <2>2
  <2>4. todo.offset = next /\ todo.length = length - len1 /\ todo.slot = len1 /\ todo.data = data1
    BY <2>1
  <2>5. Covers(todo.data, s, p, start, all \ (todo.offset .. todo.offset + todo.length - 1))
    BY <1>10, <1>16, <2>2, <2>4
  <2>6. \A u \in todo.offset .. todo.offset + todo.length - 1 : Current(<<s, p, u>>) = disk[<<s, p, u>>]
    BY <2>3, <2>4
  <2>7. QED
    BY SMTT(60), SMTT(90), <1>1, <1>2, <1>6, <1>7, <1>16, <2>4, <2>5, <2>6 DEF todo
<1>17. CASE ~(start + length > next) /\ SB!hit(loc1)
  <2>1. todo = [offset |-> start, length |-> 0, slot |-> 0, data |-> data0]
    BY ZenonT(60), <1>5, <1>17
  <2>2. Covers(data0, s, p, start, all)
    BY SMTT(60), SMTT(90), <1>1, <1>2, <1>9, <1>17
  <2>3. todo.offset = start /\ todo.length = 0 /\ todo.slot = 0 /\ todo.data = data0
    BY <2>1
  <2>4. Covers(todo.data, s, p, start, all \ (todo.offset .. todo.offset + todo.length - 1))
    <3>1. all \ (todo.offset .. todo.offset + todo.length - 1) = all
      BY SMTT(60), SMTT(90), <2>3
    <3>2. QED
      BY <2>2, <2>3, <3>1
  <2>5. QED
    BY SMTT(60), SMTT(90), <1>1, <2>3, <2>4 DEF todo
<1>18. CASE ~SB!hit(loc1) /\ (start + length > next => ~SB!hit(loc2))
  <2>1. todo = fromDisk
    BY <1>5, <1>18
  <2>2. all \ all = {}
    OBVIOUS
  <2>3. \A u \in all : Current(<<s, p, u>>) = disk[<<s, p, u>>]
    BY SMTT(60), SMTT(90), <1>1, <1>2, <1>12, <1>18
  <2>4. QED
    BY SMTT(60), SMTT(90), <1>1, <1>13, <2>1, <2>2, <2>3 DEF todo
<1>19. QED
  BY <1>14, <1>15, <1>16, <1>17, <1>18

\* A read whose lookup in the store buffer is done.
LookedUp(r) ==
  LET todo == Lookup(r.s, r.p, r.start, r.length)
  IN  /\ r.offset = todo.offset /\ r.end = todo.offset + todo.length
      /\ r.slot = todo.slot /\ r.data = todo.data /\ ~r.err

\* What async_read has copied when it returns, and what it leaves to its job, is
\* current at the call.
LEMMA ReadCallSound ==
  ASSUME NEW r \in ReadRec, r.length \in 1 .. DEFAULT_BLOCK_SIZE, r.start + r.length <= piece_size[r.p],
         LookedUp(r)
  PROVE  ReadSound(r, Now(Units(r.s, r.p, r.start, r.length)), disk)
<1> DEFINE s == r.s
           p == r.p
           start == r.start
           length == r.length
           todo == Lookup(s, p, start, length)
           held == Now(Units(s, p, start, length))
           rest == r.offset .. r.end - 1
<1>0. /\ s \in Storage /\ p \in Piece /\ start \in Nat /\ length \in 1 .. DEFAULT_BLOCK_SIZE
      /\ start + length <= piece_size[p]
  BY DEF ReadRec
<1>t. /\ r.offset = todo.offset /\ r.end = todo.offset + todo.length
      /\ r.slot = todo.slot /\ r.data = todo.data /\ ~r.err
  BY DEF LookedUp
<1> HIDE DEF s, p, start, length
<1>1. /\ r.offset \in Nat /\ r.end \in Nat /\ r.offset <= r.end
      /\ start <= r.offset /\ r.end <= start + length
      /\ r.slot = r.offset - start
      /\ \A u \in rest : Current(<<s, p, u>>) = disk[<<s, p, u>>]
      /\ Covers(r.data, s, p, start, (start .. start + length - 1) \ rest)
  <2>1. /\ todo.offset \in Nat /\ todo.length \in Nat
        /\ start <= todo.offset /\ todo.offset + todo.length <= start + length
        /\ todo.slot = todo.offset - start
        /\ \A u \in todo.offset .. todo.offset + todo.length - 1 :
             Current(<<s, p, u>>) = disk[<<s, p, u>>]
        /\ Covers(todo.data, s, p, start,
                  (start .. start + length - 1) \ (todo.offset .. todo.offset + todo.length - 1))
    BY <1>0, LookupSound
  <2> HIDE DEF todo
  <2>2. rest = todo.offset .. todo.offset + todo.length - 1
    BY SMTT(60), SMTT(90), <1>t, <2>1
  <2>3. r.offset \in Nat /\ r.end \in Nat /\ r.offset <= r.end
    BY SMTT(60), SMTT(90), <1>t, <2>1
  <2>4. QED
    BY <1>t, <2>1, <2>2, <2>3
<1>2. r.data \in SUBSET (Int \X Nat \X Val) /\ length \in Nat /\ length > 0
  BY SMTT(60), SMTT(90), <1>0, IOAssumption DEF ReadRec
<1>3. \A u \in start .. start + length - 1 : <<<<s, p, u>>, Current(<<s, p, u>>)>> \in held
  <2> SUFFICES ASSUME NEW u \in start .. start + length - 1
               PROVE  <<<<s, p, u>>, Current(<<s, p, u>>)>> \in held
    OBVIOUS
  <2>1. <<s, p, u>> \in Units(s, p, start, length)
    BY DEF Units
  <2>2. QED
    BY <2>1 DEF Now
<1> HIDE DEF held
<1>4. held # {}
  <2>1. start \in start .. start + length - 1
    BY <1>0, <1>2
  <2>2. QED
    BY <1>3, <2>1
<1>5. \A x \in r.data : /\ x[2] \in start .. start + length - 1 /\ x[2] \notin rest
                        /\ x[1] = x[2] - start /\ x[3] = Current(<<s, p, x[2]>>)
  BY <1>1 DEF Covers
<1>6. \A x \in r.data :
        /\ x[1] \in 0 .. length - 1 /\ x[2] = start + x[1] /\ x[3] \in Val
        /\ <<s, p, x[2]>> \in Good => <<<<s, p, x[2]>>, x[3]>> \in held
  <2> SUFFICES ASSUME NEW x \in r.data
               PROVE  /\ x[1] \in 0 .. length - 1 /\ x[2] = start + x[1] /\ x[3] \in Val
                      /\ <<<<s, p, x[2]>>, x[3]>> \in held
    OBVIOUS
  <2>1. <<<<s, p, x[2]>>, x[3]>> \in held
    BY <1>3, <1>5
  <2>2. QED
    <3>1. x[3] \in Val
      BY <1>0, <1>2
    <3>2. x[1] \in 0 .. length - 1 /\ x[2] = start + x[1]
      <4> DEFINE a == x[1]
                 b == x[2]
      <4>1. b \in start .. start + length - 1 /\ a = b - start
        BY <1>5
      <4> HIDE DEF a, b
      <4>2. a \in 0 .. length - 1 /\ b = start + a
        BY SMTT(60), SMTT(90), <1>0, <1>2, <4>1
      <4>3. QED
        BY <4>2 DEF a, b
    <3>3. QED
      BY <2>1, <3>1, <3>2
<1>7. ASSUME NEW n \in 0 .. length - 1
      PROVE  (\E x \in r.data : x[1] = n) <=> start + n \notin rest
  <2>1. start + n \in start .. start + length - 1
    BY SMTT(60), <1>0, <1>2
  <2>2. ASSUME start + n \notin rest PROVE \E x \in r.data : x[1] = n
    <3>1. PICK x \in r.data : x[2] = start + n
      BY <1>1, <2>1, <2>2 DEF Covers
    <3>2. x[1] = x[2] - start
      BY <1>5
    <3>3. (start + n) - start = n
      BY SMTT(60), SMTT(90), <1>0, <1>2
    <3>4. x[1] = n
      BY <3>1, <3>2, <3>3
    <3>5. QED
      BY <3>1, <3>4
  <2>3. ASSUME NEW x \in r.data, x[1] = n PROVE start + n \notin rest
    <3>1. x[2] = start + n
      BY <1>6, <2>3
    <3>2. QED
      BY <1>5, <3>1
  <2>4. QED
    BY <2>2, <2>3
<1>8. ASSUME NEW x \in r.data, NEW y \in r.data, x[1] = y[1] PROVE x = y
  <2>1. x[2] = start + x[1] /\ y[2] = start + y[1]
    BY <1>6
  <2>2. x[3] = Current(<<s, p, x[2]>>) /\ y[3] = Current(<<s, p, y[2]>>)
    BY <1>5
  <2>3. x \in Int \X Nat \X Val /\ y \in Int \X Nat \X Val
    BY <1>0, <1>2
  <2>4. x[2] = y[2] /\ x[3] = y[3]
    BY <1>8, <2>1, <2>2
  <2>5. x = <<x[1], x[2], x[3]>> /\ y = <<y[1], y[2], y[3]>>
    BY SMTT(60), <2>3
  <2>6. QED
    BY <1>8, <2>4, <2>5
<1>9. ASSUME NEW u \in rest PROVE <<<<s, p, u>>, disk[<<s, p, u>>]>> \in held
  <2>1. u \in start .. start + length - 1
    BY SMTT(60), SMTT(90), <1>0, <1>1, <1>2
  <2>2. QED
    BY <1>1, <1>3, <2>1
<1>10. ReadSound(r, held, disk)
  BY <1>0, <1>t, <1>1, <1>2, <1>4, <1>6, <1>7, <1>8, <1>9 DEF ReadSound, s, p, start, length
<1>11. QED
  BY <1>10 DEF held, s, p, start, length

\* A read that was given a buffer, as async_read leaves it.
LEMMA ReadCallIs ==
  ASSUME WriteInv, ReadInv, SeenInv, NEW j \in ReadJob, NEW c \in Cell, NEW length \in 1 .. DEFAULT_BLOCK_SIZE,
         c[3] + length <= piece_size[c[2]], async_read(j, c[1], c[2], c[3], length)
  PROVE  /\ UNCHANGED <<writeVars, hashVars>> /\ read[j] = Idle
         /\ \/ UNCHANGED <<readVars, seen>>
            \/ LET r == read'[j]
                   held == Now(Units(c[1], c[2], c[3], length))
               IN  /\ r \in ReadRec /\ r.s = c[1] /\ r.p = c[2] /\ r.start = c[3] /\ r.length = length
                   /\ r.stage = (IF r.offset = r.end THEN "held" ELSE "queued") /\ ~r.err
                   /\ ReadSound(r, held, disk)
                   /\ \A k \in ReadJob : k # j => read'[k] = read[k]
                   /\ seen' = [seen EXCEPT ![j] = held]
<1> DEFINE todo == Lookup(c[1], c[2], c[3], length)
           rec == [stage |-> IF todo.length = 0 THEN "held" ELSE "queued", s |-> c[1], p |-> c[2],
                   start |-> c[3], length |-> length, offset |-> todo.offset,
                   end |-> todo.offset + todo.length, slot |-> todo.slot, data |-> todo.data,
                   err |-> FALSE]
           held == Now(Units(c[1], c[2], c[3], length))
<1>1. /\ c[1] \in Storage /\ c[2] \in Piece /\ c[3] \in Nat /\ length \in Nat
  BY SMTT(60), SMTT(90), CellParts, IOAssumption
<1>2. /\ todo.offset \in Nat /\ todo.length \in Nat /\ todo.slot \in Int
      /\ todo.data \in SUBSET (Int \X Nat \X Val)
  BY <1>1, LookupTypes
<1>3. UNCHANGED <<writeVars, hashVars>> /\ read[j] = Idle
  BY DEF async_read
<1>4. CASE UNCHANGED <<readVars, seen>>
  BY <1>3, <1>4
<1>5. CASE read' = [read EXCEPT ![j] = rec] /\ seen' = [seen EXCEPT ![j] = held]
  <2>1. read'[j] = rec /\ \A k \in ReadJob : k # j => read'[k] = read[k]
    BY <1>5 DEF ReadInv
  <2>2. rec \in ReadRec
    <3> HIDE DEF todo
    <3>1. QED
      BY SMTT(60), SMTT(90), <1>1, <1>2 DEF ReadRec
  <2>3. /\ rec.s = c[1] /\ rec.p = c[2] /\ rec.start = c[3] /\ rec.length = length /\ ~rec.err
        /\ rec.offset = todo.offset /\ rec.end = todo.offset + todo.length /\ rec.slot = todo.slot
        /\ rec.data = todo.data /\ rec.stage = IF todo.length = 0 THEN "held" ELSE "queued"
    BY ZenonT(60)
  <2> HIDE DEF rec
  <2>4. ReadSound(rec, held, disk)
    <3>1. LookedUp(rec)
      BY <2>3 DEF LookedUp
    <3>2. QED
      BY <2>2, <2>3, <3>1, ReadCallSound
  <2> HIDE DEF todo
  <2>5. rec.stage = (IF rec.offset = rec.end THEN "held" ELSE "queued")
    BY SMTT(60), SMTT(90), <1>2, <2>3
  <2> HIDE DEF held
  <2>6. QED
    BY <1>3, <1>5, <2>1, <2>2, <2>3, <2>4, <2>5 DEF held
<1>6. QED
  BY ZenonT(60), <1>4, <1>5 DEF async_read

-----------------------------------------------------------------------------
(* Steps of reads, seen in BlockStore                                      *)

\* Each step of a read preserves RegInv and is a step of BlockStore, or leaves it alone.
LEMMA ReadsImplement ==
  ~TRANSFER_MAY_FAIL /\ IInv /\ RegInv /\ ReadAction
  => RegInv' /\ (BS!Next \/ UNCHANGED BS!vars)
<1>ReadStepKeepsOthers.
  ASSUME RegInv, UNCHANGED <<writeVars, hashVars>>, NEW j \in ReadJob,
         \A k \in ReadJob : k # j => read'[k] = read[k],
         \A k \in ReadJob \cup HashJob : k # j => seen'[k] = seen[k],
         IF read'[j] = Idle THEN seen'[j] = {} ELSE ReadSound(read'[j], seen'[j], disk),
         read'[j].stage \in {"queued", "reading"} =>
           \A c \in Units(read'[j].s, read'[j].p, read'[j].start, read'[j].length) \cap Good :
             <<c, Current(c)>> \in seen'[j]
  PROVE  RegInv'
  <2> USE <1>ReadStepKeepsOthers
  <2>1. /\ disk' = disk /\ store_buffer' = store_buffer /\ write' = write /\ hash' = hash
        /\ \A k \in HashJob : k \notin ReadJob /\ seen'[k] = seen[k]
    BY IOAssumption DEF writeVars, hashVars
  <2>2. EntryInv'
    BY <2>1 DEF RegInv, EntryInv
  <2>3. FollowInv'
    <3> SUFFICES ASSUME NEW k \in ReadJob \cup HashJob, NEW c, c \in Wanted(k)', c \in Good
                 PROVE  <<c, Current(c)>> \in seen'[k]
      BY CurrentKept DEF FollowInv
    <3>1. CASE k = j
      BY <3>1 DEF Wanted
    <3>2. CASE k # j
      <4>1. Wanted(k)' = Wanted(k) /\ seen'[k] = seen[k]
        BY <2>1, <3>2 DEF Wanted
      <4>2. QED
        BY <4>1 DEF RegInv, FollowInv
    <3>3. QED
      BY <3>1, <3>2
  <2>4. ReadSoundInv'
    <3> SUFFICES ASSUME NEW k \in ReadJob
                 PROVE  IF read'[k] = Idle THEN seen'[k] = {} ELSE ReadSound(read'[k], seen'[k], disk)
      BY <2>1 DEF ReadSoundInv
    <3>1. CASE k = j
      BY <3>1
    <3>2. CASE k # j
      BY <3>2 DEF RegInv, ReadSoundInv
    <3>3. QED
      BY <3>1, <3>2
  <2>5. HashSoundInv'
    BY <2>1 DEF RegInv, HashSoundInv
  <2>6. QED
    BY <2>2, <2>3, <2>4, <2>5 DEF RegInv
<1>ReadStageRegular.
  ASSUME RegInv, ReadInv, UNCHANGED <<writeVars, hashVars, seen>>, NEW j \in ReadJob, NEW st,
         read' = [read EXCEPT ![j].stage = st], read[j].stage # "idle",
         st = "reading" => read[j].stage = "queued", st # "queued", st # "idle"
  PROVE  RegInv'
  <2> USE <1>ReadStageRegular
  <2>1. read[j] \in ReadRec /\ read[j] # Idle
    BY ReadIsRec
  <2>2. /\ read'[j] = [read[j] EXCEPT !.stage = st]
        /\ \A k \in ReadJob : k # j => read'[k] = read[k]
    BY DEF ReadInv
  <2>3. ReadSound(read[j], seen[j], disk)
    BY <2>1 DEF RegInv, ReadSoundInv
  <2>4. ReadSound(read'[j], seen'[j], disk)
    BY SMTT(60), SMTT(90), <2>1, <2>2, <2>3, ReadStageSound
  <2>5. /\ read'[j].stage = st /\ read'[j].s = read[j].s /\ read'[j].p = read[j].p
        /\ read'[j].start = read[j].start /\ read'[j].length = read[j].length
    BY ZenonT(60), <2>1, <2>2 DEF ReadRec
  <2>6. read'[j] # Idle
    BY <2>5 DEF Idle
  <2>7. ASSUME read'[j].stage \in {"queued", "reading"}
        PROVE  \A c \in Units(read'[j].s, read'[j].p, read'[j].start, read'[j].length) \cap Good :
                 <<c, Current(c)>> \in seen'[j]
    BY <2>5, <2>7 DEF RegInv, FollowInv, Wanted
  <2>8. QED
    BY <2>2, <2>4, <2>6, <2>7, <1>ReadStepKeepsOthers
<1>ReadSliceRegular.
  ASSUME ~TRANSFER_MAY_FAIL, WriteInv, ReadInv, RegInv, NEW j \in ReadJob, ReadSlice(j)
  PROVE  RegInv'
  <2> USE <1>ReadSliceRegular
  <2>1. read[j] # Idle
    BY ReadIsRec DEF ReadSlice
  <2>2. ReadSound(read[j], seen[j], disk)
    BY <2>1 DEF RegInv, ReadSoundInv
  <2>3. /\ ReadSound(read'[j], seen[j], disk) /\ read'[j] # Idle
        /\ read'[j].stage = "reading" /\ read[j].stage = "reading"
        /\ read'[j].s = read[j].s /\ read'[j].p = read[j].p
        /\ read'[j].start = read[j].start /\ read'[j].length = read[j].length
        /\ \A k \in ReadJob : k # j => read'[k] = read[k]
        /\ UNCHANGED <<writeVars, hashVars, seen>>
    BY <2>2, ReadSliceSound
  <2>4. \A c \in Units(read'[j].s, read'[j].p, read'[j].start, read'[j].length) \cap Good :
          <<c, Current(c)>> \in seen'[j]
    BY <2>3 DEF RegInv, FollowInv, Wanted
  <2>5. QED
    BY <2>3, <2>4, <1>ReadStepKeepsOthers
<1>ReadEndsRegular.
  ASSUME RegInv, ReadInv, SeenInv, NEW j \in ReadJob, StartRead \/ FinishRead(j) \/ HandleRead(j) \/ FreeRead(j)
  PROVE  RegInv'
  <2> USE <1>ReadEndsRegular
  <2>1. CASE StartRead
    <3>1. /\ read' = [read EXCEPT ![Head(read_queue)].stage = "reading"] /\ read_queue # <<>>
          /\ UNCHANGED <<writeVars, hashVars, seen>>
      BY <2>1 DEF StartRead
    <3>2. Head(read_queue) \in ReadJob /\ read[Head(read_queue)].stage = "queued"
      BY SMTT(60), <3>1 DEF ReadInv, Queued
    <3>3. QED
      BY <3>1, <3>2, <1>ReadStageRegular
  <2>2. CASE FinishRead(j)
    <3>1. /\ read' = [read EXCEPT ![j].stage = "posted"] /\ read[j].stage = "reading"
          /\ UNCHANGED <<writeVars, hashVars, seen>>
      BY <2>2 DEF FinishRead
    <3>2. QED
      BY <3>1, <1>ReadStageRegular
  <2>3. CASE HandleRead(j)
    <3>1. /\ read' = [read EXCEPT ![j].stage = "held"] /\ read[j].stage = "posted"
          /\ UNCHANGED <<writeVars, hashVars, seen>>
      BY <2>3 DEF HandleRead
    <3>2. QED
      BY <3>1, <1>ReadStageRegular
  <2>4. CASE FreeRead(j)
    <3>1. /\ read' = [read EXCEPT ![j] = Idle] /\ seen' = [seen EXCEPT ![j] = {}]
          /\ UNCHANGED <<writeVars, hashVars>>
      BY <2>4 DEF FreeRead
    <3>2. /\ read'[j] = Idle /\ Idle.stage = "idle" /\ seen'[j] = {}
          /\ \A k \in ReadJob : k # j => read'[k] = read[k]
          /\ \A k \in ReadJob \cup HashJob : k # j => seen'[k] = seen[k]
      BY <3>1 DEF ReadInv, SeenInv, Idle
    <3>3. QED
      BY <3>1, <3>2, <1>ReadStepKeepsOthers
  <2>5. QED
    BY <2>1, <2>2, <2>3, <2>4
<1>ReadCallRegular.
  ASSUME WriteInv, ReadInv, SeenInv, RegInv, NEW j \in ReadJob, NEW c \in Cell,
         NEW length \in 1 .. DEFAULT_BLOCK_SIZE,
         c[3] + length <= piece_size[c[2]], async_read(j, c[1], c[2], c[3], length)
  PROVE  RegInv'
  <2> USE <1>ReadCallRegular
  <2> DEFINE r == read'[j]
             held == Now(Units(c[1], c[2], c[3], length))
  <2>1. /\ UNCHANGED <<writeVars, hashVars>>
        /\ \/ UNCHANGED <<readVars, seen>>
           \/ /\ r \in ReadRec /\ r.s = c[1] /\ r.p = c[2] /\ r.start = c[3] /\ r.length = length
              /\ ReadSound(r, held, disk)
              /\ \A k \in ReadJob : k # j => read'[k] = read[k]
              /\ seen' = [seen EXCEPT ![j] = held]
    BY SMTT(60), ReadCallIs
  <2>2. CASE UNCHANGED <<readVars, seen>>
    <3>1. \A k : Current(k)' = Current(k)
      BY <2>1, CurrentKept
    <3>2. /\ write' = write /\ store_buffer' = store_buffer /\ disk' = disk /\ read' = read /\ hash' = hash
          /\ seen' = seen
      BY <2>1, <2>2 DEF writeVars, readVars, hashVars
    <3>3. FollowInv'
      BY <3>1, <3>2 DEF RegInv, FollowInv, Wanted
    <3>4. QED
      BY <3>2, <3>3 DEF RegInv, EntryInv, ReadSoundInv, HashSoundInv
  <2>3. CASE ~UNCHANGED <<readVars, seen>>
    <3>1. seen'[j] = held /\ \A k \in ReadJob \cup HashJob : k # j => seen'[k] = seen[k]
      BY <2>1, <2>3 DEF SeenInv
    <3>2. \A d \in Units(r.s, r.p, r.start, r.length) \cap Good : <<d, Current(d)>> \in seen'[j]
      BY <2>1, <2>3, <3>1 DEF Now
    <3>3. r # Idle
      <4>1. r \in ReadRec
        BY <2>1, <2>3
      <4>2. QED
        BY SMTT(60), <4>1 DEF ReadRec, Idle
    <3>4. QED
      BY <2>1, <2>3, <3>1, <3>2, <3>3, <1>ReadStepKeepsOthers
  <2>4. QED
    BY <2>2, <2>3
\* What the buffer of a finished read holds is an answer.
<1>ReadIsAnswered.
  ASSUME NEW r \in ReadRec, NEW held, NEW d, ReadSound(r, held, d), r.stage \in {"posted", "held"},
         ~r.err, r.offset = r.end
  PROVE  BS!IsAnswer(ReadAnswer(r), Units(r.s, r.p, r.start, r.length), GoodPart(held))
  <2> USE <1>ReadIsAnswered
  <2> DEFINE s == r.s
             p == r.p
             start == r.start
             length == r.length
             cell(n) == <<s, p, start + n>>
             A == {<<<<s, p, start + x[1]>>, InPlace(x[2], start + x[1], x[3])>> : x \in r.data}
  <2>1. ReadAnswer(r) = [kind |-> "data", data |-> A]
    BY DEF ReadAnswer
  <2>2. /\ start \in Nat /\ length \in Nat
        /\ \A x \in r.data :
             /\ x[1] \in 0 .. length - 1 /\ x[2] = start + x[1] /\ x[3] \in Val
             /\ <<s, p, x[2]>> \in Good => <<<<s, p, x[2]>>, x[3]>> \in held
        /\ \A x, y \in r.data : x[1] = y[1] => x = y
    BY DEF ReadSound, ReadRec
  <2>3. \A n \in 0 .. length - 1 : \E x \in r.data : x[1] = n
    BY SMTT(60) DEF ReadSound, ReadRec
  <2> HIDE DEF s, p, start, length
  <2>4. A = {<<cell(x[1]), x[3]>> : x \in r.data}
    BY <2>2 DEF InPlace
  <2> HIDE DEF A
  <2>5. {a \in A : a[1] \in Good} \subseteq GoodPart(held)
    <3> SUFFICES ASSUME NEW a \in A, a[1] \in Good
                 PROVE  a \in held
      BY DEF GoodPart
    <3>1. PICK x \in r.data : a = <<cell(x[1]), x[3]>>
      BY <2>4
    <3>2. a[1] = <<s, p, x[2]>> /\ a = <<<<s, p, x[2]>>, x[3]>>
      BY <2>2, <3>1
    <3>3. QED
      BY <2>2, <3>2
  <2>6. ASSUME NEW c \in Units(s, p, start, length) \cap Good
        PROVE  \E v \in Val : <<c, v>> \in A /\ \A w \in Val : <<c, w>> \in A => w = v
    <3>1. PICK u \in start .. start + length - 1 : c = <<s, p, u>>
      BY SMTT(60), SMTT(90) DEF Units
    <3> DEFINE n == u - start
    <3>2. n \in 0 .. length - 1 /\ start + n = u
      BY SMTT(60), <2>2, <3>1
    <3> HIDE DEF n
    <3>3. PICK x \in r.data : x[1] = n
      BY <2>3, <3>2
    <3>4. x[3] \in Val /\ <<c, x[3]>> \in A
      BY <2>2, <2>4, <3>1, <3>2, <3>3
    <3>5. ASSUME NEW w \in Val, <<c, w>> \in A PROVE w = x[3]
      <4>1. PICK y \in r.data : <<c, w>> = <<cell(y[1]), y[3]>>
        BY <2>4, <3>5
      <4>2. w = y[3] /\ start + y[1] = u
        BY <3>1, <4>1
      <4>a. y[1] \in 0 .. length - 1
        BY <2>2
      <4>3. y[1] \in Int
        BY SMTT(60), SMTT(90), <4>a
      <4>4. y[1] = n
        BY SMTT(60), SMTT(90), <2>2, <3>2, <4>2, <4>3
      <4>5. y = x
        BY <2>2, <3>3, <4>4
      <4>6. QED
        BY <4>2, <4>5
    <3>6. QED
      BY <3>4, <3>5
  <2>7. ReadAnswer(r).kind = "data" /\ ReadAnswer(r).data = A
    BY SMTT(60), <2>1
  <2>8. QED
    BY <2>5, <2>6, <2>7 DEF BS!IsAnswer, s, p, start, length
<1>ReadIsAsk.
  ASSUME WriteInv, ReadInv, SeenInv, RegInv, NEW j \in ReadJob, NEW c \in Cell,
         NEW length \in 1 .. DEFAULT_BLOCK_SIZE,
         c[3] + length <= piece_size[c[2]], async_read(j, c[1], c[2], c[3], length)
  PROVE  BS!Next \/ UNCHANGED BS!vars
  <2> USE <1>ReadIsAsk
  <2> DEFINE r == read'[j]
             cells == Units(c[1], c[2], c[3], length)
             held == Now(cells)
             Job == ReadJob \cup HashJob
  <2>1. /\ UNCHANGED <<writeVars, hashVars>> /\ read[j] = Idle
        /\ \/ UNCHANGED <<readVars, seen>>
           \/ /\ r \in ReadRec /\ r.s = c[1] /\ r.p = c[2] /\ r.start = c[3] /\ r.length = length
              /\ r.stage = (IF r.offset = r.end THEN "held" ELSE "queued") /\ ~r.err
              /\ ReadSound(r, held, disk)
              /\ \A k \in ReadJob : k # j => read'[k] = read[k]
              /\ seen' = [seen EXCEPT ![j] = held]
    BY ReadCallIs
  <2>2. \A x \in Good : Current(x)' = Current(x)
    BY <2>1, CurrentKept
  <2>3. hash' = hash
    BY <2>1 DEF hashVars
  <2>4. CASE UNCHANGED <<readVars, seen>>
    <3>1. read' = read /\ seen' = seen
      BY <2>4 DEF readVars
    <3>2. \A k \in Job : Requested(k)' = Requested(k) /\ Answered(k)' = Answered(k)
      BY <2>3, <3>1, JobKept
    <3>3. QED
      BY <2>2, <3>1, <3>2, StoreKept
  <2>5. CASE /\ r \in ReadRec /\ r.s = c[1] /\ r.p = c[2] /\ r.start = c[3] /\ r.length = length
             /\ r.stage = (IF r.offset = r.end THEN "held" ELSE "queued") /\ ~r.err
             /\ ReadSound(r, held, disk)
             /\ \A k \in ReadJob : k # j => read'[k] = read[k]
             /\ seen' = [seen EXCEPT ![j] = held]
    <3> HIDE DEF r, held
    <3>1. /\ seen'[j] = held /\ held # {}
          /\ \A k \in Job : k # j => seen'[k] = seen[k]
      BY <2>5 DEF SeenInv, ReadSound
    <3>2. \A k \in Job : k # j =>
            /\ seen'[k] = seen[k] /\ (k \in ReadJob => read'[k] = read[k])
            /\ (k \notin ReadJob => hash'[k] = hash[k])
      BY <2>3, <2>5, <3>1
    <3>3. /\ Contents' = Contents
          /\ Requests' = [Requests EXCEPT ![j] = Requested(j)']
          /\ Histories' = [Histories EXCEPT ![j] = GoodPart(seen'[j])]
          /\ Answers' = [Answers EXCEPT ![j] = Answered(j)']
          /\ Answers'[j] = Answered(j)' /\ Histories'[j] = GoodPart(seen'[j])
      BY <2>2, <3>2, JobChanged
    <3>4. Requested(j)' = cells /\ Answered(j)' = ReadAnswer(r)
      BY <2>5, <3>1 DEF Requested, Answered, r
    <3>5. cells \in SUBSET Cell /\ cells # {}
      <4>1. c[1] \in Storage /\ c[2] \in Piece /\ c[3] \in Nat /\ length \in Nat /\ length > 0
        BY SMTT(60), SMTT(90), CellParts, IOAssumption
      <4>2. cells \in SUBSET Cell
        BY <4>1, UnitsAreCells
      <4>3. c[3] \in c[3] .. c[3] + length - 1
        BY SMTT(60), SMTT(90), <4>1
      <4>4. <<c[1], c[2], c[3]>> \in cells
        BY <4>3 DEF Units
      <4>5. QED
        BY <4>2, <4>4
    <3>6. GoodPart(held) = {<<x, Contents[x]>> : x \in cells \cap Good}
      BY SMTT(60) DEF GoodPart, held, Now, Contents
    <3>7. Requests[j] = {} /\ Answers[j] = BS!NoAnswer
      <4>1. seen[j] = {} /\ read[j].stage = "idle"
        BY SMTT(60), <2>1 DEF RegInv, ReadSoundInv, Idle
      <4>2. Requested(j) = {} /\ Answered(j) = BS!NoAnswer
        BY <4>1 DEF Requested, Answered, ReadAnswer, BS!NoAnswer
      <4>3. QED
        BY <4>2, JobStands
    <3> HIDE DEF cells
    <3>8. \/ Answers' = Answers
          \/ /\ Answers' = [Answers EXCEPT ![j] = Answers'[j]]
             /\ BS!IsAnswer(Answers'[j], cells, Histories'[j])
      <4>1. CASE r.offset = r.end
        <5>1. BS!IsAnswer(ReadAnswer(r), Units(r.s, r.p, r.start, r.length), GoodPart(held))
          BY <2>5, <4>1, <1>ReadIsAnswered
        <5>2. QED
          BY <2>5, <3>1, <3>3, <3>4, <5>1 DEF cells
      <4>2. CASE r.offset # r.end
        <5>1. ReadAnswer(r) = BS!NoAnswer
          BY <2>5, <4>2 DEF ReadAnswer, BS!NoAnswer
        <5>2. Answers' = [Answers EXCEPT ![j] = BS!NoAnswer]
          BY <3>3, <3>4, <5>1
        <5>3. QED
          BY <3>7, <5>2 DEF Answers
      <4>3. QED
        BY <4>1, <4>2
    <3>9. BS!Ask(j)
      <4>1. Requests' = [Requests EXCEPT ![j] = cells]
        BY <3>3, <3>4
      <4>2. Histories' = [Histories EXCEPT ![j] = {<<x, Contents[x]>> : x \in cells \cap Good}]
        BY <3>1, <3>3, <3>6
      <4>3. Contents' = Contents
        BY <3>3
      <4>4. QED
        BY <3>5, <3>7, <3>8, <4>1, <4>2, <4>3 DEF BS!Ask
    <3>10. QED
      BY <3>9 DEF BS!Next
  <2>6. QED
    BY <2>1, <2>4, <2>5
\* A step that changes the record of one read.
<1>ReadRecordChange.
  ASSUME ReadInv, RegInv, UNCHANGED <<writeVars, hashVars, seen>>, NEW j \in ReadJob, read[j] # Idle, NEW q,
         read' = [read EXCEPT ![j] = q], q.s = read[j].s, q.p = read[j].p, q.start = read[j].start,
         q.length = read[j].length
  PROVE  /\ Contents' = Contents /\ Requests' = Requests /\ Histories' = Histories
         /\ Answers' = [Answers EXCEPT ![j] = ReadAnswer(q)] /\ Answers'[j] = ReadAnswer(q)
         /\ Requests[j] = Units(q.s, q.p, q.start, q.length) /\ Answers[j] = ReadAnswer(read[j])
         /\ Histories[j] = GoodPart(seen[j])
  <2> USE <1>ReadRecordChange
  <2>1. \A x \in Good : Current(x)' = Current(x)
    BY CurrentKept
  <2>2. /\ seen' = seen /\ hash' = hash /\ read'[j] = q
        /\ \A k \in ReadJob : k # j => read'[k] = read[k]
    BY DEF hashVars, ReadInv
  <2>3. /\ Contents' = Contents
        /\ Requests' = [Requests EXCEPT ![j] = Requested(j)']
        /\ Histories' = [Histories EXCEPT ![j] = GoodPart(seen'[j])]
        /\ Answers' = [Answers EXCEPT ![j] = Answered(j)']
        /\ Answers'[j] = Answered(j)'
    BY <2>1, <2>2, JobChanged
  <2>4. /\ Requests[j] = Requested(j) /\ Answers[j] = Answered(j) /\ Histories[j] = GoodPart(seen[j])
    BY JobStands
  <2>5. seen[j] # {}
    BY DEF RegInv, ReadSoundInv, ReadSound
  <2>6. Requested(j) = Units(q.s, q.p, q.start, q.length) /\ Requested(j)' = Requested(j)
    BY SMTT(60), SMTT(90), <2>2, <2>5 DEF Requested
  <2>7. Answered(j) = ReadAnswer(read[j]) /\ Answered(j)' = ReadAnswer(q)
    BY <2>2 DEF Answered
  <2>8. Requests' = Requests /\ Histories' = Histories
    <3>1. Requests' = [Requests EXCEPT ![j] = Requests[j]] /\ Histories' = [Histories EXCEPT ![j] = Histories[j]]
      BY <2>2, <2>3, <2>4, <2>6
    <3>2. QED
      BY <3>1 DEF Requests, Histories
  <2>9. QED
    BY <2>3, <2>4, <2>6, <2>7, <2>8
<1>ReadStepIsSilent.
  ASSUME ReadInv, RegInv, NEW j \in ReadJob, StartRead \/ ReadSlice(j) \/ HandleRead(j)
  PROVE  UNCHANGED BS!vars
  <2> USE <1>ReadStepIsSilent
  <2>1. ASSUME NEW k \in ReadJob, UNCHANGED <<writeVars, hashVars, seen>>, read[k] # Idle, NEW q,
               read' = [read EXCEPT ![k] = q], q.s = read[k].s, q.p = read[k].p, q.start = read[k].start,
               q.length = read[k].length, ReadAnswer(q) = ReadAnswer(read[k])
        PROVE  UNCHANGED BS!vars
    <3>1. /\ Contents' = Contents /\ Requests' = Requests /\ Histories' = Histories
          /\ Answers' = [Answers EXCEPT ![k] = ReadAnswer(q)] /\ Answers[k] = ReadAnswer(read[k])
      BY <2>1, <1>ReadRecordChange
    <3>2. QED
      BY <2>1, <3>1, SameAnswer
  <2>2. CASE StartRead
    <3> DEFINE k == Head(read_queue)
               q == [read[k] EXCEPT !.stage = "reading"]
    <3>1. read' = [read EXCEPT ![k] = q] /\ UNCHANGED <<writeVars, hashVars, seen>> /\ read_queue # <<>>
      BY <2>2 DEF StartRead
    <3>2. k \in ReadJob /\ read[k].stage = "queued"
      BY SMTT(60), <3>1 DEF ReadInv, Queued
    <3> HIDE DEF k
    <3>3. read[k] \in ReadRec /\ read[k] # Idle
      BY <3>2, ReadIsRec
    <3>4. /\ q.stage = "reading" /\ q.s = read[k].s /\ q.p = read[k].p /\ q.start = read[k].start
          /\ q.length = read[k].length
      BY ZenonT(60), <3>3 DEF ReadRec
    <3> HIDE DEF q
    <3>5. ReadAnswer(q) = ReadAnswer(read[k])
      BY <3>2, <3>4 DEF ReadAnswer
    <3>6. QED
      BY <2>1, <3>1, <3>2, <3>3, <3>4, <3>5
  <2>3. CASE ReadSlice(j)
    <3> DEFINE r == read[j]
               c == <<r.s, r.p, r.offset>>
    <3>1. PICK v \in Loaded(c) :
            read' = [read EXCEPT ![j] =
               IF c \in BadName THEN [r EXCEPT !.err = TRUE]
               ELSE [r EXCEPT !.offset = @ + 1, !.slot = @ + 1,
                              !.data = @ \cup {<<r.slot, r.offset, v>>}]]
      BY <2>3 DEF ReadSlice
    <3>2. r.stage = "reading" /\ UNCHANGED <<writeVars, hashVars, seen>>
      BY <2>3 DEF ReadSlice
    <3>3. r \in ReadRec /\ r # Idle
      BY <3>2, ReadIsRec
    <3> DEFINE q1 == [r EXCEPT !.err = TRUE]
               q2 == [r EXCEPT !.offset = @ + 1, !.slot = @ + 1, !.data = @ \cup {<<r.slot, r.offset, v>>}]
               q == IF c \in BadName THEN q1 ELSE q2
    <3>4. /\ q1.stage = "reading" /\ q1.s = r.s /\ q1.p = r.p /\ q1.start = r.start /\ q1.length = r.length
      BY ZenonT(60), <3>2, <3>3 DEF ReadRec
    <3>5. /\ q2.stage = "reading" /\ q2.s = r.s /\ q2.p = r.p /\ q2.start = r.start /\ q2.length = r.length
      BY ZenonT(60), <3>2, <3>3 DEF ReadRec
    <3>6. read' = [read EXCEPT ![j] = q]
      BY <3>1
    <3> HIDE DEF q1, q2
    <3>7. q.stage = "reading" /\ q.s = r.s /\ q.p = r.p /\ q.start = r.start /\ q.length = r.length
      BY <3>4, <3>5
    <3> HIDE DEF q
    <3>8. ReadAnswer(q) = ReadAnswer(r)
      BY <3>2, <3>7 DEF ReadAnswer
    <3>9. QED
      BY <2>1, <3>2, <3>3, <3>6, <3>7, <3>8
  <2>4. CASE HandleRead(j)
    <3> DEFINE q == [read[j] EXCEPT !.stage = "held"]
    <3>1. /\ read' = [read EXCEPT ![j] = q] /\ UNCHANGED <<writeVars, hashVars, seen>>
          /\ read[j].stage = "posted"
      BY <2>4 DEF HandleRead
    <3>2. read[j] \in ReadRec /\ read[j] # Idle
      BY <3>1, ReadIsRec
    <3>3. /\ q.stage = "held" /\ q.s = read[j].s /\ q.p = read[j].p /\ q.start = read[j].start
          /\ q.length = read[j].length /\ q.data = read[j].data /\ q.err = read[j].err
      BY ZenonT(60), <3>2 DEF ReadRec
    <3> HIDE DEF q
    <3>4. ReadAnswer(q) = ReadAnswer(read[j])
      BY <3>1, <3>3 DEF ReadAnswer
    <3>5. QED
      BY <2>1, <3>1, <3>2, <3>3, <3>4
  <2>5. QED
    BY <2>2, <2>3, <2>4
<1>FinishReadIsAnswer.
  ASSUME ReadInv, RegInv, NEW j \in ReadJob, FinishRead(j)
  PROVE  BS!Next
  <2> USE <1>FinishReadIsAnswer
  <2> DEFINE r == read[j]
             q == [r EXCEPT !.stage = "posted"]
             held == seen[j]
             cells == Units(q.s, q.p, q.start, q.length)
  <2>1. /\ read' = [read EXCEPT ![j] = q] /\ UNCHANGED <<writeVars, hashVars, seen>>
        /\ r.stage = "reading" /\ (r.err \/ r.offset = r.end)
    BY DEF FinishRead
  <2>2. r \in ReadRec /\ r # Idle
    BY <2>1, ReadIsRec
  <2>3. /\ q \in ReadRec /\ q.stage = "posted" /\ q.s = r.s /\ q.p = r.p /\ q.start = r.start
        /\ q.length = r.length /\ q.offset = r.offset /\ q.end = r.end /\ q.err = r.err
    BY ZenonT(60), <2>2 DEF ReadRec
  <2>4. ReadSound(r, held, disk)
    BY <2>2 DEF RegInv, ReadSoundInv
  <2>5. ReadSound(q, held, disk)
    BY <2>2, <2>4, ReadStageSound
  <2> HIDE DEF q
  <2>6. /\ Contents' = Contents /\ Requests' = Requests /\ Histories' = Histories
        /\ Answers' = [Answers EXCEPT ![j] = ReadAnswer(q)] /\ Answers'[j] = ReadAnswer(q)
        /\ Requests[j] = cells /\ Answers[j] = ReadAnswer(r)
        /\ Histories[j] = GoodPart(held)
    BY <2>1, <2>2, <2>3, <1>ReadRecordChange
  <2>7. ReadAnswer(r) = BS!NoAnswer
    BY <2>1 DEF ReadAnswer, BS!NoAnswer
  <2>8. cells # {}
    <3>1. q.start \in q.start .. q.start + q.length - 1
      BY SMTT(60), SMTT(90), <2>3, <2>5 DEF ReadRec, ReadSound
    <3>2. <<q.s, q.p, q.start>> \in cells
      BY <3>1 DEF Units
    <3>3. QED
      BY <3>2
  <2>9. IF ReadAnswer(q) = BS!Error THEN cells \cap BadName # {}
        ELSE BS!IsAnswer(ReadAnswer(q), cells, GoodPart(held))
    <3>1. CASE q.err
      <4>1. ReadAnswer(q) = BS!Error
        BY <2>3, <3>1 DEF ReadAnswer, BS!Error
      <4>2. cells \cap BadName # {}
        BY <2>5, <3>1 DEF ReadSound
      <4>3. QED
        BY <4>1, <4>2
    <3>2. CASE ~q.err
      <4>1. BS!IsAnswer(ReadAnswer(q), cells, GoodPart(held))
        BY <2>1, <2>3, <2>5, <3>2, <1>ReadIsAnswered
      <4>2. ReadAnswer(q) # BS!Error
        BY SMTT(60), <4>1 DEF BS!IsAnswer, BS!Error
      <4>3. QED
        BY <4>1, <4>2
    <3>3. QED
      BY <3>1, <3>2
  <2>10. BS!Answer(j)
    <3>1. Answers' = [Answers EXCEPT ![j] = Answers'[j]]
      BY <2>6
    <3>2. QED
      BY <2>6, <2>7, <2>8, <2>9, <3>1 DEF BS!Answer
  <2>11. QED
    BY <2>10 DEF BS!Next
<1>FreeReadIsForget.
  ASSUME ReadInv, SeenInv, RegInv, NEW j \in ReadJob, FreeRead(j)
  PROVE  BS!Next
  <2> USE <1>FreeReadIsForget
  <2>1. /\ read' = [read EXCEPT ![j] = Idle] /\ seen' = [seen EXCEPT ![j] = {}] /\ read[j].stage = "held"
        /\ UNCHANGED <<writeVars, hashVars>>
    BY DEF FreeRead
  <2>2. /\ read'[j] = Idle /\ Idle.stage = "idle" /\ seen'[j] = {} /\ hash' = hash
        /\ \A k \in ReadJob : k # j => read'[k] = read[k]
        /\ \A k \in ReadJob \cup HashJob : k # j => seen'[k] = seen[k]
    BY <2>1 DEF ReadInv, SeenInv, Idle, hashVars
  <2>3. \A x \in Good : Current(x)' = Current(x)
    BY <2>1, CurrentKept
  <2>4. /\ Contents' = Contents
        /\ Requests' = [Requests EXCEPT ![j] = Requested(j)']
        /\ Histories' = [Histories EXCEPT ![j] = GoodPart(seen'[j])]
        /\ Answers' = [Answers EXCEPT ![j] = Answered(j)']
    BY <2>2, <2>3, JobChanged
  <2>5. Requested(j)' = {} /\ GoodPart(seen'[j]) = {} /\ Answered(j)' = BS!NoAnswer
    BY <2>2 DEF Requested, Answered, ReadAnswer, BS!NoAnswer, GoodPart
  <2>6. Answers[j] # BS!NoAnswer
    <3>1. Answered(j).kind \in {"error", "data"}
      BY <2>1 DEF Answered, ReadAnswer
    <3>2. QED
      BY SMTT(60), SMTT(90), <3>1, JobStands DEF BS!NoAnswer
  <2>7. BS!Forget(j)
    BY <2>4, <2>5, <2>6 DEF BS!Forget
  <2>8. QED
    BY <2>7 DEF BS!Next
<1> SUFFICES ASSUME ~TRANSFER_MAY_FAIL, IInv, RegInv, ReadAction
             PROVE  RegInv' /\ (BS!Next \/ UNCHANGED BS!vars)
  OBVIOUS
<1> USE DEF ReadAction
<1>0. WriteInv /\ ReadInv /\ HashInv /\ SeenInv
  BY DEF IInv
<1>1. CASE \E j \in ReadJob, c \in Cell, length \in 1 .. DEFAULT_BLOCK_SIZE :
             c[3] + length <= piece_size[c[2]] /\ async_read(j, c[1], c[2], c[3], length)
  BY <1>0, <1>1, <1>ReadCallRegular, <1>ReadIsAsk
<1>2. CASE StartRead
  <2>1. Head(read_queue) \in ReadJob
    BY SMTT(60), SMTT(90), <1>0, <1>2 DEF StartRead, ReadInv, Queued
  <2>2. QED
    BY <1>0, <1>2, <2>1, <1>ReadEndsRegular, <1>ReadStepIsSilent
<1>3. CASE \E j \in ReadJob : ReadStep(j) \/ HandleRead(j) \/ FreeRead(j)
  <2>1. PICK j \in ReadJob : ReadSlice(j) \/ FinishRead(j) \/ HandleRead(j) \/ FreeRead(j)
    BY <1>3 DEF ReadStep
  <2>2. RegInv'
    BY <1>0, <2>1, <1>ReadSliceRegular, <1>ReadEndsRegular
  <2>3. BS!Next \/ UNCHANGED BS!vars
    BY <1>0, <2>1, <1>ReadStepIsSilent, <1>FinishReadIsAnswer, <1>FreeReadIsForget
  <2>4. QED
    BY <2>2, <2>3
<1>4. QED
  BY <1>1, <1>2, <1>3
==============================================================================
