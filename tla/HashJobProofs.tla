---------------------------- MODULE HashJobProofs ----------------------------
(***************************************************************************)
(* The steps of a hash preserve HashInv and ReadPoolInv, and RegInv: the   *)
(* hasher is fed every unit of the piece, in order, with a value that its  *)
(* cell has held since the call.  In BlockStore they ask, answer or forget.*)
(***************************************************************************)
EXTENDS WriteJobProofs

\* The provers a step is tried with, in this order, unless it names its own.  (SMT is
\* named twice since its translation of a step has a fixed time, whatever the limit.)
USE Zenon, SMTT(60), SMTT(90)

-----------------------------------------------------------------------------
(* The steps of hashes keep the invariant                                  *)

\* A call of async_hash and the steps of its job and of its handler preserve the
\* inductive invariant.
LEMMA HashStepIInv ==
  CountingFacts /\ IInv /\ HashAction => IInv'
<1>HashQueueKept.
  ASSUME HashInv, hash_queue' = hash_queue,
         \A k \in HashJob : hash[k].stage = "queued" => hash'[k] = hash[k]
  PROVE  Queued(hash_queue', hash')
  <2> USE <1>HashQueueKept
  <2>1. hash_queue \in Seq(HashJob) /\ Queued(hash_queue, hash)
    BY DEF HashInv
  <2>2. Queued(hash_queue, hash')
    BY SMTT(60), <2>1, QueueKept
  <2>3. QED
    BY <2>2
<1>HashCallStep.
  ASSUME HashInv, NEW j \in HashJob, NEW s \in Storage, NEW p \in Piece, async_hash(j, s, p)
  PROVE  HashInv'
  <2> USE <1>HashCallStep
  <2>1. PICK got \in BOOLEAN :
          /\ hash' = [hash EXCEPT ![j] =
               [stage |-> IF got THEN "queued" ELSE "posted", s |-> s, p |-> p, i |-> 0,
                offset |-> 0, from |-> 0, end |-> 0, ph |-> <<>>, err |-> ~got, buf |-> got]]
          /\ hash_queue' = IF got THEN Append(hash_queue, j) ELSE hash_queue
    BY ZenonT(60) DEF async_hash
  <2> DEFINE rec == [stage |-> IF got THEN "queued" ELSE "posted", s |-> s, p |-> p, i |-> 0,
                offset |-> 0, from |-> 0, end |-> 0, ph |-> <<>>, err |-> ~got, buf |-> got]
  <2>2. hash[j] = Idle /\ Idle.stage = "idle"
    BY DEF async_hash, Idle
  <2>3. rec \in HashRec
    <3>1. <<>> \in Seq(Nat \X Val) /\ (~got) \in BOOLEAN
      OBVIOUS
    <3>2. QED
      BY <3>1 DEF HashRec
  <2>4. HashInRange(rec)
    BY DEF HashInRange
  <2>5. /\ hash' \in [HashJob -> HashRec \cup {Idle}] /\ hash'[j] = rec
        /\ \A k \in HashJob : k # j => hash'[k] = hash[k]
    BY <2>1, <2>3 DEF HashInv
  <2>6. hash_queue' \in Seq(HashJob) /\ Queued(hash_queue', hash')
    <3>1. hash_queue \in Seq(HashJob) /\ Queued(hash_queue, hash)
      BY DEF HashInv
    <3>2. CASE got
      <4>1. hash_queue' = Append(hash_queue, j) /\ hash'[j].stage = "queued"
        BY <2>1, <2>5, <3>2
      <4> HIDE DEF rec
      <4>2. QED
        BY <2>2, <2>5, <3>1, <4>1, QueueAppend
    <3>3. CASE ~got
      <4>1. \A k \in HashJob : hash[k].stage = "queued" => hash'[k] = hash[k]
        BY <2>2, <2>5
      <4>2. hash_queue' = hash_queue
        BY <2>1, <3>3
      <4>3. QED
        BY <3>1, <4>1, <4>2, <1>HashQueueKept
    <3>4. QED
      BY <3>2, <3>3
  <2> HIDE DEF rec
  <2>7. QED
    BY <2>4, <2>5, <2>6 DEF HashInv
<1>StartHashStep. HashInv /\ StartHash => HashInv'
  <2> SUFFICES ASSUME HashInv, StartHash
               PROVE  HashInv'
    OBVIOUS
  <2> DEFINE j == Head(hash_queue)
  <2>1. /\ hash_queue # <<>> /\ hash_queue' = Tail(hash_queue)
        /\ hash' = [hash EXCEPT ![j].stage = "hashing"]
    BY DEF StartHash
  <2>2. \A k \in HashJob : k # j => hash'[k] = hash[k]
    BY <2>1 DEF HashInv
  <2>3. /\ j \in HashJob /\ hash[j].stage = "queued"
        /\ hash_queue' \in Seq(HashJob) /\ Queued(hash_queue', hash')
    BY ZenonT(60), <2>1, <2>2, QueueTail DEF HashInv
  <2> HIDE DEF j
  <2>4. hash[j] \in HashRec /\ HashInRange(hash[j])
    BY <2>3, HashIsRec
  <2>5. hash[j].i = 0 /\ hash[j].offset = 0
    BY <2>3, <2>4 DEF HashInRange
  <2>6. /\ hash'[j] \in HashRec /\ hash'[j].stage = "hashing"
        /\ hash'[j].i = 0 /\ hash'[j].offset = 0
    BY ZenonT(60), <2>1, <2>3, <2>4, <2>5 DEF HashRec, HashInv
  <2>7. HashInRange(hash'[j])
    BY SMTT(60), <2>6, IOAssumption DEF HashInRange
  <2>8. hash' \in [HashJob -> HashRec \cup {Idle}]
    BY ZenonT(60), <2>1, <2>6 DEF HashInv
  <2>9. QED
    BY <2>2, <2>3, <2>7, <2>8 DEF HashInv
\* Steps of a hash that is in a thread's hands or handled.
<1>HashingStep.
  ASSUME HashInv, NEW j \in HashJob, hash[j].stage # "queued", UNCHANGED hash_queue,
         hash' = [hash EXCEPT ![j] = hash'[j]],
         hash'[j] = Idle \/ (hash'[j] \in HashRec /\ HashInRange(hash'[j]))
  PROVE  HashInv'
  <2> USE <1>HashingStep
  <2>1. \A k \in HashJob : k # j => hash'[k] = hash[k]
    BY DEF HashInv
  <2>2. Queued(hash_queue', hash')
    BY <2>1, <1>HashQueueKept
  <2>3. hash' \in [HashJob -> HashRec \cup {Idle}]
    BY DEF HashInv
  <2>4. QED
    BY <2>1, <2>2, <2>3 DEF HashInv
<1>AddBounds.
  ASSUME NEW o \in Nat, NEW l \in Nat, NEW m \in Nat, NEW b \in Nat, o <= m, l <= b
  PROVE  o + l \in Nat /\ o + l <= m + b /\ (l > 0 => o < o + l)
  BY <1>AddBounds
<1>NextUnit.
  ASSUME NEW a \in Nat, NEW b \in Nat, NEW m \in Nat, a < b, b <= m
  PROVE  a + 1 \in Nat /\ a + 1 <= b /\ a <= m
  BY <1>NextUnit
<1>HashBlockStep.
  ASSUME WriteInv, HashInv, NEW j \in HashJob, HashBlock(j)
  PROVE  HashInv'
  <2> USE <1>HashBlockStep
  <2> DEFINE h == hash[j]
             loc == SB!torrent_location(h.s, h.p, h.offset)
             len == BlockLength(h.p, h.offset)
             v == write[SB!get(loc)].val
             fed == [n \in 1 .. len |-> <<h.offset + n - 1, v>>]
             B == DEFAULT_BLOCK_SIZE
  <2>1. /\ h \in HashRec /\ HashInRange(h) /\ h.stage = "hashing" /\ h.i < blocks_in_piece(h.p)
    BY HashIsRec DEF HashBlock
  <2>2. /\ UNCHANGED hash_queue
        /\ hash' = [hash EXCEPT ![j] =
             IF loc \in Location /\ SB!hit(loc)
             THEN [h EXCEPT !.i = @ + 1, !.offset = @ + len, !.ph = @ \o fed]
             ELSE [h EXCEPT !.stage = "reading", !.from = h.offset, !.end = h.offset + len]]
    BY DEF HashBlock
  <2>3. hash' = [hash EXCEPT ![j] = hash'[j]]
    BY <2>2 DEF HashInv
  <2>4. /\ h.p \in Piece /\ h.i \in Nat /\ h.offset \in Nat /\ h.ph \in Seq(Nat \X Val)
        /\ piece_size[h.p] \in Nat /\ B \in Nat
    BY <2>1, IOAssumption DEF HashRec
  <2>5. /\ h.offset <= B * h.i /\ B * h.i < piece_size[h.p] /\ B * h.i \in Nat
        /\ B * (h.i + 1) = B * h.i + B
    BY ZenonT(60), <2>1, <2>4, BlocksInPiece DEF HashInRange
  <2>6. len \in Nat /\ len > 0 /\ len <= B /\ h.offset + len <= piece_size[h.p]
    <3> DEFINE m == B * h.i
    <3>1. m \in Nat /\ h.offset <= m /\ m < piece_size[h.p]
      BY <2>5
    <3> HIDE DEF m
    <3>2. h.offset < piece_size[h.p]
      BY SMTT(60), <2>4, <3>1
    <3>3. QED
      BY <2>4, <3>2, BlockInPiece
  <2> HIDE DEF len, B
  <2>7. CASE loc \in Location /\ SB!hit(loc)
    <3>1. v \in Val
      BY <2>7, HitIsValue
    <3> HIDE DEF v
    <3>2. fed \in Seq(Nat \X Val)
      <4>1. \A n \in 1 .. len : <<h.offset + n - 1, v>> \in Nat \X Val
        BY SMTT(60), <2>4, <2>6, <3>1
      <4>2. QED
        BY SMTT(60), <4>1, <2>6
    <3> DEFINE i1 == h.i + 1
               o1 == h.offset + len
               ph1 == h.ph \o fed
    <3>3. i1 \in Nat /\ o1 \in Nat /\ ph1 \in Seq(Nat \X Val) /\ o1 <= B * i1
      <4>1. ph1 \in Seq(Nat \X Val)
        BY SMTT(60), <2>4, <3>2
      <4>2. o1 \in Nat /\ o1 <= B * h.i + B
        BY <2>4, <2>5, <2>6, <1>AddBounds
      <4>3. B * i1 = B * h.i + B
        BY <2>5
      <4>4. i1 \in Nat
        BY SMTT(60), <2>4
      <4> HIDE DEF i1, o1, ph1
      <4>5. QED
        BY <4>1, <4>2, <4>3, <4>4
    <3>4. hash'[j] = [h EXCEPT !.i = i1, !.offset = o1, !.ph = ph1]
      BY <2>2, <2>7 DEF HashInv
    <3> HIDE DEF i1, o1, ph1, h
    <3>5. /\ hash'[j] \in HashRec /\ hash'[j].i = i1 /\ hash'[j].offset = o1
          /\ hash'[j].stage = "hashing"
      BY ZenonT(60), <2>1, <3>3, <3>4 DEF HashRec
    <3>6. HashInRange(hash'[j])
      BY <3>3, <3>5 DEF HashInRange, B
    <3>7. QED
      BY ZenonT(60), <2>1, <2>2, <2>3, <3>5, <3>6, <1>HashingStep DEF h
  <2>8. CASE ~(loc \in Location /\ SB!hit(loc))
    <3> DEFINE e1 == h.offset + len
    <3>1. e1 \in Nat /\ h.offset < e1 /\ e1 <= piece_size[h.p] /\ e1 <= B * h.i + B
      <4>1. e1 \in Nat /\ h.offset < e1 /\ e1 <= B * h.i + B
        BY ZenonT(60), <2>4, <2>5, <2>6, <1>AddBounds
      <4>2. QED
        BY <2>6, <4>1
    <3>2. hash'[j] = [h EXCEPT !.stage = "reading", !.from = h.offset, !.end = e1]
      BY <2>2, <2>8 DEF HashInv
    <3> HIDE DEF e1, h
    <3>3. /\ hash'[j] \in HashRec /\ hash'[j].stage = "reading" /\ hash'[j].end = e1
          /\ hash'[j].offset = h.offset /\ hash'[j].i = h.i /\ hash'[j].p = h.p
      BY ZenonT(60), <2>1, <2>4, <3>1, <3>2 DEF HashRec
    <3>4. HashInRange(hash'[j])
      BY <3>1, <3>3 DEF HashInRange, B
    <3>5. QED
      BY ZenonT(60), <2>1, <2>2, <2>3, <3>3, <3>4, <1>HashingStep DEF h
  <2>9. QED
    BY <2>7, <2>8
<1>HashSliceStep.
  ASSUME WriteInv, HashInv, NEW j \in HashJob, HashSlice(j)
  PROVE  HashInv'
  <2> USE <1>HashSliceStep
  <2> DEFINE h == hash[j]
             c == <<h.s, h.p, h.offset>>
             B == DEFAULT_BLOCK_SIZE
             m == B * h.i
  <2>1. /\ h \in HashRec /\ HashInRange(h) /\ h.stage = "reading"
    BY HashIsRec DEF HashSlice
  <2>2. PICK v \in Loaded(c) :
        /\ UNCHANGED hash_queue
        /\ hash' = [hash EXCEPT ![j] =
             IF c \in BadName
             THEN [h EXCEPT !.err = TRUE, !.stage = "hashing",
                     !.i = IF h.offset = h.from THEN blocks_in_piece(h.p) ELSE @ + 1]
             ELSE [h EXCEPT !.ph = Append(@, <<h.offset, v>>), !.offset = @ + 1,
                     !.stage = IF h.offset + 1 = h.end THEN "hashing" ELSE @,
                     !.i = IF h.offset + 1 = h.end THEN @ + 1 ELSE @]]
    BY DEF HashSlice
  <2>3. hash' = [hash EXCEPT ![j] = hash'[j]]
    BY <2>2 DEF HashInv
  <2>4. /\ h.s \in Storage /\ h.p \in Piece /\ h.i \in Nat /\ h.offset \in Nat /\ h.end \in Nat
        /\ h.ph \in Seq(Nat \X Val) /\ piece_size[h.p] \in Nat /\ B \in Nat
    BY <2>1, IOAssumption DEF HashRec
  <2>5. /\ h.offset < h.end /\ h.end <= piece_size[h.p] /\ h.end <= m + B
        /\ m \in Nat /\ B * (h.i + 1) = m + B /\ blocks_in_piece(h.p) \in Nat
    BY ZenonT(60), <2>1, <2>4, BlocksInPiece DEF HashInRange
  <2> HIDE DEF m, B
  <2>6. v \in Val
    <3>1. h.offset < piece_size[h.p]
      BY SMTT(60), SMTT(90), <2>4, <2>5
    <3>2. c \in Cell
      BY <2>4, <3>1, CellForm
    <3>3. QED
      BY <3>2 DEF WriteInv, WriteTypes, Loaded
  <2>7. h.offset + 1 \in Nat /\ h.offset + 1 <= h.end /\ h.offset <= m + B /\ h.i + 1 \in Nat
    <3>1. m + B \in Nat /\ h.i + 1 \in Nat
      BY SMTT(60), SMTT(90), <2>4, <2>5
    <3>2. QED
      BY <2>4, <2>5, <3>1, <1>NextUnit
  <2>8. CASE c \in BadName
    <3> DEFINE i1 == IF h.offset = h.from THEN blocks_in_piece(h.p) ELSE h.i + 1
    <3>1. i1 \in Nat /\ (i1 < blocks_in_piece(h.p) => h.offset <= B * i1)
      <4>1. CASE h.offset = h.from
        BY SMTT(60), <2>5, <4>1
      <4>2. CASE h.offset # h.from
        BY <2>5, <2>7, <4>2
      <4>3. QED
        BY <4>1, <4>2
    <3>2. hash'[j] = [h EXCEPT !.err = TRUE, !.stage = "hashing", !.i = i1]
      BY <2>2, <2>8 DEF HashInv
    <3> HIDE DEF i1, h
    <3>3. /\ hash'[j] \in HashRec /\ hash'[j].stage = "hashing" /\ hash'[j].i = i1
          /\ hash'[j].offset = h.offset /\ hash'[j].p = h.p
      BY ZenonT(60), <2>1, <3>1, <3>2 DEF HashRec
    <3>4. HashInRange(hash'[j])
      BY <3>1, <3>3 DEF HashInRange, B
    <3>5. QED
      BY ZenonT(60), <2>1, <2>2, <2>3, <3>3, <3>4, <1>HashingStep DEF h
  <2>9. CASE c \notin BadName
    <3> DEFINE last == h.offset + 1 = h.end
               i1 == IF last THEN h.i + 1 ELSE h.i
               st1 == IF last THEN "hashing" ELSE "reading"
               o1 == h.offset + 1
               ph1 == Append(h.ph, <<h.offset, v>>)
    <3>1. ph1 \in Seq(Nat \X Val) /\ o1 \in Nat
      BY SMTT(60), <2>4, <2>6
    <3>2. hash'[j] = [h EXCEPT !.ph = ph1, !.offset = o1, !.stage = st1, !.i = i1]
      BY <2>1, <2>2, <2>9 DEF HashInv
    <3>3. CASE last
      <4>1. hash'[j] = [h EXCEPT !.ph = ph1, !.offset = o1, !.stage = "hashing", !.i = h.i + 1]
        BY <3>2, <3>3
      <4>2. o1 <= B * (h.i + 1)
        BY <2>5, <3>3
      <4> HIDE DEF ph1, o1, h
      <4>3. /\ hash'[j] \in HashRec /\ hash'[j].stage = "hashing" /\ hash'[j].i = h.i + 1
            /\ hash'[j].offset = o1
        BY ZenonT(60), <2>1, <2>7, <3>1, <4>1 DEF HashRec
      <4>4. HashInRange(hash'[j])
        BY <4>2, <4>3 DEF HashInRange, B
      <4>5. QED
        BY ZenonT(60), <2>1, <2>2, <2>3, <4>3, <4>4, <1>HashingStep DEF h
    <3>4. CASE ~last
      <4>1. hash'[j] = [h EXCEPT !.ph = ph1, !.offset = o1, !.stage = "reading", !.i = h.i]
        BY <3>2, <3>4
      <4>2. o1 < h.end
        BY SMTT(60), <2>4, <2>7, <3>4
      <4> HIDE DEF ph1, o1, h
      <4>3. /\ hash'[j] \in HashRec /\ hash'[j].stage = "reading" /\ hash'[j].i = h.i
            /\ hash'[j].offset = o1 /\ hash'[j].end = h.end /\ hash'[j].p = h.p
        BY ZenonT(60), <2>1, <2>4, <3>1, <4>1 DEF HashRec
      <4>4. HashInRange(hash'[j])
        BY <2>5, <4>2, <4>3 DEF HashInRange, B, m
      <4>5. QED
        BY ZenonT(60), <2>1, <2>2, <2>3, <4>3, <4>4, <1>HashingStep DEF h
    <3>5. QED
      BY <3>3, <3>4
  <2>10. QED
    BY <2>8, <2>9
<1>HashEndsStep.
  ASSUME HashInv, NEW j \in HashJob, FinishHash(j) \/ FreeHash(j) \/ HandleHash(j)
  PROVE  HashInv'
  <2> USE <1>HashEndsStep
  <2> DEFINE h == hash[j]
  <2>1. h \in HashRec /\ HashInRange(h) /\ h.stage # "queued" /\ UNCHANGED hash_queue
    BY HashIsRec DEF FinishHash, FreeHash, HandleHash
  <2>2. hash'[j] = Idle \/ (hash'[j] \in HashRec /\ HashInRange(hash'[j]))
    <3>1. CASE FinishHash(j)
      <4>1. hash'[j] = [h EXCEPT !.stage = "posted"]
        BY <3>1 DEF FinishHash, HashInv
      <4> HIDE DEF h
      <4>2. hash'[j] \in HashRec /\ hash'[j].stage = "posted"
        BY <2>1, <4>1 DEF HashRec
      <4>3. QED
        BY <4>2 DEF HashInRange
    <3>2. CASE FreeHash(j)
      <4>1. /\ hash'[j] = IF h.stage = "handled" THEN Idle ELSE [h EXCEPT !.buf = FALSE]
            /\ h.stage \in {"posted", "handled"}
        BY <3>2 DEF FreeHash, HashInv
      <4> HIDE DEF h
      <4>2. CASE h.stage = "handled"
        BY <4>1, <4>2
      <4>3. CASE h.stage = "posted"
        <5>1. hash'[j] = [h EXCEPT !.buf = FALSE]
          BY <4>1, <4>3
        <5>2. hash'[j] \in HashRec /\ hash'[j].stage = "posted"
          BY ZenonT(60), <2>1, <4>3, <5>1 DEF HashRec
        <5>3. QED
          BY <5>2 DEF HashInRange
      <4>4. QED
        BY <4>1, <4>2, <4>3
    <3>3. CASE HandleHash(j)
      <4>1. hash'[j] = IF h.buf THEN [h EXCEPT !.stage = "handled"] ELSE Idle
        BY <3>3 DEF HandleHash, HashInv
      <4> HIDE DEF h
      <4>2. CASE h.buf
        <5>1. hash'[j] = [h EXCEPT !.stage = "handled"]
          BY <4>1, <4>2
        <5>2. hash'[j] \in HashRec /\ hash'[j].stage = "handled"
          BY <2>1, <5>1 DEF HashRec
        <5>3. QED
          BY <5>2 DEF HashInRange
      <4>3. CASE ~h.buf
        BY <4>1, <4>3
      <4>4. QED
        BY <4>2, <4>3
    <3>4. QED
      BY <3>1, <3>2, <3>3
  <2>3. hash' = [hash EXCEPT ![j] = hash'[j]]
    BY DEF FinishHash, FreeHash, HandleHash, HashInv
  <2>4. QED
    BY <2>1, <2>2, <2>3, <1>HashingStep
<1>HashHoldersKept.
  ASSUME NEW j \in HashJob, hash[j] # Idle, hash'[j].stage # "idle", hash'[j].buf = hash[j].buf,
         \A k \in HashJob : k # j => hash'[k] = hash[k]
  PROVE  HashHolders' = HashHolders
  <2> USE <1>HashHoldersKept
  <2>1. hash'[j] # Idle
    BY DEF Idle
  <2>2. QED
    BY <2>1 DEF HashHolders
<1>HashCallPool.
  ASSUME CountingFacts, HashInv, ReadPoolInv, NEW j \in HashJob, NEW s, NEW p, async_hash(j, s, p)
  PROVE  ReadPoolInv'
  <2> USE <1>HashCallPool
  <2>1. ReadHolders' = ReadHolders
    BY DEF async_hash, readVars, ReadHolders
  <2>2. PICK got \in BOOLEAN :
          /\ RP!allocate_buffer(got)
          /\ hash' = [hash EXCEPT ![j] =
               [stage |-> IF got THEN "queued" ELSE "posted", s |-> s, p |-> p, i |-> 0,
                offset |-> 0, from |-> 0, end |-> 0, ph |-> <<>>, err |-> ~got, buf |-> got]]
    BY ZenonT(60) DEF async_hash
  <2>3. /\ hash[j] = Idle /\ hash'[j] # Idle /\ hash'[j].buf = got
        /\ \A k \in HashJob : k # j => hash'[k] = hash[k]
    BY <2>2 DEF async_hash, Idle, HashInv
  <2>4. RP!PoolTypeOK' /\ r_size' = IF got THEN r_size + 1 ELSE r_size
    BY <2>2, AllocateTypes DEF ReadPoolInv
  <2>5. CASE got
    <3>1. HashHolders' = HashHolders \cup {j} /\ j \notin HashHolders
      <4>1. hash'[j].buf
        BY <2>3, <2>5
      <4>2. j \notin HashHolders
        BY <2>3 DEF HashHolders
      <4>3. HashHolders' = HashHolders \cup {j}
        BY <2>3, <4>1, <4>2 DEF HashHolders
      <4>4. QED
        BY <4>2, <4>3
    <3>2. Cardinality(HashHolders') = Cardinality(HashHolders) + 1
      BY <3>1, HoldersCounted DEF Counted
    <3>3. r_size' = r_size + 1
      BY <2>4, <2>5
    <3>4. r_size' = Cardinality(ReadHolders) + (Cardinality(HashHolders) + 1)
      BY SMTT(60), <3>3, HoldersCounted DEF ReadPoolInv, Counted
    <3>5. QED
      BY <2>1, <2>4, <3>2, <3>4 DEF ReadPoolInv
  <2>6. CASE ~got
    <3>1. HashHolders' = HashHolders
      BY <2>3, <2>6 DEF HashHolders
    <3>2. r_size' = r_size
      BY <2>4, <2>6
    <3>3. QED
      BY <2>1, <2>4, <3>1, <3>2 DEF ReadPoolInv
  <2>7. QED
    BY <2>5, <2>6
<1>HashStepPool.
  ASSUME HashInv, ReadPoolInv,
         \/ StartHash
         \/ \E j \in HashJob : HashBlock(j) \/ HashSlice(j) \/ FinishHash(j) \/ HandleHash(j)
  PROVE  ReadPoolInv'
  <2> USE <1>HashStepPool
  <2>1. UNCHANGED readPoolVars /\ ReadHolders' = ReadHolders
    BY ZenonT(60) DEF StartHash, HashBlock, HashSlice, FinishHash, HandleHash, readVars, ReadHolders
  <2>2. HashHolders' = HashHolders
    <3>1. CASE StartHash
      <4> DEFINE j == Head(hash_queue)
      <4>1. hash_queue # <<>> /\ hash' = [hash EXCEPT ![j].stage = "hashing"]
        BY <3>1 DEF StartHash
      <4>2. j \in HashJob /\ hash[j].stage = "queued"
        <5>1. 1 \in DOMAIN hash_queue /\ j = hash_queue[1] /\ j \in HashJob
          BY SMTT(60), <4>1 DEF HashInv
        <5>2. QED
          BY <5>1 DEF HashInv, Queued
      <4> HIDE DEF j
      <4>3. hash[j] \in HashRec /\ hash[j] # Idle
        BY <4>2, HashIsRec
      <4>4. /\ hash'[j].stage = "hashing" /\ hash'[j].buf = hash[j].buf
            /\ \A k \in HashJob : k # j => hash'[k] = hash[k]
        BY <4>1, <4>2, <4>3 DEF HashRec, HashInv
      <4>5. QED
        BY <4>2, <4>3, <4>4, <1>HashHoldersKept
    <3>2. ASSUME NEW j \in HashJob, HashBlock(j) \/ HashSlice(j) \/ FinishHash(j) \/ HandleHash(j)
          PROVE  HashHolders' = HashHolders
      <4>1. hash[j] \in HashRec /\ hash[j] # Idle /\ hash[j].stage \in {"hashing", "reading", "posted"}
        BY ZenonT(60), <3>2, HashIsRec DEF HashBlock, HashSlice, FinishHash, HandleHash
      <4>2. \A k \in HashJob : k # j => hash'[k] = hash[k]
        BY ZenonT(60), <3>2 DEF HashBlock, HashSlice, FinishHash, HandleHash, HashInv
      <4>3. CASE HashBlock(j)
        <5>1. hash'[j].stage \in {"hashing", "reading"} /\ hash'[j].buf = hash[j].buf
          BY ZenonT(60), <4>1, <4>3 DEF HashBlock, HashRec, HashInv
        <5>2. QED
          BY <4>1, <4>2, <5>1, <1>HashHoldersKept
      <4>4. CASE HashSlice(j)
        <5>1. hash'[j].stage \in {"hashing", "reading"} /\ hash'[j].buf = hash[j].buf
          <6> DEFINE h == hash[j]
          <6>1. PICK v : hash'[j] =
                  IF <<h.s, h.p, h.offset>> \in BadName
                  THEN [h EXCEPT !.err = TRUE, !.stage = "hashing",
                          !.i = IF h.offset = h.from THEN blocks_in_piece(h.p) ELSE @ + 1]
                  ELSE [h EXCEPT !.ph = Append(@, <<h.offset, v>>), !.offset = @ + 1,
                          !.stage = IF h.offset + 1 = h.end THEN "hashing" ELSE @,
                          !.i = IF h.offset + 1 = h.end THEN @ + 1 ELSE @]
            BY <4>4 DEF HashSlice, HashInv
          <6>2. h.stage = "reading"
            BY <4>4 DEF HashSlice
          <6> HIDE DEF h
          <6>3. QED
            BY ZenonT(60), <4>1, <6>1, <6>2 DEF HashRec, h
        <5>2. QED
          BY <4>1, <4>2, <5>1, <1>HashHoldersKept
      <4>5. CASE FinishHash(j)
        <5>1. hash'[j].stage = "posted" /\ hash'[j].buf = hash[j].buf
          BY <4>1, <4>5 DEF FinishHash, HashRec, HashInv
        <5>2. QED
          BY <4>1, <4>2, <5>1, <1>HashHoldersKept
      <4>6. CASE HandleHash(j)
        <5>1. CASE hash[j].buf
          <6>1. hash'[j] = [hash[j] EXCEPT !.stage = "handled"]
            BY <4>6, <5>1 DEF HandleHash, HashInv
          <6>2. hash'[j].stage = "handled" /\ hash'[j].buf = hash[j].buf
            BY <4>1, <6>1 DEF HashRec
          <6>3. QED
            BY <4>1, <4>2, <6>2, <1>HashHoldersKept
        <5>2. CASE ~hash[j].buf
          <6>1. hash'[j] = Idle
            BY <4>6, <5>2 DEF HandleHash, HashInv
          <6>2. QED
            BY <4>2, <5>2, <6>1 DEF HashHolders
        <5>3. QED
          BY <5>1, <5>2
      <4>7. QED
        BY <3>2, <4>3, <4>4, <4>5, <4>6
    <3>3. QED
      BY <3>1, <3>2
  <2>3. QED
    BY <2>1, <2>2, ReadPoolKept
<1>FreeHashPool.
  ASSUME CountingFacts, HashInv, ReadPoolInv, NEW j \in HashJob, FreeHash(j)
  PROVE  ReadPoolInv'
  <2> USE <1>FreeHashPool
  <2>1. ReadHolders' = ReadHolders
    BY DEF FreeHash, readVars, ReadHolders
  <2>2. hash[j] \in HashRec /\ hash[j] # Idle /\ hash[j].buf
    BY HashIsRec DEF FreeHash
  <2>3. /\ hash'[j] = Idle \/ ~hash'[j].buf
        /\ \A k \in HashJob : k # j => hash'[k] = hash[k]
    BY <2>2 DEF FreeHash, HashInv, HashRec
  <2>4. HashHolders' = HashHolders \ {j} /\ j \in HashHolders
    BY <2>2, <2>3 DEF HashHolders
  <2>5. /\ Cardinality(HashHolders') = Cardinality(HashHolders) - 1
        /\ Cardinality(HashHolders) > 0
    BY <2>4, HoldersCounted DEF Counted
  <2>6. r_size > 0
    BY SMTT(60), <2>5, HoldersCounted DEF ReadPoolInv, Counted
  <2>7. RP!PoolTypeOK' /\ r_size' = r_size - 1
    BY <2>6, FreeTypes DEF FreeHash, ReadPoolInv
  <2>8. QED
    BY SMTT(60), <2>1, <2>5, <2>7, HoldersCounted DEF ReadPoolInv, Counted
<1>HashCallSeen.
  ASSUME WriteInv, SeenInv, NEW j \in HashJob, NEW s \in Storage, NEW p \in Piece, async_hash(j, s, p)
  PROVE  SeenInv'
  <2> USE <1>HashCallSeen
  <2>1. piece_size[p] \in Nat /\ 0 + piece_size[p] <= piece_size[p]
    BY SMTT(60), IOAssumption
  <2>2. Now(Units(s, p, 0, piece_size[p])) \in SUBSET (Cell \X Val)
    BY <2>1, UnitsAreCells, NowTypes
  <2>3. PICK x \in {Now(Units(s, p, 0, piece_size[p])), {}} : seen' = [seen EXCEPT ![j] = x]
    BY ZenonT(60) DEF async_hash
  <2>4. QED
    BY <2>2, <2>3 DEF SeenInv
<1> SUFFICES ASSUME CountingFacts, IInv, HashAction
             PROVE  IInv'
  OBVIOUS
<1> USE DEF IInv, HashAction
<1>1. UNCHANGED <<poolVars, writeVars, readVars>>
  BY ZenonT(60) DEF async_hash, StartHash, HashStep, HashBlock, HashSlice, FinishHash, FreeHash, HandleHash
<1>2. WriteInv' /\ ReadInv'
  BY <1>1, WriteStutter, ReadStutter
<1>3. HashInv'
  BY <1>HashCallStep, <1>StartHashStep, <1>HashBlockStep, <1>HashSliceStep, <1>HashEndsStep DEF HashStep
<1>4. ReadPoolInv'
  BY <1>HashCallPool, <1>HashStepPool, <1>FreeHashPool DEF HashStep
<1>5. SeenInv'
  <2>1. CASE \E j \in HashJob, s \in Storage, p \in Piece : async_hash(j, s, p)
    BY <2>1, <1>HashCallSeen
  <2>2. CASE \E j \in HashJob : FreeHash(j) \/ HandleHash(j)
    BY <2>2, ForgetSeen
  <2>3. CASE UNCHANGED seen
    BY <2>3 DEF SeenInv
  <2>4. QED
    BY ZenonT(60), <2>1, <2>2, <2>3 DEF StartHash, HashStep, HashBlock, HashSlice, FinishHash
<1>6. QED
  BY <1>2, <1>3, <1>4, <1>5

-----------------------------------------------------------------------------
(* What is hashed                                                          *)

\* What one step of a hash job leaves: the other jobs and the piece it is about.
HashOnly(j) ==
  /\ hash' = [hash EXCEPT ![j] = hash'[j]] /\ hash[j] # Idle /\ hash'[j].stage # "idle"
  /\ hash'[j].s = hash[j].s /\ hash'[j].p = hash[j].p
  /\ UNCHANGED <<writeVars, readVars, seen>>

\* A job that passes on its way, or gives its buffer back, without hashing.
LEMMA HashStageSound ==
  ASSUME NEW h, NEW q, NEW held, NEW d, HashSound(h, held, d),
         q.s = h.s, q.p = h.p, q.i = h.i, q.offset = h.offset, q.ph = h.ph, q.err = h.err,
         \/ h.stage = "queued" /\ q.stage = "hashing"
         \/ q.stage \in {"posted", "handled"}
  PROVE  HashSound(q, held, d)
  BY DEF HashSound

\* One more unit, or one more block, for the hasher.
LEMMA FedUnit ==
  ASSUME NEW ph \in Seq(Nat \X Val), NEW s, NEW p, NEW offset \in Nat, NEW held, Fed(ph, s, p, offset, held),
         NEW v \in Val, <<s, p, offset>> \in Good => <<<<s, p, offset>>, v>> \in held
  PROVE  Fed(Append(ph, <<offset, v>>), s, p, offset + 1, held)
<1> DEFINE ph1 == Append(ph, <<offset, v>>)
<1>1. /\ Len(ph) = offset
      /\ Len(ph1) = offset + 1 /\ ph1[offset + 1] = <<offset, v>>
      /\ \A n \in 1 .. offset : ph1[n] = ph[n]
  BY SMTT(60) DEF Fed
<1> HIDE DEF ph1
<1>2. ASSUME NEW n \in 1 .. offset + 1
      PROVE  /\ ph1[n][1] = n - 1 /\ ph1[n][2] \in Val
             /\ <<s, p, n - 1>> \in Good => <<<<s, p, n - 1>>, ph1[n][2]>> \in held
  <2>1. CASE n = offset + 1
    <3>1. n - 1 = offset
      BY <2>1
    <3>2. ph1[n][1] = offset /\ ph1[n][2] = v
      BY SMTT(60), <1>1, <2>1
    <3>3. QED
      BY <3>1, <3>2
  <2>2. CASE n # offset + 1
    <3>1. n \in 1 .. offset
      BY <2>2
    <3>2. QED
      BY <1>1, <3>1 DEF Fed
  <2>3. QED
    BY <2>1, <2>2
<1>3. QED
  BY <1>1, <1>2 DEF Fed, ph1

\* The entries of a concatenation are those of its parts.
LEMMA Concatenated ==
  ASSUME NEW S, NEW a \in Seq(S), NEW b \in Seq(S)
  PROVE  /\ Len(a \o b) = Len(a) + Len(b)
         /\ \A n \in 1 .. Len(a) : (a \o b)[n] = a[n]
         /\ \A n \in Len(a) + 1 .. Len(a) + Len(b) : (a \o b)[n] = b[n - Len(a)]
  OBVIOUS

\* A block that is fed to the hasher from the store buffer is the next units of the piece.
LEMMA FedBlock ==
  ASSUME NEW ph \in Seq(Nat \X Val), NEW s, NEW p, NEW offset \in Nat, NEW held, Fed(ph, s, p, offset, held),
         NEW v \in Val, NEW len \in Nat,
         \A u \in offset .. offset + len - 1 : <<s, p, u>> \in Good => <<<<s, p, u>>, v>> \in held
  PROVE  Fed(ph \o [n \in 1 .. len |-> <<offset + n - 1, v>>], s, p, offset + len, held)
<1> DEFINE fed == [n \in 1 .. len |-> <<offset + n - 1, v>>]
           ph1 == ph \o fed
<1>1. fed \in Seq(Nat \X Val) /\ Len(fed) = len
  <2>1. \A n \in 1 .. len : <<offset + n - 1, v>> \in Nat \X Val
    OBVIOUS
  <2>2. QED
    BY <2>1
<1>2. \A n \in 1 .. len : fed[n] = <<offset + n - 1, v>>
  OBVIOUS
<1> HIDE DEF fed
<1>3. /\ Len(ph) = offset
      /\ Len(ph1) = offset + len
      /\ \A n \in 1 .. offset : ph1[n] = ph[n]
      /\ \A n \in offset + 1 .. offset + len : ph1[n] = fed[n - offset]
  <2>1. Len(ph) = offset
    BY DEF Fed
  <2>2. /\ Len(ph1) = Len(ph) + Len(fed)
        /\ \A n \in 1 .. Len(ph) : ph1[n] = ph[n]
        /\ \A n \in Len(ph) + 1 .. Len(ph) + Len(fed) : ph1[n] = fed[n - Len(ph)]
    BY <1>1, Concatenated
  <2> HIDE DEF ph1
  <2>3. QED
    BY <1>1, <2>1, <2>2
<1> HIDE DEF ph1
<1>4. ASSUME NEW n \in 1 .. offset + len
      PROVE  /\ ph1[n][1] = n - 1 /\ ph1[n][2] \in Val
             /\ <<s, p, n - 1>> \in Good => <<<<s, p, n - 1>>, ph1[n][2]>> \in held
  <2>1. CASE n > offset
    <3>1. n - offset \in 1 .. len /\ n \in offset + 1 .. offset + len
      BY SMTT(60), <2>1
    <3>2. ph1[n] = <<offset + (n - offset) - 1, v>>
      BY <1>2, <1>3, <3>1
    <3>3. offset + (n - offset) - 1 = n - 1 /\ n - 1 \in offset .. offset + len - 1
      BY <2>1
    <3>4. ph1[n] = <<n - 1, v>>
      BY <3>2, <3>3
    <3>5. QED
      BY <3>3, <3>4
  <2>2. CASE ~(n > offset)
    <3>1. n \in 1 .. offset
      BY <2>2
    <3>2. QED
      BY <1>3, <3>1 DEF Fed
  <2>3. QED
    BY <2>1, <2>2
<1>5. QED
  BY <1>3, <1>4 DEF Fed, ph1, fed

\* The loop over the blocks of a piece gets to the end of each of them, and to the
\* end of the piece.
LEMMA AfterNextBlock ==
  ASSUME NEW s \in Storage, NEW p \in Piece, NEW i \in Nat, NEW offset \in Nat,
         i < blocks_in_piece(p), AfterBlocks(p, i, offset)
  PROVE  /\ <<s, p, offset>> \in Location
         /\ BlockLength(p, offset) \in Nat /\ offset + BlockLength(p, offset) <= piece_size[p]
         /\ AfterBlocks(p, i + 1, offset + BlockLength(p, offset))
<1> DEFINE B == DEFAULT_BLOCK_SIZE
           m == B * i
           m1 == B * (i + 1)
<1>1. B \in Nat \ {0} /\ piece_size[p] \in Nat
  BY IOAssumption
<1>2. m \in Nat /\ m < piece_size[p] /\ m1 = m + B
  BY BlocksInPiece
<1>3. m % B = 0
  BY <1>1
<1>4. (offset = m /\ offset <= piece_size[p]) \/ (offset = piece_size[p] /\ m >= piece_size[p])
  BY DEF AfterBlocks
<1> HIDE DEF B, m, m1
<1>5. offset = m /\ offset < piece_size[p]
  BY SMTT(60), SMTT(90), <1>1, <1>2, <1>4
<1>6. <<s, p, offset>> \in Location
  <2>1. <<s, p, offset>> \in Cell
    BY <1>5, CellForm
  <2>2. QED
    BY <1>3, <1>5, <2>1 DEF Location, B
<1>7. /\ BlockLength(p, offset) \in Nat /\ offset + BlockLength(p, offset) <= piece_size[p]
  BY <1>5, BlockInPiece
<1>8. BlockLength(p, offset) = IF piece_size[p] - offset < B THEN piece_size[p] - offset ELSE B
  BY DEF BlockLength, B
<1>9. \/ offset + BlockLength(p, offset) = m1 /\ offset + BlockLength(p, offset) <= piece_size[p]
      \/ offset + BlockLength(p, offset) = piece_size[p] /\ m1 >= piece_size[p]
  BY SMTT(60), SMTT(90), <1>1, <1>2, <1>5, <1>8
<1>10. AfterBlocks(p, i + 1, offset + BlockLength(p, offset))
  BY <1>9 DEF AfterBlocks, m1, B
<1>11. QED
  BY <1>6, <1>7, <1>10

\* A hash that was just asked for, of what a request made now would see.
LEMMA HashCallSound ==
  ASSUME NEW s \in Storage, NEW p \in Piece, NEW h, h.stage = "queued", h.s = s, h.p = p, h.i = 0,
         h.offset = 0, h.ph = <<>>, ~h.err
  PROVE  HashSound(h, Now(Units(s, p, 0, piece_size[p])), disk)
<1> DEFINE cells == Units(s, p, 0, piece_size[p])
<1>1. Now(cells) = {} => piece_size[p] = 0
  <2> SUFFICES ASSUME piece_size[p] # 0
               PROVE  Now(cells) # {}
    OBVIOUS
  <2>1. 0 \in 0 .. 0 + piece_size[p] - 1
    BY SMTT(60), IOAssumption
  <2>2. <<s, p, 0>> \in cells
    BY <2>1 DEF Units
  <2>3. QED
    BY <2>2 DEF Now
<1>2. piece_size[p] = 0 => Now(cells) = {}
  <2> SUFFICES ASSUME piece_size[p] = 0
               PROVE  Now(cells) = {}
    OBVIOUS
  <2>1. 0 .. 0 + piece_size[p] - 1 = {}
    OBVIOUS
  <2>2. cells = {}
    BY <2>1 DEF Units
  <2>3. QED
    BY <2>2 DEF Now
<1>3. Fed(<<>>, s, p, 0, Now(cells))
  BY DEF Fed
<1>4. AfterBlocks(p, 0, 0)
  BY SMTT(60), IOAssumption DEF AfterBlocks
<1>5. QED
  BY <1>1, <1>2, <1>3, <1>4 DEF HashSound

\* Whatever held is: it has what a request made now would see of the piece.
LEMMA HashBlockSound ==
  ASSUME WriteInv, HashInv, NEW j \in HashJob, HashBlock(j), NEW held, HashSound(hash[j], held, disk),
         \A c \in Units(hash[j].s, hash[j].p, 0, piece_size[hash[j].p]) \cap Good : <<c, Current(c)>> \in held
  PROVE  /\ HashSound(hash'[j], held, disk) /\ HashOnly(j)
         /\ hash[j].stage = "hashing" /\ hash'[j].stage \in {"hashing", "reading"}
         /\ hash'[j].err = hash[j].err
<1> DEFINE h == hash[j]
           loc == SB!torrent_location(h.s, h.p, h.offset)
           len == BlockLength(h.p, h.offset)
           v == write[SB!get(loc)].val
           fed == [n \in 1 .. len |-> <<h.offset + n - 1, v>>]
<1>1. /\ h \in HashRec /\ h # Idle /\ h.stage = "hashing" /\ h.i < blocks_in_piece(h.p)
  BY HashIsRec DEF HashBlock
<1>2. /\ UNCHANGED <<writeVars, readVars, seen>>
      /\ hash' = [hash EXCEPT ![j] =
           IF loc \in Location /\ SB!hit(loc)
           THEN [h EXCEPT !.i = @ + 1, !.offset = @ + len, !.ph = @ \o fed]
           ELSE [h EXCEPT !.stage = "reading", !.from = h.offset, !.end = h.offset + len]]
  BY DEF HashBlock
<1>3. hash' = [hash EXCEPT ![j] = hash'[j]]
  BY <1>2 DEF HashInv
<1>4. /\ h.s \in Storage /\ h.p \in Piece /\ h.i \in Nat /\ h.offset \in Nat /\ h.ph \in Seq(Nat \X Val)
      /\ piece_size[h.p] \in Nat /\ loc = <<h.s, h.p, h.offset>>
  BY <1>1, IOAssumption DEF HashRec, SB!torrent_location
<1>5. HashSound(h, held, disk)
  OBVIOUS
<1>6. ~h.err => /\ Fed(h.ph, h.s, h.p, h.offset, held)
                /\ loc \in Location /\ len \in Nat
                /\ h.offset + len <= piece_size[h.p]
                /\ AfterBlocks(h.p, h.i + 1, h.offset + len)
  BY <1>1, <1>4, <1>5, AfterNextBlock DEF HashSound
<1>7. ASSUME ~h.err, NEW u \in h.offset .. h.offset + len - 1, <<h.s, h.p, u>> \in Good
      PROVE  /\ <<<<h.s, h.p, u>>, Current(<<h.s, h.p, u>>)>> \in held
             /\ Current(<<h.s, h.p, u>>) = IF SB!hit(loc) THEN v ELSE disk[<<h.s, h.p, u>>]
  <2>1. u \in 0 .. 0 + piece_size[h.p] - 1
    <3> DEFINE o == h.offset
               n == piece_size[h.p]
    <3>1. o \in Nat /\ n \in Nat /\ len \in Nat /\ o + len <= n /\ u \in o .. o + len - 1
      BY <1>4, <1>6, <1>7
    <3> HIDE DEF o, n, len
    <3>2. u \in 0 .. 0 + n - 1
      BY SMTT(60), <3>1
    <3>3. QED
      BY <3>2 DEF n
  <2>2. <<h.s, h.p, u>> \in Units(h.s, h.p, 0, piece_size[h.p])
    BY <2>1 DEF Units
  <2>3. <<<<h.s, h.p, u>>, Current(<<h.s, h.p, u>>)>> \in held
    BY <1>7, <2>2
  <2>4. QED
    BY <1>4, <1>6, <1>7, <2>3, UnitOfBlock
<1> HIDE DEF len
<1>8. CASE loc \in Location /\ SB!hit(loc)
  <2> DEFINE i1 == h.i + 1
             o1 == h.offset + len
             ph1 == h.ph \o fed
  <2>1. v \in Val
    BY <1>8, HitIsValue
  <2> HIDE DEF v
  <2>2. ~h.err => Fed(ph1, h.s, h.p, o1, held)
    BY <1>4, <1>6, <1>7, <1>8, <2>1, FedBlock
  <2>3. hash'[j] = [h EXCEPT !.i = i1, !.offset = o1, !.ph = ph1]
    BY <1>2, <1>8 DEF HashInv
  <2>4. ~h.err => AfterBlocks(h.p, i1, o1)
    BY <1>6
  <2> HIDE DEF i1, o1, ph1, h, loc
  <2>5. /\ hash'[j].i = i1 /\ hash'[j].offset = o1 /\ hash'[j].ph = ph1 /\ hash'[j].stage = "hashing"
        /\ hash'[j].s = h.s /\ hash'[j].p = h.p /\ hash'[j].err = h.err
    BY ZenonT(60), <1>1, <2>3 DEF HashRec
  <2>6. HashSound(hash'[j], held, disk)
    BY <1>1, <1>5, <2>2, <2>4, <2>5 DEF HashSound
  <2>7. QED
    BY <1>1, <1>2, <1>3, <2>5, <2>6 DEF h, HashOnly
<1>9. CASE ~(loc \in Location /\ SB!hit(loc))
  <2> DEFINE e1 == h.offset + len
  <2>1. hash'[j] = [h EXCEPT !.stage = "reading", !.from = h.offset, !.end = e1]
    BY <1>2, <1>9 DEF HashInv
  <2>2. ~h.err => /\ AfterBlocks(h.p, h.i + 1, e1)
                  /\ \A u \in h.offset .. e1 - 1 : <<h.s, h.p, u>> \in Good =>
                       <<<<h.s, h.p, u>>, disk[<<h.s, h.p, u>>]>> \in held
    <3> SUFFICES ASSUME ~h.err
                 PROVE  /\ AfterBlocks(h.p, h.i + 1, e1)
                        /\ \A u \in h.offset .. e1 - 1 : <<h.s, h.p, u>> \in Good =>
                             <<<<h.s, h.p, u>>, disk[<<h.s, h.p, u>>]>> \in held
      OBVIOUS
    <3>1. AfterBlocks(h.p, h.i + 1, e1) /\ ~SB!hit(loc)
      BY <1>6, <1>9
    <3>2. ASSUME NEW u \in h.offset .. h.offset + len - 1, <<h.s, h.p, u>> \in Good
          PROVE  <<<<h.s, h.p, u>>, disk[<<h.s, h.p, u>>]>> \in held
      BY <1>7, <3>1, <3>2
    <3>3. h.offset .. h.offset + len - 1 = h.offset .. e1 - 1
      <4> DEFINE o == h.offset
      <4>1. o \in Nat /\ len \in Nat
        BY <1>4, <1>6
      <4> HIDE DEF o
      <4>2. o + len - 1 = (o + len) - 1
        BY SMTT(60), <4>1
      <4>3. QED
        BY <4>2 DEF o
    <3>4. QED
      BY <3>1, <3>2, <3>3
  <2> HIDE DEF e1, h, loc
  <2>3. /\ hash'[j].i = h.i /\ hash'[j].offset = h.offset /\ hash'[j].ph = h.ph /\ hash'[j].stage = "reading"
        /\ hash'[j].s = h.s /\ hash'[j].p = h.p /\ hash'[j].err = h.err /\ hash'[j].end = e1
    BY ZenonT(60), <1>1, <2>1 DEF HashRec
  <2>4. HashSound(hash'[j], held, disk)
    BY <1>1, <1>5, <2>2, <2>3 DEF HashSound
  <2>5. QED
    BY <1>1, <1>2, <1>3, <2>3, <2>4 DEF h, HashOnly
<1>10. QED
  BY <1>8, <1>9

\* A unit that a hash reads from the partition keeps it sound, or ends it with an error
\* when the file name cannot be parsed.
LEMMA HashSliceSound ==
  ASSUME ~TRANSFER_MAY_FAIL, WriteInv, HashInv, NEW j \in HashJob, HashSlice(j),
         NEW held, HashSound(hash[j], held, disk)
  PROVE  /\ HashSound(hash'[j], held, disk) /\ HashOnly(j)
         /\ hash[j].stage = "reading" /\ hash'[j].stage \in {"hashing", "reading"}
         /\ hash'[j].err = hash[j].err \/ BadName # {}
<1> DEFINE h == hash[j]
           c == <<h.s, h.p, h.offset>>
           last == h.offset + 1 = h.end
           ib == IF h.offset = h.from THEN blocks_in_piece(h.p) ELSE h.i + 1
           i1 == IF last THEN h.i + 1 ELSE h.i
           st1 == IF last THEN "hashing" ELSE "reading"
           o1 == h.offset + 1
<1>1. /\ h \in HashRec /\ h # Idle /\ HashInRange(h) /\ h.stage = "reading"
  BY HashIsRec DEF HashSlice
<1>2. PICK v \in Loaded(c) :
      /\ UNCHANGED <<writeVars, readVars, seen>>
      /\ hash' = [hash EXCEPT ![j] =
           IF c \in BadName
           THEN [h EXCEPT !.err = TRUE, !.stage = "hashing", !.i = ib]
           ELSE [h EXCEPT !.ph = Append(@, <<h.offset, v>>), !.offset = o1,
                   !.stage = IF last THEN "hashing" ELSE @, !.i = i1]]
  BY DEF HashSlice
<1> DEFINE ph1 == Append(h.ph, <<h.offset, v>>)
<1>3. hash' = [hash EXCEPT ![j] = hash'[j]]
  BY <1>2 DEF HashInv
<1>4. /\ h.s \in Storage /\ h.p \in Piece /\ h.i \in Nat /\ h.offset \in Nat /\ h.end \in Nat
      /\ h.ph \in Seq(Nat \X Val) /\ piece_size[h.p] \in Nat
  BY <1>1, IOAssumption DEF HashRec
<1>5. h.offset < h.end /\ h.offset < piece_size[h.p] /\ h.offset \in 0 .. 0 + piece_size[h.p] - 1
  BY SMTT(60), <1>1, <1>4 DEF HashInRange
<1>6. c \in Cell /\ c \in Units(h.s, h.p, 0, piece_size[h.p])
  BY <1>4, <1>5, CellForm DEF Units
<1>7. v = disk[c] /\ v \in Val
  BY <1>6 DEF WriteInv, WriteTypes, Loaded
<1>8. HashSound(h, held, disk)
  OBVIOUS
<1>9. CASE c \in BadName
  <2>1. hash'[j] = [h EXCEPT !.err = TRUE, !.stage = "hashing", !.i = ib]
    BY <1>2, <1>9 DEF HashInv
  <2> HIDE DEF ib
  <2>2. Units(h.s, h.p, 0, piece_size[h.p]) \cap BadName # {}
    BY <1>6, <1>9
  <2> HIDE DEF h
  <2>3. /\ hash'[j].stage = "hashing" /\ hash'[j].s = h.s /\ hash'[j].p = h.p /\ hash'[j].err
    BY ZenonT(60), <1>1, <2>1 DEF HashRec
  <2>4. HashSound(hash'[j], held, disk)
    BY <1>1, <1>8, <2>2, <2>3 DEF HashSound
  <2>5. QED
    BY <1>1, <1>2, <1>3, <1>9, <2>3, <2>4 DEF h, HashOnly
<1>10. CASE c \notin BadName
  <2>1. hash'[j] = [h EXCEPT !.ph = ph1, !.offset = o1, !.stage = st1, !.i = i1]
    BY <1>1, <1>2, <1>10 DEF HashInv
  <2>2. ~h.err => /\ Fed(h.ph, h.s, h.p, h.offset, held) /\ AfterBlocks(h.p, h.i + 1, h.end)
                  /\ \A u \in h.offset .. h.end - 1 : <<h.s, h.p, u>> \in Good =>
                       <<<<h.s, h.p, u>>, disk[<<h.s, h.p, u>>]>> \in held
    BY <1>1, <1>8 DEF HashSound
  <2>3. ~h.err => (c \in Good => <<c, v>> \in held)
    <3>1. h.offset \in h.offset .. h.end - 1
      BY SMTT(60), <1>4, <1>5
    <3>2. QED
      BY <1>7, <2>2, <3>1
  <2>4. ~h.err => Fed(ph1, h.s, h.p, o1, held)
    BY <1>4, <1>7, <2>2, <2>3, FedUnit
  <2>5. ~h.err => (st1 = "hashing" => AfterBlocks(h.p, i1, o1))
    BY <2>2
  <2>6. ~h.err => (st1 = "reading" => AfterBlocks(h.p, i1 + 1, h.end))
    BY <2>2
  <2>7. ~h.err => \A u \in o1 .. h.end - 1 : <<h.s, h.p, u>> \in Good =>
                       <<<<h.s, h.p, u>>, disk[<<h.s, h.p, u>>]>> \in held
    BY SMTT(60), <1>4, <2>2
  <2>8. st1 \in {"hashing", "reading"}
    OBVIOUS
  <2> HIDE DEF ph1, o1, st1, i1, h
  <2>9. /\ hash'[j].i = i1 /\ hash'[j].offset = o1 /\ hash'[j].ph = ph1 /\ hash'[j].stage = st1
        /\ hash'[j].s = h.s /\ hash'[j].p = h.p /\ hash'[j].err = h.err /\ hash'[j].end = h.end
    BY ZenonT(60), <1>1, <2>1 DEF HashRec
  <2>10. HashSound(hash'[j], held, disk)
    BY <1>1, <1>8, <2>4, <2>5, <2>6, <2>7, <2>8, <2>9 DEF HashSound
  <2>11. QED
    BY <1>1, <1>2, <1>3, <2>8, <2>9, <2>10 DEF h, HashOnly
<1>11. QED
  BY <1>9, <1>10

-----------------------------------------------------------------------------
(* Steps of hashes, seen in BlockStore                                     *)

\* Each step of a hash preserves RegInv and is a step of BlockStore, or leaves it alone.
LEMMA HashesImplement ==
  ~TRANSFER_MAY_FAIL /\ IInv /\ RegInv /\ HashAction
  => RegInv' /\ (BS!Next \/ UNCHANGED BS!vars)
<1>HashStepKeepsOthers.
  ASSUME RegInv, UNCHANGED <<writeVars, readVars>>, NEW j \in HashJob,
         \A k \in HashJob : k # j => hash'[k] = hash[k],
         \A k \in ReadJob \cup HashJob : k # j => seen'[k] = seen[k],
         IF hash'[j] = Idle THEN seen'[j] = {} ELSE HashSound(hash'[j], seen'[j], disk),
         hash'[j].stage \in {"queued", "hashing", "reading"} =>
           \A c \in Units(hash'[j].s, hash'[j].p, 0, piece_size[hash'[j].p]) \cap Good :
             <<c, Current(c)>> \in seen'[j]
  PROVE  RegInv'
  <2> USE <1>HashStepKeepsOthers
  <2>1. /\ disk' = disk /\ store_buffer' = store_buffer /\ write' = write /\ read' = read
        /\ \A k \in HashJob : k \notin ReadJob
        /\ \A k \in ReadJob : seen'[k] = seen[k]
    BY IOAssumption DEF writeVars, readVars
  <2>2. EntryInv'
    BY <2>1 DEF RegInv, EntryInv
  <2>3. FollowInv'
    <3> SUFFICES ASSUME NEW k \in ReadJob \cup HashJob, NEW c, c \in Wanted(k)', c \in Good
                 PROVE  <<c, Current(c)>> \in seen'[k]
      BY CurrentKept DEF FollowInv
    <3>1. CASE k = j
      BY <2>1, <3>1 DEF Wanted
    <3>2. CASE k # j
      <4>1. Wanted(k)' = Wanted(k) /\ seen'[k] = seen[k]
        BY <2>1, <3>2 DEF Wanted
      <4>2. QED
        BY <4>1 DEF RegInv, FollowInv
    <3>3. QED
      BY <3>1, <3>2
  <2>4. HashSoundInv'
    <3> SUFFICES ASSUME NEW k \in HashJob
                 PROVE  IF hash'[k] = Idle THEN seen'[k] = {} ELSE HashSound(hash'[k], seen'[k], disk)
      BY <2>1 DEF HashSoundInv
    <3>1. CASE k = j
      BY <3>1
    <3>2. CASE k # j
      BY <3>2 DEF RegInv, HashSoundInv
    <3>3. QED
      BY <3>1, <3>2
  <2>5. ReadSoundInv'
    BY <2>1 DEF RegInv, ReadSoundInv
  <2>6. QED
    BY <2>2, <2>3, <2>4, <2>5 DEF RegInv
<1>AfterLastBlock.
  ASSUME NEW p \in Piece, NEW offset \in Nat, AfterBlocks(p, blocks_in_piece(p), offset)
  PROVE  offset = piece_size[p]
  <2> USE <1>AfterLastBlock
  <2> DEFINE B == DEFAULT_BLOCK_SIZE
             n == piece_size[p]
  <2>1. B \in Nat \ {0} /\ n \in Nat
    BY IOAssumption
  <2>2. \/ offset = B * ((n + B - 1) \div B) /\ offset <= n
        \/ offset = n
    BY DEF AfterBlocks, blocks_in_piece
  <2> HIDE DEF B, n
  <2>3. B * ((n + B - 1) \div B) >= n
    <3> DEFINE q == (n + B - 1) \div B
               x == n + B - 1
    <3>1. x \in Nat /\ x >= n
      BY SMTT(60), <2>1
    <3> HIDE DEF x
    <3>2. x = B * (x \div B) + (x % B) /\ x % B \in 0 .. B - 1 /\ x \div B \in Nat
      BY SMTT(60), SMTT(90), <2>1, <3>1
    <3> DEFINE y == B * (x \div B)
               z == x % B
    <3>3. x = y + z /\ z <= B - 1 /\ z \in Nat /\ y \in Nat
      BY SMTT(60), <2>1, <3>2
    <3> HIDE DEF y, z
    <3>4. y >= n
      BY SMTT(60), <2>1, <3>3 DEF x
    <3>5. QED
      BY <3>4 DEF y, x
  <2>4. QED
    BY SMTT(60), SMTT(90), <2>1, <2>2, <2>3 DEF n
<1>HashCallRegular.
  ASSUME HashInv, SeenInv, RegInv, NEW j \in HashJob, NEW s \in Storage, NEW p \in Piece, async_hash(j, s, p)
  PROVE  RegInv'
  <2> USE <1>HashCallRegular
  <2> DEFINE cells == Units(s, p, 0, piece_size[p])
             h == hash'[j]
  <2>1. PICK got \in BOOLEAN :
        /\ UNCHANGED <<writeVars, readVars>>
        /\ hash' = [hash EXCEPT ![j] =
              [stage |-> IF got THEN "queued" ELSE "posted", s |-> s, p |-> p, i |-> 0,
               offset |-> 0, from |-> 0, end |-> 0, ph |-> <<>>, err |-> ~got, buf |-> got]]
        /\ seen' = [seen EXCEPT ![j] = IF got THEN Now(cells) ELSE {}]
    BY DEF async_hash
  <2>2. /\ h.stage = (IF got THEN "queued" ELSE "posted") /\ h.s = s /\ h.p = p /\ h.i = 0
        /\ h.offset = 0 /\ h.ph = <<>> /\ h.err = ~got
        /\ \A k \in HashJob : k # j => hash'[k] = hash[k]
    BY <2>1 DEF HashInv
  <2>3. /\ seen'[j] = (IF got THEN Now(cells) ELSE {})
        /\ \A k \in ReadJob \cup HashJob : k # j => seen'[k] = seen[k]
    BY <2>1 DEF SeenInv
  <2>4. h # Idle
    BY <2>2 DEF Idle
  <2> HIDE DEF h
  <2>5. HashSound(h, seen'[j], disk)
    <3>1. CASE ~got
      BY <2>2, <2>3, <3>1 DEF HashSound
    <3>2. CASE got
      BY <2>2, <2>3, <3>2, HashCallSound
    <3>3. QED
      BY <3>1, <3>2
  <2>6. ASSUME h.stage \in {"queued", "hashing", "reading"}
        PROVE  \A c \in Units(h.s, h.p, 0, piece_size[h.p]) \cap Good : <<c, Current(c)>> \in seen'[j]
    BY <2>2, <2>3, <2>6 DEF Now
  <2>7. QED
    BY <2>1, <2>2, <2>3, <2>4, <2>5, <2>6, <1>HashStepKeepsOthers DEF h
\* A step of a hash that changes nothing but its record.
<1>HashRecordStep.
  ASSUME HashInv, RegInv, NEW j \in HashJob, UNCHANGED <<writeVars, readVars, seen>>, hash[j] # Idle,
         hash' = [hash EXCEPT ![j] = hash'[j]], hash'[j].s = hash[j].s, hash'[j].p = hash[j].p,
         hash'[j].stage # "idle",
         \/ hash[j].stage \in {"queued", "hashing", "reading"}
         \/ hash'[j].stage \in {"posted", "handled"},
         HashSound(hash'[j], seen[j], disk)
  PROVE  RegInv'
  <2> USE <1>HashRecordStep
  <2>1. \A k \in HashJob : k # j => hash'[k] = hash[k]
    BY DEF HashInv
  <2>2. hash'[j] # Idle /\ j \notin ReadJob
    BY SMTT(60), IOAssumption DEF Idle
  <2>3. ASSUME hash'[j].stage \in {"queued", "hashing", "reading"}
        PROVE  \A c \in Units(hash'[j].s, hash'[j].p, 0, piece_size[hash'[j].p]) \cap Good :
                 <<c, Current(c)>> \in seen'[j]
    BY <2>2, <2>3 DEF RegInv, FollowInv, Wanted
  <2>4. QED
    BY <2>1, <2>2, <2>3, <1>HashStepKeepsOthers
<1>HashLoopRegular.
  ASSUME ~TRANSFER_MAY_FAIL, WriteInv, HashInv, RegInv, NEW j \in HashJob, HashBlock(j) \/ HashSlice(j)
  PROVE  RegInv'
  <2> USE <1>HashLoopRegular
  <2>1. hash[j].stage \in {"hashing", "reading"} /\ hash[j] # Idle /\ j \notin ReadJob
    <3>1. hash[j].stage \in {"hashing", "reading"}
      BY DEF HashBlock, HashSlice
    <3>2. QED
      BY <3>1, HashIsRec, IOAssumption
  <2>2. HashSound(hash[j], seen[j], disk)
    BY <2>1 DEF RegInv, HashSoundInv
  <2>3. \A c \in Units(hash[j].s, hash[j].p, 0, piece_size[hash[j].p]) \cap Good : <<c, Current(c)>> \in seen[j]
    BY <2>1 DEF RegInv, FollowInv, Wanted
  <2>4. HashSound(hash'[j], seen[j], disk) /\ HashOnly(j)
    BY <2>2, <2>3, HashBlockSound, HashSliceSound
  <2>5. QED
    BY <2>1, <2>4, <1>HashRecordStep DEF HashOnly
<1>HashEndsRegular.
  ASSUME HashInv, SeenInv, RegInv, NEW j \in HashJob,
         StartHash \/ FinishHash(j) \/ FreeHash(j) \/ HandleHash(j)
  PROVE  RegInv'
  <2> USE <1>HashEndsRegular
  <2>1. ASSUME NEW k \in HashJob, hash[k].stage # "idle", UNCHANGED <<writeVars, readVars, seen>>, NEW q,
               hash' = [hash EXCEPT ![k] = q], q.s = hash[k].s, q.p = hash[k].p, q.i = hash[k].i,
               q.offset = hash[k].offset, q.ph = hash[k].ph, q.err = hash[k].err,
               \/ hash[k].stage = "queued" /\ q.stage = "hashing"
               \/ q.stage \in {"posted", "handled"}
        PROVE  RegInv'
    <3>1. hash[k] # Idle /\ HashSound(hash[k], seen[k], disk)
      BY <2>1, HashIsRec DEF RegInv, HashSoundInv
    <3>2. HashSound(q, seen[k], disk)
      BY <2>1, <3>1, HashStageSound
    <3>3. hash'[k] = q
      BY <2>1 DEF HashInv
    <3>4. QED
      BY <2>1, <3>1, <3>2, <3>3, <1>HashRecordStep
  <2>2. ASSUME UNCHANGED <<writeVars, readVars>>, hash' = [hash EXCEPT ![j] = Idle],
               seen' = [seen EXCEPT ![j] = {}]
        PROVE  RegInv'
    <3>1. /\ hash'[j] = Idle /\ Idle.stage = "idle" /\ seen'[j] = {}
          /\ \A k \in HashJob : k # j => hash'[k] = hash[k]
          /\ \A k \in ReadJob \cup HashJob : k # j => seen'[k] = seen[k]
      BY <2>2 DEF HashInv, SeenInv, Idle
    <3>2. QED
      BY <2>2, <3>1, <1>HashStepKeepsOthers
  <2>3. CASE StartHash
    <3> DEFINE k == Head(hash_queue)
    <3>1. /\ hash' = [hash EXCEPT ![k] = [hash[k] EXCEPT !.stage = "hashing"]] /\ hash_queue # <<>>
          /\ UNCHANGED <<writeVars, readVars, seen>>
      BY <2>3 DEF StartHash
    <3>2. k \in HashJob /\ hash[k].stage = "queued"
      BY SMTT(60), <3>1 DEF HashInv, Queued
    <3> HIDE DEF k
    <3>3. hash[k] \in HashRec
      BY <3>2, HashIsRec
    <3> DEFINE q == [hash[k] EXCEPT !.stage = "hashing"]
    <3>4. /\ q.s = hash[k].s /\ q.p = hash[k].p /\ q.i = hash[k].i /\ q.offset = hash[k].offset
          /\ q.ph = hash[k].ph /\ q.err = hash[k].err /\ q.stage = "hashing"
      BY ZenonT(60), <3>3 DEF HashRec
    <3> HIDE DEF q
    <3>5. hash' = [hash EXCEPT ![k] = q]
      BY <3>1 DEF q
    <3>6. QED
      BY <2>1, <3>1, <3>2, <3>4, <3>5
  <2>4. CASE FinishHash(j)
    <3>1. /\ hash' = [hash EXCEPT ![j] = [hash[j] EXCEPT !.stage = "posted"]] /\ hash[j].stage = "hashing"
          /\ UNCHANGED <<writeVars, readVars, seen>>
      BY <2>4 DEF FinishHash
    <3>2. hash[j] \in HashRec
      BY <3>1, HashIsRec
    <3> DEFINE q == [hash[j] EXCEPT !.stage = "posted"]
    <3>3. /\ q.s = hash[j].s /\ q.p = hash[j].p /\ q.i = hash[j].i /\ q.offset = hash[j].offset
          /\ q.ph = hash[j].ph /\ q.err = hash[j].err /\ q.stage = "posted"
      BY ZenonT(60), <3>2 DEF HashRec
    <3> HIDE DEF q
    <3>4. hash' = [hash EXCEPT ![j] = q]
      BY <3>1 DEF q
    <3>5. QED
      BY <2>1, <3>1, <3>3, <3>4
  <2>5. CASE FreeHash(j) /\ hash[j].stage = "handled"
    <3>1. /\ hash' = [hash EXCEPT ![j] = Idle] /\ seen' = [seen EXCEPT ![j] = {}]
          /\ UNCHANGED <<writeVars, readVars>>
      BY <2>5 DEF FreeHash
    <3>2. QED
      BY <2>2, <3>1
  <2>6. CASE FreeHash(j) /\ hash[j].stage # "handled"
    <3>1. /\ hash' = [hash EXCEPT ![j] = [hash[j] EXCEPT !.buf = FALSE]] /\ hash[j].stage = "posted"
          /\ UNCHANGED <<writeVars, readVars, seen>>
      BY <2>6 DEF FreeHash
    <3>2. hash[j] \in HashRec
      BY <3>1, HashIsRec
    <3> DEFINE q == [hash[j] EXCEPT !.buf = FALSE]
    <3>3. /\ q.s = hash[j].s /\ q.p = hash[j].p /\ q.i = hash[j].i /\ q.offset = hash[j].offset
          /\ q.ph = hash[j].ph /\ q.err = hash[j].err /\ q.stage = "posted"
      BY ZenonT(60), <3>1, <3>2 DEF HashRec
    <3> HIDE DEF q
    <3>4. hash' = [hash EXCEPT ![j] = q]
      BY <3>1 DEF q
    <3>5. QED
      BY <2>1, <3>1, <3>3, <3>4
  <2>7. CASE HandleHash(j) /\ hash[j].buf
    <3>1. /\ hash' = [hash EXCEPT ![j] = [hash[j] EXCEPT !.stage = "handled"]] /\ hash[j].stage = "posted"
          /\ UNCHANGED <<writeVars, readVars, seen>>
      BY <2>7 DEF HandleHash
    <3>2. hash[j] \in HashRec
      BY <3>1, HashIsRec
    <3> DEFINE q == [hash[j] EXCEPT !.stage = "handled"]
    <3>3. /\ q.s = hash[j].s /\ q.p = hash[j].p /\ q.i = hash[j].i /\ q.offset = hash[j].offset
          /\ q.ph = hash[j].ph /\ q.err = hash[j].err /\ q.stage = "handled"
      BY ZenonT(60), <3>2 DEF HashRec
    <3> HIDE DEF q
    <3>4. hash' = [hash EXCEPT ![j] = q]
      BY <3>1 DEF q
    <3>5. QED
      BY <2>1, <3>1, <3>3, <3>4
  <2>8. CASE HandleHash(j) /\ ~hash[j].buf
    <3>1. /\ hash' = [hash EXCEPT ![j] = Idle] /\ seen' = [seen EXCEPT ![j] = {}]
          /\ UNCHANGED <<writeVars, readVars>>
      BY <2>8 DEF HandleHash
    <3>2. QED
      BY <2>2, <3>1
  <2>9. QED
    BY <2>3, <2>4, <2>5, <2>6, <2>7, <2>8
\* So is what a finished hash was fed.
<1>HashIsAnswered.
  ASSUME NEW h \in HashRec, NEW held, Fed(h.ph, h.s, h.p, h.offset, held), h.stage \in {"posted", "handled"},
         ~h.err, h.offset = piece_size[h.p]
  PROVE  BS!IsAnswer(HashAnswer(h), Units(h.s, h.p, 0, piece_size[h.p]), GoodPart(held))
  <2> USE <1>HashIsAnswered
  <2> DEFINE s == h.s
             p == h.p
             ph == h.ph
             len == h.offset
             A == {<<<<s, p, n - 1>>, InPlace(ph[n][1], n - 1, ph[n][2])>> : n \in DOMAIN ph}
  <2>1. HashAnswer(h) = [kind |-> "data", data |-> A]
    BY DEF HashAnswer
  <2>2. /\ len \in Nat /\ ph \in Seq(Nat \X Val) /\ Len(ph) = len /\ DOMAIN ph = 1 .. len
        /\ \A n \in 1 .. len :
             /\ ph[n][1] = n - 1 /\ ph[n][2] \in Val
             /\ <<s, p, n - 1>> \in Good => <<<<s, p, n - 1>>, ph[n][2]>> \in held
    BY SMTT(60) DEF Fed, HashRec
  <2> HIDE DEF s, p, ph, len
  <2>3. A = {<<<<s, p, n - 1>>, ph[n][2]>> : n \in 1 .. len}
    BY <2>2 DEF InPlace
  <2> HIDE DEF A
  <2>4. {a \in A : a[1] \in Good} \subseteq GoodPart(held)
    <3> SUFFICES ASSUME NEW a \in A, a[1] \in Good
                 PROVE  a \in held
      BY DEF GoodPart
    <3>1. PICK n \in 1 .. len : a = <<<<s, p, n - 1>>, ph[n][2]>>
      BY <2>3
    <3>2. QED
      BY <2>2, <3>1
  <2>5. ASSUME NEW c \in Units(s, p, 0, len) \cap Good
        PROVE  \E v \in Val : <<c, v>> \in A /\ \A w \in Val : <<c, w>> \in A => w = v
    <3>1. PICK u \in 0 .. 0 + len - 1 : c = <<s, p, u>>
      BY SMTT(60) DEF Units
    <3> DEFINE n == u + 1
    <3>2. n \in 1 .. len /\ n - 1 = u
      BY SMTT(60), <2>2, <3>1
    <3> HIDE DEF n
    <3>3. ph[n][2] \in Val /\ <<c, ph[n][2]>> \in A
      BY <2>2, <2>3, <3>1, <3>2
    <3>4. ASSUME NEW w \in Val, <<c, w>> \in A PROVE w = ph[n][2]
      <4>1. PICK m \in 1 .. len : <<c, w>> = <<<<s, p, m - 1>>, ph[m][2]>>
        BY <2>3, <3>4
      <4>2. w = ph[m][2] /\ m - 1 = u
        BY <3>1, <4>1
      <4>3. m = n
        BY SMTT(60), SMTT(90), <2>2, <3>2, <4>2
      <4>4. QED
        BY <4>2, <4>3
    <3>5. QED
      BY <3>3, <3>4
  <2>6. HashAnswer(h).kind = "data" /\ HashAnswer(h).data = A
    BY SMTT(60), <2>1
  <2>7. Units(h.s, h.p, 0, piece_size[h.p]) = Units(s, p, 0, len)
    BY DEF s, p, len
  <2>8. QED
    BY <2>4, <2>5, <2>6, <2>7 DEF BS!IsAnswer
\* A step that changes the record of one hash.
<1>HashRecordChange.
  ASSUME HashInv, UNCHANGED <<writeVars, readVars, seen>>, NEW j \in HashJob, NEW q,
         hash' = [hash EXCEPT ![j] = q], q.s = hash[j].s, q.p = hash[j].p
  PROVE  /\ Contents' = Contents /\ Requests' = Requests /\ Histories' = Histories
         /\ Answers' = [Answers EXCEPT ![j] = Answers'[j]]
         /\ Answers'[j] = HashAnswer(IF seen[j] = {} THEN Idle ELSE q)
         /\ Answers[j] = HashAnswer(IF seen[j] = {} THEN Idle ELSE hash[j])
         /\ Requests[j] = IF seen[j] = {} THEN {} ELSE Units(q.s, q.p, 0, piece_size[q.p])
         /\ Histories[j] = GoodPart(seen[j])
  <2> USE <1>HashRecordChange
  <2>0. j \notin ReadJob
    BY IOAssumption
  <2>1. \A x \in Good : Current(x)' = Current(x)
    BY CurrentKept
  <2>2. /\ seen' = seen /\ read' = read /\ hash'[j] = q
        /\ \A k \in HashJob : k # j => hash'[k] = hash[k]
    BY DEF readVars, HashInv
  <2>3. /\ Contents' = Contents
        /\ Requests' = [Requests EXCEPT ![j] = Requested(j)']
        /\ Histories' = [Histories EXCEPT ![j] = GoodPart(seen'[j])]
        /\ Answers' = [Answers EXCEPT ![j] = Answered(j)']
        /\ Answers'[j] = Answered(j)'
    BY <2>1, <2>2, JobChanged
  <2>4. /\ Requests[j] = Requested(j) /\ Answers[j] = Answered(j) /\ Histories[j] = GoodPart(seen[j])
    BY JobStands
  <2>5. /\ Requested(j) = IF seen[j] = {} THEN {} ELSE Units(q.s, q.p, 0, piece_size[q.p])
        /\ Requested(j)' = Requested(j)
    BY SMTT(60), SMTT(90), <2>0, <2>2 DEF Requested
  <2>6. /\ Answered(j) = HashAnswer(IF seen[j] = {} THEN Idle ELSE hash[j])
        /\ Answered(j)' = HashAnswer(IF seen[j] = {} THEN Idle ELSE q)
    BY <2>0, <2>2 DEF Answered
  <2>7. Requests' = Requests /\ Histories' = Histories
    <3>1. Requests' = [Requests EXCEPT ![j] = Requests[j]] /\ Histories' = [Histories EXCEPT ![j] = Histories[j]]
      BY <2>2, <2>3, <2>4, <2>5
    <3>2. QED
      BY <3>1 DEF Requests, Histories
  <2>8. QED
    BY <2>3, <2>4, <2>5, <2>6, <2>7
<1>HashSilent.
  ASSUME HashInv, UNCHANGED <<writeVars, readVars, seen>>, NEW j \in HashJob, NEW q,
         hash' = [hash EXCEPT ![j] = q], q.s = hash[j].s, q.p = hash[j].p,
         seen[j] # {} => HashAnswer(q) = HashAnswer(hash[j])
  PROVE  UNCHANGED BS!vars
  <2> USE <1>HashSilent
  <2>1. /\ Contents' = Contents /\ Requests' = Requests /\ Histories' = Histories
        /\ Answers' = [Answers EXCEPT ![j] = Answers'[j]]
        /\ Answers'[j] = HashAnswer(IF seen[j] = {} THEN Idle ELSE q)
        /\ Answers[j] = HashAnswer(IF seen[j] = {} THEN Idle ELSE hash[j])
    BY <1>HashRecordChange
  <2>2. Answers'[j] = Answers[j]
    BY <2>1
  <2>3. QED
    BY <2>1, <2>2, SameAnswer
<1>HashStepIsSilent.
  ASSUME HashInv, NEW j \in HashJob,
         \/ StartHash \/ HashBlock(j) \/ HashSlice(j)
         \/ FreeHash(j) /\ hash[j].stage = "posted"
         \/ HandleHash(j) /\ hash[j].buf
  PROVE  UNCHANGED BS!vars
  <2> USE <1>HashStepIsSilent
  <2>1. CASE StartHash
    <3> DEFINE k == Head(hash_queue)
               q == [hash[k] EXCEPT !.stage = "hashing"]
    <3>1. hash' = [hash EXCEPT ![k] = q] /\ UNCHANGED <<writeVars, readVars, seen>> /\ hash_queue # <<>>
      BY <2>1 DEF StartHash
    <3>2. k \in HashJob /\ hash[k].stage = "queued"
      BY SMTT(60), <3>1 DEF HashInv, Queued
    <3> HIDE DEF k
    <3>3. hash[k] \in HashRec
      BY <3>2, HashIsRec
    <3>4. q.stage = "hashing" /\ q.s = hash[k].s /\ q.p = hash[k].p
      BY ZenonT(60), <3>3 DEF HashRec
    <3> HIDE DEF q
    <3>5. HashAnswer(q) = HashAnswer(hash[k])
      BY <3>2, <3>4 DEF HashAnswer
    <3>6. QED
      BY <3>1, <3>2, <3>4, <3>5, <1>HashSilent
  <2>2. CASE HashBlock(j)
    <3> DEFINE h == hash[j]
               loc == SB!torrent_location(h.s, h.p, h.offset)
               len == BlockLength(h.p, h.offset)
               ph == h.ph \o [n \in 1 .. len |-> <<h.offset + n - 1, write[SB!get(loc)].val>>]
               q1 == [h EXCEPT !.i = @ + 1, !.offset = @ + len, !.ph = ph]
               q2 == [h EXCEPT !.stage = "reading", !.from = h.offset, !.end = h.offset + len]
               q == IF loc \in Location /\ SB!hit(loc) THEN q1 ELSE q2
    <3>1. h.stage = "hashing" /\ UNCHANGED <<writeVars, readVars, seen>>
      BY <2>2 DEF HashBlock
    <3>2. h \in HashRec
      BY <3>1, HashIsRec
    <3>3. hash' = [hash EXCEPT ![j] = q]
      BY <2>2 DEF HashBlock
    <3> HIDE DEF len, ph, loc
    <3>4. q1.stage = "hashing" /\ q1.s = h.s /\ q1.p = h.p
      BY ZenonT(60), <3>1, <3>2 DEF HashRec
    <3>5. q2.stage = "reading" /\ q2.s = h.s /\ q2.p = h.p
      BY ZenonT(60), <3>1, <3>2 DEF HashRec
    <3> HIDE DEF q1, q2
    <3>6. q.stage \in {"hashing", "reading"} /\ q.s = h.s /\ q.p = h.p
      BY <3>4, <3>5
    <3> HIDE DEF q
    <3>7. HashAnswer(q) = HashAnswer(h)
      BY <3>1, <3>6 DEF HashAnswer
    <3>8. QED
      BY <3>1, <3>3, <3>6, <3>7, <1>HashSilent
  <2>3. CASE HashSlice(j)
    <3> DEFINE h == hash[j]
               c == <<h.s, h.p, h.offset>>
               i1 == IF h.offset = h.from THEN blocks_in_piece(h.p) ELSE h.i + 1
               st2 == IF h.offset + 1 = h.end THEN "hashing" ELSE h.stage
               i2 == IF h.offset + 1 = h.end THEN h.i + 1 ELSE h.i
    <3>1. h.stage = "reading" /\ UNCHANGED <<writeVars, readVars, seen>>
      BY <2>3 DEF HashSlice
    <3>2. h \in HashRec
      BY <3>1, HashIsRec
    <3>3. PICK v \in Loaded(c) :
            hash' = [hash EXCEPT ![j] =
               IF c \in BadName THEN [h EXCEPT !.err = TRUE, !.stage = "hashing", !.i = i1]
               ELSE [h EXCEPT !.ph = Append(@, <<h.offset, v>>), !.offset = @ + 1, !.stage = st2, !.i = i2]]
      BY <2>3 DEF HashSlice
    <3> DEFINE q1 == [h EXCEPT !.err = TRUE, !.stage = "hashing", !.i = i1]
               q2 == [h EXCEPT !.ph = Append(@, <<h.offset, v>>), !.offset = @ + 1, !.stage = st2, !.i = i2]
               q == IF c \in BadName THEN q1 ELSE q2
    <3>4. hash' = [hash EXCEPT ![j] = q]
      BY <3>3
    <3>a. st2 \in {"hashing", "reading"}
      BY <3>1
    <3> HIDE DEF i1, i2, st2
    <3>5. q1.stage = "hashing" /\ q1.s = h.s /\ q1.p = h.p
      BY ZenonT(60), <3>1, <3>2 DEF HashRec
    <3>6. q2.stage = st2 /\ q2.s = h.s /\ q2.p = h.p
      BY ZenonT(60), <3>2 DEF HashRec
    <3> HIDE DEF q1, q2
    <3>7. q.stage \in {"hashing", "reading"} /\ q.s = h.s /\ q.p = h.p
      BY <3>a, <3>5, <3>6
    <3> HIDE DEF q
    <3>8. HashAnswer(q) = HashAnswer(h)
      BY <3>1, <3>7 DEF HashAnswer
    <3>9. QED
      BY <3>1, <3>4, <3>7, <3>8, <1>HashSilent
  <2>4. CASE FreeHash(j) /\ hash[j].stage = "posted"
    <3> DEFINE q == [hash[j] EXCEPT !.buf = FALSE]
    <3>1. hash' = [hash EXCEPT ![j] = q] /\ UNCHANGED <<writeVars, readVars, seen>>
      BY <2>4 DEF FreeHash
    <3>2. hash[j] \in HashRec
      BY <2>4, HashIsRec
    <3>3. /\ q.stage = hash[j].stage /\ q.s = hash[j].s /\ q.p = hash[j].p /\ q.ph = hash[j].ph
          /\ q.err = hash[j].err
      BY ZenonT(60), <3>2 DEF HashRec
    <3> HIDE DEF q
    <3>4. HashAnswer(q) = HashAnswer(hash[j])
      BY SMTT(60), SMTT(90), <3>3 DEF HashAnswer
    <3>5. QED
      BY <3>1, <3>3, <3>4, <1>HashSilent
  <2>5. CASE HandleHash(j) /\ hash[j].buf
    <3> DEFINE q == [hash[j] EXCEPT !.stage = "handled"]
    <3>1. hash' = [hash EXCEPT ![j] = q] /\ UNCHANGED <<writeVars, readVars, seen>> /\ hash[j].stage = "posted"
      BY <2>5 DEF HandleHash
    <3>2. hash[j] \in HashRec
      BY <3>1, HashIsRec
    <3>3. /\ q.stage = "handled" /\ q.s = hash[j].s /\ q.p = hash[j].p /\ q.ph = hash[j].ph
          /\ q.err = hash[j].err
      BY ZenonT(60), <3>2 DEF HashRec
    <3> HIDE DEF q
    <3>4. HashAnswer(q) = HashAnswer(hash[j])
      BY <3>1, <3>3 DEF HashAnswer
    <3>5. QED
      BY <3>1, <3>3, <3>4, <1>HashSilent
  <2>6. QED
    BY <2>1, <2>2, <2>3, <2>4, <2>5
<1>FinishHashIsAnswer.
  ASSUME HashInv, RegInv, NEW j \in HashJob, FinishHash(j)
  PROVE  BS!Next \/ UNCHANGED BS!vars
  <2> USE <1>FinishHashIsAnswer
  <2> DEFINE h == hash[j]
             q == [h EXCEPT !.stage = "posted"]
             held == seen[j]
             cells == Units(q.s, q.p, 0, piece_size[q.p])
  <2>1. /\ hash' = [hash EXCEPT ![j] = q] /\ UNCHANGED <<writeVars, readVars, seen>>
        /\ h.stage = "hashing" /\ h.i = blocks_in_piece(h.p)
    BY DEF FinishHash
  <2>2. h \in HashRec /\ h # Idle
    BY <2>1, HashIsRec
  <2>3. /\ q \in HashRec /\ q.stage = "posted" /\ q.s = h.s /\ q.p = h.p /\ q.i = h.i
        /\ q.offset = h.offset /\ q.ph = h.ph /\ q.err = h.err
    BY ZenonT(60), <2>2 DEF HashRec
  <2>4. HashSound(h, held, disk)
    BY <2>2 DEF RegInv, HashSoundInv
  <2>5. HashSound(q, held, disk)
    BY <2>3, <2>4, HashStageSound
  <2> HIDE DEF q
  <2>6. CASE held = {}
    BY <2>1, <2>3, <2>6, <1>HashSilent
  <2>7. CASE held # {}
    <3>1. /\ Contents' = Contents /\ Requests' = Requests /\ Histories' = Histories
          /\ Answers' = [Answers EXCEPT ![j] = Answers'[j]] /\ Answers'[j] = HashAnswer(q)
          /\ Requests[j] = cells /\ Answers[j] = HashAnswer(h)
          /\ Histories[j] = GoodPart(held)
      BY <2>1, <2>3, <2>7, <1>HashRecordChange
    <3>2. HashAnswer(h) = BS!NoAnswer
      BY <2>1 DEF HashAnswer, BS!NoAnswer
    <3>3. q.err => cells \cap BadName # {}
      BY <2>5, <2>7 DEF HashSound
    <3>4. ~q.err => Fed(q.ph, q.s, q.p, q.offset, held)
      BY <2>5 DEF HashSound
    <3>5. ~q.err => q.offset = piece_size[q.p]
      <4>1. SUFFICES ASSUME ~q.err PROVE q.offset = piece_size[q.p]
        OBVIOUS
      <4>2. AfterBlocks(h.p, blocks_in_piece(h.p), h.offset)
        BY <2>1, <2>3, <2>4, <4>1 DEF HashSound
      <4>3. h.p \in Piece /\ h.offset \in Nat
        BY <2>2 DEF HashRec
      <4>4. h.offset = piece_size[h.p]
        BY <4>2, <4>3, <1>AfterLastBlock
      <4>5. QED
        BY <2>3, <4>4
    <3>6. cells # {}
      <4>1. piece_size[q.p] \in Nat
        BY <2>3, IOAssumption DEF HashRec
      <4>2. piece_size[q.p] # 0
        BY <2>5, <2>7 DEF HashSound
      <4>3. 0 \in 0 .. 0 + piece_size[q.p] - 1
        BY SMTT(60), SMTT(90), <4>1, <4>2
      <4>4. <<q.s, q.p, 0>> \in cells
        BY <4>3 DEF Units
      <4>5. QED
        BY <4>4
    <3>7. IF HashAnswer(q) = BS!Error THEN cells \cap BadName # {}
          ELSE BS!IsAnswer(HashAnswer(q), cells, GoodPart(held))
      <4>1. CASE q.err
        <5>1. HashAnswer(q) = BS!Error
          BY <2>3, <4>1 DEF HashAnswer, BS!Error
        <5>2. QED
          BY <3>3, <4>1, <5>1
      <4>2. CASE ~q.err
        <5>1. BS!IsAnswer(HashAnswer(q), cells, GoodPart(held))
          BY <2>3, <3>4, <3>5, <4>2, <1>HashIsAnswered
        <5>2. HashAnswer(q) # BS!Error
          BY SMTT(60), SMTT(90), <5>1 DEF BS!IsAnswer, BS!Error
        <5>3. QED
          BY <5>1, <5>2
      <4>3. QED
        BY <4>1, <4>2
    <3>8. BS!Answer(j)
      BY <3>1, <3>2, <3>6, <3>7 DEF BS!Answer
    <3>9. QED
      BY <3>8 DEF BS!Next
  <2>8. QED
    BY <2>6, <2>7
\* A hash is a request when it got a buffer and its piece has data.
<1>HashIsAsk.
  ASSUME HashInv, SeenInv, RegInv, NEW j \in HashJob, NEW s \in Storage, NEW p \in Piece, async_hash(j, s, p)
  PROVE  BS!Next \/ UNCHANGED BS!vars
  <2> USE <1>HashIsAsk
  <2> DEFINE cells == Units(s, p, 0, piece_size[p])
             h == hash'[j]
             Job == ReadJob \cup HashJob
  <2>0. j \notin ReadJob
    BY IOAssumption
  <2>1. PICK got \in BOOLEAN :
        /\ UNCHANGED <<writeVars, readVars>> /\ hash[j] = Idle
        /\ hash' = [hash EXCEPT ![j] =
              [stage |-> IF got THEN "queued" ELSE "posted", s |-> s, p |-> p, i |-> 0,
               offset |-> 0, from |-> 0, end |-> 0, ph |-> <<>>, err |-> ~got, buf |-> got]]
        /\ seen' = [seen EXCEPT ![j] = IF got THEN Now(cells) ELSE {}]
    BY DEF async_hash
  <2>2. /\ h.stage = (IF got THEN "queued" ELSE "posted") /\ h.s = s /\ h.p = p
        /\ \A k \in HashJob : k # j => hash'[k] = hash[k]
    BY <2>1 DEF HashInv
  <2>3. /\ seen'[j] = (IF got THEN Now(cells) ELSE {}) /\ read' = read
        /\ \A k \in Job : k # j => seen'[k] = seen[k]
    BY <2>1 DEF SeenInv, readVars
  <2> HIDE DEF h
  <2>4. \A x \in Good : Current(x)' = Current(x)
    BY <2>1, CurrentKept
  <2>5. \A k \in Job : k # j =>
          /\ seen'[k] = seen[k] /\ (k \in ReadJob => read'[k] = read[k])
          /\ (k \notin ReadJob => hash'[k] = hash[k])
    BY <2>2, <2>3
  <2>6. seen[j] = {} /\ Idle.stage = "idle"
    BY <2>1 DEF RegInv, HashSoundInv, Idle
  <2>7. Requested(j) = {} /\ Answered(j) = BS!NoAnswer
    BY <2>0, <2>6 DEF Requested, Answered, HashAnswer, BS!NoAnswer
  <2>8. Answered(j)' = BS!NoAnswer
    <3>1. CASE seen'[j] = {}
      BY <2>0, <2>6, <3>1 DEF Answered, HashAnswer, BS!NoAnswer
    <3>2. CASE seen'[j] # {}
      <4>1. h.stage = "queued"
        BY <2>2, <2>3, <3>2
      <4>2. Answered(j)' = HashAnswer(h)
        BY <2>0, <3>2 DEF Answered, h
      <4>3. QED
        BY <4>1, <4>2 DEF HashAnswer, BS!NoAnswer
    <3>3. QED
      BY <3>1, <3>2
  <2>9. CASE seen'[j] = {}
    <3>1. Requested(j)' = {}
      BY <2>9 DEF Requested
    <3>2. QED
      BY <2>4, <2>5, <2>6, <2>7, <2>8, <2>9, <3>1, JobSame
  <2>10. CASE seen'[j] # {}
    <3>1. got /\ seen'[j] = Now(cells)
      BY <2>3, <2>10
    <3>2. Requested(j)' = cells
      BY <2>0, <2>2, <2>10 DEF Requested, h
    <3>3. /\ Contents' = Contents
          /\ Requests' = [Requests EXCEPT ![j] = Requested(j)']
          /\ Histories' = [Histories EXCEPT ![j] = GoodPart(seen'[j])]
          /\ Answers' = [Answers EXCEPT ![j] = Answered(j)']
      BY <2>4, <2>5, JobChanged
    <3>4. cells \in SUBSET Cell
      <4>1. piece_size[p] \in Nat /\ 0 + piece_size[p] <= piece_size[p]
        BY SMTT(60), IOAssumption
      <4>2. QED
        BY <4>1, UnitsAreCells
    <3>5. cells # {}
      BY <2>10, <3>1 DEF Now
    <3>6. GoodPart(seen'[j]) = {<<x, Contents[x]>> : x \in cells \cap Good}
      BY SMTT(60), <3>1 DEF GoodPart, Now, Contents
    <3>7. Requests[j] = {} /\ Answers[j] = BS!NoAnswer
      BY <2>7, JobStands
    <3> HIDE DEF cells
    <3>8. Answers' = Answers
      BY <2>8, <3>3, <3>7 DEF Answers
    <3>9. BS!Ask(j)
      <4>1. Requests' = [Requests EXCEPT ![j] = cells]
        BY <3>2, <3>3
      <4>2. Histories' = [Histories EXCEPT ![j] = {<<x, Contents[x]>> : x \in cells \cap Good}]
        BY <3>3, <3>6
      <4>3. Contents' = Contents
        BY <3>3
      <4>4. QED
        BY <3>4, <3>5, <3>7, <3>8, <4>1, <4>2, <4>3 DEF BS!Ask
    <3>10. QED
      BY <3>9 DEF BS!Next
  <2>11. QED
    BY <2>9, <2>10
<1>HashIsForgotten.
  ASSUME HashInv, SeenInv, RegInv, NEW j \in HashJob,
         \/ FreeHash(j) /\ hash[j].stage = "handled"
         \/ HandleHash(j) /\ ~hash[j].buf
  PROVE  BS!Next \/ UNCHANGED BS!vars
  <2> USE <1>HashIsForgotten
  <2>0. j \notin ReadJob
    BY IOAssumption
  <2>1. /\ hash' = [hash EXCEPT ![j] = Idle] /\ seen' = [seen EXCEPT ![j] = {}]
        /\ hash[j].stage \in {"posted", "handled"} /\ UNCHANGED <<writeVars, readVars>>
    BY DEF FreeHash, HandleHash
  <2>2. /\ hash'[j] = Idle /\ Idle.stage = "idle" /\ seen'[j] = {} /\ read' = read
        /\ \A k \in HashJob : k # j => hash'[k] = hash[k]
        /\ \A k \in ReadJob \cup HashJob : k # j => seen'[k] = seen[k]
    BY <2>1 DEF HashInv, SeenInv, Idle, readVars
  <2>3. \A x \in Good : Current(x)' = Current(x)
    BY <2>1, CurrentKept
  <2>4. \A k \in ReadJob \cup HashJob : k # j =>
          /\ seen'[k] = seen[k] /\ (k \in ReadJob => read'[k] = read[k])
          /\ (k \notin ReadJob => hash'[k] = hash[k])
    BY <2>2
  <2>5. Requested(j)' = {} /\ GoodPart(seen'[j]) = {} /\ Answered(j)' = BS!NoAnswer
    BY <2>0, <2>2 DEF Requested, Answered, HashAnswer, BS!NoAnswer, GoodPart
  <2>6. CASE seen[j] = {}
    <3>1. Requested(j) = {} /\ Answered(j) = BS!NoAnswer
      BY <2>0, <2>2, <2>6 DEF Requested, Answered, HashAnswer, BS!NoAnswer
    <3>2. QED
      BY <2>2, <2>3, <2>4, <2>5, <2>6, <3>1, JobSame
  <2>7. CASE seen[j] # {}
    <3>1. /\ Contents' = Contents
          /\ Requests' = [Requests EXCEPT ![j] = Requested(j)']
          /\ Histories' = [Histories EXCEPT ![j] = GoodPart(seen'[j])]
          /\ Answers' = [Answers EXCEPT ![j] = Answered(j)']
      BY <2>3, <2>4, JobChanged
    <3>2. Answered(j).kind \in {"error", "data"}
      BY <2>0, <2>1, <2>7 DEF Answered, HashAnswer
    <3>3. Answers[j] # BS!NoAnswer
      BY SMTT(60), SMTT(90), <3>2, JobStands DEF BS!NoAnswer
    <3>4. BS!Forget(j)
      BY <2>5, <3>1, <3>3 DEF BS!Forget
    <3>5. QED
      BY <3>4 DEF BS!Next
  <2>8. QED
    BY <2>6, <2>7
<1> SUFFICES ASSUME ~TRANSFER_MAY_FAIL, IInv, RegInv, HashAction
             PROVE  RegInv' /\ (BS!Next \/ UNCHANGED BS!vars)
  OBVIOUS
<1> USE DEF HashAction
<1>0. WriteInv /\ ReadInv /\ HashInv /\ SeenInv
  BY DEF IInv
<1>1. CASE \E j \in HashJob, s \in Storage, p \in Piece : async_hash(j, s, p)
  BY <1>0, <1>1, <1>HashCallRegular, <1>HashIsAsk
<1>2. CASE StartHash
  <2>1. Head(hash_queue) \in HashJob
    BY SMTT(60), SMTT(90), <1>0, <1>2 DEF StartHash, HashInv, Queued
  <2>2. QED
    BY <1>0, <1>2, <2>1, <1>HashEndsRegular, <1>HashStepIsSilent
<1>3. CASE \E j \in HashJob : HashStep(j) \/ HandleHash(j)
  <2>1. PICK j \in HashJob : HashBlock(j) \/ HashSlice(j) \/ FinishHash(j) \/ FreeHash(j) \/ HandleHash(j)
    BY <1>3 DEF HashStep
  <2>2. RegInv'
    BY <1>0, <2>1, <1>HashLoopRegular, <1>HashEndsRegular
  <2>3. FreeHash(j) => hash[j].stage \in {"posted", "handled"}
    BY DEF FreeHash
  <2>4. BS!Next \/ UNCHANGED BS!vars
    BY <1>0, <2>1, <2>3, <1>HashStepIsSilent, <1>FinishHashIsAnswer, <1>HashIsForgotten
  <2>5. QED
    BY <2>2, <2>4
<1>4. QED
  BY <1>1, <1>2, <1>3
==============================================================================
