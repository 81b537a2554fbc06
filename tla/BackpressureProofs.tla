------------------------- MODULE BackpressureProofs -------------------------
(***************************************************************************)
(* Proofs about Backpressure for every pool size, every pair of watermarks *)
(* and every set of peers: its type invariant, and that no wakeup is lost. *)
(***************************************************************************)
EXTENDS Backpressure, TLAPS

\* The provers a step is tried with, in this order, unless it names its own.
USE SMTT(30), ZenonT(40)

\* Every step of the write pool keeps the types: in particular m_size stays
\* between 0 and BUFFER_COUNT whatever the order of allocations and frees.
THEOREM TypeCorrect == Spec => []TypeOK
<1>1. Init => TypeOK
  <2> SUFFICES ASSUME Init
               PROVE  TypeOK
    OBVIOUS
  <2> USE DEF Init, PoolInit
  <2>1. PoolTypeOK
    <3>1. m_size \in 0..BUFFER_COUNT
      BY PoolAssumption
    <3>2. m_exceeded_max_size \in BOOLEAN /\ m_observers \in SUBSET Observer
      BY Zenon
    <3>3. QED
      BY <3>1, <3>2 DEF PoolTypeOK
  <2>2. posted \in Seq(SUBSET Observer)
    OBVIOUS
  <2>3. peer \in [Observer -> {"sending", "blocked", "gone"}] /\ unobserved \in 0..MAX_UNOBSERVED
    BY UnobservedAssumption
  <2>4. QED
    BY <2>1, <2>2, <2>3 DEF TypeOK
<1>2. TypeOK /\ [Next]_vars => TypeOK'
  <2> SUFFICES ASSUME TypeOK, [Next]_vars
               PROVE  TypeOK'
    OBVIOUS
  <2> USE PoolAssumption, UnobservedAssumption DEF TypeOK, PoolTypeOK
  <2>1. ASSUME NEW o \in Observer, NEW got \in BOOLEAN, PeerWrite(o, got)
        PROVE  TypeOK'
    BY <2>1 DEF PeerWrite, allocate_buffer_observed, allocate_buffer_impl
  <2>2. ASSUME NEW o \in Observer, Disconnect(o)
        PROVE  TypeOK'
    BY <2>2 DEF Disconnect
  <2>3. CASE UnobservedWrite
    BY <2>3 DEF UnobservedWrite, allocate_buffer_observed, allocate_buffer_impl
  <2>4. CASE FreeBuffer
    <3> USE <2>4 DEF FreeBuffer, free_disk_buffer, check_buffer_level
    <3>1. PoolTypeOK'
      <4>1. m_size' \in 0..BUFFER_COUNT
        OBVIOUS
      <4>2. m_exceeded_max_size' \in BOOLEAN /\ m_observers' \in SUBSET Observer
        BY ZenonT(40)
      <4>3. QED
        BY <4>1, <4>2
    <3>2. Posted(m_size - 1) \in Seq(SUBSET Observer)
      <4>1. <<m_observers>> \in Seq(SUBSET Observer) /\ <<>> \in Seq(SUBSET Observer)
        OBVIOUS
      <4>2. QED
        BY ZenonT(40), <4>1 DEF Posted
    <3>3. posted' \in Seq(SUBSET Observer)
      BY <3>2
    <3>4. QED
      BY <3>1, <3>3
  <2>5. CASE RunCallback
    BY <2>5 DEF RunCallback, watermark_callback
  <2>6. CASE UNCHANGED vars
    BY <2>6 DEF vars
  <2>7. QED
    BY <2>1, <2>2, <2>3, <2>4, <2>5, <2>6 DEF Next
<1>3. QED
  BY <1>1, <1>2, PTL DEF Spec

\* The inductive step of NoLostWakeup.
LEMMA NoLostWakeupStep == TypeOK /\ NoLostWakeup /\ [Next]_vars => NoLostWakeup'
<1> SUFFICES ASSUME TypeOK, NoLostWakeup, [Next]_vars
             PROVE  NoLostWakeup'
  OBVIOUS
<1> USE PoolAssumption DEF TypeOK, PoolTypeOK, NoLostWakeup
<1>1. ASSUME NEW o \in Observer, NEW got \in BOOLEAN, PeerWrite(o, got)
      PROVE  NoLostWakeup'
  <2> USE DEF PeerWrite, allocate_buffer_observed, allocate_buffer_impl
  <2>1. BlockedIsTracked'
    BY <1>1 DEF BlockedIsTracked
  <2>2. ObserversWait'
    BY <1>1 DEF ObserversWait
  <2>3. QED
    BY <2>1, <2>2
<1>2. ASSUME NEW o \in Observer, Disconnect(o)
      PROVE  NoLostWakeup'
  BY <1>2 DEF Disconnect, BlockedIsTracked, ObserversWait
<1>3. CASE UnobservedWrite
  <2> USE DEF UnobservedWrite, allocate_buffer_observed, allocate_buffer_impl
  <2>1. BlockedIsTracked'
    BY <1>3 DEF BlockedIsTracked
  <2>2. ObserversWait'
    BY <1>3 DEF ObserversWait
  <2>3. QED
    BY <2>1, <2>2
<1>4. CASE FreeBuffer
  <2> USE DEF FreeBuffer, free_disk_buffer, check_buffer_level, Posted, Reopens
  <2>1. CASE Reopens(m_size - 1)
    <3>1. posted' = Append(posted, m_observers)
      BY <1>4, <2>1
    <3>2. /\ DOMAIN posted \subseteq DOMAIN posted'
          /\ \A i \in DOMAIN posted : posted'[i] = posted[i]
          /\ Len(posted) + 1 \in DOMAIN posted'
          /\ posted'[Len(posted) + 1] = m_observers
      BY <3>1
    <3>3. BlockedIsTracked'
      BY <1>4, <2>1, <3>2 DEF BlockedIsTracked
    <3>4. ObserversWait'
      BY <1>4, <2>1 DEF ObserversWait
    <3>5. QED
      BY <3>3, <3>4
  <2>2. CASE ~Reopens(m_size - 1)
    <3>1. posted' = posted
      BY <1>4, <2>2
    <3>2. BlockedIsTracked'
      BY <1>4, <2>2, <3>1 DEF BlockedIsTracked
    <3>3. ObserversWait'
      BY <1>4, <2>2 DEF ObserversWait
    <3>4. QED
      BY <3>2, <3>3
  <2>3. QED
    BY <2>1, <2>2
<1>5. CASE RunCallback
  <2>1. ASSUME NEW o \in Observer, peer'[o] = "blocked"
        PROVE  o \in m_observers' \/ \E i \in DOMAIN posted' : o \in posted'[i]
    <3>1. peer[o] = "blocked" /\ o \notin Head(posted)
      BY <1>5, <2>1 DEF RunCallback, watermark_callback
    <3>2. CASE o \in m_observers
      BY <1>5, <3>2 DEF RunCallback
    <3>3. CASE o \notin m_observers
      <4>1. PICK i \in DOMAIN posted : o \in posted[i]
        BY <3>1, <3>3 DEF BlockedIsTracked
      <4>2. i # 1
        BY <1>5, <3>1, <4>1 DEF RunCallback
      <4>3. i - 1 \in DOMAIN posted' /\ posted'[i - 1] = posted[i]
        BY <1>5, <4>1, <4>2 DEF RunCallback
      <4>4. QED
        BY <4>1, <4>3
    <3>4. QED
      BY <3>2, <3>3
  <2>2. ObserversWait'
    BY <1>5 DEF RunCallback, ObserversWait
  <2>3. QED
    BY <2>1, <2>2 DEF BlockedIsTracked
<1>6. CASE UNCHANGED vars
  BY <1>6 DEF vars, BlockedIsTracked, ObserversWait
<1>7. QED
  BY <1>1, <1>2, <1>3, <1>4, <1>5, <1>6 DEF Next

\* For every pool size, watermarks and peers: a peer that async_write told to stop
\* is registered with a pool that has still to drain, or is in a posted callback.
THEOREM WakeupsAreNotLost == Spec => []NoLostWakeup
<1>1. Init => NoLostWakeup
  BY DEF Init, PoolInit, NoLostWakeup, BlockedIsTracked, ObserversWait
<1>2. QED
  BY <1>1, TypeCorrect, NoLostWakeupStep, PTL DEF Spec
=============================================================================
