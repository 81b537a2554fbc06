----------------------------- MODULE BufferPool -----------------------------
(***************************************************************************)
(* class buffer_pool (buffer_pool.hpp, buffer_pool.cpp): a counted pool of *)
(* 16 KiB blocks with a high and a low watermark.  raw_disk_io owns two of *)
(* them, one for reads and hashes and one for writes.  Every method runs   *)
(* under m_pool_mutex, so each is one step; what a method returns is an    *)
(* argument of its operator, constrained to what the code returns.         *)
(***************************************************************************)
EXTENDS Integers, Sequences, FiniteSets

CONSTANTS
  BUFFER_COUNT,     \* 1024 in the build
  LOW_WATERMARK,    \* 512
  HIGH_WATERMARK,   \* 896
  Observer,         \* the disk_observers (one per peer connection)
  NoObserver,       \* a null shared_ptr<disk_observer>
  MALLOC_MAY_FAIL   \* whether malloc may return a null pointer

ASSUME PoolAssumption ==
  /\ BUFFER_COUNT \in Nat /\ LOW_WATERMARK \in Nat /\ HIGH_WATERMARK \in Nat
  /\ LOW_WATERMARK < HIGH_WATERMARK
  /\ HIGH_WATERMARK < BUFFER_COUNT
  /\ NoObserver \notin Observer
  /\ MALLOC_MAY_FAIL \in BOOLEAN

VARIABLES
  m_size,                \* buffers handed out and not yet freed
  m_exceeded_max_size,   \* writers are being held back
  m_observers            \* whom to call when the pool reopens

poolVars == <<m_size, m_exceeded_max_size, m_observers>>

PoolTypeOK ==
  /\ m_size \in 0..BUFFER_COUNT
  /\ m_exceeded_max_size \in BOOLEAN
  /\ m_observers \in SUBSET Observer

PoolInit ==
  /\ m_size = 0
  /\ m_exceeded_max_size = FALSE
  /\ m_observers = {}

-----------------------------------------------------------------------------
\* Bug: the limit is checked one buffer late.
allocate_buffer_impl_late(got) ==
  /\ got => m_size <= BUFFER_COUNT
  /\ ~got => m_size > BUFFER_COUNT \/ MALLOC_MAY_FAIL
  /\ m_exceeded_max_size' = (m_exceeded_max_size \/ ~got \/ m_size > HIGH_WATERMARK)
  /\ m_size' = IF got THEN m_size + 1 ELSE m_size

\* got: the returned pointer is not null.
allocate_buffer_impl(got) ==
  /\ got => m_size < BUFFER_COUNT
  /\ ~got => m_size >= BUFFER_COUNT \/ MALLOC_MAY_FAIL
  /\ m_exceeded_max_size' = (m_exceeded_max_size \/ ~got \/ m_size > HIGH_WATERMARK)
  /\ m_size' = IF got THEN m_size + 1 ELSE m_size

\* char *allocate_buffer(): reads and hashes; nobody asks to be called back.
allocate_buffer(got) ==
  /\ allocate_buffer_impl(got)
  /\ UNCHANGED m_observers

\* char *allocate_buffer(bool &exceeded, shared_ptr<disk_observer> o): writes.
\* The vector of weak pointers is kept as a set: a second entry of one observer
\* only calls its idempotent on_disk() twice.
allocate_buffer_observed(got, exceeded, o) ==
  /\ allocate_buffer_impl(got)
  /\ exceeded = m_exceeded_max_size'
  /\ m_observers' = IF exceeded /\ o # NoObserver THEN m_observers \cup {o} ELSE m_observers

\* The pool has drained: reopen it and hand the observers to watermark_callback.
Reopens(size) == m_exceeded_max_size /\ size <= LOW_WATERMARK

\* Bug: the pool reopens one buffer early and does not take its observers.
check_buffer_level_reopens_above(size) ==
  IF m_exceeded_max_size /\ size <= LOW_WATERMARK + 1
  THEN m_exceeded_max_size' = FALSE /\ UNCHANGED m_observers
  ELSE UNCHANGED <<m_exceeded_max_size, m_observers>>

check_buffer_level(size) ==
  IF Reopens(size)
  THEN m_exceeded_max_size' = FALSE /\ m_observers' = {}
  ELSE UNCHANGED <<m_exceeded_max_size, m_observers>>

\* Bug: the count is not given back.
free_disk_buffer_leaks == UNCHANGED m_size /\ check_buffer_level(m_size)

\* What it posts to the io_context is Posted(m_size - 1), below.
free_disk_buffer ==
  /\ m_size' = m_size - 1
  /\ check_buffer_level(m_size - 1)

\* The callbacks a free posts: one watermark_callback over the swapped-out
\* observers when the pool reopens, nothing otherwise.
Posted(size) == IF Reopens(size) THEN <<m_observers>> ELSE <<>>
=============================================================================
