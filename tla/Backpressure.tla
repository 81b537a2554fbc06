---------------------------- MODULE Backpressure ----------------------------
(***************************************************************************)
(* The write buffer pool together with the peers it holds back and the     *)
(* io_context that carries its callbacks.  A peer whose async_write        *)
(* returned true stops sending until its disk_observer is called           *)
(* (raw_disk_io.hpp, comment of async_write); worker threads free buffers  *)
(* when their write is done; the network thread runs posted callbacks in   *)
(* order.  What the buffers hold is the business of RawDiskIO, which       *)
(* implements this specification.                                          *)
(***************************************************************************)
EXTENDS BufferPool

CONSTANT MAX_UNOBSERVED   \* bound on the writes issued without an observer

ASSUME UnobservedAssumption == MAX_UNOBSERVED \in Nat

VARIABLES
  peer,         \* libtorrent's side: "sending", "blocked" or "gone"
  posted,       \* watermark_callbacks in the io_context, oldest first
  unobserved    \* writes issued so far without an observer

vars == <<m_size, m_exceeded_max_size, m_observers, peer, posted, unobserved>>

TypeOK ==
  /\ PoolTypeOK
  /\ peer \in [Observer -> {"sending", "blocked", "gone"}]
  /\ posted \in Seq(SUBSET Observer)
  /\ unobserved \in 0..MAX_UNOBSERVED

Init ==
  /\ PoolInit
  /\ peer = [o \in Observer |-> "sending"]
  /\ posted = <<>>
  /\ unobserved = 0

-----------------------------------------------------------------------------
\* async_write for a peer, with a buffer or without (then the block is written in
\* place, which leaves the pool alone): the peer stops when the call returns true.
PeerWrite(o, got) ==
  /\ peer[o] = "sending"
  /\ \E exceeded \in BOOLEAN :
       /\ allocate_buffer_observed(got, exceeded, o)
       /\ peer' = IF exceeded THEN [peer EXCEPT ![o] = "blocked"] ELSE peer
  /\ UNCHANGED <<posted, unobserved>>

\* async_write with a null observer.
UnobservedWrite ==
  /\ unobserved < MAX_UNOBSERVED
  /\ unobserved' = unobserved + 1
  /\ \E got, exceeded \in BOOLEAN : allocate_buffer_observed(got, exceeded, NoObserver)
  /\ UNCHANGED <<peer, posted>>

\* A worker thread has finished a write and destroys its disk_buffer_holder.
FreeBuffer ==
  /\ m_size > 0
  /\ free_disk_buffer
  /\ posted' = posted \o Posted(m_size - 1)
  /\ UNCHANGED <<peer, unobserved>>

\* Bug: only one of the observers is called.
watermark_callback_first_only(cbs) ==
  LET first == CHOOSE o \in cbs : TRUE
  IN  IF cbs = {} THEN peer
      ELSE [peer EXCEPT ![first] = IF @ = "blocked" THEN "sending" ELSE @]

\* on_disk() on every observer that is still alive (weak_ptr::lock).
watermark_callback(cbs) ==
  [o \in Observer |-> IF o \in cbs /\ peer[o] = "blocked" THEN "sending" ELSE peer[o]]

\* The network thread runs the oldest posted callback.
RunCallback ==
  /\ posted # <<>>
  /\ peer' = watermark_callback(Head(posted))
  /\ posted' = Tail(posted)
  /\ UNCHANGED <<m_size, m_exceeded_max_size, m_observers, unobserved>>

\* The connection is closed; weak pointers to its observer expire.
Disconnect(o) ==
  /\ peer[o] # "gone"
  /\ peer' = [peer EXCEPT ![o] = "gone"]
  /\ UNCHANGED <<m_size, m_exceeded_max_size, m_observers, posted, unobserved>>

Next ==
  \/ \E o \in Observer, got \in BOOLEAN : PeerWrite(o, got)
  \/ \E o \in Observer : Disconnect(o)
  \/ UnobservedWrite
  \/ FreeBuffer
  \/ RunCallback

\* A queued write is picked up by a pool thread and pwrite returns, so buffers
\* come back; the session's network thread keeps running its io_context.
Fairness == WF_vars(FreeBuffer) /\ WF_vars(RunCallback)

Spec == Init /\ [][Next]_vars

FairSpec == Spec /\ Fairness

-----------------------------------------------------------------------------
\* A blocked peer is registered with the pool or already in a posted callback.
BlockedIsTracked ==
  \A o \in Observer : peer[o] = "blocked" =>
    o \in m_observers \/ \E i \in DOMAIN posted : o \in posted[i]

\* Registered observers wait for a closed pool, and a closed pool is above its
\* low watermark, so the free that reopens it is still to come.
ObserversWait ==
  /\ m_observers # {} => m_exceeded_max_size
  /\ m_exceeded_max_size => m_size > LOW_WATERMARK \/ MALLOC_MAY_FAIL

\* No wakeup is lost between a write that registers its observer, the frees of
\* other threads and the swap of the observer list: a peer that async_write told
\* to stop will be reached by a callback that is posted or by a later free.
NoLostWakeup == BlockedIsTracked /\ ObserversWait

\* A peer that async_write told to stop is eventually told to go on (or leaves):
\* "the peer will stop further writes and wait for the passed-in disk_observer to
\* be notified before resuming" (raw_disk_io.hpp).
BlockedPeerResumes == \A o \in Observer : peer[o] = "blocked" ~> peer[o] # "blocked"
=============================================================================
