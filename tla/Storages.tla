------------------------------ MODULE Storages ------------------------------
(***************************************************************************)
(* The storages of raw_disk_io: storages_ maps an index to the             *)
(* partition_storage of a torrent, free_slots_ holds the indices of        *)
(* removed torrents.  new_torrent, remove_torrent and the control          *)
(* operations run on the network thread; the jobs of RawDiskIO look their  *)
(* storage up on pool threads with storages_[idx], without a lock.  A      *)
(* lookup is therefore a beginning and an end, and one that overlaps a     *)
(* change of the map is a data race: it finds the storage or the process   *)
(* crashes.                                                                *)
(***************************************************************************)
EXTENDS Integers, Sequences, FiniteSets

CONSTANTS
  Torrent, NoTorrent,
  Job,               \* bound on the jobs in flight
  MAX_INDEX,         \* bound on the indices (one for each torrent is enough)
  HandlersHoldTorrent  \* libtorrent: does a job's handler keep its torrent?

ASSUME StoragesAssumption ==
  /\ IsFiniteSet(Torrent)
  /\ NoTorrent \notin Torrent
  /\ MAX_INDEX \in Nat
  /\ HandlersHoldTorrent \in BOOLEAN

VARIABLES
  storages_,     \* index -> torrent whose storage it is, NoTorrent: no such key
  free_slots_,   \* indices to use again, oldest first
  holder,        \* torrent -> the index in its storage_holder, -1: none
  life,          \* torrent -> "none", "added", "active" or "aborted"
  posted,        \* torrent -> its control handlers posted to ioc_ and not yet run
  job,           \* a job: its torrent, the index it was given, its stage
  running        \* FALSE once the process has exited or crashed

slotVars == <<storages_, free_slots_, holder>>
lifeVars == <<life, posted>>
vars == <<slotVars, lifeVars, job, running>>

NoJob == [stage |-> "none", torrent |-> NoTorrent, idx |-> -1]

TypeOK ==
  /\ storages_ \in [0 .. MAX_INDEX -> Torrent \cup {NoTorrent}]
  /\ free_slots_ \in Seq(0 .. MAX_INDEX)
  /\ holder \in [Torrent -> -1 .. MAX_INDEX]
  /\ life \in [Torrent -> {"none", "added", "active", "aborted"}]
  /\ posted \in [Torrent -> SUBSET {"check_files", "stop_torrent"}]
  /\ job \in [Job -> [stage : {"none", "queued", "looking", "torn", "found"},
                      torrent : Torrent \cup {NoTorrent}, idx : -1 .. MAX_INDEX]]
  /\ running \in BOOLEAN

Init ==
  /\ storages_ = [i \in 0 .. MAX_INDEX |-> NoTorrent]
  /\ free_slots_ = <<>>
  /\ holder = [t \in Torrent |-> -1]
  /\ life = [t \in Torrent |-> "none"]
  /\ posted = [t \in Torrent |-> {}]
  /\ job = [j \in Job |-> NoJob]
  /\ running = TRUE

Keys == {i \in 0 .. MAX_INDEX : storages_[i] # NoTorrent}

-----------------------------------------------------------------------------
\* What a change of the map does to the threads that are inside it.
MapChanges == job' = [j \in Job |-> IF job[j].stage = "looking" THEN [job[j] EXCEPT !.stage = "torn"]
                                    ELSE job[j]]

\* Bug: the index is always the size of the map.
new_torrent_never_reuses(t) ==
  LET idx == Cardinality(Keys)
  IN  /\ running /\ life[t] = "none"
      /\ idx \in 0 .. MAX_INDEX
      /\ storages_' = [storages_ EXCEPT ![idx] = IF @ = NoTorrent THEN t ELSE @]
      /\ holder' = [holder EXCEPT ![t] = idx]
      /\ life' = [life EXCEPT ![t] = "added"]
      /\ MapChanges
      /\ UNCHANGED <<free_slots_, posted, running>>

\* Bug: an index that is used again stays in free_slots_.
new_torrent_keeps_slot(t) ==
  LET idx == IF free_slots_ = <<>> THEN Cardinality(Keys) ELSE Head(free_slots_)
  IN  /\ running /\ life[t] = "none"
      /\ idx \in 0 .. MAX_INDEX
      /\ storages_' = [storages_ EXCEPT ![idx] = IF @ = NoTorrent THEN t ELSE @]
      /\ holder' = [holder EXCEPT ![t] = idx]
      /\ life' = [life EXCEPT ![t] = "added"]
      /\ MapChanges
      /\ UNCHANGED <<free_slots_, posted, running>>

\* emplace does nothing when the key is there.
new_torrent(t) ==
  LET idx == IF free_slots_ = <<>> THEN Cardinality(Keys) ELSE Head(free_slots_)
  IN  /\ running /\ life[t] = "none"
      /\ idx \in 0 .. MAX_INDEX
      /\ free_slots_' = IF free_slots_ = <<>> THEN <<>> ELSE Tail(free_slots_)
      /\ storages_' = [storages_ EXCEPT ![idx] = IF @ = NoTorrent THEN t ELSE @]
      /\ holder' = [holder EXCEPT ![t] = idx]
      /\ life' = [life EXCEPT ![t] = "added"]
      /\ MapChanges
      /\ UNCHANGED <<posted, running>>

\* The constructor of partition_storage cannot open the partition: exit(1).
new_torrent_fails(t) ==
  /\ running /\ life[t] = "none"
  /\ running' = FALSE
  /\ UNCHANGED <<slotVars, lifeVars, job>>

\* Nothing is checked: the handler is posted at once.
async_check_files(t) ==
  /\ running /\ life[t] = "added" /\ posted[t] = {}
  /\ posted' = [posted EXCEPT ![t] = {"check_files"}]
  /\ UNCHANGED <<slotVars, life, job, running>>

\* Nothing is flushed and no job is waited for: the handler is posted at once.
async_stop_torrent(t) ==
  /\ running /\ life[t] \in {"added", "active"}
  /\ life' = [life EXCEPT ![t] = "aborted"]
  /\ posted' = [posted EXCEPT ![t] = @ \cup {"stop_torrent"}]
  /\ UNCHANGED <<slotVars, job, running>>

\* libtorrent's handlers; a torrent that is being aborted ignores the check.
ControlHandler(t, h) ==
  /\ running /\ h \in posted[t]
  /\ posted' = [posted EXCEPT ![t] = @ \ {h}]
  /\ life' = IF life[t] = "added" THEN [life EXCEPT ![t] = "active"] ELSE life
  /\ UNCHANGED <<slotVars, job, running>>

\* Who keeps a torrent: the session until it is aborted, handlers still to run.
Held(t) ==
  \/ life[t] # "aborted" \/ posted[t] # {}
  \/ HandlersHoldTorrent /\ \E j \in Job : job[j].torrent = t

\* Bug: the index is read from the holder after it was reset.
remove_torrent_frees_reset(t) ==
  /\ running /\ ~Held(t)
  /\ storages_' = [storages_ EXCEPT ![holder[t]] = NoTorrent]
  /\ holder' = [holder EXCEPT ![t] = -1]
  /\ free_slots_' = Append(free_slots_, holder'[t])
  /\ life' = [life EXCEPT ![t] = "none"]
  /\ MapChanges
  /\ UNCHANGED <<posted, running>>

\* The torrent's storage_holder is destroyed.
remove_torrent(t) ==
  /\ running /\ ~Held(t)
  /\ storages_' = [storages_ EXCEPT ![holder[t]] = NoTorrent]
  /\ free_slots_' = Append(free_slots_, holder[t])
  /\ holder' = [holder EXCEPT ![t] = -1]
  /\ life' = [life EXCEPT ![t] = "none"]
  /\ MapChanges
  /\ UNCHANGED <<posted, running>>

\* async_read, async_write or async_hash posts a job to a thread pool.
PostJob(j, t) ==
  /\ running /\ job[j] = NoJob /\ life[t] = "active"
  /\ job' = [job EXCEPT ![j] = [stage |-> "queued", torrent |-> t, idx |-> holder[t]]]
  /\ UNCHANGED <<slotVars, lifeVars, running>>

\* A pool thread enters storages_[idx] ...
BeginLookup(j) ==
  /\ running /\ job[j].stage = "queued"
  /\ job' = [job EXCEPT ![j].stage = "looking"]
  /\ UNCHANGED <<slotVars, lifeVars, running>>

\* ... and leaves it with a storage ...
EndLookup(j) ==
  /\ running /\ job[j].stage \in {"looking", "torn"} /\ job[j].idx \in Keys
  /\ job' = [job EXCEPT ![j].stage = "found"]
  /\ UNCHANGED <<slotVars, lifeVars, running>>

\* ... or dereferences the null pointer that operator[] makes for a missing key,
\* or whatever a map that changes under its feet leads to.
LookupCrashes(j) ==
  /\ running /\ job[j].stage \in {"looking", "torn"}
  /\ job[j].stage = "looking" => job[j].idx \notin Keys
  /\ running' = FALSE
  /\ UNCHANGED <<slotVars, lifeVars, job>>

\* The transfer is over and the handler has run.
EndJob(j) ==
  /\ running /\ job[j].stage = "found"
  /\ job' = [job EXCEPT ![j] = NoJob]
  /\ UNCHANGED <<slotVars, lifeVars, running>>

Next ==
  \/ \E t \in Torrent :
       \/ new_torrent(t) \/ new_torrent_fails(t) \/ remove_torrent(t)
       \/ async_check_files(t) \/ async_stop_torrent(t)
       \/ \E h \in {"check_files", "stop_torrent"} : ControlHandler(t, h)
  \/ \E j \in Job, t \in Torrent : PostJob(j, t)
  \/ \E j \in Job : BeginLookup(j) \/ EndLookup(j) \/ LookupCrashes(j) \/ EndJob(j)

Spec == Init /\ [][Next]_vars

-----------------------------------------------------------------------------
\* Each torrent's index is a key of storages_ with its own storage, no index is
\* both in use and free or free twice, and the next fresh index, storages_.size(),
\* is past all the others: no sequence of additions and removals makes emplace
\* hit an existing key.
SlotsAreSound ==
  /\ \A t \in Torrent : holder[t] # -1 => storages_[holder[t]] = t
  /\ \A i \in Keys : holder[storages_[i]] = i
  /\ \A m, n \in DOMAIN free_slots_ : free_slots_[m] = free_slots_[n] => m = n
  /\ \A n \in DOMAIN free_slots_ : free_slots_[n] \notin Keys
  /\ Keys \cup {free_slots_[n] : n \in DOMAIN free_slots_}
       = 0 .. Cardinality(Keys) + Len(free_slots_) - 1

\* A job works on the partition of the torrent it was posted for, although the
\* index is only resolved when a thread gets to it and indices are used again;
\* and a lookup crashes only when it overlaps a change of the map.
JobFindsItsStorage ==
  \A j \in Job :
    /\ job[j].stage = "found" => storages_[job[j].idx] = job[j].torrent
    /\ job[j].stage = "looking" => job[j].idx \in Keys
=============================================================================
