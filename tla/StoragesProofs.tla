--------------------------- MODULE StoragesProofs ---------------------------
(***************************************************************************)
(* SlotsAreSound is inductive together with the types and the lives of the *)
(* torrents; that jobs find their storage needs, in addition, that the     *)
(* handlers of jobs keep their torrent.                                    *)
(***************************************************************************)
EXTENDS Storages, FiniteSetTheorems, TLAPS

\* The provers a step is tried with, in this order, unless it names its own.
USE SMTT(30), ZenonT(40)

\* A torrent has an index as long as it is not gone, and no handler is left then.
LifeInv ==
  \A t \in Torrent :
    /\ holder[t] # -1 <=> life[t] # "none"
    /\ life[t] = "none" => posted[t] = {}

\* A job carries the index that its torrent has.
JobInv ==
  \A j \in Job :
    IF job[j].stage = "none" THEN job[j].torrent = NoTorrent
    ELSE /\ job[j].torrent \in Torrent
         /\ job[j].idx = holder[job[j].torrent] /\ job[j].idx # -1

IInv == TypeOK /\ SlotsAreSound /\ LifeInv /\ (HandlersHoldTorrent => JobInv)

\* The number of storages changes by one when a storage comes or goes.
LEMMA KeysCounted ==
  /\ IsFiniteSet(Keys) /\ Cardinality(Keys) \in Nat
  /\ \A i : i \notin Keys => Cardinality(Keys \cup {i}) = Cardinality(Keys) + 1
  /\ \A i \in Keys : Cardinality(Keys \ {i}) = Cardinality(Keys) - 1
<1>1. IsFiniteSet(0 .. MAX_INDEX)
  BY StoragesAssumption, FS_Interval
<1>2. IsFiniteSet(Keys)
  BY ZenonT(40), <1>1, FS_Subset DEF Keys
<1>3. QED
  BY <1>2, FS_AddElement, FS_RemoveElement, FS_CardinalityType

\* With no slot to give out again, the indices in use are the first ones.
LEMMA FullMap ==
  ASSUME SlotsAreSound, free_slots_ = <<>>
  PROVE  Keys = 0 .. Cardinality(Keys) - 1
<1>1. Cardinality(Keys) \in Nat
  BY KeysCounted
<1>2. Cardinality(Keys) + Len(free_slots_) - 1 = Cardinality(Keys) - 1
  BY <1>1
<1>3. {free_slots_[n] : n \in DOMAIN free_slots_} = {}
  OBVIOUS
<1>4. QED
  BY ZenonT(40), <1>2, <1>3 DEF SlotsAreSound

\* The initial state satisfies the inductive invariant.
LEMMA InitIInv == Init => IInv
<1> SUFFICES ASSUME Init PROVE IInv
  OBVIOUS
<1> USE StoragesAssumption DEF Init
<1>1. TypeOK
  BY DEF TypeOK, NoJob
<1>2. Keys = {} /\ Cardinality(Keys) = 0
  BY ZenonT(40), FS_EmptySet DEF Keys
<1>3. SlotsAreSound
  BY <1>2 DEF SlotsAreSound
<1>4. LifeInv /\ JobInv
  BY DEF LifeInv, JobInv, NoJob
<1>5. QED
  BY <1>1, <1>3, <1>4 DEF IInv

\* A change of the map marks the threads inside it, and keeps what jobs carry.
LEMMA MapChangesKeeps ==
  ASSUME TypeOK, MapChanges
  PROVE  /\ job' \in [Job -> [stage : {"none", "queued", "looking", "torn", "found"},
                              torrent : Torrent \cup {NoTorrent}, idx : -1 .. MAX_INDEX]]
         /\ \A j \in Job : /\ job'[j].torrent = job[j].torrent /\ job'[j].idx = job[j].idx
                           /\ job'[j].stage = "none" <=> job[j].stage = "none"
<1> DEFINE Rec == [stage : {"none", "queued", "looking", "torn", "found"},
                   torrent : Torrent \cup {NoTorrent}, idx : -1 .. MAX_INDEX]
<1>1. job \in [Job -> Rec]
  BY DEF TypeOK
<1>2. job' = [j \in Job |-> IF job[j].stage = "looking" THEN [job[j] EXCEPT !.stage = "torn"] ELSE job[j]]
  BY DEF MapChanges
<1>3. ASSUME NEW j \in Job
      PROVE  /\ job'[j] \in Rec /\ job'[j].torrent = job[j].torrent /\ job'[j].idx = job[j].idx
             /\ job'[j].stage = "none" <=> job[j].stage = "none"
  <2>1. job[j] \in Rec
    BY <1>1
  <2>2. CASE job[j].stage = "looking"
    <3>1. job'[j] = [job[j] EXCEPT !.stage = "torn"]
      BY <1>2, <2>2
    <3>2. QED
      BY <2>1, <2>2, <3>1
  <2>3. CASE job[j].stage # "looking"
    <3>1. job'[j] = job[j]
      BY <1>2, <2>3
    <3>2. QED
      BY <2>1, <3>1
  <2>4. QED
    BY <2>2, <2>3
<1>4. job' \in [Job -> Rec]
  BY Zenon, <1>2, <1>3
<1>5. QED
  BY Zenon, <1>3, <1>4

\* An index that is neither in use nor about to be given out again becomes t's.
LEMMA SlotTaken ==
  ASSUME IInv, NEW t \in Torrent, life[t] = "none", NEW idx \in 0 .. MAX_INDEX, idx \notin Keys,
         storages_' = [storages_ EXCEPT ![idx] = t], holder' = [holder EXCEPT ![t] = idx]
  PROVE  /\ Keys' = Keys \cup {idx}
         /\ Cardinality(Keys') = Cardinality(Keys) + 1
         /\ \A u \in Torrent : holder'[u] # -1 => storages_'[holder'[u]] = u
         /\ \A i \in Keys' : holder'[storages_'[i]] = i
<1> USE StoragesAssumption DEF IInv, TypeOK
<1>1. Keys' = Keys \cup {idx}
  BY DEF Keys
<1>2. holder[t] = -1
  BY DEF LifeInv
<1>3. \A i \in Keys : storages_[i] # t
  <2> SUFFICES ASSUME NEW i \in Keys, storages_[i] = t PROVE FALSE
    OBVIOUS
  <2>1. holder[t] = i
    BY DEF SlotsAreSound
  <2>2. i \in 0 .. MAX_INDEX
    BY DEF Keys
  <2>3. QED
    BY <1>2, <2>1, <2>2
<1>4. \A u \in Torrent : holder[u] # -1 => storages_[holder[u]] = u
  BY DEF SlotsAreSound
<1>5. \A u \in Torrent : u # t /\ holder'[u] # -1 => storages_'[holder'[u]] = u
  BY <1>4 DEF Keys
<1>6. storages_'[holder'[t]] = t
  OBVIOUS
<1>7. \A i \in Keys' : holder'[storages_'[i]] = i
  <2> SUFFICES ASSUME NEW i \in Keys' PROVE holder'[storages_'[i]] = i
    OBVIOUS
  <2>1. CASE i = idx
    BY <2>1
  <2>2. CASE i # idx
    <3>1. i \in Keys /\ storages_'[i] = storages_[i] /\ storages_[i] \in Torrent
      BY <2>2, <1>1 DEF Keys
    <3>2. holder[storages_[i]] = i /\ storages_[i] # t
      BY <3>1, <1>3 DEF SlotsAreSound
    <3>3. QED
      BY <3>1, <3>2
  <2>3. QED
    BY <2>1, <2>2
<1>8. QED
  BY <1>1, <1>5, <1>6, <1>7, KeysCounted

\* new_torrent takes a free slot or a new one, and preserves the inductive invariant.
LEMMA NewTorrentStep ==
  ASSUME IInv, NEW t \in Torrent, new_torrent(t)
  PROVE  IInv'
<1> USE StoragesAssumption
<1> DEFINE idx == IF free_slots_ = <<>> THEN Cardinality(Keys) ELSE Head(free_slots_)
<1>0. TypeOK /\ SlotsAreSound /\ LifeInv
  BY DEF IInv
<1>1. /\ life[t] = "none" /\ idx \in 0 .. MAX_INDEX
      /\ free_slots_' = (IF free_slots_ = <<>> THEN <<>> ELSE Tail(free_slots_))
      /\ storages_' = [storages_ EXCEPT ![idx] = IF @ = NoTorrent THEN t ELSE @]
      /\ holder' = [holder EXCEPT ![t] = idx]
      /\ life' = [life EXCEPT ![t] = "added"] /\ UNCHANGED <<posted, running>> /\ MapChanges
  BY DEF new_torrent
<1>2. free_slots_ \in Seq(0 .. MAX_INDEX) /\ Cardinality(Keys) \in Nat
  BY <1>0, KeysCounted DEF TypeOK
<1>3. idx \notin Keys
  <2>1. CASE free_slots_ = <<>>
    <3>1. Keys = 0 .. Cardinality(Keys) - 1
      BY <2>1, <1>0, FullMap
    <3>2. QED
      BY <2>1, <3>1, <1>2
  <2>2. CASE free_slots_ # <<>>
    <3>1. 1 \in DOMAIN free_slots_ /\ idx = free_slots_[1]
      BY <2>2, <1>2
    <3>2. QED
      BY <3>1, <1>0 DEF SlotsAreSound
  <2>3. QED
    BY <2>1, <2>2
<1>4. storages_' = [storages_ EXCEPT ![idx] = t]
  BY ZenonT(40), <1>1, <1>3 DEF Keys
<1>5. /\ Keys' = Keys \cup {idx}
      /\ Cardinality(Keys') = Cardinality(Keys) + 1
      /\ \A u \in Torrent : holder'[u] # -1 => storages_'[holder'[u]] = u
      /\ \A i \in Keys' : holder'[storages_'[i]] = i
  <2> HIDE DEF idx
  <2>1. QED
    BY ZenonT(40), <1>1, <1>3, <1>4, SlotTaken
<1>6. SlotsAreSound'
  <2>1. CASE free_slots_ = <<>>
    <3>1. free_slots_' = <<>> /\ idx = Cardinality(Keys)
      BY <2>1, <1>1
    <3>2. Keys = 0 .. Cardinality(Keys) - 1
      BY <2>1, <1>0, FullMap
    <3>3. Keys' = 0 .. Cardinality(Keys') - 1
      BY <3>1, <3>2, <1>2, <1>5
    <3>4. /\ {free_slots_'[n] : n \in DOMAIN free_slots_'} = {} /\ DOMAIN free_slots_' = {}
          /\ Cardinality(Keys') + Len(free_slots_') - 1 = Cardinality(Keys') - 1
      BY <3>1, <1>2, <1>5
    <3>5. QED
      BY ZenonT(40), <3>3, <3>4, <1>5 DEF SlotsAreSound
  <2>2. CASE free_slots_ # <<>>
    <3> DEFINE f == free_slots_
               g == free_slots_'
    <3>1. g = Tail(f) /\ idx = Head(f) /\ Len(g) = Len(f) - 1 /\ Len(f) \in Nat /\ Len(f) > 0
      BY <2>2, <1>1, <1>2
    <3>2. /\ \A n \in DOMAIN g : n + 1 \in DOMAIN f /\ g[n] = f[n + 1]
          /\ \A n \in DOMAIN f : n # 1 => n - 1 \in DOMAIN g /\ g[n - 1] = f[n]
          /\ 1 \in DOMAIN f /\ f[1] = idx
          /\ DOMAIN f = 1 .. Len(f) /\ DOMAIN g = 1 .. Len(g)
      <4>1. f \in Seq(0 .. MAX_INDEX) /\ f # <<>>
        BY <2>2, <1>2
      <4> HIDE DEF f
      <4>2. DOMAIN f = 1 .. Len(f) /\ DOMAIN Tail(f) = 1 .. Len(f) - 1 /\ Head(f) = f[1] /\ Len(f) > 0
        BY SMTT(30), <4>1
      <4>3. \A n \in 1 .. Len(f) - 1 : Tail(f)[n] = f[n + 1]
        BY SMTT(30), <4>1
      <4> HIDE DEF g, idx
      <4>4. QED
        BY SMTT(30), <3>1, <4>2, <4>3
    <3>3. /\ \A m, n \in DOMAIN f : f[m] = f[n] => m = n
          /\ \A n \in DOMAIN f : f[n] \notin Keys
          /\ Keys \cup {f[n] : n \in DOMAIN f} = 0 .. Cardinality(Keys) + Len(f) - 1
      BY <1>0 DEF SlotsAreSound
    <3> HIDE DEF f, g, idx
    <3>4. \A m, n \in DOMAIN g : g[m] = g[n] => m = n
      BY <3>1, <3>2, <3>3
    <3>5. \A n \in DOMAIN g : g[n] \notin Keys'
      <4> SUFFICES ASSUME NEW n \in DOMAIN g, g[n] \in Keys' PROVE FALSE
        OBVIOUS
      <4>1. g[n] = f[n + 1] /\ n + 1 \in DOMAIN f /\ n + 1 # 1
        BY <3>1, <3>2
      <4>2. f[n + 1] # f[1] /\ f[n + 1] \notin Keys
        BY <4>1, <3>2, <3>3
      <4>3. QED
        BY <4>1, <4>2, <3>2, <1>5
    <3>6. {f[n] : n \in DOMAIN f} = {idx} \cup {g[n] : n \in DOMAIN g}
      <4>1. \A n \in DOMAIN f : f[n] \in {idx} \cup {g[m] : m \in DOMAIN g}
        BY <3>2
      <4>2. \A n \in DOMAIN g : g[n] \in {f[m] : m \in DOMAIN f}
        BY <3>2
      <4>3. idx \in {f[m] : m \in DOMAIN f}
        BY <3>2
      <4>4. QED
        BY ONLY <4>1, <4>2, <4>3
    <3>7. Keys' \cup {g[n] : n \in DOMAIN g} = Keys \cup {f[n] : n \in DOMAIN f}
      BY <3>6, <1>5
    <3>8. Cardinality(Keys') + Len(g) - 1 = Cardinality(Keys) + Len(f) - 1
      BY <3>1, <1>2, <1>5
    <3>9. Keys' \cup {g[n] : n \in DOMAIN g} = 0 .. Cardinality(Keys') + Len(g) - 1
      BY <3>3, <3>7, <3>8
    <3>10. QED
      BY ZenonT(40), <3>4, <3>5, <3>9, <1>5 DEF SlotsAreSound, g
  <2>3. QED
    BY <2>1, <2>2
<1>7. TypeOK'
  <2>1. storages_' \in [0 .. MAX_INDEX -> Torrent \cup {NoTorrent}] /\ holder' \in [Torrent -> -1 .. MAX_INDEX]
    BY <1>0, <1>1, <1>4 DEF TypeOK
  <2>2. free_slots_' \in Seq(0 .. MAX_INDEX)
    <3>1. free_slots_ # <<>> => Tail(free_slots_) \in Seq(0 .. MAX_INDEX)
      BY <1>2
    <3>2. free_slots_' = <<>> => free_slots_' \in Seq(0 .. MAX_INDEX)
      OBVIOUS
    <3>3. QED
      BY ZenonT(40), <1>1, <3>1, <3>2
  <2>3. life' \in [Torrent -> {"none", "added", "active", "aborted"}]
    BY <1>0, <1>1 DEF TypeOK
  <2>4. QED
    BY <2>1, <2>2, <2>3, <1>0, <1>1, MapChangesKeeps DEF TypeOK
<1>8. LifeInv'
  BY <1>0, <1>1 DEF LifeInv, TypeOK
<1>9. HandlersHoldTorrent => JobInv'
  <2> SUFFICES ASSUME HandlersHoldTorrent, NEW j \in Job PROVE JobInv!(j)'
    BY DEF JobInv
  <2>1. JobInv!(j)
    BY DEF IInv, JobInv
  <2>2. holder[t] = -1
    BY <1>0, <1>1 DEF LifeInv
  <2>3. job[j].stage # "none" => job[j].torrent # t
    BY <2>1, <2>2
  <2>4. QED
    BY <2>1, <2>3, <1>0, <1>1, MapChangesKeeps DEF TypeOK
<1>10. QED
  BY <1>6, <1>7, <1>8, <1>9 DEF IInv

\* remove_torrent frees the slot of its torrent, and preserves the inductive invariant.
LEMMA RemoveTorrentStep ==
  ASSUME IInv, NEW t \in Torrent, remove_torrent(t)
  PROVE  IInv'
<1> USE StoragesAssumption
<1> DEFINE idx == holder[t]
           f == free_slots_
           g == free_slots_'
<1>0. TypeOK /\ SlotsAreSound /\ LifeInv
  BY DEF IInv
<1>1. /\ ~Held(t) /\ life[t] = "aborted" /\ posted[t] = {}
      /\ storages_' = [storages_ EXCEPT ![idx] = NoTorrent]
      /\ g = Append(f, idx)
      /\ holder' = [holder EXCEPT ![t] = -1]
      /\ life' = [life EXCEPT ![t] = "none"] /\ UNCHANGED <<posted, running>> /\ MapChanges
  BY DEF remove_torrent, Held
<1>2. f \in Seq(0 .. MAX_INDEX) /\ Cardinality(Keys) \in Nat
  BY <1>0, KeysCounted DEF TypeOK
<1>3. idx \in 0 .. MAX_INDEX /\ storages_[idx] = t /\ idx \in Keys
  BY <1>0, <1>1 DEF TypeOK, LifeInv, SlotsAreSound, Keys
<1>4. Keys' = Keys \ {idx}
  BY <1>0, <1>1, <1>3 DEF Keys, TypeOK
<1>5. Cardinality(Keys') = Cardinality(Keys) - 1
  BY <1>3, <1>4, KeysCounted
<1>6. SlotsAreSound'
  <2>1. \A u \in Torrent : holder'[u] # -1 => storages_'[holder'[u]] = u
    <3> SUFFICES ASSUME NEW u \in Torrent, holder'[u] # -1 PROVE storages_'[holder'[u]] = u
      OBVIOUS
    <3>1. u # t /\ holder'[u] = holder[u] /\ holder[u] \in 0 .. MAX_INDEX
      BY <1>0, <1>1 DEF TypeOK
    <3>2. storages_[holder[u]] = u
      BY <1>0, <3>1 DEF SlotsAreSound
    <3>3. holder[u] # idx
      BY <3>1, <3>2, <1>3
    <3>4. QED
      BY <3>1, <3>2, <3>3, <1>0, <1>1 DEF TypeOK
  <2>2. \A i \in Keys' : holder'[storages_'[i]] = i
    <3> SUFFICES ASSUME NEW i \in Keys' PROVE holder'[storages_'[i]] = i
      OBVIOUS
    <3>1. i \in Keys /\ i # idx /\ storages_'[i] = storages_[i] /\ storages_[i] \in Torrent
      BY <1>0, <1>1, <1>4 DEF Keys, TypeOK
    <3>2. holder[storages_[i]] = i
      BY <3>1, <1>0 DEF SlotsAreSound
    <3>3. storages_[i] # t
      BY <3>1, <3>2
    <3>4. QED
      BY <3>1, <3>2, <3>3, <1>0, <1>1 DEF TypeOK
  <2>3. /\ Len(g) = Len(f) + 1 /\ Len(f) \in Nat /\ g[Len(f) + 1] = idx
        /\ \A n \in DOMAIN f : n \in DOMAIN g /\ g[n] = f[n] /\ n # Len(f) + 1
        /\ \A n \in DOMAIN g : n \in DOMAIN f \/ n = Len(f) + 1
        /\ Len(f) + 1 \in DOMAIN g
    BY <1>1, <1>2, <1>3
  <2>4. /\ \A m, n \in DOMAIN f : f[m] = f[n] => m = n
        /\ \A n \in DOMAIN f : f[n] \notin Keys
        /\ Keys \cup {f[n] : n \in DOMAIN f} = 0 .. Cardinality(Keys) + Len(f) - 1
    BY <1>0 DEF SlotsAreSound
  <2> HIDE DEF f, g, idx
  <2>5. \A m, n \in DOMAIN g : g[m] = g[n] => m = n
    <3>1. \A n \in DOMAIN f : f[n] # idx
      BY <2>4, <1>3
    <3>2. QED
      BY <2>3, <2>4, <3>1
  <2>6. \A n \in DOMAIN g : g[n] \notin Keys'
    BY <2>3, <2>4, <1>4
  <2>7. {g[n] : n \in DOMAIN g} = {idx} \cup {f[n] : n \in DOMAIN f}
    <3>1. \A n \in DOMAIN g : g[n] \in {idx} \cup {f[m] : m \in DOMAIN f}
      BY <2>3
    <3>2. \A n \in DOMAIN f : f[n] \in {g[m] : m \in DOMAIN g}
      BY <2>3
    <3>3. idx \in {g[m] : m \in DOMAIN g}
      BY <2>3
    <3>4. QED
      BY ONLY <3>1, <3>2, <3>3
  <2>8. Keys' \cup {g[n] : n \in DOMAIN g} = Keys \cup {f[n] : n \in DOMAIN f}
    BY <2>7, <1>3, <1>4
  <2>9. Cardinality(Keys') + Len(g) - 1 = Cardinality(Keys) + Len(f) - 1
    BY <2>3, <1>2, <1>5
  <2>10. Keys' \cup {g[n] : n \in DOMAIN g} = 0 .. Cardinality(Keys') + Len(g) - 1
    BY <2>4, <2>8, <2>9
  <2>11. QED
    BY <2>1, <2>2, <2>5, <2>6, <2>10 DEF SlotsAreSound, g
<1>7. TypeOK'
  <2>1. storages_' \in [0 .. MAX_INDEX -> Torrent \cup {NoTorrent}]
    <3> HIDE DEF idx
    <3>1. QED
      BY ZenonT(40), <1>0, <1>1 DEF TypeOK
  <2>1a. -1 \in -1 .. MAX_INDEX /\ holder' \in [Torrent -> -1 .. MAX_INDEX]
    BY <1>0, <1>1 DEF TypeOK
  <2>2. free_slots_' \in Seq(0 .. MAX_INDEX)
    BY <1>1, <1>2, <1>3
  <2>3. life' \in [Torrent -> {"none", "added", "active", "aborted"}]
    BY <1>0, <1>1 DEF TypeOK
  <2>4. QED
    BY <2>1, <2>1a, <2>2, <2>3, <1>0, <1>1, MapChangesKeeps DEF TypeOK
<1>8. LifeInv'
  BY <1>0, <1>1 DEF LifeInv, TypeOK
<1>9. HandlersHoldTorrent => JobInv'
  <2> SUFFICES ASSUME HandlersHoldTorrent, NEW j \in Job PROVE JobInv!(j)'
    BY DEF JobInv
  <2>1. JobInv!(j)
    BY DEF IInv, JobInv
  <2>2. job[j].torrent # t
    BY <1>1 DEF Held
  <2>3. QED
    BY <2>1, <2>2, <1>0, <1>1, MapChangesKeeps DEF TypeOK
<1>10. QED
  BY <1>6, <1>7, <1>8, <1>9 DEF IInv

\* Every other step leaves the slots alone.
LEMMA SlotsKept ==
  ASSUME SlotsAreSound, UNCHANGED slotVars
  PROVE  SlotsAreSound'
<1>1. Keys' = Keys
  BY DEF Keys, slotVars
<1>2. storages_' = storages_ /\ free_slots_' = free_slots_ /\ holder' = holder
  BY DEF slotVars
<1>3. QED
  BY <1>1, <1>2 DEF SlotsAreSound

\* The control operations on a torrent preserve the inductive invariant.
LEMMA ControlStep ==
  ASSUME IInv, NEW t \in Torrent,
         \/ new_torrent_fails(t) \/ async_check_files(t) \/ async_stop_torrent(t)
         \/ \E h \in {"check_files", "stop_torrent"} : ControlHandler(t, h)
  PROVE  IInv'
<1>0. TypeOK /\ SlotsAreSound /\ LifeInv
  BY DEF IInv
<1>1. UNCHANGED <<storages_, free_slots_, holder, job>> /\ running' \in BOOLEAN
  BY ZenonT(40), <1>0 DEF TypeOK, new_torrent_fails, async_check_files, async_stop_torrent, ControlHandler, slotVars
<1>2. /\ life' \in [Torrent -> {"none", "added", "active", "aborted"}]
      /\ posted' \in [Torrent -> SUBSET {"check_files", "stop_torrent"}]
      /\ \A u \in Torrent : /\ life'[u] = "none" <=> life[u] = "none"
                            /\ life[u] = "none" => posted'[u] = posted[u]
  <2>1. CASE new_torrent_fails(t)
    BY <2>1, <1>0 DEF TypeOK, new_torrent_fails, lifeVars
  <2>2. CASE async_check_files(t)
    BY <2>2, <1>0 DEF TypeOK, async_check_files
  <2>3. CASE async_stop_torrent(t)
    BY <2>3, <1>0 DEF TypeOK, async_stop_torrent
  <2>4. ASSUME NEW h \in {"check_files", "stop_torrent"}, ControlHandler(t, h)
        PROVE  <1>2!:
    <3>1. life[t] # "none"
      BY <2>4, <1>0 DEF LifeInv, ControlHandler
    <3>2. QED
      BY <2>4, <3>1, <1>0 DEF TypeOK, ControlHandler
  <2>5. QED
    BY <2>1, <2>2, <2>3, <2>4
<1>3. TypeOK'
  BY <1>0, <1>1, <1>2 DEF TypeOK
<1>4. SlotsAreSound'
  BY <1>0, <1>1, SlotsKept DEF slotVars
<1>5. LifeInv'
  BY <1>0, <1>1, <1>2 DEF LifeInv
<1>6. HandlersHoldTorrent => JobInv'
  BY <1>1 DEF IInv, JobInv
<1>7. QED
  BY <1>3, <1>4, <1>5, <1>6 DEF IInv

\* The steps of jobs preserve the inductive invariant.
LEMMA JobStep ==
  ASSUME IInv, NEW j \in Job,
         \/ \E t \in Torrent : PostJob(j, t)
         \/ BeginLookup(j) \/ EndLookup(j) \/ LookupCrashes(j) \/ EndJob(j)
  PROVE  IInv'
<1>0. TypeOK /\ SlotsAreSound /\ LifeInv
  BY DEF IInv
<1>1. UNCHANGED <<storages_, free_slots_, holder, life, posted>> /\ running' \in BOOLEAN
  BY ZenonT(40), <1>0 DEF TypeOK, PostJob, BeginLookup, EndLookup, LookupCrashes, EndJob, slotVars, lifeVars
<1>2. /\ job' \in [Job -> [stage : {"none", "queued", "looking", "torn", "found"},
                           torrent : Torrent \cup {NoTorrent}, idx : -1 .. MAX_INDEX]]
      /\ \A i \in Job : i # j => job'[i] = job[i]
      /\ \/ \E t \in Torrent : /\ life[t] = "active"
                               /\ job'[j] = [stage |-> "queued", torrent |-> t, idx |-> holder[t]]
         \/ job'[j] = NoJob
         \/ /\ job[j].stage # "none" /\ job'[j].stage # "none"
            /\ job'[j].torrent = job[j].torrent /\ job'[j].idx = job[j].idx
  <2>1. ASSUME NEW t \in Torrent, PostJob(j, t) PROVE <1>2!:
    BY <2>1, <1>0 DEF TypeOK, PostJob
  <2>2. CASE BeginLookup(j) \/ EndLookup(j)
    <3>1. PICK s \in {"looking", "found"} : job' = [job EXCEPT ![j] = [@ EXCEPT !.stage = s]]
      BY <2>2 DEF BeginLookup, EndLookup
    <3>2. job[j].stage # "none"
      BY <2>2 DEF BeginLookup, EndLookup
    <3>3. QED
      BY ZenonT(40), <3>1, <3>2, <1>0 DEF TypeOK
  <2>3. CASE LookupCrashes(j)
    BY <2>3, <1>0 DEF TypeOK, LookupCrashes
  <2>4. CASE EndJob(j)
    BY <2>4, <1>0, StoragesAssumption DEF TypeOK, EndJob, NoJob
  <2>5. QED
    BY <2>1, <2>2, <2>3, <2>4
<1>3. TypeOK'
  BY <1>0, <1>1, <1>2 DEF TypeOK
<1>4. SlotsAreSound'
  BY <1>0, <1>1, SlotsKept DEF slotVars
<1>5. LifeInv'
  BY <1>0, <1>1 DEF LifeInv
<1>6. HandlersHoldTorrent => JobInv'
  <2> SUFFICES ASSUME HandlersHoldTorrent, NEW i \in Job PROVE JobInv!(i)'
    BY DEF JobInv
  <2>1. JobInv!(i) /\ JobInv!(j)
    BY DEF IInv, JobInv
  <2>2. CASE i # j
    BY <2>1, <2>2, <1>1, <1>2
  <2>3. CASE i = j
    BY <2>1, <2>3, <1>0, <1>1, <1>2 DEF NoJob, LifeInv
  <2>4. QED
    BY <2>2, <2>3
<1>7. QED
  BY <1>3, <1>4, <1>5, <1>6 DEF IInv

\* Every step preserves the inductive invariant.
LEMMA NextIInv == IInv /\ [Next]_vars => IInv'
<1> SUFFICES ASSUME IInv, [Next]_vars PROVE IInv'
  OBVIOUS
<1>1. CASE Next
  BY <1>1, NewTorrentStep, RemoveTorrentStep, ControlStep, JobStep DEF Next
<1>2. CASE UNCHANGED vars
  <2>1. UNCHANGED slotVars
    BY <1>2 DEF vars
  <2>2. SlotsAreSound'
    BY <2>1, SlotsKept DEF IInv
  <2>3. TypeOK' /\ LifeInv' /\ (HandlersHoldTorrent => JobInv')
    BY <1>2 DEF IInv, TypeOK, LifeInv, JobInv, vars, slotVars, lifeVars
  <2>4. QED
    BY <2>2, <2>3 DEF IInv
<1>3. QED
  BY <1>1, <1>2

\* The variables of the storages have their types.
THEOREM StoragesTypeOK == Spec => []TypeOK
<1>1. IInv => TypeOK
  BY DEF IInv
<1>2. QED
  BY <1>1, InitIInv, NextIInv, PTL DEF Spec

\* Whatever torrents are added and removed, in any order and whether or not jobs
\* keep them, new_torrent hands out an index that no other torrent has, and
\* remove_torrent's free list never holds an index twice or one in use.
THEOREM StoragesSlotsAreSound == Spec => []SlotsAreSound
<1>1. IInv => SlotsAreSound
  BY DEF IInv
<1>2. QED
  BY <1>1, InitIInv, NextIInv, PTL DEF Spec

\* As long as the handlers of its jobs keep a torrent, a job's index resolves to
\* its own torrent's storage, although indices are used again and the torrent is
\* stopped without waiting for the job.
THEOREM StoragesJobFindsItsStorage ==
  ASSUME HandlersHoldTorrent
  PROVE  Spec => []JobFindsItsStorage
<1>1. ASSUME IInv PROVE JobFindsItsStorage
  <2> SUFFICES ASSUME NEW j \in Job, job[j].stage \in {"found", "looking"}
               PROVE  storages_[job[j].idx] = job[j].torrent /\ job[j].idx \in Keys
    BY DEF JobFindsItsStorage
  <2>1. job[j].torrent \in Torrent /\ job[j].idx = holder[job[j].torrent] /\ job[j].idx # -1
    BY <1>1 DEF IInv, JobInv
  <2>2. job[j].idx \in 0 .. MAX_INDEX /\ storages_[job[j].idx] = job[j].torrent
    BY <1>1, <2>1, StoragesAssumption DEF IInv, TypeOK, SlotsAreSound
  <2>3. QED
    BY <2>1, <2>2, StoragesAssumption DEF Keys
<1>2. QED
  BY <1>1, InitIInv, NextIInv, PTL DEF Spec
=============================================================================
