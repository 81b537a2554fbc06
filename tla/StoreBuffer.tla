----------------------------- MODULE StoreBuffer -----------------------------
(***************************************************************************)
(* class store_buffer (store_buffer.hpp): the blocks whose write was        *)
(* accepted and is not yet on disk, by location.  An entry is a pointer to  *)
(* the buffer of a write job; every method holds m_mutex, the callback of   *)
(* get and get2 included, so each is one step.                              *)
(***************************************************************************)
CONSTANTS Location,   \* the torrent_locations (storage, piece, block offset)
          Buffer,     \* what an entry may point to
          NoBuffer    \* no entry: find() == end()

VARIABLE m_store_buffer

StoreBufferTypeOK == m_store_buffer \in [Location -> Buffer \cup {NoBuffer}]

StoreBufferInit == m_store_buffer = [l \in Location |-> NoBuffer]

\* Equal locations are equal in all three fields.
torrent_location(torrent, piece, offset) == <<torrent, piece, offset>>

hit(loc) == m_store_buffer[loc] # NoBuffer

\* The pointer the callback of get() is given; get2 reads two under one lock.
get(loc) == m_store_buffer[loc]

\* unordered_map::insert keeps an entry that is already there.
insert(loc, buf) ==
  m_store_buffer' = IF hit(loc) THEN m_store_buffer
                    ELSE [m_store_buffer EXCEPT ![loc] = buf]

erase(loc) == m_store_buffer' = [m_store_buffer EXCEPT ![loc] = NoBuffer]
=============================================================================
