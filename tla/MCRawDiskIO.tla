----------------------------- MODULE MCRawDiskIO -----------------------------
(* Instances of RawDiskIO for TLC. *)
EXTENDS RawDiskIORefinement, TLC

CONSTANT s1   \* the storage, for use in LastIsBad

\* Two blocks, the second one short.
ShortLast == [p \in Piece |-> 3]
OneBlock == [p \in Piece |-> DEFAULT_BLOCK_SIZE]

\* The short block lies in a file whose name is not a number.
LastIsBad == {<<s1, 0, 2>>}

\* One read or hash at a time against the writes.
OneRequest ==
  Cardinality({j \in ReadJob : read[j] # Idle} \cup {j \in HashJob : hash[j] # Idle}) <= 1

\* A write brings something new to its block.
WritesAreNews ==
  \A j \in WriteJob : write[j] = Idle /\ write'[j] # Idle =>
    \E c \in BlockOf(write'[j].loc) : Current(c) # write'[j].val

PeersStay == \A o \in Observer : peer[o] # "gone"

RequestSpec == Init /\ [][Next /\ OneRequest' /\ WritesAreNews /\ PeersStay']_vars
LiveSpec == Init /\ [][Next /\ OneRequest']_vars /\ Fairness

JobSymmetry == Permutations(WriteJob)
=============================================================================
