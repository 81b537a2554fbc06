--------------------------- MODULE PieceInvariant ----------------------------
(***************************************************************************)
(* The inductive invariant of PieceVerification: what holds of a piece     *)
(* until its hash check fails, whatever happens to the other pieces.       *)
(***************************************************************************)
EXTENDS PieceVerification, RawDiskIOInvariant

PieceCells(id) == Units(id[1], id[2], 0, piece_size[id[2]])

\* A read of the piece has in its buffer, and has still to read from the
\* partition, what a request made now would see.
ReadFresh(id, j) ==
  /\ phase[id] # "downloading"
  /\ ReadSound(read[j], Now(PieceCells(id)), disk)

\* So does a hash, and what it has fed to the hasher is that too.
HashFresh(id, j) ==
  /\ phase[id] # "downloading"
  /\ ~hash[j].err => HashSound(hash[j], Now(PieceCells(id)), disk)

ReadsOf(id) == {j \in ReadJob : read[j] # Idle /\ <<read[j].s, read[j].p>> = id}
HashesOf(id) ==
  {j \in HashJob : hash[j].stage \notin {"idle", "handled"} /\ <<hash[j].s, hash[j].p>> = id}

\* Each block of the piece was written at most once, requests came after the
\* writes, and a piece we have is right.
FreshInv(id) ==
  /\ Settled(Blocks(id))
  /\ \A j \in WriteJob : UnderWay(j) /\ write[j].loc \in Blocks(id) => write[j].loc \in arrived[id]
  /\ \A j \in ReadsOf(id) : ReadFresh(id, j)
  /\ \A j \in HashesOf(id) : HashFresh(id, j)
  /\ phase[id] = "have" => \A c \in PieceCells(id) : Current(c) = GoodVal

PieceTypes ==
  /\ phase \in [PieceId -> {"downloading", "verifying", "clearing", "have", "stopped"}]
  /\ arrived \in [PieceId -> SUBSET Location]
  /\ clears \in [PieceId -> Nat]

PieceInv == PieceTypes /\ \A id \in PieceId : clears[id] = 0 => FreshInv(id)
==============================================================================
