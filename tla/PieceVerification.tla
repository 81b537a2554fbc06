-------------------------- MODULE PieceVerification --------------------------
(***************************************************************************)
(* The life of a piece on top of RawDiskIO: its blocks arrive and are      *)
(* written, it is hashed as soon as the last write was issued (not         *)
(* finished), a good piece is served to peers, a bad one is cleared with   *)
(* async_clear_piece and downloaded again.  libtorrent's part is external, *)
(* modelled from the contract in raw_disk_io.hpp.                          *)
(***************************************************************************)
EXTENDS RawDiskIO

CONSTANTS GoodVal,     \* the content the torrent's hashes were made from
          MAX_CLEARS   \* bound on the failed hash checks of a piece

VARIABLES
  phase,     \* piece -> "downloading", "verifying", "clearing", "have" or "stopped"
  arrived,   \* piece -> the blocks written in this round
  clears     \* piece -> how often its hash check has failed

pieceVars == <<phase, arrived, clears>>
allVars == <<vars, pieceVars>>

PieceId == Storage \X Piece
Blocks(id) == {loc \in Location : loc[1] = id[1] /\ loc[2] = id[2]}

PieceInit ==
  /\ Init
  /\ phase = [id \in PieceId |-> "downloading"]
  /\ arrived = [id \in PieceId |-> {}]
  /\ clears = [id \in PieceId |-> 0]

\* A block comes in from a peer, with the right content or not.
ReceiveBlock(id) ==
  /\ phase[id] = "downloading"
  /\ \E loc \in Blocks(id) \ arrived[id], j \in WriteJob, o \in Observer, v \in Val :
       /\ async_write(j, o, loc, v)
       /\ arrived' = [arrived EXCEPT ![id] = @ \cup {loc}]
  /\ UNCHANGED <<phase, clears>>

\* The piece is complete once every block has been passed to async_write.
VerifyPiece(id) ==
  /\ phase[id] = "downloading" /\ arrived[id] = Blocks(id)
  /\ \E j \in HashJob : async_hash(j, id[1], id[2])
  /\ phase' = [phase EXCEPT ![id] = "verifying"]
  /\ UNCHANGED <<arrived, clears>>

\* The hash of what was fed to the hasher is the one in the torrent.
Passes(h) == h.ph = [n \in 1 .. piece_size[h.p] |-> <<n - 1, GoodVal>>]

\* The hash handler: on a mismatch it calls async_clear_piece.
PieceHashed(j) ==
  LET id == <<hash[j].s, hash[j].p>>
      verdict == IF hash[j].err THEN "stopped" ELSE IF Passes(hash[j]) THEN "have" ELSE "clearing"
  IN  /\ HandleHash(j)
      /\ phase' = [phase EXCEPT ![id] = verdict]
      /\ UNCHANGED <<arrived, clears>>

\* async_clear_piece posts its handler without further ado; the handler has the
\* blocks requested again.
async_clear_piece(id) ==
  /\ phase[id] = "clearing" /\ clears[id] < MAX_CLEARS
  /\ phase' = [phase EXCEPT ![id] = "downloading"]
  /\ arrived' = [arrived EXCEPT ![id] = {}]
  /\ clears' = [clears EXCEPT ![id] = @ + 1]
  /\ UNCHANGED vars

\* A peer asks for part of a piece we have.
ServeRequest(id) ==
  /\ phase[id] = "have"
  /\ \E j \in ReadJob, start \in 0 .. piece_size[id[2]] - 1, length \in 1 .. DEFAULT_BLOCK_SIZE :
       /\ start + length <= piece_size[id[2]]
       /\ async_read(j, id[1], id[2], start, length)
  /\ UNCHANGED pieceVars

PieceNext ==
  \/ \E id \in PieceId :
       ReceiveBlock(id) \/ VerifyPiece(id) \/ async_clear_piece(id) \/ ServeRequest(id)
  \/ \E j \in HashJob : PieceHashed(j)
  \/ Background /\ UNCHANGED pieceVars

PieceSpec == PieceInit /\ [][PieceNext]_allVars

-----------------------------------------------------------------------------
\* A piece that passed its first hash check is what the partition holds or will
\* hold, and what every peer is sent, although the check ran while the writes
\* and their erasure from store_buffer_ were under way.
VerifiedIsServed ==
  \A id \in PieceId : phase[id] = "have" /\ clears[id] = 0 =>
    /\ \A c \in Units(id[1], id[2], 0, piece_size[id[2]]) : Current(c) = GoodVal
    /\ \A j \in ReadJob :
         read[j].stage \in {"posted", "held"} /\ <<read[j].s, read[j].p>> = id =>
           \A d \in read[j].data : d[3] = GoodVal

\* "Whenever a client gets wrong data ... all we need to do is to re-transfer the
\* specific piece of data" (README.md): what is wrong on the partition when the
\* writes of a piece are over is not counted as had.
WrongDataIsFetchedAgain ==
  \A id \in PieceId : phase[id] = "have" =>
    \/ \E j \in WriteJob : Outstanding(j) /\ write[j].loc \in Blocks(id)
    \/ \A c \in Units(id[1], id[2], 0, piece_size[id[2]]) : disk[c] = GoodVal

\* "... to ensure there are no outstanding disk operations to the piece before
\* blocks are re-requested from peers to overwrite the existing blocks"
\* (raw_disk_io.hpp, async_clear_piece).
ClearSynchronizes ==
  [][\A id \in PieceId : phase[id] = "clearing" /\ phase'[id] = "downloading" =>
       ~ \E j \in WriteJob : Outstanding(j) /\ write[j].loc \in Blocks(id)]_allVars
=============================================================================
