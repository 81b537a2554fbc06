------------------------- MODULE MCPieceVerification -------------------------
(* Instances of PieceVerification for TLC. *)
EXTENDS PieceVerification, TLC

ShortLast == [p \in Piece |-> 3]

JobSymmetry == Permutations(WriteJob)
=============================================================================
