--------------------------- MODULE MCBackpressure ---------------------------
(* Backpressure for TLC.  The peers are interchangeable, but liveness is     *)
(* checked too, so no symmetry is declared.                                  *)
EXTENDS Backpressure
=============================================================================
