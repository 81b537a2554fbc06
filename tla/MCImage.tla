------------------------------ MODULE MCImage ------------------------------
(* Instances of EzioNbd for TLC. *)
EXTENDS EzioNbd, TLC

\* Four extents in base 3, of 2, 1, 3 and 2 units: the first three are adjacent, and
\* there are unused places before, between and behind.
FourExtents ==
  << [offset |-> <<0, 1>>, length |-> 2], [offset |-> <<1, 0>>, length |-> 1],
     [offset |-> <<1, 1>>, length |-> 3], [offset |-> <<2, 2>>, length |-> 2] >>

\* The image is served once it has been deployed.
DeployThenServe ==
  IF written = Block THEN NbdNext ELSE PartitionNext /\ UNCHANGED nbdVars

ImageSpec == Init /\ [][DeployThenServe]_vars

ReaderSymmetry == Permutations(Reader)
=============================================================================
