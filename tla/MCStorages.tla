----------------------------- MODULE MCStorages -----------------------------
(* Instances of Storages for TLC. *)
EXTENDS Storages, TLC

StoragesSymmetry == Permutations(Torrent) \cup Permutations(Job)
=============================================================================
