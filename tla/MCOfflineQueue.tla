--------------------------- MODULE MCOfflineQueue ---------------------------
(***************************************************************************)
(* Small instances of OfflineQueue for TLC.                                *)
(***************************************************************************)
EXTENDS OfflineQueue, TLC

MCSymmetry == Permutations(Ops) \cup Permutations(Threads)
=============================================================================
