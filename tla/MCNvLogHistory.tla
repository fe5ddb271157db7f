---------------------------- MODULE MCNvLogHistory ----------------------------
(* Small instances of NvLogHistory. *)
EXTENDS NvLogHistory, TLC

WorkerSymmetry == Permutations(Workers)
=============================================================================
