------------------------------- MODULE MCNvLog -------------------------------
(* Small instances of NvLog: the workers are interchangeable. *)
EXTENDS NvLog, TLC

WorkerSymmetry == Permutations(Workers)
=============================================================================
