------------------------------ MODULE MCSsdTable ------------------------------
(* Small instances of SsdTable. *)
EXTENDS SsdTable, TLC

CONSTANTS k1, k2

\* Threads that set different keys run at the same time.
OwnBuckets == k1 :> 0 @@ k2 :> 1

ThreadSymmetry == Permutations(Threads)
=============================================================================
