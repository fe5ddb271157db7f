------------------------------ MODULE MCRamCache ------------------------------
(* Small instances of RamCache. *)
EXTENDS RamCache

CONSTANTS k1, k2, k3, k4

\* k1 and k2 have the same hash, k3 shares their bucket, k4 has another.
HashOfKey == k1 :> 2 @@ k2 :> 2 @@ k3 :> 4 @@ k4 :> 3

\* Overwriting makes a value longer, shorter, or is refused.
ShortLongNewer == {<<1, 0>>, <<1, 1>>, <<2, 0>>}

\* The threads are interchangeable, and so are two keys with one hash.
CacheSymmetry == Permutations(Threads) \cup Permutations({k1, k2})
=============================================================================
