----------------------------- MODULE VersionStore -----------------------------
(***************************************************************************)
(* What the SSD table promises the layers above it: one register per key   *)
(* that holds the version of the last value stored under the key.  A       *)
(* stored version is one above the one it replaces; nothing is lost.       *)
(***************************************************************************)
EXTENDS Integers

CONSTANTS Keys

VARIABLE stored   \* version under each key, NoVersion before the first set

NoVersion == -1

Init == stored = [k \in Keys |-> NoVersion]

Store(k) == stored' = [stored EXCEPT ![k] = @ + 1]

Next == \E k \in Keys : Store(k)

Spec == Init /\ [][Next]_stored
=============================================================================
