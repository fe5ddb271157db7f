----------------------------- MODULE MCSegmentLog -----------------------------
(* Small instances of SegmentLog. *)
EXTENDS SegmentLog, TLC

CONSTANTS k1, k2, k3, w1, w2

\* With a large item after a small one, a segment of 10 units is nearly dead.
SmallLarge == k1 :> 2 @@ k2 :> 9 @@ k3 :> 9

\* k2 pushes k1 out of its bucket's only slot, k3 does not.
TwoBuckets == k1 :> 0 @@ k2 :> 0 @@ k3 :> 1

\* What the known hazards lead to is not explored further.
Unharmed == harm = {}

\* One worker gets to clean and to run out of memory, the other interferes.
ThreeOne == w1 :> 3 @@ w2 :> 1
=============================================================================
