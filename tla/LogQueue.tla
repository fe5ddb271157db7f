------------------------------- MODULE LogQueue -------------------------------
(***************************************************************************)
(* What the circular log promises: a queue of items that enter at the tail,*)
(* are claimed for writing out in the order they entered and each at most  *)
(* once, are released in any order, and leave only as a released prefix.   *)
(* NvLog (threads and item states) and NvRing (byte layout) implement it.  *)
(***************************************************************************)
EXTENDS Naturals, Sequences

VARIABLES
    queue,     \* for each item from head to tail: is it released?
    claimed    \* how many of them lie behind next

qvars == <<queue, claimed>>

Init == queue = <<>> /\ claimed = 0

Enter ==
    /\ queue' = Append(queue, FALSE)
    /\ UNCHANGED claimed

\* The oldest item not behind next is claimed, unless it is released already.
ClaimOldest ==
    /\ claimed < Len(queue)
    /\ ~queue[claimed + 1]
    /\ claimed' = claimed + 1
    /\ UNCHANGED queue

Release ==
    /\ \E i \in 1 .. Len(queue) :
         ~queue[i] /\ queue' = [queue EXCEPT ![i] = TRUE]
    /\ UNCHANGED claimed

Leave ==
    \E n \in 1 .. Len(queue) :
        /\ \A i \in 1 .. n : queue[i]
        /\ queue' = SubSeq(queue, n + 1, Len(queue))
        /\ claimed' = IF claimed < n THEN 0 ELSE claimed - n

Next == Enter \/ ClaimOldest \/ Release \/ Leave

Spec == Init /\ [][Next]_qvars
=============================================================================
