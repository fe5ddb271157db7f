------------------------------ MODULE MCDatabase ------------------------------
(* Small instances of Database. *)
EXTENDS Database, TLC

Whole(o, k) == [size |-> "whole", n_data |-> 1, magic |-> "request",
                op |-> o, key |-> k]

\* SETs and GETs of every key, and one datagram for each reason to drop it.
Datagrams ==
    {Whole(o, k) : o \in {"get", "set", "delete"}, k \in Keys}
    \cup UNION {{[Whole("get", k) EXCEPT !.size = "short"],
                 [Whole("set", k) EXCEPT !.size = "cut"],
                 [Whole("get", k) EXCEPT !.n_data = 2],
                 [Whole("set", k) EXCEPT !.magic = "other"]} : k \in Keys}

DatabaseSymmetry == Permutations(Workers) \cup Permutations(Keys)
=============================================================================
