------------------------------- MODULE MCNvRing -------------------------------
(* Small instances of NvRing. *)
EXTENDS NvRing

\* <<keylen, vallen>>: with these sizes headers, payloads and gaps meet the end
\* of the buffer at every distance.
SmallSizes == {<<1, 0>>, <<1, 1>>}
MixedSizes == {<<1, 0>>, <<1, 2>>, <<2, 5>>}
=============================================================================
