---------------------------- MODULE MCDigestIndex ---------------------------
(* DigestIndex on small instances. *)
EXTENDS DigestIndex, TLC

CONSTANTS c1, c2, c3, k1, k2, r1, r2

Symmetry == Permutations(Callers) \cup Permutations(Keys) \cup Permutations(Refs)
=============================================================================
