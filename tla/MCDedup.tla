------------------------------ MODULE MCDedup -------------------------------
(***************************************************************************)
(* Dedup on small instances: two files that hold the same two payloads in  *)
(* opposite orders.  The copy r3 of payload a is too small to gain         *)
(* anything from a revisit, and r5 is no candidate.                        *)
(***************************************************************************)
EXTENDS Dedup, TLC

CONSTANTS w1, w2, f1, f2, r1, r2, r3, r4, r5, a, b

OwnKey    == [f \in Files |-> f]                           \* a path each

MCContents == [f \in Files |-> IF f = f1 THEN <<r1, r2>> ELSE <<r4, r3, r5>>]
MCDigest   == [r \in Records |-> CASE r \in {r1, r3} -> a
                                   [] r \in {r2, r4}     -> b
                                   [] r = r5             -> NoDigest]
MCSize     == [r \in Records |-> IF r = r3 THEN 3 ELSE 9]
MCRefSize  == [r \in Records |-> 2]

Symmetry == Permutations(Workers)
=============================================================================
