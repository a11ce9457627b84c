----------------------------- MODULE MCWriters ------------------------------
(* Small instances of Writers for TLC. *)
EXTENDS Writers, TLC

CONSTANTS f1, f2, f3, d1, d2, d3, s1, s2

\* Two dates of one sub-directory and one of another.
MCSubDir == (d1 :> s1) @@ (d2 :> s1) @@ (d3 :> s2)

\* Files that cross the sub-directories in opposite orders, and one of a kind.
MCContents == (f1 :> <<d1, d3>>) @@ (f2 :> <<d3, d2>>) @@ (f3 :> <<d1>>)

Symmetry == Permutations(Workers)
=============================================================================
