----------------------------- MODULE MCBatchRun -----------------------------
(* Small instances of BatchRun for TLC. *)
EXTENDS BatchRun, TLC

Symmetry == Permutations(Workers)
=============================================================================
