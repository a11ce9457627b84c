------------------------------- MODULE Batch -------------------------------
(***************************************************************************)
(* What a batch command (dedup, validate, convert) promises, whatever its  *)
(* workers, channels and shutdown order: an input file is handled at most  *)
(* once, the result of a handled file is counted exactly once, and the     *)
(* process ends only when no result is left to count, with a status that   *)
(* tells whether a counted result holds errors.  BatchRun implements it.   *)
(***************************************************************************)
EXTENDS Naturals

CONSTANT NumFiles               \* files the walk over the arguments finds

Files == 1 .. NumFiles

VARIABLES
  todo,        \* files nobody has finished handling
  pending,     \* handled files whose result is not counted yet
  counted,     \* files whose result is merged into the totals
  bad,         \* the handled files whose result holds errors
  status       \* the exit status, once there is one

absVars == <<todo, pending, counted, bad, status>>

AbsInit ==
  /\ todo = Files
  /\ pending = {}
  /\ counted = {}
  /\ bad = {}
  /\ status = "running"

\* A job ends and hands its result on, with or without errors in it.
Handle(f) ==
  /\ f \in todo
  /\ todo' = todo \ {f}
  /\ pending' = pending \cup {f}
  /\ bad' \in {bad, bad \cup {f}}
  /\ UNCHANGED <<counted, status>>

\* A job is given up without a result (cancelled, or the disk is full).
GiveUp(f) ==
  /\ f \in todo
  /\ todo' = todo \ {f}
  /\ UNCHANGED <<pending, counted, bad, status>>

Count(f) ==
  /\ f \in pending
  /\ pending' = pending \ {f}
  /\ counted' = counted \cup {f}
  /\ UNCHANGED <<todo, bad, status>>

\* The process ends: every result there will ever be is in the totals.
Finish ==
  /\ status = "running"
  /\ pending = {}
  /\ status' = IF bad = {} THEN "success" ELSE "failure"
  /\ UNCHANGED <<todo, pending, counted, bad>>

AbsNext ==
  \/ status = "running" /\ \E f \in Files : Handle(f) \/ GiveUp(f) \/ Count(f)
  \/ Finish

AbsSpec == AbsInit /\ [][AbsNext]_absVars
=============================================================================
