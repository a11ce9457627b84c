----------------------------- MODULE TestAndSet -----------------------------
(***************************************************************************)
(* What the digest index promises to the workers of warc dedup: a call of  *)
(* IsRevisit is one atomic test-and-set.  The first caller of a key leaves *)
(* its reference there and is told that it is the first; every later one   *)
(* is given that reference.  A call may fail, with or without leaving its  *)
(* reference behind.                                                       *)
(***************************************************************************)
CONSTANTS Callers, Keys, Refs, NoRef

VARIABLES
  owner,   \* per key, the reference registered for it
  call,    \* per caller, the (key, ref) it has asked about, or NoCall
  answer   \* per caller, what it has been told: see Answers

NoCall    == [key |-> "none", ref |-> NoRef]
NoAnswer  == [kind |-> "none", ref |-> NoRef]
First     == [kind |-> "first", ref |-> NoRef]
Failed    == [kind |-> "failed", ref |-> NoRef]
Known(r)  == [kind |-> "known", ref |-> r]

AbsInit ==
  /\ owner = [k \in Keys |-> NoRef]
  /\ call = [c \in Callers |-> NoCall]
  /\ answer = [c \in Callers |-> NoAnswer]

Ask(c, k, r) ==
  /\ call[c] = NoCall
  /\ call' = [call EXCEPT ![c] = [key |-> k, ref |-> r]]
  /\ answer' = [answer EXCEPT ![c] = NoAnswer]
  /\ UNCHANGED owner

\* The answer to c, if it is a; the call is over.
Answered(c, a) ==
  /\ call[c] # NoCall
  /\ call' = [call EXCEPT ![c] = NoCall]
  /\ answer' = [answer EXCEPT ![c] = a]

Register(c) == owner' = [owner EXCEPT ![call[c].key] = call[c].ref]

TellFirst(c) ==
  /\ Answered(c, First)
  /\ owner[call[c].key] = NoRef
  /\ Register(c)

TellKnown(c) ==
  /\ Answered(c, Known(owner[call[c].key]))
  /\ owner[call[c].key] # NoRef
  /\ UNCHANGED owner

Fail(c) ==
  /\ Answered(c, Failed)
  /\ \/ UNCHANGED owner
     \/ owner[call[c].key] = NoRef /\ Register(c)

\* The process starts anew, on what is left of the index or on a fresh one.
Restart ==
  /\ \/ UNCHANGED owner
     \/ owner' = [k \in Keys |-> NoRef]
  /\ call' = [c \in Callers |-> NoCall]
  /\ answer' = [c \in Callers |-> NoAnswer]

AbsNext ==
  \/ \E c \in Callers :
       \/ \E k \in Keys, r \in Refs : Ask(c, k, r)
       \/ TellFirst(c) \/ TellKnown(c) \/ Fail(c)
  \/ Restart

AbsSpec == AbsInit /\ [][AbsNext]_<<owner, call, answer>>
=============================================================================
