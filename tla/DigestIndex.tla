---------------------------- MODULE DigestIndex -----------------------------
(***************************************************************************)
(* internal/index: DigestIndex over badger.  IsRevisit reads the key of a  *)
(* digest and, when it is absent, sets it, in one optimistic transaction:  *)
(* the read comes from a snapshot, and the commit fails with ErrConflict   *)
(* if the key has been committed since.  runWithConflictRetry then starts  *)
(* over, up to maxConflictRetries times.                                   *)
(*                                                                         *)
(* The database outlives the process: a behaviour is a sequence of runs,   *)
(* each ended by Close or by a crash.                                      *)
(***************************************************************************)
EXTENDS Integers, FiniteSets

CONSTANTS
  Callers,       \* the workers of warc dedup
  Keys,          \* digests
  Refs,          \* revisit references, one per record
  NoRef,
  NoTxn,
  MaxConflictRetries,
  MaxRuns,       \* bound: how many runs are started
  Faults         \* a subset of {"io", "crash"}

ASSUME DigestIndexAssumption ==
  /\ NoRef \notin Refs
  /\ NoTxn \notin Refs \cup {NoRef}
  /\ MaxConflictRetries \in Nat
  /\ MaxConflictRetries > 1
  /\ MaxRuns \in Nat \ {0}

VARIABLES
  db,        \* per key, the reference committed for it
  call,      \* per caller, the arguments of its call of IsRevisit, or NoCall
  snapshot,  \* per caller, what its transaction sees of its key, or NoTxn
  stale,     \* per caller, whether the key was committed since the snapshot
  attempt,   \* per caller, the retries so far
  answer,    \* per caller, what its last call returned
  keep,      \* --keep-index of this run
  runs       \* how many runs have been started

callVars == <<call, snapshot, stale, attempt, answer>>
vars == <<db, callVars, keep, runs>>

Promise == INSTANCE TestAndSet WITH owner <- db

NoCall   == Promise!NoCall
Empty    == [k \in Keys |-> NoRef]
AllIdle  == \A c \in Callers : call[c] = NoCall

Init ==
  /\ db = Empty
  /\ call = [c \in Callers |-> NoCall]
  /\ snapshot = [c \in Callers |-> NoTxn]
  /\ stale = [c \in Callers |-> FALSE]
  /\ attempt = [c \in Callers |-> 0]
  /\ answer = [c \in Callers |-> Promise!NoAnswer]
  /\ keep \in BOOLEAN
  /\ runs = 1

\* c returns a to the worker.
Return(c, a) ==
  /\ call' = [call EXCEPT ![c] = NoCall]
  /\ snapshot' = [snapshot EXCEPT ![c] = NoTxn]
  /\ attempt' = [attempt EXCEPT ![c] = 0]
  /\ answer' = [answer EXCEPT ![c] = a]

\* The set of c reaches the database: open transactions on its key are stale.
Set(c) ==
  /\ db' = [db EXCEPT ![call[c].key] = call[c].ref]
  /\ stale' = [x \in Callers |->
                 stale[x] \/ (snapshot[x] # NoTxn /\ call[x].key = call[c].key)]

-----------------------------------------------------------------------------
(* Deliberately wrong variants of definitions below: see the README.       *)

\* The get and the set are transactions of their own: nothing conflicts.
Commit_Unchecked(c) ==
  /\ call[c] # NoCall /\ snapshot[c] = NoRef
  /\ Set(c)
  /\ Return(c, Promise!First)
  /\ UNCHANGED <<keep, runs>>

\* A retry goes on with the snapshot it has.
Conflict_SameSnapshot(c) ==
  /\ call[c] # NoCall /\ snapshot[c] = NoRef /\ stale[c]
  /\ IF attempt[c] + 1 < MaxConflictRetries
     THEN /\ attempt' = [attempt EXCEPT ![c] = @ + 1]
          /\ UNCHANGED <<call, snapshot, answer>>
     ELSE Return(c, Promise!Failed)
  /\ UNCHANGED <<db, stale, keep, runs>>

-----------------------------------------------------------------------------
IsRevisit(c, k, r) ==
  /\ call[c] = NoCall
  /\ call' = [call EXCEPT ![c] = [key |-> k, ref |-> r]]
  /\ answer' = [answer EXCEPT ![c] = Promise!NoAnswer]
  /\ UNCHANGED <<db, snapshot, stale, attempt, keep, runs>>

\* A transaction starts, and gets the key from its snapshot.
Get(c) ==
  /\ call[c] # NoCall /\ snapshot[c] = NoTxn
  /\ snapshot' = [snapshot EXCEPT ![c] = db[call[c].key]]
  /\ stale' = [stale EXCEPT ![c] = FALSE]
  /\ UNCHANGED <<db, call, attempt, answer, keep, runs>>

\* The key is there: nothing to commit.
Found(c) ==
  /\ call[c] # NoCall /\ snapshot[c] \in Refs
  /\ Return(c, Promise!Known(snapshot[c]))
  /\ UNCHANGED <<db, stale, keep, runs>>

\* The key is absent, and the commit of the set goes through ...
Commit(c) ==
  /\ call[c] # NoCall /\ snapshot[c] = NoRef /\ ~stale[c]
  /\ Set(c)
  /\ Return(c, Promise!First)
  /\ UNCHANGED <<keep, runs>>

\* ... or conflicts: retry, or give up with ErrConflict.
Conflict(c) ==
  /\ call[c] # NoCall /\ snapshot[c] = NoRef /\ stale[c]
  /\ IF attempt[c] + 1 < MaxConflictRetries
     THEN /\ attempt' = [attempt EXCEPT ![c] = @ + 1]
          /\ snapshot' = [snapshot EXCEPT ![c] = NoTxn]
          /\ UNCHANGED <<call, answer>>
     ELSE Return(c, Promise!Failed)
  /\ UNCHANGED <<db, stale, keep, runs>>

\* The reference cannot be encoded, or badger fails, maybe after the set has
\* reached the database.
Error(c) ==
  /\ "io" \in Faults
  /\ call[c] # NoCall
  /\ Return(c, Promise!Failed)
  /\ \/ UNCHANGED <<db, stale>>
     \/ snapshot[c] = NoRef /\ ~stale[c] /\ Set(c)
  /\ UNCHANGED <<keep, runs>>

\* NewDigestIndex of the next run finds this of the index.
StartRun(left) ==
  /\ runs < MaxRuns
  /\ runs' = runs + 1
  /\ keep' \in BOOLEAN
  /\ db' = left
  /\ call' = [c \in Callers |-> NoCall]
  /\ snapshot' = [c \in Callers |-> NoTxn]
  /\ stale' = [c \in Callers |-> FALSE]
  /\ attempt' = [c \in Callers |-> 0]
  /\ answer' = [c \in Callers |-> Promise!NoAnswer]

\* What Close, and then --new-index (reset), leave of the index.
Left(reset) == IF reset \/ ~keep THEN Empty ELSE db

CloseAndReopen(reset) == AllIdle /\ StartRun(Left(reset))

\* A killed process does not get to Close.
Crash(reset) == "crash" \in Faults /\ StartRun(IF reset THEN Empty ELSE db)

CallNext(c) == Get(c) \/ Found(c) \/ Commit(c) \/ Conflict(c) \/ Error(c)

Next ==
  \/ \E c \in Callers :
       \/ \E k \in Keys, r \in Refs : IsRevisit(c, k, r)
       \/ CallNext(c)
  \/ \E reset \in BOOLEAN : CloseAndReopen(reset) \/ Crash(reset)

Spec == Init /\ [][Next]_vars
-----------------------------------------------------------------------------
(* Properties.                                                             *)

\* Every variable stays in its type.
TypeOK ==
  /\ db \in [Keys -> Refs \cup {NoRef}]
  /\ \A c \in Callers : call[c] = NoCall \/ call[c] \in [key : Keys, ref : Refs]
  /\ DOMAIN call = Callers
  /\ snapshot \in [Callers -> Refs \cup {NoRef, NoTxn}]
  /\ stale \in [Callers -> BOOLEAN]
  /\ attempt \in [Callers -> 0 .. MaxConflictRetries - 1]
  /\ DOMAIN answer = Callers
  /\ keep \in BOOLEAN
  /\ runs \in 1 .. MaxRuns

\* The optimistic transactions, the retries and the crashes included, behave
\* as one atomic test-and-set per call.
ImplementsTestAndSet == Promise!AbsSpec

\* A call conflicts at most once, however many workers ask about the digest:
\* whoever won has registered the key, and the retry finds it.  The limit of 32
\* is never reached, and no call fails for contention.
ConflictOnce == \A c \in Callers : attempt[c] <= 1

-----------------------------------------------------------------------------
(* The inductive invariant behind the theorems of DigestIndex_proofs.      *)

\* Only a call has a transaction; what its snapshot shows is what the database
\* holds, unless it shows an absent key and the key was committed since.
SnapshotInv ==
  \A c \in Callers :
    /\ snapshot[c] # NoTxn => call[c] # NoCall
    /\ snapshot[c] \in Refs => db[call[c].key] = snapshot[c]
    /\ snapshot[c] = NoRef => (stale[c] <=> db[call[c].key] # NoRef)

\* Once a call has had to retry, its key is registered.
RetryInv ==
  \A c \in Callers : attempt[c] # 0 =>
    /\ attempt[c] = 1
    /\ call[c] # NoCall
    /\ snapshot[c] # NoRef
    /\ db[call[c].key] # NoRef

IInv == TypeOK /\ SnapshotInv /\ RetryInv
=============================================================================
