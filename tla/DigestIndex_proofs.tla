------------------------- MODULE DigestIndex_proofs -------------------------
(***************************************************************************)
(* Theorems about DigestIndex, for any callers, digests and references.    *)
(***************************************************************************)
EXTENDS DigestIndex, TLAPS

\* What TestAndSet calls things, and that a call is never NoCall.
LEMMA Names ==
  /\ NoCall = [key |-> "none", ref |-> NoRef]
  /\ \A a \in [key : Keys, ref : Refs] : a # NoCall
BY DigestIndexAssumption DEF NoCall, Promise!NoCall

\* A caller that is in a call has proper arguments.
LEMMA CallType ==
  ASSUME TypeOK, NEW c \in Callers, call[c] # NoCall
  PROVE  call[c] \in [key : Keys, ref : Refs] /\ call[c].key \in Keys /\ call[c].ref \in Refs
BY DEF TypeOK

LEMMA InitInv == Init => IInv
<1> SUFFICES ASSUME Init PROVE IInv
  OBVIOUS
<1>1. TypeOK
  BY DigestIndexAssumption DEF Init, TypeOK, Empty
<1>2. SnapshotInv /\ RetryInv
  BY DigestIndexAssumption DEF Init, SnapshotInv, RetryInv
<1>3. QED
  BY <1>1, <1>2 DEF IInv

-----------------------------------------------------------------------------
\* A return ends the call, and touches no other caller.
LEMMA ReturnStep ==
  ASSUME IInv, NEW c \in Callers, NEW a, Return(c, a)
  PROVE  /\ call'[c] = NoCall /\ snapshot'[c] = NoTxn /\ attempt'[c] = 0
         /\ \A x \in Callers \ {c} : /\ call'[x] = call[x]
                                     /\ snapshot'[x] = snapshot[x]
                                     /\ attempt'[x] = attempt[x]
         /\ \A x \in Callers : call'[x] = NoCall \/ call'[x] \in [key : Keys, ref : Refs]
         /\ DOMAIN call' = Callers
         /\ snapshot' \in [Callers -> Refs \cup {NoRef, NoTxn}]
         /\ attempt' \in [Callers -> 0 .. MaxConflictRetries - 1]
         /\ DOMAIN answer' = Callers
BY DigestIndexAssumption DEF Return, IInv, TypeOK

\* A call that returns without touching the database keeps the invariant.
LEMMA ReturnInv ==
  ASSUME IInv, NEW c \in Callers, NEW a, Return(c, a), UNCHANGED <<db, stale, keep, runs>>
  PROVE  IInv'
<1>1. TypeOK'
  BY ReturnStep DEF IInv, TypeOK
<1>2. SnapshotInv' /\ RetryInv'
  BY ReturnStep, DigestIndexAssumption DEF IInv, SnapshotInv, RetryInv
<1>3. QED
  BY <1>1, <1>2 DEF IInv

\* A call that returns once its set has reached the database keeps it too: the
\* key was absent, so no snapshot showed it, and the others become stale.
LEMMA SetInv ==
  ASSUME IInv, NEW c \in Callers, NEW a, call[c] # NoCall, snapshot[c] = NoRef, ~stale[c],
         Set(c), Return(c, a), UNCHANGED <<keep, runs>>
  PROVE  IInv'
<1>1. call[c].key \in Keys /\ call[c].ref \in Refs
  BY CallType DEF IInv
<1>2. db[call[c].key] = NoRef
  BY DEF IInv, SnapshotInv
<1>3. /\ db'[call[c].key] = call[c].ref
      /\ \A k \in Keys : k # call[c].key => db'[k] = db[k]
      /\ db' \in [Keys -> Refs \cup {NoRef}]
  BY <1>1 DEF Set, IInv, TypeOK
<1>4. /\ stale' \in [Callers -> BOOLEAN]
      /\ \A x \in Callers :
           stale'[x] <=> stale[x] \/ (snapshot[x] # NoTxn /\ call[x].key = call[c].key)
  BY DEF Set, IInv, TypeOK
<1>5. TypeOK'
  BY ReturnStep, <1>3, <1>4 DEF IInv, TypeOK
<1>6. ASSUME NEW x \in Callers, x # c, call[x] # NoCall
      PROVE  call'[x] = call[x] /\ call'[x].key \in Keys
  BY <1>6, ReturnStep, CallType DEF IInv
<1>7. SnapshotInv'
  <2>1. ASSUME NEW x \in Callers, x # c, snapshot'[x] # NoTxn
        PROVE  /\ call'[x] # NoCall
               /\ snapshot'[x] \in Refs => db'[call'[x].key] = snapshot'[x]
               /\ snapshot'[x] = NoRef => (stale'[x] <=> db'[call'[x].key] # NoRef)
    <3>1. snapshot'[x] = snapshot[x] /\ call[x] # NoCall /\ call'[x] = call[x]
      BY <2>1, ReturnStep DEF IInv, SnapshotInv
    <3>2. CASE call[x].key = call[c].key
      BY <3>1, <3>2, <1>1, <1>2, <1>3, <1>4, <2>1, DigestIndexAssumption DEF IInv, SnapshotInv
    <3>3. CASE call[x].key # call[c].key
      BY <3>1, <3>3, <1>3, <1>4, <1>6, <2>1, DigestIndexAssumption DEF IInv, SnapshotInv
    <3>4. QED
      BY <3>2, <3>3
  <2>2. QED
    BY <2>1, ReturnStep, DigestIndexAssumption DEF SnapshotInv
<1>8. RetryInv'
  <2>1. ASSUME NEW x \in Callers, attempt'[x] # 0
        PROVE  /\ attempt'[x] = 1 /\ call'[x] # NoCall
               /\ snapshot'[x] # NoRef /\ db'[call'[x].key] # NoRef
    <3>1. x # c /\ attempt'[x] = attempt[x] /\ snapshot'[x] = snapshot[x] /\ call'[x] = call[x]
      BY <2>1, ReturnStep
    <3>2. attempt[x] = 1 /\ call[x] # NoCall /\ snapshot[x] # NoRef /\ db[call[x].key] # NoRef
      BY <2>1, <3>1 DEF IInv, RetryInv
    <3>3. call[x].key # call[c].key
      BY <3>2, <1>2
    <3>4. QED
      BY <3>1, <3>2, <3>3, <1>3, <1>6
  <2>2. QED
    BY <2>1 DEF RetryInv
<1>9. QED
  BY <1>5, <1>7, <1>8 DEF IInv

\* Every step keeps the invariant.
LEMMA StepInv ==
  ASSUME IInv, [Next]_vars
  PROVE  IInv'
<1>1. ASSUME NEW c \in Callers, NEW k \in Keys, NEW r \in Refs, IsRevisit(c, k, r)
      PROVE  IInv'
  <2>1. /\ call'[c] = [key |-> k, ref |-> r]
        /\ \A x \in Callers \ {c} : call'[x] = call[x]
        /\ DOMAIN call' = Callers /\ DOMAIN answer' = Callers
        /\ call'[c] \in [key : Keys, ref : Refs]
    BY <1>1 DEF IsRevisit, IInv, TypeOK
  <2>2. TypeOK'
    BY <1>1, <2>1 DEF IsRevisit, IInv, TypeOK
  <2>3. snapshot[c] = NoTxn /\ attempt[c] = 0
    BY <1>1 DEF IsRevisit, IInv, SnapshotInv, RetryInv
  <2>4. SnapshotInv' /\ RetryInv'
    BY <1>1, <2>1, <2>3, Names, DigestIndexAssumption
       DEF IsRevisit, IInv, SnapshotInv, RetryInv
  <2>5. QED
    BY <2>2, <2>4 DEF IInv
<1>2. ASSUME NEW c \in Callers, Get(c) PROVE IInv'
  <2>1. call[c].key \in Keys
    BY <1>2, CallType DEF Get, IInv
  <2>2. db[call[c].key] \in Refs \cup {NoRef}
    BY <2>1 DEF IInv, TypeOK
  <2>3. /\ snapshot'[c] = db[call[c].key] /\ ~stale'[c]
        /\ \A x \in Callers \ {c} : snapshot'[x] = snapshot[x] /\ stale'[x] = stale[x]
    BY <1>2 DEF Get, IInv, TypeOK
  <2>4. TypeOK'
    BY <1>2, <2>2 DEF Get, IInv, TypeOK
  <2>5. SnapshotInv' /\ RetryInv'
    BY <1>2, <2>2, <2>3, DigestIndexAssumption DEF Get, IInv, SnapshotInv, RetryInv
  <2>6. QED
    BY <2>4, <2>5 DEF IInv
<1>3. ASSUME NEW c \in Callers, Found(c) PROVE IInv'
  BY <1>3, ReturnInv DEF Found
<1>4. ASSUME NEW c \in Callers, Commit(c) PROVE IInv'
  BY <1>4, SetInv DEF Commit
<1>5. ASSUME NEW c \in Callers, Conflict(c) PROVE IInv'
  <2>1. attempt[c] = 0 /\ db[call[c].key] # NoRef
    BY <1>5 DEF Conflict, IInv, RetryInv, SnapshotInv
  <2>2. /\ attempt' = [attempt EXCEPT ![c] = 1]
        /\ snapshot' = [snapshot EXCEPT ![c] = NoTxn]
        /\ UNCHANGED <<db, call, stale, answer, keep, runs>>
    BY <1>5, <2>1, DigestIndexAssumption DEF Conflict
  <2>3. TypeOK'
    BY <2>2, DigestIndexAssumption DEF IInv, TypeOK
  <2>4. /\ attempt'[c] = 1 /\ snapshot'[c] = NoTxn
        /\ \A x \in Callers \ {c} : attempt'[x] = attempt[x] /\ snapshot'[x] = snapshot[x]
    BY <2>2 DEF IInv, TypeOK
  <2>5. SnapshotInv' /\ RetryInv'
    BY <1>5, <2>1, <2>2, <2>4, DigestIndexAssumption DEF Conflict, IInv, SnapshotInv, RetryInv
  <2>6. QED
    BY <2>3, <2>5 DEF IInv
<1>6. ASSUME NEW c \in Callers, Error(c) PROVE IInv'
  BY <1>6, ReturnInv, SetInv DEF Error
<1>7. ASSUME NEW reset \in BOOLEAN, CloseAndReopen(reset) \/ Crash(reset) PROVE IInv'
  <2>1. PICK left \in {db, Empty} : StartRun(left)
    BY <1>7 DEF CloseAndReopen, Crash, Left
  <2>2. left \in [Keys -> Refs \cup {NoRef}]
    BY DEF IInv, TypeOK, Empty
  <2>3. TypeOK'
    BY <2>1, <2>2, DigestIndexAssumption DEF StartRun, IInv, TypeOK
  <2>4. SnapshotInv' /\ RetryInv'
    BY <2>1, DigestIndexAssumption DEF StartRun, SnapshotInv, RetryInv
  <2>5. QED
    BY <2>3, <2>4 DEF IInv
<1>8. CASE UNCHANGED vars
  BY <1>8 DEF vars, callVars, IInv, TypeOK, SnapshotInv, RetryInv
<1>9. QED
  BY <1>1, <1>2, <1>3, <1>4, <1>5, <1>6, <1>7, <1>8 DEF Next, CallNext

\* The inductive invariant of the digest index.
THEOREM Invariance == Spec => []IInv
BY InitInv, StepInv, PTL DEF Spec

\* Every variable of the index stays in its type.
THEOREM TypeCorrect == Spec => []TypeOK
<1>1. IInv => TypeOK
  BY DEF IInv
<1>2. QED
  BY Invariance, <1>1, PTL

\* No call of IsRevisit conflicts twice, however many workers contend for a
\* digest: runWithConflictRetry never runs out of retries.
THEOREM OneRetry == Spec => []ConflictOnce
<1>1. IInv => ConflictOnce
  BY DigestIndexAssumption DEF IInv, RetryInv, ConflictOnce, TypeOK
<1>2. QED
  BY Invariance, <1>1, PTL

-----------------------------------------------------------------------------
\* Every step of the index is a step of the test-and-set, or a stutter.
LEMMA AbsStep ==
  ASSUME IInv, [Next]_vars
  PROVE  [Promise!AbsNext]_<<db, call, answer>>
<1> USE DEF Promise!AbsNext, NoCall
<1>1. ASSUME NEW c \in Callers, NEW k \in Keys, NEW r \in Refs, IsRevisit(c, k, r)
      PROVE  Promise!Ask(c, k, r)
  BY <1>1 DEF IsRevisit, Promise!Ask
<1>2. ASSUME NEW c \in Callers, Get(c) PROVE UNCHANGED <<db, call, answer>>
  BY <1>2 DEF Get
<1>3. ASSUME NEW c \in Callers, Found(c) PROVE Promise!TellKnown(c)
  <2>1. db[call[c].key] = snapshot[c] /\ snapshot[c] # NoRef
    BY <1>3, DigestIndexAssumption DEF Found, IInv, SnapshotInv
  <2>2. QED
    BY <1>3, <2>1 DEF Found, Return, Promise!TellKnown, Promise!Answered
<1>4. ASSUME NEW c \in Callers, Commit(c) PROVE Promise!TellFirst(c)
  <2>1. db[call[c].key] = NoRef
    BY <1>4 DEF Commit, IInv, SnapshotInv
  <2>2. QED
    BY <1>4, <2>1 DEF Commit, Set, Return, Promise!TellFirst, Promise!Answered, Promise!Register
<1>5. ASSUME NEW c \in Callers, Conflict(c) PROVE UNCHANGED <<db, call, answer>>
  <2>1. attempt[c] = 0
    BY <1>5 DEF Conflict, IInv, RetryInv
  <2>2. QED
    BY <1>5, <2>1, DigestIndexAssumption DEF Conflict
<1>6. ASSUME NEW c \in Callers, Error(c) PROVE Promise!Fail(c)
  <2>1. snapshot[c] = NoRef /\ ~stale[c] => db[call[c].key] = NoRef
    BY DEF IInv, SnapshotInv
  <2>2. QED
    BY <1>6, <2>1 DEF Error, Set, Return, Promise!Fail, Promise!Answered, Promise!Register
<1>7. ASSUME NEW reset \in BOOLEAN, CloseAndReopen(reset) \/ Crash(reset)
      PROVE  Promise!Restart
  <2>1. PICK left \in {db, Empty} : StartRun(left)
    BY <1>7 DEF CloseAndReopen, Crash, Left
  <2>2. QED
    BY <2>1 DEF StartRun, Empty, Promise!Restart
<1>8. CASE UNCHANGED vars
  BY <1>8 DEF vars, callVars
<1>9. QED
  BY <1>1, <1>2, <1>3, <1>4, <1>5, <1>6, <1>7, <1>8 DEF Next, CallNext

\* Optimistic transactions, retries, failures, crashes and reopenings together
\* implement one atomic test-and-set per call of IsRevisit.
THEOREM Refinement == Spec => ImplementsTestAndSet
<1>1. Init => Promise!AbsInit
  BY DEF Init, Empty, NoCall, Promise!AbsInit
<1>2. IInv /\ [Next]_vars => [Promise!AbsNext]_<<db, call, answer>>
  BY AbsStep
<1>3. QED
  BY Invariance, <1>1, <1>2, PTL DEF Spec, ImplementsTestAndSet, Promise!AbsSpec
=============================================================================
