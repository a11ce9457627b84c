--------------------------- MODULE BatchRun_proofs ---------------------------
(***************************************************************************)
(* Theorems about BatchRun, for any number of workers and files, with and  *)
(* without --continue-on-error, under any faults.                          *)
(***************************************************************************)
EXTENDS BatchRun, FiniteSetTheorems, TLAPS

\* Cancelling leaves the context variables in their types.
LEMMA CancelType ==
  ASSUME TypeOK, NEW who \in FaultKinds \cup {"nobody", "main"}, Cancel(who)
  PROVE  /\ cancelledBy' \in FaultKinds \cup {"nobody", "main"}
         /\ atCancel' \in 0 .. NumFiles + 1
BY BatchAssumption DEF Cancel, TypeOK

LEMMA FaultNames == "disk" \in FaultKinds /\ "file" \in FaultKinds /\ "signal" \in FaultKinds
BY DEF FaultKinds

-----------------------------------------------------------------------------
\* A step keeps every variable in its type.
LEMMA TypeStep ==
  ASSUME IInv, [Next]_vars
  PROVE  TypeOK'
<1> USE BatchAssumption DEF IInv, Agents, vars, mainVars, poolVars, ctxVars, countVars
<1>1. ASSUME MainNext PROVE TypeOK'
  <2>1. CASE WalkFile \/ WalkError \/ WalkCancelled \/ WalkEnd \/ WaitWorkers \/ Exit
    BY <2>1 DEF TypeOK, MainPcs, WalkFile, WalkError, WalkCancelled, WalkEnd, WaitWorkers, Exit
  <2>2. CASE Submit
    BY <2>2 DEF TypeOK, MainPcs, Submit, MainAt, AbortInv, Files
  <2>3. CASE SubmitInline
    BY <2>3 DEF TypeOK, MainPcs, AgentPcs, SubmitInline, MainAt, AbortInv, Files
  <2>4. CASE CloseJobs \/ CloseWriters \/ CloseDigestIndex \/ CloseFileIndex \/ CloseResults
    BY <2>4 DEF TypeOK, MainPcs, CloseJobs, CloseWriters, CloseDigestIndex,
                CloseFileIndex, CloseResults, Close
  <2>5. CASE CancelContext
    BY <2>5, CancelType DEF TypeOK, MainPcs, CancelContext
  <2>6. QED
    BY <1>1, <2>1, <2>2, <2>3, <2>4, <2>5 DEF MainNext
<1>2. ASSUME NEW w \in Workers, WorkerNext(w) PROVE TypeOK'
  <2>1. CASE TakeJob(w)
    <3>1. Head(jobs) \in 0 .. NumFiles /\ Tail(jobs) \in Seq(Files)
      BY <2>1 DEF TypeOK, TakeJob, Files
    <3>2. pc' \in [Agents -> AgentPcs] /\ job' \in [Agents -> 0 .. NumFiles]
      BY <2>1, <3>1 DEF TypeOK, TakeJob, AgentPcs
    <3>3. QED
      BY <2>1, <3>1, <3>2 DEF TypeOK, TakeJob
  <2>2. CASE WorkerExit(w)
    BY <2>2 DEF TypeOK, AgentPcs, WorkerExit
  <2>3. CASE DropJob(w)
    <3>1. outcome' \in [Files -> Outcomes]
      BY <2>3 DEF TypeOK, DropJob, Outcomes
    <3>2. pc' \in [Agents -> AgentPcs] /\ job' \in [Agents -> 0 .. NumFiles]
      BY <2>3 DEF TypeOK, DropJob, AgentPcs
    <3>3. QED
      BY <2>3, <3>1, <3>2 DEF TypeOK, DropJob
  <2>4. CASE StartJob(w)
    BY <2>4 DEF TypeOK, AgentPcs, StartJob
  <2>5. QED
    BY <1>2, <2>1, <2>2, <2>3, <2>4 DEF WorkerNext
<1>3. ASSUME NEW a \in Agents, JobNext(a) PROVE TypeOK'
  <2>1. CASE DiskFull(a)
    <3>1. cancelledBy' \in FaultKinds \cup {"nobody", "main"} /\ atCancel' \in 0 .. NumFiles + 1
      BY <2>1, CancelType, FaultNames DEF DiskFull
    <3>2. outcome' \in [Files -> Outcomes]
      BY <2>1 DEF TypeOK, DiskFull, Outcomes
    <3>3. pc' \in [Agents -> AgentPcs] /\ job' \in [Agents -> 0 .. NumFiles]
      BY <2>1 DEF TypeOK, DiskFull, AgentPcs
    <3>4. QED
      BY <2>1, <3>1, <3>2, <3>3 DEF TypeOK, DiskFull
  <2>2. CASE DiskOk(a)
    BY <2>2 DEF TypeOK, AgentPcs, DiskOk
  <2>3. CASE HandleFile(a)
    <3>1. cancelledBy' \in FaultKinds \cup {"nobody", "main"} /\ atCancel' \in 0 .. NumFiles + 1
      BY <2>3, CancelType, FaultNames DEF HandleFile, TypeOK
    <3>2. outcome' \in [Files -> Outcomes]
      <4>1. PICK o \in Reported : outcome' = [outcome EXCEPT ![job[a]] = o]
        BY <2>3 DEF HandleFile
      <4>2. QED
        BY <4>1 DEF TypeOK, Outcomes
    <3>3. pc' \in [Agents -> AgentPcs]
      BY <2>3 DEF TypeOK, AgentPcs, HandleFile
    <3>4. QED
      BY <2>3, <3>1, <3>2, <3>3 DEF TypeOK, HandleFile
  <2>4. CASE SendResult(a)
    BY <2>4 DEF TypeOK, AgentPcs, SendResult
  <2>5. QED
    BY <1>3, <2>1, <2>2, <2>3, <2>4 DEF JobNext
<1>4. ASSUME CollectorNext PROVE TypeOK'
  <2>1. CASE Merge
    BY <2>1 DEF TypeOK, Merge, Files
  <2>2. CASE CollectorEnd
    BY <2>2 DEF TypeOK, CollectorEnd
  <2>3. QED
    BY <1>4, <2>1, <2>2 DEF CollectorNext
<1>5. ASSUME Signal PROVE TypeOK'
  BY <1>5, CancelType, FaultNames DEF TypeOK, Signal
<1>6. ASSUME UNCHANGED vars PROVE TypeOK'
  BY <1>6 DEF TypeOK
<1>7. QED
  BY <1>1, <1>2, <1>3, <1>4, <1>5, <1>6 DEF Next, Terminated

-----------------------------------------------------------------------------
\* Only Submit, SubmitInline and TakeJob touch the channel and the walk's place.
LEMMA QueueFrame ==
  ASSUME [Next]_vars, ~Submit, ~SubmitInline, \A w \in Workers : ~TakeJob(w)
  PROVE  UNCHANGED <<jobs, next>>
<1> USE DEF vars, mainVars, poolVars, ctxVars, countVars
<1>1. CASE MainNext
  BY <1>1 DEF MainNext, WalkFile, WalkError, WalkCancelled, WalkEnd, CloseJobs, CloseWriters,
     CloseDigestIndex, CloseFileIndex, CloseResults, Close, WaitWorkers, CancelContext, Exit
<1>2. CASE \E w \in Workers : WorkerNext(w)
  BY <1>2 DEF WorkerNext, WorkerExit, DropJob, StartJob
<1>3. CASE \E a \in Agents : JobNext(a)
  BY <1>3 DEF JobNext, DiskFull, DiskOk, HandleFile, SendResult
<1>4. CASE CollectorNext \/ Signal \/ UNCHANGED vars
  BY <1>4 DEF CollectorNext, Merge, CollectorEnd, Signal
<1>5. QED
  BY <1>1, <1>2, <1>3, <1>4 DEF Next, Terminated

\* Nobody changes the pool.
LEMMA PoolFrame ==
  ASSUME [Next]_vars
  PROVE  pool' = pool
<1> USE DEF vars, mainVars, poolVars, ctxVars, countVars
<1>1. CASE MainNext
  BY <1>1 DEF MainNext, WalkFile, WalkError, WalkCancelled, WalkEnd, CloseJobs, CloseWriters, Submit,
     SubmitInline, CloseDigestIndex, CloseFileIndex, CloseResults, Close, WaitWorkers, CancelContext, Exit
<1>2. CASE \E w \in Workers : WorkerNext(w)
  BY <1>2 DEF WorkerNext, TakeJob, WorkerExit, DropJob, StartJob
<1>3. CASE \E a \in Agents : JobNext(a)
  BY <1>3 DEF JobNext, DiskFull, DiskOk, HandleFile, SendResult
<1>4. CASE CollectorNext \/ Signal \/ UNCHANGED vars
  BY <1>4 DEF CollectorNext, Merge, CollectorEnd, Signal
<1>5. QED
  BY <1>1, <1>2, <1>3, <1>4 DEF Next, Terminated

\* The channel stays a run of consecutive files that ends before next.
LEMMA QueueStep ==
  ASSUME IInv, [Next]_vars
  PROVE  QueueInv'
<1> USE BatchAssumption DEF IInv, QueueInv, Front
<1>0. pool' = pool
  BY PoolFrame
<1>1. CASE Submit
  <2>1. /\ jobs \in Seq(Files) /\ next \in Nat
        /\ jobs' = Append(jobs, next) /\ next' = next + 1
    BY <1>1 DEF Submit, TypeOK
  <2>2. /\ Len(jobs') = Len(jobs) + 1
        /\ \A i \in 1 .. Len(jobs') : jobs'[i] = IF i = Len(jobs') THEN next ELSE jobs[i]
    BY <2>1
  <2>3. pool # {} /\ Len(jobs) \in Nat /\ Front' = Front
    BY <1>1, <2>1, <2>2 DEF Submit
  <2>4. ASSUME NEW i \in 1 .. Len(jobs') PROVE jobs'[i] = Front' + i - 1
    <3>1. CASE i = Len(jobs')
      BY <2>1, <2>2, <2>3, <3>1
    <3>2. CASE i # Len(jobs')
      <4>1. i \in 1 .. Len(jobs) /\ jobs'[i] = jobs[i]
        BY <2>2, <2>3, <3>2
      <4>2. QED
        BY <4>1, <2>3
    <3>3. QED
      BY <3>1, <3>2
  <2>5. QED
    BY <1>0, <2>1, <2>2, <2>3, <2>4
<1>2. CASE SubmitInline
  BY <1>0, <1>2 DEF SubmitInline, TypeOK
<1>3. ASSUME NEW w \in Workers, TakeJob(w) PROVE QueueInv'
  <2>1. /\ jobs \in Seq(Files) /\ jobs # <<>> /\ next \in Nat
        /\ jobs' = Tail(jobs) /\ next' = next
    BY <1>3 DEF TakeJob, TypeOK, mainVars
  <2>2. /\ Len(jobs') = Len(jobs) - 1 /\ Len(jobs) \in Nat \ {0}
        /\ \A i \in 1 .. Len(jobs') : jobs'[i] = jobs[i + 1]
    BY <2>1
  <2>3. QED
    BY <1>0, <2>1, <2>2
<1>4. CASE UNCHANGED <<jobs, next>>
  BY <1>0, <1>4
<1>5. QED
  BY <1>1, <1>2, <1>3, <1>4, QueueFrame

-----------------------------------------------------------------------------
\* Front moves on exactly when a file leaves the channel or runs inline, and
\* that file is the one Front pointed at.
LEMMA FrontStep ==
  ASSUME IInv, [Next]_vars
  PROVE  /\ Front \in Nat \ {0} /\ Front <= next
         /\ ~SubmitInline /\ (\A w \in Workers : ~TakeJob(w)) => Front' = Front
         /\ SubmitInline => Front = next /\ Front' = Front + 1
         /\ \A w \in Workers : TakeJob(w) => Head(jobs) = Front /\ Front' = Front + 1
<1> USE DEF IInv, QueueInv, Front
<1>0. jobs \in Seq(Files) /\ next \in Nat /\ Len(jobs) \in Nat
  BY DEF TypeOK
<1>1. Front \in Nat \ {0} /\ Front <= next
  BY <1>0
<1>2. ASSUME ~SubmitInline, \A w \in Workers : ~TakeJob(w) PROVE Front' = Front
  <2>1. CASE Submit
    <3>1. jobs' = Append(jobs, next) /\ next' = next + 1
      BY <2>1 DEF Submit
    <3>2. Len(jobs') = Len(jobs) + 1
      BY <3>1, <1>0
    <3>3. QED
      BY <3>1, <3>2, <1>0
  <2>2. CASE ~Submit
    BY <2>2, <1>2, QueueFrame
  <2>3. QED
    BY <2>1, <2>2
<1>3. ASSUME SubmitInline PROVE Front = next /\ Front' = Front + 1
  BY <1>3, <1>0 DEF SubmitInline
<1>4. ASSUME NEW w \in Workers, TakeJob(w) PROVE Head(jobs) = Front /\ Front' = Front + 1
  <2>1. jobs # <<>> /\ jobs' = Tail(jobs) /\ next' = next
    BY <1>4 DEF TakeJob, mainVars
  <2>2. Len(jobs') = Len(jobs) - 1 /\ Len(jobs) \in Nat \ {0} /\ Head(jobs) = jobs[1]
    BY <2>1, <1>0
  <2>3. QED
    BY <2>1, <2>2, <1>0
<1>5. QED
  BY <1>1, <1>2, <1>3, <1>4

\* Outside the actions of the agents and SubmitInline, no agent moves.
LEMMA AgentFrame ==
  ASSUME [Next]_vars, ~SubmitInline,
         \A w \in Workers : ~WorkerNext(w), \A a \in Agents : ~JobNext(a)
  PROVE  /\ UNCHANGED <<pc, job, outcome>>
         /\ \A w \in Workers : ~TakeJob(w)
<1> USE DEF vars, mainVars, poolVars, ctxVars, countVars
<1>1. CASE MainNext
  BY <1>1 DEF MainNext, WalkFile, WalkError, WalkCancelled, WalkEnd, CloseJobs, CloseWriters, Submit,
     CloseDigestIndex, CloseFileIndex, CloseResults, Close, WaitWorkers, CancelContext, Exit, WorkerNext
<1>2. CASE CollectorNext \/ Signal \/ UNCHANGED vars
  BY <1>2 DEF CollectorNext, Merge, CollectorEnd, Signal, WorkerNext
<1>3. QED
  BY <1>1, <1>2 DEF Next, Terminated

\* Main leaves its place only while no job runs inline.
LEMMA MainMoves ==
  ASSUME [Next]_vars, mainPc' # mainPc
  PROVE  MainNext /\ pc[Main] = "idle"
<1> USE DEF vars, mainVars, poolVars, ctxVars, countVars
<1>1. MainNext
  BY DEF Next, Terminated, WorkerNext, JobNext, CollectorNext, Merge, CollectorEnd, Signal,
     TakeJob, WorkerExit, DropJob, StartJob, DiskFull, DiskOk, HandleFile, SendResult
<1>2. QED
  BY <1>1 DEF MainNext, WalkFile, WalkError, WalkCancelled, WalkEnd, CloseJobs, CloseWriters, Submit,
     SubmitInline, CloseDigestIndex, CloseFileIndex, CloseResults, Close, WaitWorkers, CancelContext,
     Exit, MainAt

LEMMA PcFacts ==
  /\ "idle" \in AgentPcs /\ "idle" \notin Busy
  /\ "took" \in AgentPcs /\ "took" \in Busy
  /\ "check" \in AgentPcs /\ "check" \in Busy
  /\ "handle" \in AgentPcs /\ "handle" \in Busy
  /\ "send" \in AgentPcs /\ "send" \in Busy
  /\ "exited" \in AgentPcs /\ "exited" \notin Busy
BY DEF AgentPcs, Busy

\* One agent a moves to p holding j, the others stay: what AgentInv asks of it.
LEMMA AgentMove ==
  ASSUME IInv, pool' = pool, NEW a \in Agents, NEW p \in AgentPcs, NEW j \in Nat,
         pc' = [pc EXCEPT ![a] = p], job' = [job EXCEPT ![a] = j],
         Front' \in Nat, Front' >= Front,
         p \in Busy <=> j # 0,
         j # 0 => j < Front' /\ \A b \in Agents \ {a} : job[b] # j,
         pc[Main] # "idle" => mainPc' = mainPc,
         a = Main => /\ p \in {"idle", "check", "handle", "send"}
                     /\ p # "idle" => pool = {} /\ mainPc' = "walk"
  PROVE  AgentInv'
<1>1. /\ \A b \in Agents : pc'[b] = IF b = a THEN p ELSE pc[b]
      /\ \A b \in Agents : job'[b] = IF b = a THEN j ELSE job[b]
      /\ \A b \in Agents : job[b] \in Nat
      /\ Main \in Agents /\ Front \in Int
  BY DEF IInv, TypeOK, Agents, Front
<1>2. AgentInv
  BY DEF IInv
<1>3. \A b \in Agents : pc'[b] \in Busy <=> job'[b] # 0
  BY <1>1, <1>2 DEF AgentInv
<1>4. \A b, c \in Agents : job'[b] # 0 /\ job'[b] = job'[c] => b = c
  BY <1>1, <1>2 DEF AgentInv
<1>5. \A b \in Agents : job'[b] # 0 => job'[b] < Front'
  BY <1>1, <1>2 DEF AgentInv
<1>6. /\ pc'[Main] \in {"idle", "check", "handle", "send"}
      /\ pc'[Main] # "idle" => pool = {} /\ mainPc' = "walk"
  BY <1>1, <1>2 DEF AgentInv
<1>7. QED
  BY <1>3, <1>4, <1>5, <1>6 DEF AgentInv

\* Files and agents stay paired one to one, behind Front.
LEMMA AgentStep ==
  ASSUME IInv, [Next]_vars
  PROVE  AgentInv'
<1> USE BatchAssumption DEF IInv
<1>0. /\ pc \in [Agents -> AgentPcs] /\ job \in [Agents -> 0 .. NumFiles]
      /\ \A a \in Agents : job[a] \in Nat
      /\ Front \in Nat \ {0} /\ Front' \in Nat /\ Front' >= Front
      /\ Main \in Agents /\ Workers \subseteq Agents
  <2>1. Front' = Front \/ Front' = Front + 1
    BY FrontStep
  <2>2. QED
    BY <2>1, FrontStep DEF TypeOK, Agents
<1>m. pool' = pool /\ (pc[Main] # "idle" => mainPc' = mainPc)
  BY MainMoves, PoolFrame
<1>1. CASE SubmitInline
  <2>1. /\ pc' = [pc EXCEPT ![Main] = "check"] /\ job' = [job EXCEPT ![Main] = Front]
        /\ mainPc' = "walk" /\ pool = {} /\ Front' = Front + 1
    BY <1>1, FrontStep DEF SubmitInline
  <2>2. /\ Front \in Nat /\ Front # 0 /\ Front < Front'
        /\ \A b \in Agents \ {Main} : job[b] # Front
    BY <2>1, <1>0 DEF Agents, AgentInv
  <2>3. QED
    BY <2>1, <2>2, <1>0, <1>m, AgentMove, PcFacts
<1>2. ASSUME NEW w \in Workers, WorkerNext(w) PROVE AgentInv'
  <2>0. w # Main /\ w \in Agents
    BY DEF Agents
  <2>1. CASE TakeJob(w)
    <3>1. /\ pc' = [pc EXCEPT ![w] = "took"] /\ job' = [job EXCEPT ![w] = Front]
          /\ Front' = Front + 1
      BY <2>1, FrontStep DEF TakeJob
    <3>2. /\ Front \in Nat /\ Front # 0 /\ Front < Front'
          /\ \A b \in Agents \ {w} : job[b] # Front
      BY <3>1, <1>0 DEF AgentInv
    <3>3. QED
      BY <3>1, <3>2, <2>0, <1>0, <1>m, AgentMove, PcFacts
  <2>2. CASE WorkerExit(w)
    <3>1. pc' = [pc EXCEPT ![w] = "exited"] /\ job' = [job EXCEPT ![w] = 0]
      BY <2>2, <2>0, <1>0 DEF WorkerExit, AgentInv, Busy
    <3>2. QED
      BY <3>1, <2>0, <1>0, <1>m, AgentMove, PcFacts
  <2>3. CASE DropJob(w)
    BY <2>3, <2>0, <1>0, <1>m, AgentMove, PcFacts DEF DropJob
  <2>4. CASE StartJob(w)
    <3>1. /\ pc' = [pc EXCEPT ![w] = "check"] /\ job' = [job EXCEPT ![w] = job[w]]
          /\ pc[w] \in Busy
      BY <2>4, <2>0, <1>0 DEF StartJob, Busy
    <3>2. /\ job[w] \in Nat /\ job[w] # 0 /\ job[w] < Front'
          /\ \A b \in Agents \ {w} : job[b] # job[w]
      BY <3>1, <2>0, <1>0 DEF AgentInv
    <3>3. QED
      BY <3>1, <3>2, <2>0, <1>0, <1>m, AgentMove, PcFacts
  <2>5. QED
    BY <1>2, <2>1, <2>2, <2>3, <2>4 DEF WorkerNext
<1>3. ASSUME NEW a \in Agents, JobNext(a) PROVE AgentInv'
  <2>0. /\ mainPc' = mainPc
        /\ pc[a] \in Busy /\ job[a] \in Nat /\ job[a] # 0 /\ job[a] < Front'
        /\ \A b \in Agents \ {a} : job[b] # job[a]
        /\ a = Main => pool = {} /\ mainPc = "walk"
    <3>1. mainPc' = mainPc /\ pc[a] \in {"check", "handle", "send"}
      BY <1>3 DEF JobNext, DiskFull, DiskOk, HandleFile, SendResult, mainVars
    <3>2. QED
      BY <3>1, <1>0 DEF AgentInv, Busy
  <2>1. CASE DiskFull(a)
    BY <2>1, <2>0, <1>0, <1>m, AgentMove, PcFacts DEF DiskFull
  <2>2. CASE DiskOk(a)
    <3>1. pc' = [pc EXCEPT ![a] = "handle"] /\ job' = [job EXCEPT ![a] = job[a]]
      BY <2>2, <1>0 DEF DiskOk
    <3>2. QED
      BY <3>1, <2>0, <1>0, <1>m, AgentMove, PcFacts
  <2>3. CASE HandleFile(a)
    <3>1. pc' = [pc EXCEPT ![a] = "send"] /\ job' = [job EXCEPT ![a] = job[a]]
      BY <2>3, <1>0 DEF HandleFile
    <3>2. QED
      BY <3>1, <2>0, <1>0, <1>m, AgentMove, PcFacts
  <2>4. CASE SendResult(a)
    BY <2>4, <2>0, <1>0, <1>m, AgentMove, PcFacts DEF SendResult
  <2>5. QED
    BY <1>3, <2>1, <2>2, <2>3, <2>4 DEF JobNext
<1>4. ASSUME ~SubmitInline, \A w \in Workers : ~WorkerNext(w), \A a \in Agents : ~JobNext(a)
      PROVE  AgentInv'
  <2>1. UNCHANGED <<pc, job>>
    BY <1>4, AgentFrame
  <2>2. QED
    BY <2>1, <1>0, <1>m DEF AgentInv
<1>5. QED
  BY <1>1, <1>2, <1>3, <1>4

-----------------------------------------------------------------------------
\* What the other parts of the invariant say of a busy agent and its file.
LEMMA HeldFile ==
  ASSUME IInv, NEW a \in Agents, pc[a] \in Busy
  PROVE  /\ job[a] \in Files /\ job[a] # 0 /\ job[a] < Front
         /\ \A b \in Agents : job[b] = job[a] => b = a
BY DEF IInv, TypeOK, AgentInv, Files

\* No part of an outcome, of a collected file or of the totals changes hands
\* outside the agents and the collector.
LEMMA CountFrame ==
  ASSUME [Next]_vars, \A a \in Agents : ~JobNext(a), ~CollectorNext
  PROVE  UNCHANGED <<collector, counted, done, exitCode>>
<1> USE DEF vars, mainVars, poolVars, ctxVars, countVars
<1>1. CASE MainNext
  BY <1>1 DEF MainNext, WalkFile, WalkError, WalkCancelled, WalkEnd, CloseJobs, CloseWriters, Submit,
     SubmitInline, CloseDigestIndex, CloseFileIndex, CloseResults, Close, WaitWorkers, CancelContext, Exit
<1>2. CASE \E w \in Workers : WorkerNext(w)
  BY <1>2 DEF WorkerNext, TakeJob, WorkerExit, DropJob, StartJob
<1>3. CASE Signal \/ UNCHANGED vars
  BY <1>3 DEF Signal
<1>4. QED
  BY <1>1, <1>2, <1>3 DEF Next, Terminated

\* Outcomes keep agreeing with where the files are.
LEMMA OutcomeStep ==
  ASSUME IInv, [Next]_vars
  PROVE  OutcomeInv'
<1> USE DEF OutcomeInv
<1>0. /\ pc \in [Agents -> AgentPcs] /\ job \in [Agents -> 0 .. NumFiles]
      /\ outcome \in [Files -> Outcomes]
      /\ \A a \in Agents : job[a] \in Int
      /\ \A f \in Files : f \in Int /\ f # 0
      /\ collector \in 0 .. NumFiles /\ counted \subseteq Files
      /\ Front \in Nat \ {0} /\ Main \in Agents /\ Workers \subseteq Agents
      /\ OutcomeInv
  BY FrontStep, BatchAssumption DEF IInv, TypeOK, Agents, Files
<1>1. ASSUME NEW a \in Agents, NEW p \in {"took", "check"},
             pc' = [pc EXCEPT ![a] = p], job' = [job EXCEPT ![a] = Front],
             pc[a] = "idle", Front \in Files, Front' = Front + 1,
             UNCHANGED <<outcome, collector, counted>>
      PROVE  OutcomeInv'
  <2>1. /\ \A b \in Agents : pc'[b] = IF b = a THEN p ELSE pc[b]
        /\ \A b \in Agents : job'[b] = IF b = a THEN Front ELSE job[b]
        /\ job[a] = 0
    BY <1>0, <1>1, PcFacts DEF IInv, AgentInv
  <2>2. Front \in Files => outcome[Front] = "none"
    BY <1>0
  <2>3. \A f \in Files : outcome'[f] # "none" => f < Front'
    BY <1>0, <1>1
  <2>4. \A b \in Agents : pc'[b] \in {"took", "check", "handle"} => outcome'[job'[b]] = "none"
    BY <1>0, <1>1, <2>1, <2>2
  <2>5. \A b \in Agents : pc'[b] = "send" =>
          outcome'[job'[b]] \in Reported /\ job'[b] \notin counted' /\ job'[b] # collector'
    BY <1>0, <1>1, <2>1
  <2>6. \A f \in Files : f < Front' /\ outcome'[f] = "none" => \E b \in Agents : job'[b] = f
    BY <1>0, <1>1, <2>1
  <2>7. \A f \in Files : outcome'[f] \in Reported =>
          f \in counted' \/ f = collector' \/ \E b \in Agents : job'[b] = f
    BY <1>0, <1>1, <2>1
  <2>8. QED
    BY <2>3, <2>4, <2>5, <2>6, <2>7, <1>0, <1>1
<1>2. CASE SubmitInline
  <2>1. /\ pc' = [pc EXCEPT ![Main] = "check"] /\ job' = [job EXCEPT ![Main] = Front]
        /\ pc[Main] = "idle" /\ UNCHANGED <<outcome, collector, counted>>
        /\ Front' = Front + 1 /\ Front \in Files
    BY <1>2, FrontStep DEF SubmitInline, MainAt, countVars, IInv, AbortInv
  <2>2. QED
    BY <2>1, <1>0, <1>1
<1>3. ASSUME NEW w \in Workers, TakeJob(w) PROVE OutcomeInv'
  <2>1. Head(jobs) \in Files
    BY <1>3 DEF TakeJob, IInv, TypeOK
  <2>2. QED
    BY <2>1, <1>0, <1>1, <1>3, FrontStep DEF TakeJob, countVars
<1>4. ASSUME NEW w \in Workers, WorkerExit(w) PROVE OutcomeInv'
  <2>1. /\ \A b \in Agents : pc'[b] = IF b = w THEN "exited" ELSE pc[b]
        /\ UNCHANGED <<job, outcome, collector, counted>>
    BY <1>0, <1>4 DEF WorkerExit, countVars
  <2>2. Front' = Front
    BY <1>4, FrontStep DEF WorkerExit, mainVars, MainAt, SubmitInline, TakeJob
  <2>3. QED
    BY <2>1, <2>2, <1>0
<1>5. ASSUME NEW a \in Agents, NEW p \in {"check", "handle"}, pc[a] \in {"took", "check"},
             pc' = [pc EXCEPT ![a] = p], UNCHANGED <<job, outcome, collector, counted>>,
             Front' = Front
      PROVE  OutcomeInv'
  <2>1. \A b \in Agents : pc'[b] = IF b = a THEN p ELSE pc[b]
    BY <1>0, <1>5
  <2>2. QED
    BY <2>1, <1>0, <1>5
<1>6. ASSUME NEW a \in Agents, NEW o \in {"dropped", "diskFull"},
             NEW p, pc' = [pc EXCEPT ![a] = p], p \in {"idle", "exited"},
             pc[a] \in {"took", "check"}, job' = [job EXCEPT ![a] = 0],
             outcome' = [outcome EXCEPT ![job[a]] = o],
             UNCHANGED <<collector, counted>>, Front' = Front
      PROVE  OutcomeInv'
  <2>1. /\ \A b \in Agents : pc'[b] = IF b = a THEN p ELSE pc[b]
        /\ \A b \in Agents : job'[b] = IF b = a THEN 0 ELSE job[b]
        /\ \A f \in Files : outcome'[f] = IF f = job[a] THEN o ELSE outcome[f]
    BY <1>0, <1>6
  <2>2. /\ job[a] \in Files /\ job[a] < Front /\ \A b \in Agents : job[b] = job[a] => b = a
        /\ outcome[job[a]] = "none" /\ job[a] \notin counted /\ job[a] # collector
    BY <1>0, <1>6, HeldFile DEF Busy, Reported
  <2>3. \A b \in Agents : pc[b] \in Busy => job[b] \in Files /\ (b # a => job[b] # job[a])
    BY <2>2, HeldFile
  <2>4. \A f \in Files : outcome'[f] # "none" => f < Front'
    BY <1>0, <1>6, <2>1, <2>2
  <2>5. \A b \in Agents : pc'[b] \in {"took", "check", "handle"} => outcome'[job'[b]] = "none"
    BY <1>0, <1>6, <2>1, <2>3 DEF Busy
  <2>6. \A b \in Agents : pc'[b] = "send" =>
          outcome'[job'[b]] \in Reported /\ job'[b] \notin counted' /\ job'[b] # collector'
    BY <1>0, <1>6, <2>1, <2>3 DEF Busy
  <2>7. /\ collector' # 0 => outcome'[collector'] \in Reported /\ collector' \notin counted'
        /\ \A f \in counted' : outcome'[f] \in Reported
    BY <1>0, <1>6, <2>1, <2>2 DEF Files
  <2>8. \A f \in Files : f < Front' /\ outcome'[f] = "none" => \E b \in Agents : job'[b] = f
    BY <1>0, <1>6, <2>1, <2>2
  <2>9. \A f \in Files : outcome'[f] \in Reported =>
          f \in counted' \/ f = collector' \/ \E b \in Agents : job'[b] = f
    BY <1>0, <1>6, <2>1, <2>2 DEF Reported
  <2>10. QED
    BY <2>4, <2>5, <2>6, <2>7, <2>8, <2>9
<1>7. ASSUME NEW a \in Agents, HandleFile(a) PROVE OutcomeInv'
  <2>1. PICK o \in Reported : outcome' = [outcome EXCEPT ![job[a]] = o]
    BY <1>7 DEF HandleFile
  <2>2. /\ \A b \in Agents : pc'[b] = IF b = a THEN "send" ELSE pc[b]
        /\ \A f \in Files : outcome'[f] = IF f = job[a] THEN o ELSE outcome[f]
        /\ UNCHANGED <<job, collector, counted>>
        /\ o # "none"
    BY <1>0, <1>7, <2>1 DEF HandleFile, countVars, Reported
  <2>3. /\ job[a] \in Files /\ job[a] < Front /\ \A b \in Agents : job[b] = job[a] => b = a
        /\ outcome[job[a]] = "none" /\ job[a] \notin counted /\ job[a] # collector
    BY <1>0, <1>7, HeldFile DEF Busy, Reported, HandleFile
  <2>4. \A b \in Agents : pc[b] \in Busy => job[b] \in Files /\ (b # a => job[b] # job[a])
    BY <2>3, HeldFile
  <2>5. Front' = Front
    BY <1>7, FrontStep DEF HandleFile, SubmitInline, TakeJob, Front, mainVars
  <2>6. \A f \in Files : outcome'[f] # "none" => f < Front'
    BY <1>0, <2>2, <2>3, <2>5
  <2>7. \A b \in Agents : pc'[b] \in {"took", "check", "handle"} => outcome'[job'[b]] = "none"
    BY <1>0, <2>2, <2>4 DEF Busy
  <2>8. \A b \in Agents : pc'[b] = "send" =>
          outcome'[job'[b]] \in Reported /\ job'[b] \notin counted' /\ job'[b] # collector'
    BY <1>0, <2>1, <2>2, <2>3, <2>4 DEF Busy
  <2>9. /\ collector' # 0 => outcome'[collector'] \in Reported /\ collector' \notin counted'
        /\ \A f \in counted' : outcome'[f] \in Reported
    BY <1>0, <2>2, <2>3 DEF Files
  <2>10. /\ \A f \in Files : f < Front' /\ outcome'[f] = "none" => \E b \in Agents : job'[b] = f
         /\ \A f \in Files : outcome'[f] \in Reported =>
              f \in counted' \/ f = collector' \/ \E b \in Agents : job'[b] = f
    BY <1>0, <2>2, <2>3, <2>5
  <2>11. QED
    BY <2>6, <2>7, <2>8, <2>9, <2>10
<1>8. ASSUME NEW a \in Agents, SendResult(a) PROVE OutcomeInv'
  <2>1. /\ \A b \in Agents : pc'[b] = IF b = a THEN "idle" ELSE pc[b]
        /\ \A b \in Agents : job'[b] = IF b = a THEN 0 ELSE job[b]
        /\ collector = 0 /\ collector' = job[a] /\ pc[a] = "send"
        /\ UNCHANGED <<outcome, counted>>
    BY <1>0, <1>8 DEF SendResult
  <2>2. /\ job[a] \in Files /\ \A b \in Agents : job[b] = job[a] => b = a
        /\ outcome[job[a]] \in Reported /\ job[a] \notin counted
    BY <1>0, <2>1, HeldFile DEF Busy
  <2>3. \A b \in Agents : pc'[b] # "idle" => b # a /\ job'[b] = job[b] /\ pc'[b] = pc[b]
    BY <2>1
  <2>4. Front' = Front
    BY <1>8, FrontStep DEF SendResult, SubmitInline, TakeJob, Front, mainVars
  <2>5. \A b \in Agents : pc'[b] = "send" =>
          outcome'[job'[b]] \in Reported /\ job'[b] \notin counted' /\ job'[b] # collector'
    BY <1>0, <2>1, <2>2, <2>3
  <2>6. /\ \A f \in Files : f < Front' /\ outcome'[f] = "none" => \E b \in Agents : job'[b] = f
        /\ \A f \in Files : outcome'[f] \in Reported =>
              f \in counted' \/ f = collector' \/ \E b \in Agents : job'[b] = f
    BY <1>0, <2>1, <2>2, <2>4 DEF Reported
  <2>7. QED
    BY <1>0, <2>1, <2>2, <2>3, <2>4, <2>5, <2>6
<1>9. CASE Merge
  <2>1. /\ collector # 0 /\ collector' = 0 /\ counted' = counted \cup {collector}
        /\ UNCHANGED <<pc, job, outcome>>
    BY <1>9 DEF Merge, poolVars
  <2>2. Front' = Front
    BY <1>9 DEF Merge, poolVars, mainVars, Front
  <2>3. \A b \in Agents : pc[b] = "send" => job[b] # 0
    BY HeldFile DEF Busy
  <2>4. QED
    BY <1>0, <2>1, <2>2, <2>3
<1>10. ASSUME UNCHANGED <<pc, job, outcome, collector, counted>>, Front' = Front PROVE OutcomeInv'
  BY <1>0, <1>10
<1>11. ASSUME NEW w \in Workers, WorkerNext(w) PROVE OutcomeInv'
  <2>0. w \in Agents
    BY <1>0
  <2>1. CASE DropJob(w)
    <3>1. Front' = Front
      BY <2>1 DEF DropJob, mainVars, Front
    <3>2. QED
      BY <2>0, <2>1, <3>1, <1>6 DEF DropJob, countVars
  <2>2. CASE StartJob(w)
    <3>1. Front' = Front
      BY <2>2 DEF StartJob, mainVars, Front
    <3>2. QED
      BY <2>0, <2>2, <3>1, <1>5 DEF StartJob, countVars
  <2>3. QED
    BY <1>3, <1>4, <1>11, <2>1, <2>2 DEF WorkerNext
<1>12. ASSUME NEW a \in Agents, JobNext(a) PROVE OutcomeInv'
  <2>1. CASE DiskFull(a)
    <3>1. Front' = Front
      BY <2>1 DEF DiskFull, mainVars, Front
    <3>2. QED
      BY <2>1, <3>1, <1>6 DEF DiskFull, countVars
  <2>2. CASE DiskOk(a)
    <3>1. Front' = Front
      BY <2>2 DEF DiskOk, mainVars, Front
    <3>2. QED
      BY <2>2, <3>1, <1>5 DEF DiskOk, countVars
  <2>3. QED
    BY <1>7, <1>8, <1>12, <2>1, <2>2 DEF JobNext
<1>13. CASE CollectorEnd
  BY <1>13, <1>10 DEF CollectorEnd, poolVars, mainVars, Front
<1>14. ASSUME ~SubmitInline, \A w \in Workers : ~WorkerNext(w),
              \A a \in Agents : ~JobNext(a), ~CollectorNext
       PROVE  OutcomeInv'
  <2>1. UNCHANGED <<pc, job, outcome, collector, counted>> /\ \A w \in Workers : ~TakeJob(w)
    BY <1>14, AgentFrame, CountFrame
  <2>2. Front' = Front
    BY <1>14, <2>1, FrontStep
  <2>3. QED
    BY <2>1, <2>2, <1>10
<1>15. QED
  BY <1>2, <1>9, <1>11, <1>12, <1>13, <1>14 DEF CollectorNext

-----------------------------------------------------------------------------
\* From WaitWorkers on, nobody but the collector and main does anything.
LEMMA Quiet ==
  ASSUME IInv, mainPc \in AfterWait
  PROVE  /\ \A w \in Workers : ~WorkerNext(w)
         /\ \A a \in Agents : ~JobNext(a)
<1>1. \A a \in Agents : pc[a] \in {"idle", "exited"}
  BY DEF IInv, StageInv, AgentInv, AfterWait, AfterWalk, MainPcs, Agents
<1>2. \A w \in Workers : pc[w] = "exited"
  BY DEF IInv, StageInv
<1>3. QED
  BY <1>1, <1>2 DEF WorkerNext, TakeJob, WorkerExit, DropJob, StartJob,
     JobNext, DiskFull, DiskOk, HandleFile, SendResult

\* Only main moves the walk on and closes resources.
LEMMA OpenFrame ==
  ASSUME [Next]_vars, ~MainNext
  PROVE  UNCHANGED <<mainPc, next, runErr, open>>
BY DEF Next, Terminated, WorkerNext, JobNext, CollectorNext, Merge, CollectorEnd, Signal,
   TakeJob, WorkerExit, DropJob, StartJob, DiskFull, DiskOk, HandleFile, SendResult,
   vars, mainVars

\* The closing of resources keeps its order with the workers and the collector.
LEMMA StageStep ==
  ASSUME IInv, [Next]_vars
  PROVE  StageInv'
<1> USE DEF StageInv
<1>0. IInv /\ StageInv /\ TypeOK
  BY DEF IInv
<1>1. CASE MainNext
  <2>0. UNCHANGED <<collector, counted, done, exitCode>> /\ outcome' = outcome
    BY <1>1 DEF countVars, MainNext, WalkFile, WalkError, WalkCancelled, WalkEnd, CloseJobs,
       CloseWriters, Submit, SubmitInline, CloseDigestIndex, CloseFileIndex, CloseResults, Close,
       WaitWorkers, CancelContext, Exit
  <2>1. CASE WalkFile \/ WalkError \/ WalkCancelled \/ WalkEnd \/ Submit \/ SubmitInline
    BY <1>0, <2>0, <2>1 DEF WalkFile, WalkError, WalkCancelled, WalkEnd, Submit, SubmitInline,
       MainAt, AfterWait, AfterWalk, MainPcs, Closing
  <2>2. CASE CloseJobs
    BY <1>0, <2>0, <2>2 DEF CloseJobs, Close, MainAt, AfterWait, AfterWalk, MainPcs, Closing
  <2>3. CASE WaitWorkers
    BY <1>0, <2>0, <2>3 DEF WaitWorkers, MainAt, AfterWait, AfterWalk, MainPcs, Closing, poolVars
  <2>4. CASE CloseWriters \/ CloseDigestIndex \/ CloseFileIndex \/ CloseResults
    BY <1>0, <2>0, <2>4 DEF CloseWriters, CloseDigestIndex, CloseFileIndex, CloseResults, Close,
       MainAt, AfterWait, AfterWalk, MainPcs, Closing, poolVars
  <2>5. CASE CancelContext \/ Exit
    BY <1>0, <2>0, <2>5 DEF CancelContext, Exit, MainAt, AfterWait, AfterWalk, MainPcs, Closing, poolVars
  <2>6. QED
    BY <1>1, <2>1, <2>2, <2>3, <2>4, <2>5 DEF MainNext
<1>2. ASSUME NEW w \in Workers, WorkerNext(w) PROVE StageInv'
  <2>1. mainPc \notin AfterWait /\ mainPc \notin Closing
    BY <1>0, <1>2, Quiet DEF Closing, AfterWait, AfterWalk, MainPcs
  <2>2. UNCHANGED <<mainPc, open, collector, done>>
    BY <1>2 DEF WorkerNext, TakeJob, WorkerExit, DropJob, StartJob, mainVars, countVars
  <2>3. QED
    BY <1>0, <2>1, <2>2 DEF Closing
<1>3. ASSUME NEW a \in Agents, JobNext(a) PROVE StageInv'
  <2>1. mainPc \notin AfterWait /\ mainPc \notin Closing
    BY <1>0, <1>3, Quiet DEF Closing, AfterWait, AfterWalk, MainPcs
  <2>2. UNCHANGED <<mainPc, open, done>>
    BY <1>3 DEF JobNext, DiskFull, DiskOk, HandleFile, SendResult, mainVars, countVars
  <2>3. QED
    BY <1>0, <2>1, <2>2 DEF Closing
<1>4. CASE Merge
  BY <1>0, <1>4 DEF Merge, mainVars, poolVars
<1>5. CASE CollectorEnd
  BY <1>0, <1>5 DEF CollectorEnd, mainVars, poolVars
<1>6. CASE Signal \/ UNCHANGED vars
  BY <1>0, <1>6 DEF Signal, vars, mainVars, poolVars, countVars
<1>7. QED
  BY <1>1, <1>2, <1>3, <1>4, <1>5, <1>6 DEF Next, Terminated, CollectorNext

-----------------------------------------------------------------------------
\* While agents still work, a cancellation is a fault's doing.
LEMMA CancelAborts ==
  ASSUME IInv, mainPc \notin AfterWait, NEW who \in FaultKinds, Cancel(who)
  PROVE  /\ Aborted' /\ cancelled' /\ cancelledBy' # "main"
         /\ cancelled => UNCHANGED ctxVars
         /\ ~cancelled => atCancel' = next
<1>1. cancelledBy \in FaultKinds \cup {"nobody"}
  BY DEF IInv, TypeOK, AbortInv, AfterWait, AfterWalk, MainPcs
<1>2. QED
  BY <1>1 DEF Cancel, cancelled, Aborted, FaultKinds, ctxVars

\* Work left undone keeps having a fault as its cause.
LEMMA AbortStep ==
  ASSUME IInv, [Next]_vars
  PROVE  AbortInv'
<1> USE DEF AbortInv, GivenUp
<1>0. /\ IInv /\ AbortInv /\ TypeOK
      /\ next \in Nat /\ atCancel \in Nat
      /\ pc \in [Agents -> AgentPcs] /\ outcome \in [Files -> Outcomes]
      /\ Workers \subseteq Agents /\ pool \subseteq Workers /\ pool' = pool
  BY BatchAssumption, PoolFrame DEF IInv, TypeOK, Agents
<1>1. CASE MainNext
  <2>0. UNCHANGED outcome /\ \A w \in Workers : pc'[w] = "exited" => pc[w] = "exited"
    BY <1>0, <1>1 DEF MainNext, WalkFile, WalkError, WalkCancelled, WalkEnd, CloseJobs,
       CloseWriters, Submit, SubmitInline, CloseDigestIndex, CloseFileIndex, CloseResults, Close,
       WaitWorkers, CancelContext, Exit, poolVars
  <2>1. CASE WalkFile \/ WalkError \/ WalkCancelled
    BY <1>0, <2>0, <2>1 DEF WalkFile, WalkError, WalkCancelled, MainAt, poolVars, ctxVars,
       AfterWalk, MainPcs, cancelled, Aborted
  <2>2. CASE WalkEnd
    <3>1. next = NumFiles + 1
      BY <1>0, <2>2, BatchAssumption DEF WalkEnd, TypeOK, Files
    <3>2. QED
      BY <1>0, <2>0, <2>2, <3>1 DEF WalkEnd, MainAt, poolVars, ctxVars, cancelled, Aborted
  <2>3. CASE Submit
    <3>1. "jobs" \in open
      BY <1>0, <2>3 DEF Submit, MainAt, IInv, StageInv
    <3>2. QED
      BY <1>0, <2>0, <2>3, <3>1 DEF Submit, MainAt, ctxVars, AfterWalk, cancelled, Aborted
  <2>4. CASE SubmitInline
    BY <1>0, <2>0, <2>4 DEF SubmitInline, MainAt, ctxVars, AfterWalk, cancelled, Aborted
  <2>5. CASE CloseJobs \/ CloseWriters \/ CloseDigestIndex \/ CloseFileIndex \/ CloseResults \/ WaitWorkers
    BY <1>0, <2>0, <2>5 DEF CloseJobs, CloseWriters, CloseDigestIndex, CloseFileIndex, CloseResults,
       WaitWorkers, Close, MainAt, poolVars, ctxVars, AfterWalk, MainPcs, cancelled, Aborted
  <2>6. CASE CancelContext
    <3>1. /\ mainPc = "cancel" /\ mainPc' = "awaitDone" /\ UNCHANGED <<next, runErr, jobs, open>>
          /\ cancelledBy' = IF cancelled THEN cancelledBy ELSE "main"
          /\ atCancel' = IF cancelled THEN atCancel ELSE next
      BY <2>6 DEF CancelContext, MainAt, poolVars, Cancel
    <3>2. Aborted => Aborted'
      BY <3>1 DEF Aborted, cancelled, FaultKinds
    <3>3. QED
      BY <1>0, <2>0, <3>1, <3>2 DEF AfterWalk, MainPcs, cancelled
  <2>7. CASE Exit
    BY <1>0, <2>0, <2>7 DEF Exit, MainAt, poolVars, ctxVars, AfterWalk, MainPcs, cancelled, Aborted
  <2>8. QED
    BY <1>1, <2>1, <2>2, <2>3, <2>4, <2>5, <2>6, <2>7 DEF MainNext
<1>2. ASSUME NEW w \in Workers, WorkerNext(w) PROVE AbortInv'
  <2>0. /\ UNCHANGED <<mainPc, next, runErr, open, cancelledBy, atCancel>>
        /\ mainPc \notin AfterWait
    BY <1>0, <1>2, Quiet DEF WorkerNext, TakeJob, WorkerExit, DropJob, StartJob, mainVars, ctxVars
  <2>1. CASE TakeJob(w)
    <3>1. jobs # <<>> /\ UNCHANGED outcome /\ pc' = [pc EXCEPT ![w] = "took"]
      BY <2>1 DEF TakeJob
    <3>2. QED
      BY <1>0, <2>0, <3>1 DEF Aborted, cancelled
  <2>2. CASE WorkerExit(w)
    BY <1>0, <2>0, <2>2 DEF WorkerExit, Aborted, cancelled
  <2>3. CASE DropJob(w)
    <3>1. Aborted
      BY <1>0, <2>0, <2>3 DEF DropJob, cancelled, Aborted, TypeOK, AfterWait, AfterWalk, MainPcs
    <3>2. QED
      BY <1>0, <2>0, <2>3, <3>1 DEF Aborted, cancelled
  <2>4. CASE StartJob(w)
    BY <1>0, <2>0, <2>4 DEF StartJob, Aborted, cancelled
  <2>5. QED
    BY <1>2, <2>1, <2>2, <2>3, <2>4 DEF WorkerNext
<1>3. ASSUME NEW a \in Agents, JobNext(a) PROVE AbortInv'
  <2>0. /\ UNCHANGED <<mainPc, next, runErr, open, jobs>>
        /\ mainPc \notin AfterWait
        /\ \A w \in Workers : pc'[w] = "exited" => pc[w] = "exited"
    BY <1>0, <1>3, Quiet DEF JobNext, DiskFull, DiskOk, HandleFile, SendResult, mainVars
  <2>1. CASE DiskFull(a)
    <3>1. /\ Aborted' /\ cancelledBy' # "main" /\ (cancelled => UNCHANGED ctxVars)
          /\ ~cancelled => atCancel' = next
      BY <1>0, <2>0, <2>1, CancelAborts, FaultNames DEF DiskFull
    <3>2. QED
      BY <1>0, <2>0, <3>1 DEF ctxVars, cancelled, Aborted
  <2>2. CASE DiskOk(a) \/ SendResult(a)
    BY <1>0, <2>0, <2>2 DEF DiskOk, SendResult, ctxVars, cancelled, Aborted
  <2>3. CASE HandleFile(a)
    <3>1. \A f \in Files : GivenUp(f)' => GivenUp(f)
      <4>1. PICK o \in Reported : outcome' = [outcome EXCEPT ![job[a]] = o]
        BY <2>3 DEF HandleFile
      <4>2. QED
        BY <1>0, <4>1 DEF Reported
    <3>2. CASE UNCHANGED ctxVars
      BY <1>0, <2>0, <3>1, <3>2 DEF ctxVars, cancelled, Aborted
    <3>3. CASE Cancel("file")
      <4>1. /\ Aborted' /\ cancelledBy' # "main" /\ (cancelled => UNCHANGED ctxVars)
            /\ ~cancelled => atCancel' = next
        BY <1>0, <2>0, <3>3, CancelAborts, FaultNames
      <4>2. QED
        BY <1>0, <2>0, <4>1 DEF ctxVars, cancelled, Aborted
    <3>4. QED
      BY <2>3, <3>2, <3>3 DEF HandleFile
  <2>4. QED
    BY <1>3, <2>1, <2>2, <2>3 DEF JobNext
<1>4. CASE CollectorNext \/ UNCHANGED vars
  BY <1>0, <1>4 DEF CollectorNext, Merge, CollectorEnd, vars, mainVars, poolVars, ctxVars,
     cancelled, Aborted
<1>5. CASE Signal
  <2>1. /\ ~cancelled /\ cancelledBy' = "signal" /\ atCancel' = next
        /\ UNCHANGED <<mainPc, next, runErr, jobs, pc, open, outcome>>
    BY <1>5 DEF Signal, Cancel, mainVars, poolVars
  <2>2. QED
    BY <1>0, <2>1 DEF cancelled, Aborted, FaultKinds
<1>6. QED
  BY <1>1, <1>2, <1>3, <1>4, <1>5 DEF Next, Terminated

-----------------------------------------------------------------------------
LEMMA InitInv == Init => IInv
<1> SUFFICES ASSUME Init PROVE IInv
  OBVIOUS
<1> USE BatchAssumption DEF Init
<1>0. /\ pc \in [Agents -> AgentPcs] /\ job \in [Agents -> 0 .. NumFiles]
      /\ outcome \in [Files -> Outcomes]
  BY DEF AgentPcs, Outcomes
<1>a. jobs \in Seq(Files)
  OBVIOUS
<1>b. next \in 1 .. NumFiles + 1 /\ atCancel \in 0 .. NumFiles + 1 /\ collector \in 0 .. NumFiles
  OBVIOUS
<1>1. TypeOK
  BY <1>0, <1>a, <1>b DEF TypeOK, MainPcs
<1>2. Main \in Agents /\ jobs = <<>> /\ Len(jobs) = 0 /\ Front = 1
  BY DEF Agents, Front
<1>3. QueueInv
  BY <1>2 DEF QueueInv
<1>4. AgentInv
  BY <1>2 DEF AgentInv, Busy
<1>5. OutcomeInv
  BY <1>2 DEF OutcomeInv, Reported, Files
<1>6. StageInv
  BY DEF StageInv, AfterWait, AfterWalk, Closing, Resources
<1>7. AbortInv
  BY DEF AbortInv, AfterWalk, GivenUp, cancelled, Agents
<1>8. QED
  BY <1>1, <1>3, <1>4, <1>5, <1>6, <1>7 DEF IInv

\* IInv is an invariant of BatchRun: the parts above, put together.
THEOREM Invariance == Spec => []IInv
<1>1. IInv /\ [Next]_vars => IInv'
  BY TypeStep, QueueStep, AgentStep, OutcomeStep, StageStep, AbortStep DEF IInv
<1>2. QED
  BY InitInv, <1>1, PTL DEF Spec

\* Every variable of the run stays in its type.
THEOREM TypeCorrect == Spec => []TypeOK
BY Invariance, PTL DEF IInv

\* Nothing is used after Run's deferred calls have closed it: a busy agent
\* means that main has not got past its wait for the workers.
THEOREM UseBeforeClose == Spec => []NothingUsedAfterClose
<1>1. IInv => NothingUsedAfterClose
  <2> SUFFICES ASSUME IInv PROVE NothingUsedAfterClose
    OBVIOUS
  <2>1. mainPc = "submit" => "jobs" \in open
    BY DEF IInv, StageInv
  <2>2. ASSUME NEW a \in Agents, pc[a] \in Busy PROVE mainPc \notin AfterWait
    BY <2>2 DEF IInv, StageInv, AgentInv, Agents, Busy, AfterWait, AfterWalk, MainPcs
  <2>3. QED
    BY <2>1, <2>2 DEF NothingUsedAfterClose, IInv, StageInv
<1>2. QED
  BY Invariance, <1>1, PTL

\* Once the collector is done, every result is counted.
LEMMA ExitState ==
  ASSUME IInv, mainPc \in AfterWait, done
  PROVE  \A f \in Files : outcome[f] \in Reported <=> f \in counted
<1>1. collector = 0 /\ \A a \in Agents : job[a] = 0
  BY DEF IInv, StageInv, AgentInv, Agents, Busy, AfterWait, AfterWalk, MainPcs, TypeOK
<1>2. QED
  BY <1>1 DEF IInv, OutcomeInv, Files

\* The process exits with every result counted and an exit code that tells
\* whether one of them holds errors.
THEOREM CompleteExit == Spec => []ExitCountsEverything
<1>1. IInv => ExitCountsEverything
  <2> SUFFICES ASSUME IInv, mainPc = "exited" PROVE
        /\ \A f \in Files : outcome[f] \in Reported <=> f \in counted
        /\ exitCode = 1 <=> \E f \in Files : outcome[f] \in Bad
    BY DEF ExitCountsEverything
  <2>1. done /\ mainPc \in AfterWait
    BY DEF IInv, StageInv, AfterWait, AfterWalk, MainPcs
  <2>2. \A f \in Files : outcome[f] \in Reported <=> f \in counted
    BY <2>1, ExitState
  <2>3. exitCode = 1 <=> \E f \in Files : outcome[f] \in Bad
    BY <2>1, <2>2 DEF IInv, StageInv, TypeOK, Bad, Reported
  <2>4. QED
    BY <2>2, <2>3
<1>2. QED
  BY Invariance, <1>1, PTL

\* A run that no fault stopped has counted every file.
THEOREM NothingMissed == Spec => []CompleteUnlessAborted
<1>1. IInv => CompleteUnlessAborted
  <2> SUFFICES ASSUME IInv, mainPc = "exited", cancelledBy = "main", runErr = "none"
               PROVE  Files \subseteq counted
    BY DEF CompleteUnlessAborted, IInv, TypeOK
  <2>1. next = NumFiles + 1 /\ ~Aborted
    BY DEF IInv, AbortInv, Aborted, FaultKinds, AfterWalk, MainPcs
  <2>2. jobs = <<>>
    <3>1. CASE pool = {}
      BY <3>1 DEF IInv, QueueInv
    <3>2. CASE pool # {}
      BY <2>1, <3>2 DEF IInv, TypeOK, StageInv, AbortInv, AfterWait, AfterWalk, MainPcs
    <3>3. QED
      BY <3>1, <3>2
  <2>3. \A f \in Files : f < Front
    BY <2>1, <2>2, BatchAssumption DEF Front, Files
  <2>4. collector = 0 /\ \A a \in Agents : job[a] = 0
    BY DEF IInv, StageInv, AgentInv, Agents, Busy, AfterWait, AfterWalk, MainPcs, TypeOK
  <2>5. \A f \in Files : f # 0 /\ outcome[f] \in Reported
    BY <2>1, <2>3, <2>4, BatchAssumption
    DEF IInv, OutcomeInv, AbortInv, GivenUp, TypeOK, Outcomes, Files
  <2>6. QED
    BY <2>4, <2>5 DEF IInv, OutcomeInv
<1>2. QED
  BY Invariance, <1>1, PTL

\* At most one file is submitted after the context is cancelled.
THEOREM OneLateFile == Spec => []PromptCancel
<1>1. IInv => PromptCancel
  <2> SUFFICES ASSUME IInv, cancelled PROVE next <= atCancel + 1
    BY DEF PromptCancel
  <2>1. next \in Nat /\ atCancel \in Nat
    BY BatchAssumption DEF IInv, TypeOK
  <2>2. next <= atCancel + (IF mainPc = "submit" THEN 0 ELSE 1)
    BY DEF IInv, AbortInv
  <2>3. QED
    BY <2>1, <2>2
<1>2. QED
  BY Invariance, <1>1, PTL

\* A submitted file is in exactly one place, however the goroutines interleave.
THEOREM EachFileInOnePlace == Spec => []OnePlace
<1>1. ASSUME IInv, NEW f \in Files
      PROVE  /\ f < next => \E p \in PlaceNames : Places(f) = {p}
             /\ f >= next => Places(f) = {}
             /\ \A a, b \in Agents : job[a] = f /\ job[b] = f => a = b
             /\ \A i, j \in DOMAIN jobs : jobs[i] = f /\ jobs[j] = f => i = j
  <2>0. f \in Nat /\ f # 0 /\ next \in Nat /\ Len(jobs) \in Nat /\ jobs \in Seq(Files)
    BY <1>1, BatchAssumption DEF Files, IInv, TypeOK
  <2>1. \A i \in 1 .. Len(jobs) : jobs[i] = Front + i - 1
    BY <1>1 DEF IInv, QueueInv
  <2>2. DOMAIN jobs = 1 .. Len(jobs)
    BY <2>0
  <2>3. (\E i \in DOMAIN jobs : jobs[i] = f) <=> f >= Front /\ f < next
    <3>1. ASSUME f >= Front, f < next PROVE \E i \in 1 .. Len(jobs) : jobs[i] = f
      <4>1. f - Front + 1 \in 1 .. Len(jobs) /\ Front + (f - Front + 1) - 1 = f
        BY <2>0, <3>1 DEF Front
      <4>2. QED
        BY <4>1, <2>1
    <3>2. ASSUME NEW i \in 1 .. Len(jobs), jobs[i] = f PROVE f >= Front /\ f < next
      BY <2>0, <2>1, <3>2 DEF Front
    <3>3. QED
      BY <2>2, <3>1, <3>2
  <2>4. \A i, j \in DOMAIN jobs : jobs[i] = f /\ jobs[j] = f => i = j
    BY <2>0, <2>1, <2>2 DEF Front
  <2>5. \A a, b \in Agents : job[a] = f /\ job[b] = f => a = b
    BY <1>1, <2>0 DEF IInv, AgentInv
  <2>6. ASSUME NEW a \in Agents, job[a] = f
        PROVE  /\ f < Front /\ ~GivenUp(f) /\ f \notin counted /\ collector # f
    BY <1>1, <2>0, <2>6, BatchAssumption
    DEF IInv, AgentInv, OutcomeInv, Busy, GivenUp, Reported
  <2>7. f \in counted \/ collector = f => f < Front /\ outcome[f] \in Reported
    BY <1>1, <2>0 DEF IInv, OutcomeInv, Reported
  <2>8. ~(f \in counted /\ collector = f)
    BY <1>1, <2>0 DEF IInv, OutcomeInv
  <2>9. GivenUp(f) => f < Front /\ outcome[f] \notin Reported
    BY <1>1 DEF IInv, OutcomeInv, GivenUp, Reported
  <2>10. f < Front => \/ \E a \in Agents : job[a] = f
                      \/ f \in counted \/ collector = f \/ GivenUp(f)
    BY <1>1 DEF IInv, OutcomeInv, TypeOK, Outcomes, GivenUp
  <2>11. Front <= next /\ Front \in Nat
    BY <1>1, <2>0 DEF Front, IInv, QueueInv
  <2>12. f >= next => Places(f) = {}
    BY <2>0, <2>3, <2>6, <2>7, <2>9, <2>11 DEF Places, PlaceNames
  <2>13. ASSUME f < next PROVE \E p \in PlaceNames : Places(f) = {p}
    <3>1. CASE f >= Front
      <4>1. Places(f) = {"channel"}
        BY <2>0, <2>3, <2>6, <2>7, <2>9, <2>11, <2>13, <3>1 DEF Places, PlaceNames
      <4>2. QED
        BY <4>1 DEF PlaceNames
    <3>2. CASE f < Front /\ \E a \in Agents : job[a] = f
      <4>1. Places(f) = {"agent"}
        BY <2>0, <2>3, <2>6, <2>11, <3>2 DEF Places, PlaceNames
      <4>2. QED
        BY <4>1 DEF PlaceNames
    <3>3. CASE f < Front /\ \A a \in Agents : job[a] # f
      <4>1. Places(f) \in {{"totals"}, {"collector"}, {"givenUp"}}
        BY <2>0, <2>3, <2>7, <2>8, <2>9, <2>10, <2>11, <3>3 DEF Places, PlaceNames
      <4>2. QED
        BY <4>1 DEF PlaceNames
    <3>4. QED
      BY <2>0, <2>11, <3>1, <3>2, <3>3
  <2>14. QED
    BY <2>4, <2>5, <2>12, <2>13
<1>2. IInv => OnePlace
  BY <1>1 DEF OnePlace
<1>3. QED
  BY Invariance, <1>2, PTL

-----------------------------------------------------------------------------
\* A step that leaves outcomes, totals and the exit alone is no step of Batch.
LEMMA AbsStutter ==
  ASSUME UNCHANGED <<outcome, counted>>, UNCHANGED Status
  PROVE  UNCHANGED B!absVars
BY DEF B!absVars, Todo, Pending, BadOnes

\* Every step of the run is a step of Batch, or none.
LEMMA AbsStep ==
  ASSUME IInv, [Next]_vars
  PROVE  [B!AbsNext]_(B!absVars)
<1>0. /\ outcome \in [Files -> Outcomes] /\ counted \subseteq Files
      /\ \A f \in counted : outcome[f] \in Reported
      /\ B!Files = Files
  BY DEF IInv, TypeOK, OutcomeInv, B!Files, Files
<1>r. mainPc \notin AfterWait => mainPc # "exited"
  BY DEF AfterWait, AfterWalk, MainPcs
<1>1. ASSUME NEW a \in Agents, pc[a] \in {"took", "check", "handle"}, mainPc \notin AfterWait,
             NEW o \in Outcomes \ {"none"},
             outcome' = [outcome EXCEPT ![job[a]] = o], UNCHANGED <<mainPc, counted>>
      PROVE  B!AbsNext
  <2>1. job[a] \in Files /\ outcome[job[a]] = "none" /\ job[a] \notin counted
    BY <1>0, <1>1, HeldFile DEF IInv, OutcomeInv, Busy, Reported
  <2>2. \A f \in Files : outcome'[f] = IF f = job[a] THEN o ELSE outcome[f]
    BY <1>0, <1>1
  <2>3. /\ job[a] \in Todo /\ Todo' = Todo \ {job[a]} /\ UNCHANGED counted
        /\ Status = "running" /\ UNCHANGED Status
    BY <1>1, <1>r, <2>1, <2>2 DEF Todo, Status
  <2>4. CASE o \in Reported
    <3>1. /\ Pending' = Pending \cup {job[a]}
          /\ BadOnes' \in {BadOnes, BadOnes \cup {job[a]}}
      BY <1>1, <2>1, <2>2, <2>4 DEF Pending, BadOnes, Bad, Reported
    <3>2. B!Handle(job[a])
      BY <2>3, <3>1 DEF B!Handle
    <3>3. QED
      BY <1>0, <2>1, <2>3, <3>2 DEF B!AbsNext
  <2>5. CASE o \notin Reported
    <3>1. UNCHANGED <<Pending, BadOnes>>
      BY <1>1, <2>1, <2>2, <2>5 DEF Pending, BadOnes, Bad, Reported
    <3>2. B!GiveUp(job[a])
      BY <2>3, <3>1 DEF B!GiveUp
    <3>3. QED
      BY <1>0, <2>1, <2>3, <3>2 DEF B!AbsNext
  <2>6. QED
    BY <2>4, <2>5
<1>2. CASE \E w \in Workers : WorkerNext(w)
  <2>1. PICK w \in Workers : WorkerNext(w)
    BY <1>2
  <2>2. w \in Agents /\ mainPc \notin AfterWait
    BY <2>1, Quiet DEF Agents
  <2>3. CASE DropJob(w)
    BY <2>2, <2>3, <1>1 DEF DropJob, mainVars, countVars, Outcomes, Reported
  <2>4. CASE TakeJob(w) \/ WorkerExit(w) \/ StartJob(w)
    BY <2>4, AbsStutter DEF TakeJob, WorkerExit, StartJob, mainVars, countVars, Status
  <2>5. QED
    BY <2>1, <2>3, <2>4 DEF WorkerNext
<1>3. CASE \E a \in Agents : JobNext(a)
  <2>1. PICK a \in Agents : JobNext(a)
    BY <1>3
  <2>2. mainPc \notin AfterWait
    BY <2>1, Quiet
  <2>3. CASE DiskFull(a)
    BY <2>2, <2>3, <1>1 DEF DiskFull, mainVars, countVars, Outcomes, Reported
  <2>4. CASE HandleFile(a)
    <3>1. PICK o \in Reported : outcome' = [outcome EXCEPT ![job[a]] = o]
      BY <2>4 DEF HandleFile
    <3>2. o \in Outcomes \ {"none"}
      BY DEF Outcomes, Reported
    <3>3. QED
      BY <2>2, <2>4, <3>1, <3>2, <1>1 DEF HandleFile, mainVars, countVars
  <2>5. CASE DiskOk(a) \/ SendResult(a)
    BY <2>5, AbsStutter DEF DiskOk, SendResult, mainVars, countVars, Status
  <2>6. QED
    BY <2>1, <2>3, <2>4, <2>5 DEF JobNext
<1>4. CASE Merge
  <2>1. /\ collector \in Files /\ collector \notin counted /\ outcome[collector] \in Reported
        /\ mainPc # "exited"
    BY <1>4 DEF Merge, IInv, TypeOK, OutcomeInv, StageInv, Files
  <2>2. /\ collector \in Pending /\ Pending' = Pending \ {collector}
        /\ counted' = counted \cup {collector}
        /\ UNCHANGED <<Todo, BadOnes, Status>> /\ Status = "running"
    BY <1>4, <2>1 DEF Merge, mainVars, Pending, Todo, BadOnes, Status
  <2>3. B!Count(collector)
    BY <2>2 DEF B!Count
  <2>4. QED
    BY <1>0, <2>1, <2>2, <2>3 DEF B!AbsNext
<1>5. CASE Exit
  <2>1. /\ mainPc # "exited" /\ mainPc' = "exited" /\ done
        /\ UNCHANGED <<outcome, counted, exitCode>>
    BY <1>5 DEF Exit, MainAt, countVars
  <2>2. \A f \in Files : outcome[f] \in Reported <=> f \in counted
    BY <1>0, <1>5, ExitState DEF Exit, MainAt, AfterWait, AfterWalk, MainPcs
  <2>3. Pending = {} /\ (exitCode = 0 <=> BadOnes = {})
    BY <1>0, <2>1, <2>2 DEF IInv, TypeOK, StageInv, Pending, BadOnes, Bad, Reported
  <2>4. /\ UNCHANGED <<Todo, Pending, BadOnes, counted>> /\ Status = "running"
        /\ Status' = IF BadOnes = {} THEN "success" ELSE "failure"
    BY <2>1, <2>3 DEF Todo, Pending, BadOnes, Status
  <2>5. B!Finish
    BY <2>3, <2>4 DEF B!Finish
  <2>6. QED
    BY <2>5 DEF B!AbsNext
<1>6. CASE MainNext /\ ~Exit
  BY <1>6, AbsStutter DEF MainNext, WalkFile, WalkError, WalkCancelled, WalkEnd, CloseJobs,
     CloseWriters, Submit, SubmitInline, CloseDigestIndex, CloseFileIndex, CloseResults, Close,
     WaitWorkers, CancelContext, MainAt, countVars, Status
<1>7. CASE CollectorEnd
  <2>1. mainPc # "exited"
    BY <1>7 DEF CollectorEnd, IInv, StageInv
  <2>2. QED
    BY <1>7, <2>1, AbsStutter DEF CollectorEnd, mainVars, Status
<1>8. CASE Signal \/ UNCHANGED vars
  BY <1>8, AbsStutter DEF Signal, vars, mainVars, countVars, Status
<1>9. QED
  BY <1>2, <1>3, <1>4, <1>5, <1>6, <1>7, <1>8 DEF Next, Terminated, CollectorNext

\* BatchRun implements Batch: whatever the goroutines, the faults and the
\* shutdown do, files, totals and exit status behave as Batch promises.
THEOREM Refinement == Spec => ImplementsBatch
<1>1. Init => B!AbsInit
  BY DEF Init, B!AbsInit, B!Files, Files, Todo, Pending, BadOnes, Status, Reported, Bad
<1>2. IInv /\ [Next]_vars => [B!AbsNext]_(B!absVars)
  BY AbsStep
<1>3. QED
  BY Invariance, <1>1, <1>2, PTL DEF Spec, ImplementsBatch, B!AbsSpec

-----------------------------------------------------------------------------
LEMMA PoolSize ==
  ASSUME IInv
  PROVE  IsFiniteSet(pool) /\ Cardinality(pool) \in Nat /\ (Cardinality(pool) = 0 <=> pool = {})
<1>1. IsFiniteSet(pool)
  BY BatchAssumption, FS_Subset DEF IInv, TypeOK
<1>2. QED
  BY <1>1, FS_CardinalityType, FS_EmptySet

\* Only a worker of the pool, or main when it has none, holds a file.
LEMMA Holder ==
  ASSUME IInv, BoundInv, NEW a \in Agents, job[a] # 0
  PROVE  IF pool = {} THEN a = Main ELSE a \in pool
<1>1. pc[a] \in Busy
  BY DEF IInv, AgentInv
<1>2. QED
  BY <1>1 DEF IInv, AgentInv, BoundInv, Busy, Agents

\* Submit waits for room, and nobody wakes a worker that is not of the pool.
LEMMA BoundStep ==
  ASSUME IInv, BoundInv, [Next]_vars
  PROVE  BoundInv'
<1>0. /\ pool' = pool /\ Cardinality(pool) \in Nat /\ jobs \in Seq(Files) /\ Len(jobs) \in Nat
      /\ pc \in [Agents -> AgentPcs] /\ Workers \subseteq Agents /\ Main \notin Workers
  BY PoolFrame, PoolSize, BatchAssumption DEF IInv, TypeOK, Agents
<1>1. Len(jobs') <= Cardinality(pool)
  <2>1. CASE Submit
    <3>1. Len(jobs') = Len(jobs) + 1
      BY <1>0, <2>1 DEF Submit, IInv, TypeOK
    <3>2. QED
      BY <1>0, <2>1, <3>1 DEF Submit
  <2>2. ASSUME NEW w \in Workers, TakeJob(w) PROVE Len(jobs') <= Cardinality(pool)
    <3>1. Len(jobs') = Len(jobs) - 1
      BY <1>0, <2>2 DEF TakeJob
    <3>2. QED
      BY <1>0, <3>1 DEF BoundInv
  <2>3. CASE SubmitInline
    BY <2>3 DEF SubmitInline, BoundInv
  <2>4. QED
    BY <2>1, <2>2, <2>3, QueueFrame DEF BoundInv
<1>2. ASSUME NEW w \in Workers \ pool PROVE pc'[w] = "exited"
  <2>1. w \in Agents /\ pc[w] = "exited" /\ w # Main
    BY <1>0, <1>2 DEF BoundInv
  <2>2. CASE SubmitInline
    BY <1>0, <2>1, <2>2 DEF SubmitInline
  <2>3. ASSUME NEW v \in Workers, WorkerNext(v) PROVE pc'[w] = "exited"
    BY <1>0, <2>1, <2>3 DEF WorkerNext, TakeJob, WorkerExit, DropJob, StartJob
  <2>4. ASSUME NEW a \in Agents, JobNext(a) PROVE pc'[w] = "exited"
    BY <1>0, <2>1, <2>4 DEF JobNext, DiskFull, DiskOk, HandleFile, SendResult
  <2>5. QED
    BY <2>1, <2>2, <2>3, <2>4, AgentFrame
<1>3. QED
  BY <1>0, <1>1, <1>2 DEF BoundInv

LEMMA InitBound == Init => BoundInv
<1>1. SUFFICES ASSUME Init PROVE BoundInv
  OBVIOUS
<1>2. IInv
  BY <1>1, InitInv
<1>3. QED
  BY <1>1, <1>2, PoolSize, BatchAssumption DEF Init, BoundInv, Agents

\* No more files are in flight than the channel, the workers and the collector hold.
THEOREM FlightBounded == Spec => []BoundedInFlight
<1>1. Init => BoundInv
  BY InitBound
<1>2. IInv /\ BoundInv /\ [Next]_vars => BoundInv'
  BY BoundStep
<1>3. IInv /\ BoundInv => BoundedInFlight
  <2> SUFFICES ASSUME IInv, BoundInv PROVE BoundedInFlight
    OBVIOUS
  <2> DEFINE Queued    == Front..(next - 1)
             Hands     == IF pool = {} THEN {Main} ELSE pool
             InHand    == {job[a] : a \in Hands}
  <2>1. /\ Len(jobs) \in Nat /\ next \in Nat /\ Front \in Nat
        /\ Cardinality(pool) \in Nat /\ IsFiniteSet(pool)
        /\ (Cardinality(pool) = 0 <=> pool = {}) /\ Len(jobs) <= Cardinality(pool)
    BY PoolSize, BatchAssumption DEF IInv, TypeOK, QueueInv, Front, BoundInv
  <2>2. InFlight \subseteq (Queued \cup InHand) \cup {collector}
    <3>1. SUFFICES ASSUME NEW f \in InFlight, f \notin Queued, f # collector PROVE f \in InHand
      OBVIOUS
    <3>2. f \in Files /\ f \in Nat /\ f < Front /\ f # 0
      BY <2>1, <3>1, BatchAssumption DEF InFlight, Files
    <3>3. outcome[f] \in Reported \/ outcome[f] = "none"
      BY <3>2 DEF InFlight, GivenUp, IInv, TypeOK, Outcomes
    <3>4. PICK a \in Agents : job[a] = f
      BY <3>1, <3>2, <3>3 DEF InFlight, IInv, OutcomeInv
    <3>5. a \in Hands
      BY <3>2, <3>4, Holder
    <3>6. QED
      BY <3>4, <3>5
  <2>3. IsFiniteSet(Queued) /\ Cardinality(Queued) = Len(jobs)
    <3>1. Front \in Int /\ next - 1 \in Int /\ Front = next - Len(jobs)
      BY <2>1 DEF Front
    <3>2. /\ IsFiniteSet(Queued)
          /\ Cardinality(Queued) = IF Front > next - 1 THEN 0 ELSE next - 1 - Front + 1
      BY <3>1, FS_Interval
    <3>3. QED
      BY <2>1, <3>1, <3>2
  <2>4. /\ IsFiniteSet(Hands)
        /\ Cardinality(Hands) = IF pool = {} THEN 1 ELSE Cardinality(pool)
    BY <2>1, FS_Singleton
  <2>5. /\ IsFiniteSet(InHand) /\ Cardinality(InHand) \in Nat
        /\ Cardinality(InHand) <= Cardinality(Hands)
    <3>1. IsFiniteSet(InHand) /\ Cardinality(InHand) <= Cardinality(Hands)
      <4> HIDE DEF Hands
      <4>1. [a \in Hands |-> job[a]] \in Surjection(Hands, InHand)
        BY DEF Surjection
      <4>2. QED
        BY <2>4, <4>1, FS_Surjection
    <3>2. QED
      BY <3>1, FS_CardinalityType
  <2> HIDE DEF Queued, InHand, Hands
  <2>6. /\ IsFiniteSet(Queued \cup InHand) /\ Cardinality(Queued \cup InHand) \in Nat
        /\ Cardinality(Queued \cup InHand) <= Cardinality(Queued) + Cardinality(InHand)
    <3>1. IsFiniteSet(Queued \cap InHand)
      BY <2>3, FS_Intersection
    <3>2. Cardinality(Queued \cap InHand) \in Nat
      BY <3>1, FS_CardinalityType
    <3>3. /\ IsFiniteSet(Queued \cup InHand)
          /\ Cardinality(Queued \cup InHand) =
               Cardinality(Queued) + Cardinality(InHand) - Cardinality(Queued \cap InHand)
      BY <2>3, <2>5, FS_Union
    <3>4. Cardinality(Queued \cup InHand) \in Nat
      BY <3>3, FS_CardinalityType
    <3>5. QED
      BY <2>1, <2>3, <2>5, <3>2, <3>3, <3>4
  <2> DEFINE All == (Queued \cup InHand) \cup {collector}
  <2>7. /\ IsFiniteSet(All) /\ Cardinality(All) \in Nat
        /\ Cardinality(All) <= Cardinality(Queued \cup InHand) + 1
    <3>1. /\ IsFiniteSet(All)
          /\ Cardinality(All) = IF collector \in Queued \cup InHand
                                THEN Cardinality(Queued \cup InHand)
                                ELSE Cardinality(Queued \cup InHand) + 1
      BY <2>6, FS_AddElement
    <3>2. QED
      BY <2>6, <3>1
  <2>8. Cardinality(InFlight) \in Nat /\ Cardinality(InFlight) <= Cardinality(All)
    <3>1. IsFiniteSet(InFlight) /\ Cardinality(InFlight) <= Cardinality(All)
      BY <2>2, <2>7, FS_Subset
    <3>2. QED
      BY <3>1, FS_CardinalityType
  <2>9. QED
    <3> HIDE DEF All
    <3>1. Cardinality(InFlight) <= Len(jobs) + Cardinality(Hands) + 1
      <4>1. Cardinality(Hands) \in Nat
        BY <2>4, FS_CardinalityType
      <4>2. Cardinality(Queued \cup InHand) <= Len(jobs) + Cardinality(Hands)
        BY <2>1, <2>3, <2>5, <2>6, <4>1
      <4>3. Cardinality(All) <= Len(jobs) + Cardinality(Hands) + 1
        BY <2>1, <2>6, <2>7, <4>1, <4>2
      <4>4. QED
        BY <2>1, <2>7, <2>8, <4>1, <4>3
    <3>2. CASE pool = {}
      BY <2>1, <2>4, <2>8, <3>1, <3>2 DEF BoundedInFlight
    <3>3. CASE pool # {}
      BY <2>1, <2>4, <2>8, <3>1, <3>3 DEF BoundedInFlight
    <3>4. QED
      BY <3>2, <3>3
<1>4. QED
  BY Invariance, <1>1, <1>2, <1>3, PTL DEF Spec

-----------------------------------------------------------------------------
\* With a single worker nobody else holds a file.
LEMMA OneHolder ==
  ASSUME IInv, BoundInv, Cardinality(pool) = 1,
         NEW a \in Agents, NEW b \in Agents, job[a] # 0, job[b] # 0
  PROVE  a = b
<1>1. PICK w : pool = {w}
  BY PoolSize, FS_Singleton
<1>2. QED
  BY <1>1, Holder

LEMMA OrderStep ==
  ASSUME IInv, BoundInv, OrderInv, [Next]_vars
  PROVE  OrderInv' /\ [Cardinality(pool) = 1 =>
                        \A f \in counted' \ counted : \A g \in counted : g < f]_counted
<1> SUFFICES ASSUME Cardinality(pool) = 1
             PROVE  OrderInv' /\ \A f \in counted' \ counted : \A g \in counted : g < f
  BY PoolFrame DEF OrderInv
<1>0. /\ pool' = pool /\ pool # {}
      /\ job \in [Agents -> 0 .. NumFiles] /\ \A a \in Agents : job[a] \in Nat
      /\ collector \in Nat /\ counted \subseteq Files /\ Files \subseteq Nat \ {0}
      /\ Workers \subseteq Agents /\ Front \in Nat \ {0}
      /\ collector # 0 => collector < Front
      /\ \A g \in counted : g < Front
  <2>1. pool # {}
    BY PoolSize
  <2>2. collector # 0 => collector \in Files
    BY DEF IInv, TypeOK, Files
  <2>3. QED
    BY <2>1, <2>2, PoolFrame, FrontStep, BatchAssumption
    DEF IInv, TypeOK, OutcomeInv, Agents, Files, Reported
<1>1. CASE SubmitInline
  BY <1>0, <1>1 DEF SubmitInline
<1>2. ASSUME NEW w \in Workers, WorkerNext(w)
      PROVE  OrderInv' /\ counted' = counted
  <2>1. UNCHANGED <<collector, counted>>
    BY <1>2 DEF WorkerNext, TakeJob, WorkerExit, DropJob, StartJob, countVars
  <2>2. \A a \in Agents : job'[a] \in {0, job[a], Front}
    BY <1>0, <1>2, FrontStep DEF WorkerNext, TakeJob, WorkerExit, DropJob, StartJob
  <2>3. QED
    BY <1>0, <2>1, <2>2 DEF OrderInv
<1>3. ASSUME NEW a \in Agents, JobNext(a)
      PROVE  OrderInv' /\ counted' = counted
  <2>1. counted' = counted
    BY <1>3 DEF JobNext, DiskFull, DiskOk, HandleFile, SendResult, countVars
  <2>2. CASE SendResult(a)
    <3>1. /\ job[a] # 0 /\ collector' = job[a]
          /\ \A b \in Agents : job'[b] = IF b = a THEN 0 ELSE job[b]
      BY <1>0, <2>2 DEF SendResult, IInv, AgentInv, Busy
    <3>2. \A b \in Agents : job'[b] = 0
      BY <3>1, OneHolder
    <3>3. QED
      BY <2>1, <3>1, <3>2 DEF OrderInv
  <2>3. CASE ~SendResult(a)
    <3>1. collector' = collector /\ \A b \in Agents : job'[b] \in {0, job[b]}
      BY <1>0, <1>3, <2>3 DEF JobNext, DiskFull, DiskOk, HandleFile, countVars
    <3>2. QED
      BY <1>0, <2>1, <3>1 DEF OrderInv
  <2>4. QED
    BY <2>1, <2>2, <2>3
<1>4. CASE Merge
  <2>1. /\ collector # 0 /\ counted' = counted \cup {collector} /\ collector' = 0
        /\ job' = job
    BY <1>4 DEF Merge, poolVars
  <2>2. QED
    BY <1>0, <2>1 DEF OrderInv
<1>5. CASE CollectorEnd
  BY <1>0, <1>5 DEF CollectorEnd, OrderInv, poolVars
<1>6. ASSUME ~SubmitInline, \A w \in Workers : ~WorkerNext(w), \A a \in Agents : ~JobNext(a),
             ~CollectorNext
      PROVE  OrderInv' /\ counted' = counted
  <2>1. UNCHANGED <<job, collector, counted>>
    BY <1>6, AgentFrame, CountFrame
  <2>2. QED
    BY <1>0, <2>1 DEF OrderInv
<1>7. QED
  BY <1>1, <1>2, <1>3, <1>4, <1>5, <1>6 DEF CollectorNext

\* A single worker counts the files in the order of the walk, whatever fails.
THEOREM InWalkOrder == Spec => DeterministicOrder
<1>1. Init => OrderInv
  BY DEF Init, OrderInv
<1>2. Init => BoundInv
  BY InitBound
<1>3. IInv /\ BoundInv /\ [Next]_vars => BoundInv'
  BY BoundStep
<1>4. IInv /\ BoundInv /\ OrderInv /\ [Next]_vars =>
        OrderInv' /\ [Cardinality(pool) = 1 =>
                        \A f \in counted' \ counted : \A g \in counted : g < f]_counted
  BY OrderStep
<1>5. QED
  BY Invariance, <1>1, <1>2, <1>3, <1>4, PTL DEF Spec, DeterministicOrder
=============================================================================
