------------------------------ MODULE BatchRun ------------------------------
(***************************************************************************)
(* The process that dedup, validate and convert {warc,arc,nedlib} share    *)
(* (cmd/*/Run and internal/workerpool): main walks the arguments and       *)
(* submits one job per file to a pool, the workers handle the files and    *)
(* send their results over an unbuffered channel, a collector goroutine    *)
(* merges the results into the totals, and main's deferred calls shut the  *)
(* whole down and exit.  A context ties the parts: a signal, a full disk   *)
(* or a failing file cancels it.                                           *)
(*                                                                         *)
(* Files are numbered in the order in which the walk meets them.  What a   *)
(* job does to one file is not modelled here: only whether it ends with a  *)
(* clean result, a result that holds errors, or an error of its own.       *)
(***************************************************************************)
EXTENDS Integers, Sequences, FiniteSets

CONSTANTS
  Workers,          \* goroutines that the pool may start
  Main,             \* the goroutine of Run
  NumFiles,         \* files met by the walk
  ContinueOnError,  \* --continue-on-error
  Faults            \* what the environment may do: see FaultKinds

FaultKinds == {"walk",    \* the walk reports an error
               "disk",    \* a disk is found full
               "file",    \* a file cannot be handled
               "signal"}  \* SIGINT or SIGTERM arrives

ASSUME BatchAssumption ==
  /\ IsFiniteSet(Workers)
  /\ Main \notin Workers
  /\ NumFiles \in Nat
  /\ ContinueOnError \in BOOLEAN
  /\ Faults \subseteq FaultKinds

Files  == 1 .. NumFiles
Agents == Workers \cup {Main}      \* a job runs in a worker, or inline in main

Resources == {"jobs", "writers", "digestIndex", "fileIndex", "results"}

VARIABLES
  mainPc,     \* where Run is, its deferred calls included
  next,       \* the file the walk meets next
  runErr,     \* what Run returns: "none", "walk" or "canceled"
  pool,       \* the workers that the pool starts; {} is --concurrency 0
  jobs,       \* the buffered channel of the pool
  open,       \* the channels, writers and indexes not closed yet
  pc,         \* per agent, where it is in its job
  job,        \* per agent, the file it holds (0: none)
  outcome,    \* per file, how its job ended
  cancelledBy,\* who cancelled the context first ("nobody": it is live)
  atCancel,   \* history: the value of next when the context was cancelled
  collector,  \* the file whose result the collector is merging (0: none)
  counted,    \* the files whose result is merged
  done,       \* the done channel is closed
  exitCode    \* the variable Run's first deferred call hands to os.Exit

mainVars  == <<mainPc, next, runErr>>
poolVars  == <<pool, jobs, pc, job>>
ctxVars   == <<cancelledBy, atCancel>>
countVars == <<collector, counted, done, exitCode>>
vars == <<mainVars, poolVars, open, outcome, ctxVars, countVars>>

cancelled == cancelledBy # "nobody"

\* Outcomes that come with a result, and those whose result holds errors.
Reported == {"ok", "errors", "failed"}
Bad      == {"errors", "failed"}

Init ==
  /\ mainPc = "walk"
  /\ next = 1
  /\ runErr = "none"
  /\ pool \in SUBSET Workers
  /\ jobs = <<>>
  /\ open = Resources
  /\ pc = [a \in Agents |-> IF a \in pool \cup {Main} THEN "idle" ELSE "exited"]
  /\ job = [a \in Agents |-> 0]
  /\ outcome = [f \in Files |-> "none"]
  /\ cancelledBy = "nobody"
  /\ atCancel = 0
  /\ collector = 0
  /\ counted = {}
  /\ done = FALSE
  /\ exitCode = 0

\* cancel() by who: only the first call has an effect.
Cancel(who) ==
  /\ cancelledBy' = IF cancelled THEN cancelledBy ELSE who
  /\ atCancel' = IF cancelled THEN atCancel ELSE next

\* While a job runs inline, main is inside Submit and does nothing else.
MainAt(p) == mainPc = p /\ pc[Main] = "idle"

-----------------------------------------------------------------------------
(* Deliberately wrong variants of actions below.  None is part of Spec:    *)
(* each one, put in the place of the action it is named after, breaks a    *)
(* property, which shows that the property constrains the code.            *)

\* The walk does not look at the context.
WalkFile_NoContext ==
  /\ MainAt("walk") /\ next \in Files
  /\ mainPc' = "submit"
  /\ UNCHANGED <<next, runErr, poolVars, open, outcome, ctxVars, countVars>>

\* The channel is made one slot too large.
Submit_OneMore ==
  /\ MainAt("submit")
  /\ pool # {}
  /\ Len(jobs) <= Cardinality(pool)
  /\ jobs' = Append(jobs, next)
  /\ next' = next + 1
  /\ mainPc' = "walk"
  /\ UNCHANGED <<runErr, pool, pc, job, open, outcome, ctxVars, countVars>>

\* Submit does not wait for room in the channel: main handles the file itself.
Submit_CallerRuns ==
  /\ MainAt("submit")
  /\ pool # {}
  /\ \/ /\ Len(jobs) < Cardinality(pool)
        /\ jobs' = Append(jobs, next)
        /\ UNCHANGED <<pc, job>>
     \/ /\ Len(jobs) = Cardinality(pool)
        /\ pc' = [pc EXCEPT ![Main] = "check"]
        /\ job' = [job EXCEPT ![Main] = next]
        /\ UNCHANGED jobs
  /\ next' = next + 1
  /\ mainPc' = "walk"
  /\ UNCHANGED <<runErr, pool, open, outcome, ctxVars, countVars>>

\* Submit forgets the case of a pool without workers.
SubmitInline_Send ==
  /\ MainAt("submit")
  /\ Len(jobs) < Cardinality(pool)
  /\ jobs' = Append(jobs, next)
  /\ next' = next + 1
  /\ mainPc' = "walk"
  /\ UNCHANGED <<runErr, pool, pc, job, open, outcome, ctxVars, countVars>>

\* CloseWait does not wait.
WaitWorkers_NoWait ==
  /\ MainAt("wait")
  /\ mainPc' = "closeWriters"
  /\ UNCHANGED <<next, runErr, poolVars, open, outcome, ctxVars, countVars>>

\* os.Exit does not wait for the collector.
Exit_NoDone ==
  /\ MainAt("awaitDone")
  /\ mainPc' = "exited"
  /\ UNCHANGED <<next, runErr, poolVars, open, outcome, ctxVars, countVars>>

\* A full disk ends the job, not the run.
DiskFull_NoCancel(a) ==
  /\ pc[a] = "check"
  /\ "disk" \in Faults
  /\ pc' = [pc EXCEPT ![a] = "idle"]
  /\ job' = [job EXCEPT ![a] = 0]
  /\ outcome' = [outcome EXCEPT ![job[a]] = "diskFull"]
  /\ UNCHANGED <<mainVars, pool, jobs, open, ctxVars, countVars>>

\* The send does not block: a busy collector loses the result.
SendResult_Lossy(a) ==
  /\ pc[a] = "send"
  /\ collector' = IF collector = 0 /\ ~done THEN job[a] ELSE collector
  /\ pc' = [pc EXCEPT ![a] = "idle"]
  /\ job' = [job EXCEPT ![a] = 0]
  /\ UNCHANGED <<mainVars, pool, jobs, open, outcome, ctxVars>>
  /\ UNCHANGED <<counted, done, exitCode>>

\* The collector stops at the first result that holds errors.
Merge_StopAtError ==
  /\ collector # 0
  /\ counted' = counted \cup {collector}
  /\ collector' = 0
  /\ done' = (outcome[collector] \in Bad)
  /\ UNCHANGED <<mainVars, poolVars, open, outcome, ctxVars, exitCode>>

\* The exit code is the number of bad results.
CollectorEnd_CountErrors ==
  /\ collector = 0 /\ ~done
  /\ "results" \notin open
  /\ exitCode' = Cardinality({f \in counted : outcome[f] \in Bad})
  /\ done' = TRUE
  /\ UNCHANGED <<mainVars, poolVars, open, outcome, ctxVars, collector, counted>>

-----------------------------------------------------------------------------
(* Main: the walk, Submit, and the deferred calls in the order they run.   *)

\* The walk's callback finds the context live and a file to submit.
WalkFile ==
  /\ MainAt("walk") /\ next \in Files /\ ~cancelled
  /\ mainPc' = "submit"
  /\ UNCHANGED <<next, runErr, poolVars, open, outcome, ctxVars, countVars>>

\* The walk reports an error: the callback returns it, and Run returns it.
WalkError ==
  /\ MainAt("walk") /\ next \in Files /\ ~cancelled
  /\ "walk" \in Faults
  /\ mainPc' = "closeJobs"
  /\ runErr' = "walk"
  /\ UNCHANGED <<next, poolVars, open, outcome, ctxVars, countVars>>

\* The walk's callback finds the context cancelled.
WalkCancelled ==
  /\ MainAt("walk") /\ next \in Files /\ cancelled
  /\ mainPc' = "closeJobs"
  /\ runErr' = "canceled"
  /\ UNCHANGED <<next, poolVars, open, outcome, ctxVars, countVars>>

WalkEnd ==
  /\ MainAt("walk") /\ next \notin Files
  /\ mainPc' = "closeJobs"
  /\ UNCHANGED <<next, runErr, poolVars, open, outcome, ctxVars, countVars>>

\* WorkerPool.Submit: a plain send, which blocks while the buffer is full ...
Submit ==
  /\ MainAt("submit")
  /\ pool # {}
  /\ Len(jobs) < Cardinality(pool)
  /\ jobs' = Append(jobs, next)
  /\ next' = next + 1
  /\ mainPc' = "walk"
  /\ UNCHANGED <<runErr, pool, pc, job, open, outcome, ctxVars, countVars>>

\* ... or, without workers, a call.
SubmitInline ==
  /\ MainAt("submit")
  /\ pool = {}
  /\ pc' = [pc EXCEPT ![Main] = "check"]
  /\ job' = [job EXCEPT ![Main] = next]
  /\ next' = next + 1
  /\ mainPc' = "walk"
  /\ UNCHANGED <<runErr, pool, jobs, open, outcome, ctxVars, countVars>>

\* One deferred call of Run: close a resource and go on to the next call.
Close(here, resource, there) ==
  /\ MainAt(here)
  /\ open' = open \ {resource}
  /\ mainPc' = there
  /\ UNCHANGED <<next, runErr, poolVars, outcome, ctxVars, countVars>>

\* WorkerPool.CloseWait: close the channel, then wait for every worker.
CloseJobs == Close("closeJobs", "jobs", "wait")

WaitWorkers ==
  /\ MainAt("wait")
  /\ \A w \in Workers : pc[w] = "exited"
  /\ mainPc' = "closeWriters"
  /\ UNCHANGED <<next, runErr, poolVars, open, outcome, ctxVars, countVars>>

CloseWriters     == Close("closeWriters", "writers", "closeDigestIndex")
CloseDigestIndex == Close("closeDigestIndex", "digestIndex", "closeFileIndex")
CloseFileIndex   == Close("closeFileIndex", "fileIndex", "closeResults")
CloseResults     == Close("closeResults", "results", "cancel")

CancelContext ==
  /\ MainAt("cancel")
  /\ Cancel("main")
  /\ mainPc' = "awaitDone"
  /\ UNCHANGED <<next, runErr, poolVars, open, outcome, countVars>>

\* <-done, then os.Exit(exitCode): Run never gets to return runErr.
Exit ==
  /\ MainAt("awaitDone")
  /\ done
  /\ mainPc' = "exited"
  /\ UNCHANGED <<next, runErr, poolVars, open, outcome, ctxVars, countVars>>

MainNext ==
  \/ WalkFile \/ WalkError \/ WalkCancelled \/ WalkEnd
  \/ Submit \/ SubmitInline
  \/ CloseJobs \/ WaitWorkers
  \/ CloseWriters \/ CloseDigestIndex \/ CloseFileIndex \/ CloseResults
  \/ CancelContext \/ Exit

-----------------------------------------------------------------------------
(* The pool's goroutines: for job := range jobs { ... }                    *)

TakeJob(w) ==
  /\ pc[w] = "idle"
  /\ jobs # <<>>
  /\ pc' = [pc EXCEPT ![w] = "took"]
  /\ job' = [job EXCEPT ![w] = Head(jobs)]
  /\ jobs' = Tail(jobs)
  /\ UNCHANGED <<mainVars, pool, open, outcome, ctxVars, countVars>>

\* The channel is drained and closed: the range loop ends.
WorkerExit(w) ==
  /\ pc[w] = "idle"
  /\ jobs = <<>>
  /\ "jobs" \notin open
  /\ pc' = [pc EXCEPT ![w] = "exited"]
  /\ UNCHANGED <<mainVars, pool, jobs, job, open, outcome, ctxVars, countVars>>

\* The context is cancelled: the worker returns, and the job it took is gone.
DropJob(w) ==
  /\ pc[w] = "took"
  /\ cancelled
  /\ pc' = [pc EXCEPT ![w] = "exited"]
  /\ job' = [job EXCEPT ![w] = 0]
  /\ outcome' = [outcome EXCEPT ![job[w]] = "dropped"]
  /\ UNCHANGED <<mainVars, pool, jobs, open, ctxVars, countVars>>

StartJob(w) ==
  /\ pc[w] = "took"
  /\ ~cancelled
  /\ pc' = [pc EXCEPT ![w] = "check"]
  /\ UNCHANGED <<mainVars, pool, jobs, job, open, outcome, ctxVars, countVars>>

-----------------------------------------------------------------------------
(* The job, in whatever goroutine runs it.                                 *)

\* A disk is too full: cancel, and return without a result.
DiskFull(a) ==
  /\ pc[a] = "check"
  /\ "disk" \in Faults
  /\ Cancel("disk")
  /\ pc' = [pc EXCEPT ![a] = "idle"]
  /\ job' = [job EXCEPT ![a] = 0]
  /\ outcome' = [outcome EXCEPT ![job[a]] = "diskFull"]
  /\ UNCHANGED <<mainVars, pool, jobs, open, countVars>>

DiskOk(a) ==
  /\ pc[a] = "check"
  /\ pc' = [pc EXCEPT ![a] = "handle"]
  /\ UNCHANGED <<mainVars, pool, jobs, job, open, outcome, ctxVars, countVars>>

\* Preposterous returns: an error of the file is added to its result, and
\* cancels the run unless --continue-on-error.
HandleFile(a) ==
  /\ pc[a] = "handle"
  /\ \E o \in Reported :
       /\ o = "failed" => "file" \in Faults
       /\ outcome' = [outcome EXCEPT ![job[a]] = o]
       /\ IF o = "failed" /\ ~ContinueOnError
          THEN Cancel("file") ELSE UNCHANGED ctxVars
  /\ pc' = [pc EXCEPT ![a] = "send"]
  /\ UNCHANGED <<mainVars, pool, jobs, job, open, countVars>>

\* results <- result meets the collector's receive.
SendResult(a) ==
  /\ pc[a] = "send"
  /\ collector = 0 /\ ~done
  /\ collector' = job[a]
  /\ pc' = [pc EXCEPT ![a] = "idle"]
  /\ job' = [job EXCEPT ![a] = 0]
  /\ UNCHANGED <<mainVars, pool, jobs, open, outcome, ctxVars>>
  /\ UNCHANGED <<counted, done, exitCode>>

JobNext(a)    == DiskFull(a) \/ DiskOk(a) \/ HandleFile(a) \/ SendResult(a)
WorkerNext(w) == TakeJob(w) \/ WorkerExit(w) \/ DropJob(w) \/ StartJob(w)

-----------------------------------------------------------------------------
(* The collector: for result := range results { ... stats.Merge(result) }  *)

Merge ==
  /\ collector # 0
  /\ counted' = counted \cup {collector}
  /\ collector' = 0
  /\ UNCHANGED <<mainVars, poolVars, open, outcome, ctxVars, done, exitCode>>

CollectorEnd ==
  /\ collector = 0 /\ ~done
  /\ "results" \notin open
  /\ exitCode' = IF \E f \in counted : outcome[f] \in Bad THEN 1 ELSE 0
  /\ done' = TRUE
  /\ UNCHANGED <<mainVars, poolVars, open, outcome, ctxVars, collector, counted>>

CollectorNext == Merge \/ CollectorEnd

-----------------------------------------------------------------------------
\* A signal cancels the context; once Run has stopped listening it cannot.
Signal ==
  /\ "signal" \in Faults
  /\ ~cancelled
  /\ mainPc \notin {"awaitDone", "exited"}
  /\ Cancel("signal")
  /\ UNCHANGED <<mainVars, poolVars, open, outcome, countVars>>

\* The process is gone.
Terminated == mainPc = "exited" /\ UNCHANGED vars

Next ==
  \/ MainNext
  \/ \E w \in Workers : WorkerNext(w)
  \/ \E a \in Agents : JobNext(a)
  \/ CollectorNext
  \/ Signal
  \/ Terminated

Spec == Init /\ [][Next]_vars

\* The scheduler runs every goroutine that can run; a signal may never come.
Fairness ==
  /\ WF_vars(MainNext)
  /\ \A w \in Workers : WF_vars(WorkerNext(w))
  /\ \A a \in Agents : WF_vars(JobNext(a))
  /\ WF_vars(CollectorNext)

FairSpec == Spec /\ Fairness
-----------------------------------------------------------------------------
(* Properties.                                                             *)

MainPcs == {"walk", "submit", "closeJobs", "wait", "closeWriters",
            "closeDigestIndex", "closeFileIndex", "closeResults",
            "cancel", "awaitDone", "exited"}
AgentPcs == {"idle", "took", "check", "handle", "send", "exited"}
Outcomes == Reported \cup {"none", "dropped", "diskFull"}
Busy     == {"took", "check", "handle", "send"}     \* pcs that hold a file

\* Every variable stays in its type.
TypeOK ==
  /\ mainPc \in MainPcs
  /\ next \in 1 .. NumFiles + 1
  /\ runErr \in {"none", "walk", "canceled"}
  /\ pool \subseteq Workers
  /\ jobs \in Seq(Files)
  /\ open \subseteq Resources
  /\ pc \in [Agents -> AgentPcs]
  /\ job \in [Agents -> 0 .. NumFiles]
  /\ outcome \in [Files -> Outcomes]
  /\ cancelledBy \in FaultKinds \cup {"nobody", "main"}
  /\ atCancel \in 0 .. NumFiles + 1
  /\ collector \in 0 .. NumFiles
  /\ counted \subseteq Files
  /\ done \in BOOLEAN
  /\ exitCode \in {0, 1}

GivenUp(f) == outcome[f] \in {"dropped", "diskFull"}

\* The places a file can be in, and those it is in.
PlaceNames == {"channel", "agent", "collector", "totals", "givenUp"}
Places(f) ==
  {p \in PlaceNames :
     \/ p = "channel"   /\ \E i \in DOMAIN jobs : jobs[i] = f
     \/ p = "agent"     /\ \E a \in Agents : job[a] = f
     \/ p = "collector" /\ collector = f
     \/ p = "totals"    /\ f \in counted
     \/ p = "givenUp"   /\ GivenUp(f)}

\* A submitted file is in exactly one place, and there only once: waiting in
\* the channel, held by one agent, in the collector's hands, merged into the
\* totals, or given up.  A file not submitted is nowhere.  (Submit, the loop of
\* the workers, the unbuffered results channel.)
OnePlace ==
  \A f \in Files :
    /\ f < next => \E p \in PlaceNames : Places(f) = {p}
    /\ f >= next => Places(f) = {}
    /\ \A a, b \in Agents : job[a] = f /\ job[b] = f => a = b
    /\ \A i, j \in DOMAIN jobs : jobs[i] = f /\ jobs[j] = f => i = j

\* The deferred calls of Run close nothing that is still in use: main never
\* submits to a closed channel, a job never finds its writers or its indexes
\* closed nor sends on the closed results channel.
NothingUsedAfterClose ==
  /\ mainPc = "submit" => "jobs" \in open
  /\ \A a \in Agents : pc[a] \in Busy =>
       {"writers", "digestIndex", "fileIndex", "results"} \subseteq open

\* The process never exits over a result that was produced: at os.Exit every
\* result is merged, and the exit code is 1 exactly when one holds errors.
ExitCountsEverything ==
  mainPc = "exited" =>
    /\ \A f \in Files : outcome[f] \in Reported <=> f \in counted
    /\ exitCode = 1 <=> \E f \in Files : outcome[f] \in Bad

\* A run that nobody cancelled before its own deferred cancel, and whose walk
\* met no error, has counted every file there is.
CompleteUnlessAborted ==
  mainPc = "exited" /\ cancelledBy = "main" /\ runErr = "none" => counted = Files

\* Cancelling is prompt: the walk submits at most one more file afterwards (the
\* one it had already let past its check of the context).
PromptCancel == cancelled => next <= atCancel + 1

\* Files in flight are bounded by the concurrency however long the walk is: a
\* full channel, one file per worker, one in the collector's hands.
InFlight == {f \in Files : f < next /\ f \notin counted /\ ~GivenUp(f)}
BoundedInFlight ==
  Cardinality(InFlight) <=
    IF pool = {} THEN 2 ELSE 2 * Cardinality(pool) + 1

\* With one worker (dedup --deterministic) files are counted in walk order.
DeterministicOrder ==
  [][Cardinality(pool) = 1 =>
       \A f \in counted' \ counted : \A g \in counted : g < f]_counted

\* A result, once produced, does reach the totals.
ResultsAreCounted ==
  \A f \in Files : outcome[f] \in Reported ~> f \in counted

\* The process ends whatever fails, unless a signal comes while there are workers:
\* they may all leave on the cancelled context while main waits in Submit for room
\* in their channel.  Without workers even a signal cannot hang it.
EndsUnlessSignalled ==
  <>(mainPc = "exited" \/ (pool # {} /\ cancelledBy = "signal"))

\* main.go and the commands' RunE turn an error returned by Run, and a
\* cancellation in particular, into exit status 1.
ErrorMeansFailure == mainPc = "exited" /\ runErr # "none" => exitCode = 1

-----------------------------------------------------------------------------
\* BatchRun implements the abstract Batch.
Todo    == {f \in Files : outcome[f] = "none"}
Pending == {f \in Files : outcome[f] \in Reported} \ counted
BadOnes == {f \in Files : outcome[f] \in Bad}
Status  == IF mainPc # "exited" THEN "running"
           ELSE IF exitCode = 0 THEN "success" ELSE "failure"

B == INSTANCE Batch WITH
       todo <- Todo, pending <- Pending, bad <- BadOnes, status <- Status

\* Whatever the interleaving, faults and cancellations, the files, the totals
\* and the exit status behave as Batch promises.
ImplementsBatch == B!AbsSpec
-----------------------------------------------------------------------------
(* The inductive invariant behind the theorems of BatchRun_proofs.         *)

AfterWalk == MainPcs \ {"walk", "submit"}
AfterWait == AfterWalk \ {"closeJobs", "wait"}
Closing   == {"cancel", "awaitDone", "exited"}      \* the results are closed
Aborted   == cancelledBy \in FaultKinds

\* The channel holds the last files submitted, in order: Front .. next - 1.
Front == next - Len(jobs)

QueueInv ==
  /\ Len(jobs) < next
  /\ \A i \in 1 .. Len(jobs) : jobs[i] = Front + i - 1
  /\ pool = {} => jobs = <<>>

\* An agent holds a file exactly while it is busy; main only runs jobs inline.
AgentInv ==
  /\ \A a \in Agents : pc[a] \in Busy <=> job[a] # 0
  /\ \A a, b \in Agents : job[a] # 0 /\ job[a] = job[b] => a = b
  /\ \A a \in Agents : job[a] # 0 => job[a] < Front
  /\ pc[Main] \in {"idle", "check", "handle", "send"}
  /\ pc[Main] # "idle" => pool = {} /\ mainPc = "walk"

\* The outcome of a file agrees with where the file is.
OutcomeInv ==
  /\ \A f \in Files : outcome[f] # "none" => f < Front
  /\ \A a \in Agents : pc[a] \in {"took", "check", "handle"} => outcome[job[a]] = "none"
  /\ \A a \in Agents : pc[a] = "send" =>
       outcome[job[a]] \in Reported /\ job[a] \notin counted /\ job[a] # collector
  /\ collector # 0 => outcome[collector] \in Reported /\ collector \notin counted
  /\ \A f \in counted : outcome[f] \in Reported
  /\ \A f \in Files : f < Front /\ outcome[f] = "none" => \E a \in Agents : job[a] = f
  /\ \A f \in Files : outcome[f] \in Reported =>
       f \in counted \/ f = collector \/ \E a \in Agents : job[a] = f

\* What main has closed and waited for, by the deferred call it has reached.
StageInv ==
  /\ mainPc \notin AfterWait =>
       {"writers", "digestIndex", "fileIndex", "results"} \subseteq open
  /\ "jobs" \in open <=> mainPc \in {"walk", "submit", "closeJobs"}
  /\ "results" \in open <=> mainPc \notin Closing
  /\ mainPc \in AfterWait => \A w \in Workers : pc[w] = "exited"
  /\ done => "results" \notin open /\ collector = 0
  /\ done => (exitCode = 1 <=> \E f \in counted : outcome[f] \in Bad)
  /\ mainPc = "exited" => done

\* Only a fault stops the work short of the last file.
AbortInv ==
  /\ cancelledBy = "main" => mainPc \in {"awaitDone", "exited"}
  /\ \A f \in Files : GivenUp(f) => Aborted
  /\ \A w \in pool : pc[w] = "exited" => Aborted \/ (jobs = <<>> /\ "jobs" \notin open)
  /\ mainPc \in AfterWalk /\ runErr = "none" => next = NumFiles + 1
  /\ mainPc = "submit" => next \in Files
  /\ cancelled => next <= atCancel + (IF mainPc = "submit" THEN 0 ELSE 1)

IInv == TypeOK /\ QueueInv /\ AgentInv /\ OutcomeInv /\ StageInv /\ AbortInv

\* Beyond IInv: a channel never over its length, and no worker that is not of the pool.
BoundInv ==
  /\ Len(jobs) <= Cardinality(pool)
  /\ \A w \in Workers \ pool : pc[w] = "exited"

\* Beyond IInv: a single worker has files in hand in the order of the walk, each behind
\* the one the collector has, which is behind those counted.
OrderInv ==
  Cardinality(pool) = 1 =>
    /\ \A a \in Agents : job[a] # 0 =>
         (collector # 0 => collector < job[a]) /\ \A g \in counted : g < job[a]
    /\ collector # 0 => \A g \in counted : g < collector
=============================================================================
