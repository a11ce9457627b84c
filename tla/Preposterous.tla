---------------------------- MODULE Preposterous ----------------------------
(***************************************************************************)
(* The life of one input file in a batch command: filewalker.Preposterous  *)
(* and PrePostHook, the file index they consult, and the tail of the job   *)
(* that turns what they return into a result.  Each worker takes a file    *)
(* through the index, the open hook, the command's own handler, the close  *)
(* hook and the index again.                                               *)
(*                                                                         *)
(* The index outlives the process: a behaviour is a sequence of runs over  *)
(* the same input files, each ended in order or by a crash.  What the      *)
(* handler does is a command's own business; here it returns anything.     *)
(***************************************************************************)
EXTENDS Integers, FiniteSets

CONSTANTS
  Workers,
  Files,       \* the input files of a run, one per path the walk submits
  NoFile,
  Keys,        \* the paths that the walk hands to the job ...
  Key,         \* ... and that index the file: [Files -> Keys]
  KeepIndex,   \* --keep-index: without it there is no file index
  MayReset,    \* whether a run may be started with --new-index
  MaxRuns,     \* bound: how many runs are started
  Faults       \* what may go wrong: "index", it cannot be read or written;
               \* "hook", a hook exits with an error; "skip", the open hook
               \* exits with 10; "crash", the process is killed

ASSUME PreposterousAssumption ==
  /\ NoFile \notin Files
  /\ Key \in [Files -> Keys]
  /\ KeepIndex \in BOOLEAN
  /\ MayReset \in BOOLEAN
  /\ MaxRuns \in Nat \ {0}

\* No two inputs share a path.  Members of two archives may: see the README.
InjectiveKeys == \A f, g \in Files : Key[f] = Key[g] => f = g

VARIABLES
  stage,      \* per worker, where it is
  file,       \* per worker, the file it holds
  ret,        \* per worker, the (result, err) it carries
  fileIndex,  \* persistent: per key, the saved result or "absent"
  reported,   \* per file, what this run has reported
  runs,       \* how many runs have been started
  handled,    \* history: files whose handler has returned without an error
  skips,      \* history: files the open hook asked to skip, in this run
  closeHooks  \* history: per file, close hooks run minus open hooks passed

hookVars == <<skips, closeHooks>>
vars == <<stage, file, ret, fileIndex, reported, runs, handled, hookVars>>

Stages   == {"idle", "lookup", "openHook", "handle", "closeHook", "save", "report"}
Results  == {"nil", "clean", "errors"}
Saved    == {"clean", "errors"}

\* hooks and filewalker each declare a sentinel of their own.
HooksErrSkipFile      == "hooks.ErrSkipFile"
FilewalkerErrSkipFile == "filewalker.ErrSkipFile"
Errs == {"none", "error", HooksErrSkipFile, FilewalkerErrSkipFile}

\* errors.Is(err, ErrSkipFile), in Preposterous and in the job.
IsSkip(err) == err = FilewalkerErrSkipFile

Return(r, e) == [result |-> r, err |-> e]
Nothing      == Return("nil", "none")

Init ==
  /\ stage = [w \in Workers |-> "idle"]
  /\ file = [w \in Workers |-> NoFile]
  /\ ret = [w \in Workers |-> Nothing]
  /\ fileIndex = [k \in Keys |-> "absent"]
  /\ reported = [f \in Files |-> "none"]
  /\ runs = 1
  /\ handled = {}
  /\ skips = {}
  /\ closeHooks = [f \in Files |-> 0]

\* Worker w goes on to stage s.
Goto(w, s) == stage' = [stage EXCEPT ![w] = s]

\* Worker w goes on to stage s, carrying (r, e).
GotoWith(w, s, r, e) == Goto(w, s) /\ ret' = [ret EXCEPT ![w] = Return(r, e)]

-----------------------------------------------------------------------------
(* Deliberately wrong variants of definitions below: see the README.       *)

\* The index is not consulted.
GetFileStats_Never(w) ==
  /\ stage[w] = "lookup"
  /\ Goto(w, "openHook")
  /\ UNCHANGED <<file, ret, fileIndex, reported, runs, handled, hookVars>>

\* A failed open hook still lets the close hook run.
OpenInputFileHook_AlwaysClose(w) ==
  /\ stage[w] = "openHook"
  /\ \/ Goto(w, "handle") /\ closeHooks' = [closeHooks EXCEPT ![file[w]] = @ - 1]
        /\ UNCHANGED ret
     \/ "hook" \in Faults /\ GotoWith(w, "closeHook", "nil", "error") /\ UNCHANGED closeHooks
  /\ UNCHANGED <<file, fileIndex, reported, runs, handled, skips>>

\* The result is saved whatever the handler and the close hook return.
CloseInputFileHook_AlwaysSave(w) ==
  /\ stage[w] = "closeHook"
  /\ closeHooks' = [closeHooks EXCEPT ![file[w]] = @ + 1]
  /\ Goto(w, IF KeepIndex THEN "save" ELSE "report")
  /\ UNCHANGED <<file, ret, fileIndex, reported, runs, handled, skips>>

\* The result is saved before the file is handled.
OpenInputFileHook_SaveFirst(w) ==
  /\ stage[w] = "openHook"
  /\ Goto(w, "handle")
  /\ fileIndex' = [fileIndex EXCEPT ![Key[file[w]]] = "clean"]
  /\ closeHooks' = [closeHooks EXCEPT ![file[w]] = @ - 1]
  /\ UNCHANGED <<file, ret, reported, runs, handled, skips>>

-----------------------------------------------------------------------------
\* The pool starts the job of a file that this run has not reported.
Begin(w, f) ==
  /\ stage[w] = "idle"
  /\ reported[f] = "none"
  /\ \A v \in Workers : file[v] # f
  /\ file' = [file EXCEPT ![w] = f]
  /\ Goto(w, "lookup")
  /\ UNCHANGED <<ret, fileIndex, reported, runs, handled, hookVars>>

\* A saved result is returned as it is; without one, or without an index, the
\* file is handled.
GetFileStats(w) ==
  LET saved == fileIndex[Key[file[w]]] IN
  /\ stage[w] = "lookup"
  /\ \/ KeepIndex /\ saved # "absent" /\ GotoWith(w, "report", saved, "none")
     \/ ~(KeepIndex /\ saved # "absent") /\ Goto(w, "openHook") /\ UNCHANGED ret
     \/ KeepIndex /\ "index" \in Faults /\ GotoWith(w, "report", "nil", "error")
  /\ UNCHANGED <<file, fileIndex, reported, runs, handled, hookVars>>

\* A hook that does not pass keeps the file from being handled at all.
OpenInputFileHook(w) ==
  /\ stage[w] = "openHook"
  /\ \/ /\ Goto(w, "handle")
        /\ closeHooks' = [closeHooks EXCEPT ![file[w]] = @ - 1]
        /\ UNCHANGED <<ret, skips>>
     \/ /\ "hook" \in Faults
        /\ GotoWith(w, "report", "nil", "error")
        /\ UNCHANGED hookVars
     \/ /\ "skip" \in Faults
        /\ GotoWith(w, "report", "nil",
                    IF IsSkip(HooksErrSkipFile) THEN HooksErrSkipFile ELSE "error")
        /\ skips' = skips \cup {file[w]}
        /\ UNCHANGED closeHooks
  /\ UNCHANGED <<file, fileIndex, reported, runs, handled>>

\* The handler of the command returns (r, e).
HandlerReturns(w, r, e) ==
  /\ stage[w] = "handle"
  /\ GotoWith(w, "closeHook", r, e)
  /\ handled' = IF e = "none" THEN handled \cup {file[w]} ELSE handled
  /\ UNCHANGED <<file, fileIndex, reported, runs, hookVars>>

\* The close hook always runs; when it fails the result is dropped.  A result
\* is saved only if neither the handler nor a hook has failed.
CloseInputFileHook(w) ==
  /\ stage[w] = "closeHook"
  /\ closeHooks' = [closeHooks EXCEPT ![file[w]] = @ + 1]
  /\ \/ Goto(w, IF KeepIndex /\ ret[w].err = "none" THEN "save" ELSE "report") /\ UNCHANGED ret
     \/ "hook" \in Faults /\ GotoWith(w, "report", "nil", "error")
  /\ UNCHANGED <<file, fileIndex, reported, runs, handled, skips>>

SaveFileStats(w) ==
  LET saved == [fileIndex EXCEPT ![Key[file[w]]] = ret[w].result] IN
  /\ stage[w] = "save"
  /\ \/ Goto(w, "report") /\ fileIndex' = saved /\ UNCHANGED ret
     \/ /\ "index" \in Faults
        /\ GotoWith(w, "report", "nil", "error")
        /\ fileIndex' \in {fileIndex, saved}
  /\ UNCHANGED <<file, reported, runs, handled, hookVars>>

\* The job: an error is added to the result, a skipped file has none.
Report(w) ==
  /\ stage[w] = "report"
  /\ reported' = [reported EXCEPT ![file[w]] =
                    IF IsSkip(ret[w].err) THEN "skipped"
                    ELSE IF ret[w].err # "none" THEN "failed" ELSE ret[w].result]
  /\ file' = [file EXCEPT ![w] = NoFile]
  /\ GotoWith(w, "idle", "nil", "none")
  /\ UNCHANGED <<fileIndex, runs, handled, hookVars>>

\* A later run starts, on a fresh index with --new-index.
StartRun(reset) ==
  /\ runs < MaxRuns
  /\ runs' = runs + 1
  /\ reset => MayReset
  /\ stage' = [w \in Workers |-> "idle"]
  /\ file' = [w \in Workers |-> NoFile]
  /\ ret' = [w \in Workers |-> Nothing]
  /\ fileIndex' = IF reset THEN [k \in Keys |-> "absent"] ELSE fileIndex
  /\ reported' = [f \in Files |-> "none"]
  /\ skips' = {}
  /\ closeHooks' = [f \in Files |-> 0]
  /\ UNCHANGED handled

\* The pool has drained: finished, or cancelled before the last file.
AllIdle == \A w \in Workers : stage[w] = "idle"

NextRun(reset) == AllIdle /\ StartRun(reset)
Crash(reset)   == "crash" \in Faults /\ ~AllIdle /\ StartRun(reset)

\* What the handler of any command may return.
Handle(w) ==
  \/ \E r \in Saved : HandlerReturns(w, r, "none")
  \/ \E r \in Results : HandlerReturns(w, r, "error")

\* Everything a worker does but handle the file.
WrapNext(w) ==
  \/ \E f \in Files : Begin(w, f)
  \/ GetFileStats(w) \/ OpenInputFileHook(w)
  \/ CloseInputFileHook(w) \/ SaveFileStats(w) \/ Report(w)

Next ==
  \/ \E w \in Workers : WrapNext(w) \/ Handle(w)
  \/ \E reset \in BOOLEAN : NextRun(reset) \/ Crash(reset)

Spec == Init /\ [][Next]_vars
-----------------------------------------------------------------------------
(* Properties.                                                             *)

\* Every variable stays in its type.
TypeOK ==
  /\ stage \in [Workers -> Stages]
  /\ file \in [Workers -> Files \cup {NoFile}]
  /\ ret \in [Workers -> [result : Results, err : Errs]]
  /\ fileIndex \in [Keys -> Saved \cup {"absent"}]
  /\ reported \in [Files -> Saved \cup {"none", "failed", "skipped"}]
  /\ runs \in 1 .. MaxRuns
  /\ handled \subseteq Files
  /\ skips \subseteq Files
  /\ closeHooks \in [Files -> {-1, 0}]

\* A file that a run reports without an error has been handled, now or in the
\* run that saved it: the index never stands in for work nobody did.
ReportedMeansHandled ==
  \A f \in Files : reported[f] \in Saved => f \in handled

\* A file that a run reports as failed is not in the index, so that the next
\* run handles it again (unless it was the index itself that failed).
FailedIsRetried ==
  "index" \notin Faults =>
    \A f \in Files : reported[f] = "failed" => fileIndex[Key[f]] = "absent"

\* No work is done twice: while a file is being handled, the index does not
\* hold it, whatever was saved by this run, by earlier ones or before a crash.
NoRework ==
  KeepIndex =>
    \A w \in Workers : stage[w] = "handle" => fileIndex[Key[file[w]]] = "absent"

\* Hooks come in pairs: when a file is reported, its close hook has run if and
\* only if its open hook has passed, whatever the handler returned.
HooksPaired ==
  \A f \in Files : reported[f] # "none" => closeHooks[f] = 0
-----------------------------------------------------------------------------
(* The inductive invariant behind the theorems of Dedup_proofs about it.     *)

Before == {"lookup", "openHook", "handle"}     \* the handler has not returned
After  == {"closeHook", "save", "report"}
Hooked == {"handle", "closeHook"}              \* between the two hooks

\* A worker that is busy holds one file, alone, and nobody has reported it.
FileInv ==
  /\ \A w \in Workers : file[w] = NoFile <=> stage[w] = "idle"
  /\ \A v, w \in Workers : file[v] = file[w] /\ file[v] # NoFile => v = w
  /\ \A w \in Workers : file[w] # NoFile => reported[file[w]] = "none"

\* A result without an error is a proper one, of a file that was handled.
ResultInv ==
  \A w \in Workers :
    /\ stage[w] = "save" => KeepIndex /\ ret[w].err = "none"
    /\ stage[w] \in After /\ ret[w].err = "none" => ret[w].result \in Saved
    /\ InjectiveKeys /\ stage[w] \in After /\ ret[w].err = "none" => file[w] \in handled

\* The close hook is due exactly between the two hooks.
HookInv ==
  \A f \in Files :
    closeHooks[f] = IF \E w \in Workers : file[w] = f /\ stage[w] \in Hooked THEN -1 ELSE 0

\* The index and the report of a file agree with what became of it.
IndexInv ==
  /\ ~KeepIndex => \A k \in Keys : fileIndex[k] = "absent"
  /\ InjectiveKeys =>
    /\ \A f \in Files : fileIndex[Key[f]] \in Saved => f \in handled
    /\ \A f \in Files : reported[f] \in Saved => f \in handled
    /\ \A w \in Workers :
         KeepIndex /\ stage[w] \in {"openHook", "handle", "closeHook", "save"} =>
           fileIndex[Key[file[w]]] = "absent"
    /\ "index" \notin Faults =>
         /\ \A w \in Workers : stage[w] = "report" /\ ret[w].err # "none" =>
              fileIndex[Key[file[w]]] = "absent"
         /\ \A f \in Files : reported[f] = "failed" => fileIndex[Key[f]] = "absent"

IInv == TypeOK /\ FileInv /\ ResultInv /\ HookInv /\ IndexInv
=============================================================================
