---------------------------- MODULE Dedup_proofs ----------------------------
(***************************************************************************)
(* Theorems about the life of an input file, Preposterous, and about dedup *)
(* for any workers, input, faults and number of runs.  Dedup implements    *)
(* Preposterous, so the theorems about the latter hold of it; those about  *)
(* the handler are proved on top of them.                                  *)
(***************************************************************************)
EXTENDS Dedup, TLAPS

-----------------------------------------------------------------------------
(* The life of an input file *)

LEMMA GotoStep ==
  ASSUME TypeOK, NEW w \in Workers, NEW s \in Stages, Goto(w, s)
  PROVE  /\ stage' \in [Workers -> Stages]
         /\ stage'[w] = s
         /\ \A v \in Workers \ {w} : stage'[v] = stage[v]
BY DEF TypeOK, Goto

LEMMA GotoWithStep ==
  ASSUME TypeOK, NEW w \in Workers, NEW s \in Stages, NEW r \in Results, NEW e \in Errs,
         GotoWith(w, s, r, e)
  PROVE  /\ Goto(w, s)
         /\ ret' \in [Workers -> [result : Results, err : Errs]]
         /\ ret'[w] = [result |-> r, err |-> e]
         /\ \A v \in Workers \ {w} : ret'[v] = ret[v]
BY DEF TypeOK, GotoWith, Return

\* The close hooks stay due as they should when only w moves, and not across
\* either hook.
LEMMA HookFrame ==
  ASSUME IInv, NEW w \in Workers, UNCHANGED <<file, closeHooks>>,
         \A v \in Workers \ {w} : stage'[v] = stage[v],
         stage'[w] \in Hooked <=> stage[w] \in Hooked
  PROVE  HookInv'
BY DEF IInv, HookInv

\* A worker that is not idle holds a file.
LEMMA Holding ==
  ASSUME IInv, NEW w \in Workers, stage[w] # "idle"
  PROVE  file[w] \in Files /\ Key[file[w]] \in Keys /\ file[w] # NoFile
BY PreposterousAssumption DEF IInv, FileInv, TypeOK

LEMMA InitInv == Init => IInv
<1> SUFFICES ASSUME Init PROVE IInv
  OBVIOUS
<1>1. TypeOK
  BY PreposterousAssumption DEF Init, TypeOK, Nothing, Return, Results, Errs, Stages
<1>2. FileInv /\ HookInv
  BY DEF Init, FileInv, HookInv, Hooked
<1>3. ResultInv
  BY DEF Init, ResultInv, After
<1>4. IndexInv
  BY PreposterousAssumption DEF Init, IndexInv, Saved
<1>5. QED
  BY <1>1, <1>2, <1>3, <1>4 DEF IInv

-----------------------------------------------------------------------------
LEMMA BeginInv ==
  ASSUME IInv, NEW w \in Workers, NEW f \in Files, Begin(w, f)
  PROVE  IInv'
<1>1. /\ stage' \in [Workers -> Stages] /\ stage'[w] = "lookup"
      /\ \A v \in Workers \ {w} : stage'[v] = stage[v]
  BY GotoStep DEF Begin, Stages, IInv
<1>2. /\ file' \in [Workers -> Files \cup {NoFile}] /\ file'[w] = f
      /\ \A v \in Workers \ {w} : file'[v] = file[v]
  BY DEF Begin, IInv, TypeOK
<1>3. TypeOK'
  BY <1>1, <1>2 DEF Begin, IInv, TypeOK, hookVars
<1>4. FileInv'
  BY <1>1, <1>2, PreposterousAssumption DEF Begin, IInv, FileInv
<1>5. ResultInv'
  BY <1>1, <1>2 DEF Begin, IInv, ResultInv, After
<1>6. HookInv'
  BY <1>1, <1>2 DEF Begin, IInv, HookInv, Hooked, hookVars
<1>7. IndexInv'
  BY <1>1, <1>2 DEF Begin, IInv, IndexInv
<1>8. QED
  BY <1>3, <1>4, <1>5, <1>6, <1>7 DEF IInv

LEMMA GetFileStatsInv ==
  ASSUME IInv, NEW w \in Workers, GetFileStats(w)
  PROVE  IInv'
<1> DEFINE saved == fileIndex[Key[file[w]]]
<1>1. file[w] \in Files /\ Key[file[w]] \in Keys /\ saved \in Saved \cup {"absent"}
  BY Holding DEF GetFileStats, IInv, TypeOK
<1>2. PICK s \in {"report", "openHook"} :
        /\ Goto(w, s)
        /\ s = "openHook" => UNCHANGED ret /\ (KeepIndex => saved = "absent")
        /\ s = "report" => \/ saved \in Saved /\ GotoWith(w, s, saved, "none")
                           \/ "index" \in Faults /\ GotoWith(w, s, "nil", "error")
  BY <1>1 DEF GetFileStats, GotoWith
<1>3. /\ stage' \in [Workers -> Stages] /\ stage'[w] = s
      /\ \A v \in Workers \ {w} : stage'[v] = stage[v]
  BY <1>2, GotoStep DEF Stages, IInv
<1>4. /\ ret' \in [Workers -> [result : Results, err : Errs]]
      /\ \A v \in Workers \ {w} : ret'[v] = ret[v]
      /\ s = "report" => \/ saved \in Saved /\ ret'[w] = [result |-> saved, err |-> "none"]
                         \/ "index" \in Faults /\ ret'[w] = [result |-> "nil", err |-> "error"]
  <2>1. CASE s = "openHook"
    BY <1>2, <2>1 DEF IInv, TypeOK
  <2>2. CASE s = "report" /\ saved \in Saved /\ GotoWith(w, s, saved, "none")
    BY <2>2, GotoWithStep DEF IInv, Saved, Results, Errs, Stages
  <2>3. CASE s = "report" /\ "index" \in Faults /\ GotoWith(w, s, "nil", "error")
    BY <2>3, GotoWithStep DEF IInv, Results, Errs, Stages
  <2>4. QED
    BY <1>2, <2>1, <2>2, <2>3
<1>5. stage[w] = "lookup" /\ UNCHANGED <<file, fileIndex, reported, runs, handled, skips, closeHooks>>
  BY DEF GetFileStats, hookVars
<1>6. TypeOK'
  BY <1>3, <1>4, <1>5 DEF IInv, TypeOK
<1>7. FileInv'
  BY <1>2, <1>3, <1>5 DEF IInv, FileInv
<1>8. ResultInv'
  BY <1>1, <1>2, <1>3, <1>4, <1>5 DEF IInv, ResultInv, IndexInv, After, Saved
<1>9. HookInv'
  BY <1>2, <1>3, <1>5, HookFrame DEF Hooked
<1>10. IndexInv'
  BY <1>1, <1>2, <1>3, <1>4, <1>5 DEF IInv, IndexInv
<1>11. QED
  BY <1>6, <1>7, <1>8, <1>9, <1>10 DEF IInv

LEMMA OpenHookInv ==
  ASSUME IInv, NEW w \in Workers, OpenInputFileHook(w)
  PROVE  IInv'
<1>1. stage[w] = "openHook" /\ file[w] \in Files /\ Key[file[w]] \in Keys
  BY Holding DEF OpenInputFileHook
<1>2. UNCHANGED <<file, fileIndex, reported, runs, handled>>
  BY DEF OpenInputFileHook
<1>3. CASE Goto(w, "handle") /\ closeHooks' = [closeHooks EXCEPT ![file[w]] = @ - 1]
           /\ UNCHANGED <<ret, skips>>
  <2>1. /\ stage' \in [Workers -> Stages] /\ stage'[w] = "handle"
        /\ \A v \in Workers \ {w} : stage'[v] = stage[v]
    BY <1>3, GotoStep DEF Stages, IInv
  <2>2. closeHooks[file[w]] = 0
    BY <1>1, PreposterousAssumption DEF IInv, HookInv, FileInv, Hooked
  <2>3. /\ closeHooks' \in [Files -> {-1, 0}] /\ closeHooks'[file[w]] = -1
        /\ \A f \in Files \ {file[w]} : closeHooks'[f] = closeHooks[f]
    BY <1>1, <1>3, <2>2 DEF IInv, TypeOK
  <2>4. TypeOK'
    BY <1>2, <1>3, <2>1, <2>3 DEF IInv, TypeOK
  <2>5. FileInv'
    BY <1>1, <1>2, <2>1 DEF IInv, FileInv
  <2>6. ResultInv'
    BY <1>2, <1>3, <2>1 DEF IInv, ResultInv, After
  <2>7. HookInv'
    BY <1>1, <1>2, <2>1, <2>3 DEF IInv, HookInv, Hooked
  <2>8. IndexInv'
    BY <1>1, <1>2, <1>3, <2>1 DEF IInv, IndexInv
  <2>9. QED
    BY <2>4, <2>5, <2>6, <2>7, <2>8 DEF IInv
<1>4. CASE \E e \in Errs \ {"none"} : GotoWith(w, "report", "nil", e)
           /\ UNCHANGED closeHooks /\ skips' \subseteq Files
  <2>1. PICK e \in Errs \ {"none"} : GotoWith(w, "report", "nil", e)
    BY <1>4
  <2>2. /\ Goto(w, "report")
        /\ ret' \in [Workers -> [result : Results, err : Errs]]
        /\ ret'[w] = [result |-> "nil", err |-> e]
        /\ \A v \in Workers \ {w} : ret'[v] = ret[v]
    BY <2>1, GotoWithStep DEF IInv, Results, Stages
  <2>3. /\ stage' \in [Workers -> Stages] /\ stage'[w] = "report"
        /\ \A v \in Workers \ {w} : stage'[v] = stage[v]
    BY <2>2, GotoStep DEF Stages, IInv
  <2>4. TypeOK'
    BY <1>2, <1>4, <2>2, <2>3 DEF IInv, TypeOK
  <2>5. FileInv'
    BY <1>1, <1>2, <2>3 DEF IInv, FileInv
  <2>6. ResultInv'
    BY <1>2, <2>2, <2>3 DEF IInv, ResultInv
  <2>7. HookInv'
    BY <1>1, <1>2, <1>4, <2>3, HookFrame DEF Hooked
  <2>8. KeepIndex => (InjectiveKeys => fileIndex[Key[file[w]]] = "absent")
    BY <1>1 DEF IInv, IndexInv
  <2>9. ~KeepIndex => fileIndex[Key[file[w]]] = "absent"
    BY <1>1 DEF IInv, IndexInv
  <2>10. IndexInv'
    BY <1>1, <1>2, <2>2, <2>3, <2>8, <2>9 DEF IInv, IndexInv
  <2>11. QED
    BY <2>4, <2>5, <2>6, <2>7, <2>10 DEF IInv
<1>5. QED
  BY <1>1, <1>3, <1>4 DEF OpenInputFileHook, hookVars, IInv, TypeOK, IsSkip, Errs,
       HooksErrSkipFile, FilewalkerErrSkipFile

LEMMA HandlerInv ==
  ASSUME IInv, NEW w \in Workers, NEW r \in Results, NEW e \in {"none", "error"},
         e = "none" => r \in Saved,
         HandlerReturns(w, r, e)
  PROVE  IInv'
<1>1. stage[w] = "handle" /\ file[w] \in Files
  BY Holding DEF HandlerReturns
<1>2. UNCHANGED <<file, fileIndex, reported, runs, skips, closeHooks>>
  BY DEF HandlerReturns, hookVars
<1>3. /\ Goto(w, "closeHook")
      /\ ret' \in [Workers -> [result : Results, err : Errs]]
      /\ ret'[w] = [result |-> r, err |-> e]
      /\ \A v \in Workers \ {w} : ret'[v] = ret[v]
  <2>1. GotoWith(w, "closeHook", r, e) /\ "closeHook" \in Stages /\ e \in Errs
    BY DEF HandlerReturns, Stages, Errs
  <2>2. QED
    BY <2>1, GotoWithStep DEF IInv
<1>4. /\ stage' \in [Workers -> Stages] /\ stage'[w] = "closeHook"
      /\ \A v \in Workers \ {w} : stage'[v] = stage[v]
  BY <1>3, GotoStep DEF Stages, IInv
<1>5. /\ handled' \subseteq Files /\ handled \subseteq handled'
      /\ e = "none" => file[w] \in handled'
  BY <1>1 DEF HandlerReturns, IInv, TypeOK
<1>6. TypeOK'
  BY <1>2, <1>3, <1>4, <1>5 DEF IInv, TypeOK
<1>7. FileInv'
  BY <1>1, <1>2, <1>4 DEF IInv, FileInv
<1>8. ResultInv'
  BY <1>2, <1>3, <1>4, <1>5 DEF IInv, ResultInv
<1>9. HookInv'
  BY <1>1, <1>2, <1>4, HookFrame DEF Hooked
<1>10. IndexInv'
  BY <1>1, <1>2, <1>3, <1>4, <1>5 DEF IInv, IndexInv
<1>11. QED
  BY <1>6, <1>7, <1>8, <1>9, <1>10 DEF IInv

LEMMA CloseHookInv ==
  ASSUME IInv, NEW w \in Workers, CloseInputFileHook(w)
  PROVE  IInv'
<1>1. stage[w] = "closeHook" /\ file[w] \in Files /\ Key[file[w]] \in Keys
  BY Holding DEF CloseInputFileHook
<1>2. UNCHANGED <<file, fileIndex, reported, runs, handled, skips>>
  BY DEF CloseInputFileHook
<1>3. PICK s \in {"save", "report"} :
        /\ Goto(w, s)
        /\ s = "save" => KeepIndex /\ ret[w].err = "none" /\ UNCHANGED ret
        /\ \/ UNCHANGED ret /\ (s = "report" => ~KeepIndex \/ ret[w].err # "none")
           \/ s = "report" /\ GotoWith(w, s, "nil", "error")
  BY DEF CloseInputFileHook, GotoWith
<1>4. /\ stage' \in [Workers -> Stages] /\ stage'[w] = s
      /\ \A v \in Workers \ {w} : stage'[v] = stage[v]
  BY <1>3, GotoStep DEF Stages, IInv
<1>5. /\ ret' \in [Workers -> [result : Results, err : Errs]]
      /\ \A v \in Workers \ {w} : ret'[v] = ret[v]
      /\ ret'[w] = ret[w] \/ ret'[w] = [result |-> "nil", err |-> "error"]
      /\ s = "save" => ret'[w] = ret[w]
  <2>1. CASE UNCHANGED ret
    BY <2>1 DEF IInv, TypeOK
  <2>2. CASE s = "report" /\ GotoWith(w, s, "nil", "error")
    BY <2>2, GotoWithStep DEF IInv, Results, Errs, Stages
  <2>3. QED
    BY <1>3, <2>1, <2>2
<1>6. closeHooks[file[w]] = -1
  BY <1>1 DEF IInv, HookInv, Hooked
<1>7. /\ closeHooks' \in [Files -> {-1, 0}] /\ closeHooks'[file[w]] = 0
      /\ \A f \in Files \ {file[w]} : closeHooks'[f] = closeHooks[f]
  BY <1>1, <1>6 DEF CloseInputFileHook, IInv, TypeOK
<1>8. TypeOK'
  BY <1>2, <1>4, <1>5, <1>7 DEF IInv, TypeOK
<1>9. FileInv'
  BY <1>1, <1>2, <1>3, <1>4 DEF IInv, FileInv
<1>10. ResultInv'
  BY <1>1, <1>2, <1>3, <1>4, <1>5 DEF IInv, ResultInv, After
<1>11. HookInv'
  BY <1>1, <1>2, <1>3, <1>4, <1>7, PreposterousAssumption DEF IInv, HookInv, Hooked, FileInv
<1>12. InjectiveKeys => fileIndex[Key[file[w]]] = "absent"
  BY <1>1 DEF IInv, IndexInv
<1>13. IndexInv'
  BY <1>1, <1>2, <1>3, <1>4, <1>5, <1>12 DEF IInv, IndexInv
<1>14. QED
  BY <1>8, <1>9, <1>10, <1>11, <1>13 DEF IInv

LEMMA SaveInv ==
  ASSUME IInv, NEW w \in Workers, SaveFileStats(w)
  PROVE  IInv'
<1> DEFINE saved == [fileIndex EXCEPT ![Key[file[w]]] = ret[w].result]
<1>1. /\ stage[w] = "save" /\ file[w] \in Files /\ Key[file[w]] \in Keys
      /\ file[w] # NoFile /\ ret[w].err = "none" /\ ret[w].result \in Saved
  BY Holding DEF SaveFileStats, IInv, ResultInv, After
<1>2. UNCHANGED <<file, reported, runs, handled, skips, closeHooks>>
  BY DEF SaveFileStats, hookVars
<1>3. /\ Goto(w, "report")
      /\ \/ UNCHANGED ret
         \/ "index" \in Faults /\ GotoWith(w, "report", "nil", "error")
      /\ fileIndex' = fileIndex \/ fileIndex' = saved
  BY DEF SaveFileStats, GotoWith
<1>4. /\ stage' \in [Workers -> Stages] /\ stage'[w] = "report"
      /\ \A v \in Workers \ {w} : stage'[v] = stage[v]
  BY <1>3, GotoStep DEF Stages, IInv
<1>5. /\ ret' \in [Workers -> [result : Results, err : Errs]]
      /\ \A v \in Workers \ {w} : ret'[v] = ret[v]
      /\ \/ ret'[w] = ret[w]
         \/ "index" \in Faults /\ ret'[w] = [result |-> "nil", err |-> "error"]
  <2>1. CASE UNCHANGED ret
    BY <2>1 DEF IInv, TypeOK
  <2>2. CASE "index" \in Faults /\ GotoWith(w, "report", "nil", "error")
    BY <2>2, GotoWithStep DEF IInv, Results, Errs, Stages
  <2>3. QED
    BY <1>3, <2>1, <2>2
<1>6. /\ fileIndex' \in [Keys -> Saved \cup {"absent"}]
      /\ \A k \in Keys \ {Key[file[w]]} : fileIndex'[k] = fileIndex[k]
  BY <1>1, <1>3 DEF IInv, TypeOK
<1>7. TypeOK'
  BY <1>2, <1>4, <1>5, <1>6 DEF IInv, TypeOK
<1>8. FileInv'
  BY <1>1, <1>2, <1>4 DEF IInv, FileInv
<1>9. ResultInv'
  BY <1>1, <1>2, <1>4, <1>5 DEF IInv, ResultInv, After
<1>10. HookInv'
  BY <1>1, <1>2, <1>4, HookFrame DEF Hooked
<1>11. KeepIndex
  BY DEF SaveFileStats, IInv, ResultInv
<1>12. IndexInv'
  <2>1. ASSUME InjectiveKeys, NEW f \in Files, f # file[w]
        PROVE  fileIndex'[Key[f]] = fileIndex[Key[f]]
    BY <1>1, <1>6, <2>1, PreposterousAssumption DEF InjectiveKeys
  <2>2. InjectiveKeys => file[w] \in handled
    BY <1>1 DEF IInv, ResultInv, After
  <2>3. ASSUME NEW v \in Workers, v # w, stage[v] # "idle"
        PROVE  file[v] \in Files /\ file[v] # file[w]
    BY <1>1, <2>3, Holding DEF IInv, FileInv
  <2>4. reported[file[w]] = "none"
    BY <1>1 DEF IInv, FileInv
  <2>5. QED
    BY <1>1, <1>2, <1>4, <1>5, <1>11, <2>1, <2>2, <2>3, <2>4 DEF IInv, IndexInv
<1>13. QED
  BY <1>7, <1>8, <1>9, <1>10, <1>12 DEF IInv

LEMMA ReportInv ==
  ASSUME IInv, NEW w \in Workers, Report(w)
  PROVE  IInv'
<1>1. stage[w] = "report" /\ file[w] \in Files /\ file[w] # NoFile
  BY Holding DEF Report
<1>2. UNCHANGED <<fileIndex, runs, handled, skips, closeHooks>>
  BY DEF Report, hookVars
<1>3. /\ Goto(w, "idle")
      /\ ret' \in [Workers -> [result : Results, err : Errs]]
      /\ \A v \in Workers \ {w} : ret'[v] = ret[v]
  BY GotoWithStep DEF Report, IInv, Stages, Results, Errs
<1>4. /\ stage' \in [Workers -> Stages] /\ stage'[w] = "idle"
      /\ \A v \in Workers \ {w} : stage'[v] = stage[v]
  BY <1>3, GotoStep DEF Stages, IInv
<1>5. /\ file' \in [Workers -> Files \cup {NoFile}] /\ file'[w] = NoFile
      /\ \A v \in Workers \ {w} : file'[v] = file[v]
  BY DEF Report, IInv, TypeOK
<1>6. /\ reported' \in [Files -> Saved \cup {"none", "failed", "skipped"}]
      /\ \A f \in Files \ {file[w]} : reported'[f] = reported[f]
      /\ reported'[file[w]] \in Saved => ret[w].err = "none"
      /\ reported'[file[w]] = "failed" => ret[w].err # "none"
  BY <1>1 DEF Report, IInv, TypeOK, ResultInv, After, Saved
<1>7. TypeOK'
  BY <1>2, <1>3, <1>4, <1>5, <1>6 DEF IInv, TypeOK
<1>8. FileInv'
  <2>1. \A v \in Workers : file'[v] = NoFile <=> stage'[v] = "idle"
    BY <1>4, <1>5 DEF IInv, FileInv
  <2>2. \A u, v \in Workers : file'[u] = file'[v] /\ file'[u] # NoFile => u = v
    BY <1>5 DEF IInv, FileInv
  <2>3. ASSUME NEW v \in Workers, file'[v] # NoFile PROVE reported'[file'[v]] = "none"
    <3>1. v # w /\ file'[v] = file[v] /\ file[v] # NoFile
      BY <1>5, <2>3
    <3>2. file[v] \in Files \ {file[w]}
      BY <3>1, <1>1 DEF IInv, FileInv, TypeOK
    <3>3. QED
      BY <3>1, <3>2, <1>6 DEF IInv, FileInv
  <2>4. QED
    BY <2>1, <2>2, <2>3 DEF FileInv
<1>9. ResultInv'
  BY <1>2, <1>3, <1>4, <1>5 DEF IInv, ResultInv, After
<1>10. HookInv'
  <2>1. ASSUME NEW f \in Files
        PROVE  (\E v \in Workers : file'[v] = f /\ stage'[v] \in Hooked)
                 <=> (\E v \in Workers : file[v] = f /\ stage[v] \in Hooked)
    BY <1>1, <1>4, <1>5 DEF Hooked
  <2>2. QED
    BY <1>2, <2>1 DEF IInv, HookInv
<1>11. IndexInv'
  BY <1>1, <1>2, <1>3, <1>4, <1>5, <1>6 DEF IInv, IndexInv, ResultInv, After
<1>12. QED
  BY <1>7, <1>8, <1>9, <1>10, <1>11 DEF IInv

LEMMA StartRunInv ==
  ASSUME IInv, NEW reset \in BOOLEAN, StartRun(reset)
  PROVE  IInv'
<1>1. TypeOK'
  BY PreposterousAssumption DEF StartRun, IInv, TypeOK, Nothing, Return, Results, Errs, Stages
<1>2. FileInv' /\ HookInv'
  BY DEF StartRun, FileInv, HookInv, Hooked
<1>3. ResultInv'
  BY DEF StartRun, ResultInv, After
<1>4. IndexInv'
  BY PreposterousAssumption DEF StartRun, IInv, IndexInv, Saved
<1>5. QED
  BY <1>1, <1>2, <1>3, <1>4 DEF IInv

\* Every step keeps the invariant.
LEMMA StepInv ==
  ASSUME IInv, [Next]_vars
  PROVE  IInv'
<1>1. ASSUME NEW w \in Workers, WrapNext(w) PROVE IInv'
  BY <1>1, BeginInv, GetFileStatsInv, OpenHookInv, CloseHookInv, SaveInv, ReportInv DEF WrapNext
<1>2. ASSUME NEW w \in Workers, Handle(w) PROVE IInv'
  <2>1. \E r \in Results, e \in {"none", "error"} :
          (e = "none" => r \in Saved) /\ HandlerReturns(w, r, e)
    BY <1>2 DEF Handle, Saved, Results
  <2>2. QED
    BY <2>1, HandlerInv
<1>3. ASSUME NEW reset \in BOOLEAN, NextRun(reset) \/ Crash(reset) PROVE IInv'
  BY <1>3, StartRunInv DEF NextRun, Crash
<1>4. CASE UNCHANGED vars
  BY <1>4 DEF vars, hookVars, IInv, TypeOK, FileInv, ResultInv, HookInv, IndexInv
<1>5. QED
  BY <1>1, <1>2, <1>3, <1>4 DEF Next

-----------------------------------------------------------------------------
\* The inductive invariant of the life of a file.
THEOREM Invariance == Spec => []IInv
BY InitInv, StepInv, PTL DEF Spec

\* Every variable stays in its type.
THEOREM TypeCorrect == Spec => []TypeOK
<1>1. IInv => TypeOK
  BY DEF IInv
<1>2. QED
  BY Invariance, <1>1, PTL

\* The close hook runs if and only if the open hook has passed.
THEOREM PairedHooks == Spec => []HooksPaired
<1>1. IInv => HooksPaired
  BY PreposterousAssumption DEF IInv, FileInv, HookInv, Hooked, HooksPaired
<1>2. QED
  BY Invariance, <1>1, PTL

\* When no two inputs share a path, a file that is reported without an error
\* has been handled, in this run or in the one that saved it.
THEOREM NothingSkipped == ASSUME InjectiveKeys PROVE Spec => []ReportedMeansHandled
<1>1. IInv => ReportedMeansHandled
  BY DEF IInv, IndexInv, ReportedMeansHandled
<1>2. QED
  BY Invariance, <1>1, PTL

\* When no two inputs share a path, no file is handled that the index holds.
THEOREM NothingRedone == ASSUME InjectiveKeys PROVE Spec => []NoRework
<1>1. IInv => NoRework
  BY DEF IInv, IndexInv, NoRework
<1>2. QED
  BY Invariance, <1>1, PTL

\* When no two inputs share a path, a file that failed is handled again by the
\* next run.
THEOREM FailuresRetried == ASSUME InjectiveKeys PROVE Spec => []FailedIsRetried
<1>1. IInv => FailedIsRetried
  BY DEF IInv, IndexInv, FailedIsRetried
<1>2. QED
  BY Invariance, <1>1, PTL

-----------------------------------------------------------------------------
(* Deduplication *)

\* Every step of dedup is a step of Preposterous or leaves it alone.
LEMMA StepRefines == ASSUME [DedupNext]_<<vars, dedupVars>> PROVE [Next]_vars
<1>1. ASSUME NEW w \in Workers, HandleFile(w) PROVE [Next]_vars
  <2>1. Result(w) \in Saved
    BY DEF Result, Saved
  <2>2. ASSUME NEW r \in Results, NEW e \in {"none", "error"}, e = "none" => r \in Saved,
               Finish(w, r, e)
        PROVE  Next
    BY <2>2 DEF Finish, Handle, Next
  <2>3. CASE UNCHANGED vars
    BY <2>3
  <2>4. QED
    BY <1>1, <2>1, <2>2, <2>3 DEF HandleFile, OpenFile, NextRecord, EndOfFile, IsRevisit,
         WriteRecord, Saved, Results
<1>2. ASSUME NEW w \in Workers, WrapNext(w) PROVE Next
  BY <1>2 DEF Next
<1>3. ASSUME NEW reset \in BOOLEAN, DedupNextRun(reset) \/ DedupCrash(reset) PROVE Next
  BY <1>3 DEF DedupNextRun, DedupCrash, Next
<1>4. QED
  BY <1>1, <1>2, <1>3 DEF DedupNext

\* What is backed stays so when only w moves and writes what it was about to.
LEMMA BackedFrame ==
  ASSUME NEW w \in Workers,
         \A v \in Workers \ {w} : /\ stage'[v] = stage[v] /\ step'[v] = step[v]
                                  /\ rest'[v] = rest[v] /\ ref'[v] = ref[v],
         output \subseteq output',
         At(w, "write") /\ ref[w] = NoRecord => Full(Now(w)) \in output'
  PROVE  \A t : Backed(t) => Backed(t)'
BY DEF Backed, At, Now, Full, Entry

LEMMA DedupInitInv == DedupInit => DedupIInv
<1> SUFFICES ASSUME DedupInit PROVE DedupIInv
  OBVIOUS
<1>1. IInv
  BY InitInv DEF DedupInit
<1>2. DedupTypeOK
  BY <1>1, DedupAssumption DEF DedupInit, DedupTypeOK, IInv, NoIndex, Steps
<1>3. WorkInv /\ WrittenInv
  BY DEF DedupInit, Init, WorkInv, WrittenInv, At
<1>4. IndexMatches /\ RevisitsMatch /\ BackedInv
  BY DEF DedupInit, IndexMatches, RevisitsMatch, BackedInv, NoIndex, At
<1>5. QED
  BY <1>1, <1>2, <1>3, <1>4 DEF DedupIInv, HandleInv

-----------------------------------------------------------------------------
\* The handler returns: with an error, or after its last record.
LEMMA FinishInv ==
  ASSUME DedupIInv, IInv', NEW w \in Workers,
         NEW r \in Results, NEW e \in {"none", "error"}, Finish(w, r, e),
         UNCHANGED <<digestIndex, output>>,
         e = "none" => \A q \in RecordsOf(file[w]) : Written(q),
         At(w, "write") => "write" \in Faults
  PROVE  HandleInv'
<1>1. stage[w] = "handle" /\ file[w] \in Files /\ UNCHANGED file
  BY Holding DEF Finish, HandlerReturns, DedupIInv
<1>2. /\ stage'[w] = "closeHook"
      /\ \A v \in Workers \ {w} : stage'[v] = stage[v]
  BY DEF Finish, HandlerReturns, GotoWith, Goto, DedupIInv, IInv, TypeOK
<1>3. /\ step' \in [Workers -> Steps] /\ rest' \in [Workers -> Seq(Records)]
      /\ ref' \in [Workers -> Records \cup {NoRecord}] /\ errors' \in [Workers -> BOOLEAN]
  BY DEF Finish, DedupIInv, HandleInv, DedupTypeOK, Steps
<1>4. /\ step'[w] = "open" /\ rest'[w] = <<>> /\ ref'[w] = NoRecord
      /\ \A v \in Workers \ {w} :
           step'[v] = step[v] /\ rest'[v] = rest[v] /\ ref'[v] = ref[v]
  BY DEF Finish, DedupIInv, HandleInv, DedupTypeOK
<1>5. handled' = IF e = "none" THEN handled \cup {file[w]} ELSE handled
  BY DEF Finish, HandlerReturns
<1>6. DedupTypeOK'
  BY <1>3 DEF DedupIInv, HandleInv, DedupTypeOK, IInv
<1>7. WorkInv'
  BY <1>2, <1>4 DEF DedupIInv, HandleInv, WorkInv, At, Now
<1>8. WrittenInv'
  <2>1. \A q : Written(q)' <=> Written(q)
    BY DEF Written
  <2>2. ASSUME NEW f \in handled', NEW q \in RecordsOf(f) PROVE Written(q)
    BY <1>1, <1>5, <2>2 DEF DedupIInv, HandleInv, WrittenInv
  <2>3. ASSUME NEW v \in Workers, stage'[v] = "handle", step'[v] # "open",
               NEW q \in RecordsOf(file'[v])
        PROVE  Written(q) \/ \E i \in DOMAIN rest'[v] : rest'[v][i] = q
    <3>1. v # w /\ stage[v] = "handle" /\ step[v] # "open" /\ rest'[v] = rest[v]
          /\ file'[v] = file[v]
      BY <1>1, <1>2, <1>4, <2>3
    <3>2. QED
      BY <3>1, <2>3 DEF DedupIInv, HandleInv, WrittenInv
  <2>4. QED
    BY <2>1, <2>2, <2>3 DEF WrittenInv
<1>9. IndexMatches' /\ RevisitsMatch'
  BY DEF DedupIInv, HandleInv, IndexMatches, RevisitsMatch
<1>10. BackedInv'
  <2>1. ASSUME "write" \notin Faults PROVE \A t : Backed(t) => Backed(t)'
    BY <1>2, <1>4, <2>1, BackedFrame
  <2>2. QED
    BY <1>2, <1>4, <2>1 DEF DedupIInv, HandleInv, BackedInv, Backed, At, Now
<1>11. QED
  BY <1>6, <1>7, <1>8, <1>9, <1>10 DEF HandleInv

LEMMA OpenFileInv ==
  ASSUME DedupIInv, IInv', NEW w \in Workers, OpenFile(w)
  PROVE  HandleInv'
<1>1. CASE Finish(w, "nil", "error")
  BY <1>1, FinishInv DEF OpenFile, At, Results
<1>2. CASE ~Finish(w, "nil", "error")
  <2>1. /\ stage[w] = "handle" /\ file[w] \in Files
        /\ UNCHANGED <<stage, file, handled, ref, errors, digestIndex, output>>
    BY <1>2, Holding DEF OpenFile, At, vars, DedupIInv
  <2>2. Contents[file[w]] \in Seq(Records)
    BY <2>1, DedupAssumption
  <2>3. /\ step' \in [Workers -> Steps] /\ step'[w] = "next"
        /\ \A v \in Workers \ {w} : step'[v] = step[v]
    BY <1>2 DEF OpenFile, DedupIInv, HandleInv, DedupTypeOK, Steps
  <2>4. /\ rest' \in [Workers -> Seq(Records)] /\ rest'[w] = Contents[file[w]]
        /\ \A v \in Workers \ {w} : rest'[v] = rest[v]
    BY <1>2, <2>2 DEF OpenFile, DedupIInv, HandleInv, DedupTypeOK
  <2>5. DedupTypeOK'
    BY <2>1, <2>3, <2>4 DEF DedupIInv, HandleInv, DedupTypeOK, IInv
  <2>6. WorkInv'
    BY <2>1, <2>3, <2>4 DEF DedupIInv, HandleInv, WorkInv, At, Now
  <2>7. WrittenInv'
    <3>1. \A q : Written(q)' <=> Written(q)
      BY <2>1 DEF Written
    <3>2. \A q \in RecordsOf(file[w]) : \E i \in DOMAIN rest'[w] : rest'[w][i] = q
      BY <2>4 DEF RecordsOf
    <3>3. QED
      BY <2>1, <2>3, <2>4, <3>1, <3>2 DEF DedupIInv, HandleInv, WrittenInv
  <2>8. IndexMatches' /\ RevisitsMatch'
    BY <2>1 DEF DedupIInv, HandleInv, IndexMatches, RevisitsMatch
  <2>9. ~At(w, "write")
    BY <1>2 DEF OpenFile, At
  <2>10. \A t : Backed(t) => Backed(t)'
    BY <2>1, <2>3, <2>4, <2>9, BackedFrame
  <2>11. ASSUME NEW v \in Workers, At(v, "write")'
         PROVE  v # w /\ At(v, "write") /\ ref'[v] = ref[v]
    BY <2>1, <2>3, <2>11 DEF At
  <2>12. BackedInv'
    BY <2>1, <2>10, <2>11 DEF DedupIInv, HandleInv, BackedInv, Backed
  <2>13. QED
    BY <2>5, <2>6, <2>7, <2>8, <2>12 DEF HandleInv
<1>3. QED
  BY <1>1, <1>2

LEMMA NextRecordInv ==
  ASSUME DedupIInv, IInv', NEW w \in Workers, NextRecord(w)
  PROVE  HandleInv'
<1>1. CASE Finish(w, Result(w), "error")
  BY <1>1, FinishInv DEF NextRecord, At, Result, Results
<1>2. CASE ~Finish(w, Result(w), "error")
  <2>1. /\ stage[w] = "handle" /\ step[w] = "next" /\ rest[w] # <<>>
        /\ UNCHANGED <<stage, file, handled, rest, digestIndex, output>>
    BY <1>2 DEF NextRecord, At, vars
  <2>2. PICK s \in {"index", "write"} :
          /\ step' = [step EXCEPT ![w] = s]
          /\ s = "index" => Digest[Now(w)] # NoDigest
    BY <1>2 DEF NextRecord, Candidate
  <2>3. /\ step' \in [Workers -> Steps] /\ step'[w] = s
        /\ \A v \in Workers \ {w} : step'[v] = step[v]
    BY <2>2 DEF DedupIInv, HandleInv, DedupTypeOK, Steps
  <2>4. /\ ref' \in [Workers -> Records \cup {NoRecord}] /\ ref'[w] = NoRecord
        /\ \A v \in Workers \ {w} : ref'[v] = ref[v]
        /\ errors' \in [Workers -> BOOLEAN]
    BY <1>2 DEF NextRecord, DedupIInv, HandleInv, DedupTypeOK
  <2>5. DedupTypeOK'
    BY <2>1, <2>3, <2>4 DEF DedupIInv, HandleInv, DedupTypeOK, IInv
  <2>6. WorkInv'
    BY <2>1, <2>2, <2>3, <2>4 DEF DedupIInv, HandleInv, WorkInv, At, Now
  <2>7. WrittenInv'
    BY <2>1, <2>3 DEF DedupIInv, HandleInv, WrittenInv, Written
  <2>8. IndexMatches' /\ RevisitsMatch'
    BY <2>1 DEF DedupIInv, HandleInv, IndexMatches, RevisitsMatch
  <2>9. ~At(w, "write")
    BY <2>1 DEF At
  <2>10. \A t : Backed(t) => Backed(t)'
    BY <2>1, <2>3, <2>4, <2>9, BackedFrame
  <2>11. BackedInv'
    BY <2>1, <2>3, <2>4, <2>10 DEF DedupIInv, HandleInv, BackedInv, Backed, At, Now
  <2>12. QED
    BY <2>5, <2>6, <2>7, <2>8, <2>11 DEF HandleInv
<1>3. QED
  BY <1>1, <1>2

LEMMA EndOfFileInv ==
  ASSUME DedupIInv, IInv', NEW w \in Workers, EndOfFile(w)
  PROVE  HandleInv'
<1>1. \A q \in RecordsOf(file[w]) : Written(q)
  BY DEF EndOfFile, At, DedupIInv, HandleInv, WrittenInv
<1>2. QED
  BY <1>1, FinishInv DEF EndOfFile, At, Result, Results

LEMMA IsRevisitInv ==
  ASSUME DedupIInv, IInv', NEW w \in Workers, IsRevisit(w)
  PROVE  HandleInv'
<1> DEFINE r == Now(w)
           d == Digest[r]
           known == digestIndex[d]
<1>1. /\ stage[w] = "handle" /\ step[w] = "index" /\ rest[w] # <<>>
      /\ d # NoDigest /\ ref[w] = NoRecord
      /\ UNCHANGED <<stage, file, handled, rest, output>>
  BY DEF IsRevisit, At, vars, DedupIInv, HandleInv, WorkInv
<1>2. r \in Records
  BY <1>1 DEF DedupIInv, HandleInv, DedupTypeOK, Now
<1>3. d \in Digests
  BY <1>1, <1>2, DedupAssumption
<1>4. known \in Records \cup {NoRecord}
  BY <1>3 DEF DedupIInv, HandleInv, DedupTypeOK
<1>5. /\ step' \in [Workers -> Steps] /\ step'[w] = "write"
      /\ \A v \in Workers \ {w} : step'[v] = step[v]
  BY DEF IsRevisit, DedupIInv, HandleInv, DedupTypeOK, Steps
<1>6. errors' \in [Workers -> BOOLEAN]
  BY DEF IsRevisit, DedupIInv, HandleInv, DedupTypeOK
<1>7. PICK t \in {known, NoRecord} : ref' = [ref EXCEPT ![w] = t]
  <2>1. ref = [ref EXCEPT ![w] = NoRecord]
    BY <1>1 DEF DedupIInv, HandleInv, DedupTypeOK
  <2>2. CASE UNCHANGED ref
    BY <2>1, <2>2
  <2>3. CASE ~UNCHANGED ref
    BY <2>3 DEF IsRevisit
  <2>4. QED
    BY <2>2, <2>3
<1>8. /\ ref' \in [Workers -> Records \cup {NoRecord}] /\ ref'[w] = t
      /\ \A v \in Workers \ {w} : ref'[v] = ref[v]
  BY <1>4, <1>7 DEF DedupIInv, HandleInv, DedupTypeOK
<1>9. \E u \in Records \cup {NoRecord} :
        /\ digestIndex' = [digestIndex EXCEPT ![d] = u]
        /\ u = known \/ (known = NoRecord /\ u = r)
  <2>1. digestIndex = [digestIndex EXCEPT ![d] = known]
    BY <1>3 DEF DedupIInv, HandleInv, DedupTypeOK
  <2>2. CASE UNCHANGED digestIndex
    BY <1>4, <2>1, <2>2
  <2>3. CASE ~UNCHANGED digestIndex
    BY <1>2, <1>4, <2>3 DEF IsRevisit
  <2>4. QED
    BY <2>2, <2>3
<1>10. /\ digestIndex' \in [Digests -> Records \cup {NoRecord}]
       /\ digestIndex'[d] = known \/ (known = NoRecord /\ digestIndex'[d] = r)
       /\ \A c \in Digests \ {d} : digestIndex'[c] = digestIndex[c]
  <2> HIDE DEF r, d, known
  <2>1. digestIndex \in [Digests -> Records \cup {NoRecord}]
    BY DEF DedupIInv, HandleInv, DedupTypeOK
  <2>2. QED
    BY <1>3, <1>9, <2>1
<1> HIDE DEF r, d, known
<1>11. DedupTypeOK'
  <2>1. TypeOK' /\ rest' \in [Workers -> Seq(Records)]
        /\ output' \subseteq [of : Records, refersTo : Records \cup {NoRecord}]
    BY <1>1 DEF DedupIInv, HandleInv, DedupTypeOK, IInv
  <2>2. QED
    BY <1>5, <1>6, <1>8, <1>10, <2>1 DEF DedupTypeOK
<1>12. known # NoRecord => Digest[known] = d
  BY <1>3 DEF DedupIInv, HandleInv, IndexMatches, known
<1>13. WorkInv'
  BY <1>1, <1>5, <1>8, <1>12 DEF DedupIInv, HandleInv, WorkInv, At, Now, r, d
<1>14. WrittenInv'
  BY <1>1, <1>5 DEF DedupIInv, HandleInv, WrittenInv, Written
<1>15. IndexMatches'
  BY <1>3, <1>10, <1>12 DEF DedupIInv, HandleInv, IndexMatches, d
<1>16. RevisitsMatch'
  BY <1>1 DEF DedupIInv, HandleInv, RevisitsMatch
<1>17. BackedInv'
  <2>1. ~At(w, "write")
    BY <1>1 DEF At
  <2>2. \A s : Backed(s) => Backed(s)'
    BY <1>1, <1>5, <1>8, <2>1, BackedFrame
  <2>3. Now(w)' = r /\ At(w, "write")'
    BY <1>1, <1>5 DEF Now, At, r
  <2>4. ASSUME NEW v \in Workers \ {w}, At(v, "write")'
        PROVE  At(v, "write") /\ ref'[v] = ref[v]
    BY <1>1, <1>5, <1>8, <2>4 DEF At
  <2>5. ASSUME "write" \notin Faults, "crash" \notin Faults, known # NoRecord
        PROVE  \A s : s = known => Backed(s)'
    BY <1>3, <2>2, <2>5 DEF DedupIInv, HandleInv, BackedInv, known
  <2>6. known = NoRecord => \A s : s = r => Backed(s)'
    BY <1>7, <1>8, <2>3 DEF Backed
  <2>7. SUFFICES ASSUME "write" \notin Faults, "crash" \notin Faults
        PROVE  /\ \A c \in Digests : digestIndex'[c] # NoRecord =>
                    \A s : s = digestIndex'[c] => Backed(s)'
               /\ \A v \in Workers : At(v, "write")' /\ ref'[v] # NoRecord =>
                    \A s : s = ref'[v] => Backed(s)'
               /\ \A e \in output' : e.refersTo # NoRecord =>
                    \A s : s = e.refersTo => Backed(s)'
    BY DEF BackedInv, Backed
  <2>8. ASSUME NEW c \in Digests, digestIndex'[c] # NoRecord
        PROVE  \A s : s = digestIndex'[c] => Backed(s)'
    <3>1. CASE c # d
      BY <1>10, <2>2, <2>7, <2>8, <3>1 DEF DedupIInv, HandleInv, BackedInv
    <3>2. CASE c = d /\ digestIndex'[d] = known
      BY <2>5, <2>7, <2>8, <3>2
    <3>3. CASE c = d /\ digestIndex'[d] # known
      BY <1>10, <2>6, <3>3
    <3>4. QED
      BY <3>1, <3>2, <3>3
  <2>9. ASSUME NEW v \in Workers, At(v, "write")', ref'[v] # NoRecord
        PROVE  \A s : s = ref'[v] => Backed(s)'
    BY <1>8, <2>2, <2>4, <2>5, <2>7, <2>9 DEF DedupIInv, HandleInv, BackedInv
  <2>10. ASSUME NEW e \in output', e.refersTo # NoRecord
         PROVE  \A s : s = e.refersTo => Backed(s)'
    BY <1>1, <2>2, <2>7, <2>10 DEF DedupIInv, HandleInv, BackedInv
  <2>11. QED
    BY <2>8, <2>9, <2>10
<1>18. QED
  BY <1>11, <1>13, <1>14, <1>15, <1>16, <1>17 DEF HandleInv

LEMMA WriteRecordInv ==
  ASSUME DedupIInv, IInv', NEW w \in Workers, WriteRecord(w)
  PROVE  HandleInv'
<1>1. CASE "write" \in Faults /\ Finish(w, Result(w), "error") /\ UNCHANGED output
  BY <1>1, FinishInv DEF WriteRecord, Result, Results
<1>2. CASE ~("write" \in Faults /\ Finish(w, Result(w), "error") /\ UNCHANGED output)
  <2> DEFINE r == Now(w)
  <2>1. /\ stage[w] = "handle" /\ step[w] = "write" /\ rest[w] # <<>>
        /\ UNCHANGED <<stage, file, handled, ref, errors, digestIndex>>
    BY <1>2 DEF WriteRecord, At, vars, DedupIInv, HandleInv, WorkInv
  <2>2. /\ r \in Records /\ r = rest[w][1]
        /\ Tail(rest[w]) \in Seq(Records)
        /\ \A i \in DOMAIN rest[w] :
             i # 1 => i - 1 \in DOMAIN Tail(rest[w]) /\ Tail(rest[w])[i - 1] = rest[w][i]
    BY <2>1 DEF DedupIInv, HandleInv, DedupTypeOK, Now
  <2>3. /\ step' \in [Workers -> Steps] /\ step'[w] = "next"
        /\ \A v \in Workers \ {w} : step'[v] = step[v]
    BY <1>2 DEF WriteRecord, DedupIInv, HandleInv, DedupTypeOK, Steps
  <2>4. /\ rest' \in [Workers -> Seq(Records)] /\ rest'[w] = Tail(rest[w])
        /\ \A v \in Workers \ {w} : rest'[v] = rest[v]
    BY <1>2, <2>2 DEF WriteRecord, DedupIInv, HandleInv, DedupTypeOK
  <2>5. ref[w] \in Records \cup {NoRecord}
    BY DEF DedupIInv, HandleInv, DedupTypeOK
  <2>6. output' = output \cup {Entry(r, ref[w])}
    BY <1>2 DEF WriteRecord
  <2>7. DedupTypeOK'
    BY <2>1, <2>2, <2>3, <2>4, <2>5, <2>6 DEF DedupIInv, HandleInv, DedupTypeOK, IInv, Entry
  <2>8. WorkInv'
    BY <2>1, <2>3, <2>4 DEF DedupIInv, HandleInv, WorkInv, At, Now
  <2>9. WrittenInv'
    <3>1. \A q : Written(q) => Written(q)'
      BY <2>6 DEF Written
    <3>2. \A q : q = r => Written(q)'
      <4>1. Entry(r, ref[w]) \in output' /\ Entry(r, ref[w]).of = r
        BY <2>6 DEF Entry
      <4>2. QED
        BY <4>1 DEF Written
    <3>3. ASSUME NEW q \in RecordsOf(file[w])
          PROVE  Written(q)' \/ \E i \in DOMAIN rest'[w] : rest'[w][i] = q
      <4>1. Written(q) \/ \E i \in DOMAIN rest[w] : rest[w][i] = q
        BY <2>1 DEF DedupIInv, HandleInv, WrittenInv
      <4>2. QED
        BY <2>2, <2>4, <3>1, <3>2, <4>1
    <3>4. \A f \in handled' : \A q \in RecordsOf(f) : Written(q)'
      BY <2>1, <3>1 DEF DedupIInv, HandleInv, WrittenInv
    <3>5. ASSUME NEW v \in Workers, stage'[v] = "handle", step'[v] # "open",
                 NEW q \in RecordsOf(file'[v])
          PROVE  Written(q)' \/ \E i \in DOMAIN rest'[v] : rest'[v][i] = q
      <4>1. CASE v = w
        BY <2>1, <3>3, <3>5, <4>1
      <4>2. CASE v # w
        BY <2>1, <2>3, <2>4, <3>1, <3>5, <4>2 DEF DedupIInv, HandleInv, WrittenInv
      <4>3. QED
        BY <4>1, <4>2
    <3>6. QED
      BY <3>4, <3>5 DEF WrittenInv
  <2>10. IndexMatches'
    BY <2>1 DEF DedupIInv, HandleInv, IndexMatches
  <2>11. RevisitsMatch'
    BY <2>1, <2>6 DEF DedupIInv, HandleInv, RevisitsMatch, WorkInv, At, Entry, Candidate
  <2>12. BackedInv'
    <3>1. \A s : Backed(s) => Backed(s)'
      BY <2>1, <2>3, <2>4, <2>6, BackedFrame DEF Full
    <3>2. At(w, "write") /\ Entry(r, ref[w]).refersTo = ref[w]
      BY <2>1 DEF At, Entry
    <3>3. ASSUME NEW v \in Workers, At(v, "write")' PROVE At(v, "write")
      BY <2>1, <2>3, <3>3 DEF At
    <3>4. SUFFICES ASSUME "write" \notin Faults, "crash" \notin Faults
          PROVE  /\ \A c \in Digests : digestIndex'[c] # NoRecord =>
                      \A s : s = digestIndex'[c] => Backed(s)'
                 /\ \A v \in Workers : At(v, "write")' /\ ref'[v] # NoRecord =>
                      \A s : s = ref'[v] => Backed(s)'
                 /\ \A e \in output' : e.refersTo # NoRecord =>
                      \A s : s = e.refersTo => Backed(s)'
      BY DEF BackedInv, Backed
    <3>5. QED
      BY <2>1, <2>6, <3>1, <3>2, <3>3, <3>4 DEF DedupIInv, HandleInv, BackedInv
  <2>13. QED
    BY <2>7, <2>8, <2>9, <2>10, <2>11, <2>12 DEF HandleInv
<1>3. QED
  BY <1>1, <1>2

\* What happens around the handler does not touch what it is doing.
LEMMA WrapInv ==
  ASSUME DedupIInv, IInv', NEW w \in Workers, WrapNext(w), UNCHANGED dedupVars
  PROVE  HandleInv'
<1>1. /\ handled' = handled
      /\ \A v \in Workers : stage[v] = "handle" => stage'[v] = "handle" /\ file'[v] = file[v]
      /\ \A v \in Workers : stage'[v] = "handle" => \/ stage[v] = "handle"
                                                    \/ step[v] = "open"
  <2>1. \A v \in Workers : stage[v] # "handle" => step[v] = "open"
    BY DEF DedupIInv, HandleInv, WorkInv
  <2>2. UNCHANGED handled /\ \A v \in Workers \ {w} : stage'[v] = stage[v] /\ file'[v] = file[v]
    BY DEF WrapNext, Begin, GetFileStats, OpenInputFileHook, CloseInputFileHook, SaveFileStats,
       Report, Goto, GotoWith, DedupIInv, IInv, TypeOK
  <2>3. stage[w] # "handle"
    BY DEF WrapNext, Begin, GetFileStats, OpenInputFileHook, CloseInputFileHook, SaveFileStats,
       Report
  <2>4. QED
    BY <2>1, <2>2, <2>3
<1>2. UNCHANGED <<step, rest, ref, errors, digestIndex, output>>
  BY DEF dedupVars, workVars
<1>3. \A v \in Workers : \A s \in Steps \ {"open"} : At(v, s)' <=> At(v, s)
  BY <1>1, <1>2 DEF At
<1>4. DedupTypeOK'
  BY <1>2 DEF DedupIInv, HandleInv, DedupTypeOK, IInv
<1>5. WorkInv'
  BY <1>1, <1>2, <1>3 DEF DedupIInv, HandleInv, WorkInv, Now, Steps
<1>6. WrittenInv'
  BY <1>1, <1>2 DEF DedupIInv, HandleInv, WrittenInv, Written
<1>7. IndexMatches' /\ RevisitsMatch'
  BY <1>2 DEF DedupIInv, HandleInv, IndexMatches, RevisitsMatch
<1>8. BackedInv'
  BY <1>2, <1>3 DEF DedupIInv, HandleInv, BackedInv, Backed, Now, Steps
<1>9. QED
  BY <1>4, <1>5, <1>6, <1>7, <1>8 DEF HandleInv

\* A later run finds the output as it was, and the index as it was or empty.
LEMMA DedupStartRunInv ==
  ASSUME DedupIInv, IInv', NEW reset \in BOOLEAN, DedupNextRun(reset) \/ DedupCrash(reset)
  PROVE  HandleInv'
<1>1. /\ handled' = handled
      /\ \A v \in Workers : stage'[v] = "idle" /\ step'[v] = "open"
      /\ "crash" \notin Faults => AllIdle
  BY DEF DedupNextRun, DedupCrash, NextRun, Crash, StartRun, DedupStartRun
<1>2. output' = output /\ digestIndex' \in {digestIndex, NoIndex}
  BY DEF DedupNextRun, DedupCrash, DedupStartRun
<1>3. NoIndex \in [Digests -> Records \cup {NoRecord}] /\ \A c \in Digests : NoIndex[c] = NoRecord
  BY DEF NoIndex
<1>4. DedupTypeOK'
  <2>1. DedupStartRun(digestIndex) \/ DedupStartRun(NoIndex)
    BY DEF DedupNextRun, DedupCrash
  <2>2. step' \in [Workers -> Steps] /\ ref' \in [Workers -> Records \cup {NoRecord}]
    BY <2>1 DEF DedupStartRun, Steps
  <2>3. rest' \in [Workers -> Seq(Records)] /\ errors' \in [Workers -> BOOLEAN]
    <3>1. <<>> \in Seq(Records)
      OBVIOUS
    <3>2. QED
      BY <2>1, <3>1 DEF DedupStartRun
  <2>4. QED
    BY <1>2, <1>3, <2>2, <2>3 DEF DedupIInv, HandleInv, DedupTypeOK, IInv
<1>5. WorkInv'
  BY <1>1 DEF WorkInv, At
<1>6. WrittenInv'
  BY <1>1, <1>2 DEF DedupIInv, HandleInv, WrittenInv, Written
<1>7. IndexMatches' /\ RevisitsMatch'
  BY <1>2, <1>3 DEF DedupIInv, HandleInv, IndexMatches, RevisitsMatch
<1>8. BackedInv'
  <2>1. "crash" \notin Faults => \A s : Backed(s) => Full(s) \in output
    BY <1>1 DEF AllIdle, Backed, At
  <2>2. "crash" \notin Faults => \A s : Backed(s) => Backed(s)'
    BY <1>2, <2>1 DEF Backed, Full, Entry
  <2>3. \A v \in Workers : ~At(v, "write")'
    BY <1>1 DEF At
  <2>4. SUFFICES ASSUME "write" \notin Faults, "crash" \notin Faults
        PROVE  /\ \A c \in Digests : digestIndex'[c] # NoRecord =>
                    \A s : s = digestIndex'[c] => Backed(s)'
               /\ \A e \in output' : e.refersTo # NoRecord =>
                    \A s : s = e.refersTo => Backed(s)'
    BY <2>3 DEF BackedInv, Backed
  <2>5. QED
    BY <1>2, <1>3, <2>2, <2>4 DEF DedupIInv, HandleInv, BackedInv
<1>9. QED
  BY <1>4, <1>5, <1>6, <1>7, <1>8 DEF HandleInv

LEMMA DedupStepInv ==
  ASSUME DedupIInv, [DedupNext]_<<vars, dedupVars>>
  PROVE  DedupIInv'
<1>1. IInv'
  BY StepRefines, StepInv DEF DedupIInv
<1>2. ASSUME NEW w \in Workers, HandleFile(w) PROVE HandleInv'
  BY <1>1, <1>2, OpenFileInv, NextRecordInv, EndOfFileInv, IsRevisitInv, WriteRecordInv
     DEF HandleFile
<1>3. ASSUME NEW w \in Workers, WrapNext(w), UNCHANGED dedupVars PROVE HandleInv'
  BY <1>1, <1>3, WrapInv
<1>4. ASSUME NEW reset \in BOOLEAN, DedupNextRun(reset) \/ DedupCrash(reset) PROVE HandleInv'
  BY <1>1, <1>4, DedupStartRunInv
<1>5. CASE UNCHANGED <<vars, dedupVars>>
  <2>1. UNCHANGED <<stage, file, handled, step, rest, ref, errors, digestIndex, output>>
    BY <1>5 DEF vars, dedupVars, workVars
  <2>2. DedupTypeOK' /\ WorkInv' /\ WrittenInv'
    BY <1>1, <2>1 DEF DedupIInv, HandleInv, DedupTypeOK, IInv, WorkInv, WrittenInv, Written, At, Now
  <2>3. IndexMatches' /\ RevisitsMatch' /\ BackedInv'
    BY <2>1 DEF DedupIInv, HandleInv, IndexMatches, RevisitsMatch, BackedInv, Backed, At, Now
  <2>4. QED
    BY <1>1, <2>2, <2>3 DEF DedupIInv, HandleInv
<1>6. QED
  BY <1>1, <1>2, <1>3, <1>4, <1>5 DEF DedupNext, DedupIInv

-----------------------------------------------------------------------------
\* Deduplication is a command like any other: Dedup implements Preposterous.
THEOREM Refinement == DedupSpec => ImplementsPreposterous
<1>1. DedupInit => Init
  BY DEF DedupInit
<1>2. QED
  BY <1>1, StepRefines, PTL DEF DedupSpec, ImplementsPreposterous, Spec

\* The inductive invariant of deduplication.
THEOREM DedupInvariance == DedupSpec => []DedupIInv
BY DedupInitInv, DedupStepInv, PTL DEF DedupSpec

\* Every variable of the handler stays in its type.
THEOREM DedupTypeCorrect == DedupSpec => []DedupTypeOK
<1>1. DedupIInv => DedupTypeOK
  BY DEF DedupIInv, HandleInv
<1>2. QED
  BY DedupInvariance, <1>1, PTL

\* A revisit always stands for a record with the same digest.
THEOREM RevisitsCorrect == DedupSpec => []RevisitsMatch
<1>1. DedupIInv => RevisitsMatch
  BY DEF DedupIInv, HandleInv
<1>2. QED
  BY DedupInvariance, <1>1, PTL

\* When no two inputs share a path, dedup drops nothing, whatever fails and
\* however often it is run again.
THEOREM NothingDropped == ASSUME InjectiveKeys PROVE DedupSpec => []EveryRecordWritten
<1>1. DedupIInv => EveryRecordWritten
  BY DEF DedupIInv, IInv, IndexInv, HandleInv, WrittenInv, Written, EveryRecordWritten
<1>2. QED
  BY DedupInvariance, <1>1, PTL

\* When no two inputs share a path, no write fails and nobody kills the process,
\* no payload is lost.
THEOREM NoPayloadLost ==
  ASSUME InjectiveKeys, "write" \notin Faults, "crash" \notin Faults
  PROVE  DedupSpec => []PayloadKept
<1>1. DedupIInv => PayloadKept
  <2> SUFFICES ASSUME DedupIInv, \A f \in Files : reported[f] \in Saved,
                      NEW f \in Files, NEW r \in RecordsOf(f)
               PROVE  PayloadIn(r)
    BY DEF PayloadKept
  <2>1. r \in Records
    BY DedupAssumption DEF RecordsOf
  <2>2. PICK e \in output : e.of = r
    BY DEF DedupIInv, IInv, IndexInv, HandleInv, WrittenInv, Written
  <2>3. e \in [of : Records, refersTo : Records \cup {NoRecord}]
    BY DEF DedupIInv, HandleInv, DedupTypeOK
  <2>4. CASE e.refersTo = NoRecord
    BY <2>2, <2>3, <2>4 DEF PayloadIn, Full, Entry
  <2>5. CASE e.refersTo # NoRecord
    <3>1. Backed(e.refersTo)
      BY <2>5 DEF DedupIInv, HandleInv, BackedInv
    <3>2. ASSUME NEW w \in Workers PROVE ~At(w, "write")
      BY Holding DEF DedupIInv, IInv, FileInv, At, Saved
    <3>3. Full(e.refersTo) \in output
      BY <3>1, <3>2 DEF Backed
    <3>4. Digest[r] # NoDigest /\ Digest[e.refersTo] = Digest[r]
      BY <2>2, <2>5 DEF DedupIInv, HandleInv, RevisitsMatch, Candidate
    <3>5. QED
      BY <2>3, <2>5, <3>3, <3>4 DEF PayloadIn, Candidate
  <2>6. QED
    BY <2>4, <2>5
<1>2. QED
  BY DedupInvariance, <1>1, PTL

-----------------------------------------------------------------------------
\* A record that is due in full stays so while registered records stay registered.
LEMMA DueStays ==
  ASSUME \A d \in Digests : digestIndex[d] # NoRecord => digestIndex'[d] = digestIndex[d],
         NEW r \in Records, Candidate(r), DueInFull(r)
  PROVE  DueInFull(r)'
<1>1. Digest[r] \in Digests /\ r # NoRecord
  BY DedupAssumption DEF Candidate
<1>2. digestIndex[Digest[r]] # NoRecord
  BY <1>1 DEF DueInFull
<1>3. QED
  BY <1>1, <1>2 DEF DueInFull

\* What must be shown of a step: registered records stay so, and what is now written in
\* full, or about to be, either was about to be before or is due in full.
LEMMA DueFrame ==
  ASSUME DedupIInv, DueInv,
         \A d \in Digests : digestIndex[d] # NoRecord => digestIndex'[d] = digestIndex[d],
         \A r \in Records : Full(r) \in output' /\ Candidate(r) =>
           \/ Full(r) \in output
           \/ \E w \in Workers : At(w, "write") /\ ref[w] = NoRecord /\ Now(w) = r,
         \A w \in Workers : At(w, "write")' /\ ref'[w] = NoRecord =>
           \/ At(w, "write") /\ ref[w] = NoRecord /\ Now(w)' = Now(w)
           \/ \A r \in Records : r = Now(w)' /\ Candidate(r) => DueInFull(r)',
         HandleInv'
  PROVE  DueInv'
<1>1. ASSUME NEW w \in Workers, At(w, "write") PROVE Now(w) \in Records
  BY <1>1 DEF DedupIInv, HandleInv, DedupTypeOK, WorkInv, Now
<1>2. ASSUME NEW w \in Workers, At(w, "write")' PROVE Now(w)' \in Records
  BY <1>2 DEF HandleInv, DedupTypeOK, WorkInv, Now
<1>3. ASSUME NEW r \in Records, Full(r) \in output', Candidate(r) PROVE DueInFull(r)'
  <2>1. DueInFull(r)
    BY <1>3 DEF DueInv, Deduplicated
  <2>2. QED
    BY <1>3, <2>1, DueStays
<1>4. ASSUME NEW w \in Workers, At(w, "write")', ref'[w] = NoRecord, NEW r \in Records,
             r = Now(w)', Candidate(r)
      PROVE  DueInFull(r)'
  <2>1. CASE At(w, "write") /\ ref[w] = NoRecord /\ Now(w)' = Now(w)
    <3>1. DueInFull(r)
      BY <1>4, <2>1 DEF DueInv
    <3>2. QED
      BY <1>4, <3>1, DueStays
  <2>2. CASE ~(At(w, "write") /\ ref[w] = NoRecord /\ Now(w)' = Now(w))
    BY <1>4, <2>2
  <2>3. QED
    BY <2>1, <2>2
<1>5. Deduplicated'
  BY <1>3 DEF Deduplicated, Full, Entry, Candidate
<1>6. ASSUME NEW w \in Workers, At(w, "write")', ref'[w] = NoRecord, Candidate(Now(w))'
      PROVE  DueInFull(Now(w))'
  <2>1. \A r \in Records : r = Now(w)' => DueInFull(r)'
    BY <1>4, <1>6 DEF Candidate
  <2>2. QED
    BY <1>2, <1>6, <2>1 DEF DueInFull
<1>7. QED
  BY <1>5, <1>6 DEF DueInv

LEMMA DueStep ==
  ASSUME IndexStays, "index" \notin Faults, "revisit" \notin Faults,
         DedupIInv, DueInv, [DedupNext]_<<vars, dedupVars>>
  PROVE  DueInv'
<1>0. HandleInv' /\ ret \in [Workers -> [result : Results, err : Errs]]
  BY DedupStepInv DEF DedupIInv, IInv, TypeOK
<1>1. ASSUME NEW w \in Workers, HandleFile(w) PROVE DueInv'
  <2>1. /\ stage' \in [Workers -> Stages] /\ step' \in [Workers -> Steps]
        /\ At(w, step[w])
        /\ \A v \in Workers \ {w} : /\ stage'[v] = stage[v] /\ step'[v] = step[v]
                                    /\ rest'[v] = rest[v] /\ ref'[v] = ref[v]
    <3>1. stage' \in [Workers -> Stages] /\ step' \in [Workers -> Steps]
      BY <1>0, DedupStepInv DEF HandleInv, DedupTypeOK, TypeOK
    <3>2. At(w, step[w])
      BY <1>1 DEF HandleFile, OpenFile, NextRecord, EndOfFile, IsRevisit, WriteRecord, At
    <3>3. \A v \in Workers \ {w} : stage'[v] = stage[v]
      BY <1>1 DEF HandleFile, OpenFile, NextRecord, EndOfFile, IsRevisit, WriteRecord,
         Finish, HandlerReturns, GotoWith, Goto, vars, DedupIInv, IInv, TypeOK
    <3>4. \A v \in Workers \ {w} : step'[v] = step[v] /\ rest'[v] = rest[v] /\ ref'[v] = ref[v]
      BY <1>1 DEF HandleFile, OpenFile, NextRecord, EndOfFile, IsRevisit, WriteRecord,
         Finish, DedupIInv, HandleInv, DedupTypeOK
    <3>5. QED
      BY <3>1, <3>2, <3>3, <3>4
  <2>2. \A v \in Workers \ {w} : (At(v, "write")' <=> At(v, "write")) /\ Now(v)' = Now(v)
    BY <2>1 DEF At, Now
  <2>3. CASE OpenFile(w) \/ EndOfFile(w)
    <3>1. UNCHANGED <<digestIndex, output>> /\ ~At(w, "write")'
      BY <2>1, <2>3 DEF OpenFile, EndOfFile, Finish, HandlerReturns, GotoWith, Goto, At,
         DedupIInv, HandleInv, DedupTypeOK
    <3>2. QED
      BY <1>0, <2>1, <2>2, <3>1, DueFrame
  <2>4. CASE NextRecord(w)
    <3>1. UNCHANGED <<digestIndex, output>>
      BY <2>4 DEF NextRecord
    <3>2. At(w, "write")' => ~Candidate(Now(w)) /\ Now(w)' = Now(w)
      BY <2>4 DEF NextRecord, Finish, At, Now, DedupIInv, HandleInv, DedupTypeOK
    <3>3. QED
      BY <1>0, <2>1, <2>2, <3>1, <3>2, DueFrame
  <2>5. CASE IsRevisit(w)
    <3> DEFINE r == Now(w)
               d == Digest[r]
               known == digestIndex[d]
    <3>1. r \in Records /\ d \in Digests /\ Now(w)' = r /\ UNCHANGED output
      BY <2>5, DedupAssumption DEF IsRevisit, At, Now, DedupIInv, HandleInv, DedupTypeOK, WorkInv
    <3>2. /\ digestIndex' = [digestIndex EXCEPT ![d] = IF known = NoRecord THEN r ELSE known]
          /\ ref' = [ref EXCEPT ![w] = IF known # NoRecord /\ Gains(r, known) THEN known ELSE NoRecord]
      BY <2>5, Zenon DEF IsRevisit
    <3>3. /\ digestIndex'[d] = (IF known = NoRecord THEN r ELSE known)
          /\ \A c \in Digests \ {d} : digestIndex'[c] = digestIndex[c]
          /\ ref'[w] = NoRecord => known = NoRecord \/ ~Gains(r, known)
      <4> HIDE DEF r, d, known
      <4>1. ref \in [Workers -> Records \cup {NoRecord}]
            /\ digestIndex \in [Digests -> Records \cup {NoRecord}]
        BY DEF DedupIInv, HandleInv, DedupTypeOK
      <4>2. QED
        BY <3>1, <3>2, <4>1
    <3>4. ref'[w] = NoRecord => DueInFull(r)'
      BY <3>1, <3>3 DEF DueInFull, Gains
    <3>5. \A c \in Digests : digestIndex[c] # NoRecord => digestIndex'[c] = digestIndex[c]
      BY <3>3
    <3>6. ASSUME ref'[w] = NoRecord PROVE \A q \in Records : q = Now(w)' => DueInFull(q)'
      BY <3>1, <3>4, <3>6
    <3>7. QED
      BY <1>0, <2>1, <2>2, <3>1, <3>5, <3>6, DueFrame
  <2>6. CASE WriteRecord(w)
    <3>1. UNCHANGED digestIndex /\ ~At(w, "write")'
      BY <2>1, <2>6 DEF WriteRecord, Finish, HandlerReturns, GotoWith, Goto, At,
         DedupIInv, HandleInv, DedupTypeOK
    <3>2. output' \subseteq output \cup {Entry(Now(w), ref[w])}
      BY <2>6 DEF WriteRecord
    <3>3. \A r \in Records : Full(r) = Entry(Now(w), ref[w]) => ref[w] = NoRecord /\ Now(w) = r
      BY DEF Full, Entry
    <3>4. At(w, "write")
      BY <2>6 DEF WriteRecord
    <3>5. QED
      BY <1>0, <2>1, <2>2, <3>1, <3>2, <3>3, <3>4, DueFrame
  <2>7. QED
    BY <1>1, <2>3, <2>4, <2>5, <2>6 DEF HandleFile
<1>2. ASSUME NEW w \in Workers, WrapNext(w), UNCHANGED dedupVars PROVE DueInv'
  <2>1. UNCHANGED <<step, rest, ref, digestIndex, output>>
    BY <1>2 DEF dedupVars, workVars
  <2>2. \A v \in Workers : stage[v] # "handle" => step[v] = "open"
    BY DEF DedupIInv, HandleInv, WorkInv
  <2>3. \A v \in Workers : At(v, "write")' => At(v, "write") /\ Now(v)' = Now(v)
    BY <2>1, <2>2 DEF At, Now
  <2>4. QED
    BY <1>0, <2>1, <2>3, DueFrame
<1>3. ASSUME NEW reset \in BOOLEAN, DedupNextRun(reset) \/ DedupCrash(reset) PROVE DueInv'
  <2>1. /\ runs < MaxRuns /\ runs \in 1 .. MaxRuns /\ (reset => MayReset)
        /\ stage' = [w \in Workers |-> "idle"]
    BY <1>3 DEF DedupNextRun, DedupCrash, NextRun, Crash, StartRun, DedupIInv, IInv, TypeOK
  <2>2. KeepIndex /\ ~reset
    BY <2>1, PreposterousAssumption DEF IndexStays
  <2>3. UNCHANGED <<digestIndex, output>>
    BY <1>3, <2>2 DEF DedupNextRun, DedupCrash, DedupStartRun
  <2>4. \A v \in Workers : ~At(v, "write")'
    BY <2>1 DEF At
  <2>5. QED
    BY <1>0, <2>3, <2>4, DueFrame
<1>4. CASE UNCHANGED <<vars, dedupVars>>
  <2>1. UNCHANGED <<stage, step, rest, ref, digestIndex, output>>
    BY <1>4 DEF vars, dedupVars, workVars
  <2>2. \A v \in Workers : At(v, "write")' => At(v, "write") /\ Now(v)' = Now(v)
    BY <2>1 DEF At, Now
  <2>3. QED
    BY <1>0, <2>1, <2>2, DueFrame
<1>5. QED
  BY <1>1, <1>2, <1>3, <1>4 DEF DedupNext

\* While the digest index is kept, and neither it nor the making of a revisit fails, a
\* candidate is written in full only if it is the record registered for its digest or
\* gains nothing from a revisit: also after failed writes, kills and in later runs.
THEOREM Deduplicates ==
  ASSUME IndexStays, "index" \notin Faults, "revisit" \notin Faults
  PROVE  DedupSpec => []Deduplicated
<1>1. DedupInit => DueInv
  BY DEF DedupInit, Init, DueInv, Deduplicated, At
<1>2. DedupIInv /\ DueInv /\ [DedupNext]_<<vars, dedupVars>> => DueInv'
  BY DueStep
<1>3. DueInv => Deduplicated
  BY DEF DueInv
<1>4. QED
  BY DedupInvariance, <1>1, <1>2, <1>3, PTL DEF DedupSpec
=============================================================================
