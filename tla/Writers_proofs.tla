--------------------------- MODULE Writers_proofs ---------------------------
(***************************************************************************)
(* Theorems about Writers, for any number of workers, files and dates,     *)
(* for every command and option, under any faults.                         *)
(***************************************************************************)
EXTENDS Writers, TLAPS

\* handleFile returns, in whichever way: at the end, or with an error.
Leave(w) == stage[w] \in {"record", "namer", "write"} /\ Return(w)

\* The kinds of steps there are.
LEMMA StepCases ==
  ASSUME [Next]_vars
  PROVE  \/ \E w \in Workers :
              \/ OpenFile(w) \/ Leave(w) \/ SkipBroken(w) \/ NextRecord(w) \/ Write(w)
              \/ MakeNamer(w) \/ NewWriter(w)
              \/ Lock(w) \/ Found(w) \/ NotFound(w) \/ Make(w)
         \/ Close
         \/ UNCHANGED vars
BY DEF Next, WorkerNext, Terminated, Leave, ReadError, EndOfFile, MkdirError, WriteError

\* A worker that asks for a writer has a record, which has a date.
LEMMA AskingFacts ==
  ASSUME IInv, NEW w \in Workers, stage[w] \in Asking
  PROVE  /\ file[w] \in Files /\ file[w] \notin todo
         /\ at[w] \in 1 .. Len(Contents[file[w]])
         /\ DateAt(w) \in Dates /\ DirAt(w) \in SubDirs
         /\ Generate(w) \in Namers
<1>1. file[w] \in Files /\ file[w] \notin todo
  BY DEF IInv, FileInv, Asking
<1>2. at[w] \in Nat \ {0} /\ at[w] <= LastOf(file[w]) /\ Contents[file[w]] \in Seq(Dates)
  BY <1>1, WritersAssumption DEF IInv, TypeOK, FileInv
<1>3. at[w] \in 1 .. Len(Contents[file[w]])
  BY <1>2 DEF LastOf
<1>4. DateAt(w) \in Dates
  BY <1>2, <1>3 DEF DateAt
<1>5. DirAt(w) \in SubDirs
  BY <1>4, WritersAssumption DEF DirAt
<1>6. Generate(w) \in Namers
  BY <1>1, <1>4, <1>5 DEF Generate, PathAt, Namers, IInv, TypeOK
<1>7. QED
  BY <1>1, <1>3, <1>4, <1>5, <1>6

\* A record that was written has a file, a place in it, a date and a writer.
LEMMA EntryFacts ==
  ASSUME IInv, NEW e \in output
  PROVE  /\ e.file \in Files /\ e.file \notin todo
         /\ e.at \in Nat \ {0}
         /\ e.by \in 1 .. Len(made)
         /\ DateOf(e) \in Dates /\ SubDir[DateOf(e)] \in SubDirs
<1>1. e \in Entries /\ e.file \notin todo /\ e.at <= LastOf(e.file) /\ e.by <= Len(made)
  BY DEF IInv, TypeOK, FileInv, MadeInv
<1>2. e.file \in Files /\ e.at \in Nat \ {0} /\ e.by \in Nat \ {0}
  BY <1>1 DEF Entries
<1>3. Contents[e.file] \in Seq(Dates)
  BY <1>2, WritersAssumption
<1>4. e.at \in 1 .. Len(Contents[e.file])
  BY <1>1, <1>2, <1>3 DEF LastOf
<1>5. DateOf(e) \in Dates
  BY <1>3, <1>4 DEF DateOf
<1>6. QED
  BY <1>1, <1>2, <1>5, WritersAssumption DEF IInv, TypeOK

\* A new writer gets the next number; the others keep theirs.
LEMMA AppendFacts ==
  ASSUME NEW s \in Seq(Namers), NEW n \in Namers
  PROVE  /\ Append(s, n) \in Seq(Namers)
         /\ Len(s) \in Nat
         /\ Len(Append(s, n)) = Len(s) + 1
         /\ Append(s, n)[Len(s) + 1] = n
         /\ \A i \in 1 .. Len(s) : Append(s, n)[i] = s[i]
OBVIOUS

\* The options of the run never change, so neither does where a file ends.
LEMMA OptionsKept ==
  ASSUME [Next]_vars
  PROVE  /\ UNCHANGED <<command, oneToOne, generator>>
         /\ \A f : LastOf(f)' = LastOf(f)
<1>1. UNCHANGED options
  BY StepCases DEF vars, OpenFile, Leave, Return, SkipBroken, NextRecord, Write,
                   MakeNamer, NewWriter, Lock, Found, NotFound, Make, Close
<1>2. QED
  BY <1>1 DEF options, LastOf

\* Nor does the directory of a record while its worker stays at it.
LEMMA DirKept ==
  \A v \in Workers :
    file'[v] = file[v] /\ at'[v] = at[v] => DirAt(v)' = DirAt(v)
BY DEF DirAt, DateAt

-----------------------------------------------------------------------------
\* Every step keeps the types.
LEMMA TypeStep ==
  ASSUME IInv, [Next]_vars
  PROVE  TypeOK'
<1> USE DEF Stages, vars, options, workerVars, writerVars
<1>0. TypeOK
  BY DEF IInv
<1>1. ASSUME NEW w \in Workers, OpenFile(w) PROVE TypeOK'
  BY <1>0, <1>1 DEF OpenFile, TypeOK
<1>2. ASSUME NEW w \in Workers, Leave(w) PROVE TypeOK'
  <2>1. Deferred(w) \subseteq 1 .. Len(made)
    BY <1>0 DEF Deferred, TypeOK, IInv, MadeInv
  <2>2. /\ stage' \in [Workers -> Stages] /\ file' \in [Workers -> Files \cup {NoFile}]
        /\ at' \in [Workers -> Nat \ {0}] /\ writer' \in [Workers -> Nat]
        /\ namer' \in [Workers -> Namers \cup {NoNamer}]
    BY <1>0, <1>2 DEF Leave, Return, TypeOK
  <2>3. closed' \subseteq 1 .. Len(made')
    BY <1>0, <1>2, <2>1 DEF Leave, Return, TypeOK
  <2>4. QED
    BY <1>0, <1>2, <2>2, <2>3 DEF Leave, Return, TypeOK
<1>3. ASSUME NEW w \in Workers, SkipBroken(w) PROVE TypeOK'
  BY <1>0, <1>3 DEF SkipBroken, TypeOK
<1>4. ASSUME NEW w \in Workers, NextRecord(w) PROVE TypeOK'
  BY <1>0, <1>4 DEF NextRecord, TypeOK
<1>5. ASSUME NEW w \in Workers, Write(w) PROVE TypeOK'
  <2>1. [file |-> file[w], at |-> at[w], by |-> writer[w]] \in Entries
    BY <1>0, <1>5, AskingFacts DEF Write, Asking, Entries, TypeOK, IInv, MadeInv
  <2>2. at' \in [Workers -> Nat \ {0}]
    BY <1>0, <1>5 DEF Write, TypeOK
  <2>3. QED
    BY <1>0, <1>5, <2>1, <2>2 DEF Write, TypeOK
<1>6. ASSUME NEW w \in Workers, MakeNamer(w) PROVE TypeOK'
  BY <1>0, <1>6, AskingFacts DEF MakeNamer, Asking, TypeOK
<1>7. ASSUME NEW w \in Workers, NewWriter(w) PROVE TypeOK'
  <2>1. made' \in Seq(Namers) /\ Len(made') = Len(made) + 1 /\ Len(made) \in Nat
    BY <1>0, <1>7, AskingFacts, AppendFacts DEF NewWriter, Asking, TypeOK
  <2>2. QED
    BY <1>0, <1>7, <2>1 DEF NewWriter, TypeOK
<1>8. ASSUME NEW w \in Workers, Lock(w) PROVE TypeOK'
  BY <1>0, <1>8 DEF Lock, TypeOK
<1>9. ASSUME NEW w \in Workers, Found(w) PROVE TypeOK'
  BY <1>0, <1>9, AskingFacts DEF Found, Asking, TypeOK
<1>10. ASSUME NEW w \in Workers, NotFound(w) PROVE TypeOK'
  BY <1>0, <1>10 DEF NotFound, TypeOK
<1>11. ASSUME NEW w \in Workers, Make(w) PROVE TypeOK'
  <2>1. namer[w] \in Namers
    BY <1>11 DEF Make, IInv, MadeInv, InMap
  <2>2. made' \in Seq(Namers) /\ Len(made') = Len(made) + 1 /\ Len(made) \in Nat
    BY <1>0, <1>11, <2>1, AppendFacts DEF Make, TypeOK
  <2>3. writers' \in [SubDirs -> Nat] /\ writer' \in [Workers -> Nat] /\ lock' = NoWorker
    <3>1. /\ writers' = [writers EXCEPT ![DirAt(w)] = Len(made) + 1]
          /\ writer' = [writer EXCEPT ![w] = Len(made) + 1]
          /\ lock' = NoWorker
      BY <1>11 DEF Make
    <3>2. writers \in [SubDirs -> Nat] /\ writer \in [Workers -> Nat] /\ Len(made) + 1 \in Nat
      BY <1>0, <2>2 DEF TypeOK
    <3>3. QED
      BY <3>1, <3>2
  <2>4. stage' \in [Workers -> Stages] /\ closed' \subseteq 1 .. Len(made')
    BY <1>0, <1>11, <2>2 DEF Make, TypeOK
  <2>5. UNCHANGED <<command, oneToOne, generator, todo, file, at, namer, defaultNamer,
                    output, shutdown>>
    BY <1>11 DEF Make
  <2>6. QED
    BY <1>0, <2>2, <2>3, <2>4, <2>5 DEF TypeOK
<1>12. CASE Close
  BY <1>0, <1>12 DEF Close, Shared, TypeOK
<1>13. CASE UNCHANGED vars
  BY <1>0, <1>13 DEF TypeOK
<1>14. QED
  BY StepCases, <1>1, <1>2, <1>3, <1>4, <1>5, <1>6, <1>7, <1>8, <1>9, <1>10,
     <1>11, <1>12, <1>13

\* Every step keeps the lock exclusive.
LEMMA LockStep ==
  ASSUME IInv, [Next]_vars
  PROVE  LockInv'
<1> USE DEF LockInv, vars, options, workerVars, writerVars
<1>0. TypeOK /\ LockInv
  BY DEF IInv
<1>1. ASSUME NEW w \in Workers,
             OpenFile(w) \/ Leave(w) \/ SkipBroken(w) \/ NextRecord(w) \/ Write(w)
      PROVE  LockInv'
  BY <1>0, <1>1 DEF OpenFile, Leave, Return, SkipBroken, NextRecord, Write, TypeOK
<1>2. ASSUME NEW w \in Workers, MakeNamer(w) \/ NewWriter(w) \/ NotFound(w)
      PROVE  LockInv'
  BY <1>0, <1>2 DEF MakeNamer, NewWriter, NotFound, TypeOK
<1>3. ASSUME NEW w \in Workers, Lock(w) \/ Found(w) \/ Make(w) PROVE LockInv'
  <2>1. CASE Lock(w)
    BY <1>0, <2>1, WritersAssumption DEF Lock, TypeOK
  <2>2. CASE Found(w) \/ Make(w)
    <3>1. \A v \in Workers \ {w} : stage[v] \notin {"lookup", "make"}
      BY <1>0, <2>2 DEF Found, Make
    <3>2. stage' = [stage EXCEPT ![w] = "write"] /\ shutdown' = shutdown /\ stage[w] # "idle"
      BY <2>2 DEF Found, Make
    <3>3. stage \in [Workers -> Stages]
      BY <1>0 DEF TypeOK
    <3>4. QED
      BY <1>0, <3>1, <3>2, <3>3
  <2>3. QED
    BY <1>3, <2>1, <2>2
<1>4. CASE Close \/ UNCHANGED vars
  BY <1>0, <1>4 DEF Close
<1>5. QED
  BY StepCases, <1>1, <1>2, <1>3, <1>4

\* Every step keeps files apart, and their records in order.
LEMMA FileStep ==
  ASSUME IInv, [Next]_vars
  PROVE  FileInv'
<1> USE DEF FileInv, Asking, vars, options, workerVars, writerVars
<1>0. TypeOK /\ FileInv
  BY DEF IInv
<1>1. ASSUME NEW w \in Workers, OpenFile(w) PROVE FileInv'
  <2>1. PICK f \in todo : todo' = todo \ {f} /\ file' = [file EXCEPT ![w] = f]
    BY <1>1 DEF OpenFile
  <2>2. f \in Files /\ \A v \in Workers : file[v] # f
    BY <1>0, <2>1, WritersAssumption DEF TypeOK
  <2>3. \A e \in output : e.file # f
    BY <1>0, <2>1
  <2>4. QED
    BY <1>0, <1>1, <2>1, <2>2, <2>3, OptionsKept, WritersAssumption DEF OpenFile, TypeOK
<1>2. ASSUME NEW w \in Workers, Leave(w) PROVE FileInv'
  <2>1. \A e \in output : e.file \in Files
    BY EntryFacts
  <2>2. QED
    BY <1>0, <1>2, <2>1, OptionsKept, WritersAssumption DEF Leave, Return, TypeOK
<1>3. ASSUME NEW w \in Workers, SkipBroken(w) PROVE FileInv'
  BY <1>0, <1>3, OptionsKept, EntryFacts DEF SkipBroken, TypeOK
<1>4. ASSUME NEW w \in Workers, NextRecord(w) PROVE FileInv'
  BY <1>0, <1>4, OptionsKept DEF NextRecord, TypeOK
<1>5. ASSUME NEW w \in Workers, Write(w) PROVE FileInv'
  <2> DEFINE new == [file |-> file[w], at |-> at[w], by |-> writer[w]]
  <2>1. /\ output' = output \cup {new} /\ new.file = file[w] /\ new.at = at[w]
        /\ at' = [at EXCEPT ![w] = at[w] + 1]
        /\ stage' = [stage EXCEPT ![w] = "record"] /\ stage[w] = "write"
        /\ UNCHANGED <<todo, file, writer>>
    BY <1>5 DEF Write
  <2>2. file[w] \in Files /\ file[w] \notin todo /\ at[w] <= LastOf(file[w])
    BY <1>0, <2>1
  <2>3. at \in [Workers -> Nat \ {0}] /\ stage \in [Workers -> Stages]
    BY <1>0 DEF TypeOK
  <2>4. /\ \A v \in Workers : stage'[v] = "idle" => file'[v] = NoFile /\ writer'[v] = 0 /\ at'[v] = 1
        /\ \A v \in Workers : stage'[v] # "idle" => file'[v] \in Files \ todo'
        /\ \A u, v \in Workers : file'[u] = file'[v] /\ file'[v] # NoFile => u = v
        /\ \A v \in Workers : stage'[v] \in Asking => at'[v] <= LastOf(file'[v])
    BY <1>0, <2>1, <2>2, <2>3
  <2>5. \A e \in output' : e.file \notin todo' /\ e.at <= LastOf(e.file)
    BY <1>0, <2>1, <2>2
  <2>6. \A e \in output' : \A v \in Workers : file'[v] = e.file => e.at < at'[v]
    <3>1. ASSUME NEW e \in output, NEW v \in Workers, file[v] = e.file PROVE e.at < at'[v]
      BY <1>0, <2>1, <2>3, <3>1, EntryFacts
    <3>2. ASSUME NEW v \in Workers, file[v] = file[w] PROVE at[w] < at'[v]
      <4>1. v = w
        BY <1>0, <2>2, <3>2, WritersAssumption
      <4>2. QED
        BY <2>1, <2>3, <4>1
    <3>3. QED
      BY <2>1, <3>1, <3>2
  <2>7. QED
    BY <2>4, <2>5, <2>6, OptionsKept
<1>6. ASSUME NEW w \in Workers, MakeNamer(w) \/ NewWriter(w) PROVE FileInv'
  BY <1>0, <1>6, OptionsKept DEF MakeNamer, NewWriter, TypeOK
<1>7. ASSUME NEW w \in Workers, Lock(w) \/ Found(w) \/ NotFound(w) \/ Make(w) PROVE FileInv'
  BY <1>0, <1>7, OptionsKept DEF Lock, Found, NotFound, Make, TypeOK
<1>8. CASE Close \/ UNCHANGED vars
  BY <1>0, <1>8, OptionsKept DEF Close
<1>9. QED
  BY StepCases, <1>1, <1>2, <1>3, <1>4, <1>5, <1>6, <1>7, <1>8

\* Every step keeps the numbers of writers in range.
LEMMA MadeStep ==
  ASSUME IInv, [Next]_vars
  PROVE  MadeInv'
<1> USE DEF MadeInv, InMap, vars, options, workerVars, writerVars
<1>0. TypeOK /\ MadeInv
  BY DEF IInv
<1>1. ASSUME NEW w \in Workers,
             OpenFile(w) \/ Leave(w) \/ SkipBroken(w) \/ Lock(w) \/ NotFound(w)
      PROVE  MadeInv'
  <2>1. CASE OpenFile(w) \/ SkipBroken(w)
    BY <1>0, <2>1 DEF OpenFile, SkipBroken, TypeOK
  <2>2. CASE Leave(w)
    BY <1>0, <2>2 DEF Leave, Return, TypeOK
  <2>3. CASE Lock(w) \/ NotFound(w)
    BY <1>0, <2>3 DEF Lock, NotFound, TypeOK
  <2>4. QED
    BY <1>1, <2>1, <2>2, <2>3
<1>2. ASSUME NEW w \in Workers, NextRecord(w) PROVE MadeInv'
  BY <1>0, <1>2 DEF NextRecord, TypeOK
<1>3. ASSUME NEW w \in Workers, Write(w) PROVE MadeInv'
  BY <1>0, <1>3 DEF Write, TypeOK
<1>4. ASSUME NEW w \in Workers, MakeNamer(w) PROVE MadeInv'
  BY <1>0, <1>4, AskingFacts DEF MakeNamer, Asking, TypeOK
<1>5. ASSUME NEW w \in Workers, NewWriter(w) PROVE MadeInv'
  <2>1. Len(made') = Len(made) + 1 /\ Len(made) \in Nat
    BY <1>0, <1>5, AskingFacts, AppendFacts DEF NewWriter, Asking, TypeOK
  <2>2. \A e \in output : e.by \in Nat
    BY EntryFacts
  <2>3. QED
    BY <1>0, <1>5, <2>1, <2>2 DEF NewWriter, TypeOK
<1>6. ASSUME NEW w \in Workers, Found(w) PROVE MadeInv'
  BY <1>0, <1>6, AskingFacts DEF Found, Asking, TypeOK
<1>7. ASSUME NEW w \in Workers, Make(w) PROVE MadeInv'
  <2>1. Len(made') = Len(made) + 1 /\ Len(made) \in Nat
    BY <1>0, <1>7, AppendFacts DEF Make, TypeOK
  <2>2. \A e \in output : e.by \in Nat
    BY EntryFacts
  <2>3. /\ writers' = [writers EXCEPT ![DirAt(w)] = Len(made) + 1]
        /\ writer' = [writer EXCEPT ![w] = Len(made) + 1]
        /\ stage' = [stage EXCEPT ![w] = "write"]
        /\ UNCHANGED <<namer, output>>
    BY <1>7 DEF Make
  <2>4. /\ writers \in [SubDirs -> Nat] /\ writer \in [Workers -> Nat]
        /\ stage \in [Workers -> Stages]
    BY <1>0 DEF TypeOK
  <2>5. QED
    BY <1>0, <2>1, <2>2, <2>3, <2>4
<1>8. CASE Close \/ UNCHANGED vars
  BY <1>0, <1>8 DEF Close
<1>9. QED
  BY StepCases, <1>1, <1>2, <1>3, <1>4, <1>5, <1>6, <1>7, <1>8

\* Without --one-to-one every step keeps the map complete and one-to-one.
LEMMA SharedStep ==
  ASSUME IInv, [Next]_vars
  PROVE  SharedInv'
<1> SUFFICES ASSUME ~oneToOne PROVE SharedInv'
  BY OptionsKept DEF SharedInv
<1> USE DEF vars, options, workerVars, writerVars
<1>0. TypeOK /\ LockInv /\ SharedInv
  BY DEF IInv
<1>1. ASSUME NEW w \in Workers, OpenFile(w) \/ SkipBroken(w) \/ NextRecord(w)
      PROVE  SharedInv'
  <2>1. /\ stage' \in [Workers -> Stages] /\ stage'[w] \in {"record", "namer"}
        /\ \A v \in Workers \ {w} : stage'[v] = stage[v] /\ DirAt(v)' = DirAt(v)
        /\ UNCHANGED <<oneToOne, writer, writers, made, output, closed, shutdown>>
    BY <1>0, <1>1, DirKept DEF OpenFile, SkipBroken, NextRecord, TypeOK, Stages
  <2>2. QED
    BY <1>0, <2>1 DEF SharedInv
<1>2. ASSUME NEW w \in Workers, Leave(w) PROVE SharedInv'
  <2>1. /\ stage'[w] = "idle"
        /\ \A v \in Workers \ {w} :
             stage'[v] = stage[v] /\ DirAt(v)' = DirAt(v) /\ writer'[v] = writer[v]
        /\ UNCHANGED <<oneToOne, writers, made, output, closed, shutdown>>
    BY <1>0, <1>2, DirKept DEF Leave, Return, Deferred, TypeOK
  <2>2. QED
    BY <1>0, <2>1 DEF SharedInv
<1>3. ASSUME NEW w \in Workers, Write(w) PROVE SharedInv'
  <2> DEFINE new == [file |-> file[w], at |-> at[w], by |-> writer[w]]
  <2>1. /\ stage'[w] = "record"
        /\ \A v \in Workers \ {w} : stage'[v] = stage[v] /\ DirAt(v)' = DirAt(v)
        /\ UNCHANGED <<oneToOne, writer, writers, made, closed, shutdown>>
        /\ output' = output \cup {new}
    BY <1>0, <1>3, DirKept DEF Write, TypeOK
  <2>2. new.by = writers[SubDir[DateOf(new)]]
    BY <1>0, <1>3 DEF Write, SharedInv, DirAt, DateAt, DateOf
  <2>3. QED
    BY <1>0, <2>1, <2>2 DEF SharedInv
<1>4. ASSUME NEW w \in Workers, MakeNamer(w) \/ NewWriter(w) \/ Lock(w) PROVE SharedInv'
  <2>1. /\ stage'[w] \in {"lock", "lookup"}
        /\ \A v \in Workers \ {w} : stage'[v] = stage[v]
        /\ \A v \in Workers : DirAt(v)' = DirAt(v)
        /\ UNCHANGED <<oneToOne, writer, writers, made, output, closed, shutdown>>
    BY <1>0, <1>4, DirKept DEF MakeNamer, NewWriter, Lock, TypeOK
  <2>2. QED
    BY <1>0, <2>1 DEF SharedInv
<1>5. ASSUME NEW w \in Workers, Found(w) \/ NotFound(w) PROVE SharedInv'
  <2>1. /\ \/ stage'[w] = "write" /\ writer'[w] = writers[DirAt(w)]
           \/ stage'[w] = "make" /\ writers[DirAt(w)] = 0
        /\ \A v \in Workers \ {w} : stage'[v] = stage[v] /\ writer'[v] = writer[v]
        /\ \A v \in Workers : DirAt(v)' = DirAt(v)
        /\ UNCHANGED <<oneToOne, writers, made, output, closed, shutdown>>
    BY <1>0, <1>5, DirKept DEF Found, NotFound, TypeOK
  <2>2. QED
    BY <1>0, <2>1 DEF SharedInv
<1>6. ASSUME NEW w \in Workers, Make(w) PROVE SharedInv'
  <2> DEFINE n == Len(made) + 1
  <2>1. /\ DirAt(w) \in SubDirs /\ writers[DirAt(w)] = 0
        /\ \A v \in Workers \ {w} : stage[v] # "make"
        /\ ~shutdown
    BY <1>0, <1>6, AskingFacts DEF Make, Asking, SharedInv, LockInv
  <2>2. Len(made') = n /\ Len(made) \in Nat
    BY <1>0, <1>6, AppendFacts DEF Make, TypeOK, IInv, MadeInv, InMap
  <2>3. /\ stage'[w] = "write" /\ writer'[w] = n /\ writers'[DirAt(w)] = n
        /\ \A v \in Workers \ {w} : stage'[v] = stage[v] /\ writer'[v] = writer[v]
        /\ \A s \in SubDirs \ {DirAt(w)} : writers'[s] = writers[s]
        /\ \A v \in Workers : DirAt(v)' = DirAt(v)
        /\ UNCHANGED <<oneToOne, output, closed, shutdown>>
    BY <1>0, <1>6, <2>1, DirKept DEF Make, TypeOK
  <2>4. \A s \in SubDirs : writers[s] \in 0 .. Len(made)
    BY <1>0, <2>2 DEF TypeOK, IInv, MadeInv
  <2>5. \A i \in 1 .. Len(made') : \E s \in SubDirs : writers'[s] = i
    <3>1. ASSUME NEW i \in 1 .. Len(made) PROVE \E s \in SubDirs : writers'[s] = i
      BY <1>0, <2>1, <2>2, <2>3 DEF SharedInv
    <3>2. \A i \in 1 .. Len(made') : i \in 1 .. Len(made) \/ i = n
      BY <2>2
    <3>3. QED
      BY <2>1, <2>3, <3>1, <3>2
  <2>6. \A s, t \in SubDirs : writers'[s] = writers'[t] /\ writers'[s] # 0 => s = t
    BY <1>0, <2>2, <2>3, <2>4 DEF SharedInv
  <2>7. \A v \in Workers : stage'[v] = "write" => writer'[v] = writers'[DirAt(v)']
    <3>1. ASSUME NEW v \in Workers \ {w}, stage[v] = "write" PROVE DirAt(v) # DirAt(w)
      BY <1>0, <2>1, <3>1 DEF SharedInv, IInv, MadeInv
    <3>2. \A v \in Workers \ {w} : stage[v] = "write" => DirAt(v) \in SubDirs
      BY AskingFacts DEF Asking
    <3>3. QED
      BY <1>0, <2>3, <3>1, <3>2 DEF SharedInv
  <2>8. \A e \in output' : e.by = writers'[SubDir[DateOf(e)]]
    BY <1>0, <2>1, <2>3, EntryFacts DEF SharedInv
  <2>9. QED
    BY <1>0, <2>1, <2>3, <2>5, <2>6, <2>7, <2>8 DEF SharedInv
<1>7. CASE Close
  BY <1>0, <1>7 DEF Close, Shared, SharedInv, DirAt, DateAt
<1>8. CASE UNCHANGED vars
  BY <1>0, <1>8 DEF SharedInv, DirAt, DateAt
<1>9. QED
  BY StepCases, <1>1, <1>2, <1>3, <1>4, <1>5, <1>6, <1>7, <1>8

\* Every step keeps the directories of the shared writers.
LEMMA DirStep ==
  ASSUME IInv, [Next]_vars
  PROVE  DirInv'
<1> SUFFICES ASSUME ~oneToOne, generator # "default" PROVE DirInv'
  BY OptionsKept DEF DirInv
<1> USE DEF vars, options, workerVars, writerVars, InMap
<1>0. TypeOK /\ DirInv
  BY DEF IInv
<1>1. ASSUME NEW w \in Workers,
             OpenFile(w) \/ Leave(w) \/ SkipBroken(w) \/ NextRecord(w) \/ Write(w)
      PROVE  DirInv'
  <2>1. /\ stage'[w] \notin InMap
        /\ \A v \in Workers \ {w} :
             stage'[v] = stage[v] /\ DirAt(v)' = DirAt(v) /\ namer'[v] = namer[v]
        /\ UNCHANGED <<writers, made>>
    BY <1>0, <1>1, DirKept DEF OpenFile, Leave, Return, SkipBroken, NextRecord, Write, TypeOK
  <2>2. QED
    BY <1>0, <2>1 DEF DirInv
<1>2. ASSUME NEW w \in Workers, MakeNamer(w) PROVE DirInv'
  BY <1>0, <1>2, DirKept DEF MakeNamer, Generate, TypeOK, DirInv
<1>3. ASSUME NEW w \in Workers, NewWriter(w) PROVE DirInv'
  BY <1>3 DEF NewWriter
<1>4. ASSUME NEW w \in Workers, Lock(w) \/ Found(w) \/ NotFound(w) PROVE DirInv'
  BY <1>0, <1>4, DirKept DEF Lock, Found, NotFound, TypeOK, DirInv
<1>5. ASSUME NEW w \in Workers, Make(w) PROVE DirInv'
  <2>1. /\ made' \in Seq(Namers) /\ Len(made) \in Nat /\ made'[Len(made) + 1] = namer[w]
        /\ \A i \in 1 .. Len(made) : made'[i] = made[i]
    BY <1>0, <1>5, AppendFacts DEF Make, TypeOK, IInv, MadeInv
  <2>2. /\ namer[w].dir = DirAt(w) /\ DirAt(w) \in SubDirs
    BY <1>0, <1>5, AskingFacts DEF Make, DirInv, Asking
  <2>3. /\ stage'[w] = "write" /\ writers'[DirAt(w)] = Len(made) + 1
        /\ \A s \in SubDirs \ {DirAt(w)} : writers'[s] = writers[s]
        /\ \A v \in Workers \ {w} : stage'[v] = stage[v]
        /\ \A v \in Workers : DirAt(v)' = DirAt(v)
        /\ UNCHANGED namer
    BY <1>0, <1>5, <2>2, DirKept DEF Make, TypeOK
  <2>4. \A s \in SubDirs : writers[s] \in 0 .. Len(made)
    BY <1>0, <2>1 DEF TypeOK, IInv, MadeInv
  <2>5. QED
    BY <1>0, <2>1, <2>2, <2>3, <2>4 DEF DirInv
<1>6. CASE Close \/ UNCHANGED vars
  BY <1>0, <1>6 DEF Close, DirInv, DirAt, DateAt
<1>7. QED
  BY StepCases, <1>1, <1>2, <1>3, <1>4, <1>5, <1>6

\* With --one-to-one every step keeps writers with their files and workers.
LEMMA OwnStep ==
  ASSUME IInv, [Next]_vars
  PROVE  OwnInv'
<1> SUFFICES ASSUME oneToOne PROVE OwnInv'
  BY OptionsKept DEF OwnInv
<1> USE DEF vars, options, workerVars, writerVars
<1>0. TypeOK /\ LockInv /\ FileInv /\ MadeInv /\ OwnInv
  BY DEF IInv
<1>1. ASSUME NEW w \in Workers, OpenFile(w) PROVE OwnInv'
  <2>1. PICK f \in todo : file' = [file EXCEPT ![w] = f]
    BY <1>1 DEF OpenFile
  <2>2. /\ writer[w] = 0 /\ stage' = [stage EXCEPT ![w] = "record"]
        /\ UNCHANGED <<options, at, writer, writers, made, closed, output>>
    BY <1>0, <1>1 DEF OpenFile, FileInv
  <2>3. \A e \in output : e.file # f /\ e.by # 0
    BY <2>1, EntryFacts
  <2>4. \A e \in output : \A v \in Workers : file'[v] = e.file <=> writer'[v] = e.by
    BY <1>0, <2>1, <2>2, <2>3 DEF OwnInv, TypeOK
  <2>5. QED
    BY <1>0, <2>1, <2>2, <2>4, OptionsKept DEF OwnInv, TypeOK, InMap
<1>2. ASSUME NEW w \in Workers, Leave(w) PROVE OwnInv'
  <2>1. /\ stage' = [stage EXCEPT ![w] = "idle"] /\ file' = [file EXCEPT ![w] = NoFile]
        /\ at' = [at EXCEPT ![w] = 1] /\ writer' = [writer EXCEPT ![w] = 0]
        /\ closed' = closed \cup Deferred(w)
        /\ UNCHANGED <<options, writers, made, output>>
    BY <1>2 DEF Leave, Return
  <2>2. /\ stage \in [Workers -> Stages] /\ file \in [Workers -> Files \cup {NoFile}]
        /\ at \in [Workers -> Nat \ {0}] /\ writer \in [Workers -> Nat]
        /\ closed \subseteq 1 .. Len(made)
    BY <1>0 DEF TypeOK
  <2>3. \A e \in output : e.file # NoFile /\ e.by # 0
    BY EntryFacts, WritersAssumption
  <2>4. \A e \in output : \A v \in Workers : file'[v] = e.file <=> writer'[v] = e.by
    BY <1>0, <2>1, <2>2, <2>3 DEF OwnInv
  <2>5. \A u, v \in Workers : writer'[u] = writer'[v] /\ writer'[u] # 0 => u = v
    BY <1>0, <2>1, <2>2 DEF OwnInv
  <2>6. \A v \in Workers : writer'[v] \notin closed'
    BY <1>0, <2>1, <2>2 DEF OwnInv, Deferred
  <2>7. command = "warc" => \A i \in 1 .. Len(made) :
          i \in closed' \/ \E v \in Workers : writer'[v] = i
    <3>1. ASSUME command = "warc", NEW i \in 1 .. Len(made), i \notin closed'
          PROVE  \E v \in Workers : writer'[v] = i
      <4>1. PICK v \in Workers : writer[v] = i
        BY <1>0, <2>1, <3>1 DEF OwnInv
      <4>2. v # w
        BY <2>1, <3>1, <4>1 DEF Deferred
      <4>3. QED
        BY <2>1, <2>2, <4>1, <4>2
    <3>2. QED
      BY <3>1
  <2>8. /\ \A v \in Workers : stage'[v] \notin InMap
        /\ \A v \in Workers : stage'[v] = "namer" => writer'[v] = 0
        /\ command = "nedlib" => \A v \in Workers :
             stage'[v] = "record" /\ writer'[v] # 0 => at'[v] > LastOf(file'[v])
    BY <1>0, <2>1, <2>2 DEF OwnInv, InMap
  <2>9. QED
    BY <1>0, <2>1, <2>4, <2>5, <2>6, <2>7, <2>8, OptionsKept DEF OwnInv
<1>3. ASSUME NEW w \in Workers, SkipBroken(w) PROVE OwnInv'
  BY <1>0, <1>3, OptionsKept DEF SkipBroken, OwnInv, TypeOK
<1>4. ASSUME NEW w \in Workers, NextRecord(w) PROVE OwnInv'
  <2>1. writer[w] # 0 => command = "warc"
    BY <1>0, <1>4 DEF NextRecord, OwnInv, TypeOK, Commands, LastOf, FileInv
  <2>2. /\ stage' = [stage EXCEPT ![w] = IF writer[w] # 0 THEN "write" ELSE "namer"]
        /\ UNCHANGED <<options, file, at, writer, writers, made, closed, output>>
    BY <1>4, <2>1 DEF NextRecord
  <2>3. QED
    BY <1>0, <2>2, OptionsKept DEF OwnInv, TypeOK, InMap
<1>5. ASSUME NEW w \in Workers, Write(w) PROVE OwnInv'
  <2> DEFINE new == [file |-> file[w], at |-> at[w], by |-> writer[w]]
  <2>1. /\ output' = output \cup {new} /\ new.file = file[w] /\ new.by = writer[w]
        /\ at' = [at EXCEPT ![w] = at[w] + 1]
        /\ stage' = [stage EXCEPT ![w] = "record"] /\ stage[w] = "write"
        /\ UNCHANGED <<options, file, writer, writers, made, closed>>
    BY <1>5 DEF Write
  <2>2. file[w] \in Files /\ file[w] # NoFile /\ writer[w] # 0
    BY <1>0, <2>1, WritersAssumption DEF FileInv, MadeInv
  <2>3. at \in [Workers -> Nat \ {0}] /\ stage \in [Workers -> Stages]
    BY <1>0 DEF TypeOK
  <2>4. \A d \in output : d.by = new.by <=> d.file = new.file
    BY <1>0, <2>1 DEF OwnInv
  <2>5. \A v \in Workers : file[v] = new.file <=> writer[v] = new.by
    BY <1>0, <2>1, <2>2 DEF OwnInv, FileInv
  <2>6. /\ \A d, e \in output' : d.by = e.by <=> d.file = e.file
        /\ \A e \in output' : \A v \in Workers : file'[v] = e.file <=> writer'[v] = e.by
    BY <1>0, <2>1, <2>4, <2>5 DEF OwnInv
  <2>7. command = "nedlib" => at'[w] > LastOf(file[w])
    <3>1. at'[w] = at[w] + 1 /\ at[w] \in Nat \ {0}
      BY <2>1, <2>3
    <3>2. Contents[file[w]] \in Seq(Dates)
      BY <2>2, WritersAssumption
    <3>3. command = "nedlib" => LastOf(file[w]) <= 1 /\ LastOf(file[w]) \in Nat
      BY <3>2 DEF LastOf
    <3>4. QED
      BY <3>1, <3>3
  <2>8. /\ \A v \in Workers : stage'[v] \notin InMap
        /\ \A v \in Workers : stage'[v] = "namer" => writer'[v] = 0
        /\ command = "nedlib" => \A v \in Workers :
             stage'[v] = "record" /\ writer'[v] # 0 => at'[v] > LastOf(file'[v])
    BY <1>0, <2>1, <2>3, <2>7 DEF OwnInv, InMap
  <2>9. QED
    BY <1>0, <2>1, <2>6, <2>8, OptionsKept DEF OwnInv
<1>6. ASSUME NEW w \in Workers, NewWriter(w) PROVE OwnInv'
  <2> DEFINE n == Len(made) + 1
  <2>1. Len(made') = n /\ Len(made) \in Nat
    BY <1>0, <1>6, AskingFacts, AppendFacts DEF NewWriter, Asking, TypeOK
  <2>2. /\ writer' = [writer EXCEPT ![w] = n] /\ writer[w] = 0
        /\ stage' = [stage EXCEPT ![w] = "write"]
        /\ UNCHANGED <<options, file, at, writers, closed, output>>
    BY <1>0, <1>6 DEF NewWriter, OwnInv
  <2>3. /\ writer \in [Workers -> Nat] /\ stage \in [Workers -> Stages]
        /\ closed \subseteq 1 .. Len(made)
        /\ \A v \in Workers : writer[v] <= Len(made)
    BY <1>0 DEF TypeOK, MadeInv
  <2>4. \A e \in output : e.by \in 1 .. Len(made) /\ file[w] # e.file
    BY <1>0, <2>2, EntryFacts DEF OwnInv
  <2>5. \A e \in output : \A v \in Workers : file[v] = e.file <=> writer'[v] = e.by
    BY <1>0, <2>1, <2>2, <2>3, <2>4 DEF OwnInv
  <2>6. \A u, v \in Workers : writer'[u] = writer'[v] /\ writer'[u] # 0 => u = v
    BY <1>0, <2>1, <2>2, <2>3 DEF OwnInv
  <2>7. \A v \in Workers : writer'[v] \notin closed
    BY <1>0, <2>1, <2>2, <2>3 DEF OwnInv
  <2>8. command = "warc" => \A i \in 1 .. Len(made') :
          i \in closed \/ \E v \in Workers : writer'[v] = i
    <3>1. ASSUME command = "warc", NEW i \in 1 .. Len(made), i \notin closed
          PROVE  \E v \in Workers : writer'[v] = i
      <4>1. PICK v \in Workers : writer[v] = i
        BY <1>0, <3>1 DEF OwnInv
      <4>2. QED
        BY <2>1, <2>2, <2>3, <4>1
    <3>2. writer'[w] = n
      BY <2>2, <2>3
    <3>3. \A i \in 1 .. Len(made') : i \in 1 .. Len(made) \/ i = n
      BY <2>1
    <3>4. QED
      BY <3>1, <3>2, <3>3
  <2>9. /\ \A v \in Workers : stage'[v] \notin InMap
        /\ \A v \in Workers : stage'[v] = "namer" => writer'[v] = 0
        /\ command = "nedlib" => \A v \in Workers :
             stage'[v] = "record" /\ writer'[v] # 0 => at'[v] > LastOf(file'[v])
    BY <1>0, <2>2, <2>3 DEF OwnInv, InMap
  <2>10. QED
    BY <1>0, <2>2, <2>5, <2>6, <2>7, <2>8, <2>9, OptionsKept DEF OwnInv
<1>7. ASSUME NEW w \in Workers,
             MakeNamer(w) \/ Lock(w) \/ Found(w) \/ NotFound(w) \/ Make(w)
      PROVE  OwnInv'
  BY <1>0, <1>7 DEF MakeNamer, Lock, Found, NotFound, Make, OwnInv, InMap
<1>8. CASE Close
  <2>1. Shared = {}
    BY <1>0 DEF Shared, OwnInv
  <2>2. QED
    BY <1>0, <1>8, <2>1, OptionsKept DEF Close, OwnInv
<1>9. CASE UNCHANGED vars
  BY <1>0, <1>9, OptionsKept DEF OwnInv
<1>10. QED
  BY StepCases, <1>1, <1>2, <1>3, <1>4, <1>5, <1>6, <1>7, <1>8, <1>9

\* With --one-to-one every step keeps the directory of a file's first record.
LEMMA FirstStep ==
  ASSUME IInv, [Next]_vars
  PROVE  FirstInv'
<1> SUFFICES ASSUME oneToOne PROVE FirstInv'
  BY OptionsKept DEF FirstInv
<1> USE DEF vars, options, workerVars, writerVars
<1>0. TypeOK /\ FileInv /\ MadeInv /\ OwnInv /\ FirstInv
  BY DEF IInv
<1>1. ASSUME NEW w \in Workers,
             OpenFile(w) \/ Leave(w) \/ SkipBroken(w) \/ NextRecord(w)
      PROVE  FirstInv'
  <2>1. /\ \A v \in Workers \ {w} :
             /\ stage'[v] = stage[v] /\ writer'[v] = writer[v] /\ file'[v] = file[v]
             /\ DirAt(v)' = DirAt(v)
        /\ stage'[w] = "record" /\ writer'[w] # 0 => stage[w] = "record" /\ writer[w] # 0 /\ file'[w] = file[w]
        /\ stage'[w] = "write" => stage[w] = "record" /\ writer[w] # 0 /\ file'[w] = file[w]
        /\ UNCHANGED <<made, output>>
    BY <1>0, <1>1, DirKept
       DEF OpenFile, Leave, Return, SkipBroken, NextRecord, TypeOK, FileInv
  <2>2. QED
    BY <1>0, <2>1 DEF FirstInv, First
<1>2. ASSUME NEW w \in Workers, Write(w) PROVE FirstInv'
  <2> DEFINE new == [file |-> file[w], at |-> at[w], by |-> writer[w]]
  <2>1. /\ output' = output \cup {new}
        /\ new.file = file[w] /\ new.at = at[w] /\ new.by = writer[w]
        /\ stage'[w] = "record" /\ stage[w] = "write"
        /\ \A v \in Workers \ {w} : stage'[v] = stage[v] /\ DirAt(v)' = DirAt(v)
        /\ UNCHANGED <<made, file, writer>>
    BY <1>0, <1>2, DirKept DEF Write, TypeOK
  <2>2. at[w] \in Nat \ {0} /\ \A e \in output : e.at \in Nat \ {0}
    BY <1>0, EntryFacts DEF TypeOK
  <2>3. \A e \in output : e.file = file[w] => e.at < at[w] /\ e.by = writer[w]
    BY <1>0 DEF FileInv, OwnInv
  <2>4. ASSUME NEW e \in output PROVE First(e)'
    <3>1. PICK d \in output :
            /\ d.file = e.file /\ made[e.by].dir = SubDir[DateOf(d)]
            /\ \A c \in output : c.file = e.file => d.at <= c.at
      BY <1>0 DEF FirstInv, First
    <3>2. new.file = e.file => d.at <= new.at
      BY <2>1, <2>2, <2>3, <3>1
    <3>3. QED
      BY <2>1, <3>1, <3>2 DEF First
  <2>5. ASSUME NEW e \in output', e = new PROVE First(e)'
    <3>1. CASE \E d \in output : d.file = file[w]
      <4>1. PICK d \in output : d.file = file[w]
        BY <3>1
      <4>2. d.by = e.by /\ d.file = e.file
        BY <2>1, <2>3, <2>5, <4>1
      <4>3. QED
        BY <2>1, <2>4, <4>2 DEF First
    <3>2. CASE \A d \in output : d.file # file[w]
      <4>1. made[e.by].dir = SubDir[DateOf(e)]
        BY <1>0, <2>1, <2>5, <3>2 DEF FirstInv, DirAt, DateAt, DateOf
      <4>2. \A c \in output' : c.file = e.file => c = e
        BY <2>1, <2>5, <3>2
      <4>3. e.at <= e.at
        BY <2>1, <2>2, <2>5
      <4>4. QED
        BY <2>1, <4>1, <4>2, <4>3 DEF First
    <3>3. QED
      BY <3>1, <3>2
  <2>6. \A e \in output' : First(e)'
    BY <2>1, <2>4, <2>5
  <2>7. QED
    BY <1>0, <2>1, <2>6 DEF FirstInv
<1>3. ASSUME NEW w \in Workers, NewWriter(w) PROVE FirstInv'
  <2>1. /\ made' = Append(made, Generate(w)) /\ Generate(w).dir = DirAt(w)
        /\ Generate(w) \in Namers /\ made \in Seq(Namers)
    BY <1>0, <1>3, AskingFacts DEF NewWriter, Asking, Generate, OwnInv, TypeOK
  <2>2. /\ made'[Len(made) + 1].dir = DirAt(w)
        /\ Len(made) \in Nat
        /\ \A i \in 1 .. Len(made) : made'[i] = made[i]
    BY <2>1, AppendFacts
  <2>3. /\ stage'[w] = "write" /\ writer'[w] = Len(made) + 1
        /\ \A v \in Workers \ {w} : stage'[v] = stage[v] /\ writer'[v] = writer[v]
        /\ \A v \in Workers : DirAt(v)' = DirAt(v)
        /\ UNCHANGED <<output, file>>
    BY <1>0, <1>3, DirKept DEF NewWriter, TypeOK
  <2>4. \A e \in output : made'[e.by] = made[e.by]
    BY <2>2, EntryFacts
  <2>5. \A v \in Workers : stage[v] = "write" => made'[writer[v]] = made[writer[v]]
    BY <1>0, <2>2 DEF TypeOK, MadeInv
  <2>6. \A e \in output' : First(e)'
    BY <1>0, <2>3, <2>4 DEF FirstInv, First
  <2>7. QED
    BY <1>0, <2>2, <2>3, <2>5, <2>6 DEF FirstInv
<1>4. ASSUME NEW w \in Workers,
             MakeNamer(w) \/ Lock(w) \/ Found(w) \/ NotFound(w) \/ Make(w)
      PROVE  FirstInv'
  BY <1>0, <1>4 DEF MakeNamer, Lock, Found, NotFound, Make, OwnInv, InMap
<1>5. CASE Close \/ UNCHANGED vars
  BY <1>0, <1>5, DirKept DEF Close, FirstInv, First
<1>6. QED
  BY StepCases, <1>1, <1>2, <1>3, <1>4, <1>5

-----------------------------------------------------------------------------
\* The invariant holds of every initial state.
LEMMA InitInv == Init => IInv
<1> SUFFICES ASSUME Init PROVE IInv
  OBVIOUS
<1> USE WritersAssumption DEF Init
<1>1. TypeOK
  <2>1. generator \in Generators /\ command \in Commands
    BY DEF Generators
  <2>2. made \in Seq(Namers) /\ closed = {} /\ output = {}
    OBVIOUS
  <2>3. /\ stage \in [Workers -> Stages] /\ file \in [Workers -> Files \cup {NoFile}]
        /\ at \in [Workers -> Nat \ {0}] /\ writer \in [Workers -> Nat]
        /\ namer \in [Workers -> Namers \cup {NoNamer}] /\ writers \in [SubDirs -> Nat]
    BY DEF Stages
  <2>4. QED
    BY <2>1, <2>2, <2>3 DEF TypeOK
<1>2. LockInv /\ FileInv /\ MadeInv
  BY DEF LockInv, FileInv, Asking, MadeInv, InMap
<1>3. SharedInv /\ DirInv
  BY DEF SharedInv, DirInv, InMap
<1>4. OwnInv /\ FirstInv
  BY DEF OwnInv, FirstInv, InMap
<1>5. QED
  BY <1>1, <1>2, <1>3, <1>4 DEF IInv

\* IInv is an invariant: the shared writers and the one-to-one writers are
\* where GetWarcWriter and the handlers keep them, and nowhere else.
THEOREM WritersInvariance == Spec => []IInv
<1>1. IInv /\ [Next]_vars => IInv'
  BY TypeStep, LockStep, FileStep, MadeStep, SharedStep, DirStep, OwnStep, FirstStep DEF IInv
<1>2. QED
  BY InitInv, <1>1, PTL DEF Spec

\* Every variable stays in its type.
THEOREM WritersTypeCorrect == Spec => []TypeOK
<1>1. IInv => TypeOK
  BY DEF IInv
<1>2. QED
  BY WritersInvariance, <1>1, PTL

\* Whatever fails and in whatever order the workers reach GetWarcWriter, every
\* writer that was made is closed at the end (convert nedlib --one-to-one apart).
THEOREM AllWritersClosed == Spec => []EveryWriterClosed
<1>1. IInv => EveryWriterClosed
  <2>1. SUFFICES ASSUME IInv, shutdown, ~(oneToOne /\ command = "nedlib")
                 PROVE  closed = 1 .. Len(made)
    BY DEF EveryWriterClosed
  <2>2. CASE ~oneToOne
    BY <2>1, <2>2 DEF IInv, SharedInv
  <2>3. CASE oneToOne
    <3>1. command = "warc" /\ \A w \in Workers : writer[w] = 0
      BY <2>1, <2>3 DEF IInv, TypeOK, Commands, LockInv, FileInv
    <3>2. 1 .. Len(made) \subseteq closed
      BY <2>1, <2>3, <3>1 DEF IInv, OwnInv
    <3>3. QED
      BY <2>1, <3>2 DEF IInv, TypeOK
  <2>4. QED
    BY <2>2, <2>3
<1>2. QED
  BY WritersInvariance, <1>1, PTL

\* A handler never finds the writer it holds closed by somebody else.
THEOREM NoWriteAfterClose == Spec => []WriterInUseIsOpen
<1>1. IInv => WriterInUseIsOpen
  <2>1. SUFFICES ASSUME IInv, NEW w \in Workers, stage[w] = "write"
                 PROVE  writer[w] \in (1 .. Len(made)) \ closed
    BY DEF WriterInUseIsOpen
  <2>2. writer[w] \in 1 .. Len(made)
    BY <2>1 DEF IInv, TypeOK, MadeInv
  <2>3. ~shutdown
    BY <2>1 DEF IInv, LockInv
  <2>4. writer[w] \notin closed
    BY <2>1, <2>3 DEF IInv, SharedInv, OwnInv
  <2>5. QED
    BY <2>2, <2>4
<1>2. QED
  BY WritersInvariance, <1>1, PTL

\* One writer for each input file, or else for each sub-directory.
THEOREM OneWriterEach == Spec => []OneWriterPerTarget
<1>1. IInv => OneWriterPerTarget
  <2>1. SUFFICES ASSUME IInv, NEW d \in output, NEW e \in output
                 PROVE  d.by = e.by <=> IF oneToOne THEN d.file = e.file
                                        ELSE SubDir[DateOf(d)] = SubDir[DateOf(e)]
    BY DEF OneWriterPerTarget
  <2>2. d.by # 0 /\ SubDir[DateOf(d)] \in SubDirs /\ SubDir[DateOf(e)] \in SubDirs
    BY <2>1, EntryFacts
  <2>3. QED
    BY <2>1, <2>2 DEF IInv, SharedInv, OwnInv
<1>2. QED
  BY WritersInvariance, <1>1, PTL

\* With a generator of its own each record lands in the directory of its date.
THEOREM DatedDirectories == Spec => []WrittenWhereDated
<1>1. IInv => WrittenWhereDated
  <2>1. SUFFICES ASSUME IInv, generator # "default", NEW e \in output
                 PROVE  IF oneToOne THEN First(e)
                        ELSE made[e.by].dir = SubDir[DateOf(e)]
    BY DEF WrittenWhereDated, First
  <2>2. e.by # 0 /\ SubDir[DateOf(e)] \in SubDirs
    BY <2>1, EntryFacts
  <2>3. QED
    BY <2>1, <2>2 DEF IInv, SharedInv, DirInv, FirstInv
<1>2. QED
  BY WritersInvariance, <1>1, PTL
=============================================================================
