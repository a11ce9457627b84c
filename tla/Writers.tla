------------------------------ MODULE Writers -------------------------------
(***************************************************************************)
(* Where the records of dedup and convert {warc,arc,nedlib} are written:   *)
(* the writers that a run shares, one per sub-directory (GetWarcWriter and *)
(* Close in internal/warcwriterconfig), or one writer per input file       *)
(* (--one-to-one), under the loop over records that the four handlers have *)
(* in common.                                                              *)
(*                                                                         *)
(* A record is known by its date, and a date by the sub-directory that     *)
(* --subdir-pattern makes of it.  Which command runs, and with which       *)
(* options, is chosen in the initial state.  The writers themselves are    *)
(* gowarc's: here a writer is a number, and made[i] is the directory and   *)
(* the path that the names of its files are made from.                     *)
(***************************************************************************)
EXTENDS Integers, Sequences, FiniteSets

CONSTANTS
  Workers,
  NoWorker,
  Files,          \* input files
  NoFile,
  Dates,          \* dates of records
  SubDirs,        \* sub-directories of the output directory
  SubDir,         \* [Dates -> SubDirs]: parseSubdirPattern
  Contents,       \* [Files -> Seq(Dates)]: the records of each file
  Faults          \* see FaultKinds

FaultKinds == {"read",    \* a file, a record or its date cannot be read
               "broken",  \* so, and --force skips the record
               "mkdir",   \* the output directory cannot be made
               "write"}   \* a record cannot be written

ASSUME WritersAssumption ==
  /\ NoWorker \notin Workers
  /\ NoFile \notin Files
  /\ SubDir \in [Dates -> SubDirs]
  /\ Contents \in [Files -> Seq(Dates)]
  /\ Faults \subseteq FaultKinds

VARIABLES
  command,       \* "warc" (convert warc, convert arc and dedup) or "nedlib"
  oneToOne,      \* --one-to-one
  generator,     \* --name-generator
  todo,          \* the files not yet handed to a worker
  stage,         \* per worker, where it is
  file,          \* per worker, the file it handles
  at,            \* per worker, the position of its next record in that file
  writer,        \* per worker, the writer it uses (0: none)
  namer,         \* per worker, the name generator that GetWarcWriter made
  defaultNamer,  \* the name generator made once in the process
  lock,          \* writersGuard: the worker that holds it
  writers,       \* the shared writers, per sub-directory (0: none)
  made,          \* the name generators of all writers made
  closed,        \* the writers that were closed
  output,        \* the records written, and by which writer
  shutdown       \* Run has closed the shared writers

options    == <<command, oneToOne, generator>>
workerVars == <<stage, file, at, writer, namer>>
writerVars == <<defaultNamer, lock, writers, made>>
vars == <<options, todo, workerVars, writerVars, closed, output, shutdown>>

Commands   == {"warc", "nedlib"}
Generators == {"default", "identity", "nedlib"}

Namers  == [dir : SubDirs, path : Files \cup Dates \cup {NoFile}]
NoNamer == [dir |-> NoFile, path |-> NoFile]

\* The nedlib reader finds one record in a file.
LastOf(f) == IF command = "nedlib" /\ Len(Contents[f]) > 1 THEN 1
             ELSE Len(Contents[f])

\* The date of the record that worker w handles, and of a record written.
DateAt(w)      == Contents[file[w]][at[w]]
DirAt(w)       == SubDir[DateAt(w)]
DateOf(entry)  == Contents[entry.file][entry.at]

\* The generator is overridden by --one-to-one (New).
Init ==
  /\ command \in Commands
  /\ oneToOne \in BOOLEAN
  /\ generator \in IF oneToOne THEN {"identity"} ELSE Generators
  /\ todo = Files
  /\ stage = [w \in Workers |-> "idle"]
  /\ file = [w \in Workers |-> NoFile]
  /\ at = [w \in Workers |-> 1]
  /\ writer = [w \in Workers |-> 0]
  /\ namer = [w \in Workers |-> NoNamer]
  /\ defaultNamer = NoNamer
  /\ lock = NoWorker
  /\ writers = [s \in SubDirs |-> 0]
  /\ made = <<>>
  /\ closed = {}
  /\ output = {}
  /\ shutdown = FALSE

\* What the file names are made from besides the date and a serial number:
\* convert nedlib passes the record's date in the place of a path.
PathAt(w) == IF command = "nedlib" THEN DateAt(w) ELSE file[w]

\* The name generator; the default one is made once, for whoever comes first.
Generate(w) ==
  IF generator # "default" THEN [dir |-> DirAt(w), path |-> PathAt(w)]
  ELSE IF defaultNamer = NoNamer THEN [dir |-> DirAt(w), path |-> NoFile]
  ELSE defaultNamer

-----------------------------------------------------------------------------
(* Deliberately wrong variants of definitions above and below; none is     *)
(* part of Spec.                                                           *)

\* The handler closes its writer also when it shares it with others ...
Deferred_Always(w) == {writer[w]} \ {0}

\* ... or when it never got one.
Deferred_NoNilCheck(w) == IF oneToOne /\ command = "warc" THEN {writer[w]} ELSE {}

\* A writer of its own for each record, also with --one-to-one.
NextRecord_Fresh(w) ==
  /\ stage[w] = "record"
  /\ at[w] <= LastOf(file[w])
  /\ stage' = [stage EXCEPT ![w] = "namer"]
  /\ UNCHANGED <<options, todo, file, at, writer, namer>>
  /\ UNCHANGED <<writerVars, closed, output, shutdown>>

\* The namer is made once whatever the generator.
MakeNamer_Once(w) ==
  /\ stage[w] = "namer"
  /\ ~oneToOne
  /\ defaultNamer' = IF defaultNamer = NoNamer THEN Generate(w) ELSE defaultNamer
  /\ namer' = [namer EXCEPT ![w] = defaultNamer']
  /\ stage' = [stage EXCEPT ![w] = "lock"]
  /\ UNCHANGED <<options, todo, file, at, writer>>
  /\ UNCHANGED <<lock, writers, made, closed, output, shutdown>>

\* Nobody waits for the lock.
Lock_NoWait(w) ==
  /\ stage[w] = "lock"
  /\ lock' = w
  /\ stage' = [stage EXCEPT ![w] = "lookup"]
  /\ UNCHANGED <<options, todo, file, at, writer, namer>>
  /\ UNCHANGED <<defaultNamer, writers, made, closed, output, shutdown>>

-----------------------------------------------------------------------------
(* handleFile.                                                             *)

\* The variable writer that the handler's deferred call closes.  In convert
\* nedlib the loop declares another one of that name, and this stays nil.
Deferred(w) == IF oneToOne /\ command = "warc" THEN {writer[w]} \ {0} ELSE {}

\* handleFile returns, with or without an error.
Return(w) ==
  /\ closed' = closed \cup Deferred(w)
  /\ stage' = [stage EXCEPT ![w] = "idle"]
  /\ file' = [file EXCEPT ![w] = NoFile]
  /\ at' = [at EXCEPT ![w] = 1]
  /\ writer' = [writer EXCEPT ![w] = 0]
  /\ namer' = [namer EXCEPT ![w] = NoNamer]
  /\ UNCHANGED <<options, todo, writerVars, output, shutdown>>

\* A worker takes a file and opens it.
OpenFile(w) ==
  /\ stage[w] = "idle" /\ ~shutdown
  /\ \E f \in todo :
       /\ todo' = todo \ {f}
       /\ file' = [file EXCEPT ![w] = f]
  /\ stage' = [stage EXCEPT ![w] = "record"]
  /\ UNCHANGED <<options, at, writer, namer, writerVars, closed, output, shutdown>>

\* The file cannot be opened, or its next record or that record's date not read.
ReadError(w) ==
  /\ stage[w] = "record"
  /\ "read" \in Faults
  /\ Return(w)

\* convert warc --force goes on after a record it cannot read.
SkipBroken(w) ==
  /\ stage[w] = "record"
  /\ at[w] <= LastOf(file[w])
  /\ "broken" \in Faults /\ command = "warc"
  /\ at' = [at EXCEPT ![w] = @ + 1]
  /\ UNCHANGED <<options, todo, stage, file, writer, namer>>
  /\ UNCHANGED <<writerVars, closed, output, shutdown>>

\* The next record: a one-to-one writer is used again for all of a file, except
\* by convert nedlib, which finds no other record.
NextRecord(w) ==
  /\ stage[w] = "record"
  /\ at[w] <= LastOf(file[w])
  /\ stage' = [stage EXCEPT ![w] =
       IF oneToOne /\ command = "warc" /\ writer[w] # 0 THEN "write" ELSE "namer"]
  /\ UNCHANGED <<options, todo, file, at, writer, namer>>
  /\ UNCHANGED <<writerVars, closed, output, shutdown>>

EndOfFile(w) ==
  /\ stage[w] = "record"
  /\ at[w] > LastOf(file[w])
  /\ Return(w)

Write(w) ==
  /\ stage[w] = "write"
  /\ output' = output \cup {[file |-> file[w], at |-> at[w], by |-> writer[w]]}
  /\ at' = [at EXCEPT ![w] = @ + 1]
  /\ stage' = [stage EXCEPT ![w] = "record"]
  /\ UNCHANGED <<options, todo, file, writer, namer, writerVars, closed, shutdown>>

WriteError(w) ==
  /\ stage[w] = "write"
  /\ "write" \in Faults
  /\ Return(w)

-----------------------------------------------------------------------------
(* GetWarcWriter.                                                          *)

MkdirError(w) ==
  /\ stage[w] = "namer"
  /\ "mkdir" \in Faults
  /\ Return(w)

\* The shared writers are behind the lock ...
MakeNamer(w) ==
  /\ stage[w] = "namer"
  /\ ~oneToOne
  /\ namer' = [namer EXCEPT ![w] = Generate(w)]
  /\ defaultNamer' = IF generator = "default" THEN Generate(w) ELSE defaultNamer
  /\ stage' = [stage EXCEPT ![w] = "lock"]
  /\ UNCHANGED <<options, todo, file, at, writer>>
  /\ UNCHANGED <<lock, writers, made, closed, output, shutdown>>

\* ... while a one-to-one writer belongs to its caller.
NewWriter(w) ==
  /\ stage[w] = "namer"
  /\ oneToOne
  /\ made' = Append(made, Generate(w))
  /\ writer' = [writer EXCEPT ![w] = Len(made) + 1]
  /\ stage' = [stage EXCEPT ![w] = "write"]
  /\ UNCHANGED <<options, todo, file, at, namer>>
  /\ UNCHANGED <<defaultNamer, lock, writers, closed, output, shutdown>>

Lock(w) ==
  /\ stage[w] = "lock"
  /\ lock = NoWorker
  /\ lock' = w
  /\ stage' = [stage EXCEPT ![w] = "lookup"]
  /\ UNCHANGED <<options, todo, file, at, writer, namer>>
  /\ UNCHANGED <<defaultNamer, writers, made, closed, output, shutdown>>

Found(w) ==
  /\ stage[w] = "lookup"
  /\ writers[DirAt(w)] # 0
  /\ writer' = [writer EXCEPT ![w] = writers[DirAt(w)]]
  /\ lock' = NoWorker
  /\ stage' = [stage EXCEPT ![w] = "write"]
  /\ UNCHANGED <<options, todo, file, at, namer>>
  /\ UNCHANGED <<defaultNamer, writers, made, closed, output, shutdown>>

NotFound(w) ==
  /\ stage[w] = "lookup"
  /\ writers[DirAt(w)] = 0
  /\ stage' = [stage EXCEPT ![w] = "make"]
  /\ UNCHANGED <<options, todo, file, at, writer, namer>>
  /\ UNCHANGED <<writerVars, closed, output, shutdown>>

Make(w) ==
  /\ stage[w] = "make"
  /\ made' = Append(made, namer[w])
  /\ writers' = [writers EXCEPT ![DirAt(w)] = Len(made) + 1]
  /\ writer' = [writer EXCEPT ![w] = Len(made) + 1]
  /\ lock' = NoWorker
  /\ stage' = [stage EXCEPT ![w] = "write"]
  /\ UNCHANGED <<options, todo, file, at, namer>>
  /\ UNCHANGED <<defaultNamer, closed, output, shutdown>>

-----------------------------------------------------------------------------
\* Run closes the shared writers when its workers are gone, be it that all
\* files are handled or that the run was cancelled (BatchRun has the details).
Shared == {i \in 1 .. Len(made) : \E s \in SubDirs : writers[s] = i}

Close ==
  /\ ~shutdown
  /\ \A w \in Workers : stage[w] = "idle"
  /\ closed' = closed \cup Shared
  /\ shutdown' = TRUE
  /\ UNCHANGED <<options, todo, workerVars, writerVars, output>>

Terminated == shutdown /\ UNCHANGED vars

WorkerNext(w) ==
  \/ OpenFile(w) \/ ReadError(w) \/ SkipBroken(w) \/ NextRecord(w) \/ EndOfFile(w)
  \/ MkdirError(w) \/ MakeNamer(w) \/ NewWriter(w)
  \/ Lock(w) \/ Found(w) \/ NotFound(w) \/ Make(w)
  \/ Write(w) \/ WriteError(w)

Next == (\E w \in Workers : WorkerNext(w)) \/ Close \/ Terminated

Spec == Init /\ [][Next]_vars
-----------------------------------------------------------------------------
(* Properties.                                                             *)

Stages  == {"idle", "record", "namer", "lock", "lookup", "make", "write"}
Entries == [file : Files, at : Nat \ {0}, by : Nat \ {0}]

\* Every variable stays in its type.
TypeOK ==
  /\ command \in Commands
  /\ oneToOne \in BOOLEAN
  /\ generator \in Generators
  /\ todo \subseteq Files
  /\ stage \in [Workers -> Stages]
  /\ file \in [Workers -> Files \cup {NoFile}]
  /\ at \in [Workers -> Nat \ {0}]
  /\ writer \in [Workers -> Nat]
  /\ namer \in [Workers -> Namers \cup {NoNamer}]
  /\ defaultNamer \in Namers \cup {NoNamer}
  /\ lock \in Workers \cup {NoWorker}
  /\ writers \in [SubDirs -> Nat]
  /\ made \in Seq(Namers)
  /\ closed \subseteq 1 .. Len(made)
  /\ output \subseteq Entries
  /\ shutdown \in BOOLEAN

\* No output file is left open: whatever fails, in whatever order the workers
\* ask for writers, each writer made is closed when the run is over.  (The
\* one-to-one writers of convert nedlib are not: see Deferred.)
EveryWriterClosed ==
  shutdown /\ ~(oneToOne /\ command = "nedlib") => closed = 1 .. Len(made)

\* Nobody closes a writer that a worker is about to write to.
WriterInUseIsOpen ==
  \A w \in Workers : stage[w] = "write" => writer[w] \in (1 .. Len(made)) \ closed

\* Records go to the same writer when, and only when, they come from one input
\* file (--one-to-one), or else have dates of one sub-directory.
OneWriterPerTarget ==
  \A d, e \in output :
    d.by = e.by <=> IF oneToOne THEN d.file = e.file
                    ELSE SubDir[DateOf(d)] = SubDir[DateOf(e)]

\* A writer writes to the sub-directory of the record it was made for: with a
\* generator of its own that is the sub-directory of each record, or with
\* --one-to-one that of the first record of the file.
WrittenWhereDated ==
  generator # "default" =>
    \A e \in output :
      IF oneToOne
      THEN \E d \in output :
             /\ d.file = e.file /\ made[e.by].dir = SubDir[DateOf(d)]
             /\ \A c \in output : c.file = e.file => d.at <= c.at
      ELSE made[e.by].dir = SubDir[DateOf(e)]

\* What --subdir-pattern says of itself: the date of each record is used.
EachRecordWhereDated ==
  ~oneToOne => \A e \in output : made[e.by].dir = SubDir[DateOf(e)]
-----------------------------------------------------------------------------
(* The inductive invariant behind the theorems of Writers_proofs.          *)

Asking == {"namer", "lock", "lookup", "make", "write"}    \* there is a record
InMap  == {"lock", "lookup", "make"}                      \* there is a namer

\* One worker at a time looks at the map; none is left after the shutdown.
LockInv ==
  /\ \A w \in Workers : stage[w] \in {"lookup", "make"} => lock = w
  /\ shutdown => \A w \in Workers : stage[w] = "idle"

\* A busy worker has a file to itself, and a record of it while it asks for a
\* writer; what is written belongs to files taken, and to earlier records.
FileInv ==
  /\ \A w \in Workers : stage[w] = "idle" => file[w] = NoFile /\ writer[w] = 0 /\ at[w] = 1
  /\ \A w \in Workers : stage[w] # "idle" => file[w] \in Files \ todo
  /\ \A v, w \in Workers : file[v] = file[w] /\ file[v] # NoFile => v = w
  /\ \A w \in Workers : stage[w] \in Asking => at[w] <= LastOf(file[w])
  /\ \A e \in output : e.file \notin todo /\ e.at <= LastOf(e.file)
  /\ \A e \in output : \A w \in Workers : file[w] = e.file => e.at < at[w]

\* Every number that stands for a writer is that of a writer made.
MadeInv ==
  /\ \A s \in SubDirs : writers[s] <= Len(made)
  /\ \A w \in Workers : writer[w] <= Len(made)
  /\ \A w \in Workers : stage[w] = "write" => writer[w] # 0
  /\ \A e \in output : e.by <= Len(made)
  /\ \A w \in Workers : stage[w] \in InMap => namer[w] \in Namers

\* Without --one-to-one the map is one-to-one and holds every writer.
SharedInv ==
  ~oneToOne =>
    /\ \A i \in 1 .. Len(made) : \E s \in SubDirs : writers[s] = i
    /\ \A s, t \in SubDirs : writers[s] = writers[t] /\ writers[s] # 0 => s = t
    /\ \A w \in Workers : stage[w] = "make" => writers[DirAt(w)] = 0
    /\ \A w \in Workers : stage[w] = "write" => writer[w] = writers[DirAt(w)]
    /\ \A e \in output : e.by = writers[SubDir[DateOf(e)]]
    /\ ~shutdown => closed = {}
    /\ shutdown => closed = 1 .. Len(made)

\* A generator of its own names the directory of the record it is made for.
DirInv ==
  ~oneToOne /\ generator # "default" =>
    /\ \A w \in Workers : stage[w] \in InMap => namer[w].dir = DirAt(w)
    /\ \A s \in SubDirs : writers[s] # 0 => made[writers[s]].dir = s

\* With --one-to-one a writer belongs to one file, and to the worker that
\* handles it, which closes it on its way out (but in convert nedlib).
OwnInv ==
  oneToOne =>
    /\ generator = "identity"
    /\ \A s \in SubDirs : writers[s] = 0
    /\ \A w \in Workers : stage[w] \notin InMap
    /\ \A w \in Workers : stage[w] = "namer" => writer[w] = 0
    /\ \A v, w \in Workers : writer[v] = writer[w] /\ writer[v] # 0 => v = w
    /\ \A w \in Workers : writer[w] \notin closed
    /\ \A d, e \in output : d.by = e.by <=> d.file = e.file
    /\ \A e \in output : \A w \in Workers : file[w] = e.file <=> writer[w] = e.by
    /\ command = "warc" => \A i \in 1 .. Len(made) :
         i \in closed \/ \E w \in Workers : writer[w] = i
    /\ command = "nedlib" => \A w \in Workers :
         stage[w] = "record" /\ writer[w] # 0 => at[w] > LastOf(file[w])

\* With --one-to-one the first record written gives the directory.
First(e) ==
  \E d \in output :
    /\ d.file = e.file /\ made[e.by].dir = SubDir[DateOf(d)]
    /\ \A c \in output : c.file = e.file => d.at <= c.at

FirstInv ==
  oneToOne =>
    /\ \A e \in output : First(e)
    /\ \A w \in Workers : stage[w] = "record" /\ writer[w] # 0 =>
         \E e \in output : e.file = file[w]
    /\ \A w \in Workers : stage[w] = "write" =>
         \/ \E e \in output : e.file = file[w]
         \/ made[writer[w]].dir = DirAt(w)

IInv == TypeOK /\ LockInv /\ FileInv /\ MadeInv /\ SharedInv /\ DirInv /\ OwnInv /\ FirstInv
=============================================================================
