------------------------------ MODULE Listing ------------------------------
(***************************************************************************)
(* warc ls, and warc cat as the same with no workers: the walk hands files *)
(* to the worker pool, each job iterates over the records of its file with *)
(* a filter, --nth, --limit and --force, and all of them write to stdout.  *)
(* The files may be behind the connection pool of an FTP file system.      *)
(***************************************************************************)
EXTENDS FtpPool, Sequences, SequencesExt

CONSTANTS
  Workers, Main,
  Contents,   \* per file, in the order of the walk, what its reader meets
  Options,    \* the combinations of options to run with, see OptionType
  Faults

\* A record the filter accepts, one it rejects, one that cannot be formatted (a date for
\* the JSON writer), and an error of the reader, which could go on behind it.
ItemKinds == {"good", "other", "odd", "bad"}

\* filter: a flag of the filter is given; without one it accepts every record.  nth and
\* limit are 0 when they are not given.  oneWrite: the format has a size field, so that a
\* line goes out with its newline.
OptionType ==
  [pool : SUBSET Workers, ftp : BOOLEAN, keepGoing : BOOLEAN, force : BOOLEAN,
   filter : BOOLEAN, nth : Nat, limit : Nat, oneWrite : BOOLEAN]

FaultKinds == {"stat",      \* a file cannot be looked up
               "dial",      \* no connection can be made
               "list",      \* a file cannot be opened
               "reader",    \* no reader can be made for it
               "stdout",    \* stdout fails, and goes on failing
               "signal"}

ASSUME ListingAssumption ==
  /\ IsFiniteSet(Workers) /\ Main \notin Workers
  /\ Contents \in Seq(Seq(ItemKinds))
  /\ Options \subseteq OptionType
  /\ Faults \subseteq FaultKinds

Files  == DOMAIN Contents
Agents == Workers \cup {Main}

VARIABLES
  opt,        \* the options; never change
  main,       \* where Run is: "look", "stat", "submit", "wait" or "done"
  next,       \* the file the walk meets next
  exit,       \* what Run returns: "ok", "error" or "canceled"
  jobs,       \* the buffered channel of the pool
  pc, job,    \* per goroutine, where it is and which file it has (0: none)
  pos,        \* per goroutine, the item its reader stands before
  count,      \* per goroutine, the records Nth or Limit has counted
  over,       \* per goroutine, whether Filter, Nth or Limit has ended the iteration
  listed,     \* per file, the items that have been written
  unended,    \* the goroutines whose line lacks its newline
  torn,       \* history: something was written into somebody's line
  stdout,     \* whether stdout can be written
  failed,     \* the files whose handler returned an error
  warned,     \* the files whose handler --force made go on after an error
  cancelled,  \* "no", or who cancelled the context first
  atCancel    \* history: the value of next at that time

mainVars == <<main, next, exit>>
iterVars == <<pos, count, over>>
outVars  == <<listed, unended, torn>>
failVars == <<failed, cancelled, atCancel>>
vars == <<opt, mainVars, jobs, pc, job, iterVars, outVars, stdout, failVars, warned, poolVars>>

Init ==
  /\ opt \in Options
  /\ main = "look" /\ next = 1 /\ exit = "ok"
  /\ jobs = <<>>
  /\ pc = [a \in Agents |-> IF a \in opt.pool \cup {Main} THEN "idle" ELSE "exited"]
  /\ job = [a \in Agents |-> 0]
  /\ pos = [a \in Agents |-> 1] /\ count = [a \in Agents |-> 0]
  /\ over = [a \in Agents |-> FALSE]
  /\ listed = [f \in Files |-> <<>>] /\ unended = {} /\ torn = FALSE
  /\ stdout = TRUE
  /\ failed = {} /\ warned = {}
  /\ cancelled = "no" /\ atCancel = 0
  /\ PoolInit

Goto(a, there)  == pc' = [pc EXCEPT ![a] = there]
Cancel(who)     == IF cancelled = "no" THEN cancelled' = who /\ atCancel' = next
                                       ELSE UNCHANGED <<cancelled, atCancel>>
Ahead(a)        == Contents[job[a]]
Item(a)         == Ahead(a)[pos[a]]

-----------------------------------------------------------------------------
(* Deliberately wrong variants of definitions below: see the README.       *)

\* The limit and the number are counted before the filter.
Counted_BeforeFilter(a) == count' = [count EXCEPT ![a] = @ + 1]

\* An idle worker leaves as soon as the context is cancelled.
Quit_WhenCanceled(w) ==
  /\ pc[w] = "idle"
  /\ cancelled # "no" \/ (jobs = <<>> /\ main = "wait")
  /\ pc' = [pc EXCEPT ![w] = "exited"]
  /\ UNCHANGED <<job, jobs, opt, mainVars, iterVars, outVars, stdout, failVars, warned, poolVars>>

\* The newline is always written on its own.
OneWrite_Never == FALSE

\* The walk hands files over without a look at the context.
Found_NoContext ==
  /\ main = "stat" /\ pc[Main] = "idle"
  /\ IF opt.ftp THEN Close(Main) ELSE UNCHANGED poolVars
  /\ main' = "submit"
  /\ UNCHANGED <<next, exit, jobs, pc>>
  /\ UNCHANGED <<opt, job, iterVars, outVars, stdout, failVars, warned>>

-----------------------------------------------------------------------------
(* Main: the walk over the file system, Submit and CloseWait.              *)

MainAt(p) == main = p /\ pc[Main] = "idle"
MainOnly  == UNCHANGED <<opt, job, iterVars, outVars, stdout, failVars, warned>>

\* The walk stats the next file: on FTP it opens it.
Look ==
  /\ MainAt("look") /\ next \in Files
  /\ IF opt.ftp THEN Open(Main) ELSE UNCHANGED poolVars
  /\ main' = "stat"
  /\ UNCHANGED <<next, exit, jobs, pc>> /\ MainOnly

WalkEnd ==
  /\ MainAt("look") /\ next \notin Files
  /\ main' = "wait"
  /\ UNCHANGED <<next, exit, jobs, pc, poolVars>> /\ MainOnly

StopWalk(why) == main' = "wait" /\ exit' = why /\ UNCHANGED <<next, jobs, pc>> /\ MainOnly
Release(a)    == IF opt.ftp THEN Close(a) ELSE UNCHANGED poolVars
DialFails     == "dial" \in Faults /\ opt.ftp /\ HasRoom

\* The callback of the walk gets the file, ...
Found ==
  /\ MainAt("stat") /\ cancelled = "no"
  /\ Release(Main)
  /\ main' = "submit"
  /\ UNCHANGED <<next, exit, jobs, pc>> /\ MainOnly

\* ... or finds that the context is cancelled, ...
WalkCanceled == MainAt("stat") /\ cancelled # "no" /\ Release(Main) /\ StopWalk("canceled")

\* ... or gets an error, which Run returns unless the context is cancelled.  On FTP no
\* connection could be made, or one was and is forgotten.
WalkFails ==
  /\ \/ MainAt("look") /\ next \in Files /\ DialFails /\ UNCHANGED poolVars
     \/ /\ MainAt("stat") /\ "stat" \in Faults
        /\ IF opt.ftp THEN Lose(Main) ELSE UNCHANGED poolVars
  /\ StopWalk(IF cancelled = "no" THEN "error" ELSE "canceled")

\* A send that blocks while the buffer is full, ...
Submit ==
  /\ MainAt("submit")
  /\ opt.pool # {} /\ Len(jobs) < Cardinality(opt.pool)
  /\ jobs' = Append(jobs, next)
  /\ next' = next + 1
  /\ main' = "look"
  /\ UNCHANGED <<exit, pc, poolVars>> /\ MainOnly

\* ... or a call, without workers and in cat.
Call ==
  /\ MainAt("submit") /\ opt.pool = {}
  /\ Goto(Main, "open") /\ job' = [job EXCEPT ![Main] = next]
  /\ next' = next + 1
  /\ main' = "look"
  /\ UNCHANGED <<opt, exit, jobs, iterVars, outVars, stdout, failVars, warned, poolVars>>

\* The deferred CloseWait returns, and so does Run.
Return ==
  /\ MainAt("wait") /\ \A w \in Workers : pc[w] = "exited"
  /\ main' = "done"
  /\ UNCHANGED <<next, exit, jobs, pc, poolVars>> /\ MainOnly

MainNext ==
  Look \/ WalkEnd \/ Found \/ WalkCanceled \/ WalkFails \/ Submit \/ Call \/ Return

-----------------------------------------------------------------------------
(* The workers.                                                            *)

WorkerOnly == UNCHANGED <<opt, mainVars, iterVars, outVars, stdout, failVars, warned, poolVars>>

Take(w) ==
  /\ pc[w] = "idle" /\ jobs # <<>>
  /\ Goto(w, "took") /\ job' = [job EXCEPT ![w] = Head(jobs)]
  /\ jobs' = Tail(jobs)
  /\ WorkerOnly

\* The context is looked at between two jobs: a job taken in vain is gone.
Begin(w) ==
  /\ pc[w] = "took"
  /\ Goto(w, IF cancelled = "no" THEN "open" ELSE "exited")
  /\ UNCHANGED <<job, jobs>> /\ WorkerOnly

Quit(w) ==
  /\ pc[w] = "idle" /\ jobs = <<>> /\ main = "wait"
  /\ Goto(w, "exited")
  /\ UNCHANGED <<job, jobs>> /\ WorkerOnly

WorkerNext(w) == Take(w) \/ Begin(w) \/ Quit(w)

-----------------------------------------------------------------------------
(* handleFile, in whatever goroutine runs it.                              *)

JobOnly == UNCHANGED <<opt, mainVars, jobs>>

\* The handler returns without an error, or with one: an error cancels the run unless
\* --continue-on-error, and is logged.
Succeed(a) ==
  /\ Goto(a, "idle") /\ job' = [job EXCEPT ![a] = 0]
  /\ UNCHANGED <<failVars, warned>>
Fail(a) ==
  /\ Goto(a, "idle") /\ job' = [job EXCEPT ![a] = 0]
  /\ failed' = failed \cup {job[a]}
  /\ IF opt.keepGoing THEN UNCHANGED <<cancelled, atCancel>> ELSE Cancel("error")
  /\ UNCHANGED warned

OpenFile(a) ==
  /\ pc[a] = "open"
  /\ UNCHANGED <<iterVars, outVars, stdout>> /\ JobOnly
  /\ \/ /\ IF opt.ftp THEN Open(a) ELSE UNCHANGED poolVars
        /\ Goto(a, "list")
        /\ UNCHANGED <<job, failVars, warned>>
     \/ DialFails /\ Fail(a) /\ UNCHANGED poolVars

\* The open fails after all, or the reader cannot be made: nobody closes the file.
OpenFails(a) ==
  /\ pc[a] = "list" /\ {"list", "reader"} \cap Faults # {}
  /\ IF opt.ftp THEN Lose(a) ELSE UNCHANGED poolVars
  /\ Fail(a)
  /\ UNCHANGED <<iterVars, outVars, stdout>> /\ JobOnly

\* Compose wraps the records of the new reader.
StartReading(a) ==
  /\ pc[a] = "list"
  /\ Goto(a, "read")
  /\ pos' = [pos EXCEPT ![a] = 1] /\ count' = [count EXCEPT ![a] = 0]
  /\ over' = [over EXCEPT ![a] = FALSE]
  /\ UNCHANGED <<job, outVars, stdout, failVars, warned, poolVars>> /\ JobOnly

\* The reader goes on to the next item.
Advance(a) == pos' = [pos EXCEPT ![a] = @ + 1]
Reading(a) == pc[a] = "read" /\ ~over[a] /\ pos[a] <= Len(Ahead(a))

\* Rejected by the filter, or not the record --nth asks for: the loop's body, where the
\* context is looked at, never sees it.
Accepted(a)  == Item(a) \in {"good", "odd"} \/ (Item(a) = "other" /\ ~opt.filter)
PassedOver(a) == ~Accepted(a) \/ (opt.nth > 0 /\ count[a] + 1 # opt.nth)
IsError(a)   == Item(a) = "bad"
Counted(a)   == count' = [count EXCEPT ![a] = IF Accepted(a) THEN @ + 1 ELSE @]

\* Write: a line that a size is put into is formatted with its newline.
OneWrite     == opt.oneWrite

Skip(a) ==
  /\ Reading(a) /\ ~IsError(a) /\ PassedOver(a)
  /\ Counted(a) /\ Advance(a)
  /\ UNCHANGED <<pc, job, over, outVars, stdout, failVars, warned, poolVars>> /\ JobOnly

\* Nth ends with its record, Limit with the last it lets pass.
Deliver(a) ==
  /\ Reading(a) /\ ~IsError(a) /\ ~PassedOver(a)
  /\ Counted(a) /\ Advance(a)
  /\ over' = [over EXCEPT ![a] =
                opt.nth > 0 \/ (opt.limit > 0 /\ count[a] + 1 >= opt.limit)]
  /\ UNCHANGED <<outVars, stdout>> /\ JobOnly
  /\ IF cancelled = "no"
       THEN Goto(a, "write") /\ UNCHANGED <<job, failVars, warned, poolVars>>
       ELSE Fail(a) /\ Release(a)

\* With --force the loop goes on after an error; but Filter, which is always there, has
\* ended the iteration with it.  So there is no second error for lastOffset to stop.
ReadError(a) ==
  /\ Reading(a) /\ IsError(a)
  /\ UNCHANGED <<pos, count, outVars, stdout>> /\ JobOnly
  /\ IF cancelled = "no" /\ opt.force
       THEN /\ warned' = warned \cup {job[a]}
            /\ over' = [over EXCEPT ![a] = TRUE]
            /\ UNCHANGED <<pc, job, failVars, poolVars>>
       ELSE Fail(a) /\ Release(a) /\ UNCHANGED over

EndOfFile_LeavesOpen(a) ==
  /\ pc[a] = "read" /\ ~Reading(a)
  /\ Succeed(a) /\ UNCHANGED poolVars
  /\ UNCHANGED <<iterVars, outVars, stdout>> /\ JobOnly

EndOfFile(a) ==
  /\ pc[a] = "read" /\ ~Reading(a)
  /\ Succeed(a) /\ Release(a)
  /\ UNCHANGED <<iterVars, outVars, stdout>> /\ JobOnly

\* The JSON writer gives up on a record without a date; the text writer never does.
Formats(a, it) == Ahead(a)[it] # "odd"

\* WriteRecord: the line, with its newline when it is formatted by Fprintf, ...
WriteRecord(a) ==
  /\ pc[a] = "write"
  /\ UNCHANGED <<iterVars, stdout>> /\ JobOnly
  /\ LET it == pos[a] - 1
     IN  IF stdout /\ Formats(a, it)
           THEN /\ listed' = [listed EXCEPT ![job[a]] = Append(@, it)]
                /\ torn' = (torn \/ unended # {})
                /\ unended' = IF OneWrite THEN unended ELSE unended \cup {a}
                /\ Goto(a, IF OneWrite THEN "read" ELSE "newline")
                /\ UNCHANGED <<job, failVars, warned, poolVars>>
           ELSE Fail(a) /\ Release(a) /\ UNCHANGED outVars

\* ... or followed by it in a write of its own.
WriteNewline(a) ==
  /\ pc[a] = "newline"
  /\ UNCHANGED <<iterVars, listed, torn, stdout>> /\ JobOnly
  /\ IF stdout
       THEN /\ unended' = unended \ {a}
            /\ Goto(a, "read")
            /\ UNCHANGED <<job, failVars, warned, poolVars>>
       ELSE Fail(a) /\ Release(a) /\ UNCHANGED unended

HandleFile(a) ==
  \/ OpenFile(a) \/ OpenFails(a) \/ StartReading(a)
  \/ Skip(a) \/ Deliver(a) \/ ReadError(a) \/ EndOfFile(a)
  \/ WriteRecord(a) \/ WriteNewline(a)

-----------------------------------------------------------------------------
EnvOnly == UNCHANGED <<opt, mainVars, jobs, pc, job, iterVars, outVars, failed, warned, poolVars>>

Signal ==
  /\ "signal" \in Faults /\ cancelled = "no" /\ main # "done"
  /\ Cancel("signal")
  /\ UNCHANGED stdout /\ EnvOnly

StdoutFails ==
  /\ "stdout" \in Faults /\ stdout /\ main # "done"
  /\ stdout' = FALSE
  /\ UNCHANGED <<cancelled, atCancel>> /\ EnvOnly

Next ==
  \/ MainNext
  \/ \E w \in Workers : WorkerNext(w)
  \/ \E a \in Agents : HandleFile(a)
  \/ Signal \/ StdoutFails

\* The scheduler runs every goroutine; nobody sends signals or breaks stdout.
Spec == Init /\ [][Next]_vars
FairSpec ==
  /\ Spec
  /\ WF_vars(MainNext)
  /\ \A w \in Workers : WF_vars(WorkerNext(w))
  /\ \A a \in Agents : WF_vars(HandleFile(a))

-----------------------------------------------------------------------------
(* Which items of a file the options ask for.                              *)

Matches(f, i) == Contents[f][i] \in {"good", "odd"} \/ (Contents[f][i] = "other" /\ ~opt.filter)
Rank(f, i)    == Cardinality({j \in 1 .. i : Matches(f, j)})
Due(f) ==
  {i \in DOMAIN Contents[f] :
     /\ Matches(f, i)
     /\ opt.nth > 0 => Rank(f, i) = opt.nth
     /\ opt.nth = 0 /\ opt.limit > 0 => Rank(f, i) <= opt.limit}

\* The items before the first error of the reader.
Whole(f) == {i \in DOMAIN Contents[f] : \A j \in 1 .. i : Contents[f][j] # "bad"}

\* What has been listed of a file is asked for, and in the order of the file.
OnlyDue(f) ==
  /\ ToSet(listed[f]) \subseteq Due(f)
  /\ \A i, j \in DOMAIN listed[f] : i < j => listed[f][i] < listed[f][j]

-----------------------------------------------------------------------------
(* Properties.                                                             *)

AgentPcs == {"idle", "exited", "took", "open", "list", "read", "write", "newline"}

\* Every variable stays in its type, and no more connections are out than the pool has.
TypeOK ==
  /\ opt \in Options
  /\ main \in {"look", "stat", "submit", "wait", "done"}
  /\ next \in 1 .. Len(Contents) + 1 /\ exit \in {"ok", "error", "canceled"}
  /\ jobs \in Seq(Files)
  /\ pc \in [Agents -> AgentPcs] /\ job \in [Agents -> Files \cup {0}]
  /\ pos \in [Agents -> Nat \ {0}] /\ count \in [Agents -> Nat]
  /\ over \in [Agents -> BOOLEAN]
  /\ listed \in [Files -> Seq(Nat)]
  /\ unended \subseteq Agents /\ torn \in BOOLEAN /\ stdout \in BOOLEAN
  /\ failed \subseteq Files /\ warned \subseteq Files
  /\ cancelled \in {"no", "error", "signal"} /\ atCancel \in 0 .. Len(Contents) + 1
  /\ holding \subseteq Agents /\ lost \in Nat
  /\ Cardinality(holding) + lost <= PoolSize

\* A run that was not cancelled, and that returns no error, has listed of every file that
\* it did not report as failed the records asked for, once and in order: all of them, or,
\* with --force and an error of the reader, all before the error.
ListingComplete ==
  main = "done" /\ exit = "ok" /\ cancelled = "no" =>
    \A f \in Files \ failed :
      /\ OnlyDue(f)
      /\ Due(f) \cap Whole(f) \subseteq ToSet(listed[f])
      /\ Due(f) \subseteq ToSet(listed[f]) \/ (opt.force /\ f \in warned)

\* Lines are not mixed when there is one worker at most, or when each is a single write.
LinesWhole == Cardinality(opt.pool) <= 1 \/ opt.oneWrite => ~torn

\* A failed file stops the run with an error, unless --continue-on-error was given or the
\* walk had already come to its last file.
FailureNoticed ==
  main = "done" /\ exit = "ok" =>
    \/ cancelled = "no" /\ (failed = {} \/ opt.keepGoing)
    \/ atCancel >= Len(Contents)

\* Each connection to the FTP server that is lost was lost to a file of its own, one that
\* failed or that the walk stopped at; when the run has ended every other is back in the
\* pool.
ConnectionsReturned ==
  /\ lost <= Cardinality(failed) + (IF exit = "ok" THEN 0 ELSE 1)
  /\ main = "done" => holding = {}

\* The run ends, also when an error has cancelled it and its workers leave the channel to
\* itself, unless every connection of the FTP pool is lost, or a signal came while there
\* were workers.
EndsUnlessDrained ==
  <>(main = "done" \/ (opt.ftp /\ lost = PoolSize) \/ (cancelled = "signal" /\ opt.pool # {}))

-----------------------------------------------------------------------------
(* The inductive invariants behind the theorems of Listing_proofs.         *)

\* Goroutines that run no jobs never do, and a line is left without its newline only on
\* the way to it, or for good.
LineInv ==
  /\ opt \in Options /\ pc \in [Agents -> AgentPcs]
  /\ opt.pool # {} => pc[Main] = "idle"
  /\ \A w \in Workers \ opt.pool : pc[w] = "exited"
  /\ opt.oneWrite => unended = {}
  /\ stdout => \A a \in unended : a \in Agents /\ pc[a] = "newline"
  /\ LinesWhole

\* A failure cancels the context, and a cancelled context lets the walk get rid of one
\* more file at most.
NoticeInv ==
  /\ next \in 1 .. Len(Contents) + 1 /\ atCancel \in Nat
  /\ cancelled = "no" => failed = {} \/ opt.keepGoing
  /\ main \in {"stat", "submit"} => next \in Files
  /\ main \in {"wait", "done"} /\ exit = "ok" => next = Len(Contents) + 1
  /\ cancelled # "no" => next <= atCancel + (IF main = "submit" THEN 0 ELSE 1)
\* Where the jobs are: each file is ahead of the walk, in the channel, with one goroutine
\* or done with.
InChannel(f) == \E i \in DOMAIN jobs : jobs[i] = f
Reads(a)     == pc[a] \in {"read", "write", "newline"}
PlacesInv ==
  /\ \A a \in Agents : (job[a] = 0 <=> pc[a] \in {"idle", "exited"}) /\ job[a] < next
  /\ \A a, b \in Agents : a # b /\ job[a] = job[b] => job[a] = 0
  /\ \A i \in DOMAIN jobs : jobs[i] < next /\ \A a \in Agents : job[a] # jobs[i]
  /\ \A i, j \in DOMAIN jobs : i # j => jobs[i] # jobs[j]
  /\ opt.pool = {} => jobs = <<>>
  /\ \A w \in opt.pool : pc[w] = "exited" => jobs = <<>> /\ main \in {"wait", "done"}
  /\ main = "done" => pc[Main] = "idle" /\ \A w \in Workers : pc[w] = "exited"

\* What the counters of Nth and Limit have to do with the items passed, and what has been
\* listed of the file so far: all of those that are asked for, but the one to be written.
Toll(a) == IF pc[a] = "write" THEN pos[a] - 1 ELSE pos[a]

\* The iteration has ended at an error of the reader.
Broken(a) == /\ opt.force /\ job[a] \in warned
             /\ pos[a] \in DOMAIN Ahead(a) /\ Item(a) = "bad"
Progress(a) ==
  LET f == job[a]
  IN  /\ pos[a] \in 1 .. Len(Contents[f]) + 1
      /\ count[a] = Rank(f, pos[a] - 1)
      /\ OnlyDue(f)
      /\ \A i \in DOMAIN listed[f] : listed[f][i] < Toll(a)
      /\ pc[a] = "write" => pos[a] - 1 \in Due(f)
      /\ \A i \in Due(f) : i < Toll(a) => i \in ToSet(listed[f])
      /\ over[a] => Broken(a) \/ \A i \in Due(f) : i < pos[a]
      /\ ~over[a] /\ opt.nth = 0 /\ opt.limit > 0 => count[a] < opt.limit

FileDone(f) ==
  \/ f \in failed
  \/ /\ OnlyDue(f) /\ Due(f) \cap Whole(f) \subseteq ToSet(listed[f])
     /\ Due(f) \subseteq ToSet(listed[f]) \/ (opt.force /\ f \in warned)

JobTypes ==
  /\ opt \in Options /\ main \in {"look", "stat", "submit", "wait", "done"}
  /\ jobs \in Seq(Files) /\ next \in 1 .. Len(Contents) + 1
  /\ pc \in [Agents -> AgentPcs] /\ job \in [Agents -> Files \cup {0}]
  /\ pos \in [Agents -> Nat] /\ count \in [Agents -> Nat] /\ over \in [Agents -> BOOLEAN]
  /\ listed \in [Files -> Seq(Nat)]

\* As long as the context is not cancelled.
JobInv ==
  cancelled = "no" =>
    /\ JobTypes /\ PlacesInv
    /\ \A a \in Agents : Reads(a) => Progress(a)
    /\ \A f \in Files : f >= next \/ InChannel(f) => listed[f] = <<>>
    /\ \A a \in Agents : job[a] # 0 /\ ~Reads(a) => listed[job[a]] = <<>>
    /\ \A f \in Files :
         f < next /\ ~InChannel(f) /\ (\A a \in Agents : job[a] # f) => FileDone(f)

\* A goroutine holds a connection while it has a file open, and no file is handled again
\* once it has failed.
HasOpen(a) == pc[a] \in {"list", "read", "write", "newline"}
Opened     == {a \in Agents : HasOpen(a) \/ (a = Main /\ main = "stat")}
OnceInv ==
  /\ \A f \in failed : f < next
  /\ \A i \in DOMAIN jobs : jobs[i] < next /\ jobs[i] \notin failed
  /\ \A i, j \in DOMAIN jobs : i # j => jobs[i] # jobs[j]
  /\ \A a \in Agents : job[a] # 0 =>
       /\ job[a] < next /\ job[a] \notin failed /\ \A i \in DOMAIN jobs : jobs[i] # job[a]
       /\ \A b \in Agents \ {a} : job[b] # job[a]
ConnInv ==
  /\ TypeOK /\ OnceInv
  /\ main \in {"stat", "submit"} => next \in Files
  /\ main # "look" => pc[Main] = "idle"
  /\ main = "done" => \A w \in Workers : pc[w] = "exited"
  /\ \A a \in Agents : pc[a] \notin {"idle", "exited"} => job[a] # 0
  /\ main \in {"look", "stat", "submit"} => exit = "ok"
  /\ holding = IF opt.ftp THEN Opened ELSE {}
  /\ ~opt.ftp => lost = 0
  /\ lost <= Cardinality(failed) + (IF exit = "ok" THEN 0 ELSE 1)
=============================================================================
