# Warchaeology in TLA+

This directory holds a formal model of warchaeology, a command line tool for web
archive files: TLA+ modules translated from the Go source, TLC configurations that
model-check them on small instances, and TLAPS proofs for every value of the constants.
Paths below are relative to the repository.

    tlc -config BatchRun_faults.cfg MCBatchRun.tla     # one run
    tlapm BatchRun_proofs.tla                          # the proofs of one module

`PROJECT.json` lists the components, the runs, the source lines behind every definition,
the hazards the properties aim at, the findings and the theorems.

## The system

| component | state it keeps | operations | what makes it correct |
|---|---|---|---|
| batch run (`cmd/dedup`, `validate`, `convert`: `Run`) | results channel, totals, exit code, context | walk, submit, merge, deferred shutdown, exit | every file is counted once; nothing is used after its close; the exit code follows from every result; the run ends |
| worker pool (`internal/workerpool`) | bounded channel of jobs, workers | `New`, `Submit`, `CloseWait` | jobs run in order of submission, bounded, none after cancellation |
| life of an input file (`internal/filewalker/prepost.go`) | none of its own | `Preposterous`, `PrePostHook` | hooks in pairs; a result is saved only for work that was done |
| file index (`internal/index/fileindex.go`) | badger database, path to result, kept between runs | get, save, close | saved work is not redone, failed work is |
| digest index (`internal/index/digestindex.go`, `retry.go`) | badger database, digest to reference, kept between runs | `IsRevisit`, `Close` | atomic test-and-set under contention |
| deduplication (`cmd/dedup`: `handleFile`, `handleRecord`) | the output | read, look up, write as it is or as a revisit | no record dropped, no payload lost, revisits match |
| WARC writer configuration (`internal/warcwriterconfig`) | map of writers per sub-directory, a name generator made once | `New`, `GetWarcWriter`, `Close` | a record goes to the writer its options name; every writer is closed, and none while it is used |
| file walker (`internal/filewalker`, `internal/fs`) | set of processed paths | walk of directories, links, mounted archives | each input once, none missed, termination |
| record iterators (`internal/warc`) | counters of one sequence | filter, nth, limit, skip | order and count; nothing dropped before an error |
| `ls`, `cat` | shared stdout, job queue, context | one line or record each | nothing listed twice or left out, whole lines, exit status, the run ends |
| console (`internal/ui`) | list widgets behind a mutex, loaders that can be cancelled, record panel, focus | select, load, filter, flush, layout | the screen shows the list, the list the file, the panel the selection |
| FTP file system (`internal/ftpfs`) | pool of connections | open, close, stat | connections come back |
| ARC reader (`arcreader`) | buffered and gzip reader, offset | next record | records adjoin; none before a damage is missing |
| zip file system, nedlib reader | buffer of a member; none | open, read, seek, close; one record | reads return what is there |
| flags, sizes, times, version | none | parsing, formatting | boundaries |

How they interact: the command parses flags and opens the indexes; `Run` walks the
input and submits one job per file to the pool; a job takes its file through the file
index, the hooks and the command's handler (`Preposterous`) and sends a result to the
collector; the handler of `dedup` calls the digest index and a shared WARC writer. `ls`
uses the same walk and pool without results: its jobs write to stdout. Walk and jobs
read through one file system, which may be an FTP server or an archive. The console has
no pool: a goroutine per selected file adds records to a list that the main loop of the
terminal library draws. What outlives the process is the two indexes and the output.

What is hard: the shutdown of `Run` (six deferred calls, three kinds of goroutines, two
channels and a context, any of which may stop first); the digest index under contention;
everything that spans runs, when one was killed or had failures and the next goes on
with what it left; the calls, loaders and redraws of the console, which cross; and where
a walk, a reader or an iterator goes on after an error, and where it stops. The hazards in `PROJECT.json` list each such place with its line.

## The modules

| module | models | refines or extends |
|---|---|---|
| `Batch` | what a batch run promises: files are counted once each, and the exit tells the outcome | |
| `BatchRun`, `MCBatchRun`, `BatchRun_proofs` | `Run` and the worker pool | implements `Batch` |
| `Preposterous` (proofs in `Dedup_proofs`) | the life of an input file over several runs | |
| `TestAndSet` | what the digest index promises | |
| `DigestIndex`, `MCDigestIndex`, `DigestIndex_proofs` | transactions, retries, restarts | implements `TestAndSet` |
| `Dedup`, `MCDedup`, `Dedup_proofs` | the handler of `warc dedup`, its records, the output | extends and implements `Preposterous` |
| `Writers`, `MCWriters`, `Writers_proofs` | `GetWarcWriter` under the handlers of `dedup` and `convert` | |
| `Walk`, `MCWalk`, `Walk_proofs` | the file walker, from the first argument to the last | |
| `FtpPool` | the connections of an FTP file system | |
| `Listing`, `MCListing`, `Listing_proofs` | `warc ls` and `warc cat`, with walk, pool, iterators and stdout | extends `FtpPool` |
| `ListWidget` | the list of the console, as functions | |
| `RecordPanel` | the record panel and the views one can move between, as functions | |
| `Console`, `MCConsole`, `Console_proofs` | the main loop, the loaders, the user | extends `ListWidget`, `RecordPanel` |
| `ArcReader`, `MCArcReader`, `ArcReader_proofs` | `Next`, `Records` and `Unmarshal` | |

**BatchRun.** One action per statement of `Run` that another goroutine can see. Main
walks (`WalkFile`, `WalkError`, `WalkCancelled`, `WalkEnd`), submits (`Submit`, or
`SubmitInline` when the `pool` has no workers, which is concurrency 0) and then runs its deferred calls in their
order. A worker takes a job, looks at the context, runs the job and sends the result;
the collector merges results and, when the channel is closed, sets the exit code.
`results` is unbuffered, so sending and receiving are one rendezvous of two steps.
Closing a closed channel or sending on one is what `NothingUsedAfterClose` excludes.
What a job does with its file is one step here; `Preposterous` has its detail.

**Preposterous.** Each worker has a stage (`lookup`, `openHook`, `handle`, `closeHook`,
`save`, `report`), the file it holds, and the pair `(result, err)` that the Go functions
return. The handler returns anything a handler may. `fileIndex` outlives a run:
`NextRun` starts the next one when all workers are idle, `Crash` at any moment, both with
or without `--new-index`. The index is keyed by `Key[f]`, the path that the walk gives
to the job. Inside a mounted archive that is the path within the archive, so two inputs
may share a key; `InjectiveKeys` says that none do (see below for what happens otherwise).

**DigestIndex.** `IsRevisit` is a transaction that reads a snapshot (`Get`), answers
from it (`Found`) or sets the key and commits (`Commit`), unless the key was committed
since (`Conflict`, followed by a retry). That badger reads from a snapshot and detects
such conflicts is its documented behaviour and is assumed. `TestAndSet` has the same
calls and answers with one atomic step each.

**Dedup.** The stage `handle` of `Preposterous` is opened up: open, next record, index,
write. `IsRevisit` is atomic here, which is what the refinement of `DigestIndex`
justifies. A record is a model value with a digest (or none: it is no candidate), a size
and the size of a reference to it. `output` is the set of records in output files, in
full or as a revisit; it only grows, because every run writes files of its own. A write
that fails leaves nothing.

**Writers.** The four handlers that write WARC files have the same loop: a record, its
date, `GetWarcWriter`, write. Which command runs and with which of `--one-to-one` and
`--name-generator` is chosen in the initial state; `"warc"` stands for `convert warc`,
`convert arc` and `dedup`, which treat their writers alike, and `"nedlib"` for `convert
nedlib`. `GetWarcWriter` is `MakeNamer` or `NewWriter` and, for the shared writers,
`Lock`, `Found` or `NotFound`, and `Make`, so that workers meet between them. `Return`
is the end of `handleFile`, its deferred close included. A writer is a number, an index
into `made`, which holds the directory and path it makes file names from. What is
written, and to how many files, is the library's business. `Close` may come as soon as
no worker is busy, with files left to do when the run was cancelled; that no worker is
busy then is what `NothingUsedAfterClose` says in `BatchRun`.

**Walk.** One step is one call of the function that `walkDir` hands to `Walk`; the
recursion is the sequence `todo`, each node with the root of the walk it belongs to,
which decides whether a directory is descended into without `--recursive`. A node is a
logical path, since that is what `processedPaths` holds: two paths of one file (`./f`
and `f`) are two nodes, and the code does list such a file twice. A world gives each
node its kind, children, link target and whether its suffix is asked for. `Reach` says,
without any order of visits, what can be reached from a set of arguments.

**FtpPool.** `Open` takes a connection or waits, `Close` gives it back, `Lose` is what
happens where the code forgets one. It has no Next of its own: `Listing` conjoins its
actions to the steps of `ls`.

**Listing.** Main walks (`Look`, then `Found`, `WalkFails` or `WalkCanceled`) and submits
or calls; workers take jobs; the steps of `HandleFile` open a file, iterate and write.
What a reader meets in a file is a sequence of items: records that match the filter or
not, one the JSON writer gives up on, and errors behind which the reader could go on.
`count` and `over` are the closures of `Filter`, `Nth` and `Limit` as `Compose` nests
them. `Filter` is always among them, for `ToFilter` never returns nil, and it ends with
the first error; so the loops' comparison of offsets, which stops `--force` at a second
error in one place, has nothing to decide and is not modelled. A line and its newline
are one write or two. `cat` is the same loop with an empty pool; what it writes of a record counts as a
line. `Look` opens the file because `Stat` does so on FTP.

**Console.** `ListWidget` and `RecordPanel` are functions from a state of the widget to
the next, one for each method that holds the lock, with what it reports afterwards;
`Console` says when they are called. `calls` is the bag of functions handed to
`gui.Update`, which the library runs each in a goroutine of its own until the main loop
takes it: hence a bag and no queue. The main loop runs one thing at a time; what it does
in several steps while loaders run (`CancelLoad`, `ClearRecords`, `StartLoad`;
`TakeFlush`, `CopyList`, `DrawList`) is split where a lock is let go. `drawn` is what
the view shows. The user gives any command at any time.

**ArcReader.** A file is a sequence of the pieces of bytes that the reader tells apart:
lines of headers and records, content, line feeds, the beginning and end of a gzip
member, and junk. Damage is any piece in any place. `Search` is `searchNextRecord`,
which passes over bytes until something looks like a record and then fails if that is
not where one was expected; `ReadLine`, `ReadContent`, `ContentEnds`, `ContentCut` and
`ReadRest` are the parsers, `EndRecord` the deferred function of `Unmarshal`. `CutOff`
and `Truncated` are how a gzip reader and a zip member tell an end that comes too soon.

**Deliberately wrong variants.** A module that runs check has a section of definitions
named `<Action>_<Mistake>`, or has them beside the definition they vary. Nothing uses
them in a specification. Put in the place of the definition they are named after, each
makes a property fail that holds of the code: `PROJECT.json` pairs them under `mutants`,
so that it is known that every property can be broken by a plausible mistake.

## The runs

| run | instance | shows |
|---|---|---|
| `BatchRun_faults` | 0 to 2 workers, 4 files, every fault | type, `OnePlace`, `NothingUsedAfterClose`, `ExitCountsEverything`, `CompleteUnlessAborted`, `PromptCancel`, `BoundedInFlight`, `DeterministicOrder` (what `--deterministic` promises), `Batch` implemented, `EndsUnlessSignalled`, `ResultsAreCounted` |
| `DigestIndex_race` | 3 callers, 2 digests, 2 references, 2 runs | `ConflictOnce`, `TestAndSet` implemented |
| `Dedup_faults` | 2 workers, 5 records in 2 files, 2 runs, every fault, those of the index included | `EveryRecordWritten`, `RevisitsMatch`, `ReportedMeansHandled`, `NoRework`, `HooksPaired`, `Preposterous` implemented |
| `Dedup_payload` | the same, 3 runs on one index, no failed write, no fault of the index, no crash | `PayloadKept`, `Deduplicated`, `FailedIsRetried` |
| `Writers_safety` | 2 workers, 5 records in 3 files, 2 sub-directories, every command, option and fault | type, `EveryWriterClosed`, `WriterInUseIsOpen`, `OneWriterPerTarget`, `WrittenWhereDated` |
| `Walk` | 4 file systems, with and without `--recursive` and `--follow-symlinks`, nodes that cannot be read, cancellation | `GivenOnce`, `WalkComplete`, `WalkEnds` |
| `Listing` | 3 files, 7 combinations of options, 0 to 2 workers, locally and over 2 FTP connections, every fault | `ListingComplete`, `LinesWhole`, `FailureNoticed`, `ConnectionsReturned`, `EndsUnlessDrained` |
| `Console` | 2 files, batches of 2, 2 files selected, 2 commands of the user | `DrawnIsList`, `RecordsComplete`, `PanelShowsSelection`, `FocusExists` |
| `ArcReader` | every file of up to 4 pieces; every file of up to 3 records with one damage; in a zip archive or not | `ReadInPlace` |

A run names the faults under which its properties hold. `FailedIsRetried` says nothing
when the index itself fails, and a record whose look-up fails, or whose revisit cannot be
made, is written in full, which `Deduplicated` does not allow for; the theorems below
hold for every set of faults but those they name.

**Bounds.** `BatchRun` and `Listing` choose the pool in the initial state, so one run
covers concurrency 0 (jobs run inside `Submit`), one worker and two. Four files fill
the channel and the worker of a pool of one and leave one for the collector and one for
the walk; with two workers both are busy while the channel still holds a file or the
walk has one to go. Two workers are enough for every pairwise interleaving of workers,
three callers for one that wins while two others conflict. Two files that hold the same
payloads in opposite orders make each worker look up what the other has registered; two
files that cross the sub-directories in opposite orders, and a third in one of them,
make workers ask for the same writer at once and again later. Three runs are one that
leaves something behind, one that goes on with it, and one that goes on with the
outcome; `MaxRuns` is the only bound on behaviours of `Dedup` and `DigestIndex`.

The file systems of `Walk` are arguments that overlap, with a link to a sub-directory; a
link to the directory it is in, and an archive reached twice; links that lead to each
other; and a link in an archive, an archive that cannot be mounted and a dangling link.
`Listing` has records of every kind before and behind an error, a file that ends with
one, and one with a record that cannot be formatted; two connections let a worker lose one
and the walk the other. In `Console` a file of three records is one full batch and a
rest, the other is an error from its first record; two commands are enough for one to
meet the effects of another at every stage, and `MaxLoads` of 2 for a load that is
cancelled by the next. `ArcReader` needs no bound but the file: it reads forward.

Workers, and files where nothing tells them apart, are symmetric where no liveness is
checked. Deadlock is not checked where a bound stops the model or the program ends, nor
in `BatchRun` and `Listing`, which may hang (see below): there `EndsUnlessSignalled` and
`EndsUnlessDrained` exclude every other way to stop short of the end.

### What the code does not keep

Runs that are expected to find a violation; the findings quote the line that says
otherwise.

- `BatchRun_exit`: a cancelled run, or one whose walk failed, can exit with status 0.
- `Dedup_crash`: a record is registered before it is written, and only `Close` removes
  the index. When the process is killed in between, the next run finds the index without
  `--keep-index`, replaces the record by a revisit to itself, and its payload is lost.
- `Writers_subdirs`: with the default name generator, which is made once, every record
  goes to the sub-directory of the first record, whatever `--subdir-pattern` says.

More follows from the same models without a run of its own.

Batch commands:

- a signal can leave main blocked on the channel of a pool without workers, which have
  all left on the cancelled context (`Submit`; `EndsUnlessSignalled` excepts it);
- a file that the open hook asks to skip (exit 10) is reported as failed, because the
  hooks' `ErrSkipFile` is not the one `PrePostHook` compares with (`IsSkip`);
- a failed write followed by a second run with `--keep-index` loses a payload as the
  kill does (`Dedup_payload` with the fault `"write"`);
- members of two archives with the same inner path share a key of the file index, and
  with `--keep-index` the second is taken for done (`Dedup` with a `Key` that is not
  injective);
- an error of the walk ends a run even with `--continue-on-error` (`WalkError`);
- `convert nedlib --one-to-one` closes none of its writers, for its loop declares a
  second variable `writer` (`Deferred`), and it names an output file after the second
  of the record's date, which two inputs may share (`PathAt`);
- `--name-generator=identity` without `--one-to-one` shares one writer, named after the
  first input, among all inputs of a sub-directory (`Found`), although the help text
  promises one output file per input file;
- the nedlib reader has two files open at once (`nedlibreader.go:113`): over FTP, with
  the default of one connection, it waits for the one it holds itself.

Walk:

- without `--recursive` a directory that is met below an argument and named as a later
  argument is passed over without a word (`VisitDir`; `Shadowed`);
- links that lead to each other are followed for ever (`VisitLink`; `LinksEnd`), and a
  link in an archive fails a walk with `--follow-symlinks`.

`ls` and `cat`:

- `--force` stops at the first broken record of a file, with a warning and status 0,
  whatever other options are given: the filter that is always there ends with it
  (`ReadError`). Its help (`iterator_flags.go:19`) says that it continues iterating. Of
  such a file `ListingComplete` promises what lies before the error, and no more;
- with several workers, a line and its newline are two writes unless a size is among the
  fields, so lines can mix (`WriteNewline`; the premise of `LinesWhole`); and with a
  size, the line itself is the format of `Fprintf`, so a `%` in it is taken for a verb;
- when the last file fails, or one the walk has already got past, `ls` ends with status 0
  (`FailureNoticed` says when);
- an open that fails on FTP keeps its connection, and nothing interrupts the wait for
  one: with the default pool a single failure can hang the command (`OpenFails`, `Lose`;
  `EndsUnlessDrained` excepts it).

Console:

- the loader checks its context before it adds a batch and not while it does, so a batch
  of the previous file may follow the clearing; it never checks on errors, so a reader
  that fails for ever floods the list; `RecordsComplete` allows for both;
- two reports of a selection may cross, so the panel may show the older one; and `flush`
  writes back the selection it copied before it drew, so that a first selection made
  meanwhile is lost (`raced`, which `PanelShowsSelection` excepts);
- a record left over from the previous file is looked up in the current one (`Details`).

ARC files:

- a file, or a gzip or zip member, that is cut off within content ends as if it were
  complete: the error becomes the end of the file (`ContentCut`);
- content that is left over, a missing line feed, and a wrong checksum unless a parser
  meets it because content is short, are found by the deferred function of `Unmarshal`
  and returned by nobody (`EndRecord`, `ContentEnds`); an uncompressed file then fails at
  the next record, a compressed one does not;
- anything behind the last record that does not look like one is ignored, unless it is
  in a zip member that is too short, where the archive may report that (`NoMore`);
- a header whose length is less than its own lines gives a negative limit, which
  `CountingReader` takes for none: the header swallows the file (`ReadRest`).

### Fairness

Three specifications state fairness. In `BatchRun` main, every worker and the collector
are weakly fair: they are goroutines of a preemptive scheduler, and each waits only on a
channel, a wait group or the context. In `Walk` the walk is, which is one goroutine. In
`Listing` main, every worker and every job in hand are, for the same reason; a wait for
an FTP connection is a disabled step. Faults, signals and a failing stdout have no
fairness: nothing makes them happen. A file in hand is assumed to be finished some day:
no hook, disk or server hangs.

## The proofs

Every module with proofs EXTENDS the module it is about; `Dedup_proofs` also holds the
theorems of `Preposterous`, which `Dedup` extends. All theorems hold for any number of
workers, files, records and runs, from the named assumption of each module
(`BatchAssumption`, `PreposterousAssumption`, `DigestIndexAssumption`,
`DedupAssumption`, `WritersAssumption`, `WalkAssumption`, `FtpPoolAssumption`,
`ListingAssumption`, `ArcAssumption`, `ConsoleAssumption`), which give the constants their types. Two say
more: in `WalkAssumption`, `OwnRoots` says that the root directory of a mounted archive
is reached through that archive alone; `ConsoleAssumption` says that the files are
finitely many and that the marks for nothing (`None`, `Blank`, `NoView`) are no items.

Every safety property of the runs is the conclusion of a theorem, and so is every
refinement; `PROJECT.json` pairs them. Their arguments:

- `BatchRun_proofs`: `IInv` ties the place of every file (still to be walked, queued,
  with a worker, being sent, merged, skipped, dropped) to main's and the collector's
  program counters: which channels are still open, and that no worker is left once main
  is past `CloseWait`. The types alone do not exclude a send after the close; that it
  cannot happen follows from the order of the deferred calls, which is what `IInv` adds.
  From it follow the six safety properties and the refinement of `Batch`. Two more
  invariants stand on it: `BoundInv` counts the files in the channel and with the workers
  against the size of the pool, for `BoundedInFlight`; `OrderInv` says of a pool of one
  that the file in hand comes after the one the collector has, and both after what is
  counted, for `DeterministicOrder`.
- `DigestIndex_proofs`: `SnapshotInv` says that a snapshot agrees with the database
  unless it shows an absent key that was committed since, in which case the transaction
  is stale: this is what makes a commit a test-and-set. `RetryInv` says that a call
  which had to retry finds its key registered, hence at most one conflict and never 32.
- `Dedup_proofs`, the life of a file: `IInv` says that a busy worker holds its file alone
  and that it is not reported yet, that a result without an error belongs to a file that
  was handled, where the close hook is due, and that from the look-up to the save the
  index does not hold the file. The last part is what `NoRework` and `FailedIsRetried`
  need: nobody else can save the same key meanwhile. That holds only when no two inputs
  share a path, so these theorems assume `InjectiveKeys`; type correctness and the
  pairing of hooks do not.
- `Dedup_proofs`, deduplication: `StepRefines` maps every step to a step of
  `Preposterous` or a stutter, so its invariant can be used. On top of it `WrittenInv` (a
  record of a file in hand is written or still to come) gives `EveryRecordWritten`;
  `IndexMatches` and `WorkInv` give `RevisitsMatch`; `BackedInv` (what is registered or
  referred to is in the output in full, or in the hands of a worker about to write it)
  gives `PayloadKept`. `BackedInv` is what a failed write or a kill breaks, and the
  theorem assumes that neither happens: the run `Dedup_crash` shows that the assumption
  is needed. `DueInv` looks from the output back to the index: what a worker is about to
  write in full is the record registered for its digest, or gains nothing from a revisit.
  That stays true as long as nothing is taken out of the index again (`IndexStays`: it
  is kept and never reset, or there is one run), and gives `Deduplicated` whatever
  writes fail and however often the process is killed.
- `Writers_proofs`: `LockInv` leaves one worker at a time between looking at the map and
  filling it. With it `SharedInv` says that the map holds every shared writer and none
  twice, which gives `EveryWriterClosed` and `OneWriterPerTarget` without `--one-to-one`;
  `OwnInv` says the same of one-to-one writers, each of which belongs to one file and
  the worker that handles it until that worker closes it. `DirInv` and `FirstInv` add
  the directories, for `WrittenWhereDated`.
- `Walk_proofs`: `WalkIInv` says that what is still to be visited can be reached from the
  arguments, under roots the reference allows, and that what was given is noted. From it
  follow `GivenOnce` and that whatever is given can be reached. `FrontierInv` is for the
  other half of `WalkComplete`, that nothing is missed: there is a set of nodes that holds
  every directory processed and every argument begun, whose files have been given, and
  every step out of which leads back into it or to a node that is still to be visited. At
  the end nothing is, so the set is closed, and what can be reached lies within it, by
  induction along the path. `RootsFirst` goes with it: a directory that is a root is
  walked as one before it is met as anything else, where it might be left out.
- `Listing_proofs`: `LineInv` says who runs jobs (main, or workers of the pool) and that
  a goroutine whose line lacks its newline is on its way to write it while stdout works,
  for `LinesWhole`. `NoticeInv` relates the walk to the moment of cancellation: one file
  more at most is handed out after it, for `FailureNoticed`. `JobInv` is for
  `ListingComplete`: while nobody has cancelled, every file is in one place (ahead of the
  walk, in the channel, with one goroutine, or finished), the lines of a file in hand
  are what is due of the items its reader has passed, and the counters of `Nth` and
  `Limit` are the rank of the last of them among the records that pass the filter; a
  reader that stands at an error it was warned about (`Broken`) goes no further.
  `ConnInv` is for `ConnectionsReturned`: behind FTP, the connections out are those of
  the goroutines with a file open and of the walk in its look, and as many are lost at
  most as files have failed; a file fails once because (`OnceInv`) it is handed out once.
- `ArcReader_proofs`: `IInv` says that a search begins, and a record is found, where the
  last record delivered has ended, so that records adjoin and the reader stays within
  the file. `SoundInv` is for `ReadInPlace`: while the reader is in the part of the file
  before any damage, each place where it searches begins a record of that part, and what
  has been delivered is all records before it. It rests on lemmas about the reference:
  nothing within a record looks like its end, so the records of the sound part follow in
  one way only. The reference is a recursive function over the file; that its equation
  has a solution is itself proved, by a least counterexample, because `<` on the naturals
  is well-founded.
- `Console_proofs`: `ConsoleInv` is one invariant of five parts, each of which needs the
  others. The lists are what they should be: the visible rows are the places of the
  items that match, in order. A flush that was asked for is among the calls, once
  (`QueueInv`); and a flush is asked for or on its way, or what is drawn is the list
  (`DrawInv`, for `DrawnIsList`). The records of each load in the list are those up to
  the batch it holds, all of them if it is the current one; a load that was cancelled
  holds the last batch it will add (`LoadInv`, for `RecordsComplete`). `Focused` is an
  invariant of the views alone, for `FocusExists`. `PanelInv` says of a run in which no
  two reports of a selection were under way together that there is at most one goroutine
  yet to report or one call that waits; the first there is has the selected item, and if
  there is none the next layout of the panel shows it. Hence `PanelShowsSelection`. The
  lemmas about `ListWidget` (what each method makes of the rows and of the selection,
  and what it reports) and about `RecordPanel` are stated once and cited by all.

Only model-checked: the liveness properties of `BatchRun`, `Walk` and `Listing`
(`EndsUnlessSignalled`, `ResultsAreCounted`, `WalkEnds`, `EndsUnlessDrained`), since
liveness and fairness are out of the prover's reach. What is proved of `Dedup` under
faults, of `Walk` and of `Console` has the premises named above; that the code breaks
the properties without them is in the list of what it does not keep. Every inductive
invariant was checked with TLC before it was proved.

## What is left out

Not modelled at all: `aart`, the output hooks (called by the WARC library), the nedlib
reader (one record from one file), formatting of fields and logs, the parsing of command
lines, the documentation generator. WARC parsing and writing are in the library gowarc;
the models take its records, errors and write results as given.

Modelled in part:

- the console: full screen, dialogs, scrolling, mouse mode and how things are drawn are
  left out. The list of files is touched by the main loop alone, so its drawing is left
  out as well;
- the ARC reader: what a line means and how it is parsed, and that bytes of content may
  look like a line once the reader has lost its place;
- the handlers of `convert` and `validate`: what they change in a record, and the digests
  `validate` takes while it reads; their `Run`, the life of their files and their use of
  writers are modelled;
- the zip file system: `Seek`, `ReadAt` and the buffer of a member;
- the combinators `Skip`, `And`, `Or` and `Not`, which no command uses;
- the FTP file system: positions of reads within a file.

Next, most valuable first: `Read`, `ReadAt` and `Seek` of a zip member against a reference
file (a read error past which `Seek` has moved makes the next `Read` slice beyond its
buffer); the handler of `validate`, which copies a file as it reads it and takes its digests; the codec of
references and results, and `ParseSizeInBytes`, as pure functions with scaled-down
integers. To prove: that `ls` under its options implements an atomic listing of each
file, of which `LinesWhole` and `ListingComplete` are two sides.
