--------------------------- MODULE Listing_proofs ---------------------------
(***************************************************************************)
(* Theorems about Listing, for any files, options, faults and goroutines.  *)
(***************************************************************************)
EXTENDS Listing, FiniteSetTheorems, TLAPS

\* What a step of a job leaves alone, and what its end does.
LEMMA JobFrame ==
  ASSUME NEW a \in Agents, HandleFile(a), pc \in [Agents -> AgentPcs]
  PROVE  /\ UNCHANGED <<opt, main, next, exit, jobs>>
         /\ pc[a] \in AgentPcs \ {"idle", "exited", "took"}
         /\ pc' \in [Agents -> AgentPcs]
         /\ \A b \in Agents \ {a} : pc'[b] = pc[b]
         /\ \/ UNCHANGED failVars
            \/ IF opt.keepGoing THEN UNCHANGED <<cancelled, atCancel>> ELSE Cancel("error")
         /\ UNCHANGED stdout
<1> USE DEF JobOnly, Goto, Succeed, Fail, failVars, iterVars, outVars, mainVars, AgentPcs
<1>1. CASE OpenFile(a)
  BY <1>1 DEF OpenFile
<1>2. CASE OpenFails(a)
  BY <1>2 DEF OpenFails
<1>3. CASE StartReading(a)
  BY <1>3 DEF StartReading
<1>4. CASE Skip(a)
  BY <1>4 DEF Skip, Reading
<1>5. CASE Deliver(a)
  BY <1>5 DEF Deliver, Reading
<1>6. CASE ReadError(a)
  BY <1>6 DEF ReadError, Reading
<1>7. CASE EndOfFile(a)
  BY <1>7 DEF EndOfFile
<1>8. CASE WriteRecord(a)
  BY <1>8 DEF WriteRecord
<1>9. CASE WriteNewline(a)
  BY <1>9 DEF WriteNewline
<1>10. QED
  BY <1>1, <1>2, <1>3, <1>4, <1>5, <1>6, <1>7, <1>8, <1>9 DEF HandleFile

\* Only the two writes of a job touch what is on stdout.
LEMMA WriteFrame ==
  ASSUME NEW a \in Agents, HandleFile(a), ~WriteRecord(a), ~WriteNewline(a)
  PROVE  UNCHANGED <<unended, torn>> /\ pc[a] # "newline"
<1> USE DEF JobOnly, Goto, Succeed, Fail, failVars, iterVars, outVars, mainVars
<1>1. QED
  BY DEF HandleFile, OpenFile, OpenFails, StartReading, Skip, Reading, Deliver, ReadError, EndOfFile

\* With one worker at most, one goroutine at most runs a job.
LEMMA OneWriter ==
  ASSUME LineInv, Cardinality(opt.pool) <= 1,
         NEW a \in Agents, pc[a] \notin {"idle", "exited"},
         NEW b \in Agents, pc[b] \notin {"idle", "exited"}
  PROVE  a = b
<1>1. CASE opt.pool = {}
  BY <1>1 DEF LineInv, Agents
<1>2. CASE opt.pool # {}
  <2>1. IsFiniteSet(opt.pool) /\ opt.pool \subseteq Workers
    BY ListingAssumption, FS_Subset DEF LineInv, OptionType
  <2>2. Cardinality(opt.pool) = 1
    BY <1>2, <2>1, FS_CardinalityType, FS_EmptySet
  <2>3. PICK w : opt.pool = {w}
    BY <2>1, <2>2, FS_Singleton
  <2>4. QED
    BY <1>2, <2>3 DEF LineInv, Agents
<1>3. QED
  BY <1>1, <1>2

\* A step that writes nothing, and moves no goroutine that is about to end its line.
LEMMA QuietStep ==
  ASSUME LineInv, UNCHANGED <<opt, unended, torn>>, stdout' => stdout,
         pc' \in [Agents -> AgentPcs],
         \A b \in Agents : pc[b] = "newline" => pc'[b] = pc[b],
         opt.pool # {} => pc'[Main] = "idle",
         \A w \in Workers \ opt.pool : pc'[w] = "exited"
  PROVE  LineInv'
BY DEF LineInv, LinesWhole

LEMMA LineStep ==
  ASSUME LineInv, [Next]_vars
  PROVE  LineInv'
<1> USE ListingAssumption
<1>0. /\ pc \in [Agents -> AgentPcs] /\ Workers \subseteq Agents
      /\ Main \in Agents /\ Main \notin Workers
      /\ "idle" \in AgentPcs /\ "exited" \in AgentPcs /\ "took" \in AgentPcs
      /\ "open" \in AgentPcs /\ "read" \in AgentPcs /\ "newline" \in AgentPcs
  BY DEF LineInv, Agents, AgentPcs
<1>1. CASE MainNext
  <2>1. UNCHANGED <<opt, unended, torn, stdout>>
    BY <1>1 DEF MainNext, Look, WalkEnd, Found, WalkCanceled, WalkFails, Submit, Call, Return,
       MainOnly, StopWalk, outVars
  <2>2. \/ pc' = pc
        \/ opt.pool = {} /\ pc[Main] = "idle" /\ pc' = [pc EXCEPT ![Main] = "open"]
    BY <1>1 DEF MainNext, Look, WalkEnd, Found, WalkCanceled, WalkFails, Submit, Call, Return,
       MainOnly, StopWalk, Goto, MainAt
  <2>3. /\ pc' \in [Agents -> AgentPcs]
        /\ \A w \in Workers : pc'[w] = pc[w]
        /\ \A b \in Agents : pc[b] = "newline" => pc'[b] = pc[b]
        /\ opt.pool # {} => pc'[Main] = pc[Main]
    BY <1>0, <2>2
  <2>4. QED
    BY <2>1, <2>3, QuietStep DEF LineInv
<1>2. ASSUME NEW w \in Workers, WorkerNext(w) PROVE LineInv'
  <2>1. UNCHANGED <<opt, unended, torn, stdout>>
    BY <1>2 DEF WorkerNext, Take, Begin, Quit, WorkerOnly, outVars
  <2>2. \E p \in AgentPcs : pc' = [pc EXCEPT ![w] = p] /\ pc[w] \in {"idle", "took"}
    BY <1>0, <1>2 DEF WorkerNext, Take, Begin, Quit, Goto
  <2>3. /\ pc' \in [Agents -> AgentPcs] /\ pc'[Main] = pc[Main]
        /\ \A v \in Workers \ opt.pool : pc'[v] = pc[v]
        /\ \A b \in Agents : pc[b] = "newline" => pc'[b] = pc[b]
    BY <1>0, <2>2 DEF LineInv
  <2>4. QED
    BY <2>1, <2>3, QuietStep DEF LineInv
<1>3. ASSUME NEW a \in Agents, HandleFile(a) PROVE LineInv'
  <2>1. /\ opt' = opt /\ stdout' = stdout /\ pc' \in [Agents -> AgentPcs]
        /\ pc[a] \notin {"idle", "exited"}
        /\ \A b \in Agents \ {a} : pc'[b] = pc[b]
    BY <1>0, <1>3, JobFrame
  <2>2. /\ opt.pool # {} => pc'[Main] = "idle"
        /\ \A w \in Workers \ opt.pool : pc'[w] = "exited"
    BY <1>0, <2>1 DEF LineInv
  <2>3. CASE WriteRecord(a)
    <3>1. pc[a] = "write"
      BY <2>3 DEF WriteRecord
    <3>2. CASE UNCHANGED <<unended, torn>>
      BY <2>1, <2>2, <3>1, <3>2, QuietStep
    <3>3. CASE ~UNCHANGED <<unended, torn>>
      <4>1. /\ stdout /\ torn' = (torn \/ unended # {})
            /\ unended' = IF opt.oneWrite THEN unended ELSE unended \cup {a}
            /\ pc' = [pc EXCEPT ![a] = IF opt.oneWrite THEN "read" ELSE "newline"]
        BY <2>3, <3>3 DEF WriteRecord, OneWrite, Goto, outVars
      <4>2. \A b \in unended : b \in Agents /\ pc[b] = "newline" /\ b # a
        BY <3>1, <4>1 DEF LineInv
      <4>3. Cardinality(opt.pool) <= 1 \/ opt.oneWrite => unended = {}
        BY <2>1, <4>2, OneWriter DEF LineInv
      <4>4. LinesWhole'
        BY <2>1, <4>1, <4>3 DEF LineInv, LinesWhole
      <4>5. \A b \in unended' : b \in Agents /\ pc'[b] = "newline"
        BY <1>0, <4>1, <4>2 DEF LineInv
      <4>6. opt.oneWrite => unended' = {}
        BY <4>1 DEF LineInv
      <4>7. QED
        BY <2>1, <2>2, <4>4, <4>5, <4>6 DEF LineInv
    <3>4. QED
      BY <3>2, <3>3
  <2>4. CASE WriteNewline(a)
    <3>1. torn' = torn /\ unended' = IF stdout THEN unended \ {a} ELSE unended
      BY <2>4 DEF WriteNewline
    <3>2. LinesWhole' /\ (opt.oneWrite => unended' = {})
      BY <2>1, <3>1 DEF LineInv, LinesWhole
    <3>3. stdout => \A b \in unended' : b \in Agents /\ pc'[b] = "newline"
      BY <2>1, <3>1 DEF LineInv
    <3>4. QED
      BY <2>1, <2>2, <3>2, <3>3 DEF LineInv
  <2>5. CASE ~WriteRecord(a) /\ ~WriteNewline(a)
    BY <1>3, <2>1, <2>2, <2>5, WriteFrame, QuietStep
  <2>6. QED
    BY <2>3, <2>4, <2>5
<1>4. CASE Signal \/ StdoutFails \/ UNCHANGED vars
  <2>1. UNCHANGED <<opt, pc, unended, torn>> /\ (stdout' => stdout)
    BY <1>4 DEF Signal, StdoutFails, EnvOnly, outVars, vars
  <2>2. QED
    BY <2>1, QuietStep DEF LineInv
<1>5. QED
  BY <1>1, <1>2, <1>3, <1>4 DEF Next

\* Several workers write to one stdout, and no line is torn when each goes out in one
\* write, or when there is one worker at most.
THEOREM NoTornLines == Spec => []LinesWhole
<1>1. Init => LineInv
  <2>1. SUFFICES ASSUME Init PROVE LineInv
    OBVIOUS
  <2>2. pc \in [Agents -> AgentPcs] /\ pc[Main] = "idle" /\ \A w \in Workers \ opt.pool : pc[w] = "exited"
    BY <2>1, ListingAssumption DEF Init, Agents, AgentPcs
  <2>3. QED
    BY <2>1, <2>2 DEF Init, LineInv, LinesWhole
<1>2. LineInv /\ [Next]_vars => LineInv'
  BY LineStep
<1>3. LineInv => LinesWhole
  BY DEF LineInv
<1>4. QED
  BY <1>1, <1>2, <1>3, PTL DEF Spec

-----------------------------------------------------------------------------
LEMMA NoticeStep ==
  ASSUME LineInv, NoticeInv, [Next]_vars
  PROVE  NoticeInv'
<1> USE DEF Files
<1>0. Len(Contents) \in Nat /\ next \in Nat /\ DOMAIN Contents = 1 .. Len(Contents)
  BY ListingAssumption DEF NoticeInv
<1>1. CASE MainNext
  <2>1. UNCHANGED <<opt, failed, cancelled, atCancel>>
    BY <1>1 DEF MainNext, Look, WalkEnd, Found, WalkCanceled, WalkFails, Submit, Call, Return,
       MainOnly, StopWalk, failVars
  <2>2. CASE Look
    BY <1>0, <2>1, <2>2 DEF Look, MainAt, NoticeInv
  <2>3. CASE WalkEnd
    BY <1>0, <2>1, <2>3 DEF WalkEnd, MainAt, NoticeInv
  <2>4. CASE Found
    BY <1>0, <2>1, <2>4 DEF Found, MainAt, NoticeInv
  <2>5. CASE WalkCanceled \/ WalkFails
    BY <1>0, <2>1, <2>5 DEF WalkCanceled, WalkFails, StopWalk, MainAt, NoticeInv
  <2>6. CASE Submit \/ Call
    BY <1>0, <2>1, <2>6 DEF Submit, Call, MainAt, NoticeInv
  <2>7. CASE Return
    BY <1>0, <2>1, <2>7 DEF Return, MainAt, NoticeInv
  <2>8. QED
    BY <1>1, <2>2, <2>3, <2>4, <2>5, <2>6, <2>7 DEF MainNext
<1>2. ASSUME NEW w \in Workers, WorkerNext(w) PROVE NoticeInv'
  <2>1. UNCHANGED <<opt, main, next, exit, failed, cancelled, atCancel>>
    BY <1>2 DEF WorkerNext, Take, Begin, Quit, WorkerOnly, failVars, mainVars
  <2>2. QED
    BY <2>1 DEF NoticeInv
<1>3. ASSUME NEW a \in Agents, HandleFile(a) PROVE NoticeInv'
  <2>1. /\ UNCHANGED <<opt, main, next, exit>>
        /\ \/ UNCHANGED failVars
           \/ IF opt.keepGoing THEN UNCHANGED <<cancelled, atCancel>> ELSE Cancel("error")
    BY <1>3, JobFrame DEF LineInv
  <2>2. QED
    BY <1>0, <2>1 DEF NoticeInv, Cancel, failVars
<1>4. CASE Signal
  BY <1>0, <1>4 DEF Signal, EnvOnly, Cancel, NoticeInv, mainVars
<1>5. CASE StdoutFails \/ UNCHANGED vars
  <2>1. UNCHANGED <<opt, main, next, exit, failed, cancelled, atCancel>>
    BY <1>5 DEF StdoutFails, EnvOnly, vars, failVars, mainVars
  <2>2. QED
    BY <2>1 DEF NoticeInv
<1>6. QED
  BY <1>1, <1>2, <1>3, <1>4, <1>5 DEF Next

\* A run whose exit is clean has had no failure it was to stop for, but at the very end of
\* its walk.
THEOREM FailuresNoticed == Spec => []FailureNoticed
<1>1. Init => LineInv /\ NoticeInv
  <2>1. SUFFICES ASSUME Init PROVE LineInv /\ NoticeInv
    OBVIOUS
  <2>2. pc \in [Agents -> AgentPcs] /\ pc[Main] = "idle" /\ \A w \in Workers \ opt.pool : pc[w] = "exited"
    BY <2>1, ListingAssumption DEF Init, Agents, AgentPcs
  <2>3. QED
    BY <2>1, <2>2, ListingAssumption DEF Init, LineInv, LinesWhole, NoticeInv
<1>2. LineInv /\ NoticeInv /\ [Next]_vars => LineInv' /\ NoticeInv'
  BY LineStep, NoticeStep
<1>3. NoticeInv => FailureNoticed
  BY ListingAssumption DEF NoticeInv, FailureNoticed
<1>4. QED
  BY <1>1, <1>2, <1>3, PTL DEF Spec
-----------------------------------------------------------------------------
(* What the options ask for.                                               *)

\* One more item raises the rank by one when it matches.
LEMMA RankNext ==
  ASSUME NEW f, NEW n \in Nat
  PROVE  /\ Rank(f, n) \in Nat
         /\ Rank(f, n + 1) = Rank(f, n) + (IF Matches(f, n + 1) THEN 1 ELSE 0)
<1> DEFINE M(k) == {j \in 1 .. k : Matches(f, j)}
<1>1. IsFiniteSet(M(n))
  <2>1. IsFiniteSet(1 .. n)
    BY FS_Interval
  <2>2. QED
    BY <2>1, FS_Subset
<1>2. Rank(f, n) = Cardinality(M(n)) /\ Rank(f, n + 1) = Cardinality(M(n + 1))
  BY DEF Rank
<1>3. Cardinality(M(n)) \in Nat
  BY <1>1, FS_CardinalityType
<1>4. n + 1 \notin M(n) /\ M(n + 1) = IF Matches(f, n + 1) THEN M(n) \cup {n + 1} ELSE M(n)
  OBVIOUS
<1> HIDE DEF M
<1>5. Cardinality(M(n) \cup {n + 1}) = Cardinality(M(n)) + 1
  BY <1>1, <1>4, FS_AddElement
<1>6. QED
  BY <1>2, <1>3, <1>4, <1>5

LEMMA RankZero == ASSUME NEW f PROVE Rank(f, 0) = 0
<1>1. {j \in 1 .. 0 : Matches(f, j)} = {}
  OBVIOUS
<1>2. QED
  BY <1>1, FS_EmptySet DEF Rank

\* The rank never falls, and a later item that matches has a greater one.
LEMMA RankGrows ==
  ASSUME NEW f, NEW m \in Nat, NEW n \in Nat, m < n
  PROVE  /\ Rank(f, m) <= Rank(f, n)
         /\ Matches(f, n) => Rank(f, m) < Rank(f, n)
<1> DEFINE M(k) == {j \in 1 .. k : Matches(f, j)}
<1>1. IsFiniteSet(M(n)) /\ IsFiniteSet(M(n - 1))
  <2>1. IsFiniteSet(1 .. n) /\ IsFiniteSet(1 .. n - 1)
    BY FS_Interval
  <2>2. QED
    BY <2>1, FS_Subset
<1>2. M(m) \subseteq M(n) /\ M(m) \subseteq M(n - 1) /\ n - 1 \in Nat /\ (n - 1) + 1 = n
  OBVIOUS
<1>3. /\ Rank(f, m) = Cardinality(M(m)) /\ Rank(f, n) = Cardinality(M(n))
      /\ Rank(f, n - 1) = Cardinality(M(n - 1))
  BY DEF Rank
<1> HIDE DEF M
<1>4. Rank(f, m) <= Rank(f, n) /\ Rank(f, m) <= Rank(f, n - 1)
  BY <1>1, <1>2, <1>3, FS_Subset
<1>5. /\ Rank(f, n - 1) \in Nat /\ Rank(f, m) \in Nat
      /\ Rank(f, n) = Rank(f, n - 1) + (IF Matches(f, n) THEN 1 ELSE 0)
  <2>1. /\ Rank(f, n - 1) \in Nat /\ Rank(f, m) \in Nat
        /\ Rank(f, (n - 1) + 1) = Rank(f, n - 1) + (IF Matches(f, (n - 1) + 1) THEN 1 ELSE 0)
    BY <1>2, RankNext
  <2>2. QED
    BY <1>2, <2>1
<1>6. QED
  BY <1>4, <1>5

\* What is asked for depends on the options alone.
LEMMA DueFrame ==
  ASSUME opt' = opt
  PROVE  /\ \A f, i : (Matches(f, i)' <=> Matches(f, i)) /\ Rank(f, i)' = Rank(f, i)
         /\ \A f : Due(f)' = Due(f)
<1>1. \A f, i : (Matches(f, i)' <=> Matches(f, i)) /\ Rank(f, i)' = Rank(f, i)
  BY DEF Matches, Rank
<1>2. QED
  BY <1>1 DEF Due

\* The items before the first error depend on the file alone.
LEMMA WholeIs == \A f : Whole(f)' = Whole(f)
BY DEF Whole

-----------------------------------------------------------------------------
(* The jobs.                                                               *)

LEMMA FilesAre == Len(Contents) \in Nat /\ Files = 1 .. Len(Contents) /\ 0 \notin Files
BY ListingAssumption DEF Files

\* A step of the job of file f by goroutine a, or its end.
LEMMA JobStep ==
  ASSUME JobInv, cancelled = "no", cancelled' = "no",
         NEW a \in Agents, NEW f \in Files, job[a] = f,
         UNCHANGED <<opt, main, next, jobs>>, JobTypes',
         \A b \in Agents \ {a} : /\ pc'[b] = pc[b] /\ job'[b] = job[b] /\ pos'[b] = pos[b]
                                 /\ count'[b] = count[b] /\ over'[b] = over[b],
         \A g \in Files \ {f} : listed'[g] = listed[g],
         warned \subseteq warned', failed \subseteq failed',
         \/ /\ job'[a] = f /\ pc'[a] \notin {"idle", "exited"}
            /\ Reads(a)' => Progress(a)'
            /\ ~Reads(a)' => listed'[f] = <<>>
         \/ job'[a] = 0 /\ pc'[a] = "idle" /\ FileDone(f)'
  PROVE  JobInv'
<1>1. /\ JobTypes /\ PlacesInv /\ Workers \subseteq Agents /\ Main \in Agents
      /\ f # 0 /\ pc[a] \notin {"idle", "exited"} /\ opt.pool \subseteq Agents
  <2>1. JobTypes /\ PlacesInv /\ f # 0
    BY FilesAre DEF JobInv
  <2>2. opt.pool \subseteq Workers
    BY <2>1, ListingAssumption DEF JobTypes, OptionType
  <2>3. QED
    BY <2>1, <2>2 DEF PlacesInv, Agents
<1>2. /\ \A g, i : (Matches(g, i)' <=> Matches(g, i)) /\ Rank(g, i)' = Rank(g, i)
      /\ \A g : Due(g)' = Due(g)
  BY DueFrame
<1>3. PlacesInv'
  <2>1. ASSUME NEW b \in Agents
        PROVE  (job'[b] = 0 <=> pc'[b] \in {"idle", "exited"}) /\ job'[b] < next
    <3>1. CASE b = a
      <4>1. f < next /\ 0 < next
        BY <1>1, FilesAre DEF PlacesInv, JobTypes
      <4>2. QED
        BY <1>1, <3>1, <4>1
    <3>2. CASE b # a
      BY <1>1, <3>2 DEF PlacesInv
    <3>3. QED
      BY <3>1, <3>2
  <2>2. \A b, c \in Agents : b # c /\ job'[b] = job'[c] => job'[b] = 0
    BY <1>1 DEF PlacesInv
  <2>3. \A i \in DOMAIN jobs : jobs[i] < next /\ \A b \in Agents : job'[b] # jobs[i]
    <3>1. \A i \in DOMAIN jobs : jobs[i] # 0
      BY <1>1, FilesAre DEF JobTypes
    <3>2. QED
      BY <1>1, <3>1 DEF PlacesInv
  <2>4. \A w \in Agents : pc'[w] = "exited" => pc[w] = "exited"
    BY <1>1
  <2>5. main = "done" => pc'[Main] = "idle" /\ \A w \in Workers : pc'[w] = "exited"
    BY <1>1 DEF PlacesInv, Agents
  <2>6. QED
    BY <1>1, <2>1, <2>2, <2>3, <2>4, <2>5 DEF PlacesInv
<1>4. ASSUME NEW b \in Agents, Reads(b)' PROVE Progress(b)'
  <2>1. CASE b = a
    <3>1. job'[a] = f
      BY <1>4, <2>1 DEF Reads
    <3>2. QED
      BY <1>1, <1>4, <2>1, <3>1
  <2>2. CASE b # a
    <3>1. Reads(b) /\ Progress(b) /\ job[b] \in Files \ {f} /\ pc'[b] = pc[b]
      BY <1>1, <1>4, <2>2 DEF JobInv, Reads, PlacesInv, JobTypes
    <3>2. /\ job'[b] = job[b] /\ listed'[job[b]] = listed[job[b]] /\ Toll(b)' = Toll(b)
          /\ OnlyDue(job[b])' = OnlyDue(job[b]) /\ (Broken(b) => Broken(b)')
      BY <1>2, <2>2, <3>1 DEF Toll, OnlyDue, Broken, Ahead, Item
    <3>3. QED
      BY <1>2, <2>2, <3>1, <3>2 DEF Progress
  <2>3. QED
    BY <2>1, <2>2
<1>5. \A g : InChannel(g)' <=> InChannel(g)
  BY DEF InChannel
<1>6. f < next /\ ~InChannel(f)
  BY <1>1 DEF PlacesInv, InChannel
<1>7. ASSUME NEW g \in Files, g >= next \/ InChannel(g) PROVE listed'[g] = <<>>
  <2>1. g # f
    BY <1>1, <1>6, <1>7, FilesAre DEF JobTypes
  <2>2. QED
    BY <1>7, <2>1 DEF JobInv
<1>8. ASSUME NEW b \in Agents, job'[b] # 0, ~Reads(b)' PROVE listed'[job'[b]] = <<>>
  <2>1. CASE b = a
    BY <1>8, <2>1
  <2>2. CASE b # a
    <3>1. job'[b] = job[b] /\ ~Reads(b) /\ job[b] \in Files \ {f}
      BY <1>1, <1>8, <2>2 DEF Reads, PlacesInv, JobTypes
    <3>2. QED
      BY <1>8, <3>1 DEF JobInv
  <2>3. QED
    BY <2>1, <2>2
<1>9. ASSUME NEW g \in Files, g < next, ~InChannel(g), \A b \in Agents : job'[b] # g
      PROVE  FileDone(g)'
  <2>1. CASE g = f
    BY <1>9, <2>1
  <2>2. CASE g # f
    <3>1. \A b \in Agents : job[b] # g
      BY <1>9, <2>2
    <3>2. FileDone(g)
      BY <1>9, <3>1 DEF JobInv
    <3>3. listed'[g] = listed[g]
      BY <2>2
    <3>4. QED
      BY <1>2, <3>2, <3>3, WholeIs DEF FileDone, OnlyDue
  <2>3. QED
    BY <2>1, <2>2
<1>10. QED
  BY <1>3, <1>4, <1>5, <1>7, <1>8, <1>9 DEF JobInv
\* What a step of HandleFile does to the variables that are per goroutine or per file.
LEMMA HandleTypes ==
  ASSUME JobTypes, NEW a \in Agents, job[a] \in Files, UNCHANGED <<opt, main, next, jobs>>,
         \E p \in AgentPcs : Goto(a, p),
         UNCHANGED job \/ job' = [job EXCEPT ![a] = 0],
         UNCHANGED pos \/ (\E p \in Nat : pos' = [pos EXCEPT ![a] = p]),
         UNCHANGED count \/ (\E p \in Nat : count' = [count EXCEPT ![a] = p]),
         UNCHANGED over \/ (\E p \in BOOLEAN : over' = [over EXCEPT ![a] = p]),
         UNCHANGED listed \/ (\E p \in Seq(Nat) : listed' = [listed EXCEPT ![job[a]] = p])
  PROVE  /\ JobTypes'
         /\ \A b \in Agents \ {a} : /\ pc'[b] = pc[b] /\ job'[b] = job[b] /\ pos'[b] = pos[b]
                                    /\ count'[b] = count[b] /\ over'[b] = over[b]
         /\ \A g \in Files \ {job[a]} : listed'[g] = listed[g]
<1>1. pc' \in [Agents -> AgentPcs] /\ \A b \in Agents \ {a} : pc'[b] = pc[b]
  BY DEF JobTypes, Goto
<1>2. job' \in [Agents -> Files \cup {0}] /\ \A b \in Agents \ {a} : job'[b] = job[b]
  BY DEF JobTypes
<1>3. pos' \in [Agents -> Nat] /\ \A b \in Agents \ {a} : pos'[b] = pos[b]
  BY DEF JobTypes
<1>4. count' \in [Agents -> Nat] /\ \A b \in Agents \ {a} : count'[b] = count[b]
  BY DEF JobTypes
<1>5. over' \in [Agents -> BOOLEAN] /\ \A b \in Agents \ {a} : over'[b] = over[b]
  BY DEF JobTypes
<1>6. listed' \in [Files -> Seq(Nat)] /\ \A g \in Files \ {job[a]} : listed'[g] = listed[g]
  BY DEF JobTypes
<1>7. QED
  BY <1>1, <1>2, <1>3, <1>4, <1>5, <1>6 DEF JobTypes

\* A goroutine that runs HandleFile has a file.
LEMMA HandlesFile ==
  ASSUME JobInv, cancelled = "no", NEW a \in Agents, pc[a] \notin {"idle", "exited"}
  PROVE  job[a] \in Files /\ JobTypes /\ PlacesInv
BY FilesAre DEF JobInv, PlacesInv, JobTypes

\* A job that fails is done with.
LEMMA FailInv ==
  ASSUME JobInv, cancelled = "no", cancelled' = "no", NEW a \in Agents,
         pc[a] \notin {"idle", "exited"}, Fail(a),
         UNCHANGED <<opt, main, next, jobs, listed>>,
         UNCHANGED pos \/ (\E p \in Nat : pos' = [pos EXCEPT ![a] = p]),
         UNCHANGED count \/ (\E p \in Nat : count' = [count EXCEPT ![a] = p]),
         UNCHANGED over \/ (\E p \in BOOLEAN : over' = [over EXCEPT ![a] = p])
  PROVE  JobInv'
<1>1. job[a] \in Files /\ JobTypes
  BY HandlesFile
<1>2. /\ Goto(a, "idle") /\ "idle" \in AgentPcs /\ job' = [job EXCEPT ![a] = 0]
      /\ failed' = failed \cup {job[a]} /\ warned' = warned
  BY DEF Fail, AgentPcs
<1>3. /\ JobTypes'
      /\ \A b \in Agents \ {a} : /\ pc'[b] = pc[b] /\ job'[b] = job[b] /\ pos'[b] = pos[b]
                                 /\ count'[b] = count[b] /\ over'[b] = over[b]
      /\ \A g \in Files \ {job[a]} : listed'[g] = listed[g]
  BY <1>1, <1>2, HandleTypes
<1>4. PICK f \in Files : f = job[a]
  BY <1>1
<1>5. FileDone(f)'
  BY <1>2, <1>4 DEF FileDone
<1>6. job'[a] = 0 /\ pc'[a] = "idle"
  BY <1>1, <1>2 DEF JobTypes, Goto
<1>7. QED
  BY <1>2, <1>3, <1>4, <1>5, <1>6, JobStep

LEMMA OpenFileInv ==
  ASSUME JobInv, cancelled = "no", cancelled' = "no", NEW a \in Agents, OpenFile(a)
  PROVE  JobInv'
<1>1. pc[a] = "open" /\ UNCHANGED <<opt, main, next, jobs, listed, pos, count, over>>
  BY DEF OpenFile, JobOnly, mainVars, iterVars, outVars
<1>2. job[a] \in Files /\ JobTypes
  BY <1>1, HandlesFile
<1>3. CASE Fail(a)
  BY <1>1, <1>3, FailInv
<1>4. CASE Goto(a, "list") /\ UNCHANGED <<job, failVars, warned>>
  <2>1. "list" \in AgentPcs
    BY DEF AgentPcs
  <2>2. /\ JobTypes'
        /\ \A b \in Agents \ {a} : /\ pc'[b] = pc[b] /\ job'[b] = job[b] /\ pos'[b] = pos[b]
                                   /\ count'[b] = count[b] /\ over'[b] = over[b]
        /\ \A g \in Files \ {job[a]} : listed'[g] = listed[g]
    BY <1>1, <1>2, <1>4, <2>1, HandleTypes
  <2>3. PICK f \in Files : f = job[a]
    BY <1>2
  <2>4. job'[a] = f /\ pc'[a] = "list" /\ listed'[f] = <<>>
    <3>1. listed[f] = <<>>
      BY <1>1, <2>3, FilesAre DEF JobInv, Reads
    <3>2. QED
      BY <1>1, <1>2, <1>4, <2>3, <3>1 DEF JobTypes, Goto
  <2>5. ~Reads(a)' /\ failed \subseteq failed' /\ warned \subseteq warned'
    BY <1>4, <2>4 DEF Reads, failVars
  <2>6. QED
    BY <1>1, <2>2, <2>3, <2>4, <2>5, JobStep
<1>5. QED
  BY <1>3, <1>4 DEF OpenFile

LEMMA StartReadingInv ==
  ASSUME JobInv, cancelled = "no", cancelled' = "no", NEW a \in Agents, StartReading(a)
  PROVE  JobInv'
<1>1. /\ pc[a] = "list" /\ UNCHANGED <<opt, main, next, jobs, listed, job, failed, warned>>
      /\ Goto(a, "read") /\ "read" \in AgentPcs
      /\ pos' = [pos EXCEPT ![a] = 1] /\ count' = [count EXCEPT ![a] = 0]
      /\ over' = [over EXCEPT ![a] = FALSE]
  BY DEF StartReading, JobOnly, mainVars, outVars, failVars, AgentPcs
<1>2. job[a] \in Files /\ JobTypes
  BY <1>1, HandlesFile
<1>3. /\ JobTypes'
      /\ \A b \in Agents \ {a} : /\ pc'[b] = pc[b] /\ job'[b] = job[b] /\ pos'[b] = pos[b]
                                 /\ count'[b] = count[b] /\ over'[b] = over[b]
      /\ \A g \in Files \ {job[a]} : listed'[g] = listed[g]
  BY <1>1, <1>2, HandleTypes
<1>4. PICK f \in Files : f = job[a]
  BY <1>2
<1>5. /\ job'[a] = f /\ pc'[a] = "read" /\ pos'[a] = 1 /\ count'[a] = 0 /\ over'[a] = FALSE
  BY <1>1, <1>2, <1>4 DEF JobTypes, Goto
<1>6. listed'[f] = <<>>
  BY <1>1, <1>4, FilesAre DEF JobInv, Reads
<1>7. Progress(a)'
  <2>1. Rank(f, 0)' = 0 /\ Due(f)' = Due(f) /\ opt' = opt
    BY <1>1, RankZero, DueFrame
  <2>2. OnlyDue(f)' /\ Toll(a)' = 1
    BY <1>5, <1>6 DEF OnlyDue, Toll, ToSet
  <2>3. Len(Contents[f]) \in Nat
    BY ListingAssumption DEF Files
  <2>4. \A i \in Due(f) : ~(i < 1)
    BY <2>3, ListingAssumption DEF Due, Files
  <2>5. opt.limit > 0 => 0 < opt.limit
    BY <1>2, ListingAssumption DEF JobTypes, OptionType
  <2>6. QED
    BY <1>5, <1>6, <2>1, <2>2, <2>3, <2>4, <2>5 DEF Progress
<1>8. QED
  BY <1>1, <1>3, <1>4, <1>5, <1>7, JobStep DEF Reads
\* The items of a file.
LEMMA DueTypes ==
  ASSUME NEW f \in Files
  PROVE  /\ Len(Contents[f]) \in Nat /\ DOMAIN Contents[f] = 1 .. Len(Contents[f])
         /\ Due(f) \subseteq 1 .. Len(Contents[f])
<1>1. Contents[f] \in Seq(ItemKinds)
  BY ListingAssumption DEF Files
<1>2. QED
  BY <1>1 DEF Due

\* What a reader that reads stands before.
LEMMA ItemFacts ==
  ASSUME JobInv, cancelled = "no", NEW a \in Agents, Reading(a), NEW f, f = job[a]
  PROVE  /\ f \in Files /\ JobTypes /\ Reads(a) /\ Progress(a)
         /\ pos[a] \in 1 .. Len(Contents[f]) /\ pos[a] \in Nat /\ count[a] \in Nat /\ ~over[a]
         /\ pc[a] = "read" /\ Toll(a) = pos[a]
         /\ ~IsError(a) => (Accepted(a) <=> Matches(f, pos[a]))
         /\ IsError(a) => ~Matches(f, pos[a])
<1>1. pc[a] = "read" /\ ~over[a] /\ pos[a] <= Len(Contents[f])
  BY DEF Reading, Ahead
<1>2. f \in Files /\ JobTypes /\ Reads(a) /\ Progress(a)
  BY <1>1, HandlesFile DEF Reads, JobInv
<1>3. /\ pos[a] \in 1 .. Len(Contents[f]) /\ pos[a] \in Nat /\ count[a] \in Nat
      /\ Len(Contents[f]) \in Nat
  BY <1>1, <1>2, DueTypes DEF Progress, JobTypes
<1>4. Item(a) = Contents[f][pos[a]] /\ Item(a) \in ItemKinds
  <2>1. Contents[f] \in Seq(ItemKinds)
    BY <1>2, ListingAssumption DEF Files
  <2>2. QED
    BY <1>3, <2>1 DEF Item, Ahead
<1>5. /\ ~IsError(a) => (Accepted(a) <=> Matches(f, pos[a]))
      /\ IsError(a) => ~Matches(f, pos[a])
  BY <1>4 DEF IsError, Accepted, Matches, ItemKinds
<1>6. QED
  BY <1>1, <1>2, <1>3, <1>5 DEF Toll

\* The item is passed over: it is not asked for, and those behind it still are.
LEMMA SkipInv ==
  ASSUME JobInv, cancelled = "no", cancelled' = "no", NEW a \in Agents, Skip(a)
  PROVE  JobInv'
<1>1. PICK f \in Files : f = job[a]
  BY HandlesFile DEF Skip, Reading
<1>2. PICK p \in Nat : p = pos[a]
  BY ItemFacts DEF Skip
<1>3. /\ JobTypes /\ Reads(a) /\ Progress(a)
      /\ p \in 1 .. Len(Contents[f]) /\ count[a] \in Nat /\ ~over[a]
      /\ pc[a] = "read" /\ Toll(a) = p
      /\ Accepted(a) <=> Matches(f, p)
  BY <1>1, <1>2, ItemFacts DEF Skip
<1>4. /\ UNCHANGED <<opt, main, next, jobs, listed, job, failed, warned, pc, over>>
      /\ pos' = [pos EXCEPT ![a] = p + 1]
      /\ count' = [count EXCEPT ![a] = IF Accepted(a) THEN @ + 1 ELSE @]
  BY <1>2 DEF Skip, Advance, Counted, IsError, JobOnly, mainVars, outVars, failVars
<1>5. /\ JobTypes'
      /\ \A b \in Agents \ {a} : /\ pc'[b] = pc[b] /\ job'[b] = job[b] /\ pos'[b] = pos[b]
                                 /\ count'[b] = count[b] /\ over'[b] = over[b]
      /\ \A g \in Files \ {job[a]} : listed'[g] = listed[g]
  <2>1. Goto(a, pc[a]) /\ pc[a] \in AgentPcs
    BY <1>3, <1>4 DEF JobTypes, Goto
  <2>2. \E c \in Nat : count' = [count EXCEPT ![a] = c]
    <3>1. count[a] + 1 \in Nat
      BY <1>3
    <3>2. \/ count' = [count EXCEPT ![a] = count[a] + 1]
          \/ count' = [count EXCEPT ![a] = count[a]]
      BY <1>4
    <3>3. QED
      BY <1>3, <3>1, <3>2
  <2>3. p + 1 \in Nat
    OBVIOUS
  <2>4. \E q \in Nat : pos' = [pos EXCEPT ![a] = q]
    BY <1>4, <2>3
  <2>5. UNCHANGED <<opt, main, next, jobs, job, listed, over>>
    BY <1>4
  <2>6. QED
    BY <1>1, <1>3, <2>1, <2>2, <2>4, <2>5, HandleTypes
<1>6. /\ job'[a] = f /\ pc'[a] = "read" /\ pos'[a] = p + 1 /\ over'[a] = FALSE
      /\ count'[a] = IF Matches(f, p) THEN count[a] + 1 ELSE count[a]
  BY <1>1, <1>3, <1>4 DEF JobTypes
<1>7. count'[a] = Rank(f, p) /\ Len(Contents[f]) \in Nat
  <2>1. p - 1 \in Nat /\ (p - 1) + 1 = p /\ count[a] = Rank(f, p - 1)
    BY <1>1, <1>2, <1>3, DueTypes DEF Progress
  <2>2. Rank(f, (p - 1) + 1) = Rank(f, p - 1) + (IF Matches(f, (p - 1) + 1) THEN 1 ELSE 0)
    BY <2>1, RankNext
  <2>3. QED
    BY <1>3, <1>6, <2>1, <2>2, DueTypes
<1>8. p \notin Due(f)
  BY <1>3, <1>6, <1>7 DEF Skip, PassedOver, Due
<1>9. opt.nth = 0 => count'[a] = count[a]
  <2>1. opt.nth = 0 => ~Accepted(a)
    BY DEF Skip, PassedOver
  <2>2. QED
    BY <1>3, <1>6, <2>1
<1>10. Progress(a)'
  <2>1. /\ \A g, i : Rank(g, i)' = Rank(g, i)
        /\ \A g : Due(g)' = Due(g)
    BY <1>4, DueFrame
  <2>2. OnlyDue(f)' /\ Toll(a)' = p + 1 /\ (p + 1) - 1 = p
    BY <1>1, <1>3, <1>4, <1>6, <2>1 DEF OnlyDue, Toll, Progress
  <2>3. \A i \in DOMAIN listed[f] : listed[f][i] < p + 1
    BY <1>1, <1>3 DEF Progress, JobTypes
  <2>4. \A i \in Due(f) : i < p + 1 => i \in ToSet(listed[f])
    <3>1. \A i \in Due(f) : i < p => i \in ToSet(listed[f])
      BY <1>1, <1>3 DEF Progress
    <3>2. \A i \in Due(f) : i < p + 1 => i < p
      BY <1>8, DueTypes
    <3>3. QED
      BY <3>1, <3>2
  <2>5. opt.nth = 0 /\ opt.limit > 0 => count'[a] < opt.limit
    BY <1>1, <1>3, <1>9 DEF Progress
  <2>6. p + 1 \in 1 .. Len(Contents[f]) + 1
    BY <1>3, <1>7
  <2>7. QED
    BY <1>4, <1>6, <1>7, <2>1, <2>2, <2>3, <2>4, <2>5, <2>6 DEF Progress
<1>11. QED
  BY <1>1, <1>4, <1>5, <1>6, <1>10, JobStep DEF Reads

\* An error that --force goes on after ends the iteration, before anything behind it.
LEMMA ReadErrorInv ==
  ASSUME JobInv, cancelled = "no", cancelled' = "no", NEW a \in Agents, ReadError(a)
  PROVE  JobInv'
<1>1. PICK f \in Files : f = job[a]
  BY HandlesFile DEF ReadError, Reading
<1>2. /\ JobTypes /\ Reads(a) /\ Progress(a)
      /\ pos[a] \in 1 .. Len(Contents[f]) /\ pc[a] = "read"
  BY <1>1, ItemFacts DEF ReadError
<1>3. UNCHANGED <<opt, main, next, jobs, listed, pos, count>>
  BY DEF ReadError, JobOnly, mainVars, outVars
<1>4. CASE Fail(a) /\ UNCHANGED over
  BY <1>2, <1>3, <1>4, FailInv
<1>5. CASE /\ opt.force /\ warned' = warned \cup {f} /\ over' = [over EXCEPT ![a] = TRUE]
           /\ UNCHANGED <<pc, job, failVars, poolVars>>
  <2>1. Goto(a, pc[a]) /\ pc[a] \in AgentPcs
    BY <1>2, <1>5 DEF JobTypes, Goto
  <2>2. /\ JobTypes'
        /\ \A b \in Agents \ {a} : /\ pc'[b] = pc[b] /\ job'[b] = job[b] /\ pos'[b] = pos[b]
                                   /\ count'[b] = count[b] /\ over'[b] = over[b]
        /\ \A g \in Files \ {job[a]} : listed'[g] = listed[g]
    BY <1>1, <1>2, <1>3, <1>5, <2>1, HandleTypes
  <2>3. job'[a] = f /\ pc'[a] = "read" /\ over'[a] = TRUE
    BY <1>1, <1>2, <1>5 DEF JobTypes
  <2>4. Broken(a)'
    <3>1. pos[a] \in DOMAIN Contents[f]
      BY <1>2, DueTypes
    <3>2. Contents[f][pos[a]] = "bad"
      BY <1>1 DEF ReadError, IsError, Item, Ahead
    <3>3. QED
      BY <1>3, <1>5, <2>3, <3>1, <3>2 DEF Broken, Item, Ahead
  <2>5. Progress(a)'
    <3>1. /\ \A g, i : Rank(g, i)' = Rank(g, i)
          /\ \A g : Due(g)' = Due(g)
      BY <1>3, DueFrame
    <3>2. OnlyDue(f)' = OnlyDue(f) /\ Toll(a)' = Toll(a)
      BY <1>2, <1>3, <2>3, <3>1 DEF OnlyDue, Toll
    <3>3. QED
      BY <1>1, <1>2, <1>3, <2>3, <2>4, <3>1, <3>2 DEF Progress
  <2>6. failed' = failed /\ warned \subseteq warned'
    BY <1>5 DEF failVars
  <2>7. QED
    BY <1>1, <1>3, <2>2, <2>3, <2>5, <2>6, JobStep DEF Reads
<1>6. QED
  BY <1>1, <1>4, <1>5 DEF ReadError
\* The record that is let through is asked for, and when Nth or Limit end the iteration
\* with it, none behind it is.
LEMMA DeliverInv ==
  ASSUME JobInv, cancelled = "no", cancelled' = "no", NEW a \in Agents, Deliver(a)
  PROVE  JobInv'
<1>1. PICK f \in Files : f = job[a]
  BY HandlesFile DEF Deliver, Reading
<1>2. PICK p \in Nat : p = pos[a]
  BY ItemFacts DEF Deliver
<1>3. /\ JobTypes /\ Reads(a) /\ Progress(a)
      /\ p \in 1 .. Len(Contents[f]) /\ count[a] \in Nat /\ ~over[a]
      /\ pc[a] = "read" /\ Toll(a) = p
      /\ Accepted(a) /\ Matches(f, p)
  BY <1>1, <1>2, ItemFacts DEF Deliver, PassedOver
<1> DEFINE end == opt.nth > 0 \/ (opt.limit > 0 /\ count[a] + 1 >= opt.limit)
<1>4. /\ UNCHANGED <<opt, main, next, jobs, listed, job, failed, warned>> /\ Goto(a, "write")
      /\ pos' = [pos EXCEPT ![a] = p + 1]
      /\ count' = [count EXCEPT ![a] = count[a] + 1]
      /\ over' = [over EXCEPT ![a] = end]
  BY <1>2, <1>3 DEF Deliver, Advance, IsError, Counted, JobOnly, mainVars, outVars, failVars
<1>5. /\ JobTypes'
      /\ \A b \in Agents \ {a} : /\ pc'[b] = pc[b] /\ job'[b] = job[b] /\ pos'[b] = pos[b]
                                 /\ count'[b] = count[b] /\ over'[b] = over[b]
      /\ \A g \in Files \ {job[a]} : listed'[g] = listed[g]
  <2>1. "write" \in AgentPcs /\ p + 1 \in Nat /\ count[a] + 1 \in Nat /\ end \in BOOLEAN
    BY <1>3 DEF AgentPcs
  <2>2. /\ \E q \in Nat : pos' = [pos EXCEPT ![a] = q]
        /\ \E c \in Nat : count' = [count EXCEPT ![a] = c]
        /\ \E o \in BOOLEAN : over' = [over EXCEPT ![a] = o]
    BY <1>4, <2>1
  <2>3. UNCHANGED <<opt, main, next, jobs, job, listed>>
    BY <1>4
  <2>4. QED
    BY <1>1, <1>3, <1>4, <2>1, <2>2, <2>3, HandleTypes
<1>6. /\ job'[a] = f /\ pc'[a] = "write" /\ pos'[a] = p + 1 /\ over'[a] = end
      /\ count'[a] = count[a] + 1
  BY <1>1, <1>3, <1>4 DEF JobTypes, Goto
<1>7. count[a] + 1 = Rank(f, p) /\ Len(Contents[f]) \in Nat
  <2>1. p - 1 \in Nat /\ (p - 1) + 1 = p /\ count[a] = Rank(f, p - 1)
    BY <1>1, <1>2, <1>3, DueTypes DEF Progress
  <2>2. Rank(f, (p - 1) + 1) = Rank(f, p - 1) + (IF Matches(f, (p - 1) + 1) THEN 1 ELSE 0)
    BY <2>1, RankNext
  <2>3. QED
    BY <1>3, <2>1, <2>2, DueTypes
<1>8. opt.nth \in Nat /\ opt.limit \in Nat
  BY <1>3, ListingAssumption DEF JobTypes, OptionType
<1>9. p \in Due(f)
  <2>1. opt.nth > 0 => count[a] + 1 = opt.nth
    BY DEF Deliver, PassedOver
  <2>2. opt.nth = 0 /\ opt.limit > 0 => count[a] + 1 <= opt.limit
    BY <1>3, <1>8 DEF Progress
  <2>3. QED
    BY <1>3, <1>7, <2>1, <2>2, DueTypes DEF Due
<1>10. ASSUME end, NEW i \in Due(f) PROVE i < p + 1
  <2>1. i \in Nat /\ Matches(f, i)
    BY DueTypes DEF Due
  <2>2. SUFFICES ASSUME p < i PROVE FALSE
    BY <2>1
  <2>3. Rank(f, p) < Rank(f, i)
    BY <2>1, <2>2, RankGrows
  <2>4. Rank(f, p) \in Nat /\ Rank(f, i) \in Nat
    BY <2>1, RankNext
  <2>5. CASE opt.nth > 0
    <3>1. Rank(f, i) = opt.nth /\ Rank(f, p) = opt.nth
      BY <1>9, <2>5 DEF Due
    <3>2. QED
      BY <1>8, <2>3, <3>1
  <2>6. CASE opt.nth = 0
    <3>1. Rank(f, i) <= opt.limit /\ Rank(f, p) >= opt.limit
      BY <1>7, <1>10, <2>6 DEF Due
    <3>2. QED
      BY <1>8, <2>3, <2>4, <3>1
  <2>7. QED
    BY <1>8, <2>5, <2>6
<1> HIDE DEF end
<1>11. Progress(a)'
  <2>1. /\ \A g, i : Rank(g, i)' = Rank(g, i)
        /\ \A g : Due(g)' = Due(g)
    BY <1>4, DueFrame
  <2>2. OnlyDue(f)' /\ Toll(a)' = p /\ (p + 1) - 1 = p
    BY <1>1, <1>3, <1>4, <1>6, <2>1 DEF OnlyDue, Toll, Progress
  <2>3. /\ \A i \in DOMAIN listed[f] : listed[f][i] < p
        /\ \A i \in Due(f) : i < p => i \in ToSet(listed[f])
    BY <1>1, <1>3 DEF Progress
  <2>4. ~end /\ opt.nth = 0 /\ opt.limit > 0 => count[a] + 1 < opt.limit
    BY <1>3, <1>8 DEF end
  <2>5. p + 1 \in 1 .. Len(Contents[f]) + 1
    BY <1>3, <1>7
  <2>6. QED
    BY <1>4, <1>6, <1>7, <1>9, <1>10, <2>1, <2>2, <2>3, <2>4, <2>5 DEF Progress
<1>12. QED
  BY <1>1, <1>4, <1>5, <1>6, <1>11, JobStep DEF Reads

\* At the end of the iteration all that is asked for has been listed.
LEMMA EndOfFileInv ==
  ASSUME JobInv, cancelled = "no", cancelled' = "no", NEW a \in Agents, EndOfFile(a)
  PROVE  JobInv'
<1>1. /\ pc[a] = "read" /\ (over[a] \/ ~(pos[a] <= Len(Contents[job[a]])))
      /\ Goto(a, "idle") /\ "idle" \in AgentPcs /\ job' = [job EXCEPT ![a] = 0]
      /\ UNCHANGED <<opt, main, next, jobs, listed, pos, count, over, failed, warned>>
  BY DEF EndOfFile, Reading, Ahead, Succeed, JobOnly, mainVars, iterVars, outVars, failVars, AgentPcs
<1>2. job[a] \in Files /\ JobTypes
  BY <1>1, HandlesFile
<1>3. /\ JobTypes'
      /\ \A b \in Agents \ {a} : /\ pc'[b] = pc[b] /\ job'[b] = job[b] /\ pos'[b] = pos[b]
                                 /\ count'[b] = count[b] /\ over'[b] = over[b]
      /\ \A g \in Files \ {job[a]} : listed'[g] = listed[g]
  BY <1>1, <1>2, HandleTypes
<1>4. PICK f \in Files : f = job[a]
  BY <1>2
<1>5. Progress(a) /\ Toll(a) = pos[a] /\ pos[a] \in Nat /\ Len(Contents[f]) \in Nat
  BY <1>1, <1>2, DueTypes DEF JobInv, Reads, Toll, JobTypes
<1>6. FileDone(f)
  <2>1. OnlyDue(f) /\ \A i \in Due(f) : i < pos[a] => i \in ToSet(listed[f])
    BY <1>4, <1>5 DEF Progress
  <2>2. CASE Broken(a)
    <3>1. /\ pos[a] \in DOMAIN Contents[f] /\ Contents[f][pos[a]] = "bad"
          /\ opt.force /\ f \in warned
      BY <1>4, <2>2 DEF Broken, Item, Ahead
    <3>2. \A i \in Due(f) \cap Whole(f) : i < pos[a]
      BY <1>5, <3>1, DueTypes DEF Whole
    <3>3. QED
      BY <2>1, <3>1, <3>2 DEF FileDone
  <2>3. CASE \A i \in Due(f) : i < pos[a]
    BY <2>1, <2>3 DEF FileDone
  <2>4. CASE ~(pos[a] <= Len(Contents[f]))
    <3>1. \A i \in Due(f) : i < pos[a]
      BY <1>5, <2>4, DueTypes
    <3>2. QED
      BY <2>3, <3>1
  <2>5. QED
    BY <1>1, <1>4, <1>5, <2>2, <2>3, <2>4 DEF Progress
<1>7. FileDone(f)'
  <2>1. Due(f)' = Due(f) /\ Whole(f)' = Whole(f)
    BY <1>1, DueFrame, WholeIs
  <2>2. QED
    BY <1>1, <1>6, <2>1 DEF FileDone, OnlyDue
<1>8. job'[a] = 0 /\ pc'[a] = "idle"
  BY <1>1, <1>2 DEF JobTypes, Goto
<1>9. QED
  BY <1>1, <1>3, <1>4, <1>7, <1>8, JobStep

\* The record that was let through is listed behind the others.
LEMMA WriteRecordInv ==
  ASSUME JobInv, cancelled = "no", cancelled' = "no", NEW a \in Agents, WriteRecord(a)
  PROVE  JobInv'
<1>1. /\ pc[a] = "write" /\ UNCHANGED <<opt, main, next, jobs, pos, count, over>>
  BY DEF WriteRecord, JobOnly, mainVars, iterVars
<1>2. job[a] \in Files /\ JobTypes
  BY <1>1, HandlesFile
<1>3. CASE Fail(a) /\ UNCHANGED outVars
  BY <1>1, <1>3, FailInv DEF outVars
<1>4. CASE /\ listed' = [listed EXCEPT ![job[a]] = Append(@, pos[a] - 1)]
           /\ Goto(a, IF OneWrite THEN "read" ELSE "newline")
           /\ UNCHANGED <<job, failVars, warned, poolVars>>
  <2>1. PICK f \in Files : f = job[a]
    BY <1>2
  <2>2. PICK p \in Nat : p = pos[a]
    BY <1>2 DEF JobTypes
  <2>3. Progress(a) /\ Toll(a) = p - 1 /\ p - 1 \in Due(f)
    BY <1>1, <2>1, <2>2 DEF JobInv, Reads, Toll, Progress
  <2>4. p - 1 \in Nat /\ listed[f] \in Seq(Nat)
    BY <1>2, <2>3, DueTypes DEF JobTypes
  <2>5. /\ JobTypes'
        /\ \A b \in Agents \ {a} : /\ pc'[b] = pc[b] /\ job'[b] = job[b] /\ pos'[b] = pos[b]
                                   /\ count'[b] = count[b] /\ over'[b] = over[b]
        /\ \A g \in Files \ {job[a]} : listed'[g] = listed[g]
    <3>1. \E w \in AgentPcs : Goto(a, w)
      BY <1>4 DEF AgentPcs
    <3>2. Append(listed[f], p - 1) \in Seq(Nat)
      BY <2>4
    <3>3. \E s \in Seq(Nat) : listed' = [listed EXCEPT ![job[a]] = s]
      BY <1>4, <2>1, <2>2, <3>2
    <3>4. QED
      BY <1>1, <1>2, <1>4, <3>1, <3>3, HandleTypes
  <2>6. /\ job'[a] = f /\ pc'[a] \in {"read", "newline"} /\ pos'[a] = p
        /\ listed'[f] = Append(listed[f], p - 1)
    BY <1>1, <1>2, <1>4, <2>1, <2>2 DEF JobTypes, Goto
  <2>7. /\ ToSet(listed'[f]) = ToSet(listed[f]) \cup {p - 1}
        /\ \A i \in DOMAIN listed'[f] :
             \/ i \in DOMAIN listed[f] /\ listed'[f][i] = listed[f][i]
             \/ i = Len(listed[f]) + 1 /\ listed'[f][i] = p - 1
        /\ DOMAIN listed[f] = 1 .. Len(listed[f]) /\ Len(listed[f]) \in Nat
    <3>1. /\ DOMAIN listed'[f] = 1 .. Len(listed[f]) + 1
          /\ \A i \in 1 .. Len(listed[f]) : listed'[f][i] = listed[f][i]
          /\ listed'[f][Len(listed[f]) + 1] = p - 1
          /\ DOMAIN listed[f] = 1 .. Len(listed[f]) /\ Len(listed[f]) \in Nat
      BY <2>4, <2>6
    <3>2. 1 .. Len(listed[f]) + 1 = 1 .. Len(listed[f]) \cup {Len(listed[f]) + 1}
      BY <3>1
    <3>3. QED
      BY <3>1, <3>2 DEF ToSet
  <2>8. Progress(a)'
    <3>1. /\ \A g, i : Rank(g, i)' = Rank(g, i)
          /\ \A g : Due(g)' = Due(g)
      BY <1>1, DueFrame
    <3>2. Toll(a)' = p
      BY <2>6 DEF Toll
    <3>3. \A i \in DOMAIN listed[f] : listed[f][i] < p - 1 /\ listed[f][i] \in Nat
      BY <2>1, <2>3, <2>4 DEF Progress
    <3>4. \A i \in DOMAIN listed'[f] : listed'[f][i] < p
      BY <2>4, <2>7, <3>3
    <3>5. OnlyDue(f)'
      <4>1. ToSet(listed'[f]) \subseteq Due(f)
        BY <2>1, <2>3, <2>7 DEF Progress, OnlyDue
      <4>2. ASSUME NEW i \in DOMAIN listed'[f], NEW j \in DOMAIN listed'[f], i < j
            PROVE  listed'[f][i] < listed'[f][j]
        <5>1. i \in DOMAIN listed[f]
          BY <2>7, <4>2
        <5>2. CASE j \in DOMAIN listed[f]
          BY <2>1, <2>3, <2>7, <4>2, <5>1, <5>2 DEF Progress, OnlyDue
        <5>3. CASE j = Len(listed[f]) + 1
          BY <2>4, <2>7, <3>3, <5>1, <5>3
        <5>4. QED
          BY <2>7, <5>2, <5>3
      <4>3. QED
        BY <3>1, <4>1, <4>2 DEF OnlyDue
    <3>6. \A i \in Due(f) : i < p => i \in ToSet(listed'[f])
      <4>1. \A i \in Due(f) : i < p - 1 => i \in ToSet(listed[f])
        BY <2>1, <2>3 DEF Progress
      <4>2. \A i \in Due(f) : i < p => i < p - 1 \/ i = p - 1
        BY DueTypes
      <4>3. QED
        BY <2>7, <4>1, <4>2
    <3>7. Broken(a) => Broken(a)'
      BY <1>1, <1>4, <2>1, <2>6 DEF Broken, Ahead, Item
    <3>8. QED
      BY <1>1, <2>1, <2>2, <2>3, <2>6, <3>1, <3>2, <3>4, <3>5, <3>6, <3>7 DEF Progress
  <2>9. failed' = failed /\ warned' = warned
    BY <1>4 DEF failVars
  <2>10. Reads(a)'
    BY <2>6 DEF Reads
  <2>11. QED
    BY <1>1, <2>1, <2>5, <2>6, <2>8, <2>9, <2>10, JobStep
<1>5. QED
  BY <1>3, <1>4 DEF WriteRecord

LEMMA WriteNewlineInv ==
  ASSUME JobInv, cancelled = "no", cancelled' = "no", NEW a \in Agents, WriteNewline(a)
  PROVE  JobInv'
<1>1. /\ pc[a] = "newline" /\ UNCHANGED <<opt, main, next, jobs, listed, pos, count, over>>
  BY DEF WriteNewline, JobOnly, mainVars, iterVars
<1>2. job[a] \in Files /\ JobTypes
  BY <1>1, HandlesFile
<1>3. CASE Fail(a)
  BY <1>1, <1>3, FailInv
<1>4. CASE Goto(a, "read") /\ UNCHANGED <<job, failVars, warned, poolVars>>
  <2>1. PICK f \in Files : f = job[a]
    BY <1>2
  <2>2. /\ JobTypes'
        /\ \A b \in Agents \ {a} : /\ pc'[b] = pc[b] /\ job'[b] = job[b] /\ pos'[b] = pos[b]
                                   /\ count'[b] = count[b] /\ over'[b] = over[b]
        /\ \A g \in Files \ {job[a]} : listed'[g] = listed[g]
    <3>1. "read" \in AgentPcs
      BY DEF AgentPcs
    <3>2. QED
      BY <1>1, <1>2, <1>4, <3>1, HandleTypes
  <2>3. job'[a] = f /\ pc'[a] = "read"
    BY <1>2, <1>4, <2>1 DEF JobTypes, Goto
  <2>4. Progress(a)'
    <3>1. /\ \A g, i : Rank(g, i)' = Rank(g, i)
          /\ \A g : Due(g)' = Due(g)
      BY <1>1, DueFrame
    <3>2. Progress(a) /\ Toll(a)' = Toll(a) /\ OnlyDue(f)' = OnlyDue(f)
      BY <1>1, <2>3, <3>1 DEF JobInv, Reads, Toll, OnlyDue
    <3>3. Broken(a) => Broken(a)'
      BY <1>1, <1>4, <2>1, <2>3 DEF Broken, Ahead, Item
    <3>4. QED
      BY <1>1, <2>1, <2>3, <3>1, <3>2, <3>3 DEF Progress
  <2>5. failed' = failed /\ warned' = warned
    BY <1>4 DEF failVars
  <2>6. Reads(a)'
    BY <2>3 DEF Reads
  <2>7. QED
    BY <1>1, <2>1, <2>2, <2>3, <2>4, <2>5, <2>6, JobStep
<1>5. QED
  BY <1>3, <1>4 DEF WriteNewline

LEMMA HandleFileInv ==
  ASSUME JobInv, cancelled = "no", cancelled' = "no", NEW a \in Agents, HandleFile(a)
  PROVE  JobInv'
<1>1. CASE OpenFails(a)
  BY <1>1, FailInv DEF OpenFails, JobOnly, mainVars, iterVars, outVars
<1>2. QED
  BY <1>1, OpenFileInv, StartReadingInv, SkipInv, DeliverInv, ReadErrorInv, EndOfFileInv,
     WriteRecordInv, WriteNewlineInv DEF HandleFile
\* A step that moves a file from one place to the next, and reads and writes nothing.
LEMMA PlacesStep ==
  ASSUME JobInv, cancelled = "no", cancelled' = "no",
         UNCHANGED <<opt, pos, count, over, listed, failed, warned>>, JobTypes', PlacesInv',
         \A b \in Agents : Reads(b)' => Reads(b) /\ pc'[b] = pc[b] /\ job'[b] = job[b],
         \A f \in Files : f >= next' \/ InChannel(f)' => f >= next \/ InChannel(f),
         \A b \in Agents : job'[b] # 0 /\ ~Reads(b)' =>
           \/ job'[b] = job[b] /\ ~Reads(b)
           \/ job'[b] \in Files /\ (job'[b] >= next \/ InChannel(job'[b])),
         \A f \in Files : f < next' /\ ~InChannel(f)' /\ (\A b \in Agents : job'[b] # f) =>
           f < next /\ ~InChannel(f) /\ (\A b \in Agents : job[b] # f)
  PROVE  JobInv'
<1>1. /\ \A g, i : (Matches(g, i)' <=> Matches(g, i)) /\ Rank(g, i)' = Rank(g, i)
      /\ \A g : Due(g)' = Due(g)
  BY DueFrame
<1>2. ASSUME NEW b \in Agents, Reads(b)' PROVE Progress(b)'
  <2>1. Progress(b) /\ pc'[b] = pc[b] /\ job'[b] = job[b]
    BY <1>2 DEF JobInv
  <2>2. /\ Toll(b)' = Toll(b) /\ \A g : OnlyDue(g)' = OnlyDue(g)
        /\ Broken(b) => Broken(b)'
    BY <1>1, <2>1 DEF Toll, OnlyDue, Broken, Ahead, Item
  <2>3. QED
    BY <1>1, <2>1, <2>2 DEF Progress
<1>3. \A f : FileDone(f)' = FileDone(f)
  BY <1>1, WholeIs DEF FileDone, OnlyDue
<1>4. \A f \in Files : f >= next' \/ InChannel(f)' => listed'[f] = <<>>
  BY DEF JobInv
<1>5. \A b \in Agents : job'[b] # 0 /\ ~Reads(b)' => listed'[job'[b]] = <<>>
  BY DEF JobInv
<1>6. \A f \in Files : f < next' /\ ~InChannel(f)' /\ (\A b \in Agents : job'[b] # f) => FileDone(f)'
  BY <1>3 DEF JobInv
<1>7. QED
  BY <1>2, <1>4, <1>5, <1>6 DEF JobInv

\* A step that moves no file.
LEMMA MainStepInv ==
  ASSUME JobInv, cancelled = "no", cancelled' = "no",
         UNCHANGED <<opt, next, jobs, pc, job, pos, count, over, listed, failed, warned>>,
         main' \in {"look", "stat", "submit", "wait", "done"},
         main \in {"wait", "done"} => main' \in {"wait", "done"},
         main' = "done" /\ main # "done" =>
           pc[Main] = "idle" /\ \A w \in Workers : pc[w] = "exited"
  PROVE  JobInv'
<1>1. JobTypes'
  BY DEF JobInv, JobTypes
<1>2. PlacesInv'
  BY DEF JobInv, PlacesInv
<1>3. /\ \A b \in Agents : Reads(b)' <=> Reads(b)
      /\ \A f : InChannel(f)' <=> InChannel(f)
  BY DEF Reads, InChannel
<1>4. QED
  BY <1>1, <1>2, <1>3, PlacesStep

LEMMA SubmitInv ==
  ASSUME JobInv, NoticeInv, cancelled = "no", cancelled' = "no", Submit
  PROVE  JobInv'
<1>1. /\ main = "submit" /\ opt.pool # {} /\ jobs' = Append(jobs, next) /\ next' = next + 1
      /\ main' = "look" /\ next \in Files
      /\ UNCHANGED <<opt, pc, job, pos, count, over, listed, failed, warned>>
  BY DEF Submit, MainAt, MainOnly, iterVars, outVars, failVars, NoticeInv
<1>2. JobTypes /\ PlacesInv
  BY DEF JobInv
<1>3. JobTypes'
  BY <1>1, <1>2, FilesAre DEF JobTypes
<1>4. /\ jobs \in Seq(Files) /\ Len(jobs) \in Nat /\ DOMAIN jobs = 1 .. Len(jobs)
      /\ DOMAIN jobs' = 1 .. Len(jobs) + 1 /\ jobs'[Len(jobs) + 1] = next
      /\ \A i \in DOMAIN jobs : i \in DOMAIN jobs' /\ jobs'[i] = jobs[i] /\ jobs[i] \in Files
      /\ \A i \in DOMAIN jobs' : i \in DOMAIN jobs \/ i = Len(jobs) + 1
  BY <1>1, <1>2 DEF JobTypes
<1>5. next \in Nat /\ \A b \in Agents : job[b] \in Nat /\ job[b] < next
  BY <1>2, FilesAre DEF PlacesInv, JobTypes
<1>6. \A i \in DOMAIN jobs : jobs[i] \in Nat /\ jobs[i] < next
  BY <1>2, <1>4, FilesAre DEF PlacesInv
<1>7. PlacesInv'
  <2>1. \A b \in Agents : (job[b] = 0 <=> pc[b] \in {"idle", "exited"}) /\ job[b] < next + 1
    BY <1>2, <1>5 DEF PlacesInv
  <2>2. \A i \in DOMAIN jobs' : jobs'[i] < next + 1 /\ \A b \in Agents : job[b] # jobs'[i]
    BY <1>2, <1>4, <1>5, <1>6 DEF PlacesInv
  <2>3. \A i, j \in DOMAIN jobs' : i # j => jobs'[i] # jobs'[j]
    BY <1>2, <1>4, <1>5, <1>6 DEF PlacesInv
  <2>4. \A w \in opt.pool : pc[w] # "exited"
    BY <1>1, <1>2 DEF PlacesInv
  <2>5. QED
    BY <1>1, <1>2, <2>1, <2>2, <2>3, <2>4 DEF PlacesInv
<1>8. \A f : InChannel(f)' <=> InChannel(f) \/ f = next
  BY <1>4 DEF InChannel
<1>9. \A b \in Agents : Reads(b)' <=> Reads(b)
  BY <1>1 DEF Reads
<1>10. /\ \A f \in Files : f >= next' \/ InChannel(f)' => f >= next \/ InChannel(f)
       /\ \A f \in Files : f < next' /\ ~InChannel(f)' => f < next /\ ~InChannel(f)
  BY <1>1, <1>5, <1>8, FilesAre
<1>11. QED
  BY <1>1, <1>3, <1>7, <1>9, <1>10, PlacesStep

LEMMA CallInv ==
  ASSUME JobInv, NoticeInv, cancelled = "no", cancelled' = "no", Call
  PROVE  JobInv'
<1>1. /\ main = "submit" /\ opt.pool = {} /\ pc[Main] = "idle" /\ next' = next + 1
      /\ main' = "look" /\ next \in Files
      /\ pc' = [pc EXCEPT ![Main] = "open"] /\ job' = [job EXCEPT ![Main] = next]
      /\ UNCHANGED <<opt, jobs, pos, count, over, listed, failed, warned>>
  BY DEF Call, MainAt, Goto, iterVars, outVars, failVars, NoticeInv
<1>2. JobTypes /\ PlacesInv /\ Main \in Agents
  BY DEF JobInv, Agents
<1>3. JobTypes'
  <2>1. "open" \in AgentPcs
    BY DEF AgentPcs
  <2>2. next' \in 1 .. Len(Contents) + 1
    BY <1>1, FilesAre
  <2>3. pc' \in [Agents -> AgentPcs] /\ job' \in [Agents -> Files \cup {0}]
    BY <1>1, <1>2, <2>1 DEF JobTypes
  <2>4. QED
    BY <1>1, <1>2, <2>2, <2>3 DEF JobTypes
<1>4. /\ pc'[Main] = "open" /\ job'[Main] = next
      /\ \A b \in Agents \ {Main} : pc'[b] = pc[b] /\ job'[b] = job[b]
  BY <1>1, <1>2 DEF JobTypes
<1>5. /\ next \in Nat /\ next # 0 /\ jobs = <<>>
      /\ \A b \in Agents : job[b] \in Nat /\ job[b] < next
  BY <1>1, <1>2, FilesAre DEF PlacesInv, JobTypes
<1>6. PlacesInv'
  <2>1. \A b \in Agents : (job'[b] = 0 <=> pc'[b] \in {"idle", "exited"}) /\ job'[b] < next + 1
    BY <1>2, <1>4, <1>5 DEF PlacesInv
  <2>2. \A b, c \in Agents : b # c /\ job'[b] = job'[c] => job'[b] = 0
    BY <1>2, <1>4, <1>5 DEF PlacesInv
  <2>3. DOMAIN jobs = {}
    BY <1>5
  <2>4. QED
    BY <1>1, <1>5, <2>1, <2>2, <2>3 DEF PlacesInv
<1>7. \A f : ~InChannel(f)' /\ ~InChannel(f)
  BY <1>1, <1>5 DEF InChannel
<1>8. \A b \in Agents : Reads(b)' => Reads(b) /\ pc'[b] = pc[b] /\ job'[b] = job[b]
  BY <1>4 DEF Reads
<1>9. \A b \in Agents : job'[b] # 0 /\ ~Reads(b)' =>
        (job'[b] = job[b] /\ ~Reads(b)) \/ (job'[b] \in Files /\ job'[b] >= next)
  BY <1>1, <1>4, <1>5 DEF Reads
<1>10. \A f \in Files : f >= next' => f >= next
  BY <1>1, <1>5, FilesAre
<1>11. ASSUME NEW f \in Files, f < next', \A b \in Agents : job'[b] # f
       PROVE  f < next /\ \A b \in Agents : job[b] # f
  <2>1. f # next /\ f \in Nat
    BY <1>2, <1>4, <1>11, FilesAre
  <2>2. job[Main] = 0 /\ f # 0
    BY <1>1, <1>2, FilesAre DEF PlacesInv
  <2>3. QED
    BY <1>1, <1>4, <1>5, <1>11, <2>1, <2>2
<1>12. QED
  BY <1>1, <1>3, <1>6, <1>7, <1>8, <1>9, <1>10, <1>11, PlacesStep

LEMMA MainInv ==
  ASSUME JobInv, NoticeInv, cancelled = "no", cancelled' = "no", MainNext
  PROVE  JobInv'
<1>1. CASE Look \/ WalkEnd \/ Found \/ WalkCanceled \/ WalkFails
  <2>1. /\ UNCHANGED <<opt, next, jobs, pc, job, pos, count, over, listed, failed, warned>>
        /\ main' \in {"stat", "submit", "wait"} /\ main \in {"look", "stat"}
    BY <1>1 DEF Look, WalkEnd, Found, WalkCanceled, WalkFails, MainAt, StopWalk, MainOnly,
       iterVars, outVars, failVars
  <2>2. QED
    BY <2>1, MainStepInv
<1>2. CASE Return
  <2>1. /\ UNCHANGED <<opt, next, jobs, pc, job, pos, count, over, listed, failed, warned>>
        /\ main' = "done" /\ pc[Main] = "idle" /\ \A w \in Workers : pc[w] = "exited"
    BY <1>2 DEF Return, MainAt, MainOnly, iterVars, outVars, failVars
  <2>2. QED
    BY <2>1, MainStepInv
<1>3. QED
  BY <1>1, <1>2, SubmitInv, CallInv DEF MainNext

LEMMA TakeInv ==
  ASSUME JobInv, cancelled = "no", cancelled' = "no", NEW w \in Workers, Take(w)
  PROVE  JobInv'
<1>1. /\ pc[w] = "idle" /\ jobs # <<>> /\ pc' = [pc EXCEPT ![w] = "took"]
      /\ job' = [job EXCEPT ![w] = Head(jobs)] /\ jobs' = Tail(jobs)
      /\ UNCHANGED <<opt, main, next, pos, count, over, listed, failed, warned>>
  BY DEF Take, Goto, WorkerOnly, mainVars, iterVars, outVars, failVars
<1>2. JobTypes /\ PlacesInv /\ w \in Agents
  BY DEF JobInv, Agents
<1>3. /\ jobs \in Seq(Files) /\ Len(jobs) \in Nat /\ Len(jobs) > 0 /\ DOMAIN jobs = 1 .. Len(jobs)
      /\ Head(jobs) = jobs[1] /\ jobs[1] \in Files /\ 1 \in DOMAIN jobs
      /\ jobs' \in Seq(Files) /\ DOMAIN jobs' = 1 .. Len(jobs) - 1
      /\ \A i \in DOMAIN jobs' : i + 1 \in DOMAIN jobs /\ i + 1 # 1 /\ jobs'[i] = jobs[i + 1]
  BY <1>1, <1>2 DEF JobTypes
<1>4. JobTypes'
  <2>1. "took" \in AgentPcs
    BY DEF AgentPcs
  <2>2. pc' \in [Agents -> AgentPcs] /\ job' \in [Agents -> Files \cup {0}]
    BY <1>1, <1>2, <1>3, <2>1 DEF JobTypes
  <2>3. QED
    BY <1>1, <1>2, <1>3, <2>2 DEF JobTypes
<1>5. /\ pc'[w] = "took" /\ job'[w] = jobs[1]
      /\ \A b \in Agents \ {w} : pc'[b] = pc[b] /\ job'[b] = job[b]
  BY <1>1, <1>2, <1>3 DEF JobTypes
<1>6. \A f : InChannel(f) <=> InChannel(f)' \/ f = jobs[1]
  <2>1. \A i \in DOMAIN jobs : i = 1 \/ (i - 1 \in DOMAIN jobs' /\ jobs'[i - 1] = jobs[i])
    BY <1>3
  <2>2. QED
    BY <1>3, <2>1 DEF InChannel
<1>7. PlacesInv'
  <2>1. \A b \in Agents : (job'[b] = 0 <=> pc'[b] \in {"idle", "exited"}) /\ job'[b] < next
    BY <1>2, <1>3, <1>5, FilesAre DEF PlacesInv
  <2>2. \A b, c \in Agents : b # c /\ job'[b] = job'[c] => job'[b] = 0
    BY <1>2, <1>3, <1>5 DEF PlacesInv
  <2>3. \A i \in DOMAIN jobs' : jobs'[i] < next /\ \A b \in Agents : job'[b] # jobs'[i]
    BY <1>2, <1>3, <1>5 DEF PlacesInv
  <2>4. \A i, j \in DOMAIN jobs' : i # j => jobs'[i] # jobs'[j]
    BY <1>2, <1>3 DEF PlacesInv
  <2>5. /\ opt.pool # {} /\ main # "done"
        /\ \A v \in opt.pool : pc'[v] # "exited"
    <3>1. opt.pool \subseteq Agents
      BY <1>2, ListingAssumption DEF JobTypes, OptionType, Agents
    <3>2. QED
      BY <1>1, <1>2, <1>5, <3>1 DEF PlacesInv
  <2>6. QED
    BY <1>1, <2>1, <2>2, <2>3, <2>4, <2>5 DEF PlacesInv
<1>8. \A b \in Agents : Reads(b)' => Reads(b) /\ pc'[b] = pc[b] /\ job'[b] = job[b]
  BY <1>5 DEF Reads
<1>9. \A b \in Agents : job'[b] # 0 /\ ~Reads(b)' =>
        (job'[b] = job[b] /\ ~Reads(b)) \/ (job'[b] \in Files /\ InChannel(job'[b]))
  BY <1>3, <1>5, <1>6 DEF Reads
<1>10. ASSUME NEW f \in Files, ~InChannel(f)', \A b \in Agents : job'[b] # f
       PROVE  ~InChannel(f) /\ \A b \in Agents : job[b] # f
  <2>1. f # jobs[1]
    BY <1>2, <1>5, <1>10
  <2>2. job[w] # f
    BY <1>1, <1>2, FilesAre DEF PlacesInv
  <2>3. QED
    BY <1>5, <1>6, <1>10, <2>1, <2>2
<1>11. QED
  BY <1>1, <1>4, <1>6, <1>7, <1>8, <1>9, <1>10, PlacesStep

\* The worker goes on to its job, or has none left.
LEMMA BeginInv ==
  ASSUME JobInv, cancelled = "no", cancelled' = "no", NEW w \in Workers, Begin(w) \/ Quit(w)
  PROVE  JobInv'
<1>1. /\ \/ pc[w] = "took" /\ pc' = [pc EXCEPT ![w] = "open"]
         \/ pc[w] = "idle" /\ jobs = <<>> /\ main = "wait" /\ pc' = [pc EXCEPT ![w] = "exited"]
      /\ UNCHANGED <<opt, main, next, jobs, job, pos, count, over, listed, failed, warned>>
  BY DEF Begin, Quit, Goto, WorkerOnly, mainVars, iterVars, outVars, failVars
<1>2. JobTypes /\ PlacesInv /\ w \in Agents
  BY DEF JobInv, Agents
<1>3. JobTypes'
  <2>1. "open" \in AgentPcs /\ "exited" \in AgentPcs
    BY DEF AgentPcs
  <2>2. pc' \in [Agents -> AgentPcs]
    BY <1>1, <1>2, <2>1 DEF JobTypes
  <2>3. QED
    BY <1>1, <1>2, <2>2 DEF JobTypes
<1>4. /\ \/ pc[w] = "took" /\ pc'[w] = "open"
         \/ pc[w] = "idle" /\ jobs = <<>> /\ main = "wait" /\ pc'[w] = "exited"
      /\ \A b \in Agents \ {w} : pc'[b] = pc[b]
  BY <1>1, <1>2 DEF JobTypes
<1>5. PlacesInv'
  <2>1. \A b \in Agents : pc'[b] \in {"idle", "exited"} <=> pc[b] \in {"idle", "exited"}
    BY <1>4
  <2>2. main # "done"
    BY <1>2, <1>4 DEF PlacesInv
  <2>3. \A v \in opt.pool : pc'[v] = "exited" => jobs = <<>> /\ main \in {"wait", "done"}
    <3>1. opt.pool \subseteq Agents
      BY <1>2, ListingAssumption DEF JobTypes, OptionType, Agents
    <3>2. QED
      BY <1>2, <1>4, <3>1 DEF PlacesInv
  <2>4. QED
    BY <1>1, <1>2, <2>1, <2>2, <2>3 DEF PlacesInv
<1>6. /\ \A b \in Agents : (Reads(b)' <=> Reads(b)) /\ (Reads(b) => pc'[b] = pc[b])
      /\ \A f : InChannel(f)' <=> InChannel(f)
  BY <1>1, <1>4 DEF Reads, InChannel
<1>7. QED
  BY <1>1, <1>3, <1>5, <1>6, PlacesStep

\* A context that has been cancelled stays so.
LEMMA CancelledStays ==
  ASSUME LineInv, [Next]_vars, cancelled' = "no" PROVE cancelled = "no"
<1>1. ASSUME NEW a \in Agents, HandleFile(a) PROVE cancelled = "no"
  BY <1>1, JobFrame DEF LineInv, Cancel, failVars
<1>2. CASE UNCHANGED cancelled
  BY <1>2
<1>3. ~Signal
  BY DEF Signal, Cancel
<1>4. QED
  BY <1>1, <1>2, <1>3 DEF Next, MainNext, Look, WalkEnd, Found, WalkCanceled, WalkFails, Submit, Call,
     Return, MainOnly, StopWalk, WorkerNext, Take, Begin, Quit, WorkerOnly, StdoutFails, failVars, vars

LEMMA ListingStep ==
  ASSUME LineInv, NoticeInv, JobInv, [Next]_vars
  PROVE  JobInv'
<1> SUFFICES ASSUME cancelled' = "no" PROVE JobInv'
  BY DEF JobInv
<1>1. cancelled = "no"
  BY CancelledStays
<1>2. CASE Signal
  BY <1>2 DEF Signal, Cancel
<1>3. CASE StdoutFails \/ UNCHANGED vars
  <2>1. UNCHANGED <<opt, main, next, jobs, pc, job, pos, count, over, listed, failed, warned>>
    BY <1>3 DEF StdoutFails, EnvOnly, vars, mainVars, iterVars, outVars, failVars
  <2>2. main \in {"look", "stat", "submit", "wait", "done"}
    BY <1>1 DEF JobInv, JobTypes
  <2>3. QED
    BY <1>1, <2>1, <2>2, MainStepInv
<1>4. QED
  BY <1>1, <1>2, <1>3, MainInv, TakeInv, BeginInv, HandleFileInv DEF Next, WorkerNext

\* A run that was not cancelled and returns no error has listed, of each file whose
\* handler returned none, what --nth, --limit and the filter ask for, once and in order;
\* where --force has made the handler go on, it may be only what lies before the error.
\* The counters of Nth and Limit are the rank of the last item passed, no file is lost
\* between the walk, the channel and the workers, and none is handled twice.
THEOREM ListsAll == Spec => []ListingComplete
<1>1. Init => LineInv /\ NoticeInv /\ JobInv
  <2> SUFFICES ASSUME Init PROVE LineInv /\ NoticeInv /\ JobInv
    OBVIOUS
  <2>1. /\ pc \in [Agents -> AgentPcs] /\ pc[Main] = "idle"
        /\ \A w \in Workers \ opt.pool : pc[w] = "exited"
        /\ \A a \in Agents : pc[a] \in {"idle", "exited"}
        /\ \A w \in opt.pool : pc[w] # "exited"
    BY ListingAssumption DEF Init, Agents, AgentPcs, OptionType
  <2>2. LineInv /\ NoticeInv
    BY <2>1, ListingAssumption DEF Init, LineInv, LinesWhole, NoticeInv
  <2>3. JobTypes
    BY <2>1, FilesAre DEF Init, JobTypes
  <2>4. \A a \in Agents : job[a] = 0 /\ ~Reads(a)
    BY <2>1 DEF Init, Reads
  <2>5. PlacesInv
    BY <2>1, <2>4 DEF Init, PlacesInv
  <2>6. \A f \in Files : listed[f] = <<>> /\ ~(f < next)
    BY FilesAre DEF Init
  <2>7. QED
    BY <2>2, <2>3, <2>4, <2>5, <2>6 DEF JobInv
<1>2. LineInv /\ NoticeInv /\ JobInv /\ [Next]_vars => LineInv' /\ NoticeInv' /\ JobInv'
  BY LineStep, NoticeStep, ListingStep
<1>3. NoticeInv /\ JobInv => ListingComplete
  <2> SUFFICES ASSUME NoticeInv, JobInv, main = "done", exit = "ok", cancelled = "no",
                      NEW f \in Files
               PROVE  FileDone(f)
    BY DEF ListingComplete, FileDone
  <2>1. next = Len(Contents) + 1 /\ f < next
    BY FilesAre DEF NoticeInv
  <2>2. PlacesInv /\ JobTypes
    BY DEF JobInv
  <2>3. \A a \in Agents : job[a] = 0
    BY <2>2 DEF PlacesInv, Agents
  <2>4. jobs = <<>>
    <3>1. opt.pool \subseteq Workers
      BY <2>2, ListingAssumption DEF JobTypes, OptionType
    <3>2. QED
      BY <2>2, <3>1 DEF PlacesInv
  <2>5. ~InChannel(f) /\ f # 0
    BY <2>4, FilesAre DEF InChannel
  <2>6. QED
    BY <2>1, <2>3, <2>5 DEF JobInv
<1>4. QED
  BY <1>1, <1>2, <1>3, PTL DEF Spec

-----------------------------------------------------------------------------
(* The connections.                                                        *)

ControlTypes ==
  /\ opt \in Options
  /\ main \in {"look", "stat", "submit", "wait", "done"}
  /\ next \in 1 .. Len(Contents) + 1 /\ exit \in {"ok", "error", "canceled"}
  /\ jobs \in Seq(Files)
  /\ pc \in [Agents -> AgentPcs] /\ job \in [Agents -> Files \cup {0}]
WorkTypes ==
  /\ pos \in [Agents -> Nat \ {0}] /\ count \in [Agents -> Nat]
  /\ over \in [Agents -> BOOLEAN]
  /\ listed \in [Files -> Seq(Nat)]
  /\ unended \subseteq Agents /\ torn \in BOOLEAN /\ stdout \in BOOLEAN
  /\ failed \subseteq Files /\ warned \subseteq Files
  /\ cancelled \in {"no", "error", "signal"} /\ atCancel \in 0 .. Len(Contents) + 1
PoolTypes ==
  /\ holding \subseteq Agents /\ lost \in Nat
  /\ Cardinality(holding) + lost <= PoolSize

\* A goroutine that handles a file has one.
LEMMA HasFile ==
  ASSUME ConnInv, NEW a \in Agents, pc[a] \notin {"idle", "exited"}
  PROVE  job[a] \in Files /\ job[a] # 0
BY DEF ConnInv, TypeOK

\* What a step of HandleFile does with the file and its connection.
GoesOn(a) == /\ HasOpen(a) /\ HasOpen(a)'
             /\ UNCHANGED <<job, failed, poolVars>>
Opens(a)  == /\ pc[a] = "open" /\ pc'[a] = "list" /\ UNCHANGED <<job, failed>>
             /\ IF opt.ftp THEN Open(a) ELSE UNCHANGED poolVars
Ends(a)   == /\ pc'[a] = "idle" /\ job' = [job EXCEPT ![a] = 0]
             /\ \/ HasOpen(a) /\ Release(a) /\ failed' \in {failed, failed \cup {job[a]}}
                \/ /\ pc[a] = "open" /\ UNCHANGED poolVars /\ failed' = failed \cup {job[a]}
                \/ /\ HasOpen(a) /\ failed' = failed \cup {job[a]}
                   /\ IF opt.ftp THEN Lose(a) ELSE UNCHANGED poolVars

LEMMA HandlesConnection ==
  ASSUME ControlTypes, NEW a \in Agents, HandleFile(a)
  PROVE  GoesOn(a) \/ Opens(a) \/ Ends(a)
<1> USE DEF JobOnly, Goto, ControlTypes
<1>0. \A p : pc' = [pc EXCEPT ![a] = p] => pc'[a] = p
  OBVIOUS
<1>1. CASE OpenFile(a)
  BY <1>0, <1>1 DEF OpenFile, DialFails, Fail, failVars, Opens, Ends
<1>2. CASE OpenFails(a)
  BY <1>0, <1>2 DEF OpenFails, Fail, Ends, HasOpen
<1>3. CASE StartReading(a)
  BY <1>0, <1>3 DEF StartReading, failVars, GoesOn, HasOpen
<1>4. CASE Skip(a)
  BY <1>4 DEF Skip, Reading, failVars, GoesOn, HasOpen
<1>5. CASE Deliver(a)
  <2>1. pc[a] = "read"
    BY <1>5 DEF Deliver, Reading
  <2>2. \/ Goto(a, "write") /\ UNCHANGED <<job, failVars, poolVars>>
        \/ Fail(a) /\ Release(a)
    BY <1>5 DEF Deliver
  <2>3. QED
    BY <1>0, <2>1, <2>2 DEF Fail, failVars, GoesOn, Ends, HasOpen
<1>6. CASE ReadError(a)
  <2>1. pc[a] = "read"
    BY <1>6 DEF ReadError, Reading
  <2>2. \/ UNCHANGED <<pc, job, failVars, poolVars>>
        \/ Fail(a) /\ Release(a)
    BY <1>6 DEF ReadError
  <2>3. QED
    BY <1>0, <2>1, <2>2 DEF Fail, failVars, GoesOn, Ends, HasOpen
<1>7. CASE EndOfFile(a)
  BY <1>0, <1>7 DEF EndOfFile, Succeed, failVars, Ends, HasOpen
<1>8. CASE WriteRecord(a)
  <2>1. pc[a] = "write"
    BY <1>8 DEF WriteRecord
  <2>2. \/ \E p \in {"read", "newline"} : Goto(a, p) /\ UNCHANGED <<job, failVars, poolVars>>
        \/ Fail(a) /\ Release(a)
    BY <1>8 DEF WriteRecord
  <2>3. QED
    BY <1>0, <2>1, <2>2 DEF Fail, failVars, GoesOn, Ends, HasOpen
<1>9. CASE WriteNewline(a)
  <2>1. pc[a] = "newline"
    BY <1>9 DEF WriteNewline
  <2>2. \/ Goto(a, "read") /\ UNCHANGED <<job, failVars, poolVars>>
        \/ Fail(a) /\ Release(a)
    BY <1>9 DEF WriteNewline
  <2>3. QED
    BY <1>0, <2>1, <2>2 DEF Fail, failVars, GoesOn, Ends, HasOpen
<1>10. QED
  BY <1>1, <1>2, <1>3, <1>4, <1>5, <1>6, <1>7, <1>8, <1>9 DEF HandleFile

\* The variables that are per goroutine or per file keep their types.
LEMMA HandleWorkTypes ==
  ASSUME ControlTypes, WorkTypes, NEW a \in Agents, HandleFile(a), job[a] \in Files
  PROVE  WorkTypes'
<1>1. /\ pos[a] \in Nat \ {0} /\ count[a] \in Nat /\ pos[a] - 1 \in Nat
      /\ Len(Contents) \in Nat /\ next \in 0 .. Len(Contents) + 1
  BY FilesAre DEF ControlTypes, WorkTypes
<1>2. /\ UNCHANGED failVars => failed' \subseteq Files /\ cancelled' \in {"no", "error", "signal"}
                               /\ atCancel' \in 0 .. Len(Contents) + 1
      /\ Fail(a) => failed' \subseteq Files /\ cancelled' \in {"no", "error", "signal"}
                    /\ atCancel' \in 0 .. Len(Contents) + 1 /\ warned' \subseteq Files
      /\ Succeed(a) => UNCHANGED failVars /\ warned' \subseteq Files
  BY <1>1 DEF Fail, Succeed, Cancel, failVars, WorkTypes
<1>3. /\ UNCHANGED iterVars => /\ pos' \in [Agents -> Nat \ {0}] /\ count' \in [Agents -> Nat]
                               /\ over' \in [Agents -> BOOLEAN]
      /\ UNCHANGED outVars => /\ listed' \in [Files -> Seq(Nat)]
                              /\ unended' \subseteq Agents /\ torn' \in BOOLEAN
      /\ UNCHANGED stdout => stdout' \in BOOLEAN
      /\ UNCHANGED warned => warned' \subseteq Files
  BY DEF iterVars, outVars, WorkTypes
<1>4. Advance(a) => pos' \in [Agents -> Nat \ {0}]
  BY <1>1 DEF Advance, WorkTypes
<1>5. Counted(a) => count' \in [Agents -> Nat]
  BY <1>1 DEF Counted, WorkTypes
<1>6. CASE OpenFile(a) \/ OpenFails(a) \/ EndOfFile(a)
  BY <1>2, <1>3, <1>6 DEF OpenFile, OpenFails, EndOfFile, WorkTypes
<1>7. CASE StartReading(a)
  <2>1. /\ pos' \in [Agents -> Nat \ {0}] /\ count' \in [Agents -> Nat]
        /\ over' \in [Agents -> BOOLEAN]
    BY <1>7 DEF StartReading, WorkTypes
  <2>2. QED
    BY <1>2, <1>3, <1>7, <2>1 DEF StartReading, WorkTypes
<1>8. CASE Skip(a)
  <2>1. over' \in [Agents -> BOOLEAN]
    BY <1>8 DEF Skip, WorkTypes
  <2>2. QED
    BY <1>2, <1>3, <1>4, <1>5, <1>8, <2>1 DEF Skip, WorkTypes
<1>9. CASE Deliver(a)
  <2>1. over' \in [Agents -> BOOLEAN]
    BY <1>9 DEF Deliver, WorkTypes
  <2>2. QED
    BY <1>2, <1>3, <1>4, <1>5, <1>9, <2>1 DEF Deliver, WorkTypes
<1>10. CASE ReadError(a)
  <2>1. /\ pos' \in [Agents -> Nat \ {0}] /\ count' \in [Agents -> Nat]
        /\ UNCHANGED <<outVars, stdout>>
    BY <1>10 DEF ReadError, WorkTypes
  <2>2. CASE /\ warned' = warned \cup {job[a]} /\ over' = [over EXCEPT ![a] = TRUE]
             /\ UNCHANGED failVars
    <3>1. warned' \subseteq Files /\ over' \in [Agents -> BOOLEAN]
      BY <2>2 DEF WorkTypes
    <3>2. QED
      BY <1>2, <1>3, <2>1, <2>2, <3>1 DEF WorkTypes
  <2>3. CASE Fail(a) /\ UNCHANGED over
    BY <1>2, <1>3, <2>1, <2>3 DEF WorkTypes
  <2>4. QED
    BY <1>10, <2>2, <2>3 DEF ReadError
<1>11. CASE WriteRecord(a)
  <2>1. UNCHANGED <<iterVars, stdout>>
    BY <1>11 DEF WriteRecord
  <2>2. CASE /\ listed' = [listed EXCEPT ![job[a]] = Append(@, pos[a] - 1)]
             /\ torn' = (torn \/ unended # {})
             /\ unended' = IF OneWrite THEN unended ELSE unended \cup {a}
             /\ UNCHANGED <<failVars, warned>>
    <3>1. Append(listed[job[a]], pos[a] - 1) \in Seq(Nat)
      BY <1>1 DEF WorkTypes
    <3>2. listed' \in [Files -> Seq(Nat)] /\ unended' \subseteq Agents /\ torn' \in BOOLEAN
      BY <2>2, <3>1 DEF WorkTypes
    <3>3. QED
      BY <1>2, <1>3, <2>1, <2>2, <3>2 DEF WorkTypes
  <2>3. CASE Fail(a) /\ UNCHANGED outVars
    BY <1>2, <1>3, <2>1, <2>3 DEF WorkTypes
  <2>4. QED
    BY <1>11, <2>2, <2>3 DEF WriteRecord
<1>12. CASE WriteNewline(a)
  <2>1. UNCHANGED <<iterVars, stdout, listed, torn>> /\ unended' \subseteq unended
        /\ (UNCHANGED <<failVars, warned>> \/ Fail(a))
    BY <1>12 DEF WriteNewline
  <2>2. QED
    BY <1>2, <1>3, <2>1 DEF WorkTypes
<1>13. QED
  BY <1>6, <1>7, <1>8, <1>9, <1>10, <1>11, <1>12 DEF HandleFile

\* However connections are taken, given back and lost, no more are out than the pool has.
LEMMA PoolOperations ==
  ASSUME PoolTypes, NEW a \in Agents
  PROVE  /\ Open(a) => PoolTypes'
         /\ Close(a) => PoolTypes'
         /\ Lose(a) /\ a \in holding => PoolTypes'
         /\ UNCHANGED poolVars => PoolTypes'
<1>0. IsFiniteSet(Agents) /\ PoolSize \in Nat
  BY ListingAssumption, FtpPoolAssumption, FS_AddElement DEF Agents
<1>1. /\ IsFiniteSet(holding) /\ IsFiniteSet(holding \ {a}) /\ IsFiniteSet(holding \cup {a})
      /\ Cardinality(holding) \in Nat /\ Cardinality(holding \ {a}) \in Nat
      /\ Cardinality(holding \cup {a}) \in Nat
  BY <1>0, FS_Subset, FS_AddElement, FS_CardinalityType DEF PoolTypes
<1>2. /\ Cardinality(holding \cup {a}) <= Cardinality(holding) + 1
      /\ Cardinality(holding \ {a}) <= Cardinality(holding)
      /\ a \in holding => Cardinality(holding \ {a}) = Cardinality(holding) - 1
  BY <1>1, FS_AddElement, FS_RemoveElement
<1>3. Open(a) => PoolTypes'
  <2>1. SUFFICES ASSUME Open(a) PROVE PoolTypes'
    OBVIOUS
  <2>2. Cardinality(holding) + lost < PoolSize /\ holding' = holding \cup {a} /\ lost' = lost
    BY <2>1 DEF Open, HasRoom
  <2>3. QED
    BY <1>0, <1>1, <1>2, <2>2 DEF PoolTypes
<1>4. Close(a) => PoolTypes'
  BY <1>0, <1>1, <1>2 DEF PoolTypes, Close
<1>5. Lose(a) /\ a \in holding => PoolTypes'
  BY <1>0, <1>1, <1>2 DEF PoolTypes, Lose
<1>6. UNCHANGED poolVars => PoolTypes'
  BY DEF PoolTypes, poolVars
<1>7. QED
  BY <1>3, <1>4, <1>5, <1>6

\* A file that fails counts once.
LEMMA OneMoreFailed ==
  ASSUME failed \subseteq Files, NEW f \in Files
  PROVE  /\ Cardinality(failed) \in Nat
         /\ Cardinality(failed) <= Cardinality(failed \cup {f})
         /\ f \notin failed => Cardinality(failed \cup {f}) = Cardinality(failed) + 1
<1>1. IsFiniteSet(Files)
  BY FilesAre, FS_Interval
<1>2. IsFiniteSet(failed)
  BY <1>1, FS_Subset
<1>3. QED
  <2>1. Cardinality(failed) \in Nat
    BY <1>2, FS_CardinalityType
  <2>2. CASE f \in failed
    <3>1. failed \cup {f} = failed
      BY <2>2
    <3>2. QED
      BY <2>1, <2>2, <3>1
  <2>3. CASE f \notin failed
    <3>1. Cardinality(failed \cup {f}) = Cardinality(failed) + 1
      BY <1>2, <2>3, FS_AddElement
    <3>2. QED
      BY <2>1, <2>3, <3>1
  <2>4. QED
    BY <2>1, <2>2, <2>3

LEMMA HandleConnStep ==
  ASSUME ConnInv, NEW a \in Agents, HandleFile(a)
  PROVE  ConnInv'
<1> DEFINE f == job[a]
<1>0. /\ ControlTypes /\ WorkTypes /\ PoolTypes /\ OnceInv /\ failed \subseteq Files
      /\ Main \in Agents /\ Workers \subseteq Agents /\ Main \notin Workers
  BY ListingAssumption DEF ConnInv, TypeOK, ControlTypes, WorkTypes, PoolTypes, Agents
<1>1. /\ UNCHANGED <<opt, main, next, exit, jobs>>
      /\ pc[a] \in AgentPcs \ {"idle", "exited", "took"} /\ pc' \in [Agents -> AgentPcs]
      /\ \A b \in Agents \ {a} : pc'[b] = pc[b]
  BY <1>0, JobFrame DEF ControlTypes
<1>2. f \in Files /\ f # 0 /\ f \notin failed
  BY <1>0, <1>1, HasFile DEF OnceInv
<1>3. WorkTypes'
  BY <1>0, <1>2, HandleWorkTypes
<1>4. main \in {"stat", "submit", "wait", "done"} => a # Main
  BY <1>1 DEF ConnInv
<1>5. GoesOn(a) \/ Opens(a) \/ Ends(a)
  BY <1>0, HandlesConnection
<1>6. \/ job' = job /\ failed' = failed
      \/ job' = [job EXCEPT ![a] = 0] /\ failed' \in {failed, failed \cup {f}}
  BY <1>5 DEF GoesOn, Opens, Ends
<1>7. ControlTypes'
  BY <1>0, <1>1, <1>6 DEF ControlTypes
<1>8. OnceInv'
  <2>1. CASE job' = job /\ failed' = failed
    BY <1>0, <1>1, <2>1 DEF OnceInv
  <2>2. CASE job' = [job EXCEPT ![a] = 0] /\ failed' \in {failed, failed \cup {f}}
    <3>1. job'[a] = 0 /\ \A b \in Agents \ {a} : job'[b] = job[b]
      BY <1>0, <2>2 DEF ControlTypes
    <3>2. f < next /\ (\A i \in DOMAIN jobs : jobs[i] # f) /\ \A b \in Agents \ {a} : job[b] # f
      BY <1>0, <1>2 DEF OnceInv
    <3>3. \A g \in failed' : g \in failed \/ g = f
      BY <2>2
    <3>4. /\ \A g \in failed' : g < next
          /\ \A i \in DOMAIN jobs : jobs[i] < next /\ jobs[i] \notin failed'
      BY <1>0, <3>2, <3>3 DEF OnceInv
    <3>5. \A b \in Agents : job'[b] # 0 =>
             /\ job'[b] < next /\ job'[b] \notin failed' /\ \A i \in DOMAIN jobs : jobs[i] # job'[b]
             /\ \A c \in Agents \ {b} : job'[c] # job'[b]
      BY <1>0, <3>1, <3>2, <3>3 DEF OnceInv
    <3> HIDE DEF f
    <3>6. QED
      BY <1>0, <1>1, <3>4, <3>5 DEF OnceInv
  <2>3. QED
    BY <1>6, <2>1, <2>2
<1>9. \A b \in Agents : pc'[b] \notin {"idle", "exited"} => job'[b] # 0
  <2>1. CASE job' = job
    BY <1>1, <1>2, <2>1 DEF ConnInv
  <2>2. CASE pc'[a] = "idle" /\ job' = [job EXCEPT ![a] = 0]
    BY <1>0, <1>1, <2>2 DEF ConnInv, ControlTypes
  <2>3. QED
    BY <1>5, <2>1, <2>2 DEF GoesOn, Opens, Ends
<1>10. /\ \A b \in Agents \ {a} : HasOpen(b)' <=> HasOpen(b)
       /\ Opened \subseteq Agents /\ Opened' \subseteq Agents
       /\ \A b \in Agents \ {a} : b \in Opened' <=> b \in Opened
       /\ a \in Opened <=> HasOpen(a)
       /\ a \in Opened' <=> HasOpen(a)'
  BY <1>1, <1>4 DEF Opened, HasOpen
<1> DEFINE hold == holding = IF opt.ftp THEN Opened ELSE {}
<1> DEFINE Bound == lost <= Cardinality(failed) + (IF exit = "ok" THEN 0 ELSE 1)
<1>11. hold /\ Bound /\ (~opt.ftp => lost = 0) /\ lost \in Nat
  BY <1>0 DEF ConnInv, PoolTypes
<1>12. /\ Cardinality(failed) \in Nat /\ Cardinality(failed) <= Cardinality(failed \cup {f})
       /\ Cardinality(failed \cup {f}) = Cardinality(failed) + 1
  BY <1>0, <1>2, OneMoreFailed
<1> HIDE DEF f
<1>13. PoolTypes' /\ hold' /\ Bound' /\ (~opt.ftp => lost' = 0)
  <2>1. CASE GoesOn(a)
    <3>1. holding' = holding /\ lost' = lost /\ failed' = failed /\ UNCHANGED poolVars
      BY <2>1 DEF GoesOn, poolVars
    <3>2. Opened' = Opened
      BY <1>10, <2>1 DEF GoesOn
    <3>3. PoolTypes'
      BY <1>0, <3>1, PoolOperations
    <3>4. hold'
      BY <1>1, <1>11, <3>1, <3>2
    <3>5. Bound' /\ (~opt.ftp => lost' = 0)
      <4>1. lost' = lost /\ failed' = failed /\ exit' = exit
        BY <1>1, <3>1
      <4>2. Bound /\ (~opt.ftp => lost = 0)
        BY <1>11
      <4> HIDE DEF hold
      <4>3. QED
        BY <4>1, <4>2
    <3>6. QED
      BY <3>3, <3>4, <3>5
  <2>2. CASE Opens(a)
    <3>1. Opened' = Opened \cup {a}
      BY <1>10, <2>2 DEF Opens, HasOpen
    <3>2. failed' = failed
      BY <2>2 DEF Opens
    <3>3. CASE opt.ftp
      <4>1. Open(a)
        BY <2>2, <3>3 DEF Opens
      <4>2. holding' = holding \cup {a} /\ lost' = lost
        BY <4>1 DEF Open
      <4>3. PoolTypes'
        BY <1>0, <4>1, PoolOperations
      <4>4. QED
        BY <1>1, <1>11, <3>1, <3>2, <3>3, <4>2, <4>3
    <3>4. CASE ~opt.ftp
      <4>1. UNCHANGED poolVars
        BY <2>2, <3>4 DEF Opens
      <4>2. PoolTypes'
        BY <1>0, <4>1, PoolOperations
      <4>3. QED
        BY <1>1, <1>11, <3>2, <3>4, <4>1, <4>2 DEF poolVars
    <3>5. QED
      BY <3>3, <3>4
  <2>3. CASE Ends(a)
    <3>1. a \notin Opened'
      BY <1>10, <2>3 DEF Ends, HasOpen
    <3>2. CASE ~opt.ftp
      <4>1. UNCHANGED poolVars /\ failed' \in {failed, failed \cup {f}}
        BY <2>3, <3>2 DEF Ends, Release, f
      <4>2. PoolTypes'
        BY <1>0, <4>1, PoolOperations
      <4>3. hold' /\ lost' = 0
        BY <1>1, <1>11, <3>2, <4>1 DEF poolVars
      <4>4. Bound'
        BY <1>1, <1>11, <1>12, <4>1, <4>3
      <4>5. QED
        BY <4>2, <4>3, <4>4
    <3>3. CASE opt.ftp /\ HasOpen(a) /\ Close(a) /\ failed' \in {failed, failed \cup {f}}
      <4>1. holding' = holding \ {a} /\ lost' = lost
        BY <3>3 DEF Close
      <4>2. Opened' = Opened \ {a}
        BY <1>10, <3>1
      <4>3. PoolTypes'
        BY <1>0, <3>3, PoolOperations
      <4>4. Bound'
        <5>1. lost' = lost /\ exit' = exit /\ Bound /\ lost \in Nat
          BY <1>1, <1>11, <4>1
        <5>2. Cardinality(failed') \in Nat /\ Cardinality(failed) <= Cardinality(failed')
          <6>1. CASE failed' = failed
            BY <1>12, <6>1
          <6>2. CASE failed' = failed \cup {f}
            BY <1>12, <6>2
          <6>3. QED
            BY <3>3, <6>1, <6>2
        <5>3. QED
          BY <1>12, <5>1, <5>2
      <4>5. QED
        BY <1>1, <1>11, <3>3, <4>1, <4>2, <4>3, <4>4
    <3>4. CASE opt.ftp /\ pc[a] = "open" /\ UNCHANGED poolVars /\ failed' = failed \cup {f}
      <4>1. a \notin Opened
        BY <1>10, <3>4 DEF HasOpen
      <4>2. Opened' = Opened
        BY <1>10, <3>1, <4>1
      <4>3. PoolTypes'
        BY <1>0, <3>4, PoolOperations
      <4>4. Bound'
        BY <1>1, <1>11, <1>12, <3>4 DEF poolVars
      <4>5. QED
        BY <1>1, <1>11, <3>4, <4>2, <4>3, <4>4 DEF poolVars
    <3>5. CASE opt.ftp /\ HasOpen(a) /\ Lose(a) /\ failed' = failed \cup {f}
      <4>1. holding' = holding \ {a} /\ lost' = lost + 1
        BY <3>5 DEF Lose
      <4>2. Opened' = Opened \ {a} /\ a \in holding
        BY <1>10, <1>11, <3>1, <3>5
      <4>3. PoolTypes'
        BY <1>0, <3>5, <4>2, PoolOperations
      <4>4. Bound'
        BY <1>1, <1>11, <1>12, <3>5, <4>1
      <4>5. QED
        BY <1>1, <1>11, <3>5, <4>1, <4>2, <4>3, <4>4
    <3>6. QED
      BY <2>3, <3>2, <3>3, <3>4, <3>5 DEF Ends, Release, f
  <2>4. QED
    BY <1>5, <2>1, <2>2, <2>3
<1>14. /\ main' \in {"stat", "submit"} => next' \in Files
       /\ main' # "look" => pc'[Main] = "idle"
       /\ main' = "done" => \A w \in Workers : pc'[w] = "exited"
       /\ main' \in {"look", "stat", "submit"} => exit' = "ok"
  <2>1. main = "done" => a \notin Workers /\ a # Main
    BY <1>1, <1>4 DEF ConnInv
  <2>2. main # "done"
    BY <2>1 DEF Agents
  <2>3. main' # "look" => pc'[Main] = "idle"
    <3>1. main # "look" => a # Main /\ pc[Main] = "idle"
      BY <1>4, <1>7 DEF ConnInv, ControlTypes, TypeOK
    <3>2. QED
      BY <1>0, <1>1, <3>1
  <2>4. QED
    BY <1>1, <2>2, <2>3 DEF ConnInv
<1>15. TypeOK'
  BY <1>3, <1>7, <1>13 DEF TypeOK, ControlTypes, WorkTypes, PoolTypes
<1>16. QED
  BY <1>8, <1>9, <1>13, <1>14, <1>15, <1>1 DEF ConnInv

\* A step that moves no file.
LEMMA SameFilesStep ==
  ASSUME ConnInv, UNCHANGED <<opt, next, jobs, job, failed>>,
         ControlTypes', WorkTypes', PoolTypes',
         holding' = IF opt.ftp THEN Opened' ELSE {},
         ~opt.ftp => lost' = 0,
         lost' <= Cardinality(failed) + (IF exit' = "ok" THEN 0 ELSE 1),
         main' \in {"stat", "submit"} => next \in Files,
         main' # "look" => pc'[Main] = "idle",
         main' = "done" => \A w \in Workers : pc'[w] = "exited",
         \A a \in Agents : pc'[a] \notin {"idle", "exited"} => pc[a] \notin {"idle", "exited"},
         main' \in {"look", "stat", "submit"} => exit' = "ok"
  PROVE  ConnInv'
<1>1. TypeOK'
  BY DEF TypeOK, ControlTypes, WorkTypes, PoolTypes
<1>2. OnceInv'
  BY DEF ConnInv, OnceInv
<1>3. \A a \in Agents : pc'[a] \notin {"idle", "exited"} => job'[a] # 0
  BY DEF ConnInv
<1>4. QED
  BY <1>1, <1>2, <1>3 DEF ConnInv

\* The walk takes a connection for each look, and gives it back or loses it with the run.
LEMMA WalkConnStep ==
  ASSUME ConnInv, Look \/ Found \/ WalkCanceled \/ WalkFails, WorkTypes'
  PROVE  ConnInv'
<1>0. /\ ControlTypes /\ PoolTypes /\ Main \in Agents /\ lost \in Nat
      /\ exit \in {"ok", "error", "canceled"}
  BY DEF ConnInv, TypeOK, ControlTypes, PoolTypes, Agents
<1>1. UNCHANGED <<opt, next, jobs, pc, job, failed>> /\ pc[Main] = "idle" /\ main \in {"look", "stat"}
  BY DEF Look, Found, WalkCanceled, WalkFails, MainAt, MainOnly, StopWalk, failVars
<1>2. /\ main' \in {"stat", "submit", "wait"}
      /\ main' \in {"stat", "submit"} => next \in Files /\ exit' = exit
      /\ exit' \in {"ok", "error", "canceled"}
  BY <1>0 DEF ConnInv, Look, Found, WalkCanceled, WalkFails, MainAt, MainOnly, StopWalk
<1>3. exit = "ok"
  BY <1>1 DEF ConnInv
<1>4. ControlTypes'
  BY <1>0, <1>1, <1>2 DEF ControlTypes
<1>5. /\ \A a \in Agents \ {Main} : a \in Opened' <=> a \in Opened
      /\ Opened \subseteq Agents /\ Opened' \subseteq Agents
      /\ Main \in Opened <=> main = "stat"
      /\ Main \in Opened' <=> main' = "stat"
  BY <1>0, <1>1 DEF Opened, HasOpen
<1>6. Cardinality(failed) \in Nat
  <2>1. IsFiniteSet(Files) /\ failed \subseteq Files
    BY FilesAre, FS_Interval DEF ConnInv, TypeOK
  <2>2. QED
    BY <2>1, FS_Subset, FS_CardinalityType
<1>7. /\ holding = (IF opt.ftp THEN Opened ELSE {}) /\ (~opt.ftp => lost = 0)
      /\ lost <= Cardinality(failed)
  <2>1. Cardinality(failed) + (IF exit = "ok" THEN 0 ELSE 1) = Cardinality(failed)
    BY <1>3, <1>6
  <2>2. QED
    BY <2>1 DEF ConnInv
<1> DEFINE Bound == lost' <= Cardinality(failed) + (IF exit' = "ok" THEN 0 ELSE 1)
<1>8. lost' = lost => Bound
  BY <1>0, <1>6, <1>7
<1>9. /\ PoolTypes' /\ holding' = (IF opt.ftp THEN Opened' ELSE {}) /\ (~opt.ftp => lost' = 0)
      /\ Bound
  <2>1. CASE ~opt.ftp
    <3>1. UNCHANGED poolVars
      BY <2>1 DEF Look, Found, WalkCanceled, WalkFails, Release
    <3>2. PoolTypes'
      BY <1>0, <3>1, PoolOperations
    <3>3. QED
      BY <1>7, <1>8, <2>1, <3>1, <3>2 DEF poolVars
  <2>2. CASE opt.ftp /\ Look
    <3>1. Open(Main) /\ main' = "stat"
      BY <2>2 DEF Look
    <3>2. PoolTypes'
      BY <1>0, <3>1, PoolOperations
    <3>3. holding' = holding \cup {Main} /\ lost' = lost
      BY <3>1 DEF Open
    <3>4. Opened' = Opened \cup {Main}
      BY <1>0, <1>5, <3>1
    <3>5. holding' = (IF opt.ftp THEN Opened' ELSE {})
      BY <1>7, <2>2, <3>3, <3>4
    <3> HIDE DEF Bound
    <3>6. QED
      BY <1>8, <2>2, <3>2, <3>3, <3>5
  <2>3. CASE opt.ftp /\ (Found \/ WalkCanceled)
    <3>1. Close(Main) /\ main' # "stat"
      BY <2>3 DEF Found, WalkCanceled, Release, StopWalk
    <3>2. PoolTypes'
      BY <1>0, <3>1, PoolOperations
    <3>3. holding' = holding \ {Main} /\ lost' = lost
      BY <3>1 DEF Close
    <3>4. Opened' = Opened \ {Main}
      BY <1>0, <1>5, <3>1
    <3>5. holding' = (IF opt.ftp THEN Opened' ELSE {})
      BY <1>7, <2>3, <3>3, <3>4
    <3> HIDE DEF Bound
    <3>6. QED
      BY <1>8, <2>3, <3>2, <3>3, <3>5
  <2>4. CASE opt.ftp /\ WalkFails /\ main = "look"
    <3>1. UNCHANGED poolVars /\ main' = "wait"
      BY <2>4 DEF WalkFails, StopWalk, MainAt
    <3>2. PoolTypes'
      BY <1>0, <3>1, PoolOperations
    <3>3. Opened' = Opened
      BY <1>5, <2>4, <3>1
    <3> HIDE DEF Bound
    <3>4. QED
      BY <1>7, <1>8, <2>4, <3>1, <3>2, <3>3 DEF poolVars
  <2>5. CASE opt.ftp /\ WalkFails /\ main = "stat"
    <3>1. Lose(Main) /\ main = "stat" /\ main' # "stat" /\ exit' # "ok"
      BY <2>5 DEF WalkFails, StopWalk, MainAt
    <3>2. Main \in holding
      BY <1>0, <1>5, <1>7, <2>5, <3>1
    <3>3. PoolTypes'
      BY <1>0, <3>1, <3>2, PoolOperations
    <3>4. holding' = holding \ {Main} /\ lost' = lost + 1
      BY <3>1 DEF Lose
    <3>5. Opened' = Opened \ {Main}
      BY <1>0, <1>5, <3>1
    <3>6. holding' = (IF opt.ftp THEN Opened' ELSE {})
      BY <1>7, <2>5, <3>4, <3>5
    <3>7. Bound
      BY <1>0, <1>6, <1>7, <3>1, <3>4
    <3> HIDE DEF Bound
    <3>8. QED
      BY <2>5, <3>3, <3>6, <3>7
  <2>6. QED
    BY <1>1, <2>1, <2>2, <2>3, <2>4, <2>5
<1>10. QED
  BY <1>1, <1>2, <1>3, <1>4, <1>9, SameFilesStep

\* A step that moves a file, or none, and touches no connection.
LEMMA FileMovesStep ==
  ASSUME ConnInv, UNCHANGED <<opt, failed, exit, poolVars>>,
         ControlTypes', WorkTypes', OnceInv', Opened' = Opened,
         \/ main' = main /\ next' = next
         \/ main' \in {"look", "wait", "done"} /\ (main' = "look" => main = "submit"),
         main' # "look" => pc'[Main] = "idle",
         main' = "done" => \A w \in Workers : pc'[w] = "exited",
         \A a \in Agents : pc'[a] \notin {"idle", "exited"} => job'[a] # 0
  PROVE  ConnInv'
<1>1. holding' = holding /\ lost' = lost
  BY DEF poolVars
<1>2. TypeOK'
  BY <1>1 DEF ConnInv, TypeOK, ControlTypes, WorkTypes, PoolTypes
<1>3. /\ holding' = (IF opt'.ftp THEN Opened' ELSE {})
      /\ ~opt'.ftp => lost' = 0
      /\ lost' <= Cardinality(failed') + (IF exit' = "ok" THEN 0 ELSE 1)
      /\ main' \in {"stat", "submit"} => next' \in Files
      /\ main' \in {"look", "stat", "submit"} => exit' = "ok"
  BY <1>1 DEF ConnInv
<1>4. QED
  BY <1>2, <1>3 DEF ConnInv

\* The walk hands a file to the channel.
LEMMA SubmitConnStep == ASSUME ConnInv, Submit, WorkTypes' PROVE ConnInv'
<1>1. /\ main = "submit" /\ main' = "look" /\ jobs' = Append(jobs, next) /\ next' = next + 1
      /\ next \in Files /\ UNCHANGED <<opt, pc, job, failed, exit, poolVars>>
  BY DEF Submit, MainAt, MainOnly, failVars, ConnInv
<1>2. ControlTypes /\ OnceInv /\ failed \subseteq Files
  BY DEF ConnInv, TypeOK, ControlTypes
<1>3. ControlTypes'
  BY <1>1, <1>2, FilesAre DEF ControlTypes
<1>4. /\ DOMAIN jobs' = 1 .. Len(jobs) + 1 /\ jobs'[Len(jobs) + 1] = next
      /\ \A i \in DOMAIN jobs : jobs'[i] = jobs[i] /\ jobs[i] \in Files
      /\ \A i \in DOMAIN jobs' : i \in DOMAIN jobs \/ i = Len(jobs) + 1
  BY <1>1, <1>2 DEF ControlTypes
<1>5. /\ next \in Nat /\ \A f \in failed : f \in Nat /\ f < next
      /\ \A i \in DOMAIN jobs : jobs[i] \in Nat /\ jobs[i] < next
      /\ \A a \in Agents : job[a] \in Nat /\ (job[a] # 0 => job[a] < next)
  BY <1>2, <1>4, FilesAre DEF ControlTypes, OnceInv
<1>6. OnceInv'
  <2>1. \A f \in failed : f < next + 1
    BY <1>5
  <2>2. \A i \in DOMAIN jobs' : jobs'[i] < next + 1 /\ jobs'[i] \notin failed
    BY <1>2, <1>4, <1>5 DEF OnceInv
  <2>3. \A i, j \in DOMAIN jobs' : i # j => jobs'[i] # jobs'[j]
    BY <1>2, <1>4, <1>5 DEF OnceInv
  <2>4. \A a \in Agents : job[a] # 0 =>
          job[a] < next + 1 /\ \A i \in DOMAIN jobs' : jobs'[i] # job[a]
    BY <1>1, <1>2, <1>4, <1>5, FilesAre DEF OnceInv
  <2>5. QED
    BY <1>1, <1>2, <2>1, <2>2, <2>3, <2>4 DEF OnceInv
<1>7. Opened' = Opened
  BY <1>1 DEF Opened, HasOpen
<1>8. \A a \in Agents : pc'[a] \notin {"idle", "exited"} => job'[a] # 0
  BY <1>1 DEF ConnInv
<1>9. QED
  BY <1>1, <1>3, <1>6, <1>7, <1>8, FileMovesStep

\* Without workers it handles the file itself.
LEMMA CallConnStep == ASSUME ConnInv, Call, WorkTypes' PROVE ConnInv'
<1>1. /\ main = "submit" /\ main' = "look" /\ next' = next + 1 /\ pc[Main] = "idle"
      /\ pc' = [pc EXCEPT ![Main] = "open"] /\ job' = [job EXCEPT ![Main] = next]
      /\ next \in Files /\ UNCHANGED <<opt, jobs, failed, exit, poolVars>>
  BY DEF Call, MainAt, Goto, failVars, ConnInv
<1>2. ControlTypes /\ OnceInv /\ failed \subseteq Files /\ Main \in Agents
  BY DEF ConnInv, TypeOK, ControlTypes, Agents
<1>3. /\ pc'[Main] = "open" /\ job'[Main] = next
      /\ \A b \in Agents \ {Main} : pc'[b] = pc[b] /\ job'[b] = job[b]
  BY <1>1, <1>2 DEF ControlTypes
<1>4. ControlTypes'
  <2>1. pc' \in [Agents -> AgentPcs]
    BY <1>1, <1>2 DEF ControlTypes, AgentPcs
  <2>2. job' \in [Agents -> Files \cup {0}]
    BY <1>1, <1>2 DEF ControlTypes
  <2>3. QED
    BY <1>1, <1>2, <2>1, <2>2, FilesAre DEF ControlTypes
<1>5. /\ next \in Nat /\ next # 0 /\ \A f \in failed : f \in Nat /\ f < next
      /\ \A i \in DOMAIN jobs : jobs[i] \in Nat /\ jobs[i] < next
      /\ \A a \in Agents : job[a] \in Nat /\ (job[a] # 0 => job[a] < next)
  BY <1>2, FilesAre DEF ControlTypes, OnceInv
<1>6. OnceInv'
  <2>1. /\ \A f \in failed : f < next + 1
        /\ \A i \in DOMAIN jobs : jobs[i] < next + 1
    BY <1>5
  <2>2. /\ next < next + 1 /\ next \notin failed /\ \A i \in DOMAIN jobs : jobs[i] # next
        /\ \A b \in Agents : job[b] # next
    BY <1>5
  <2>3. \A a \in Agents \ {Main} : job[a] # 0 =>
          /\ job[a] < next + 1 /\ job[a] \notin failed /\ \A i \in DOMAIN jobs : jobs[i] # job[a]
          /\ \A b \in Agents \ {a} : job[b] # job[a]
    BY <1>2, <1>5 DEF OnceInv
  <2>4. \A a \in Agents : job'[a] # 0 =>
          /\ job'[a] < next + 1 /\ job'[a] \notin failed /\ \A i \in DOMAIN jobs : jobs[i] # job'[a]
          /\ \A b \in Agents \ {a} : job'[b] # job'[a]
    BY <1>3, <2>2, <2>3
  <2>5. QED
    BY <1>1, <1>2, <2>1, <2>4 DEF OnceInv
<1>7. Opened' = Opened
  BY <1>1, <1>3 DEF Opened, HasOpen
<1>8. \A a \in Agents : pc'[a] \notin {"idle", "exited"} => job'[a] # 0
  BY <1>3, <1>5 DEF ConnInv
<1>9. QED
  BY <1>1, <1>4, <1>6, <1>7, <1>8, FileMovesStep

\* A worker takes a file from the channel.
LEMMA TakeConnStep == ASSUME ConnInv, NEW w \in Workers, Take(w), WorkTypes' PROVE ConnInv'
<1>1. /\ pc[w] = "idle" /\ jobs # <<>> /\ pc' = [pc EXCEPT ![w] = "took"]
      /\ job' = [job EXCEPT ![w] = Head(jobs)] /\ jobs' = Tail(jobs)
      /\ UNCHANGED <<opt, main, next, failed, exit, poolVars>>
  BY DEF Take, Goto, WorkerOnly, mainVars, failVars
<1>2. ControlTypes /\ OnceInv /\ failed \subseteq Files /\ w \in Agents /\ w # Main
  BY ListingAssumption DEF ConnInv, TypeOK, ControlTypes, Agents
<1>3. /\ jobs \in Seq(Files) /\ Len(jobs) \in Nat /\ Len(jobs) > 0 /\ DOMAIN jobs = 1 .. Len(jobs)
      /\ Head(jobs) = jobs[1] /\ jobs[1] \in Files /\ 1 \in DOMAIN jobs
      /\ jobs' \in Seq(Files) /\ DOMAIN jobs' = 1 .. Len(jobs) - 1
      /\ \A i \in DOMAIN jobs' : i + 1 \in DOMAIN jobs /\ i + 1 # 1 /\ jobs'[i] = jobs[i + 1]
  BY <1>1, <1>2 DEF ControlTypes
<1>4. /\ pc'[w] = "took" /\ job'[w] = jobs[1]
      /\ \A b \in Agents \ {w} : pc'[b] = pc[b] /\ job'[b] = job[b]
  BY <1>1, <1>2, <1>3 DEF ControlTypes
<1>5. ControlTypes'
  <2>1. pc' \in [Agents -> AgentPcs]
    BY <1>1, <1>2 DEF ControlTypes, AgentPcs
  <2>2. job' \in [Agents -> Files \cup {0}]
    BY <1>1, <1>2, <1>3 DEF ControlTypes
  <2>3. QED
    BY <1>1, <1>2, <1>3, <2>1, <2>2 DEF ControlTypes
<1>6. OnceInv'
  <2>1. \A i \in DOMAIN jobs' : jobs'[i] < next /\ jobs'[i] \notin failed /\ jobs'[i] # jobs[1]
    BY <1>2, <1>3 DEF OnceInv
  <2>2. \A i, j \in DOMAIN jobs' : i # j => jobs'[i] # jobs'[j]
    BY <1>2, <1>3 DEF OnceInv
  <2>3. jobs[1] < next /\ jobs[1] \notin failed /\ jobs[1] # 0 /\ \A b \in Agents : job[b] # jobs[1]
    BY <1>2, <1>3, FilesAre DEF OnceInv
  <2>4. \A a \in Agents \ {w} : job[a] # 0 =>
          /\ job[a] < next /\ job[a] \notin failed /\ \A i \in DOMAIN jobs' : jobs'[i] # job[a]
          /\ \A b \in Agents \ {a} : job[b] # job[a]
    BY <1>2, <1>3 DEF OnceInv
  <2>5. \A a \in Agents : job'[a] # 0 =>
          /\ job'[a] < next /\ job'[a] \notin failed /\ \A i \in DOMAIN jobs' : jobs'[i] # job'[a]
          /\ \A b \in Agents \ {a} : job'[b] # job'[a]
    BY <1>4, <2>1, <2>3, <2>4
  <2>6. QED
    BY <1>1, <1>2, <2>1, <2>2, <2>5 DEF OnceInv
<1>7. Opened' = Opened
  BY <1>1, <1>4 DEF Opened, HasOpen
<1>8. \A a \in Agents : pc'[a] \notin {"idle", "exited"} => job'[a] # 0
  BY <1>3, <1>4, FilesAre DEF ConnInv
<1>9. main # "done" /\ (main # "look" => pc'[Main] = "idle")
  <2>1. "idle" # "exited"
    OBVIOUS
  <2>2. QED
    BY <1>1, <1>2, <1>4, <2>1 DEF ConnInv, Agents
<1>10. QED
  BY <1>1, <1>5, <1>6, <1>7, <1>8, <1>9, FileMovesStep

LEMMA ConnStep == ASSUME ConnInv, [Next]_vars PROVE ConnInv'
<1>0. /\ ControlTypes /\ WorkTypes /\ OnceInv /\ Main \in Agents
      /\ Workers \subseteq Agents /\ Main \notin Workers
  BY ListingAssumption DEF ConnInv, TypeOK, ControlTypes, WorkTypes, Agents
<1>1. UNCHANGED <<iterVars, outVars, stdout, failVars, warned>> => WorkTypes'
  BY <1>0 DEF WorkTypes, iterVars, outVars, failVars
<1>2. UNCHANGED <<jobs, job, failed, next>> => OnceInv'
  BY <1>0 DEF OnceInv
<1>3. CASE MainNext
  <2>1. WorkTypes'
    BY <1>1, <1>3 DEF MainNext, Look, WalkEnd, Found, WalkCanceled, WalkFails, Submit, Call,
       Return, MainOnly, StopWalk
  <2>2. CASE WalkEnd \/ Return
    <3>1. /\ UNCHANGED <<opt, next, exit, jobs, pc, job, failed, poolVars>>
          /\ main' \in {"wait", "done"} /\ main \in {"look", "wait"} /\ pc[Main] = "idle"
          /\ main' = "done" => \A w \in Workers : pc[w] = "exited"
      BY <2>2 DEF WalkEnd, Return, MainAt, MainOnly, failVars
    <3>2. ControlTypes' /\ OnceInv' /\ Opened' = Opened
      BY <1>0, <1>2, <3>1 DEF ControlTypes, Opened, HasOpen
    <3>3. \A a \in Agents : pc'[a] \notin {"idle", "exited"} => job'[a] # 0
      BY <3>1 DEF ConnInv
    <3>4. QED
      BY <2>1, <3>1, <3>2, <3>3, FileMovesStep
  <2>3. QED
    BY <1>3, <2>1, <2>2, WalkConnStep, SubmitConnStep, CallConnStep DEF MainNext
<1>4. ASSUME NEW w \in Workers, WorkerNext(w) PROVE ConnInv'
  <2>1. WorkTypes'
    BY <1>1, <1>4 DEF WorkerNext, Take, Begin, Quit, WorkerOnly
  <2>2. CASE Begin(w) \/ Quit(w)
    <3>1. /\ UNCHANGED <<opt, main, next, exit, jobs, job, failed, poolVars>>
          /\ \/ pc[w] = "took" /\ \E p \in {"open", "exited"} : pc' = [pc EXCEPT ![w] = p]
             \/ pc[w] = "idle" /\ pc' = [pc EXCEPT ![w] = "exited"]
      BY <2>2 DEF Begin, Quit, Goto, WorkerOnly, mainVars, failVars
    <3>2. /\ pc' \in [Agents -> AgentPcs] /\ w \in Agents /\ w # Main /\ pc[w] \in {"took", "idle"}
          /\ \A b \in Agents \ {w} : pc'[b] = pc[b]
          /\ pc'[w] \in {"open", "exited"} /\ (pc'[w] = "open" => pc[w] = "took")
      BY <1>0, <3>1 DEF ControlTypes, AgentPcs
    <3>3. ControlTypes' /\ OnceInv'
      BY <1>0, <1>2, <3>1, <3>2 DEF ControlTypes
    <3>4. Opened' = Opened
      BY <3>1, <3>2 DEF Opened, HasOpen
    <3>5. \A a \in Agents : pc'[a] \notin {"idle", "exited"} => job'[a] # 0
      BY <3>1, <3>2 DEF ConnInv
    <3>6. main # "done"
      BY <1>4, <3>2 DEF ConnInv
    <3>7. main # "look" => pc'[Main] = "idle"
      BY <1>0, <3>2 DEF ConnInv
    <3>8. QED
      BY <2>1, <3>1, <3>3, <3>4, <3>5, <3>6, <3>7, FileMovesStep
  <2>3. QED
    BY <1>4, <2>1, <2>2, TakeConnStep DEF WorkerNext
<1>5. ASSUME NEW a \in Agents, HandleFile(a) PROVE ConnInv'
  BY <1>5, HandleConnStep
<1>6. CASE Signal \/ StdoutFails \/ UNCHANGED vars
  <2>1. UNCHANGED <<opt, mainVars, jobs, pc, job, iterVars, outVars, failed, warned, poolVars>>
    BY <1>6 DEF Signal, StdoutFails, EnvOnly, vars, failVars
  <2>2. /\ stdout' \in BOOLEAN /\ cancelled' \in {"no", "error", "signal"}
        /\ atCancel' \in 0 .. Len(Contents) + 1
    <3>1. next \in 0 .. Len(Contents) + 1
      BY <1>0, FilesAre DEF ControlTypes
    <3>2. QED
      BY <1>0, <1>6, <3>1 DEF Signal, StdoutFails, Cancel, WorkTypes, vars, failVars
  <2>3. WorkTypes'
    BY <1>0, <2>1, <2>2 DEF WorkTypes, iterVars, outVars
  <2>4. ControlTypes' /\ OnceInv' /\ Opened' = Opened
    BY <1>0, <1>2, <2>1 DEF ControlTypes, Opened, HasOpen, mainVars
  <2>5. /\ \A a \in Agents : pc'[a] \notin {"idle", "exited"} => job'[a] # 0
        /\ main' # "look" => pc'[Main] = "idle"
        /\ main' = "done" => \A w \in Workers : pc'[w] = "exited"
    BY <2>1 DEF ConnInv, mainVars
  <2>6. QED
    BY <2>1, <2>3, <2>4, <2>5, FileMovesStep DEF mainVars
<1>7. QED
  BY <1>3, <1>4, <1>5, <1>6 DEF Next

LEMMA ConnInit == Init => ConnInv
<1>1. SUFFICES ASSUME Init PROVE ConnInv
  OBVIOUS
<1>2. /\ Len(Contents) \in Nat /\ Files = 1 .. Len(Contents) /\ Main \in Agents
      /\ PoolSize \in Nat /\ Cardinality({}) = 0
  BY FilesAre, FtpPoolAssumption, FS_EmptySet DEF Agents
<1>3. ControlTypes /\ WorkTypes /\ PoolTypes
  <2>1. ControlTypes
    BY <1>1, <1>2 DEF Init, ControlTypes, AgentPcs
  <2>2. WorkTypes
    <3>1. /\ pos \in [Agents -> Nat \ {0}] /\ count \in [Agents -> Nat]
          /\ over \in [Agents -> BOOLEAN]
      BY <1>1 DEF Init
    <3>2. listed \in [Files -> Seq(Nat)] /\ 0 \in 0 .. Len(Contents) + 1
      BY <1>1, <1>2 DEF Init
    <3>3. QED
      BY <1>1, <3>1, <3>2 DEF Init, WorkTypes
  <2>3. PoolTypes
    BY <1>1, <1>2 DEF Init, PoolInit, PoolTypes
  <2>4. QED
    BY <2>1, <2>2, <2>3
<1>4. TypeOK
  BY <1>3 DEF TypeOK, ControlTypes, WorkTypes, PoolTypes
<1>5. OnceInv
  BY <1>1 DEF Init, OnceInv
<1>6. Opened = {} /\ \A a \in Agents : pc[a] \in {"idle", "exited"}
  BY <1>1 DEF Init, Opened, HasOpen
<1>7. lost <= Cardinality(failed) + (IF exit = "ok" THEN 0 ELSE 1)
  BY <1>1, <1>2 DEF Init, PoolInit
<1>8. QED
  BY <1>1, <1>4, <1>5, <1>6, <1>7 DEF Init, PoolInit, ConnInv

LEMMA ConnInvariance == Spec => []ConnInv
<1>1. Init => ConnInv
  BY ConnInit
<1>2. ConnInv /\ [Next]_vars => ConnInv'
  BY ConnStep
<1>3. QED
  BY <1>1, <1>2, PTL DEF Spec

\* Every variable of `ls` stays in its type, whatever files, options, faults and goroutines
\* there are, and no more connections are out than --ftp-pool-size.
THEOREM ListingTypeCorrect == Spec => []TypeOK
<1>1. ConnInv => TypeOK
  BY DEF ConnInv
<1>2. QED
  BY <1>1, ConnInvariance, PTL

\* A connection is lost with a file that fails, or with the walk, and with nothing else;
\* when the run has ended every other one is back in the pool.
THEOREM ConnectionsComeBack == Spec => []ConnectionsReturned
<1>1. ConnInv => ConnectionsReturned
  <2>1. SUFFICES ASSUME ConnInv, main = "done" PROVE holding = {}
    BY DEF ConnInv, ConnectionsReturned
  <2>2. Opened = {}
    BY <2>1 DEF ConnInv, Opened, HasOpen, Agents
  <2>3. QED
    BY <2>1, <2>2 DEF ConnInv
<1>2. QED
  BY <1>1, ConnInvariance, PTL
=============================================================================
