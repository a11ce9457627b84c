------------------------------- MODULE Dedup --------------------------------
(***************************************************************************)
(* warc dedup: what its workers do to the records of the files that        *)
(* Preposterous hands to them (handleFile and handleRecord in cmd/dedup),  *)
(* composed with the life of a file, the digest index and the output.      *)
(*                                                                         *)
(* A record either is written as it is or, when the digest index knows     *)
(* another record with its digest and the saving is worth it, is replaced  *)
(* by a revisit record that refers to that other one.  IsRevisit is one    *)
(* atomic step: DigestIndex shows that the transactions behind it are.     *)
(* Faults may hold, besides those of Preposterous: "read", a file cannot   *)
(* be opened or read on; "validation", a record holds errors; "revisit", a *)
(* revisit record cannot be made; "write", a record cannot be written.     *)
(***************************************************************************)
EXTENDS Preposterous, Sequences

CONSTANTS
  Records,          \* every record of the input
  NoRecord,
  Contents,         \* [Files -> Seq(Records)]: the records of each file
  Digests,
  NoDigest,         \* stands for the digest of a record that is no candidate
  Digest,           \* [Records -> Digests \cup {NoDigest}]
  Size,             \* [Records -> Nat]: payloadLength
  RefSize,          \* [Records -> Nat]: revisitRefSize of a reference to it
  MinimumSizeGain   \* --min-size-gain

ASSUME DedupAssumption ==
  /\ NoRecord \notin Records
  /\ NoDigest \notin Digests
  /\ Contents \in [Files -> Seq(Records)]
  /\ Digest \in [Records -> Digests \cup {NoDigest}]
  /\ Size \in [Records -> Nat]
  /\ RefSize \in [Records -> Nat]
  /\ MinimumSizeGain \in Int

VARIABLES
  step,         \* per worker, where it is in handleFile
  rest,         \* per worker, the records of its file still to be handled
  ref,          \* per worker, the record its revisit will refer to, or NoRecord
  errors,       \* per worker, whether its result holds errors
  digestIndex,  \* persistent: per digest, the record registered first
  output        \* persistent: the records written, see Entry

workVars  == <<step, rest, ref, errors>>
dedupVars == <<workVars, digestIndex, output>>

Steps == {"open", "next", "index", "write"}

\* An output record stands for input record r: r itself, or a revisit to t.
Entry(r, t) == [of |-> r, refersTo |-> t]
Full(r)     == Entry(r, NoRecord)

NoIndex == [d \in Digests |-> NoRecord]

DedupInit ==
  /\ Init
  /\ step = [w \in Workers |-> "open"]
  /\ rest = [w \in Workers |-> <<>>]
  /\ ref = [w \in Workers |-> NoRecord]
  /\ errors = [w \in Workers |-> FALSE]
  /\ digestIndex = NoIndex
  /\ output = {}

At(w, s) == stage[w] = "handle" /\ step[w] = s
Now(w)   == Head(rest[w])

\* A record is deduplicated if its type and its version say so and it has a digest.
Candidate(r) == Digest[r] # NoDigest

\* Whether a revisit to t instead of r is small enough to be worth it.
Gains(r, t) == RefSize[t] < Size[r] - MinimumSizeGain

\* handleFile returns to Preposterous, with its result or without one.
Finish(w, r, e) ==
  /\ HandlerReturns(w, r, e)
  /\ step' = [step EXCEPT ![w] = "open"]
  /\ rest' = [rest EXCEPT ![w] = <<>>]
  /\ ref' = [ref EXCEPT ![w] = NoRecord]
  /\ errors' = [errors EXCEPT ![w] = FALSE]

Result(w) == IF errors[w] THEN "errors" ELSE "clean"

-----------------------------------------------------------------------------
(* Deliberately wrong variants of definitions below: see the README.       *)

\* The answer is the caller's own reference when it has just been registered.
IsRevisit_OwnRef(w) ==
  LET r == Now(w)
      d == Digest[r]
      t == IF digestIndex[d] = NoRecord THEN r ELSE digestIndex[d]
  IN
  /\ At(w, "index")
  /\ digestIndex' = [digestIndex EXCEPT ![d] = t]
  /\ ref' = [ref EXCEPT ![w] = IF Gains(r, t) THEN t ELSE NoRecord]
  /\ step' = [step EXCEPT ![w] = "write"]
  /\ UNCHANGED <<vars, rest, errors, output>>

\* The last record with the digest is registered, not the first.
IsRevisit_LastWins(w) ==
  LET r == Now(w)
      d == Digest[r]
  IN
  /\ At(w, "index")
  /\ digestIndex' = [digestIndex EXCEPT ![d] = r]
  /\ ref' = [ref EXCEPT ![w] = NoRecord]
  /\ step' = [step EXCEPT ![w] = "write"]
  /\ UNCHANGED <<vars, rest, errors, output>>

\* A record whose write fails is passed over.
WriteRecord_Ignore(w) ==
  /\ At(w, "write")
  /\ \/ output' = output \cup {Entry(Now(w), ref[w])}
     \/ "write" \in Faults /\ UNCHANGED output
  /\ step' = [step EXCEPT ![w] = "next"]
  /\ rest' = [rest EXCEPT ![w] = Tail(@)]
  /\ UNCHANGED <<vars, ref, errors, digestIndex>>

\* The named result of handleFile is never set.
EndOfFile_NoResult(w) ==
  /\ At(w, "next") /\ rest[w] = <<>>
  /\ Finish(w, "nil", "none")
  /\ UNCHANGED <<digestIndex, output>>

\* The reference of the previous record is still there.
NextRecord_StaleRef(w) ==
  /\ At(w, "next") /\ rest[w] # <<>>
  /\ step' = [step EXCEPT ![w] = IF Candidate(Now(w)) THEN "index" ELSE "write"]
  /\ UNCHANGED <<vars, rest, ref, errors, digestIndex, output>>

-----------------------------------------------------------------------------
\* The file is opened, its reader made.
OpenFile(w) ==
  /\ At(w, "open")
  /\ \/ /\ step' = [step EXCEPT ![w] = "next"]
        /\ rest' = [rest EXCEPT ![w] = Contents[file[w]]]
        /\ UNCHANGED <<vars, ref, errors>>
     \/ "read" \in Faults /\ Finish(w, "nil", "error")
  /\ UNCHANGED <<digestIndex, output>>

\* The next record is read, or the file fails: at a broken record, at one
\* without a date, or for want of a writer.  Errors the reader found in a record
\* may be added to the result.  A record that is no candidate is written as it is.
NextRecord(w) ==
  /\ At(w, "next") /\ rest[w] # <<>>
  /\ \/ /\ step' = [step EXCEPT ![w] = IF Candidate(Now(w)) THEN "index" ELSE "write"]
        /\ ref' = [ref EXCEPT ![w] = NoRecord]
        /\ \/ UNCHANGED errors
           \/ "validation" \in Faults /\ errors' = [errors EXCEPT ![w] = TRUE]
        /\ UNCHANGED <<vars, rest>>
     \/ "read" \in Faults /\ Finish(w, Result(w), "error")
  /\ UNCHANGED <<digestIndex, output>>

EndOfFile(w) ==
  /\ At(w, "next") /\ rest[w] = <<>>
  /\ Finish(w, Result(w), "none")
  /\ UNCHANGED <<digestIndex, output>>

\* DigestIndex.IsRevisit, and what handleRecord makes of its answer.  When the
\* call fails, its reference may have been registered all the same.
IsRevisit(w) ==
  LET r     == Now(w)
      d     == Digest[r]
      known == digestIndex[d]
      first == [digestIndex EXCEPT ![d] = IF known = NoRecord THEN r ELSE known]
  IN
  /\ At(w, "index")
  /\ \/ /\ digestIndex' = first
        /\ ref' = [ref EXCEPT ![w] =
                     IF known # NoRecord /\ Gains(r, known) THEN known ELSE NoRecord]
        /\ UNCHANGED errors
     \/ /\ "revisit" \in Faults      \* ToRevisitRecord fails
        /\ known # NoRecord /\ Gains(r, known)
        /\ errors' = [errors EXCEPT ![w] = TRUE]
        /\ UNCHANGED <<digestIndex, ref>>
     \/ /\ "index" \in Faults        \* IsRevisit fails
        /\ digestIndex' \in {digestIndex, first}
        /\ errors' = [errors EXCEPT ![w] = TRUE]
        /\ UNCHANGED ref
  /\ step' = [step EXCEPT ![w] = "write"]
  /\ UNCHANGED <<vars, rest, output>>

\* writeRecord: an error ends the file.
WriteRecord(w) ==
  /\ At(w, "write")
  /\ \/ /\ output' = output \cup {Entry(Now(w), ref[w])}
        /\ step' = [step EXCEPT ![w] = "next"]
        /\ rest' = [rest EXCEPT ![w] = Tail(@)]
        /\ UNCHANGED <<vars, ref, errors>>
     \/ "write" \in Faults /\ Finish(w, Result(w), "error") /\ UNCHANGED output
  /\ UNCHANGED digestIndex

HandleFile(w) ==
  \/ OpenFile(w) \/ NextRecord(w) \/ EndOfFile(w)
  \/ IsRevisit(w) \/ WriteRecord(w)

\* The next run finds this in the digest index; nobody touches the output.
DedupStartRun(left) ==
  /\ step' = [w \in Workers |-> "open"]
  /\ rest' = [w \in Workers |-> <<>>]
  /\ ref' = [w \in Workers |-> NoRecord]
  /\ errors' = [w \in Workers |-> FALSE]
  /\ digestIndex' = left
  /\ UNCHANGED output

\* An orderly end removes the index unless --keep-index, a crash does not;
\* --new-index empties it.
DedupNextRun(reset) ==
  /\ NextRun(reset)
  /\ DedupStartRun(IF reset \/ ~KeepIndex THEN NoIndex ELSE digestIndex)

DedupCrash(reset) ==
  /\ Crash(reset)
  /\ DedupStartRun(IF reset THEN NoIndex ELSE digestIndex)

DedupNext ==
  \/ \E w \in Workers : HandleFile(w) \/ (WrapNext(w) /\ UNCHANGED dedupVars)
  \/ \E reset \in BOOLEAN : DedupNextRun(reset) \/ DedupCrash(reset)

DedupSpec == DedupInit /\ [][DedupNext]_<<vars, dedupVars>>
-----------------------------------------------------------------------------
(* Properties.                                                             *)

RecordsOf(f) == {Contents[f][i] : i \in DOMAIN Contents[f]}

\* Every variable of the handler stays in its type.
DedupTypeOK ==
  /\ TypeOK
  /\ step \in [Workers -> Steps]
  /\ rest \in [Workers -> Seq(Records)]
  /\ ref \in [Workers -> Records \cup {NoRecord}]
  /\ errors \in [Workers -> BOOLEAN]
  /\ digestIndex \in [Digests -> Records \cup {NoRecord}]
  /\ output \subseteq [of : Records, refersTo : Records \cup {NoRecord}]

\* Dedup drops nothing: when a file is reported without an error (as handled, or
\* as saved by an earlier run) each of its records is in the output, as itself
\* or as a revisit.  Crashes, failed writes and reruns do not change that.
EveryRecordWritten ==
  \A f \in Files : reported[f] \in Saved =>
    \A r \in RecordsOf(f) : \E e \in output : e.of = r

\* A revisit stands for its record: it refers to a record with the same digest.
RevisitsMatch ==
  \A e \in output : e.refersTo # NoRecord =>
    Candidate(e.of) /\ Digest[e.refersTo] = Digest[e.of]

\* The payload of r can be read back: r, or a record with its digest, is in the
\* output in full.
PayloadIn(r) ==
  \/ Full(r) \in output
  \/ Candidate(r) /\ \E s \in Records : Digest[s] = Digest[r] /\ Full(s) \in output

\* Dedup loses no payload: when a run has reported every file without an error,
\* the payload of every record is in the output, this run's or an earlier one's.
PayloadKept ==
  (\A f \in Files : reported[f] \in Saved) =>
    \A f \in Files : \A r \in RecordsOf(f) : PayloadIn(r)

\* Dedup deduplicates: a candidate is written in full only if it is the record
\* registered for its digest, or if a revisit to that one would not gain enough.
DueInFull(r) ==
  LET known == digestIndex[Digest[r]]
  IN  known = r \/ (known # NoRecord /\ ~Gains(r, known))
Deduplicated ==
  \A r \in Records : Full(r) \in output /\ Candidate(r) => DueInFull(r)

\* Seen without its records, deduplication is a command like any other: what
\* handleFile does to a file is one of the returns that Preposterous allows.
ImplementsPreposterous == Spec
-----------------------------------------------------------------------------
(* The inductive invariant behind the theorems of Dedup_proofs.            *)

Written(r) == \E e \in output : e.of = r

\* A worker has a record at hand where it needs one, and refers to a record
\* with the same digest.
WorkInv ==
  \A w \in Workers :
    /\ stage[w] # "handle" => step[w] = "open"
    /\ At(w, "index") \/ At(w, "write") => rest[w] # <<>>
    /\ At(w, "index") => Digest[Now(w)] # NoDigest /\ ref[w] = NoRecord
    /\ At(w, "write") /\ ref[w] # NoRecord =>
         Digest[Now(w)] # NoDigest /\ Digest[ref[w]] = Digest[Now(w)]

\* Every record of a handled file is written; of a file in hand, a record that is
\* not yet written is still to come.
WrittenInv ==
  /\ \A f \in handled : \A r \in RecordsOf(f) : Written(r)
  /\ \A w \in Workers : stage[w] = "handle" /\ step[w] # "open" =>
       \A r \in RecordsOf(file[w]) : Written(r) \/ \E i \in DOMAIN rest[w] : rest[w][i] = r

\* The index registers records under their own digests.
IndexMatches ==
  \A d \in Digests : digestIndex[d] # NoRecord => Digest[digestIndex[d]] = d

\* Record t is in the output in full, or a worker is about to write it.
Backed(t) ==
  \/ Full(t) \in output
  \/ \E w \in Workers : At(w, "write") /\ Now(w) = t /\ ref[w] = NoRecord

\* Unless a write fails or the process is killed, every record that is
\* registered or referred to is backed.
BackedInv ==
  "write" \notin Faults /\ "crash" \notin Faults =>
    /\ \A d \in Digests : digestIndex[d] # NoRecord => Backed(digestIndex[d])
    /\ \A w \in Workers : At(w, "write") /\ ref[w] # NoRecord => Backed(ref[w])
    /\ \A e \in output : e.refersTo # NoRecord => Backed(e.refersTo)

HandleInv ==
  DedupTypeOK /\ WorkInv /\ WrittenInv /\ IndexMatches /\ RevisitsMatch /\ BackedInv

DedupIInv == IInv /\ HandleInv

\* No later run finds an emptier digest index than the one before has left.
IndexStays == (KeepIndex /\ ~MayReset) \/ MaxRuns = 1

\* Beyond DedupIInv, unless the index or the making of a revisit fails: what a worker is
\* about to write in full is due in full.
DueInv ==
  /\ Deduplicated
  /\ \A w \in Workers : At(w, "write") /\ ref[w] = NoRecord /\ Candidate(Now(w)) =>
       DueInFull(Now(w))
=============================================================================
