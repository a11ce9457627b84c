----------------------------- MODULE ArcReader -----------------------------
(***************************************************************************)
(* Reading an ARC file: a file is a sequence of units, the pieces of bytes *)
(* its reader tells apart, and may be damaged anywhere.  A record is a     *)
(* line, as much content as the line says, and a line feed; it may be a    *)
(* gzip member of its own.  The file may be a member of a zip archive.     *)
(***************************************************************************)
EXTENDS Naturals, Sequences

CONSTANT Inputs  \* [units, short]; short: a zip member that ends before its size

Lines == {"file",    \* the first line of a file header
          "file0",   \* one with a length too small for the lines of the header
          "url",     \* the line of a record
          "bad"}     \* a line that begins like one and cannot be parsed
Units == Lines \cup
         {"gz",               \* the beginning of a gzip member
          "sum", "badsum",    \* the end of one, with the right checksum or a wrong one
          "text",             \* content; of a header, its version and the rest
          "lf",
          "junk"}             \* anything else

ASSUME ArcAssumption == Inputs \subseteq [units : Seq(Units), short : BOOLEAN]

VARIABLES
  input,      \* the file; never changes
  pc,         \* "search", "line", "content", "rest", "end", "deliver", "done", "failed"
  pos,        \* the next unit
  torn,       \* that unit lacks its first byte
  member,     \* the record is a gzip member
  from,       \* where the record begins
  version,    \* of the last header, 0 before one
  whole,      \* the record has the content its line tells of, and no other
  noted,      \* the builder found fault with a record and let it pass
  delivered   \* the records the handler got: [from, to, whole]

place == <<pos, torn>>
vars == <<input, pc, place, member, from, version, whole, noted, delivered>>

Init ==
  /\ input \in Inputs
  /\ pc = "search" /\ pos = 1 /\ torn = FALSE
  /\ member = FALSE /\ from = 1 /\ version = 0 /\ whole = TRUE
  /\ noted = FALSE /\ delivered = <<>>

file == input.units
Unit == IF pos \in DOMAIN file THEN file[pos] ELSE "none"

-----------------------------------------------------------------------------
(* Unmarshal *)

\* What searchNextRecord stops at; everything else it passes over byte by byte.
Starts(i) == file[i] \in Lines \cup {"gz"} /\ ~(i = pos /\ torn)

\* The record found is not where it was expected.
Misplaced_Never(start) == FALSE
Misplaced(start) == start # pos

Search ==
  /\ pc = "search"
  /\ \E start \in pos..Len(file) :
       /\ Starts(start) /\ \A i \in pos..(start - 1) : ~Starts(i)
       /\ pc' = IF Misplaced(start) THEN "failed" ELSE "line"
       /\ member' = (file[start] = "gz")
       /\ from' = start
       /\ pos' = IF member' THEN start + 1 ELSE start
       /\ torn' = FALSE
  /\ UNCHANGED <<input, version, whole, noted, delivered>>

\* Whatever has been passed over, the end of the file is the end of its records; of a
\* member of an archive that is too short, the archive may say so instead.
NoMore ==
  /\ pc = "search"
  /\ \A i \in pos..Len(file) : ~Starts(i)
  /\ pc' \in IF input.short THEN {"done", "failed"} ELSE {"done"}
  /\ UNCHANGED <<input, place, member, from, version, whole, noted, delivered>>

\* The end of what the record is read from: the end of its member, or of the file.
AtEnd == IF member THEN Unit \in {"sum", "badsum", "none"} ELSE Unit = "none"

\* The file ends where the decompressor does not expect it to, or may not: an archive
\* calls such an end unexpected, or not, by how much is asked for at once.
Truncated == Unit = "none" /\ member
CutOff    == Truncated \/ (Unit = "none" /\ input.short)

\* The line of a record, and of a header its version with it.
ReadLine ==
  /\ pc = "line"
  /\ IF \/ Unit = "url" /\ version = 1
        \/ Unit \in {"file", "file0"} /\ pos < Len(file) /\ file[pos + 1] = "text"
     THEN /\ pc' = IF Unit = "file0" THEN "rest" ELSE "content"
          /\ version' = 1
     ELSE pc' = "failed" /\ UNCHANGED version
  /\ pos' = IF AtEnd THEN pos ELSE pos + 1
  /\ UNCHANGED <<input, torn, member, from, whole, noted, delivered>>

\* As much content as the line says, whatever it is.
ReadContent ==
  /\ pc = "content" /\ ~AtEnd
  /\ whole' = (Unit = "text")
  /\ pos' = pos + 1
  /\ pc' = "end"
  /\ UNCHANGED <<input, torn, member, from, version, noted, delivered>>

\* No content is left: the builder compares the lengths, and the options say what it does.
\* A member that is read to its end is checked, and a wrong checksum is an error.
ContentEnds ==
  /\ pc = "content" /\ AtEnd /\ ~Truncated
  /\ whole' = FALSE
  /\ \/ Unit # "badsum" /\ pc' = "end" /\ noted' = TRUE
     \/ pc' = "failed" /\ UNCHANGED noted
  /\ UNCHANGED <<input, place, member, from, version, delivered>>

\* An unexpected end of the file is turned into its end.
ContentCut ==
  /\ pc = "content" /\ CutOff
  /\ pc' = "done"
  /\ UNCHANGED <<input, place, member, from, version, whole, noted, delivered>>

\* The first unit that ends the member, or the end of the file.
EndOfMember == CHOOSE i \in pos..(Len(file) + 1) :
  /\ i <= Len(file) => file[i] \in {"sum", "badsum"}
  /\ \A j \in pos..(i - 1) : file[j] \notin {"sum", "badsum"}

\* What remains of a length that is less than nothing has no limit: the header takes all,
\* and what ends that is an end as in ContentEnds and ContentCut.
ReadRest ==
  /\ pc = "rest"
  /\ LET end == IF member THEN EndOfMember ELSE Len(file) + 1
     IN /\ pos' = end
        /\ whole' = FALSE
        /\ \/ pc' = "end" /\ (member => end \in DOMAIN file /\ file[end] = "sum")
           \/ pc' = "failed" /\ end \in DOMAIN file /\ file[end] = "badsum"
           \/ pc' = "done" /\ end \notin DOMAIN file /\ (member \/ input.short)
  /\ UNCHANGED <<input, torn, member, from, version, noted, delivered>>

\* The deferred check of the end of the record.  It finds what is wrong with it, a byte
\* that is no line feed, content that is left over, a wrong checksum, and tells nobody.
EndRecord ==
  /\ pc = "end"
  /\ IF member
     THEN /\ pos' = IF EndOfMember > Len(file) THEN EndOfMember ELSE EndOfMember + 1
          /\ torn' = FALSE
     ELSE /\ pos' = IF Unit = "lf" THEN pos + 1 ELSE pos
          /\ torn' = (Unit \notin {"lf", "none"})
  /\ pc' = "deliver"
  /\ UNCHANGED <<input, member, from, version, whole, noted, delivered>>

-----------------------------------------------------------------------------
(* Next and Records, and the handler's loop over them.  An error is the last *)
(* thing the handler gets.                                                    *)

Deliver ==
  /\ pc = "deliver"
  /\ delivered' = Append(delivered, [from |-> from, to |-> pos, whole |-> whole])
  /\ pc' = "search"
  /\ UNCHANGED <<input, place, member, from, version, whole, noted>>

Next ==
  \/ Search \/ NoMore \/ ReadLine \/ ReadContent \/ ContentEnds \/ ContentCut
  \/ ReadRest \/ EndRecord \/ Deliver

Spec == Init /\ [][Next]_vars

-----------------------------------------------------------------------------
(* Properties *)

TypeOK ==
  /\ input \in Inputs
  /\ pc \in {"search", "line", "content", "rest", "end", "deliver", "done", "failed"}
  /\ pos \in 1..(Len(file) + 1) /\ from \in Nat /\ version \in {0, 1}
  /\ {torn, member, whole, noted} \subseteq BOOLEAN
  /\ delivered \in Seq([from : Nat, to : Nat, whole : BOOLEAN])

Plain(line)  == <<line, "text", "lf">>
Zipped(line) == <<"gz", line, "text", "lf", "sum">>
Members(i) ==
  LET lines == IF i = 1 THEN {"file"} ELSE {"file", "url"}
  IN {Plain(l) : l \in lines} \cup {Zipped(l) : l \in lines}

\* Whether a file is sound up to, and without, its unit i.
MemberAt(start, end) == SubSeq(file, start, end - 1) \in Members(start)
Sound[i \in 1..(Len(file) + 1)] ==
  i = 1 \/ \E start \in 1..(i - 1) : MemberAt(start, i) /\ Sound[start]

\* The reader never finds its way by guessing: the first record it delivers is at the
\* start of the file and each of the others where the one before it ended (unmarshaler.go:
\* searchNextRecord and the end of Unmarshal) ...
Begin(i) == IF i = 1 THEN 1 ELSE delivered[i - 1].to
Adjoining == \A i \in DOMAIN delivered : delivered[i].from = Begin(i)

\* ... and of the part of the file before any damage every record is delivered whole
\* (arcreader.go: Next, Records).
ReadInPlace ==
  /\ Adjoining
  /\ \A i \in DOMAIN delivered :
       Sound[delivered[i].to] /\ delivered[i].to <= Len(file) + 1 => delivered[i].whole
  /\ pc \in {"done", "failed"} =>
       \A i \in 2..(Len(file) + 1) :
         Sound[i] => \E k \in DOMAIN delivered : delivered[k].to = i

\* What makes them adjoin: the place at which a search begins, and the one at which a
\* record was found, is the end of the last record delivered.
NextBegin == Begin(Len(delivered) + 1)
PlaceInv ==
  /\ pc = "search" => pos = NextBegin
  /\ pc \in {"line", "content", "rest", "end", "deliver"} => from = NextBegin

IInv == TypeOK /\ Adjoining /\ PlaceInv

\* What makes it read in place: on its way through a sound record it is where the record
\* says, with what the record says ...
PartLength == IF member THEN 1 ELSE 0
OnTrackTo(end) ==
  /\ pc \in {"line", "content", "end"} => member = (file[from] = "gz")
  /\ pc = "line" => pos = from + PartLength
  /\ pc = "content" => pos = from + PartLength + 1
  /\ pc # "rest"
  /\ pc = "end" => pos = from + PartLength + 2 /\ whole
  /\ pc = "deliver" => pos = end /\ ~torn /\ whole
OnTrack ==
  Sound[from] =>
    \A end \in (from + 1)..(Len(file) + 1) : MemberAt(from, end) => OnTrackTo(end)

\* ... and once it has left the sound part of the file, nothing sound is ahead of it.
SoundAhead == \E i \in (NextBegin + 1)..(Len(file) + 1) : Sound[i]
Moving == /\ pc = "line" => from <= pos
          /\ pc \in {"content", "rest", "end", "deliver"} => from < pos /\ version = 1
          /\ delivered # <<>> => version = 1
SoundSoFar ==
  /\ \A i \in DOMAIN delivered :
       delivered[i].to \in 1..(Len(file) + 1) /\ (Sound[delivered[i].to] => delivered[i].whole)
  /\ \A i \in 2..NextBegin : Sound[i] => \E k \in DOMAIN delivered : delivered[k].to = i
  /\ SoundAhead => Sound[NextBegin]
SoundInv ==
  /\ Moving /\ SoundSoFar
  /\ pc = "search" /\ Sound[pos] => ~torn
  /\ pc \in {"line", "content", "rest", "end", "deliver"} => OnTrack
  /\ pc \in {"done", "failed"} => ~SoundAhead
=============================================================================
