-------------------------- MODULE ArcReader_proofs --------------------------
(***************************************************************************)
(* Theorems about ArcReader, for every file, however long and damaged.     *)
(*                                                                         *)
(* That the sound part of a file is delivered whole rests on two facts     *)
(* about Sound: nothing within a record looks like the end of one, and so  *)
(* the records of the sound part follow each other in one way only.        *)
(***************************************************************************)
EXTENDS ArcReader, WellFoundedInduction, TLAPS

\* A set of numbers that is not empty has a least one.
LEMMA LeastNumber ==
  ASSUME NEW S \in SUBSET Nat, S # {} PROVE \E n \in S : \A m \in S : n <= m
<1> DEFINE Less == OpToRel(<, Nat)
<1>1. IsWellFoundedOn(Less, Nat)
  BY NatLessThanWellFounded, Zenon
<1>2. \A j, k \in Nat : j < k => <<j, k>> \in Less
  BY Zenon DEF OpToRel
<1> HIDE DEF Less
<1>3. PICK n \in S : \A m \in S : ~(<<m, n>> \in Less)
  BY <1>1, WFMin
<1>4. \A m \in S : ~(m < n)
  BY <1>2, <1>3
<1>5. QED
  BY <1>4

\* The units of the file are a sequence.
LEMMA FileType == ASSUME TypeOK PROVE file \in Seq(Units) /\ Len(file) \in Nat
BY ArcAssumption DEF TypeOK, file

\* Of the units at which a member may end there is a first.
LEMMA EndOfMemberExists ==
  ASSUME TypeOK
  PROVE  /\ EndOfMember \in pos..(Len(file) + 1)
         /\ EndOfMember <= Len(file) => file[EndOfMember] \in {"sum", "badsum"}
         /\ \A j \in pos..(EndOfMember - 1) : file[j] \notin {"sum", "badsum"}
<1> DEFINE Ends == {i \in pos..(Len(file) + 1) :
                      i <= Len(file) => file[i] \in {"sum", "badsum"}}
<1>1. Len(file) \in Nat /\ pos \in 1..(Len(file) + 1)
  BY FileType DEF TypeOK
<1>2. Len(file) + 1 \in Ends /\ Ends \in SUBSET Nat
  BY <1>1
<1>3. PICK i \in Ends : \A j \in Ends : i <= j
  <2> HIDE DEF Ends
  <2>1. QED
    BY <1>2, LeastNumber
<1>4. \A j \in pos..(i - 1) : file[j] \notin {"sum", "badsum"}
  <2>1. SUFFICES ASSUME NEW j \in pos..(i - 1), file[j] \in {"sum", "badsum"} PROVE FALSE
    OBVIOUS
  <2>2. j \in Ends /\ j < i
    BY <1>1, <2>1
  <2>3. QED
    BY <1>1, <1>3, <2>2
<1>5. QED
  BY <1>4 DEF EndOfMember

\* What is read after the place it leads to keeps every variable in its type.
LEMMA TypeStep ==
  ASSUME TypeOK, [Next]_vars
  PROVE  TypeOK'
<1> USE DEF vars, place
<1>0. file' = file
  BY DEF file, Next, Search, NoMore, ReadLine, ReadContent, ContentEnds, ContentCut, ReadRest,
     EndRecord, Deliver
<1>1. file \in Seq(Units) /\ Len(file) \in Nat
  BY FileType
<1>2. Unit # "none" => pos + 1 \in 1..(Len(file) + 1)
  BY <1>1 DEF Unit, TypeOK
<1>3. EndOfMember \in 1..(Len(file) + 1)
  BY <1>1, EndOfMemberExists DEF TypeOK
<1>4. CASE Search
  <2>1. PICK start \in pos..Len(file) :
          /\ from' = start
          /\ pos' = IF member' THEN start + 1 ELSE start
          /\ member' = (file[start] = "gz") /\ torn' = FALSE
          /\ pc' = IF Misplaced(start) THEN "failed" ELSE "line"
    BY <1>4 DEF Search
  <2>2. start \in 1..Len(file)
    BY <1>1, <2>1 DEF TypeOK
  <2>3. from' \in Nat /\ pos' \in 1..(Len(file) + 1)
    BY <1>1, <2>1, <2>2
  <2>4. member' \in BOOLEAN /\ torn' \in BOOLEAN
    BY <2>1
  <2>5. QED
    BY <1>0, <1>4, <2>1, <2>3, <2>4 DEF TypeOK, Search
<1>5. CASE NoMore \/ ContentEnds \/ ContentCut
  BY <1>0, <1>5 DEF TypeOK, NoMore, ContentEnds, ContentCut
<1>6. CASE ReadLine
  <2>1. pos' \in 1..(Len(file) + 1)
    BY <1>2, <1>6 DEF ReadLine, AtEnd, TypeOK
  <2>2. QED
    BY <1>0, <1>6, <2>1 DEF TypeOK, ReadLine
<1>7. CASE ReadContent
  <2>1. pos' \in 1..(Len(file) + 1)
    BY <1>2, <1>7 DEF ReadContent, AtEnd
  <2>2. whole' \in BOOLEAN
    BY <1>7 DEF ReadContent
  <2>3. QED
    BY <1>0, <1>7, <2>1, <2>2 DEF TypeOK, ReadContent
<1>8. CASE ReadRest
  <2>1. pos' \in 1..(Len(file) + 1) /\ pc' \in {"done", "end", "failed"} /\ whole' = FALSE
    BY <1>1, <1>3, <1>8 DEF ReadRest
  <2>2. QED
    BY <1>0, <1>8, <2>1 DEF TypeOK, ReadRest
<1>9. CASE EndRecord
  <2>1. pos' \in 1..(Len(file) + 1)
    BY <1>1, <1>2, <1>3, <1>9 DEF EndRecord, TypeOK
  <2>2. torn' \in BOOLEAN
    BY <1>9 DEF EndRecord
  <2>3. QED
    BY <1>0, <1>9, <2>1, <2>2 DEF TypeOK, EndRecord
<1>10. CASE Deliver
  <2>1. [from |-> from, to |-> pos, whole |-> whole] \in [from : Nat, to : Nat, whole : BOOLEAN]
    BY <1>1 DEF TypeOK
  <2>2. delivered' \in Seq([from : Nat, to : Nat, whole : BOOLEAN])
    BY <1>10, <2>1 DEF Deliver, TypeOK
  <2>3. QED
    BY <1>0, <1>10, <2>2 DEF TypeOK, Deliver
<1>11. CASE UNCHANGED vars
  BY <1>0, <1>11 DEF TypeOK
<1>12. QED
  BY <1>4, <1>5, <1>6, <1>7, <1>8, <1>9, <1>10, <1>11 DEF Next

\* A record that is delivered begins where the one before it ended, and the next search
\* begins where it ends itself.
LEMMA PlaceStep ==
  ASSUME IInv, [Next]_vars
  PROVE  (Adjoining /\ PlaceInv)'
<1> USE DEF vars, place, Adjoining, PlaceInv, NextBegin
<1> DEFINE Record == [from : Nat, to : Nat, whole : BOOLEAN]
<1>1. delivered \in Seq(Record)
  BY DEF IInv, TypeOK
<1>2. UNCHANGED delivered =>
        Adjoining' /\ NextBegin' = NextBegin
  BY DEF IInv, Begin
<1>3. CASE Search
  <2>1. PICK start \in pos..Len(file) :
          from' = start /\ pc' = IF Misplaced(start) THEN "failed" ELSE "line"
    BY <1>3 DEF Search
  <2>2. pc' = "line" => from' = NextBegin
    BY <1>3, <2>1 DEF Misplaced, Search, IInv
  <2>3. QED
    BY <1>2, <1>3, <2>1, <2>2 DEF Search
<1>4. CASE NoMore \/ ReadLine \/ ReadContent \/ ContentEnds \/ ContentCut \/ ReadRest \/ EndRecord
  BY <1>2, <1>4 DEF NoMore, ReadLine, ReadContent, ContentEnds, ContentCut, ReadRest,
     EndRecord, IInv
<1>5. CASE Deliver
  <2> DEFINE new == [from |-> from, to |-> pos, whole |-> whole]
  <2>1. delivered' = Append(delivered, new) /\ from = NextBegin /\ pc' = "search" /\ pos' = pos
    BY <1>5 DEF Deliver, IInv
  <2>2. /\ Len(delivered') = Len(delivered) + 1
        /\ DOMAIN delivered' = 1..(Len(delivered) + 1)
        /\ delivered'[Len(delivered) + 1] = new
        /\ \A i \in DOMAIN delivered : delivered'[i] = delivered[i]
        /\ DOMAIN delivered = 1..Len(delivered) /\ Len(delivered) \in Nat
    BY <1>1, <2>1
  <2>3. new.from = from /\ new.to = pos
    OBVIOUS
  <2> HIDE DEF new
  <2>4. \A i \in 1..(Len(delivered) + 1) : Begin(i)' = Begin(i)
    BY <2>2 DEF Begin
  <2>5. Adjoining'
    <3>1. SUFFICES ASSUME NEW i \in 1..(Len(delivered) + 1)
                   PROVE  delivered'[i].from = Begin(i)
      BY <2>2, <2>4
    <3>2. CASE i = Len(delivered) + 1
      BY <2>1, <2>2, <2>3, <3>2
    <3>3. CASE i # Len(delivered) + 1
      BY <2>2, <3>3 DEF IInv
    <3>4. QED
      BY <3>2, <3>3
  <2>6. NextBegin' = pos'
    <3>1. NextBegin' = delivered'[Len(delivered) + 1].to
      BY <2>2 DEF Begin
    <3>2. QED
      BY <2>1, <2>2, <2>3, <3>1
  <2>7. QED
    BY <2>1, <2>5, <2>6
<1>6. CASE UNCHANGED vars
  BY <1>2, <1>6 DEF IInv
<1>7. QED
  BY <1>3, <1>4, <1>5, <1>6 DEF Next

\* The reader stays within the file, and begins each record at the end of the last.
THEOREM ArcInvariance == Spec => []IInv
<1>1. Init => IInv
  <2>1. SUFFICES ASSUME Init PROVE IInv
    OBVIOUS
  <2>2. file \in Seq(Units)
    BY <2>1, ArcAssumption DEF Init, file
  <2>3. TypeOK
    <3>1. pos \in 1..(Len(file) + 1)
      BY <2>1, <2>2 DEF Init
    <3>2. delivered \in Seq([from : Nat, to : Nat, whole : BOOLEAN])
      BY <2>1 DEF Init
    <3>3. QED
      BY <2>1, <3>1, <3>2 DEF Init, TypeOK
  <2>4. Adjoining /\ PlaceInv
    BY <2>1 DEF Init, Adjoining, PlaceInv, NextBegin, Begin
  <2>5. QED
    BY <2>3, <2>4 DEF IInv
<1>2. IInv /\ [Next]_vars => IInv'
  BY TypeStep, PlaceStep DEF IInv
<1>3. QED
  BY <1>1, <1>2, PTL DEF Spec

\* Every variable of the reader stays in its type; it never reads past the end of the file.
THEOREM ArcTypeCorrect == Spec => []TypeOK
<1>1. IInv => TypeOK
  BY DEF IInv
<1>2. QED
  BY <1>1, ArcInvariance, PTL

\* However a file is damaged, the reader delivers no record from a place it had to look
\* for: the first begins with the file, and every other where the one before it ended.
THEOREM RecordsAdjoin == Spec => []Adjoining
<1>1. IInv => Adjoining
  BY DEF IInv
<1>2. QED
  BY <1>1, ArcInvariance, PTL
-----------------------------------------------------------------------------

\* What Sound says of i, of any function f.
SoundStep(f, i) == i = 1 \/ \E start \in 1..(i - 1) : MemberAt(start, i) /\ f[start]


\* The recursion that Sound is defined by has a solution, so that Sound is one.
LEMMA SoundIs ==
  ASSUME Len(file) \in Nat
  PROVE  Sound = [i \in 1..(Len(file) + 1) |-> SoundStep(Sound, i)]
<1> DEFINE P(n) == \E f : f = [i \in 1..n |-> SoundStep(f, i)]
<1>1. P(0)
  <2>1. [i \in 1..0 |-> SoundStep(<<>>, i)] =
          [i \in 1..0 |-> SoundStep([j \in 1..0 |-> SoundStep(<<>>, j)], i)]
    OBVIOUS
  <2>2. QED
    BY <2>1
<1>2. ASSUME NEW n \in Nat, n # 0, P(n - 1) PROVE P(n)
  <2>1. PICK f : f = [i \in 1..(n - 1) |-> SoundStep(f, i)]
    BY <1>2
  <2> DEFINE g == [i \in 1..n |-> SoundStep(f, i)]
  <2>2. ASSUME NEW i \in 1..n PROVE SoundStep(f, i) = SoundStep(g, i)
    <3>1. \A j \in 1..(i - 1) : g[j] = f[j]
      BY <2>1
    <3> HIDE DEF g
    <3>2. QED
      BY <3>1 DEF SoundStep
  <2>3. g = [i \in 1..n |-> SoundStep(g, i)]
    BY <2>2
  <2> HIDE DEF g
  <2>4. QED
    BY <2>3
<1>3. \A n \in Nat : P(n)
  <2> HIDE DEF P
  <2> DEFINE Bad == {n \in Nat : ~P(n)}
  <2>1. SUFFICES ASSUME Bad # {} PROVE FALSE
    OBVIOUS
  <2>2. PICK n \in Bad : \A m \in Bad : n <= m
    <3>1. Bad \in SUBSET Nat
      OBVIOUS
    <3> HIDE DEF Bad
    <3>2. QED
      BY <2>1, <3>1, LeastNumber
  <2>3. n \in Nat /\ ~P(n) /\ n # 0
    BY <1>1, <2>2
  <2>4. P(n - 1)
    BY <2>2, <2>3
  <2>5. QED
    BY <1>2, <2>3, <2>4
<1>4. P(Len(file) + 1)
  BY <1>3
<1>5. QED
  BY <1>4 DEF Sound, SoundStep

\* What it is for a file to be sound up to its unit i.
LEMMA SoundAt ==
  ASSUME TypeOK, NEW i \in 1..(Len(file) + 1)
  PROVE  Sound[i] <=> (i = 1 \/ \E start \in 1..(i - 1) : MemberAt(start, i) /\ Sound[start])
<1>1. Sound[i] = SoundStep(Sound, i)
  <2>1. Sound = [j \in 1..(Len(file) + 1) |-> SoundStep(Sound, j)]
    BY FileType, SoundIs
  <2> HIDE DEF Sound
  <2>2. QED
    BY <2>1
<1>2. QED
  BY <1>1 DEF SoundStep

\* The units of a record, and where it ends.
PlainAt(s, e) ==
  /\ e = s + 3
  /\ file[s] \in {"file", "url"} /\ (s = 1 => file[s] = "file")
  /\ file[s + 1] = "text" /\ file[s + 2] = "lf"
ZippedAt(s, e) ==
  /\ e = s + 5 /\ file[s] = "gz"
  /\ file[s + 1] \in {"file", "url"} /\ (s = 1 => file[s + 1] = "file")
  /\ file[s + 2] = "text" /\ file[s + 3] = "lf" /\ file[s + 4] = "sum"

\* What SubSeq takes.
LEMMA Lookup ==
  ASSUME NEW S, NEW f \in Seq(S), NEW s \in Nat \ {0}, NEW e \in Nat, e <= Len(f), s <= e + 1
  PROVE  /\ Len(SubSeq(f, s, e)) = e - s + 1
         /\ \A i \in 1..(e - s + 1) : SubSeq(f, s, e)[i] = f[s + i - 1]
OBVIOUS

\* Every member is a plain record or a zipped one.
LEMMA MemberShape ==
  ASSUME TypeOK, NEW e \in 1..(Len(file) + 1), NEW s \in 1..(e - 1), MemberAt(s, e)
  PROVE  PlainAt(s, e) \/ ZippedAt(s, e)
<1> DEFINE m == SubSeq(file, s, e - 1)
<1>1. file \in Seq(Units) /\ Len(file) \in Nat
  BY FileType
<1>2. Len(m) = e - s /\ \A i \in 1..(e - s) : m[i] = file[s + i - 1]
  BY <1>1, Lookup
<1>3. PICK l \in {"file", "url"} :
        (s = 1 => l = "file") /\ (m = Plain(l) \/ m = Zipped(l))
  BY DEF MemberAt, Members
<1> HIDE DEF m
<1>4. CASE m = Plain(l)
  <2>1. Len(m) = 3 /\ m[1] = l /\ m[2] = "text" /\ m[3] = "lf"
    BY <1>4 DEF Plain
  <2>2. e - s = 3 /\ e = s + 3
    <3>1. e - s = 3
      BY <1>2, <2>1
    <3>2. QED
      BY <1>1, <3>1
  <2>3. s + 1 - 1 = s /\ s + 2 - 1 = s + 1 /\ s + 3 - 1 = s + 2
    BY <1>1
  <2>4. m[1] = file[s] /\ m[2] = file[s + 1] /\ m[3] = file[s + 2]
    BY <1>2, <2>2, <2>3
  <2>5. QED
    BY <1>3, <2>1, <2>2, <2>4 DEF PlainAt
<1>5. CASE m = Zipped(l)
  <2>1. Len(m) = 5 /\ m[1] = "gz" /\ m[2] = l /\ m[3] = "text" /\ m[4] = "lf" /\ m[5] = "sum"
    BY <1>5 DEF Zipped
  <2>2. e - s = 5 /\ e = s + 5
    <3>1. e - s = 5
      BY <1>2, <2>1
    <3>2. QED
      BY <1>1, <3>1
  <2>3. /\ s + 1 - 1 = s /\ s + 2 - 1 = s + 1 /\ s + 3 - 1 = s + 2
        /\ s + 4 - 1 = s + 3 /\ s + 5 - 1 = s + 4
    BY <1>1
  <2>4. /\ m[1] = file[s] /\ m[2] = file[s + 1] /\ m[3] = file[s + 2]
        /\ m[4] = file[s + 3] /\ m[5] = file[s + 4]
    BY <1>2, <2>2, <2>3
  <2>5. QED
    BY <1>3, <2>1, <2>2, <2>4 DEF ZippedAt
<1>6. QED
  BY <1>3, <1>4, <1>5

\* Nothing within a record looks like its end.
LEMMA NotInside ==
  ASSUME TypeOK, NEW e \in 1..(Len(file) + 1), NEW s \in 1..(e - 1), MemberAt(s, e), Sound[s],
         NEW i \in (s + 1)..(e - 1)
  PROVE  ~Sound[i]
<1> HIDE DEF Sound, MemberAt
<1>1. Len(file) \in Nat
  BY FileType
<1>2. PlainAt(s, e) \/ ZippedAt(s, e)
  BY MemberShape
<1>3. SUFFICES ASSUME Sound[i] PROVE FALSE
  OBVIOUS
<1>4. PICK t \in 1..(i - 1) : MemberAt(t, i) /\ Sound[t]
  BY <1>1, <1>3, SoundAt
<1>5. PlainAt(t, i) \/ ZippedAt(t, i)
  BY <1>1, <1>4, MemberShape
<1>6. file[i - 1] \in {"lf", "sum"}
  BY <1>5, <1>1 DEF PlainAt, ZippedAt
<1>7. ZippedAt(s, e) /\ i = s + 4
  BY <1>2, <1>6, <1>1 DEF PlainAt, ZippedAt
<1>8. t = s + 1
  BY <1>1, <1>5, <1>7 DEF PlainAt, ZippedAt
<1>9. PICK u \in 1..(t - 1) : MemberAt(u, t) /\ Sound[u]
  BY <1>1, <1>4, <1>8, SoundAt
<1>10. PlainAt(u, t) \/ ZippedAt(u, t)
  BY <1>1, <1>9, <1>4, MemberShape
<1>11. QED
  BY <1>1, <1>7, <1>8, <1>10 DEF PlainAt, ZippedAt

\* Of two places up to which a file is sound, the first has a record that begins there.
LEMMA RecordBetween ==
  ASSUME TypeOK, NEW s \in 1..(Len(file) + 1), Sound[s],
         NEW j \in (s + 1)..(Len(file) + 1), Sound[j]
  PROVE  \E e \in (s + 1)..j : MemberAt(s, e)
<1> HIDE DEF Sound, MemberAt
<1> DEFINE After == {k \in (s + 1)..(Len(file) + 1) : Sound[k]}
<1>1. Len(file) \in Nat
  BY FileType
<1>2. After \in SUBSET Nat /\ After # {}
  BY <1>1
<1>3. PICK e \in After : \A k \in After : e <= k
  <2> HIDE DEF After
  <2>1. QED
    BY <1>2, LeastNumber
<1>4. e \in (s + 1)..j
  BY <1>1, <1>3
<1>5. PICK t \in 1..(e - 1) : MemberAt(t, e) /\ Sound[t]
  BY <1>1, <1>3, SoundAt
<1>6. ~(t > s)
  BY <1>1, <1>3, <1>5
<1>7. ~(t < s)
  BY <1>1, <1>4, <1>5, NotInside
<1>8. t = s
  BY <1>1, <1>4, <1>5, <1>6, <1>7
<1>9. QED
  BY <1>4, <1>5, <1>8

\* What is sound depends on the file alone.
LEMMA SoundFrame ==
  ASSUME file' = file
  PROVE  Sound' = Sound /\ \A s, e : MemberAt(s, e)' = MemberAt(s, e)
<1>1. \A s, e : MemberAt(s, e)' = MemberAt(s, e)
  BY DEF MemberAt, Members
<1>2. Sound' = Sound
  BY <1>1 DEF Sound
<1>3. QED
  BY <1>1, <1>2

\* A search begins within the file.
LEMMA NextBeginIn ==
  ASSUME TypeOK, SoundSoFar
  PROVE  NextBegin \in 1..(Len(file) + 1) /\ (NextBegin # 1 => delivered # <<>>)
<1>1. Len(file) \in Nat /\ delivered \in Seq([from : Nat, to : Nat, whole : BOOLEAN])
  BY FileType DEF TypeOK
<1>2. CASE delivered = <<>>
  BY <1>1, <1>2 DEF NextBegin, Begin
<1>3. CASE delivered # <<>>
  <2>1. Len(delivered) \in DOMAIN delivered /\ NextBegin = delivered[Len(delivered)].to
    BY <1>1, <1>3 DEF NextBegin, Begin
  <2>2. QED
    BY <1>3, <2>1 DEF SoundSoFar
<1>4. QED
  BY <1>2, <1>3

\* When something sound is ahead of a search, a record begins where it does.
LEMMA SearchFinds ==
  ASSUME TypeOK, PlaceInv, SoundInv, pc = "search", SoundAhead
  PROVE  pos \in 1..Len(file) /\ Starts(pos)
<1> HIDE DEF Sound, MemberAt
<1>1. Len(file) \in Nat /\ pos = NextBegin /\ pos \in 1..(Len(file) + 1) /\ Sound[pos] /\ ~torn
  BY FileType, NextBeginIn DEF SoundInv, SoundSoFar, PlaceInv
<1>2. PICK j \in (pos + 1)..(Len(file) + 1) : Sound[j]
  BY <1>1 DEF SoundAhead
<1>3. PICK e \in (pos + 1)..j : MemberAt(pos, e)
  BY <1>1, <1>2, RecordBetween
<1>4. e \in 1..(Len(file) + 1) /\ pos \in 1..(e - 1)
  BY <1>1, <1>2, <1>3
<1>5. PlainAt(pos, e) \/ ZippedAt(pos, e)
  BY <1>3, <1>4, MemberShape
<1>6. file[pos] \in Lines \cup {"gz"}
  BY <1>5 DEF PlainAt, ZippedAt, Lines
<1>7. QED
  BY <1>1, <1>4, <1>6 DEF Starts

\* When something sound is ahead of the record that is read, the record is sound and the
\* reader is where it says.
Reading == pc \in {"line", "content", "rest", "end", "deliver"}
LEMMA OnTheWay ==
  ASSUME TypeOK, PlaceInv, SoundInv, Reading,
         NEW j \in (from + 1)..(Len(file) + 1), Sound[j]
  PROVE  /\ from \in 1..(Len(file) + 1) /\ from = NextBegin
         /\ \E e \in (from + 1)..j :
              /\ Sound[from] /\ MemberAt(from, e) /\ Sound[e] /\ OnTrackTo(e)
              /\ PlainAt(from, e) \/ ZippedAt(from, e)
<1> HIDE DEF Sound, MemberAt
<1>1. Len(file) \in Nat /\ from = NextBegin /\ from \in 1..(Len(file) + 1)
  BY FileType, NextBeginIn DEF SoundInv, PlaceInv, Reading
<1>2. Sound[from]
  <2>1. SoundAhead
    BY <1>1 DEF SoundAhead
  <2>2. QED
    BY <1>1, <2>1 DEF SoundInv, SoundSoFar
<1>3. PICK e \in (from + 1)..j : MemberAt(from, e)
  BY <1>1, <1>2, RecordBetween
<1>4. e \in 1..(Len(file) + 1) /\ from \in 1..(e - 1) /\ e \in (from + 1)..(Len(file) + 1)
  BY <1>1, <1>3
<1>5. PlainAt(from, e) \/ ZippedAt(from, e)
  BY <1>3, <1>4, MemberShape
<1>6. Sound[e]
  BY <1>2, <1>3, <1>4, SoundAt
<1>7. OnTrackTo(e)
  BY <1>2, <1>3, <1>4 DEF SoundInv, OnTrack, Reading
<1>8. QED
  BY <1>1, <1>2, <1>3, <1>5, <1>6, <1>7

\* What a step that delivers nothing has to keep.
LEMMA SoundKept ==
  ASSUME TypeOK, PlaceInv, SoundInv, file' = file, UNCHANGED delivered, Moving',
         pc' # "search",
         pc' \in {"done", "failed"} => ~SoundAhead,
         Reading' => \A e \in (from' + 1)..(Len(file) + 1) :
                       Sound[from'] /\ MemberAt(from', e) => OnTrackTo(e)'
  PROVE  SoundInv'
<1> HIDE DEF Sound, MemberAt
<1>1. Sound' = Sound /\ \A s, e : MemberAt(s, e)' = MemberAt(s, e)
  BY SoundFrame
<1>2. NextBegin' = NextBegin
  BY DEF NextBegin, Begin
<1>3. SoundAhead' <=> SoundAhead
  BY <1>1, <1>2 DEF SoundAhead
<1>4. SoundSoFar'
  BY <1>1, <1>2, <1>3 DEF SoundInv, SoundSoFar
<1>5. Reading' => OnTrack'
  BY <1>1 DEF OnTrack
<1>6. QED
  BY <1>3, <1>4, <1>5 DEF SoundInv, Reading

\* Each action in turn, as far as the sound part of the file goes.
LEMMA SearchSound ==
  ASSUME TypeOK, PlaceInv, SoundInv, file' = file, Search
  PROVE  SoundInv'
<1> HIDE DEF Sound, MemberAt
<1>1. PICK start \in pos..Len(file) :
        /\ Starts(start) /\ \A i \in pos..(start - 1) : ~Starts(i)
        /\ pc' = IF Misplaced(start) THEN "failed" ELSE "line"
        /\ member' = (file[start] = "gz") /\ from' = start
        /\ pos' = IF member' THEN start + 1 ELSE start
  BY DEF Search
<1>2. Len(file) \in Nat /\ pos \in Nat /\ start \in Nat
  BY FileType DEF TypeOK
<1>3. pc' = "failed" => ~SoundAhead
  <2>1. SUFFICES ASSUME start # pos, SoundAhead PROVE FALSE
    BY <1>1 DEF Misplaced
  <2>2. Starts(pos)
    BY <2>1, SearchFinds DEF Search
  <2>3. QED
    BY <1>1, <1>2, <2>1, <2>2
<1>4. \A e : pc' = "line" => OnTrackTo(e)'
  BY <1>1, <1>2 DEF OnTrackTo, PartLength
<1>5. Moving'
  BY <1>1, <1>2 DEF Search, SoundInv, Moving
<1>6. QED
  BY <1>1, <1>3, <1>4, <1>5, SoundKept DEF Search, Reading

LEMMA NoMoreSound ==
  ASSUME TypeOK, PlaceInv, SoundInv, file' = file, NoMore
  PROVE  SoundInv'
<1> HIDE DEF Sound, MemberAt
<1>1. ~SoundAhead
  <2>1. SoundAhead => FALSE
    BY SearchFinds DEF NoMore, TypeOK
  <2>2. QED
    BY <2>1
<1>2. Moving'
  BY DEF NoMore, SoundInv, Moving
<1>3. QED
  BY <1>1, <1>2, SoundKept DEF NoMore, Reading

\* A step through a record goes wrong only where the record is not sound.
LEMMA NotAhead ==
  ASSUME TypeOK, PlaceInv, SoundInv, Reading,
         \A e \in (from + 1)..(Len(file) + 1) :
           from = NextBegin /\ from \in 1..(Len(file) + 1) /\ OnTrackTo(e)
             /\ (PlainAt(from, e) \/ ZippedAt(from, e)) => FALSE
  PROVE  ~SoundAhead
<1> HIDE DEF Sound, MemberAt
<1>1. SUFFICES ASSUME SoundAhead PROVE FALSE
  OBVIOUS
<1>2. Len(file) \in Nat /\ from = NextBegin /\ from \in 1..(Len(file) + 1)
  BY FileType, NextBeginIn DEF SoundInv, PlaceInv, Reading
<1>3. PICK j \in (from + 1)..(Len(file) + 1) : Sound[j]
  BY <1>1, <1>2 DEF SoundAhead
<1>4. PICK e \in (from + 1)..j : OnTrackTo(e) /\ (PlainAt(from, e) \/ ZippedAt(from, e))
  BY <1>3, OnTheWay
<1>5. e \in (from + 1)..(Len(file) + 1)
  BY <1>2, <1>3, <1>4
<1>6. QED
  BY <1>2, <1>4, <1>5

\* What holds of the record that is read, if it is sound.
LEMMA ThisRecord ==
  ASSUME TypeOK, PlaceInv, SoundInv, Reading,
         NEW e \in (from + 1)..(Len(file) + 1), Sound[from], MemberAt(from, e)
  PROVE  OnTrackTo(e) /\ (PlainAt(from, e) \/ ZippedAt(from, e))
<1> HIDE DEF Sound, MemberAt
<1>1. Len(file) \in Nat /\ from \in 1..(Len(file) + 1)
  BY FileType, NextBeginIn DEF SoundInv, PlaceInv, Reading
<1>2. e \in 1..(Len(file) + 1) /\ from \in 1..(e - 1)
  BY <1>1
<1>3. PlainAt(from, e) \/ ZippedAt(from, e)
  BY <1>2, MemberShape
<1>4. OnTrackTo(e)
  BY <1>2 DEF SoundInv, OnTrack, Reading
<1>5. QED
  BY <1>3, <1>4

\* The units of a sound record from its line on.
LEMMA UnitsOf ==
  ASSUME TypeOK, NEW e \in (from + 1)..(Len(file) + 1), from # 0,
         PlainAt(from, e) \/ ZippedAt(from, e), member = (file[from] = "gz"),
         NEW l, l = from + PartLength
  PROVE  /\ l \in 1..Len(file) /\ l + 1 \in 1..Len(file) /\ l + 2 \in 1..Len(file)
         /\ file[l] \in {"file", "url"} /\ (from = 1 => file[l] = "file")
         /\ file[l + 1] = "text" /\ file[l + 2] = "lf"
         /\ member => file[l + 3] = "sum" /\ e = l + 4 /\ l + 3 \in 1..Len(file)
         /\ ~member => e = l + 3
<1>1. Len(file) \in Nat /\ from \in Nat
  BY FileType DEF TypeOK
<1>2. CASE PlainAt(from, e)
  <2>1. ~member /\ l = from /\ e = from + 3
    <3>1. file[from] # "gz" /\ e = from + 3
      BY <1>2 DEF PlainAt
    <3>2. ~member
      BY <3>1
    <3>3. QED
      BY <1>1, <3>1, <3>2 DEF PartLength
  <2>2. l \in 1..Len(file) /\ l + 1 \in 1..Len(file) /\ l + 2 \in 1..Len(file)
    BY <1>1, <2>1
  <2>3. QED
    BY <1>2, <2>1, <2>2 DEF PlainAt
<1>3. CASE ZippedAt(from, e)
  <2>1. member /\ l = from + 1 /\ e = from + 5
    BY <1>1, <1>3 DEF ZippedAt, PartLength
  <2>2. l + 1 = from + 2 /\ l + 2 = from + 3 /\ l + 3 = from + 4
    BY <1>1, <2>1
  <2>3. /\ l \in 1..Len(file) /\ l + 1 \in 1..Len(file) /\ l + 2 \in 1..Len(file)
        /\ l + 3 \in 1..Len(file) /\ e = l + 4
    BY <1>1, <2>1
  <2>4. QED
    BY <1>3, <2>1, <2>2, <2>3 DEF ZippedAt
<1>4. QED
  BY <1>2, <1>3

LEMMA LineSound ==
  ASSUME TypeOK, PlaceInv, SoundInv, file' = file, ReadLine
  PROVE  SoundInv'
<1> HIDE DEF Sound, MemberAt
<1> DEFINE good == \/ Unit = "url" /\ version = 1
                   \/ Unit \in {"file", "file0"} /\ pos < Len(file) /\ file[pos + 1] = "text"
<1>1. Len(file) \in Nat /\ pos \in Nat /\ from \in Nat
  BY FileType DEF TypeOK
<1>2. Reading /\ from # 0
  BY NextBeginIn DEF ReadLine, Reading, PlaceInv, SoundInv
<1>3. ASSUME NEW e \in (from + 1)..(Len(file) + 1), OnTrackTo(e),
             PlainAt(from, e) \/ ZippedAt(from, e), from = NextBegin
      PROVE  /\ good /\ Unit # "file0" /\ member = (file[from] = "gz")
             /\ pos = from + PartLength
  <2>1. member = (file[from] = "gz") /\ pos = from + PartLength
    BY <1>3 DEF OnTrackTo, ReadLine
  <2>2. /\ pos \in 1..Len(file) /\ pos + 1 \in 1..Len(file) /\ file[pos + 1] = "text"
        /\ file[pos] \in {"file", "url"} /\ (from = 1 => file[pos] = "file")
    BY <1>2, <1>3, <2>1, UnitsOf
  <2>3. Unit = file[pos] /\ pos < Len(file)
    BY <1>1, <2>2 DEF Unit
  <2>4. from # 1 => version = 1
    BY <1>3, NextBeginIn DEF SoundInv, Moving
  <2>5. version = 1 \/ file[pos] = "file"
    BY <2>2, <2>4
  <2>6. QED
    BY <2>1, <2>2, <2>3, <2>5
<1>4. CASE good
  <2>1. /\ pc' = (IF Unit = "file0" THEN "rest" ELSE "content") /\ version' = 1
        /\ pos' = (IF AtEnd THEN pos ELSE pos + 1)
        /\ from' = from /\ member' = member
    BY <1>4 DEF ReadLine
  <2>2. ~AtEnd
    BY <1>4 DEF AtEnd
  <2>3. pos' = pos + 1
    BY <2>1, <2>2
  <2>4. from <= pos
    BY DEF ReadLine, SoundInv, Moving
  <2>5. Moving'
    BY <2>1, <2>3, <2>4, <1>1 DEF Moving
  <2>6. ASSUME Reading', NEW e \in (from' + 1)..(Len(file) + 1), Sound[from'], MemberAt(from', e)
        PROVE  OnTrackTo(e)'
    <3>1. OnTrackTo(e) /\ (PlainAt(from, e) \/ ZippedAt(from, e)) /\ from = NextBegin
      BY <1>2, <2>1, <2>6, ThisRecord DEF PlaceInv, Reading
    <3>2. Unit # "file0" /\ member = (file[from] = "gz") /\ pos = from + PartLength
      BY <1>3, <2>1, <2>6, <3>1
    <3>3. PartLength' = PartLength
      BY <2>1 DEF PartLength
    <3>4. QED
      BY <1>1, <2>1, <2>3, <3>2, <3>3 DEF OnTrackTo
  <2>7. QED
    BY <2>1, <2>5, <2>6, SoundKept DEF ReadLine
<1>5. CASE ~good
  <2>1. pc' = "failed" /\ UNCHANGED <<delivered, version>>
    BY <1>5 DEF ReadLine
  <2>2. ~SoundAhead
    BY <1>2, <1>3, <1>5, NotAhead
  <2>3. Moving'
    BY <2>1 DEF SoundInv, Moving
  <2>4. QED
    BY <2>1, <2>2, <2>3, SoundKept DEF Reading
<1>6. QED
  BY <1>4, <1>5

LEMMA ContentSound ==
  ASSUME TypeOK, PlaceInv, SoundInv, file' = file, ReadContent \/ ContentEnds \/ ContentCut
  PROVE  SoundInv'
<1> HIDE DEF Sound, MemberAt
<1> USE DEF place
<1>1. Len(file) \in Nat /\ pos \in Nat /\ from \in Nat
  BY FileType DEF TypeOK
<1>2. pc = "content" /\ from < pos /\ version = 1 /\ Reading /\ from # 0
  BY NextBeginIn DEF ReadContent, ContentEnds, ContentCut, Reading, PlaceInv, SoundInv, Moving
<1>3. ASSUME NEW e \in (from + 1)..(Len(file) + 1), OnTrackTo(e),
             PlainAt(from, e) \/ ZippedAt(from, e)
      PROVE  /\ Unit = "text" /\ ~AtEnd /\ member = (file[from] = "gz")
             /\ pos = from + PartLength + 1
  <2>1. member = (file[from] = "gz") /\ pos = from + PartLength + 1
    BY <1>2, <1>3 DEF OnTrackTo
  <2> DEFINE l == from + PartLength
  <2>2. l + 1 \in 1..Len(file) /\ file[l + 1] = "text"
    BY <1>2, <1>3, <2>1, UnitsOf
  <2>3. Unit = "text"
    BY <1>1, <2>1, <2>2 DEF Unit
  <2>4. QED
    BY <2>1, <2>3 DEF AtEnd
<1>4. ASSUME UNCHANGED from, NEW e \in (from' + 1)..(Len(file) + 1),
             Sound[from'], MemberAt(from', e)
      PROVE  /\ Unit = "text" /\ ~AtEnd /\ member = (file[from] = "gz")
             /\ pos = from + PartLength + 1
  BY <1>2, <1>3, <1>4, ThisRecord
<1>5. AtEnd => ~SoundAhead
  BY <1>2, <1>3, NotAhead
<1>6. CASE ReadContent
  <2>1. /\ pc' = "end" /\ pos' = pos + 1 /\ whole' = (Unit = "text")
        /\ UNCHANGED <<member, from, version, delivered>>
    BY <1>6 DEF ReadContent
  <2>2. Moving'
    BY <1>1, <1>2, <2>1 DEF Moving
  <2>3. ASSUME NEW e \in (from' + 1)..(Len(file) + 1), Sound[from'], MemberAt(from', e)
        PROVE  OnTrackTo(e)'
    <3>1. PartLength' = PartLength
      BY <2>1 DEF PartLength
    <3>2. whole'
      <4>1. Unit = "text"
        BY <1>4, <2>1, <2>3
      <4>2. QED
        BY <2>1, <4>1
    <3>3. pos' = from' + PartLength' + 2
      <4>1. pos = from + PartLength + 1
        BY <1>4, <2>1, <2>3
      <4>2. QED
        BY <1>1, <2>1, <3>1, <4>1 DEF PartLength
    <3>4. member' = (file'[from'] = "gz")
      BY <1>4, <2>1, <2>3
    <3>5. QED
      BY <2>1, <3>2, <3>3, <3>4 DEF OnTrackTo
  <2>4. QED
    BY <2>1, <2>2, <2>3, SoundKept
<1>7. CASE ContentEnds \/ ContentCut
  <2>1. /\ AtEnd /\ pc' \in {"end", "failed", "done"}
        /\ UNCHANGED <<pos, member, from, version, delivered>>
    BY <1>7 DEF ContentEnds, ContentCut, CutOff, Truncated, AtEnd
  <2>2. Moving'
    BY <1>2, <2>1 DEF Moving
  <2>3. QED
    BY <1>4, <1>5, <2>1, <2>2, SoundKept
<1>8. QED
  BY <1>6, <1>7

LEMMA RestSound ==
  ASSUME TypeOK, PlaceInv, SoundInv, file' = file, ReadRest
  PROVE  SoundInv'
<1> HIDE DEF Sound, MemberAt
<1>1. Len(file) \in Nat /\ pos \in 1..(Len(file) + 1) /\ from \in Nat
  BY FileType DEF TypeOK
<1>2. pc = "rest" /\ from < pos /\ version = 1 /\ Reading
  BY DEF ReadRest, Reading, SoundInv, Moving
<1>3. \A e : ~OnTrackTo(e)
  BY <1>2 DEF OnTrackTo
<1>4. ~SoundAhead
  BY <1>2, <1>3, NotAhead
<1>5. /\ pos' \in pos..(Len(file) + 1) /\ pc' \in {"done", "end", "failed"}
      /\ UNCHANGED <<from, version, delivered>>
  BY <1>1, EndOfMemberExists DEF ReadRest
<1>6. Moving'
  BY <1>1, <1>2, <1>5 DEF Moving
<1>7. \A e \in (from + 1)..(Len(file) + 1) : ~(Sound[from] /\ MemberAt(from, e))
  BY <1>2, <1>3, ThisRecord
<1>8. QED
  BY <1>4, <1>5, <1>6, <1>7, SoundKept

LEMMA EndSound ==
  ASSUME TypeOK, PlaceInv, SoundInv, file' = file, EndRecord
  PROVE  SoundInv'
<1> HIDE DEF Sound, MemberAt
<1>1. Len(file) \in Nat /\ pos \in 1..(Len(file) + 1) /\ from \in Nat
  BY FileType DEF TypeOK
<1>2. pc = "end" /\ from < pos /\ version = 1 /\ Reading /\ from # 0
  BY NextBeginIn DEF EndRecord, Reading, SoundInv, Moving, PlaceInv
<1>3. pc' = "deliver" /\ UNCHANGED <<member, from, version, whole, delivered>>
  BY DEF EndRecord
<1>4. Moving'
  <2>1. EndOfMember \in pos..(Len(file) + 1)
    BY EndOfMemberExists
  <2>2. pos' \in Nat /\ pos <= pos'
    BY <1>1, <2>1 DEF EndRecord
  <2>3. QED
    BY <1>1, <1>2, <1>3, <2>2 DEF Moving
<1>5. ASSUME NEW e \in (from' + 1)..(Len(file) + 1), Sound[from'], MemberAt(from', e)
      PROVE  OnTrackTo(e)'
  <2>1. /\ OnTrackTo(e) /\ (PlainAt(from, e) \/ ZippedAt(from, e))
        /\ e \in (from + 1)..(Len(file) + 1)
    BY <1>2, <1>3, <1>5, ThisRecord
  <2> DEFINE l == from + PartLength
  <2>2. member = (file[from] = "gz") /\ pos = l + 2 /\ whole
    BY <1>2, <2>1 DEF OnTrackTo
  <2>3. /\ l + 2 \in 1..Len(file) /\ file[l + 2] = "lf"
        /\ member => file[l + 3] = "sum" /\ e = l + 4 /\ l + 3 \in 1..Len(file)
        /\ ~member => e = l + 3
    BY <1>2, <2>1, <2>2, UnitsOf
  <2>4. l \in Nat
    BY <1>1 DEF PartLength
  <2> HIDE DEF l
  <2>5. pos' = e /\ torn' = FALSE
    <3>1. CASE member
      <4>1. EndOfMember \in pos..(Len(file) + 1)
        BY EndOfMemberExists
      <4>2. ~(EndOfMember < l + 3)
        <5>1. SUFFICES ASSUME EndOfMember < l + 3 PROVE FALSE
          OBVIOUS
        <5>2. EndOfMember = l + 2
          BY <1>1, <2>2, <2>4, <4>1, <5>1
        <5>3. QED
          BY <1>1, <2>3, <5>2, EndOfMemberExists
      <4>3. ~(EndOfMember > l + 3)
        <5>1. SUFFICES ASSUME EndOfMember > l + 3 PROVE FALSE
          OBVIOUS
        <5>2. l + 3 \in pos..(EndOfMember - 1)
          BY <1>1, <2>2, <2>4, <4>1, <5>1
        <5>3. QED
          BY <2>3, <3>1, <5>2, EndOfMemberExists
      <4>4. EndOfMember = l + 3
        BY <1>1, <2>4, <4>1, <4>2, <4>3
      <4>5. QED
        BY <1>1, <2>3, <2>4, <3>1, <4>4 DEF EndRecord
    <3>2. CASE ~member
      <4>1. Unit = "lf"
        BY <1>1, <2>2, <2>3 DEF Unit
      <4>2. pos' = pos + 1 /\ torn' = (Unit \notin {"lf", "none"})
        BY <3>2, <4>1 DEF EndRecord
      <4>3. torn' = FALSE
        BY <4>1, <4>2
      <4>4. QED
        BY <2>2, <2>3, <2>4, <3>2, <4>2, <4>3
    <3>3. QED
      BY <3>1, <3>2
  <2>6. whole'
    BY <1>3, <2>2
  <2>7. QED
    BY <1>3, <2>5, <2>6 DEF OnTrackTo
<1>6. QED
  BY <1>3, <1>4, <1>5, SoundKept

LEMMA DeliverSound ==
  ASSUME TypeOK, PlaceInv, SoundInv, file' = file, Deliver
  PROVE  SoundInv'
<1> HIDE DEF Sound, MemberAt
<1> DEFINE new == [from |-> from, to |-> pos, whole |-> whole]
<1> DEFINE Record == [from : Nat, to : Nat, whole : BOOLEAN]
<1>1. Len(file) \in Nat /\ pos \in 1..(Len(file) + 1) /\ from \in Nat
  BY FileType DEF TypeOK
<1>2. pc = "deliver" /\ from < pos /\ version = 1 /\ Reading /\ from = NextBegin
  BY NextBeginIn DEF Deliver, Reading, SoundInv, Moving, PlaceInv
<1>3. pc' = "search" /\ delivered' = Append(delivered, new)
      /\ UNCHANGED <<pos, torn, from, version, whole>>
  BY DEF Deliver, place
<1>4. delivered \in Seq(Record) /\ Len(delivered) \in Nat
  BY DEF TypeOK
<1>5. /\ DOMAIN delivered' = 1..(Len(delivered) + 1) /\ DOMAIN delivered = 1..Len(delivered)
      /\ Len(delivered') = Len(delivered) + 1
      /\ delivered'[Len(delivered) + 1].to = pos
      /\ delivered'[Len(delivered) + 1].whole = whole
      /\ \A i \in DOMAIN delivered : delivered'[i] = delivered[i]
  BY <1>3, <1>4
<1>6. NextBegin' = pos
  BY <1>4, <1>5 DEF NextBegin, Begin
<1>7. Sound' = Sound
  BY SoundFrame
\* The record that is delivered is the only sound thing between where it begins and here.
<1>8. ASSUME NEW j \in (from + 1)..(Len(file) + 1), Sound[j]
      PROVE  Sound[pos] /\ pos <= j /\ whole /\ ~torn
  <2>1. PICK e \in (from + 1)..j : Sound[e] /\ OnTrackTo(e)
    BY <1>2, <1>8, OnTheWay
  <2>2. pos = e /\ ~torn /\ whole
    BY <1>2, <2>1 DEF OnTrackTo
  <2>3. QED
    BY <1>1, <2>1, <2>2
<1>9. Sound[pos] => whole /\ ~torn
  BY <1>1, <1>2, <1>8
<1>10. SoundSoFar'
  <2>1. ASSUME NEW i \in DOMAIN delivered'
        PROVE  /\ delivered'[i].to \in 1..(Len(file) + 1)
               /\ Sound[delivered'[i].to] => delivered'[i].whole
    <3>1. CASE i = Len(delivered) + 1
      BY <1>1, <1>5, <1>9, <3>1
    <3>2. CASE i \in DOMAIN delivered
      BY <1>5, <3>2 DEF SoundInv, SoundSoFar
    <3>3. QED
      BY <1>4, <1>5, <2>1, <3>1, <3>2
  <2>2. ASSUME NEW i \in 2..pos, Sound[i]
        PROVE  \E k \in DOMAIN delivered' : delivered'[k].to = i
    <3>1. CASE i <= from
      <4>1. PICK k \in DOMAIN delivered : delivered[k].to = i
        BY <1>1, <1>2, <2>2, <3>1 DEF SoundInv, SoundSoFar
      <4>2. QED
        BY <1>4, <1>5, <4>1
    <3>2. CASE i > from
      <4>1. i \in (from + 1)..(Len(file) + 1)
        BY <1>1, <2>2, <3>2
      <4>2. i = pos
        BY <1>1, <1>8, <2>2, <4>1
      <4>3. QED
        BY <1>4, <1>5, <4>2
    <3>3. QED
      BY <1>1, <2>2, <3>1, <3>2
  <2>3. ASSUME NEW i \in (pos + 1)..(Len(file) + 1), Sound[i]
        PROVE  Sound[pos]
    BY <1>1, <1>2, <1>8, <2>3
  <2>4. SoundAhead' => Sound[pos]
    BY <1>6, <1>7, <2>3 DEF SoundAhead
  <2>5. QED
    BY <1>6, <1>7, <2>1, <2>2, <2>4 DEF SoundSoFar
<1>11. Moving'
  BY <1>2, <1>3 DEF Moving
<1>12. QED
  BY <1>3, <1>7, <1>9, <1>10, <1>11 DEF SoundInv

LEMMA FileStays == [Next]_vars => file' = file
BY DEF vars, file, Next, Search, NoMore, ReadLine, ReadContent, ContentEnds, ContentCut,
   ReadRest, EndRecord, Deliver

LEMMA SoundInvStep ==
  ASSUME IInv, SoundInv, [Next]_vars
  PROVE  SoundInv'
<1> HIDE DEF Sound, MemberAt
<1>1. TypeOK /\ PlaceInv /\ file' = file
  BY FileStays DEF IInv
<1>2. CASE Next
  BY <1>1, <1>2, SearchSound, NoMoreSound, LineSound, ContentSound, RestSound, EndSound,
     DeliverSound DEF Next
<1>3. CASE UNCHANGED vars
  <2>1. UNCHANGED <<pc, pos, torn, member, from, version, whole, delivered>>
    BY <1>3 DEF vars, place
  <2>2. Sound' = Sound /\ \A s, e : MemberAt(s, e)' = MemberAt(s, e)
    BY <1>1, SoundFrame
  <2>3. NextBegin' = NextBegin
    BY <2>1 DEF NextBegin, Begin
  <2>4. SoundAhead' = SoundAhead
    BY <1>1, <2>2, <2>3 DEF SoundAhead
  <2>5. Moving' /\ SoundSoFar'
    BY <1>1, <2>1, <2>2, <2>3, <2>4 DEF SoundInv, Moving, SoundSoFar
  <2>6. OnTrack' = OnTrack
    <3>1. PartLength' = PartLength
      BY <2>1 DEF PartLength
    <3>2. \A e : OnTrackTo(e)' = OnTrackTo(e)
      BY <1>1, <2>1, <3>1 DEF OnTrackTo
    <3>3. QED
      BY <1>1, <2>1, <2>2, <3>2 DEF OnTrack
  <2>7. QED
    BY <2>1, <2>2, <2>4, <2>5, <2>6 DEF SoundInv
<1>4. QED
  BY <1>2, <1>3

LEMMA SoundInit ==
  ASSUME Init, TypeOK PROVE SoundInv
<1> HIDE DEF Sound, MemberAt
<1>1. Len(file) \in Nat /\ delivered = <<>> /\ pos = 1 /\ pc = "search" /\ ~torn
  BY FileType DEF Init
<1>2. NextBegin = 1
  BY <1>1 DEF NextBegin, Begin
<1>3. Sound[1]
  BY <1>1, SoundAt
<1>4. SoundSoFar
  BY <1>1, <1>2, <1>3 DEF SoundSoFar
<1>5. QED
  BY <1>1, <1>4 DEF SoundInv, Moving

\* Of the part of a file before any damage the reader delivers every record, whole, and
\* before it stops; of the part after it nothing it had to look for.
THEOREM SoundDelivered == Spec => []ReadInPlace
<1> HIDE DEF Sound, MemberAt
<1>1. Init /\ IInv => SoundInv
  BY SoundInit DEF IInv
<1>2. IInv /\ SoundInv /\ [Next]_vars => SoundInv'
  BY SoundInvStep
<1>3. IInv /\ SoundInv => ReadInPlace
  <2>1. SUFFICES ASSUME IInv, SoundInv PROVE ReadInPlace
    OBVIOUS
  <2>2. Len(file) \in Nat /\ NextBegin \in 1..(Len(file) + 1)
    BY <2>1, FileType, NextBeginIn DEF IInv, SoundInv
  <2>3. ASSUME pc \in {"done", "failed"}, NEW i \in 2..(Len(file) + 1), Sound[i]
        PROVE  \E k \in DOMAIN delivered : delivered[k].to = i
    <3>1. ~(i \in (NextBegin + 1)..(Len(file) + 1))
      BY <2>1, <2>3 DEF SoundInv, SoundAhead
    <3>2. i \in 2..NextBegin
      BY <2>2, <3>1
    <3>3. QED
      BY <2>1, <2>3, <3>2 DEF SoundInv, SoundSoFar
  <2>4. QED
    BY <2>1, <2>3 DEF IInv, ReadInPlace, SoundInv, SoundSoFar
<1>4. QED
  BY <1>1, <1>2, <1>3, ArcInvariance, PTL DEF Spec
=============================================================================
