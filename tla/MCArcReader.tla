---------------------------- MODULE MCArcReader ----------------------------
(* Every file of up to MaxUnits units, and every file of up to MaxMembers  *)
(* records, plain or compressed, that is whole, cut off anywhere, or has   *)
(* one unit too few or one replaced.                                       *)
EXTENDS ArcReader, SequencesExt

CONSTANTS MaxUnits, MaxMembers

Headers == {Plain("file"), Zipped("file"), Plain("file0")}

Whole == {FlattenSeq(<<h>> \o ms) :
            h \in Headers, ms \in BoundedSeq({Plain("url"), Zipped("url")}, MaxMembers - 1)}

\* A place in a file no longer than n, and its last one for any other n.
At(f, n) == IF n > Len(f) THEN Len(f) ELSE n
Places == 1..(5 * MaxMembers)

\* The line of a record says that it has content.
HasContent(f) == \A i \in 2..Len(f) : f[i] = "lf" => f[i - 1] \notin Lines

Files == BoundedSeq(Units, MaxUnits)
           \cup {SubSeq(f, 1, At(f, n)) : f \in Whole, n \in Places}
           \cup {RemoveAt(f, At(f, n)) : f \in Whole, n \in Places}
           \cup {ReplaceAt(f, At(f, n), u) : f \in Whole, n \in Places, u \in Units}

MCInputs == {[units |-> f, short |-> s] : f \in {g \in Files : HasContent(g)}, s \in BOOLEAN}
=============================================================================
