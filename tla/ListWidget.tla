----------------------------- MODULE ListWidget -----------------------------
(***************************************************************************)
(* The list of the console, as what each of its operations makes of it     *)
(* while it holds the lock, and what it reports to onSelectionChanged once *)
(* it has let go of it: nothing, an item, or that there is none.           *)
(*                                                                         *)
(* The scroll offset is left out, and so is dirty, which nothing reads.    *)
(***************************************************************************)
EXTENDS Naturals, Sequences, SequencesExt

CONSTANT None  \* no item

\* An entry is an item with the texts a filter finds it by and its record type.
EntryOf(item, search, type) == [item |-> item, search |-> search, type |-> type]

\* filter is the set of texts that contain what was searched for, types the set of record
\* types to show.  selected counts from 1, and is 0 where the code has -1.
NewList(texts, types) ==
  [items |-> <<>>, visible |-> <<>>, selected |-> 0, filter |-> texts, types |-> types]

Matches(l, entry) == entry.search \in l.filter /\ entry.type \in l.types

\* The item a list has selected, by its place among all items, 0 for none.
Place(l) == IF l.selected \in DOMAIN l.visible THEN l.visible[l.selected] ELSE 0

SelectedItem(l) == IF Place(l) = 0 THEN None ELSE l.items[Place(l)].item

\* The places after n of the items to show, in order.
Places(l, n) ==
  LET shown[k \in n..Len(l.items)] ==
        IF k = n THEN <<>>
        ELSE IF Matches(l, l.items[k]) THEN Append(shown[k - 1], k) ELSE shown[k - 1]
  IN shown[Len(l.items)]

\* The row nearest to k of n rows, 0 when there are none.
Nearest(k, n) == IF n = 0 THEN 0 ELSE IF k < 1 THEN 1 ELSE IF k > n THEN n ELSE k

RebuildVisible(l) ==
  LET visible == Places(l, 0)
  IN [l EXCEPT !.visible = visible, !.selected = Nearest(@, Len(visible))]

\* A list after SetFilter or SetPredicate: the selection keeps its row, not its item, and
\* is reported when the row has another item now.
Rebuilt(l, filter, types) == RebuildVisible([l EXCEPT !.filter = filter, !.types = types])
RebuildReport_ByRow(old, new) ==
  IF new.selected = old.selected THEN <<>> ELSE <<SelectedItem(new)>>
RebuildReport(old, new) ==
  IF Place(new) = Place(old) THEN <<>> ELSE <<SelectedItem(new)>>

WithItems(l, entries) ==
  LET r == RebuildVisible([l EXCEPT !.items = entries])
  IN [r EXCEPT !.selected = IF r.visible = <<>> THEN @ ELSE 1]

Emptied(l) == [l EXCEPT !.items = <<>>, !.visible = <<>>, !.selected = 0]

\* The first visible item of a list without a selection is selected, and only then is
\* the selection reported.
Added(l, entries) ==
  LET items == l.items \o entries
      visible == l.visible \o Places([l EXCEPT !.items = items], Len(l.items))
  IN [l EXCEPT !.items = items, !.visible = visible,
               !.selected = IF Place(l) = 0 /\ visible # <<>> THEN 1 ELSE @]
AddReport(old, new) ==
  IF Place(old) = 0 /\ new.visible # <<>> THEN <<SelectedItem(new)>> ELSE <<>>

\* Row k is selected, or the one nearest to it.
Moved(l, k) == [l EXCEPT !.selected = Nearest(k, Len(l.visible))]
MoveReport(old, new) ==
  IF new.selected = old.selected THEN <<>> ELSE <<SelectedItem(new)>>

\* What flush draws of a list: its visible items, with one of them marked.
Drawing(l) ==
  [rows |-> [r \in DOMAIN l.visible |-> l.items[l.visible[r]].item],
   mark |-> Nearest(l.selected, Len(l.visible))]

-----------------------------------------------------------------------------
(* What the lists of a program are *)

ListType(Items, Texts, Types) ==
  [items : Seq([item : Items, search : Texts, type : Types]), visible : Seq(Nat),
   selected : Nat, filter : SUBSET Texts, types : SUBSET Types]

\* p is the places after n and up to m of the items to show, in order.
ArePlaces(p, l, n, m) ==
  /\ p \in Seq((n + 1)..m)
  /\ \A r \in DOMAIN p : Matches(l, l.items[p[r]])
  /\ \A r, s \in DOMAIN p : r < s => p[r] < p[s]
  /\ \A k \in (n + 1)..m : Matches(l, l.items[k]) => \E r \in DOMAIN p : p[r] = k

ListInv(l) ==
  /\ ArePlaces(l.visible, l, 0, Len(l.items))
  /\ l.selected <= Len(l.visible)
=============================================================================
