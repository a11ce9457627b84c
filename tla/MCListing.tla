----------------------------- MODULE MCListing -----------------------------
(***************************************************************************)
(* Three files: records of every kind before and behind an error; a file   *)
(* that ends with one; one with a record that cannot be formatted.         *)
(***************************************************************************)
EXTENDS Listing, TLC

CONSTANTS w1, w2

MCContents == << <<"good", "bad", "other", "good">>, <<"good", "bad">>, <<"odd", "other", "good">> >>

Base == [pool |-> {w1, w2}, ftp |-> FALSE, keepGoing |-> TRUE, force |-> TRUE,
         filter |-> FALSE, nth |-> 0, limit |-> 0, oneWrite |-> FALSE]

MCOptions == {
  Base,
  [Base EXCEPT !.oneWrite = TRUE, !.force = FALSE, !.keepGoing = FALSE],
  [Base EXCEPT !.pool = {w1}, !.filter = TRUE],
  [Base EXCEPT !.pool = {}, !.limit = 2],
  [Base EXCEPT !.pool = {}, !.nth = 2, !.filter = TRUE],
  [Base EXCEPT !.pool = {w1}, !.limit = 1, !.force = FALSE, !.keepGoing = FALSE],
  [Base EXCEPT !.ftp = TRUE, !.oneWrite = TRUE]}

Symmetry == Permutations(Workers)
=============================================================================
