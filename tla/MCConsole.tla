----------------------------- MODULE MCConsole -----------------------------
(* An instance of the console for TLC: a file with an invalid record and   *)
(* one with an error behind a record, loaded in batches of two.            *)
EXTENDS Console

CONSTANTS f1, f2

MCContents ==
  f1 :> << [text |-> "x", type |-> "plain"], [text |-> "y", type |-> "invalid"],
           [text |-> "x", type |-> "plain"] >> @@
  f2 :> << [text |-> "y", type |-> "bad"] >>
MCFilters == {{"y"}}
MCTypes   == {{"invalid", "bad"}}
MCFileFilters == {{}}
=============================================================================
