-------------------------- MODULE MCBatchSubmitter --------------------------
(* A chain of three L2 blocks. *)
EXTENDS BatchSubmitter

One == {1}
Two == 1 .. 2
Totals == {"totals"}
\* The owner passes the fields of the last batch kept; no configuration uses it,
\* see the README.
LastBatch == {"lastBatch"}
=============================================================================
