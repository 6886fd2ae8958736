------------------------------- MODULE Loops -------------------------------
(***************************************************************************)
(* A loop over a sequence: what FoldLeft of SequencesExt computes.  It is  *)
(* defined from Folds here because a proof is several times slower in a    *)
(* module that reaches SequencesExt and, through it, Bags.                 *)
(***************************************************************************)
EXTENDS FiniteSetsExt

\* The places of seq are taken in their order, the last one last.
FoldLeft(op(_, _), base, seq) ==
    MapThenFoldSet(LAMBDA x, acc : op(acc, x), base, LAMBDA i : seq[i], Max, DOMAIN seq)
=============================================================================
