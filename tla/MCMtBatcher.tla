---------------------------- MODULE MCMtBatcher ----------------------------
(* Two L2 blocks, which a range may hold and a batch may not; three entries *)
(* to roll up again; one trouble of every kind.                             *)
EXTENDS MtBatcher
=============================================================================
