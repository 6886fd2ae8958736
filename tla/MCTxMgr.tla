------------------------------ MODULE MCTxMgr ------------------------------
(* Two publications that L1 accepts, one that it refuses, and a stranger's, *)
(* on a short chain.                                                        *)
EXTENDS TxMgr

CONSTANTS s1, s2, s3

Slots3 == {s1, s2, s3}
Refused == {s3}
=============================================================================
