---------------------- MODULE MCStateCommitmentChain ----------------------
(* StateCommitmentChain with two callers, two roots and four transactions. *)
EXTENDS StateCommitmentChain

CONSTANTS rollup, stranger, r1, r2

MCSenders == {rollup, stranger}
MCRoots == {r1, r2}
MCWindows == {1, 2}
=============================================================================
