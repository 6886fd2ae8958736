----------------------------- MODULE MCChallenge -----------------------------
(* The contract on its own: any two players, two hashes, short clocks.     *)
EXTENDS Challenge

CONSTANTS s, e

Hashes2 == {s, e}
=============================================================================
