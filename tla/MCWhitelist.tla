---------------------------- MODULE MCWhitelist ----------------------------
(* A few addresses, added and removed in batches.                           *)
EXTENDS Whitelist

CONSTANTS a, b, c, d

Four == {a, b, c, d}
=============================================================================
