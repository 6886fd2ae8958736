------------------------------ MODULE MCRollup ------------------------------
(* Rollup with two or three stakers and operators and a few assertions.     *)
EXTENDS Rollup, TLC

CONSTANTS alice, bob, carol, sequencer, validator, watcher, h0, h1, h2

Stakers2 == {alice, bob}
Stakers3 == {alice, bob, carol}
Operators2 == {sequencer, validator}
Operators3 == {sequencer, validator, watcher}
Hashes2 == {h0, h1}
Hashes3 == {h0, h1, h2}
None == {}

\* Stakers are treated alike, and so are the hashes other than the genesis's.
Perms == Permutations(Stakers) \cup Permutations(VMHashes \ {h0})
=============================================================================
