-------------------------- MODULE MCBisectionGame --------------------------
(* The game on short traces: every length, divergence and truth up to the   *)
(* bound, with a crash of each service.                                     *)
EXTENDS BisectionGame

GameHashes == (0 .. MaxSteps) \X (Players \cup {NoOne})
GameStart == <<0, NoOne>>
GameEnd == <<MaxSteps, Defender>>
=============================================================================
