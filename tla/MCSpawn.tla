------------------------------- MODULE MCSpawn -------------------------------
(* Three goods of one to four tons.  Thirteen tons a port are more than one  *)
(* good takes in the first loop, so every path of both loops is walked.      *)
EXTENDS SpawnMerci
=============================================================================
