------------------------------- MODULE MCMaster -------------------------------
(* Two ships and two ports, three days, and up to two requests of each port  *)
(* left in the queue.                                                        *)
EXTENDS MasterProprieta
=============================================================================
