---------------------------- MODULE MCTerminazione ----------------------------
(* Three ports, the least with which one can overtake behind the loop, and   *)
(* counters up to two: a tie, a lead, and a lead taken over.  The good has   *)
(* more lots in one port than one update moves, so the bounds on what is     *)
(* printed twice, or missing, are less than what there is.                   *)
EXTENDS StampaTerminazione, TLC

MCOfferti == 0 :> 0 @@ 1 :> 1 @@ 2 :> 2
=============================================================================
