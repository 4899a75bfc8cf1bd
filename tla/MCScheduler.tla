------------------------------ MODULE MCScheduler ------------------------------
(* The two sides of MultiDomainScheduler share no state: schedule, which       *)
(* handle_message calls (PortalKernel), and the queued lanes that run and      *)
(* cycle serve (LaneQueues).  A behaviour here is one of one of them, and what *)
(* holds of each holds of any interleaving of the two.                         *)
EXTENDS MCPortalKernel, LaneQueues

CONSTANTS m1, m2, m3

VARIABLE side

MCInit == Init /\ LanesInit /\ side \in {"kernel", "lanes"}

MCNext ==
  \/ side = "kernel" /\ Next /\ UNCHANGED <<laneVars, side>>
  \/ side = "lanes" /\ LanesNext /\ UNCHANGED <<vars, side>>

MCSpec == MCInit /\ [][MCNext]_<<vars, laneVars, side>> /\ Fairness /\ LanesFairness

\* Two lanes and three messages, one of them without a timestamp.
MCLaneOrder == <<"cognitive", "orchestration">>
================================================================================
