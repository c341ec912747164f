---------------------------- MODULE MCCostBreaker ----------------------------
(* The instance of CostBreaker that TLC checks: the cluster's services.    *)
EXTENDS CostBreaker, TLC

CONSTANTS api, ai, worker

MCStopOrder == <<ai, worker>>

\* min_capacity and max_capacity, those of the worker cut from 1..5 to 1..2
\* and those of the AI engine from 2..4 to 2..3.
MCMinTasks == api :> 1 @@ ai :> 2 @@ worker :> 1

MCMaxTasks == api :> 1 @@ ai :> 3 @@ worker :> 2
=============================================================================
