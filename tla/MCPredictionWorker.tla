------------------------- MODULE MCPredictionWorker -------------------------
(* The instances of PredictionWorker and AuditViews that TLC checks. *)
EXTENDS AuditViews, TLC

CONSTANTS j1, j2, j3

\* The deployed scheduler sends every job for one tenant.
MCTenantOf == [j \in Jobs |-> "demo-tenant-001"]

\* So its partition is the only one.
MCPartitionOf == [t \in {"demo-tenant-001"} |-> 1]

\* A service of its own for every job but the last.
MCServiceOf == [j \in Jobs |-> IF j = j1 THEN "ledger" ELSE "payment-gw"]

\* Full windows, windows with holes, and windows past the threshold.
MCGaps == {0, 50}

\* One reply of each kind process_job tells apart.
MCReplies ==
  {[code |-> 200, wellFormed |-> TRUE, anomaly |-> FALSE, severity |-> 10,
    verb |-> "none", confidence |-> 0],
   [code |-> 0, wellFormed |-> FALSE, anomaly |-> FALSE, severity |-> 0,
    verb |-> "none", confidence |-> 0]}

\* One risky reply, for the runs that are about the queue.
MCRiskyReply ==
  {[code |-> 200, wellFormed |-> TRUE, anomaly |-> TRUE, severity |-> 90,
    verb |-> "SCALE_UP", confidence |-> 80]}

\* And a quiet one, to tell rows apart.
MCRiskyOrQuiet == MCRiskyReply \cup
  {[code |-> 200, wellFormed |-> TRUE, anomaly |-> FALSE, severity |-> 10,
    verb |-> "none", confidence |-> 0]}

MCNoGap == {0}

\* A threshold on the edge of the fallback's test, beside the default 85.
MCPolicies == {80}

Symmetry == Permutations(Workers)
=============================================================================
