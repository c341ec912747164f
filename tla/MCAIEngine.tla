----------------------------- MODULE MCAIEngine -----------------------------
(* The instance of AIEngine that TLC checks.                               *)
EXTENDS AIEngine, TLC

CONSTANTS c1, c2, c3, c4

\* c1 and c2 send the same window.
Symmetry == Permutations({c1, c2})

\* ratio: without a baseline, and under the trained one.
Group(metric, points, absent, trained) ==
  [metric |-> metric, points |-> points, sustained |-> TRUE,
   ratio |-> "absent" :> absent @@ "trained" :> trained]

Window(service, groups) ==
  [length |-> MinWindow, tenant |-> "tenant", continuous |-> TRUE,
   service |-> service, groups |-> groups]

\* A spike of a metric with too few points, then a metric that is calm without
\* a baseline and a rise to just below the gate under the trained one.
Rising == Window("ledger", <<Group("queue_depth", 2, 500, 500),
                             Group("cpu_usage_percent", 3, 60, 130)>>)

\* A metric that is calm, then a long drop the trained baseline explains.
Idle == Window("wallet", <<Group("memory_usage_percent", 3, 90, -90),
                           Group("queue_depth", 3, -150, -90)>>)

Gappy == [Rising EXCEPT !.continuous = FALSE]

MCWindowOf == c1 :> Rising @@ c2 :> Rising @@ c3 :> Idle @@ c4 :> Gappy

\* The worker always names its tenant; another caller may not.
MCTenantOf == c1 :> "tenant" @@ c2 :> "tenant" @@ c3 :> "tenant" @@ c4 :> "nobody"
=============================================================================
