-------------------------- MODULE MCTelemetryWindow --------------------------
(* The instances of TelemetryWindow that TLC checks.                       *)
EXTENDS TelemetryWindow, TLC

\* A signal that is filled forward and the one that is filled with zeros.
MCOrder == <<"db_connection_pool_pct", "queue_depth">>

\* A service with two databases and one queue.
MCLabels ==
  "db_connection_pool_pct" :> <<"postgres", "redis">> @@ "queue_depth" :> <<"orders">>

\* Different values, to tell the databases apart.
MCValues ==
  <<"db_connection_pool_pct", "postgres">> :> {1} @@
  <<"db_connection_pool_pct", "redis">> :> {2} @@
  <<"queue_depth", "orders">> :> {1}

MCOneSignal == <<"queue_depth">>
=============================================================================
