----------------------------- MODULE AuditViews -----------------------------
(***************************************************************************)
(* What the overview of the SRE dashboard (get_overview) shows of the      *)
(* audit table while the workers write it.  It reads one page of a scan    *)
(* and never asks for the next.                                            *)
(***************************************************************************)
EXTENDS PredictionWorker, FiniteSetsExt

CONSTANTS
  ServiceOf,      \* service_name of each job
  PartitionOf,    \* external: where a scan meets the partition of each tenant
  OverviewLimit   \* rows one scan of the overview reads (500)

ASSUME ViewsAssumption == OverviewLimit \in Nat

Tenants == {TenantOf[j] : j \in Jobs}

OfTenant(rows, t) == {r \in rows : TenantOf[r.job] = t}

OfService(rows, k) == {r \in rows : ServiceOf[r.job] = k}

\* A scan goes through one partition after another, and through the rows of
\* a partition in the order of their keys, oldest first.
MetBefore(q, r) ==
  LET p == PartitionOf[TenantOf[q.job]]
      s == PartitionOf[TenantOf[r.job]]
  IN p < s \/ (p = s /\ q.time < r.time)

\* The limit counts the rows of every tenant: the filter comes after it.
Scanned(t, rows) ==
  OfTenant({r \in rows : Cardinality({q \in rows : MetBefore(q, r)}) < OverviewLimit}, t)

Last(rows) == CHOOSE r \in rows : \A q \in rows : q.time <= r.time

\* The card of a service: the decision and score of the last row read, the
\* worst severity and whether any row read was an anomaly.
Card(rows) ==
  [decision |-> Last(rows).verdict.decision,
   score    |-> Last(rows).verdict.score,
   severity |-> Max({r.verdict.severity : r \in rows}),
   anomaly  |-> \E r \in rows : r.verdict.anomaly]

\* The cards of a tenant after a scan that saw these rows of the table: it is
\* eventually consistent and may miss the latest.
Overview(t, rows) ==
  LET page == Scanned(t, rows) IN
  [k \in {ServiceOf[r.job] : r \in page} |-> Card(OfService(page, k))]

-----------------------------------------------------------------------------
(* Properties.                                                             *)

\* "Keep the most recent entry (entries come unsorted; take latest)"
\* (sre_dashboard/services/dynamodb.py:121): a card shows the newest
\* decision of its service, when the scan has missed no row.
OverviewLatest ==
  \A t \in Tenants :
    LET cards == Overview(t, audit) IN
    \A k \in DOMAIN cards :
      cards[k].decision = Last(OfService(OfTenant(audit, t), k)).verdict.decision

=============================================================================
