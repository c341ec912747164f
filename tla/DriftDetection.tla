--------------------------- MODULE DriftDetection ---------------------------
(***************************************************************************)
(* What the AI engine decides about one signal window, once the EWMA of    *)
(* each group of its points is known.  ratio is the last EWMA value as a   *)
(* percent of the control limit, with its sign; it depends on the baseline *)
(* the residuals were taken against.  Scores are percents.                 *)
(***************************************************************************)
EXTENDS Integers, Sequences, FiniteSets, FiniteSetsExt

MinPoints    == 3    \* MIN_POINTS
Gate         == 70   \* below this confidence a recommendation is downgraded
QuietConfidence == 95

\* round(n / d) for n >= 0.
Round(n, d) == (2 * n + d) \div (2 * d)

AtMost(n, limit) == IF n > limit THEN limit ELSE n

Pools == {"queue_depth", "active_connections", "db_connection_pool_pct"}

\* A decision: anomaly, severity, verb ("none" without a recommendation) and
\* confidence.
Decided(anomaly, severity, verb, confidence) ==
  [anomaly |-> anomaly, severity |-> severity, verb |-> verb,
   confidence |-> confidence]

Quiet == Decided(FALSE, 0, "none", QuietConfidence)

\* _recommend for a drop: idle for half the window, or sudden.
ForDrop(metric, sustained) ==
  IF ~ sustained THEN [verb |-> "INVESTIGATE", confidence |-> 80]
  ELSE [verb |-> IF metric \in Pools THEN "RETIRE" ELSE "SCALE_DOWN",
        confidence |-> 75]

\* _recommend for a rise of ratio percent.
ForRise(metric, ratio) ==
  [verb |-> CASE metric \in {"cpu_usage_percent", "queue_depth"} -> "SCALE_UP"
              [] metric = "memory_usage_percent"                 -> "ROLLBACK"
              [] OTHER                                           -> "INVESTIGATE",
   confidence |-> AtMost(60 + Round(15 * (ratio - 100), 100), 99)]

Enough(group) == group.points >= MinPoints

Breached(group, known) ==
  group.ratio[known] > 100 \/ group.ratio[known] < -100

\* What is reported of a group that breaches its limit.
Report(group, known) ==
  LET ratio == group.ratio[known]
      size  == IF ratio < 0 THEN -ratio ELSE ratio
      rec   == IF ratio < 0 THEN ForDrop(group.metric, group.sustained)
                            ELSE ForRise(group.metric, size)
  IN Decided(TRUE, AtMost(Round(size, 3), 100), rec.verb, rec.confidence)

\* Mutant: the loop over the groups ends at one with too few points.
DetectDriftStops(groups, known) ==
  LET hits == {i \in 1..Len(groups) : Enough(groups[i]) /\ Breached(groups[i], known)}
      few  == {i \in 1..Len(groups) : ~ Enough(groups[i])}
  IN IF hits = {} \/ \E i \in few : i < Min(hits)
     THEN Quiet ELSE Report(groups[Min(hits)], known)

\* detect_drift: the first group that breaches its limit is the one reported.
DetectDrift(groups, known) ==
  LET hits == {i \in 1..Len(groups) : Enough(groups[i]) /\ Breached(groups[i], known)}
  IN IF hits = {} THEN Quiet ELSE Report(groups[Min(hits)], known)

\* Mutant: a recommendation of low confidence is dropped.
GatedDrops(d) == IF d.confidence < Gate THEN [d EXCEPT !.verb = "none"] ELSE d

\* The gate of predict_capacity: the verb is downgraded, the rest is kept.
Gated(d) ==
  IF d.verb # "none" /\ d.confidence < Gate
  THEN [d EXCEPT !.verb = "INVESTIGATE"] ELSE d
=============================================================================
