------------------------- MODULE PredictionDecision -------------------------
(***************************************************************************)
(* What process_job decides for one job, as functions of the three things  *)
(* it reads: the gap of the metric window, the reply of the AI engine and  *)
(* the static threshold of the service.  Ratios and scores are percents.   *)
(***************************************************************************)
EXTENDS Integers

Percent == 0..100

MaxGapThreshold  == 50    \* MAX_GAP_THRESHOLD
DefaultThreshold == 85    \* static_threshold when the policy cannot be read
ScaleUpAbove     == 80    \* score > 80.0 in the fallback
AlertSeverity    == 80    \* severity >= 0.8

Verbs     == {"SCALE_UP", "SCALE_DOWN", "RETIRE", "ROLLBACK", "INVESTIGATE"}
Decisions == Verbs \cup {"KEEP_ALIVE", "UNKNOWN"}

(***************************************************************************)
(* A reply of POST /v1/predict.  code = 0 stands for a call that raised    *)
(* (timeout, refused connection); wellFormed for the checks on the types   *)
(* of the fields; verb = "none" for a reply without a recommendation.      *)
(***************************************************************************)
Reply == [code : {0, 200, 400, 401, 429, 500}, wellFormed : BOOLEAN,
          anomaly : BOOLEAN, severity : Percent,
          verb : STRING, confidence : Percent]

ValidReply(r) ==
  /\ r.code = 200
  /\ r.wellFormed
  /\ r.verb \in Verbs \cup {"none"}

Verdict == [source   : {"AI_ENGINE", "STATIC_THRESHOLD_FALLBACK"},
            status   : {"complete", "fallback"},
            evidence : {"complete_window", "partial_window"},
            decision : Decisions,
            anomaly  : BOOLEAN,
            severity : Percent,
            score    : Percent]

\* The values process_job starts from, before it has decided anything.
Undecided == [source |-> "AI_ENGINE", status |-> "complete",
              evidence |-> "complete_window", decision |-> "UNKNOWN",
              anomaly |-> FALSE, severity |-> 0, score |-> 0]

EvidenceOf(gap) == IF gap > 0 THEN "partial_window" ELSE "complete_window"

GapTooLarge(gap) == gap >= MaxGapThreshold

\* The verdict v once the AI engine has answered with the valid reply r.
FromReply(v, r) ==
  [v EXCEPT !.anomaly  = r.anomaly,
            !.severity = r.severity,
            !.decision = IF r.verb = "none" THEN "KEEP_ALIVE" ELSE r.verb,
            !.score    = IF r.verb = "none" THEN r.severity ELSE r.confidence]

\* A failed AI call marks the verdict; a window with too many gaps does not.
TowardsFallback(v) == [v EXCEPT !.source = "STATIC_THRESHOLD_FALLBACK"]

\* Mutant: the failed call is noted but the verdict is not sent to the fallback.
AfterFailedCallUnrouted(v) == [v EXCEPT !.status = "fallback"]

AfterFailedCall(v) == [TowardsFallback(v) EXCEPT !.status = "fallback"]

\* The fallback compares the threshold itself, not the metric, with 80.
FromThreshold(v, threshold) ==
  [v EXCEPT !.score    = threshold,
            !.severity = threshold,
            !.anomaly  = threshold > ScaleUpAbove,
            !.decision = IF threshold > ScaleUpAbove THEN "SCALE_UP"
                                                     ELSE "KEEP_ALIVE"]

HighRisk(v) ==
  /\ v.anomaly
  /\ v.severity >= AlertSeverity \/ v.decision \in {"SCALE_UP", "RETIRE"}
=============================================================================
