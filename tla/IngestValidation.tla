-------------------------- MODULE IngestValidation --------------------------
(***************************************************************************)
(* Which requests POST /v1/ingest refuses, in which order it checks them   *)
(* and under which reason and counter a refusal is filed.  Text is         *)
(* abstracted to what the checks tell apart, and the message of an error   *)
(* to the reason it is searched for (a label key that itself holds the     *)
(* words of another reason is not modelled).                               *)
(***************************************************************************)
EXTENDS Integers, Sequences

\* A label by the list its key is on (the denied ones compared stripped and in
\* lower case, those a signal requires as they are: "kind" is the db_type,
\* queue_name or cache_type of its metric) and by what its value is: "empty" is
\* null or blank, "path" a path with an id in it.
Label == [key   : {"blank", "pii", "dynamic", "kind", "region", "free"},
          value : {"nested", "sensitive", "path", "empty", "plain"}]

\* What may be wrong with a request beside its metric and its labels, by the
\* reason it is refused for; unknown fields are a "bad_request".
Defects == {"payload_too_large", "missing_tenant_header", "invalid_ingest_token",
            "invalid_json", "missing_required_field", "invalid_timestamp",
            "empty_tenant_id", "empty_service_id", "invalid_value",
            "invalid_labels_type", "bad_request", "tenant_mismatch"}

\* A request with the labels in their order (none when they are no object).
\* Four signals are of a service, three of one of its resources.
Request == [defects : SUBSET Defects,
            metric  : {"blank", "service", "resource", "internal", "unknown"},
            labels  : Seq(Label)]

-----------------------------------------------------------------------------

Check(fails, reason) == IF fails THEN reason ELSE "none"

\* One check after another: the first that fails raises.
r (+) s == IF r = "none" THEN s ELSE r

\* One round of the loop in validate_labels.
LabelReason(l) ==
  Check(l.key = "blank", "invalid_labels_type")
    (+) Check(l.key = "pii", "pii_denylist_label")
    (+) Check(l.key = "dynamic", "high_cardinality_label")
    (+) Check(l.value = "nested", "nested_label_object")
    (+) Check(l.value = "sensitive", "pii_denylist_label")
    (+) Check(l.value = "path", "raw_endpoint_path_with_ids")

Refused(ls) == {i \in 1..Len(ls) : LabelReason(ls[i]) # "none"}

\* The loop ends at the first label that is refused.
LabelsReason(ls) ==
  IF Refused(ls) = {} THEN "none"
  ELSE LabelReason(ls[CHOOSE i \in Refused(ls) : \A j \in Refused(ls) : i <= j])

\* One round of the loop over the labels a signal requires.
RequiredReason(key, ls) ==
  LET found == {i \in 1..Len(ls) : ls[i].key = key} IN
  Check(found = {}, "missing_required_label")
    (+) Check(\E i \in found : ls[i].value = "empty", "empty_required_label")

\* validate_metric_and_labels: the kind of the resource sorts before the region.
MetricReason(metric, ls) ==
  Check(metric = "internal", "internal_only_metric_not_ai_signal")
    (+) Check(metric = "unknown", "unsupported_metric_type")
    (+) (IF metric = "resource" THEN RequiredReason("kind", ls) ELSE "none")
    (+) RequiredReason("region", ls)

\* Of a schema's errors, in the order of its fields, the first one counts;
\* unknown fields come after them and the model's own check only without any.
SchemaReason(q) ==
  LET Has(d) == Check(d \in q.defects, d) IN
  Has("invalid_timestamp") (+) Has("empty_tenant_id") (+) Has("empty_service_id")
    (+) Check(q.metric = "blank", "empty_metric_type")
    (+) Has("invalid_value")
    (+) Has("invalid_labels_type") (+) LabelsReason(q.labels)
    (+) Has("bad_request")
    (+) MetricReason(q.metric, q.labels)

\* The size limit, then the route: header, token, body, fields, tenant.
Reason(q) ==
  LET Has(d) == Check(d \in q.defects, d) IN
  Has("payload_too_large")
    (+) Has("missing_tenant_header") (+) Has("invalid_ingest_token")
    (+) Has("invalid_json") (+) Has("missing_required_field")
    (+) SchemaReason(q)
    (+) Has("tenant_mismatch")

-----------------------------------------------------------------------------
(* How a refusal is counted.                                               *)

PiiReasons == {"pii_denylist_label"}

CardinalityReasons == {"high_cardinality_label", "raw_endpoint_path_with_ids"}

MetricReasons == {"unsupported_metric_type", "internal_only_metric_not_ai_signal",
                  "missing_required_label", "empty_required_label"}

\* internal_error is a request whose record cannot be stored.
Reasons == Defects \cup PiiReasons \cup CardinalityReasons \cup MetricReasons
             \cup {"nested_label_object", "empty_metric_type", "internal_error"}

\* The counters of a refusal: of all refusals, and of its class if it has one.
CountersOf(reason) ==
  {"rejected"} \cup (IF reason \in PiiReasons THEN {"pii"} ELSE {})
               \cup (IF reason \in CardinalityReasons THEN {"cardinality"} ELSE {})
               \cup (IF reason \in MetricReasons THEN {"metric"} ELSE {})

=============================================================================
