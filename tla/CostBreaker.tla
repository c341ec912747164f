----------------------------- MODULE CostBreaker -----------------------------
(***************************************************************************)
(* The cost circuit breaker: AWS Budgets publishes to an SNS topic, a      *)
(* Lambda scales the AI engine and the prediction worker to zero and       *)
(* publishes a notice of its own to the same topic, while Application Auto *)
(* Scaling and the deployments move the same desired counts.               *)
(***************************************************************************)
EXTENDS Integers, Sequences, FiniteSets

CONSTANTS
  Services,     \* ECS services of the cluster
  StopOrder,    \* services_to_stop of the handler, in its order
  Worker,       \* the service the prediction queue scales
  Reset,        \* services whose desired_count a deployment sets
  MinTasks,     \* min_capacity of each service, also its first desired count
  MaxTasks,     \* max_capacity
  MaxRetries,   \* attempts Lambda repeats for an asynchronous invocation
  MaxMessages   \* bound: messages on the topic

ASSUME CapacityAssumption ==
  /\ MinTasks \in [Services -> Nat \ {0}]
  /\ MaxTasks \in [Services -> Nat]
  /\ \A s \in Services : MinTasks[s] <= MaxTasks[s]

ASSUME ServicesAssumption ==
  /\ StopOrder \in Seq(Services)
  /\ Worker \in Services
  /\ Reset \subseteq Services

ASSUME RetriesAssumption == MaxRetries \in Nat /\ MaxMessages \in Nat

VARIABLES
  spend,     \* thresholds of the budget the month's spend has passed
  topic,     \* messages of the topic, each with its invocation of the Lambda
  desired,   \* desired count of each service
  aged       \* the oldest message of the prediction queue is over two minutes old

vars == <<spend, topic, desired, aged>>

-----------------------------------------------------------------------------

\* The budget's notifications, in the order a growing spend passes them.
Thresholds == <<"50%", "80%", "100%">>

Kinds == {"50%", "80%", "100%", "notice"}

Phases == {"mail", "queued", "stopping", "stopped", "done", "dead"}

\* The invocation a message causes: attempts counts those that failed, left
\* holds the services to stop yet, tried the ones a stop was asked of.
Message == [kind : Kinds, phase : Phases, attempts : Nat,
            left : Seq(Services), tried : SUBSET Services]

TypeOK ==
  /\ spend \in 0..Len(Thresholds)
  /\ topic \in Seq(Message)
  /\ desired \in [Services -> Nat]
  /\ \A s \in Services : desired[s] <= MaxTasks[s]
  /\ aged \in BOOLEAN

Init ==
  /\ spend = 0
  /\ topic = <<>>
  /\ desired = MinTasks
  /\ aged = FALSE

\* Mutant: the Lambda's subscription has no filter policy.
DeliveredAll(kind) == kind \in Kinds

\* The filter policy asks for the attribute NotificationType = ACTUAL, which
\* the handler does not set on its own notice.
Delivered(kind) == kind # "notice"

\* Every message is mailed; only those the filter lets pass start the Lambda.
Published(kind) ==
  [kind |-> kind, phase |-> IF Delivered(kind) THEN "queued" ELSE "mail",
   attempts |-> 0, left |-> <<>>, tried |-> {}]

\* Mutant: a notification of 80% activates the breaker too.
ActivatesEarly(kind) == kind \in {"80%", "100%", "notice"}

\* should_activate: thresholdValue >= 100, or, in a text that is not JSON,
\* "100%", which the handler's own notice holds.
Activates(kind) == kind \in {"100%", "notice"}

-----------------------------------------------------------------------------

\* AWS Budgets notifies of the next threshold passed.
Spend ==
  /\ spend < Len(Thresholds)
  /\ spend' = spend + 1
  /\ topic' = Append(topic, Published(Thresholds[spend + 1]))
  /\ UNCHANGED <<desired, aged>>

\* An attempt starts: the event is parsed, and skipped below 100%.
Invoke(i) ==
  /\ topic[i].phase = "queued"
  /\ topic' = [topic EXCEPT
       ![i].phase = IF Activates(topic[i].kind) THEN "stopping" ELSE "done",
       ![i].left  = IF Activates(topic[i].kind) THEN StopOrder ELSE <<>>]
  /\ UNCHANGED <<spend, desired, aged>>

\* The stop of the next service has been asked: on to the one after it.
Asked(i) ==
  [topic EXCEPT ![i].left = Tail(@), ![i].tried = @ \cup {Head(topic[i].left)}]

Stop(i) ==
  /\ topic[i].phase = "stopping" /\ topic[i].left # <<>>
  /\ desired' = [desired EXCEPT ![Head(topic[i].left)] = 0]
  /\ topic' = Asked(i)
  /\ UNCHANGED <<spend, aged>>

\* Mutant: the first failure ends the loop over the services.
FailStopEnds(i) ==
  /\ topic[i].phase = "stopping" /\ topic[i].left # <<>>
  /\ topic' = [topic EXCEPT ![i].left = <<>>]
  /\ UNCHANGED <<spend, desired, aged>>

\* update_service raises: the failure goes into the notice, the loop goes on.
FailStop(i) ==
  /\ topic[i].phase = "stopping" /\ topic[i].left # <<>>
  /\ topic' = Asked(i)
  /\ UNCHANGED <<spend, desired, aged>>

\* The handler's notice; a publish that fails is only logged.
Publish(i) ==
  /\ topic[i].phase = "stopping" /\ topic[i].left = <<>>
  /\ Len(topic) < MaxMessages
  /\ LET stopped == [topic EXCEPT ![i].phase = "stopped"] IN
     topic' \in {stopped, Append(stopped, Published("notice"))}
  /\ UNCHANGED <<spend, desired, aged>>

\* The handler answers 200, whatever failed on its way.
Return(i) ==
  /\ topic[i].phase = "stopped"
  /\ topic' = [topic EXCEPT ![i].phase = "done"]
  /\ UNCHANGED <<spend, desired, aged>>

\* An attempt exceeds its 30 seconds at any point.  Lambda repeats it from the
\* start; the event goes to the dead-letter queue after the last one.
Timeout(i) ==
  /\ topic[i].phase \in {"stopping", "stopped"}
  /\ topic' = [topic EXCEPT
       ![i].phase = IF topic[i].attempts < MaxRetries THEN "queued" ELSE "dead",
       ![i].attempts = @ + 1, ![i].left = <<>>, ![i].tried = {}]
  /\ UNCHANGED <<spend, desired, aged>>

-----------------------------------------------------------------------------
(* What else moves the desired counts.                                     *)

\* The schedule goes on: jobs wait in the queue, and age when none is taken.
Age ==
  /\ ~ aged
  /\ aged' = TRUE
  /\ UNCHANGED <<spend, topic, desired>>

Drain ==
  /\ aged
  /\ desired[Worker] > 0
  /\ aged' = FALSE
  /\ UNCHANGED <<spend, topic, desired>>

\* The alarms behind the policies: the age of the queue for the worker, the
\* latency or CPU of its own tasks for any other service.
Loaded(s) == IF s = Worker THEN aged ELSE desired[s] > 0

\* Mutant: the step is not held within the capacity.
StepUpUnbounded(s) == desired[s] + 1

\* ChangeInCapacity +1, held within the capacity.
StepUp(s) ==
  IF desired[s] < MinTasks[s] THEN MinTasks[s]
  ELSE IF desired[s] < MaxTasks[s] THEN desired[s] + 1 ELSE desired[s]

ScaleOut(s) ==
  /\ Loaded(s)
  /\ desired' = [desired EXCEPT ![s] = StepUp(s)]
  /\ UNCHANGED <<spend, topic, aged>>

\* ChangeInCapacity -1: a count below the minimum is left as it is.
ScaleIn(s) ==
  /\ s = Worker => ~ aged
  /\ desired[s] > MinTasks[s]
  /\ desired' = [desired EXCEPT ![s] = @ - 1]
  /\ UNCHANGED <<spend, topic, aged>>

\* terraform apply of a deployment; the worker's count is in ignore_changes.
Apply ==
  /\ desired' = [s \in Services |-> IF s \in Reset THEN MinTasks[s] ELSE desired[s]]
  /\ UNCHANGED <<spend, topic, aged>>

-----------------------------------------------------------------------------

Handler(i) ==
  \/ Invoke(i) \/ Stop(i) \/ FailStop(i) \/ Publish(i) \/ Return(i) \/ Timeout(i)

Scaling(s) == ScaleOut(s) \/ ScaleIn(s)

Next ==
  \/ Spend \/ Age \/ Drain \/ Apply
  \/ \E i \in 1..Len(topic) : Handler(i)
  \/ \E s \in Services : Scaling(s)

Spec == Init /\ [][Next]_vars

\* Lambda runs what SNS handed it: an attempt ends or is cut off.
FairSpec ==
  Spec /\ WF_vars(\E i \in 1..Len(topic) : Handler(i))

-----------------------------------------------------------------------------
(* Properties.                                                             *)

\* The only way below a service's minimum is the breaker, at 100%, for one of
\* the services it is meant for: the Telemetry API keeps its task throughout.
OnlyBreakerStops ==
  \A s \in Services :
    desired[s] < MinTasks[s] =>
      /\ spend = Len(Thresholds)
      /\ \E n \in DOMAIN StopOrder : StopOrder[n] = s

Of(kind) == {i \in 1..Len(topic) : topic[i].kind = kind}

\* The handler publishes to the topic it is subscribed to, a text that would
\* activate it: yet a notification of 100% causes at most one notice an
\* attempt, and no notice causes another.
NoticesBounded ==
  Cardinality(Of("notice")) <= Cardinality(Of("100%")) * (MaxRetries + 1)

\* A service whose stop fails does not keep the others running, and an attempt
\* that is cut off is repeated: in the end the 100% notification was answered
\* after a stop of every service was tried, or it is in the dead-letter queue.
FullBudgetActedOn ==
  \A i \in 1..MaxMessages :
    (i <= Len(topic) /\ topic[i].kind = "100%") ~>
      (/\ i <= Len(topic)
       /\ \/ topic[i].phase = "dead"
          \/ /\ topic[i].phase = "done"
             /\ \A n \in DOMAIN StopOrder : StopOrder[n] \in topic[i].tried)

\* "... scale down prediction-worker and ai-engine to 0 desired tasks ... the
\* rollback runbook restores the desired count after approval"
\* (docs/05_cost_analysis.md:160): no step of the system itself starts a
\* service the breaker has stopped.
StoppedStaysStopped ==
  [][\A s \in Services : desired[s] = 0 => desired'[s] = 0]_vars
=============================================================================
