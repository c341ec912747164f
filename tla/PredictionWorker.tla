-------------------------- MODULE PredictionWorker --------------------------
(***************************************************************************)
(* The prediction queue and the ECS tasks that serve it.  A job is one SQS *)
(* message; a worker receives it, queries AMP, asks the AI engine or falls *)
(* back on the static threshold, writes the audit row, publishes the       *)
(* alert and deletes the message.  Every remote call is a step of its own: *)
(* another worker may act, the visibility timeout may expire and the task  *)
(* may die between two of them.                                            *)
(***************************************************************************)
EXTENDS PredictionDecision

CONSTANTS
  Jobs,        \* messages the scheduler sends, one per service and tick
  Workers,     \* ECS tasks of the worker service
  NoJob,       \* what an idle worker holds
  Malformed,   \* jobs whose body is not JSON or fails process_job's checks
  TenantOf,    \* tenant_id of each job
  MaxReceive,  \* maxReceiveCount of the redrive policy
  Gaps,        \* gap ratios AMP windows may have
  Replies,     \* replies the AI engine may give
  Policies,    \* static thresholds the policy table may hold
  Ahead        \* bound: how far a clock is read past the latest reading of all

ASSUME JobsAssumption ==
  /\ NoJob \notin Jobs
  /\ Malformed \subseteq Jobs

ASSUME QueueAssumption == MaxReceive \in Nat \ {0}

ASSUME InputAssumption ==
  /\ Gaps \subseteq Percent
  /\ Replies \subseteq Reply
  /\ Policies \subseteq Percent

ASSUME ClockAssumption == Ahead \in Nat \ {0}

VARIABLES
  message,   \* where SQS keeps each job
  receives,  \* its receive count
  pc,        \* the step each worker is about to take
  held,      \* the job it works on
  handle,    \* its receipt: the receive count when the job was received
  verdict,   \* what process_job has decided so far
  time,      \* the instant each task read from its clock last
  clock,     \* the latest instant any task has read, in microseconds
  audit,     \* rows of the audit table
  skipped,   \* history: rows the condition kept out of the table
  alerts     \* history: alerts published to SNS

queueVars  == <<message, receives>>
workerVars == <<pc, held, handle, verdict>>
clockVars  == <<time, clock>>
tableVars  == <<audit, skipped>>
vars == <<queueVars, workerVars, clockVars, tableVars, alerts>>

Places    == {"unsent", "ready", "inflight", "deleted", "dlq"}
Steps     == {"idle", "received", "predict", "fallback", "audit", "put", "alert",
              "delete"}
AuditRow  == [job : Jobs, attempt : 1..MaxReceive, time : Nat, verdict : Verdict]
Alert     == [job : Jobs, attempt : 1..MaxReceive, verdict : Verdict]

TypeOK ==
  /\ message  \in [Jobs -> Places]
  /\ receives \in [Jobs -> 0..MaxReceive]
  /\ pc       \in [Workers -> Steps]
  /\ held     \in [Workers -> Jobs \cup {NoJob}]
  /\ handle   \in [Workers -> 0..MaxReceive]
  /\ verdict  \in [Workers -> Verdict]
  /\ audit    \subseteq AuditRow
  /\ skipped  \subseteq AuditRow
  /\ time     \in [Workers -> Nat]
  /\ clock    \in Nat
  /\ alerts   \subseteq Alert

Init ==
  /\ message  = [j \in Jobs |-> "unsent"]
  /\ receives = [j \in Jobs |-> 0]
  /\ pc       = [w \in Workers |-> "idle"]
  /\ held     = [w \in Workers |-> NoJob]
  /\ handle   = [w \in Workers |-> 0]
  /\ verdict  = [w \in Workers |-> Undecided]
  /\ audit    = {}
  /\ time     = [w \in Workers |-> 0]
  /\ clock    = 0
  /\ skipped  = {}
  /\ alerts   = {}

Goto(w, step) == pc' = [pc EXCEPT ![w] = step]

\* The worker is done with its job: it polls again, or a new task replaces it.
Release(w) ==
  /\ Goto(w, "idle")
  /\ held'    = [held EXCEPT ![w] = NoJob]
  /\ handle'  = [handle EXCEPT ![w] = 0]
  /\ verdict' = [verdict EXCEPT ![w] = Undecided]

-----------------------------------------------------------------------------
(* The queue.                                                              *)

\* EventBridge Scheduler sends the job of a service.
Enqueue(j) ==
  /\ message[j] = "unsent"
  /\ message' = [message EXCEPT ![j] = "ready"]
  /\ UNCHANGED <<receives, workerVars, clockVars, tableVars, alerts>>

\* The visibility timeout passes before the message is deleted.
Expire(j) ==
  /\ message[j] = "inflight"
  /\ message' = [message EXCEPT ![j] = "ready"]
  /\ UNCHANGED <<receives, workerVars, clockVars, tableVars, alerts>>

\* A visible message already received MaxReceive times goes to the DLQ.
Redrive(j) ==
  /\ message[j] = "ready"
  /\ receives[j] = MaxReceive
  /\ message' = [message EXCEPT ![j] = "dlq"]
  /\ UNCHANGED <<receives, workerVars, clockVars, tableVars, alerts>>

-----------------------------------------------------------------------------
(* The worker.                                                             *)

\* Mutant: the redrive policy is not consulted before a receive.
ReceiveUnbounded(w, j) ==
  /\ pc[w] = "idle"
  /\ message[j] = "ready"
  /\ message'  = [message EXCEPT ![j] = "inflight"]
  /\ receives' = [receives EXCEPT ![j] = @ + 1]
  /\ Goto(w, "received")
  /\ held'     = [held EXCEPT ![w] = j]
  /\ handle'   = [handle EXCEPT ![w] = receives[j] + 1]
  /\ UNCHANGED <<verdict, clockVars, tableVars, alerts>>

Receive(w, j) ==
  /\ pc[w] = "idle"
  /\ message[j] = "ready"
  /\ receives[j] < MaxReceive
  /\ message'  = [message EXCEPT ![j] = "inflight"]
  /\ receives' = [receives EXCEPT ![j] = @ + 1]
  /\ Goto(w, "received")
  /\ held'     = [held EXCEPT ![w] = j]
  /\ handle'   = [handle EXCEPT ![w] = receives[j] + 1]
  /\ UNCHANGED <<verdict, clockVars, tableVars, alerts>>

\* Mutant: the message is deleted whatever process_job raised.
RejectDeletes(w) ==
  /\ pc[w] = "received"
  /\ held[w] \in Malformed
  /\ message' = [message EXCEPT ![held[w]] = "deleted"]
  /\ Release(w)
  /\ UNCHANGED <<receives, clockVars, tableVars, alerts>>

\* json.loads or a check of process_job raises; the message is not deleted.
Reject(w) ==
  /\ pc[w] = "received"
  /\ held[w] \in Malformed
  /\ Release(w)
  /\ UNCHANGED <<queueVars, clockVars, tableVars, alerts>>

QueryMetrics(w) ==
  /\ pc[w] = "received"
  /\ held[w] \notin Malformed
  /\ \E gap \in Gaps :
       LET seen == [verdict[w] EXCEPT !.evidence = EvidenceOf(gap)]
       IN IF GapTooLarge(gap)
          THEN /\ verdict' = [verdict EXCEPT ![w] = TowardsFallback(seen)]
               /\ Goto(w, "fallback")
          ELSE /\ verdict' = [verdict EXCEPT ![w] = seen]
               /\ Goto(w, "predict")
  /\ UNCHANGED <<queueVars, held, handle, clockVars, tableVars, alerts>>

\* Mutant: the alert of a valid reply goes out before the audit row.
CallAiAlertsFirst(w) ==
  /\ pc[w] = "predict"
  /\ \E r \in Replies :
       /\ verdict' = [verdict EXCEPT ![w] = FromReply(@, r)]
       /\ Goto(w, "alert")
  /\ UNCHANGED <<queueVars, held, handle, clockVars, tableVars, alerts>>

CallAi(w) ==
  /\ pc[w] = "predict"
  /\ \E r \in Replies :
       IF ValidReply(r)
       THEN /\ verdict' = [verdict EXCEPT ![w] = FromReply(@, r)]
            /\ Goto(w, "audit")
       ELSE /\ verdict' = [verdict EXCEPT ![w] = AfterFailedCall(@)]
            /\ Goto(w, "fallback")
  /\ UNCHANGED <<queueVars, held, handle, clockVars, tableVars, alerts>>

\* get_static_threshold_fallback: the table's value, or 85 without one.
ReadPolicy(w) ==
  /\ pc[w] = "fallback"
  /\ \E threshold \in Policies \cup {DefaultThreshold} :
       verdict' = [verdict EXCEPT ![w] = FromThreshold(@, threshold)]
  /\ Goto(w, "audit")
  /\ UNCHANGED <<queueVars, held, handle, clockVars, tableVars, alerts>>

-----------------------------------------------------------------------------
(* The conditional put.  The key of a row is (tenant_id, service_time):    *)
(* the wall clock of the task, not the job.                                *)

\* The clock is read before the put, which may be held up or repeated by the
\* AWS client, and the clocks of two tasks differ: two of them may read the
\* same instant, and an older row may reach the table after a newer one.  One
\* task never reads an instant twice.
ReadClock(w) ==
  /\ pc[w] = "audit"
  /\ \E t \in (time[w] + 1)..(clock + Ahead) :
       /\ time' = [time EXCEPT ![w] = t]
       /\ clock' = IF t > clock THEN t ELSE clock
  /\ Goto(w, "put")
  /\ UNCHANGED <<queueVars, held, handle, verdict, tableVars, alerts>>

Row(w) == [job |-> held[w], attempt |-> handle[w], time |-> time[w],
           verdict |-> verdict[w]]

\* Mutant: the key keeps every other digit of the clock only.
KeyTakenCoarse(row) ==
  \E r \in audit : /\ r.time \div 2 = row.time \div 2
                   /\ TenantOf[r.job] = TenantOf[row.job]

KeyTaken(row) ==
  \E r \in audit : r.time = row.time /\ TenantOf[r.job] = TenantOf[row.job]

\* Only an anomaly of high risk has an alert to publish.
AfterAudit(w) == Goto(w, IF HighRisk(verdict[w]) THEN "alert" ELSE "delete")

\* Mutant: the put is unconditional and replaces the row of its key.
StoreAuditOverwrites(w) ==
  /\ pc[w] = "put"
  /\ audit' = {r \in audit : \/ r.time # time[w]
                             \/ TenantOf[r.job] # TenantOf[held[w]]} \cup {Row(w)}
  /\ AfterAudit(w)
  /\ UNCHANGED <<queueVars, held, handle, verdict, clockVars, skipped, alerts>>

\* The AWS client repeats a put whose answer was lost; its own row then
\* refuses the repetition, which the code passes over: the outcome is the
\* same.
StoreAudit(w) ==
  /\ pc[w] = "put"
  /\ ~ KeyTaken(Row(w))
  /\ audit' = audit \cup {Row(w)}
  /\ AfterAudit(w)
  /\ UNCHANGED <<queueVars, held, handle, verdict, clockVars, skipped, alerts>>

\* ConditionalCheckFailedException is logged and the job goes on.
SkipAudit(w) ==
  /\ pc[w] = "put"
  /\ KeyTaken(Row(w))
  /\ skipped' = skipped \cup {Row(w)}
  /\ AfterAudit(w)
  /\ UNCHANGED <<queueVars, held, handle, verdict, clockVars, audit, alerts>>

\* Mutant: every failure of the put is swallowed, like that of the condition.
FailAuditSwallowed(w) ==
  /\ pc[w] = "put"
  /\ AfterAudit(w)
  /\ UNCHANGED <<queueVars, held, handle, verdict, clockVars, tableVars, alerts>>

\* Mutant: a put whose answer was lost is made again with a new instant.
FailAuditRetried(w) ==
  /\ pc[w] = "put"
  /\ ~ KeyTaken(Row(w))
  /\ audit' = audit \cup {Row(w)}
  /\ Goto(w, "audit")
  /\ UNCHANGED <<queueVars, held, handle, verdict, clockVars, skipped, alerts>>

\* Any other failure of the put is raised, once the client has given up.
\* When only the answers were lost the row is in the table all the same.
FailAudit(w) ==
  /\ pc[w] = "put"
  /\ \/ UNCHANGED audit
     \/ /\ ~ KeyTaken(Row(w))
        /\ audit' = audit \cup {Row(w)}
  /\ Release(w)
  /\ UNCHANGED <<queueVars, clockVars, skipped, alerts>>

-----------------------------------------------------------------------------

\* publish_sns_alert swallows every failure.
Publish(w) ==
  /\ pc[w] = "alert"
  /\ \/ alerts' = alerts \cup {[job |-> held[w], attempt |-> handle[w],
                                verdict |-> verdict[w]]}
     \/ UNCHANGED alerts
  /\ Goto(w, "delete")
  /\ UNCHANGED <<queueVars, held, handle, verdict, clockVars, tableVars>>

Delete(w) ==
  /\ pc[w] = "delete"
  /\ message[held[w]] \in {"ready", "inflight"}
  /\ message' = [message EXCEPT ![held[w]] = "deleted"]
  /\ Release(w)
  /\ UNCHANGED <<receives, clockVars, tableVars, alerts>>

\* The call fails, or the receipt is stale: a later receive replaced it, or
\* the message has left the queue.
DeleteLost(w) ==
  /\ pc[w] = "delete"
  /\ Release(w)
  /\ UNCHANGED <<queueVars, clockVars, tableVars, alerts>>

\* The task is killed (SIGTERM of a deployment or a scale-in, or a fault); the
\* one that replaces it has a clock of its own.
Crash(w) ==
  /\ Release(w)
  /\ time' = [time EXCEPT ![w] = 0]
  /\ UNCHANGED <<queueVars, clock, tableVars, alerts>>

-----------------------------------------------------------------------------

Queue(j) == Enqueue(j) \/ Expire(j) \/ Redrive(j)

Work(w) ==
  \/ \E j \in Jobs : Receive(w, j)
  \/ Reject(w)     \/ QueryMetrics(w) \/ CallAi(w)    \/ ReadPolicy(w)
  \/ ReadClock(w)  \/ StoreAudit(w)   \/ SkipAudit(w) \/ FailAudit(w)
  \/ Publish(w)    \/ Delete(w)       \/ DeleteLost(w)

Next ==
  \/ \E j \in Jobs : Queue(j)
  \/ \E w \in Workers : Work(w) \/ Crash(w)

Spec == Init /\ [][Next]_vars

\* SQS expires and redrives what is due, and a running worker takes its next
\* step.  Crashes, the scheduler and the outcome of a call are not fair.
Fairness ==
  /\ \A j \in Jobs : WF_vars(Expire(j)) /\ WF_vars(Redrive(j))
  /\ \A w \in Workers : WF_vars(Work(w))

FairSpec == Spec /\ Fairness

-----------------------------------------------------------------------------
(* Properties.                                                             *)

\* The puts the table has answered, stored or refused.
Answered == audit \cup skipped

\* A job leaves the queue for good only after a put of one of its attempts
\* was answered: whatever crashes, expires or fails in between, the message
\* outlives the work (delete last, app.py:505-511).
FinishedJobsAnswered ==
  \A j \in Jobs :
    message[j] = "deleted" => \E r \in Answered : r.job = j

\* An alert is never ahead of its evidence: the same attempt had its put
\* answered, with the very verdict the alert carries (put, then publish).
AlertsTraceable ==
  \A a \in alerts :
    \E r \in Answered :
      r.job = a.job /\ r.attempt = a.attempt /\ r.verdict = a.verdict

\* Redelivery duplicates a row, but at most once per receive: however the
\* attempts of one job overlap, each of them leaves one row at most, so a
\* job leaves no more rows than maxReceiveCount.
OneRowPerReceive ==
  \A r1, r2 \in audit :
    r1.job = r2.job /\ r1.attempt = r2.attempt => r1 = r2

\* A put that left no row was refused for the row of another attempt, of
\* this or another job of the tenant, on the same key: no verdict is lost to
\* an older row of its own attempt, and none for a key that is free.
SkippedForAnother ==
  \A s \in skipped :
    \E r \in audit :
      /\ r.time = s.time
      /\ TenantOf[r.job] = TenantOf[s.job]
      /\ <<r.job, r.attempt>> # <<s.job, s.attempt>>

\* What the rows say fits together: no row is undecided; a row filed as
\* fallback is one; a fallback is high risk exactly when it says SCALE_UP;
\* and the fallbacks filed as complete are those of a partial window.
VerdictsCoherent ==
  \A r \in audit :
    LET v == r.verdict IN
    /\ v.decision # "UNKNOWN"
    /\ v.status = "fallback" => v.source = "STATIC_THRESHOLD_FALLBACK"
    /\ v.source = "STATIC_THRESHOLD_FALLBACK" =>
         /\ HighRisk(v) <=> v.decision = "SCALE_UP"
         /\ v.status = "complete" => v.evidence = "partial_window"

\* The condition of the put keeps what was written: a row is never replaced
\* by the row of a later attempt that falls on the same key.
AuditImmutable == [][audit \subseteq audit']_vars

\* A job whose body no worker can process does not stay in the queue: it is
\* dead-lettered once its receives are used up.
MalformedDeadLettered ==
  \A j \in Malformed : message[j] = "ready" ~> message[j] = "dlq"

\* The queue and the workers implement the life of a job, liveness included.
Lifecycle == INSTANCE JobLifecycle WITH
  Hopeless <- Malformed,
  stage    <- [j \in Jobs |->
                 CASE message[j] = "unsent"  -> "absent"
                   [] message[j] = "deleted" -> "done"
                   [] message[j] = "dlq"     -> "dead"
                   [] OTHER                  -> "pending"],
  answered <- {r.job : r \in Answered}

ImplementsLifecycle == Lifecycle!FairSpec

\* What the documents say and the code does not do.

\* "Idempotency to avoid a duplicate prediction audit on SQS redelivery"
\* (docs/08_adrs.md:539): at most one row per job.
OneRowPerJob ==
  \A r1, r2 \in audit : r1.job = r2.job => r1 = r2

\* "Every prediction cycle must create an audit record"
\* (docs/03_security_design.md:428): a finished job has a row.
FinishedJobsAudited ==
  \A j \in Jobs :
    message[j] = "deleted" => \E r \in audit : r.job = j

=============================================================================
