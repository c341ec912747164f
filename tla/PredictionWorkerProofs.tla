----------------------- MODULE PredictionWorkerProofs -----------------------
(***************************************************************************)
(* Proofs about PredictionWorker for any jobs, workers, receive count and  *)
(* inputs: type correctness, the safety invariants the runs check, and     *)
(* that the queue and its workers implement JobLifecycle's safety part.    *)
(***************************************************************************)
EXTENDS PredictionWorker, TLAPS

-----------------------------------------------------------------------------
(* The decision operators stay within Verdict.                             *)

LEMMA UndecidedType == Undecided \in Verdict
  BY DEF Undecided, Verdict, Decisions, Percent

LEMMA SeenType ==
  ASSUME NEW v \in Verdict, NEW gap \in Percent
  PROVE  [v EXCEPT !.evidence = EvidenceOf(gap)] \in Verdict
  BY DEF Verdict, EvidenceOf

LEMMA TowardsFallbackType ==
  ASSUME NEW v \in Verdict
  PROVE  /\ TowardsFallback(v) \in Verdict
         /\ AfterFailedCall(v) \in Verdict
  BY DEF Verdict, TowardsFallback, AfterFailedCall

LEMMA FromReplyType ==
  ASSUME NEW v \in Verdict, NEW r \in Reply, ValidReply(r)
  PROVE  FromReply(v, r) \in Verdict
<1>1. /\ r.anomaly \in BOOLEAN
      /\ r.severity \in Percent
      /\ r.confidence \in Percent
      /\ r.verb \in Verbs \cup {"none"}
  BY DEF Reply, ValidReply
<1>2. (IF r.verb = "none" THEN "KEEP_ALIVE" ELSE r.verb) \in Decisions
  BY <1>1 DEF Decisions
<1>3. (IF r.verb = "none" THEN r.severity ELSE r.confidence) \in Percent
  BY <1>1
<1>. QED
  BY <1>1, <1>2, <1>3 DEF FromReply, Verdict

LEMMA FromThresholdType ==
  ASSUME NEW v \in Verdict, NEW t \in Percent
  PROVE  FromThreshold(v, t) \in Verdict
<1>1. (IF t > ScaleUpAbove THEN "SCALE_UP" ELSE "KEEP_ALIVE") \in Decisions
  BY DEF Decisions, Verbs
<1>2. (t > ScaleUpAbove) \in BOOLEAN
  OBVIOUS
<1>. QED
  BY <1>1, <1>2 DEF FromThreshold, Verdict

LEMMA RowType ==
  ASSUME TypeOK, NEW w \in Workers,
         held[w] \in Jobs, handle[w] \in 1..MaxReceive
  PROVE  Row(w) \in AuditRow
  BY DEF Row, AuditRow, TypeOK

-----------------------------------------------------------------------------
(* The inductive invariant.                                                *)

Busy(w) == pc[w] # "idle"

\* A worker holds a receipt the queue gave it, and no two workers the same.
ReceiptsHeld ==
  \A w \in Workers :
    Busy(w) => /\ held[w] \in Jobs
               /\ handle[w] \in 1..receives[held[w]]
               /\ message[held[w]] # "unsent"
               /\ pc[w] # "received" => held[w] \notin Malformed

ReceiptsDistinct ==
  \A w1, w2 \in Workers :
    w1 # w2 /\ Busy(w1) /\ Busy(w2) /\ held[w1] = held[w2]
      => handle[w1] # handle[w2]

\* Answers come from receives that happened.
AnswersReceived ==
  \A r \in Answered : /\ r.job \in Jobs \ Malformed
                      /\ r.attempt \in 1..receives[r.job]
                      /\ message[r.job] # "unsent"

\* Before its put an attempt has no answer, and after it the very answer.
NotYetAnswered ==
  \A w \in Workers :
    pc[w] \in {"received", "predict", "fallback", "audit", "put"} =>
      \A r \in Answered : ~ (r.job = held[w] /\ r.attempt = handle[w])

AnsweredBeforeAlert ==
  \A w \in Workers :
    pc[w] \in {"alert", "delete"} =>
      \E r \in Answered : /\ r.job = held[w]
                          /\ r.attempt = handle[w]
                          /\ r.verdict = verdict[w]

IInv ==
  /\ TypeOK
  /\ ReceiptsHeld
  /\ ReceiptsDistinct
  /\ AnswersReceived
  /\ NotYetAnswered
  /\ AnsweredBeforeAlert
  /\ FinishedJobsAnswered
  /\ AlertsTraceable
  /\ OneRowPerReceive
  /\ SkippedForAnother

-----------------------------------------------------------------------------
(* Type correctness of a step.                                             *)

LEMMA TypeStep == IInv /\ [Next]_vars => TypeOK'
<1> SUFFICES ASSUME IInv, [Next]_vars PROVE TypeOK'
  OBVIOUS
<1>t. TypeOK /\ ReceiptsHeld
  BY DEF IInv
<1>u. Undecided \in Verdict
  BY UndecidedType
<1>m. MaxReceive \in Nat \ {0}
  BY QueueAssumption
<1>1. ASSUME NEW j \in Jobs, Queue(j) PROVE TypeOK'
  BY <1>1, <1>t
  DEF TypeOK, Queue, Enqueue, Expire, Redrive, workerVars, clockVars, tableVars, Places
<1>2. ASSUME NEW w \in Workers, NEW j \in Jobs, Receive(w, j) PROVE TypeOK'
  BY <1>2, <1>t, <1>m DEF TypeOK, Receive, Goto, clockVars, tableVars, Places, Steps
<1>3. ASSUME NEW w \in Workers, Reject(w) \/ DeleteLost(w) \/ Crash(w)
      PROVE  TypeOK'
  BY <1>3, <1>t, <1>u, <1>m
  DEF TypeOK, Reject, DeleteLost, Crash, Release, Goto, queueVars, clockVars, tableVars, Steps
<1>4. ASSUME NEW w \in Workers, Delete(w) PROVE TypeOK'
  BY <1>4, <1>t, <1>u, <1>m
  DEF TypeOK, ReceiptsHeld, Busy, Delete, Release, Goto, clockVars, tableVars, Steps, Places
<1>5. ASSUME NEW w \in Workers, QueryMetrics(w) PROVE TypeOK'
  <2>1. PICK gap \in Gaps :
          \E s \in {"fallback", "predict"} :
            /\ pc' = [pc EXCEPT ![w] = s]
            /\ LET seen == [verdict[w] EXCEPT !.evidence = EvidenceOf(gap)]
               IN verdict' \in {[verdict EXCEPT ![w] = seen],
                                [verdict EXCEPT ![w] = TowardsFallback(seen)]}
    BY <1>5 DEF QueryMetrics, Goto
  <2>2. [verdict[w] EXCEPT !.evidence = EvidenceOf(gap)] \in Verdict
    BY <1>t, SeenType, InputAssumption DEF TypeOK
  <2>3. TowardsFallback([verdict[w] EXCEPT !.evidence = EvidenceOf(gap)]) \in Verdict
    BY <2>2, TowardsFallbackType
  <2>4. verdict' \in [Workers -> Verdict] /\ pc' \in [Workers -> Steps]
    BY <2>1, <2>2, <2>3, <1>t DEF TypeOK, Steps
  <2>. QED
    BY <2>4, <1>5, <1>t DEF TypeOK, QueryMetrics, queueVars, clockVars, tableVars
<1>6. ASSUME NEW w \in Workers, CallAi(w) PROVE TypeOK'
  <2>1. PICK r \in Replies :
          IF ValidReply(r)
          THEN /\ verdict' = [verdict EXCEPT ![w] = FromReply(@, r)]
               /\ Goto(w, "audit")
          ELSE /\ verdict' = [verdict EXCEPT ![w] = AfterFailedCall(@)]
               /\ Goto(w, "fallback")
    BY <1>6 DEF CallAi
  <2>2. ValidReply(r) => FromReply(verdict[w], r) \in Verdict
    BY <1>t, FromReplyType, InputAssumption DEF TypeOK
  <2>3. AfterFailedCall(verdict[w]) \in Verdict
    BY <1>t, TowardsFallbackType DEF TypeOK
  <2>4. verdict' \in [Workers -> Verdict] /\ pc' \in [Workers -> Steps]
    BY <2>1, <2>2, <2>3, <1>t DEF TypeOK, Goto, Steps
  <2>. QED
    BY <2>4, <1>6, <1>t DEF TypeOK, CallAi, queueVars, clockVars, tableVars
<1>7. ASSUME NEW w \in Workers, ReadPolicy(w) PROVE TypeOK'
  <2>1. PICK t \in Policies \cup {DefaultThreshold} :
          verdict' = [verdict EXCEPT ![w] = FromThreshold(@, t)]
    BY <1>7 DEF ReadPolicy
  <2>2. t \in Percent
    BY InputAssumption DEF DefaultThreshold, Percent
  <2>3. FromThreshold(verdict[w], t) \in Verdict
    BY <2>2, <1>t, FromThresholdType DEF TypeOK
  <2>. QED
    BY <2>1, <2>3, <1>7, <1>t
    DEF TypeOK, ReadPolicy, Goto, queueVars, clockVars, tableVars, Steps
<1>c. ASSUME NEW w \in Workers, ReadClock(w) PROVE TypeOK'
  <2>1. PICK t \in (time[w] + 1)..(clock + Ahead) :
          /\ time' = [time EXCEPT ![w] = t]
          /\ clock' = IF t > clock THEN t ELSE clock
    BY <1>c DEF ReadClock
  <2>2. t \in Nat
    BY <2>1, <1>t, ClockAssumption DEF TypeOK
  <2>. QED
    BY <2>1, <2>2, <1>c, <1>t
    DEF TypeOK, ReadClock, Goto, Steps, queueVars, tableVars
<1>8. ASSUME NEW w \in Workers, StoreAudit(w) \/ SkipAudit(w) \/ FailAudit(w)
      PROVE  TypeOK'
  <2>1. held[w] \in Jobs /\ handle[w] \in 1..MaxReceive
    BY <1>8, <1>t, <1>m
    DEF ReceiptsHeld, Busy, StoreAudit, SkipAudit, FailAudit, TypeOK
  <2>2. Row(w) \in AuditRow
    BY <2>1, <1>t, RowType
  <2>3. audit' \subseteq AuditRow /\ skipped' \subseteq AuditRow
    BY <1>8, <2>2, <1>t DEF TypeOK, StoreAudit, SkipAudit, FailAudit
  <2>4. /\ pc' \in [Workers -> Steps] /\ verdict' \in [Workers -> Verdict]
        /\ held' \in [Workers -> Jobs \cup {NoJob}]
        /\ handle' \in [Workers -> 0..MaxReceive]
    BY <1>8, <1>t, <1>u, <1>m
    DEF TypeOK, StoreAudit, SkipAudit, FailAudit, AfterAudit, Goto, Release, Steps
  <2>. QED
    BY <2>3, <2>4, <1>8, <1>t
    DEF TypeOK, StoreAudit, SkipAudit, FailAudit, queueVars, clockVars
<1>9. ASSUME NEW w \in Workers, Publish(w) PROVE TypeOK'
  <2>1. [job |-> held[w], attempt |-> handle[w], verdict |-> verdict[w]] \in Alert
    BY <1>9, <1>t, <1>m DEF ReceiptsHeld, Busy, Publish, Alert, TypeOK
  <2>. QED
    BY <2>1, <1>9, <1>t DEF TypeOK, Publish, Goto, Steps, queueVars, clockVars, tableVars
<1>10. CASE UNCHANGED vars
  BY <1>10, <1>t DEF TypeOK, vars, queueVars, workerVars, clockVars, tableVars
<1>. QED
  BY <1>1, <1>2, <1>3, <1>4, <1>5, <1>6, <1>7, <1>c, <1>8, <1>9, <1>10 DEF Next, Work

-----------------------------------------------------------------------------
(* Receipts.                                                               *)

LEMMA ReceiptsStep ==
  IInv /\ [Next]_vars => ReceiptsHeld' /\ ReceiptsDistinct'
<1> SUFFICES ASSUME IInv, [Next]_vars
             PROVE  ReceiptsHeld' /\ ReceiptsDistinct'
  OBVIOUS
<1> USE DEF ReceiptsHeld, ReceiptsDistinct, Busy
<1>t. TypeOK /\ ReceiptsHeld /\ ReceiptsDistinct
  BY DEF IInv
<1>m. MaxReceive \in Nat \ {0} /\ NoJob \notin Jobs
  BY QueueAssumption, JobsAssumption
<1>1. ASSUME NEW j \in Jobs, Queue(j)
      PROVE  ReceiptsHeld' /\ ReceiptsDistinct'
  BY <1>1, <1>t DEF TypeOK, Queue, Enqueue, Expire, Redrive, workerVars
<1>2. ASSUME NEW w \in Workers, NEW j \in Jobs, Receive(w, j)
      PROVE  ReceiptsHeld' /\ ReceiptsDistinct'
  <2>1. /\ receives[j] \in Nat
        /\ receives' = [receives EXCEPT ![j] = receives[j] + 1]
        /\ held' = [held EXCEPT ![w] = j]
        /\ handle' = [handle EXCEPT ![w] = receives[j] + 1]
        /\ message' = [message EXCEPT ![j] = "inflight"]
        /\ pc' = [pc EXCEPT ![w] = "received"]
    BY <1>2, <1>t, <1>m DEF TypeOK, Receive, Goto
  <2>2. ReceiptsHeld'
    BY <2>1, <1>t, <1>m DEF TypeOK
  <2>3. ReceiptsDistinct'
    BY <2>1, <1>t, <1>m DEF TypeOK
  <2>. QED
    BY <2>2, <2>3
<1>3. ASSUME NEW w \in Workers, Reject(w) \/ DeleteLost(w) \/ Crash(w)
      PROVE  ReceiptsHeld' /\ ReceiptsDistinct'
  BY <1>3, <1>t DEF TypeOK, Reject, DeleteLost, Crash, Release, Goto, queueVars
<1>4. ASSUME NEW w \in Workers, Delete(w)
      PROVE  ReceiptsHeld' /\ ReceiptsDistinct'
  BY <1>4, <1>t DEF TypeOK, Delete, Release, Goto
<1>5. ASSUME NEW w \in Workers,
             \/ QueryMetrics(w) \/ CallAi(w) \/ ReadPolicy(w) \/ ReadClock(w)
             \/ Publish(w)
      PROVE  ReceiptsHeld' /\ ReceiptsDistinct'
  <2>1. /\ \E s \in Steps : pc' = [pc EXCEPT ![w] = s]
        /\ pc[w] # "idle"
        /\ pc[w] = "received" => held[w] \notin Malformed
        /\ UNCHANGED <<message, receives, held, handle>>
    BY <1>5
    DEF QueryMetrics, CallAi, ReadPolicy, ReadClock, Publish, Goto, Steps, queueVars
  <2>. QED
    BY <2>1, <1>t DEF TypeOK
<1>6. ASSUME NEW w \in Workers, StoreAudit(w) \/ SkipAudit(w) \/ FailAudit(w)
      PROVE  ReceiptsHeld' /\ ReceiptsDistinct'
  <2>1. CASE StoreAudit(w) \/ SkipAudit(w)
    BY <2>1, <1>t
    DEF TypeOK, StoreAudit, SkipAudit, AfterAudit, Goto, queueVars
  <2>2. CASE FailAudit(w)
    BY <2>2, <1>t DEF TypeOK, FailAudit, Release, Goto, queueVars
  <2>. QED
    BY <1>6, <2>1, <2>2
<1>7. CASE UNCHANGED vars
  BY <1>7, <1>t DEF vars, queueVars, workerVars
<1>. QED
  BY <1>1, <1>2, <1>3, <1>4, <1>5, <1>6, <1>7 DEF Next, Work

-----------------------------------------------------------------------------
(* Answers of the audit table.                                             *)

\* A put adds at most one answer, that of the worker's attempt.
LEMMA PutAnswers ==
  ASSUME NEW w \in Workers, StoreAudit(w) \/ SkipAudit(w) \/ FailAudit(w)
  PROVE  Answered' = Answered \/ Answered' = Answered \cup {Row(w)}
  BY DEF StoreAudit, SkipAudit, FailAudit, Answered

LEMMA AnswersStep ==
  IInv /\ [Next]_vars => AnswersReceived' /\ NotYetAnswered'
<1> SUFFICES ASSUME IInv, [Next]_vars
             PROVE  AnswersReceived' /\ NotYetAnswered'
  OBVIOUS
<1> USE DEF AnswersReceived, NotYetAnswered
<1>t. TypeOK /\ ReceiptsHeld /\ ReceiptsDistinct /\ AnswersReceived /\ NotYetAnswered
  BY DEF IInv
<1>m. MaxReceive \in Nat \ {0} /\ NoJob \notin Jobs
  BY QueueAssumption, JobsAssumption
<1>1. ASSUME NEW j \in Jobs, Queue(j)
      PROVE  AnswersReceived' /\ NotYetAnswered'
  BY <1>1, <1>t
  DEF TypeOK, Answered, Queue, Enqueue, Expire, Redrive, workerVars, tableVars
<1>2. ASSUME NEW w \in Workers, NEW j \in Jobs, Receive(w, j)
      PROVE  AnswersReceived' /\ NotYetAnswered'
  <2>1. /\ receives[j] \in Nat
        /\ receives' = [receives EXCEPT ![j] = receives[j] + 1]
        /\ held' = [held EXCEPT ![w] = j]
        /\ handle' = [handle EXCEPT ![w] = receives[j] + 1]
        /\ message' = [message EXCEPT ![j] = "inflight"]
        /\ pc' = [pc EXCEPT ![w] = "received"]
        /\ Answered' = Answered
    BY <1>2, <1>t, <1>m DEF TypeOK, Receive, Goto, Answered, tableVars
  <2>2. AnswersReceived'
    BY <2>1, <1>t, <1>m DEF TypeOK
  <2>3. NotYetAnswered'
    BY <2>1, <1>t, <1>m DEF TypeOK
  <2>. QED
    BY <2>2, <2>3
<1>3. ASSUME NEW w \in Workers, Reject(w) \/ DeleteLost(w) \/ Crash(w)
      PROVE  AnswersReceived' /\ NotYetAnswered'
  BY <1>3, <1>t
  DEF TypeOK, Answered, Reject, DeleteLost, Crash, Release, Goto, queueVars, tableVars
<1>4. ASSUME NEW w \in Workers, Delete(w)
      PROVE  AnswersReceived' /\ NotYetAnswered'
  BY <1>4, <1>t DEF TypeOK, Answered, Delete, Release, Goto, tableVars
<1>5. ASSUME NEW w \in Workers,
             \/ QueryMetrics(w) \/ CallAi(w) \/ ReadPolicy(w) \/ ReadClock(w)
             \/ Publish(w)
      PROVE  AnswersReceived' /\ NotYetAnswered'
  <2>1. /\ \E s \in Steps : pc' = [pc EXCEPT ![w] = s]
        /\ pc'[w] \in {"predict", "fallback", "audit", "put"} =>
             pc[w] \in {"received", "predict", "fallback", "audit"}
        /\ UNCHANGED <<message, receives, held, handle>>
        /\ Answered' = Answered
    BY <1>5, <1>t
    DEF TypeOK, QueryMetrics, CallAi, ReadPolicy, ReadClock, Publish, Goto, Steps,
        Answered, queueVars, tableVars
  <2>2. pc'[w] # "received"
    BY <1>5, <1>t
    DEF TypeOK, QueryMetrics, CallAi, ReadPolicy, ReadClock, Publish, Goto
  <2>. QED
    BY <2>1, <2>2, <1>t DEF TypeOK
<1>6. ASSUME NEW w \in Workers, StoreAudit(w) \/ SkipAudit(w) \/ FailAudit(w)
      PROVE  AnswersReceived' /\ NotYetAnswered'
  <2>1. /\ pc[w] = "put"
        /\ \E s \in {"idle", "alert", "delete"} : pc' = [pc EXCEPT ![w] = s]
        /\ \A v \in Workers \ {w} : held'[v] = held[v] /\ handle'[v] = handle[v]
        /\ UNCHANGED <<message, receives>>
    BY <1>6, <1>t
    DEF TypeOK, StoreAudit, SkipAudit, FailAudit, AfterAudit, Goto, Release, queueVars
  <2>2. /\ held[w] \in Jobs \ Malformed
        /\ handle[w] \in 1..receives[held[w]]
        /\ message[held[w]] # "unsent"
    BY <2>1, <1>t DEF ReceiptsHeld, Busy
  <2>3. \A r \in Answered' : r \in Answered \/ (r.job = held[w] /\ r.attempt = handle[w])
    BY <1>6, PutAnswers DEF Row
  <2>4. AnswersReceived'
    BY <2>1, <2>2, <2>3, <1>t
  <2>5. NotYetAnswered'
    BY <2>1, <2>2, <2>3, <1>t DEF TypeOK, ReceiptsDistinct, Busy
  <2>. QED
    BY <2>4, <2>5
<1>7. CASE UNCHANGED vars
  BY <1>7, <1>t DEF vars, queueVars, workerVars, tableVars, Answered
<1>. QED
  BY <1>1, <1>2, <1>3, <1>4, <1>5, <1>6, <1>7 DEF Next, Work

\* Answers stay: the table is append-only and so is the history.
LEMMA AnswersStay ==
  IInv /\ [Next]_vars => audit \subseteq audit' /\ Answered \subseteq Answered'
<1> SUFFICES ASSUME [Next]_vars
             PROVE  audit \subseteq audit' /\ skipped \subseteq skipped'
  BY DEF Answered
<1>1. CASE \E j \in Jobs : Queue(j)
  BY <1>1 DEF Queue, Enqueue, Expire, Redrive, tableVars
<1>2. CASE \E w \in Workers : Work(w) \/ Crash(w)
  BY <1>2
  DEF Work, Crash, Receive, Reject, QueryMetrics, CallAi, ReadPolicy, ReadClock,
      StoreAudit, SkipAudit, FailAudit, Publish, Delete, DeleteLost, tableVars
<1>3. CASE UNCHANGED vars
  BY <1>3 DEF vars, tableVars
<1>. QED
  BY <1>1, <1>2, <1>3 DEF Next

LEMMA AlertStep == IInv /\ [Next]_vars => AnsweredBeforeAlert'
<1> SUFFICES ASSUME IInv, [Next]_vars PROVE AnsweredBeforeAlert'
  OBVIOUS
<1> USE DEF AnsweredBeforeAlert
<1>t. TypeOK /\ AnsweredBeforeAlert /\ Answered \subseteq Answered'
  BY AnswersStay DEF IInv
<1> SUFFICES ASSUME NEW v \in Workers, pc'[v] \in {"alert", "delete"}
             PROVE  \E r \in Answered' : /\ r.job = held'[v]
                                         /\ r.attempt = handle'[v]
                                         /\ r.verdict = verdict'[v]
  OBVIOUS
<1>1. CASE /\ pc[v] \in {"alert", "delete"}
           /\ held'[v] = held[v] /\ handle'[v] = handle[v] /\ verdict'[v] = verdict[v]
  BY <1>1, <1>t
<1>2. CASE StoreAudit(v) \/ SkipAudit(v)
  <2>1. Row(v) \in Answered'
    BY <1>2 DEF StoreAudit, SkipAudit, Answered
  <2>2. UNCHANGED <<held, handle, verdict>>
    BY <1>2 DEF StoreAudit, SkipAudit
  <2>. QED
    BY <2>1, <2>2 DEF Row
<1>3. CASE \E w \in Workers \ {v} : Work(w) \/ Crash(w)
  <2>0. PICK w \in Workers \ {v} : Work(w) \/ Crash(w)
    BY <1>3
  <2>p. pc'[v] = pc[v] /\ held'[v] = held[v] /\ handle'[v] = handle[v]
    BY <2>0, <1>t
    DEF TypeOK, Work, Crash, Receive, Reject, QueryMetrics, CallAi, ReadPolicy,
        ReadClock, StoreAudit, SkipAudit, FailAudit, Publish, Delete, DeleteLost,
        AfterAudit, Goto, Release
  <2>q. \E x : verdict' = [verdict EXCEPT ![w] = x]
    <3>1. CASE QueryMetrics(w) \/ CallAi(w) \/ ReadPolicy(w)
      BY <3>1 DEF QueryMetrics, CallAi, ReadPolicy
    <3>2. CASE Reject(w) \/ FailAudit(w) \/ Delete(w) \/ DeleteLost(w) \/ Crash(w)
      BY <3>2 DEF Reject, FailAudit, Delete, DeleteLost, Crash, Release
    <3>3. CASE UNCHANGED verdict
      BY <3>3, <1>t DEF TypeOK
    <3>4. ASSUME \/ \E j \in Jobs : Receive(w, j)
                 \/ ReadClock(w) \/ StoreAudit(w) \/ SkipAudit(w) \/ Publish(w)
          PROVE  UNCHANGED verdict
      BY <3>4 DEF Receive, ReadClock, StoreAudit, SkipAudit, Publish
    <3>. QED
      BY <2>0, <3>1, <3>2, <3>3, <3>4 DEF Work
  <2>1. verdict'[v] = verdict[v]
    BY <2>0, <2>q, <1>t DEF TypeOK
  <2>. QED
    BY <2>p, <2>1, <1>1
<1>4. CASE (Work(v) \/ Crash(v)) /\ ~ (StoreAudit(v) \/ SkipAudit(v))
  <2>1. Publish(v)
    BY <1>4, <1>t
    DEF TypeOK, Work, Crash, Receive, Reject, QueryMetrics, CallAi, ReadPolicy,
        ReadClock, FailAudit, Delete, DeleteLost, Goto, Release
  <2>. QED
    BY <2>1, <1>1 DEF Publish
<1>5. CASE (\E j \in Jobs : Queue(j)) \/ UNCHANGED vars
  BY <1>5, <1>1 DEF Queue, Enqueue, Expire, Redrive, vars, workerVars
<1>. QED
  BY <1>2, <1>3, <1>4, <1>5 DEF Next

LEMMA FinishedStep == IInv /\ [Next]_vars => FinishedJobsAnswered'
<1> SUFFICES ASSUME IInv, [Next]_vars,
                    NEW j \in Jobs, message'[j] = "deleted"
             PROVE  \E r \in Answered' : r.job = j
  BY DEF FinishedJobsAnswered
<1>t. /\ TypeOK /\ AnsweredBeforeAlert /\ FinishedJobsAnswered
      /\ Answered \subseteq Answered'
  BY AnswersStay DEF IInv
<1>1. CASE message[j] = "deleted"
  BY <1>1, <1>t DEF FinishedJobsAnswered
<1>2. CASE \E w \in Workers : Delete(w) /\ held[w] = j
  BY <1>2, <1>t DEF AnsweredBeforeAlert, Delete
<1>3. ASSUME message[j] # "deleted"
      PROVE  \E w \in Workers : Delete(w) /\ held[w] = j
  <2>1. \A k \in Jobs : ~ Queue(k)
    BY <1>3, <1>t DEF TypeOK, Queue, Enqueue, Expire, Redrive
  <2>2. \A w \in Workers : ~ Crash(w) /\ (Work(w) => Delete(w))
    BY <1>3, <1>t
    DEF TypeOK, Work, Crash, Receive, Reject, QueryMetrics, CallAi, ReadPolicy,
        ReadClock, StoreAudit, SkipAudit, FailAudit, Publish, DeleteLost, queueVars
  <2>3. ~ UNCHANGED vars
    BY <1>3 DEF vars, queueVars
  <2>4. PICK w \in Workers : Delete(w)
    BY <2>1, <2>2, <2>3 DEF Next
  <2>. QED
    BY <2>4, <1>3, <1>t DEF Delete, TypeOK
<1>. QED
  BY <1>1, <1>2, <1>3

LEMMA AlertsStep == IInv /\ [Next]_vars => AlertsTraceable'
<1> SUFFICES ASSUME IInv, [Next]_vars, NEW a \in alerts'
             PROVE  \E r \in Answered' : /\ r.job = a.job
                                         /\ r.attempt = a.attempt
                                         /\ r.verdict = a.verdict
  BY DEF AlertsTraceable
<1>t. /\ TypeOK /\ AnsweredBeforeAlert /\ AlertsTraceable
      /\ Answered \subseteq Answered'
  BY AnswersStay DEF IInv
<1>1. CASE a \in alerts
  BY <1>1, <1>t DEF AlertsTraceable
<1>2. ASSUME a \notin alerts
      PROVE  \E w \in Workers : Publish(w)
  BY <1>2
  DEF Next, Queue, Enqueue, Expire, Redrive, Work, Crash, Receive, Reject,
      QueryMetrics, CallAi, ReadPolicy, ReadClock, StoreAudit, SkipAudit, FailAudit,
      Delete, DeleteLost, vars
<1>3. ASSUME a \notin alerts, NEW w \in Workers, Publish(w)
      PROVE  \E r \in Answered : /\ r.job = a.job
                                 /\ r.attempt = a.attempt
                                 /\ r.verdict = a.verdict
  BY <1>3, <1>t DEF Publish, AnsweredBeforeAlert
<1>. QED
  BY <1>1, <1>2, <1>3, <1>t

LEMMA RowsStep == IInv /\ [Next]_vars => OneRowPerReceive' /\ SkippedForAnother'
<1> SUFFICES ASSUME IInv, [Next]_vars
             PROVE  OneRowPerReceive' /\ SkippedForAnother'
  OBVIOUS
<1>t. /\ TypeOK /\ NotYetAnswered /\ OneRowPerReceive /\ SkippedForAnother
      /\ audit \subseteq audit'
  BY AnswersStay DEF IInv
<1>1. CASE UNCHANGED <<audit, skipped>>
  BY <1>1, <1>t DEF OneRowPerReceive, SkippedForAnother
<1>2. ASSUME NEW w \in Workers, StoreAudit(w) \/ FailAudit(w)
      PROVE  OneRowPerReceive' /\ SkippedForAnother'
  <2>1. /\ pc[w] = "put" /\ skipped' = skipped
        /\ audit' = audit \/ audit' = audit \cup {Row(w)}
    BY <1>2 DEF StoreAudit, FailAudit
  <2>2. \A r \in audit : ~ (r.job = held[w] /\ r.attempt = handle[w])
    BY <2>1, <1>t DEF NotYetAnswered, Answered
  <2>3. OneRowPerReceive'
    BY <2>1, <2>2, <1>t DEF OneRowPerReceive, Row
  <2>4. SkippedForAnother'
    BY <2>1, <1>t DEF SkippedForAnother
  <2>. QED
    BY <2>3, <2>4
<1>3. ASSUME NEW w \in Workers, SkipAudit(w)
      PROVE  OneRowPerReceive' /\ SkippedForAnother'
  <2>1. KeyTaken(Row(w)) /\ skipped' = skipped \cup {Row(w)}
    BY <1>3 DEF SkipAudit
  <2>2. /\ audit' = audit
        /\ \A r \in audit : ~ (r.job = held[w] /\ r.attempt = handle[w])
    BY <1>3, <1>t DEF SkipAudit, NotYetAnswered, Answered
  <2>3. PICK r \in audit : /\ r.time = Row(w).time
                           /\ TenantOf[r.job] = TenantOf[Row(w).job]
    BY <2>1 DEF KeyTaken
  <2>4. <<r.job, r.attempt>> # <<Row(w).job, Row(w).attempt>>
    BY <2>2 DEF Row
  <2>. QED
    BY <2>1, <2>2, <2>3, <2>4, <1>t DEF OneRowPerReceive, SkippedForAnother
<1>4. CASE (\E j \in Jobs : Queue(j)) \/ UNCHANGED vars
  BY <1>4, <1>1 DEF Queue, Enqueue, Expire, Redrive, vars, tableVars
<1>5. ASSUME NEW w \in Workers, Work(w) \/ Crash(w),
             ~ (StoreAudit(w) \/ FailAudit(w) \/ SkipAudit(w))
      PROVE  UNCHANGED <<audit, skipped>>
  BY <1>5
  DEF Work, Crash, Receive, Reject, QueryMetrics, CallAi, ReadPolicy, ReadClock,
      Publish, Delete, DeleteLost, tableVars
<1>. QED
  BY <1>1, <1>2, <1>3, <1>4, <1>5 DEF Next

-----------------------------------------------------------------------------
(* Theorems.                                                               *)

LEMMA InitIInv == Init => IInv
<1> SUFFICES ASSUME Init PROVE IInv
  OBVIOUS
<1>1. TypeOK
  BY UndecidedType, QueueAssumption DEF Init, TypeOK, Places, Steps
<1>. QED
  BY <1>1
  DEF Init, IInv, ReceiptsHeld, ReceiptsDistinct, Busy, AnswersReceived,
      NotYetAnswered, AnsweredBeforeAlert, FinishedJobsAnswered, AlertsTraceable,
      OneRowPerReceive, SkippedForAnother, Answered

\* The invariant holds in every reachable state of PredictionWorker.
THEOREM Invariance == Spec => []IInv
<1>1. IInv /\ [Next]_vars => IInv'
  BY TypeStep, ReceiptsStep, AnswersStep, AlertStep, FinishedStep, AlertsStep,
     RowsStep DEF IInv
<1>. QED
  BY InitIInv, <1>1, PTL DEF Spec

\* The variables of the queue, the workers and the table keep their types.
THEOREM TypeCorrect == Spec => []TypeOK
<1>1. IInv => TypeOK
  BY DEF IInv
<1>. QED
  BY <1>1, Invariance, PTL

\* No job leaves the queue for good before one of its puts was answered.
THEOREM NoUnansweredFinish == Spec => []FinishedJobsAnswered
<1>1. IInv => FinishedJobsAnswered
  BY DEF IInv
<1>. QED
  BY <1>1, Invariance, PTL

\* Every alert follows the answered put of the same attempt and verdict.
THEOREM AlertsFollowEvidence == Spec => []AlertsTraceable
<1>1. IInv => AlertsTraceable
  BY DEF IInv
<1>. QED
  BY <1>1, Invariance, PTL

\* However attempts overlap, each receive of a job leaves one row at most.
THEOREM RowsBoundedByReceives == Spec => []OneRowPerReceive
<1>1. IInv => OneRowPerReceive
  BY DEF IInv
<1>. QED
  BY <1>1, Invariance, PTL

\* A put that left no row was refused for the row of another attempt.
THEOREM RefusalsAreCollisions == Spec => []SkippedForAnother
<1>1. IInv => SkippedForAnother
  BY DEF IInv
<1>. QED
  BY <1>1, Invariance, PTL

\* No step replaces or removes a row of the audit table.
THEOREM AuditNeverRewritten == Spec => AuditImmutable
<1>1. IInv /\ [Next]_vars => [audit \subseteq audit']_vars
  BY AnswersStay
<1>. QED
  BY <1>1, Invariance, PTL DEF Spec, AuditImmutable

-----------------------------------------------------------------------------
(* What the rows say.                                                      *)

Coherent(v) ==
  /\ v.decision # "UNKNOWN"
  /\ v.status = "fallback" => v.source = "STATIC_THRESHOLD_FALLBACK"
  /\ v.source = "STATIC_THRESHOLD_FALLBACK" =>
       /\ HighRisk(v) <=> v.decision = "SCALE_UP"
       /\ v.status = "complete" => v.evidence = "partial_window"

\* A verdict on its way to the fallback, which has not decided anything yet.
InFallback(v) ==
  /\ v.source = "STATIC_THRESHOLD_FALLBACK"
  /\ v.status = "complete" => v.evidence = "partial_window"

\* What a worker has decided so far, at each of its steps before the put.
VerdictsUnderWay ==
  \A w \in Workers :
    /\ pc[w] \in {"idle", "received"} => verdict[w] = Undecided
    /\ pc[w] = "predict" => /\ verdict[w].source = "AI_ENGINE"
                            /\ verdict[w].status = "complete"
    /\ pc[w] = "fallback" => InFallback(verdict[w])
    /\ pc[w] \in {"audit", "put"} => Coherent(verdict[w])

LEMMA ReplyCoherent ==
  ASSUME NEW v \in Verdict, v.source = "AI_ENGINE", v.status = "complete",
         NEW r \in Reply
  PROVE  /\ ValidReply(r) => Coherent(FromReply(v, r))
         /\ InFallback(AfterFailedCall(v))
<1>1. ASSUME ValidReply(r) PROVE Coherent(FromReply(v, r))
  <2>1. FromReply(v, r).decision # "UNKNOWN"
    BY <1>1 DEF ValidReply, FromReply, Verdict, Verbs
  <2>2. FromReply(v, r).source = "AI_ENGINE" /\ FromReply(v, r).status = "complete"
    BY DEF FromReply, Verdict
  <2>. QED
    BY <2>1, <2>2 DEF Coherent
<1>2. InFallback(AfterFailedCall(v))
  BY DEF InFallback, AfterFailedCall, TowardsFallback, Verdict
<1>. QED
  BY <1>1, <1>2

LEMMA ThresholdCoherent ==
  ASSUME NEW v \in Verdict, InFallback(v), NEW t \in Percent
  PROVE  Coherent(FromThreshold(v, t))
<1>1. LET d == FromThreshold(v, t) IN
      /\ d.source = v.source /\ d.status = v.status /\ d.evidence = v.evidence
      /\ d.anomaly = (t > ScaleUpAbove) /\ d.severity = t
      /\ d.decision = IF t > ScaleUpAbove THEN "SCALE_UP" ELSE "KEEP_ALIVE"
  BY DEF FromThreshold, Verdict
<1>2. HighRisk(FromThreshold(v, t)) <=> FromThreshold(v, t).decision = "SCALE_UP"
  BY <1>1 DEF HighRisk, ScaleUpAbove, AlertSeverity, Percent
<1>. QED
  BY <1>1, <1>2 DEF Coherent, InFallback

LEMMA UnderWayStep == TypeOK /\ VerdictsUnderWay /\ [Next]_vars => VerdictsUnderWay'
<1> SUFFICES ASSUME TypeOK, VerdictsUnderWay, [Next]_vars PROVE VerdictsUnderWay'
  OBVIOUS
<1>1. CASE UNCHANGED <<pc, verdict>>
  BY <1>1 DEF VerdictsUnderWay
<1>2. ASSUME NEW w \in Workers,
             \/ Release(w)
             \/ verdict' = verdict /\ \E s \in {"alert", "delete"} : Goto(w, s)
             \/ verdict' = verdict /\ pc[w] = "idle" /\ Goto(w, "received")
             \/ verdict' = verdict /\ pc[w] = "audit" /\ Goto(w, "put")
      PROVE  VerdictsUnderWay'
  BY <1>2 DEF TypeOK, VerdictsUnderWay, Release, Goto
<1>3. ASSUME NEW w \in Workers, QueryMetrics(w) PROVE VerdictsUnderWay'
  <2>1. PICK gap \in Gaps :
          LET seen == [verdict[w] EXCEPT !.evidence = EvidenceOf(gap)]
          IN IF GapTooLarge(gap)
             THEN /\ verdict' = [verdict EXCEPT ![w] = TowardsFallback(seen)]
                  /\ Goto(w, "fallback")
             ELSE /\ verdict' = [verdict EXCEPT ![w] = seen]
                  /\ Goto(w, "predict")
    BY <1>3 DEF QueryMetrics
  <2>2. verdict[w] = Undecided /\ gap \in Percent
    BY <1>3, InputAssumption DEF QueryMetrics, VerdictsUnderWay
  <2>3. CASE GapTooLarge(gap)
    <3>1. EvidenceOf(gap) = "partial_window"
      BY <2>2, <2>3 DEF GapTooLarge, MaxGapThreshold, EvidenceOf, Percent
    <3>2. InFallback(TowardsFallback([verdict[w] EXCEPT !.evidence = EvidenceOf(gap)]))
      BY <2>2, <3>1 DEF InFallback, TowardsFallback, Undecided
    <3>. QED
      BY <2>1, <2>3, <3>2 DEF TypeOK, VerdictsUnderWay, Goto
  <2>4. CASE ~ GapTooLarge(gap)
    <3>1. LET seen == [verdict[w] EXCEPT !.evidence = EvidenceOf(gap)] IN
          seen.source = "AI_ENGINE" /\ seen.status = "complete"
      BY <2>2 DEF Undecided
    <3>. QED
      BY <2>1, <2>4, <3>1 DEF TypeOK, VerdictsUnderWay, Goto
  <2>. QED
    BY <2>3, <2>4
<1>4. ASSUME NEW w \in Workers, CallAi(w) PROVE VerdictsUnderWay'
  <2>1. PICK r \in Replies :
          IF ValidReply(r)
          THEN /\ verdict' = [verdict EXCEPT ![w] = FromReply(@, r)]
               /\ Goto(w, "audit")
          ELSE /\ verdict' = [verdict EXCEPT ![w] = AfterFailedCall(@)]
               /\ Goto(w, "fallback")
    BY <1>4 DEF CallAi
  <2>2. /\ ValidReply(r) => Coherent(FromReply(verdict[w], r))
        /\ InFallback(AfterFailedCall(verdict[w]))
    BY <1>4, ReplyCoherent, InputAssumption DEF CallAi, TypeOK, VerdictsUnderWay
  <2>. QED
    BY <2>1, <2>2 DEF TypeOK, VerdictsUnderWay, Goto
<1>5. ASSUME NEW w \in Workers, ReadPolicy(w) PROVE VerdictsUnderWay'
  <2>1. PICK threshold \in Policies \cup {DefaultThreshold} :
          verdict' = [verdict EXCEPT ![w] = FromThreshold(@, threshold)]
    BY <1>5 DEF ReadPolicy
  <2>2. Coherent(FromThreshold(verdict[w], threshold))
    BY <1>5, ThresholdCoherent, InputAssumption
    DEF ReadPolicy, TypeOK, VerdictsUnderWay, DefaultThreshold, Percent
  <2>. QED
    BY <1>5, <2>1, <2>2 DEF ReadPolicy, TypeOK, VerdictsUnderWay, Goto
<1>6. ASSUME NEW w \in Workers, Work(w) \/ Crash(w) PROVE VerdictsUnderWay'
  BY <1>2, <1>3, <1>4, <1>5, <1>6
  DEF Work, Crash, Receive, Reject, ReadClock, StoreAudit, SkipAudit, FailAudit,
      AfterAudit, Publish, Delete, DeleteLost
<1>7. ASSUME NEW j \in Jobs, Queue(j) PROVE VerdictsUnderWay'
  BY <1>1, <1>7 DEF Queue, Enqueue, Expire, Redrive, workerVars
<1>8. CASE UNCHANGED vars
  BY <1>1, <1>8 DEF vars, workerVars
<1>. QED
  BY <1>6, <1>7, <1>8 DEF Next

LEMMA CoherentStep ==
  VerdictsUnderWay /\ VerdictsCoherent /\ [Next]_vars => VerdictsCoherent'
<1> SUFFICES ASSUME VerdictsUnderWay, VerdictsCoherent, [Next]_vars,
                    NEW r \in audit'
             PROVE  Coherent(r.verdict)
  BY DEF VerdictsCoherent, Coherent
<1>1. CASE r \in audit
  BY <1>1 DEF VerdictsCoherent, Coherent
<1>2. CASE r \notin audit
  <2>1. PICK w \in Workers : pc[w] = "put" /\ r = Row(w)
    BY <1>2
    DEF Next, Queue, Enqueue, Expire, Redrive, Work, Receive, Reject, QueryMetrics,
        CallAi, ReadPolicy, ReadClock, StoreAudit, SkipAudit, FailAudit, Publish,
        Delete, DeleteLost, Crash, tableVars, vars
  <2>2. r.verdict = verdict[w]
    BY <2>1 DEF Row
  <2>. QED
    BY <2>1, <2>2 DEF VerdictsUnderWay
<1>. QED
  BY <1>1, <1>2

\* Every row says something that fits together: decided, its fallback flags
\* in agreement, and a fallback high risk exactly when it scales up.
THEOREM RowsCoherent == Spec => []VerdictsCoherent
<1>1. Init => VerdictsUnderWay /\ VerdictsCoherent
  BY DEF Init, VerdictsUnderWay, VerdictsCoherent
<1>. QED
  BY <1>1, UnderWayStep, CoherentStep, TypeCorrect, PTL DEF Spec

-----------------------------------------------------------------------------
(* Refinement.                                                             *)

\* The stage JobLifecycle gives a message that is in place p.
StageOf(p) ==
  CASE p = "unsent"  -> "absent"
    [] p = "deleted" -> "done"
    [] p = "dlq"     -> "dead"
    [] OTHER         -> "pending"

Stages  == [j \in Jobs |-> StageOf(message[j])]
Replied == {r.job : r \in Answered}

LEMMA StageOfPlaces ==
  /\ StageOf("unsent") = "absent"   /\ StageOf("dlq") = "dead"
  /\ StageOf("ready") = "pending"   /\ StageOf("inflight") = "pending"
  /\ StageOf("deleted") = "done"
  BY DEF StageOf

\* One step of the abstract life of job j, on the mapped variables.
LEMMA LifecycleSteps ==
  ASSUME NEW j \in Jobs,
         \/ /\ Stages[j] = "absent"
            /\ Stages' = [Stages EXCEPT ![j] = "pending"]
            /\ Replied' = Replied
         \/ /\ Stages[j] # "absent" /\ j \notin Malformed
            /\ Replied' = Replied \cup {j}
            /\ Stages' = Stages
         \/ /\ Stages[j] = "pending" /\ j \in Replied
            /\ Stages' = [Stages EXCEPT ![j] = "done"]
            /\ Replied' = Replied
         \/ /\ Stages[j] = "pending"
            /\ Stages' = [Stages EXCEPT ![j] = "dead"]
            /\ Replied' = Replied
  PROVE  Lifecycle!Next
  BY DEF Lifecycle!Next, Lifecycle!Submit, Lifecycle!Answer, Lifecycle!Finish,
         Lifecycle!Bury, Stages, Replied, StageOf

LEMMA StageMoves ==
  ASSUME TypeOK, NEW j \in Jobs, NEW p \in Places,
         message' = [message EXCEPT ![j] = p]
  PROVE  Stages' = [Stages EXCEPT ![j] = StageOf(p)]
  BY DEF TypeOK, Stages

LEMMA StepRefines == IInv /\ [Next]_vars => [Lifecycle!Next]_(Lifecycle!vars)
<1> SUFFICES ASSUME IInv, [Next]_vars
             PROVE  Lifecycle!Next \/ (Stages' = Stages /\ Replied' = Replied)
  BY DEF Lifecycle!vars, Stages, Replied, StageOf
<1>t. TypeOK /\ ReceiptsHeld /\ AnsweredBeforeAlert
  BY DEF IInv
<1>1. ASSUME NEW j \in Jobs, Queue(j)
      PROVE  Lifecycle!Next \/ (Stages' = Stages /\ Replied' = Replied)
  <2>1. Replied' = Replied
    BY <1>1 DEF Queue, Enqueue, Expire, Redrive, tableVars, Replied, Answered
  <2>2. CASE Enqueue(j)
    <3>1. Stages[j] = "absent" /\ Stages' = [Stages EXCEPT ![j] = "pending"]
      BY <2>2, <1>t, StageMoves, StageOfPlaces DEF Enqueue, Places, Stages
    <3>. QED
      BY <3>1, <2>1, LifecycleSteps
  <2>3. CASE Expire(j)
    <3>1. Stages[j] = "pending" /\ Stages' = [Stages EXCEPT ![j] = "pending"]
      BY <2>3, <1>t, StageMoves, StageOfPlaces DEF Expire, Places, Stages
    <3>2. Stages' = Stages
      BY <3>1 DEF Stages
    <3>. QED
      BY <3>2, <2>1
  <2>4. CASE Redrive(j)
    <3>1. Stages[j] = "pending" /\ Stages' = [Stages EXCEPT ![j] = "dead"]
      BY <2>4, <1>t, StageMoves, StageOfPlaces DEF Redrive, Places, Stages
    <3>. QED
      BY <3>1, <2>1, LifecycleSteps
  <2>. QED
    BY <1>1, <2>2, <2>3, <2>4 DEF Queue
<1>2. ASSUME NEW w \in Workers, NEW j \in Jobs, Receive(w, j)
      PROVE  Stages' = Stages /\ Replied' = Replied
  <2>1. Stages[j] = "pending" /\ Stages' = [Stages EXCEPT ![j] = "pending"]
    BY <1>2, <1>t, StageMoves, StageOfPlaces DEF Receive, Places, Stages
  <2>2. Stages' = Stages
    BY <2>1 DEF Stages
  <2>. QED
    BY <2>2, <1>2 DEF Receive, tableVars, Replied, Answered
<1>3. ASSUME NEW w \in Workers, StoreAudit(w) \/ SkipAudit(w) \/ FailAudit(w)
      PROVE  Lifecycle!Next \/ (Stages' = Stages /\ Replied' = Replied)
  <2>1. /\ pc[w] = "put" /\ message' = message
        /\ Replied' = Replied \/ Replied' = Replied \cup {held[w]}
    BY <1>3, PutAnswers
    DEF StoreAudit, SkipAudit, FailAudit, queueVars, Replied, Row
  <2>2. Stages' = Stages
    BY <2>1 DEF Stages
  <2>3. held[w] \in Jobs \ Malformed /\ message[held[w]] # "unsent"
    BY <2>1, <1>t DEF ReceiptsHeld, Busy
  <2>4. Stages[held[w]] # "absent"
    BY <2>3, <1>t, StageOfPlaces DEF TypeOK, Places, Stages
  <2>. QED
    BY <2>1, <2>2, <2>3, <2>4, LifecycleSteps
<1>4. ASSUME NEW w \in Workers, Delete(w)
      PROVE  Lifecycle!Next
  <2>1. /\ held[w] \in Jobs /\ message[held[w]] \in {"ready", "inflight"}
        /\ message' = [message EXCEPT ![held[w]] = "deleted"]
        /\ Replied' = Replied
    BY <1>4, <1>t
    DEF Delete, ReceiptsHeld, Busy, tableVars, Replied, Answered
  <2>2. held[w] \in Replied
    BY <1>4, <1>t DEF Delete, AnsweredBeforeAlert, Replied
  <2>3. /\ Stages[held[w]] = "pending"
        /\ Stages' = [Stages EXCEPT ![held[w]] = "done"]
    BY <2>1, <1>t, StageMoves, StageOfPlaces DEF Places, Stages
  <2>. QED
    BY <2>1, <2>2, <2>3, LifecycleSteps
<1>5. ASSUME NEW w \in Workers,
             \/ Reject(w) \/ QueryMetrics(w) \/ CallAi(w) \/ ReadPolicy(w)
             \/ ReadClock(w) \/ Publish(w) \/ DeleteLost(w) \/ Crash(w)
      PROVE  Stages' = Stages /\ Replied' = Replied
  BY <1>5
  DEF Reject, QueryMetrics, CallAi, ReadPolicy, ReadClock, Publish, DeleteLost, Crash,
      queueVars, tableVars, Stages, Replied, Answered
<1>6. CASE UNCHANGED vars
  BY <1>6 DEF vars, queueVars, tableVars, Stages, Replied, Answered
<1>. QED
  BY <1>1, <1>2, <1>3, <1>4, <1>5, <1>6 DEF Next, Work

\* For every set of jobs and workers, the queue and its workers implement
\* the safety part of JobLifecycle.
THEOREM RefinesLifecycle == Spec => Lifecycle!Spec
<1>1. Init => Lifecycle!Init
  BY DEF Init, Lifecycle!Init, Answered
<1>. QED
  BY <1>1, StepRefines, Invariance, PTL DEF Spec, Lifecycle!Spec
=============================================================================
