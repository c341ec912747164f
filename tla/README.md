# TLA+ models of the Foresight Lens platform (TF4, CDO-04)

This directory is the verification project of the repository: TLA+ modules
translated from the code under `src/`, `infra/` and `.github/`, the TLC
configurations that check them on small instances, and TLAPS proofs of what
matters most. Paths are relative to the repository root; the service code is in
`src/<service>/`.

To check a run: `tlc -workers 2 -config <run>.cfg <module>`; to check the proofs
of a module: `tlapm <module>.tla`.

## 1. The system

Producers post samples of seven signals to the **Telemetry API**, which exports
them as gauges and forwards them to AMP (managed Prometheus), with an S3 bucket
for the ones AMP refuses. Every five minutes a **scheduler** puts one job per
service on an SQS queue. **Prediction workers** take a job, read a two-hour
window from AMP, ask the **AI engine** about it or fall back on a static
threshold, write an audit row to DynamoDB, alert through SNS and delete the
message. A **cost breaker** scales the engine and the workers to zero when the
month's budget is spent. SREs watch and edit policies in a **dashboard**.

| Component | State it keeps | Operations | Talks to |
|---|---|---|---|
| Prediction queue and worker (`src/prediction_worker/app.py`, `infra/terraform/modules/data`) | place and receive count of each message; the job and verdict each worker holds; audit rows; policy rows | schedule, receive, query, predict, fall back, put, publish, delete; expiry, redrive; task death | SQS, AMP, AI engine, DynamoDB, SNS |
| Telemetry API ingest path (`src/telemetry_api`) | the request in service and its failures so far; counters; S3 objects | validate, store, observe, deliver, retry, buffer, answer; replay; expiry of objects | producers, AMP, S3 |
| Signal window (exporter, ADOT collector, `query_amp_metrics`, `align_and_impute`) | gauges, samples in AMP, the worker's window | observe, scrape, query, align, impute, decide | Telemetry API, AMP, worker |
| AI engine (`src/ai_engine/app`) | per task: admissions of the last minute, baseline cache, audit log; S3 baselines | limit, check, load baseline, detect, gate, log, answer | worker, S3 |
| Cost breaker (`src/lambda/cost_breaker.py`, `budgets.tf`, `autoscaling.tf`, `deploy.yml`) | budget notifications and invocations, desired counts | notify, filter, invoke, stop, publish, time out; scale out and in; apply | SNS, Lambda, ECS, Application Auto Scaling |
| Telemetry validators (`src/telemetry_api/validators`, `schemas`) | none; refusals are counted by class | check size, header, token, body, fields, labels, metric, tenant | ingest path |
| Dashboard: policies (`routes/policies.py`, `PoliciesScreen.tsx`) | policy rows; list, dialog and updates under way of each browser tab | list, edit, confirm, update, answer, leave | DynamoDB |
| Dashboard: audit views (`services/dynamodb.py`) | none: one page of the audit table for each request | overview (modelled), audit list (not) | DynamoDB |
| Dashboard: session, metrics, alarms, other screens | an AWS SSO profile in memory | log in, refresh, log out; read-only views | CloudWatch, SQS, ECS |
| Start-up, middleware, health, local storage, OTLP forwarder (`src/telemetry_api`) | none that outlives a request, beside the local JSONL file | | |
| Terraform, pipeline, scripts, tests | none of their own | | |

### What is hard here

The worker holds no lock and no memory: its exclusiveness is an SQS visibility
timeout, its idempotency a conditional put. So the hard behaviours are *redelivery*
(expiry under a slow worker, death between put and delete), *the wall clock* in a
key that is only tenant and instant, read some time before the put and on machines
that do not agree, and *failures that do not say whether the call was done*. The
ingest path answers 2xx on the strength of two stores that may each fail half way,
and shares the failure buffer with a replay that deletes by key and with a bucket
that deletes by age. The window is shaped by three clocks (producer, scrape, query)
and by fills. The breaker, autoscaling and deployments all write the same desired
counts, and the breaker publishes to the topic that starts it. The engine's limiter,
cache and log exist once per task, and the cache never asks S3 again for what it
holds. An SRE edits a policy from a list of any age, through a client that repeats
what was not answered; the condition of the write compares one of the two fields it
writes. The views of the audit table read one page of a table that grows for ever.
`PROJECT.json` lists each hazard at its line, with the properties that cover it.

### What makes each component correct

- *Queue and worker*: a job leaves the queue for good only after its audit put
  was answered; no alert without its put; no more rows than receives; no row
  rewritten; a put refused only for the row of another attempt; poison jobs are
  dead-lettered; the fields of a row agree.
- *Ingest*, where the API itself delivers: an acknowledged sample is in AMP, or in
  the buffer until the bucket expires its object, and nothing else loses it. In
  every configuration: retries stop for a permanent error or after `MaxRetries + 1`
  deliveries; the counters account for every request, and a refusal is counted in
  its class.
- *Validators*: a request is accepted exactly if nothing is wrong with it; a
  denied label is never accepted and always counted.
- *Window*: each bucket has the value its definition gives; what the worker
  sends the engine accepts; the engine is asked only on evidence.
- *AI engine*: the limiter is exact; what is answered is what is logged, while
  the task lives; no answer rests on a baseline replaced before its task started;
  no drift is missed, made up, or lost on its way to the worker's verdict.
- *Breaker*: only it stops a service, only at 100 %, only the services named;
  one failing stop does not save the others; it does not start itself.
- *Policies*: an edit replaces the threshold its author was shown and nothing
  else; the flag is undone only if somebody flipped it; 200 and 409 are true;
  no edit creates a row.
- *Audit views*: the overview shows the latest decision of a service (it does
  not: section 6).

## 2. Modules

| Module | Models | Composed with |
|---|---|---|
| `PredictionDecision` | the pure part of `process_job`: which verdict follows from gap, reply and threshold | extended by `PredictionWorker`, instantiated by `AIEngine` |
| `PredictionWorker` | queue, redrive, workers, audit table, alerts; one action per remote call | implements `JobLifecycle` |
| `AuditViews` | the overview, read while the workers write | extends `PredictionWorker` with no variable of its own |
| `JobLifecycle` | abstract: a submitted job stays pending until done (answered first) or dead | |
| `TelemetryIngest` | request handler, retry loop, failure buffer and its expiry, replays, configuration | implements `DurableSamples` |
| `IngestValidation` | which request is refused, for which reason, under which counters | extended by `TelemetryIngest` |
| `DurableSamples` | abstract: what is acknowledged was delivered or buffered; what leaves the buffer was delivered or has expired | |
| `WindowAlignment` | `align_and_impute` as folds, beside a definition bucket by bucket | extended by `TelemetryWindow` |
| `TelemetryWindow` | gauges, scrapes, range query, gap rule, the engine's window checks | |
| `DriftDetection` | `detect_drift`, `_recommend` and the confidence gate | extended by `AIEngine` |
| `AIEngine` | tasks of the engine: limiter, checks, bounded baseline cache, log, restarts | its replies are read by `PredictionDecision` |
| `CostBreaker` | budget topic, Lambda invocations, autoscaling, deployments | |
| `PolicyEditing` | policy table, browser tabs, update route, AWS client, callers of the API | |
| `MC*` | constants and symmetry for TLC | |
| `FoldLemmas` | induction over numbers, and what folds over a sequence compute | extended by the two modules below that reason about folds |
| `*Proofs` | theorems of `PredictionWorker`, `TelemetryIngest` (with `IngestValidation`), `TelemetryWindow`, `AIEngine`, `CostBreaker`, `PolicyEditing` | |

### PredictionWorker and the code

`main` (app.py:489-521) is a loop without state, so a worker is what it holds
(`held`, `handle`, `verdict`) and the call it is about to make (`pc`). `Receive`
is `receive_message` of one message; `handle` is its receipt, identified with
the receive count at that moment. `QueryMetrics`, `CallAi`, `ReadPolicy` are the
three reads of `process_job`, and each leaves in `verdict` what the code leaves
in its locals: a window with too many gaps marks the *source* and not the
*status*, a failed call marks both, as in the code. `ReadClock`
is app.py:210, a step before the put of app.py:252: `time` is what a task read
last, never twice the same, `clock` the latest of all readings. A task may read
any instant between its own last one and `Ahead` past `clock`, so clocks tie, lag
and run ahead; and a worker held up between the two steps puts an old row after
newer ones. `StoreAudit`, `SkipAudit`, `FailAudit` are the outcomes of the
conditional put: stored, refused and passed over, raised. A put whose answers
were lost raises with the row in the table. `Publish` swallows its
failure. `Delete` succeeds for a message still in the queue, `DeleteLost` covers
the call that fails and the receipt that is stale. SQS accepts some stale
receipts, so `Delete` does not compare them: both outcomes are possible.
`Crash` loses the worker's memory at any step. `skipped` and `alerts` are
history variables that the code does not read.

### TelemetryIngest and the code

The handler never awaits between `store` and its answer, and the retry sleeps with
`time.sleep`, so the event loop serves one request at a time: `step` and `current`
are that request, `outcomes` the failures of the retry loop. A delivery succeeds,
fails for good (4xx), fails for now, or is *lost*: AMP has it and the answer never
came. Replays read a page of keys, then each object, deliver, delete by key; objects
may change or vanish in between, and a second replay may do the same. `ExpireObject`
is the lifecycle rule of the bucket (data/main.tf:195-206), which deletes an object
of seven days whether it was replayed or not; there are no days in the model, so an
object may go at any time, and `expired` remembers the samples that went this way.
The promise to producers is stated for the mode in which the API itself delivers
(`IfRemote`): in the others an answer says nothing of AMP, see section 5. `mode` and
`s3` are the configuration, fixed at the start. `Refuse` stands for everything that
answers before the delivery without effect: size limit, validators, exception
handlers. Its reason is any of `IngestValidation`'s, and `Filed` the counters the
error handler adds to.

### IngestValidation and the code

`Reason` is the chain of checks of `POST /v1/ingest` in the order in which the
first failure answers: the size limit of the middleware, the route's header,
token, body and required fields, the fields of the schema in their declared
order (of several errors the handler reads the first), the labels in the order
they were sent, the metric with the labels it requires, the tenant. A label is
the list its key is on and what its value is. Every signal requires its `region`;
three of the seven (`"resource"`: connection pool, queue depth, cache hit rate)
require a second label first, the `"kind"`, and each required label must be there
and not be empty; a defect of the rest of the request is named by the reason it
is refused for. `CountersOf` is how `main.py` counts a reason.

### AuditViews and the code

`Scanned` is the one page that `get_overview` reads: the scan goes through the
partitions of the tenants in the order DynamoDB has them (`PartitionOf`) and
through each by the sort key, oldest row first, and its limit counts the rows of
*every* tenant, since the filter comes after it. `Overview` takes the table the
scan saw, which need not be the current one. `Card` is the loop over the page:
decision and score of the last row, the worst severity, a flag that is never
cleared. The module adds no variable and one property, `OverviewLatest`, which a
run refutes. Nothing stronger holds of the views than that they show rows of the
table: a later row of the tenant with an earlier stamp, or of a tenant met earlier,
pushes a row off the page, so a flagged service may lose its flag.

### PolicyEditing and the code

`history` holds every version of a row; the last one is in the table, the others are
there to say what an edit replaced, and because a list may be of earlier ones:
`list_policies` is an eventually consistent scan, so `ReadList` answers with any
version of each row (`Scans`), also after the tab's own edit was confirmed. A tab
keeps what `PoliciesScreen` keeps: the rows of the last list answer, the row its
dialog was opened on, requests under way. `Confirm` sends the threshold entered with
the flag and the threshold of the dialog's row. `Apply`, `Refuse`, `Fail` are one
attempt of `update_item`, with its condition on the row and on the threshold;
`Repeat` is botocore making the attempt again, which after a lost answer may meet
its own write. `Hear` is the answer reaching the screen: success closes the dialog
and loads the list, anything else leaves both. `Leave` unmounts the screen, and its
update goes on. `CallerPuts` writes without the screen, with or without an expected
threshold. Tabs share the table alone, because each SRE runs a dashboard of her own.

### TelemetryWindow, WindowAlignment and the code

A gauge keeps, for each label set (`Series`), the last value observed until the task
ends; a scrape writes every series with the time of the *scrape*. `Points` is the
instant lookup AMP does at each step (external, from how app.py:143-160 uses it);
the worker's query selects by tenant and service, so `QueryRange` is all series of a
signal one after the other, and `Actual` keeps the point listed last.
`align_and_impute` is a fold over the expected buckets (`Put` and `Impute` are the
bodies of its two loops), the bucket of the end included (the comment of app.py:78
says 120; 120 minutes give 121). `Decision` is the gap rule and `Accepted` the
engine's length and continuity checks, so that the two sides of the HTTP call meet
in one module.

### AIEngine, DriftDetection and the code

The middleware and the handler are separate steps of the event loop, hence
`Admit`/`Refuse` and `Predict`/`Reject`; the handler does not await, so it is one
step. `request_counts` and the `lru_cache` are per task. `cache` holds the services
in the order of their last use; the next one, when there are `CacheSize` of them
(deployed 64), takes the place of the first (`Freed`), and nothing leaves it by age.
A failed S3 read is cached as the absence of a baseline. Baselines are uploaded by
hand, and the bucket removes one of 90 days (`Upload`). The log is the one of the
deployment, a file of the task. `basis` and `held` are history: the baseline an
answer was computed under, and what S3 has held of each service since a task
started. The EWMA arithmetic is abstracted to the ratio of its last value to the
control limit, given per group and per baseline; everything decided from that ratio
(order of the groups, minimum of points, drop or rise, verb, confidence, severity,
gate) is modelled.

### CostBreaker and the code

A message of the topic carries its Lambda invocation: `queued`, `stopping` (with
the services left), `stopped`, `done` or `dead`. `Timeout` is the 30-second limit
at any point; Lambda repeats from the start, so a stop may be asked twice.
`StepUp` is a step-scaling adjustment held within the capacity. `Apply` resets
the counts Terraform manages: not the worker's, which is in `ignore_changes`.

## 3. Runs

| Run | Bounds | Shows |
|---|---|---|
| `worker_decisions` | 2 workers, a good and a malformed job, 2 receives, gaps 0 and 50, a quiet reply, a failed one, thresholds 80 and 85, clocks up to 1 ahead | types, coherent verdicts, dead-lettering, refinement of the life cycle with its liveness |
| `worker_queue` | 2 workers, 2 jobs of one tenant and two services, 2 receives, risky replies, clocks up to 1 ahead | the properties of queue, table and alerts |
| `ingest` | 1 slot, 2 values, 2 replays, 1 retry, 3 requests, every configuration, every reason of a refusal, objects of any age | nothing acknowledged is lost but by expiry, retry bounds, counters, refinement |
| `policies` | 2 tabs, a configured service and an unknown one, thresholds 70, 85 and 101, 2 tries, 2 edits, 1 caller's write, 4 versions | edits under stale lists, lost answers, repeats and closed tabs |
| `window` | step 2, window 4, lookback 2, scrapes up to 8, a forward-filled signal of two series and a zero-filled one | alignment as defined, both sides agree, evidence |
| `ai_engine` | 1 task, 4 calls (2 alike, 1 of another service, 1 refused), 2 services with a baseline or none, a cache of 1, limit 2 per 2 units, 3 instants | limiter, log, cache and restarts, detection, hand-over to the worker |
| `breaker` | 3 services, capacities 1, 2-3, 1-2, two retries | who stops what, no loop, the 100 % notification is acted on |
| `duplicate_rows`, `missing_row`, `overview_latest`, `breaker_undone`, `silent_signal` | small instances of the same modules | each refutes one sentence of the documents or comments: see section 6 |

### Why these bounds are enough

- *Receives 2, deployed 5*: everything that distinguishes attempts is a pair of
  them (first and a later one, overlapping or not); the proofs cover every value.
- *Two jobs, two workers*: a tie of the clock needs two rows, a stale receipt
  needs two holders. *Clocks 1 ahead*: a reading may be before, at or after every
  other one, which is all that the order of the rows depends on.
- *One retry, deployed 3*: the loop has a first, a repeated and a last delivery;
  `GiveUpJustified` counts against the constant. *Three requests*: one to be
  buffered, one to overwrite its object or to put it back after it expired, one to
  fail.
- *A page of 2 rows in `overview_latest`, deployed 500*: two jobs at two receives
  make up to four rows, so the newest ones fall off the page.
- *Two edits, two tries, one caller's write*: two edits race or follow each other,
  one of them repeated; the caller flips the flag or restores a threshold between
  them. 85 is what Terraform writes, 70 another valid threshold, 101 one out of
  range. *Four versions*: the first one, two edits and a repeat or a caller's
  write; the step that would make a fifth is not taken. *One list request a
  screen*: an answer that comes late and an edit of a stale row are both possible.
- *Window of 3 buckets instead of 121*: it has a first, a middle and a last
  bucket; the gap rule takes the values 0/3 to 3/3, on both sides of a half;
  lookback and step are equal, as a shorter or longer lookback changes only how
  many buckets a scrape fills. Two databases with a value of their own show
  which of them a bucket holds.
- *One task of the engine*: tasks share nothing but the baselines in S3, which a
  task only reads and `Upload` changes at any time; the proofs are for any number of
  them. *Limit 2, minute 2*: admissions at the edge of the minute, and a third call
  of the tenant. *A cache of 1 and two services*: each load of the other service
  evicts, and a service comes back to a baseline that was replaced meanwhile. The
  windows and the two states of a baseline give a rise, a drop the baseline
  explains, a group with too few points and an anomaly below the gate.
- *Capacities*: every service keeps a minimum, and the two the breaker stops a
  count above it; `MaxMessages` 8 is above the 6 messages the run can reach
  (three notifications and a notice for each of three attempts), so it never
  cuts a behaviour.
- `now`, `sent`, `MaxTime` and `MaxRequests` bound counters that grow for ever.

Symmetry is used only in runs without liveness properties (`worker_queue`, its
three violations, `ai_engine`, `policies`). Deadlock is not checked: in every model
all jobs may be finished, the bounds reached, and the system then rightly has
nothing to do. The largest runs are `worker_queue` (3.1
million distinct states), `ai_engine` and `policies` (2.0 each), `ingest` (1.2); every run ends within
three minutes on two cores.

### Fairness

- *Worker*: weak fairness of `Expire` and `Redrive` (SQS does both on its own),
  and of each worker's loop, which polls for ever. Not fair: the scheduler,
  crashes, and the outcome of any call, so a put may always fail.
- *Breaker*: weak fairness of the invocations, which Lambda runs or cuts off.
- Ingest, window, engine, policies: safety only, no fairness. Nothing deployed
  runs a replay, and a user may never press a button.

## 4. Proofs

`tlapm` proves the following for every value of the constants that satisfies the
named assumptions: `JobsAssumption`, `QueueAssumption`, `InputAssumption`,
`ClockAssumption` (worker), `ModesAssumption`, `BoundsAssumption` (ingest),
`TimesAssumption`, `SignalsAssumption`, `LengthAssumption` (window),
`CapacityAssumption`, `ServicesAssumption`, `RetriesAssumption` (breaker),
`EngineAssumption`, `BaselineAssumption` (engine), `PolicyAssumption`,
`PolicyBounds` (policies). Most are types and finiteness. `LengthAssumption` is the
one that relates numbers: all signals together have as many buckets as the engine
asks for, deployed 7 times 121 against 120. Without it the engine could refuse what
the worker sends, and `WindowsAccepted` would not hold.

- **PredictionWorkerProofs.** None of the safety invariants is inductive alone:
  that a deleted job was answered depends on what a worker about to delete has
  done before. The inductive invariant adds to the type invariant that a busy
  worker holds a receipt the queue gave it, and no two workers the same receipt
  of a job (`ReceiptsHeld`, `ReceiptsDistinct`); that answers come from receives
  that happened (`AnswersReceived`); that an attempt before its put has no
  answer (`NotYetAnswered`); and that one past its put has an answer with its
  own verdict (`AnsweredBeforeAlert`). From it: `TypeCorrect`,
  `NoUnansweredFinish`, `AlertsFollowEvidence`, `RowsBoundedByReceives`,
  `RefusalsAreCollisions`, `AuditNeverRewritten`, and `RefinesLifecycle`: every
  step is a step of `JobLifecycle` or a stutter. `RowsCoherent` rests on an
  invariant of its own: the verdict of a worker is coherent in the way its step
  allows (`VerdictsUnderWay`), half filled in before the put.
- **TelemetryIngestProofs.** `TypeCorrect`; `NothingAcknowledgedIsLost`, whose
  invariant adds that an object, and the copy a replayer made of it, is filed under
  the key of its own sample (the key determines the sample), that a replayer has one
  copy at a time, and that what it is about to delete AMP has, so that an
  acknowledged sample is in AMP, in the buffer or among the expired;
  `GivesUpInTime`, by what the failures of the loop so far allow at each step;
  `CountersAddUp`, as a refusal has at most one class; and
  `ImplementsDurableSamples`. The checks of a request need no state:
  `AcceptedIffClean`, a request has no reason to be refused exactly if every single
  check passes, for any number of labels, those its signal requires among them, each
  with a value; `DeniedLabelsCounted`, a payload whose only defects are denied
  labels is counted as a PII rejection, however many labels it has.
- **FoldLemmas.** The models state loops as folds of the community modules, which
  are recursive functions, and a recursive function is a `CHOOSE`: first it has to
  be shown to exist. `NatInduct` is induction with a set in place of a predicate
  (from `LeastOf`, that numbers are well founded). From it, `ChainExists` follows a
  fold position by position, `PrefixOf` and `LastOf` take the positions in their
  order, and `FlattenType`, `MaxIs` say what `FlattenSeq` and `Max` give.
- **TelemetryWindowProofs.** `AlignIs` is about `align_and_impute` alone, for any
  points, window, step and policy: the result has exactly the expected buckets,
  each with the value its definition gives it (the last point of the bucket, or
  the closest one before it in the window, or 0), and `missing` is the number of
  buckets without a point. Its first loop is followed point by point (`data` knows
  the last point of each bucket so far), its second bucket by bucket: what is
  carried forward is the value of the closest known bucket before. The inductive
  invariant of the module (`Inv`) adds to `TypeOK` that samples bear a time that
  has come (`Stamped`) and that every window read is what `align_and_impute` made
  of its points (`Imputed`); the gap rule and the engine's checks speak of the
  result alone, so `Imputed` is what ties them to the points. From it:
  `TypeCorrect`, `AlignsAsDefined`, `WindowsAreAccepted`, `AsksOnEvidence`. For
  the third, buckets of all signals one after the other have to be at least
  `MinPoints`, and neighbours of one signal a step apart; for the fourth, buckets
  with a point are the total less the missing ones.
- **PolicyEditingProofs.** `TypeCorrect`, `NoLostUpdate`, `FlagSafe`,
  `ConflictsJustified`, `OkTruthful`, `NoRowCreated`, `RepeatsHarmless`. The
  properties look at versions and updates; what makes them true is spread over list
  answers, lists and dialogs. The inductive invariant says of every row a screen has
  anywhere that it is a version there was, the current one or not
  (`ShownWasStored`), and of every history that between two versions with different
  flags the flag was flipped (`FlagTrail`). Histories only grow, so these survive
  every step of another actor. `RepeatsHarmless` needs a second invariant,
  `RepeatInv`: no two updates share a confirmation, versions of one confirmation
  share their basis, and an update under way has written at most as many versions as
  it has used tries.
- **AIEngineProofs.** `LogsWhatItAnswers`, `Refreshed`, `NoDriftMissed`,
  `WorkerReadsAnomalies`. That no answer rests on a baseline replaced before its
  task started is not inductive: what an answer rests on may have been cached long
  before. The invariant says so: whatever the cache of a task holds of a service, S3
  has held since the task started, or it stands for a failed read (`CachesHeld`); so
  does what an answer of a living task rests on (`FreshBasis`); and any answer was
  computed under its basis (`AnswersComputed`). The step that matters is `Predict`,
  where the cache may be read, grow or evict: `RemovedSound`, `FreedSound` and
  `LoadSound` say that a cache that loses or gains a place keeps to what S3 has
  held, for any size of the cache and any number of services. The lemma
  `DecisionShaped` settles the pure part: an anomaly always comes with a verb, and
  exactly when some group breaches its limit. `LimitsExactly` needs an invariant
  about a list that forgets (`LInv`): the list is sorted and no longer than the
  limit, and of the instants less than a minute ago it has as many as calls were
  admitted since then (`Counted`), while what it has dropped no minute that is still
  to come can contain. `Bounded` keeps the bound for the minutes that have passed,
  `Justified` the full minute each refused call met. Pruning is a fold; `RecentIs`
  says that it keeps exactly the instants less than a minute ago, in their order.
  `TypeCorrect` follows from both invariants.
- **CostBreakerProofs.** `TypeCorrect`, `BreakerOnly` and `NoSelfTrigger`. The
  invariant adds that an invocation that stops services belongs to a message that
  activates, that such a message is on the topic only once the spend has passed the
  last threshold, and that what it has left to stop is part of `StopOrder`. For
  `NoSelfTrigger` it adds that there is one notification of 100 %, that every notice
  is paid for by an attempt of it, failed or past its publish, and that attempts end
  at the last retry (`NoticesPaid`).

Every invariant and every action property that a passing run checks is a theorem.
Model-checked only is liveness: `MalformedDeadLettered`, `FullBudgetActedOn` and the
fairness part of `ImplementsLifecycle`, which need fairness and `ENABLED` and are
out of the prover's reach.

## 5. Not modelled, and why

- Retention of messages (4 days), of audit rows (90 days) and of AMP itself (150
  days): ends no behaviour of interest within their time. The retention of the
  failure buffer *is* modelled: nothing that is deployed replays it, so a sample
  answered 202 is gone after seven days unless somebody runs the replay before.
- The deployment turns the API's own delivery off (`AMP_DELIVERY_ENABLED` is
  `false`, telemetry_api.tf:142): it answers 201 with the sample in its gauge, and
  what reaches AMP are the scrapes of the collector (`docs/08_adrs.md`:992). There
  the promise of the ingest path is empty, and the models say so: with delivery
  disabled `AcknowledgedNotLost` and `ImplementsDurable` claim nothing of a sample
  (`IfRemote`), and a value that is overwritten in its gauge before the next
  scrape is never in AMP (`TelemetryWindow`). They are about the mode the code,
  its tests and the replay are written for.
- The audit list (`query_audit_logs`): it is a query that need not be current and
  is cut before its filter, so of an alert it promises nothing that could be
  checked.
- The text behind a check of the validators (regular expressions, lists of keys)
  is abstracted to its outcome. Two corners are left out: the error handler finds
  a reason by searching the message, so a label key or a metric that itself holds
  the words of another reason may be filed under it; and a JSON integer too large
  for a float makes the check of the value raise, an internal error.
- Request-id middleware, health and the local JSONL file: no protocol.
- The older OTLP forwarder (`src/telemetry_api/app.py`): not in the deployed image.
- The EWMA arithmetic over floats; the health check that may fail while a retry
  sleeps (needs real time).
- The dashboard's session: one record of an AWS profile in a process each SRE
  runs for herself, which no other part writes; policies and audits are read with
  the credentials the process was started with, not with it. Metrics, alarms,
  queue and ECS views and the other screens only show what they read.
- Networking, roles, alarms other than those that scale, scripts and load tests.
- Whether AWS Budgets sets the attribute the subscription filters on: outside the
  repository; the model assumes so.

## 6. Where the code and the documents part

Each is a run that ends in a counterexample and a finding in `PROJECT.json`:

1. `duplicate_rows`: the condition that should make the put idempotent is on a
   key with an instant read anew for each put; redelivery writes a second row.
2. `missing_row`: the same condition refuses the row of *another* job of the
   tenant at the same instant, and that job is deleted without a row.
3. `breaker_undone`: scaling and deployments restart what the breaker stopped.
4. `silent_signal`: a silent producer's gauge is scraped for ever, so its window
   is complete and the engine is asked about it.
5. `overview_latest`: past one page of rows the overview shows an old decision of
   a service as its latest.

Seen while modelling, without a run:

- *Worker*: app.py:78 speaks of a 120th bucket where there are 121; a `ROLLBACK`
  below severity 0.8 raises no alert; the worker does not read a policy's
  `enabled`.
- *Ingest*: nothing that is deployed runs the replay that a 202 promises
  (`docs/02_infra_design.md`:419), so the buffer waits for somebody's hand, or for
  the bucket to empty it after seven days.
- *Engine*: `contracts/ai-api-contract.md`:30 promises a limit per tenant where it
  is per tenant *and task*. `contracts/deployment-contract.md`:62 and the docstring
  of `load_baseline` (`baseline.py`:23) speak of a cache of five minutes; it has no
  expiry, so an upload takes effect when the task restarts, which `RestartRefreshes`
  is about, or when other services evict the old baseline. Terraform leaves
  `AUDIT_BACKEND` unset, so the audit log is a file in the container
  (`audit.py`:10) and goes with the task, where `deployment-contract.md`:56 has it
  in S3; `AnswersLogged` therefore speaks of living tasks only.
- *Policies*: the screen answers a 409 with "Policy was modified by another
  session" (`PoliciesScreen.tsx`:41) also when the change was its own update,
  repeated, or its own earlier edit, which its list does not show yet; nothing
  reloads the list after a 409; clearing the threshold's input enters 0.
- *Views*: a scan that fails is answered 200 with an empty list; scans have limits,
  which the rows of other tenants use up too, and no next page; an anomaly in the
  overview is never cleared while its row is read.
- *Session*: a failed login leaves `logged_in_at` and `region` of the one before
  (`session.py`:84).

## 7. Plan

Done: the modules, runs and proofs above, in this order: worker, ingest,
breaker, window, engine; then policies, audit views, validators, several series
of a signal, and the proofs of `VerdictsCoherent`, `GiveUpJustified`,
`CountersBalance`, `NoticesBounded`, `RepeatsBounded`; then the lemmas on folds,
and with them the window and the engine's limiter; then the clock apart from the
put, the expiry of the failure buffer, stale scans of the policies, and
the bound of the baseline cache.

Next, the model:
1. A health check that fails while the retry sleeps, which needs a clock in
   `TelemetryIngest`.

Then, proofs: the instances of `AlignIs` for a window of one series, where the
value of a bucket is that of the last sample within the lookback.
