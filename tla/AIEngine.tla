------------------------------ MODULE AIEngine ------------------------------
(***************************************************************************)
(* The tasks of the AI engine behind their load balancer.  Each task has a *)
(* rate limiter and a baseline cache of its own, in memory, and an audit   *)
(* log on its own disk.  The middleware and the handler are two steps of   *)
(* the event loop; the handler does not await, so it is one step.          *)
(***************************************************************************)
EXTENDS DriftDetection, SequencesExt

CONSTANTS
  Tasks,      \* ECS tasks, by the place they fill: a restart empties one
  Requests,   \* calls of POST /v1/predict
  TenantOf,   \* the X-Tenant-Id of each call, or NoTenant
  NoTenant,
  WindowOf,   \* the signal window of each call
  Services,   \* services that may have a baseline
  Baselines,  \* states of a baseline object in S3, "absent" for none
  NoTask,     \* the task of a call that has none, or whose task is gone
  Limit,      \* RATE_LIMIT_PER_MIN
  Minute,     \* the 60 seconds of the limiter
  CacheSize,  \* maxsize of the lru_cache of load_baseline
  MinWindow,  \* points check_window_size asks for
  MaxTime     \* bound: the last instant

ASSUME EngineAssumption ==
  /\ NoTask \notin Tasks
  /\ "absent" \in Baselines
  /\ IsFiniteSet(Requests)
  /\ Limit \in Nat \ {0} /\ Minute \in Nat \ {0} /\ MaxTime \in Nat
  /\ CacheSize \in Nat \ {0}

VARIABLES
  now,      \* time
  store,    \* baseline objects in S3
  cache,    \* what load_baseline has cached, the one used last at the end
  counts,   \* request_counts of the limiter
  call,     \* how far each call has come, on which task, admitted when
  log,      \* the entries of each task's audit log
  reply,    \* history: what the task answered
  basis,    \* history: the baseline an answer was computed under, or NotLoaded
  held      \* history: what S3 has held of each service since a task started

vars == <<now, store, cache, counts, call, log, reply, basis, held>>

-----------------------------------------------------------------------------

NotLoaded == "not loaded"

ASSUME BaselineAssumption ==
  /\ NotLoaded \notin Baselines
  /\ \A r \in Requests : WindowOf[r].service \in Services

Phases == {"new", "refused", "open", "answered", "cut"}

Tenants == {TenantOf[r] : r \in Requests}

\* What the caller gets, in the form the worker checks it.
Response(code, d) ==
  [code |-> code, wellFormed |-> TRUE, anomaly |-> d.anomaly,
   severity |-> d.severity, verb |-> d.verb, confidence |-> d.confidence]

NoReply == Response(0, Quiet)

TypeOK ==
  /\ now \in 0..MaxTime
  /\ store \in [Services -> Baselines]
  /\ DOMAIN cache = Tasks
  /\ \A t \in Tasks :
       /\ cache[t] \in Seq([service : Services, baseline : Baselines])
       /\ Len(cache[t]) <= CacheSize
       /\ \A i, j \in 1..Len(cache[t]) :
            cache[t][i].service = cache[t][j].service => i = j
  /\ DOMAIN counts = Tasks
  /\ \A t \in Tasks : \A n \in Tenants :
       /\ Len(counts[t][n]) <= Limit
       /\ \A i \in 2..Len(counts[t][n]) : counts[t][n][i - 1] <= counts[t][n][i]
  /\ call \in [Requests -> [phase : Phases, task : Tasks \cup {NoTask}, at : 0..MaxTime]]
  /\ DOMAIN log = Tasks
  /\ DOMAIN reply = Requests
  /\ basis \in [Requests -> Baselines \cup {NotLoaded}]
  /\ held \in [Tasks -> [Services -> SUBSET Baselines]]

\* What a task that starts now finds in S3.
Stored == [s \in Services |-> {store[s]}]

NoCounts == [n \in Tenants |-> <<>>]

Init ==
  /\ now = 0
  /\ store \in [Services -> Baselines]
  /\ cache = [t \in Tasks |-> <<>>]
  /\ counts = [t \in Tasks |-> NoCounts]
  /\ call = [r \in Requests |-> [phase |-> "new", task |-> NoTask, at |-> 0]]
  /\ log = [t \in Tasks |-> {}]
  /\ reply = [r \in Requests |-> NoReply]
  /\ basis = [r \in Requests |-> NotLoaded]
  /\ held = [t \in Tasks |-> Stored]

-----------------------------------------------------------------------------
(* rate_limit_middleware.                                                  *)

\* Mutant: an admission counts for a moment too long.
KeepLong(kept, at) == IF now - at <= Minute THEN Append(kept, at) ELSE kept

\* What the comprehension makes of one admission.
Keep(kept, at) == IF now - at < Minute THEN Append(kept, at) ELSE kept

\* Admissions of the tenant that are less than a minute old.
Recent(t, n) == FoldLeft(LAMBDA kept, at : Keep(kept, at), <<>>, counts[t][n])

Moved(r, phase, t) == [call EXCEPT ![r] = [phase |-> phase, task |-> t, at |-> now]]

\* Mutant: one admission more than the limit.
FullAbove(t, n) == Len(Recent(t, n)) > Limit

Full(t, n) == Len(Recent(t, n)) >= Limit

Refuse(r, t) ==
  LET n == TenantOf[r] IN
  /\ call[r].phase = "new"
  /\ n # NoTenant
  /\ Full(t, n)
  /\ counts' = [counts EXCEPT ![t][n] = Recent(t, n)]
  /\ call' = Moved(r, "refused", t)
  /\ reply' = [reply EXCEPT ![r].code = 429]
  /\ UNCHANGED <<now, store, cache, log, basis, held>>

\* A call without the header is not counted; the handler refuses it.
Admit(r, t) ==
  LET n == TenantOf[r] IN
  /\ call[r].phase = "new"
  /\ IF n = NoTenant THEN UNCHANGED counts
     ELSE /\ ~ Full(t, n)
          /\ counts' = [counts EXCEPT ![t][n] = Append(Recent(t, n), now)]
  /\ call' = Moved(r, "open", t)
  /\ UNCHANGED <<now, store, cache, log, reply, basis, held>>

-----------------------------------------------------------------------------
(* predict_capacity.                                                       *)

\* The first check a call fails, in the order of the checks; 200 if it passes.
Checked(r) ==
  LET w == WindowOf[r] IN
  CASE w.length < MinWindow     -> 422
    [] TenantOf[r] = NoTenant   -> 401
    [] w.tenant # TenantOf[r]   -> 400
    [] ~ w.continuous           -> 400
    [] OTHER                    -> 200

\* The call is answered with code and d; its task and admission are kept.
Answered(r, code, d) ==
  /\ call' = [call EXCEPT ![r].phase = "answered"]
  /\ reply' = [reply EXCEPT ![r] = Response(code, d)]

Reject(r) ==
  /\ call[r].phase = "open"
  /\ Checked(r) # 200
  /\ Answered(r, Checked(r), Quiet)
  /\ UNCHANGED <<now, store, cache, counts, log, basis, held>>

\* Only a group with enough points has its baseline loaded.
Loads(w) == \E i \in 1..Len(w.groups) : Enough(w.groups[i])

\* Where the cache of a task has a service.
Place(t, s) == {i \in 1..Len(cache[t]) : cache[t][i].service = s}

\* load_baseline: what it may return.  A read of S3 that fails is no baseline,
\* and is cached like one.
Load(t, s) ==
  IF Place(t, s) = {} THEN {store[s], "absent"}
  ELSE {cache[t][i].baseline : i \in Place(t, s)}

\* Mutant: a cache without a bound.
FreedNever(t, s) ==
  IF Place(t, s) # {} THEN RemoveAt(cache[t], CHOOSE i \in Place(t, s) : TRUE)
  ELSE cache[t]

\* The cache without the place the next use of s frees: its own, or, when
\* there is no room for it, that of the service not used for longest.
Freed(t, s) ==
  IF Place(t, s) # {} THEN RemoveAt(cache[t], CHOOSE i \in Place(t, s) : TRUE)
  ELSE IF Len(cache[t]) = CacheSize THEN RemoveAt(cache[t], 1)
  ELSE cache[t]

\* The service and its baseline become the ones used last.
Used(t, s, b) == Append(Freed(t, s), [service |-> s, baseline |-> b])

\* What a prediction from baseline b leaves in the cache of its task, if the
\* window asks for a baseline at all.
Remembered(r, b) ==
  LET t == call[r].task  w == WindowOf[r] IN
  IF Loads(w)
  THEN /\ cache' = [cache EXCEPT ![t] = Used(t, w.service, b)]
       /\ basis' = [basis EXCEPT ![r] = b]
  ELSE UNCHANGED <<cache, basis>>

Entry(r, d) == [call |-> r, recommendation |-> [verb |-> d.verb, confidence |-> d.confidence]]

\* Mutant: the decision is logged as it was before the gate.
PredictLogsUngated(r) ==
  LET t == call[r].task  w == WindowOf[r] IN
  /\ call[r].phase = "open"
  /\ Checked(r) = 200
  /\ \E b \in Load(t, w.service) :
       /\ Remembered(r, b)
       /\ Answered(r, 200, Gated(DetectDrift(w.groups, b)))
       /\ log' = [log EXCEPT ![t] = @ \cup {Entry(r, DetectDrift(w.groups, b))}]
  /\ UNCHANGED <<now, store, counts, held>>

\* The decision is logged, then answered; a log that fails is a 500.
Predict(r) ==
  LET t == call[r].task  w == WindowOf[r] IN
  /\ call[r].phase = "open"
  /\ Checked(r) = 200
  /\ \E b \in Load(t, w.service) :
       LET d == Gated(DetectDrift(w.groups, b)) IN
       /\ Remembered(r, b)
       /\ \/ /\ Answered(r, 200, d)
             /\ log' = [log EXCEPT ![t] = @ \cup {Entry(r, d)}]
          \/ /\ Answered(r, 500, Quiet)
             /\ UNCHANGED log
  /\ UNCHANGED <<now, store, counts, held>>

-----------------------------------------------------------------------------

Tick ==
  /\ now < MaxTime
  /\ now' = now + 1
  /\ UNCHANGED <<store, cache, counts, call, log, reply, basis, held>>

\* A baseline is uploaded by hand; the bucket removes one of 90 days.
Upload(s, b) ==
  /\ store[s] # b
  /\ store' = [store EXCEPT ![s] = b]
  /\ held' = [t \in Tasks |-> [held[t] EXCEPT ![s] = @ \cup {b}]]
  /\ UNCHANGED <<now, cache, counts, call, log, reply, basis>>

\* The calls of a task that goes: those it has not answered are cut.
Orphaned(t) ==
  [r \in Requests |->
     IF call[r].task # t THEN call[r]
     ELSE [call[r] EXCEPT !.task = NoTask,
                          !.phase = IF @ = "open" THEN "cut" ELSE @]]

\* Mutant: the cache survives its task, as it would on a volume.
RestartWarm(t) ==
  /\ counts' = [counts EXCEPT ![t] = NoCounts]
  /\ log' = [log EXCEPT ![t] = {}]
  /\ call' = Orphaned(t)
  /\ held' = [held EXCEPT ![t] = Stored]
  /\ UNCHANGED <<now, store, cache, reply, basis>>

\* A task is replaced: its memory and its disk are gone.
Restart(t) ==
  /\ cache' = [cache EXCEPT ![t] = <<>>]
  /\ counts' = [counts EXCEPT ![t] = NoCounts]
  /\ log' = [log EXCEPT ![t] = {}]
  /\ call' = Orphaned(t)
  /\ held' = [held EXCEPT ![t] = Stored]
  /\ UNCHANGED <<now, store, reply, basis>>

Next ==
  \/ Tick
  \/ \E s \in Services : \E b \in Baselines : Upload(s, b)
  \/ \E t \in Tasks : Restart(t)
  \/ \E r \in Requests :
       \/ \E t \in Tasks : Refuse(r, t) \/ Admit(r, t)
       \/ Reject(r) \/ Predict(r)

Spec == Init /\ [][Next]_vars

-----------------------------------------------------------------------------
(* Properties.                                                             *)

\* Calls of tenant n task t has admitted in the minute that ends at time.
InMinute(t, n, time) ==
  {r \in Requests : /\ call[r].task = t /\ TenantOf[r] = n
                    /\ call[r].phase \in {"open", "answered"}
                    /\ time - call[r].at \in 0..(Minute - 1)}

\* The limiter is exact, on each task: in no minute are more calls of a tenant
\* admitted than Limit, whenever the list was last pruned, and a call is
\* refused only when that many were admitted in the minute before it.
LimiterExact ==
  \A t \in Tasks : \A n \in Tenants \ {NoTenant} :
    /\ \A time \in 0..now : Cardinality(InMinute(t, n, time)) <= Limit
    /\ \A r \in Requests :
         call[r].phase = "refused" /\ call[r].task = t /\ TenantOf[r] = n =>
           Cardinality(InMinute(t, n, call[r].at)) = Limit

Predicted(r) == call[r].phase = "answered" /\ reply[r].code = 200

\* What the caller was answered is what the log says, for as long as the task
\* lives, also when the log fails for other calls.
AnswersLogged ==
  \A r \in Requests :
    Predicted(r) /\ call[r].task # NoTask =>
      Entry(r, reply[r]) \in log[call[r].task]

\* A restart refreshes: whatever the cache holds or has evicted, no answer of a
\* task rests on a baseline that was replaced in S3 before the task started.
RestartRefreshes ==
  \A r \in Requests :
    Predicted(r) /\ call[r].task # NoTask /\ basis[r] # NotLoaded =>
      basis[r] \in held[call[r].task][WindowOf[r].service] \cup {"absent"}

\* No drift is missed or made up: a window is anomalous exactly when one of its
\* groups, wherever it stands, has enough points and breaches its limit under
\* the baseline the answer was computed under.
AnomalyIffBreach ==
  \A r \in Requests :
    Predicted(r) =>
      LET groups == WindowOf[r].groups IN
      reply[r].anomaly <=>
        \E i \in 1..Len(groups) : Enough(groups[i]) /\ Breached(groups[i], basis[r])

Worker == INSTANCE PredictionDecision

\* The worker's reading of a 200: its checks pass, and an anomaly never ends up
\* as KEEP_ALIVE, whatever the gate does to its recommendation.
AnomaliesReachWorker ==
  \A r \in Requests :
    Predicted(r) =>
      /\ Worker!ValidReply(reply[r])
      /\ LET v == Worker!FromReply(Worker!Undecided, reply[r])
         IN v.anomaly <=> v.decision # "KEEP_ALIVE"
=============================================================================
