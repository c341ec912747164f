--------------------------- MODULE AIEngineProofs ---------------------------
(***************************************************************************)
(* Proofs about AIEngine for any tasks, calls, windows and baselines: what *)
(* a task answers is what it logs, rests on no baseline older than the     *)
(* task, reports exactly the drifts there are, and is read as such by the  *)
(* worker; and its limiter admits no call too many and refuses none        *)
(* without need.                                                           *)
(***************************************************************************)
EXTENDS AIEngine, FoldLemmas

-----------------------------------------------------------------------------
(* What detection and gate return.                                         *)

HasBreach(groups, known) ==
  \E i \in 1..Len(groups) : Enough(groups[i]) /\ Breached(groups[i], known)

\* Without a group of enough points no baseline matters.
LEMMA QuietWithoutLoad ==
  ASSUME NEW w, ~ Loads(w), NEW known
  PROVE  DetectDrift(w.groups, known) = Quiet
  BY DEF Loads, DetectDrift

\* A report of a drift is an anomaly and comes with a verb.
LEMMA ReportShape ==
  ASSUME NEW group, NEW known
  PROVE  /\ Report(group, known).anomaly = TRUE
         /\ Report(group, known).verb \in Worker!Verbs
<1>1. ForDrop(group.metric, group.sustained).verb \in Worker!Verbs
  BY DEF ForDrop, Worker!Verbs
<1>2. ASSUME NEW ratio PROVE ForRise(group.metric, ratio).verb \in Worker!Verbs
  BY DEF ForRise, Worker!Verbs
<1>. QED
  BY <1>1, <1>2 DEF Report, Decided

\* The shape of a decision: an anomaly comes with a verb, a quiet window
\* without one.
Shaped(d) ==
  /\ d = Decided(d.anomaly, d.severity, d.verb, d.confidence)
  /\ \/ d.anomaly = TRUE /\ d.verb \in Worker!Verbs
     \/ d.anomaly = FALSE /\ d.verb = "none"

\* Detection and gate flag an anomaly exactly when a group breaches its limit,
\* and then with a verb.
LEMMA DecisionShaped ==
  ASSUME NEW groups, NEW known
  PROVE  LET d == Gated(DetectDrift(groups, known)) IN
         Shaped(d) /\ (d.anomaly = TRUE <=> HasBreach(groups, known))
<1> DEFINE d == DetectDrift(groups, known)
<1>1. CASE HasBreach(groups, known)
  <2>1. \E group : d = Report(group, known)
    BY <1>1 DEF DetectDrift, HasBreach
  <2>2. d.anomaly = TRUE /\ d.verb \in Worker!Verbs
    BY <2>1, ReportShape
  <2>3. d = Decided(d.anomaly, d.severity, d.verb, d.confidence)
    BY <2>1 DEF Report, Decided
  <2>4. Shaped(Gated(d)) /\ Gated(d).anomaly = TRUE
    BY <2>2, <2>3 DEF Gated, Shaped, Decided, Worker!Verbs
  <2>. QED
    BY <1>1, <2>4
<1>2. CASE ~ HasBreach(groups, known)
  <2>1. d = Quiet
    BY <1>2 DEF DetectDrift, HasBreach
  <2>2. Gated(d) = Quiet
    BY <2>1 DEF Gated, Quiet, Decided
  <2>3. Shaped(Quiet) /\ Quiet.anomaly = FALSE
    BY DEF Shaped, Quiet, Decided
  <2>. QED
    BY <1>2, <2>2, <2>3
<1>. QED
  BY <1>1, <1>2

-----------------------------------------------------------------------------
(* The cache of a task.                                                    *)

\* A sequence without its element at i.
LEMMA Removed ==
  ASSUME NEW S, NEW q \in Seq(S), NEW i \in 1..Len(q)
  PROVE  /\ RemoveAt(q, i) \in Seq(S)
         /\ Len(RemoveAt(q, i)) = Len(q) - 1
         /\ \A j \in 1..(Len(q) - 1) :
              RemoveAt(q, i)[j] = IF j < i THEN q[j] ELSE q[j + 1]
<1> DEFINE front == SubSeq(q, 1, i - 1)
           back == SubSeq(q, i + 1, Len(q))
<1>1. /\ front \in Seq(S) /\ Len(front) = i - 1
      /\ \A j \in 1..(i - 1) : front[j] = q[j]
  OBVIOUS
<1>2. /\ back \in Seq(S) /\ Len(back) = Len(q) - i
      /\ \A j \in 1..(Len(q) - i) : back[j] = q[i + j]
  OBVIOUS
<1>. HIDE DEF front, back
<1>0. Len(q) \in Nat /\ i \in Int /\ 1 <= i /\ i <= Len(q)
  OBVIOUS
<1>a. front \o back \in Seq(S) /\ Len(front \o back) = Len(q) - 1
  <2>0. ASSUME NEW f \in Seq(S), NEW g \in Seq(S)
        PROVE  f \o g \in Seq(S) /\ Len(f \o g) = Len(f) + Len(g)
    OBVIOUS
  <2>1. front \o back \in Seq(S) /\ Len(front \o back) = Len(front) + Len(back)
    BY <1>1, <1>2, <2>0
  <2>. QED
    BY <1>0, <1>1, <1>2, <2>1
<1>b. \A j \in 1..(Len(q) - 1) :
        (front \o back)[j] = IF j < i THEN front[j] ELSE back[j - (i - 1)]
  <2>1. ASSUME NEW f \in Seq(S), NEW g \in Seq(S), NEW j \in 1..(Len(f) + Len(g))
        PROVE  (f \o g)[j] = IF j <= Len(f) THEN f[j] ELSE g[j - Len(f)]
    OBVIOUS
  <2>2. \A j \in 1..(Len(q) - 1) :
          (front \o back)[j] = IF j <= i - 1 THEN front[j] ELSE back[j - (i - 1)]
    BY <1>0, <1>1, <1>2, <2>1
  <2>3. \A j \in 1..(Len(q) - 1) : j <= i - 1 <=> j < i
    BY <1>0
  <2>. QED
    BY <2>2, <2>3, Zenon
<1>3. /\ front \o back \in Seq(S) /\ Len(front \o back) = Len(q) - 1
      /\ \A j \in 1..(Len(q) - 1) :
           (front \o back)[j] = IF j < i THEN front[j] ELSE back[j - (i - 1)]
  BY <1>a, <1>b
<1>4. ASSUME NEW j \in 1..(Len(q) - 1)
      PROVE  (front \o back)[j] = IF j < i THEN q[j] ELSE q[j + 1]
  <2>1. CASE j < i
    BY <1>1, <1>3, <2>1
  <2>2. CASE ~ (j < i)
    <3>1. j - (i - 1) \in 1..(Len(q) - i) /\ i + (j - (i - 1)) = j + 1
      BY <2>2
    <3>. QED
      BY <1>2, <1>3, <2>2, <3>1
  <2>. QED
    BY <2>1, <2>2
<1>. QED
  BY <1>3, <1>4 DEF RemoveAt, front, back

Entries == [service : Services, baseline : Baselines]

\* A cache that has no service twice, and no baseline but those given.
Sound(q, known) ==
  /\ q \in Seq(Entries)
  /\ Len(q) <= CacheSize
  /\ \A i, j \in 1..Len(q) : q[i].service = q[j].service => i = j
  /\ \A i \in 1..Len(q) : q[i].baseline \in known[q[i].service] \cup {"absent"}

\* What is left of a sound cache when one place is freed.
LEMMA RemovedSound ==
  ASSUME NEW known, NEW q, Sound(q, known), NEW k \in 1..Len(q)
  PROVE  LET p == RemoveAt(q, k) IN
         /\ Sound(p, known) /\ Len(p) = Len(q) - 1
         /\ \A j \in 1..Len(p) : \E i \in 1..Len(q) : i # k /\ p[j] = q[i]
<1> DEFINE p == RemoveAt(q, k)
           at(j) == IF j < k THEN j ELSE j + 1
<1>1. /\ q \in Seq(Entries) /\ Len(q) \in Nat /\ Len(q) <= CacheSize
      /\ CacheSize \in Nat
  BY EngineAssumption DEF Sound
<1>2. /\ p \in Seq(Entries) /\ Len(p) = Len(q) - 1
      /\ \A j \in 1..Len(p) : p[j] = IF j < k THEN q[j] ELSE q[j + 1]
  BY <1>1, Removed
<1>. HIDE DEF p
<1>3. \A j \in 1..Len(p) : at(j) \in 1..Len(q) /\ at(j) # k /\ p[j] = q[at(j)]
  BY <1>1, <1>2
<1>4. \A i, j \in 1..Len(p) : at(i) = at(j) => i = j
  BY <1>1, <1>2
<1>. HIDE DEF at
<1>5. \A i, j \in 1..Len(p) : p[i].service = p[j].service => i = j
  BY <1>3, <1>4 DEF Sound
<1>6. \A i \in 1..Len(p) : p[i].baseline \in known[p[i].service] \cup {"absent"}
  BY <1>3 DEF Sound
<1>. QED
  BY <1>1, <1>2, <1>3, <1>5, <1>6 DEF Sound, p

\* The place that is freed leaves room, and none for the service itself.
LEMMA FreedSound ==
  ASSUME NEW known, NEW t, NEW s, Sound(cache[t], known)
  PROVE  LET p == Freed(t, s) IN
         /\ Sound(p, known) /\ Len(p) < CacheSize
         /\ \A j \in 1..Len(p) : p[j].service # s
<1> DEFINE q == cache[t]
<1>1. Len(q) \in Nat /\ Len(q) <= CacheSize /\ CacheSize \in Nat \ {0}
  BY EngineAssumption DEF Sound
<1>2. CASE Place(t, s) # {}
  <2>1. PICK k \in Place(t, s) : Freed(t, s) = RemoveAt(q, k)
    BY <1>2 DEF Freed
  <2>2. k \in 1..Len(q) /\ q[k].service = s
    BY <2>1 DEF Place
  <2>3. LET p == RemoveAt(q, k) IN
        /\ Sound(p, known) /\ Len(p) = Len(q) - 1
        /\ \A j \in 1..Len(p) : \E i \in 1..Len(q) : i # k /\ p[j] = q[i]
    BY <2>2, RemovedSound
  <2>4. \A i \in 1..Len(q) : i # k => q[i].service # s
    BY <2>2 DEF Sound
  <2>. HIDE DEF q
  <2>5. \A j \in 1..Len(RemoveAt(q, k)) : RemoveAt(q, k)[j].service # s
    BY <2>3, <2>4
  <2>6. Len(RemoveAt(q, k)) < CacheSize
    BY <1>1, <2>3
  <2>. QED
    BY <2>1, <2>3, <2>5, <2>6
<1>3. CASE Place(t, s) = {} /\ Len(q) = CacheSize
  <2>1. PICK k \in 1..Len(q) : Freed(t, s) = RemoveAt(q, k)
    BY <1>1, <1>3 DEF Freed
  <2>2. LET p == RemoveAt(q, k) IN
        /\ Sound(p, known) /\ Len(p) = Len(q) - 1
        /\ \A j \in 1..Len(p) : \E i \in 1..Len(q) : i # k /\ p[j] = q[i]
    BY <2>1, RemovedSound
  <2>3. \A i \in 1..Len(q) : q[i].service # s
    BY <1>3 DEF Place
  <2>. HIDE DEF q
  <2>4. \A j \in 1..Len(RemoveAt(q, k)) : RemoveAt(q, k)[j].service # s
    BY <2>2, <2>3
  <2>5. Len(RemoveAt(q, k)) < CacheSize
    BY <1>1, <2>2
  <2>. QED
    BY <2>1, <2>2, <2>4, <2>5
<1>4. CASE Place(t, s) = {} /\ Len(q) # CacheSize
  <2>1. Freed(t, s) = q
    BY <1>4 DEF Freed
  <2>2. \A i \in 1..Len(q) : q[i].service # s
    BY <1>4 DEF Place
  <2>. QED
    BY <1>1, <1>4, <2>1, <2>2
<1>. QED
  BY <1>2, <1>3, <1>4

\* One entry more, of another service and a known baseline.
LEMMA AppendSound ==
  ASSUME NEW known, NEW p, Sound(p, known), Len(p) < CacheSize,
         NEW e \in Entries, e.baseline \in known[e.service] \cup {"absent"},
         \A j \in 1..Len(p) : p[j].service # e.service
  PROVE  Sound(Append(p, e), known)
<1>1. /\ p \in Seq(Entries) /\ Len(p) \in Nat /\ CacheSize \in Nat
  BY EngineAssumption DEF Sound
<1>2. /\ Append(p, e) \in Seq(Entries) /\ Len(Append(p, e)) = Len(p) + 1
      /\ Append(p, e)[Len(p) + 1] = e
      /\ \A j \in 1..Len(p) : Append(p, e)[j] = p[j]
  BY <1>1
<1>3. PICK d : d = Append(p, e)
  OBVIOUS
<1>4. /\ d \in Seq(Entries) /\ Len(d) = Len(p) + 1 /\ d[Len(p) + 1] = e
      /\ \A j \in 1..Len(p) : d[j] = p[j]
  BY <1>2, <1>3
<1>5. \A j \in 1..Len(d) : j = Len(p) + 1 \/ j \in 1..Len(p)
  BY <1>1, <1>4
<1>6. ASSUME NEW i \in 1..Len(d), NEW j \in 1..Len(d), d[i].service = d[j].service
      PROVE  i = j
  <2>1. CASE i \in 1..Len(p) /\ j \in 1..Len(p)
    BY <1>4, <1>6, <2>1 DEF Sound
  <2>2. CASE i \in 1..Len(p) /\ j = Len(p) + 1
    BY <1>4, <1>6, <2>2
  <2>3. CASE i = Len(p) + 1 /\ j \in 1..Len(p)
    BY <1>4, <1>6, <2>3
  <2>. QED
    BY <1>5, <2>1, <2>2, <2>3
<1>7. ASSUME NEW i \in 1..Len(d)
      PROVE  d[i].baseline \in known[d[i].service] \cup {"absent"}
  <2>1. CASE i \in 1..Len(p)
    BY <1>4, <2>1 DEF Sound
  <2>. QED
    BY <1>4, <1>5, <2>1
<1>8. Len(d) <= CacheSize
  BY <1>1, <1>4
<1>. QED
  BY <1>3, <1>4, <1>6, <1>7, <1>8 DEF Sound

-----------------------------------------------------------------------------
(* The inductive invariant.                                                *)

Typed ==
  /\ now \in 0..MaxTime
  /\ store \in [Services -> Baselines]
  /\ DOMAIN cache = Tasks
  /\ call \in [Requests -> [phase : Phases, task : Tasks \cup {NoTask}, at : 0..MaxTime]]
  /\ DOMAIN log = Tasks
  /\ DOMAIN reply = Requests
  /\ basis \in [Requests -> Baselines \cup {NotLoaded}]
  /\ held \in [Tasks -> [Services -> SUBSET Baselines]]

\* A call that waits for its answer is on a task.
OpenOnTask ==
  \A r \in Requests : call[r].phase = "open" => call[r].task \in Tasks

\* A task knows what S3 holds, and caches nothing S3 has not held in its time.
CachesHeld ==
  \A t \in Tasks :
    /\ \A s \in Services : store[s] \in held[t][s]
    /\ Sound(cache[t], held[t])

\* A call that has no answer rests on no baseline yet.
FreshBasis ==
  \A r \in Requests : call[r].phase \in {"new", "open"} => basis[r] = NotLoaded

\* What detection and gate make of the window of a call.
Computed(r, known) == Gated(DetectDrift(WindowOf[r].groups, known))

\* An answer was computed, under the baseline it is said to rest on.
AnswersComputed ==
  \A r \in Requests :
    Predicted(r) => reply[r] = Response(200, Computed(r, basis[r]))

IInv ==
  /\ Typed
  /\ OpenOnTask
  /\ CachesHeld
  /\ FreshBasis
  /\ AnswersComputed
  /\ RestartRefreshes
  /\ AnswersLogged

LEMMA InitIInv == Init => IInv
<1> SUFFICES ASSUME Init PROVE IInv
  OBVIOUS
<1>1. \A r \in Requests : call[r].phase = "new"
  BY DEF Init
<1>2. Typed
  BY EngineAssumption DEF Init, Typed, Stored, Phases
<1>3. \A r \in Requests : ~ Predicted(r) /\ call[r].phase # "open"
  BY <1>1 DEF Predicted
<1>4. CachesHeld
  <2>1. \A t \in Tasks : cache[t] = <<>> /\ held[t] = Stored
    BY DEF Init
  <2>2. ASSUME NEW known PROVE Sound(<<>>, known)
    BY EngineAssumption DEF Sound
  <2>3. \A s \in Services : store[s] \in Stored[s]
    BY DEF Stored
  <2>. QED
    BY <2>1, <2>2, <2>3 DEF CachesHeld
<1>. QED
  BY <1>2, <1>3, <1>4 DEF IInv, Init, OpenOnTask, FreshBasis, AnswersComputed,
                         RestartRefreshes, AnswersLogged

-----------------------------------------------------------------------------
(* Each action preserves it.                                               *)

\* A step that changes neither an answer nor the task of an answered call, and
\* forgets nothing S3 has held, keeps what the invariant says of answers.
LEMMA AnswersFramed ==
  ASSUME IInv, UNCHANGED <<log, basis>>,
         \A t \in Tasks, s \in Services : held[t][s] \subseteq held'[t][s],
         \A r \in Requests :
           Predicted(r)' => /\ Predicted(r)
                            /\ reply'[r] = reply[r]
                            /\ call'[r].task = call[r].task
  PROVE  AnswersComputed' /\ RestartRefreshes' /\ AnswersLogged'
<1>1. AnswersComputed'
  BY DEF IInv, AnswersComputed, Computed
<1>2. AnswersLogged'
  BY DEF IInv, AnswersLogged
<1>3. RestartRefreshes'
  <2> SUFFICES ASSUME NEW r \in Requests, Predicted(r)', call'[r].task # NoTask,
                      basis'[r] # NotLoaded
               PROVE  basis'[r] \in held'[call'[r].task][WindowOf[r].service] \cup {"absent"}
    BY DEF RestartRefreshes
  <2>1. /\ Predicted(r) /\ call'[r].task = call[r].task /\ basis[r] # NotLoaded
        /\ call[r].task \in Tasks /\ WindowOf[r].service \in Services
    BY BaselineAssumption DEF IInv, Typed
  <2>2. basis[r] \in held[call[r].task][WindowOf[r].service] \cup {"absent"}
    BY <2>1 DEF IInv, RestartRefreshes
  <2>. QED
    BY <2>1, <2>2
<1>. QED
  BY <1>1, <1>2, <1>3

\* A step that leaves caches and baselines alone.
LEMMA CachesFramed ==
  ASSUME IInv, UNCHANGED <<store, cache, held>>
  PROVE  CachesHeld'
  BY DEF IInv, CachesHeld, Sound

\* A call refused by the limiter changes no answer.
LEMMA RefuseStep ==
  ASSUME IInv, NEW r \in Requests, NEW t \in Tasks, Refuse(r, t)
  PROVE  IInv'
<1>1. Typed' /\ OpenOnTask'
  BY DEF IInv, Typed, OpenOnTask, Refuse, Moved, Phases
<1>2. \A q \in Requests :
        Predicted(q)' => /\ Predicted(q)
                         /\ reply'[q] = reply[q]
                         /\ call'[q].task = call[q].task
  BY DEF IInv, Typed, Refuse, Moved, Predicted
<1>3. UNCHANGED <<store, cache, log, basis, held>>
  BY DEF Refuse
<1>f. FreshBasis'
  BY DEF IInv, Typed, FreshBasis, Refuse, Moved
<1>. QED
  BY <1>1, <1>2, <1>3, <1>f, AnswersFramed, CachesFramed DEF IInv

\* A call admitted by the limiter has no answer yet.
LEMMA AdmitStep ==
  ASSUME IInv, NEW r \in Requests, NEW t \in Tasks, Admit(r, t)
  PROVE  IInv'
<1>0. call' = [call EXCEPT ![r] = [phase |-> "open", task |-> t, at |-> now]]
  BY DEF IInv, Typed, Admit, Moved
<1>1. Typed'
  <2>1. call' \in [Requests -> [phase : Phases, task : Tasks \cup {NoTask}, at : 0..MaxTime]]
    BY <1>0 DEF IInv, Typed, Phases
  <2>. QED
    BY <2>1 DEF IInv, Typed, Admit
<1>o. OpenOnTask'
  BY <1>0 DEF IInv, Typed, OpenOnTask
<1>2. \A q \in Requests :
        Predicted(q)' => /\ Predicted(q)
                         /\ reply'[q] = reply[q]
                         /\ call'[q].task = call[q].task
  <2>1. reply' = reply
    BY DEF Admit
  <2>. QED
    BY <1>0, <2>1 DEF IInv, Typed, Predicted
<1>3. UNCHANGED <<store, cache, log, basis, held>>
  BY DEF Admit
<1>f. FreshBasis'
  BY DEF IInv, Typed, FreshBasis, Admit, Moved
<1>. QED
  BY <1>1, <1>o, <1>2, <1>3, <1>f, AnswersFramed, CachesFramed DEF IInv

\* A call refused by the checks has none either.
LEMMA RejectStep ==
  ASSUME IInv, NEW r \in Requests, Reject(r)
  PROVE  IInv'
<1>0. /\ call' = [call EXCEPT ![r].phase = "answered"]
      /\ reply' = [reply EXCEPT ![r] = Response(Checked(r), Quiet)]
      /\ Response(Checked(r), Quiet).code # 200
  BY DEF Reject, Answered, Response
<1>1. Typed' /\ OpenOnTask'
  BY <1>0 DEF IInv, Typed, OpenOnTask, Reject, Phases
<1>2. \A q \in Requests :
        Predicted(q)' => /\ Predicted(q)
                         /\ reply'[q] = reply[q]
                         /\ call'[q].task = call[q].task
  BY <1>0 DEF IInv, Typed, Predicted
<1>3. UNCHANGED <<store, cache, log, basis, held>>
  BY DEF Reject
<1>f. FreshBasis'
  BY DEF IInv, Typed, FreshBasis, Reject, Answered
<1>. QED
  BY <1>1, <1>2, <1>3, <1>f, AnswersFramed, CachesFramed DEF IInv

\* What load_baseline returns, S3 has held, or it is none; using it keeps the
\* cache sound.
LEMMA LoadSound ==
  ASSUME IInv, NEW t \in Tasks, NEW s \in Services, NEW b \in Load(t, s)
  PROVE  /\ b \in Baselines
         /\ b \in held[t][s] \cup {"absent"}
         /\ Sound(Used(t, s, b), held[t])
<1>1. /\ Sound(cache[t], held[t]) /\ store[s] \in held[t][s]
      /\ store[s] \in Baselines /\ "absent" \in Baselines
  BY EngineAssumption DEF IInv, CachesHeld, Typed
<1>2. b \in held[t][s] \cup {"absent"} /\ b \in Baselines
  <2>1. CASE Place(t, s) = {}
    BY <1>1, <2>1 DEF Load
  <2>2. CASE Place(t, s) # {}
    <3>1. PICK i \in Place(t, s) : b = cache[t][i].baseline
      BY <2>2 DEF Load
    <3>2. i \in 1..Len(cache[t]) /\ cache[t][i].service = s
      BY <3>1 DEF Place
    <3>3. cache[t][i] \in Entries
      BY <1>1, <3>2 DEF Sound
    <3>. QED
      BY <1>1, <3>1, <3>2, <3>3 DEF Sound, Entries
  <2>. QED
    BY <2>1, <2>2
<1>3. LET p == Freed(t, s) IN
      /\ Sound(p, held[t]) /\ Len(p) < CacheSize
      /\ \A j \in 1..Len(p) : p[j].service # s
  BY <1>1, FreedSound
<1> DEFINE e == [service |-> s, baseline |-> b]
<1>4. e \in Entries /\ e.service = s /\ e.baseline = b
  BY <1>2 DEF Entries
<1>. HIDE DEF e
<1>5. Sound(Append(Freed(t, s), e), held[t])
  BY <1>2, <1>3, <1>4, AppendSound
<1>. QED
  BY <1>2, <1>5 DEF Used, e

\* Predict: the new answer is computed from what the task has cached or what
\* S3 holds now, and its entry is in the log.
LEMMA PredictStep ==
  ASSUME IInv, NEW r \in Requests, Predict(r)
  PROVE  IInv'
<1> DEFINE t == call[r].task
           s == WindowOf[r].service
<1>1. /\ t \in Tasks /\ s \in Services /\ t # NoTask
      /\ call[r].phase = "open"
  BY EngineAssumption, BaselineAssumption DEF IInv, OpenOnTask, Predict
<1>2. PICK b \in Load(t, s) :
        /\ Remembered(r, b)
        /\ \/ /\ Answered(r, 200, Computed(r, b))
              /\ log' = [log EXCEPT ![t] = @ \cup {Entry(r, Computed(r, b))}]
           \/ /\ Answered(r, 500, Quiet)
              /\ UNCHANGED log
  BY DEF Predict, Computed
<1>3. /\ b \in Baselines /\ b \in held[t][s] \cup {"absent"}
      /\ Sound(Used(t, s, b), held[t])
  BY <1>1, LoadSound
<1>4. call' = [call EXCEPT ![r].phase = "answered"]
  BY <1>2 DEF Answered
<1>5. UNCHANGED <<now, store, held>>
  BY DEF Predict
<1>a. \/ reply' = [reply EXCEPT ![r] = Response(200, Computed(r, b))]
      \/ reply' = [reply EXCEPT ![r] = Response(500, Quiet)]
  BY <1>2 DEF Answered
<1>l. \/ log' = [log EXCEPT ![t] = @ \cup {Entry(r, Computed(r, b))}]
      \/ log' = log
  BY <1>2
<1>r. \/ /\ Loads(WindowOf[r])
         /\ cache' = [cache EXCEPT ![t] = Used(t, s, b)]
         /\ basis' = [basis EXCEPT ![r] = b]
      \/ ~ Loads(WindowOf[r]) /\ UNCHANGED <<cache, basis>>
  BY <1>2 DEF Remembered
<1>6. /\ DOMAIN reply' = Requests /\ DOMAIN log' = Tasks
      /\ \A q \in Requests \ {r} : reply'[q] = reply[q]
      /\ \A u \in Tasks : log[u] \subseteq log'[u]
  <2>1. DOMAIN reply' = Requests /\ \A q \in Requests \ {r} : reply'[q] = reply[q]
    BY <1>a DEF IInv, Typed
  <2>2. DOMAIN log' = Tasks /\ \A u \in Tasks : log[u] \subseteq log'[u]
    BY <1>l, <1>1 DEF IInv, Typed
  <2>. QED
    BY <2>1, <2>2
<1>7. /\ DOMAIN cache' = Tasks
      /\ basis' \in [Requests -> Baselines \cup {NotLoaded}]
      /\ \A q \in Requests \ {r} : basis'[q] = basis[q]
  <2>1. DOMAIN cache' = Tasks
    BY <1>r DEF IInv, Typed
  <2>2. basis' = basis \/ basis' = [basis EXCEPT ![r] = b]
    BY <1>r
  <2>. QED
    BY <1>3, <2>1, <2>2 DEF IInv, Typed
<1>8. Typed' /\ OpenOnTask'
  <2>1. /\ call' \in [Requests -> [phase : Phases, task : Tasks \cup {NoTask}, at : 0..MaxTime]]
        /\ OpenOnTask'
    BY <1>4 DEF IInv, Typed, OpenOnTask, Phases
  <2>. QED
    BY <1>5, <1>6, <1>7, <2>1 DEF IInv, Typed
<1>9. CachesHeld'
  <2>1. ASSUME NEW u \in Tasks PROVE cache'[u] = cache[u] \/ (u = t /\ cache'[u] = Used(t, s, b))
    BY <1>1, <1>r DEF IInv, Typed
  <2>2. \A u \in Tasks : Sound(cache[u], held[u])
    BY DEF IInv, CachesHeld
  <2>3. \A u \in Tasks : Sound(cache'[u], held[u])
    BY <1>3, <2>1, <2>2
  <2>4. \A u \in Tasks, v \in Services : store'[v] \in held'[u][v]
    BY <1>5 DEF IInv, CachesHeld
  <2>. QED
    BY <1>5, <2>3, <2>4 DEF CachesHeld, Sound
<1>10. \A q \in Requests \ {r} :
         /\ Predicted(q)' <=> Predicted(q)
         /\ call'[q] = call[q]
  BY <1>4, <1>6 DEF IInv, Typed, Predicted
<1>11. Predicted(r)' =>
         /\ reply'[r] = Response(200, Computed(r, b))
         /\ Entry(r, Computed(r, b)) \in log'[t]
  <2>1. CASE /\ Answered(r, 200, Computed(r, b))
             /\ log' = [log EXCEPT ![t] = @ \cup {Entry(r, Computed(r, b))}]
    BY <2>1, <1>1 DEF Answered, IInv, Typed
  <2>2. CASE Answered(r, 500, Quiet)
    <3>1. reply'[r] = Response(500, Quiet) /\ Response(500, Quiet).code # 200
      BY <2>2 DEF Answered, Response, IInv, Typed
    <3>. QED
      BY <3>1 DEF Predicted
  <2>. QED
    BY <1>2, <2>1, <2>2
<1>12. call'[r].task = t
  BY <1>4 DEF IInv, Typed
<1>n. call[r].phase = "open" /\ ~ Predicted(r)
  BY <1>1 DEF Predicted
<1>13. AnswersComputed'
  <2> SUFFICES ASSUME NEW q \in Requests, Predicted(q)'
               PROVE  reply'[q] = Response(200, Computed(q, basis'[q]))
    BY DEF AnswersComputed, Computed
  <2>1. CASE q # r
    BY <2>1, <1>6, <1>7, <1>10 DEF IInv, AnswersComputed
  <2>2. CASE q = r /\ Loads(WindowOf[r])
    <3>1. basis'[r] = b
      BY <1>r, <2>2 DEF IInv, Typed
    <3>. QED
      BY <1>11, <2>2, <3>1
  <2>3. CASE q = r /\ ~ Loads(WindowOf[r])
    <3>1. \A k : Computed(r, k) = Gated(Quiet)
      BY <2>3, QuietWithoutLoad DEF Computed
    <3>. QED
      BY <1>11, <2>3, <3>1
  <2>. QED
    BY <2>1, <2>2, <2>3
<1>14. RestartRefreshes'
  <2> SUFFICES ASSUME NEW q \in Requests, Predicted(q)', call'[q].task # NoTask,
                      basis'[q] # NotLoaded
               PROVE  basis'[q] \in held'[call'[q].task][WindowOf[q].service] \cup {"absent"}
    BY DEF RestartRefreshes
  <2>1. CASE q # r
    BY <2>1, <1>5, <1>7, <1>10 DEF IInv, RestartRefreshes
  <2>2. CASE q = r /\ Loads(WindowOf[r])
    <3>1. basis'[r] = b
      BY <1>r, <2>2 DEF IInv, Typed
    <3>. QED
      BY <1>3, <1>5, <1>12, <2>2, <3>1
  <2>3. CASE q = r /\ ~ Loads(WindowOf[r])
    <3>1. basis'[r] = basis[r]
      BY <1>r, <2>3
    <3>2. basis[r] = NotLoaded
      BY <1>n DEF IInv, FreshBasis
    <3>. QED
      BY <2>3, <3>1, <3>2
  <2>. QED
    BY <2>1, <2>2, <2>3
<1>15. AnswersLogged'
  <2> SUFFICES ASSUME NEW q \in Requests, Predicted(q)', call'[q].task # NoTask
               PROVE  Entry(q, reply'[q]) \in log'[call'[q].task]
    BY DEF AnswersLogged, Entry
  <2>1. CASE q = r
    <3>1. Entry(r, Response(200, Computed(r, b))) = Entry(r, Computed(r, b))
      BY DEF Entry, Response
    <3>. QED
      BY <2>1, <3>1, <1>11, <1>12
  <2>2. CASE q # r
    <3>1. /\ Predicted(q) /\ call'[q].task = call[q].task
          /\ call[q].task \in Tasks /\ call[q].task # NoTask
          /\ reply'[q] = reply[q]
      BY <2>2, <1>6, <1>10 DEF IInv, Typed
    <3>2. Entry(q, reply[q]) \in log[call[q].task]
      BY <3>1 DEF IInv, AnswersLogged
    <3>. QED
      BY <3>1, <3>2, <1>6
  <2>. QED
    BY <2>1, <2>2
<1>f. FreshBasis'
  BY <1>4, <1>7, <1>10, <1>1 DEF IInv, FreshBasis, Typed
<1>. QED
  BY <1>8, <1>9, <1>13, <1>14, <1>15, <1>f DEF IInv

\* Time changes no answer.
LEMMA TickStep ==
  ASSUME IInv, Tick
  PROVE  IInv'
<1>1. Typed' /\ OpenOnTask'
  BY EngineAssumption DEF IInv, Typed, OpenOnTask, Tick
<1>. QED
  BY <1>1, AnswersFramed, CachesFramed DEF IInv, FreshBasis, Tick, Predicted

\* A new baseline in S3 changes no cache and no answer given.
LEMMA UploadStep ==
  ASSUME IInv, NEW s \in Services, NEW b \in Baselines, Upload(s, b)
  PROVE  IInv'
<1>1. /\ UNCHANGED <<now, cache, counts, call, log, reply, basis>>
      /\ store' = [store EXCEPT ![s] = b]
      /\ held' = [t \in Tasks |-> [held[t] EXCEPT ![s] = @ \cup {b}]]
  BY DEF Upload
<1>2. /\ held' \in [Tasks -> [Services -> SUBSET Baselines]]
      /\ \A t \in Tasks, v \in Services :
           held'[t][v] = IF v = s THEN held[t][v] \cup {b} ELSE held[t][v]
  BY <1>1 DEF IInv, Typed
<1>3. Typed' /\ OpenOnTask'
  BY <1>1, <1>2 DEF IInv, Typed, OpenOnTask
<1>4. CachesHeld'
  <2> SUFFICES ASSUME NEW t \in Tasks
               PROVE  /\ \A v \in Services : store'[v] \in held'[t][v]
                      /\ Sound(cache[t], held'[t])
    BY <1>1 DEF CachesHeld, Sound
  <2>1. \A v \in Services : store'[v] \in held'[t][v]
    BY <1>1, <1>2 DEF IInv, Typed, CachesHeld
  <2>2. Sound(cache[t], held[t])
    BY DEF IInv, CachesHeld
  <2>3. \A i \in 1..Len(cache[t]) :
          /\ cache[t][i].service \in Services
          /\ cache[t][i].baseline \in held[t][cache[t][i].service] \cup {"absent"}
    <3>1. \A i \in 1..Len(cache[t]) : cache[t][i] \in Entries
      BY <2>2 DEF Sound
    <3>. QED
      BY <2>2, <3>1 DEF Sound, Entries
  <2>4. \A i \in 1..Len(cache[t]) :
          cache[t][i].baseline \in held'[t][cache[t][i].service] \cup {"absent"}
    BY <1>2, <2>3
  <2>. QED
    BY <2>1, <2>2, <2>4 DEF Sound
<1>5. \A t \in Tasks, v \in Services : held[t][v] \subseteq held'[t][v]
  BY <1>2
<1>6. \A r \in Requests : Predicted(r)' <=> Predicted(r)
  BY <1>1 DEF Predicted
<1>7. AnswersComputed' /\ RestartRefreshes' /\ AnswersLogged'
  BY <1>1, <1>5, <1>6, AnswersFramed
<1>8. FreshBasis'
  BY <1>1 DEF IInv, FreshBasis
<1>. QED
  BY <1>3, <1>4, <1>7, <1>8 DEF IInv

\* Restart: the answers of the task are no longer a living task's, and it
\* starts from what S3 holds now.
LEMMA RestartStep ==
  ASSUME IInv, NEW t \in Tasks, Restart(t)
  PROVE  IInv'
<1>1. \A r \in Requests :
        /\ call[r].task = t =>
             /\ call'[r].task = NoTask
             /\ call'[r].phase = IF call[r].phase = "open" THEN "cut" ELSE call[r].phase
             /\ call'[r].at = call[r].at
        /\ call[r].task # t => call'[r] = call[r]
  BY DEF IInv, Typed, Restart, Orphaned
<1>2. call' \in [Requests -> [phase : Phases, task : Tasks \cup {NoTask}, at : 0..MaxTime]]
  BY DEF IInv, Typed, Restart, Orphaned, Phases
<1>3. Typed'
  BY <1>2 DEF IInv, Typed, Restart, Stored
<1>c. CachesHeld'
  <2>1. /\ cache'[t] = <<>> /\ held'[t] = Stored
        /\ \A u \in Tasks \ {t} : cache'[u] = cache[u] /\ held'[u] = held[u]
        /\ store' = store
    BY DEF IInv, Typed, Restart
  <2>2. ASSUME NEW known PROVE Sound(<<>>, known)
    BY EngineAssumption DEF Sound
  <2>3. \A s \in Services : store[s] \in Stored[s]
    BY DEF Stored
  <2>4. \A u \in Tasks : Sound(cache'[u], held'[u]) /\ \A s \in Services : store'[s] \in held'[u][s]
    BY <2>1, <2>2, <2>3 DEF IInv, CachesHeld
  <2>. QED
    BY <2>4 DEF CachesHeld, Sound
<1>4. ASSUME NEW r \in Requests
      PROVE  /\ call'[r].phase = "open" => call'[r].task \in Tasks
             /\ call'[r].phase = "answered" => call[r].phase = "answered"
             /\ call'[r].phase \in {"new", "open"} => call[r].phase \in {"new", "open"}
  <2>1. CASE call[r].task = t /\ call[r].phase = "open"
    BY <2>1, <1>1
  <2>2. CASE call[r].task = t /\ call[r].phase # "open"
    BY <2>2, <1>1
  <2>3. CASE call[r].task # t
    BY <2>3, <1>1 DEF IInv, OpenOnTask
  <2>. QED
    BY <2>1, <2>2, <2>3
<1>5. \A r \in Requests :
        Predicted(r)' => Predicted(r) /\ reply'[r] = reply[r] /\ basis'[r] = basis[r]
  BY <1>4 DEF Predicted, Restart
<1>6. \A r \in Requests :
        call'[r].task # NoTask =>
          /\ call'[r].task = call[r].task /\ call[r].task \in Tasks \ {t}
          /\ held'[call[r].task] = held[call[r].task]
          /\ log'[call[r].task] = log[call[r].task]
  BY <1>1 DEF IInv, Typed, Restart
<1>7. AnswersComputed'
  BY <1>5 DEF IInv, AnswersComputed, Computed
<1>8. RestartRefreshes'
  BY <1>5, <1>6 DEF IInv, RestartRefreshes
<1>9. AnswersLogged'
  BY <1>5, <1>6 DEF IInv, AnswersLogged
<1>10. FreshBasis'
  BY <1>4 DEF IInv, FreshBasis, Restart
<1>. QED
  BY <1>3, <1>c, <1>4, <1>7, <1>8, <1>9, <1>10 DEF IInv, OpenOnTask

LEMMA NextIInv == IInv /\ [Next]_vars => IInv'
<1> SUFFICES ASSUME IInv, [Next]_vars PROVE IInv'
  OBVIOUS
<1>1. CASE Tick
  BY <1>1, TickStep
<1>2. CASE \E s \in Services : \E b \in Baselines : Upload(s, b)
  BY <1>2, UploadStep
<1>3. CASE \E t \in Tasks : Restart(t)
  BY <1>3, RestartStep
<1>4. ASSUME NEW r \in Requests,
             \/ \E t \in Tasks : Refuse(r, t) \/ Admit(r, t)
             \/ Reject(r) \/ Predict(r)
      PROVE  IInv'
  BY <1>4, RefuseStep, AdmitStep, RejectStep, PredictStep
<1>5. CASE UNCHANGED vars
  <2>1. UNCHANGED <<now, store, cache, counts, call, log, reply, basis, held>>
    BY <1>5 DEF vars
  <2>2. Typed' /\ OpenOnTask' /\ FreshBasis'
    BY <2>1 DEF IInv, Typed, OpenOnTask, FreshBasis
  <2>3. \A r \in Requests : Predicted(r)' <=> Predicted(r)
    BY <2>1 DEF Predicted
  <2>. QED
    BY <2>1, <2>2, <2>3, AnswersFramed, CachesFramed DEF IInv
<1>. QED
  BY <1>1, <1>2, <1>3, <1>4, <1>5 DEF Next

\* IInv holds throughout, whatever restarts, uploads and failing reads do.
THEOREM Invariance == Spec => []IInv
<1>1. Init => IInv
  BY InitIInv
<1>2. IInv /\ [Next]_vars => IInv'
  BY NextIInv
<1>. QED
  BY <1>1, <1>2, PTL DEF Spec

-----------------------------------------------------------------------------

\* As long as a task lives, its log says what it has answered
\* (AuditLogger.log_decision before the return of predict_capacity).
THEOREM LogsWhatItAnswers == Spec => []AnswersLogged
<1>1. IInv => AnswersLogged
  BY DEF IInv
<1>. QED
  BY <1>1, Invariance, PTL

\* A task answers under no baseline that S3 replaced before the task started,
\* whatever its cache holds, evicts or failed to read (load_baseline and its
\* lru_cache, which ends with the container).
THEOREM Refreshed == Spec => []RestartRefreshes
<1>1. IInv => RestartRefreshes
  BY DEF IInv
<1>. QED
  BY <1>1, Invariance, PTL

\* An answer is an anomaly exactly when some group breaches its limit under
\* the baseline it was computed under (the loop of detect_drift and its skips).
THEOREM NoDriftMissed == Spec => []AnomalyIffBreach
<1>1. IInv => AnomalyIffBreach
  <2> SUFFICES ASSUME IInv, NEW r \in Requests, Predicted(r)
               PROVE  reply[r].anomaly <=> HasBreach(WindowOf[r].groups, basis[r])
    BY DEF AnomalyIffBreach, HasBreach
  <2> DEFINE d == Computed(r, basis[r])
  <2>1. reply[r] = Response(200, d)
    BY DEF IInv, AnswersComputed
  <2>2. Shaped(d) /\ (d.anomaly = TRUE <=> HasBreach(WindowOf[r].groups, basis[r]))
    BY DecisionShaped DEF Computed
  <2>3. d.anomaly \in BOOLEAN
    BY <2>2 DEF Shaped
  <2>4. reply[r].anomaly = d.anomaly
    BY <2>1 DEF Response
  <2>. QED
    BY <2>2, <2>3, <2>4
<1>. QED
  BY <1>1, Invariance, PTL

\* The worker accepts every answer, and reads an anomaly as something to do
\* (the checks of process_job, app.py:398-437, against predict_capacity).
THEOREM WorkerReadsAnomalies == Spec => []AnomaliesReachWorker
<1>1. IInv => AnomaliesReachWorker
  <2> SUFFICES ASSUME IInv, NEW r \in Requests, Predicted(r)
               PROVE  /\ Worker!ValidReply(reply[r])
                      /\ LET v == Worker!FromReply(Worker!Undecided, reply[r])
                         IN v.anomaly <=> v.decision # "KEEP_ALIVE"
    BY DEF AnomaliesReachWorker
  <2> DEFINE d == Computed(r, basis[r])
  <2>1. reply[r] = Response(200, d)
    BY DEF IInv, AnswersComputed
  <2>2. Shaped(d)
    BY DecisionShaped DEF Computed
  <2>3. /\ reply[r].code = 200 /\ reply[r].wellFormed = TRUE
        /\ reply[r].anomaly = d.anomaly /\ reply[r].verb = d.verb
    BY <2>1 DEF Response
  <2>4. Worker!ValidReply(reply[r])
    BY <2>2, <2>3 DEF Shaped, Worker!ValidReply
  <2>5. LET v == Worker!FromReply(Worker!Undecided, reply[r]) IN
        /\ v.anomaly = d.anomaly
        /\ v.decision = IF d.verb = "none" THEN "KEEP_ALIVE" ELSE d.verb
    BY <2>3 DEF Worker!FromReply, Worker!Undecided
  <2>6. "KEEP_ALIVE" \notin Worker!Verbs /\ "none" \notin Worker!Verbs
    BY DEF Worker!Verbs
  <2>. QED
    BY <2>2, <2>4, <2>5, <2>6 DEF Shaped
<1>. QED
  BY <1>1, Invariance, PTL

-----------------------------------------------------------------------------
(* The list of the limiter.                                                *)

\* The first k admissions of a list that are not before a.
Later(c, k, a) == {i \in 1..k : c[i] >= a}

\* One more position: at or after the instant, or not.
LEMMA LaterGrows ==
  ASSUME NEW c, NEW k \in Nat, NEW a
  PROVE  /\ IsFiniteSet(Later(c, k, a)) /\ Cardinality(Later(c, k, a)) \in Nat
         /\ c[k + 1] >= a =>
              Cardinality(Later(c, k + 1, a)) = Cardinality(Later(c, k, a)) + 1
         /\ ~ (c[k + 1] >= a) =>
              Cardinality(Later(c, k + 1, a)) = Cardinality(Later(c, k, a))
<1> DEFINE L == Later(c, k, a)
<1>1. IsFiniteSet(L) /\ Cardinality(L) \in Nat
  <2>1. IsFiniteSet(1..k)
    BY FS_Interval
  <2>2. L \subseteq 1..k
    BY DEF Later
  <2>. QED
    BY <2>1, <2>2, FS_Subset, FS_CardinalityType
<1>2. k + 1 \notin L
  BY DEF Later
<1>3. c[k + 1] >= a => Later(c, k + 1, a) = L \cup {k + 1}
  BY DEF Later
<1>4. ~ (c[k + 1] >= a) => Later(c, k + 1, a) = L
  BY DEF Later
<1>. HIDE DEF L
<1>5. Cardinality(L \cup {k + 1}) = Cardinality(L) + 1
  BY <1>1, <1>2, FS_AddElement
<1>. QED
  BY <1>1, <1>3, <1>4, <1>5 DEF L

\* One admission more at the end of a list.
LEMMA LaterAppend ==
  ASSUME NEW c \in Seq(Nat), NEW x \in Nat, NEW a \in Int
  PROVE  LET d == Append(c, x) IN
         /\ Cardinality(Later(c, Len(c), a)) \in Nat
         /\ x >= a => Cardinality(Later(d, Len(d), a)) = Cardinality(Later(c, Len(c), a)) + 1
         /\ x < a => Cardinality(Later(d, Len(d), a)) = Cardinality(Later(c, Len(c), a))
<1> DEFINE d == Append(c, x)
           k == Len(c)
<1>1. k \in Nat /\ Len(d) = k + 1 /\ d[k + 1] = x /\ \A i \in 1..k : d[i] = c[i]
  OBVIOUS
<1>. HIDE DEF d, k
<1>2. Later(d, k, a) = Later(c, k, a)
  BY <1>1 DEF Later
<1>3. /\ Cardinality(Later(d, k, a)) \in Nat
      /\ x >= a => Cardinality(Later(d, k + 1, a)) = Cardinality(Later(d, k, a)) + 1
      /\ ~ (x >= a) => Cardinality(Later(d, k + 1, a)) = Cardinality(Later(d, k, a))
  BY <1>1, LaterGrows
<1>4. x < a => ~ (x >= a)
  OBVIOUS
<1>. QED
  BY <1>1, <1>2, <1>3, <1>4 DEF d, k

\* g[k] is what the comprehension has kept after k admissions of list c.
Keeps(g, t, n) ==
  LET c == counts[t][n] IN
  /\ g[0] = <<>>
  /\ \A k \in 1..Len(c) : g[k] = Keep(g[k - 1], c[k])
  /\ Recent(t, n) = g[Len(c)]

\* The comprehension goes from one admission to the next.
LEMMA RecentFolds ==
  ASSUME NEW t, NEW n, counts[t][n] \in Seq(Nat)
  PROVE  \E g : Keeps(g, t, n)
<1> DEFINE c == counts[t][n]
           m == Len(c)
           step == [x \in Seq(Nat) \X Nat |-> IF x[2] \in 1..m THEN Keep(x[1], c[x[2]]) ELSE x[1]]
           next(f) == [S \in SUBSET (1..m) |->
                         IF S = {} THEN <<>> ELSE Keep(f[S \ {Max(S)}], c[Max(S)])]
           f == CHOOSE f : f = next(f)
<1>. HIDE DEF c
<1>1. m \in Nat /\ DOMAIN c = 1..m /\ \A i \in 1..m : c[i] \in Nat
  BY DEF c
<1>2. Recent(t, n) = f[1..m]
  <2>1. Recent(t, n) = FoldLeft(LAMBDA kept, at : Keep(kept, at), <<>>, c)
    BY DEF Recent, c
  <2>. QED
    BY <1>1, <2>1 DEF FoldLeft, MapThenFoldSet
<1>3. <<>> \in Seq(Nat)
  OBVIOUS
<1>4. step \in [Seq(Nat) \X Nat -> Seq(Nat)]
  <2>1. ASSUME NEW kept \in Seq(Nat), NEW at \in Nat PROVE Keep(kept, at) \in Seq(Nat)
    BY DEF Keep
  <2>. QED
    BY <1>1, <2>1
<1>. HIDE DEF m
<1>5. \E h : h = next(h)
  <2>1. PICK h \in [SUBSET (1..m) -> Seq(Nat)] : Folds(h, m, <<>>, step)
    <3>. HIDE DEF step
    <3>. QED
      BY <1>1, <1>3, <1>4, FoldExists
  <2>2. ASSUME NEW S \in SUBSET (1..m), S # {}
        PROVE  h[S] = Keep(h[S \ {Max(S)}], c[Max(S)])
    <3>1. Max(S) \in 1..m /\ Max(S) \in Nat /\ S \ {Max(S)} \in SUBSET (1..m)
      BY <1>1, <2>2, MaxFrom1
    <3>2. h[S \ {Max(S)}] \in Seq(Nat)
      BY <2>1, <3>1, Zenon
    <3>3. step[<<h[S \ {Max(S)}], Max(S)>>] = Keep(h[S \ {Max(S)}], c[Max(S)])
      BY <3>1, <3>2
    <3>. QED
      BY <2>1, <2>2, <3>3 DEF Folds
  <2>3. h[{}] = <<>>
    BY <2>1 DEF Folds
  <2>. QED
    BY <2>2, <2>3
<1>6. f = next(f)
  <2>. HIDE DEF next
  <2>. QED
    BY <1>5, Zenon
<1>. HIDE DEF f
<1>7. \A S \in SUBSET (1..m) :
        f[S] = IF S = {} THEN <<>> ELSE Keep(f[S \ {Max(S)}], c[Max(S)])
  BY <1>6
<1>. HIDE DEF next
<1> DEFINE g == [k \in 0..m |-> f[1..k]]
<1>8. g[0] = <<>>
  <2>1. 1..0 = {} /\ 0 \in 0..m
    BY <1>1
  <2>. QED
    BY <1>7, <2>1
<1>9. ASSUME NEW k \in 1..m PROVE g[k] = Keep(g[k - 1], c[k])
  <2>1. /\ k - 1 \in 0..m /\ 1..k \in SUBSET (1..m) /\ 1..k # {}
        /\ Max(1..k) = k /\ (1..k) \ {Max(1..k)} = 1..(k - 1)
    BY <1>1, PrefixOf
  <2>2. k \in 0..m
    BY <1>1
  <2>3. f[1..k] = Keep(f[1..(k - 1)], c[k])
    BY <1>7, <2>1
  <2>. QED
    BY <2>1, <2>2, <2>3
<1>10. g[m] = f[1..m]
  BY <1>1
<1>. HIDE DEF g
<1>. QED
  BY <1>2, <1>8, <1>9, <1>10 DEF Keeps, m, c

\* A list of admissions, none of them to come, in their order.
Listed(c) ==
  /\ c \in Seq(Nat)
  /\ \A i \in 1..Len(c) : c[i] <= now
  /\ \A i, j \in 1..Len(c) : i <= j => c[i] <= c[j]

\* Recent keeps the admissions that are less than a minute old, in their order.
LEMMA RecentIs ==
  ASSUME NEW t, NEW n, now \in Nat, Listed(counts[t][n])
  PROVE  LET c == counts[t][n]
             R == Recent(t, n) IN
         /\ Listed(R)
         /\ \A i \in 1..Len(R) : now - R[i] < Minute
         /\ \A a \in (now - Minute + 1)..now :
              Cardinality(Later(R, Len(R), a)) = Cardinality(Later(c, Len(c), a))
<1> DEFINE c == counts[t][n]
           m == Len(c)
<1>1. /\ m \in Nat /\ c \in Seq(Nat) /\ \A i \in 1..m : c[i] \in Nat /\ c[i] <= now
      /\ \A i, j \in 1..m : i <= j => c[i] <= c[j]
  <2>1. c \in Seq(Nat)
    BY DEF Listed
  <2>. QED
    BY <2>1 DEF Listed
<1>0. Minute \in Nat
  BY EngineAssumption
<1>p. PICK g : Keeps(g, t, n)
  BY <1>1, RecentFolds
<1>2. /\ g[0] = <<>> /\ Recent(t, n) = g[m]
      /\ \A k \in 1..m : g[k] = Keep(g[k - 1], c[k])
  BY <1>p DEF Keeps
<1> DEFINE Q(k) ==
             /\ Listed(g[k])
             /\ \A i \in 1..Len(g[k]) : /\ now - g[k][i] < Minute
                                        /\ \E j \in 1..k : g[k][i] = c[j]
             /\ \A a \in (now - Minute + 1)..now :
                  Cardinality(Later(g[k], Len(g[k]), a)) = Cardinality(Later(c, k, a))
           S == {k \in Nat : k <= m => Q(k)}
<1>. HIDE DEF c, m
<1>3. 0 \in S
  <2>1. Len(g[0]) = 0 /\ Listed(g[0])
    BY <1>2 DEF Listed
  <2>2. \A a : Later(g[0], 0, a) = {} /\ Later(c, 0, a) = {}
    BY DEF Later
  <2>3. \A a : Cardinality(Later(g[0], Len(g[0]), a)) = Cardinality(Later(c, 0, a))
    BY <2>1, <2>2
  <2>4. Q(0)
    BY <2>1, <2>3
  <2>. HIDE DEF Q
  <2>. QED
    BY <2>4
<1>4. ASSUME NEW k \in Nat, k \in S PROVE k + 1 \in S
  <2>. HIDE DEF Q
  <2>1. SUFFICES ASSUME k + 1 <= m PROVE Q(k + 1)
    OBVIOUS
  <2>2. Q(k)
    <3>1. k <= m
      BY <1>1, <2>1
    <3>. QED
      BY <1>4, <3>1
  <2> DEFINE p == g[k]
             x == c[k + 1]
  <2>3. k + 1 \in 1..m /\ (k + 1) - 1 = k /\ x \in Nat /\ x <= now
    BY <1>1, <2>1
  <2>4. g[k + 1] = Keep(p, x)
    BY <1>2, <2>3
  <2>5. /\ Listed(p)
        /\ \A i \in 1..Len(p) : now - p[i] < Minute /\ \E j \in 1..k : p[i] = c[j]
        /\ \A a \in (now - Minute + 1)..now :
             Cardinality(Later(p, Len(p), a)) = Cardinality(Later(c, k, a))
    BY <2>2 DEF Q
  <2>6. /\ p \in Seq(Nat) /\ Len(p) \in Nat
        /\ \A i \in 1..Len(p) : p[i] <= now
        /\ \A i, j \in 1..Len(p) : i <= j => p[i] <= p[j]
    BY <2>5 DEF Listed
  <2>7. \A i \in 1..Len(p) : p[i] <= x
    <3>1. \A j \in 1..k : j \in 1..m /\ j <= k + 1
      BY <1>1, <2>1
    <3>2. \A j \in 1..k : c[j] <= x
      BY <1>1, <2>3, <3>1
    <3>. QED
      BY <2>5, <3>2
  <2>8. \A i \in 1..Len(p) : \E j \in 1..(k + 1) : p[i] = c[j]
    BY <2>5
  <2>9. \A a \in Int : /\ Cardinality(Later(c, k, a)) \in Nat
                       /\ x >= a => Cardinality(Later(c, k + 1, a)) = Cardinality(Later(c, k, a)) + 1
                       /\ ~ (x >= a) => Cardinality(Later(c, k + 1, a)) = Cardinality(Later(c, k, a))
    BY LaterGrows
  <2>. HIDE DEF p, x
  <2>10. CASE now - x < Minute
    <3> DEFINE d == Append(p, x)
    <3>1. g[k + 1] = d
      BY <2>4, <2>10 DEF Keep
    <3>2. /\ d \in Seq(Nat) /\ Len(d) = Len(p) + 1 /\ d[Len(p) + 1] = x
          /\ \A i \in 1..Len(p) : d[i] = p[i]
      BY <2>3, <2>6
    <3>3. ASSUME NEW a \in (now - Minute + 1)..now
          PROVE  Cardinality(Later(d, Len(d), a)) = Cardinality(Later(c, k + 1, a))
      <4>1. a \in Int
        BY <1>0
      <4>2. Cardinality(Later(p, Len(p), a)) = Cardinality(Later(c, k, a))
        BY <2>5
      <4>3. /\ x >= a => Cardinality(Later(d, Len(d), a)) = Cardinality(Later(p, Len(p), a)) + 1
            /\ x < a => Cardinality(Later(d, Len(d), a)) = Cardinality(Later(p, Len(p), a))
        BY <2>3, <2>6, <4>1, LaterAppend
      <4>4. x >= a \/ (x < a /\ ~ (x >= a))
        BY <2>3, <4>1
      <4>. QED
        BY <2>9, <4>1, <4>2, <4>3, <4>4
    <3>. HIDE DEF d
    <3>4. \A i \in 1..Len(d) : i = Len(p) + 1 \/ i \in 1..Len(p)
      BY <2>6, <3>2
    <3>5. Listed(d)
      <4>1. \A i \in 1..Len(d) : d[i] <= now
        BY <2>3, <2>6, <3>2, <3>4
      <4>2. ASSUME NEW i \in 1..Len(d), NEW j \in 1..Len(d), i <= j PROVE d[i] <= d[j]
        <5>1. CASE j = Len(p) + 1
          <6>1. d[j] = x /\ (d[i] = x \/ (i \in 1..Len(p) /\ d[i] = p[i]))
            BY <3>2, <3>4, <5>1
          <6>. QED
            BY <2>3, <2>7, <6>1
        <5>2. CASE j \in 1..Len(p)
          <6>1. i \in 1..Len(p)
            BY <2>6, <4>2, <5>2
          <6>. QED
            BY <2>6, <3>2, <4>2, <5>2, <6>1
        <5>. QED
          BY <3>4, <5>1, <5>2
      <4>. QED
        BY <3>2, <4>1, <4>2 DEF Listed
    <3>6. ASSUME NEW i \in 1..Len(d)
          PROVE  now - d[i] < Minute /\ \E j \in 1..(k + 1) : d[i] = c[j]
      <4>1. CASE i = Len(p) + 1
        <5>1. k + 1 \in 1..(k + 1) /\ d[i] = c[k + 1] /\ d[i] = x
          BY <3>2, <4>1 DEF x
        <5>. QED
          BY <2>10, <5>1
      <4>2. CASE i \in 1..Len(p)
        BY <2>5, <2>8, <3>2, <4>2
      <4>. QED
        BY <3>4, <4>1, <4>2
    <3>. QED
      BY <3>1, <3>3, <3>5, <3>6 DEF Q
  <2>11. CASE ~ (now - x < Minute)
    <3>1. g[k + 1] = p
      BY <2>4, <2>11 DEF Keep
    <3>2. ASSUME NEW a \in (now - Minute + 1)..now
          PROVE  Cardinality(Later(p, Len(p), a)) = Cardinality(Later(c, k + 1, a))
      <4>1. a \in Int /\ ~ (x >= a)
        BY <1>0, <2>3, <2>11
      <4>. QED
        BY <2>5, <2>9, <4>1
    <3>. QED
      BY <2>5, <2>8, <3>1, <3>2 DEF Q
  <2>. QED
    BY <2>10, <2>11
<1>5. Q(m)
  <2>. HIDE DEF Q
  <2>1. Nat \subseteq S
    <3>. HIDE DEF S
    <3>. QED
      BY <1>3, <1>4, NatInduct
  <2>2. m \in S
    BY <1>1, <2>1
  <2>. QED
    BY <1>1, <2>2
<1>. QED
  BY <1>2, <1>5 DEF c, m

-----------------------------------------------------------------------------
(* The limiter: what its lists say of the calls it has admitted.           *)

On(r, t) == call[r].task = t /\ call[r].phase \in {"open", "answered"}
Turned(r, t) == call[r].task = t /\ call[r].phase = "refused"

\* Calls of tenant n that task t has admitted, not before a.
Since(t, n, a) == {r \in Requests : TenantOf[r] = n /\ On(r, t) /\ call[r].at >= a}

\* Of the minute that ends now, the list has every admission.
Counted(t, n) ==
  \A a \in (now - Minute + 1)..now :
    Cardinality(Since(t, n, a)) = Cardinality(Later(counts[t][n], Len(counts[t][n]), a))

Bounded(t, n) == \A time \in 0..now : Cardinality(InMinute(t, n, time)) <= Limit

Justified(t, n) ==
  \A r \in Requests : Turned(r, t) /\ TenantOf[r] = n =>
    Cardinality(InMinute(t, n, call[r].at)) = Limit

Limited(t, n) ==
  /\ Listed(counts[t][n]) /\ Len(counts[t][n]) <= Limit
  /\ n # NoTenant => Counted(t, n) /\ Bounded(t, n) /\ Justified(t, n)

\* The inductive invariant of the limiter.
LInv ==
  /\ counts \in [Tasks -> [Tenants -> Seq(Nat)]]
  /\ \A r \in Requests : call[r].at <= now
  /\ \A t \in Tasks, n \in Tenants : Limited(t, n)

\* The calls of a tenant at a task since an instant can be counted.
LEMMA SetsFinite ==
  ASSUME NEW t, NEW n, NEW a
  PROVE  /\ IsFiniteSet(Since(t, n, a)) /\ Cardinality(Since(t, n, a)) \in Nat
         /\ IsFiniteSet(InMinute(t, n, a)) /\ Cardinality(InMinute(t, n, a)) \in Nat
<1>1. Since(t, n, a) \subseteq Requests /\ InMinute(t, n, a) \subseteq Requests
  BY DEF Since, InMinute
<1>. QED
  BY <1>1, EngineAssumption, FS_Subset, FS_CardinalityType

\* The list of Recent is as long as the minute that ends now has admissions.
LEMMA RecentCounts ==
  ASSUME IInv, LInv, NEW t \in Tasks, NEW n \in Tenants
  PROVE  LET R == Recent(t, n) IN
         /\ now \in Nat /\ Minute \in Nat \ {0} /\ Limit \in Nat \ {0}
         /\ Listed(R) /\ Len(R) \in Nat
         /\ n # NoTenant =>
              /\ Cardinality(InMinute(t, n, now)) = Len(R)
              /\ \A a \in (now - Minute + 1)..now :
                   Cardinality(Since(t, n, a)) = Cardinality(Later(R, Len(R), a))
<1> DEFINE R == Recent(t, n)
           c == counts[t][n]
           low == now - Minute + 1
<1>1. now \in Nat /\ Minute \in Nat \ {0} /\ Limit \in Nat \ {0}
  BY EngineAssumption DEF IInv, Typed
<1>2. Listed(c)
  BY DEF LInv, Limited
<1>3. /\ Listed(R)
      /\ \A i \in 1..Len(R) : now - R[i] < Minute
      /\ \A a \in low..now : Cardinality(Later(R, Len(R), a)) = Cardinality(Later(c, Len(c), a))
  BY <1>1, <1>2, RecentIs
<1>. HIDE DEF R
<1>4. R \in Seq(Nat) /\ Len(R) \in Nat /\ \A i \in 1..Len(R) : R[i] \in Nat
  <2>1. R \in Seq(Nat)
    BY <1>3 DEF Listed
  <2>. QED
    BY <2>1
<1>5. ASSUME n # NoTenant
      PROVE  \A a \in low..now : Cardinality(Since(t, n, a)) = Cardinality(Later(R, Len(R), a))
  BY <1>3, <1>5 DEF LInv, Limited, Counted
<1>6. Cardinality(Later(R, Len(R), low)) = Len(R)
  <2>1. Later(R, Len(R), low) = 1..Len(R)
    BY <1>1, <1>3, <1>4 DEF Later
  <2>2. ASSUME NEW k \in Nat PROVE Cardinality(1..k) = k
    BY FS_Interval
  <2>. QED
    BY <1>4, <2>1, <2>2, Zenon
<1>7. InMinute(t, n, now) = Since(t, n, low)
  <2>1. \A r \in Requests : call[r].at \in Nat /\ call[r].at <= now
    BY DEF IInv, Typed, LInv
  <2>2. \A r \in Requests : now - call[r].at \in 0..(Minute - 1) <=> call[r].at >= low
    BY <1>1, <2>1
  <2>. QED
    BY <2>2 DEF InMinute, Since, On
<1>8. low \in low..now
  BY <1>1
<1>. HIDE DEF low
<1>. QED
  BY <1>1, <1>3, <1>4, <1>5, <1>6, <1>7, <1>8 DEF R, low

\* What a step leaves as it was for tenant n on task t.
Same(t, n) ==
  \A r \in Requests : TenantOf[r] = n =>
    /\ On(r, t)' <=> On(r, t)
    /\ Turned(r, t)' <=> Turned(r, t)
    /\ On(r, t) \/ Turned(r, t) => call'[r].at = call[r].at

\* A step that moves no call of the tenant at the task moves none of the counts.
LEMMA SameSets ==
  ASSUME NEW t, NEW n, Same(t, n)
  PROVE  /\ \A a : Since(t, n, a)' = Since(t, n, a)
         /\ \A time : InMinute(t, n, time)' = InMinute(t, n, time)
<1>1. ASSUME NEW a PROVE Since(t, n, a)' = Since(t, n, a)
  BY DEF Same, Since
<1>2. ASSUME NEW time PROVE InMinute(t, n, time)' = InMinute(t, n, time)
  BY DEF Same, InMinute, On
<1>. QED
  BY <1>1, <1>2

\* Such a step keeps what the limiter knows of them.
LEMMA LimitedFramed ==
  ASSUME LInv, NEW t \in Tasks, NEW n \in Tenants, Same(t, n),
         now' = now, counts'[t][n] = counts[t][n]
  PROVE  Limited(t, n)'
<1>1. Limited(t, n)
  BY DEF LInv
<1>2. Listed(counts[t][n])' /\ (Len(counts[t][n]) <= Limit)'
  BY <1>1 DEF Limited, Listed
<1>3. CASE n # NoTenant
  <2>1. Counted(t, n)'
    <3>1. \A a : Since(t, n, a)' = Since(t, n, a)
      BY SameSets
    <3>. QED
      BY <1>1, <1>3, <3>1 DEF Limited, Counted, Later
  <2>2. \A time : InMinute(t, n, time)' = InMinute(t, n, time)
    BY SameSets
  <2>3. Bounded(t, n)'
    BY <1>1, <1>3, <2>2 DEF Limited, Bounded
  <2>4. Justified(t, n)'
    <3>. SUFFICES ASSUME NEW r \in Requests, Turned(r, t)', TenantOf[r] = n
                  PROVE  Cardinality(InMinute(t, n, call[r].at)') = Limit
      BY DEF Justified
    <3>1. Turned(r, t) /\ call'[r].at = call[r].at
      BY DEF Same
    <3>. QED
      BY <1>1, <1>3, <2>2, <3>1 DEF Limited, Justified
  <2>. QED
    BY <1>2, <2>1, <2>3, <2>4 DEF Limited
<1>. QED
  BY <1>2, <1>3 DEF Limited

-----------------------------------------------------------------------------
(* Each action preserves it.                                               *)

\* A task that has no call and no list.
Empty(t, n) ==
  counts[t][n] = <<>> /\ \A r \in Requests : ~ On(r, t) /\ ~ Turned(r, t)

\* A task without a call of the tenant limits it correctly.
LEMMA EmptyLimited == \A t, n : Empty(t, n) => Limited(t, n)
<1>. SUFFICES ASSUME NEW t, NEW n, counts[t][n] = <<>>,
                     \A r \in Requests : ~ On(r, t) /\ ~ Turned(r, t)
              PROVE  Limited(t, n)
  BY DEF Empty
<1>1. \A a : Since(t, n, a) = {} /\ InMinute(t, n, a) = {}
  BY DEF Since, InMinute, On
<1>2. \A a : Later(<<>>, 0, a) = {}
  BY DEF Later
<1>3. Len(counts[t][n]) = 0
  OBVIOUS
<1>4. Counted(t, n)
  BY <1>1, <1>2, <1>3 DEF Counted
<1>5. Bounded(t, n)
  BY <1>1, EngineAssumption, FS_EmptySet DEF Bounded
<1>6. Justified(t, n)
  BY DEF Justified
<1>7. Listed(counts[t][n]) /\ Len(counts[t][n]) <= Limit
  BY EngineAssumption DEF Listed
<1>. QED
  BY <1>4, <1>5, <1>6, <1>7 DEF Limited

\* The same after a step, for a task that has restarted.
LEMMA EmptyLimitedNext == (\A t, n : Empty(t, n) => Limited(t, n))'
  BY EmptyLimited, PTL

\* At the start no task has seen a call.
LEMMA InitLInv == Init => LInv
<1>. SUFFICES ASSUME Init PROVE LInv
  OBVIOUS
<1>1. /\ counts \in [Tasks -> [Tenants -> Seq(Nat)]]
      /\ \A t \in Tasks, n \in Tenants : counts[t][n] = <<>>
  BY DEF Init, NoCounts
<1>2. now = 0 /\ \A r \in Requests : call[r].phase = "new" /\ call[r].at = 0
  BY DEF Init
<1>3. \A t \in Tasks, r \in Requests : ~ On(r, t) /\ ~ Turned(r, t)
  BY <1>2 DEF On, Turned
<1>. QED
  BY <1>1, <1>2, <1>3, EmptyLimited DEF LInv, Empty

\* A step that admits and refuses no call, and keeps the lists.
LEMMA LInvFramed ==
  ASSUME LInv, now' = now, counts' = counts,
         \A t \in Tasks, n \in Tenants : Same(t, n),
         \A r \in Requests : call'[r].at = call[r].at
  PROVE  LInv'
<1>1. \A t \in Tasks, n \in Tenants : Limited(t, n)'
  BY LimitedFramed
<1>. QED
  BY <1>1 DEF LInv

\* Refuse prunes the list, which loses nothing that counts, and refuses only
\* when the minute is full.
LEMMA RefuseLimits ==
  ASSUME IInv, LInv, NEW r \in Requests, NEW t \in Tasks, Refuse(r, t)
  PROVE  LInv'
<1> DEFINE n == TenantOf[r]
           R == Recent(t, n)
<1>1. /\ n \in Tenants /\ n # NoTenant /\ call[r].phase = "new"
      /\ now' = now /\ counts' = [counts EXCEPT ![t][n] = R]
      /\ call' = [call EXCEPT ![r] = [phase |-> "refused", task |-> t, at |-> now]]
      /\ Len(R) >= Limit
  BY DEF Refuse, Full, Moved, Tenants
<1>2. /\ now \in Nat /\ Limit \in Nat /\ Listed(R) /\ Len(R) \in Nat
      /\ Cardinality(InMinute(t, n, now)) = Len(R)
      /\ \A a \in (now - Minute + 1)..now :
           Cardinality(Since(t, n, a)) = Cardinality(Later(R, Len(R), a))
  BY <1>1, RecentCounts
<1>. HIDE DEF R, n
<1>3. Len(R) = Limit
  <2>1. Cardinality(InMinute(t, n, now)) <= Limit
    BY <1>1, <1>2 DEF LInv, Limited, Bounded
  <2>. QED
    BY <1>1, <1>2, <2>1
<1>4. /\ \A q \in Requests \ {r} : call'[q] = call[q]
      /\ call'[r].phase = "refused" /\ call'[r].task = t /\ call'[r].at = now
  BY <1>1 DEF IInv, Typed
<1>5. /\ counts' \in [Tasks -> [Tenants -> Seq(Nat)]] /\ counts'[t][n] = R
      /\ \A u \in Tasks, m \in Tenants : u # t \/ m # n => counts'[u][m] = counts[u][m]
  BY <1>1, <1>2 DEF LInv, Listed
<1>6. \A q \in Requests, u \in Tasks : On(q, u)' <=> On(q, u)
  BY <1>1, <1>4 DEF On
<1>7. \A q \in Requests, u \in Tasks :
        /\ q # r => (Turned(q, u)' <=> Turned(q, u)) /\ call'[q].at = call[q].at
        /\ ~ On(r, u) /\ ~ Turned(r, u) /\ (Turned(r, u)' <=> u = t)
  BY <1>1, <1>4 DEF On, Turned
<1>8. ASSUME NEW u \in Tasks, NEW m \in Tenants, u # t \/ m # n PROVE Limited(u, m)'
  <2>1. Same(u, m)
    BY <1>6, <1>7, <1>8 DEF Same, n
  <2>. QED
    BY <1>1, <1>5, <1>8, <2>1, LimitedFramed
<1>9. Limited(t, n)'
  <2>1. \A a : Since(t, n, a)' = Since(t, n, a)
    <3>. SUFFICES ASSUME NEW a PROVE Since(t, n, a)' = Since(t, n, a)
      OBVIOUS
    <3>. QED
      BY <1>6, <1>7 DEF Since
  <2>2. \A time : InMinute(t, n, time)' = InMinute(t, n, time)
    <3>. SUFFICES ASSUME NEW time PROVE InMinute(t, n, time)' = InMinute(t, n, time)
      OBVIOUS
    <3>. QED
      BY <1>6, <1>7 DEF InMinute, On
  <2>3. Listed(counts[t][n])' /\ (Len(counts[t][n]) <= Limit)'
    BY <1>1, <1>2, <1>3, <1>5 DEF Listed
  <2>4. Counted(t, n)'
    BY <1>1, <1>2, <1>5, <2>1 DEF Counted, Later
  <2>5. Bounded(t, n)'
    BY <1>1, <2>2 DEF LInv, Limited, Bounded
  <2>6. Justified(t, n)'
    <3>. SUFFICES ASSUME NEW q \in Requests, Turned(q, t)', TenantOf[q] = n
                  PROVE  Cardinality(InMinute(t, n, call[q].at)') = Limit
      BY DEF Justified
    <3>1. CASE q = r
      BY <1>2, <1>3, <1>4, <2>2, <3>1
    <3>2. CASE q # r
      BY <1>1, <1>7, <2>2, <3>2 DEF LInv, Limited, Justified
    <3>. QED
      BY <3>1, <3>2
  <2>. QED
    BY <2>3, <2>4, <2>5, <2>6 DEF Limited
<1>10. \A q \in Requests : call'[q].at <= now'
  BY <1>1, <1>2, <1>4 DEF LInv
<1>. QED
  BY <1>1, <1>5, <1>8, <1>9, <1>10 DEF LInv

\* Admit lets a call in only when the minute that ends now has room.
LEMMA AdmitLimits ==
  ASSUME IInv, LInv, NEW r \in Requests, NEW t \in Tasks, Admit(r, t)
  PROVE  LInv'
<1> DEFINE n == TenantOf[r]
           R == Recent(t, n)
<1>1. /\ n \in Tenants /\ call[r].phase = "new" /\ now' = now
      /\ call' = [call EXCEPT ![r] = [phase |-> "open", task |-> t, at |-> now]]
      /\ n = NoTenant => counts' = counts
      /\ n # NoTenant => ~ (Len(R) >= Limit) /\ counts' = [counts EXCEPT ![t][n] = Append(R, now)]
  BY DEF Admit, Full, Moved, Tenants
<1>2. /\ now \in Nat /\ Minute \in Nat \ {0} /\ Limit \in Nat /\ Listed(R) /\ Len(R) \in Nat
      /\ n # NoTenant =>
           /\ Cardinality(InMinute(t, n, now)) = Len(R)
           /\ \A a \in (now - Minute + 1)..now :
                Cardinality(Since(t, n, a)) = Cardinality(Later(R, Len(R), a))
  BY <1>1, RecentCounts
<1>. HIDE DEF R, n
<1>r. R \in Seq(Nat)
  BY <1>2 DEF Listed
<1>4. /\ \A q \in Requests \ {r} : call'[q] = call[q]
      /\ call'[r].phase = "open" /\ call'[r].task = t /\ call'[r].at = now
  BY <1>1 DEF IInv, Typed
<1>5. /\ counts' \in [Tasks -> [Tenants -> Seq(Nat)]]
      /\ n # NoTenant => counts'[t][n] = Append(R, now)
      /\ n = NoTenant => counts'[t][n] = counts[t][n]
      /\ \A u \in Tasks, m \in Tenants : u # t \/ m # n => counts'[u][m] = counts[u][m]
  <2>1. CASE n = NoTenant
    BY <1>1, <2>1 DEF LInv
  <2>2. CASE n # NoTenant
    <3>1. Append(R, now) \in Seq(Nat)
      BY <1>2, <1>r
    <3>2. counts' = [counts EXCEPT ![t][n] = Append(R, now)]
      BY <1>1, <2>2
    <3>3. counts \in [Tasks -> [Tenants -> Seq(Nat)]]
      BY DEF LInv
    <3>. HIDE DEF R
    <3>4. counts' \in [Tasks -> [Tenants -> Seq(Nat)]]
      BY <1>1, <3>1, <3>2, <3>3
    <3>5. counts'[t][n] = Append(R, now)
      BY <1>1, <3>2, <3>3
    <3>6. \A u \in Tasks, m \in Tenants : u # t \/ m # n => counts'[u][m] = counts[u][m]
      BY <3>2, <3>3
    <3>. QED
      BY <2>2, <3>4, <3>5, <3>6
  <2>. QED
    BY <2>1, <2>2
<1>6. \A q \in Requests, u \in Tasks :
        /\ q # r => (On(q, u)' <=> On(q, u)) /\ call'[q].at = call[q].at
        /\ ~ On(r, u) /\ ~ Turned(r, u) /\ (On(r, u)' <=> u = t)
  BY <1>1, <1>4 DEF On, Turned
<1>7. \A q \in Requests, u \in Tasks : Turned(q, u)' <=> Turned(q, u)
  BY <1>1, <1>4 DEF Turned
<1>8. ASSUME NEW u \in Tasks, NEW m \in Tenants, u # t \/ m # n PROVE Limited(u, m)'
  <2>1. Same(u, m)
    BY <1>6, <1>7, <1>8 DEF Same, n
  <2>. QED
    BY <1>1, <1>5, <1>8, <2>1, LimitedFramed
<1>9. CASE n = NoTenant
  <2>1. Limited(t, n)'
    <3>1. Listed(counts[t][n])' /\ (Len(counts[t][n]) <= Limit)'
      BY <1>1, <1>5, <1>9 DEF LInv, Limited, Listed
    <3>. QED
      BY <1>9, <3>1 DEF Limited
  <2>. QED
    BY <1>1, <1>2, <1>4, <1>5, <1>8, <2>1 DEF LInv
<1>10. CASE n # NoTenant
  <2>d. PICK d : d = Append(R, now)
    OBVIOUS
  <2>1. /\ d \in Seq(Nat) /\ Len(d) = Len(R) + 1 /\ d[Len(R) + 1] = now
        /\ \A i \in 1..Len(R) : d[i] = R[i]
        /\ counts'[t][n] = d
    BY <1>2, <1>r, <1>5, <1>10, <2>d
  <2>2. \A a \in (now - Minute + 1)..now :
          Cardinality(Later(d, Len(d), a)) = Cardinality(Later(R, Len(R), a)) + 1
    <3>. SUFFICES ASSUME NEW a \in (now - Minute + 1)..now
                  PROVE  Cardinality(Later(d, Len(d), a)) = Cardinality(Later(R, Len(R), a)) + 1
      OBVIOUS
    <3>1. a \in Int /\ now >= a
      BY <1>2
    <3>. QED
      BY <1>2, <1>r, <2>d, <3>1, LaterAppend
  <2>3. Listed(d)' /\ Len(d) <= Limit
    <3>1. \A i \in 1..Len(d) : i = Len(R) + 1 \/ i \in 1..Len(R)
      BY <1>2, <2>1
    <3>2. \A i \in 1..Len(R) : R[i] <= now
      BY <1>2 DEF Listed
    <3>3. \A i \in 1..Len(d) : d[i] <= now
      BY <1>2, <2>1, <3>1, <3>2
    <3>4. ASSUME NEW i \in 1..Len(d), NEW j \in 1..Len(d), i <= j PROVE d[i] <= d[j]
      <4>1. CASE j = Len(R) + 1
        BY <2>1, <3>3, <4>1
      <4>2. CASE j \in 1..Len(R)
        <5>1. i \in 1..Len(R)
          BY <1>2, <3>1, <3>4, <4>2
        <5>. QED
          BY <1>2, <2>1, <3>4, <4>2, <5>1 DEF Listed
      <4>. QED
        BY <3>1, <4>1, <4>2
    <3>5. Len(d) <= Limit
      BY <1>1, <1>2, <1>10, <2>1
    <3>6. Listed(d)'
      BY <1>1, <2>1, <3>3, <3>4 DEF Listed
    <3>. QED
      BY <3>5, <3>6
  <2>4. ASSUME NEW a \in (now - Minute + 1)..now
        PROVE  Cardinality(Since(t, n, a)') = Cardinality(Since(t, n, a)) + 1
    <3>1. a \in Int /\ now >= a
      BY <1>2
    <3>2. Since(t, n, a)' = Since(t, n, a) \cup {r}
      BY <1>4, <1>6, <3>1 DEF Since, n
    <3>3. r \notin Since(t, n, a)
      BY <1>6 DEF Since
    <3>. QED
      BY <3>2, <3>3, SetsFinite, FS_AddElement
  <2>5. ASSUME NEW time \in Int, time < now
        PROVE  InMinute(t, n, time)' = InMinute(t, n, time)
    <3>1. ~ (time - now \in 0..(Minute - 1))
      BY <1>2, <2>5
    <3>. QED
      BY <1>4, <1>6, <3>1 DEF InMinute, On
  <2>6. Cardinality(InMinute(t, n, now)') <= Limit
    <3>1. InMinute(t, n, now)' = InMinute(t, n, now) \cup {r}
      <4>1. now - now \in 0..(Minute - 1)
        BY <1>2
      <4>. QED
        BY <1>1, <1>4, <1>6, <4>1 DEF InMinute, On, n
    <3>2. r \notin InMinute(t, n, now)
      BY <1>6 DEF InMinute, On
    <3>3. Cardinality(InMinute(t, n, now) \cup {r}) = Len(R) + 1
      BY <1>2, <1>10, <3>2, SetsFinite, FS_AddElement
    <3>. QED
      BY <1>1, <1>2, <1>10, <3>1, <3>3
  <2>7. Counted(t, n)'
    <3>. SUFFICES ASSUME NEW a \in (now - Minute + 1)..now
                  PROVE  Cardinality(Since(t, n, a)') = Cardinality(Later(d, Len(d), a))
      BY <1>1, <2>1 DEF Counted
    <3>1. Cardinality(Since(t, n, a)) = Cardinality(Later(R, Len(R), a))
      BY <1>2, <1>10
    <3>. QED
      BY <2>2, <2>4, <3>1
  <2>8. Bounded(t, n)'
    <3>. SUFFICES ASSUME NEW time \in 0..now PROVE Cardinality(InMinute(t, n, time)') <= Limit
      BY <1>1 DEF Bounded
    <3>1. CASE time = now
      BY <1>1, <2>6, <3>1
    <3>2. CASE time < now
      BY <1>1, <1>10, <2>5, <3>2 DEF LInv, Limited, Bounded
    <3>. QED
      BY <1>2, <3>1, <3>2
  <2>9. Justified(t, n)'
    <3>. SUFFICES ASSUME NEW q \in Requests, Turned(q, t)', TenantOf[q] = n
                  PROVE  Cardinality(InMinute(t, n, call[q].at)') = Limit
      BY DEF Justified
    <3>1. Turned(q, t) /\ q # r
      BY <1>6, <1>7
    <3>2. Cardinality(InMinute(t, n, call[q].at)) = Limit /\ call'[q].at = call[q].at
      BY <1>1, <1>6, <1>10, <3>1 DEF LInv, Limited, Justified
    <3>3. call[q].at \in Nat /\ call[q].at <= now
      BY DEF LInv, IInv, Typed
    <3>4. call[q].at # now
      BY <1>1, <1>2, <1>10, <3>2
    <3>. QED
      BY <1>2, <2>5, <3>2, <3>3, <3>4
  <2>10. Limited(t, n)'
    BY <2>1, <2>3, <2>7, <2>8, <2>9 DEF Limited
  <2>11. \A q \in Requests : call'[q].at <= now'
    BY <1>1, <1>2, <1>4 DEF LInv
  <2>. QED
    BY <1>1, <1>5, <1>8, <2>10, <2>11 DEF LInv
<1>. QED
  BY <1>9, <1>10

\* A moment later the minute has at most the admissions it had.
LEMMA TickLimits ==
  ASSUME IInv, LInv, Tick
  PROVE  LInv'
<1>1. now' = now + 1 /\ counts' = counts /\ call' = call
  BY DEF Tick
<1>2. now \in Nat /\ Minute \in Nat \ {0} /\ \A r \in Requests : call[r].at \in Nat /\ call[r].at <= now
  BY EngineAssumption DEF IInv, Typed, LInv
<1>3. ASSUME NEW t \in Tasks, NEW n \in Tenants PROVE Limited(t, n)'
  <2> DEFINE c == counts[t][n]
  <2>1. Limited(t, n)
    BY DEF LInv
  <2>2. /\ c \in Seq(Nat) /\ Len(c) \in Nat /\ Len(c) <= Limit
        /\ \A i \in 1..Len(c) : c[i] \in Nat /\ c[i] <= now
    <3>1. c \in Seq(Nat)
      BY <2>1 DEF Limited, Listed
    <3>. QED
      BY <2>1, <3>1 DEF Limited, Listed
  <2>3. Listed(c)' /\ (Len(c) <= Limit)'
    <3>1. \A i \in 1..Len(c) : c[i] <= now + 1
      BY <1>2, <2>2
    <3>. QED
      BY <1>1, <2>1, <3>1 DEF Limited, Listed
  <2>4. CASE n # NoTenant
    <3>1. \A r \in Requests : (On(r, t)' <=> On(r, t)) /\ (Turned(r, t)' <=> Turned(r, t))
      BY <1>1 DEF On, Turned
    <3>2. /\ \A a : Since(t, n, a)' = Since(t, n, a)
          /\ \A time : InMinute(t, n, time)' = InMinute(t, n, time)
      <4>1. Same(t, n)
        BY <1>1, <3>1 DEF Same
      <4>. QED
        BY <4>1, SameSets
    <3>3. Counted(t, n)'
      <4>. SUFFICES ASSUME NEW a \in (now' - Minute + 1)..now'
                    PROVE  Cardinality(Since(t, n, a)') = Cardinality(Later(c, Len(c), a))
        BY <1>1 DEF Counted
      <4>0. a \in (now + 1 - Minute + 1)..(now + 1)
        BY <1>1, <1>2
      <4>1. CASE a = now + 1
        <5>1. Since(t, n, a) = {}
          BY <1>2, <4>1 DEF Since
        <5>2. Later(c, Len(c), a) = {}
          BY <1>2, <2>2, <4>1 DEF Later
        <5>. QED
          BY <3>2, <5>1, <5>2
      <4>2. CASE a \in (now - Minute + 1)..now
        BY <2>1, <2>4, <3>2, <4>2 DEF Limited, Counted
      <4>. QED
        BY <1>2, <4>0, <4>1, <4>2
    <3>4. Bounded(t, n)'
      <4>. SUFFICES ASSUME NEW time \in 0..(now + 1)
                    PROVE  Cardinality(InMinute(t, n, time)') <= Limit
        BY <1>1 DEF Bounded
      <4>1. CASE time = now + 1
        <5>1. InMinute(t, n, time) \subseteq InMinute(t, n, now)
          <6>1. \A r \in Requests :
                  time - call[r].at \in 0..(Minute - 1) => now - call[r].at \in 0..(Minute - 1)
            BY <1>2, <4>1
          <6>. QED
            BY <6>1 DEF InMinute
        <5>2. Cardinality(InMinute(t, n, now)) <= Limit
          BY <1>2, <2>1, <2>4 DEF Limited, Bounded
        <5>3. Cardinality(InMinute(t, n, time)) <= Cardinality(InMinute(t, n, now))
          BY <5>1, SetsFinite, FS_Subset
        <5>4. /\ Cardinality(InMinute(t, n, time)) \in Nat
              /\ Cardinality(InMinute(t, n, now)) \in Nat /\ Limit \in Nat
          BY SetsFinite, EngineAssumption
        <5>. QED
          BY <3>2, <5>2, <5>3, <5>4
      <4>2. CASE time \in 0..now
        BY <2>1, <2>4, <3>2, <4>2 DEF Limited, Bounded
      <4>. QED
        BY <1>2, <4>1, <4>2
    <3>5. Justified(t, n)'
      <4>. SUFFICES ASSUME NEW r \in Requests, Turned(r, t)', TenantOf[r] = n
                    PROVE  Cardinality(InMinute(t, n, call[r].at)') = Limit
        BY DEF Justified
      <4>. QED
        BY <1>1, <2>1, <2>4, <3>1, <3>2 DEF Limited, Justified
    <3>. QED
      BY <2>3, <3>3, <3>4, <3>5 DEF Limited
  <2>. QED
    BY <2>3, <2>4 DEF Limited
<1>4. \A r \in Requests : call'[r].at <= now'
  BY <1>1, <1>2
<1>. QED
  BY <1>1, <1>3, <1>4 DEF LInv

\* A task that restarts has no list, and none of the calls it had counts.
LEMMA RestartLimits ==
  ASSUME IInv, LInv, NEW t \in Tasks, Restart(t)
  PROVE  LInv'
<1>1. /\ now' = now /\ counts' = [counts EXCEPT ![t] = NoCounts]
      /\ \A r \in Requests :
           /\ call'[r].at = call[r].at
           /\ call[r].task = t => call'[r].task = NoTask
           /\ call[r].task # t => call'[r] = call[r]
  BY DEF Restart, Orphaned, IInv, Typed
<1>2. /\ counts' \in [Tasks -> [Tenants -> Seq(Nat)]]
      /\ \A n \in Tenants : counts'[t][n] = <<>>
      /\ \A u \in Tasks \ {t}, n \in Tenants : counts'[u][n] = counts[u][n]
  BY <1>1 DEF LInv, NoCounts
<1>3. ASSUME NEW n \in Tenants PROVE Limited(t, n)'
  <2>1. \A r \in Requests : ~ On(r, t)' /\ ~ Turned(r, t)'
    BY <1>1, EngineAssumption DEF On, Turned
  <2>2. Empty(t, n)'
    BY <1>2, <2>1 DEF Empty
  <2>. QED
    BY <2>2, EmptyLimitedNext
<1>4. ASSUME NEW u \in Tasks \ {t}, NEW n \in Tenants PROVE Limited(u, n)'
  <2>1. Same(u, n)
    BY <1>1, EngineAssumption DEF Same, On, Turned
  <2>. QED
    BY <1>1, <1>2, <2>1, LimitedFramed
<1>5. \A r \in Requests : call'[r].at <= now'
  BY <1>1 DEF LInv
<1>. QED
  BY <1>2, <1>3, <1>4, <1>5 DEF LInv

\* An answer leaves a call admitted.
LEMMA AnswerLimits ==
  ASSUME IInv, LInv, NEW r \in Requests, Reject(r) \/ Predict(r)
  PROVE  LInv'
<1>1. /\ now' = now /\ counts' = counts /\ call[r].phase = "open"
      /\ call' = [call EXCEPT ![r].phase = "answered"]
  BY DEF Reject, Predict, Answered
<1>2. \A q \in Requests :
        /\ call'[q].task = call[q].task /\ call'[q].at = call[q].at
        /\ q # r => call'[q].phase = call[q].phase
        /\ call'[r].phase = "answered"
  BY <1>1 DEF IInv, Typed
<1>3. \A t \in Tasks, n \in Tenants : Same(t, n)
  BY <1>1, <1>2 DEF Same, On, Turned
<1>. QED
  BY <1>1, <1>2, <1>3, LInvFramed

\* Every step keeps the invariant of the limiter.
LEMMA NextLInv == IInv /\ LInv /\ [Next]_vars => LInv'
<1>. SUFFICES ASSUME IInv, LInv, [Next]_vars PROVE LInv'
  OBVIOUS
<1>1. CASE Tick
  BY <1>1, TickLimits
<1>2. ASSUME now' = now, counts' = counts, call' = call PROVE LInv'
  <2>1. \A t \in Tasks, n \in Tenants : Same(t, n)
    BY <1>2 DEF Same, On, Turned
  <2>. QED
    BY <1>2, <2>1, LInvFramed
<1>3. CASE \E s \in Services : \E b \in Baselines : Upload(s, b)
  BY <1>2, <1>3 DEF Upload
<1>4. CASE \E t \in Tasks : Restart(t)
  BY <1>4, RestartLimits
<1>5. ASSUME NEW r \in Requests,
             \/ \E t \in Tasks : Refuse(r, t) \/ Admit(r, t)
             \/ Reject(r) \/ Predict(r)
      PROVE  LInv'
  BY <1>5, RefuseLimits, AdmitLimits, AnswerLimits
<1>6. CASE UNCHANGED vars
  BY <1>2, <1>6 DEF vars
<1>. QED
  BY <1>1, <1>3, <1>4, <1>5, <1>6 DEF Next

\* The lists of the limiter say of each minute what was admitted in it,
\* whenever they were pruned and whatever restarts.
THEOREM LimiterInvariance == Spec => []LInv
<1>. QED
  BY InitLInv, NextLInv, Invariance, PTL DEF Spec

\* No task admits more calls of a tenant than Limit in any minute, and none is
\* refused unless that many were admitted in the minute before it
\* (rate_limit_middleware and its list).
THEOREM LimitsExactly == Spec => []LimiterExact
<1>1. IInv /\ LInv => LimiterExact
  BY DEF LInv, Limited, Bounded, Justified, Turned, LimiterExact
<1>. QED
  BY <1>1, Invariance, LimiterInvariance, PTL

\* The state keeps its types: no cache holds more than CacheSize services or one
\* of them twice, and the lists of the limiter stay ordered and no longer than
\* Limit.
THEOREM TypeCorrect == Spec => []TypeOK
<1>1. IInv /\ LInv => TypeOK
  <2>. SUFFICES ASSUME IInv, LInv PROVE TypeOK
    OBVIOUS
  <2>1. ASSUME NEW t \in Tasks, NEW n \in Tenants
        PROVE  /\ Len(counts[t][n]) <= Limit
               /\ \A i \in 2..Len(counts[t][n]) : counts[t][n][i - 1] <= counts[t][n][i]
    <3>1. Listed(counts[t][n]) /\ Len(counts[t][n]) <= Limit
      BY DEF LInv, Limited
    <3>2. Len(counts[t][n]) \in Nat
      BY <3>1 DEF Listed
    <3>3. ASSUME NEW i \in 2..Len(counts[t][n])
          PROVE  i - 1 \in 1..Len(counts[t][n]) /\ i \in 1..Len(counts[t][n]) /\ i - 1 <= i
      BY <3>2
    <3>. QED
      BY <3>1, <3>3 DEF Listed
  <2>2. \A t \in Tasks :
          /\ cache[t] \in Seq([service : Services, baseline : Baselines])
          /\ Len(cache[t]) <= CacheSize
          /\ \A i, j \in 1..Len(cache[t]) :
               cache[t][i].service = cache[t][j].service => i = j
    BY DEF IInv, CachesHeld, Sound, Entries
  <2>. QED
    BY <2>1, <2>2 DEF IInv, Typed, LInv, TypeOK
<1>. QED
  BY <1>1, Invariance, LimiterInvariance, PTL
=============================================================================
