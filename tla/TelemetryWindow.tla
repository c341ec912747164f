--------------------------- MODULE TelemetryWindow ---------------------------
(***************************************************************************)
(* How a producer's samples become the signal window of a prediction: the  *)
(* gauges of the Telemetry API, their scrapes into AMP, and the worker's   *)
(* query_range, its imputation and its choice between the AI engine and    *)
(* the static threshold.  A unit of time is a scrape interval.             *)
(***************************************************************************)
EXTENDS WindowAlignment

CONSTANTS
  Order,          \* the signals, in the order the worker queries them
  ForwardFilled,  \* those METRIC_FILL_POLICY fills forward
  Labels,         \* the label sets of each signal's samples beside tenant and
                  \* service, in the order AMP lists their series
  Values,         \* the values of the samples of each series
  Duration,       \* duration_minutes of the window
  Lookback,       \* how long AMP answers with a sample after its time
  MinPoints,      \* points the engine requires of a signal window
  MaxTime         \* bound: the last scrape

ASSUME TimesAssumption ==
  /\ Step \in Nat \ {0} /\ Lookback \in Nat \ {0}
  /\ Duration \in Nat /\ MaxTime \in Nat /\ Duration <= MaxTime /\ MinPoints \in Nat
  /\ \A i \in 1..Len(Order) : \A j \in 1..Len(Labels[Order[i]]) :
       Values[<<Order[i], Labels[Order[i]][j]>>] \subseteq Nat

VARIABLES
  now,       \* time
  gauge,     \* the value exported for each series, as a set of at most one
  amp,       \* samples AMP has of each series, in their order
  measured,  \* history: when each signal's latest sample was ingested
  window     \* what the worker has read, as a set of at most one

vars == <<now, gauge, amp, measured, window>>

-----------------------------------------------------------------------------

Signals == {Order[i] : i \in 1..Len(Order)}

\* A gauge keeps a value of its own for each label set.
Series == UNION {{<<s, Labels[s][i]>> : i \in 1..Len(Labels[s])} : s \in Signals}

ASSUME SignalsAssumption ==
  /\ Order \in Seq(Signals)
  /\ \A s \in Signals : Labels[s] \in Seq(Range(Labels[s]))

\* All signals together have as many buckets as the engine asks for: 7 times
\* 121 against 120.
ASSUME LengthAssumption == MinPoints <= Len(Order) * (Duration \div Step + 1)

Point == [ts : Nat, value : Nat]

TypeOK ==
  /\ now \in Duration..MaxTime
  /\ DOMAIN gauge = Series
  /\ \A x \in Series : gauge[x] \subseteq Values[x] /\ Cardinality(gauge[x]) <= 1
  /\ amp \in [Series -> Seq(Point)]
  /\ \A x \in Series : \A i \in 2..Len(amp[x]) : amp[x][i - 1].ts < amp[x][i].ts
  /\ measured \in [Signals -> -1..MaxTime]
  /\ \A w \in window : w.end <= now

Init ==
  /\ now = Duration
  /\ gauge = [x \in Series |-> {}]
  /\ amp = [x \in Series |-> <<>>]
  /\ measured = [s \in Signals |-> -1]
  /\ window = {}

-----------------------------------------------------------------------------
(* The Telemetry API and its collector.                                    *)

\* Mutant: the gauge has no labels of its own beside tenant and service.
ObserveShared(x, v) ==
  /\ window = {}
  /\ gauge' = [y \in Series |-> IF y[1] = x[1] THEN {v} ELSE gauge[y]]
  /\ measured' = [measured EXCEPT ![x[1]] = now]
  /\ UNCHANGED <<now, amp, window>>

\* observe sets the gauge of an ingested sample, in the series of its labels.
Observe(x, v) ==
  /\ window = {}
  /\ gauge' = [gauge EXCEPT ![x] = {v}]
  /\ measured' = [measured EXCEPT ![x[1]] = now]
  /\ UNCHANGED <<now, amp, window>>

\* The task restarts with an empty registry.
RestartApi ==
  /\ window = {}
  /\ gauge' = [x \in Series |-> {}]
  /\ UNCHANGED <<now, amp, measured, window>>

\* What a scrape adds to AMP: every gauge, stamped with the scrape's time.
Scraped(x) ==
  IF gauge[x] = {} THEN amp[x]
  ELSE Append(amp[x], [ts |-> now, value |-> CHOOSE v \in gauge[x] : TRUE])

\* A scrape is written to AMP, or fails, and time passes.
Scrape ==
  /\ window = {}
  /\ now < MaxTime
  /\ now' = now + 1
  /\ amp' \in {amp, [x \in Series |-> Scraped(x)]}
  /\ UNCHANGED <<gauge, measured, window>>

-----------------------------------------------------------------------------
(* The worker.                                                             *)

\* AMP evaluates the query every Step from the start: the latest sample that
\* is not older than Lookback, if there is one.
Evaluated(x, t) ==
  {i \in 1..Len(amp[x]) : amp[x][i].ts <= t /\ amp[x][i].ts > t - Lookback}

PointAt(x, t) ==
  IF Evaluated(x, t) = {} THEN <<>>
  ELSE <<[ts |-> t, value |-> amp[x][Max(Evaluated(x, t))].value]>>

Points(x, start, end) ==
  FlattenSeq([i \in 1..((end - start) \div Step + 1) |-> PointAt(x, start + (i - 1) * Step)])

\* The query selects by tenant and service: every series of the signal, and
\* their points one series after the other.
QueryRange(s, start, end) ==
  FlattenSeq([i \in 1..Len(Labels[s]) |-> Points(<<s, Labels[s][i]>>, start, end)])

FillPolicy(s) == IF s \in ForwardFilled THEN "forward_fill" ELSE "zero_fill"

\* query_amp_metrics: a query that fails returns no series.
Read(failed) ==
  LET start  == now - Duration
      points == [s \in Signals |-> IF s \in failed THEN <<>> ELSE QueryRange(s, start, now)]
      filled == [s \in Signals |-> AlignAndImpute(FillPolicy(s), points[s], start, now)]
  IN [start |-> start, end |-> now, points |-> points,
      aligned |-> [s \in Signals |-> filled[s].aligned],
      missing |-> [s \in Signals |-> filled[s].missing]]

\* The worker's window is fixed by the time it starts: the others wait for it
\* here, which changes nothing of what it reads.
Query ==
  /\ window = {}
  /\ \E failed \in SUBSET Signals : window' = {Read(failed)}
  /\ UNCHANGED <<now, gauge, amp, measured>>

Finish ==
  /\ window # {}
  /\ window' = {}
  /\ UNCHANGED <<now, gauge, amp, measured>>

Total(w) == Len(Expected(w.start, w.end))

\* Mutant: the gap of the signal queried last, instead of the largest.
TooLargeLast(w) == 2 * w.missing[Order[Len(Order)]] >= Total(w)

\* max_gap_ratio >= MAX_GAP_THRESHOLD.
TooLarge(w) == \E s \in Signals : 2 * w.missing[s] >= Total(w)

Decision(w) == IF TooLarge(w) THEN "fallback" ELSE "ai"

\* signal_window: the signals one after the other.
Payload(w) == FlattenSeq([i \in 1..Len(Order) |-> w.aligned[Order[i]]])

\* The engine takes a window that is long enough and, in its order, never goes
\* on more than a minute and five seconds later.
Accepted(payload) ==
  /\ Len(payload) >= MinPoints
  /\ \A i \in 2..Len(payload) : payload[i].ts - payload[i - 1].ts <= Step

-----------------------------------------------------------------------------

Next ==
  \/ RestartApi \/ Scrape \/ Query \/ Finish
  \/ \E x \in Series : \E v \in Values[x] : Observe(x, v)

Spec == Init /\ [][Next]_vars

-----------------------------------------------------------------------------
(* Properties.                                                             *)

\* Whatever scrapes, restarts and queries failed, each bucket of the window,
\* the first and the last included, has the value its definition gives it.
AlignedAsDefined ==
  \A w \in window : \A s \in Signals :
    /\ {w.aligned[s][i].ts : i \in 1..Len(w.aligned[s])} =
         {b \in Bucket(w.start)..Bucket(w.end) : b % Step = 0}
    /\ \A i \in 1..Len(w.aligned[s]) :
         w.aligned[s][i].value =
           Value(FillPolicy(s), w.points[s], w.start, w.aligned[s][i].ts)

\* The worker and the engine agree on what a window is: whatever the worker
\* sends, the engine's length and continuity checks let through.
WindowsAccepted ==
  \A w \in window : Decision(w) = "ai" => Accepted(Payload(w))

\* The engine is asked only about windows AMP has points for, in more than
\* half the buckets of every signal: no fill counts as a point.
AskedOnEvidence ==
  \A w \in window : Decision(w) = "ai" =>
    \A s \in Signals :
      2 * Cardinality({i \in 1..Len(w.aligned[s]) :
                         In(w.points[s], w.aligned[s][i].ts) # {}}) > Total(w)

\* "If the window is < 120 minutes or the imputation exceeds the threshold:
\* static fallback, the AI is not called" (docs/02_infra_design.md:334): the
\* engine is not asked about a signal no producer sent within the window.
SilentSignalsNotScored ==
  \A w \in window : Decision(w) = "ai" =>
    \A s \in Signals : measured[s] >= w.start
=============================================================================
