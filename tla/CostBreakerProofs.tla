-------------------------- MODULE CostBreakerProofs --------------------------
(* Proofs about CostBreaker for every set of services and every capacity.  *)
EXTENDS CostBreaker, FiniteSetTheorems, TLAPS

StopSet == {StopOrder[n] : n \in DOMAIN StopOrder}

\* What ties the topic to the spend: a notification of 100% was published
\* when the spend passed it, the Lambda never runs for a notice of its own,
\* it stops services for a notification of 100% only, and only services of
\* its list.
SoundMessage(m) ==
  /\ m.kind = "notice" => m.phase = "mail"
  /\ m.phase = "stopping" => m.kind = "100%"
  /\ \A n \in 1..Len(m.left) : m.left[n] \in StopSet

Sound(t, passed) ==
  /\ t \in Seq(Message)
  /\ \A i \in 1..Len(t) : /\ t[i].kind = "100%" => passed = Len(Thresholds)
                          /\ SoundMessage(t[i])

TopicSound == Sound(topic, spend)

Inv == TypeOK /\ TopicSound /\ OnlyBreakerStops

LEMMA Numbers ==
  /\ Len(Thresholds) = 3
  /\ Thresholds[1] = "50%" /\ Thresholds[2] = "80%" /\ Thresholds[3] = "100%"
  BY DEF Thresholds

LEMMA InitInv == Init => Inv
<1> SUFFICES ASSUME Init PROVE Inv
  OBVIOUS
<1>e. <<>> \in Seq(Message)
  OBVIOUS
<1>1. TypeOK
  <2>1. desired \in [Services -> Nat]
    BY CapacityAssumption DEF Init
  <2>2. \A s \in Services : desired[s] <= MaxTasks[s]
    BY CapacityAssumption DEF Init
  <2>3. spend \in 0..Len(Thresholds)
    BY Numbers DEF Init
  <2>5. aged \in BOOLEAN
    BY Zenon DEF Init
  <2>4. topic \in Seq(Message)
    BY <1>e DEF Init
  <2>. QED
    BY <2>1, <2>2, <2>3, <2>4, <2>5 DEF TypeOK
<1>2. TopicSound
  BY <1>e DEF Init, TopicSound, Sound
<1>3. OnlyBreakerStops
  BY CapacityAssumption DEF Init, OnlyBreakerStops
<1>. QED
  BY <1>1, <1>2, <1>3 DEF Inv

\* A message that is published is well formed and its invocation has not begun.
LEMMA PublishedType ==
  ASSUME NEW kind \in Kinds
  PROVE  /\ Published(kind) \in Message
         /\ Published(kind).kind = kind
         /\ SoundMessage(Published(kind))
<1>1. <<>> \in Seq(Services)
  OBVIOUS
<1>. QED
  BY <1>1 DEF Published, Message, Phases, Delivered, SoundMessage

\* Publishing keeps a topic sound, a 100% once the spend has passed it.
LEMMA PublishSound ==
  ASSUME NEW t, NEW passed, Sound(t, passed), NEW kind \in Kinds, NEW now,
         kind = "100%" => now = Len(Thresholds),
         passed = Len(Thresholds) => now = passed
  PROVE  Sound(Append(t, Published(kind)), now)
<1> DEFINE u == Append(t, Published(kind))
<1>0. t \in Seq(Message)
  BY DEF Sound
<1>1. u \in Seq(Message) /\ Len(u) = Len(t) + 1
  BY <1>0, PublishedType
<1>2. \A i \in 1..Len(t) : u[i] = t[i]
  BY <1>0, PublishedType
<1>3. u[Len(t) + 1] = Published(kind)
  BY <1>0, PublishedType
<1>6. \A i \in 1..Len(u) : i \in 1..Len(t) \/ i = Len(t) + 1
  BY <1>0, <1>1
<1>. HIDE DEF u
<1>. QED
  <2>1. \A i \in 1..Len(u) : /\ u[i].kind = "100%" => now = Len(Thresholds)
                            /\ SoundMessage(u[i])
    BY <1>2, <1>3, <1>6, PublishedType DEF Sound
  <2>2. Sound(u, now)
    BY <1>1, <2>1 DEF Sound
  <2>. QED
    BY <2>2 DEF u

\* A step of one invocation keeps a topic sound.
LEMMA UpdateSound ==
  ASSUME NEW t, NEW passed, Sound(t, passed),
         NEW i \in 1..Len(t), NEW m \in Message,
         m.kind = t[i].kind, SoundMessage(m)
  PROVE  Sound([t EXCEPT ![i] = m], passed)
<1>0. t \in Seq(Message)
  BY DEF Sound
<1>1. [t EXCEPT ![i] = m] \in Seq(Message) /\ Len([t EXCEPT ![i] = m]) = Len(t)
  BY <1>0
<1>2. \A j \in 1..Len(t) : [t EXCEPT ![i] = m][j] = IF j = i THEN m ELSE t[j]
  BY <1>0
<1>. QED
  BY <1>1, <1>2 DEF Sound

\* The list of services to stop is a list of services, all in StopSet.
LEMMA StopOrderType ==
  /\ StopOrder \in Seq(Services)
  /\ \A n \in 1..Len(StopOrder) : StopOrder[n] \in StopSet
  BY ServicesAssumption DEF StopSet

LEMMA InvokeSound ==
  ASSUME Inv, NEW i \in 1..Len(topic), Invoke(i)
  PROVE  TopicSound'
<1> DEFINE on == Activates(topic[i].kind)
<1> DEFINE m == [topic[i] EXCEPT !.phase = IF on THEN "stopping" ELSE "done",
                                 !.left  = IF on THEN StopOrder ELSE <<>>]
<1>1. topic[i] \in Message /\ SoundMessage(topic[i]) /\ Sound(topic, spend)
  BY DEF Inv, TypeOK, TopicSound, Sound
<1>2. topic' = [topic EXCEPT ![i] = m] /\ spend' = spend
  BY <1>1 DEF Invoke, Message
<1>3. topic[i].kind # "notice"
  BY <1>1 DEF Invoke, SoundMessage
<1>4. <<>> \in Seq(Services)
  OBVIOUS
<1>5. m \in Message /\ m.kind = topic[i].kind
  BY <1>1, <1>4, StopOrderType DEF Message, Phases
<1>6. m.phase = "stopping" => m.kind = "100%"
  BY <1>1, <1>3 DEF Message, Activates
<1>7. \A n \in 1..Len(m.left) : m.left[n] \in StopSet
  BY <1>1, StopOrderType DEF Message
<1>. HIDE DEF m
<1>8. SoundMessage(m)
  BY <1>3, <1>5, <1>6, <1>7 DEF SoundMessage
<1>9. Sound(topic', spend)
  BY <1>1, <1>2, <1>5, <1>8, UpdateSound
<1>. QED
  BY <1>2, <1>9 DEF TopicSound

LEMMA AskedSound ==
  ASSUME Inv, NEW i \in 1..Len(topic), Stop(i) \/ FailStop(i)
  PROVE  /\ TopicSound'
         /\ Head(topic[i].left) \in StopSet
         /\ topic[i].kind = "100%"
<1> DEFINE m == [topic[i] EXCEPT !.left  = Tail(topic[i].left),
                                 !.tried = @ \cup {Head(topic[i].left)}]
<1>1. topic[i] \in Message /\ SoundMessage(topic[i]) /\ Sound(topic, spend)
  BY DEF Inv, TypeOK, TopicSound, Sound
<1>2. /\ topic[i].left \in Seq(Services) /\ topic[i].left # <<>>
      /\ topic[i].phase = "stopping" /\ spend' = spend
  BY <1>1 DEF Stop, FailStop, Message
<1>3. topic' = [topic EXCEPT ![i] = m]
  BY <1>1, <1>2 DEF Stop, FailStop, Asked, Message
<1>4. \A n \in 1..Len(topic[i].left) : topic[i].left[n] \in StopSet
  BY <1>1 DEF SoundMessage
<1>5. /\ Head(topic[i].left) = topic[i].left[1] /\ 1 \in 1..Len(topic[i].left)
      /\ Head(topic[i].left) \in Services
      /\ Tail(topic[i].left) \in Seq(Services)
      /\ Len(Tail(topic[i].left)) = Len(topic[i].left) - 1
      /\ \A n \in 1..Len(Tail(topic[i].left)) :
           Tail(topic[i].left)[n] = topic[i].left[n + 1]
  BY <1>2
<1>6. m \in Message /\ m.kind = topic[i].kind /\ m.phase = topic[i].phase
  BY <1>1, <1>5 DEF Message
<1>7. \A n \in 1..Len(m.left) : m.left[n] \in StopSet
  <2>1. m.left = Tail(topic[i].left)
    BY <1>1 DEF Message
  <2>2. \A n \in 1..(Len(topic[i].left) - 1) : n + 1 \in 1..Len(topic[i].left)
    BY <1>2
  <2>. QED
    BY <2>1, <2>2, <1>4, <1>5
<1>8. topic[i].kind = "100%"
  BY <1>1, <1>2 DEF SoundMessage
<1>. HIDE DEF m
<1>9. SoundMessage(m)
  BY <1>2, <1>6, <1>7, <1>8 DEF SoundMessage
<1>10. Sound(topic', spend)
  BY <1>1, <1>3, <1>6, <1>9, UpdateSound
<1>. QED
  BY <1>2, <1>4, <1>5, <1>8, <1>10 DEF TopicSound

\* An invocation that leaves the loop over the services, as Return does, or is
\* cut off, as Timeout is.
LEMMA LeaveSound ==
  ASSUME Inv, NEW i \in 1..Len(topic), topic[i].phase \in {"stopping", "stopped"},
         NEW m \in Message, m.kind = topic[i].kind, m.phase # "stopping",
         m.left = <<>>
  PROVE  Sound([topic EXCEPT ![i] = m], spend)
<1>1. SoundMessage(topic[i]) /\ Sound(topic, spend)
  BY DEF Inv, TopicSound, Sound
<1>2. SoundMessage(m)
  BY <1>1 DEF SoundMessage
<1>. QED
  BY <1>1, <1>2, UpdateSound

LEMMA PublishStepSound ==
  ASSUME Inv, NEW i \in 1..Len(topic), Publish(i)
  PROVE  TopicSound'
<1> DEFINE m == [topic[i] EXCEPT !.phase = "stopped"]
<1> DEFINE t == [topic EXCEPT ![i] = m]
<1>1. topic \in Seq(Message) /\ topic[i] \in Message
  BY DEF Inv, TypeOK
<1>2. /\ m \in Message /\ m.kind = topic[i].kind
      /\ m.phase = "stopped" /\ m.left = <<>>
  BY <1>1 DEF Publish, Message, Phases
<1>3. spend' = spend /\ topic' \in {t, Append(t, Published("notice"))}
  BY <1>1 DEF Publish, Message
<1>4. topic[i].phase = "stopping"
  BY DEF Publish
<1>. HIDE DEF m
<1>5. Sound(t, spend)
  BY <1>2, <1>4, LeaveSound
<1>. HIDE DEF t
<1>6. Sound(Append(t, Published("notice")), spend)
  BY <1>5, PublishSound DEF Kinds
<1>. QED
  BY <1>3, <1>5, <1>6 DEF TopicSound

LEMMA ReturnSound ==
  ASSUME Inv, NEW i \in 1..Len(topic), Return(i)
  PROVE  TopicSound'
<1> DEFINE m == [topic[i] EXCEPT !.phase = "done"]
<1>1. /\ topic[i] \in Message /\ SoundMessage(topic[i]) /\ Sound(topic, spend)
      /\ topic[i].phase = "stopped"
  BY DEF Inv, TypeOK, TopicSound, Sound, Return
<1>2. topic' = [topic EXCEPT ![i] = m] /\ spend' = spend
  BY <1>1 DEF Return, Message
<1>3. m \in Message /\ m.kind = topic[i].kind /\ SoundMessage(m)
  BY <1>1 DEF Message, Phases, SoundMessage
<1>. HIDE DEF m
<1>. QED
  BY <1>1, <1>2, <1>3, UpdateSound DEF TopicSound

LEMMA TimeoutSound ==
  ASSUME Inv, NEW i \in 1..Len(topic), Timeout(i)
  PROVE  TopicSound'
<1> DEFINE m == [topic[i] EXCEPT
                   !.phase = IF topic[i].attempts < MaxRetries THEN "queued" ELSE "dead",
                   !.attempts = @ + 1, !.left = <<>>, !.tried = {}]
<1>1. topic[i] \in Message /\ topic[i].phase \in {"stopping", "stopped"}
  BY DEF Inv, TypeOK, Timeout
<1>2. topic' = [topic EXCEPT ![i] = m] /\ spend' = spend
  BY <1>1 DEF Timeout, Message
<1>3. <<>> \in Seq(Services) /\ topic[i].attempts + 1 \in Nat
  BY <1>1 DEF Message
<1>4. /\ m \in Message /\ m.kind = topic[i].kind
      /\ m.phase # "stopping" /\ m.left = <<>>
  BY <1>1, <1>3 DEF Message, Phases
<1>. HIDE DEF m
<1>5. Sound([topic EXCEPT ![i] = m], spend)
  BY <1>1, <1>4, LeaveSound
<1>. QED
  BY <1>2, <1>5 DEF TopicSound

-----------------------------------------------------------------------------

LEMMA InvStep == Inv /\ [Next]_vars => Inv'
<1> SUFFICES ASSUME Inv, [Next]_vars PROVE Inv'
  OBVIOUS
<1>0. TypeOK /\ TopicSound /\ OnlyBreakerStops /\ Len(Thresholds) = 3
  BY Numbers DEF Inv
<1>1. CASE Spend
  <2>1. /\ spend \in 0..2 /\ spend' = spend + 1
        /\ topic' = Append(topic, Published(Thresholds[spend + 1]))
    BY <1>0, <1>1 DEF Spend, TypeOK
  <2>2. /\ Thresholds[spend + 1] \in Kinds
        /\ Thresholds[spend + 1] = "100%" => spend' = 3
    BY <2>1, Numbers DEF Kinds
  <2>3. TopicSound'
    BY <1>0, <2>1, <2>2, PublishSound DEF TopicSound
  <2>. QED
    BY <1>0, <1>1, <2>1, <2>3
    DEF Inv, TypeOK, TopicSound, Sound, OnlyBreakerStops, Spend
<1>2. ASSUME NEW i \in 1..Len(topic), Handler(i) PROVE Inv'
  <2>1. TopicSound'
    BY <1>2, InvokeSound, AskedSound, PublishStepSound, ReturnSound, TimeoutSound
    DEF Handler
  <2>2. spend' = spend /\ aged' = aged
    BY <1>2 DEF Handler, Invoke, Stop, FailStop, Publish, Return, Timeout
  <2>3. CASE Stop(i)
    <3>1. /\ desired' = [desired EXCEPT ![Head(topic[i].left)] = 0]
          /\ Head(topic[i].left) \in StopSet /\ topic[i].kind = "100%"
      BY <2>3, AskedSound DEF Stop
    <3>2. spend = Len(Thresholds)
      BY <1>0, <3>1 DEF TopicSound, Sound
    <3>3. /\ desired' \in [Services -> Nat]
          /\ \A s \in Services : desired'[s] \in {desired[s], 0}
          /\ \A s \in Services : desired'[s] = desired[s] \/ s \in StopSet
      BY <1>0, <3>1 DEF TypeOK
    <3>4. \A s \in Services : desired'[s] <= MaxTasks[s]
      <4>1. \A s \in Services : 0 <= MaxTasks[s]
        BY CapacityAssumption
      <4>2. \A s \in Services : desired[s] <= MaxTasks[s]
        BY <1>0 DEF TypeOK
      <4>. QED
        BY <3>3, <4>1, <4>2
    <3>5. TypeOK'
      BY <1>0, <2>1, <2>2, <3>3, <3>4 DEF TypeOK, TopicSound, Sound
    <3>6. OnlyBreakerStops'
      BY <1>0, <2>2, <3>2, <3>3 DEF OnlyBreakerStops, StopSet
    <3>. QED
      BY <2>1, <3>5, <3>6 DEF Inv
  <2>4. CASE ~ Stop(i)
    <3>1. desired' = desired
      BY <1>2, <2>4 DEF Handler, Invoke, FailStop, Publish, Return, Timeout
    <3>. QED
      BY <1>0, <2>1, <2>2, <3>1
      DEF Inv, TypeOK, TopicSound, Sound, OnlyBreakerStops
  <2>. QED
    BY <2>3, <2>4
<1>3. CASE Age \/ Drain \/ UNCHANGED vars
  BY <1>0, <1>3
  DEF Inv, TypeOK, TopicSound, Sound, OnlyBreakerStops, Age, Drain, vars
<1>4. CASE Apply
  BY <1>0, <1>4, CapacityAssumption
  DEF Inv, TypeOK, TopicSound, Sound, OnlyBreakerStops, Apply
<1>5. ASSUME NEW s \in Services, Scaling(s) PROVE Inv'
  <2>0. /\ desired \in [Services -> Nat] /\ desired[s] <= MaxTasks[s]
        /\ MinTasks[s] \in Nat \ {0} /\ MaxTasks[s] \in Nat
        /\ MinTasks[s] <= MaxTasks[s]
    BY <1>0, CapacityAssumption DEF TypeOK
  <2>1. UNCHANGED <<spend, topic, aged>>
    BY <1>5 DEF Scaling, ScaleOut, ScaleIn
  <2>2. \E n \in Nat : /\ desired' = [desired EXCEPT ![s] = n]
                      /\ MinTasks[s] <= n /\ n <= MaxTasks[s]
    <3>1. CASE ScaleOut(s)
      <4>1. /\ StepUp(s) \in Nat
            /\ MinTasks[s] <= StepUp(s) /\ StepUp(s) <= MaxTasks[s]
        BY <2>0 DEF StepUp
      <4>. QED
        BY <3>1, <4>1 DEF ScaleOut
    <3>2. CASE ScaleIn(s)
      <4>1. /\ desired[s] - 1 \in Nat
            /\ MinTasks[s] <= desired[s] - 1 /\ desired[s] - 1 <= MaxTasks[s]
        BY <2>0, <3>2 DEF ScaleIn
      <4>2. desired' = [desired EXCEPT ![s] = desired[s] - 1]
        BY <3>2 DEF ScaleIn
      <4>. QED
        BY <4>1, <4>2
    <3>. QED
      BY <1>5, <3>1, <3>2 DEF Scaling
  <2>3. PICK n \in Nat : /\ desired' = [desired EXCEPT ![s] = n]
                         /\ MinTasks[s] <= n /\ n <= MaxTasks[s]
    BY <2>2
  <2>4. /\ desired' \in [Services -> Nat] /\ desired'[s] = n
        /\ \A r \in Services : r # s => desired'[r] = desired[r]
    BY <2>0, <2>3
  <2>5. TypeOK'
    BY <1>0, <2>1, <2>3, <2>4 DEF TypeOK
  <2>6. OnlyBreakerStops'
    <3>1. ~ (desired'[s] < MinTasks[s])
      BY <2>0, <2>3, <2>4
    <3>. QED
      BY <1>0, <2>1, <2>4, <3>1 DEF OnlyBreakerStops
  <2>7. TopicSound'
    BY <1>0, <2>1 DEF TopicSound
  <2>. QED
    BY <2>5, <2>6, <2>7 DEF Inv
<1>. QED
  BY <1>1, <1>2, <1>3, <1>4, <1>5 DEF Next

\* The inductive invariant holds in every reachable state, for any services,
\* capacities and retries.
THEOREM Invariance == Spec => []Inv
  BY InitInv, InvStep, PTL DEF Spec

\* The breaker's state is always of the declared types, every desired count
\* within its capacity.
THEOREM TypeCorrect == Spec => []TypeOK
<1>1. Inv => TypeOK
  BY DEF Inv
<1>. QED
  BY <1>1, Invariance, PTL

\* Whatever the services and their capacities, the interleaving of attempts,
\* retries, alarms and deployments: no service is below its minimum unless the
\* spend has passed 100% and the service is one of services_to_stop.
THEOREM BreakerOnly == Spec => []OnlyBreakerStops
<1>1. Inv => OnlyBreakerStops
  BY DEF Inv
<1>. QED
  BY <1>1, Invariance, PTL

-----------------------------------------------------------------------------
(* The breaker does not start itself: every notice is paid for by an       *)
(* attempt of the one notification of 100%.                                *)

OfIn(t, kind) == {i \in 1..Len(t) : t[i].kind = kind}

\* Attempts of an invocation that may have published their notice: those that
\* have failed, and the present one once it is past the publish.
Paid(m) == m.attempts + (IF m.phase \in {"stopped", "done"} THEN 1 ELSE 0)

AttemptsWithin(m) ==
  m.attempts <= (IF m.phase = "dead" THEN MaxRetries + 1 ELSE MaxRetries)

NoticesPaid(t) ==
  /\ \A h, g \in OfIn(t, "100%") : h = g
  /\ OfIn(t, "100%") = {} => OfIn(t, "notice") = {}
  /\ \A h \in OfIn(t, "100%") : Cardinality(OfIn(t, "notice")) <= Paid(t[h])
  /\ \A i \in 1..Len(t) : AttemptsWithin(t[i])

TopicPaid == NoticesPaid(topic)

LEMMA OfFinite ==
  ASSUME NEW t \in Seq(Message), NEW kind
  PROVE  IsFiniteSet(OfIn(t, kind)) /\ Cardinality(OfIn(t, kind)) \in Nat
<1>1. IsFiniteSet(1..Len(t))
  BY FS_Interval
<1>2. OfIn(t, kind) \in SUBSET (1..Len(t))
  BY DEF OfIn
<1>3. IsFiniteSet(OfIn(t, kind))
  BY <1>1, <1>2, FS_Subset
<1>. QED
  BY <1>3, FS_CardinalityType

LEMMA PaidType ==
  ASSUME NEW m \in Message
  PROVE  Paid(m) \in Nat
  BY DEF Paid, Message

\* A step of an invocation that takes back none of its attempts.
LEMMA UpdatePaid ==
  ASSUME NEW t \in Seq(Message), NoticesPaid(t),
         NEW i \in 1..Len(t), NEW m \in Message, m.kind = t[i].kind,
         Paid(t[i]) <= Paid(m), AttemptsWithin(m)
  PROVE  LET u == [t EXCEPT ![i] = m] IN
         /\ u \in Seq(Message) /\ Len(u) = Len(t) /\ u[i] = m
         /\ \A kind : OfIn(u, kind) = OfIn(t, kind)
         /\ NoticesPaid(u)
<1> DEFINE u == [t EXCEPT ![i] = m]
<1>1. u \in Seq(Message) /\ Len(u) = Len(t)
  OBVIOUS
<1>2. \A j \in 1..Len(t) : u[j] = IF j = i THEN m ELSE t[j]
  OBVIOUS
<1>. HIDE DEF u
<1>3. \A kind : OfIn(u, kind) = OfIn(t, kind)
  BY <1>1, <1>2 DEF OfIn
<1>4. \A h \in OfIn(t, "100%") : Cardinality(OfIn(t, "notice")) <= Paid(u[h])
  <2>1. SUFFICES ASSUME NEW h \in OfIn(t, "100%")
                 PROVE  Cardinality(OfIn(t, "notice")) <= Paid(u[h])
    OBVIOUS
  <2>2. h \in 1..Len(t) /\ Cardinality(OfIn(t, "notice")) <= Paid(t[h])
    BY DEF OfIn, NoticesPaid
  <2>3. Cardinality(OfIn(t, "notice")) \in Nat /\ Paid(t[h]) \in Nat /\ Paid(m) \in Nat
    BY <2>2, OfFinite, PaidType
  <2>4. u[h] = IF h = i THEN m ELSE t[h]
    BY <1>2, <2>2
  <2>. QED
    BY <2>2, <2>3, <2>4
<1>5. \A j \in 1..Len(u) : AttemptsWithin(u[j])
  BY <1>1, <1>2 DEF NoticesPaid
<1>6. NoticesPaid(u)
  BY <1>3, <1>4, <1>5 DEF NoticesPaid
<1>. QED
  BY <1>1, <1>2, <1>3, <1>6 DEF u

\* A message is appended whose invocation has not begun.
LEMMA OfAppend ==
  ASSUME NEW t \in Seq(Message), NEW kind \in Kinds
  PROVE  LET u == Append(t, Published(kind)) IN
         /\ OfIn(u, kind) = OfIn(t, kind) \cup {Len(t) + 1}
         /\ \A other : other # kind => OfIn(u, other) = OfIn(t, other)
         /\ \A i \in 1..Len(t) : u[i] = t[i]
         /\ (\A i \in 1..Len(t) : AttemptsWithin(t[i])) =>
              \A i \in 1..Len(u) : AttemptsWithin(u[i])
<1> DEFINE u == Append(t, Published(kind))
<1>1. u \in Seq(Message) /\ Len(u) = Len(t) + 1
  BY PublishedType
<1>2. \A i \in 1..Len(t) : u[i] = t[i]
  BY PublishedType
<1>3. u[Len(t) + 1] = Published(kind)
  BY PublishedType
<1>4. 1..Len(u) = (1..Len(t)) \cup {Len(t) + 1}
  BY <1>1
<1>5. AttemptsWithin(Published(kind))
  BY RetriesAssumption DEF AttemptsWithin, Published, Delivered
<1>6. Published(kind).kind = kind
  BY PublishedType
<1>. HIDE DEF u
<1>7. OfIn(u, kind) = OfIn(t, kind) \cup {Len(t) + 1}
  BY <1>2, <1>3, <1>4, <1>6 DEF OfIn
<1>8. \A other : other # kind => OfIn(u, other) = OfIn(t, other)
  BY <1>2, <1>3, <1>4, <1>6 DEF OfIn
<1>9. (\A i \in 1..Len(t) : AttemptsWithin(t[i])) =>
        \A i \in 1..Len(u) : AttemptsWithin(u[i])
  BY <1>2, <1>3, <1>4, <1>5
<1>. QED
  BY <1>2, <1>7, <1>8, <1>9 DEF u

\* A notification of the budget is published, that of 100% for the first time.
LEMMA NotifyPaid ==
  ASSUME NEW t \in Seq(Message), NoticesPaid(t), NEW kind \in Kinds \ {"notice"},
         kind = "100%" => OfIn(t, "100%") = {}
  PROVE  NoticesPaid(Append(t, Published(kind)))
<1> DEFINE u == Append(t, Published(kind))
<1>1. /\ OfIn(u, kind) = OfIn(t, kind) \cup {Len(t) + 1}
      /\ \A other : other # kind => OfIn(u, other) = OfIn(t, other)
      /\ \A i \in 1..Len(t) : u[i] = t[i]
      /\ \A i \in 1..Len(u) : AttemptsWithin(u[i])
  BY OfAppend DEF NoticesPaid
<1>2. Paid(u[Len(t) + 1]) \in Nat /\ Cardinality({}) = 0
  BY PublishedType, PaidType, FS_EmptySet
<1>. HIDE DEF u
<1>3. OfIn(u, "notice") = OfIn(t, "notice")
  BY <1>1
<1>4. CASE kind = "100%"
  <2>1. OfIn(t, "notice") = {} /\ OfIn(u, "100%") = {Len(t) + 1}
    BY <1>1, <1>4 DEF NoticesPaid
  <2>2. Cardinality(OfIn(u, "notice")) = 0
    BY <1>2, <1>3, <2>1, Zenon
  <2>3. Cardinality(OfIn(u, "notice")) <= Paid(u[Len(t) + 1])
    BY <1>2, <2>2
  <2>. QED
    BY <1>1, <1>3, <2>1, <2>3 DEF NoticesPaid, u
<1>5. CASE kind # "100%"
  <2>1. OfIn(u, "100%") = OfIn(t, "100%")
    BY <1>1, <1>5
  <2>2. \A h \in OfIn(t, "100%") : u[h] = t[h]
    BY <1>1 DEF OfIn
  <2>. QED
    BY <1>1, <1>3, <2>1, <2>2 DEF NoticesPaid, u
<1>. QED
  BY <1>4, <1>5

\* The handler of a notification of 100% publishes its notice.
LEMMA PublishPaid ==
  ASSUME NEW t \in Seq(Message), NoticesPaid(t), NEW h \in OfIn(t, "100%"),
         Cardinality(OfIn(t, "notice")) < Paid(t[h])
  PROVE  NoticesPaid(Append(t, Published("notice")))
<1> DEFINE u == Append(t, Published("notice"))
<1>1. /\ OfIn(u, "notice") = OfIn(t, "notice") \cup {Len(t) + 1}
      /\ OfIn(u, "100%") = OfIn(t, "100%")
      /\ \A i \in 1..Len(t) : u[i] = t[i]
      /\ \A i \in 1..Len(u) : AttemptsWithin(u[i])
  BY OfAppend DEF NoticesPaid, Kinds
<1>2. Len(t) + 1 \notin OfIn(t, "notice") /\ h \in 1..Len(t)
  BY DEF OfIn
<1>3. Cardinality(OfIn(t, "notice") \cup {Len(t) + 1})
        = Cardinality(OfIn(t, "notice")) + 1
  BY <1>2, OfFinite, FS_AddElement
<1>4. Cardinality(OfIn(t, "notice")) \in Nat /\ Paid(t[h]) \in Nat
  BY <1>2, OfFinite, PaidType
<1>. HIDE DEF u
<1>5. Cardinality(OfIn(u, "notice")) <= Paid(u[h])
  <2>1. Cardinality(OfIn(u, "notice")) = Cardinality(OfIn(t, "notice")) + 1
    BY <1>1, <1>3, Zenon
  <2>2. u[h] = t[h]
    BY <1>1, <1>2
  <2>. QED
    BY <1>4, <2>1, <2>2
<1>6. \A g \in OfIn(t, "100%") : g = h
  BY DEF NoticesPaid
<1>. QED
  BY <1>1, <1>5, <1>6 DEF NoticesPaid, u

\* Each step of an invocation, Publish apart, updates its message so.
LEMMA HandlerPaid ==
  ASSUME Inv, NoticesPaid(topic), NEW i \in 1..Len(topic), Handler(i)
  PROVE  NoticesPaid(topic')
<1>1. /\ topic \in Seq(Message) /\ topic[i] \in Message /\ SoundMessage(topic[i])
      /\ AttemptsWithin(topic[i]) /\ MaxRetries \in Nat
  BY RetriesAssumption DEF Inv, TypeOK, TopicSound, Sound, NoticesPaid
<1>2. /\ topic[i].attempts \in Nat /\ topic[i].left \in Seq(Services)
      /\ topic[i].kind \in Kinds /\ topic[i].tried \subseteq Services
  BY <1>1 DEF Message
<1>3. CASE Publish(i)
  <2> DEFINE m == [topic[i] EXCEPT !.phase = "stopped"]
             t == [topic EXCEPT ![i] = m]
  <2>1. /\ m \in Message /\ m.kind = topic[i].kind /\ m.phase = "stopped"
        /\ m.attempts = topic[i].attempts
    BY <1>1, <1>3 DEF Publish, Message, Phases
  <2>2. topic[i].phase = "stopping" /\ topic' \in {t, Append(t, Published("notice"))}
    BY <1>1, <1>3 DEF Publish, Message
  <2>3. topic[i].kind = "100%"
    BY <1>1, <2>2 DEF SoundMessage
  <2>. HIDE DEF m
  <2>4. Paid(m) = Paid(topic[i]) + 1 /\ AttemptsWithin(m)
    BY <1>1, <1>2, <2>1, <2>2 DEF Paid, AttemptsWithin
  <2>5. Paid(topic[i]) \in Nat /\ Paid(m) \in Nat
    BY <1>1, <2>1, PaidType
  <2>6. /\ t \in Seq(Message) /\ Len(t) = Len(topic) /\ t[i] = m
        /\ \A kind : OfIn(t, kind) = OfIn(topic, kind)
        /\ NoticesPaid(t)
    BY <1>1, <2>1, <2>4, <2>5, UpdatePaid
  <2>7. i \in OfIn(topic, "100%")
    BY <2>3 DEF OfIn
  <2>8. Cardinality(OfIn(topic, "notice")) \in Nat
    BY <1>1, OfFinite
  <2>9. Cardinality(OfIn(topic, "notice")) <= Paid(topic[i])
    BY <2>7 DEF NoticesPaid
  <2>. HIDE DEF t
  <2>10. Cardinality(OfIn(t, "notice")) < Paid(t[i]) /\ i \in OfIn(t, "100%")
    BY <2>4, <2>5, <2>6, <2>7, <2>8, <2>9
  <2>11. NoticesPaid(Append(t, Published("notice")))
    BY <2>6, <2>10, PublishPaid
  <2>. QED
    BY <2>2, <2>6, <2>11
<1>4. CASE ~ Publish(i)
  <2>1. \E m \in Message :
          /\ topic' = [topic EXCEPT ![i] = m] /\ m.kind = topic[i].kind
          /\ Paid(topic[i]) <= Paid(m) /\ AttemptsWithin(m)
    <3>1. CASE Invoke(i)
      <4> DEFINE on == Activates(topic[i].kind)
      <4> DEFINE m == [topic[i] EXCEPT !.phase = IF on THEN "stopping" ELSE "done",
                                       !.left  = IF on THEN StopOrder ELSE <<>>]
      <4>1. topic' = [topic EXCEPT ![i] = m] /\ topic[i].phase = "queued"
        BY <1>1, <3>1 DEF Invoke, Message
      <4>2. <<>> \in Seq(Services)
        OBVIOUS
      <4>3. /\ m \in Message /\ m.kind = topic[i].kind
            /\ m.attempts = topic[i].attempts /\ m.phase # "dead"
        BY <1>1, <4>2, StopOrderType DEF Message, Phases
      <4>. HIDE DEF m
      <4>4. Paid(topic[i]) <= Paid(m) /\ AttemptsWithin(m)
        BY <1>1, <1>2, <4>1, <4>3 DEF Paid, AttemptsWithin
      <4>. QED
        BY <4>1, <4>3, <4>4
    <3>2. CASE Stop(i) \/ FailStop(i)
      <4> DEFINE m == [topic[i] EXCEPT !.left  = Tail(topic[i].left),
                                       !.tried = @ \cup {Head(topic[i].left)}]
      <4>1. topic' = [topic EXCEPT ![i] = m] /\ topic[i].left # <<>>
        BY <1>1, <3>2 DEF Stop, FailStop, Asked, Message
      <4>2. Head(topic[i].left) \in Services /\ Tail(topic[i].left) \in Seq(Services)
        BY <1>2, <4>1
      <4>3. /\ m \in Message /\ m.kind = topic[i].kind
            /\ m.attempts = topic[i].attempts /\ m.phase = topic[i].phase
        BY <1>1, <4>2 DEF Message
      <4>. HIDE DEF m
      <4>4. Paid(topic[i]) <= Paid(m) /\ AttemptsWithin(m)
        BY <1>1, <1>2, <4>3 DEF Paid, AttemptsWithin
      <4>. QED
        BY <4>1, <4>3, <4>4
    <3>3. CASE Return(i)
      <4> DEFINE m == [topic[i] EXCEPT !.phase = "done"]
      <4>1. topic' = [topic EXCEPT ![i] = m] /\ topic[i].phase = "stopped"
        BY <1>1, <3>3 DEF Return, Message
      <4>2. /\ m \in Message /\ m.kind = topic[i].kind
            /\ m.attempts = topic[i].attempts /\ m.phase = "done"
        BY <1>1 DEF Message, Phases
      <4>. HIDE DEF m
      <4>3. Paid(topic[i]) <= Paid(m) /\ AttemptsWithin(m)
        BY <1>1, <1>2, <4>1, <4>2 DEF Paid, AttemptsWithin
      <4>. QED
        BY <4>1, <4>2, <4>3
    <3>4. CASE Timeout(i)
      <4> DEFINE m == [topic[i] EXCEPT
                         !.phase = IF topic[i].attempts < MaxRetries THEN "queued"
                                                                     ELSE "dead",
                         !.attempts = @ + 1, !.left = <<>>, !.tried = {}]
      <4>1. /\ topic' = [topic EXCEPT ![i] = m]
            /\ topic[i].phase \in {"stopping", "stopped"}
        BY <1>1, <3>4 DEF Timeout, Message
      <4>2. <<>> \in Seq(Services) /\ topic[i].attempts + 1 \in Nat
        BY <1>2
      <4>3. /\ m \in Message /\ m.kind = topic[i].kind
            /\ m.attempts = topic[i].attempts + 1
            /\ m.phase = IF topic[i].attempts < MaxRetries THEN "queued" ELSE "dead"
        BY <1>1, <4>2 DEF Message, Phases
      <4>. HIDE DEF m
      <4>4. Paid(topic[i]) <= Paid(m) /\ AttemptsWithin(m)
        BY <1>1, <1>2, <4>1, <4>3 DEF Paid, AttemptsWithin
      <4>. QED
        BY <4>1, <4>3, <4>4
    <3>. QED
      BY <1>4, <3>1, <3>2, <3>3, <3>4 DEF Handler
  <2>2. PICK m \in Message :
          /\ topic' = [topic EXCEPT ![i] = m] /\ m.kind = topic[i].kind
          /\ Paid(topic[i]) <= Paid(m) /\ AttemptsWithin(m)
    BY <2>1
  <2>3. NoticesPaid([topic EXCEPT ![i] = m])
    BY <1>1, <2>2, UpdatePaid
  <2>. QED
    BY <2>2, <2>3
<1>. QED
  BY <1>3, <1>4

LEMMA PaidStep == Inv /\ TopicPaid /\ [Next]_vars => TopicPaid'
<1> SUFFICES ASSUME Inv, NoticesPaid(topic), [Next]_vars PROVE NoticesPaid(topic')
  BY DEF TopicPaid
<1>1. CASE Spend
  <2>1. /\ spend \in 0..2 /\ topic \in Seq(Message)
        /\ topic' = Append(topic, Published(Thresholds[spend + 1]))
    BY <1>1, Numbers DEF Spend, Inv, TypeOK
  <2>2. Thresholds[spend + 1] \in Kinds \ {"notice"}
    BY <2>1, Numbers DEF Kinds
  <2>3. OfIn(topic, "100%") = {}
    BY <2>1, Numbers DEF Inv, TopicSound, Sound, OfIn
  <2>. QED
    BY <2>1, <2>2, <2>3, NotifyPaid
<1>2. CASE \E i \in 1..Len(topic) : Handler(i)
  BY <1>2, HandlerPaid
<1>3. CASE ~ Spend /\ ~ \E i \in 1..Len(topic) : Handler(i)
  BY <1>3 DEF Next, Age, Drain, Apply, Scaling, ScaleOut, ScaleIn, vars
<1>. QED
  BY <1>1, <1>2, <1>3

\* However many retries and attempts: a notification of 100% causes at most
\* one notice an attempt, and no notice causes another.
THEOREM NoSelfTrigger == Spec => []NoticesBounded
<1>1. Init => TopicPaid
  BY DEF Init, TopicPaid, NoticesPaid, OfIn
<1>2. Inv /\ TopicPaid => NoticesBounded
  <2> SUFFICES ASSUME Inv, NoticesPaid(topic) PROVE NoticesBounded
    BY DEF TopicPaid
  <2>1. topic \in Seq(Message) /\ MaxRetries \in Nat
    BY RetriesAssumption DEF Inv, TypeOK
  <2>2. Of("notice") = OfIn(topic, "notice") /\ Of("100%") = OfIn(topic, "100%")
    BY DEF Of, OfIn
  <2>3. CASE OfIn(topic, "100%") = {}
    <3>1. Of("notice") = {} /\ Of("100%") = {}
      BY <2>2, <2>3 DEF NoticesPaid
    <3>2. Cardinality(Of("notice")) = 0 /\ Cardinality(Of("100%")) = 0
      BY <3>1, FS_EmptySet, Zenon
    <3>. QED
      BY <2>1, <3>2 DEF NoticesBounded
  <2>4. CASE OfIn(topic, "100%") # {}
    <3>1. PICK h \in OfIn(topic, "100%") : TRUE
      BY <2>4
    <3>2. OfIn(topic, "100%") = {h} /\ h \in 1..Len(topic)
      BY <3>1 DEF NoticesPaid, OfIn
    <3>3. Cardinality(OfIn(topic, "100%")) = 1
      BY <3>2, FS_Singleton, Zenon
    <3>4. /\ Cardinality(OfIn(topic, "notice")) <= Paid(topic[h])
          /\ AttemptsWithin(topic[h]) /\ topic[h] \in Message
      BY <2>1, <3>1, <3>2 DEF NoticesPaid
    <3>5. Paid(topic[h]) <= MaxRetries + 1
      BY <2>1, <3>4 DEF Paid, AttemptsWithin, Message
    <3>6. /\ Cardinality(OfIn(topic, "notice")) \in Nat
          /\ Paid(topic[h]) \in Nat
      BY <2>1, <3>4, OfFinite, PaidType
    <3>7. Cardinality(OfIn(topic, "notice")) <= MaxRetries + 1
      BY <2>1, <3>4, <3>5, <3>6
    <3>. QED
      BY <2>1, <2>2, <3>3, <3>7 DEF NoticesBounded
  <2>. QED
    BY <2>3, <2>4
<1>. QED
  BY <1>1, <1>2, PaidStep, Invariance, PTL DEF Spec
=============================================================================
