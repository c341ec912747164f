------------------------ MODULE TelemetryIngestProofs ------------------------
(***************************************************************************)
(* Proofs about TelemetryIngest for any samples, replayers, retries and    *)
(* requests, in every delivery mode; and what its checks let through and   *)
(* count, for every request and any number of labels.                      *)
(***************************************************************************)
EXTENDS TelemetryIngest, WellFoundedInduction, TLAPS

-----------------------------------------------------------------------------
(* The inductive invariant.                                                *)

\* An object lies under the key of its own sample, in S3 and in a copy.
ObjectsKeyed == \A o \in buffer : o.key = Key(o.sample)

CopiesKeyed == \A r \in Replayers : \A c \in copy[r] : c.key = Key(c.sample)

\* A replayer works on one object at a time.
OneCopy == \A r \in Replayers : \A c, d \in copy[r] : c.key = d.key

\* What is about to be deleted has been delivered.
DeliveredBeforeDelete ==
  mode = "remote" =>
    \A r \in Replayers : rstep[r] = "delete" => \A c \in copy[r] : c.sample \in amp

IInv ==
  /\ TypeOK
  /\ ObjectsKeyed
  /\ CopiesKeyed
  /\ OneCopy
  /\ DeliveredBeforeDelete

\* The key of a sample identifies it: two samples never share an object.
LEMMA KeyInjective ==
  ASSUME NEW s \in Samples, NEW t \in Samples, Key(s) = Key(t)
  PROVE  s = t
  BY DEF Samples, Key

LEMMA CountType ==
  ASSUME NEW c \in [Counters -> Nat], NEW counter \in Counters
  PROVE  Count(c, counter) \in [Counters -> Nat]
  BY DEF Count

LEMMA CounterNames ==
  /\ "attempt" \in Counters /\ "retry" \in Counters /\ "failed" \in Counters
  /\ "write" \in Counters /\ "writeFailed" \in Counters
  /\ "accepted" \in Counters /\ "rejected" \in Counters
  /\ "pii" \in Counters /\ "cardinality" \in Counters /\ "metric" \in Counters
  BY DEF Counters, Classes

LEMMA StoredType ==
  ASSUME TypeOK, NEW s \in Samples
  PROVE  Stored(s) \subseteq Object
  BY DEF TypeOK, Stored, Object, Keys

-----------------------------------------------------------------------------
(* Type correctness of a step.                                             *)

LEMMA InitType == Init => TypeOK
<1>1. NoCount \in [Counters -> Nat]
  BY DEF NoCount
<1>. QED
  BY <1>1, ModesAssumption, BoundsAssumption DEF Init, TypeOK

LEMMA TypeStep == TypeOK /\ [Next]_vars => TypeOK'
<1> SUFFICES ASSUME TypeOK, [Next]_vars PROVE TypeOK'
  OBVIOUS
<1>0. NoCount \in [Counters -> Nat]
  BY DEF NoCount
<1>c. \A x, y \in Counters : /\ Count(counters, x) \in [Counters -> Nat]
                            /\ Count(Count(counters, x), y) \in [Counters -> Nat]
  BY CountType DEF TypeOK
<1>b. MaxRequests \in Nat
  BY BoundsAssumption
<1>e. Done => /\ step' = "idle" /\ current' = {}
              /\ current' \in SUBSET Samples /\ outcomes' \in Seq(Outcome)
  BY DEF Done
<1>1. CASE Refuse
  <2>1. counters' \in [Counters -> Nat]
    BY <1>1 DEF TypeOK, Refuse, Filed
  <2>2. sent' \in 0..MaxRequests
    BY <1>1, <1>b DEF Refuse, TypeOK
  <2>. QED
    BY <1>1, <2>1, <2>2 DEF TypeOK, Refuse, configVars, apiVars, bucketVars, replayVars
<1>2. CASE CrashApi
  BY <1>2, <1>0 DEF TypeOK, CrashApi, Done, configVars, bucketVars, replayVars
<1>x. CASE ExpireObject
  <2>1. buffer' \subseteq Object /\ expired' \subseteq Samples
    BY <1>x DEF TypeOK, ExpireObject, Object
  <2>. QED
    BY <1>x, <2>1 DEF TypeOK, ExpireObject, configVars, apiVars, replayVars
<1>3. ASSUME NEW s \in Samples, Ingest(s) PROVE TypeOK'
  <2>1. counters' \in [Counters -> Nat]
    BY <1>3, <1>c, CounterNames DEF Ingest
  <2>0. sent' \in 0..MaxRequests
    BY <1>3, <1>b DEF TypeOK, Ingest
  <2>2. /\ step' \in {"idle", "deliver", "write"}
        /\ current' \in SUBSET Samples
        /\ current' = {} <=> step' = "idle"
        /\ acked' \subseteq Samples
    BY <1>3 DEF TypeOK, Ingest, apiVars
  <2>3. outcomes' = <<>> \/ outcomes' = outcomes
    BY <1>3 DEF Ingest, apiVars
  <2>e. <<>> \in Seq(Outcome)
    OBVIOUS
  <2>4. outcomes' \in Seq(Outcome)
    BY <2>3, <2>e DEF TypeOK
  <2>. QED
    BY <1>3, <2>0, <2>1, <2>2, <2>4 DEF TypeOK, Ingest, configVars, bucketVars, replayVars
<1>4. ASSUME NEW s \in Samples, Deliver(s) PROVE TypeOK'
  <2>1. counters' \in [Counters -> Nat]
    BY <1>4, <1>c, CounterNames DEF Deliver
  <2>. QED
    BY <1>4, <2>1 DEF TypeOK, Deliver, Taken, Done, configVars, bucketVars, replayVars
<1>5. ASSUME NEW s \in Samples, Retry(s) PROVE TypeOK'
  <2>1. outcomes' \in Seq(Outcome) /\ amp' \subseteq Samples
    BY <1>5 DEF TypeOK, Retry, Failures, Taken, Outcome
  <2>2. counters' \in [Counters -> Nat]
    BY <1>5, <1>c, CounterNames DEF Retry
  <2>. QED
    BY <1>5, <2>1, <2>2 DEF TypeOK, Retry, configVars, bucketVars, replayVars
<1>6. ASSUME NEW s \in Samples, GiveUp(s) PROVE TypeOK'
  <2>1. PICK o \in Failures :
          /\ amp' = IF o = "lost" THEN Taken(s) ELSE amp
          /\ LET tries == Append(outcomes, o) IN
             IF s3 = "enabled"
             THEN /\ step' = "write" /\ outcomes' = tries
                  /\ counters' = Count(counters, "failed")
                  /\ UNCHANGED current
             ELSE /\ counters' = Count(Count(counters, "failed"), "rejected")
                  /\ Done
    BY <1>6 DEF GiveUp
  <2>2. o \in Outcome /\ Append(outcomes, o) \in Seq(Outcome) /\ amp' \subseteq Samples
    BY <2>1 DEF TypeOK, Failures, Taken, Outcome
  <2>3. /\ counters' \in [Counters -> Nat]
        /\ step' \in {"idle", "deliver", "write"}
        /\ current' \in SUBSET Samples
        /\ current' = {} <=> step' = "idle"
        /\ outcomes' \in Seq(Outcome)
    <3>1. CASE s3 = "enabled"
      <4>1. counters' = Count(counters, "failed") /\ step' = "write"
            /\ outcomes' = Append(outcomes, o) /\ current' = current
        BY <3>1, <2>1
      <4>. QED
        BY <1>6, <4>1, <2>2, <1>c, CounterNames DEF TypeOK, GiveUp
    <3>2. CASE s3 # "enabled"
      <4>1. counters' = Count(Count(counters, "failed"), "rejected") /\ Done
        BY <3>2, <2>1
      <4>2. counters' \in [Counters -> Nat]
        BY <4>1, <1>c, CounterNames
      <4>. QED
        BY <4>1, <4>2, <1>e
    <3>. QED
      BY <3>1, <3>2
  <2>. QED
    BY <1>6, <2>2, <2>3 DEF TypeOK, GiveUp, configVars, bucketVars, replayVars
<1>7. ASSUME NEW s \in Samples, WriteBuffer(s) \/ FailWrite(s) PROVE TypeOK'
  <2>1. counters' \in [Counters -> Nat]
    BY <1>7, <1>c, CounterNames DEF WriteBuffer, FailWrite
  <2>2. buffer' \subseteq Object /\ expired' \subseteq Samples
    BY <1>7, StoredType DEF TypeOK, WriteBuffer, FailWrite, Put, bucketVars
  <2>. QED
    BY <1>7, <1>e, <2>1, <2>2
    DEF TypeOK, WriteBuffer, FailWrite, configVars, replayVars
<1>8. ASSUME NEW r \in Replayers, Replaying(r) PROVE TypeOK'
  <2>1. amp' \subseteq Samples /\ buffer' \subseteq Object /\ expired' \subseteq Samples
    BY <1>8
    DEF TypeOK, Replaying, Scan, Read, EndScan, Replay, FailReplay, DeleteObject,
        FailDelete, CrashReplay, Taken, Object, bucketVars
  <2>2. /\ rstep' \in [Replayers -> {"off", "scan", "deliver", "delete"}]
        /\ todo' \in [Replayers -> SUBSET Keys]
        /\ copy' \in [Replayers -> SUBSET Object]
    <3>1. CASE Scan(r)
      <4>1. {o.key : o \in buffer} \subseteq Keys
        BY DEF TypeOK, Object
      <4>. QED
        BY <3>1, <4>1 DEF TypeOK, Scan
    <3>4. CASE Replay(r) \/ CrashReplay(r)
      BY <3>4 DEF TypeOK, Replay, CrashReplay
    <3>2. CASE Read(r)
      BY <3>2 DEF TypeOK, Read
    <3>3. CASE EndScan(r) \/ FailReplay(r) \/ DeleteObject(r) \/ FailDelete(r)
      BY <3>3 DEF TypeOK, EndScan, FailReplay, DeleteObject, FailDelete, NextObject
    <3>. QED
      BY <1>8, <3>1, <3>2, <3>3, <3>4 DEF Replaying
  <2>. QED
    BY <1>8, <2>1, <2>2
    DEF TypeOK, Replaying, Scan, Read, EndScan, Replay, FailReplay, DeleteObject,
        FailDelete, CrashReplay, configVars, apiVars
<1>9. CASE UNCHANGED vars
  BY <1>9 DEF TypeOK, vars, configVars, apiVars, bucketVars, replayVars
<1>. QED
  BY <1>1, <1>2, <1>x, <1>3, <1>4, <1>5, <1>6, <1>7, <1>8, <1>9 DEF Next, Serve

-----------------------------------------------------------------------------
(* Objects, copies and deletions.                                          *)

\* A step takes nothing out of AMP and does not reconfigure the service.
LEMMA AmpGrows == [Next]_vars => amp \subseteq amp' /\ mode' = mode
<1> SUFFICES ASSUME [Next]_vars PROVE amp \subseteq amp' /\ mode' = mode
  OBVIOUS
<1>1. CASE Refuse \/ CrashApi \/ ExpireObject
  BY <1>1 DEF Refuse, CrashApi, ExpireObject, configVars
<1>2. ASSUME NEW s \in Samples, Serve(s) PROVE amp \subseteq amp' /\ mode' = mode
  BY <1>2
  DEF Serve, Ingest, Deliver, Retry, GiveUp, WriteBuffer, FailWrite, Taken, configVars
<1>3. ASSUME NEW r \in Replayers, Replaying(r)
      PROVE  amp \subseteq amp' /\ mode' = mode
  BY <1>3
  DEF Replaying, Scan, Read, EndScan, Replay, FailReplay, DeleteObject, FailDelete,
      CrashReplay, Taken, configVars
<1>4. CASE UNCHANGED vars
  BY <1>4 DEF vars, configVars
<1>. QED
  BY <1>1, <1>2, <1>3, <1>4 DEF Next

\* Where objects come from: the sample of the request that is being served.
LEMMA NewObjects ==
  ASSUME [Next]_vars, NEW o \in buffer'
  PROVE  o \in buffer \/ \E s \in Samples : o = [key |-> Key(s), sample |-> s]
<1>1. CASE Refuse \/ CrashApi \/ ExpireObject
  BY <1>1 DEF Refuse, CrashApi, ExpireObject, bucketVars
<1>2. ASSUME NEW s \in Samples, Serve(s)
      PROVE  o \in buffer \/ o = [key |-> Key(s), sample |-> s]
  BY <1>2
  DEF Serve, Ingest, Deliver, Retry, GiveUp, WriteBuffer, FailWrite, Put, Stored,
      bucketVars
<1>3. ASSUME NEW r \in Replayers, Replaying(r) PROVE o \in buffer
  BY <1>3
  DEF Replaying, Scan, Read, EndScan, Replay, FailReplay, DeleteObject, FailDelete,
      CrashReplay, bucketVars
<1>4. CASE UNCHANGED vars
  BY <1>4 DEF vars, bucketVars
<1>. QED
  BY <1>1, <1>2, <1>3, <1>4 DEF Next

LEMMA InvStep == IInv /\ [Next]_vars => IInv'
<1> SUFFICES ASSUME IInv, [Next]_vars PROVE IInv'
  OBVIOUS
<1>t. TypeOK /\ ObjectsKeyed /\ CopiesKeyed /\ OneCopy /\ DeliveredBeforeDelete
  BY DEF IInv
<1>a. amp \subseteq amp' /\ mode' = mode
  BY AmpGrows
<1>1. TypeOK'
  BY <1>t, TypeStep
<1>2. ObjectsKeyed'
  BY <1>t, NewObjects DEF ObjectsKeyed
<1>3. CASE UNCHANGED replayVars
  BY <1>3, <1>1, <1>2, <1>t, <1>a
  DEF IInv, replayVars, CopiesKeyed, OneCopy, DeliveredBeforeDelete
<1>4. ASSUME NEW r \in Replayers, Replaying(r)
      PROVE  CopiesKeyed' /\ OneCopy' /\ DeliveredBeforeDelete'
  <2>1. CASE Scan(r)
    BY <2>1, <1>t
    DEF TypeOK, Scan, CopiesKeyed, OneCopy, DeliveredBeforeDelete, configVars
  <2>2. CASE Read(r)
    <3>1. PICK k \in todo[r] :
            LET found == {o \in buffer : o.key = k} IN
            /\ copy' = [copy EXCEPT ![r] = found]
            /\ rstep' = [rstep EXCEPT ![r] = IF found = {} THEN "scan" ELSE "deliver"]
      BY <2>2 DEF Read
    <3>2. \A c \in copy'[r] : c.key = Key(c.sample) /\ c.key = k
      BY <3>1, <1>t DEF TypeOK, ObjectsKeyed
    <3>3. /\ \A q \in Replayers \ {r} : copy'[q] = copy[q] /\ rstep'[q] = rstep[q]
          /\ rstep'[r] # "delete"
      BY <3>1, <1>t DEF TypeOK
    <3>4. CopiesKeyed' /\ OneCopy'
      BY <3>2, <3>3, <1>t DEF CopiesKeyed, OneCopy
    <3>5. DeliveredBeforeDelete'
      BY <3>3, <1>t, <1>a DEF DeliveredBeforeDelete
    <3>. QED
      BY <3>4, <3>5
  <2>3. CASE EndScan(r) \/ FailReplay(r) \/ DeleteObject(r) \/ FailDelete(r) \/ CrashReplay(r)
    <3>1. /\ copy' = [copy EXCEPT ![r] = {}]
          /\ \E x \in {"off", "scan"} : rstep' = [rstep EXCEPT ![r] = x]
      BY <2>3
      DEF EndScan, FailReplay, DeleteObject, FailDelete, CrashReplay, NextObject
    <3>. QED
      BY <3>1, <1>t, <1>a
      DEF TypeOK, CopiesKeyed, OneCopy, DeliveredBeforeDelete
  <2>4. CASE Replay(r)
    <3>1. PICK o \in copy[r] : amp' = Taken(o.sample)
      BY <2>4 DEF Replay
    <3>2. copy' = copy /\ rstep' = [rstep EXCEPT ![r] = "delete"]
      BY <2>4 DEF Replay
    <3>3. ASSUME NEW c \in copy[r] PROVE c.sample = o.sample
      <4>1. c.key = o.key /\ c.key = Key(c.sample) /\ o.key = Key(o.sample)
        BY <1>t DEF OneCopy, CopiesKeyed
      <4>2. c.sample \in Samples /\ o.sample \in Samples
        BY <1>t DEF TypeOK, Object
      <4>. QED
        BY <4>1, <4>2, KeyInjective
    <3>4. mode = "remote" => \A c \in copy[r] : c.sample \in amp'
      BY <3>1, <3>3 DEF Taken
    <3>5. DeliveredBeforeDelete'
      BY <3>2, <3>4, <1>t, <1>a DEF TypeOK, DeliveredBeforeDelete
    <3>. QED
      BY <3>2, <3>5, <1>t DEF CopiesKeyed, OneCopy
  <2>. QED
    BY <1>4, <2>1, <2>2, <2>3, <2>4 DEF Replaying
<1>5. (\A r \in Replayers : ~ Replaying(r)) => UNCHANGED replayVars
  BY DEF Next, Refuse, CrashApi, ExpireObject, Serve, Ingest, Deliver, Retry, GiveUp,
         WriteBuffer, FailWrite, vars
<1>. QED
  BY <1>1, <1>2, <1>3, <1>4, <1>5 DEF IInv

\* The invariant holds in every reachable state of TelemetryIngest.
THEOREM Invariance == Spec => []IInv
<1>1. Init => IInv
  BY InitType
  DEF Init, IInv, ObjectsKeyed, CopiesKeyed, OneCopy, DeliveredBeforeDelete
<1>. QED
  BY <1>1, InvStep, PTL DEF Spec

\* The state of the API, its stores and the replayers keeps its type.
THEOREM TypeCorrect == Spec => []TypeOK
<1>1. IInv => TypeOK
  BY DEF IInv
<1>. QED
  BY <1>1, Invariance, PTL

-----------------------------------------------------------------------------
(* The retry loop and the counters.                                        *)

LEMMA GiveUpStep == TypeOK /\ GiveUpJustified /\ [Next]_vars => GiveUpJustified'
<1> SUFFICES ASSUME TypeOK, GiveUpJustified, [Next]_vars PROVE GiveUpJustified'
  OBVIOUS
<1>b. MaxRetries \in Nat
  BY BoundsAssumption
<1>1. CASE step' = "idle"
  BY <1>1 DEF GiveUpJustified
<1>2. CASE step' = step /\ outcomes' = outcomes
  BY <1>2 DEF GiveUpJustified
<1>3. ASSUME NEW s \in Samples, Ingest(s) PROVE GiveUpJustified'
  <2>1. CASE mode = "disabled"
    BY <2>1, <1>3, <1>2 DEF Ingest, apiVars
  <2>2. CASE mode # "disabled"
    BY <2>2, <1>3, <1>b DEF Ingest, GiveUpJustified
  <2>. QED
    BY <2>1, <2>2
<1>4. ASSUME NEW s \in Samples, Retry(s) PROVE GiveUpJustified'
  <2>1. PICK o \in Failures : outcomes' = Append(outcomes, o) /\ Retries(outcomes')
    BY <1>4 DEF Retry
  <2>2. /\ step = "deliver" /\ step' = "deliver"
        /\ outcomes \in Seq(Outcome) /\ o \in Outcome
    BY <1>4 DEF Retry, TypeOK, Failures, Outcome
  <2>3. /\ Len(outcomes') = Len(outcomes) + 1
        /\ \A i \in 1..Len(outcomes) : outcomes'[i] = outcomes[i]
    BY <2>1, <2>2
  <2>4. Len(outcomes') <= MaxRetries /\ outcomes'[Len(outcomes')] # "permanent"
    BY <2>1 DEF Retries, RetriesLeft
  <2>5. Len(outcomes) \in Nat
    BY <2>2
  <2>. QED
    BY <2>2, <2>3, <2>4, <2>5 DEF GiveUpJustified
<1>5. ASSUME NEW s \in Samples, GiveUp(s) PROVE GiveUpJustified'
  <2>1. PICK o \in Failures :
          LET tries == Append(outcomes, o) IN
          /\ ~ Retries(tries)
          /\ IF s3 = "enabled" THEN step' = "write" /\ outcomes' = tries ELSE Done
    BY <1>5 DEF GiveUp
  <2>2. CASE s3 = "enabled"
    <3>1. /\ step = "deliver" /\ step' = "write"
          /\ outcomes \in Seq(Outcome) /\ o \in Outcome
          /\ outcomes' = Append(outcomes, o) /\ ~ Retries(outcomes')
      BY <1>5, <2>1, <2>2 DEF GiveUp, TypeOK, Failures, Outcome
    <3>2. /\ Len(outcomes') = Len(outcomes) + 1 /\ Len(outcomes) \in Nat
          /\ \A i \in 1..Len(outcomes) : outcomes'[i] = outcomes[i]
      BY <3>1
    <3>3. \/ Len(outcomes') > MaxRetries
          \/ outcomes'[Len(outcomes')] = "permanent"
      BY <3>1, <3>2, <1>b DEF Retries, RetriesLeft
    <3>4. /\ Len(outcomes) <= MaxRetries
          /\ \A i \in 1..Len(outcomes) : outcomes[i] # "permanent"
      BY <3>1 DEF GiveUpJustified
    <3>. QED
      BY <3>1, <3>2, <3>3, <3>4, <1>b DEF GiveUpJustified
  <2>3. CASE s3 # "enabled"
    BY <2>1, <2>3, <1>1 DEF Done
  <2>. QED
    BY <2>2, <2>3
<1>. QED
  BY <1>1, <1>2, <1>3, <1>4, <1>5
  DEF Next, Serve, Replaying, Refuse, CrashApi, ExpireObject, Deliver, WriteBuffer,
      FailWrite, Done, Scan, Read, EndScan, Replay, FailReplay, DeleteObject, FailDelete, CrashReplay,
      apiVars, vars

\* A class of refusals is disjoint from the others.
LEMMA OneClass ==
  ASSUME NEW reason \in Reasons
  PROVE  /\ "rejected" \in CountersOf(reason)
         /\ \E class \in Classes : CountersOf(reason) \subseteq {"rejected", class}
  BY DEF CountersOf, PiiReasons, CardinalityReasons, MetricReasons, Classes

LEMMA BalanceStep == TypeOK /\ CountersBalance /\ [Next]_vars => CountersBalance'
<1> SUFFICES ASSUME TypeOK, CountersBalance, [Next]_vars PROVE CountersBalance'
  OBVIOUS
<1>t. counters \in [Counters -> Nat]
  BY DEF TypeOK
<1>n. \A c \in Counters : counters[c] \in Nat
  BY <1>t
<1>m. /\ counters["attempt"] \in Nat /\ counters["write"] \in Nat
      /\ counters["accepted"] \in Nat /\ counters["failed"] \in Nat
      /\ counters["writeFailed"] \in Nat /\ counters["rejected"] \in Nat
      /\ counters["pii"] \in Nat /\ counters["cardinality"] \in Nat
      /\ counters["metric"] \in Nat
  BY <1>n, CounterNames
<1>1. CASE UNCHANGED <<mode, s3, step, counters>>
  BY <1>1 DEF CountersBalance, Pending
<1>2. CASE Refuse
  <2>1. PICK reason \in Reasons : counters' = Filed(reason)
    BY <1>2 DEF Refuse
  <2>2. \A c \in Counters :
          counters'[c] = counters[c] + (IF c \in CountersOf(reason) THEN 1 ELSE 0)
    BY <2>1 DEF Filed
  <2>3. PICK class \in Classes : CountersOf(reason) \subseteq {"rejected", class}
    BY OneClass
  <2>4. /\ counters'["rejected"] = counters["rejected"] + 1
        /\ \A c \in Counters \ {"rejected", class} : counters'[c] = counters[c]
        /\ counters'[class] <= counters[class] + 1 /\ counters'[class] \in Nat
    BY <2>2, <2>3, OneClass, CounterNames, <1>n DEF Classes
  <2>5. counters'["pii"] + counters'["cardinality"] + counters'["metric"]
          <= counters["pii"] + counters["cardinality"] + counters["metric"] + 1
    BY <2>3, <2>4, <1>n, CounterNames DEF Classes
  <2>6. \A c \in {"attempt", "accepted", "failed", "write", "writeFailed"} :
          counters'[c] = counters[c]
    BY <2>3, <2>4, CounterNames DEF Classes
  <2>7. UNCHANGED <<mode, s3, step>>
    BY <1>2 DEF Refuse, configVars, apiVars
  <2>. QED
    BY <2>4, <2>5, <2>6, <2>7, <1>n, CounterNames DEF CountersBalance, Pending
<1>3. CASE CrashApi
  <2>1. UNCHANGED <<mode, s3>> /\ step' = "idle" /\ counters' = NoCount
    BY <1>3 DEF CrashApi, Done, configVars
  <2>. QED
    BY <2>1, CounterNames DEF CountersBalance, Pending, NoCount
<1>4. ASSUME NEW s \in Samples, Serve(s) PROVE CountersBalance'
  <2>c. \A x, y \in Counters, c \in [Counters -> Nat] :
          Count(c, x)[y] = c[y] + (IF y = x THEN 1 ELSE 0)
    BY DEF Count
  <2>d. ASSUME NEW x \in Counters, NEW y \in Counters \ {x},
               counters' = Count(Count(counters, x), y)
        PROVE  /\ counters'[x] = counters[x] + 1 /\ counters'[y] = counters[y] + 1
               /\ \A z \in Counters \ {x, y} : counters'[z] = counters[z]
    BY <2>d, <1>t, <1>n DEF Count
  <2>0. UNCHANGED <<mode, s3>>
    BY <1>4
    DEF Serve, Ingest, Deliver, Retry, GiveUp, WriteBuffer, FailWrite, configVars
  <2>1. CASE Ingest(s)
    <3>1. CASE mode = "disabled"
      <4>1. counters' = Count(counters, "accepted") /\ step' = step
        BY <2>1, <3>1 DEF Ingest, apiVars
      <4>. QED
        BY <3>1, <4>1, <2>0, <2>c, <1>t, <1>n, CounterNames DEF CountersBalance, Pending
    <3>2. CASE mode # "disabled"
      <4>1. counters' = Count(counters, "attempt") /\ step' = "deliver" /\ step = "idle"
        BY <2>1, <3>2 DEF Ingest
      <4>. QED
        BY <4>1, <2>0, <2>c, <1>t, <1>n, CounterNames DEF CountersBalance, Pending
    <3>. QED
      BY <3>1, <3>2
  <2>2. CASE Deliver(s)
    <3>1. /\ counters' = Count(counters, "accepted")
          /\ step = "deliver" /\ step' = "idle"
      BY <2>2 DEF Deliver, Done
    <3>. QED
      BY <3>1, <2>0, <2>c, <1>t, <1>n, CounterNames DEF CountersBalance, Pending
  <2>3. CASE Retry(s)
    <3>1. counters' = Count(counters, "retry") /\ step' = step
      BY <2>3 DEF Retry
    <3>. QED
      BY <3>1, <2>0, <2>c, <1>t, <1>n, CounterNames DEF CountersBalance, Pending
  <2>4. CASE GiveUp(s)
    <3>1. CASE s3 = "enabled"
      <4>1. /\ counters' = Count(counters, "failed")
            /\ step = "deliver" /\ step' = "write"
        BY <2>4, <3>1 DEF GiveUp
      <4>. QED
        BY <4>1, <2>0, <2>c, <1>t, <1>n, CounterNames DEF CountersBalance, Pending
    <3>2. CASE s3 # "enabled"
      <4>1. /\ counters' = Count(Count(counters, "failed"), "rejected")
            /\ step = "deliver" /\ step' = "idle"
        BY <2>4, <3>2 DEF GiveUp, Done
      <4>2. /\ counters'["failed"] = counters["failed"] + 1
            /\ counters'["rejected"] = counters["rejected"] + 1
            /\ \A z \in Counters \ {"failed", "rejected"} : counters'[z] = counters[z]
        BY <4>1, <2>d, CounterNames
      <4>. QED
        BY <3>2, <4>1, <4>2, <2>0, <1>n, CounterNames DEF CountersBalance, Pending
    <3>. QED
      BY <3>1, <3>2
  <2>5. CASE WriteBuffer(s)
    <3>1. /\ counters' = Count(Count(counters, "write"), "accepted")
          /\ step = "write" /\ step' = "idle"
      BY <2>5 DEF WriteBuffer, Done
    <3>2. /\ counters'["write"] = counters["write"] + 1
          /\ counters'["accepted"] = counters["accepted"] + 1
          /\ \A z \in Counters \ {"write", "accepted"} : counters'[z] = counters[z]
      BY <3>1, <2>d, CounterNames
    <3>3. /\ counters'["pii"] = counters["pii"]
          /\ counters'["cardinality"] = counters["cardinality"]
          /\ counters'["metric"] = counters["metric"]
          /\ counters'["writeFailed"] = counters["writeFailed"]
          /\ counters'["rejected"] = counters["rejected"]
          /\ counters'["attempt"] = counters["attempt"]
          /\ counters'["failed"] = counters["failed"]
      BY <3>2, CounterNames
    <3>4. mode # "disabled" =>
            counters["attempt"] + counters["write"] = counters["accepted"] + counters["failed"]
      BY <1>m, <3>1 DEF CountersBalance, Pending
    <3>5. mode # "disabled" => counters'["attempt"] + counters'["write"]
                                 = counters'["accepted"] + counters'["failed"]
      BY <1>m, <3>2, <3>3, <3>4
    <3>6. s3 = "enabled" => counters'["failed"] = counters'["write"] + counters'["writeFailed"]
      BY <1>m, <3>1, <3>2, <3>3 DEF CountersBalance, Pending
    <3>. QED
      BY <1>m, <3>1, <3>2, <3>3, <3>5, <3>6, <2>0 DEF CountersBalance, Pending
  <2>6. CASE FailWrite(s)
    <3>1. /\ counters' = Count(Count(counters, "writeFailed"), "rejected")
          /\ step = "write" /\ step' = "idle"
      BY <2>6 DEF FailWrite, Done
    <3>2. /\ counters'["writeFailed"] = counters["writeFailed"] + 1
          /\ counters'["rejected"] = counters["rejected"] + 1
          /\ \A z \in Counters \ {"writeFailed", "rejected"} : counters'[z] = counters[z]
      BY <3>1, <2>d, CounterNames
    <3>. QED
      BY <3>1, <3>2, <2>0, <1>n, CounterNames DEF CountersBalance, Pending
  <2>. QED
    BY <1>4, <2>1, <2>2, <2>3, <2>4, <2>5, <2>6 DEF Serve
<1>5. ASSUME NEW r \in Replayers, Replaying(r) PROVE CountersBalance'
  BY <1>5, <1>1
  DEF Replaying, Scan, Read, EndScan, Replay, FailReplay, DeleteObject, FailDelete,
      CrashReplay, configVars, apiVars
<1>6. CASE ExpireObject \/ UNCHANGED vars
  BY <1>6, <1>1 DEF ExpireObject, vars, configVars, apiVars
<1>. QED
  BY <1>2, <1>3, <1>4, <1>5, <1>6 DEF Next

\* The retry loop gives up only on a permanent error or after the last of
\* MaxRetries + 1 deliveries, and retries nothing after a permanent error.
THEOREM GivesUpInTime == Spec => []GiveUpJustified
<1>1. Init => GiveUpJustified
  BY DEF Init, GiveUpJustified
<1>. QED
  BY <1>1, GiveUpStep, TypeCorrect, PTL DEF Spec

\* The counters of a process add up, whatever it answered.
THEOREM CountersAddUp == Spec => []CountersBalance
<1>1. Init => CountersBalance
  BY CounterNames DEF Init, CountersBalance, NoCount, Pending
<1>. QED
  BY <1>1, BalanceStep, TypeCorrect, PTL DEF Spec

-----------------------------------------------------------------------------
(* Refinement.                                                             *)

InBuffer == {o.sample : o \in buffer}

\* A put keeps what the buffer held: it can only replace its own sample.
LEMMA PutKeeps ==
  ASSUME IInv, NEW s \in Samples, buffer' = Stored(s)
  PROVE  InBuffer' = InBuffer \cup {s}
<1>1. ASSUME NEW o \in buffer, o.key = Key(s) PROVE o.sample = s
  BY <1>1, KeyInjective DEF IInv, TypeOK, ObjectsKeyed, Object
<1>2. \A o \in buffer : o.sample = s \/ o \in buffer'
  BY <1>1 DEF Stored
<1>3. [key |-> Key(s), sample |-> s] \in buffer'
  BY DEF Stored
<1>4. \A o \in buffer' : o \in buffer \/ o.sample = s
  BY DEF Stored
<1>. QED
  BY <1>2, <1>3, <1>4 DEF InBuffer

\* Two objects of the buffer are of two samples.
LEMMA OneObject ==
  ASSUME IInv, NEW o \in buffer, NEW p \in buffer, o.sample = p.sample
  PROVE  o = p
<1>1. o \in Object /\ p \in Object
  BY DEF IInv, TypeOK
<1>2. o.key = p.key
  BY DEF IInv, ObjectsKeyed
<1>. QED
  BY <1>1, <1>2 DEF Object

\* What goes when an object does.
LEMMA ObjectGoes ==
  ASSUME IInv, NEW o \in buffer, buffer' = buffer \ {o}
  PROVE  InBuffer' = InBuffer \ {o.sample}
<1>1. \A p \in buffer' : p \in buffer /\ p.sample # o.sample
  BY OneObject
<1>2. \A p \in buffer : p.sample # o.sample => p \in buffer'
  OBVIOUS
<1>. QED
  BY <1>1, <1>2 DEF InBuffer

\* A deletion takes away one object at most, and one AMP has.
LEMMA DeleteReleases ==
  ASSUME IInv, mode = "remote", NEW r \in Replayers, DeleteObject(r)
  PROVE  \/ buffer' = buffer
         \/ \E o \in buffer : buffer' = buffer \ {o} /\ o.sample \in amp
<1>1. ASSUME NEW o \in buffer, o \notin buffer'
      PROVE  o.sample \in amp /\ \E c \in copy[r] : c.key = o.key
  <2>1. PICK c \in copy[r] : o.key = c.key
    BY <1>1 DEF DeleteObject
  <2>2. o.sample = c.sample
    BY <2>1, KeyInjective
    DEF IInv, TypeOK, ObjectsKeyed, CopiesKeyed, Object
  <2>3. c.sample \in amp
    BY DEF IInv, DeliveredBeforeDelete, DeleteObject
  <2>. QED
    BY <2>1, <2>2, <2>3
<1>2. ASSUME NEW o \in buffer, NEW p \in buffer, o \notin buffer', p \notin buffer'
      PROVE  o = p
  <2>1. o.key = p.key
    BY <1>1, <1>2 DEF IInv, OneCopy
  <2>2. o.sample \in Samples /\ p.sample \in Samples
    BY DEF IInv, TypeOK, Object
  <2>3. o.sample = p.sample
    BY <2>1, <2>2, KeyInjective DEF IInv, ObjectsKeyed
  <2>. QED
    BY <2>3, OneObject
<1>3. buffer' \subseteq buffer
  BY DEF DeleteObject
<1>4. CASE \A o \in buffer : o \in buffer'
  BY <1>3, <1>4
<1>5. CASE \E o \in buffer : o \notin buffer'
  <2>1. PICK o \in buffer : o \notin buffer'
    BY <1>5
  <2>2. buffer' = buffer \ {o}
    BY <2>1, <1>2, <1>3
  <2>. QED
    BY <2>1, <2>2, <1>1
<1>. QED
  BY <1>4, <1>5

\* The variables of DurableSamples, as they are mapped.
mapped == <<Delivered, Buffered, Expired, Promised>>

LEMMA StepRefines == IInv /\ [Next]_vars => [Durable!Next]_mapped
<1> SUFFICES ASSUME IInv, [Next]_vars PROVE Durable!Next \/ UNCHANGED mapped
  BY DEF mapped
<1>t. TypeOK
  BY DEF IInv
<1>a. amp \subseteq amp' /\ mode' = mode
  BY AmpGrows
<1>r. CASE mode # "remote"
  BY <1>r, <1>a DEF mapped, Delivered, Buffered, Expired, Promised, IfRemote
<1>k. ASSUME mode = "remote"
      PROVE  /\ Delivered = amp /\ Delivered' = amp'
             /\ Buffered = InBuffer /\ Buffered' = InBuffer'
             /\ Expired = expired /\ Expired' = expired'
             /\ Promised = acked /\ Promised' = acked'
  BY <1>k, <1>a DEF Delivered, Buffered, Expired, Promised, IfRemote, InBuffer
<1>d. ASSUME mode = "remote", NEW s \in Samples, amp' = amp \cup {s},
             UNCHANGED bucketVars, acked' \in {acked, acked \cup {s}}
      PROVE  Durable!Next
  <2>1. InBuffer' = InBuffer /\ expired' = expired
    BY <1>d DEF InBuffer, bucketVars
  <2>. QED
    BY <1>d, <1>k, <2>1 DEF Durable!Next, Durable!Deliver, Durable!Answered
<1>p. ASSUME mode = "remote", NEW s \in Samples, Put(s), amp' = amp,
             acked' \in {acked, acked \cup {s}}
      PROVE  Durable!Next
  <2>1. InBuffer' = InBuffer \cup {s} /\ expired' = expired \ {s}
    BY <1>p, PutKeeps DEF Put
  <2>. QED
    BY <1>p, <1>k, <2>1 DEF Durable!Next, Durable!Buffer, Durable!Answered
<1>u. ASSUME mode = "remote", amp' = amp, UNCHANGED bucketVars, acked' = acked
      PROVE  UNCHANGED mapped
  BY <1>u, <1>k DEF mapped, bucketVars, InBuffer
<1>1. ASSUME mode = "remote", Refuse \/ CrashApi PROVE UNCHANGED mapped
  BY <1>1, <1>u DEF Refuse, CrashApi
<1>2. ASSUME mode = "remote", NEW s \in Samples, Serve(s)
      PROVE  Durable!Next \/ UNCHANGED mapped
  <2>1. CASE Ingest(s)
    BY <2>1, <1>2, <1>u DEF Ingest
  <2>2. CASE Deliver(s)
    BY <2>2, <1>2, <1>d DEF Deliver, Taken
  <2>3. CASE Retry(s) \/ GiveUp(s)
    <3>1. /\ amp' = amp \/ amp' = amp \cup {s}
          /\ UNCHANGED bucketVars /\ acked' = acked
      BY <2>3, <1>2 DEF Retry, GiveUp, Taken
    <3>. QED
      BY <3>1, <1>2, <1>d, <1>u
  <2>4. CASE WriteBuffer(s)
    BY <2>4, <1>2, <1>p DEF WriteBuffer
  <2>5. CASE FailWrite(s)
    BY <2>5, <1>2, <1>p, <1>u DEF FailWrite
  <2>. QED
    BY <1>2, <2>1, <2>2, <2>3, <2>4, <2>5 DEF Serve
<1>3. ASSUME mode = "remote", NEW r \in Replayers, Replaying(r)
      PROVE  Durable!Next \/ UNCHANGED mapped
  <2>0. acked' = acked
    BY <1>3
    DEF Replaying, Scan, Read, EndScan, Replay, FailReplay, DeleteObject, FailDelete,
        CrashReplay
  <2>1. CASE Scan(r) \/ Read(r) \/ EndScan(r) \/ FailDelete(r) \/ CrashReplay(r)
    BY <2>1, <1>3, <1>u DEF Scan, Read, EndScan, FailDelete, CrashReplay
  <2>2. CASE Replay(r) \/ FailReplay(r)
    <3>1. PICK o \in copy[r] : amp' = amp \/ amp' = Taken(o.sample)
      BY <2>2 DEF Replay, FailReplay
    <3>2. o.sample \in Samples /\ UNCHANGED bucketVars
      BY <2>2, <1>t DEF Replay, FailReplay, TypeOK, Object
    <3>. QED
      BY <3>1, <3>2, <2>0, <1>3, <1>d, <1>u DEF Taken
  <2>3. CASE DeleteObject(r)
    <3>1. amp' = amp /\ expired' = expired
      BY <2>3 DEF DeleteObject
    <3>2. CASE buffer' = buffer
      BY <3>1, <3>2, <2>0, <1>3, <1>u DEF bucketVars
    <3>3. CASE \E o \in buffer : buffer' = buffer \ {o} /\ o.sample \in amp
      <4>1. PICK o \in buffer : buffer' = buffer \ {o} /\ o.sample \in amp
        BY <3>3
      <4>2. /\ InBuffer' = InBuffer \ {o.sample}
            /\ o.sample \in InBuffer /\ o.sample \in Samples
        BY <4>1, <1>t, ObjectGoes DEF InBuffer, TypeOK
      <4>. QED
        BY <4>1, <4>2, <3>1, <2>0, <1>3, <1>k DEF Durable!Next, Durable!Release
    <3>. QED
      BY <2>3, <1>3, <3>2, <3>3, DeleteReleases
  <2>. QED
    BY <1>3, <2>1, <2>2, <2>3 DEF Replaying
<1>x. ASSUME mode = "remote", ExpireObject PROVE Durable!Next
  <2>1. PICK o \in buffer : /\ buffer' = buffer \ {o}
                            /\ expired' = expired \cup {o.sample}
    BY <1>x DEF ExpireObject
  <2>2. /\ InBuffer' = InBuffer \ {o.sample}
        /\ o.sample \in InBuffer /\ o.sample \in Samples
    BY <2>1, <1>t, ObjectGoes DEF InBuffer, TypeOK, Object
  <2>3. amp' = amp /\ acked' = acked
    BY <1>x DEF ExpireObject
  <2>. QED
    BY <2>1, <2>2, <2>3, <1>x, <1>k DEF Durable!Next, Durable!Expire
<1>4. ASSUME mode = "remote", UNCHANGED vars PROVE UNCHANGED mapped
  BY <1>4, <1>u DEF vars
<1>. QED
  BY <1>r, <1>1, <1>2, <1>3, <1>x, <1>4 DEF Next

\* Whatever fails, repeats, overlaps, expires or dies, the delivery path
\* implements DurableSamples: nothing it has delivered is taken back, and what
\* leaves the failure buffer was delivered, or seven days old.
THEOREM ImplementsDurableSamples == Spec => ImplementsDurable
<1>1. Init => Durable!Init
  BY DEF Init, Durable!Init, Delivered, Buffered, Expired, Promised, IfRemote
<1>. QED
  BY <1>1, StepRefines, Invariance, PTL
  DEF Spec, Durable!Spec, ImplementsDurable, mapped

\* An acknowledged sample is in AMP or in the failure buffer, or the rule of
\* the bucket has deleted it there.
THEOREM NothingAcknowledgedIsLost == Spec => []AcknowledgedNotLost
<1>1. Init => AcknowledgedNotLost
  BY DEF Init, AcknowledgedNotLost, Promised, IfRemote
<1>2. AcknowledgedNotLost /\ [Durable!Next]_mapped => AcknowledgedNotLost'
  BY DEF AcknowledgedNotLost, mapped, Durable!Next, Durable!Deliver, Durable!Buffer,
         Durable!Answered, Durable!Release, Durable!Expire
<1>. QED
  BY <1>1, <1>2, StepRefines, Invariance, PTL DEF Spec

-----------------------------------------------------------------------------
(* What the checks of POST /v1/ingest let through, and what they count.    *)

\* A label that may be stored, and a payload that may.
CleanLabel(l) ==
  /\ l.key \in {"kind", "region", "free"}
  /\ l.value \in {"empty", "plain"}

\* The labels a signal requires.
RequiredKeys(metric) == IF metric = "resource" THEN {"kind", "region"} ELSE {"region"}

\* A label is there, and says something.
Given(key, ls) ==
  /\ \E i \in 1..Len(ls) : ls[i].key = key
  /\ \A i \in 1..Len(ls) : ls[i].key = key => ls[i].value = "plain"

Clean(q) ==
  /\ q.defects = {}
  /\ q.metric \in {"service", "resource"}
  /\ \A i \in 1..Len(q.labels) : CleanLabel(q.labels[i])
  /\ \A key \in RequiredKeys(q.metric) : Given(key, q.labels)

LEMMA CleanLabelsPass ==
  ASSUME NEW l \in Label
  PROVE  LabelReason(l) = "none" <=> CleanLabel(l)
  BY DEF Label, LabelReason, CleanLabel, Check, (+)

Less == {p \in Nat \X Nat : p[1] < p[2]}

\* The loop of validate_labels ends at its first refused label, if any.
LEMMA FirstRefused ==
  ASSUME NEW ls \in Seq(Label), Refused(ls) # {}
  PROVE  \E i \in Refused(ls) : LabelsReason(ls) = LabelReason(ls[i])
<1>1. Refused(ls) \in SUBSET Nat
  BY DEF Refused
<1>2. IsWellFoundedOn(Less, Nat)
  BY NatLessThanWellFounded DEF OpToRel, Less
<1>3. PICK i \in Refused(ls) : \A j \in Refused(ls) : <<j, i>> \notin Less
  BY <1>1, <1>2, WFMin
<1>4. ASSUME NEW j \in Refused(ls) PROVE i <= j
  <2>1. i \in Nat /\ j \in Nat
    BY <1>1
  <2>2. j < i => <<j, i>> \in Less
    <3>1. ASSUME j < i PROVE <<j, i>> \in Less
      <4>1. <<j, i>> \in Nat \X Nat /\ <<j, i>>[1] < <<j, i>>[2]
        BY <2>1, <3>1
      <4>. QED
        BY <4>1 DEF Less
    <3>. QED
      BY <3>1
  <2>3. <<j, i>> \notin Less
    BY <1>3
  <2>4. ~ (j < i)
    BY <2>2, <2>3
  <2>. QED
    BY <2>1, <2>4
<1>. QED
  BY <1>4 DEF LabelsReason

LEMMA LabelsPass ==
  ASSUME NEW ls \in Seq(Label)
  PROVE  LabelsReason(ls) = "none" <=> \A i \in 1..Len(ls) : CleanLabel(ls[i])
<1>1. \A i \in 1..Len(ls) : LabelReason(ls[i]) = "none" <=> CleanLabel(ls[i])
  BY CleanLabelsPass
<1>2. Refused(ls) = {} <=> \A i \in 1..Len(ls) : CleanLabel(ls[i])
  BY <1>1 DEF Refused
<1>3. Refused(ls) # {} => LabelsReason(ls) # "none"
  BY FirstRefused DEF Refused
<1>4. Refused(ls) = {} => LabelsReason(ls) = "none"
  BY DEF LabelsReason
<1>. QED
  BY <1>2, <1>3, <1>4

LEMMA RequiredPasses ==
  ASSUME NEW key, NEW ls, \A i \in 1..Len(ls) : CleanLabel(ls[i])
  PROVE  RequiredReason(key, ls) = "none" <=> Given(key, ls)
  BY DEF RequiredReason, Given, CleanLabel, Check, (+)

LEMMA MetricPasses ==
  ASSUME NEW q \in Request, \A i \in 1..Len(q.labels) : CleanLabel(q.labels[i])
  PROVE  MetricReason(q.metric, q.labels) = "none" /\ q.metric # "blank" <=>
           /\ q.metric \in {"service", "resource"}
           /\ \A key \in RequiredKeys(q.metric) : Given(key, q.labels)
<1>1. q.metric \in {"blank", "service", "resource", "internal", "unknown"}
  BY DEF Request
<1>2. \A key \in {"kind", "region"} :
        RequiredReason(key, q.labels) = "none" <=> Given(key, q.labels)
  BY RequiredPasses
<1>3. MetricReason(q.metric, q.labels) = "none" <=>
        /\ q.metric \notin {"internal", "unknown"}
        /\ q.metric = "resource" => RequiredReason("kind", q.labels) = "none"
        /\ RequiredReason("region", q.labels) = "none"
  BY DEF MetricReason, Check, (+)
<1>. QED
  BY <1>1, <1>2, <1>3 DEF RequiredKeys

\* The checks are complete: what passes them has no defect at all, in any of
\* its labels, and every label its signal requires; and a payload without a
\* defect is not refused.
THEOREM AcceptedIffClean ==
  ASSUME NEW q \in Request
  PROVE  Reason(q) = "none" <=> Clean(q)
<1>0. q.labels \in Seq(Label) /\ q.defects \subseteq Defects
  BY DEF Request
<1>1. SchemaReason(q) = "none" <=>
        /\ \A d \in {"invalid_timestamp", "empty_tenant_id", "empty_service_id",
                     "invalid_value", "invalid_labels_type", "bad_request"} :
             d \notin q.defects
        /\ q.metric # "blank"
        /\ LabelsReason(q.labels) = "none"
        /\ MetricReason(q.metric, q.labels) = "none"
  BY DEF SchemaReason, Check, (+)
<1>2. Reason(q) = "none" <=>
        /\ \A d \in {"payload_too_large", "missing_tenant_header",
                     "invalid_ingest_token", "invalid_json",
                     "missing_required_field", "tenant_mismatch"} :
             d \notin q.defects
        /\ SchemaReason(q) = "none"
  BY DEF Reason, Check, (+)
<1>3. Reason(q) = "none" <=>
        /\ q.defects = {}
        /\ q.metric # "blank"
        /\ LabelsReason(q.labels) = "none"
        /\ MetricReason(q.metric, q.labels) = "none"
  BY <1>0, <1>1, <1>2 DEF Defects
<1>. QED
  BY <1>0, <1>3, LabelsPass, MetricPasses DEF Clean

\* A payload whose only defects are denied labels is refused and counted as
\* a PII rejection, however many labels it has and wherever they stand.
THEOREM DeniedLabelsCounted ==
  ASSUME NEW q \in Request, q.defects = {}, q.metric # "blank",
         \E i \in 1..Len(q.labels) : ~ CleanLabel(q.labels[i]),
         \A i \in 1..Len(q.labels) :
           CleanLabel(q.labels[i]) \/ q.labels[i].key = "pii"
  PROVE  "pii" \in CountersOf(Reason(q))
<1>0. q.labels \in Seq(Label)
  BY DEF Request
<1>1. LabelsReason(q.labels) # "none"
  BY <1>0, LabelsPass
<1>2. PICK i \in Refused(q.labels) : LabelsReason(q.labels) = LabelReason(q.labels[i])
  BY <1>0, <1>1, FirstRefused DEF LabelsReason
<1>3. q.labels[i] \in Label /\ i \in 1..Len(q.labels) /\ ~ CleanLabel(q.labels[i])
  BY <1>0, <1>1, <1>2, CleanLabelsPass DEF Refused
<1>4. LabelsReason(q.labels) = "pii_denylist_label"
  BY <1>2, <1>3 DEF LabelReason, Check, (+)
<1>5. Reason(q) = "pii_denylist_label"
  BY <1>4 DEF Reason, SchemaReason, Check, (+)
<1>. QED
  BY <1>5 DEF CountersOf, PiiReasons
=============================================================================
