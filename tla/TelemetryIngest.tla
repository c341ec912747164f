--------------------------- MODULE TelemetryIngest ---------------------------
(***************************************************************************)
(* The ingest path of the Telemetry API: one process whose event loop      *)
(* serves one request at a time (the handler never awaits while it         *)
(* delivers), the bounded retry of a delivery to AMP, the S3 failure       *)
(* buffer with the rule that empties it of what is seven days old, and     *)
(* ReplayService, which may run beside it.  AMP and S3 may fail with or    *)
(* without having done what was asked; processes may die between any two   *)
(* calls.                                                                  *)
(***************************************************************************)
EXTENDS IngestValidation

CONSTANTS
  Slots,        \* tenant, service, metric, timestamp and labels of a payload
  Values,       \* its value
  Replayers,    \* processes that run replay_failures
  Modes,        \* how AMP delivery may be configured
  MaxRetries,   \* amp_delivery_max_retries
  MaxRequests   \* bound: requests the producers send

ASSUME ModesAssumption == Modes \subseteq {"disabled", "stub", "remote"}

ASSUME BoundsAssumption == MaxRetries \in Nat /\ MaxRequests \in Nat

VARIABLES
  mode,      \* amp_delivery_enabled, with the endpoint missing or set
  s3,        \* s3_failure_buffer_enabled
  step,      \* what the API does next
  current,   \* the sample of the request it serves, as a set of at most one
  outcomes,  \* outcomes of its deliveries so far
  amp,       \* samples AMP has
  buffer,    \* objects of the failure buffer
  expired,   \* history: samples whose object the lifecycle rule has deleted
  counters,  \* the counters of the process
  sent,      \* bound: requests so far
  acked,     \* history: samples answered 201 or 202
  rstep, todo, copy   \* each replayer: its step, the keys left, the object read

apiVars    == <<step, current, outcomes>>
replayVars == <<rstep, todo, copy>>
bucketVars == <<buffer, expired>>
configVars == <<mode, s3>>
vars == <<configVars, apiVars, amp, bucketVars, counters, sent, acked, replayVars>>

-----------------------------------------------------------------------------

\* Payloads that pass validation.
Samples == [slot : Slots, value : Values]

\* Mutant: the key of a payload leaves its value out.
KeyOfSlot(s) == <<s.slot>>

\* generate_idempotency_key hashes the slot and the value, not the event id.
Key(s) == <<s.slot, s.value>>

Keys == {Key(s) : s \in Samples}

Object  == [key : Keys, sample : Samples]
Outcome == {"delivered", "lost", "transient", "permanent"}

Classes == {"pii", "cardinality", "metric"}

Counters == {"attempt", "retry", "failed", "write", "writeFailed",
             "accepted", "rejected"} \cup Classes

NoCount == [c \in Counters |-> 0]

TypeOK ==
  /\ mode \in {"disabled", "stub", "remote"}
  /\ s3 \in {"enabled", "disabled"}
  /\ step \in {"idle", "deliver", "write"}
  /\ current \in SUBSET Samples
  /\ current = {} <=> step = "idle"
  /\ outcomes \in Seq(Outcome)
  /\ amp \subseteq Samples
  /\ buffer \subseteq Object
  /\ expired \subseteq Samples
  /\ counters \in [Counters -> Nat]
  /\ sent \in 0..MaxRequests
  /\ acked \subseteq Samples
  /\ rstep \in [Replayers -> {"off", "scan", "deliver", "delete"}]
  /\ todo \in [Replayers -> SUBSET Keys]
  /\ copy \in [Replayers -> SUBSET Object]

Init ==
  /\ mode \in Modes
  /\ s3 \in {"enabled", "disabled"}
  /\ step = "idle" /\ current = {} /\ outcomes = <<>>
  /\ amp = {} /\ buffer = {} /\ expired = {}
  /\ counters = NoCount
  /\ sent = 0
  /\ acked = {}
  /\ rstep = [r \in Replayers |-> "off"]
  /\ todo  = [r \in Replayers |-> {}]
  /\ copy  = [r \in Replayers |-> {}]

Count(c, counter) == [c EXCEPT ![counter] = @ + 1]

\* Mutant: the record of the request stays behind its answer.
DoneKeepsRecord ==
  /\ step' = "idle" /\ outcomes' = <<>>
  /\ UNCHANGED current

\* The request is answered; the loop is free for the next one.
Done ==
  /\ step' = "idle" /\ current' = {} /\ outcomes' = <<>>

\* What AMP has after a delivery of s that it took: the stub takes nothing.
Taken(s) == IF mode = "remote" THEN amp \cup {s} ELSE amp

-----------------------------------------------------------------------------
(* POST /v1/ingest.                                                        *)

\* Mutant: a refusal of a class is counted there and nowhere else.
FiledByClass(reason) ==
  LET classes == CountersOf(reason) \cap Classes IN
  [c \in Counters |-> counters[c] +
     IF c \in (IF classes = {} THEN {"rejected"} ELSE classes) THEN 1 ELSE 0]

\* The error handlers file a refusal.
Filed(reason) ==
  [c \in Counters |-> counters[c] + IF c \in CountersOf(reason) THEN 1 ELSE 0]

\* A request a check rejects, or whose record cannot be stored, changes
\* nothing but the counters of rejections.
Refuse ==
  /\ step = "idle"
  /\ sent < MaxRequests
  /\ sent' = sent + 1
  /\ \E reason \in Reasons : counters' = Filed(reason)
  /\ UNCHANGED <<configVars, apiVars, amp, bucketVars, acked, replayVars>>

\* store() and observe() precede the delivery, which may be disabled.
Ingest(s) ==
  /\ step = "idle"
  /\ sent < MaxRequests
  /\ sent' = sent + 1
  /\ IF mode = "disabled"
     THEN /\ acked' = acked \cup {s}
          /\ counters' = Count(counters, "accepted")
          /\ UNCHANGED apiVars
     ELSE /\ step' = "deliver" /\ current' = {s} /\ outcomes' = <<>>
          /\ counters' = Count(counters, "attempt")
          /\ UNCHANGED acked
  /\ UNCHANGED <<configVars, amp, bucketVars, replayVars>>

Deliver(s) ==
  /\ step = "deliver" /\ s \in current
  /\ amp' = Taken(s)
  /\ acked' = acked \cup {s}
  /\ counters' = Count(counters, "accepted")
  /\ Done
  /\ UNCHANGED <<configVars, bucketVars, sent, replayVars>>

\* The outcomes a failed delivery may have: the answer of one AMP has taken
\* may be lost; the stub fails only when it is forced to.
Failures == IF mode = "remote" THEN Outcome \ {"delivered"} ELSE {"transient"}

\* Mutant: one delivery too few.
RetriesLeftShort(tries) == Len(tries) < MaxRetries

\* attempt > max_retries ends the loop, attempt counting the failures.
RetriesLeft(tries) == Len(tries) <= MaxRetries

\* Mutant: 4xx errors are retried like any other.
RetriesAll(tries) == RetriesLeft(tries)

Retries(tries) == RetriesLeft(tries) /\ tries[Len(tries)] # "permanent"

\* A delivery fails and is tried again after the back-off.
Retry(s) ==
  /\ step = "deliver" /\ s \in current
  /\ \E o \in Failures :
       /\ outcomes' = Append(outcomes, o)
       /\ Retries(outcomes')
       /\ amp' = IF o = "lost" THEN Taken(s) ELSE amp
  /\ counters' = Count(counters, "retry")
  /\ UNCHANGED <<configVars, step, current, bucketVars, sent, acked, replayVars>>

\* A delivery fails for the last time: the buffer is next, if there is one.
GiveUp(s) ==
  /\ step = "deliver" /\ s \in current
  /\ \E o \in Failures :
       /\ amp' = IF o = "lost" THEN Taken(s) ELSE amp
       /\ LET tries == Append(outcomes, o) IN
          /\ ~ Retries(tries)
          /\ IF s3 = "enabled"
             THEN /\ step' = "write" /\ outcomes' = tries
                  /\ counters' = Count(counters, "failed")
                  /\ UNCHANGED current
             ELSE /\ counters' = Count(Count(counters, "failed"), "rejected")
                  /\ Done
  /\ UNCHANGED <<configVars, bucketVars, sent, acked, replayVars>>

\* The object replaces the one of an earlier request with the same key.
Stored(s) ==
  {o \in buffer : o.key # Key(s)} \cup {[key |-> Key(s), sample |-> s]}

Put(s) == buffer' = Stored(s) /\ expired' = expired \ {s}

WriteBuffer(s) ==
  /\ step = "write" /\ s \in current
  /\ Put(s)
  /\ acked' = acked \cup {s}
  /\ counters' = Count(Count(counters, "write"), "accepted")
  /\ Done
  /\ UNCHANGED <<configVars, amp, sent, replayVars>>

\* Mutant: the failed put is answered 202 like a successful one.
FailWriteAcknowledged(s) ==
  /\ step = "write" /\ s \in current
  /\ acked' = acked \cup {s}
  /\ counters' = Count(Count(counters, "writeFailed"), "accepted")
  /\ Done
  /\ UNCHANGED <<configVars, amp, bucketVars, sent, replayVars>>

\* Mutant: the failure of the put is not counted.
FailWriteUncounted(s) ==
  /\ step = "write" /\ s \in current
  /\ Put(s) \/ UNCHANGED bucketVars
  /\ counters' = Count(counters, "rejected")
  /\ Done
  /\ UNCHANGED <<configVars, amp, sent, acked, replayVars>>

\* The put fails, or its answer is lost, and the request is answered 503.
FailWrite(s) ==
  /\ step = "write" /\ s \in current
  /\ Put(s) \/ UNCHANGED bucketVars
  /\ counters' = Count(Count(counters, "writeFailed"), "rejected")
  /\ Done
  /\ UNCHANGED <<configVars, amp, sent, acked, replayVars>>

\* The task is replaced: its request has no answer, its counters are lost.
CrashApi ==
  /\ step # "idle"
  /\ Done
  /\ counters' = NoCount
  /\ UNCHANGED <<configVars, amp, bucketVars, sent, acked, replayVars>>

-----------------------------------------------------------------------------
(* replay_failures.                                                        *)

\* list_objects_v2; a page's keys are replayed though they may be gone since.
Scan(r) ==
  /\ rstep[r] = "off"
  /\ buffer # {}
  /\ rstep' = [rstep EXCEPT ![r] = "scan"]
  /\ todo'  = [todo EXCEPT ![r] = {o.key : o \in buffer}]
  /\ UNCHANGED <<configVars, apiVars, amp, bucketVars, counters, sent, acked, copy>>

\* get_object; an object that is gone raises and is skipped.
Read(r) ==
  /\ rstep[r] = "scan"
  /\ \E k \in todo[r] :
       LET found == {o \in buffer : o.key = k} IN
       /\ todo'  = [todo EXCEPT ![r] = @ \ {k}]
       /\ copy'  = [copy EXCEPT ![r] = found]
       /\ rstep' = [rstep EXCEPT ![r] = IF found = {} THEN "scan" ELSE "deliver"]
  /\ UNCHANGED <<configVars, apiVars, amp, bucketVars, counters, sent, acked>>

\* On to the next object, or out of the scan when there is none.
NextObject(r) ==
  /\ rstep' = [rstep EXCEPT ![r] = IF todo[r] = {} THEN "off" ELSE "scan"]
  /\ copy'  = [copy EXCEPT ![r] = {}]
  /\ UNCHANGED todo

EndScan(r) ==
  /\ rstep[r] = "scan" /\ todo[r] = {}
  /\ NextObject(r)
  /\ UNCHANGED <<configVars, apiVars, amp, bucketVars, counters, sent, acked>>

Replay(r) ==
  /\ rstep[r] = "deliver"
  /\ \E o \in copy[r] : amp' = Taken(o.sample)
  /\ rstep' = [rstep EXCEPT ![r] = "delete"]
  /\ UNCHANGED <<configVars, apiVars, bucketVars, counters, sent, acked, todo, copy>>

\* Mutant: the object is deleted whatever the delivery returned.
FailReplayDeletes(r) ==
  /\ rstep[r] = "deliver"
  /\ rstep' = [rstep EXCEPT ![r] = "delete"]
  /\ UNCHANGED <<configVars, apiVars, amp, bucketVars, counters, sent, acked, todo, copy>>

\* A read or a delivery that failed, or whose answer was lost, leaves the
\* object.
FailReplay(r) ==
  /\ rstep[r] = "deliver"
  /\ \E o \in copy[r] : amp' \in {amp, Taken(o.sample)}
  /\ NextObject(r)
  /\ UNCHANGED <<configVars, apiVars, bucketVars, counters, sent, acked>>

\* delete_object removes whatever the key holds by now.
DeleteObject(r) ==
  /\ rstep[r] = "delete"
  /\ buffer' = {o \in buffer : \A c \in copy[r] : o.key # c.key}
  /\ NextObject(r)
  /\ UNCHANGED <<configVars, apiVars, amp, expired, counters, sent, acked>>

\* The deletion fails, or the process dies anywhere in its scan.
FailDelete(r) ==
  /\ rstep[r] = "delete"
  /\ NextObject(r)
  /\ UNCHANGED <<configVars, apiVars, amp, bucketVars, counters, sent, acked>>

CrashReplay(r) ==
  /\ rstep[r] # "off"
  /\ rstep' = [rstep EXCEPT ![r] = "off"]
  /\ todo'  = [todo EXCEPT ![r] = {}]
  /\ copy'  = [copy EXCEPT ![r] = {}]
  /\ UNCHANGED <<configVars, apiVars, amp, bucketVars, counters, sent, acked>>

-----------------------------------------------------------------------------
(* The bucket.                                                             *)

\* The lifecycle rule deletes an object of seven days, replayed or not.  There
\* are no days here: an object may be of any age.
ExpireObject ==
  /\ \E o \in buffer :
       /\ buffer' = buffer \ {o}
       /\ expired' = expired \cup {o.sample}
  /\ UNCHANGED <<configVars, apiVars, amp, counters, sent, acked, replayVars>>

-----------------------------------------------------------------------------

Serve(s) ==
  \/ Ingest(s) \/ Deliver(s) \/ Retry(s) \/ GiveUp(s)
  \/ WriteBuffer(s) \/ FailWrite(s)

Replaying(r) ==
  \/ Scan(r) \/ Read(r) \/ EndScan(r) \/ Replay(r) \/ FailReplay(r)
  \/ DeleteObject(r) \/ FailDelete(r) \/ CrashReplay(r)

Next ==
  \/ Refuse \/ CrashApi \/ ExpireObject
  \/ \E s \in Samples : Serve(s)
  \/ \E r \in Replayers : Replaying(r)

Spec == Init /\ [][Next]_vars

-----------------------------------------------------------------------------
(* Properties.                                                             *)

\* Where the API itself brings samples to AMP: the stub drops what it takes,
\* and without delivery, as deployed, an answer says nothing of AMP, which
\* then sees only what is scraped from the gauges (TelemetryWindow).
IfRemote(set) == IF mode = "remote" THEN set ELSE {}

Promised  == IfRemote(acked)
Delivered == IfRemote(amp)
Buffered  == IfRemote({o.sample : o \in buffer})
Expired   == IfRemote(expired)

\* A sample answered 201 or 202 is in AMP or in the failure buffer, whatever
\* retries, overwrites of an object, overlapping replays and crashes follow:
\* only the rule of the bucket deletes one that has not been replayed.
AcknowledgedNotLost == Promised \subseteq Delivered \cup Buffered \cup Expired

\* The retry loop gives up for one of its two reasons only, and in time: the
\* last error is permanent, or all MaxRetries + 1 deliveries failed; and
\* nothing is tried again after a permanent error.
GiveUpJustified ==
  /\ step = "deliver" =>
       /\ Len(outcomes) <= MaxRetries
       /\ \A i \in 1..Len(outcomes) : outcomes[i] # "permanent"
  /\ step = "write" =>
       /\ Len(outcomes) \in 1..(MaxRetries + 1)
       /\ \A i \in 1..(Len(outcomes) - 1) : outcomes[i] # "permanent"
       /\ \/ Len(outcomes) = MaxRetries + 1
          \/ outcomes[Len(outcomes)] = "permanent"

Pending(at) == IF step = at THEN 1 ELSE 0

\* The counters of a process account for every request it served: what was
\* tried was delivered, failed or is under way, and every failure went to
\* the buffer, was refused by it or is about to be written; what a class of
\* refusals counts, and what the buffer refused, is among the rejections.
CountersBalance ==
  /\ counters["pii"] + counters["cardinality"] + counters["metric"]
       + counters["writeFailed"] <= counters["rejected"]
  /\ mode # "disabled" =>
       counters["attempt"] + counters["write"] =
         counters["accepted"] + counters["failed"] + Pending("deliver")
  /\ s3 = "enabled" => counters["failed"] =
              counters["write"] + counters["writeFailed"] + Pending("write")

\* The delivery path implements the promise of DurableSamples.
Durable == INSTANCE DurableSamples
             WITH delivered <- Delivered, buffered <- Buffered,
                  expired <- Expired, acked <- Promised

ImplementsDurable == Durable!Spec
=============================================================================
