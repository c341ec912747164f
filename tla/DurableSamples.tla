--------------------------- MODULE DurableSamples ---------------------------
(***************************************************************************)
(* What the delivery path promises a producer: a sample is acknowledged    *)
(* only by the step that has it delivered or buffered; what is delivered   *)
(* stays, and what is buffered leaves the buffer for one of two reasons:   *)
(* it has been delivered, or the buffer let it expire.                     *)
(***************************************************************************)
CONSTANT Samples

VARIABLES delivered,   \* samples AMP has
          buffered,    \* samples the failure buffer holds
          expired,     \* samples it held too long, and has not been given again
          acked        \* samples some 2xx answer acknowledged

Init == delivered = {} /\ buffered = {} /\ expired = {} /\ acked = {}

Answered(s) == acked' \in {acked, acked \cup {s}}

Deliver(s) ==
  /\ delivered' = delivered \cup {s}
  /\ Answered(s)
  /\ UNCHANGED <<buffered, expired>>

Buffer(s) ==
  /\ buffered' = buffered \cup {s}
  /\ expired' = expired \ {s}
  /\ Answered(s)
  /\ UNCHANGED delivered

Release(s) ==
  /\ s \in buffered \cap delivered
  /\ buffered' = buffered \ {s}
  /\ UNCHANGED <<delivered, expired, acked>>

Expire(s) ==
  /\ s \in buffered
  /\ buffered' = buffered \ {s}
  /\ expired' = expired \cup {s}
  /\ UNCHANGED <<delivered, acked>>

Next == \E s \in Samples : Deliver(s) \/ Buffer(s) \/ Release(s) \/ Expire(s)

Spec == Init /\ [][Next]_<<delivered, buffered, expired, acked>>
=============================================================================
