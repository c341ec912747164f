---------------------------- MODULE JobLifecycle ----------------------------
(***************************************************************************)
(* What the prediction queue and its workers promise about a job, seen     *)
(* from the outside: once submitted it stays pending until it is either    *)
(* done, which takes an answer of the audit table, or dead-lettered.       *)
(* An answer may still arrive after the job has left the queue.            *)
(***************************************************************************)
CONSTANTS Jobs,      \* the jobs
          Hopeless   \* those among them no worker can process

VARIABLES stage,     \* where each job is
          answered   \* jobs the audit table has answered for

TypeOK == /\ stage \in [Jobs -> {"absent", "pending", "done", "dead"}]
          /\ answered \subseteq Jobs

Init == /\ stage = [j \in Jobs |-> "absent"]
        /\ answered = {}

Submit(j) == /\ stage[j] = "absent"
             /\ stage' = [stage EXCEPT ![j] = "pending"]
             /\ UNCHANGED answered

Answer(j) == /\ stage[j] # "absent"
             /\ j \notin Hopeless
             /\ answered' = answered \cup {j}
             /\ UNCHANGED stage

Finish(j) == /\ stage[j] = "pending"
             /\ j \in answered
             /\ stage' = [stage EXCEPT ![j] = "done"]
             /\ UNCHANGED answered

Bury(j) == /\ stage[j] = "pending"
           /\ stage' = [stage EXCEPT ![j] = "dead"]
           /\ UNCHANGED answered

Next == \E j \in Jobs : Submit(j) \/ Answer(j) \/ Finish(j) \/ Bury(j)

vars == <<stage, answered>>

Spec == Init /\ [][Next]_vars

\* A submitted job does not stay pending for ever.
FairSpec == Spec /\ \A j \in Jobs : WF_vars(Finish(j) \/ Bury(j))
=============================================================================
