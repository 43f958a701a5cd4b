----------------------------- MODULE JobLedger -----------------------------
(***************************************************************************)
(* What the background-job subsystem promises, with no queue, no Redis and *)
(* no worker in sight: every submitted job is in exactly one of a few      *)
(* conditions, is executed one attempt at a time, never more often than    *)
(* its limit allows, is retried only while attempts remain and is buried   *)
(* only once they are used up.  A job may also be lost (the queue keeps no *)
(* copy of a job that a worker has popped).                                *)
(***************************************************************************)
EXTENDS Integers

CONSTANTS Jobs,      \* the jobs clients may submit
          Limits     \* the integers that may be a job's max_attempts

VARIABLES status,    \* the condition each job is in
          attempts,  \* how often each job has been started
          limit      \* its max_attempts, fixed when it is submitted

vars == <<status, attempts, limit>>

Statuses == {"new", "waiting", "running", "done", "dead", "lost"}

Init == /\ status = [j \in Jobs |-> "new"]
        /\ attempts = [j \in Jobs |-> 0]
        /\ limit = [j \in Jobs |-> 0]

Becomes(j, s) == status' = [status EXCEPT ![j] = s]

Submit(j) == /\ status[j] = "new"
             /\ Becomes(j, "waiting")
             /\ \E m \in Limits : limit' = [limit EXCEPT ![j] = m]
             /\ UNCHANGED attempts

Start(j) == /\ status[j] = "waiting"
            /\ Becomes(j, "running")
            /\ attempts' = [attempts EXCEPT ![j] = @ + 1]
            /\ UNCHANGED limit

Succeed(j) == /\ status[j] = "running"
              /\ Becomes(j, "done")
              /\ UNCHANGED <<attempts, limit>>

Retry(j) == /\ status[j] = "running"
            /\ attempts[j] < limit[j]
            /\ Becomes(j, "waiting")
            /\ UNCHANGED <<attempts, limit>>

Bury(j) == /\ status[j] = "running"
           /\ attempts[j] >= limit[j]
           /\ Becomes(j, "dead")
           /\ UNCHANGED <<attempts, limit>>

Lose(j) == /\ status[j] \in {"waiting", "running"}
           /\ Becomes(j, "lost")
           /\ UNCHANGED <<attempts, limit>>

Next == \E j \in Jobs : \/ Submit(j) \/ Start(j) \/ Succeed(j)
                        \/ Retry(j)  \/ Bury(j)  \/ Lose(j)

Spec == Init /\ [][Next]_vars
=============================================================================
