------------------------------ MODULE JobQueue ------------------------------
(***************************************************************************)
(* The background-job subsystem: clients enqueue envelopes                  *)
(* (services/job_queue.py, api/routers/jobs.py); any number of worker       *)
(* processes (worker.py) promote the delayed jobs that are due, pop a job,  *)
(* execute it, and reschedule or dead-letter it when it fails.  The state   *)
(* shared by all of them lives in Redis: a list, a sorted set and a list    *)
(* for dead letters (stores/redis_store.py).                                *)
(*                                                                          *)
(* An action is one Redis command together with the local computation that  *)
(* leads to it, so the steps of different workers interleave between any    *)
(* two commands.  A worker may crash, or exit on an error of Redis, between *)
(* any two of its steps; whatever it holds in memory is then gone.          *)
(***************************************************************************)
EXTENDS Integers, Sequences

CONSTANTS Jobs,               \* job ids; enqueue() draws a fresh one each time
          Workers,            \* the worker processes
          NoJob,              \* "this worker has no job in hand"
          BatchSize,          \* JOB_PROMOTE_BATCH_SIZE
          Backoff,            \* JOB_RETRY_BACKOFF_SECONDS
          DefaultMaxAttempts, \* JOB_DEFAULT_MAX_ATTEMPTS
          MaxAttemptsInputs,  \* the maxAttempts of requests; 0 is also "absent"
          DelayInputs,        \* the delaySeconds of requests
          MaxCrashes          \* BOUND: how many crashes a behaviour contains

\* Settings._validate_positive_background_int
ASSUME SettingsAssumption == /\ BatchSize \in Nat \ {0}
                             /\ Backoff \in Nat \ {0}
                             /\ DefaultMaxAttempts \in Nat \ {0}
\* The request models accept any integer.
ASSUME InputsAssumption == MaxAttemptsInputs \subseteq Int /\ DelayInputs \subseteq Int
ASSUME BoundAssumption == MaxCrashes \in Nat

\* An envelope; type, payload, time stamps and last_error are left out.  The
\* serialized form is the identity of a member of the sorted set.
Envelope == [id : Jobs, attempt : Nat, max : Int]

ASSUME NoJobAssumption == NoJob \notin Envelope

VARIABLES queue,     \* the Redis list job_queue_name
          delayed,   \* the Redis sorted set job_queue_delayed_name
          dead,      \* the Redis list job_queue_dead_letter_name
          now,       \* the clock
          pc,        \* where each worker is in its loop
          batch,     \* rest of the result of ZRANGEBYSCORE each worker goes through
          hand,      \* the envelope that only this worker's memory holds, or NoJob
          \* History, read by the properties only:
          submitted, \* the jobs enqueued so far
          limit,     \* the max_attempts each was given
          runs,      \* how often each job was handed to the executor
          finished,  \* the jobs whose execution succeeded
          crashes    \* number of crashes so far (for the bound)

redis   == <<queue, delayed, dead>>
worker  == <<pc, batch, hand>>
history == <<submitted, limit, runs, finished, crashes>>
vars    == <<redis, now, worker, history>>

Stages == {"promote", "remove", "push", "dequeue", "execute", "failed", "down"}

Init == /\ queue = <<>> /\ delayed = {} /\ dead = <<>>
        /\ now = 0
        /\ pc = [w \in Workers |-> "promote"]
        /\ batch = [w \in Workers |-> <<>>]
        /\ hand = [w \in Workers |-> NoJob]
        /\ submitted = {} /\ finished = {}
        /\ limit = [j \in Jobs |-> 0]
        /\ runs = [j \in Jobs |-> 0]
        /\ crashes = 0

-----------------------------------------------------------------------------
(* JobQueue._publish and the Redis commands it uses                          *)

\* ZADD: a member occurs once, the last score wins.
SortedAdd(set, e, score) ==
    {d \in set : d.env # e} \cup {[env |-> e, runAt |-> score]}

Publish(e, delay) ==
    IF delay <= 0 THEN /\ queue' = Append(queue, e)
                       /\ UNCHANGED delayed
                  ELSE /\ delayed' = SortedAdd(delayed, e, now + delay)
                       /\ UNCHANGED queue

\* max_attempts or settings.job_default_max_attempts: 0 is falsy, negatives are kept
MaxAttempts(requested) == IF requested = 0 THEN DefaultMaxAttempts ELSE requested

Enqueue(j) ==
    /\ j \notin submitted
    /\ \E m \in MaxAttemptsInputs, d \in DelayInputs :
         /\ Publish([id |-> j, attempt |-> 0, max |-> MaxAttempts(m)], d)
         /\ limit' = [limit EXCEPT ![j] = MaxAttempts(m)]
    /\ submitted' = submitted \cup {j}
    /\ UNCHANGED <<dead, now, worker, runs, finished, crashes>>

-----------------------------------------------------------------------------
(* JobQueue.promote_due_jobs                                                 *)

DueFault == delayed                          \* fault: the score limit is forgotten
Due == {d \in delayed : d.runAt <= now}

\* The possible answers of ZRANGEBYSCORE 0 now LIMIT 0 BatchSize: the due
\* members in the order of their scores (ties in any order), cut to the limit.
DueBatches ==
    {b \in UNION {[1..n -> Due] : n \in 0..BatchSize} :
        /\ \A i, k \in 1..Len(b) : i < k => b[i] # b[k] /\ b[i].runAt <= b[k].runAt
        /\ \A d \in Due : \/ \E i \in 1..Len(b) : b[i] = d
                          \/ /\ Len(b) = BatchSize
                             /\ \A i \in 1..Len(b) : b[i].runAt <= d.runAt}

\* Where the loop over the batch goes when rest is left of it.
AfterEntryFault(rest) == "remove"             \* fault: no test for the end of the batch
AfterEntry(rest) == IF rest = <<>> THEN "dequeue" ELSE "remove"

PromoteRead(w) ==
    /\ pc[w] = "promote"
    /\ \E b \in DueBatches :
         LET raw == [i \in 1..Len(b) |-> b[i].env]
         IN  /\ batch' = [batch EXCEPT ![w] = raw]
             /\ pc' = [pc EXCEPT ![w] = AfterEntry(raw)]
    /\ UNCHANGED <<redis, now, hand, history>>

\* Fault: the answer of ZREM is ignored, so an entry that another worker has
\* already taken is pushed a second time.
PromoteRemoveFault(w) ==
    /\ pc[w] = "remove"
    /\ delayed' = {d \in delayed : d.env # Head(batch[w])}
    /\ hand' = [hand EXCEPT ![w] = Head(batch[w])]
    /\ pc' = [pc EXCEPT ![w] = "push"]
    /\ batch' = [batch EXCEPT ![w] = Tail(@)]
    /\ UNCHANGED <<queue, dead, now, history>>

\* ZREM of the next entry; another worker may have removed it meanwhile.
PromoteRemove(w) ==
    /\ pc[w] = "remove"
    /\ LET raw == Head(batch[w]) IN
         \/ /\ \E d \in delayed : d.env = raw
            /\ delayed' = {d \in delayed : d.env # raw}
            /\ hand' = [hand EXCEPT ![w] = raw]
            /\ pc' = [pc EXCEPT ![w] = "push"]
         \/ /\ \A d \in delayed : d.env # raw
            /\ pc' = [pc EXCEPT ![w] = AfterEntry(Tail(batch[w]))]
            /\ UNCHANGED <<delayed, hand>>
    /\ batch' = [batch EXCEPT ![w] = Tail(@)]
    /\ UNCHANGED <<queue, dead, now, history>>

PromotePush(w) ==
    /\ pc[w] = "push"
    /\ queue' = Append(queue, hand[w])
    /\ hand' = [hand EXCEPT ![w] = NoJob]
    /\ pc' = [pc EXCEPT ![w] = AfterEntry(batch[w])]
    /\ UNCHANGED <<delayed, dead, now, batch, history>>

-----------------------------------------------------------------------------
(* JobQueue.dequeue and the rest of the loop of run_worker                   *)

\* BLPOP answered: the job now exists in this worker's memory only.
Dequeue(w) ==
    /\ pc[w] = "dequeue" /\ queue # <<>>
    /\ hand' = [hand EXCEPT ![w] = Head(queue)]
    /\ queue' = Tail(queue)
    /\ pc' = [pc EXCEPT ![w] = "execute"]
    /\ runs' = [runs EXCEPT ![Head(queue).id] = @ + 1]
    /\ UNCHANGED <<delayed, dead, now, batch, submitted, limit, finished, crashes>>

\* Fault: the worker keeps polling the list and never promotes again.
DequeueTimeoutFault(w) == pc[w] = "dequeue" /\ queue = <<>> /\ UNCHANGED vars

\* BLPOP timed out (job_worker_poll_seconds) on an empty list.
DequeueTimeout(w) ==
    /\ pc[w] = "dequeue" /\ queue = <<>>
    /\ pc' = [pc EXCEPT ![w] = "promote"]
    /\ UNCHANGED <<redis, now, batch, hand, history>>

ExecuteOk(w) ==
    /\ pc[w] = "execute"
    /\ finished' = finished \cup {hand[w].id}
    /\ hand' = [hand EXCEPT ![w] = NoJob]
    /\ pc' = [pc EXCEPT ![w] = "promote"]
    /\ UNCHANGED <<redis, now, batch, submitted, limit, runs, crashes>>

\* The executor raised, before or after the job had its outside effect.
ExecuteError(w) ==
    /\ pc[w] = "execute"
    /\ pc' = [pc EXCEPT ![w] = "failed"]
    /\ UNCHANGED <<redis, now, batch, hand, history>>

MayRetryFault(e) == e.attempt < e.max        \* fault: off by one
\* The test "attempt + 1 < max_attempts" of run_worker.
MayRetry(e) == e.attempt + 1 < e.max

NextAttemptFault(e) == e                     \* fault: the attempt is not counted
\* The envelope a failed attempt leaves behind.
NextAttempt(e) == [e EXCEPT !.attempt = @ + 1]

BackoffSeconds(e) == Backoff * (IF e.attempt < 1 THEN 1 ELSE e.attempt)

ScheduleRetry(w) ==
    /\ pc[w] = "failed" /\ MayRetry(hand[w])
    /\ LET e == NextAttempt(hand[w]) IN Publish(e, BackoffSeconds(e))
    /\ hand' = [hand EXCEPT ![w] = NoJob]
    /\ pc' = [pc EXCEPT ![w] = "promote"]
    /\ UNCHANGED <<dead, now, batch, history>>

\* Fault: the exhausted job is only logged.
MoveToDeadLetterFault(w) ==
    /\ pc[w] = "failed" /\ ~MayRetry(hand[w])
    /\ hand' = [hand EXCEPT ![w] = NoJob]
    /\ pc' = [pc EXCEPT ![w] = "promote"]
    /\ UNCHANGED <<redis, now, batch, history>>

MoveToDeadLetter(w) ==
    /\ pc[w] = "failed" /\ ~MayRetry(hand[w])
    /\ dead' = Append(dead, NextAttempt(hand[w]))
    /\ hand' = [hand EXCEPT ![w] = NoJob]
    /\ pc' = [pc EXCEPT ![w] = "promote"]
    /\ UNCHANGED <<queue, delayed, now, batch, history>>

-----------------------------------------------------------------------------
(* The environment: crashes, the container's restart policy, time           *)

\* The process is killed, or a Redis call outside the try block raises and
\* run_worker leaves its loop: only Redis survives.
Crash(w) ==
    /\ pc[w] # "down" /\ crashes < MaxCrashes
    /\ crashes' = crashes + 1
    /\ pc' = [pc EXCEPT ![w] = "down"]
    /\ batch' = [batch EXCEPT ![w] = <<>>]
    /\ hand' = [hand EXCEPT ![w] = NoJob]
    /\ UNCHANGED <<redis, now, submitted, limit, runs, finished>>

\* docker-compose: restart: unless-stopped
Restart(w) ==
    /\ pc[w] = "down"
    /\ pc' = [pc EXCEPT ![w] = "promote"]
    /\ UNCHANGED <<redis, now, batch, hand, history>>

\* Time matters only while something is scheduled for later.
Tick == /\ \E d \in delayed : d.runAt > now
        /\ now' = now + 1
        /\ UNCHANGED <<redis, worker, history>>

WorkerStep(w) == \/ PromoteRead(w) \/ PromoteRemove(w) \/ PromotePush(w)
                 \/ Dequeue(w) \/ DequeueTimeout(w)
                 \/ ExecuteOk(w) \/ ExecuteError(w)
                 \/ ScheduleRetry(w) \/ MoveToDeadLetter(w)
                 \/ Restart(w)

Next == \/ \E j \in Jobs : Enqueue(j)
        \/ \E w \in Workers : WorkerStep(w) \/ Crash(w)
        \/ Tick

Spec == Init /\ [][Next]_vars

\* A worker that runs keeps running (its calls have time-outs), one that is
\* down is restarted, and time passes.  Crashes and clients owe nothing.
Fairness == /\ \A w \in Workers : WF_vars(WorkerStep(w))
            /\ WF_vars(Tick)

FairSpec == Spec /\ Fairness

-----------------------------------------------------------------------------
(* What is checked                                                           *)

Ids(seq)   == {seq[i].id : i \in 1..Len(seq)}
DelayedIds == {d.env.id : d \in delayed}
Holding(w) == IF hand[w] = NoJob THEN {} ELSE {hand[w].id}
Executing(w) == pc[w] \in {"execute", "failed"}

DelayedOK == \A d \in delayed : /\ d = [env |-> d.env, runAt |-> d.runAt]
                                /\ d.env \in Envelope /\ d.runAt \in Nat

\* Which of a worker's registers are in use at which stage of its loop.
RegistersOK == \A w \in Workers :
    /\ hand[w] # NoJob <=> pc[w] \in {"push", "execute", "failed"}
    /\ batch[w] # <<>> => pc[w] \in {"remove", "push"}
    /\ pc[w] = "remove" => batch[w] # <<>>

\* The values every variable may have.
TypeOK ==
    /\ queue \in Seq(Envelope) /\ DelayedOK /\ dead \in Seq(Envelope)
    /\ now \in Nat
    /\ pc \in [Workers -> Stages]
    /\ batch \in [Workers -> Seq(Envelope)]
    /\ hand \in [Workers -> Envelope \cup {NoJob}]
    /\ RegistersOK
    /\ submitted \subseteq Jobs /\ finished \subseteq Jobs
    /\ limit \in [Jobs -> Int] /\ runs \in [Jobs -> Nat]
    /\ crashes \in 0..MaxCrashes

DistinctIds(seq) == \A i, k \in 1..Len(seq) : seq[i].id = seq[k].id => i = k

\* However the workers interleave, a job never exists twice: it has at most
\* one copy among the list, the sorted set, the dead letters and the memories
\* of the workers, and none once it has succeeded.  Guards promote_due_jobs
\* against two workers that read the same due members.
SingleCopy ==
    /\ DistinctIds(queue) /\ DistinctIds(dead)
    /\ \A d, e \in delayed : d.env.id = e.env.id => d = e
    /\ \A v, w \in Workers : v # w => Holding(v) \cap Holding(w) = {}
    /\ Ids(queue) \cap (DelayedIds \cup Ids(dead) \cup finished) = {}
    /\ DelayedIds \cap (Ids(dead) \cup finished) = {}
    /\ Ids(dead) \cap finished = {}
    /\ \A w \in Workers :
         Holding(w) \cap (Ids(queue) \cup DelayedIds \cup Ids(dead) \cup finished) = {}

\* The attempt written in an envelope is the number of times the job was
\* executed: a waiting job still has attempts left, a buried one has used
\* exactly its allowance, and no job is executed more often than that.
MaxRuns(j) == IF limit[j] < 1 THEN 1 ELSE limit[j]
Waiting == {queue[i] : i \in 1..Len(queue)} \cup {d.env : d \in delayed}
             \cup {hand[w] : w \in {v \in Workers : pc[v] = "push"}}
RunsBounded == \A j \in Jobs : runs[j] <= MaxRuns(j)
WaitingOK == \A e \in Waiting : /\ e.attempt = runs[e.id] /\ e.max = limit[e.id]
                                /\ e.attempt < MaxRuns(e.id)
ExecutingOK == \A w \in Workers : Executing(w) =>
                   /\ hand[w].attempt + 1 = runs[hand[w].id]
                   /\ hand[w].max = limit[hand[w].id]
DeadOK == \A i \in 1..Len(dead) : /\ dead[i].attempt = runs[dead[i].id]
                                  /\ runs[dead[i].id] = MaxRuns(dead[i].id)
AttemptAccounting == RunsBounded /\ WaitingOK /\ ExecutingOK /\ DeadOK

\* A delayed or rescheduled job leaves the sorted set only when its time has
\* come, even if a worker goes through a batch it read long ago and the same
\* job has run, failed and been rescheduled in between.
NoEarlyPromotion ==
    [][\A d \in delayed : d.env.id \notin {e.env.id : e \in delayed'} => d.runAt <= now]_vars

\* The only way to lose a job is the death of the worker that holds it.
Known == Ids(queue) \cup DelayedIds \cup Ids(dead) \cup finished
           \cup UNION {Holding(w) : w \in Workers}
LostOnlyWithItsWorker ==
    [][\A j \in Known \ Known' : \E w \in Workers : j \in Holding(w) /\ pc'[w] = "down"]_vars

\* The inductive invariant behind the four properties above.  A batch may be
\* stale: what its entries still satisfy keeps ZREM from taking a later copy.
KnownSubmitted == Known \subseteq submitted /\ \A j \in Jobs \ submitted : runs[j] = 0
StaleBatchOK ==
    \A w \in Workers : \A i \in 1..Len(batch[w]) :
      LET b == batch[w][i]
      IN  /\ b.id \in submitted /\ b.attempt <= runs[b.id]
          /\ b.attempt = runs[b.id] => \A v \in Workers : Executing(v) => hand[v].id # b.id
          /\ \A d \in delayed : d.env = b => d.runAt <= now
IInv == TypeOK /\ SingleCopy /\ AttemptAccounting /\ KnownSubmitted /\ StaleBatchOK

\* Every job that was accepted is eventually done or buried, unless the
\* worker that held it died: none waits forever and none is retried forever.
Settled(j) == j \in finished \cup Ids(dead) \/ (j \in submitted /\ j \notin Known)
EventuallySettled == \A j \in Jobs : j \in submitted ~> Settled(j)

\* The subsystem implements the ledger: the condition of a job is a function
\* of where its only copy is.
Status(j) ==
    CASE j \in finished -> "done"
      [] j \in Ids(dead) -> "dead"
      [] \E w \in Workers : Executing(w) /\ hand[w].id = j -> "running"
      [] j \in Known \ (finished \cup Ids(dead)) /\
         ~ \E w \in Workers : Executing(w) /\ hand[w].id = j -> "waiting"
      [] j \in submitted \ Known -> "lost"
      [] j \notin submitted -> "new"

Ledger == INSTANCE JobLedger WITH
            Limits <- {MaxAttempts(m) : m \in MaxAttemptsInputs},
            status <- [j \in Jobs |-> Status(j)],
            attempts <- runs

ImplementsLedger == Ledger!Spec
=============================================================================
