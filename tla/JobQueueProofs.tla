--------------------------- MODULE JobQueueProofs ---------------------------
(* Theorems about JobQueue, for every set of jobs and workers, every batch   *)
(* size, backoff and limit, and any number of crashes: type correctness, the *)
(* inductive invariant, and what follows from it: a job is never duplicated, *)
(* never run more often than its limit allows, and never promoted before its *)
(* time.                                                                     *)
EXTENDS JobQueue, SequenceTheorems, TLAPS

-----------------------------------------------------------------------------
(* The helpers                                                               *)

\* The limit a job is given is an integer.
LEMMA MaxAttemptsInt == \A m \in MaxAttemptsInputs : MaxAttempts(m) \in Int
  BY SettingsAssumption, InputsAssumption DEF MaxAttempts

\* Counting an attempt makes an envelope of an envelope.
LEMMA NextAttemptEnvelope ==
  ASSUME NEW e \in Envelope
  PROVE  /\ NextAttempt(e) \in Envelope
         /\ NextAttempt(e).id = e.id
         /\ NextAttempt(e).max = e.max
         /\ NextAttempt(e).attempt = e.attempt + 1
  BY DEF NextAttempt, Envelope

\* A backoff is a positive number of seconds.
LEMMA BackoffPositive ==
  ASSUME NEW e \in Envelope
  PROVE  BackoffSeconds(e) \in Nat /\ BackoffSeconds(e) > 0
<1>1. e.attempt \in Nat
  BY DEF Envelope
<1>2. \A b, n \in Nat \ {0} : b * n \in Nat /\ b * n > 0
  OBVIOUS
<1> QED
  BY <1>1, <1>2, SettingsAssumption DEF BackoffSeconds

\* What Publish does to the list and the sorted set.
LEMMA PublishType ==
  ASSUME queue \in Seq(Envelope), DelayedOK, now \in Nat,
         NEW e \in Envelope, NEW delay \in Int, Publish(e, delay)
  PROVE  queue' \in Seq(Envelope) /\ DelayedOK'
<1>1. CASE delay <= 0
  BY <1>1, AppendProperties DEF Publish, DelayedOK
<1>2. CASE ~(delay <= 0)
  BY <1>2 DEF Publish, DelayedOK, SortedAdd
<1> QED
  BY <1>1, <1>2

\* The result of ZRANGEBYSCORE, as the envelopes the loop goes through.
LEMMA DueBatchType ==
  ASSUME DelayedOK, NEW b \in DueBatches
  PROVE  /\ Len(b) \in Nat
         /\ [i \in 1..Len(b) |-> b[i].env] \in Seq(Envelope)
         /\ Len([i \in 1..Len(b) |-> b[i].env]) = Len(b)
         /\ \A i \in 1..Len(b) : b[i] \in delayed /\ b[i].runAt <= now
<1>1. PICK n \in 0..BatchSize : b \in [1..n -> Due]
  BY DEF DueBatches
<1>2. n \in Nat
  BY <1>1, SettingsAssumption
<1>3. b \in Seq(Due) /\ Len(b) = n
  BY <1>1, <1>2
<1>4. \A i \in 1..Len(b) : b[i] \in delayed /\ b[i].runAt <= now
  BY <1>1, <1>3 DEF Due
<1>5. \A i \in 1..Len(b) : b[i].env \in Envelope
  BY <1>4 DEF DelayedOK
<1>6. [i \in 1..n |-> b[i].env] \in [1..n -> Envelope]
  BY <1>3, <1>5
<1> QED
  BY <1>2, <1>3, <1>4, <1>6

-----------------------------------------------------------------------------
(* Type correctness                                                          *)

\* An empty Redis and idle workers are well-typed.
LEMMA TypeInit == Init => TypeOK
  BY BoundAssumption DEF Init, TypeOK, DelayedOK, RegistersOK, Stages

\* Typing, one lemma for each action: a new envelope is published with its id.
LEMMA TypeEnqueue ==
  ASSUME TypeOK, NEW j \in Jobs, Enqueue(j)
  PROVE  TypeOK'
<1>1. PICK m \in MaxAttemptsInputs, d \in DelayInputs :
        /\ Publish([id |-> j, attempt |-> 0, max |-> MaxAttempts(m)], d)
        /\ limit' = [limit EXCEPT ![j] = MaxAttempts(m)]
  BY DEF Enqueue
<1>2. MaxAttempts(m) \in Int /\ d \in Int
  BY <1>1, MaxAttemptsInt, InputsAssumption
<1>3. [id |-> j, attempt |-> 0, max |-> MaxAttempts(m)] \in Envelope
  BY <1>2 DEF Envelope
<1>4. queue' \in Seq(Envelope) /\ DelayedOK'
  BY <1>1, <1>2, <1>3, PublishType DEF TypeOK
<1>5. limit' \in [Jobs -> Int]
  BY <1>1, <1>2 DEF TypeOK
<1> QED
  BY <1>4, <1>5 DEF TypeOK, RegistersOK, Enqueue, worker

\* A batch consists of envelopes of the sorted set.
LEMMA TypePromoteRead ==
  ASSUME TypeOK, NEW w \in Workers, PromoteRead(w)
  PROVE  TypeOK'
<1>1. PICK b \in DueBatches :
        LET raw == [i \in 1..Len(b) |-> b[i].env]
        IN  /\ batch' = [batch EXCEPT ![w] = raw]
            /\ pc' = [pc EXCEPT ![w] = AfterEntry(raw)]
  BY DEF PromoteRead
<1> DEFINE raw == [i \in 1..Len(b) |-> b[i].env]
<1>2. raw \in Seq(Envelope)
  BY DueBatchType DEF TypeOK
<1> HIDE DEF raw
<1>3. batch' = [batch EXCEPT ![w] = raw] /\ pc' = [pc EXCEPT ![w] = AfterEntry(raw)]
  BY <1>1 DEF raw
<1>4. RegistersOK'
  BY <1>2, <1>3 DEF PromoteRead, TypeOK, RegistersOK, AfterEntry
<1> QED
  BY <1>2, <1>3, <1>4
     DEF PromoteRead, TypeOK, DelayedOK, AfterEntry, Stages, redis, history

\* The head of a batch, if this worker removed it, goes into the worker's hand.
LEMMA TypePromoteRemove ==
  ASSUME TypeOK, NEW w \in Workers, PromoteRemove(w)
  PROVE  TypeOK'
<1> DEFINE raw == Head(batch[w])
           rest == Tail(batch[w])
<1>1. raw \in Envelope /\ rest \in Seq(Envelope)
  BY HeadTailProperties DEF PromoteRemove, TypeOK, RegistersOK
<1>2. raw # NoJob
  BY <1>1, NoJobAssumption
<1>3. batch' = [batch EXCEPT ![w] = rest]
  BY DEF PromoteRemove, TypeOK
<1> HIDE DEF raw, rest
<1>4. CASE /\ delayed' = {d \in delayed : d.env # raw}
           /\ hand' = [hand EXCEPT ![w] = raw]
           /\ pc' = [pc EXCEPT ![w] = "push"]
  <2>1. RegistersOK'
    BY <1>1, <1>2, <1>3, <1>4 DEF TypeOK, RegistersOK
  <2> QED
    BY <1>1, <1>3, <1>4, <2>1 DEF PromoteRemove, TypeOK, DelayedOK, Stages, history
<1>5. CASE /\ pc' = [pc EXCEPT ![w] = AfterEntry(rest)]
           /\ UNCHANGED <<delayed, hand>>
  <2>1. RegistersOK'
    BY <1>1, <1>3, <1>5 DEF PromoteRemove, TypeOK, RegistersOK, AfterEntry
  <2> QED
    BY <1>1, <1>3, <1>5, <2>1
       DEF PromoteRemove, TypeOK, DelayedOK, AfterEntry, Stages, history
<1> QED
  BY <1>4, <1>5 DEF PromoteRemove, raw, rest

\* What the worker holds goes to the list, and the loop to its next entry.
LEMMA TypePromotePush ==
  ASSUME TypeOK, NEW w \in Workers, PromotePush(w)
  PROVE  TypeOK'
<1>1. hand[w] \in Envelope
  BY DEF PromotePush, TypeOK, RegistersOK
<1>2. queue' \in Seq(Envelope)
  BY <1>1, AppendProperties DEF PromotePush, TypeOK
<1>3. RegistersOK'
  BY DEF PromotePush, TypeOK, RegistersOK, AfterEntry
<1> QED
  BY <1>2, <1>3 DEF PromotePush, TypeOK, DelayedOK, AfterEntry, Stages, history

\* The head of the list goes into the worker's hand.
LEMMA TypeDequeue ==
  ASSUME TypeOK, NEW w \in Workers, Dequeue(w)
  PROVE  TypeOK'
<1>1. Head(queue) \in Envelope /\ queue' \in Seq(Envelope)
  BY HeadTailProperties DEF Dequeue, TypeOK
<1>2. Head(queue).id \in Jobs /\ Head(queue) # NoJob
  BY <1>1, NoJobAssumption DEF Envelope
<1>3. RegistersOK'
  BY <1>1, <1>2 DEF Dequeue, TypeOK, RegistersOK
<1>4. runs' \in [Jobs -> Nat]
  BY <1>2 DEF Dequeue, TypeOK
<1> QED
  BY <1>1, <1>3, <1>4 DEF Dequeue, TypeOK, DelayedOK, Stages

\* An execution ends well or badly.
LEMMA TypeExecute ==
  ASSUME TypeOK, NEW w \in Workers,
         DequeueTimeout(w) \/ ExecuteOk(w) \/ ExecuteError(w)
  PROVE  TypeOK'
<1>1. CASE DequeueTimeout(w)
  BY <1>1 DEF DequeueTimeout, TypeOK, DelayedOK, RegistersOK, Stages, redis, history
<1>2. CASE ExecuteOk(w)
  <2>1. hand[w].id \in Jobs
    BY <1>2 DEF ExecuteOk, TypeOK, RegistersOK, Envelope
  <2> QED
    BY <1>2, <2>1 DEF ExecuteOk, TypeOK, DelayedOK, RegistersOK, Stages, redis
<1>3. CASE ExecuteError(w)
  BY <1>3 DEF ExecuteError, TypeOK, DelayedOK, RegistersOK, Stages, redis, history
<1> QED
  BY <1>1, <1>2, <1>3

\* A failed job is published again with one attempt more, or buried.
LEMMA TypeFailed ==
  ASSUME TypeOK, NEW w \in Workers, ScheduleRetry(w) \/ MoveToDeadLetter(w)
  PROVE  TypeOK'
<1> DEFINE e == NextAttempt(hand[w])
<1>1. e \in Envelope
  BY NextAttemptEnvelope DEF ScheduleRetry, MoveToDeadLetter, TypeOK, RegistersOK
<1>2. RegistersOK'
  BY DEF ScheduleRetry, MoveToDeadLetter, TypeOK, RegistersOK
<1> HIDE DEF e
<1>3. CASE ScheduleRetry(w)
  <2>1. Publish(e, BackoffSeconds(e))
    BY <1>3 DEF ScheduleRetry, e
  <2>2. BackoffSeconds(e) \in Int
    BY <1>1, BackoffPositive
  <2>3. queue' \in Seq(Envelope) /\ DelayedOK'
    BY <1>1, <2>1, <2>2, PublishType DEF TypeOK
  <2> QED
    BY <1>2, <1>3, <2>3 DEF ScheduleRetry, TypeOK, Stages, history
<1>4. CASE MoveToDeadLetter(w)
  <2>1. dead' \in Seq(Envelope)
    BY <1>1, <1>4, AppendProperties DEF MoveToDeadLetter, TypeOK, e
  <2> QED
    BY <1>2, <1>4, <2>1 DEF MoveToDeadLetter, TypeOK, DelayedOK, Stages, history
<1> QED
  BY <1>3, <1>4

\* Timeouts, crashes, restarts and time leave well-typed what they touch.
LEMMA TypeEnvironment ==
  ASSUME TypeOK,
         \/ \E w \in Workers : Crash(w) \/ Restart(w)
         \/ Tick
         \/ UNCHANGED vars
  PROVE  TypeOK'
<1>1. CASE \E w \in Workers : Crash(w)
  BY <1>1, BoundAssumption
     DEF Crash, TypeOK, DelayedOK, RegistersOK, Stages, redis
<1>2. CASE \E w \in Workers : Restart(w)
  BY <1>2 DEF Restart, TypeOK, DelayedOK, RegistersOK, Stages, redis, history
<1>3. CASE Tick
  BY <1>3 DEF Tick, TypeOK, DelayedOK, RegistersOK, redis, worker, history
<1>4. CASE UNCHANGED vars
  BY <1>4 DEF vars, TypeOK, DelayedOK, RegistersOK, redis, worker, history
<1> QED
  BY <1>1, <1>2, <1>3, <1>4

\* Typing is inductive by itself.
LEMMA TypeStep == TypeOK /\ [Next]_vars => TypeOK'
  BY TypeEnqueue, TypePromoteRead, TypePromoteRemove, TypePromotePush, TypeDequeue,
     TypeExecute, TypeFailed, TypeEnvironment
     DEF Next, WorkerStep

\* Whatever the interleaving, Redis and the workers hold well-formed envelopes,
\* and a worker has a job in its hand exactly while it pushes or executes one.
THEOREM TypeCorrect == Spec => []TypeOK
  BY TypeInit, TypeStep, PTL DEF Spec

-----------------------------------------------------------------------------
(* Ids of sequences and of the sorted set                                    *)

\* Appending an envelope adds its id, and keeps the ids distinct if it is new.
LEMMA IdsAppend ==
  ASSUME NEW s \in Seq(Envelope), NEW e \in Envelope
  PROVE  /\ Ids(Append(s, e)) = Ids(s) \cup {e.id}
         /\ DistinctIds(s) /\ e.id \notin Ids(s) => DistinctIds(Append(s, e))
         /\ \A i \in 1..Len(Append(s, e)) :
              Append(s, e)[i] = e \/ \E k \in 1..Len(s) : Append(s, e)[i] = s[k]
<1> DEFINE t == Append(s, e)
<1>1. /\ Len(s) \in Nat /\ Len(t) = Len(s) + 1
      /\ \A i \in 1..Len(s) : t[i] = s[i]
      /\ t[Len(s) + 1] = e
  BY AppendProperties, LenProperties
<1> HIDE DEF t
<1>2. \A i \in 1..Len(t) : i \in 1..Len(s) \/ i = Len(s) + 1
  BY <1>1
<1>3. 1..Len(s) \subseteq 1..Len(t) /\ Len(s) + 1 \in 1..Len(t)
  BY <1>1
<1>4. Ids(t) = Ids(s) \cup {e.id}
  BY <1>1, <1>2, <1>3 DEF Ids
<1>5. DistinctIds(s) /\ e.id \notin Ids(s) => DistinctIds(t)
  BY <1>1, <1>2 DEF DistinctIds, Ids
<1>6. \A i \in 1..Len(t) : t[i] = e \/ \E k \in 1..Len(s) : t[i] = s[k]
  BY <1>1, <1>2
<1> QED
  BY <1>4, <1>5, <1>6 DEF t

\* Removing the head removes its id only.
LEMMA IdsTail ==
  ASSUME NEW s \in Seq(Envelope), s # <<>>
  PROVE  /\ Ids(s) = Ids(Tail(s)) \cup {Head(s).id}
         /\ DistinctIds(s) => DistinctIds(Tail(s)) /\ Head(s).id \notin Ids(Tail(s))
         /\ \A i \in 1..Len(Tail(s)) : \E k \in 1..Len(s) : Tail(s)[i] = s[k]
         /\ \E k \in 1..Len(s) : Head(s) = s[k]
<1> DEFINE t == Tail(s)
<1>1. /\ Len(s) \in Nat /\ Len(s) > 0 /\ Len(t) = Len(s) - 1
      /\ \A i \in 1..Len(t) : t[i] = s[i + 1]
  BY HeadTailProperties, EmptySeq, LenProperties
<1>2. Head(s) = s[1]
  OBVIOUS
<1> HIDE DEF t
<1>3. \A i \in 1..Len(t) : i + 1 \in 1..Len(s)
  BY <1>1
<1>4. 1 \in 1..Len(s) /\ \A k \in 1..Len(s) :
                         \/ k = 1
                         \/ k - 1 \in 1..Len(t) /\ s[k] = t[k - 1]
  BY <1>1
<1>5. Ids(s) = Ids(t) \cup {Head(s).id}
  <2>1. Ids(s) \subseteq Ids(t) \cup {Head(s).id}
    BY <1>2, <1>4 DEF Ids
  <2>2. Ids(t) \cup {Head(s).id} \subseteq Ids(s)
    BY <1>1, <1>2, <1>3, <1>4 DEF Ids
  <2> QED
    BY <2>1, <2>2
<1>6. DistinctIds(s) => DistinctIds(t) /\ Head(s).id \notin Ids(t)
  <2> SUFFICES ASSUME DistinctIds(s)
               PROVE  DistinctIds(t) /\ Head(s).id \notin Ids(t)
    OBVIOUS
  <2>1. DistinctIds(t)
    BY <1>1, <1>3 DEF DistinctIds
  <2>2. ASSUME NEW i \in 1..Len(t), t[i].id = Head(s).id PROVE FALSE
    <3>1. s[i + 1].id = s[1].id /\ i + 1 # 1
      BY <1>1, <1>2, <2>2
    <3> QED
      BY <1>3, <1>4, <3>1 DEF DistinctIds
  <2> QED
    BY <2>1, <2>2 DEF Ids
<1>7. \A i \in 1..Len(t) : \E k \in 1..Len(s) : t[i] = s[k]
  BY <1>1, <1>3
<1>8. \E k \in 1..Len(s) : Head(s) = s[k]
  BY <1>2, <1>4
<1> QED
  BY <1>5, <1>6, <1>7, <1>8 DEF t

\* ZADD of a member whose id is new.
LEMMA DelayedAdd ==
  ASSUME NEW e \in Envelope, NEW score \in Nat, e.id \notin DelayedIds,
         delayed' = SortedAdd(delayed, e, score)
  PROVE  /\ delayed' = delayed \cup {[env |-> e, runAt |-> score]}
         /\ DelayedIds' = DelayedIds \cup {e.id}
<1>1. \A d \in delayed : d.env # e
  BY DEF DelayedIds
<1>2. delayed' = delayed \cup {[env |-> e, runAt |-> score]}
  BY <1>1 DEF SortedAdd
<1> DEFINE d0 == [env |-> e, runAt |-> score]
<1>3. d0.env.id = e.id /\ d0 \in delayed'
  BY <1>2
<1> HIDE DEF d0
<1>4. \A d \in delayed' : d \in delayed \/ d = d0
  BY <1>2 DEF d0
<1>5. DelayedIds' \subseteq DelayedIds \cup {e.id}
  BY <1>3, <1>4 DEF DelayedIds
<1>6. DelayedIds \cup {e.id} \subseteq DelayedIds'
  BY <1>2, <1>3 DEF DelayedIds
<1> QED
  BY <1>2, <1>5, <1>6

\* ZREM of a member, where ids are unique.
LEMMA DelayedRemove ==
  ASSUME NEW raw \in Envelope, \E d \in delayed : d.env = raw,
         \A d, e \in delayed : d.env.id = e.env.id => d = e,
         delayed' = {d \in delayed : d.env # raw}
  PROVE  /\ DelayedIds' = DelayedIds \ {raw.id}
         /\ raw.id \in DelayedIds
         /\ \A d \in delayed \ delayed' : d.env = raw
<1>1. PICK r \in delayed : r.env = raw
  OBVIOUS
<1>2. \A d \in delayed : d.env # raw => d.env.id # raw.id
  BY <1>1
<1> QED
  BY <1>1, <1>2 DEF DelayedIds

-----------------------------------------------------------------------------
(* What the registers of a worker say about the job it holds                 *)

\* A worker holds a job exactly while it pushes, executes or handles the failure of one.
LEMMA Hands ==
  ASSUME TypeOK, NEW w \in Workers
  PROVE  /\ pc[w] \in {"push", "execute", "failed"} =>
              hand[w] \in Envelope /\ Holding(w) = {hand[w].id}
         /\ pc[w] \notin {"push", "execute", "failed"} => hand[w] = NoJob /\ Holding(w) = {}
         /\ Executing(w) => hand[w] \in Envelope /\ Holding(w) = {hand[w].id}
  BY DEF TypeOK, RegistersOK, Holding, Executing

\* A worker that takes e, while the others keep theirs.
LEMMA Takes ==
  ASSUME TypeOK, NEW w \in Workers, NEW e \in Envelope, hand' = [hand EXCEPT ![w] = e]
  PROVE  /\ Holding(w)' = {e.id}
         /\ \A v \in Workers \ {w} : Holding(v)' = Holding(v) /\ hand'[v] = hand[v]
  BY NoJobAssumption DEF TypeOK, Holding

\* A worker that lets go of what it holds.
LEMMA LetsGo ==
  ASSUME TypeOK, NEW w \in Workers, hand' = [hand EXCEPT ![w] = NoJob]
  PROVE  /\ Holding(w)' = {}
         /\ \A v \in Workers \ {w} : Holding(v)' = Holding(v) /\ hand'[v] = hand[v]
  BY DEF TypeOK, Holding

\* Every waiting envelope carries an id that is known, and so do all the others.
LEMMA KnownEnvelopes ==
  ASSUME TypeOK
  PROVE  /\ \A e \in Waiting : e \in Envelope /\ e.id \in Known
         /\ \A w \in Workers : Executing(w) => hand[w].id \in Known
         /\ \A i \in 1..Len(dead) : dead[i] \in Envelope /\ dead[i].id \in Ids(dead)
         /\ \A i \in 1..Len(queue) : queue[i] \in Envelope /\ queue[i].id \in Ids(queue)
         /\ Known \subseteq Jobs
<1>1. \A i \in 1..Len(dead) : dead[i] \in Envelope /\ dead[i].id \in Ids(dead)
  BY ElementOfSeq DEF TypeOK, Ids
<1>2. \A i \in 1..Len(queue) : queue[i] \in Envelope /\ queue[i].id \in Ids(queue)
  BY ElementOfSeq DEF TypeOK, Ids
<1>3. \A d \in delayed : d.env \in Envelope /\ d.env.id \in DelayedIds
  BY DEF TypeOK, DelayedOK, DelayedIds
<1>4. \A w \in Workers : pc[w] = "push" \/ Executing(w) =>
        hand[w] \in Envelope /\ hand[w].id \in Known
  BY Hands DEF Known, Executing
<1>5. \A e \in Waiting : e \in Envelope /\ e.id \in Known
  BY <1>2, <1>3, <1>4 DEF Waiting, Known
<1>6. /\ Ids(queue) \subseteq Jobs /\ Ids(dead) \subseteq Jobs /\ DelayedIds \subseteq Jobs
      /\ finished \subseteq Jobs /\ \A w \in Workers : Holding(w) \subseteq Jobs
  <2>1. Ids(queue) \subseteq Jobs
    BY <1>2 DEF Ids, Envelope
  <2>2. Ids(dead) \subseteq Jobs
    BY <1>1 DEF Ids, Envelope
  <2>3. DelayedIds \subseteq Jobs
    BY <1>3 DEF DelayedIds, Envelope
  <2>4. \A w \in Workers : Holding(w) \subseteq Jobs
    BY DEF TypeOK, Holding, Envelope
  <2> QED
    BY <2>1, <2>2, <2>3, <2>4 DEF TypeOK
<1> QED
  BY <1>1, <1>2, <1>4, <1>5, <1>6 DEF Known

-----------------------------------------------------------------------------
(* One lemma per action: it preserves the invariant                          *)

Stored == {queue[i] : i \in 1..Len(queue)} \cup {d.env : d \in delayed}
UniqueDelayed == \A d, e \in delayed : d.env.id = e.env.id => d = e

\* Publishing a job that is neither in the list nor in the sorted set.
LEMMA PublishMoves ==
  ASSUME TypeOK, DistinctIds(queue), UniqueDelayed,
         NEW e \in Envelope, NEW delay \in Int, Publish(e, delay),
         e.id \notin Ids(queue), e.id \notin DelayedIds
  PROVE  /\ \/ Ids(queue)' = Ids(queue) \cup {e.id} /\ DelayedIds' = DelayedIds
            \/ Ids(queue)' = Ids(queue) /\ DelayedIds' = DelayedIds \cup {e.id}
         /\ DistinctIds(queue)' /\ UniqueDelayed'
         /\ \A x \in Stored' : x = e \/ x \in Stored
         /\ \A d \in delayed' : d \in delayed \/ d.env = e
<1>1. CASE delay <= 0
  <2>1. queue' = Append(queue, e) /\ delayed' = delayed
    BY <1>1 DEF Publish
  <2>2. Ids(queue)' = Ids(queue) \cup {e.id} /\ DistinctIds(queue)'
    BY <2>1, IdsAppend DEF TypeOK
  <2>3. \A i \in 1..Len(queue') : queue'[i] = e \/ \E k \in 1..Len(queue) : queue'[i] = queue[k]
    BY <2>1, IdsAppend DEF TypeOK
  <2>4. \A x \in Stored' : x = e \/ x \in Stored
    BY <2>1, <2>3 DEF Stored
  <2> QED
    BY <2>1, <2>2, <2>4 DEF UniqueDelayed, DelayedIds
<1>2. CASE ~(delay <= 0)
  <2>1. delayed' = SortedAdd(delayed, e, now + delay) /\ queue' = queue
    BY <1>2 DEF Publish
  <2>2. now + delay \in Nat
    BY <1>2 DEF TypeOK
  <2>3. /\ delayed' = delayed \cup {[env |-> e, runAt |-> now + delay]}
        /\ DelayedIds' = DelayedIds \cup {e.id}
    BY <2>1, <2>2, DelayedAdd
  <2>4. Ids(queue)' = Ids(queue) /\ DistinctIds(queue)'
    BY <2>1
  <2>5. \A d \in delayed' : d \in delayed \/ d.env = e
    BY <2>3
  <2>6. \A x \in Stored' : x = e \/ x \in Stored
    BY <2>1, <2>5 DEF Stored
  <2>7. UniqueDelayed'
    <3>1. \A d \in delayed : d.env.id # e.id
      BY DEF DelayedIds
    <3> QED
      BY <2>3, <3>1 DEF UniqueDelayed
  <2> QED
    BY <2>3, <2>4, <2>5, <2>6, <2>7
<1> QED
  BY <1>1, <1>2

\* The inductive invariant, one lemma for each action: the id of a new job is fresh.
LEMMA StepEnqueue ==
  ASSUME IInv, NEW j \in Jobs, Enqueue(j)
  PROVE  IInv'
<1>1. TypeOK /\ TypeOK'
  BY TypeEnqueue DEF IInv
<1>2. PICK m \in MaxAttemptsInputs, d \in DelayInputs :
        /\ Publish([id |-> j, attempt |-> 0, max |-> MaxAttempts(m)], d)
        /\ limit' = [limit EXCEPT ![j] = MaxAttempts(m)]
  BY DEF Enqueue
<1> DEFINE e == [id |-> j, attempt |-> 0, max |-> MaxAttempts(m)]
<1>3. e \in Envelope /\ e.id = j /\ e.attempt = 0 /\ e.max = MaxAttempts(m) /\ d \in Int
  BY <1>2, MaxAttemptsInt, InputsAssumption DEF Envelope
<1>4. Publish(e, d) /\ limit'[j] = e.max /\ \A i \in Jobs \ {j} : limit'[i] = limit[i]
  BY <1>1, <1>2, <1>3 DEF TypeOK
<1> HIDE DEF e
<1>5. j \notin Known /\ j \notin submitted /\ runs[j] = 0 /\ submitted' = submitted \cup {j}
  BY DEF IInv, KnownSubmitted, Enqueue
<1>6. /\ dead' = dead /\ pc' = pc /\ batch' = batch /\ hand' = hand
      /\ runs' = runs /\ finished' = finished /\ now' = now
  BY DEF Enqueue, worker
<1>7. Ids(dead)' = Ids(dead) /\ \A w \in Workers : Holding(w)' = Holding(w)
  BY <1>6 DEF Holding
<1>8. /\ \/ Ids(queue)' = Ids(queue) \cup {j} /\ DelayedIds' = DelayedIds
         \/ Ids(queue)' = Ids(queue) /\ DelayedIds' = DelayedIds \cup {j}
      /\ DistinctIds(queue)' /\ UniqueDelayed'
      /\ \A x \in Stored' : x = e \/ x \in Stored
      /\ \A x \in delayed' : x \in delayed \/ x.env = e
  BY <1>1, <1>3, <1>4, <1>5, PublishMoves DEF Known, IInv, SingleCopy, UniqueDelayed
<1>9. SingleCopy'
  BY <1>5, <1>6, <1>7, <1>8 DEF IInv, SingleCopy, Known, UniqueDelayed
<1>10. AttemptAccounting'
  <2>1. \A x \in Waiting' : x = e \/ x \in Waiting
    BY <1>6, <1>8 DEF Waiting, Stored
  <2>2. \A x \in Waiting : x.id # j /\ x.id \in Jobs
    BY <1>1, <1>5, KnownEnvelopes DEF Envelope
  <2>3. \A i \in Jobs \ {j} : MaxRuns(i)' = MaxRuns(i)
    BY <1>4 DEF MaxRuns
  <2>4. e.attempt < MaxRuns(j)' /\ runs'[j] = 0 /\ runs'[j] <= MaxRuns(j)' /\ MaxRuns(j)' \in Int
    BY <1>1, <1>3, <1>4, <1>5, <1>6 DEF MaxRuns, TypeOK
  <2>5. WaitingOK'
    BY <1>3, <1>4, <1>6, <2>1, <2>2, <2>3, <2>4 DEF IInv, AttemptAccounting, WaitingOK
  <2>6. ExecutingOK'
    BY <1>1, <1>4, <1>5, <1>6, KnownEnvelopes
       DEF IInv, AttemptAccounting, ExecutingOK, Executing
  <2>7. DeadOK'
    <3>1. \A i \in 1..Len(dead) : dead[i].id \in Jobs \ {j}
      BY <1>1, <1>5, KnownEnvelopes DEF Known
    <3> QED
      BY <1>6, <2>3, <3>1 DEF IInv, AttemptAccounting, DeadOK
  <2>8. RunsBounded'
    BY <1>6, <2>3, <2>4 DEF IInv, AttemptAccounting, RunsBounded
  <2> QED
    BY <2>5, <2>6, <2>7, <2>8 DEF AttemptAccounting
<1>11. KnownSubmitted'
  BY <1>5, <1>6, <1>7, <1>8 DEF IInv, KnownSubmitted, Known
<1>12. StaleBatchOK'
  BY <1>3, <1>5, <1>6, <1>8 DEF IInv, StaleBatchOK, Executing
<1> QED
  BY <1>1, <1>9, <1>10, <1>11, <1>12 DEF IInv

\* The accounting survives a step that starts no execution, if what it newly
\* puts among the waiting or the dead envelopes is in order.
LEMMA AccountingKept ==
  ASSUME AttemptAccounting, UNCHANGED <<runs, limit>>,
         \A x \in Waiting' : \/ x \in Waiting
                             \/ /\ x.attempt = runs[x.id] /\ x.max = limit[x.id]
                                /\ x.attempt < MaxRuns(x.id),
         \A v \in Workers : Executing(v)' => Executing(v) /\ hand'[v] = hand[v],
         \A i \in 1..Len(dead') :
            \/ \E k \in 1..Len(dead) : dead'[i] = dead[k]
            \/ dead'[i].attempt = runs[dead'[i].id] /\ runs[dead'[i].id] = MaxRuns(dead'[i].id)
  PROVE  AttemptAccounting'
<1>1. \A j : MaxRuns(j)' = MaxRuns(j)
  BY DEF MaxRuns
<1>2. RunsBounded'
  BY <1>1 DEF AttemptAccounting, RunsBounded
<1>3. WaitingOK'
  BY <1>1 DEF AttemptAccounting, WaitingOK
<1>4. ExecutingOK'
  BY DEF AttemptAccounting, ExecutingOK
<1>5. DeadOK'
  BY <1>1 DEF AttemptAccounting, DeadOK
<1> QED
  BY <1>2, <1>3, <1>4, <1>5 DEF AttemptAccounting

\* What is known of stale batches survives a step that starts no execution,
\* schedules nothing and reads no new batch.
LEMMA StaleKept ==
  ASSUME StaleBatchOK, UNCHANGED <<runs, submitted>>,
         now \in Nat, now' \in Nat, now' >= now, DelayedOK,
         delayed' \subseteq delayed,
         \A v \in Workers : Executing(v)' => Executing(v) /\ hand'[v] = hand[v],
         \A v \in Workers : \A i \in 1..Len(batch'[v]) :
            \E k \in 1..Len(batch[v]) : batch'[v][i] = batch[v][k]
  PROVE  StaleBatchOK'
<1> SUFFICES ASSUME NEW v \in Workers, NEW i \in 1..Len(batch'[v])
             PROVE  LET b == batch'[v][i]
                    IN  /\ b.id \in submitted /\ b.attempt <= runs[b.id]
                        /\ b.attempt = runs[b.id] =>
                             \A u \in Workers : Executing(u)' => hand'[u].id # b.id
                        /\ \A d \in delayed' : d.env = b => d.runAt <= now'
  BY DEF StaleBatchOK
<1>1. PICK k \in 1..Len(batch[v]) : batch'[v][i] = batch[v][k]
  OBVIOUS
<1>2. \A d \in delayed : d.runAt \in Nat
  BY DEF DelayedOK
<1> QED
  BY <1>1, <1>2 DEF StaleBatchOK

\* What a worker reads is due now, and in order.
LEMMA StepPromoteRead ==
  ASSUME IInv, NEW w \in Workers, PromoteRead(w)
  PROVE  IInv'
<1>1. TypeOK /\ TypeOK'
  BY TypePromoteRead DEF IInv
<1>2. PICK b \in DueBatches :
        LET raw == [i \in 1..Len(b) |-> b[i].env]
        IN  /\ batch' = [batch EXCEPT ![w] = raw]
            /\ pc' = [pc EXCEPT ![w] = AfterEntry(raw)]
  BY DEF PromoteRead
<1> DEFINE raw == [i \in 1..Len(b) |-> b[i].env]
<1>3. /\ Len(b) \in Nat /\ raw \in Seq(Envelope) /\ Len(raw) = Len(b)
      /\ \A i \in 1..Len(raw) : \E d \in delayed : raw[i] = d.env /\ d.runAt <= now
  <2>1. /\ Len(b) \in Nat /\ raw \in Seq(Envelope) /\ Len(raw) = Len(b)
        /\ \A i \in 1..Len(b) : b[i] \in delayed /\ b[i].runAt <= now
    BY <1>1, DueBatchType DEF TypeOK
  <2>2. \A i \in 1..Len(b) : raw[i] = b[i].env
    BY <2>1
  <2> QED
    BY <2>1, <2>2
<1> HIDE DEF raw
<1>4. /\ batch' = [batch EXCEPT ![w] = raw] /\ pc' = [pc EXCEPT ![w] = AfterEntry(raw)]
      /\ queue' = queue /\ delayed' = delayed /\ dead' = dead /\ now' = now /\ hand' = hand
      /\ submitted' = submitted /\ limit' = limit /\ runs' = runs /\ finished' = finished
  BY <1>2 DEF PromoteRead, redis, history, raw
<1>5. /\ pc[w] = "promote" /\ pc'[w] \in {"dequeue", "remove"}
      /\ \A v \in Workers \ {w} : pc'[v] = pc[v] /\ batch'[v] = batch[v]
      /\ batch'[w] = raw
  BY <1>1, <1>4 DEF PromoteRead, AfterEntry, TypeOK
<1>6. \A v \in Workers : Executing(v)' = Executing(v)
  BY <1>5 DEF Executing
<1>7. SingleCopy'
  BY <1>4 DEF IInv, SingleCopy, DelayedIds, Holding
<1>8. AttemptAccounting'
  <2>1. Waiting' \subseteq Waiting
    BY <1>4, <1>5 DEF Waiting
  <2> QED
    BY <1>4, <1>6, <2>1, AccountingKept DEF IInv
<1>9. KnownSubmitted'
  BY <1>4 DEF IInv, KnownSubmitted, Known, DelayedIds, Holding
<1>10. StaleBatchOK'
  <2>1. ASSUME NEW i \in 1..Len(raw)
        PROVE  /\ raw[i].id \in submitted /\ raw[i].attempt <= runs[raw[i].id]
               /\ \A v \in Workers : Executing(v) => hand[v].id # raw[i].id
               /\ \A d \in delayed : d.env = raw[i] => d.runAt <= now
    <3>1. PICK d \in delayed : raw[i] = d.env /\ d.runAt <= now
      BY <1>3
    <3>2. raw[i] \in Waiting /\ raw[i].id \in DelayedIds /\ raw[i].id \in Jobs
      BY <1>1, <3>1 DEF Waiting, DelayedIds, TypeOK, DelayedOK, Envelope
    <3>3. raw[i].id \in submitted
      BY <3>2 DEF IInv, KnownSubmitted, Known
    <3>4. raw[i].attempt <= runs[raw[i].id]
      BY <1>1, <3>2 DEF IInv, AttemptAccounting, WaitingOK, TypeOK
    <3>5. \A v \in Workers : Executing(v) => hand[v].id # raw[i].id
      BY <1>1, <3>2, Hands DEF IInv, SingleCopy
    <3>6. \A c \in delayed : c.env = raw[i] => c.runAt <= now
      BY <3>1 DEF IInv, SingleCopy
    <3> QED
      BY <3>3, <3>4, <3>5, <3>6
  <2> QED
    BY <1>4, <1>5, <1>6, <2>1 DEF IInv, StaleBatchOK
<1> QED
  BY <1>1, <1>7, <1>8, <1>9, <1>10 DEF IInv

\* Only the worker that really removed an entry holds its job; an entry of a
\* stale batch that is in the sorted set again is the envelope that was read.
LEMMA StepPromoteRemove ==
  ASSUME IInv, NEW w \in Workers, PromoteRemove(w)
  PROVE  IInv'
<1> DEFINE raw == Head(batch[w])
           rest == Tail(batch[w])
<1>1. TypeOK /\ TypeOK'
  BY TypePromoteRemove DEF IInv
<1>2. batch[w] \in Seq(Envelope) /\ batch[w] # <<>> /\ pc[w] = "remove"
  BY <1>1 DEF PromoteRemove, TypeOK, RegistersOK
<1>3. /\ raw \in Envelope /\ rest \in Seq(Envelope)
      /\ \A i \in 1..Len(rest) : \E k \in 1..Len(batch[w]) : rest[i] = batch[w][k]
      /\ \E k \in 1..Len(batch[w]) : raw = batch[w][k]
  BY <1>2, HeadTailProperties, IdsTail
<1>4. /\ batch' = [batch EXCEPT ![w] = rest]
      /\ queue' = queue /\ dead' = dead /\ now' = now
      /\ submitted' = submitted /\ limit' = limit /\ runs' = runs /\ finished' = finished
  BY <1>1 DEF PromoteRemove, history, TypeOK
<1>5. \/ /\ \E d \in delayed : d.env = raw
         /\ delayed' = {d \in delayed : d.env # raw}
         /\ hand' = [hand EXCEPT ![w] = raw]
         /\ pc' = [pc EXCEPT ![w] = "push"]
      \/ /\ pc' = [pc EXCEPT ![w] = AfterEntry(rest)]
         /\ delayed' = delayed /\ hand' = hand
  BY DEF PromoteRemove
<1> HIDE DEF raw, rest
<1>6. \A v \in Workers : \A i \in 1..Len(batch'[v]) :
        \E k \in 1..Len(batch[v]) : batch'[v][i] = batch[v][k]
  BY <1>1, <1>3, <1>4 DEF TypeOK
<1>7. \A v \in Workers : Executing(v)' => Executing(v) /\ hand'[v] = hand[v]
  BY <1>1, <1>2, <1>5 DEF Executing, AfterEntry, TypeOK
<1>8. delayed' \subseteq delayed
  BY <1>5
<1>9. StaleBatchOK'
  BY <1>1, <1>4, <1>6, <1>7, <1>8, StaleKept DEF IInv, TypeOK
<1>10. CASE /\ \E d \in delayed : d.env = raw
            /\ delayed' = {d \in delayed : d.env # raw}
            /\ hand' = [hand EXCEPT ![w] = raw]
            /\ pc' = [pc EXCEPT ![w] = "push"]
  <2>1. DelayedIds' = DelayedIds \ {raw.id} /\ raw.id \in DelayedIds
    BY <1>3, <1>10, DelayedRemove DEF IInv, SingleCopy
  <2>2. /\ Holding(w)' = {raw.id} /\ Holding(w) = {}
        /\ \A v \in Workers \ {w} : Holding(v)' = Holding(v)
    BY <1>1, <1>2, <1>3, <1>10, Takes, Hands
  <2>3. SingleCopy'
    BY <1>4, <1>8, <2>1, <2>2 DEF IInv, SingleCopy
  <2>4. Waiting' \subseteq Waiting
    <3>1. raw \in Waiting
      BY <1>10 DEF Waiting
    <3>2. \A v \in Workers : pc'[v] = "push" =>
             \/ v = w /\ hand'[v] = raw
             \/ pc[v] = "push" /\ hand'[v] = hand[v]
      BY <1>1, <1>10 DEF TypeOK
    <3>3. \A x \in Waiting' : \/ \E i \in 1..Len(queue) : x = queue[i]
                              \/ \E d \in delayed : x = d.env
                              \/ \E v \in Workers : pc'[v] = "push" /\ x = hand'[v]
      BY <1>4, <1>8 DEF Waiting
    <3>4. \A v \in Workers : pc'[v] = "push" => hand'[v] \in Waiting
      BY <3>1, <3>2 DEF Waiting
    <3> QED
      BY <3>3, <3>4 DEF Waiting
  <2>5. AttemptAccounting'
    BY <1>4, <1>7, <2>4, AccountingKept DEF IInv
  <2>6. KnownSubmitted'
    <3>1. Known' \subseteq Known
      BY <1>4, <2>1, <2>2 DEF Known
    <3> QED
      BY <1>4, <3>1 DEF IInv, KnownSubmitted
  <2> QED
    BY <1>1, <1>9, <2>3, <2>5, <2>6 DEF IInv
<1>11. CASE /\ pc' = [pc EXCEPT ![w] = AfterEntry(rest)]
            /\ delayed' = delayed /\ hand' = hand
  <2>1. SingleCopy'
    BY <1>4, <1>11 DEF IInv, SingleCopy, DelayedIds, Holding
  <2>2. Waiting' \subseteq Waiting
    BY <1>1, <1>4, <1>11 DEF Waiting, AfterEntry, TypeOK
  <2>3. AttemptAccounting'
    BY <1>4, <1>7, <2>2, AccountingKept DEF IInv
  <2>4. KnownSubmitted'
    BY <1>4, <1>11 DEF IInv, KnownSubmitted, Known, DelayedIds, Holding
  <2> QED
    BY <1>1, <1>9, <2>1, <2>3, <2>4 DEF IInv
<1> QED
  BY <1>5, <1>10, <1>11

\* The job moves from the hand to the list.
LEMMA StepPromotePush ==
  ASSUME IInv, NEW w \in Workers, PromotePush(w)
  PROVE  IInv'
<1>1. TypeOK /\ TypeOK'
  BY TypePromotePush DEF IInv
<1>2. pc[w] = "push" /\ hand[w] \in Envelope /\ Holding(w) = {hand[w].id}
  BY <1>1, Hands DEF PromotePush
<1>3. /\ queue' = Append(queue, hand[w]) /\ hand' = [hand EXCEPT ![w] = NoJob]
      /\ pc' = [pc EXCEPT ![w] = AfterEntry(batch[w])]
      /\ delayed' = delayed /\ dead' = dead /\ now' = now /\ batch' = batch
      /\ submitted' = submitted /\ limit' = limit /\ runs' = runs /\ finished' = finished
  BY DEF PromotePush, history
<1>4. hand[w].id \notin Ids(queue)
  BY <1>2 DEF IInv, SingleCopy
<1>5. /\ Ids(queue)' = Ids(queue) \cup {hand[w].id} /\ DistinctIds(queue)'
      /\ \A i \in 1..Len(queue') :
           queue'[i] = hand[w] \/ \E k \in 1..Len(queue) : queue'[i] = queue[k]
  BY <1>1, <1>2, <1>3, <1>4, IdsAppend DEF IInv, SingleCopy, TypeOK
<1>6. Holding(w)' = {} /\ \A v \in Workers \ {w} : Holding(v)' = Holding(v)
  BY <1>1, <1>3, LetsGo
<1>7. \A v \in Workers : Executing(v)' => Executing(v) /\ hand'[v] = hand[v]
  BY <1>1, <1>2, <1>3 DEF Executing, AfterEntry, TypeOK
<1>8. SingleCopy'
  BY <1>2, <1>3, <1>5, <1>6 DEF IInv, SingleCopy, DelayedIds
<1>9. Waiting' \subseteq Waiting
  <2>1. hand[w] \in Waiting
    BY <1>2 DEF Waiting
  <2>2. \A v \in Workers : pc'[v] = "push" => pc[v] = "push" /\ hand'[v] = hand[v]
    BY <1>1, <1>2, <1>3 DEF AfterEntry, TypeOK
  <2> QED
    BY <1>3, <1>5, <2>1, <2>2 DEF Waiting
<1>10. AttemptAccounting'
  BY <1>3, <1>7, <1>9, AccountingKept DEF IInv
<1>11. KnownSubmitted'
  <2>1. Known' \subseteq Known
    BY <1>2, <1>3, <1>5, <1>6 DEF Known, DelayedIds
  <2> QED
    BY <1>3, <2>1 DEF IInv, KnownSubmitted
<1>12. StaleBatchOK'
  BY <1>1, <1>3, <1>7, StaleKept DEF IInv, TypeOK
<1> QED
  BY <1>1, <1>8, <1>10, <1>11, <1>12 DEF IInv

\* The job moves from the list to the hand, and an execution begins.
LEMMA StepDequeue ==
  ASSUME IInv, NEW w \in Workers, Dequeue(w)
  PROVE  IInv'
<1> DEFINE e == Head(queue)
           j == e.id
<1>1. TypeOK /\ TypeOK'
  BY TypeDequeue DEF IInv
<1>2. /\ pc[w] = "dequeue" /\ queue # <<>>
      /\ hand' = [hand EXCEPT ![w] = e] /\ queue' = Tail(queue)
      /\ pc' = [pc EXCEPT ![w] = "execute"]
      /\ runs' = [runs EXCEPT ![j] = @ + 1]
      /\ delayed' = delayed /\ dead' = dead /\ now' = now /\ batch' = batch
      /\ submitted' = submitted /\ limit' = limit /\ finished' = finished
  BY DEF Dequeue
<1>3. /\ e \in Envelope
      /\ Ids(queue) = Ids(queue') \cup {j}
      /\ DistinctIds(queue') /\ j \notin Ids(queue')
      /\ \A i \in 1..Len(queue') : \E k \in 1..Len(queue) : queue'[i] = queue[k]
      /\ \E k \in 1..Len(queue) : e = queue[k]
  BY <1>1, <1>2, HeadTailProperties, IdsTail DEF IInv, SingleCopy, TypeOK
<1>4. e \in Waiting /\ j \in Jobs /\ j \in Known
  BY <1>3 DEF Waiting, Envelope, Known
<1> HIDE DEF e, j
<1>5. runs'[j] = runs[j] + 1 /\ \A i \in Jobs \ {j} : runs'[i] = runs[i]
  BY <1>1, <1>2, <1>4 DEF TypeOK
<1>6. /\ Holding(w) = {} /\ Holding(w)' = {j}
      /\ \A v \in Workers \ {w} : Holding(v)' = Holding(v) /\ hand'[v] = hand[v]
  BY <1>1, <1>2, <1>3, Hands, Takes DEF j
<1>7. /\ \A v \in Workers : j \notin Holding(v)
      /\ j \notin DelayedIds /\ j \notin Ids(dead) /\ j \notin finished
  BY <1>3 DEF IInv, SingleCopy
<1>8. /\ \A v \in Workers \ {w} : pc'[v] = pc[v] /\ Executing(v)' = Executing(v)
      /\ pc'[w] = "execute" /\ hand'[w] = e
  BY <1>1, <1>2 DEF Executing, TypeOK
<1>9. SingleCopy'
  BY <1>2, <1>3, <1>6, <1>7 DEF IInv, SingleCopy, DelayedIds
<1>10. AttemptAccounting'
  <2>1. \A i : MaxRuns(i)' = MaxRuns(i)
    BY <1>2 DEF MaxRuns
  <2>2. e.attempt = runs[j] /\ e.max = limit[j] /\ runs[j] < MaxRuns(j)
    BY <1>4 DEF IInv, AttemptAccounting, WaitingOK, j
  <2>3. RunsBounded'
    <3>1. runs[j] \in Nat /\ MaxRuns(j) \in Int
      BY <1>1, <1>4 DEF TypeOK, MaxRuns
    <3>2. runs'[j] <= MaxRuns(j)
      BY <1>5, <2>2, <3>1
    <3> QED
      BY <1>5, <2>1, <3>2 DEF IInv, AttemptAccounting, RunsBounded
  <2>4. WaitingOK'
    <3>1. \A x \in Waiting' : \/ \E i \in 1..Len(queue') : x = queue'[i]
                              \/ \E d \in delayed : x = d.env
                              \/ \E v \in Workers \ {w} : pc[v] = "push" /\ x = hand[v]
      BY <1>2, <1>6, <1>8 DEF Waiting
    <3>2. \A x \in Waiting' : x \in Waiting /\ x.id # j
      <4>1. \A i \in 1..Len(queue') : queue'[i] \in Waiting /\ queue'[i].id # j
        BY <1>3 DEF Waiting, Ids
      <4>2. \A d \in delayed : d.env \in Waiting /\ d.env.id # j
        BY <1>7 DEF Waiting, DelayedIds
      <4>3. \A v \in Workers \ {w} : pc[v] = "push" => hand[v] \in Waiting /\ hand[v].id # j
        BY <1>1, <1>7, Hands DEF Waiting
      <4> QED
        BY <3>1, <4>1, <4>2, <4>3
    <3>3. \A x \in Waiting : x.id \in Jobs
      BY <1>1, KnownEnvelopes DEF Envelope
    <3> QED
      BY <1>2, <1>5, <2>1, <3>2, <3>3 DEF IInv, AttemptAccounting, WaitingOK
  <2>5. ExecutingOK'
    <3>1. hand'[w].attempt + 1 = runs'[hand'[w].id] /\ hand'[w].max = limit'[hand'[w].id]
      BY <1>2, <1>5, <1>8, <2>2 DEF j
    <3>2. \A v \in Workers \ {w} : Executing(v) => hand[v].id \in Jobs \ {j}
      BY <1>1, <1>7, Hands DEF Envelope
    <3> QED
      BY <1>2, <1>5, <1>6, <1>8, <3>1, <3>2 DEF IInv, AttemptAccounting, ExecutingOK
  <2>6. DeadOK'
    <3>1. \A i \in 1..Len(dead) : dead[i].id \in Jobs \ {j}
      BY <1>1, <1>7, KnownEnvelopes DEF Envelope
    <3> QED
      BY <1>2, <1>5, <2>1, <3>1 DEF IInv, AttemptAccounting, DeadOK
  <2> QED
    BY <2>3, <2>4, <2>5, <2>6 DEF AttemptAccounting
<1>11. KnownSubmitted'
  <2>1. Known' \subseteq Known
    BY <1>2, <1>3, <1>4, <1>6 DEF Known, DelayedIds
  <2>2. j \in submitted
    BY <1>4 DEF IInv, KnownSubmitted
  <2> QED
    BY <1>2, <1>5, <2>1, <2>2 DEF IInv, KnownSubmitted
<1>12. StaleBatchOK'
  <2> SUFFICES ASSUME NEW v \in Workers, NEW i \in 1..Len(batch[v])
               PROVE  LET b == batch[v][i]
                      IN  /\ b.id \in submitted /\ b.attempt <= runs'[b.id]
                          /\ b.attempt = runs'[b.id] =>
                               \A u \in Workers : Executing(u)' => hand'[u].id # b.id
                          /\ \A d \in delayed : d.env = b => d.runAt <= now
    BY <1>2 DEF StaleBatchOK
  <2> DEFINE b == batch[v][i]
  <2>1. /\ b.id \in submitted /\ b.attempt <= runs[b.id]
        /\ b.attempt = runs[b.id] => \A u \in Workers : Executing(u) => hand[u].id # b.id
        /\ \A d \in delayed : d.env = b => d.runAt <= now
    BY DEF IInv, StaleBatchOK
  <2>2. b.id \in Jobs /\ b.attempt \in Nat
    <3>1. batch[v] \in Seq(Envelope)
      BY <1>1 DEF TypeOK
    <3>2. b \in Envelope
      BY <3>1, ElementOfSeq
    <3> QED
      BY <3>2 DEF Envelope
  <2> HIDE DEF b
  <2>3. runs[b.id] \in Nat
    BY <1>1, <2>2 DEF TypeOK
  <2>4. CASE b.id = j
    <3>1. b.attempt < runs'[b.id]
      BY <1>5, <2>1, <2>2, <2>3, <2>4
    <3> QED
      BY <1>5, <2>1, <2>2, <2>3, <2>4, <3>1 DEF b
  <2>5. CASE b.id # j
    BY <1>5, <1>6, <1>8, <2>1, <2>2, <2>5 DEF b, j
  <2> QED
    BY <2>4, <2>5
<1> QED
  BY <1>1, <1>9, <1>10, <1>11, <1>12 DEF IInv

\* Steps that move no job and start no execution.
LEMMA StepIdle ==
  ASSUME IInv,
         \/ \E w \in Workers : DequeueTimeout(w) \/ ExecuteError(w) \/ Restart(w)
         \/ Tick
         \/ UNCHANGED vars
  PROVE  IInv'
<1>1. TypeOK /\ TypeOK'
  BY TypeExecute, TypeEnvironment DEF IInv
<1>2. /\ queue' = queue /\ delayed' = delayed /\ dead' = dead /\ batch' = batch /\ hand' = hand
      /\ submitted' = submitted /\ limit' = limit /\ runs' = runs /\ finished' = finished
  BY DEF DequeueTimeout, ExecuteError, Restart, Tick, vars, redis, worker, history
<1>3. now' = now \/ now' = now + 1
  BY DEF DequeueTimeout, ExecuteError, Restart, Tick, vars
<1>4. \A v \in Workers : /\ Executing(v)' => Executing(v)
                         /\ pc'[v] = "push" => pc[v] = "push"
  BY <1>1 DEF DequeueTimeout, ExecuteError, Restart, Tick, vars, worker, Executing, TypeOK
<1>5. SingleCopy' /\ KnownSubmitted'
  BY <1>2 DEF IInv, SingleCopy, KnownSubmitted, Known, DelayedIds, Holding
<1>6. AttemptAccounting'
  <2>1. Waiting' \subseteq Waiting
    BY <1>2, <1>4 DEF Waiting
  <2> QED
    BY <1>2, <1>4, <2>1, AccountingKept DEF IInv
<1>7. StaleBatchOK'
  BY <1>1, <1>2, <1>3, <1>4, StaleKept DEF IInv, TypeOK
<1> QED
  BY <1>1, <1>5, <1>6, <1>7 DEF IInv

\* A job that is done leaves the system.
LEMMA StepExecuteOk ==
  ASSUME IInv, NEW w \in Workers, ExecuteOk(w)
  PROVE  IInv'
<1>1. TypeOK /\ TypeOK'
  BY TypeExecute DEF IInv
<1>2. /\ pc[w] = "execute" /\ hand[w] \in Envelope /\ Holding(w) = {hand[w].id}
      /\ finished' = finished \cup {hand[w].id}
      /\ hand' = [hand EXCEPT ![w] = NoJob] /\ pc' = [pc EXCEPT ![w] = "promote"]
      /\ queue' = queue /\ delayed' = delayed /\ dead' = dead /\ now' = now /\ batch' = batch
      /\ submitted' = submitted /\ limit' = limit /\ runs' = runs
  BY <1>1, Hands DEF ExecuteOk, redis
<1>3. Holding(w)' = {} /\ \A v \in Workers \ {w} : Holding(v)' = Holding(v) /\ hand'[v] = hand[v]
  BY <1>1, <1>2, LetsGo
<1>4. \A v \in Workers : /\ Executing(v)' => Executing(v) /\ hand'[v] = hand[v]
                         /\ pc'[v] = "push" => pc[v] = "push" /\ hand'[v] = hand[v]
  BY <1>1, <1>2, <1>3 DEF Executing, TypeOK
<1>5. SingleCopy'
  BY <1>2, <1>3 DEF IInv, SingleCopy, DelayedIds
<1>6. AttemptAccounting'
  <2>1. Waiting' \subseteq Waiting
    BY <1>2, <1>4 DEF Waiting
  <2> QED
    BY <1>2, <1>4, <2>1, AccountingKept DEF IInv
<1>7. KnownSubmitted'
  <2>1. Known' \subseteq Known
    BY <1>2, <1>3 DEF Known, DelayedIds
  <2> QED
    BY <1>2, <2>1 DEF IInv, KnownSubmitted
<1>8. StaleBatchOK'
  BY <1>1, <1>2, <1>4, StaleKept DEF IInv, TypeOK
<1> QED
  BY <1>1, <1>5, <1>6, <1>7, <1>8 DEF IInv

\* What a worker held is gone; everything else stays.
LEMMA StepCrash ==
  ASSUME IInv, NEW w \in Workers, Crash(w)
  PROVE  IInv'
<1>1. TypeOK /\ TypeOK'
  BY TypeEnvironment DEF IInv
<1>2. /\ batch' = [batch EXCEPT ![w] = <<>>]
      /\ hand' = [hand EXCEPT ![w] = NoJob] /\ pc' = [pc EXCEPT ![w] = "down"]
      /\ queue' = queue /\ delayed' = delayed /\ dead' = dead /\ now' = now
      /\ submitted' = submitted /\ limit' = limit /\ runs' = runs /\ finished' = finished
  BY DEF Crash, redis
<1>3. Holding(w)' = {} /\ \A v \in Workers \ {w} : Holding(v)' = Holding(v) /\ hand'[v] = hand[v]
  BY <1>1, <1>2, LetsGo
<1>4. \A v \in Workers : /\ Executing(v)' => Executing(v) /\ hand'[v] = hand[v]
                         /\ pc'[v] = "push" => pc[v] = "push" /\ hand'[v] = hand[v]
  BY <1>1, <1>2, <1>3 DEF Executing, TypeOK
<1>5. SingleCopy'
  BY <1>2, <1>3 DEF IInv, SingleCopy, DelayedIds
<1>6. AttemptAccounting'
  <2>1. Waiting' \subseteq Waiting
    BY <1>2, <1>4 DEF Waiting
  <2> QED
    BY <1>2, <1>4, <2>1, AccountingKept DEF IInv
<1>7. KnownSubmitted'
  <2>1. Known' \subseteq Known
    BY <1>2, <1>3 DEF Known, DelayedIds
  <2> QED
    BY <1>2, <2>1 DEF IInv, KnownSubmitted
<1>8. StaleBatchOK'
  <2>1. Len(batch'[w]) = 0 /\ \A v \in Workers \ {w} : batch'[v] = batch[v]
    BY <1>1, <1>2 DEF TypeOK
  <2>2. \A v \in Workers : \A i \in 1..Len(batch'[v]) :
          \E k \in 1..Len(batch[v]) : batch'[v][i] = batch[v][k]
    BY <2>1
  <2> QED
    BY <1>1, <1>2, <1>4, <2>2, StaleKept DEF IInv, TypeOK
<1> QED
  BY <1>1, <1>5, <1>6, <1>7, <1>8 DEF IInv

\* A job is buried when its allowance is used up.
LEMMA StepMoveToDeadLetter ==
  ASSUME IInv, NEW w \in Workers, MoveToDeadLetter(w)
  PROVE  IInv'
<1> DEFINE e == NextAttempt(hand[w])
           j == hand[w].id
<1>1. TypeOK /\ TypeOK'
  BY TypeFailed DEF IInv
<1>2. /\ pc[w] = "failed" /\ Executing(w) /\ hand[w] \in Envelope /\ Holding(w) = {j}
      /\ ~MayRetry(hand[w]) /\ dead' = Append(dead, e)
      /\ hand' = [hand EXCEPT ![w] = NoJob] /\ pc' = [pc EXCEPT ![w] = "promote"]
      /\ queue' = queue /\ delayed' = delayed /\ now' = now /\ batch' = batch
      /\ submitted' = submitted /\ limit' = limit /\ runs' = runs /\ finished' = finished
  BY <1>1, Hands DEF MoveToDeadLetter, history, Executing
<1>3. e \in Envelope /\ e.id = j /\ e.attempt = hand[w].attempt + 1
  BY <1>2, NextAttemptEnvelope
<1>4. hand[w].attempt \in Nat /\ hand[w].max \in Int /\ j \in Jobs
  BY <1>2 DEF Envelope
<1> HIDE DEF e
<1>5. Holding(w)' = {} /\ \A v \in Workers \ {w} : Holding(v)' = Holding(v) /\ hand'[v] = hand[v]
  BY <1>1, <1>2, LetsGo
<1>6. \A v \in Workers : /\ Executing(v)' => Executing(v) /\ hand'[v] = hand[v]
                         /\ pc'[v] = "push" => pc[v] = "push" /\ hand'[v] = hand[v]
  BY <1>1, <1>2, <1>5 DEF Executing, TypeOK
<1>7. j \notin Ids(dead)
  BY <1>2 DEF IInv, SingleCopy
<1>8. /\ Ids(dead') = Ids(dead) \cup {j} /\ DistinctIds(dead')
      /\ \A i \in 1..Len(dead') : dead'[i] = e \/ \E k \in 1..Len(dead) : dead'[i] = dead[k]
  <2>1. dead \in Seq(Envelope) /\ DistinctIds(dead) /\ e.id \notin Ids(dead)
    BY <1>1, <1>3, <1>7 DEF IInv, SingleCopy, TypeOK
  <2>2. /\ Ids(Append(dead, e)) = Ids(dead) \cup {e.id} /\ DistinctIds(Append(dead, e))
        /\ \A i \in 1..Len(Append(dead, e)) :
             Append(dead, e)[i] = e \/ \E k \in 1..Len(dead) : Append(dead, e)[i] = dead[k]
    BY <1>3, <2>1, IdsAppend
  <2> QED
    BY <1>2, <1>3, <2>2
<1>9. SingleCopy'
  <2>1. Ids(dead)' = Ids(dead) \cup {j} /\ DistinctIds(dead)'
    BY <1>8
  <2>2. \A v \in Workers \ {w} : j \notin Holding(v)
    BY <1>2 DEF IInv, SingleCopy
  <2>3. j \notin Ids(queue) /\ j \notin DelayedIds /\ j \notin finished
    BY <1>2 DEF IInv, SingleCopy
  <2> HIDE DEF j
  <2> QED
    BY <1>2, <1>5, <2>1, <2>2, <2>3 DEF IInv, SingleCopy, DelayedIds
<1>10. AttemptAccounting'
  <2>1. Waiting' \subseteq Waiting
    BY <1>2, <1>6 DEF Waiting
  <2>2. e.attempt = runs[e.id] /\ runs[e.id] = MaxRuns(e.id)
    <3>1. hand[w].attempt + 1 = runs[j] /\ hand[w].max = limit[j] /\ runs[j] <= MaxRuns(j)
      BY <1>2, <1>4 DEF IInv, AttemptAccounting, ExecutingOK, RunsBounded
    <3>2. hand[w].attempt + 1 >= hand[w].max
      BY <1>2, <1>4 DEF MayRetry
    <3> QED
      BY <1>3, <1>4, <3>1, <3>2 DEF MaxRuns
  <2> QED
    BY <1>2, <1>6, <1>8, <2>1, <2>2, AccountingKept DEF IInv
<1>11. KnownSubmitted'
  <2>1. Known' \subseteq Known
    BY <1>2, <1>5, <1>8 DEF Known, DelayedIds
  <2> QED
    BY <1>2, <2>1 DEF IInv, KnownSubmitted
<1>12. StaleBatchOK'
  BY <1>1, <1>2, <1>6, StaleKept DEF IInv, TypeOK
<1> QED
  BY <1>1, <1>9, <1>10, <1>11, <1>12 DEF IInv

\* A retried job carries one attempt more and is due only later.
LEMMA StepScheduleRetry ==
  ASSUME IInv, NEW w \in Workers, ScheduleRetry(w)
  PROVE  IInv'
<1> DEFINE e == NextAttempt(hand[w])
           j == hand[w].id
<1>1. TypeOK /\ TypeOK'
  BY TypeFailed DEF IInv
<1>2. /\ pc[w] = "failed" /\ Executing(w) /\ hand[w] \in Envelope /\ Holding(w) = {j}
      /\ MayRetry(hand[w]) /\ Publish(e, BackoffSeconds(e))
      /\ hand' = [hand EXCEPT ![w] = NoJob] /\ pc' = [pc EXCEPT ![w] = "promote"]
      /\ dead' = dead /\ now' = now /\ batch' = batch
      /\ submitted' = submitted /\ limit' = limit /\ runs' = runs /\ finished' = finished
  BY <1>1, Hands DEF ScheduleRetry, history, Executing
<1>3. /\ e \in Envelope /\ e.id = j /\ e.attempt = hand[w].attempt + 1 /\ e.max = hand[w].max
      /\ BackoffSeconds(e) \in Int
  BY <1>2, NextAttemptEnvelope, BackoffPositive
<1>4. hand[w].attempt \in Nat /\ hand[w].max \in Int /\ j \in Jobs
  BY <1>2 DEF Envelope
<1> HIDE DEF e, j
<1>5. Holding(w)' = {} /\ \A v \in Workers \ {w} : Holding(v)' = Holding(v) /\ hand'[v] = hand[v]
  BY <1>1, <1>2, LetsGo
<1>6. \A v \in Workers : /\ Executing(v)' => Executing(v) /\ hand'[v] = hand[v] /\ v # w
                         /\ pc'[v] = "push" => pc[v] = "push" /\ hand'[v] = hand[v]
  BY <1>1, <1>2, <1>5 DEF Executing, TypeOK
<1>7. j \notin Ids(queue) /\ j \notin DelayedIds /\ j \notin Ids(dead) /\ j \notin finished
  BY <1>2 DEF IInv, SingleCopy
<1>8. /\ \/ Ids(queue)' = Ids(queue) \cup {j} /\ DelayedIds' = DelayedIds
         \/ Ids(queue)' = Ids(queue) /\ DelayedIds' = DelayedIds \cup {j}
      /\ DistinctIds(queue)' /\ UniqueDelayed'
      /\ \A x \in Stored' : x = e \/ x \in Stored
      /\ \A x \in delayed' : x \in delayed \/ x.env = e
  BY <1>1, <1>2, <1>3, <1>7, PublishMoves DEF IInv, SingleCopy, UniqueDelayed
<1>9. SingleCopy'
  BY <1>2, <1>5, <1>7, <1>8 DEF IInv, SingleCopy, UniqueDelayed
<1>10. hand[w].attempt + 1 = runs[j] /\ hand[w].max = limit[j]
  BY <1>2 DEF IInv, AttemptAccounting, ExecutingOK, j
<1>11. AttemptAccounting'
  <2>1. \A x \in Waiting' : x = e \/ x \in Waiting
    BY <1>6, <1>8 DEF Waiting, Stored
  <2>2. e.attempt = runs[e.id] /\ e.max = limit[e.id] /\ e.attempt < MaxRuns(e.id)
    BY <1>2, <1>3, <1>4, <1>10 DEF MayRetry, MaxRuns
  <2>3. \A v \in Workers : Executing(v)' => Executing(v) /\ hand'[v] = hand[v]
    BY <1>6
  <2> QED
    BY <1>2, <2>1, <2>2, <2>3, AccountingKept DEF IInv
<1>12. KnownSubmitted'
  <2>1. Known' \subseteq Known
    BY <1>2, <1>5, <1>8 DEF Known
  <2> QED
    BY <1>2, <2>1 DEF IInv, KnownSubmitted
<1>13. StaleBatchOK'
  <2> SUFFICES ASSUME NEW v \in Workers, NEW i \in 1..Len(batch[v])
               PROVE  LET b == batch[v][i]
                      IN  /\ b.id \in submitted /\ b.attempt <= runs[b.id]
                          /\ b.attempt = runs[b.id] =>
                               \A u \in Workers : Executing(u)' => hand'[u].id # b.id
                          /\ \A d \in delayed' : d.env = b => d.runAt <= now
    BY <1>2 DEF StaleBatchOK
  <2> DEFINE b == batch[v][i]
  <2>1. /\ b.id \in submitted /\ b.attempt <= runs[b.id]
        /\ b.attempt = runs[b.id] => \A u \in Workers : Executing(u) => hand[u].id # b.id
        /\ \A d \in delayed : d.env = b => d.runAt <= now
    BY DEF IInv, StaleBatchOK
  <2> HIDE DEF b
  \* The rescheduled envelope is not one that any stale batch still names.
  <2>2. e # b
    BY <1>2, <1>3, <1>10, <2>1 DEF j
  <2> QED
    BY <1>6, <1>8, <2>1, <2>2 DEF b
<1> QED
  BY <1>1, <1>9, <1>11, <1>12, <1>13 DEF IInv

-----------------------------------------------------------------------------
(* The theorems                                                              *)

\* Nothing is queued at the beginning.
LEMMA InvInit == Init => IInv
<1> SUFFICES ASSUME Init PROVE IInv
  OBVIOUS
<1>1. /\ Ids(queue) = {} /\ Ids(dead) = {} /\ DelayedIds = {} /\ finished = {}
      /\ \A w \in Workers : Holding(w) = {} /\ ~Executing(w) /\ pc[w] # "push"
      /\ Len(queue) = 0 /\ Len(dead) = 0 /\ \A w \in Workers : Len(batch[w]) = 0
  BY DEF Init, Ids, DelayedIds, Holding, Executing
<1>2. SingleCopy
  BY <1>1 DEF Init, SingleCopy, DistinctIds
<1>3. AttemptAccounting
  <2>1. Waiting = {}
    BY <1>1 DEF Init, Waiting
  <2> QED
    BY <1>1, <2>1 DEF Init, AttemptAccounting, RunsBounded, WaitingOK, ExecutingOK, DeadOK, MaxRuns
<1>4. KnownSubmitted
  BY <1>1 DEF Init, KnownSubmitted, Known
<1>5. StaleBatchOK
  BY <1>1 DEF StaleBatchOK
<1> QED
  BY <1>2, <1>3, <1>4, <1>5, TypeInit DEF IInv

\* Every step preserves the inductive invariant.
LEMMA InvStep == IInv /\ [Next]_vars => IInv'
  BY StepEnqueue, StepPromoteRead, StepPromoteRemove, StepPromotePush, StepDequeue,
     StepIdle, StepExecuteOk, StepScheduleRetry, StepMoveToDeadLetter, StepCrash
     DEF Next, WorkerStep

\* The inductive invariant holds in every reachable state: each job is in one
\* place, its attempts are counted, and the batches workers remember are sound.
THEOREM Invariance == Spec => []IInv
  BY InvInit, InvStep, PTL DEF Spec

\* No interleaving of any number of workers, with any crashes, duplicates a job.
THEOREM NeverDuplicated == Spec => []SingleCopy
  BY Invariance, PTL DEF IInv

\* The attempt a job carries is the number of its executions, and a job is
\* buried exactly when, and never executed after, its allowance is used up.
THEOREM AttemptsAreCounted == Spec => []AttemptAccounting
  BY Invariance, PTL DEF IInv

\* A step never takes a job out of the sorted set before its time.
THEOREM NeverEarly == Spec => NoEarlyPromotion
<1> DEFINE Timely == \A d \in delayed :
                       d.env.id \notin {e.env.id : e \in delayed'} => d.runAt <= now
<1>1. IInv /\ [Next]_vars => [Timely]_vars
  <2> SUFFICES ASSUME IInv, [Next]_vars, NEW d \in delayed,
                      d.env.id \notin {e.env.id : e \in delayed'}
               PROVE  d.runAt <= now
    OBVIOUS
  <2>1. d \notin delayed'
    OBVIOUS
  <2>2. CASE \E w \in Workers : PromoteRemove(w)
    <3>1. PICK w \in Workers : PromoteRemove(w)
      BY <2>2
    <3>2. d.env = Head(batch[w])
      BY <2>1, <3>1 DEF PromoteRemove
    <3>3. batch[w] \in Seq(Envelope) /\ batch[w] # <<>>
      BY <3>1 DEF IInv, TypeOK, RegistersOK, PromoteRemove
    <3>4. \E k \in 1..Len(batch[w]) : Head(batch[w]) = batch[w][k]
      BY <3>3, IdsTail
    <3> QED
      BY <3>2, <3>4 DEF IInv, StaleBatchOK
  <2>3. CASE ~ \E w \in Workers : PromoteRemove(w)
    \* Every other step leaves the sorted set alone or puts something into it.
    <3>1. ASSUME NEW e \in Envelope, NEW delay, Publish(e, delay) PROVE FALSE
      <4>1. d.env = e
        BY <2>1, <3>1 DEF Publish, SortedAdd
      <4>2. [env |-> e, runAt |-> now + delay] \in delayed'
        BY <2>1, <3>1 DEF Publish, SortedAdd
      <4> QED
        BY <4>1, <4>2
    <3>2. ~ \E j \in Jobs : Enqueue(j)
      BY <3>1, MaxAttemptsInt DEF Enqueue, Envelope
    <3>3. ~ \E w \in Workers : ScheduleRetry(w)
      <4> SUFFICES ASSUME NEW w \in Workers, ScheduleRetry(w) PROVE FALSE
        OBVIOUS
      <4>1. NextAttempt(hand[w]) \in Envelope
        BY NextAttemptEnvelope DEF ScheduleRetry, IInv, TypeOK, RegistersOK
      <4> QED
        BY <3>1, <4>1 DEF ScheduleRetry
    <3> QED
      BY <2>1, <2>3, <3>2, <3>3
         DEF Next, WorkerStep, vars, redis, PromoteRead, PromotePush, Dequeue,
             DequeueTimeout, ExecuteOk, ExecuteError, MoveToDeadLetter, Restart, Crash, Tick
  <2> QED
    BY <2>2, <2>3
<1> QED
  BY <1>1, Invariance, PTL DEF Spec, NoEarlyPromotion

=============================================================================
