------------------------- MODULE JobQueueLedgerProofs -------------------------
(* JobQueue implements JobLedger, for any number of jobs and workers: every  *)
(* step of a worker, of Redis or of a client changes the condition of one    *)
(* job as the ledger allows, or of none.                                     *)
EXTENDS JobQueueProofs

-----------------------------------------------------------------------------
(* Where a job is, and what that says about its condition                    *)

Pushed(j) == \E w \in Workers : pc[w] = "push" /\ hand[w].id = j
Runs(j) == \E w \in Workers : Executing(w) /\ hand[w].id = j
Waits(j) == j \in Ids(queue) \/ j \in DelayedIds \/ Pushed(j)

\* The places of one job exclude each other, and each gives it its condition.
Located ==
  \A j \in Jobs :
    /\ j \in Known <=> Waits(j) \/ Runs(j) \/ j \in Ids(dead) \/ j \in finished
    /\ j \in finished => Status(j) = "done"
    /\ j \in Ids(dead) => Status(j) = "dead"
    /\ Runs(j) => Status(j) = "running"
    /\ Waits(j) => Status(j) = "waiting"
    /\ j \in submitted \ Known => Status(j) = "lost"
    /\ j \notin submitted => Status(j) = "new"

\* Since a job has one copy, its condition can be read off any place it is at.
LEMMA StatusOfPlace == IInv => Located
<1> SUFFICES ASSUME IInv, NEW j \in Jobs
             PROVE  /\ j \in Known <=> Waits(j) \/ Runs(j) \/ j \in Ids(dead) \/ j \in finished
                    /\ j \in finished => Status(j) = "done"
                    /\ j \in Ids(dead) => Status(j) = "dead"
                    /\ Runs(j) => Status(j) = "running"
                    /\ Waits(j) => Status(j) = "waiting"
                    /\ j \in submitted \ Known => Status(j) = "lost"
                    /\ j \notin submitted => Status(j) = "new"
  BY DEF Located
<1> DEFINE held == \E w \in Workers : j \in Holding(w)
<1>1. TypeOK /\ SingleCopy /\ KnownSubmitted
  BY DEF IInv
<1>2. held <=> Pushed(j) \/ Runs(j)
  BY <1>1, Hands DEF Pushed, Runs, Executing
<1>3. j \in Known <=> j \in Ids(queue) \/ j \in DelayedIds \/ j \in Ids(dead) \/ j \in finished \/ held
  BY DEF Known
<1>4. j \in Known => j \in submitted
  BY <1>1 DEF KnownSubmitted
<1>5. held => j \notin Ids(queue) /\ j \notin DelayedIds /\ j \notin Ids(dead) /\ j \notin finished
  BY <1>1 DEF SingleCopy
<1>6. /\ j \in Ids(queue) => j \notin DelayedIds /\ j \notin Ids(dead) /\ j \notin finished
      /\ j \in DelayedIds => j \notin Ids(dead) /\ j \notin finished
      /\ j \in Ids(dead) => j \notin finished
  BY <1>1 DEF SingleCopy
<1>7. ~ (Pushed(j) /\ Runs(j))
  <2> SUFFICES ASSUME NEW v \in Workers, NEW w \in Workers,
                      pc[v] = "push", hand[v].id = j, Executing(w), hand[w].id = j
               PROVE  FALSE
    BY DEF Pushed, Runs
  <2>1. v # w /\ j \in Holding(v) /\ j \in Holding(w)
    BY <1>1, Hands DEF Executing
  <2> QED
    BY <1>1, <2>1 DEF SingleCopy
<1> HIDE DEF held
<1>8. Runs(j) <=> \E w \in Workers : Executing(w) /\ hand[w].id = j
  BY DEF Runs
<1>9. Status(j) =
        CASE j \in finished -> "done"
          [] j \in Ids(dead) -> "dead"
          [] Runs(j) -> "running"
          [] j \in Known \ (finished \cup Ids(dead)) /\ ~Runs(j) -> "waiting"
          [] j \in submitted \ Known -> "lost"
          [] j \notin submitted -> "new"
  BY DEF Status, Runs
<1> QED
  BY <1>2, <1>3, <1>4, <1>5, <1>6, <1>7, <1>9 DEF Waits

\* The same in the state after a step.
LEMMA StatusOfPlaceNext == IInv' => Located'
  BY StatusOfPlace, PTL

\* A job that does not move keeps its condition.
LEMMA StatusKept ==
  ASSUME Located, Located', NEW j \in Jobs,
         Waits(j)' <=> Waits(j), Runs(j)' <=> Runs(j),
         j \in Ids(dead)' <=> j \in Ids(dead), j \in finished' <=> j \in finished,
         j \in submitted' <=> j \in submitted
  PROVE  Status(j)' = Status(j)
  BY DEF Located

\* When one worker changes and deals with no job but j, the places of the
\* other jobs among the workers stay.
LEMMA OthersStay ==
  ASSUME TypeOK, TypeOK', NEW w \in Workers, NEW j \in Jobs,
         \A v \in Workers \ {w} : pc'[v] = pc[v] /\ hand'[v] = hand[v],
         pc[w] = "push" \/ Executing(w) => hand[w].id = j,
         pc'[w] = "push" \/ Executing(w)' => hand'[w].id = j
  PROVE  \A i \in Jobs \ {j} : (Pushed(i)' <=> Pushed(i)) /\ (Runs(i)' <=> Runs(i))
<1>1. \A v \in Workers \ {w} : Executing(v)' <=> Executing(v)
  BY DEF Executing
<1> SUFFICES ASSUME NEW i \in Jobs \ {j}
             PROVE  (Pushed(i)' <=> Pushed(i)) /\ (Runs(i)' <=> Runs(i))
  OBVIOUS
<1>2. Pushed(i)' <=> \E v \in Workers \ {w} : pc[v] = "push" /\ hand[v].id = i
  BY DEF Pushed
<1>3. Pushed(i) <=> \E v \in Workers \ {w} : pc[v] = "push" /\ hand[v].id = i
  BY DEF Pushed
<1>4. Runs(i)' <=> \E v \in Workers \ {w} : Executing(v) /\ hand[v].id = i
  BY <1>1 DEF Runs
<1>5. Runs(i) <=> \E v \in Workers \ {w} : Executing(v) /\ hand[v].id = i
  BY DEF Runs
<1> QED
  BY <1>2, <1>3, <1>4, <1>5

-----------------------------------------------------------------------------
(* A step of JobQueue is a step of the ledger                                *)

Stays(i) == /\ (Waits(i)' <=> Waits(i)) /\ (Runs(i)' <=> Runs(i))
            /\ (i \in Ids(dead)' <=> i \in Ids(dead)) /\ (i \in finished' <=> i \in finished)
            /\ (i \in submitted' <=> i \in submitted)

\* If every job but j stays where it is, only the condition of j changes.
LEMMA OneBecomes ==
  ASSUME Located, Located', NEW j \in Jobs, NEW s, Status(j)' = s,
         \A i \in Jobs \ {j} : Stays(i)
  PROVE  Ledger!Becomes(j, s)
<1>1. \A i \in Jobs \ {j} : Status(i)' = Status(i)
  BY StatusKept DEF Stays
<1> QED
  BY <1>1 DEF Ledger!Becomes

\* If every job stays where it is, the ledger stutters.
LEMMA AllStay ==
  ASSUME Located, Located', \A i \in Jobs : Stays(i), UNCHANGED <<runs, limit>>
  PROVE  UNCHANGED Ledger!vars
<1>1. \A i \in Jobs : Status(i)' = Status(i)
  BY StatusKept DEF Stays
<1> QED
  BY <1>1 DEF Ledger!vars

\* A new job waits.
LEMMA EnqueueSubmits ==
  ASSUME IInv, IInv', Located, Located', NEW j \in Jobs, Enqueue(j)
  PROVE  Ledger!Submit(j)
<1>1. PICK m \in MaxAttemptsInputs, d \in DelayInputs :
        /\ Publish([id |-> j, attempt |-> 0, max |-> MaxAttempts(m)], d)
        /\ limit' = [limit EXCEPT ![j] = MaxAttempts(m)]
  BY DEF Enqueue
<1> DEFINE e == [id |-> j, attempt |-> 0, max |-> MaxAttempts(m)]
<1>2. e \in Envelope /\ e.id = j /\ Publish(e, d) /\ d \in Int
  BY <1>1, MaxAttemptsInt, InputsAssumption DEF Envelope
<1> HIDE DEF e
<1>3. /\ j \notin submitted /\ submitted' = submitted \cup {j}
      /\ dead' = dead /\ pc' = pc /\ hand' = hand /\ runs' = runs /\ finished' = finished
  BY DEF Enqueue, worker
<1>4. j \notin Ids(queue) /\ j \notin DelayedIds
  BY <1>3 DEF IInv, KnownSubmitted, Known
<1>5. \/ Ids(queue)' = Ids(queue) \cup {j} /\ DelayedIds' = DelayedIds
      \/ Ids(queue)' = Ids(queue) /\ DelayedIds' = DelayedIds \cup {j}
  BY <1>2, <1>4, PublishMoves DEF IInv, SingleCopy, UniqueDelayed
<1>6. \A i : (Pushed(i)' <=> Pushed(i)) /\ (Runs(i)' <=> Runs(i))
  BY <1>3 DEF Pushed, Runs, Executing
<1>7. \A i \in Jobs \ {j} : Stays(i)
  BY <1>3, <1>5, <1>6 DEF Stays, Waits
<1>8. Waits(j)'
  BY <1>5 DEF Waits
<1>9. Status(j) = "new" /\ Status(j)' = "waiting"
  BY <1>3, <1>8 DEF Located
<1>10. Ledger!Becomes(j, "waiting")
  BY <1>7, <1>9, OneBecomes
<1> QED
  BY <1>1, <1>3, <1>9, <1>10 DEF Ledger!Submit

\* A job that is popped starts to run.
LEMMA DequeueStarts ==
  ASSUME IInv, IInv', Located, Located', NEW w \in Workers, Dequeue(w)
  PROVE  \E j \in Jobs : Ledger!Start(j)
<1> DEFINE e == Head(queue)
<1>1. TypeOK /\ TypeOK'
  BY DEF IInv
<1>head. e \in Envelope
  BY <1>1, HeadTailProperties DEF Dequeue, TypeOK
<1>job. PICK j \in Jobs : j = e.id
  BY <1>head DEF Envelope
<1>2. /\ pc[w] = "dequeue" /\ queue # <<>>
      /\ hand' = [hand EXCEPT ![w] = e] /\ queue' = Tail(queue)
      /\ pc' = [pc EXCEPT ![w] = "execute"]
      /\ runs' = [runs EXCEPT ![j] = @ + 1]
      /\ delayed' = delayed /\ dead' = dead
      /\ submitted' = submitted /\ limit' = limit /\ finished' = finished
  <2>1. runs' = [runs EXCEPT ![e.id] = @ + 1]
    BY DEF Dequeue
  <2>2. runs' = [runs EXCEPT ![j] = @ + 1]
    BY <1>job, <2>1, Zenon
  <2> QED
    BY <2>2 DEF Dequeue
<1>3. e \in Envelope /\ Ids(queue) = Ids(queue)' \cup {j}
  BY <1>job, <1>1, <1>2, HeadTailProperties, IdsTail DEF TypeOK
<1> HIDE DEF e
<1>4. /\ \A v \in Workers \ {w} : pc'[v] = pc[v] /\ hand'[v] = hand[v]
      /\ pc'[w] = "execute" /\ hand'[w] = e
      /\ ~Executing(w) /\ Executing(w)'
  BY <1>1, <1>2 DEF TypeOK, Executing
<1>5. \A i \in Jobs \ {j} : Stays(i)
  BY <1>job, <1>1, <1>2, <1>3, <1>4, OthersStay DEF Stays, Waits, DelayedIds
<1>6. Waits(j) /\ Runs(j)'
  BY <1>job, <1>3, <1>4 DEF Waits, Runs
<1>7. Status(j) = "waiting" /\ Status(j)' = "running"
  BY <1>3, <1>6 DEF Located
<1>8. Ledger!Becomes(j, "running")
  BY <1>3, <1>5, <1>7, OneBecomes
<1>9. Ledger!Start(j)
  BY <1>2, <1>3, <1>7, <1>8 DEF Ledger!Start
<1> QED
  BY <1>3, <1>9

\* A job whose execution returns is done.
LEMMA ExecuteOkSucceeds ==
  ASSUME IInv, IInv', Located, Located', NEW w \in Workers, ExecuteOk(w)
  PROVE  \E j \in Jobs : Ledger!Succeed(j)
<1>1. TypeOK /\ TypeOK'
  BY DEF IInv
<1>job. PICK j \in Jobs : j = hand[w].id
  BY <1>1, Hands DEF ExecuteOk, Executing, Envelope
<1>2. /\ Executing(w) /\ hand[w] \in Envelope
      /\ finished' = finished \cup {j}
      /\ hand' = [hand EXCEPT ![w] = NoJob] /\ pc' = [pc EXCEPT ![w] = "promote"]
      /\ queue' = queue /\ delayed' = delayed /\ dead' = dead
      /\ submitted' = submitted /\ limit' = limit /\ runs' = runs
  BY <1>job, <1>1, Hands DEF ExecuteOk, redis, Executing
<1>3. /\ \A v \in Workers \ {w} : pc'[v] = pc[v] /\ hand'[v] = hand[v]
      /\ pc'[w] = "promote" /\ ~Executing(w)'
  BY <1>1, <1>2 DEF TypeOK, Executing
<1>4. \A i \in Jobs \ {j} : Stays(i)
  BY <1>job, <1>1, <1>2, <1>3, OthersStay DEF Stays, Waits, DelayedIds
<1>5. Runs(j) /\ j \in finished'
  BY <1>job, <1>2 DEF Runs
<1>6. Status(j) = "running" /\ Status(j)' = "done"
  BY <1>5 DEF Located
<1>7. Ledger!Becomes(j, "done")
  BY <1>4, <1>6, OneBecomes
<1>8. Ledger!Succeed(j)
  BY <1>2, <1>6, <1>7 DEF Ledger!Succeed
<1> QED
  BY <1>8

\* A job that failed and has attempts left waits again.
LEMMA ScheduleRetryRetries ==
  ASSUME IInv, IInv', Located, Located', NEW w \in Workers, ScheduleRetry(w)
  PROVE  \E j \in Jobs : Ledger!Retry(j)
<1> DEFINE e == NextAttempt(hand[w])
<1>1. TypeOK /\ TypeOK'
  BY DEF IInv
<1>job. PICK j \in Jobs : j = hand[w].id
  BY <1>1, Hands DEF ScheduleRetry, Executing, Envelope
<1>2. /\ Executing(w) /\ hand[w] \in Envelope /\ Holding(w) = {j}
      /\ MayRetry(hand[w]) /\ Publish(e, BackoffSeconds(e))
      /\ hand' = [hand EXCEPT ![w] = NoJob] /\ pc' = [pc EXCEPT ![w] = "promote"]
      /\ dead' = dead /\ submitted' = submitted /\ limit' = limit
      /\ runs' = runs /\ finished' = finished
  BY <1>job, <1>1, Hands DEF ScheduleRetry, history, Executing
<1>3. e \in Envelope /\ e.id = j /\ BackoffSeconds(e) \in Int
  BY <1>job, <1>2, NextAttemptEnvelope, BackoffPositive
<1>4. runs[j] < limit[j]
  <2>1. hand[w].attempt + 1 = runs[j] /\ hand[w].max = limit[j]
    BY <1>job, <1>2 DEF IInv, AttemptAccounting, ExecutingOK
  <2> QED
    BY <1>2, <2>1 DEF MayRetry
<1> HIDE DEF e
<1>5. j \notin Ids(queue) /\ j \notin DelayedIds
  BY <1>2 DEF IInv, SingleCopy
<1>6. \/ Ids(queue)' = Ids(queue) \cup {j} /\ DelayedIds' = DelayedIds
      \/ Ids(queue)' = Ids(queue) /\ DelayedIds' = DelayedIds \cup {j}
  BY <1>1, <1>2, <1>3, <1>5, PublishMoves DEF IInv, SingleCopy, UniqueDelayed
<1>7. /\ \A v \in Workers \ {w} : pc'[v] = pc[v] /\ hand'[v] = hand[v]
      /\ pc'[w] = "promote" /\ ~Executing(w)'
  BY <1>1, <1>2 DEF TypeOK, Executing
<1>8. \A i \in Jobs \ {j} : Stays(i)
  BY <1>job, <1>1, <1>2, <1>3, <1>6, <1>7, OthersStay DEF Stays, Waits
<1>9. Runs(j) /\ Waits(j)'
  BY <1>job, <1>2, <1>6 DEF Runs, Waits
<1>10. Status(j) = "running" /\ Status(j)' = "waiting"
  BY <1>3, <1>9 DEF Located
<1>11. Ledger!Becomes(j, "waiting")
  BY <1>3, <1>8, <1>10, OneBecomes
<1>12. Ledger!Retry(j)
  BY <1>2, <1>3, <1>4, <1>10, <1>11 DEF Ledger!Retry
<1> QED
  BY <1>3, <1>12

\* A job that failed for the last time is buried.
LEMMA MoveToDeadLetterBuries ==
  ASSUME IInv, IInv', Located, Located', NEW w \in Workers, MoveToDeadLetter(w)
  PROVE  \E j \in Jobs : Ledger!Bury(j)
<1> DEFINE e == NextAttempt(hand[w])
<1>1. TypeOK /\ TypeOK'
  BY DEF IInv
<1>job. PICK j \in Jobs : j = hand[w].id
  BY <1>1, Hands DEF MoveToDeadLetter, Executing, Envelope
<1>2. /\ Executing(w) /\ hand[w] \in Envelope
      /\ ~MayRetry(hand[w]) /\ dead' = Append(dead, e)
      /\ hand' = [hand EXCEPT ![w] = NoJob] /\ pc' = [pc EXCEPT ![w] = "promote"]
      /\ queue' = queue /\ delayed' = delayed /\ submitted' = submitted
      /\ limit' = limit /\ runs' = runs /\ finished' = finished
  BY <1>job, <1>1, Hands DEF MoveToDeadLetter, history, Executing
<1>3. e \in Envelope /\ e.id = j
  BY <1>job, <1>2, NextAttemptEnvelope
<1>4. runs[j] >= limit[j]
  <2>1. hand[w].attempt + 1 = runs[j] /\ hand[w].max = limit[j]
    BY <1>job, <1>2 DEF IInv, AttemptAccounting, ExecutingOK
  <2>2. hand[w].attempt \in Nat /\ hand[w].max \in Int
    BY <1>2 DEF Envelope
  <2> QED
    BY <1>2, <2>1, <2>2 DEF MayRetry
<1> HIDE DEF e
<1>5. Ids(dead)' = Ids(dead) \cup {j}
  BY <1>1, <1>2, <1>3, IdsAppend DEF TypeOK
<1>6. /\ \A v \in Workers \ {w} : pc'[v] = pc[v] /\ hand'[v] = hand[v]
      /\ pc'[w] = "promote" /\ ~Executing(w)'
  BY <1>1, <1>2 DEF TypeOK, Executing
<1>7. \A i \in Jobs \ {j} : Stays(i)
  BY <1>job, <1>1, <1>2, <1>3, <1>5, <1>6, OthersStay DEF Stays, Waits, DelayedIds
<1>8. Runs(j) /\ j \in Ids(dead)'
  BY <1>job, <1>2, <1>5 DEF Runs
<1>9. Status(j) = "running" /\ Status(j)' = "dead"
  BY <1>3, <1>8 DEF Located
<1>10. Ledger!Becomes(j, "dead")
  BY <1>3, <1>7, <1>9, OneBecomes
<1>11. Ledger!Bury(j)
  BY <1>2, <1>3, <1>4, <1>9, <1>10 DEF Ledger!Bury
<1> QED
  BY <1>3, <1>11

\* A worker that dies loses the job it holds, if it holds one.
LEMMA CrashLoses ==
  ASSUME IInv, IInv', Located, Located', NEW w \in Workers, Crash(w)
  PROVE  (\E j \in Jobs : Ledger!Lose(j)) \/ UNCHANGED Ledger!vars
<1>1. TypeOK /\ TypeOK'
  BY DEF IInv
<1>2. /\ hand' = [hand EXCEPT ![w] = NoJob] /\ pc' = [pc EXCEPT ![w] = "down"]
      /\ queue' = queue /\ delayed' = delayed /\ dead' = dead
      /\ submitted' = submitted /\ limit' = limit /\ runs' = runs /\ finished' = finished
  BY DEF Crash, redis
<1>3. /\ \A v \in Workers \ {w} : pc'[v] = pc[v] /\ hand'[v] = hand[v]
      /\ pc'[w] = "down" /\ ~Executing(w)'
  BY <1>1, <1>2 DEF TypeOK, Executing
<1>4. CASE pc[w] = "push" \/ Executing(w)
  <2>1. PICK j \in Jobs : j = hand[w].id /\ Holding(w) = {j}
    BY <1>1, <1>4, Hands DEF Executing, Envelope
  <2>2. \A i \in Jobs \ {j} : Stays(i)
    BY <1>1, <1>2, <1>3, <2>1, OthersStay DEF Stays, Waits, DelayedIds
  <2>3. j \in Known /\ j \in submitted
    BY <2>1 DEF Known, IInv, KnownSubmitted
  <2>4. j \notin Known'
    <3>1. /\ j \notin Ids(queue) /\ j \notin DelayedIds /\ j \notin Ids(dead) /\ j \notin finished
          /\ \A v \in Workers \ {w} : j \notin Holding(v)
      BY <2>1 DEF IInv, SingleCopy
    <3>2. Holding(w)' = {} /\ \A v \in Workers \ {w} : Holding(v)' = Holding(v)
      BY <1>1, <1>2, LetsGo
    <3> QED
      BY <1>2, <3>1, <3>2 DEF Known, DelayedIds
  <2>5. Status(j)' = "lost"
    BY <1>2, <2>1, <2>3, <2>4 DEF Located
  <2>6. Waits(j) \/ Runs(j)
    BY <1>4, <2>1 DEF Waits, Pushed, Runs
  <2>7. Status(j) \in {"waiting", "running"}
    BY <2>1, <2>6 DEF Located
  <2>8. Ledger!Becomes(j, "lost")
    BY <2>1, <2>2, <2>5, OneBecomes
  <2>9. Ledger!Lose(j)
    BY <1>2, <2>1, <2>7, <2>8 DEF Ledger!Lose
  <2> QED
    BY <2>1, <2>9
<1>5. CASE ~(pc[w] = "push" \/ Executing(w))
  <2>1. \A i : (Pushed(i)' <=> Pushed(i)) /\ (Runs(i)' <=> Runs(i))
    BY <1>3, <1>5 DEF Pushed, Runs, Executing
  <2>2. \A i \in Jobs : Stays(i)
    BY <1>2, <2>1 DEF Stays, Waits, DelayedIds
  <2> QED
    BY <1>2, <2>2, AllStay
<1> QED
  BY <1>4, <1>5

\* A due job that moves to the list, and everything else a worker does with
\* no job or with one that keeps running, is invisible in the ledger.
LEMMA PromotionHides ==
  ASSUME IInv, IInv', Located, Located', NEW w \in Workers, PromoteRemove(w) \/ PromotePush(w)
  PROVE  UNCHANGED Ledger!vars
<1>1. TypeOK /\ TypeOK'
  BY DEF IInv
<1>2. /\ dead' = dead /\ submitted' = submitted /\ limit' = limit
      /\ runs' = runs /\ finished' = finished
      /\ ~Executing(w) /\ ~Executing(w)'
      /\ \A v \in Workers \ {w} : pc'[v] = pc[v] /\ hand'[v] = hand[v]
  BY <1>1 DEF PromoteRemove, PromotePush, history, AfterEntry, TypeOK, Executing
<1>3. CASE /\ PromoteRemove(w)
           /\ \E d \in delayed : d.env = Head(batch[w])
  <2>1. /\ batch[w] \in Seq(Envelope) /\ batch[w] # <<>> /\ pc[w] = "remove"
        /\ delayed' = {d \in delayed : d.env # Head(batch[w])} /\ queue' = queue
        /\ hand'[w] = Head(batch[w]) /\ pc'[w] = "push"
    BY <1>1, <1>3 DEF PromoteRemove, TypeOK, RegistersOK
  <2>2. PICK e \in Envelope : e = Head(batch[w])
    BY <2>1, HeadTailProperties
  <2>3. DelayedIds' = DelayedIds \ {e.id} /\ e.id \in DelayedIds
    BY <1>3, <2>1, <2>2, DelayedRemove DEF IInv, SingleCopy
  <2>4. e.id \in Jobs
    BY DEF Envelope
  <2>5. \A i \in Jobs \ {e.id} : Stays(i)
    BY <1>1, <1>2, <2>1, <2>2, <2>3, <2>4, OthersStay DEF Stays, Waits
  <2>6. Waits(e.id) /\ Waits(e.id)'
    BY <2>1, <2>2, <2>3 DEF Waits, Pushed
  <2>7. Ledger!Becomes(e.id, "waiting") /\ Status(e.id) = "waiting"
    BY <2>4, <2>5, <2>6, OneBecomes DEF Located
  <2> QED
    BY <1>2, <2>4, <2>7 DEF Ledger!vars, Ledger!Becomes
<1>4. CASE /\ PromoteRemove(w)
           /\ ~ \E d \in delayed : d.env = Head(batch[w])
  <2>1. /\ delayed' = delayed /\ queue' = queue /\ hand' = hand
        /\ pc[w] # "push" /\ pc'[w] # "push"
    BY <1>1, <1>4 DEF PromoteRemove, AfterEntry, TypeOK
  <2>2. \A i : (Pushed(i)' <=> Pushed(i)) /\ (Runs(i)' <=> Runs(i))
    BY <1>2, <2>1 DEF Pushed, Runs, Executing
  <2> QED
    BY <1>2, <2>1, <2>2, AllStay DEF Stays, Waits, DelayedIds
<1>5. CASE PromotePush(w)
  <2>1. PICK e \in Envelope : e = hand[w]
    BY <1>1, <1>5, Hands DEF PromotePush
  <2>2. e.id \in Jobs
    BY DEF Envelope
  <2>3. /\ queue' = Append(queue, e) /\ delayed' = delayed
        /\ pc[w] = "push" /\ pc'[w] # "push"
    BY <1>1, <1>5, <2>1 DEF PromotePush, AfterEntry, TypeOK
  <2>4. Ids(queue)' = Ids(queue) \cup {e.id}
    BY <1>1, <2>3, IdsAppend DEF TypeOK
  <2>5. \A i \in Jobs \ {e.id} : Stays(i)
    BY <1>1, <1>2, <2>1, <2>2, <2>3, <2>4, OthersStay DEF Stays, Waits, DelayedIds
  <2>6. Waits(e.id) /\ Waits(e.id)'
    BY <2>1, <2>3, <2>4 DEF Waits, Pushed
  <2>7. Ledger!Becomes(e.id, "waiting") /\ Status(e.id) = "waiting"
    BY <2>2, <2>5, <2>6, OneBecomes DEF Located
  <2> QED
    BY <1>2, <2>2, <2>7 DEF Ledger!vars, Ledger!Becomes
<1> QED
  BY <1>3, <1>4, <1>5

\* So are a read of the due jobs, a poll that finds nothing, an execution that
\* raises, a restart and the passing of time.
LEMMA RestHides ==
  ASSUME IInv, IInv', Located, Located',
         \/ \E w \in Workers : \/ PromoteRead(w) \/ DequeueTimeout(w)
                               \/ ExecuteError(w) \/ Restart(w)
         \/ Tick
         \/ UNCHANGED vars
  PROVE  UNCHANGED Ledger!vars
<1>1. TypeOK /\ TypeOK'
  BY DEF IInv
<1>2. /\ queue' = queue /\ delayed' = delayed /\ dead' = dead /\ hand' = hand
      /\ submitted' = submitted /\ limit' = limit /\ runs' = runs /\ finished' = finished
  BY DEF PromoteRead, DequeueTimeout, ExecuteError, Restart, Tick, vars, redis, worker, history
<1>3. \A v \in Workers : (Executing(v)' <=> Executing(v)) /\ (pc'[v] = "push" <=> pc[v] = "push")
  BY <1>1 DEF PromoteRead, DequeueTimeout, ExecuteError, Restart, Tick, vars, worker,
              AfterEntry, Executing, TypeOK
<1>4. \A i : (Pushed(i)' <=> Pushed(i)) /\ (Runs(i)' <=> Runs(i))
  BY <1>2, <1>3 DEF Pushed, Runs
<1> QED
  BY <1>2, <1>4, AllStay DEF Stays, Waits, DelayedIds

-----------------------------------------------------------------------------
(* The theorems                                                              *)

\* The initial states are initial states of the ledger.
LEMMA LedgerInit == Init => Ledger!Init
<1> SUFFICES ASSUME Init PROVE Ledger!Init
  OBVIOUS
<1>1. Located
  BY InvInit, StatusOfPlace
<1>2. \A j \in Jobs : Status(j) = "new"
  BY <1>1 DEF Located, Init
<1> QED
  BY <1>2 DEF Init, Ledger!Init

\* Every step is a step of the ledger or leaves it alone.
LEMMA LedgerStep == IInv /\ IInv' /\ [Next]_vars => [Ledger!Next]_Ledger!vars
<1> SUFFICES ASSUME IInv, IInv', [Next]_vars
             PROVE  Ledger!Next \/ UNCHANGED Ledger!vars
  OBVIOUS
<1>1. Located /\ Located'
  BY StatusOfPlace, StatusOfPlaceNext
<1>2. ASSUME NEW j \in Jobs, Enqueue(j) PROVE Ledger!Next
  BY <1>1, <1>2, EnqueueSubmits DEF Ledger!Next
<1>3. ASSUME NEW w \in Workers, Dequeue(w) PROVE Ledger!Next
  BY <1>1, <1>3, DequeueStarts DEF Ledger!Next
<1>4. ASSUME NEW w \in Workers, ExecuteOk(w) PROVE Ledger!Next
  BY <1>1, <1>4, ExecuteOkSucceeds DEF Ledger!Next
<1>5. ASSUME NEW w \in Workers, ScheduleRetry(w) PROVE Ledger!Next
  BY <1>1, <1>5, ScheduleRetryRetries DEF Ledger!Next
<1>6. ASSUME NEW w \in Workers, MoveToDeadLetter(w) PROVE Ledger!Next
  BY <1>1, <1>6, MoveToDeadLetterBuries DEF Ledger!Next
<1>7. ASSUME NEW w \in Workers, Crash(w) PROVE Ledger!Next \/ UNCHANGED Ledger!vars
  BY <1>1, <1>7, CrashLoses DEF Ledger!Next
<1>8. ASSUME NEW w \in Workers, PromoteRemove(w) \/ PromotePush(w)
      PROVE  UNCHANGED Ledger!vars
  BY <1>1, <1>8, PromotionHides
<1>9. ASSUME \/ \E w \in Workers : \/ PromoteRead(w) \/ DequeueTimeout(w)
                                    \/ ExecuteError(w) \/ Restart(w)
             \/ Tick
             \/ UNCHANGED vars
      PROVE  UNCHANGED Ledger!vars
  BY <1>1, <1>9, RestHides
<1> QED
  BY <1>2, <1>3, <1>4, <1>5, <1>6, <1>7, <1>8, <1>9 DEF Next, WorkerStep

\* The background-job subsystem implements the ledger: whatever the workers,
\* the crashes and the clients do, each job goes through the conditions of the
\* ledger only, one attempt at a time and within its limit.
THEOREM Refinement == Spec => ImplementsLedger
<1>1. Init => Ledger!Init
  BY LedgerInit
<1>2. IInv /\ IInv' /\ [Next]_vars => [Ledger!Next]_Ledger!vars
  BY LedgerStep
<1> QED
  BY <1>1, <1>2, Invariance, PTL DEF Spec, ImplementsLedger, Ledger!Spec

\* A job that has been accepted disappears only together with the memory of
\* the worker that holds it: in particular no promotion, retry or dead letter
\* drops one, and no restart does.
THEOREM NoOtherLoss == Spec => LostOnlyWithItsWorker
<1> DEFINE Kept == \A j \in Known \ Known' :
                     \E w \in Workers : j \in Holding(w) /\ pc'[w] = "down"
<1>1. IInv /\ IInv' /\ [Next]_vars => [Kept]_vars
  <2> SUFFICES ASSUME IInv, IInv', [Next]_vars, NEW j \in Known, j \notin Known'
               PROVE  \E w \in Workers : j \in Holding(w) /\ pc'[w] = "down"
    OBVIOUS
  <2>1. j \in Jobs /\ j \in submitted
    BY KnownEnvelopes DEF IInv, KnownSubmitted
  <2>2. submitted \subseteq submitted'
    BY DEF Next, WorkerStep, vars, history, Enqueue, PromoteRead, PromoteRemove, PromotePush,
           Dequeue, DequeueTimeout, ExecuteOk, ExecuteError, ScheduleRetry,
           MoveToDeadLetter, Restart, Crash, Tick
  \* In the ledger, the job is lost by this step.
  <2>3. Status(j)' = "lost"
    BY <2>1, <2>2, StatusOfPlaceNext DEF Located
  <2>4. Status(j) # "lost"
    BY <2>1, StatusOfPlace DEF Located
  <2>5. ~ UNCHANGED Ledger!vars
    BY <2>1, <2>3, <2>4 DEF Ledger!vars
  <2>6. ASSUME NEW k \in Jobs, NEW s, Ledger!Becomes(k, s) PROVE s = "lost"
    BY <2>1, <2>3, <2>4, <2>6 DEF Ledger!Becomes
  <2>7. ~ \E k \in Jobs : \/ Ledger!Submit(k) \/ Ledger!Start(k) \/ Ledger!Succeed(k)
                         \/ Ledger!Retry(k) \/ Ledger!Bury(k)
    BY <2>6 DEF Ledger!Submit, Ledger!Start, Ledger!Succeed, Ledger!Retry, Ledger!Bury
  \* So it is not a step of a client, nor of a worker that lives.
  <2>8. Located /\ Located'
    BY StatusOfPlace, StatusOfPlaceNext
  <2>9. PICK w \in Workers : Crash(w)
    BY <2>5, <2>7, <2>8, EnqueueSubmits, DequeueStarts, ExecuteOkSucceeds,
       ScheduleRetryRetries, MoveToDeadLetterBuries, PromotionHides, RestHides
       DEF Next, WorkerStep
  <2>10. /\ queue' = queue /\ delayed' = delayed /\ dead' = dead /\ finished' = finished
         /\ hand' = [hand EXCEPT ![w] = NoJob] /\ pc'[w] = "down"
    BY <2>9 DEF Crash, redis, IInv, TypeOK
  <2>11. \A v \in Workers \ {w} : Holding(v)' = Holding(v)
    BY <2>10, LetsGo DEF IInv
  <2> QED
    BY <2>10, <2>11 DEF Known, DelayedIds
<1> QED
  BY <1>1, Invariance, PTL DEF Spec, LostOnlyWithItsWorker

=============================================================================
