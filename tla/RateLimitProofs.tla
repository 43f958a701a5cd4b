--------------------------- MODULE RateLimitProofs ---------------------------
(* Theorems about RateLimit, for any number of concurrent requests, every    *)
(* limit and window, and any number of requests that are given up.           *)
EXTENDS RateLimit, TLAPS

-----------------------------------------------------------------------------
(* The counter                                                               *)

\* The first request after a window's end, and no other, gets the answer 1.
LEMMA FirstOfWindow ==
  ASSUME count \in 0..Limit + 1
  PROVE  Incremented \in 1..Limit + 1 /\ (Incremented = 1 <=> count = 0)
  BY LimitAssumption DEF Incremented

\* The time to wait is a number of seconds of the window, or is not given.
LEMMA TimeToWait ==
  ASSUME ttl \in {NoKey, NoTtl} \cup 1..Window
  PROVE  /\ RetryAfter \in {NotTold} \cup 1..Window
         /\ RetryAfter # NotTold => RetryAfter = ttl
  BY LimitAssumption DEF RetryAfter, NoKey, NoTtl, NotTold

-----------------------------------------------------------------------------
(* One lemma per action: it preserves the invariant                          *)

\* Only the request that opens the window is sent to EXPIRE.
LEMMA StepIncrement ==
  ASSUME IInv, NEW r \in Requests, Increment(r)
  PROVE  IInv'
<1>1. TypeOK /\ OneExpires /\ ToldIsEnough
  BY DEF IInv
<1>2. Incremented \in 1..Limit + 1 /\ (Incremented = 1 <=> ttl = NoKey)
  BY <1>1, FirstOfWindow DEF TypeOK
<1>3. /\ pc[r] = "idle" /\ count' = Incremented
      /\ ttl' = IF ttl = NoKey THEN NoTtl ELSE ttl
      /\ current' = [current EXCEPT ![r] = Incremented]
      /\ pc' = [pc EXCEPT ![r] = AfterIncr(Incremented)]
      /\ wait' = wait /\ crashes' = crashes
  BY DEF Increment
<1>4. /\ AfterIncr(Incremented) \in {"expire", "ttl"}
      /\ AfterIncr(Incremented) = "expire" <=> ttl = NoKey
  BY <1>2 DEF AfterIncr
<1>5. /\ pc' \in [Requests -> {"idle", "expire", "ttl", "refused"}]
      /\ pc'[r] = AfterIncr(Incremented) /\ \A q \in Requests \ {r} : pc'[q] = pc[q]
  BY <1>1, <1>3, <1>4 DEF TypeOK
<1>6. ttl = NoKey => \A q \in Requests : pc[q] # "expire"
  BY <1>1 DEF OneExpires, NoKey, NoTtl
<1>7. open' = [open EXCEPT ![r] = TRUE] /\ open' \in [Requests -> BOOLEAN]
      /\ \A q \in Requests \ {r} : open'[q] = open[q]
  BY <1>1, Zenon DEF Increment, TypeOK
<1>8. recent' \in [1..Window -> Nat]
  BY <1>1, LimitAssumption DEF Increment, TypeOK
<1>9. TypeOK'
  <2>1. ttl' = NoTtl => crashes' > 0 \/ \E q \in Requests : pc'[q] = "expire"
    <3>1. CASE ttl = NoKey
      BY <1>4, <1>5, <3>1
    <3>2. CASE ttl # NoKey
      BY <1>1, <1>3, <1>5, <3>2 DEF TypeOK
    <3> QED
      BY <3>1, <3>2
  <2> QED
    BY <1>1, <1>2, <1>3, <1>5, <1>7, <1>8, <2>1, LimitAssumption DEF TypeOK, NoKey, NoTtl
<1>10. OneExpires'
  BY <1>1, <1>3, <1>4, <1>5, <1>6 DEF OneExpires
<1>11. ToldIsEnough'
  <2>1. wait[r] = NotTold
    BY <1>1, <1>3 DEF ToldIsEnough
  <2>2. \A q \in Requests \ {r} : wait[q] # NotTold /\ open[q] => ttl' \in 1..wait[q]
    BY <1>1, <1>3 DEF ToldIsEnough, NoKey, TypeOK
  <2> QED
    BY <1>1, <1>3, <1>5, <1>7, <2>1, <2>2 DEF ToldIsEnough
<1> QED
  BY <1>9, <1>10, <1>11 DEF IInv

\* EXPIRE gives its end to a window that had none.
LEMMA StepSetExpiry ==
  ASSUME IInv, NEW r \in Requests, SetExpiry(r)
  PROVE  IInv'
<1>1. TypeOK /\ OneExpires /\ ToldIsEnough
  BY DEF IInv
<1>2. /\ pc[r] = "expire" /\ pc' = [pc EXCEPT ![r] = "ttl"]
      /\ count' = count /\ current' = current /\ wait' = wait /\ open' = open
      /\ recent' = recent /\ crashes' = crashes
  BY DEF SetExpiry, history
<1>3. ttl = NoTtl /\ \A q \in Requests \ {r} : pc[q] # "expire"
  BY <1>1, <1>2 DEF OneExpires
<1>4. ttl' = Window /\ ttl' # NoKey /\ ttl' # NoTtl /\ ttl' \in 1..Window
  BY <1>3, LimitAssumption DEF SetExpiry, NoTtl, NoKey
<1>5. /\ pc' \in [Requests -> {"idle", "expire", "ttl", "refused"}]
      /\ pc'[r] = "ttl" /\ \A q \in Requests \ {r} : pc'[q] = pc[q]
  BY <1>1, <1>2 DEF TypeOK
<1>6. TypeOK'
  BY <1>1, <1>2, <1>3, <1>4, <1>5 DEF TypeOK, NoTtl, NoKey
<1>7. OneExpires'
  BY <1>3, <1>5 DEF OneExpires
<1>8. ToldIsEnough'
  <2>1. \A q \in Requests : wait[q] # NotTold => ~open[q] /\ pc[q] = "refused"
    BY <1>1, <1>3 DEF ToldIsEnough, NoTtl, TypeOK
  <2> QED
    BY <1>2, <1>5, <2>1 DEF ToldIsEnough
<1> QED
  BY <1>6, <1>7, <1>8 DEF IInv

\* A refused client is told the time that the window has left.
LEMMA StepAnswer ==
  ASSUME IInv, NEW r \in Requests, Answer(r)
  PROVE  IInv'
<1>1. TypeOK /\ OneExpires /\ ToldIsEnough
  BY DEF IInv
<1>2. /\ pc[r] = "ttl" /\ count' = count /\ ttl' = ttl /\ current' = current
      /\ open' = open /\ recent' = recent /\ crashes' = crashes
  BY DEF Answer
<1>3. \/ pc' = [pc EXCEPT ![r] = "idle"] /\ wait' = wait
      \/ pc' = [pc EXCEPT ![r] = "refused"] /\ wait' = [wait EXCEPT ![r] = RetryAfter]
  BY DEF Answer
<1>4. /\ pc' \in [Requests -> {"idle", "expire", "ttl", "refused"}]
      /\ pc'[r] \in {"idle", "refused"} /\ \A q \in Requests \ {r} : pc'[q] = pc[q]
  BY <1>1, <1>3 DEF TypeOK
<1>5. /\ RetryAfter \in {NotTold} \cup 1..Window
      /\ RetryAfter # NotTold => RetryAfter = ttl
  BY <1>1, TimeToWait DEF TypeOK
<1>6. /\ wait' \in [Requests -> {NotTold} \cup 0..Window]
      /\ \A q \in Requests \ {r} : wait'[q] = wait[q]
      /\ wait'[r] = NotTold \/ (pc'[r] = "refused" /\ wait'[r] = ttl /\ ttl \in 1..Window)
  <2>1. wait[r] = NotTold
    BY <1>1, <1>2 DEF ToldIsEnough
  <2>2. 1..Window \subseteq 0..Window
    BY LimitAssumption
  <2> QED
    BY <1>1, <1>3, <1>5, <2>1, <2>2 DEF TypeOK, NotTold
<1>7. TypeOK'
  BY <1>1, <1>2, <1>4, <1>6 DEF TypeOK
<1>8. OneExpires'
  BY <1>1, <1>2, <1>4 DEF OneExpires
<1>9. ToldIsEnough'
  BY <1>1, <1>2, <1>4, <1>6 DEF ToldIsEnough
<1> QED
  BY <1>7, <1>8, <1>9 DEF IInv

\* A client that comes again forgets what it was told.
LEMMA StepResume ==
  ASSUME IInv, NEW r \in Requests, Resume(r)
  PROVE  IInv'
<1>1. TypeOK /\ OneExpires /\ ToldIsEnough
  BY DEF IInv
<1>2. /\ pc[r] = "refused" /\ pc' = [pc EXCEPT ![r] = "idle"]
      /\ wait' = [wait EXCEPT ![r] = NotTold]
      /\ count' = count /\ ttl' = ttl /\ current' = current
      /\ open' = open /\ recent' = recent /\ crashes' = crashes
  BY DEF Resume
<1>3. /\ pc' \in [Requests -> {"idle", "expire", "ttl", "refused"}]
      /\ pc'[r] = "idle" /\ \A q \in Requests \ {r} : pc'[q] = pc[q]
      /\ wait' \in [Requests -> {NotTold} \cup 0..Window]
      /\ wait'[r] = NotTold /\ \A q \in Requests \ {r} : wait'[q] = wait[q]
  BY <1>1, <1>2 DEF TypeOK
<1>4. TypeOK'
  BY <1>1, <1>2, <1>3 DEF TypeOK
<1>5. OneExpires'
  BY <1>1, <1>2, <1>3 DEF OneExpires
<1>6. ToldIsEnough'
  BY <1>1, <1>2, <1>3 DEF ToldIsEnough
<1> QED
  BY <1>4, <1>5, <1>6 DEF IInv

\* A request that is given up before its EXPIRE leaves a window without an end.
LEMMA StepCrash ==
  ASSUME IInv, NEW r \in Requests, Crash(r)
  PROVE  IInv'
<1>1. TypeOK /\ OneExpires /\ ToldIsEnough
  BY DEF IInv
<1>2. /\ pc[r] \in {"expire", "ttl"} /\ pc' = [pc EXCEPT ![r] = "idle"]
      /\ crashes' = crashes + 1 /\ crashes < MaxCrashes
      /\ count' = count /\ ttl' = ttl /\ current' = current /\ wait' = wait
      /\ open' = open /\ recent' = recent
  BY DEF Crash
<1>3. /\ pc' \in [Requests -> {"idle", "expire", "ttl", "refused"}]
      /\ pc'[r] = "idle" /\ \A q \in Requests \ {r} : pc'[q] = pc[q]
  BY <1>1, <1>2 DEF TypeOK
<1>4. crashes' \in 0..MaxCrashes /\ crashes' > 0
  BY <1>1, <1>2, CrashAssumption DEF TypeOK
<1>5. TypeOK'
  BY <1>1, <1>2, <1>3, <1>4 DEF TypeOK
<1>6. OneExpires'
  BY <1>1, <1>2, <1>3 DEF OneExpires
<1>7. ToldIsEnough'
  BY <1>1, <1>2, <1>3 DEF ToldIsEnough
<1> QED
  BY <1>5, <1>6, <1>7 DEF IInv

\* The time to wait and the time to live run at the same pace.
LEMMA StepTick ==
  ASSUME IInv, Tick
  PROVE  IInv'
<1>1. TypeOK /\ OneExpires /\ ToldIsEnough
  BY DEF IInv
<1>2. /\ ttl' = IF ttl = 1 THEN NoKey ELSE IF ttl > 1 THEN ttl - 1 ELSE ttl
      /\ count' = IF ttl = 1 THEN 0 ELSE count
      /\ wait' = [r \in Requests |-> IF wait[r] > 0 THEN wait[r] - 1 ELSE wait[r]]
      /\ pc' = pc /\ current' = current /\ crashes' = crashes
  BY DEF Tick
<1>3. /\ open' = [r \in Requests |-> open[r] /\ ttl # 1] /\ open' \in [Requests -> BOOLEAN]
      /\ \A r \in Requests : open'[r] => open[r] /\ ttl # 1
  BY Zenon DEF Tick
<1>4. recent' \in [1..Window -> Nat]
  BY <1>1, LimitAssumption DEF Tick, TypeOK
<1>5. wait' \in [Requests -> {NotTold} \cup 0..Window]
  BY <1>1, <1>2, LimitAssumption DEF TypeOK, NotTold
<1>6. /\ ttl' \in {NoKey, NoTtl} \cup 1..Window
      /\ count' \in 0..Limit + 1 /\ (count' = 0 <=> ttl' = NoKey)
      /\ ttl' = NoTtl => ttl = NoTtl
      /\ ttl = NoTtl => ttl' = NoTtl
  BY <1>1, <1>2, LimitAssumption DEF TypeOK, NoKey, NoTtl
<1>7. TypeOK'
  BY <1>1, <1>2, <1>3, <1>4, <1>5, <1>6 DEF TypeOK
<1>8. OneExpires'
  BY <1>1, <1>2, <1>6 DEF OneExpires
<1>9. ToldIsEnough'
  <2> SUFFICES ASSUME NEW r \in Requests, wait'[r] # NotTold
               PROVE  pc[r] = "refused" /\ (open'[r] => ttl' \in 1..wait'[r])
    BY <1>2 DEF ToldIsEnough
  <2>1. wait[r] \in {NotTold} \cup 0..Window /\ wait[r] # NotTold
    BY <1>1, <1>2 DEF TypeOK, NotTold
  <2>2. pc[r] = "refused" /\ (open[r] => ttl \in 1..wait[r])
    BY <1>1, <2>1 DEF ToldIsEnough
  <2>3. open'[r] => ttl > 1 /\ ttl <= wait[r] /\ ttl \in Nat /\ wait[r] \in Nat
    BY <1>3, <2>1, <2>2, LimitAssumption DEF NotTold
  <2> QED
    BY <1>2, <2>2, <2>3
<1> QED
  BY <1>7, <1>8, <1>9 DEF IInv

-----------------------------------------------------------------------------
(* The theorems                                                              *)

\* There is no key at the beginning.
LEMMA InvInit == Init => IInv
  BY LimitAssumption, CrashAssumption
     DEF Init, IInv, TypeOK, OneExpires, ToldIsEnough, NoKey, NoTtl, NotTold

\* Every step preserves the inductive invariant.
LEMMA InvStep == IInv /\ [Next]_vars => IInv'
<1> SUFFICES ASSUME IInv, [Next]_vars PROVE IInv'
  OBVIOUS
<1>1. CASE UNCHANGED vars
  BY <1>1 DEF vars, history, IInv, TypeOK, OneExpires, ToldIsEnough
<1>2. CASE Next
  BY <1>2, StepIncrement, StepSetExpiry, StepAnswer, StepResume, StepCrash, StepTick
     DEF Next, Served
<1> QED
  BY <1>1, <1>2

\* However the requests interleave, each window has one request that gives it
\* its end, and no client is told less than what is left of the window.
THEOREM Invariance == Spec => []IInv
  BY InvInit, InvStep, PTL DEF Spec

\* The counter and its time to live stay in their ranges and exist together,
\* and a key without an end is about to get one or is left by a failure.
THEOREM TypeCorrect == Spec => []TypeOK
  BY Invariance, PTL DEF IInv

\* A client that waited as long as Retry-After said never finds the window
\* that refused it still open.
THEOREM RetryAfterIsHonest == Spec => []RetryAfterHonest
<1>1. IInv => RetryAfterHonest
  BY DEF IInv, ToldIsEnough, RetryAfterHonest, NotTold
<1> QED
  BY <1>1, Invariance, PTL

-----------------------------------------------------------------------------
(* Never more than twice the limit                                           *)

\* The request that opens a window is the first of its second; each later one
\* that is allowed is counted as often as it is served.
LEMMA RateIncrement ==
  ASSUME RateIInv, TypeOK', NEW r \in Requests, Increment(r)
  PROVE  RateIInv'
<1> DEFINE d == IF Allowed(Incremented) THEN 1 ELSE 0
<1>1. /\ TypeOK /\ Growing /\ recent \in [1..Window -> Nat] /\ count \in 0..Limit + 1
      /\ Limit \in Nat \ {0} /\ Window \in Nat \ {0}
  BY LimitAssumption DEF RateIInv, TypeOK
<1>2. /\ recent' = [i \in 1..Window |-> recent[i] + d] /\ d \in {0, 1}
      /\ count' = Incremented /\ ttl' = IF ttl = NoKey THEN NoTtl ELSE ttl
      /\ d = 1 => Incremented <= Limit
  BY DEF Increment, Allowed
<1>3. /\ count' \in Nat /\ count' >= count
      /\ d = 1 => count' = count + 1
      /\ count = 0 => d = 1 /\ count' = 1
  <2>1. Incremented = IF count > Limit THEN count ELSE count + 1
    BY DEF Incremented
  <2>2. d = IF Incremented <= Limit THEN 1 ELSE 0
    BY DEF Allowed
  <2> HIDE DEF d
  <2> QED
    BY <1>1, <1>2, <2>1, <2>2
<1> HIDE DEF d
<1>4. Growing'
  BY <1>1, <1>2 DEF Growing
<1>5. CASE ttl = NoKey
  <2>1. count = 0 /\ NothingYet
    BY <1>5 DEF RateIInv, TypeOK
  <2>2. ttl' = NoTtl /\ ttl' # NoKey /\ Age' = 1
    BY <1>2, <1>5 DEF Age, NoTtl, NoKey
  <2>3. /\ recent'[1] = 1 /\ recent'[Window] <= 1 + Limit
        /\ 1 <= Limit /\ count' = 1
    BY <1>1, <1>2, <1>3, <2>1 DEF NothingYet
  <2>4. TwoWindows'
    BY <1>1, <2>2, <2>3 DEF TwoWindows
  <2> QED
    BY <1>4, <2>2, <2>4 DEF RateIInv
<1>6. CASE ttl # NoKey
  <2>1. ttl' = ttl /\ Age' = Age
    BY <1>2, <1>6 DEF Age
  <2>2. PICK j \in Age..Window : /\ recent[j] <= Limit /\ recent[j] <= count
                                 /\ recent[Window] <= recent[j] + Limit
    BY <1>6 DEF RateIInv, TwoWindows
  <2>3. j \in 1..Window
    BY <1>1, <1>6, <2>2 DEF Age, TypeOK, NoKey, NoTtl
  <2>4. /\ recent'[j] <= Limit /\ recent'[j] <= count'
        /\ recent'[Window] <= recent'[j] + Limit
    BY <1>1, <1>2, <1>3, <2>2, <2>3
  <2>5. TwoWindows'
    BY <2>1, <2>2, <2>4 DEF TwoWindows
  <2> QED
    BY <1>4, <1>6, <2>1, <2>5 DEF RateIInv
<1> QED
  BY <1>5, <1>6

\* A window has been open for its whole length before its time is over.
LEMMA RateTick ==
  ASSUME RateIInv, TypeOK', Tick
  PROVE  RateIInv'
<1>1. /\ TypeOK /\ Growing /\ recent \in [1..Window -> Nat] /\ count \in 0..Limit + 1
      /\ Limit \in Nat \ {0} /\ Window \in Nat \ {0}
      /\ ttl \in {NoKey, NoTtl} \cup 1..Window
  BY LimitAssumption DEF RateIInv, TypeOK
<1>2. /\ ttl' = IF ttl = 1 THEN NoKey ELSE IF ttl > 1 THEN ttl - 1 ELSE ttl
      /\ count' = IF ttl = 1 THEN 0 ELSE count
      /\ recent' = [i \in 1..Window |-> IF i = 1 THEN 0 ELSE recent[i - 1]]
  BY DEF Tick
<1>3. \A i \in 2..Window : i - 1 \in 1..Window /\ recent[i - 1] <= recent[i]
  BY <1>1 DEF Growing
<1>4. Growing'
  <2> SUFFICES ASSUME NEW i \in 1..Window, NEW k \in 1..i PROVE recent'[k] <= recent'[i]
    BY DEF Growing
  <2>1. CASE k = 1
    BY <1>1, <1>2, <2>1
  <2>2. CASE k # 1
    <3>1. i - 1 \in 1..Window /\ k - 1 \in 1..(i - 1)
      BY <1>1, <2>2
    <3>2. recent'[i] = recent[i - 1] /\ recent'[k] = recent[k - 1]
      BY <1>1, <1>2, <2>2
    <3> QED
      BY <1>1, <3>1, <3>2 DEF Growing
  <2> QED
    BY <2>1, <2>2
<1>5. recent'[1] = 0 /\ recent'[Window] \in Nat /\ recent'[Window] <= recent[Window]
  BY <1>1, <1>2, <1>3
<1>6. CASE ttl = NoKey
  <2>1. recent[Window] <= Limit
    BY <1>6 DEF RateIInv, NothingYet
  <2>2. ttl' = NoKey /\ NothingYet'
    BY <1>1, <1>2, <1>5, <1>6, <2>1 DEF NothingYet, NoKey
  <2> QED
    BY <1>4, <2>2 DEF RateIInv
<1>7. CASE ttl # NoKey
  <2>1. PICK j \in Age..Window : /\ recent[j] <= Limit /\ recent[j] <= count
                                 /\ recent[Window] <= recent[j] + Limit
    BY <1>7 DEF RateIInv, TwoWindows
  <2>2. j \in 1..Window
    BY <1>1, <1>7, <2>1 DEF Age, NoKey, NoTtl
  <2>3. CASE ttl = 1
    <3>1. j = Window
      BY <1>1, <2>1, <2>3 DEF Age, NoTtl
    <3>2. ttl' = NoKey /\ NothingYet'
      BY <1>1, <1>2, <1>5, <2>1, <2>3, <3>1 DEF NothingYet
    <3> QED
      BY <1>4, <3>2 DEF RateIInv
  <2>4. CASE ttl # 1
    <3>1. ttl' # NoKey /\ count' = count
      BY <1>1, <1>2, <1>7, <2>4 DEF NoKey, NoTtl
    <3>2. CASE j = Window
      <4>1. Window \in Age'..Window
        BY <1>1, <1>2, <1>7, <2>4 DEF Age, NoKey, NoTtl
      <4>2. recent'[Window] <= Limit /\ recent'[Window] <= count'
        BY <1>1, <1>5, <2>1, <3>1, <3>2
      <4>3. TwoWindows'
        BY <1>1, <1>5, <4>1, <4>2 DEF TwoWindows
      <4> QED
        BY <1>4, <3>1, <4>3 DEF RateIInv
    <3>3. CASE j # Window
      <4>1. j + 1 \in Age'..Window
        BY <1>1, <1>2, <1>7, <2>1, <2>2, <2>4, <3>3 DEF Age, NoKey, NoTtl
      <4>2. recent'[j + 1] = recent[j]
        BY <1>1, <1>2, <2>2, <3>3
      <4>3. /\ recent'[j + 1] <= Limit /\ recent'[j + 1] <= count'
            /\ recent'[Window] <= recent'[j + 1] + Limit
        BY <1>1, <1>5, <2>1, <2>2, <3>1, <4>2
      <4>4. TwoWindows'
        BY <4>1, <4>3 DEF TwoWindows
      <4> QED
        BY <1>4, <3>1, <4>4 DEF RateIInv
    <3> QED
      BY <3>2, <3>3
  <2> QED
    BY <2>3, <2>4
<1> QED
  BY <1>6, <1>7

\* EXPIRE comes some time after the opening of the window, and counts from then.
LEMMA RateSetExpiry ==
  ASSUME IInv, RateIInv, TypeOK', NEW r \in Requests, SetExpiry(r)
  PROVE  RateIInv'
<1>1. ttl = NoTtl /\ Window \in Nat \ {0}
  BY LimitAssumption DEF IInv, OneExpires, SetExpiry
<1>2. ttl' = Window /\ count' = count /\ recent' = recent
  BY <1>1 DEF SetExpiry, history, NoTtl, NoKey
<1>3. ttl # NoKey /\ ttl' # NoKey /\ Age = 1 /\ Age' = 1
  BY <1>1, <1>2 DEF Age, NoTtl, NoKey
<1> QED
  BY <1>2, <1>3 DEF RateIInv, Growing, TwoWindows

\* In no stretch of a window's length are more requests served than two
\* windows allow, however the requests and the border between them overlap.
THEOREM TwiceTheLimitAtMost == Spec => []AtMostTwiceTheLimit
<1>1. Init => RateIInv
  <2> SUFFICES ASSUME Init PROVE RateIInv
    OBVIOUS
  <2>1. TypeOK
    BY InvInit DEF IInv
  <2>2. ttl = NoKey /\ \A i \in 1..Window : recent[i] = 0
    BY DEF Init
  <2> QED
    BY <2>1, <2>2, LimitAssumption DEF RateIInv, Growing, NothingYet
<1>2. IInv /\ RateIInv /\ [Next]_vars => RateIInv'
  <2> SUFFICES ASSUME IInv, RateIInv, [Next]_vars PROVE RateIInv'
    OBVIOUS
  <2>1. TypeOK'
    BY InvStep DEF IInv
  <2>2. ASSUME UNCHANGED <<count, ttl, recent>> PROVE RateIInv'
    BY <2>1, <2>2 DEF RateIInv, Growing, NothingYet, TwoWindows, Age
  <2>3. ASSUME NEW r \in Requests, Answer(r) \/ Resume(r) \/ Crash(r) PROVE RateIInv'
    BY <2>2, <2>3 DEF Answer, Resume, Crash
  <2>4. CASE UNCHANGED vars
    BY <2>2, <2>4 DEF vars, history
  <2> QED
    BY <2>1, <2>3, <2>4, RateIncrement, RateSetExpiry, RateTick DEF Next, Served
<1>3. RateIInv => AtMostTwiceTheLimit
  <2> SUFFICES ASSUME RateIInv PROVE AtMostTwiceTheLimit
    OBVIOUS
  <2>1. /\ recent \in [1..Window -> Nat] /\ Limit \in Nat /\ Window \in Nat \ {0}
        /\ ttl \in {NoKey, NoTtl} \cup 1..Window
    BY LimitAssumption DEF RateIInv, TypeOK
  <2>2. CASE ttl = NoKey
    BY <2>1, <2>2 DEF RateIInv, NothingYet, AtMostTwiceTheLimit
  <2>3. CASE ttl # NoKey
    <3>1. \A j \in Age..Window : j \in 1..Window
      BY <2>1, <2>3 DEF Age, NoKey, NoTtl
    <3> QED
      BY <2>1, <2>3, <3>1 DEF RateIInv, TwoWindows, AtMostTwiceTheLimit
  <2> QED
    BY <2>2, <2>3
<1> QED
  BY <1>1, <1>2, <1>3, Invariance, PTL DEF Spec
=============================================================================
