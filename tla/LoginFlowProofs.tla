--------------------------- MODULE LoginFlowProofs ---------------------------
(* Theorems about LoginFlow, for any number of logins and of calls of the    *)
(* callback, any limit of the brute-force counter and any number of faults.  *)
EXTENDS LoginFlow, TLAPS

-----------------------------------------------------------------------------
(* Type correctness                                                          *)

\* Before the first login everything is well-typed.
LEMMA TypeInit == Init => TypeOK
<1> SUFFICES ASSUME Init PROVE TypeOK
  OBVIOUS
<1>1. {counterEnds, blocked} \subseteq BOOLEAN /\ found \in [Calls -> BOOLEAN]
  BY Zenon DEF Init
<1> QED
  BY <1>1, LoginAssumption DEF Init, TypeOK, Ended, Stages

\* The browser's side of a login touches no call.
LEMMA TypeLogin ==
  ASSUME TypeOK, NEW l \in Logins,
         StartLogin(l) \/ StoreState(l) \/ Authenticate(l) \/ StateExpires(l)
  PROVE  TypeOK'
  BY LoginAssumption
     DEF TypeOK, StartLogin, StoreState, Authenticate, StateExpires, Fault, guard, counter, callback

\* A call that begins carries a login, or fails at once.
LEMMA TypeCallBack ==
  ASSUME TypeOK, NEW c \in Calls, CallBack(c) \/ CallBackWithError(c)
  PROVE  TypeOK'
<1>1. CASE CallBack(c)
  BY <1>1, LoginAssumption DEF TypeOK, CallBack, Goto, guard, counter, Stages, Ended
<1>2. CASE CallBackWithError(c)
  BY <1>2, LoginAssumption DEF TypeOK, CallBackWithError, Fault, Goto, guard, counter, Stages, Ended
<1> QED
  BY <1>1, <1>2

\* Looking up the state and deleting it, exchanging the code.
LEMMA TypeAdmission ==
  ASSUME TypeOK, NEW c \in Calls, GetState(c) \/ DeleteState(c) \/ Exchange(c)
  PROVE  TypeOK'
<1>1. CASE GetState(c)
  BY <1>1 DEF TypeOK, GetState, Goto, guard, counter, Stages, Ended
<1>2. CASE DeleteState(c)
  BY <1>2 DEF TypeOK, DeleteState, Goto, guard, counter, Stages, Ended
<1>3. CASE Exchange(c)
  <2>1. of[c] \in Logins
    BY <1>3 DEF TypeOK, Exchange
  <2>2. code' \in [Logins -> {"none", "issued", "used"}]
    BY <1>3, <2>1 DEF TypeOK, Exchange
  <2>3. pc' \in [Calls -> Ended \cup Stages] /\ faults' \in 0..MaxFaults
    BY <1>3, LoginAssumption DEF TypeOK, Exchange, Goto, Fault, Stages
  <2>4. \A d \in Calls : of[d] = NoLogin => pc'[d] = pc[d]
    BY <1>3, <2>1, LoginAssumption DEF TypeOK, Exchange, Goto
  <2> QED
    BY <1>3, <2>2, <2>3, <2>4 DEF TypeOK, Exchange, guard, counter
<1> QED
  BY <1>1, <1>2, <1>3

\* Claims, mirror, session.
LEMMA TypeSession ==
  ASSUME TypeOK, NEW c \in Calls, FetchUserinfo(c) \/ Sync(c) \/ CreateSession(c)
  PROVE  TypeOK'
<1>1. pc[c] \in {"userinfo", "sync", "create"} /\ of[c] \in Logins
  BY DEF TypeOK, FetchUserinfo, Sync, CreateSession
<1>2. pc' \in [Calls -> Ended \cup Stages] /\ faults' \in 0..MaxFaults
  BY LoginAssumption
     DEF TypeOK, FetchUserinfo, Sync, CreateSession, Goto, Fault, Stages, Ended
<1>3. \A d \in Calls : of[d] = NoLogin => pc'[d] = pc[d]
  BY <1>1, LoginAssumption DEF TypeOK, FetchUserinfo, Sync, CreateSession, Goto
<1>4. UNCHANGED <<states, login, code, failures, counterEnds, blocked, of, found, passed>>
  BY DEF FetchUserinfo, Sync, CreateSession, guard, counter
<1>5. appUsers' \subseteq Logins \ Unnamed
  BY <1>1 DEF TypeOK, FetchUserinfo, Sync, Mirrored, CreateSession
<1>6. sessions' \subseteq [login : Logins, call : Calls]
  BY <1>1 DEF TypeOK, FetchUserinfo, Sync, CreateSession, Created
<1> QED
  BY <1>2, <1>3, <1>4, <1>5, <1>6 DEF TypeOK

\* Counter and block, cleared or raised.
LEMMA TypeGuard ==
  ASSUME TypeOK, NEW c \in Calls,
         \/ ClearCounter(c) \/ ClearBlock(c)
         \/ CountFailure(c) \/ ExpireCounter(c) \/ SetBlock(c)
  PROVE  TypeOK'
<1>1. CASE ClearCounter(c)
  <2>1. {counterEnds', blocked'} \subseteq BOOLEAN
    BY <1>1, Zenon DEF TypeOK, ClearCounter, DropCounter, counter
  <2>2. /\ pc[c] = "counter" /\ (Goto(c, "block") \/ Goto(c, "error"))
        /\ Fault \/ UNCHANGED faults
        /\ failures' \in {0, failures}
        /\ UNCHANGED <<states, login, code, of, found, appUsers, sessions, passed>>
    BY <1>1, Zenon DEF ClearCounter, DropCounter, counter
  <2> QED
    BY <2>1, <2>2, LoginAssumption DEF TypeOK, Goto, Fault, Stages, Ended
<1>2. CASE ClearBlock(c)
  <2>1. {counterEnds', blocked'} \subseteq BOOLEAN
    BY <1>2, Zenon DEF TypeOK, ClearBlock, counter
  <2>2. /\ pc[c] = "block" /\ (Goto(c, "ok") \/ Goto(c, "error"))
        /\ Fault \/ UNCHANGED faults
        /\ UNCHANGED <<states, login, code, failures, of, found, appUsers, sessions, passed>>
    BY <1>2, Zenon DEF ClearBlock, counter
  <2> QED
    BY <2>1, <2>2, LoginAssumption DEF TypeOK, Goto, Fault, Stages, Ended
<1>3. CASE CountFailure(c)
  BY <1>3, LoginAssumption DEF TypeOK, CountFailure, Judged, Goto, Stages, Ended
<1>4. CASE ExpireCounter(c)
  <2>1. {counterEnds', blocked'} \subseteq BOOLEAN
    <3>1. (failures > 0) \in BOOLEAN
      OBVIOUS
    <3> QED
      BY <1>4, <3>1, Zenon DEF TypeOK, ExpireCounter
  <2>2. /\ pc[c] = "expire" /\ Goto(c, Judged(1))
        /\ UNCHANGED <<states, login, code, failures, of, found, appUsers, sessions, passed, faults>>
    BY <1>4 DEF ExpireCounter
  <2> QED
    BY <2>1, <2>2, LoginAssumption DEF TypeOK, Judged, Goto, Stages, Ended
<1>5. CASE SetBlock(c)
  BY <1>5, LoginAssumption DEF TypeOK, SetBlock, counter, Goto, Stages, Ended
<1> QED
  BY <1>1, <1>2, <1>3, <1>4, <1>5

\* Crashes, expiry, and steps of somebody else.
LEMMA TypeEnvironment ==
  ASSUME TypeOK, (\E c \in Calls : Crash(c)) \/ GuardExpires \/ UNCHANGED vars
  PROVE  TypeOK'
<1>1. CASE \E c \in Calls : Crash(c)
  BY <1>1, LoginAssumption DEF TypeOK, Crash, Goto, Fault, guard, counter, Stages, Ended
<1>2. CASE GuardExpires
  <2>1. {counterEnds', blocked'} \subseteq BOOLEAN
    BY <1>2, Zenon DEF TypeOK, GuardExpires, DropCounter, counter
  <2>2. failures' \in 0..AttemptLimit
    BY <1>2, LoginAssumption DEF TypeOK, GuardExpires, DropCounter, counter
  <2> QED
    BY <1>2, <2>1, <2>2 DEF TypeOK, GuardExpires, callback
<1>3. CASE UNCHANGED vars
  BY <1>3 DEF TypeOK, vars, guard, counter, callback
<1> QED
  BY <1>1, <1>2, <1>3

\* Typing is inductive by itself.
LEMMA TypeStep == TypeOK /\ [Next]_vars => TypeOK'
  BY TypeLogin, TypeCallBack, TypeAdmission, TypeSession, TypeGuard, TypeEnvironment
     DEF Next, Serve

\* However many calls overlap, every variable keeps its values, and a call
\* that carries no login never gets further than its own failure.
THEOREM TypeCorrect == Spec => []TypeOK
  BY TypeInit, TypeStep, PTL DEF Spec

-----------------------------------------------------------------------------
(* The inductive invariant, one lemma for each group of actions              *)

Sound == LoginsStarted /\ CallsSound /\ CodeTakenOnce /\ OneSessionPerLogin /\ SessionSound

\* Nothing has been started, passed or created.
LEMMA SoundInit == Init => Sound
  BY LoginAssumption
     DEF Init, Sound, LoginsStarted, CallsSound, CodeTakenOnce, OneSessionPerLogin,
         SessionSound, Trading

\* A state is stored for a login that was not started yet, so for none whose
\* code any call or session has used.
LEMMA SoundLogin ==
  ASSUME TypeOK, Sound, NEW l \in Logins,
         StartLogin(l) \/ StoreState(l) \/ Authenticate(l) \/ StateExpires(l)
  PROVE  Sound'
<1>1. UNCHANGED <<pc, of, passed, appUsers, sessions>>
  BY DEF StartLogin, StoreState, Authenticate, StateExpires, callback
<1>2. \A k \in Logins : /\ login[k] = "started" => login'[k] = "started"
                        /\ code[k] = "used" => code'[k] = "used"
                        /\ code[k] # "none" => code'[k] # "none"
                        /\ login[k] = "started" /\ k \notin states => k \notin states'
  BY DEF TypeOK, StartLogin, StoreState, Authenticate, StateExpires
<1>3. LoginsStarted'
  BY DEF TypeOK, Sound, LoginsStarted, StartLogin, StoreState, Authenticate, StateExpires
<1>4. \A c \in Calls : of[c] # NoLogin => of[c] \in Logins /\ login[of[c]] = "started"
  BY DEF TypeOK, Sound, CallsSound, LoginsStarted
<1>5. CallsSound'
  BY <1>1, <1>2, <1>4, LoginAssumption DEF Sound, CallsSound, Trading
<1>6. CodeTakenOnce'
  BY <1>1, <1>2 DEF Sound, CallsSound, CodeTakenOnce, Trading
<1>7. SessionSound'
  BY <1>1, <1>2 DEF TypeOK, Sound, SessionSound
<1> QED
  BY <1>1, <1>3, <1>5, <1>6, <1>7 DEF Sound, OneSessionPerLogin

\* A call that has just begun has passed nothing.
LEMMA SoundCallBack ==
  ASSUME TypeOK, Sound, NEW c \in Calls, CallBack(c) \/ CallBackWithError(c)
  PROVE  Sound'
<1>1. /\ UNCHANGED <<states, login, code, appUsers, sessions, passed>>
      /\ pc[c] = "idle" /\ of[c] = NoLogin /\ c \notin passed
      /\ pc' \in [Calls -> Ended \cup Stages] /\ pc'[c] \in {"get", "failed"}
      /\ \A d \in Calls \ {c} : pc'[d] = pc[d] /\ of'[d] = of[d]
  BY LoginAssumption
     DEF TypeOK, Sound, CallsSound, CallBack, CallBackWithError, Goto, Stages, Ended
<1>2. of'[c] # NoLogin => code[of'[c]] # "none"
  BY <1>1 DEF TypeOK, CallBack, CallBackWithError
<1>3. CallsSound'
  BY <1>1, <1>2 DEF Sound, CallsSound, Trading
<1>4. \A d \in Calls : Trading(d)' => Trading(d) /\ of'[d] = of[d]
  BY <1>1 DEF Trading
<1> QED
  BY <1>1, <1>3, <1>4
     DEF Sound, LoginsStarted, CodeTakenOnce, OneSessionPerLogin, SessionSound

\* A call passes only after it deleted the state, and no state comes back.
LEMMA SoundState ==
  ASSUME TypeOK, Sound, NEW c \in Calls, GetState(c) \/ DeleteState(c)
  PROVE  Sound'
<1>1. /\ UNCHANGED <<login, code, of, appUsers, sessions>> /\ states' \subseteq states
      /\ pc[c] \in {"get", "delete"} /\ pc'[c] \in {"delete", "exchange", "failed"}
      /\ \A d \in Calls \ {c} : pc'[d] = pc[d]
      /\ passed' \subseteq passed \cup {c}
      /\ c \in passed' \ passed => of[c] \notin states'
      /\ pc'[c] = "exchange" => c \in passed'
      /\ passed \subseteq passed'
  BY DEF TypeOK, GetState, DeleteState, Goto, guard, counter
<1>2. of[c] \in Logins
  BY <1>1 DEF TypeOK
<1>3. CallsSound'
  BY <1>1, <1>2, LoginAssumption DEF Sound, CallsSound, Trading
<1>4. \A d \in Calls : Trading(d)' => Trading(d)
  BY <1>1 DEF Trading
<1> QED
  BY <1>1, <1>3, <1>4
     DEF Sound, LoginsStarted, CodeTakenOnce, OneSessionPerLogin, SessionSound

\* Keycloak gives the tokens of a login to the call that comes with the code
\* first: at that moment nobody else has them.
LEMMA SoundExchange ==
  ASSUME TypeOK, Sound, NEW c \in Calls, Exchange(c)
  PROVE  Sound'
<1>1. /\ UNCHANGED <<states, login, of, appUsers, sessions, passed>>
      /\ pc[c] = "exchange" /\ pc'[c] \in {"userinfo", "failed"}
      /\ \A d \in Calls \ {c} : pc'[d] = pc[d]
      /\ pc'[c] = "userinfo" => code[of[c]] = "issued"
      /\ code' = [code EXCEPT ![of[c]] = "used"] \/ (pc'[c] = "failed" /\ code' = code)
  BY DEF TypeOK, Exchange, Goto, guard, counter
<1>2. of[c] \in Logins /\ c \in passed /\ code[of[c]] # "none"
  BY <1>1, LoginAssumption DEF TypeOK, Sound, CallsSound
<1>3. /\ \A l \in Logins : code'[l] # "none" => code[l] # "none"
      /\ \A l \in Logins : code[l] # "none" => code'[l] # "none"
      /\ \A l \in Logins : code[l] = "used" => code'[l] = "used"
      /\ pc'[c] = "userinfo" => code'[of[c]] = "used"
  BY <1>1, <1>2 DEF TypeOK
<1>4. LoginsStarted'
  BY <1>1, <1>3 DEF Sound, LoginsStarted
<1>5. CallsSound'
  BY <1>1, <1>2, <1>3, LoginAssumption DEF TypeOK, Sound, CallsSound, Trading
<1>6. \A d \in Calls : Trading(d) => of[d] \in Logins /\ code[of[d]] = "used"
  BY DEF TypeOK, Sound, CodeTakenOnce, Trading
<1>7. \A d \in Calls : Trading(d)' => Trading(d) \/ (d = c /\ pc'[c] = "userinfo")
  BY <1>1 DEF Trading
<1>8. CodeTakenOnce'
  <2>1. pc'[c] = "userinfo" =>
          /\ \A d \in Calls : Trading(d) => of[d] # of[c]
          /\ \A s \in sessions : s.login # of[c]
    BY <1>1, <1>6 DEF Sound, SessionSound
  <2> QED
    BY <1>1, <1>3, <1>6, <1>7, <2>1 DEF Sound, CodeTakenOnce
<1>9. SessionSound'
  BY <1>1, <1>3 DEF TypeOK, Sound, SessionSound
<1> QED
  BY <1>1, <1>4, <1>5, <1>8, <1>9 DEF Sound, OneSessionPerLogin

\* The user, if the claims name one, is in app_users before the session is
\* created.
LEMMA SoundMirror ==
  ASSUME TypeOK, Sound, NEW c \in Calls, FetchUserinfo(c) \/ Sync(c)
  PROVE  Sound'
<1>1. /\ UNCHANGED <<states, login, code, of, sessions, passed>>
      /\ pc[c] \in {"userinfo", "sync"} /\ pc'[c] \in {"sync", "create", "failed", "error"}
      /\ \A d \in Calls \ {c} : pc'[d] = pc[d]
      /\ appUsers \subseteq appUsers'
      /\ pc'[c] = "create" => of[c] \in appUsers' \cup Unnamed
  BY DEF TypeOK, FetchUserinfo, Sync, Mirrored, Goto, guard, counter
<1>2. c \in passed
  BY <1>1 DEF Sound, CallsSound, Trading
<1>3. CallsSound'
  BY <1>1, <1>2 DEF Sound, CallsSound, Trading
<1>4. \A d \in Calls : Trading(d)' => Trading(d)
  BY <1>1 DEF Trading
<1> QED
  BY <1>1, <1>3, <1>4
     DEF Sound, LoginsStarted, CodeTakenOnce, OneSessionPerLogin, SessionSound

\* The call that creates the session of a login is the only one that could.
LEMMA SoundSession ==
  ASSUME TypeOK, Sound, NEW c \in Calls, CreateSession(c)
  PROVE  Sound'
<1>1. /\ UNCHANGED <<states, login, code, of, appUsers, passed>>
      /\ pc[c] = "create" /\ pc'[c] \in {"counter", "error"}
      /\ \A d \in Calls \ {c} : pc'[d] = pc[d]
      /\ sessions' = sessions \/ sessions' = Created(c)
  BY DEF TypeOK, CreateSession, Goto, guard, counter
<1>2. /\ Trading(c) /\ of[c] \in Logins \ states /\ code[of[c]] = "used"
      /\ of[c] \in appUsers \cup Unnamed /\ login[of[c]] = "started"
      /\ \A s \in sessions : s.login # of[c]
  BY <1>1 DEF Sound, LoginsStarted, CallsSound, CodeTakenOnce, Trading
<1>3. \A s \in sessions' : s \in sessions \/ (s.login = of[c] /\ s = [login |-> of[c], call |-> c])
  BY <1>1 DEF Created
<1>4. CallsSound'
  BY <1>1, <1>2 DEF Sound, CallsSound, Trading
<1>5. \A d \in Calls : Trading(d)' => Trading(d) /\ d # c
  BY <1>1 DEF Trading
<1>6. CodeTakenOnce'
  BY <1>1, <1>2, <1>3, <1>5 DEF Sound, CodeTakenOnce
<1>7. OneSessionPerLogin'
  BY <1>2, <1>3 DEF Sound, OneSessionPerLogin
<1>8. SessionSound'
  BY <1>1, <1>2, <1>3 DEF Sound, SessionSound
<1> QED
  BY <1>1, <1>4, <1>6, <1>7, <1>8 DEF Sound, LoginsStarted

\* What follows a session or a failure, crashes, expiry: nobody gains anything.
LEMMA SoundEnding ==
  ASSUME TypeOK, Sound,
         \/ \E c \in Calls : \/ ClearCounter(c) \/ ClearBlock(c)
                           \/ CountFailure(c) \/ ExpireCounter(c) \/ SetBlock(c) \/ Crash(c)
         \/ GuardExpires \/ UNCHANGED vars
  PROVE  Sound'
<1>1. UNCHANGED <<states, login, code, of, appUsers, sessions, passed>>
  BY DEF ClearCounter, ClearBlock, CountFailure, ExpireCounter, SetBlock, Crash, GuardExpires,
         vars, guard, counter, callback
<1>2. \A d \in Calls : \/ pc'[d] = pc[d]
                       \/ pc[d] # "idle" /\ pc'[d] \in {"block", "ok", "error", "expire", "setBlock"}
  BY DEF TypeOK, ClearCounter, ClearBlock, CountFailure, ExpireCounter, SetBlock, Judged, Crash,
         GuardExpires, vars, callback, Goto, Ended
<1>3. CallsSound'
  BY <1>1, <1>2 DEF Sound, CallsSound, Trading
<1>4. \A d \in Calls : Trading(d)' => Trading(d)
  BY <1>2 DEF Trading
<1> QED
  BY <1>1, <1>3, <1>4
     DEF Sound, LoginsStarted, CodeTakenOnce, OneSessionPerLogin, SessionSound

\* Every step preserves the inductive invariant.
LEMMA InvStep == IInv /\ [Next]_vars => IInv'
<1> SUFFICES ASSUME TypeOK, Sound, [Next]_vars PROVE TypeOK' /\ Sound'
  BY DEF IInv, Sound
<1>1. TypeOK'
  BY TypeStep
<1>2. Sound'
  BY SoundLogin, SoundCallBack, SoundState, SoundExchange, SoundMirror, SoundSession, SoundEnding
     DEF Next, Serve
<1> QED
  BY <1>1, <1>2

-----------------------------------------------------------------------------
(* The theorems                                                              *)

\* In every reachable state the tokens of a login are with one call at most,
\* and who has them has used up its state.
THEOREM Invariance == Spec => []IInv
<1>1. Init => IInv
  BY TypeInit, SoundInit DEF IInv, Sound
<1> QED
  BY <1>1, InvStep, PTL DEF Spec

\* No interleaving of any number of callbacks, with any faults, gives a login
\* two sessions.
THEOREM LoginGivesOneSession == Spec => []OneSessionPerLogin
  BY Invariance, PTL DEF IInv

\* No session stands for a login that was not started here and authenticated,
\* or whose state or code could still be used; the user it stands for is in
\* app_users, unless the claims of Keycloak name none.
THEOREM SessionsAreSound == Spec => []SessionSound
  BY Invariance, PTL DEF IInv

\* Once a call has passed, no call that looks up the state afterwards finds it.
THEOREM ReplaysFindNothing == Spec => LateReplayFindsNothing
<1> DEFINE Late == \A c \in passed, d \in Calls : of[d] = of[c] /\ found'[d] => found[d]
<1>1. IInv /\ [Next]_vars => [Late]_vars
  <2> SUFFICES ASSUME IInv, Next, NEW c \in passed, NEW d \in Calls,
                      of[d] = of[c], found'[d]
               PROVE  found[d]
    OBVIOUS
  <2>1. of[c] \notin states
    BY DEF IInv, TypeOK, CallsSound
  <2>2. CASE \E e \in Calls : GetState(e)
    <3>1. PICK e \in Calls : GetState(e)
      BY <2>2
    <3>2. e # d
      BY <2>1, <3>1, Zenon DEF GetState, IInv, TypeOK
    <3> QED
      BY <3>1, <3>2, Zenon DEF GetState, IInv, TypeOK
  <2>3. CASE ~ \E e \in Calls : GetState(e)
    <3>1. found' = found
      BY <2>3 DEF Next, Serve, StartLogin, StoreState, Authenticate, StateExpires, CallBack,
                  CallBackWithError, DeleteState, Exchange, FetchUserinfo, Sync, CreateSession,
                  ClearCounter, ClearBlock, CountFailure, ExpireCounter, SetBlock, Crash,
                  GuardExpires, callback
    <3> QED
      BY <3>1
  <2> QED
    BY <2>2, <2>3
<1> QED
  BY <1>1, Invariance, PTL DEF Spec, LateReplayFindsNothing

=============================================================================
