------------------------- MODULE AccountStateProofs -------------------------
(* Theorems about AccountState, for every set of sessions, calls and values  *)
(* of the preferences, and any number of changes and uploads.                *)
EXTENDS AccountState, TLAPS

-----------------------------------------------------------------------------
(* What the helpers do                                                       *)

\* One call moves to another stage of its handler.
LEMMA GotoMoves ==
  ASSUME pc \in [Calls -> Stages], NEW c \in Calls, NEW stage \in Stages, Goto(c, stage)
  PROVE  /\ pc' \in [Calls -> Stages] /\ pc'[c] = stage
         /\ \A d \in Calls \ {c} : pc'[d] = pc[d] /\ (Idle(d)' <=> Idle(d))
         /\ Idle(c)' <=> stage = "idle"
  BY DEF Goto, Idle

\* A session after a SET has what it had or what the call carried.
LEMMA PersistPuts ==
  ASSUME TypeOK, NEW c \in Calls, NEW p \in Payload \cup {NoSession}, MayPersist(c, p)
  PROVE  /\ session' \in [Sessions -> Payload \cup {NoSession}]
         /\ \A s \in Live' : \/ s \in Live /\ session'[s] = session[s]
                             \/ s = sid[c] /\ session'[s] = p
  BY DEF TypeOK, MayPersist, Persist, Live

\* A call that begins finds all others idle, or is noted to overlap.
LEMMA BeginMoves ==
  ASSUME TypeOK, CarriedOK, NEW c \in Calls, NEW s \in Sessions, NEW p \in Payload,
         NEW stage \in Stages \ {"idle"}, Begin(c, s, p, stage)
  PROVE  /\ Idle(c)
         /\ pc' \in [Calls -> Stages] /\ pc'[c] = stage
         /\ \A d \in Calls \ {c} : pc'[d] = pc[d] /\ (Idle(d)' <=> Idle(d))
         /\ sid' \in [Calls -> Sessions] /\ sid'[c] = s
         /\ \A d \in Calls \ {c} : sid'[d] = sid[d]
         /\ copy' \in [Calls -> Payload \cup {NoSession}] /\ copy'[c] = p
         /\ \A d \in Calls \ {c} : copy'[d] = copy[d]
         /\ overlapped' \in BOOLEAN
         /\ ~overlapped' => ~overlapped /\ \A d \in Calls \ {c} : Idle(d)
<1>1. Goto(c, stage) /\ Idle(c)
  BY DEF Begin
<1>2. /\ pc' \in [Calls -> Stages] /\ pc'[c] = stage
      /\ \A d \in Calls \ {c} : pc'[d] = pc[d] /\ (Idle(d)' <=> Idle(d))
  BY <1>1, GotoMoves DEF TypeOK
<1>3. /\ sid' \in [Calls -> Sessions] /\ sid'[c] = s
      /\ \A d \in Calls \ {c} : sid'[d] = sid[d]
      /\ copy' \in [Calls -> Payload \cup {NoSession}] /\ copy'[c] = p
      /\ \A d \in Calls \ {c} : copy'[d] = copy[d]
  BY DEF Begin, TypeOK, CarriedOK
<1>4. overlapped' = (overlapped \/ \E d \in Calls \ {c} : ~Idle(d))
  BY DEF Begin
<1>5. /\ overlapped' \in BOOLEAN
      /\ ~overlapped' => ~overlapped /\ \A d \in Calls \ {c} : Idle(d)
  BY <1>4, Zenon
<1> QED
  BY <1>1, <1>2, <1>3, <1>5

\* A step of a handler that does not begin a call starts no overlap.
LEMMA StillOneAtATime ==
  ASSUME OneAtATime, overlapped' = overlapped, \A d \in Calls : Idle(d) => Idle(d)'
  PROVE  OneAtATime'
  BY DEF OneAtATime

-----------------------------------------------------------------------------
(* One lemma per action: it preserves the invariant                          *)

\* A login takes the preferences from Keycloak, or the default.
LEMMA StepBeginLogin ==
  ASSUME IInv, NEW c \in Calls, BeginLogin(c)
  PROVE  IInv'
<1>1. TypeOK /\ NothingAheadOfItsSource /\ CarriedOK /\ OneAtATime /\ OneByOne
  BY DEF IInv
<1>2. PICK s \in Sessions \ issued :
        /\ Begin(c, s, [prefs |-> next'[c], picture |-> 0], "mirrorLogin")
        /\ issued' = issued \cup {s}
  BY DEF BeginLogin
<1>3. /\ keycloak' = keycloak /\ appUser' = appUser /\ picture' = picture /\ session' = session
      /\ accepted' = accepted /\ loggedOut' = loggedOut /\ latest' = latest /\ updates' = updates
  BY DEF BeginLogin, stores
<1>4. /\ next' \in [Calls -> Prefs] /\ next'[c] \in Seen
      /\ \A d \in Calls \ {c} : next'[d] = next[d]
  BY <1>1, PrefsAssumption DEF BeginLogin, TypeOK, CarriedOK, Seen
<1>5. failed' \in BOOLEAN /\ (~failed' => ~failed /\ next'[c] = keycloak)
  <2>1. \/ next' = [next EXCEPT ![c] = keycloak] /\ failed' = failed
        \/ failed' = TRUE
    BY DEF BeginLogin
  <2>2. failed \in BOOLEAN /\ next \in [Calls -> Prefs]
    BY <1>1 DEF TypeOK
  <2> QED
    BY <2>1, <2>2
<1> DEFINE p == [prefs |-> next'[c], picture |-> 0]
<1>6. p \in Payload
  BY <1>4, AccountBounds DEF Payload
<1>7. /\ Idle(c)
      /\ pc' \in [Calls -> Stages] /\ pc'[c] = "mirrorLogin"
      /\ \A d \in Calls \ {c} : pc'[d] = pc[d] /\ (Idle(d)' <=> Idle(d))
      /\ sid' \in [Calls -> Sessions] /\ sid'[c] = s
      /\ \A d \in Calls \ {c} : sid'[d] = sid[d]
      /\ copy' \in [Calls -> Payload \cup {NoSession}] /\ copy'[c] = p
      /\ \A d \in Calls \ {c} : copy'[d] = copy[d]
      /\ overlapped' \in BOOLEAN
      /\ ~overlapped' => ~overlapped /\ \A d \in Calls \ {c} : Idle(d)
  BY <1>1, <1>2, <1>6, BeginMoves DEF Stages
<1>8. TypeOK'
  BY <1>1, <1>2, <1>3, <1>4, <1>5, <1>6, <1>7 DEF TypeOK
<1>9. NothingAheadOfItsSource'
  BY <1>1, <1>3 DEF NothingAheadOfItsSource, Live
<1>10. CarriedOK'
  <2>1. p.prefs \in Seen' /\ p.picture <= picture'
    BY <1>1, <1>3, <1>4 DEF Seen, TypeOK
  <2> QED
    BY <1>1, <1>2, <1>3, <1>4, <1>7, <2>1 DEF CarriedOK, Live, Seen, Idle
<1>11. OneAtATime'
  BY <1>1, <1>7 DEF OneAtATime
<1>12. OneByOne'
  <2> SUFFICES ASSUME ~overlapped', ~failed' PROVE OneByOne'
    BY DEF OneByOne
  <2>1. \A d \in Calls \ {c} : pc'[d] = "idle"
    BY <1>7 DEF Idle
  <2>2. InStep(c)' /\ \A d \in Calls \ {c} : InStep(d)'
    BY <1>3, <1>5, <1>7, <2>1 DEF InStep
  <2> QED
    BY <1>1, <1>3, <1>5, <1>7, <2>1, <2>2 DEF OneByOne, Changing, Idle, LatestAgrees, Live
<1> QED
  BY <1>8, <1>9, <1>10, <1>11, <1>12 DEF IInv

\* A call of a session that is alive begins with the payload of that session.
LEMMA StepBeginOther ==
  ASSUME IInv, NEW c \in Calls, BeginUpdate(c) \/ BeginUpload(c) \/ BeginLogout(c)
  PROVE  IInv'
<1>1. TypeOK /\ NothingAheadOfItsSource /\ CarriedOK /\ OneAtATime /\ OneByOne
  BY DEF IInv
<1>2. PICK s \in Live, stage \in {"write", "store", "end"} :
        Begin(c, s, session[s], stage)
  BY DEF BeginUpdate, BeginUpload, BeginLogout, Live
<1>3. /\ keycloak' = keycloak /\ appUser' = appUser /\ picture' = picture /\ session' = session
      /\ accepted' = accepted /\ issued' = issued /\ loggedOut' = loggedOut
      /\ latest' = latest /\ failed' = failed
  BY DEF BeginUpdate, BeginUpload, BeginLogout, stores, marks
<1>4. /\ next' \in [Calls -> Prefs] /\ updates' \in 0..MaxUpdates
      /\ \A d \in Calls \ {c} : next'[d] = next[d]
  BY <1>1, AccountBounds DEF BeginUpdate, BeginUpload, BeginLogout, TypeOK
<1>5. /\ s \in Sessions /\ s \in issued /\ session[s] \in Payload
      /\ session[s].prefs \in Seen /\ session[s].picture <= picture
  BY <1>1 DEF Live, TypeOK, CarriedOK, NothingAheadOfItsSource, Seen
<1>6. /\ Idle(c)
      /\ pc' \in [Calls -> Stages] /\ pc'[c] = stage
      /\ \A d \in Calls \ {c} : pc'[d] = pc[d] /\ (Idle(d)' <=> Idle(d))
      /\ sid' \in [Calls -> Sessions] /\ sid'[c] = s
      /\ \A d \in Calls \ {c} : sid'[d] = sid[d]
      /\ copy' \in [Calls -> Payload \cup {NoSession}] /\ copy'[c] = session[s]
      /\ \A d \in Calls \ {c} : copy'[d] = copy[d]
      /\ overlapped' \in BOOLEAN
      /\ ~overlapped' => ~overlapped /\ \A d \in Calls \ {c} : Idle(d)
  BY <1>1, <1>2, <1>5, BeginMoves DEF Stages
<1>7. TypeOK'
  BY <1>1, <1>3, <1>4, <1>5, <1>6 DEF TypeOK
<1>8. NothingAheadOfItsSource'
  BY <1>1, <1>3 DEF NothingAheadOfItsSource, Live
<1>9. CarriedOK'
  BY <1>1, <1>3, <1>4, <1>5, <1>6 DEF CarriedOK, Live, Seen, Idle
<1>10. OneAtATime'
  BY <1>1, <1>6 DEF OneAtATime
<1>11. OneByOne'
  <2> SUFFICES ASSUME ~overlapped', ~failed' PROVE OneByOne'
    BY DEF OneByOne
  <2>1. \A d \in Calls \ {c} : pc'[d] = "idle" /\ pc[d] = "idle"
    BY <1>6 DEF Idle
  <2>2. /\ appUser # NoRow /\ LatestAgrees
        /\ appUser = keycloak
    BY <1>1, <1>3, <1>6, <2>1 DEF OneByOne, Changing, Idle
  <2>3. s = latest => session[s].prefs = keycloak
    BY <2>2 DEF LatestAgrees
  <2>4. InStep(c)' /\ \A d \in Calls \ {c} : InStep(d)'
    BY <1>2, <1>3, <1>6, <2>1, <2>2, <2>3 DEF InStep
  <2> QED
    BY <1>3, <2>2, <2>4 DEF OneByOne, LatestAgrees, Live
<1> QED
  BY <1>7, <1>8, <1>9, <1>10, <1>11 DEF IInv

\* The row takes the preferences of the login, or the login ends.
LEMMA StepMirrorLogin ==
  ASSUME IInv, NEW c \in Calls, MirrorLogin(c)
  PROVE  IInv'
<1>1. TypeOK /\ NothingAheadOfItsSource /\ CarriedOK /\ OneAtATime /\ OneByOne
  BY DEF IInv
<1>2. /\ pc[c] = "mirrorLogin"
      /\ keycloak' = keycloak /\ picture' = picture /\ session' = session
      /\ sid' = sid /\ next' = next /\ accepted' = accepted /\ issued' = issued
      /\ loggedOut' = loggedOut /\ latest' = latest /\ overlapped' = overlapped
      /\ updates' = updates
  BY DEF MirrorLogin, marks
<1>3. \/ appUser' = next[c] /\ Goto(c, "open") /\ failed' = failed
      \/ appUser' \in {appUser, next[c]} /\ Goto(c, "idle") /\ failed' = TRUE
  BY DEF MirrorLogin, Fail
<1>4. /\ copy[c] \in Payload
      /\ copy' \in [Calls -> Payload \cup {NoSession}]
      /\ copy'[c] = [copy[c] EXCEPT !.picture = picture]
      /\ \A d \in Calls \ {c} : copy'[d] = copy[d]
  BY <1>1, <1>2 DEF MirrorLogin, TypeOK, CarriedOK, Payload, Idle
<1>5. copy'[c] \in Payload /\ copy'[c].prefs = copy[c].prefs /\ copy'[c].picture = picture
  BY <1>1, <1>4 DEF Payload, TypeOK
<1>6. /\ pc' \in [Calls -> Stages] /\ pc'[c] \in {"open", "idle"}
      /\ \A d \in Calls \ {c} : pc'[d] = pc[d] /\ (Idle(d)' <=> Idle(d))
  BY <1>1, <1>3, GotoMoves DEF TypeOK, Stages
<1>7. failed' \in BOOLEAN /\ next[c] \in Prefs /\ next[c] \in Seen
  BY <1>1, <1>2, <1>3 DEF TypeOK, CarriedOK, Idle
<1>8. TypeOK'
  BY <1>1, <1>2, <1>3, <1>5, <1>4, <1>6, <1>7 DEF TypeOK
<1>9. NothingAheadOfItsSource'
  BY <1>1, <1>2, <1>3, <1>7 DEF NothingAheadOfItsSource, Live, Seen
<1>10. CarriedOK'
  <2>1. picture \in Nat /\ ~Idle(c)
    BY <1>1, <1>2, AccountBounds DEF TypeOK, Idle
  <2>2. Live' = Live /\ Seen' = Seen
    BY <1>2 DEF Live, Seen
  <2>3. sid[c] \in issued /\ copy'[c].prefs \in Seen /\ copy'[c].picture <= picture
    BY <1>1, <1>5, <2>1 DEF CarriedOK
  <2> QED
    BY <1>1, <1>2, <1>4, <1>6, <1>7, <2>2, <2>3 DEF CarriedOK, Idle
<1>11. OneAtATime'
  BY <1>1, <1>2, <1>6, StillOneAtATime DEF Idle
<1>12. OneByOne'
  <2> SUFFICES ASSUME ~overlapped', ~failed' PROVE OneByOne'
    BY DEF OneByOne
  <2>1. \A d \in Calls \ {c} : pc'[d] = "idle" /\ pc[d] = "idle"
    BY <1>1, <1>2, <1>6 DEF OneAtATime, Idle
  <2>2. ~failed /\ pc'[c] = "open" /\ appUser' = next[c]
    <3>1. Goto(c, "open") /\ appUser' = next[c] /\ failed' = failed
      BY <1>3
    <3>2. ~failed
      BY <3>1, Zenon
    <3> QED
      BY <1>1, <3>1, <3>2, GotoMoves DEF TypeOK, Stages
  <2>3. next[c] = keycloak /\ copy[c].prefs = keycloak /\ keycloak # NoRow
    BY <1>1, <1>2, <2>2, PrefsAssumption DEF OneByOne, InStep, TypeOK
  <2>4. LatestAgrees
    BY <1>1, <1>2, <2>1, <2>2 DEF OneByOne, Changing, LatestAgrees
  <2>5. InStep(c)' /\ \A d \in Calls \ {c} : InStep(d)'
    BY <1>2, <1>5, <2>1, <2>2, <2>3 DEF InStep
  <2> QED
    BY <1>2, <2>2, <2>3, <2>4, <2>5 DEF OneByOne, LatestAgrees, Live
<1> QED
  BY <1>8, <1>9, <1>10, <1>11, <1>12 DEF IInv

\* The session of the login appears, with what Keycloak said.
LEMMA StepOpenSession ==
  ASSUME IInv, NEW c \in Calls, OpenSession(c)
  PROVE  IInv'
<1>1. TypeOK /\ NothingAheadOfItsSource /\ CarriedOK /\ OneAtATime /\ OneByOne
  BY DEF IInv
<1>2. /\ pc[c] = "open" /\ latest' = sid[c]
      /\ keycloak' = keycloak /\ appUser' = appUser /\ picture' = picture /\ sid' = sid
      /\ copy' = copy /\ next' = next /\ accepted' = accepted /\ issued' = issued
      /\ loggedOut' = loggedOut /\ overlapped' = overlapped /\ updates' = updates
  BY DEF OpenSession
<1>3. /\ MayPersist(c, copy[c]) /\ Goto(c, "idle")
      /\ (Persist(c, copy[c]) /\ failed' = failed) \/ failed' = TRUE
  BY DEF OpenSession, Fail, MayPersist
<1>4. /\ copy[c] \in Payload /\ sid[c] \in issued
      /\ copy[c].prefs \in Seen /\ copy[c].picture <= picture
  BY <1>1, <1>2 DEF TypeOK, CarriedOK, Idle
<1>5. /\ session' \in [Sessions -> Payload \cup {NoSession}]
      /\ \A s \in Live' : \/ s \in Live /\ session'[s] = session[s]
                          \/ s = sid[c] /\ session'[s] = copy[c]
  BY <1>1, <1>3, <1>4, PersistPuts
<1>6. /\ pc' \in [Calls -> Stages] /\ pc'[c] = "idle"
      /\ \A d \in Calls \ {c} : pc'[d] = pc[d] /\ (Idle(d)' <=> Idle(d))
  BY <1>1, <1>3, GotoMoves DEF TypeOK, Stages
<1>7. failed' \in BOOLEAN
  BY <1>1, <1>3 DEF TypeOK
<1>8. TypeOK'
  BY <1>1, <1>2, <1>5, <1>6, <1>7 DEF TypeOK, Idle
<1>9. NothingAheadOfItsSource'
  BY <1>1, <1>2, <1>4, <1>5 DEF NothingAheadOfItsSource, Seen
<1>10. CarriedOK'
  BY <1>1, <1>2, <1>4, <1>5, <1>6 DEF CarriedOK, Seen, Idle
<1>11. OneAtATime'
  BY <1>1, <1>2, <1>6, StillOneAtATime DEF Idle
<1>12. OneByOne'
  <2> SUFFICES ASSUME ~overlapped', ~failed' PROVE OneByOne'
    BY DEF OneByOne
  <2>1. \A d \in Calls \ {c} : pc'[d] = "idle" /\ pc[d] = "idle"
    BY <1>1, <1>2, <1>6 DEF OneAtATime, Idle
  <2>2. ~failed /\ session'[sid[c]] = copy[c]
    BY <1>1, <1>3 DEF Persist, TypeOK
  <2>3. copy[c].prefs = keycloak /\ appUser # NoRow /\ appUser = keycloak
    BY <1>1, <1>2, <2>1, <2>2 DEF OneByOne, InStep, Changing
  <2>4. LatestAgrees'
    BY <1>2, <2>2, <2>3 DEF LatestAgrees
  <2>5. InStep(c)' /\ \A d \in Calls \ {c} : InStep(d)'
    BY <1>6, <2>1 DEF InStep
  <2> QED
    BY <1>2, <2>3, <2>4, <2>5 DEF OneByOne
<1> QED
  BY <1>8, <1>9, <1>10, <1>11, <1>12 DEF IInv

\* Keycloak takes the change, refuses it, or fails with either outcome.
LEMMA StepWriteKeycloak ==
  ASSUME IInv, NEW c \in Calls, WriteKeycloak(c)
  PROVE  IInv'
<1>1. TypeOK /\ NothingAheadOfItsSource /\ CarriedOK /\ OneAtATime /\ OneByOne
  BY DEF IInv
<1>2. /\ pc[c] \in {"write", "rewrite"}
      /\ appUser' = appUser /\ picture' = picture /\ session' = session /\ sid' = sid
      /\ copy' = copy /\ next' = next /\ issued' = issued /\ loggedOut' = loggedOut
      /\ latest' = latest /\ overlapped' = overlapped /\ updates' = updates
  BY DEF WriteKeycloak
<1>3. \/ Written(c, TRUE) /\ Goto(c, "save") /\ failed' = failed
      \/ Written(c, FALSE) /\ Goto(c, "refresh") /\ failed' = failed
      \/ (Written(c, TRUE) \/ Written(c, FALSE)) /\ Goto(c, "idle") /\ failed' = TRUE
  BY DEF WriteKeycloak, Fail
<1>4. /\ Written(c, TRUE) => keycloak' = next[c] /\ accepted' = accepted \cup {next[c]}
      /\ Written(c, FALSE) => keycloak' = keycloak /\ accepted' = accepted
  BY DEF Written
<1>5. PICK stage \in {"save", "refresh", "idle"} :
        /\ Goto(c, stage)
        /\ stage = "save" => keycloak' = next[c] /\ accepted' = accepted \cup {next[c]}
        /\ stage = "refresh" => keycloak' = keycloak /\ accepted' = accepted
  BY <1>3, <1>4
<1>6. /\ pc' \in [Calls -> Stages] /\ pc'[c] = stage
      /\ \A d \in Calls \ {c} : pc'[d] = pc[d] /\ (Idle(d)' <=> Idle(d))
  BY <1>1, <1>5, GotoMoves DEF TypeOK, Stages
<1>7. /\ failed' \in BOOLEAN /\ keycloak' \in Prefs /\ accepted' \subseteq Prefs
      /\ accepted \subseteq accepted' /\ keycloak' \in accepted'
  <2>1. failed' \in BOOLEAN
    BY <1>1, <1>3 DEF TypeOK
  <2>2. keycloak \in Prefs /\ keycloak \in accepted /\ next[c] \in Prefs /\ accepted \subseteq Prefs
    BY <1>1 DEF TypeOK, CarriedOK
  <2> QED
    BY <1>3, <1>4, <2>1, <2>2
<1>8. Live' = Live /\ Seen \subseteq Seen'
  BY <1>2, <1>7 DEF Live, Seen
<1>9. TypeOK'
  BY <1>1, <1>2, <1>6, <1>7 DEF TypeOK, Idle
<1>10. NothingAheadOfItsSource'
  BY <1>1, <1>2, <1>7, <1>8 DEF NothingAheadOfItsSource
<1>11. CarriedOK'
  <2>1. stage = "save" => next[c] \in Seen'
    BY <1>5 DEF Seen
  <2> QED
    BY <1>1, <1>2, <1>6, <1>7, <1>8, <2>1 DEF CarriedOK, Idle
<1>12. OneAtATime'
  BY <1>1, <1>2, <1>6, StillOneAtATime DEF Idle
<1>13. OneByOne'
  <2> SUFFICES ASSUME ~overlapped', ~failed' PROVE OneByOne'
    BY DEF OneByOne
  <2>1. \A d \in Calls \ {c} : pc'[d] = "idle" /\ pc[d] = "idle"
    BY <1>1, <1>2, <1>6 DEF OneAtATime, Idle
  <2>2. /\ failed' = failed
        /\ \/ pc'[c] = "save" /\ keycloak' = next[c]
           \/ pc'[c] = "refresh" /\ keycloak' = keycloak
    BY <1>1, <1>3, <1>4, GotoMoves DEF TypeOK, Stages
  <2>3. ~failed
    BY <2>2, Zenon
  <2>4. appUser # NoRow /\ appUser = keycloak /\ LatestAgrees
    BY <1>1, <1>2, <2>1, <2>3 DEF OneByOne, InStep, Changing
  <2>5. InStep(c)' /\ \A d \in Calls \ {c} : InStep(d)'
    BY <1>2, <2>1, <2>2, <2>4 DEF InStep
  <2> QED
    BY <1>2, <1>8, <2>2, <2>4, <2>5 DEF OneByOne, Changing, LatestAgrees
<1> QED
  BY <1>9, <1>10, <1>11, <1>12, <1>13 DEF IInv

\* The new preferences go into the session together with the rest of the
\* payload that the call read at its start.
LEMMA StepSavePreferences ==
  ASSUME IInv, NEW c \in Calls, SavePreferences(c)
  PROVE  IInv'
<1>1. TypeOK /\ NothingAheadOfItsSource /\ CarriedOK /\ OneAtATime /\ OneByOne
  BY DEF IInv
<1>2. /\ pc[c] = "save" /\ latest' = sid[c]
      /\ keycloak' = keycloak /\ appUser' = appUser /\ picture' = picture /\ sid' = sid
      /\ next' = next /\ accepted' = accepted /\ issued' = issued
      /\ loggedOut' = loggedOut /\ overlapped' = overlapped /\ updates' = updates
  BY DEF SavePreferences
<1>3. \/ Persist(c, copy'[c]) /\ Goto(c, "mirror") /\ failed' = failed
      \/ MayPersist(c, copy'[c]) /\ Goto(c, "idle") /\ failed' = TRUE
  BY DEF SavePreferences, Fail
<1>4. /\ copy[c] \in Payload /\ sid[c] \in issued /\ next[c] \in Seen /\ next[c] \in Prefs
      /\ copy[c].picture <= picture
  BY <1>1, <1>2 DEF TypeOK, CarriedOK, Idle
<1>5. /\ copy' \in [Calls -> Payload \cup {NoSession}]
      /\ copy'[c] = [copy[c] EXCEPT !.prefs = next[c]]
      /\ \A d \in Calls \ {c} : copy'[d] = copy[d]
  BY <1>1, <1>4 DEF SavePreferences, CarriedOK, Payload
<1>6. copy'[c] \in Payload /\ copy'[c].prefs = next[c] /\ copy'[c].picture = copy[c].picture
  BY <1>4, <1>5 DEF Payload
<1>7. /\ session' \in [Sessions -> Payload \cup {NoSession}]
      /\ \A s \in Live' : \/ s \in Live /\ session'[s] = session[s]
                          \/ s = sid[c] /\ session'[s] = copy'[c]
  BY <1>1, <1>3, <1>6, PersistPuts DEF MayPersist
<1>8. /\ pc' \in [Calls -> Stages] /\ pc'[c] \in {"mirror", "idle"}
      /\ \A d \in Calls \ {c} : pc'[d] = pc[d] /\ (Idle(d)' <=> Idle(d))
  BY <1>1, <1>3, GotoMoves DEF TypeOK, Stages
<1>9. failed' \in BOOLEAN
  BY <1>1, <1>3 DEF TypeOK
<1>10. TypeOK'
  BY <1>1, <1>2, <1>5, <1>6, <1>7, <1>8, <1>9 DEF TypeOK, Idle
<1>11. NothingAheadOfItsSource'
  BY <1>1, <1>2, <1>4, <1>6, <1>7 DEF NothingAheadOfItsSource, Seen
<1>12. CarriedOK'
  BY <1>1, <1>2, <1>4, <1>5, <1>6, <1>7, <1>8 DEF CarriedOK, Seen, Idle
<1>13. OneAtATime'
  BY <1>1, <1>2, <1>8, StillOneAtATime DEF Idle
<1>14. OneByOne'
  <2> SUFFICES ASSUME ~overlapped', ~failed' PROVE OneByOne'
    BY DEF OneByOne
  <2>1. \A d \in Calls \ {c} : pc'[d] = "idle" /\ pc[d] = "idle"
    BY <1>1, <1>2, <1>8 DEF OneAtATime, Idle
  <2>2. Persist(c, copy'[c]) /\ Goto(c, "mirror") /\ failed' = failed
    BY <1>3
  <2>3. ~failed
    BY <2>2, Zenon
  <2>4. pc'[c] = "mirror" /\ session'[sid[c]] = copy'[c]
    BY <1>1, <2>2, GotoMoves DEF Persist, TypeOK, Stages
  <2>5. next[c] = keycloak /\ appUser # NoRow
    BY <1>1, <1>2, <2>3 DEF OneByOne, InStep
  <2>6. LatestAgrees'
    BY <1>2, <1>6, <2>4, <2>5 DEF LatestAgrees
  <2>7. InStep(c)' /\ \A d \in Calls \ {c} : InStep(d)'
    BY <1>2, <2>1, <2>4, <2>5, <2>6 DEF InStep
  <2> QED
    BY <1>2, <2>4, <2>5, <2>7 DEF OneByOne, Changing
<1> QED
  BY <1>10, <1>11, <1>12, <1>13, <1>14 DEF IInv

\* The row catches up.
LEMMA StepMirrorPreferences ==
  ASSUME IInv, NEW c \in Calls, MirrorPreferences(c)
  PROVE  IInv'
<1>1. TypeOK /\ NothingAheadOfItsSource /\ CarriedOK /\ OneAtATime /\ OneByOne
  BY DEF IInv
<1>2. /\ pc[c] = "mirror"
      /\ keycloak' = keycloak /\ picture' = picture /\ session' = session
      /\ sid' = sid /\ copy' = copy /\ next' = next /\ accepted' = accepted
      /\ issued' = issued /\ loggedOut' = loggedOut /\ latest' = latest
      /\ overlapped' = overlapped /\ updates' = updates
  BY DEF MirrorPreferences, marks
<1>3. /\ Goto(c, "idle")
      /\ \/ appUser' = next[c] /\ failed' = failed
         \/ appUser' \in {appUser, next[c]} /\ failed' = TRUE
  BY DEF MirrorPreferences, Fail
<1>4. /\ pc' \in [Calls -> Stages] /\ pc'[c] = "idle"
      /\ \A d \in Calls \ {c} : pc'[d] = pc[d] /\ (Idle(d)' <=> Idle(d))
  BY <1>1, <1>3, GotoMoves DEF TypeOK, Stages
<1>5. failed' \in BOOLEAN /\ next[c] \in Prefs /\ next[c] \in Seen
  BY <1>1, <1>2, <1>3 DEF TypeOK, CarriedOK, Idle
<1>6. Live' = Live /\ Seen' = Seen
  BY <1>2 DEF Live, Seen
<1>7. TypeOK'
  BY <1>1, <1>2, <1>3, <1>4, <1>5 DEF TypeOK, Idle
<1>8. NothingAheadOfItsSource'
  BY <1>1, <1>2, <1>3, <1>5, <1>6 DEF NothingAheadOfItsSource, Seen
<1>9. CarriedOK'
  BY <1>1, <1>2, <1>4, <1>6 DEF CarriedOK, Idle
<1>10. OneAtATime'
  BY <1>1, <1>2, <1>4, StillOneAtATime DEF Idle
<1>11. OneByOne'
  <2> SUFFICES ASSUME ~overlapped', ~failed' PROVE OneByOne'
    BY DEF OneByOne
  <2>1. \A d \in Calls \ {c} : pc'[d] = "idle" /\ pc[d] = "idle"
    BY <1>1, <1>2, <1>4 DEF OneAtATime, Idle
  <2>2. appUser' = next[c] /\ failed' = failed
    BY <1>3
  <2>3. ~failed
    BY <2>2, Zenon
  <2>4. next[c] = keycloak /\ LatestAgrees /\ keycloak # NoRow
    BY <1>1, <1>2, <2>3, PrefsAssumption DEF OneByOne, InStep, TypeOK
  <2>5. InStep(c)' /\ \A d \in Calls \ {c} : InStep(d)'
    BY <1>4, <2>1 DEF InStep
  <2> QED
    BY <1>2, <1>6, <2>2, <2>4, <2>5 DEF OneByOne, LatestAgrees
<1> QED
  BY <1>7, <1>8, <1>9, <1>10, <1>11 DEF IInv

\* A refreshed token leads to a second attempt, a refused body to nothing.
LEMMA StepGoOn ==
  ASSUME IInv, NEW c \in Calls, RefreshTokens(c) \/ RefusePicture(c)
  PROVE  IInv'
<1>1. TypeOK /\ NothingAheadOfItsSource /\ CarriedOK /\ OneAtATime /\ OneByOne
  BY DEF IInv
<1>2. /\ pc[c] \in {"refresh", "store"}
      /\ keycloak' = keycloak /\ appUser' = appUser /\ picture' = picture /\ session' = session
      /\ sid' = sid /\ copy' = copy /\ next' = next /\ accepted' = accepted
      /\ issued' = issued /\ loggedOut' = loggedOut /\ latest' = latest
      /\ overlapped' = overlapped /\ updates' = updates
  BY DEF RefreshTokens, RefusePicture, stores, marks, history
<1>3. \/ pc[c] = "refresh" /\ Goto(c, "rewrite") /\ failed' = failed
      \/ Goto(c, "idle") /\ (failed' = failed \/ failed' = TRUE)
  BY DEF RefreshTokens, RefusePicture, Fail, history
<1>4. /\ pc' \in [Calls -> Stages]
      /\ pc'[c] = "idle" \/ (pc[c] = "refresh" /\ pc'[c] = "rewrite")
      /\ \A d \in Calls \ {c} : pc'[d] = pc[d] /\ (Idle(d)' <=> Idle(d))
  BY <1>1, <1>3, GotoMoves DEF TypeOK, Stages
<1>5. failed' \in BOOLEAN /\ (failed' = failed \/ failed' = TRUE)
  BY <1>1, <1>3 DEF TypeOK
<1>6. Live' = Live /\ Seen' = Seen
  BY <1>2 DEF Live, Seen
<1>7. TypeOK'
  BY <1>1, <1>2, <1>4, <1>5 DEF TypeOK, Idle
<1>8. NothingAheadOfItsSource'
  BY <1>1, <1>2, <1>6 DEF NothingAheadOfItsSource
<1>9. CarriedOK'
  BY <1>1, <1>2, <1>4, <1>6 DEF CarriedOK, Idle
<1>10. OneAtATime'
  BY <1>1, <1>2, <1>4, StillOneAtATime DEF Idle
<1>11. OneByOne'
  <2> SUFFICES ASSUME ~overlapped', ~failed' PROVE OneByOne'
    BY DEF OneByOne
  <2>1. \A d \in Calls \ {c} : pc'[d] = "idle" /\ pc[d] = "idle"
    BY <1>1, <1>2, <1>4 DEF OneAtATime, Idle
  <2>2. ~failed
    BY <1>5, Zenon
  <2>3. appUser # NoRow /\ appUser = keycloak /\ LatestAgrees
    BY <1>1, <1>2, <2>1, <2>2 DEF OneByOne, InStep, Changing
  <2>4. InStep(c)' /\ \A d \in Calls \ {c} : InStep(d)'
    BY <1>2, <1>4, <2>1, <2>3 DEF InStep
  <2> QED
    BY <1>2, <1>6, <2>3, <2>4 DEF OneByOne, LatestAgrees
<1> QED
  BY <1>7, <1>8, <1>9, <1>10, <1>11 DEF IInv

\* The file comes before its version is known to any session.
LEMMA StepStorePicture ==
  ASSUME IInv, NEW c \in Calls, StorePicture(c)
  PROVE  IInv'
<1>1. TypeOK /\ NothingAheadOfItsSource /\ CarriedOK /\ OneAtATime /\ OneByOne
  BY DEF IInv
<1>2. /\ pc[c] = "store" /\ picture < MaxUploads /\ picture' = picture + 1
      /\ Goto(c, "attach")
      /\ keycloak' = keycloak /\ appUser' = appUser /\ session' = session
      /\ sid' = sid /\ next' = next /\ accepted' = accepted /\ failed' = failed
      /\ issued' = issued /\ loggedOut' = loggedOut /\ latest' = latest
      /\ overlapped' = overlapped /\ updates' = updates
  BY DEF StorePicture, history
<1>3. picture' \in 0..MaxUploads /\ picture \in 0..MaxUploads
  BY <1>1, <1>2, AccountBounds DEF TypeOK
<1>4. /\ copy[c] \in Payload
      /\ copy' \in [Calls -> Payload \cup {NoSession}]
      /\ copy'[c] = [copy[c] EXCEPT !.picture = picture']
      /\ \A d \in Calls \ {c} : copy'[d] = copy[d]
  BY <1>1, <1>2, <1>3 DEF StorePicture, TypeOK, CarriedOK, Payload, Idle
<1>5. copy'[c] \in Payload /\ copy'[c].prefs = copy[c].prefs /\ copy'[c].picture = picture'
  BY <1>3, <1>4 DEF Payload
<1>6. /\ pc' \in [Calls -> Stages] /\ pc'[c] = "attach"
      /\ \A d \in Calls \ {c} : pc'[d] = pc[d] /\ (Idle(d)' <=> Idle(d))
  BY <1>1, <1>2, GotoMoves DEF TypeOK, Stages
<1>7. Live' = Live /\ Seen' = Seen
  BY <1>2 DEF Live, Seen
<1>8. TypeOK'
  BY <1>1, <1>2, <1>3, <1>4, <1>5, <1>6 DEF TypeOK, Idle
<1>9. \A p \in Payload : p.picture <= picture => p.picture <= picture'
  BY <1>2, <1>3, AccountBounds DEF Payload
<1>10. NothingAheadOfItsSource'
  <2>1. \A s \in Live : session[s] \in Payload
    BY <1>1 DEF TypeOK, Live
  <2> QED
    BY <1>1, <1>2, <1>7, <1>9, <2>1 DEF NothingAheadOfItsSource
<1>11. CarriedOK'
  <2>1. \A d \in Calls : ~Idle(d) => copy[d] \in Payload
    BY <1>1 DEF TypeOK
  <2>2. /\ copy'[c].prefs \in Seen /\ copy'[c].picture <= picture' /\ sid[c] \in issued
    BY <1>1, <1>2, <1>3, <1>5 DEF CarriedOK, Idle
  <2> QED
    BY <1>1, <1>2, <1>4, <1>6, <1>7, <1>9, <2>1, <2>2 DEF CarriedOK, Idle
<1>12. OneAtATime'
  BY <1>1, <1>2, <1>6, StillOneAtATime DEF Idle
<1>13. OneByOne'
  <2> SUFFICES ASSUME ~overlapped', ~failed' PROVE OneByOne'
    BY DEF OneByOne
  <2>1. \A d \in Calls \ {c} : pc'[d] = "idle" /\ pc[d] = "idle"
    BY <1>1, <1>2, <1>6 DEF OneAtATime, Idle
  <2>2. ~failed
    BY <1>2, Zenon
  <2>3. /\ appUser # NoRow /\ appUser = keycloak /\ LatestAgrees
        /\ sid[c] = latest => copy[c].prefs = keycloak
    BY <1>1, <1>2, <2>1, <2>2 DEF OneByOne, InStep, Changing
  <2>4. InStep(c)' /\ \A d \in Calls \ {c} : InStep(d)'
    BY <1>2, <1>5, <1>6, <2>1, <2>3 DEF InStep
  <2> QED
    BY <1>2, <1>7, <2>3, <2>4 DEF OneByOne, LatestAgrees
<1> QED
  BY <1>8, <1>10, <1>11, <1>12, <1>13 DEF IInv

\* The payload that goes back shows the new picture and, where calls come one
\* by one, the preferences it already had.
LEMMA StepAttachPicture ==
  ASSUME IInv, NEW c \in Calls, AttachPicture(c)
  PROVE  IInv'
<1>1. TypeOK /\ NothingAheadOfItsSource /\ CarriedOK /\ OneAtATime /\ OneByOne
  BY DEF IInv
<1>2. /\ pc[c] = "attach"
      /\ keycloak' = keycloak /\ appUser' = appUser /\ picture' = picture /\ sid' = sid
      /\ copy' = copy /\ next' = next /\ accepted' = accepted /\ issued' = issued
      /\ loggedOut' = loggedOut /\ latest' = latest /\ overlapped' = overlapped
      /\ updates' = updates
  BY DEF AttachPicture, marks
<1>3. /\ MayPersist(c, copy[c]) /\ Goto(c, "idle")
      /\ failed' = failed \/ failed' = TRUE
  BY DEF AttachPicture, Fail, MayPersist
<1>4. /\ copy[c] \in Payload /\ sid[c] \in issued
      /\ copy[c].prefs \in Seen /\ copy[c].picture <= picture
  BY <1>1, <1>2 DEF TypeOK, CarriedOK, Idle
<1>5. /\ session' \in [Sessions -> Payload \cup {NoSession}]
      /\ \A s \in Live' : \/ s \in Live /\ session'[s] = session[s]
                          \/ s = sid[c] /\ session'[s] = copy[c]
  BY <1>1, <1>3, <1>4, PersistPuts
<1>6. /\ pc' \in [Calls -> Stages] /\ pc'[c] = "idle"
      /\ \A d \in Calls \ {c} : pc'[d] = pc[d] /\ (Idle(d)' <=> Idle(d))
  BY <1>1, <1>3, GotoMoves DEF TypeOK, Stages
<1>7. failed' \in BOOLEAN
  BY <1>1, <1>3 DEF TypeOK
<1>8. TypeOK'
  BY <1>1, <1>2, <1>5, <1>6, <1>7 DEF TypeOK, Idle
<1>9. NothingAheadOfItsSource'
  BY <1>1, <1>2, <1>4, <1>5 DEF NothingAheadOfItsSource, Seen
<1>10. CarriedOK'
  BY <1>1, <1>2, <1>4, <1>5, <1>6 DEF CarriedOK, Seen, Idle
<1>11. OneAtATime'
  BY <1>1, <1>2, <1>6, StillOneAtATime DEF Idle
<1>12. OneByOne'
  <2> SUFFICES ASSUME ~overlapped', ~failed' PROVE OneByOne'
    BY DEF OneByOne
  <2>1. \A d \in Calls \ {c} : pc'[d] = "idle" /\ pc[d] = "idle"
    BY <1>1, <1>2, <1>6 DEF OneAtATime, Idle
  <2>2. ~failed
    BY <1>3, Zenon
  <2>3. /\ appUser # NoRow /\ appUser = keycloak /\ LatestAgrees
        /\ sid[c] = latest => copy[c].prefs = keycloak
    BY <1>1, <1>2, <2>1, <2>2 DEF OneByOne, InStep, Changing
  <2>4. LatestAgrees'
    BY <1>2, <1>5, <2>3 DEF LatestAgrees
  <2>5. InStep(c)' /\ \A d \in Calls \ {c} : InStep(d)'
    BY <1>6, <2>1 DEF InStep
  <2> QED
    BY <1>2, <2>3, <2>4, <2>5 DEF OneByOne
<1> QED
  BY <1>8, <1>9, <1>10, <1>11, <1>12 DEF IInv

\* A logout removes the session of its call.
LEMMA StepEndSession ==
  ASSUME IInv, NEW c \in Calls, EndSession(c)
  PROVE  IInv'
<1>1. TypeOK /\ NothingAheadOfItsSource /\ CarriedOK /\ OneAtATime /\ OneByOne
  BY DEF IInv
<1>2. /\ pc[c] = "end"
      /\ keycloak' = keycloak /\ appUser' = appUser /\ picture' = picture /\ sid' = sid
      /\ copy' = copy /\ next' = next /\ accepted' = accepted /\ issued' = issued
      /\ latest' = latest /\ overlapped' = overlapped /\ updates' = updates
  BY DEF EndSession
<1>3. /\ MayPersist(c, NoSession) /\ Goto(c, "idle")
      /\ failed' = failed \/ failed' = TRUE
      /\ loggedOut' \subseteq loggedOut \cup {sid[c]}
  BY DEF EndSession, Fail, MayPersist
<1>4. sid[c] \in issued
  BY <1>1, <1>2 DEF CarriedOK, Idle
<1>5. /\ session' \in [Sessions -> Payload \cup {NoSession}]
      /\ \A s \in Live' : s \in Live /\ session'[s] = session[s]
  BY <1>1, <1>3, PersistPuts DEF Live
<1>6. /\ pc' \in [Calls -> Stages] /\ pc'[c] = "idle"
      /\ \A d \in Calls \ {c} : pc'[d] = pc[d] /\ (Idle(d)' <=> Idle(d))
  BY <1>1, <1>3, GotoMoves DEF TypeOK, Stages
<1>7. failed' \in BOOLEAN
  BY <1>1, <1>3 DEF TypeOK
<1>8. TypeOK'
  BY <1>1, <1>2, <1>3, <1>4, <1>5, <1>6, <1>7 DEF TypeOK, Idle
<1>9. NothingAheadOfItsSource'
  BY <1>1, <1>2, <1>5 DEF NothingAheadOfItsSource
<1>10. CarriedOK'
  BY <1>1, <1>2, <1>5, <1>6 DEF CarriedOK, Seen, Idle
<1>11. OneAtATime'
  BY <1>1, <1>2, <1>6, StillOneAtATime DEF Idle
<1>12. OneByOne'
  <2> SUFFICES ASSUME ~overlapped', ~failed' PROVE OneByOne'
    BY DEF OneByOne
  <2>1. \A d \in Calls : pc'[d] = "idle" /\ ~Changing(d)
    BY <1>1, <1>2, <1>6 DEF OneAtATime, Idle, Changing
  <2>2. ~failed
    BY <1>3, Zenon
  <2>3. /\ appUser = NoRow => Live = {}
        /\ appUser # NoRow => appUser = keycloak /\ LatestAgrees
    BY <1>1, <1>2, <2>1, <2>2 DEF OneByOne
  <2>4. \A d \in Calls : InStep(d)'
    BY <2>1 DEF InStep
  <2> QED
    BY <1>2, <1>5, <2>3, <2>4 DEF OneByOne, LatestAgrees
<1> QED
  BY <1>8, <1>9, <1>10, <1>11, <1>12 DEF IInv

\* A session that is gone disagrees with nothing.
LEMMA StepSessionExpires ==
  ASSUME IInv, NEW s \in Sessions, SessionExpires(s)
  PROVE  IInv'
<1>1. TypeOK /\ NothingAheadOfItsSource /\ CarriedOK /\ OneAtATime /\ OneByOne
  BY DEF IInv
<1>2. /\ session' = [session EXCEPT ![s] = NoSession]
      /\ keycloak' = keycloak /\ appUser' = appUser /\ picture' = picture
      /\ pc' = pc /\ sid' = sid /\ copy' = copy /\ next' = next
      /\ accepted' = accepted /\ issued' = issued /\ loggedOut' = loggedOut
      /\ latest' = latest /\ overlapped' = overlapped /\ failed' = failed /\ updates' = updates
  BY DEF SessionExpires, calls, history
<1>3. /\ session' \in [Sessions -> Payload \cup {NoSession}]
      /\ \A r \in Live' : r \in Live /\ session'[r] = session[r]
  BY <1>1, <1>2 DEF TypeOK, Live
<1>4. LatestAgrees => LatestAgrees'
  BY <1>2, <1>3 DEF LatestAgrees
<1>5. TypeOK'
  BY <1>1, <1>2, <1>3 DEF TypeOK, Idle
<1>6. NothingAheadOfItsSource'
  BY <1>1, <1>2, <1>3 DEF NothingAheadOfItsSource
<1>7. CarriedOK'
  BY <1>1, <1>2, <1>3 DEF CarriedOK, Seen, Idle
<1>8. OneAtATime'
  BY <1>1, <1>2 DEF OneAtATime, Idle
<1>9. OneByOne'
  <2> SUFFICES ASSUME ~overlapped', ~failed' PROVE OneByOne'
    BY DEF OneByOne
  <2>1. ~overlapped /\ ~failed
    BY <1>2, Zenon
  <2>2. \A d \in Calls : InStep(d)'
    BY <1>1, <1>2, <1>4, <2>1 DEF OneByOne, InStep
  <2> QED
    BY <1>1, <1>2, <1>3, <1>4, <2>1, <2>2 DEF OneByOne, Changing
<1> QED
  BY <1>5, <1>6, <1>7, <1>8, <1>9 DEF IInv

-----------------------------------------------------------------------------
(* The theorems                                                              *)

\* At the beginning there is an account and nothing else.
LEMMA InvInit == Init => IInv
<1> SUFFICES ASSUME Init PROVE IInv
  OBVIOUS
<1>1. (CHOOSE s \in Sessions : TRUE) \in Sessions
  BY SessionsAssumption
<1>2. Live = {} /\ \A c \in Calls : Idle(c)
  BY DEF Init, Live, Idle
<1>3. TypeOK
  <2>1. sid \in [Calls -> Sessions] /\ latest \in Sessions
    BY <1>1 DEF Init
  <2>2. overlapped \in BOOLEAN /\ failed \in BOOLEAN
    BY DEF Init
  <2> QED
    BY <1>2, <2>1, <2>2, AccountBounds DEF Init, TypeOK, Stages
<1>4. NothingAheadOfItsSource /\ CarriedOK /\ OneAtATime
  BY <1>2 DEF Init, NothingAheadOfItsSource, CarriedOK, OneAtATime
<1>5. OneByOne
  BY <1>2 DEF Init, OneByOne, InStep, Idle
<1> QED
  BY <1>3, <1>4, <1>5 DEF IInv

\* Every step preserves the inductive invariant.
LEMMA InvStep == IInv /\ [Next]_vars => IInv'
<1> SUFFICES ASSUME IInv, [Next]_vars PROVE IInv'
  OBVIOUS
<1>1. CASE UNCHANGED vars
  BY <1>1 DEF vars, stores, calls, history, IInv, TypeOK, NothingAheadOfItsSource, CarriedOK,
              OneAtATime, OneByOne, InStep, Changing, LatestAgrees, Live, Idle, Seen
<1>2. CASE Next
  BY <1>2, StepBeginLogin, StepBeginOther, StepMirrorLogin, StepOpenSession, StepWriteKeycloak,
     StepSavePreferences, StepMirrorPreferences, StepGoOn, StepStorePicture, StepAttachPicture,
     StepEndSession, StepSessionExpires DEF Next
<1> QED
  BY <1>1, <1>2

\* What calls carry and what the stores hold stays behind its source.
THEOREM Invariance == Spec => []IInv
  BY InvInit, InvStep, PTL DEF Spec

\* The stores and the calls keep their types, and only a session that was
\* drawn is ever logged out.
THEOREM TypeCorrect == Spec => []TypeOK
  BY Invariance, PTL DEF IInv

\* No overlap of calls and no failure makes a session or the row of app_users
\* show preferences that Keycloak never had, or a picture never stored.
THEOREM NeverAhead == Spec => []NothingAheadOfItsSource
  BY Invariance, PTL DEF IInv

\* Calls that come one by one and succeed leave Keycloak, app_users and the
\* latest session with the same preferences.
THEOREM CopiesAlwaysAgree == Spec => []CopiesAgree
<1>1. IInv => CopiesAgree
  BY DEF IInv, OneByOne, CopiesAgree, Quiet, Idle, Changing, LatestAgrees
<1> QED
  BY <1>1, Invariance, PTL

=============================================================================
