---------------------------- MODULE WebClientProofs ----------------------------
(* Theorems about WebClient, for all preferences, any number of requests on   *)
(* the wire, and any number of choices and failures.                          *)
EXTENDS WebClient, TLAPS

-----------------------------------------------------------------------------
(* The operators                                                             *)

\* A message on the wire, or none.
Messages == {Free} \cup [kind : {"me", "save"}, at : {"out", "back", "lost"},
                         prefs : Prefs \cup {NoPrefs}]

\* A slot that holds a request, or an answer, is not free.
LEMMA WireFacts ==
  ASSUME TypeOK, NEW s \in Slots
  PROVE  /\ wire \in [Slots -> Messages] /\ wire[s] \in Messages
         /\ wire[s].kind \in {"me", "save"} \/ wire[s].at \in {"out", "back", "lost"} =>
               wire[s] \in [kind : {"me", "save"}, at : {"out", "back", "lost"},
                            prefs : Prefs \cup {NoPrefs}]
  BY DEF TypeOK, Messages, Free

\* A request goes out on a free slot.
LEMMA SendFacts ==
  ASSUME TypeOK, NEW s \in Slots, NEW kind \in {"me", "save"},
         NEW prefs \in Prefs \cup {NoPrefs}, Send(s, kind, prefs)
  PROVE  /\ wire[s] = Free
         /\ wire' \in [Slots -> Messages]
         /\ wire'[s] = [kind |-> kind, at |-> "out", prefs |-> prefs]
         /\ \A q \in Slots \ {s} : wire'[q] = wire[q]
  BY WireFacts DEF Send, Messages

\* A slot is free again when its answer was received; that changes the state
\* of the page, whose last change must have been rendered by then.
LEMMA ReceiveFacts ==
  ASSUME TypeOK, NEW s \in Slots, NEW kind \in {"me", "save"}, NEW at \in {"back", "lost"},
         Receive(s, kind, at)
  PROVE  /\ wire[s].kind = kind /\ wire[s].at = at /\ wire[s].prefs \in Prefs \cup {NoPrefs}
         /\ wire' \in [Slots -> Messages] /\ wire'[s] = Free
         /\ \A q \in Slots \ {s} : wire'[q] = wire[q]
         /\ batched' \in BOOLEAN
         /\ ~batched' => ~batched /\ ~NeedsFetch
         /\ fetchedFor' = fetchedFor /\ stored' = stored /\ session' = session
         /\ choices' = choices /\ failures' = failures
<1>1. wire[s].kind = kind /\ wire[s].at = at /\ wire' = [wire EXCEPT ![s] = Free]
  BY DEF Receive
<1>2. /\ fetchedFor' = fetchedFor /\ stored' = stored
      /\ choices' = choices /\ failures' = failures
  BY DEF Receive, server
<1>3. session' = session
  BY DEF Receive, server
<1>4. batched' \in BOOLEAN /\ (~batched' => ~batched /\ ~NeedsFetch)
  BY DEF Receive, Change, TypeOK
<1>5. Free \in Messages
  BY DEF Messages
<1> QED
  BY <1>1, <1>2, <1>3, <1>4, <1>5, WireFacts

-----------------------------------------------------------------------------
(* How a step keeps the page on its way to the server's language             *)

\* A change of the page: it keeps the language, or the effect is due again.
LEMMA ChangeHeals ==
  ASSUME Heals, NEW s \in Slots,
         session' => session, failures' = failures, stored' = stored, fetchedFor' = fetchedFor,
         ~batched' => ~batched /\ ~NeedsFetch,
         \A q \in Slots \ {s} : wire'[q] = wire[q],
         session' /\ failures' = 0 /\ ~batched' /\ page'.language = page.language =>
            \/ wire'[s] = wire[s]
            \/ ~(\/ wire[s].kind = "me" /\ wire[s].at = "out"
                 \/ wire[s].at = "back" /\ wire[s].prefs.language # page.language)
  PROVE  Heals'
<1> SUFFICES ASSUME session', failures' = 0, ~batched'
             PROVE  \/ page'.language = stored'.language
                    \/ NeedsFetch'
                    \/ \E q \in Slots :
                          \/ wire'[q].kind = "me" /\ wire'[q].at = "out"
                          \/ wire'[q].at = "back" /\ wire'[q].prefs.language # page'.language
  BY DEF Heals
<1>1. session /\ failures = 0 /\ ~batched /\ page.language = fetchedFor
  BY DEF NeedsFetch
<1>2. CASE page'.language # page.language
  BY <1>1, <1>2 DEF NeedsFetch
<1>3. CASE page'.language = page.language
  <2>1. \/ page.language = stored.language
        \/ \E q \in Slots :
              \/ wire[q].kind = "me" /\ wire[q].at = "out"
              \/ wire[q].at = "back" /\ wire[q].prefs.language # page.language
    BY <1>1 DEF Heals, NeedsFetch
  <2>2. CASE page.language = stored.language
    BY <1>3, <2>2
  <2>3. CASE \E q \in Slots :
                \/ wire[q].kind = "me" /\ wire[q].at = "out"
                \/ wire[q].at = "back" /\ wire[q].prefs.language # page.language
    <3>1. PICK q \in Slots : \/ wire[q].kind = "me" /\ wire[q].at = "out"
                             \/ wire[q].at = "back" /\ wire[q].prefs.language # page.language
      BY <2>3
    <3>2. wire'[q] = wire[q]
      BY <1>3, <3>1
    <3> QED
      BY <1>3, <3>1, <3>2
  <2> QED
    BY <2>1, <2>2, <2>3
<1> QED
  BY <1>2, <1>3

-----------------------------------------------------------------------------
(* Each step preserves the invariant                                         *)

\* The first state: the effect has not run, so it is due.
LEMMA InitHolds == Init => IInv
<1> SUFFICES ASSUME Init PROVE IInv
  OBVIOUS
<1>a. session \in BOOLEAN /\ batched \in BOOLEAN
  BY DEF Init
<1>b. /\ page \in Prefs /\ auth \in {"guest", "user"}
      /\ fetchedFor \in Languages \cup {NoLanguage}
      /\ stored \in Prefs /\ choices = 0 /\ failures = 0
      /\ guestChoice \in Prefs \cup {NoPrefs}
  BY DefaultAssumption DEF Init
<1>c. wire \in [Slots -> Messages]
  BY DEF Init, Messages
<1>1. TypeOK
  BY <1>a, <1>b, <1>c, ClientBounds DEF TypeOK, Messages
<1>2. WireSound
  BY DEF Init, WireSound, Free
<1>3. Heals
  BY DefaultAssumption DEF Init, Heals, NeedsFetch, Prefs
<1> QED
  BY <1>1, <1>2, <1>3 DEF IInv

\* A request that goes out leaves what was sound sound.
LEMMA SendSound ==
  ASSUME TypeOK, WireSound, NEW s \in Slots, NEW kind \in {"me", "save"},
         NEW prefs \in Prefs \cup {NoPrefs}, kind = "save" => prefs \in Prefs,
         Send(s, kind, prefs), session' = session, failures' = failures
  PROVE  WireSound'
<1>1. /\ wire'[s] = [kind |-> kind, at |-> "out", prefs |-> prefs]
      /\ \A q \in Slots \ {s} : wire'[q] = wire[q]
  BY SendFacts
<1>2. wire'[s].kind = kind /\ wire'[s].at = "out" /\ wire'[s].prefs = prefs
  BY <1>1
<1> SUFFICES ASSUME NEW q \in Slots
             PROVE  /\ wire'[q].kind = "save" => wire'[q].prefs \in Prefs
                    /\ session' /\ failures' = 0 =>
                          /\ wire'[q].at # "lost"
                          /\ wire'[q].kind = "me" /\ wire'[q].at = "back" => wire'[q].prefs \in Prefs
  BY DEF WireSound
<1>3. CASE q = s
  BY <1>2, <1>3
<1>4. CASE q # s
  BY <1>1, <1>4 DEF WireSound
<1> QED
  BY <1>3, <1>4

\* So does a slot that is free again.
LEMMA FreeSound ==
  ASSUME WireSound, NEW s \in Slots, wire'[s] = Free,
         \A q \in Slots \ {s} : wire'[q] = wire[q], session' = session, failures' = failures
  PROVE  WireSound'
<1>1. wire'[s].kind = "none" /\ wire'[s].at = "none"
  BY DEF Free
<1> QED
  BY <1>1 DEF WireSound

\* A fetch, whatever it is made for, is on its way.
LEMMA AskingHeals ==
  ASSUME TypeOK, NEW s \in Slots, Send(s, "me", NoPrefs)
  PROVE  Heals'
<1>1. wire'[s] = [kind |-> "me", at |-> "out", prefs |-> NoPrefs]
  BY SendFacts
<1>2. wire'[s].kind = "me" /\ wire'[s].at = "out"
  BY <1>1
<1> QED
  BY <1>2 DEF Heals

\* The effect.
LEMMA FetchStep == ASSUME IInv, NEW s \in Slots, Fetch(s) PROVE IInv'
<1>1. Send(s, "me", NoPrefs) /\ TypeOK /\ WireSound
  BY DEF Fetch, IInv
<1>b. session' \in BOOLEAN /\ batched' \in BOOLEAN
  BY <1>1 DEF Fetch, TypeOK, server, history
<1>c. wire' \in [Slots -> Messages]
  BY <1>1, SendFacts
<1>d. fetchedFor' \in Languages /\ page' \in Prefs
  BY <1>1 DEF Fetch, TypeOK, Prefs
<1>e. /\ auth' = auth /\ stored' = stored /\ choices' = choices
      /\ failures' = failures /\ guestChoice' = guestChoice
  BY DEF Fetch, server, history
<1>2. TypeOK'
  BY <1>1, <1>b, <1>c, <1>d, <1>e DEF TypeOK, Messages
<1>3. session' = session /\ failures' = failures
  BY DEF Fetch, server, history
<1> QED
  BY <1>1, <1>2, <1>3, SendSound, AskingHeals DEF IInv

\* The refresh button, within the bound.
LEMMA RefreshStep == ASSUME IInv, NEW s \in Slots, Refresh(s) PROVE IInv'
<1>1. Send(s, "me", NoPrefs) /\ TypeOK /\ WireSound
  BY DEF Refresh, IInv
<1>b. session' \in BOOLEAN /\ batched' \in BOOLEAN
  BY <1>1 DEF Refresh, TypeOK, server
<1>c. wire' \in [Slots -> Messages]
  BY <1>1, SendFacts
<1>d. choices' \in 0..MaxChoices
  BY <1>1, ClientBounds DEF Refresh, TypeOK
<1>e. /\ page' = page /\ auth' = auth /\ fetchedFor' = fetchedFor /\ stored' = stored
      /\ failures' = failures /\ guestChoice' = guestChoice
  BY DEF Refresh, client, server
<1>2. TypeOK'
  BY <1>1, <1>b, <1>c, <1>d, <1>e DEF TypeOK, Messages
<1>3. session' = session /\ failures' = failures
  BY DEF Refresh, server
<1> QED
  BY <1>1, <1>2, <1>3, SendSound, AskingHeals DEF IInv

\* A choice changes one preference: the language, and the effect is due, or
\* the theme only, and what was on its way still is.
LEMMA ChooseStep == ASSUME IInv, NEW s \in Slots, Choose(s) PROVE IInv'
<1> USE DEF IInv
<1>1. /\ page' \in Prefs /\ choices' \in 0..MaxChoices
      /\ auth' = auth /\ fetchedFor' = fetchedFor /\ stored' = stored /\ failures' = failures
  BY ClientBounds DEF Choose, OneChanged, TypeOK, server
<1>2. session' = session
  BY DEF Choose, server
<1>3. session' \in BOOLEAN /\ batched' \in BOOLEAN
  BY DEF Choose, Change, TypeOK, server
<1>4. ~batched' => ~batched /\ ~NeedsFetch
  BY DEF Choose, Change
<1>5. CASE Send(s, "save", page') /\ UNCHANGED guestChoice
  <2>1. /\ wire[s] = Free /\ wire' \in [Slots -> Messages]
        /\ \A q \in Slots \ {s} : wire'[q] = wire[q]
    BY <1>1, <1>5, SendFacts
  <2>2. TypeOK'
    BY <1>1, <1>3, <1>5, <2>1 DEF TypeOK, Messages
  <2>3. WireSound'
    BY <1>1, <1>2, <1>5, SendSound
  <2>4. wire[s].kind = "none" /\ wire[s].at = "none"
    BY <2>1 DEF Free
  <2>5. Heals'
    BY <1>1, <1>2, <1>4, <2>1, <2>4, ChangeHeals
  <2> QED
    BY <2>2, <2>3, <2>5
<1>6. CASE UNCHANGED wire /\ guestChoice' \in Prefs \cup {NoPrefs}
  <2>1. TypeOK'
    BY <1>1, <1>3, <1>6 DEF TypeOK
  <2>2. WireSound'
    BY <1>1, <1>2, <1>6 DEF WireSound
  <2>3. Heals'
    BY <1>1, <1>2, <1>4, <1>6, ChangeHeals
  <2> QED
    BY <2>1, <2>2, <2>3
<1> QED
  BY <1>1, <1>5, <1>6 DEF Choose

\* An answer about the user: its language replaces the page's.
LEMMA ReceiveAuthStep == ASSUME IInv, NEW s \in Slots, ReceiveAuth(s) PROVE IInv'
<1> USE DEF IInv
<1>0. Receive(s, "me", "back")
  BY DEF ReceiveAuth
<1>1. /\ wire[s].kind = "me" /\ wire[s].at = "back" /\ wire[s].prefs \in Prefs \cup {NoPrefs}
      /\ wire' \in [Slots -> Messages] /\ wire'[s] = Free
      /\ \A q \in Slots \ {s} : wire'[q] = wire[q]
      /\ fetchedFor' = fetchedFor /\ stored' = stored /\ choices' = choices /\ failures' = failures
  BY <1>0, ReceiveFacts
<1>2. session' = session /\ batched' \in BOOLEAN
  BY <1>0, ReceiveFacts
<1>3. ~batched' => ~batched /\ ~NeedsFetch
  BY <1>0, ReceiveFacts
<1>4. /\ page' = Resolve(wire[s].prefs) /\ auth' \in {"guest", "user"}
      /\ guestChoice' \in {guestChoice, NoPrefs}
  BY DEF ReceiveAuth
<1>5. page' \in Prefs
  BY <1>1, <1>4, DefaultAssumption DEF Resolve
<1>6. session' \in BOOLEAN
  BY <1>2 DEF TypeOK
<1>7. TypeOK'
  BY <1>1, <1>2, <1>4, <1>5, <1>6 DEF TypeOK, Messages
<1>8. WireSound'
  BY <1>1, <1>2, FreeSound
<1>9. ASSUME session', failures' = 0 PROVE page' = wire[s].prefs
  <2>1. wire[s].prefs \in Prefs
    BY <1>1, <1>2, <1>9 DEF WireSound
  <2> QED
    BY <1>4, <2>1, DefaultAssumption DEF Resolve
<1>10. Heals'
  BY <1>1, <1>2, <1>3, <1>9, ChangeHeals
<1> QED
  BY <1>7, <1>8, <1>10

\* The failure of a fetch: something was lost.
LEMMA ReceiveNoAuthStep == ASSUME IInv, NEW s \in Slots, ReceiveNoAuth(s) PROVE IInv'
<1> USE DEF IInv
<1>0. Receive(s, "me", "lost")
  BY DEF ReceiveNoAuth
<1>1. /\ wire[s].at = "lost"
      /\ wire' \in [Slots -> Messages] /\ wire'[s] = Free
      /\ \A q \in Slots \ {s} : wire'[q] = wire[q]
      /\ fetchedFor' = fetchedFor /\ stored' = stored /\ choices' = choices /\ failures' = failures
  BY <1>0, ReceiveFacts
<1>2. session' = session /\ batched' \in BOOLEAN
  BY <1>0, ReceiveFacts
<1>3. page' \in Prefs /\ auth' = "guest" /\ guestChoice' = NoPrefs
  BY DefaultAssumption DEF ReceiveNoAuth
<1>4. session' \in BOOLEAN
  BY <1>2 DEF TypeOK
<1>5. TypeOK'
  BY <1>1, <1>2, <1>3, <1>4 DEF TypeOK, Messages
<1>6. WireSound'
  BY <1>1, <1>2, FreeSound
<1>7. ~(session' /\ failures' = 0)
  BY <1>1, <1>2 DEF WireSound
<1> QED
  BY <1>5, <1>6, <1>7 DEF Heals

\* The answer to a save: the preferences it carried.
LEMMA ReceiveSavedStep == ASSUME IInv, NEW s \in Slots, ReceiveSaved(s) PROVE IInv'
<1> USE DEF IInv
<1>0. Receive(s, "save", "back")
  BY DEF ReceiveSaved
<1>1. /\ wire[s].kind = "save" /\ wire[s].at = "back"
      /\ wire' \in [Slots -> Messages] /\ wire'[s] = Free
      /\ \A q \in Slots \ {s} : wire'[q] = wire[q]
      /\ fetchedFor' = fetchedFor /\ stored' = stored /\ choices' = choices /\ failures' = failures
  BY <1>0, ReceiveFacts
<1>2. session' = session /\ batched' \in BOOLEAN
  BY <1>0, ReceiveFacts
<1>3. ~batched' => ~batched /\ ~NeedsFetch
  BY <1>0, ReceiveFacts
<1>4. page' = wire[s].prefs /\ auth' = auth /\ guestChoice' = guestChoice
  BY DEF ReceiveSaved
<1>5. page' \in Prefs
  BY <1>1, <1>4 DEF WireSound
<1>6. session' \in BOOLEAN
  BY <1>2 DEF TypeOK
<1>7. TypeOK'
  BY <1>1, <1>2, <1>4, <1>5, <1>6 DEF TypeOK, Messages
<1>8. WireSound'
  BY <1>1, <1>2, FreeSound
<1>9. Heals'
  BY <1>1, <1>2, <1>3, <1>4, ChangeHeals
<1> QED
  BY <1>7, <1>8, <1>9

\* The failure of a save: something was lost, or the session is gone.
LEMMA ReceiveNotSavedStep == ASSUME IInv, NEW s \in Slots, ReceiveNotSaved(s) PROVE IInv'
<1> USE DEF IInv
<1>0. Receive(s, "save", "lost")
  BY DEF ReceiveNotSaved
<1>1. /\ wire[s].at = "lost"
      /\ wire' \in [Slots -> Messages] /\ wire'[s] = Free
      /\ \A q \in Slots \ {s} : wire'[q] = wire[q]
      /\ fetchedFor' = fetchedFor /\ stored' = stored /\ choices' = choices /\ failures' = failures
  BY <1>0, ReceiveFacts
<1>2. session' = session /\ batched' \in BOOLEAN
  BY <1>0, ReceiveFacts
<1>3. page' = page /\ auth' = auth /\ guestChoice' = guestChoice
  BY DEF ReceiveNotSaved
<1>4. session' \in BOOLEAN
  BY <1>2 DEF TypeOK
<1>5. TypeOK'
  BY <1>1, <1>2, <1>3, <1>4 DEF TypeOK, Messages
<1>6. WireSound'
  BY <1>1, <1>2, FreeSound
<1>7. ~(session' /\ failures' = 0)
  BY <1>1, <1>2 DEF WireSound
<1> QED
  BY <1>5, <1>6, <1>7 DEF Heals

\* The server answers with the language it has: the page's, or another one.
LEMMA HandleMeStep == ASSUME IInv, NEW s \in Slots, HandleMe(s) PROVE IInv'
<1> USE DEF IInv
<1> DEFINE prefs == IF session THEN stored ELSE NoPrefs
           sent == [kind |-> "me", at |-> "back", prefs |-> prefs]
<1>1. wire[s].kind = "me" /\ wire[s].at = "out"
  BY DEF HandleMe
<1>2. wire' = [wire EXCEPT ![s].at = "back", ![s].prefs = prefs]
  BY DEF HandleMe
<1>3. prefs \in Prefs \cup {NoPrefs} /\ (session => prefs = stored /\ prefs \in Prefs)
  BY DEF TypeOK
<1> HIDE DEF prefs
<1>4. /\ wire' \in [Slots -> Messages] /\ wire'[s] = sent
      /\ \A q \in Slots \ {s} : wire'[q] = wire[q]
  BY <1>1, <1>2, <1>3, WireFacts DEF Messages
<1>5. wire'[s].kind = "me" /\ wire'[s].at = "back" /\ wire'[s].prefs = prefs
  BY <1>4
<1>6. /\ page' = page /\ auth' = auth /\ fetchedFor' = fetchedFor /\ stored' = stored
      /\ choices' = choices /\ failures' = failures /\ guestChoice' = guestChoice
  BY DEF HandleMe, client, server, history
<1>7. session' = session /\ session' \in BOOLEAN /\ batched' \in BOOLEAN
  BY DEF HandleMe, TypeOK, server, history
<1>8. TypeOK'
  BY <1>4, <1>6, <1>7 DEF TypeOK, Messages
<1>9. WireSound'
  <2> SUFFICES ASSUME NEW q \in Slots
               PROVE  /\ wire'[q].kind = "save" => wire'[q].prefs \in Prefs
                      /\ session' /\ failures' = 0 =>
                            /\ wire'[q].at # "lost"
                            /\ wire'[q].kind = "me" /\ wire'[q].at = "back"
                               => wire'[q].prefs \in Prefs
    BY DEF WireSound
  <2>1. CASE q = s
    BY <1>3, <1>5, <1>7, <2>1
  <2>2. CASE q # s
    BY <1>4, <1>6, <1>7, <2>2 DEF WireSound
  <2> QED
    BY <2>1, <2>2
<1>10. Heals'
  BY <1>3, <1>5, <1>6, <1>7 DEF Heals
<1> QED
  BY <1>8, <1>9, <1>10

\* The server stores what a save carries, and says so.
LEMMA HandleSaveStep == ASSUME IInv, NEW s \in Slots, HandleSave(s) PROVE IInv'
<1> USE DEF IInv
<1> DEFINE at == IF session THEN "back" ELSE "lost"
           sent == [kind |-> "save", at |-> at, prefs |-> wire[s].prefs]
<1>1. wire[s].kind = "save" /\ wire[s].at = "out" /\ wire[s].prefs \in Prefs
  BY DEF HandleSave, WireSound
<1>2. wire' = [wire EXCEPT ![s].at = at]
  BY DEF HandleSave
<1>3. at \in {"back", "lost"} /\ (session => at = "back")
  OBVIOUS
<1> HIDE DEF at
<1>4. /\ wire' \in [Slots -> Messages] /\ wire'[s] = sent
      /\ \A q \in Slots \ {s} : wire'[q] = wire[q]
  BY <1>1, <1>2, <1>3, WireFacts DEF Messages
<1>5. wire'[s].kind = "save" /\ wire'[s].at = at /\ wire'[s].prefs = wire[s].prefs
  BY <1>4
<1>6. /\ page' = page /\ auth' = auth /\ fetchedFor' = fetchedFor
      /\ choices' = choices /\ failures' = failures /\ guestChoice' = guestChoice
  BY DEF HandleSave, client, history
<1>7. stored' \in Prefs /\ (session => stored' = wire[s].prefs)
  BY <1>1 DEF HandleSave, TypeOK
<1>8. session' = session /\ session' \in BOOLEAN /\ batched' \in BOOLEAN
  BY DEF HandleSave, TypeOK, history
<1>9. TypeOK'
  BY <1>4, <1>6, <1>7, <1>8 DEF TypeOK, Messages
<1>10. WireSound'
  <2> SUFFICES ASSUME NEW q \in Slots
               PROVE  /\ wire'[q].kind = "save" => wire'[q].prefs \in Prefs
                      /\ session' /\ failures' = 0 =>
                            /\ wire'[q].at # "lost"
                            /\ wire'[q].kind = "me" /\ wire'[q].at = "back"
                               => wire'[q].prefs \in Prefs
    BY DEF WireSound
  <2>1. CASE q = s
    BY <1>1, <1>3, <1>5, <1>8, <2>1
  <2>2. CASE q # s
    BY <1>4, <1>6, <1>8, <2>2 DEF WireSound
  <2> QED
    BY <2>1, <2>2
<1>11. Heals'
  BY <1>3, <1>5, <1>6, <1>7, <1>8 DEF Heals
<1> QED
  BY <1>9, <1>10, <1>11

\* What is lost is counted.
LEMMA LoseStep == ASSUME IInv, NEW s \in Slots, Lose(s) PROVE IInv'
<1> USE DEF IInv
<1>1. wire[s].at \in {"out", "back"} /\ wire' = [wire EXCEPT ![s].at = "lost"]
  BY DEF Lose
<1>2. /\ wire' \in [Slots -> Messages]
      /\ wire'[s] = [kind |-> wire[s].kind, at |-> "lost", prefs |-> wire[s].prefs]
      /\ \A q \in Slots \ {s} : wire'[q] = wire[q]
  BY <1>1, WireFacts DEF Messages
<1>3. failures' \in 0..MaxFailures /\ failures' # 0
  BY ClientBounds DEF Lose, TypeOK
<1>4. /\ page' = page /\ auth' = auth /\ fetchedFor' = fetchedFor /\ stored' = stored
      /\ choices' = choices /\ guestChoice' = guestChoice
  BY DEF Lose, client, server
<1>5. session' \in BOOLEAN /\ batched' \in BOOLEAN
  BY DEF Lose, TypeOK, server
<1>6. TypeOK'
  BY <1>2, <1>3, <1>4, <1>5 DEF TypeOK, Messages
<1>7. wire'[s].kind = wire[s].kind /\ wire'[s].prefs = wire[s].prefs
  BY <1>2
<1>8. \A q \in Slots : wire'[q].kind = "save" => wire'[q].prefs \in Prefs
  BY <1>2, <1>7 DEF WireSound
<1> QED
  BY <1>3, <1>6, <1>8 DEF WireSound, Heals

\* Without its session the page owes the server nothing.
LEMMA SessionEndsStep == ASSUME IInv, SessionEnds PROVE IInv'
<1> USE DEF IInv
<1>1. /\ page' = page /\ auth' = auth /\ fetchedFor' = fetchedFor /\ stored' = stored
      /\ wire' = wire /\ choices' = choices /\ failures' = failures /\ guestChoice' = guestChoice
  BY DEF SessionEnds, client, history
<1>2. session' = FALSE /\ batched' \in BOOLEAN
  BY DEF SessionEnds, TypeOK, history
<1>3. session' \in BOOLEAN
  BY <1>2
<1>4. TypeOK'
  BY <1>1, <1>2, <1>3 DEF TypeOK
<1>5. WireSound'
  BY <1>1, <1>2 DEF WireSound
<1> QED
  BY <1>2, <1>4, <1>5 DEF Heals

\* A step that leaves everything alone.
LEMMA StutterStep == ASSUME IInv, UNCHANGED vars PROVE IInv'
<1>1. /\ page' = page /\ auth' = auth /\ fetchedFor' = fetchedFor /\ stored' = stored
      /\ wire' = wire /\ choices' = choices /\ failures' = failures /\ guestChoice' = guestChoice
  BY DEF vars, client, server, history
<1>2. session' = session /\ batched' = batched
  BY DEF vars, server, history
<1>3. TypeOK'
  <2>1. session' \in BOOLEAN /\ batched' \in BOOLEAN
    BY <1>2 DEF IInv, TypeOK
  <2> QED
    BY <1>1, <2>1 DEF IInv, TypeOK
<1>4. WireSound'
  BY <1>1, <1>2 DEF IInv, WireSound
<1>5. Heals'
  BY <1>1, <1>2 DEF IInv, Heals, NeedsFetch
<1> QED
  BY <1>3, <1>4, <1>5 DEF IInv

-----------------------------------------------------------------------------
(* The theorems                                                              *)

\* The invariant holds in every state: what is on the wire is sound, and a
\* page with a language other than the server's will ask or be answered.
THEOREM Invariance == Spec => []IInv
<1>1. Init => IInv
  BY InitHolds
<1>2. IInv /\ [Next]_vars => IInv'
  <2> SUFFICES ASSUME IInv, [Next]_vars PROVE IInv'
    OBVIOUS
  <2>1. ASSUME NEW s \in Slots, Fetch(s) PROVE IInv'
    BY <2>1, FetchStep
  <2>2. ASSUME NEW s \in Slots, Refresh(s) PROVE IInv'
    BY <2>2, RefreshStep
  <2>3. ASSUME NEW s \in Slots, Choose(s) PROVE IInv'
    BY <2>3, ChooseStep
  <2>4. ASSUME NEW s \in Slots, Answered(s) PROVE IInv'
    BY <2>4, HandleMeStep, HandleSaveStep, ReceiveAuthStep, ReceiveNoAuthStep,
       ReceiveSavedStep, ReceiveNotSavedStep DEF Answered
  <2>5. ASSUME NEW s \in Slots, Lose(s) PROVE IInv'
    BY <2>5, LoseStep
  <2>6. CASE SessionEnds
    BY <2>6, SessionEndsStep
  <2>7. CASE UNCHANGED vars
    BY <2>7, StutterStep
  <2> QED
    BY <2>1, <2>2, <2>3, <2>4, <2>5, <2>6, <2>7 DEF Next
<1> QED
  BY <1>1, <1>2, PTL DEF Spec

\* The variables keep their types, and the page always shows real preferences.
THEOREM TypeCorrect == Spec => []TypeOK
<1>1. IInv => TypeOK
  BY DEF IInv
<1> QED
  BY <1>1, Invariance, PTL

\* The language heals: however requests and answers overtook each other, a
\* signed-in page at rest shows the language that the server stores.
THEOREM LanguageHeals == Spec => []LanguageAgrees
<1>1. IInv => LanguageAgrees
  <2> SUFFICES ASSUME IInv, Quiet, session, failures = 0, ~batched
               PROVE  page.language = stored.language
    BY DEF LanguageAgrees
  <2>1. ~NeedsFetch /\ \A s \in Slots : wire[s].at = "none"
    BY DEF Quiet, Free
  <2> QED
    BY <2>1 DEF IInv, Heals
<1> QED
  BY <1>1, Invariance, PTL
=============================================================================
