------------------------------ MODULE PartsProofs ------------------------------
(* Theorems about the parts of module MCParts that share no state, each about *)
(* its own specification and every value of its constants: the passkey        *)
(* scripts, the registration form, the entity store, the profile pictures,    *)
(* the pages of the login theme; and that the whole is each of them.          *)
EXTENDS MCParts, AppShellProofs, FiniteSetTheorems, SequenceTheorems, WellFoundedInduction,
        TLAPS

-----------------------------------------------------------------------------
(* Passkeys: the operators                                                   *)

\* A new call is the one that is pending, and it cancels the one that was.
LEMMA SignalCancels ==
  ASSUME DOMAIN calls = Callers, NEW i \in Callers, calls' = Signal(i)
  PROVE  /\ DOMAIN calls' = Callers
         /\ calls'[i] = "pending"
         /\ \A j \in Callers \ {i} :
               calls'[j] = IF calls[j] = "pending" THEN "aborted" ELSE calls[j]
  BY DEF Signal

\* What the passkeys page is told makes the form or the button appear.
LEMMA TellShows ==
  ASSUME NEW available \in BOOLEAN, Tell(available),
         shown \subseteq {"form", "button", "link"}
  PROVE  /\ shown \subseteq shown' /\ shown' \subseteq {"form", "button", "link"}
         /\ passkey.kind = "passkeys" /\ passkey.password => {"form", "button"} \cap shown' # {}
  BY DEF Tell

\* Every page shows parts of the three.
LEMMA PartsOfPages ==
  ASSUME NEW c \in Contexts
  PROVE  c # NoPage /\ PageParts(c) \subseteq {"form", "button", "link"}
<1>1. c.kind \in Kinds
  BY DEF Contexts
<1>2. c # NoPage
  BY <1>1 DEF Kinds, NoPage
<1>3. \A f, b, l \in BOOLEAN : Parts(f, b, l) \subseteq {"form", "button", "link"}
  BY DEF Parts
<1>4. /\ c.password \in BOOLEAN /\ c.conditional \in BOOLEAN /\ c.links \in BOOLEAN
      /\ (c.password /\ c.links) \in BOOLEAN
  BY DEF Contexts
<1>5. /\ LoginPage(c) \subseteq {"form", "button", "link"}
      /\ UsernamePage(c) \subseteq {"form", "button", "link"}
      /\ PasswordPage(c) \subseteq {"form", "button", "link"}
      /\ PasskeysPage(c) \subseteq {"form", "button", "link"}
      /\ AuthenticatePage(c) \subseteq {"form", "button", "link"}
      /\ RegisterPage(c) \subseteq {"form", "button", "link"}
  BY <1>3, <1>4 DEF LoginPage, UsernamePage, PasswordPage, PasskeysPage, AuthenticatePage,
                    RegisterPage
<1> QED
  BY <1>1, <1>2, <1>5 DEF PageParts, Kinds

-----------------------------------------------------------------------------
(* Passkeys: one lemma per action, which preserves the invariant             *)

\* The page appears; nothing has happened on it.
LEMMA OpenKeepsPasskeys ==
  ASSUME PasskeyIInv, NEW c \in Contexts, OpenPasskeyPage(c)
  PROVE  PasskeyIInv'
<1>1. /\ passkey = NoPage /\ passkey' = c /\ shown' = PageParts(c) /\ script' = script
      /\ calls' = calls /\ fields' = fields /\ posted' = posted /\ tooEarly' = tooEarly
  BY DEF OpenPasskeyPage
<1>2. /\ script = "none" /\ posted = Nothing /\ fields = NoFields
      /\ \A i \in Callers : calls[i] = "none"
  BY <1>1 DEF PasskeyIInv, ScriptFirst
<1>3. c # NoPage /\ PageParts(c) \subseteq {"form", "button", "link"}
  BY PartsOfPages
<1>4. PasskeyTypeOK'
  BY <1>1, <1>3 DEF PasskeyIInv, PasskeyTypeOK
<1>5. AtMostOne' /\ ScriptFirst'
  BY <1>1, <1>2, <1>3 DEF AtMostOne, Pending, ScriptFirst, Nothing
<1>6. PressedOnce'
  BY <1>1, <1>2 DEF PressedOnce, Presses, Once
<1>7. WhoIsCancelled'
  BY <1>1, <1>2, TapsAssumption DEF WhoIsCancelled, Presses, Nothing, NoFields, Autofill, Callers
<1>8. ShownSoFar'
  BY <1>1, <1>2 DEF ShownSoFar
<1> QED
  BY <1>4, <1>5, <1>6, <1>7, <1>8 DEF PasskeyIInv

\* The script begins: it may tell at once that there is no autofill.
LEMMA RunScriptKeepsPasskeys ==
  ASSUME PasskeyIInv, RunScript
  PROVE  PasskeyIInv'
<1>1. /\ passkey # NoPage /\ script = "none" /\ script' = "listening"
      /\ "button" \in PageParts(passkey) \/ passkey.kind = "passkeys"
      /\ passkey' = passkey /\ fields' = fields /\ posted' = posted
  BY DEF RunScript
<1>2. \/ /\ ~Autofills(passkey) \/ ~passkey.supported
         /\ calls' = calls /\ shown' = shown
      \/ passkey.supported /\ Tell(FALSE) /\ calls' = calls
      \/ passkey.supported /\ Autofills(passkey)
         /\ calls' = [calls EXCEPT ![Autofill] = "asking"] /\ shown' = shown
  <2>1. CASE ~Autofills(passkey) \/ ~passkey.supported
    BY <2>1 DEF RunScript
  <2>2. CASE ~(~Autofills(passkey) \/ ~passkey.supported) /\ passkey.identified
    BY <2>2, Zenon DEF RunScript
  <2>3. CASE ~(~Autofills(passkey) \/ ~passkey.supported) /\ ~passkey.identified
    BY <2>3 DEF RunScript
  <2> QED
    BY <2>1, <2>2, <2>3
<1>3. /\ \A i \in Callers : calls[i] = "none"
      /\ fields = NoFields /\ posted.error = "none"
      /\ PasskeyTypeOK /\ ShownSoFar
  BY <1>1 DEF PasskeyIInv, ScriptFirst
<1>4. Autofill \in Callers
  BY TapsAssumption DEF Autofill, Callers
<1>5. /\ DOMAIN calls' = Callers
      /\ calls' \in [Callers -> {"none", "asking", "pending", "aborted", "refused", "done"}]
      /\ \A i \in Callers \ {Autofill} : calls'[i] = "none"
      /\ calls'[Autofill] \in {"none", "asking"}
      /\ calls'[Autofill] = "asking" => Autofills(passkey)
  BY <1>2, <1>3, <1>4 DEF PasskeyTypeOK
<1>6. /\ shown \subseteq shown' /\ shown' \subseteq {"form", "button", "link"}
      /\ passkey.kind = "passkeys" /\ passkey.password /\ passkey.supported
         => calls'[Autofill] = "asking" \/ {"form", "button"} \cap shown' # {}
  <2>1. passkey.kind = "passkeys" => Autofills(passkey)
    BY DEF Autofills
  <2>2. shown \subseteq {"form", "button", "link"}
    BY <1>3 DEF PasskeyTypeOK
  <2>3. CASE Tell(FALSE)
    BY <2>2, <2>3, TellShows
  <2> QED
    BY <1>2, <1>3, <1>4, <2>1, <2>2, <2>3 DEF PasskeyTypeOK
<1>7. tooEarly' = tooEarly
  BY DEF RunScript
<1>8. PasskeyTypeOK'
  BY <1>1, <1>3, <1>5, <1>6, <1>7 DEF PasskeyTypeOK
<1>9. AtMostOne' /\ ScriptFirst' /\ PressedOnce'
  BY <1>1, <1>4, <1>5 DEF AtMostOne, Pending, ScriptFirst, PressedOnce, Presses
<1>10. WhoIsCancelled'
  <2>1. Autofills(passkey) => passkey.kind # "register"
    BY DEF Autofills
  <2> QED
    BY <1>1, <1>3, <1>5, <2>1 DEF WhoIsCancelled, Presses, NoFields
<1>11. ShownSoFar'
  <2>1. PageParts(passkey) \subseteq shown'
    BY <1>1, <1>3, <1>6 DEF ShownSoFar
  <2> QED
    BY <1>1, <1>5, <1>6, <2>1 DEF ShownSoFar
<1> QED
  BY <1>8, <1>9, <1>10, <1>11 DEF PasskeyIInv

\* The answer to whether there is autofill; the call that follows cancels a
\* press only if it came too early.
LEMMA MediationKeepsPasskeys ==
  ASSUME PasskeyIInv, MediationKnown
  PROVE  PasskeyIInv'
<1>1. /\ calls[Autofill] = "asking"
      /\ passkey' = passkey /\ script' = script /\ fields' = fields /\ posted' = posted
  BY DEF MediationKnown
<1>2. tooEarly' = tooEarly
  BY DEF MediationKnown
<1>3. PasskeyTypeOK /\ AtMostOne /\ ScriptFirst /\ PressedOnce /\ WhoIsCancelled /\ ShownSoFar
  BY DEF PasskeyIInv
<1>4. Autofill \in Callers
  BY TapsAssumption DEF Autofill, Callers
<1>5. script # "none" /\ passkey # NoPage /\ passkey.kind # "register"
      /\ (Presses # {} => tooEarly)
  BY <1>1, <1>3, <1>4 DEF ScriptFirst, WhoIsCancelled
<1>6. \/ Tell(TRUE) /\ calls' = Signal(Autofill)
      \/ Tell(FALSE) /\ calls' = [calls EXCEPT ![Autofill] = "done"]
  BY DEF MediationKnown, Unavailable
<1>7. /\ shown \subseteq shown' /\ shown' \subseteq {"form", "button", "link"}
      /\ passkey.kind = "passkeys" /\ passkey.password => {"form", "button"} \cap shown' # {}
  <2>1. shown \subseteq {"form", "button", "link"}
    BY <1>3 DEF PasskeyTypeOK
  <2> QED
    BY <1>6, <2>1, TellShows
<1>8. /\ DOMAIN calls' = Callers
      /\ calls'[Autofill] \in {"pending", "done"}
      /\ \A j \in Callers \ {Autofill} :
            \/ calls'[j] = calls[j] /\ (calls'[Autofill] = "pending" => calls'[j] # "pending")
            \/ calls[j] = "pending" /\ calls'[j] = "aborted"
  <2>1. CASE Tell(TRUE) /\ calls' = Signal(Autofill)
    BY <1>3, <1>4, <2>1, SignalCancels DEF PasskeyTypeOK
  <2>2. CASE calls' = [calls EXCEPT ![Autofill] = "done"]
    BY <1>3, <1>4, <2>2 DEF PasskeyTypeOK
  <2> QED
    BY <1>6, <2>1, <2>2
<1>9. calls' \in [Callers -> {"none", "asking", "pending", "aborted", "refused", "done"}]
  <2>1. calls' = [j \in Callers |-> calls'[j]]
    BY <1>4, <1>6, <1>3 DEF Signal, PasskeyTypeOK
  <2> QED
    BY <1>3, <1>8, <2>1 DEF PasskeyTypeOK
<1>10. PasskeyTypeOK'
  BY <1>1, <1>2, <1>3, <1>7, <1>9 DEF PasskeyTypeOK
<1>11. AtMostOne'
  BY <1>3, <1>4, <1>8 DEF AtMostOne, Pending
<1>12. Presses' = Presses
  BY <1>3, <1>4, <1>8 DEF Presses
<1>13. ScriptFirst' /\ PressedOnce'
  BY <1>1, <1>3, <1>5, <1>12 DEF ScriptFirst, PressedOnce
<1>14. WhoIsCancelled'
  <2>1. \A j \in Callers \ {Autofill} : calls'[j] = "aborted" => (passkey.kind = "authenticate" \/ tooEarly)
    BY <1>3, <1>5, <1>8 DEF WhoIsCancelled, Presses
  <2> QED
    BY <1>1, <1>2, <1>3, <1>5, <1>8, <2>1 DEF WhoIsCancelled
<1>15. ShownSoFar'
  <2>1. PageParts(passkey) \subseteq shown'
    BY <1>3, <1>5, <1>7 DEF ShownSoFar
  <2>2. "button" \in shown' \/ passkey.kind = "passkeys"
    BY <1>3, <1>5, <1>7 DEF ShownSoFar
  <2> QED
    BY <1>1, <1>3, <1>7, <1>8, <2>1, <2>2 DEF ShownSoFar
<1> QED
  BY <1>10, <1>11, <1>13, <1>14, <1>15 DEF PasskeyIInv

\* What a press changes besides the calls and the fields.
LEMMA PressFacts ==
  ASSUME PasskeyIInv, NEW i \in Callers, Tap(i)
  PROVE  /\ script = "listening" /\ script' \in {"listening", "deaf"}
         /\ "button" \in shown /\ passkey # NoPage
         /\ i # Autofill /\ calls[i] = "none"
         /\ passkey' = passkey /\ shown' = shown
         /\ Once(passkey) => script' = "deaf" /\ Presses = {}
         /\ script' = "deaf" => Once(passkey)
<1>1. PressedOnce /\ ScriptFirst
  BY DEF PasskeyIInv
<1> QED
  BY <1>1 DEF Tap, PressedOnce, ScriptFirst

\* A press came too early if autofill was still being asked about.
LEMMA PressIsTimed ==
  ASSUME PasskeyIInv, NEW i \in Callers, Tap(i)
  PROVE  /\ tooEarly' \in BOOLEAN
         /\ tooEarly => tooEarly'
         /\ calls[Autofill] = "asking" => tooEarly'
  BY DEF PasskeyIInv, PasskeyTypeOK, Tap

\* A press after which its call is somewhere, and those of others are where
\* they were or cancelled, keeps the order of things.
LEMMA PressKeepsPasskeys ==
  ASSUME PasskeyIInv, NEW i \in Callers, Tap(i),
         calls' \in [Callers -> {"none", "asking", "pending", "aborted", "refused", "done"}],
         calls'[i] \in {"pending", "refused", "done"},
         \A j \in Callers \ {i} :
            \/ calls'[j] = calls[j] /\ (calls'[i] = "pending" => calls'[j] # "pending")
            \/ calls[j] = "pending" /\ calls'[j] = "aborted" /\ passkey.kind # "register",
         fields' \in [answer : {"none", "autofill", "button"},
                      error : {"none", "aborted", "refused", "unsupported", "undefined"}],
         posted' \in {Nothing} \cup [form : {"login", "webauth"},
                      answer : {"none", "autofill", "button"},
                      error : {"none", "aborted", "refused", "unsupported", "undefined"}],
         \/ fields' = fields /\ posted' = posted
         \/ fields'.error # "aborted" /\ posted'.error # "aborted" /\ posted' # Nothing,
         calls'[i] = "done" /\ posted' = Nothing => passkey.identified /\ ~passkey.authenticators
  PROVE  PasskeyIInv'
<1>1. PasskeyTypeOK /\ AtMostOne /\ PressedOnce /\ WhoIsCancelled /\ ShownSoFar
  BY DEF PasskeyIInv
<1>2. /\ script = "listening" /\ script' \in {"listening", "deaf"}
      /\ "button" \in shown /\ passkey # NoPage
      /\ i # Autofill /\ calls[i] = "none"
      /\ passkey' = passkey /\ shown' = shown
      /\ Once(passkey) => script' = "deaf" /\ Presses = {}
      /\ script' = "deaf" => Once(passkey)
  BY PressFacts
<1>3. /\ tooEarly' \in BOOLEAN
      /\ tooEarly => tooEarly'
      /\ calls[Autofill] = "asking" => tooEarly'
  BY PressIsTimed
<1>4. Autofill \in Callers
  BY TapsAssumption DEF Autofill, Callers
<1>5. PasskeyTypeOK'
  BY <1>1, <1>2, <1>3 DEF PasskeyTypeOK
<1>6. AtMostOne'
  BY <1>1 DEF AtMostOne, Pending
<1>7. ScriptFirst'
  BY <1>2 DEF ScriptFirst
<1>8. Presses' = Presses \cup {i}
  BY <1>2 DEF Presses
<1>9. PressedOnce'
  <2>1. Once(passkey') = Once(passkey)
    BY <1>2
  <2> QED
    BY <1>2, <1>8, <2>1 DEF PressedOnce
<1>10. WhoIsCancelled'
  <2>1. \A j \in Callers \ {Autofill} : calls'[j] = "aborted" => (passkey.kind = "authenticate" \/ tooEarly')
    <3> SUFFICES ASSUME NEW j \in Callers \ {Autofill}, calls'[j] = "aborted"
                 PROVE  passkey.kind = "authenticate" \/ tooEarly'
      OBVIOUS
    <3>1. CASE calls[j] = "aborted"
      BY <1>1, <1>3, <3>1 DEF WhoIsCancelled
    <3>2. CASE calls[j] # "aborted"
      <4>1. j \in Presses /\ passkey.kind # "register"
        BY <3>2 DEF Presses
      <4> QED
        BY <1>2, <4>1 DEF Once
    <3> QED
      BY <3>1, <3>2
  <2>2. fields'.error = "aborted" \/ posted'.error = "aborted" => (passkey.kind = "authenticate" \/ tooEarly')
    BY <1>1, <1>3 DEF WhoIsCancelled
  <2>3. /\ passkey.kind = "register" => calls'[Autofill] = "none"
        /\ calls'[Autofill] = "asking" => tooEarly'
    BY <1>1, <1>2, <1>3, <1>4 DEF WhoIsCancelled
  <2> QED
    BY <1>2, <2>1, <2>2, <2>3 DEF WhoIsCancelled
<1>11. ShownSoFar'
  <2>1. PageParts(passkey) \subseteq shown'
    BY <1>1, <1>2 DEF ShownSoFar
  <2>2. passkey.kind = "passkeys" /\ passkey.password /\ passkey.supported
        => calls'[Autofill] = "asking" \/ {"form", "button"} \cap shown' # {}
    BY <1>2
  <2>3. \A j \in Callers \ {Autofill} : calls'[j] = "done" /\ posted' = Nothing =>
           passkey.identified /\ ~passkey.authenticators
    BY <1>1 DEF ShownSoFar
  <2> QED
    BY <1>2, <2>1, <2>2, <2>3 DEF ShownSoFar
<1> QED
  BY <1>5, <1>6, <1>7, <1>9, <1>10, <1>11 DEF PasskeyIInv

\* What a failure and a success leave in the fields and post.
LEMMA WhatIsPosted ==
  ASSUME PasskeyTypeOK,
         NEW error \in {"none", "aborted", "refused", "unsupported", "undefined"},
         NEW i \in Callers,
         \/ Fail(error)
         \/ Succeed(i) /\ error = fields.error
  PROVE  /\ fields' \in [answer : {"none", "autofill", "button"},
                         error : {"none", "aborted", "refused", "unsupported", "undefined"}]
         /\ posted' \in [form : {"login", "webauth"}, answer : {"none", "autofill", "button"},
                         error : {"none", "aborted", "refused", "unsupported", "undefined"}]
         /\ fields'.error = error /\ posted'.error = error /\ posted' # Nothing
<1>1. fields \in [answer : {"none", "autofill", "button"},
                  error : {"none", "aborted", "refused", "unsupported", "undefined"}]
  BY DEF PasskeyTypeOK
<1>2. /\ fields' \in [answer : {"none", "autofill", "button"},
                      error : {"none", "aborted", "refused", "unsupported", "undefined"}]
      /\ fields'.error = error
      /\ posted' = [form |-> "webauth", answer |-> fields'.answer, error |-> fields'.error]
  BY <1>1 DEF Fail, Succeed, PostFields
<1> QED
  BY <1>2 DEF Nothing

\* Each press goes on in one of four ways.
LEMMA PressesKeepPasskeys ==
  ASSUME PasskeyIInv, NEW i \in Callers,
         TapNoForm(i) \/ TapUnsupported(i) \/ TapAuthenticate(i) \/ TapRegister(i)
  PROVE  PasskeyIInv'
<1>1. Tap(i)
  BY DEF TapNoForm, TapUnsupported, TapAuthenticate, TapRegister, Calls
<1>2. /\ PasskeyTypeOK
      /\ calls \in [Callers -> {"none", "asking", "pending", "aborted", "refused", "done"}]
      /\ DOMAIN calls = Callers
  BY DEF PasskeyIInv, PasskeyTypeOK
<1>3. CASE TapNoForm(i)
  <2>1. /\ calls' = [calls EXCEPT ![i] = "done"]
        /\ fields' = fields /\ posted' = posted
        /\ passkey.identified /\ ~passkey.authenticators
    BY <1>3 DEF TapNoForm
  <2> QED
    BY <1>1, <1>2, <2>1, PressKeepsPasskeys DEF PasskeyTypeOK
<1>4. CASE TapUnsupported(i)
  <2>1. calls' = [calls EXCEPT ![i] = "done"]
    BY <1>4 DEF TapUnsupported
  <2>2. PICK error \in {"unsupported", "undefined"} : Fail(error)
    BY <1>4 DEF TapUnsupported
  <2>3. /\ fields' \in [answer : {"none", "autofill", "button"},
                        error : {"none", "aborted", "refused", "unsupported", "undefined"}]
        /\ posted' \in [form : {"login", "webauth"}, answer : {"none", "autofill", "button"},
                        error : {"none", "aborted", "refused", "unsupported", "undefined"}]
        /\ fields'.error = error /\ posted'.error = error /\ posted' # Nothing
    BY <1>2, <2>2, WhatIsPosted
  <2> QED
    BY <1>1, <1>2, <2>1, <2>3, PressKeepsPasskeys
<1>5. CASE TapAuthenticate(i)
  <2>1. /\ calls' = Signal(i) /\ passkey.kind # "register"
        /\ fields' = fields /\ posted' = posted
    BY <1>5 DEF TapAuthenticate
  <2>2. /\ DOMAIN calls' = Callers /\ calls'[i] = "pending"
        /\ \A j \in Callers \ {i} :
              calls'[j] = IF calls[j] = "pending" THEN "aborted" ELSE calls[j]
    BY <1>2, <2>1, SignalCancels
  <2>3. calls' \in [Callers -> {"none", "asking", "pending", "aborted", "refused", "done"}]
    BY <1>2, <2>1 DEF Signal
  <2> QED
    BY <1>1, <1>2, <2>1, <2>2, <2>3, PressKeepsPasskeys DEF PasskeyTypeOK
<1>6. CASE TapRegister(i)
  <2>1. /\ calls' = [calls EXCEPT ![i] = IF Pending = {} THEN "pending" ELSE "refused"]
        /\ fields' = fields /\ posted' = posted
    BY <1>6 DEF TapRegister
  <2>2. \A j \in Callers \ {i} :
           calls'[j] = calls[j] /\ (calls'[i] = "pending" => calls'[j] # "pending")
    BY <1>2, <2>1 DEF Pending
  <2> QED
    BY <1>1, <1>2, <2>1, <2>2, PressKeepsPasskeys DEF PasskeyTypeOK
<1> QED
  BY <1>3, <1>4, <1>5, <1>6

\* A call ends: with a passkey, a refusal, or its cancellation.
LEMMA SettlingKeepsPasskeys ==
  ASSUME PasskeyIInv, NEW i \in Callers, Settles(i)
  PROVE  PasskeyIInv'
<1>1. PasskeyTypeOK /\ AtMostOne /\ ScriptFirst /\ PressedOnce /\ WhoIsCancelled /\ ShownSoFar
  BY DEF PasskeyIInv
<1>2. /\ passkey' = passkey /\ shown' = shown /\ script' = script
      /\ calls[i] \in {"pending", "refused", "aborted"}
      /\ calls' = [calls EXCEPT ![i] = "done"]
  BY DEF Settles, Chosen, RefusedCall, Aborted, Rejected
<1>3. tooEarly' = tooEarly
  BY DEF Settles, Chosen, RefusedCall, Aborted, Rejected
<1>4. PICK error \in {"none", "aborted", "refused", "unsupported", "undefined"} :
         /\ \/ Fail(error) /\ i # Autofill /\ (error = "aborted" => calls[i] = "aborted")
            \/ Succeed(i) /\ error = fields.error
            \/ i = Autofill /\ fields' = fields /\ posted' = posted
  <2>1. CASE Chosen(i)
    <3>1. fields.error \in {"none", "aborted", "refused", "unsupported", "undefined"}
      BY <1>1 DEF PasskeyTypeOK
    <3> QED
      BY <2>1, <3>1 DEF Chosen
  <2>2. CASE RefusedCall(i)
    <3>1. \/ Fail("refused") /\ i # Autofill
          \/ i = Autofill /\ fields' = fields /\ posted' = posted
      BY <2>2 DEF RefusedCall, Rejected, AutofillRejected
    <3> QED
      BY <3>1
  <2>3. CASE Aborted(i)
    <3>1. \/ Fail("aborted") /\ i # Autofill /\ calls[i] = "aborted"
          \/ i = Autofill /\ fields' = fields /\ posted' = posted
      BY <2>3 DEF Aborted, Rejected, AutofillRejected
    <3> QED
      BY <3>1
  <2> QED
    BY <2>1, <2>2, <2>3 DEF Settles
<1>5. /\ calls' \in [Callers -> {"none", "asking", "pending", "aborted", "refused", "done"}]
      /\ calls'[i] = "done" /\ \A j \in Callers \ {i} : calls'[j] = calls[j]
  BY <1>1, <1>2 DEF PasskeyTypeOK
<1>6. \/ i = Autofill /\ fields' = fields /\ posted' = posted
      \/ /\ fields' \in [answer : {"none", "autofill", "button"},
                         error : {"none", "aborted", "refused", "unsupported", "undefined"}]
         /\ posted' \in [form : {"login", "webauth"}, answer : {"none", "autofill", "button"},
                         error : {"none", "aborted", "refused", "unsupported", "undefined"}]
         /\ fields'.error = error /\ posted'.error = error /\ posted' # Nothing
  BY <1>1, <1>4, WhatIsPosted
<1>7. PasskeyTypeOK'
  BY <1>1, <1>2, <1>3, <1>5, <1>6 DEF PasskeyTypeOK
<1>8. AtMostOne'
  BY <1>1, <1>5 DEF AtMostOne, Pending
<1>9. script # "none" /\ passkey # NoPage
  BY <1>1, <1>2 DEF ScriptFirst
<1>10. Presses' = Presses
  BY <1>2, <1>5 DEF Presses
<1>11. ScriptFirst' /\ PressedOnce'
  <2>1. Once(passkey') = Once(passkey)
    BY <1>2
  <2> QED
    BY <1>1, <1>2, <1>9, <1>10, <2>1 DEF ScriptFirst, PressedOnce
<1>12. WhoIsCancelled'
  <2>1. fields'.error = "aborted" \/ posted'.error = "aborted"
        => (passkey.kind = "authenticate" \/ tooEarly)
    BY <1>1, <1>4, <1>6 DEF WhoIsCancelled, Fail, Succeed, PostFields
  <2>2. /\ passkey.kind = "register" => calls'[Autofill] = "none"
        /\ calls'[Autofill] = "asking" /\ Presses # {} => tooEarly
        /\ \A j \in Callers \ {Autofill} :
              calls'[j] = "aborted" => (passkey.kind = "authenticate" \/ tooEarly)
    <3>1. Autofill \in Callers
      BY TapsAssumption DEF Autofill, Callers
    <3> QED
      BY <1>1, <1>2, <1>5, <3>1 DEF WhoIsCancelled
  <2> QED
    BY <1>2, <1>3, <1>10, <2>1, <2>2 DEF WhoIsCancelled
<1>13. ShownSoFar'
  <2>1. PageParts(passkey) \subseteq shown'
    BY <1>1, <1>2, <1>9 DEF ShownSoFar
  <2>2. passkey.kind = "passkeys" /\ passkey.password /\ passkey.supported
        => calls'[Autofill] = "asking" \/ {"form", "button"} \cap shown' # {}
    <3>1. Autofill \in Callers
      BY TapsAssumption DEF Autofill, Callers
    <3> QED
      BY <1>1, <1>2, <1>5, <1>9, <3>1 DEF ShownSoFar
  <2>3. \A j \in Callers \ {Autofill} : calls'[j] = "done" /\ posted' = Nothing =>
           passkey.identified /\ ~passkey.authenticators
    BY <1>1, <1>2, <1>5, <1>6 DEF ShownSoFar
  <2>4. "button" \in shown' \/ passkey.kind = "passkeys"
    BY <1>1, <1>2, <1>9 DEF ShownSoFar
  <2> QED
    BY <1>2, <2>1, <2>2, <2>3, <2>4 DEF ShownSoFar
<1> QED
  BY <1>7, <1>8, <1>11, <1>12, <1>13 DEF PasskeyIInv

\* The form goes off without a word about passkeys.
LEMMA SubmitFormKeepsPasskeys ==
  ASSUME PasskeyIInv, SubmitForm
  PROVE  PasskeyIInv'
<1>1. PasskeyTypeOK /\ AtMostOne /\ ScriptFirst /\ PressedOnce /\ WhoIsCancelled /\ ShownSoFar
  BY DEF PasskeyIInv
<1>2. /\ "form" \in shown
      /\ posted' = [form |-> "login", answer |-> "none", error |-> "none"]
      /\ passkey' = passkey /\ shown' = shown /\ script' = script /\ calls' = calls
      /\ fields' = fields
  BY DEF SubmitForm
<1>3. tooEarly' = tooEarly
  BY DEF SubmitForm
<1>4. posted' \in [form : {"login", "webauth"}, answer : {"none", "autofill", "button"},
                   error : {"none", "aborted", "refused", "unsupported", "undefined"}]
      /\ posted' # Nothing /\ posted'.error = "none"
  BY <1>2 DEF Nothing
<1>5. PasskeyTypeOK' /\ AtMostOne'
  BY <1>1, <1>2, <1>3, <1>4 DEF PasskeyTypeOK, AtMostOne, Pending
<1>6. ScriptFirst'
  <2>1. passkey # NoPage
    BY <1>1, <1>2 DEF ScriptFirst
  <2> QED
    BY <1>1, <1>2, <1>4, <2>1 DEF ScriptFirst
<1>7. Presses' = Presses /\ Once(passkey') = Once(passkey)
  BY <1>2 DEF Presses
<1>8. PressedOnce' /\ WhoIsCancelled'
  BY <1>1, <1>2, <1>3, <1>4, <1>7 DEF PressedOnce, WhoIsCancelled
<1>9. ShownSoFar'
  BY <1>1, <1>2, <1>4 DEF ShownSoFar
<1> QED
  BY <1>5, <1>6, <1>8, <1>9 DEF PasskeyIInv

-----------------------------------------------------------------------------
(* Passkeys: the theorems                                                    *)

\* The invariant holds on every page, for any number of presses.
THEOREM PasskeyInvariance == PasskeySpec => []PasskeyIInv
<1>1. PasskeyInit => PasskeyIInv
  <2> SUFFICES ASSUME PasskeyInit
               PROVE  PasskeyIInv
    OBVIOUS
  <2>1. /\ passkey = NoPage /\ shown = {} /\ script = "none"
        /\ calls = [i \in Callers |-> "none"]
        /\ fields = NoFields /\ posted = Nothing
    BY DEF PasskeyInit
  <2>2. tooEarly \in BOOLEAN
    BY DEF PasskeyInit
  <2>3. PasskeyTypeOK
    BY <2>1, <2>2 DEF PasskeyTypeOK, NoFields
  <2>4. AtMostOne /\ ScriptFirst /\ PressedOnce
    BY <2>1 DEF AtMostOne, Pending, ScriptFirst, Nothing, PressedOnce, Presses
  <2>5. Autofill \in Callers
    BY TapsAssumption DEF Autofill, Callers
  <2>6. WhoIsCancelled /\ ShownSoFar
    BY <2>1, <2>5 DEF WhoIsCancelled, ShownSoFar, Nothing, NoFields
  <2> QED
    BY <2>3, <2>4, <2>6 DEF PasskeyIInv
<1>2. PasskeyIInv /\ [PasskeyNext]_webAuthnVars => PasskeyIInv'
  <2> SUFFICES ASSUME PasskeyIInv, [PasskeyNext]_webAuthnVars
               PROVE  PasskeyIInv'
    OBVIOUS
  <2>1. ASSUME NEW c \in Contexts, OpenPasskeyPage(c)
        PROVE  PasskeyIInv'
    BY <2>1, OpenKeepsPasskeys
  <2>2. CASE RunScript
    BY <2>2, RunScriptKeepsPasskeys
  <2>3. CASE MediationKnown
    BY <2>3, MediationKeepsPasskeys
  <2>4. CASE SubmitForm
    BY <2>4, SubmitFormKeepsPasskeys
  <2>5. ASSUME NEW i \in Callers,
               TapNoForm(i) \/ TapUnsupported(i) \/ TapAuthenticate(i) \/ TapRegister(i)
        PROVE  PasskeyIInv'
    BY <2>5, PressesKeepPasskeys
  <2>6. ASSUME NEW i \in Callers, Settles(i)
        PROVE  PasskeyIInv'
    BY <2>6, SettlingKeepsPasskeys
  <2>7. CASE UNCHANGED webAuthnVars
    BY <2>7 DEF webAuthnVars, PasskeyIInv, PasskeyTypeOK, AtMostOne, Pending, ScriptFirst,
                PressedOnce, Presses, WhoIsCancelled, ShownSoFar
  <2> QED
    BY <2>1, <2>2, <2>3, <2>4, <2>5, <2>6, <2>7 DEF PasskeyNext
<1> QED
  BY <1>1, <1>2, PTL DEF PasskeySpec

\* The variables keep their types, however often the button is pressed.
THEOREM PasskeyTypeCorrect == PasskeySpec => []PasskeyTypeOK
<1>1. PasskeyIInv => PasskeyTypeOK
  BY DEF PasskeyIInv
<1> QED
  BY <1>1, PasskeyInvariance, PTL

\* Two scripts and any number of presses: never two calls that are pending.
THEOREM OneCallAtATime == PasskeySpec => []OneCallPending
<1>1. PasskeyIInv => OneCallPending
  <2> SUFFICES ASSUME AtMostOne
               PROVE  Cardinality(Pending) <= 1
    BY DEF PasskeyIInv, OneCallPending
  <2>1. CASE Pending = {}
    BY <2>1, FS_EmptySet
  <2>2. CASE Pending # {}
    <3>1. PICK i \in Pending : TRUE
      BY <2>2
    <3>2. Pending = {i}
      BY <3>1 DEF AtMostOne
    <3>3. Cardinality(Pending) = 1
      BY <3>2, FS_Singleton
    <3> QED
      BY <3>3
  <2> QED
    BY <2>1, <2>2
<1> QED
  BY <1>1, PasskeyInvariance, PTL

\* The page's own cancellation is told as a failure of the user's only where
\* the button goes on listening, or was pressed too early.
THEOREM CancellationsAreSilent == PasskeySpec => []CancellationIsSilent
<1>1. PasskeyIInv => CancellationIsSilent
  BY DEF PasskeyIInv, WhoIsCancelled, CancellationIsSilent
<1> QED
  BY <1>1, PasskeyInvariance, PTL

\* A page on which nothing is going on has a way on, with the exceptions that
\* the property names.
THEOREM PasskeysHaveAWayOn == PasskeySpec => []PasskeyWayOn
<1>1. PasskeyIInv => PasskeyWayOn
  <2> SUFFICES ASSUME PasskeyIInv, script # "none", posted = Nothing,
                      \A i \in Callers : calls[i] \in {"none", "done"}
               PROVE  \/ {"form", "link"} \cap shown # {}
                      \/ "button" \in shown /\ script = "listening"
                      \/ /\ passkey.identified /\ ~passkey.authenticators
                         /\ \E i \in Callers \ {Autofill} : calls[i] = "done"
                      \/ passkey.kind = "passkeys" /\ (~passkey.password \/ ~passkey.supported)
    BY DEF PasskeyWayOn
  <2>1. PasskeyTypeOK /\ PressedOnce /\ ShownSoFar
    BY DEF PasskeyIInv
  <2>2. Autofill \in Callers /\ calls[Autofill] # "asking"
    BY TapsAssumption DEF Autofill, Callers
  <2>3. CASE Presses # {}
    <3>1. PICK i \in Callers \ {Autofill} : calls[i] = "done"
      BY <2>3 DEF Presses
    <3> QED
      BY <2>1, <3>1 DEF ShownSoFar
  <2>4. CASE Presses = {}
    <3>1. script = "listening"
      BY <2>1, <2>4 DEF PressedOnce, PasskeyTypeOK
    <3> QED
      BY <2>1, <2>2, <3>1 DEF ShownSoFar
  <2> QED
    BY <2>3, <2>4
<1> QED
  BY <1>1, PasskeyInvariance, PTL

-----------------------------------------------------------------------------
(* Profile pictures: one lemma per action, which preserves the invariant     *)

\* The newest upload's file, once it is begun, is on the disk.
LEMMA NewestIsOnDisk ==
  ASSUME AvatarIInv, NEW n \in Uploads, Newest(n), uploads[n].at \in OnDisk
  PROVE  /\ uploads[n].ext \in Present /\ files[uploads[n].ext].of = n
         /\ files[uploads[n].ext].whole <=> uploads[n].at \in {"written", "done"}
<1>1. \A m \in Uploads : m > n => uploads[m].at \notin {"removed", "missing"}
  BY DEF Newest, Begun
<1>2. PICK e \in Present : files[e].of >= n
  BY <1>1 DEF AvatarIInv, LastIsThere
<1>3. /\ files[e].of \in Uploads /\ uploads[files[e].of].ext = e
      /\ uploads[files[e].of].at \in OnDisk
      /\ files[e].whole <=> uploads[files[e].of].at \in {"written", "done"}
  BY DEF AvatarIInv, FilesOfUploads
<1>4. files[e].of = n
  BY <1>2, <1>3, AvatarAssumption DEF Newest, Begun, OnDisk, Uploads
<1> QED
  BY <1>3, <1>4

\* An upload begins and removes; what cannot be removed stays what it is.
LEMMA RemovingKeepsPictures ==
  ASSUME AvatarIInv, NEW n \in Uploads, NEW e \in Extensions, RemoveOld(n, e)
  PROVE  AvatarIInv'
<1>1. AvatarTypeOK /\ OneByOne /\ JobsOfUploads /\ FilesOfUploads /\ LastIsThere /\ DigestToCome
  BY DEF AvatarIInv
<1>2. /\ uploads[n].at = "none" /\ \A k \in 1..(n - 1) : uploads[k].at # "none"
      /\ Saving = {}
      /\ uploads' = [uploads EXCEPT ![n] = [at |-> "removed", ext |-> e]]
      /\ jobs' = jobs /\ worker' = worker
  BY DEF RemoveOld
<1>3. jobLost' = jobLost
  BY DEF RemoveOld
<1>4. /\ files' \in [Extensions -> Contents] /\ digests' \in [Extensions -> Contents]
      /\ \A x \in Extensions : files'[x] \in {files[x], NoFile}
  <2>1. PICK kept \in SUBSET Present, beside \in SUBSET {x \in Extensions : digests[x] # NoFile} :
          /\ files' = [x \in Extensions |-> IF x \in kept THEN files[x] ELSE NoFile]
          /\ digests' = [x \in Extensions |-> IF x \in beside THEN digests[x] ELSE NoFile]
    BY DEF RemoveOld
  <2>2. NoFile \in Contents
    BY AvatarAssumption DEF NoFile, Contents
  <2> QED
    BY <1>1, <2>1, <2>2 DEF AvatarTypeOK
<1>5. faults' \in 0..MaxFaults
  BY <1>1, AvatarAssumption DEF RemoveOld, Fault, AvatarTypeOK
<1>6. uploads' \in [Uploads -> [at : {"none", "removed", "writing", "written", "missing", "cut", "done"},
                                ext : Extensions \cup {"none"}]]
  BY <1>1, <1>2 DEF AvatarTypeOK
<1>7. AvatarTypeOK'
  BY <1>1, <1>2, <1>3, <1>4, <1>5, <1>6 DEF AvatarTypeOK
<1>8. /\ uploads'[n].at = "removed" /\ uploads'[n].ext = e
      /\ \A k \in Uploads \ {n} : uploads'[k] = uploads[k]
  BY <1>1, <1>2 DEF AvatarTypeOK
<1>9. \A k \in Uploads : Begun(k) => k < n
  <2> SUFFICES ASSUME NEW k \in Uploads, Begun(k), k >= n
               PROVE  FALSE
    BY AvatarAssumption DEF Uploads
  <2>1. Begun(n)
    BY <1>1, AvatarAssumption DEF OneByOne, Uploads
  <2> QED
    BY <1>2, <2>1 DEF Begun
<1>10. OneByOne'
  <2>1. Saving' = {n}
    BY <1>2, <1>8 DEF Saving
  <2>2. Newest(n)'
    BY <1>8, <1>9, AvatarAssumption DEF Newest, Begun, Uploads
  <2>3. ASSUME NEW k \in Uploads, Begun(k)'
        PROVE  uploads'[k].ext \in Extensions /\ \A i \in 1..k : Begun(i)'
    <3>1. CASE k = n
      BY <1>2, <1>8, <3>1, AvatarAssumption DEF Begun, Uploads
    <3>2. CASE k # n
      <4>1. Begun(k) /\ k < n
        BY <1>8, <1>9, <2>3, <3>2 DEF Begun
      <4>2. uploads[k].ext \in Extensions /\ \A i \in 1..k : Begun(i)
        BY <1>1, <4>1 DEF OneByOne
      <4> QED
        BY <1>8, <3>2, <4>1, <4>2, AvatarAssumption DEF Begun, Uploads
    <3> QED
      BY <3>1, <3>2
  <2> QED
    BY <2>1, <2>2, <2>3 DEF OneByOne
<1>11. JobsOfUploads'
  <2>1. \A j \in jobs : j.of \in Uploads
    BY <1>1 DEF AvatarTypeOK, ImageJobs
  <2>2. worker.at # "idle" => worker.job.of \in Uploads
    BY <1>1 DEF JobsOfUploads, ImageJobs
  <2> QED
    BY <1>1, <1>2, <1>8, <2>1, <2>2 DEF JobsOfUploads, Begun
<1>12. FilesOfUploads'
  <2> SUFFICES ASSUME NEW x \in Present'
               PROVE  /\ files'[x].of \in Uploads /\ uploads'[files'[x].of].ext = x
                      /\ uploads'[files'[x].of].at \in OnDisk
                      /\ files'[x].whole <=> uploads'[files'[x].of].at \in {"written", "done"}
    BY DEF FilesOfUploads
  <2>1. x \in Present /\ files'[x] = files[x]
    BY <1>4 DEF Present
  <2>2. /\ files[x].of \in Uploads /\ uploads[files[x].of].ext = x
        /\ uploads[files[x].of].at \in OnDisk
        /\ files[x].whole <=> uploads[files[x].of].at \in {"written", "done"}
    BY <1>1, <2>1 DEF FilesOfUploads
  <2>3. files[x].of # n
    BY <1>2, <2>2 DEF OnDisk
  <2> QED
    BY <1>8, <2>1, <2>2, <2>3
<1>13. \A k \in Uploads : uploads'[k].at \in OnDisk => k < n /\ n > k
  BY <1>8, <1>9, AvatarAssumption DEF Begun, OnDisk, Uploads
<1>14. LastIsThere'
  BY <1>8, <1>13 DEF LastIsThere
<1>15. DigestToCome'
  <2>1. \A k \in Uploads : uploads'[k].at = "done" => ~Newest(k)'
    BY <1>8, <1>13 DEF Newest, Begun, OnDisk
  <2>2. \A k \in Uploads : uploads'[k].at \in {"cut", "missing"} => uploads[k].at = uploads'[k].at
    BY <1>8
  <2> QED
    BY <1>1, <1>3, <2>1, <2>2 DEF DigestToCome
<1> QED
  BY <1>7, <1>10, <1>11, <1>12, <1>14, <1>15 DEF AvatarIInv

\* The stages of an upload: what stays of the order and of the jobs.
LEMMA StageKeepsOrder ==
  ASSUME AvatarIInv, NEW n \in Uploads, Begun(n),
         NEW stage \in {"removed", "writing", "written", "missing", "cut", "done"}, Stage(n, stage),
         stage \in {"removed", "writing"} => n \in Saving
  PROVE  /\ uploads' \in [Uploads -> [at : {"none", "removed", "writing", "written", "missing", "cut", "done"},
                                      ext : Extensions \cup {"none"}]]
         /\ uploads'[n].at = stage
         /\ \A k \in Uploads : uploads'[k].ext = uploads[k].ext
         /\ \A k \in Uploads \ {n} : uploads'[k] = uploads[k]
         /\ \A k \in Uploads : Begun(k)' <=> Begun(k)
         /\ \A k \in Uploads : Newest(k)' <=> Newest(k)
         /\ OneByOne'
<1>1. AvatarTypeOK /\ OneByOne
  BY DEF AvatarIInv
<1>2. /\ uploads' \in [Uploads -> [at : {"none", "removed", "writing", "written", "missing", "cut", "done"},
                                   ext : Extensions \cup {"none"}]]
      /\ uploads'[n].at = stage
      /\ \A k \in Uploads : uploads'[k].ext = uploads[k].ext
      /\ \A k \in Uploads \ {n} : uploads'[k] = uploads[k]
  BY <1>1 DEF Stage, AvatarTypeOK
<1>3. \A k \in Uploads : Begun(k)' <=> Begun(k)
  BY <1>2 DEF Begun
<1>4. \A k \in Uploads : Newest(k)' <=> Newest(k)
  BY <1>3 DEF Newest
<1>5. Saving' \subseteq Saving
  BY <1>2 DEF Saving
<1>6. \A k \in Uploads : \A i \in 1..k : i \in Uploads
  BY AvatarAssumption DEF Uploads
<1>7. OneByOne'
  <2>1. \A k \in Saving' : Newest(k)'
    BY <1>1, <1>4, <1>5 DEF OneByOne, Saving
  <2>2. \A k \in Uploads : Begun(k)' => uploads'[k].ext \in Extensions /\ \A i \in 1..k : Begun(i)'
    BY <1>1, <1>2, <1>3, <1>6 DEF OneByOne
  <2> QED
    BY <2>1, <2>2 DEF OneByOne
<1> QED
  BY <1>2, <1>3, <1>4, <1>7

\* ... and the jobs that are there stay those of their uploads.
LEMMA StageKeepsJobs ==
  ASSUME AvatarIInv, jobs' = jobs, worker' = worker,
         \A k \in Uploads : uploads'[k].ext = uploads[k].ext /\ (Begun(k) => Begun(k)')
  PROVE  JobsOfUploads'
<1>1. \A j \in jobs : j.of \in Uploads
  BY DEF AvatarIInv, AvatarTypeOK, ImageJobs
<1>2. worker.at # "idle" => worker.job.of \in Uploads
  BY DEF AvatarIInv, JobsOfUploads, ImageJobs
<1> QED
  BY <1>1, <1>2 DEF AvatarIInv, JobsOfUploads

\* The file is opened: empty, under the extension of the newest upload.
LEMMA BeginWriteKeepsPictures ==
  ASSUME AvatarIInv, NEW n \in Uploads, BeginWrite(n)
  PROVE  AvatarIInv'
<1>1. AvatarTypeOK /\ OneByOne /\ JobsOfUploads /\ FilesOfUploads /\ LastIsThere /\ DigestToCome
  BY DEF AvatarIInv
<1>2. /\ uploads[n].at = "removed" /\ Stage(n, "writing")
      /\ files' = [files EXCEPT ![uploads[n].ext] = [of |-> n, whole |-> FALSE]]
      /\ digests' = digests /\ jobs' = jobs /\ worker' = worker /\ faults' = faults
  BY DEF BeginWrite
<1>3. jobLost' = jobLost
  BY DEF BeginWrite
<1>4. n \in Saving /\ Begun(n)
  BY <1>2 DEF Saving, Begun
<1>5. Newest(n) /\ uploads[n].ext \in Extensions
  BY <1>1, <1>4 DEF OneByOne
<1>6. /\ uploads' \in [Uploads -> [at : {"none", "removed", "writing", "written", "missing", "cut", "done"},
                                   ext : Extensions \cup {"none"}]]
      /\ uploads'[n].at = "writing"
      /\ \A k \in Uploads : uploads'[k].ext = uploads[k].ext
      /\ \A k \in Uploads \ {n} : uploads'[k] = uploads[k]
      /\ \A k \in Uploads : Begun(k)' <=> Begun(k)
      /\ \A k \in Uploads : Newest(k)' <=> Newest(k)
      /\ OneByOne'
  BY <1>2, <1>4, StageKeepsOrder
<1>7. /\ files' \in [Extensions -> Contents]
      /\ files'[uploads[n].ext].of = n /\ ~files'[uploads[n].ext].whole
      /\ \A x \in Extensions \ {uploads[n].ext} : files'[x] = files[x]
  <2>1. [of |-> n, whole |-> FALSE] \in Contents
    BY AvatarAssumption DEF Contents, Uploads
  <2> QED
    BY <1>1, <1>2, <1>5, <2>1 DEF AvatarTypeOK
<1>8. AvatarTypeOK'
  BY <1>1, <1>2, <1>3, <1>6, <1>7 DEF AvatarTypeOK
<1>9. JobsOfUploads'
  BY <1>2, <1>6, StageKeepsJobs
<1>10. FilesOfUploads'
  <2> SUFFICES ASSUME NEW x \in Present'
               PROVE  /\ files'[x].of \in Uploads /\ uploads'[files'[x].of].ext = x
                      /\ uploads'[files'[x].of].at \in OnDisk
                      /\ files'[x].whole <=> uploads'[files'[x].of].at \in {"written", "done"}
    BY DEF FilesOfUploads
  <2>1. CASE x = uploads[n].ext
    BY <1>6, <1>7, <2>1 DEF OnDisk
  <2>2. CASE x # uploads[n].ext
    <3>1. x \in Present /\ files'[x] = files[x]
      BY <1>7, <2>2 DEF Present
    <3>2. /\ files[x].of \in Uploads /\ uploads[files[x].of].ext = x
          /\ uploads[files[x].of].at \in OnDisk
          /\ files[x].whole <=> uploads[files[x].of].at \in {"written", "done"}
      BY <1>1, <3>1 DEF FilesOfUploads
    <3>3. files[x].of # n
      BY <1>2, <3>2 DEF OnDisk
    <3> QED
      BY <1>6, <3>1, <3>2, <3>3
  <2> QED
    BY <2>1, <2>2
<1>11. LastIsThere'
  <2>1. uploads[n].ext \in Present'
    <3>1. files'[uploads[n].ext] # NoFile
      BY <1>7, AvatarAssumption DEF NoFile, Uploads
    <3> QED
      BY <1>5, <3>1 DEF Present
  <2>2. \A k \in Uploads : uploads'[k].at \in OnDisk => n >= k
    BY <1>5, <1>6, AvatarAssumption DEF Newest, Begun, OnDisk, Uploads
  <2> QED
    BY <1>7, <2>1, <2>2 DEF LastIsThere
<1>12. DigestToCome'
  <2>1. \A k \in Uploads : uploads'[k].at = "done" => ~Newest(k)'
    BY <1>4, <1>5, <1>6, AvatarAssumption DEF Newest, Begun, Uploads
  <2>2. \A k \in Uploads : uploads'[k].at \in {"cut", "missing"} => uploads[k].at = uploads'[k].at
    BY <1>6
  <2> QED
    BY <1>1, <1>3, <2>1, <2>2 DEF DigestToCome
<1> QED
  BY <1>6, <1>8, <1>9, <1>10, <1>11, <1>12 DEF AvatarIInv

\* The file is filled: it is still this upload's.
LEMMA EndWriteKeepsPictures ==
  ASSUME AvatarIInv, NEW n \in Uploads, EndWrite(n)
  PROVE  AvatarIInv'
<1>1. AvatarTypeOK /\ OneByOne /\ JobsOfUploads /\ FilesOfUploads /\ LastIsThere /\ DigestToCome
  BY DEF AvatarIInv
<1>2. /\ uploads[n].at = "writing" /\ Stage(n, "written")
      /\ files' = [files EXCEPT ![uploads[n].ext].whole = TRUE]
      /\ digests' = digests /\ jobs' = jobs /\ worker' = worker /\ faults' = faults
  BY DEF EndWrite
<1>3. jobLost' = jobLost
  BY DEF EndWrite
<1>4. n \in Saving /\ Begun(n)
  BY <1>2 DEF Saving, Begun
<1>5. Newest(n) /\ uploads[n].ext \in Extensions
  BY <1>1, <1>4 DEF OneByOne
<1>6. /\ uploads' \in [Uploads -> [at : {"none", "removed", "writing", "written", "missing", "cut", "done"},
                                   ext : Extensions \cup {"none"}]]
      /\ uploads'[n].at = "written"
      /\ \A k \in Uploads : uploads'[k].ext = uploads[k].ext
      /\ \A k \in Uploads \ {n} : uploads'[k] = uploads[k]
      /\ \A k \in Uploads : Begun(k)' <=> Begun(k)
      /\ \A k \in Uploads : Newest(k)' <=> Newest(k)
      /\ OneByOne'
  BY <1>2, <1>4, StageKeepsOrder
<1>7. uploads[n].ext \in Present /\ files[uploads[n].ext].of = n
  BY <1>2, <1>5, NewestIsOnDisk DEF OnDisk
<1>8. /\ files' \in [Extensions -> Contents]
      /\ files'[uploads[n].ext].of = n /\ files'[uploads[n].ext].whole
      /\ \A x \in Extensions \ {uploads[n].ext} : files'[x] = files[x]
      /\ \A x \in Extensions : files'[x].of = files[x].of
  BY <1>1, <1>2, <1>5, <1>7 DEF AvatarTypeOK, Contents
<1>9. AvatarTypeOK'
  BY <1>1, <1>2, <1>3, <1>6, <1>8 DEF AvatarTypeOK
<1>10. JobsOfUploads'
  BY <1>2, <1>6, StageKeepsJobs
<1>11. uploads[n].ext \in Present'
  BY <1>5, <1>8, AvatarAssumption DEF Present, NoFile, Uploads
<1>12. FilesOfUploads'
  <2> SUFFICES ASSUME NEW x \in Present'
               PROVE  /\ files'[x].of \in Uploads /\ uploads'[files'[x].of].ext = x
                      /\ uploads'[files'[x].of].at \in OnDisk
                      /\ files'[x].whole <=> uploads'[files'[x].of].at \in {"written", "done"}
    BY DEF FilesOfUploads
  <2>1. CASE x = uploads[n].ext
    BY <1>6, <1>8, <2>1 DEF OnDisk
  <2>2. CASE x # uploads[n].ext
    <3>1. x \in Present /\ files'[x] = files[x]
      BY <1>8, <2>2 DEF Present
    <3>2. /\ files[x].of \in Uploads /\ uploads[files[x].of].ext = x
          /\ uploads[files[x].of].at \in OnDisk
          /\ files[x].whole <=> uploads[files[x].of].at \in {"written", "done"}
      BY <1>1, <3>1 DEF FilesOfUploads
    <3>3. files[x].of # n
      BY <2>2, <3>2
    <3> QED
      BY <1>6, <3>1, <3>2, <3>3
  <2> QED
    BY <2>1, <2>2
<1>13. LastIsThere'
  <2>1. \A k \in Uploads : uploads'[k].at \in OnDisk => n >= k
    BY <1>5, <1>6, AvatarAssumption DEF Newest, Begun, OnDisk, Uploads
  <2> QED
    BY <1>8, <1>11, <2>1 DEF LastIsThere
<1>14. DigestToCome'
  <2>1. \A k \in Uploads : uploads'[k].at = "done" => ~Newest(k)'
    BY <1>4, <1>5, <1>6, AvatarAssumption DEF Newest, Begun, Uploads
  <2>2. \A k \in Uploads : uploads'[k].at \in {"cut", "missing"} => uploads[k].at = uploads'[k].at
    BY <1>6
  <2> QED
    BY <1>1, <1>3, <2>1, <2>2 DEF DigestToCome
<1> QED
  BY <1>6, <1>9, <1>10, <1>12, <1>13, <1>14 DEF AvatarIInv

\* A write that fails leaves what is there, and no digest is owed any more.
LEMMA FailingKeepsPictures ==
  ASSUME AvatarIInv, NEW n \in Uploads, WriteFails(n)
  PROVE  AvatarIInv'
<1>1. AvatarTypeOK /\ OneByOne /\ JobsOfUploads /\ FilesOfUploads /\ LastIsThere
  BY DEF AvatarIInv
<1>2. /\ n \in Saving /\ Fault
      /\ Stage(n, IF uploads[n].at = "removed" THEN "missing" ELSE "cut")
      /\ files' = files /\ digests' = digests /\ jobs' = jobs /\ worker' = worker
  BY DEF WriteFails
<1>3. jobLost' = TRUE
  BY DEF WriteFails
<1>4. /\ \/ uploads[n].at = "removed" /\ Stage(n, "missing")
         \/ uploads[n].at = "writing" /\ Stage(n, "cut")
      /\ Begun(n)
  BY <1>2 DEF Saving, Begun
<1>5. Newest(n)
  BY <1>1, <1>2 DEF OneByOne
<1>6. /\ uploads' \in [Uploads -> [at : {"none", "removed", "writing", "written", "missing", "cut", "done"},
                                   ext : Extensions \cup {"none"}]]
      /\ \/ uploads[n].at = "removed" /\ uploads'[n].at = "missing"
         \/ uploads[n].at = "writing" /\ uploads'[n].at = "cut"
      /\ \A k \in Uploads : uploads'[k].ext = uploads[k].ext
      /\ \A k \in Uploads \ {n} : uploads'[k] = uploads[k]
      /\ \A k \in Uploads : Begun(k)' <=> Begun(k)
      /\ OneByOne'
  BY <1>4, StageKeepsOrder
<1>7. AvatarTypeOK'
  <2>1. faults' \in 0..MaxFaults
    BY <1>1, <1>2, AvatarAssumption DEF AvatarTypeOK, Fault
  <2> QED
    BY <1>1, <1>2, <1>3, <1>6, <2>1 DEF AvatarTypeOK
<1>8. JobsOfUploads'
  BY <1>2, <1>6, StageKeepsJobs
<1>9. Present' = Present
  BY <1>2 DEF Present
<1>10. FilesOfUploads'
  BY <1>1, <1>2, <1>6, <1>9 DEF FilesOfUploads, OnDisk
<1>11. LastIsThere'
  <2> SUFFICES ASSUME NEW k \in Uploads, uploads'[k].at \in OnDisk,
                      \A m \in Uploads : m > k => uploads'[m].at \notin {"removed", "missing"}
               PROVE  \E e \in Present : files[e].of >= k
    BY <1>2, <1>9 DEF LastIsThere
  <2>1. uploads[k].at \in OnDisk
    BY <1>6 DEF OnDisk
  <2>2. k <= n
    BY <1>5, <2>1, AvatarAssumption DEF Newest, Begun, OnDisk, Uploads
  <2>3. uploads[n].at # "removed"
    BY <1>6, <2>2, AvatarAssumption DEF OnDisk, Uploads
  <2>4. \A m \in Uploads : m > k => uploads[m].at \notin {"removed", "missing"}
    BY <1>6, <2>3
  <2> QED
    BY <1>1, <2>1, <2>4 DEF LastIsThere
<1>12. DigestToCome'
  BY <1>3 DEF DigestToCome
<1> QED
  BY <1>6, <1>7, <1>8, <1>10, <1>11, <1>12 DEF AvatarIInv

\* The job is queued, or it is known to be lost.
LEMMA EnqueueKeepsPictures ==
  ASSUME AvatarIInv, NEW n \in Uploads, EnqueueJob(n)
  PROVE  AvatarIInv'
<1>1. AvatarTypeOK /\ OneByOne /\ JobsOfUploads /\ FilesOfUploads /\ LastIsThere /\ DigestToCome
  BY DEF AvatarIInv
<1>2. /\ uploads[n].at = "written" /\ Stage(n, "done")
      /\ files' = files /\ digests' = digests /\ worker' = worker
  BY DEF EnqueueJob
<1> DEFINE job == [of |-> n, ext |-> uploads[n].ext, attempt |-> 1]
<1>3. \/ jobs' = jobs \cup {job} /\ faults' = faults /\ jobLost' = jobLost
      \/ jobs' = jobs /\ Fault /\ jobLost' = TRUE
  BY DEF EnqueueJob
<1>4. Begun(n)
  BY <1>2 DEF Begun
<1>5. uploads[n].ext \in Extensions
  BY <1>1, <1>4 DEF OneByOne
<1>6. /\ uploads' \in [Uploads -> [at : {"none", "removed", "writing", "written", "missing", "cut", "done"},
                                   ext : Extensions \cup {"none"}]]
      /\ uploads'[n].at = "done"
      /\ \A k \in Uploads : uploads'[k].ext = uploads[k].ext
      /\ \A k \in Uploads \ {n} : uploads'[k] = uploads[k]
      /\ \A k \in Uploads : Begun(k)' <=> Begun(k)
      /\ \A k \in Uploads : Newest(k)' <=> Newest(k)
      /\ OneByOne'
  BY <1>2, <1>4, StageKeepsOrder
<1>7. job \in ImageJobs
  BY <1>5, AvatarAssumption DEF ImageJobs
<1>8. AvatarTypeOK'
  <2>1. jobs' \subseteq jobs \cup {job} /\ faults' \in 0..MaxFaults
    BY <1>1, <1>3, AvatarAssumption DEF AvatarTypeOK, Fault
  <2>2. jobLost \in BOOLEAN
    BY <1>1 DEF AvatarTypeOK
  <2>3. jobLost' \in BOOLEAN
    BY <1>3, <2>2, Zenon
  <2> QED
    BY <1>1, <1>2, <1>6, <1>7, <2>1, <2>3 DEF AvatarTypeOK
<1>9. JobsOfUploads'
  <2>1. \A j \in jobs : j.of \in Uploads
    BY <1>1 DEF AvatarTypeOK, ImageJobs
  <2>2. worker.at # "idle" => worker.job.of \in Uploads
    BY <1>1 DEF JobsOfUploads, ImageJobs
  <2>3. \A j \in jobs' : Begun(j.of)' /\ j.ext = uploads'[j.of].ext
    BY <1>1, <1>3, <1>4, <1>6, <2>1 DEF JobsOfUploads
  <2> QED
    BY <1>1, <1>2, <1>6, <2>2, <2>3 DEF JobsOfUploads
<1>10. Present' = Present
  BY <1>2 DEF Present
<1>11. FilesOfUploads'
  BY <1>1, <1>2, <1>6, <1>10 DEF FilesOfUploads, OnDisk
<1>12. LastIsThere'
  BY <1>1, <1>2, <1>6, <1>10 DEF LastIsThere, OnDisk
<1>13. DigestToCome'
  <2> SUFFICES ASSUME ~jobLost'
               PROVE  DigestToCome'
    BY DEF DigestToCome
  <2>1. jobs' = jobs \cup {job} /\ ~jobLost
    <3>1. ~(jobs' = jobs /\ Fault /\ jobLost' = TRUE)
      OBVIOUS
    <3>2. jobs' = jobs \cup {job} /\ jobLost' = jobLost
      BY <1>3, <3>1
    <3> QED
      BY <3>2, Zenon
  <2>2. \A k \in Uploads : uploads'[k].at \notin {"cut", "missing"}
    BY <1>1, <1>6, <2>1 DEF DigestToCome
  <2>3. ASSUME NEW e \in Extensions, DigestComes(e)
        PROVE  DigestComes(e)'
    BY <1>2, <2>1, <2>3 DEF DigestComes, Awaited, Worked
  <2>4. DigestComes(uploads[n].ext)'
    <3>1. job \in jobs' /\ job.ext = uploads[n].ext
      BY <2>1
    <3>2. Awaited(uploads[n].ext)'
      BY <1>6, <3>1 DEF Awaited
    <3> QED
      BY <3>2 DEF DigestComes
  <2>5. ASSUME NEW k \in Uploads, Newest(k)', uploads'[k].at = "done"
        PROVE  DigestComes(uploads[k].ext)'
    <3>1. CASE k = n
      BY <2>4, <3>1
    <3>2. CASE k # n
      <4>1. Newest(k) /\ uploads[k].at = "done"
        BY <1>6, <2>5, <3>2
      <4>2. uploads[k].ext \in Extensions
        BY <1>1, <4>1 DEF OneByOne, Newest
      <4>3. DigestComes(uploads[k].ext)
        BY <1>1, <2>1, <4>1 DEF DigestToCome
      <4>4. DigestComes(uploads[k].ext)'
        BY <1>6, <2>3, <4>2, <4>3
      <4> QED
        BY <4>4
    <3> QED
      BY <3>1, <3>2
  <2> QED
    BY <2>2, <2>5 DEF DigestToCome
<1> QED
  BY <1>6, <1>8, <1>9, <1>11, <1>12, <1>13 DEF AvatarIInv

\* A step of the worker that leaves uploads and files alone, keeps its records
\* in order and loses no digest that was to come, preserves the invariant.
LEMMA WorkKeepsPictures ==
  ASSUME AvatarIInv, files' = files, uploads' = uploads,
         digests' \in [Extensions -> Contents], jobs' \subseteq ImageJobs,
         NEW at \in {"idle", "taken", "read", "writing"}, NEW read \in Contents,
         NEW j \in ImageJobs \cup {NoJob}, Work(at, j, read), at # "idle" => j \in ImageJobs,
         \A i \in jobs' : Begun(i.of) /\ i.ext = uploads[i.of].ext,
         at # "idle" => Begun(j.of) /\ j.ext = uploads[j.of].ext,
         faults' \in 0..MaxFaults, jobLost' \in BOOLEAN,
         ~jobLost' => ~jobLost,
         ~jobLost' => \A e \in Extensions : files[e] # NoFile /\ DigestComes(e) => DigestComes(e)'
  PROVE  AvatarIInv'
<1>1. AvatarTypeOK /\ OneByOne /\ FilesOfUploads /\ LastIsThere /\ DigestToCome
  BY DEF AvatarIInv
<1>2. /\ OneByOne' /\ FilesOfUploads' /\ LastIsThere'
      /\ \A k \in Uploads : Begun(k)' <=> Begun(k)
      /\ \A k \in Uploads : Newest(k)' <=> Newest(k)
  BY <1>1 DEF OneByOne, FilesOfUploads, LastIsThere, Begun, Newest, Saving, Present
<1>3. worker' = [at |-> at, job |-> j, read |-> read]
  BY DEF Work
<1>4. AvatarTypeOK'
  BY <1>1, <1>3 DEF AvatarTypeOK
<1>5. JobsOfUploads'
  BY <1>3 DEF JobsOfUploads, Begun
<1>6. ASSUME ~jobLost', NEW k \in Uploads, Newest(k)', uploads'[k].at = "done"
      PROVE  DigestComes(uploads[k].ext)'
  <2>1. Newest(k) /\ uploads[k].at = "done" /\ ~jobLost
    BY <1>2, <1>6
  <2>2. uploads[k].ext \in Extensions /\ files[uploads[k].ext] # NoFile
    BY <2>1, NewestIsOnDisk DEF OnDisk, Present
  <2>3. DigestComes(uploads[k].ext)
    BY <1>1, <2>1 DEF DigestToCome
  <2>4. DigestComes(uploads[k].ext)'
    BY <1>6, <2>2, <2>3
  <2> QED
    BY <2>4
<1>7. DigestToCome'
  <2> SUFFICES ASSUME ~jobLost'
               PROVE  /\ \A n \in Uploads : uploads'[n].at \notin {"cut", "missing"}
                      /\ \A n \in Uploads : Newest(n)' /\ uploads'[n].at = "done"
                            => DigestComes(uploads[n].ext)'
    BY DEF DigestToCome
  <2>1. \A n \in Uploads : uploads'[n].at \notin {"cut", "missing"}
    BY <1>1 DEF DigestToCome
  <2> QED
    BY <1>6, <2>1
<1> QED
  BY <1>2, <1>4, <1>5, <1>7 DEF AvatarIInv

\* A job that fails is tried again, or was tried for the last time.
LEMMA RetriedFacts ==
  ASSUME AvatarIInv, worker.at # "idle"
  PROVE  /\ Retried(worker.job) \subseteq ImageJobs /\ jobs \subseteq Retried(worker.job)
         /\ \A i \in Retried(worker.job) : Begun(i.of) /\ i.ext = uploads[i.of].ext
         /\ \/ \E i \in Retried(worker.job) : i.ext = worker.job.ext
            \/ worker.job.attempt = MaxAttempts
<1>1. /\ jobs \subseteq ImageJobs /\ \A i \in jobs : Begun(i.of) /\ i.ext = uploads[i.of].ext
      /\ worker.job \in ImageJobs
      /\ Begun(worker.job.of) /\ worker.job.ext = uploads[worker.job.of].ext
  BY DEF AvatarIInv, AvatarTypeOK, JobsOfUploads
<1> DEFINE again == [worker.job EXCEPT !.attempt = @ + 1]
<1>2. CASE worker.job.attempt < MaxAttempts
  <2>1. /\ again \in ImageJobs /\ again.of = worker.job.of /\ again.ext = worker.job.ext
    BY <1>1, <1>2, AvatarAssumption DEF ImageJobs
  <2>2. Retried(worker.job) = jobs \cup {again}
    BY <1>2 DEF Retried
  <2> QED
    BY <1>1, <2>1, <2>2
<1>3. CASE ~(worker.job.attempt < MaxAttempts)
  <2>1. Retried(worker.job) = jobs
    BY <1>3 DEF Retried
  <2>2. worker.job.attempt = MaxAttempts
    BY <1>1, <1>3, AvatarAssumption DEF ImageJobs
  <2> QED
    BY <1>1, <2>1, <2>2
<1> QED
  BY <1>2, <1>3

\* What the worker does: uploads and files stay as they are.
LEMMA WorkerKeepsPictures ==
  ASSUME AvatarIInv, \/ \E j \in jobs : TakeJob(j)
                     \/ ReadImage \/ ImageMissing \/ OpenMetadata \/ FillMetadata
                     \/ DiskFails \/ WorkerCrashes
  PROVE  AvatarIInv'
<1>1. AvatarTypeOK /\ JobsOfUploads
  BY DEF AvatarIInv
<1>2. files' = files /\ uploads' = uploads
  BY DEF TakeJob, ReadImage, ImageMissing, OpenMetadata, FillMetadata, DiskFails, WorkerCrashes
<1>3. /\ NoFile \in Contents /\ CutMetadata \in Contents /\ files \in [Extensions -> Contents]
      /\ digests \in [Extensions -> Contents] /\ jobs \subseteq ImageJobs
      /\ worker.read \in Contents /\ faults \in 0..MaxFaults
  BY <1>1, AvatarAssumption DEF NoFile, CutMetadata, Contents, AvatarTypeOK
<1>4. jobLost \in BOOLEAN
  BY <1>1 DEF AvatarTypeOK
<1>5. \A i \in jobs : i \in ImageJobs /\ Begun(i.of) /\ i.ext = uploads[i.of].ext
  BY <1>1 DEF JobsOfUploads, AvatarTypeOK
<1>6. worker.at # "idle" =>
         /\ worker.job \in ImageJobs /\ worker.job.ext \in Extensions
         /\ Begun(worker.job.of) /\ worker.job.ext = uploads[worker.job.of].ext
  BY <1>1 DEF JobsOfUploads, ImageJobs
<1>7. ASSUME NEW j \in jobs, TakeJob(j)
      PROVE  AvatarIInv'
  <2>1. /\ worker.at = "idle" /\ jobs' = jobs \ {j} /\ Work("taken", j, NoFile)
        /\ digests' = digests /\ faults' = faults
    BY <1>7 DEF TakeJob
  <2>2. jobLost' = jobLost
    BY <1>7 DEF TakeJob
  <2>3. \A e \in Extensions : DigestComes(e) => DigestComes(e)'
    BY <1>2, <2>1 DEF DigestComes, Awaited, Worked, Work
  <2>4. jobLost' \in BOOLEAN /\ (~jobLost' => ~jobLost)
    BY <1>4, <2>2, Zenon
  <2> QED
    BY <1>2, <1>3, <1>5, <2>1, <2>3, <2>4, WorkKeepsPictures
<1>8. CASE ReadImage
  <2>1. /\ worker.at = "taken" /\ Work("read", worker.job, files[worker.job.ext])
        /\ jobs' = jobs /\ digests' = digests /\ faults' = faults
    BY <1>8 DEF ReadImage, Bytes
  <2>2. jobLost' = jobLost
    BY <1>8 DEF ReadImage
  <2>3. \A e \in Extensions : DigestComes(e) => DigestComes(e)'
    BY <1>2, <2>1 DEF DigestComes, Awaited, Worked, Work
  <2>4. jobLost' \in BOOLEAN /\ (~jobLost' => ~jobLost)
    BY <1>4, <2>2, Zenon
  <2>5. files[worker.job.ext] \in Contents
    BY <1>3, <1>6, <2>1
  <2> QED
    BY <1>2, <1>3, <1>5, <1>6, <2>1, <2>3, <2>4, <2>5, WorkKeepsPictures
<1>9. CASE ImageMissing
  <2>1. /\ worker.at = "taken" /\ files[worker.job.ext] = NoFile
        /\ jobs' = Retried(worker.job) /\ Work("idle", NoJob, NoFile)
        /\ digests' = digests /\ faults' = faults
    BY <1>9 DEF ImageMissing, JobFails
  <2>2. jobLost' = jobLost
    BY <1>9 DEF ImageMissing
  <2>3. /\ jobs' \subseteq ImageJobs /\ jobs \subseteq jobs'
        /\ \A i \in jobs' : Begun(i.of) /\ i.ext = uploads[i.of].ext
    BY <2>1, RetriedFacts
  <2>4. \A e \in Extensions : files[e] # NoFile /\ DigestComes(e) => DigestComes(e)'
    BY <1>2, <2>1, <2>3 DEF DigestComes, Awaited, Worked, Work
  <2>5. jobLost' \in BOOLEAN /\ (~jobLost' => ~jobLost)
    BY <1>4, <2>2, Zenon
  <2> QED
    BY <1>2, <1>3, <2>1, <2>3, <2>4, <2>5, WorkKeepsPictures
<1>10. CASE OpenMetadata
  <2>1. /\ worker.at = "read" /\ Work("writing", worker.job, worker.read)
        /\ digests' = [digests EXCEPT ![worker.job.ext] = CutMetadata]
        /\ jobs' = jobs /\ faults' = faults
    BY <1>10 DEF OpenMetadata
  <2>2. jobLost' = jobLost
    BY <1>10 DEF OpenMetadata
  <2>3. digests' \in [Extensions -> Contents]
        /\ \A e \in Extensions : digests'[e] = IF e = worker.job.ext THEN CutMetadata ELSE digests[e]
    BY <1>3, <1>6, <2>1
  <2>4. \A e \in Extensions : DigestComes(e) => DigestComes(e)'
    BY <1>2, <2>1, <2>3 DEF DigestComes, Awaited, Worked, Work
  <2>5. jobLost' \in BOOLEAN /\ (~jobLost' => ~jobLost)
    BY <1>4, <2>2, Zenon
  <2> QED
    BY <1>2, <1>3, <1>5, <1>6, <2>1, <2>3, <2>4, <2>5, WorkKeepsPictures
<1>11. CASE FillMetadata
  <2>1. /\ worker.at = "writing" /\ Work("idle", NoJob, NoFile)
        /\ digests' = [e \in Extensions |-> IF e = worker.job.ext /\ digests[e] = CutMetadata
                                            THEN worker.read ELSE digests[e]]
        /\ jobs' = jobs /\ faults' = faults
    BY <1>11 DEF FillMetadata
  <2>2. jobLost' = jobLost
    BY <1>11 DEF FillMetadata
  <2>3. digests' \in [Extensions -> Contents]
    BY <1>3, <2>1
  <2>4. \A e \in Extensions : DigestComes(e) => DigestComes(e)'
    BY <1>2, <2>1 DEF DigestComes, Awaited, Worked, Work
  <2>5. jobLost' \in BOOLEAN /\ (~jobLost' => ~jobLost)
    BY <1>4, <2>2, Zenon
  <2> QED
    BY <1>2, <1>3, <1>5, <2>1, <2>3, <2>4, <2>5, WorkKeepsPictures
<1>12. CASE DiskFails
  <2>1. /\ worker.at # "idle" /\ Fault
        /\ jobs' = Retried(worker.job) /\ Work("idle", NoJob, NoFile)
        /\ digests' = digests
    BY <1>12 DEF DiskFails, JobFails
  <2>2. jobLost' = (jobLost \/ worker.job.attempt = MaxAttempts)
    BY <1>12 DEF DiskFails
  <2>3. /\ jobs' \subseteq ImageJobs /\ jobs \subseteq jobs'
        /\ \A i \in jobs' : Begun(i.of) /\ i.ext = uploads[i.of].ext
        /\ worker.job.attempt # MaxAttempts => \E i \in jobs' : i.ext = worker.job.ext
    BY <2>1, RetriedFacts
  <2>4. jobLost' \in BOOLEAN /\ (~jobLost' => ~jobLost /\ worker.job.attempt # MaxAttempts)
    BY <1>4, <2>2, Zenon
  <2>5. ~jobLost' => \A e \in Extensions : DigestComes(e) => DigestComes(e)'
    BY <1>2, <2>1, <2>3, <2>4 DEF DigestComes, Awaited, Worked, Work
  <2>6. faults' \in 0..MaxFaults
    BY <1>3, <2>1, AvatarAssumption DEF Fault
  <2> QED
    BY <1>2, <1>3, <2>1, <2>3, <2>4, <2>5, <2>6, WorkKeepsPictures
<1>13. CASE WorkerCrashes
  <2>1. /\ Fault /\ Work("idle", NoJob, NoFile) /\ jobs' = jobs /\ digests' = digests
    BY <1>13 DEF WorkerCrashes
  <2>2. jobLost' = TRUE
    BY <1>13 DEF WorkerCrashes
  <2>3. faults' \in 0..MaxFaults
    BY <1>3, <2>1, AvatarAssumption DEF Fault
  <2> QED
    BY <1>2, <1>3, <1>5, <2>1, <2>2, <2>3, WorkKeepsPictures
<1> QED
  BY <1>7, <1>8, <1>9, <1>10, <1>11, <1>12, <1>13

-----------------------------------------------------------------------------
(* Profile pictures: the theorems                                            *)

\* The invariant holds for any number of uploads, faults and file types.
THEOREM AvatarInvariance == AvatarSpec => []AvatarIInv
<1>1. AvatarInit => AvatarIInv
  <2> SUFFICES ASSUME AvatarInit
               PROVE  AvatarIInv
    OBVIOUS
  <2>1. /\ files = [e \in Extensions |-> NoFile] /\ digests = [e \in Extensions |-> NoFile]
        /\ uploads = [n \in Uploads |-> [at |-> "none", ext |-> "none"]]
        /\ jobs = {} /\ worker = [at |-> "idle", job |-> NoJob, read |-> NoFile]
        /\ faults = 0
    BY DEF AvatarInit
  <2>2. jobLost \in BOOLEAN
    BY DEF AvatarInit
  <2>3. NoFile \in Contents
    BY AvatarAssumption DEF NoFile, Contents
  <2>4. AvatarTypeOK
    BY <2>1, <2>2, <2>3, AvatarAssumption DEF AvatarTypeOK
  <2>5. Present = {} /\ Saving = {} /\ \A n \in Uploads : uploads[n].at = "none"
    BY <2>1 DEF Present, Saving
  <2>6. OneByOne /\ JobsOfUploads /\ FilesOfUploads /\ LastIsThere /\ DigestToCome
    BY <2>1, <2>5 DEF OneByOne, JobsOfUploads, FilesOfUploads, LastIsThere, DigestToCome,
                      Begun, OnDisk
  <2> QED
    BY <2>4, <2>6 DEF AvatarIInv
<1>2. AvatarIInv /\ [AvatarNext]_avatarVars => AvatarIInv'
  <2> SUFFICES ASSUME AvatarIInv, [AvatarNext]_avatarVars
               PROVE  AvatarIInv'
    OBVIOUS
  <2>1. ASSUME NEW n \in Uploads, NEW e \in Extensions, RemoveOld(n, e)
        PROVE  AvatarIInv'
    BY <2>1, RemovingKeepsPictures
  <2>2. ASSUME NEW n \in Uploads, BeginWrite(n)
        PROVE  AvatarIInv'
    BY <2>2, BeginWriteKeepsPictures
  <2>3. ASSUME NEW n \in Uploads, EndWrite(n)
        PROVE  AvatarIInv'
    BY <2>3, EndWriteKeepsPictures
  <2>4. ASSUME NEW n \in Uploads, WriteFails(n)
        PROVE  AvatarIInv'
    BY <2>4, FailingKeepsPictures
  <2>5. ASSUME NEW n \in Uploads, EnqueueJob(n)
        PROVE  AvatarIInv'
    BY <2>5, EnqueueKeepsPictures
  <2>6. ASSUME \/ \E j \in jobs : TakeJob(j)
               \/ ReadImage \/ ImageMissing \/ OpenMetadata \/ FillMetadata
               \/ DiskFails \/ WorkerCrashes
        PROVE  AvatarIInv'
    BY <2>6, WorkerKeepsPictures
  <2>7. CASE UNCHANGED avatarVars
    BY <2>7 DEF avatarVars, AvatarIInv, AvatarTypeOK, OneByOne, JobsOfUploads, FilesOfUploads,
                LastIsThere, DigestToCome, Begun, Newest, Saving, Present, DigestComes, Awaited, Worked
  <2> QED
    BY <2>1, <2>2, <2>3, <2>4, <2>5, <2>6, <2>7 DEF AvatarNext
<1> QED
  BY <1>1, <1>2, PTL DEF AvatarSpec

\* The variables keep their types.
THEOREM AvatarTypeCorrect == AvatarSpec => []AvatarTypeOK
<1>1. AvatarIInv => AvatarTypeOK
  BY DEF AvatarIInv
<1> QED
  BY <1>1, AvatarInvariance, PTL

\* A login between uploads finds the last picture, whole, and with its own
\* digest once the jobs are done, as far as nothing has failed.
THEOREM PicturesSettle == AvatarSpec => []PictureSettled
<1>1. AvatarIInv => PictureSettled
  <2> SUFFICES ASSUME AvatarIInv, Saving = {}, NEW e \in Extensions, FoundPicture(e)
               PROVE  /\ \A n \in Uploads : uploads[n].at \in {"written", "cut", "done"} =>
                            n <= files[e].of \/ \E m \in n..MaxUploads : uploads[m].at = "missing"
                      /\ files[e].whole \/ uploads[files[e].of].at = "cut"
                      /\ (\A n \in Uploads : uploads[n].at # "written") /\ jobs = {}
                         /\ worker.at = "idle" /\ ~jobLost => digests[e] = files[e]
    BY DEF PictureSettled
  <2>1. AvatarTypeOK /\ OneByOne /\ FilesOfUploads /\ LastIsThere /\ DigestToCome
    BY DEF AvatarIInv
  <2>2. e \in Present /\ \A x \in Present : files[x].of <= files[e].of
    BY DEF FoundPicture
  <2>3. /\ files[e].of \in Uploads /\ uploads[files[e].of].ext = e
        /\ uploads[files[e].of].at \in OnDisk
        /\ files[e].whole <=> uploads[files[e].of].at \in {"written", "done"}
    BY <2>1, <2>2 DEF FilesOfUploads
  <2>4. \A m \in Uploads : uploads[m].at \notin {"removed", "writing"}
    BY DEF Saving
  <2>5. ASSUME NEW n \in Uploads, uploads[n].at \in {"written", "cut", "done"},
               ~\E m \in n..MaxUploads : uploads[m].at = "missing"
        PROVE  n <= files[e].of
    <3>1. \A m \in Uploads : m > n => uploads[m].at \notin {"removed", "missing"}
      BY <2>4, <2>5, AvatarAssumption DEF Uploads
    <3>2. PICK x \in Present : files[x].of >= n
      BY <2>1, <2>5, <3>1 DEF LastIsThere, OnDisk
    <3>3. files[x].of \in Uploads
      BY <2>1 DEF FilesOfUploads
    <3> QED
      BY <2>2, <2>3, <3>2, <3>3, AvatarAssumption DEF Uploads
  <2>6. files[e].whole \/ uploads[files[e].of].at = "cut"
    BY <2>3, <2>4 DEF OnDisk
  <2>7. ASSUME \A n \in Uploads : uploads[n].at # "written", jobs = {}, worker.at = "idle", ~jobLost
        PROVE  digests[e] = files[e]
    <3>1. \A n \in Uploads : uploads[n].at \notin {"cut", "missing"}
      BY <2>1, <2>7 DEF DigestToCome
    <3>2. uploads[files[e].of].at = "done"
      BY <2>3, <2>4, <2>7, <3>1 DEF OnDisk
    <3>3. Newest(files[e].of)
      <4> SUFFICES ASSUME NEW m \in Uploads, m > files[e].of, Begun(m)
                   PROVE  FALSE
        BY <2>3, <3>2 DEF Newest, Begun
      <4>1. uploads[m].at = "done"
        BY <2>1, <2>4, <2>7, <3>1 DEF Begun, AvatarTypeOK
      <4>2. ~\E k \in m..MaxUploads : uploads[k].at = "missing"
        BY <3>1, AvatarAssumption DEF Uploads
      <4>3. m <= files[e].of
        BY <2>5, <4>1, <4>2
      <4> QED
        BY <2>3, <4>3, AvatarAssumption DEF Uploads
    <3> QED
      BY <2>1, <2>3, <2>7, <3>2, <3>3 DEF DigestToCome, DigestComes, Awaited, Worked
  <2> QED
    BY <2>5, <2>6, <2>7
<1> QED
  BY <1>1, AvatarInvariance, PTL

-----------------------------------------------------------------------------
(* The registration form                                                     *)

\* Whether the form is complete depends on what is in it, and on nothing else.
LEMMA CompleteStays ==
  ASSUME reg' = reg, values' = values, accepted' = accepted
  PROVE  Complete' <=> Complete
  BY DEF Complete, IsFormSubmittable

\* A change of the form is noted while an answer is pending.
LEMMA ChangesKeepRegistration ==
  ASSUME RegisterIInv, answer' = answer, sent' = sent,
         edited' = (edited \/ answer = "pending")
  PROVE  RegisterIInv'
  BY DEF RegisterIInv, SentComplete, PendingIsComplete, UnsentIsComplete

\* A step that leaves the form's contents and what was sent alone.
LEMMA MovesKeepRegistration ==
  ASSUME RegisterIInv, reg' = reg, values' = values, accepted' = accepted, sent' = sent,
         edited' = edited, answer' = "pending" => answer = "pending"
  PROVE  RegisterIInv'
<1>1. Complete' <=> Complete
  BY CompleteStays
<1>2. edited' <=> edited
  BY Zenon
<1> QED
  BY <1>1, <1>2 DEF RegisterIInv, SentComplete, PendingIsComplete, UnsentIsComplete

\* The button is enabled only for a complete form, with the terms accepted.
LEMMA SubmitKeepsRegistration ==
  ASSUME RegisterIInv, PressSubmit
  PROVE  RegisterIInv'
<1>1. /\ reg # NoForm /\ ~sent.yet /\ ~Disabled
      /\ reg' = reg /\ values' = values /\ accepted' = accepted
  BY DEF PressSubmit, OnForm
<1>2. Complete /\ Complete'
  BY <1>1, CompleteStays DEF Disabled, Complete
<1>3. CASE reg.captcha = "button" /\ widget = "bound"
  <2>1. answer' = "pending" /\ sent' = sent
    BY <1>3 DEF PressSubmit
  <2>2. sent.complete
    BY <1>1 DEF RegisterIInv, UnsentIsComplete
  <2> QED
    BY <1>1, <1>2, <2>1, <2>2 DEF RegisterIInv, SentComplete, PendingIsComplete, UnsentIsComplete
<1>4. CASE ~(reg.captcha = "button" /\ widget = "bound")
  <2>1. sent' = [complete |-> Complete, token |-> (answer = "token"), yet |-> TRUE]
    BY <1>4 DEF PressSubmit, PostForm
  <2>2. sent'.complete = Complete /\ sent'.yet = TRUE
    BY <2>1
  <2>3. sent'.complete /\ sent'.yet
    BY <1>2, <2>2, Zenon
  <2> QED
    BY <1>1, <1>2, <2>3 DEF RegisterIInv, SentComplete, PendingIsComplete, UnsentIsComplete
<1> QED
  BY <1>3, <1>4

\* The callback of reCAPTCHA sends the form as it is by then.
LEMMA CallbackKeepsRegistration ==
  ASSUME RegisterIInv, OnSubmitRecaptcha
  PROVE  RegisterIInv'
<1>1. /\ answer = "pending" /\ answer' = "token" /\ OnSubmit(TRUE)
      /\ reg' = reg /\ values' = values /\ accepted' = accepted
  BY DEF OnSubmitRecaptcha
<1>2. edited' = edited
  BY DEF OnSubmitRecaptcha
<1>3. CASE sent' = sent
  BY <1>1, <1>2, <1>3, MovesKeepRegistration
<1>4. CASE PostForm(TRUE)
  <2>1. sent' = [complete |-> Complete, token |-> TRUE, yet |-> TRUE]
    BY <1>4 DEF PostForm
  <2>2. sent'.complete = Complete /\ sent'.yet = TRUE
    BY <2>1
  <2>3. (edited' <=> edited) /\ (sent'.complete <=> Complete) /\ sent'.yet
    BY <1>2, <2>2, Zenon DEF Complete
  <2>4. Complete \/ edited
    BY <1>1 DEF RegisterIInv, PendingIsComplete
  <2> QED
    BY <1>1, <2>3, <2>4 DEF RegisterIInv, SentComplete, PendingIsComplete, UnsentIsComplete
<1> QED
  BY <1>1, <1>3, <1>4 DEF OnSubmit

\* The invariant holds for all user profiles.
THEOREM RegisterInvariance == RegisterSpec => []RegisterIInv
<1>1. RegisterInit => RegisterIInv
  <2> SUFFICES ASSUME RegisterInit
               PROVE  RegisterIInv
    OBVIOUS
  <2>1. sent.complete = TRUE /\ answer = "none"
    BY DEF RegisterInit, NotSent
  <2>2. sent.complete
    BY <2>1, Zenon
  <2> QED
    BY <2>1, <2>2 DEF RegisterIInv, SentComplete, PendingIsComplete, UnsentIsComplete
<1>2. RegisterIInv /\ [RegisterNext]_regVars => RegisterIInv'
  <2> SUFFICES ASSUME RegisterIInv, [RegisterNext]_regVars
               PROVE  RegisterIInv'
    OBVIOUS
  <2>1. ASSUME NEW attrs, NEW terms, NEW captcha, NEW rejected,
               reg = NoForm, OpenForm(attrs, terms, captcha, rejected)
        PROVE  RegisterIInv'
    <3>1. answer' = answer /\ sent' = sent
      BY <2>1 DEF OpenForm
    <3>2. edited' <=> edited
      BY <2>1, Zenon DEF OpenForm
    <3> QED
      BY <2>1, <3>1, <3>2 DEF RegisterIInv, SentComplete, PendingIsComplete, UnsentIsComplete
  <2>2. CASE PressNext
    BY <2>2, MovesKeepRegistration DEF PressNext, GoToNextStep
  <2>3. CASE Back
    BY <2>3, MovesKeepRegistration DEF Back
  <2>4. CASE AcceptTerms
    BY <2>4, ChangesKeepRegistration DEF AcceptTerms
  <2>5. CASE EnterOnEarlyStep
    <3>1. sent' = sent
      BY <2>5 DEF EnterOnEarlyStep, OnSubmit
    <3> QED
      BY <2>5, <3>1, MovesKeepRegistration DEF EnterOnEarlyStep
  <2>6. CASE PressSubmit
    BY <2>6, SubmitKeepsRegistration
  <2>7. CASE LoadCaptcha
    BY <2>7, MovesKeepRegistration DEF LoadCaptcha
  <2>8. CASE Solve
    BY <2>8, MovesKeepRegistration DEF Solve
  <2>9. CASE OnSubmitRecaptcha
    BY <2>9, CallbackKeepsRegistration
  <2>10. ASSUME NEW a \in Attributes, NEW vs, Update(a, vs)
         PROVE  RegisterIInv'
    BY <2>10, ChangesKeepRegistration DEF Update
  <2>11. ASSUME NEW a \in Attributes,
                \/ AddValue(a)
                \/ \E o \in Options : Toggle(a, o)
                \/ \E i \in 1..MaxValues : \/ RemoveValue(a, i)
                                           \/ \E v \in {"", "x"} : Type(a, i, v)
         PROVE  RegisterIInv'
    BY <2>10, <2>11 DEF AddValue, Toggle, RemoveValue, Type
  <2>12. CASE UNCHANGED regVars
    BY <2>12, MovesKeepRegistration DEF regVars
  <2> QED
    BY <2>1, <2>2, <2>3, <2>4, <2>5, <2>6, <2>7, <2>8, <2>9, <2>11, <2>12 DEF RegisterNext
<1> QED
  BY <1>1, <1>2, PTL DEF RegisterSpec

\* No form is sent incomplete unless it was changed behind the pending answer.
THEOREM FormsAreSentComplete == RegisterSpec => []SentComplete
<1>1. RegisterIInv => SentComplete
  BY DEF RegisterIInv
<1> QED
  BY <1>1, RegisterInvariance, PTL

-----------------------------------------------------------------------------
(* The registration form: the values                                         *)

\* A set of numbers has a least one.
LEMMA LeastNumber ==
  ASSUME NEW S \in SUBSET Nat, S # {}
  PROVE  \E x \in S : \A y \in S : x <= y
<1>1. IsWellFoundedOn(OpToRel(<, Nat), Nat)
  BY NatLessThanWellFounded
<1>2. PICK x \in S : \A y \in S : ~(<<y, x>> \in OpToRel(<, Nat))
  BY <1>1, WFMin
<1>3. \A y \in S : ~(y < x)
  BY <1>2 DEF OpToRel
<1> QED
  BY <1>3

\* What is removed first stands somewhere.
LEMMA FirstPlace ==
  ASSUME NEW S, NEW s \in Seq(S), NEW e, Contains(s, e)
  PROVE  \E i \in 1..Len(s) : RemoveFirst(s, e) = RemoveAt(s, i)
<1> DEFINE I == {i \in 1..Len(s) : s[i] = e}
<1>1. I \in SUBSET Nat /\ I # {}
  BY DEF Contains
<1>2. PICK n \in I : \A y \in I : n <= y
  BY <1>1, LeastNumber
<1>3. SelectInSeq(s, LAMBDA v : v = e) = Min(I)
  BY <1>1 DEF SelectInSeq
<1>4. Min(I) \in I
  BY <1>2 DEF Min
<1>5. RemoveFirst(s, e) = RemoveAt(s, SelectInSeq(s, LAMBDA v : v = e))
  BY DEF RemoveFirst, Contains
<1> QED
  BY <1>3, <1>4, <1>5

\* A sequence without one of its elements.
LEMMA RemoveAtFacts ==
  ASSUME NEW S, NEW s \in Seq(S), NEW i \in 1..Len(s)
  PROVE  /\ RemoveAt(s, i) \in Seq(S) /\ Len(RemoveAt(s, i)) = Len(s) - 1
         /\ \A k \in 1..Len(s) - 1 : RemoveAt(s, i)[k] = s[IF k < i THEN k ELSE k + 1]
<1> DEFINE l == SubSeq(s, 1, i - 1)
           r == SubSeq(s, i + 1, Len(s))
<1>1. Len(s) \in Nat /\ \A k \in 1..Len(s) : s[k] \in S
  BY LenProperties, ElementOfSeq
<1>2. l \in Seq(S) /\ Len(l) = i - 1 /\ \A k \in 1..i - 1 : l[k] = s[k]
  BY <1>1, SubSeqProperties
<1>3. /\ r \in Seq(S) /\ Len(r) = Len(s) - i
      /\ \A k \in 1..Len(s) - i : r[k] = s[i + k]
  <2>1. i + 1 \in Int /\ Len(s) \in Int /\ \A k \in (i + 1)..Len(s) : s[k] \in S
    BY <1>1
  <2>2. /\ r \in Seq(S) /\ Len(r) = IF i + 1 <= Len(s) THEN Len(s) - (i + 1) + 1 ELSE 0
        /\ \A k \in 1..Len(s) - (i + 1) + 1 : r[k] = s[(i + 1) + k - 1]
    BY <2>1, SubSeqProperties
  <2> QED
    BY <1>1, <2>2
<1> HIDE DEF l, r
<1>4. /\ l \o r \in Seq(S) /\ Len(l \o r) = Len(l) + Len(r)
      /\ \A k \in 1..Len(l) + Len(r) : (l \o r)[k] = IF k <= Len(l) THEN l[k] ELSE r[k - Len(l)]
  BY <1>2, <1>3, ConcatProperties
<1>5. RemoveAt(s, i) = l \o r
  BY DEF RemoveAt, l, r
<1>6. ASSUME NEW k \in 1..Len(s) - 1
      PROVE  (l \o r)[k] = s[IF k < i THEN k ELSE k + 1]
  <2>1. CASE k < i
    BY <1>1, <1>2, <1>3, <1>4, <2>1
  <2>2. CASE ~(k < i)
    <3>1. k - (i - 1) \in 1..Len(s) - i /\ i + (k - (i - 1)) = k + 1
      BY <1>1, <2>2
    <3>2. r[k - (i - 1)] = s[k + 1]
      BY <1>3, <3>1
    <3> QED
      BY <1>1, <1>2, <1>3, <1>4, <2>2, <3>2
  <2> QED
    BY <2>1, <2>2
<1>7. Len(l \o r) = Len(s) - 1
  <2>1. Len(l) = i - 1 /\ Len(r) = Len(s) - i /\ Len(l \o r) = Len(l) + Len(r)
    BY <1>2, <1>3, <1>4
  <2> QED
    BY <1>1, <2>1
<1>8. l \o r \in Seq(S)
  BY <1>4
<1> HIDE DEF l, r
<1> QED
  BY ONLY <1>5, <1>6, <1>7, <1>8

\* An option that is chosen is taken out, one that is not is appended: none is
\* chosen twice.
LEMMA ToggledOnce ==
  ASSUME NEW s \in Seq(Options), IsInjective(s), NEW o \in Options,
         NEW t, t = IF Contains(s, o) THEN RemoveFirst(s, o) ELSE Append(s, o)
  PROVE  t \in Seq(Options) /\ IsInjective(t)
<1>1. Len(s) \in Nat /\ DOMAIN s = 1..Len(s)
  BY LenProperties
<1>2. CASE Contains(s, o)
  <2>1. PICK i \in 1..Len(s) : t = RemoveAt(s, i)
    BY <1>2, FirstPlace
  <2>2. /\ t \in Seq(Options) /\ Len(t) = Len(s) - 1
        /\ \A k \in 1..Len(s) - 1 : t[k] = s[IF k < i THEN k ELSE k + 1]
    BY <2>1, RemoveAtFacts
  <2>3. DOMAIN t = 1..Len(s) - 1
    BY <2>2, LenProperties
  <2>4. ASSUME NEW a \in DOMAIN t, NEW b \in DOMAIN t, t[a] = t[b]
        PROVE  a = b
    <3> DEFINE p == IF a < i THEN a ELSE a + 1
               q == IF b < i THEN b ELSE b + 1
    <3>1. p \in DOMAIN s /\ q \in DOMAIN s
      BY <1>1, <2>3
    <3>2. s[p] = s[q]
      BY <2>2, <2>3, <2>4
    <3>3. p = q
      BY <3>1, <3>2 DEF IsInjective
    <3> QED
      BY <1>1, <2>3, <3>3
  <2> QED
    BY <2>2, <2>4 DEF IsInjective
<1>3. CASE ~Contains(s, o)
  <2>1. /\ t \in Seq(Options) /\ Len(t) = Len(s) + 1
        /\ \A i \in 1..Len(s) : t[i] = s[i]
        /\ t[Len(s) + 1] = o
    BY <1>3, AppendProperties
  <2>2. DOMAIN t = 1..Len(s) + 1
    BY <2>1, LenProperties
  <2>3. \A i \in 1..Len(s) : s[i] # o
    BY <1>3 DEF Contains
  <2>4. ASSUME NEW a \in DOMAIN t, NEW b \in DOMAIN t, t[a] = t[b]
        PROVE  a = b
    <3>1. CASE a \in 1..Len(s) /\ b \in 1..Len(s)
      BY <1>1, <2>1, <2>4, <3>1 DEF IsInjective
    <3>2. CASE a = Len(s) + 1 \/ b = Len(s) + 1
      BY <1>1, <2>1, <2>2, <2>3, <2>4, <3>2
    <3> QED
      BY <1>1, <2>2, <3>1, <3>2
  <2> QED
    BY <2>1, <2>4 DEF IsInjective
<1> QED
  BY <1>2, <1>3

\* There are two steps or three.
LEMMA StepsNumber == \A attrs : Len(Steps(attrs)) \in {2, 3}
  BY DEF Steps

\* A value is changed: the attribute keeps its type, the others their values.
LEMMA UpdateTyped ==
  ASSUME RegisterTypeOK, NEW a \in Attributes, NEW vs, Update(a, vs),
         IF InputFieldByType(a) = "checkboxes"
         THEN vs \in Seq(Options) /\ IsInjective(vs)
         ELSE vs \in Seq({"", "x"}) /\ Len(vs) \in 1..MaxValues
  PROVE  RegisterTypeOK'
<1> DEFINE r == IF a = reg.rejected THEN "none" ELSE reg.rejected
<1>1. /\ reg \in [attributes : SUBSET Attributes, terms : BOOLEAN,
                  captcha : {"none", "box", "button"}, rejected : Attributes \cup {"none"}]
      /\ reg' = [reg EXCEPT !.rejected = r]
  BY DEF RegisterTypeOK, Update
<1>2. r \in Attributes \cup {"none"}
  BY <1>1
<1> HIDE DEF r
<1>3. /\ reg' \in [attributes : SUBSET Attributes, terms : BOOLEAN,
                   captcha : {"none", "box", "button"}, rejected : Attributes \cup {"none"}]
      /\ reg'.attributes = reg.attributes
  BY <1>1, <1>2
<1>4. /\ DOMAIN values' = Attributes /\ values'[a] = vs
      /\ \A b \in Attributes \ {a} : values'[b] = values[b]
  BY DEF RegisterTypeOK, Update
<1>5. step' = step /\ widget' = widget /\ answer' = answer /\ sent' = sent
  BY DEF Update
<1>6. accepted' \in BOOLEAN /\ edited' \in BOOLEAN
  BY DEF RegisterTypeOK, Update
<1> QED
  BY <1>3, <1>4, <1>5, <1>6 DEF RegisterTypeOK

\* Nothing is chosen in an empty form, and there is one empty value to fill in.
LEMMA EmptyValues ==
  /\ <<>> \in Seq(Options) /\ IsInjective(<<>>)
  /\ <<"">> \in Seq({"", "x"}) /\ Len(<<"">>) \in 1..MaxValues
<1>1. <<>> \in Seq(Options)
  BY EmptySeq
<1>2. IsInjective(<<>>)
  <2>1. \A k \in DOMAIN <<>> : FALSE
    OBVIOUS
  <2> QED
    BY <2>1, Zenon DEF IsInjective
<1>3. <<"">> \in Seq({"", "x"})
  <2>1. "" \in {"", "x"}
    OBVIOUS
  <2>2. \A S : \A x \in S : <<x>> \in Seq(S)
    OBVIOUS
  <2> QED
    BY ONLY <2>1, <2>2, Zenon
<1>4. Len(<<"">>) \in 1..MaxValues
  BY ValuesAssumption
<1> QED
  BY ONLY <1>1, <1>2, <1>3, <1>4, Zenon

\* The values of an empty form.
LEMMA EmptyTyped ==
  ASSUME NEW vs, vs = [a \in Attributes |-> IF a = "groups" THEN <<>> ELSE <<"">>]
  PROVE  /\ DOMAIN vs = Attributes
         /\ \A a \in Attributes :
               IF InputFieldByType(a) = "checkboxes"
               THEN vs[a] \in Seq(Options) /\ IsInjective(vs[a])
               ELSE vs[a] \in Seq({"", "x"}) /\ Len(vs[a]) \in 1..MaxValues
<1>3. \A a \in Attributes : InputFieldByType(a) = "checkboxes" <=> a = "groups"
  BY DEF InputFieldByType, Attributes
<1>4. \A a \in Attributes : vs[a] = IF a = "groups" THEN <<>> ELSE <<"">>
  OBVIOUS
<1>5. DOMAIN vs = Attributes
  OBVIOUS
<1> QED
  BY ONLY <1>3, <1>4, <1>5, EmptyValues

\* A value that is typed over leaves as many values as there were.
LEMMA TypedOver ==
  ASSUME NEW S, NEW vs \in Seq(S), Len(vs) \in 1..MaxValues, NEW i \in 1..Len(vs), NEW v \in S
  PROVE  [vs EXCEPT ![i] = v] \in Seq(S) /\ Len([vs EXCEPT ![i] = v]) \in 1..MaxValues
<1>1. [vs EXCEPT ![i] = v] \in Seq(S) /\ Len([vs EXCEPT ![i] = v]) = Len(vs)
  BY ExceptSeq
<1> QED
  BY <1>1

\* Every change of a value is one of these.
LEMMA ChangesTyped ==
  ASSUME RegisterTypeOK, NEW a \in Attributes,
         \/ AddValue(a)
         \/ \E o \in Options : Toggle(a, o)
         \/ \E i \in 1..MaxValues : \/ RemoveValue(a, i)
                                    \/ \E v \in {"", "x"} : Type(a, i, v)
  PROVE  RegisterTypeOK'
<1>1. /\ InputFieldByType(a) = "checkboxes" => values[a] \in Seq(Options) /\ IsInjective(values[a])
      /\ InputFieldByType(a) # "checkboxes" =>
            values[a] \in Seq({"", "x"}) /\ Len(values[a]) \in 1..MaxValues
  BY DEF RegisterTypeOK
<1>2. CASE AddValue(a)
  <2>1. InputFieldByType(a) # "checkboxes" /\ Len(values[a]) < MaxValues
    BY <1>2 DEF AddValue
  <2>2. /\ Append(values[a], "") \in Seq({"", "x"})
        /\ Len(Append(values[a], "")) = Len(values[a]) + 1
    <3>1. values[a] \in Seq({"", "x"})
      BY <1>1, <2>1
    <3>2. "" \in {"", "x"}
      OBVIOUS
    <3> QED
      BY <3>1, <3>2, AppendProperties
  <2>3. Len(Append(values[a], "")) \in 1..MaxValues
    <3> DEFINE m == Len(values[a])
               k == Len(Append(values[a], ""))
    <3>1. m \in 1..MaxValues /\ m < MaxValues /\ k = m + 1
      BY <1>1, <2>1, <2>2
    <3> HIDE DEF m, k
    <3>2. k \in 1..MaxValues
      BY ONLY <3>1, ValuesAssumption
    <3> QED
      BY <3>2 DEF k
  <2> QED
    BY <1>2, <2>1, <2>2, <2>3, UpdateTyped DEF AddValue
<1>3. ASSUME NEW o \in Options, Toggle(a, o)
      PROVE  RegisterTypeOK'
  <2> DEFINE t == IF Contains(values[a], o) THEN RemoveFirst(values[a], o)
                  ELSE Append(values[a], o)
  <2>1. InputFieldByType(a) = "checkboxes" /\ Update(a, t)
    BY <1>3 DEF Toggle
  <2>2. t \in Seq(Options) /\ IsInjective(t)
    BY <1>1, <2>1, ToggledOnce
  <2> HIDE DEF t
  <2> QED
    BY <2>1, <2>2, UpdateTyped
<1>4. ASSUME NEW i \in 1..MaxValues, RemoveValue(a, i)
      PROVE  RegisterTypeOK'
  <2>1. /\ InputFieldByType(a) # "checkboxes" /\ Len(values[a]) > 1 /\ i \in 1..Len(values[a])
        /\ Update(a, RemoveAt(values[a], i))
    BY <1>4 DEF RemoveValue, Without
  <2>2. /\ RemoveAt(values[a], i) \in Seq({"", "x"})
        /\ Len(RemoveAt(values[a], i)) = Len(values[a]) - 1
    <3>1. values[a] \in Seq({"", "x"})
      BY <1>1, <2>1
    <3> QED
      BY <2>1, <3>1, RemoveAtFacts
  <2>3. Len(RemoveAt(values[a], i)) \in 1..MaxValues
    <3> DEFINE m == Len(values[a])
               k == Len(RemoveAt(values[a], i))
    <3>1. m \in 1..MaxValues /\ m > 1 /\ k = m - 1
      BY <1>1, <2>1, <2>2
    <3> HIDE DEF m, k
    <3>2. k \in 1..MaxValues
      BY ONLY <3>1, ValuesAssumption
    <3> QED
      BY <3>2 DEF k
  <2> QED
    BY <2>1, <2>2, <2>3, UpdateTyped
<1>5. ASSUME NEW i \in 1..MaxValues, NEW v \in {"", "x"}, Type(a, i, v)
      PROVE  RegisterTypeOK'
  <2>1. /\ InputFieldByType(a) # "checkboxes" /\ i \in 1..Len(values[a])
        /\ Update(a, [values[a] EXCEPT ![i] = v])
    BY <1>5 DEF Type
  <2>2. /\ [values[a] EXCEPT ![i] = v] \in Seq({"", "x"})
        /\ Len([values[a] EXCEPT ![i] = v]) \in 1..MaxValues
    <3> DEFINE vs == values[a]
               S == {"", "x"}
    <3>1. vs \in Seq(S) /\ Len(vs) \in 1..MaxValues /\ v \in S /\ i \in 1..Len(vs)
      BY <1>1, <1>5, <2>1
    <3> QED
      BY <3>1, TypedOver
  <2> QED
    BY <2>1, <2>2, UpdateTyped
<1> QED
  BY <1>2, <1>3, <1>4, <1>5

\* The variables of the registration keep their types, and nobody gets beyond
\* the last step or loses the last value of an attribute.
THEOREM RegisterTypeCorrect == RegisterSpec => []RegisterTypeOK
<1>1. RegisterInit => RegisterTypeOK
  <2> SUFFICES ASSUME RegisterInit PROVE RegisterTypeOK
    OBVIOUS
  <2>1. reg = NoForm /\ step = 0 /\ answer = "none" /\ widget = "none"
    BY DEF RegisterInit
  <2>2. reg \in [attributes : SUBSET Attributes, terms : BOOLEAN,
                 captcha : {"none", "box", "button"}, rejected : Attributes \cup {"none"}]
    BY <2>1 DEF NoForm
  <2>3. sent \in [complete : BOOLEAN, token : BOOLEAN, yet : BOOLEAN]
    BY DEF RegisterInit, NotSent
  <2>4. accepted \in BOOLEAN /\ edited \in BOOLEAN
    BY DEF RegisterInit
  <2>5. /\ DOMAIN values = Attributes
        /\ \A a \in Attributes :
              IF InputFieldByType(a) = "checkboxes"
              THEN values[a] \in Seq(Options) /\ IsInjective(values[a])
              ELSE values[a] \in Seq({"", "x"}) /\ Len(values[a]) \in 1..MaxValues
    BY EmptyTyped DEF RegisterInit
  <2>6. step \in 0..Len(Steps(reg.attributes)) - 1
    <3>1. Len(Steps(reg.attributes)) \in {2, 3}
      BY StepsNumber
    <3> QED
      BY <2>1, <3>1
  <2>7. widget \in {"none", "bound", "unbound"} /\ answer \in {"none", "pending", "token"}
    BY <2>1
  <2> QED
    BY <2>2, <2>3, <2>4, <2>5, <2>6, <2>7 DEF RegisterTypeOK
<1>2. RegisterTypeOK /\ [RegisterNext]_regVars => RegisterTypeOK'
  <2> SUFFICES ASSUME RegisterTypeOK, [RegisterNext]_regVars PROVE RegisterTypeOK'
    OBVIOUS
  <2> DEFINE n == Len(Steps(reg.attributes))
  <2>0. n \in {2, 3} /\ step \in 0..n - 1 /\ (LastStep <=> step = n - 1)
    BY StepsNumber DEF RegisterTypeOK, LastStep
  <2>1. ASSUME NEW attrs \in Profiles, NEW terms \in BOOLEAN,
               NEW captcha \in {"none", "box", "button"}, NEW rejected \in attrs \cup {"none"},
               reg = NoForm, OpenForm(attrs, terms, captcha, rejected)
        PROVE  RegisterTypeOK'
    <3>1. /\ reg' \in [attributes : SUBSET Attributes, terms : BOOLEAN,
                       captcha : {"none", "box", "button"}, rejected : Attributes \cup {"none"}]
      BY <2>1, ProfilesAssumption DEF OpenForm
    <3>2. /\ step' = step /\ widget' = widget /\ answer' = answer /\ sent' = sent
      BY <2>1 DEF OpenForm
    <3>3. accepted' \in BOOLEAN /\ edited' \in BOOLEAN
      BY <2>1 DEF OpenForm, RegisterTypeOK
    <3>4. /\ DOMAIN values' = Attributes
          /\ \A a \in Attributes :
                IF InputFieldByType(a) = "checkboxes"
                THEN values'[a] \in Seq(Options) /\ IsInjective(values'[a])
                ELSE values'[a] \in Seq({"", "x"}) /\ Len(values'[a]) \in 1..MaxValues
      BY <2>1, EmptyTyped DEF OpenForm
    <3>5. step \in 0..1
      <4>1. ~HasDetailsStep({})
        BY DEF HasDetailsStep
      <4>2. Len(Steps({})) = 2
        BY <4>1 DEF Steps
      <4>3. step \in 0..Len(Steps({})) - 1
        BY <2>1 DEF RegisterTypeOK, NoForm
      <4> DEFINE k == Len(Steps({}))
      <4>4. k = 2 /\ step \in 0..k - 1
        BY <4>2, <4>3
      <4> HIDE DEF k
      <4> QED
        BY <4>4
    <3>6. step' \in 0..Len(Steps(reg'.attributes)) - 1
      <4>1. Len(Steps(reg'.attributes)) \in {2, 3}
        BY StepsNumber
      <4> QED
        BY <3>2, <3>5, <4>1
    <3>7. widget' \in {"none", "bound", "unbound"} /\ answer' \in {"none", "pending", "token"}
          /\ sent' \in [complete : BOOLEAN, token : BOOLEAN, yet : BOOLEAN]
      BY <3>2 DEF RegisterTypeOK
    <3> QED
      BY <3>1, <3>3, <3>4, <3>6, <3>7 DEF RegisterTypeOK
  <2>2. ASSUME NEW a \in Attributes,
               \/ AddValue(a)
               \/ \E o \in Options : Toggle(a, o)
               \/ \E i \in 1..MaxValues : \/ RemoveValue(a, i)
                                          \/ \E v \in {"", "x"} : Type(a, i, v)
        PROVE  RegisterTypeOK'
    BY <2>2, ChangesTyped
  <2>3. ASSUME reg' = reg, values' = values,
               step' \in 0..Len(Steps(reg.attributes)) - 1,
               widget' \in {"none", "bound", "unbound"}, answer' \in {"none", "pending", "token"},
               sent' \in [complete : BOOLEAN, token : BOOLEAN, yet : BOOLEAN],
               accepted' \in BOOLEAN, edited' \in BOOLEAN
        PROVE  RegisterTypeOK'
    BY <2>3 DEF RegisterTypeOK
  <2>11. ASSUME NEW token \in BOOLEAN, PostForm(token)
         PROVE  sent' \in [complete : BOOLEAN, token : BOOLEAN, yet : BOOLEAN]
    <3> DEFINE c == Complete
    <3>1. c \in BOOLEAN
      BY DEF Complete
    <3>2. sent' = [complete |-> c, token |-> token, yet |-> TRUE]
      BY <2>11 DEF PostForm
    <3> HIDE DEF c
    <3> QED
      BY <3>1, <3>2
  <2>12. ASSUME ~LastStep, step' = step + 1
         PROVE  step' \in 0..n - 1
    <3> HIDE DEF n
    <3> QED
      BY <2>0, <2>12
  <2>4. ASSUME NEW token \in BOOLEAN, OnSubmit(token)
        PROVE  /\ step' \in 0..n - 1
               /\ sent' \in [complete : BOOLEAN, token : BOOLEAN, yet : BOOLEAN]
    <3>1. CASE ~LastStep /\ step' = step + 1 /\ UNCHANGED sent
      BY <2>12, <3>1 DEF RegisterTypeOK
    <3>2. CASE LastStep /\ PostForm(token) /\ UNCHANGED step
      BY <2>0, <2>11, <3>2
    <3> QED
      BY <2>4, <3>1, <3>2 DEF OnSubmit
  <2>5. CASE PressNext \/ Back
    <3>1. step' \in 0..n - 1
      <4>1. CASE PressNext
        BY <2>12, <4>1 DEF PressNext, GoToNextStep
      <4>2. CASE Back
        <5>1. step > 0 /\ step' = step - 1
          BY <4>2 DEF Back
        <5> HIDE DEF n
        <5> QED
          BY <2>0, <5>1
      <4> QED
        BY <2>5, <4>1, <4>2
    <3> QED
      BY <2>3, <2>5, <3>1 DEF PressNext, GoToNextStep, Back, Remount, RegisterTypeOK
  <2>6. CASE AcceptTerms
    BY <2>3, <2>6 DEF AcceptTerms, RegisterTypeOK
  <2>7. CASE EnterOnEarlyStep \/ OnSubmitRecaptcha
    <3>1. /\ step' \in 0..Len(Steps(reg.attributes)) - 1
          /\ sent' \in [complete : BOOLEAN, token : BOOLEAN, yet : BOOLEAN]
      BY <2>4, <2>7 DEF EnterOnEarlyStep, OnSubmitRecaptcha
    <3> QED
      BY <2>3, <2>7, <3>1 DEF EnterOnEarlyStep, OnSubmitRecaptcha, RegisterTypeOK
  <2>8. CASE PressSubmit
    <3>1. sent' \in [complete : BOOLEAN, token : BOOLEAN, yet : BOOLEAN]
      <4> DEFINE k == (answer = "token")
      <4>1. k \in BOOLEAN
        OBVIOUS
      <4>2. PostForm(k) \/ sent' = sent
        BY <2>8 DEF PressSubmit
      <4> HIDE DEF k
      <4> QED
        BY <2>11, <4>1, <4>2 DEF RegisterTypeOK
    <3> QED
      BY <2>3, <2>8, <3>1 DEF PressSubmit, RegisterTypeOK
  <2>9. CASE LoadCaptcha \/ Solve
    BY <2>3, <2>9 DEF LoadCaptcha, Solve, RegisterTypeOK
  <2>10. CASE UNCHANGED regVars
    BY <2>3, <2>10 DEF regVars, RegisterTypeOK
  <2> QED
    BY <2>1, <2>2, <2>5, <2>6, <2>7, <2>8, <2>9, <2>10 DEF RegisterNext
<1> QED
  BY <1>1, <1>2, PTL DEF RegisterSpec

-----------------------------------------------------------------------------
(* The entity store: the list                                                *)

\* The ids are finitely many, and so is what is live.
LEMMA IdsAreFinite ==
  /\ IsFiniteSet(Ids) /\ Cardinality(Ids) = MaxRecords
  /\ IsFiniteSet(Live) /\ Live \subseteq Ids /\ Cardinality(Live) \in Nat
  /\ Cardinality(Live) <= MaxRecords
  /\ \A i : IsFiniteSet(Newer(i)) /\ Newer(i) \subseteq Live /\ Cardinality(Newer(i)) \in Nat
<1>1. IsFiniteSet(Ids) /\ Cardinality(Ids) = MaxRecords
  <2>1. MaxRecords \in Int /\ 1 \in Int
    BY StoreAssumption
  <2>2. IsFiniteSet(1..MaxRecords)
        /\ Cardinality(1..MaxRecords) = IF 1 > MaxRecords THEN 0 ELSE MaxRecords - 1 + 1
    BY <2>1, FS_Interval
  <2> QED
    BY <2>2, StoreAssumption DEF Ids
<1>2. Live \subseteq Ids
  BY DEF Live
<1>3. IsFiniteSet(Live) /\ Cardinality(Live) \in Nat /\ Cardinality(Live) <= MaxRecords
  BY <1>1, <1>2, FS_Subset, FS_CardinalityType
<1>4. ASSUME NEW i
      PROVE  IsFiniteSet(Newer(i)) /\ Newer(i) \subseteq Live /\ Cardinality(Newer(i)) \in Nat
  <2>1. Newer(i) \subseteq Live
    BY DEF Newer
  <2> QED
    BY <1>3, <2>1, FS_Subset, FS_CardinalityType
<1> QED
  BY <1>1, <1>2, <1>3, <1>4

\* A listing holds every live record once, newer ones first.
LEMMA ListingIsComplete ==
  ASSUME NEW s \in Listings
  PROVE  /\ s \in [1..Cardinality(Live) -> Live]
         /\ \A k, m \in 1..Cardinality(Live) : k # m => s[k] # s[m]
         /\ \A i \in Live : \E k \in 1..Cardinality(Live) : s[k] = i
         /\ \A k, m \in 1..Cardinality(Live) : k < m => table[s[k]].created >= table[s[m]].created
<1> DEFINE D == 1..Cardinality(Live)
<1>1. s \in SetToSeqs(Live) /\ \A k, m \in DOMAIN s : k < m => table[s[k]].created >= table[s[m]].created
  BY DEF Listings
<1>2. s \in [D -> Live] /\ \A k, m \in D : k # m => s[k] # s[m]
  BY <1>1 DEF SetToSeqs
<1>3. s \in Injection(D, Live)
  BY <1>2 DEF Injection, IsInjective
<1>4. IsFiniteSet(D) /\ Cardinality(D) = Cardinality(Live)
  <2>1. Cardinality(Live) \in Nat
    BY IdsAreFinite
  <2>2. IsFiniteSet(1..Cardinality(Live))
        /\ Cardinality(1..Cardinality(Live)) = IF 1 > Cardinality(Live) THEN 0 ELSE Cardinality(Live) - 1 + 1
    BY <2>1, FS_Interval
  <2> QED
    BY <2>1, <2>2
<1>5. s \in Surjection(D, Live)
  BY <1>3, <1>4, IdsAreFinite, FS_Injection
<1> QED
  BY <1>1, <1>2, <1>5 DEF Surjection

\* A record that shares its time with no other has as many before it as are
\* newer, in whatever order the database returns the rest.
LEMMA PlaceInListing ==
  ASSUME StoreTypeOK, NEW s \in Listings, NEW i \in Live, ~Tied(i)
  PROVE  /\ Cardinality(Newer(i)) + 1 \in 1..Cardinality(Live)
         /\ s[Cardinality(Newer(i)) + 1] = i
<1> DEFINE D == 1..Cardinality(Live)
<1>1. /\ s \in [D -> Live]
      /\ \A k, m \in D : k # m => s[k] # s[m]
      /\ \A j \in Live : \E k \in D : s[k] = j
      /\ \A k, m \in D : k < m => table[s[k]].created >= table[s[m]].created
  BY ListingIsComplete
<1>2. Cardinality(Live) \in Nat
  BY IdsAreFinite
<1>3. PICK k \in D : s[k] = i
  BY <1>1
<1>4. \A j \in Live : j \in Ids /\ Exists(j) /\ table[j].created \in Nat
  BY StoreAssumption DEF StoreTypeOK, Rows, NoRow, Live, Found
<1>5. \A j \in Live \ {i} : table[j].created # table[i].created
  BY <1>4 DEF Tied
<1>6. \A m \in D : s[m] \in Newer(i) <=> m < k
  <2> SUFFICES ASSUME NEW m \in D
               PROVE  s[m] \in Newer(i) <=> m < k
    OBVIOUS
  <2>1. s[m] \in Live
    BY <1>1
  <2>2. CASE m < k
    <3>1. s[m] # i /\ table[s[m]].created >= table[i].created
      BY <1>1, <1>2, <1>3, <2>2
    <3> QED
      BY <1>4, <1>5, <2>1, <2>2, <3>1 DEF Newer
  <2>3. CASE ~(m < k)
    <3>1. table[i].created >= table[s[m]].created
      <4>1. CASE m = k
        BY <1>3, <1>4, <4>1
      <4>2. CASE m # k
        BY <1>1, <1>2, <1>3, <2>3, <4>2
      <4> QED
        BY <4>1, <4>2
    <3> QED
      BY <1>4, <2>1, <2>3, <3>1 DEF Newer
  <2> QED
    BY <2>2, <2>3
<1> DEFINE f == [m \in 1..(k - 1) |-> s[m]]
<1>7. f \in Bijection(1..(k - 1), Newer(i))
  <2>1. \A m \in 1..(k - 1) : m \in D /\ m < k
    BY <1>2
  <2>2. f \in [1..(k - 1) -> Newer(i)]
    BY <1>6, <2>1
  <2>3. f \in Injection(1..(k - 1), Newer(i))
    BY <1>1, <2>1, <2>2 DEF Injection, IsInjective
  <2>4. ASSUME NEW j \in Newer(i)
        PROVE  \E m \in 1..(k - 1) : f[m] = j
    <3>1. PICK m \in D : s[m] = j
      BY <1>1 DEF Newer
    <3>2. m < k
      BY <1>6, <3>1
    <3>3. m \in 1..(k - 1)
      BY <1>2, <3>2
    <3> QED
      BY <3>1, <3>3
  <2> QED
    BY <2>2, <2>3, <2>4 DEF Bijection, Surjection
<1>8. Cardinality(Newer(i)) = k - 1
  <2>1. k \in Nat /\ k >= 1
    BY <1>2
  <2>2. IsFiniteSet(1..(k - 1)) /\ Cardinality(1..(k - 1)) = k - 1
    <3>1. IsFiniteSet(1..(k - 1))
          /\ Cardinality(1..(k - 1)) = IF 1 > k - 1 THEN 0 ELSE k - 1 - 1 + 1
      BY <2>1, FS_Interval
    <3> QED
      BY <2>1, <3>1
  <2> QED
    BY <1>7, <2>2, FS_Bijection DEF ExistsBijection
<1>9. Cardinality(Newer(i)) + 1 = k
  BY <1>2, <1>8
<1> QED
  BY <1>3, <1>9

-----------------------------------------------------------------------------
(* The entity store: one lemma per action, which preserves the invariant     *)

\* What the walk has not seen stays ahead while rows only come and keep their
\* time, and the walk stands still.
LEMMA RowsKeepTheWalk ==
  ASSUME StoreTypeOK, StillAhead, walk' = walk,
         \A j \in Ids : Exists(j) => Exists(j)' /\ table'[j].created = table[j].created,
         Live \subseteq Live'
  PROVE  StillAhead'
<1>1. walk.there \subseteq Live'
  BY DEF StillAhead
<1>2. Reached' = Reached
  BY DEF Reached
<1>3. ASSUME NEW i \in walk.there
      PROVE  /\ Tied(i) => Tied(i)'
             /\ Cardinality(Newer(i)) <= Cardinality(Newer(i)')
             /\ Cardinality(Newer(i)) \in Nat /\ Cardinality(Newer(i)') \in Nat
  <2>1. i \in Ids /\ Exists(i)
    BY DEF StillAhead, Live, Found
  <2>2. Tied(i) => Tied(i)'
    BY <2>1 DEF Tied
  <2>3. \A j \in Live : j \in Ids /\ Exists(j)
    BY DEF Live, Found
  <2>4. Newer(i) \subseteq Newer(i)'
    BY <2>1, <2>3 DEF Newer
  <2>5. IsFiniteSet(Newer(i)') /\ Newer(i)' \subseteq Ids
    <3>1. Newer(i)' \subseteq Ids
      BY DEF Newer, Live
    <3> QED
      BY <3>1, IdsAreFinite, FS_Subset
  <2> QED
    BY <2>2, <2>4, <2>5, IdsAreFinite, FS_Subset, FS_CardinalityType
<1>4. Reached \in Nat
  BY StoreAssumption DEF Reached, StoreTypeOK
<1>5. ASSUME ~walk.removed, NEW i \in walk.there \ walk.seen
      PROVE  Tied(i)' \/ (walk.at \in {"page", "total"} /\ Cardinality(Newer(i)') >= Reached)
  <2>1. Tied(i) \/ (walk.at \in {"page", "total"} /\ Cardinality(Newer(i)) >= Reached)
    BY <1>5 DEF StillAhead
  <2> QED
    BY <1>3, <1>4, <2>1
<1> QED
  BY <1>1, <1>2, <1>5 DEF StillAhead

\* A creation begins with an id that has no row.
LEMMA BeginCreateKeepsStore ==
  ASSUME StoreIInv, NEW id \in Ids, NEW key \in Keys \cup {"null"}, BeginCreate(id, key)
  PROVE  StoreIInv'
<1>1. StoreTypeOK /\ NotYetInserted /\ StillAhead
  BY DEF StoreIInv
<1>2. /\ ~Exists(id)
      /\ inserting' = [inserting EXCEPT ![id] = [key |-> key, created |-> clock, deleted |-> FALSE]]
      /\ clock' = clock /\ table' = table /\ walk' = walk
  BY DEF BeginCreate, Used
<1>3. [key |-> key, created |-> clock, deleted |-> FALSE] \in Rows
  BY <1>1 DEF StoreTypeOK, Rows
<1>4. StoreTypeOK'
  BY <1>1, <1>2, <1>3 DEF StoreTypeOK
<1>5. \A j \in Ids : Exists(j)' = Exists(j)
  BY <1>2 DEF Exists
<1>6. NotYetInserted'
  BY <1>1, <1>2, <1>5 DEF NotYetInserted, StoreTypeOK
<1>7. Live' = Live
  BY <1>2 DEF Live, Found, Exists
<1>8. StillAhead'
  BY <1>1, <1>2, <1>5, <1>7, RowsKeepTheWalk
<1> QED
  BY <1>4, <1>6, <1>8 DEF StoreIInv

\* A row is inserted where there was none, or the creation fails.
LEMMA InsertKeepsStore ==
  ASSUME StoreIInv, NEW id \in Ids, Insert(id)
  PROVE  StoreIInv'
<1>1. StoreTypeOK /\ NotYetInserted /\ StillAhead
  BY DEF StoreIInv
<1>2. /\ inserting[id] # NoRow
      /\ table' = IF Taken(inserting[id].key) THEN table ELSE [table EXCEPT ![id] = inserting[id]]
      /\ inserting' = [inserting EXCEPT ![id] = NoRow]
      /\ clock' = clock /\ walk' = walk
  BY DEF Insert
<1>3. ~Exists(id)
  BY <1>1, <1>2 DEF NotYetInserted
<1>4. NoRow \in Rows
  BY DEF Rows
<1>5. StoreTypeOK'
  BY <1>1, <1>2, <1>4 DEF StoreTypeOK
<1>6. \A j \in Ids \ {id} : table'[j] = table[j] /\ inserting'[j] = inserting[j]
  BY <1>1, <1>2 DEF StoreTypeOK
<1>7. inserting'[id] = NoRow
  BY <1>1, <1>2 DEF StoreTypeOK
<1>8. NotYetInserted'
  BY <1>1, <1>6, <1>7 DEF NotYetInserted, Exists
<1>9. \A j \in Ids : Exists(j) => Exists(j)' /\ table'[j] = table[j]
  BY <1>3, <1>6 DEF Exists
<1>10. Live \subseteq Live'
  BY <1>9 DEF Live, Found
<1>11. StillAhead'
  BY <1>1, <1>2, <1>9, <1>10, RowsKeepTheWalk
<1> QED
  BY <1>5, <1>8, <1>11 DEF StoreIInv

\* An update changes the key of a row, and neither its time nor its mark.
LEMMA UpdateKeepsStore ==
  ASSUME StoreIInv, NEW id \in Ids, NEW key \in Keys \cup {"null"}, UpdateRecord(id, key)
  PROVE  StoreIInv'
<1>1. StoreTypeOK /\ NotYetInserted /\ StillAhead
  BY DEF StoreIInv
<1>2. /\ Found(id) /\ table' = [table EXCEPT ![id].key = key]
      /\ clock' = clock /\ inserting' = inserting /\ walk' = walk
  BY DEF UpdateRecord
<1>3. table[id] \in [key : Keys \cup {"null"}, created : 1..MaxTime, deleted : BOOLEAN]
  BY <1>1, <1>2 DEF StoreTypeOK, Rows, Found, Exists
<1>4. /\ table'[id] \in [key : Keys \cup {"null"}, created : 1..MaxTime, deleted : BOOLEAN]
      /\ table'[id].created = table[id].created
      /\ table'[id].deleted = table[id].deleted
      /\ \A j \in Ids \ {id} : table'[j] = table[j]
      /\ table' \in [Ids -> Rows]
  BY <1>1, <1>2, <1>3 DEF StoreTypeOK, Rows
<1>5. StoreTypeOK'
  BY <1>1, <1>2, <1>4 DEF StoreTypeOK
<1>6. table[id] # NoRow /\ table'[id] # NoRow
  BY <1>3, <1>4, StoreAssumption DEF NoRow
<1>7. \A j \in Ids : (Exists(j)' <=> Exists(j)) /\ table'[j].created = table[j].created
  BY <1>4, <1>6 DEF Exists
<1>8. NotYetInserted'
  BY <1>1, <1>2, <1>7 DEF NotYetInserted
<1>9. \A j \in Ids : Found(j) => Found(j)'
  <2>1. ~table'[id].deleted
    BY <1>2, <1>4, Zenon DEF Found
  <2> QED
    BY <1>4, <1>7, <2>1 DEF Found
<1>10. Live \subseteq Live'
  BY <1>9 DEF Live
<1>11. StillAhead'
  BY <1>1, <1>2, <1>7, <1>10, RowsKeepTheWalk
<1> QED
  BY <1>5, <1>8, <1>11 DEF StoreIInv

\* A deletion excuses the walk for what it will skip.
LEMMA DeleteKeepsStore ==
  ASSUME StoreIInv, NEW id \in Ids, SoftDelete(id)
  PROVE  StoreIInv'
<1>1. StoreTypeOK /\ NotYetInserted /\ StillAhead
  BY DEF StoreIInv
<1>2. /\ Found(id) /\ table' = [table EXCEPT ![id].deleted = TRUE]
      /\ walk' = [walk EXCEPT !.there = @ \ {id}, !.removed = TRUE]
      /\ clock' = clock /\ inserting' = inserting
  BY DEF SoftDelete
<1>3. table[id] \in [key : Keys \cup {"null"}, created : 1..MaxTime, deleted : BOOLEAN]
  BY <1>1, <1>2 DEF StoreTypeOK, Rows, Found, Exists
<1>4. /\ table'[id] \in [key : Keys \cup {"null"}, created : 1..MaxTime, deleted : BOOLEAN]
      /\ \A j \in Ids \ {id} : table'[j] = table[j]
      /\ table' \in [Ids -> Rows]
  BY <1>1, <1>2, <1>3 DEF StoreTypeOK, Rows
<1>5. /\ walk' \in [at : {"none", "page", "total", "done"}, offset : 0..MaxRecords,
                    seen : SUBSET Ids, there : SUBSET Ids, removed : BOOLEAN]
      /\ walk'.there = walk.there \ {id} /\ walk'.removed = TRUE
  BY <1>1, <1>2 DEF StoreTypeOK
<1>6. StoreTypeOK'
  BY <1>1, <1>2, <1>4, <1>5 DEF StoreTypeOK
<1>7. table[id] # NoRow /\ table'[id] # NoRow
  BY <1>3, <1>4, StoreAssumption DEF NoRow
<1>8. NotYetInserted'
  BY <1>1, <1>2, <1>4, <1>7 DEF NotYetInserted, Exists
<1>9. \A j \in Ids \ {id} : Found(j) => Found(j)'
  BY <1>4 DEF Found, Exists
<1>10. StillAhead'
  <2>1. walk'.there \subseteq Live'
    BY <1>1, <1>5, <1>9 DEF StillAhead, Live
  <2>2. walk'.removed
    BY <1>5, Zenon
  <2> QED
    BY <2>1, <2>2 DEF StillAhead
<1> QED
  BY <1>6, <1>8, <1>10 DEF StoreIInv

\* The walk: what it has not seen lies beyond the page it has read, and while
\* there is such a record the total tells it to go on.
LEMMA WalkKeepsStore ==
  ASSUME StoreIInv, BeginWalk \/ ReadPage \/ ReadTotal
  PROVE  StoreIInv'
<1>1. StoreTypeOK /\ NotYetInserted /\ StillAhead
  BY DEF StoreIInv
<1>2. clock' = clock /\ inserting' = inserting /\ table' = table
  BY DEF BeginWalk, ReadPage, ReadTotal
<1>3. NotYetInserted'
  BY <1>1, <1>2 DEF NotYetInserted, Exists
<1>4. Live' = Live
  BY <1>2 DEF Live, Found, Exists
<1>5. \A i : Newer(i)' = Newer(i) /\ (Tied(i)' <=> Tied(i))
  BY <1>2, <1>4 DEF Newer, Tied, Exists
<1>6. /\ walk \in [at : {"none", "page", "total", "done"}, offset : 0..MaxRecords,
                   seen : SUBSET Ids, there : SUBSET Ids, removed : BOOLEAN]
      /\ walk.offset \in Nat /\ walk.there \subseteq Live /\ Limit \in Nat \ {0}
  BY <1>1, StoreAssumption DEF StoreTypeOK, StillAhead
<1>7. ASSUME walk' \in [at : {"none", "page", "total", "done"}, offset : 0..MaxRecords,
                        seen : SUBSET Ids, there : SUBSET Ids, removed : BOOLEAN],
             walk'.there \subseteq Live,
             ~walk'.removed => \A i \in walk'.there \ walk'.seen : Tied(i) \/
                (walk'.at \in {"page", "total"} /\ Cardinality(Newer(i)) >= Reached')
      PROVE  StoreIInv'
  <2>1. StoreTypeOK'
    BY <1>1, <1>2, <1>7 DEF StoreTypeOK
  <2>2. StillAhead'
    BY <1>4, <1>5, <1>7 DEF StillAhead
  <2> QED
    BY <1>3, <2>1, <2>2 DEF StoreIInv
<1>8. CASE BeginWalk
  <2>1. walk' = [at |-> "page", offset |-> 0, seen |-> {}, there |-> Live, removed |-> FALSE]
    BY <1>8 DEF BeginWalk, Started
  <2>2. /\ walk' \in [at : {"none", "page", "total", "done"}, offset : 0..MaxRecords,
                      seen : SUBSET Ids, there : SUBSET Ids, removed : BOOLEAN]
        /\ walk'.at = "page" /\ Reached' = 0 /\ walk'.there = Live
    BY <2>1, IdsAreFinite, StoreAssumption DEF Reached
  <2>3. \A i : Cardinality(Newer(i)) >= 0
    BY IdsAreFinite
  <2> QED
    BY <1>7, <2>2, <2>3
<1>9. CASE ReadPage
  <2>1. walk.at = "page"
    BY <1>9 DEF ReadPage
  <2>2. PICK s \in Listings : walk' = [walk EXCEPT !.at = "total", !.seen = @ \cup PageOf(s)]
    BY <1>9 DEF ReadPage
  <2>3. DOMAIN s = 1..Cardinality(Live) /\ \A k \in DOMAIN s : s[k] \in Live
    BY ListingIsComplete
  <2>4. PageOf(s) \subseteq Ids
    BY <2>3, IdsAreFinite DEF PageOf
  <2>5. /\ walk' \in [at : {"none", "page", "total", "done"}, offset : 0..MaxRecords,
                      seen : SUBSET Ids, there : SUBSET Ids, removed : BOOLEAN]
        /\ walk'.at = "total" /\ walk'.offset = walk.offset /\ walk'.there = walk.there
        /\ walk'.seen = walk.seen \cup PageOf(s)
    BY <1>6, <2>2, <2>4
  <2>6. walk'.removed = walk.removed
    BY <1>6, <2>2
  <2>7. Reached' = walk.offset + Limit /\ Reached = walk.offset
    BY <2>1, <2>5 DEF Reached
  <2>8. ASSUME ~walk'.removed, NEW i \in walk'.there \ walk'.seen
        PROVE  Tied(i) \/ Cardinality(Newer(i)) >= Reached'
    <3> SUFFICES ASSUME ~Tied(i)
                 PROVE  Cardinality(Newer(i)) >= Reached'
      OBVIOUS
    <3>1. ~walk.removed
      BY <2>6, <2>8, Zenon
    <3>2. i \in walk.there \ walk.seen /\ i \in Live /\ i \notin PageOf(s)
      BY <1>6, <2>5, <2>8
    <3>3. Cardinality(Newer(i)) >= walk.offset
      BY <1>1, <2>7, <3>1, <3>2 DEF StillAhead
    <3>4. Cardinality(Newer(i)) + 1 \in DOMAIN s /\ s[Cardinality(Newer(i)) + 1] = i
      BY <1>1, <2>3, <3>2, PlaceInListing
    <3>5. ~(walk.offset < Cardinality(Newer(i)) + 1 /\ Cardinality(Newer(i)) + 1 <= walk.offset + Limit)
      BY <3>2, <3>4 DEF PageOf
    <3>6. Cardinality(Newer(i)) \in Nat
      BY IdsAreFinite
    <3> QED
      BY <1>6, <2>7, <3>3, <3>5, <3>6
  <2> QED
    BY <1>6, <1>7, <2>5, <2>8
<1>10. CASE ReadTotal
  <2>1. walk.at = "total"
    BY <1>10 DEF ReadTotal
  <2>2. Reached = walk.offset + Limit
    BY <2>1 DEF Reached
  <2>3. CASE walk.offset + Limit < Cardinality(Live)
    <3>1. walk' = [walk EXCEPT !.at = "page", !.offset = @ + Limit]
      BY <1>10, <2>3 DEF ReadTotal
    <3>2. walk.offset + Limit \in 0..MaxRecords
      BY <1>6, <2>3, IdsAreFinite, StoreAssumption
    <3>3. /\ walk' \in [at : {"none", "page", "total", "done"}, offset : 0..MaxRecords,
                        seen : SUBSET Ids, there : SUBSET Ids, removed : BOOLEAN]
          /\ walk'.at = "page" /\ walk'.offset = walk.offset + Limit
          /\ walk'.there = walk.there /\ walk'.seen = walk.seen
      BY <1>6, <3>1, <3>2
    <3>4. walk'.removed = walk.removed
      BY <1>6, <3>1
    <3>5. Reached' = Reached
      BY <2>2, <3>3 DEF Reached
    <3>6. ~walk'.removed => ~walk.removed
      BY <3>4, Zenon
    <3>7. ~walk'.removed => \A i \in walk'.there \ walk'.seen :
             Tied(i) \/ Cardinality(Newer(i)) >= Reached'
      BY <1>1, <3>3, <3>5, <3>6 DEF StillAhead
    <3> QED
      BY <1>6, <1>7, <3>3, <3>7
  <2>4. CASE ~(walk.offset + Limit < Cardinality(Live))
    <3>1. walk' = [walk EXCEPT !.at = "done"]
      BY <1>10, <2>4 DEF ReadTotal
    <3>2. /\ walk' \in [at : {"none", "page", "total", "done"}, offset : 0..MaxRecords,
                        seen : SUBSET Ids, there : SUBSET Ids, removed : BOOLEAN]
          /\ walk'.there = walk.there /\ walk'.seen = walk.seen
      BY <1>6, <3>1
    <3>3. walk'.removed = walk.removed
      BY <1>6, <3>1
    <3>4. ~walk'.removed => ~walk.removed
      BY <3>3, Zenon
    <3>5. ASSUME ~walk'.removed, NEW i \in walk.there \ walk.seen, ~Tied(i)
          PROVE  FALSE
      <4>1. Cardinality(Newer(i)) >= walk.offset + Limit
        BY <1>1, <2>2, <3>4, <3>5 DEF StillAhead
      <4>2. i \in Live /\ i \notin Newer(i)
        <5>1. i \in Live
          BY <1>6
        <5>2. table[i].created \in Nat
          BY <1>1, <5>1, StoreAssumption DEF StoreTypeOK, Rows, NoRow, Live
        <5> QED
          BY <5>1, <5>2 DEF Newer
      <4>3. Cardinality(Newer(i)) < Cardinality(Live)
        <5>1. Newer(i) # Live
          BY <4>2
        <5> QED
          BY <5>1, IdsAreFinite, FS_Subset
      <4> QED
        BY <1>6, <2>4, <4>1, <4>3, IdsAreFinite
    <3> QED
      BY <1>6, <1>7, <3>2, <3>5
  <2> QED
    BY <2>3, <2>4
<1> QED
  BY <1>8, <1>9, <1>10

-----------------------------------------------------------------------------
(* The entity store: the theorems                                            *)

\* The invariant holds for any number of records and every page size.
THEOREM StoreInvariance == StoreSpec => []StoreIInv
<1>1. StoreInit => StoreIInv
  <2> SUFFICES ASSUME StoreInit
               PROVE  StoreIInv
    OBVIOUS
  <2>1. /\ clock = 1 /\ inserting = [id \in Ids |-> NoRow] /\ table = [id \in Ids |-> NoRow]
        /\ walk = [at |-> "none", offset |-> 0, seen |-> {}, there |-> {}, removed |-> FALSE]
    BY DEF StoreInit, Started
  <2>2. StoreTypeOK
    BY <2>1, StoreAssumption DEF StoreTypeOK, Rows
  <2>3. NotYetInserted /\ StillAhead
    BY <2>1 DEF NotYetInserted, StillAhead, Exists
  <2> QED
    BY <2>2, <2>3 DEF StoreIInv
<1>2. StoreIInv /\ [StoreNext]_storeVars => StoreIInv'
  <2> SUFFICES ASSUME StoreIInv, [StoreNext]_storeVars
               PROVE  StoreIInv'
    OBVIOUS
  <2>1. CASE Tick
    <3>1. StoreTypeOK'
      BY <2>1, StoreAssumption DEF Tick, StoreIInv, StoreTypeOK
    <3>2. NotYetInserted' /\ StillAhead'
      BY <2>1 DEF Tick, StoreIInv, NotYetInserted, StillAhead, Exists, Live, Found, Tied,
                  Newer, Reached
    <3> QED
      BY <3>1, <3>2 DEF StoreIInv
  <2>2. CASE BeginWalk \/ ReadPage \/ ReadTotal
    BY <2>2, WalkKeepsStore
  <2>3. ASSUME NEW id \in Ids, Insert(id)
        PROVE  StoreIInv'
    BY <2>3, InsertKeepsStore
  <2>4. ASSUME NEW id \in Ids, SoftDelete(id)
        PROVE  StoreIInv'
    BY <2>4, DeleteKeepsStore
  <2>5. ASSUME NEW id \in Ids, NEW key \in Keys \cup {"null"}, BeginCreate(id, key)
        PROVE  StoreIInv'
    BY <2>5, BeginCreateKeepsStore
  <2>6. ASSUME NEW id \in Ids, NEW key \in Keys \cup {"null"}, UpdateRecord(id, key)
        PROVE  StoreIInv'
    BY <2>6, UpdateKeepsStore
  <2>7. CASE UNCHANGED storeVars
    BY <2>7 DEF storeVars, StoreIInv, StoreTypeOK, NotYetInserted, StillAhead, Exists, Live,
                Found, Tied, Newer, Reached
  <2> QED
    BY <2>1, <2>2, <2>3, <2>4, <2>5, <2>6, <2>7 DEF StoreNext
<1> QED
  BY <1>1, <1>2, PTL DEF StoreSpec

\* The variables keep their types.
THEOREM StoreTypeCorrect == StoreSpec => []StoreTypeOK
<1>1. StoreIInv => StoreTypeOK
  BY DEF StoreIInv
<1> QED
  BY <1>1, StoreInvariance, PTL

\* A walk by offset skips no record, unless one was deleted or shares its
\* time with another.
THEOREM WalksAreComplete == StoreSpec => []NoRecordSkipped
<1>1. StoreIInv => NoRecordSkipped
  BY DEF StoreIInv, StillAhead, NoRecordSkipped
<1> QED
  BY <1>1, StoreInvariance, PTL

\* No statement touches a row that is marked as deleted.
THEOREM DeletionIsFinal == StoreSpec => DeletedIsFinal
<1>1. StoreIInv /\ [StoreNext]_storeVars =>
         [\A id \in Ids : table[id].deleted => table'[id] = table[id]]_storeVars
  <2> SUFFICES ASSUME StoreIInv, [StoreNext]_storeVars, NEW id \in Ids, table[id].deleted
               PROVE  table'[id] = table[id]
    OBVIOUS
  <2>1. /\ inserting \in [Ids -> Rows] /\ table \in [Ids -> Rows]
        /\ \A j \in Ids : inserting[j] # NoRow => table[j] = NoRow
    BY DEF StoreIInv, StoreTypeOK, NotYetInserted, Exists
  <2>2. \A j \in Ids : Found(j) => j # id
    BY DEF Found
  <2>3. table[id] # NoRow
    <3> SUFFICES ASSUME table[id] = NoRow
                 PROVE  FALSE
      OBVIOUS
    <3>1. NoRow.deleted = FALSE
      BY DEF NoRow
    <3> QED
      BY <3>1, Zenon
  <2>4. CASE Tick \/ BeginWalk \/ ReadPage \/ ReadTotal \/ UNCHANGED storeVars
    BY <2>4 DEF Tick, BeginWalk, ReadPage, ReadTotal, storeVars
  <2>5. ASSUME NEW j \in Ids, Insert(j)
        PROVE  table'[id] = table[id]
    <3>1. j # id
      BY <2>1, <2>3, <2>5 DEF Insert
    <3> QED
      BY <2>1, <2>5, <3>1 DEF Insert
  <2>6. ASSUME NEW j \in Ids, SoftDelete(j)
        PROVE  table'[id] = table[id]
    BY <2>1, <2>2, <2>6 DEF SoftDelete
  <2>7. ASSUME NEW j \in Ids, NEW key \in Keys \cup {"null"}, BeginCreate(j, key) \/ UpdateRecord(j, key)
        PROVE  table'[id] = table[id]
    BY <2>1, <2>2, <2>7 DEF BeginCreate, UpdateRecord
  <2> QED
    BY <2>4, <2>5, <2>6, <2>7 DEF StoreNext
<1> QED
  BY <1>1, StoreInvariance, PTL DEF StoreSpec, DeletedIsFinal

-----------------------------------------------------------------------------
(* Theme: what the pages show                                                *)

\* Pages that let the template show every message.
LEMMA MessagePages ==
  ASSUME NEW c, c.page \in {"login-recovery-authn-code-config", "login-oauth-grant",
           "logout-confirm", "delete-account-confirm", "login-idp-link-confirm",
           "login-idp-link-confirm-override", "login-idp-link-email", "login-page-expired",
           "select-authenticator", "select-organization", "login-x509-info", "webauthn-error",
           "login-oauth2-device-verify-user-code", "saml-post-form", "login-verify-email",
           "frontchannel-logout", "code"}
  PROVE  PageIndex(c).message
  BY DEF PageIndex, Shows, RecoveryCodeConfig, OAuthGrant, LogoutConfirm, DeleteAccountConfirm,
     IdpLinkConfirm, IdpLinkConfirmOverride, IdpLinkEmail, PageExpired, SelectAuthenticator,
     SelectOrganization, X509Info, WebAuthnError, DeviceCode, SamlPostForm, VerifyEmail,
     FrontchannelLogout, Code

\* Pages that show the message that is about no field, and the errors of theirs.
LEMMA ProfileFormPages ==
  ASSUME NEW c, c.page \in {"idp-review-user-profile", "update-email", "login-update-profile"}
  PROVE  /\ "global" \in c.errors => PageIndex(c).message
         /\ PageIndex(c).fields = Fields(c.page)
  BY DEF PageIndex, Shows, ReviewProfile, UpdateEmail, UpdateProfile, Global

\* On the registration an error of a field is one of some step that the form has.
LEMMA RegisterFields ==
  ASSUME NEW c, NEW x, x \in Fields("register"), (x = "nicks") => Has(c, "details")
  PROVE  \E at \in RegisterSteps(c) : x \in StepErrors(at)
<1>0. x \in {"email", "nicks", "password", "termsAccepted"}
  BY DEF Fields
<1>1. CASE x = "email"
  BY <1>1 DEF RegisterSteps, StepErrors
<1>2. CASE x = "nicks"
  BY <1>2 DEF RegisterSteps, StepErrors, If
<1>3. CASE x \in {"password", "termsAccepted"}
  BY <1>3 DEF RegisterSteps, StepErrors
<1> QED
  BY <1>0, <1>1, <1>2, <1>3

\* Pages that show the errors of their fields, or else the message.
LEMMA FieldPages ==
  ASSUME NEW c, c.page \in {"login-password", "login-otp", "login-reset-password",
           "login-update-password", "login-config-totp", "login-recovery-authn-code-input"}
  PROVE  c.errors \cap PageIndex(c).fields = {} => PageIndex(c).message
  BY DEF PageIndex, Shows, LoginPassword, LoginOtp, LoginResetPassword, LoginUpdatePassword,
     LoginConfigTotp, RecoveryCodeInput, Unless

\* A page tells what was rejected, by the message or beside a field, except where
\* ErrorShown says so.
LEMMA ErrorsAreTold ==
  ASSUME NEW c, c.page \in Pages, c.page # "terms", c.errors # {},
         c.errors \subseteq Fields(c.page) \cup {"global"},
         "nicks" \in c.errors => Has(c, "details")
  PROVE  \/ PageIndex(c).message \/ c.errors \cap PageIndex(c).fields # {}
         \/ c.page = "register" /\ \E at \in RegisterSteps(c) : c.errors \cap StepErrors(at) # {}
         \/ c.page = "login-reset-otp"
         \/ c.page = "login-username" /\ (Has(c, "hidden") \/ ~Has(c, "password"))
         \/ c.page = "login" /\ ~Has(c, "password")
         \/ c.page \in {"link-idp-action", "delete-credential", "info", "error"}
<1>1. CASE c.page = "login" /\ Has(c, "password")
  <2>1. /\ PageIndex(c).message = (c.errors \cap {"username", "password"} = {})
        /\ PageIndex(c).fields = {"username", "password"}
    BY <1>1 DEF PageIndex, Login, Shows, Unless, If
  <2> QED
    BY <2>1
<1>2. CASE c.page = "login-username" /\ Has(c, "password") /\ ~Has(c, "hidden")
  <2>1. /\ PageIndex(c).message = (c.errors \cap {"username"} = {})
        /\ PageIndex(c).fields = {"username"}
    BY <1>2 DEF PageIndex, LoginUsername, Shows, Unless, If
  <2> QED
    BY <2>1
<1>3. CASE c.page \in {"idp-review-user-profile", "update-email", "login-update-profile"}
  <2>1. PICK x \in c.errors : x = "global" \/ x \in Fields(c.page)
    OBVIOUS
  <2>2. CASE x = "global"
    BY <1>3, <2>2, ProfileFormPages
  <2>3. CASE x \in Fields(c.page)
    <3>1. x \in c.errors \cap PageIndex(c).fields
      BY <1>3, <2>3, ProfileFormPages
    <3> QED
      BY <3>1
  <2> QED
    BY <2>1, <2>2, <2>3
<1>4. CASE c.page \in {"login-password", "login-otp", "login-reset-password",
                       "login-update-password", "login-config-totp",
                       "login-recovery-authn-code-input"}
  BY <1>4, FieldPages
<1>5. CASE c.page \in {"login-recovery-authn-code-config", "login-oauth-grant",
                       "logout-confirm", "delete-account-confirm", "login-idp-link-confirm",
                       "login-idp-link-confirm-override", "login-idp-link-email",
                       "login-page-expired", "select-authenticator", "select-organization",
                       "login-x509-info", "webauthn-error",
                       "login-oauth2-device-verify-user-code", "saml-post-form",
                       "login-verify-email", "frontchannel-logout", "code"}
  BY <1>5, MessagePages
<1>6. CASE c.page = "register"
  <2>1. PICK x \in c.errors : x = "global" \/ x \in Fields("register")
    BY <1>6
  <2>2. CASE x = "global"
    BY <1>6, <2>2 DEF PageIndex, Shows, Register, Global
  <2>3. CASE x \in Fields("register")
    <3>1. (x = "nicks") => Has(c, "details")
      OBVIOUS
    <3>2. \E at \in RegisterSteps(c) : x \in StepErrors(at)
      BY <2>3, <3>1, RegisterFields
    <3> QED
      BY <1>6, <3>2
  <2> QED
    BY <2>1, <2>2, <2>3
<1> QED
  BY <1>1, <1>2, <1>3, <1>4, <1>5, <1>6 DEF Pages

\* Pages with a button that submits, or another way on, in every case.
LEMMA ButtonPages ==
  ASSUME NEW c, c.page \in Pages \ {"terms", "login", "login-username", "info", "error",
           "code", "frontchannel-logout", "login-verify-email", "login-idp-link-email",
           "login-page-expired"}
  PROVE  "submit" \in PageIndex(c).controls \/ c.page = "saml-post-form"
  BY DEF Pages, PageIndex, Shows, Register, LoginPassword, LoginOtp, LoginResetOtp,
     LoginResetPassword, LoginUpdatePassword, LoginConfigTotp, RecoveryCodeInput,
     RecoveryCodeConfig, ReviewProfile, UpdateEmail, UpdateProfile, OAuthGrant, LogoutConfirm,
     LinkIdpAction, DeleteCredential, DeleteAccountConfirm, IdpLinkConfirm,
     IdpLinkConfirmOverride, SelectAuthenticator, SelectOrganization, X509Info, WebAuthnError,
     DeviceCode

\* Pages with a link that continues.
LEMMA LinkPages ==
  ASSUME NEW c, \/ c.page \in {"login-verify-email", "login-idp-link-email", "login-page-expired"}
                \/ c.page = "frontchannel-logout" /\ Has(c, "redirectUri")
  PROVE  "continue" \in PageIndex(c).controls
  BY DEF PageIndex, Shows, VerifyEmail, IdpLinkEmail, PageExpired, FrontchannelLogout, If

-----------------------------------------------------------------------------
(* Theme: each step preserves the invariant                                  *)

\* Frames that stay as they are stand for the clients they stood for.
LEMMA FramesStay ==
  ASSUME LoadsCounted, LogoutReachesAll, frames' = frames, iframeLoadCount' = iframeLoadCount,
         leaving' # "replace" \/ leaving' = leaving
  PROVE  LoadsCounted' /\ LogoutReachesAll'
  BY DEF LoadsCounted, LogoutReachesAll, Told

\* A page is opened with what Keycloak may say of it.
LEMMA OpeningKeepsTheme ==
  ASSUME ThemeIInv, NEW p \in Pages, Opens(p)
  PROVE  ThemeIInv'
<1>1. PICK on \in SUBSET Flags(p), errors \in SUBSET (Fields(p) \cup {"global"}),
           safari \in BOOLEAN, cookie \in BOOLEAN :
             ("nicks" \in errors => "details" \in on) /\ OpenTab(p, on, errors, safari, cookie)
  BY DEF Opens
<1>2. tab' = [page |-> p, on |-> on, errors |-> errors, safari |-> safari]
  BY <1>1 DEF OpenTab
<1>3. {session', otherFlow', initialSession'} \subseteq BOOLEAN
  BY <1>1 DEF OpenTab, ThemeIInv, ThemeTypeOK
<1>4. /\ tab'.page = p
      /\ tab' = [page |-> tab'.page, on |-> tab'.on, errors |-> tab'.errors, safari |-> tab'.safari]
      /\ tab'.on \subseteq Flags(p) /\ tab'.errors \subseteq Fields(p) \cup {"global"}
      /\ "nicks" \in tab'.errors => "details" \in tab'.on
  BY <1>1, <1>2
<1>5. /\ form' \in {"early", "incomplete", "ready"}
      /\ posts' = posts /\ leaving' = leaving
      /\ frames' = frames /\ iframeLoadCount' = iframeLoadCount
      /\ poll' = poll /\ check' = check /\ acted' = acted
  BY <1>1 DEF OpenTab, frameVars
<1> QED
  BY <1>3, <1>4, <1>5, FramesStay DEF ThemeIInv, ThemeTypeOK

\* A submission, wherever it comes from, ends the look for a session.
LEMMA PostingKeepsTheme ==
  ASSUME ThemeIInv, Posts
  PROVE  ThemeIInv'
<1>1. /\ tab' = tab /\ form' = form /\ check' = check
      /\ frames' = frames /\ iframeLoadCount' = iframeLoadCount
      /\ leaving' = "form" /\ posts' \in 0..MaxPosts
  BY PagesAssumption DEF Posts, frameVars, ThemeIInv, ThemeTypeOK
<1>2. {session', otherFlow', initialSession'} \subseteq BOOLEAN
  BY DEF Posts, ThemeIInv, ThemeTypeOK
<1>3. /\ poll' \in {"none", "armed", "off"} /\ acted' \in {"heard", "unheard"}
      /\ acted' = "heard" => poll' = "off"
  BY DEF Posts, Heard, SubmitListener, StopPolling, ThemeIInv, ThemeTypeOK
<1> QED
  BY <1>1, <1>2, <1>3, FramesStay DEF ThemeIInv, ThemeTypeOK

\* So does one that the page prevents.
LEMMA EnteringKeepsTheme ==
  ASSUME ThemeIInv, EnterEarly
  PROVE  ThemeIInv'
<1>1. /\ tab' = tab /\ form' \in {"details", "incomplete"} /\ check' = check
      /\ frames' = frames /\ iframeLoadCount' = iframeLoadCount
      /\ leaving' = leaving /\ posts' = posts
  BY DEF EnterEarly, NextStep, frameVars
<1>2. {session', otherFlow', initialSession'} \subseteq BOOLEAN
  BY DEF EnterEarly, ThemeIInv, ThemeTypeOK
<1>3. /\ poll' \in {"none", "armed", "off"} /\ acted' \in {"heard", "unheard"}
      /\ acted' = "heard" => poll' = "off"
  BY DEF EnterEarly, Heard, SubmitListener, StopPolling, ThemeIInv, ThemeTypeOK
<1> QED
  BY <1>1, <1>2, <1>3, FramesStay DEF ThemeIInv, ThemeTypeOK

\* A passkey is heard as any other submission.
LEMMA PasskeyKeepsTheme ==
  ASSUME ThemeIInv, PostPasskey
  PROVE  ThemeIInv'
<1>1. /\ tab' = tab /\ form' = form /\ check' = check
      /\ frames' = frames /\ iframeLoadCount' = iframeLoadCount
      /\ leaving' = "passkey" /\ posts' = posts
  BY DEF PostPasskey, frameVars
<1>2. {session', otherFlow', initialSession'} \subseteq BOOLEAN
  BY DEF PostPasskey, ThemeIInv, ThemeTypeOK
<1>3. /\ poll' \in {"none", "armed", "off"} /\ acted' \in {"heard", "unheard"}
      /\ acted' = "heard" => poll' = "off"
  BY DEF PostPasskey, Heard, SubmitListener, StopPolling, ThemeIInv, ThemeTypeOK
<1> QED
  BY <1>1, <1>2, <1>3, FramesStay DEF ThemeIInv, ThemeTypeOK

\* A link is not heard, and stops the timer at most.
LEMMA FollowingKeepsTheme ==
  ASSUME ThemeIInv, Follow
  PROVE  ThemeIInv'
<1>1. /\ tab' = tab /\ form' = form /\ check' = check
      /\ frames' = frames /\ iframeLoadCount' = iframeLoadCount
      /\ leaving' = "link" /\ posts' = posts
  BY DEF Follow, frameVars
<1>2. {session', otherFlow', initialSession'} \subseteq BOOLEAN
  BY DEF Follow, ThemeIInv, ThemeTypeOK
<1>3. /\ poll' \in {"none", "armed", "off"} /\ (poll' = poll \/ poll' = "off")
      /\ acted' \in {"none", "heard", "unheard"} /\ (acted' = "heard" => acted = "heard")
  BY DEF Follow, Unload, StopPolling, ThemeIInv, ThemeTypeOK
<1> QED
  BY <1>1, <1>2, <1>3, FramesStay DEF ThemeIInv, ThemeTypeOK

\* Only a page whose script has not run yet starts the timer, and only one that
\* is still looking looks again.
LEMMA TimersKeepTheme ==
  ASSUME ThemeIInv, RunChecker \/ PollSession \/ CheckAuthSession
  PROVE  ThemeIInv'
<1>1. /\ tab' = tab /\ form' = form /\ posts' = posts /\ acted' = acted
      /\ frames' = frames /\ iframeLoadCount' = iframeLoadCount
  BY DEF RunChecker, PollSession, CheckAuthSession, frameVars
<1>2. {session', otherFlow', initialSession'} \subseteq BOOLEAN
  BY DEF RunChecker, PollSession, CheckAuthSession, ThemeIInv, ThemeTypeOK
<1>3. /\ leaving' \in {"none", "form", "link", "passkey", "redirect", "reload", "replace"}
      /\ poll' \in {"none", "armed", "off"} /\ check' \in {"none", "armed", "off"}
      /\ poll = "off" => poll' = "off"
      /\ leaving' = leaving \/ leaving' # "replace"
  BY DEF RunChecker, PollSession, CheckAuthSession, Rearm, ThemeIInv, ThemeTypeOK
<1> QED
  BY <1>1, <1>2, <1>3, FramesStay DEF ThemeIInv, ThemeTypeOK

\* A frame loads at most twice; a batch of frames that all load for the first
\* time counts for as many clients.
LEMMA FramesKeepTheme ==
  ASSUME ThemeIInv, NEW loading \in SUBSET Clients, LoadFrames(loading)
  PROVE  ThemeIInv'
<1>1. /\ tab' = tab /\ form' = form /\ posts' = posts /\ acted' = acted
      /\ poll' = poll /\ check' = check
      /\ leaving' \in {"none", "form", "link", "passkey", "redirect", "reload", "replace"}
  BY DEF LoadFrames, ThemeIInv, ThemeTypeOK
<1>2. {session', otherFlow', initialSession'} \subseteq BOOLEAN
  BY DEF LoadFrames, ThemeIInv, ThemeTypeOK
<1>3. /\ frames' \in [Clients -> 0..2] /\ frames \in [Clients -> 0..2]
      /\ \A k \in Clients : frames'[k] = frames[k] + IF k \in loading THEN 1 ELSE 0
  BY DEF LoadFrames, ThemeIInv, ThemeTypeOK
<1>4. /\ IsFiniteSet(Clients) /\ IsFiniteSet(loading) /\ IsFiniteSet(Told)
      /\ Cardinality(loading) \in Nat
  BY PagesAssumption, FS_Subset, FS_CardinalityType DEF Told
<1>5. iframeLoadCount' = iframeLoadCount + Cardinality(loading) /\ iframeLoadCount' \in Nat
  BY <1>4 DEF LoadFrames, ThemeIInv, ThemeTypeOK
<1>6. LoadsCounted'
  <2> SUFFICES ASSUME \A k \in Clients : frames'[k] < 2
               PROVE  iframeLoadCount' = Cardinality(Told')
    BY DEF LoadsCounted
  <2>1. \A k \in Clients : frames[k] < 2
    BY <1>3
  <2>2. Told' = Told \cup loading /\ Told \cap loading = {}
    BY <1>3 DEF Told
  <2>3. Cardinality(Told') = Cardinality(Told) + Cardinality(loading)
    <3>1. Cardinality(Told \cup loading) = Cardinality(Told) + Cardinality(loading) - Cardinality({})
      BY <1>4, <2>2, FS_Union
    <3>2. Cardinality(Told) \in Nat /\ Cardinality({}) = 0
      BY <1>4, FS_CardinalityType, FS_EmptySet
    <3> QED
      BY <1>4, <2>2, <3>1, <3>2
  <2> QED
    BY <1>5, <2>1, <2>3 DEF ThemeIInv, LoadsCounted
<1>7. LogoutReachesAll'
  <2> SUFFICES ASSUME leaving' = "replace", \A k \in Clients : frames'[k] < 2
               PROVE  \A k \in Clients : frames'[k] > 0
    BY <1>3 DEF LogoutReachesAll
  <2>1. CASE leaving = "replace"
    BY <1>3, <2>1 DEF ThemeIInv, LogoutReachesAll
  <2>2. CASE leaving # "replace"
    <3>1. iframeLoadCount' = Cardinality(Clients)
      BY <2>2 DEF LoadFrames, AllLoaded
    <3>2. Told' \in SUBSET Clients /\ Cardinality(Told') = Cardinality(Clients)
      BY <1>6, <3>1 DEF LoadsCounted, Told
    <3>3. Told' = Clients
      BY <1>4, <3>2, FS_Subset
    <3> QED
      BY <3>3 DEF Told
  <2> QED
    BY <2>1, <2>2
<1> QED
  BY <1>1, <1>2, <1>3, <1>5, <1>6, <1>7 DEF ThemeIInv, ThemeTypeOK

\* What other tabs do, the fields, and a load that the user stops.
LEMMA OthersKeepTheme ==
  ASSUME ThemeIInv, Edit \/ ElsewhereLogin \/ ElsewhereFlow \/ StopLoad \/ UNCHANGED tabVars
  PROVE  ThemeIInv'
<1>1. /\ tab' = tab /\ posts' = posts /\ poll' = poll /\ check' = check
      /\ frames' = frames /\ iframeLoadCount' = iframeLoadCount
      /\ leaving' = leaving \/ leaving' # "replace"
      /\ form' \in {"early", "details", "incomplete", "ready"}
      /\ leaving' \in {"none", "form", "link", "passkey", "redirect", "reload", "replace"}
      /\ acted' \in {"none", "heard", "unheard"} /\ (acted' = "heard" => acted = "heard")
  BY DEF Edit, NextStep, PreviousStep, ElsewhereLogin, ElsewhereFlow, StopLoad, tabVars, frameVars,
     ThemeIInv, ThemeTypeOK
<1>2. {session', otherFlow', initialSession'} \subseteq BOOLEAN
  BY DEF Edit, ElsewhereLogin, ElsewhereFlow, StopLoad, tabVars, ThemeIInv, ThemeTypeOK
<1> QED
  BY <1>1, <1>2, FramesStay DEF ThemeIInv, ThemeTypeOK

\* The browser leaves the page.
LEMMA LeavingKeepsTheme ==
  ASSUME ThemeIInv, Leave
  PROVE  ThemeIInv'
<1>1. /\ form' = form /\ posts' = posts /\ leaving' = leaving
      /\ frames' = frames /\ iframeLoadCount' = iframeLoadCount
      /\ poll' = poll /\ check' = check /\ acted' = acted
  BY DEF Leave, frameVars
<1>2. {session', otherFlow', initialSession'} \subseteq BOOLEAN
  BY DEF Leave, ThemeIInv, ThemeTypeOK
<1>3. tab' = [page |-> "left", on |-> tab.on, errors |-> tab.errors, safari |-> tab.safari]
  BY DEF Leave, ThemeIInv
<1>4. /\ tab'.page = "left"
      /\ tab' = [page |-> tab'.page, on |-> tab'.on, errors |-> tab'.errors, safari |-> tab'.safari]
  BY <1>3
<1>5. "left" \notin Pages
  BY DEF Pages
<1> QED
  BY <1>1, <1>2, <1>4, <1>5, FramesStay DEF ThemeIInv, ThemeTypeOK

-----------------------------------------------------------------------------
(* Theme: the theorems                                                       *)

\* A page knows of itself what Keycloak may say of it, and once the script has
\* heard a submission it looks for a session no more.
THEOREM ThemeInvariance == ThemeSpec => []ThemeIInv
<1>1. ThemeInit => ThemeIInv
  <2> SUFFICES ASSUME ThemeInit PROVE ThemeIInv
    OBVIOUS
  <2>1. {session, otherFlow, initialSession} \subseteq BOOLEAN
    BY DEF ThemeInit
  <2>2. /\ tab.page \notin Pages
        /\ tab = [page |-> tab.page, on |-> tab.on, errors |-> tab.errors, safari |-> tab.safari]
    BY DEF ThemeInit, NoTab, Pages
  <2>3. /\ tab = NoTab /\ form = "ready" /\ posts = 0 /\ leaving = "none"
        /\ frames \in [Clients -> 0..2] /\ iframeLoadCount = 0
        /\ poll = "none" /\ check = "none" /\ acted = "none"
    BY DEF ThemeInit
  <2>4. LoadsCounted /\ LogoutReachesAll
    <3>1. Told = {} /\ iframeLoadCount = 0
      BY DEF ThemeInit, Told
    <3> QED
      BY <2>3, <3>1, FS_EmptySet DEF LoadsCounted, LogoutReachesAll
  <2> QED
    BY <2>1, <2>2, <2>3, <2>4, PagesAssumption DEF ThemeIInv, ThemeTypeOK
<1>2. ThemeIInv /\ [ThemeNext]_tabVars => ThemeIInv'
  <2> SUFFICES ASSUME ThemeIInv, [ThemeNext]_tabVars PROVE ThemeIInv'
    OBVIOUS
  <2>1. ASSUME NEW p \in Pages, Opens(p) PROVE ThemeIInv'
    BY <2>1, OpeningKeepsTheme
  <2>2. CASE Submit \/ OtherPost \/ SelfPost
    BY <2>2, PostingKeepsTheme DEF Submit, OtherPost, SelfPost
  <2>3. CASE EnterEarly
    BY <2>3, EnteringKeepsTheme
  <2>4. CASE Follow \/ PostPasskey
    BY <2>4, FollowingKeepsTheme, PasskeyKeepsTheme
  <2>5. CASE RunChecker \/ PollSession \/ CheckAuthSession
    BY <2>5, TimersKeepTheme
  <2>6. ASSUME NEW loading \in (SUBSET Clients) \ {{}}, LoadFrames(loading) PROVE ThemeIInv'
    BY <2>6, FramesKeepTheme
  <2>7. CASE Edit \/ ElsewhereLogin \/ ElsewhereFlow \/ StopLoad \/ UNCHANGED tabVars
    BY <2>7, OthersKeepTheme
  <2>8. CASE Leave
    BY <2>8, LeavingKeepsTheme
  <2> QED
    BY <2>1, <2>2, <2>3, <2>4, <2>5, <2>6, <2>7, <2>8 DEF ThemeNext
<1> QED
  BY <1>1, <1>2, PTL DEF ThemeSpec

\* The variables of the theme keep their types.
THEOREM ThemeTypeCorrect == ThemeSpec => []ThemeTypeOK
<1>1. ThemeIInv => ThemeTypeOK
  BY DEF ThemeIInv
<1> QED
  BY <1>1, ThemeInvariance, PTL

\* What Keycloak has rejected is told, for every combination of errors and of
\* what Keycloak says of the page, on the pages that ErrorShown does not except;
\* on the registration some step of the form tells it, which need not be the one
\* the user sees.
THEOREM ErrorsAreShown == ThemeSpec => []ErrorShown
<1>1. ThemeIInv => ErrorShown
  <2> SUFFICES ASSUME ThemeIInv, OnPage, tab.errors # {} PROVE ErrorShown
    BY DEF ErrorShown
  <2>1. tab.page \in Pages /\ tab.page # "terms"
    BY DEF OnPage, Asserted
  <2>2. /\ tab.errors \subseteq Fields(tab.page) \cup {"global"}
        /\ "nicks" \in tab.errors => Has(tab, "details")
    BY <2>1 DEF ThemeIInv, Has
  <2> QED
    BY <2>1, <2>2, ErrorsAreTold DEF ErrorShown, ThemePage
<1> QED
  BY <1>1, ThemeInvariance, PTL

\* A page the browser is not leaving offers the user something, but where
\* PageWayOn names the exception.
THEOREM PagesHaveAWayOn == ThemeSpec => []PageWayOn
<1>1. PageWayOn
  <2> SUFFICES ASSUME OnPage PROVE PageWayOn
    BY DEF PageWayOn
  <2>1. tab.page \in Pages /\ tab.page # "terms"
    BY DEF OnPage, Asserted
  <2>2. ThemePage.controls \subseteq Controls
    BY DEF Controls, Template
  <2>3. CASE "submit" \in ThemePage.controls
    BY <2>2, <2>3 DEF Usable, PageWayOn
  <2>4. CASE "continue" \in ThemePage.controls
    BY <2>2, <2>4 DEF Usable, PageWayOn
  <2>5. CASE tab.page \in {"login", "login-username"} /\ Has(tab, "password")
    <3>1. "submit" \in ThemePage.controls
      BY <2>5 DEF ThemePage, PageIndex, Login, LoginUsername, LoginForm, Shows, If
    <3> QED
      BY <3>1, <2>3
  <2>6. CASE tab.page \in {"info", "error"} /\ ~Has(tab, "skipLink") /\ Has(tab, "baseUrl")
    <3>1. "application" \in ThemePage.controls
      BY <2>6 DEF ThemePage, PageIndex, InfoPage, ErrorPage, Shows, If
    <3> QED
      BY <2>2, <3>1 DEF Usable, PageWayOn
  <2>7. CASE tab.page \in Pages \ {"terms", "login", "login-username", "info", "error", "code",
             "frontchannel-logout", "login-verify-email", "login-idp-link-email",
             "login-page-expired"}
    BY <2>3, <2>7, ButtonPages DEF ThemePage, PageWayOn
  <2>8. CASE \/ tab.page \in {"login-verify-email", "login-idp-link-email", "login-page-expired"}
             \/ tab.page = "frontchannel-logout" /\ Has(tab, "redirectUri")
    BY <2>4, <2>8, LinkPages DEF ThemePage
  <2> QED
    BY <2>1, <2>5, <2>6, <2>7, <2>8 DEF PageWayOn
<1> QED
  BY <1>1, PTL

\* The logout of a page that goes on by itself has reached every client, unless
\* a frame has loaded twice.
THEOREM LogoutsReachAll == ThemeSpec => []LogoutReachesAll
<1>1. ThemeIInv => LogoutReachesAll
  BY DEF ThemeIInv
<1> QED
  BY <1>1, ThemeInvariance, PTL

\* A submission that the script has heard of, a passkey's too, is not replaced
\* by its redirect.
THEOREM SubmissionsStay == ThemeSpec => SubmissionNotReplaced
<1>1. ThemeIInv /\ [ThemeNext]_tabVars
        => [acted = "heard" /\ leaving # "redirect" => leaving' # "redirect"]_tabVars
  <2> SUFFICES ASSUME ThemeIInv, ThemeNext, acted = "heard", leaving # "redirect"
               PROVE  leaving' # "redirect"
    OBVIOUS
  <2>1. poll = "off"
    BY DEF ThemeIInv
  <2> QED
    BY <2>1 DEF ThemeNext, Opens, OpenTab, RunChecker, Submit, OtherPost, SelfPost, Posts,
       EnterEarly, Edit, Follow, PostPasskey, PollSession, CheckAuthSession, LoadFrames,
       ElsewhereLogin, ElsewhereFlow, StopLoad, Leave
<1> QED
  BY <1>1, ThemeInvariance, PTL DEF ThemeSpec, SubmissionNotReplaced

-----------------------------------------------------------------------------
(* The parts together                                                        *)

\* A step of the whole is a step of one part, and the others are at rest.
LEMMA StepsOfParts ==
  ASSUME [PartsNext]_PartsVars
  PROVE  /\ [ShellNext]_shellVars /\ [PasskeyNext]_webAuthnVars /\ [ThemeNext]_tabVars
         /\ [RegisterNext]_regVars /\ [StoreNext]_storeVars /\ [AvatarNext]_avatarVars
<1>1. CASE PartsNext
  BY <1>1 DEF PartsNext
<1>2. CASE UNCHANGED PartsVars
  BY <1>2 DEF PartsVars
<1> QED
  BY <1>1, <1>2

\* A behaviour of the whole is one of every part, so that what is proved of a
\* part's own specification holds where the run checks it.
THEOREM PartsAreTheirOwn ==
  PartsSpec => /\ ShellSpec /\ PasskeySpec /\ ThemeSpec /\ RegisterSpec /\ StoreSpec
               /\ AvatarSpec
<1>1. PartsInit => /\ ShellInit /\ PasskeyInit /\ ThemeInit /\ RegisterInit /\ StoreInit
                   /\ AvatarInit
  BY DEF PartsInit
<1>2. [PartsNext]_PartsVars =>
         /\ [ShellNext]_shellVars /\ [PasskeyNext]_webAuthnVars /\ [ThemeNext]_tabVars
         /\ [RegisterNext]_regVars /\ [StoreNext]_storeVars /\ [AvatarNext]_avatarVars
  BY StepsOfParts
<1> QED
  BY <1>1, <1>2, PTL DEF PartsSpec, ShellSpec, PasskeySpec, ThemeSpec, RegisterSpec, StoreSpec,
     AvatarSpec

\* The variables of every part keep their types.
THEOREM PartsTypeCorrect == PartsSpec => []PartsTypeOK
<1>1. PartsTypeOK <=> /\ ShellTypeOK /\ PasskeyTypeOK /\ ThemeTypeOK /\ RegisterTypeOK
                      /\ StoreTypeOK /\ AvatarTypeOK
  BY DEF PartsTypeOK
<1> QED
  BY <1>1, PartsAreTheirOwn, ShellTypeCorrect, PasskeyTypeCorrect, ThemeTypeCorrect,
     RegisterTypeCorrect, StoreTypeCorrect, AvatarTypeCorrect, PTL
=============================================================================
