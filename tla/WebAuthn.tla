------------------------------ MODULE WebAuthn ------------------------------
(***************************************************************************)
(* Passkeys on the pages of the login theme: the scripts                    *)
(* webauthnAuthenticate.js, passkeysConditionalAuth.js, webauthnRegister.js *)
(* and the pages that load them.  A browser has one WebAuthn call pending   *)
(* at a time, and the page has two reasons to make one: the autofill it     *)
(* offers by itself and the button.  A new call cancels the one before,     *)
(* whose rejection arrives later.  Every outcome fills hidden fields and    *)
(* submits the form; the page lives on until the browser leaves it, and a   *)
(* later submission replaces an earlier one.                                *)
(***************************************************************************)
EXTENDS Naturals, FiniteSets

CONSTANT MaxTaps    \* BOUND: presses of the button

Kinds == {"login", "username", "password", "passkeys", "authenticate", "register"}
Callers == 0..MaxTaps
Autofill == 0       \* the call behind the autofill; the others are presses

ASSUME TapsAssumption == MaxTaps \in Nat

VARIABLES passkey,  \* what Keycloak and the browser make of the page
          shown,    \* the parts on screen: the form, the button
          script,   \* whether the page's script has run, the button listens
          calls,    \* where each call is
          fields,   \* the hidden fields: whose answer, which error
          posted,   \* what the browser is about to send
          tooEarly  \* history: the button was pressed before autofill began

webAuthnVars == <<passkey, shown, script, calls, fields, posted, tooEarly>>

\* What differs between the pages that Keycloak serves and between browsers.
Contexts == [kind : Kinds, password : BOOLEAN,       \* realm.password
             conditional : BOOLEAN,                  \* enableWebAuthnConditionalUI
             identified : BOOLEAN,                   \* isUserIdentified
             authenticators : BOOLEAN,               \* any, and the form of them
             links : BOOLEAN,                        \* registration or reset is allowed
             supported : BOOLEAN,                    \* window.PublicKeyCredential
             mediation : BOOLEAN]                    \* isConditionalMediationAvailable

NoPage == [kind |-> "none"]
NoFields == [answer |-> "none", error |-> "none"]
Nothing == [form |-> "none", answer |-> "none", error |-> "none"]

-----------------------------------------------------------------------------
(* The pages                                                                 *)

Parts(form, button, link) == (IF form THEN {"form"} ELSE {})
    \cup (IF button THEN {"button"} ELSE {}) \cup (IF link THEN {"link"} ELSE {})

\* The form with its reset link needs the realm's passwords; registration is
\* linked below the form.
LoginPage(c) == Parts(c.password, c.conditional, c.password /\ c.links)

\* Registration is linked, and other providers, if the realm has passwords.
UsernamePage(c) == Parts(c.password, c.conditional, c.password /\ c.links)

PasswordPage(c) == Parts(TRUE, c.conditional, c.links)

\* Both parts are rendered hidden; the link to the registration is handed to
\* the template without displayInfo, and never shown.
PasskeysPage(c) == Parts(FALSE, FALSE, FALSE)

\* Registration is linked below the button.
AuthenticatePage(c) == Parts(FALSE, TRUE, c.links)

\* An application that asked for the registration may be told "cancel".
RegisterPage(c) == Parts(FALSE, TRUE, c.links)

PageParts(c) == CASE c.kind = "login" -> LoginPage(c)
                  [] c.kind = "username" -> UsernamePage(c)
                  [] c.kind = "password" -> PasswordPage(c)
                  [] c.kind = "passkeys" -> PasskeysPage(c)
                  [] c.kind = "authenticate" -> AuthenticatePage(c)
                  [] c.kind = "register" -> RegisterPage(c)

\* The scripts of the first four pages offer the autofill as well, if the
\* page has passkeys at all.
Autofills(c) == \/ c.kind = "passkeys"
                \/ c.kind \in {"login", "username", "password"} /\ c.conditional

OnceFault(c) == FALSE                  \* fault: the button goes on listening
Once(c) == c.kind \notin {"authenticate", "register"}

-----------------------------------------------------------------------------
(* Calls                                                                     *)

Pending == {i \in Callers : calls[i] = "pending"}

SignalFault(i) == [calls EXCEPT ![i] = "pending"]   \* fault: a controller of its own
\* signal(): the singleton's call is aborted, and a new one begins.
Signal(i) == [j \in Callers |-> IF j = i THEN "pending"
                                ELSE IF calls[j] = "pending" THEN "aborted" ELSE calls[j]]

PostFields(form, f) == posted' = [form |-> form, answer |-> f.answer, error |-> f.error]

\* returnFailure
Fail(error) == LET f == [fields EXCEPT !.error = error]
               IN fields' = f /\ PostFields("webauth", f)

\* returnSuccess
Succeed(i) == LET f == [fields EXCEPT !.answer = IF i = Autofill THEN "autofill" ELSE "button"]
              IN fields' = f /\ PostFields("webauth", f)

\* The callback with which the passkeys page learns whether there is autofill:
\* it shows the form, or the button; without a form it shows neither.
Tell(available) ==
    shown' = IF passkey.kind # "passkeys" \/ ~passkey.password THEN shown
             ELSE shown \cup (IF available THEN {"form"} ELSE {"button"})

-----------------------------------------------------------------------------
(* What happens on a page                                                    *)

PasskeyInit ==
    /\ passkey = NoPage /\ shown = {} /\ script = "none"
    /\ calls = [i \in Callers |-> "none"]
    /\ fields = NoFields /\ posted = Nothing /\ tooEarly = FALSE

OpenPasskeyPage(c) ==
    /\ passkey = NoPage /\ passkey' = c
    /\ shown' = PageParts(c)
    /\ UNCHANGED <<script, calls, fields, posted, tooEarly>>

\* The tag is inserted once the translations are there and the button is in
\* the document.  initAuthenticate begins: it may know at once that there is
\* no autofill, or that there is no WebAuthn, which it keeps to itself.
RunScript ==
    /\ passkey # NoPage /\ script = "none"
    /\ "button" \in PageParts(passkey) \/ passkey.kind = "passkeys"
    /\ script' = "listening"
    /\ IF ~Autofills(passkey) \/ ~passkey.supported THEN UNCHANGED <<calls, shown>>
       ELSE IF passkey.identified THEN Tell(FALSE) /\ UNCHANGED calls
       ELSE calls' = [calls EXCEPT ![Autofill] = "asking"] /\ UNCHANGED shown
    /\ UNCHANGED <<passkey, fields, posted, tooEarly>>

UnavailableFault == UNCHANGED shown     \* fault: the page is not told
Unavailable == Tell(FALSE)

\* isConditionalMediationAvailable answers; tryAutoFillUI goes on.
MediationKnown ==
    /\ calls[Autofill] = "asking"
    /\ \/ /\ passkey.mediation
          /\ Tell(TRUE) /\ calls' = Signal(Autofill)
       \/ /\ ~passkey.mediation
          /\ Unavailable /\ calls' = [calls EXCEPT ![Autofill] = "done"]
    /\ UNCHANGED <<passkey, script, fields, posted, tooEarly>>

\* A press of the button: authenticateByWebAuthn or registerByWebAuthn.
Tap(i) ==
    /\ "button" \in shown /\ script = "listening"
    /\ i # Autofill /\ calls[i] = "none" /\ \A j \in 1..(i - 1) : calls[j] # "none"
    /\ script' = IF Once(passkey) THEN "deaf" ELSE script
    /\ tooEarly' = (tooEarly \/ calls[Autofill] = "asking")
    /\ UNCHANGED <<passkey, shown>>

\* checkAllowCredentials reads a form that is not there: the press is in vain.
TapNoForm(i) ==
    /\ Tap(i)
    /\ passkey.kind # "register" /\ passkey.identified /\ ~passkey.authenticators
    /\ calls' = [calls EXCEPT ![i] = "done"]
    /\ UNCHANGED <<fields, posted>>

Calls(i) ==
    /\ Tap(i)
    /\ passkey.kind = "register" \/ ~passkey.identified \/ passkey.authenticators

\* doAuthenticate reports the missing support, but returns no promise: the
\* error is then overwritten by that of reading an undefined result.  The
\* registration stops after its report.
TapUnsupported(i) ==
    /\ Calls(i) /\ ~passkey.supported
    /\ calls' = [calls EXCEPT ![i] = "done"]
    /\ Fail(IF passkey.kind = "register" THEN "unsupported" ELSE "undefined")

TapAuthenticate(i) ==
    /\ Calls(i) /\ passkey.supported /\ passkey.kind # "register"
    /\ calls' = Signal(i)
    /\ UNCHANGED <<fields, posted>>

\* navigator.credentials.create has no signal; a browser refuses a second one.
TapRegister(i) ==
    /\ Calls(i) /\ passkey.supported /\ passkey.kind = "register"
    /\ calls' = [calls EXCEPT ![i] = IF Pending = {} THEN "pending" ELSE "refused"]
    /\ UNCHANGED <<fields, posted>>

\* The user picks a passkey.
Chosen(i) ==
    /\ calls[i] = "pending"
    /\ calls' = [calls EXCEPT ![i] = "done"]
    /\ Succeed(i)
    /\ UNCHANGED <<passkey, shown, script, tooEarly>>

\* "Fail silently as WebAuthn Conditional UI is not required"
AutofillRejected(error) == UNCHANGED <<fields, posted>>

Rejected(i, from, error) ==
    /\ calls[i] \in from
    /\ calls' = [calls EXCEPT ![i] = "done"]
    /\ IF i = Autofill THEN AutofillRejected(error) ELSE Fail(error)
    /\ UNCHANGED <<passkey, shown, script, tooEarly>>

\* The user gives up, the time is over, or the browser refuses.
RefusedCall(i) == Rejected(i, {"pending", "refused"}, "refused")

\* The AbortError that signal() made reaches the call it cancelled.
Aborted(i) == Rejected(i, {"aborted"}, "aborted")

\* The user submits the form with name or password.
SubmitForm ==
    /\ "form" \in shown /\ posted.form # "login"
    /\ posted' = [form |-> "login", answer |-> "none", error |-> "none"]
    /\ UNCHANGED <<passkey, shown, script, calls, fields, tooEarly>>

Settles(i) == Chosen(i) \/ RefusedCall(i) \/ Aborted(i)

PasskeyNext ==
    \/ passkey = NoPage /\ \E c \in Contexts : OpenPasskeyPage(c)
    \/ RunScript \/ MediationKnown \/ SubmitForm
    \/ \E i \in Callers : \/ TapNoForm(i) \/ TapUnsupported(i)
                          \/ TapAuthenticate(i) \/ TapRegister(i) \/ Settles(i)

PasskeySpec == PasskeyInit /\ [][PasskeyNext]_webAuthnVars

-----------------------------------------------------------------------------
(* What is checked                                                           *)

\* The values every variable may have.
PasskeyTypeOK ==
    /\ passkey \in Contexts \cup {NoPage}
    /\ shown \subseteq {"form", "button", "link"}
    /\ script \in {"none", "listening", "deaf"}
    /\ calls \in [Callers -> {"none", "asking", "pending", "aborted", "refused", "done"}]
    /\ fields \in [answer : {"none", "autofill", "button"},
                   error : {"none", "aborted", "refused", "unsupported", "undefined"}]
    /\ posted \in {Nothing} \cup [form : {"login", "webauth"},
                   answer : {"none", "autofill", "button"},
                   error : {"none", "aborted", "refused", "unsupported", "undefined"}]
    /\ tooEarly \in BOOLEAN

\* Two scripts make calls, and no two of them are ever pending: the browser
\* would refuse the second and the user would lose the one he sees.
OneCallPending == Cardinality(Pending) <= 1

\* The page's own cancellation is not posted as the user's failure.  It is so
\* only where the button goes on listening, and when it was pressed before
\* autofill began, which then cancels the call of the button.
CancellationIsSilent ==
    posted.error = "aborted" => (passkey.kind = "authenticate" \/ tooEarly)

\* A page on which nothing is pending and nothing was posted has a way on.
\* It has none if its only button was used on a user without passkeys, or if
\* it is the passkeys page of a realm without passwords, whose callback shows
\* nothing, or in a browser without WebAuthn, where it is never called.
PasskeyWayOn ==
    /\ script # "none" /\ posted = Nothing
    /\ \A i \in Callers : calls[i] \in {"none", "done"}
    => \/ {"form", "link"} \cap shown # {}
       \/ "button" \in shown /\ script = "listening"
       \/ /\ passkey.identified /\ ~passkey.authenticators
          /\ \E i \in Callers \ {Autofill} : calls[i] = "done"
       \/ passkey.kind = "passkeys" /\ (~passkey.password \/ ~passkey.supported)

-----------------------------------------------------------------------------
(* The invariant that the proofs are by                                      *)

Presses == {i \in Callers \ {Autofill} : calls[i] # "none"}

\* Until the script has run nothing was called, and without a page it did not.
ScriptFirst ==
    /\ passkey = NoPage => shown = {} /\ script = "none" /\ posted = Nothing
    /\ script = "none" =>
        /\ \A i \in Callers : calls[i] = "none"
        /\ fields = NoFields /\ posted.error = "none"

\* A page whose button listens once has one press at most, and then is deaf.
PressedOnce ==
    /\ Once(passkey) /\ script # "deaf" => Presses = {}
    /\ script = "deaf" => Presses # {} /\ \A i, j \in Presses : i = j

\* Only a button that goes on listening, or one that was pressed before the
\* autofill began, has its call cancelled.
WhoIsCancelled ==
    LET excused == passkey.kind = "authenticate" \/ tooEarly
    IN /\ passkey.kind = "register" => calls[Autofill] = "none"
       /\ calls[Autofill] = "asking" /\ Presses # {} => tooEarly
       /\ \A i \in Callers \ {Autofill} : calls[i] = "aborted" => excused
       /\ fields.error = "aborted" \/ posted.error = "aborted" => excused

\* What is on screen, and whether something was posted, since the page opened.
ShownSoFar ==
    /\ passkey # NoPage => PageParts(passkey) \subseteq shown
    /\ script # "none" => \/ "button" \in shown
                          \/ passkey.kind = "passkeys"
    /\ script # "none" /\ passkey.kind = "passkeys" /\ passkey.password /\ passkey.supported
       => calls[Autofill] = "asking" \/ {"form", "button"} \cap shown # {}
    /\ \A i \in Callers \ {Autofill} : calls[i] = "done" /\ posted = Nothing =>
          passkey.identified /\ ~passkey.authenticators

AtMostOne == \A i, j \in Pending : i = j

PasskeyIInv == /\ PasskeyTypeOK /\ AtMostOne /\ ScriptFirst /\ PressedOnce
               /\ WhoIsCancelled /\ ShownSoFar
=============================================================================
