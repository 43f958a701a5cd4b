----------------------------- MODULE ThemePages -----------------------------
(***************************************************************************)
(* The pages of the login theme in a tab: what each of them offers to the   *)
(* user and which errors it shows, the template around it, and the script   *)
(* authChecker.js, which every page loads: it looks for a session that      *)
(* another tab has started and moves on to it.  The user submits, follows   *)
(* links, stops a load; the script redirects or reloads; the browser goes   *)
(* where it was sent last.                                                  *)
(*                                                                          *)
(* Passkeys are module WebAuthn, the steps of the registration module       *)
(* RegisterForm.  Markup, wording and style are left out.                   *)
(***************************************************************************)
EXTENDS Naturals, FiniteSets

CONSTANTS MaxPosts,    \* BOUND: submissions from one page
          Clients      \* the clients a front-channel logout tells

ASSUME PagesAssumption == MaxPosts \in Nat \ {0} /\ IsFiniteSet(Clients)

VARIABLES tab,             \* the page in the tab and what Keycloak says of it
          form,            \* its form: on an early step, incomplete, or ready
          posts,           \* how often it was submitted
          leaving,         \* where the browser is about to go
          frames,          \* front-channel logout: loads of each client's frame,
          iframeLoadCount, \*   and those that the page has counted
          session,         \* whether the browser has a session cookie
          otherFlow,       \* whether another tab has begun another login
          initialSession,  \* authChecker: the session when the script was loaded
          poll,            \*   its timer for the session,
          check,           \*   and the one for the login in the other tab
          acted            \* history: whether the user acted, and the script heard a submission

frameVars == <<frames, iframeLoadCount>>
tabVars == <<tab, form, posts, leaving, frameVars, session, otherFlow,
             initialSession, poll, check, acted>>

NoTab == [page |-> "none", on |-> {}, errors |-> {}, safari |-> FALSE]

\* What Keycloak may say of a page, as far as the page asks.
Flags(p) ==
    CASE p \in {"login", "login-username"} -> {"password", "passkey", "hidden", "links"}
      [] p = "login-password" -> {"passkey", "links", "another"}
      [] p \in {"login-otp", "login-recovery-authn-code-input"} -> {"another", "attempted"}
      [] p \in {"login-update-password", "login-config-totp", "update-email",
                "login-recovery-authn-code-config", "login-update-profile",
                "delete-account-confirm", "webauthn-error"} -> {"aia"}
      [] p = "login-oauth-grant" -> {"policy", "tos"}
      [] p \in {"info", "error", "logout-confirm"} -> {"skipLink", "baseUrl"}
      [] p = "login-x509-info" -> {"enabled"}
      [] p = "register" -> {"details"}
      [] p = "frontchannel-logout" -> {"redirectUri"}
      [] OTHER -> {}

Fields(p) ==
    CASE p = "login" -> {"username", "password"}
      [] p \in {"login-username", "login-reset-password"} -> {"username"}
      [] p = "login-password" -> {"password"}
      [] p = "login-update-password" -> {"password", "password-confirm"}
      [] p = "login-config-totp" -> {"totp", "userLabel"}
      [] p \in {"login-otp", "login-reset-otp"} -> {"totp"}
      [] p = "login-recovery-authn-code-input" -> {"recoveryCodeInput"}
      [] p \in {"idp-review-user-profile", "update-email", "login-update-profile"} -> {"email"}
      [] p = "register" -> {"email", "nicks", "password", "termsAccepted"}
      [] OTHER -> {}

-----------------------------------------------------------------------------
(* The pages: the controls, whether the template may show the message of     *)
(* Keycloak, and the fields whose errors are shown.                          *)

Shows(controls, message, fields) ==
    [controls |-> controls, message |-> message, fields |-> fields]
If(b, S) == IF b THEN S ELSE {}
Unless(c, fields) == c.errors \cap fields = {}    \* !messagesPerField.existsError
Global(c) == "global" \in c.errors                \* messagesPerField.exists
Has(c, flag) == flag \in c.on
CancelIf(c) == If(Has(c, "aia"), {"cancel"})

RegisterPrompt(c) == If(Has(c, "password") /\ Has(c, "links"), {"register"})
SocialProviders(c) == If(Has(c, "password") /\ Has(c, "links"), {"provider"})

LoginForm(c) == If(Has(c, "password"), {"submit"} \cup If(Has(c, "links"), {"reset"}))
                \cup If(Has(c, "passkey"), {"passkey"})

Login(c) == Shows(LoginForm(c) \cup RegisterPrompt(c) \cup SocialProviders(c),
                  Unless(c, {"username", "password"}),
                  If(Has(c, "password"), {"username", "password"}))

\* The error is shown in the part that is left out for a known user.
LoginUsername(c) ==
    Shows(If(Has(c, "password"), {"submit"}) \cup If(Has(c, "passkey"), {"passkey"})
          \cup RegisterPrompt(c) \cup SocialProviders(c),
          Unless(c, {"username"}),
          If(Has(c, "password") /\ ~Has(c, "hidden"), {"username"}))

LoginPassword(c) ==
    Shows({"submit"} \cup If(Has(c, "links"), {"reset"}) \cup If(Has(c, "passkey"), {"passkey"}),
          Unless(c, {"password"}), {"password"})

LoginOtp(c) == Shows({"submit"}, Unless(c, {"totp"}), {"totp"})

LoginResetPassword(c) == Shows({"submit", "login"}, Unless(c, {"username"}), {"username"})

\* fault: no place for the error of the second field
UpdatePasswordFault(c) == Shows({"submit"} \cup CancelIf(c),
                                Unless(c, {"password", "password-confirm"}), {"password"})
LoginUpdatePassword(c) ==
    LET own == {"password", "password-confirm"}
    IN Shows({"submit"} \cup CancelIf(c), Unless(c, own), own)

LoginConfigTotp(c) ==
    LET own == {"totp", "userLabel"}
    IN Shows({"submit", "mode"} \cup CancelIf(c), Unless(c, own), own)

\* The message gives way to the error of a field that has no place for it.
LoginResetOtp(c) == Shows({"submit"}, Unless(c, {"totp"}), {})

RecoveryCodeInput(c) ==
    Shows({"submit"}, Unless(c, {"recoveryCodeInput"}), {"recoveryCodeInput"})

RecoveryCodeConfig(c) == Shows({"submit"} \cup CancelIf(c), TRUE, {})

\* The registration hides the fields of the steps the user is not on, and
\* their errors with them.
StepErrors(at) == CASE at = "early" -> {"email"}
                    [] at = "details" -> {"nicks"}
                    [] OTHER -> {"password", "termsAccepted"}
RegisterSteps(c) == {"early", "last"} \cup If(Has(c, "details"), {"details"})

Register(c) == Shows({"submit", "login"}, Global(c), StepErrors(form))
ReviewProfile(c) == Shows({"submit"}, Global(c), Fields(c.page))
UpdateEmail(c) == Shows({"submit"} \cup CancelIf(c), Global(c), Fields(c.page))
UpdateProfile(c) == Shows({"submit"} \cup CancelIf(c), Global(c), Fields(c.page))

\* With a policy, its bare address takes the place of both links.
OAuthGrant(c) ==
    Shows({"submit", "cancel"} \cup If(Has(c, "tos") /\ ~Has(c, "policy"), {"tos"}), TRUE, {})

LogoutConfirm(c) ==
    Shows({"submit"} \cup If(~Has(c, "skipLink") /\ Has(c, "baseUrl"), {"application"}), TRUE, {})

LinkIdpAction(c) == Shows({"submit", "cancel"}, FALSE, {})
DeleteCredential(c) == Shows({"submit", "cancel"}, FALSE, {})
DeleteAccountConfirm(c) == Shows({"submit"} \cup CancelIf(c), TRUE, {})
IdpLinkConfirm(c) == Shows({"submit"}, TRUE, {})
IdpLinkConfirmOverride(c) == Shows({"submit", "restart"}, TRUE, {})
IdpLinkEmail(c) == Shows({"continue"}, TRUE, {})
PageExpired(c) == Shows({"restart", "continue"}, TRUE, {})
Terms(c) == Shows({"submit", "cancel"}, FALSE, {})
SelectAuthenticator(c) == Shows({"submit"}, TRUE, {})
SelectOrganization(c) == Shows({"submit"}, TRUE, {})
X509Info(c) == Shows({"submit"} \cup If(Has(c, "enabled"), {"cancel"}), TRUE, {})
DeviceCode(c) == Shows({"submit"}, TRUE, {})
WebAuthnError(c) == Shows({"submit"} \cup CancelIf(c), TRUE, {})
Code(c) == Shows({}, TRUE, {})
SamlPostForm(c) == Shows({}, TRUE, {})

\* These two show the message themselves.
ErrorPage(c) == Shows(If(~Has(c, "skipLink") /\ Has(c, "baseUrl"), {"application"}), FALSE, {"global"})
InfoPage(c) == Shows(If(~Has(c, "skipLink") /\ Has(c, "baseUrl"), {"application"}), FALSE, {"global"})

FrontchannelLogout(c) == Shows(If(Has(c, "redirectUri"), {"continue"}), TRUE, {})

VerifyEmailFault(c) == Shows({}, TRUE, {})        \* fault: without displayInfo
\* The only link is part of the info.
VerifyEmail(c) == Shows({"continue"}, TRUE, {})

\* The page each component asserts to be on.
Asserted(p) == IF p = "terms" THEN "select-authenticator" ELSE p

PageIndex(c) ==
    CASE c.page = "login" -> Login(c)
      [] c.page = "info" -> InfoPage(c)
      [] c.page = "error" -> ErrorPage(c)
      [] c.page = "register" -> Register(c)
      [] c.page = "terms" -> Terms(c)
      [] c.page = "code" -> Code(c)
      [] c.page = "login-username" -> LoginUsername(c)
      [] c.page = "login-password" -> LoginPassword(c)
      [] c.page = "login-otp" -> LoginOtp(c)
      [] c.page = "login-reset-otp" -> LoginResetOtp(c)
      [] c.page = "login-reset-password" -> LoginResetPassword(c)
      [] c.page = "login-update-password" -> LoginUpdatePassword(c)
      [] c.page = "login-config-totp" -> LoginConfigTotp(c)
      [] c.page = "login-recovery-authn-code-input" -> RecoveryCodeInput(c)
      [] c.page = "login-recovery-authn-code-config" -> RecoveryCodeConfig(c)
      [] c.page = "idp-review-user-profile" -> ReviewProfile(c)
      [] c.page = "update-email" -> UpdateEmail(c)
      [] c.page = "login-update-profile" -> UpdateProfile(c)
      [] c.page = "login-oauth-grant" -> OAuthGrant(c)
      [] c.page = "logout-confirm" -> LogoutConfirm(c)
      [] c.page = "link-idp-action" -> LinkIdpAction(c)
      [] c.page = "delete-credential" -> DeleteCredential(c)
      [] c.page = "delete-account-confirm" -> DeleteAccountConfirm(c)
      [] c.page = "login-idp-link-confirm" -> IdpLinkConfirm(c)
      [] c.page = "login-idp-link-confirm-override" -> IdpLinkConfirmOverride(c)
      [] c.page = "login-idp-link-email" -> IdpLinkEmail(c)
      [] c.page = "login-page-expired" -> PageExpired(c)
      [] c.page = "select-authenticator" -> SelectAuthenticator(c)
      [] c.page = "select-organization" -> SelectOrganization(c)
      [] c.page = "login-x509-info" -> X509Info(c)
      [] c.page = "webauthn-error" -> WebAuthnError(c)
      [] c.page = "login-oauth2-device-verify-user-code" -> DeviceCode(c)
      [] c.page = "saml-post-form" -> SamlPostForm(c)
      [] c.page = "login-verify-email" -> VerifyEmail(c)
      [] c.page = "frontchannel-logout" -> FrontchannelLogout(c)

Pages ==
    {"login", "info", "error", "register", "terms", "code", "login-username",
     "login-password", "login-otp", "login-reset-otp", "login-reset-password",
     "login-update-password", "login-config-totp",
     "login-recovery-authn-code-input", "login-recovery-authn-code-config",
     "idp-review-user-profile", "update-email", "login-update-profile",
     "login-oauth-grant", "logout-confirm", "link-idp-action",
     "delete-credential", "delete-account-confirm", "login-idp-link-confirm",
     "login-idp-link-confirm-override", "login-idp-link-email",
     "login-page-expired", "select-authenticator", "select-organization",
     "login-x509-info", "webauthn-error",
     "login-oauth2-device-verify-user-code", "saml-post-form",
     "login-verify-email", "frontchannel-logout"}
ThemePage == PageIndex(tab)
OnPage == tab.page \in Pages /\ Asserted(tab.page) = tab.page

\* The template adds a way to begin again with another user, and one to
\* another authenticator.
Template(controls) == controls \cup If(Has(tab, "attempted"), {"restart"})
                      \cup If(Has(tab, "another"), {"another"})
Controls == IF OnPage THEN Template(ThemePage.controls) ELSE {}

\* Pages that disable their button once it has been used, that enable it for
\* valid fields, for a checkbox.
Locks == tab.page \in {"login", "login-username", "login-password", "login-otp",
                       "select-organization"}
Validates(p) == p \in {"register", "idp-review-user-profile", "update-email",
                       "login-update-profile", "login-recovery-authn-code-config"}

Usable == {k \in Controls : k = "submit" => ~(Locks /\ posts > 0)}

-----------------------------------------------------------------------------
(* What happens in the tab                                                   *)

ThemeInit ==
    /\ tab = NoTab /\ form = "ready" /\ posts = 0 /\ leaving = "none"
    /\ frames = [k \in Clients |-> 0] /\ iframeLoadCount = 0
    /\ session = FALSE /\ otherFlow = FALSE /\ initialSession = FALSE
    /\ poll = "none" /\ check = "none" /\ acted = "none"

OpenTab(p, on, errors, safari, cookie) ==
    /\ tab' = [page |-> p, on |-> on, errors |-> errors, safari |-> safari]
    /\ form' = IF p = "register" THEN "early" ELSE IF Validates(p) THEN "incomplete" ELSE "ready"
    /\ session' = cookie
    /\ UNCHANGED <<posts, leaving, frameVars, otherFlow, initialSession, poll, check, acted>>

\* The script runs once the style sheets are there and the page is rendered.
\* Without a session it polls; it checks for another login if the page has one.
RunChecker ==
    /\ OnPage /\ poll = "none"
    /\ tab.page = "saml-post-form" => posts > 0
    /\ initialSession' = session
    /\ poll' = IF session THEN "off" ELSE "armed"
    /\ check' \in {"armed", "off"}
    /\ UNCHANGED <<tab, form, posts, leaving, frameVars, session, otherFlow, acted>>

StopPolling == poll' = IF poll = "armed" THEN "off" ELSE poll

\* The listener of beforeunload, which Safari does not call.
Unload == IF tab.safari THEN UNCHANGED poll ELSE StopPolling

SubmitListenerFault == Unload            \* fault: no listener on the forms
SubmitListener == StopPolling

\* The listener is on every form of the page, once the script has run.
Heard == SubmitListener /\ acted' = IF poll = "none" THEN "unheard" ELSE "heard"

\* The form of the page is submitted, by the user or by requestSubmit.
Posts == /\ posts < MaxPosts /\ posts' = posts + 1
         /\ leaving' = "form"
         /\ Heard
         /\ UNCHANGED <<tab, form, frameVars, session, otherFlow, initialSession, check>>

Submit == "submit" \in Usable /\ form = "ready" /\ Posts
OtherPost == {"cancel", "another"} \cap Usable # {} /\ Posts
\* The form is posted as soon as it is in the document.
SelfPost == OnPage /\ tab.page = "saml-post-form" /\ poll = "none" /\ posts = 0 /\ Posts

\* The steps of the registration: "early", "details" if it has any, and the
\* last one, on which the form is incomplete or ready.
NextStep == IF form = "early" /\ Has(tab, "details") THEN "details" ELSE "incomplete"
PreviousStep == IF form # "details" /\ Has(tab, "details") THEN "details" ELSE "early"

\* Enter in the only text field of an early step of the registration, or the
\* answer of reCAPTCHA there: the event is heard, and the submission prevented.
EnterEarly == /\ OnPage /\ form \in {"early", "details"}
              /\ form' = NextStep /\ Heard
              /\ UNCHANGED <<tab, posts, leaving, frameVars, session, otherFlow, initialSession, check>>

\* The user goes to the next step, back, fills in what is missing or empties it.
Edit == /\ OnPage
        /\ \/ form \in {"early", "details"} /\ form' = NextStep
           \/ tab.page = "register" /\ form # "early" /\ form' = PreviousStep
           \/ form = "incomplete" /\ form' = "ready"
           \/ form = "ready" /\ Validates(tab.page) /\ form' = "incomplete"
        /\ UNCHANGED <<tab, posts, leaving, frameVars, session, otherFlow, initialSession,
                       poll, check, acted>>

\* A link.
Follow == /\ Usable \ {"submit", "cancel", "another", "passkey"} # {}
          /\ leaving' = "link" /\ Unload
          /\ acted' = IF acted = "heard" THEN acted ELSE "unheard"
          /\ UNCHANGED <<tab, form, posts, frameVars, session, otherFlow, initialSession, check>>

\* A passkey, or its failure, is posted in a form of its own by requestSubmit,
\* which fires the event as a button does; the other button stays enabled.
PostPasskey == /\ "passkey" \in Usable /\ leaving # "passkey" /\ leaving' = "passkey"
               /\ Heard
               /\ UNCHANGED <<tab, form, posts, frameVars, session, otherFlow, initialSession, check>>

RearmFault == "off"                     \* fault: it looks once
Rearm == "armed"

PollSession ==
    /\ OnPage /\ poll = "armed"
    /\ IF session THEN leaving' = "redirect" /\ poll' = "off"
       ELSE poll' = Rearm /\ UNCHANGED leaving
    /\ UNCHANGED <<tab, form, posts, frameVars, session, otherFlow, initialSession, check, acted>>

CheckAuthSession ==
    /\ OnPage /\ check = "armed" /\ check' = "off"
    /\ leaving' = IF otherFlow THEN "reload" ELSE leaving
    /\ UNCHANGED <<tab, form, posts, frameVars, session, otherFlow, initialSession, poll, acted>>

AllLoadedFault(n) == n = Cardinality(Clients) - 1    \* fault: off by one
AllLoaded(n) == n = Cardinality(Clients)

\* Frames load; the effect sees the count after the loads of one batch.
LoadFrames(batch) ==
    /\ OnPage /\ tab.page = "frontchannel-logout"
    /\ \A k \in batch : frames[k] < 2
    /\ frames' = [k \in Clients |-> frames[k] + IF k \in batch THEN 1 ELSE 0]
    /\ iframeLoadCount' = iframeLoadCount + Cardinality(batch)
    /\ leaving' = IF AllLoaded(iframeLoadCount') /\ Has(tab, "redirectUri")
                  THEN "replace" ELSE leaving
    /\ UNCHANGED <<tab, form, posts, session, otherFlow, initialSession, poll, check, acted>>

ElsewhereLogin == /\ tab # NoTab /\ ~session /\ session' = TRUE
                  /\ UNCHANGED <<tab, form, posts, leaving, frameVars, otherFlow, initialSession,
                                 poll, check, acted>>
ElsewhereFlow == /\ tab # NoTab /\ ~otherFlow /\ otherFlow' = TRUE
                 /\ UNCHANGED <<tab, form, posts, leaving, frameVars, session, initialSession,
                                poll, check, acted>>

StopLoad == /\ OnPage /\ leaving # "none" /\ leaving' = "none"
            /\ acted' = IF acted = "heard" THEN acted ELSE "unheard"
            /\ UNCHANGED <<tab, form, posts, frameVars, session, otherFlow, initialSession,
                           poll, check>>
Leave == /\ OnPage /\ leaving # "none" /\ tab' = [tab EXCEPT !.page = "left"]
         /\ UNCHANGED <<form, posts, leaving, frameVars, session, otherFlow, initialSession,
                        poll, check, acted>>

Opens(p) ==
    /\ tab = NoTab
    \* a field that was rejected is one the form has
    /\ \E on \in SUBSET Flags(p), errors \in SUBSET (Fields(p) \cup {"global"}),
          safari \in BOOLEAN, cookie \in BOOLEAN :
             ("nicks" \in errors => "details" \in on) /\ OpenTab(p, on, errors, safari, cookie)

ThemeNext ==
    \/ \E p \in Pages : Opens(p)
    \/ RunChecker \/ Submit \/ OtherPost \/ SelfPost \/ EnterEarly \/ Edit
    \/ Follow \/ PostPasskey \/ PollSession \/ CheckAuthSession
    \/ \E batch \in (SUBSET Clients) \ {{}} : LoadFrames(batch)
    \/ ElsewhereLogin \/ ElsewhereFlow \/ StopLoad \/ Leave

ThemeSpec == ThemeInit /\ [][ThemeNext]_tabVars

\* A timer of the page fires.
ThemeFairness == WF_tabVars(PollSession)

-----------------------------------------------------------------------------
(* What is checked                                                           *)

\* The values every variable may have.
ThemeTypeOK ==
    /\ tab = NoTab \/ tab.page \in Pages \cup {"left"}
    /\ form \in {"early", "details", "incomplete", "ready"} /\ posts \in 0..MaxPosts
    /\ leaving \in {"none", "form", "link", "passkey", "redirect", "reload", "replace"}
    /\ frames \in [Clients -> 0..2] /\ iframeLoadCount \in Nat
    /\ {session, otherFlow, initialSession} \subseteq BOOLEAN
    /\ poll \in {"none", "armed", "off"} /\ check \in {"none", "armed", "off"}
    /\ acted \in {"none", "heard", "unheard"}

\* What Keycloak has rejected is told on the page.  On the registration it may
\* be told on another step only than the one the user is on, which is the first
\* when the page opens.  It is not told on the page to reset an OTP, whose field
\* has no place for its error, for a username the page hides, nor on the pages
\* that never show the message.
ErrorShown ==
    OnPage /\ tab.errors # {} =>
        \/ ThemePage.message \/ tab.errors \cap ThemePage.fields # {}
        \/ tab.page = "register" /\ \E at \in RegisterSteps(tab) : tab.errors \cap StepErrors(at) # {}
        \/ tab.page = "login-reset-otp"
        \/ tab.page = "login-username" /\ (Has(tab, "hidden") \/ ~Has(tab, "password"))
        \/ tab.page = "login" /\ ~Has(tab, "password")
        \/ tab.page \in {"link-idp-action", "delete-credential", "info", "error"}

\* While the browser goes nowhere the user can.  He cannot after he stopped
\* the load of a form whose only button is disabled by then, or of the one
\* that posts itself; where Keycloak gives no address to go back to; and at
\* a login without passwords and passkeys.
PageWayOn ==
    OnPage /\ leaving = "none" =>
        \/ Usable # {}
        \/ Locks /\ posts > 0
        \/ tab.page = "saml-post-form"
        \/ tab.page \in {"info", "error"} /\ (Has(tab, "skipLink") \/ ~Has(tab, "baseUrl"))
        \/ tab.page = "frontchannel-logout" /\ ~Has(tab, "redirectUri")
        \/ tab.page \in {"login", "login-username"} /\ ~Has(tab, "password")
        \/ tab.page = "code"

\* A submission that the script has heard of is not replaced by its redirect,
\* in browsers without beforeunload either.
SubmissionNotReplaced ==
    [][acted = "heard" /\ leaving # "redirect" => leaving' # "redirect"]_tabVars

\* A user who logs in elsewhere and leaves this page alone is taken along.
Waiting == OnPage /\ poll # "none" /\ ~initialSession /\ session /\ acted = "none"
LoginElsewhereFollowed == Waiting ~> (leaving # "none" \/ ~Waiting)

\* The logout goes on by itself only when every client was told, unless the
\* frame of one has loaded twice and stands for another.
LogoutReachesAll ==
    leaving = "replace" => \/ \A k \in Clients : frames[k] > 0
                           \/ \E k \in Clients : frames[k] > 1

\* The assertion at the top of every page.
AssertionHolds == tab.page \in Pages => Asserted(tab.page) = tab.page

-----------------------------------------------------------------------------
(* The invariant that the proofs are by                                      *)

\* While no frame has loaded twice the count is that of the clients told.
Told == {k \in Clients : frames[k] > 0}
LoadsCounted == (\A k \in Clients : frames[k] < 2) => iframeLoadCount = Cardinality(Told)

\* A page carries what Keycloak may say of it and no more, and once the script
\* has heard a submission its timer for the session is off for good.
ThemeIInv ==
    /\ ThemeTypeOK
    /\ tab = [page |-> tab.page, on |-> tab.on, errors |-> tab.errors, safari |-> tab.safari]
    /\ tab.page \in Pages => /\ tab.on \subseteq Flags(tab.page)
                             /\ tab.errors \subseteq Fields(tab.page) \cup {"global"}
                             /\ "nicks" \in tab.errors => "details" \in tab.on
    /\ acted = "heard" => poll = "off"
    /\ LoadsCounted /\ LogoutReachesAll
=============================================================================
