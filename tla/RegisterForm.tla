---------------------------- MODULE RegisterForm ----------------------------
(***************************************************************************)
(* The registration of the login theme: one form in two or three steps over *)
(* the attributes of the realm's user profile, with the terms and reCAPTCHA *)
(* on the last step (pages/register, components/UserProfileFormFields).     *)
(* All fields are in the document all the time; a step hides those of the   *)
(* others.  The script of reCAPTCHA, which Keycloak hands to the template,  *)
(* looks for its widget once, when it is loaded.                            *)
(***************************************************************************)
EXTENDS Naturals, Sequences, SequencesExt, FiniteSets

CONSTANTS MaxValues,     \* BOUND: values of an attribute
          Profiles       \* the user profiles of the realms

ASSUME ValuesAssumption == MaxValues \in Nat \ {0}

VARIABLES reg,         \* what Keycloak says: attributes, terms, reCAPTCHA, the
                       \*   field it rejected until that is changed
          step,        \* currentStepIndex
          accepted,    \* areTermsAccepted
          values,      \* the values of each attribute
          widget,      \* reCAPTCHA: whether the widget on the page is bound,
          answer,      \*   and its answer: none, pending, a token
          sent,        \* what was sent
          edited       \* history: something was changed since the button was used

regVars == <<reg, step, accepted, values, widget, answer, sent, edited>>

-----------------------------------------------------------------------------
(* The attributes                                                            *)

Attributes == {"email", "nicks", "groups", "password", "passwordHint", "origin"}
Options == {"g", "h"}

ASSUME ProfilesAssumption == Profiles \subseteq SUBSET Attributes

\* InputFieldByType: how an attribute is entered.
InputFieldByType(a) == CASE a = "origin" -> "hidden"
                         [] a = "groups" -> "checkboxes"
                         [] a = "nicks" -> "list"
                         [] OTHER -> "text"

IdentityFields == {"firstname", "lastname", "username", "email"}
IsIdentity(a) == a \in IdentityFields
IsSecurity(a) == a \in {"password", "password-confirm", "passwordHint"}
IsDetail(a) == ~IsIdentity(a) /\ ~IsSecurity(a)
Hidden(a) == InputFieldByType(a) = "hidden"

HasDetailsStep(attrs) == \E a \in attrs : ~Hidden(a) /\ IsDetail(a)

Steps(attrs) == <<"identity">> \o (IF HasDetailsStep(attrs) THEN <<"details">> ELSE <<>>)
                \o <<"security">>
LastStep == step = Len(Steps(reg.attributes)) - 1

IsFieldVisible(a, key) == CASE Hidden(a) -> TRUE
                            [] key = "identity" -> IsIdentity(a)
                            [] key = "details" -> IsDetail(a)
                            [] key = "security" -> IsSecurity(a)

\* UserProfileFormFields
DoDisplayField(a, key) == ~Hidden(a) /\ IsFieldVisible(a, key)
Displayed == {a \in reg.attributes : DoDisplayField(a, Steps(reg.attributes)[step + 1])}

\* A field is in order with a value and without an error Keycloak found in it.
IsFormSubmittable == \A a \in reg.attributes :
    Hidden(a) \/ ((\E i \in 1..Len(values[a]) : values[a][i] # "")
                  /\ a # reg.rejected)

DisabledFault == ~IsFormSubmittable            \* fault: the terms are forgotten
Disabled == ~IsFormSubmittable \/ (reg.terms /\ ~accepted)

-----------------------------------------------------------------------------
(* The form                                                                  *)

NoForm == [attributes |-> {}, terms |-> FALSE, captcha |-> "none", rejected |-> "none"]
NotSent == [complete |-> TRUE, token |-> FALSE, yet |-> FALSE]

RegisterInit ==
    /\ reg = NoForm /\ step = 0 /\ accepted = FALSE
    /\ values = [a \in Attributes |-> IF a = "groups" THEN <<>> ELSE <<"">>]
    /\ widget = "none" /\ answer = "none" /\ sent = NotSent /\ edited = FALSE

OpenForm(attrs, terms, captcha, rejected) ==
    /\ reg' = [attributes |-> attrs, terms |-> terms, captcha |-> captcha, rejected |-> rejected]
    /\ values' = [a \in Attributes |-> IF a = "groups" THEN <<>> ELSE <<"">>]
    /\ UNCHANGED <<step, accepted, widget, answer, sent, edited>>

OnForm == reg # NoForm /\ ~sent.yet

\* The widget is part of the last step: it is mounted anew each time.
Remount(last) == widget' = IF last /\ widget = "bound" THEN "unbound" ELSE widget

GoToNextStep == /\ ~LastStep /\ step' = step + 1
                /\ UNCHANGED <<reg, accepted, values, widget, answer, sent, edited>>
PressNext == OnForm /\ GoToNextStep
BackFault == /\ OnForm /\ step' = step - 1       \* fault: also on the first step
             /\ Remount(LastStep)
             /\ UNCHANGED <<reg, accepted, values, answer, sent, edited>>
Back == /\ OnForm /\ step > 0 /\ step' = step - 1
        /\ Remount(LastStep)
        /\ UNCHANGED <<reg, accepted, values, answer, sent, edited>>

AcceptTerms == /\ OnForm /\ LastStep /\ reg.terms /\ accepted' = ~accepted
               /\ edited' = (edited \/ answer = "pending")
               /\ UNCHANGED <<reg, step, values, widget, answer, sent>>

Update(a, vs) == /\ OnForm /\ a \in Displayed
                 /\ values' = [values EXCEPT ![a] = vs]
                 /\ reg' = [reg EXCEPT !.rejected = IF a = @ THEN "none" ELSE @]
                 /\ edited' = (edited \/ answer = "pending")
                 /\ UNCHANGED <<step, accepted, widget, answer, sent>>

\* InputTag: one value, or the one at the index of the input.
Type(a, i, v) == /\ InputFieldByType(a) \in {"text", "list"} /\ i \in 1..Len(values[a])
                 /\ Update(a, [values[a] EXCEPT ![i] = v])

Without(vs, i) == RemoveAt(vs, i)

RemoveValue(a, i) == /\ InputFieldByType(a) = "list" /\ Len(values[a]) > 1 /\ i \in 1..Len(values[a])
                     /\ Update(a, Without(values[a], i))
AddValue(a) == /\ InputFieldByType(a) = "list" /\ Len(values[a]) < MaxValues
               /\ Update(a, Append(values[a], ""))

\* InputTagSelects: a checked option is appended, an unchecked one spliced out.
Toggle(a, o) == /\ InputFieldByType(a) = "checkboxes"
                /\ Update(a, IF Contains(values[a], o) THEN RemoveFirst(values[a], o)
                             ELSE Append(values[a], o))

-----------------------------------------------------------------------------
(* Submission                                                                *)

Complete == IsFormSubmittable /\ (reg.terms => accepted)
PostForm(token) == sent' = [complete |-> Complete, token |-> token, yet |-> TRUE]

\* onSubmit: only the last step lets the browser send the form.
OnSubmit(token) ==
    \/ /\ ~LastStep /\ step' = step + 1 /\ UNCHANGED sent
    \/ /\ LastStep /\ PostForm(token) /\ UNCHANGED step

TextInputs == FoldSeq(LAMBDA a, n : n + Len(values[a]), 0,
                      SetToSeq({a \in reg.attributes : InputFieldByType(a) \in {"text", "list"}}))

\* Enter on an early step, which has no submit button, in the only text field.
EnterOnEarlyStep ==
    /\ OnForm /\ ~LastStep /\ TextInputs = 1 /\ OnSubmit(FALSE)
    /\ UNCHANGED <<reg, accepted, values, widget, answer, edited>>

\* The button of the last step; reCAPTCHA takes the click on a button it has
\* bound.
PressSubmit ==
    /\ OnForm /\ LastStep /\ ~Disabled
    /\ IF reg.captcha = "button" /\ widget = "bound"
       THEN answer' = "pending" /\ edited' = FALSE /\ UNCHANGED sent
       ELSE PostForm(answer = "token") /\ UNCHANGED <<answer, edited>>
    /\ UNCHANGED <<reg, step, accepted, values, widget>>

\* External: the script of reCAPTCHA is loaded and looks for its widget.
LoadCaptcha == /\ OnForm /\ reg.captcha # "none" /\ widget = "none"
               /\ widget' = IF LastStep THEN "bound" ELSE "unbound"
               /\ UNCHANGED <<reg, step, accepted, values, answer, sent, edited>>

\* The user solves the widget on the page.
Solve == /\ OnForm /\ LastStep /\ reg.captcha = "box" /\ widget = "bound" /\ answer' = "token"
         /\ UNCHANGED <<reg, step, accepted, values, widget, sent, edited>>

\* onSubmitRecaptcha, whatever has become of the form meanwhile.
OnSubmitRecaptcha == /\ OnForm /\ answer = "pending" /\ answer' = "token"
                     /\ OnSubmit(TRUE)
                     /\ UNCHANGED <<reg, accepted, values, widget, edited>>

RegisterNext ==
    \/ /\ reg = NoForm
       /\ \E attrs \in Profiles, terms \in BOOLEAN, captcha \in {"none", "box", "button"} :
             \E rejected \in attrs \cup {"none"} : OpenForm(attrs, terms, captcha, rejected)
    \/ PressNext \/ Back \/ AcceptTerms \/ EnterOnEarlyStep \/ PressSubmit
    \/ LoadCaptcha \/ Solve \/ OnSubmitRecaptcha
    \/ \E a \in Attributes : \/ AddValue(a)
                             \/ \E o \in Options : Toggle(a, o)
                             \/ \E i \in 1..MaxValues : \/ RemoveValue(a, i)
                                                        \/ \E v \in {"", "x"} : Type(a, i, v)

RegisterSpec == RegisterInit /\ [][RegisterNext]_regVars

-----------------------------------------------------------------------------
(* What is checked                                                           *)

\* The values every variable may have: the step is one the form has, an option
\* is chosen once, and of other attributes one value at least stays.
RegisterTypeOK ==
    /\ reg \in [attributes : SUBSET Attributes, terms : BOOLEAN,
                captcha : {"none", "box", "button"}, rejected : Attributes \cup {"none"}]
    /\ step \in 0..Len(Steps(reg.attributes)) - 1 /\ accepted \in BOOLEAN
    /\ DOMAIN values = Attributes
    /\ \A a \in Attributes :
          IF InputFieldByType(a) = "checkboxes"
          THEN values[a] \in Seq(Options) /\ IsInjective(values[a])
          ELSE values[a] \in Seq({"", "x"}) /\ Len(values[a]) \in 1..MaxValues
    /\ widget \in {"none", "bound", "unbound"} /\ answer \in {"none", "pending", "token"}
    /\ sent \in [complete : BOOLEAN, token : BOOLEAN, yet : BOOLEAN] /\ edited \in BOOLEAN

\* A form is sent complete and with the terms accepted, unless it was changed
\* while reCAPTCHA was thinking: its callback submits past the disabled button.
SentComplete == sent.complete \/ edited

-----------------------------------------------------------------------------
(* The invariant that the proofs are by                                      *)

\* What reCAPTCHA thinks about was complete, and is unless it was changed.
PendingIsComplete == answer = "pending" /\ ~edited => Complete /\ reg # NoForm
UnsentIsComplete == ~sent.yet => sent.complete

RegisterIInv == SentComplete /\ PendingIsComplete /\ UnsentIsComplete
=============================================================================
