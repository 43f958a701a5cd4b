------------------------------ MODULE WebClient ------------------------------
(***************************************************************************)
(* The auth state and the preferences in the page (frontend/src/App.jsx).   *)
(* The page fetches the auth state when it starts and again whenever the    *)
(* translator changes, that is whenever the language does; it shows a       *)
(* choice at once and sends it to the server if the user is signed in.      *)
(* Requests are not serialised: the server handles them, and their answers  *)
(* come back, in any order.  React runs the effect that fetches some time   *)
(* after the change of state; several changes may happen before.            *)
(*                                                                          *)
(* The server is one stored value and one session here; what its handlers   *)
(* do is module AccountState.  Signing in or out leaves the page.           *)
(***************************************************************************)
EXTENDS Integers

CONSTANTS Languages, Themes,  \* SUPPORTED_LANGUAGES, light and dark
          Default,            \* DEFAULT_PREFERENCES
          NoPrefs,            \* "no user, no preferences" in an answer
          NoLanguage,         \* "the effect has not run yet"
          Slots,              \* BOUND: requests on the wire at once
          MaxChoices,         \* BOUND: choices and refreshes of the user
          MaxFailures         \* BOUND: requests or answers that are lost

Prefs == [language : Languages, theme : Themes]

ASSUME DefaultAssumption == /\ Default \in Prefs /\ NoPrefs \notin Prefs
                            /\ NoLanguage \notin Languages
ASSUME ClientBounds == MaxChoices \in Nat /\ MaxFailures \in Nat

VARIABLES page,        \* the preferences the page shows
          auth,        \* what the page takes its user for
          fetchedFor,  \* the language for which the auth state was last fetched
          wire,        \* the requests on their way, and their answers
          stored,      \* the server: the preferences of the user
          session,     \* the server: whether the browser's session is alive
          \* History, read by the properties only:
          choices,     \* choices and refreshes so far (for the bound)
          failures,    \* requests or answers lost so far
          batched,     \* whether two changes of the page went by in one render
          guestChoice  \* what a guest last chose while the page was at rest

client  == <<page, auth, fetchedFor>>
server  == <<stored, session>>
history == <<choices, failures, batched, guestChoice>>
vars    == <<client, wire, server, history>>

Free == [kind |-> "none", at |-> "none", prefs |-> NoPrefs]

Init == /\ page = Default /\ auth = "guest" /\ fetchedFor = NoLanguage
        /\ wire = [s \in Slots |-> Free]
        /\ stored \in Prefs /\ session \in BOOLEAN
        /\ choices = 0 /\ failures = 0
        /\ batched = FALSE /\ guestChoice = NoPrefs

NeedsFetchFault == TRUE                        \* fault: the effect lacks its dependencies
FetchOnceFault == fetchedFor = NoLanguage      \* fault: an empty list of dependencies
\* refreshAuthState depends on t, t on the dictionary, that on the language.
NeedsFetch == page.language # fetchedFor

Quiet == ~NeedsFetch /\ \A s \in Slots : wire[s] = Free

Send(s, kind, prefs) ==
    /\ wire[s] = Free
    /\ wire' = [wire EXCEPT ![s] = [kind |-> kind, at |-> "out", prefs |-> prefs]]

\* A change of the state of the page: the render of an earlier one, and its
\* effect, may still be due.
Change == batched' = (batched \/ NeedsFetch)

-----------------------------------------------------------------------------
(* The page                                                                  *)

\* The effect that calls refreshAuthState.
Fetch(s) ==
    /\ NeedsFetch
    /\ Send(s, "me", NoPrefs)
    /\ fetchedFor' = page.language
    /\ UNCHANGED <<page, auth, server, history>>

\* The refresh button; a picture uploaded; a profile refused with 401.
Refresh(s) ==
    /\ choices < MaxChoices
    /\ choices' = choices + 1
    /\ Send(s, "me", NoPrefs)
    /\ UNCHANGED <<client, server, failures, batched, guestChoice>>

\* The menus change one of the two preferences, or the same one again.
OneChanged == {p \in Prefs : p # page /\ (p.language = page.language \/ p.theme = page.theme)}

\* onSavePreferences
Choose(s) ==
    /\ choices < MaxChoices
    /\ choices' = choices + 1
    /\ page' \in OneChanged
    /\ Change
    /\ \/ /\ auth = "user" /\ Send(s, "save", page')
          /\ UNCHANGED guestChoice
       \/ /\ auth = "guest" /\ UNCHANGED wire
          /\ guestChoice' = IF Quiet THEN page' ELSE NoPrefs
    /\ UNCHANGED <<auth, fetchedFor, server, failures>>

\* An answer, or the failure of a request, reaches the page.
Receive(s, kind, at) ==
    /\ wire[s].kind = kind /\ wire[s].at = at
    /\ wire' = [wire EXCEPT ![s] = Free]
    /\ Change
    /\ UNCHANGED <<fetchedFor, server, choices, failures>>

ResolveFault(p) == p                           \* fault: a guest's preferences are not resolved
Resolve(p) == IF p = NoPrefs THEN Default ELSE p

ReceiveAuth(s) ==
    /\ Receive(s, "me", "back")
    /\ auth' = IF wire[s].prefs = NoPrefs THEN "guest" ELSE "user"
    /\ page' = Resolve(wire[s].prefs)
    /\ guestChoice' = IF auth' = auth THEN guestChoice ELSE NoPrefs

\* Whatever the failure, the page takes its user for a guest.
ReceiveNoAuth(s) ==
    /\ Receive(s, "me", "lost")
    /\ auth' = "guest" /\ page' = Default
    /\ guestChoice' = NoPrefs

ReceiveSaved(s) ==
    /\ Receive(s, "save", "back")
    /\ page' = wire[s].prefs
    /\ UNCHANGED <<auth, guestChoice>>

\* The choice stays on the page.
ReceiveNotSaved(s) ==
    /\ Receive(s, "save", "lost")
    /\ UNCHANGED <<page, auth, guestChoice>>

-----------------------------------------------------------------------------
(* The server and the network                                                *)

\* /auth/me
HandleMe(s) ==
    /\ wire[s].kind = "me" /\ wire[s].at = "out"
    /\ wire' = [wire EXCEPT ![s].at = "back", ![s].prefs = IF session THEN stored ELSE NoPrefs]
    /\ UNCHANGED <<client, server, history>>

\* /profile/preferences; without a session, 401.
HandleSave(s) ==
    /\ wire[s].kind = "save" /\ wire[s].at = "out"
    /\ stored' = IF session THEN wire[s].prefs ELSE stored
    /\ wire' = [wire EXCEPT ![s].at = IF session THEN "back" ELSE "lost"]
    /\ UNCHANGED <<client, session, history>>

\* A request that never arrives or fails, or an answer that never does.
Lose(s) ==
    /\ wire[s].at \in {"out", "back"}
    /\ failures < MaxFailures
    /\ failures' = failures + 1
    /\ wire' = [wire EXCEPT ![s].at = "lost"]
    /\ UNCHANGED <<client, server, choices, batched, guestChoice>>

SessionEnds ==
    /\ session
    /\ session' = FALSE
    /\ UNCHANGED <<client, wire, stored, history>>

Answered(s) == \/ HandleMe(s) \/ HandleSave(s)
               \/ ReceiveAuth(s) \/ ReceiveNoAuth(s) \/ ReceiveSaved(s) \/ ReceiveNotSaved(s)

Next == \/ \E s \in Slots : Fetch(s) \/ Refresh(s) \/ Choose(s) \/ Answered(s) \/ Lose(s)
        \/ SessionEnds

Spec == Init /\ [][Next]_vars

\* Effects run, requests are handled and answers arrive; the user owes nothing.
FairSpec == /\ Spec
            /\ WF_vars(\E s \in Slots : Fetch(s))
            /\ \A s \in Slots : WF_vars(Answered(s))

-----------------------------------------------------------------------------
(* What is checked                                                           *)

\* The values every variable may have; the page always shows real preferences.
TypeOK ==
    /\ page \in Prefs /\ auth \in {"guest", "user"}
    /\ fetchedFor \in Languages \cup {NoLanguage}
    /\ wire \in [Slots -> {Free} \cup [kind : {"me", "save"}, at : {"out", "back", "lost"},
                                       prefs : Prefs \cup {NoPrefs}]]
    /\ stored \in Prefs /\ session \in BOOLEAN
    /\ choices \in 0..MaxChoices /\ failures \in 0..MaxFailures
    /\ batched \in BOOLEAN /\ guestChoice \in Prefs \cup {NoPrefs}

\* The language heals: however requests and answers overtake each other, a
\* signed-in page at rest shows the language the server has, because every
\* answer that changes the language makes the page ask again.
LanguageAgrees ==
    Quiet /\ auth = "user" /\ session /\ failures = 0 /\ ~batched =>
        page.language = stored.language

\* Asking again ends: once the user stops choosing, the page comes to rest,
\* whatever stale answers are still on their way and whatever fails.
EventuallyQuiet == <>[]Quiet

\* dictionaries/en.js, "Preferences applied locally.": what a guest chooses
\* on a page at rest is what the page shows when it is at rest again.
GuestChoiceKept ==
    Quiet /\ auth = "guest" /\ failures = 0 /\ guestChoice # NoPrefs => page = guestChoice

-----------------------------------------------------------------------------
(* The invariant that the proofs are by                                      *)

\* A save carries preferences; while the session lives, so does an answer
\* about the user, and nothing fails that was not lost.
WireSound ==
    \A s \in Slots :
        /\ wire[s].kind = "save" => wire[s].prefs \in Prefs
        /\ session /\ failures = 0 => /\ wire[s].at # "lost"
                                      /\ wire[s].kind = "me" /\ wire[s].at = "back"
                                         => wire[s].prefs \in Prefs

\* A page that shows another language than the server has will ask, has asked,
\* or has an answer before it that changes the language once more.
Heals ==
    session /\ failures = 0 /\ ~batched =>
        \/ page.language = stored.language
        \/ NeedsFetch
        \/ \E s \in Slots :
              \/ wire[s].kind = "me" /\ wire[s].at = "out"
              \/ wire[s].at = "back" /\ wire[s].prefs.language # page.language

IInv == TypeOK /\ WireSound /\ Heals
=============================================================================
