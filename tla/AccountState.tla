---------------------------- MODULE AccountState ----------------------------
(***************************************************************************)
(* What the application knows of one user, and where: preferences live in   *)
(* Keycloak, in the payload of every session of the user (Redis) and in the *)
(* row of app_users (PostgreSQL); the picture lives on disk and its URL in  *)
(* the sessions.  Calls of api/routers/profile.py and api/routers/auth.py   *)
(* that log in, change preferences, upload a picture or log out are served  *)
(* concurrently.  Each reads the session once, at its start, works on its   *)
(* copy and writes the whole payload back; an action is one command to      *)
(* Redis, Keycloak, PostgreSQL or the disk.  A disk that fails is left out, *)
(* and so is a user without a subject in the claims, for whom no row is     *)
(* written (module LoginFlow has one).                                      *)
(***************************************************************************)
EXTENDS Integers, FiniteSets

CONSTANTS Sessions,     \* session ids; every login draws a fresh one
          Calls,        \* calls that can be served at once
          Prefs,        \* values of the preferences (language and theme)
          Default,      \* default_web_preferences
          NoSession,    \* "no such key"
          NoRow,        \* "the user has no row in app_users yet"
          MaxUploads,   \* BOUND: pictures uploaded
          MaxUpdates    \* BOUND: preference changes started

ASSUME PrefsAssumption == Default \in Prefs /\ NoRow \notin Prefs
\* There is an id for the first session.
ASSUME SessionsAssumption == Sessions # {}
ASSUME AccountBounds == MaxUploads \in Nat /\ MaxUpdates \in Nat

VARIABLES keycloak,   \* the preferences attribute of the account; no attribute is Default
          appUser,    \* the preferences in the row of app_users
          picture,    \* version of the picture file, counted; 0 is "none"
          session,    \* the payload of each session, or NoSession
          pc,         \* where each call is in its handler
          sid,        \* the session each call works for
          copy,       \* its copy of the payload
          next,       \* the preferences it wants to store
          \* History, read by the properties only:
          accepted,   \* every value the attribute has had
          issued,     \* session ids drawn so far
          loggedOut,  \* sessions whose logout was carried out
          latest,     \* the session that last changed or fetched the preferences
          overlapped, \* whether two calls were ever served at once
          failed,     \* whether a call to Keycloak, Redis or PostgreSQL failed
          updates     \* number of preference changes (for the bound)

stores  == <<keycloak, appUser, picture, session>>
calls   == <<pc, sid, copy, next>>
history == <<accepted, issued, loggedOut, latest, overlapped, failed, updates>>
vars    == <<stores, calls, history>>

marks   == <<accepted, issued, loggedOut, latest>>

Payload == [prefs : Prefs, picture : 0..MaxUploads]

Init == /\ keycloak \in Prefs /\ appUser = NoRow /\ picture = 0
        /\ session = [s \in Sessions |-> NoSession]
        /\ pc = [c \in Calls |-> "idle"]
        /\ sid \in [Calls -> {CHOOSE s \in Sessions : TRUE}]
        /\ copy = [c \in Calls |-> NoSession]
        /\ next = [c \in Calls |-> keycloak]
        /\ accepted = {keycloak} /\ issued = {} /\ loggedOut = {}
        /\ latest = CHOOSE s \in Sessions : TRUE
        /\ overlapped = FALSE /\ failed = FALSE /\ updates = 0

Goto(c, stage) == pc' = [pc EXCEPT ![c] = stage]
Idle(c) == pc[c] = "idle"

\* A call for session s begins with payload p in its memory.
Begin(c, s, p, stage) ==
    /\ Idle(c)
    /\ Goto(c, stage)
    /\ sid' = [sid EXCEPT ![c] = s]
    /\ copy' = [copy EXCEPT ![c] = p]
    /\ overlapped' = (overlapped \/ \E d \in Calls \ {c} : ~Idle(d))

\* The call ends with an error.
Fail(c) == Goto(c, "idle") /\ failed' = TRUE

\* create_session, _persist_session: SET of the whole payload, whether or not
\* the key exists; a SET whose answer is lost may have been carried out.
Persist(c, payload) == session' = [session EXCEPT ![sid[c]] = payload]
MayPersist(c, payload) == Persist(c, payload) \/ UNCHANGED session

-----------------------------------------------------------------------------
(* The end of auth_callback: claims, mirror, session                         *)

\* The claims of Keycloak, or its account if the claims say nothing of
\* preferences; a login goes on with the default when the account cannot be
\* fetched.
BeginLogin(c) ==
    /\ \/ next' = [next EXCEPT ![c] = keycloak] /\ UNCHANGED failed
       \/ next' = [next EXCEPT ![c] = Default] /\ failed' = TRUE
    /\ \E s \in Sessions \ issued :
         /\ Begin(c, s, [prefs |-> next'[c], picture |-> 0], "mirrorLogin")
         /\ issued' = issued \cup {s}
    /\ UNCHANGED <<stores, accepted, loggedOut, latest, updates>>

\* The picture is looked up on the disk, then the row is written.
MirrorLogin(c) ==
    /\ pc[c] = "mirrorLogin"
    /\ copy' = [copy EXCEPT ![c].picture = picture]
    /\ \/ /\ appUser' = next[c] /\ Goto(c, "open") /\ UNCHANGED failed
       \/ /\ appUser' \in {appUser, next[c]} /\ Fail(c)
    /\ UNCHANGED <<keycloak, picture, session, sid, next, marks, overlapped, updates>>

OpenSession(c) ==
    /\ pc[c] = "open"
    /\ \/ Persist(c, copy[c]) /\ Goto(c, "idle") /\ UNCHANGED failed
       \/ Fail(c) /\ MayPersist(c, copy[c])
    /\ latest' = sid[c]
    /\ UNCHANGED <<keycloak, appUser, picture, sid, copy, next,
                   accepted, issued, loggedOut, overlapped, updates>>

-----------------------------------------------------------------------------
(* update_profile_preferences                                                *)

\* A change that changes nothing, seen from the session, ends here.
BeginUpdate(c) ==
    /\ updates < MaxUpdates
    /\ \E s \in Sessions, p \in Prefs :
         /\ session[s] # NoSession /\ p # session[s].prefs
         /\ Begin(c, s, session[s], "write")
         /\ next' = [next EXCEPT ![c] = p]
    /\ updates' = updates + 1
    /\ UNCHANGED <<stores, marks, failed>>

\* Keycloak takes the value, or may have taken it although the call fails.
Written(c, taken) ==
    /\ keycloak' = IF taken THEN next[c] ELSE keycloak
    /\ accepted' = IF taken THEN accepted \cup {next[c]} ELSE accepted

\* Fault: a Keycloak that cannot be reached is tolerated.
WriteKeycloakFault(c) ==
    /\ pc[c] \in {"write", "rewrite"}
    /\ \E taken \in BOOLEAN : Written(c, taken) /\ failed' = (failed \/ ~taken)
    /\ Goto(c, "save")
    /\ UNCHANGED <<appUser, picture, session, sid, copy, next,
                   issued, loggedOut, latest, overlapped, updates>>

\* update_web_preferences: the account is fetched and put back with the new
\* attribute.  An expired token (401) is refreshed once.
WriteKeycloak(c) ==
    /\ pc[c] \in {"write", "rewrite"}
    /\ \/ Written(c, TRUE) /\ Goto(c, "save") /\ UNCHANGED failed
       \/ Written(c, FALSE) /\ pc[c] = "write" /\ Goto(c, "refresh") /\ UNCHANGED failed
       \/ \E taken \in BOOLEAN : Written(c, taken) /\ Fail(c)
    /\ UNCHANGED <<appUser, picture, session, sid, copy, next,
                   issued, loggedOut, latest, overlapped, updates>>

RefreshTokens(c) ==
    /\ pc[c] = "refresh"
    /\ \/ Goto(c, "rewrite") /\ UNCHANGED failed
       \/ Fail(c)
    /\ UNCHANGED <<stores, sid, copy, next, marks, overlapped, updates>>

\* Fault: the payload is written before the new preferences are put in it.
SavePreferencesFault(c) ==
    /\ pc[c] = "save"
    /\ Persist(c, copy[c])
    /\ latest' = sid[c]
    /\ Goto(c, "mirror")
    /\ UNCHANGED <<keycloak, appUser, picture, sid, copy, next,
                   accepted, issued, loggedOut, overlapped, failed, updates>>

SavePreferences(c) ==
    /\ pc[c] = "save"
    /\ copy' = [copy EXCEPT ![c].prefs = next[c]]
    /\ \/ Persist(c, copy'[c]) /\ Goto(c, "mirror") /\ UNCHANGED failed
       \/ Fail(c) /\ MayPersist(c, copy'[c])
    /\ latest' = sid[c]
    /\ UNCHANGED <<keycloak, appUser, picture, sid, next,
                   accepted, issued, loggedOut, overlapped, updates>>

MirrorPreferences(c) ==
    /\ pc[c] = "mirror"
    /\ \/ appUser' = next[c] /\ Goto(c, "idle") /\ UNCHANGED failed
       \/ appUser' \in {appUser, next[c]} /\ Fail(c)
    /\ UNCHANGED <<keycloak, picture, session, sid, copy, next, marks, overlapped, updates>>

-----------------------------------------------------------------------------
(* upload_profile_picture                                                    *)

\* Fault: the handler does not insist on a session.
BeginUploadFault(c) ==
    /\ \E s \in Sessions : Begin(c, s, session[s], "store")
    /\ UNCHANGED <<stores, next, marks, failed, updates>>

BeginUpload(c) ==
    /\ \E s \in Sessions : session[s] # NoSession /\ Begin(c, s, session[s], "store")
    /\ UNCHANGED <<stores, next, marks, failed, updates>>

\* The body has arrived: the file is replaced, its version goes into the URL.
StorePicture(c) ==
    /\ pc[c] = "store" /\ picture < MaxUploads
    /\ picture' = picture + 1
    /\ copy' = [copy EXCEPT ![c].picture = picture']
    /\ Goto(c, "attach")
    /\ UNCHANGED <<keycloak, appUser, session, sid, next, history>>

\* A body that is refused: empty, too large, or not an image.
RefusePicture(c) ==
    /\ pc[c] = "store"
    /\ Goto(c, "idle")
    /\ UNCHANGED <<stores, sid, copy, next, history>>

\* Afterwards the image job is enqueued (JobQueue).
AttachPicture(c) ==
    /\ pc[c] = "attach"
    /\ \/ Persist(c, copy[c]) /\ Goto(c, "idle") /\ UNCHANGED failed
       \/ Fail(c) /\ MayPersist(c, copy[c])
    /\ UNCHANGED <<keycloak, appUser, picture, sid, copy, next, marks, overlapped, updates>>

-----------------------------------------------------------------------------
(* auth_logout; the session's time to live                                   *)

BeginLogout(c) ==
    /\ \E s \in Sessions : session[s] # NoSession /\ Begin(c, s, session[s], "end")
    /\ UNCHANGED <<stores, next, marks, failed, updates>>

EndSession(c) ==
    /\ pc[c] = "end"
    /\ \/ /\ Persist(c, NoSession) /\ loggedOut' = loggedOut \cup {sid[c]}
          /\ Goto(c, "idle") /\ UNCHANGED failed
       \/ Fail(c) /\ MayPersist(c, NoSession) /\ UNCHANGED loggedOut
    /\ UNCHANGED <<keycloak, appUser, picture, sid, copy, next,
                   accepted, issued, latest, overlapped, updates>>

\* A session that is not used for session_ttl_seconds is gone.
SessionExpires(s) ==
    /\ session[s] # NoSession
    /\ session' = [session EXCEPT ![s] = NoSession]
    /\ UNCHANGED <<keycloak, appUser, picture, calls, history>>

Next == \/ \E c \in Calls :
             \/ BeginLogin(c) \/ MirrorLogin(c) \/ OpenSession(c)
             \/ BeginUpdate(c) \/ WriteKeycloak(c) \/ RefreshTokens(c)
             \/ SavePreferences(c) \/ MirrorPreferences(c)
             \/ BeginUpload(c) \/ StorePicture(c) \/ RefusePicture(c) \/ AttachPicture(c)
             \/ BeginLogout(c) \/ EndSession(c)
        \/ \E s \in Sessions : SessionExpires(s)

Spec == Init /\ [][Next]_vars

-----------------------------------------------------------------------------
(* What is checked                                                           *)

Stages == {"idle", "mirrorLogin", "open", "write", "refresh", "rewrite", "save",
           "mirror", "store", "attach", "end"}
Live == {s \in Sessions : session[s] # NoSession}
Quiet == \A c \in Calls : Idle(c)

\* The values every variable may have.
TypeOK ==
    /\ keycloak \in Prefs /\ appUser \in Prefs \cup {NoRow} /\ picture \in 0..MaxUploads
    /\ session \in [Sessions -> Payload \cup {NoSession}]
    /\ pc \in [Calls -> Stages]
    /\ sid \in [Calls -> Sessions]
    /\ \A c \in Calls : ~Idle(c) => copy[c] \in Payload
    /\ next \in [Calls -> Prefs]
    /\ accepted \subseteq Prefs /\ issued \subseteq Sessions /\ loggedOut \subseteq issued
    /\ latest \in Sessions
    /\ overlapped \in BOOLEAN /\ failed \in BOOLEAN /\ updates \in 0..MaxUpdates

\* Nothing runs ahead of its source, whatever fails and however calls
\* overlap: but for the default, no session and no row of app_users shows
\* preferences Keycloak never had, and no session points to a picture that
\* was never on the disk.
NothingAheadOfItsSource ==
    /\ \A s \in Live : /\ session[s].prefs \in accepted \cup {Default}
                       /\ session[s].picture <= picture
    /\ appUser \in accepted \cup {Default, NoRow}

\* As long as calls come one after the other and none of them fails, the
\* three copies of the preferences agree between calls: Keycloak, app_users
\* and the session that logged in or changed them last.
CopiesAgree ==
    Quiet /\ ~overlapped /\ ~failed /\ appUser # NoRow =>
        /\ appUser = keycloak
        /\ latest \in Live => session[latest].prefs = keycloak

\* The inductive invariant behind them.  What a call carries is no further
\* ahead than what is stored, and it is stored where it may be.
Seen == accepted \cup {Default}
CarriedOK ==
    /\ copy \in [Calls -> Payload \cup {NoSession}]
    /\ keycloak \in accepted /\ Live \subseteq issued
    /\ \A c \in Calls : ~Idle(c) =>
         /\ sid[c] \in issued
         /\ copy[c].prefs \in Seen /\ copy[c].picture <= picture
         /\ pc[c] \in {"mirrorLogin", "open", "save", "mirror"} => next[c] \in Seen

\* While calls come one by one and succeed, app_users and the latest session
\* are behind Keycloak only between the steps of a change, and what a call
\* is about to store agrees with Keycloak.
LatestAgrees == latest \in Live => session[latest].prefs = keycloak
OneAtATime == ~overlapped => \A c, d \in Calls : ~Idle(c) /\ ~Idle(d) => c = d
InStep(c) ==
    /\ pc[c] \notin {"idle", "mirrorLogin", "end"} => appUser # NoRow
    /\ pc[c] = "mirrorLogin" => next[c] = keycloak
    /\ pc[c] \in {"mirrorLogin", "open"} => copy[c].prefs = keycloak
    /\ pc[c] \in {"save", "mirror"} => next[c] = keycloak
    /\ pc[c] = "mirror" => LatestAgrees
    /\ pc[c] \in {"store", "attach"} /\ sid[c] = latest => copy[c].prefs = keycloak
Changing(c) == pc[c] \in {"save", "mirror"}
OneByOne ==
    ~overlapped /\ ~failed =>
        /\ appUser = NoRow => Live = {}
        /\ appUser # NoRow /\ (\A c \in Calls : ~Changing(c)) => appUser = keycloak /\ LatestAgrees
        /\ \A c \in Calls : InStep(c)
IInv == TypeOK /\ NothingAheadOfItsSource /\ CarriedOK /\ OneAtATime /\ OneByOne

\* docs/CODE_STRUCTURE.md: "/auth/logout enforces CSRF, clears session/cookies".
\* A session that was logged out does not come back.
LogoutIsFinal == loggedOut \cap Live = {}
=============================================================================
