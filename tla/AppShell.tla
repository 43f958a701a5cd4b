------------------------------ MODULE AppShell ------------------------------
(***************************************************************************)
(* The page around the preferences (frontend/src/App.jsx): whom it takes    *)
(* its user for, where it is, what the profile page shows, which controls   *)
(* are on screen, and the requests it has sent.  Nothing serialises those:  *)
(* the server handles them, and their answers come back, in any order.      *)
(* Another tab of the browser may log in as somebody else or log out.       *)
(*                                                                          *)
(* Preferences themselves are module WebClient; here a choice is the        *)
(* request it sends, and a new language the fetch that follows it.  A       *)
(* change of state, its render and the effects of the render are one step.  *)
(***************************************************************************)
EXTENDS Integers, FiniteSets

CONSTANTS MaxLogins,     \* BOUND: sessions of this browser; each is another user's
          Slots,         \* BOUND: requests on the wire at once
          MaxClicks,     \* BOUND: what the user does
          MaxFailures    \* BOUND: requests or answers that are lost

ASSUME ShellBounds == MaxLogins \in Nat \ {0} /\ MaxClicks \in Nat /\ MaxFailures \in Nat

VARIABLES page,        \* not yet opened, open, or left for another one
          auth,        \* authState: loading, authenticated, user and CSRF token
          path,        \* where the page is
          callback,    \* whether the address tells of a failed login
          profile,     \* the state of ProfilePage
          busy,        \* savingPreferences, loggingOut
          wire,        \* requests on their way, and their answers
          logins,      \* the server: logins of this browser so far,
          alive,       \*   whether the last one's session is alive,
          picture,     \*   how often its user changed the picture,
          mayRead,     \*   whether that user has the permission profile:read
          \* History, read by the properties and for the bounds:
          shellPast    \* clicks and failures so far; whether requests overlapped,
                       \* the session changed elsewhere since the server was asked,
                       \* the page opened after a failed login, and was left since

client == <<page, auth, path, callback, profile, busy>>
server == <<logins, alive, picture, mayRead>>
shellVars == <<client, wire, server, shellPast>>

Nobody == [user |-> 0, picture |-> 0]
Users == [user : 0..MaxLogins, picture : 0..MaxClicks]
Session == IF alive THEN logins ELSE 0

Free == [kind |-> "none", at |-> "none", live |-> FALSE, token |-> 0, by |-> 0, user |-> Nobody]
Blank == [loading |-> FALSE, shown |-> Nobody, error |-> FALSE, uploading |-> FALSE]
Guest == [loading |-> FALSE, authenticated |-> FALSE, user |-> Nobody, token |-> 0]

ShellInit ==
    /\ page = "closed" /\ auth = [Guest EXCEPT !.loading = TRUE]
    /\ path = "/" /\ callback = FALSE /\ profile = Blank /\ busy = {}
    /\ wire = [s \in Slots |-> Free]
    /\ logins = 1 /\ alive = FALSE /\ picture = 0 /\ mayRead = FALSE
    /\ shellPast = [clicks |-> 0, failures |-> 0, overlapped |-> FALSE,
                    elsewhere |-> FALSE, failed |-> FALSE, moved |-> FALSE]

Quiet == /\ \A s \in Slots : wire[s] = Free
         /\ ~auth.loading /\ ~profile.loading /\ busy = {}

-----------------------------------------------------------------------------
(* What is on screen                                                         *)

RoutesShownFault(a) == TRUE        \* fault: the routes stay on screen while loading
RoutesShown(a) == ~a.loading

IsIntro(a, p) == ~a.loading /\ ~a.authenticated /\ p = "/"

\* Where the routes lead: "/" is the introduction of a guest and leads a user
\* home, an unknown path leads to "/".
Landed(a, p) == IF ~RoutesShown(a) \/ p \in {"/home", "/profile"} THEN p
                ELSE IF IsIntro(a, "/") THEN "/" ELSE "/home"

Mounted(a, p) == RoutesShown(a) /\ p = "/profile"

SignControls == IF auth.authenticated THEN {"logout"} ELSE {"login", "register"}

NavControls == SignControls \cup {"home", "profile"} \cup {c \in {"refresh"} : ~auth.loading}

DetailsControls == {c \in {"login", "register"} : ~auth.authenticated}
                   \cup {c \in {"preferences"} : "save" \notin busy}

\* Never disabled, neither while a choice is saved nor while logging out.
MenuControls == SignControls \cup {"profile", "preferences"}

IntroControls == {"login", "register"}

LandingControls == IF auth.authenticated THEN {"profile"} ELSE {"login", "register"}

ProfileControls ==
    IF ~auth.authenticated THEN {"login", "register"}
    ELSE IF profile.loading THEN {}
    ELSE {"refresh"} \cup {c \in {"logout"} : "logout" \notin busy}
         \cup {c \in {"upload"} : profile.shown # Nobody /\ ~profile.uploading}

Offered == IF IsIntro(auth, path) THEN IntroControls
           ELSE NavControls \cup DetailsControls \cup MenuControls \cup
                CASE ~RoutesShown(auth) -> {}
                  [] RoutesShown(auth) /\ path = "/profile" -> ProfileControls
                  [] OTHER -> LandingControls

-----------------------------------------------------------------------------
(* Requests and renders                                                      *)

CsrfTokenFault == Session          \* fault: the token of the cookie comes first
CsrfToken == IF auth.token # 0 THEN auth.token ELSE Session

Request(kind) == [kind |-> kind, at |-> "out", live |-> TRUE, token |-> CsrfToken,
                  by |-> auth.user.user, user |-> Nobody]

\* The page with auth state a at path p.  ProfilePage fetches in slot s when
\* it appears, or its user does; what it asked before no longer concerns it.
Show(a, p, w, s) ==
    /\ auth' = a
    /\ path' = Landed(a, p)
    /\ callback' = (callback /\ path' = "/")
    /\ LET was == Mounted(auth, path)
           now == Mounted(a, path')
           fetches == now /\ a.authenticated /\ ~(was /\ auth.authenticated)
           changed == was /\ ~(now /\ a.authenticated = auth.authenticated)
           Cut(r) == \/ r.kind = "profile" /\ changed
                     \/ r.kind = "upload" /\ was /\ ~now
       IN /\ wire' = [x \in Slots |->
                        IF x = s /\ fetches THEN Request("profile")
                        ELSE [w[x] EXCEPT !.live = @ /\ ~Cut(w[x])]]
          /\ profile' = IF ~now THEN Blank
                        ELSE IF fetches THEN [Blank EXCEPT !.loading = TRUE]
                        ELSE IF a.authenticated THEN profile ELSE Blank

Put(s, r) == [wire EXCEPT ![s] = r]

\* refreshAuthState up to its await, its request in slot s.
BeginRefresh(s) == Show([auth EXCEPT !.loading = TRUE], path, Put(s, Request("me")), s)

Keeps == UNCHANGED <<page, busy, server>>

\* Requests that change or tell whom the page shows, sent while another is out.
Overlaps(s) == \E x \in Slots \ {s} : wire[x].kind \in {"me", "save", "upload", "logout"}

Past(s, clicks) == shellPast' = [shellPast EXCEPT !.clicks = @ + clicks,
                                                  !.overlapped = @ \/ Overlaps(s)]
-----------------------------------------------------------------------------
(* The user                                                                  *)

\* A browser opens the page, maybe because a login failed.
OpenPage(s, p, failed) ==
    /\ page = "closed" /\ page' = "open"
    /\ failed => p = "/"
    /\ path' = Landed(auth, p) /\ callback' = (failed /\ path' = p)
    /\ wire' = Put(s, Request("me"))
    /\ alive' \in BOOLEAN /\ mayRead' \in BOOLEAN
    /\ shellPast' = [shellPast EXCEPT !.failed = failed]
    /\ UNCHANGED <<auth, profile, busy, logins, picture>>

Click(s, control) ==
    /\ page = "open" /\ wire[s] = Free
    /\ control \in Offered
    /\ shellPast.clicks < MaxClicks
    /\ Past(s, 1)

Refresh(s) == Click(s, "refresh") /\ BeginRefresh(s) /\ Keeps

\* A new language makes a new translator, and that a fetch (module WebClient).
NewTranslator(s) ==
    /\ page = "open" /\ wire[s] = Free
    /\ shellPast.clicks < MaxClicks
    /\ Past(s, 1) /\ BeginRefresh(s) /\ Keeps

Navigate(s, control, p) ==
    /\ page = "open" /\ wire[s] = Free
    /\ control \in Offered
    /\ shellPast.clicks < MaxClicks
    /\ shellPast' = [shellPast EXCEPT !.clicks = @ + 1, !.moved = TRUE]
    /\ Show(auth, p, wire, s) /\ Keeps

\* onSavePreferences of a user who is signed in; a guest's stays in the page.
SavePreferences(s) ==
    /\ auth.authenticated
    /\ Click(s, "preferences")
    /\ wire' = Put(s, Request("save")) /\ busy' = busy \cup {"save"}
    /\ UNCHANGED <<page, auth, path, callback, profile, server>>

\* onLogout; a click while it is under way logs out again.
Logout(s) ==
    /\ Click(s, "logout")
    /\ wire' = Put(s, Request("logout")) /\ busy' = busy \cup {"logout"}
    /\ UNCHANGED <<page, auth, path, callback, profile, server>>

\* onPictureSelected
Upload(s) ==
    /\ Click(s, "upload")
    /\ wire' = Put(s, Request("upload")) /\ profile' = [profile EXCEPT !.uploading = TRUE]
    /\ UNCHANGED <<page, auth, path, callback, busy, server>>

-----------------------------------------------------------------------------
(* Answers                                                                   *)

Arrived(s, kind, answers) ==
    /\ page = "open"
    /\ wire[s].kind = kind /\ wire[s].at \in answers

Refused == {"401", "403", "lost"}

ReceiveMe(s) ==
    /\ Arrived(s, "me", {"back", "lost"})
    /\ LET u == IF wire[s].at = "back" THEN wire[s].user ELSE Nobody
       IN /\ Show([loading |-> FALSE, authenticated |-> u.user # 0, user |-> u, token |-> u.user],
                  path, Put(s, Free), s)
          /\ shellPast' = [shellPast EXCEPT !.moved = @ \/ u.user # 0]
    /\ Keeps

ReceiveProfile(s) ==
    /\ Arrived(s, "profile", {"back"})
    /\ wire' = Put(s, Free)
    /\ profile' = IF wire[s].live THEN [profile EXCEPT !.shown = wire[s].user, !.loading = FALSE]
                  ELSE profile
    /\ Keeps /\ UNCHANGED <<auth, path, callback, shellPast>>

AsksWhoFault(s) == wire[s].live                       \* fault: after any failure
AsksWho(s) == wire[s].live /\ wire[s].at = "401"

ReceiveNoProfile(s) ==
    /\ Arrived(s, "profile", Refused)
    /\ \/ /\ AsksWho(s)
          /\ BeginRefresh(s) /\ Past(s, 0)
       \/ /\ ~AsksWho(s)
          /\ wire' = Put(s, Free)
          /\ profile' = IF wire[s].live THEN [profile EXCEPT !.error = TRUE, !.loading = FALSE]
                        ELSE profile
          /\ UNCHANGED <<auth, path, callback, shellPast>>
    /\ Keeps

AfterUploadFault(s) == /\ wire' = Put(s, Free)        \* fault: only the profile page is told
                       /\ profile' = [profile EXCEPT !.shown = wire[s].user, !.uploading = FALSE]
                       /\ UNCHANGED <<auth, path, callback>>
\* The refresh takes the page from the screen, and its message with it.
AfterUpload(s) == BeginRefresh(s)

ReceiveUploaded(s) == Arrived(s, "upload", {"back"}) /\ AfterUpload(s) /\ Past(s, 0) /\ Keeps

ReceiveNotUploaded(s) ==
    /\ Arrived(s, "upload", Refused)
    /\ wire' = Put(s, Free)
    /\ profile' = [profile EXCEPT !.uploading = @ /\ ~wire[s].live]
    /\ Keeps /\ UNCHANGED <<auth, path, callback, shellPast>>

\* The answer to a choice names the user again, whoever that is by now.
ReceiveSaved(s) ==
    /\ Arrived(s, "save", {"back"} \cup Refused)
    /\ wire' = Put(s, Free) /\ busy' = busy \ {"save"}
    /\ auth' = IF wire[s].at = "back" THEN [auth EXCEPT !.user = wire[s].user] ELSE auth
    /\ UNCHANGED <<page, path, callback, profile, server, shellPast>>

\* The browser goes to Keycloak's logout.
ReceiveLoggedOut(s) ==
    /\ Arrived(s, "logout", {"back"})
    /\ page' = "left" /\ auth' = Guest /\ wire' = Put(s, Free) /\ busy' = busy \ {"logout"}
    /\ UNCHANGED <<path, callback, profile, server, shellPast>>

ReceiveNotLoggedOut(s) ==
    /\ Arrived(s, "logout", Refused)
    /\ wire' = Put(s, Free) /\ busy' = busy \ {"logout"}
    /\ UNCHANGED <<page, auth, path, callback, profile, server, shellPast>>

-----------------------------------------------------------------------------
(* The server, the network and the other tab                                 *)

User == [user |-> Session, picture |-> IF alive THEN picture ELSE 0]

Answer(s, at) == wire' = [wire EXCEPT ![s].at = at, ![s].user = IF at = "back" THEN User ELSE Nobody]

HandleMe(s) ==
    /\ wire[s].kind = "me" /\ wire[s].at = "out"
    /\ Answer(s, "back")
    /\ shellPast' = [shellPast EXCEPT !.elsewhere = FALSE]
    /\ UNCHANGED <<client, server>>

HandleProfile(s) ==
    /\ wire[s].kind = "profile" /\ wire[s].at = "out"
    /\ Answer(s, IF ~alive THEN "401" ELSE IF mayRead THEN "back" ELSE "403")
    /\ UNCHANGED <<client, server, shellPast>>

\* require_session and require_csrf: the cookie is always the last login's.
Accepted(s) == alive /\ wire[s].token = Session

HandleWrite(s) ==
    /\ wire[s].kind \in {"save", "upload", "logout"} /\ wire[s].at = "out"
    /\ IF Accepted(s)
       THEN /\ picture' = IF wire[s].kind = "upload" THEN picture + 1 ELSE picture
            /\ alive' = (wire[s].kind # "logout")
            /\ wire' = [wire EXCEPT ![s].at = "back", ![s].user = [user |-> Session, picture |-> picture']]
       ELSE /\ Answer(s, IF alive THEN "403" ELSE "401")
            /\ UNCHANGED <<picture, alive>>
    /\ UNCHANGED <<client, logins, mayRead, shellPast>>

Lose(s) ==
    /\ page = "open" /\ wire[s].at \in {"out", "back"}
    /\ shellPast.failures < MaxFailures
    /\ shellPast' = [shellPast EXCEPT !.failures = @ + 1]
    /\ Answer(s, "lost")
    /\ UNCHANGED <<client, server>>

OtherTabLogsIn ==
    /\ page = "open" /\ logins < MaxLogins
    /\ logins' = logins + 1 /\ alive' = TRUE /\ picture' = 0
    /\ shellPast' = [shellPast EXCEPT !.elsewhere = TRUE]
    /\ UNCHANGED <<client, wire, mayRead>>

\* The session expires, or the other tab logs out.
SessionEnds ==
    /\ page = "open" /\ alive /\ alive' = FALSE
    /\ shellPast' = [shellPast EXCEPT !.elsewhere = TRUE]
    /\ UNCHANGED <<client, wire, logins, picture, mayRead>>

Answered(s) == \/ HandleMe(s) \/ HandleProfile(s) \/ HandleWrite(s)
               \/ ReceiveMe(s) \/ ReceiveProfile(s) \/ ReceiveNoProfile(s)
               \/ ReceiveUploaded(s) \/ ReceiveNotUploaded(s) \/ ReceiveSaved(s)
               \/ ReceiveLoggedOut(s) \/ ReceiveNotLoggedOut(s)

ShellNext ==
    \/ \E s \in Slots :
          \/ \E p \in {"/", "/home", "/profile", "*"}, f \in BOOLEAN : OpenPage(s, p, f)
          \/ Refresh(s) \/ NewTranslator(s) \/ SavePreferences(s) \/ Logout(s) \/ Upload(s)
          \/ Navigate(s, "home", "/home") \/ Navigate(s, "profile", "/profile")
          \/ Answered(s) \/ Lose(s)
    \/ OtherTabLogsIn \/ SessionEnds

ShellSpec == ShellInit /\ [][ShellNext]_shellVars

\* Requests are handled and answers arrive; the user owes nothing.
ShellFairness == \A s \in Slots : WF_shellVars(Answered(s))

-----------------------------------------------------------------------------
(* What is checked                                                           *)

\* The values every variable may have.
ShellTypeOK ==
    /\ page \in {"closed", "open", "left"}
    /\ auth \in [loading : BOOLEAN, authenticated : BOOLEAN, user : Users, token : 0..MaxLogins]
    /\ path \in {"/", "/home", "/profile", "*"} /\ callback \in BOOLEAN
    /\ profile \in [loading : BOOLEAN, shown : Users, error : BOOLEAN, uploading : BOOLEAN]
    /\ busy \subseteq {"save", "logout"}
    /\ wire \in [Slots -> {Free} \cup
                 [kind : {"me", "profile", "save", "upload", "logout"},
                  at : {"out", "back", "401", "403", "lost"}, live : BOOLEAN,
                  token : 0..MaxLogins, by : 0..MaxLogins, user : Users]]
    /\ logins \in 1..MaxLogins /\ alive \in BOOLEAN /\ picture \in 0..MaxClicks
    /\ mayRead \in BOOLEAN
    /\ shellPast \in [clicks : 0..MaxClicks, failures : 0..MaxFailures, overlapped : BOOLEAN,
                      elsewhere : BOOLEAN, failed : BOOLEAN, moved : BOOLEAN]

\* The profile on screen is never that of an earlier user than the page names,
\* though the effect that fetches it does not depend on the user: every fetch
\* of the auth state takes the profile page from the screen.  (Two of those at
\* once are not told apart: the second answer changes the user in place.)
NeverAnEarlierProfile ==
    profile.shown # Nobody /\ ~shellPast.overlapped => profile.shown.user >= auth.user.user

\* A choice, an upload or a logout changes the account the page named when the
\* user clicked, or none: another tab may have logged in as somebody else, and
\* the browser then sends that login's cookie.
ActsForTheUserShown ==
    [][\A s \in Slots : (\/ logins' = logins /\ <<alive, picture>>' # <<alive, picture>>
                         \/ wire[s].kind = "save" /\ wire'[s].at = "back")
            /\ wire[s].at = "out" /\ wire'[s].at = "back" /\ ~shellPast.overlapped
        => wire[s].by = Session]_shellVars

\* At rest the page names the user, and shows the picture, that the server
\* knows, unless the session changed since it asked, an answer was lost, or
\* requests overlapped.
AtRestAgrees ==
    page = "open" /\ Quiet /\ shellPast.failures = 0
    /\ ~shellPast.elsewhere /\ ~shellPast.overlapped => auth.user = User

\* A guest whose login failed reads why once the page is at rest: the address
\* that tells it outlives every fetch, unless he went elsewhere or the page
\* took him for a user (who loses it on the way home).
FailureIsShown ==
    shellPast.failed /\ page = "open" /\ Quiet /\ ~shellPast.moved =>
        IsIntro(auth, path) /\ callback

\* Every answer that makes the page ask again leads to one that does not: once
\* the user stops clicking, nothing is on the wire and nothing shows a spinner.
ComesToRest == <>[](page # "open" \/ Quiet)

-----------------------------------------------------------------------------
(* The invariant that the proofs are by                                      *)

\* Nothing has begun before the page is open; who left it is a guest.
BeforeAndAfter ==
    /\ page = "closed" => /\ auth = [Guest EXCEPT !.loading = TRUE] /\ profile = Blank
                          /\ \A s \in Slots : wire[s] = Free
    /\ page = "left" => auth = Guest

\* An upload is a click of its own.
UploadsOut == {s \in Slots : wire[s].kind = "upload" /\ wire[s].at = "out"}
UploadsCounted == /\ IsFiniteSet(UploadsOut)
                  /\ picture + Cardinality(UploadsOut) <= shellPast.clicks

\* Nobody is named who has not logged in.
KnownUsers == auth.user.user <= logins /\ \A s \in Slots : wire[s].user.user <= logins

\* A profile is shown, and an answer about one awaited, on a user's profile page only.
ProfileOnItsPage ==
    page = "open" /\ (\/ profile.shown # Nobody
                      \/ \E s \in Slots : wire[s].kind = "profile" /\ wire[s].live)
        => Mounted(auth, path) /\ auth.authenticated

\* Requests that did not overlap: one at a time, each in the name of the user
\* the page still has; it fetches the auth state only while it shows no page.
Writes == {"save", "upload", "logout"}

OneOnTheWire ==
    \A s, q \in Slots : {wire[s].kind, wire[q].kind} \subseteq Writes \cup {"me"} => s = q

InTheUsersName ==
    /\ auth.token = auth.user.user
    /\ \A s \in Slots : wire[s].kind \in Writes =>
          /\ wire[s].by = wire[s].token
          /\ page = "open" => wire[s].token = auth.token
          /\ wire[s].kind = "save" /\ wire[s].at = "back" => wire[s].user.user = wire[s].token

ProfileNotEarlier ==
    /\ profile.shown # Nobody => profile.shown.user >= auth.user.user
    /\ \A s \in Slots : wire[s].kind = "profile" /\ wire[s].live /\ wire[s].at = "back"
          => wire[s].user.user >= auth.user.user

Serial ==
    ~shellPast.overlapped =>
        /\ OneOnTheWire /\ InTheUsersName
        /\ page = "open" => /\ ProfileNotEarlier
                            /\ \A s \in Slots : wire[s].kind = "me" => auth.loading

\* What the page knows of its user is what the server knows, or on its way.
UpToDate ==
    page = "open" /\ shellPast.failures = 0 /\ ~shellPast.elsewhere /\ ~shellPast.overlapped =>
        /\ \A s \in Slots : /\ wire[s].kind = "me" => wire[s].at # "lost"
                            /\ wire[s].kind \in {"me", "save"} /\ wire[s].at = "back"
                               => wire[s].user = User
        /\ \/ auth.user = User
           \/ \E s \in Slots : \/ wire[s].kind = "me"
                               \/ wire[s].kind \in {"upload", "logout"} /\ wire[s].at = "back"

\* A page with a user has his token, and sends no other one.
TokenHeld == auth.authenticated => auth.token # 0

\* Who came after a failed login and stays where he is reads of it.
FailureKept ==
    shellPast.failed /\ page = "open" /\ ~shellPast.moved =>
        path = "/" /\ callback /\ ~auth.authenticated

ShellIInv == /\ ShellTypeOK /\ BeforeAndAfter /\ UploadsCounted /\ KnownUsers
             /\ ProfileOnItsPage /\ Serial /\ UpToDate /\ FailureKept
=============================================================================
