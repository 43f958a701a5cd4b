---------------------------- MODULE AppShellProofs ----------------------------
(* Theorems about AppShell, for any number of logins, of requests on the wire, *)
(* and of clicks and failures.                                                 *)
EXTENDS AppShell, FiniteSetTheorems, TLAPS

-----------------------------------------------------------------------------
(* The operators                                                             *)

AuthStates == [loading : BOOLEAN, authenticated : BOOLEAN, user : Users, token : 0..MaxLogins]
ProfileStates == [loading : BOOLEAN, shown : Users, error : BOOLEAN, uploading : BOOLEAN]
Paths == {"/", "/home", "/profile", "*"}
RequestKinds == {"me", "profile", "save", "upload", "logout"}
Requests == [kind : RequestKinds, at : {"out", "back", "401", "403", "lost"}, live : BOOLEAN,
             token : 0..MaxLogins, by : 0..MaxLogins, user : Users]
Messages == {Free} \cup Requests

\* The types that the proofs mention are those of the type invariant.
LEMMA Types ==
  ASSUME ShellTypeOK
  PROVE  /\ auth \in AuthStates /\ profile \in ProfileStates /\ path \in Paths
         /\ wire \in [Slots -> Messages] /\ Nobody \in Users
         /\ auth.user.user \in 0..MaxLogins /\ auth.token \in 0..MaxLogins
  BY ShellBounds DEF ShellTypeOK, AuthStates, ProfileStates, Paths, RequestKinds, Requests,
     Messages, Nobody, Users

\* What is not free is a request.
LEMMA RequestTyped ==
  ASSUME NEW m \in Messages, m.kind \in RequestKinds
  PROVE  m \in Requests
  BY DEF Messages, Free, RequestKinds

\* A new request carries the page's token, if it has one, and tells its user.
LEMMA RequestFacts ==
  ASSUME ShellTypeOK, NEW kind \in RequestKinds
  PROVE  /\ Request(kind) \in Requests
         /\ Request(kind).kind = kind /\ Request(kind).at = "out"
         /\ auth.token # 0 => Request(kind).token = auth.token
         /\ Request(kind).by = auth.user.user
         /\ Request(kind).user = Nobody
<1>1. CsrfToken \in 0..MaxLogins
  BY Types DEF CsrfToken, Session, ShellTypeOK
<1> QED
  BY <1>1, Types DEF Request, CsrfToken, Requests

\* Where the routes lead is a path.
LEMMA LandedTyped == \A a \in AuthStates, p \in Paths : Landed(a, p) \in Paths
  BY DEF Landed, Paths

\* What a change of the state shows: routes, requests that are cut off or stay,
\* perhaps a new fetch of the profile, and no other profile than before.
LEMMA ShowFacts ==
  ASSUME ShellTypeOK, NEW a \in AuthStates, NEW p \in Paths, NEW w \in [Slots -> Messages],
         NEW s \in Slots, Show(a, p, w, s)
  PROVE  /\ auth' = a /\ path' = Landed(a, p) /\ path' \in Paths
         /\ wire' \in [Slots -> Messages]
         /\ \A x \in Slots :
               \/ x = s /\ wire'[x] = Request("profile") /\ Mounted(a, path') /\ a.authenticated
               \/ /\ wire'[x].kind = w[x].kind /\ wire'[x].at = w[x].at /\ wire'[x].by = w[x].by
                  /\ wire'[x].token = w[x].token /\ wire'[x].user = w[x].user
                  /\ wire'[x].live /\ w[x].kind = "profile" =>
                        /\ w[x].live
                        /\ Mounted(auth, path) /\ auth.authenticated =>
                              Mounted(a, path') /\ a.authenticated
         /\ profile' \in ProfileStates
         /\ profile'.shown # Nobody => /\ profile'.shown = profile.shown
                                       /\ Mounted(a, path') /\ a.authenticated
<1> DEFINE was == Mounted(auth, path)
           now == Mounted(a, path')
           fetches == now /\ a.authenticated /\ ~(was /\ auth.authenticated)
           changed == was /\ ~(now /\ a.authenticated = auth.authenticated)
           Cut(r) == \/ r.kind = "profile" /\ changed
                     \/ r.kind = "upload" /\ was /\ ~now
<1>1. auth' = a /\ path' = Landed(a, p) /\ path' \in Paths
  BY LandedTyped DEF Show
<1>2. wire' = [x \in Slots |-> IF x = s /\ fetches THEN Request("profile")
                               ELSE [w[x] EXCEPT !.live = @ /\ ~Cut(w[x])]]
  BY DEF Show
<1>3. profile' = IF ~now THEN Blank
                 ELSE IF fetches THEN [Blank EXCEPT !.loading = TRUE]
                 ELSE IF a.authenticated THEN profile ELSE Blank
  BY DEF Show
<1>4. Request("profile") \in Messages
  BY RequestFacts DEF RequestKinds, Messages
<1>5. ASSUME NEW m \in Messages
      PROVE  LET n == [m EXCEPT !.live = @ /\ ~Cut(m)]
             IN /\ n \in Messages
                /\ n.kind = m.kind /\ n.at = m.at /\ n.by = m.by /\ n.token = m.token
                /\ n.user = m.user
                /\ n.live = (m.live /\ ~Cut(m))
  <2> DEFINE cut == m.live /\ ~Cut(m)
             n == [m EXCEPT !.live = cut]
  <2>1. cut \in BOOLEAN
    OBVIOUS
  <2> HIDE DEF cut
  <2>2. CASE m = Free
    <3>1. PICK live \in BOOLEAN :
             /\ live = FALSE
             /\ Free = [kind |-> "none", at |-> "none", live |-> live, token |-> 0, by |-> 0,
                        user |-> Nobody]
      BY DEF Free
    <3>2. cut = live
      <4>1. m.live = live
        BY <2>2, <3>1
      <4> QED
        BY <3>1, <4>1 DEF cut
    <3>3. n = Free
      BY <2>2, <3>1, <3>2
    <3> QED
      BY <2>2, <3>1, <3>2, <3>3 DEF Messages
  <2>3. CASE m \in Requests
    BY <2>1, <2>3 DEF Messages, Requests
  <2> QED
    BY <2>2, <2>3 DEF Messages, cut
<1>6. ASSUME NEW x \in Slots, ~(x = s /\ fetches)
      PROVE  /\ wire'[x] \in Messages
             /\ wire'[x].kind = w[x].kind /\ wire'[x].at = w[x].at /\ wire'[x].by = w[x].by
             /\ wire'[x].token = w[x].token /\ wire'[x].user = w[x].user
             /\ wire'[x].live = (w[x].live /\ ~Cut(w[x]))
  <2>1. w[x] \in Messages /\ wire'[x] = [w[x] EXCEPT !.live = @ /\ ~Cut(w[x])]
    BY <1>2, <1>6
  <2> QED
    BY <2>1, <1>5
<1>7. wire' \in [Slots -> Messages]
  <2>1. ASSUME NEW x \in Slots PROVE wire'[x] \in Messages
    BY <1>2, <1>4, <1>6
  <2> QED
    BY <1>2, <2>1
<1>8. ASSUME NEW x \in Slots
      PROVE  \/ x = s /\ wire'[x] = Request("profile") /\ now /\ a.authenticated
             \/ /\ wire'[x].kind = w[x].kind /\ wire'[x].at = w[x].at /\ wire'[x].by = w[x].by
                /\ wire'[x].token = w[x].token /\ wire'[x].user = w[x].user
                /\ wire'[x].live /\ w[x].kind = "profile" =>
                      w[x].live /\ (was /\ auth.authenticated => now /\ a.authenticated)
  <2>1. CASE x = s /\ fetches
    BY <1>2, <2>1
  <2>2. CASE ~(x = s /\ fetches)
    <3>1. /\ wire'[x].kind = w[x].kind /\ wire'[x].at = w[x].at /\ wire'[x].by = w[x].by
          /\ wire'[x].token = w[x].token /\ wire'[x].user = w[x].user
      BY <1>6, <2>2
    <3>2. wire'[x].live = (w[x].live /\ ~Cut(w[x]))
      BY <1>6, <2>2
    <3>3. wire'[x].live /\ w[x].kind = "profile" =>
             w[x].live /\ (was /\ auth.authenticated => now /\ a.authenticated)
      BY <3>2, Zenon
    <3> QED
      BY <3>1, <3>3
  <2> QED
    BY <2>1, <2>2
<1>9. Blank \in ProfileStates /\ Blank.shown = Nobody
      /\ [Blank EXCEPT !.loading = TRUE] \in ProfileStates
      /\ [Blank EXCEPT !.loading = TRUE].shown = Nobody
  BY Types DEF Blank, ProfileStates
<1>10. profile' \in ProfileStates
  BY <1>3, <1>9, Types
<1>11. profile'.shown # Nobody => profile'.shown = profile.shown /\ now /\ a.authenticated
  BY <1>3, <1>9
<1> QED
  BY <1>1, <1>7, <1>8, <1>10, <1>11

\* The history that the properties read.
Pasts == [clicks : 0..MaxClicks, failures : 0..MaxFailures, overlapped : BOOLEAN,
          elsewhere : BOOLEAN, failed : BOOLEAN, moved : BOOLEAN]

\* One field of it changes.
LEMMA PastFields ==
  ASSUME NEW p \in Pasts
  PROVE  /\ \A c \in 0..MaxClicks : [p EXCEPT !.clicks = c] =
              [clicks |-> c, failures |-> p.failures, overlapped |-> p.overlapped,
               elsewhere |-> p.elsewhere, failed |-> p.failed, moved |-> p.moved]
         /\ \A f \in 0..MaxFailures : [p EXCEPT !.failures = f] =
              [clicks |-> p.clicks, failures |-> f, overlapped |-> p.overlapped,
               elsewhere |-> p.elsewhere, failed |-> p.failed, moved |-> p.moved]
         /\ \A b \in BOOLEAN :
              /\ [p EXCEPT !.overlapped = b] =
                   [clicks |-> p.clicks, failures |-> p.failures, overlapped |-> b,
                    elsewhere |-> p.elsewhere, failed |-> p.failed, moved |-> p.moved]
              /\ [p EXCEPT !.elsewhere = b] =
                   [clicks |-> p.clicks, failures |-> p.failures, overlapped |-> p.overlapped,
                    elsewhere |-> b, failed |-> p.failed, moved |-> p.moved]
              /\ [p EXCEPT !.failed = b] =
                   [clicks |-> p.clicks, failures |-> p.failures, overlapped |-> p.overlapped,
                    elsewhere |-> p.elsewhere, failed |-> b, moved |-> p.moved]
              /\ [p EXCEPT !.moved = b] =
                   [clicks |-> p.clicks, failures |-> p.failures, overlapped |-> p.overlapped,
                    elsewhere |-> p.elsewhere, failed |-> p.failed, moved |-> b]
  BY DEF Pasts

\* A click, or an answer that makes the page ask: only what overlaps may change.
LEMMA PastFacts ==
  ASSUME ShellTypeOK, NEW s \in Slots, NEW n \in {0, 1}, shellPast.clicks + n <= MaxClicks,
         Past(s, n)
  PROVE  /\ shellPast' \in Pasts
         /\ shellPast'.clicks = shellPast.clicks + n /\ shellPast'.failures = shellPast.failures
         /\ shellPast'.overlapped = (shellPast.overlapped \/ Overlaps(s))
         /\ shellPast'.elsewhere = shellPast.elsewhere
         /\ shellPast'.failed = shellPast.failed /\ shellPast'.moved = shellPast.moved
<1> DEFINE b == shellPast.overlapped \/ Overlaps(s)
           r == [shellPast EXCEPT !.clicks = shellPast.clicks + n]
           q == [r EXCEPT !.overlapped = b]
<1>1. shellPast \in Pasts
  BY DEF ShellTypeOK, Pasts
<1>2. shellPast.clicks + n \in 0..MaxClicks
  BY <1>1, ShellBounds DEF Pasts
<1>3. b \in BOOLEAN
  OBVIOUS
<1>4. shellPast' = [shellPast EXCEPT !.clicks = shellPast.clicks + n, !.overlapped = b]
  <2>1. [shellPast EXCEPT !.clicks = shellPast.clicks + n].overlapped = shellPast.overlapped
    BY <1>1, <1>2, PastFields DEF Pasts
  <2> QED
    BY <2>1 DEF Past
<1>5. shellPast' = q
  BY <1>4, Zenon
<1>6. r = [clicks |-> shellPast.clicks + n, failures |-> shellPast.failures,
           overlapped |-> shellPast.overlapped, elsewhere |-> shellPast.elsewhere,
           failed |-> shellPast.failed, moved |-> shellPast.moved]
  BY <1>1, <1>2, PastFields
<1> HIDE DEF b, r
<1>7. r \in Pasts /\ r.clicks = shellPast.clicks + n /\ r.failures = shellPast.failures
      /\ r.elsewhere = shellPast.elsewhere /\ r.failed = shellPast.failed
      /\ r.moved = shellPast.moved
  BY <1>1, <1>2, <1>6 DEF Pasts
<1>8. q = [clicks |-> r.clicks, failures |-> r.failures, overlapped |-> b,
           elsewhere |-> r.elsewhere, failed |-> r.failed, moved |-> r.moved]
  BY <1>3, <1>7, PastFields
<1> HIDE DEF q
<1>9. shellPast' \in Pasts /\ shellPast'.overlapped = b
      /\ shellPast'.clicks = r.clicks /\ shellPast'.failures = r.failures
      /\ shellPast'.elsewhere = r.elsewhere /\ shellPast'.failed = r.failed
      /\ shellPast'.moved = r.moved
  BY <1>3, <1>5, <1>7, <1>8 DEF Pasts
<1> QED
  BY <1>7, <1>9 DEF b

\* An auth state that loads, or no longer does.
LEMMA LoadingFacts ==
  ASSUME NEW a \in AuthStates, NEW b \in BOOLEAN
  PROVE  [a EXCEPT !.loading = b] = [loading |-> b, authenticated |-> a.authenticated,
                                     user |-> a.user, token |-> a.token]
  BY DEF AuthStates

\* What is put on the wire is there, and nothing else changes.
LEMMA PutFacts ==
  ASSUME ShellTypeOK, NEW s \in Slots, NEW m \in Messages
  PROVE  /\ Put(s, m) \in [Slots -> Messages] /\ Put(s, m)[s] = m
         /\ \A x \in Slots \ {s} : Put(s, m)[x] = wire[x]
  BY Types DEF Put

\* Uploads under way become fewer, or what was uploaded is counted by a click.
LEMMA UploadsKept ==
  ASSUME ShellTypeOK, UploadsCounted, UploadsOut' \subseteq UploadsOut,
         picture' = picture \/ picture' = 0, shellPast'.clicks \in Nat,
         shellPast'.clicks >= shellPast.clicks
  PROVE  UploadsCounted'
<1>1. /\ IsFiniteSet(UploadsOut)
      /\ picture + Cardinality(UploadsOut) <= shellPast.clicks
  BY DEF UploadsCounted
<1>2. /\ IsFiniteSet(UploadsOut')
      /\ Cardinality(UploadsOut') <= Cardinality(UploadsOut)
  BY <1>1, FS_Subset
<1>3. Cardinality(UploadsOut) \in Nat /\ Cardinality(UploadsOut') \in Nat
  BY <1>1, <1>2, FS_CardinalityType
<1>4. picture \in Nat /\ shellPast.clicks \in Nat
  BY ShellBounds DEF ShellTypeOK
<1>5. picture' + Cardinality(UploadsOut') <= shellPast'.clicks
  BY <1>1, <1>2, <1>3, <1>4
<1> QED
  BY <1>2, <1>5 DEF UploadsCounted

-----------------------------------------------------------------------------
(* Each step preserves the invariant: the page asks who its user is          *)

\* The page shows no profile, and whatever else is on the wire overlaps.
LEMMA AskingKeepsShell ==
  ASSUME ShellIInv, NEW s \in Slots, page = "open", BeginRefresh(s), Keeps,
         NEW n \in {0, 1}, shellPast.clicks + n <= MaxClicks, Past(s, n),
         wire[s].kind # "upload" \/ wire[s].at # "out"
  PROVE  ShellIInv'
<1> DEFINE a == [auth EXCEPT !.loading = TRUE]
           w == Put(s, Request("me"))
<1>0. ShellTypeOK
  BY DEF ShellIInv
<1>1. /\ shellPast' \in Pasts
      /\ shellPast'.clicks = shellPast.clicks + n /\ shellPast'.failures = shellPast.failures
      /\ shellPast'.overlapped = (shellPast.overlapped \/ Overlaps(s))
      /\ shellPast'.elsewhere = shellPast.elsewhere
      /\ shellPast'.failed = shellPast.failed /\ shellPast'.moved = shellPast.moved
  BY <1>0, PastFacts
<1>2. a = [loading |-> TRUE, authenticated |-> auth.authenticated, user |-> auth.user,
           token |-> auth.token]
  BY <1>0, Types, LoadingFacts
<1>3. a \in AuthStates /\ a.loading /\ a.authenticated = auth.authenticated
      /\ a.user = auth.user /\ a.token = auth.token
  BY <1>0, <1>2, Types DEF AuthStates
<1>4. /\ Request("me") \in Messages
      /\ Request("me").kind = "me" /\ Request("me").at = "out" /\ Request("me").user = Nobody
  BY <1>0, RequestFacts DEF RequestKinds, Messages
<1>5. /\ w \in [Slots -> Messages] /\ w[s] = Request("me")
      /\ \A x \in Slots \ {s} : w[x] = wire[x]
  BY <1>0, <1>4, PutFacts
<1>6. Show(a, path, w, s)
  BY DEF BeginRefresh
<1>7. page' = page /\ busy' = busy /\ logins' = logins /\ picture' = picture
  BY DEF Keeps, server
<1>8. alive' = alive /\ mayRead' = mayRead
  BY DEF Keeps, server
<1> HIDE DEF a, w
<1>9. \A p : ~Mounted(a, p)
  BY <1>3 DEF Mounted, RoutesShown
<1>10. /\ auth' = a /\ path' = path /\ profile' \in ProfileStates /\ profile'.shown = Nobody
       /\ wire' \in [Slots -> Messages]
  <2>1. Landed(a, path) = path
    BY <1>3 DEF Landed, RoutesShown
  <2> QED
    BY <1>0, <1>3, <1>5, <1>6, <1>9, <2>1, Types, ShowFacts
<1>11. \A x \in Slots :
          /\ wire'[x].kind = w[x].kind /\ wire'[x].at = w[x].at /\ wire'[x].by = w[x].by
          /\ wire'[x].token = w[x].token /\ wire'[x].user = w[x].user
          /\ wire'[x].live /\ w[x].kind = "profile" =>
                w[x].live /\ ~(Mounted(auth, path) /\ auth.authenticated)
  BY <1>0, <1>3, <1>5, <1>6, <1>9, Types, ShowFacts
<1>12. /\ wire'[s].kind = "me" /\ wire'[s].at = "out" /\ wire'[s].user = Nobody
       /\ \A x \in Slots \ {s} :
             /\ wire'[x].kind = wire[x].kind /\ wire'[x].at = wire[x].at
             /\ wire'[x].by = wire[x].by /\ wire'[x].token = wire[x].token
             /\ wire'[x].user = wire[x].user
  BY <1>4, <1>5, <1>11
<1>13. \A x \in Slots : ~(wire'[x].kind = "profile" /\ wire'[x].live)
  <2> SUFFICES ASSUME NEW x \in Slots, wire'[x].kind = "profile", wire'[x].live PROVE FALSE
    OBVIOUS
  <2>1. x # s /\ wire[x].kind = "profile" /\ wire[x].live
    BY <1>5, <1>11, <1>12
  <2> QED
    BY <1>5, <1>11, <2>1 DEF ShellIInv, ProfileOnItsPage
<1>14. callback' = (callback /\ path = "/")
  BY <1>6, <1>10 DEF Show
<1>15. ShellTypeOK'
  <2>1. callback' \in BOOLEAN /\ alive' \in BOOLEAN /\ mayRead' \in BOOLEAN
    BY <1>0, <1>8, <1>14 DEF ShellTypeOK
  <2>2. auth' \in AuthStates /\ page' \in {"closed", "open", "left"} /\ path' \in Paths
    BY <1>0, <1>3, <1>7, <1>10, Types
  <2>3. /\ busy' \subseteq {"save", "logout"} /\ logins' \in 1..MaxLogins
        /\ picture' \in 0..MaxClicks
    BY <1>0, <1>7 DEF ShellTypeOK
  <2> QED
    BY <1>1, <1>10, <2>1, <2>2, <2>3
       DEF ShellTypeOK, Pasts, ProfileStates, AuthStates, Paths, Messages, Requests, RequestKinds
<1>16. BeforeAndAfter'
  BY <1>7 DEF BeforeAndAfter
<1>17. UploadsCounted'
  <2>1. UploadsOut' \subseteq UploadsOut
    BY <1>12 DEF UploadsOut
  <2>2. shellPast'.clicks \in Nat /\ shellPast'.clicks >= shellPast.clicks
    BY <1>0, <1>1, ShellBounds DEF ShellTypeOK
  <2> QED
    BY <1>0, <1>7, <2>1, <2>2, UploadsKept DEF ShellIInv
<1>18. KnownUsers'
  <2>1. Nobody.user = 0 /\ 0 <= logins
    BY <1>0 DEF Nobody, ShellTypeOK
  <2> QED
    BY <1>3, <1>7, <1>10, <1>12, <2>1 DEF ShellIInv, KnownUsers
<1>19. ProfileOnItsPage'
  BY <1>10, <1>13 DEF ProfileOnItsPage
<1>20. ASSUME ~shellPast'.overlapped
       PROVE  /\ ~shellPast.overlapped
              /\ \A x \in Slots \ {s} : wire'[x].kind \notin {"me", "save", "upload", "logout"}
  BY <1>1, <1>12, <1>20 DEF Overlaps
<1>21. Serial'
  <2> SUFFICES ASSUME ~shellPast'.overlapped
               PROVE  /\ OneOnTheWire' /\ InTheUsersName'
                      /\ page' = "open" => /\ ProfileNotEarlier'
                                           /\ \A x \in Slots : wire'[x].kind = "me" => auth'.loading
    BY DEF Serial
  <2>1. OneOnTheWire'
    BY <1>20 DEF OneOnTheWire, Writes
  <2>2. InTheUsersName'
    <3>1. auth.token = auth.user.user
      BY <1>20 DEF ShellIInv, Serial, InTheUsersName
    <3>2. \A x \in Slots : wire'[x].kind \notin Writes
      BY <1>12, <1>20 DEF Writes
    <3> QED
      BY <1>3, <1>10, <3>1, <3>2 DEF InTheUsersName
  <2>3. ProfileNotEarlier'
    BY <1>10, <1>13 DEF ProfileNotEarlier
  <2> QED
    BY <1>3, <1>10, <2>1, <2>2, <2>3
<1>22. UpToDate'
  BY <1>12, <1>20 DEF UpToDate
<1>23. FailureKept'
  BY <1>1, <1>3, <1>7, <1>10, <1>14 DEF ShellIInv, FailureKept
<1> QED
  BY <1>15, <1>16, <1>17, <1>18, <1>19, <1>21, <1>22, <1>23 DEF ShellIInv

-----------------------------------------------------------------------------
(* Each step preserves the invariant: the other clicks                       *)

\* A click that writes goes out in the name of the user the page has.
LEMMA SendingKeepsShell ==
  ASSUME ShellIInv, auth.token # 0,
         NEW s \in Slots, NEW kind \in Writes, page = "open", wire[s] = Free,
         shellPast.clicks < MaxClicks, Past(s, 1), wire' = Put(s, Request(kind)),
         UNCHANGED <<page, auth, path, callback, server>>, busy' \subseteq {"save", "logout"},
         profile' \in ProfileStates, profile'.shown = profile.shown
  PROVE  ShellIInv'
<1>0. ShellTypeOK /\ kind \in RequestKinds /\ kind \in {"save", "upload", "logout"}
  BY DEF ShellIInv, Writes, RequestKinds
<1>1. /\ shellPast' \in Pasts
      /\ shellPast'.clicks = shellPast.clicks + 1 /\ shellPast'.failures = shellPast.failures
      /\ shellPast'.overlapped = (shellPast.overlapped \/ Overlaps(s))
      /\ shellPast'.elsewhere = shellPast.elsewhere
      /\ shellPast'.failed = shellPast.failed /\ shellPast'.moved = shellPast.moved
  <2>1. shellPast.clicks + 1 <= MaxClicks
    BY <1>0, ShellBounds DEF ShellTypeOK
  <2> QED
    BY <1>0, <2>1, PastFacts
<1>2. /\ Request(kind) \in Messages
      /\ Request(kind).kind = kind /\ Request(kind).at = "out" /\ Request(kind).user = Nobody
      /\ Request(kind).token = auth.token /\ Request(kind).by = auth.user.user
  BY <1>0, RequestFacts DEF Messages
<1>3. /\ wire' \in [Slots -> Messages] /\ wire'[s] = Request(kind)
      /\ \A x \in Slots \ {s} : wire'[x] = wire[x]
  BY <1>0, <1>2, PutFacts
<1>4. /\ page' = page /\ auth' = auth /\ path' = path /\ logins' = logins /\ picture' = picture
  BY DEF server
<1>5. alive' = alive /\ mayRead' = mayRead /\ callback' = callback
  BY DEF server
<1>6. ShellTypeOK'
  <2>1. callback' \in BOOLEAN /\ alive' \in BOOLEAN /\ mayRead' \in BOOLEAN
    BY <1>0, <1>5 DEF ShellTypeOK
  <2>2. auth' \in AuthStates /\ page' \in {"closed", "open", "left"} /\ path' \in Paths
    BY <1>0, <1>4, Types
  <2>3. logins' \in 1..MaxLogins /\ picture' \in 0..MaxClicks
    BY <1>0, <1>4 DEF ShellTypeOK
  <2> QED
    BY <1>1, <1>3, <2>1, <2>2, <2>3
       DEF ShellTypeOK, Pasts, ProfileStates, AuthStates, Paths, Messages, Requests, RequestKinds
<1>7. BeforeAndAfter'
  BY <1>4 DEF BeforeAndAfter
<1>8. UploadsCounted'
  <2>1. UploadsOut' \subseteq UploadsOut \cup {s}
    BY <1>3 DEF UploadsOut
  <2>2. /\ IsFiniteSet(UploadsOut)
        /\ picture + Cardinality(UploadsOut) <= shellPast.clicks
    BY DEF ShellIInv, UploadsCounted
  <2>3. /\ IsFiniteSet(UploadsOut \cup {s})
        /\ Cardinality(UploadsOut \cup {s}) <= Cardinality(UploadsOut) + 1
        /\ Cardinality(UploadsOut) \in Nat
    <3>1. Cardinality(UploadsOut) \in Nat
      BY <2>2, FS_CardinalityType
    <3>2. /\ IsFiniteSet(UploadsOut \cup {s})
          /\ \/ Cardinality(UploadsOut \cup {s}) = Cardinality(UploadsOut)
             \/ Cardinality(UploadsOut \cup {s}) = Cardinality(UploadsOut) + 1
      BY <2>2, FS_AddElement
    <3> QED
      BY <3>1, <3>2
  <2>4. /\ IsFiniteSet(UploadsOut')
        /\ Cardinality(UploadsOut') <= Cardinality(UploadsOut \cup {s})
    BY <2>1, <2>3, FS_Subset
  <2>5. Cardinality(UploadsOut') \in Nat /\ Cardinality(UploadsOut \cup {s}) \in Nat
    BY <2>3, <2>4, FS_CardinalityType
  <2>6. picture \in Nat /\ shellPast.clicks \in Nat
    BY <1>0, ShellBounds DEF ShellTypeOK
  <2>7. picture' + Cardinality(UploadsOut') <= shellPast'.clicks
    BY <1>1, <1>4, <2>2, <2>3, <2>4, <2>5, <2>6
  <2> QED
    BY <2>4, <2>7 DEF UploadsCounted
<1>9. KnownUsers'
  <2>1. Nobody.user = 0 /\ 0 <= logins
    BY <1>0 DEF Nobody, ShellTypeOK
  <2> QED
    BY <1>2, <1>3, <1>4, <2>1 DEF ShellIInv, KnownUsers
<1>10. ProfileOnItsPage'
  <2>1. Mounted(auth', path') = Mounted(auth, path)
    BY <1>4
  <2>2. wire'[s].kind # "profile"
    BY <1>0, <1>2, <1>3
  <2> QED
    BY <1>3, <1>4, <2>1, <2>2 DEF ShellIInv, ProfileOnItsPage
<1>11. ASSUME ~shellPast'.overlapped
       PROVE  /\ ~shellPast.overlapped
              /\ \A x \in Slots \ {s} : wire[x].kind \notin {"me", "save", "upload", "logout"}
  BY <1>1, <1>11 DEF Overlaps
<1>12. Serial'
  <2> SUFFICES ASSUME ~shellPast'.overlapped
               PROVE  /\ OneOnTheWire' /\ InTheUsersName'
                      /\ page' = "open" => /\ ProfileNotEarlier'
                                           /\ \A x \in Slots : wire'[x].kind = "me" => auth'.loading
    BY DEF Serial
  <2>1. OneOnTheWire'
    BY <1>3, <1>11 DEF OneOnTheWire, Writes
  <2>2. InTheUsersName'
    <3>1. auth.token = auth.user.user
      BY <1>11 DEF ShellIInv, Serial, InTheUsersName
    <3>2. \A x \in Slots \ {s} : wire'[x].kind \notin Writes
      BY <1>3, <1>11 DEF Writes
    <3> QED
      BY <1>2, <1>3, <1>4, <3>1, <3>2 DEF InTheUsersName
  <2>3. ProfileNotEarlier'
    BY <1>0, <1>2, <1>3, <1>4, <1>11 DEF ShellIInv, Serial, ProfileNotEarlier
  <2>4. \A x \in Slots : wire'[x].kind # "me"
    BY <1>0, <1>2, <1>3, <1>11
  <2> QED
    BY <2>1, <2>2, <2>3, <2>4
<1>13. UpToDate'
  <2> SUFFICES ASSUME shellPast'.failures = 0, ~shellPast'.elsewhere, ~shellPast'.overlapped
               PROVE  /\ \A x \in Slots :
                            /\ wire'[x].kind = "me" => wire'[x].at # "lost"
                            /\ wire'[x].kind \in {"me", "save"} /\ wire'[x].at = "back"
                               => wire'[x].user = User'
                      /\ auth'.user = User'
    BY DEF UpToDate
  <2>1. auth.user = User
    <3>1. wire[s].kind = "none"
      BY DEF Free
    <3> QED
      BY <1>1, <1>11, <3>1 DEF ShellIInv, UpToDate
  <2>2. User' = User
    BY <1>4, <1>5 DEF User, Session
  <2> QED
    BY <1>0, <1>2, <1>3, <1>4, <1>11, <2>1, <2>2
<1>14. FailureKept'
  BY <1>1, <1>4, <1>5 DEF ShellIInv, FailureKept
<1> QED
  BY <1>6, <1>7, <1>8, <1>9, <1>10, <1>12, <1>13, <1>14 DEF ShellIInv

\* Only a user is offered what writes.
LEMMA WritersAreUsers ==
  ASSUME NEW s \in Slots, SavePreferences(s) \/ Logout(s) \/ Upload(s)
  PROVE  auth.authenticated
  BY DEF SavePreferences, Logout, Upload, Click, Offered, IntroControls, NavControls, SignControls,
     DetailsControls, MenuControls, LandingControls, ProfileControls

\* The three of them.
LEMMA WritesKeepShell ==
  ASSUME ShellIInv, TokenHeld, NEW s \in Slots, SavePreferences(s) \/ Logout(s) \/ Upload(s)
  PROVE  ShellIInv'
<1>0. ShellTypeOK
  BY DEF ShellIInv
<1>1. /\ page = "open" /\ wire[s] = Free /\ shellPast.clicks < MaxClicks /\ Past(s, 1)
      /\ UNCHANGED <<page, auth, path, callback, server>>
  BY DEF SavePreferences, Logout, Upload, Click
<1>2. busy' \subseteq {"save", "logout"}
  BY <1>0 DEF SavePreferences, Logout, Upload, ShellTypeOK
<1>3. profile' \in ProfileStates /\ profile'.shown = profile.shown
  <2>1. profile \in ProfileStates
    BY <1>0, Types
  <2>2. \A b \in BOOLEAN : /\ [profile EXCEPT !.uploading = b] \in ProfileStates
                           /\ [profile EXCEPT !.uploading = b].shown = profile.shown
    BY <2>1 DEF ProfileStates
  <2>3. profile' = profile \/ \E b \in BOOLEAN : profile' = [profile EXCEPT !.uploading = b]
    BY DEF SavePreferences, Logout, Upload
  <2> QED
    BY <2>1, <2>2, <2>3
<1>4. \E kind \in Writes : wire' = Put(s, Request(kind))
  BY DEF SavePreferences, Logout, Upload, Writes
<1>5. auth.token # 0
  BY WritersAreUsers DEF TokenHeld
<1> QED
  BY <1>1, <1>2, <1>3, <1>4, <1>5, SendingKeepsShell

\* The refresh button, and a fetch after the language has changed.
LEMMA RefreshKeepsShell ==
  ASSUME ShellIInv, NEW s \in Slots, Refresh(s) \/ NewTranslator(s)
  PROVE  ShellIInv'
<1>1. /\ page = "open" /\ wire[s] = Free /\ shellPast.clicks < MaxClicks /\ Past(s, 1)
      /\ BeginRefresh(s) /\ Keeps
  BY DEF Refresh, NewTranslator, Click
<1>2. shellPast.clicks + 1 <= MaxClicks
  BY <1>1, ShellBounds DEF ShellIInv, ShellTypeOK
<1>3. wire[s].kind # "upload"
  BY <1>1 DEF Free
<1> QED
  BY <1>1, <1>2, <1>3, AskingKeepsShell

\* The page opens: it asks for its user, and knows if a login failed.
LEMMA OpeningKeepsShell ==
  ASSUME ShellIInv, NEW s \in Slots, NEW p \in Paths, NEW failed \in BOOLEAN,
         OpenPage(s, p, failed)
  PROVE  ShellIInv'
<1>0. ShellTypeOK
  BY DEF ShellIInv
<1>1. /\ auth = [Guest EXCEPT !.loading = TRUE] /\ profile = Blank
      /\ \A x \in Slots : wire[x] = Free
  BY DEF OpenPage, ShellIInv, BeforeAndAfter
<1>2. auth.loading /\ ~auth.authenticated /\ auth.user = Nobody /\ auth.token = 0
      /\ profile.shown = Nobody
  BY <1>1 DEF Guest, Blank
<1>3. /\ page' = "open" /\ auth' = auth /\ profile' = profile /\ busy' = busy
      /\ logins' = logins /\ picture' = picture /\ path' = p
  BY <1>2 DEF OpenPage, Landed, RoutesShown
<1>4. /\ callback' = failed /\ alive' \in BOOLEAN /\ mayRead' \in BOOLEAN
      /\ failed => p = "/"
  BY <1>3 DEF OpenPage
<1>5. /\ Request("me") \in Messages
      /\ Request("me").kind = "me" /\ Request("me").at = "out" /\ Request("me").user = Nobody
  BY <1>0, RequestFacts DEF RequestKinds, Messages
<1>6. /\ wire' \in [Slots -> Messages] /\ wire'[s] = Request("me")
      /\ \A x \in Slots \ {s} : wire'[x] = Free
  <2>1. wire' = Put(s, Request("me"))
    BY DEF OpenPage
  <2>2. /\ Put(s, Request("me")) \in [Slots -> Messages] /\ Put(s, Request("me"))[s] = Request("me")
        /\ \A x \in Slots \ {s} : Put(s, Request("me"))[x] = wire[x]
    BY <1>0, <1>5, PutFacts
  <2>3. \A x \in Slots : wire[x] = Free
    BY <1>1
  <2> QED
    BY <2>1, <2>2, <2>3
<1>7. \A x \in Slots \ {s} : wire'[x].kind = "none" /\ wire'[x].at = "none"
                             /\ wire'[x].user = Nobody
  BY <1>6 DEF Free
<1>8. /\ shellPast' = [clicks |-> shellPast.clicks, failures |-> shellPast.failures,
                       overlapped |-> shellPast.overlapped, elsewhere |-> shellPast.elsewhere,
                       failed |-> failed, moved |-> shellPast.moved]
      /\ shellPast \in Pasts
  BY <1>0, PastFields DEF OpenPage, ShellTypeOK, Pasts
<1>9. shellPast' \in Pasts /\ shellPast'.clicks = shellPast.clicks /\ shellPast'.failed = failed
  BY <1>8 DEF Pasts
<1>10. ShellTypeOK'
  <2>1. callback' \in BOOLEAN
    BY <1>4
  <2>2. auth' \in AuthStates /\ profile' \in ProfileStates
    BY <1>0, <1>3, Types
  <2>3. /\ busy' \subseteq {"save", "logout"} /\ logins' \in 1..MaxLogins
        /\ picture' \in 0..MaxClicks
    BY <1>0, <1>3 DEF ShellTypeOK
  <2> QED
    BY <1>3, <1>4, <1>6, <1>9, <2>1, <2>2, <2>3
       DEF ShellTypeOK, Pasts, ProfileStates, AuthStates, Paths, Messages, Requests, RequestKinds
<1>11. BeforeAndAfter'
  BY <1>3 DEF BeforeAndAfter
<1>12. UploadsCounted'
  <2>1. UploadsOut' \subseteq UploadsOut
    BY <1>5, <1>6, <1>7 DEF UploadsOut
  <2>2. shellPast'.clicks \in Nat /\ shellPast'.clicks >= shellPast.clicks
    BY <1>0, <1>9, ShellBounds DEF ShellTypeOK
  <2> QED
    BY <1>0, <1>3, <2>1, <2>2, UploadsKept DEF ShellIInv
<1>13. KnownUsers'
  <2>1. Nobody.user = 0 /\ 0 <= logins
    BY <1>0 DEF Nobody, ShellTypeOK
  <2> QED
    BY <1>2, <1>3, <1>5, <1>6, <1>7, <2>1 DEF KnownUsers
<1>14. \A x \in Slots : wire'[x].kind # "profile" /\ wire'[x].kind \notin Writes
  BY <1>5, <1>6, <1>7 DEF Writes
<1>15. ProfileOnItsPage'
  BY <1>2, <1>3, <1>14 DEF ProfileOnItsPage
<1>16. Serial'
  <2>1. OneOnTheWire'
    BY <1>7 DEF OneOnTheWire, Writes
  <2>2. InTheUsersName'
    BY <1>2, <1>3, <1>14 DEF InTheUsersName, Nobody
  <2>3. ProfileNotEarlier'
    BY <1>2, <1>3, <1>14 DEF ProfileNotEarlier
  <2> QED
    BY <1>2, <1>3, <2>1, <2>2, <2>3 DEF Serial
<1>17. UpToDate'
  BY <1>5, <1>6, <1>7 DEF UpToDate
<1>18. FailureKept'
  BY <1>2, <1>3, <1>4, <1>9 DEF FailureKept
<1> QED
  BY <1>10, <1>11, <1>12, <1>13, <1>15, <1>16, <1>17, <1>18 DEF ShellIInv

\* The links: perhaps a new fetch of the profile.
LEMMA NavigatingKeepsShell ==
  ASSUME ShellIInv, NEW s \in Slots, NEW control, NEW p \in Paths, Navigate(s, control, p)
  PROVE  ShellIInv'
<1>0. ShellTypeOK /\ page = "open" /\ wire[s] = Free /\ Show(auth, p, wire, s) /\ Keeps
  BY DEF ShellIInv, Navigate
<1>1. /\ shellPast' \in Pasts
      /\ shellPast'.clicks = shellPast.clicks + 1 /\ shellPast'.failures = shellPast.failures
      /\ shellPast'.overlapped = shellPast.overlapped
      /\ shellPast'.elsewhere = shellPast.elsewhere /\ shellPast'.moved
  <2> DEFINE r == [shellPast EXCEPT !.clicks = shellPast.clicks + 1]
             moved == TRUE
  <2>1. shellPast \in Pasts
    BY <1>0 DEF ShellTypeOK, Pasts
  <2>2. shellPast.clicks + 1 \in 0..MaxClicks
    BY <2>1, ShellBounds DEF Navigate, Pasts
  <2>3. moved = TRUE /\ moved \in BOOLEAN
    OBVIOUS
  <2>4. shellPast' = [r EXCEPT !.moved = moved]
    BY Zenon DEF Navigate
  <2>5. r = [clicks |-> shellPast.clicks + 1, failures |-> shellPast.failures,
             overlapped |-> shellPast.overlapped, elsewhere |-> shellPast.elsewhere,
             failed |-> shellPast.failed, moved |-> shellPast.moved]
    BY <2>1, <2>2, PastFields
  <2> HIDE DEF r, moved
  <2>6. r \in Pasts /\ r.clicks = shellPast.clicks + 1 /\ r.failures = shellPast.failures
        /\ r.overlapped = shellPast.overlapped /\ r.elsewhere = shellPast.elsewhere
    BY <2>1, <2>2, <2>5 DEF Pasts
  <2>7. shellPast' = [clicks |-> r.clicks, failures |-> r.failures,
                      overlapped |-> r.overlapped, elsewhere |-> r.elsewhere,
                      failed |-> r.failed, moved |-> moved]
    BY <2>3, <2>4, <2>6, PastFields
  <2>8. shellPast' \in Pasts /\ shellPast'.clicks = r.clicks
        /\ shellPast'.failures = r.failures /\ shellPast'.overlapped = r.overlapped
        /\ shellPast'.elsewhere = r.elsewhere /\ shellPast'.moved = moved
    BY <2>3, <2>6, <2>7 DEF Pasts
  <2> QED
    BY <2>3, <2>6, <2>8
<1>2. page' = page /\ busy' = busy /\ logins' = logins /\ picture' = picture
  BY <1>0 DEF Keeps, server
<1>3. alive' = alive /\ mayRead' = mayRead
  BY <1>0 DEF Keeps, server
<1>4. /\ auth' = auth /\ path' \in Paths /\ profile' \in ProfileStates
      /\ wire' \in [Slots -> Messages]
      /\ profile'.shown # Nobody => /\ profile'.shown = profile.shown
                                    /\ Mounted(auth, path') /\ auth.authenticated
  BY <1>0, Types, ShowFacts
<1>5. ASSUME NEW x \in Slots
      PROVE  \/ x = s /\ wire'[x] = Request("profile") /\ Mounted(auth, path') /\ auth.authenticated
             \/ /\ wire'[x].kind = wire[x].kind /\ wire'[x].at = wire[x].at
                /\ wire'[x].by = wire[x].by /\ wire'[x].token = wire[x].token
                /\ wire'[x].user = wire[x].user
                /\ wire'[x].live /\ wire[x].kind = "profile" =>
                      /\ wire[x].live
                      /\ Mounted(auth, path) /\ auth.authenticated =>
                            Mounted(auth, path') /\ auth.authenticated
  BY <1>0, Types, ShowFacts
<1>6. /\ Request("profile").kind = "profile" /\ Request("profile").at = "out"
      /\ Request("profile").user = Nobody
  BY <1>0, RequestFacts DEF RequestKinds
<1>7. ShellTypeOK'
  <2>1. callback' \in BOOLEAN /\ alive' \in BOOLEAN /\ mayRead' \in BOOLEAN
    BY <1>0, <1>3 DEF ShellTypeOK, Show
  <2>2. auth' \in AuthStates
    BY <1>0, <1>4, Types
  <2>3. /\ busy' \subseteq {"save", "logout"} /\ logins' \in 1..MaxLogins
        /\ picture' \in 0..MaxClicks /\ page' \in {"closed", "open", "left"}
    BY <1>0, <1>2 DEF ShellTypeOK
  <2> QED
    BY <1>1, <1>4, <2>1, <2>2, <2>3
       DEF ShellTypeOK, Pasts, ProfileStates, AuthStates, Paths, Messages, Requests, RequestKinds
<1>8. BeforeAndAfter'
  BY <1>0, <1>2 DEF BeforeAndAfter
<1>9. UploadsCounted'
  <2>1. UploadsOut' \subseteq UploadsOut
    BY <1>5, <1>6 DEF UploadsOut
  <2>2. shellPast'.clicks \in Nat /\ shellPast'.clicks >= shellPast.clicks
    BY <1>0, <1>1, ShellBounds DEF ShellTypeOK
  <2> QED
    BY <1>0, <1>2, <2>1, <2>2, UploadsKept DEF ShellIInv
<1>10. KnownUsers'
  <2>1. Nobody.user = 0 /\ 0 <= logins
    BY <1>0 DEF Nobody, ShellTypeOK
  <2> QED
    BY <1>2, <1>4, <1>5, <1>6, <2>1 DEF ShellIInv, KnownUsers
<1>11. ProfileOnItsPage'
  <2> SUFFICES ASSUME \/ profile'.shown # Nobody
                      \/ \E x \in Slots : wire'[x].kind = "profile" /\ wire'[x].live
               PROVE  Mounted(auth, path') /\ auth.authenticated
    BY <1>4 DEF ProfileOnItsPage
  <2>1. CASE profile'.shown # Nobody
    BY <1>4, <2>1
  <2>2. ASSUME NEW x \in Slots, wire'[x].kind = "profile", wire'[x].live
        PROVE  Mounted(auth, path') /\ auth.authenticated
    <3>1. CASE wire[x].kind = "profile" /\ wire[x].live
      <4>1. Mounted(auth, path) /\ auth.authenticated
        BY <1>0, <3>1 DEF ShellIInv, ProfileOnItsPage
      <4> QED
        BY <1>5, <2>2, <4>1
    <3>2. CASE ~(wire[x].kind = "profile" /\ wire[x].live)
      BY <1>5, <2>2, <3>2
    <3> QED
      BY <3>1, <3>2
  <2> QED
    BY <2>1, <2>2
<1>12. Serial'
  <2> SUFFICES ASSUME ~shellPast'.overlapped
               PROVE  /\ OneOnTheWire' /\ InTheUsersName'
                      /\ page' = "open" => /\ ProfileNotEarlier'
                                           /\ \A x \in Slots : wire'[x].kind = "me" => auth'.loading
    BY DEF Serial
  <2>0. ~shellPast.overlapped
    BY <1>1
  <2>1. OneOnTheWire'
    <3>1. \A x \in Slots : wire'[x].kind \in Writes \cup {"me"} => wire[x].kind = wire'[x].kind
      BY <1>5, <1>6 DEF Writes
    <3> QED
      BY <2>0, <3>1 DEF ShellIInv, Serial, OneOnTheWire
  <2>2. InTheUsersName'
    BY <1>2, <1>4, <1>5, <1>6, <2>0 DEF ShellIInv, Serial, InTheUsersName, Writes
  <2>3. ProfileNotEarlier'
    BY <1>0, <1>4, <1>5, <1>6, <2>0 DEF ShellIInv, Serial, ProfileNotEarlier
  <2>4. \A x \in Slots : wire'[x].kind = "me" => auth.loading
    BY <1>0, <1>5, <1>6, <2>0 DEF ShellIInv, Serial
  <2> QED
    BY <1>4, <2>1, <2>2, <2>3, <2>4
<1>13. UpToDate'
  <2> SUFFICES ASSUME shellPast'.failures = 0, ~shellPast'.elsewhere, ~shellPast'.overlapped
               PROVE  /\ \A x \in Slots :
                            /\ wire'[x].kind = "me" => wire'[x].at # "lost"
                            /\ wire'[x].kind \in {"me", "save"} /\ wire'[x].at = "back"
                               => wire'[x].user = User'
                      /\ \/ auth'.user = User'
                         \/ \E x \in Slots :
                               \/ wire'[x].kind = "me"
                               \/ wire'[x].kind \in {"upload", "logout"} /\ wire'[x].at = "back"
    BY DEF UpToDate
  <2>1. User' = User
    BY <1>2, <1>3 DEF User, Session
  <2>2. /\ \A x \in Slots : /\ wire[x].kind = "me" => wire[x].at # "lost"
                            /\ wire[x].kind \in {"me", "save"} /\ wire[x].at = "back"
                               => wire[x].user = User
        /\ \/ auth.user = User
           \/ \E x \in Slots : \/ wire[x].kind = "me"
                               \/ wire[x].kind \in {"upload", "logout"} /\ wire[x].at = "back"
    BY <1>0, <1>1 DEF ShellIInv, UpToDate
  <2>3. wire[s].kind = "none"
    BY <1>0 DEF Free
  <2>4. \A x \in Slots : wire[x].kind \in Writes \cup {"me"} =>
           wire'[x].kind = wire[x].kind /\ wire'[x].at = wire[x].at
    BY <1>5, <2>3 DEF Writes
  <2> QED
    BY <1>4, <1>5, <1>6, <2>1, <2>2, <2>4 DEF Writes
<1>14. FailureKept'
  BY <1>1 DEF FailureKept
<1> QED
  BY <1>7, <1>8, <1>9, <1>10, <1>11, <1>12, <1>13, <1>14 DEF ShellIInv

-----------------------------------------------------------------------------
(* Each step preserves the invariant: answers                                *)

\* The page learns who its user is; until then it has shown no page.
LEMMA ReceivingUserKeepsShell ==
  ASSUME ShellIInv, NEW s \in Slots, ReceiveMe(s)
  PROVE  ShellIInv'
<1> DEFINE u == IF wire[s].at = "back" THEN wire[s].user ELSE Nobody
           known == u.user # 0
           a == [loading |-> FALSE, authenticated |-> known, user |-> u, token |-> u.user]
           w == Put(s, Free)
<1>0. /\ ShellTypeOK /\ page = "open" /\ Keeps
      /\ wire[s].kind = "me" /\ wire[s].at \in {"back", "lost"}
  BY DEF ShellIInv, ReceiveMe, Arrived
<1>1. Show(a, path, w, s) /\ shellPast' = [shellPast EXCEPT !.moved = shellPast.moved \/ known]
  BY DEF ReceiveMe
<1>2. u \in Users /\ u.user \in 0..MaxLogins /\ u.user <= logins /\ known \in BOOLEAN
  <2>1. wire[s] \in Requests
    BY <1>0, Types, RequestTyped DEF RequestKinds
  <2>2. Nobody.user = 0 /\ 0 <= logins /\ Nobody \in Users
    BY <1>0, Types DEF Nobody, ShellTypeOK
  <2>3. wire[s].user \in Users /\ wire[s].user.user <= logins
    BY <2>1 DEF Requests, ShellIInv, KnownUsers
  <2>4. u = wire[s].user \/ u = Nobody
    OBVIOUS
  <2>5. u \in Users /\ u.user <= logins
    BY <2>2, <2>3, <2>4
  <2> QED
    BY <2>5 DEF Users
<1>3. wire[s].at = "back" => u = wire[s].user
  OBVIOUS
<1> HIDE DEF known
<1>5. a \in AuthStates /\ a.user = u /\ a.token = u.user /\ a.authenticated = known
  BY <1>2 DEF AuthStates
<1>6. /\ w \in [Slots -> Messages] /\ w[s] = Free
      /\ \A x \in Slots \ {s} : w[x] = wire[x]
  BY <1>0, PutFacts DEF Messages
<1>7. page' = page /\ busy' = busy /\ logins' = logins /\ picture' = picture
  BY <1>0 DEF Keeps, server
<1>8. alive' = alive /\ mayRead' = mayRead
  BY <1>0 DEF Keeps, server
<1>9. /\ shellPast' \in Pasts
      /\ shellPast'.clicks = shellPast.clicks /\ shellPast'.failures = shellPast.failures
      /\ shellPast'.overlapped = shellPast.overlapped
      /\ shellPast'.elsewhere = shellPast.elsewhere /\ shellPast'.failed = shellPast.failed
      /\ shellPast'.moved = (shellPast.moved \/ known)
  <2> DEFINE moved == shellPast.moved \/ known
  <2>1. shellPast \in Pasts
    BY <1>0 DEF ShellTypeOK, Pasts
  <2>2. moved \in BOOLEAN
    OBVIOUS
  <2> HIDE DEF moved
  <2>3. shellPast' = [clicks |-> shellPast.clicks, failures |-> shellPast.failures,
                      overlapped |-> shellPast.overlapped, elsewhere |-> shellPast.elsewhere,
                      failed |-> shellPast.failed, moved |-> moved]
    BY <1>1, <2>1, <2>2, PastFields DEF moved
  <2>4. /\ shellPast' \in Pasts
        /\ shellPast'.clicks = shellPast.clicks /\ shellPast'.failures = shellPast.failures
        /\ shellPast'.overlapped = shellPast.overlapped
        /\ shellPast'.elsewhere = shellPast.elsewhere /\ shellPast'.failed = shellPast.failed
        /\ shellPast'.moved = moved
    BY <2>1, <2>2, <2>3 DEF Pasts
  <2> QED
    BY <2>4 DEF moved
<1> HIDE DEF u, a, w
<1>10. /\ auth' = a /\ path' = Landed(a, path) /\ path' \in Paths /\ profile' \in ProfileStates
       /\ wire' \in [Slots -> Messages]
       /\ profile'.shown # Nobody => /\ profile'.shown = profile.shown
                                     /\ Mounted(a, path') /\ a.authenticated
  BY <1>0, <1>1, <1>5, <1>6, Types, ShowFacts
<1>11. ASSUME NEW x \in Slots
       PROVE  \/ x = s /\ wire'[x] = Request("profile") /\ Mounted(a, path') /\ a.authenticated
              \/ /\ wire'[x].kind = w[x].kind /\ wire'[x].at = w[x].at
                 /\ wire'[x].by = w[x].by /\ wire'[x].token = w[x].token
                 /\ wire'[x].user = w[x].user
                 /\ wire'[x].live /\ w[x].kind = "profile" =>
                       /\ w[x].live
                       /\ Mounted(auth, path) /\ auth.authenticated =>
                             Mounted(a, path') /\ a.authenticated
  BY <1>0, <1>1, <1>5, <1>6, Types, ShowFacts
<1>12. /\ Request("profile").kind = "profile" /\ Request("profile").at = "out"
       /\ Request("profile").user = Nobody
  BY <1>0, RequestFacts DEF RequestKinds
<1>13. Free.kind = "none" /\ Free.at = "none" /\ Free.user = Nobody
  BY DEF Free
<1>14. wire'[s].kind \in {"none", "profile"} /\ wire'[s].at \in {"none", "out"}
       /\ wire'[s].user = Nobody
  BY <1>6, <1>11, <1>12, <1>13
<1>15. \A x \in Slots \ {s} :
          /\ wire'[x].kind = wire[x].kind /\ wire'[x].at = wire[x].at
          /\ wire'[x].by = wire[x].by /\ wire'[x].token = wire[x].token
          /\ wire'[x].user = wire[x].user
          /\ wire'[x].live /\ wire[x].kind = "profile" =>
                /\ wire[x].live
                /\ Mounted(auth, path) /\ auth.authenticated =>
                      Mounted(a, path') /\ a.authenticated
  BY <1>6, <1>11
<1>16. ShellTypeOK'
  <2>1. callback' \in BOOLEAN /\ alive' \in BOOLEAN /\ mayRead' \in BOOLEAN
    BY <1>0, <1>1, <1>8 DEF ShellTypeOK, Show
  <2>2. /\ busy' \subseteq {"save", "logout"} /\ logins' \in 1..MaxLogins
        /\ picture' \in 0..MaxClicks /\ page' \in {"closed", "open", "left"}
    BY <1>0, <1>7 DEF ShellTypeOK
  <2> QED
    BY <1>5, <1>9, <1>10, <2>1, <2>2
       DEF ShellTypeOK, Pasts, ProfileStates, AuthStates, Paths, Messages, Requests, RequestKinds
<1>17. BeforeAndAfter'
  BY <1>0, <1>7 DEF BeforeAndAfter
<1>18. UploadsCounted'
  <2>1. UploadsOut' \subseteq UploadsOut
    BY <1>14, <1>15 DEF UploadsOut
  <2>2. shellPast'.clicks \in Nat /\ shellPast'.clicks >= shellPast.clicks
    BY <1>0, <1>9, ShellBounds DEF ShellTypeOK
  <2> QED
    BY <1>0, <1>7, <2>1, <2>2, UploadsKept DEF ShellIInv
<1>19. KnownUsers'
  <2>1. Nobody.user = 0 /\ 0 <= logins
    BY <1>0 DEF Nobody, ShellTypeOK
  <2> QED
    BY <1>2, <1>5, <1>7, <1>10, <1>14, <1>15, <2>1 DEF ShellIInv, KnownUsers
<1>20. ProfileOnItsPage'
  <2> SUFFICES ASSUME \/ profile'.shown # Nobody
                      \/ \E x \in Slots : wire'[x].kind = "profile" /\ wire'[x].live
               PROVE  Mounted(a, path') /\ a.authenticated
    BY <1>10 DEF ProfileOnItsPage
  <2>1. CASE profile'.shown # Nobody
    BY <1>10, <2>1
  <2>2. ASSUME NEW x \in Slots, wire'[x].kind = "profile", wire'[x].live
        PROVE  Mounted(a, path') /\ a.authenticated
    <3>1. CASE x = s
      BY <1>6, <1>11, <1>13, <2>2, <3>1
    <3>2. CASE x # s
      <4>1. wire[x].kind = "profile" /\ wire[x].live
        BY <1>15, <2>2, <3>2
      <4>2. Mounted(auth, path) /\ auth.authenticated
        BY <1>0, <4>1 DEF ShellIInv, ProfileOnItsPage
      <4> QED
        BY <1>15, <2>2, <3>2, <4>2
    <3> QED
      BY <3>1, <3>2
  <2> QED
    BY <2>1, <2>2
<1>21. ASSUME ~shellPast'.overlapped
       PROVE  /\ ~shellPast.overlapped /\ profile.shown = Nobody
              /\ \A x \in Slots \ {s} : /\ wire[x].kind \notin Writes \cup {"me"}
                                        /\ ~(wire[x].kind = "profile" /\ wire[x].live)
  <2>1. ~shellPast.overlapped
    BY <1>9, <1>21
  <2>2. auth.loading
    BY <1>0, <2>1 DEF ShellIInv, Serial
  <2>3. ~Mounted(auth, path)
    BY <2>2 DEF Mounted, RoutesShown
  <2>4. profile.shown = Nobody
    BY <1>0, <2>3 DEF ShellIInv, ProfileOnItsPage
  <2>5. ASSUME NEW x \in Slots, wire[x].kind = "profile", wire[x].live PROVE FALSE
    BY <1>0, <2>3, <2>5 DEF ShellIInv, ProfileOnItsPage
  <2>6. ASSUME NEW x \in Slots \ {s} PROVE wire[x].kind \notin Writes \cup {"me"}
    BY <1>0, <2>1 DEF ShellIInv, Serial, OneOnTheWire
  <2> QED
    BY <2>1, <2>4, <2>5, <2>6
<1>22. Serial'
  <2> SUFFICES ASSUME ~shellPast'.overlapped
               PROVE  /\ OneOnTheWire' /\ InTheUsersName'
                      /\ page' = "open" => /\ ProfileNotEarlier'
                                           /\ \A x \in Slots : wire'[x].kind = "me" => auth'.loading
    BY DEF Serial
  <2>1. \A x \in Slots : wire'[x].kind \notin Writes \cup {"me"}
    BY <1>14, <1>15, <1>21 DEF Writes
  <2>2. InTheUsersName'
    BY <1>5, <1>10, <2>1 DEF InTheUsersName
  <2>3. ProfileNotEarlier'
    BY <1>10, <1>14, <1>15, <1>21 DEF ProfileNotEarlier
  <2> QED
    BY <2>1, <2>2, <2>3 DEF OneOnTheWire
<1>23. UpToDate'
  <2> SUFFICES ASSUME shellPast'.failures = 0, ~shellPast'.elsewhere, ~shellPast'.overlapped
               PROVE  /\ \A x \in Slots :
                            /\ wire'[x].kind = "me" => wire'[x].at # "lost"
                            /\ wire'[x].kind \in {"me", "save"} /\ wire'[x].at = "back"
                               => wire'[x].user = User'
                      /\ auth'.user = User'
    BY DEF UpToDate
  <2>1. User' = User
    BY <1>7, <1>8 DEF User, Session
  <2>2. wire[s].at = "back" /\ wire[s].user = User
    BY <1>0, <1>9 DEF ShellIInv, UpToDate
  <2>3. \A x \in Slots : wire'[x].kind \notin Writes \cup {"me"}
    BY <1>14, <1>15, <1>21 DEF Writes
  <2> QED
    BY <1>3, <1>5, <1>10, <2>1, <2>2, <2>3 DEF Writes
<1>24. FailureKept'
  <2> SUFFICES ASSUME shellPast'.failed, ~shellPast'.moved
               PROVE  path' = "/" /\ callback' /\ ~auth'.authenticated
    BY DEF FailureKept
  <2>1. path = "/" /\ callback /\ ~known
    BY <1>0, <1>9 DEF ShellIInv, FailureKept
  <2>2. ~a.authenticated /\ ~a.loading
    BY <1>5, <2>1 DEF a
  <2>3. path' = "/"
    BY <1>10, <2>1, <2>2 DEF Landed, RoutesShown, IsIntro
  <2>4. callback'
    BY <1>1, <2>1, <2>3 DEF Show
  <2> QED
    BY <1>10, <2>2, <2>3, <2>4
<1> QED
  BY <1>16, <1>17, <1>18, <1>19, <1>20, <1>22, <1>23, <1>24 DEF ShellIInv

\* Any other answer to a page that stays: its slot is free again.
LEMMA AnswersKeepShell ==
  ASSUME ShellIInv, NEW s \in Slots, page = "open", wire[s].kind \in RequestKinds \ {"me"},
         wire' = Put(s, Free), UNCHANGED <<page, path, callback, server, shellPast>>,
         busy' \subseteq {"save", "logout"}, profile' \in ProfileStates, auth' \in AuthStates,
         auth'.loading = auth.loading, auth'.authenticated = auth.authenticated,
         auth'.token = auth.token, auth'.user.user <= logins,
         profile'.shown # Nobody => Mounted(auth, path) /\ auth.authenticated,
         ~shellPast.overlapped =>
            /\ auth'.user.user = auth.user.user
            /\ profile'.shown # Nobody => profile'.shown.user >= auth.user.user
            /\ shellPast.failures = 0 /\ ~shellPast.elsewhere =>
                  \/ auth'.user = User
                  \/ /\ auth'.user = auth.user
                     /\ wire[s].kind \notin {"upload", "logout"} \/ wire[s].at # "back"
  PROVE  ShellIInv'
<1>0. ShellTypeOK
  BY DEF ShellIInv
<1>1. /\ wire' \in [Slots -> Messages] /\ wire'[s] = Free
      /\ \A x \in Slots \ {s} : wire'[x] = wire[x]
  BY <1>0, PutFacts DEF Messages
<1>2. wire'[s].kind = "none" /\ wire'[s].at = "none" /\ wire'[s].user = Nobody
  BY <1>1 DEF Free
<1>3. /\ page' = page /\ path' = path /\ logins' = logins /\ picture' = picture
      /\ shellPast' = shellPast
  BY DEF server
<1>4. callback' = callback /\ alive' = alive /\ mayRead' = mayRead
  BY DEF server
<1>5. Mounted(auth', path') = Mounted(auth, path)
  BY <1>3 DEF Mounted, RoutesShown
<1>6. ShellTypeOK'
  <2>1. callback' \in BOOLEAN /\ alive' \in BOOLEAN /\ mayRead' \in BOOLEAN
    BY <1>0, <1>4 DEF ShellTypeOK
  <2>2. /\ path' \in Paths /\ logins' \in 1..MaxLogins /\ shellPast' \in Pasts
        /\ picture' \in 0..MaxClicks /\ page' \in {"closed", "open", "left"}
    BY <1>0, <1>3 DEF ShellTypeOK, Paths, Pasts
  <2> QED
    BY <1>1, <2>1, <2>2
       DEF ShellTypeOK, Pasts, ProfileStates, AuthStates, Paths, Messages, Requests, RequestKinds
<1>7. BeforeAndAfter'
  BY <1>3 DEF BeforeAndAfter
<1>8. UploadsCounted'
  <2>1. UploadsOut' \subseteq UploadsOut
    BY <1>1, <1>2 DEF UploadsOut
  <2>2. shellPast'.clicks \in Nat /\ shellPast'.clicks >= shellPast.clicks
    BY <1>0, <1>3, ShellBounds DEF ShellTypeOK
  <2> QED
    BY <1>0, <1>3, <2>1, <2>2, UploadsKept DEF ShellIInv
<1>9. KnownUsers'
  <2>1. Nobody.user = 0 /\ 0 <= logins
    BY <1>0 DEF Nobody, ShellTypeOK
  <2> QED
    BY <1>1, <1>2, <1>3, <2>1 DEF ShellIInv, KnownUsers
<1>10. ProfileOnItsPage'
  BY <1>1, <1>2, <1>3, <1>5 DEF ShellIInv, ProfileOnItsPage
<1>11. Serial'
  <2> SUFFICES ASSUME ~shellPast.overlapped
               PROVE  /\ OneOnTheWire' /\ InTheUsersName'
                      /\ page' = "open" => /\ ProfileNotEarlier'
                                           /\ \A x \in Slots : wire'[x].kind = "me" => auth'.loading
    BY <1>3 DEF Serial
  <2>1. OneOnTheWire'
    BY <1>1, <1>2 DEF ShellIInv, Serial, OneOnTheWire, Writes
  <2>2. InTheUsersName'
    BY <1>1, <1>2, <1>3 DEF ShellIInv, Serial, InTheUsersName, Writes
  <2>3. ProfileNotEarlier'
    BY <1>1, <1>2 DEF ShellIInv, Serial, ProfileNotEarlier
  <2>4. \A x \in Slots : wire'[x].kind = "me" => auth'.loading
    BY <1>1, <1>2 DEF ShellIInv, Serial
  <2> QED
    BY <2>1, <2>2, <2>3, <2>4
<1>12. UpToDate'
  <2> SUFFICES ASSUME shellPast.failures = 0, ~shellPast.elsewhere, ~shellPast.overlapped
               PROVE  /\ \A x \in Slots :
                            /\ wire'[x].kind = "me" => wire'[x].at # "lost"
                            /\ wire'[x].kind \in {"me", "save"} /\ wire'[x].at = "back"
                               => wire'[x].user = User'
                      /\ \/ auth'.user = User'
                         \/ \E x \in Slots :
                               \/ wire'[x].kind = "me"
                               \/ wire'[x].kind \in {"upload", "logout"} /\ wire'[x].at = "back"
    BY <1>3 DEF UpToDate
  <2>1. User' = User
    BY <1>3, <1>4 DEF User, Session
  <2>2. /\ \A x \in Slots : /\ wire[x].kind = "me" => wire[x].at # "lost"
                            /\ wire[x].kind \in {"me", "save"} /\ wire[x].at = "back"
                               => wire[x].user = User
        /\ \/ auth.user = User
           \/ \E x \in Slots : \/ wire[x].kind = "me"
                               \/ wire[x].kind \in {"upload", "logout"} /\ wire[x].at = "back"
    BY DEF ShellIInv, UpToDate
  <2>3. \A x \in Slots : /\ wire'[x].kind = "me" => wire'[x].at # "lost"
                         /\ wire'[x].kind \in {"me", "save"} /\ wire'[x].at = "back"
                            => wire'[x].user = User'
    BY <1>1, <1>2, <2>1, <2>2
  <2>4. CASE auth'.user = User
    BY <2>1, <2>3, <2>4
  <2>5. CASE /\ auth'.user = auth.user
             /\ wire[s].kind \notin {"upload", "logout"} \/ wire[s].at # "back"
    BY <1>1, <2>1, <2>2, <2>3, <2>5
  <2> QED
    BY <2>4, <2>5
<1>13. FailureKept'
  BY <1>3, <1>4 DEF ShellIInv, FailureKept
<1> QED
  BY <1>6, <1>7, <1>8, <1>9, <1>10, <1>11, <1>12, <1>13 DEF ShellIInv

\* The profile, or the failure to get it.
LEMMA ReceivingProfileKeepsShell ==
  ASSUME ShellIInv, NEW s \in Slots,
         ReceiveProfile(s) \/ (ReceiveNoProfile(s) /\ ~AsksWho(s))
  PROVE  ShellIInv'
<1>0. /\ ShellTypeOK /\ page = "open" /\ wire[s].kind = "profile"
      /\ wire' = Put(s, Free) /\ auth' = auth /\ UNCHANGED <<page, path, callback, server, shellPast>>
      /\ busy' = busy
  BY DEF ShellIInv, ReceiveProfile, ReceiveNoProfile, Arrived, Keeps
<1>1. profile \in ProfileStates /\ auth \in AuthStates /\ wire[s] \in Requests
  BY <1>0, Types, RequestTyped DEF RequestKinds
<1>2. wire[s].user \in Users
  BY <1>1 DEF Requests
<1>3. \/ /\ wire[s].live /\ wire[s].at = "back"
          /\ profile' = [profile EXCEPT !.shown = wire[s].user, !.loading = FALSE]
       \/ profile' = [profile EXCEPT !.error = TRUE, !.loading = FALSE]
       \/ profile' = profile
  BY DEF ReceiveProfile, ReceiveNoProfile, Arrived
<1>4. ASSUME NEW u \in Users, NEW b \in BOOLEAN, NEW e \in BOOLEAN
       PROVE  /\ [profile EXCEPT !.shown = u, !.loading = b] \in ProfileStates
              /\ [profile EXCEPT !.shown = u, !.loading = b].shown = u
              /\ [profile EXCEPT !.error = e, !.loading = b] \in ProfileStates
              /\ [profile EXCEPT !.error = e, !.loading = b].shown = profile.shown
  <2> DEFINE p == [profile EXCEPT !.shown = u]
             q == [profile EXCEPT !.error = e]
  <2>1. p \in ProfileStates /\ p.shown = u /\ q \in ProfileStates /\ q.shown = profile.shown
    BY <1>1 DEF ProfileStates
  <2> HIDE DEF p, q
  <2>2. /\ [p EXCEPT !.loading = b] \in ProfileStates /\ [p EXCEPT !.loading = b].shown = p.shown
        /\ [q EXCEPT !.loading = b] \in ProfileStates /\ [q EXCEPT !.loading = b].shown = q.shown
    BY <2>1 DEF ProfileStates
  <2>3. /\ [p EXCEPT !.loading = b] \in ProfileStates /\ [p EXCEPT !.loading = b].shown = u
        /\ [q EXCEPT !.loading = b] \in ProfileStates
        /\ [q EXCEPT !.loading = b].shown = profile.shown
    BY <2>1, <2>2
  <2> QED
    BY <2>3, Zenon DEF p, q
<1>5. /\ [profile EXCEPT !.shown = wire[s].user, !.loading = FALSE] \in ProfileStates
       /\ [profile EXCEPT !.shown = wire[s].user, !.loading = FALSE].shown = wire[s].user
       /\ [profile EXCEPT !.error = TRUE, !.loading = FALSE] \in ProfileStates
       /\ [profile EXCEPT !.error = TRUE, !.loading = FALSE].shown = profile.shown
  BY <1>2, <1>4, Zenon
<1>6. \/ profile'.shown = profile.shown
      \/ wire[s].live /\ wire[s].at = "back" /\ profile'.shown = wire[s].user
  BY <1>3, <1>5, Zenon
<1>7. profile' \in ProfileStates
  BY <1>1, <1>3, <1>5, Zenon
<1>8. profile'.shown # Nobody => Mounted(auth, path) /\ auth.authenticated
  BY <1>0, <1>6 DEF ShellIInv, ProfileOnItsPage
<1>9. ~shellPast.overlapped /\ profile'.shown # Nobody => profile'.shown.user >= auth.user.user
  BY <1>0, <1>6 DEF ShellIInv, Serial, ProfileNotEarlier
<1>10. auth.user.user <= logins
  BY DEF ShellIInv, KnownUsers
<1>11. busy' \subseteq {"save", "logout"}
  BY <1>0 DEF ShellTypeOK
<1> QED
  BY <1>0, <1>1, <1>7, <1>8, <1>9, <1>10, <1>11, AnswersKeepShell DEF RequestKinds

\* A refused upload, the answer to a choice, a refused logout.  The answer to
\* a choice that overlapped with nothing names the user the page has.
LEMMA ReceivingKeepsShell ==
  ASSUME ShellIInv, NEW s \in Slots,
         ReceiveNotUploaded(s) \/ ReceiveSaved(s) \/ ReceiveNotLoggedOut(s)
  PROVE  ShellIInv'
<1>0. /\ ShellTypeOK /\ page = "open" /\ wire[s].kind \in Writes
      /\ wire' = Put(s, Free) /\ UNCHANGED <<page, path, callback, server, shellPast>>
  BY DEF ShellIInv, ReceiveNotUploaded, ReceiveSaved, ReceiveNotLoggedOut, Arrived, Keeps, Writes
<1>1. profile \in ProfileStates /\ auth \in AuthStates /\ wire[s] \in Requests /\ wire[s].user \in Users
  BY <1>0, Types, RequestTyped DEF RequestKinds, Writes, Requests
<1>2. busy' \subseteq {"save", "logout"}
  BY <1>0 DEF ReceiveNotUploaded, ReceiveSaved, ReceiveNotLoggedOut, Keeps, ShellTypeOK
<1>3. profile' \in ProfileStates /\ profile'.shown = profile.shown
  <2>1. \A b \in BOOLEAN : /\ [profile EXCEPT !.uploading = b] \in ProfileStates
                           /\ [profile EXCEPT !.uploading = b].shown = profile.shown
    BY <1>1 DEF ProfileStates
  <2>2. profile' = profile \/ \E b \in BOOLEAN : profile' = [profile EXCEPT !.uploading = b]
    <3>1. profile.uploading \in BOOLEAN
      BY <1>1 DEF ProfileStates
    <3>2. (profile.uploading /\ ~wire[s].live) \in BOOLEAN
      OBVIOUS
    <3>3. CASE ReceiveNotUploaded(s)
      BY <3>2, <3>3 DEF ReceiveNotUploaded
    <3>4. CASE ReceiveSaved(s) \/ ReceiveNotLoggedOut(s)
      BY <3>4 DEF ReceiveSaved, ReceiveNotLoggedOut
    <3> QED
      BY <3>3, <3>4
  <2> QED
    BY <1>1, <2>1, <2>2
<1>4. \/ auth' = auth /\ (wire[s].kind = "save" \/ wire[s].at # "back")
      \/ /\ wire[s].kind = "save" /\ wire[s].at = "back"
         /\ auth' = [auth EXCEPT !.user = wire[s].user]
  BY DEF ReceiveNotUploaded, ReceiveSaved, ReceiveNotLoggedOut, Arrived, Refused
<1>5. /\ [auth EXCEPT !.user = wire[s].user] =
            [loading |-> auth.loading, authenticated |-> auth.authenticated,
             user |-> wire[s].user, token |-> auth.token]
  BY <1>1 DEF AuthStates
<1>6. /\ auth' \in AuthStates /\ auth'.loading = auth.loading
      /\ auth'.authenticated = auth.authenticated /\ auth'.token = auth.token
      /\ auth'.user = auth.user \/ (wire[s].at = "back" /\ auth'.user = wire[s].user)
  <2>1. CASE auth' = auth
    BY <1>1, <2>1
  <2>2. CASE wire[s].at = "back" /\ auth' = [auth EXCEPT !.user = wire[s].user]
    <3> DEFINE n == [loading |-> auth.loading, authenticated |-> auth.authenticated,
                     user |-> wire[s].user, token |-> auth.token]
    <3>1. n \in AuthStates /\ n.user = wire[s].user /\ n.token = auth.token
          /\ n.loading = auth.loading /\ n.authenticated = auth.authenticated
      BY <1>1 DEF AuthStates
    <3>2. auth' = n
      BY <1>5, <2>2
    <3> QED
      BY <2>2, <3>1, <3>2
  <2> QED
    BY <1>4, <2>1, <2>2
<1>7. auth'.user.user <= logins
  BY <1>6 DEF ShellIInv, KnownUsers
<1>8. profile'.shown # Nobody => Mounted(auth, path) /\ auth.authenticated
  BY <1>0, <1>3 DEF ShellIInv, ProfileOnItsPage
<1>9. ASSUME ~shellPast.overlapped
      PROVE  /\ auth'.user.user = auth.user.user
             /\ profile'.shown # Nobody => profile'.shown.user >= auth.user.user
  <2>1. auth'.user.user = auth.user.user
    <3>1. CASE auth'.user = auth.user
      BY <3>1
    <3>2. CASE /\ wire[s].kind = "save" /\ wire[s].at = "back"
               /\ auth' = [auth EXCEPT !.user = wire[s].user]
      <4>1. /\ auth.token = auth.user.user /\ wire[s].token = auth.token
            /\ wire[s].user.user = wire[s].token
        BY <1>0, <1>9, <3>2 DEF ShellIInv, Serial, InTheUsersName
      <4>2. auth'.user = wire[s].user
        BY <1>1, <3>2 DEF AuthStates
      <4> QED
        BY <4>1, <4>2
    <3> QED
      BY <1>4, <3>1, <3>2
  <2>2. profile.shown # Nobody => profile.shown.user >= auth.user.user
    BY <1>0, <1>9 DEF ShellIInv, Serial, ProfileNotEarlier
  <2> QED
    BY <1>3, <2>1, <2>2
<1>10. ASSUME ~shellPast.overlapped, shellPast.failures = 0, ~shellPast.elsewhere
       PROVE  \/ auth'.user = User
              \/ /\ auth'.user = auth.user
                 /\ wire[s].kind \notin {"upload", "logout"} \/ wire[s].at # "back"
  <2>1. CASE auth' = auth /\ (wire[s].kind = "save" \/ wire[s].at # "back")
    BY <2>1
  <2>2. CASE /\ wire[s].kind = "save" /\ wire[s].at = "back"
             /\ auth' = [auth EXCEPT !.user = wire[s].user]
    <3>1. wire[s].user = User
      BY <1>0, <1>10, <2>2 DEF ShellIInv, UpToDate
    <3>2. auth'.user = wire[s].user
      BY <1>1, <2>2 DEF AuthStates
    <3> QED
      BY <3>1, <3>2
  <2> QED
    BY <1>4, <2>1, <2>2
<1>11. wire[s].kind \in RequestKinds \ {"me"}
  BY <1>0 DEF Writes, RequestKinds
<1> QED
  BY <1>0, <1>2, <1>3, <1>6, <1>7, <1>8, <1>9, <1>10, <1>11, AnswersKeepShell

\* The page is left for Keycloak's logout: there is nobody it could name.
LEMMA LeavingKeepsShell ==
  ASSUME ShellIInv, NEW s \in Slots, ReceiveLoggedOut(s)
  PROVE  ShellIInv'
<1>0. ShellTypeOK /\ wire' = Put(s, Free)
  BY DEF ShellIInv, ReceiveLoggedOut
<1>1. /\ wire' \in [Slots -> Messages] /\ wire'[s] = Free
      /\ \A x \in Slots \ {s} : wire'[x] = wire[x]
  BY <1>0, PutFacts DEF Messages
<1>2. wire'[s].kind = "none" /\ wire'[s].at = "none" /\ wire'[s].user = Nobody
  BY <1>1 DEF Free
<1>3. /\ page' = "left" /\ auth' = Guest /\ path' = path /\ logins' = logins
      /\ picture' = picture /\ shellPast' = shellPast /\ profile' = profile
      /\ busy' \subseteq {"save", "logout"}
  BY <1>0 DEF ReceiveLoggedOut, server, ShellTypeOK
<1>4. callback' = callback /\ alive' = alive /\ mayRead' = mayRead
  BY DEF ReceiveLoggedOut, server
<1>5. Guest.user = Nobody /\ Guest.token = 0 /\ Nobody.user = 0
  BY DEF Guest, Nobody
<1>6. Guest \in AuthStates
  BY <1>0, Types, ShellBounds DEF Guest, AuthStates
<1>7. ShellTypeOK'
  <2>1. callback' \in BOOLEAN /\ alive' \in BOOLEAN /\ mayRead' \in BOOLEAN
    BY <1>0, <1>4 DEF ShellTypeOK
  <2>2. /\ path' \in Paths /\ logins' \in 1..MaxLogins /\ shellPast' \in Pasts
        /\ picture' \in 0..MaxClicks /\ profile' \in ProfileStates
    BY <1>0, <1>3, Types DEF ShellTypeOK, Pasts
  <2> QED
    BY <1>1, <1>3, <1>6, <2>1, <2>2
       DEF ShellTypeOK, Pasts, ProfileStates, AuthStates, Paths, Messages, Requests, RequestKinds
<1>8. BeforeAndAfter'
  BY <1>3 DEF BeforeAndAfter
<1>9. UploadsCounted'
  <2>1. UploadsOut' \subseteq UploadsOut
    BY <1>1, <1>2 DEF UploadsOut
  <2>2. shellPast'.clicks \in Nat /\ shellPast'.clicks >= shellPast.clicks
    BY <1>0, <1>3, ShellBounds DEF ShellTypeOK
  <2> QED
    BY <1>0, <1>3, <2>1, <2>2, UploadsKept DEF ShellIInv
<1>10. KnownUsers'
  <2>1. 0 <= logins
    BY <1>0 DEF ShellTypeOK
  <2> QED
    BY <1>1, <1>2, <1>3, <1>5, <2>1 DEF ShellIInv, KnownUsers
<1>11. Serial'
  <2> SUFFICES ASSUME ~shellPast.overlapped PROVE OneOnTheWire' /\ InTheUsersName'
    BY <1>3 DEF Serial
  <2>1. OneOnTheWire'
    BY <1>1, <1>2 DEF ShellIInv, Serial, OneOnTheWire, Writes
  <2>2. InTheUsersName'
    BY <1>1, <1>2, <1>3, <1>5 DEF ShellIInv, Serial, InTheUsersName, Writes
  <2> QED
    BY <2>1, <2>2
<1> QED
  BY <1>3, <1>7, <1>8, <1>9, <1>10, <1>11 DEF ShellIInv, ProfileOnItsPage, UpToDate, FailureKept

\* An answer that makes the page ask.
LEMMA AskingAgainKeepsShell ==
  ASSUME ShellIInv, NEW s \in Slots,
         ReceiveUploaded(s) \/ (ReceiveNoProfile(s) /\ AsksWho(s))
  PROVE  ShellIInv'
<1>1. page = "open" /\ BeginRefresh(s) /\ Past(s, 0) /\ Keeps
  BY DEF ReceiveUploaded, AfterUpload, ReceiveNoProfile, Arrived
<1>2. wire[s].kind # "upload" \/ wire[s].at # "out"
  BY DEF ReceiveUploaded, ReceiveNoProfile, Arrived
<1>3. shellPast.clicks + 0 <= MaxClicks
  BY ShellBounds DEF ShellIInv, ShellTypeOK
<1> QED
  BY <1>1, <1>2, <1>3, AskingKeepsShell

-----------------------------------------------------------------------------
(* Each step preserves the invariant: the server, the network, another tab   *)

\* Whom the server knows has logged in, last of all if the session is alive.
LEMMA UserFacts ==
  ASSUME ShellTypeOK
  PROVE  /\ User \in Users /\ User.user <= logins /\ Session \in 0..MaxLogins
         /\ alive => User = [user |-> logins, picture |-> picture] /\ User.user = logins
<1>1. logins \in 1..MaxLogins /\ picture \in 0..MaxClicks
  BY DEF ShellTypeOK
<1>2. Session \in 0..MaxLogins /\ Session <= logins /\ (alive => Session = logins)
  BY <1>1, ShellBounds DEF Session
<1> DEFINE p == IF alive THEN picture ELSE 0
<1>3. p \in 0..MaxClicks /\ (alive => p = picture)
  BY <1>1, ShellBounds
<1>4. User = [user |-> Session, picture |-> p]
  BY DEF User
<1> HIDE DEF p
<1> QED
  BY <1>1, <1>2, <1>3, <1>4 DEF Users

\* An answer changes nothing but itself; what is left to show of a step of the
\* server is about the state of the server.
LEMMA AnsweringKeepsShell ==
  ASSUME ShellIInv, NEW s \in Slots, wire[s].kind \in RequestKinds,
         NEW at \in {"back", "401", "403", "lost"}, NEW u \in Users, u.user <= logins,
         wire' = [wire EXCEPT ![s].at = at, ![s].user = u],
         UNCHANGED <<client, logins, mayRead>>,
         alive' \in BOOLEAN, picture' \in 0..MaxClicks, shellPast' \in Pasts,
         shellPast'.overlapped = shellPast.overlapped,
         shellPast'.failed = shellPast.failed, shellPast'.moved = shellPast.moved,
         wire[s].kind = "save" /\ at = "back" => u.user = wire[s].token,
         wire[s].kind = "profile" /\ at = "back" => u.user >= auth.user.user
  PROVE  /\ ShellTypeOK' /\ BeforeAndAfter' /\ KnownUsers' /\ ProfileOnItsPage' /\ Serial'
         /\ FailureKept' /\ UploadsOut' = UploadsOut \ {s}
         /\ wire'[s].kind = wire[s].kind /\ wire'[s].at = at /\ wire'[s].user = u
         /\ \A x \in Slots \ {s} : wire'[x] = wire[x]
<1>0. ShellTypeOK
  BY DEF ShellIInv
<1>1. wire \in [Slots -> Messages] /\ wire[s] \in Requests
  BY <1>0, Types, RequestTyped
<1>2. /\ wire'[s] = [kind |-> wire[s].kind, at |-> at, live |-> wire[s].live,
                     token |-> wire[s].token, by |-> wire[s].by, user |-> u]
      /\ \A x \in Slots \ {s} : wire'[x] = wire[x]
      /\ wire' \in [Slots -> Messages]
  <2> DEFINE m == [wire[s] EXCEPT !.at = at]
             n == [m EXCEPT !.user = u]
  <2>1. m = [kind |-> wire[s].kind, at |-> at, live |-> wire[s].live,
             token |-> wire[s].token, by |-> wire[s].by, user |-> wire[s].user]
    BY <1>1 DEF Requests
  <2>2. wire' = [wire EXCEPT ![s] = n]
    BY <1>1
  <2> HIDE DEF m
  <2>3. m \in Requests
    BY <1>1, <2>1 DEF Requests
  <2>4. n = [kind |-> m.kind, at |-> m.at, live |-> m.live,
             token |-> m.token, by |-> m.by, user |-> u] /\ n \in Requests
    BY <2>3 DEF Requests
  <2>5. n = [kind |-> wire[s].kind, at |-> at, live |-> wire[s].live,
             token |-> wire[s].token, by |-> wire[s].by, user |-> u]
    BY <2>1, <2>4
  <2> HIDE DEF n
  <2> QED
    BY <1>1, <2>2, <2>4, <2>5 DEF Messages
<1>3. /\ wire'[s].kind = wire[s].kind /\ wire'[s].at = at /\ wire'[s].user = u
      /\ wire'[s].token = wire[s].token /\ wire'[s].by = wire[s].by
  BY <1>2
<1>4. wire'[s].live = wire[s].live
  BY <1>2
<1>5. /\ page' = page /\ auth' = auth /\ path' = path /\ profile' = profile /\ busy' = busy
      /\ logins' = logins
  BY DEF client
<1>6. callback' = callback /\ mayRead' = mayRead
  BY DEF client
<1>7. ShellTypeOK'
  <2>1. callback' \in BOOLEAN /\ mayRead' \in BOOLEAN
    BY <1>0, <1>6 DEF ShellTypeOK
  <2>2. /\ path' \in Paths /\ logins' \in 1..MaxLogins /\ auth' \in AuthStates
        /\ profile' \in ProfileStates /\ busy' \subseteq {"save", "logout"}
        /\ page' \in {"closed", "open", "left"}
    BY <1>0, <1>5, Types DEF ShellTypeOK
  <2> QED
    BY <1>2, <2>1, <2>2
       DEF ShellTypeOK, Pasts, ProfileStates, AuthStates, Paths, Messages, Requests, RequestKinds
<1>8. BeforeAndAfter'
  <2>1. page # "closed"
    <3>1. wire[s].kind # "none"
      BY DEF RequestKinds
    <3> QED
      BY <3>1 DEF ShellIInv, BeforeAndAfter, Free
  <2> QED
    BY <1>5, <2>1 DEF ShellIInv, BeforeAndAfter
<1>9. KnownUsers'
  BY <1>2, <1>3, <1>5 DEF ShellIInv, KnownUsers
<1>10. ProfileOnItsPage'
  BY <1>2, <1>3, <1>4, <1>5 DEF ShellIInv, ProfileOnItsPage
<1>11. Serial'
  <2> SUFFICES ASSUME ~shellPast.overlapped
               PROVE  /\ OneOnTheWire' /\ InTheUsersName'
                      /\ page' = "open" => /\ ProfileNotEarlier'
                                           /\ \A x \in Slots : wire'[x].kind = "me" => auth'.loading
    BY DEF Serial
  <2>1. OneOnTheWire'
    BY <1>2, <1>3 DEF ShellIInv, Serial, OneOnTheWire
  <2>2. InTheUsersName'
    BY <1>2, <1>3, <1>5 DEF ShellIInv, Serial, InTheUsersName
  <2>3. page = "open" => ProfileNotEarlier'
    BY <1>2, <1>3, <1>4, <1>5 DEF ShellIInv, Serial, ProfileNotEarlier
  <2>4. page = "open" => \A x \in Slots : wire'[x].kind = "me" => auth'.loading
    BY <1>2, <1>3, <1>5 DEF ShellIInv, Serial
  <2> QED
    BY <1>5, <2>1, <2>2, <2>3, <2>4
<1>12. FailureKept'
  BY <1>5, <1>6 DEF ShellIInv, FailureKept
<1>13. UploadsOut' = UploadsOut \ {s}
  BY <1>2, <1>3 DEF UploadsOut
<1> QED
  BY <1>2, <1>3, <1>7, <1>8, <1>9, <1>10, <1>11, <1>12, <1>13

\* Which of the requests that tell or change the user is on the wire, if none
\* overlapped and this one does.
LEMMA OnlyOne ==
  ASSUME ShellIInv, NEW s \in Slots, wire[s].kind \in Writes \cup {"me"}, ~shellPast.overlapped
  PROVE  \A x \in Slots \ {s} : wire[x].kind \notin Writes \cup {"me"}
  BY DEF ShellIInv, Serial, OneOnTheWire

\* /auth/me
LEMMA HandlingMeKeepsShell ==
  ASSUME ShellIInv, NEW s \in Slots, HandleMe(s)
  PROVE  ShellIInv'
<1>0. /\ ShellTypeOK /\ wire[s].kind = "me" /\ UNCHANGED <<client, server>>
      /\ wire' = [wire EXCEPT ![s].at = "back", ![s].user = User]
  BY DEF ShellIInv, HandleMe, Answer
<1>1. /\ shellPast' \in Pasts /\ shellPast'.clicks = shellPast.clicks
      /\ shellPast'.failures = shellPast.failures
      /\ shellPast'.overlapped = shellPast.overlapped
      /\ shellPast'.failed = shellPast.failed /\ shellPast'.moved = shellPast.moved
  <2>1. shellPast \in Pasts
    BY <1>0 DEF ShellTypeOK, Pasts
  <2>2. \A b \in BOOLEAN :
           LET n == [shellPast EXCEPT !.elsewhere = b]
           IN /\ n \in Pasts /\ n.clicks = shellPast.clicks /\ n.failures = shellPast.failures
              /\ n.overlapped = shellPast.overlapped
              /\ n.failed = shellPast.failed /\ n.moved = shellPast.moved
    BY <2>1 DEF Pasts
  <2>3. shellPast' = [shellPast EXCEPT !.elsewhere = FALSE]
    BY DEF HandleMe
  <2> QED
    BY <2>2, <2>3, Zenon
<1>2. logins' = logins /\ picture' = picture /\ picture' \in 0..MaxClicks
  BY <1>0 DEF server, ShellTypeOK
<1>3. alive' = alive /\ mayRead' = mayRead /\ alive' \in BOOLEAN
  BY <1>0 DEF server, ShellTypeOK
<1>4. User \in Users /\ User.user <= logins
  BY <1>0, UserFacts
<1>5. /\ ShellTypeOK' /\ BeforeAndAfter' /\ KnownUsers' /\ ProfileOnItsPage' /\ Serial'
      /\ FailureKept' /\ UploadsOut' = UploadsOut \ {s}
      /\ wire'[s].kind = "me" /\ wire'[s].at = "back" /\ wire'[s].user = User
      /\ \A x \in Slots \ {s} : wire'[x] = wire[x]
  <2>1. UNCHANGED <<client, logins, mayRead>>
    BY <1>0, <1>2, <1>3
  <2> QED
    BY <1>0, <1>1, <1>2, <1>3, <1>4, <2>1, AnsweringKeepsShell DEF RequestKinds
<1>6. UploadsCounted'
  <2>1. UploadsOut' \subseteq UploadsOut
    BY <1>5
  <2>2. shellPast'.clicks \in Nat /\ shellPast'.clicks >= shellPast.clicks
    BY <1>0, <1>1, ShellBounds DEF ShellTypeOK
  <2> QED
    BY <1>0, <1>2, <2>1, <2>2, UploadsKept DEF ShellIInv
<1>7. UpToDate'
  <2> SUFFICES ASSUME ~shellPast'.overlapped
               PROVE  \A x \in Slots :
                         /\ wire'[x].kind = "me" => wire'[x].at # "lost"
                         /\ wire'[x].kind \in {"me", "save"} /\ wire'[x].at = "back"
                            => wire'[x].user = User'
    BY <1>5 DEF UpToDate
  <2>1. User' = User
    BY <1>2, <1>3 DEF User, Session
  <2>2. \A x \in Slots \ {s} : wire[x].kind \notin Writes \cup {"me"}
    BY <1>0, <1>1, OnlyOne
  <2> QED
    BY <1>5, <2>1, <2>2 DEF Writes
<1> QED
  BY <1>5, <1>6, <1>7 DEF ShellIInv

\* GET /profile: told to a live session with the permission, refused to others.
LEMMA HandlingProfileKeepsShell ==
  ASSUME ShellIInv, NEW s \in Slots, HandleProfile(s)
  PROVE  ShellIInv'
<1> DEFINE at == IF ~alive THEN "401" ELSE IF mayRead THEN "back" ELSE "403"
           u == IF at = "back" THEN User ELSE Nobody
<1>0. /\ ShellTypeOK /\ wire[s].kind = "profile"
      /\ UNCHANGED <<client, server, shellPast>>
      /\ wire' = [wire EXCEPT ![s].at = at, ![s].user = u]
  BY DEF ShellIInv, HandleProfile, Answer
<1>1. /\ at \in {"back", "401", "403", "lost"} /\ (at = "back" => alive)
      /\ u \in Users /\ u.user <= logins /\ (at = "back" => u.user = logins)
  <2>1. User \in Users /\ User.user <= logins /\ (alive => User.user = logins)
    BY <1>0, UserFacts
  <2>2. Nobody \in Users /\ Nobody.user = 0 /\ 0 <= logins
    BY <1>0, Types DEF Nobody, ShellTypeOK
  <2>3. at \in {"back", "401", "403", "lost"} /\ (at = "back" => alive)
    OBVIOUS
  <2> HIDE DEF at
  <2> QED
    BY <2>1, <2>2, <2>3
<1> HIDE DEF at, u
<1>2. /\ shellPast' = shellPast /\ shellPast' \in Pasts /\ logins' = logins
      /\ picture' = picture /\ picture' \in 0..MaxClicks /\ page' = page /\ auth' = auth
  BY <1>0 DEF client, server, ShellTypeOK, Pasts
<1>3. alive' = alive /\ mayRead' = mayRead /\ alive' \in BOOLEAN
  BY <1>0 DEF server, ShellTypeOK
<1>4. at = "back" => u.user >= auth.user.user
  <2>1. auth.user.user <= logins
    BY DEF ShellIInv, KnownUsers
  <2>2. auth.user.user \in 0..MaxLogins /\ logins \in 1..MaxLogins
    BY <1>0, Types DEF ShellTypeOK
  <2> QED
    BY <1>1, <2>1, <2>2, ShellBounds
<1>5. /\ ShellTypeOK' /\ BeforeAndAfter' /\ KnownUsers' /\ ProfileOnItsPage' /\ Serial'
      /\ FailureKept' /\ UploadsOut' = UploadsOut \ {s}
      /\ wire'[s].kind = "profile"
      /\ \A x \in Slots \ {s} : wire'[x] = wire[x]
  <2>1. UNCHANGED <<client, logins, mayRead>>
    BY <1>0, <1>2, <1>3
  <2> QED
    BY <1>0, <1>1, <1>2, <1>3, <1>4, <2>1, AnsweringKeepsShell DEF RequestKinds
<1>6. UploadsCounted'
  <2>1. UploadsOut' \subseteq UploadsOut
    BY <1>5
  <2>2. shellPast'.clicks \in Nat /\ shellPast'.clicks >= shellPast.clicks
    BY <1>0, <1>2, ShellBounds DEF ShellTypeOK
  <2> QED
    BY <1>0, <1>2, <2>1, <2>2, UploadsKept DEF ShellIInv
<1>7. UpToDate'
  <2>1. User' = User
    BY <1>2, <1>3 DEF User, Session
  <2> QED
    BY <1>0, <1>2, <1>5, <2>1 DEF ShellIInv, UpToDate
<1> QED
  BY <1>5, <1>6, <1>7 DEF ShellIInv

\* A choice, an upload or a logout that is refused changes nothing.
LEMMA RefusingKeepsShell ==
  ASSUME ShellIInv, NEW s \in Slots, HandleWrite(s), ~Accepted(s)
  PROVE  ShellIInv'
<1> DEFINE at == IF alive THEN "403" ELSE "401"
<1>0. ShellTypeOK /\ wire[s].kind \in Writes
  BY DEF ShellIInv, HandleWrite, Writes
<1>1. /\ wire' = [wire EXCEPT ![s].at = at, ![s].user = Nobody]
      /\ at \in {"401", "403"}
  BY DEF HandleWrite, Answer
<1> HIDE DEF at
<1>2. /\ shellPast' = shellPast /\ shellPast' \in Pasts /\ logins' = logins
      /\ picture' = picture /\ picture' \in 0..MaxClicks /\ page' = page /\ auth' = auth
  BY <1>0 DEF client, HandleWrite, ShellTypeOK, Pasts
<1>3. alive' = alive /\ mayRead' = mayRead /\ alive' \in BOOLEAN
  BY <1>0 DEF HandleWrite, ShellTypeOK
<1>4. Nobody \in Users /\ Nobody.user <= logins
  BY <1>0, Types DEF Nobody, ShellTypeOK
<1>5. /\ ShellTypeOK' /\ BeforeAndAfter' /\ KnownUsers' /\ ProfileOnItsPage' /\ Serial'
      /\ FailureKept' /\ UploadsOut' = UploadsOut \ {s}
      /\ wire'[s].kind = wire[s].kind /\ wire'[s].at = at
      /\ \A x \in Slots \ {s} : wire'[x] = wire[x]
  <2>1. UNCHANGED <<client, logins, mayRead>>
    BY <1>2, <1>3 DEF HandleWrite
  <2>2. wire[s].kind \in RequestKinds
    BY <1>0 DEF RequestKinds, Writes
  <2> QED
    BY <1>1, <1>2, <1>3, <1>4, <2>1, <2>2, AnsweringKeepsShell
<1>6. UploadsCounted'
  <2>1. UploadsOut' \subseteq UploadsOut
    BY <1>5
  <2>2. shellPast'.clicks \in Nat /\ shellPast'.clicks >= shellPast.clicks
    BY <1>0, <1>2, ShellBounds DEF ShellTypeOK
  <2> QED
    BY <1>0, <1>2, <2>1, <2>2, UploadsKept DEF ShellIInv
<1>7. UpToDate'
  <2>1. User' = User
    BY <1>2, <1>3 DEF User, Session
  <2>2. wire[s].at = "out"
    BY DEF HandleWrite
  <2>3. wire'[s].kind # "me" /\ wire'[s].at # "back"
    BY <1>0, <1>1, <1>5 DEF Writes
  <2> SUFFICES ASSUME page = "open", shellPast.failures = 0, ~shellPast.elsewhere,
                      ~shellPast.overlapped
               PROVE  /\ \A x \in Slots :
                           /\ wire'[x].kind = "me" => wire'[x].at # "lost"
                           /\ wire'[x].kind \in {"me", "save"} /\ wire'[x].at = "back"
                              => wire'[x].user = User
                      /\ \/ auth.user = User
                         \/ \E x \in Slots :
                               \/ wire'[x].kind = "me"
                               \/ /\ wire'[x].kind \in {"upload", "logout"}
                                  /\ wire'[x].at = "back"
    BY <1>2, <2>1 DEF UpToDate
  <2>4. /\ \A x \in Slots : /\ wire[x].kind = "me" => wire[x].at # "lost"
                            /\ wire[x].kind \in {"me", "save"} /\ wire[x].at = "back"
                               => wire[x].user = User
        /\ \/ auth.user = User
           \/ \E x \in Slots : \/ wire[x].kind = "me"
                               \/ wire[x].kind \in {"upload", "logout"} /\ wire[x].at = "back"
    BY DEF ShellIInv, UpToDate
  <2>5. \/ auth.user = User
        \/ \E x \in Slots \ {s} :
              \/ wire[x].kind = "me"
              \/ wire[x].kind \in {"upload", "logout"} /\ wire[x].at = "back"
    BY <1>0, <2>2, <2>4 DEF Writes
  <2> QED
    BY <1>5, <2>3, <2>4, <2>5
<1> QED
  BY <1>5, <1>6, <1>7 DEF ShellIInv

\* One that is accepted: the token is that of the session, and what the page
\* does not learn from the answer to a choice it asks for, or leaves.
LEMMA AcceptingKeepsShell ==
  ASSUME ShellIInv, NEW s \in Slots, HandleWrite(s), Accepted(s)
  PROVE  ShellIInv'
<1> DEFINE u == [user |-> Session, picture |-> picture']
<1>0. /\ ShellTypeOK /\ wire[s].kind \in Writes /\ wire[s].at = "out"
      /\ wire[s].token = Session
  BY DEF ShellIInv, HandleWrite, Writes, Accepted
<1>1. /\ picture' = IF wire[s].kind = "upload" THEN picture + 1 ELSE picture
      /\ wire' = [wire EXCEPT ![s].at = "back", ![s].user = u]
  BY DEF HandleWrite
<1>2. alive /\ alive' = (wire[s].kind # "logout") /\ alive' \in BOOLEAN
  BY DEF HandleWrite, Accepted
<1>3. /\ shellPast' = shellPast /\ shellPast' \in Pasts /\ logins' = logins
      /\ page' = page /\ auth' = auth
  BY <1>0 DEF client, HandleWrite, ShellTypeOK, Pasts
<1>4. mayRead' = mayRead
  BY DEF HandleWrite
<1>5. UploadsCounted /\ picture \in 0..MaxClicks /\ shellPast.clicks \in 0..MaxClicks
  BY <1>0 DEF ShellIInv, ShellTypeOK
<1>6. /\ picture' \in 0..MaxClicks /\ IsFiniteSet(UploadsOut \ {s})
      /\ picture' + Cardinality(UploadsOut \ {s}) <= shellPast.clicks
  <2>1. IsFiniteSet(UploadsOut) /\ picture + Cardinality(UploadsOut) <= shellPast.clicks
        /\ Cardinality(UploadsOut) \in Nat
    BY <1>5, FS_CardinalityType DEF UploadsCounted
  <2>2. CASE wire[s].kind = "upload"
    <3>1. s \in UploadsOut
      BY <1>0, <2>2 DEF UploadsOut
    <3>2. /\ IsFiniteSet(UploadsOut \ {s})
          /\ Cardinality(UploadsOut \ {s}) = Cardinality(UploadsOut) - 1
          /\ Cardinality(UploadsOut \ {s}) \in Nat
      BY <2>1, <3>1, FS_RemoveElement, FS_CardinalityType
    <3> QED
      BY <1>1, <1>5, <2>1, <2>2, <3>2, ShellBounds
  <2>3. CASE wire[s].kind # "upload"
    <3>1. UploadsOut \ {s} = UploadsOut
      BY <2>3 DEF UploadsOut
    <3> QED
      BY <1>1, <1>5, <2>1, <2>3, <3>1
  <2> QED
    BY <2>2, <2>3
<1>7. Session \in 0..MaxLogins /\ Session = logins
  BY <1>0, <1>2, UserFacts DEF Session
<1>8. u \in Users /\ u.user = Session /\ u.user <= logins
  <2>1. logins \in Nat
    BY <1>0 DEF ShellTypeOK
  <2> QED
    BY <1>6, <1>7, <2>1 DEF Users
<1>9. /\ ShellTypeOK' /\ BeforeAndAfter' /\ KnownUsers' /\ ProfileOnItsPage' /\ Serial'
      /\ FailureKept' /\ UploadsOut' = UploadsOut \ {s}
      /\ wire'[s].kind = wire[s].kind /\ wire'[s].at = "back" /\ wire'[s].user = u
      /\ \A x \in Slots \ {s} : wire'[x] = wire[x]
  <2>1. UNCHANGED <<client, logins, mayRead>>
    BY <1>3, <1>4 DEF HandleWrite
  <2>2. wire[s].kind \in RequestKinds /\ wire[s].kind # "profile"
    BY <1>0 DEF RequestKinds, Writes
  <2> HIDE DEF u
  <2> QED
    BY <1>0, <1>1, <1>2, <1>3, <1>6, <1>8, <2>1, <2>2, AnsweringKeepsShell
<1>10. UpToDate'
  <2> SUFFICES ASSUME page = "open", shellPast.failures = 0, ~shellPast.elsewhere,
                      ~shellPast.overlapped
               PROVE  /\ \A x \in Slots :
                           /\ wire'[x].kind = "me" => wire'[x].at # "lost"
                           /\ wire'[x].kind \in {"me", "save"} /\ wire'[x].at = "back"
                              => wire'[x].user = User'
                      /\ \/ auth.user = User'
                         \/ \E x \in Slots :
                               \/ wire'[x].kind = "me"
                               \/ /\ wire'[x].kind \in {"upload", "logout"}
                                  /\ wire'[x].at = "back"
    BY <1>3 DEF UpToDate
  <2>1. \A x \in Slots \ {s} : wire[x].kind \notin Writes \cup {"me"}
    BY <1>0, OnlyOne
  <2>2. wire'[s].kind = "save" => u = User' /\ User' = User
    BY <1>1, <1>2, <1>3, <1>7, <1>9 DEF User, Session
  <2>3. auth.user = User
    BY <1>0, <2>1 DEF ShellIInv, UpToDate, Writes
  <2>4. \A x \in Slots \ {s} : wire'[x].kind \notin {"me", "save"}
    BY <1>9, <2>1 DEF Writes
  <2> QED
    BY <1>0, <1>9, <2>2, <2>3, <2>4 DEF Writes
<1>11. UploadsCounted'
  BY <1>3, <1>6, <1>9 DEF UploadsCounted
<1> QED
  BY <1>9, <1>10, <1>11 DEF ShellIInv

\* A request or an answer is lost: from then on nothing is promised of what
\* the page knows, but it takes nobody for its user.
LEMMA LosingKeepsShell ==
  ASSUME ShellIInv, NEW s \in Slots, Lose(s)
  PROVE  ShellIInv'
<1>0. /\ ShellTypeOK /\ UNCHANGED <<client, server>> /\ wire[s].at \in {"out", "back"}
      /\ wire' = [wire EXCEPT ![s].at = "lost", ![s].user = Nobody]
      /\ shellPast.failures < MaxFailures
  BY DEF ShellIInv, Lose, Answer
<1>1. /\ shellPast' \in Pasts /\ shellPast'.clicks = shellPast.clicks
      /\ shellPast'.failures = shellPast.failures + 1
      /\ shellPast'.overlapped = shellPast.overlapped
      /\ shellPast'.failed = shellPast.failed /\ shellPast'.moved = shellPast.moved
  <2>1. shellPast \in Pasts
    BY <1>0 DEF ShellTypeOK, Pasts
  <2>2. shellPast.failures + 1 \in 0..MaxFailures
    BY <1>0, <2>1, ShellBounds DEF Pasts
  <2>3. shellPast' = [shellPast EXCEPT !.failures = shellPast.failures + 1]
    BY DEF Lose
  <2> QED
    BY <2>1, <2>2, <2>3, PastFields DEF Pasts
<1>2. /\ logins' = logins /\ picture' = picture /\ picture' \in 0..MaxClicks
  BY <1>0 DEF server, ShellTypeOK
<1>3. alive' = alive /\ mayRead' = mayRead /\ alive' \in BOOLEAN
  BY <1>0 DEF server, ShellTypeOK
<1>4. wire[s].kind \in RequestKinds
  <2>1. wire[s] \in Messages
    BY <1>0, Types
  <2> QED
    BY <1>0, <2>1 DEF Messages, Free, Requests
<1>5. Nobody \in Users /\ Nobody.user <= logins
  BY <1>0, Types DEF Nobody, ShellTypeOK
<1>6. /\ ShellTypeOK' /\ BeforeAndAfter' /\ KnownUsers' /\ ProfileOnItsPage' /\ Serial'
      /\ FailureKept' /\ UploadsOut' = UploadsOut \ {s}
  <2>1. UNCHANGED <<client, logins, mayRead>>
    BY <1>0, <1>2, <1>3
  <2> QED
    BY <1>0, <1>1, <1>2, <1>3, <1>4, <1>5, <2>1, AnsweringKeepsShell
<1>7. UploadsCounted'
  <2>1. UploadsOut' \subseteq UploadsOut
    BY <1>6
  <2>2. shellPast'.clicks \in Nat /\ shellPast'.clicks >= shellPast.clicks
    BY <1>0, <1>1, ShellBounds DEF ShellTypeOK
  <2> QED
    BY <1>0, <1>2, <2>1, <2>2, UploadsKept DEF ShellIInv
<1>8. UpToDate'
  <2>1. shellPast'.failures # 0
    BY <1>0, <1>1, ShellBounds DEF ShellTypeOK
  <2> QED
    BY <2>1 DEF UpToDate
<1> QED
  BY <1>6, <1>7, <1>8 DEF ShellIInv

\* The session changes while the page looks on: another tab logs in, or the
\* session ends.  The page and its requests stay as they are.
LEMMA ChangeElsewhereKeepsShell ==
  ASSUME ShellIInv, OtherTabLogsIn \/ SessionEnds
  PROVE  ShellIInv'
<1>0. ShellTypeOK /\ page = "open" /\ UNCHANGED <<client, wire, mayRead>>
  BY DEF ShellIInv, OtherTabLogsIn, SessionEnds
<1>1. /\ shellPast' \in Pasts /\ shellPast'.clicks = shellPast.clicks
      /\ shellPast'.overlapped = shellPast.overlapped
      /\ shellPast'.failed = shellPast.failed /\ shellPast'.moved = shellPast.moved
  <2>1. shellPast \in Pasts
    BY <1>0 DEF ShellTypeOK, Pasts
  <2>2. \A b \in BOOLEAN :
           LET n == [shellPast EXCEPT !.elsewhere = b]
           IN /\ n \in Pasts /\ n.clicks = shellPast.clicks
              /\ n.overlapped = shellPast.overlapped
              /\ n.failed = shellPast.failed /\ n.moved = shellPast.moved
    BY <2>1 DEF Pasts
  <2>3. shellPast' = [shellPast EXCEPT !.elsewhere = TRUE]
    BY DEF OtherTabLogsIn, SessionEnds
  <2> QED
    BY <2>2, <2>3, Zenon
<1>2. shellPast'.elsewhere
  <2>1. shellPast \in Pasts
    BY <1>0 DEF ShellTypeOK, Pasts
  <2>2. \A b \in BOOLEAN : [shellPast EXCEPT !.elsewhere = b].elsewhere = b
    BY <2>1 DEF Pasts
  <2>3. shellPast' = [shellPast EXCEPT !.elsewhere = TRUE]
    BY DEF OtherTabLogsIn, SessionEnds
  <2> QED
    BY <2>2, <2>3, Zenon
<1>3. /\ page' = page /\ auth' = auth /\ path' = path /\ profile' = profile /\ busy' = busy
      /\ wire' = wire
  BY <1>0 DEF client
<1>4. callback' = callback /\ mayRead' = mayRead
  BY <1>0 DEF client
<1>5. /\ logins' \in 1..MaxLogins /\ logins' >= logins
      /\ picture' = picture \/ picture' = 0
  BY <1>0, ShellBounds DEF OtherTabLogsIn, SessionEnds, ShellTypeOK
<1>6. alive' \in BOOLEAN
  BY DEF OtherTabLogsIn, SessionEnds
<1>7. ShellTypeOK'
  <2>1. callback' \in BOOLEAN /\ mayRead' \in BOOLEAN
    BY <1>0, <1>4 DEF ShellTypeOK
  <2>2. picture' \in 0..MaxClicks
    BY <1>0, <1>5, ShellBounds DEF ShellTypeOK
  <2>3. /\ path' \in Paths /\ auth' \in AuthStates /\ profile' \in ProfileStates
        /\ busy' \subseteq {"save", "logout"} /\ wire' \in [Slots -> Messages]
        /\ page' \in {"closed", "open", "left"}
    BY <1>0, <1>3, Types DEF ShellTypeOK
  <2> QED
    BY <1>1, <1>5, <1>6, <2>1, <2>2, <2>3
       DEF ShellTypeOK, Pasts, ProfileStates, AuthStates, Paths, Messages, Requests, RequestKinds
<1>8. UploadsCounted'
  <2>1. UploadsOut' \subseteq UploadsOut
    BY <1>3 DEF UploadsOut
  <2>2. shellPast'.clicks \in Nat /\ shellPast'.clicks >= shellPast.clicks
    BY <1>0, <1>1, ShellBounds DEF ShellTypeOK
  <2> QED
    BY <1>0, <1>5, <2>1, <2>2, UploadsKept DEF ShellIInv
<1>9. KnownUsers'
  <2>1. /\ auth.user.user \in 0..MaxLogins /\ logins \in 1..MaxLogins
        /\ \A x \in Slots : wire[x].user.user \in 0..MaxLogins
    <3>1. \A x \in Slots : wire[x] \in Messages
      BY <1>0, Types
    <3>2. \A m \in Messages : m.user \in Users
      BY <1>0, Types DEF Messages, Free, Requests
    <3> QED
      BY <1>0, <3>1, <3>2, Types DEF ShellTypeOK, Users
  <2> QED
    BY <1>3, <1>5, <2>1, ShellBounds DEF ShellIInv, KnownUsers
<1>10. /\ BeforeAndAfter' /\ ProfileOnItsPage' /\ FailureKept'
  BY <1>1, <1>3, <1>4 DEF ShellIInv, BeforeAndAfter, ProfileOnItsPage, FailureKept
<1>11. Serial'
  BY <1>1, <1>3 DEF ShellIInv, Serial, OneOnTheWire, InTheUsersName, ProfileNotEarlier
<1> QED
  BY <1>2, <1>7, <1>8, <1>9, <1>10, <1>11 DEF ShellIInv, UpToDate

-----------------------------------------------------------------------------
(* The theorems                                                              *)

\* It holds before the page is opened.
LEMMA ShellInitially == ShellInit => ShellIInv
<1> SUFFICES ASSUME ShellInit PROVE ShellIInv
  OBVIOUS
<1>1. /\ page = "closed" /\ path = "/" /\ profile = Blank /\ busy = {}
      /\ wire = [s \in Slots |-> Free]
      /\ logins = 1 /\ picture = 0
  BY DEF ShellInit
<1>2. callback \in BOOLEAN /\ alive \in BOOLEAN /\ mayRead \in BOOLEAN
  BY DEF ShellInit
<1>3. Nobody \in Users /\ Nobody.user = 0
  BY ShellBounds DEF Nobody, Users
<1>4. auth = [Guest EXCEPT !.loading = TRUE] /\ auth \in AuthStates /\ auth.user = Nobody
      /\ auth.token = 0
  <2>1. auth = [Guest EXCEPT !.loading = TRUE]
    BY DEF ShellInit
  <2>2. Guest \in AuthStates /\ Guest.user = Nobody /\ Guest.token = 0
    BY <1>3, ShellBounds DEF Guest, AuthStates
  <2>3. \A b \in BOOLEAN : LET n == [Guest EXCEPT !.loading = b]
                           IN n \in AuthStates /\ n.user = Guest.user /\ n.token = Guest.token
    BY <2>2 DEF AuthStates
  <2> QED
    BY <2>1, <2>2, <2>3, Zenon
<1>5. Blank \in ProfileStates /\ Blank.shown = Nobody
  BY <1>3 DEF Blank, ProfileStates
<1>6. /\ shellPast \in Pasts /\ shellPast.clicks = 0
  BY ShellBounds DEF ShellInit, Pasts
<1>7. /\ Free \in Messages /\ Free.kind = "none" /\ Free.user = Nobody
      /\ \A s \in Slots : wire[s] = Free
  BY <1>1 DEF Free, Messages
<1>8. ShellTypeOK
  BY <1>1, <1>2, <1>4, <1>5, <1>6, <1>7, ShellBounds
     DEF ShellTypeOK, Pasts, ProfileStates, AuthStates, Paths, Messages, Requests, RequestKinds
<1>9. UploadsCounted
  <2>1. UploadsOut = {}
    BY <1>7 DEF UploadsOut
  <2> QED
    BY <1>1, <1>6, <2>1, FS_EmptySet DEF UploadsCounted
<1>10. BeforeAndAfter /\ KnownUsers
  BY <1>1, <1>3, <1>4, <1>7 DEF BeforeAndAfter, KnownUsers
<1>11. Serial
  BY <1>1, <1>3, <1>4, <1>7 DEF Serial, OneOnTheWire, InTheUsersName, Writes
<1> QED
  BY <1>1, <1>8, <1>9, <1>10, <1>11 DEF ShellIInv, ProfileOnItsPage, UpToDate, FailureKept

\* Every step of the page, of the server and of the other tab preserves it.
LEMMA ShellSteps == ShellIInv /\ TokenHeld /\ [ShellNext]_shellVars => ShellIInv'
<1> SUFFICES ASSUME ShellIInv, TokenHeld, [ShellNext]_shellVars PROVE ShellIInv'
  OBVIOUS
<1>1. ASSUME NEW s \in Slots, NEW p \in Paths, NEW f \in BOOLEAN, OpenPage(s, p, f)
      PROVE  ShellIInv'
  BY <1>1, OpeningKeepsShell
<1>2. ASSUME NEW s \in Slots, Refresh(s) \/ NewTranslator(s)
      PROVE  ShellIInv'
  BY <1>2, RefreshKeepsShell
<1>3. ASSUME NEW s \in Slots, SavePreferences(s) \/ Logout(s) \/ Upload(s)
      PROVE  ShellIInv'
  BY <1>3, WritesKeepShell
<1>4. ASSUME NEW s \in Slots, Navigate(s, "home", "/home") \/ Navigate(s, "profile", "/profile")
      PROVE  ShellIInv'
  BY <1>4, NavigatingKeepsShell DEF Paths
<1>5. ASSUME NEW s \in Slots, HandleMe(s) \/ HandleProfile(s) \/ HandleWrite(s)
      PROVE  ShellIInv'
  BY <1>5, HandlingMeKeepsShell, HandlingProfileKeepsShell, RefusingKeepsShell,
     AcceptingKeepsShell
<1>6. ASSUME NEW s \in Slots, ReceiveMe(s)
      PROVE  ShellIInv'
  BY <1>6, ReceivingUserKeepsShell
<1>7. ASSUME NEW s \in Slots,
             \/ ReceiveProfile(s) \/ ReceiveNoProfile(s) \/ ReceiveUploaded(s)
             \/ ReceiveNotUploaded(s) \/ ReceiveSaved(s) \/ ReceiveNotLoggedOut(s)
             \/ ReceiveLoggedOut(s)
      PROVE  ShellIInv'
  BY <1>7, ReceivingProfileKeepsShell, AskingAgainKeepsShell, ReceivingKeepsShell,
     LeavingKeepsShell
<1>8. ASSUME NEW s \in Slots, Lose(s)
      PROVE  ShellIInv'
  BY <1>8, LosingKeepsShell
<1>9. CASE OtherTabLogsIn \/ SessionEnds
  BY <1>9, ChangeElsewhereKeepsShell
<1>10. CASE UNCHANGED shellVars
  <2>1. /\ page' = page /\ auth' = auth /\ path' = path /\ profile' = profile /\ busy' = busy
        /\ wire' = wire /\ logins' = logins /\ picture' = picture /\ shellPast' = shellPast
    BY <1>10 DEF shellVars, client, server
  <2>2. callback' = callback /\ alive' = alive /\ mayRead' = mayRead
    BY <1>10 DEF shellVars, client, server
  <2>3. User' = User /\ UploadsOut' = UploadsOut
    BY <2>1, <2>2 DEF User, Session, UploadsOut
  <2>4. ShellTypeOK'
    BY <2>1, <2>2 DEF ShellIInv, ShellTypeOK
  <2> QED
    BY <2>1, <2>2, <2>3, <2>4
       DEF ShellIInv, BeforeAndAfter, UploadsCounted, KnownUsers, ProfileOnItsPage,
           Serial, OneOnTheWire, InTheUsersName, ProfileNotEarlier, UpToDate, FailureKept
<1> QED
  BY <1>1, <1>2, <1>3, <1>4, <1>5, <1>6, <1>7, <1>8, <1>9, <1>10
     DEF ShellNext, Answered, Paths

\* The page forgets the token together with the user, and never one without the
\* other.
LEMMA TokenSteps == ShellIInv /\ TokenHeld /\ [ShellNext]_shellVars => TokenHeld'
<1> SUFFICES ASSUME ShellIInv, TokenHeld, [ShellNext]_shellVars PROVE TokenHeld'
  OBVIOUS
<1>0. auth \in AuthStates /\ ShellTypeOK
  BY Types DEF ShellIInv
<1>1. \/ auth' = auth
      \/ \E s \in Slots : auth' = [auth EXCEPT !.loading = TRUE]
      \/ \E u : auth' = [loading |-> FALSE, authenticated |-> u.user # 0, user |-> u, token |-> u.user]
      \/ \E u : auth' = [auth EXCEPT !.user = u]
      \/ auth' = Guest
  <2>1. CASE \E s \in Slots : Refresh(s) \/ NewTranslator(s) \/ ReceiveUploaded(s) \/ ReceiveNoProfile(s)
    BY <2>1 DEF Refresh, NewTranslator, ReceiveUploaded, AfterUpload, ReceiveNoProfile,
       BeginRefresh, Show
  <2>2. CASE \E s \in Slots : ReceiveMe(s)
    BY <2>2, Zenon DEF ReceiveMe, Show
  <2>3. CASE \E s \in Slots : ReceiveSaved(s) \/ ReceiveLoggedOut(s)
    BY <2>3 DEF ReceiveSaved, ReceiveLoggedOut
  <2>4. CASE \E s \in Slots : Navigate(s, "home", "/home") \/ Navigate(s, "profile", "/profile")
    BY <2>4 DEF Navigate, Show
  <2>5. CASE \E s \in Slots :
               \/ \E p \in Paths, f \in BOOLEAN : OpenPage(s, p, f)
               \/ SavePreferences(s) \/ Logout(s) \/ Upload(s)
               \/ HandleMe(s) \/ HandleProfile(s) \/ HandleWrite(s) \/ ReceiveProfile(s)
               \/ ReceiveNotUploaded(s) \/ ReceiveNotLoggedOut(s) \/ Lose(s)
    BY <2>5 DEF OpenPage, SavePreferences, Logout, Upload, HandleMe, HandleProfile, HandleWrite,
       ReceiveProfile, ReceiveNotUploaded, ReceiveNotLoggedOut, Lose, client
  <2>6. CASE OtherTabLogsIn \/ SessionEnds \/ UNCHANGED shellVars
    BY <2>6 DEF OtherTabLogsIn, SessionEnds, shellVars, client
  <2> QED
    BY <2>1, <2>2, <2>3, <2>4, <2>5, <2>6 DEF ShellNext, Answered, Paths
<1>2. CASE auth' = [auth EXCEPT !.loading = TRUE]
  BY <1>0, <1>2 DEF TokenHeld, AuthStates
<1>3. ASSUME NEW u, auth' = [loading |-> FALSE, authenticated |-> u.user # 0, user |-> u, token |-> u.user]
      PROVE  TokenHeld'
  BY <1>3 DEF TokenHeld
<1>4. ASSUME NEW u, auth' = [auth EXCEPT !.user = u]
      PROVE  TokenHeld'
  BY <1>0, <1>4 DEF TokenHeld, AuthStates
<1>5. CASE auth' = Guest
  BY <1>5 DEF TokenHeld, Guest
<1>6. CASE auth' = auth
  BY <1>6 DEF TokenHeld
<1> QED
  BY <1>1, <1>2, <1>3, <1>4, <1>5, <1>6

\* The invariant holds, in whatever order requests are handled and answers come.
THEOREM ShellInvariance == ShellSpec => []ShellIInv
<1>1. ShellInit => TokenHeld
  BY DEF ShellInit, TokenHeld, Guest
<1> QED
  BY <1>1, ShellInitially, ShellSteps, TokenSteps, PTL DEF ShellSpec

\* Every variable keeps its type: at most one count of pictures a click.
THEOREM ShellTypeCorrect == ShellSpec => []ShellTypeOK
<1>1. ShellIInv => ShellTypeOK
  BY DEF ShellIInv
<1> QED
  BY <1>1, ShellInvariance, PTL

\* The profile page never shows an earlier user's profile (App.jsx's ProfilePage
\* fetches when it appears, and a fetch of the auth state takes it away).
THEOREM ProfilesAreNotEarlier == ShellSpec => []NeverAnEarlierProfile
<1>1. ShellIInv => NeverAnEarlierProfile
  <2> SUFFICES ASSUME ShellIInv, profile.shown # Nobody, ~shellPast.overlapped
               PROVE  profile.shown.user >= auth.user.user
    BY DEF NeverAnEarlierProfile
  <2>1. CASE page = "open"
    BY <2>1 DEF ShellIInv, Serial, ProfileNotEarlier
  <2>2. CASE page = "left"
    <3>1. auth.user.user = 0
      BY <2>2 DEF ShellIInv, BeforeAndAfter, Guest, Nobody
    <3>2. profile.shown.user \in Nat
      BY DEF ShellIInv, ShellTypeOK, Users
    <3> QED
      BY <3>1, <3>2
  <2>3. CASE page = "closed"
    BY <2>3 DEF ShellIInv, BeforeAndAfter, Blank
  <2> QED
    BY <2>1, <2>2, <2>3 DEF ShellIInv, ShellTypeOK
<1> QED
  BY <1>1, ShellInvariance, PTL

\* At rest the page and the server agree on the user and on his picture.
THEOREM RestIsUpToDate == ShellSpec => []AtRestAgrees
<1>1. ShellIInv => AtRestAgrees
  BY DEF ShellIInv, UpToDate, AtRestAgrees, Quiet, Free
<1> QED
  BY <1>1, ShellInvariance, PTL

\* Who comes from a failed login and stays reads why.
THEOREM FailuresAreShown == ShellSpec => []FailureIsShown
<1>1. ShellIInv => FailureIsShown
  BY DEF ShellIInv, FailureKept, FailureIsShown, Quiet, IsIntro
<1> QED
  BY <1>1, ShellInvariance, PTL

\* Only the server answers: what the page sends is new, and what it shows leaves
\* the answers of the requests it had sent as they are.
LEMMA ShowingAnswersNothing ==
  ASSUME ShellTypeOK, NEW a \in AuthStates, NEW p \in Paths, NEW w \in [Slots -> Messages],
         NEW s \in Slots, Show(a, p, w, s), NEW x \in Slots, wire'[x].at = "back"
  PROVE  w[x].at = "back"
<1>1. Request("profile").at = "out"
  BY RequestFacts DEF RequestKinds
<1> QED
  BY <1>1, ShowFacts

\* The page asks who its user is, and answers nothing by that.
LEMMA AskingAnswersNothing ==
  ASSUME ShellTypeOK, NEW s \in Slots, BeginRefresh(s), NEW x \in Slots, wire'[x].at = "back"
  PROVE  wire[x].at = "back"
<1> DEFINE a == [auth EXCEPT !.loading = TRUE]
           w == Put(s, Request("me"))
<1>1. a \in AuthStates
  <2>1. \A b \in BOOLEAN : [auth EXCEPT !.loading = b] \in AuthStates
    BY Types DEF AuthStates
  <2> QED
    BY <2>1
<1>2. Request("me") \in Messages /\ Request("me").at = "out"
  BY RequestFacts DEF RequestKinds, Messages
<1>3. w \in [Slots -> Messages] /\ w[s].at = "out" /\ \A y \in Slots \ {s} : w[y] = wire[y]
  BY <1>2, PutFacts
<1>4. Show(a, path, w, s)
  BY DEF BeginRefresh
<1> HIDE DEF a, w
<1>5. w[x].at = "back"
  BY <1>1, <1>3, <1>4, Types, ShowingAnswersNothing
<1> QED
  BY <1>3, <1>5

\* A request is answered by the handler of its kind only.
LEMMA HandlersAnswer ==
  ASSUME ShellIInv, [ShellNext]_shellVars, NEW q \in Slots, wire[q].at = "out",
         wire'[q].at = "back"
  PROVE  HandleMe(q) \/ HandleProfile(q) \/ HandleWrite(q)
<1>0. /\ ShellTypeOK /\ Free \in Messages /\ Free.at = "none"
      /\ \A s \in Slots, m \in Messages :
            Put(s, m)[s] = m /\ \A x \in Slots \ {s} : Put(s, m)[x] = wire[x]
  BY PutFacts DEF ShellIInv, Free, Messages
<1>1. \A kind \in RequestKinds : Request(kind) \in Messages /\ Request(kind).at = "out"
  BY <1>0, RequestFacts DEF Messages
<1>2. page # "closed"
  BY <1>0 DEF ShellIInv, BeforeAndAfter
<1>3. ASSUME NEW s \in Slots, Refresh(s) \/ NewTranslator(s) \/ ReceiveUploaded(s)
                                \/ (ReceiveNoProfile(s) /\ AsksWho(s))
      PROVE  FALSE
  <2>1. BeginRefresh(s)
    BY <1>3 DEF Refresh, NewTranslator, ReceiveUploaded, AfterUpload, ReceiveNoProfile
  <2> QED
    BY <1>0, <2>1, AskingAnswersNothing
<1>4. ASSUME NEW s \in Slots, NEW m \in Messages, m.at # "back", wire' = Put(s, m)
      PROVE  FALSE
  BY <1>0, <1>4
<1>5. ASSUME NEW s \in Slots, SavePreferences(s) \/ Logout(s) \/ Upload(s)
      PROVE  FALSE
  <2>1. \E kind \in RequestKinds : wire' = Put(s, Request(kind))
    BY <1>5 DEF SavePreferences, Logout, Upload, RequestKinds
  <2> QED
    BY <1>1, <1>4, <2>1
<1>6. ASSUME NEW s \in Slots, NEW control, NEW p \in Paths, Navigate(s, control, p)
      PROVE  FALSE
  BY <1>0, <1>6, Types, ShowingAnswersNothing DEF Navigate
<1>7. ASSUME NEW s \in Slots, ReceiveMe(s)
      PROVE  FALSE
  <2> DEFINE u == IF wire[s].at = "back" THEN wire[s].user ELSE Nobody
             a == [loading |-> FALSE, authenticated |-> u.user # 0, user |-> u,
                   token |-> u.user]
  <2>1. Show(a, path, Put(s, Free), s)
    BY <1>7 DEF ReceiveMe
  <2>2. u \in Users
    <3>1. wire[s] \in Requests
      BY <1>0, <1>7, Types, RequestTyped DEF ReceiveMe, Arrived, RequestKinds
    <3> QED
      BY <1>0, <3>1, Types DEF Requests
  <2>3. a \in AuthStates
    <3>1. u.user \in 0..MaxLogins /\ (u.user # 0) \in BOOLEAN
      BY <2>2 DEF Users
    <3> HIDE DEF u
    <3> QED
      BY <2>2, <3>1 DEF AuthStates
  <2>4. Put(s, Free) \in [Slots -> Messages]
    BY <1>0, PutFacts
  <2> HIDE DEF a
  <2>5. Put(s, Free)[q].at = "back"
    BY <1>0, <2>1, <2>3, <2>4, Types, ShowingAnswersNothing
  <2> QED
    BY <1>0, <2>5
<1>8. ASSUME NEW s \in Slots,
             \/ ReceiveProfile(s) \/ (ReceiveNoProfile(s) /\ ~AsksWho(s))
             \/ ReceiveNotUploaded(s) \/ ReceiveSaved(s) \/ ReceiveNotLoggedOut(s)
             \/ ReceiveLoggedOut(s)
      PROVE  FALSE
  <2>1. wire' = Put(s, Free)
    BY <1>8 DEF ReceiveProfile, ReceiveNoProfile, ReceiveNotUploaded, ReceiveSaved,
       ReceiveNotLoggedOut, ReceiveLoggedOut
  <2> QED
    BY <1>0, <1>4, <2>1
<1>9. ASSUME NEW s \in Slots, HandleMe(s) \/ HandleProfile(s) \/ HandleWrite(s)
      PROVE  s = q
  <2>1. \A x \in Slots \ {s} : wire'[x] = wire[x]
    <3>1. wire \in [Slots -> Messages]
      BY <1>0, Types
    <3>2. ASSUME NEW at, NEW u, wire' = [wire EXCEPT ![s].at = at, ![s].user = u]
          PROVE  \A x \in Slots \ {s} : wire'[x] = wire[x]
      BY <3>1, <3>2
    <3>3. CASE HandleMe(s) \/ HandleProfile(s)
      BY <3>2, <3>3 DEF HandleMe, HandleProfile, Answer
    <3>4. CASE HandleWrite(s)
      BY <3>2, <3>4 DEF HandleWrite, Answer
    <3> QED
      BY <1>9, <3>3, <3>4
  <2> QED
    BY <2>1
<1>10. ASSUME NEW s \in Slots, Lose(s)
       PROVE  FALSE
  <2>1. wire' = [wire EXCEPT ![s].at = "lost", ![s].user = Nobody]
    BY <1>10 DEF Lose, Answer
  <2>2. wire \in [Slots -> Messages] /\ wire[s] \in Requests
    <3>1. wire \in [Slots -> Messages] /\ wire[s].at # "none"
      BY <1>0, <1>10, Types DEF Lose
    <3> QED
      BY <1>0, <3>1 DEF Messages
  <2>3. wire'[q] = wire[q] \/ wire'[q].at = "lost"
    BY <2>1, <2>2 DEF Requests
  <2> QED
    BY <2>3
<1>11. ASSUME OtherTabLogsIn \/ SessionEnds \/ UNCHANGED shellVars
       PROVE  FALSE
  BY <1>11 DEF OtherTabLogsIn, SessionEnds, shellVars
<1>12. ASSUME NEW s \in Slots, NEW p, NEW f, OpenPage(s, p, f)
       PROVE  FALSE
  BY <1>2, <1>12 DEF OpenPage
<1> QED
  BY <1>3, <1>5, <1>6, <1>7, <1>8, <1>9, <1>10, <1>11, <1>12 DEF ShellNext, Answered, Paths

\* No step changes an account other than the one the page named when its user
\* clicked: the token told apart whose click it was.
THEOREM WritesAreForTheUserShown == ShellSpec => ActsForTheUserShown
<1> DEFINE For(s) == (\/ logins' = logins /\ <<alive, picture>>' # <<alive, picture>>
                      \/ wire[s].kind = "save" /\ wire'[s].at = "back")
                        /\ wire[s].at = "out" /\ wire'[s].at = "back" /\ ~shellPast.overlapped
                     => wire[s].by = Session
<1>1. ShellIInv /\ [ShellNext]_shellVars => \A s \in Slots : For(s)
  <2> SUFFICES ASSUME ShellIInv, [ShellNext]_shellVars, NEW q \in Slots,
                      wire[q].at = "out", wire'[q].at = "back", ~shellPast.overlapped,
                      \/ logins' = logins /\ <<alive, picture>>' # <<alive, picture>>
                      \/ wire[q].kind = "save"
               PROVE  wire[q].by = Session
    OBVIOUS
  <2>1. HandleWrite(q)
    <3>1. ~HandleMe(q) /\ ~HandleProfile(q)
      BY DEF HandleMe, HandleProfile, server
    <3> QED
      BY <3>1, HandlersAnswer
  <2>2. Accepted(q)
    <3> SUFFICES ASSUME ~Accepted(q) PROVE FALSE
      OBVIOUS
    <3> DEFINE at == IF alive THEN "403" ELSE "401"
    <3>1. wire' = [wire EXCEPT ![q].at = at, ![q].user = Nobody] /\ at \in {"401", "403"}
      BY <2>1 DEF HandleWrite, Answer
    <3>2. wire \in [Slots -> Messages] /\ wire[q] \in Requests
      BY <2>1, Types, RequestTyped DEF ShellIInv, HandleWrite, RequestKinds
    <3> HIDE DEF at
    <3>3. wire'[q].at = at
      BY <3>1, <3>2 DEF Requests
    <3> QED
      BY <3>1, <3>3
  <2>3. wire[q].by = wire[q].token
    BY <2>1 DEF HandleWrite, Writes, ShellIInv, Serial, InTheUsersName
  <2> QED
    BY <2>2, <2>3 DEF Accepted
<1> QED
  BY <1>1, ShellInvariance, PTL DEF ShellSpec, ActsForTheUserShown
=============================================================================
