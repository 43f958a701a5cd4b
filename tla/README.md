# Verification of the auth console

TLA+ models of the auth console in `src/`: a FastAPI backend-for-frontend that
logs users in through Keycloak, keeps sessions, rate limits and a job queue in
Redis and profiles and entities in PostgreSQL; a worker process; and a React
page, and the theme of Keycloak's login pages. TLC checks the models on small
instances, and TLAPS proves every safety property that passing runs check, and
the refinement of the job ledger, for every value of the constants.

Contents: [parts of the system](#1-the-system) ·
[modules](#2-the-modules) · [how the code is abstracted](#3-how-the-code-is-abstracted) ·
[runs and bounds](#4-the-runs) · [where code and documents disagree](#5-where-code-and-documents-disagree) ·
[fairness](#6-fairness) · [proofs](#7-the-proofs) · [limits and plan](#8-what-is-not-here-and-what-comes-next)

Every definition that models code has an entry in `PROJECT.json` ("map") with
the lines it stands for. To run: `tlc -config MCJobQueue_safety.cfg MCJobQueue`,
`tlapm JobQueueProofs.tla`.

## 1. The system

| part | code (`src/`) | state | operations | correct when |
|---|---|---|---|---|
| background jobs | `backend/app/services/job_queue.py`, `worker.py`, `job_executor.py`, `api/routers/jobs.py` | Redis: a list, a sorted set of delayed jobs, a list of dead letters; each worker's memory | enqueue, promote due jobs, dequeue, execute, retry with backoff, dead-letter | a job is never duplicated, not run more often than allowed nor before its time, and never silently dropped |
| rate limits, brute-force block | `services/rate_limit.py`, `stores/redis_store.py`, `main.py` | Redis: a counter with an end per scope and client; a block per client | consume, register a failure, clear | limits hold under overlapping requests, tell the truth about waiting, and end |
| OIDC login | `api/routers/auth.py`, `services/keycloak_oidc.py`, `core/security.py` | Redis: login states; Keycloak: codes | start, callback | one session per login, only for a login that was started here |
| sessions, cookies, CSRF | `services/sessions.py`, `api/deps.py`, `core/security.py` | Redis: one payload per session; a signed cookie | create, read and prolong, write back, delete | a session lives from login to logout or expiry |
| preferences | `api/routers/profile.py`, `stores/user_store.py`, `domain/preferences.py` | Keycloak attribute, session payloads, row of `app_users` | change, mirror at login | the copies agree, none runs ahead of Keycloak |
| profile pictures | `services/media.py`, `api/routers/profile.py`, `job_executor.py` | files, URL in the session, metadata file | upload, look up at login, image job | URL, file and metadata belong together |
| web client | `frontend/src/App.jsx`, `api.js` | auth state, route, profile page and preferences, requests in flight | fetch, choose, save, navigate, upload, log out | the page shows what the server has, acts for the user it names, and comes to rest |
| login theme | `frontend/keycloak-theme/src/login`, `public/login/js` | hidden fields, steps, timers of a page; the browser's cookies | submit, follow, passkeys, look for another tab's session | a page reports what was rejected and has a way on; what the user sent is not replaced; a form is sent complete |
| entity store | `stores/entity_store.py`, `api/routers/entities.py` | tables generated from a model | create, read, list, update, delete (soft) | what is deleted stays so, a walk misses nothing |
| entity model, generator | `entities/model.py`, `scripts/generate_entities.py` | none | load, validate, generate DDL | a model that is accepted has tables |
| authorization | `core/authorization.py` | none | roles to permissions | pure function |
| activity log, notifications, errors, configuration | `services/activity_logger.py`, `notifications/`, `core/errors.py`, `core/config.py` | append-only table; none | append; render and send; format; validate | |

**Interaction.** Everything the handlers share lives in Redis, PostgreSQL,
Keycloak and on the disk; the handlers are coroutines that give way at every
call to one of these. A request first reads its session and consumes the global
limit (the middleware of `main.py`), then runs its handler on the copy of the
session it read. An upload and the `/jobs` endpoints enqueue jobs that the
worker, a process of its own, executes. The page calls the backend with
requests that nothing serialises. The login theme lives on Keycloak's side: it
posts to Keycloak, whose answer leads back to `/auth/callback`.

**Hard behaviours.** Two commands where one would be needed (INCR and EXPIRE,
GET and DELETE, ZREM and RPUSH); a copy of the session read at the beginning
and written back at the end; three stores written one after the other without
a transaction; workers that die with a job in memory; several workers on one
sorted set, with batches read long ago; answers that are lost after the deed
was done; requests and answers that overtake each other; an effect in the page
that depends on what it changes; two scripts that want the one passkey dialog of
a browser; a timer that fires between a submission and its effect; a form that
is submitted from outside its button. `PROJECT.json` lists these hazards ("hazards"),
each at its line with the properties that watch it, or the reason why none does.

## 2. The modules

| module | models | state and actions |
|---|---|---|
| `JobLedger` | what the job subsystem promises: the abstract specification | the condition, attempts and limit of each job |
| `JobQueue` | queue and workers, one Redis command per action | `queue`, `delayed`, `dead` are the three Redis keys; `pc`, `batch`, `hand` the loop of `run_worker` and what each worker has in memory: the rest of the batch it goes through and the envelope nobody else has |
| `RateLimit` | `consume_rate_limit` for one key | `count` and `ttl` are the key; `pc`, `current` the requests in progress; `recent[i]` the requests served in the last `i` seconds |
| `LoginFlow` | `/auth/login` and `/auth/callback`, block and failure counter | `states`, `failures`, `blocked` are keys in Redis, `counterEnds` whether the failure counter has an end, `code` what Keycloak knows, `appUsers` and `sessions` what the callback leaves behind, `pc` and `found` the calls in progress |
| `AccountState` | the end of a login, preference changes, uploads, logouts, expiry, for one user | `keycloak`, `session`, `appUser`, `picture` are the four stores; `pc`, `sid`, `copy`, `next` the calls in progress with the payload each has read |
| `WebClient` | auth state and preferences of the page | `page`, `auth`, `fetchedFor` are React state and the language the effect last ran for; `wire` the requests and answers on their way; `stored`, `session` a server reduced to what the page can see |
| `AppShell` | the page around the preferences | `auth`, `path`, `callback`, `profile`, `busy` are React and router state; `wire` the requests and answers on their way; `logins`, `alive`, `picture`, `mayRead` the server; `Show` is a change of state with its render, its redirects and the effect of the profile page |
| `WebAuthn` | the three passkey scripts and the six kinds of page that load them | `passkey` is the page Keycloak served and the browser; `shown` the parts on screen; `calls` the browser's WebAuthn calls with the `AbortController` of `signal()`; `fields`, `posted` the hidden form |
| `ThemePages` | 35 of the 38 pages of the theme (passkeys have their own), template, `authChecker.js` | `tab` is the page and what Keycloak says of it: one operator per page gives its controls, whether the message may appear, and the fields that tell their errors; `form` how far the registration's form is; `poll`, `check` are the two timers; `leaving` where the browser was sent last; `iframeLoadCount` what the page of a front-channel logout counts |
| `RegisterForm` | the registration in steps, with terms and reCAPTCHA | `step`, `accepted`, `values` are React state; `widget`, `answer` reCAPTCHA |
| `EntityStore` | one generated entity, and a client that walks through its list | `table`, `inserting` are rows committed and not; `walk` the client's offset and what it has seen |
| `AvatarPipeline` | the files of a user's picture | `files`, `digests` are the pictures and the metadata on the disk, per extension; `uploads` how far each upload is; `jobs`, `worker` the image jobs with their attempts and what the worker has read |
| `MCParts` | those six for TLC | `part` chooses the one that a behaviour is about |
| `MCx` | instances of module `x` for TLC | sets of requests, symmetry, and for `AccountState` a view that forgets the registers of idle calls; `RateLimit` is checked as it is |
| `JobQueueProofs`, `JobQueueLedgerProofs`, `RateLimitProofs`, `LoginFlowProofs`, `AccountStateProofs`, `WebClientProofs`, `AppShellProofs` | theorems about the module they are named after | |
| `PartsProofs` | theorems about `WebAuthn`, `ThemePages`, `RegisterForm`, `EntityStore`, `AvatarPipeline` and `MCParts` | |

The modules are joined by what they share: `LoginFlow` ends where
`AccountState` begins (`BeginLogin`, `MirrorLogin` and `OpenSession` are the
stages *userinfo*, *sync* and *create* of `LoginFlow`, there seen from the
login, here from the stores; `AccountState` has a user whose claims name a
subject, `LoginFlow` also one without, who gets a session and no row); a request that `RateLimit` refuses never reaches
`LoginFlow`; `HandleSave` of `WebClient` is the whole of a preference change of
`AccountState`; its `StorePicture` and `AttachPicture` are the upload of
`AvatarPipeline`, whose image jobs go through `JobQueue`; `NewTranslator` of
`AppShell` is the fetch that a new language triggers in `WebClient`; the control
*passkey* of `ThemePages` is a page of `WebAuthn`, and its page *register* the
form of `RegisterForm`, whose `EnterOnEarlyStep` is `EnterEarly` there. The six
modules of `MCParts` share no variable: a behaviour of it moves one of them and
leaves the others at rest, so each of its properties is about one part.

`JobQueue` implements `JobLedger`: `Status` reads a job's condition off the
place where its only copy is, and the run `queue_safety` checks the refinement.

Names ending in `Fault` are wrong variants of the definition that follows them
("the answer of ZREM is ignored"). No specification uses them; each is there to
show that the property named with it in `PROJECT.json` ("mutants") notices such
a mistake.

## 3. How the code is abstracted

- **An action is one command** to Redis, Keycloak, PostgreSQL or the disk, with
  the local computation next to it. This is where coroutines give way, so
  other handlers and workers interleave there and nowhere else. A handler stops
  between any two actions when its process dies; a command can fail without
  effect, or have its effect and lose its answer.
- **Keys that expire** do so at any time after they were written, except in
  `RateLimit`, which is about that time and counts whole seconds. (Redis itself
  rounds the answer of TTL to the nearest second; properties of `RateLimit`
  about waiting are to be read up to this half second.)
- **Redis, PostgreSQL and Keycloak** keep what they answered for. A Redis that
  loses its data when it restarts is not modelled.
- **Envelopes** keep id, attempt and limit; type, payload, time stamps and the
  last error are left out. The real member of the sorted set is the JSON text;
  two envelopes of one job differ in `attempt`, so the record identifies a
  member as the text does.
- **Executors** succeed or raise. What a job did outside before it raised is
  done again by the retry; only the number of attempts is promised.
- **PKCE, state and code** are the pairing of a call with one login: Keycloak
  takes a code once, and only with the verifier of its login.
- **Claims** name a subject or not (`Unnamed`): `_sync_app_user_record` writes no
  row for a login without one, and its session is created all the same.
- **Keycloak's account** is the preferences attribute alone, and the fetch and
  the put of `update_web_preferences` are one step; that this can undo a change
  of another attribute is listed as a hazard. The default stands for an
  attribute that is absent, as `extract_web_preferences` has it.
- **Preferences** are values told apart, in `WebClient` a language and a theme.
  Tokens appear only as the one refresh after a 401.
- **In the browser** a step is an event with all it does before it gives way:
  handlers, renders and effects. `AppShell` has one fetch of the profile at a
  time per appearance of its page, and answers that come after it are dropped,
  as the effect's clean-up has it. Another tab shares the cookies.
- **A page of the theme** is the controls it renders and the errors it can show,
  for every combination of what Keycloak may say of it, so far as it asks; its
  markup, wording and styles are left out. Navigation takes time: until the
  browser leaves (`Leave`), later submissions and redirects replace earlier ones.
- **PostgreSQL** runs a statement at once; a creation has two steps, since its
  `created_at` is the beginning of its transaction. Rows of one instant may come
  in any order, differently each time.
- **The disk** is used by one backend process, whose handlers do not give way
  between unlinking and writing, and by one worker (`container_name` in
  `docker-compose.yml`). Image jobs run in any order, since retries are delayed.
  The job reads the picture, opens its metadata and fills them; each of these
  may fail, and the job is retried and, after its last attempt, buried.
- **The activity log** is left out: `log_event` swallows its own failures, and
  no handler reads it. So are CSRF and permission checks, pure tests of the
  session that was read.

## 4. The runs

Passing runs, with distinct states:

| run | instance | shows |
|---|---|---|
| `queue_safety` (232 000) | 2 workers, 2 jobs, limits absent (3), 1 and −1, delays −1, 0 and 2, batches of 2, 1 crash | `SingleCopy`, `AttemptAccounting`, `NoEarlyPromotion`, `LostOnlyWithItsWorker`, and that `JobQueue` implements `JobLedger`, also at the odd limits and delays the API lets through |
| `queue_liveness` (23 000) | the same with limit 2, delays 0 and 1, batches of 1 | every accepted job is eventually done, buried, or lost with the worker that held it |
| `rate_limits` (100 000) | 3 overlapping requests, limit 2, window 2 s, 1 request given up | no 2 consecutive seconds see more than 4 requests served; waiting as long as told is enough; being limited ends, also for a client that never stops asking, unless the window was never given its end |
| `login_callback` (592 000) | 2 logins, one with a subject in its claims and one without, 3 calls of the callback, 2 faults | one session per login; its state and code are used up and its user, if the claims name one, is in `app_users`; a late replay finds nothing; without faults a login whose callback was called, once or several times at once, gets its session |
| `account_stores` (1 140 000) | 2 sessions, 2 overlapping calls of any kind, 2 changes, 1 upload, failures anywhere | no store shows what its source never had; calls one after the other keep the copies equal |
| `client_page` (480 000) | 3 requests on the wire, 2 choices or refreshes, 1 loss | a signed-in page at rest shows the server's language; the page comes to rest |
| `parts` (730 000) | see below | the properties of the six parts |

`parts` has, for each part (the states of the parts add up):

| part | instance | properties |
|---|---|---|
| `AppShell` | 2 logins, 2 requests on the wire, 2 clicks, 1 loss | `NeverAnEarlierProfile`, `ActsForTheUserShown`, `AtRestAgrees`, `FailureIsShown`, `ComesToRest`: the page shows the profile of the user it names, writes for him only, and a failed login stays explained |
| `WebAuthn` | 2 presses of the button, every kind of page and of browser | `OneCallPending`, `CancellationIsSilent`, `PasskeyWayOn` |
| `ThemePages` | every page, every subset of its flags and errors, 2 submissions, 2 clients to log out | `ErrorShown`, `PageWayOn`, `SubmissionNotReplaced`, `LoginElsewhereFollowed`, `LogoutReachesAll` |
| `RegisterForm` | 5 user profiles (2 or 3 steps; text, list, checkboxes, hidden), up to 3 values, with and without terms, both forms of reCAPTCHA | `SentComplete` |
| `EntityStore` | 3 records, one unique value and null, pages of 1, 2 instants | `NoRecordSkipped`, `DeletedIsFinal` |
| `AvatarPipeline` | 2 extensions, 3 uploads, jobs of 2 attempts, 3 faults (disk under upload or job, queue, or crash of the worker) | `PictureSettled`: a login finds the last picture that was written, and its metadata describe it once the jobs are done, unless one was lost or buried |

**Why the bounds are enough.** `queue`: every race needs two workers at one
entry and one job that comes back; two jobs give batches an order and let a
batch go stale, three attempts let a job return twice, and one crash reaches
every place where something is held in memory. `rate`: three requests overlap
around the border of two windows; above the limit all counts behave alike, so
the counter saturates. `login`: two calls race for one state, a third replays
it later, and a second login shares counter and block with the first; two
faults cover a lost answer followed by a crash. `account`: the conflicts are
between two handlers, and a second session shows what the first cannot see.
`client`: two saved choices and two fetches can overtake each other in all
ways. `AppShell`: a race there is between two requests, or a request and the
other tab. `WebAuthn`: the autofill and two presses are the two reasons for a
call, each cancelling the other. `ThemePages`: the second submission tells a
locked button from an open one, the second client a counter from a set.
`RegisterForm`: three values make an order and leave two after a removal.
`EntityStore`: three records and pages of one make every shift of an offset
happen. `AvatarPipeline`: one upload is to be replaced, one replaces it under the
other extension, and the third returns to the first extension while jobs of
both are under way; each of the three may fail, and two attempts with three
faults are a job that is retried and one that is buried. Bounds are constants called `Max...` (crashes, faults, choices, uploads,
updates, failures, clicks, logins, taps, posts, values, records, time) and `Slots`; they stand in guards of the environment and of
the user, never of the program, except that the page waits for a free slot.

Deadlock is checked for the job queue and the rate limiter. It is switched off
where an instance comes to an end: each login, call and session is used once,
and a user may stop choosing or leave a page.

## 5. Where code and documents disagree

Five runs check a sentence that a document, an assertion or the page itself says
and find it violated:

| run | the sentence | what happens |
|---|---|---|
| `rate_lost_expiry` | "Too many login requests. Please try again shortly." (`dictionaries/en.js:21`) | the process dies between INCR and EXPIRE; the counter never ends, and once over the limit the client is refused for good |
| `login_replay` | "Callback `state` values are one-time; replaying callback URLs returns an invalid/expired state error." (`README.md:175`) | two overlapping calls read the state before either deletes it; both pass, and it is Keycloak's one-time code that stops the second (`OneSessionPerLogin` holds), with another error |
| `account_logout` | "`/auth/logout` enforces CSRF, clears session/cookies" (`docs/CODE_STRUCTURE.md:129`) | a change or an upload that read the session before the logout writes it back after it |
| `client_guest` | "Preferences applied locally." (`dictionaries/en.js:99`) | a guest's choice of language triggers a fetch whose answer puts the default back |
| `theme_terms` | `assert(kcContext.pageId === "select-authenticator.ftl")` (`login/pages/terms/Page.tsx:9`) | `PageIndex.tsx:69` renders that component for `terms.ftl`: it throws, and who must accept the terms sees nothing |

More weaknesses show as conditions of properties that hold, since no
document promises better. `CopiesAgree` needs calls that do not overlap: two
changes can reach Keycloak in one order and `app_users` in the other, and a
login can mirror what it fetched before a change. `LanguageAgrees` is about the
language only: when the answers to two changes overtake each other, a wrong
language makes the page ask again, a wrong theme stays. The others, by part:

- *page* (`AppShell.shellPast.overlapped`): two fetches at once change the user
  in place under a mounted profile page; the answer to a choice that arrives
  after the session is gone names a user on a guest's page (`App.jsx:309`); the
  profile menu stays enabled while saving and logging out; after another tab
  has logged in, this tab's token is refused until it asks again; the message
  about an upload goes with the page that the refresh takes down.
- *passkeys*: without WebAuthn the report is overwritten by that of reading an
  undefined result (`webauthnAuthenticate.js:60`); a press before the autofill
  has begun is cancelled by it and its cancellation posted, and so is the first
  of two presses on the page that goes on listening (`CancellationIsSilent`
  names both); a used button with no passkeys, and the passkeys page of a realm
  without passwords, leave the user nothing (`PasskeyWayOn`).
- *pages*: the page to reset an OTP has no place for the error of its field,
  and pages that hide the username hide its error (`ErrorShown`); the
  registration opens at its first step, hides the errors of the fields of other
  steps with them and shows the message only for an error called *global*, so
  a rejected password may be told on a later step only (`ErrorShown` names it);
  a button that disabled itself stays so when the load is stopped
  (`PageWayOn`); Enter on an early step of the registration stops the look for another tab's session for
  good; a frame of a front-channel logout that loads twice counts for another
  client (`LogoutReachesAll`); the reload of `checkAuthSession` may replace a
  submission (only its redirect is excluded by `SubmissionNotReplaced`).
- *registration*: reCAPTCHA looks for its widget once, and the widget is on the
  last step only, so it is often unbound and is again after a step back; its
  callback submits past the disabled button (`SentComplete` excludes a form
  that was edited meanwhile).
- *entities*: a unique value of a deleted record stays taken, and the integrity
  error of using it again is caught by no handler; a walk skips records after a
  deletion and among records of one instant (`NoRecordSkipped` names both).
- *pictures*: on a full disk the old picture is gone and a login finds the part
  of the new one that was written, or, if nothing was, one still older that
  could not be removed before (`PictureSettled` names both); when the session cannot be saved after the
  file was, no job is enqueued and the picture stays without metadata; a job
  that is buried leaves the metadata missing, cut, or of an older picture; a job
  that read a picture before it was replaced writes its metadata beside a name
  that may be gone, or describe another picture until the later job has run.

## 6. Fairness

Weak fairness of single actions or of one actor's steps, and only where the
code and its deployment keep going by themselves:

- *workers* (`JobQueue`): each call to Redis or to an executor has a time-out
  or ends; `docker-compose.yml` restarts a worker that exits
  (`restart: unless-stopped`). Nothing is assumed of crashes but that a
  behaviour has finitely many, nor of clients.
- *time* passes (`JobQueue`, `RateLimit`).
- *requests* that were received are served to their end (`RateLimit`,
  `LoginFlow`): calls to Keycloak go through an HTTP client with a time-out. A
  client owes nothing: it may never come back, or never stop asking.
- *the page* (`WebClient`): React runs a due effect, requests are answered or
  fail. The user owes nothing.
- *the shell* (`AppShell`, `ShellFairness`): a request that was sent is handled
  and its answer taken, as above. *The theme* (`ThemePages`, `ThemeFairness`): the
  timer of a page fires while the page is there.

## 7. The proofs

Each theorem is about a module's specification with its constants left open:
any sets of workers, jobs, requests, calls, sessions, clients or slots, and any
limits, windows, batch sizes and bounds that the named assumptions allow. The
assumptions say what the settings accept (`SettingsAssumption`,
`LimitAssumption`), that bounds are numbers, and that the values which stand for
"none" are no jobs, logins or preferences; beyond these only that there is an
id for a first session (`SessionsAssumption`), that a page of a walk has a
length (`StoreAssumption`), that a realm has finitely many clients
(`PagesAssumption`), and that a user profile is made of the attributes the
model knows (`ProfilesAssumption`).

| module | theorems | property |
|---|---|---|
| `JobQueue` | `TypeCorrect`, `NeverDuplicated`, `AttemptsAreCounted`, `NeverEarly`, `NoOtherLoss`, `Refinement` | `TypeOK`, `SingleCopy`, `AttemptAccounting`, `NoEarlyPromotion`, `LostOnlyWithItsWorker`, `ImplementsLedger` |
| `RateLimit` | `TypeCorrect`, `RetryAfterIsHonest`, `TwiceTheLimitAtMost` | `TypeOK`, `RetryAfterHonest`, `AtMostTwiceTheLimit` |
| `LoginFlow` | `TypeCorrect`, `LoginGivesOneSession`, `SessionsAreSound`, `ReplaysFindNothing` | `TypeOK`, `OneSessionPerLogin`, `SessionSound`, `LateReplayFindsNothing` |
| `AccountState` | `TypeCorrect`, `NeverAhead`, `CopiesAlwaysAgree` | `TypeOK`, `NothingAheadOfItsSource`, `CopiesAgree` |
| `WebClient` | `TypeCorrect`, `LanguageHeals` | `TypeOK`, `LanguageAgrees` |
| `AppShell` | `ProfilesAreNotEarlier`, `RestIsUpToDate`, `FailuresAreShown`, `WritesAreForTheUserShown` | `NeverAnEarlierProfile`, `AtRestAgrees`, `FailureIsShown`, `ActsForTheUserShown` |
| `WebAuthn` | `OneCallAtATime`, `CancellationsAreSilent`, `PasskeysHaveAWayOn` | `OneCallPending`, `CancellationIsSilent`, `PasskeyWayOn` |
| `ThemePages` | `ErrorsAreShown`, `PagesHaveAWayOn`, `LogoutsReachAll`, `SubmissionsStay` | `ErrorShown`, `PageWayOn`, `LogoutReachesAll`, `SubmissionNotReplaced` |
| `RegisterForm` | `FormsAreSentComplete` | `SentComplete` |
| `EntityStore` | `WalksAreComplete`, `DeletionIsFinal` | `NoRecordSkipped`, `DeletedIsFinal` |
| `AvatarPipeline` | `PicturesSettle` | `PictureSettled` |
| `MCParts` | `PartsTypeCorrect`, by the type theorems of the six parts | `PartsTypeOK` |

`PartsAreTheirOwn` says that a behaviour of `MCParts` is one of each part, so
the theorems about the parts hold of what the run `parts` checks.

Few of these properties are inductive. Each component has an invariant that is
(`IInv`, `ShellIInv`, `PasskeyIInv` and so on, in the component's module, with
the theorem `...Invariance`); TLC confirmed each on the instances of section 4
before it was proved, one lemma per action. What they add, and why it is needed:

- **`JobQueue`**: `IInv == TypeOK /\ SingleCopy /\ AttemptAccounting /\
  KnownSubmitted /\ StaleBatchOK`. A worker may hold a batch it read long ago,
  and if the envelope in it equalled a later one of the same job, ZREM would
  take a job that is running or not yet due. `StaleBatchOK` says what is still
  true of such an entry: its attempt is at most the number of executions so
  far, a job that is being executed has gone beyond it, and if the same
  envelope is in the sorted set now, it is due. It rests on `AttemptAccounting`
  (attempts only grow), this on `SingleCopy` (an envelope is the only one of
  its job), and this on `StaleBatchOK`: so they are proved together. The
  refinement goes by the same invariant: with one copy of a job, `Status` is
  the place that copy is in, and an action moves it at most one condition on.
- **`RateLimit`**: a window gets its end from the one request that counted 1,
  and what a client was told is no less than what is left of the window.
  `AtMostTwiceTheLimit` needs the age of the window: of the requests served in
  the last `Window` seconds at most `Limit` belong to this window and, however
  far back the sum reaches, at most `Limit` to the one before (`TwoWindows`).
- **`LoginFlow`**: the tokens of a login are with one call at most
  (`CodeTakenOnce`), and who has them has used up state and code (`CallsSound`).
  A call that goes on from the mirroring has its row, unless its claims name
  no one.
- **`AccountState`**: every copy a call carries is one its source has had
  (`CarriedOK`); while calls come one by one, what the one under way has still
  to write is what Keycloak has, and nobody else has anything (`OneByOne`).
- **`WebClient`**: a page whose language is not the server's has a fetch due or
  on its way, or before it an answer that changes the language once more
  (`Heals`).
- **`AppShell`**: with requests that did not overlap there is one on the wire,
  in the name of the user the page has (`Serial`); a page that names a user has
  his CSRF token, so the cookie is never what a write falls back on (`TokenHeld`); where nothing failed the
  page's user is the server's or an answer is coming (`UpToDate`); a profile,
  and an answer about one, is there only while its page is mounted
  (`ProfileOnItsPage`).
- **`WebAuthn`**: a button that listens once was pressed once at most
  (`PressedOnce`), so only one that goes on listening, or a press before the
  autofill, has its call cancelled (`WhoIsCancelled`).
- **`ThemePages`**: a page is told what Keycloak may say of it and no more, the
  session's timer stays off after a submission, a passkey's included since
  `requestSubmit()` is heard too, and while no frame has loaded
  twice `iframeLoadCount` is the number of clients told (`LoadsCounted`).
- **`RegisterForm`**: what reCAPTCHA thinks about was complete and is, unless it
  was edited (`PendingIsComplete`). The type invariant says that the step is
  one the form has, that an option is chosen once and that of other attributes
  one value stays; it needs that `RemoveFirst` takes out exactly one place of a
  sequence, shown by the least such place.
- **`EntityStore`**: what a walk has not seen lies behind its offset
  (`StillAhead`), by the number of records that are listed before it.
- **`AvatarPipeline`**: a file is its upload's (`FilesOfUploads`), a picture once
  written is there unless a later upload removed it (`LastIsThere`), and until a
  job was lost or buried the newest picture has its digest or a job still to come
  (`DigestToCome`).

**What proving changed.** `PictureSettled` was false: with three faults an
upload that removes the old picture and then fails leaves nothing, which the
bound of one fault hid: a login then finds a still older one that had stayed.
It now names this case, and the run has three faults.
`RegisterTypeOK` was wrong for `MaxValues = 1`, and is stronger now. The fold by
which `ThemePages` counted the loads of frames is now the variable that the
page has.

**Only model-checked:** liveness (`EventuallySettled`, `LimitEnds`,
`LoginSucceeds`, `EventuallyQuiet`, `ComesToRest`, `LoginElsewhereFollowed`),
which is out of the reach of the installed provers, and the runs of section 5,
which show a violation. Nothing is proved that is not about the models: that
they follow the code rests on reading both.

## 8. What is not here, and what comes next

Not modelled and not planned: the activity log, mail providers and templates,
the error envelope, migrations, layout, search and console of the page. Of the
theme: printing, copying and saving recovery codes, the keyboard handling of
`menu-button-links.js`, number formats, password visibility and
`kcMultivalued.js` (which no page loads), base64 (`rfc4648.js`), styles, and the
component library's `useUserProfileForm`, which is external. Of the entity
store: reading one record, coercion, search and foreign keys. Each component's
entry in `PROJECT.json` gives the reason.

Next, in this order:

1. Proofs: the abstract ledger's own invariants, and facts about `Status` that
   say which jobs a crash can lose.
2. `CookieSigning`: signing and verification with rotating keys, as operators
   checked against "a cookie verifies iff a key that is still configured signed
   it", with the sessions of `AccountState`.
3. Pure modules checked against reference definitions over bounded inputs:
   `EntityModel` (which models are accepted, and that an accepted one can be
   created in some order), `Authorization`, normalisation of preferences in
   backend and page, detection of image types.
4. An abstract specification of an account (one value of preferences, one
   set of live sessions) that `AccountState` without overlapping calls
   implements.
