----------------------------- MODULE LoginFlow -----------------------------
(***************************************************************************)
(* Logging in through Keycloak (api/routers/auth.py): /auth/login stores a  *)
(* login state and sends the browser to Keycloak; Keycloak authenticates    *)
(* the user and sends the browser back to /auth/callback with a code; the   *)
(* callback trades the state and the code for a session.                    *)
(*                                                                          *)
(* The browser may call the callback of one login several times (reload,    *)
(* back button, double click), and calls are served concurrently: an action *)
(* is one command to Redis, Keycloak or PostgreSQL.  Calls fail and keys    *)
(* expire between any two of them.  All requests come from one client, so   *)
(* there is one brute-force counter and one block; the rate limiter (module *)
(* RateLimit) refuses a request before anything here happens.               *)
(***************************************************************************)
EXTENDS Integers, FiniteSets

CONSTANTS Logins,        \* login attempts, each with a fresh state and verifier
          Unnamed,       \* those whose claims name no subject
          Calls,         \* calls of the callback
          NoLogin,       \* "no code / no state in the query"
          AttemptLimit,  \* login_bruteforce_attempt_limit
          MaxFaults      \* BOUND: failing calls, crashes and expiries

ASSUME LoginAssumption == /\ NoLogin \notin Logins /\ Unnamed \subseteq Logins
                          /\ AttemptLimit \in Nat \ {0} /\ MaxFaults \in Nat

VARIABLES states,     \* logins whose state key is in Redis
          login,      \* stage of each login as /auth/login and the browser see it
          code,       \* Keycloak: the code of each login is none, issued or used
          failures,   \* the brute-force counter
          counterEnds, \* whether that key has a time to live
          blocked,    \* whether the block key exists
          pc,         \* where each call is in auth_callback
          of,         \* the login whose state and code a call carries
          found,      \* whether the call found its login state
          appUsers,   \* logins whose user has an up-to-date row in app_users
          sessions,   \* sessions created: the login and the call that made each
          \* History, read by the properties only:
          passed,     \* calls that got past the check of their state
          faults      \* number of faults so far (for the bound)

counter  == <<failures, counterEnds>>
guard    == <<counter, blocked>>
callback == <<pc, of, found>>
vars     == <<states, login, code, guard, callback, appUsers, sessions, passed, faults>>

Init == /\ states = {}
        /\ login = [l \in Logins |-> "new"]
        /\ code = [l \in Logins |-> "none"]
        /\ failures = 0 /\ counterEnds = FALSE /\ blocked = FALSE
        /\ pc = [c \in Calls |-> "idle"]
        /\ of = [c \in Calls |-> NoLogin]
        /\ found = [c \in Calls |-> FALSE]
        /\ appUsers = {} /\ sessions = {} /\ passed = {}
        /\ faults = 0

Fault == faults < MaxFaults /\ faults' = faults + 1

Goto(c, stage) == pc' = [pc EXCEPT ![c] = stage]

-----------------------------------------------------------------------------
(* _start_login                                                              *)

\* The block is looked up first; a blocked client is sent away.
StartLogin(l) ==
    /\ login[l] = "new" /\ ~blocked
    /\ login' = [login EXCEPT ![l] = "admitted"]
    /\ UNCHANGED <<states, code, guard, callback, appUsers, sessions, passed, faults>>

\* A block set since the look-up does not stop the login any more.
StoreState(l) ==
    /\ login[l] = "admitted"
    /\ login' = [login EXCEPT ![l] = "started"]
    /\ states' = states \cup {l}
    /\ UNCHANGED <<code, guard, callback, appUsers, sessions, passed, faults>>

\* Keycloak authenticates the user and binds the code to the login's challenge.
Authenticate(l) ==
    /\ login[l] = "started" /\ code[l] = "none"
    /\ code' = [code EXCEPT ![l] = "issued"]
    /\ UNCHANGED <<states, login, guard, callback, appUsers, sessions, passed, faults>>

-----------------------------------------------------------------------------
(* auth_callback                                                             *)

\* The browser comes back from Keycloak, for the first time or again.
CallBack(c) ==
    /\ pc[c] = "idle"
    /\ \E l \in Logins : code[l] # "none" /\ of' = [of EXCEPT ![c] = l]
    /\ Goto(c, "get")
    /\ UNCHANGED <<states, login, code, guard, found, appUsers, sessions, passed, faults>>

\* Fault: the test for a missing code or state is forgotten.
CallBackWithErrorFault(c) ==
    /\ pc[c] = "idle" /\ \E l \in Logins : login[l] = "started"
    /\ Fault
    /\ Goto(c, "get")
    /\ UNCHANGED <<states, login, code, guard, of, found, appUsers, sessions, passed>>

\* Keycloak reports an error, or the query lacks the code or the state.
CallBackWithError(c) ==
    /\ pc[c] = "idle" /\ \E l \in Logins : login[l] = "started"
    /\ Fault
    /\ Goto(c, "failed")
    /\ UNCHANGED <<states, login, code, guard, of, found, appUsers, sessions, passed>>

\* Fault: the state is deleted before it is read.
GetStateFault(c) ==
    /\ pc[c] = "get"
    /\ states' = states \ {of[c]}
    /\ found' = [found EXCEPT ![c] = of[c] \in states']
    /\ Goto(c, "delete")
    /\ UNCHANGED <<login, code, guard, of, appUsers, sessions, passed, faults>>

GetState(c) ==
    /\ pc[c] = "get"
    /\ found' = [found EXCEPT ![c] = of[c] \in states]
    /\ Goto(c, "delete")
    /\ UNCHANGED <<states, login, code, guard, of, appUsers, sessions, passed, faults>>

\* Fault: the deletion of the state is forgotten.
DeleteStateFault(c) ==
    /\ pc[c] = "delete"
    /\ Goto(c, IF found[c] THEN "exchange" ELSE "failed")
    /\ passed' = IF found[c] THEN passed \cup {c} ELSE passed
    /\ UNCHANGED <<states, login, code, guard, of, found, appUsers, sessions, faults>>

DeleteState(c) ==
    /\ pc[c] = "delete"
    /\ states' = states \ {of[c]}
    /\ Goto(c, IF found[c] THEN "exchange" ELSE "failed")
    /\ passed' = IF found[c] THEN passed \cup {c} ELSE passed
    /\ UNCHANGED <<login, code, guard, of, found, appUsers, sessions, faults>>

\* Fault: to make the callback repeatable, the tokens of a used code are kept
\* and served again.
ExchangeFault(c) ==
    /\ pc[c] = "exchange"
    /\ Goto(c, "userinfo")
    /\ code' = [code EXCEPT ![of[c]] = "used"]
    /\ UNCHANGED <<states, login, guard, of, found, appUsers, sessions, passed, faults>>

\* The token endpoint takes a code once; the answer may be an error or be
\* lost after the code was taken, or lack the tokens.
Exchange(c) ==
    /\ pc[c] = "exchange"
    /\ \/ /\ code[of[c]] = "issued" /\ Goto(c, "userinfo")
          /\ UNCHANGED faults
       \/ /\ code[of[c]] = "used" /\ Goto(c, "failed")
          /\ UNCHANGED faults
       \/ Fault /\ Goto(c, "failed")
    /\ \/ code' = [code EXCEPT ![of[c]] = "used"]
       \/ pc'[c] = "failed" /\ UNCHANGED code
    /\ UNCHANGED <<states, login, guard, of, found, appUsers, sessions, passed>>

\* The user's claims, and if they say nothing of preferences, the account.
FetchUserinfo(c) ==
    /\ pc[c] = "userinfo"
    /\ \/ Goto(c, "sync") /\ UNCHANGED faults
       \/ Goto(c, "failed") /\ Fault
    /\ UNCHANGED <<states, login, code, guard, of, found, appUsers, sessions, passed>>

\* The mirror of the profile: without a subject no row is written.
Mirrored(c) == appUsers \cup ({of[c]} \ Unnamed)

\* Fault: the error is logged and the login goes on.
SyncFault(c) ==
    /\ pc[c] = "sync"
    /\ Goto(c, "create")
    /\ \/ appUsers' = Mirrored(c) /\ UNCHANGED faults
       \/ of[c] \notin Unnamed /\ Fault /\ UNCHANGED appUsers
    /\ UNCHANGED <<states, login, code, guard, of, found, sessions, passed>>

\* An error of PostgreSQL, before or after it wrote, ends the call and is not
\* counted as a failed login.
Sync(c) ==
    /\ pc[c] = "sync"
    /\ \/ Goto(c, "create") /\ UNCHANGED faults
       \/ of[c] \notin Unnamed /\ Goto(c, "error") /\ Fault
    /\ \/ appUsers' = Mirrored(c)
       \/ pc'[c] = "error" /\ UNCHANGED appUsers
    /\ UNCHANGED <<states, login, code, guard, of, found, sessions, passed>>

Created(c) == sessions \cup {[login |-> of[c], call |-> c]}

\* The session is stored under an id drawn for this call; when the answer of
\* Redis is lost it may be there although the call fails.
CreateSession(c) ==
    /\ pc[c] = "create"
    /\ \/ Goto(c, "counter") /\ UNCHANGED faults
       \/ Goto(c, "error") /\ Fault
    /\ \/ sessions' = Created(c)
       \/ pc'[c] = "error" /\ UNCHANGED sessions
    /\ UNCHANGED <<states, login, code, guard, of, found, appUsers, passed>>

DropCounter == failures' = 0 /\ counterEnds' = FALSE

\* clear_auth_failures: two deletions
ClearCounter(c) ==
    /\ pc[c] = "counter"
    /\ \/ Goto(c, "block") /\ UNCHANGED faults
       \/ Goto(c, "error") /\ Fault
    /\ \/ DropCounter
       \/ pc'[c] = "error" /\ UNCHANGED counter
    /\ UNCHANGED <<states, login, code, blocked, of, found, appUsers, sessions, passed>>

\* The answer sets the cookies; the activity log swallows its own failures.
ClearBlock(c) ==
    /\ pc[c] = "block"
    /\ \/ blocked' = FALSE /\ Goto(c, "ok") /\ UNCHANGED faults
       \/ blocked' \in {blocked, FALSE} /\ Goto(c, "error") /\ Fault
    /\ UNCHANGED <<states, login, code, counter, of, found, appUsers, sessions, passed>>

-----------------------------------------------------------------------------
(* _record_auth_failure, register_auth_failure                               *)

Judged(count) == IF count >= AttemptLimit THEN "setBlock" ELSE "error"

\* INCR of the counter, which saturates at the limit: from there on each
\* failure blocks.
CountFailure(c) ==
    /\ pc[c] = "failed"
    /\ failures' = IF failures < AttemptLimit THEN failures + 1 ELSE failures
    /\ Goto(c, IF failures = 0 THEN "expire" ELSE Judged(failures'))
    /\ UNCHANGED <<states, login, code, counterEnds, blocked, of, found, appUsers, sessions,
                   passed, faults>>

\* EXPIRE, which is for the failure that found no counter and counts as the
\* first, whatever was counted since; it does nothing to a key that is gone.
ExpireCounter(c) ==
    /\ pc[c] = "expire"
    /\ counterEnds' = (failures > 0)
    /\ Goto(c, Judged(1))
    /\ UNCHANGED <<states, login, code, failures, blocked, of, found, appUsers, sessions,
                   passed, faults>>

SetBlock(c) ==
    /\ pc[c] = "setBlock"
    /\ blocked' = TRUE
    /\ Goto(c, "error")
    /\ UNCHANGED <<states, login, code, counter, of, found, appUsers, sessions, passed, faults>>

-----------------------------------------------------------------------------
(* The environment                                                           *)

Ended == {"idle", "ok", "error"}

\* The process dies or Redis fails: the call ends wherever it is.
Crash(c) ==
    /\ pc[c] \notin Ended
    /\ Fault
    /\ Goto(c, "error")
    /\ UNCHANGED <<states, login, code, guard, of, found, appUsers, sessions, passed>>

\* login_state_ttl_seconds are over before the browser comes back.
StateExpires(l) ==
    /\ l \in states
    /\ Fault
    /\ states' = states \ {l}
    /\ UNCHANGED <<login, code, guard, callback, appUsers, sessions, passed>>

\* The window of the counter, if it has an end, or the block is over.
GuardExpires ==
    /\ \/ counterEnds /\ DropCounter /\ UNCHANGED blocked
       \/ blocked /\ blocked' = FALSE /\ UNCHANGED counter
    /\ UNCHANGED <<states, login, code, callback, appUsers, sessions, passed, faults>>

Serve(c) == \/ GetState(c) \/ DeleteState(c) \/ Exchange(c) \/ FetchUserinfo(c)
            \/ Sync(c) \/ CreateSession(c) \/ ClearCounter(c) \/ ClearBlock(c)
            \/ CountFailure(c) \/ ExpireCounter(c) \/ SetBlock(c)

Next == \/ \E l \in Logins : StartLogin(l) \/ StoreState(l) \/ Authenticate(l) \/ StateExpires(l)
        \/ \E c \in Calls : CallBack(c) \/ CallBackWithError(c) \/ Serve(c) \/ Crash(c)
        \/ GuardExpires

Spec == Init /\ [][Next]_vars

\* A call that was received is served to its end; the browser owes nothing.
FairSpec == Spec /\ \A c \in Calls : WF_vars(Serve(c))

-----------------------------------------------------------------------------
(* What is checked                                                           *)

Stages == {"get", "delete", "exchange", "userinfo", "sync", "create", "counter",
           "block", "failed", "expire", "setBlock"}

\* The values every variable may have; a call that carries no login never
\* gets further than the failure it reports.
TypeOK ==
    /\ states \subseteq Logins /\ appUsers \subseteq Logins \ Unnamed
    /\ login \in [Logins -> {"new", "admitted", "started"}]
    /\ code \in [Logins -> {"none", "issued", "used"}]
    /\ failures \in 0..AttemptLimit /\ {counterEnds, blocked} \subseteq BOOLEAN
    /\ pc \in [Calls -> Ended \cup Stages]
    /\ of \in [Calls -> Logins \cup {NoLogin}]
    /\ \A c \in Calls : of[c] = NoLogin => pc[c] \in {"idle", "failed", "expire", "setBlock", "error"}
    /\ found \in [Calls -> BOOLEAN]
    /\ sessions \subseteq [login : Logins, call : Calls]
    /\ passed \subseteq Calls
    /\ faults \in 0..MaxFaults

\* However often and however concurrently the callback of a login is called,
\* the login gives at most one session.
OneSessionPerLogin == \A s, t \in sessions : s.login = t.login => s = t

\* A session stands for a login that was started here and authenticated by
\* Keycloak, whose state and code are used up and whose user, if the claims
\* name one, is in app_users.
SessionSound ==
    \A s \in sessions : /\ login[s.login] = "started" /\ s.login \notin states
                        /\ code[s.login] = "used"
                        /\ s.login \in appUsers \cup Unnamed

\* A call that comes back with a state that an earlier call has been let
\* through with finds nothing, even if that earlier call failed later on.
LateReplayFindsNothing ==
    [][\A c \in passed, d \in Calls : of[d] = of[c] /\ found'[d] => found[d]]_vars

\* The inductive invariant behind the three properties above.  What holds of a
\* session must hold of the call that is about to create it: its login was
\* started here, its state is gone for good, and it took the code alone.
LoginsStarted ==
    \A l \in Logins : l \in states \/ code[l] # "none" => login[l] = "started"
Trading(c) == pc[c] \in {"userinfo", "sync", "create"}
CallsSound ==
    \A c \in Calls : /\ pc[c] = "idle" => of[c] = NoLogin
                     /\ of[c] # NoLogin => code[of[c]] # "none"
                     /\ pc[c] = "exchange" \/ Trading(c) => c \in passed
                     /\ c \in passed => of[c] \in Logins \ states
                     /\ pc[c] = "create" => of[c] \in appUsers \cup Unnamed
CodeTakenOnce ==
    \A c \in Calls : Trading(c) =>
        /\ code[of[c]] = "used"
        /\ \A d \in Calls : Trading(d) /\ of[d] = of[c] => d = c
        /\ \A s \in sessions : s.login # of[c]
IInv == TypeOK /\ LoginsStarted /\ CallsSound /\ CodeTakenOnce
          /\ OneSessionPerLogin /\ SessionSound

\* README.md: "Callback `state` values are one-time; replaying callback URLs
\* returns an invalid/expired state error."
StateIsOneTime == \A c, d \in passed : of[c] = of[d] => c = d

\* A login whose callback was called succeeds unless something fails, even if
\* the browser called it several times at once: the calls never use up the
\* state and the code between them without one of them getting a session.
LoginSucceeds ==
    \A l \in Logins : (\E c \in Calls : of[c] = l) ~>
                         (faults > 0 \/ \E s \in sessions : s.login = l)
=============================================================================
