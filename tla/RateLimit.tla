----------------------------- MODULE RateLimit -----------------------------
(***************************************************************************)
(* The fixed-window rate limiter (services/rate_limit.py, with              *)
(* increment_with_window of stores/redis_store.py) for one key, that is for *)
(* one scope and one client.  The middleware of main.py uses it for every   *)
(* request, api/routers/auth.py for the start and the callback of a login.  *)
(*                                                                          *)
(* Several requests of the client are served at a time; each sends INCR,    *)
(* EXPIRE when it was the first of the window, and TTL.  A request can be   *)
(* given up between two commands: the process dies, or Redis fails.         *)
(* Time passes in whole seconds.                                            *)
(***************************************************************************)
EXTENDS Integers

CONSTANTS Requests,    \* the requests of the client that can be in progress at once
          Limit,       \* *_rate_limit_requests
          Window,      \* *_rate_limit_window_seconds
          MaxCrashes   \* BOUND: how many requests are given up half-way

\* Settings._validate_positive_security_int
ASSUME LimitAssumption == Limit \in Nat \ {0} /\ Window \in Nat \ {0}
ASSUME CrashAssumption == MaxCrashes \in Nat

NoTtl == -1              \* what Redis answers for a key that never expires
NoKey == -2              \* what it answers for an absent key
NotTold == -1            \* "no time to wait was given"

VARIABLES count,     \* the counter; 0 when the key is absent.  Above Limit + 1
                     \* all values behave alike and are one.
          ttl,       \* remaining seconds of the key, NoTtl, or NoKey
          pc,        \* where each request is in consume_rate_limit
          current,   \* what INCR answered to each request
          \* History, read by the properties only:
          wait,      \* what is left of the Retry-After each client was told
          open,      \* whether the window that counted each request is still open
          recent,    \* requests allowed in this second (1), the last two (2), ...
          crashes    \* number of requests given up (for the bound)

history == <<wait, open, recent, crashes>>
vars    == <<count, ttl, pc, current, history>>

Init == /\ count = 0 /\ ttl = NoKey
        /\ pc = [r \in Requests |-> "idle"]
        /\ current = [r \in Requests |-> 0]
        /\ wait = [r \in Requests |-> NotTold]
        /\ open = [r \in Requests |-> FALSE]
        /\ recent = [i \in 1..Window |-> 0]
        /\ crashes = 0

AllowedFault(n) == n <= Limit + 1            \* fault: off by one
Allowed(n) == n <= Limit

\* The counter saturates: a request that is over the limit stays over it.
Incremented == IF count > Limit THEN count ELSE count + 1

AfterIncrFault(n) == "expire"                \* fault: every request renews the window
NoExpiryFault(n) == "ttl"                    \* fault: the window is never given an end
\* INCR is followed by EXPIRE if it opened the window.
AfterIncr(n) == IF n = 1 THEN "expire" ELSE "ttl"

Increment(r) ==
    /\ pc[r] = "idle"
    /\ count' = Incremented
    /\ ttl' = IF ttl = NoKey THEN NoTtl ELSE ttl
    /\ current' = [current EXCEPT ![r] = Incremented]
    /\ pc' = [pc EXCEPT ![r] = AfterIncr(Incremented)]
    /\ open' = [open EXCEPT ![r] = TRUE]
    /\ recent' = [i \in 1..Window |-> recent[i] + IF Allowed(Incremented) THEN 1 ELSE 0]
    /\ UNCHANGED <<wait, crashes>>

\* EXPIRE; nothing happens when the key is gone.
SetExpiry(r) ==
    /\ pc[r] = "expire"
    /\ ttl' = IF ttl = NoKey THEN NoKey ELSE Window
    /\ pc' = [pc EXCEPT ![r] = "ttl"]
    /\ UNCHANGED <<count, current, history>>

\* TTL, and the answer: the request is served, or refused with a time to wait;
\* the client takes a time of zero for "not known".
RetryAfter == IF ttl > 0 THEN ttl ELSE NotTold

Answer(r) ==
    /\ pc[r] = "ttl"
    /\ \/ /\ Allowed(current[r])
          /\ pc' = [pc EXCEPT ![r] = "idle"]
          /\ UNCHANGED wait
       \/ /\ ~Allowed(current[r])
          /\ pc' = [pc EXCEPT ![r] = "refused"]
          /\ wait' = [wait EXCEPT ![r] = RetryAfter]
    /\ UNCHANGED <<count, ttl, current, open, recent, crashes>>

\* The client tries again some time after a refusal, whatever it was told.
Resume(r) ==
    /\ pc[r] = "refused"
    /\ pc' = [pc EXCEPT ![r] = "idle"]
    /\ wait' = [wait EXCEPT ![r] = NotTold]
    /\ UNCHANGED <<count, ttl, current, open, recent, crashes>>

\* The request is given up between two commands.
Crash(r) ==
    /\ pc[r] \in {"expire", "ttl"} /\ crashes < MaxCrashes
    /\ crashes' = crashes + 1
    /\ pc' = [pc EXCEPT ![r] = "idle"]
    /\ UNCHANGED <<count, ttl, current, wait, open, recent>>

\* A second passes; a key whose time is over is gone, and its window with it.
Tick ==
    /\ ttl' = IF ttl = 1 THEN NoKey ELSE IF ttl > 1 THEN ttl - 1 ELSE ttl
    /\ count' = IF ttl = 1 THEN 0 ELSE count
    /\ open' = [r \in Requests |-> open[r] /\ ttl # 1]
    /\ recent' = [i \in 1..Window |-> IF i = 1 THEN 0 ELSE recent[i - 1]]
    /\ wait' = [r \in Requests |-> IF wait[r] > 0 THEN wait[r] - 1 ELSE wait[r]]
    /\ UNCHANGED <<pc, current, crashes>>

Served(r) == SetExpiry(r) \/ Answer(r)

Next == \/ \E r \in Requests : Increment(r) \/ Served(r) \/ Resume(r) \/ Crash(r)
        \/ Tick

Spec == Init /\ [][Next]_vars

\* The server gets on with the requests it has and time passes; the client
\* owes nothing: it may send requests without end or stop.
FairSpec == Spec /\ WF_vars(Tick) /\ \A r \in Requests : WF_vars(Served(r))

-----------------------------------------------------------------------------
(* What is checked                                                           *)

\* The values every variable may have; the key has a counter and a time to
\* live together, and one that never expires is about to get its EXPIRE or
\* belongs to a request that was given up.
TypeOK ==
    /\ count \in 0..Limit + 1
    /\ ttl \in {NoKey, NoTtl} \cup 1..Window
    /\ count = 0 <=> ttl = NoKey
    /\ ttl = NoTtl => crashes > 0 \/ \E r \in Requests : pc[r] = "expire"
    /\ pc \in [Requests -> {"idle", "expire", "ttl", "refused"}]
    /\ current \in [Requests -> 0..Limit + 1]
    /\ wait \in [Requests -> {NotTold} \cup 0..Window]
    /\ open \in [Requests -> BOOLEAN]
    /\ recent \in [1..Window -> Nat]
    /\ crashes \in 0..MaxCrashes

\* Fixed windows let a client pass twice its limit across the border of two
\* of them, and never more: no Window consecutive seconds see more than
\* 2 * Limit requests served, however the requests interleave.
AtMostTwiceTheLimit == recent[Window] <= 2 * Limit

\* Retry-After is honest: once a refused client has waited as long as it was
\* told, the window that refused it is over, even if it or others kept asking
\* meanwhile.
RetryAfterHonest == \A r \in Requests : wait[r] = 0 => ~open[r]

\* The inductive invariant behind the last.  Only the request that opened a window
\* is about to send EXPIRE, and until it does, the window has no end: so no
\* EXPIRE ever prolongs a window whose end a client has been told.
OneExpires == \A r \in Requests : pc[r] = "expire" =>
                 ttl = NoTtl /\ \A q \in Requests \ {r} : pc[q] # "expire"
ToldIsEnough == \A r \in Requests : wait[r] # NotTold =>
                   /\ pc[r] = "refused"
                   /\ open[r] => ttl \in 1..wait[r]
IInv == TypeOK /\ OneExpires /\ ToldIsEnough

\* The one behind AtMostTwiceTheLimit.  The window has been open for Age
\* seconds, this one included, or more: from its opening to its EXPIRE no
\* time need pass, and from then on what its time to live has lost.  In these
\* seconds it served what it counted; those before them are of the length of
\* a window at most, and belong to one window.
Age == IF ttl = NoTtl THEN 1 ELSE Window - ttl + 1
Growing == \A i \in 1..Window : \A k \in 1..i : recent[k] <= recent[i]
NothingYet == recent[1] = 0 /\ recent[Window] <= Limit
TwoWindows == \E j \in Age..Window : /\ recent[j] <= Limit /\ recent[j] <= count
                                      /\ recent[Window] <= recent[j] + Limit
RateIInv == /\ TypeOK /\ Growing
            /\ IF ttl = NoKey THEN NothingYet ELSE TwoWindows

\* Being limited ends, even for a client that never stops asking, unless a
\* request was given up before it could give the window its end.
LimitEnds == count > Limit ~> (count = 0 \/ (ttl = NoTtl /\ crashes > 0))

\* frontend dictionaries/en.js: "Too many login requests. Please try again
\* shortly."  Being limited ends, whatever happens to single requests.
LimitIsTemporary == count > Limit ~> count = 0
=============================================================================
