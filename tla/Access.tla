------------------------------- MODULE Access -------------------------------
(***************************************************************************)
(* Who gets in: the throttle in front of the login form, the sessions, and *)
(* the token buckets in front of every route (security.py, and the routes  *)
(* of main.py that call it).  A request is a task; between its awaits the  *)
(* others run, and the failures it counted, or the session row it read,    *)
(* may no longer be what the tables say.                                   *)
(*                                                                         *)
(* Time is counted in ticks.  A row carries its age, not its date: a       *)
(* failure that is Hour ticks old no longer counts anywhere (the table     *)
(* forgets it after a week), a session is expired once it has been idle    *)
(* for more than Ttl.  A request refused before it reads anything (foreign *)
(* origin, no cookie, wrong user agent) changes nothing and has no action. *)
(***************************************************************************)
EXTENDS Naturals, FiniteSets, FiniteSetsExt

CONSTANTS Ips,         \* addresses that try to log in
          Tokens,      \* session tokens, each handed out once
          Requests,    \* requests that may be under way at once
          LoginMax,    \* LOGIN_MAX_PER_IP
          Window,      \* LOGIN_WINDOW
          LoginMaxAll, \* LOGIN_MAX_GLOBAL
          Hour,
          Base,        \* the first backoff: 5 seconds
          MaxShift,    \* the highest exponent of the backoff: 8
          Rate,        \* CLASS_LIMITS: what a bucket regains in a tick ...
          LoginBurst,  \* ... and what it holds, for the class "login" ...
          CallBurst,   \* ... and for a class of the other routes
          Ttl          \* CFG.session_ttl_days

ASSUME LimitsAreNumbers ==
    /\ {LoginMax, LoginMaxAll, Base, LoginBurst, CallBurst} \subseteq Nat \ {0}
    /\ {MaxShift, Rate, Ttl} \subseteq Nat
    /\ Window \in Nat \ {0} /\ Hour \in Nat /\ Window <= Hour
ASSUME NamesAreFinite == IsFiniteSet(Ips) /\ IsFiniteSet(Requests)
ASSUME AddressesAreNoTokens == Ips \cap Tokens = {}

VARIABLES fails,     \* login_attempts with outcome 'fail': how many of each age
          bucket,    \* _buckets: what is left in each
          sessions,  \* the tokens with a row in web_sessions
          idle,      \* how long ago expires_at was last written
          issued,    \* the tokens handed out so far
          request,   \* what each request has done so far
          out        \* history: the tokens whose logout has been carried out

table == <<sessions, idle, issued, out>>
vars == <<fails, bucket, table, request>>

Scopes == Ips \cup Tokens
Ages == 0 .. Hour - 1
Burst(scope) == IF scope \in Ips THEN LoginBurst ELSE CallBurst

\* A login is counted (login_blocked has let the address pass) and cleared (and the
\* total too).  A request with a cookie has read a row that is live or expired, or is
\* admitted.  late: it began after the logout of its token had been carried out.
Idle == [at |-> "idle"]
At(a, who, late) == [at |-> a, by |-> who, late |-> late]
Stages == [at : {"counted", "cleared"}, by : Ips, late : {FALSE}] \cup
          [at : {"live", "expired", "admitted"}, by : Tokens, late : BOOLEAN]

TypeOK ==
    /\ fails \in [Ips -> [Ages -> Nat]]
    /\ bucket \in [Scopes -> 0 .. LoginBurst + CallBurst]
    /\ \A s \in Scopes : bucket[s] <= Burst(s)
    /\ sessions \subseteq issued
    /\ idle \in [Tokens -> 0 .. Ttl + 1]
    /\ issued \subseteq Tokens
    /\ request \in [Requests -> {Idle} \cup Stages]
    /\ out \subseteq issued

Init ==
    /\ fails = [ip \in Ips |-> [a \in Ages |-> 0]]
    /\ bucket = [s \in Scopes |-> Burst(s)]
    /\ sessions = {}
    /\ idle = [t \in Tokens |-> 0]
    /\ issued = {}
    /\ request = [r \in Requests |-> Idle]
    /\ out = {}

Goto(r, stage) == request' = [request EXCEPT ![r] = stage]
Advance(r, a) == request' = [request EXCEPT ![r].at = a]

-----------------------------------------------------------------------------
\* Token buckets (TokenBucket.take, allow).  A bucket is refilled when it is asked;
\* filling it with every tick comes to the same.

Allowed(scope) == bucket[scope] >= 1
Take(scope) == bucket' = [bucket EXCEPT ![scope] = @ - 1]
Refill == bucket' = [s \in Scopes |-> IF bucket[s] + Rate < Burst(s)
                                      THEN bucket[s] + Rate ELSE Burst(s)]

-----------------------------------------------------------------------------
\* The login throttle.

Aged(ip, ages) == MapThenSumSet(LAMBDA a : fails[ip][a], ages)
Recent(ip) == Aged(ip, 0 .. Window - 1)
InAll == MapThenSumSet(LAMBDA ip : Aged(ip, Ages), Ips)
LastFail(ip) == Min({a \in Ages : fails[ip][a] > 0})

Smaller(a, b) == IF a < b THEN a ELSE b
TwoTo[n \in 0 .. MaxShift] == IF n = 0 THEN 1 ELSE 2 * TwoTo[n - 1]
Backoff(n) == Smaller(Window, TwoTo[Smaller(n - LoginMax, MaxShift)] * Base)

\* A faulty variant: the backoff is added to the first failure of the window.
AddressBlockedSinceFirst(ip) ==
    /\ Recent(ip) >= LoginMax
    /\ Max({a \in 0 .. Window - 1 : fails[ip][a] > 0}) < Backoff(Recent(ip))
AddressBlocked(ip) == /\ Recent(ip) >= LoginMax
                      /\ LastFail(ip) < Backoff(Recent(ip))
\* A faulty variant: one failure too many before everybody has to wait.
AllBlockedByOneMore == InAll > LoginMaxAll
AllBlocked == InAll >= LoginMaxAll
LoginBlocked(ip) == AddressBlocked(ip) \/ AllBlocked

\* A faulty variant: every attempt counts as a failure, also one that was blocked.
RecordAnyAttempt(ip, outcome) ==
    fails' = [fails EXCEPT ![ip][0] = @ + (IF outcome = "ok" THEN 0 ELSE 1)]
RecordAttempt(ip, outcome) ==
    fails' = [fails EXCEPT ![ip][0] = @ + (IF outcome = "fail" THEN 1 ELSE 0)]

\* login_submit down to the first SELECT of login_blocked.  What is refused here
\* only records the attempt.
Login(r, ip) ==
    /\ request[r] = Idle
    /\ IF Allowed(ip) THEN Take(ip) ELSE UNCHANGED bucket
    /\ LET outcome == IF ~Allowed(ip) THEN "throttled"
                      ELSE IF AddressBlocked(ip) THEN "blocked" ELSE "pass"
       IN IF outcome = "pass"
          THEN Goto(r, At("counted", ip, FALSE)) /\ UNCHANGED fails
          ELSE RecordAttempt(ip, outcome) /\ UNCHANGED request
    /\ UNCHANGED table

\* The second SELECT: the failures of all addresses within the hour.
CountAll(r) ==
    /\ request[r].at = "counted"
    /\ IF AllBlocked
       THEN Goto(r, Idle) /\ RecordAttempt(request[r].by, "blocked")
       ELSE Advance(r, "cleared") /\ UNCHANGED fails
    /\ UNCHANGED <<bucket, table>>

\* verify_password blocks the loop, and the attempt is recorded right after it.
WrongPassphrase(r) ==
    /\ request[r].at = "cleared"
    /\ RecordAttempt(request[r].by, "fail")
    /\ Goto(r, Idle)
    /\ UNCHANGED <<bucket, table>>

\* create_session: a new token, and its row.
RightPassphrase(r) ==
    /\ request[r].at = "cleared"
    /\ RecordAttempt(request[r].by, "ok")
    /\ \E t \in Tokens \ issued :
         /\ sessions' = sessions \cup {t}
         /\ issued' = issued \cup {t}
    /\ Goto(r, Idle)
    /\ UNCHANGED <<bucket, idle, out>>

-----------------------------------------------------------------------------
\* Sessions.

\* load_session at the head of every route: the SELECT and what the row says.
Load(r, t) ==
    /\ request[r] = Idle
    /\ t \in sessions
    /\ Goto(r, At(IF idle[t] > Ttl THEN "expired" ELSE "live", t, t \in out))
    /\ UNCHANGED <<fails, bucket, table>>

\* The row is deleted by its id, whatever has been done to it since it was read.
DropExpired(r) ==
    /\ request[r].at = "expired"
    /\ sessions' = sessions \ {request[r].by}
    /\ idle' = [idle EXCEPT ![request[r].by] = 0]
    /\ Goto(r, Idle)
    /\ UNCHANGED <<fails, bucket, issued, out>>

\* The sliding expiry is an UPDATE: of a row that is gone it changes nothing.
\* A faulty variant: an upsert, written from what was read before.
RenewByUpsert(r) ==
    /\ request[r].at = "live"
    /\ sessions' = sessions \cup {request[r].by}
    /\ idle' = [idle EXCEPT ![request[r].by] = 0]
    /\ Advance(r, "admitted")
    /\ UNCHANGED <<fails, bucket, issued, out>>
Renew(r) ==
    /\ request[r].at = "live"
    /\ idle' = [idle EXCEPT ![request[r].by] = 0]
    /\ Advance(r, "admitted")
    /\ UNCHANGED <<fails, bucket, sessions, issued, out>>

\* With a session, a route checks the origin, the csrf token of the page and its
\* bucket before it does its work; only the bucket has a state.
Refuse(r) ==
    /\ request[r].at = "admitted"
    /\ Goto(r, Idle)
    /\ UNCHANGED <<fails, bucket, table>>

Serve(r) ==
    /\ request[r].at = "admitted"
    /\ Allowed(request[r].by)
    /\ Take(request[r].by)
    /\ Goto(r, Idle)
    /\ UNCHANGED <<fails, table>>

\* destroy_session deletes the row by the hash of the token.  /logout asks for no
\* session and reads nothing that it uses; /api/logout does it once it is admitted.
Destroy(t) ==
    /\ sessions' = sessions \ {t}
    /\ idle' = [idle EXCEPT ![t] = 0]
    /\ out' = out \cup {t}
    /\ UNCHANGED <<fails, bucket, issued>>

Logout(t) ==
    /\ t \in issued
    /\ Destroy(t)
    /\ UNCHANGED request

ApiLogout(r) ==
    /\ request[r].at = "admitted"
    /\ Destroy(request[r].by)
    /\ Goto(r, Idle)

-----------------------------------------------------------------------------
Tick ==
    /\ fails' = [ip \in Ips |-> [a \in Ages |-> IF a = 0 THEN 0 ELSE fails[ip][a - 1]]]
    /\ idle' = [t \in Tokens |-> IF t \in sessions /\ idle[t] <= Ttl
                                 THEN idle[t] + 1 ELSE idle[t]]
    /\ Refill
    /\ UNCHANGED <<sessions, issued, request, out>>

Next ==
    \/ \E r \in Requests :
         \/ \E ip \in Ips : Login(r, ip)
         \/ CountAll(r) \/ WrongPassphrase(r) \/ RightPassphrase(r)
         \/ \E t \in Tokens : Load(r, t)
         \/ DropExpired(r) \/ Renew(r) \/ Refuse(r) \/ Serve(r) \/ ApiLogout(r)
    \/ \E t \in Tokens : Logout(t)
    \/ Tick

Spec == Init /\ [][Next]_vars
\* Only time passes by itself: nobody has to try, and a request may take long.
FairSpec == Spec /\ WF_vars(Tick)

-----------------------------------------------------------------------------
\* Once an address has reached the limit with k more, its failures come one backoff
\* apart: the requests that counted before the last of them was recorded may add
\* one each, and no more (login_blocked counts, record_attempt writes awaits later).
BackoffHolds ==
    \A ip \in Ips, a \in Ages, k \in 0 .. MaxShift :
        LET wait == Backoff(LoginMax + k)
        IN Aged(ip, (a + wait .. a + Window - 1) \cap Ages) >= LoginMax + k
             => Aged(ip, (a .. a + wait - 1) \cap Ages) <= Cardinality(Requests)

\* All addresses together never exceed the hourly limit by more than the requests
\* that were past the count when it was reached.
HourIsBounded ==
    InAll <= LoginMaxAll - 1 + Cardinality(Requests)

\* Whoever is locked out is let in again, however hard anybody keeps trying: blocked
\* and throttled attempts are recorded but do not count.
LockoutEnds ==
    \A ip \in Ips : LoginBlocked(ip) ~> ~LoginBlocked(ip)

\* Logging out is final: no request that begins after it is let in with that token,
\* whatever the requests do that had read the session before (load_session renews
\* the row it read an await ago).
LogoutIsFinal ==
    \A r \in Requests :
        request[r] # Idle /\ request[r].at = "admitted" => ~request[r].late
=============================================================================
