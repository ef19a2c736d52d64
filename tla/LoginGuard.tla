------------------------------ MODULE LoginGuard ------------------------------
(***************************************************************************)
(* The rate limit around POST /auth/login: RateLimiter, its decorator and  *)
(* the lock of AuthService.login_user.                                     *)
(*                                                                         *)
(* A counter is a JSON object in Redis, read when a request arrives, and   *)
(* read, changed and written by separate calls when it ends.  FastAPI      *)
(* passes the parameters of a route by name, and the decorator looks for   *)
(* the email among the positional ones: it counts by client address, while *)
(* the lock of an account looks at the counter of the email.               *)
(*                                                                         *)
(* One client address and one email are modelled, with the counter of each.*)
(***************************************************************************)
EXTENDS Naturals, Sums

CONSTANTS
    Requests,       \* logins in progress, one per worker process
    Limit,          \* max_attempts of "login"
    Window,         \* window of "login", in ticks
    LockAfter,      \* failed attempts after which login_user locks
    LockFor,        \* duration of the lock, in ticks
    MaxNow,         \* bound: the last tick
    MaxFailures,    \* bound: failed logins after which no other arrives
    CacheFails      \* whether a call to Redis may fail

ASSUME LimitAssumption == Limit \in Nat \ {0} /\ LockAfter \in Nat
ASSUME WindowAssumption == Window \in Nat \ {0} /\ LockFor \in Nat \ {0}
ASSUME BoundsAssumption == MaxNow \in Nat /\ MaxFailures \in Nat
ASSUME CacheFailsAssumption == CacheFails \in BOOLEAN

VARIABLES
    now,        \* time.time()
    counter,    \* rate_limit:login:<identifier>
    lockUntil,  \* account_lockout:<email>; 0: no such key
    req,        \* the local state of each login
    failures,   \* failures[t]: failed logins recorded at time t
    disturbed   \* two records overlapped, or a call to Redis failed

vars == <<now, counter, lockUntil, req, failures, disturbed>>

Identifiers == {"address", "email"}
Times == 0..MaxNow
Count == [attempts : Nat, start : Times, expires : Nat]
NoCount == [attempts |-> 0, start |-> 0, expires |-> 0]
PCs == {"idle", "login", "read", "write"}
Login == [pc : PCs, ok : BOOLEAN, attempts : Nat, start : Times]
Idle == [pc |-> "idle", ok |-> FALSE, attempts |-> 0, start |-> 0]

TypeOK ==
    /\ now \in Times
    /\ counter \in [Identifiers -> Count]
    /\ lockUntil \in 0..MaxNow + LockFor
    /\ req \in [Requests -> Login]
    /\ failures \in [Times -> Nat]
    /\ disturbed \in BOOLEAN

Init ==
    /\ now = 0
    /\ counter = [i \in Identifiers |-> NoCount]
    /\ lockUntil = 0
    /\ req = [r \in Requests |-> Idle]
    /\ failures = [t \in Times |-> 0]
    /\ disturbed = FALSE

\* What the decorator finds as the identifier of a login.
Identifier == "address"

\* A key is there until its time to live ends.
Present(i) == now < counter[i].expires
InWindow(i) == Present(i) /\ now - counter[i].start < Window

\* check_rate_limit: full, and the window has not ended.
Refused(i) == InWindow(i) /\ counter[i].attempts >= Limit

\* check_failed_attempts does not look at the window.
FailedAttempts(i) == IF Present(i) THEN counter[i].attempts ELSE 0

\* Failed logins recorded at the times of S.
Failures(S) == SumTo([t \in Times |-> IF t \in S THEN failures[t] ELSE 0], MaxNow)

-----------------------------------------------------------------------------
\* Mutant: a refused login starts the window again.
ArriveProlongs(r) ==
    /\ req[r].pc = "idle"
    /\ IF Refused(Identifier)
       THEN /\ counter' = [counter EXCEPT ![Identifier].start = now,
                                          ![Identifier].expires = now + Window]
            /\ UNCHANGED req
       ELSE /\ Failures(Times) < MaxFailures
            /\ req' = [req EXCEPT ![r].pc = "login"]
            /\ UNCHANGED counter
    /\ UNCHANGED <<now, lockUntil, failures, disturbed>>

\* A login passes the check, which fails open; a refused one (429) counts
\* nowhere and changes nothing.
Arrive(r) ==
    /\ req[r].pc = "idle"
    /\ Failures(Times) < MaxFailures
    /\ ~Refused(Identifier) \/ CacheFails
    /\ req' = [req EXCEPT ![r].pc = "login"]
    /\ UNCHANGED <<now, counter, lockUntil, failures, disturbed>>

\* is_account_locked, and lock_account.
Locked == now < lockUntil
LockAccount == lockUntil' = now + LockFor

\* login_user.  A locked account, an unknown user, a wrong password and an
\* inactive account are all the same 401, the wrong password after a look at the
\* counter of the email; an internal error (500) is not recorded.
LoginUser(r) ==
    /\ req[r].pc = "login"
    /\ \/ /\ ~Locked \/ CacheFails
          /\ req' = [req EXCEPT ![r].pc = "read", ![r].ok = TRUE]
          /\ UNCHANGED lockUntil
       \/ /\ req' = [req EXCEPT ![r].pc = "read", ![r].ok = FALSE]
          /\ IF ~Locked /\ FailedAttempts("email") >= LockAfter
             THEN LockAccount ELSE UNCHANGED lockUntil
       \/ /\ req' = [req EXCEPT ![r] = Idle]
          /\ UNCHANGED lockUntil
    /\ UNCHANGED <<now, counter, failures, disturbed>>

\* Mutant: the window is not looked at, old attempts stay.
NextCountOfOldWindow(i, ok, read) ==
    IF ok THEN [attempts |-> 0, start |-> now]
    ELSE IF read /\ Present(i)
    THEN [attempts |-> counter[i].attempts + 1, start |-> now]
    ELSE [attempts |-> 1, start |-> now]

\* Mutant: the attempts of a window are counted once.
NextCountOnce(i, ok, read) ==
    IF ok THEN [attempts |-> 0, start |-> now]
    ELSE IF read /\ InWindow(i)
    THEN [attempts |-> 1, start |-> counter[i].start]
    ELSE [attempts |-> 1, start |-> now]

\* The counter record_attempt is about to write: zero after a success, one in a
\* new window or without a key, and one more otherwise.
NextCount(i, ok, read) ==
    IF ok THEN [attempts |-> 0, start |-> now]
    ELSE IF read /\ InWindow(i)
    THEN [attempts |-> counter[i].attempts + 1, start |-> counter[i].start]
    ELSE [attempts |-> 1, start |-> now]

\* record_attempt, until the counter has been read: a key that cannot be read
\* counts as none.
ReadCounter(r) ==
    /\ req[r].pc = "read"
    /\ \E read \in {TRUE, ~CacheFails} :
        LET c == NextCount(Identifier, req[r].ok, read) IN
        /\ req' = [req EXCEPT ![r].pc = "write",
                              ![r].attempts = c.attempts, ![r].start = c.start]
        /\ disturbed' = (disturbed \/ ~read \/ \E q \in Requests : req[q].pc = "write")
    /\ failures' = IF req[r].ok THEN failures ELSE [failures EXCEPT ![now] = @ + 1]
    /\ UNCHANGED <<now, counter, lockUntil>>

\* record_attempt writes what it computed, whatever the key holds by now, with a
\* new time to live.
WriteCounter(r) ==
    /\ req[r].pc = "write"
    /\ \/ /\ counter' = [counter EXCEPT ![Identifier] =
                [attempts |-> req[r].attempts, start |-> req[r].start,
                 expires |-> now + Window]]
          /\ UNCHANGED disturbed
       \/ /\ CacheFails
          /\ disturbed' = TRUE
          /\ UNCHANGED counter
    /\ req' = [req EXCEPT ![r] = Idle]
    /\ UNCHANGED <<now, lockUntil, failures>>

\* Time passes, between any two calls.
Tick ==
    /\ now < MaxNow
    /\ now' = now + 1
    /\ UNCHANGED <<counter, lockUntil, req, failures, disturbed>>

LoginStep(r) == LoginUser(r) \/ ReadCounter(r) \/ WriteCounter(r)

Next == Tick \/ \E r \in Requests : Arrive(r) \/ LoginStep(r)

Spec == Init /\ [][Next]_vars
FairSpec == Spec /\ WF_vars(Tick) /\ \A r \in Requests : WF_vars(LoginStep(r))

-----------------------------------------------------------------------------
\* Nobody is refused who did not fail Limit times within the last window: not
\* when logins overlap and write their counters in any order, not when a success
\* falls between two failures, not when a window ends meanwhile.  (Invariant
\* together with the types of the variables.)
RefusedAfterFailures ==
    /\ TypeOK
    /\ Refused(Identifier) =>
        Failures({t \in Times : t + Window > now}) >= Limit

\* The counter misses a failure of its window only when two records overlapped
\* or Redis failed.
CountsEveryFailure ==
    disturbed
    \/ ~InWindow(Identifier)
    \/ LET later == {t \in Times : t > counter[Identifier].start}
           unwritten == IF \E r \in Requests : req[r].pc = "write" /\ ~req[r].ok
                        THEN 1 ELSE 0
       IN  Failures(later) <= counter[Identifier].attempts + unwritten

\* A refusal ends with its window, before the clock of the model stops: neither
\* the refused requests nor the ones in flight prolong it.
RefusalEnds ==
    Refused(Identifier) /\ now + Window <= MaxNow ~> ~Refused(Identifier)

=============================================================================
