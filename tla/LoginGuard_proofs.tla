-------------------------- MODULE LoginGuard_proofs --------------------------
(***************************************************************************)
(* Whom the rate limit of the login refuses and what its counter misses,   *)
(* for every number of requests, limit, window, bound and with or without  *)
(* a failing cache.                                                        *)
(***************************************************************************)
EXTENDS LoginGuard, Sums_proofs, TLAPS

-----------------------------------------------------------------------------
(* The invariant. *)

From(t) == {u \in Times : u >= t}
After(t) == {u \in Times : u > t}

\* Nothing is recorded in the future.
PastInv == \A t \in Times : t > now => failures[t] = 0

\* A counter, in Redis or in the hands of a login about to write it, never counts
\* more than what failed since its window began.
Sound(attempts, start) == start <= now /\ attempts <= Failures(From(start))

SoundInv ==
    /\ Sound(counter[Identifier].attempts, counter[Identifier].start)
    /\ \A r \in Requests : req[r].pc = "write" => Sound(req[r].attempts, req[r].start)

\* As long as nothing disturbs the records there is one writer, and what it is
\* about to write counts every failure of its window.
WriterInv ==
    \A r \in Requests : req[r].pc = "write" =>
        /\ Failures(After(req[r].start)) <= req[r].attempts
        /\ \A q \in Requests : req[q].pc = "write" => q = r

\* Whether a failure is recorded and not written.
Unwritten == \E r \in Requests : req[r].pc = "write" /\ ~req[r].ok

\* The counter in Redis counts every failure of its window but the one in flight.
CounterInv ==
    InWindow(Identifier) =>
        Failures(After(counter[Identifier].start))
            <= counter[Identifier].attempts + (IF Unwritten THEN 1 ELSE 0)

IInv ==
    /\ TypeOK
    /\ PastInv
    /\ SoundInv
    /\ ~disturbed => WriterInv /\ CounterInv

-----------------------------------------------------------------------------
(* Sums of failures. *)

\* Failures are counted by natural numbers, and a larger set of times has more.
LEMMA FailuresType ==
    ASSUME TypeOK, NEW S, NEW T, S \subseteq T
    PROVE  Failures(S) \in Nat /\ Failures(T) \in Nat /\ Failures(S) <= Failures(T)
<1> DEFINE f == [t \in Times |-> IF t \in S THEN failures[t] ELSE 0]
           g == [t \in Times |-> IF t \in T THEN failures[t] ELSE 0]
<1>1. \A t \in 0..MaxNow : failures[t] \in Nat
  BY DEF TypeOK, Times
<1>2. \A i \in 0..MaxNow : f[i] \in Nat
  BY <1>1 DEF Times
<1>3. \A i \in 0..MaxNow : g[i] \in Nat
  BY <1>1 DEF Times
<1>4. \A i \in 0..MaxNow : f[i] <= g[i]
  BY <1>1 DEF Times
<1>5. Failures(S) = SumTo(f, MaxNow) /\ Failures(T) = SumTo(g, MaxNow) /\ MaxNow \in Nat
  BY BoundsAssumption DEF Failures
<1> HIDE DEF f, g
<1> QED
  BY <1>2, <1>3, <1>4, <1>5, SumType, SumMonotone

\* A set of times at which nothing failed has no failures.
LEMMA FailuresNone ==
    ASSUME NEW S, \A t \in Times : t \in S => failures[t] = 0
    PROVE  Failures(S) = 0
<1> DEFINE f == [t \in Times |-> IF t \in S THEN failures[t] ELSE 0]
<1>1. \A i \in 0..MaxNow : f[i] = 0
  BY DEF Times
<1>2. Failures(S) = SumTo(f, MaxNow) /\ MaxNow \in Nat
  BY BoundsAssumption DEF Failures
<1> HIDE DEF f
<1> QED
  BY <1>1, <1>2, SumZero

\* A failure that is recorded now is one more in every set with this time.
LEMMA FailuresAdd ==
    ASSUME TypeOK, TypeOK', NEW S, failures' = [failures EXCEPT ![now] = @ + 1]
    PROVE  Failures(S)' = Failures(S) + (IF now \in S THEN 1 ELSE 0)
<1> DEFINE f == [t \in Times |-> IF t \in S THEN failures[t] ELSE 0]
           g == [t \in Times |-> IF t \in S THEN failures'[t] ELSE 0]
           j == now
<1>1. /\ j \in 0..MaxNow /\ \A t \in 0..MaxNow : failures[t] \in Nat /\ failures'[t] \in Nat
      /\ failures'[j] = failures[j] + 1 /\ \A t \in 0..MaxNow : t # j => failures'[t] = failures[t]
  BY DEF TypeOK, Times
<1>2. /\ \A i \in 0..MaxNow : f[i] \in Nat /\ g[i] \in Nat
      /\ \A i \in 0..MaxNow : i # j => g[i] = f[i]
  BY <1>1 DEF Times
<1>3. g[j] = f[j] + (IF j \in S THEN 1 ELSE 0)
  BY <1>1 DEF Times
<1>4. Failures(S) = SumTo(f, MaxNow) /\ Failures(S)' = SumTo(g, MaxNow) /\ MaxNow \in Nat
  BY BoundsAssumption DEF Failures
<1>5. j \in 0..MaxNow
  BY <1>1
<1> HIDE DEF f, g, j
<1>6. SumTo(g, MaxNow) + f[j] = SumTo(f, MaxNow) + g[j]
  <2>1. \A i \in 0..MaxNow : f[i] \in Nat /\ g[i] \in Nat
    BY <1>2
  <2>2. \A i \in 0..MaxNow : i # j => g[i] = f[i]
    BY <1>2
  <2> QED
    BY <1>4, <1>5, <2>1, <2>2, SumChange
<1>7. SumTo(g, MaxNow) \in Nat /\ SumTo(f, MaxNow) \in Nat
  BY <1>2, <1>4, SumType
<1>8. SumTo(g, MaxNow) = SumTo(f, MaxNow) + (IF j \in S THEN 1 ELSE 0)
  BY <1>2, <1>3, <1>5, <1>6, <1>7
<1> QED
  BY <1>4, <1>8 DEF j

-----------------------------------------------------------------------------
(* The steps. *)

\* The fields of a login and of the counter.
LEMMA Fields ==
    ASSUME TypeOK
    PROVE  /\ now \in Nat /\ now \in Times
           /\ counter[Identifier] \in Count
           /\ counter[Identifier].attempts \in Nat /\ counter[Identifier].start \in Times
           /\ counter[Identifier].expires \in Nat
           /\ \A r \in Requests : /\ req[r].pc \in PCs /\ req[r].ok \in BOOLEAN
                                  /\ req[r].attempts \in Nat /\ req[r].start \in Times
BY BoundsAssumption DEF TypeOK, Times, Identifier, Identifiers, Count, Login

\* An idle login.
LEMMA IdleFields == Idle \in Login /\ Idle.pc = "idle"
BY BoundsAssumption DEF Idle, Login, PCs, Times

\* Failures of no time are there at first.
LEMMA InitInv == Init => IInv
<1> SUFFICES ASSUME Init PROVE IInv
  OBVIOUS
<1>1. 0 \in Times /\ 0 \in 0..MaxNow + LockFor
  BY BoundsAssumption, WindowAssumption DEF Times
<1>2. counter \in [Identifiers -> Count] /\ counter[Identifier] = NoCount
  BY <1>1 DEF Init, Identifiers, Identifier, Count, NoCount
<1>3. TypeOK
  BY <1>1, <1>2, IdleFields DEF Init, TypeOK
<1>4. \A S : Failures(S) = 0
  BY FailuresNone DEF Init
<1>5. \A r \in Requests : req[r].pc = "idle"
  BY IdleFields DEF Init
<1>6. NoCount.start = 0 /\ NoCount.attempts = 0 /\ now = 0
  BY DEF NoCount, Init
<1>7. PastInv
  BY DEF Init, PastInv
<1>8. SoundInv
  BY <1>2, <1>4, <1>5, <1>6 DEF SoundInv, Sound
<1>9. WriterInv
  BY <1>5 DEF WriterInv
<1>10. CounterInv
  <2>1. ~ Unwritten
    BY <1>5 DEF Unwritten
  <2> QED
    BY <1>2, <1>4, <1>6, <2>1 DEF CounterInv
<1> QED
  BY <1>3, <1>7, <1>8, <1>9, <1>10 DEF IInv

\* A step that records nothing and brings no writer keeps the invariant.
LEMMA StillStep ==
    ASSUME IInv, TypeOK', UNCHANGED <<counter, failures, disturbed>>,
           now' = now \/ now' = now + 1,
           \A r \in Requests : req'[r].pc = "write" <=> req[r].pc = "write",
           \A r \in Requests : req[r].pc = "write" => req'[r] = req[r]
    PROVE  IInv'
<1> DEFINE n == now'
<1>1. now \in Nat /\ n \in Nat /\ now <= n
  <2>1. now \in Nat /\ (n = now \/ n = now + 1)
    BY Fields DEF IInv
  <2> HIDE DEF n
  <2> QED
    BY <2>1
<1>2. \A S : Failures(S)' = Failures(S)
  BY DEF Failures
<1>3. PastInv'
  <2>1. \A t \in Times : t > n => t > now
    <3>1. \A t \in Times : t \in Nat
      BY DEF Times
    <3> HIDE DEF n
    <3> QED
      BY <1>1, <3>1
  <2> QED
    BY <2>1 DEF IInv, PastInv
<1>4. ASSUME NEW a \in Nat, NEW s \in Times, Sound(a, s) PROVE Sound(a, s)'
  <2>1. s \in Nat /\ s <= now /\ a <= Failures(From(s))
    BY <1>4 DEF Sound, Times
  <2>2. s <= n
    <3> HIDE DEF n
    <3> QED
      BY <1>1, <2>1
  <2>3. Failures(From(s))' = Failures(From(s))
    BY <1>2
  <2> QED
    BY <2>1, <2>2, <2>3 DEF Sound, From
<1>5. SoundInv'
  <2>1. Sound(counter[Identifier].attempts, counter[Identifier].start)'
    <3>1. PICK a \in Nat, s \in Times :
            counter[Identifier].attempts = a /\ counter[Identifier].start = s
      BY Fields DEF IInv
    <3> QED
      BY <1>4, <3>1 DEF IInv, SoundInv, Sound
  <2>2. ASSUME NEW r \in Requests, req'[r].pc = "write"
        PROVE  Sound(req[r].attempts, req[r].start)'
    <3>1. PICK a \in Nat, s \in Times : req[r].attempts = a /\ req[r].start = s
      BY Fields DEF IInv
    <3>2. req'[r] = req[r] /\ req[r].pc = "write"
      BY <2>2
    <3> QED
      BY <1>4, <3>1, <3>2 DEF IInv, SoundInv, Sound
  <2> QED
    BY <2>1, <2>2 DEF SoundInv
<1>6. ASSUME ~disturbed' PROVE WriterInv' /\ CounterInv'
  <2>1. WriterInv /\ CounterInv
    BY <1>6 DEF IInv
  <2>2. WriterInv'
    <3>1. \A r \in Requests : Failures(After(req[r].start))' = Failures(After(req'[r].start))
      BY DEF Failures, After
    <3> QED
      BY <2>1, <3>1 DEF WriterInv
  <2>3. Unwritten' <=> Unwritten
    BY DEF Unwritten
  <2>4. InWindow(Identifier)' => InWindow(Identifier)
    <3>1. PICK e \in Nat, s \in Nat :
            counter[Identifier].expires = e /\ counter[Identifier].start = s
      BY Fields DEF IInv, Times
    <3>2. InWindow(Identifier) <=> (now < e /\ now - s < Window)
      BY <3>1 DEF InWindow, Present
    <3>3. InWindow(Identifier)' <=> (n < e /\ n - s < Window)
      BY <3>1 DEF InWindow, Present, Identifier
    <3> HIDE DEF n
    <3>4. n < e /\ n - s < Window => now < e /\ now - s < Window
      BY <1>1, WindowAssumption
    <3> QED
      BY <3>2, <3>3, <3>4
  <2>5. CounterInv'
    <3>1. Failures(After(counter[Identifier].start))' = Failures(After(counter[Identifier].start))
      BY DEF Failures, After, Identifier
    <3> QED
      BY <2>1, <2>3, <2>4, <3>1 DEF CounterInv, Identifier
  <2> QED
    BY <2>2, <2>5
<1> QED
  BY <1>3, <1>5, <1>6 DEF IInv

\* Time passes.
LEMMA TickInv == ASSUME IInv, Tick PROVE IInv'
<1> DEFINE n == now'
<1>1. n \in Times
  <2>1. now \in Nat /\ now < MaxNow /\ n = now + 1
    BY Fields DEF IInv, Tick
  <2> HIDE DEF n
  <2> QED
    BY <2>1, BoundsAssumption DEF Times
<1>2. UNCHANGED <<counter, lockUntil, req, failures, disturbed>> /\ now' = now + 1
  BY DEF Tick
<1>3. TypeOK'
  BY <1>1, <1>2 DEF IInv, TypeOK
<1> QED
  BY <1>2, <1>3, StillStep

\* A login arrives, or is answered by login_user.
LEMMA LoginInv == ASSUME IInv, NEW r \in Requests, Arrive(r) \/ LoginUser(r) PROVE IInv'
<1>1. /\ UNCHANGED <<now, counter, failures, disturbed>>
      /\ req[r].pc \in {"idle", "login"}
  BY DEF Arrive, LoginUser
<1>2. lockUntil' \in 0..MaxNow + LockFor
  <2> DEFINE u == lockUntil'
  <2>1. now \in Times /\ now \in Nat /\ lockUntil \in 0..MaxNow + LockFor
    BY Fields DEF IInv, TypeOK
  <2>2. u = lockUntil \/ u = now + LockFor
    BY DEF Arrive, LoginUser, LockAccount
  <2> HIDE DEF u
  <2>3. u \in 0..MaxNow + LockFor
    BY <2>1, <2>2, BoundsAssumption, WindowAssumption DEF Times
  <2> QED
    BY <2>3 DEF u
<1>3. PICK h \in Login : req' = [req EXCEPT ![r] = h] /\ h.pc # "write"
  <2>1. CASE Arrive(r)
    <3> DEFINE h == [req[r] EXCEPT !.pc = "login"]
    <3>1. h \in Login /\ h.pc = "login"
      BY DEF IInv, TypeOK, Login, PCs
    <3>2. req' = [req EXCEPT ![r] = h]
      BY <2>1 DEF Arrive, IInv, TypeOK
    <3> QED
      BY <3>1, <3>2
  <2>2. CASE LoginUser(r)
    <3>1. CASE req' = [req EXCEPT ![r] = Idle]
      BY <3>1, IdleFields
    <3>2. ASSUME NEW b \in BOOLEAN, req' = [req EXCEPT ![r].pc = "read", ![r].ok = b]
          PROVE  \E h \in Login : req' = [req EXCEPT ![r] = h] /\ h.pc # "write"
      <4> DEFINE h == [req[r] EXCEPT !.pc = "read", !.ok = b]
      <4>1. h \in Login /\ h.pc = "read"
        BY DEF IInv, TypeOK, Login, PCs
      <4>2. req' = [req EXCEPT ![r] = h]
        BY <3>2 DEF IInv, TypeOK
      <4> QED
        BY <4>1, <4>2
    <3> QED
      BY <2>2, <3>1, <3>2 DEF LoginUser
  <2> QED
    BY <2>1, <2>2
<1>4. req' \in [Requests -> Login] /\ req'[r] = h /\ \A q \in Requests \ {r} : req'[q] = req[q]
  BY <1>3 DEF IInv, TypeOK
<1>5. TypeOK'
  BY <1>1, <1>2, <1>4 DEF IInv, TypeOK
<1> QED
  BY <1>1, <1>3, <1>4, <1>5, StillStep

\* record_attempt reads the counter and computes the next one.
LEMMA ReadCounterInv == ASSUME IInv, NEW r \in Requests, ReadCounter(r) PROVE IInv'
<1> DEFINE d == counter[Identifier]
           ok == req[r].ok
<1>1. /\ now \in Nat /\ now \in Times /\ d.attempts \in Nat /\ d.start \in Times
      /\ ok \in BOOLEAN /\ req[r].pc = "read"
      /\ UNCHANGED <<now, counter, lockUntil>>
      /\ failures' = IF ok THEN failures ELSE [failures EXCEPT ![now] = @ + 1]
      /\ d.start <= now /\ d.attempts <= Failures(From(d.start))
  BY Fields DEF IInv, ReadCounter, SoundInv, Sound
<1>2. PICK read \in BOOLEAN, a \in Nat, s \in Times :
        /\ req' = [req EXCEPT ![r].pc = "write", ![r].attempts = a, ![r].start = s]
        /\ disturbed' = (disturbed \/ ~read \/ \E q \in Requests : req[q].pc = "write")
        /\ \/ ok /\ a = 0 /\ s = now
           \/ ~ok /\ InWindow(Identifier) /\ a = d.attempts + 1 /\ s = d.start
           \/ ~ok /\ a = 1 /\ s = now
  <2>1. PICK read \in BOOLEAN :
            /\ req' = [req EXCEPT ![r].pc = "write",
                                  ![r].attempts = NextCount(Identifier, ok, read).attempts,
                                  ![r].start = NextCount(Identifier, ok, read).start]
            /\ disturbed' = (disturbed \/ ~read \/ \E q \in Requests : req[q].pc = "write")
    BY CacheFailsAssumption DEF ReadCounter
  <2> DEFINE c == NextCount(Identifier, ok, read)
  <2>2. \/ ok /\ c.attempts = 0 /\ c.start = now
        \/ ~ok /\ InWindow(Identifier) /\ c.attempts = d.attempts + 1 /\ c.start = d.start
        \/ ~ok /\ c.attempts = 1 /\ c.start = now
    BY DEF NextCount
  <2>3. c.attempts \in Nat /\ c.start \in Times
    BY <1>1, <2>2
  <2> HIDE DEF c, ok, d
  <2>4. req' = [req EXCEPT ![r].pc = "write", ![r].attempts = c.attempts, ![r].start = c.start]
    BY <2>1 DEF c
  <2> QED
    BY <2>1, <2>2, <2>3, <2>4
<1>3. PICK h \in Login :
        /\ req' = [req EXCEPT ![r] = h]
        /\ h.pc = "write" /\ h.ok = ok /\ h.attempts = a /\ h.start = s
  <2> DEFINE h == [req[r] EXCEPT !.pc = "write", !.attempts = a, !.start = s]
  <2>1. h \in Login /\ h.pc = "write" /\ h.ok = ok /\ h.attempts = a /\ h.start = s
    BY DEF IInv, TypeOK, Login, PCs
  <2>2. req' = [req EXCEPT ![r] = h]
    BY <1>2 DEF IInv, TypeOK
  <2> QED
    BY <2>1, <2>2
<1>4. req' \in [Requests -> Login] /\ req'[r] = h /\ \A q \in Requests \ {r} : req'[q] = req[q]
  BY <1>3 DEF IInv, TypeOK
<1>5. TypeOK'
  <2>1. failures' \in [Times -> Nat]
    BY <1>1 DEF IInv, TypeOK
  <2>2. disturbed' \in BOOLEAN
    BY <1>2
  <2> QED
    BY <1>1, <1>4, <2>1, <2>2 DEF IInv, TypeOK
<1>6. ASSUME NEW S
      PROVE  /\ Failures(S) \in Nat
             /\ Failures(S)' = Failures(S) + (IF ~ok /\ now \in S THEN 1 ELSE 0)
  <2>1. Failures(S) \in Nat
    BY FailuresType DEF IInv
  <2>2. CASE ok
    <3>1. Failures(S)' = Failures(S)
      BY <1>1, <2>2 DEF Failures
    <3> QED
      BY <2>1, <2>2, <3>1
  <2>3. CASE ~ok
    <3>1. Failures(S)' = Failures(S) + (IF now \in S THEN 1 ELSE 0)
      BY <1>1, <1>5, <2>3, FailuresAdd DEF IInv
    <3> QED
      BY <2>1, <2>3, <3>1
  <2> QED
    BY <2>1, <2>2, <2>3
<1>7. PastInv'
  BY <1>1 DEF IInv, PastInv, TypeOK
<1>8. Failures(After(now)) = 0 /\ now \notin After(now) /\ now \in From(now)
  <2>1. \A t \in Times : t \in Nat
    BY DEF Times
  <2>2. \A t \in Times : t \in After(now) => failures[t] = 0
    BY DEF IInv, PastInv, After
  <2> QED
    BY <1>1, <2>1, <2>2, FailuresNone DEF After, From
<1>9. now \in From(d.start)
  BY <1>1 DEF From, Times
<1> HIDE DEF ok
<1>10. SoundInv'
  <2>1. Sound(d.attempts, d.start)'
    <3> DEFINE F == Failures(From(d.start))  G == Failures(From(d.start))'
    <3>1. F \in Nat /\ G = F + (IF ~ok /\ now \in From(d.start) THEN 1 ELSE 0)
          /\ d.attempts <= F /\ d.attempts \in Nat
      <4>1. PICK x \in Times : x = d.start
        BY <1>1
      <4>2. Failures(From(x))' = Failures(From(x)) + (IF ~ok /\ now \in From(x) THEN 1 ELSE 0)
            /\ Failures(From(x)) \in Nat
        BY <1>6
      <4>3. d' = d
        BY <1>1 DEF Identifier
      <4>4. Failures(From(d.start))' = Failures(From(x))'
        BY <4>1, <4>3 DEF Failures, From, Identifier
      <4> QED
        BY <1>1, <4>1, <4>2, <4>4
    <3>2. d' = d /\ now' = now
      BY <1>1 DEF Identifier
    <3> HIDE DEF F, G, d
    <3>3. d.attempts <= G
      BY <3>1
    <3> QED
      BY <1>1, <3>2, <3>3 DEF Sound, G, d
  <2>2. ASSUME NEW q \in Requests, q # r, req'[q].pc = "write"
        PROVE  Sound(req[q].attempts, req[q].start)'
    <3>1. PICK b \in Nat, x \in Times : req[q].attempts = b /\ req[q].start = x
      BY Fields DEF IInv
    <3>2. req'[q] = req[q] /\ x <= now /\ b <= Failures(From(x))
      BY <1>4, <2>2, <3>1 DEF IInv, SoundInv, Sound
    <3> DEFINE F == Failures(From(x))  G == Failures(From(x))'
    <3>3. F \in Nat /\ G = F + (IF ~ok /\ now \in From(x) THEN 1 ELSE 0)
      BY <1>6
    <3>4. b <= F
      BY <3>2
    <3> HIDE DEF F, G
    <3>5. b <= G
      BY <3>3, <3>4
    <3>6. Failures(From(req[q].start))' = G
      BY <3>1, <3>2 DEF Failures, From, G
    <3>7. req'[q].attempts = b /\ req'[q].start = x /\ x <= now /\ now' = now
      BY <1>1, <3>1, <3>2
    <3> QED
      BY <3>5, <3>6, <3>7 DEF Sound
  <2>3. s <= now /\ a <= Failures(From(s))'
    <3> DEFINE F == Failures(From(s))  G == Failures(From(s))'
    <3>1. F \in Nat /\ G = F + (IF ~ok /\ now \in From(s) THEN 1 ELSE 0)
      BY <1>6
    <3>2. a = 0 \/ (~ok /\ now \in From(s) /\ a = 1) \/ (~ok /\ now \in From(s) /\ a <= F + 1)
      <4>1. CASE ok
        BY <1>2, <4>1
      <4>2. CASE ~ok /\ a = d.attempts + 1 /\ s = d.start
        <5>1. d.attempts <= F /\ d.attempts \in Nat /\ F \in Nat /\ now \in From(s)
          BY <1>1, <1>9, <3>1, <4>2
        <5> HIDE DEF F, d
        <5> QED
          BY <4>2, <5>1
      <4>3. CASE ~ok /\ a = 1 /\ s = now
        BY <1>8, <4>3
      <4> QED
        BY <1>2, <4>1, <4>2, <4>3
    <3> HIDE DEF F, G
    <3>3. a <= G
      BY <3>1, <3>2
    <3>4. s <= now
      BY <1>1, <1>2
    <3> QED
      BY <3>3, <3>4 DEF G
  <2>4. Sound(req[r].attempts, req[r].start)'
    <3>1. Failures(From(req[r].start))' = Failures(From(s))'
      BY <1>3, <1>4 DEF Failures, From
    <3> QED
      BY <1>1, <1>3, <1>4, <2>3, <3>1 DEF Sound
  <2> QED
    BY <2>1, <2>2, <2>4 DEF SoundInv
<1>11. ASSUME ~disturbed' PROVE WriterInv' /\ CounterInv'
  <2>1. ~disturbed /\ \A q \in Requests : req[q].pc # "write"
    BY <1>2, <1>11
  <2>2. ~Unwritten /\ CounterInv
    BY <2>1 DEF Unwritten, IInv
  <2>3. Unwritten' <=> ~ok
    BY <1>3, <1>4, <2>1 DEF Unwritten
  <2>4. Failures(After(s))' <= a
    <3> DEFINE F == Failures(After(s))  G == Failures(After(s))'
    <3>1. F \in Nat /\ G = F + (IF ~ok /\ now \in After(s) THEN 1 ELSE 0)
      BY <1>6
    <3>2. \/ ok /\ a = 0 /\ F = 0
          \/ a = 1 /\ F = 0 /\ now \notin After(s)
          \/ a \in Nat /\ F + 1 <= a
      <4>1. CASE InWindow(Identifier) /\ a = d.attempts + 1 /\ s = d.start
        <5>1. F <= d.attempts + (IF Unwritten THEN 1 ELSE 0)
          BY <2>2, <4>1 DEF CounterInv
        <5>2. F <= d.attempts + 0
          BY <2>2, <5>1
        <5>3. d.attempts \in Nat
          BY <1>1
        <5> HIDE DEF F, d
        <5> QED
          BY <3>1, <4>1, <5>2, <5>3
      <4> QED
        BY <1>2, <1>8, <4>1
    <3> HIDE DEF F, G
    <3>3. G <= a
      BY <3>1, <3>2
    <3> QED
      BY <3>3 DEF G
  <2>5. WriterInv'
    BY <1>3, <1>4, <2>1, <2>4 DEF WriterInv, After, Failures
  <2>6. CounterInv'
    <3>1. PICK b \in Nat, x \in Times : d.attempts = b /\ d.start = x
      BY <1>1
    <3>2. counter'[Identifier].attempts = b /\ counter'[Identifier].start = x
      BY <1>1, <3>1
    <3>3. InWindow(Identifier)' => Failures(After(x)) <= b + 0
      <4>1. InWindow(Identifier)' <=> InWindow(Identifier)
        BY <1>1 DEF InWindow, Present, Identifier
      <4>2. InWindow(Identifier) => Failures(After(x)) <= b + (IF Unwritten THEN 1 ELSE 0)
        BY <2>2, <3>1 DEF CounterInv
      <4> QED
        BY <2>2, <4>1, <4>2
    <3> DEFINE F == Failures(After(x))  G == Failures(After(x))'
               v == IF Unwritten' THEN 1 ELSE 0
    <3>4. F \in Nat /\ G = F + (IF ~ok /\ now \in After(x) THEN 1 ELSE 0)
          /\ v = IF ~ok THEN 1 ELSE 0
      BY <1>6, <2>3
    <3>5. Failures(After(counter[Identifier].start))' = G
      BY <3>1, <3>2 DEF Failures, After, Identifier
    <3>6. F <= b + 0 => G <= b + v
      <4> HIDE DEF F, G, v
      <4> QED
        BY <3>4
    <3> QED
      BY <3>2, <3>3, <3>5, <3>6 DEF CounterInv, Identifier
  <2> QED
    BY <2>5, <2>6
<1> QED
  BY <1>5, <1>7, <1>10, <1>11 DEF IInv

\* record_attempt writes what it has computed, or Redis fails.
LEMMA WriteCounterInv == ASSUME IInv, NEW r \in Requests, WriteCounter(r) PROVE IInv'
<1> DEFINE a == req[r].attempts
           s == req[r].start
<1>1. /\ req[r].pc = "write" /\ now \in Nat /\ Window \in Nat
      /\ req' = [req EXCEPT ![r] = Idle]
      /\ UNCHANGED <<now, lockUntil, failures>>
      /\ a \in Nat /\ s \in Times /\ Sound(a, s)
  BY Fields, WindowAssumption DEF WriteCounter, IInv, SoundInv
<1>2. /\ req' \in [Requests -> Login] /\ req'[r].pc = "idle"
      /\ \A q \in Requests \ {r} : req'[q] = req[q]
  BY <1>1, IdleFields DEF IInv, TypeOK
<1>3. \/ /\ counter'[Identifier].attempts = a /\ counter'[Identifier].start = s
         /\ counter' \in [Identifiers -> Count] /\ disturbed' = disturbed
      \/ disturbed' = TRUE /\ counter' = counter
  <2>1. CASE counter' = [counter EXCEPT ![Identifier] =
                [attempts |-> a, start |-> s, expires |-> now + Window]]
    <3> DEFINE c == [attempts |-> a, start |-> s, expires |-> now + Window]
    <3>1. c \in Count /\ c.attempts = a /\ c.start = s
      BY <1>1 DEF Count
    <3>2. Identifier \in Identifiers
      BY DEF Identifier, Identifiers
    <3> HIDE DEF c
    <3>3. counter' = [counter EXCEPT ![Identifier] = c]
      BY <2>1 DEF c
    <3>4. counter'[Identifier] = c /\ counter' \in [Identifiers -> Count]
      BY <3>1, <3>2, <3>3 DEF IInv, TypeOK
    <3> HIDE DEF a, s
    <3>5. counter'[Identifier].attempts = a /\ counter'[Identifier].start = s
      BY <3>1, <3>4
    <3>6. disturbed' = disturbed \/ (disturbed' = TRUE /\ counter' = counter)
      BY DEF WriteCounter
    <3> QED
      BY <3>4, <3>5, <3>6
  <2>2. CASE disturbed' = TRUE /\ counter' = counter
    BY <2>2
  <2> QED
    BY <2>1, <2>2 DEF WriteCounter
<1>4. TypeOK'
  <2>1. counter' \in [Identifiers -> Count] /\ disturbed' \in BOOLEAN
    BY <1>3 DEF IInv, TypeOK
  <2> QED
    BY <1>1, <1>2, <2>1 DEF IInv, TypeOK
<1>5. PastInv'
  BY <1>1 DEF IInv, PastInv
<1>6. ASSUME NEW b, NEW x, Sound(b, x) PROVE Sound(b, x)'
  BY <1>1, <1>6 DEF Sound, Failures, From
<1>7. SoundInv'
  <2>1. Sound(counter[Identifier].attempts, counter[Identifier].start)'
    <3>1. PICK b, x : /\ Sound(b, x)
                      /\ counter'[Identifier].attempts = b /\ counter'[Identifier].start = x
      BY <1>1, <1>3 DEF IInv, SoundInv
    <3>2. Sound(b, x)'
      BY <1>6, <3>1
    <3> QED
      BY <3>1, <3>2 DEF Sound, Identifier
  <2>2. ASSUME NEW q \in Requests, req'[q].pc = "write"
        PROVE  Sound(req[q].attempts, req[q].start)'
    <3>1. PICK b, x : b = req[q].attempts /\ x = req[q].start
      OBVIOUS
    <3>2. q # r /\ Sound(b, x) /\ req'[q] = req[q]
      BY <1>2, <2>2, <3>1 DEF IInv, SoundInv
    <3>3. Sound(b, x)'
      BY <1>6, <3>2
    <3> QED
      BY <3>1, <3>2, <3>3 DEF Sound
  <2> QED
    BY <2>1, <2>2 DEF SoundInv
<1>8. ASSUME ~disturbed' PROVE WriterInv' /\ CounterInv'
  <2>1. /\ counter'[Identifier].attempts = a /\ counter'[Identifier].start = s
        /\ ~disturbed /\ WriterInv
    BY <1>3, <1>8 DEF IInv
  <2>2. \A q \in Requests : req'[q].pc # "write"
    BY <1>1, <1>2, <2>1 DEF WriterInv
  <2>3. Failures(After(s)) <= a
    BY <1>1, <2>1 DEF WriterInv
  <2>4. Failures(After(counter[Identifier].start))' = Failures(After(s))
    BY <1>1, <2>1 DEF Failures, After, Identifier
  <2>5. ~ Unwritten'
    BY <2>2 DEF Unwritten
  <2>6. CounterInv'
    <3>1. Failures(After(counter[Identifier].start))' <= counter'[Identifier].attempts + 0
      BY <1>1, <2>1, <2>3, <2>4
    <3> QED
      BY <2>5, <3>1 DEF CounterInv, Identifier
  <2> QED
    BY <2>2, <2>6 DEF WriterInv
<1> QED
  BY <1>4, <1>5, <1>7, <1>8 DEF IInv

\* Every step keeps the invariant.
LEMMA NextInv == IInv /\ [Next]_vars => IInv'
<1> SUFFICES ASSUME IInv, [Next]_vars PROVE IInv'
  OBVIOUS
<1>1. CASE UNCHANGED vars
  <2>1. UNCHANGED <<now, counter, lockUntil, req, failures, disturbed>>
    BY <1>1 DEF vars
  <2>2. TypeOK'
    BY <2>1 DEF IInv, TypeOK
  <2> QED
    BY <2>1, <2>2, StillStep
<1> QED
  BY <1>1, TickInv, LoginInv, ReadCounterInv, WriteCounterInv DEF Next, LoginStep

\* The inductive invariant holds in every state.
THEOREM Invariance == Spec => []IInv
BY InitInv, NextInv, PTL DEF Spec

\* Whoever is refused failed Limit times within the last window, and every
\* variable has its type.
THEOREM RefusalsAreEarned == Spec => []RefusedAfterFailures
<1>1. ASSUME IInv PROVE RefusedAfterFailures
  <2> DEFINE d == counter[Identifier]
             S == {t \in Times : t + Window > now}
  <2>1. ASSUME Refused(Identifier) PROVE Failures(S) >= Limit
    <3>1. /\ d.attempts \in Nat /\ d.start \in Nat /\ now \in Nat
          /\ d.attempts >= Limit /\ now - d.start < Window
          /\ d.attempts <= Failures(From(d.start))
      BY <1>1, <2>1, Fields DEF Refused, InWindow, IInv, SoundInv, Sound, Times
    <3>2. From(d.start) \subseteq S
      <4>1. ASSUME NEW t \in Nat, t >= d.start PROVE t + Window > now
        BY <3>1, <4>1, WindowAssumption
      <4> QED
        BY <4>1 DEF From, Times
    <3>3. /\ Failures(From(d.start)) \in Nat /\ Failures(S) \in Nat
          /\ Failures(From(d.start)) <= Failures(S)
      BY <1>1, <3>2, FailuresType DEF IInv
    <3> HIDE DEF d, S
    <3> QED
      BY <3>1, <3>3, LimitAssumption
  <2> QED
    BY <1>1, <2>1 DEF RefusedAfterFailures, IInv
<1> QED
  BY <1>1, Invariance, PTL

\* The counter misses a failure of its window only after an overlap or a fault.
THEOREM FailuresAreCounted == Spec => []CountsEveryFailure
<1>1. ASSUME IInv PROVE CountsEveryFailure
  <2>1. CASE disturbed \/ ~InWindow(Identifier)
    BY <2>1 DEF CountsEveryFailure
  <2>2. CASE ~disturbed /\ InWindow(Identifier)
    BY <1>1, <2>2 DEF CountsEveryFailure, IInv, CounterInv, After, Unwritten
  <2> QED
    BY <2>1, <2>2
<1> QED
  BY <1>1, Invariance, PTL

=============================================================================
