------------------------- MODULE PasswordReset_proofs -------------------------
(***************************************************************************)
(* The mail queue loses nothing and duplicates only by accident, and what  *)
(* codes and tokens are good for, for every number of mails, workers,      *)
(* retries, accidents, requests and tokens and every set of faults.        *)
(***************************************************************************)
EXTENDS PasswordReset, Sums_proofs, FiniteSetTheorems, TLAPS

-----------------------------------------------------------------------------
(* The mail queue: the invariant. *)

\* A process has a mail at hand exactly while it is not idle.
HandsInv == \A w \in Workers : worker[w].pc = "idle" <=> worker[w].mail = NoMail

\* Nothing happens to a mail nobody has asked for.
UntouchedInv ==
    \A m \in Mails \ asked :
        /\ mailed[m] = 0
        /\ \A n \in Attempts : queue[m][n] = 0
        /\ \A w \in Workers : worker[w].mail # m

\* A message whose task has ended needs no acknowledgement to account for its
\* mail: by then the mail is sent or given up, or the next attempt is queued.
Accounted(m) == mailed[m] > 0 \/ Waiting(m) \/ Trying(m) # {} \/ m \in dropped

DuplicatesInv == \A m \in Mails : mailed[m] + Outstanding(m) <= 1 + accidents

MailInv ==
    /\ MailTypeOK
    /\ HandsInv
    /\ UntouchedInv
    /\ \A m \in asked : Accounted(m)
    /\ DuplicatesInv

-----------------------------------------------------------------------------
(* What is outstanding, and how a step changes it. *)

\* The fields of a worker.
LEMMA WorkerFields ==
    ASSUME MailTypeOK, NEW w \in Workers
    PROVE  /\ worker[w].pc \in WorkerPCs /\ worker[w].mail \in Mails \cup {NoMail}
           /\ worker[w].tries \in Attempts /\ worker[w].late \in BOOLEAN
BY DEF MailTypeOK, Worker

\* The fields of an idle worker.
LEMMA IdleWorkerFields ==
    IdleWorker \in Worker /\ IdleWorker.pc = "idle" /\ IdleWorker.mail = NoMail
BY MaxRetriesAssumption DEF IdleWorker, Worker, WorkerPCs, Attempts

\* The numbers of messages of a mail, and their sum, are natural numbers.
LEMMA OutstandingType ==
    ASSUME MailTypeOK, NEW m \in Mails
    PROVE  /\ SumTo(queue[m], MaxRetries) \in Nat
           /\ \A n \in 0..MaxRetries : queue[m][n] \in Nat
           /\ IsFiniteSet(Trying(m)) /\ Cardinality(Trying(m)) \in Nat
<1>1. \A n \in 0..MaxRetries : queue[m][n] \in Nat
  BY DEF MailTypeOK, Attempts
<1>2. SumTo(queue[m], MaxRetries) \in Nat
  BY <1>1, SumType, MaxRetriesAssumption
<1>3. IsFiniteSet(Trying(m))
  BY WorkersAssumption, FS_Subset DEF Trying
<1> QED
  BY <1>1, <1>2, <1>3, FS_CardinalityType

\* Finite sets that differ in one element at most.
LEMMA CardChange ==
    ASSUME NEW S, NEW T, NEW x, IsFiniteSet(S), S \ {x} = T \ {x}
    PROVE  /\ IsFiniteSet(T) /\ Cardinality(S) \in Nat /\ Cardinality(T) \in Nat
           /\ Cardinality(T) + (IF x \in S THEN 1 ELSE 0)
                = Cardinality(S) + (IF x \in T THEN 1 ELSE 0)
<1>1. IsFiniteSet(S \ {x})
      /\ Cardinality(S \ {x}) = IF x \in S THEN Cardinality(S) - 1 ELSE Cardinality(S)
  BY FS_RemoveElement
<1>2. IsFiniteSet(T)
  <2>1. IsFiniteSet((T \ {x}) \cup {x}) /\ IsFiniteSet(T \ {x})
    BY <1>1, FS_AddElement
  <2>2. T \subseteq (T \ {x}) \cup {x}
    OBVIOUS
  <2> QED
    BY <2>1, <2>2, FS_Subset
<1>3. Cardinality(T \ {x}) = IF x \in T THEN Cardinality(T) - 1 ELSE Cardinality(T)
  BY <1>2, FS_RemoveElement
<1>4. Cardinality(S) \in Nat /\ Cardinality(T) \in Nat
  BY <1>2, FS_CardinalityType
<1>5. (IF x \in S THEN Cardinality(S) - 1 ELSE Cardinality(S))
        = (IF x \in T THEN Cardinality(T) - 1 ELSE Cardinality(T))
  BY <1>1, <1>3
<1> QED
  BY <1>2, <1>4, <1>5

\* One process changes what it does.
LEMMA TryingStep ==
    ASSUME MailTypeOK, MailTypeOK', NEW w \in Workers, NEW m \in Mails,
           \A q \in Workers \ {w} : worker'[q] = worker[q]
    PROVE  Cardinality(Trying(m)') + (IF w \in Trying(m) THEN 1 ELSE 0)
            = Cardinality(Trying(m)) + (IF w \in Trying(m)' THEN 1 ELSE 0)
<1>1. IsFiniteSet(Trying(m)) /\ Trying(m) \ {w} = Trying(m)' \ {w}
  BY OutstandingType DEF Trying
<1> QED
  BY <1>1, CardChange

\* A step of a process about one mail keeps the invariant if it accounts for
\* the mail and if what it mails and queues is balanced by what it took from
\* the queue, by the attempt it ends, or by an accident.
LEMMA MailStep ==
    ASSUME MailInv, MailTypeOK', NEW w \in Workers, NEW m \in Mails, NEW n \in Attempts,
           \A q \in Workers \ {w} : worker'[q] = worker[q],
           worker[w].mail \in {m, NoMail}, worker'[w].mail \in {m, NoMail},
           worker'[w].pc = "idle" <=> worker'[w].mail = NoMail,
           worker[w].mail = m \/ queue[m][n] > 0,
           \A k \in Mails \ {m} : mailed'[k] = mailed[k] /\ queue'[k] = queue[k],
           \A i \in Attempts \ {n} : queue'[m][i] = queue[m][i],
           asked' = asked, dropped \subseteq dropped',
           Accounted(m)',
           mailed'[m] + queue'[m][n] + (IF w \in Trying(m)' THEN 1 ELSE 0) + accidents
            <= mailed[m] + queue[m][n] + (IF w \in Trying(m) THEN 1 ELSE 0) + accidents',
           accidents <= accidents'
    PROVE  MailInv'
<1> USE DEF MailInv
<1>1. HandsInv'
  BY DEF HandsInv
<1>2. m \in asked
  BY DEF UntouchedInv
<1>3. UntouchedInv'
  <2>1. \A k \in Mails \ asked : k # m /\ k # NoMail
    BY <1>2, NoMailAssumption
  <2> QED
    BY <2>1 DEF UntouchedInv
<1>4. ASSUME NEW k \in asked PROVE Accounted(k)'
  <2>1. CASE k # m
    <3>1. k \in Mails /\ k # NoMail /\ mailed'[k] = mailed[k] /\ queue'[k] = queue[k]
      BY <1>4, <2>1, NoMailAssumption DEF MailTypeOK
    <3>2. Trying(k)' = Trying(k)
      BY <2>1, <3>1 DEF Trying
    <3>3. Accounted(k)
      BY <1>4
    <3> QED
      BY <3>1, <3>2, <3>3 DEF Accounted, Waiting
  <2> QED
    BY <2>1
<1>5. ASSUME NEW k \in Mails PROVE mailed'[k] + Outstanding(k)' <= 1 + accidents'
  <2> DEFINE Q == SumTo(queue[k], MaxRetries)
             P == SumTo(queue'[k], MaxRetries)
             C == Cardinality(Trying(k))
             D == Cardinality(Trying(k)')
  <2>1. /\ Q \in Nat /\ C \in Nat /\ mailed[k] \in Nat /\ mailed[k] + (Q + C) <= 1 + accidents
        /\ accidents \in Nat /\ accidents' \in Nat /\ mailed'[k] \in Nat
    BY OutstandingType, MaxAccidentsAssumption DEF DuplicatesInv, Outstanding, MailTypeOK
  <2>2. \A i \in 0..MaxRetries : queue'[k][i] \in Nat /\ queue[k][i] \in Nat
    BY DEF MailTypeOK, Attempts
  <2>3. P \in Nat /\ D \in Nat
    <3>1. IsFiniteSet(Trying(k)')
      BY WorkersAssumption, FS_Subset DEF Trying
    <3> QED
      BY <2>2, <3>1, SumType, FS_CardinalityType, MaxRetriesAssumption
  <2>4. Outstanding(k)' = P + D
    BY DEF Outstanding
  <2>5. CASE k # m
    <3>1. P = Q /\ mailed'[k] = mailed[k]
      BY <2>5
    <3>2. Trying(k)' = Trying(k)
      BY <2>5, NoMailAssumption DEF Trying
    <3> HIDE DEF Q, P
    <3>3. D = C
      BY <3>2
    <3> HIDE DEF C, D
    <3> QED
      BY <2>1, <2>4, <3>1, <3>3
  <2>6. CASE k = m
    <3>1. P + queue[m][n] = Q + queue'[m][n]
      <4>1. n \in 0..MaxRetries /\ \A i \in 0..MaxRetries : i # n => queue'[k][i] = queue[k][i]
        BY <2>6 DEF Attempts
      <4> QED
        BY <2>2, <2>6, <4>1, SumChange, MaxRetriesAssumption
    <3>2. D + (IF w \in Trying(m) THEN 1 ELSE 0) = C + (IF w \in Trying(m)' THEN 1 ELSE 0)
      BY <2>6, TryingStep
    <3>3. queue[m][n] \in Nat /\ queue'[m][n] \in Nat
      BY <2>2, <2>6 DEF Attempts
    <3> DEFINE b == IF w \in Trying(m) THEN 1 ELSE 0
               c == IF w \in Trying(m)' THEN 1 ELSE 0
    <3>4. b \in Nat /\ c \in Nat /\ D + b = C + c
          /\ mailed'[k] + queue'[m][n] + c + accidents
                <= mailed[k] + queue[m][n] + b + accidents'
      BY <2>6, <3>2
    <3> HIDE DEF P, Q, C, D, b, c
    <3> QED
      BY <2>1, <2>3, <2>4, <3>1, <3>3, <3>4
  <2> QED
    BY <2>5, <2>6
<1> QED
  BY <1>1, <1>3, <1>4, <1>5 DEF DuplicatesInv

-----------------------------------------------------------------------------
(* The mail queue: the steps. *)

\* The empty queue satisfies the invariant.
LEMMA MailInitInv == MailInit => MailInv
<1> SUFFICES ASSUME MailInit PROVE MailInv
  OBVIOUS
<1>1. MailTypeOK /\ HandsInv /\ UntouchedInv
  BY IdleWorkerFields, NoMailAssumption, MaxAccidentsAssumption
     DEF MailInit, MailTypeOK, HandsInv, UntouchedInv
<1>2. ASSUME NEW m \in Mails PROVE mailed[m] + Outstanding(m) <= 1 + accidents
  <2>1. SumTo(queue[m], MaxRetries) = 0
    BY SumZero, MaxRetriesAssumption DEF MailInit, Attempts
  <2>2. Trying(m) = {}
    BY IdleWorkerFields, NoMailAssumption DEF MailInit, Trying
  <2>3. Cardinality(Trying(m)) = 0
    BY <2>2, FS_EmptySet
  <2> QED
    BY <2>1, <2>3 DEF Outstanding, MailInit
<1> QED
  BY <1>1, <1>2 DEF MailInv, DuplicatesInv, MailInit

\* The first message of a mail.
LEMMA PublishInv ==
    ASSUME MailInv, NEW m \in Mails \ asked, Publish(m) PROVE MailInv'
<1> USE DEF MailInv
<1>1. 0 \in Attempts /\ queue[m] \in [Attempts -> Nat] /\ queue[m][0] = 0
  BY MaxRetriesAssumption DEF Attempts, MailTypeOK, UntouchedInv
<1>2. /\ queue' \in [Mails -> [Attempts -> Nat]] /\ queue'[m][0] = 1
      /\ \A k \in Mails \ {m} : queue'[k] = queue[k]
      /\ \A i \in Attempts \ {0} : queue'[m][i] = queue[m][i]
      /\ asked' = asked \cup {m} /\ UNCHANGED <<worker, mailed, dropped, accidents>>
  BY <1>1 DEF Publish, MailTypeOK
<1>3. MailTypeOK' /\ HandsInv'
  BY <1>2 DEF MailTypeOK, HandsInv
<1>4. UntouchedInv'
  BY <1>2 DEF UntouchedInv
<1>5. \A k \in Mails : Trying(k)' = Trying(k)
  BY <1>2 DEF Trying
<1>6. ASSUME NEW k \in asked' PROVE Accounted(k)'
  <2>1. CASE k = m
    BY <1>1, <1>2, <2>1 DEF Accounted, Waiting
  <2>2. CASE k # m
    <3>1. k \in asked /\ k \in Mails
      BY <1>2, <2>2 DEF MailTypeOK
    <3> QED
      BY <1>2, <1>5, <2>2, <3>1 DEF Accounted, Waiting
  <2> QED
    BY <2>1, <2>2
<1>7. ASSUME NEW k \in Mails PROVE mailed'[k] + Outstanding(k)' <= 1 + accidents'
  <2>1. CASE k = m
    <3>1. SumTo(queue[m], MaxRetries) = 0
      BY SumZero, MaxRetriesAssumption DEF UntouchedInv, Attempts
    <3>2. Cardinality(Trying(m)) = 0 /\ mailed'[m] = 0
      <4>1. Trying(m) = {} /\ mailed'[m] = 0
        BY <1>2 DEF UntouchedInv, Trying
      <4> QED
        BY <4>1, FS_EmptySet
    <3>3. SumTo(queue'[m], MaxRetries) = 1
      <4>1. 0 \in 0..MaxRetries
            /\ \A i \in 0..MaxRetries : /\ queue[m][i] \in Nat /\ queue'[m][i] \in Nat
                                        /\ i # 0 => queue'[m][i] = queue[m][i]
        BY <1>2, MaxRetriesAssumption DEF Attempts, MailTypeOK
      <4>2. SumTo(queue'[m], MaxRetries) + queue[m][0]
                = SumTo(queue[m], MaxRetries) + queue'[m][0]
        <5>1. \A i \in 0..MaxRetries : queue[m][i] \in Nat /\ queue'[m][i] \in Nat
          BY <4>1
        <5>2. \A i \in 0..MaxRetries : i # 0 => queue'[m][i] = queue[m][i]
          BY <4>1
        <5> QED
          BY <4>1, <5>1, <5>2, SumChange, MaxRetriesAssumption
      <4>3. SumTo(queue'[m], MaxRetries) \in Nat
        BY <4>1, SumType, MaxRetriesAssumption
      <4> QED
        BY <1>1, <1>2, <3>1, <4>2, <4>3
    <3>4. Outstanding(k)' = 1 + 0
      BY <1>5, <2>1, <3>2, <3>3 DEF Outstanding
    <3> QED
      BY <1>2, <2>1, <3>2, <3>4, MaxAccidentsAssumption DEF MailTypeOK
  <2>2. CASE k # m
    <3>1. Outstanding(k)' = Outstanding(k)
      BY <1>2, <1>5, <2>2 DEF Outstanding
    <3> QED
      BY <1>2, <3>1 DEF DuplicatesInv
  <2> QED
    BY <2>1, <2>2
<1> QED
  BY <1>3, <1>4, <1>6, <1>7 DEF DuplicatesInv

\* A message is taken: it is no longer in the queue, and its attempt begins.
LEMMA TakeInv == ASSUME MailInv, NEW w \in Workers, Take(w) PROVE MailInv'
<1> USE DEF MailInv
<1>1. PICK m \in Mails, n \in Attempts :
        /\ queue[m][n] > 0
        /\ queue' = [queue EXCEPT ![m][n] = @ - 1]
        /\ worker' = [worker EXCEPT ![w] =
                [pc |-> "sendgrid", mail |-> m, tries |-> n, late |-> FALSE]]
  BY DEF Take
<1>2. /\ queue[m] \in [Attempts -> Nat] /\ queue[m][n] - 1 \in Nat
      /\ worker[w].mail = NoMail /\ m # NoMail
      /\ UNCHANGED <<asked, mailed, dropped, accidents>>
  BY <1>1, NoMailAssumption DEF Take, MailTypeOK, HandsInv
<1>3. /\ worker' \in [Workers -> Worker] /\ worker'[w].pc = "sendgrid" /\ worker'[w].mail = m
      /\ \A q \in Workers \ {w} : worker'[q] = worker[q]
  BY <1>1 DEF MailTypeOK, Worker, WorkerPCs
<1>4. /\ queue' \in [Mails -> [Attempts -> Nat]] /\ queue'[m][n] = queue[m][n] - 1
      /\ \A k \in Mails \ {m} : queue'[k] = queue[k]
      /\ \A i \in Attempts \ {n} : queue'[m][i] = queue[m][i]
  BY <1>1, <1>2 DEF MailTypeOK
<1>5. MailTypeOK'
  BY <1>2, <1>3, <1>4 DEF MailTypeOK
<1>6. w \in Trying(m)' /\ w \notin Trying(m)
  BY <1>2, <1>3 DEF Trying
<1>7. Accounted(m)'
  BY <1>6 DEF Accounted
<1>8. mailed'[m] + queue'[m][n] + 1 + accidents
        <= mailed[m] + queue[m][n] + 0 + accidents'
  BY <1>2, <1>4, MaxAccidentsAssumption DEF MailTypeOK
<1>9. accidents <= accidents'
  BY <1>2, MaxAccidentsAssumption DEF MailTypeOK
<1> QED
  BY <1>1, <1>2, <1>3, <1>4, <1>5, <1>6, <1>7, <1>8, <1>9, MailStep

\* A worker that is not idle has some attempt at some mail at hand.
LEMMA BusyWorker ==
    ASSUME MailInv, NEW w \in Workers, worker[w].pc # "idle"
    PROVE  \E m \in Mails, n \in Attempts :
            /\ worker[w].mail = m /\ worker[w].tries = n /\ m # NoMail
            /\ mailed[m] \in Nat
            /\ queue[m] \in [Attempts -> Nat] /\ queue[m][n] \in Nat
            /\ accidents \in Nat
BY WorkerFields, NoMailAssumption, MaxAccidentsAssumption
   DEF MailInv, HandsInv, MailTypeOK

\* A call is over: accepted, failed, or accepted and its answer lost.
LEMMA CallInv ==
    ASSUME MailInv, NEW w \in Workers, NEW bad \in {"smtp", "failed"},
           worker[w].pc \in {"sendgrid", "smtp"},
           Call(w, "ended", bad), UNCHANGED <<asked, queue, dropped>>
    PROVE  MailInv'
<1>0. PICK m \in Mails, n \in Attempts :
        /\ worker[w].mail = m /\ worker[w].tries = n /\ m # NoMail
        /\ mailed[m] \in Nat /\ queue[m][n] \in Nat /\ accidents \in Nat
  BY BusyWorker
<1>1. /\ m \in Mails /\ m # NoMail /\ n \in Attempts /\ mailed[m] \in Nat
      /\ queue[m][n] \in Nat /\ accidents \in Nat /\ w \in Trying(m)
  BY <1>0 DEF Trying
<1>2. PICK pc \in {"ended", bad} :
        /\ worker' = [worker EXCEPT ![w].pc = pc]
        /\ \/ mailed' = [mailed EXCEPT ![m] = @ + 1] /\ pc = "ended" /\ accidents' = accidents
           \/ mailed' = mailed /\ pc = bad /\ accidents' = accidents
           \/ /\ mailed' = [mailed EXCEPT ![m] = @ + 1] /\ pc = bad
              /\ accidents < MaxAccidents /\ accidents' = accidents + 1
  BY <1>0 DEF Call, LostAnswer
<1>3. /\ worker' \in [Workers -> Worker] /\ worker'[w].pc = pc /\ worker'[w].mail = m
      /\ \A q \in Workers \ {w} : worker'[q] = worker[q]
  BY <1>0, <1>2 DEF MailInv, MailTypeOK, Worker, WorkerPCs
<1>4. /\ mailed' \in [Mails -> Nat] /\ \A k \in Mails \ {m} : mailed'[k] = mailed[k]
      /\ \/ mailed'[m] = mailed[m] + 1 /\ pc = "ended" /\ accidents' = accidents
         \/ mailed'[m] = mailed[m] /\ pc = bad /\ accidents' = accidents
         \/ /\ mailed'[m] = mailed[m] + 1 /\ pc = bad
            /\ accidents < MaxAccidents /\ accidents' = accidents + 1
  BY <1>1, <1>2 DEF MailInv, MailTypeOK
<1>5. MailTypeOK'
  BY <1>3, <1>4, MaxAccidentsAssumption DEF MailInv, MailTypeOK
<1>6. w \in Trying(m)' <=> pc # "ended"
  BY <1>3 DEF Trying
<1>7. Accounted(m)'
  BY <1>1, <1>4, <1>6 DEF Accounted
<1>8. /\ mailed'[m] + queue'[m][n] + (IF w \in Trying(m)' THEN 1 ELSE 0) + accidents
            <= mailed[m] + queue[m][n] + (IF w \in Trying(m) THEN 1 ELSE 0) + accidents'
      /\ accidents <= accidents'
  <2> DEFINE c == IF w \in Trying(m)' THEN 1 ELSE 0
  <2>1. c = IF pc # "ended" THEN 1 ELSE 0
    BY <1>6
  <2>2. queue'[m][n] = queue[m][n]
    OBVIOUS
  <2> HIDE DEF c
  <2>3. mailed'[m] + queue'[m][n] + c + accidents
            <= mailed[m] + queue[m][n] + 1 + accidents'
    BY <1>1, <1>4, <2>1, <2>2
  <2>4. accidents <= accidents'
    BY <1>1, <1>4
  <2> QED
    BY <1>1, <2>3, <2>4 DEF c
<1>9. worker'[w].pc # "idle"
  BY <1>3
<1> QED
  BY <1>0, <1>3, <1>4, <1>5, <1>7, <1>8, <1>9, MailStep

\* The soft limit cuts the call to SendGrid; the mail may be accepted.
LEMMA SoftTimeLimitInv == ASSUME MailInv, NEW w \in Workers, SoftTimeLimit(w) PROVE MailInv'
<1>0. PICK m \in Mails, n \in Attempts :
        /\ worker[w].mail = m /\ worker[w].tries = n /\ m # NoMail
        /\ mailed[m] \in Nat /\ queue[m][n] \in Nat /\ accidents \in Nat
  BY BusyWorker DEF SoftTimeLimit
<1>1. /\ m \in Mails /\ m # NoMail /\ n \in Attempts /\ mailed[m] \in Nat
      /\ queue[m][n] \in Nat /\ accidents \in Nat /\ w \in Trying(m)
  BY <1>0 DEF Trying, SoftTimeLimit
<1>2. /\ worker' \in [Workers -> Worker] /\ worker'[w].pc = "smtp" /\ worker'[w].mail = m
      /\ \A q \in Workers \ {w} : worker'[q] = worker[q]
      /\ UNCHANGED <<asked, queue, dropped>>
  BY <1>0 DEF SoftTimeLimit, MailInv, MailTypeOK, Worker, WorkerPCs
<1>3. /\ mailed' \in [Mails -> Nat] /\ \A k \in Mails \ {m} : mailed'[k] = mailed[k]
      /\ \/ mailed'[m] = mailed[m] /\ accidents' = accidents
         \/ /\ mailed'[m] = mailed[m] + 1
            /\ accidents < MaxAccidents /\ accidents' = accidents + 1
  BY <1>0 DEF SoftTimeLimit, LostAnswer, MailInv, MailTypeOK
<1>4. MailTypeOK'
  BY <1>2, <1>3, MaxAccidentsAssumption DEF MailInv, MailTypeOK
<1>5. w \in Trying(m)'
  BY <1>2 DEF Trying
<1>6. Accounted(m)'
  BY <1>5 DEF Accounted
<1>7. /\ mailed'[m] + queue'[m][n] + 1 + accidents <= mailed[m] + queue[m][n] + 1 + accidents'
      /\ accidents <= accidents'
  <2>1. queue'[m][n] = queue[m][n]
    BY <1>2
  <2> QED
    BY <1>1, <1>3, <2>1
<1>8. worker'[w].pc # "idle"
  BY <1>2
<1> QED
  BY <1>0, <1>1, <1>2, <1>3, <1>4, <1>5, <1>6, <1>7, <1>8, MailStep

\* The hard limit gives the mail up.
LEMMA HardTimeLimitInv == ASSUME MailInv, NEW w \in Workers, HardTimeLimit(w) PROVE MailInv'
<1>0. PICK m \in Mails, n \in Attempts :
        /\ worker[w].mail = m /\ worker[w].tries = n /\ m # NoMail
        /\ mailed[m] \in Nat /\ queue[m][n] \in Nat /\ accidents \in Nat
  BY BusyWorker DEF HardTimeLimit
<1>1. /\ m \in Mails /\ m # NoMail /\ n \in Attempts /\ mailed[m] \in Nat
      /\ queue[m][n] \in Nat /\ accidents \in Nat /\ w \in Trying(m)
  BY <1>0 DEF Trying, HardTimeLimit
<1>2. /\ worker' \in [Workers -> Worker] /\ worker'[w] = IdleWorker
      /\ \A q \in Workers \ {w} : worker'[q] = worker[q]
      /\ UNCHANGED <<asked, queue, mailed, accidents>> /\ dropped' = dropped \cup {m}
  BY <1>0, IdleWorkerFields DEF HardTimeLimit, MailInv, MailTypeOK
<1>3. MailTypeOK'
  BY <1>1, <1>2 DEF MailInv, MailTypeOK
<1>4. w \notin Trying(m)' /\ Accounted(m)'
  BY <1>1, <1>2, IdleWorkerFields DEF Trying, Accounted
<1>5. /\ mailed'[m] + queue'[m][n] + 0 + accidents <= mailed[m] + queue[m][n] + 1 + accidents'
      /\ accidents <= accidents'
  <2>1. queue'[m][n] = queue[m][n] /\ mailed'[m] = mailed[m] /\ accidents' = accidents
    BY <1>2
  <2> QED
    BY <1>1, <2>1
<1> QED
  BY <1>0, <1>1, <1>2, <1>3, <1>4, <1>5, MailStep, IdleWorkerFields

\* A failed attempt queues the next one, or gives the mail up.
LEMMA RetryInv == ASSUME MailInv, NEW w \in Workers, Retry(w) PROVE MailInv'
<1>0. PICK m \in Mails, n \in Attempts :
        /\ worker[w].mail = m /\ worker[w].tries = n /\ m # NoMail
        /\ mailed[m] \in Nat /\ queue[m] \in [Attempts -> Nat]
        /\ queue[m][n] \in Nat /\ accidents \in Nat
  BY BusyWorker DEF Retry
<1>1. /\ worker[w].pc = "failed" /\ w \in Trying(m)
      /\ UNCHANGED <<asked, mailed, accidents>>
  BY <1>0 DEF Trying, Retry
<1>2. /\ worker' \in [Workers -> Worker] /\ worker'[w].pc = "ended" /\ worker'[w].mail = m
      /\ \A q \in Workers \ {w} : worker'[q] = worker[q]
  BY <1>0 DEF Retry, MailInv, MailTypeOK, Worker, WorkerPCs
<1>3. w \notin Trying(m)'
  BY <1>2 DEF Trying
<1>4. CASE n < MaxRetries
  <2>1. n + 1 \in Attempts
    BY <1>4, MaxRetriesAssumption DEF Attempts
  <2>2. queue' = [queue EXCEPT ![m][n + 1] = @ + 1] /\ dropped' = dropped
    BY <1>0, <1>4 DEF Retry, Attempts
  <2>3. queue[m][n + 1] \in Nat
    BY <1>0, <2>1
  <2>4. /\ queue' \in [Mails -> [Attempts -> Nat]] /\ queue'[m][n + 1] = queue[m][n + 1] + 1
        /\ \A k \in Mails \ {m} : queue'[k] = queue[k]
        /\ \A i \in Attempts \ {n + 1} : queue'[m][i] = queue[m][i]
    BY <1>0, <2>1, <2>2, <2>3 DEF MailInv, MailTypeOK
  <2>5. MailTypeOK'
    BY <1>1, <1>2, <2>2, <2>4 DEF MailInv, MailTypeOK
  <2>6. Accounted(m)'
    BY <2>1, <2>3, <2>4 DEF Accounted, Waiting
  <2>7. /\ mailed'[m] + queue'[m][n + 1] + 0 + accidents
                <= mailed[m] + queue[m][n + 1] + 1 + accidents'
        /\ accidents <= accidents'
    BY <1>0, <1>1, <2>3, <2>4
  <2>8. worker'[w].pc # "idle"
    BY <1>2
  <2> QED
    BY <1>0, <1>1, <1>2, <1>3, <2>1, <2>2, <2>4, <2>5, <2>6, <2>7, <2>8, MailStep
<1>5. CASE ~ (n < MaxRetries)
  <2>1. queue' = queue /\ dropped' = dropped \cup {m}
    BY <1>0, <1>5 DEF Retry
  <2>2. MailTypeOK'
    BY <1>1, <1>2, <2>1 DEF MailInv, MailTypeOK
  <2>3. Accounted(m)'
    BY <2>1 DEF Accounted
  <2>4. /\ mailed'[m] + queue'[m][n] + 0 + accidents
                <= mailed[m] + queue[m][n] + 1 + accidents'
        /\ accidents <= accidents'
    BY <1>0, <1>1, <2>1
  <2>5. worker'[w].pc # "idle"
    BY <1>2
  <2> QED
    BY <1>0, <1>1, <1>2, <1>3, <2>1, <2>2, <2>3, <2>4, <2>5, MailStep
<1> QED
  BY <1>4, <1>5

\* The message of an attempt that has ended goes.
LEMMA AcknowledgeInv == ASSUME MailInv, NEW w \in Workers, Acknowledge(w) PROVE MailInv'
<1>0. PICK m \in Mails, n \in Attempts :
        /\ worker[w].mail = m /\ worker[w].tries = n /\ m # NoMail
        /\ mailed[m] \in Nat /\ queue[m] \in [Attempts -> Nat]
        /\ queue[m][n] \in Nat /\ accidents \in Nat
  BY BusyWorker DEF Acknowledge
<1>1. /\ worker[w].pc = "ended" /\ w \notin Trying(m)
      /\ UNCHANGED <<asked, queue, mailed, dropped, accidents>>
  BY DEF Trying, Acknowledge
<1>2. /\ worker' \in [Workers -> Worker] /\ worker'[w] = IdleWorker
      /\ \A q \in Workers \ {w} : worker'[q] = worker[q]
  BY IdleWorkerFields DEF Acknowledge, MailInv, MailTypeOK
<1>3. MailTypeOK'
  BY <1>1, <1>2 DEF MailInv, MailTypeOK
<1>4. Trying(m)' = Trying(m)
  BY <1>0, <1>1, <1>2, IdleWorkerFields DEF Trying
<1>5. Accounted(m)'
  <2>1. m \in asked
    BY <1>0 DEF MailInv, UntouchedInv
  <2> QED
    BY <1>1, <1>4, <2>1 DEF MailInv, Accounted, Waiting
<1>6. /\ mailed'[m] + queue'[m][n] + 0 + accidents <= mailed[m] + queue[m][n] + 0 + accidents'
      /\ accidents <= accidents'
  BY <1>0, <1>1
<1> QED
  BY <1>0, <1>1, <1>2, <1>3, <1>4, <1>5, <1>6, MailStep, IdleWorkerFields

\* The message of a lost worker goes back to the queue.
LEMMA WorkerLostInv == ASSUME MailInv, NEW w \in Workers, WorkerLost(w) PROVE MailInv'
<1>0. PICK m \in Mails, n \in Attempts :
        /\ worker[w].mail = m /\ worker[w].tries = n /\ m # NoMail
        /\ mailed[m] \in Nat /\ queue[m] \in [Attempts -> Nat]
        /\ queue[m][n] \in Nat /\ accidents \in Nat
  BY BusyWorker DEF WorkerLost
<1>1. /\ queue' = [queue EXCEPT ![m][n] = @ + 1] /\ accidents < MaxAccidents
      /\ accidents' = accidents + 1 /\ UNCHANGED <<asked, mailed, dropped>>
  BY <1>0 DEF WorkerLost
<1>2. /\ worker' \in [Workers -> Worker] /\ worker'[w] = IdleWorker
      /\ \A q \in Workers \ {w} : worker'[q] = worker[q]
  BY IdleWorkerFields DEF WorkerLost, MailInv, MailTypeOK
<1>3. /\ queue' \in [Mails -> [Attempts -> Nat]] /\ queue'[m][n] = queue[m][n] + 1
      /\ \A k \in Mails \ {m} : queue'[k] = queue[k]
      /\ \A i \in Attempts \ {n} : queue'[m][i] = queue[m][i]
  BY <1>0, <1>1 DEF MailInv, MailTypeOK
<1>4. MailTypeOK'
  BY <1>0, <1>1, <1>2, <1>3, MaxAccidentsAssumption DEF MailInv, MailTypeOK
<1>5. w \notin Trying(m)'
  BY <1>0, <1>2, IdleWorkerFields DEF Trying
<1>6. Accounted(m)'
  BY <1>0, <1>3 DEF Accounted, Waiting
<1>7. /\ mailed'[m] + queue'[m][n] + 0 + accidents
            <= mailed[m] + queue[m][n] + (IF w \in Trying(m) THEN 1 ELSE 0) + accidents'
      /\ accidents <= accidents'
  <2> DEFINE b == IF w \in Trying(m) THEN 1 ELSE 0
  <2>1. b \in Nat
    OBVIOUS
  <2> HIDE DEF b
  <2>2. mailed'[m] + queue'[m][n] + 0 + accidents <= mailed[m] + queue[m][n] + b + accidents'
    BY <1>0, <1>1, <1>3, <2>1
  <2>3. accidents <= accidents'
    BY <1>0, <1>1
  <2> QED
    BY <2>2, <2>3 DEF b
<1> QED
  BY <1>0, <1>1, <1>2, <1>3, <1>4, <1>5, <1>6, <1>7, MailStep, IdleWorkerFields

\* Every step of the workers keeps the invariant.
LEMMA MailNextInv == ASSUME MailInv, MailNext PROVE MailInv'
<1>1. PICK w \in Workers :
        WorkerStep(w) \/ SoftTimeLimit(w) \/ HardTimeLimit(w) \/ WorkerLost(w)
  BY DEF MailNext
<1>2. CASE CallSendGrid(w)
  BY <1>2, CallInv DEF CallSendGrid
<1>3. CASE CallSmtp(w)
  BY <1>3, CallInv DEF CallSmtp
<1> QED
  BY <1>1, <1>2, <1>3, TakeInv, RetryInv, AcknowledgeInv, SoftTimeLimitInv,
     HardTimeLimitInv, WorkerLostInv DEF WorkerStep

\* So does a step that leaves the queue alone.
LEMMA MailStutter == ASSUME MailInv, UNCHANGED mailVars PROVE MailInv'
<1>1. UNCHANGED <<asked, queue, worker, mailed, dropped, accidents>>
  BY DEF mailVars
<1>2. MailTypeOK' /\ HandsInv' /\ UntouchedInv'
  BY <1>1 DEF MailInv, MailTypeOK, HandsInv, UntouchedInv
<1>3. \A m \in Mails : Trying(m)' = Trying(m) /\ Outstanding(m)' = Outstanding(m)
  BY <1>1 DEF Trying, Outstanding
<1>4. asked \subseteq Mails
  BY DEF MailInv, MailTypeOK
<1> QED
  BY <1>1, <1>2, <1>3, <1>4 DEF MailInv, Accounted, Waiting, DuplicatesInv

\* The inductive invariant holds in every state of the queue on its own.
THEOREM MailInvariance == MailSpec => []MailInv
<1>1. MailInv /\ [Ask \/ MailNext]_mailVars => MailInv'
  BY PublishInv, MailNextInv, MailStutter DEF Ask
<1> QED
  BY <1>1, MailInitInv, PTL DEF MailSpec

\* A mail that was asked for is accounted for by something that can still send
\* it, unless it was sent or given up.
LEMMA MailInvNoMailIsLost == MailInv => NoMailIsLost
BY DEF MailInv, MailTypeOK, NoMailIsLost, Accounted, Trying, Held

\* Late acknowledgement and rejection leave no gap.
THEOREM NoMailLost == MailSpec => []NoMailIsLost
BY MailInvariance, MailInvNoMailIsLost, PTL

\* A mail is a duplicate only by accident, once for each.
THEOREM DuplicatesByAccident == MailSpec => []DuplicatesAreAccounted
<1>1. MailInv => DuplicatesAreAccounted
  BY DEF MailInv, DuplicatesInv, DuplicatesAreAccounted
<1> QED
  BY <1>1, MailInvariance, PTL

-----------------------------------------------------------------------------
(* Codes and tokens: the invariant. *)

Storing == {"store", "publish"}

\* The code is one that may be mailed.
Mailable(m) == fate[m] = "stored" \/ (fate[m] = "refused" /\ "cache" \in Faults)

\* What a handler has at hand at each of its points.
HandlerInv(r) ==
    /\ req[r].pc \in Storing => req[r].op \in {"send", "reset"} /\ req[r].code \in Mails \ asked
    /\ req[r].pc = "store" => fate[req[r].code] = "issued"
    /\ req[r].pc = "publish" => Mailable(req[r].code)
    /\ req[r].pc = "delete" => req[r].op \in {"verify", "change"}
    /\ req[r].pc = "storeToken" => req[r].op = "verify"
    /\ req[r].pc = "commit" => req[r].op = "change"
    /\ req[r].op = "verify" => req[r].code = NoMail \/ mailed[req[r].code] > 0
    /\ req[r].op = "verify" /\ req[r].pc \in {"delete", "storeToken"} => req[r].code # NoMail
    /\ req[r].op = "change" => req[r].token \in given \cup {NoToken}
    /\ req[r].op = "change" /\ req[r].pc \in {"delete", "commit"} => req[r].token # NoToken

\* A code is in the hands of the request that generated it until it is asked for.
CodesInv ==
    /\ \A r, q \in Requests :
        r # q /\ req[r].pc \in Storing /\ req[q].pc \in Storing => req[r].code # req[q].code
    /\ otp # NoMail => fate[otp] = "stored"
    /\ MailedCodeWasStored

\* Tokens are bought with mailed codes, and passwords are set with tokens.
TokensInv ==
    /\ IsFiniteSet(given)
    /\ token \in given \cup {NoToken}
    /\ \A t \in given : exchanged[t] # NoMail /\ mailed[exchanged[t]] > 0
    /\ \A t \in Tokens \ given : uses[t] = 0

\* The tokens a code has bought; the requests that have read it, and of them
\* the ones that are past its deletion.
Bought(m) == {t \in given : exchanged[t] = m}
Buyers(m) == {r \in Requests : /\ req[r].op = "verify" /\ req[r].code = m
                               /\ req[r].pc \in {"delete", "storeToken"}}
Paid(m) == {r \in Buyers(m) : req[r].pc = "storeToken"}

\* As long as a code is there, who is past its deletion failed to delete it.
CodeCounts(m) == otp = m => Cardinality(Bought(m)) + Cardinality(Paid(m)) <= slips

\* The requests that have read a token and not set the password yet, and the
\* ones that have and not deleted the token.
Setters(t) == {r \in Requests : req[r].op = "change" /\ req[r].token = t /\ req[r].pc = "commit"}
Done(t) == {r \in Requests : req[r].op = "change" /\ req[r].token = t /\ req[r].pc = "delete"}

\* As long as a token is there, who has used it is about to delete it or failed to.
TokenCounts(t) == token = t => uses[t] <= Cardinality(Done(t)) + slips

IInv ==
    /\ StateOK
    /\ MailInv
    /\ \A r \in Requests : HandlerInv(r)
    /\ CodesInv
    /\ TokensInv
    /\ \A m \in Mails : CodeCounts(m)
    /\ \A t \in Tokens : TokenCounts(t)

-----------------------------------------------------------------------------
(* Codes and tokens: what a step of one request leaves of the rest. *)

\* The fields of a handler.
LEMMA HandlerFields ==
    ASSUME StateOK, NEW r \in Requests
    PROVE  /\ req[r].pc \in PCs /\ req[r].op \in Ops
           /\ req[r].code \in Mails \cup {NoMail} /\ req[r].token \in Tokens \cup {NoToken}
BY DEF StateOK, Handler

\* The fields of an idle handler.
LEMMA IdleFields ==
    /\ Idle \in Handler /\ Idle.pc = "idle" /\ Idle.op = "none"
    /\ Idle.code = NoMail /\ Idle.token = NoToken
BY DEF Idle, Handler, PCs, Ops

\* The sets counted are finite.
LEMMA CountTypes ==
    ASSUME TokensInv, NEW m, NEW t
    PROVE  /\ IsFiniteSet(Bought(m)) /\ Cardinality(Bought(m)) \in Nat
           /\ IsFiniteSet(Buyers(m)) /\ Cardinality(Buyers(m)) \in Nat
           /\ IsFiniteSet(Paid(m)) /\ Cardinality(Paid(m)) \in Nat
           /\ IsFiniteSet(Setters(t)) /\ Cardinality(Setters(t)) \in Nat
           /\ IsFiniteSet(Done(t)) /\ Cardinality(Done(t)) \in Nat
<1>1. IsFiniteSet(Bought(m))
  BY FS_Subset DEF TokensInv, Bought
<1>2. /\ Buyers(m) \in SUBSET Requests /\ Paid(m) \in SUBSET Requests
      /\ Setters(t) \in SUBSET Requests /\ Done(t) \in SUBSET Requests
  BY DEF Buyers, Paid, Setters, Done
<1>3. /\ IsFiniteSet(Buyers(m)) /\ IsFiniteSet(Paid(m))
      /\ IsFiniteSet(Setters(t)) /\ IsFiniteSet(Done(t))
  BY <1>2, RequestsAssumption, FS_Subset
<1> QED
  BY <1>1, <1>3, FS_CardinalityType

\* The handlers of the other requests keep what they have at hand.
LEMMA OthersInv ==
    ASSUME IInv, NEW r \in Requests, NEW q \in Requests \ {r}, req'[q] = req[q],
           \A m \in Mails : fate[m] # "none" /\ (req[r].pc \in Storing => m # req[r].code)
                => fate'[m] = fate[m] /\ (m \in asked' => m \in asked),
           \A m \in Mails : mailed[m] > 0 => mailed'[m] > 0,
           given \subseteq given'
    PROVE  HandlerInv(q)'
<1>1. /\ HandlerInv(q) /\ req[q].code \in Mails \cup {NoMail}
      /\ req[q].pc \in Storing /\ req[r].pc \in Storing => req[q].code # req[r].code
  BY HandlerFields DEF IInv, CodesInv
<1>2. req[q].pc \in Storing =>
        /\ req[q].code \in Mails \ asked' /\ fate'[req[q].code] = fate[req[q].code]
  BY <1>1 DEF HandlerInv, Mailable, Storing
<1>3. req[q].op = "verify" => req[q].code = NoMail \/ mailed'[req[q].code] > 0
  BY <1>1 DEF HandlerInv
<1> QED
  BY <1>1, <1>2, <1>3 DEF HandlerInv, Mailable, Storing

\* A step of r that buys nothing: who passes the deletion of a code either has
\* deleted it or is counted as a slip.
LEMMA CodeCountsStep ==
    ASSUME IInv, StateOK', TokensInv', NEW r \in Requests, NEW m \in Mails,
           \A q \in Requests \ {r} : req'[q] = req[q],
           Bought(m)' = Bought(m), slips <= slips',
           otp' = m => \/ otp = m /\ (r \in Paid(m)' => r \in Paid(m) \/ slips' = slips + 1)
                       \/ Bought(m)' = {} /\ Paid(m)' = {}
    PROVE  CodeCounts(m)'
<1> DEFINE B == Cardinality(Bought(m))  C == Cardinality(Bought(m)')
           P == Cardinality(Paid(m))    Q == Cardinality(Paid(m)')
           y == slips  z == slips'
<1>1. /\ B \in Nat /\ P \in Nat /\ y \in Nat /\ z \in Nat /\ y <= z
      /\ IsFiniteSet(Paid(m))
      /\ otp = m => B + P <= y
  BY CountTypes, MaxSlipsAssumption DEF IInv, StateOK, CodeCounts
<1>2. C \in Nat /\ Q \in Nat
  <2>1. IsFiniteSet(Bought(m)') /\ IsFiniteSet(Paid(m)')
    BY RequestsAssumption, FS_Subset DEF TokensInv, Bought, Buyers, Paid
  <2> QED
    BY <2>1, FS_CardinalityType
<1>3. C = B
  OBVIOUS
<1>5. Q + (IF r \in Paid(m) THEN 1 ELSE 0) = P + (IF r \in Paid(m)' THEN 1 ELSE 0)
  <2>1. Paid(m) \ {r} = Paid(m)' \ {r}
    BY DEF Buyers, Paid
  <2> QED
    BY <1>1, <2>1, CardChange
<1>6. otp' = m => \/ otp = m /\ (r \in Paid(m)' => r \in Paid(m) \/ z = y + 1)
                  \/ C = 0 /\ Q = 0
  BY FS_EmptySet
<1> HIDE DEF B, C, P, Q, y, z
<1>7. otp' = m => C + Q <= z
  BY <1>1, <1>2, <1>3, <1>5, <1>6
<1> QED
  BY <1>7 DEF CodeCounts, C, Q, z

\* A step of r for a token: who has set a password is done, and who leaves has
\* deleted the token or is counted as a slip.
LEMMA TokenCountsStep ==
    ASSUME IInv, StateOK', NEW r \in Requests, NEW t \in Tokens,
           \A q \in Requests \ {r} : req'[q] = req[q], slips <= slips',
           \/ uses'[t] = uses[t]
           \/ uses'[t] = uses[t] + 1 /\ r \in Done(t)' /\ r \notin Done(t),
           token' = t => \/ token = t /\ (r \in Done(t) => r \in Done(t)' \/ slips' = slips + 1)
                         \/ uses'[t] = 0
    PROVE  TokenCounts(t)'
<1> DEFINE D == Cardinality(Done(t))     E == Cardinality(Done(t)')
           y == slips  z == slips'  u == uses[t]  v == uses'[t]
<1>1. /\ D \in Nat /\ y \in Nat /\ z \in Nat /\ y <= z
      /\ IsFiniteSet(Done(t)) /\ u \in Nat /\ v \in Nat
      /\ token = t => u <= D + y
  BY CountTypes, MaxSlipsAssumption DEF IInv, StateOK, TokenCounts
<1>2. E \in Nat
  <2>1. IsFiniteSet(Done(t)')
    BY RequestsAssumption, FS_Subset DEF Done
  <2> QED
    BY <2>1, FS_CardinalityType
<1>4. E + (IF r \in Done(t) THEN 1 ELSE 0) = D + (IF r \in Done(t)' THEN 1 ELSE 0)
  <2>1. Done(t) \ {r} = Done(t)' \ {r}
    BY DEF Done
  <2> QED
    BY <1>1, <2>1, CardChange
<1>5. v = u \/ (v = u + 1 /\ r \in Done(t)' /\ r \notin Done(t))
  OBVIOUS
<1>6. token' = t => \/ token = t /\ (r \in Done(t) => r \in Done(t)' \/ z = y + 1)
                    \/ v = 0
  OBVIOUS
<1> HIDE DEF D, E, u, v, y, z
<1>7. token' = t => v <= E + z
  BY <1>1, <1>2, <1>4, <1>5, <1>6
<1> QED
  BY <1>7 DEF TokenCounts, E, v, z

-----------------------------------------------------------------------------
(* Codes and tokens: the steps. *)

\* The initial state satisfies the invariant.
LEMMA InitInv == Init => IInv
<1> SUFFICES ASSUME Init PROVE IInv
  OBVIOUS
<1>1. MailInv /\ asked = {}
  BY MailInitInv DEF Init, MailInit
<1>2. StateOK
  BY <1>1, IdleFields, MaxSlipsAssumption DEF Init, StateOK, MailInv, Fates
<1>3. \A r \in Requests : req[r] = Idle
  BY DEF Init
<1>4. \A r \in Requests : HandlerInv(r)
  BY <1>3, IdleFields DEF HandlerInv, Storing
<1>5. CodesInv /\ TokensInv
  BY <1>1, <1>3, IdleFields, FS_EmptySet
     DEF Init, CodesInv, TokensInv, MailedCodeWasStored, Storing
<1>6. slips = 0 /\ Cardinality(Requests) \in Nat
  BY RequestsAssumption, FS_CardinalityType DEF Init
<1>7. ASSUME NEW m \in Mails PROVE CodeCounts(m)
  <2>1. Bought(m) = {} /\ Paid(m) = {} /\ Buyers(m) = {}
    BY <1>3, IdleFields DEF Bought, Paid, Buyers, Init
  <2>2. Cardinality(Bought(m)) = 0 /\ Cardinality(Paid(m)) = 0 /\ Cardinality(Buyers(m)) = 0
    BY <2>1, FS_EmptySet
  <2> QED
    BY <1>6, <2>2 DEF CodeCounts
<1>8. ASSUME NEW t \in Tokens PROVE TokenCounts(t)
  <2>1. Setters(t) = {} /\ Done(t) = {} /\ uses[t] = 0
    BY <1>3, IdleFields DEF Setters, Done, Init
  <2>2. Cardinality(Setters(t)) = 0 /\ Cardinality(Done(t)) = 0
    BY <2>1, FS_EmptySet
  <2> QED
    BY <1>6, <2>1, <2>2 DEF TokenCounts
<1> QED
  BY <1>1, <1>2, <1>4, <1>5, <1>7, <1>8 DEF IInv

\* A step of a request that generates, mails and buys nothing.
LEMMA QuietStep ==
    ASSUME IInv, NEW r \in Requests, NEW h \in Handler, req' = [req EXCEPT ![r] = h],
           UNCHANGED <<mailVars, fate, exchanged, given>>,
           otp' \in {otp, NoMail}, token' \in {token, NoToken},
           uses' \in [Tokens -> Nat], slips' \in 0..MaxSlips, slips <= slips',
           h.pc \notin Storing, HandlerInv(r)',
           \A t \in Tokens \ given : uses'[t] = 0,
           \A m \in Mails :
            otp' = m /\ r \in Paid(m)' => (r \in Paid(m) \/ slips' = slips + 1),
           \A t \in Tokens :
            /\ \/ uses'[t] = uses[t]
               \/ uses'[t] = uses[t] + 1 /\ r \in Done(t)' /\ r \notin Done(t)
            /\ token' = t /\ r \in Done(t) => r \in Done(t)' \/ slips' = slips + 1
    PROVE  IInv'
<1>1. MailInv'
  BY MailStutter DEF IInv
<1>2. StateOK'
  BY <1>1 DEF IInv, StateOK, MailInv
<1>3. /\ req'[r] = h /\ \A q \in Requests \ {r} : req'[q] = req[q]
      /\ UNCHANGED <<asked, queue, worker, mailed, dropped, accidents>>
  BY DEF IInv, StateOK, mailVars
<1>4. \A q \in Requests : HandlerInv(q)'
  BY <1>3, OthersInv
<1>5. CodesInv'
  BY <1>3 DEF IInv, CodesInv, MailedCodeWasStored
<1>6. TokensInv'
  BY <1>3 DEF IInv, TokensInv
<1>7. ASSUME NEW m \in Mails PROVE CodeCounts(m)'
  <2>1. Bought(m)' = Bought(m) /\ (otp' = m => otp = m)
    BY NoMailAssumption DEF Bought
  <2> QED
    BY <1>2, <1>3, <1>6, <2>1, CodeCountsStep
<1>8. ASSUME NEW t \in Tokens PROVE TokenCounts(t)'
  <2>1. token' = t => token = t
    BY NoTokenAssumption
  <2> QED
    BY <1>2, <1>3, <2>1, TokenCountsStep
<1> QED
  BY <1>1, <1>2, <1>4, <1>5, <1>6, <1>7, <1>8 DEF IInv

\* A handler ends, and is counted as a slip if it was about to delete a token
\* that is still there.
LEMMA EndInv ==
    ASSUME IInv, NEW r \in Requests, End(r),
           UNCHANGED <<mailVars, otp, fate, exchanged, given, uses>>,
           token' \in {token, NoToken},
           slips' \in 0..MaxSlips, slips' \in {slips, slips + 1},
           req[r].pc = "delete" /\ req[r].op = "change" /\ token' = token /\ token # NoToken
            => slips' = slips + 1
    PROVE  IInv'
<1>1. req' = [req EXCEPT ![r] = Idle] /\ req'[r] = Idle
  BY DEF End, IInv, StateOK
<1>2. slips <= slips'
  <2>1. slips \in Nat
    BY MaxSlipsAssumption DEF IInv, StateOK
  <2> DEFINE z == slips'
  <2>2. z = slips \/ z = slips + 1
    OBVIOUS
  <2> HIDE DEF z
  <2>3. slips <= z
    BY <2>1, <2>2
  <2> QED
    BY <2>3 DEF z
<1>3. HandlerInv(r)'
  BY <1>1, IdleFields DEF HandlerInv, Storing
<1>4. \A m \in Mails : r \notin Buyers(m)' /\ r \notin Paid(m)'
  BY <1>1, IdleFields DEF Buyers, Paid
<1>5. \A t \in Tokens : /\ r \notin Setters(t)' /\ r \notin Done(t)'
                        /\ token' = t /\ r \in Done(t) => slips' = slips + 1
  BY <1>1, IdleFields, NoTokenAssumption DEF Setters, Done
<1>6. \A t \in Tokens \ given : uses'[t] = 0
  BY DEF IInv, TokensInv
<1> QED
  BY <1>1, <1>2, <1>3, <1>4, <1>5, <1>6, IdleFields, QuietStep DEF IInv, StateOK, Storing

\* A handler goes on to another point, with what it has at hand.
LEMMA GotoHandler ==
    ASSUME StateOK, NEW r \in Requests, NEW pc \in PCs, Goto(r, pc)
    PROVE  \E h \in Handler :
            /\ req' = [req EXCEPT ![r] = h] /\ req'[r] = h
            /\ h.pc = pc /\ h.op = req[r].op
            /\ h.code = req[r].code /\ h.token = req[r].token
<1> DEFINE h == [req[r] EXCEPT !.pc = pc]
<1>1. /\ h \in Handler /\ h.pc = pc /\ h.op = req[r].op
      /\ h.code = req[r].code /\ h.token = req[r].token
  BY DEF StateOK, Handler
<1>2. req' = [req EXCEPT ![r] = h] /\ req'[r] = h
  BY DEF Goto, StateOK
<1> HIDE DEF h
<1> QED
  BY <1>1, <1>2

\* A slip is counted.
LEMMA SlipType ==
    ASSUME StateOK, \/ slips' = slips
                    \/ slips < MaxSlips /\ slips' = slips + 1
    PROVE  slips' \in 0..MaxSlips /\ slips <= slips'
<1> DEFINE z == slips'
<1>1. slips \in 0..MaxSlips
  BY DEF StateOK
<1>2. z = slips \/ (slips < MaxSlips /\ z = slips + 1)
  OBVIOUS
<1> HIDE DEF z
<1>3. z \in 0..MaxSlips /\ slips <= z
  BY <1>1, <1>2, MaxSlipsAssumption
<1> QED
  BY <1>3 DEF z

\* A request to verify a code, or to change the password, begins.
LEMMA StartInv ==
    ASSUME IInv, NEW r \in Requests, Verify(r) \/ Change(r) PROVE IInv'
<1>1. PICK op \in {"verify", "change"}, c \in Mails \cup {NoMail}, t \in Tokens \cup {NoToken} :
        /\ Start(r, op, "read", c, t)
        /\ op = "verify" => c = NoMail \/ mailed[c] > 0
        /\ op = "change" => t \in given \cup {NoToken}
  BY DEF Verify, Change, IInv, StateOK
<1> DEFINE h == [pc |-> "read", op |-> op, code |-> c, token |-> t]
<1>2. /\ h \in Handler /\ h.pc = "read" /\ h.op = op /\ h.code = c /\ h.token = t
      /\ req' = [req EXCEPT ![r] = h] /\ req'[r] = h
  BY <1>1 DEF Start, Handler, PCs, Ops, IInv, StateOK
<1>3. UNCHANGED <<mailVars, otp, token, fate, exchanged, given, uses, slips>>
  BY DEF Verify, Change
<1> HIDE DEF h
<1>4. HandlerInv(r)'
  BY <1>1, <1>2, <1>3 DEF HandlerInv, Storing, mailVars
<1>5. /\ \A m \in Mails : r \notin Buyers(m)' /\ r \notin Paid(m)'
      /\ \A k \in Tokens : r \notin Setters(k)' /\ r \notin Done(k)'
  BY <1>2 DEF Buyers, Paid, Setters, Done
<1>6. \A k \in Tokens : r \notin Done(k)
  BY <1>1 DEF Start, Done
<1> QED
  <2>1. /\ slips' \in 0..MaxSlips /\ slips <= slips'
        /\ uses' \in [Tokens -> Nat] /\ \A k \in Tokens \ given : uses'[k] = 0
    BY <1>3, SlipType DEF IInv, StateOK, TokensInv
  <2> QED
    BY <1>2, <1>3, <1>4, <1>5, <1>6, <2>1, QuietStep DEF Storing

\* A code is read and compared, or the answer is a 400.
LEMMA CheckCodeInv == ASSUME IInv, NEW r \in Requests, CheckCode(r) PROVE IInv'
<1>1. /\ req[r].pc = "read" /\ req[r].op = "verify"
      /\ UNCHANGED <<mailVars, otp, token, fate, exchanged, given, uses, slips>>
  BY DEF CheckCode
<1>2. CASE End(r)
  BY <1>1, <1>2, SlipType, EndInv DEF IInv
<1>3. CASE otp = req[r].code /\ otp # NoMail /\ Goto(r, "delete")
  <2>1. PICK h \in Handler :
            /\ req' = [req EXCEPT ![r] = h] /\ req'[r] = h
            /\ h.pc = "delete" /\ h.op = "verify" /\ h.code = otp
    BY <1>1, <1>3, GotoHandler DEF PCs, IInv
  <2>2. HandlerInv(r)'
    BY <1>1, <1>3, <2>1 DEF HandlerInv, Storing, mailVars, IInv
  <2>3. /\ \A m \in Mails : (r \in Buyers(m)' => otp' = m) /\ r \notin Paid(m)'
        /\ \A k \in Tokens : r \notin Setters(k)' /\ r \notin Done(k)' /\ r \notin Done(k)
    BY <1>1, <2>1 DEF Buyers, Paid, Setters, Done
  <2> QED
    BY <1>1, <2>1, <2>2, <2>3, SlipType, QuietStep DEF IInv, StateOK, TokensInv, Storing
<1> QED
  BY <1>2, <1>3 DEF CheckCode

\* The code of the address is deleted, or its deletion fails.
LEMMA DeleteCodeInv == ASSUME IInv, NEW r \in Requests, DeleteCode(r) PROVE IInv'
<1>1. /\ req[r].pc = "delete" /\ req[r].op = "verify"
      /\ UNCHANGED <<mailVars, token, fate, exchanged, given, uses>>
      /\ Goto(r, "storeToken")
      /\ \/ otp' = NoMail /\ slips' = slips
         \/ otp' = otp /\ slips < MaxSlips /\ slips' = slips + 1
  BY DEF DeleteCode
<1>2. PICK h \in Handler :
        /\ req' = [req EXCEPT ![r] = h] /\ req'[r] = h
        /\ h.pc = "storeToken" /\ h.op = "verify" /\ h.code = req[r].code
  BY <1>1, GotoHandler DEF PCs, IInv
<1>3. HandlerInv(r)'
  BY <1>1, <1>2 DEF HandlerInv, Storing, mailVars, IInv
<1>4. /\ \A m \in Mails : (r \in Buyers(m)' => r \in Buyers(m))
      /\ \A k \in Tokens : r \notin Setters(k)' /\ r \notin Done(k)' /\ r \notin Done(k)
  BY <1>1, <1>2 DEF Buyers, Setters, Done
<1>5. \A m \in Mails : otp' = m => slips' = slips + 1
  BY <1>1, NoMailAssumption
<1>6. slips' \in 0..MaxSlips /\ slips <= slips'
  BY <1>1, SlipType DEF IInv
<1> QED
  BY <1>1, <1>2, <1>3, <1>4, <1>5, <1>6, QuietStep DEF IInv, StateOK, TokensInv, Storing

\* A token is read and compared, or the answer is an error.
LEMMA CheckTokenInv == ASSUME IInv, NEW r \in Requests, CheckToken(r) PROVE IInv'
<1>1. /\ req[r].pc = "read" /\ req[r].op = "change"
      /\ UNCHANGED <<mailVars, otp, token, fate, exchanged, given, uses, slips>>
  BY DEF CheckToken
<1>2. CASE End(r)
  BY <1>1, <1>2, SlipType, EndInv DEF IInv
<1>3. CASE token = req[r].token /\ token # NoToken /\ Goto(r, "commit")
  <2>1. PICK h \in Handler :
            /\ req' = [req EXCEPT ![r] = h] /\ req'[r] = h
            /\ h.pc = "commit" /\ h.op = "change" /\ h.token = token
    BY <1>1, <1>3, GotoHandler DEF PCs, IInv
  <2>2. HandlerInv(r)'
    BY <1>1, <1>3, <2>1 DEF HandlerInv, Storing, mailVars, IInv, TokensInv
  <2>3. /\ \A m \in Mails : r \notin Buyers(m)' /\ r \notin Paid(m)'
        /\ \A k \in Tokens : (r \in Setters(k)' => token' = k)
                             /\ r \notin Done(k)' /\ r \notin Done(k)
    BY <1>1, <2>1 DEF Buyers, Paid, Setters, Done
  <2> QED
    BY <1>1, <2>1, <2>2, <2>3, SlipType, QuietStep DEF IInv, StateOK, TokensInv, Storing
<1> QED
  BY <1>2, <1>3 DEF CheckToken

\* The password is committed with the token at hand, or the commit fails.
LEMMA CommitPasswordInv == ASSUME IInv, NEW r \in Requests, CommitPassword(r) PROVE IInv'
<1>1. /\ req[r].pc = "commit"
      /\ UNCHANGED <<mailVars, otp, token, fate, exchanged, given, slips>>
  BY DEF CommitPassword
<1>2. CASE End(r) /\ UNCHANGED uses
  BY <1>1, <1>2, SlipType, EndInv DEF IInv
<1>3. CASE uses' = [uses EXCEPT ![req[r].token] = @ + 1] /\ Goto(r, "delete")
  <2>1. PICK t \in given : req[r].token = t /\ req[r].op = "change" /\ t # NoToken
    BY <1>1 DEF IInv, HandlerInv
  <2>2. PICK h \in Handler :
            /\ req' = [req EXCEPT ![r] = h] /\ req'[r] = h
            /\ h.pc = "delete" /\ h.op = "change" /\ h.token = t
    BY <1>3, <2>1, GotoHandler DEF PCs, IInv
  <2>3. /\ t \in Tokens /\ uses' \in [Tokens -> Nat] /\ uses'[t] = uses[t] + 1
        /\ \A k \in Tokens \ {t} : uses'[k] = uses[k]
    BY <1>3, <2>1 DEF IInv, StateOK
  <2>4. HandlerInv(r)'
    BY <1>1, <2>1, <2>2 DEF HandlerInv, Storing
  <2>5. /\ \A m \in Mails : r \notin Buyers(m)' /\ r \notin Paid(m)'
        /\ \A k \in Tokens : r \notin Setters(k)' /\ r \notin Done(k)
        /\ r \in Setters(t) /\ r \in Done(t)'
    BY <1>1, <2>1, <2>2 DEF Buyers, Paid, Setters, Done
  <2>6. \A k \in Tokens \ given : uses'[k] = 0
    BY <2>3 DEF IInv, TokensInv
  <2>7. slips' \in 0..MaxSlips /\ slips <= slips'
    BY <1>1, SlipType DEF IInv
  <2> QED
    BY <1>1, <2>2, <2>3, <2>4, <2>5, <2>6, <2>7, QuietStep DEF Storing
<1> QED
  BY <1>2, <1>3 DEF CommitPassword

\* The token of the address is deleted, or its deletion fails.
LEMMA DeleteTokenInv == ASSUME IInv, NEW r \in Requests, DeleteToken(r) PROVE IInv'
<1>1. /\ End(r)
      /\ UNCHANGED <<mailVars, otp, fate, exchanged, given, uses>>
      /\ \/ token' = NoToken /\ slips' = slips
         \/ token' = token /\ slips < MaxSlips /\ slips' = slips + 1
  BY DEF DeleteToken
<1>2. slips' \in 0..MaxSlips
  BY <1>1, SlipType DEF IInv
<1>3. CASE token' = token /\ slips' = slips + 1
  BY <1>1, <1>2, <1>3, EndInv
<1>4. CASE token' = NoToken /\ slips' = slips
  BY <1>1, <1>2, <1>4, EndInv
<1> QED
  BY <1>1, <1>3, <1>4

\* A worker dies; the deletion it was about to do is counted as a slip.
LEMMA CrashInv == ASSUME IInv, NEW r \in Requests, Crash(r) PROVE IInv'
<1>1. /\ End(r)
      /\ UNCHANGED <<mailVars, otp, token, fate, exchanged, given, uses>>
      /\ \/ slips' = slips /\ req[r].pc # "delete"
         \/ slips < MaxSlips /\ slips' = slips + 1
  BY DEF Crash
<1>2. slips' \in 0..MaxSlips
  BY <1>1, SlipType DEF IInv
<1> QED
  BY <1>1, <1>2, EndInv

\* A code that may not have been mailed has bought nothing, and nobody has typed it.
LEMMA UnaskedBuysNothing ==
    ASSUME IInv, NEW m \in Mails \ asked
    PROVE  Bought(m) = {} /\ Buyers(m) = {} /\ Paid(m) = {}
<1>1. mailed[m] = 0 /\ m # NoMail
  BY NoMailAssumption DEF IInv, MailInv, UntouchedInv
<1>2. \A t \in given : exchanged[t] # m
  BY <1>1 DEF IInv, TokensInv
<1>3. \A q \in Requests : req[q].op = "verify" => req[q].code # m
  BY <1>1 DEF IInv, HandlerInv
<1> QED
  BY <1>2, <1>3 DEF Bought, Buyers, Paid

\* A step of a request that is about to mail a code: nothing is bought or set.
LEMMA MailingStep ==
    ASSUME IInv, NEW r \in Requests, NEW h \in Handler, req' = [req EXCEPT ![r] = h],
           MailInv', StateOK', UNCHANGED <<token, exchanged, given, uses, slips, mailed>>,
           h.op \in {"none", "send", "reset"}, req[r].pc # "delete",
           HandlerInv(r)', CodesInv',
           \A m \in Mails : fate[m] # "none" /\ (req[r].pc \in Storing => m # req[r].code)
                => fate'[m] = fate[m] /\ (m \in asked' => m \in asked),
           otp' = otp \/ otp' \in Mails \ asked
    PROVE  IInv'
<1>1. req'[r] = h /\ \A q \in Requests \ {r} : req'[q] = req[q]
  BY DEF IInv, StateOK
<1>2. \A q \in Requests : HandlerInv(q)'
  BY <1>1, OthersInv
<1>3. TokensInv'
  BY DEF IInv, TokensInv
<1>4. /\ \A m : Bought(m)' = Bought(m) /\ r \notin Buyers(m)' /\ r \notin Paid(m)'
      /\ \A t : r \notin Setters(t)' /\ r \notin Done(t)' /\ r \notin Done(t)
  BY <1>1 DEF Bought, Buyers, Paid, Setters, Done
<1>5. ASSUME NEW m \in Mails PROVE CodeCounts(m)'
  <2>1. otp' = m => otp = m \/ (Bought(m)' = {} /\ Paid(m)' = {})
    <3>1. ASSUME m \in Mails \ asked PROVE Bought(m)' = {} /\ Paid(m)' = {}
      BY <1>1, <1>4, <3>1, UnaskedBuysNothing DEF Paid, Buyers
    <3>2. otp' = m => otp = m \/ m \in Mails \ asked
      OBVIOUS
    <3> QED
      BY <3>1, <3>2
  <2>2. slips <= slips'
    BY SlipType DEF IInv
  <2> QED
    BY <1>1, <1>3, <1>4, <2>1, <2>2, CodeCountsStep
<1>6. ASSUME NEW t \in Tokens PROVE TokenCounts(t)'
  <2>1. slips <= slips'
    BY SlipType DEF IInv
  <2> QED
    BY <1>1, <1>4, <2>1, TokenCountsStep
<1> QED
  BY <1>2, <1>3, <1>5, <1>6 DEF IInv

\* A fresh code is generated.
LEMMA GenerateCodeInv ==
    ASSUME IInv, NEW r \in Requests, SendOtp(r) \/ ResetPassword(r) PROVE IInv'
<1>1. PICK c \in Mails, op \in {"send", "reset"} :
        /\ fate[c] = "none" /\ Start(r, op, "store", c, NoToken)
        /\ fate' = [fate EXCEPT ![c] = "issued"]
        /\ UNCHANGED <<mailVars, otp, token, exchanged, given, uses, slips>>
  BY DEF GenerateCode, SendOtp, ResetPassword
<1> DEFINE h == [pc |-> "store", op |-> op, code |-> c, token |-> NoToken]
<1>2. /\ h \in Handler /\ h.pc = "store" /\ h.op = op /\ h.code = c
      /\ req' = [req EXCEPT ![r] = h] /\ req'[r] = h /\ req[r].pc = "idle"
      /\ \A q \in Requests \ {r} : req'[q] = req[q]
  BY <1>1 DEF Start, Handler, PCs, Ops, IInv, StateOK
<1> HIDE DEF h
<1>3. /\ MailInv' /\ UNCHANGED <<asked, mailed>>
      /\ fate' \in [Mails -> Fates] /\ fate'[c] = "issued"
      /\ \A m \in Mails \ {c} : fate'[m] = fate[m]
  BY <1>1, MailStutter DEF IInv, mailVars, StateOK, Fates
<1>4. StateOK'
  BY <1>1, <1>2, <1>3 DEF IInv, StateOK, MailInv
<1>5. c \notin asked /\ asked \subseteq Mails /\ c # NoMail
  BY <1>1, NoMailAssumption DEF IInv, CodesInv, MailedCodeWasStored, MailInv, MailTypeOK
<1>6. HandlerInv(r)'
  BY <1>1, <1>2, <1>3, <1>5 DEF HandlerInv, Storing
<1>7. \A q \in Requests : req[q].pc \in Storing => req[q].code # c
  BY <1>1 DEF IInv, HandlerInv, Mailable, Storing
<1>8. CodesInv'
  <2>1. otp' # NoMail => fate'[otp'] = "stored"
    BY <1>1, <1>3 DEF IInv, StateOK, CodesInv
  <2>2. MailedCodeWasStored'
    BY <1>3, <1>5 DEF IInv, CodesInv, MailedCodeWasStored
  <2>3. ASSUME NEW p \in Requests, NEW q \in Requests, p # q,
               req'[p].pc \in Storing, req'[q].pc \in Storing
        PROVE  req'[p].code # req'[q].code
    BY <1>2, <1>7, <2>3 DEF IInv, CodesInv
  <2> QED
    BY <2>1, <2>2, <2>3 DEF CodesInv
<1> QED
  BY <1>1, <1>2, <1>3, <1>4, <1>6, <1>8, MailingStep

\* The code is stored, or Redis refuses it.
LEMMA StoreCodeInv == ASSUME IInv, NEW r \in Requests, StoreCode(r) PROVE IInv'
<1>1. /\ req[r].pc = "store"
      /\ UNCHANGED <<mailVars, token, exchanged, given, uses, slips>>
  BY DEF StoreCode
<1>2. CASE End(r) /\ UNCHANGED <<otp, fate>>
  <2>1. slips' \in 0..MaxSlips
    BY <1>1, SlipType DEF IInv
  <2> QED
    BY <1>1, <1>2, <2>1, EndInv
<1>3. CASE ~ (End(r) /\ UNCHANGED <<otp, fate>>)
  <2> DEFINE c == req[r].code
  <2>1. /\ c \in Mails \ asked /\ fate[c] = "issued" /\ c # NoMail
        /\ req[r].op \in {"send", "reset"}
    BY <1>1, NoMailAssumption DEF IInv, HandlerInv, Storing
  <2>2. PICK f \in {"stored", "refused"} :
            /\ Goto(r, "publish") /\ fate' = [fate EXCEPT ![c] = f]
            /\ \/ f = "stored" /\ otp' = c
               \/ f = "refused" /\ otp' = otp /\ "cache" \in Faults
    BY <1>3 DEF StoreCode
  <2>3. PICK h \in Handler :
            /\ req' = [req EXCEPT ![r] = h] /\ req'[r] = h
            /\ h.pc = "publish" /\ h.op = req[r].op /\ h.code = c
    BY <2>2, GotoHandler DEF PCs, IInv
  <2> HIDE DEF c
  <2>4. /\ MailInv' /\ UNCHANGED <<asked, mailed>>
        /\ fate' \in [Mails -> Fates] /\ fate'[c] = f
        /\ \A m \in Mails \ {c} : fate'[m] = fate[m]
        /\ \A q \in Requests \ {r} : req'[q] = req[q]
    BY <1>1, <2>1, <2>2, <2>3, MailStutter DEF IInv, mailVars, StateOK, Fates
  <2>5. StateOK'
    BY <1>1, <2>1, <2>2, <2>3, <2>4 DEF IInv, StateOK, MailInv
  <2>6. HandlerInv(r)'
    BY <1>1, <2>1, <2>2, <2>3, <2>4 DEF HandlerInv, Mailable, Storing, IInv
  <2>7. CodesInv'
    <3>1. otp' # NoMail => fate'[otp'] = "stored"
      BY <2>1, <2>2, <2>4 DEF IInv, StateOK, CodesInv
    <3>2. MailedCodeWasStored'
      BY <2>1, <2>4 DEF IInv, CodesInv, MailedCodeWasStored, MailInv, MailTypeOK
    <3>3. \A p \in Requests :
            req'[p].pc \in Storing => req[p].pc \in Storing /\ req'[p].code = req[p].code
      BY <1>1, <2>3, <2>4 DEF Storing, c
    <3> QED
      BY <3>1, <3>2, <3>3 DEF CodesInv, IInv
  <2>8. /\ req[r].pc \in Storing /\ c = req[r].code /\ req[r].pc # "delete"
        /\ otp' = otp \/ otp' \in Mails \ asked
    BY <1>1, <2>1, <2>2 DEF Storing, c
  <2> QED
    BY <1>1, <2>1, <2>3, <2>4, <2>5, <2>6, <2>7, <2>8, MailingStep
<1> QED
  BY <1>2, <1>3

\* The task that mails the code is published, or there is no broker.
LEMMA PublishCodeInv == ASSUME IInv, NEW r \in Requests, PublishCode(r) PROVE IInv'
<1>1. /\ req[r].pc = "publish" /\ End(r)
      /\ UNCHANGED <<otp, token, fate, exchanged, given, uses, slips>>
  BY DEF PublishCode
<1>2. CASE UNCHANGED mailVars
  <2>1. slips' \in 0..MaxSlips
    BY <1>1, SlipType DEF IInv
  <2> QED
    BY <1>1, <1>2, <2>1, EndInv
<1>3. CASE Publish(req[r].code)
  <2> DEFINE c == req[r].code
  <2>1. c \in Mails \ asked /\ Mailable(c)
    BY <1>1 DEF IInv, HandlerInv, Storing
  <2>2. req' = [req EXCEPT ![r] = Idle] /\ req'[r] = Idle
        /\ \A q \in Requests \ {r} : req'[q] = req[q]
    BY <1>1 DEF End, IInv, StateOK
  <2>3. MailInv' /\ asked' = asked \cup {c} /\ mailed' = mailed
    BY <1>3, <2>1, PublishInv DEF IInv, Publish
  <2>4. StateOK'
    BY <1>1, <2>2, <2>3, IdleFields DEF IInv, StateOK, MailInv
  <2>5. HandlerInv(r)'
    BY <2>2, IdleFields DEF HandlerInv, Storing
  <2>6. CodesInv'
    <3>1. MailedCodeWasStored'
      BY <1>1, <2>1, <2>3 DEF IInv, CodesInv, MailedCodeWasStored, Mailable
    <3>2. \A p \in Requests :
            req'[p].pc \in Storing => req[p].pc \in Storing /\ req'[p].code = req[p].code
      BY <2>2, IdleFields DEF Storing
    <3> QED
      BY <1>1, <3>1, <3>2 DEF CodesInv, IInv
  <2>7. req[r].pc \in Storing
    BY <1>1 DEF Storing
  <2> QED
    BY <1>1, <2>2, <2>3, <2>4, <2>5, <2>6, <2>7, IdleFields, MailingStep
<1> QED
  BY <1>1, <1>2, <1>3 DEF PublishCode

\* A fresh token is bought with the code at hand.
LEMMA StoreTokenInv == ASSUME IInv, NEW r \in Requests, StoreToken(r) PROVE IInv'
<1>1. /\ req[r].pc = "storeToken" /\ End(r)
      /\ UNCHANGED <<mailVars, otp, fate, uses, slips>>
  BY DEF StoreToken
<1>2. CASE UNCHANGED <<token, exchanged, given>>
  <2>1. slips' \in 0..MaxSlips
    BY <1>1, SlipType DEF IInv
  <2> QED
    BY <1>1, <1>2, <2>1, EndInv
<1>3. CASE ~ UNCHANGED <<token, exchanged, given>>
  <2>1. PICK t \in Tokens \ given :
            /\ token' = t /\ given' = given \cup {t}
            /\ exchanged' = [exchanged EXCEPT ![t] = req[r].code]
    BY <1>3 DEF StoreToken
  <2>2. PICK c \in Mails :
            /\ req[r].code = c /\ req[r].op = "verify" /\ c # NoMail /\ mailed[c] > 0
    BY <1>1, HandlerFields DEF IInv, HandlerInv
  <2>3. /\ req' = [req EXCEPT ![r] = Idle] /\ req'[r] = Idle
        /\ \A q \in Requests \ {r} : req'[q] = req[q]
        /\ UNCHANGED <<asked, mailed>>
    BY <1>1 DEF End, IInv, StateOK, mailVars
  <2>4. /\ exchanged' \in [Tokens -> Mails \cup {NoMail}] /\ exchanged'[t] = c
        /\ \A k \in Tokens \ {t} : exchanged'[k] = exchanged[k]
    BY <2>1, <2>2 DEF IInv, StateOK
  <2>5. MailInv'
    BY <1>1, MailStutter DEF IInv
  <2>6. StateOK'
    BY <1>1, <2>1, <2>3, <2>4, <2>5, IdleFields DEF IInv, StateOK, MailInv
  <2>7. \A q \in Requests : HandlerInv(q)'
    <3>1. HandlerInv(r)'
      BY <2>3, IdleFields DEF HandlerInv, Storing
    <3>2. given \subseteq given'
      BY <2>1
    <3> QED
      BY <1>1, <2>3, <3>1, <3>2, OthersInv
  <2>8. CodesInv'
    BY <1>1, <2>3, IdleFields DEF IInv, CodesInv, MailedCodeWasStored, Storing
  <2>9. TokensInv'
    <3>1. IsFiniteSet(given')
      BY <2>1, FS_AddElement DEF IInv, TokensInv
    <3>2. given \subseteq Tokens
      BY DEF IInv, StateOK
    <3> QED
      BY <1>1, <2>1, <2>2, <2>3, <2>4, <3>1, <3>2 DEF IInv, TokensInv
  <2>10. slips' = slips /\ slips <= slips'
    BY <1>1, SlipType DEF IInv
  <2>11. ASSUME NEW m \in Mails, m # c PROVE CodeCounts(m)'
    <3>1. Bought(m)' = Bought(m)
      <4>1. given \subseteq Tokens
        BY DEF IInv, StateOK
      <4> QED
        BY <2>1, <2>4, <2>11, <4>1 DEF Bought
    <3>2. r \notin Buyers(m)' /\ r \notin Paid(m)'
      BY <2>3, IdleFields DEF Buyers, Paid
    <3> QED
      BY <1>1, <2>3, <2>6, <2>9, <2>10, <3>1, <3>2, CodeCountsStep
  <2>12. CodeCounts(c)'
    <3> DEFINE B == Cardinality(Bought(c))  C == Cardinality(Bought(c)')
               P == Cardinality(Paid(c))    Q == Cardinality(Paid(c)')
               y == slips
    <3>1. /\ IsFiniteSet(Bought(c)) /\ IsFiniteSet(Paid(c)) /\ y \in Nat
          /\ otp = c => B + P <= y
      BY CountTypes, MaxSlipsAssumption DEF IInv, StateOK, CodeCounts
    <3>2. B \in Nat /\ C \in Nat /\ C = B + 1
      <4>1. Bought(c)' = Bought(c) \cup {t} /\ t \notin Bought(c)
        <5>1. given \subseteq Tokens
          BY DEF IInv, StateOK
        <5> QED
          BY <2>1, <2>4, <5>1 DEF Bought
      <4> QED
        BY <3>1, <4>1, FS_AddElement, FS_CardinalityType
    <3>3. P \in Nat /\ Q \in Nat /\ Q = P - 1
      <4>1. Paid(c)' = Paid(c) \ {r} /\ r \in Paid(c)
        BY <1>1, <2>2, <2>3, IdleFields DEF Paid, Buyers
      <4> QED
        BY <3>1, <4>1, FS_RemoveElement, FS_CardinalityType
    <3>5. otp' = otp /\ slips' = y
      BY <1>1
    <3> HIDE DEF B, C, P, Q, y
    <3>6. otp = c => C + Q <= y
      BY <3>1, <3>2, <3>3
    <3> QED
      BY <3>5, <3>6 DEF CodeCounts, B, C, P, Q, y
  <2>13. ASSUME NEW k \in Tokens PROVE TokenCounts(k)'
    <3>1. r \notin Setters(k)' /\ r \notin Done(k)
      BY <1>1, <2>3, IdleFields DEF Setters, Done
    <3>2. token' = k => uses'[k] = 0
      BY <1>1, <2>1 DEF IInv, TokensInv
    <3> QED
      BY <1>1, <2>3, <2>6, <2>10, <3>1, <3>2, TokenCountsStep
  <2> QED
    BY <2>5, <2>6, <2>7, <2>8, <2>9, <2>11, <2>12, <2>13 DEF IInv
<1> QED
  BY <1>2, <1>3

\* A step of the workers asks for no mail and takes none back.
LEMMA MailGrows ==
    ASSUME MailTypeOK, MailNext
    PROVE  asked' = asked /\ \A m \in Mails : mailed[m] > 0 => mailed'[m] > 0
<1>1. PICK w \in Workers :
        WorkerStep(w) \/ SoftTimeLimit(w) \/ HardTimeLimit(w) \/ WorkerLost(w)
  BY DEF MailNext
<1>2. asked' = asked
  BY <1>1 DEF WorkerStep, Take, CallSendGrid, CallSmtp, Retry, Acknowledge,
              SoftTimeLimit, HardTimeLimit, WorkerLost
<1>3. mailed' = mailed \/ \E m : mailed' = [mailed EXCEPT ![m] = @ + 1]
  BY <1>1 DEF WorkerStep, Take, CallSendGrid, CallSmtp, Retry, Acknowledge,
              SoftTimeLimit, HardTimeLimit, WorkerLost, Call, LostAnswer
<1>4. ASSUME NEW m, mailed' = [mailed EXCEPT ![m] = @ + 1], NEW k \in Mails, mailed[k] > 0
      PROVE  mailed'[k] > 0
  <2>1. mailed[k] \in Nat /\ (mailed'[k] = mailed[k] \/ mailed'[k] = mailed[k] + 1)
    BY <1>4 DEF MailTypeOK
  <2> DEFINE a == mailed[k]  b == mailed'[k]
  <2>2. a \in Nat /\ a > 0 /\ (b = a \/ b = a + 1)
    BY <1>4, <2>1
  <2> HIDE DEF a, b
  <2>3. b > 0
    BY <2>2
  <2> QED
    BY <2>3 DEF b
<1> QED
  BY <1>2, <1>3, <1>4

\* Requests stand still while a key expires or a worker sends mails.
LEMMA StillStep ==
    ASSUME IInv, MailInv', UNCHANGED <<asked, req, fate, exchanged, given, uses, slips>>,
           otp' \in {otp, NoMail}, token' \in {token, NoToken},
           \A m \in Mails : mailed[m] > 0 => mailed'[m] > 0
    PROVE  IInv'
<1>1. StateOK'
  BY DEF IInv, StateOK, MailInv
<1>2. \A r \in Requests : HandlerInv(r)'
  BY HandlerFields DEF IInv, HandlerInv, Mailable, Storing
<1>3. CodesInv'
  BY DEF IInv, CodesInv, MailedCodeWasStored
<1>4. TokensInv'
  <2>1. \A t \in given : exchanged[t] \in Mails
    BY DEF IInv, StateOK, TokensInv
  <2> QED
    BY <2>1 DEF IInv, TokensInv
<1>5. ASSUME NEW m \in Mails PROVE CodeCounts(m)'
  <2>1. Bought(m)' = Bought(m) /\ Buyers(m)' = Buyers(m) /\ Paid(m)' = Paid(m)
    BY DEF Bought, Buyers, Paid
  <2>2. otp' = m => otp = m
    BY NoMailAssumption
  <2> QED
    BY <2>1, <2>2 DEF IInv, CodeCounts
<1>6. ASSUME NEW t \in Tokens PROVE TokenCounts(t)'
  <2>1. Setters(t)' = Setters(t) /\ Done(t)' = Done(t)
    BY DEF Setters, Done
  <2>2. token' = t => token = t
    BY NoTokenAssumption
  <2> QED
    BY <2>1, <2>2 DEF IInv, TokenCounts
<1> QED
  BY <1>1, <1>2, <1>3, <1>4, <1>5, <1>6 DEF IInv

\* Every step keeps the invariant.
LEMMA NextInv == IInv /\ [Next]_vars => IInv'
<1> SUFFICES ASSUME IInv, [Next]_vars PROVE IInv'
  OBVIOUS
<1>1. ASSUME NEW r \in Requests,
             SendOtp(r) \/ ResetPassword(r) \/ Verify(r) \/ Change(r) \/ HandlerStep(r) \/ Crash(r)
      PROVE  IInv'
  BY <1>1, GenerateCodeInv, StartInv, StoreCodeInv, PublishCodeInv, CheckCodeInv, DeleteCodeInv,
     StoreTokenInv, CheckTokenInv, CommitPasswordInv, DeleteTokenInv, CrashInv DEF HandlerStep
<1>2. CASE Expire
  <2>1. MailInv' /\ UNCHANGED <<asked, mailed>>
    BY <1>2, MailStutter DEF Expire, IInv, mailVars
  <2> QED
    BY <1>2, <2>1, StillStep DEF Expire
<1>3. CASE MailNext /\ UNCHANGED resetVars
  <2>1. MailInv' /\ asked' = asked /\ \A m \in Mails : mailed[m] > 0 => mailed'[m] > 0
    BY <1>3, MailNextInv, MailGrows DEF IInv, MailInv
  <2> QED
    BY <1>3, <2>1, StillStep DEF resetVars
<1>4. CASE UNCHANGED vars
  <2>1. MailInv' /\ UNCHANGED <<asked, mailed>>
    BY <1>4, MailStutter DEF vars, IInv, mailVars
  <2> QED
    BY <1>4, <2>1, StillStep DEF vars, resetVars
<1> QED
  BY <1>1, <1>2, <1>3, <1>4 DEF Next

\* The inductive invariant holds in every state of the composed system.
THEOREM Invariance == Spec => []IInv
BY InitInv, NextInv, PTL DEF Spec

\* Every code that was published was stored first, or refused by Redis for
\* reset_password.
THEOREM MailedWasStored == Spec => []MailedCodeWasStored
<1>1. IInv => MailedCodeWasStored
  BY DEF IInv, CodesInv
<1> QED
  BY <1>1, Invariance, PTL

-----------------------------------------------------------------------------
(* How often a code or a token is used: never more often than requests held  *)
(* it at a time, but for the deletions that did not happen.                  *)

CrowdInv ==
    /\ verifiers \in [Mails -> Nat] /\ changers \in [Tokens -> Nat]
    /\ \A m \in Mails :
        Cardinality(Bought(m)) + Cardinality(Buyers(m)) <= verifiers[m] + slips
    /\ \A t \in Tokens : uses[t] + Cardinality(Setters(t)) <= changers[t] + slips

RequestStep(r) ==
    SendOtp(r) \/ ResetPassword(r) \/ Verify(r) \/ Change(r) \/ HandlerStep(r) \/ Crash(r)

\* Only who compares a code with the stored one comes to hold it, and the same of
\* a token.
LEMMA Holders ==
    ASSUME IInv, NEW r \in Requests, RequestStep(r)
    PROVE  /\ \A q \in Requests \ {r} : req'[q] = req[q]
           /\ \A m \in Mails : r \in Buyers(m)' => r \in Buyers(m) \/ otp' = m
           /\ \A t \in Tokens : r \in Setters(t)' => r \in Setters(t) \/ token' = t
<1> USE DEF IInv
<1>0. StateOK
  OBVIOUS
<1>1. CASE End(r)
  BY <1>1, IdleFields DEF End, StateOK, Buyers, Setters
<1>2. ASSUME NEW op, NEW pc \in {"store", "read"}, NEW c, NEW t, Start(r, op, pc, c, t)
      PROVE  /\ \A q \in Requests \ {r} : req'[q] = req[q]
             /\ req'[r].pc = pc
  BY <1>2 DEF Start, StateOK
<1>3. CASE SendOtp(r) \/ ResetPassword(r) \/ Verify(r) \/ Change(r)
  <2>1. /\ \A q \in Requests \ {r} : req'[q] = req[q]
        /\ req'[r].pc \in {"store", "read"}
    BY <1>2, <1>3 DEF GenerateCode, SendOtp, ResetPassword, Verify, Change
  <2> QED
    BY <2>1 DEF Buyers, Setters
<1>4. ASSUME NEW pc \in PCs, Goto(r, pc)
      PROVE  /\ \A q \in Requests \ {r} : req'[q] = req[q]
             /\ req'[r].pc = pc /\ req'[r].op = req[r].op
             /\ req'[r].code = req[r].code /\ req'[r].token = req[r].token
  BY <1>0, <1>4, GotoHandler DEF Goto, StateOK
<1>5. CASE (StoreCode(r) \/ CommitPassword(r)) /\ ~End(r)
  <2>1. \/ Goto(r, "publish")
        \/ Goto(r, "delete") /\ req[r].op = "change"
    BY <1>5 DEF StoreCode, CommitPassword, HandlerInv
  <2> QED
    BY <1>4, <2>1 DEF Buyers, Setters, PCs
<1>6. CASE CheckCode(r) /\ ~End(r)
  <2>1. Goto(r, "delete") /\ req[r].op = "verify" /\ otp = req[r].code /\ otp' = otp
    BY <1>6 DEF CheckCode
  <2> QED
    BY <1>4, <2>1 DEF Buyers, Setters, PCs
<1>7. CASE DeleteCode(r)
  <2>1. Goto(r, "storeToken") /\ req[r].op = "verify" /\ req[r].pc = "delete"
    BY <1>7 DEF DeleteCode
  <2> QED
    BY <1>4, <2>1 DEF Buyers, Setters, PCs
<1>8. CASE CheckToken(r) /\ ~End(r)
  <2>1. Goto(r, "commit") /\ req[r].op = "change" /\ token = req[r].token /\ token' = token
    BY <1>8 DEF CheckToken
  <2> QED
    BY <1>4, <2>1 DEF Buyers, Setters, PCs
<1>9. PublishCode(r) \/ StoreToken(r) \/ DeleteToken(r) \/ Crash(r) => End(r)
  BY DEF PublishCode, StoreToken, DeleteToken, Crash
<1> QED
  BY <1>1, <1>3, <1>5, <1>6, <1>7, <1>8, <1>9 DEF RequestStep, HandlerStep

\* Unless the code is still there, a step does not add to what its holders have
\* bought and may buy.
LEMMA BuyingShrinks ==
    ASSUME IInv, IInv', NEW m \in Mails, otp' # m,
           \/ \E r \in Requests : RequestStep(r)
           \/ UNCHANGED <<req, exchanged, given>>
    PROVE  Cardinality(Bought(m)') + Cardinality(Buyers(m)')
            <= Cardinality(Bought(m)) + Cardinality(Buyers(m))
<1> DEFINE B == Cardinality(Bought(m))  C == Cardinality(Bought(m)')
           S == Cardinality(Buyers(m))  T == Cardinality(Buyers(m)')
<1>1. /\ B \in Nat /\ S \in Nat /\ C \in Nat /\ T \in Nat
      /\ IsFiniteSet(Bought(m)) /\ IsFiniteSet(Buyers(m))
  <2>1. IsFiniteSet(Bought(m)') /\ IsFiniteSet(Buyers(m)')
    BY RequestsAssumption, FS_Subset DEF IInv, TokensInv, Bought, Buyers
  <2> QED
    BY <2>1, CountTypes, FS_CardinalityType DEF IInv
<1>2. CASE Bought(m)' = Bought(m) /\ Buyers(m)' \subseteq Buyers(m)
  <2>1. T <= S
    BY <1>1, <1>2, FS_Subset
  <2>2. C = B
    BY <1>2
  <2> HIDE DEF B, C, S, T
  <2>3. C + T <= B + S
    BY <1>1, <2>1, <2>2
  <2> QED
    BY <2>3 DEF B, C, S, T
<1>3. CASE UNCHANGED <<req, exchanged, given>>
  BY <1>2, <1>3 DEF Bought, Buyers
<1>4. ASSUME NEW r \in Requests, RequestStep(r)
      PROVE  C + T <= B + S
  <2>1. Buyers(m)' \subseteq Buyers(m)
    BY <1>4, Holders DEF Buyers
  <2>2. CASE UNCHANGED <<exchanged, given>>
    BY <1>2, <2>1, <2>2 DEF Bought
  <2>3. CASE ~ UNCHANGED <<exchanged, given>>
    <3>1. StoreToken(r)
      BY <1>4, <2>3 DEF RequestStep, GenerateCode, SendOtp, ResetPassword, Verify, Change,
         HandlerStep, StoreCode,
         PublishCode, CheckCode, DeleteCode, CheckToken, CommitPassword, DeleteToken, Crash
    <3>2. PICK t \in Tokens \ given :
            /\ given' = given \cup {t} /\ exchanged'[t] = req[r].code
            /\ \A k \in Tokens \ {t} : exchanged'[k] = exchanged[k]
            /\ req[r].pc = "storeToken" /\ End(r) /\ req[r].op = "verify"
      BY <2>3, <3>1 DEF StoreToken, IInv, StateOK, HandlerInv
    <3>3. given \subseteq Tokens /\ r \notin Buyers(m)'
      BY <3>2, IdleFields DEF IInv, StateOK, End, Buyers
    <3>4. CASE req[r].code # m
      <4>1. Bought(m)' = Bought(m)
        BY <3>2, <3>3, <3>4 DEF Bought
      <4> QED
        BY <1>2, <2>1, <4>1
    <3>5. CASE req[r].code = m
      <4>1. Bought(m)' = Bought(m) \cup {t} /\ t \notin Bought(m)
        BY <3>2, <3>3, <3>5 DEF Bought
      <4>2. C = B + 1
        BY <1>1, <4>1, FS_AddElement
      <4>3. r \in Buyers(m) /\ Buyers(m)' \subseteq Buyers(m) \ {r}
        BY <2>1, <3>2, <3>3, <3>5 DEF Buyers
      <4>4. IsFiniteSet(Buyers(m) \ {r}) /\ Cardinality(Buyers(m) \ {r}) = S - 1
        BY <1>1, <4>3, FS_RemoveElement
      <4>5. T <= S - 1
        BY <4>3, <4>4, FS_Subset
      <4> HIDE DEF B, C, S, T
      <4> QED
        BY <1>1, <4>2, <4>5
    <3> QED
      BY <3>4, <3>5
  <2> QED
    BY <2>2, <2>3
<1> QED
  BY <1>3, <1>4

\* Unless the token is still there, a step does not add to the passwords that
\* its holders have set and may set.
LEMMA SettingShrinks ==
    ASSUME IInv, IInv', NEW t \in Tokens, token' # t,
           \/ \E r \in Requests : RequestStep(r)
           \/ UNCHANGED <<req, uses>>
    PROVE  uses'[t] + Cardinality(Setters(t)') <= uses[t] + Cardinality(Setters(t))
<1> DEFINE u == uses[t]  v == uses'[t]
           S == Cardinality(Setters(t))  T == Cardinality(Setters(t)')
<1>1. u \in Nat /\ S \in Nat /\ v \in Nat /\ T \in Nat /\ IsFiniteSet(Setters(t))
  <2>1. IsFiniteSet(Setters(t)')
    BY RequestsAssumption, FS_Subset DEF Setters
  <2> QED
    BY <2>1, CountTypes, FS_CardinalityType DEF IInv, StateOK
<1>2. CASE uses'[t] = uses[t] /\ Setters(t)' \subseteq Setters(t)
  <2>1. T <= S
    BY <1>1, <1>2, FS_Subset
  <2>2. u = v
    BY <1>2
  <2> HIDE DEF u, v, S, T
  <2>3. v + T <= u + S
    BY <1>1, <2>1, <2>2
  <2> QED
    BY <2>3 DEF u, v, S, T
<1>3. CASE UNCHANGED <<req, uses>>
  BY <1>2, <1>3 DEF Setters
<1>4. ASSUME NEW r \in Requests, RequestStep(r)
      PROVE  v + T <= u + S
  <2>1. Setters(t)' \subseteq Setters(t)
    BY <1>4, Holders DEF Setters
  <2>2. CASE uses'[t] = uses[t]
    BY <1>2, <2>1, <2>2
  <2>3. CASE uses'[t] # uses[t]
    <3>1. CommitPassword(r)
      BY <1>4, <2>3 DEF RequestStep, GenerateCode, SendOtp, ResetPassword, Verify, Change,
         HandlerStep, StoreCode,
         PublishCode, CheckCode, DeleteCode, StoreToken, CheckToken, DeleteToken, Crash
    <3>2. /\ uses' = [uses EXCEPT ![req[r].token] = @ + 1] /\ Goto(r, "delete")
          /\ req[r].pc = "commit" /\ req[r].op = "change"
      BY <2>3, <3>1 DEF CommitPassword, IInv, HandlerInv
    <3>3. req[r].token = t /\ v = u + 1
      BY <2>3, <3>2 DEF IInv, StateOK
    <3>4. r \in Setters(t) /\ r \notin Setters(t)'
      <4>1. req'[r].pc = "delete"
        BY <3>2 DEF Goto, IInv, StateOK
      <4> QED
        BY <3>2, <3>3, <4>1 DEF Setters
    <3>5. Setters(t)' \subseteq Setters(t) \ {r}
      BY <2>1, <3>4
    <3>6. IsFiniteSet(Setters(t) \ {r}) /\ Cardinality(Setters(t) \ {r}) = S - 1
      BY <1>1, <3>4, FS_RemoveElement
    <3>7. T <= S - 1
      BY <3>5, <3>6, FS_Subset
    <3> HIDE DEF u, v, S, T
    <3> QED
      BY <1>1, <3>3, <3>7
  <2> QED
    BY <2>2, <2>3
<1> QED
  BY <1>3, <1>4

\* Slips are not taken back.
LEMMA SlipsGrow == ASSUME IInv, [Next]_vars PROVE slips <= slips'
<1>1. \/ slips' = slips
      \/ slips < MaxSlips /\ slips' = slips + 1
  BY DEF Next, vars, resetVars, GenerateCode, SendOtp, ResetPassword, Verify, Change,
     HandlerStep, StoreCode, PublishCode,
     CheckCode, DeleteCode, StoreToken, CheckToken, CommitPassword, DeleteToken, Crash, Expire
<1> QED
  BY <1>1, SlipType DEF IInv

\* The histories keep their types.
LEMMA GatherTypes ==
    ASSUME CrowdInv, Gather
    PROVE  /\ verifiers' \in [Mails -> Nat] /\ changers' \in [Tokens -> Nat]
           /\ \A x : Cardinality(Verifying(x)') \in Nat /\ Cardinality(Changing(x)') \in Nat
<1>1. \A a, b \in Nat : Larger(a, b) \in Nat
  BY DEF Larger
<1>2. \A x : Cardinality(Verifying(x)') \in Nat /\ Cardinality(Changing(x)') \in Nat
  <2>1. \A x : Verifying(x)' \in SUBSET Requests /\ Changing(x)' \in SUBSET Requests
    BY DEF Verifying, Changing
  <2> QED
    BY <2>1, RequestsAssumption, FS_Subset, FS_CardinalityType
<1> QED
  BY <1>1, <1>2 DEF CrowdInv, Gather

\* The history of a code is kept up to date.
LEMMA GatheredCodes ==
    ASSUME CrowdInv, Gather, NEW m \in Mails
    PROVE  /\ verifiers' \in [Mails -> Nat] /\ verifiers[m] <= verifiers'[m]
           /\ Cardinality(Verifying(m)') <= verifiers'[m]
<1>1. \A a, b \in Nat : a <= Larger(a, b) /\ b <= Larger(a, b)
  BY DEF Larger
<1>2. verifiers[m] \in Nat /\ Cardinality(Verifying(m)') \in Nat
  BY GatherTypes DEF CrowdInv
<1>3. verifiers'[m] = Larger(verifiers[m], Cardinality(Verifying(m)'))
  BY DEF Gather
<1> QED
  BY <1>1, <1>2, <1>3, GatherTypes

\* The history of a token is kept up to date.
LEMMA GatheredTokens ==
    ASSUME CrowdInv, Gather, NEW t \in Tokens
    PROVE  /\ changers' \in [Tokens -> Nat] /\ changers[t] <= changers'[t]
           /\ Cardinality(Changing(t)') <= changers'[t]
<1>1. \A a, b \in Nat : a <= Larger(a, b) /\ b <= Larger(a, b)
  BY DEF Larger
<1>2. changers[t] \in Nat /\ Cardinality(Changing(t)') \in Nat
  BY GatherTypes DEF CrowdInv
<1>3. changers'[t] = Larger(changers[t], Cardinality(Changing(t)'))
  BY DEF Gather
<1> QED
  BY <1>1, <1>2, <1>3, GatherTypes

\* After a step, the buyers of a code are past its deletion or hold it.
LEMMA BuyersSplit ==
    ASSUME NEW m
    PROVE  Cardinality(Buyers(m)') <= Cardinality(Paid(m)') + Cardinality(Verifying(m)')
<1> DEFINE B == Buyers(m)'  P == Paid(m)'  V == Verifying(m)'
<1>1. B = P \cup V /\ P \cap V = {} /\ P \in SUBSET Requests /\ V \in SUBSET Requests
  BY DEF Buyers, Paid, Verifying
<1> HIDE DEF B, P, V
<1>2. IsFiniteSet(P) /\ IsFiniteSet(V)
  BY <1>1, RequestsAssumption, FS_Subset
<1>3. Cardinality(P) \in Nat /\ Cardinality(V) \in Nat /\ Cardinality(P \cap V) = 0
  BY <1>1, <1>2, FS_CardinalityType, FS_EmptySet
<1>4. Cardinality(P \cup V) = Cardinality(P) + Cardinality(V) - Cardinality(P \cap V)
  BY <1>2, FS_Union
<1>5. Cardinality(B) <= Cardinality(P) + Cardinality(V)
  BY <1>1, <1>3, <1>4
<1> QED
  BY <1>5 DEF B, P, V

\* After a step, who holds a token has set its password or not yet.
LEMMA ChangingSplit ==
    ASSUME NEW t
    PROVE  Cardinality(Setters(t)') + Cardinality(Done(t)') = Cardinality(Changing(t)')
<1> DEFINE C == Changing(t)'  S == Setters(t)'  D == Done(t)'
<1>1. C = S \cup D /\ S \cap D = {} /\ S \in SUBSET Requests /\ D \in SUBSET Requests
  BY DEF Changing, Setters, Done
<1> HIDE DEF C, S, D
<1>2. IsFiniteSet(S) /\ IsFiniteSet(D)
  BY <1>1, RequestsAssumption, FS_Subset
<1>3. Cardinality(S) \in Nat /\ Cardinality(D) \in Nat /\ Cardinality(S \cap D) = 0
  BY <1>1, <1>2, FS_CardinalityType, FS_EmptySet
<1>4. Cardinality(S \cup D) = Cardinality(S) + Cardinality(D) - Cardinality(S \cap D)
  BY <1>2, FS_Union
<1>5. Cardinality(S) + Cardinality(D) = Cardinality(C)
  BY <1>1, <1>3, <1>4
<1> QED
  BY <1>5 DEF C, S, D

\* Every step keeps the bounds: while a secret is there, only its holders and
\* the slips count, and without it nobody comes to hold it.
LEMMA CrowdStep ==
    ASSUME IInv, IInv', CrowdInv, Next PROVE CrowdInv'
<1>1. Gather /\ slips <= slips' /\ slips \in Nat /\ slips' \in Nat
  BY SlipsGrow, MaxSlipsAssumption DEF Next, IInv, StateOK
<1>2. \/ \E r \in Requests : RequestStep(r)
      \/ UNCHANGED <<req, exchanged, given, uses>>
  BY DEF Next, RequestStep, Expire, resetVars
<1>3. ASSUME NEW m \in Mails
      PROVE  Cardinality(Bought(m)') + Cardinality(Buyers(m)') <= verifiers'[m] + slips'
  <2> DEFINE B == Cardinality(Bought(m))  C == Cardinality(Bought(m)')
             S == Cardinality(Buyers(m))  T == Cardinality(Buyers(m)')
             Q == Cardinality(Paid(m)')  H == Cardinality(Verifying(m)')
             v == verifiers[m]  w == verifiers'[m]  y == slips  z == slips'
  <2>1. /\ IsFiniteSet(Bought(m)') /\ IsFiniteSet(Buyers(m)') /\ IsFiniteSet(Paid(m)')
        /\ IsFiniteSet(Verifying(m)')
    BY RequestsAssumption, FS_Subset DEF IInv, TokensInv, Bought, Buyers, Paid, Verifying
  <2>2. B \in Nat /\ C \in Nat /\ S \in Nat /\ T \in Nat /\ Q \in Nat /\ H \in Nat
    BY <2>1, CountTypes, FS_CardinalityType DEF IInv
  <2>3. verifiers \in [Mails -> Nat] /\ B + S <= v + y
    BY DEF CrowdInv
  <2>4. verifiers' \in [Mails -> Nat] /\ v <= w /\ H <= w
    BY <1>1, GatheredCodes
  <2>5. v \in Nat /\ w \in Nat /\ y \in Nat /\ z \in Nat /\ y <= z
    BY <1>1, <2>3, <2>4
  <2>6. CASE otp' = m
    <3>1. C + Q <= z
      BY <2>6 DEF IInv, CodeCounts
    <3>2. T <= Q + H
      BY BuyersSplit
    <3> HIDE DEF B, C, S, T, Q, H, v, w, y, z
    <3>3. C + T <= w + z
      BY <2>2, <2>4, <2>5, <3>1, <3>2
    <3> QED
      BY <3>3 DEF C, T, w, z
  <2>7. CASE otp' # m
    <3>1. C + T <= B + S
      BY <1>2, <2>7, BuyingShrinks
    <3> HIDE DEF B, C, S, T, Q, H, v, w, y, z
    <3>2. C + T <= w + z
      BY <2>2, <2>3, <2>4, <2>5, <3>1
    <3> QED
      BY <3>2 DEF C, T, w, z
  <2> QED
    BY <2>6, <2>7
<1>4. ASSUME NEW t \in Tokens
      PROVE  uses'[t] + Cardinality(Setters(t)') <= changers'[t] + slips'
  <2> DEFINE S == Cardinality(Setters(t))  T == Cardinality(Setters(t)')
             E == Cardinality(Done(t)')  H == Cardinality(Changing(t)')
             u == uses[t]  v == uses'[t]
             c == changers[t]  d == changers'[t]  y == slips  z == slips'
  <2>1. IsFiniteSet(Setters(t)') /\ IsFiniteSet(Done(t)') /\ IsFiniteSet(Changing(t)')
    BY RequestsAssumption, FS_Subset DEF Setters, Done, Changing
  <2>2. u \in Nat /\ v \in Nat /\ S \in Nat /\ T \in Nat /\ E \in Nat /\ H \in Nat
    BY <2>1, CountTypes, FS_CardinalityType DEF IInv, StateOK
  <2>3. changers \in [Tokens -> Nat] /\ u + S <= c + y
    BY DEF CrowdInv
  <2>4. changers' \in [Tokens -> Nat] /\ c <= d /\ H <= d
    BY <1>1, GatheredTokens
  <2>5. c \in Nat /\ d \in Nat /\ y \in Nat /\ z \in Nat /\ y <= z
    BY <1>1, <2>3, <2>4
  <2>6. CASE token' = t
    <3>1. v <= E + z
      BY <2>6 DEF IInv, TokenCounts
    <3>2. T + E = H
      BY ChangingSplit
    <3> HIDE DEF S, T, E, H, u, v, c, d, y, z
    <3>3. v + T <= d + z
      BY <2>2, <2>4, <2>5, <3>1, <3>2
    <3> QED
      BY <3>3 DEF T, v, d, z
  <2>7. CASE token' # t
    <3>1. v + T <= u + S
      BY <1>2, <2>7, SettingShrinks
    <3> HIDE DEF S, T, E, H, u, v, c, d, y, z
    <3>2. v + T <= d + z
      BY <2>2, <2>3, <2>4, <2>5, <3>1
    <3> QED
      BY <3>2 DEF T, v, d, z
  <2> QED
    BY <2>6, <2>7
<1>5. verifiers' \in [Mails -> Nat] /\ changers' \in [Tokens -> Nat]
  BY <1>1, GatherTypes
<1> QED
  BY <1>3, <1>4, <1>5 DEF CrowdInv

\* In every reachable state.
LEMMA CrowdInvariance == Spec => []CrowdInv
<1>1. ASSUME Init PROVE CrowdInv
  <2>1. \A r \in Requests : req[r] = Idle
    BY <1>1 DEF Init
  <2>2. /\ \A m : Bought(m) = {} /\ Buyers(m) = {}
        /\ \A t : Setters(t) = {}
    BY <1>1, <2>1, IdleFields DEF Bought, Buyers, Setters, Init
  <2>3. Cardinality({}) = 0
    BY FS_EmptySet
  <2> QED
    BY <1>1, <2>2, <2>3 DEF Init, CrowdInv
<1>2. ASSUME IInv, IInv', CrowdInv, UNCHANGED vars PROVE CrowdInv'
  BY <1>2 DEF vars, resetVars, crowds, CrowdInv, Bought, Buyers, Setters
<1> QED
  BY <1>1, <1>2, Invariance, CrowdStep, PTL DEF Spec

\* A code buys no more tokens than requests held it at a time and deletions of
\* keys failed: it is single-use when its verifications do not overlap between
\* their comparison and their deletion and no deletion fails.
THEOREM CodesBuyFewTokens == Spec => []CodeBuysFewTokens
<1>1. ASSUME IInv, CrowdInv PROVE CodeBuysFewTokens
  <2>1. ASSUME NEW m \in Mails PROVE Cardinality(Bought(m)) <= verifiers[m] + slips
    <3> DEFINE B == Cardinality(Bought(m))  S == Cardinality(Buyers(m))  v == verifiers[m]
    <3>1. B \in Nat /\ S \in Nat /\ v \in Nat /\ slips \in Nat /\ B + S <= v + slips
      BY <1>1, CountTypes, MaxSlipsAssumption DEF IInv, StateOK, CrowdInv
    <3> HIDE DEF B, S, v
    <3>2. B <= v + slips
      BY <3>1
    <3> QED
      BY <3>2 DEF B, v
  <2> QED
    BY <2>1 DEF CodeBuysFewTokens, Bought
<1> QED
  BY <1>1, Invariance, CrowdInvariance, PTL

\* A token sets no more passwords than requests held it at a time and deletions
\* of keys failed.
THEOREM TokensSetFewPasswords == Spec => []TokenSetsFewPasswords
<1>1. ASSUME IInv, CrowdInv PROVE TokenSetsFewPasswords
  <2>1. ASSUME NEW t \in Tokens PROVE uses[t] <= changers[t] + slips
    <3> DEFINE S == Cardinality(Setters(t))  c == changers[t]  u == uses[t]
    <3>1. u \in Nat /\ S \in Nat /\ c \in Nat /\ slips \in Nat /\ u + S <= c + slips
      BY <1>1, CountTypes, MaxSlipsAssumption DEF IInv, StateOK, CrowdInv
    <3> HIDE DEF S, c, u
    <3>2. u <= c + slips
      BY <3>1
    <3> QED
      BY <3>2 DEF u, c
  <2> QED
    BY <2>1 DEF TokenSetsFewPasswords
<1> QED
  BY <1>1, Invariance, CrowdInvariance, PTL

\* A password set with a token was paid for with a mailed code, and every
\* variable has its type.
THEOREM PasswordsNeedMail == Spec => []PasswordNeedsMail
<1>1. ASSUME IInv, CrowdInv PROVE PasswordNeedsMail
  <2>1. ASSUME NEW t \in Tokens, uses[t] > 0 PROVE t \in given
    BY <1>1, <2>1 DEF IInv, TokensInv
  <2> QED
    BY <1>1, <2>1 DEF IInv, TokensInv, PasswordNeedsMail, TypeOK, CrowdInv
<1> QED
  BY <1>1, Invariance, CrowdInvariance, PTL

\* The queue loses and duplicates no more when requests fill it.
THEOREM QueueKeepsItsPromise == Spec => [](NoMailIsLost /\ DuplicatesAreAccounted)
<1>1. IInv => NoMailIsLost /\ DuplicatesAreAccounted
  BY MailInvNoMailIsLost DEF IInv, MailInv, DuplicatesInv, DuplicatesAreAccounted
<1> QED
  BY <1>1, Invariance, PTL

=============================================================================
