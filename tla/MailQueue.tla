------------------------------ MODULE MailQueue ------------------------------
(***************************************************************************)
(* The Celery queue of mail tasks and the worker processes that run        *)
(* send_otp_email, the one task the application publishes.                 *)
(*                                                                         *)
(* A worker acknowledges its message late, when the task has ended; the    *)
(* message of a worker that dies goes back to the queue.  The task tries   *)
(* SendGrid, then SMTP, and an attempt in which both fail publishes a      *)
(* message for the next attempt.                                           *)
(*                                                                         *)
(* A provider may accept a mail and the call still fail (a lost answer),   *)
(* and a call without a timeout of its own is cut by the time limits of    *)
(* the task: the soft one raises inside the call, the hard one kills.      *)
(***************************************************************************)
EXTENDS Naturals, FiniteSets, Sums

CONSTANTS
    Mails,          \* the mails that may be asked for
    NoMail,         \* no mail at hand
    Workers,        \* the processes of the Celery worker
    MaxRetries,     \* max_retries of the task
    MaxAccidents    \* bound: worker deaths and lost answers of a behaviour

ASSUME NoMailAssumption == NoMail \notin Mails
ASSUME WorkersAssumption == IsFiniteSet(Workers)
ASSUME MaxRetriesAssumption == MaxRetries \in Nat
ASSUME MaxAccidentsAssumption == MaxAccidents \in Nat

VARIABLES
    asked,      \* mails whose first message was published
    queue,      \* queue[m][n]: messages of m waiting, n attempts made before
    worker,     \* what each process does
    mailed,     \* mailed[m]: how often a provider accepted m
    dropped,    \* mails given up: no attempt left, or killed by the hard limit
    accidents   \* worker deaths and lost answers so far

mailVars == <<asked, queue, worker, mailed, dropped, accidents>>

Attempts == 0..MaxRetries
WorkerPCs == {"idle", "sendgrid", "smtp", "failed", "ended"}
Worker == [pc: WorkerPCs, mail: Mails \cup {NoMail}, tries: Attempts, late: BOOLEAN]

IdleWorker == [pc |-> "idle", mail |-> NoMail, tries |-> 0, late |-> FALSE]

MailTypeOK ==
    /\ asked \subseteq Mails
    /\ queue \in [Mails -> [Attempts -> Nat]]
    /\ worker \in [Workers -> Worker]
    /\ mailed \in [Mails -> Nat]
    /\ dropped \subseteq Mails
    /\ accidents \in 0..MaxAccidents

MailInit ==
    /\ asked = {}
    /\ queue = [m \in Mails |-> [n \in Attempts |-> 0]]
    /\ worker = [w \in Workers |-> IdleWorker]
    /\ mailed = [m \in Mails |-> 0]
    /\ dropped = {}
    /\ accidents = 0

Waiting(m) == \E n \in Attempts : queue[m][n] > 0
Held(m) == \E w \in Workers : worker[w].mail = m

-----------------------------------------------------------------------------
\* send_otp_email.delay: a message for the first attempt.
Publish(m) ==
    /\ asked' = asked \cup {m}
    /\ queue' = [queue EXCEPT ![m][0] = @ + 1]
    /\ UNCHANGED <<worker, mailed, dropped, accidents>>

\* Mutant: the message is acknowledged when it is taken.
TakeEarly(w) ==
    /\ worker[w].pc = "idle"
    /\ \E m \in Mails, n \in Attempts :
        /\ queue[m][n] > 0
        /\ queue' = [queue EXCEPT ![m][n] = @ - 1]
        /\ \/ worker' = [worker EXCEPT ![w] =
                [pc |-> "sendgrid", mail |-> m, tries |-> n, late |-> FALSE]]
           \/ UNCHANGED worker
    /\ UNCHANGED <<asked, mailed, dropped, accidents>>

\* A free process takes a waiting message, in no particular order: the ones of
\* a retry wait for their countdown.
Take(w) ==
    /\ worker[w].pc = "idle"
    /\ \E m \in Mails, n \in Attempts :
        /\ queue[m][n] > 0
        /\ queue' = [queue EXCEPT ![m][n] = @ - 1]
        /\ worker' = [worker EXCEPT ![w] =
                [pc |-> "sendgrid", mail |-> m, tries |-> n, late |-> FALSE]]
    /\ UNCHANGED <<asked, mailed, dropped, accidents>>

\* A provider accepts m and the call fails all the same.
LostAnswer(m) ==
    /\ accidents < MaxAccidents
    /\ accidents' = accidents + 1
    /\ mailed' = [mailed EXCEPT ![m] = @ + 1]

\* One call to a provider, after which the task is at "ok" or at "bad".
Call(w, ok, bad) ==
    LET m == worker[w].mail IN
    \/ /\ mailed' = [mailed EXCEPT ![m] = @ + 1]
       /\ worker' = [worker EXCEPT ![w].pc = ok]
       /\ UNCHANGED accidents
    \/ /\ worker' = [worker EXCEPT ![w].pc = bad]
       /\ UNCHANGED <<mailed, accidents>>
    \/ /\ LostAnswer(m)
       /\ worker' = [worker EXCEPT ![w].pc = bad]

\* Mutant: the fallback runs after a mail that SendGrid has accepted, too.
CallSendGridAndGoOn(w) ==
    /\ worker[w].pc = "sendgrid"
    /\ Call(w, "smtp", "smtp")
    /\ UNCHANGED <<asked, queue, dropped>>

\* _send_with_sendgrid: any exception, the one of a missing key too, leads to
\* the fallback.
CallSendGrid(w) ==
    /\ worker[w].pc = "sendgrid"
    /\ Call(w, "ended", "smtp")
    /\ UNCHANGED <<asked, queue, dropped>>

\* The soft limit cuts the call to SendGrid; its exception is caught like any
\* other, and the fallback starts with what is left until the hard limit.
SoftTimeLimit(w) ==
    /\ worker[w].pc = "sendgrid"
    /\ worker' = [worker EXCEPT ![w].pc = "smtp", ![w].late = TRUE]
    /\ \/ UNCHANGED <<mailed, accidents>>
       \/ LostAnswer(worker[w].mail)
    /\ UNCHANGED <<asked, queue, dropped>>

\* The fallback: SMTP, sent by the same task.  A failure, the soft limit
\* included, is an exception of the task.
CallSmtp(w) ==
    /\ worker[w].pc = "smtp"
    /\ Call(w, "ended", "failed")
    /\ UNCHANGED <<asked, queue, dropped>>

\* The hard limit kills the process; the message is acknowledged and the task
\* failed, whatever attempts are left.
HardTimeLimit(w) ==
    /\ worker[w].pc = "smtp"
    /\ worker[w].late
    /\ dropped' = dropped \cup {worker[w].mail}
    /\ worker' = [worker EXCEPT ![w] = IdleWorker]
    /\ UNCHANGED <<asked, queue, mailed, accidents>>

\* Mutant: the last attempt is retried like the others, from the start.
RetryForever(w) ==
    LET m == worker[w].mail n == worker[w].tries IN
    /\ worker[w].pc = "failed"
    /\ worker' = [worker EXCEPT ![w].pc = "ended"]
    /\ queue' = [queue EXCEPT ![m][IF n < MaxRetries THEN n + 1 ELSE 0] = @ + 1]
    /\ UNCHANGED <<asked, mailed, dropped, accidents>>

\* autoretry_for: an attempt that failed publishes the next one before its own
\* message is acknowledged; the last one gives up.
Retry(w) ==
    LET m == worker[w].mail n == worker[w].tries IN
    /\ worker[w].pc = "failed"
    /\ worker' = [worker EXCEPT ![w].pc = "ended"]
    /\ \/ /\ n < MaxRetries
          /\ queue' = [queue EXCEPT ![m][n + 1] = @ + 1]
          /\ UNCHANGED dropped
       \/ /\ n = MaxRetries
          /\ dropped' = dropped \cup {m}
          /\ UNCHANGED queue
    /\ UNCHANGED <<asked, mailed, accidents>>

\* task_acks_late: the message goes when the task has ended.
Acknowledge(w) ==
    /\ worker[w].pc = "ended"
    /\ worker' = [worker EXCEPT ![w] = IdleWorker]
    /\ UNCHANGED <<asked, queue, mailed, dropped, accidents>>

\* task_reject_on_worker_lost: the message of a process that dies at any point
\* before the acknowledgement is queued again, as the attempt it was.
WorkerLost(w) ==
    /\ worker[w].pc # "idle"
    /\ accidents < MaxAccidents
    /\ accidents' = accidents + 1
    /\ queue' = [queue EXCEPT ![worker[w].mail][worker[w].tries] = @ + 1]
    /\ worker' = [worker EXCEPT ![w] = IdleWorker]
    /\ UNCHANGED <<asked, mailed, dropped>>

WorkerStep(w) ==
    \/ Take(w) \/ CallSendGrid(w) \/ CallSmtp(w) \/ Retry(w) \/ Acknowledge(w)

MailNext ==
    \E w \in Workers :
        WorkerStep(w) \/ SoftTimeLimit(w) \/ HardTimeLimit(w) \/ WorkerLost(w)

\* The queue on its own: every mail is asked for once, at any time.
Ask == \E m \in Mails \ asked : Publish(m)

MailSpec == MailInit /\ [][Ask \/ MailNext]_mailVars

\* The worker's loop runs as long as there are messages.
MailFairness == \A w \in Workers : WF_mailVars(WorkerStep(w))

-----------------------------------------------------------------------------
\* The processes whose attempt at m may still send it.
Trying(m) == {w \in Workers : worker[w].mail = m /\ worker[w].pc # "ended"}

\* Messages of m that may still lead to a mail.
Outstanding(m) == SumTo(queue[m], MaxRetries) + Cardinality(Trying(m))

\* A mail reaches the user more than once only by accident, and at most once
\* more for each: late acknowledgement, retries and the fallback from SendGrid
\* to SMTP never duplicate it by themselves.  (Invariant together with the
\* types of the variables.)
DuplicatesAreAccounted ==
    /\ MailTypeOK
    /\ \A m \in Mails : mailed[m] + Outstanding(m) <= 1 + accidents

\* Late acknowledgement and rejection by a lost worker leave no gap: a mail that
\* was asked for has been accepted by a provider, or a message of it waits or is
\* held, or it was given up (all attempts failed, or the hard limit).
NoMailIsLost ==
    \A m \in asked : mailed[m] > 0 \/ Waiting(m) \/ Held(m) \/ m \in dropped

\* The worker gets to the end of every mail it was asked for, however often its
\* processes die: it is sent or given up.
MailEnds == \A m \in Mails : m \in asked ~> (mailed[m] > 0 \/ m \in dropped)

=============================================================================
