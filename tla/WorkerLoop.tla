----------------------------- MODULE WorkerLoop -----------------------------
(***************************************************************************)
(* The HTTP workers.  Each is a process with one event loop, on which the  *)
(* handlers run; their database calls are synchronous, so that a call that *)
(* waits, for a connection of the pool or for a row lock, stops the loop.  *)
(* The session dependency commits in a thread, after the response, but it  *)
(* is the loop that starts the thread.  A handler that waits can therefore *)
(* keep from committing the very request it waits for, of its own worker   *)
(* or, through a second loop, of another: a cycle PostgreSQL does not see. *)
(* gunicorn kills a worker whose loop has stood still for its timeout.     *)
(*                                                                         *)
(* What the statements do is left to the other modules.                    *)
(***************************************************************************)
EXTENDS Naturals, FiniteSets, Sequences

CONSTANTS
    Requests,   \* requests, each of which is sent once
    Workers,    \* worker processes
    Home,       \* bound: the worker that accepts each request
    Rows,       \* rows that handlers write
    NoOne,      \* the holder of a free row lock
    PoolSizes,  \* how many connections a worker's pool may be configured to
    Writes      \* bound: the rows that the handler of each request may write

ASSUME HomeAssumption == Home \in [Requests -> Workers]
ASSUME NoOneAssumption == NoOne \notin Requests
ASSUME PoolAssumption == PoolSizes \subseteq Nat \ {0}
ASSUME WritesAssumption == \A r \in Requests : Writes[r] \subseteq Seq(Rows)

VARIABLES
    req,        \* each request: where it is and what it has yet to write
    lock,       \* the transaction that holds each row
    poolSize    \* connections of a worker's pool, overflow included

vars == <<req, lock, poolSize>>

\* A request is "sent", "ready", in a call that occupies the loop ("pool",
\* "query"), "answered", when it waits for the loop to start its commit,
\* "committing" in a thread, and "over".
Over == [pc |-> "over", todo |-> <<>>]

At(w) == {r \in Requests : Home[r] = w /\ req[r].pc \notin {"sent", "over"}}
Running(w) == {r \in At(w) : req[r].pc \in {"pool", "query"}}
Connected(w) == {r \in At(w) : req[r].pc \in {"query", "answered", "committing"}}

Init ==
    /\ req = [r \in Requests |-> [Over EXCEPT !.pc = "sent"]]
    /\ lock = [x \in Rows |-> NoOne]
    /\ poolSize \in PoolSizes

\* The loop of r's worker is free to run something.
LoopFree(r) == Running(Home[r]) = {}

Goto(r, pc) == req' = [req EXCEPT ![r].pc = pc]

\* The transactions of R end and their connections return to the pool.
End(R) ==
    /\ req' = [r \in Requests |-> IF r \in R THEN Over ELSE req[r]]
    /\ lock' = [x \in Rows |-> IF lock[x] \in R THEN NoOne ELSE lock[x]]
    /\ UNCHANGED poolSize

-----------------------------------------------------------------------------

\* The loop reads the request; what its handler will write depends on it.
Accept(r) ==
    /\ req[r].pc = "sent" /\ LoopFree(r)
    /\ \E rows \in Writes[r] :
        req' = [req EXCEPT ![r] = [pc |-> "ready", todo |-> rows]]
    /\ UNCHANGED <<lock, poolSize>>

\* The loop runs the handler up to its first statement.
Run(r) == req[r].pc = "ready" /\ LoopFree(r) /\ Goto(r, "pool") /\ UNCHANGED <<lock, poolSize>>

GetConnection(r) ==
    /\ req[r].pc = "pool"
    /\ Cardinality(Connected(Home[r])) < poolSize
    /\ Goto(r, "query")
    /\ UNCHANGED <<lock, poolSize>>

\* After pool_timeout the checkout raises: 500, and the loop goes on.
PoolTimeout(r) ==
    /\ req[r].pc = "pool"
    /\ Cardinality(Connected(Home[r])) >= poolSize
    /\ End({r})

\* The handler's next statement takes the lock of its row, or has it.
Statement(r) ==
    /\ req[r].pc = "query" /\ req[r].todo # <<>>
    /\ lock[Head(req[r].todo)] \in {NoOne, r}
    /\ lock' = [lock EXCEPT ![Head(req[r].todo)] = r]
    /\ req' = [req EXCEPT ![r].todo = Tail(@)]
    /\ UNCHANGED poolSize

\* Or it waits for the transaction that has it.
WaitsFor(r, q) == /\ req[r].pc = "query" /\ req[r].todo # <<>> /\ q # r
                  /\ lock[Head(req[r].todo)] = q

\* The statements of a cycle of waiting transactions.
Deadlocked(r) ==
    \E S \in SUBSET Requests :
        r \in S /\ \A a \in S : \E b \in S : WaitsFor(a, b)

\* PostgreSQL raises in one of them, and the session rolls back.
DeadlockDetected(r) == Deadlocked(r) /\ End({r})

\* The handler returns: the loop is free and the response goes out.
Answer(r) ==
    /\ req[r].pc = "query" /\ req[r].todo = <<>>
    /\ Goto(r, "answered")
    /\ UNCHANGED <<lock, poolSize>>

\* The loop reaches the exit of the dependency and starts the thread.
StartCommit(r) ==
    /\ req[r].pc = "answered" /\ LoopFree(r)
    /\ Goto(r, "committing")
    /\ UNCHANGED <<lock, poolSize>>

Commit(r) == req[r].pc = "committing" /\ End({r})

\* The loop waits for what only others can give.
Stuck(w) == \E r \in Running(w) :
    \/ \E q \in Requests : WaitsFor(r, q)
    \/ req[r].pc = "pool" /\ Cardinality(Connected(w)) >= poolSize

\* Mutant: nobody watches the workers, as under uvicorn --workers.
KillNever(w) == FALSE /\ Stuck(w) /\ End(At(w))

\* gunicorn's timeout: a new process takes the worker's place.  What it had
\* answered and not committed is lost.
Kill(w) == Stuck(w) /\ End(At(w))

-----------------------------------------------------------------------------

Serve(r) ==
    \/ Run(r) \/ GetConnection(r) \/ PoolTimeout(r) \/ Statement(r)
    \/ DeadlockDetected(r) \/ Answer(r) \/ StartCommit(r) \/ Commit(r)

Next ==
    \/ \E r \in Requests : Accept(r) \/ Serve(r)
    \/ \E w \in Workers : Kill(w)

Spec == Init /\ [][Next]_vars

\* A loop serves what is runnable, a lock that is free is granted, a thread
\* ends its commit, and a worker that stands still is killed.
FairSpec ==
    /\ Spec
    /\ \A r \in Requests : WF_vars(Accept(r) \/ Serve(r))
    /\ \A w \in Workers : WF_vars(Kill(w))

-----------------------------------------------------------------------------

\* Every request ends although its handler may wait, on a loop that stands
\* still, for a request that this loop, or another one that stands still in
\* turn, would have to commit: some wait ends by a timeout or a kill.
RequestsEnd == \A r \in Requests : <>(req[r].pc = "over")

=============================================================================
