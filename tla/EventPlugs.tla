----------------------------- MODULE EventPlugs -----------------------------
(***************************************************************************)
(* The plugs of one event: the rows of event_plugs and the requests of     *)
(* EventPlugService that add plugs, add many plugs and remove one.         *)
(*                                                                         *)
(* None of these requests commits: the session dependency does, after the  *)
(* response.  There is one row per plug at most: UNIQUE (event_id, plug_id)*)
(* counts soft-deleted rows too, while the queries of the service do not   *)
(* see them.                                                               *)
(*                                                                         *)
(* The event and the plugs are live and owned by the caller. Notes and     *)
(* priorities, and update_event_plug, which writes nothing else, are left  *)
(* out.                                                                    *)
(***************************************************************************)
EXTENDS Naturals, FiniteSets

CONSTANTS
    Requests,   \* sessions: the requests that may be open at one time
    Plugs,      \* the plugs of the user
    NoPlug,     \* no plug at hand
    MaxPlugs,   \* bound: the plugs of one batch
    Faults      \* what the environment may do: a subset of FaultKinds

\* "db": a statement or a commit fails; "crash": the worker process dies.
FaultKinds == {"db", "crash"}

ASSUME NoPlugAssumption == NoPlug \notin Plugs
ASSUME MaxPlugsAssumption == MaxPlugs \in Nat \ {0}
ASSUME FaultsAssumption == Faults \subseteq FaultKinds

VARIABLES
    assoc,      \* committed state of the row of each plug
    req,        \* the local state of each request's handler
    tx,         \* what each session has flushed and not committed
    ackAdded,   \* <<op, p>>: the answer to an op reported p as added
    ackRemoved  \* plugs some response reported as removed

plugVars == <<assoc, req, tx, ackAdded, ackRemoved>>

RowState == {"none", "live", "deleted"}
PCs == {"idle", "check", "insert", "softDelete", "closing"}
Ops == {"none", "add", "batch", "remove"}
Handler == [pc: PCs, op: Ops,
            cur: Plugs \cup {NoPlug}, todo: SUBSET Plugs, good: SUBSET Plugs]
Transaction == [ins: SUBSET Plugs, del: SUBSET Plugs, poisoned: BOOLEAN]

Begin(op, p, plugs, pc) ==
    [pc |-> pc, op |-> op, cur |-> p, todo |-> plugs, good |-> {}]
Idle == Begin("none", NoPlug, {}, "idle")
NoTx == [ins |-> {}, del |-> {}, poisoned |-> FALSE]

TypeOK ==
    /\ assoc \in [Plugs -> RowState]
    /\ req \in [Requests -> Handler]
    /\ tx \in [Requests -> Transaction]
    /\ ackAdded \subseteq Ops \X Plugs
    /\ ackRemoved \subseteq Plugs

Init ==
    /\ assoc = [p \in Plugs |-> "none"]
    /\ req = [r \in Requests |-> Idle]
    /\ tx = [r \in Requests |-> NoTx]
    /\ ackAdded = {}
    /\ ackRemoved = {}

Open == {r \in Requests : req[r].pc # "idle"}
Writes(r) == tx[r].ins \cup tx[r].del

\* find_by reads live rows only: the committed ones and the session's own.
SeesLive(r, p) == p \in tx[r].ins \/ assoc[p] = "live"

Step(r, h, t) ==
    /\ req' = [req EXCEPT ![r] = h]
    /\ tx' = [tx EXCEPT ![r] = t]

EndSession(r) == Step(r, Idle, NoTx) /\ UNCHANGED <<assoc, ackAdded, ackRemoved>>

\* An INSERT waits for the transaction that wrote the same key, an UPDATE for
\* the one that wrote the same row.
WaitsFor(r, q) == /\ r # q
                  /\ req[r].pc \in {"insert", "softDelete"}
                  /\ req[r].cur \in Writes(q)
Waits(r) == \E q \in Requests : WaitsFor(r, q)

\* PostgreSQL aborts a transaction of a cycle of waiting ones.
Deadlocked(r) ==
    \E S \in SUBSET Requests :
        r \in S /\ \A a \in S : \E b \in S : WaitsFor(a, b)

-----------------------------------------------------------------------------
(* Adding: add_plug_to_event and add_multiple_plugs_to_event. *)

AddPlug(r) ==
    /\ r \notin Open
    /\ \E p \in Plugs : Step(r, Begin("add", NoPlug, {p}, "check"), NoTx)
    /\ UNCHANGED <<assoc, ackAdded, ackRemoved>>

\* The schema refuses a batch that names a plug twice.
AddMultiplePlugs(r) ==
    /\ r \notin Open
    /\ \E plugs \in SUBSET Plugs \ {{}} :
        /\ Cardinality(plugs) <= MaxPlugs
        /\ Step(r, Begin("batch", NoPlug, plugs, "check"), NoTx)
    /\ UNCHANGED <<assoc, ackAdded, ackRemoved>>

\* The next plug of the request: a live association refuses it (400, or an
\* entry of "failed"), and so does a session that a failed flush has poisoned.
CheckAssociation(r) ==
    /\ req[r].pc = "check"
    /\ \E p \in req[r].todo :
        LET h == [req[r] EXCEPT !.todo = @ \ {p}] IN
        IF ~tx[r].poisoned /\ ~SeesLive(r, p)
        THEN Step(r, [h EXCEPT !.cur = p, !.pc = "insert"], tx[r])
        ELSE Step(r, IF h.op = "add" THEN Idle ELSE h,
                     IF h.op = "add" THEN NoTx ELSE tx[r])
    /\ UNCHANGED <<assoc, ackAdded, ackRemoved>>

\* Mutant: without the constraint the insert goes through.
InsertWithoutConstraint(r) ==
    /\ req[r].pc = "insert"
    /\ ~Waits(r)
    /\ Step(r, [req[r] EXCEPT !.pc = "check", !.good = @ \cup {req[r].cur}],
               [tx[r] EXCEPT !.ins = @ \cup {req[r].cur}])
    /\ UNCHANGED <<assoc, ackAdded, ackRemoved>>

\* Mutant: the insert revives a soft-deleted row.
InsertRevives(r) ==
    /\ req[r].pc = "insert"
    /\ ~Waits(r)
    /\ assoc[req[r].cur] # "live"
    /\ Step(r, [req[r] EXCEPT !.pc = "check", !.good = @ \cup {req[r].cur}],
               [tx[r] EXCEPT !.ins = @ \cup {req[r].cur}])
    /\ UNCHANGED <<assoc, ackAdded, ackRemoved>>

\* BaseRepository.create: the unique constraint admits a plug without a row.
InsertAssociation(r) ==
    /\ req[r].pc = "insert"
    /\ ~Waits(r)
    /\ assoc[req[r].cur] = "none"
    /\ Step(r, [req[r] EXCEPT !.pc = "check", !.good = @ \cup {req[r].cur}],
               [tx[r] EXCEPT !.ins = @ \cup {req[r].cur}])
    /\ UNCHANGED <<assoc, ackAdded, ackRemoved>>

\* Mutant: the batch tries a plug that failed again, in a session of its own.
InsertFailsRetries(r) ==
    /\ req[r].pc = "insert"
    /\ \/ ~Waits(r) /\ assoc[req[r].cur] # "none"
       \/ "db" \in Faults
       \/ Deadlocked(r)
    /\ Step(r, [req[r] EXCEPT !.pc = "check", !.todo = @ \cup {req[r].cur}], tx[r])
    /\ UNCHANGED <<assoc, ackAdded, ackRemoved>>

\* A row that is there, soft-deleted ones included, a failing statement, or a
\* deadlock. add_plug_to_event answers 422; the batch notes the failure and
\* goes on in a session whose transaction is rolled back and unusable.
InsertFails(r) ==
    /\ req[r].pc = "insert"
    /\ \/ ~Waits(r) /\ assoc[req[r].cur] # "none"
       \/ "db" \in Faults
       \/ Deadlocked(r)
    /\ IF req[r].op = "add" THEN EndSession(r)
       ELSE /\ Step(r, [req[r] EXCEPT !.pc = "check"],
                       [NoTx EXCEPT !.poisoned = TRUE])
            /\ UNCHANGED <<assoc, ackAdded, ackRemoved>>

\* 201, with the associations that were created, before anything is committed.
AnswerAdded(r) ==
    /\ req[r].pc = "check"
    /\ req[r].todo = {}
    /\ ackAdded' = ackAdded \cup {<<req[r].op, p>> : p \in req[r].good}
    /\ Step(r, [req[r] EXCEPT !.pc = "closing"], tx[r])
    /\ UNCHANGED <<assoc, ackRemoved>>

-----------------------------------------------------------------------------
(* Removing: remove_plug_from_event. *)

RemovePlug(r) ==
    /\ r \notin Open
    /\ \E p \in Plugs :
        /\ assoc[p] = "live"
        /\ Step(r, Begin("remove", p, {}, "softDelete"), NoTx)
    /\ UNCHANGED <<assoc, ackAdded, ackRemoved>>

\* Mutant: the attributes of an object are set that is not in the session.
SoftDeleteDetached(r) ==
    /\ req[r].pc = "softDelete"
    /\ ackRemoved' = ackRemoved \cup {req[r].cur}
    /\ Step(r, [req[r] EXCEPT !.pc = "closing"], tx[r])
    /\ UNCHANGED <<assoc, ackAdded>>

SoftDelete(r) ==
    /\ req[r].pc = "softDelete"
    /\ ~Waits(r)
    /\ ackRemoved' = ackRemoved \cup {req[r].cur}
    /\ Step(r, [req[r] EXCEPT !.pc = "closing"],
               [tx[r] EXCEPT !.del = @ \cup {req[r].cur}])
    /\ UNCHANGED <<assoc, ackAdded>>

\* A read that fails outside the batch loop, or the UPDATE, ends the request.
StatementFails(r) ==
    /\ "db" \in Faults
    /\ \/ req[r].pc = "softDelete"
       \/ req[r].pc = "check" /\ req[r].op = "add"
    /\ EndSession(r)

-----------------------------------------------------------------------------

\* Mutant: the session is closed without a commit.
CloseSessionOnly(r) == req[r].pc = "closing" /\ EndSession(r)

\* get_database_session, after the response.
CloseSession(r) ==
    /\ req[r].pc = "closing"
    /\ ~tx[r].poisoned
    /\ assoc' = [p \in Plugs |->
            IF p \in tx[r].del THEN "deleted"
            ELSE IF p \in tx[r].ins THEN "live" ELSE assoc[p]]
    /\ Step(r, Idle, NoTx)
    /\ UNCHANGED <<ackAdded, ackRemoved>>

\* The commit of a poisoned session always raises; the response is out.
CloseSessionFails(r) ==
    /\ req[r].pc = "closing"
    /\ "db" \in Faults \/ tx[r].poisoned
    /\ EndSession(r)

Crash(r) ==
    /\ "crash" \in Faults
    /\ r \in Open
    /\ EndSession(r)

\* The steps of an open request.
Serve(r) ==
    \/ CheckAssociation(r) \/ InsertAssociation(r) \/ InsertFails(r)
    \/ AnswerAdded(r) \/ SoftDelete(r) \/ StatementFails(r)
    \/ CloseSession(r) \/ CloseSessionFails(r)

Receive(r) == AddPlug(r) \/ AddMultiplePlugs(r) \/ RemovePlug(r)

Next == \E r \in Requests : Receive(r) \/ Serve(r) \/ Crash(r)

Spec == Init /\ [][Next]_plugVars

\* A request that was read is served to its end, and an insert that waits does
\* not lose the race for the key each time a transaction gives it up.
FairSpec ==
    Spec /\ \A r \in Requests : WF_plugVars(Serve(r))
                                /\ SF_plugVars(InsertAssociation(r))

-----------------------------------------------------------------------------

\* The unique constraint across transactions: of the requests that add a plug
\* at the same time at most one has inserted it, and never beside a row that
\* is committed, although each of them has seen no live association.
OneRowPerPlug ==
    /\ \A r, q \in Requests : r # q => Writes(r) \cap Writes(q) = {}
    /\ \A r \in Requests : \A p \in tx[r].ins : assoc[p] = "none"

\* The rows of the plugs of an event, as the rest of the system sees them: a
\* commit puts new plugs in together, or takes one out that was in, and no
\* other step is seen.  An add that was in flight when a plug was removed does
\* not bring it back.  (Neither does a later one: the constraint counts the
\* deleted row.)
Members == INSTANCE PlugMembership WITH member <- assoc
ImplementsMembership == Members!MembersSpec

\* p has a row, or an open transaction is about to commit one.
Kept(p) == assoc[p] # "none" \/ \E r \in Requests : p \in tx[r].ins

\* With a database that does not fail, a plug that add_plug_to_event reported
\* as added is kept, although the answer precedes the commit: a deadlock
\* aborts other transactions only.
SingleAddIsKept == \A a \in ackAdded : a[1] = "add" => Kept(a[2])

\* Every request is answered and closed: requests that insert the same plugs
\* in different orders do not wait for each other for ever.
RequestsEnd == \A r \in Requests : r \in Open ~> r \notin Open

\* A removal that was reported is committed in the end.
RemovalArrives == \A p \in Plugs : p \in ackRemoved ~> assoc[p] = "deleted"

=============================================================================
