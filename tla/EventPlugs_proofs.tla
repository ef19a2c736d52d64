-------------------------- MODULE EventPlugs_proofs --------------------------
(***************************************************************************)
(* The unique constraint across transactions, that a removed plug stays    *)
(* removed, and that a plug reported as added is kept, for every number of *)
(* requests and plugs and every size of batch.  Only the last one assumes  *)
(* that nothing fails.                                                     *)
(***************************************************************************)
EXTENDS EventPlugs, TLAPS

\* A handler about to write has a plug at hand.
PlugAtHand ==
    \A r \in Requests : req[r].pc \in {"insert", "softDelete"} => req[r].cur \in Plugs

IInv == TypeOK /\ PlugAtHand /\ OneRowPerPlug

-----------------------------------------------------------------------------
(* The records a handler and its session are described by. *)

\* The fields of a handler have their types.
LEMMA HandlerFields ==
    ASSUME NEW h \in Handler
    PROVE  /\ h.pc \in PCs /\ h.op \in Ops /\ h.cur \in Plugs \cup {NoPlug}
           /\ h.todo \in SUBSET Plugs /\ h.good \in SUBSET Plugs
BY DEF Handler

\* The fields of a session have their types.
LEMMA TransactionFields ==
    ASSUME NEW t \in Transaction
    PROVE  t.ins \in SUBSET Plugs /\ t.del \in SUBSET Plugs /\ t.poisoned \in BOOLEAN
BY DEF Transaction

\* Idle, an empty session and a poisoned one are well typed and hold nothing.
LEMMA IdleType ==
    /\ Idle \in Handler /\ Idle.pc = "idle"
    /\ NoTx \in Transaction /\ NoTx.ins = {} /\ NoTx.del = {}
    /\ [NoTx EXCEPT !.poisoned = TRUE] \in Transaction
    /\ [NoTx EXCEPT !.poisoned = TRUE].ins = {}
    /\ [NoTx EXCEPT !.poisoned = TRUE].del = {}
BY DEF Idle, Begin, NoTx, Handler, Transaction, PCs, Ops

\* A handler that begins is well typed.
LEMMA BeginFields ==
    ASSUME NEW op \in {"add", "batch", "remove"}, NEW p \in Plugs \cup {NoPlug},
           NEW plugs \in SUBSET Plugs, NEW pc \in PCs
    PROVE  LET h == Begin(op, p, plugs, pc) IN
           h \in Handler /\ h.pc = pc /\ h.cur = p
BY DEF Begin, Handler, Ops

\* A handler whose place changes is well typed.
LEMMA PcEdit ==
    ASSUME NEW h \in Handler, NEW pc \in PCs
    PROVE  [h EXCEPT !.pc = pc] \in Handler /\ [h EXCEPT !.pc = pc].pc = pc
BY DEF Handler

\* The places of a handler.
LEMMA PcNames ==
    /\ "idle" \in PCs /\ "check" \in PCs /\ "insert" \in PCs
    /\ "softDelete" \in PCs /\ "closing" \in PCs
BY DEF PCs

-----------------------------------------------------------------------------
(* The shapes of a step: a handler moves, or its session ends, or writes. *)

\* A step of one request leaves the handlers and sessions of the others.
LEMMA StepFacts ==
    ASSUME TypeOK, NEW r \in Requests, NEW h \in Handler, NEW t \in Transaction,
           Step(r, h, t)
    PROVE  /\ req' \in [Requests -> Handler] /\ tx' \in [Requests -> Transaction]
           /\ req'[r] = h /\ tx'[r] = t
           /\ \A q \in Requests : q # r => req'[q] = req[q] /\ tx'[q] = tx[q]
BY DEF TypeOK, Step

\* A step that writes nothing new: the session keeps its writes or drops them.
LEMMA QuietStep ==
    ASSUME IInv, NEW r \in Requests, NEW h \in Handler, NEW t \in Transaction,
           Step(r, h, t), UNCHANGED assoc,
           t.ins \in {tx[r].ins, {}}, t.del \in {tx[r].del, {}},
           h.pc \in {"insert", "softDelete"} => h.cur \in Plugs,
           ackAdded' \subseteq Ops \X Plugs, ackRemoved' \subseteq Plugs
    PROVE  IInv'
<1>1. TypeOK'
  BY StepFacts DEF IInv, TypeOK
<1>2. PlugAtHand'
  BY StepFacts DEF IInv, PlugAtHand
<1>3. \A q \in Requests : tx'[q].ins \subseteq tx[q].ins /\ tx'[q].del \subseteq tx[q].del
  BY StepFacts DEF IInv
<1>4. OneRowPerPlug'
  BY <1>3 DEF IInv, OneRowPerPlug, Writes
<1> QED
  BY <1>1, <1>2, <1>4 DEF IInv

\* A session that ends drops its writes.
LEMMA EndSessionInv ==
    ASSUME IInv, NEW r \in Requests, EndSession(r) PROVE IInv'
<1>1. Step(r, Idle, NoTx) /\ UNCHANGED <<assoc, ackAdded, ackRemoved>>
  BY DEF EndSession
<1> QED
  BY <1>1, QuietStep, IdleType DEF IInv, TypeOK

\* A write of a row that no other open transaction has written; an insert
\* finds no committed row.
LEMMA WriteStep ==
    ASSUME IInv, NEW r \in Requests, NEW p \in Plugs,
           \A q \in Requests : q # r => p \notin Writes(q),
           NEW h \in Handler, NEW t \in Transaction, Step(r, h, t), UNCHANGED assoc,
           t.ins \cup t.del = Writes(r) \cup {p},
           \A i \in t.ins : i \in tx[r].ins \/ assoc[i] = "none",
           h.pc \notin {"insert", "softDelete"},
           ackAdded' \subseteq Ops \X Plugs, ackRemoved' \subseteq Plugs
    PROVE  IInv'
<1>1. TypeOK'
  BY StepFacts DEF IInv, TypeOK
<1>2. PlugAtHand'
  BY StepFacts DEF IInv, PlugAtHand
<1>3. /\ Writes(r)' = Writes(r) \cup {p}
      /\ \A q \in Requests : q # r => Writes(q)' = Writes(q)
  BY StepFacts DEF IInv, Writes
<1>4. \A a, b \in Requests : a # b => Writes(a)' \cap Writes(b)' = {}
  BY <1>3 DEF IInv, OneRowPerPlug
<1>5. \A q \in Requests : \A i \in tx'[q].ins : assoc'[i] = "none"
  BY StepFacts DEF IInv, OneRowPerPlug
<1> QED
  BY <1>1, <1>2, <1>4, <1>5 DEF IInv, OneRowPerPlug

\* A commit changes no row another transaction has inserted.
LEMMA CommitStep ==
    ASSUME IInv, NEW r \in Requests, CloseSession(r)
    PROVE  IInv'
<1>0. Step(r, Idle, NoTx) /\ ackAdded' = ackAdded /\ ackRemoved' = ackRemoved
  BY DEF CloseSession
<1>1. assoc' \in [Plugs -> RowState]
  BY DEF CloseSession, IInv, TypeOK, RowState
<1>2. TypeOK' /\ PlugAtHand'
  BY <1>0, <1>1, StepFacts, IdleType DEF IInv, TypeOK, PlugAtHand
<1>3. \A q \in Requests : tx'[q].ins \subseteq tx[q].ins /\ tx'[q].del \subseteq tx[q].del
  BY <1>0, StepFacts, IdleType DEF IInv
<1>4. \A p \in Plugs \ Writes(r) : assoc'[p] = assoc[p]
  BY DEF CloseSession, Writes
<1>5. ASSUME NEW q \in Requests, NEW p \in tx'[q].ins PROVE assoc'[p] = "none"
  <2>1. q # r /\ p \in tx[q].ins
    BY <1>0, <1>3, <1>5, StepFacts, IdleType DEF IInv
  <2>2. p \in Plugs /\ p \notin Writes(r) /\ assoc[p] = "none"
    BY <2>1, TransactionFields DEF IInv, TypeOK, OneRowPerPlug, Writes
  <2> QED
    BY <1>4, <2>2
<1>6. \A a, b \in Requests : a # b => Writes(a)' \cap Writes(b)' = {}
  BY <1>3 DEF IInv, OneRowPerPlug, Writes
<1> QED
  BY <1>2, <1>5, <1>6 DEF IInv, OneRowPerPlug

-----------------------------------------------------------------------------
(* The steps. *)

\* The invariant holds in the beginning.
LEMMA InitInv == Init => IInv
BY IdleType DEF Init, IInv, TypeOK, PlugAtHand, OneRowPerPlug, Writes, RowState

\* A new request has written nothing.
LEMMA ReceiveInv ==
    ASSUME IInv, NEW r \in Requests, Receive(r) PROVE IInv'
<1>0. r \notin Open => tx[r].ins \in SUBSET Plugs /\ tx[r].del \in SUBSET Plugs
  BY TransactionFields DEF IInv, TypeOK
<1>1. PICK op \in {"add", "batch", "remove"}, p \in Plugs \cup {NoPlug},
           plugs \in SUBSET Plugs, pc \in {"check", "softDelete"} :
        /\ Step(r, Begin(op, p, plugs, pc), NoTx)
        /\ pc = "softDelete" => p \in Plugs
        /\ UNCHANGED <<assoc, ackAdded, ackRemoved>>
  <2>1. CASE AddPlug(r)
    BY <2>1 DEF AddPlug
  <2>2. CASE AddMultiplePlugs(r)
    BY <2>2 DEF AddMultiplePlugs
  <2>3. CASE RemovePlug(r)
    BY <2>3 DEF RemovePlug
  <2> QED
    BY <2>1, <2>2, <2>3 DEF Receive
<1>2. Begin(op, p, plugs, pc) \in Handler /\ Begin(op, p, plugs, pc).pc = pc
      /\ Begin(op, p, plugs, pc).cur = p
  BY BeginFields, PcNames
<1> QED
  BY <1>1, <1>2, IdleType, QuietStep DEF IInv, TypeOK

\* The plug at hand is one the request has named.
LEMMA CheckAssociationInv ==
    ASSUME IInv, NEW r \in Requests, CheckAssociation(r) PROVE IInv'
<1>1. req[r] \in Handler /\ tx[r] \in Transaction /\ req[r].pc = "check"
  BY DEF IInv, TypeOK, CheckAssociation
<1>2. PICK p \in req[r].todo :
        LET h == [req[r] EXCEPT !.todo = req[r].todo \ {p}] IN
        IF ~tx[r].poisoned /\ ~SeesLive(r, p)
        THEN Step(r, [h EXCEPT !.cur = p, !.pc = "insert"], tx[r])
        ELSE Step(r, IF h.op = "add" THEN Idle ELSE h,
                     IF h.op = "add" THEN NoTx ELSE tx[r])
  BY DEF CheckAssociation
<1>3. p \in Plugs /\ req[r].todo \ {p} \in SUBSET Plugs
  BY <1>1, HandlerFields
<1> DEFINE h == [req[r] EXCEPT !.todo = req[r].todo \ {p}]
           k == [h EXCEPT !.cur = p, !.pc = "insert"]
<1>4. h \in Handler /\ h.pc = "check" /\ k \in Handler /\ k.cur = p
  BY <1>1, <1>3, PcNames DEF Handler
<1>5. PICK g \in {h, k, Idle}, t \in {tx[r], NoTx} : Step(r, g, t)
  BY <1>2
<1>6. UNCHANGED <<assoc, ackAdded, ackRemoved>>
  BY DEF CheckAssociation
<1>7. t \in Transaction /\ t.ins \in {tx[r].ins, {}} /\ t.del \in {tx[r].del, {}}
  BY <1>1, IdleType
<1> HIDE DEF h, k
<1>8. g \in Handler /\ (g.pc \in {"insert", "softDelete"} => g.cur \in Plugs)
  BY <1>3, <1>4, IdleType
<1> QED
  BY <1>5, <1>6, <1>7, <1>8, QuietStep DEF IInv, TypeOK

\* An insert waits until no other session has written the row.
LEMMA InsertAssociationInv ==
    ASSUME IInv, NEW r \in Requests, InsertAssociation(r) PROVE IInv'
<1>1. /\ req[r] \in Handler /\ tx[r] \in Transaction
      /\ req[r].cur \in Plugs /\ assoc[req[r].cur] = "none"
      /\ req[r].pc = "insert"
  BY DEF IInv, TypeOK, PlugAtHand, InsertAssociation
<1> DEFINE p == req[r].cur
           h == [req[r] EXCEPT !.pc = "check", !.good = req[r].good \cup {p}]
           t == [tx[r] EXCEPT !.ins = tx[r].ins \cup {p}]
<1>2. Step(r, h, t) /\ UNCHANGED <<assoc, ackAdded, ackRemoved>>
  BY DEF InsertAssociation
<1>3. \A q \in Requests : q # r => p \notin Writes(q)
  BY <1>1 DEF InsertAssociation, Waits, WaitsFor
<1>4. req[r].good \cup {p} \in SUBSET Plugs
  BY <1>1, HandlerFields
<1>5. h \in Handler /\ h.pc = "check"
  BY <1>1, <1>4, PcNames DEF Handler
<1>6. t \in Transaction /\ t.ins = tx[r].ins \cup {p} /\ t.del = tx[r].del
  BY <1>1 DEF Transaction
<1>7. t.ins \cup t.del = Writes(r) \cup {p}
  BY <1>6 DEF Writes
<1> HIDE DEF h, t
<1> QED
  BY <1>1, <1>2, <1>3, <1>5, <1>6, <1>7, WriteStep DEF IInv, TypeOK

\* An update waits until no other session has written the row.
LEMMA SoftDeleteInv ==
    ASSUME IInv, NEW r \in Requests, SoftDelete(r) PROVE IInv'
<1>1. /\ req[r] \in Handler /\ tx[r] \in Transaction
      /\ req[r].cur \in Plugs /\ req[r].pc = "softDelete"
  BY DEF IInv, TypeOK, PlugAtHand, SoftDelete
<1> DEFINE p == req[r].cur
           h == [req[r] EXCEPT !.pc = "closing"]
           t == [tx[r] EXCEPT !.del = tx[r].del \cup {p}]
<1>2. /\ Step(r, h, t) /\ UNCHANGED assoc
      /\ ackAdded' \subseteq Ops \X Plugs /\ ackRemoved' \subseteq Plugs
  BY <1>1 DEF SoftDelete, IInv, TypeOK
<1>3. \A q \in Requests : q # r => p \notin Writes(q)
  BY <1>1 DEF SoftDelete, Waits, WaitsFor
<1>4. h \in Handler /\ h.pc = "closing"
  BY <1>1, PcEdit, PcNames
<1>5. t \in Transaction /\ t.ins = tx[r].ins /\ t.del = tx[r].del \cup {p}
  BY <1>1 DEF Transaction
<1>6. t.ins \cup t.del = Writes(r) \cup {p}
  BY <1>5 DEF Writes
<1> HIDE DEF h, t
<1> QED
  BY <1>1, <1>2, <1>3, <1>4, <1>5, <1>6, WriteStep

\* A failed insert drops what the session has written.
LEMMA InsertFailsInv ==
    ASSUME IInv, NEW r \in Requests, InsertFails(r) PROVE IInv'
<1>1. CASE EndSession(r)
  BY <1>1, EndSessionInv
<1>2. CASE ~EndSession(r)
  <2>1. /\ Step(r, [req[r] EXCEPT !.pc = "check"], [NoTx EXCEPT !.poisoned = TRUE])
        /\ UNCHANGED <<assoc, ackAdded, ackRemoved>>
    BY <1>2 DEF InsertFails
  <2>2. [req[r] EXCEPT !.pc = "check"] \in Handler
        /\ [req[r] EXCEPT !.pc = "check"].pc = "check"
    BY PcEdit, PcNames DEF IInv, TypeOK
  <2> QED
    BY <2>1, <2>2, IdleType, QuietStep DEF IInv, TypeOK
<1> QED
  BY <1>1, <1>2

\* An answer writes nothing.
LEMMA AnswerAddedInv ==
    ASSUME IInv, NEW r \in Requests, AnswerAdded(r) PROVE IInv'
<1>1. req[r] \in Handler /\ tx[r] \in Transaction /\ req[r].good \in SUBSET Plugs
      /\ req[r].op \in Ops
  BY HandlerFields DEF IInv, TypeOK
<1>2. /\ Step(r, [req[r] EXCEPT !.pc = "closing"], tx[r])
      /\ UNCHANGED <<assoc, ackRemoved>> /\ ackAdded' \subseteq Ops \X Plugs
  BY <1>1 DEF AnswerAdded, IInv, TypeOK
<1>3. [req[r] EXCEPT !.pc = "closing"] \in Handler
      /\ [req[r] EXCEPT !.pc = "closing"].pc = "closing"
  BY <1>1, PcEdit, PcNames
<1> QED
  BY <1>1, <1>2, <1>3, QuietStep DEF IInv, TypeOK

\* Every step keeps the invariant.
LEMMA NextInv == IInv /\ [Next]_plugVars => IInv'
<1> SUFFICES ASSUME IInv, [Next]_plugVars PROVE IInv'
  OBVIOUS
<1>1. ASSUME NEW r \in Requests, Serve(r) PROVE IInv'
  <2>1. CASE StatementFails(r) \/ CloseSessionFails(r)
    BY <2>1, EndSessionInv DEF StatementFails, CloseSessionFails
  <2> QED
    BY <1>1, <2>1, CheckAssociationInv, InsertAssociationInv, InsertFailsInv,
       AnswerAddedInv, SoftDeleteInv, CommitStep DEF Serve
<1>2. ASSUME NEW r \in Requests, Crash(r) PROVE IInv'
  BY <1>2, EndSessionInv DEF Crash
<1>3. CASE UNCHANGED plugVars
  BY <1>3 DEF plugVars, IInv, TypeOK, PlugAtHand, OneRowPerPlug, Writes
<1> QED
  BY <1>1, <1>2, <1>3, ReceiveInv DEF Next

\* In every reachable state, whatever fails and however requests interleave:
\* the variables have their types, a handler about to write has a plug at hand,
\* and OneRowPerPlug.
THEOREM Invariance == Spec => []IInv
BY InitInv, NextInv, PTL DEF Spec

-----------------------------------------------------------------------------
(* The properties. *)

\* Every variable keeps its type.
THEOREM TypeCorrect == Spec => []TypeOK
<1>1. IInv => TypeOK
  BY DEF IInv
<1> QED
  BY <1>1, Invariance, PTL

\* However the checks and inserts of add requests interleave, a plug is in at
\* most one open transaction, and never inserted beside a committed row.
THEOREM RowsAreUnique == Spec => []OneRowPerPlug
<1>1. IInv => OneRowPerPlug
  BY DEF IInv
<1> QED
  BY <1>1, Invariance, PTL

\* A commit is the only step that changes a row.
LEMMA OnlyCommitsWrite ==
    ASSUME [Next]_plugVars
    PROVE  UNCHANGED assoc \/ \E r \in Requests : CloseSession(r)
<1>1. ASSUME NEW r \in Requests, Receive(r) \/ Serve(r) \/ Crash(r), ~CloseSession(r)
      PROVE  UNCHANGED assoc
  <2>1. CASE Receive(r)
    BY <2>1 DEF Receive, AddPlug, AddMultiplePlugs, RemovePlug
  <2>2. CASE Serve(r)
    BY <1>1, <2>2 DEF Serve, CheckAssociation, InsertAssociation, InsertFails,
       AnswerAdded, SoftDelete, StatementFails, CloseSessionFails, EndSession
  <2>3. CASE Crash(r)
    BY <2>3 DEF Crash, EndSession
  <2> QED
    BY <1>1, <2>1, <2>2, <2>3
<1> QED
  BY <1>1 DEF Next, plugVars

-----------------------------------------------------------------------------
(* The refinement.  A removal has a single row to write, which was committed *)
(* when it was received, and nothing else.                                   *)

RemovalInv ==
    \A r \in Requests :
        /\ req[r].pc = "softDelete" => tx[r] = NoTx /\ assoc[req[r].cur] # "none"
        /\ tx[r].del # {} =>
            /\ req[r].pc = "closing"
            /\ tx[r].ins = {}
            /\ \E p \in Plugs : tx[r].del = {p} /\ assoc[p] # "none"

\* Rows never go away.
LEMMA RowsStay ==
    ASSUME IInv, [Next]_plugVars, NEW p \in Plugs, assoc[p] # "none"
    PROVE  assoc'[p] # "none"
<1>1. CASE UNCHANGED assoc
  BY <1>1
<1>2. ASSUME NEW r \in Requests, CloseSession(r) PROVE assoc'[p] # "none"
  BY <1>2 DEF CloseSession
<1> QED
  BY <1>1, <1>2, OnlyCommitsWrite

\* A step of a handler that is not a removal's write keeps RemovalInv.
LEMMA RemovalStep ==
    ASSUME IInv, RemovalInv, [Next]_plugVars,
           NEW r \in Requests, NEW h \in Handler, NEW t \in Transaction, Step(r, h, t),
           h.pc = "softDelete" => t = NoTx /\ h.cur \in Plugs /\ assoc[h.cur] # "none",
           t.del = {}
    PROVE  RemovalInv'
<1> SUFFICES ASSUME NEW q \in Requests
             PROVE  /\ req'[q].pc = "softDelete" =>
                         tx'[q] = NoTx /\ assoc'[req'[q].cur] # "none"
                    /\ tx'[q].del # {} =>
                         /\ req'[q].pc = "closing"
                         /\ tx'[q].ins = {}
                         /\ \E p \in Plugs : tx'[q].del = {p} /\ assoc'[p] # "none"
  BY DEF RemovalInv
<1>1. CASE q = r
  BY <1>1, StepFacts, RowsStay DEF IInv
<1>2. CASE q # r
  <2>1. req'[q] = req[q] /\ tx'[q] = tx[q]
    BY <1>2, StepFacts DEF IInv
  <2>2. req[q].pc = "softDelete" => req[q].cur \in Plugs
    BY DEF IInv, PlugAtHand
  <2> QED
    BY <2>1, <2>2, RowsStay DEF RemovalInv
<1> QED
  BY <1>1, <1>2

\* A removal deletes the one row it has looked at.
LEMMA RemovalSoftDelete ==
    ASSUME IInv, RemovalInv, [Next]_plugVars, NEW r \in Requests, SoftDelete(r)
    PROVE  RemovalInv'
<1>1. /\ req[r] \in Handler /\ tx[r] = NoTx /\ req[r].cur \in Plugs
      /\ assoc[req[r].cur] # "none" /\ assoc' = assoc
  BY DEF SoftDelete, RemovalInv, IInv, TypeOK, PlugAtHand
<1> DEFINE p == req[r].cur
           h == [req[r] EXCEPT !.pc = "closing"]
           t == [tx[r] EXCEPT !.del = tx[r].del \cup {p}]
<1>2. Step(r, h, t)
  BY DEF SoftDelete
<1>3. h \in Handler /\ h.pc = "closing"
  BY <1>1, PcEdit, PcNames
<1>4. t \in Transaction /\ t.ins = {} /\ t.del = {p}
  <2>1. tx[r] \in Transaction /\ tx[r].ins = {} /\ tx[r].del = {}
    BY <1>1, IdleType
  <2>2. t \in Transaction /\ t.ins = tx[r].ins /\ t.del = tx[r].del \cup {p}
    BY <1>1, <2>1 DEF Transaction
  <2> QED
    BY <2>1, <2>2
<1> HIDE DEF h, t
<1>5. /\ req'[r] = h /\ tx'[r] = t
      /\ \A q \in Requests : q # r => req'[q] = req[q] /\ tx'[q] = tx[q]
  BY <1>2, <1>3, <1>4, StepFacts DEF IInv
<1> QED
  BY <1>1, <1>3, <1>4, <1>5 DEF RemovalInv

\* A session that ends leaves nothing to remove.
LEMMA RemovalEnd ==
    ASSUME IInv, RemovalInv, [Next]_plugVars, NEW r \in Requests, Step(r, Idle, NoTx)
    PROVE  RemovalInv'
BY IdleType, RemovalStep

\* The handlers of additions never have a row to remove.
LEMMA NothingToRemove ==
    ASSUME RemovalInv, NEW r \in Requests, req[r].pc # "closing"
    PROVE  tx[r].del = {}
BY DEF RemovalInv

\* Every step keeps what is known of removals.
LEMMA RemovalNext ==
    ASSUME IInv, RemovalInv, [Next]_plugVars PROVE RemovalInv'
<1>1. ASSUME NEW r \in Requests, Receive(r) PROVE RemovalInv'
  <2>1. PICK op \in {"add", "batch", "remove"}, p \in Plugs \cup {NoPlug},
             plugs \in SUBSET Plugs, pc \in {"check", "softDelete"} :
          /\ Step(r, Begin(op, p, plugs, pc), NoTx)
          /\ pc = "softDelete" => p \in Plugs /\ assoc[p] = "live"
    <3>1. CASE AddPlug(r)
      BY <3>1 DEF AddPlug
    <3>2. CASE AddMultiplePlugs(r)
      BY <3>2 DEF AddMultiplePlugs
    <3>3. CASE RemovePlug(r)
      BY <3>3 DEF RemovePlug
    <3> QED
      BY <1>1, <3>1, <3>2, <3>3 DEF Receive
  <2>2. pc \in PCs
    BY PcNames
  <2>3. Begin(op, p, plugs, pc) \in Handler /\ Begin(op, p, plugs, pc).pc = pc
        /\ Begin(op, p, plugs, pc).cur = p
    BY <2>2, BeginFields
  <2> QED
    BY <2>1, <2>3, IdleType, RemovalStep
<1>2. ASSUME NEW r \in Requests, CheckAssociation(r) PROVE RemovalInv'
  <2>1. /\ req[r] \in Handler /\ tx[r] \in Transaction /\ req[r].pc = "check"
        /\ tx[r].del = {}
    BY <1>2, NothingToRemove DEF IInv, TypeOK, CheckAssociation
  <2>2. PICK p \in req[r].todo :
          LET g == [req[r] EXCEPT !.todo = req[r].todo \ {p}] IN
          IF ~tx[r].poisoned /\ ~SeesLive(r, p)
          THEN Step(r, [g EXCEPT !.cur = p, !.pc = "insert"], tx[r])
          ELSE Step(r, IF g.op = "add" THEN Idle ELSE g,
                       IF g.op = "add" THEN NoTx ELSE tx[r])
    BY <1>2 DEF CheckAssociation
  <2>3. p \in Plugs /\ req[r].todo \ {p} \in SUBSET Plugs
    BY <2>1, HandlerFields
  <2> DEFINE h == [req[r] EXCEPT !.todo = req[r].todo \ {p}]
             k == [h EXCEPT !.cur = p, !.pc = "insert"]
  <2>4. h \in Handler /\ h.pc = "check" /\ k \in Handler /\ k.pc = "insert"
    BY <2>1, <2>3, PcNames DEF Handler
  <2>5. PICK g \in {h, k, Idle}, t \in {tx[r], NoTx} : Step(r, g, t)
    BY <2>2
  <2> HIDE DEF h, k
  <2>6. g \in Handler /\ g.pc # "softDelete" /\ t \in Transaction /\ t.del = {}
    BY <2>1, <2>4, IdleType
  <2> QED
    BY <2>5, <2>6, RemovalStep
<1>3. ASSUME NEW r \in Requests, InsertAssociation(r) PROVE RemovalInv'
  <2>1. /\ req[r] \in Handler /\ tx[r] \in Transaction /\ req[r].cur \in Plugs
        /\ tx[r].del = {}
    BY <1>3, NothingToRemove DEF IInv, TypeOK, PlugAtHand, InsertAssociation
  <2> DEFINE h == [req[r] EXCEPT !.pc = "check", !.good = req[r].good \cup {req[r].cur}]
             t == [tx[r] EXCEPT !.ins = tx[r].ins \cup {req[r].cur}]
  <2>2. Step(r, h, t)
    BY <1>3 DEF InsertAssociation
  <2>3. req[r].good \cup {req[r].cur} \in SUBSET Plugs
    BY <2>1, HandlerFields
  <2>4. h \in Handler /\ h.pc = "check"
    BY <2>1, <2>3, PcNames DEF Handler
  <2>5. t \in Transaction /\ t.del = {}
    BY <2>1 DEF Transaction
  <2> HIDE DEF h, t
  <2> QED
    BY <2>2, <2>4, <2>5, RemovalStep
<1>4. ASSUME NEW r \in Requests, InsertFails(r) PROVE RemovalInv'
  <2>1. CASE EndSession(r)
    BY <2>1, RemovalEnd DEF EndSession
  <2>2. CASE ~EndSession(r)
    <3>1. Step(r, [req[r] EXCEPT !.pc = "check"], [NoTx EXCEPT !.poisoned = TRUE])
      BY <1>4, <2>2 DEF InsertFails
    <3>2. [req[r] EXCEPT !.pc = "check"] \in Handler
          /\ [req[r] EXCEPT !.pc = "check"].pc = "check"
      BY PcEdit, PcNames DEF IInv, TypeOK
    <3> QED
      BY <3>1, <3>2, IdleType, RemovalStep
  <2> QED
    BY <2>1, <2>2
<1>5. ASSUME NEW r \in Requests, AnswerAdded(r) PROVE RemovalInv'
  <2>1. req[r] \in Handler /\ tx[r] \in Transaction /\ tx[r].del = {}
    BY <1>5, NothingToRemove DEF IInv, TypeOK, AnswerAdded
  <2>2. Step(r, [req[r] EXCEPT !.pc = "closing"], tx[r])
    BY <1>5 DEF AnswerAdded
  <2>3. [req[r] EXCEPT !.pc = "closing"] \in Handler
        /\ [req[r] EXCEPT !.pc = "closing"].pc = "closing"
    BY <2>1, PcEdit, PcNames
  <2> QED
    BY <2>1, <2>2, <2>3, RemovalStep
<1>6. ASSUME NEW r \in Requests,
             StatementFails(r) \/ CloseSession(r) \/ CloseSessionFails(r) \/ Crash(r)
      PROVE  RemovalInv'
  BY <1>6, RemovalEnd
     DEF StatementFails, CloseSession, CloseSessionFails, Crash, EndSession
<1>7. CASE UNCHANGED plugVars
  BY <1>7 DEF plugVars, RemovalInv
<1> QED
  BY <1>1, <1>2, <1>3, <1>4, <1>5, <1>6, <1>7, RemovalSoftDelete DEF Next, Serve

\* A commit of additions is a Join, the commit of a removal a Leave, unless
\* another request has removed the plug before.
LEMMA CommitMaps ==
    ASSUME IInv, RemovalInv, NEW r \in Requests, CloseSession(r)
    PROVE  [Members!Join \/ Members!Leave]_assoc
<1>1. /\ assoc' = [p \in Plugs |-> IF p \in tx[r].del THEN "deleted"
                        ELSE IF p \in tx[r].ins THEN "live" ELSE assoc[p]]
      /\ assoc \in [Plugs -> RowState]
      /\ tx[r].ins \in SUBSET Plugs /\ tx[r].del \in SUBSET Plugs
  BY TransactionFields DEF CloseSession, IInv, TypeOK
<1>2. CASE tx[r].del # {}
  <2>1. PICK p \in Plugs : tx[r].del = {p} /\ tx[r].ins = {} /\ assoc[p] # "none"
    BY <1>2 DEF RemovalInv
  <2>2. assoc' = [q \in Plugs |-> IF q \in {p} THEN "deleted" ELSE assoc[q]]
    BY <1>1, <2>1
  <2>3. CASE assoc[p] = "live"
    <3>1. Members!Move({p}, "live", "deleted")
      BY <2>2, <2>3 DEF Members!Move
    <3> QED
      BY <3>1 DEF Members!Leave
  <2>4. CASE assoc[p] = "deleted"
    BY <1>1, <2>2, <2>4
  <2> QED
    BY <1>1, <2>1, <2>3, <2>4 DEF RowState
<1>3. CASE tx[r].del = {} /\ tx[r].ins # {}
  <2>1. \A p \in tx[r].ins : assoc[p] = "none"
    BY DEF IInv, OneRowPerPlug
  <2>2. Members!Move(tx[r].ins, "none", "live")
    BY <1>1, <1>3, <2>1 DEF Members!Move
  <2> QED
    BY <1>1, <2>2 DEF Members!Join
<1>4. CASE tx[r].del = {} /\ tx[r].ins = {}
  BY <1>1, <1>4
<1> QED
  BY <1>2, <1>3, <1>4

\* Every step is a join, a leave or no step of the rows.
LEMMA StepMaps ==
    ASSUME IInv, RemovalInv, [Next]_plugVars
    PROVE  [Members!Join \/ Members!Leave]_assoc
<1>1. CASE UNCHANGED assoc
  BY <1>1
<1> QED
  BY <1>1, OnlyCommitsWrite, CommitMaps

\* Whatever its sessions, locks and failures do, all the rest of the system
\* sees of the associations is plugs that join the event, those of one request
\* together, and leave it for good.
THEOREM Refinement == Spec => ImplementsMembership
<1>1. Init => RemovalInv /\ Members!MembersInit
  BY IdleType DEF Init, RemovalInv, Members!MembersInit
<1>2. IInv /\ RemovalInv /\ [Next]_plugVars => RemovalInv'
  BY RemovalNext
<1>3. IInv /\ RemovalInv /\ [Next]_plugVars => [Members!Join \/ Members!Leave]_assoc
  BY StepMaps
<1> QED
  BY <1>1, <1>2, <1>3, Invariance, PTL DEF Spec, ImplementsMembership, Members!MembersSpec

-----------------------------------------------------------------------------
(* A single add that was answered, while the database does not fail. *)

AddedInv ==
    /\ \A r \in Requests :
        req[r].op = "add" => req[r].good \subseteq tx[r].ins /\ ~tx[r].poisoned
    /\ \A a \in ackAdded : a[1] = "add" =>
        \/ assoc[a[2]] # "none"
        \/ \E r \in Requests : /\ req[r].pc = "closing" /\ ~tx[r].poisoned
                               /\ a[2] \in tx[r].ins

\* A step of r that is neither an answer nor a commit, and not one of a session
\* that waits for its commit.
LEMMA AddedStep ==
    ASSUME IInv, AddedInv, NEW r \in Requests, NEW h \in Handler, NEW t \in Transaction,
           Step(r, h, t), UNCHANGED <<assoc, ackAdded>>,
           req[r].pc # "closing" \/ tx[r].poisoned,
           h.op = "add" => h.good \subseteq t.ins /\ ~t.poisoned
    PROVE  AddedInv'
<1>1. /\ req'[r] = h /\ tx'[r] = t
      /\ \A q \in Requests : q # r => req'[q] = req[q] /\ tx'[q] = tx[q]
  BY StepFacts DEF IInv
<1>2. \A q \in Requests : req'[q].op = "add" => req'[q].good \subseteq tx'[q].ins /\ ~tx'[q].poisoned
  BY <1>1 DEF AddedInv
<1>3. ASSUME NEW a \in ackAdded, a[1] = "add", assoc[a[2]] = "none"
      PROVE  \E q \in Requests : /\ req'[q].pc = "closing" /\ ~tx'[q].poisoned
                                 /\ a[2] \in tx'[q].ins
  <2>1. PICK q \in Requests : /\ req[q].pc = "closing" /\ ~tx[q].poisoned
                              /\ a[2] \in tx[q].ins
    BY <1>3 DEF AddedInv
  <2>2. q # r
    BY <2>1
  <2> QED
    BY <1>1, <2>1, <2>2
<1> QED
  BY <1>2, <1>3 DEF AddedInv

\* A session that ends without its commit has no single add to lose.
LEMMA AddedEnd ==
    ASSUME IInv, AddedInv, NEW r \in Requests, Step(r, Idle, NoTx),
           UNCHANGED <<assoc, ackAdded>>, req[r].pc # "closing" \/ tx[r].poisoned
    PROVE  AddedInv'
<1>1. Idle.op # "add"
  BY DEF Idle, Begin
<1> QED
  BY <1>1, IdleType, AddedStep

\* A new request has added nothing.
LEMMA ReceiveAdded ==
    ASSUME IInv, AddedInv, NEW r \in Requests, Receive(r) PROVE AddedInv'
<1>1. PICK op \in {"add", "batch", "remove"}, p \in Plugs \cup {NoPlug},
           plugs \in SUBSET Plugs, pc \in {"check", "softDelete"} :
        /\ Step(r, Begin(op, p, plugs, pc), NoTx)
        /\ UNCHANGED <<assoc, ackAdded>> /\ r \notin Open
  <2>1. CASE AddPlug(r)
    BY <2>1 DEF AddPlug
  <2>2. CASE AddMultiplePlugs(r)
    BY <2>2 DEF AddMultiplePlugs
  <2>3. CASE RemovePlug(r)
    BY <2>3 DEF RemovePlug
  <2> QED
    BY <2>1, <2>2, <2>3 DEF Receive
<1>2. Begin(op, p, plugs, pc) \in Handler /\ Begin(op, p, plugs, pc).good = {}
  BY BeginFields, PcNames DEF Begin
<1>3. NoTx.poisoned = FALSE /\ NoTx \in Transaction
  BY IdleType DEF NoTx
<1>4. req[r].pc # "closing"
  BY <1>1 DEF Open
<1> QED
  BY <1>1, <1>2, <1>3, <1>4, AddedStep

\* The plug is free, or the request is refused, or the batch goes on.
LEMMA CheckAssociationAdded ==
    ASSUME IInv, AddedInv, NEW r \in Requests, CheckAssociation(r) PROVE AddedInv'
<1>1. /\ req[r] \in Handler /\ tx[r] \in Transaction /\ req[r].pc = "check"
      /\ UNCHANGED <<assoc, ackAdded>>
      /\ req[r].op = "add" => req[r].good \subseteq tx[r].ins /\ ~tx[r].poisoned
  BY DEF IInv, TypeOK, CheckAssociation, AddedInv
<1>2. PICK p \in req[r].todo :
        LET h == [req[r] EXCEPT !.todo = req[r].todo \ {p}] IN
        IF ~tx[r].poisoned /\ ~SeesLive(r, p)
        THEN Step(r, [h EXCEPT !.cur = p, !.pc = "insert"], tx[r])
        ELSE Step(r, IF h.op = "add" THEN Idle ELSE h,
                     IF h.op = "add" THEN NoTx ELSE tx[r])
  BY DEF CheckAssociation
<1>3. p \in Plugs /\ req[r].todo \ {p} \in SUBSET Plugs
  BY <1>1, HandlerFields
<1> DEFINE h == [req[r] EXCEPT !.todo = req[r].todo \ {p}]
           k == [h EXCEPT !.cur = p, !.pc = "insert"]
<1>4. /\ h \in Handler /\ h.op = req[r].op /\ h.good = req[r].good
      /\ k \in Handler /\ k.op = req[r].op /\ k.good = req[r].good
  BY <1>1, <1>3, PcNames DEF Handler
<1>5. \/ Step(r, k, tx[r])
      \/ Step(r, Idle, NoTx)
      \/ Step(r, h, tx[r])
  BY <1>2
<1> HIDE DEF h, k
<1>6. CASE Step(r, Idle, NoTx)
  BY <1>1, <1>6, AddedEnd
<1>7. CASE Step(r, k, tx[r])
  BY <1>1, <1>4, <1>7, AddedStep
<1>8. CASE Step(r, h, tx[r])
  BY <1>1, <1>4, <1>8, AddedStep
<1> QED
  BY <1>5, <1>6, <1>7, <1>8

\* An insert is recorded in the session before the plug counts as added.
LEMMA InsertAssociationAdded ==
    ASSUME IInv, AddedInv, NEW r \in Requests, InsertAssociation(r) PROVE AddedInv'
<1>1. /\ req[r] \in Handler /\ tx[r] \in Transaction /\ req[r].cur \in Plugs
      /\ req[r].pc = "insert" /\ UNCHANGED <<assoc, ackAdded>>
      /\ req[r].op = "add" => req[r].good \subseteq tx[r].ins /\ ~tx[r].poisoned
  BY DEF IInv, TypeOK, PlugAtHand, InsertAssociation, AddedInv
<1> DEFINE p == req[r].cur
           h == [req[r] EXCEPT !.pc = "check", !.good = req[r].good \cup {p}]
           t == [tx[r] EXCEPT !.ins = tx[r].ins \cup {p}]
<1>2. Step(r, h, t)
  BY DEF InsertAssociation
<1>3. req[r].good \cup {p} \in SUBSET Plugs
  BY <1>1, HandlerFields
<1>4. /\ h \in Handler /\ h.op = req[r].op /\ h.good = req[r].good \cup {p}
      /\ t \in Transaction /\ t.ins = tx[r].ins \cup {p} /\ t.poisoned = tx[r].poisoned
  BY <1>1, <1>3, PcNames DEF Handler, Transaction
<1> HIDE DEF h, t
<1>5. h.op = "add" => h.good \subseteq t.ins /\ ~t.poisoned
  BY <1>1, <1>4
<1> QED
  BY <1>1, <1>2, <1>4, <1>5, AddedStep

\* Only a batch goes on in a session that has failed.
LEMMA InsertFailsAdded ==
    ASSUME IInv, AddedInv, NEW r \in Requests, InsertFails(r) PROVE AddedInv'
<1>1. req[r].pc # "closing" /\ req[r] \in Handler
  BY DEF InsertFails, IInv, TypeOK
<1>2. CASE req[r].op = "add"
  BY <1>1, <1>2, AddedEnd DEF InsertFails, EndSession
<1>3. CASE req[r].op # "add"
  <2> DEFINE h == [req[r] EXCEPT !.pc = "check"]
             t == [NoTx EXCEPT !.poisoned = TRUE]
  <2>1. Step(r, h, t) /\ UNCHANGED <<assoc, ackAdded>>
    BY <1>3 DEF InsertFails
  <2>2. h \in Handler /\ h.op # "add" /\ t \in Transaction
    BY <1>1, <1>3, PcNames, IdleType DEF Handler
  <2> HIDE DEF h, t
  <2> QED
    BY <1>1, <2>1, <2>2, AddedStep
<1> QED
  BY <1>2, <1>3

\* The plugs that are reported have been inserted, and their session waits for
\* its commit.
LEMMA AnswerAddedAdded ==
    ASSUME IInv, AddedInv, NEW r \in Requests, AnswerAdded(r) PROVE AddedInv'
<1> DEFINE h == [req[r] EXCEPT !.pc = "closing"]
<1>1. /\ req[r] \in Handler /\ tx[r] \in Transaction /\ req[r].pc = "check"
      /\ Step(r, h, tx[r]) /\ UNCHANGED assoc
      /\ ackAdded' = ackAdded \cup {<<req[r].op, p>> : p \in req[r].good}
  BY DEF AnswerAdded, IInv, TypeOK
<1>2. h \in Handler /\ h.pc = "closing" /\ h.op = req[r].op /\ h.good = req[r].good
  BY <1>1, PcNames DEF Handler
<1> HIDE DEF h
<1>3. /\ req'[r] = h /\ tx'[r] = tx[r]
      /\ \A q \in Requests : q # r => req'[q] = req[q] /\ tx'[q] = tx[q]
  BY <1>1, <1>2, StepFacts DEF IInv
<1>4. \A q \in Requests : req'[q].op = "add" => req'[q].good \subseteq tx'[q].ins /\ ~tx'[q].poisoned
  BY <1>2, <1>3 DEF AddedInv
<1>5. ASSUME NEW a \in ackAdded', a[1] = "add", assoc[a[2]] = "none"
      PROVE  \E q \in Requests : /\ req'[q].pc = "closing" /\ ~tx'[q].poisoned
                                 /\ a[2] \in tx'[q].ins
  <2>1. CASE a \in ackAdded
    <3>1. PICK q \in Requests : /\ req[q].pc = "closing" /\ ~tx[q].poisoned
                                /\ a[2] \in tx[q].ins
      BY <1>5, <2>1 DEF AddedInv
    <3> QED
      BY <1>1, <1>3, <3>1
  <2>2. CASE a \notin ackAdded
    <3>1. PICK p \in req[r].good : a = <<req[r].op, p>>
      BY <1>1, <2>2
    <3>2. p \in tx[r].ins /\ ~tx[r].poisoned
      BY <1>5, <3>1 DEF AddedInv
    <3> QED
      BY <1>2, <1>3, <3>1, <3>2
  <2> QED
    BY <2>1, <2>2
<1> QED
  BY <1>1, <1>4, <1>5 DEF AddedInv

\* A removal adds nothing.
LEMMA SoftDeleteAdded ==
    ASSUME IInv, AddedInv, NEW r \in Requests, SoftDelete(r) PROVE AddedInv'
<1>1. /\ req[r] \in Handler /\ tx[r] \in Transaction /\ req[r].cur \in Plugs
      /\ req[r].pc = "softDelete" /\ UNCHANGED <<assoc, ackAdded>>
      /\ req[r].op = "add" => req[r].good \subseteq tx[r].ins /\ ~tx[r].poisoned
  BY DEF IInv, TypeOK, PlugAtHand, SoftDelete, AddedInv
<1> DEFINE h == [req[r] EXCEPT !.pc = "closing"]
           t == [tx[r] EXCEPT !.del = tx[r].del \cup {req[r].cur}]
<1>2. Step(r, h, t)
  BY DEF SoftDelete
<1>3. /\ h \in Handler /\ h.op = req[r].op /\ h.good = req[r].good
      /\ t \in Transaction /\ t.ins = tx[r].ins /\ t.poisoned = tx[r].poisoned
  BY <1>1, PcNames DEF Handler, Transaction
<1> HIDE DEF h, t
<1> QED
  BY <1>1, <1>2, <1>3, AddedStep

\* A commit turns what its session has inserted into rows.
LEMMA CloseSessionAdded ==
    ASSUME IInv, AddedInv, NEW r \in Requests, CloseSession(r) PROVE AddedInv'
<1>1. /\ Step(r, Idle, NoTx) /\ ackAdded' = ackAdded
      /\ assoc' = [p \in Plugs |->
            IF p \in tx[r].del THEN "deleted"
            ELSE IF p \in tx[r].ins THEN "live" ELSE assoc[p]]
  BY DEF CloseSession
<1>2. /\ req'[r] = Idle /\ tx'[r] = NoTx
      /\ \A q \in Requests : q # r => req'[q] = req[q] /\ tx'[q] = tx[q]
  BY <1>1, StepFacts, IdleType DEF IInv
<1>3. Idle.op # "add"
  BY DEF Idle, Begin
<1>4. \A q \in Requests : req'[q].op = "add" => req'[q].good \subseteq tx'[q].ins /\ ~tx'[q].poisoned
  BY <1>2, <1>3 DEF AddedInv
<1>5. ASSUME NEW a \in ackAdded, a[1] = "add", assoc'[a[2]] = "none"
      PROVE  \E q \in Requests : /\ req'[q].pc = "closing" /\ ~tx'[q].poisoned
                                 /\ a[2] \in tx'[q].ins
  <2>1. a[2] \in Plugs
    BY DEF IInv, TypeOK
  <2>2. assoc[a[2]] = "none" /\ a[2] \notin tx[r].ins
    BY <1>1, <1>5, <2>1
  <2>3. PICK q \in Requests : /\ req[q].pc = "closing" /\ ~tx[q].poisoned
                              /\ a[2] \in tx[q].ins
    BY <1>5, <2>2 DEF AddedInv
  <2> QED
    BY <1>2, <2>2, <2>3
<1> QED
  BY <1>1, <1>4, <1>5 DEF AddedInv

\* With a database that does not fail and workers that live, a plug that
\* add_plug_to_event reported as added has a row, or a session that nothing but
\* its own commit can end holds it.
THEOREM SingleAddsAreKept == ASSUME Faults = {} PROVE Spec => []SingleAddIsKept
<1>1. Init => AddedInv
  BY DEF Init, AddedInv, Idle, Begin
<1>2. ASSUME IInv, AddedInv, NEW r \in Requests, Serve(r) PROVE AddedInv'
  <2>1. ~StatementFails(r)
    BY DEF StatementFails
  <2>2. CASE CloseSessionFails(r)
    <3>1. tx[r].poisoned
      BY <2>2 DEF CloseSessionFails
    <3> QED
      BY <1>2, <2>2, <3>1, AddedEnd DEF CloseSessionFails, EndSession
  <2> QED
    BY <1>2, <2>1, <2>2, CheckAssociationAdded, InsertAssociationAdded, InsertFailsAdded,
       AnswerAddedAdded, SoftDeleteAdded, CloseSessionAdded DEF Serve
<1>3. ASSUME IInv, AddedInv, [Next]_plugVars PROVE AddedInv'
  <2>1. CASE UNCHANGED plugVars
    BY <1>3, <2>1 DEF plugVars, AddedInv
  <2>2. \A r \in Requests : ~Crash(r)
    BY DEF Crash
  <2> QED
    BY <1>2, <1>3, <2>1, <2>2, ReceiveAdded DEF Next
<1>4. AddedInv => SingleAddIsKept
  BY DEF AddedInv, SingleAddIsKept, Kept
<1> QED
  BY <1>1, <1>3, <1>4, Invariance, PTL DEF Spec

=============================================================================
