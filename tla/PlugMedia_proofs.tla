--------------------------- MODULE PlugMedia_proofs ---------------------------
(***************************************************************************)
(* The bucket and the rows of plug media stay accounted for, and a request *)
(* gets at most one file in late, for every number of requests, plugs and  *)
(* files and every set of faults.                                          *)
(***************************************************************************)
EXTENDS PlugMedia, FiniteSetTheorems, TLAPS

InFlight == {"put", "insert", "cleanup"}
Deleting == {"remove", "getAgain", "softDelete"}

\* The files an upload still has to store, has at hand, or has inserted.
Held(r) == req[r].todo \cup tx[r].ins
              \cup {f \in {req[r].file} : req[r].pc \in InFlight}

\* The files whose object is away, or was left behind by a failed deletion.
Gone == leaked \cup (Files \ objects)

\* After a late file the plug is out for good, so no file follows it.
LateInv(r) ==
    /\ req[r].pc \in InFlight \cup {"check"} => req[r].plug \in Plugs
    /\ req[r].pc \in {"put", "insert"} => req[r].late = {}
    /\ req[r].late # {} =>
        /\ req[r].plug \in Plugs
        /\ member[req[r].plug] = "deleted"
        /\ \E f \in Files : req[r].late = {f}

\* What an upload holds has no row yet; its objects are there from the put on.
UploadInv(r) ==
    /\ req[r].pc \in {"idle", "check"} => req[r].file = NoFile
    /\ req[r].pc \in InFlight =>
        req[r].file \in Files /\ req[r].file \notin req[r].todo \cup tx[r].ins
    /\ req[r].pc = "put" => req[r].file \notin objects
    /\ req[r].pc = "insert" => req[r].file \in objects
    /\ req[r].todo \cap objects = {}
    /\ tx[r].ins \subseteq objects
    /\ \A f \in Held(r) : row[f] = "none"

\* A deletion marks the row after it has dealt with the object.
DeletionInv(r) ==
    /\ req[r].pc \in Deleting => req[r].file \in Files /\ row[req[r].file] # "none"
    /\ req[r].pc \in {"getAgain", "softDelete"} => req[r].file \in Gone
    /\ req[r].pc = "closing" /\ req[r].file # NoFile =>
        req[r].file \in Gone /\ row[req[r].file] # "none"
    /\ \A f \in tx[r].del : f \in Gone /\ row[f] # "none"

SessionInv(r) == LateInv(r) /\ UploadInv(r) /\ DeletionInv(r)

Disjoint == \A r, q \in Requests : r # q => Held(r) \cap Held(q) = {}

TablesInv ==
    /\ \A f \in Files : row[f] = "deleted" => f \in Gone
    /\ \A f \in Files : row[f] = "live" /\ f \notin objects => f \in doomed
    /\ OrphansAreAccounted

IInv == TypeOK /\ Disjoint /\ TablesInv /\ \A r \in Requests : SessionInv(r)

-----------------------------------------------------------------------------
(* The records a handler and its session are described by. *)

\* The fields of a handler and of a session.
LEMMA Fields ==
    ASSUME TypeOK, NEW r \in Requests
    PROVE  /\ req[r].pc \in PCs /\ req[r].plug \in Plugs \cup {NoPlug}
           /\ req[r].file \in Files \cup {NoFile} /\ req[r].todo \in SUBSET Files
           /\ req[r].good \in SUBSET Files /\ req[r].late \in SUBSET Files
           /\ tx[r].ins \in SUBSET Files /\ tx[r].del \in SUBSET Files
           /\ tx[r].poisoned \in BOOLEAN
BY DEF TypeOK, Handler, Transaction

\* An idle handler and an empty session have nothing.
LEMMA IdleFields ==
    /\ Idle \in Handler /\ Idle.pc = "idle" /\ Idle.file = NoFile
    /\ Idle.plug = NoPlug /\ Idle.todo = {} /\ Idle.late = {}
    /\ NoTx \in Transaction /\ NoTx.ins = {} /\ NoTx.del = {}
    /\ [NoTx EXCEPT !.poisoned = TRUE] \in Transaction
    /\ [NoTx EXCEPT !.poisoned = TRUE].ins = {}
    /\ [NoTx EXCEPT !.poisoned = TRUE].del = {}
BY DEF Idle, NoTx, Handler, Transaction, PCs

\* A session with nothing in it keeps its part of the invariant.
LEMMA IdleInv ==
    ASSUME NEW r \in Requests, req'[r] = Idle, tx'[r] = NoTx
    PROVE  SessionInv(r)' /\ Held(r)' = {}
BY IdleFields DEF SessionInv, LateInv, UploadInv, DeletionInv, Held, InFlight, Deleting

-----------------------------------------------------------------------------
(* What a step of one request leaves of the others. *)

\* A step of a request that puts, removes and marks only files it holds, or
\* files with a row already, keeps what the other sessions rely on.
LEMMA Frame ==
    ASSUME IInv, TypeOK', NEW r \in Requests,
           \A q \in Requests \ {r} : req'[q] = req[q] /\ tx'[q] = tx[q],
           member' = member, leaked \subseteq leaked',
           \A q \in Requests \ {r} : Held(r)' \cap Held(q) = {},
           \A f \in objects' \ objects : f \in Held(r),
           \A f \in objects \ objects' : f \in Held(r) \/ row[f] # "none",
           \A f \in Files \ Held(r) : \/ row'[f] = row[f]
                                      \/ row[f] # "none" /\ row'[f] # "none",
           SessionInv(r)', TablesInv'
    PROVE  IInv'
<1>1. \A q \in Requests \ {r} : Held(q)' = Held(q)
  BY DEF Held
<1>2. Disjoint'
  BY <1>1 DEF Disjoint, IInv
<1>3. ASSUME NEW q \in Requests \ {r} PROVE SessionInv(q)'
  <2>1. /\ SessionInv(q) /\ SessionInv(r) /\ req'[q] = req[q] /\ tx'[q] = tx[q]
        /\ Held(q) \cap Held(r) = {} /\ Held(q) \subseteq Files \cup {NoFile}
        /\ req[q].todo \subseteq Files /\ tx[q].ins \subseteq Files
        /\ tx[q].del \subseteq Files /\ req[q].file \in Files \cup {NoFile}
    BY Fields DEF IInv, Disjoint, Held
  <2>2. LateInv(q)'
    BY <2>1 DEF SessionInv, LateInv
  <2>3. \A f \in Held(q) \cap Files : /\ row[f] = "none" /\ row'[f] = "none"
                                      /\ f \in objects <=> f \in objects'
    BY <2>1 DEF SessionInv, UploadInv
  <2>4. req[q].todo \cup tx[q].ins \subseteq Held(q)
        /\ (req[q].pc \in InFlight => req[q].file \in Held(q))
    BY DEF Held
  <2>5. UploadInv(q)'
    <3>1. \A f \in Held(q) : f \in Files
      BY <2>1 DEF SessionInv, UploadInv, Held
    <3>2. req[q].todo \cap objects' = {} /\ tx[q].ins \subseteq objects'
      BY <2>1, <2>3, <2>4 DEF SessionInv, UploadInv
    <3>3. (req[q].pc = "put" => req[q].file \notin objects')
          /\ (req[q].pc = "insert" => req[q].file \in objects')
      BY <2>1, <2>3, <2>4, <3>1 DEF SessionInv, UploadInv, InFlight
    <3>4. \A f \in Held(q)' : row'[f] = "none"
      BY <1>1, <2>3, <3>1
    <3> QED
      BY <2>1, <3>2, <3>3, <3>4 DEF SessionInv, UploadInv
  <2>6. \A f \in Files : row[f] # "none" => row'[f] # "none" /\ (f \in Gone => f \in Gone')
    BY <2>1 DEF SessionInv, UploadInv, Gone
  <2>7. DeletionInv(q)'
    BY <2>1, <2>6 DEF SessionInv, DeletionInv, Deleting
  <2> QED
    BY <2>2, <2>5, <2>7 DEF SessionInv
<1> QED
  BY <1>2, <1>3 DEF IInv

\* A step that commits nothing keeps the tables and the bucket in line if the
\* objects it drops from its hands are on record.
LEMMA TablesFrame ==
    ASSUME IInv, NEW r \in Requests,
           \A q \in Requests \ {r} : req'[q] = req[q] /\ tx'[q] = tx[q],
           row' = row, leaked \subseteq leaked', doomed \subseteq doomed',
           objects' \subseteq Files,
           \A f \in objects' \ objects : f \in Held(r),
           \A f \in objects \ objects' : row[f] = "live" => f \in doomed',
           \A f \in objects' : row[f] # "live" /\ (f \in InHand(r) \/ f \notin objects)
                                => f \in leaked' \/ f \in InHand(r)'
    PROVE  TablesInv'
<1>1. \A f \in objects' \ objects : row[f] = "none"
  BY DEF IInv, SessionInv, UploadInv
<1>2. \A f \in Files : row'[f] = "deleted" => f \in Gone'
  BY <1>1 DEF IInv, TablesInv, Gone
<1>3. \A f \in Files : row'[f] = "live" /\ f \notin objects' => f \in doomed'
  BY DEF IInv, TablesInv
<1>4. \A q \in Requests \ {r} : InHand(q)' = InHand(q)
  BY DEF InHand
<1>5. OrphansAreAccounted'
  BY <1>4 DEF IInv, TablesInv, OrphansAreAccounted
<1> QED
  BY <1>2, <1>3, <1>5 DEF TablesInv

-----------------------------------------------------------------------------
(* The steps. *)

\* The initial state satisfies the invariant.
LEMMA InitInv == Init => IInv
<1> SUFFICES ASSUME Init PROVE IInv
  OBVIOUS
<1>1. \A r \in Requests : req[r] = Idle /\ tx[r] = NoTx
  BY DEF Init
<1>2. TypeOK
  BY IdleFields DEF Init, TypeOK, MembersInit, Membership
<1>3. \A r \in Requests : SessionInv(r) /\ Held(r) = {}
  BY <1>1, IdleFields
     DEF SessionInv, LateInv, UploadInv, DeletionInv, Held, InFlight, Deleting
<1>4. TablesInv
  BY DEF Init, TablesInv, OrphansAreAccounted, Gone
<1> QED
  BY <1>2, <1>3, <1>4 DEF IInv, Disjoint

\* The plugs of the event come and go, and never come back.
LEMMA MembersInv == ASSUME IInv, (Join \/ Leave) /\ UNCHANGED mediaVars PROVE IInv'
<1>1. member' \in [Plugs -> Membership]
      /\ \A p \in Plugs : member[p] = "deleted" => member'[p] = "deleted"
  BY DEF IInv, TypeOK, Join, Leave, Move, Membership
<1>2. UNCHANGED <<row, objects, req, tx, doomed, leaked>>
  BY DEF mediaVars
<1>3. TypeOK'
  BY <1>1, <1>2 DEF IInv, TypeOK
<1>4. Disjoint'
  BY <1>2 DEF IInv, Disjoint, Held
<1>5. TablesInv'
  BY <1>2 DEF IInv, TablesInv, OrphansAreAccounted, Gone, InHand
<1>6. ASSUME NEW r \in Requests PROVE SessionInv(r)'
  <2>1. SessionInv(r)
    BY DEF IInv
  <2>2. LateInv(r)'
    BY <1>1, <1>2, <2>1 DEF SessionInv, LateInv
  <2>3. UploadInv(r)' /\ DeletionInv(r)'
    BY <1>2, <2>1 DEF SessionInv, UploadInv, DeletionInv, Held, Gone
  <2> QED
    BY <2>2, <2>3 DEF SessionInv
<1> QED
  BY <1>3, <1>4, <1>5, <1>6 DEF IInv

\* A session that goes away leaves what it put on record.
LEMMA AbandonInv == ASSUME IInv, NEW r \in Requests, Abandon(r) PROVE IInv'
<1>1. /\ req'[r] = Idle /\ tx'[r] = NoTx
      /\ \A q \in Requests \ {r} : req'[q] = req[q] /\ tx'[q] = tx[q]
      /\ UNCHANGED <<member, row, objects, doomed>> /\ leaked' = leaked \cup Behind(r)
  BY DEF Abandon, IInv, TypeOK
<1>2. Behind(r) \subseteq Files
  BY Fields DEF IInv, TypeOK, Behind
<1>3. TypeOK'
  BY <1>1, <1>2, IdleFields DEF Abandon, IInv, TypeOK
<1>4. SessionInv(r)' /\ Held(r)' = {}
  BY <1>1, IdleInv
<1>5. \A f \in objects : row[f] # "live" /\ f \in InHand(r) => f \in leaked'
  <2> SUFFICES ASSUME NEW f \in objects, row[f] # "live", f \in InHand(r), f \notin tx[r].ins
               PROVE  f \in leaked'
    BY <1>1 DEF Behind
  <2>1. SessionInv(r) /\ f \in Files /\ f # NoFile /\ row[f] \in {"none", "deleted"}
    BY NoIdAssumption DEF IInv, TypeOK
  <2>2. f = req[r].file
    BY <2>1 DEF InHand, SessionInv, UploadInv
  <2>3. CASE req[r].pc \in {"insert", "cleanup"}
    BY <1>1, <2>2, <2>3 DEF Behind
  <2>4. CASE row[f] = "deleted" \/ req[r].pc \in {"getAgain", "softDelete", "closing"}
    BY <1>1, <2>1, <2>2, <2>4 DEF SessionInv, DeletionInv, IInv, TablesInv, Gone
  <2>5. CASE req[r].pc \in {"idle", "check", "put"}
    BY <2>1, <2>2, <2>5 DEF SessionInv, UploadInv
  <2>6. CASE req[r].pc = "remove" /\ row[f] = "none"
    BY <2>1, <2>2, <2>6 DEF SessionInv, DeletionInv, Deleting
  <2> QED
    BY <2>1, <2>3, <2>4, <2>5, <2>6, Fields DEF IInv, PCs
<1>6. TablesInv'
  BY <1>1, <1>5, TablesFrame DEF IInv, TypeOK
<1> QED
  BY <1>1, <1>3, <1>4, <1>6, Frame

\* Fresh files are in nobody's hands and have neither a row nor an object.
LEMMA UploadMultipleInv == ASSUME IInv, NEW r \in Requests, UploadMultiple(r) PROVE IInv'
<1>1. PICK p \in Plugs, F \in SUBSET Fresh :
        req' = [req EXCEPT ![r] = [Idle EXCEPT !.pc = "check", !.plug = p, !.todo = F]]
  BY DEF UploadMultiple
<1> DEFINE h == [Idle EXCEPT !.pc = "check", !.plug = p, !.todo = F]
<1>2. /\ F \subseteq Files /\ F \cap objects = {} /\ \A f \in F : row[f] = "none"
      /\ \A q \in Requests : F \cap InHand(q) = {}
  BY DEF Fresh
<1>3. /\ h \in Handler /\ h.pc = "check" /\ h.file = NoFile /\ h.late = {}
      /\ h.todo = F /\ h.plug = p
  BY <1>2 DEF Idle, Handler, PCs
<1>4. /\ req'[r] = h /\ \A q \in Requests \ {r} : req'[q] = req[q]
      /\ UNCHANGED <<member, row, objects, tx, doomed, leaked>>
  BY <1>1 DEF UploadMultiple, IInv, TypeOK
<1> HIDE DEF h
<1>5. TypeOK'
  BY <1>1, <1>3, <1>4 DEF IInv, TypeOK, h
<1>6. req[r].pc = "idle" /\ SessionInv(r) /\ tx'[r] = tx[r]
  BY <1>4 DEF UploadMultiple, Open, IInv
<1>7. Held(r)' = F \cup tx[r].ins /\ tx[r].ins \subseteq Held(r)
  BY <1>3, <1>4 DEF Held, InFlight
<1>8. SessionInv(r)'
  <2>1. LateInv(r)' /\ DeletionInv(r)'
    BY <1>3, <1>4, <1>6 DEF SessionInv, LateInv, DeletionInv, InFlight, Deleting, Gone
  <2>2. UploadInv(r)'
    BY <1>2, <1>3, <1>4, <1>6, <1>7 DEF SessionInv, UploadInv, InFlight
  <2> QED
    BY <2>1, <2>2 DEF SessionInv
<1>9. \A q \in Requests \ {r} : Held(r)' \cap Held(q) = {}
  BY <1>2, <1>7 DEF IInv, Disjoint, Held, InHand
<1>10. TablesInv'
  <2>1. \A f \in objects : f \in InHand(r) => f \in InHand(r)'
    BY <1>4, <1>6, NoIdAssumption DEF InHand, SessionInv, UploadInv, IInv, TypeOK
  <2> QED
    BY <1>4, <2>1, TablesFrame DEF IInv, TypeOK
<1> QED
  BY <1>4, <1>5, <1>8, <1>9, <1>10, Frame

\* The next file is taken out of the list; it is put only for a live plug, so
\* after a late file it never is.
LEMMA CheckFileInv == ASSUME IInv, NEW r \in Requests, CheckFile(r) PROVE IInv'
<1>1. PICK f \in req[r].todo :
        LET h == [req[r] EXCEPT !.todo = @ \ {f}] IN
        \/ req' = [req EXCEPT ![r] = h]
        \/ /\ ~tx[r].poisoned
           /\ member[h.plug] = "live"
           /\ req' = [req EXCEPT ![r] = [h EXCEPT !.pc = "put", !.file = f]]
  BY DEF CheckFile, Associated
<1>2. /\ req[r] \in Handler /\ req[r].pc = "check" /\ f \in Files
      /\ \A q \in Requests \ {r} : req'[q] = req[q]
      /\ UNCHANGED <<member, row, objects, tx, doomed, leaked>>
  BY <1>1, Fields DEF CheckFile, IInv, TypeOK
<1>3. /\ req' \in [Requests -> Handler]
      /\ req'[r].plug = req[r].plug /\ req'[r].late = req[r].late
      /\ req'[r].todo = req[r].todo \ {f}
      /\ \/ req'[r].pc = "check" /\ req'[r].file = req[r].file
         \/ req'[r].pc = "put" /\ req'[r].file = f /\ member[req[r].plug] = "live"
  <2> DEFINE h == [req[r] EXCEPT !.todo = req[r].todo \ {f}]
             k == [h EXCEPT !.pc = "put", !.file = f]
  <2>1. /\ h \in Handler /\ h.pc = "check" /\ h.plug = req[r].plug
        /\ h.late = req[r].late /\ h.todo = req[r].todo \ {f} /\ h.file = req[r].file
    BY <1>2 DEF Handler
  <2>2. /\ k \in Handler /\ k.pc = "put" /\ k.plug = req[r].plug
        /\ k.late = req[r].late /\ k.todo = req[r].todo \ {f} /\ k.file = f
    BY <1>2 DEF Handler, PCs
  <2>3. \/ req' = [req EXCEPT ![r] = h]
        \/ req' = [req EXCEPT ![r] = k] /\ member[req[r].plug] = "live"
    BY <1>1, <2>1
  <2> HIDE DEF h, k
  <2> QED
    BY <2>1, <2>2, <2>3 DEF IInv, TypeOK
<1>4. TypeOK'
  BY <1>2, <1>3 DEF IInv, TypeOK
<1>5. SessionInv(r) /\ req[r].file = NoFile
  BY <1>2 DEF IInv, SessionInv, UploadInv
<1>6. Held(r)' \subseteq Held(r)
  BY <1>1, <1>2, <1>3 DEF Held, InFlight
<1>7. SessionInv(r)'
  <2>1. LateInv(r)'
    BY <1>2, <1>3, <1>5 DEF SessionInv, LateInv, InFlight
  <2>2. f \notin objects /\ f \notin tx[r].ins
    BY <1>1, <1>5 DEF SessionInv, UploadInv
  <2>3. UploadInv(r)'
    BY <1>2, <1>3, <1>5, <1>6, <2>2 DEF SessionInv, UploadInv, InFlight
  <2>4. DeletionInv(r)'
    BY <1>2, <1>3, <1>5 DEF SessionInv, DeletionInv, Deleting, Gone
  <2> QED
    BY <2>1, <2>3, <2>4 DEF SessionInv
<1>8. TablesInv'
  <2>1. \A g \in objects : g \in InHand(r) => g \in InHand(r)'
    BY <1>2, <1>3, <1>5, NoIdAssumption DEF InHand, SessionInv, UploadInv, IInv, TypeOK
  <2> QED
    BY <1>2, <2>1, TablesFrame DEF IInv, TypeOK
<1>9. \A q \in Requests \ {r} : Held(r)' \cap Held(q) = {}
  BY <1>6 DEF IInv, Disjoint
<1> QED
  BY <1>2, <1>4, <1>7, <1>8, <1>9, Frame

\* The object is there once the call succeeds; if it fails, the cleanup asks.
LEMMA PutObjectInv == ASSUME IInv, NEW r \in Requests, PutObject(r) PROVE IInv'
<1>1. /\ req[r] \in Handler /\ req[r].pc = "put" /\ req[r].file \in Files
      /\ req[r].file \in Held(r) /\ SessionInv(r)
      /\ \A q \in Requests \ {r} : req'[q] = req[q]
      /\ UNCHANGED <<member, row, tx, doomed, leaked>>
  BY DEF PutObject, IInv, TypeOK, SessionInv, UploadInv, Held, InFlight
<1>2. /\ req' \in [Requests -> Handler]
      /\ req'[r].plug = req[r].plug /\ req'[r].late = req[r].late
      /\ req'[r].todo = req[r].todo /\ req'[r].file = req[r].file
      /\ \/ req'[r].pc = "insert" /\ objects' = objects \cup {req[r].file}
         \/ req'[r].pc = "cleanup" /\ objects' \in {objects, objects \cup {req[r].file}}
  BY <1>1 DEF PutObject, Handler, PCs, IInv, TypeOK
<1>3. TypeOK'
  BY <1>1, <1>2 DEF IInv, TypeOK
<1>4. Held(r)' = Held(r) /\ InHand(r)' = InHand(r) /\ req[r].file \in InHand(r)
  BY <1>1, <1>2 DEF Held, InHand, InFlight
<1>5. SessionInv(r)'
  <2>1. LateInv(r)' /\ DeletionInv(r)'
    BY <1>1, <1>2 DEF SessionInv, LateInv, DeletionInv, InFlight, Deleting, Gone,
       UploadInv, Held
  <2>2. UploadInv(r)'
    BY <1>1, <1>2, <1>4 DEF SessionInv, UploadInv, InFlight
  <2> QED
    BY <2>1, <2>2 DEF SessionInv
<1>6. TablesInv'
  BY <1>1, <1>2, <1>3, <1>4, TablesFrame DEF TypeOK
<1>7. \A q \in Requests \ {r} : Held(r)' \cap Held(q) = {}
  BY <1>4 DEF IInv, Disjoint
<1> QED
  BY <1>1, <1>2, <1>3, <1>5, <1>6, <1>7, Frame

\* The row of the file in hand is written; if the plug is out, the file is late.
LEMMA InsertRowInv == ASSUME IInv, NEW r \in Requests, InsertRow(r) PROVE IInv'
<1> DEFINE f == req[r].file
<1>1. /\ req[r] \in Handler /\ tx[r] \in Transaction /\ req[r].pc = "insert" /\ f \in Files
      /\ f \in Held(r) /\ f \in objects /\ f \notin req[r].todo /\ SessionInv(r)
      /\ req[r].plug \in Plugs /\ req[r].late = {}
      /\ \A q \in Requests \ {r} : req'[q] = req[q] /\ tx'[q] = tx[q]
      /\ UNCHANGED <<member, row, objects, doomed, leaked>>
  BY DEF InsertRow, IInv, TypeOK, SessionInv, UploadInv, LateInv, Held, InFlight
<1>2. /\ req' \in [Requests -> Handler]
      /\ req'[r].plug = req[r].plug /\ req'[r].pc = "check"
      /\ req'[r].late = IF member[req[r].plug] = "deleted" THEN {f} ELSE {}
      /\ req'[r].todo = req[r].todo /\ req'[r].file = NoFile
  <2> DEFINE g == req[r].good \cup {f}
             l == IF member[req[r].plug] = "deleted" THEN req[r].late \cup {f}
                                                     ELSE req[r].late
             h == [req[r] EXCEPT !.pc = "check", !.file = NoFile, !.good = g, !.late = l]
  <2>1. g \in SUBSET Files /\ l \in SUBSET Files
    BY <1>1, Fields DEF IInv
  <2>2. req' = [req EXCEPT ![r] = h]
    BY <1>1 DEF InsertRow, IInv, TypeOK, Handler
  <2> HIDE DEF g, l
  <2>3. /\ h \in Handler /\ h.pc = "check" /\ h.plug = req[r].plug
        /\ h.late = l /\ h.todo = req[r].todo /\ h.file = NoFile
    BY <1>1, <2>1 DEF Handler, PCs
  <2>4. l = IF member[req[r].plug] = "deleted" THEN {f} ELSE {}
    BY <1>1 DEF l
  <2> HIDE DEF h
  <2> QED
    BY <2>2, <2>3, <2>4 DEF IInv, TypeOK
<1>3. tx' \in [Requests -> Transaction] /\ tx'[r].ins = tx[r].ins \cup {f}
      /\ tx'[r].del = tx[r].del
  BY <1>1 DEF InsertRow, Transaction, IInv, TypeOK
<1>4. TypeOK'
  BY <1>1, <1>2, <1>3 DEF IInv, TypeOK
<1>5. Held(r)' = Held(r)
  BY <1>1, <1>2, <1>3 DEF Held, InFlight
<1>6. SessionInv(r)'
  <2>1. LateInv(r)'
    BY <1>1, <1>2 DEF LateInv, InFlight
  <2>2. UploadInv(r)'
    BY <1>1, <1>2, <1>3, <1>5 DEF SessionInv, UploadInv, InFlight
  <2>3. DeletionInv(r)'
    BY <1>1, <1>2, <1>3 DEF SessionInv, DeletionInv, Deleting, Gone
  <2> QED
    BY <2>1, <2>2, <2>3 DEF SessionInv
<1>7. TablesInv'
  <2>1. InHand(r) \subseteq InHand(r)'
    BY <1>2, <1>3 DEF InHand
  <2> QED
    BY <1>1, <1>4, <2>1, TablesFrame DEF TypeOK
<1>8. \A q \in Requests \ {r} : Held(r)' \cap Held(q) = {}
  BY <1>5 DEF IInv, Disjoint
<1> QED
  BY <1>1, <1>4, <1>6, <1>7, <1>8, Frame

\* The rows are rolled back and their objects go on record; a file whose insert
\* failed stays in hand.
LEMMA StatementFailsInv == ASSUME IInv, NEW r \in Requests, StatementFails(r) PROVE IInv'
<1> DEFINE t == [NoTx EXCEPT !.poisoned = TRUE]
<1>1. /\ tx'[r] = t /\ \A q \in Requests \ {r} : req'[q] = req[q] /\ tx'[q] = tx[q]
      /\ UNCHANGED <<member, row, objects, doomed>> /\ leaked' = leaked \cup tx[r].ins
  BY DEF StatementFails, IInv, TypeOK
<1>2. t.ins = {} /\ t.del = {} /\ tx' \in [Requests -> Transaction]
      /\ tx[r].ins \subseteq Files
  BY IdleFields, Fields DEF StatementFails, IInv, TypeOK
<1> HIDE DEF t
<1>3. /\ req' \in [Requests -> Handler]
      /\ req'[r].plug = req[r].plug /\ req'[r].late = req[r].late
      /\ req'[r].file = req[r].file
      /\ \/ /\ req[r].pc = "check" /\ req'[r].pc = "check"
            /\ \E f \in req[r].todo : req'[r].todo = req[r].todo \ {f}
         \/ /\ req[r].pc = "insert" /\ req'[r].pc = "cleanup"
            /\ req'[r].todo = req[r].todo
  BY DEF StatementFails, Handler, PCs, IInv, TypeOK
<1>4. TypeOK'
  BY <1>1, <1>2, <1>3 DEF IInv, TypeOK
<1>5. SessionInv(r)
  BY DEF IInv
<1>6. Held(r)' \subseteq Held(r)
  BY <1>1, <1>2, <1>3 DEF Held, InFlight
<1>7. SessionInv(r)'
  <2>1. LateInv(r)'
    BY <1>1, <1>3, <1>5 DEF SessionInv, LateInv, InFlight
  <2>2. UploadInv(r)'
    BY <1>1, <1>2, <1>3, <1>5, <1>6 DEF SessionInv, UploadInv, InFlight
  <2>3. DeletionInv(r)'
    BY <1>1, <1>2, <1>3, <1>5 DEF SessionInv, DeletionInv, Deleting
  <2> QED
    BY <2>1, <2>2, <2>3 DEF SessionInv
<1>8. TablesInv'
  <2>1. \A g \in objects : g \in InHand(r) => g \in leaked' \/ g \in InHand(r)'
    BY <1>1, <1>3, <1>5 DEF InHand, SessionInv, UploadInv
  <2> QED
    BY <1>1, <1>4, <2>1, TablesFrame DEF TypeOK
<1>9. \A q \in Requests \ {r} : Held(r)' \cap Held(q) = {}
  BY <1>6 DEF IInv, Disjoint
<1> QED
  BY <1>1, <1>4, <1>7, <1>8, <1>9, Frame

\* The object of the failed file goes, or the file goes on record.
LEMMA CleanUpInv == ASSUME IInv, NEW r \in Requests, CleanUp(r) PROVE IInv'
<1> DEFINE f == req[r].file
<1>1. /\ req[r] \in Handler /\ req[r].pc = "cleanup" /\ f \in Files
      /\ f \in Held(r) /\ f \notin req[r].todo \cup tx[r].ins /\ row[f] = "none"
      /\ \A q \in Requests \ {r} : req'[q] = req[q]
      /\ UNCHANGED <<member, row, tx, doomed>> /\ SessionInv(r)
  BY DEF CleanUp, IInv, TypeOK, SessionInv, UploadInv, Held, InFlight
<1>2. \/ objects' = objects \ {f} /\ leaked' = leaked
      \/ objects' = objects /\ leaked' = leaked \cup {f}
  BY DEF CleanUp
<1>3. /\ req' \in [Requests -> Handler]
      /\ req'[r].plug = req[r].plug /\ req'[r].pc = "check"
      /\ req'[r].late = req[r].late
      /\ req'[r].todo = req[r].todo /\ req'[r].file = NoFile
  BY <1>1 DEF CleanUp, Handler, PCs, IInv, TypeOK
<1>4. TypeOK'
  BY <1>1, <1>2, <1>3 DEF IInv, TypeOK
<1>5. Held(r)' \subseteq Held(r)
  BY <1>1, <1>3 DEF Held, InFlight
<1>6. SessionInv(r)'
  <2>1. LateInv(r)'
    BY <1>1, <1>3 DEF SessionInv, LateInv, InFlight
  <2>2. UploadInv(r)'
    BY <1>1, <1>2, <1>3, <1>5 DEF SessionInv, UploadInv, InFlight
  <2>3. DeletionInv(r)'
    BY <1>1, <1>2, <1>3 DEF SessionInv, DeletionInv, Deleting, Gone
  <2> QED
    BY <2>1, <2>2, <2>3 DEF SessionInv
<1>7. TablesInv'
  <2>1. \A g \in objects' : g \in InHand(r) => g \in leaked' \/ g \in InHand(r)'
    BY <1>1, <1>2, <1>3 DEF InHand
  <2> QED
    BY <1>1, <1>2, <1>4, <2>1, TablesFrame DEF TypeOK
<1>8. \A q \in Requests \ {r} : Held(r)' \cap Held(q) = {}
  BY <1>5 DEF IInv, Disjoint
<1> QED
  BY <1>1, <1>2, <1>4, <1>6, <1>7, <1>8, Frame

\* A step that moves a handler to a later point of a deletion, or to the end.
LEMMA MoveInv ==
    ASSUME IInv, NEW r \in Requests, NEW pc \in {"softDelete", "closing"},
           req' = [req EXCEPT ![r].pc = pc], req[r].pc \notin InFlight,
           UNCHANGED <<member, row, objects, tx, doomed, leaked>>,
           pc = "softDelete" => req[r].pc = "getAgain",
           pc = "closing" => req[r].pc \in {"check", "softDelete"}
    PROVE  IInv'
<1>1. /\ req' \in [Requests -> Handler]
      /\ \A q \in Requests \ {r} : req'[q] = req[q]
      /\ req'[r].pc = pc /\ req'[r].plug = req[r].plug /\ req'[r].late = req[r].late
      /\ req'[r].todo = req[r].todo /\ req'[r].file = req[r].file
  BY DEF Handler, PCs, IInv, TypeOK
<1>2. TypeOK' /\ SessionInv(r)
  BY <1>1 DEF IInv, TypeOK
<1>3. Held(r)' = Held(r) /\ InHand(r)' = InHand(r)
  BY <1>1 DEF Held, InHand, InFlight
<1>4. SessionInv(r)'
  <2>1. LateInv(r)'
    BY <1>1, <1>2 DEF SessionInv, LateInv, InFlight
  <2>2. UploadInv(r)'
    BY <1>1, <1>2, <1>3 DEF SessionInv, UploadInv, InFlight
  <2>3. DeletionInv(r)'
    BY <1>1, <1>2 DEF SessionInv, UploadInv, DeletionInv, Deleting, Gone
  <2> QED
    BY <2>1, <2>2, <2>3 DEF SessionInv
<1>5. TablesInv'
  BY <1>1, <1>2, <1>3, TablesFrame DEF TypeOK
<1>6. \A q \in Requests \ {r} : Held(r)' \cap Held(q) = {}
  BY <1>3 DEF IInv, Disjoint
<1> QED
  BY <1>1, <1>2, <1>4, <1>5, <1>6, Frame

\* The answer of an upload: 400 and a rollback, or the session's end.
LEMMA AnswerUploadInv == ASSUME IInv, NEW r \in Requests, AnswerUpload(r) PROVE IInv'
BY AbandonInv, MoveInv DEF AnswerUpload, InFlight

\* The row is got again: 404 and a rollback, or on to the mark.
LEMMA GetAgainInv == ASSUME IInv, NEW r \in Requests, GetAgain(r) PROVE IInv'
BY AbandonInv, MoveInv DEF GetAgain, InFlight

\* A deletion starts with a live row.
LEMMA DeletePlugMediaInv == ASSUME IInv, NEW r \in Requests, DeletePlugMedia(r) PROVE IInv'
<1>1. PICK f \in Files : /\ row[f] = "live"
                         /\ req' = [req EXCEPT ![r] = [Idle EXCEPT !.pc = "remove", !.file = f]]
  BY DEF DeletePlugMedia
<1> DEFINE h == [Idle EXCEPT !.pc = "remove", !.file = f]
<1>2. /\ h \in Handler /\ h.pc = "remove" /\ h.file = f /\ h.late = {} /\ h.todo = {}
  BY DEF Idle, Handler, PCs
<1>3. /\ req'[r] = h /\ req' \in [Requests -> Handler]
      /\ \A q \in Requests \ {r} : req'[q] = req[q]
      /\ UNCHANGED <<member, row, objects, tx, doomed, leaked>>
  BY <1>1, <1>2 DEF DeletePlugMedia, IInv, TypeOK
<1> HIDE DEF h
<1>4. TypeOK'
  BY <1>3 DEF IInv, TypeOK
<1>5. req[r].pc = "idle" /\ SessionInv(r)
  BY DEF DeletePlugMedia, Open, IInv
<1>6. Held(r)' \subseteq Held(r)
  BY <1>2, <1>3 DEF Held, InFlight
<1>7. SessionInv(r)'
  <2>1. LateInv(r)' /\ UploadInv(r)'
    BY <1>2, <1>3, <1>5, <1>6 DEF SessionInv, LateInv, UploadInv, InFlight
  <2>2. DeletionInv(r)'
    BY <1>1, <1>2, <1>3, <1>5 DEF SessionInv, DeletionInv, Deleting, Gone
  <2> QED
    BY <2>1, <2>2 DEF SessionInv
<1>8. TablesInv'
  <2>1. \A g \in objects : g \in InHand(r) => g \in InHand(r)'
    BY <1>3, <1>5, NoIdAssumption DEF InHand, SessionInv, UploadInv, IInv, TypeOK
  <2> QED
    BY <1>3, <1>4, <2>1, TablesFrame DEF TypeOK
<1>9. \A q \in Requests \ {r} : Held(r)' \cap Held(q) = {}
  BY <1>6 DEF IInv, Disjoint
<1> QED
  BY <1>3, <1>4, <1>7, <1>8, <1>9, Frame

\* The object of a row goes, or the file goes on record; either way S3 was asked.
LEMMA RemoveObjectInv == ASSUME IInv, NEW r \in Requests, RemoveObject(r) PROVE IInv'
<1> DEFINE f == req[r].file
<1>1. /\ req[r].pc = "remove" /\ f \in Files /\ row[f] # "none" /\ SessionInv(r)
      /\ \A q \in Requests \ {r} : req'[q] = req[q]
      /\ UNCHANGED <<member, row, tx>> /\ doomed' = doomed \cup {f}
  BY DEF RemoveObject, IInv, TypeOK, SessionInv, DeletionInv, Deleting
<1>2. \/ objects' = objects \ {f} /\ leaked' = leaked
      \/ objects' = objects /\ leaked' = leaked \cup {f}
  BY DEF RemoveObject
<1>3. /\ req' \in [Requests -> Handler]
      /\ req'[r].plug = req[r].plug /\ req'[r].pc = "getAgain"
      /\ req'[r].late = req[r].late
      /\ req'[r].todo = req[r].todo /\ req'[r].file = f
  BY <1>1 DEF RemoveObject, Handler, PCs, IInv, TypeOK
<1>4. TypeOK'
  BY <1>1, <1>2, <1>3 DEF IInv, TypeOK
<1>5. Held(r)' = Held(r) /\ f \notin Held(r) /\ InHand(r)' = InHand(r)
  BY <1>1, <1>3 DEF Held, InHand, InFlight, SessionInv, UploadInv
<1>6. SessionInv(r)'
  <2>1. LateInv(r)'
    BY <1>1, <1>3 DEF SessionInv, LateInv, InFlight
  <2>2. UploadInv(r)'
    BY <1>1, <1>2, <1>3, <1>5 DEF SessionInv, UploadInv, InFlight, Held
  <2>3. DeletionInv(r)'
    BY <1>1, <1>2, <1>3 DEF SessionInv, DeletionInv, Deleting, Gone
  <2> QED
    BY <2>1, <2>2, <2>3 DEF SessionInv
<1>7. TablesInv'
  BY <1>1, <1>2, <1>4, <1>5, TablesFrame DEF TypeOK
<1>8. \A q \in Requests \ {r} : Held(r)' \cap Held(q) = {}
  BY <1>5 DEF IInv, Disjoint
<1> QED
  BY <1>1, <1>2, <1>4, <1>6, <1>7, <1>8, Frame

\* The row is marked in the session; its object has been dealt with.
LEMMA SoftDeleteInv == ASSUME IInv, NEW r \in Requests, SoftDelete(r) PROVE IInv'
<1> DEFINE f == req[r].file
<1>1. /\ req[r].pc = "softDelete" /\ f \in Files /\ row[f] # "none" /\ f \in Gone
      /\ \A q \in Requests \ {r} : req'[q] = req[q] /\ tx'[q] = tx[q]
      /\ UNCHANGED <<member, row, objects, doomed, leaked>> /\ SessionInv(r)
  BY DEF SoftDelete, IInv, TypeOK, SessionInv, DeletionInv, Deleting
<1>2. /\ req' \in [Requests -> Handler]
      /\ req'[r].plug = req[r].plug /\ req'[r].pc = "closing"
      /\ req'[r].late = req[r].late
      /\ req'[r].todo = req[r].todo /\ req'[r].file = f
  BY <1>1 DEF SoftDelete, Handler, PCs, IInv, TypeOK
<1>3. tx' \in [Requests -> Transaction] /\ tx'[r].ins = tx[r].ins /\ tx'[r].del = {f}
  BY <1>1 DEF SoftDelete, Transaction, IInv, TypeOK
<1>4. TypeOK'
  BY <1>1, <1>2, <1>3 DEF IInv, TypeOK
<1>5. Held(r)' = Held(r) /\ InHand(r)' = InHand(r)
  BY <1>1, <1>2, <1>3 DEF Held, InHand, InFlight
<1>6. SessionInv(r)'
  <2>1. LateInv(r)'
    BY <1>1, <1>2 DEF SessionInv, LateInv, InFlight
  <2>2. UploadInv(r)'
    BY <1>1, <1>2, <1>3, <1>5 DEF SessionInv, UploadInv, InFlight
  <2>3. DeletionInv(r)'
    BY <1>1, <1>2, <1>3 DEF SessionInv, DeletionInv, Deleting, Gone
  <2> QED
    BY <2>1, <2>2, <2>3 DEF SessionInv
<1>7. TablesInv'
  BY <1>1, <1>4, <1>5, TablesFrame DEF TypeOK
<1>8. \A q \in Requests \ {r} : Held(r)' \cap Held(q) = {}
  BY <1>5 DEF IInv, Disjoint
<1> QED
  BY <1>1, <1>4, <1>6, <1>7, <1>8, Frame

\* A commit makes the inserted rows live and marks the deleted one.
LEMMA CloseSessionInv == ASSUME IInv, NEW r \in Requests, CloseSession(r) PROVE IInv'
<1>1. /\ req'[r] = Idle /\ tx'[r] = NoTx
      /\ \A q \in Requests \ {r} : req'[q] = req[q] /\ tx'[q] = tx[q]
      /\ UNCHANGED <<member, objects, doomed, leaked>>
      /\ req[r].pc = "closing" /\ SessionInv(r)
      /\ tx[r].ins \subseteq Files /\ tx[r].del \subseteq Files
  BY Fields DEF CloseSession, IInv, TypeOK
<1>2. \A f \in Files : row'[f] = IF f \in tx[r].del THEN "deleted"
                                 ELSE IF f \in tx[r].ins THEN "live" ELSE row[f]
  BY DEF CloseSession
<1>3. TypeOK'
  BY <1>1, IdleFields DEF CloseSession, IInv, TypeOK
<1>4. SessionInv(r)' /\ Held(r)' = {}
  BY <1>1, IdleInv
<1>5. /\ \A f \in tx[r].ins : f \in Held(r) /\ row[f] = "none" /\ f \in objects
      /\ \A f \in tx[r].del : f \in Gone /\ row[f] # "none"
  BY <1>1 DEF SessionInv, UploadInv, DeletionInv, Held
<1>6. \A f \in Files \ Held(r) : \/ row'[f] = row[f]
                                 \/ row[f] # "none" /\ row'[f] # "none"
  BY <1>2, <1>5
<1>7. TablesInv'
  <2>1. /\ \A f \in Files : row[f] = "deleted" => f \in Gone
        /\ \A f \in Files : row[f] = "live" /\ f \notin objects => f \in doomed
        /\ OrphansAreAccounted /\ objects \subseteq Files
    BY DEF IInv, TablesInv, TypeOK
  <2>2. \A f \in Files : row'[f] = "deleted" => f \in Gone'
    BY <1>1, <1>2, <1>5, <2>1 DEF Gone
  <2>3. \A f \in Files : row'[f] = "live" /\ f \notin objects' => f \in doomed'
    BY <1>1, <1>2, <1>5, <2>1
  <2>4. ASSUME NEW f \in objects, row'[f] # "live"
        PROVE  f \in leaked \/ \E q \in Requests \ {r} : f \in InHand(q)
    <3>1. CASE f \in tx[r].del
      BY <1>5, <3>1 DEF Gone
    <3>2. CASE f \notin tx[r].del
      <4>1. f \in Files /\ f # NoFile /\ row[f] # "live" /\ f \notin tx[r].ins
        BY <1>2, <2>1, <2>4, <3>2, NoIdAssumption
      <4>2. f \in InHand(r) => f \in leaked
        BY <1>1, <4>1 DEF InHand, SessionInv, UploadInv, DeletionInv, Gone
      <4> QED
        BY <2>1, <4>1, <4>2 DEF OrphansAreAccounted
    <3> QED
      BY <3>1, <3>2
  <2>5. OrphansAreAccounted'
    BY <1>1, <2>4 DEF OrphansAreAccounted, InHand
  <2> QED
    BY <2>2, <2>3, <2>5 DEF TablesInv
<1> QED
  BY <1>1, <1>3, <1>4, <1>6, <1>7, Frame

\* Every step keeps the invariant.
LEMMA NextInv == IInv /\ [Next]_vars => IInv'
<1> SUFFICES ASSUME IInv, [Next]_vars PROVE IInv'
  OBVIOUS
<1>1. ASSUME NEW r \in Requests, Serve(r) PROVE IInv'
  BY <1>1, CheckFileInv, PutObjectInv, InsertRowInv, StatementFailsInv, CleanUpInv,
     AnswerUploadInv, RemoveObjectInv, GetAgainInv, SoftDeleteInv, CloseSessionInv,
     AbandonInv DEF Serve, SessionFails
<1>2. ASSUME NEW r \in Requests, UploadMultiple(r) \/ DeletePlugMedia(r) \/ Crash(r)
      PROVE  IInv'
  BY <1>2, UploadMultipleInv, DeletePlugMediaInv, AbandonInv DEF Crash
<1>3. CASE UNCHANGED vars
  <2>1. UNCHANGED <<member, row, objects, req, tx, doomed, leaked>>
    BY <1>3 DEF vars, mediaVars
  <2>2. TypeOK' /\ Disjoint' /\ TablesInv'
    BY <2>1 DEF IInv, TypeOK, Disjoint, Held, TablesInv, OrphansAreAccounted, Gone, InHand
  <2>3. \A r \in Requests : SessionInv(r)'
    <3> SUFFICES ASSUME NEW r \in Requests PROVE SessionInv(r)'
      OBVIOUS
    <3>1. SessionInv(r)
      BY DEF IInv
    <3>2. LateInv(r)' /\ DeletionInv(r)'
      BY <2>1, <3>1 DEF SessionInv, LateInv, DeletionInv, Gone
    <3>3. UploadInv(r)'
      BY <2>1, <3>1 DEF SessionInv, UploadInv, Held
    <3> QED
      BY <3>2, <3>3 DEF SessionInv
  <2> QED
    BY <2>2, <2>3 DEF IInv
<1> QED
  BY <1>1, <1>2, <1>3, MembersInv DEF Next

\* The inductive invariant holds in every state.
THEOREM Invariance == Spec => []IInv
BY InitInv, NextInv, PTL DEF Spec

-----------------------------------------------------------------------------
(* The properties. *)

\* Each request gets at most one file in after the plug has left the event.
THEOREM AtMostOneLate == Spec => []OneLateFile
<1>1. IInv => OneLateFile
  <2> SUFFICES ASSUME IInv, NEW r \in Requests PROVE Cardinality(req[r].late) <= 1
    BY DEF OneLateFile
  <2>1. req[r].late = {} \/ \E f \in Files : req[r].late = {f}
    BY DEF IInv, SessionInv, LateInv
  <2>2. CASE req[r].late = {}
    <3>1. Cardinality(req[r].late) = 0
      BY <2>2, FS_EmptySet
    <3> QED
      BY <3>1
  <2>3. ASSUME NEW f \in Files, req[r].late = {f} PROVE Cardinality(req[r].late) <= 1
    <3>1. Cardinality({f}) = 1
      BY FS_Singleton
    <3> QED
      BY <2>3, <3>1
  <2> QED
    BY <2>1, <2>2, <2>3
<1> QED
  BY <1>1, Invariance, PTL

\* An object without a live row is in hand or on record.
THEOREM ObjectsAreAccounted == Spec => []OrphansAreAccounted
<1>1. IInv => OrphansAreAccounted
  BY DEF IInv, TablesInv
<1> QED
  BY <1>1, Invariance, PTL

\* The types, and a live row has its object until somebody deletes it.
THEOREM RowsHaveObjects == Spec => []RowHasObject
<1>1. IInv => RowHasObject
  BY DEF IInv, TablesInv, RowHasObject
<1> QED
  BY <1>1, Invariance, PTL

=============================================================================
