--------------------------- MODULE Contacts_proofs ---------------------------
(***************************************************************************)
(* What requests about one user's plugs, and a client that reads the list  *)
(* or the dashboard meanwhile, may never do to each other, for every       *)
(* number of sessions, plugs, emails and pictures, every choice of mixes   *)
(* and every set of faults.                                                *)
(***************************************************************************)
EXTENDS Contacts, FiniteSetTheorems, TLAPS

-----------------------------------------------------------------------------
(* The invariant. *)

RowOps == {"create", "update", "convert", "delete", "upload", "unpicture"}
Running == {"page", "count", "leads", "contacts", "recent"}

\* What a handler is about.  Its row is not there yet if it creates it, and
\* there if it does not; and the email it is going to write is that of no plug
\* it could have found.
HandlerInv(h) ==
    /\ h.pc = "idle" => h = Idle
    /\ h.pc # "idle" => h.op \in RowOps /\ h.id \in Plugs
    /\ h.op = "create" => plug[h.id].state = "none" /\ h.loaded = NoRow
    /\ h.op \in RowOps \ {"create"} => plug[h.id].state # "none"
    /\ h.pc = "check" => h.op \in {"create", "update"}
    /\ h.pc = "clean" => h.op \in Pictures /\ h.loaded.picture # NoFile
    /\ h.pc = "put" => h.op = "upload"
    /\ h.op \in {"create", "update"} /\ h.pc # "check"
       /\ h.email \notin {NoEmail, h.loaded.email}
        => h.itself \/ Holders(h.email) \ {h.id} \subseteq h.since

\* A handler that has stored its picture, and one that alone knows of it.
Stored(h) == h.op = "upload" /\ h.pc \in {"get", "write", "closing"}
Own(h) == Stored(h) /\ h.file \notin named

\* The picture a handler gives to its plug: it has stored it under a new key, or
\* has it from the row or from a body.
FileInv(h) ==
    /\ Stored(h) => h.file \in Files \ {h.loaded.picture}
    /\ Own(h) => h.file \in objects
    /\ ~Stored(h) => h.file \in {NoFile, h.loaded.picture} \cup named
    /\ h.op = "unpicture" => h.file = NoFile

\* The row lock: what a session has flushed is computed from the committed row
\* as it still is.
TxInv(r) ==
    tx[r].id # NoPlug =>
        /\ req[r].pc = "closing" /\ tx[r].id = req[r].id
        /\ tx[r].row = Merge(req[r], plug[req[r].id])

\* One session at most holds the lock of a row, or is about a plug that is
\* being created.
AloneInv ==
    \A r, q \in Requests : r # q =>
        /\ tx[r].id # NoPlug => tx[q].id # tx[r].id
        /\ req[r].op = "create" => req[q].id # req[r].id

\* The plugs that know a picture: by their row or by a handler at work on them.
Knows(f) == {p \in Plugs :
    \/ plug[p].picture = f
    \/ \E r \in Requests : req[r].id = p /\ f \in {req[r].file, req[r].loaded.picture}}

\* A picture that no body has named is one plug's, and only its handler's until
\* that has committed.
PictureInv ==
    /\ \A f \in Files \ named : \A p, q \in Knows(f) : p = q
    /\ \A r \in Requests : Own(req[r]) =>
        /\ \A p \in Plugs : plug[p].picture # req[r].file
        /\ \A q \in Requests : req[q].loaded.picture # req[r].file
        /\ \A q \in Requests \ {r} : req[q].file # req[r].file

MissingInv ==
    \A p \in Live : plug[p].picture \in Files \ objects =>
        \/ plug[p].picture \in mourned \cup named
        \/ \E r \in Requests : req[r].id = p /\ HasDeleted(r)
                              /\ req[r].loaded.picture = plug[p].picture

\* Ids without a row have an empty one, finitely many have a live one, and no
\* plug is older than itself.
RowsInv ==
    /\ \A p \in Plugs : plug[p].state = "none" => plug[p] = NoRow
    /\ IsFiniteSet(Live)
    /\ \A p \in Plugs : p \notin older[p]

-----------------------------------------------------------------------------
(* What the client has seen, as long as nothing has come or gone that would *)
(* excuse it.                                                               *)

Excused == \/ "deleted" \in view.churn
           \/ view.mode = "search" /\ "created" \in view.churn

\* The pages that are behind the client.
Passed == IF view.mode = "list" /\ view.pc = "count" THEN view.skip + 1 ELSE view.skip

PagesInv ==
    /\ view.pc \in {"page", "count"} =>
        /\ view.mode \in {"list", "search"}
        /\ ~Excused =>
            /\ \A p \in view.goal :
                \/ p \in view.seen \cup view.page
                \/ Cardinality(Younger(p)) >= Passed
            /\ view.mode = "search" /\ view.pc = "page" => view.total = Cardinality(Live)
        /\ ~ (view.mode = "list" /\ view.pc = "count") => view.page = {}
    /\ view.pc = "done" /\ view.mode # "dashboard" =>
        Excused \/ view.goal \cap Live \subseteq view.seen

CountsInv ==
    /\ view.pc \in {"leads", "contacts", "recent"} => view.mode = "dashboard"
    /\ view.pc \in {"leads", "contacts"} => view.twice = {}
    /\ view.pc = "leads" => view.seen = {}
    /\ view.pc = "contacts" =>
        /\ \A p \in view.goal \cap Live : p \in view.seen \/ plug[p].kind = "contact"
        /\ \A p \in view.seen \cap Live : plug[p].kind = "target" \/ "converted" \in view.churn
    /\ view.pc \in {"recent", "done"} /\ view.mode = "dashboard" =>
        /\ view.goal \cap Live \subseteq view.seen
        /\ view.twice # {} => "converted" \in view.churn
    /\ view.pc = "recent" => Live \subseteq view.seen \/ "created" \in view.churn
    /\ view.pc = "done" /\ view.mode = "dashboard" =>
        view.page \subseteq view.seen \/ "created" \in view.churn

ViewInv ==
    /\ view.pc # "off" => \A p \in view.goal : plug[p].state # "none"
    /\ view.pc \in Running =>
        /\ \A p \in view.seen \cup view.page : plug[p].state # "none"
        /\ view.goal \subseteq Live \/ "deleted" \in view.churn
        /\ Live \subseteq view.goal \/ "created" \in view.churn
    /\ PagesInv
    /\ CountsInv

IInv ==
    /\ TypeOK
    /\ \A r \in Requests : HandlerInv(req[r]) /\ FileInv(req[r]) /\ TxInv(r)
    /\ AloneInv
    /\ PictureInv
    /\ MissingInv
    /\ RowsInv
    /\ ViewInv

-----------------------------------------------------------------------------
(* Types, and what a write computes. *)

\* The fields of a row.
LEMMA RowFields ==
    ASSUME NEW w \in Row
    PROVE  /\ w.state \in {"none", "live", "deleted"} /\ w.kind \in {"target", "contact"}
           /\ w.email \in Emails \cup {NoEmail} /\ w.picture \in Files \cup {NoFile}
BY DEF Row

\* The fields of a handler.
LEMMA HandlerFields ==
    ASSUME NEW h \in Handler
    PROVE  /\ h.pc \in PCs /\ h.op \in Ops /\ h.id \in Plugs \cup {NoPlug}
           /\ h.kind \in {"target", "contact"} /\ h.email \in Emails \cup {NoEmail}
           /\ h.file \in Files \cup {NoFile} /\ h.loaded \in Row
           /\ h.loaded.picture \in Files \cup {NoFile}
           /\ h.since \subseteq Plugs /\ h.itself \in BOOLEAN
BY RowFields DEF Handler

\* The records of the initial state.
LEMMA InitialRecords ==
    /\ NoRow \in Row /\ NoRow.state = "none" /\ NoRow.email = NoEmail /\ NoRow.picture = NoFile
    /\ Idle \in Handler /\ Idle.pc = "idle" /\ Idle.op = "none" /\ Idle.id = NoPlug
    /\ Idle.kind = "target" /\ Idle.email = NoEmail /\ Idle.file = NoFile
    /\ Idle.loaded = NoRow /\ Idle.since = {} /\ Idle.itself = FALSE
    /\ NoTx \in Transaction /\ NoTx.id = NoPlug
<1>1. NoRow \in Row /\ NoRow.state = "none" /\ NoRow.email = NoEmail /\ NoRow.picture = NoFile
  BY DEF NoRow, Row
<1>2. Idle \in Handler
  BY <1>1 DEF Idle, Handler, PCs, Ops
<1>3. NoTx \in Transaction /\ NoTx.id = NoPlug
  BY <1>1 DEF NoTx, Transaction
<1> QED
  BY <1>1, <1>2, <1>3 DEF Idle

\* The row a handler leaves behind.
LEMMA MergeFields ==
    ASSUME NEW h \in Handler, NEW w \in Row
    PROVE  /\ Merge(h, w) \in Row
           /\ h.op = "create" => Merge(h, w).state = "live"
           /\ h.op # "create" => Merge(h, w).state \in {w.state, "deleted"}
           /\ h.op = "delete" => Merge(h, w).state = "deleted"
           /\ h.op \notin {"create", "delete"} => Merge(h, w).state = w.state
           /\ h.op \notin {"create", "convert"} => Merge(h, w).kind = w.kind
           /\ h.op = "convert" => Merge(h, w).kind = "contact"
           /\ Merge(h, w).email # w.email =>
                Merge(h, w).email = h.email /\ h.email \notin {NoEmail, h.loaded.email}
           /\ Merge(h, w).picture = IF h.file # h.loaded.picture THEN h.file ELSE w.picture
<1>1. /\ h.kind \in {"target", "contact"} /\ h.email \in Emails \cup {NoEmail}
      /\ h.file \in Files \cup {NoFile}
      /\ w.state \in {"none", "live", "deleted"} /\ w.kind \in {"target", "contact"}
      /\ w.email \in Emails \cup {NoEmail} /\ w.picture \in Files \cup {NoFile}
  BY HandlerFields, RowFields
<1>2. /\ h.op = "create" => Merge(h, w).state = "live"
      /\ h.op = "delete" => Merge(h, w).state = "deleted"
      /\ h.op \notin {"create", "delete"} => Merge(h, w).state = w.state
  BY DEF Merge
<1>3. /\ h.op = "create" => Merge(h, w).kind = h.kind
      /\ h.op = "convert" => Merge(h, w).kind = "contact"
      /\ h.op \notin {"create", "convert"} => Merge(h, w).kind = w.kind
  BY DEF Merge
<1>4. Merge(h, w).email = IF h.email # NoEmail /\ h.email # h.loaded.email
                          THEN h.email ELSE w.email
  BY DEF Merge
<1>5. Merge(h, w).picture = IF h.file # h.loaded.picture THEN h.file ELSE w.picture
  BY DEF Merge
<1> DEFINE m == Merge(h, w)
<1>6. /\ m.state \in {"none", "live", "deleted"} /\ m.kind \in {"target", "contact"}
      /\ m.email \in Emails \cup {NoEmail} /\ m.picture \in Files \cup {NoFile}
  BY <1>1, <1>2, <1>3, <1>4, <1>5
<1>7. m = [state |-> m.state, kind |-> m.kind, email |-> m.email, picture |-> m.picture]
  BY DEF Merge
<1>8. m \in Row
  <2> HIDE DEF m
  <2> QED
    BY <1>6, <1>7 DEF Row
<1> QED
  BY <1>1, <1>2, <1>3, <1>4, <1>5, <1>8

\* What is computed does not depend on what else a request has noticed.
LEMMA MergeSame ==
    ASSUME NEW g, NEW h, NEW w, h.op = g.op, h.kind = g.kind, h.email = g.email,
           h.file = g.file, h.loaded = g.loaded
    PROVE  Merge(h, w) = Merge(g, w)
BY DEF Merge

-----------------------------------------------------------------------------
(* Steps that leave the committed rows and the client alone. *)

\* The initial state satisfies the invariant.
LEMMA InitInv == Init => IInv
<1> SUFFICES ASSUME Init PROVE IInv
  OBVIOUS
<1>1. NoView \in View /\ NoView.pc = "off"
  BY DEF NoView, View
<1>2. TypeOK
  BY <1>1, InitialRecords DEF Init, TypeOK
<1>3. \A r \in Requests : HandlerInv(req[r]) /\ FileInv(req[r]) /\ TxInv(r)
  BY InitialRecords DEF Init, HandlerInv, FileInv, Stored, Own, TxInv, RowOps
<1>4. AloneInv
  BY InitialRecords DEF Init, AloneInv
<1>5. PictureInv /\ MissingInv
  BY InitialRecords, IdAssumption DEF Init, PictureInv, MissingInv, Knows, Live, Own, Stored
<1>6. RowsInv
  <2>1. Live = {}
    BY InitialRecords DEF Init, Live
  <2> QED
    BY <2>1, InitialRecords, FS_EmptySet DEF Init, RowsInv
<1>7. ViewInv
  BY <1>1 DEF Init, ViewInv, PagesInv, CountsInv, Running
<1> QED
  BY <1>2, <1>3, <1>4, <1>5, <1>6, <1>7 DEF IInv

\* The client's view holds good as long as the rows and their order stay.
LEMMA ViewKept ==
    ASSUME IInv, UNCHANGED <<plug, view>>,
           \A p, q \in Live : p \in older'[q] <=> p \in older[q]
    PROVE  ViewInv'
<1>1. Live' = Live
  BY DEF Live
<1>2. \A p \in Live : Younger(p)' = Younger(p)
  BY <1>1 DEF Younger
<1>3. ViewInv /\ Excused' = Excused /\ Passed' = Passed
  BY DEF IInv, Excused, Passed
<1>4. PagesInv'
  <2>1. view.pc \in {"page", "count"} /\ ~Excused => view.goal \subseteq Live
    BY <1>3 DEF ViewInv, Excused, Running
  <2> QED
    BY <1>1, <1>2, <1>3, <2>1 DEF ViewInv, PagesInv
<1>5. CountsInv'
  BY <1>1, <1>3 DEF ViewInv, CountsInv
<1> QED
  BY <1>1, <1>3, <1>4, <1>5 DEF ViewInv

\* A step of one session that leaves the rows alone.
LEMMA HandlerStep ==
    ASSUME IInv, NEW r \in Requests, NEW h \in Handler, NEW t \in Transaction,
           req' = [req EXCEPT ![r] = h], tx' = [tx EXCEPT ![r] = t],
           UNCHANGED <<plug, view, mix>>,
           objects' \subseteq Files, mourned' \subseteq Files,
           named \subseteq named', named' \subseteq Files,
           older' \in [Plugs -> SUBSET Plugs], \A p \in Plugs : p \notin older'[p],
           \A p, q \in Live : p \in older'[q] <=> p \in older[q],
           HandlerInv(h)', FileInv(h)',
           \A q \in Requests \ {r} : Own(req[q]) => req[q].file \in objects',
           t.id # NoPlug =>
            /\ h.pc = "closing" /\ t.id = h.id /\ t.row = Merge(h, plug[h.id])
            /\ \A q \in Requests \ {r} : tx[q].id # t.id,
           \A q \in Requests \ {r} :
            /\ h.op = "create" => req[q].id # h.id
            /\ req[q].op = "create" => h.id # req[q].id,
           PictureInv', MissingInv'
    PROVE  IInv'
<1>1. /\ req'[r] = h /\ \A q \in Requests \ {r} : req'[q] = req[q]
      /\ tx'[r] = t /\ \A q \in Requests \ {r} : tx'[q] = tx[q]
      /\ req' \in [Requests -> Handler] /\ tx' \in [Requests -> Transaction]
  BY DEF IInv, TypeOK
<1>2. TypeOK'
  BY <1>1 DEF IInv, TypeOK
<1>3. ASSUME NEW q \in Requests PROVE HandlerInv(req[q])' /\ FileInv(req[q])' /\ TxInv(q)'
  <2>1. CASE q = r
    BY <1>1, <2>1 DEF TxInv
  <2>2. CASE q # r
    <3>1. HandlerInv(req[q]) /\ FileInv(req[q]) /\ TxInv(q)
      BY DEF IInv
    <3>2. HandlerInv(req[q])' /\ TxInv(q)'
      BY <1>1, <2>2, <3>1 DEF HandlerInv, TxInv, Holders, Live
    <3>3. FileInv(req[q])'
      BY <1>1, <2>2, <3>1 DEF FileInv, Own, Stored
    <3> QED
      BY <3>2, <3>3
  <2> QED
    BY <2>1, <2>2
<1>4. AloneInv'
  BY <1>1 DEF IInv, AloneInv
<1>5. RowsInv'
  BY DEF IInv, RowsInv, Live
<1>6. ViewInv'
  BY ViewKept
<1> QED
  BY <1>2, <1>3, <1>4, <1>5, <1>6 DEF IInv

\* A handler that gets to know no picture but its plug's and the named ones.
LEMMA PicturesKept ==
    ASSUME IInv, NEW r \in Requests, NEW h \in Handler,
           req' = [req EXCEPT ![r] = h], UNCHANGED plug, named \subseteq named',
           \A f \in ({h.file, h.loaded.picture} \cap Files) \ named' : h.id \in Knows(f),
           Own(h)' => Own(req[r]) /\ h.file = req[r].file,
           \A q \in Requests : Own(req[q]) => h.loaded.picture # req[q].file,
           \A q \in Requests \ {r} :
            Own(req[q]) /\ req[q].file \notin named' => h.file # req[q].file
    PROVE  PictureInv'
<1>1. req'[r] = h /\ \A q \in Requests \ {r} : req'[q] = req[q]
  BY DEF IInv, TypeOK
<1>2. \A f \in Files \ named' : Knows(f)' \subseteq Knows(f)
  BY <1>1 DEF Knows
<1>3. \A f \in Files \ named' : \A p, q \in Knows(f)' : p = q
  BY <1>2 DEF IInv, PictureInv
<1>4. ASSUME NEW q \in Requests, Own(req[q])'
      PROVE  /\ \A p \in Plugs : plug'[p].picture # req'[q].file
             /\ \A g \in Requests : req'[g].loaded.picture # req'[q].file
             /\ \A g \in Requests \ {q} : req'[g].file # req'[q].file
  <2>1. Own(req[q]) /\ req'[q].file = req[q].file /\ req[q].file \notin named'
    <3>1. CASE q = r
      BY <1>1, <1>4, <3>1 DEF Own
    <3>2. CASE q # r
      BY <1>1, <1>4, <3>2 DEF Own, Stored
    <3> QED
      BY <3>1, <3>2
  <2>2. /\ \A p \in Plugs : plug[p].picture # req[q].file
        /\ \A g \in Requests : req[g].loaded.picture # req[q].file
        /\ \A g \in Requests \ {q} : req[g].file # req[q].file
    BY <2>1 DEF IInv, PictureInv
  <2> QED
    BY <1>1, <2>1, <2>2
<1> QED
  BY <1>3, <1>4 DEF PictureInv

\* A handler that stays responsible for what it has deleted, or mourns it.
LEMMA MissingKept ==
    ASSUME IInv, NEW r \in Requests, NEW h \in Handler,
           req' = [req EXCEPT ![r] = h], UNCHANGED plug, named \subseteq named',
           \A p \in Plugs : plug[p].picture \in mourned => plug[p].picture \in mourned',
           \A p \in Plugs : plug[p].picture \in objects =>
            \/ plug[p].picture \in objects' \cup named
            \/ HasDeleted(r)' /\ h.id = p /\ h.loaded.picture = plug[p].picture,
           HasDeleted(r) =>
            \/ HasDeleted(r)' /\ h.id = req[r].id /\ h.loaded = req[r].loaded
            \/ req[r].loaded.picture \in mourned'
    PROVE  MissingInv'
<1>1. req'[r] = h /\ \A q \in Requests \ {r} : req'[q] = req[q]
  BY DEF IInv, TypeOK
<1>2. \A q \in Requests \ {r} : HasDeleted(q)' <=> HasDeleted(q)
  BY <1>1 DEF HasDeleted
<1>3. Live' = Live /\ Live \subseteq Plugs
  BY DEF Live
<1> SUFFICES ASSUME NEW p \in Live, plug[p].picture \in Files \ objects'
             PROVE  \/ plug[p].picture \in mourned' \cup named'
                    \/ \E q \in Requests : req'[q].id = p /\ HasDeleted(q)'
                                          /\ req'[q].loaded.picture = plug[p].picture
  BY <1>3 DEF MissingInv
<1>4. CASE plug[p].picture \in objects
  BY <1>1, <1>3, <1>4
<1>5. CASE plug[p].picture \notin objects
  <2>1. \/ plug[p].picture \in mourned \cup named
        \/ \E q \in Requests : req[q].id = p /\ HasDeleted(q)
                              /\ req[q].loaded.picture = plug[p].picture
    BY <1>5 DEF IInv, MissingInv
  <2>2. ASSUME NEW q \in Requests, req[q].id = p, HasDeleted(q),
               req[q].loaded.picture = plug[p].picture
        PROVE  \/ plug[p].picture \in mourned'
               \/ \E g \in Requests : req'[g].id = p /\ HasDeleted(g)'
                                     /\ req'[g].loaded.picture = plug[p].picture
    BY <1>1, <1>2, <2>2
  <2> QED
    BY <1>3, <2>1, <2>2
<1> QED
  BY <1>4, <1>5

\* A session is closed without a commit; what its handler had deleted is mourned.
LEMMA AbandonInv ==
    ASSUME IInv, NEW r \in Requests, Abandon(r),
           objects \subseteq objects', objects' \subseteq Files
    PROVE  IInv'
<1>1. /\ req[r] \in Handler /\ HandlerInv(req[r])
      /\ req' = [req EXCEPT ![r] = Idle] /\ tx' = [tx EXCEPT ![r] = NoTx]
      /\ FileInv(req[r]) /\ UNCHANGED <<plug, view, named, mix>>
  BY DEF IInv, TypeOK, Abandon
<1>2. /\ mourned' \subseteq Files /\ mourned \subseteq mourned'
      /\ HasDeleted(r) => req[r].loaded.picture \in mourned'
  BY <1>1, HandlerFields DEF Abandon, HasDeleted, IInv, TypeOK
<1>3. /\ older' \in [Plugs -> SUBSET Plugs] /\ \A p \in Plugs : p \notin older'[p]
      /\ \A p, q \in Live : p \in older'[q] <=> p \in older[q]
  <2>1. older \in [Plugs -> SUBSET Plugs] /\ \A p \in Plugs : p \notin older[p]
    BY DEF IInv, TypeOK, RowsInv
  <2>2. CASE req[r].op = "create"
    <3>1. req[r].id \in Plugs \ Live
      BY <1>1, <2>2, InitialRecords DEF HandlerInv, Live
    <3>2. older' = [[p \in Plugs |-> older[p] \ {req[r].id}] EXCEPT ![req[r].id] = {}]
      BY <2>2 DEF Abandon
    <3>3. \A p \in Live : older'[p] = older[p] \ {req[r].id}
      BY <3>1, <3>2 DEF Live
    <3> QED
      BY <2>1, <3>1, <3>2, <3>3
  <2>3. CASE req[r].op # "create"
    BY <2>1, <2>3 DEF Abandon
  <2> QED
    BY <2>2, <2>3
<1>4. HandlerInv(Idle)' /\ FileInv(Idle)' /\ ~Own(Idle)'
  BY InitialRecords DEF HandlerInv, FileInv, Own, Stored, RowOps
<1>5. \A q \in Requests \ {r} :
        /\ Own(req[q]) => req[q].file \in objects'
        /\ Idle.op = "create" => req[q].id # Idle.id
        /\ req[q].op = "create" => Idle.id # req[q].id
  <2>1. ASSUME NEW q \in Requests, req[q].op = "create" PROVE req[q].id \in Plugs
    BY <2>1, InitialRecords DEF IInv, HandlerInv
  <2> QED
    BY <2>1, InitialRecords, IdAssumption DEF IInv, HandlerInv, FileInv
<1>6. PictureInv'
  <2>1. {Idle.file, Idle.loaded.picture} \cap Files = {} /\ Idle.file = NoFile
    BY InitialRecords, IdAssumption
  <2>2. \A q \in Requests :
            Own(req[q]) => Idle.loaded.picture # req[q].file /\ Idle.file # req[q].file
    BY InitialRecords, IdAssumption DEF IInv, FileInv, Own
  <2> QED
    BY <1>1, <1>4, <2>1, <2>2, InitialRecords, PicturesKept
<1>7. MissingInv'
  <2>1. /\ \A p \in Plugs : plug[p].picture \in mourned => plug[p].picture \in mourned'
        /\ \A p \in Plugs : plug[p].picture \in objects => plug[p].picture \in objects'
    BY <1>2
  <2> QED
    BY <1>1, <1>2, <2>1, InitialRecords, MissingKept
<1> QED
  BY <1>1, <1>2, <1>3, <1>4, <1>5, <1>6, <1>7, InitialRecords, HandlerStep DEF IInv, TypeOK

\* A handler goes on to another point, with the same request at hand; it may
\* have deleted the picture it has loaded.
LEMMA OnwardInv ==
    ASSUME IInv, NEW r \in Requests, NEW h \in Handler, NEW t \in Transaction,
           req' = [req EXCEPT ![r] = h], tx' = [tx EXCEPT ![r] = t],
           UNCHANGED <<plug, older, mourned, view, named, mix>>,
           \/ objects' = objects
           \/ req[r].pc = "clean" /\ objects' = objects \ {req[r].loaded.picture},
           req[r].pc # "idle", h.pc \in {"put", "get", "write", "closing"},
           h.op = req[r].op, h.id = req[r].id, h.file = req[r].file, h.loaded = req[r].loaded,
           h.pc = "put" => h.op = "upload", Stored(h) <=> Stored(req[r]),
           h.op \in {"create", "update"} /\ h.email \notin {NoEmail, h.loaded.email} =>
            h.itself \/ Holders(h.email) \ {h.id} \subseteq h.since,
           t.id # NoPlug =>
            /\ h.pc = "closing" /\ t.id = h.id /\ t.row = Merge(h, plug[h.id])
            /\ \A q \in Requests \ {r} : tx[q].id # t.id
    PROVE  IInv'
<1>1. /\ HandlerInv(req[r]) /\ FileInv(req[r]) /\ req[r] \in Handler /\ objects \subseteq Files
      /\ req'[r] = h
  BY DEF IInv, TypeOK
<1>2. objects' \subseteq Files
  BY <1>1
<1>3. \A q \in Requests : Own(req[q]) => req[q].file \in objects'
  BY DEF IInv, FileInv, PictureInv
<1>0. FileInv(h)' /\ (Own(h)' => Own(req[r]))
  BY <1>1, <1>3 DEF FileInv, Own
<1>4. HandlerInv(h)'
  <2>1. Holders(h.email)' = Holders(h.email)
    BY DEF Holders, Live
  <2>2. /\ h.pc # "idle" /\ h.op \in RowOps /\ h.id \in Plugs
        /\ h.op = "create" => plug'[h.id].state = "none" /\ h.loaded = NoRow
        /\ h.op \in RowOps \ {"create"} => plug'[h.id].state # "none"
    BY <1>1 DEF HandlerInv
  <2>3. h.pc # "check" /\ h.pc # "clean"
    OBVIOUS
  <2> QED
    BY <2>1, <2>2, <2>3 DEF HandlerInv
<1>5. \A q \in Requests \ {r} :
        /\ h.op = "create" => req[q].id # h.id
        /\ req[q].op = "create" => h.id # req[q].id
  BY DEF IInv, AloneInv
<1>6. PictureInv'
  <2>1. h.id \in Plugs
    BY <1>1 DEF HandlerInv
  <2>2. \A f \in {h.file, h.loaded.picture} \cap Files : h.id \in Knows(f)
    BY <2>1 DEF Knows
  <2>3. \A q \in Requests : Own(req[q]) =>
            h.loaded.picture # req[q].file /\ (q # r => h.file # req[q].file)
    BY DEF IInv, PictureInv
  <2> QED
    BY <1>0, <2>2, <2>3, PicturesKept
<1>7. MissingInv'
  <2>1. HasDeleted(r) => HasDeleted(r)' /\ h.id = req[r].id /\ h.loaded = req[r].loaded
    BY <1>1 DEF HasDeleted
  <2>2. ASSUME NEW p \in Plugs, plug[p].picture \in objects, plug[p].picture \notin objects'
        PROVE  \/ plug[p].picture \in named
               \/ HasDeleted(r)' /\ h.id = p /\ h.loaded.picture = plug[p].picture
    <3> SUFFICES ASSUME plug[p].picture \notin named
                 PROVE  HasDeleted(r)' /\ h.id = p /\ h.loaded.picture = plug[p].picture
      OBVIOUS
    <3>1. req[r].pc = "clean" /\ plug[p].picture = req[r].loaded.picture
      BY <2>2
    <3>2. req[r].op \in Pictures /\ req[r].loaded.picture # NoFile /\ req[r].id \in Plugs
      BY <1>1, <3>1 DEF HandlerInv
    <3>3. plug[p].picture \in Files
      BY <1>1, <2>2
    <3>4. p \in Knows(plug[p].picture) /\ req[r].id \in Knows(plug[p].picture)
      BY <3>1, <3>2 DEF Knows
    <3>5. p = req[r].id
      BY <3>3, <3>4 DEF IInv, PictureInv
    <3> QED
      BY <1>1, <3>1, <3>2, <3>5 DEF HasDeleted
  <2> QED
    BY <2>1, <2>2, MissingKept
<1>8. /\ older' \in [Plugs -> SUBSET Plugs] /\ \A p \in Plugs : p \notin older'[p]
      /\ \A p, q \in Live : p \in older'[q] <=> p \in older[q]
      /\ mourned' \subseteq Files
  BY DEF IInv, TypeOK, RowsInv
<1>9. \A q \in Requests \ {r} : Own(req[q]) => req[q].file \in objects'
  BY <1>3
<1>10. named \subseteq named' /\ named' \subseteq Files
  BY DEF IInv, TypeOK
<1> QED
  BY <1>0, <1>10, <1>2, <1>4, <1>5, <1>6, <1>7, <1>8, <1>9, HandlerStep

\* The transaction of a session that has written nothing yet.
LEMMA Unwritten ==
    ASSUME IInv, NEW r \in Requests, req[r].pc # "closing"
    PROVE  tx[r] \in Transaction /\ tx[r].id = NoPlug
BY DEF IInv, TypeOK, TxInv

\* The email is free, or the plug's own, when the check lets it pass.
LEMMA CheckEmailInv == ASSUME IInv, NEW r \in Requests, CheckEmail(r) PROVE IInv'
<1>1. CASE Abandon(r) /\ UNCHANGED objects
  BY <1>1, AbandonInv DEF IInv, TypeOK
<1>2. CASE ~ (Abandon(r) /\ UNCHANGED objects)
  <2> DEFINE pc == IF req[r].op = "create" THEN "write" ELSE "get"
             b == req[r].id \in Holders(req[r].email)
             h == [req[r] EXCEPT !.pc = pc, !.itself = b]
  <2>1. /\ req[r].pc = "check" /\ b \in BOOLEAN /\ (b \/ Holders(req[r].email) = {})
        /\ UNCHANGED <<plug, older, objects, tx, mourned, view, named, mix>>
        /\ req' = [req EXCEPT ![r].pc = pc, ![r].itself = b]
    BY <1>2 DEF CheckEmail
  <2>2. req' = [req EXCEPT ![r] = h]
    BY <2>1 DEF IInv, TypeOK
  <2>3. pc \in PCs /\ pc \in {"get", "write"}
    BY DEF PCs
  <2>0. req[r] \in Handler
    BY DEF IInv, TypeOK
  <2> HIDE DEF pc, b
  <2>4. /\ h \in Handler /\ h.pc = pc /\ h.itself = b
        /\ h.op = req[r].op /\ h.id = req[r].id /\ h.file = req[r].file
        /\ h.email = req[r].email /\ h.loaded = req[r].loaded /\ h.since = req[r].since
    BY <2>0, <2>1, <2>3 DEF Handler
  <2> HIDE DEF h
  <2>5. req[r].op \in {"create", "update"}
    BY <2>1 DEF IInv, HandlerInv
  <2>6. tx[r] \in Transaction /\ tx' = [tx EXCEPT ![r] = tx[r]] /\ tx[r].id = NoPlug
    BY <2>1, Unwritten DEF IInv, TypeOK
  <2>7. /\ h.op \in {"create", "update"} /\ h.email \notin {NoEmail, h.loaded.email} =>
              h.itself \/ Holders(h.email) \ {h.id} \subseteq h.since
        /\ h.pc = "put" => h.op = "upload"
        /\ Stored(h) <=> Stored(req[r])
    BY <2>1, <2>3, <2>4, <2>5 DEF Stored
  <2>8. req[r].pc # "idle" /\ h.pc \in {"put", "get", "write", "closing"}
    BY <2>1, <2>3, <2>4
  <2>9. PICK t \in Transaction : t = tx[r]
    BY <2>6
  <2>10. /\ tx' = [tx EXCEPT ![r] = t]
         /\ t.id # NoPlug =>
              /\ h.pc = "closing" /\ t.id = h.id /\ t.row = Merge(h, plug[h.id])
              /\ \A q \in Requests \ {r} : tx[q].id # t.id
    BY <2>6, <2>9
  <2>11. /\ UNCHANGED <<plug, older, mourned, view, named, mix>>
         /\ \/ objects' = objects
            \/ req[r].pc = "clean" /\ objects' = objects \ {req[r].loaded.picture}
    BY <2>1
  <2>12. /\ h \in Handler /\ h.op = req[r].op /\ h.id = req[r].id
         /\ h.file = req[r].file /\ h.loaded = req[r].loaded
    BY <2>4
  <2> QED
    BY <2>2, <2>7, <2>8, <2>10, <2>11, <2>12, OnwardInv
<1> QED
  BY <1>1, <1>2

\* A handler that moves on without a call that changes a row.
LEMMA GotoInv ==
    ASSUME IInv, NEW r \in Requests, NEW pc \in {"put", "get", "write"}, Goto(r, pc),
           UNCHANGED <<plug, older, tx, mourned, view, named, mix>>,
           \/ req[r].pc = "get" /\ pc = "write" /\ UNCHANGED objects
           \/ /\ req[r].pc = "clean" /\ pc = (IF req[r].op = "upload" THEN "put" ELSE "get")
              /\ objects' \in {objects, objects \ {req[r].loaded.picture}}
    PROVE  IInv'
<1> DEFINE h == [req[r] EXCEPT !.pc = pc]
<1>1. req' = [req EXCEPT ![r] = h] /\ req[r].itself \in BOOLEAN /\ pc \in PCs
  BY HandlerFields DEF Goto, IInv, TypeOK, PCs
<1>0. req[r] \in Handler
  BY DEF IInv, TypeOK
<1>2. /\ h \in Handler /\ h.pc = pc /\ h.itself = req[r].itself
      /\ h.op = req[r].op /\ h.id = req[r].id /\ h.file = req[r].file
      /\ h.email = req[r].email /\ h.loaded = req[r].loaded /\ h.since = req[r].since
  BY <1>0, <1>1 DEF Handler
<1> HIDE DEF h
<1>3. HandlerInv(req[r])
  BY DEF IInv
<1>4. tx[r] \in Transaction /\ tx' = [tx EXCEPT ![r] = tx[r]] /\ tx[r].id = NoPlug
  BY Unwritten DEF IInv, TypeOK
<1>5. /\ h.op \in {"create", "update"} /\ h.email \notin {NoEmail, h.loaded.email} =>
            h.itself \/ Holders(h.email) \ {h.id} \subseteq h.since
      /\ h.pc = "put" => h.op = "upload"
      /\ Stored(h) <=> Stored(req[r])
  BY <1>2, <1>3 DEF HandlerInv, Pictures, Stored
<1> QED
  BY <1>1, <1>2, <1>4, <1>5, OnwardInv

\* The old picture is deleted, or the call fails and is passed over.
LEMMA DeleteOldPictureInv == ASSUME IInv, NEW r \in Requests, DeleteOldPicture(r) PROVE IInv'
<1>1. (IF req[r].op = "upload" THEN "put" ELSE "get") \in {"put", "get", "write"}
  OBVIOUS
<1> QED
  BY <1>1, GotoInv DEF DeleteOldPicture

\* The row is still there, or the session is closed.
LEMMA GetAgainInv == ASSUME IInv, NEW r \in Requests, GetAgain(r) PROVE IInv'
<1>1. CASE req[r].id \in Live
  BY <1>1, GotoInv DEF GetAgain
<1>2. CASE req[r].id \notin Live
  BY <1>2, AbandonInv DEF GetAgain, IInv, TypeOK
<1> QED
  BY <1>1, <1>2

\* The flush takes the lock of the row and starts from what is committed.
LEMMA WriteRowInv == ASSUME IInv, NEW r \in Requests, WriteRow(r) PROVE IInv'
<1> DEFINE g == req[r]
           h == [req[r] EXCEPT !.pc = "closing"]
           w == Merge(g, plug[g.id])
           t == IF Merge(g, g.loaded) = g.loaded THEN tx[r] ELSE [id |-> g.id, row |-> w]
<1>1. /\ g.pc = "write" /\ g.pc # "idle" /\ g.pc # "closing"
      /\ UNCHANGED <<plug, older, objects, mourned, view, named, mix>>
      /\ HandlerInv(g) /\ g \in Handler /\ g.itself \in BOOLEAN
  BY HandlerFields DEF WriteRow, IInv, TypeOK
<1>2. req' = [req EXCEPT ![r] = h] /\ "closing" \in PCs
  BY DEF WriteRow, Goto, IInv, TypeOK, PCs
<1>3. /\ h \in Handler /\ h.pc = "closing" /\ h.itself = g.itself
      /\ h.op = g.op /\ h.id = g.id /\ h.file = g.file /\ h.kind = g.kind
      /\ h.email = g.email /\ h.loaded = g.loaded /\ h.since = g.since
  BY <1>1, <1>2 DEF Handler
<1> HIDE DEF h
<1>4. g.id \in Plugs /\ plug[g.id] \in Row
  BY <1>1 DEF HandlerInv, IInv, TypeOK
<1>5. w \in Row /\ w = Merge(h, plug[h.id])
  BY <1>1, <1>3, <1>4, MergeFields, MergeSame
<1> HIDE DEF w
<1>6. tx[r] \in Transaction /\ tx[r].id = NoPlug
  BY <1>1, Unwritten
<1>7. t \in Transaction /\ tx' = [tx EXCEPT ![r] = t]
  <2>1. CASE Merge(g, g.loaded) = g.loaded
    BY <1>6, <2>1 DEF WriteRow, IInv, TypeOK
  <2>2. CASE Merge(g, g.loaded) # g.loaded
    <3>1. t = [id |-> g.id, row |-> w] /\ tx' = [tx EXCEPT ![r] = [id |-> g.id, row |-> w]]
      BY <2>2 DEF WriteRow, w
    <3>2. [id |-> g.id, row |-> w] \in Transaction
      BY <1>4, <1>5 DEF Transaction
    <3> HIDE DEF t
    <3> QED
      BY <3>1, <3>2
  <2> QED
    BY <2>1, <2>2
<1>8. t.id # NoPlug => /\ h.pc = "closing" /\ t.id = h.id /\ t.row = Merge(h, plug[h.id])
                       /\ \A q \in Requests \ {r} : tx[q].id # t.id
  <2>1. CASE Merge(g, g.loaded) = g.loaded
    BY <1>6, <2>1
  <2>2. CASE Merge(g, g.loaded) # g.loaded
    <3>1. \A q \in Requests : q # r => tx[q].id # g.id
      BY <2>2 DEF WriteRow
    <3> QED
      BY <1>3, <1>5, <2>2, <3>1
  <2> QED
    BY <2>1, <2>2
<1> HIDE DEF t
<1>9. /\ h.op \in {"create", "update"} /\ h.email \notin {NoEmail, h.loaded.email} =>
            h.itself \/ Holders(h.email) \ {h.id} \subseteq h.since
      /\ Stored(h) <=> Stored(req[r])
  BY <1>1, <1>3 DEF HandlerInv, Stored, g
<1> HIDE DEF g
<1>10. /\ h.op = req[r].op /\ h.id = req[r].id /\ h.file = req[r].file
       /\ h.loaded = req[r].loaded /\ req[r].pc # "idle"
  BY <1>1, <1>3 DEF g
<1> QED
  BY <1>1, <1>2, <1>3, <1>7, <1>8, <1>9, <1>10, OnwardInv

\* The picture is stored under a key that nobody knows.
LEMMA PutPictureInv == ASSUME IInv, NEW r \in Requests, PutPicture(r) PROVE IInv'
<1>1. /\ req[r] \in Handler /\ HandlerInv(req[r]) /\ req[r].pc = "put"
      /\ UNCHANGED <<plug, older, tx, view, named, mix>>
  BY DEF PutPicture, IInv, TypeOK
<1>2. PICK f \in Fresh :
        /\ objects' = objects \cup {f} /\ mourned' = mourned \ {f}
        /\ req' = [req EXCEPT ![r].pc = "get", ![r].file = f]
  BY DEF PutPicture
<1>3. /\ f \in Files /\ f # NoFile /\ f \notin objects /\ f \notin named
      /\ \A p \in Plugs : plug[p].picture # f
      /\ \A q \in Requests : req[q].file # f /\ req[q].loaded.picture # f
  BY IdAssumption DEF Fresh
<1> DEFINE stored == [req[r] EXCEPT !.pc = "get", !.file = f]
<1>0. PICK h : h = stored
  OBVIOUS
<1>4. req' = [req EXCEPT ![r] = h]
  BY <1>0, <1>2 DEF IInv, TypeOK
<1>5. /\ h \in Handler /\ h.pc = "get" /\ h.file = f
      /\ h.op = req[r].op /\ h.id = req[r].id /\ h.email = req[r].email
      /\ h.loaded = req[r].loaded /\ h.since = req[r].since /\ h.itself = req[r].itself
  BY <1>0, <1>1, <1>3 DEF Handler, PCs
<1> HIDE DEF stored
<1>6. /\ req'[r] = h /\ \A q \in Requests \ {r} : req'[q] = req[q]
  BY <1>4, <1>5 DEF IInv, TypeOK
<1>7. req[r].op = "upload" /\ req[r].id \in Plugs
  BY <1>1 DEF HandlerInv
<1>8. HandlerInv(h)' /\ FileInv(h)'
  <2>1. plug' = plug /\ f \in objects' /\ req[r].op = "upload" /\ req[r].op \in RowOps
    BY <1>1, <1>2, <1>7 DEF RowOps
  <2>2. plug[h.id].state # "none"
    BY <1>1, <1>5, <2>1 DEF HandlerInv
  <2>3. /\ h.op = "upload" /\ h.pc = "get" /\ h.id \in Plugs
        /\ h.file # NoFile /\ h.file \in objects' /\ plug'[h.id].state # "none"
    BY <1>3, <1>5, <1>7, <2>1, <2>2
  <2>4. FileInv(h)'
    BY <1>3, <1>5, <2>3 DEF FileInv, Stored, Own
  <2>5. HandlerInv(h)'
    BY <2>1, <2>3 DEF HandlerInv, RowOps
  <2> QED
    BY <2>4, <2>5
<1>9. tx[r] \in Transaction /\ tx' = [tx EXCEPT ![r] = tx[r]] /\ tx[r].id = NoPlug
  BY <1>1, Unwritten DEF IInv, TypeOK
<1>10. /\ objects' \subseteq Files /\ mourned' \subseteq Files /\ objects \subseteq objects'
       /\ named \subseteq named' /\ named' \subseteq Files
       /\ older' \in [Plugs -> SUBSET Plugs] /\ \A p \in Plugs : p \notin older'[p]
       /\ \A p, q \in Live : p \in older'[q] <=> p \in older[q]
  BY <1>1, <1>2, <1>3 DEF IInv, TypeOK, RowsInv
<1>11. /\ \A q \in Requests \ {r} : Own(req[q]) => req[q].file \in objects'
       /\ \A q \in Requests \ {r} :
            /\ h.op = "create" => req[q].id # h.id
            /\ req[q].op = "create" => h.id # req[q].id
  BY <1>5, <1>10 DEF IInv, FileInv, AloneInv
<1>12. PictureInv'
  <2>1. ASSUME NEW k \in Files \ named, NEW p \in Knows(k)', NEW q \in Knows(k)' PROVE p = q
    <3>1. CASE k = f
      <4>1. \A x \in Knows(k)' : x = h.id
        BY <1>1, <1>3, <1>6, <3>1 DEF Knows
      <4> QED
        BY <4>1
    <3>2. CASE k # f
      <4>1. Knows(k)' \subseteq Knows(k)
        BY <1>1, <1>5, <1>6, <3>2 DEF Knows
      <4> QED
        BY <4>1 DEF IInv, PictureInv
    <3> QED
      BY <3>1, <3>2
  <2>2. ASSUME NEW q \in Requests, Own(req[q])'
        PROVE  /\ \A p \in Plugs : plug'[p].picture # req'[q].file
               /\ \A g \in Requests : req'[g].loaded.picture # req'[q].file
               /\ \A g \in Requests \ {q} : req'[g].file # req'[q].file
    <3>1. \A g \in Requests : req'[g].loaded = req[g].loaded
      BY <1>5, <1>6
    <3>2. CASE q = r
      BY <1>1, <1>3, <1>5, <1>6, <3>1, <3>2
    <3>3. CASE q # r
      <4>1. req'[q].file = req[q].file /\ req[q].file # f /\ Own(req[q])
        BY <1>1, <1>3, <1>6, <2>2, <3>3 DEF Own, Stored
      <4>2. /\ \A p \in Plugs : plug[p].picture # req[q].file
            /\ \A g \in Requests : req[g].loaded.picture # req[q].file
            /\ \A g \in Requests \ {q} : req[g].file # req[q].file
        BY <4>1 DEF IInv, PictureInv
      <4> QED
        BY <1>1, <1>5, <1>6, <3>1, <4>1, <4>2
    <3> QED
      BY <3>2, <3>3
  <2> QED
    BY <1>1, <2>1, <2>2 DEF PictureInv
<1>13. MissingInv'
  <2>1. HasDeleted(r) => HasDeleted(r)' /\ h.id = req[r].id /\ h.loaded = req[r].loaded
    BY <1>5, <1>6 DEF HasDeleted
  <2>2. /\ \A p \in Plugs : plug[p].picture \in mourned => plug[p].picture \in mourned'
        /\ \A p \in Plugs : plug[p].picture \in objects => plug[p].picture \in objects'
    BY <1>2, <1>3
  <2> QED
    BY <1>1, <1>4, <1>5, <2>1, <2>2, MissingKept
<1>14. h \in Handler /\ UNCHANGED <<plug, view, mix>>
  BY <1>1, <1>5
<1> QED
  BY <1>4, <1>8, <1>9, <1>10, <1>11, <1>12, <1>13, <1>14, HandlerStep

\* An upload that fails may leave an object behind, which nobody knows.
LEMMA PutPictureFailsInv == ASSUME IInv, NEW r \in Requests, PutPictureFails(r) PROVE IInv'
<1>1. PICK F \in {{}} \cup {{f} : f \in Fresh} : objects' = objects \cup F
  BY DEF PutPictureFails
<1>2. objects \subseteq objects' /\ objects' \subseteq Files
  BY <1>1 DEF Fresh, IInv, TypeOK
<1> QED
  BY <1>2, AbandonInv DEF PutPictureFails

-----------------------------------------------------------------------------
(* Requests that come in. *)

\* What a request at hand looks like.
Received(h, op, pc, p, k, e, f, w) ==
    /\ h \in Handler /\ h.op = op /\ h.pc = pc /\ h.id = p /\ h.kind = k /\ h.email = e
    /\ h.loaded = w /\ h.file = f /\ h.since = {} /\ h.itself = FALSE

\* A request that has just come in has stored nothing and written nothing; the
\* picture in its body is remembered.
LEMMA ReceiveInv ==
    ASSUME IInv, NEW r \in Requests, NEW h \in Handler, r \notin Open,
           req' = [req EXCEPT ![r] = h], UNCHANGED <<plug, objects, tx, mourned, view, mix>>,
           named \subseteq named', named' \subseteq Files,
           older' \in [Plugs -> SUBSET Plugs], \A p \in Plugs : p \notin older'[p],
           \A p, q \in Live : p \in older'[q] <=> p \in older[q],
           ~Stored(h), h.file \in {NoFile, h.loaded.picture} \cup named',
           h.op = "unpicture" => h.file = NoFile,
           h.id \in Plugs, h.loaded \in {NoRow, plug[h.id]},
           HandlerInv(h),
           \A q \in Requests : h.op = "create" => req[q].id # h.id,
           \A q \in Requests : req[q].op = "create" => h.id # req[q].id
    PROVE  IInv'
<1>1. req[r].pc = "idle" /\ req[r] = Idle
  BY DEF Open, IInv, HandlerInv
<1>2. tx[r] \in Transaction /\ tx' = [tx EXCEPT ![r] = tx[r]] /\ tx[r].id = NoPlug
  BY <1>1, Unwritten DEF IInv, TypeOK
<1>3. HandlerInv(h)'
  <2>1. Holders(h.email)' = Holders(h.email)
    BY DEF Holders, Live
  <2> QED
    BY <2>1 DEF HandlerInv
<1>0. FileInv(h)' /\ ~Own(h)'
  BY DEF FileInv, Own, Stored
<1>4. PictureInv'
  <2>1. \A f \in ({h.file, h.loaded.picture} \cap Files) \ named' : h.id \in Knows(f)
    BY InitialRecords, IdAssumption DEF Knows
  <2>2. ASSUME NEW q \in Requests, Own(req[q])
        PROVE  h.loaded.picture # req[q].file /\ req[q].file # NoFile
    BY <2>2, InitialRecords, IdAssumption DEF IInv, PictureInv, FileInv, Own
  <2>3. \A q \in Requests \ {r} :
            Own(req[q]) /\ req[q].file \notin named' => h.file # req[q].file
    BY <2>2
  <2>4. \A q \in Requests : Own(req[q]) => h.loaded.picture # req[q].file
    BY <2>2
  <2>5. Own(h)' => Own(req[r]) /\ h.file = req[r].file
    BY <1>0
  <2>6. UNCHANGED plug
    OBVIOUS
  <2> QED
    BY <2>1, <2>3, <2>4, <2>5, <2>6, PicturesKept, ZenonT(60)
<1>5. MissingInv'
  <2>1. ~HasDeleted(r)
    BY <1>1 DEF HasDeleted
  <2> QED
    BY <2>1, MissingKept
<1>6. /\ \A q \in Requests \ {r} : Own(req[q]) => req[q].file \in objects'
      /\ objects' \subseteq Files /\ mourned' \subseteq Files
      /\ \A q \in Requests \ {r} :
            /\ h.op = "create" => req[q].id # h.id
            /\ req[q].op = "create" => h.id # req[q].id
  BY DEF IInv, FileInv, TypeOK
<1> QED
  BY <1>0, <1>2, <1>3, <1>4, <1>5, <1>6, HandlerStep

\* A handler that begins with another request is the idle one with that request.
LEMMA ReceivedFields ==
    ASSUME NEW op \in Ops, NEW pc \in PCs, NEW p \in Plugs,
           NEW e \in Emails \cup {NoEmail}, NEW f \in Files \cup {NoFile}, NEW w \in Row
    PROVE  Received([Idle EXCEPT !.pc = pc, !.op = op, !.id = p, !.email = e, !.file = f,
                                 !.loaded = w],
                    op, pc, p, "target", e, f, w)
BY InitialRecords DEF Received, Idle, Handler

\* A plug in the making is younger than all that are there or in the making.
LEMMA CreatePlugInv == ASSUME IInv, NEW r \in Requests, CreatePlug(r) PROVE IInv'
<1>1. PICK p \in Plugs \ Used, k \in Kinds, e \in Named, f \in PicturesFrom(NoFile) :
        /\ req' = [req EXCEPT ![r] = [Idle EXCEPT
                !.pc = IF e = NoEmail THEN "write" ELSE "check",
                !.op = "create", !.id = p, !.kind = k, !.email = e, !.file = f]]
        /\ older' = [older EXCEPT ![p] = Used]
        /\ named' = named \cup ({f} \ {NoFile})
  BY DEF CreatePlug
<1>2. /\ p \in Plugs /\ plug[p].state = "none" /\ p \notin Live
      /\ \A q \in Requests : req[q].id # p
  BY InitialRecords, IdAssumption DEF Used, Open, Live, IInv, HandlerInv
<1> DEFINE pc == IF e = NoEmail THEN "write" ELSE "check"
           new == [Idle EXCEPT !.pc = pc, !.op = "create", !.id = p, !.kind = k, !.email = e,
                               !.file = f]
<1>3. /\ pc \in PCs /\ "create" \in Ops /\ e \in Emails \cup {NoEmail}
      /\ f \in Files \cup {NoFile} /\ k \in {"target", "contact"}
  BY DEF PCs, Ops, Named, PicturesFrom, Kinds
<1>4. PICK h : h = new
  OBVIOUS
<1>5. Received(h, "create", pc, p, k, e, f, NoRow)
  <2> HIDE DEF pc
  <2> QED
    BY <1>2, <1>3, <1>4, InitialRecords DEF Received, Idle, Handler
<1>6. req' = [req EXCEPT ![r] = h] /\ r \notin Open
  BY <1>1, <1>4 DEF CreatePlug
<1> HIDE DEF new
<1>7. HandlerInv(h)
  BY <1>2, <1>5 DEF HandlerInv, Received, RowOps
<1>8. /\ older' \in [Plugs -> SUBSET Plugs] /\ \A q \in Plugs : q \notin older'[q]
      /\ \A g, q \in Live : g \in older'[q] <=> g \in older[q]
  <2>1. older \in [Plugs -> SUBSET Plugs] /\ \A q \in Plugs : q \notin older[q]
    BY DEF IInv, TypeOK, RowsInv
  <2>2. Used \subseteq Plugs /\ p \notin Used
    BY DEF Used
  <2> QED
    BY <1>1, <1>2, <2>1, <2>2 DEF Live
<1>9. /\ UNCHANGED <<plug, objects, tx, mourned, view, mix>>
      /\ named \subseteq named' /\ named' \subseteq Files /\ f \in {NoFile} \cup named'
  BY <1>1, <1>3 DEF CreatePlug, IInv, TypeOK
<1>10. /\ h \in Handler /\ ~Stored(h) /\ h.file = f /\ h.op # "unpicture" /\ h.id \in Plugs /\ h.loaded = NoRow
       /\ \A q \in Requests : h.op = "create" => req[q].id # h.id
       /\ \A q \in Requests : req[q].op = "create" => h.id # req[q].id
  BY <1>2, <1>5 DEF Received, Stored
<1> QED
  BY <1>6, <1>7, <1>8, <1>9, <1>10, ReceiveInv

\* A request about a live plug loads it, and nobody is creating that one.
LEMMA LoadInv ==
    ASSUME IInv, NEW r \in Requests, NEW op \in RowOps \ {"create"}, NEW p \in Live,
           NEW e \in Emails \cup {NoEmail}, NEW f \in Files \cup {NoFile},
           NEW pc \in {"check", "clean", "put", "get"}, Load(r, op, p, e, f, pc),
           pc = "check" => op = "update",
           pc = "clean" => op \in Pictures /\ plug[p].picture # NoFile,
           pc = "put" => op = "upload", op = "upload" => pc # "get",
           op = "update" /\ pc # "check" => e \in {NoEmail, plug[p].email},
           op = "unpicture" => f = NoFile
    PROVE  IInv'
<1> DEFINE new == [Idle EXCEPT !.pc = pc, !.op = op, !.id = p, !.email = e,
                               !.file = f, !.loaded = plug[p]]
<1>1. /\ p \in Plugs /\ plug[p].state = "live" /\ plug[p] \in Row
      /\ op \in Ops /\ pc \in PCs
  BY DEF Live, IInv, TypeOK, RowOps, Ops, PCs
<1>2. PICK h : h = new
  OBVIOUS
<1>3. Received(h, op, pc, p, "target", e, f, plug[p])
  BY <1>1, <1>2, ReceivedFields
<1>4. /\ req' = [req EXCEPT ![r] = h] /\ r \notin Open
      /\ UNCHANGED <<plug, older, objects, tx, mourned, view, mix>>
      /\ named' = named \cup ({f} \ {NoFile, plug[p].picture})
  BY <1>2 DEF Load
<1> HIDE DEF new
<1>5. HandlerInv(h)
  BY <1>1, <1>3 DEF HandlerInv, Received, RowOps, Pictures
<1>6. /\ older' \in [Plugs -> SUBSET Plugs] /\ \A q \in Plugs : q \notin older'[q]
      /\ \A g, q \in Live : g \in older'[q] <=> g \in older[q]
  BY <1>4 DEF IInv, TypeOK, RowsInv
<1>7. /\ h \in Handler /\ ~Stored(h) /\ h.file = f /\ h.id \in Plugs /\ h.loaded = plug[h.id]
      /\ h.op = "unpicture" => h.file = NoFile
      /\ \A q \in Requests : h.op = "create" => req[q].id # h.id
      /\ \A q \in Requests : req[q].op = "create" => h.id # req[q].id
  BY <1>1, <1>3 DEF Received, IInv, HandlerInv, Stored
<1>8. /\ UNCHANGED <<plug, objects, tx, mourned, view, mix>>
      /\ named \subseteq named' /\ named' \subseteq Files
      /\ h.file \in {NoFile, h.loaded.picture} \cup named'
  BY <1>1, <1>3, <1>4, <1>7 DEF IInv, TypeOK, Received
<1> QED
  BY <1>4, <1>5, <1>6, <1>7, <1>8, ReceiveInv

\* What a plug has for a picture.
LEMMA LivePicture ==
    ASSUME IInv, NEW p \in Live PROVE plug[p].picture \in Files \cup {NoFile}
BY RowFields DEF IInv, TypeOK, Live

\* Every request about a plug that is there.
LEMMA RequestInv ==
    ASSUME IInv, NEW r \in Requests,
           \/ UpdatePlug(r) \/ ConvertTargetToContact(r) \/ DeletePlug(r)
           \/ UploadProfilePicture(r) \/ DeleteProfilePicture(r)
    PROVE  IInv'
<1>1. CASE UpdatePlug(r)
  <2>1. PICK p \in Live, e \in Named, f \in Files \cup {NoFile} :
            Load(r, "update", p, e, f, IF e \in {NoEmail, plug[p].email} THEN "get" ELSE "check")
    BY <1>1, LivePicture DEF UpdatePlug, PicturesFrom
  <2>2. "update" \in RowOps \ {"create"} /\ e \in Emails \cup {NoEmail}
    BY DEF RowOps, Named
  <2>3. CASE e \in {NoEmail, plug[p].email}
    BY <2>1, <2>2, <2>3, LoadInv
  <2>4. CASE e \notin {NoEmail, plug[p].email}
    BY <2>1, <2>2, <2>4, LoadInv
  <2> QED
    BY <2>3, <2>4
<1>2. CASE ConvertTargetToContact(r)
  <2>1. PICK p \in Live, e \in Named, f \in Files \cup {NoFile} :
            Load(r, "convert", p, e, f, "get")
    BY <1>2, LivePicture DEF ConvertTargetToContact, PicturesFrom
  <2>2. "convert" \in RowOps \ {"create"} /\ e \in Emails \cup {NoEmail}
    BY DEF RowOps, Named
  <2> QED
    BY <2>1, <2>2, LoadInv
<1>3. CASE DeletePlug(r)
  <2>1. PICK p \in Live : Load(r, "delete", p, NoEmail, plug[p].picture, "get")
    BY <1>3 DEF DeletePlug
  <2>2. "delete" \in RowOps \ {"create"} /\ NoEmail \in Emails \cup {NoEmail}
    BY DEF RowOps
  <2> QED
    BY <2>1, <2>2, LivePicture, LoadInv
<1>4. CASE UploadProfilePicture(r)
  <2>1. PICK p \in Live : Load(r, "upload", p, NoEmail, plug[p].picture,
                               IF plug[p].picture = NoFile THEN "put" ELSE "clean")
    BY <1>4 DEF UploadProfilePicture
  <2>2. "upload" \in RowOps \ {"create"} /\ NoEmail \in Emails \cup {NoEmail}
        /\ "upload" \in Pictures
    BY DEF RowOps, Pictures
  <2>3. CASE plug[p].picture = NoFile
    BY <2>1, <2>2, <2>3, LivePicture, LoadInv
  <2>4. CASE plug[p].picture # NoFile
    BY <2>1, <2>2, <2>4, LivePicture, LoadInv
  <2> QED
    BY <2>3, <2>4
<1>5. CASE DeleteProfilePicture(r)
  <2>1. PICK p \in Live : Load(r, "unpicture", p, NoEmail, NoFile,
                               IF plug[p].picture = NoFile THEN "get" ELSE "clean")
    BY <1>5 DEF DeleteProfilePicture
  <2>2. "unpicture" \in RowOps \ {"create"} /\ NoEmail \in Emails \cup {NoEmail}
        /\ "unpicture" \in Pictures
    BY DEF RowOps, Pictures
  <2>3. CASE plug[p].picture = NoFile
    BY <2>1, <2>2, <2>3, LoadInv
  <2>4. CASE plug[p].picture # NoFile
    BY <2>1, <2>2, <2>4, LoadInv
  <2> QED
    BY <2>3, <2>4
<1> QED
  BY <1>1, <1>2, <1>3, <1>4, <1>5

-----------------------------------------------------------------------------
(* Commits. *)

\* What session r does to its row p when it commits the row n.
CommitOf(r, h, p, n) ==
    /\ h = req[r] /\ HandlerInv(h) /\ FileInv(h) /\ h.pc = "closing" /\ h.op \in RowOps
    /\ h.id = p /\ tx[r].id = p /\ tx[r].row = n /\ plug[p] \in Row
    /\ n = Merge(h, plug[p]) /\ n.state # "none"
    /\ plug[p].state = "none" => n.state = "live" /\ h.op = "create"
    /\ plug[p].state # "none" => n.state \in {plug[p].state, "deleted"} /\ h.op # "create"
    /\ plug[p].state # "none" /\ n.kind # plug[p].kind => n.kind = "contact"
    /\ plug'[p] = n /\ \A q \in Plugs \ {p} : plug'[q] = plug[q]
    /\ plug' \in [Plugs -> Row]
    /\ Notice(p, n)
    /\ tx' = [tx EXCEPT ![r] = NoTx] /\ UNCHANGED <<older, objects, mourned, named, mix>>

\* A commit is of that kind.
LEMMA CommitFields ==
    ASSUME IInv, NEW r \in Requests, Commit(r)
    PROVE  \E h \in Handler, p \in Plugs, n \in Row : CommitOf(r, h, p, n)
<1> DEFINE g == req[r]
           m == Merge(g, plug[g.id])
<1>1. /\ g \in Handler /\ HandlerInv(g) /\ FileInv(g) /\ g.pc = "closing" /\ tx[r].id # NoPlug
      /\ tx[r].id = g.id /\ tx[r].row = m /\ plug \in [Plugs -> Row]
  BY DEF Commit, IInv, TypeOK, TxInv
<1>2. /\ g.id \in Plugs /\ g.op \in RowOps
      /\ g.op = "create" => plug[g.id].state = "none"
      /\ g.op # "create" => plug[g.id].state # "none"
  BY <1>1 DEF HandlerInv
<1>3. plug[g.id] \in Row
  BY <1>1, <1>2
<1>4. /\ m \in Row
      /\ g.op = "create" => m.state = "live"
      /\ g.op # "create" => m.state \in {plug[g.id].state, "deleted"}
      /\ g.op \notin {"create", "convert"} => m.kind = plug[g.id].kind
      /\ g.op = "convert" => m.kind = "contact"
  BY <1>1, <1>3, MergeFields
<1> HIDE DEF m
<1>5. plug' = [plug EXCEPT ![g.id] = m] /\ Notice(g.id, m)
  BY <1>1 DEF Commit
<1>6. /\ plug'[g.id] = m /\ \A q \in Plugs \ {g.id} : plug'[q] = plug[q]
      /\ plug' \in [Plugs -> Row]
  BY <1>1, <1>2, <1>4, <1>5
<1>7. CommitOf(r, g, g.id, m)
  BY <1>1, <1>2, <1>3, <1>4, <1>5, <1>6 DEF CommitOf, Commit, m
<1> QED
  BY <1>1, <1>2, <1>4, <1>7

\* The other sessions notice that the row has changed, and nothing else.
LEMMA NoticeFields ==
    ASSUME IInv, NEW r \in Requests, NEW h \in Handler, NEW p \in Plugs, NEW n \in Row,
           CommitOf(r, h, p, n), NEW q \in Requests
    PROVE  /\ req' \in [Requests -> Handler]
           /\ q = r => req'[q] = Idle
           /\ q # r =>
                /\ tx[q].id # p
                /\ req'[q].pc = req[q].pc /\ req'[q].op = req[q].op /\ req'[q].id = req[q].id
                /\ req'[q].kind = req[q].kind /\ req'[q].email = req[q].email
                /\ req'[q].file = req[q].file /\ req'[q].loaded = req[q].loaded
                /\ req'[q].itself = req[q].itself /\ req[q].since \subseteq req'[q].since
                /\ req[q].op \in {"create", "update"} /\ req[q].email # NoEmail
                   /\ req[q].pc # "check" => p \in req'[q].since
                /\ req[q] = Idle => req'[q] = Idle
<1> DEFINE other(g) == IF req[g].op \in {"create", "update"} /\ req[g].email # NoEmail
                          /\ req[g].pc # "check"
                       THEN [req[g] EXCEPT !.since = @ \cup {p}] ELSE req[g]
<1>1. req' = [g \in Requests |-> IF tx[g].id = p THEN Idle ELSE other(g)]
  BY DEF CommitOf, Notice
<1>2. tx[r].id = p /\ \A g \in Requests \ {r} : tx[g].id # p
  BY IdAssumption DEF CommitOf, IInv, AloneInv
<1>3. ASSUME NEW g \in Requests
      PROVE  /\ other(g) \in Handler
             /\ other(g).pc = req[g].pc /\ other(g).op = req[g].op /\ other(g).id = req[g].id
             /\ other(g).kind = req[g].kind /\ other(g).email = req[g].email
             /\ other(g).file = req[g].file /\ other(g).loaded = req[g].loaded
             /\ other(g).itself = req[g].itself /\ req[g].since \subseteq other(g).since
             /\ req[g].op \in {"create", "update"} /\ req[g].email # NoEmail
                /\ req[g].pc # "check" => p \in other(g).since
             /\ req[g] = Idle => other(g) = Idle
  <2>1. req[g] \in Handler
    BY DEF IInv, TypeOK
  <2>2. CASE req[g].op \in {"create", "update"} /\ req[g].email # NoEmail
             /\ req[g].pc # "check"
    <3>1. other(g) = [req[g] EXCEPT !.since = @ \cup {p}] /\ req[g] # Idle
      BY <2>2, InitialRecords
    <3> HIDE DEF other
    <3> QED
      BY <2>1, <3>1 DEF Handler
  <2>3. CASE ~ (req[g].op \in {"create", "update"} /\ req[g].email # NoEmail
                /\ req[g].pc # "check")
    BY <2>1, <2>3
  <2> QED
    BY <2>2, <2>3
<1> HIDE DEF other
<1>4. req' \in [Requests -> Handler]
  BY <1>1, <1>3, InitialRecords
<1> QED
  BY <1>1, <1>2, <1>3, <1>4

\* Pictures after a commit: the row may have the one its handler had stored.
LEMMA CommitPictures ==
    ASSUME IInv, NEW r \in Requests, NEW h \in Handler, NEW p \in Plugs, NEW n \in Row,
           CommitOf(r, h, p, n)
    PROVE  PictureInv' /\ MissingInv'
<1>1. /\ req'[r] = Idle
      /\ \A q \in Requests \ {r} :
            /\ req'[q].pc = req[q].pc /\ req'[q].op = req[q].op /\ req'[q].id = req[q].id
            /\ req'[q].file = req[q].file /\ req'[q].loaded = req[q].loaded
  BY NoticeFields
<1>2. /\ h = req[r] /\ h.id = p /\ plug'[p] = n /\ \A q \in Plugs \ {p} : plug'[q] = plug[q]
      /\ UNCHANGED <<objects, mourned, named>> /\ h.pc = "closing" /\ FileInv(h)
  BY DEF CommitOf
<1>3. n.picture = IF h.file # h.loaded.picture THEN h.file ELSE plug[p].picture
  BY MergeFields DEF CommitOf
<1>4. PictureInv'
  <2>1. ASSUME NEW f \in Files \ named PROVE Knows(f)' \subseteq Knows(f)
    <3>1. f # NoFile /\ Idle.file = NoFile /\ Idle.loaded.picture = NoFile
      BY InitialRecords, IdAssumption
    <3>2. plug'[p].picture = f => plug[p].picture = f \/ req[r].file = f
      BY <1>2, <1>3, <3>1
    <3> QED
      BY <1>1, <1>2, <3>1, <3>2 DEF Knows
  <2>2. ASSUME NEW q \in Requests, Own(req[q])'
        PROVE  /\ \A g \in Plugs : plug'[g].picture # req'[q].file
               /\ \A g \in Requests : req'[g].loaded.picture # req'[q].file
               /\ \A g \in Requests \ {q} : req'[g].file # req'[q].file
    <3>1. q # r /\ req'[q].file = req[q].file /\ Own(req[q]) /\ req[q].file # NoFile
      <4>1. q # r
        BY <1>1, <2>2, InitialRecords DEF Own, Stored
      <4>2. Own(req[q]) /\ FileInv(req[q])
        BY <1>1, <1>2, <2>2, <4>1 DEF Own, Stored, IInv
      <4> QED
        BY <1>1, <4>1, <4>2, IdAssumption DEF FileInv, Own
    <3>2. /\ \A g \in Plugs : plug[g].picture # req[q].file
          /\ \A g \in Requests : req[g].loaded.picture # req[q].file
          /\ \A g \in Requests \ {q} : req[g].file # req[q].file
      BY <3>1 DEF IInv, PictureInv
    <3>3. n.picture # req[q].file
      BY <1>2, <1>3, <3>1, <3>2
    <3> QED
      BY <1>1, <1>2, <3>1, <3>2, <3>3, InitialRecords
  <2> QED
    BY <1>2, <2>1, <2>2 DEF IInv, PictureInv
<1>5. MissingInv'
  <2> SUFFICES ASSUME NEW g \in Live', plug'[g].picture \in Files \ objects
               PROVE  \/ plug'[g].picture \in mourned \cup named
                      \/ \E q \in Requests : req'[q].id = g /\ HasDeleted(q)'
                                            /\ req'[q].loaded.picture = plug'[g].picture
    BY <1>2 DEF MissingInv
  <2> SUFFICES ASSUME plug'[g].picture \notin named
               PROVE  \/ plug'[g].picture \in mourned
                      \/ \E q \in Requests : req'[q].id = g /\ HasDeleted(q)'
                                            /\ req'[q].loaded.picture = plug'[g].picture
    OBVIOUS
  <2>1. g \in Plugs /\ plug'[g].state = "live"
    BY DEF Live
  <2>2. plug'[g].picture = plug[g].picture
    <3>1. CASE g = p
      <4>1. n.picture \in Files \ (objects \cup named) /\ n.picture # NoFile
        BY <1>2, <3>1, IdAssumption
      <4>2. h.file = n.picture => h.file = h.loaded.picture
        BY <1>2, <4>1 DEF FileInv, Own
      <4> QED
        BY <1>2, <1>3, <3>1, <4>2
    <3> QED
      BY <1>2, <2>1, <3>1
  <2>3. g \in Live
    <3>1. plug[g].state = "none" => FALSE
      <4>1. plug[g].state = "none" => plug[g].picture = NoFile
        BY <2>1, InitialRecords DEF IInv, RowsInv
      <4> QED
        BY <2>2, <4>1, IdAssumption
    <3>2. CASE g = p
      BY <1>2, <2>1, <3>1, <3>2 DEF CommitOf, Live
    <3>3. CASE g # p
      BY <1>2, <2>1, <3>3 DEF Live
    <3> QED
      BY <3>2, <3>3
  <2>4. CASE plug[g].picture \in mourned
    BY <2>2, <2>4
  <2>5. CASE plug[g].picture \notin mourned
    <3>1. PICK q \in Requests : req[q].id = g /\ HasDeleted(q)
                               /\ req[q].loaded.picture = plug[g].picture
      BY <2>2, <2>3, <2>5 DEF IInv, MissingInv
    <3>2. q # r
      <4>1. ASSUME q = r PROVE FALSE
        <5>1. g = p /\ h.op \in Pictures /\ h.loaded.picture # NoFile
          BY <1>2, <3>1, <4>1 DEF HasDeleted
        <5>2. h.file # h.loaded.picture
          BY <1>2, <5>1 DEF Pictures, FileInv, Stored
        <5> QED
          BY <1>2, <1>3, <2>2, <3>1, <4>1, <5>1, <5>2
      <4> QED
        BY <4>1
    <3>3. HasDeleted(q)'
      BY <1>1, <3>1, <3>2 DEF HasDeleted
    <3> QED
      BY <1>1, <2>2, <3>1, <3>2, <3>3
  <2> QED
    BY <2>4, <2>5
<1> QED
  BY <1>4, <1>5

\* The rows of a set that are younger than a plug.
YoungerIn(L, o, p) == {q \in L : p \in o[q]}

\* More live rows make for no fewer younger ones.
LEMMA YoungerGrows ==
    ASSUME NEW L \in SUBSET Plugs, NEW M \in SUBSET Plugs, IsFiniteSet(M), L \subseteq M,
           NEW o \in [Plugs -> SUBSET Plugs], NEW p
    PROVE  /\ Cardinality(YoungerIn(L, o, p)) \in Nat
           /\ Cardinality(YoungerIn(M, o, p)) \in Nat
           /\ Cardinality(YoungerIn(L, o, p)) <= Cardinality(YoungerIn(M, o, p))
<1> DEFINE S == YoungerIn(L, o, p)
           T == YoungerIn(M, o, p)
<1>1. T \in SUBSET M /\ S \in SUBSET T
  BY DEF YoungerIn
<1> HIDE DEF S, T
<1>2. IsFiniteSet(T)
  BY <1>1, FS_Subset
<1>3. IsFiniteSet(S) /\ Cardinality(S) <= Cardinality(T)
  BY <1>1, <1>2, FS_Subset
<1>4. Cardinality(S) \in Nat /\ Cardinality(T) \in Nat
  BY <1>2, <1>3, FS_CardinalityType
<1> QED
  BY <1>3, <1>4 DEF S, T

\* The live rows after a commit.
LEMMA CommitLive ==
    ASSUME IInv, NEW r \in Requests, NEW h \in Handler, NEW p \in Plugs, NEW n \in Row,
           CommitOf(r, h, p, n)
    PROVE  /\ Live' \subseteq Live \cup {p} /\ Live \subseteq Plugs /\ Live' \subseteq Plugs
           /\ n.state # "deleted" => Live \subseteq Live'
           /\ plug[p].state # "none" => Live' \subseteq Live
           /\ IsFiniteSet(Live') /\ IsFiniteSet(Live)
           /\ \A q \in Plugs : plug[q].state # "none" => plug'[q].state # "none"
<1>1. /\ n.state \in {"live", "deleted"} /\ plug'[p] = n
      /\ \A q \in Plugs \ {p} : plug'[q] = plug[q]
      /\ plug[p].state # "none" => n.state \in {plug[p].state, "deleted"}
  BY RowFields DEF CommitOf
<1>2. /\ Live' \subseteq Live \cup {p} /\ Live \subseteq Plugs /\ Live' \subseteq Plugs
      /\ n.state # "deleted" => Live \subseteq Live'
      /\ plug[p].state # "none" => Live' \subseteq Live
      /\ \A q \in Plugs : plug[q].state # "none" => plug'[q].state # "none"
  BY <1>1 DEF Live
<1>3. IsFiniteSet(Live) /\ IsFiniteSet(Live \cup {p})
  BY FS_AddElement DEF IInv, RowsInv
<1>4. IsFiniteSet(Live')
  BY <1>2, <1>3, FS_Subset
<1> QED
  BY <1>2, <1>3, <1>4

\* The client's view after a commit while it is at work: what has come, gone or
\* been converted is in its churn.
LEMMA CommitRunning ==
    ASSUME IInv, NEW r \in Requests, NEW h \in Handler, NEW p \in Plugs, NEW n \in Row,
           CommitOf(r, h, p, n), view.pc \in Running
    PROVE  /\ view' \in View /\ view'.pc = view.pc /\ view'.mode = view.mode
           /\ view'.skip = view.skip /\ view'.total = view.total /\ view'.page = view.page
           /\ view'.seen = view.seen /\ view'.twice = view.twice /\ view'.goal = view.goal
           /\ view.churn \subseteq view'.churn
           /\ plug[p].state = "none" => "created" \in view'.churn
           /\ n.state = "deleted" => "deleted" \in view'.churn
           /\ plug[p].state = "live" /\ n.kind # plug[p].kind => "converted" \in view'.churn
<1> DEFINE C == {c \in {"created", "deleted", "converted"} :
                    CASE c = "created" -> plug[p].state = "none"
                      [] c = "deleted" -> n.state = "deleted"
                      [] OTHER -> plug[p].state = "live" /\ n.kind # plug[p].kind}
           D == view.churn \cup C
<1>1. view' = [view EXCEPT !.churn = D]
  BY DEF CommitOf, Notice, Running
<1>2. /\ C \subseteq {"created", "deleted", "converted"}
      /\ plug[p].state = "none" => "created" \in C
      /\ n.state = "deleted" => "deleted" \in C
      /\ plug[p].state = "live" /\ n.kind # plug[p].kind => "converted" \in C
  OBVIOUS
<1> HIDE DEF C
<1>3. view \in View /\ view.churn \subseteq {"created", "deleted", "converted"}
  BY DEF IInv, TypeOK, View
<1>4. /\ D \subseteq {"created", "deleted", "converted"} /\ view.churn \subseteq D /\ C \subseteq D
  BY <1>2, <1>3
<1> HIDE DEF D
<1>5. view'.churn = D
  BY <1>1, <1>3 DEF View
<1>6. /\ view' \in View /\ view'.pc = view.pc /\ view'.mode = view.mode
      /\ view'.skip = view.skip /\ view'.total = view.total /\ view'.page = view.page
      /\ view'.seen = view.seen /\ view'.twice = view.twice /\ view'.goal = view.goal
  BY <1>1, <1>3, <1>4 DEF View
<1> QED
  BY <1>2, <1>4, <1>5, <1>6

\* The client's view holds good after a commit.
LEMMA CommitView ==
    ASSUME IInv, NEW r \in Requests, NEW h \in Handler, NEW p \in Plugs, NEW n \in Row,
           CommitOf(r, h, p, n)
    PROVE  view' \in View /\ ViewInv'
<1>1. /\ plug'[p] = n /\ \A q \in Plugs \ {p} : plug'[q] = plug[q]
      /\ plug[p].state = "none" => n.state = "live"
      /\ plug[p].state # "none" => n.state \in {plug[p].state, "deleted"}
      /\ plug[p].state # "none" /\ n.kind # plug[p].kind => n.kind = "contact"
      /\ UNCHANGED older /\ older \in [Plugs -> SUBSET Plugs]
      /\ view \in View /\ view.goal \subseteq Plugs /\ view.seen \subseteq Plugs
      /\ view.page \subseteq Plugs /\ ViewInv
  BY DEF CommitOf, IInv, TypeOK, View
<1>2. /\ Live' \subseteq Live \cup {p} /\ Live \subseteq Plugs /\ Live' \subseteq Plugs
      /\ n.state # "deleted" => Live \subseteq Live'
      /\ plug[p].state # "none" => Live' \subseteq Live
      /\ IsFiniteSet(Live') /\ IsFiniteSet(Live)
      /\ \A q \in Plugs : plug[q].state # "none" => plug'[q].state # "none"
  BY CommitLive
<1>3. CASE view.pc \notin Running
  <2>1. view' = view /\ view.pc \in {"off", "done"}
    BY <1>1, <1>3 DEF CommitOf, Notice, Running, View
  <2>2. view.pc = "done" => view.goal \cap Live' \subseteq view.goal \cap Live
    <3>1. ASSUME view.pc = "done", NEW q \in view.goal, q \in Live' PROVE q \in Live
      <4>1. plug[q].state # "none" /\ q \in Plugs
        BY <1>1, <3>1 DEF ViewInv
      <4>2. CASE q = p
        BY <1>2, <3>1, <4>1, <4>2
      <4>3. CASE q # p
        BY <1>2, <3>1, <4>3
      <4> QED
        BY <4>2, <4>3
    <3> QED
      BY <3>1
  <2>3. Excused' = Excused
    BY <2>1 DEF Excused
  <2>4. PagesInv' /\ CountsInv'
    BY <1>1, <2>1, <2>2, <2>3 DEF ViewInv, PagesInv, CountsInv
  <2> QED
    BY <1>1, <1>2, <2>1, <2>4 DEF ViewInv, Running
<1>4. CASE view.pc \in Running
  <2>1. /\ view' \in View /\ view'.pc = view.pc /\ view'.mode = view.mode
        /\ view'.skip = view.skip /\ view'.total = view.total /\ view'.page = view.page
        /\ view'.seen = view.seen /\ view'.twice = view.twice /\ view'.goal = view.goal
        /\ view.churn \subseteq view'.churn
        /\ plug[p].state = "none" => "created" \in view'.churn
        /\ n.state = "deleted" => "deleted" \in view'.churn
        /\ plug[p].state = "live" /\ n.kind # plug[p].kind => "converted" \in view'.churn
    BY <1>4, CommitRunning
  <2>2. /\ \A q \in view.goal : plug[q].state # "none"
        /\ \A q \in view.seen \cup view.page : plug[q].state # "none"
        /\ view.goal \subseteq Live \/ "deleted" \in view.churn
        /\ Live \subseteq view.goal \/ "created" \in view.churn
        /\ view.pc # "off" /\ view.pc # "done"
    BY <1>1, <1>4 DEF ViewInv, Running
  <2>3. /\ \A q \in view.goal : plug'[q].state # "none"
        /\ \A q \in view.seen \cup view.page : plug'[q].state # "none"
        /\ view.goal \subseteq Live' \/ "deleted" \in view'.churn
        /\ Live' \subseteq view.goal \/ "created" \in view'.churn
    BY <1>1, <1>2, <2>1, <2>2
  <2>4. PagesInv'
    <3>1. CASE Excused'
      BY <1>1, <2>1, <2>2, <3>1 DEF ViewInv, PagesInv
    <3>2. CASE ~Excused'
      <4>1. ~Excused /\ n.state # "deleted" /\ (view.mode = "search" => plug[p].state # "none")
        BY <2>1, <3>2 DEF Excused
      <4>2. \A q : /\ Cardinality(Younger(q)) \in Nat /\ Cardinality(Younger(q)') \in Nat
                   /\ Cardinality(Younger(q)) <= Cardinality(Younger(q)')
        <5>1. PICK M : M = Live'
          OBVIOUS
        <5>2. /\ M \in SUBSET Plugs /\ Live \in SUBSET Plugs /\ IsFiniteSet(M)
              /\ Live \subseteq M
          BY <1>2, <4>1, <5>1
        <5>3. ASSUME NEW q
              PROVE  /\ Younger(q) = YoungerIn(Live, older, q)
                     /\ Younger(q)' = YoungerIn(M, older, q)
          BY <1>1, <5>1 DEF Younger, YoungerIn
        <5> QED
          BY <1>1, <5>2, <5>3, YoungerGrows
      <4>3. view.mode = "search" => Live' = Live
        BY <1>2, <4>1
      <4>4. Passed' = Passed /\ Passed \in Nat
        BY <1>1, <2>1 DEF Passed, View
      <4>5. view.pc \in {"page", "count"} =>
              \A q \in view.goal : \/ q \in view.seen \cup view.page
                                   \/ Cardinality(Younger(q)) >= Passed
        BY <1>1, <4>1 DEF ViewInv, PagesInv
      <4>6. view.pc \in {"page", "count"} =>
              \A q \in view.goal : \/ q \in view.seen \cup view.page
                                   \/ Cardinality(Younger(q)') >= Passed
        BY <4>2, <4>4, <4>5
      <4> QED
        BY <1>1, <2>1, <2>2, <4>1, <4>3, <4>4, <4>6 DEF ViewInv, PagesInv
    <3> QED
      BY <3>1, <3>2
  <2>5. CountsInv'
    <3>1. ASSUME NEW q \in view.goal \cap Live', view.pc = "contacts"
          PROVE  q \in view.seen \/ plug'[q].kind = "contact"
      <4>1. q \in Live
        BY <1>2, <2>2, <3>1
      <4>2. q \in view.seen \/ plug[q].kind = "contact"
        BY <1>1, <3>1, <4>1 DEF ViewInv, CountsInv
      <4> QED
        BY <1>1, <1>2, <2>2, <3>1, <4>2
    <3>2. ASSUME NEW q \in view.seen \cap Live', view.pc = "contacts"
          PROVE  plug'[q].kind = "target" \/ "converted" \in view'.churn
      <4>1. q \in Live
        BY <1>2, <2>2, <3>2
      <4>2. plug[q].kind = "target" \/ "converted" \in view.churn
        BY <1>1, <3>2, <4>1 DEF ViewInv, CountsInv
      <4>3. plug[q].state = "live"
        BY <4>1 DEF Live
      <4> QED
        BY <1>1, <1>2, <2>1, <3>2, <4>2, <4>3
    <3>3. view.pc = "recent" =>
            /\ view.goal \cap Live' \subseteq view.seen
            /\ Live' \subseteq view.seen \/ "created" \in view'.churn
      <4>1. view.pc = "recent" => /\ view.goal \cap Live \subseteq view.seen
                                  /\ Live \subseteq view.seen \/ "created" \in view.churn
        BY <1>1 DEF ViewInv, CountsInv
      <4>2. view.goal \cap Live' \subseteq view.goal \cap Live
        BY <1>2, <2>2
      <4> QED
        BY <1>2, <2>1, <4>1, <4>2
    <3> QED
      BY <1>1, <2>1, <2>2, <3>1, <3>2, <3>3 DEF ViewInv, CountsInv
  <2> QED
    BY <2>1, <2>3, <2>4, <2>5 DEF ViewInv
<1> QED
  BY <1>3, <1>4

\* A commit keeps the invariant.
LEMMA CommitInv == ASSUME IInv, NEW r \in Requests, Commit(r) PROVE IInv'
<1>1. PICK h \in Handler, p \in Plugs, n \in Row : CommitOf(r, h, p, n)
  BY CommitFields
<1>2. /\ h = req[r] /\ h.id = p /\ plug'[p] = n /\ \A q \in Plugs \ {p} : plug'[q] = plug[q]
      /\ plug' \in [Plugs -> Row] /\ n.state # "none" /\ tx[r].id = p
      /\ tx' = [tx EXCEPT ![r] = NoTx] /\ UNCHANGED <<older, objects, mourned, named, mix>>
  BY <1>1 DEF CommitOf
<1>3. /\ tx'[r] = NoTx /\ \A q \in Requests \ {r} : tx'[q] = tx[q]
      /\ tx' \in [Requests -> Transaction]
  BY <1>2, InitialRecords DEF IInv, TypeOK
<1>4. req' \in [Requests -> Handler] /\ req'[r] = Idle
  BY <1>1, NoticeFields
<1>5. ASSUME NEW q \in Requests, q # r
      PROVE  /\ tx[q].id # p
             /\ req'[q].pc = req[q].pc /\ req'[q].op = req[q].op /\ req'[q].id = req[q].id
             /\ req'[q].kind = req[q].kind /\ req'[q].email = req[q].email
             /\ req'[q].file = req[q].file /\ req'[q].loaded = req[q].loaded
             /\ req'[q].itself = req[q].itself /\ req[q].since \subseteq req'[q].since
             /\ req[q].op \in {"create", "update"} /\ req[q].email # NoEmail
                /\ req[q].pc # "check" => p \in req'[q].since
             /\ req[q] = Idle => req'[q] = Idle
  BY <1>1, <1>5, NoticeFields
<1>6. view' \in View /\ ViewInv'
  BY <1>1, CommitView
<1>7. PictureInv' /\ MissingInv'
  BY <1>1, CommitPictures
<1>8. TypeOK'
  BY <1>2, <1>3, <1>4, <1>6 DEF IInv, TypeOK
<1>9. ASSUME NEW q \in Requests PROVE HandlerInv(req[q])' /\ FileInv(req[q])' /\ TxInv(q)'
  <2>1. CASE q = r
    BY <1>3, <1>4, <2>1, InitialRecords DEF HandlerInv, FileInv, Stored, Own, TxInv, RowOps
  <2>2. CASE q # r
    <3>1. HandlerInv(req[q]) /\ FileInv(req[q]) /\ TxInv(q)
      BY DEF IInv
    <3>2. req[q].op = "create" => req[q].id # p /\ req[q].id \in Plugs
      <4>1. req[q].op = "create" => req[r].id # req[q].id
        BY <2>2 DEF IInv, AloneInv
      <4> QED
        BY <1>2, <3>1, <4>1, InitialRecords DEF HandlerInv
    <3>3. req[q].op \in RowOps => req[q].id \in Plugs
      BY <3>1, InitialRecords DEF HandlerInv, RowOps
    <3>4. /\ req[q].op = "create" => plug'[req[q].id].state = "none" /\ req[q].loaded = NoRow
          /\ req[q].op \in RowOps \ {"create"} => plug'[req[q].id].state # "none"
      BY <1>2, <3>1, <3>2, <3>3 DEF HandlerInv
    <3>0. PICK e : e = req[q].email /\ e = req'[q].email
      BY <1>5, <2>2
    <3>5. req[q].op \in {"create", "update"} /\ req[q].pc # "check"
          /\ e \notin {NoEmail, req[q].loaded.email}
           => req[q].itself \/ Holders(e)' \ {req[q].id} \subseteq req'[q].since
      <4>1. \A g \in Live' \ {p} : g \in Live /\ plug'[g] = plug[g]
        BY <1>2 DEF Live
      <4>2. Holders(e)' \subseteq Holders(e) \cup {p}
        BY <4>1 DEF Holders
      <4> QED
        BY <1>5, <2>2, <3>0, <3>1, <4>2 DEF HandlerInv
    <3>6. HandlerInv(req[q])'
      <4>1. Holders(req[q].email)' = Holders(e)'
        BY <3>0 DEF Holders
      <4> QED
        BY <1>2, <1>5, <2>2, <3>0, <3>1, <3>4, <3>5, <4>1 DEF HandlerInv
    <3>7. TxInv(q)'
      <4>1. tx[q].id # NoPlug => req[q].id # p /\ req[q].id \in Plugs
        BY <1>5, <2>2, <3>1 DEF TxInv, HandlerInv
      <4>2. \A w : Merge(req'[q], w) = Merge(req[q], w)
        BY <1>5, <2>2, MergeSame
      <4> QED
        BY <1>2, <1>3, <1>5, <2>2, <3>1, <4>1, <4>2 DEF TxInv
    <3>8. FileInv(req[q])'
      BY <1>2, <1>5, <2>2, <3>1 DEF FileInv, Stored, Own
    <3> QED
      BY <3>6, <3>7, <3>8
  <2> QED
    BY <2>1, <2>2
<1>10. AloneInv'
  <2>1. \A q \in Requests : req'[q].op = "create" => req'[q].id # NoPlug
    BY <1>4, <1>5, InitialRecords, IdAssumption DEF IInv, HandlerInv
  <2> QED
    BY <1>3, <1>4, <1>5, <2>1, InitialRecords DEF IInv, AloneInv
<1>11. RowsInv'
  <2>1. IsFiniteSet(Live')
    BY <1>1, CommitLive
  <2> QED
    BY <1>2, <2>1 DEF IInv, RowsInv
<1> QED
  BY <1>6, <1>7, <1>8, <1>9, <1>10, <1>11 DEF IInv

-----------------------------------------------------------------------------
(* The client. *)

\* A step of the client.
LEMMA ClientStep ==
    ASSUME IInv, view' \in View, ViewInv',
           UNCHANGED <<plug, older, objects, req, tx, mourned, named, mix>>
    PROVE  IInv'
<1>1. TypeOK'
  BY DEF IInv, TypeOK
<1>2. ASSUME NEW r \in Requests PROVE HandlerInv(req[r])' /\ FileInv(req[r])' /\ TxInv(r)'
  <2>1. HandlerInv(req[r]) /\ FileInv(req[r]) /\ TxInv(r)
    BY DEF IInv
  <2> QED
    BY <2>1 DEF HandlerInv, FileInv, Stored, Own, TxInv, Holders, Live
<1>3. AloneInv' /\ RowsInv'
  BY DEF IInv, AloneInv, RowsInv, Live
<1>4. PictureInv'
  <2>1. \A f : Knows(f)' = Knows(f)
    BY DEF Knows
  <2>2. \A r \in Requests : Own(req[r])' <=> Own(req[r])
    BY DEF Own, Stored
  <2> QED
    BY <2>1, <2>2 DEF IInv, PictureInv
<1>5. MissingInv'
  BY DEF IInv, MissingInv, Live, HasDeleted
<1> QED
  BY <1>1, <1>2, <1>3, <1>4, <1>5 DEF IInv

\* A client that begins has seen nothing, of plugs that are all there.
LEMMA BeginInv == ASSUME IInv, Browse \/ ReadDashboard PROVE IInv'
<1>1. PICK pc \in {"page", "count", "leads"}, mode \in {"list", "search", "dashboard"} :
        /\ view' = [NoView EXCEPT !.pc = pc, !.mode = mode, !.goal = Live]
        /\ pc = "leads" <=> mode = "dashboard"
        /\ mode = "list" => pc = "page"
        /\ mode = "search" => pc = "count"
  BY DEF Browse, ReadDashboard, FirstStatement
<1>2. UNCHANGED <<plug, older, objects, req, tx, mourned, named, mix>> /\ Live \subseteq Plugs
  BY DEF Browse, ReadDashboard, Live
<1> DEFINE v == [NoView EXCEPT !.pc = pc, !.mode = mode, !.goal = Live]
<1>3. /\ v \in View /\ v.pc = pc /\ v.mode = mode /\ v.goal = Live /\ v.skip = 0
      /\ v.page = {} /\ v.seen = {} /\ v.twice = {} /\ v.churn = {} /\ v.total = 0
  BY <1>2 DEF NoView, View
<1>4. view' = v
  BY <1>1
<1> HIDE DEF v
<1>5. Live' = Live /\ \A p \in Live : plug[p].state = "live"
  BY <1>2 DEF Live
<1>6. \A p : Cardinality(Younger(p)) \in Nat /\ Younger(p)' = Younger(p)
  <2>1. IsFiniteSet(Live) /\ older \in [Plugs -> SUBSET Plugs]
    BY DEF IInv, RowsInv, TypeOK
  <2>2. \A p : Cardinality(Younger(p)) \in Nat
    <3>1. \A p : Younger(p) = YoungerIn(Live, older, p)
      BY DEF Younger, YoungerIn
    <3> QED
      BY <1>2, <2>1, <3>1, YoungerGrows
  <2> QED
    BY <1>2, <1>5, <2>2 DEF Younger
<1>7. view'.pc \in {"page", "count"} => Passed' = 0 /\ ~Excused'
  BY <1>1, <1>3, <1>4 DEF Passed, Excused
<1>8. PagesInv'
  <2>1. ~ (view'.pc = "page" /\ view'.mode = "search") /\ view'.pc # "done"
    BY <1>1, <1>3, <1>4
  <2>2. view'.pc \in {"page", "count"} => view'.mode \in {"list", "search"}
    BY <1>1, <1>3, <1>4
  <2>3. \A p : Cardinality(Younger(p)') \in Nat
    BY <1>6
  <2> QED
    BY <1>3, <1>4, <1>7, <2>1, <2>2, <2>3 DEF PagesInv
<1>9. CountsInv'
  BY <1>1, <1>3, <1>4 DEF CountsInv
<1>10. ViewInv'
  BY <1>2, <1>3, <1>4, <1>5, <1>8, <1>9 DEF ViewInv
<1> QED
  BY <1>2, <1>3, <1>4, <1>10, ClientStep

\* Fewer live plugs are younger than a live one than there are.
LEMMA YoungerFewer ==
    ASSUME IInv
    PROVE  /\ IsFiniteSet(Live) /\ Cardinality(Live) \in Nat
           /\ \A p : Cardinality(Younger(p)) \in Nat
           /\ \A p \in Live : Cardinality(Younger(p)) < Cardinality(Live)
<1>1. /\ IsFiniteSet(Live) /\ older \in [Plugs -> SUBSET Plugs] /\ Live \in SUBSET Plugs
      /\ \A p \in Plugs : p \notin older[p]
  BY DEF IInv, RowsInv, TypeOK, Live
<1>2. Cardinality(Live) \in Nat
  BY <1>1, FS_CardinalityType
<1>3. ASSUME NEW p
      PROVE  /\ Cardinality(Younger(p)) \in Nat
             /\ p \in Live => Cardinality(Younger(p)) < Cardinality(Live)
  <2> DEFINE Y == Younger(p)
  <2>1. Y \in SUBSET Live /\ (p \in Live => p \notin Y)
    BY <1>1 DEF Younger
  <2> HIDE DEF Y
  <2>2. IsFiniteSet(Y) /\ Cardinality(Y) <= Cardinality(Live)
        /\ (Cardinality(Live) = Cardinality(Y) => Live = Y)
    BY <1>1, <2>1, FS_Subset
  <2>3. Cardinality(Y) \in Nat
    BY <2>2, FS_CardinalityType
  <2>4. p \in Live => Cardinality(Y) < Cardinality(Live)
    BY <1>2, <2>1, <2>2, <2>3
  <2> QED
    BY <2>3, <2>4 DEF Y
<1> QED
  BY <1>1, <1>2, <1>3

\* A response with what is on this page: the next page is behind it if the
\* total says that there is one.
LEMMA RespondInv ==
    ASSUME IInv, view.pc \in {"page", "count"}, NEW P \in SUBSET Plugs, NEW n \in Nat,
           Respond(P, n), UNCHANGED <<plug, older, objects, req, tx, mourned, named, mix>>,
           \A p \in P : plug[p].state # "none",
           ~Excused => /\ n = Cardinality(Live)
                       /\ \A p \in view.goal :
                            \/ p \in view.seen \cup P
                            \/ Cardinality(Younger(p)) >= view.skip + 1
    PROVE  IInv'
<1> DEFINE more == view.skip + 1 < n
           s == IF more THEN view.skip + 1 ELSE view.skip
           c == IF more THEN FirstStatement(view.mode) ELSE "done"
           v == [view EXCEPT !.seen = @ \cup P, !.total = 0, !.page = {}, !.skip = s, !.pc = c]
<1>1. view' = v
  BY DEF Respond
<1>2. /\ view \in View /\ ViewInv /\ view.skip \in Nat /\ view.seen \in SUBSET Plugs
      /\ view.mode \in {"list", "search"} /\ view.goal \in SUBSET Plugs
  BY DEF IInv, TypeOK, View, ViewInv, PagesInv
<1>3. /\ s \in Nat /\ c \in {"page", "count", "done"}
      /\ c # "done" => s = view.skip + 1 /\ c = FirstStatement(view.mode)
      /\ c = "done" => n <= view.skip + 1
  BY <1>2 DEF FirstStatement
<1> HIDE DEF s, c, more
<1>4. /\ v \in View /\ v.pc = c /\ v.mode = view.mode /\ v.goal = view.goal /\ v.skip = s
      /\ v.page = {} /\ v.seen = view.seen \cup P /\ v.twice = view.twice
      /\ v.churn = view.churn /\ v.total = 0
  BY <1>2, <1>3 DEF View
<1> HIDE DEF v
<1>5. Live' = Live /\ (\A p : Younger(p)' = Younger(p)) /\ UNCHANGED plug
  BY DEF Live, Younger
<1>6. Excused' = Excused
  BY <1>1, <1>4 DEF Excused
<1>7. c # "done" => Passed' = s
  BY <1>1, <1>2, <1>3, <1>4 DEF Passed, FirstStatement
<1>8. ~Excused => view.goal \subseteq Live
  BY <1>2 DEF ViewInv, Running, Excused
<1>9. PagesInv'
  <2>1. CASE c # "done"
    <3>1. ~Excused => \A p \in view.goal : \/ p \in v.seen \cup v.page
                                           \/ Cardinality(Younger(p)) >= s
      BY <1>3, <1>4, <2>1
    <3>2. ~ (c = "page" /\ view.mode = "search")
      BY <1>2, <1>3, <2>1 DEF FirstStatement
    <3>3. ~Excused => \A p \in view.goal : \/ p \in view'.seen \cup view'.page
                                           \/ Cardinality(Younger(p)') >= Passed'
      BY <1>1, <1>5, <1>7, <2>1, <3>1
    <3> QED
      BY <1>1, <1>2, <1>3, <1>4, <1>6, <2>1, <3>2, <3>3 DEF PagesInv
  <2>2. CASE c = "done"
    <3>1. ASSUME ~Excused, NEW p \in view.goal \cap Live PROVE p \in v.seen
      <4>1. /\ Cardinality(Younger(p)) \in Nat
            /\ Cardinality(Younger(p)) < n
        BY <3>1, YoungerFewer
      <4> QED
        BY <1>2, <1>3, <1>4, <2>2, <3>1, <4>1
    <3> QED
      BY <1>1, <1>4, <1>5, <1>6, <2>2, <3>1 DEF PagesInv
  <2> QED
    BY <2>1, <2>2
<1>10. CountsInv'
  BY <1>1, <1>2, <1>3, <1>4 DEF CountsInv
<1>11. ViewInv'
  BY <1>1, <1>2, <1>3, <1>4, <1>5, <1>9, <1>10 DEF ViewInv, Running
<1> QED
  BY <1>1, <1>4, <1>11, ClientStep

\* What the page that is read next shows: the plugs with as many younger ones
\* as are on the pages behind.
LEMMA PageFields ==
    ASSUME IInv, view.pc = "page"
    PROVE  /\ PageAt(view.skip) \in SUBSET Plugs /\ view.skip \in Nat
           /\ \A p \in PageAt(view.skip) : plug[p].state # "none"
           /\ ~Excused => \A p \in view.goal :
                \/ p \in view.seen \cup PageAt(view.skip)
                \/ Cardinality(Younger(p)) >= view.skip + 1
<1>1. view \in View /\ view.skip \in Nat /\ ViewInv /\ Passed = view.skip
  BY DEF IInv, TypeOK, View, Passed
<1>2. ASSUME ~Excused, NEW p \in view.goal
      PROVE  \/ p \in view.seen \cup PageAt(view.skip)
             \/ Cardinality(Younger(p)) >= view.skip + 1
  <2>1. p \in Live
    BY <1>1, <1>2 DEF ViewInv, Running, Excused
  <2>2. p \in view.seen \/ Cardinality(Younger(p)) >= view.skip
    BY <1>1, <1>2 DEF ViewInv, PagesInv
  <2>3. Cardinality(Younger(p)) \in Nat
    BY YoungerFewer
  <2>4. Cardinality(Younger(p)) = view.skip => p \in PageAt(view.skip)
    BY <2>1 DEF PageAt
  <2> QED
    BY <1>1, <2>2, <2>3, <2>4
<1> QED
  BY <1>1, <1>2 DEF PageAt, Live

\* A page is read: the list counts after it, the search has counted before.
LEMMA ReadPageInv == ASSUME IInv, ReadPage PROVE IInv'
<1>1. /\ view.pc = "page" /\ view \in View /\ ViewInv
      /\ UNCHANGED <<plug, older, objects, req, tx, mourned, named, mix>>
      /\ view.mode \in {"list", "search"} /\ view.total \in Nat /\ view.skip \in Nat
  BY DEF ReadPage, IInv, TypeOK, ViewInv, PagesInv, View
<1>2. /\ PageAt(view.skip) \in SUBSET Plugs
      /\ \A p \in PageAt(view.skip) : plug[p].state # "none"
      /\ ~Excused => \A p \in view.goal :
                \/ p \in view.seen \cup PageAt(view.skip)
                \/ Cardinality(Younger(p)) >= view.skip + 1
  BY <1>1, PageFields
<1>3. CASE view.mode = "search"
  <2>1. Respond(PageAt(view.skip), view.total)
    BY <1>3 DEF ReadPage, FirstStatement
  <2>2. ~Excused => view.total = Cardinality(Live)
    BY <1>1, <1>3 DEF ViewInv, PagesInv
  <2> QED
    BY <1>1, <1>2, <2>1, <2>2, RespondInv
<1>4. CASE view.mode = "list"
  <2> DEFINE P == PageAt(view.skip)
             v == [view EXCEPT !.pc = "count", !.page = P]
  <2>1. view' = v
    BY <1>4 DEF ReadPage, FirstStatement
  <2> HIDE DEF P
  <2>2. /\ v \in View /\ v.pc = "count" /\ v.mode = "list" /\ v.goal = view.goal
        /\ v.skip = view.skip /\ v.page = P /\ v.seen = view.seen /\ v.twice = view.twice
        /\ v.churn = view.churn /\ v.total = view.total
    BY <1>1, <1>2, <1>4 DEF View, P
  <2> HIDE DEF v
  <2>3. Live' = Live /\ (\A p : Younger(p)' = Younger(p)) /\ UNCHANGED plug
    BY <1>1 DEF Live, Younger
  <2>4. Excused' = Excused /\ Passed' = view.skip + 1
    BY <1>4, <2>1, <2>2 DEF Excused, Passed
  <2>5. ~Excused => \A p \in view.goal : \/ p \in view'.seen \cup view'.page
                                         \/ Cardinality(Younger(p)') >= Passed'
    BY <1>2, <2>1, <2>2, <2>3, <2>4 DEF P
  <2>6. PagesInv'
    BY <2>1, <2>2, <2>4, <2>5 DEF PagesInv
  <2>7. CountsInv'
    BY <2>1, <2>2 DEF CountsInv
  <2>8. ViewInv'
    BY <1>1, <1>2, <2>1, <2>2, <2>3, <2>6, <2>7 DEF ViewInv, Running, P
  <2> QED
    BY <1>1, <2>1, <2>2, <2>8, ClientStep
<1> QED
  BY <1>1, <1>3, <1>4

\* The rows are counted: the search reads its page next, the list has read it.
LEMMA CountRowsInv == ASSUME IInv, CountRows PROVE IInv'
<1>1. /\ view.pc = "count" /\ view \in View /\ ViewInv
      /\ UNCHANGED <<plug, older, objects, req, tx, mourned, named, mix>>
      /\ view.mode \in {"list", "search"} /\ view.page \in SUBSET Plugs
  BY DEF CountRows, IInv, TypeOK, ViewInv, PagesInv, View
<1>2. Cardinality(Live) \in Nat
  BY YoungerFewer
<1>3. CASE view.mode = "list"
  <2>1. Respond(view.page, Cardinality(Live))
    BY <1>3 DEF CountRows, FirstStatement
  <2>2. ~Excused => \A p \in view.goal : \/ p \in view.seen \cup view.page
                                         \/ Cardinality(Younger(p)) >= view.skip + 1
    BY <1>1, <1>3 DEF ViewInv, PagesInv, Passed
  <2>3. \A p \in view.page : plug[p].state # "none"
    BY <1>1 DEF ViewInv, Running
  <2> QED
    BY <1>1, <1>2, <2>1, <2>2, <2>3, RespondInv
<1>4. CASE view.mode = "search"
  <2> DEFINE n == Cardinality(Live)
             v == [view EXCEPT !.pc = "page", !.total = n]
  <2>1. view' = v
    BY <1>4 DEF CountRows, FirstStatement
  <2> HIDE DEF n
  <2>2. /\ v \in View /\ v.pc = "page" /\ v.mode = "search" /\ v.goal = view.goal
        /\ v.skip = view.skip /\ v.page = view.page /\ v.seen = view.seen
        /\ v.twice = view.twice /\ v.churn = view.churn /\ v.total = n
    BY <1>1, <1>2, <1>4 DEF View, n
  <2> HIDE DEF v
  <2>3. Live' = Live /\ (\A p : Younger(p)' = Younger(p)) /\ UNCHANGED plug
    BY <1>1 DEF Live, Younger
  <2>4. Excused' = Excused /\ Passed' = Passed
    BY <1>1, <1>4, <2>1, <2>2 DEF Excused, Passed
  <2>5. PagesInv'
    BY <1>1, <1>4, <2>1, <2>2, <2>3, <2>4 DEF ViewInv, PagesInv, n
  <2>6. CountsInv'
    BY <2>1, <2>2 DEF CountsInv
  <2>7. ViewInv'
    BY <1>1, <2>1, <2>2, <2>3, <2>5, <2>6 DEF ViewInv, Running
  <2> QED
    BY <1>1, <2>1, <2>2, <2>7, ClientStep
<1> QED
  BY <1>1, <1>3, <1>4

\* A count of the dashboard: every plug that has been there all the while is a
\* lead when leads are counted or a contact when contacts are.
LEMMA CountPlugsInv == ASSUME IInv, CountPlugs PROVE IInv'
<1> DEFINE C == {p \in Live : plug[p].kind = KindCounted(view.pc)}
           c == IF view.pc = "leads" THEN "contacts" ELSE "recent"
           v == [view EXCEPT !.pc = c, !.seen = @ \cup C, !.twice = view.seen \cap C]
<1>1. /\ view.pc \in {"leads", "contacts"} /\ view \in View /\ ViewInv
      /\ UNCHANGED <<plug, older, objects, req, tx, mourned, named, mix>>
      /\ view.mode = "dashboard" /\ view' = v
  BY DEF CountPlugs, NextStatement, IInv, TypeOK, ViewInv, CountsInv
<1>2. /\ C \in SUBSET Plugs /\ C \subseteq Live
      /\ \A p \in Live : p \in C <=> plug[p].kind = KindCounted(view.pc)
      /\ \A p \in Live : plug[p].state = "live" /\ plug[p].kind \in {"target", "contact"}
  BY RowFields DEF Live, IInv, TypeOK
<1> HIDE DEF C
<1>3. /\ v \in View /\ v.pc = c /\ v.mode = "dashboard" /\ v.goal = view.goal
      /\ v.seen = view.seen \cup C /\ v.twice = view.seen \cap C /\ v.churn = view.churn
      /\ v.page = view.page
  BY <1>1, <1>2 DEF View
<1> HIDE DEF v
<1>4. Live' = Live /\ UNCHANGED plug
  BY <1>1 DEF Live
<1>5. CountsInv'
  <2>1. CASE view.pc = "leads"
    <3>1. view.seen = {} /\ c = "contacts" /\ KindCounted(view.pc) = "target"
      BY <1>1, <2>1 DEF ViewInv, CountsInv, KindCounted
    <3> QED
      BY <1>1, <1>2, <1>3, <1>4, <3>1 DEF CountsInv
  <2>2. CASE view.pc = "contacts"
    <3>1. c = "recent" /\ KindCounted(view.pc) = "contact"
      BY <2>2 DEF KindCounted
    <3>2. view.goal \cap Live \subseteq view.seen \cup C
      BY <1>1, <1>2, <2>2, <3>1 DEF ViewInv, CountsInv
    <3>3. view.seen \cap C # {} => "converted" \in view.churn
      BY <1>1, <1>2, <2>2, <3>1 DEF ViewInv, CountsInv
    <3>4. Live \subseteq view.seen \cup C \/ "created" \in view.churn
      BY <1>1, <2>2, <3>2 DEF ViewInv, Running
    <3> QED
      BY <1>1, <1>3, <1>4, <3>1, <3>2, <3>3, <3>4 DEF CountsInv
  <2> QED
    BY <1>1, <2>1, <2>2
<1>6. PagesInv'
  BY <1>1, <1>3 DEF PagesInv
<1>7. ViewInv'
  BY <1>1, <1>2, <1>3, <1>4, <1>5, <1>6 DEF ViewInv, Running
<1> QED
  BY <1>1, <1>3, <1>7, ClientStep

\* The last statement of the dashboard shows live plugs.
LEMMA RecentPlugsInv == ASSUME IInv, RecentPlugs PROVE IInv'
<1>1. /\ view.pc = "recent" /\ view \in View /\ ViewInv /\ view.mode = "dashboard"
      /\ UNCHANGED <<plug, older, objects, req, tx, mourned, named, mix>>
  BY DEF RecentPlugs, IInv, TypeOK, ViewInv, CountsInv
<1>2. PICK P \in SUBSET Live : view' = [view EXCEPT !.pc = "done", !.page = P]
  BY DEF RecentPlugs
<1> DEFINE v == [view EXCEPT !.pc = "done", !.page = P]
<1>3. /\ v \in View /\ v.pc = "done" /\ v.mode = "dashboard" /\ v.goal = view.goal
      /\ v.seen = view.seen /\ v.twice = view.twice /\ v.churn = view.churn /\ v.page = P
  BY <1>1 DEF View, Live
<1>4. view' = v
  BY <1>2
<1> HIDE DEF v
<1>5. Live' = Live /\ UNCHANGED plug
  BY <1>1 DEF Live
<1>6. CountsInv' /\ PagesInv'
  BY <1>1, <1>3, <1>4, <1>5 DEF ViewInv, CountsInv, PagesInv
<1>7. ViewInv'
  BY <1>1, <1>3, <1>4, <1>5, <1>6 DEF ViewInv, Running
<1> QED
  BY <1>1, <1>3, <1>4, <1>7, ClientStep

-----------------------------------------------------------------------------

\* Every step keeps the invariant.
LEMMA NextInv == IInv /\ [Next]_vars => IInv'
<1> SUFFICES ASSUME IInv, [Next]_vars PROVE IInv'
  OBVIOUS
<1>1. ASSUME NEW r \in Requests, Receive(r) PROVE IInv'
  BY <1>1, RequestInv, CreatePlugInv DEF Receive
<1>2. ASSUME NEW r \in Requests, Serve(r) PROVE IInv'
  <2>1. CASE CheckEmail(r) \/ DeleteOldPicture(r) \/ PutPicture(r) \/ PutPictureFails(r)
             \/ GetAgain(r) \/ WriteRow(r) \/ Commit(r)
    BY <2>1, CheckEmailInv, DeleteOldPictureInv, PutPictureInv, PutPictureFailsInv,
       GetAgainInv, WriteRowInv, CommitInv
  <2>2. CASE CommitNothing(r) \/ CommitFails(r)
    <3>1. Abandon(r) /\ objects' = objects /\ objects \subseteq Files
      BY <2>2 DEF CommitNothing, CommitFails, IInv, TypeOK
    <3> QED
      BY <3>1, AbandonInv
  <2> QED
    BY <1>2, <2>1, <2>2 DEF Serve
<1>3. ASSUME NEW r \in Requests, Crash(r) PROVE IInv'
  <2>1. Abandon(r) /\ objects' = objects /\ objects \subseteq Files
    BY <1>3 DEF Crash, IInv, TypeOK
  <2> QED
    BY <2>1, AbandonInv
<1>4. CASE Browse \/ ReadDashboard
  BY <1>4, BeginInv
<1>5. CASE ReadPage \/ CountRows
  BY <1>5, ReadPageInv, CountRowsInv
<1>6. CASE CountPlugs \/ RecentPlugs
  BY <1>6, CountPlugsInv, RecentPlugsInv
<1>7. CASE UNCHANGED vars
  <2>1. UNCHANGED <<plug, older, objects, req, tx, mourned, view, named, mix>>
    BY <1>7 DEF vars
  <2>2. view \in View /\ ViewInv'
    BY <2>1, ViewKept DEF IInv, TypeOK
  <2> QED
    BY <2>1, <2>2, ClientStep
<1> QED
  BY <1>1, <1>2, <1>3, <1>4, <1>5, <1>6, <1>7 DEF Next

\* In every behaviour, every state satisfies the invariant.
THEOREM Invariance == Spec => []IInv
BY InitInv, NextInv, PTL DEF Spec

\* A plug whose picture is missing has a request under way that deleted it, or
\* one that has failed, or has it from a body that named it.
THEOREM MissingPicturesAreExplained == Spec => []MissingPictureIsAccounted
<1>1. IInv => MissingPictureIsAccounted
  BY DEF IInv, MissingInv, MissingPictureIsAccounted
<1> QED
  BY <1>1, Invariance, PTL

\* A client that has read every page has seen every plug that was there all the
\* time, unless one was deleted, or created during a search.
THEOREM ListsAreComplete == Spec => []ListMissesNothing
<1>1. IInv => ListMissesNothing
  BY DEF IInv, ViewInv, PagesInv, Excused, ListMissesNothing
<1> QED
  BY <1>1, Invariance, PTL

\* The dashboard counts every plug that was there all the time, and none twice
\* that was not converted meanwhile.
THEOREM DashboardIsComplete == Spec => []DashboardCountsEveryPlug
<1>1. IInv => DashboardCountsEveryPlug
  BY DEF IInv, ViewInv, CountsInv, DashboardCountsEveryPlug
<1> QED
  BY <1>1, Invariance, PTL

\* A row changes by a commit only.
LEMMA OnlyCommits ==
    ASSUME IInv, [Next]_vars, plug' # plug
    PROVE  \E r \in Requests : Commit(r)
<1>1. ASSUME NEW r \in Requests, Receive(r) PROVE UNCHANGED plug
  BY <1>1 DEF Receive, CreatePlug, UpdatePlug, ConvertTargetToContact, DeletePlug,
     UploadProfilePicture, DeleteProfilePicture, Load
<1>2. ASSUME NEW r \in Requests, Serve(r), ~Commit(r) PROVE UNCHANGED plug
  <2>1. CASE CheckEmail(r) \/ DeleteOldPicture(r) \/ GetAgain(r)
    BY <2>1 DEF CheckEmail, DeleteOldPicture, GetAgain, Abandon
  <2>2. CASE PutPicture(r) \/ PutPictureFails(r)
    BY <2>2 DEF PutPicture, PutPictureFails, Abandon
  <2>3. CASE WriteRow(r) \/ CommitNothing(r) \/ CommitFails(r)
    BY <2>3 DEF WriteRow, CommitNothing, CommitFails, Abandon
  <2> QED
    BY <1>2, <2>1, <2>2, <2>3 DEF Serve
<1>3. ASSUME NEW r \in Requests, Crash(r) PROVE UNCHANGED plug
  BY <1>3 DEF Crash, Abandon
<1>4. CASE Browse \/ ReadPage \/ CountRows \/ ReadDashboard \/ CountPlugs \/ RecentPlugs
  BY <1>4 DEF Browse, ReadPage, CountRows, ReadDashboard, CountPlugs, RecentPlugs
<1>5. CASE UNCHANGED vars
  BY <1>5 DEF vars
<1> QED
  BY <1>1, <1>2, <1>3, <1>4, <1>5 DEF Next

\* A committed row differs from the one before in what its request was made to
\* change, though every session computes it from a read of its own.
THEOREM NothingIsTakenBack == Spec => StaleReadsTakeNothingBack
<1> DEFINE Kept ==
      \A p \in Plugs : plug'[p] # plug[p] =>
        \E r \in Requests :
            /\ req[r].id = p /\ req[r].pc = "closing"
            /\ plug'[p].state # plug[p].state => req[r].op \in {"create", "delete"}
            /\ plug'[p].kind # plug[p].kind => req[r].op \in {"create", "convert"}
            /\ plug'[p].email # plug[p].email => plug'[p].email = req[r].email
            /\ plug'[p].picture # plug[p].picture =>
                plug'[p].picture = req[r].file /\ req[r].file # req[r].loaded.picture
<1>1. IInv /\ [Next]_vars => Kept
  <2> SUFFICES ASSUME IInv, [Next]_vars, NEW q \in Plugs, plug'[q] # plug[q]
               PROVE  \E r \in Requests :
                /\ req[r].id = q /\ req[r].pc = "closing"
                /\ plug'[q].state # plug[q].state => req[r].op \in {"create", "delete"}
                /\ plug'[q].kind # plug[q].kind => req[r].op \in {"create", "convert"}
                /\ plug'[q].email # plug[q].email => plug'[q].email = req[r].email
                /\ plug'[q].picture # plug[q].picture =>
                    plug'[q].picture = req[r].file /\ req[r].file # req[r].loaded.picture
    OBVIOUS
  <2>1. PICK r \in Requests : Commit(r)
    BY OnlyCommits
  <2>2. PICK h \in Handler, p \in Plugs, n \in Row : CommitOf(r, h, p, n)
    BY <2>1, CommitFields
  <2>3. /\ h = req[r] /\ h.pc = "closing" /\ h.id = p /\ plug[p] \in Row
        /\ n = Merge(h, plug[p]) /\ plug'[p] = n /\ q = p
    BY <2>2 DEF CommitOf
  <2>4. /\ h.op \notin {"create", "delete"} => n.state = plug[p].state
        /\ h.op \notin {"create", "convert"} => n.kind = plug[p].kind
        /\ n.email # plug[p].email => n.email = h.email
        /\ n.picture # plug[p].picture => n.picture = h.file /\ h.file # h.loaded.picture
    BY <2>3, MergeFields
  <2> QED
    BY <2>3, <2>4
<1> QED
  BY <1>1, Invariance, PTL DEF Spec, StaleReadsTakeNothingBack

\* An email that is committed collides only with those of plugs whose row has
\* changed since the request looked for it, unless the plug held it itself then.
THEOREM EmailsAreToldApart == Spec => EmailsCollideOnlyInRaces
<1>1. ASSUME IInv, [Next]_vars, NEW r \in Requests, NEW p, NEW e,
             p = tx[r].id, e = tx[r].row.email, req[r].op \in {"create", "update"},
             tx'[r].id # p, e # NoEmail, plug'[p] = tx[r].row, plug[p].email # e
      PROVE  Holders(e) \subseteq req[r].since \/ req[r].itself
  <2>1. PICK q \in Requests : Commit(q)
    BY <1>1, OnlyCommits
  <2>2. q = r
    BY <1>1, <2>1 DEF Commit, IInv, TypeOK
  <2>3. PICK h \in Handler, x \in Plugs, n \in Row : CommitOf(r, h, x, n)
    BY <1>1, <2>1, <2>2, CommitFields
  <2>4. /\ h = req[r] /\ HandlerInv(h) /\ h.pc = "closing" /\ h.id = p /\ p \in Plugs
        /\ plug[p] \in Row /\ n = Merge(h, plug[p]) /\ n.email = e
    BY <1>1, <2>3 DEF CommitOf
  <2>5. e = h.email /\ h.email \notin {NoEmail, h.loaded.email}
    BY <1>1, <2>4, MergeFields
  <2>6. h.itself \/ Holders(e) \ {p} \subseteq h.since
    BY <1>1, <2>4, <2>5 DEF HandlerInv
  <2>7. p \notin Holders(e)
    BY <1>1 DEF Holders
  <2> QED
    BY <2>4, <2>6, <2>7
<1> DEFINE Told ==
      \A r \in Requests :
        LET p == tx[r].id
            e == tx[r].row.email
        IN  req[r].op \in {"create", "update"} /\ tx'[r].id # p /\ e # NoEmail
            /\ plug'[p] = tx[r].row /\ plug[p].email # e =>
                Holders(e) \subseteq req[r].since \/ req[r].itself
<1>2. IInv /\ [Next]_vars => Told
  BY <1>1
<1> QED
  BY <1>2, Invariance, PTL DEF Spec, EmailsCollideOnlyInRaces

=============================================================================
