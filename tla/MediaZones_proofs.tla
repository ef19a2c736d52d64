-------------------------- MODULE MediaZones_proofs --------------------------
(***************************************************************************)
(* The properties of MediaZones, for every number of requests, zones and   *)
(* files and every bound: first those that hold with every set of faults,  *)
(* then those that need a working S3, workers that live, or requests that  *)
(* are served one after the other, each with that assumption.              *)
(***************************************************************************)
EXTENDS MediaZones, FiniteSetTheorems, TLAPS

(* The records a handler and its session are described by. *)

\* Idle and an empty session are well typed and hold nothing.
LEMMA IdleType ==
    /\ Idle \in Handler /\ Idle.op = "none" /\ Idle.pc = "idle"
    /\ Idle.cur = NoMedia /\ Idle.todo = {} /\ Idle.good = {}
    /\ NoTx \in Transaction /\ NoTx.ins = {} /\ NoTx.del = {}
    /\ NoTx.zoneIns = FALSE /\ NoTx.zoneDel = FALSE /\ NoTx.poisoned = FALSE
BY DEF Idle, Begin, NoTx, Handler, Transaction, PCs, Ops, Deletions, Uploads

\* The fields of a handler have their types.
LEMMA HandlerFields ==
    ASSUME NEW h \in Handler
    PROVE  /\ h.pc \in PCs /\ h.op \in Ops \cup {"none"}
           /\ h.zone \in Zones \cup {NoZone} /\ h.cur \in Media \cup {NoMedia}
           /\ h.todo \in SUBSET Media /\ h.good \in SUBSET Media
BY DEF Handler

\* The fields of a session have their types.
LEMMA TransactionFields ==
    ASSUME NEW t \in Transaction
    PROVE  /\ t.ins \in SUBSET Media /\ t.del \in SUBSET Media
           /\ t.zoneIns \in BOOLEAN /\ t.zoneDel \in BOOLEAN
           /\ t.poisoned \in BOOLEAN
BY DEF Transaction

\* The places of a handler.
LEMMA PcNames ==
    /\ "idle" \in PCs /\ "put" \in PCs /\ "insert" \in PCs /\ "undo" \in PCs
    /\ "unstore" \in PCs /\ "lookup" \in PCs /\ "softDelete" \in PCs
    /\ "remaining" \in PCs /\ "list" \in PCs /\ "commit" \in PCs
    /\ "closing" \in PCs
BY DEF PCs

\* What a handler becomes at each of its steps.
LEMMA PcEdit ==
    ASSUME NEW h \in Handler, NEW p \in PCs
    PROVE  LET k == [h EXCEPT !.pc = p] IN
           /\ k \in Handler /\ k.pc = p /\ k.op = h.op /\ k.zone = h.zone
           /\ k.cur = h.cur /\ k.todo = h.todo /\ k.good = h.good
BY DEF Handler

\* A handler whose good files change.
LEMMA GoodEdit ==
    ASSUME NEW h \in Handler, NEW files \in SUBSET Media
    PROVE  LET k == [h EXCEPT !.good = files] IN
           /\ k \in Handler /\ k.pc = h.pc /\ k.op = h.op /\ k.zone = h.zone
           /\ k.cur = h.cur /\ k.todo = h.todo /\ k.good = files
BY DEF Handler

\* A handler whose files to come change.
LEMMA TodoEdit ==
    ASSUME NEW h \in Handler, NEW files \in SUBSET Media
    PROVE  LET k == [h EXCEPT !.todo = files] IN
           /\ k \in Handler /\ k.pc = h.pc /\ k.op = h.op /\ k.zone = h.zone
           /\ k.cur = h.cur /\ k.todo = files /\ k.good = h.good
BY DEF Handler

\* A handler that takes up the next file, or the commit.
LEMMA NextFileFields ==
    ASSUME NEW h \in Handler
    PROVE  LET k == NextFile(h) IN
           /\ k \in Handler /\ k.pc \in {"put", "commit"} /\ k.op = h.op
           /\ k.zone = h.zone /\ k.cur = NoMedia /\ k.todo = h.todo
           /\ k.good = h.good
<1> DEFINE p == IF h.todo = {} THEN "commit" ELSE "put"
<1>1. p \in PCs /\ p \in {"put", "commit"}
  BY DEF PCs
<1>2. NextFile(h) = [h EXCEPT !.cur = NoMedia, !.pc = p]
  BY DEF NextFile
<1> HIDE DEF p
<1> QED
  BY <1>1, <1>2 DEF Handler

\* A handler that begins.
LEMMA BeginFields ==
    ASSUME NEW op \in Ops, NEW z \in Zones \cup {NoZone},
           NEW files \in SUBSET Media, NEW p \in PCs
    PROVE  LET k == Begin(op, z, files, p) IN
           /\ k \in Handler /\ k.pc = p /\ k.op = op /\ k.zone = z
           /\ k.cur = NoMedia /\ k.todo = files /\ k.good = {}
BY DEF Handler, Begin

\* What a transaction becomes.
LEMMA ZoneDelEdit ==
    ASSUME NEW t \in Transaction, NEW b \in BOOLEAN
    PROVE  LET k == [t EXCEPT !.zoneDel = b] IN
           /\ k \in Transaction /\ k.ins = t.ins /\ k.del = t.del
           /\ k.zoneIns = t.zoneIns /\ k.zoneDel = b /\ k.poisoned = t.poisoned
BY DEF Transaction

\* A session that is poisoned, and one that has inserted a zone only.
LEMMA NoTxEdits ==
    /\ LET k == [NoTx EXCEPT !.poisoned = TRUE] IN
       /\ k \in Transaction /\ k.ins = {} /\ k.del = {} /\ k.zoneIns = FALSE
       /\ k.zoneDel = FALSE /\ k.poisoned = TRUE
    /\ LET k == [NoTx EXCEPT !.zoneIns = TRUE] IN
       /\ k \in Transaction /\ k.ins = {} /\ k.del = {} /\ k.zoneIns = TRUE
       /\ k.zoneDel = FALSE /\ k.poisoned = FALSE
BY DEF NoTx, Transaction

-----------------------------------------------------------------------------
(* A step of one request, and what it leaves alone. *)

\* A step of one request leaves the handlers and sessions of the others.
LEMMA StepFacts ==
    ASSUME StateOK, NEW r \in Requests, NEW h \in Handler, NEW t \in Transaction,
           Step(r, h, t)
    PROVE  /\ req' \in [Requests -> Handler] /\ tx' \in [Requests -> Transaction]
           /\ req'[r] = h /\ tx'[r] = t
           /\ \A q \in Requests : q # r => req'[q] = req[q] /\ tx'[q] = tx[q]
BY DEF StateOK, Step

\* The invariant of a request survives the steps of the others.
LEMMA Others ==
    ASSUME IInv, NEW q \in Requests, req'[q] = req[q], tx'[q] = tx[q],
           \A m \in Media : mediaRow[m] # "none" => mediaRow'[m] # "none",
           \A z \in Zones : zoneRow[z] # "none" => zoneRow'[z] # "none",
           \A m \in Held(q) : mediaRow'[m] = mediaRow[m] /\ zoneOf'[m] = zoneOf[m]
                              /\ origin'[m] # "none",
           \A m \in Held(q) : m \in objects \cup doomed => m \in objects' \cup doomed'
    PROVE  UploadInv(q)' /\ DeletionInv(q)' /\ Held(q)' = Held(q)
<1>1. req[q] \in Handler /\ tx[q] \in Transaction
  BY DEF IInv, StateOK
<1>2. Held(q)' = Held(q) /\ AtHand(q)' = AtHand(q)
  BY DEF Held, AtHand
<1>3. UploadInv(q) /\ DeletionInv(q)
  BY DEF IInv
<1>4. ASSUME req[q].op \in Uploads PROVE UploadInv(q)'
  <2>1. tx[q].ins \subseteq Held(q)
    BY <1>4 DEF Held
  <2>2. req[q].cur \in Media => req[q].cur \in Held(q)
    BY <1>4, NoMediaAssumption DEF Held, AtHand
  <2>3. req[q].zone \in Zones
    BY <1>3, <1>4 DEF UploadInv
  <2> QED
    BY <1>2, <1>3, <1>4, <2>1, <2>2, <2>3 DEF UploadInv
<1>5. DeletionInv(q)'
  <2>1. tx[q].del \cup req[q].todo \cup AtHand(q) \subseteq Media
    BY <1>1, HandlerFields, TransactionFields DEF AtHand
  <2> QED
    BY <1>2, <1>3, <2>1 DEF DeletionInv
<1> QED
  BY <1>2, <1>4, <1>5 DEF UploadInv

\* A step that leaves the tables alone: what remains to be shown is about its
\* own request.
LEMMA QuietStep ==
    ASSUME IInv, NEW r \in Requests, NEW h \in Handler, NEW t \in Transaction,
           Step(r, h, t),
           UNCHANGED <<zoneRow, mediaRow, zoneOf, origin, ackStored>>,
           objects' \subseteq Media, doomed' \subseteq Media,
           ackDeleted' \subseteq Media,
           \A m \in objects \cup doomed : m \in objects' \cup doomed' \cup Held(r),
           Held(r)' \subseteq Held(r),
           \A q \in Requests \ {r} : t.del \cap tx[q].del = {},
           UploadInv(r)', DeletionInv(r)'
    PROVE  IInv'
<1>1. /\ req' \in [Requests -> Handler] /\ tx' \in [Requests -> Transaction]
      /\ req'[r] = h /\ tx'[r] = t
      /\ \A q \in Requests : q # r => req'[q] = req[q] /\ tx'[q] = tx[q]
  BY StepFacts DEF IInv
<1>2. StateOK'
  BY <1>1 DEF IInv, StateOK
<1>h. \A q \in Requests : \A m \in Held(q) :
        mediaRow[m] = "none" /\ origin[m] # "none"
  BY DEF IInv, UploadInv, Held
<1>3. ASSUME NEW q \in Requests, q # r
      PROVE  UploadInv(q)' /\ DeletionInv(q)' /\ Held(q)' = Held(q)
  <2>1. Held(q) \cap Held(r) = {}
    BY <1>3 DEF IInv, Disjoint
  <2>2. \A m \in Held(q) : m \in objects \cup doomed => m \in objects' \cup doomed'
    BY <2>1
  <2> QED
    BY <1>1, <1>3, <1>h, <2>2, Others
<1>4. Disjoint'
  <2> SUFFICES ASSUME NEW a \in Requests, NEW b \in Requests, a # b
               PROVE  /\ Held(a)' \cap Held(b)' = {}
                      /\ tx'[a].del \cap tx'[b].del = {}
    BY DEF Disjoint
  <2>1. Held(a)' \subseteq Held(a) /\ Held(b)' \subseteq Held(b)
    BY <1>3
  <2>2. Held(a) \cap Held(b) = {} /\ tx[a].del \cap tx[b].del = {}
    BY DEF IInv, Disjoint
  <2> QED
    BY <1>1, <2>1, <2>2
<1>5. TablesInv'
  <2>1. \A m \in Held(r) : mediaRow[m] = "none"
    BY <1>h
  <2> QED
    BY <2>1 DEF IInv, TablesInv, RowHasZone, LiveRowHasObject, StoredIsCommitted
<1> QED
  BY <1>2, <1>3, <1>4, <1>5 DEF IInv

\* A session that ends without a commit leaves nothing to be shown.
LEMMA IdleStep ==
    ASSUME StateOK, NEW r \in Requests, EndSession(r)
    PROVE  /\ Step(r, Idle, NoTx)
           /\ UploadInv(r)' /\ DeletionInv(r)' /\ Held(r)' = {}
<1>1. Step(r, Idle, NoTx)
  BY DEF EndSession
<1>2. req'[r] = Idle /\ tx'[r] = NoTx
  BY <1>1, IdleType, StepFacts
<1>3. "none" \notin Uploads
  BY DEF Uploads
<1> QED
  BY <1>1, <1>2, <1>3, IdleType DEF UploadInv, DeletionInv, Held, AtHand

\* A session that ends without a commit, and may take objects it held along.
LEMMA EndSessionInv ==
    ASSUME IInv, NEW r \in Requests, EndSession(r),
           UNCHANGED <<zoneRow, mediaRow, zoneOf, origin, doomed, ackStored,
                       ackDeleted>>,
           objects' \subseteq objects,
           \A m \in objects : m \in objects' \cup Held(r)
    PROVE  IInv'
<1>1. StateOK
  BY DEF IInv
<1>2. objects' \subseteq Media /\ doomed' \subseteq Media /\ ackDeleted' \subseteq Media
  BY <1>1 DEF StateOK
<1> QED
  BY <1>1, <1>2, IdleStep, IdleType, QuietStep

-----------------------------------------------------------------------------
(* Uploads keep the invariant. *)

\* A new upload holds files that nobody has used.
LEMMA StartUploadInv ==
    ASSUME IInv, NEW r \in Requests, NEW op \in Uploads, NEW z \in Zones,
           NEW files \in SUBSET FreshFiles, NEW t \in Transaction,
           t.ins = {}, t.del = {}, t.zoneDel = FALSE, t.poisoned = FALSE,
           op = "batch" => t.zoneIns, op = "add" => zoneRow[z] # "none",
           StartUpload(r, op, z, files, t)
    PROVE  IInv'
<1> DEFINE b == Begin(op, z, files, "put")
           h == NextFile(b)
<1>f. files \in SUBSET Media /\ \A m \in files : origin[m] = "none"
  BY DEF FreshFiles
<1>b. /\ b \in Handler /\ b.op = op /\ b.zone = z /\ b.todo = files /\ b.good = {}
  <2>1. op \in Ops /\ z \in Zones \cup {NoZone} /\ "put" \in PCs
    BY DEF Ops, Deletions, PCs
  <2> QED
    BY <1>f, <2>1, BeginFields
<1>h. /\ h \in Handler /\ h.op = op /\ h.zone = z /\ h.todo = files
      /\ h.good = {} /\ h.cur = NoMedia /\ h.pc \in {"put", "commit"}
  <2> HIDE DEF b
  <2> QED
    BY <1>b, NextFileFields
<1>s. Step(r, h, t)
  BY DEF StartUpload
<1>u. /\ UNCHANGED <<zoneRow, mediaRow, zoneOf, objects, doomed, ackStored,
                     ackDeleted>>
      /\ origin' = [m \in Media |-> IF m \in files THEN op ELSE origin[m]]
  BY DEF StartUpload, tables, acks
<1> HIDE DEF h
<1>1. /\ req' \in [Requests -> Handler] /\ tx' \in [Requests -> Transaction]
      /\ req'[r] = h /\ tx'[r] = t
      /\ \A q \in Requests : q # r => req'[q] = req[q] /\ tx'[q] = tx[q]
  BY <1>s, <1>h, StepFacts DEF IInv
<1>2. StateOK'
  BY <1>1, <1>u, <1>f DEF IInv, StateOK
<1>o. \A m \in Media : /\ mediaRow[m] # "none" => origin[m] # "none"
                       /\ origin[m] # "none" => origin'[m] # "none"
                       /\ m \in files => origin'[m] # "none" /\ mediaRow[m] = "none"
  BY <1>u, <1>f DEF IInv, TablesInv, Uploads
<1>3. ASSUME NEW q \in Requests, q # r
      PROVE  UploadInv(q)' /\ DeletionInv(q)' /\ Held(q)' = Held(q)
  <2>1. \A m \in Held(q) : m \in Media /\ origin[m] # "none"
    <3>1. Held(q) \subseteq Media
      BY HandlerFields, TransactionFields DEF IInv, StateOK, Held, AtHand
    <3> QED
      BY <3>1 DEF IInv, UploadInv, Held
  <2> QED
    BY <1>1, <1>3, <1>u, <1>o, <2>1, Others
<1>4. Held(r)' = files
  BY <1>1, <1>h DEF Held, AtHand
<1>5. UploadInv(r)'
  BY <1>1, <1>h, <1>4, <1>o, <1>u, <1>f DEF UploadInv
<1>6. DeletionInv(r)'
  BY <1>1, <1>h DEF DeletionInv
<1>7. Disjoint'
  <2> SUFFICES ASSUME NEW a \in Requests, NEW c \in Requests, a # c
               PROVE  /\ Held(a)' \cap Held(c)' = {}
                      /\ tx'[a].del \cap tx'[c].del = {}
    BY DEF Disjoint
  <2>1. \A q \in Requests : q # r => Held(q) \cap files = {}
    BY <1>f DEF IInv, UploadInv, Held
  <2>2. Held(a) \cap Held(c) = {} /\ tx[a].del \cap tx[c].del = {}
    BY DEF IInv, Disjoint
  <2> QED
    BY <1>1, <1>3, <1>4, <2>1, <2>2
<1>8. TablesInv'
  BY <1>u, <1>o DEF IInv, TablesInv, RowHasZone, LiveRowHasObject, StoredIsCommitted
<1> QED
  BY <1>2, <1>3, <1>5, <1>6, <1>7, <1>8 DEF IInv

\* A file that is stored was in the hands of its request.
LEMMA PutObjectInv == ASSUME IInv, NEW r \in Requests, PutObject(r) PROVE IInv'
<1>1. PICK m \in req[r].todo :
        objects' = objects \cup {m} /\ Step(r, Take(req[r], m, "insert"), tx[r])
  BY DEF PutObject
<1>2. UNCHANGED <<zoneRow, mediaRow, zoneOf, origin, doomed, ackStored, ackDeleted>>
  BY DEF PutObject, tables, acks
<1> DEFINE h == Take(req[r], m, "insert")
<1>t. req[r] \in Handler /\ tx[r] \in Transaction /\ m \in Media
  BY HandlerFields DEF IInv, StateOK
<1>h. /\ h \in Handler /\ h.pc = "insert" /\ h.op = req[r].op
      /\ h.zone = req[r].zone /\ h.cur = m /\ h.todo \subseteq req[r].todo
      /\ m \notin h.todo
      /\ h.good = req[r].good
  BY <1>t, PcNames DEF Take, Handler
<1>9. Step(r, h, tx[r])
  BY <1>1
<1> HIDE DEF h
<1>3. req'[r] = h /\ tx'[r] = tx[r]
  BY <1>9, <1>h, <1>t, StepFacts DEF IInv
<1>4. req[r].op \in Uploads
  BY DEF PutObject, IInv, DeletionInv
<1>5. Held(r)' \subseteq Held(r)
  BY <1>3, <1>h, <1>4 DEF Held, AtHand
<1>6. UploadInv(r)'
  <2>1. UploadInv(r)
    BY DEF IInv
  <2> QED
    BY <1>1, <1>2, <1>3, <1>h, <1>t, <1>4, <1>5, <2>1 DEF UploadInv
<1>7. DeletionInv(r)'
  BY <1>3, <1>h, <1>4 DEF DeletionInv
<1>8. objects' \subseteq Media /\ doomed' \subseteq Media /\ ackDeleted' \subseteq Media
  BY <1>1, <1>2, <1>t DEF IInv, StateOK
<1> QED
  BY <1>1, <1>2, <1>t, <1>h, <1>5, <1>6, <1>7, <1>8, <1>9, QuietStep DEF IInv, Disjoint

\* A put that fails may have stored the object all the same.
LEMMA PutFailsInv == ASSUME IInv, NEW r \in Requests, PutFails(r) PROVE IInv'
<1> DEFINE g(m) == Take(req[r], m, "undo")
           k(m) == IF g(m).op = "upload" THEN g(m) ELSE NextFile(g(m))
<1>1. PICK m \in req[r].todo :
        objects' \in {objects, objects \cup {m}} /\ Step(r, k(m), tx[r])
  BY DEF PutFails
<1>2. UNCHANGED <<zoneRow, mediaRow, zoneOf, origin, doomed, ackStored, ackDeleted>>
  BY DEF PutFails, tables, acks
<1> DEFINE h == k(m)
<1>t. req[r] \in Handler /\ tx[r] \in Transaction /\ m \in Media
  BY HandlerFields DEF IInv, StateOK
<1>4. req[r].op \in Uploads /\ req[r].pc = "put"
  BY DEF PutFails, IInv, DeletionInv
<1>g. /\ g(m) \in Handler /\ g(m).pc = "undo" /\ g(m).op = req[r].op
      /\ g(m).zone = req[r].zone /\ g(m).cur = m /\ g(m).todo \subseteq req[r].todo
      /\ m \notin g(m).todo
      /\ g(m).good = req[r].good
  <2> HIDE DEF k
  <2> QED
    BY <1>t, PcNames DEF Take, Handler
<1>h. /\ h \in Handler /\ h.op = req[r].op /\ h.zone = req[r].zone
      /\ h.cur \in {m, NoMedia} /\ h.todo \subseteq req[r].todo
      /\ h.good = req[r].good
      /\ h.pc \in {"put", "undo", "commit"}
      /\ h.pc = "undo" => h.cur = m /\ req[r].op = "upload"
  <2>1. CASE g(m).op = "upload"
    <3>1. h = g(m)
      BY <2>1
    <3> HIDE DEF h, k, g
    <3> QED
      BY <1>g, <2>1, <3>1
  <2>2. CASE g(m).op # "upload"
    <3>1. h = NextFile(g(m))
      BY <2>2
    <3> HIDE DEF h, k, g
    <3> QED
      BY <1>g, <2>2, <3>1, NextFileFields
  <2> QED
    BY <2>1, <2>2
<1>9. Step(r, h, tx[r])
  BY <1>1
<1> HIDE DEF h, k, g
<1>3. req'[r] = h /\ tx'[r] = tx[r]
  BY <1>9, <1>h, <1>t, StepFacts DEF IInv
<1>5. Held(r)' \subseteq Held(r)
  BY <1>1, <1>3, <1>h, <1>4 DEF Held, AtHand
<1>6. UploadInv(r)'
  <2>1. UploadInv(r)
    BY DEF IInv
  <2> QED
    BY <1>1, <1>2, <1>3, <1>h, <1>t, <1>4, <1>5, <2>1 DEF UploadInv
<1>7. DeletionInv(r)'
  BY <1>3, <1>h, <1>4 DEF DeletionInv
<1>8. objects' \subseteq Media /\ doomed' \subseteq Media /\ ackDeleted' \subseteq Media
  BY <1>1, <1>2, <1>t DEF IInv, StateOK
<1> QED
  BY <1>1, <1>2, <1>t, <1>h, <1>5, <1>6, <1>7, <1>8, <1>9, QuietStep DEF IInv, Disjoint

\* A row that is inserted has its object, and its zone comes with it.
LEMMA InsertMediaInv == ASSUME IInv, NEW r \in Requests, InsertMedia(r) PROVE IInv'
<1> DEFINE m == req[r].cur
           g == [req[r] EXCEPT !.good = req[r].good \cup {m}]
           h == NextFile(g)
           b == tx[r].zoneIns \/ req[r].op = "upload"
           t == [tx[r] EXCEPT !.ins = @ \cup {m}, !.zoneIns = b]
<1>s. Step(r, h, t) /\ zoneOf' = [zoneOf EXCEPT ![m] = req[r].zone]
  BY DEF InsertMedia
<1>u. UNCHANGED <<zoneRow, mediaRow, origin, objects, doomed, ackStored, ackDeleted>>
  BY DEF InsertMedia, tables, acks
<1>i. UploadInv(r) /\ req[r].op \in Uploads /\ req[r].pc = "insert" /\ ~tx[r].poisoned
  BY DEF InsertMedia, IInv, DeletionInv
<1>r. req[r] \in Handler /\ tx[r] \in Transaction /\ m \in Media /\ m # NoMedia
  BY <1>i, NoMediaAssumption DEF IInv, StateOK, UploadInv
<1>g. /\ g \in Handler /\ g.op = req[r].op /\ g.zone = req[r].zone
      /\ g.todo = req[r].todo /\ g.good = req[r].good \cup {m}
  <2>1. req[r].good \cup {m} \in SUBSET Media
    BY <1>r, HandlerFields
  <2> QED
    BY <1>r, <2>1, GoodEdit
<1>h. /\ h \in Handler /\ h.op = req[r].op /\ h.zone = req[r].zone
      /\ h.todo = req[r].todo /\ h.good = req[r].good \cup {m}
      /\ h.cur = NoMedia /\ h.pc \in {"put", "commit"}
  <2> HIDE DEF g
  <2> QED
    BY <1>g, NextFileFields
<1>t. /\ t \in Transaction /\ t.del = tx[r].del
      /\ t.ins \subseteq tx[r].ins \cup {m} /\ tx[r].ins \cup {m} \subseteq t.ins
      /\ t.zoneIns = b /\ t.zoneDel = tx[r].zoneDel /\ t.poisoned = tx[r].poisoned
  <2>1. b \in BOOLEAN
    BY <1>r, TransactionFields
  <2> HIDE DEF b, m
  <2> QED
    BY <1>r, <2>1 DEF Transaction
<1> HIDE DEF h, t, g
<1>1. /\ req' \in [Requests -> Handler] /\ tx' \in [Requests -> Transaction]
      /\ req'[r] = h /\ tx'[r] = t
      /\ \A q \in Requests : q # r => req'[q] = req[q] /\ tx'[q] = tx[q]
  BY <1>s, <1>h, <1>t, StepFacts DEF IInv
<1>z. /\ req[r].zone \in Zones /\ zoneOf'[m] = req[r].zone
      /\ \A x \in Media : x # m => zoneOf'[x] = zoneOf[x]
      /\ zoneOf' \in [Media -> Zones \cup {NoZone}]
  BY <1>s, <1>i, <1>r DEF UploadInv, IInv, StateOK
<1>2. StateOK'
  BY <1>1, <1>u, <1>z DEF IInv, StateOK
<1>m. m \in Held(r) /\ mediaRow[m] = "none"
  BY <1>i, <1>r DEF UploadInv, Held, AtHand
<1>3. ASSUME NEW q \in Requests, q # r
      PROVE  UploadInv(q)' /\ DeletionInv(q)' /\ Held(q)' = Held(q)
  <2>1. \A x \in Held(q) : x \in Media /\ x # m /\ origin[x] # "none"
    <3>1. Held(q) \subseteq Media
      BY HandlerFields, TransactionFields DEF IInv, StateOK, Held, AtHand
    <3> QED
      BY <1>3, <1>m, <3>1 DEF IInv, UploadInv, Held, Disjoint
  <2> QED
    BY <1>1, <1>3, <1>u, <1>z, <2>1, Others
<1>4. Held(r)' \subseteq Held(r)
  BY <1>1, <1>h, <1>t, <1>i, <1>m DEF Held, AtHand
<1>5. UploadInv(r)'
  <2>1. /\ req'[r].pc \in {"put", "commit"} /\ req'[r].zone = req[r].zone
        /\ req'[r].op = req[r].op /\ req'[r].good = req[r].good \cup {m}
        /\ tx'[r].ins \subseteq tx[r].ins \cup {m} /\ tx[r].ins \cup {m} \subseteq tx'[r].ins
        /\ tx'[r].del = tx[r].del
        /\ tx'[r].zoneDel = tx[r].zoneDel /\ tx'[r].poisoned = tx[r].poisoned
        /\ tx'[r].zoneIns = b
    BY <1>1, <1>h, <1>t
  <2>2. tx[r].ins \subseteq Media
    BY <1>r, TransactionFields
  <2>3. \A x \in tx'[r].ins : zoneOf'[x] = req[r].zone
    BY <2>1, <2>2, <1>z, <1>i DEF UploadInv
  <2>4. b \/ zoneRow[req[r].zone] # "none"
    BY <1>i DEF UploadInv, Uploads
  <2> HIDE DEF b
  <2>5. req'[r].op = "batch" /\ ~tx'[r].poisoned => tx'[r].zoneIns
    BY <1>i, <2>1 DEF UploadInv, b
  <2>6. m \in objects \cup doomed /\ tx'[r].ins \cap req'[r].todo = {}
    BY <1>i, <1>1, <1>h, <2>1 DEF UploadInv
  <2>7. tx'[r].ins \subseteq objects \cup doomed
    BY <1>i, <2>1, <2>6 DEF UploadInv
  <2>8. \A x \in Held(r)' : mediaRow[x] = "none" /\ origin[x] # "none"
    BY <1>i, <1>4 DEF UploadInv
  <2>9. ~tx'[r].poisoned => req'[r].good \subseteq tx'[r].ins
    BY <1>i, <2>1 DEF UploadInv
  <2> QED
    BY <1>u, <1>i, <2>1, <2>3, <2>4, <2>5, <2>6, <2>7, <2>8, <2>9 DEF UploadInv
<1>6. DeletionInv(r)'
  BY <1>1, <1>h, <1>i DEF DeletionInv
<1>7. Disjoint'
  <2> SUFFICES ASSUME NEW a \in Requests, NEW c \in Requests, a # c
               PROVE  /\ Held(a)' \cap Held(c)' = {}
                      /\ tx'[a].del \cap tx'[c].del = {}
    BY DEF Disjoint
  <2>1. Held(a) \cap Held(c) = {} /\ tx[a].del \cap tx[c].del = {}
    BY DEF IInv, Disjoint
  <2> QED
    BY <1>1, <1>t, <1>3, <1>4, <2>1
<1>8. TablesInv'
  BY <1>u, <1>z, <1>m DEF IInv, TablesInv, RowHasZone, LiveRowHasObject, StoredIsCommitted
<1> QED
  BY <1>2, <1>3, <1>5, <1>6, <1>7, <1>8 DEF IInv

\* A failed insert drops the rows of the session.
LEMMA InsertFailsInv == ASSUME IInv, NEW r \in Requests, InsertFails(r) PROVE IInv'
<1> DEFINE h == [req[r] EXCEPT !.pc = "undo"]
           t == [NoTx EXCEPT !.poisoned = TRUE]
<1>s. Step(r, h, t)
  BY DEF InsertFails
<1>u. UNCHANGED <<zoneRow, mediaRow, zoneOf, origin, objects, doomed, ackStored,
                  ackDeleted>>
  BY DEF InsertFails, tables, acks
<1>i. UploadInv(r) /\ req[r].op \in Uploads /\ req[r].pc = "insert"
  BY DEF InsertFails, IInv, DeletionInv
<1>r. req[r] \in Handler /\ StateOK
  BY DEF IInv, StateOK
<1>h. /\ h \in Handler /\ h.pc = "undo" /\ h.op = req[r].op /\ h.zone = req[r].zone
      /\ h.cur = req[r].cur /\ h.todo = req[r].todo /\ h.good = req[r].good
  BY <1>r, PcEdit, PcNames
<1>t. /\ t \in Transaction /\ t.ins = {} /\ t.del = {} /\ t.zoneIns = FALSE
      /\ t.zoneDel = FALSE /\ t.poisoned = TRUE
  BY NoTxEdits
<1> HIDE DEF h, t
<1>1. req'[r] = h /\ tx'[r] = t
  BY <1>s, <1>h, <1>t, <1>r, StepFacts
<1>2. Held(r)' \subseteq Held(r)
  BY <1>1, <1>h, <1>t, <1>i DEF Held, AtHand
<1>3. UploadInv(r)'
  BY <1>1, <1>2, <1>h, <1>t, <1>i, <1>u DEF UploadInv
<1>4. DeletionInv(r)'
  BY <1>1, <1>h, <1>i DEF DeletionInv
<1>5. objects' \subseteq Media /\ doomed' \subseteq Media /\ ackDeleted' \subseteq Media
  BY <1>u, <1>r DEF StateOK
<1> QED
  BY <1>s, <1>u, <1>h, <1>t, <1>2, <1>3, <1>4, <1>5, QuietStep

\* The object that is removed has no row.
LEMMA UndoPutInv == ASSUME IInv, NEW r \in Requests, UndoPut(r) PROVE IInv'
<1> DEFINE h == NextFile(req[r])
<1>u. UNCHANGED <<zoneRow, mediaRow, zoneOf, origin, doomed, ackStored, ackDeleted>>
  BY DEF UndoPut, tables, acks
<1>i. UploadInv(r) /\ req[r].op \in Uploads /\ req[r].pc = "undo"
  BY DEF UndoPut, IInv, DeletionInv
<1>r. req[r] \in Handler /\ tx[r] \in Transaction /\ StateOK
      /\ req[r].cur \in Media /\ req[r].cur # NoMedia
  BY <1>i, NoMediaAssumption DEF IInv, StateOK, UploadInv
<1>o. objects' \subseteq objects /\ \A m \in objects : m \in objects' \cup Held(r)
  <2>1. req[r].cur \in Held(r)
    BY <1>i, <1>r DEF Held, AtHand
  <2>2. objects' = objects \ {req[r].cur} \/ objects' = objects
    BY DEF UndoPut
  <2> QED
    BY <2>1, <2>2
<1>1. CASE req[r].op = "upload"
  <2>1. EndSession(r)
    BY <1>1 DEF UndoPut
  <2> QED
    BY <2>1, <1>u, <1>o, EndSessionInv
<1>2. CASE req[r].op # "upload"
  <2>s. Step(r, h, tx[r])
    BY <1>2 DEF UndoPut
  <2>h. /\ h \in Handler /\ h.op = req[r].op /\ h.zone = req[r].zone
        /\ h.todo = req[r].todo /\ h.good = req[r].good
        /\ h.cur = NoMedia /\ h.pc \in {"put", "commit"}
    BY <1>r, NextFileFields
  <2> HIDE DEF h
  <2>1. req'[r] = h /\ tx'[r] = tx[r]
    BY <2>s, <2>h, <1>r, StepFacts
  <2>2. Held(r)' \subseteq Held(r)
    BY <2>1, <2>h, <1>i DEF Held, AtHand
  <2>3. UploadInv(r)'
    <3>1. tx[r].ins \subseteq objects' \cup doomed'
      <4>1. objects' = objects \ {req[r].cur} \/ objects' = objects
        BY DEF UndoPut
      <4>2. req[r].cur \notin tx[r].ins /\ tx[r].ins \subseteq objects \cup doomed
        BY <1>i DEF UploadInv
      <4> QED
        BY <4>1, <4>2, <1>u
    <3> QED
      BY <2>1, <2>2, <2>h, <3>1, <1>i, <1>u DEF UploadInv
  <2>4. DeletionInv(r)'
    BY <2>1, <2>h, <1>i DEF DeletionInv
  <2>5. objects' \subseteq Media /\ doomed' \subseteq Media /\ ackDeleted' \subseteq Media
    BY <1>u, <1>r, <1>o DEF StateOK
  <2> QED
    BY <2>s, <1>u, <1>r, <1>o, <2>h, <2>2, <2>3, <2>4, <2>5, QuietStep DEF IInv, Disjoint
<1> QED
  BY <1>1, <1>2

\* A commit, whatever the transaction holds: its files were in no table before,
\* and no other request holds them.
LEMMA CommitInv ==
    ASSUME IInv, NEW r \in Requests, ApplyCommit(r), EndSession(r),
           UNCHANGED <<zoneOf, origin, objects, doomed>>,
           ackStored' \subseteq ackStored \cup tx[r].ins,
           ackDeleted' \subseteq Media
    PROVE  IInv'
<1>1. /\ req' \in [Requests -> Handler] /\ tx' \in [Requests -> Transaction]
      /\ req'[r] = Idle /\ tx'[r] = NoTx
      /\ \A q \in Requests : q # r => req'[q] = req[q] /\ tx'[q] = tx[q]
  BY IdleType, StepFacts DEF EndSession, IInv
<1>2. UploadInv(r)' /\ DeletionInv(r)' /\ Held(r)' = {}
  BY IdleStep DEF IInv
<1>r. req[r] \in Handler /\ tx[r] \in Transaction
  BY DEF IInv, StateOK
<1>3. tx[r].ins \subseteq Media /\ tx[r].del \subseteq Media
  BY <1>r, TransactionFields
<1>z. \A z \in Zones : zoneRow[z] # "none" => zoneRow'[z] # "none"
  BY DEF ApplyCommit
<1>m. \A m \in Media : mediaRow'[m] = IF m \in tx[r].del THEN "deleted"
                       ELSE IF m \in tx[r].ins THEN "live" ELSE mediaRow[m]
  BY DEF ApplyCommit
<1>i. tx[r].ins # {} =>
        /\ req[r].zone \in Zones /\ zoneRow'[req[r].zone] # "none"
        /\ \A m \in tx[r].ins : zoneOf[m] = req[r].zone /\ origin[m] # "none"
        /\ tx[r].ins \subseteq Held(r) \cap (objects \cup doomed)
  <2> SUFFICES ASSUME tx[r].ins # {}
               PROVE  /\ req[r].zone \in Zones /\ zoneRow'[req[r].zone] # "none"
                      /\ \A m \in tx[r].ins :
                            zoneOf[m] = req[r].zone /\ origin[m] # "none"
                      /\ tx[r].ins \subseteq Held(r) \cap (objects \cup doomed)
    OBVIOUS
  <2>1. UploadInv(r) /\ req[r].op \in Uploads
    BY DEF IInv, DeletionInv
  <2>2. tx[r].ins \subseteq Held(r)
    BY <2>1 DEF Held
  <2>3. req[r].zone \in Zones /\ ~tx[r].zoneDel
    BY <2>1 DEF UploadInv
  <2>4. zoneRow'[req[r].zone] = IF tx[r].zoneIns THEN "live" ELSE zoneRow[req[r].zone]
    BY <2>3 DEF ApplyCommit
  <2> QED
    BY <2>1, <2>2, <2>3, <2>4 DEF UploadInv
<1>d. \A m \in tx[r].del : mediaRow[m] # "none"
  BY DEF IInv, UploadInv, DeletionInv
<1>4. StateOK'
  <2>1. zoneRow' \in [Zones -> RowState] /\ mediaRow' \in [Media -> RowState]
    BY DEF IInv, StateOK, ApplyCommit, RowState
  <2> QED
    BY <1>1, <1>3, <2>1 DEF IInv, StateOK
<1>5. ASSUME NEW q \in Requests, q # r
      PROVE  UploadInv(q)' /\ DeletionInv(q)' /\ Held(q)' = Held(q)
  <2>1. \A m \in Held(q) : /\ m \in Media /\ mediaRow[m] = "none"
                           /\ origin[m] # "none" /\ m \notin Held(r)
    <3>1. Held(q) \subseteq Media
      BY HandlerFields, TransactionFields DEF IInv, StateOK, Held, AtHand
    <3> QED
      BY <1>5, <3>1 DEF IInv, UploadInv, Held, Disjoint
  <2>2. \A m \in Held(q) : mediaRow'[m] = mediaRow[m]
    BY <2>1, <1>m, <1>d, <1>i
  <2>3. \A m \in Media : mediaRow[m] # "none" => mediaRow'[m] # "none"
    BY <1>m
  <2> QED
    BY <1>1, <1>5, <1>z, <2>1, <2>2, <2>3, Others
<1>6. Disjoint'
  <2> SUFFICES ASSUME NEW a \in Requests, NEW c \in Requests, a # c
               PROVE  /\ Held(a)' \cap Held(c)' = {}
                      /\ tx'[a].del \cap tx'[c].del = {}
    BY DEF Disjoint
  <2>1. Held(a) \cap Held(c) = {} /\ tx[a].del \cap tx[c].del = {}
    BY DEF IInv, Disjoint
  <2> QED
    BY <1>1, <1>2, <1>5, <2>1, IdleType
<1>7. TablesInv'
  <2>1. RowHasZone'
    BY <1>m, <1>d, <1>i, <1>z DEF IInv, TablesInv, RowHasZone
  <2>2. LiveRowHasObject'
    BY <1>m, <1>i DEF IInv, TablesInv, LiveRowHasObject
  <2>3. StoredIsCommitted'
    BY <1>m, <1>3 DEF IInv, StateOK, TablesInv, StoredIsCommitted
  <2>4. \A m \in Media : mediaRow'[m] # "none" => origin'[m] # "none"
    BY <1>m, <1>d, <1>i DEF IInv, TablesInv
  <2> QED
    BY <2>1, <2>2, <2>3, <2>4 DEF TablesInv
<1> QED
  BY <1>2, <1>4, <1>5, <1>6, <1>7 DEF IInv

\* An upload reports files it has inserted, and commits them.
LEMMA CommitUploadInv == ASSUME IInv, NEW r \in Requests, CommitUpload(r) PROVE IInv'
<1>1. req[r].good \subseteq tx[r].ins
  BY DEF CommitUpload, IInv, UploadInv
<1>2. ackStored' \subseteq ackStored \cup tx[r].ins
  BY <1>1 DEF CommitUpload
<1>3. ackDeleted' \subseteq Media
  BY DEF CommitUpload, IInv, StateOK
<1> QED
  BY <1>2, <1>3, CommitInv DEF CommitUpload

\* A failed commit leaves no row, whatever objects it leaves.
LEMMA CommitUploadFailsInv ==
    ASSUME IInv, NEW r \in Requests, CommitUploadFails(r)
    PROVE  IInv'
<1>u. UNCHANGED <<zoneRow, mediaRow, zoneOf, origin, objects, doomed, ackStored,
                  ackDeleted>>
  BY DEF CommitUploadFails, tables, acks
<1>1. CASE req[r].op # "upload"
  <2>1. EndSession(r)
    BY <1>1 DEF CommitUploadFails
  <2> QED
    BY <2>1, <1>u, EndSessionInv
<1>2. CASE req[r].op = "upload"
  <2>1. PICK m \in req[r].good :
          Step(r, [Take(req[r], m, "undo") EXCEPT !.good = {}], NoTx)
    BY <1>2 DEF CommitUploadFails
  <2> DEFINE g == Take(req[r], m, "undo")
             h == [g EXCEPT !.good = {}]
  <2>r. req[r] \in Handler /\ StateOK /\ m \in Media /\ req[r].op \in Uploads
        /\ UploadInv(r)
    BY <1>2, HandlerFields DEF IInv, StateOK, Uploads
  <2>g. /\ g \in Handler /\ g.pc = "undo" /\ g.op = req[r].op /\ g.zone = req[r].zone
        /\ g.cur = m /\ g.todo \subseteq req[r].todo
    BY <2>r, PcNames DEF Take, Handler
  <2>s. Step(r, h, NoTx)
    BY <2>1
  <2> HIDE DEF g
  <2>h. /\ h \in Handler /\ h.pc = "undo" /\ h.op = req[r].op /\ h.zone = req[r].zone
        /\ h.cur = m /\ h.todo \subseteq req[r].todo /\ h.good = {}
    BY <2>g DEF Handler
  <2> HIDE DEF h
  <2>2. req'[r] = h /\ tx'[r] = NoTx
    BY <2>s, <2>h, <2>r, IdleType, StepFacts
  <2>3. Held(r)' \subseteq Held(r)
    BY <2>2, <2>h, <2>r, IdleType DEF Held, AtHand
  <2>4. UploadInv(r)'
    BY <2>2, <2>3, <2>h, <2>r, <1>2, <1>u, IdleType DEF UploadInv
  <2>5. DeletionInv(r)'
    BY <2>2, <2>h, <2>r DEF DeletionInv
  <2>6. objects' \subseteq Media /\ doomed' \subseteq Media /\ ackDeleted' \subseteq Media
    BY <1>u, <2>r DEF StateOK
  <2> QED
    BY <2>s, <1>u, <2>h, <2>3, <2>4, <2>5, <2>6, IdleType, QuietStep
<1> QED
  BY <1>1, <1>2

-----------------------------------------------------------------------------
(* Deletions keep the invariant. *)

\* A step of a deletion that leaves all but its own request alone.
LEMMA DeletionStep ==
    ASSUME IInv, NEW r \in Requests, NEW h \in Handler, NEW t \in Transaction,
           Step(r, h, t), UNCHANGED <<tables, zoneOf, origin, ackStored>>,
           objects' \subseteq objects, doomed \subseteq doomed',
           objects \subseteq objects' \cup doomed',
           doomed' \subseteq Media, ackDeleted' \subseteq Media,
           h.op \notin Uploads,
           h.pc \notin {"put", "insert", "undo"},
           h.pc \in {"lookup", "softDelete", "remaining", "closing"} => h.cur \in Media,
           t.ins = {}, t.zoneIns = FALSE,
           \A m \in t.del \cup h.todo \cup ({h.cur} \ {NoMedia}) : mediaRow[m] # "none",
           \A q \in Requests \ {r} : t.del \cap tx[q].del = {}
    PROVE  IInv'
<1>1. req'[r] = h /\ tx'[r] = t
  BY StepFacts DEF IInv
<1>2. UNCHANGED <<zoneRow, mediaRow>>
  BY DEF tables
<1>3. Held(r)' = {} /\ UploadInv(r)'
  BY <1>1 DEF Held, UploadInv
<1>4. DeletionInv(r)'
  BY <1>1, <1>2 DEF DeletionInv, AtHand
<1>5. objects' \subseteq Media
  BY DEF IInv, StateOK
<1> QED
  BY <1>2, <1>3, <1>4, <1>5, QuietStep

\* The next file of a zone that is deleted, or the zone.
LEMMA NextDeleteInv ==
    ASSUME IInv, NEW r \in Requests, NEW h \in Handler, NEW t \in Transaction,
           NextDelete(r, h, t),
           UNCHANGED <<tables, zoneOf, origin, objects, doomed, acks>>,
           h.op \notin Uploads, t.ins = {}, t.zoneIns = FALSE,
           \A m \in t.del \cup h.todo \cup ({h.cur} \ {NoMedia}) : mediaRow[m] # "none",
           \A q \in Requests \ {r} : t.del \cap tx[q].del = {}
    PROVE  IInv'
<1> DEFINE p == IF h.todo = {} THEN "commit" ELSE "unstore"
           b == h.todo = {}
           k == [h EXCEPT !.pc = p]
           u == [t EXCEPT !.zoneDel = b]
<1>1. Step(r, k, u)
  BY DEF NextDelete
<1>2. p \in PCs /\ p \in {"commit", "unstore"} /\ b \in BOOLEAN
  BY PcNames
<1> HIDE DEF p, b
<1>3. /\ k \in Handler /\ k.pc = p /\ k.op = h.op /\ k.cur = h.cur /\ k.todo = h.todo
      /\ u \in Transaction /\ u.ins = t.ins /\ u.del = t.del /\ u.zoneIns = t.zoneIns
  BY <1>2, PcEdit, ZoneDelEdit
<1> HIDE DEF k, u
<1>4. doomed' \subseteq Media /\ ackDeleted' \subseteq Media
  BY DEF IInv, StateOK, acks
<1> QED
  BY <1>1, <1>2, <1>3, <1>4, DeletionStep DEF acks

\* What the invariant says of a deletion.
LEMMA DeletionFacts ==
    ASSUME IInv, NEW r \in Requests, req[r].op \notin Uploads
    PROVE  /\ StateOK /\ DeletionInv(r)
           /\ req[r] \in Handler /\ tx[r] \in Transaction
           /\ tx[r].ins = {} /\ tx[r].zoneIns = FALSE
           /\ \A m \in tx[r].del \cup req[r].todo \cup ({req[r].cur} \ {NoMedia}) :
                mediaRow[m] # "none"
           /\ \A q \in Requests \ {r} : tx[r].del \cap tx[q].del = {}
BY DEF IInv, StateOK, DeletionInv, AtHand, Disjoint, Transaction

\* A deletion begins; op and z are only known to the reader of its handler.
LEMMA BeginDeletionInv ==
    ASSUME IInv, NEW r \in Requests, NEW op \in {"delete", "deleteZone"},
           NEW z \in Zones \cup {NoZone}, NEW files \in SUBSET Media,
           NEW p \in {"unstore", "list"}, \A m \in files : mediaRow[m] # "none",
           Step(r, Begin(op, z, files, p), NoTx),
           UNCHANGED <<tables, zoneOf, origin, objects, doomed, acks>>
    PROVE  IInv'
<1> DEFINE h == Begin(op, z, files, p)
<1>1. op \in Ops /\ op \notin Uploads /\ p \in PCs
  BY DEF Ops, Deletions, Uploads, PCs
<1>2. /\ h \in Handler /\ h.pc = p /\ h.op = op /\ h.cur = NoMedia /\ h.todo = files
  BY <1>1 DEF Begin, Handler
<1> HIDE DEF h
<1>3. Step(r, h, NoTx)
  BY DEF h
<1>4. doomed' \subseteq Media /\ ackDeleted' \subseteq Media
  BY DEF IInv, StateOK, acks
<1> QED
  BY <1>1, <1>2, <1>3, <1>4, IdleType, DeletionStep DEF acks

\* A deletion begins with a live file.
LEMMA DeleteMediaInv == ASSUME IInv, NEW r \in Requests, DeleteMedia(r) PROVE IInv'
<1>1. PICK m \in Media : /\ mediaRow[m] = "live"
                         /\ Step(r, Begin("delete", zoneOf[m], {m}, "unstore"), NoTx)
  BY DEF DeleteMedia
<1>2. zoneOf[m] \in Zones \cup {NoZone} /\ {m} \in SUBSET Media
      /\ \A x \in {m} : mediaRow[x] # "none"
  BY <1>1 DEF IInv, StateOK
<1> QED
  BY <1>1, <1>2, BeginDeletionInv DEF DeleteMedia

\* A deletion of a zone begins with no file.
LEMMA DeleteZoneInv == ASSUME IInv, NEW r \in Requests, DeleteZone(r) PROVE IInv'
<1>1. PICK z \in Zones : Step(r, Begin("deleteZone", z, {}, "list"), NoTx)
  BY DEF DeleteZone
<1> QED
  BY <1>1, BeginDeletionInv DEF DeleteZone

\* The files that are listed have rows.
LEMMA ListZoneInv == ASSUME IInv, NEW r \in Requests, ListZone(r) PROVE IInv'
<1> DEFINE files == LiveFiles(r, req[r].zone)
           h == [req[r] EXCEPT !.todo = files]
<1>1. req[r].op \notin Uploads
  BY DEF ListZone, IInv, UploadInv
<1>2. /\ files \in SUBSET Media
      /\ \A m \in files : mediaRow[m] # "none"
  BY <1>1, DeletionFacts DEF LiveFiles, Seen
<1> HIDE DEF files
<1>3. h \in Handler /\ h.op = req[r].op /\ h.cur = req[r].cur /\ h.todo = files
  BY <1>1, <1>2, DeletionFacts, TodoEdit
<1>4. NextDelete(r, h, tx[r])
  BY DEF ListZone, files
<1> HIDE DEF h
<1> QED
  BY <1>1, <1>2, <1>3, <1>4, DeletionFacts, NextDeleteInv DEF ListZone

\* The object that goes is one a deletion was asked for.
LEMMA DeleteObjectInv == ASSUME IInv, NEW r \in Requests, DeleteObject(r) PROVE IInv'
<1>1. PICK m \in req[r].todo :
        /\ objects' = objects \ {m} \/ objects' = objects
        /\ doomed' = doomed \cup {m}
        /\ Step(r, Take(req[r], m, "lookup"), tx[r])
  BY DEF DeleteObject
<1>2. req[r].op \notin Uploads
  BY DEF DeleteObject, IInv, UploadInv
<1> DEFINE h == Take(req[r], m, "lookup")
<1>3. m \in Media /\ mediaRow[m] # "none"
  BY <1>2, DeletionFacts, HandlerFields
<1>4. /\ h \in Handler /\ h.pc = "lookup" /\ h.op = req[r].op /\ h.cur = m
      /\ h.todo \subseteq req[r].todo
  <2>1. req[r] \in Handler
    BY <1>2, DeletionFacts
  <2> QED
    BY <1>3, <2>1, PcNames DEF Take, Handler
<1>5. Step(r, h, tx[r])
  BY <1>1
<1> HIDE DEF h
<1>6. /\ objects' \subseteq objects /\ objects \subseteq objects' \cup doomed'
      /\ doomed' \subseteq Media /\ ackDeleted' \subseteq Media
  BY <1>1, <1>3 DEF DeleteObject, IInv, StateOK, acks
<1> QED
  BY <1>1, <1>2, <1>3, <1>4, <1>5, <1>6, DeletionFacts, DeletionStep
  DEF DeleteObject, acks

\* A row that is read again changes nothing.
LEMMA LookupMediaInv == ASSUME IInv, NEW r \in Requests, LookupMedia(r) PROVE IInv'
<1>1. req[r].op \notin Uploads /\ req[r].cur \in Media
  BY DEF LookupMedia, IInv, UploadInv, DeletionInv
<1>2. doomed' \subseteq Media /\ ackDeleted' \subseteq Media
  BY DEF LookupMedia, IInv, StateOK, acks
<1>3. CASE Seen(r, req[r].cur) = "live"
  <2> DEFINE h == [req[r] EXCEPT !.pc = "softDelete"]
  <2>1. Step(r, h, tx[r])
    BY <1>3 DEF LookupMedia
  <2>2. /\ h \in Handler /\ h.pc = "softDelete" /\ h.op = req[r].op
        /\ h.cur = req[r].cur /\ h.todo = req[r].todo
    <3>1. req[r] \in Handler
      BY <1>1, DeletionFacts
    <3> QED
      BY <3>1, PcNames DEF Handler
  <2> HIDE DEF h
  <2> QED
    BY <1>1, <1>2, <2>1, <2>2, DeletionFacts, DeletionStep DEF LookupMedia, acks
<1>4. CASE Seen(r, req[r].cur) # "live" /\ req[r].op = "delete"
  BY <1>4, EndSessionInv DEF LookupMedia, tables, acks
<1>5. CASE Seen(r, req[r].cur) # "live" /\ req[r].op # "delete"
  <2>1. NextDelete(r, req[r], tx[r])
    BY <1>5 DEF LookupMedia
  <2>2. UNCHANGED <<tables, zoneOf, origin, objects, doomed, acks>>
    BY DEF LookupMedia
  <2>3. /\ req[r] \in Handler /\ tx[r] \in Transaction
        /\ tx[r].ins = {} /\ tx[r].zoneIns = FALSE
        /\ \A m \in tx[r].del \cup req[r].todo \cup ({req[r].cur} \ {NoMedia}) :
             mediaRow[m] # "none"
        /\ \A q \in Requests \ {r} : tx[r].del \cap tx[q].del = {}
    BY <1>1, DeletionFacts
  <2> QED
    BY <1>1, <2>1, <2>2, <2>3, NextDeleteInv
<1> QED
  BY <1>3, <1>4, <1>5

\* An update waits until no other session has deleted the row.
LEMMA SoftDeleteInv == ASSUME IInv, NEW r \in Requests, SoftDelete(r) PROVE IInv'
<1> DEFINE m == req[r].cur
           t == [tx[r] EXCEPT !.del = @ \cup {m}]
<1>1. req[r].op \notin Uploads /\ m \in Media
  BY DEF SoftDelete, IInv, UploadInv, DeletionInv
<1>2. mediaRow[m] # "none"
  BY <1>1, DeletionFacts, NoMediaAssumption
<1>3. \A q \in Requests \ {r} : m \notin tx[q].del
  BY DEF SoftDelete, WaitsFor
<1>4. /\ t \in Transaction /\ t.ins = tx[r].ins /\ t.zoneIns = tx[r].zoneIns
      /\ t.del \subseteq tx[r].del \cup {m}
  <2>1. tx[r] \in Transaction
    BY <1>1, DeletionFacts
  <2> HIDE DEF m
  <2> QED
    BY <1>1, <2>1 DEF Transaction
<1>5. /\ \A q \in Requests \ {r} : t.del \cap tx[q].del = {}
      /\ \A x \in t.del \cup req[r].todo \cup ({req[r].cur} \ {NoMedia}) :
            mediaRow[x] # "none"
      /\ t.ins = {} /\ t.zoneIns = FALSE
  <2> HIDE DEF t
  <2> QED
    BY <1>1, <1>2, <1>3, <1>4, DeletionFacts
<1>6. CASE req[r].op = "delete"
  <2> DEFINE h == [req[r] EXCEPT !.pc = "remaining"]
  <2>1. Step(r, h, t)
    BY <1>6 DEF SoftDelete
  <2>2. /\ h \in Handler /\ h.pc = "remaining" /\ h.op = req[r].op
        /\ h.cur = req[r].cur /\ h.todo = req[r].todo
    <3>1. req[r] \in Handler
      BY <1>1, DeletionFacts
    <3> QED
      BY <3>1, PcNames DEF Handler
  <2>3. doomed' \subseteq Media /\ ackDeleted' \subseteq Media
    BY DEF SoftDelete, IInv, StateOK, acks
  <2> HIDE DEF h, t
  <2> QED
    BY <1>1, <1>4, <1>5, <2>1, <2>2, <2>3, DeletionStep DEF SoftDelete, acks
<1>7. CASE req[r].op # "delete"
  <2>1. NextDelete(r, req[r], t)
    BY <1>7 DEF SoftDelete
  <2> HIDE DEF t
  <2> QED
    BY <1>1, <1>4, <1>5, <2>1, DeletionFacts, NextDeleteInv DEF SoftDelete
<1> QED
  BY <1>6, <1>7

\* A deletion that fails drops what it has written.
LEMMA DeletionFailsInv == ASSUME IInv, NEW r \in Requests, DeletionFails(r) PROVE IInv'
BY EndSessionInv DEF DeletionFails, tables, acks

\* The answer to a deletion that is not the last of its zone.
LEMMA CheckRemainingInv ==
    ASSUME IInv, NEW r \in Requests, CheckRemaining(r)
    PROVE  IInv'
<1>1. req[r].op \notin Uploads /\ req[r].cur \in Media
  BY DEF CheckRemaining, IInv, UploadInv, DeletionInv
<1>2. doomed' \subseteq Media /\ ackDeleted' \subseteq Media
  BY <1>1 DEF CheckRemaining, IInv, StateOK
<1> DEFINE last == LiveFiles(r, req[r].zone) = {}
           p == IF last THEN "commit" ELSE "closing"
           h == [req[r] EXCEPT !.pc = p]
           t == IF last THEN [tx[r] EXCEPT !.zoneDel = TRUE] ELSE tx[r]
<1>3. Step(r, h, t)
  BY DEF CheckRemaining
<1>p. p \in PCs /\ p \in {"commit", "closing"}
  BY PcNames
<1>t. /\ t \in Transaction /\ t.ins = tx[r].ins /\ t.del = tx[r].del
      /\ t.zoneIns = tx[r].zoneIns
  <2> HIDE DEF last
  <2>1. tx[r] \in Transaction
    BY <1>1, DeletionFacts
  <2> QED
    BY <2>1, ZoneDelEdit
<1> HIDE DEF p, t
<1>h. /\ h \in Handler /\ h.pc = p /\ h.op = req[r].op
      /\ h.cur = req[r].cur /\ h.todo = req[r].todo
  BY <1>1, <1>p, DeletionFacts, PcEdit
<1> HIDE DEF h
<1> QED
  BY <1>1, <1>2, <1>3, <1>p, <1>t, <1>h, DeletionFacts, DeletionStep
  DEF CheckRemaining

\* A deletion commits rows that were there.
LEMMA CommitDeletionInv ==
    ASSUME IInv, NEW r \in Requests, CommitDeletion(r)
    PROVE  IInv'
<1>1. tx[r].del \subseteq Media /\ ackDeleted \subseteq Media
  BY TransactionFields DEF IInv, StateOK
<1> QED
  BY <1>1, CommitInv DEF CommitDeletion

\* The commit after the response.
LEMMA CloseSessionInv == ASSUME IInv, NEW r \in Requests, CloseSession(r) PROVE IInv'
<1>1. ackDeleted \subseteq Media
  BY DEF IInv, StateOK
<1> QED
  BY <1>1, CommitInv DEF CloseSession, acks

-----------------------------------------------------------------------------
(* The inductive invariant. *)

\* The invariant holds in the beginning.
LEMMA InitInv == Init => IInv
<1> SUFFICES ASSUME Init PROVE IInv
  OBVIOUS
<1>1. \A r \in Requests : req[r] = Idle /\ tx[r] = NoTx
  BY DEF Init
<1>2. StateOK
  BY IdleType DEF Init, StateOK, RowState
<1>3. \A r \in Requests : Held(r) = {} /\ UploadInv(r) /\ DeletionInv(r)
  BY <1>1, IdleType DEF Held, UploadInv, DeletionInv, AtHand, Uploads
<1>4. Disjoint
  BY <1>1, <1>3, IdleType DEF Disjoint
<1>5. TablesInv
  BY DEF Init, TablesInv, RowHasZone, LiveRowHasObject, StoredIsCommitted
<1> QED
  BY <1>2, <1>3, <1>4, <1>5 DEF IInv

\* Every new request keeps the invariant.
LEMMA ReceiveInv == ASSUME IInv, NEW r \in Requests, Receive(r) PROVE IInv'
<1>1. CASE UploadMediaFile(r)
  <2>1. PICK z \in Zones, m \in FreshFiles : StartUpload(r, "upload", z, {m}, NoTx)
    BY <1>1 DEF UploadMediaFile
  <2>2. {m} \in SUBSET FreshFiles /\ "upload" \in Uploads
    BY DEF Uploads
  <2> QED
    BY <2>1, <2>2, IdleType, StartUploadInv
<1>2. CASE BatchUploadMediaFiles(r)
  <2> DEFINE t == [NoTx EXCEPT !.zoneIns = TRUE]
  <2>1. PICK z \in Zones, files \in SUBSET FreshFiles :
            StartUpload(r, "batch", z, files, t)
    BY <1>2 DEF BatchUploadMediaFiles
  <2>2. /\ t \in Transaction /\ t.ins = {} /\ t.del = {} /\ t.zoneIns = TRUE
        /\ t.zoneDel = FALSE /\ t.poisoned = FALSE
    BY NoTxEdits
  <2>3. "batch" \in Uploads
    BY DEF Uploads
  <2> HIDE DEF t
  <2> QED
    BY <2>1, <2>2, <2>3, StartUploadInv
<1>3. CASE AddMediaToZone(r)
  <2>1. PICK z \in Zones, files \in SUBSET FreshFiles :
            zoneRow[z] = "live" /\ StartUpload(r, "add", z, files, NoTx)
    BY <1>3 DEF AddMediaToZone
  <2>2. "add" \in Uploads
    BY DEF Uploads
  <2> QED
    BY <2>1, <2>2, IdleType, StartUploadInv
<1> QED
  BY <1>1, <1>2, <1>3, DeleteMediaInv, DeleteZoneInv DEF Receive, ReceiveFiles, ReceiveDeletion

\* Every step of an open request keeps the invariant.
LEMMA ServeInv == ASSUME IInv, NEW r \in Requests, Serve(r) PROVE IInv'
<1>1. CASE NothingStored(r)
  BY <1>1, EndSessionInv DEF NothingStored, tables, acks
<1>2. CASE CommitDeletionFails(r)
  BY <1>2, EndSessionInv DEF CommitDeletionFails, tables, acks
<1> QED
  BY <1>1, <1>2, PutObjectInv, PutFailsInv, InsertMediaInv, InsertFailsInv,
     UndoPutInv, CommitUploadInv, CommitUploadFailsInv, ListZoneInv,
     DeleteObjectInv, LookupMediaInv, SoftDeleteInv, DeletionFailsInv,
     CheckRemainingInv, CommitDeletionInv, CloseSessionInv DEF Serve

\* A step that changes nothing keeps the invariant.
LEMMA StutterInv == IInv /\ UNCHANGED vars => IInv'
BY DEF vars, IInv, StateOK, TablesInv, RowHasZone, LiveRowHasObject,
       StoredIsCommitted, Disjoint, Held, AtHand, UploadInv, DeletionInv

\* Every step keeps the invariant.
LEMMA NextInv == IInv /\ [Next]_vars => IInv'
<1> SUFFICES ASSUME IInv, [Next]_vars PROVE IInv'
  OBVIOUS
<1>1. ASSUME NEW r \in Requests, Crash(r) PROVE IInv'
  BY <1>1, EndSessionInv DEF Crash, tables, acks
<1>2. CASE UNCHANGED vars
  BY <1>2, StutterInv
<1> QED
  BY <1>1, <1>2, ReceiveInv, ServeInv DEF Next, Rest

\* In every reachable state, whatever fails and however requests interleave.
THEOREM Invariance == Spec => []IInv
BY InitInv, NextInv, PTL DEF Spec

-----------------------------------------------------------------------------
(* The properties. *)

\* Every variable keeps its type.
THEOREM TypeCorrect == Spec => []TypeOK
<1> DEFINE M == metAdd \subseteq Zones /\ metDelete \subseteq Zones
<1>1. Init => M
  BY DEF Init
<1>2. M /\ [Next]_vars => M'
  BY DEF Next, Meet, met, Rest, vars
<1>3. IInv /\ M => TypeOK
  BY DEF IInv, TypeOK
<1> HIDE DEF M
<1> QED
  BY <1>1, <1>2, <1>3, Invariance, PTL DEF Spec

\* No upload, however it fails, leaves a live row without its object: a row
\* whose object is gone belongs to a file that a deletion has asked S3 to remove.
THEOREM RowsHaveObjects == Spec => []LiveRowHasObject
<1>1. IInv => LiveRowHasObject
  BY DEF IInv, TablesInv
<1> QED
  BY <1>1, Invariance, PTL

\* A file is reported as stored only after the commit of its row.
THEOREM StoredFilesCommitted == Spec => []StoredIsCommitted
<1>1. IInv => StoredIsCommitted
  BY DEF IInv, TablesInv
<1> QED
  BY <1>1, Invariance, PTL

\* A media row refers to a zone that was committed with it or before.
THEOREM RowsHaveZones == Spec => []RowHasZone
<1>1. IInv => RowHasZone
  BY DEF IInv, TablesInv
<1> QED
  BY <1>1, Invariance, PTL

-----------------------------------------------------------------------------
(* What a handler becomes at each step of its request. *)

\* A step that the request does not end with.
Same(r) == req'[r].op = req[r].op /\ req'[r].zone = req[r].zone

\* A step of one request is no other's.
LEMMA OthersStay ==
    ASSUME IInv, NEW r \in Requests, Receive(r) \/ Serve(r) \/ Crash(r)
    PROVE  \A q \in Requests \ {r} : req'[q] = req[q] /\ tx'[q] = tx[q]
<1>1. ASSUME NEW h, NEW t, Step(r, h, t)
      PROVE  \A q \in Requests \ {r} : req'[q] = req[q] /\ tx'[q] = tx[q]
  BY <1>1 DEF Step, IInv, StateOK
<1>2. CASE Receive(r)
  BY <1>1, <1>2 DEF Receive, ReceiveFiles, ReceiveDeletion, UploadMediaFile, BatchUploadMediaFiles, AddMediaToZone,
     StartUpload, DeleteMedia, DeleteZone
<1>3. CASE Crash(r)
  BY <1>1, <1>3 DEF Crash, EndSession
<1>4. CASE Serve(r)
  <2>1. CASE PutObject(r) \/ PutFails(r) \/ InsertMedia(r) \/ InsertFails(r) \/ UndoPut(r)
    BY <1>1, <2>1 DEF PutObject, PutFails, InsertMedia, InsertFails, UndoPut, EndSession
  <2>2. CASE NothingStored(r) \/ CommitUpload(r) \/ CommitUploadFails(r)
    BY <1>1, <2>2 DEF NothingStored, CommitUpload, CommitUploadFails, EndSession
  <2>3. CASE ListZone(r) \/ DeleteObject(r) \/ LookupMedia(r) \/ SoftDelete(r)
    BY <1>1, <2>3 DEF ListZone, DeleteObject, LookupMedia, SoftDelete, NextDelete, EndSession
  <2>4. CASE \/ DeletionFails(r) \/ CheckRemaining(r) \/ CommitDeletion(r)
             \/ CloseSession(r) \/ CommitDeletionFails(r)
    BY <1>1, <2>4 DEF DeletionFails, CheckRemaining, CommitDeletion, CloseSession,
       CommitDeletionFails, EndSession
  <2> QED
    BY <1>4, <2>1, <2>2, <2>3, <2>4 DEF Serve
<1> QED
  BY <1>2, <1>3, <1>4

\* A session that ends.
LEMMA EndFields ==
    ASSUME IInv, NEW r \in Requests, EndSession(r)
    PROVE  /\ req'[r] = Idle /\ tx'[r] = NoTx
           /\ \A q \in Requests \ {r} : req'[q] = req[q] /\ tx'[q] = tx[q]
BY IdleType, StepFacts DEF EndSession, IInv

\* An object is stored.
LEMMA PutObjectFields ==
    ASSUME IInv, NEW r \in Requests, PutObject(r)
    PROVE  /\ UNCHANGED <<zoneRow, mediaRow, zoneOf, origin, doomed, ackStored, ackDeleted>>
           /\ req[r].op \in Uploads /\ req[r].pc = "put"
           /\ Same(r) /\ tx'[r] = tx[r] /\ req'[r].pc = "insert"
           /\ \E m \in req[r].todo :
                /\ objects' = objects \cup {m} /\ req'[r].cur = m
                /\ req'[r].todo = req[r].todo \ {m} /\ req'[r].good = req[r].good
<1>1. req[r].op \in Uploads /\ req[r] \in Handler /\ tx[r] \in Transaction
  BY DEF PutObject, IInv, StateOK, DeletionInv
<1>2. PICK m \in req[r].todo :
        objects' = objects \cup {m} /\ Step(r, Take(req[r], m, "insert"), tx[r])
  BY DEF PutObject
<1>3. m \in Media
  BY <1>1, HandlerFields
<1> DEFINE h == Take(req[r], m, "insert")
<1>4. /\ h \in Handler /\ h.pc = "insert" /\ h.op = req[r].op /\ h.zone = req[r].zone
      /\ h.cur = m /\ h.todo = req[r].todo \ {m} /\ h.good = req[r].good
  BY <1>1, <1>3, PcNames DEF Take, Handler
<1> HIDE DEF h
<1>5. req'[r] = h /\ tx'[r] = tx[r]
  BY <1>1, <1>2, <1>4, StepFacts DEF IInv, h
<1> QED
  BY <1>1, <1>2, <1>4, <1>5 DEF PutObject, tables, acks, Same

\* A put fails: the batch and the add go on without the file.
LEMMA PutFailsFields ==
    ASSUME IInv, NEW r \in Requests, PutFails(r)
    PROVE  /\ UNCHANGED <<zoneRow, mediaRow, zoneOf, origin, doomed, ackStored, ackDeleted>>
           /\ req[r].op \in Uploads /\ req[r].pc = "put" /\ "s3" \in Faults
           /\ Same(r) /\ tx'[r] = tx[r] /\ req'[r].pc \in {"put", "undo", "commit"}
<1>1. req[r].op \in Uploads /\ req[r] \in Handler /\ tx[r] \in Transaction
  BY DEF PutFails, IInv, StateOK, DeletionInv
<1>2. PICK m \in req[r].todo :
        LET h == Take(req[r], m, "undo") IN
        Step(r, IF h.op = "upload" THEN h ELSE NextFile(h), tx[r])
  BY DEF PutFails
<1>3. m \in Media
  BY <1>1, HandlerFields
<1> DEFINE h == Take(req[r], m, "undo")
           k == IF h.op = "upload" THEN h ELSE NextFile(h)
<1>4. h \in Handler /\ h.pc = "undo" /\ h.op = req[r].op /\ h.zone = req[r].zone
  BY <1>1, <1>3, PcNames DEF Take, Handler
<1>s. Step(r, k, tx[r])
  BY <1>2
<1> HIDE DEF h
<1>5. /\ k \in Handler /\ k.op = req[r].op /\ k.zone = req[r].zone
      /\ k.pc \in {"put", "undo", "commit"}
  BY <1>4, NextFileFields
<1> HIDE DEF k
<1>6. req'[r] = k /\ tx'[r] = tx[r]
  BY <1>1, <1>s, <1>5, StepFacts DEF IInv
<1> QED
  BY <1>1, <1>5, <1>6 DEF PutFails, tables, acks, Same

\* A row is inserted.
LEMMA InsertMediaFields ==
    ASSUME IInv, NEW r \in Requests, InsertMedia(r)
    PROVE  /\ UNCHANGED <<zoneRow, mediaRow, origin, objects, doomed, ackStored, ackDeleted>>
           /\ req[r].op \in Uploads /\ req[r].pc = "insert" /\ req[r].cur \in Media
           /\ zoneOf' = [zoneOf EXCEPT ![req[r].cur] = req[r].zone]
           /\ Same(r) /\ req'[r].pc \in {"put", "commit"} /\ req'[r].cur = NoMedia
           /\ req'[r].todo = req[r].todo /\ req'[r].good = req[r].good \cup {req[r].cur}
           /\ tx'[r].ins = tx[r].ins \cup {req[r].cur}
           /\ tx'[r].zoneIns <=> tx[r].zoneIns \/ req[r].op = "upload"
<1> DEFINE m == req[r].cur
           g == [req[r] EXCEPT !.good = req[r].good \cup {m}]
           h == NextFile(g)
           b == tx[r].zoneIns \/ req[r].op = "upload"
           i == tx[r].ins \cup {m}
           t == [tx[r] EXCEPT !.ins = i, !.zoneIns = b]
<1>s. Step(r, h, t)
  BY DEF InsertMedia
<1>r. /\ req[r].op \in Uploads /\ req[r].pc = "insert" /\ m \in Media
      /\ req[r] \in Handler /\ tx[r] \in Transaction
  BY DEF InsertMedia, IInv, DeletionInv, UploadInv, StateOK
<1>g. /\ g \in Handler /\ g.op = req[r].op /\ g.zone = req[r].zone
      /\ g.todo = req[r].todo /\ g.good = req[r].good \cup {m}
  <2>1. req[r].good \cup {m} \in SUBSET Media
    BY <1>r, HandlerFields
  <2> QED
    BY <1>r, <2>1, GoodEdit
<1> HIDE DEF g
<1>h. /\ h \in Handler /\ h.op = req[r].op /\ h.zone = req[r].zone
      /\ h.todo = req[r].todo /\ h.good = req[r].good \cup {m}
      /\ h.cur = NoMedia /\ h.pc \in {"put", "commit"}
  BY <1>g, NextFileFields
<1>t. t \in Transaction /\ t.ins = i /\ (t.zoneIns <=> b)
  <2>1. b \in BOOLEAN /\ i \in SUBSET Media
    BY <1>r, TransactionFields
  <2> HIDE DEF b, i
  <2> QED
    BY <1>r, <2>1 DEF Transaction
<1> HIDE DEF h, t
<1>1. req'[r] = h /\ tx'[r] = t
  BY <1>s, <1>h, <1>t, StepFacts DEF IInv
<1> QED
  BY <1>r, <1>h, <1>t, <1>1 DEF InsertMedia, tables, acks, Same

\* A row is not inserted, and the session is poisoned.
LEMMA InsertFailsFields ==
    ASSUME IInv, NEW r \in Requests, InsertFails(r)
    PROVE  /\ UNCHANGED <<zoneRow, mediaRow, zoneOf, origin, objects, doomed, ackStored,
                          ackDeleted>>
           /\ req[r].op \in Uploads /\ req[r].pc = "insert"
           /\ Same(r) /\ req'[r].pc = "undo" /\ req'[r].cur = req[r].cur
           /\ req'[r].todo = req[r].todo /\ req'[r].good = req[r].good
           /\ tx'[r].ins = {} /\ ~tx'[r].zoneIns
<1> DEFINE h == [req[r] EXCEPT !.pc = "undo"]
           t == [NoTx EXCEPT !.poisoned = TRUE]
<1>1. req[r].op \in Uploads /\ req[r].pc = "insert" /\ req[r] \in Handler
  BY DEF InsertFails, IInv, StateOK, DeletionInv
<1>2. /\ h \in Handler /\ h.pc = "undo" /\ h.op = req[r].op /\ h.zone = req[r].zone
      /\ h.cur = req[r].cur /\ h.todo = req[r].todo /\ h.good = req[r].good
  BY <1>1, PcEdit, PcNames
<1>3. t \in Transaction /\ t.ins = {} /\ t.zoneIns = FALSE
  BY NoTxEdits
<1>4. Step(r, h, t)
  BY DEF InsertFails
<1> HIDE DEF h, t
<1>5. req'[r] = h /\ tx'[r] = t
  BY <1>2, <1>3, <1>4, StepFacts DEF IInv
<1> QED
  BY <1>1, <1>2, <1>3, <1>5 DEF InsertFails, tables, acks, Same

\* The object of a file without a row is deleted.
LEMMA UndoPutFields ==
    ASSUME IInv, NEW r \in Requests, UndoPut(r)
    PROVE  /\ UNCHANGED <<zoneRow, mediaRow, zoneOf, origin, doomed, ackStored, ackDeleted>>
           /\ req[r].op \in Uploads /\ req[r].pc = "undo" /\ req[r].cur \in Media
           /\ \/ objects' = objects \ {req[r].cur}
              \/ "s3" \in Faults /\ objects' = objects
           /\ req[r].op = "upload" => EndSession(r)
           /\ req[r].op # "upload" =>
                /\ Same(r) /\ tx'[r] = tx[r] /\ req'[r].pc \in {"put", "commit"}
                /\ req'[r].todo = req[r].todo /\ req'[r].good = req[r].good
                /\ req'[r].cur = NoMedia
<1>1. /\ req[r].op \in Uploads /\ req[r].pc = "undo" /\ req[r] \in Handler
      /\ tx[r] \in Transaction /\ req[r].cur \in Media
  BY DEF UndoPut, IInv, StateOK, DeletionInv, UploadInv
<1>2. req[r].op # "upload" =>
        /\ Same(r) /\ tx'[r] = tx[r] /\ req'[r].pc \in {"put", "commit"}
        /\ req'[r].todo = req[r].todo /\ req'[r].good = req[r].good
        /\ req'[r].cur = NoMedia
  <2> SUFFICES ASSUME req[r].op # "upload"
               PROVE  /\ Same(r) /\ tx'[r] = tx[r] /\ req'[r].pc \in {"put", "commit"}
                      /\ req'[r].todo = req[r].todo /\ req'[r].good = req[r].good
                      /\ req'[r].cur = NoMedia
    OBVIOUS
  <2> DEFINE h == NextFile(req[r])
  <2>1. Step(r, h, tx[r])
    BY DEF UndoPut
  <2>2. /\ h \in Handler /\ h.op = req[r].op /\ h.zone = req[r].zone
        /\ h.pc \in {"put", "commit"} /\ h.todo = req[r].todo /\ h.good = req[r].good
        /\ h.cur = NoMedia
    BY <1>1, NextFileFields
  <2> HIDE DEF h
  <2>3. req'[r] = h /\ tx'[r] = tx[r]
    BY <1>1, <2>1, <2>2, StepFacts DEF IInv
  <2> QED
    BY <2>2, <2>3 DEF Same
<1> QED
  BY <1>1, <1>2 DEF UndoPut, tables, acks

\* The commit of an upload fails.
LEMMA CommitUploadFailsFields ==
    ASSUME IInv, NEW r \in Requests, CommitUploadFails(r)
    PROVE  /\ UNCHANGED <<zoneRow, mediaRow, zoneOf, origin, objects, doomed, ackStored,
                          ackDeleted>>
           /\ req[r].op \in Uploads
           /\ req[r].op # "upload" => EndSession(r)
           /\ req[r].op = "upload" =>
                /\ Same(r) /\ tx'[r] = NoTx /\ req'[r].pc = "undo"
                /\ req'[r].cur \in req[r].good /\ req'[r].good = {}
                /\ req'[r].todo \subseteq req[r].todo
<1>1. req[r].op = "upload" =>
        /\ Same(r) /\ tx'[r] = NoTx /\ req'[r].pc = "undo"
        /\ req'[r].cur \in req[r].good /\ req'[r].good = {}
        /\ req'[r].todo \subseteq req[r].todo
  <2> SUFFICES ASSUME req[r].op = "upload"
               PROVE  /\ Same(r) /\ tx'[r] = NoTx /\ req'[r].pc = "undo"
                      /\ req'[r].cur \in req[r].good /\ req'[r].good = {}
                      /\ req'[r].todo \subseteq req[r].todo
    OBVIOUS
  <2>1. PICK m \in req[r].good :
          Step(r, [Take(req[r], m, "undo") EXCEPT !.good = {}], NoTx)
    BY DEF CommitUploadFails
  <2>2. req[r] \in Handler /\ m \in Media
    BY HandlerFields DEF IInv, StateOK
  <2> DEFINE g == Take(req[r], m, "undo")
             h == [g EXCEPT !.good = {}]
  <2>3. g \in Handler /\ g.pc = "undo" /\ g.op = req[r].op /\ g.zone = req[r].zone
        /\ g.cur = m /\ g.todo = req[r].todo \ {m}
    BY <2>2, PcNames DEF Take, Handler
  <2>4. Step(r, h, NoTx)
    BY <2>1
  <2> HIDE DEF g
  <2>5. h \in Handler /\ h.pc = "undo" /\ h.op = req[r].op /\ h.zone = req[r].zone
        /\ h.cur = m /\ h.todo = g.todo /\ h.good = {}
    BY <2>3, GoodEdit
  <2> HIDE DEF h
  <2>6. req'[r] = h /\ tx'[r] = NoTx
    BY <2>4, <2>5, IdleType, StepFacts DEF IInv
  <2> QED
    BY <2>3, <2>5, <2>6 DEF Same
<1> QED
  BY <1>1 DEF CommitUploadFails, tables, acks

\* The next file of a zone that is deleted, or the zone itself.
LEMMA NextDeleteFields ==
    ASSUME IInv, NEW r \in Requests, NEW h \in Handler, NEW t \in Transaction,
           NextDelete(r, h, t)
    PROVE  /\ req'[r].op = h.op /\ req'[r].zone = h.zone /\ req'[r].cur = h.cur
           /\ req'[r].todo = h.todo
           /\ h.todo = {} => req'[r].pc = "commit" /\ tx'[r].zoneDel
           /\ h.todo # {} => req'[r].pc = "unstore" /\ ~tx'[r].zoneDel
           /\ tx'[r].ins = t.ins /\ tx'[r].del = t.del /\ tx'[r].zoneIns = t.zoneIns
<1> DEFINE p == IF h.todo = {} THEN "commit" ELSE "unstore"
           b == h.todo = {}
           k == [h EXCEPT !.pc = p]
           u == [t EXCEPT !.zoneDel = b]
<1>1. Step(r, k, u)
  BY DEF NextDelete
<1>2. p \in PCs /\ b \in BOOLEAN
  BY PcNames
<1>3. /\ h.todo = {} => p = "commit" /\ b
      /\ h.todo # {} => p = "unstore" /\ ~b
  OBVIOUS
<1> HIDE DEF p, b
<1>4. /\ k \in Handler /\ k.pc = p /\ k.op = h.op /\ k.zone = h.zone /\ k.cur = h.cur
      /\ k.todo = h.todo
      /\ u \in Transaction /\ u.ins = t.ins /\ u.del = t.del /\ u.zoneIns = t.zoneIns
      /\ u.zoneDel = b
  BY <1>2, PcEdit, ZoneDelEdit
<1> HIDE DEF k, u
<1>5. req'[r] = k /\ tx'[r] = u
  BY <1>1, <1>4, StepFacts DEF IInv
<1> QED
  BY <1>3, <1>4, <1>5

\* The files of a zone that is deleted are listed.
LEMMA ListZoneFields ==
    ASSUME IInv, NEW r \in Requests, ListZone(r)
    PROVE  /\ UNCHANGED <<zoneRow, mediaRow, zoneOf, origin, objects, doomed, ackStored,
                          ackDeleted>>
           /\ req[r].op \notin Uploads /\ req[r].pc = "list"
           /\ Same(r) /\ req'[r].cur = req[r].cur
           /\ req'[r].todo = LiveFiles(r, req[r].zone)
           /\ req'[r].todo = {} => req'[r].pc = "commit" /\ tx'[r].zoneDel
           /\ req'[r].todo # {} => req'[r].pc = "unstore" /\ ~tx'[r].zoneDel
           /\ tx'[r].ins = tx[r].ins /\ tx'[r].del = tx[r].del
           /\ tx'[r].zoneIns = tx[r].zoneIns
<1> DEFINE files == LiveFiles(r, req[r].zone)
           h == [req[r] EXCEPT !.todo = files]
<1>1. req[r].op \notin Uploads /\ req[r] \in Handler /\ tx[r] \in Transaction
  BY DEF ListZone, IInv, UploadInv, StateOK
<1>2. NextDelete(r, h, tx[r]) /\ files \in SUBSET Media
  BY DEF ListZone, LiveFiles
<1> HIDE DEF files
<1>3. /\ h \in Handler /\ h.op = req[r].op /\ h.zone = req[r].zone
      /\ h.cur = req[r].cur /\ h.todo = files
  BY <1>1, <1>2, TodoEdit
<1> HIDE DEF h
<1>4. /\ req'[r].op = h.op /\ req'[r].zone = h.zone /\ req'[r].cur = h.cur
      /\ req'[r].todo = h.todo
      /\ h.todo = {} => req'[r].pc = "commit" /\ tx'[r].zoneDel
      /\ h.todo # {} => req'[r].pc = "unstore" /\ ~tx'[r].zoneDel
      /\ tx'[r].ins = tx[r].ins /\ tx'[r].del = tx[r].del /\ tx'[r].zoneIns = tx[r].zoneIns
  BY <1>1, <1>2, <1>3, NextDeleteFields
<1> QED
  BY <1>1, <1>3, <1>4 DEF ListZone, tables, acks, Same, files

\* An object is deleted before its row.
LEMMA DeleteObjectFields ==
    ASSUME IInv, NEW r \in Requests, DeleteObject(r)
    PROVE  /\ UNCHANGED <<zoneRow, mediaRow, zoneOf, origin, ackStored, ackDeleted>>
           /\ req[r].op \notin Uploads /\ req[r].pc = "unstore"
           /\ Same(r) /\ tx'[r] = tx[r] /\ req'[r].pc = "lookup"
           /\ \E m \in req[r].todo :
                /\ objects' = objects \ {m} \/ ("s3" \in Faults /\ objects' = objects)
                /\ doomed' = doomed \cup {m}
                /\ req'[r].cur = m /\ req'[r].todo = req[r].todo \ {m}
<1>1. req[r].op \notin Uploads /\ req[r] \in Handler /\ tx[r] \in Transaction
  BY DEF DeleteObject, IInv, StateOK, UploadInv
<1>2. PICK m \in req[r].todo :
        /\ objects' = objects \ {m} \/ ("s3" \in Faults /\ objects' = objects)
        /\ doomed' = doomed \cup {m}
        /\ Step(r, Take(req[r], m, "lookup"), tx[r])
  BY DEF DeleteObject
<1>3. m \in Media
  BY <1>1, HandlerFields
<1> DEFINE h == Take(req[r], m, "lookup")
<1>4. /\ h \in Handler /\ h.pc = "lookup" /\ h.op = req[r].op /\ h.zone = req[r].zone
      /\ h.cur = m /\ h.todo = req[r].todo \ {m}
  BY <1>1, <1>3, PcNames DEF Take, Handler
<1> HIDE DEF h
<1>5. req'[r] = h /\ tx'[r] = tx[r]
  BY <1>1, <1>2, <1>4, StepFacts DEF IInv, h
<1> QED
  BY <1>1, <1>2, <1>4, <1>5 DEF DeleteObject, tables, acks, Same

\* The row is looked up again.
LEMMA LookupMediaFields ==
    ASSUME IInv, NEW r \in Requests, LookupMedia(r)
    PROVE  /\ UNCHANGED <<zoneRow, mediaRow, zoneOf, origin, objects, doomed, ackStored,
                          ackDeleted>>
           /\ req[r].op \notin Uploads /\ req[r].pc = "lookup"
           /\ \/ EndSession(r)
              \/ /\ Same(r) /\ req'[r].pc = "softDelete" /\ tx'[r] = tx[r]
                 /\ req'[r].cur = req[r].cur /\ req'[r].todo = req[r].todo
              \/ /\ Seen(r, req[r].cur) # "live" /\ req[r].op # "delete" /\ Same(r)
                 /\ req'[r].cur = req[r].cur /\ req'[r].todo = req[r].todo
                 /\ req[r].todo = {} => req'[r].pc = "commit" /\ tx'[r].zoneDel
                 /\ req[r].todo # {} => req'[r].pc = "unstore" /\ ~tx'[r].zoneDel
                 /\ tx'[r].ins = tx[r].ins /\ tx'[r].del = tx[r].del
                 /\ tx'[r].zoneIns = tx[r].zoneIns
<1>1. req[r].op \notin Uploads /\ req[r] \in Handler /\ tx[r] \in Transaction
  BY DEF LookupMedia, IInv, StateOK, UploadInv
<1>2. CASE Seen(r, req[r].cur) = "live"
  <2> DEFINE h == [req[r] EXCEPT !.pc = "softDelete"]
  <2>1. Step(r, h, tx[r])
    BY <1>2 DEF LookupMedia
  <2>2. /\ h \in Handler /\ h.pc = "softDelete" /\ h.op = req[r].op
        /\ h.zone = req[r].zone /\ h.cur = req[r].cur /\ h.todo = req[r].todo
    BY <1>1, PcNames DEF Handler
  <2> HIDE DEF h
  <2>3. req'[r] = h /\ tx'[r] = tx[r]
    BY <1>1, <2>1, <2>2, StepFacts DEF IInv
  <2> QED
    BY <1>1, <2>2, <2>3 DEF LookupMedia, tables, acks, Same
<1>3. CASE Seen(r, req[r].cur) # "live" /\ req[r].op = "delete"
  BY <1>1, <1>3 DEF LookupMedia, tables, acks
<1>4. CASE Seen(r, req[r].cur) # "live" /\ req[r].op # "delete"
  <2>1. NextDelete(r, req[r], tx[r])
    BY <1>4 DEF LookupMedia
  <2> QED
    BY <1>1, <1>4, <2>1, NextDeleteFields DEF LookupMedia, tables, acks, Same
<1> QED
  BY <1>2, <1>3, <1>4

\* A row is deleted.
LEMMA SoftDeleteFields ==
    ASSUME IInv, NEW r \in Requests, SoftDelete(r)
    PROVE  /\ UNCHANGED <<zoneRow, mediaRow, zoneOf, origin, objects, doomed, ackStored,
                          ackDeleted>>
           /\ req[r].op \notin Uploads /\ req[r].pc = "softDelete" /\ req[r].cur \in Media
           /\ Same(r) /\ req'[r].cur = req[r].cur /\ req'[r].todo = req[r].todo
           /\ tx'[r].ins = tx[r].ins /\ tx'[r].del = tx[r].del \cup {req[r].cur}
           /\ tx'[r].zoneIns = tx[r].zoneIns
           /\ req[r].op = "delete" => /\ req'[r].pc = "remaining"
                                      /\ tx'[r].zoneDel = tx[r].zoneDel
           /\ req[r].op # "delete" =>
                /\ req[r].todo = {} => req'[r].pc = "commit" /\ tx'[r].zoneDel
                /\ req[r].todo # {} => req'[r].pc = "unstore" /\ ~tx'[r].zoneDel
<1> DEFINE d == tx[r].del \cup {req[r].cur}
           t == [tx[r] EXCEPT !.del = d]
<1>1. /\ req[r].op \notin Uploads /\ req[r] \in Handler /\ tx[r] \in Transaction
      /\ req[r].cur \in Media
  BY DEF SoftDelete, IInv, StateOK, UploadInv, DeletionInv
<1>2. d \in SUBSET Media
  BY <1>1, TransactionFields
<1>s. /\ req[r].op = "delete" => Step(r, [req[r] EXCEPT !.pc = "remaining"], t)
      /\ req[r].op # "delete" => NextDelete(r, req[r], t)
  BY DEF SoftDelete
<1> HIDE DEF d
<1>3. /\ t \in Transaction /\ t.ins = tx[r].ins /\ t.zoneIns = tx[r].zoneIns
      /\ t.del = d /\ t.zoneDel = tx[r].zoneDel
  BY <1>1, <1>2 DEF Transaction
<1> HIDE DEF t
<1>4. CASE req[r].op = "delete"
  <2> DEFINE h == [req[r] EXCEPT !.pc = "remaining"]
  <2>1. Step(r, h, t)
    BY <1>4, <1>s
  <2>2. /\ h \in Handler /\ h.pc = "remaining" /\ h.op = req[r].op
        /\ h.zone = req[r].zone /\ h.cur = req[r].cur /\ h.todo = req[r].todo
    BY <1>1, PcNames DEF Handler
  <2> HIDE DEF h
  <2>3. req'[r] = h /\ tx'[r] = t
    BY <1>3, <2>1, <2>2, StepFacts DEF IInv
  <2> QED
    BY <1>1, <1>3, <1>4, <2>2, <2>3 DEF SoftDelete, tables, acks, Same, d
<1>5. CASE req[r].op # "delete"
  BY <1>1, <1>3, <1>5, <1>s, NextDeleteFields DEF SoftDelete, tables, acks, Same, d
<1> QED
  BY <1>4, <1>5

\* The zone goes with its last file.
LEMMA CheckRemainingFields ==
    ASSUME IInv, NEW r \in Requests, CheckRemaining(r)
    PROVE  /\ UNCHANGED <<zoneRow, mediaRow, zoneOf, origin, objects, doomed, ackStored>>
           /\ req[r].op \notin Uploads /\ req[r].pc = "remaining"
           /\ Same(r) /\ req'[r].cur = req[r].cur /\ req'[r].todo = req[r].todo
           /\ tx'[r].ins = tx[r].ins /\ tx'[r].del = tx[r].del
           /\ tx'[r].zoneIns = tx[r].zoneIns
           /\ ackDeleted' \subseteq ackDeleted \cup {req[r].cur}
           /\ LiveFiles(r, req[r].zone) = {} => req'[r].pc = "commit" /\ tx'[r].zoneDel
           /\ LiveFiles(r, req[r].zone) # {} =>
                req'[r].pc = "closing" /\ tx'[r].zoneDel = tx[r].zoneDel
<1>1. req[r].op \notin Uploads /\ req[r] \in Handler /\ tx[r] \in Transaction
  BY DEF CheckRemaining, IInv, StateOK, UploadInv
<1> DEFINE last == LiveFiles(r, req[r].zone) = {}
           p == IF last THEN "commit" ELSE "closing"
           h == [req[r] EXCEPT !.pc = p]
           t == IF last THEN [tx[r] EXCEPT !.zoneDel = TRUE] ELSE tx[r]
<1>2. Step(r, h, t) /\ ackDeleted' \subseteq ackDeleted \cup {req[r].cur}
  BY DEF CheckRemaining
<1>3. p \in PCs /\ (last => p = "commit") /\ (~last => p = "closing")
  BY PcNames
<1>4. /\ t \in Transaction /\ t.ins = tx[r].ins /\ t.del = tx[r].del
      /\ t.zoneIns = tx[r].zoneIns
      /\ last => t.zoneDel = TRUE
      /\ ~last => t.zoneDel = tx[r].zoneDel
  <2> HIDE DEF last
  <2> QED
    BY <1>1, ZoneDelEdit
<1> HIDE DEF p, t
<1>5. /\ h \in Handler /\ h.pc = p /\ h.op = req[r].op /\ h.zone = req[r].zone
      /\ h.cur = req[r].cur /\ h.todo = req[r].todo
  BY <1>1, <1>3, PcEdit
<1> HIDE DEF h
<1>6. req'[r] = h /\ tx'[r] = t
  BY <1>2, <1>4, <1>5, StepFacts DEF IInv
<1> QED
  BY <1>1, <1>2, <1>3, <1>4, <1>5, <1>6 DEF CheckRemaining, tables, acks, Same

\* A new upload: its files are new, and its zone is new unless it adds to one.
LEMMA StartUploadFields ==
    ASSUME IInv, NEW r \in Requests, NEW op \in Uploads, NEW z \in Zones,
           NEW files \in SUBSET FreshFiles, NEW t \in Transaction,
           StartUpload(r, op, z, files, t)
    PROVE  /\ UNCHANGED <<zoneRow, mediaRow, zoneOf, objects, doomed, ackStored, ackDeleted>>
           /\ origin' = [m \in Media |-> IF m \in files THEN op ELSE origin[m]]
           /\ req'[r].op = op /\ req'[r].zone = z /\ req'[r].pc \in {"put", "commit"}
           /\ req'[r].todo = files /\ req'[r].good = {} /\ req'[r].cur = NoMedia
           /\ tx'[r] = t
<1> DEFINE b == Begin(op, z, files, "put")
           h == NextFile(b)
<1>1. /\ b \in Handler /\ b.op = op /\ b.zone = z /\ b.todo = files /\ b.good = {}
  <2>1. op \in Ops /\ z \in Zones \cup {NoZone} /\ "put" \in PCs /\ files \in SUBSET Media
    BY DEF Ops, Deletions, PCs, FreshFiles
  <2> QED
    BY <2>1, BeginFields
<1>2. Step(r, h, t)
  BY DEF StartUpload
<1>3. /\ h \in Handler /\ h.op = op /\ h.zone = z /\ h.todo = files
      /\ h.good = {} /\ h.cur = NoMedia /\ h.pc \in {"put", "commit"}
  <2> HIDE DEF b
  <2> QED
    BY <1>1, NextFileFields
<1> HIDE DEF h
<1>4. req'[r] = h /\ tx'[r] = t
  BY <1>2, <1>3, StepFacts DEF IInv
<1> QED
  BY <1>3, <1>4 DEF StartUpload, tables, acks

\* The first step of a request, by its operation.
LEMMA ReceiveFields ==
    ASSUME IInv, NEW r \in Requests, Receive(r)
    PROVE  /\ r \notin Open
           /\ UNCHANGED <<zoneRow, mediaRow, zoneOf, objects, doomed, ackStored, ackDeleted>>
           /\ tx'[r].ins = {} /\ tx'[r].del = {} /\ tx'[r].zoneDel = FALSE
           /\ req'[r].good = {} /\ req'[r].cur = NoMedia
           /\ req'[r].todo \subseteq Media
           /\ \/ /\ req'[r].op \in {"upload", "batch"}
                 /\ req'[r].zone \in Zones /\ FreshZone(req'[r].zone)
              \/ /\ req'[r].op = "add" /\ req'[r].zone \in Zones
                 /\ zoneRow[req'[r].zone] = "live" /\ ~tx'[r].zoneIns
              \/ /\ req'[r].op = "delete" /\ req'[r].pc = "unstore" /\ UNCHANGED origin
                 /\ \E m \in Media : /\ mediaRow[m] = "live"
                                     /\ req'[r].zone = zoneOf[m] /\ req'[r].todo = {m}
              \/ /\ req'[r].op = "deleteZone" /\ req'[r].pc = "list" /\ UNCHANGED origin
                 /\ req'[r].zone \in Zones /\ zoneRow[req'[r].zone] = "live"
                 /\ req'[r].todo = {}
           /\ req'[r].op \in Uploads =>
                /\ req'[r].pc \in {"put", "commit"}
                /\ \A m \in req'[r].todo : origin[m] = "none"
                /\ origin' = [m \in Media |-> IF m \in req'[r].todo THEN req'[r].op
                                              ELSE origin[m]]
                /\ req'[r].op = "upload" => \E m \in Media : req'[r].todo = {m}
<1>0. {"upload", "batch", "add"} = Uploads
  BY DEF Uploads
<1>1. CASE UploadMediaFile(r)
  <2>1. PICK z \in Zones, m \in FreshFiles :
            FreshZone(z) /\ StartUpload(r, "upload", z, {m}, NoTx)
    BY <1>1 DEF UploadMediaFile
  <2>2. {m} \in SUBSET FreshFiles /\ "upload" \in Uploads /\ NoTx \in Transaction
    BY <1>0, IdleType
  <2>3. /\ UNCHANGED <<zoneRow, mediaRow, zoneOf, objects, doomed, ackStored, ackDeleted>>
        /\ origin' = [x \in Media |-> IF x \in {m} THEN "upload" ELSE origin[x]]
        /\ req'[r].op = "upload" /\ req'[r].zone = z /\ req'[r].pc \in {"put", "commit"}
        /\ req'[r].todo = {m} /\ req'[r].good = {} /\ req'[r].cur = NoMedia
        /\ tx'[r] = NoTx
    BY <2>1, <2>2, StartUploadFields
  <2> QED
    BY <1>1, <2>1, <2>3, IdleType DEF UploadMediaFile, FreshFiles
<1>2. CASE BatchUploadMediaFiles(r)
  <2> DEFINE t == [NoTx EXCEPT !.zoneIns = TRUE]
  <2>1. PICK z \in Zones, files \in SUBSET FreshFiles :
            FreshZone(z) /\ StartUpload(r, "batch", z, files, t)
    BY <1>2 DEF BatchUploadMediaFiles
  <2>2. t \in Transaction /\ t.ins = {} /\ t.del = {} /\ t.zoneDel = FALSE
    BY NoTxEdits
  <2>3. "batch" \in Uploads
    BY <1>0
  <2> HIDE DEF t
  <2>4. /\ UNCHANGED <<zoneRow, mediaRow, zoneOf, objects, doomed, ackStored, ackDeleted>>
        /\ origin' = [x \in Media |-> IF x \in files THEN "batch" ELSE origin[x]]
        /\ req'[r].op = "batch" /\ req'[r].zone = z /\ req'[r].pc \in {"put", "commit"}
        /\ req'[r].todo = files /\ req'[r].good = {} /\ req'[r].cur = NoMedia
        /\ tx'[r] = t
    BY <2>1, <2>2, <2>3, StartUploadFields
  <2> QED
    BY <1>2, <2>1, <2>2, <2>4 DEF BatchUploadMediaFiles, FreshFiles
<1>3. CASE AddMediaToZone(r)
  <2> DEFINE t == NoTx
  <2>1. PICK z \in Zones, files \in SUBSET FreshFiles :
            zoneRow[z] = "live" /\ StartUpload(r, "add", z, files, t)
    BY <1>3 DEF AddMediaToZone
  <2>2. t \in Transaction /\ t.ins = {} /\ t.del = {} /\ t.zoneDel = FALSE /\ ~t.zoneIns
    BY IdleType
  <2>4. "add" \in Uploads
    BY <1>0
  <2> HIDE DEF t
  <2>3. /\ UNCHANGED <<zoneRow, mediaRow, zoneOf, objects, doomed, ackStored, ackDeleted>>
        /\ origin' = [x \in Media |-> IF x \in files THEN "add" ELSE origin[x]]
        /\ req'[r].op = "add" /\ req'[r].zone = z /\ req'[r].pc \in {"put", "commit"}
        /\ req'[r].todo = files /\ req'[r].good = {} /\ req'[r].cur = NoMedia
        /\ tx'[r] = t
    BY <2>1, <2>2, <2>4, StartUploadFields
  <2> QED
    BY <1>3, <2>1, <2>2, <2>3 DEF AddMediaToZone, FreshFiles
<1>4. CASE DeleteMedia(r)
  <2>1. PICK m \in Media : /\ mediaRow[m] = "live"
                           /\ Step(r, Begin("delete", zoneOf[m], {m}, "unstore"), NoTx)
    BY <1>4 DEF DeleteMedia
  <2> DEFINE h == Begin("delete", zoneOf[m], {m}, "unstore")
  <2>2. /\ h \in Handler /\ h.pc = "unstore" /\ h.op = "delete" /\ h.zone = zoneOf[m]
        /\ h.cur = NoMedia /\ h.todo = {m} /\ h.good = {}
    <3>1. "delete" \in Ops /\ zoneOf[m] \in Zones \cup {NoZone} /\ {m} \in SUBSET Media
      BY DEF Ops, Deletions, IInv, StateOK
    <3> QED
      BY <3>1, PcNames, BeginFields
  <2> HIDE DEF h
  <2>3. req'[r] = h /\ tx'[r] = NoTx
    BY <2>1, <2>2, IdleType, StepFacts DEF IInv, h
  <2> QED
    BY <1>4, <2>1, <2>2, <2>3, IdleType, <1>0 DEF DeleteMedia, tables, acks
<1>5. CASE DeleteZone(r)
  <2>1. PICK z \in Zones : /\ zoneRow[z] = "live"
                           /\ Step(r, Begin("deleteZone", z, {}, "list"), NoTx)
    BY <1>5 DEF DeleteZone
  <2> DEFINE h == Begin("deleteZone", z, {}, "list")
  <2>2. /\ h \in Handler /\ h.pc = "list" /\ h.op = "deleteZone" /\ h.zone = z
        /\ h.cur = NoMedia /\ h.todo = {} /\ h.good = {}
    <3>1. "deleteZone" \in Ops /\ z \in Zones \cup {NoZone}
      BY DEF Ops, Deletions
    <3> QED
      BY <3>1, PcNames, BeginFields
  <2> HIDE DEF h
  <2>3. req'[r] = h /\ tx'[r] = NoTx
    BY <2>1, <2>2, IdleType, StepFacts DEF IInv, h
  <2> QED
    BY <1>5, <2>1, <2>2, <2>3, IdleType, <1>0 DEF DeleteZone, tables, acks
<1> QED
  BY <1>1, <1>2, <1>3, <1>4, <1>5 DEF Receive, ReceiveFiles, ReceiveDeletion

\* The tables change in a commit only.
LEMMA TablesChange ==
    ASSUME IInv, NEW r \in Requests, Receive(r) \/ Serve(r) \/ Crash(r)
    PROVE  \/ UNCHANGED tables
           \/ /\ ApplyCommit(r) /\ EndSession(r)
              /\ UNCHANGED <<zoneOf, origin, objects, doomed>>
              /\ CommitUpload(r) \/ CommitDeletion(r) \/ CloseSession(r)
<1>1. CASE Receive(r)
  BY <1>1, ReceiveFields DEF tables
<1>2. CASE CommitUpload(r) \/ CommitDeletion(r) \/ CloseSession(r)
  BY <1>2 DEF CommitUpload, CommitDeletion, CloseSession
<1>3. CASE PutObject(r) \/ PutFails(r) \/ InsertMedia(r) \/ InsertFails(r) \/ UndoPut(r)
  BY <1>3 DEF PutObject, PutFails, InsertMedia, InsertFails, UndoPut
<1>4. CASE \/ NothingStored(r) \/ CommitUploadFails(r) \/ ListZone(r) \/ DeleteObject(r)
           \/ LookupMedia(r) \/ SoftDelete(r) \/ DeletionFails(r) \/ CheckRemaining(r)
           \/ CommitDeletionFails(r) \/ Crash(r)
  BY <1>4 DEF NothingStored, CommitUploadFails, ListZone, DeleteObject, LookupMedia,
     SoftDelete, DeletionFails, CheckRemaining, CommitDeletionFails, Crash
<1> QED
  BY <1>1, <1>2, <1>3, <1>4 DEF Serve

-----------------------------------------------------------------------------
(* A new zone is known to nobody but the request that makes it. *)

ZoneInv ==
    \A r \in Requests :
        /\ req[r].op \in {"upload", "batch"} =>
            /\ zoneRow[req[r].zone] = "none"
            /\ \A q \in Requests \ {r} : req[q].zone # req[r].zone
        /\ req[r].op = "add" => ~tx[r].zoneIns

\* What is left to show of a step of r when the others have not moved.
LEMMA ZoneStep ==
    ASSUME ZoneInv, NEW r \in Requests,
           \A q \in Requests \ {r} : req'[q] = req[q] /\ tx'[q] = tx[q],
           \A q \in Requests \ {r} : req[q].op \in {"upload", "batch"} =>
                zoneRow'[req[q].zone] = "none" /\ req'[r].zone # req[q].zone,
           req'[r].op \in {"upload", "batch"} =>
                /\ zoneRow'[req'[r].zone] = "none"
                /\ \A q \in Requests \ {r} : req[q].zone # req'[r].zone,
           req'[r].op = "add" => ~tx'[r].zoneIns
    PROVE  ZoneInv'
<1> SUFFICES ASSUME NEW q \in Requests
             PROVE  /\ req'[q].op \in {"upload", "batch"} =>
                        /\ zoneRow'[req'[q].zone] = "none"
                        /\ \A p \in Requests \ {q} : req'[p].zone # req'[q].zone
                    /\ req'[q].op = "add" => ~tx'[q].zoneIns
  BY DEF ZoneInv
<1>1. CASE q = r
  BY <1>1
<1>2. CASE q # r
  BY <1>2 DEF ZoneInv
<1> QED
  BY <1>1, <1>2

\* A request that goes on, or ends without a commit.
LEMMA ZoneQuiet ==
    ASSUME IInv, ZoneInv, NEW r \in Requests, UNCHANGED zoneRow,
           \A q \in Requests \ {r} : req'[q] = req[q] /\ tx'[q] = tx[q],
           \/ EndSession(r)
           \/ Same(r) /\ (req[r].op = "add" /\ ~tx[r].zoneIns => ~tx'[r].zoneIns)
    PROVE  ZoneInv'
<1>1. \A q \in Requests : req[q].op \in {"upload", "batch"} => req[q].zone \in Zones
  BY DEF IInv, UploadInv, Uploads
<1>2. CASE EndSession(r)
  <2>1. req'[r] = Idle
    BY <1>2, EndFields
  <2>2. Idle.op = "none" /\ Idle.zone = NoZone
    BY DEF Idle, Begin
  <2> QED
    BY <1>1, <2>1, <2>2, NoZoneAssumption, ZoneStep DEF ZoneInv
<1>3. CASE Same(r) /\ (req[r].op = "add" /\ ~tx[r].zoneIns => ~tx'[r].zoneIns)
  BY <1>3, ZoneStep DEF ZoneInv, Same
<1> QED
  BY <1>2, <1>3

\* A new zone is new, and the zone of any other request has a row.
LEMMA ReceiveZone ==
    ASSUME IInv, ZoneInv, NEW r \in Requests, Receive(r) PROVE ZoneInv'
<1>1. \A q \in Requests \ {r} : req'[q] = req[q] /\ tx'[q] = tx[q]
  BY OthersStay
<1>2. UNCHANGED zoneRow
  BY ReceiveFields
<1>3. CASE req'[r].op \in {"upload", "batch"} /\ FreshZone(req'[r].zone)
  BY <1>1, <1>2, <1>3, ZoneStep DEF ZoneInv, FreshZone
<1>4. CASE /\ req'[r].op \notin {"upload", "batch"} /\ zoneRow[req'[r].zone] # "none"
           /\ req'[r].op = "add" => ~tx'[r].zoneIns
  BY <1>1, <1>2, <1>4, ZoneStep DEF ZoneInv
<1>5. \/ /\ req'[r].op \in {"upload", "batch"} /\ FreshZone(req'[r].zone)
      \/ /\ req'[r].op \notin {"upload", "batch"} /\ zoneRow[req'[r].zone] # "none"
         /\ req'[r].op = "add" => ~tx'[r].zoneIns
  <2>1. \A m \in Media : mediaRow[m] = "live" => zoneRow[zoneOf[m]] # "none"
    BY DEF IInv, TablesInv, RowHasZone
  <2> QED
    BY <2>1, ReceiveFields
<1> QED
  BY <1>3, <1>4, <1>5

\* A commit changes the row of its own zone and leaves no handler that knows it.
LEMMA CommitZone ==
    ASSUME IInv, ZoneInv, NEW r \in Requests, ApplyCommit(r), EndSession(r)
    PROVE  ZoneInv'
<1>1. /\ req'[r] = Idle
      /\ \A q \in Requests \ {r} : req'[q] = req[q] /\ tx'[q] = tx[q]
  BY EndFields
<1>2. Idle.op = "none" /\ Idle.zone = NoZone
  BY DEF Idle, Begin
<1>3. \A q \in Requests \ {r} : req[q].op \in {"upload", "batch"} =>
        /\ req[q].zone \in Zones /\ zoneRow[req[q].zone] = "none"
        /\ req[r].zone # req[q].zone
  BY DEF IInv, UploadInv, Uploads, ZoneInv
<1>4. \A z \in Zones : z # req[r].zone => zoneRow'[z] = zoneRow[z]
  BY DEF ApplyCommit
<1> QED
  BY <1>1, <1>2, <1>3, <1>4, NoZoneAssumption, ZoneStep

\* The steps of an open request, and its crash.
LEMMA ServeZone ==
    ASSUME IInv, ZoneInv, NEW r \in Requests, Serve(r) \/ Crash(r) PROVE ZoneInv'
<1>1. \A q \in Requests \ {r} : req'[q] = req[q] /\ tx'[q] = tx[q]
  BY OthersStay
<1>a. "add" \in Uploads /\ "add" # "upload"
  BY DEF Uploads
<1>q. ASSUME UNCHANGED zoneRow,
             \/ EndSession(r)
             \/ Same(r) /\ (req[r].op = "add" /\ ~tx[r].zoneIns => ~tx'[r].zoneIns)
      PROVE  ZoneInv'
  BY <1>1, <1>q, ZoneQuiet
<1>2. CASE PutObject(r) \/ PutFails(r)
  BY <1>2, <1>q, PutObjectFields, PutFailsFields
<1>3. CASE InsertMedia(r) \/ InsertFails(r)
  BY <1>3, <1>q, <1>a, InsertMediaFields, InsertFailsFields
<1>4. CASE UndoPut(r)
  BY <1>4, <1>q, UndoPutFields
<1>5. CASE CommitUploadFails(r)
  BY <1>5, <1>q, <1>a, CommitUploadFailsFields
<1>6. CASE ListZone(r) \/ DeleteObject(r)
  BY <1>6, <1>q, <1>a, ListZoneFields, DeleteObjectFields
<1>7. CASE LookupMedia(r) \/ SoftDelete(r)
  BY <1>7, <1>q, <1>a, LookupMediaFields, SoftDeleteFields
<1>8. CASE CheckRemaining(r)
  BY <1>8, <1>q, <1>a, CheckRemainingFields
<1>9. CASE NothingStored(r) \/ DeletionFails(r) \/ CommitDeletionFails(r) \/ Crash(r)
  BY <1>9, <1>q DEF NothingStored, DeletionFails, CommitDeletionFails, Crash, tables
<1>10. CASE CommitUpload(r) \/ CommitDeletion(r) \/ CloseSession(r)
  BY <1>10, CommitZone DEF CommitUpload, CommitDeletion, CloseSession
<1> QED
  BY <1>2, <1>3, <1>4, <1>5, <1>6, <1>7, <1>8, <1>9, <1>10 DEF Serve

\* In every reachable state.
LEMMA ZoneInvariance == Spec => []ZoneInv
<1>1. Init => ZoneInv
  BY IdleType DEF Init, ZoneInv
<1>2. ASSUME IInv, ZoneInv, [Next]_vars PROVE ZoneInv'
  <2>1. CASE UNCHANGED vars
    BY <1>2, <2>1 DEF vars, ZoneInv
  <2> QED
    BY <1>2, <2>1, ReceiveZone, ServeZone DEF Next, Rest
<1> QED
  BY <1>1, <1>2, Invariance, PTL DEF Spec

\* A commit of rows: what it deletes was there, what it inserts was not, and a
\* zone that it makes comes with the good files of its request.
LEMMA CommitRows ==
    ASSUME IInv, ZoneInv, NEW r \in Requests, ApplyCommit(r),
           CommitUpload(r) \/ CommitDeletion(r) \/ CloseSession(r)
    PROVE  /\ \A m \in Media : mediaRow[m] = "deleted" => mediaRow'[m] = "deleted"
           /\ \A z \in Zones : zoneRow[z] = "deleted" => zoneRow'[z] = "deleted"
           /\ \A z \in Zones : zoneRow[z] = "none" /\ zoneRow'[z] = "live" =>
                \E m \in Media : zoneOf[m] = z /\ mediaRow[m] = "none"
                                 /\ mediaRow'[m] = "live"
<1>1. \A z \in Zones : zoneRow'[z] = IF z # req[r].zone THEN zoneRow[z]
                       ELSE IF tx[r].zoneDel THEN "deleted"
                       ELSE IF tx[r].zoneIns THEN "live" ELSE zoneRow[z]
  BY DEF ApplyCommit
<1>2. \A m \in Media : mediaRow'[m] = IF m \in tx[r].del THEN "deleted"
                       ELSE IF m \in tx[r].ins THEN "live" ELSE mediaRow[m]
  BY DEF ApplyCommit
<1>3. CASE req[r].op \notin Uploads
  <2>1. tx[r].ins = {} /\ ~tx[r].zoneIns
    BY <1>3 DEF IInv, DeletionInv
  <2> QED
    BY <1>1, <1>2, <2>1
<1>4. CASE req[r].op \in Uploads
  <2>1. UploadInv(r) /\ tx[r].ins \subseteq Held(r)
    BY <1>4 DEF IInv, Held
  <2>2. /\ tx[r].del = {} /\ ~tx[r].zoneDel
        /\ \A m \in tx[r].ins : m \in Media /\ mediaRow[m] = "none" /\ zoneOf[m] = req[r].zone
    BY <1>4, <2>1, TransactionFields DEF UploadInv, IInv, StateOK
  <2>3. req[r].good # {} /\ req[r].good \subseteq tx[r].ins
    BY <1>4, <2>1 DEF UploadInv, CommitUpload, CommitDeletion, CloseSession
  <2>4. tx[r].zoneIns => req[r].op \in {"upload", "batch"}
    BY <1>4 DEF ZoneInv, Uploads
  <2>5. tx[r].zoneIns => zoneRow[req[r].zone] = "none"
    BY <2>4 DEF ZoneInv
  <2> QED
    BY <1>1, <1>2, <2>2, <2>3, <2>5
<1> QED
  BY <1>3, <1>4

\* A zone and its first files come in one commit: the request that makes the
\* zone is the only one that can insert the zone, and it commits only with a
\* file that got through.
THEOREM ZonesAreBornWithFiles == Spec => ZoneBornWithFiles
<1> DEFINE A == \A z \in Zones : zoneRow[z] = "none" /\ zoneRow'[z] = "live" =>
                  \E m \in Media : zoneOf[m] = z /\ mediaRow[m] = "none"
                                   /\ mediaRow'[m] = "live"
<1>1. ASSUME IInv, ZoneInv, [Next]_vars PROVE A
  <2>1. CASE UNCHANGED tables
    BY <2>1 DEF tables
  <2>2. CASE UNCHANGED vars
    BY <2>2 DEF vars
  <2> QED
    BY <1>1, <2>1, <2>2, TablesChange, CommitRows DEF Next, Rest
<1>2. IInv /\ ZoneInv /\ [Next]_vars => [A]_vars
  BY <1>1
<1> QED
  BY <1>2, Invariance, ZoneInvariance, PTL DEF Spec, ZoneBornWithFiles

-----------------------------------------------------------------------------
(* While S3 works, what a deletion has asked for is gone, and no upload brings  *)
(* it back.                                                                     *)

DoomInv ==
    /\ doomed \cap objects = {}
    /\ \A m \in doomed : mediaRow[m] # "none"
    /\ ackDeleted \subseteq doomed
    /\ \A m \in Media : mediaRow[m] = "deleted" => m \in doomed
    /\ \A r \in Requests :
        /\ tx[r].del \subseteq doomed
        /\ req[r].pc \in {"lookup", "softDelete", "remaining"} => req[r].cur \in doomed

\* What is left to show of a step of r that leaves the tables alone.
LEMMA DoomStep ==
    ASSUME DoomInv, NEW r \in Requests,
           \A q \in Requests \ {r} : req'[q] = req[q] /\ tx'[q] = tx[q],
           UNCHANGED mediaRow, doomed \subseteq doomed',
           \A m \in doomed' : m \notin doomed => mediaRow[m] # "none",
           doomed' \cap objects' = {}, ackDeleted' \subseteq doomed',
           tx'[r].del \subseteq doomed',
           req'[r].pc \in {"lookup", "softDelete", "remaining"} => req'[r].cur \in doomed'
    PROVE  DoomInv'
<1> SUFFICES ASSUME NEW q \in Requests
             PROVE  /\ tx'[q].del \subseteq doomed'
                    /\ req'[q].pc \in {"lookup", "softDelete", "remaining"} =>
                        req'[q].cur \in doomed'
  BY DEF DoomInv
<1>1. CASE q = r
  BY <1>1
<1>2. CASE q # r
  BY <1>2 DEF DoomInv
<1> QED
  BY <1>1, <1>2

\* A step of a request that dooms nothing and stores nothing.
LEMMA DoomQuiet ==
    ASSUME DoomInv, NEW r \in Requests,
           \A q \in Requests \ {r} : req'[q] = req[q] /\ tx'[q] = tx[q],
           UNCHANGED <<mediaRow, doomed>>, objects' \subseteq objects,
           ackDeleted' \subseteq doomed, tx'[r].del \subseteq doomed,
           req'[r].pc \in {"lookup", "softDelete", "remaining"} => req'[r].cur \in doomed
    PROVE  DoomInv'
<1>1. doomed' \cap objects' = {}
  BY DEF DoomInv
<1> QED
  BY <1>1, DoomStep

\* The end of a session holds nothing.
LEMMA DoomEnd ==
    ASSUME IInv, DoomInv, NEW r \in Requests, EndSession(r),
           UNCHANGED <<mediaRow, doomed, ackDeleted>>, objects' \subseteq objects
    PROVE  DoomInv'
<1>1. tx'[r].del = {} /\ req'[r].pc = "idle"
      /\ \A q \in Requests \ {r} : req'[q] = req[q] /\ tx'[q] = tx[q]
  BY EndFields, IdleType
<1> QED
  BY <1>1, DoomQuiet DEF DoomInv

\* The steps of an upload: the file that is stored has no row yet.
LEMMA UploadDoom ==
    ASSUME "s3" \notin Faults, IInv, DoomInv, NEW r \in Requests,
           \/ PutObject(r) \/ InsertMedia(r) \/ InsertFails(r) \/ UndoPut(r)
           \/ NothingStored(r) \/ CommitUploadFails(r)
    PROVE  DoomInv'
<1>1. \A q \in Requests \ {r} : req'[q] = req[q] /\ tx'[q] = tx[q]
  BY OthersStay DEF Serve
<1>2. ackDeleted \subseteq doomed /\ tx[r].del \subseteq doomed
  BY DEF DoomInv
<1>3. req[r].op \in Uploads => tx[r].del = {}
  BY DEF IInv, UploadInv
<1>4. CASE PutObject(r)
  <2>1. PICK m \in req[r].todo : objects' = objects \cup {m}
    BY <1>4, PutObjectFields
  <2>2. mediaRow[m] = "none"
    BY <1>4, PutObjectFields DEF IInv, UploadInv, Held
  <2>3. doomed' \cap objects' = {}
    BY <1>4, <2>1, <2>2, PutObjectFields DEF DoomInv
  <2>4. /\ UNCHANGED <<mediaRow, doomed, ackDeleted>> /\ tx'[r].del = tx[r].del
        /\ req'[r].pc = "insert"
    BY <1>4, PutObjectFields
  <2> QED
    BY <1>1, <1>2, <2>3, <2>4, DoomStep
<1>5. CASE InsertMedia(r)
  <2>1. /\ UNCHANGED <<mediaRow, objects, doomed, ackDeleted>>
        /\ req'[r].pc \in {"put", "commit"}
    BY <1>5, InsertMediaFields
  <2>2. tx'[r].del \subseteq doomed
    <3>1. IInv'
      BY <1>5, InsertMediaInv
    <3>2. req'[r].op \in Uploads
      BY <1>5, InsertMediaFields DEF Same
    <3> QED
      BY <3>1, <3>2 DEF IInv, UploadInv
  <2> QED
    BY <1>1, <1>2, <2>1, <2>2, DoomQuiet
<1>6. CASE InsertFails(r)
  <2>1. /\ UNCHANGED <<mediaRow, objects, doomed, ackDeleted>>
        /\ req'[r].pc = "undo"
    BY <1>6, InsertFailsFields
  <2>2. tx'[r].del \subseteq doomed
    <3>1. IInv'
      BY <1>6, InsertFailsInv
    <3>2. req'[r].op \in Uploads
      BY <1>6, InsertFailsFields DEF Same
    <3> QED
      BY <3>1, <3>2 DEF IInv, UploadInv
  <2> QED
    BY <1>1, <1>2, <2>1, <2>2, DoomQuiet
<1>7. CASE UndoPut(r)
  <2>1. /\ UNCHANGED <<mediaRow, doomed, ackDeleted>> /\ objects' \subseteq objects
    BY <1>7, UndoPutFields
  <2>2. CASE req[r].op = "upload"
    BY <1>7, <2>1, <2>2, UndoPutFields, DoomEnd
  <2>3. CASE req[r].op # "upload"
    <3>1. tx'[r] = tx[r] /\ req'[r].pc \in {"put", "commit"}
      BY <1>7, <2>3, UndoPutFields
    <3> QED
      BY <1>1, <1>2, <2>1, <3>1, DoomQuiet
  <2> QED
    BY <2>2, <2>3
<1>8. CASE NothingStored(r)
  BY <1>8, DoomEnd DEF NothingStored, tables, acks
<1>9. CASE CommitUploadFails(r)
  <2>1. UNCHANGED <<mediaRow, objects, doomed, ackDeleted>>
    BY <1>9, CommitUploadFailsFields
  <2>2. CASE req[r].op = "upload"
    <3>1. tx'[r].del = {} /\ req'[r].pc = "undo"
      BY <1>9, <2>2, CommitUploadFailsFields, IdleType
    <3> QED
      BY <1>1, <1>2, <2>1, <3>1, DoomQuiet
  <2>3. CASE req[r].op # "upload"
    BY <1>9, <2>1, <2>3, CommitUploadFailsFields, DoomEnd
  <2> QED
    BY <2>2, <2>3
<1> QED
  BY <1>4, <1>5, <1>6, <1>7, <1>8, <1>9

\* The steps of a deletion: the row goes after the object.
LEMMA DeletionDoom ==
    ASSUME "s3" \notin Faults, IInv, DoomInv, NEW r \in Requests,
           \/ ListZone(r) \/ DeleteObject(r) \/ LookupMedia(r) \/ SoftDelete(r)
           \/ DeletionFails(r) \/ CheckRemaining(r) \/ CommitDeletionFails(r)
    PROVE  DoomInv'
<1>1. \A q \in Requests \ {r} : req'[q] = req[q] /\ tx'[q] = tx[q]
  BY OthersStay DEF Serve
<1>2. /\ ackDeleted \subseteq doomed /\ tx[r].del \subseteq doomed
      /\ req[r].pc \in {"lookup", "softDelete", "remaining"} => req[r].cur \in doomed
  BY DEF DoomInv
<1>3. CASE ListZone(r)
  <2>1. /\ UNCHANGED <<mediaRow, objects, doomed, ackDeleted>>
        /\ tx'[r].del = tx[r].del /\ req'[r].pc \in {"commit", "unstore"}
    BY <1>3, ListZoneFields
  <2> QED
    BY <1>1, <1>2, <2>1, DoomQuiet
<1>4. CASE DeleteObject(r)
  <2>1. PICK m \in req[r].todo :
          /\ objects' = objects \ {m} /\ doomed' = doomed \cup {m} /\ req'[r].cur = m
    BY <1>4, DeleteObjectFields
  <2>2. mediaRow[m] # "none"
    BY <1>4, DeleteObjectFields DEF IInv, DeletionInv
  <2>3. doomed' \cap objects' = {} /\ doomed \subseteq doomed' /\ m \in doomed'
    BY <2>1 DEF DoomInv
  <2>4. /\ UNCHANGED <<mediaRow, ackDeleted>> /\ tx'[r].del = tx[r].del
    BY <1>4, DeleteObjectFields
  <2>5. \A x \in doomed' : x \notin doomed => mediaRow[x] # "none"
    BY <2>1, <2>2
  <2> QED
    BY <1>1, <1>2, <2>1, <2>3, <2>4, <2>5, DoomStep
<1>5. CASE LookupMedia(r)
  <2>1. UNCHANGED <<mediaRow, objects, doomed, ackDeleted>>
    BY <1>5, LookupMediaFields
  <2>2. CASE EndSession(r)
    BY <2>1, <2>2, DoomEnd
  <2>3. CASE ~EndSession(r)
    <3>1. tx'[r].del = tx[r].del /\ req'[r].cur = req[r].cur /\ req[r].pc = "lookup"
      BY <1>5, <2>3, LookupMediaFields
    <3> QED
      BY <1>1, <1>2, <2>1, <3>1, DoomQuiet
  <2> QED
    BY <2>2, <2>3
<1>6. CASE SoftDelete(r)
  <2>1. /\ UNCHANGED <<mediaRow, objects, doomed, ackDeleted>>
        /\ tx'[r].del = tx[r].del \cup {req[r].cur} /\ req'[r].cur = req[r].cur
        /\ req[r].pc = "softDelete"
    BY <1>6, SoftDeleteFields
  <2> QED
    BY <1>1, <1>2, <2>1, DoomQuiet
<1>7. CASE DeletionFails(r) \/ CommitDeletionFails(r)
  BY <1>7, DoomEnd DEF DeletionFails, CommitDeletionFails, tables, acks
<1>8. CASE CheckRemaining(r)
  <2>1. /\ UNCHANGED <<mediaRow, objects, doomed>> /\ req[r].pc = "remaining"
        /\ tx'[r].del = tx[r].del /\ req'[r].cur = req[r].cur
        /\ ackDeleted' \subseteq ackDeleted \cup {req[r].cur}
    BY <1>8, CheckRemainingFields
  <2>2. ackDeleted' \subseteq doomed
    BY <1>2, <2>1
  <2> QED
    BY <1>1, <1>2, <2>1, <2>2, DoomQuiet
<1> QED
  BY <1>3, <1>4, <1>5, <1>6, <1>7, <1>8

\* A commit deletes what its request has doomed.
LEMMA CommitDoom ==
    ASSUME IInv, DoomInv, NEW r \in Requests, ApplyCommit(r), EndSession(r),
           UNCHANGED <<objects, doomed>>, ackDeleted' \subseteq ackDeleted \cup tx[r].del
    PROVE  DoomInv'
<1>1. /\ tx'[r].del = {} /\ req'[r].pc = "idle"
      /\ \A q \in Requests \ {r} : req'[q] = req[q] /\ tx'[q] = tx[q]
  BY EndFields, IdleType
<1>2. \A m \in Media : mediaRow'[m] = IF m \in tx[r].del THEN "deleted"
                       ELSE IF m \in tx[r].ins THEN "live" ELSE mediaRow[m]
  BY DEF ApplyCommit
<1>3. /\ ackDeleted' \subseteq doomed'
      /\ \A m \in doomed' : mediaRow'[m] # "none"
      /\ \A m \in Media : mediaRow'[m] = "deleted" => m \in doomed'
  BY <1>2 DEF DoomInv, IInv, StateOK
<1>4. ASSUME NEW q \in Requests
      PROVE  /\ tx'[q].del \subseteq doomed'
             /\ req'[q].pc \in {"lookup", "softDelete", "remaining"} =>
                    req'[q].cur \in doomed'
  <2>1. CASE q = r
    BY <1>1, <2>1
  <2>2. CASE q # r
    BY <1>1, <2>2 DEF DoomInv
  <2> QED
    BY <2>1, <2>2
<1> QED
  BY <1>3, <1>4 DEF DoomInv

\* In every reachable state.
LEMMA DoomInvariance == ASSUME "s3" \notin Faults PROVE Spec => []DoomInv
<1>1. Init => DoomInv
  BY IdleType DEF Init, DoomInv
<1>2. ASSUME IInv, DoomInv, NEW r \in Requests, Receive(r) PROVE DoomInv'
  <2>1. /\ UNCHANGED <<mediaRow, objects, doomed, ackDeleted>> /\ tx'[r].del = {}
        /\ req'[r].pc \in {"put", "commit", "unstore", "list"}
    BY <1>2, ReceiveFields DEF Uploads
  <2>2. \A q \in Requests \ {r} : req'[q] = req[q] /\ tx'[q] = tx[q]
    BY <1>2, OthersStay
  <2>3. ackDeleted \subseteq doomed
    BY <1>2 DEF DoomInv
  <2> QED
    BY <1>2, <2>1, <2>2, <2>3, DoomQuiet
<1>3. ASSUME IInv, DoomInv, NEW r \in Requests,
             CommitUpload(r) \/ CommitDeletion(r) \/ CloseSession(r)
      PROVE  DoomInv'
  BY <1>3, CommitDoom DEF CommitUpload, CommitDeletion, CloseSession, acks
<1>4. ASSUME IInv, DoomInv, NEW r \in Requests, Crash(r) PROVE DoomInv'
  BY <1>4, DoomEnd DEF Crash, tables, acks
<1>5. ASSUME IInv, DoomInv, NEW r \in Requests, Serve(r) PROVE DoomInv'
  <2>1. ~PutFails(r)
    BY DEF PutFails
  <2> QED
    BY <1>3, <1>5, <2>1, UploadDoom, DeletionDoom DEF Serve
<1>6. ASSUME IInv, DoomInv, [Next]_vars PROVE DoomInv'
  <2>1. CASE UNCHANGED vars
    BY <1>6, <2>1 DEF vars, DoomInv
  <2> QED
    BY <1>2, <1>4, <1>5, <1>6, <2>1 DEF Next, Rest
<1> QED
  BY <1>1, <1>6, Invariance, PTL DEF Spec

\* While S3 works, what a response reported as deleted cannot be downloaded, not
\* even when the commit after the response is lost: the object goes first, and a
\* key with a row is never stored again.
THEOREM DeletedIsGoneForGood == ASSUME "s3" \notin Faults PROVE Spec => []DeletedIsGone
<1>1. DoomInv => DeletedIsGone
  BY DEF DoomInv, DeletedIsGone
<1> QED
  BY <1>1, DoomInvariance, PTL

-----------------------------------------------------------------------------
(* While S3 works and no worker dies, an upload of one file leaves no object   *)
(* without a row.                                                               *)

\* The files in the hands of a request.
Mine(r) == req[r].todo \cup req[r].good \cup AtHand(r)

OrphanInv ==
    /\ \A m \in objects : origin[m] # "none"
    /\ \A r \in Requests : req[r].op \in Uploads =>
        /\ \A m \in Held(r) : origin[m] = req[r].op
        /\ req[r].op = "upload" => \A a, b \in Held(r) : a = b
    /\ \A m \in objects : mediaRow[m] = "none" /\ origin[m] = "upload" =>
        \E r \in Requests : req[r].op = "upload" /\ m \in Mine(r)

\* What is left to show of a step of r that begins no upload.
LEMMA OrphanStep ==
    ASSUME IInv, OrphanInv, NEW r \in Requests, UNCHANGED origin,
           \A q \in Requests \ {r} : req'[q] = req[q] /\ tx'[q] = tx[q],
           req'[r].op \in Uploads => req'[r].op = req[r].op /\ Held(r)' \subseteq Held(r),
           \A m \in objects' : origin[m] # "none",
           \A m \in objects' : mediaRow'[m] = "none" /\ origin[m] = "upload" =>
             \/ req'[r].op = "upload" /\ m \in Mine(r)'
             \/ /\ m \in objects /\ mediaRow[m] = "none"
                /\ ~(req[r].op = "upload" /\ m \in Mine(r))
    PROVE  OrphanInv'
<1>1. ASSUME NEW q \in Requests \ {r}
      PROVE  Held(q)' = Held(q) /\ Mine(q)' = Mine(q) /\ req'[q].op = req[q].op
  BY <1>1 DEF Held, Mine, AtHand
<1>2. ASSUME NEW q \in Requests, req'[q].op \in Uploads
      PROVE  /\ \A m \in Held(q)' : origin'[m] = req'[q].op
             /\ req'[q].op = "upload" => \A a, b \in Held(q)' : a = b
  <2>1. CASE q = r
    BY <1>2, <2>1 DEF OrphanInv
  <2>2. CASE q # r
    BY <1>1, <1>2, <2>2 DEF OrphanInv
  <2> QED
    BY <2>1, <2>2
<1>3. ASSUME NEW m \in objects', mediaRow'[m] = "none", origin'[m] = "upload"
      PROVE  \E q \in Requests : req'[q].op = "upload" /\ m \in Mine(q)'
  <2>1. CASE req'[r].op = "upload" /\ m \in Mine(r)'
    BY <2>1
  <2>2. CASE /\ m \in objects /\ mediaRow[m] = "none"
             /\ ~(req[r].op = "upload" /\ m \in Mine(r))
    <3>1. PICK q \in Requests : req[q].op = "upload" /\ m \in Mine(q)
      BY <1>3, <2>2 DEF OrphanInv
    <3>2. q # r
      BY <2>2, <3>1
    <3> QED
      BY <1>1, <3>1, <3>2
  <2> QED
    BY <1>3, <2>1, <2>2
<1>4. \A m \in objects' : origin'[m] # "none"
  OBVIOUS
<1> QED
  BY <1>2, <1>3, <1>4 DEF OrphanInv

\* A session that ends and leaves nothing of a single upload behind.
LEMMA OrphanEnd ==
    ASSUME IInv, OrphanInv, NEW r \in Requests, EndSession(r), UNCHANGED origin,
           objects' \subseteq objects,
           \A m \in objects' : mediaRow'[m] = "none" =>
             mediaRow[m] = "none" /\ ~(req[r].op = "upload" /\ m \in Mine(r))
    PROVE  OrphanInv'
<1>1. /\ req'[r].op \notin Uploads
      /\ \A q \in Requests \ {r} : req'[q] = req[q] /\ tx'[q] = tx[q]
  BY EndFields, IdleType DEF Uploads
<1>2. \A m \in objects' : origin[m] # "none"
  BY DEF OrphanInv
<1> QED
  BY <1>1, <1>2, OrphanStep

\* A step of a deletion.
LEMMA OrphanDeletion ==
    ASSUME IInv, OrphanInv, NEW r \in Requests, UNCHANGED <<origin, mediaRow>>,
           \A q \in Requests \ {r} : req'[q] = req[q] /\ tx'[q] = tx[q],
           objects' \subseteq objects, req[r].op \notin Uploads, req'[r].op \notin Uploads
    PROVE  OrphanInv'
<1>1. \A m \in objects' : origin[m] # "none"
  BY DEF OrphanInv
<1>2. req[r].op # "upload"
  BY DEF Uploads
<1> QED
  BY <1>1, <1>2, OrphanStep

\* A new upload holds its new files, none of which is in the bucket.
LEMMA ReceiveOrphan ==
    ASSUME IInv, OrphanInv, NEW r \in Requests, Receive(r) PROVE OrphanInv'
<1>1. \A q \in Requests \ {r} : req'[q] = req[q] /\ tx'[q] = tx[q]
  BY OthersStay
<1>2. UNCHANGED <<mediaRow, objects>> /\ req[r].pc = "idle"
  BY ReceiveFields DEF Open
<1>3. req[r].op \notin Uploads
  BY <1>2 DEF IInv, UploadInv
<1>4. CASE req'[r].op \notin Uploads
  <2>1. UNCHANGED origin
    BY <1>4, ReceiveFields DEF Uploads
  <2> QED
    BY <1>1, <1>2, <1>3, <1>4, <2>1, OrphanDeletion
<1>5. CASE req'[r].op \in Uploads
  <2>1. /\ \A m \in req'[r].todo : origin[m] = "none"
        /\ req'[r].todo \subseteq Media
        /\ req'[r].op = "upload" => \A a, b \in req'[r].todo : a = b
        /\ origin' = [m \in Media |-> IF m \in req'[r].todo THEN req'[r].op ELSE origin[m]]
    <3>1. req'[r].op = "upload" => \E m \in Media : req'[r].todo = {m}
      BY <1>5, ReceiveFields
    <3> QED
      BY <1>5, <3>1, ReceiveFields
  <2>2. Held(r)' = req'[r].todo
    BY <1>5, ReceiveFields DEF Held, AtHand
  <2>3. objects \subseteq Media /\ origin \in [Media -> Uploads \cup {"none"}]
    BY DEF IInv, StateOK
  <2>4. \A m \in Media : /\ m \in req'[r].todo => origin'[m] = req'[r].op
                         /\ origin[m] # "none" => origin'[m] = origin[m]
    BY <2>1
  <2>5. ASSUME NEW q \in Requests, req'[q].op \in Uploads
        PROVE  /\ \A m \in Held(q)' : origin'[m] = req'[q].op
               /\ req'[q].op = "upload" => \A a, b \in Held(q)' : a = b
    <3>1. CASE q = r
      BY <2>1, <2>2, <2>4, <3>1
    <3>2. CASE q # r
      <4>1. Held(q)' = Held(q) /\ req'[q].op = req[q].op
        BY <1>1, <3>2 DEF Held, AtHand
      <4>2. Held(q) \subseteq Media
        BY HandlerFields, TransactionFields DEF IInv, StateOK, Held, AtHand
      <4>3. \A m \in Held(q) : origin[m] = req[q].op /\ origin[m] # "none"
        BY <2>5, <4>1 DEF OrphanInv, Uploads
      <4> QED
        BY <2>4, <2>5, <4>1, <4>2, <4>3 DEF OrphanInv
    <3> QED
      BY <3>1, <3>2
  <2>6. \A m \in objects : origin'[m] = origin[m] /\ origin[m] # "none"
    BY <2>3, <2>4 DEF OrphanInv
  <2>7. ASSUME NEW m \in objects, mediaRow[m] = "none", origin[m] = "upload"
        PROVE  \E q \in Requests : req'[q].op = "upload" /\ m \in Mine(q)'
    <3>1. PICK q \in Requests : req[q].op = "upload" /\ m \in Mine(q)
      BY <2>7 DEF OrphanInv
    <3>2. q # r
      BY <1>3, <3>1 DEF Uploads
    <3>3. Mine(q)' = Mine(q) /\ req'[q].op = "upload"
      BY <1>1, <3>1, <3>2 DEF Mine, AtHand
    <3> QED
      BY <3>1, <3>3
  <2> QED
    BY <1>2, <2>5, <2>6, <2>7 DEF OrphanInv
<1> QED
  BY <1>4, <1>5

\* The steps of an upload that goes on: its files stay in its hands.
LEMMA UploadOrphan ==
    ASSUME Faults \cap {"s3", "crash"} = {}, IInv, OrphanInv, NEW r \in Requests,
           \/ PutObject(r) \/ InsertMedia(r) \/ InsertFails(r) \/ UndoPut(r)
           \/ CommitUploadFails(r)
    PROVE  OrphanInv'
<1>1. \A q \in Requests \ {r} : req'[q] = req[q] /\ tx'[q] = tx[q]
  BY OthersStay DEF Serve
<1>2. \A m \in objects : origin[m] # "none"
  BY DEF OrphanInv
<1>3. req[r].op \in Uploads =>
        /\ req[r].todo \cup req[r].good \cup tx[r].ins \cup AtHand(r) = Held(r)
        /\ Mine(r) \subseteq Held(r) /\ \A m \in Held(r) : origin[m] # "none"
        /\ req[r].op = "upload" => \A a, b \in Held(r) : a = b
  BY DEF Held, Mine, OrphanInv, IInv, UploadInv
<1>4. CASE PutObject(r)
  <2>1. /\ UNCHANGED <<mediaRow, origin>> /\ req[r].op \in Uploads /\ Same(r)
        /\ tx'[r] = tx[r]
    BY <1>4, PutObjectFields
  <2>2. PICK m \in req[r].todo :
          /\ objects' = objects \cup {m} /\ req'[r].cur = m
          /\ req'[r].todo = req[r].todo \ {m} /\ req'[r].good = req[r].good
    BY <1>4, PutObjectFields
  <2>3. m \in Held(r) /\ m \in Media /\ m \in Mine(r)'
    BY <1>3, <2>1, <2>2, HandlerFields, NoMediaAssumption DEF IInv, StateOK, Mine, AtHand
  <2>4. Held(r)' \subseteq Held(r)
    BY <2>1, <2>2, <2>3, <1>3 DEF Held, AtHand, Same
  <2>5. req[r].op = "upload" => Mine(r) \subseteq {m}
    BY <1>3, <2>1, <2>3
  <2>6. \A x \in objects' : origin[x] # "none"
    BY <1>2, <1>3, <2>1, <2>2, <2>3
  <2>7. \A x \in objects' : mediaRow'[x] = "none" /\ origin[x] = "upload" =>
             \/ req'[r].op = "upload" /\ x \in Mine(r)'
             \/ /\ x \in objects /\ mediaRow[x] = "none"
                /\ ~(req[r].op = "upload" /\ x \in Mine(r))
    <3>1. req[r].op = origin[m]
      BY <2>1, <2>3 DEF OrphanInv
    <3> QED
      BY <2>1, <2>2, <2>3, <2>5, <3>1 DEF Same
  <2> QED
    BY <1>1, <2>1, <2>4, <2>6, <2>7, OrphanStep DEF Same
<1>5. CASE InsertMedia(r)
  <2>1. /\ UNCHANGED <<mediaRow, objects, origin>> /\ req[r].op \in Uploads /\ Same(r)
        /\ req[r].cur \in Media /\ req'[r].cur = NoMedia
        /\ req'[r].todo = req[r].todo /\ req'[r].good = req[r].good \cup {req[r].cur}
        /\ tx'[r].ins = tx[r].ins \cup {req[r].cur}
    BY <1>5, InsertMediaFields
  <2>2. Held(r)' \subseteq Held(r) /\ Mine(r) \subseteq Mine(r)'
    BY <2>1, NoMediaAssumption DEF Held, Mine, AtHand, Same
  <2> QED
    BY <1>1, <1>2, <2>1, <2>2, OrphanStep DEF Same
<1>6. CASE InsertFails(r)
  <2>1. /\ UNCHANGED <<mediaRow, objects, origin>> /\ req[r].op \in Uploads /\ Same(r)
        /\ req'[r].cur = req[r].cur /\ tx'[r].ins = {}
        /\ req'[r].todo = req[r].todo /\ req'[r].good = req[r].good
    BY <1>6, InsertFailsFields
  <2>2. Held(r)' \subseteq Held(r) /\ Mine(r) = Mine(r)'
    BY <2>1 DEF Held, Mine, AtHand, Same
  <2> QED
    BY <1>1, <1>2, <2>1, <2>2, OrphanStep DEF Same
<1>7. CASE UndoPut(r)
  <2>1. /\ UNCHANGED <<mediaRow, origin>> /\ req[r].op \in Uploads /\ req[r].cur \in Media
        /\ objects' = objects \ {req[r].cur}
    BY <1>7, UndoPutFields
  <2>2. CASE req[r].op = "upload"
    <3>1. req[r].cur \in Held(r)
      BY <2>1, NoMediaAssumption DEF Held, AtHand
    <3>2. Mine(r) \subseteq {req[r].cur}
      BY <1>3, <2>1, <2>2, <3>1
    <3> QED
      BY <1>7, <2>1, <2>2, <3>2, UndoPutFields, OrphanEnd
  <2>3. CASE req[r].op # "upload"
    <3>1. /\ Same(r) /\ tx'[r] = tx[r] /\ req'[r].cur = NoMedia
          /\ req'[r].todo = req[r].todo /\ req'[r].good = req[r].good
      BY <1>7, <2>3, UndoPutFields
    <3>2. Held(r)' \subseteq Held(r)
      BY <3>1 DEF Held, AtHand, Same
    <3> QED
      BY <1>1, <1>2, <2>1, <2>3, <3>1, <3>2, OrphanStep DEF Same
  <2> QED
    BY <2>2, <2>3
<1>8. CASE CommitUploadFails(r)
  <2>1. UNCHANGED <<mediaRow, objects, origin>> /\ req[r].op \in Uploads
    BY <1>8, CommitUploadFailsFields
  <2>2. CASE req[r].op # "upload"
    BY <1>8, <2>1, <2>2, CommitUploadFailsFields, OrphanEnd
  <2>3. CASE req[r].op = "upload"
    <3>1. /\ Same(r) /\ tx'[r] = NoTx /\ req'[r].cur \in req[r].good
          /\ req'[r].good = {} /\ req'[r].todo \subseteq req[r].todo
      BY <1>8, <2>3, CommitUploadFailsFields
    <3>2. req'[r].cur \in Held(r) /\ req'[r].cur \in Media
      BY <1>3, <2>1, <3>1, HandlerFields DEF IInv, StateOK
    <3>3. Held(r)' \subseteq Held(r)
      BY <3>1, <3>2, <2>1, IdleType, <1>3 DEF Held, AtHand, Same
    <3>4. Mine(r) \subseteq {req'[r].cur}
      BY <1>3, <2>1, <2>3, <3>2
    <3>5. req'[r].cur \in Mine(r)'
      BY <3>2, NoMediaAssumption DEF Mine, AtHand
    <3> QED
      BY <1>1, <1>2, <2>1, <2>3, <3>1, <3>3, <3>4, <3>5, OrphanStep DEF Same
  <2> QED
    BY <2>2, <2>3
<1> QED
  BY <1>4, <1>5, <1>6, <1>7, <1>8

\* An upload that is committed has given its file a row.
LEMMA CommitUploadOrphan ==
    ASSUME IInv, OrphanInv, NEW r \in Requests, CommitUpload(r) PROVE OrphanInv'
<1>1. /\ ApplyCommit(r) /\ EndSession(r) /\ UNCHANGED <<origin, objects>>
      /\ req[r].op \in Uploads /\ req[r].good # {} /\ UploadInv(r)
      /\ req[r].good \subseteq tx[r].ins
  BY DEF CommitUpload, IInv, UploadInv
<1>2. \A m \in Media : mediaRow'[m] = IF m \in tx[r].del THEN "deleted"
                       ELSE IF m \in tx[r].ins THEN "live" ELSE mediaRow[m]
  BY <1>1 DEF ApplyCommit
<1>3. objects' \subseteq Media /\ tx[r].del = {}
  BY <1>1 DEF IInv, StateOK, UploadInv
<1>4. req[r].op = "upload" => Mine(r) \subseteq tx[r].ins
  <2> SUFFICES ASSUME req[r].op = "upload", NEW m \in Mine(r) PROVE m \in tx[r].ins
    OBVIOUS
  <2>1. PICK g \in req[r].good : g \in tx[r].ins
    BY <1>1
  <2>2. m \in Held(r) /\ g \in Held(r)
    BY <1>1 DEF Held, Mine
  <2> QED
    BY <1>1, <2>1, <2>2 DEF OrphanInv
<1> QED
  BY <1>1, <1>2, <1>3, <1>4, OrphanEnd

\* The steps of a deletion.
LEMMA DeletionOrphan ==
    ASSUME IInv, OrphanInv, NEW r \in Requests,
           \/ NothingStored(r) \/ ListZone(r) \/ DeleteObject(r) \/ LookupMedia(r)
           \/ SoftDelete(r) \/ DeletionFails(r) \/ CheckRemaining(r) \/ CommitDeletion(r)
           \/ CloseSession(r) \/ CommitDeletionFails(r)
    PROVE  OrphanInv'
<1>1. \A q \in Requests \ {r} : req'[q] = req[q] /\ tx'[q] = tx[q]
  BY OthersStay DEF Serve
<1>2. Idle.op \notin Uploads /\ "upload" \in Uploads
  BY IdleType DEF Uploads
<1>3. CASE NothingStored(r)
  <2>1. /\ UNCHANGED <<mediaRow, objects, origin>> /\ EndSession(r) /\ req[r].op # "upload"
    BY <1>3 DEF NothingStored, tables
  <2> QED
    BY <2>1, OrphanEnd
<1>4. CASE ListZone(r) \/ DeleteObject(r) \/ CheckRemaining(r) \/ SoftDelete(r)
  <2>1. /\ UNCHANGED <<mediaRow, origin>> /\ objects' \subseteq objects
        /\ req[r].op \notin Uploads /\ req'[r].op \notin Uploads
    BY <1>4, ListZoneFields, DeleteObjectFields, CheckRemainingFields, SoftDeleteFields
       DEF Same
  <2> QED
    BY <1>1, <2>1, OrphanDeletion
<1>5. CASE LookupMedia(r)
  <2>1. /\ UNCHANGED <<mediaRow, objects, origin>>
        /\ req[r].op \notin Uploads /\ req'[r].op \notin Uploads
    BY <1>2, <1>5, LookupMediaFields, EndFields DEF Same
  <2> QED
    BY <1>1, <2>1, OrphanDeletion
<1>6. CASE DeletionFails(r) \/ CommitDeletionFails(r)
  <2>1. UNCHANGED <<mediaRow, objects, origin>> /\ EndSession(r)
    BY <1>6 DEF DeletionFails, CommitDeletionFails, tables
  <2>2. req[r].op \notin Uploads
    <3>1. Deadlocked(r) => req[r].pc = "softDelete"
      BY DEF Deadlocked, WaitsFor
    <3> QED
      BY <1>6, <3>1 DEF DeletionFails, CommitDeletionFails, IInv, UploadInv
  <2> QED
    BY <1>1, <1>2, <2>1, <2>2, EndFields, OrphanDeletion
<1>7. CASE CommitDeletion(r) \/ CloseSession(r)
  <2>1. UNCHANGED <<objects, origin>> /\ EndSession(r) /\ ApplyCommit(r)
    BY <1>7 DEF CommitDeletion, CloseSession
  <2>2. req[r].op \notin Uploads
    BY <1>7 DEF CommitDeletion, CloseSession, IInv, UploadInv
  <2>3. \A m \in objects' : mediaRow'[m] = "none" => mediaRow[m] = "none"
    BY <2>1 DEF ApplyCommit, IInv, StateOK
  <2> QED
    BY <1>2, <2>1, <2>2, <2>3, OrphanEnd
<1> QED
  BY <1>3, <1>4, <1>5, <1>6, <1>7

\* In every reachable state.
LEMMA OrphanInvariance ==
    ASSUME Faults \cap {"s3", "crash"} = {} PROVE Spec => []OrphanInv
<1>1. Init => OrphanInv
  BY IdleType DEF Init, OrphanInv, Uploads
<1>2. ASSUME IInv, OrphanInv, NEW r \in Requests, Serve(r) PROVE OrphanInv'
  <2>1. ~PutFails(r)
    BY DEF PutFails
  <2> QED
    BY <1>2, <2>1, UploadOrphan, CommitUploadOrphan, DeletionOrphan DEF Serve
<1>3. ASSUME IInv, OrphanInv, [Next]_vars PROVE OrphanInv'
  <2>1. CASE UNCHANGED vars
    BY <1>3, <2>1 DEF vars, OrphanInv, Held, Mine, AtHand
  <2>2. \A r \in Requests : ~Crash(r)
    BY DEF Crash
  <2> QED
    BY <1>2, <1>3, <2>1, <2>2, ReceiveOrphan DEF Next, Rest
<1> QED
  BY <1>1, <1>3, Invariance, PTL DEF Spec

\* While S3 works and no worker dies, an object without a live row that no open
\* request holds is one that a batch or an add could not commit: a single upload
\* removes its object when its row is not committed, and a deletion that commits
\* has removed the object.
THEOREM OrphansComeFromBatches ==
    ASSUME Faults \cap {"s3", "crash"} = {} PROVE Spec => []OnlyBatchesLeaveOrphans
<1>1. ASSUME IInv, DoomInv, OrphanInv PROVE OnlyBatchesLeaveOrphans
  <2> SUFFICES ASSUME NEW m \in objects, ~InHand(m), mediaRow[m] # "live"
               PROVE  mediaRow[m] = "none" /\ origin[m] \in {"batch", "add"}
    BY DEF OnlyBatchesLeaveOrphans
  <2>1. m \in Media /\ mediaRow[m] \in RowState /\ origin[m] \in Uploads \cup {"none"}
    BY <1>1 DEF IInv, StateOK
  <2>2. mediaRow[m] = "none"
    BY <1>1, <2>1 DEF DoomInv, RowState
  <2>3. \A r \in Requests : m \notin Mine(r)
    BY DEF InHand, Mine, AtHand
  <2>4. origin[m] # "none" /\ origin[m] # "upload"
    BY <1>1, <2>2, <2>3 DEF OrphanInv
  <2> QED
    BY <2>1, <2>2, <2>4 DEF Uploads
<1>2. "s3" \notin Faults
  OBVIOUS
<1> QED
  BY <1>1, <1>2, Invariance, DoomInvariance, OrphanInvariance, PTL

-----------------------------------------------------------------------------
(* A zone and its files: what a deletion knows of its zone stays true unless  *)
(* another deletion of the zone, or an add to it, is open at the same time.  *)

MetInv ==
    \A q, r \in Requests :
        q # r /\ req[q].op \in Deletions /\ req[q].zone \in Zones
              /\ req[r].zone = req[q].zone =>
            /\ req[r].op = "add" => req[q].zone \in metAdd
            /\ req[r].op \in Deletions => req[q].zone \in metDelete

\* What the session of a deletion sees in its zone, by its step.
SeenInv(r) ==
    LET seen == LiveFiles(r, req[r].zone) IN
    /\ req[r].zone \notin metAdd =>
        /\ req[r].pc = "commit" => seen = {}
        /\ req[r].op # "delete" /\ req[r].pc = "unstore" => seen \subseteq req[r].todo
        /\ req[r].op # "delete" /\ req[r].pc \in {"lookup", "softDelete"} =>
            seen \subseteq req[r].todo \cup AtHand(r)
    /\ req[r].zone \notin metDelete => (req[r].pc = "closing" => seen # {})

\* What an open request knows of its zone.
KnowsInv(r) ==
    /\ req[r].op = "add" =>
        req[r].zone \in Zones
        /\ (zoneRow[req[r].zone] = "live" \/ req[r].zone \in metAdd)
    /\ req[r].op \in Deletions =>
        /\ req[r].zone \in Zones /\ zoneRow[req[r].zone] # "none"
        /\ \A m \in tx[r].del \cup req[r].todo \cup AtHand(r) : zoneOf[m] = req[r].zone
        /\ tx[r].zoneDel <=> req[r].pc = "commit"
        /\ SeenInv(r)
    /\ req[r].op = "none" => req[r].pc = "idle"

MatchInv ==
    /\ MetInv
    /\ ZoneLivesWithItsFiles
    /\ \A r \in Requests : KnowsInv(r)

\* An operation is an upload, a deletion, or none.
LEMMA OpKinds ==
    /\ Uploads \cap Deletions = {} /\ "none" \notin Uploads \cup Deletions
    /\ "add" \in Uploads /\ "delete" \in Deletions /\ "deleteZone" \in Deletions
    /\ IInv => \A r \in Requests : req[r].op \in Uploads \cup Deletions \cup {"none"}
<1>1. IInv => \A r \in Requests : req[r].op \in Ops \cup {"none"}
  BY HandlerFields DEF IInv, StateOK
<1> QED
  BY <1>1 DEF Ops, Uploads, Deletions

\* A step of an open request keeps its operation and zone, or ends it.
LEMMA ServeMoves ==
    ASSUME IInv, NEW r \in Requests, Serve(r) \/ Crash(r)
    PROVE  Same(r) \/ EndSession(r)
<1>1. CASE PutObject(r) \/ PutFails(r) \/ InsertMedia(r) \/ InsertFails(r) \/ UndoPut(r)
  BY <1>1, PutObjectFields, PutFailsFields, InsertMediaFields, InsertFailsFields, UndoPutFields
<1>2. CASE \/ CommitUploadFails(r) \/ ListZone(r) \/ DeleteObject(r) \/ LookupMedia(r)
           \/ SoftDelete(r) \/ CheckRemaining(r)
  BY <1>2, CommitUploadFailsFields, ListZoneFields, DeleteObjectFields, LookupMediaFields,
     SoftDeleteFields, CheckRemainingFields
<1>3. CASE \/ NothingStored(r) \/ CommitUpload(r) \/ DeletionFails(r) \/ CommitDeletion(r)
           \/ CloseSession(r) \/ CommitDeletionFails(r) \/ Crash(r)
  BY <1>3 DEF NothingStored, CommitUpload, DeletionFails, CommitDeletion, CloseSession,
     CommitDeletionFails, Crash
<1> QED
  BY <1>1, <1>2, <1>3 DEF Serve

\* Requests that are open together on a zone have met.
LEMMA MetStays ==
    ASSUME IInv, MetInv, NEW r \in Requests,
           \/ Receive(r) /\ Meet
           \/ (Serve(r) \/ Crash(r)) /\ UNCHANGED met
    PROVE  MetInv' /\ metAdd \subseteq metAdd' /\ metDelete \subseteq metDelete'
<1>1. CASE Meet
  BY <1>1 DEF Meet, MetInv, Beside, Deleting
<1>2. CASE (Serve(r) \/ Crash(r)) /\ UNCHANGED met
  <2>1. \A q \in Requests \ {r} : req'[q] = req[q]
    BY <1>2, OthersStay
  <2>2. Same(r) \/ req'[r].op = "none"
    BY <1>2, ServeMoves, EndFields DEF Idle, Begin
  <2>3. \A q \in Requests : \/ req'[q].op = req[q].op /\ req'[q].zone = req[q].zone
                            \/ req'[q].op = "none"
    BY <2>1, <2>2 DEF Same
  <2> QED
    BY <1>2, <2>3, OpKinds DEF MetInv, met
<1> QED
  BY <1>1, <1>2

\* What a session sees in a zone, when neither has changed.
LEMMA LiveFilesStay ==
    ASSUME NEW r \in Requests, NEW z, UNCHANGED <<mediaRow, zoneOf>>,
           tx'[r].ins = tx[r].ins, tx'[r].del = tx[r].del
    PROVE  LiveFiles(r, z)' = LiveFiles(r, z)
BY DEF LiveFiles, Seen

\* A request that does not move knows what it knew while the tables stay.
LEMMA KnowsStays ==
    ASSUME IInv, NEW q \in Requests, KnowsInv(q), req'[q] = req[q], tx'[q] = tx[q],
           UNCHANGED <<zoneRow, mediaRow>>,
           \A m \in Media : mediaRow[m] # "none" => zoneOf'[m] = zoneOf[m],
           metAdd \subseteq metAdd', metDelete \subseteq metDelete'
    PROVE  KnowsInv(q)'
<1>1. CASE req[q].op \in Deletions
  <2>1. /\ tx[q].ins = {} /\ tx[q].del \subseteq Media /\ req[q].todo \subseteq Media
        /\ AtHand(q) \subseteq Media
        /\ \A m \in tx[q].del \cup req[q].todo \cup AtHand(q) : mediaRow[m] # "none"
    <3>1. DeletionInv(q) /\ req[q].op \notin Uploads
      BY <1>1, OpKinds DEF IInv
    <3> QED
      BY <3>1, HandlerFields, TransactionFields DEF DeletionInv, AtHand, IInv, StateOK
  <2>2. LiveFiles(q, req[q].zone)' = LiveFiles(q, req[q].zone) /\ AtHand(q)' = AtHand(q)
    BY <2>1 DEF LiveFiles, Seen, AtHand
  <2>3. SeenInv(q)'
    BY <1>1, <2>2 DEF KnowsInv, SeenInv
  <2>4. \A m \in tx'[q].del \cup req'[q].todo \cup AtHand(q)' : zoneOf'[m] = req'[q].zone
    BY <1>1, <2>1, <2>2 DEF KnowsInv
  <2> QED
    BY <1>1, <2>3, <2>4, OpKinds DEF KnowsInv
<1>2. CASE req[q].op \notin Deletions
  BY <1>2 DEF KnowsInv
<1> QED
  BY <1>1, <1>2

\* What is left to show of a step that leaves the tables alone.
LEMMA QuietMatch ==
    ASSUME IInv, MatchInv, NEW r \in Requests,
           \A q \in Requests \ {r} : req'[q] = req[q] /\ tx'[q] = tx[q],
           UNCHANGED <<zoneRow, mediaRow>>,
           \A m \in Media : mediaRow[m] # "none" => zoneOf'[m] = zoneOf[m],
           MetInv', metAdd \subseteq metAdd', metDelete \subseteq metDelete',
           EndSession(r) \/ KnowsInv(r)'
    PROVE  MatchInv'
<1>1. \A q \in Requests \ {r} : KnowsInv(q)'
  BY KnowsStays DEF MatchInv
<1>2. KnowsInv(r)'
  BY EndFields, OpKinds DEF KnowsInv, Idle, Begin
<1>3. ZoneLivesWithItsFiles'
  BY DEF MatchInv, ZoneLivesWithItsFiles, LiveFileOf
<1> QED
  BY <1>1, <1>2, <1>3 DEF MatchInv

\* A request begins on a zone that is live, or on one of its own.
LEMMA ReceiveMatch ==
    ASSUME IInv, MatchInv, NEW r \in Requests, Receive(r), Meet PROVE MatchInv'
<1>1. /\ \A q \in Requests \ {r} : req'[q] = req[q] /\ tx'[q] = tx[q]
      /\ MetInv' /\ metAdd \subseteq metAdd' /\ metDelete \subseteq metDelete'
  BY OthersStay, MetStays DEF MatchInv
<1>2. UNCHANGED <<zoneRow, mediaRow, zoneOf>>
  BY ReceiveFields
<1>3. CASE req'[r].op \in Uploads
  <2>1. KnowsInv(r)'
    BY <1>2, <1>3, ReceiveFields, OpKinds DEF KnowsInv
  <2> QED
    BY <1>1, <1>2, <2>1, QuietMatch
<1>4. CASE req'[r].op \notin Uploads
  <2>1. /\ tx'[r].del = {} /\ tx'[r].zoneDel = FALSE /\ req'[r].cur = NoMedia
        /\ \/ /\ req'[r].op = "delete" /\ req'[r].pc = "unstore"
              /\ \E m \in Media : /\ mediaRow[m] = "live" /\ req'[r].zone = zoneOf[m]
                                  /\ req'[r].todo = {m}
           \/ /\ req'[r].op = "deleteZone" /\ req'[r].pc = "list" /\ req'[r].todo = {}
              /\ req'[r].zone \in Zones /\ zoneRow[req'[r].zone] = "live"
    <3>1. req'[r].op \notin {"upload", "batch", "add"}
      BY <1>4 DEF Uploads
    <3> QED
      BY <3>1, ReceiveFields
  <2>2. \A m \in Media : mediaRow[m] = "live" =>
          zoneOf[m] \in Zones /\ zoneRow[zoneOf[m]] # "none"
    BY DEF IInv, TablesInv, RowHasZone
  <2>3. req'[r].zone \in Zones /\ zoneRow[req'[r].zone] # "none"
    BY <2>1, <2>2
  <2>4. \A m \in tx'[r].del \cup req'[r].todo \cup AtHand(r)' : zoneOf[m] = req'[r].zone
    BY <2>1 DEF AtHand
  <2>5. SeenInv(r)'
    BY <2>1 DEF SeenInv
  <2>6. ~tx'[r].zoneDel /\ req'[r].pc # "commit" /\ req'[r].op \notin {"add", "none"}
    BY <2>1
  <2>7. KnowsInv(r)'
    BY <1>2, <2>3, <2>4, <2>5, <2>6 DEF KnowsInv
  <2> QED
    BY <1>1, <1>2, <2>7, QuietMatch
<1> QED
  BY <1>3, <1>4

\* The steps of an upload: only rows that are not there yet change their zone.
LEMMA UploadMatch ==
    ASSUME IInv, MatchInv, NEW r \in Requests, UNCHANGED met,
           \/ PutObject(r) \/ PutFails(r) \/ InsertMedia(r) \/ InsertFails(r)
           \/ UndoPut(r) \/ CommitUploadFails(r)
    PROVE  MatchInv'
<1>1. /\ \A q \in Requests \ {r} : req'[q] = req[q] /\ tx'[q] = tx[q]
      /\ MetInv' /\ UNCHANGED <<metAdd, metDelete>> /\ KnowsInv(r)
  BY OthersStay, MetStays DEF Serve, MatchInv, met
<1>2. ASSUME UNCHANGED <<zoneRow, mediaRow>>, req[r].op \in Uploads,
             \A m \in Media : mediaRow[m] # "none" => zoneOf'[m] = zoneOf[m],
             Same(r) \/ EndSession(r)
      PROVE  MatchInv'
  <2>1. Same(r) => KnowsInv(r)'
    BY <1>1, <1>2, OpKinds DEF KnowsInv, Same
  <2> QED
    BY <1>1, <1>2, <2>1, QuietMatch
<1>3. CASE InsertMedia(r)
  <2>1. /\ UNCHANGED <<zoneRow, mediaRow>> /\ req[r].op \in Uploads /\ Same(r)
        /\ req[r].cur \in Media
        /\ zoneOf' = [zoneOf EXCEPT ![req[r].cur] = req[r].zone]
    BY <1>3, InsertMediaFields
  <2>2. mediaRow[req[r].cur] = "none"
    <3>1. req[r].cur \in Held(r)
      BY <2>1, NoMediaAssumption DEF Held, AtHand
    <3> QED
      BY <2>1, <3>1 DEF IInv, UploadInv
  <2>3. \A m \in Media : mediaRow[m] # "none" => zoneOf'[m] = zoneOf[m]
    BY <2>1, <2>2 DEF IInv, StateOK
  <2> QED
    BY <1>2, <2>1, <2>3
<1>4. CASE PutObject(r) \/ PutFails(r)
  BY <1>2, <1>4, PutObjectFields, PutFailsFields
<1>5. CASE InsertFails(r) \/ UndoPut(r)
  BY <1>2, <1>5, InsertFailsFields, UndoPutFields
<1>6. CASE CommitUploadFails(r)
  BY <1>2, <1>6, CommitUploadFailsFields
<1> QED
  BY <1>3, <1>4, <1>5, <1>6

\* The steps of a deletion up to its commit.
LEMMA DeletionMatch ==
    ASSUME IInv, MatchInv, NEW r \in Requests, UNCHANGED met,
           \/ ListZone(r) \/ DeleteObject(r) \/ LookupMedia(r) \/ SoftDelete(r)
           \/ CheckRemaining(r)
    PROVE  MatchInv'
<1>1. /\ \A q \in Requests \ {r} : req'[q] = req[q] /\ tx'[q] = tx[q]
      /\ MetInv' /\ UNCHANGED <<metAdd, metDelete>> /\ KnowsInv(r)
  BY OthersStay, MetStays DEF Serve, MatchInv, met
<1> DEFINE seen == LiveFiles(r, req[r].zone)
<1>a. /\ req[r].op \in Deletions /\ req[r].zone \in Zones /\ zoneRow[req[r].zone] # "none"
      /\ \A m \in tx[r].del \cup req[r].todo \cup AtHand(r) : zoneOf[m] = req[r].zone
      /\ tx[r].zoneDel <=> req[r].pc = "commit"
      /\ SeenInv(r)
  <2>1. req[r].op \notin Uploads
    BY ListZoneFields, DeleteObjectFields, LookupMediaFields, SoftDeleteFields,
       CheckRemainingFields
  <2>2. req[r].pc # "idle"
    BY DEF ListZone, DeleteObject, LookupMedia, SoftDelete, CheckRemaining
  <2> QED
    BY <1>1, <2>1, <2>2, OpKinds DEF KnowsInv
<1>2. ASSUME UNCHANGED <<zoneRow, mediaRow, zoneOf>>,
             \/ EndSession(r)
             \/ /\ Same(r) /\ SeenInv(r)'
                /\ tx'[r].zoneDel <=> req'[r].pc = "commit"
                /\ \A m \in tx'[r].del \cup req'[r].todo \cup AtHand(r)' :
                        zoneOf[m] = req[r].zone
      PROVE  MatchInv'
  <2>1. \/ EndSession(r)
        \/ KnowsInv(r)'
    BY <1>a, <1>2, OpKinds DEF KnowsInv, Same
  <2> QED
    BY <1>1, <1>2, <2>1, QuietMatch
<1>3. \A m \in seen : m \in Media /\ zoneOf[m] = req[r].zone
  BY DEF LiveFiles
<1>4. CASE ListZone(r)
  <2>1. /\ UNCHANGED <<zoneRow, mediaRow, zoneOf>> /\ Same(r)
        /\ req'[r].cur = req[r].cur /\ req'[r].todo = seen
        /\ seen = {} => req'[r].pc = "commit" /\ tx'[r].zoneDel
        /\ seen # {} => req'[r].pc = "unstore" /\ ~tx'[r].zoneDel
        /\ tx'[r].ins = tx[r].ins /\ tx'[r].del = tx[r].del
    BY <1>4, ListZoneFields
  <2>2. LiveFiles(r, req[r].zone)' = seen
    BY <2>1 DEF LiveFiles, Seen, Same
  <2>3. AtHand(r)' = AtHand(r)
    BY <2>1 DEF AtHand
  <2> HIDE DEF seen
  <2>4. SeenInv(r)'
    BY <1>1, <2>1, <2>2 DEF SeenInv, Same
  <2> QED
    BY <1>2, <1>3, <1>a, <2>1, <2>3, <2>4
<1>5. CASE DeleteObject(r)
  <2>1. /\ UNCHANGED <<zoneRow, mediaRow, zoneOf>> /\ Same(r)
        /\ req[r].pc = "unstore" /\ req'[r].pc = "lookup" /\ tx'[r] = tx[r]
    BY <1>5, DeleteObjectFields
  <2>2. PICK m \in req[r].todo : req'[r].cur = m /\ req'[r].todo = req[r].todo \ {m}
    BY <1>5, DeleteObjectFields
  <2>3. LiveFiles(r, req[r].zone)' = seen
    BY <2>1 DEF LiveFiles, Seen, Same
  <2>4. AtHand(r)' = {m}
    <3>1. m \in Media
      BY HandlerFields DEF IInv, StateOK
    <3> QED
      BY <2>2, <3>1, NoMediaAssumption DEF AtHand
  <2> HIDE DEF seen
  <2>5. SeenInv(r)'
    BY <1>1, <1>a, <2>1, <2>2, <2>3, <2>4 DEF SeenInv, Same, seen
  <2> QED
    BY <1>2, <1>a, <2>1, <2>2, <2>4, <2>5
<1>6. CASE LookupMedia(r)
  <2>1. /\ UNCHANGED <<zoneRow, mediaRow, zoneOf>> /\ req[r].pc = "lookup"
    BY <1>6, LookupMediaFields
  <2>2. CASE EndSession(r)
    BY <1>2, <2>1, <2>2
  <2>3. CASE ~EndSession(r)
    <3>1. /\ Same(r) /\ req'[r].cur = req[r].cur /\ req'[r].todo = req[r].todo
          /\ tx'[r].ins = tx[r].ins /\ tx'[r].del = tx[r].del
          /\ \/ req'[r].pc = "softDelete" /\ tx'[r] = tx[r]
             \/ /\ Seen(r, req[r].cur) # "live" /\ req[r].op # "delete"
                /\ req[r].todo = {} => req'[r].pc = "commit" /\ tx'[r].zoneDel
                /\ req[r].todo # {} => req'[r].pc = "unstore" /\ ~tx'[r].zoneDel
      BY <1>6, <2>3, LookupMediaFields
    <3>2. LiveFiles(r, req[r].zone)' = seen /\ AtHand(r)' = AtHand(r)
      BY <2>1, <3>1 DEF LiveFiles, Seen, Same, AtHand
    <3>3. Seen(r, req[r].cur) # "live" => req[r].cur \notin seen
      BY DEF LiveFiles
    <3>4. AtHand(r) \subseteq {req[r].cur}
      BY DEF AtHand
    <3>a. /\ ~tx[r].zoneDel
          /\ req[r].zone \notin metAdd /\ req[r].op # "delete" =>
                seen \subseteq req[r].todo \cup AtHand(r)
      BY <1>a, <2>1 DEF SeenInv
    <3> HIDE DEF seen
    <3>5. CASE req'[r].pc = "softDelete" /\ tx'[r] = tx[r]
      <4>1. SeenInv(r)'
        BY <1>1, <3>1, <3>2, <3>5, <3>a DEF SeenInv, Same
      <4> QED
        BY <1>2, <1>a, <2>1, <3>1, <3>2, <3>5, <3>a, <4>1
    <3>6. CASE /\ Seen(r, req[r].cur) # "live" /\ req[r].op # "delete"
               /\ req[r].todo = {} => req'[r].pc = "commit" /\ tx'[r].zoneDel
               /\ req[r].todo # {} => req'[r].pc = "unstore" /\ ~tx'[r].zoneDel
      <4>1. req[r].zone \notin metAdd => seen \subseteq req[r].todo
        BY <3>3, <3>4, <3>6, <3>a
      <4>2. SeenInv(r)'
        BY <1>1, <3>1, <3>2, <3>6, <4>1 DEF SeenInv, Same
      <4> QED
        BY <1>2, <1>a, <2>1, <3>1, <3>2, <3>6, <4>2
    <3> QED
      BY <3>1, <3>5, <3>6
  <2> QED
    BY <2>2, <2>3
<1>7. CASE SoftDelete(r)
  <2>1. /\ UNCHANGED <<zoneRow, mediaRow, zoneOf>> /\ Same(r)
        /\ req[r].pc = "softDelete" /\ req[r].cur \in Media
        /\ req'[r].cur = req[r].cur /\ req'[r].todo = req[r].todo
        /\ tx'[r].ins = tx[r].ins /\ tx'[r].del = tx[r].del \cup {req[r].cur}
        /\ req[r].op = "delete" => /\ req'[r].pc = "remaining"
                                   /\ tx'[r].zoneDel = tx[r].zoneDel
        /\ req[r].op # "delete" =>
             /\ req[r].todo = {} => req'[r].pc = "commit" /\ tx'[r].zoneDel
             /\ req[r].todo # {} => req'[r].pc = "unstore" /\ ~tx'[r].zoneDel
    BY <1>7, SoftDeleteFields
  <2>2. AtHand(r)' = AtHand(r) /\ AtHand(r) = {req[r].cur}
    BY <2>1, NoMediaAssumption DEF AtHand
  <2>3. LiveFiles(r, req[r].zone)' \subseteq seen \ {req[r].cur}
    BY <2>1 DEF LiveFiles, Seen, Same
  <2> HIDE DEF seen
  <2>4. req[r].op # "delete" /\ req[r].zone \notin metAdd =>
          LiveFiles(r, req[r].zone)' \subseteq req[r].todo
    BY <1>a, <2>1, <2>2, <2>3 DEF SeenInv, seen
  <2>5. SeenInv(r)'
    BY <1>1, <2>1, <2>4 DEF SeenInv, Same
  <2>6. tx'[r].zoneDel <=> req'[r].pc = "commit"
    BY <1>a, <2>1
  <2> QED
    BY <1>2, <1>a, <2>1, <2>2, <2>5, <2>6
<1>8. CASE CheckRemaining(r)
  <2>1. /\ UNCHANGED <<zoneRow, mediaRow, zoneOf>> /\ Same(r)
        /\ req[r].pc = "remaining"
        /\ req'[r].cur = req[r].cur /\ req'[r].todo = req[r].todo
        /\ tx'[r].ins = tx[r].ins /\ tx'[r].del = tx[r].del
        /\ seen = {} => req'[r].pc = "commit" /\ tx'[r].zoneDel
        /\ seen # {} => req'[r].pc = "closing" /\ tx'[r].zoneDel = tx[r].zoneDel
    BY <1>8, CheckRemainingFields
  <2>2. LiveFiles(r, req[r].zone)' = seen /\ AtHand(r)' = AtHand(r)
    BY <2>1 DEF LiveFiles, Seen, Same, AtHand
  <2> HIDE DEF seen
  <2>3. SeenInv(r)'
    BY <1>1, <2>1, <2>2 DEF SeenInv, Same
  <2>4. tx'[r].zoneDel <=> req'[r].pc = "commit"
    BY <1>a, <2>1
  <2> QED
    BY <1>2, <1>a, <2>1, <2>2, <2>3, <2>4
<1> QED
  BY <1>4, <1>5, <1>6, <1>7, <1>8

\* What the others know when r commits: nobody else works on the zone of an
\* upload that is not an add, and the requests beside a deletion have met it.
LEMMA KnowsCommit ==
    ASSUME IInv, ZoneInv, MatchInv, NEW r \in Requests, NEW q \in Requests \ {r},
           ApplyCommit(r), UNCHANGED <<zoneOf, metAdd, metDelete>>,
           req'[q] = req[q], tx'[q] = tx[q],
           req[r].op \in Uploads \cup Deletions
    PROVE  KnowsInv(q)'
<1>1. \A z \in Zones : zoneRow'[z] = IF z # req[r].zone THEN zoneRow[z]
                       ELSE IF tx[r].zoneDel THEN "deleted"
                       ELSE IF tx[r].zoneIns THEN "live" ELSE zoneRow[z]
  BY DEF ApplyCommit
<1>2. \A m \in Media : mediaRow'[m] = IF m \in tx[r].del THEN "deleted"
                       ELSE IF m \in tx[r].ins THEN "live" ELSE mediaRow[m]
  BY DEF ApplyCommit
<1>3. KnowsInv(q) /\ KnowsInv(r) /\ MetInv
  BY DEF MatchInv
<1>4. CASE req[q].op = "add"
  <2>1. req[q].zone \in Zones /\ (zoneRow[req[q].zone] = "live" \/ req[q].zone \in metAdd)
    BY <1>3, <1>4 DEF KnowsInv
  <2>2. tx[r].zoneDel /\ req[r].zone = req[q].zone => req[q].zone \in metAdd
    <3>1. tx[r].zoneDel => req[r].op \in Deletions
      BY OpKinds DEF IInv, UploadInv
    <3> QED
      BY <1>3, <1>4, <2>1, <3>1 DEF MetInv
  <2>3. zoneRow'[req[q].zone] = "live" \/ req[q].zone \in metAdd
    BY <1>1, <2>1, <2>2
  <2> QED
    BY <1>4, <2>1, <2>3, OpKinds DEF KnowsInv, Deletions
<1>5. CASE req[q].op \in Deletions
  <2> DEFINE z == req[q].zone
  <2>1. /\ z \in Zones /\ zoneRow[z] # "none"
        /\ \A m \in tx[q].del \cup req[q].todo \cup AtHand(q) : zoneOf[m] = z
        /\ tx[q].zoneDel <=> req[q].pc = "commit"
        /\ SeenInv(q)
    BY <1>3, <1>5 DEF KnowsInv
  <2>2. /\ AtHand(q)' = AtHand(q)
        /\ zoneRow'[z] # "none"
    BY <1>1, <2>1 DEF AtHand
  <2>3. tx[q].ins = {}
    BY <1>5, OpKinds DEF IInv, DeletionInv
  <2>4. z \notin metAdd => LiveFiles(q, z)' \subseteq LiveFiles(q, z)
    <3>1. CASE req[r].op \in Uploads
      <4>1. \A m \in tx[r].ins : zoneOf[m] = req[r].zone
        BY <3>1 DEF IInv, UploadInv
      <4>2. req[r].zone = z => z \in metAdd
        <5>1. req[r].op \in {"upload", "batch"} => req[r].zone # z
          BY <2>1 DEF ZoneInv
        <5>2. req[r].op = "add" /\ req[r].zone = z => z \in metAdd
          BY <1>3, <1>5, <2>1 DEF MetInv
        <5> QED
          BY <3>1, <5>1, <5>2 DEF Uploads
      <4> QED
        BY <1>2, <4>1, <4>2 DEF LiveFiles, Seen
    <3>2. CASE req[r].op \in Deletions
      <4>1. tx[r].ins = {}
        BY <3>2, OpKinds DEF IInv, DeletionInv
      <4> QED
        BY <1>2, <4>1 DEF LiveFiles, Seen
    <3> QED
      BY <3>1, <3>2
  <2>5. z \notin metDelete => LiveFiles(q, z) \subseteq LiveFiles(q, z)'
    <3>1. CASE req[r].op \in Uploads
      <4>1. tx[r].del = {}
        BY <3>1 DEF IInv, UploadInv
      <4> QED
        BY <1>2, <2>3, <4>1 DEF LiveFiles, Seen
    <3>2. CASE req[r].op \in Deletions
      <4>1. \A m \in tx[r].del : zoneOf[m] = req[r].zone
        BY <1>3, <3>2 DEF KnowsInv
      <4>2. req[r].zone = z => z \in metDelete
        BY <1>3, <1>5, <2>1, <3>2 DEF MetInv
      <4> QED
        BY <1>2, <2>3, <4>1, <4>2 DEF LiveFiles, Seen
    <3> QED
      BY <3>1, <3>2
  <2>6. SeenInv(q)'
    BY <2>1, <2>2, <2>4, <2>5 DEF SeenInv
  <2> QED
    BY <1>5, <2>1, <2>2, <2>6, OpKinds DEF KnowsInv
<1>6. CASE req[q].op \notin Deletions \cup {"add"}
  BY <1>3, <1>6 DEF KnowsInv
<1> QED
  BY <1>4, <1>5, <1>6

\* The end of a session, with its commit or without.
LEMMA EndMatch ==
    ASSUME IInv, ZoneInv, MatchInv, NEW r \in Requests, Serve(r) \/ Crash(r),
           UNCHANGED met, EndSession(r), UNCHANGED zoneOf,
           \/ UNCHANGED tables
           \/ /\ ApplyCommit(r)
              /\ CommitUpload(r) \/ CommitDeletion(r) \/ CloseSession(r)
    PROVE  MatchInv'
<1>1. /\ \A q \in Requests \ {r} : req'[q] = req[q] /\ tx'[q] = tx[q]
      /\ MetInv' /\ UNCHANGED <<metAdd, metDelete>> /\ KnowsInv(r)
      /\ ZoneLivesWithItsFiles
  BY OthersStay, MetStays DEF MatchInv, met
<1>2. CASE UNCHANGED tables
  BY <1>1, <1>2, QuietMatch DEF tables
<1>3. CASE /\ ApplyCommit(r)
           /\ CommitUpload(r) \/ CommitDeletion(r) \/ CloseSession(r)
  <2>1. \A z \in Zones : zoneRow'[z] = IF z # req[r].zone THEN zoneRow[z]
                         ELSE IF tx[r].zoneDel THEN "deleted"
                         ELSE IF tx[r].zoneIns THEN "live" ELSE zoneRow[z]
    BY <1>3 DEF ApplyCommit
  <2>2. \A m \in Media : mediaRow'[m] = Seen(r, m)
    BY <1>3 DEF ApplyCommit, Seen
  <2>0. req[r].op \in Uploads \cup Deletions
    <3>1. req[r].pc # "idle"
      BY <1>3 DEF CommitUpload, CommitDeletion, CloseSession
    <3> QED
      BY <1>1, <3>1, OpKinds DEF KnowsInv
  <2>3. /\ \A m \in tx[r].ins \cup tx[r].del : zoneOf[m] = req[r].zone
        /\ \A m \in tx[r].ins : m \in Media /\ Seen(r, m) = "live"
    <3>1. CASE req[r].op \in Uploads
      BY <3>1, TransactionFields DEF IInv, StateOK, UploadInv, Seen
    <3>2. CASE req[r].op \in Deletions
      <4>1. tx[r].ins = {}
        BY <3>2, OpKinds DEF IInv, DeletionInv
      <4> QED
        BY <1>1, <3>2, <4>1 DEF KnowsInv
    <3> QED
      BY <2>0, <3>1, <3>2
  <2>4. \A m \in Media : zoneOf[m] # req[r].zone => mediaRow'[m] = mediaRow[m]
    BY <2>2, <2>3 DEF Seen
  <2>5. ASSUME NEW z \in Zones, z = req[r].zone
        PROVE  /\ zoneRow'[z] = "live" /\ ~LiveFileOf(z)' => z \in metDelete
               /\ zoneRow'[z] = "deleted" /\ LiveFileOf(z)' => z \in metAdd
    <3>1. CASE req[r].op \in Uploads
      <4>1. req[r].good # {} /\ req[r].good \subseteq tx[r].ins /\ ~tx[r].zoneDel
        BY <1>3, <3>1 DEF IInv, UploadInv, CommitUpload, CommitDeletion, CloseSession
      <4>2. LiveFileOf(z)'
        BY <2>2, <2>3, <2>5, <4>1 DEF LiveFileOf
      <4>3. zoneRow'[z] # "deleted" \/ z \in metAdd
        <5>1. tx[r].zoneIns \/ zoneRow[z] # "none"
          BY <2>5, <3>1, <4>1 DEF IInv, UploadInv
        <5>2. CASE req[r].op = "add"
          BY <1>1, <2>1, <2>5, <4>1, <5>2 DEF KnowsInv
        <5>3. CASE req[r].op \in {"upload", "batch"}
          BY <2>1, <2>5, <4>1, <5>1, <5>3 DEF ZoneInv
        <5> QED
          BY <3>1, <5>2, <5>3 DEF Uploads
      <4> QED
        BY <4>2, <4>3
    <3>2. CASE req[r].op \in Deletions
      <4>1. tx[r].ins = {} /\ ~tx[r].zoneIns
        BY <3>2, OpKinds DEF IInv, DeletionInv
      <4>2. LiveFiles(r, z) =
              {m \in Media : zoneOf[m] = z /\ mediaRow'[m] = "live"}
        BY <2>2 DEF LiveFiles
      <4>3. (tx[r].zoneDel <=> req[r].pc = "commit") /\ SeenInv(r)
        BY <1>1, <3>2 DEF KnowsInv
      <4>4. CASE req[r].pc = "commit"
        <5>1. zoneRow'[z] = "deleted"
          BY <2>1, <2>5, <4>3, <4>4
        <5>2. z \notin metAdd => LiveFiles(r, z) = {}
          BY <2>5, <4>3, <4>4 DEF SeenInv
        <5> QED
          BY <5>1, <5>2, <4>2 DEF LiveFileOf
      <4>5. CASE req[r].pc = "closing"
        <5>1. ~tx[r].zoneDel /\ (z \notin metDelete => LiveFiles(r, z) # {})
          BY <2>5, <4>3, <4>5 DEF SeenInv
        <5>2. zoneRow'[z] = zoneRow[z]
          BY <2>1, <2>5, <4>1, <5>1
        <5>3. LiveFileOf(z)' => LiveFileOf(z)
          BY <2>2, <4>1 DEF LiveFileOf, Seen
        <5>4. ~LiveFileOf(z)' => LiveFiles(r, z) = {}
          BY <4>2 DEF LiveFileOf
        <5> QED
          BY <1>1, <5>1, <5>2, <5>3, <5>4 DEF ZoneLivesWithItsFiles
      <4> QED
        BY <1>3, <3>2, <4>4, <4>5, OpKinds DEF CommitUpload, CommitDeletion, CloseSession
    <3> QED
      BY <2>0, <3>1, <3>2
  <2>6. \A y \in Zones : y # req[r].zone =>
            zoneRow'[y] = zoneRow[y] /\ (LiveFileOf(y)' <=> LiveFileOf(y))
    BY <1>3, <2>1, <2>4 DEF LiveFileOf
  <2>7. ZoneLivesWithItsFiles'
    BY <1>1, <2>5, <2>6 DEF ZoneLivesWithItsFiles
  <2>8. \A q \in Requests \ {r} : KnowsInv(q)'
    BY <1>1, <1>3, <2>0, KnowsCommit
  <2>9. KnowsInv(r)'
    BY EndFields, OpKinds DEF KnowsInv, Idle, Begin
  <2> QED
    BY <1>1, <2>7, <2>8, <2>9 DEF MatchInv
<1> QED
  BY <1>2, <1>3

\* In every reachable state.
LEMMA MatchInvariance == Spec => []MatchInv
<1>1. Init => MatchInv
  BY IdleType, OpKinds DEF Init, MatchInv, MetInv, KnowsInv, ZoneLivesWithItsFiles
<1>2. ASSUME IInv, ZoneInv, MatchInv, NEW r \in Requests, Serve(r) \/ Crash(r), UNCHANGED met
      PROVE  MatchInv'
  <2>1. CASE NothingStored(r) \/ DeletionFails(r) \/ CommitDeletionFails(r) \/ Crash(r)
    BY <1>2, <2>1, EndMatch DEF NothingStored, DeletionFails, CommitDeletionFails, Crash
  <2>2. CASE CommitUpload(r) \/ CommitDeletion(r) \/ CloseSession(r)
    BY <1>2, <2>2, EndMatch DEF CommitUpload, CommitDeletion, CloseSession
  <2> QED
    BY <1>2, <2>1, <2>2, UploadMatch, DeletionMatch DEF Serve
<1>3. ASSUME IInv, ZoneInv, MatchInv, [Next]_vars PROVE MatchInv'
  <2>1. CASE UNCHANGED vars
    BY <1>3, <2>1 DEF vars, MatchInv, MetInv, KnowsInv, SeenInv, ZoneLivesWithItsFiles,
       LiveFileOf, AtHand, LiveFiles, Seen
  <2> QED
    BY <1>2, <1>3, <2>1, ReceiveMatch DEF Next, Rest
<1> QED
  BY <1>1, <1>3, Invariance, ZoneInvariance, PTL DEF Spec

\* Whatever fails and however requests interleave, a zone is live exactly as long
\* as it has a live file, except for the two races of delete_media and delete_zone:
\* two deletions of the zone open together, or a deletion and an add to it.
THEOREM ZonesLiveWithFiles == Spec => []ZoneLivesWithItsFiles
<1>1. MatchInv => ZoneLivesWithItsFiles
  BY DEF MatchInv
<1> QED
  BY <1>1, MatchInvariance, PTL

=============================================================================
