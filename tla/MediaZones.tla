----------------------------- MODULE MediaZones -----------------------------
(***************************************************************************)
(* Media zones of one event: the rows of event_media_zones and event_media,*)
(* the objects in the S3 bucket, and the requests of EventMediaService     *)
(* that change them.                                                       *)
(*                                                                         *)
(* A request runs in a session of its own, on a READ COMMITTED             *)
(* transaction: it sees what is committed and what it has flushed itself.  *)
(* Gunicorn runs four workers, so handlers interleave at every S3 call and *)
(* at every statement; even in one worker a delete that is not the last of *)
(* its zone is committed by the session dependency after its response.     *)
(*                                                                         *)
(* The event is live and owned by the caller (require_event_ownership);    *)
(* S3 keys are distinct, so the object of a media file is the file itself. *)
(* Titles, descriptions, tags and update_zone, which writes nothing else,  *)
(* are left out.                                                           *)
(***************************************************************************)
EXTENDS Naturals, FiniteSets

CONSTANTS
    Requests,   \* sessions: the requests that may be open at one time
    Zones,      \* ids of event_media_zones
    Media,      \* ids of event_media, each with an S3 key of its own
    NoZone,     \* the zone of a file whose row was never inserted
    NoMedia,    \* no file at hand
    MaxFiles,   \* bound: the files one request brings
    Faults      \* what the environment may do: a subset of FaultKinds

\* "s3":    an S3 call raises (an upload may have stored the object all the
\*          same), or the URL of a stored object is refused as too long;
\* "db":    a statement or a commit fails;
\* "crash": the worker process dies.
FaultKinds == {"s3", "db", "crash"}

ASSUME NoZoneAssumption == NoZone \notin Zones
ASSUME NoMediaAssumption == NoMedia \notin Media
ASSUME MaxFilesAssumption == MaxFiles \in Nat
ASSUME FaultsAssumption == Faults \subseteq FaultKinds

VARIABLES
    zoneRow,    \* committed state of each zone row
    mediaRow,   \* committed state of each media row
    zoneOf,     \* event_media.zone_id
    origin,     \* the operation a file came with, "none" for an unused id
    objects,    \* the files whose object is in the bucket
    req,        \* the local state of each request's handler
    tx,         \* what each session has flushed and not committed
    doomed,     \* files whose object a deletion has asked S3 to remove
    ackStored,  \* files some response reported as stored
    ackDeleted, \* files some response reported as deleted
    metAdd,     \* history: zones with a deletion and an add open together
    metDelete   \* history: zones with two deletions open together

tables == <<zoneRow, mediaRow>>
acks == <<ackStored, ackDeleted>>
met == <<metAdd, metDelete>>
vars == <<zoneRow, mediaRow, zoneOf, origin, objects, req, tx, doomed,
          ackStored, ackDeleted, metAdd, metDelete>>

RowState == {"none", "live", "deleted"}
Uploads == {"upload", "batch", "add"}
Deletions == {"delete", "deleteZone"}
Ops == Uploads \cup Deletions
PCs == {"idle", "put", "insert", "undo", "unstore", "lookup", "softDelete",
        "remaining", "list", "commit", "closing"}

Handler == [pc: PCs, op: Ops \cup {"none"}, zone: Zones \cup {NoZone},
            cur: Media \cup {NoMedia}, todo: SUBSET Media, good: SUBSET Media]
Transaction == [ins: SUBSET Media, del: SUBSET Media, zoneIns: BOOLEAN,
                zoneDel: BOOLEAN, poisoned: BOOLEAN]

Begin(op, zone, files, pc) ==
    [pc |-> pc, op |-> op, zone |-> zone, cur |-> NoMedia, todo |-> files,
     good |-> {}]
Idle == Begin("none", NoZone, {}, "idle")
NoTx == [ins |-> {}, del |-> {}, zoneIns |-> FALSE, zoneDel |-> FALSE,
         poisoned |-> FALSE]

StateOK ==
    /\ zoneRow \in [Zones -> RowState]
    /\ mediaRow \in [Media -> RowState]
    /\ zoneOf \in [Media -> Zones \cup {NoZone}]
    /\ origin \in [Media -> Uploads \cup {"none"}]
    /\ objects \subseteq Media
    /\ req \in [Requests -> Handler]
    /\ tx \in [Requests -> Transaction]
    /\ doomed \subseteq Media
    /\ ackStored \subseteq Media
    /\ ackDeleted \subseteq Media

TypeOK == StateOK /\ metAdd \subseteq Zones /\ metDelete \subseteq Zones

Init ==
    /\ zoneRow = [z \in Zones |-> "none"]
    /\ mediaRow = [m \in Media |-> "none"]
    /\ zoneOf = [m \in Media |-> NoZone]
    /\ origin = [m \in Media |-> "none"]
    /\ objects = {}
    /\ req = [r \in Requests |-> Idle]
    /\ tx = [r \in Requests |-> NoTx]
    /\ doomed = {}
    /\ ackStored = {}
    /\ ackDeleted = {}
    /\ metAdd = {}
    /\ metDelete = {}

-----------------------------------------------------------------------------
(* What a session reads. *)

Seen(r, m) ==
    IF m \in tx[r].del THEN "deleted"
    ELSE IF m \in tx[r].ins THEN "live" ELSE mediaRow[m]

\* EventMediaRepository.get_media_by_zone_id
LiveFiles(r, z) == {m \in Media : Seen(r, m) = "live" /\ zoneOf[m] = z}

\* uuid4: an id no row has and no open request has taken.
FreshZone(z) == zoneRow[z] = "none" /\ \A q \in Requests : req[q].zone # z
FreshFiles == {m \in Media : origin[m] = "none"}

Open == {r \in Requests : req[r].pc # "idle"}

\* The deletions that are open on a zone, and those of op beside them.
Deleting(z) ==
    {r \in Requests : req[r].op \in Deletions /\ req[r].zone = z}
Beside(z, ops) ==
    \E q \in Deleting(z) : \E r \in Requests \ {q} :
        req[r].zone = z /\ req[r].op \in ops

\* A step of request r: its handler becomes h and its session t.
Step(r, h, t) ==
    /\ req' = [req EXCEPT ![r] = h]
    /\ tx' = [tx EXCEPT ![r] = t]

\* The session ends: an uncommitted transaction is rolled back.
EndSession(r) == Step(r, Idle, NoTx)

\* COMMIT makes the rows a session flushed visible, all at once.
ApplyCommit(r) ==
    /\ zoneRow' = [z \in Zones |->
            IF z # req[r].zone THEN zoneRow[z]
            ELSE IF tx[r].zoneDel THEN "deleted"
            ELSE IF tx[r].zoneIns THEN "live" ELSE zoneRow[z]]
    /\ mediaRow' = [m \in Media |->
            IF m \in tx[r].del THEN "deleted"
            ELSE IF m \in tx[r].ins THEN "live" ELSE mediaRow[m]]

-----------------------------------------------------------------------------
(* Uploads: upload_media_file, batch_upload_media_files, add_media_to_zone.*)

\* A file of the request is at hand.
Take(h, m, pc) == [h EXCEPT !.cur = m, !.todo = @ \ {m}, !.pc = pc]

\* The loop over the files of a request: the next file, or the commit.
NextFile(h) == [h EXCEPT !.cur = NoMedia,
                         !.pc = IF h.todo = {} THEN "commit" ELSE "put"]

StartUpload(r, op, z, files, t) ==
    /\ Step(r, NextFile(Begin(op, z, files, "put")), t)
    /\ origin' = [m \in Media |-> IF m \in files THEN op ELSE origin[m]]
    /\ UNCHANGED <<tables, zoneOf, objects, doomed, acks>>

\* The id of the zone is drawn when the row is; it is reserved here.
UploadMediaFile(r) ==
    /\ r \notin Open
    /\ \E z \in Zones, m \in FreshFiles :
        FreshZone(z) /\ StartUpload(r, "upload", z, {m}, NoTx)

\* Mutant: no zone when the form brings no metadata for it.
BatchUploadNoZone(r) ==
    /\ r \notin Open
    /\ \E z \in Zones, files \in SUBSET FreshFiles :
        /\ FreshZone(z)
        /\ Cardinality(files) <= MaxFiles
        /\ StartUpload(r, "batch", z, files, NoTx)

\* The zone is flushed before the first file; files over the size limit were
\* dropped by the route, which may leave none.
BatchUploadMediaFiles(r) ==
    /\ r \notin Open
    /\ \E z \in Zones, files \in SUBSET FreshFiles :
        /\ FreshZone(z)
        /\ Cardinality(files) <= MaxFiles
        /\ StartUpload(r, "batch", z, files, [NoTx EXCEPT !.zoneIns = TRUE])

AddMediaToZone(r) ==
    /\ r \notin Open
    /\ \E z \in Zones, files \in SUBSET FreshFiles \ {{}} :
        /\ zoneRow[z] = "live"
        /\ Cardinality(files) <= MaxFiles
        /\ StartUpload(r, "add", z, files, NoTx)

PutObject(r) ==
    /\ req[r].pc = "put"
    /\ \E m \in req[r].todo :
        /\ objects' = objects \cup {m}
        /\ Step(r, Take(req[r], m, "insert"), tx[r])
    /\ UNCHANGED <<tables, zoneOf, origin, doomed, acks>>

\* Mutant: the result of upload_file is not looked at.
PutFailsIgnored(r) ==
    /\ "s3" \in Faults
    /\ req[r].pc = "put"
    /\ \E m \in req[r].todo : Step(r, Take(req[r], m, "insert"), tx[r])
    /\ UNCHANGED <<tables, zoneOf, origin, objects, doomed, acks>>

\* Only upload_media_file cleans up after a failed upload_file; in the loop
\* of the other two the file is counted as failed and the loop goes on.
PutFails(r) ==
    /\ "s3" \in Faults
    /\ req[r].pc = "put"
    /\ \E m \in req[r].todo :
        LET h == Take(req[r], m, "undo") IN
        /\ objects' \in {objects, objects \cup {m}}
        /\ Step(r, IF h.op = "upload" THEN h ELSE NextFile(h), tx[r])
    /\ UNCHANGED <<tables, zoneOf, origin, doomed, acks>>

\* media_repo.create; upload_media_file creates its zone here as well.
InsertMedia(r) ==
    LET m == req[r].cur
        h == [req[r] EXCEPT !.good = @ \cup {m}]
        t == [tx[r] EXCEPT !.ins = @ \cup {m},
                           !.zoneIns = @ \/ req[r].op = "upload"]
    IN
    /\ req[r].pc = "insert"
    /\ ~tx[r].poisoned
    /\ zoneOf' = [zoneOf EXCEPT ![m] = req[r].zone]
    /\ Step(r, NextFile(h), t)
    /\ UNCHANGED <<tables, origin, objects, doomed, acks>>

\* A failed flush rolls the transaction back and leaves the session unusable:
\* rollback_transaction does nothing, because nothing calls begin_transaction,
\* and every later flush or commit raises until someone calls db.rollback().
InsertFails(r) ==
    /\ req[r].pc = "insert"
    /\ "db" \in Faults \/ tx[r].poisoned
    /\ Step(r, [req[r] EXCEPT !.pc = "undo"], [NoTx EXCEPT !.poisoned = TRUE])
    /\ UNCHANGED <<tables, zoneOf, origin, objects, doomed, acks>>

\* Mutant: a file that failed is tried again, for as long as it fails.
UndoPutRetries(r) ==
    /\ req[r].pc = "undo"
    /\ objects' = objects \ {req[r].cur}
    /\ Step(r, [req[r] EXCEPT !.todo = @ \cup {req[r].cur}, !.pc = "put"], tx[r])
    /\ UNCHANGED <<tables, zoneOf, origin, doomed, acks>>

\* The object of a file that got no row is deleted; an error of that call is
\* swallowed. upload_media_file then raises, the loops go on.
UndoPut(r) ==
    /\ req[r].pc = "undo"
    /\ \/ objects' = objects \ {req[r].cur}
       \/ "s3" \in Faults /\ UNCHANGED objects
    /\ IF req[r].op = "upload"
       THEN EndSession(r) ELSE Step(r, NextFile(req[r]), tx[r])
    /\ UNCHANGED <<tables, zoneOf, origin, doomed, acks>>

\* Mutant: a request with no good file commits what it has.
NothingStoredCommits(r) ==
    /\ req[r].pc = "commit"
    /\ req[r].op \in {"batch", "add"}
    /\ req[r].good = {}
    /\ ApplyCommit(r)
    /\ EndSession(r)
    /\ UNCHANGED <<zoneOf, origin, objects, doomed, acks>>

\* No file got through: batch_upload_media_files rolls its zone back, and
\* add_media_to_zone has nothing to commit. The response lists failures only.
NothingStored(r) ==
    /\ req[r].pc = "commit"
    /\ req[r].op \in {"batch", "add"}
    /\ req[r].good = {}
    /\ EndSession(r)
    /\ UNCHANGED <<tables, zoneOf, origin, objects, doomed, acks>>

CommitUpload(r) ==
    /\ req[r].pc = "commit"
    /\ req[r].op \in Uploads
    /\ req[r].good # {}
    /\ ~tx[r].poisoned
    /\ ApplyCommit(r)
    /\ ackStored' = ackStored \cup req[r].good
    /\ EndSession(r)
    /\ UNCHANGED <<zoneOf, origin, objects, doomed, ackDeleted>>

\* Mutant: the error of the commit is swallowed.
CommitUploadFailsSilently(r) ==
    /\ req[r].pc = "commit"
    /\ req[r].op \in Uploads
    /\ req[r].good # {}
    /\ "db" \in Faults \/ tx[r].poisoned
    /\ ackStored' = ackStored \cup req[r].good
    /\ EndSession(r)
    /\ UNCHANGED <<tables, zoneOf, origin, objects, doomed, ackDeleted>>

\* Mutant: no operation cleans up after a failed commit.
CommitUploadFailsOnly(r) ==
    /\ req[r].pc = "commit"
    /\ req[r].op \in Uploads
    /\ req[r].good # {}
    /\ "db" \in Faults \/ tx[r].poisoned
    /\ EndSession(r)
    /\ UNCHANGED <<tables, zoneOf, origin, objects, doomed, acks>>

\* upload_media_file rolls back and deletes the object; the other two answer
\* 422 and leave the objects of their good files where they are.
CommitUploadFails(r) ==
    /\ req[r].pc = "commit"
    /\ req[r].op \in Uploads
    /\ req[r].good # {}
    /\ "db" \in Faults \/ tx[r].poisoned
    /\ IF req[r].op = "upload"
       THEN \E m \in req[r].good :
              Step(r, [Take(req[r], m, "undo") EXCEPT !.good = {}], NoTx)
       ELSE EndSession(r)
    /\ UNCHANGED <<tables, zoneOf, origin, objects, doomed, acks>>

-----------------------------------------------------------------------------
(* Deletions: delete_media and delete_zone. *)

DeleteMedia(r) ==
    /\ r \notin Open
    /\ \E m \in Media :
        /\ mediaRow[m] = "live"
        /\ Step(r, Begin("delete", zoneOf[m], {m}, "unstore"), NoTx)
    /\ UNCHANGED <<tables, zoneOf, origin, objects, doomed, acks>>

DeleteZone(r) ==
    /\ r \notin Open
    /\ \E z \in Zones :
        /\ zoneRow[z] = "live"
        /\ Step(r, Begin("deleteZone", z, {}, "list"), NoTx)
    /\ UNCHANGED <<tables, zoneOf, origin, objects, doomed, acks>>

\* delete_zone's loop: the next file, or the zone itself and the commit.
NextDelete(r, h, t) ==
    Step(r, [h EXCEPT !.pc = IF h.todo = {} THEN "commit" ELSE "unstore"],
            [t EXCEPT !.zoneDel = h.todo = {}])

ListZone(r) ==
    /\ req[r].pc = "list"
    /\ NextDelete(r, [req[r] EXCEPT !.todo = LiveFiles(r, req[r].zone)], tx[r])
    /\ UNCHANGED <<tables, zoneOf, origin, objects, doomed, acks>>

\* Mutant: the object goes when the row is gone, and a 404 leaves it.
DeleteObjectLate(r) ==
    /\ req[r].pc = "unstore"
    /\ \E m \in req[r].todo :
        /\ objects' = IF mediaRow[m] = "live" THEN objects ELSE objects \ {m}
        /\ doomed' = doomed \cup {m}
        /\ Step(r, Take(req[r], m, "lookup"), tx[r])
    /\ UNCHANGED <<tables, zoneOf, origin, acks>>

\* The object goes before the row, and an error of S3 is logged and ignored.
DeleteObject(r) ==
    /\ req[r].pc = "unstore"
    /\ \E m \in req[r].todo :
        /\ \/ objects' = objects \ {m}
           \/ "s3" \in Faults /\ UNCHANGED objects
        /\ doomed' = doomed \cup {m}
        /\ Step(r, Take(req[r], m, "lookup"), tx[r])
    /\ UNCHANGED <<tables, zoneOf, origin, acks>>

\* BaseRepository.delete reads the row again. If another request has deleted
\* it meanwhile, delete_media answers 404 and delete_zone takes the next file.
LookupMedia(r) ==
    /\ req[r].pc = "lookup"
    /\ IF Seen(r, req[r].cur) = "live"
       THEN Step(r, [req[r] EXCEPT !.pc = "softDelete"], tx[r])
       ELSE IF req[r].op = "delete" THEN EndSession(r)
       ELSE NextDelete(r, req[r], tx[r])
    /\ UNCHANGED <<tables, zoneOf, origin, objects, doomed, acks>>

\* The UPDATE waits while another transaction holds the row.
WaitsFor(r, q) == /\ r # q
                  /\ req[r].pc = "softDelete"
                  /\ req[r].cur \in tx[q].del

SoftDelete(r) ==
    LET t == [tx[r] EXCEPT !.del = @ \cup {req[r].cur}] IN
    /\ req[r].pc = "softDelete"
    /\ \A q \in Requests : ~WaitsFor(r, q)
    /\ IF req[r].op = "delete"
       THEN Step(r, [req[r] EXCEPT !.pc = "remaining"], t)
       ELSE NextDelete(r, req[r], t)
    /\ UNCHANGED <<tables, zoneOf, origin, objects, doomed, acks>>

\* PostgreSQL aborts a transaction of a cycle of waiting ones: the files of a
\* batch share their created_at, so delete_zone visits them in any order.
Deadlocked(r) ==
    \E S \in SUBSET Requests :
        r \in S /\ \A a \in S : \E b \in S : WaitsFor(a, b)

\* A failing statement of a deletion ends it with 422 and a rollback.
DeletionFails(r) ==
    /\ \/ "db" \in Faults /\ req[r].pc \in {"lookup", "softDelete",
                                            "remaining", "list"}
       \/ Deadlocked(r)
    /\ EndSession(r)
    /\ UNCHANGED <<tables, zoneOf, origin, objects, doomed, acks>>

\* Mutant: the last file goes without its zone.
CheckRemainingNever(r) ==
    /\ req[r].pc = "remaining"
    /\ Step(r, [req[r] EXCEPT !.pc = "closing"], tx[r])
    /\ ackDeleted' = ackDeleted \cup {req[r].cur}
    /\ UNCHANGED <<tables, zoneOf, origin, objects, doomed, ackStored>>

\* delete_media looks for files left in the zone. If there is none it deletes
\* the zone and commits; otherwise it answers 204 with its UPDATE uncommitted.
CheckRemaining(r) ==
    /\ req[r].pc = "remaining"
    /\ IF LiveFiles(r, req[r].zone) = {}
       THEN /\ Step(r, [req[r] EXCEPT !.pc = "commit"],
                       [tx[r] EXCEPT !.zoneDel = TRUE])
            /\ UNCHANGED ackDeleted
       ELSE /\ Step(r, [req[r] EXCEPT !.pc = "closing"], tx[r])
            /\ ackDeleted' = ackDeleted \cup {req[r].cur}
    /\ UNCHANGED <<tables, zoneOf, origin, objects, doomed, ackStored>>

CommitDeletion(r) ==
    /\ req[r].pc = "commit"
    /\ req[r].op \notin Uploads
    /\ ApplyCommit(r)
    /\ ackDeleted' = ackDeleted \cup tx[r].del
    /\ EndSession(r)
    /\ UNCHANGED <<zoneOf, origin, objects, doomed, ackStored>>

\* The commit of get_database_session, after the response has been sent.
CloseSession(r) ==
    /\ req[r].pc = "closing"
    /\ ApplyCommit(r)
    /\ EndSession(r)
    /\ UNCHANGED <<zoneOf, origin, objects, doomed, acks>>

CommitDeletionFails(r) ==
    /\ "db" \in Faults
    /\ req[r].pc \in {"commit", "closing"}
    /\ req[r].op \notin Uploads
    /\ EndSession(r)
    /\ UNCHANGED <<tables, zoneOf, origin, objects, doomed, acks>>

\* The worker dies: PostgreSQL rolls back, nothing is cleaned up.
Crash(r) ==
    /\ "crash" \in Faults
    /\ r \in Open
    /\ EndSession(r)
    /\ UNCHANGED <<tables, zoneOf, origin, objects, doomed, acks>>

-----------------------------------------------------------------------------

\* The steps of an open request.
Serve(r) ==
    \/ PutObject(r) \/ PutFails(r)
    \/ InsertMedia(r) \/ InsertFails(r) \/ UndoPut(r)
    \/ NothingStored(r) \/ CommitUpload(r) \/ CommitUploadFails(r)
    \/ ListZone(r) \/ DeleteObject(r) \/ LookupMedia(r) \/ SoftDelete(r)
    \/ DeletionFails(r) \/ CheckRemaining(r)
    \/ CommitDeletion(r) \/ CloseSession(r) \/ CommitDeletionFails(r)

ReceiveFiles(r) == UploadMediaFile(r) \/ BatchUploadMediaFiles(r) \/ AddMediaToZone(r)
ReceiveDeletion(r) == DeleteMedia(r) \/ DeleteZone(r)
Receive(r) == ReceiveFiles(r) \/ ReceiveDeletion(r)

\* The histories, which no guard reads: two requests are open together from
\* the moment the second is received.
Meet ==
    /\ metAdd' = metAdd \cup {z \in Zones : Beside(z, {"add"})'}
    /\ metDelete' = metDelete \cup {z \in Zones : Beside(z, Deletions)'}

\* Every id of the bound may be used up.
Rest == Open = {} /\ UNCHANGED vars

Next ==
    \/ \E r \in Requests :
        \/ Receive(r) /\ Meet
        \/ (Serve(r) \/ Crash(r)) /\ UNCHANGED met
    \/ Rest

Spec == Init /\ [][Next]_vars

\* A request that was read from the socket is served to its end, and the
\* queue of a row lock in PostgreSQL is first come, first served.
FairSpec ==
    Spec /\ \A r \in Requests : /\ WF_vars(Serve(r) /\ UNCHANGED met)
                                /\ SF_vars(SoftDelete(r) /\ UNCHANGED met)

-----------------------------------------------------------------------------
(* What holds under every interleaving and every fault. *)

\* A live row whose object is gone is a row some deletion was asked for: no
\* upload, however it fails, leaves a row without its object.
LiveRowHasObject ==
    \A m \in Media : mediaRow[m] = "live" => m \in objects \cup doomed

\* A file that a response reported as stored was committed: the uploads commit
\* before they answer, and a poisoned session cannot report its files.
StoredIsCommitted == \A m \in ackStored : mediaRow[m] # "none"

\* A media row never refers to a zone that was not committed with it or before.
RowHasZone ==
    \A m \in Media : mediaRow[m] # "none" =>
        zoneOf[m] \in Zones /\ zoneRow[zoneOf[m]] # "none"

\* A zone appears together with at least one of its files, in one commit.
ZoneBornWithFiles ==
    [][\A z \in Zones : zoneRow[z] = "none" /\ zoneRow'[z] = "live" =>
        \E m \in Media : zoneOf[m] = z /\ mediaRow[m] = "none"
                         /\ mediaRow'[m] = "live"]_vars

LiveFileOf(z) == \E m \in Media : zoneOf[m] = z /\ mediaRow[m] = "live"

\* A zone is live exactly as long as it has a live file, whatever fails and
\* whatever runs at the same time on other zones: delete_media removes it with
\* its last file, delete_zone with all of them. There are two ways apart. A
\* live zone is empty only if two deletions of its files were open together,
\* each of which may have seen the file of the other; a deleted zone has a
\* file, counted in total_files and listed nowhere, only if a file was being
\* added to it while it was deleted. None of it waits for requests to end.
ZoneLivesWithItsFiles ==
    \A z \in Zones :
        /\ zoneRow[z] = "live" /\ ~LiveFileOf(z) => z \in metDelete
        /\ zoneRow[z] = "deleted" /\ LiveFileOf(z) => z \in metAdd

-----------------------------------------------------------------------------
(* What holds when the environment is kinder. *)

\* Held by an open request: the object may still get its row, or lose it.
InHand(m) ==
    \E r \in Requests : m = req[r].cur \/ m \in req[r].good \cup req[r].todo

\* With no fault of S3 and no crash, an object that no open request holds and
\* that has no live row is one a batch or an add could not commit. A failed
\* upload_media_file removes its object again, and a deletion that commits has
\* removed the object, whatever deletions of the same file or zone run at the
\* same time, deadlocks included.
OnlyBatchesLeaveOrphans ==
    \A m \in objects : ~InHand(m) /\ mediaRow[m] # "live" =>
        mediaRow[m] = "none" /\ origin[m] \in {"batch", "add"}

\* While S3 works, what a response reported as deleted cannot be downloaded any
\* more, not even when the commit that follows the response is lost and the
\* row lives on.
DeletedIsGone == \A m \in ackDeleted : m \notin objects

\* Every request is answered and closed: row locks never make requests wait
\* for each other for ever.
RequestsEnd == \A r \in Requests : r \in Open ~> r \notin Open

-----------------------------------------------------------------------------
(* The inductive invariant behind the properties of the first group. *)

AtHand(r) == {req[r].cur} \ {NoMedia}

\* The files an upload has brought: no other request knows of them.
Held(r) ==
    IF req[r].op \in Uploads
    THEN req[r].todo \cup req[r].good \cup tx[r].ins \cup AtHand(r)
    ELSE {}

UploadInv(r) ==
    req[r].op \in Uploads =>
        /\ req[r].pc \in {"put", "insert", "undo", "commit"}
        /\ req[r].zone \in Zones
        /\ tx[r].del = {} /\ ~tx[r].zoneDel
        /\ \A m \in Held(r) : mediaRow[m] = "none" /\ origin[m] # "none"
        /\ tx[r].ins \subseteq objects \cup doomed
        /\ \A m \in tx[r].ins : zoneOf[m] = req[r].zone
        /\ ~tx[r].poisoned => req[r].good \subseteq tx[r].ins
        /\ tx[r].ins # {} => tx[r].zoneIns \/ zoneRow[req[r].zone] # "none"
        /\ req[r].op = "add" => zoneRow[req[r].zone] # "none"
        /\ req[r].op = "batch" /\ ~tx[r].poisoned => tx[r].zoneIns
        /\ tx[r].ins \cap req[r].todo = {}
        /\ req[r].pc = "insert" =>
              req[r].cur \in Media \ req[r].todo /\ req[r].cur \in objects \cup doomed
        /\ req[r].pc = "undo" => req[r].cur \in Media \ tx[r].ins

DeletionInv(r) ==
    req[r].op \notin Uploads =>
        /\ req[r].pc \notin {"put", "insert", "undo"}
        /\ tx[r].ins = {} /\ ~tx[r].zoneIns
        /\ \A m \in tx[r].del \cup req[r].todo \cup AtHand(r) : mediaRow[m] # "none"
        /\ req[r].pc \in {"lookup", "softDelete", "remaining", "closing"} =>
              req[r].cur \in Media

TablesInv ==
    /\ RowHasZone
    /\ LiveRowHasObject
    /\ StoredIsCommitted
    /\ \A m \in Media : mediaRow[m] # "none" => origin[m] # "none"

Disjoint ==
    \A r, q \in Requests : r # q =>
        Held(r) \cap Held(q) = {} /\ tx[r].del \cap tx[q].del = {}

IInv ==
    /\ StateOK
    /\ TablesInv
    /\ Disjoint
    /\ \A r \in Requests : UploadInv(r) /\ DeletionInv(r)

=============================================================================
