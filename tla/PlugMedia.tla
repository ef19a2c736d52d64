------------------------------ MODULE PlugMedia ------------------------------
(***************************************************************************)
(* Snaps and voice recordings of the plugs of one event: rows of           *)
(* event_plug_media and objects in S3, under EventPlugMediaService.        *)
(*                                                                         *)
(* A request uploads its files one by one in one session: for each it      *)
(* checks the association, puts the object and inserts the row.  A file    *)
(* that fails is noted and the next one is tried.  The commit comes after  *)
(* the response.  The associations change meanwhile as PlugMembership      *)
(* allows; removing one leaves its media alone.                            *)
(***************************************************************************)
EXTENDS PlugMembership, Naturals, FiniteSets

CONSTANTS
    Requests,   \* sessions: the requests that may be open at one time
    Files,      \* files, with their media ids and S3 keys
    NoFile, NoPlug,
    MaxFiles,   \* bound: the files of one request
    Faults      \* what the environment may do: a subset of FaultKinds

\* "s3": a call raises, with or without effect; "db": a statement or a commit
\* fails; "crash": the worker process dies.
FaultKinds == {"s3", "db", "crash"}

ASSUME NoIdAssumption == NoFile \notin Files /\ NoPlug \notin Plugs
ASSUME FaultsAssumption == Faults \subseteq FaultKinds /\ MaxFiles \in Nat

VARIABLES
    row,        \* the committed row of each file
    objects,    \* the bucket
    req,        \* the local state of each request's handler
    tx,         \* what each session has flushed and not committed
    doomed,     \* files whose object some deletion asked S3 to remove
    leaked      \* files a failing call or a lost session left behind

mediaVars == <<row, objects, req, tx, doomed, leaked>>
vars == <<member, mediaVars>>

PCs == {"idle", "check", "put", "insert", "cleanup", "remove", "getAgain",
        "softDelete", "closing"}

\* late: files inserted after the association was removed.
Handler == [pc: PCs, plug: Plugs \cup {NoPlug}, file: Files \cup {NoFile},
            todo: SUBSET Files, good: SUBSET Files, late: SUBSET Files]
Idle == [pc |-> "idle", plug |-> NoPlug, file |-> NoFile,
         todo |-> {}, good |-> {}, late |-> {}]

Transaction == [ins: SUBSET Files, del: SUBSET Files, poisoned: BOOLEAN]
NoTx == [ins |-> {}, del |-> {}, poisoned |-> FALSE]

TypeOK ==
    /\ member \in [Plugs -> Membership]
    /\ row \in [Files -> {"none", "live", "deleted"}]
    /\ objects \subseteq Files
    /\ req \in [Requests -> Handler]
    /\ tx \in [Requests -> Transaction]
    /\ doomed \subseteq Files
    /\ leaked \subseteq Files

Init ==
    /\ MembersInit
    /\ row = [f \in Files |-> "none"]
    /\ objects = {}
    /\ req = [r \in Requests |-> Idle]
    /\ tx = [r \in Requests |-> NoTx]
    /\ doomed = {}
    /\ leaked = {}

Open == {r \in Requests : req[r].pc # "idle"}
InHand(r) == {req[r].file} \cup req[r].todo \cup tx[r].ins
Fresh == {f \in Files : row[f] = "none" /\ f \notin objects \cup leaked}
            \ UNION {InHand(r) : r \in Requests}

\* The files a session has put and not committed, if it goes away now.
Behind(r) == tx[r].ins \cup {f \in {req[r].file} \cap objects :
                                req[r].pc \in {"insert", "cleanup"}}

\* The session is closed without a commit.
Abandon(r) ==
    /\ req' = [req EXCEPT ![r] = Idle]
    /\ tx' = [tx EXCEPT ![r] = NoTx]
    /\ leaked' = leaked \cup Behind(r)
    /\ UNCHANGED <<member, row, objects, doomed>>

-----------------------------------------------------------------------------
(* upload_multiple_plug_media_to_s3, with upload_plug_media_file. *)

UploadMultiple(r) ==
    /\ r \notin Open
    /\ \E p \in Plugs, F \in SUBSET Fresh \ {{}} :
        /\ Cardinality(F) <= MaxFiles
        /\ req' = [req EXCEPT ![r] = [Idle EXCEPT !.pc = "check", !.plug = p, !.todo = F]]
    /\ UNCHANGED <<member, row, objects, tx, doomed, leaked>>

\* validate_event_plug_exists.
Associated(p) == member[p] = "live"

\* Mutant: the association is checked for the first file only.
CheckFirstOnly(r) ==
    /\ req[r].pc = "check"
    /\ \E f \in req[r].todo :
        LET h == [req[r] EXCEPT !.todo = @ \ {f}] IN
        /\ ~tx[r].poisoned
        /\ Associated(h.plug) \/ h.good # {}
        /\ req' = [req EXCEPT ![r] = [h EXCEPT !.pc = "put", !.file = f]]
    /\ UNCHANGED <<member, row, objects, tx, doomed, leaked>>

\* The next file: refused for its size or type, without the association, or
\* because the session is poisoned; nothing has been stored for it.
CheckFile(r) ==
    /\ req[r].pc = "check"
    /\ \E f \in req[r].todo :
        LET h == [req[r] EXCEPT !.todo = @ \ {f}] IN
        \/ req' = [req EXCEPT ![r] = h]
        \/ /\ ~tx[r].poisoned
           /\ Associated(h.plug)
           /\ req' = [req EXCEPT ![r] = [h EXCEPT !.pc = "put", !.file = f]]
    /\ UNCHANGED <<member, row, objects, tx, doomed, leaked>>

PutObject(r) ==
    /\ req[r].pc = "put"
    /\ \/ /\ objects' = objects \cup {req[r].file}
          /\ req' = [req EXCEPT ![r].pc = "insert"]
       \/ /\ "s3" \in Faults
          /\ objects' \in {objects, objects \cup {req[r].file}}
          /\ req' = [req EXCEPT ![r].pc = "cleanup"]
    /\ UNCHANGED <<member, row, tx, doomed, leaked>>

InsertRow(r) ==
    /\ req[r].pc = "insert"
    /\ tx' = [tx EXCEPT ![r].ins = @ \cup {req[r].file}]
    /\ req' = [req EXCEPT ![r].pc = "check", ![r].file = NoFile,
                          ![r].good = @ \cup {req[r].file},
                          ![r].late = IF member[req[r].plug] = "deleted"
                                      THEN @ \cup {req[r].file} ELSE @]
    /\ UNCHANGED <<member, row, objects, doomed, leaked>>

\* A lookup or a flush fails: the rows of the files before it are rolled back,
\* too, but their objects stay and the response still lists them.
StatementFails(r) ==
    /\ "db" \in Faults
    /\ \/ /\ req[r].pc = "check"
          /\ \E f \in req[r].todo : req' = [req EXCEPT ![r].todo = @ \ {f}]
       \/ /\ req[r].pc = "insert"
          /\ req' = [req EXCEPT ![r].pc = "cleanup"]
    /\ tx' = [tx EXCEPT ![r] = [NoTx EXCEPT !.poisoned = TRUE]]
    /\ leaked' = leaked \cup tx[r].ins
    /\ UNCHANGED <<member, row, objects, doomed>>

\* Mutant: only a failed insert is cleaned up after.
CleanUpAfterInsertOnly(r) ==
    /\ req[r].pc = "cleanup"
    /\ objects' = IF tx[r].poisoned THEN objects \ {req[r].file} ELSE objects
    /\ UNCHANGED leaked
    /\ req' = [req EXCEPT ![r].pc = "check", ![r].file = NoFile]
    /\ UNCHANGED <<member, row, tx, doomed>>

\* Mutant: a failed put takes back the files before it as well.
CleanUpAll(r) ==
    /\ req[r].pc = "cleanup"
    /\ objects' = objects \ ({req[r].file} \cup req[r].good)
    /\ UNCHANGED leaked
    /\ req' = [req EXCEPT ![r].pc = "check", ![r].file = NoFile]
    /\ UNCHANGED <<member, row, tx, doomed>>

\* Errors of the cleanup are passed over.
CleanUp(r) ==
    /\ req[r].pc = "cleanup"
    /\ \/ objects' = objects \ {req[r].file} /\ UNCHANGED leaked
       \/ "s3" \in Faults /\ leaked' = leaked \cup {req[r].file} /\ UNCHANGED objects
    /\ req' = [req EXCEPT ![r].pc = "check", ![r].file = NoFile]
    /\ UNCHANGED <<member, row, tx, doomed>>

AnswerUpload(r) ==
    /\ req[r].pc = "check"
    /\ req[r].todo = {}
    /\ IF req[r].good = {} THEN Abandon(r)      \* 400
       ELSE /\ req' = [req EXCEPT ![r].pc = "closing"]
            /\ UNCHANGED <<member, row, objects, tx, doomed, leaked>>

-----------------------------------------------------------------------------
(* delete_plug_media. *)

DeletePlugMedia(r) ==
    /\ r \notin Open
    /\ \E f \in {g \in Files : row[g] = "live"} :
        req' = [req EXCEPT ![r] = [Idle EXCEPT !.pc = "remove", !.file = f]]
    /\ UNCHANGED <<member, row, objects, tx, doomed, leaked>>

\* An error of S3 is logged and passed over.
RemoveObject(r) ==
    /\ req[r].pc = "remove"
    /\ \/ objects' = objects \ {req[r].file} /\ UNCHANGED leaked
       \/ "s3" \in Faults /\ leaked' = leaked \cup {req[r].file} /\ UNCHANGED objects
    /\ doomed' = doomed \cup {req[r].file}
    /\ req' = [req EXCEPT ![r].pc = "getAgain"]
    /\ UNCHANGED <<member, row, tx>>

\* BaseRepository.delete gets the row again: 404 if another deletion is done.
GetAgain(r) ==
    /\ req[r].pc = "getAgain"
    /\ IF row[req[r].file] # "live" THEN Abandon(r)
       ELSE /\ req' = [req EXCEPT ![r].pc = "softDelete"]
            /\ UNCHANGED <<member, row, objects, tx, doomed, leaked>>

\* The UPDATE waits for the row lock.
SoftDelete(r) ==
    /\ req[r].pc = "softDelete"
    /\ \A q \in Requests : q # r => req[r].file \notin tx[q].del
    /\ tx' = [tx EXCEPT ![r].del = {req[r].file}]
    /\ req' = [req EXCEPT ![r].pc = "closing"]
    /\ UNCHANGED <<member, row, objects, doomed, leaked>>

-----------------------------------------------------------------------------

\* get_database_session, after the response.
CloseSession(r) ==
    /\ req[r].pc = "closing"
    /\ ~tx[r].poisoned
    /\ row' = [f \in Files |-> IF f \in tx[r].del THEN "deleted"
                               ELSE IF f \in tx[r].ins THEN "live" ELSE row[f]]
    /\ req' = [req EXCEPT ![r] = Idle]
    /\ tx' = [tx EXCEPT ![r] = NoTx]
    /\ UNCHANGED <<member, objects, doomed, leaked>>

SessionFails(r) ==
    \/ "db" \in Faults /\ req[r].pc \in {"getAgain", "softDelete", "closing"} /\ Abandon(r)
    \/ tx[r].poisoned /\ req[r].pc = "closing" /\ Abandon(r)

Crash(r) ==
    /\ "crash" \in Faults
    /\ r \in Open
    /\ Abandon(r)

Serve(r) ==
    \/ CheckFile(r) \/ PutObject(r) \/ InsertRow(r) \/ StatementFails(r)
    \/ CleanUp(r) \/ AnswerUpload(r) \/ RemoveObject(r) \/ GetAgain(r)
    \/ SoftDelete(r) \/ CloseSession(r) \/ SessionFails(r)

Next ==
    \/ \E r \in Requests : UploadMultiple(r) \/ DeletePlugMedia(r) \/ Serve(r) \/ Crash(r)
    \/ (Join \/ Leave) /\ UNCHANGED mediaVars

Spec == Init /\ [][Next]_vars

-----------------------------------------------------------------------------

\* The association is checked and the row inserted much later, with the upload
\* between: each request gets at most the one file it has in hand in after the
\* plug has left the event, because every file asks again.
OneLateFile == \A r \in Requests : Cardinality(req[r].late) <= 1

\* An object that no live row names is in the hands of a request, or was left
\* behind by a call that failed or a session that was lost: every failure
\* path of the loop cleans up after itself.
OrphansAreAccounted ==
    \A f \in objects : row[f] # "live" =>
        f \in leaked \/ \E r \in Requests : f \in InHand(r)

\* A live row without its object was deleted, or is being: uploads and their
\* cleanups, which share the bucket, never take an object from a row.
\* (Invariant together with the types of the variables.)
RowHasObject ==
    /\ TypeOK
    /\ \A f \in Files : row[f] = "live" /\ f \notin objects => f \in doomed

=============================================================================
