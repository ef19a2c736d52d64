------------------------------ MODULE Contacts ------------------------------
(***************************************************************************)
(* The plugs of one user: targets and contacts, as PlugService and         *)
(* PlugProfileService create, update, convert and delete them and change   *)
(* their pictures, and a client that pages through the list or opens the   *)
(* dashboard of UserDetailService.                                         *)
(*                                                                         *)
(* A session keeps the object it has loaded: a later get of the same row   *)
(* asks the database again whether it is live, but leaves the attributes   *)
(* of the first read, and the UPDATE names only the columns whose new      *)
(* value differs from them.  No constraint keeps emails apart.  The commit *)
(* is the session dependency's, after the response.                        *)
(*                                                                         *)
(* A body is a dictionary that is written as it is: it may name any email  *)
(* and any picture, which nobody compares with the bucket.  Names,         *)
(* companies, notes and the other columns without a rule are left out, and *)
(* so are columns that no schema of a body lists.  Plugs of other users    *)
(* are refused at the first read.                                          *)
(***************************************************************************)
EXTENDS Naturals, FiniteSets

CONSTANTS
    Requests,   \* sessions: the requests that may be open at one time
    Plugs,      \* ids of plugs
    NoPlug,     \* no plug at hand
    Emails, NoEmail,
    Files,      \* pictures: keys of the bucket, and URLs of other places
    NoFile,
    RecentLimit, \* recent_plugs_limit of the dashboard
    MaxNamed,   \* bound: how many pictures bodies name
    Faults,     \* what the environment may do: a subset of FaultKinds
    Mixes       \* bound: the sets of operations that meet in one behaviour

\* "s3": a call raises, with or without effect; "db": a commit fails;
\* "crash": the worker process dies.
FaultKinds == {"s3", "db", "crash"}

ASSUME IdAssumption ==
    NoPlug \notin Plugs /\ NoEmail \notin Emails /\ NoFile \notin Files
ASSUME FaultsAssumption == Faults \subseteq FaultKinds
ASSUME LimitAssumption == RecentLimit \in Nat \ {0}

VARIABLES
    plug,       \* the committed row of each id
    older,      \* the order of created_at: the plugs that are older than each
    objects,    \* the pictures in the bucket
    req,        \* the local state of each request's handler
    tx,         \* the row each session has flushed and not committed
    mourned,    \* pictures whose deletion was not followed by the update
    named,      \* history: pictures some body has named
    view,       \* the client that pages through the list or opens the dashboard
    mix         \* the operations of this behaviour

vars == <<plug, older, objects, req, tx, mourned, view, named, mix>>

Row == [state: {"none", "live", "deleted"}, kind: {"target", "contact"},
        email: Emails \cup {NoEmail}, picture: Files \cup {NoFile}]
NoRow == [state |-> "none", kind |-> "target", email |-> NoEmail, picture |-> NoFile]

PCs == {"idle", "check", "clean", "put", "get", "write", "closing"}
Ops == {"none", "create", "update", "convert", "delete", "upload", "unpicture",
        "browse", "dashboard"}
Pictures == {"upload", "unpicture"}

\* file: the picture the request gives to its plug, or leaves to it.
\* loaded: the attributes of the first read.  since: ids whose committed row
\* has changed after the request looked for its email.  itself: the plug held
\* that email when it did.
Handler == [pc: PCs, op: Ops, id: Plugs \cup {NoPlug}, kind: {"target", "contact"},
            email: Emails \cup {NoEmail}, file: Files \cup {NoFile},
            loaded: Row, since: SUBSET Plugs, itself: BOOLEAN]
Idle == [pc |-> "idle", op |-> "none", id |-> NoPlug, kind |-> "target",
         email |-> NoEmail, file |-> NoFile, loaded |-> NoRow, since |-> {},
         itself |-> FALSE]

Transaction == [id: Plugs \cup {NoPlug}, row: Row]
NoTx == [id |-> NoPlug, row |-> NoRow]

\* page: the plugs of the last answer.  seen: those shown on any page, or
\* counted.  twice: those counted twice.  goal: those live at the beginning.
View == [pc: {"off", "page", "count", "leads", "contacts", "recent", "done"},
         mode: {"list", "search", "dashboard"}, skip: Nat, total: Nat,
         page: SUBSET Plugs, seen: SUBSET Plugs, twice: SUBSET Plugs,
         goal: SUBSET Plugs, churn: SUBSET {"created", "deleted", "converted"}]
NoView == [pc |-> "off", mode |-> "list", skip |-> 0, total |-> 0, page |-> {},
           seen |-> {}, twice |-> {}, goal |-> {}, churn |-> {}]

TypeOK ==
    /\ plug \in [Plugs -> Row]
    /\ older \in [Plugs -> SUBSET Plugs]
    /\ objects \subseteq Files
    /\ req \in [Requests -> Handler]
    /\ tx \in [Requests -> Transaction]
    /\ mourned \subseteq Files /\ named \subseteq Files
    /\ view \in View
    /\ mix \in Mixes

Init ==
    /\ plug = [p \in Plugs |-> NoRow]
    /\ older = [p \in Plugs |-> {}]
    /\ objects = {}
    /\ req = [r \in Requests |-> Idle]
    /\ tx = [r \in Requests |-> NoTx]
    /\ mourned = {} /\ named = {}
    /\ view = NoView
    /\ mix \in Mixes

Open == {r \in Requests : req[r].pc # "idle"}
Live == {p \in Plugs : plug[p].state = "live"}

\* The emails a body may name, none among them, and what it may make of a
\* picture: leave it, clear it, or name one.  Bounds: bodies name pictures if the
\* mix has uploads besides updates or conversions, and emails if it has updates
\* and no uploads; plugs are targets unless some operation tells them apart.
Named == {NoEmail} \cup (IF {"update", "upload"} \cap mix = {"update"} THEN Emails ELSE {})
PicturesFrom(f) ==
    {f} \cup IF "upload" \in mix /\ {"update", "convert"} \cap mix # {}
             THEN {NoFile} \cup {g \in Files : Cardinality(named \cup {g}) <= MaxNamed}
             ELSE {}
Kinds == IF {"convert", "dashboard"} \cap mix = {} THEN {"target"} ELSE {"target", "contact"}

Goto(r, pc) == req' = [req EXCEPT ![r].pc = pc]

\* The handler's picture calls are made, its row is not written yet.
HasDeleted(r) == /\ req[r].op \in Pictures
                 /\ req[r].pc \notin {"clean", "idle"}
                 /\ req[r].loaded.picture # NoFile

\* The session is closed without a commit.
Abandon(r) ==
    /\ req' = [req EXCEPT ![r] = Idle]
    /\ tx' = [tx EXCEPT ![r] = NoTx]
    /\ mourned' = IF HasDeleted(r) THEN mourned \cup {req[r].loaded.picture}
                                   ELSE mourned
    /\ older' = IF req[r].op = "create"
                THEN [[p \in Plugs |-> older[p] \ {req[r].id}] EXCEPT ![req[r].id] = {}]
                ELSE older
    /\ UNCHANGED <<plug, view, named, mix>>

-----------------------------------------------------------------------------
(* Receiving a request does its first read. *)

\* The ids that have a row or are getting one.
Used == {p \in Plugs : plug[p].state # "none" \/ \E r \in Open : req[r].id = p}

\* create_plug: created_at is the time the transaction begins.
CreatePlug(r) ==
    /\ r \notin Open
    /\ "create" \in mix
    /\ \E p \in Plugs \ Used, k \in Kinds, e \in Named,
          f \in PicturesFrom(NoFile) :
        /\ req' = [req EXCEPT ![r] = [Idle EXCEPT
                !.pc = IF e = NoEmail THEN "write" ELSE "check",
                !.op = "create", !.id = p, !.kind = k, !.email = e, !.file = f]]
        /\ older' = [older EXCEPT ![p] = Used]
        /\ named' = named \cup ({f} \ {NoFile})
    /\ UNCHANGED <<plug, objects, tx, mourned, view, mix>>

\* _verify_user_plug_ownership, and what depends on what it has read.
Load(r, op, p, e, f, pc) ==
    /\ r \notin Open
    /\ op \in mix
    /\ p \in Live
    /\ req' = [req EXCEPT ![r] = [Idle EXCEPT !.pc = pc, !.op = op, !.id = p, !.email = e,
                                              !.file = f, !.loaded = plug[p]]]
    /\ named' = named \cup ({f} \ {NoFile, plug[p].picture})
    /\ UNCHANGED <<plug, older, objects, tx, mourned, view, mix>>

\* _validate_plug_update looks for the email only if there is one and it differs.
UpdatePlug(r) ==
    \E p \in Live, e \in Named : \E f \in PicturesFrom(plug[p].picture) :
        Load(r, "update", p, e, f, IF e \in {NoEmail, plug[p].email} THEN "get" ELSE "check")

\* The conversion data may name an email, which nobody looks for.
ConvertTargetToContact(r) ==
    \E p \in Live, e \in Named : \E f \in PicturesFrom(plug[p].picture) :
        plug[p].kind = "target" /\ Load(r, "convert", p, e, f, "get")

DeletePlug(r) == \E p \in Live : Load(r, "delete", p, NoEmail, plug[p].picture, "get")

UploadProfilePicture(r) ==
    \E p \in Live : Load(r, "upload", p, NoEmail, plug[p].picture,
                         IF plug[p].picture = NoFile THEN "put" ELSE "clean")

DeleteProfilePicture(r) ==
    \E p \in Live : Load(r, "unpicture", p, NoEmail, NoFile,
                         IF plug[p].picture = NoFile THEN "get" ELSE "clean")

-----------------------------------------------------------------------------

\* find_by(user, email, limit=1): any live row that matches, the plug itself
\* included, which does not count.
Holders(e) == {q \in Live : plug[q].email = e}

\* Mutant: targets are not looked at.
CheckEmailOfContacts(r) ==
    /\ req[r].pc = "check"
    /\ IF \E q \in Holders(req[r].email) \ {req[r].id} : plug[q].kind = "contact"
       THEN Abandon(r)
       ELSE /\ Goto(r, IF req[r].op = "create" THEN "write" ELSE "get")
            /\ UNCHANGED <<plug, older, tx, mourned, view, named, mix>>
    /\ UNCHANGED objects

CheckEmail(r) ==
    /\ req[r].pc = "check"
    /\ \/ Holders(req[r].email) \ {req[r].id} # {} /\ Abandon(r)
       \/ /\ \/ Holders(req[r].email) = {}
             \/ req[r].id \in Holders(req[r].email)
          /\ req' = [req EXCEPT
                ![r].pc = IF req[r].op = "create" THEN "write" ELSE "get",
                ![r].itself = req[r].id \in Holders(req[r].email)]
          /\ UNCHANGED <<plug, older, tx, mourned, view, named, mix>>
    /\ UNCHANGED objects

\* _delete_old_profile_picture: an error is logged and passed over.
DeleteOldPicture(r) ==
    /\ req[r].pc = "clean"
    /\ \/ objects' = objects \ {req[r].loaded.picture}
       \/ "s3" \in Faults /\ objects' = objects
    /\ Goto(r, IF req[r].op = "upload" THEN "put" ELSE "get")
    /\ UNCHANGED <<plug, older, tx, mourned, view, named, mix>>

\* Keys carry the time in microseconds: they are new.
Fresh == Files \ (objects \cup named \cup {plug[p].picture : p \in Plugs}
                          \cup UNION {{req[r].file, req[r].loaded.picture} : r \in Requests})

PutPicture(r) ==
    /\ req[r].pc = "put"
    /\ \E f \in Fresh :
        /\ objects' = objects \cup {f}
        /\ req' = [req EXCEPT ![r].pc = "get", ![r].file = f]
        /\ mourned' = mourned \ {f}
    /\ UNCHANGED <<plug, older, tx, view, named, mix>>

\* The request is answered 422; nothing removes an object that was stored.
PutPictureFails(r) ==
    /\ req[r].pc = "put"
    /\ "s3" \in Faults
    /\ \E F \in {{}} \cup {{f} : f \in Fresh} : objects' = objects \cup F
    /\ Abandon(r)

-----------------------------------------------------------------------------
(* Writing the row. *)

\* BaseRepository.update and delete get the row once more: 404 if it is gone.
GetAgain(r) ==
    /\ req[r].pc = "get"
    /\ IF req[r].id \in Live
       THEN Goto(r, "write") /\ UNCHANGED <<plug, older, tx, mourned, view, named, mix>>
       ELSE Abandon(r)
    /\ UNCHANGED objects

\* The row a handler leaves behind when it finds row in the table: attributes
\* equal to the loaded ones are not written.
Merge(h, row) ==
    [state |-> CASE h.op = "create" -> "live" [] h.op = "delete" -> "deleted"
                 [] OTHER -> row.state,
     kind |-> CASE h.op = "create" -> h.kind [] h.op = "convert" -> "contact"
                [] OTHER -> row.kind,
     email |-> IF h.email # NoEmail /\ h.email # h.loaded.email
               THEN h.email ELSE row.email,
     picture |-> IF h.file # h.loaded.picture THEN h.file ELSE row.picture]

\* Mutant: the UPDATE names every column, with the loaded attributes.
WriteWholeRow(r) ==
    /\ req[r].pc = "write"
    /\ \A q \in Requests : q # r => tx[q].id # req[r].id
    /\ tx' = [tx EXCEPT ![r] = [id |-> req[r].id, row |-> Merge(req[r], req[r].loaded)]]
    /\ Goto(r, "closing")
    /\ UNCHANGED <<plug, older, objects, mourned, view, named, mix>>

\* The flush: an INSERT, an UPDATE that waits for the row lock, or, when no
\* attribute has changed, no statement.  The response goes out.
WriteRow(r) ==
    /\ req[r].pc = "write"
    /\ IF Merge(req[r], req[r].loaded) = req[r].loaded THEN UNCHANGED tx
       ELSE /\ \A q \in Requests : q # r => tx[q].id # req[r].id
            /\ tx' = [tx EXCEPT ![r] =
                    [id |-> req[r].id, row |-> Merge(req[r], plug[req[r].id])]]
    /\ Goto(r, "closing")
    /\ UNCHANGED <<plug, older, objects, mourned, view, named, mix>>

\* What other requests and the client notice of a commit of row p.
Notice(p, new) ==
    /\ req' = [q \in Requests |->
            IF tx[q].id = p THEN Idle
            ELSE IF req[q].op \in {"create", "update"} /\ req[q].email # NoEmail
                    /\ req[q].pc # "check"
            THEN [req[q] EXCEPT !.since = @ \cup {p}]
            ELSE req[q]]
    /\ view' = IF view.pc \in {"off", "done"} THEN view
               ELSE [view EXCEPT !.churn = @ \cup
                    {c \in {"created", "deleted", "converted"} :
                        CASE c = "created" -> plug[p].state = "none"
                          [] c = "deleted" -> new.state = "deleted"
                          [] OTHER -> plug[p].state = "live" /\ new.kind # plug[p].kind}]

\* Mutant: a picture that is removed is removed from the bucket only.
CommitAllButPicture(r) ==
    /\ req[r].pc = "closing"
    /\ tx[r].id # NoPlug
    /\ LET new == [tx[r].row EXCEPT !.picture =
                    IF @ = NoFile THEN plug[tx[r].id].picture ELSE @] IN
        plug' = [plug EXCEPT ![tx[r].id] = new] /\ Notice(tx[r].id, new)
    /\ tx' = [tx EXCEPT ![r] = NoTx]
    /\ UNCHANGED <<older, objects, mourned, named, mix>>

Commit(r) ==
    /\ req[r].pc = "closing"
    /\ tx[r].id # NoPlug
    /\ plug' = [plug EXCEPT ![tx[r].id] = tx[r].row]
    /\ Notice(tx[r].id, tx[r].row)
    /\ tx' = [tx EXCEPT ![r] = NoTx]
    /\ UNCHANGED <<older, objects, mourned, named, mix>>

\* Nothing was written, the commit fails after the response, or the worker
\* dies.
CommitNothing(r) ==
    /\ req[r].pc = "closing"
    /\ tx[r].id = NoPlug
    /\ Abandon(r) /\ UNCHANGED objects

CommitFails(r) ==
    /\ "db" \in Faults
    /\ req[r].pc = "closing"
    /\ Abandon(r) /\ UNCHANGED objects

Crash(r) ==
    /\ "crash" \in Faults
    /\ r \in Open
    /\ Abandon(r) /\ UNCHANGED objects

-----------------------------------------------------------------------------
(* A client reads page after page, one row each, until has_next is false. *)

\* Mutant: every route counts before it reads the page.
CountFirst(mode) == IF mode \in {"list", "search"} THEN "count" ELSE "page"

\* get_user_plugs reads the page and then counts; search_user_plugs counts
\* and then reads the page.
FirstStatement(mode) == IF mode = "list" THEN "page" ELSE "count"

Browse ==
    /\ "browse" \in mix
    /\ view.pc \in {"off", "done"}
    /\ \E mode \in {"list", "search"} :
        view' = [NoView EXCEPT !.pc = FirstStatement(mode), !.mode = mode, !.goal = Live]
    /\ UNCHANGED <<plug, older, objects, req, tx, mourned, named, mix>>

\* order_by created_at descending, offset, limit 1.
Younger(p) == {q \in Live : p \in older[q]}
PageAt(skip) == {p \in Live : Cardinality(Younger(p)) = skip}

\* The response: has_next is current_page < pages.
Respond(page, total) ==
    LET more == view.skip + 1 < total IN
    view' = [view EXCEPT
        !.seen = @ \cup page, !.total = 0, !.page = {},
        !.skip = IF more THEN @ + 1 ELSE @,
        !.pc = IF more THEN FirstStatement(view.mode) ELSE "done"]

ReadPage ==
    /\ view.pc = "page"
    /\ IF FirstStatement(view.mode) = "page"
       THEN view' = [view EXCEPT !.pc = "count", !.page = PageAt(view.skip)]
       ELSE Respond(PageAt(view.skip), view.total)
    /\ UNCHANGED <<plug, older, objects, req, tx, mourned, named, mix>>

CountRows ==
    /\ view.pc = "count"
    /\ IF FirstStatement(view.mode) = "count"
       THEN view' = [view EXCEPT !.pc = "page", !.total = Cardinality(Live)]
       ELSE Respond(view.page, Cardinality(Live))
    /\ UNCHANGED <<plug, older, objects, req, tx, mourned, named, mix>>

-----------------------------------------------------------------------------
(* The dashboard: leads, contacts and recent plugs in a statement each.    *)

ReadDashboard ==
    /\ "dashboard" \in mix
    /\ view.pc \in {"off", "done"}
    /\ view' = [NoView EXCEPT !.pc = "leads", !.mode = "dashboard", !.goal = Live]
    /\ UNCHANGED <<plug, older, objects, req, tx, mourned, named, mix>>

\* Mutant: contacts are counted before leads.
KindCountedOther(statement) == IF statement = "leads" THEN "contact" ELSE "target"

KindCounted(statement) == IF statement = "leads" THEN "target" ELSE "contact"

\* The order of get_user_detail.
NextStatement(statement) == IF statement = "leads" THEN "contacts" ELSE "recent"

\* One count of _get_dashboard_metrics; total_plugs is the sum of the two.
CountPlugs ==
    /\ view.pc \in {"leads", "contacts"}
    /\ LET counted == {p \in Live : plug[p].kind = KindCounted(view.pc)} IN
        view' = [view EXCEPT !.pc = NextStatement(@),
                             !.seen = @ \cup counted, !.twice = view.seen \cap counted]
    /\ UNCHANGED <<plug, older, objects, req, tx, mourned, named, mix>>

\* Which of the live plugs have changed last is left open.
RecentPlugs ==
    /\ view.pc = "recent"
    /\ \E page \in SUBSET Live :
        /\ \/ Cardinality(page) = RecentLimit
           \/ page = Live /\ Cardinality(page) < RecentLimit
        /\ view' = [view EXCEPT !.pc = "done", !.page = page]
    /\ UNCHANGED <<plug, older, objects, req, tx, mourned, named, mix>>

-----------------------------------------------------------------------------

Receive(r) ==
    \/ CreatePlug(r) \/ UpdatePlug(r) \/ ConvertTargetToContact(r)
    \/ DeletePlug(r) \/ UploadProfilePicture(r) \/ DeleteProfilePicture(r)

Serve(r) ==
    \/ CheckEmail(r) \/ DeleteOldPicture(r) \/ PutPicture(r)
    \/ PutPictureFails(r) \/ GetAgain(r) \/ WriteRow(r)
    \/ Commit(r) \/ CommitNothing(r) \/ CommitFails(r)

Next ==
    \/ \E r \in Requests : Receive(r) \/ Serve(r) \/ Crash(r)
    \/ Browse \/ ReadPage \/ CountRows
    \/ ReadDashboard \/ CountPlugs \/ RecentPlugs

Spec == Init /\ [][Next]_vars

-----------------------------------------------------------------------------

\* Emails are told apart except in races: what create_plug or update_plug
\* commits collides only with a plug that got its row after the request had
\* looked for the email, even when the plug it updates has changed since the
\* session loaded it.  The exception is a plug that held the email itself when
\* the request looked and has lost it since: the one row that was asked for may
\* have been its own, whoever else held the email by then.
EmailsCollideOnlyInRaces ==
    [][\A r \in Requests :
        LET p == tx[r].id
            e == tx[r].row.email
        IN  req[r].op \in {"create", "update"} /\ tx'[r].id # p /\ e # NoEmail
            /\ plug'[p] = tx[r].row /\ plug[p].email # e =>
                Holders(e) \subseteq req[r].since \/ req[r].itself]_vars

\* Requests that change one plug at the same time, all from the same stale
\* read, take nothing of one another back: a column of a committed row changes
\* only by a request made to change it.
StaleReadsTakeNothingBack ==
    [][\A p \in Plugs : plug'[p] # plug[p] =>
        \E r \in Requests :
            /\ req[r].id = p /\ req[r].pc = "closing"
            /\ plug'[p].state # plug[p].state => req[r].op \in {"create", "delete"}
            /\ plug'[p].kind # plug[p].kind => req[r].op \in {"create", "convert"}
            /\ plug'[p].email # plug[p].email => plug'[p].email = req[r].email
            /\ plug'[p].picture # plug[p].picture =>
                plug'[p].picture = req[r].file /\ req[r].file # req[r].loaded.picture]_vars

\* The old picture is deleted before the row that names it is updated: a live
\* plug whose picture is gone has a request under way that will replace or
\* clear it, or one that was to do so has failed, unless some body has named
\* that picture: it is written as it is, be it a picture that was replaced or
\* one that another plug will have deleted.  (Invariant together with the types
\* of the variables.)
MissingPictureIsAccounted ==
    /\ TypeOK
    /\ \A p \in Live : plug[p].picture \in Files \ objects =>
        \/ plug[p].picture \in mourned \cup named
        \/ \E r \in Requests : req[r].id = p /\ HasDeleted(r)
                              /\ req[r].loaded.picture = plug[p].picture

\* Offset pages over a list that changes: the list misses a plug that was
\* there all the time only if one was deleted meanwhile, the search also if
\* one was created.
ListMissesNothing ==
    /\ view.pc = "done" /\ view.mode # "dashboard"
    /\ (view.goal \cap Live) \ view.seen # {}
    =>  \/ "deleted" \in view.churn
        \/ view.mode = "search" /\ "created" \in view.churn

\* The counts of the dashboard are statements of their own between which plugs
\* come, go and are converted: a plug that lived all the while is in the total,
\* twice only if it was converted meanwhile, and a recent plug that the total
\* leaves out was created meanwhile.
DashboardCountsEveryPlug ==
    view.pc = "done" /\ view.mode = "dashboard" =>
        /\ view.goal \cap Live \subseteq view.seen
        /\ view.twice # {} => "converted" \in view.churn
        /\ view.page \subseteq view.seen \/ "created" \in view.churn

=============================================================================
