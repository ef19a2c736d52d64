# A TLA+ model of the Plugs network backend

The Plugs network is a FastAPI backend (`src/app`) for people who work events: they
keep *plugs* (targets and contacts), *events* with agendas and expenses, associate the
two, and upload pictures and recordings. Rows live in PostgreSQL, files in S3, one-time
passwords and counters in Redis, mail goes out through Celery. This directory holds
TLA+ modules of the parts of it where steps of several actors, failures and retries
decide whether the data stays right, the TLC runs that check them, and TLAPS proofs.

## 1. How the system runs

* `Dockerfile` starts gunicorn with four uvicorn workers. Every route is `async def`
  and calls SQLAlchemy, boto3 and Redis with blocking calls. Requests of different
  workers interleave at every statement and every S3 call.
* A request has its own session (`core/dependencies.py:16-37`): `autoflush=False`,
  `expire_on_commit=False`, PostgreSQL at READ COMMITTED. A statement sees what is
  committed when it starts and what its own transaction has flushed.
* The session dependency commits when it is closed. With FastAPI 0.104 that is after
  the response has been sent. Services that call `db.commit()` themselves commit
  before the response; the others answer first.
* A flush that fails rolls the whole transaction back and leaves the session unusable
  until `rollback()` is called. `BaseRepository.rollback_transaction` is written to do
  that, but `_in_transaction` is only set by `begin_transaction`, which nothing calls.
* Rows are soft-deleted (`models/mixins.py:38`): `is_deleted` is set, no constraint and
  no foreign key sees it.

## 2. Inventory

| component | state | operations | hard behaviour | what makes it correct |
|---|---|---|---|---|
| media zones (`event_media_service.py`) | rows of `event_media_zones` and `event_media`, objects in S3 | upload, batch upload, add to zone, delete file, delete zone, update zone | S3 and database are changed in separate steps; deletions of one zone race; one transaction for a whole batch | a live row has an object, an object has a live row, a zone lives as long as its files, what is reported is committed |
| event-plug associations (`event_plug_service.py`) | rows of `event_plugs` | add, add many, update, remove | unique constraint that counts soft-deleted rows, check-then-insert, poisoned session and deadlocks in the batch | at most one row per plug, what was reported created exists, a removal is final |
| event plug media (`event_plug_media_service.py`) | rows of `event_plug_media`, objects in S3 | upload many, list, delete | the association may go while the file is uploaded | files of live associations, no orphans |
| request sessions and workers (`dependencies.py`, gunicorn) | open transactions, row locks, the event loop | begin, flush, respond, commit, time out | response before commit, event loop blocked on a row lock | acknowledged means committed; requests end |
| OTP and password reset (`auth_service.py`, `cache_service.py`) | OTP and token keys with expiry, the password | request, verify, change, resend | get, compare and delete are separate calls; failures of Redis | only who got the mail sets a password; a code or token is used again only in a race or after a failure |
| login and rate limiting (`rate_limiter.py`) | attempt counters with a window, lockout keys | check, record, lock | read-modify-write counters, keys that differ | nobody is refused without failures, no failure of a lone login is missed, a refusal ends |
| plugs (`plug_service.py`) | rows of `plugs` | create, update, delete, convert | check-then-write without a constraint, writes from stale reads, pages that shift | emails collide only in races, no request takes another's change back, no plug is missed |
| user details (`user_detail_service.py`) | none of its own | counts, recent plugs, current and upcoming event | several statements over a changing table | every plug counted, status and place agree |
| events, agenda, expenses | rows of `events`, `event_agendas`, `event_expenses` | create, update, delete | the dates of an event move under its agenda | agenda days lie within the event |
| email worker (`workers/`) | Celery queue, retries | enqueue, deliver, retry, acknowledge | late acknowledgement, redelivery | every mail is sent or given up, twice only by accident |
| S3 adapter (`s3_service.py`) | the bucket | upload, delete, URL | errors after the effect | - |
| everything else | none of its own | validation, formatting, schemas, set-up, migrations, logging | - | - |

The components meet in three places: a request's session is shared by every service and
repository it uses; the association row is read by plug media; OTPs go from
`auth_service` through Redis and through the mail queue to the user and back.
`PROJECT.json` lists the components with their status and the hazards with their lines.

## 3. The modules

| module | models | composed with | checked in run |
|---|---|---|---|
| `MediaZones` | media zones, their files in S3, the sessions of their requests | - | `zones`, `zones_fair` |
| `EventPlugs` | plugs of an event: add, batch add, remove | - | `plugs`, `plugs_fair` |
| `PlugMembership` | abstract: what `EventPlugs` promises | implemented by `EventPlugs` | `plugs` |
| `PlugMedia` | files of the plugs of an event | extends `PlugMembership` | `plug_media` |
| `WorkerLoop` | worker processes, event loops, pool, late commits | - | `worker_loop` |
| `MailQueue` | Celery queue and the mail tasks | - | `mail` |
| `PasswordReset` | codes and tokens in Redis, change of the password | extends `MailQueue` | `reset`, `reset_once` |
| `LoginGuard` | rate limit and lock of the login | - | `guard` |
| `Contacts` | plugs of a user, pictures, pages, dashboard counts | - | `contacts` |
| `Schedule` | an event, its agenda and expenses, filters by time | - | `schedule` |
| `Sums` | the sum of a function on `0..n` | used by `MailQueue`, `LoginGuard` | `mail`, `reset`, `guard` |
| `Sums_proofs` | lemmas on these sums, by induction | used by two proofs | - |
| `MediaZones_proofs`, `EventPlugs_proofs`, `PlugMedia_proofs`, `PasswordReset_proofs` (with the queue), `LoginGuard_proofs`, `Contacts_proofs`, `Schedule_proofs` | TLAPS proofs | each extends its module | - |

A module `MC<name>` gives a module its model values, bounds and symmetry. Operators that a
comment calls a mutant are not part of any specification: each is a plausible bug in the
definition next to it, and with it in that definition's place the property named in
`PROJECT.json` (`mutants`) is violated, which shows that the run can see the bug.

| run | instance | deadlock check |
|---|---|---|
| `zones` | 2 requests, 1 zone, 3 files, every fault | on |
| `zones_fair` | 2 requests, 1 zone, 2 files, failing database; liveness | on |
| `plugs` | 3 requests, 2 plugs, every fault; refinement | on |
| `plugs_fair` | 2 requests, 2 plugs, no fault; liveness | on |
| `plug_media` | 3 requests, 2 plugs, 3 files, every fault | off: ids run out |
| `worker_loop` | 2 workers, 4 requests, 2 rows, pools of 1 and 2; liveness | off: all requests are over |
| `reset` | 2 requests, 2 codes, 3 tokens, 1 mail process, every fault of the handlers, no mail accident | on |
| `reset_once` | 2 requests, 1 code, 2 tokens, no fault; a sentence of the documentation is violated | on |
| `mail` | 2 mails, 2 processes, 2 retries, 2 accidents; liveness | on |
| `guard` | 2 logins at a time, 2 windows of 2 ticks, failing Redis; liveness | off: the clock stops |
| `contacts` | 2 requests, 2 plugs, 1 email, 3 pictures of which bodies name one, every fault | off: ids run out |
| `schedule` | 2 requests, 2 items, 1 expense, 2 days, every fault | off: ids run out |

What each run shows is in its entry in `PROJECT.json` and in the section of its module.

The largest run, `contacts`, has 2.8 million states and takes less than three minutes on two
cores. `reset_once` is the only run that ends with a counterexample, which section 13 explains.

**What is left to do.** Every safety property of the runs that hold, invariant, action
property or refinement, is a theorem by now (section 14). Left are an abstract specification above
`MediaZones`, in which all files of a request appear in one atomic step, with its step
simulation; one above `MailQueue` (a mail is asked for, then sent or given up); a safety
property of `WorkerLoop` (a row lock and a connection belong to a request that is under
way), which has only a liveness property; and refinement of the association that
`PlugMedia` reads by the one of `EventPlugs` in a single composed module.

## 4. `MediaZones`

**State.** `zoneRow` and `mediaRow` are the committed rows (none, live, deleted),
`zoneOf` the foreign key, `objects` the bucket. `req[r]` is the local state of a handler
(where it stands, its zone, the file at hand, the files still to do, the files counted as
good) and `tx[r]` what its session has flushed: inserted files, deleted files, zone
inserted, zone deleted, poisoned. `origin`, `doomed`, `ackStored` and `ackDeleted` are
history: the operation a file came with, the objects some deletion asked S3 to remove,
and what responses reported. So are `metDelete`, the zones two of whose deletions were open
at one time, and `metAdd`, those with a deletion open beside an add.

**Actions.** Receiving a request does its first reads: `UploadMediaFile`,
`BatchUploadMediaFiles` (zone flushed first), `AddMediaToZone` (zone checked),
`DeleteMedia`, `DeleteZone` (together `Receive`, after which `Meet` brings `metDelete` and
`metAdd` up to date). Then one step per call that another request can see or
that can fail: `PutObject`/`PutFails`, `InsertMedia`/`InsertFails`, `UndoPut` (cleanup),
`NothingStored`, `CommitUpload`/`CommitUploadFails`, `ListZone`, `DeleteObject`,
`LookupMedia`, `SoftDelete` (waits for the row lock), `CheckRemaining`, `CommitDeletion`,
`CloseSession` (the commit after the response), `CommitDeletionFails`, `DeletionFails`
(an error, or being the victim of a deadlock), `Crash`.
Whatever of the code comes between two such calls is part of the step.

**What is abstracted.** One event, live and owned by the caller. S3 keys are distinct
(they carry a timestamp in microseconds and are not checked), so a file and its object
have one name. Titles, tags, sizes and types are left out, and so is `update_zone`, which
changes nothing else. `create_media` and `update_media` have no route. Row locks on
zones are held only within a commit and block nobody. A commit either happens and is
reported, or neither; a `SELECT` that fails fails the request it belongs to.

**Faults** are a constant, a subset of `"s3"` (a call raises, with or without effect),
`"db"` (a statement or a commit fails) and `"crash"` (a worker dies), so that each
property can be checked under the strongest environment in which it holds.

**Properties under every fault** (run `zones`): `LiveRowHasObject`, `StoredIsCommitted`,
`RowHasZone`, `ZoneLivesWithItsFiles`, and of steps `ZoneBornWithFiles`. `ZoneLivesWithItsFiles`
speaks of every interleaving: a live zone without files, or a live file of a deleted zone, is
the work of two requests that were open together, and of which two it says: two deletions
(each sees the file of the other) or a deletion and an add (the file comes after the list
was read). A request alone, whatever fails, keeps the two together.
**Under less**: with a failing database `OnlyBatchesLeaveOrphans` and `DeletedIsGone`, and
under fairness `RequestsEnd` (`zones_fair`). `IInv` at the end of the module is the invariant the
proofs start from; no run repeats it. All of them but `RequestsEnd` are theorems.

**Bounds.** Two requests, one zone (requests on different zones share no row and no object),
three files, two files per request: enough for the races of two requests on the zone, a zone
that lives on after a deletion, a batch with a good and a bad file, and a deadlock of two
`delete_zone` that lock two files in opposite orders. Ids are not reused (they are UUIDs), so
the state space is finite without a counter. `MaxFiles` bounds the files of a request.

**Fairness.** `WF(Serve(r))`: a handler that has been started runs on; nothing in the
code suspends it for ever. `SF(SoftDelete(r))`: a waiting `UPDATE` is enabled again and
again as locks come and go, and PostgreSQL serves the queue of a row lock in order. No
fairness is assumed for receiving requests, for faults or for crashes. The fair run
has one zone, two files and a failing database.

## 5. `EventPlugs`

**State.** `assoc[p]` is the committed row of a plug in `event_plugs` (none, live,
deleted; the constraint `unique_event_plug` admits one), `req[r]` a handler (the plug at
hand, the plugs still to add, the ones added), `tx[r]` the rows its session has inserted
and soft-deleted, and whether a failed flush has poisoned it. `ackAdded` and `ackRemoved`
record what responses reported.

**Actions.** `AddPlug` and `AddMultiplePlugs` receive a request (in any order of its
plugs); `CheckAssociation` is the lookup of the next plug, `InsertAssociation` and
`InsertFails` the flush of its row, `AnswerAdded` the response. `RemovePlug` looks the row
up and `SoftDelete` updates it and answers. `CloseSession` and `CloseSessionFails` are the
commit after the response. An insert waits for the transaction that has written the same
key, an update for the one that has written the same row; `Deadlocked` are the members of
a cycle of waits, one of which the database aborts. `add_plug_to_event` ends at a failed
insert, the batch goes on with a poisoned session.

**What is abstracted.** One event and its owner; the plugs exist. Notes and priorities,
and so `update_event_plug`. Two lookups in a row (the batch asks, then
`add_plug_to_event` asks again; `remove_plug_from_event` finds, then `delete` gets) are
one: the last one decides. A lookup that fails in the loop of a batch leaves the session
as a failed insert does; `InsertFails` stands for both.

**Properties.** With every fault (run `plugs`): `OneRowPerPlug` and
`ImplementsMembership`, the refinement of `PlugMembership` with `member <- assoc`: a commit
puts the plugs of one request in together, or takes one out that was in, for good, and no
other step is seen by the rest of the system. `PlugMedia` is built on that promise. With a
database that does not fail (`plugs_fair`): `SingleAddIsKept`, and under fairness
`RequestsEnd` and `RemovalArrives`. The batch makes no such promise, see section 13.

**Bounds.** Two plugs and batches of two, so that two batches can insert them in opposite
orders; three requests in run `plugs` (a removal, or a third insert, beside two that wait
for each other), two in the fair run, where symmetry cannot be used. `MaxPlugs` bounds a
batch. Rows are never deleted for good, so the state space is finite.

**Fairness.** `WF(Serve(r))`: a handler that has been started runs on.
`SF(InsertAssociation(r))`: the key an insert waits for is given up when the transaction
holding it rolls back, and the waiter, woken by that, does not lose the race for the key
each time. Without it batches that insert the key and are rolled back, one after the
other, could hold up an insert for ever. Requests, faults and crashes have no fairness.

## 6. `PlugMedia`

**State.** `row[f]` is the committed row of a file in `event_plug_media`, `objects` the
bucket, `member` the associations (from `PlugMembership`). A handler has a plug, the file at
hand, the files still to do, the ones reported good, and the ones whose association was
removed when they were inserted (`late`). `doomed` and `leaked` are history: objects a
deletion asked S3 to remove, objects left behind by a call that failed or a session that
was lost.

**Actions.** `UploadMultiple` receives the files of one plug. For each, `CheckFile`
(association, size and type), `PutObject`, `InsertRow`, and on any error `CleanUp`, whose
own errors are passed over; `StatementFails` poisons the session, and with it the rows of
the files before. `AnswerUpload`, then the commit (`CloseSession`, `SessionFails`).
`DeletePlugMedia`, `RemoveObject` (its error is logged and passed over), `GetAgain`,
`SoftDelete` (waits for the row lock). Between any two steps plugs `Join` and `Leave`.

**Properties** (run `plug_media`, every fault). `OneLateFile`: a request that uploads many
files while its plug leaves the event gets at most one in after that.
`OrphansAreAccounted`: an object without a live row is in the hands of a request or was left
by a call that failed; `RowHasObject`: a live row without its object was asked to be deleted.

**Bounds.** Three requests, two plugs, three files, up to three files of a request, so that
two late files, a failure between two good files and an upload beside two deletions happen.
The deadlock check is off: all files may be used up. Sizes and types are the choice of
`CheckFile` to refuse a file.

## 7. `WorkerLoop`

**State.** `req[r]` says where request `r` is (sent, ready, asking for a connection, in a
statement, answered, committing, over) and which rows it has yet to write; `lock` who
holds a row; `poolSize` the configured pool, overflow included.

**Actions.** A handler is `async def` and its SQLAlchemy calls block: while one request of a
worker is in a call (`Running`), the loop runs nothing else. FastAPI runs the generator of
the session dependency in a thread, but it is the loop that starts that thread once the
answer is out (`StartCommit`). So `Accept`, `Run` and `StartCommit` need a free loop;
`GetConnection` and `Statement` wait while occupying it; `Commit` does not need it.
`PoolTimeout` is SQLAlchemy's, `DeadlockDetected` PostgreSQL's, which sees cycles of
transactions but not those that go through a loop, and `Kill` is gunicorn's, which replaces
a worker whose loop stands still and loses what it had answered and not committed.

**Property** (run `worker_loop`). `RequestsEnd`: every request ends, whatever waits on
what. Without the kill it does not: a handler waits for the row lock of a request that the same
loop has answered and cannot commit. `deployment/aws/ec2-setup.sh:112` starts `uvicorn
--workers 4` without gunicorn; there nobody kills, and the property does not hold (the
mutant of this run is that deployment).

**Bounds.** Two workers with two requests each, each sent once; one request of each worker may
write two rows, in opposite orders, the others one; pools of one and of two connections. That is
enough for a loop that blocks itself, two loops that block each other, a deadlock PostgreSQL
sees and an exhausted pool. The deadlock check is off: when all requests are over,
nothing is left to do.

**Fairness.** `WF` of each request's next step (a loop serves what is runnable, a free lock is
granted, a thread ends its commit) and `WF(Kill(w))`: the arbiter looks at its workers
periodically. Row locks are not given and taken again and again here, as every request runs
once, so weak fairness is enough.

## 8. `MailQueue`

**State.** `queue[m][n]` counts waiting messages of mail `m` with `n` attempts behind them,
`worker` what each Celery process does, `mailed[m]` how often a provider has accepted `m`,
`dropped` what was given up. `accidents` counts lost processes and lost answers.

**Actions.** `Publish`, `Take`, `CallSendGrid`, `CallSmtp` (each accepted, refused, or accepted
with the answer lost), `SoftTimeLimit` (raises inside the call and is caught like any other
exception, so the fallback starts late), `HardTimeLimit` (kills; the task failed and is not
retried), `Retry` (publishes the next attempt), `Acknowledge` (late), `WorkerLost`
(requeues). The queue is a bag: a retry waits for its countdown, so order means nothing.
`MailSpec` is the queue on its own, every mail `Ask`ed for once at any time; `PasswordReset`
publishes its mails instead.
The task is `send_otp_email`, the only one the application publishes
(`auth_service.py:121`, `:343`).

**Properties** (run `mail`). `DuplicatesAreAccounted`: what has been sent of a mail and what is
`Outstanding` (its waiting messages and the attempts still `Trying`) is at most one more than
the accidents, so late acknowledgement, retries and fallback never duplicate it by
themselves. `NoMailIsLost`: until it is sent or given up a message of it waits or is
held. `MailEnds`: it is sent or given up in the end.

**Bounds.** Two mails, two processes, two retries instead of three (the third adds no new
case), two accidents. `MCSpec` in `MCMailQueue` is `MailSpec` with fairness and with `Rest`, a
step that changes nothing and lets the system stop when all is done.

**Fairness.** `WF(WorkerStep(w))`: the worker's loop runs. Limits and losses of processes have
none. A behaviour with endless losses is excluded by the bound on accidents.

## 9. `PasswordReset`

**State.** `otp` and `token` are the two keys of an address in Redis; `req[r]` the handler;
the mail queue is that of `MailQueue`. History: `fate` of a code (issued, stored, refused by
Redis), `exchanged[t]` the code typed for token `t`, `given` the tokens answered, `uses[t]` the
passwords committed with it, `slips` the deletions that failed or were cut off, `verifiers[m]` and
`changers[t]` the most requests that were ever at one time between the comparison with a code
or token and its deletion.

**Actions.** `SendOtp`, and `ResetPassword` for a known address, `StoreCode`,
`PublishCode`; `Verify`, `CheckCode`, `DeleteCode`, `StoreToken`; `Change`, `CheckToken`,
`CommitPassword`, `DeleteToken`; `Expire` of either key, `Crash`, and the steps of the mail
workers. reset_password goes on when Redis refuses the code, send_otp does not; both
deletions ignore their result and delete whatever the key holds by then.

**Properties** (run `reset`, faults of Redis, broker, database, and crashes).
`MailedCodeWasStored`: no mail, however fast, carries a code that was not stored before,
unless Redis refused it to reset_password. `CodeBuysFewTokens` and `TokenSetsFewPasswords`: a
code or token is used no more often than requests were ever between its comparison and its
deletion *at one time*, and once more for each deletion that failed. So it is single-use where
no two requests overlap there and every deletion succeeds, however many requests come one
after the other. The documentation says single-use without a condition
(`CodesAreSingleUse`, `TokensAreSingleUse`), which run `reset_once` refutes, see section 13.
`PasswordNeedsMail`: a password is set only by somebody who typed a code that was mailed.

**Bounds.** One address (two share no key, row or task), two requests, two codes, three
tokens, one mail process without retries and accidents (they are the subject of run `mail`;
here the process only decides when a code becomes known), one slip. Codes and tokens are
fresh: random collisions are left out. A key may expire at any time after it was set, which
covers every length of its time to live.

## 10. `LoginGuard`

**State.** The clock `now`, the counters of the client's address and of the email (attempts,
start of the window, end of the key), `lockUntil`, and the logins in progress, each with
the counter it is about to write. `failures[t]` and `disturbed` are history.

**Actions.** `Arrive` (the check of the decorator; a cache that fails lets the login
through), `LoginUser`, `ReadCounter` and `WriteCounter` (record_attempt in two calls, whatever
the key holds by then), `Tick` between any two.

**Properties** (run `guard`). `RefusedAfterFailures`: who is refused has failed `Limit` times
within the last window, in spite of lost updates, successes in between, windows that end.
`CountsEveryFailure`: the counter misses a failure only if two records overlapped or Redis
failed. `RefusalEnds`: refused requests do not prolong the refusal. `LockAccount` is in
the model and never taken, see section 13.

**Bounds.** `Limit` and `Window` are two, the clock runs over two windows and stops (so the
deadlock check is off), after four failures no other login arrives.
**Fairness.** `WF(Tick)` and `WF(LoginStep(r))`: time passes, handlers run on.

## 11. `Contacts`

**State.** `plug[p]` is a committed row (state, kind, email, picture), `older[p]` the plugs
that were there (committed or in the making) when `p` was created, the order of
`created_at`, which the transaction takes when it begins; `objects` are the pictures in S3, `named` those a body has named.
A handler keeps `loaded`, the row of its first read: SQLAlchemy's identity map does not
refresh loaded attributes, and an `UPDATE` names only columns whose new value differs from
them. `Merge` says what row that leaves. A body goes to the row as it is, with the picture it
names: one in the bucket, one that is gone, one of another plug or of another place
(`PicturesFrom`). `tx` is what a session has flushed. `view` is a
client that follows `has_next` through the list or the search, or opens the dashboard.

**Actions.** `CreatePlug`, `UpdatePlug`, `ConvertTargetToContact`, `DeletePlug`,
`UploadProfilePicture`, `DeleteProfilePicture`; `CheckEmail`, `DeleteOldPicture`, `PutPicture`,
`PutPictureFails`, `GetAgain`, `WriteRow` (waits for the row lock), `Commit`, `CommitNothing`,
`CommitFails`, `Crash`; `Browse`, `ReadPage`, `CountRows` (the list reads the page before it
counts, the search after; a page is the plug with as many `Younger` ones as were skipped,
`PageAt`); `ReadDashboard`, `CountPlugs`, `RecentPlugs`.

**Properties** (run `contacts`). `EmailsCollideOnlyInRaces`: two plugs get one email only if
the other row came after the lookup, or by a conversion, which does not look, or when the
plug held the email itself as the request looked (`itself`) and lost it since. That last
case needs three requests and two emails, more than the run has, and was met in the proof:
the lookup (`services/plug_service.py:411-424`) asks for one row and passes if that row is
the plug itself, whoever else holds the email by then; when a third request gives the plug
another email, the write that follows puts the first one back, beside its other holder.
`StaleReadsTakeNothingBack`: several requests that work from the same stale read change only
the columns they are for. `MissingPictureIsAccounted`: a plug whose picture is gone has a
request under way that will replace it, or one that failed, unless a body has named that
picture: then it may be one that was replaced before, or that two plugs share until one
deletes it. `ListMissesNothing`: the list
misses a plug only if one was deleted meanwhile, the search also if one was created.
`DashboardCountsEveryPlug`: counting leads before contacts counts a plug that is converted
meanwhile twice rather than never.

**Bounds.** Two requests, two plugs, one email, three pictures, of which bodies name at most
one (`MaxNamed`), pages of one row; `Mixes` says which operations meet in one behaviour
(emails, pictures and the bodies that name them, pages, dashboard), as all of them together
multiply without meeting. `Named`, `PicturesFrom` and `Kinds` give a body only what the mix can
tell apart: emails where emails are changed, pictures where pictures are uploaded. Deadlock check off: all ids may be used up.

**What is abstracted.** One user. Columns without a rule, filters and the statistics. Which
plug is the most recent on the dashboard is left open. Bodies that name columns no schema of
a body lists (`plug_type`, `is_contact`, `is_deleted`, `user_id`, which the route writes all the
same), or clear the email, are left out.

## 12. `Schedule`

**State.** The event's row with its two dates, the rows of agenda items (their day) and
expenses (their amount), handlers with their first reads (`loaded`, `was`), sessions as in
`Contacts`, `view` the overview of agenda days. `checked` are items whose day was held against
the dates as they now are. Times are three instants of each day: midnight, noon, and the last
microsecond, at which the filters cut the day.

**Actions.** Create, update and delete of the event, of agenda items and of expenses;
`ValidateAgenda`, `FindEntry`, `GetAgain`, `Write`, `Commit` (`CommitEvent` or `CommitEntry`),
`CommitNothing`, `CommitFails`, `Crash`; `AgendaDays` and `CountDay`, one statement per day.
`TotalDays`, `CurrentDay`, `IsHappeningNow`, `Today`, `Upcoming`, `Past`, `CurrentEvent`,
`UpcomingEvent` and `Status` are pure.

**Properties** (run `schedule`). `CheckedDaysAreInRange`: an item's day lies within the
event as long as neither was changed since it was checked (it is never checked again).
`OverviewCountsOnce`: an item left alone is counted once. `UpdatesKeepDatesOrdered`: an
update of both dates leaves them in order unless they changed under it (then each of two
updates may write the date that differs). `DeletedForGood`: no update in flight revives a
row. `FiltersMissNoEvent`: at every instant an event with both dates is under one of the
three filters, and the dashboard's choice agrees with the status it shows.

**Bounds.** Two requests, two items, one expense, a calendar of two days, six pairs of
dates (in order, on one instant, with one missing, reversed), days and amounts up to two,
`Mixes` as in `Contacts`. The deadlock check is off: ids may be used up.

**What is abstracted.** One user and one event. The cover: `parse_event_form_data` uploads it
before ownership is verified and the form validated, an error is passed over, nothing deletes
it, and its URL is one more column of the row. Then order_by, sums and statistics. An event without both dates is under no filter but the open-ended ones.

## 13. Where the code and its documents disagree

Met while modelling; the properties above are the strongest forms that hold.

* `AUTH_FLOW_IMPLEMENTATION.md:101-102` says that OTP codes and verification tokens are
  single-use. `auth_service.py` compares what it read (`:167`) and deletes the key later, whatever
  it holds by then, and the result of the deletion is ignored (`:405` for the token). Two
  requests that are between the two at one time both succeed, with no fault at all: run
  `reset_once` finds a behaviour in which one code buys two tokens and one token sets two
  passwords. A deletion that fails leaves a code or token as it was until it expires.
  `CodeBuysFewTokens` and `TokenSetsFewPasswords` are what holds.
* `AGENDA_API_IMPLEMENTATION.md:246` and `:257`, `AGENDA_WORKFLOW_GUIDE.md:73` and `:195` and
  `EVENTS_MODULE_IMPLEMENTATION_GUIDE.md:374` say that the day of an agenda item is validated
  against the event's duration. `create_agenda_item` does; `update_agenda_item`
  (`event_agenda_service.py:95-128`) writes any day the schema admits, and an update of the event's dates
  looks at no item. `CheckedDaysAreInRange` speaks of items not changed since their check.
* `api/v1/events.py:1034` and `:1066` say that a zone goes with its last file and its files with
  it. Two deletions of the last two files each still see the other's row and leave an empty
  zone; a file added while its zone is deleted stays in a deleted zone. These are the two
  exceptions of `ZoneLivesWithItsFiles`.
* `schemas/plug.py:20`, `:41` and `:85` call `profile_picture` a URL. The route of `update_plug`
  takes a dictionary without a schema (`api/v1/plugs.py:58`) and `models/base.py:107-119` writes it, so a row may
  name an object that was deleted, or that another plug's next upload deletes
  (`MissingPictureIsAccounted`).
* `S3_INTEGRATION_GUIDE.md:245` says that S3 files are cleaned up if database operations fail.
  A batch or an add whose commit fails leaves all its objects (`OnlyBatchesLeaveOrphans`).
* `MEDIA_BATCH_UPLOAD_GUIDE.md:327-328` says that each file is independent. A flush that fails
  for one file rolls back the ones before it and poisons the session for the ones after.
* `ZONE_DELETION_IMPLEMENTATION.md:349` and `:417` speak of atomic operations and rollback. The
  objects go first: a rollback brings back rows without objects (`LiveRowHasObject` says that
  these are the only such rows).
* `core/dependencies.py:22` says that transactions are committed on success. The commit comes after
  the response and may fail: a deletion or removal that was answered may be lost.
* `schemas/event.py:418` and `api/v1/events.py:1218` promise the successfully created
  associations. One plug that fails at the constraint rolls back the ones already listed as
  created (`SingleAddIsKept` holds for `add_plug_to_event` only).
* `auth_service.py:275` locks an account after ten failures. It reads the counter of the email;
  the decorator counts by client address, because FastAPI passes parameters by name, and refuses
  after five. `LockAccount` is never reached; `Locked` stays false.

## 14. Proofs

Every invariant, action property and refinement that holds in a run is also a theorem, for
every value of the constants that satisfies the named assumptions of its module. Runs and
proofs share every definition; each invariant below was checked by TLC before it was proved.
Three theorems have a hypothesis on the faults, named below. Hardly a property is inductive as it stands. What has to be added is always of the same kind: what
a handler still believes of the tables, and which other handlers cannot be at work on the
same thing.

Assumptions on constants are that sentinels are no ids, bounds are naturals, faults are
known kinds. Two modules count handlers, and there the handlers are finitely many, as
processes of one machine are: `WorkersAssumption` of `MailQueue`, `RequestsAssumption` of
`PasswordReset`. Plugs need not be: that finitely many have a row is part of the invariant
of `Contacts`.

**`MediaZones_proofs`.** With every set of faults: `Spec => []IInv`, and from it `TypeOK`,
`LiveRowHasObject`, `StoredIsCommitted` and `RowHasZone`. To know that a
commit makes no row without object one has to know that the files an open transaction
inserted are stored, are no other request's, have no row yet and belong to the
transaction's zone, and that this zone is inserted by the same transaction or committed.
That is what `UploadInv`, `DeletionInv`, `TablesInv` and `Disjoint` say. There is a lemma for each
shape of step (a step of one handler that leaves the tables alone, a commit, the end of a
session) and one step per action that shows which shape it has. On `IInv` rest
* `ZoneBornWithFiles`, by `ZoneInv`: a zone in the making is known to no other request, and an
  add never makes one;
* `DeletedIsGone`, if S3 does not fail, by `DoomInv`: what a deletion has asked for has no object,
  has a row, and so is nothing an upload will store. A failing call is what breaks it;
* `OnlyBatchesLeaveOrphans`, if S3 does not fail and no worker dies, by `OrphanInv`: the files a
  request holds have its operation as origin, an upload holds one, and an object of an upload
  without a row is in the hands of one;
* `ZoneLivesWithItsFiles`, with every set of faults, by `MatchInv`: what a deletion has seen of
  its zone stays true (`SeenInv`: the files left when it lists or looks for them, none when it
  is about to commit the zone's end) until a second deletion of the zone or an add to it is
  received, and `MetInv` says that `metDelete` or `metAdd` has recorded it by then.

The two hypotheses are the environment of `zones_fair`; the faults they leave out are those
with which the property fails.

**`EventPlugs_proofs`.** The inductive invariant `IInv` (types, `OneRowPerPlug`, and that a
handler about to write has a plug at hand), from it `TypeOK` and `OneRowPerPlug`, and
`Refinement`, that `EventPlugs` implements `PlugMembership`.
`OneRowPerPlug` carries them: its first half makes a commit harmless to the other
transactions, its second half makes the commit of an insert harmless to a deleted row. Every
step either keeps or drops the writes of its session (`QuietStep`), adds one write to a row
nobody else has written (`WriteStep`), or commits (`CommitStep`). The refinement needs more:
that a row a session is about to take out is still in, or was taken out by a transaction
that has committed. `RemovalInv` says that a session writes additions or one removal, never
both, and that the rows a removal has written have been committed before; `CommitMaps` then
maps a commit to one `Join` or `Leave` (or, if another removal came first, to a stutter),
and `StepMaps` every other step to a stutter. `SingleAddIsKept`, if nothing fails, by
`AddedInv`: the session of a single add is never poisoned and holds what it answered until
its commit. A deadlock may abort any waiting session, but an answered one waits for nothing.

**`PlugMedia_proofs`** (every set of faults). `OneLateFile`, `OrphansAreAccounted` and
`RowHasObject` come from one invariant. `LateInv`: after a late file its plug is out, and
out for good, so that no check lets another one pass. `UploadInv`: what an upload holds has
no row, and its objects are there from the put on. `DeletionInv`: a deletion marks the row
after it dealt with the object. `Disjoint`: no file is in two hands.

**`PasswordReset_proofs`.** First the queue alone: `MailSpec => []MailInv`, hence
`NoMailIsLost` and `DuplicatesAreAccounted`. The invariant says a little more than the first
(`Accounted`: a message whose task has ended is not needed to account for its mail) and that
nothing happens to mails nobody asked for. `MailStep` is the balance of every step: what it
mails and queues is paid by what it takes, by the attempt it ends, or by an accident. Then
the reset, on top of the same invariant: `CodesInv` (who holds a code), `TokensInv`, and for
each code and token a balance (`CodeCounts`, `TokenCounts`). Their bound needs the half that
is not in the property: *while the code is still there*, all that was bought with it, and
all who are past its deletion, is covered by failed deletions; so the deletion that removes it
leaves at most those who were there with it, and `CrowdInv` says that `verifiers` and
`changers` have counted them. `QueueKeepsItsPromise` says that the queue's
theorems hold behind the reset, too.

**`LoginGuard_proofs`.** `SoundInv`: every counter, written or about to be, is at most the
number of failures since its window began; this gives `RefusedAfterFailures` however records
overlap. As long as nothing has disturbed the records, there is one writer and the counter
lacks only its failure (`WriterInv`, `CounterInv`); this gives `CountsEveryFailure`.

**`Contacts_proofs`.** `HandlerInv` (what a handler's lookup said and what happened
`since`), `TxInv` (what a session has flushed is `Merge` of its handler and the row *as it
still is*, the row lock), `AloneInv`, `FileInv` (where a handler has its picture from),
`PictureInv` (a picture no body has named is one plug's), `RowsInv` and the client's `ViewInv`. With them `MissingPictureIsAccounted`, `ListMissesNothing` (by the
number of younger plugs: a plug that was not shown has at least as many younger ones as
pages are behind, and the number shrinks only by a deletion), `DashboardCountsEveryPlug`,
`StaleReadsTakeNothingBack` and `EmailsCollideOnlyInRaces`. The proof of the last one failed
at `CheckEmail` on an earlier form of the model, in which the lookup left out the plug
itself: the query does not, and takes one row. Model and property now say so (section 11).

**`Schedule_proofs`.** `HandlerInv` (dates that have not moved since a handler read them are
still the event's), `TxInv`, `AloneInv`, `CheckedInv` and `ViewInv` (an item left alone is
counted once the overview is past its day), hence `CheckedDaysAreInRange`,
`OverviewCountsOnce`, `DeletedForGood`, `UpdatesKeepDatesOrdered`; `FiltersMissNoEvent` is
arithmetic on days and instants.

**`Sums_proofs`.** `SumTo` is a recursive function. That it has the value its definition
says, for every bound, is an induction, and the library's theorems of induction take an
operator, which the provers cannot instantiate; `SetInduction` states it of a *set* of
numbers instead, from the least-number principle. From it: sums are naturals, change by what
one summand changes, are monotone, and are zero if all summands are.

**Only model-checked**: liveness (`RequestsEnd` of three modules, `RemovalArrives`, `MailEnds`,
`RefusalEnds`), which is out of the prover's reach, as is `ENABLED`; hence all of
`WorkerLoop`.

## 15. Not modelled

`PROJECT.json` lists every component with its status and reason. Left out are: operations that
write only texts (`update_zone`, `update_event_plug`, the columns without a rule of plugs,
events and users); the cover of an event; statistics and sums, which are single reads; token
signing, which keeps no state on the server (`refresh_token` and `logout` change nothing); the
cleanup worker, whose tasks fail or end before they change anything; code nobody calls
(bulk operations of the base repository, most validators and helpers, the generic mail tasks,
the session manager of Redis); set-up, logging, migrations. PostgreSQL, S3, Redis, the broker
and the mail providers are modelled as far as their answers and failures matter here.
