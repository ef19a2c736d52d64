------------------------------ MODULE Schedule ------------------------------
(***************************************************************************)
(* One event, its agenda and its expenses: EventCoreService,               *)
(* EventAgendaService and EventExpenseService, the overview of agenda days *)
(* and the filters by which the list of events and the dashboard tell      *)
(* current from upcoming and past events.                                  *)
(*                                                                         *)
(* Sessions are as in Contacts: the attributes of the first read stay, a   *)
(* later get only asks whether the row is live, the UPDATE names the       *)
(* columns that differ from the first read, and the commit follows the     *)
(* response.  Deleting the event leaves its agenda and expenses alone.     *)
(*                                                                         *)
(* Times are UTC.  Titles, places, covers, currencies and the other        *)
(* columns without a rule are left out, and so are events of other users.  *)
(***************************************************************************)
EXTENDS Integers, FiniteSets

CONSTANTS
    Requests,   \* sessions: the requests that may be open at one time
    Agenda,     \* ids of agenda items
    Expenses,   \* ids of expenses
    NoEntry,    \* no entry at hand: the request is about the event
    Days,       \* bound: the days of the calendar
    Forms,      \* bound: the pairs <<start_date, end_date>> a form may hold
    MaxValue,   \* bound: days of agenda items, amounts of expenses
    Faults,     \* what the environment may do: a subset of FaultKinds
    Mixes       \* bound: the sets of operations that meet in one behaviour

\* "db": a commit fails; "crash": the worker process dies.
FaultKinds == {"db", "crash"}

Entries == Agenda \cup Expenses

\* Three instants of each day: midnight, noon and the last microsecond.
Instants == 0..(3 * Days - 1)
NoDate == -1
Dates == Instants \cup {NoDate}
Day(t) == t \div 3
DayStart(t) == 3 * Day(t)
DayEnd(t) == DayStart(t) + 2

\* What parse_event_form_data makes of the two dates of a form: NoDate if it
\* is absent or blank, which leaves the column alone.  A date that cannot be
\* parsed is a 400 before anything is read.
FormData == Dates \X Dates

ASSUME IdsAssumption == Agenda \cap Expenses = {} /\ NoEntry \notin Entries
ASSUME BoundsAssumption == Days \in Nat \ {0} /\ MaxValue \in Nat
ASSUME FormsAssumption == Forms \subseteq FormData
ASSUME FaultsAssumption == Faults \subseteq FaultKinds

VARIABLES
    event,      \* the committed row of the event
    entry,      \* the committed rows of its agenda and its expenses
    req,        \* the local state of each request's handler
    tx,         \* the row each session has flushed and not committed
    checked,    \* agenda items whose day was held against the dates as they are
    view,       \* the request for the overview of agenda days
    mix         \* the operations of this behaviour

vars == <<event, entry, req, tx, checked, view, mix>>

State == {"none", "live", "deleted"}
EventRow == [state: State, start: Dates, end: Dates]
NoEvent == [state |-> "none", start |-> NoDate, end |-> NoDate]

\* value: the day of an agenda item, the amount of an expense.
EntryRow == [state: State, value: 0..MaxValue]
NoRow == [state |-> "none", value |-> 0]

PCs == {"idle", "verify", "find", "get", "write", "closing"}
Ops == {"none", "create_event", "update_event", "delete_event", "create_agenda",
        "create_expense", "update_entry", "delete_entry"}

\* loaded and was: the event and the entry as first read.  stale: the dates of
\* the event have changed since.
Handler == [pc: PCs, op: Ops, id: Entries \cup {NoEntry}, form: FormData,
            value: 0..MaxValue, loaded: EventRow, was: EntryRow, stale: BOOLEAN]
Idle == [pc |-> "idle", op |-> "none", id |-> NoEntry, form |-> <<NoDate, NoDate>>,
         value |-> 0, loaded |-> NoEvent, was |-> NoRow, stale |-> FALSE]

\* written: the session has a row to commit, the event's if id is NoEntry.
Transaction == [written: BOOLEAN, id: Entries \cup {NoEntry},
                event: EventRow, entry: EntryRow]
NoTx == [written |-> FALSE, id |-> NoEntry, event |-> NoEvent, entry |-> NoRow]

\* touched: items that were committed while the overview was at work, or later.
View == [pc: {"off", "count", "done"}, day: 0..(Days + 1), total: Int,
         counted: [Agenda -> 0..Days], touched: SUBSET Agenda]
NoView == [pc |-> "off", day |-> 0, total |-> 0,
           counted |-> [i \in Agenda |-> 0], touched |-> {}]

TypeOK ==
    /\ event \in EventRow
    /\ entry \in [Entries -> EntryRow]
    /\ \A i \in Agenda : entry[i].state # "none" => entry[i].value > 0
    /\ req \in [Requests -> Handler]
    /\ tx \in [Requests -> Transaction]
    /\ checked \subseteq Agenda
    /\ view \in View
    /\ mix \in Mixes

Init ==
    /\ event = NoEvent
    /\ entry = [i \in Entries |-> NoRow]
    /\ req = [r \in Requests |-> Idle]
    /\ tx = [r \in Requests |-> NoTx]
    /\ checked = {}
    /\ view = NoView
    /\ mix \in Mixes

Open == {r \in Requests : req[r].pc # "idle"}
Live(id) == IF id = NoEntry THEN event.state = "live" ELSE entry[id].state = "live"

Goto(r, pc) ==
    /\ req' = [req EXCEPT ![r].pc = pc]
    /\ UNCHANGED <<event, entry, tx, checked, view, mix>>

\* The session is closed without a commit.
Abandon(r) ==
    /\ req' = [req EXCEPT ![r] = Idle]
    /\ tx' = [tx EXCEPT ![r] = NoTx]
    /\ UNCHANGED <<event, entry, checked, view, mix>>

-----------------------------------------------------------------------------
(* What is computed from the dates of an event. *)

Dated(e) == e.start # NoDate /\ e.end # NoDate

TotalDays(e) == IF Dated(e) THEN Day(e.end) - Day(e.start) + 1 ELSE 0

CurrentDay(e, now) ==
    CASE ~Dated(e) \/ now < e.start -> 0
      [] Dated(e) /\ now >= e.start /\ now > e.end -> TotalDays(e)
      [] OTHER -> Day(now) - Day(e.start) + 1

IsHappeningNow(e, now) == Dated(e) /\ e.start <= now /\ now <= e.end

\* Mutant: events that begin in the last microsecond of the day are upcoming.
TodayStrict(e, now) ==
    Dated(e) /\ e.start < DayEnd(now) /\ e.end > DayStart(now)

\* The time filters of list_events; a date that is missing matches nothing.
Today(e, now) == Dated(e) /\ e.start <= DayEnd(now) /\ e.end >= DayStart(now)

Upcoming(e, now) == e.start # NoDate /\ e.start >= DayEnd(now)

Past(e, now) == e.end # NoDate /\ e.end <= DayStart(now)

\* The dashboard picks an event to show and computes its status for itself.
CurrentEvent(e, now) == Dated(e) /\ e.start <= now /\ e.end >= now

UpcomingEvent(e, now) == e.start # NoDate /\ e.start > now

Status(e, now) ==
    CASE ~Dated(e) \/ now < e.start -> "upcoming"
      [] Dated(e) /\ e.start <= now /\ now <= e.end -> "happening_now"
      [] OTHER -> "past"

\* Mutant: an end equal to the start is let through.
EndNotBeforeStart(f) == f[1] = NoDate \/ f[2] = NoDate \/ f[2] >= f[1]

\* EventUpdate: the two dates of one form, if it names both.
EndAfterStart(f) == f[1] = NoDate \/ f[2] = NoDate \/ f[2] > f[1]

-----------------------------------------------------------------------------
(* Receiving a request does its first read, of the event. *)

Receive(r, h) ==
    /\ r \notin Open
    /\ h.op \in mix
    /\ req' = [req EXCEPT ![r] = h]
    /\ UNCHANGED <<event, entry, tx, checked, view, mix>>

\* The route goes to the repository: the dates are taken as they come.
CreateEvent(r) ==
    /\ event.state = "none" /\ \A q \in Open : req[q].op # "create_event"
    /\ \E f \in Forms :
        Receive(r, [Idle EXCEPT !.pc = "write", !.op = "create_event", !.form = f])

\* _verify_event_ownership.
Owned(op, pc) == [Idle EXCEPT !.pc = pc, !.op = op, !.loaded = event]

UpdateEvent(r) ==
    /\ event.state = "live"
    /\ \E f \in Forms :
        EndAfterStart(f) /\ Receive(r, [Owned("update_event", "get") EXCEPT !.form = f])

DeleteEvent(r) == event.state = "live" /\ Receive(r, Owned("delete_event", "get"))

Unused(ids) == {i \in ids : entry[i].state = "none" /\ \A r \in Open : req[r].id # i}

\* What the schemas let through: days count from one, amounts from zero.
ItemDays == 1..MaxValue
Amounts == 0..MaxValue

CreateAgendaItem(r) ==
    /\ event.state = "live"
    /\ \E i \in Unused(Agenda), d \in ItemDays :
        Receive(r, [Owned("create_agenda", "verify") EXCEPT !.id = i, !.value = d])

CreateExpense(r) ==
    /\ event.state = "live"
    /\ \E i \in Unused(Expenses), amount \in Amounts :
        Receive(r, [Owned("create_expense", "write") EXCEPT !.id = i, !.value = amount])

\* A request about an entry of the event.
OnEntry(r, op, id, value) ==
    /\ event.state = "live" /\ Live(id)
    /\ Receive(r, [Owned(op, "find") EXCEPT !.id = id, !.value = value])

\* An update of the day is not held against the dates of the event.
UpdateAgendaItem(r) ==
    \E i \in Agenda, d \in ItemDays : OnEntry(r, "update_entry", i, d)

UpdateExpense(r) ==
    \E i \in Expenses, amount \in Amounts : OnEntry(r, "update_entry", i, amount)

DeleteAgendaItem(r) == \E i \in Agenda : OnEntry(r, "delete_entry", i, 0)

DeleteExpense(r) == \E i \in Expenses : OnEntry(r, "delete_entry", i, 0)

-----------------------------------------------------------------------------

\* Mutant: a day after the last one is let through.
ValidateOneMore(r) ==
    /\ req[r].pc = "verify"
    /\ IF Live(NoEntry) /\ req[r].value <= TotalDays(req[r].loaded) + 1
       THEN Goto(r, "write") ELSE Abandon(r)

InEvent(day, e) == day <= TotalDays(e)

\* The service reads the event again, whose dates stay those of the first
\* read, and holds the day against them.
ValidateAgenda(r) ==
    /\ req[r].pc = "verify"
    /\ IF Live(NoEntry) /\ InEvent(req[r].value, req[r].loaded)
       THEN Goto(r, "write") ELSE Abandon(r)

\* The entry of an update or a removal is read: 404 if it is gone.
FindEntry(r) ==
    /\ req[r].pc = "find"
    /\ IF Live(req[r].id)
       THEN /\ req' = [req EXCEPT ![r].pc = "get", ![r].was = entry[req[r].id]]
            /\ UNCHANGED <<event, entry, tx, checked, view, mix>>
       ELSE Abandon(r)

\* BaseRepository.update and delete get the row once more.
GetAgain(r) ==
    /\ req[r].pc = "get"
    /\ IF Live(req[r].id) THEN Goto(r, "write") ELSE Abandon(r)

\* A column is written if the form names it and it differs from the first read.
Column(new, none, loaded, current) ==
    IF new \in {none, loaded} THEN current ELSE new

EventAfter(h, row) ==
    CASE h.op = "create_event" ->
            [state |-> "live", start |-> h.form[1], end |-> h.form[2]]
      [] h.op = "delete_event" -> [row EXCEPT !.state = "deleted"]
      [] OTHER -> [row EXCEPT
            !.start = Column(h.form[1], NoDate, h.loaded.start, @),
            !.end = Column(h.form[2], NoDate, h.loaded.end, @)]

EntryAfter(h, row) ==
    CASE h.op \in {"create_agenda", "create_expense"} ->
            [state |-> "live", value |-> h.value]
      [] h.op = "delete_entry" -> [row EXCEPT !.state = "deleted"]
      [] OTHER -> [row EXCEPT !.value = Column(h.value, h.was.value, h.was.value, @)]

\* No statement is sent when no attribute has changed.
Changes(h) == IF h.id = NoEntry THEN EventAfter(h, h.loaded) # h.loaded
                                ELSE EntryAfter(h, h.was) # h.was

\* Mutant: the UPDATE names every column.
WriteWholeRow(r) ==
    LET h == req[r] IN
    /\ h.pc = "write"
    /\ \A q \in Requests : q # r /\ tx[q].written => tx[q].id # h.id
    /\ tx' = [tx EXCEPT ![r] = [written |-> TRUE, id |-> h.id,
                event |-> EventAfter(h, h.loaded), entry |-> EntryAfter(h, h.was)]]
    /\ req' = [req EXCEPT ![r].pc = "closing"]
    /\ UNCHANGED <<event, entry, checked, view, mix>>

\* The flush: an INSERT, an UPDATE that waits for the row lock, or nothing.
Write(r) ==
    LET h == req[r] IN
    /\ h.pc = "write"
    /\ IF Changes(h)
       THEN /\ \A q \in Requests : q # r /\ tx[q].written => tx[q].id # h.id
            /\ tx' = [tx EXCEPT ![r] = [written |-> TRUE, id |-> h.id,
                    event |-> IF h.id = NoEntry THEN EventAfter(h, event) ELSE NoEvent,
                    entry |-> IF h.id = NoEntry THEN NoRow
                                                ELSE EntryAfter(h, entry[h.id])]]
       ELSE UNCHANGED tx
    /\ req' = [req EXCEPT ![r].pc = "closing"]
    /\ UNCHANGED <<event, entry, checked, view, mix>>

CommitEvent(r) ==
    /\ tx[r].id = NoEntry
    /\ event' = tx[r].event
    /\ LET moved == <<event'.start, event'.end>> # <<event.start, event.end>> IN
        /\ checked' = IF moved THEN {} ELSE checked
        /\ req' = [q \in Requests |-> IF q = r THEN Idle
                ELSE IF moved /\ q \in Open THEN [req[q] EXCEPT !.stale = TRUE]
                ELSE req[q]]
    /\ UNCHANGED <<entry, view>>

CommitEntry(r) ==
    /\ tx[r].id # NoEntry
    /\ entry' = [entry EXCEPT ![tx[r].id] = tx[r].entry]
    /\ checked' = IF req[r].op = "create_agenda" /\ ~req[r].stale
                  THEN checked \cup {tx[r].id}
                  ELSE IF req[r].op = "update_entry" THEN checked \ {tx[r].id}
                  ELSE checked
    /\ view' = IF view.pc = "off" THEN view
               ELSE [view EXCEPT !.touched = @ \cup ({tx[r].id} \cap Agenda)]
    /\ req' = [req EXCEPT ![r] = Idle]
    /\ UNCHANGED event

\* get_database_session, after the response.
Commit(r) ==
    /\ req[r].pc = "closing"
    /\ tx[r].written
    /\ CommitEvent(r) \/ CommitEntry(r)
    /\ tx' = [tx EXCEPT ![r] = NoTx]
    /\ UNCHANGED mix

CommitNothing(r) == req[r].pc = "closing" /\ ~tx[r].written /\ Abandon(r)

CommitFails(r) == "db" \in Faults /\ req[r].pc = "closing" /\ Abandon(r)

Crash(r) == "crash" \in Faults /\ r \in Open /\ Abandon(r)

-----------------------------------------------------------------------------
(* get_event_agenda_days: the event, then one count for each day. *)

AgendaDays ==
    /\ "overview" \in mix
    /\ event.state = "live" /\ view.pc # "count"
    /\ view' = [NoView EXCEPT !.pc = "count", !.day = 1, !.total = TotalDays(event)]
    /\ UNCHANGED <<event, entry, req, tx, checked, mix>>

\* Mutant: the last day is left out.
CountDayShort ==
    /\ view.pc = "count"
    /\ view' =
        IF view.day >= view.total THEN [view EXCEPT !.pc = "done"]
        ELSE [view EXCEPT !.day = @ + 1, !.counted = [i \in Agenda |->
                @[i] + IF Live(i) /\ entry[i].value = view.day THEN 1 ELSE 0]]
    /\ UNCHANGED <<event, entry, req, tx, checked, mix>>

CountDay ==
    /\ view.pc = "count"
    /\ view' =
        IF view.day > view.total THEN [view EXCEPT !.pc = "done"]
        ELSE [view EXCEPT !.day = @ + 1, !.counted = [i \in Agenda |->
                @[i] + IF Live(i) /\ entry[i].value = view.day THEN 1 ELSE 0]]
    /\ UNCHANGED <<event, entry, req, tx, checked, mix>>

-----------------------------------------------------------------------------

Arrive(r) ==
    \/ CreateEvent(r) \/ UpdateEvent(r) \/ DeleteEvent(r)
    \/ CreateAgendaItem(r) \/ UpdateAgendaItem(r) \/ DeleteAgendaItem(r)
    \/ CreateExpense(r) \/ UpdateExpense(r) \/ DeleteExpense(r)

Serve(r) ==
    \/ ValidateAgenda(r) \/ FindEntry(r) \/ GetAgain(r) \/ Write(r)
    \/ Commit(r) \/ CommitNothing(r) \/ CommitFails(r)

Next ==
    \/ \E r \in Requests : Arrive(r) \/ Serve(r) \/ Crash(r)
    \/ AgendaDays \/ CountDay

Spec == Init /\ [][Next]_vars

-----------------------------------------------------------------------------

\* An update that names both dates leaves them in order if they have not
\* changed since its session read them.  (If they have, it may not: a date
\* that equals the one first read is not written.)
UpdatesKeepDatesOrdered ==
    [][\A r \in Requests :
        /\ req[r].op = "update_event" /\ NoDate \notin {req[r].form[1], req[r].form[2]}
        /\ tx[r].written /\ event' # event /\ event' = tx[r].event
        /\ ~req[r].stale
        => event'.start < event'.end]_event

\* The day of an agenda item is checked when the item is made, against dates
\* that other requests change: it lies within the event as long as neither the
\* item nor the dates have changed since the making request read the event.
\* (Invariant together with the types of the variables.)
CheckedDaysAreInRange ==
    /\ TypeOK
    /\ \A i \in checked : Live(i) => entry[i].value <= TotalDays(event)

\* The overview counts day by day while items come, go and move: an item that
\* was left alone is counted once if its day is one of the event's, else never.
OverviewCountsOnce ==
    view.pc = "done" => \A i \in Agenda \ view.touched :
        view.counted[i] = IF Live(i) /\ entry[i].value <= view.total THEN 1 ELSE 0

\* An update that was in flight when its event, item or expense was deleted
\* does not bring it back.
DeletedForGood ==
    [][/\ event.state = "deleted" => event'.state = "deleted"
       /\ \A i \in Entries :
            entry[i].state = "deleted" => entry'[i].state = "deleted"]_<<event, entry>>

\* At every time of day an event with both dates is under one of the filters,
\* whatever the order of its dates; one that is happening is under today's and
\* on one of its days; and the dashboard gives it the status of the place at
\* which it shows it, past if it shows it nowhere.
FiltersMissNoEvent ==
    \A now \in Instants : Live(NoEntry) /\ Dated(event) =>
        /\ Today(event, now) \/ Upcoming(event, now) \/ Past(event, now)
        /\ IsHappeningNow(event, now) =>
            Today(event, now) /\ CurrentDay(event, now) \in 1..TotalDays(event)
        /\ CurrentEvent(event, now) <=> Status(event, now) = "happening_now"
        /\ UpcomingEvent(event, now) <=> Status(event, now) = "upcoming"
        /\ Status(event, now) = "past" => Today(event, now) \/ Past(event, now)

=============================================================================
