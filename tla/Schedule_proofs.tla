--------------------------- MODULE Schedule_proofs ---------------------------
(***************************************************************************)
(* What updates, deletions and counts of an event and its entries may      *)
(* never do to each other, for every number of sessions, entries and days, *)
(* every choice of forms and mixes and every set of faults.                *)
(***************************************************************************)
EXTENDS Schedule, TLAPS

-----------------------------------------------------------------------------
(* The invariant. *)

EventOps == {"create_event", "update_event", "delete_event"}
CreateOps == {"create_agenda", "create_expense"}
EntryOps == CreateOps \cup {"update_entry", "delete_entry"}

SameDates(e, f) == e.start = f.start /\ e.end = f.end

\* What a handler is about, and what it knows of the committed rows: an entry in
\* the making is not there yet, every other row was there, and dates that have
\* not moved are still the event's.
HandlerInv(h) ==
    /\ h.pc = "idle" <=> h.op = "none"
    /\ h.op = "none" => h.id = NoEntry
    /\ h.pc = "find" => h.op \in {"update_entry", "delete_entry"}
    /\ h.op \in EventOps => h.id = NoEntry
    /\ h.op \in EntryOps => h.id \in Entries
    /\ h.op = "create_event" => event.state = "none"
    /\ h.op \notin {"none", "create_event"} =>
        event.state # "none" /\ (~h.stale => SameDates(h.loaded, event))
    /\ h.op = "update_event" => EndAfterStart(h.form)
    /\ h.op \in CreateOps => entry[h.id].state = "none"
    /\ h.op \in {"update_entry", "delete_entry"} => entry[h.id].state # "none"
    /\ h.op \in CreateOps \cup {"update_entry"} /\ h.id \in Agenda => h.value > 0
    /\ h.op = "create_agenda" =>
        /\ h.id \in Agenda
        /\ \/ h.pc = "verify"
           \/ h.pc \in {"write", "closing"} /\ h.value <= TotalDays(h.loaded)

\* The row lock: what a session has flushed is computed from the committed row
\* as it still is.
TxInv(r) ==
    tx[r].written =>
        /\ req[r].pc = "closing" /\ tx[r].id = req[r].id
        /\ req[r].id = NoEntry => tx[r].event = EventAfter(req[r], event)
        /\ req[r].id # NoEntry => tx[r].entry = EntryAfter(req[r], entry[req[r].id])

\* One session at most creates the event, holds the lock of a row, or is about
\* an entry that is being created.
AloneInv ==
    \A r, q \in Requests : r # q =>
        /\ ~ (req[r].op = "create_event" /\ req[q].op = "create_event")
        /\ tx[r].written /\ tx[q].written => tx[r].id # tx[q].id
        /\ req[r].op \in CreateOps => req[q].id # req[r].id

CheckedInv ==
    \A i \in checked :
        entry[i].state # "none" /\ (Live(i) => entry[i].value <= TotalDays(event))

\* Items left alone are counted once the overview is past their day.
ViewInv ==
    view.pc # "off" =>
        /\ view.day >= 1 /\ (view.day = 1 \/ view.day <= view.total + 1)
        /\ view.total <= Days
        /\ view.pc = "done" => view.day > view.total
        /\ \A i \in Agenda : view.counted[i] < view.day
        /\ \A i \in Agenda \ view.touched :
            view.counted[i] = IF Live(i) /\ entry[i].value < view.day THEN 1 ELSE 0

IInv ==
    /\ TypeOK
    /\ \A r \in Requests : HandlerInv(req[r]) /\ TxInv(r)
    /\ AloneInv
    /\ CheckedInv
    /\ ViewInv

-----------------------------------------------------------------------------
(* Types, days and what a write computes. *)

\* The fields of an event.
LEMMA EventFields ==
    ASSUME NEW e \in EventRow
    PROVE  e.state \in State /\ e.start \in Dates /\ e.end \in Dates
BY DEF EventRow

\* The fields of a handler.
LEMMA HandlerFields ==
    ASSUME NEW h \in Handler
    PROVE  /\ h.pc \in PCs /\ h.op \in Ops /\ h.id \in Entries \cup {NoEntry}
           /\ h.form \in FormData /\ h.form[1] \in Dates /\ h.form[2] \in Dates
           /\ h.value \in 0..MaxValue /\ h.value \in Nat
           /\ h.loaded \in EventRow /\ h.was \in EntryRow /\ h.stale \in BOOLEAN
BY BoundsAssumption DEF Handler, FormData

\* The records of the initial state.
LEMMA InitialRecords ==
    /\ NoEvent \in EventRow /\ NoEvent.state = "none"
    /\ NoRow \in EntryRow /\ NoRow.state = "none"
    /\ Idle \in Handler /\ Idle.pc = "idle" /\ Idle.op = "none" /\ Idle.id = NoEntry
    /\ NoTx \in Transaction /\ NoTx.written = FALSE
<1>1. NoEvent \in EventRow /\ NoEvent.state = "none"
  BY DEF NoEvent, EventRow, State, Dates
<1>2. NoRow \in EntryRow /\ NoRow.state = "none"
  BY BoundsAssumption DEF NoRow, EntryRow, State
<1>3. <<NoDate, NoDate>> \in FormData
  BY DEF FormData, Dates
<1>4. 0 \in 0..MaxValue
  BY BoundsAssumption
<1>5. Idle \in Handler /\ Idle.pc = "idle" /\ Idle.op = "none" /\ Idle.id = NoEntry
  BY <1>1, <1>2, <1>3, <1>4 DEF Idle, Handler, PCs, Ops
<1>6. NoTx \in Transaction /\ NoTx.written = FALSE
  BY <1>1, <1>2 DEF NoTx, Transaction
<1> QED
  BY <1>1, <1>2, <1>5, <1>6

\* An instant is within its day, and days are in the order of their instants.
LEMMA DayOrder ==
    ASSUME NEW t \in Instants
    PROVE  /\ t \in Nat /\ Day(t) \in 0..(Days - 1) /\ DayStart(t) \in Nat /\ DayEnd(t) \in Nat
           /\ DayStart(t) <= t /\ t <= DayEnd(t)
           /\ \A u \in Instants : t <= u => Day(t) <= Day(u)
<1>1. t \in Nat /\ t <= 3 * Days - 1
  BY BoundsAssumption DEF Instants
<1>2. Day(t) \in Nat /\ 3 * Day(t) <= t /\ t <= 3 * Day(t) + 2
  BY <1>1 DEF Day
<1>3. ASSUME NEW u \in Instants, t <= u PROVE Day(t) <= Day(u)
  <2>1. u \in Nat
    BY BoundsAssumption DEF Instants
  <2>2. Day(u) \in Nat /\ u <= 3 * Day(u) + 2
    BY <2>1 DEF Day
  <2> QED
    BY <1>1, <1>2, <1>3, <2>1, <2>2
<1>4. Day(t) \in 0..(Days - 1)
  BY <1>1, <1>2, BoundsAssumption
<1> QED
  BY <1>1, <1>2, <1>3, <1>4 DEF DayStart, DayEnd

\* An event has no more days than the calendar.
LEMMA TotalDaysType ==
    ASSUME NEW e \in EventRow
    PROVE  TotalDays(e) \in Int /\ TotalDays(e) <= Days
<1>1. CASE ~Dated(e)
  <2>1. TotalDays(e) = 0
    BY <1>1 DEF TotalDays
  <2> QED
    BY <2>1, BoundsAssumption
<1>2. CASE Dated(e)
  <2>1. e.start \in Instants /\ e.end \in Instants
    BY <1>2, EventFields DEF Dated, Dates
  <2>2. TotalDays(e) = Day(e.end) - Day(e.start) + 1
    BY <1>2 DEF TotalDays
  <2>3. Day(e.end) \in 0..(Days - 1) /\ Day(e.start) \in 0..(Days - 1)
    BY <2>1, DayOrder
  <2> QED
    BY <2>2, <2>3, BoundsAssumption
<1> QED
  BY <1>1, <1>2

\* The row an event is left with; only a creation brings it to life.
LEMMA EventAfterType ==
    ASSUME NEW h \in Handler, NEW row \in EventRow
    PROVE  /\ EventAfter(h, row) \in EventRow
           /\ h.op # "create_event" => EventAfter(h, row).state \in {row.state, "deleted"}
<1>1. h.form[1] \in Dates /\ h.form[2] \in Dates
  BY HandlerFields
<1>2. CASE h.op = "create_event"
  BY <1>1, <1>2 DEF EventAfter, EventRow, State
<1>3. CASE h.op = "delete_event"
  BY <1>3 DEF EventAfter, EventRow, State
<1>4. CASE h.op \notin {"create_event", "delete_event"}
  <2> DEFINE s == Column(h.form[1], NoDate, h.loaded.start, row.start)
             e == Column(h.form[2], NoDate, h.loaded.end, row.end)
  <2>1. s \in Dates /\ e \in Dates
    BY <1>1, EventFields DEF Column
  <2>2. EventAfter(h, row) = [row EXCEPT !.start = s, !.end = e]
    BY <1>4 DEF EventAfter
  <2> HIDE DEF s, e
  <2> QED
    BY <2>1, <2>2 DEF EventRow
<1> QED
  BY <1>2, <1>3, <1>4

\* The row an entry is left with.
LEMMA EntryAfterType ==
    ASSUME NEW h \in Handler, NEW row \in EntryRow
    PROVE  /\ EntryAfter(h, row) \in EntryRow
           /\ h.op \in CreateOps => EntryAfter(h, row) = [state |-> "live", value |-> h.value]
           /\ h.op \notin CreateOps => /\ EntryAfter(h, row).state \in {row.state, "deleted"}
                                       /\ EntryAfter(h, row).value \in {row.value, h.value}
           /\ h.op = "delete_entry" => EntryAfter(h, row) = [row EXCEPT !.state = "deleted"]
<1>1. h.value \in 0..MaxValue
  BY HandlerFields
<1>2. CASE h.op \in CreateOps
  BY <1>1, <1>2 DEF EntryAfter, EntryRow, State, CreateOps
<1>3. CASE h.op = "delete_entry"
  BY <1>1, <1>3 DEF EntryAfter, EntryRow, State, CreateOps
<1>4. CASE h.op \notin CreateOps \cup {"delete_entry"}
  <2> DEFINE v == Column(h.value, h.was.value, h.was.value, row.value)
  <2>1. v \in {row.value, h.value}
    BY DEF Column
  <2>2. EntryAfter(h, row) = [row EXCEPT !.value = v]
    BY <1>4 DEF EntryAfter, CreateOps
  <2> HIDE DEF v
  <2> QED
    BY <1>1, <1>4, <2>1, <2>2 DEF EntryRow
<1> QED
  BY <1>2, <1>3, <1>4

-----------------------------------------------------------------------------
(* The steps of one handler that commit nothing. *)

\* The initial state satisfies the invariant.
LEMMA InitInv == Init => IInv
<1> SUFFICES ASSUME Init PROVE IInv
  OBVIOUS
<1>1. NoView \in View /\ NoView.pc = "off"
  <2>1. [i \in Agenda |-> 0] \in [Agenda -> 0..Days] /\ 0 \in 0..(Days + 1) /\ 0 \in Int
    BY BoundsAssumption
  <2> QED
    BY <2>1 DEF NoView, View
<1>2. TypeOK
  BY <1>1, InitialRecords DEF Init, TypeOK, Entries
<1>3. \A r \in Requests : HandlerInv(req[r]) /\ TxInv(r)
  BY InitialRecords DEF Init, HandlerInv, TxInv, EventOps, EntryOps, CreateOps
<1>4. AloneInv /\ CheckedInv /\ ViewInv
  BY <1>1, InitialRecords DEF Init, AloneInv, CheckedInv, ViewInv, CreateOps
<1> QED
  BY <1>2, <1>3, <1>4 DEF IInv

\* A step of one session that leaves the committed rows alone.
LEMMA HandlerStep ==
    ASSUME IInv, NEW r \in Requests, NEW h \in Handler, NEW t \in Transaction,
           req' = [req EXCEPT ![r] = h], tx' = [tx EXCEPT ![r] = t],
           UNCHANGED <<event, entry, checked, view, mix>>,
           HandlerInv(h),
           t.written =>
            /\ h.pc = "closing" /\ t.id = h.id
            /\ h.id = NoEntry => t.event = EventAfter(h, event)
            /\ h.id # NoEntry => t.entry = EntryAfter(h, entry[h.id]),
           \A q \in Requests \ {r} :
            /\ ~ (h.op = "create_event" /\ req[q].op = "create_event")
            /\ t.written /\ tx[q].written => t.id # tx[q].id
            /\ h.op \in CreateOps => req[q].id # h.id
            /\ req[q].op \in CreateOps => h.id # req[q].id
    PROVE  IInv'
<1>1. /\ req'[r] = h /\ \A q \in Requests \ {r} : req'[q] = req[q]
      /\ tx'[r] = t /\ \A q \in Requests \ {r} : tx'[q] = tx[q]
      /\ req' \in [Requests -> Handler] /\ tx' \in [Requests -> Transaction]
  BY DEF IInv, TypeOK
<1>2. TypeOK'
  BY <1>1 DEF IInv, TypeOK
<1>3. ASSUME NEW q \in Requests PROVE HandlerInv(req[q])' /\ TxInv(q)'
  <2>1. CASE q = r
    BY <1>1, <2>1 DEF HandlerInv, TxInv
  <2>2. CASE q # r
    <3>1. HandlerInv(req[q]) /\ TxInv(q)
      BY DEF IInv
    <3> QED
      BY <1>1, <2>2, <3>1 DEF HandlerInv, TxInv
  <2> QED
    BY <2>1, <2>2
<1>4. AloneInv'
  BY <1>1 DEF IInv, AloneInv
<1>5. CheckedInv' /\ ViewInv'
  BY DEF IInv, CheckedInv, ViewInv, Live
<1> QED
  BY <1>2, <1>3, <1>4, <1>5 DEF IInv

\* A session is closed without a commit.
LEMMA AbandonInv == ASSUME IInv, NEW r \in Requests, Abandon(r) PROVE IInv'
<1>1. HandlerInv(Idle)
  BY InitialRecords DEF HandlerInv, EventOps, EntryOps, CreateOps
<1>2. \A q \in Requests : req[q].op \in CreateOps => Idle.id # req[q].id
  BY InitialRecords, IdsAssumption DEF IInv, HandlerInv, EntryOps
<1> QED
  BY <1>1, <1>2, InitialRecords, HandlerStep DEF Abandon, CreateOps

\* A handler goes on to another point, with the same request at hand.
LEMMA OnwardInv ==
    ASSUME IInv, NEW r \in Requests, NEW h \in Handler, NEW t \in Transaction,
           req' = [req EXCEPT ![r] = h], tx' = [tx EXCEPT ![r] = t],
           UNCHANGED <<event, entry, checked, view, mix>>,
           req[r].pc # "idle", h.pc \notin {"idle", "find"},
           h.op = req[r].op, h.id = req[r].id, h.form = req[r].form, h.value = req[r].value,
           h.loaded = req[r].loaded, h.stale = req[r].stale,
           h.op = "create_agenda" =>
            h.pc = "verify" \/ (h.pc \in {"write", "closing"} /\ h.value <= TotalDays(h.loaded)),
           t.written =>
            /\ h.pc = "closing" /\ t.id = h.id
            /\ h.id = NoEntry => t.event = EventAfter(h, event)
            /\ h.id # NoEntry => t.entry = EntryAfter(h, entry[h.id])
            /\ \A q \in Requests \ {r} : tx[q].written => tx[q].id # h.id
    PROVE  IInv'
<1>1. HandlerInv(h)
  <2>1. HandlerInv(req[r]) /\ (h.pc = "idle" <=> h.op = "none")
    BY DEF IInv, HandlerInv
  <2> QED
    BY <2>1 DEF HandlerInv
<1>2. \A q \in Requests \ {r} :
        /\ ~ (h.op = "create_event" /\ req[q].op = "create_event")
        /\ t.written /\ tx[q].written => t.id # tx[q].id
        /\ h.op \in CreateOps => req[q].id # h.id
        /\ req[q].op \in CreateOps => h.id # req[q].id
  BY DEF IInv, AloneInv
<1>3. t.written =>
        /\ h.pc = "closing" /\ t.id = h.id
        /\ h.id = NoEntry => t.event = EventAfter(h, event)
        /\ h.id # NoEntry => t.entry = EntryAfter(h, entry[h.id])
  OBVIOUS
<1> QED
  BY <1>1, <1>2, <1>3, HandlerStep

\* A handler moves on from a point before its write.
LEMMA GotoInv ==
    ASSUME IInv, NEW r \in Requests, NEW pc \in {"write"}, Goto(r, pc),
           req[r].pc \in {"verify", "get"},
           req[r].op = "create_agenda" => req[r].value <= TotalDays(req[r].loaded)
    PROVE  IInv'
<1> DEFINE h == [req[r] EXCEPT !.pc = pc]
<1>1. /\ h \in Handler /\ h.pc = "write" /\ h.op = req[r].op /\ h.id = req[r].id
      /\ h.form = req[r].form /\ h.value = req[r].value /\ h.loaded = req[r].loaded
      /\ h.stale = req[r].stale
  BY DEF IInv, TypeOK, Handler, PCs
<1>2. req' = [req EXCEPT ![r] = h] /\ UNCHANGED <<event, entry, tx, checked, view, mix>>
  BY DEF Goto, IInv, TypeOK
<1>3. tx[r] \in Transaction /\ tx' = [tx EXCEPT ![r] = tx[r]] /\ ~tx[r].written
  BY <1>2 DEF IInv, TypeOK, TxInv
<1> HIDE DEF h
<1> QED
  BY <1>1, <1>2, <1>3, OnwardInv

\* The checks of a handler before its write.
LEMMA CheckInv ==
    ASSUME IInv, NEW r \in Requests, ValidateAgenda(r) \/ FindEntry(r) \/ GetAgain(r)
    PROVE  IInv'
<1>1. CASE Abandon(r)
  BY <1>1, AbandonInv
<1>2. CASE ValidateAgenda(r) /\ ~Abandon(r)
  <2>1. Goto(r, "write") /\ req[r].pc = "verify" /\ req[r].value <= TotalDays(req[r].loaded)
    BY <1>2 DEF ValidateAgenda, InEvent
  <2> QED
    BY <2>1, GotoInv
<1>3. CASE GetAgain(r) /\ ~Abandon(r)
  <2>1. Goto(r, "write") /\ req[r].pc = "get" /\ req[r].op # "create_agenda"
    BY <1>3 DEF GetAgain, IInv, HandlerInv
  <2> QED
    BY <2>1, GotoInv
<1>4. CASE FindEntry(r) /\ ~Abandon(r)
  <2> DEFINE h == [req[r] EXCEPT !.pc = "get", !.was = entry[req[r].id]]
  <2>1. /\ req' = [req EXCEPT ![r].pc = "get", ![r].was = entry[req[r].id]]
        /\ UNCHANGED <<event, entry, tx, checked, view, mix>> /\ req[r].pc = "find"
        /\ Live(req[r].id)
    BY <1>4 DEF FindEntry
  <2>2. req' = [req EXCEPT ![r] = h]
    BY <2>1 DEF IInv, TypeOK
  <2>3. req[r].op # "create_agenda"
    BY <2>1 DEF IInv, HandlerInv
  <2>4. CASE req[r].id \in Entries
    <3>1. entry[req[r].id] \in EntryRow
      BY <2>4 DEF IInv, TypeOK
    <3>2. /\ h \in Handler /\ h.pc = "get" /\ h.op = req[r].op /\ h.id = req[r].id
          /\ h.form = req[r].form /\ h.value = req[r].value /\ h.loaded = req[r].loaded
          /\ h.stale = req[r].stale
      BY <3>1 DEF IInv, TypeOK, Handler, PCs
    <3>3. tx[r] \in Transaction /\ tx' = [tx EXCEPT ![r] = tx[r]] /\ ~tx[r].written
      BY <2>1 DEF IInv, TypeOK, TxInv
    <3> HIDE DEF h
    <3> QED
      BY <2>1, <2>2, <2>3, <3>2, <3>3, OnwardInv
  <2>5. req[r].id \in Entries
    BY <2>1 DEF IInv, HandlerInv, EntryOps
  <2> QED
    BY <2>4, <2>5
<1> QED
  BY <1>1, <1>2, <1>3, <1>4

\* The flush of a write.
LEMMA WriteInv == ASSUME IInv, NEW r \in Requests, Write(r) PROVE IInv'
<1> DEFINE g == req[r]
           h == [g EXCEPT !.pc = "closing"]
<1>1. /\ h \in Handler /\ h.pc = "closing" /\ h.op = g.op /\ h.id = g.id
      /\ h.form = g.form /\ h.value = g.value /\ h.loaded = g.loaded
      /\ h.stale = g.stale /\ h.was = g.was /\ g \in Handler
  BY DEF IInv, TypeOK, Handler, PCs
<1>2. /\ req' = [req EXCEPT ![r] = h] /\ UNCHANGED <<event, entry, checked, view, mix>>
      /\ g.pc = "write"
  BY DEF Write, IInv, TypeOK
<1>3. g.op = "create_agenda" => h.value <= TotalDays(h.loaded)
  BY <1>1, <1>2 DEF IInv, HandlerInv
<1>4. CASE ~Changes(g)
  <2>1. tx[r] \in Transaction /\ tx' = [tx EXCEPT ![r] = tx[r]] /\ ~tx[r].written
    BY <1>2, <1>4 DEF IInv, TypeOK, TxInv, Write
  <2> HIDE DEF g, h
  <2>2. req[r].pc # "idle"
    BY <1>2 DEF g
  <2> QED
    BY <1>1, <1>2, <1>3, <2>1, <2>2, OnwardInv DEF g
<1>5. CASE Changes(g)
  <2> DEFINE e == IF g.id = NoEntry THEN EventAfter(g, event) ELSE NoEvent
             n == IF g.id = NoEntry THEN NoRow ELSE EntryAfter(g, entry[g.id])
             t == [written |-> TRUE, id |-> g.id, event |-> e, entry |-> n]
  <2>1. /\ \A q \in Requests \ {r} : tx[q].written => tx[q].id # g.id
        /\ tx' = [tx EXCEPT ![r] = t]
    BY <1>5 DEF Write
  <2>2. e \in EventRow
    BY <1>1, EventAfterType, InitialRecords DEF IInv, TypeOK
  <2>3. n \in EntryRow
    <3>1. CASE g.id = NoEntry
      BY <3>1, InitialRecords
    <3>2. CASE g.id # NoEntry
      <4>1. entry[g.id] \in EntryRow
        BY <1>1, <3>2, HandlerFields DEF IInv, TypeOK
      <4> QED
        BY <1>1, <3>2, <4>1, EntryAfterType
    <3> QED
      BY <3>1, <3>2
  <2>4. g.id = NoEntry => e = EventAfter(h, event)
    BY <1>1 DEF EventAfter
  <2>5. g.id # NoEntry => n = EntryAfter(h, entry[h.id])
    BY <1>1 DEF EntryAfter
  <2>6. g.id \in Entries \cup {NoEntry}
    BY <1>1, HandlerFields
  <2> HIDE DEF e, n, g, h
  <2>7. t \in Transaction /\ t.written /\ t.id = g.id /\ t.event = e /\ t.entry = n
    BY <2>2, <2>3, <2>6 DEF Transaction
  <2> HIDE DEF t
  <2>8. req[r].pc # "idle"
    BY <1>2 DEF g
  <2> QED
    BY <1>1, <1>2, <1>3, <2>1, <2>4, <2>5, <2>7, <2>8, OnwardInv DEF g
<1> QED
  BY <1>4, <1>5

-----------------------------------------------------------------------------
(* Requests that come in. *)

\* What a request has at hand when it has been received.
Received(h, op, pc, id, form, value, loaded) ==
    /\ h \in Handler
    /\ h.op = op /\ h.pc = pc /\ h.id = id /\ h.form = form /\ h.value = value
    /\ h.loaded = loaded /\ ~h.stale

\* The requests about the event and its entries that have been received.
LEMMA OwnedFields ==
    ASSUME TypeOK, NEW op \in Ops, NEW pc \in PCs
    PROVE  /\ Received(Owned(op, pc), op, pc, NoEntry, <<NoDate, NoDate>>, 0, event)
           /\ \A f \in FormData :
                Received([Owned(op, pc) EXCEPT !.form = f], op, pc, NoEntry, f, 0, event)
           /\ \A id \in Entries, v \in 0..MaxValue :
                Received([Owned(op, pc) EXCEPT !.id = id, !.value = v],
                         op, pc, id, <<NoDate, NoDate>>, v, event)
<1> DEFINE g == Owned(op, pc)
<1>1. g \in Handler
  <2>1. Idle \in Handler /\ event \in EventRow
    BY InitialRecords DEF TypeOK
  <2> QED
    BY <2>1 DEF Owned, Handler
<1>2. /\ g.op = op /\ g.pc = pc /\ g.id = NoEntry /\ g.form = <<NoDate, NoDate>>
      /\ g.value = 0 /\ g.loaded = event /\ ~g.stale
  BY DEF Owned, Idle
<1> HIDE DEF g
<1>3. ASSUME NEW f \in FormData
      PROVE  Received([g EXCEPT !.form = f], op, pc, NoEntry, f, 0, event)
  BY <1>1, <1>2 DEF Received, Handler
<1>4. ASSUME NEW id \in Entries, NEW v \in 0..MaxValue
      PROVE  Received([g EXCEPT !.id = id, !.value = v],
                      op, pc, id, <<NoDate, NoDate>>, v, event)
  BY <1>1, <1>2 DEF Received, Handler
<1> QED
  BY <1>1, <1>2, <1>3, <1>4 DEF Received, g

\* A request is received.
LEMMA ReceiveInv ==
    ASSUME IInv, NEW r \in Requests, NEW h \in Handler, Receive(r, h), HandlerInv(h),
           \A q \in Requests \ {r} :
            /\ ~ (h.op = "create_event" /\ req[q].op = "create_event")
            /\ h.op \in CreateOps => req[q].id # h.id
            /\ req[q].op \in CreateOps => h.id # req[q].id
    PROVE  IInv'
<1>1. /\ req' = [req EXCEPT ![r] = h]
      /\ UNCHANGED <<event, entry, tx, checked, view, mix>>
  BY DEF Receive
<1>2. tx[r] \in Transaction /\ tx' = [tx EXCEPT ![r] = tx[r]] /\ ~tx[r].written
  BY <1>1 DEF IInv, TypeOK, TxInv, Receive, Open
<1> QED
  BY <1>1, <1>2, HandlerStep

\* The event is created: no other request can be about it yet.
LEMMA CreateEventInv == ASSUME IInv, NEW r \in Requests, CreateEvent(r) PROVE IInv'
<1>1. PICK f \in FormData :
        Receive(r, [Idle EXCEPT !.pc = "write", !.op = "create_event", !.form = f])
  BY FormsAssumption DEF CreateEvent
<1> DEFINE h == [Idle EXCEPT !.pc = "write", !.op = "create_event", !.form = f]
<1>2. h \in Handler /\ h.op = "create_event" /\ h.pc = "write" /\ h.id = NoEntry
  BY InitialRecords DEF Handler, PCs, Ops
<1>3. event.state = "none" /\ \A q \in Requests : req[q].op # "create_event"
  BY DEF CreateEvent, Open, IInv, HandlerInv
<1>4. Receive(r, h)
  BY <1>1
<1> HIDE DEF h
<1>5. HandlerInv(h)
  BY <1>2, <1>3 DEF HandlerInv, EventOps, EntryOps, CreateOps
<1>6. \A q \in Requests : req[q].op \in CreateOps => NoEntry # req[q].id
  BY IdsAssumption DEF IInv, HandlerInv, EntryOps
<1> QED
  BY <1>2, <1>3, <1>4, <1>5, <1>6, ReceiveInv DEF CreateOps

\* Another request for the event.
LEMMA EventRequestInv ==
    ASSUME IInv, NEW r \in Requests, UpdateEvent(r) \/ DeleteEvent(r) PROVE IInv'
<1>0. <<NoDate, NoDate>> \in FormData
  BY DEF FormData, Dates
<1>1. PICK h \in Handler, op \in {"update_event", "delete_event"}, f \in FormData :
        /\ Receive(r, h) /\ Received(h, op, "get", NoEntry, f, 0, event)
        /\ op = "update_event" => EndAfterStart(f)
        /\ event.state = "live"
  <2>1. CASE UpdateEvent(r)
    <3>1. PICK f \in FormData :
            EndAfterStart(f) /\ Receive(r, [Owned("update_event", "get") EXCEPT !.form = f])
      BY <2>1, FormsAssumption DEF UpdateEvent
    <3> DEFINE g == [Owned("update_event", "get") EXCEPT !.form = f]
    <3>2. Received(g, "update_event", "get", NoEntry, f, 0, event)
      BY OwnedFields DEF IInv, Ops, PCs
    <3>3. Receive(r, g) /\ EndAfterStart(f) /\ event.state = "live"
      BY <2>1, <3>1 DEF UpdateEvent
    <3> HIDE DEF g
    <3> QED
      BY <3>2, <3>3 DEF Received
  <2>2. CASE DeleteEvent(r)
    <3> DEFINE g == Owned("delete_event", "get")
               f == <<NoDate, NoDate>>
    <3>1. Received(g, "delete_event", "get", NoEntry, f, 0, event) /\ f \in FormData
      BY <1>0, OwnedFields DEF IInv, Ops, PCs
    <3>2. Receive(r, g) /\ event.state = "live"
      BY <2>2 DEF DeleteEvent
    <3> HIDE DEF g, f
    <3> QED
      BY <3>1, <3>2 DEF Received
  <2> QED
    BY <2>1, <2>2
<1>2. HandlerInv(h)
  BY <1>1 DEF HandlerInv, Received, EventOps, EntryOps, CreateOps, SameDates
<1>3. \A q \in Requests : req[q].op \in CreateOps => NoEntry # req[q].id
  BY IdsAssumption DEF IInv, HandlerInv, EntryOps
<1> QED
  BY <1>1, <1>2, <1>3, ReceiveInv DEF CreateOps, Received

\* An entry is created: its id is nobody else's.
LEMMA CreateEntryInv ==
    ASSUME IInv, NEW r \in Requests, CreateAgendaItem(r) \/ CreateExpense(r) PROVE IInv'
<1>1. PICK h \in Handler, op \in CreateOps, pc \in {"verify", "write"},
           i \in Entries, v \in 0..MaxValue :
        /\ Receive(r, h) /\ Received(h, op, pc, i, <<NoDate, NoDate>>, v, event)
        /\ op = "create_agenda" => i \in Agenda /\ pc = "verify"
        /\ i \in Agenda => v > 0
        /\ entry[i].state = "none" /\ \A q \in Open : req[q].id # i
        /\ event.state = "live"
  <2>1. CASE CreateAgendaItem(r)
    <3>1. PICK i \in Unused(Agenda), d \in 1..MaxValue :
            Receive(r, [Owned("create_agenda", "verify") EXCEPT !.id = i, !.value = d])
      BY <2>1 DEF CreateAgendaItem, ItemDays
    <3>2. d \in 0..MaxValue /\ d > 0 /\ i \in Entries
      BY BoundsAssumption DEF Unused, Entries
    <3> DEFINE g == [Owned("create_agenda", "verify") EXCEPT !.id = i, !.value = d]
    <3>3. Received(g, "create_agenda", "verify", i, <<NoDate, NoDate>>, d, event)
      BY <3>2, OwnedFields DEF IInv, Ops, PCs
    <3>4. /\ Receive(r, g) /\ event.state = "live" /\ i \in Agenda
          /\ entry[i].state = "none" /\ \A q \in Open : req[q].id # i
      BY <2>1, <3>1 DEF CreateAgendaItem, Unused
    <3> HIDE DEF g
    <3> QED
      BY <3>2, <3>3, <3>4 DEF Received, CreateOps
  <2>2. CASE CreateExpense(r)
    <3>1. PICK i \in Unused(Expenses), d \in 0..MaxValue :
            Receive(r, [Owned("create_expense", "write") EXCEPT !.id = i, !.value = d])
      BY <2>2 DEF CreateExpense, Amounts
    <3>2. i \in Entries /\ i \notin Agenda
      BY IdsAssumption DEF Unused, Entries
    <3> DEFINE g == [Owned("create_expense", "write") EXCEPT !.id = i, !.value = d]
    <3>3. Received(g, "create_expense", "write", i, <<NoDate, NoDate>>, d, event)
      BY <3>2, OwnedFields DEF IInv, Ops, PCs
    <3>4. /\ Receive(r, g) /\ event.state = "live"
          /\ entry[i].state = "none" /\ \A q \in Open : req[q].id # i
      BY <2>2, <3>1 DEF CreateExpense, Unused
    <3> HIDE DEF g
    <3> QED
      BY <3>2, <3>3, <3>4 DEF Received, CreateOps
  <2> QED
    BY <2>1, <2>2
<1>2. HandlerInv(h)
  BY <1>1 DEF HandlerInv, Received, EventOps, EntryOps, CreateOps, SameDates
<1>3. \A q \in Requests : req[q].id # i
  BY <1>1, IdsAssumption DEF Open, IInv, HandlerInv
<1>4. h \in Handler /\ h.op # "create_event" /\ h.id = i
  BY <1>1 DEF Received, CreateOps
<1> QED
  BY <1>1, <1>2, <1>3, <1>4, ReceiveInv

\* A request about a live entry: nobody is creating it any more.
LEMMA EntryRequestInv ==
    ASSUME IInv, NEW r \in Requests,
           \/ UpdateAgendaItem(r) \/ UpdateExpense(r)
           \/ DeleteAgendaItem(r) \/ DeleteExpense(r)
    PROVE  IInv'
<1>1. PICK op \in {"update_entry", "delete_entry"}, i \in Entries, v \in 0..MaxValue :
        OnEntry(r, op, i, v) /\ (op = "update_entry" /\ i \in Agenda => v > 0)
  <2>1. CASE UpdateAgendaItem(r)
    <3>1. PICK i \in Agenda, d \in 1..MaxValue : OnEntry(r, "update_entry", i, d)
      BY <2>1 DEF UpdateAgendaItem, ItemDays
    <3>2. d \in 0..MaxValue /\ d > 0
      BY BoundsAssumption
    <3> QED
      BY <3>1, <3>2 DEF Entries
  <2>2. CASE UpdateExpense(r)
    BY <2>2, IdsAssumption DEF UpdateExpense, Amounts, Entries
  <2>3. CASE DeleteAgendaItem(r) \/ DeleteExpense(r)
    <3>1. 0 \in 0..MaxValue
      BY BoundsAssumption
    <3> QED
      BY <2>3, <3>1 DEF DeleteAgendaItem, DeleteExpense, Entries
  <2> QED
    BY <2>1, <2>2, <2>3
<1> DEFINE h == [Owned(op, "find") EXCEPT !.id = i, !.value = v]
<1>2. Receive(r, h) /\ event.state = "live" /\ entry[i].state = "live"
  BY <1>1, IdsAssumption DEF OnEntry, Live
<1>3. Received(h, op, "find", i, <<NoDate, NoDate>>, v, event)
  BY OwnedFields DEF IInv, Ops, PCs
<1> HIDE DEF h
<1>4. HandlerInv(h)
  BY <1>1, <1>2, <1>3 DEF HandlerInv, Received, EventOps, EntryOps, CreateOps, SameDates
<1>5. \A q \in Requests : req[q].op \in CreateOps => i # req[q].id
  BY <1>2 DEF IInv, HandlerInv
<1>6. h \in Handler /\ h.op \notin CreateOps \cup {"create_event"} /\ h.id = i
  BY <1>3 DEF Received, CreateOps
<1> QED
  BY <1>2, <1>4, <1>5, <1>6, ReceiveInv

-----------------------------------------------------------------------------
(* Commits. *)

\* What a session that commits has at hand.
LEMMA WrittenFields ==
    ASSUME IInv, NEW r \in Requests, tx[r].written
    PROVE  /\ req[r] \in Handler /\ req[r].pc = "closing" /\ req[r].op # "none"
           /\ tx[r].id = req[r].id /\ HandlerInv(req[r])
           /\ tx[r].id = NoEntry => tx[r].event = EventAfter(req[r], event)
           /\ tx[r].id # NoEntry => /\ tx[r].entry = EntryAfter(req[r], entry[req[r].id])
                                    /\ req[r].id \in Entries /\ req[r].op \in EntryOps
           /\ tx[r].id = NoEntry => req[r].op \in EventOps
           /\ req[r].pc # "idle"
<1>1. /\ req[r] \in Handler /\ HandlerInv(req[r]) /\ TxInv(r)
      /\ req[r].op \in Ops /\ req[r].id \in Entries \cup {NoEntry}
  BY HandlerFields DEF IInv, TypeOK
<1>2. req[r].op \in EventOps \cup EntryOps \cup {"none"}
  BY <1>1 DEF Ops, EventOps, EntryOps, CreateOps
<1> QED
  BY <1>1, <1>2, IdsAssumption DEF TxInv, HandlerInv

\* The new dates of the event are the form's, or none has moved.
LEMMA CommitEventInv ==
    ASSUME IInv, NEW r \in Requests, tx[r].written, CommitEvent(r),
           tx' = [tx EXCEPT ![r] = NoTx], UNCHANGED mix
    PROVE  IInv'
<1> DEFINE moved == <<event'.start, event'.end>> # <<event.start, event.end>>
<1>1. /\ req[r] \in Handler /\ HandlerInv(req[r]) /\ req[r].op \in EventOps
      /\ req[r].id = NoEntry /\ tx[r].id = NoEntry
      /\ event' = EventAfter(req[r], event) /\ UNCHANGED <<entry, view>>
  BY WrittenFields DEF CommitEvent
<1>2. /\ event' \in EventRow
      /\ req[r].op # "create_event" => event'.state \in {event.state, "deleted"}
  BY <1>1, EventAfterType DEF IInv, TypeOK
<1>3. /\ checked' = IF moved THEN {} ELSE checked
      /\ ~moved => SameDates(event', event)
  BY DEF CommitEvent, SameDates
<1>4. ASSUME NEW q \in Requests, q # r
      PROVE  /\ req'[q] \in Handler /\ req'[q].stale \in BOOLEAN
             /\ req'[q].pc = req[q].pc /\ req'[q].op = req[q].op /\ req'[q].id = req[q].id
             /\ req'[q].form = req[q].form /\ req'[q].value = req[q].value
             /\ req'[q].loaded = req[q].loaded /\ req'[q].was = req[q].was
             /\ ~req'[q].stale /\ req[q].pc # "idle" => ~moved /\ ~req[q].stale
  <2>1. req[q] \in Handler
    BY DEF IInv, TypeOK
  <2>2. req'[q] = IF moved /\ q \in Open THEN [req[q] EXCEPT !.stale = TRUE] ELSE req[q]
    BY <1>4 DEF CommitEvent
  <2> HIDE DEF moved
  <2>3. CASE moved /\ q \in Open
    <3>1. req'[q] = [req[q] EXCEPT !.stale = TRUE]
      BY <2>2, <2>3
    <3> QED
      BY <2>1, <3>1 DEF Handler
  <2>4. CASE ~(moved /\ q \in Open)
    <3>1. req'[q] = req[q]
      BY <2>2, <2>4
    <3> QED
      BY <2>1, <2>4, <3>1, HandlerFields DEF Open
  <2> QED
    BY <2>3, <2>4
<1>5. req'[r] = Idle /\ req' = [q \in Requests |-> req'[q]]
  BY DEF CommitEvent
<1> HIDE DEF moved
<1>6. /\ tx'[r] = NoTx /\ \A q \in Requests \ {r} : tx'[q] = tx[q]
      /\ tx' \in [Requests -> Transaction] /\ req' \in [Requests -> Handler]
  BY <1>4, <1>5, InitialRecords DEF IInv, TypeOK
<1>7. TypeOK'
  BY <1>1, <1>2, <1>3, <1>6 DEF IInv, TypeOK
<1>8. HandlerInv(req[r])' /\ TxInv(r)'
  BY <1>5, <1>6, InitialRecords DEF HandlerInv, TxInv, EventOps, EntryOps, CreateOps
<1>9. ASSUME NEW q \in Requests, q # r PROVE HandlerInv(req[q])' /\ TxInv(q)'
  <2>1. HandlerInv(req[q]) /\ TxInv(q) /\ ~ (req[r].op = "create_event" /\ req[q].op = "create_event")
    BY <1>9 DEF IInv, AloneInv
  <2>2. req[q].op = "create_event" => FALSE
    BY <1>1, <2>1 DEF HandlerInv, EventOps
  <2>3. HandlerInv(req[q])'
    <3>1. event.state # "none" => event'.state # "none"
      BY <1>1, <1>2 DEF HandlerInv
    <3>2. req[q].op # "none" /\ ~req'[q].stale => SameDates(req[q].loaded, event')
      BY <1>3, <1>4, <1>9, <2>1, <2>2 DEF HandlerInv, SameDates
    <3> QED
      BY <1>1, <1>4, <1>9, <2>1, <2>2, <3>1, <3>2 DEF HandlerInv
  <2>4. TxInv(q)'
    <3>1. tx[q].written => tx[q].id # NoEntry
      BY <1>1, <1>9 DEF IInv, AloneInv
    <3>2. tx[q].written => EntryAfter(req'[q], entry[req[q].id]) = EntryAfter(req[q], entry[req[q].id])
      BY <1>4, <1>9 DEF EntryAfter
    <3> QED
      BY <1>1, <1>4, <1>6, <1>9, <2>1, <3>1, <3>2 DEF TxInv
  <2> QED
    BY <2>3, <2>4
<1>10. AloneInv'
  <2>1. \A q \in Requests \ {r} : req'[q].op = req[q].op /\ req'[q].id = req[q].id
    BY <1>4
  <2>2. \A q \in Requests \ {r} : req'[q].op \in CreateOps => req'[q].id # NoEntry
    BY <2>1, IdsAssumption DEF IInv, HandlerInv, EntryOps
  <2> QED
    BY <1>5, <1>6, <2>1, <2>2, InitialRecords DEF IInv, AloneInv, CreateOps
<1>11. CheckedInv'
  <2>1. CASE moved
    BY <1>3, <2>1 DEF CheckedInv
  <2>2. CASE ~moved
    <3>1. TotalDays(event') = TotalDays(event)
      BY <1>3, <2>2 DEF SameDates, TotalDays, Dated
    <3>2. \A i \in Entries : i # NoEntry
      BY IdsAssumption
    <3>3. checked \subseteq Entries
      BY DEF IInv, TypeOK, Entries
    <3> QED
      BY <1>1, <1>3, <2>2, <3>1, <3>2, <3>3 DEF IInv, CheckedInv, Live
  <2> QED
    BY <2>1, <2>2
<1>12. ViewInv'
  <2>1. \A i \in Agenda : i # NoEntry
    BY IdsAssumption DEF Entries
  <2> QED
    BY <1>1, <2>1 DEF IInv, ViewInv, Live
<1> QED
  BY <1>7, <1>8, <1>9, <1>10, <1>11, <1>12 DEF IInv

\* An entry that was being created is there from now on, a deleted one is not
\* live, and its day is checked only if nothing moved meanwhile.
LEMMA CommitEntryInv ==
    ASSUME IInv, NEW r \in Requests, tx[r].written, CommitEntry(r),
           tx' = [tx EXCEPT ![r] = NoTx], UNCHANGED mix
    PROVE  IInv'
<1> DEFINE h == req[r]
           i == req[r].id
           n == EntryAfter(h, entry[i])
<1>1. /\ h \in Handler /\ HandlerInv(h) /\ h.op \in EntryOps /\ h.pc = "closing"
      /\ i = tx[r].id /\ i \in Entries /\ i # NoEntry
      /\ entry' = [entry EXCEPT ![i] = n] /\ UNCHANGED event
      /\ req' = [req EXCEPT ![r] = Idle]
  BY WrittenFields DEF CommitEntry
<1>2. entry[i] \in EntryRow /\ (i \in Agenda /\ entry[i].state # "none" => entry[i].value > 0)
  BY <1>1 DEF IInv, TypeOK
<1>3. /\ n \in EntryRow /\ n.state # "none" /\ (i \in Agenda => n.value > 0)
      /\ h.op = "delete_entry" => n.state = "deleted"
      /\ h.op \in CreateOps => n.state = "live" /\ n.value = h.value
      /\ h.op \notin CreateOps => n.state \in {entry[i].state, "deleted"}
  <2>1. /\ n \in EntryRow
        /\ h.op \in CreateOps => n = [state |-> "live", value |-> h.value]
        /\ h.op \notin CreateOps => n.state \in {entry[i].state, "deleted"}
                                    /\ n.value \in {entry[i].value, h.value}
        /\ h.op = "delete_entry" => n = [entry[i] EXCEPT !.state = "deleted"]
    BY <1>1, <1>2, EntryAfterType
  <2> HIDE DEF n, h
  <2>2. HandlerInv(h) /\ h.op \in EntryOps /\ i = h.id
    BY <1>1 DEF h
  <2> HIDE DEF i
  <2>3. CASE h.op \in CreateOps
    <3>1. h.op # "delete_entry"
      BY <2>3 DEF CreateOps
    <3> QED
      BY <2>1, <2>2, <2>3, <3>1 DEF HandlerInv
  <2>4. CASE h.op = "delete_entry"
    <3>1. h.op \notin CreateOps
      BY <2>4 DEF CreateOps
    <3>2. n.state = "deleted" /\ n.value = entry[i].value
      BY <1>2, <2>1, <2>4 DEF EntryRow
    <3>3. entry[i].state # "none"
      BY <2>2, <2>4 DEF HandlerInv
    <3> QED
      BY <1>2, <2>1, <3>1, <3>2, <3>3
  <2>5. CASE h.op = "update_entry"
    <3>1. h.op \notin CreateOps
      BY <2>5 DEF CreateOps
    <3>2. entry[i].state # "none" /\ (i \in Agenda => h.value > 0)
      BY <2>2, <2>5 DEF HandlerInv
    <3> QED
      BY <1>2, <2>1, <2>5, <3>1, <3>2
  <2> QED
    BY <2>2, <2>3, <2>4, <2>5 DEF EntryOps
<1> HIDE DEF n
<1>4. /\ entry' \in [Entries -> EntryRow] /\ entry'[i] = n
      /\ \A j \in Entries \ {i} : entry'[j] = entry[j]
  BY <1>1, <1>3 DEF IInv, TypeOK
<1>5. /\ req'[r] = Idle /\ \A q \in Requests \ {r} : req'[q] = req[q]
      /\ tx'[r] = NoTx /\ \A q \in Requests \ {r} : tx'[q] = tx[q]
      /\ tx' \in [Requests -> Transaction] /\ req' \in [Requests -> Handler]
  BY <1>1, InitialRecords DEF IInv, TypeOK
<1>6. checked' \subseteq checked \cup {i} /\ checked' \subseteq Agenda
  <2>1. h.op = "create_agenda" => i \in Agenda
    BY <1>1 DEF HandlerInv
  <2> QED
    BY <1>1, <2>1 DEF CommitEntry, IInv, TypeOK
<1>7. /\ view' \in View /\ view'.pc = view.pc /\ view'.day = view.day
      /\ view'.total = view.total /\ view'.counted = view.counted
      /\ view.pc # "off" => view'.touched = view.touched \cup ({i} \cap Agenda)
  <2>1. view \in View
    BY DEF IInv, TypeOK
  <2>2. CASE view.pc = "off"
    BY <2>1, <2>2 DEF CommitEntry
  <2>3. CASE view.pc # "off"
    <3>1. view' = [view EXCEPT !.touched = @ \cup ({i} \cap Agenda)]
      BY <1>1, <2>3 DEF CommitEntry
    <3> QED
      BY <2>1, <3>1 DEF View
  <2> QED
    BY <2>2, <2>3
<1>8. TypeOK'
  <2>1. \A j \in Agenda : entry'[j].state # "none" => entry'[j].value > 0
    BY <1>3, <1>4 DEF IInv, TypeOK, Entries
  <2> QED
    BY <1>1, <1>4, <1>5, <1>6, <1>7, <2>1 DEF IInv, TypeOK
<1>9. HandlerInv(req[r])' /\ TxInv(r)'
  BY <1>5, InitialRecords DEF HandlerInv, TxInv, EventOps, EntryOps, CreateOps
<1>10. ASSUME NEW q \in Requests, q # r PROVE HandlerInv(req[q])' /\ TxInv(q)'
  <2>1. HandlerInv(req[q]) /\ TxInv(q)
    BY DEF IInv
  <2>2. req[q].op \in CreateOps => req[q].id # i
    BY <1>10 DEF IInv, AloneInv
  <2>3. req[q].op \in EntryOps => req[q].id \in Entries
    BY <2>1 DEF HandlerInv
  <2>4. HandlerInv(req[q])'
    <3>1. req[q].op \in CreateOps => entry'[req[q].id].state = "none"
      BY <1>4, <2>1, <2>2, <2>3 DEF HandlerInv, EntryOps
    <3>2. req[q].op \in {"update_entry", "delete_entry"} => entry'[req[q].id].state # "none"
      BY <1>3, <1>4, <2>1, <2>3 DEF HandlerInv, EntryOps
    <3> QED
      BY <1>1, <1>5, <1>10, <2>1, <3>1, <3>2 DEF HandlerInv
  <2>5. tx[q].written => req[q].id # i /\ req[q].id \in Entries \cup {NoEntry}
    BY <1>1, <1>10, <2>1, HandlerFields DEF IInv, TypeOK, AloneInv, TxInv
  <2>6. TxInv(q)'
    BY <1>1, <1>4, <1>5, <1>10, <2>1, <2>5 DEF TxInv
  <2> QED
    BY <2>4, <2>6
<1>11. AloneInv'
  <2>1. \A q \in Requests \ {r} : req'[q].op \in CreateOps => req'[q].id # NoEntry
    BY <1>5, IdsAssumption DEF IInv, HandlerInv, EntryOps
  <2> QED
    BY <1>5, <2>1, InitialRecords DEF IInv, AloneInv, CreateOps
<1>12. ASSUME NEW j \in checked'
       PROVE  entry'[j].state # "none" /\ (Live(j)' => entry'[j].value <= TotalDays(event'))
  <2>0. j \in Entries /\ j # NoEntry /\ TotalDays(event') = TotalDays(event)
    BY <1>1, <1>6, IdsAssumption DEF Entries
  <2>1. CASE j # i
    BY <1>4, <1>6, <2>0, <2>1 DEF IInv, CheckedInv, Live
  <2>2. CASE j = i
    <3>1. h.op # "update_entry"
      BY <1>1, <1>12, <2>2 DEF CommitEntry
    <3>2. ASSUME h.op \in CreateOps
          PROVE  entry'[i].value <= TotalDays(event)
      <4>1. i \notin checked
        BY <1>1, <3>2 DEF IInv, CheckedInv, HandlerInv
      <4>2. h.op = "create_agenda" /\ ~h.stale
        BY <1>1, <1>12, <2>2, <4>1 DEF CommitEntry
      <4>3. h.value <= TotalDays(h.loaded) /\ SameDates(h.loaded, event)
        BY <1>1, <4>2 DEF HandlerInv
      <4>4. TotalDays(h.loaded) = TotalDays(event)
        BY <4>3 DEF SameDates, TotalDays, Dated
      <4> QED
        BY <1>3, <1>4, <3>2, <4>3, <4>4
    <3>3. CASE h.op = "delete_entry"
      <4>1. ~Live(j)'
        BY <1>3, <1>4, <2>0, <2>2, <3>3 DEF Live
      <4> QED
        BY <1>3, <1>4, <2>2, <4>1
    <3> QED
      BY <1>1, <1>3, <1>4, <2>0, <2>2, <3>1, <3>2, <3>3 DEF EntryOps
  <2> QED
    BY <2>1, <2>2
<1>13. ViewInv'
  <2>1. ASSUME view.pc # "off", NEW j \in Agenda \ view'.touched
        PROVE  view'.counted[j] = IF Live(j)' /\ entry'[j].value < view'.day THEN 1 ELSE 0
    <3>1. j \in Agenda \ view.touched /\ j # i /\ j \in Entries /\ j # NoEntry
      BY <1>7, <2>1, IdsAssumption DEF Entries
    <3>2. view.counted[j] = IF Live(j) /\ entry[j].value < view.day THEN 1 ELSE 0
      BY <2>1, <3>1 DEF IInv, ViewInv
    <3> QED
      BY <1>4, <1>7, <3>1, <3>2 DEF Live
  <2> QED
    BY <1>7, <2>1 DEF IInv, ViewInv
<1>14. CheckedInv'
  BY <1>12 DEF CheckedInv
<1> QED
  BY <1>8, <1>9, <1>10, <1>11, <1>13, <1>14 DEF IInv

-----------------------------------------------------------------------------
(* The overview, and every step. *)

\* A step of the overview.
LEMMA OverviewStep ==
    ASSUME IInv, view' \in View, ViewInv',
           UNCHANGED <<event, entry, req, tx, checked, mix>>
    PROVE  IInv'
<1>1. TypeOK'
  BY DEF IInv, TypeOK
<1>2. ASSUME NEW r \in Requests PROVE HandlerInv(req[r])' /\ TxInv(r)'
  <2>1. HandlerInv(req[r]) /\ TxInv(r)
    BY DEF IInv
  <2> QED
    BY <2>1 DEF HandlerInv, TxInv
<1>3. AloneInv' /\ CheckedInv'
  BY DEF IInv, AloneInv, CheckedInv, Live
<1> QED
  BY <1>1, <1>2, <1>3 DEF IInv

\* At the start nothing is counted, and no item is before the first day.
LEMMA AgendaDaysInv == ASSUME IInv, AgendaDays PROVE IInv'
<1> DEFINE v == [NoView EXCEPT !.pc = "count", !.day = 1, !.total = TotalDays(event)]
<1>1. view' = v /\ UNCHANGED <<event, entry, req, tx, checked, mix>>
  BY DEF AgendaDays
<1>2. TotalDays(event) \in Int /\ TotalDays(event) <= Days
  BY TotalDaysType DEF IInv, TypeOK
<1>3. [i \in Agenda |-> 0] \in [Agenda -> 0..Days] /\ 1 \in 0..(Days + 1)
  BY BoundsAssumption
<1>4. /\ v \in View /\ v.pc = "count" /\ v.day = 1 /\ v.total = TotalDays(event)
      /\ v.counted = [i \in Agenda |-> 0] /\ v.touched = {}
  BY <1>2, <1>3 DEF NoView, View
<1> HIDE DEF v
<1>5. ASSUME NEW i \in Agenda PROVE ~ (Live(i)' /\ entry'[i].value < 1)
  <2>1. i \in Entries /\ i # NoEntry /\ entry[i].value \in 0..MaxValue
    BY IdsAssumption DEF IInv, TypeOK, Entries, EntryRow
  <2>2. entry[i].state = "live" => entry[i].value > 0
    BY <1>5 DEF IInv, TypeOK
  <2>3. ~ (entry[i].state = "live" /\ entry[i].value < 1)
    BY <2>1, <2>2, BoundsAssumption
  <2> QED
    BY <1>1, <2>1, <2>3 DEF Live
<1>6. ViewInv'
  BY <1>1, <1>2, <1>4, <1>5 DEF ViewInv
<1> QED
  BY <1>1, <1>4, <1>6, OverviewStep

\* A day is counted, or all have been.
LEMMA CountDayInv == ASSUME IInv, CountDay PROVE IInv'
<1>1. /\ view.pc = "count" /\ view \in View /\ UNCHANGED <<event, entry, req, tx, checked, mix>>
      /\ view.day \in Nat /\ view.total \in Int /\ view.total <= Days
      /\ view.day >= 1 /\ (view.day = 1 \/ view.day <= view.total + 1)
      /\ view.counted \in [Agenda -> 0..Days] /\ view.touched \subseteq Agenda
  BY BoundsAssumption DEF CountDay, IInv, TypeOK, ViewInv, View
<1>2. CASE view.day > view.total
  <2> DEFINE v == [view EXCEPT !.pc = "done"]
  <2>1. view' = v
    BY <1>2 DEF CountDay
  <2>2. /\ v \in View /\ v.pc = "done" /\ v.day = view.day /\ v.total = view.total
        /\ v.counted = view.counted /\ v.touched = view.touched
    BY <1>1 DEF View
  <2> HIDE DEF v
  <2>3. ViewInv'
    BY <1>1, <1>2, <2>1, <2>2 DEF IInv, ViewInv, Live
  <2> QED
    BY <1>1, <2>1, <2>2, <2>3, OverviewStep
<1>3. CASE ~ (view.day > view.total)
  <2> DEFINE One(i) == IF Live(i) /\ entry[i].value = view.day THEN 1 ELSE 0
             c == [i \in Agenda |-> view.counted[i] + One(i)]
             v == [view EXCEPT !.day = view.day + 1, !.counted = c]
  <2>1. view' = v
    BY <1>3 DEF CountDay
  <2>2. ASSUME NEW i \in Agenda
        PROVE  /\ c[i] \in 0..Days /\ c[i] < view.day + 1
               /\ i \notin view.touched =>
                    c[i] = IF Live(i) /\ entry[i].value < view.day + 1 THEN 1 ELSE 0
    <3>1. view.counted[i] < view.day /\ view.counted[i] \in 0..Days
      BY <1>1 DEF IInv, ViewInv
    <3>2. entry[i].value \in Nat
      BY BoundsAssumption DEF IInv, TypeOK, Entries, EntryRow
    <3>3. c[i] = view.counted[i] + One(i)
      OBVIOUS
    <3>4. i \notin view.touched =>
            view.counted[i] = IF Live(i) /\ entry[i].value < view.day THEN 1 ELSE 0
      BY <1>1 DEF IInv, ViewInv
    <3> HIDE DEF c
    <3>5. One(i) \in {0, 1}
      OBVIOUS
    <3>6. c[i] \in 0..Days /\ c[i] < view.day + 1
      <4> HIDE DEF One
      <4> QED
        BY <1>1, <1>3, <3>1, <3>3, <3>5, BoundsAssumption
    <3> QED
      BY <1>1, <3>2, <3>3, <3>4, <3>6
  <2>3. c \in [Agenda -> 0..Days] /\ view.day + 1 \in 0..(Days + 1)
    <3>1. c \in [Agenda -> 0..Days]
      BY <2>2
    <3> QED
      BY <1>1, <1>3, <3>1, BoundsAssumption
  <2> HIDE DEF c
  <2>4. /\ v \in View /\ v.pc = "count" /\ v.day = view.day + 1 /\ v.total = view.total
        /\ v.counted = c /\ v.touched = view.touched
    BY <1>1, <2>3 DEF View
  <2> HIDE DEF v
  <2>5. \A i \in Agenda : Live(i)' <=> Live(i)
    BY <1>1 DEF Live
  <2>6. v.day >= 1 /\ v.day <= v.total + 1
    BY <1>1, <1>3, <2>4
  <2>7. ViewInv'
    BY <1>1, <2>1, <2>2, <2>4, <2>5, <2>6 DEF ViewInv
  <2> QED
    BY <1>1, <2>1, <2>4, <2>7, OverviewStep
<1> QED
  BY <1>2, <1>3

\* Every step keeps the invariant.
LEMMA NextInv == ASSUME IInv, [Next]_vars PROVE IInv'
<1>1. ASSUME NEW r \in Requests, Arrive(r) PROVE IInv'
  BY <1>1, CreateEventInv, EventRequestInv, CreateEntryInv, EntryRequestInv DEF Arrive
<1>2. ASSUME NEW r \in Requests, Commit(r) PROVE IInv'
  <2>1. tx[r].written /\ tx' = [tx EXCEPT ![r] = NoTx] /\ UNCHANGED mix
    BY <1>2 DEF Commit
  <2> QED
    BY <1>2, <2>1, CommitEventInv, CommitEntryInv DEF Commit
<1>3. ASSUME NEW r \in Requests, Serve(r) \/ Crash(r), ~Commit(r) PROVE IInv'
  BY <1>3, CheckInv, WriteInv, AbandonInv DEF Serve, CommitNothing, CommitFails, Crash
<1>4. CASE AgendaDays \/ CountDay
  BY <1>4, AgendaDaysInv, CountDayInv
<1>5. CASE UNCHANGED vars
  <2>1. UNCHANGED <<event, entry, req, tx, checked, mix>> /\ UNCHANGED view
    BY <1>5 DEF vars
  <2>2. view' \in View /\ ViewInv'
    BY <2>1 DEF IInv, TypeOK, ViewInv, Live
  <2> QED
    BY <2>1, <2>2, OverviewStep
<1> QED
  BY <1>1, <1>2, <1>3, <1>4, <1>5 DEF Next

-----------------------------------------------------------------------------
(* The results. *)

\* The inductive invariant holds in every reachable state.
THEOREM Invariance == Spec => []IInv
BY InitInv, NextInv, PTL DEF Spec

\* The day of a live item that was checked against the dates as they are is one
\* of the event's days, and every variable has its type.
THEOREM CheckedDaysHold == Spec => []CheckedDaysAreInRange
<1>1. IInv => CheckedDaysAreInRange
  BY DEF IInv, CheckedInv, CheckedDaysAreInRange
<1> QED
  BY <1>1, Invariance, PTL

\* The overview counts every item that was left alone once, or never if its day
\* is not one of the event's.
THEOREM OverviewIsExact == Spec => []OverviewCountsOnce
<1>1. ASSUME IInv PROVE OverviewCountsOnce
  <2>1. SUFFICES ASSUME view.pc = "done", NEW i \in Agenda \ view.touched
                 PROVE  view.counted[i] =
                          IF Live(i) /\ entry[i].value <= view.total THEN 1 ELSE 0
    BY DEF OverviewCountsOnce
  <2>2. /\ view.counted[i] = IF Live(i) /\ entry[i].value < view.day THEN 1 ELSE 0
        /\ view.day > view.total /\ (view.day = 1 \/ view.day <= view.total + 1)
    BY <1>1, <2>1 DEF IInv, ViewInv
  <2>3. /\ view.day \in Nat /\ view.total \in Int /\ i \in Entries /\ i # NoEntry
        /\ entry[i].value \in Nat /\ (entry[i].state = "live" => entry[i].value > 0)
    BY <1>1, <2>1, BoundsAssumption, IdsAssumption DEF IInv, TypeOK, View, Entries, EntryRow
  <2>4. entry[i].state = "live" => (entry[i].value < view.day <=> entry[i].value <= view.total)
    BY <2>2, <2>3
  <2> QED
    BY <2>2, <2>3, <2>4 DEF Live
<1> QED
  BY <1>1, Invariance, PTL

\* What the filters and the dashboard make of an event with two dates.
LEMMA FiltersCover ==
    ASSUME NEW e \in EventRow, Dated(e), NEW now \in Instants
    PROVE  /\ Today(e, now) \/ Upcoming(e, now) \/ Past(e, now)
           /\ IsHappeningNow(e, now) =>
                Today(e, now) /\ CurrentDay(e, now) \in 1..TotalDays(e)
           /\ CurrentEvent(e, now) <=> Status(e, now) = "happening_now"
           /\ UpcomingEvent(e, now) <=> Status(e, now) = "upcoming"
           /\ Status(e, now) = "past" => Today(e, now) \/ Past(e, now)
<1>1. /\ e.start \in Instants /\ e.end \in Instants /\ e.start # NoDate /\ e.end # NoDate
  BY EventFields DEF Dated, Dates
<1>2. /\ e.start \in Nat /\ e.end \in Nat /\ now \in Nat
      /\ DayStart(now) \in Nat /\ DayEnd(now) \in Nat
      /\ DayStart(now) <= now /\ now <= DayEnd(now)
  BY <1>1, DayOrder
<1>3. Today(e, now) \/ Upcoming(e, now) \/ Past(e, now)
  BY <1>1, <1>2 DEF Today, Upcoming, Past, Dated
<1>4. ASSUME IsHappeningNow(e, now)
      PROVE  Today(e, now) /\ CurrentDay(e, now) \in 1..TotalDays(e)
  <2>1. e.start <= now /\ now <= e.end
    BY <1>4 DEF IsHappeningNow
  <2>2. Today(e, now)
    BY <1>2, <2>1 DEF Today
  <2>3. Day(e.start) <= Day(now) /\ Day(now) <= Day(e.end)
    BY <1>1, <2>1, DayOrder
  <2>4. Day(e.start) \in Int /\ Day(now) \in Int /\ Day(e.end) \in Int
    BY <1>1, DayOrder
  <2>5. CurrentDay(e, now) = Day(now) - Day(e.start) + 1
    BY <1>2, <2>1 DEF CurrentDay
  <2>6. TotalDays(e) = Day(e.end) - Day(e.start) + 1
    BY DEF TotalDays
  <2> QED
    BY <2>2, <2>3, <2>4, <2>5, <2>6
<1>5. CurrentEvent(e, now) <=> Status(e, now) = "happening_now"
  BY <1>2 DEF CurrentEvent, Status
<1>6. UpcomingEvent(e, now) <=> Status(e, now) = "upcoming"
  BY <1>1, <1>2 DEF UpcomingEvent, Status
<1>7. Status(e, now) = "past" => Today(e, now) \/ Past(e, now)
  BY <1>1, <1>2 DEF Status, Today, Past
<1> QED
  BY <1>3, <1>4, <1>5, <1>6, <1>7

\* At every time of day an event with both dates is under one of the filters,
\* and the dashboard agrees with itself on what is current.
THEOREM FiltersAreComplete == Spec => []FiltersMissNoEvent
<1>1. IInv => FiltersMissNoEvent
  BY FiltersCover DEF IInv, TypeOK, FiltersMissNoEvent
<1> QED
  BY <1>1, Invariance, PTL

\* What a step does to the committed rows is one session's commit.
LEMMA RowsChange ==
    ASSUME IInv, [Next]_vars
    PROVE  \/ UNCHANGED <<event, entry>>
           \/ \E r \in Requests : tx[r].written /\ (CommitEvent(r) \/ CommitEntry(r))
<1>1. ASSUME NEW r \in Requests, Arrive(r) PROVE UNCHANGED <<event, entry>>
  BY <1>1 DEF Arrive, CreateEvent, UpdateEvent, DeleteEvent, CreateAgendaItem,
       UpdateAgendaItem, DeleteAgendaItem, CreateExpense, UpdateExpense, DeleteExpense,
       OnEntry, Receive
<1>2. ASSUME NEW r \in Requests, Serve(r) \/ Crash(r), ~Commit(r)
      PROVE  UNCHANGED <<event, entry>>
  BY <1>2 DEF Serve, Crash, ValidateAgenda, FindEntry, GetAgain, Write, CommitNothing,
       CommitFails, Abandon, Goto
<1>3. ASSUME NEW r \in Requests, Commit(r)
      PROVE  tx[r].written /\ (CommitEvent(r) \/ CommitEntry(r))
  BY <1>3 DEF Commit
<1>4. CASE AgendaDays \/ CountDay
  BY <1>4 DEF AgendaDays, CountDay
<1>5. CASE UNCHANGED vars
  BY <1>5 DEF vars
<1> QED
  BY <1>1, <1>2, <1>3, <1>4, <1>5 DEF Next

\* Nothing brings a deleted event or a deleted entry back, not even an update
\* that was in flight at the time.
THEOREM NothingComesBack == Spec => DeletedForGood
<1> DEFINE Good == /\ event.state = "deleted" => event'.state = "deleted"
                   /\ \A i \in Entries :
                        entry[i].state = "deleted" => entry'[i].state = "deleted"
<1>1. ASSUME IInv, [Next]_vars PROVE Good
  <2>1. CASE UNCHANGED <<event, entry>>
    BY <2>1
  <2>2. ASSUME NEW r \in Requests, tx[r].written, CommitEvent(r) PROVE Good
    <3>1. /\ req[r] \in Handler /\ HandlerInv(req[r])
          /\ event' = EventAfter(req[r], event) /\ UNCHANGED entry
      BY <1>1, <2>2, WrittenFields DEF CommitEvent
    <3>2. event \in EventRow
      BY <1>1 DEF IInv, TypeOK
    <3>3. req[r].op = "create_event" => event.state = "none"
      BY <3>1 DEF HandlerInv
    <3>4. req[r].op # "create_event" => event'.state \in {event.state, "deleted"}
      BY <3>1, <3>2, EventAfterType
    <3> QED
      BY <3>1, <3>3, <3>4
  <2>3. ASSUME NEW r \in Requests, tx[r].written, CommitEntry(r) PROVE Good
    <3> DEFINE i == req[r].id
               n == EntryAfter(req[r], entry[i])
    <3>1. /\ req[r] \in Handler /\ HandlerInv(req[r]) /\ i \in Entries
          /\ entry' = [entry EXCEPT ![i] = n] /\ UNCHANGED event
      BY <1>1, <2>3, WrittenFields DEF CommitEntry
    <3>2. entry \in [Entries -> EntryRow]
      BY <1>1 DEF IInv, TypeOK
    <3>3. req[r].op \in CreateOps => entry[i].state = "none"
      BY <3>1 DEF HandlerInv
    <3>4. req[r].op \notin CreateOps => n.state \in {entry[i].state, "deleted"}
      BY <3>1, <3>2, EntryAfterType
    <3>5. entry[i].state = "deleted" => n.state = "deleted"
      BY <3>3, <3>4
    <3> HIDE DEF n, i
    <3> QED
      BY <3>1, <3>2, <3>5
  <2> QED
    BY <1>1, <2>1, <2>2, <2>3, RowsChange
<1>2. IInv /\ [Next]_vars => [Good]_<<event, entry>>
  BY <1>1
<1> QED
  BY <1>2, Invariance, PTL DEF Spec, DeletedForGood

\* An update that names both dates, on dates that are as its session read them,
\* leaves the event with its end after its start.
THEOREM UpdatesOrderDates == Spec => UpdatesKeepDatesOrdered
<1> DEFINE Ordered == \A r \in Requests :
        /\ req[r].op = "update_event" /\ NoDate \notin {req[r].form[1], req[r].form[2]}
        /\ tx[r].written /\ event' # event /\ event' = tx[r].event
        /\ ~req[r].stale
        => event'.start < event'.end
<1>1. ASSUME IInv PROVE Ordered
  <2> SUFFICES ASSUME NEW r \in Requests, req[r].op = "update_event",
                      NoDate \notin {req[r].form[1], req[r].form[2]},
                      tx[r].written, event' = tx[r].event, ~req[r].stale
               PROVE  event'.start < event'.end
    OBVIOUS
  <2> DEFINE h == req[r]
             e == EventAfter(h, event)
  <2>1. /\ h \in Handler /\ HandlerInv(h) /\ event \in EventRow
        /\ event' = e /\ h.op = "update_event"
    BY <1>1, WrittenFields DEF IInv, TypeOK, HandlerInv, EventOps
  <2>2. SameDates(h.loaded, event) /\ EndAfterStart(h.form)
    BY <2>1 DEF HandlerInv
  <2>3. e = [event EXCEPT !.start = Column(h.form[1], NoDate, h.loaded.start, event.start),
                          !.end = Column(h.form[2], NoDate, h.loaded.end, event.end)]
    BY <2>1 DEF EventAfter
  <2>4. /\ Column(h.form[1], NoDate, h.loaded.start, event.start) = h.form[1]
        /\ Column(h.form[2], NoDate, h.loaded.end, event.end) = h.form[2]
    BY <2>2 DEF Column, SameDates
  <2>5. h.form[1] < h.form[2]
    BY <2>1, <2>2, HandlerFields DEF EndAfterStart
  <2> HIDE DEF e
  <2>6. e.start = h.form[1] /\ e.end = h.form[2]
    BY <2>1, <2>3, <2>4 DEF EventRow
  <2> QED
    BY <2>1, <2>5, <2>6
<1>2. IInv /\ [Next]_vars => [Ordered]_event
  BY <1>1
<1> QED
  BY <1>2, Invariance, PTL DEF Spec, UpdatesKeepDatesOrdered

=============================================================================
