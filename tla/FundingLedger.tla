---------------------------- MODULE FundingLedger ----------------------------
(***************************************************************************)
(* The funding-income ledger of one account (src/src/funding.rs) and the   *)
(* collector that fills it (src/src/web.rs).  Every symbol has a cursor in *)
(* PostgreSQL; a poll fetches one bounded window per symbol and stores its *)
(* income together with the advanced cursor.  The exchange publishes a     *)
(* settlement up to Replay ticks after its time, so a cursor that has      *)
(* caught up replays that much; a cursor that is behind does not.          *)
(*                                                                         *)
(* Order history found later may begin earlier: it moves the start of the  *)
(* account and reopens the cursors of the symbols concerned.               *)
(***************************************************************************)
EXTENDS Integers, FiniteSets

CONSTANTS Symbols,
          Settlements,   \* <<symbol, time>> of every funding settlement
          FirstOrders,   \* times at which local order history may begin
          Replay,        \* ticks a caught-up cursor replays (24 hours)
          Window,        \* ticks one request window spans (7 days)
          Retention,     \* ticks the exchange keeps income (89 days)
          Refresh,       \* ticks between two polls that count as current
          Addresses,     \* fixed addresses the process may be configured with
          MaxClock       \* bound of the clock

VARIABLES now,          \* the clock of the host
          published,    \* settlements the exchange answers with
          orders,       \* first local order of each symbol, 0 when it has none
          start,        \* cta_funding_accounts.start_ts_us, 0 when absent
          cursors,      \* cta_funding_symbols
          income,       \* cta_funding_income
          settings,     \* the account's switch and the address it was tested on
          address,      \* the fixed address of this process
          summary,      \* what the dashboard shows of the account
          poll          \* the poll under way
fundingVars == <<now, published, orders, start, cursors, income, settings,
                 address, summary, poll>>

None == 0
Asleep == [at |-> "idle", todo |-> {}, failed |-> FALSE, symbol |-> "none",
           through |-> 0, rows |-> {}]
Earlier(a, b) == IF a < b THEN a ELSE b
Later(a, b) == IF a > b THEN a ELSE b

FundingInit ==
    /\ now = 1 /\ published = {} /\ income = {}
    /\ orders = [s \in Symbols |-> 0]
    /\ start = 0
    /\ cursors = [s \in Symbols |-> [start |-> 0, through |-> None]]
    /\ settings = [enabled |-> FALSE, tested |-> "none"]
    /\ address \in Addresses
    /\ summary = [status |-> "disabled", through |-> None]
    /\ poll = Asleep

Registered(rows) == {s \in Symbols : rows[s].start # 0}
Coverage(rows) ==
    IF \E s \in Registered(rows) : rows[s].through = None THEN None
    ELSE IF Registered(rows) = {} THEN None
    ELSE CHOOSE t \in {rows[s].through : s \in Registered(rows)} :
            \A s \in Registered(rows) : t <= rows[s].through

\* reload: income and progress from one committed view of the ledger.
Reloaded(rows, success) ==
    [through |-> Coverage(rows),
     status |->
        IF ~settings.enabled THEN "disabled"
        ELSE IF Registered(rows) = {} THEN "waiting_for_symbols"
        ELSE IF success /\ Coverage(rows) >= now - Refresh THEN "ok"
        ELSE "backfilling"]

----------------------------------------------------------------------------
(* The switch of the account. *)

\* Enabling asks the exchange from the fixed address first; any saved setting
\* wakes the collector, which cancels the poll under way.
SaveSettings(enabled, tested) ==
    /\ enabled /\ ~settings.enabled => tested
    /\ settings' = [enabled |-> enabled,
                    tested |-> IF enabled /\ ~settings.enabled
                               THEN address ELSE settings.tested]
    /\ summary' = [summary EXCEPT !.status =
                      IF enabled THEN "loading" ELSE "disabled"]
    /\ poll' = Asleep
    /\ UNCHANGED <<now, published, orders, start, cursors, income, address>>

\* The process starts again, perhaps configured with another address.
Restart(configured) ==
    /\ address' = configured
    /\ summary' = Reloaded(cursors, FALSE)
    /\ poll' = Asleep
    /\ UNCHANGED <<now, published, orders, start, cursors, income, settings>>

----------------------------------------------------------------------------
(* One poll. *)

Failed == /\ summary' = [summary EXCEPT !.status = "error"]
          /\ poll' = Asleep

\* reconcile_order_history: earlier history moves the starts back and reopens
\* the cursors it moves.
AccountStart ==
    LET times == {orders[s] : s \in Symbols} \ {0}
        first == CHOOSE t \in times : \A u \in times : t <= u
    IN  IF times = {} THEN start
        ELSE IF start = 0 THEN first ELSE Earlier(start, first)
\* Fault: an earlier start keeps the cursor.
MovedBack(row, first) ==
    IF row.start = 0 THEN [start |-> first, through |-> None]
    ELSE IF first < row.start THEN [row EXCEPT !.start = first]
    ELSE row

Reopened(row, first) ==
    IF row.start = 0 THEN [start |-> first, through |-> None]
    ELSE IF first < row.start THEN [start |-> first, through |-> None]
    ELSE row
Reconciled ==
    [s \in Symbols |-> IF orders[s] = 0 THEN cursors[s]
                       ELSE Reopened(cursors[s], Later(AccountStart, orders[s]))]

BeginPoll ==
    /\ poll.at = "idle" /\ settings.enabled
    /\ IF settings.tested # address
       THEN Failed /\ UNCHANGED <<start, cursors>>
       ELSE /\ start' = AccountStart
            /\ IF AccountStart = 0
               THEN /\ summary' = [summary EXCEPT !.status = "waiting_for_symbols"]
                    /\ UNCHANGED <<cursors, poll>>
               ELSE /\ cursors' = Reconciled
                    /\ summary' = Reloaded(Reconciled, FALSE)
                    /\ poll' = [Asleep EXCEPT !.at = "symbols",
                                              !.todo = Registered(Reconciled)]
    /\ UNCHANGED <<now, published, orders, income, settings, address>>

\* Fault: no replay, the window begins after the cursor.
FromCursor(row) ==
    IF row.through = None THEN row.start ELSE row.through + 1

\* sync_window: only a cursor that is close to now replays the latest day.
From(row) ==
    IF row.through = None THEN row.start
    ELSE IF row.through >= now - 2 * Replay
         THEN Later(row.start, row.through - Replay)
         ELSE row.through + 1
SyncWindow(row) ==
    <<From(row), Earlier(From(row) + Window - 1, now - 1)>>

\* Cursors are served oldest first, one that was never synced before all.
Next(s) == \A t \in poll.todo : cursors[s].through <= cursors[t].through

\* sync_symbol up to its last page.
Fetch(s) ==
    LET window == SyncWindow(cursors[s]) IN
    /\ poll.at = "symbols" /\ s \in poll.todo /\ Next(s)
    /\ poll' = IF window[2] < window[1]
               THEN [poll EXCEPT !.todo = @ \ {s}]
               ELSE IF window[1] < now - Retention
               THEN [poll EXCEPT !.todo = @ \ {s}, !.failed = TRUE]
               ELSE [poll EXCEPT !.at = "fetched", !.symbol = s,
                        !.todo = @ \ {s}, !.through = window[2],
                        !.rows = {e \in published :
                          e[1] = s /\ e[2] \in window[1]..window[2]}]
    /\ UNCHANGED <<now, published, orders, start, cursors, income, settings,
                   address, summary>>

\* A request is refused, a page repeats a transaction or the total changes.
FetchFails(s) ==
    /\ poll.at = "symbols" /\ s \in poll.todo /\ Next(s)
    /\ SyncWindow(cursors[s])[1] <= SyncWindow(cursors[s])[2]
    /\ poll' = [poll EXCEPT !.todo = @ \ {s}, !.failed = TRUE]
    /\ UNCHANGED <<now, published, orders, start, cursors, income, settings,
                   address, summary>>

\* persist_chunk: the income and the cursor in one transaction, then reload.
Persist ==
    LET synced == [cursors EXCEPT ![poll.symbol].through = Later(@, poll.through)] IN
    /\ poll.at = "fetched"
    /\ income' = income \union poll.rows
    /\ cursors' = synced
    /\ summary' = Reloaded(synced, FALSE)
    /\ poll' = [Asleep EXCEPT !.at = "symbols", !.todo = poll.todo,
                              !.failed = poll.failed]
    /\ UNCHANGED <<now, published, orders, start, settings, address>>

PersistFails ==
    /\ poll.at = "fetched"
    /\ poll' = [Asleep EXCEPT !.at = "symbols", !.todo = poll.todo, !.failed = TRUE]
    /\ UNCHANGED <<now, published, orders, start, cursors, income, settings,
                   address, summary>>

EndPoll ==
    /\ poll.at = "symbols" /\ poll.todo = {}
    /\ IF poll.failed
       THEN summary' = [Reloaded(cursors, FALSE) EXCEPT !.status = "error"]
       ELSE summary' = Reloaded(cursors, TRUE)
    /\ poll' = Asleep
    /\ UNCHANGED <<now, published, orders, start, cursors, income, settings,
                   address>>

----------------------------------------------------------------------------
(* The exchange, the order history and time. *)

Publish(e) ==
    /\ e \in Settlements \ published /\ e[2] <= now
    /\ published' = published \union {e}
    /\ UNCHANGED <<now, orders, start, cursors, income, settings, address,
                   summary, poll>>

\* The NAV history of the account shows the first order of a symbol.
Discover(s, first) ==
    /\ first <= now /\ (orders[s] = 0 \/ first < orders[s])
    /\ orders' = [orders EXCEPT ![s] = first]
    /\ UNCHANGED <<now, published, start, cursors, income, settings, address,
                   summary, poll>>

\* External to the code: a settlement is published within Replay, and neither
\* a request nor the collector is held up so long that a cursor which had
\* caught up falls out of the replayed window.
Punctual ==
    /\ \A e \in Settlements \ published : now < e[2] + Replay
    /\ \A s \in Symbols :
          cursors[s].through # None => cursors[s].through # now - 2 * Replay
    /\ poll.at = "fetched" => poll.through # now - 2 * Replay
Tick ==
    /\ now < MaxClock /\ Punctual
    /\ now' = now + 1
    /\ UNCHANGED <<published, orders, start, cursors, income, settings, address,
                   summary, poll>>

FundingNext ==
    \/ \E enabled, tested \in BOOLEAN : SaveSettings(enabled, tested)
    \/ \E a \in Addresses : Restart(a)
    \/ BeginPoll \/ Persist \/ PersistFails \/ EndPoll \/ Tick
    \/ \E s \in Symbols : Fetch(s) \/ FetchFails(s)
    \/ \E e \in Settlements : Publish(e)
    \/ \E s \in Symbols, t \in FirstOrders : Discover(s, t)

FundingSpec == FundingInit /\ [][FundingNext]_fundingVars

----------------------------------------------------------------------------
(* Types: a registered symbol starts no earlier than the account, and is     *)
(* synced through a time that has passed.                                    *)
FundingTypeOK ==
    /\ now \in 1..MaxClock /\ income \subseteq published
    /\ published \subseteq Settlements
    /\ \A s \in Symbols :
          /\ orders[s] \in {0} \union FirstOrders
          /\ cursors[s].start # 0 => start # 0 /\ cursors[s].start >= start
          /\ cursors[s].through < now
    /\ settings.enabled => settings.tested \in Addresses
    /\ poll.at \in {"idle", "symbols", "fetched"}
    /\ summary.status \in {"disabled", "loading", "waiting_for_symbols",
                           "backfilling", "ok", "error"}

(* The cursor tells the truth: every settlement between the start of a symbol *)
(* and its cursor, less the replayed day, is in the ledger, whatever polls     *)
(* failed or were cancelled, however late it was published and whichever       *)
(* earlier history was found after the cursor had passed.                      *)
CursorIsComplete ==
    \A e \in Settlements :
        LET row == cursors[e[1]] IN
        row.start # 0 /\ e[2] \in row.start..(row.through - Replay) => e \in income
=============================================================================
