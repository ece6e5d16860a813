------------------------------- MODULE Monitor -------------------------------
(***************************************************************************)
(* The monitor process of one account (monitor.rs).  Every poll looks at   *)
(* what it can see from outside, the market feed, the order database of    *)
(* the account, the positions Exec reports and the targets in Redis, and   *)
(* turns it into issues.  A tracker turns issues into notices: an alert    *)
(* once an issue lasted long enough, again every so often, and a recovery  *)
(* when it is gone.  Notices go to two channels, each acknowledged or not. *)
(* Several accounts differ only in the scope of their keys.                *)
(*                                                                         *)
(* Times are in ticks; quantities are integers, Tolerance and the price of *)
(* a position are per thousand.                                            *)
(***************************************************************************)
EXTENDS Integers, FiniteSets, FiniteSetsExt

CONSTANTS Venues, MarketSymbols,   \* watched feeds; no symbols: any will do
          Feeds,                   \* [venue, symbol] that may be received
          Orders, Views, Books,    \* what databases, Exec and Redis may show
          MarketStale, OrderStale, PositionStale, NotReady, Grace, Repeat,
          Tolerance, Residual, Interval, Quiet,
          MaxClock, MaxChanges

VARIABLES now,
          received,   \* when each feed last delivered
          orders,     \* the newest records of the order database
          view,       \* the snapshot Exec serves
          book,       \* the targets read from Redis
          notReady,   \* since when Exec says its positions are not ready
          tracker,    \* AlertTracker, by key
          pending,    \* notices of this poll still to be sent
          slot,       \* heartbeat slot handled last, by channel
          said,       \* unresolved issues the last heartbeat spoke of
          told,       \* keys a channel acknowledged an alert of, and no recovery
          changes     \* bounded by MaxChanges

monitorVars == <<now, received, orders, view, book, notReady, tracker, pending,
                 slot, said, told, changes>>

Channels == {"market", "order"}
Channel(key) == IF key[1] = "market" THEN "market" ELSE "order"
Failed == [ok |-> FALSE]
Fresh == [active |-> FALSE, visible |-> FALSE, first |-> 0, sent |-> 0]
AbsOf(n) == IF n < 0 THEN -n ELSE n
MostOf(S) == IF S = {} THEN 0 ELSE Max(S)
Issue(category, kind, of, delay) == [key |-> <<category, kind, of>>, delay |-> delay]

----------------------------------------------------------------------------
(* What a poll finds. *)

\* No watched symbol of the venue was received for too long.
MarketIssues ==
    {Issue("market", "bbo", v, 0) : v \in {v \in Venues :
        LET watched == {f \in Feeds : f[1] = v /\ (MarketSymbols = {} \/ f[2] \in MarketSymbols)}
        IN /\ MarketSymbols = {} \/ watched # {}
           /\ \A f \in watched : received[f] = 0 \/ now - received[f] > MarketStale}}

\* The latest event of each order, unless some record says the order is over.
Latest == {e \in orders.events : \A f \in orders.events : f.id = e.id => f.at <= e.at}
Over(id) == \E u \in orders.updates : u.id = id /\ u.terminal
Activity(id) == MostOf({e.at : e \in {e \in orders.events : e.id = id}}
                       \cup {u.at : u \in {u \in orders.updates : u.id = id}})
OrderIssues ==
    IF ~orders.ok THEN {Issue("orders", "rocksdb", "", 0), Issue("orders", "no column family", "", 0)}
    ELSE LET live == {e \in Latest : e.status # "terminal" /\ ~Over(e.id)}
         IN {Issue("orders", "decode", "", 0) : b \in {b \in {orders.bad} : b > 0}}
            \cup {Issue("orders", "unknown", e.id, 0) : e \in {e \in live : e.status = "unknown"}}
            \cup {Issue("orders", "stale", e.id, 0) :
                    e \in {e \in live : now - Activity(e.id) > OrderStale}}

ViewFresh == view.ok /\ view.at > 0 /\ now - view.at <= PositionStale
Rows(symbol) == {i \in DOMAIN view.rows : view.rows[i].symbol = symbol}
Sum(rows, field) == MapThenSumSet(LAMBDA i : MapThenSumSet(AbsOf, view.rows[i][field]), rows)
\* Options are sets of at most one quantity.
Close(gap, scale) == 1000 * AbsOf(gap) <= Tolerance * Max({scale, 1})

\* Redis has a target of the strategy, published long enough ago, that Exec does
\* not show: no row, an older one, or another quantity.  A ready snapshot taken
\* after the publish need not show a zero.
Unapplied(s) ==
    \E symbol \in DOMAIN book.strategies[s].targets :
        LET wanted == book.strategies[s].targets[symbol]
            rows == {i \in Rows(symbol) : view.rows[i].strategy = s}
        IN IF rows = {}
           THEN wanted # 0 \/ ~view.own \/ view.at < book.strategies[s].at
           ELSE \E i \in rows :
                   \/ view.rows[i].updated < book.strategies[s].at
                   \/ \A q \in view.rows[i].target :
                         ~Close(q - wanted, Max({AbsOf(q), AbsOf(wanted)}))
ConfigIssues ==
    {Issue("position", "not applied", s, 0) : s \in {s \in DOMAIN book.strategies :
        now - book.strategies[s].at >= Grace /\ Unapplied(s)}}

Targeted == UNION {DOMAIN book.strategies[n].targets : n \in DOMAIN book.strategies}
Target(symbol) ==
    MapThenSumSet(LAMBDA s : book.strategies[s].targets[symbol],
                  {s \in DOMAIN book.strategies : symbol \in DOMAIN book.strategies[s].targets})

\* What the account holds: the first row of the symbol that says so.  A later
\* one that differs is an issue of its own.
Saying(symbol) == {i \in Rows(symbol) : view.rows[i].account # {}}
Quantity(symbol) == IF Saying(symbol) = {} THEN {} ELSE view.rows[Min(Saying(symbol))].account
Conflicting(symbol) ==
    \E i \in Saying(symbol) : \A q \in Quantity(symbol) :
        1000 * AbsOf(Max(view.rows[i].account) - q) > Tolerance

\* The part of a gap that rows completed with dust account for.
Dust(symbol) ==
    MapThenSumSet(LAMBDA i : Max(view.rows[i].target) - Max(view.rows[i].current),
                  {i \in Rows(symbol) : view.rows[i].complete /\ view.rows[i].dust})
\* The gap is not worth Residual at the price the rows imply.
Cheap(symbol, gap) ==
    LET valued == {i \in Rows(symbol) : view.rows[i].usdt # {}}
    IN Sum(valued, "current") > 0
       /\ AbsOf(gap) * Sum(valued, "usdt") <= Residual * Sum(valued, "current")
\* Exec said when it would be done, or the symbol moved a moment ago.
Scheduled(symbol) ==
    view.ready /\ \E i \in Rows(symbol) :
        ~view.rows[i].complete /\ view.rows[i].until > 0 /\ now <= view.rows[i].until + Grace
Settling(symbol) ==
    LET last == MostOf({view.rows[i].updated : i \in Rows(symbol)})
    IN last > 0 /\ now - last <= Grace

Explained(symbol, quantity) ==
    LET Gap(gap, scale) ==
            \/ Close(gap, scale) \/ Cheap(symbol, gap)
            \/ ~Close(Sum(Rows(symbol), "live"), scale)
            \/ Close(gap - Dust(symbol), scale)
            \/ Scheduled(symbol) \/ Settling(symbol)
    IN \E target \in {Target(symbol)} :
           Gap(target - quantity, Max({AbsOf(target), AbsOf(quantity)}))

Symbols == {view.rows[i].symbol : i \in DOMAIN view.rows}
PositionIssues ==
    IF ~ViewFresh THEN {Issue("position", "stale", "", 0)}
    ELSE {Issue("position", "another source", "", 0) : v \in {v \in {view} : ~v.own}}
         \cup {Issue("position", "quantities", s, 0) : s \in {s \in Symbols : Conflicting(s)}}
         \cup IF ~book.ok THEN {} ELSE
         (IF view.ready THEN ConfigIssues ELSE {})
         \cup {Issue("position", "missing", s, Grace) :
                 s \in {s \in Targeted : Target(s) # 0 /\ Quantity(s) = {}}}
         \cup {Issue("position", "account", s, Grace) :
                 s \in {s \in Symbols : \E q \in Quantity(s) : ~Explained(s, q)}}

SourceIssues ==
    OrderIssues
    \cup {Issue("position", "redis", "", 0) : b \in {b \in {book} : ~b.ok}}
    \cup IF view.ok THEN PositionIssues ELSE {Issue("position", "snapshot", "", 0)}

\* Since when positions are not ready, as seen in fresh snapshots only.
NotReadySince == IF ~ViewFresh \/ ~view.own \/ view.ready THEN 0
                 ELSE IF notReady = 0 THEN now ELSE notReady
ReadyIssues == {Issue("position", "not ready", "", 0) : s \in
                    {s \in {NotReadySince} : s > 0 /\ now - s > NotReady}}

Issues == MarketIssues \cup SourceIssues \cup ReadyIssues

----------------------------------------------------------------------------
(* Time and the world. *)

\* What may be seen outside; ages count back from the moment it appears.
Dated(v) == IF ~v.ok THEN v
            ELSE [v EXCEPT !.at = now - @, !.rows = [i \in DOMAIN @ |->
                     [@[i] EXCEPT !.updated = now - @, !.until = IF @ = 0 THEN 0 ELSE now + @]]]
DatedBook(b) == IF ~b.ok THEN b
                ELSE [b EXCEPT !.strategies = [s \in DOMAIN @ |-> [@[s] EXCEPT !.at = now - @]]]

MonitorInit ==
    /\ now = 1
    /\ received = [f \in Feeds |-> 1]
    /\ orders = [ok |-> TRUE, bad |-> 0, events |-> {}, updates |-> {}]
    /\ view \in {Dated(v) : v \in Views}
    /\ book \in {DatedBook(b) : b \in Books}
    /\ notReady = 0
    /\ tracker = <<>>
    /\ pending = [c \in Channels |-> {}]
    /\ slot = [c \in Channels |-> 1 \div Interval]
    /\ said = [c \in Channels |-> 0]
    /\ told = {}
    /\ changes = 0

World == <<received, orders, view, book>>
Watch == <<notReady, tracker, pending, slot, said, told>>

Tick ==
    /\ now < MaxClock
    /\ now' = now + 1
    /\ UNCHANGED <<World, Watch, changes>>

Change ==
    /\ changes < MaxChanges /\ changes' = changes + 1
    /\ \/ /\ \E f \in Feeds : received' = [received EXCEPT ![f] = now]
          /\ UNCHANGED <<orders, view, book>>
       \/ orders' \in Orders /\ UNCHANGED <<received, view, book>>
       \/ view' \in {Dated(v) : v \in Views} /\ UNCHANGED <<received, orders, book>>
       \/ book' \in {DatedBook(b) : b \in Books} /\ UNCHANGED <<received, orders, view>>
    /\ UNCHANGED <<now, Watch>>

----------------------------------------------------------------------------
(* The tracker. *)

Tracked(key) == IF key \in DOMAIN tracker THEN tracker[key] ELSE Fresh
\* An issue that is there: it is seen once it lasted its delay.
Present(issue) ==
    LET old == Tracked(issue.key)
        first == IF old.active THEN old.first ELSE now
    IN [active |-> TRUE, visible |-> now - first >= issue.delay, first |-> first,
        sent |-> old.sent]
\* An issue that is gone: forgotten when nobody was told.
Gone(key) == IF tracker[key].active /\ tracker[key].sent = 0 THEN Fresh ELSE tracker[key]
AlertDue(state) == state.visible /\ (state.sent = 0 \/ now - state.sent >= Repeat)

\* One poll: what it finds, what the tracker makes of it, what is to be sent.
Poll ==
    /\ \A c \in Channels : pending[c] = {}
    /\ notReady' = NotReadySince
    /\ \E issues \in {Issues} :
        LET keys == {i.key : i \in issues}
            IssueOf(key) == CHOOSE i \in issues : i.key = key
        IN /\ tracker' = [key \in keys \cup DOMAIN tracker |->
                            IF key \in keys THEN Present(IssueOf(key)) ELSE Gone(key)]
           /\ pending' = [c \in Channels |->
                {[key |-> k, recovery |-> FALSE] : k \in {k \in keys :
                    Channel(k) = c /\ AlertDue(Present(IssueOf(k)))}}
                \cup {[key |-> k, recovery |-> TRUE] : k \in {k \in DOMAIN tracker \ keys :
                    Channel(k) = c /\ tracker[k].active /\ tracker[k].sent # 0}}]
    /\ UNCHANGED <<now, World, slot, said, told, changes>>

\* Fault: an acknowledged channel settles the notices of both.
AcknowledgedBoth(c) == UNION {pending[d] : d \in Channels}
Acknowledged(c) == pending[c]

Marked(notices) ==
    [key \in DOMAIN tracker |->
        IF [key |-> key, recovery |-> TRUE] \in notices THEN Fresh
        ELSE IF [key |-> key, recovery |-> FALSE] \in notices
             THEN [tracker[key] EXCEPT !.active = TRUE, !.sent = now]
        ELSE tracker[key]]

\* A channel after its attempts: acknowledged, or nothing is known and the
\* notices wait for the next poll.  The market channel goes first.
Send(c) ==
    /\ pending[c] # {}
    /\ c = "order" => pending["market"] = {}
    /\ \/ /\ tracker' = Marked(Acknowledged(c))
          /\ told' = (told \ {n.key : n \in {n \in pending[c] : n.recovery}})
                     \cup {n.key : n \in {n \in pending[c] : ~n.recovery}}
       \/ UNCHANGED <<tracker, told>>
    /\ pending' = [pending EXCEPT ![c] = {}]
    /\ UNCHANGED <<now, World, notReady, slot, said, changes>>

\* A slot is consumed in the quiet window, and by a beat that fails, too.
Unresolved(c) == Cardinality({k \in DOMAIN tracker :
                                 Channel(k) = c /\ tracker[k].active /\ tracker[k].visible})
Heartbeats ==
    /\ \A c \in Channels : pending[c] = {} /\ now \div Interval # slot[c]
    /\ slot' = [c \in Channels |-> now \div Interval]
    /\ \E sent \in SUBSET (IF now \in Quiet THEN {} ELSE Channels) :
          said' = [c \in Channels |-> IF c \in sent THEN Unresolved(c) ELSE said[c]]
    /\ UNCHANGED <<now, World, notReady, tracker, pending, told, changes>>

MonitorNext ==
    \/ Tick \/ Change \/ Poll
    \/ \E c \in Channels : Send(c)
    \/ Heartbeats

----------------------------------------------------------------------------

MonitorTypeOK ==
    /\ now \in 1..MaxClock /\ notReady \in 0..MaxClock
    /\ \A k \in DOMAIN tracker : tracker[k] \in
          [active : BOOLEAN, visible : BOOLEAN, first : 0..MaxClock, sent : 0..MaxClock]
    /\ \A c \in Channels : \A n \in pending[c] :
          Channel(n.key) = c /\ n.key \in DOMAIN tracker /\ n.recovery \in BOOLEAN
    /\ told \subseteq DOMAIN tracker

(* The tracker believes an alert was delivered exactly when a channel         *)
(* acknowledged one and no recovery since: an alert that got lost is sent     *)
(* again although the other channel works, and an issue whose alert arrived   *)
(* stays until its recovery arrived as well (monitor.rs pending, mark_sent).  *)
TrackedAsTold ==
    \A k \in DOMAIN tracker : k \in told <=> (tracker[k].sent # 0 /\ tracker[k].active)
=============================================================================
