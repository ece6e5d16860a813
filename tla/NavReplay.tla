------------------------------ MODULE NavReplay ------------------------------
(***************************************************************************)
(* The FIFO ledger of src/src/nav.rs as a function of what it is given:    *)
(* fills in FIFO order, an opening position, ownership corrections         *)
(* (src/src/nav/allocation.rs).  One source with one linear market; prices *)
(* and quantities are integers.                                            *)
(*                                                                         *)
(* The account and every strategy have a ledger of their own, fed by the   *)
(* same fills.  A replay leaves a checkpoint of all ledgers at the first   *)
(* fill of every hour, from which later replays and queries start.         *)
(***************************************************************************)
EXTENDS Integers, Sequences, FiniteSets, SequencesExt, FiniteSetsExt

CONSTANTS Strategies,       \* named strategies
          InitialPosition,  \* owner of an opening known for the account only
          SystemClose,      \* what Exec closes for no strategy
          Unallocated,      \* what no named strategy explains
          Hour,             \* ticks between two checkpoints
          Minute            \* ticks of a minute bar

Owners == Strategies \union {InitialPosition, SystemClose}

Nothing == [ts |-> 0]                   \* no snapshot
Forever == 1000000

----------------------------------------------------------------------------
(* Lots. *)

EmptyFifo == [longs |-> <<>>, shorts |-> <<>>, realized |-> 0]

\* close_fifo: the oldest lots first; a lot that is used up leaves the queue.
Matched(lots, price, quantity, direction) ==
    FoldLeft(LAMBDA acc, lot :
                LET used == IF acc.left < lot.quantity THEN acc.left
                                                       ELSE lot.quantity IN
                [left |-> acc.left - used,
                 realized |-> acc.realized + direction * (price - lot.price) * used,
                 lots |-> IF used = lot.quantity THEN acc.lots
                          ELSE Append(acc.lots, [lot EXCEPT !.quantity = @ - used])],
             [left |-> quantity, realized |-> 0, lots |-> <<>>], lots)

Opposite(fifo, side) == IF side = "buy" THEN fifo.shorts ELSE fifo.longs
Lots(fifo, side, price, closed) ==
    LET same == IF side = "buy" THEN fifo.longs ELSE fifo.shorts IN
    IF closed.left = 0 THEN same
    ELSE Append(same, [price |-> price, quantity |-> closed.left])
AfterTrade(fifo, side, price, closed) ==
    [longs |-> IF side = "buy" THEN Lots(fifo, side, price, closed) ELSE closed.lots,
     shorts |-> IF side = "buy" THEN closed.lots ELSE Lots(fifo, side, price, closed),
     realized |-> fifo.realized + closed.realized]

\* apply_fill: the opposite lots are closed first, what is left is a new lot.
Traded(fifo, side, price, quantity) ==
    AfterTrade(fifo, side, price,
               Matched(Opposite(fifo, side), price, quantity,
                       IF side = "buy" THEN -1 ELSE 1))

Sum(lots, value(_)) == FoldLeft(LAMBDA sum, lot : sum + value(lot), 0, lots)
Quantity(fifo) == Sum(fifo.longs, LAMBDA lot : lot.quantity)
                  - Sum(fifo.shorts, LAMBDA lot : lot.quantity)
Floating(fifo, mark) ==
    Sum(fifo.longs, LAMBDA lot : (mark - lot.price) * lot.quantity)
    + Sum(fifo.shorts, LAMBDA lot : (lot.price - mark) * lot.quantity)

----------------------------------------------------------------------------
(* One ledger (VenueState) and its report. *)

EmptyVenue == [fifo |-> EmptyFifo, fees |-> 0, fills |-> 0]
Bought(fifo, quantity, price) ==
    IF quantity = 0 THEN fifo
    ELSE Traded(fifo, IF quantity > 0 THEN "buy" ELSE "sell", price,
                IF quantity > 0 THEN quantity ELSE -quantity)
Opened(quantity, price) ==
    [EmptyVenue EXCEPT !.fifo = Bought(EmptyFifo, quantity, price)]

\* An execution whose role is unknown is charged like a taker, a cross between
\* strategies of the account is free.
FeeRate(fees, role) ==
    CASE role = "maker" -> fees.maker
      [] role = "cross" -> 0
      [] OTHER -> fees.taker
Filled(venue, fill, fees) ==
    [fifo |-> Traded(venue.fifo, fill.side, fill.price, fill.quantity),
     fees |-> venue.fees + fill.price * fill.quantity * FeeRate(fees, fill.role),
     fills |-> venue.fills + 1]

Nav(venue, mark) ==
    venue.fifo.realized + Floating(venue.fifo, mark) - venue.fees

----------------------------------------------------------------------------
(* What a replay is prepared from (prepare_source_events).                  *)
(*   event:  key (event_ts and record key), ts (FIFO time), side, price,    *)
(*           quantity (0: not a fill), order, strategy, role                *)
(*   inputs: fees, the account's snapshot, the strategies' snapshot         *)

RoleOf(event, roles) ==
    IF event.role # "none" THEN event.role
    ELSE IF roles[event.order] # {} /\ Cardinality(roles[event.order]) = 1
         THEN CHOOSE role \in roles[event.order] : TRUE
    ELSE "unknown"

EarlierFill(a, b) == a.ts < b.ts \/ (a.ts = b.ts /\ a.key < b.key)
InFifoOrder(fills) == SetToSortSeq(fills, EarlierFill)

\* The strategies' snapshot stands for both when it is not older.
Strategic(inputs) == inputs.strategy # Nothing
                     /\ inputs.strategy.ts >= inputs.account.ts
Opening(inputs, strategic) ==
    IF strategic
    THEN [ts |-> inputs.strategy.ts, price |-> inputs.strategy.price,
          quantity |-> inputs.strategy.residual
              + FoldFunction(+, 0, inputs.strategy.owned)]
    ELSE inputs.account

PreparedFill(event, roles, opening, strategic) ==
    [key |-> event.key, ts |-> event.ts, side |-> event.side,
     price |-> event.price, quantity |-> event.quantity, order |-> event.order,
     legacy |-> event.role = "none", role |-> RoleOf(event, roles),
     strategy |-> IF ~strategic /\ opening # Nothing
                     /\ event.strategy = SystemClose
                  THEN InitialPosition ELSE event.strategy]

Counted(events, opening) ==
    {e \in events : e.ts > opening.ts /\ e.quantity > 0}

\* The opening price is configured (0: not), or that of the first fill.
Prepared(events, roles, inputs, allocations, strategic) ==
    LET opening == Opening(inputs, strategic)
        fills == InFifoOrder({PreparedFill(e, roles, opening, strategic) :
                                 e \in Counted(events, opening)})
        price == IF opening = Nothing THEN 0
                 ELSE IF opening.price # 0 THEN opening.price
                 ELSE IF fills # <<>> THEN Head(fills).price ELSE 0
    IN  [fees |-> inputs.fees, opening |-> opening, price |-> price,
         fromFirstFill |-> opening # Nothing /\ opening.price = 0,
         owned |-> [o \in Owners |->
            IF opening = Nothing THEN 0
            ELSE IF strategic
                 THEN IF o \in Strategies THEN inputs.strategy.owned[o] ELSE 0
            ELSE IF o = InitialPosition THEN opening.quantity ELSE 0],
         strategic |-> strategic, fills |-> fills,
         allocations |-> SelectSeq(allocations, LAMBDA a :
            a.ts > opening.ts /\ (strategic \/ Unallocated \notin DOMAIN a.moves)),
         ok |-> opening # Nothing => price # 0]

----------------------------------------------------------------------------
(* The ledgers of one moment (TimelineSourceState). *)

InitialState ==
    [active |-> FALSE, account |-> EmptyVenue, mark |-> 0, next |-> 1,
     owned |-> [o \in Owners |-> EmptyVenue], ok |-> TRUE]

Activated(p, state, ts) ==
    IF p.opening = Nothing \/ p.opening.ts > ts \/ state.active THEN state
    ELSE [state EXCEPT !.active = TRUE, !.mark = p.price,
            !.account = Opened(p.opening.quantity, p.price),
            !.owned = [o \in Owners |-> Opened(p.owned[o], p.price)]]

\* What a strategy owns; the residual is what is left of the account.
OwnedQuantity(state, owner) ==
    IF owner # Unallocated THEN Quantity(state.owned[owner].fifo)
    ELSE Quantity(state.account.fifo)
         - FoldFunction(LAMBDA venue, sum : sum + Quantity(venue.fifo), 0, state.owned)

\* apply_allocation: a correction whose old quantities no longer match is
\* refused before any ledger changes; the residual follows by conservation.
Settled(fifo, after) ==
    IF after = 0 THEN [fifo EXCEPT !.longs = <<>>, !.shorts = <<>>] ELSE fifo
Moved(venue, after, price) ==
    [venue EXCEPT !.fifo =
        Settled(Bought(@, after - Quantity(@), price), after)]
Corrected(state, a) ==
    IF \A o \in DOMAIN a.moves : OwnedQuantity(state, o) = a.moves[o].before
    THEN [state EXCEPT !.next = @ + 1,
            !.owned = [o \in Owners |->
               IF o \in DOMAIN a.moves THEN Moved(@[o], a.moves[o].after, a.price)
                                       ELSE @[o]]]
    ELSE [state EXCEPT !.next = @ + 1, !.ok = FALSE]
Allocated(p, state, a) == Corrected(Activated(p, state, a.ts), a)

Advanced(p, state, ts, inclusive) ==
    LET due == SelectSeq(p.allocations, LAMBDA a :
                  a.ts < ts \/ (inclusive /\ a.ts = ts))
    IN  FoldLeft(LAMBDA s, a : Allocated(p, s, a), state,
                 SubSeq(due, state.next, Len(due)))

\* Fault: a close without an owner gets a ledger beside the residual.
AppliedToClose(p, state, fill) ==
    LET ready == Activated(p, Advanced(p, state, fill.ts, FALSE), fill.ts) IN
    [ready EXCEPT !.account = Filled(@, fill, p.fees), !.mark = fill.price,
        !.owned = [o \in Owners |->
            IF o = fill.strategy THEN Filled(@[o], fill, p.fees) ELSE @[o]]]

\* One fill: on the account, and on its strategy unless the strategies were
\* opened explicitly and Exec closed what none of them owns.
Applied(p, state, fill) ==
    LET ready == Activated(p, Advanced(p, state, fill.ts, FALSE), fill.ts) IN
    [ready EXCEPT !.account = Filled(@, fill, p.fees), !.mark = fill.price,
        !.owned = [o \in Owners |->
            IF o = fill.strategy /\ ~(p.strategic /\ o = SystemClose)
            THEN Filled(@[o], fill, p.fees) ELSE @[o]]]

----------------------------------------------------------------------------
(* Replaying fills, with checkpoints (CachedTimelineSource). *)

NextHour(ts) == (ts \div Hour + 1) * Hour
Visible(p, fill) == IF p.strategic /\ fill.strategy = SystemClose
                    THEN Unallocated ELSE fill.strategy
Seen(seen, owner, ts) ==
    [o \in DOMAIN seen |->
        IF o = owner /\ (seen[o] = 0 \/ ts < seen[o]) THEN ts ELSE seen[o]]
NotSeen == [o \in Owners \union {Unallocated} |-> 0]
FromAllocations(p, seen) ==
    FoldLeft(LAMBDA s, a : [o \in DOMAIN s |->
                IF o \in DOMAIN a.moves THEN Seen(s, o, a.ts)[o] ELSE s[o]],
             seen, p.allocations)

\* A checkpoint holds the ledgers before the first fill of its hour or later.
Checked(p, run, i) ==
    LET ts == p.fills[i].ts
        hour == (ts \div Hour) * Hour
    IN  IF run.next = 0 \/ run.next > ts THEN run
        ELSE LET Kept(state) ==
                   [run EXCEPT !.state = state, !.next = hour + Hour,
                      !.checkpoints = Append(@, [ts |-> hour, fill |-> i,
                                                 state |-> state])]
             IN  Kept(Activated(p, run.state, hour))
Step(p, run, i) ==
    [Checked(p, run, i) EXCEPT
        !.state = Applied(p, @, p.fills[i]),
        !.seen = Seen(@, Visible(p, p.fills[i]), p.fills[i].ts)]
Finished(p, run, end) ==
    [prepared |-> p, checkpoints |-> run.checkpoints, seen |-> run.seen,
     next |-> run.next, end |-> end, ok |-> p.ok /\ end.ok]
Ended(p, run) ==
    Finished(p, run, Advanced(p, Activated(p, run.state, Forever), Forever, TRUE))
Replayed(p, index, state, checkpoints, seen, next) ==
    Ended(p, FoldLeft(LAMBDA run, i : Step(p, run, i),
                [state |-> state, seen |-> FromAllocations(p, seen),
                 next |-> next, checkpoints |-> checkpoints],
                [k \in 1..(Len(p.fills) - index + 1) |-> index + k - 1]))

Built(p) ==
    LET anchor == IF p.opening # Nothing THEN p.opening.ts
                  ELSE IF p.fills # <<>> THEN Head(p.fills).ts ELSE 0
    IN  Replayed(p, 1, InitialState, <<>>, NotSeen,
                 IF p.opening = Nothing /\ p.fills = <<>> THEN 0 ELSE NextHour(anchor))

\* A change at ts keeps the checkpoints up to ts and replays from the last one.
Resumed(cached, p, ts) ==
    LET From(kept, last) ==
          Replayed(p, last.fill, last.state, kept,
                   [o \in DOMAIN cached.seen |->
                      IF cached.seen[o] < last.ts THEN cached.seen[o] ELSE 0],
                   last.ts + Hour)
        Restart(kept) == IF kept = <<>> THEN Built(p) ELSE From(kept, Last(kept))
    IN  Restart(SelectSeq(cached.checkpoints, LAMBDA cp : cp.ts <= ts))

\* CachedTimelineSource::refresh: the new events of one change, whose roles may
\* also revise earlier fills from `revised` on (0: none).
Extended(cached, change, roles) ==
    LET p == cached.prepared
        added == InFifoOrder({PreparedFill(e, roles, p.opening, p.strategic) :
                                 e \in Counted(change.events, p.opening)})
        first == (IF added = <<>> THEN {} ELSE {Head(added).ts})
                 \union ({change.revised} \ {0})
        revisedFill(f) == [f EXCEPT !.role =
            IF f.legacy /\ change.revised # 0 /\ f.ts >= Min(first)
            THEN RoleOf([f EXCEPT !.role = "none"], roles) ELSE @]
        all == InFifoOrder({revisedFill(f) : f \in ToSet(p.fills \o added)})
        appendOnly == /\ change.revised = 0
                      /\ \/ added = <<>> \/ p.fills = <<>>
                         \/ EarlierFill(Last(p.fills), Head(added))
        With(next) ==
            IF appendOnly
            THEN Replayed(next, Len(p.fills) + 1, cached.end, cached.checkpoints,
                          cached.seen,
                          IF cached.next # 0 \/ next.fills = <<>> THEN cached.next
                          ELSE NextHour(Head(next.fills).ts))
            ELSE Resumed(cached, next, Min(first))
    IN  With([p EXCEPT !.fills = all])

\* A late first fill may be the one an opening takes its price from; neither
\* it nor corrections are replayed from a checkpoint.
Extends(cached, change, opening) ==
    /\ cached.prepared.allocations = <<>>
    /\ LET added == {e.ts : e \in Counted(change.events, opening)} IN
       ~(/\ cached.prepared.fromFirstFill /\ cached.prepared.fills # <<>>
         /\ \E ts \in added : ts <= Last(cached.prepared.fills).ts)

----------------------------------------------------------------------------
(* A curve over [start, end] (rebuild_nav_timeline): from the last checkpoint *)
(* at or before its start, or from the beginning; a point at the start, at    *)
(* every tick and at the end.  `prices` gives the close of every minute the   *)
(* curve needs (src/src/nav/minute_marks.rs); without prices the last fill is *)
(* the mark.                                                                  *)

LatestFill == <<>>          \* no minute prices: the mark is the latest fill
MinuteBefore(ts) == (ts \div Minute) * Minute - Minute
Open(venue) == venue.fifo.longs # <<>> \/ venue.fifo.shorts # <<>>

\* A flat account may hide opposite strategies: they need the mark as well.
Marked(state, prices, ts) ==
    IF prices = LatestFill \/ ~(Open(state.account)
                                \/ \E o \in Owners : Open(state.owned[o]))
    THEN state
    ELSE IF MinuteBefore(ts) \notin DOMAIN prices THEN [state EXCEPT !.ok = FALSE]
    ELSE [state EXCEPT !.mark = prices[MinuteBefore(ts)]]

\* Fault: the first checkpoint behind the start would be nearer.
NearestCheckpoint(cached, start) ==
    LET kept == SelectSeq(cached.checkpoints, LAMBDA cp : cp.ts <= start + Hour) IN
    IF kept = <<>> THEN [ts |-> 0, fill |-> 1, state |-> InitialState]
                   ELSE Last(kept)

CheckpointBefore(cached, start) ==
    LET kept == SelectSeq(cached.checkpoints, LAMBDA cp : cp.ts <= start) IN
    IF kept = <<>> THEN [ts |-> 0, fill |-> 1, state |-> InitialState]
                   ELSE Last(kept)

\* Every event up to a moment, in order; at the start of a curve only those
\* before it.
Reached(p, at, ts, through) ==
    LET late == SelectInSeq(SubSeq(p.fills, at.fill, Len(p.fills)),
                   LAMBDA f : f.ts > ts \/ (f.ts = ts /\ ~through))
        Until(next) ==
            [fill |-> next, state |->
                Advanced(p, FoldLeft(LAMBDA s, f : Applied(p, s, f),
                                     Activated(p, at.state, ts),
                                     SubSeq(p.fills, at.fill, next - 1)),
                         ts, through)]
    IN  Until(IF late = 0 THEN Len(p.fills) + 1 ELSE at.fill + late - 1)

Totals(state) ==
    [account |-> Nav(state.account, state.mark),
     owned |-> [o \in Owners |-> Nav(state.owned[o], state.mark)]]
Point(state, base, ts) ==
    [ts |-> ts, mark |-> state.mark, ok |-> state.ok,
     account |-> Nav(state.account, state.mark) - base.account,
     owned |-> [o \in Owners |-> Nav(state.owned[o], state.mark) - base.owned[o]]]

Ticks(start, end, tick) ==
    LET first == start \div tick + 1
        last == (end - 1) \div tick
    IN  [i \in 1..(IF last < first THEN 0 ELSE last - first + 1) |->
            (first + i - 1) * tick]

Sampled(p, at, ts, through, prices) ==
    [Reached(p, at, ts, through) EXCEPT !.state = Marked(@, prices, ts)]

\* push_timeline_sample, which replaces the point of the same moment.
Pushed(points, point) ==
    IF points # <<>> /\ Last(points).ts = point.ts
    THEN [points EXCEPT ![Len(points)] = point] ELSE Append(points, point)
Sample(run, at, ts) ==
    [run EXCEPT !.at = at, !.points = Pushed(@, Point(at.state, run.base, ts))]
Begun(begin, query) ==
    Sample([at |-> begin, base |-> Totals(begin.state), points |-> <<>>],
           begin, query.start)
Curve(p, from, query) ==
    FoldLeft(LAMBDA run, ts : Sample(run, Sampled(p, run.at, ts, TRUE, query.prices), ts),
             Begun(Sampled(p, from, query.start, FALSE, query.prices), query),
             Append(Ticks(query.start, query.end, query.tick), query.end))

Timeline(cached, query) ==
    Curve(cached.prepared, CheckpointBefore(cached, query.start), query).points

Residual(point) ==
    point.account - FoldFunction(+, 0, point.owned)

\* The report of one owner (rebuild_strategy_pnl): a row at the start, at each
\* of its fills and at the end, replayed from the first fill.
OwnerTotal(state, owner) ==
    LET of(totals) == IF owner = Unallocated THEN Residual(totals)
                                             ELSE totals.owned[owner]
    IN  of(Totals(state))
Row(run, state, owner) ==
    [run EXCEPT !.state = state, !.rows = Append(@, OwnerTotal(state, owner))]
Report(p, owner, query) ==
    LET Fill(run, f) ==
            IF Visible(p, f) # owner THEN [run EXCEPT !.state = Applied(p, @, f)]
            ELSE Row(run, Marked(Applied(p, run.state, f), query.prices, f.ts), owner)
        End(run) ==
            Row(run, Marked(Advanced(p, Activated(p, run.state, query.end),
                                     query.end, TRUE), query.prices, query.end), owner)
        before == FoldLeft(LAMBDA s, f : Applied(p, s, f),
                           Activated(p, InitialState, query.start),
                           SelectSeq(p.fills, LAMBDA f : f.ts < query.start))
        opened == Advanced(p, Marked(before, query.prices, query.start),
                           query.start, FALSE)
    IN  End(FoldLeft(Fill, Row([state |-> opened, rows |-> <<>>], opened, owner),
                     SelectSeq(p.fills, LAMBDA f : f.ts >= query.start
                                                   /\ f.ts <= query.end)))
=============================================================================
