---------------------------- MODULE AcquisitionCost ----------------------------
(***************************************************************************)
(* The report that compares the fills of an account with the prices its    *)
(* targets could have had (src/src/acquisition_cost.rs), as a function of  *)
(* the target changes a query was given, the minute candles and the fills  *)
(* of the NAV histories.                                                   *)
(*                                                                         *)
(* A fill is compared with the last change of its source, strategy and     *)
(* symbol before its order's signal.                                       *)
(***************************************************************************)
EXTENDS TheoreticalCurve

CONSTANTS Trades,       \* fills of the histories: [id, source, strategy, symbol,
                        \*   signal, at, qty, price, fee, liquidity]
          MaxReference, \* how old a change may be at the signal
          PageSize      \* rows of a page

Key(x) == <<x.source, x.strategy, x.symbol>>
Dimensions == {"strategy", "symbol", "side", "liquidity", "target_delay", "order_delay",
               "symbol_liquidity", "symbol_target_delay", "target_signal", "execution_mode"}

----------------------------------------------------------------------------
(* Changes with a price. *)

\* A change without prices blocks the fills whose signal
\* lies between it and the change before.
VirtualFills(deltas, prices) == {i \in DOMAIN deltas : prices[i].average # Missing}
Unavailable(deltas, prices, key) ==
    {deltas[i].at : i \in {j \in DOMAIN deltas :
                             prices[j].average = Missing /\ Key(deltas[j]) = key}}
Pending(deltas, prices, start, clock) ==
    {i \in DOMAIN deltas : prices[i].average = Missing /\ deltas[i].at >= start
                           /\ PricingEnd(deltas[i]) > clock}

----------------------------------------------------------------------------
(* Fills and their references. *)

Selected(in) ==
    {f \in Trades : /\ f.source \in in.sources /\ f.at >= in.start /\ f.at <= in.end
                    /\ in.strategy \in {"", f.strategy}}
SignalTs(f) == IF f.signal > 0 THEN f.signal ELSE f.at

\* Fault: the last change before the fill, not before the signal of its order.
ReferenceAtFill(deltas, prices, f) ==
    LET older == {i \in VirtualFills(deltas, prices) :
                     Key(deltas[i]) = Key(f) /\ deltas[i].at <= f.at}
    IN  IF older = {} THEN 0 ELSE Max(older)

\* The last priced change at or before the signal, 0 if there is none.
Reference(deltas, prices, f) ==
    LET older == {i \in VirtualFills(deltas, prices) :
                     Key(deltas[i]) = Key(f) /\ deltas[i].at <= SignalTs(f)}
    IN  IF older = {} THEN 0 ELSE Max(older)

Blocked(deltas, prices, f, reference) ==
    \E ts \in Unavailable(deltas, prices, Key(f)) :
        ts >= deltas[reference].at /\ ts <= SignalTs(f)

Outcome(deltas, prices, f) ==
    LET reference == Reference(deltas, prices, f)
    IN  IF reference = 0 THEN "unmatched"
        ELSE IF Blocked(deltas, prices, f, reference) THEN "unmatched"
        ELSE IF SignalTs(f) - deltas[reference].at > MaxReference THEN "stale"
        ELSE IF f.qty * deltas[reference].qty <= 0 THEN "opposite"
        ELSE "matched"

DelayBucket(delay) ==
    IF delay < Minute THEN "within a minute"
    ELSE IF delay < MaxReference THEN "later" ELSE "after"
ExecutionMode(f, delta) ==
    IF f.liquidity = "maker" THEN "maker"
    ELSE IF f.liquidity # "taker" THEN "unclassified"
    ELSE IF Abs(delta.signal) = 1 THEN "forced_signal_taker" ELSE "fallback_or_other_taker"

\* What a matched fill adds to every breakdown.
Diagnostic(f, delta, priced) ==
    [id |-> f.id, at |-> f.at, qty |-> f.qty, price |-> f.price, virtual |-> priced.average,
     turnover |-> Abs(f.qty * priced.average), actual |-> Abs(f.qty * f.price),
     fee |-> f.fee, virtualFee |-> Abs(f.qty * priced.average) * delta.fee,
     shortfall |-> f.qty * (f.price - priced.average),
     first |-> f.qty * (f.price
                 - priced.prices[Min({i \in DOMAIN priced.prices : priced.prices[i] # Missing})])]

Bucket(dimension, f, delta) ==
    LET target == DelayBucket(f.at - delta.at)
    IN  CASE dimension = "strategy" -> <<f.strategy>>
          [] dimension = "symbol" -> <<f.symbol>>
          [] dimension = "side" -> <<IF f.qty > 0 THEN "buy" ELSE "sell">>
          [] dimension = "liquidity" -> <<f.liquidity>>
          [] dimension = "target_delay" -> <<target>>
          [] dimension = "order_delay" -> <<DelayBucket(f.at - SignalTs(f))>>
          [] dimension = "symbol_liquidity" -> <<f.symbol, f.liquidity>>
          [] dimension = "symbol_target_delay" -> <<f.symbol, target>>
          [] dimension = "target_signal" -> <<ToString(delta.signal)>>
          [] dimension = "execution_mode" -> <<ExecutionMode(f, delta)>>

----------------------------------------------------------------------------
(* Sums. *)

Breakdown(matched) ==
    [fills |-> Cardinality(matched),
     turnover |-> SumOf(matched, LAMBDA d : d.turnover),
     actual |-> SumOf(matched, LAMBDA d : d.actual),
     fee |-> SumOf(matched, LAMBDA d : d.fee),
     virtualFee |-> SumOf(matched, LAMBDA d : d.virtualFee),
     shortfall |-> SumOf(matched, LAMBDA d : d.shortfall)]

\* A row per change; one before the window only if a fill of the window had it
\* for a reference, and then without its own turnover.
Row(delta, priced, index, start, matched) ==
    LET qty == SumOf(matched, LAMBDA d : d.qty)
    IN  [index |-> index, at |-> delta.at, symbol |-> delta.symbol, strategy |-> delta.strategy,
         turnover |-> IF delta.at >= start THEN Abs(delta.qty * priced.average) ELSE 0,
         fills |-> Cardinality(matched), qty |-> qty,
         matchedTurnover |-> Abs(qty * priced.average),
         shortfall |-> SumOf(matched, LAMBDA d : d.qty * d.price) - qty * priced.average,
         feeShortfall |-> SumOf(matched, LAMBDA d : d.fee)
                          - Abs(qty * priced.average) * delta.fee]
Rows(deltas, prices, start, matched) ==
    LET rows == {Row(deltas[i], prices[i], i, start, matched[i]) :
                    i \in {j \in VirtualFills(deltas, prices) :
                              deltas[j].at >= start \/ matched[j] # {}}}
    IN  Ordered(rows, LAMBDA x, y : x.index < y.index)

\* Cumulative; rows of one moment share a point.
CostPoints(rows, start) ==
    LET Ts(r) == IF r.at < start THEN start ELSE r.at
        ends == {k \in DOMAIN rows : k = Len(rows) \/ Ts(rows[k]) # Ts(rows[k + 1])}
        order == Ordered(ends, LAMBDA x, y : x < y)
    IN  [k \in DOMAIN order |->
            [ts |-> Ts(rows[order[k]]),
             shortfall |-> FoldLeft(LAMBDA sum, r : sum + r.shortfall, 0,
                                    SubSeq(rows, 1, order[k]))]]

\* Pages count from the latest row back, or from the dearest one.
Compared(row) == row.fills > 0
PageRows(rows, in) ==
    LET Below(x, y) == IF ~Compared(x) \/ ~Compared(y) THEN ~Compared(x) /\ Compared(y)
                       ELSE x.shortfall < y.shortfall
        wanted == {r \in ToSet(rows) : in.symbol \in {"", r.symbol}}
        order == Ordered(wanted, LAMBDA x, y :
                    IF in.sort = "shortfall" /\ (Below(x, y) \/ Below(y, x)) THEN Below(x, y)
                    ELSE x.index < y.index)
        last == Max({Len(order) - (in.page - 1) * PageSize, 0})
    IN  SubSeq(order, Max({last - PageSize, 0}) + 1, last)

Report(deltas, in, cached, clock) ==
    LET prices == PricesOf(deltas, cached)
        fills == Selected(in)
        result == [f \in fills |-> Outcome(deltas, prices, f)]
        found == {f \in fills : result[f] = "matched"}
        ref == [f \in found |-> Reference(deltas, prices, f)]
        diagnostic == [f \in found |-> Diagnostic(f, deltas[ref[f]], prices[ref[f]])]
        matched == [i \in DOMAIN deltas |-> {diagnostic[f] : f \in {g \in found : ref[g] = i}}]
        rows == Rows(deltas, prices, in.start, matched)
        Of(d, b) == {diagnostic[f] : f \in {g \in found : Bucket(d, g, deltas[ref[g]]) = b}}
    IN  [outcome |-> result,
         reference |-> [f \in found |-> deltas[ref[f]]],
         missing |-> {i \in DOMAIN deltas : prices[i].average = Missing
                         /\ deltas[i].at >= in.start} \ Pending(deltas, prices, in.start, clock),
         totals |-> [fills |-> FoldLeft(LAMBDA sum, r : sum + r.fills, 0, rows),
                     turnover |-> FoldLeft(LAMBDA sum, r : sum + r.matchedTurnover, 0, rows),
                     shortfall |-> FoldLeft(LAMBDA sum, r : sum + r.shortfall, 0, rows),
                     feeShortfall |-> FoldLeft(LAMBDA sum, r : sum + r.feeShortfall, 0, rows)],
         by |-> [d \in Dimensions |->
                    [b \in {Bucket(d, f, deltas[ref[f]]) : f \in found} |-> Breakdown(Of(d, b))]],
         points |-> CostPoints(rows, in.start),
         page |-> PageRows(rows, in)]
=============================================================================
