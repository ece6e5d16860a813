--------------------------- MODULE TheoreticalCurve ---------------------------
(***************************************************************************)
(* What following the published targets would have cost and earned         *)
(* (src/src/theoretical_execution.rs, src/src/theoretical_nav.rs, the      *)
(* window prices of src/src/kline.rs), as functions of what they are       *)
(* given: target changes, minute candles, a window.                        *)
(*                                                                         *)
(* A change is executed in slices, one per minute of the window its        *)
(* source's model prescribes, at that minute's price.  Quantities, prices  *)
(* and rates are integers; the constants make the divisions exact.         *)
(***************************************************************************)
EXTENDS Integers, SequencesExt, FiniteSetsExt

CONSTANTS Backends,    \* the source of an account -> "native" | "ltp"
          Samples,     \* execution model -> minutes of its window
          World,       \* symbol -> open of a minute -> its candle
          FeesNow,       \* source -> [fee, taker], the rates of today
          Minute,      \* ticks of a minute
          Quarter,     \* ticks between two points of a curve
          MaxPoints    \* points a curve is thinned to

Missing == -1                           \* no price, no archived rate
Native == "twap5m"
References == {"vwap3m", "twap3m", "instant_taker"}

SumOf(S, value(_)) == FoldSet(LAMBDA x, sum : sum + value(x), 0, S)
\* The members of a set in the order of a strict total order.
Ordered(S, Less(_, _)) == SortSeq(FoldSet(LAMBDA x, seq : Append(seq, x), <<>>, S), Less)

Abs(n) == IF n < 0 THEN -n ELSE n
FloorMinute(ts) == (ts \div Minute) * Minute
CeilMinute(ts) == FloorMinute(ts + Minute - 1)

----------------------------------------------------------------------------
(* Execution models.  An account behind RapidX is compared with one of     *)
(* several references, a native one always with the same.                  *)

ForSource(source) == IF Backends[source] = "ltp" THEN "vwap3m" ELSE Native
SelectReference(model, reference) == IF model = "vwap3m" THEN reference ELSE model
Models(sources, reference) ==
    [s \in sources |-> SelectReference(ForSource(s), reference)]

OpenTs(model, at) == IF model = "instant_taker" THEN FloorMinute(at) ELSE CeilMinute(at)
ExecutionTs(model, at) ==
    IF model = "instant_taker" THEN at ELSE OpenTs(model, at) + Samples[model] * Minute
SliceTs(delta, slice) ==
    IF delta.model = "instant_taker" THEN delta.at
    ELSE OpenTs(delta.model, delta.at) + slice * Minute
PricingEnd(delta) == OpenTs(delta.model, delta.at) + Samples[delta.model] * Minute

----------------------------------------------------------------------------
(* The prices of a window.  A minute without trades has no price of its    *)
(* own: its share of the quantity goes to the others, or, when nothing was *)
(* traded in the whole window, every minute counts with its close.         *)

Unpriced == [prices |-> <<>>, weights |-> <<>>, average |-> Missing]

InstantPrice(candle) == [prices |-> <<candle.open>>, weights |-> <<1>>, average |-> candle.open]

Volume(bars) == FoldLeft(LAMBDA sum, bar : sum + bar.volume, 0, bars)
Traded(bars) == {i \in DOMAIN bars : bars[i].volume > 0}
SlicePrices(model, bars) ==
    [i \in DOMAIN bars |-> IF Traded(bars) = {} THEN bars[i].close
                           ELSE IF i \in Traded(bars) THEN bars[i].price
                           ELSE IF model = "twap3m" THEN bars[i].close
                           ELSE Missing]
SliceWeights(model, bars) ==
    [i \in DOMAIN bars |->
        IF SlicePrices(model, bars)[i] = Missing THEN 0
        ELSE IF model = "vwap3m" /\ Volume(bars) > 0 THEN bars[i].volume
        ELSE 1]
WindowPrices(model, bars) ==
    LET prices == SlicePrices(model, bars)
        weights == SliceWeights(model, bars)
    IN  [prices |-> prices, weights |-> weights,
         average |-> SumOf(DOMAIN bars, LAMBDA i : prices[i] * weights[i])
                     \div SumOf(DOMAIN bars, LAMBDA i : weights[i])]

\* window_prices: nothing until every minute of the window is cached.
Priced(symbol, model, at, cached) ==
    LET open == OpenTs(model, at)
        opens == [i \in 1..Samples[model] |-> open + (i - 1) * Minute]
    IN  IF \/ symbol \notin DOMAIN World
           \/ \E i \in DOMAIN opens : <<symbol, opens[i]>> \notin cached
        THEN Unpriced
        ELSE IF model = "instant_taker" THEN InstantPrice(World[symbol][open])
        ELSE WindowPrices(model, [i \in DOMAIN opens |-> World[symbol][opens[i]]])

\* MinutePrices::quantity
SliceQuantity(priced, qty, slice) ==
    (qty * priced.weights[slice])
    \div SumOf(DOMAIN priced.weights, LAMBDA i : priced.weights[i])

----------------------------------------------------------------------------
(* First in, first out. *)

Flat == [lots |-> <<>>, net |-> 0, realized |-> 0, fees |-> 0]

\* What a fill takes of each lot, the oldest first; none when it adds.
Closes(lots, qty) == lots # <<>> /\ lots[1].qty * qty < 0
Taken(lots, qty, i) ==
    LET older == FoldLeft(LAMBDA sum, lot : sum + Abs(lot.qty), 0, SubSeq(lots, 1, i - 1))
    IN  IF ~Closes(lots, qty) \/ older >= Abs(qty) THEN 0
        ELSE Min({Abs(lots[i].qty), Abs(qty) - older})
Sign(n) == IF n < 0 THEN -1 ELSE 1

\* apply_fifo_fill: what is left of the fill becomes a lot.
ApplyFifoFill(lots, qty, price) ==
    LET taken == [i \in DOMAIN lots |-> Taken(lots, qty, i)]
        rest == Abs(qty) - SumOf(DOMAIN lots, LAMBDA i : taken[i])
        kept == SelectSeq([i \in DOMAIN lots |->
                              [lots[i] EXCEPT !.qty = @ - Sign(@) * taken[i]]],
                          LAMBDA lot : lot.qty # 0)
    IN  [lots |-> IF rest = 0 THEN kept
                  ELSE Append(kept, [qty |-> Sign(qty) * rest, price |-> price]),
         realized |-> SumOf(DOMAIN lots, LAMBDA i :
                              Sign(lots[i].qty) * taken[i] * (price - lots[i].price))]

EvaluateFill(state, fill) ==
    LET applied == ApplyFifoFill(state.lots, fill.qty, fill.price)
    IN  [lots |-> applied.lots, net |-> state.net + fill.qty,
         realized |-> state.realized + applied.realized,
         fees |-> state.fees + Abs(fill.qty) * fill.price * fill.fee]

Floating(lots, mark) == FoldLeft(LAMBDA sum, lot : sum + lot.qty * (mark - lot.price), 0, lots)

----------------------------------------------------------------------------
(* The curve. *)

Market(delta) == <<delta.source, delta.symbol>>

\* The slices of a change that are due by `end`; one without a price is no fill.
FillOf(delta, priced, turn, slice) ==
    [market |-> Market(delta), ts |-> SliceTs(delta, slice), turn |-> turn,
     qty |-> SliceQuantity(priced, delta.qty, slice), price |-> priced.prices[slice],
     fee |-> delta.fee]
FillsOf(delta, priced, turn, end) ==
    LET due == SelectSeq([slice \in 1..Samples[delta.model] |-> slice], LAMBDA s :
                   SliceTs(delta, s) <= end /\ priced.prices[s] # Missing)
    IN  [k \in DOMAIN due |-> FillOf(delta, priced, turn, due[k])]

PricesOf(deltas, cached) ==
    FoldLeft(LAMBDA prices, d : Append(prices, Priced(d.symbol, d.model, d.at, cached)),
             <<>>, deltas)

\* The fills by `end`, oldest first, those of one moment in the order of the changes.
Fills(deltas, prices, end) ==
    SortSeq(FoldLeft(LAMBDA fills, i : fills \o FillsOf(deltas[i], prices[i], i, end),
                     <<>>, [i \in DOMAIN prices |-> i]),
            LAMBDA f, g : f.ts < g.ts \/ (f.ts = g.ts /\ f.turn < g.turn))

\* Fault: the slices before the start of a change executed after it are lost.
OpeningCarried(carry, fills, start) == carry

\* The inventory a window opens with: the fills before it join what was carried.
Opening(carry, fills, start) ==
    LET early == SelectSeq(fills, LAMBDA f : f.ts < start)
        Carried(m) == IF m \in DOMAIN carry THEN carry[m] ELSE 0
    IN  [m \in DOMAIN carry \union {f.market : f \in ToSet(early)} |->
            FoldLeft(LAMBDA q, f : IF f.market = m THEN q + f.qty ELSE q, Carried(m), early)]

\* The close of the minute that ended last, if it is cached.
Mark(symbol, ts, cached) ==
    LET open == FloorMinute(ts) - Minute
    IN  IF <<symbol, open>> \in cached THEN World[symbol][open].close ELSE Missing

\* Carried lots are valued from the start's mark on.
Inventory(opening, start, cached) ==
    [m \in {x \in DOMAIN opening : opening[x] # 0} |->
        [Flat EXCEPT !.net = opening[m],
                     !.lots = <<[qty |-> opening[m], price |-> Mark(m[2], start, cached)]>>]]

After(states, fill) ==
    LET old == IF fill.market \in DOMAIN states THEN states[fill.market] ELSE Flat
    IN  [m \in DOMAIN states \union {fill.market} |->
            IF m = fill.market THEN EvaluateFill(old, fill) ELSE states[m]]

Ticks(fills, start, end) ==
    {start, end} \union {f.ts : f \in ToSet(fills)}
    \union {t \in start + 1..end - 1 : t % Quarter = 0}

\* A window starts at zero; fills exactly at the start count from then on.
PointAt(states, ts, start, end, cached) ==
    LET before == SumOf(DOMAIN states, LAMBDA m : states[m].realized
                           + Floating(states[m].lots, Mark(m[2], ts, cached)))
        fees == SumOf(DOMAIN states, LAMBDA m : states[m].fees)
    IN  IF ts = start /\ start < end THEN [ts |-> ts, before |-> 0, after |-> 0]
        ELSE [ts |-> ts, before |-> before, after |-> before - fees]

\* No price is guessed: one that is missing leaves the curve without points.
Lacks(states, ts, cached) ==
    \E m \in DOMAIN states : states[m].lots # <<>> /\ Mark(m[2], ts, cached) = Missing

\* The extremes of every bucket are kept, in time order.
Extrema(bucket) ==
    LET Low(value(_)) == CHOOSE i \in DOMAIN bucket :
            \A j \in DOMAIN bucket : value(bucket[i]) <= value(bucket[j]) /\
                                     (value(bucket[i]) = value(bucket[j]) => i <= j)
        High(value(_)) == CHOOSE i \in DOMAIN bucket :
            \A j \in DOMAIN bucket : value(bucket[i]) >= value(bucket[j]) /\
                                     (value(bucket[i]) = value(bucket[j]) => i >= j)
        kept == {Low(LAMBDA p : p.before), High(LAMBDA p : p.before),
                 Low(LAMBDA p : p.after), High(LAMBDA p : p.after)}
        order == Ordered(kept, LAMBDA x, y : x < y)
    IN  [k \in DOMAIN order |-> bucket[order[k]]]
DownsamplePoints(points) ==
    LET interior == SubSeq(points, 2, Len(points) - 1)
        buckets == Max({(MaxPoints - 2) \div 4, 1})
        size == (Len(interior) + buckets - 1) \div buckets
        chunk == [k \in 1..(Len(interior) + size - 1) \div size |->
                     SubSeq(interior, (k - 1) * size + 1, Min({k * size, Len(interior)}))]
    IN  IF Len(points) <= MaxPoints \/ MaxPoints < 6 THEN points
        ELSE <<points[1]>> \o FlattenSeq([k \in DOMAIN chunk |-> Extrema(chunk[k])])
             \o <<points[Len(points)]>>

\* rebuild_timeline: carried inventory, then every fill, valued at every tick.
Points(opened, fills, start, end, cached) ==
    LET ticks == Ordered(Ticks(fills, start, end), LAMBDA x, y : x < y)
        At(ts) == FoldLeft(After, opened, SelectSeq(fills, LAMBDA f : f.ts <= ts))
    IN  IF Lacks(opened, start, cached) \/ \E t \in ToSet(ticks) : Lacks(At(t), t, cached)
        THEN <<>>
        ELSE DownsamplePoints([k \in DOMAIN ticks |->
                PointAt(At(ticks[k]), ticks[k], start, end, cached)])
RebuildTimeline(deltas, carry, start, end, cached) ==
    LET due == SelectSeq(deltas, LAMBDA d : SliceTs(d, 1) <= end)
        prices == PricesOf(due, cached)
        fills == Fills(due, prices, end)
    IN  IF \E i \in DOMAIN prices : prices[i].average = Missing THEN <<>>
        ELSE Points(Inventory(Opening(carry, fills, start), start, cached),
                    SelectSeq(fills, LAMBDA f : f.ts >= start), start, end, cached)
=============================================================================
