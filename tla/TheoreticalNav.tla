---------------------------- MODULE TheoreticalNav ----------------------------
(***************************************************************************)
(* The target history behind the theoretical curves and cost reports: the  *)
(* index TheoreticalTargetCache keeps in memory of the publications in the *)
(* archive, and the queries answered from it (src/src/theoretical_nav.rs;  *)
(* target_writes of src/src/position_archive.rs; src/src/analysis.rs).     *)
(*                                                                         *)
(* Publications reach the archive in any order of their time stamps.  The  *)
(* index folds those older than Lag into a base, once, and reads the rest  *)
(* again at every refresh; one that lands behind the base makes the index  *)
(* start over.  The archive is written meanwhile, and a query passes       *)
(* through refresh, wait, read and computation, each a step of its own;    *)
(* queries for the same curve share one computation.                       *)
(***************************************************************************)
EXTENDS AcquisitionCost

CONSTANTS Updates,     \* publications: [at, strategy, targets, signals, accounts]
          Questions,   \* queries: curves and cost reports
          Queries,     \* those asked
          Together,    \* the pairs of questions that are asked beside each other
          Lag,         \* how long publications may complete out of order
          LateKept,    \* late writes the archive remembers
          CurveSlots,  \* curves kept
          StartNow, MaxNow, MaxAsks, MaxFailures

VARIABLES now,
          log,         \* publications in the order they were written
          writes,      \* what the archive remembers of its writes
          candles,     \* cached minutes, and the revision of that cache
          history,     \* the index
          job,         \* the refresh under way
          curves,      \* curves computed or being computed, the last used one last
          query,       \* what became of each query
          asks, failures

vars == <<now, log, writes, candles, history, job, curves, query, asks, failures>>

----------------------------------------------------------------------------
(* The archive. *)

Before(a, b) == a[1] < b[1] \/ (a[1] = b[1] /\ a[2] < b[2])
NoCursor == <<0, 0>>

\* The surroundings rest after the last answer: no one would see them change.
Going == asks < MaxAsks \/ \E q \in Queries : query[q].phase \notin {"idle", "answered"}

InOrder(messages) == Ordered(messages, LAMBDA x, y : Before(x.key, y.key))
Visited(after, through) ==
    InOrder({m \in ToSet(log) : Before(after, m.key) /\ m.key[1] <= through})

\* A publication is written under its own time; one of the same time is later.
Seq0(at) == LET same == {m.key[2] : m \in {x \in ToSet(log) : x.key[1] = at}}
            IN  IF same = {} THEN 0 ELSE Max(same) + 1
AppendUpdate(u) ==
    /\ Going /\ Len(log) = writes.revision /\ u.at <= now
    /\ \A i \in DOMAIN log : log[i].update # u
    /\ log' = Append(log, [key |-> <<u.at, Seq0(u.at)>>, update |-> u])
    /\ UNCHANGED <<now, writes, candles, history, job, curves, query, asks, failures>>

\* record_append: only now is the write one the index must know of.
LastKey == LET keys == {log[i].key : i \in 1..writes.revision}
           IN  IF keys = {} THEN NoCursor
               ELSE CHOOSE k \in keys : \A l \in keys : ~Before(k, l)
RecordAppend ==
    /\ Going /\ Len(log) > writes.revision
    /\ LET change == [revision |-> writes.revision + 1, key |-> log[Len(log)].key]
           late == IF Before(change.key, LastKey)
                   THEN Append(writes.late, change) ELSE writes.late
       IN  writes' = [revision |-> change.revision,
                      late |-> IF Len(late) > LateKept THEN Tail(late) ELSE late,
                      discarded |-> IF Len(late) > LateKept THEN Head(late).revision
                                    ELSE writes.discarded]
    /\ UNCHANGED <<now, log, candles, history, job, curves, query, asks, failures>>

\* target_changes_since: a late write behind the cursor, or one forgotten since.
Invalidated(revision, cursor) ==
    /\ cursor # NoCursor
    /\ \/ revision < writes.discarded
       \/ \E c \in ToSet(writes.late) : c.revision > revision /\ ~Before(cursor, c.key)

----------------------------------------------------------------------------
(* Target changes. *)

NoTargets == [s \in {} |-> 0]
Fresh == [latest |-> [b \in {} |-> NoTargets], deltas |-> <<>>]
Held(targets, symbol) == IF symbol \in DOMAIN targets THEN targets[symbol] ELSE 0

\* What an account was given: its own projection, or its shares of the targets.
AccountTargets(u, account) ==
    LET given == IF account.projected THEN account.projection
                 ELSE [s \in DOMAIN u.targets |-> u.targets[s] * account.shares]
    IN  [s \in {x \in DOMAIN given : given[x] # 0} |-> given[s]]
TargetDeltas(previous, next) ==
    {s \in DOMAIN previous \union DOMAIN next : Held(previous, s) # Held(next, s)}
Delta(message, account, symbol, qty) ==
    [source |-> account.source, binding |-> account.binding,
     strategy |-> message.update.strategy, symbol |-> symbol, at |-> message.key[1],
     qty |-> qty, fee |-> account.fee, taker |-> account.taker,
     signal |-> Held(message.update.signals, symbol)]

\* ingest_target: accounts that are no longer configured are passed over.
IngestAccount(state, message, account) ==
    LET key == <<account.source, account.binding>>
        next == AccountTargets(message.update, account)
        previous == IF key \in DOMAIN state.latest THEN state.latest[key] ELSE NoTargets
        symbols == SetToSeq(TargetDeltas(previous, next))
    IN  IF account.source \notin DOMAIN Backends THEN state
        ELSE [latest |-> [b \in DOMAIN state.latest \union {key} |->
                             IF b = key THEN next ELSE state.latest[b]],
              deltas |-> state.deltas \o [i \in DOMAIN symbols |->
                  Delta(message, account, symbols[i],
                        Held(next, symbols[i]) - Held(previous, symbols[i]))]]
IngestTarget(state, message) ==
    FoldLeft(LAMBDA st, a : IngestAccount(st, message, a), state, message.update.accounts)
Ingest(state, messages) == FoldLeft(IngestTarget, state, messages)

----------------------------------------------------------------------------
(* The refresh. *)

Idle == [phase |-> "none", revision |-> 0]
Empty == [ready |-> FALSE, error |-> FALSE, revision |-> 0, cursor |-> NoCursor,
          base |-> Fresh, tail |-> <<>>]

\* refresh: one at a time, and none while nothing was written.
Refreshed ==
    IF job.phase = "none" /\ (history.ready => writes.revision # history.revision)
    THEN [Idle EXCEPT !.phase = "spawned"] ELSE job

\* refresh_blocking holds the lock of the index from here on.  The revision is
\* read first: what is written from now on counts as unseen.
StartRefresh ==
    /\ job.phase = "spawned"
    /\ job' = [phase |-> "started", revision |-> writes.revision]
    /\ history' = IF Invalidated(history.revision, history.cursor) THEN Empty ELSE history
    /\ UNCHANGED <<now, log, writes, candles, curves, query, asks, failures>>

\* The first n publications that are old enough join the base.
Stable == Visited(history.cursor, now - Lag)
Folded(n) ==
    [history EXCEPT !.base = Ingest(@, SubSeq(Stable, 1, n)),
                    !.cursor = IF n = 0 THEN @ ELSE Stable[n].key]
FoldBase ==
    /\ job.phase = "started"
    /\ history' = Folded(Len(Stable))
    /\ job' = [job EXCEPT !.phase = "folded"]
    /\ UNCHANGED <<now, log, writes, candles, curves, query, asks, failures>>

\* Fault: the revision is taken when the publications have been read.
FoldTailLast ==
    /\ job.phase = "folded"
    /\ history' = [history EXCEPT
           !.tail = Ingest([history.base EXCEPT !.deltas = <<>>],
                           Visited(history.cursor, now)).deltas,
           !.revision = writes.revision, !.ready = TRUE, !.error = FALSE]
    /\ job' = Idle
    /\ UNCHANGED <<now, log, writes, candles, curves, query, asks, failures>>

FoldTail ==
    /\ job.phase = "folded"
    /\ history' = [history EXCEPT
           !.tail = Ingest([history.base EXCEPT !.deltas = <<>>],
                           Visited(history.cursor, now)).deltas,
           !.revision = job.revision, !.ready = TRUE, !.error = FALSE]
    /\ job' = Idle
    /\ UNCHANGED <<now, log, writes, candles, curves, query, asks, failures>>

\* A read fails, of the base or of the tail.  What was folded so far stays, beside the
\* tail of the last refresh.  The queries waiting are told, the next one tries again.
RefreshFails ==
    /\ failures < MaxFailures
    /\ \/ /\ job.phase = "started"
          /\ \E n \in 0..Len(Stable) : history' = [Folded(n) EXCEPT !.error = TRUE]
       \/ job.phase = "folded" /\ history' = [history EXCEPT !.error = TRUE]
    /\ job' = Idle /\ failures' = failures + 1
    /\ UNCHANGED <<now, log, writes, candles, curves, query, asks>>

----------------------------------------------------------------------------
(* Queries. *)

\* `torn` is not in the code: it marks what was read behind a failed refresh.
Resting == [phase |-> "idle", input |-> 0, end |-> 0, asked |-> 0, deltas |-> <<>>,
            carry |-> <<>>, revision |-> 0, candles |-> 0, answer |-> <<>>, torn |-> FALSE]
\* What the answer will know at least: a refresh that is under way is waited for,
\* not followed by another.
Promised == IF job.phase \in {"started", "folded"} THEN job.revision ELSE writes.revision
InputModels(in) == Models(in.sources, in.reference)

\* A curve ends where every window that may reach it is closed.
EffectiveEnd(in) ==
    LET widest == Max({Samples[InputModels(in)[s]] : s \in in.sources})
        closed == FloorMinute(now) - (widest - 1) * Minute
    IN  IF in.kind = "cost" THEN in.end ELSE Min({in.end, closed})

CurveKey(in, end, revision, minutes) ==
    [models |-> InputModels(in), start |-> in.start, end |-> end, targets |-> revision,
     candles |-> minutes]
Cached(key) == {i \in DOMAIN curves : curves[i].key = key}
Without(kept, i) == SubSeq(kept, 1, i - 1) \o SubSeq(kept, i + 1, Len(kept))
Used(i) == Append(Without(curves, i), curves[i])
\* The one used longest ago goes, but never one that is being computed.
Done(kept) == {i \in DOMAIN kept : kept[i].done}
Evicted(kept) == IF Done(kept) = {} THEN kept ELSE Without(kept, Min(Done(kept)))

\* Before it queues, a curve is looked up: only with an index that is up to date.
UpToDate == /\ history.ready /\ Refreshed.phase = "none"
            /\ writes.revision = history.revision
AskCurve(q, in) ==
    LET end == EffectiveEnd(in)
        hit == Cached(CurveKey(in, end, history.revision, candles.revision)) \cap Done(curves)
        asked == [Resting EXCEPT !.input = in, !.end = end, !.asked = Promised]
    IN  /\ in.kind = "curve" /\ end >= in.start
        /\ job' = Refreshed
        /\ IF UpToDate /\ hit # {}
           THEN \E i \in hit :
                   /\ query' = [query EXCEPT ![q] = [asked EXCEPT
                                   !.phase = "answered", !.answer = curves[i].points,
                                   !.torn = curves[i].torn]]
                   /\ curves' = Used(i)
           ELSE /\ query' = [query EXCEPT ![q] = [asked EXCEPT !.phase = "waiting"]]
                /\ UNCHANGED curves
AskCost(q, in) ==
    /\ in.kind = "cost"
    /\ query' = [query EXCEPT ![q] = [Resting EXCEPT
                    !.phase = "waiting", !.input = in, !.end = in.end, !.asked = Promised]]
    /\ job' = Refreshed /\ UNCHANGED curves
\* A query has no name: it takes a free place, always the same one.
Ask(q, in) ==
    /\ \E r \in Queries : query[r].phase = "idle"
    /\ q = CHOOSE r \in Queries : query[r].phase = "idle"
    /\ asks < MaxAsks /\ in.end <= now
    /\ \A r \in Queries : query[r].phase # "idle" => <<query[r].input, in>> \in Together
    /\ AskCurve(q, in) \/ AskCost(q, in)
    /\ asks' = asks + 1
    /\ UNCHANGED <<now, log, writes, candles, history, failures>>

\* No refresh under way, and the last one failed.
Refused(q) ==
    /\ query[q].phase = "waiting" /\ job.phase = "none" /\ history.error
    /\ query' = [query EXCEPT ![q] = Resting]
    /\ UNCHANGED <<now, log, writes, candles, history, job, curves, asks, failures>>
Waited(q) ==
    /\ query[q].phase = "waiting" /\ job.phase = "none" /\ history.ready /\ ~history.error
    /\ query' = [query EXCEPT ![q].phase = "passed"]
    /\ UNCHANGED <<now, log, writes, candles, history, job, curves, asks, failures>>
\* After ten seconds a curve is answered as loading, a report with no change at all.
GiveUp(q) ==
    /\ query[q].phase = "waiting"
    /\ job.phase # "none" \/ ~(history.ready \/ history.error)
    /\ query' = [query EXCEPT ![q] = IF @.input.kind = "cost" THEN [@ EXCEPT !.phase = "read"]
                                     ELSE Resting]
    /\ UNCHANGED <<now, log, writes, candles, history, job, curves, asks, failures>>

\* Changes of the sources asked for; for a report from a little before its start.
Wanted(in, delta, model) ==
    /\ delta.source \in in.sources /\ delta.at <= in.end
    /\ in.kind = "curve" => ExecutionTs(model, delta.at) >= in.start
    /\ in.kind = "cost" => delta.at >= in.start - MaxReference
    /\ in.strategy \in {"", delta.strategy}

\* What was targeted before the start is carried as a quantity.
CarriedQty(in, deltas, market) ==
    FoldLeft(LAMBDA sum, d :
                IF /\ Market(d) = market /\ d.at <= in.end
                   /\ ExecutionTs(InputModels(in)[d.source], d.at) < in.start
                THEN sum + d.qty ELSE sum, 0, deltas)
Carry(in, deltas) ==
    LET markets == {Market(d) : d \in {x \in ToSet(deltas) : x.source \in in.sources}}
    IN  IF in.kind = "cost" THEN NoTargets
        ELSE [m \in {x \in markets : CarriedQty(in, deltas, x) # 0} |-> CarriedQty(in, deltas, m)]

\* The rate that was archived, or else the one of today.
Charged(delta, model) ==
    LET archived == IF model = "instant_taker" THEN delta.taker ELSE delta.fee
        current == IF model = "instant_taker" THEN FeesNow[delta.source].taker
                   ELSE FeesNow[delta.source].fee
    IN  [source |-> delta.source, strategy |-> delta.strategy, symbol |-> delta.symbol,
         at |-> delta.at, qty |-> delta.qty, signal |-> delta.signal, model |-> model,
         fee |-> IF archived = Missing THEN current ELSE archived]
Chosen(in, deltas) ==
    LET wanted == SelectSeq(deltas, LAMBDA d :
                     d.source \in in.sources /\ Wanted(in, d, InputModels(in)[d.source]))
    IN  [i \in DOMAIN wanted |-> Charged(wanted[i], InputModels(in)[wanted[i].source])]

\* A task of its own takes the lock of the index when it is free; whether a refresh
\* has failed since the wait is not asked again.
Read(q) ==
    /\ query[q].phase = "passed" /\ job.phase \in {"none", "spawned"}
    /\ LET deltas == history.base.deltas \o history.tail
           in == query[q].input
       IN  query' = [query EXCEPT ![q] = [@ EXCEPT
               !.phase = "read", !.deltas = Chosen(in, deltas), !.carry = Carry(in, deltas),
               !.revision = history.revision, !.torn = history.error]]
    /\ UNCHANGED <<now, log, writes, candles, history, job, curves, asks, failures>>

Answered(asked, answer, torn) ==
    [asked EXCEPT !.phase = "answered", !.answer = answer, !.torn = torn,
                  !.deltas = <<>>, !.carry = <<>>]
\* Fault: the revision of the index when the computation starts, not when it was read.
KeyOfNow(asked) == CurveKey(asked.input, asked.end, history.revision, asked.candles)
KeyOf(asked) == CurveKey(asked.input, asked.end, asked.revision, asked.candles)

\* get_or_compute_if: the first with a key computes, the others wait for it.
StartCurve(q) ==
    LET asked == [query[q] EXCEPT !.candles = candles.revision]
        key == KeyOf(asked)
        room == IF Len(curves) < CurveSlots THEN curves ELSE Evicted(curves)
    IN  /\ asked.phase = "read" /\ asked.input.kind = "curve"
        /\ \/ /\ Cached(key) = {}
              /\ curves' = Append(room, [key |-> key, done |-> FALSE, points |-> <<>>,
                                        torn |-> asked.torn])
              /\ query' = [query EXCEPT ![q] = [asked EXCEPT !.phase = "computing"]]
           \/ \E i \in Cached(key) :
                 /\ curves' = Used(i)
                 /\ query' = [query EXCEPT ![q] =
                       IF curves[i].done THEN Answered(asked, curves[i].points, curves[i].torn)
                       ELSE [asked EXCEPT !.phase = "joined"]]
        /\ UNCHANGED <<now, log, writes, candles, history, job, asks, failures>>

\* Those whose curve q computes.
Sharing(q) ==
    {r \in Queries : r = q \/ (query[r].phase = "joined" /\ KeyOf(query[r]) = KeyOf(query[q]))}
\* A curve without points is not kept.
Kept(i, points) ==
    LET kept == IF points = <<>> THEN Without(curves, i)
                ELSE [curves EXCEPT ![i] = [@ EXCEPT !.done = TRUE, !.points = points]]
    IN  IF Len(kept) > CurveSlots THEN Evicted(kept) ELSE kept
FinishCurve(q) ==
    LET in == query[q].input
        points == RebuildTimeline(query[q].deltas, query[q].carry, in.start, query[q].end,
                                  candles.minutes)
    IN  /\ query[q].phase = "computing"
        /\ \E i \in Cached(KeyOf(query[q])) : curves' = Kept(i, points)
        /\ query' = [r \in Queries |-> IF r \in Sharing(q)
                                       THEN Answered(query[r], points, query[q].torn)
                                       ELSE query[r]]
        /\ UNCHANGED <<now, log, writes, candles, history, job, asks, failures>>
\* The candles cannot be read: all who share the computation are told.
CurveFails(q) ==
    /\ query[q].phase = "computing" /\ failures < MaxFailures
    /\ \E i \in Cached(KeyOf(query[q])) : curves' = Without(curves, i)
    /\ query' = [r \in Queries |-> IF r \in Sharing(q) THEN Resting ELSE query[r]]
    /\ failures' = failures + 1
    /\ UNCHANGED <<now, log, writes, candles, history, job, asks>>

AnswerCost(q) ==
    /\ query[q].phase = "read" /\ query[q].input.kind = "cost"
    /\ query' = [query EXCEPT ![q] = Answered(@,
           Report(@.deltas, @.input, candles.minutes, now), @.torn)]
    /\ UNCHANGED <<now, log, writes, candles, history, job, curves, asks, failures>>

----------------------------------------------------------------------------
(* The surroundings. *)

\* Closed minutes of a symbol arrive (KlineCache).
SavePage(symbol) ==
    LET closed == {<<symbol, open>> : open \in {o \in DOMAIN World[symbol] : o + Minute <= now}}
    IN  /\ Going /\ ~(closed \subseteq candles.minutes)
        /\ candles' = [minutes |-> candles.minutes \union closed,
                       revision |-> candles.revision + 1]
        /\ UNCHANGED <<now, log, writes, history, job, curves, query, asks, failures>>

Tick == /\ Going /\ now < MaxNow /\ now' = now + 1
        /\ UNCHANGED <<log, writes, candles, history, job, curves, query, asks, failures>>

Init == /\ now = StartNow /\ log = <<>>
        /\ writes = [revision |-> 0, late |-> <<>>, discarded |-> 0]
        /\ candles = [minutes |-> {}, revision |-> 0]
        /\ history = Empty /\ job = Idle /\ curves = <<>>
        /\ query = [q \in Queries |-> Resting] /\ asks = 0 /\ failures = 0

Next == \/ \E u \in Updates : AppendUpdate(u)
        \/ RecordAppend \/ StartRefresh \/ FoldBase \/ FoldTail \/ RefreshFails
        \/ \E q \in Queries : \/ \E in \in Questions : Ask(q, in)
                              \/ Refused(q) \/ Waited(q) \/ GiveUp(q) \/ Read(q)
                              \/ StartCurve(q) \/ FinishCurve(q) \/ CurveFails(q)
                              \/ AnswerCost(q)
        \/ \E symbol \in DOMAIN World : SavePage(symbol)
        \/ Tick

----------------------------------------------------------------------------
(* Properties. *)

TypeOK ==
    /\ now \in StartNow..MaxNow /\ asks \in 0..MaxAsks /\ failures \in 0..MaxFailures
    /\ Len(log) - writes.revision \in {0, 1} /\ Len(writes.late) <= LateKept
    /\ job.phase \in {"none", "spawned", "started", "folded"}
    /\ history.ready \in BOOLEAN /\ history.revision \in 0..writes.revision
    /\ Cardinality(Done(curves)) <= CurveSlots
    /\ \A i, j \in DOMAIN curves : curves[i].key = curves[j].key => i = j
    /\ \A q \in Queries : query[q].phase \in
           {"idle", "waiting", "passed", "read", "computing", "joined", "answered"}

\* What following the publications at places K of the log meant, from the beginning.
Everything == {<<s, o>> : s \in DOMAIN World, o \in UNION {DOMAIN World[s] : s \in DOMAIN World}}
Replayed(K, in) ==
    LET all == Ingest(Fresh, InOrder({log[i] : i \in K})).deltas
        asked == SelectSeq(all, LAMBDA d : d.source \in in.sources /\ d.at <= in.end
                                           /\ in.strategy \in {"", d.strategy})
    IN  [i \in DOMAIN asked |-> Charged(asked[i], InputModels(in)[asked[i].source])]
TrueMark(symbol, ts) == World[symbol][FloorMinute(ts) - Minute].close

\* Value and cost at `ts`: what was held is worth what it is worth now, whatever
\* lot it came from.
TruePoint(fills, ts, in, end) ==
    LET Since(f) == IF f.ts < in.start THEN TrueMark(f.market[2], in.start) ELSE f.price
        done == {i \in DOMAIN fills : fills[i].ts <= ts}
        before == SumOf(done, LAMBDA i :
            fills[i].qty * (TrueMark(fills[i].market[2], ts) - Since(fills[i])))
        fees == SumOf({i \in done : fills[i].ts >= in.start}, LAMBDA i :
            Abs(fills[i].qty) * fills[i].price * fills[i].fee)
    IN  IF ts = in.start /\ ts < end THEN [ts |-> ts, before |-> 0, after |-> 0]
        ELSE [ts |-> ts, before |-> before, after |-> before - fees]
IsCurve(points, deltas, in, end) ==
    LET fills == Fills(deltas, PricesOf(deltas, Everything), end)
        ticks == Ticks(SelectSeq(fills, LAMBDA f : f.ts >= in.start), in.start, end)
        true == {TruePoint(fills, t, in, end) : t \in ticks}
        shown == ToSet(points)
    IN  /\ shown \subseteq true
        /\ points[1].ts = in.start /\ points[Len(points)].ts = end
        /\ \A i \in 1..Len(points) - 1 : points[i].ts < points[i + 1].ts
        /\ \A p \in true :
              /\ \E low, high \in shown : low.before <= p.before /\ p.before <= high.before
              /\ \E low, high \in shown : low.after <= p.after /\ p.after <= high.after

\* A fill was compared with the change it followed, and the report adds up.
IsReport(report, deltas, in) ==
    LET fills == DOMAIN report.outcome
        matched == DOMAIN report.reference
        Of(f) == {i \in DOMAIN deltas : Key(deltas[i]) = Key(f) /\ deltas[i].at <= SignalTs(f)}
        Followed(f) == deltas[Max(Of(f))]
        Then(f) == Priced(f.symbol, Followed(f).model, Followed(f).at, Everything)
        True(f) == f.qty * (f.price - Then(f).average)
    IN  /\ \A f \in fills : report.outcome[f] # "unmatched" =>
              /\ Of(f) # {}
              /\ report.outcome[f] = "stale" <=> SignalTs(f) - Followed(f).at > MaxReference
              /\ report.outcome[f] = "matched" =>
                     report.reference[f] = Followed(f) /\ f.qty * Followed(f).qty > 0
        /\ report.totals.fills = Cardinality(matched)
        /\ report.totals.shortfall = SumOf(matched, True)
        /\ \A d \in Dimensions : LET by == report.by[d] IN
              /\ SumOf(DOMAIN by, LAMBDA b : by[b].fills) = report.totals.fills
              /\ SumOf(DOMAIN by, LAMBDA b : by[b].turnover) = report.totals.turnover
              /\ SumOf(DOMAIN by, LAMBDA b : by[b].shortfall) = report.totals.shortfall
              /\ SumOf(DOMAIN by, LAMBDA b : by[b].fee - by[b].virtualFee)
                 = report.totals.feeShortfall
        /\ report.points # <<>> =>
              report.points[Len(report.points)].shortfall = report.totals.shortfall

(***************************************************************************)
(* An answer, computed or taken from the kept curves, is the one a replay  *)
(* of the archive gives: of every publication recorded before the query    *)
(* was asked, or before the refresh it found under way began, and perhaps  *)
(* of some of the later ones, in whatever order they were written and      *)
(* however the index got to them.  A curve shows at every point the value  *)
(* of the positions held; thinning it loses no extreme (theoretical_nav.rs *)
(* query_inputs, rebuild_timeline).  A report compares each fill with the  *)
(* last change before its signal or not at all, and every breakdown adds   *)
(* up to the total (acquisition_cost.rs).                                  *)
(*                                                                         *)
(* Not of an answer that was read behind a refresh which failed after the  *)
(* query had waited (query_inputs asks for the error only while it waits): *)
(* that finds changes both in the base and in the tail of the refresh      *)
(* before, or an index that was just emptied.                              *)
(***************************************************************************)
TheoryHolds ==
    \A q \in Queries : query[q].phase = "answered" /\ query[q].answer # <<>> /\ ~query[q].torn =>
        \E later \in SUBSET (query[q].asked + 1..Len(log)) :
            LET in == query[q].input
                deltas == Replayed((1..query[q].asked) \union later, in)
            IN  IF in.kind = "curve" THEN IsCurve(query[q].answer, deltas, in, query[q].end)
                ELSE IsReport(query[q].answer, deltas, in)
=============================================================================
