------------------------------ MODULE NavCurves ------------------------------
(***************************************************************************)
(* The four-hour NAV curves of the monitoring page: one worker             *)
(* (web/nav_monitor.rs spawn) computes them for the Manager's own account  *)
(* from a dashboard generation and fetches those of an external provider,  *)
(* keeps only the points of the closed grid, writes them to RocksDB and    *)
(* then to the map requests are answered from (account_overview/nav.rs).   *)
(*                                                                         *)
(* A curve is [source, points, generated, funding, complete, loading]; its *)
(* points are a function from their times.  An optional value is a set of  *)
(* at most one element.                                                    *)
(***************************************************************************)
EXTENDS Integers, Sequences, FiniteSets, FiniteSetsExt, TLC

CONSTANTS CurveStep,       \* INTERVAL_MS
          OwnSource, FarSource,
          FirstPoint,      \* source -> start of its history
          Booked,          \* what fills and fees moved, [at, amount]
          Allocated,       \* NAV counting the strategies' allocations adds
          Paid,            \* NAV funding statements add
          ReadTime,        \* longest read of a dashboard generation
          CurveStart, CurveEnd, MaxUpsets

VARIABLES now,
          statements,   \* funding settings: statements are selected
          generation,   \* newest dashboard generation, [read, ended]
          catalog,      \* external sources the provider lists
          persisted,    \* source -> [key, through, report] in RocksDB
          served,       \* the same in memory
          pass,         \* the worker
          setup,        \* sources configured, the provider's being one
          upsets        \* selections changed and restarts

curveVars == <<now, statements, generation, catalog, persisted, served, pass,
               setup, upsets>>

Sources == {OwnSource, FarSource}
Resting == [pc |-> "rest"]

GridEnd(t) == (t \div CurveStep) * CurveStep
NextTick(t) == GridEnd(t) + CurveStep
OnGrid(t) == GridEnd(t) = t

\* What a book read at `seen` says the source had earned by t since its start.
Since(source, t, seen) ==
    MapThenSumSet(LAMBDA b : b.amount,
        {b \in Booked : b.at > FirstPoint[source] /\ b.at <= t /\ b.at <= seen})

\* The engine samples the start, every boundary and the end.
Samples(from, end) == {t \in from..end : t \in {from, end} \/ OnGrid(t)}
Consecutive(points) ==
    {w \in points \X points : w[1] < w[2] /\ ~\E t \in points : w[1] < t /\ t < w[2]}

----------------------------------------------------------------------------
(* Reports (account_overview/nav.rs). *)

Pending(source) ==
    [source |-> source, points |-> <<>>, generated |-> now, funding |-> "",
     complete |-> FALSE, loading |-> TRUE]

Valid(report, source) ==
    LET points == DOMAIN report.points IN
    /\ report.source = source
    /\ report.generated \in 1..now
    /\ points = {} => ~report.complete
    /\ points # {} =>
         /\ Min(points) > 0 /\ Max(points) <= report.generated
         /\ report.points[Min(points)] = 0
         /\ \A t \in points \ {Min(points), Max(points)} : OnGrid(t)
    /\ report.complete =>
         \A w \in Consecutive(points) : w[2] = Min({NextTick(w[1]), Max(points)})

\* Only points up to the boundary; the first alone may be off the grid.
UpTo(report, cutoff) ==
    LET near == {t \in DOMAIN report.points : t <= cutoff}
        grid == {t \in near : t = Min(near) \/ \E s \in near : s >= t /\ OnGrid(s)}
    IN [report EXCEPT !.points = [t \in grid |-> report.points[t]]]

\* Fault: any history is filed for the boundary, however far it goes.
AnyHistory(report, cutoff) == report.points # <<>>

Gapless(report, cutoff) ==
    LET points == DOMAIN report.points IN
    /\ points # {} /\ Max(points) = cutoff
    /\ \A w \in Consecutive(points) : w[2] = NextTick(w[1])

\* closed_grid: nothing where the boundary's point or one before it is missing.
ClosedGrid(report, cutoff) ==
    {r \in {UpTo(report, cutoff)} : Valid(report, report.source) /\ Gapless(r, cutoff)}

Reloadable(source, s) ==
    /\ Valid(s.report, source) /\ OnGrid(s.through)
    /\ ClosedGrid(s.report, s.through) # {} /\ Max(DOMAIN s.report.points) = s.through

IsCurrent(source, cutoff, key) ==
    source \in DOMAIN served /\ served[source].through = cutoff
                             /\ served[source].key = key /\ ~served[source].report.loading

Read(source) ==
    IF source \notin DOMAIN served THEN Pending(source)
    ELSE IF served[source].through < GridEnd(now)
    THEN [served[source].report EXCEPT !.complete = FALSE, !.loading = TRUE]
    ELSE served[source].report

----------------------------------------------------------------------------
(* The curve of the Manager's own account (web/nav_monitor.rs calculate). *)

\* Statements where they are selected, or where rates cannot stand in for them.
Funding(selected, actual, estimate) ==
    LET paid == actual # "none" /\ (selected \/ estimate # "whole")
    IN IF paid THEN "actual" ELSE IF estimate # "none" THEN "estimated" ELSE "unavailable"

Shift(allocation, funding) == (IF allocation THEN Allocated ELSE 0)
                              + IF funding = "actual" THEN Paid ELSE 0

OwnCurve(end, seen, allocation, funding) ==
    [t \in Samples(FirstPoint[OwnSource], end) |->
        Since(OwnSource, t, seen)
        + IF t > FirstPoint[OwnSource] THEN Shift(allocation, funding) ELSE 0]

Covered(funding, actual, estimate) ==
    IF funding = "actual" THEN actual = "whole" ELSE estimate = "whole"

----------------------------------------------------------------------------
(* The provider (external.rs nav_monitor): what it may answer. *)

FarCurve(points) == [t \in points |-> Since(FarSource, t, t)]
FarReport(points, complete, loading) ==
    [source |-> FarSource, points |-> FarCurve(points), generated |-> now,
     funding |-> "", complete |-> complete, loading |-> loading]
FarReports ==
    LET all == Samples(FirstPoint[FarSource], now) IN
    {FarReport(all, TRUE, FALSE), FarReport(all, FALSE, TRUE),
     FarReport({t \in all : t < Max(all)}, TRUE, FALSE),
     FarReport(all \ {CurveStep}, FALSE, FALSE), Pending(FarSource),
     [FarReport(all, TRUE, FALSE) EXCEPT !.source = OwnSource]}

----------------------------------------------------------------------------
Init ==
    /\ now = CurveStart /\ statements \in BOOLEAN
    /\ generation = {} /\ catalog = {}
    /\ persisted = <<>> /\ served = <<>> /\ pass = Resting
    /\ setup \in SUBSET Sources /\ upsets = 0

Tick ==
    /\ now < CurveEnd /\ now' = now + 1
    /\ UNCHANGED <<statements, generation, catalog, persisted, served, pass, setup, upsets>>

\* The dashboard's loop: a generation begins after the last one ended.
Generate ==
    /\ \E read \in (now - ReadTime)..now :
           /\ read >= CurveStart /\ \A g \in generation : read >= g.ended
           /\ generation' = {[read |-> read, ended |-> now]}
    /\ generation' # generation
    /\ UNCHANGED <<now, statements, catalog, persisted, served, pass, setup, upsets>>

FlipFunding ==
    /\ upsets < MaxUpsets /\ upsets' = upsets + 1
    /\ statements' = ~statements
    /\ UNCHANGED <<now, generation, catalog, persisted, served, pass, setup>>

\* spawn of external.rs: a table that is not a warm-up replaces the catalog.
FetchTable ==
    /\ \E accounts \in SUBSET (setup \ {OwnSource}) :
           accounts # catalog /\ catalog' = accounts
    /\ UNCHANGED <<now, statements, generation, persisted, served, pass, setup, upsets>>

FundingKey == <<statements>>

BeginPass ==
    /\ pass = Resting
    /\ pass' = [pc |-> "next", cutoff |-> GridEnd(now),
                queue |-> (IF OwnSource \notin setup THEN <<>>
                           ELSE <<[source |-> OwnSource, key |-> FundingKey]>>) \o
                          (IF catalog = {} THEN <<>>
                           ELSE <<[source |-> FarSource, key |-> <<>>]>>)]
    /\ UNCHANGED <<now, statements, generation, catalog, persisted, served, setup, upsets>>

Rest == [pc |-> "next", cutoff |-> pass.cutoff, queue |-> Tail(pass.queue)]

EndPass ==
    /\ pass.pc = "next" /\ pass.queue = <<>> /\ pass' = Resting
    /\ UNCHANGED <<now, statements, generation, catalog, persisted, served, setup, upsets>>

\* The next source: nothing to do, or not yet.
Skip ==
    /\ pass.pc = "next" /\ pass.queue # <<>>
    /\ LET at == Head(pass.queue) IN
           \/ IsCurrent(at.source, pass.cutoff, at.key)
           \/ at.source = OwnSource /\ \/ ~\E g \in generation : g.ended >= pass.cutoff
                                       \/ FirstPoint[OwnSource] > pass.cutoff
    /\ pass' = Rest
    /\ UNCHANGED <<now, statements, generation, catalog, persisted, served, setup, upsets>>

\* calculate: the allocation is read first, the timeline is replayed after.
Ask ==
    /\ pass.pc = "next" /\ pass.queue # <<>> /\ Head(pass.queue).source = OwnSource
    /\ ~IsCurrent(OwnSource, pass.cutoff, Head(pass.queue).key)
    /\ \E g \in generation : g.ended >= pass.cutoff
    /\ FirstPoint[OwnSource] <= pass.cutoff
    /\ pass' = [pass EXCEPT !.pc = "replay"] @@ [allocation |-> ~statements]
    /\ UNCHANGED <<now, statements, generation, catalog, persisted, served, setup, upsets>>

\* rebuild_timeline_snapshot: its own generation, and the funding of the end.
ReplayTimeline ==
    /\ pass.pc = "replay"
    /\ \E g \in generation, actual, estimate \in {"whole", "partial", "none"},
          loading \in BOOLEAN :
           LET funding == Funding(statements, actual, estimate)
               waits == funding # "actual" /\ loading
           IN pass' = [pass EXCEPT !.pc = "save"] @@ [report |->
                 [source |-> OwnSource, generated |-> g.ended, funding |-> funding,
                  points |-> OwnCurve(pass.cutoff, g.read, pass.allocation, funding),
                  complete |-> Covered(funding, actual, estimate) /\ ~waits,
                  loading |-> waits]]
    /\ UNCHANGED <<now, statements, generation, catalog, persisted, served, setup, upsets>>

NotPriced ==
    /\ pass.pc = "replay" /\ pass' = Rest
    /\ UNCHANGED <<now, statements, generation, catalog, persisted, served, setup, upsets>>

\* An answer of the provider, or none; only a valid one is looked at.
Fetch ==
    /\ pass.pc = "next" /\ pass.queue # <<>> /\ Head(pass.queue).source = FarSource
    /\ ~IsCurrent(FarSource, pass.cutoff, <<>>)
    /\ \/ \E report \in {r \in FarReports : Valid(r, FarSource)} :
              pass' = [pass EXCEPT !.pc = "save"] @@ [report |-> report]
       \/ pass' = Rest
    /\ UNCHANGED <<now, statements, generation, catalog, persisted, served, setup, upsets>>

With(store, source, saved) ==
    [s \in DOMAIN store \union {source} |-> IF s = source THEN saved ELSE store[s]]

\* Fault: a curve is filed under the funding selected when it is saved.
KeyAtSave(at) == IF at.source = OwnSource THEN FundingKey ELSE <<>>

\* The key the pass took before it computed anything.
KeyOf(at) == at.key

\* save: what is not a closed grid is dropped; the write is durable before the
\* map has it.
Save ==
    /\ pass.pc = "save"
    /\ LET at == Head(pass.queue)
           closed == ClosedGrid(pass.report, pass.cutoff)
       IN IF closed = {} THEN pass' = Rest /\ UNCHANGED persisted
          ELSE /\ persisted' = With(persisted, at.source,
                      [key |-> KeyOf(at), through |-> pass.cutoff,
                       report |-> CHOOSE r \in closed : TRUE])
               /\ pass' = [pc |-> "publish", cutoff |-> pass.cutoff, queue |-> pass.queue]
    /\ UNCHANGED <<now, statements, generation, catalog, served, setup, upsets>>

Serve ==
    /\ pass.pc = "publish"
    /\ LET at == Head(pass.queue) IN served' = With(served, at.source, persisted[at.source])
    /\ pass' = Rest
    /\ UNCHANGED <<now, statements, generation, catalog, persisted, setup, upsets>>

\* A new process: what is stored and sound is served at once.
Restart ==
    /\ upsets < MaxUpsets /\ upsets' = upsets + 1
    /\ served' = [s \in {s \in DOMAIN persisted : Reloadable(s, persisted[s])} |-> persisted[s]]
    /\ generation' = {} /\ pass' = Resting
    /\ UNCHANGED <<now, statements, catalog, persisted, setup>>

Next ==
    \/ Tick \/ Generate \/ FlipFunding \/ FetchTable \/ BeginPass \/ EndPass \/ Skip
    \/ Ask \/ ReplayTimeline \/ NotPriced \/ Fetch \/ Save \/ Serve \/ Restart

----------------------------------------------------------------------------
TypeOK ==
    /\ now \in CurveStart..CurveEnd /\ statements \in BOOLEAN
    /\ \A g \in generation : g.read <= g.ended /\ g.ended <= now
    /\ catalog \subseteq {FarSource}
    /\ DOMAIN persisted \subseteq Sources /\ DOMAIN served \subseteq DOMAIN persisted
    /\ pass.pc \in {"rest", "next", "replay", "save", "publish"}
    /\ setup \subseteq Sources /\ upsets \in 0..MaxUpsets

(* A curve answered as complete reaches the last boundary and has a point at  *)
(* every one since its start, none after, also across a restart and while the *)
(* next one is computed (nav.rs closed_grid, open, read).                     *)
CompleteIsClosed ==
    \A source \in Sources :
        Read(source).complete =>
            DOMAIN Read(source).points = Samples(FirstPoint[source], GridEnd(now))

(* Memory is what RocksDB has, or had before the save under way; stored       *)
(* curves never lose a boundary (nav.rs save, open).                          *)
MemoryBehindStore ==
    \A source \in DOMAIN served :
        \/ served[source] = persisted[source]
        \/ /\ pass.pc = "publish" /\ Head(pass.queue).source = source
           /\ served[source].through <= persisted[source].through

(* A curve the worker takes for current under the present selection was made  *)
(* under it, allocation and funding alike, and misses nothing but what was    *)
(* booked while the generation of its last point was being read               *)
(* (web/nav_monitor.rs calculate, spawn).                                     *)
CurrentIsOfSelection ==
    \A source \in DOMAIN served :
        LET s == served[source]
            key == IF source = OwnSource THEN FundingKey ELSE <<>>
            from == FirstPoint[source]
            shift == IF source = OwnSource THEN Shift(~statements, s.report.funding) ELSE 0
            late == IF source = OwnSource THEN ReadTime ELSE 0
        IN IsCurrent(source, s.through, key) =>
            \A t \in DOMAIN s.report.points :
                s.report.points[t] - (IF t > from THEN shift ELSE 0) \in
                    {Since(source, t, seen) : seen \in (IF t = s.through THEN t - late ELSE t)..t}

CurvesHold == CompleteIsClosed /\ MemoryBehindStore /\ CurrentIsOfSelection
=============================================================================
