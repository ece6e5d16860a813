--------------------------- MODULE AccountOverview ---------------------------
(***************************************************************************)
(* The monitoring table of one account (account_overview.rs): samples of   *)
(* its equity and exposure that go to RocksDB and to a window in memory,   *)
(* the equity at every Shanghai midnight rebuilt once a day from the       *)
(* account NAV and anchored to a sample (account_overview/daily.rs,        *)
(* web/equity_history.rs), and the row answered from both.                 *)
(*                                                                         *)
(* The account's equity moves with its NAV only: transfers are left out.   *)
(* Time counts from a Shanghai midnight.  An optional value is a set of at *)
(* most one element.  An exposure is named by the time it was measured,    *)
(* a leverage by that time and the equity it was divided by.               *)
(***************************************************************************)
EXTENDS Integers, FiniteSets, FiniteSetsExt, TLC

CONSTANTS Day,             \* DAY_MS
          FreshFor,        \* SAMPLE_FRESH_MS
          KeepDays,        \* days of samples kept in memory
          SpanDays,        \* days of a drawdown
          RebuildDays,     \* days before today a rebuild goes back
          MaxAnchorAge,    \* age of the sample a rebuild may be anchored to
          AlertAfter,      \* overview_alerts.timeout_secs
          Deposit, Gains,  \* the account: equity at 0, and [at, amount]
          NavFrom,         \* start of the account's order history
          Misallocated,    \* NAV the wrong strategy allocation adds
          GenerationTime,
          StartNow, MaxNow, MaxSamples, MaxMishaps

VARIABLES now,
          setback,   \* how far the host's clock was put back
          reading,   \* time of the equity the live feed delivered last
          observed,  \* samples in RocksDB
          recent,    \* State.history
          latest,    \* State.latest
          stored,    \* cta_account_equity_daily
          daily,     \* State.daily
          loaded,    \* stored was read into daily
          actual,    \* actual funding is selected
          through,   \* when the newest NAV generation began to read
          rebuild,   \* the rebuild under way
          samples, mishaps

overviewVars == <<now, setback, reading, observed, recent, latest, stored, daily,
                  loaded, actual, through, rebuild, samples, mishaps>>

Idle == [pc |-> "idle"]
Wall == now - setback
DayStart(t) == (t \div Day) * Day
Today == DayStart(Wall)
Fresh(age) == age \in 0..FreshFor

\* What the account is worth; what a NAV generation that began to read at `seen`
\* says it earned, with strategy allocations counted or not.
Earned(t) == MapThenSumSet(LAMBDA g : g.amount, {g \in Gains : g.at <= t})
Equity(t) == Deposit + Earned(t)
Nav(t, seen, allocated, from) ==
    Earned(Min({t, seen})) + IF allocated = actual /\ t > from THEN Misallocated ELSE 0

----------------------------------------------------------------------------
(* Drawdowns, in percent; `value` gives the equity at each of its times. *)

Fall(peak, low) == ((peak - low) * 100) \div peak

MaximumDrawdown(value) ==
    LET Peak(t) == Max({0} \union {value[s] : s \in {s \in DOMAIN value : s <= t}})
        risen == {t \in DOMAIN value : Peak(t) > 0}
    IN {Max({0} \union {Fall(Peak(t), value[t]) : t \in risen}) : x \in {y \in {risen} : y # {}}}

\* daily.rs drawdown: from the last sample at or before the start of the span.
Drawdown(equities, end) ==
    LET before == {t \in DOMAIN equities : t <= end - SpanDays * Day}
    IN IF before = {} THEN {}
       ELSE MaximumDrawdown([t \in Max(before)..end \intersect DOMAIN equities |-> equities[t]])

----------------------------------------------------------------------------
(* One account, one generation of daily rows. *)

\* The NAV engine samples every fill, every Shanghai midnight and the end.
Samples(from, end) ==
    {t \in from..end : t \in {from, end, DayStart(t)} \/ \E g \in Gains : g.at = t}

\* The anchored equity less what the NAV changed since; no row where a midnight
\* is missing, and none for another day than the one rebuilt.
Reconstruct(anchor, nav) ==
    LET equities == [t \in DOMAIN nav |-> anchor.equity - (nav[anchor.ts] - nav[t])]
        midnights == {t \in DOMAIN nav : DayStart(t) = t}
        final == [anchor EXCEPT !.drawdown = Drawdown(equities, anchor.ts)]
        usable == /\ DayStart(anchor.ts) = anchor.day /\ anchor.computed >= anchor.ts
                  /\ anchor.day = Max(midnights)
                  /\ \A t \in midnights : t = Min(midnights) \/ t - Day \in midnights
    IN IF usable
       THEN [t \in midnights |->
                [equity |-> equities[t], drawdown |-> Drawdown(equities, t), anchor |-> final,
                 previous |-> {equities[s] : s \in midnights \intersect {t - Day}}]]
       ELSE <<>>

\* Never back across an incomplete first day.
FirstSettlementBoundary == IF DayStart(NavFrom) < NavFrom THEN DayStart(NavFrom) + Day
                           ELSE DayStart(NavFrom)
RebuildFrom(day) == Max({FirstSettlementBoundary, day - RebuildDays * Day})

\* The days rows were computed on.
RebuiltDays(rows) == {rows[t].anchor.day : t \in DOMAIN rows}

\* Fault: any recent sample anchors a rebuild, read by the NAV or not.
AnchorUnseen(o) == Wall - o.at \in 0..MaxAnchorAge

\* reconstruction_anchor: the newest sample a NAV generation has already read
\* past, while the feed is live.
AnchorSeen(o) == o.at <= through /\ Wall - o.at \in 0..MaxAnchorAge
Anchor ==
    LET fit == {o \in recent : AnchorSeen(o)}
    IN IF \E o \in latest : Fresh(Wall - o.at)
       THEN {o \in fit : \A p \in fit : p.observed <= o.observed} ELSE {}

----------------------------------------------------------------------------
(* The row of the table. *)

Zip(a, b) == a \X b
Leverage(exposure, equity) == Zip(exposure, {e \in equity : e > 0})
Profit(equity, baseline) == {z[1] - z[2] : z \in Zip(equity, baseline)}
Newest(rows) == {o \in rows : \A p \in rows : p.observed <= o.observed}

\* A sample close before midnight is what the day started from.
Baseline(history, start) ==
    LET near == {o \in history : o.at <= start /\ o.at >= start - FreshFor}
    IN {o.equity : o \in {o \in near : \A p \in near :
              p.at <= o.at /\ (p.at = o.at => p.observed <= o.observed)}}

\* Only where samples cover the span and every day of it.
SampledDrawdown(current, history, end) ==
    LET from == end - SpanDays * Day
        inSpan == {o \in history \union current : o.at \in from..end}
        At(t) == IF \E o \in current : o.at = t THEN (CHOOSE o \in current : TRUE).equity
                 ELSE (CHOOSE o \in inSpan : o.at = t /\ \A p \in inSpan :
                          p.at = t => p.observed <= o.observed).equity
        covered == history # {} /\ \A o \in history :
                       (\A p \in history : o.observed <= p.observed) => o.at <= from
        complete == \A k \in 0..SpanDays :
                       \E o \in inSpan : DayStart(o.at) = DayStart(end) - k * Day
    IN IF covered /\ complete THEN MaximumDrawdown([t \in {o.at : o \in inSpan} |-> At(t)])
       ELSE {}

MakeRow(current, history, end) ==
    LET start == DayStart(end)
        yesterday == Baseline(history, start)
        long == UNION {{p \in o.long : Fresh(o.observed - p)} : o \in current}
        fresh == {o.equity : o \in {o \in current : Fresh(end - o.at)}}
    IN [yesterday |-> yesterday,
        equity |-> {o.equity : o \in current},
        profit |-> Profit({o.equity : o \in {o \in current : o.at >= start}}, yesterday),
        long |-> long,
        leverage |-> Leverage(long, fresh),
        drawdown |-> SampledDrawdown(current, history, end),
        date |-> {o.at : o \in current},
        late |-> {\A o \in current : end - o.at > AlertAfter},
        rebuilt |-> FALSE]

\* Fault: whatever exposure the day's last sample has is shown.
ExposureKept(row, closing) == row.long

\* Historical exposure is kept when it was measured near the closing equity.
ClosingExposure(row, closing) ==
    IF \E t \in row.date : t >= closing - FreshFor THEN row.long ELSE {}

WithClosing(row, closing) ==
    LET long == ClosingExposure(row, closing)
        equity == {daily[closing].equity}
    IN [row EXCEPT !.long = long, !.equity = equity, !.yesterday = daily[closing].previous,
                   !.date = {closing}, !.drawdown = daily[closing].drawdown, !.late = {},
                   !.leverage = Leverage(long, equity), !.rebuilt = TRUE]
WithBaseline(row, day) ==
    [row EXCEPT !.yesterday = {daily[day].equity}, !.drawdown = daily[day].anchor.drawdown,
                !.rebuilt = TRUE]
WithProfit(row, day) ==
    [row EXCEPT !.profit = Profit(IF \E t \in row.date : t >= day THEN row.equity ELSE {},
                                  row.yesterday)]

ApplyDaily(row, day) ==
    IF day < Today
    THEN IF day + Day \in DOMAIN daily THEN WithProfit(WithClosing(row, day + Day), day) ELSE row
    ELSE IF day \in DOMAIN daily THEN WithProfit(WithBaseline(row, day), day) ELSE row

\* The days that can be asked for, the days the table offers, and the row of one.
Askable == {t \in 0..Today : DayStart(t) = t}
Offered == {DayStart(o.observed) : o \in recent}
           \union {t - Day : t \in {t \in DOMAIN daily : t <= Today /\ t - Day \in DOMAIN daily}}
Report(day) ==
    LET end == Min({day + Day - 1, Wall})
        history == {o \in recent : o.observed <= end}
        current == IF day = Today THEN IF latest # {} THEN latest ELSE Newest(history)
                   ELSE {o \in Newest(history) : o.observed >= DayStart(end)}
    IN ApplyDaily(MakeRow(current, history, end), day)

----------------------------------------------------------------------------
(* The process starts. *)

Init ==
    /\ now = StartNow /\ setback = 0 /\ reading = 0
    /\ observed = {} /\ recent = {} /\ latest = {}
    /\ stored = <<>> /\ daily = <<>> /\ loaded = FALSE
    /\ actual \in BOOLEAN /\ through = 0 /\ rebuild = Idle
    /\ samples = 0 /\ mishaps = 0

Mishap == mishaps < MaxMishaps /\ mishaps' = mishaps + 1

Tick ==
    /\ now < MaxNow /\ now' = now + 1
    /\ UNCHANGED <<setback, reading, observed, recent, latest, stored, daily, loaded, actual,
                   through, rebuild, samples, mishaps>>

ClockBack ==
    /\ Mishap /\ setback' = setback + 1
    /\ UNCHANGED <<now, reading, observed, recent, latest, stored, daily, loaded, actual,
                   through, rebuild, samples>>

(* spawn: a round reads the live equity and the exposure, stores a fresh      *)
(* sample under its time and adds it to the window; the newest reading is     *)
(* shown however old it is.  A second sample of the same time is refused.     *)
Observation(r, p) ==
    [observed |-> Wall, at |-> r, equity |-> Equity(r), long |-> {q \in {p} : Fresh(Wall - q)}]
Refused(o) == \E p \in observed : p.observed = o.observed /\ p # o
KeptSamples(rows, o) ==
    {p \in rows \union {o} : p.observed >= DayStart(o.observed) - KeepDays * Day}

Sample(r, p) ==
    LET seen == Observation(r, p)
        fresh == Fresh(seen.observed - seen.at)
    IN /\ samples < MaxSamples /\ samples' = samples + 1
       /\ r >= reading /\ r <= Wall /\ reading' = r
       /\ fresh => ~Refused(seen)
       /\ observed' = IF fresh THEN observed \union {seen} ELSE observed
       /\ recent' = IF fresh THEN KeptSamples(recent, seen) ELSE recent
       /\ latest' = {seen}
       /\ UNCHANGED <<now, setback, stored, daily, loaded, actual, through, rebuild,
                      mishaps>>

\* A NAV generation is served that began to read GenerationTime ago.
Generate ==
    /\ Wall - GenerationTime > through /\ through' = Wall - GenerationTime
    /\ UNCHANGED <<now, setback, reading, observed, recent, latest, stored, daily, loaded,
                   actual, rebuild, samples, mishaps>>

SwitchFunding ==
    /\ Mishap /\ actual' = ~actual
    /\ UNCHANGED <<now, setback, reading, observed, recent, latest, stored, daily, loaded,
                   through, rebuild, samples>>

\* A new process: the window is read back from RocksDB, or cannot be.
StoredWindow == {o \in observed : o.observed \in (Today - KeepDays * Day)..Wall}
Restart ==
    /\ Mishap /\ recent' \in {StoredWindow, {}} /\ latest' = {}
    /\ daily' = <<>> /\ loaded' = FALSE /\ through' = 0 /\ rebuild' = Idle
    /\ UNCHANGED <<now, setback, reading, observed, stored, actual, samples>>

----------------------------------------------------------------------------
(* The daily rebuild (web/equity_history.rs spawn).  A rebuild that cannot be *)
(* done now is tried again a pause later, that is, some time.                 *)

rebuildOnly == <<now, setback, reading, observed, recent, latest, actual, through, samples>>

\* A pass first reads PostgreSQL once; the generation is looked at before the
\* sample is chosen.
Loaded == IF loaded THEN daily ELSE stored @@ daily
BeginRebuild ==
    /\ rebuild = Idle /\ daily' = Loaded /\ loaded' = TRUE
    /\ IF ~(\E d \in RebuiltDays(Loaded) : d >= Today) /\ RebuildFrom(Today) <= Today
          /\ \E o \in Anchor : o.at >= Today
       THEN \E o \in Anchor :
                rebuild' = [pc |-> "building", anchor |-> o, day |-> Today, allocated |-> ~actual]
       ELSE UNCHANGED rebuild
    /\ UNCHANGED <<rebuildOnly, stored, mishaps>>

\* The timeline follows the newest generation; it must not mix two selections.
SameSelection == rebuild.allocated = ~actual
Rebuilt ==
    LET origin == rebuild.anchor
        from == RebuildFrom(rebuild.day)
    IN Reconstruct([day |-> rebuild.day, ts |-> origin.at, equity |-> origin.equity, computed |-> Wall,
                    drawdown |-> {}],
                   [t \in Samples(from, origin.at) |-> Nav(t, through, rebuild.allocated, from)])
FinishRebuild ==
    /\ rebuild.pc = "building"
    /\ rebuild' = IF SameSelection /\ Rebuilt # <<>> THEN [pc |-> "saving", rows |-> Rebuilt]
                  ELSE Idle
    /\ UNCHANGED <<rebuildOnly, stored, daily, loaded, mishaps>>
\* Marks or funding are not ready.
NotRebuilt ==
    /\ rebuild.pc = "building" /\ rebuild' = Idle
    /\ UNCHANGED <<rebuildOnly, stored, daily, loaded, mishaps>>

\* save: one generation a day, in one transaction.
DayOf(rows) == CHOOSE d \in RebuiltDays(rows) : TRUE
AlreadySaved == \E d \in RebuiltDays(stored) : d >= DayOf(rebuild.rows)
Save ==
    /\ rebuild.pc = "saving" /\ rebuild' = Idle
    /\ IF AlreadySaved THEN daily' = stored @@ daily /\ UNCHANGED stored
       ELSE stored' = rebuild.rows @@ stored /\ daily' = rebuild.rows @@ daily
    /\ UNCHANGED <<rebuildOnly, loaded, mishaps>>
\* The transaction fails, or its answer is lost after it was committed.
SaveFails ==
    /\ rebuild.pc = "saving" /\ Mishap /\ rebuild' = Idle
    /\ stored' \in {stored, IF AlreadySaved THEN stored ELSE rebuild.rows @@ stored}
    /\ UNCHANGED <<rebuildOnly, daily, loaded>>

Next ==
    \/ Tick \/ ClockBack \/ SwitchFunding \/ Restart
    \/ \E r \in {reading, Wall}, p \in {Wall - FreshFor, Wall - FreshFor - 1} : Sample(r, p)
    \/ Generate
    \/ BeginRebuild \/ FinishRebuild \/ NotRebuilt \/ Save \/ SaveFails

----------------------------------------------------------------------------
(* Properties. *)

TypeOK ==
    /\ now \in StartNow..MaxNow /\ setback \in 0..now /\ reading \in 0..now
    /\ recent \subseteq observed /\ Cardinality(latest) <= 1
    /\ \A rows \in {stored, daily} : \A t \in DOMAIN rows : DayStart(t) = t /\ t <= now
    /\ loaded \in BOOLEAN /\ actual \in BOOLEAN /\ through \in 0..now
    /\ rebuild.pc \in {"idle", "building", "saving"}
    /\ {samples, mishaps} \subseteq Nat

(* Every midnight rebuilt, in PostgreSQL and in the table, has the equity the *)
(* account had then, the equity of the midnight before or none, and the worst *)
(* fall within a span the order history covers.  The table is never ahead of  *)
(* PostgreSQL, so a restart takes back nothing that was shown (daily.rs       *)
(* reconstruct, save; equity_history.rs rebuild).                             *)
WorstFall(from, to) ==
    LET falls == {z \in (from..to) \X (from..to) : z[1] <= z[2]}
    IN Max({Fall(Equity(z[1]), Equity(z[2])) : z \in falls})
RightRow(row, t) ==
    /\ row.equity = Equity(t) /\ row.previous \subseteq {Equity(t - Day)}
    /\ \A fall \in row.drawdown : fall = WorstFall(t - SpanDays * Day, t)
DailyRight ==
    /\ \A rows \in {stored, daily} : \A t \in DOMAIN rows : RightRow(rows[t], t)
    /\ \A t \in DOMAIN daily : t \in DOMAIN stored /\ daily[t].anchor.day <= stored[t].anchor.day

(* A row of the table shows the equity of its date, a date of the day asked   *)
(* for, a profit since that day's midnight (or a sample just before it), no   *)
(* exposure that is old next to the equity it is shown or divided with, no    *)
(* fall worse than the account had; an old row is not shown without an alert. *)
ShownRight(day, row) ==
    LET end == Min({day + Day - 1, Wall})
    IN /\ \A t \in row.date : /\ row.equity = {Equity(t)}
                              /\ day < Today => t \in (day - FreshFor)..(day + Day)
                              /\ \A p \in row.long : p >= t - 2 * FreshFor
       /\ \A gain \in row.profit : \E t \in row.date :
              t >= day /\ \E s \in (IF row.rebuilt THEN day ELSE day - FreshFor)..day :
                             gain = Equity(t) - Equity(s)
       /\ \A l \in row.leverage : l[1] >= end - 2 * FreshFor
       /\ \A fall \in row.drawdown : fall <= WorstFall(end - (SpanDays + 1) * Day, end + 1)
       /\ row.late = {FALSE} => \E t \in row.date : end - t <= AlertAfter
TableRight ==
    \A day \in Askable : ShownRight(day, Report(day))

(* A day the table offers can be shown (account_overview.rs report).          *)
OfferedIsShown == \A day \in Offered \intersect Askable : Report(day).equity # {}

OverviewHolds == DailyRight /\ TableRight /\ OfferedIsShown
=============================================================================
