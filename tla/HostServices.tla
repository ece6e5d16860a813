---------------------------- MODULE HostServices ----------------------------
(***************************************************************************)
(* The services one Manager process runs beside its target stores and its  *)
(* NAV ledger.  They share the process and nothing else: none reads or     *)
(* writes a variable of another, so a property of one holds of the host if *)
(* it holds whatever that one does while the others rest.  `part` says     *)
(* which one a behaviour is about; it is chosen at the start.              *)
(***************************************************************************)
EXTENDS Integers, Sequences, FiniteSets

VARIABLE part

----------------------------------------------------------------------------
(* Minute candles (KlineCache). *)

CONSTANTS KlineSymbols, DefaultSymbols, Okex, Holes, Waiters, Queries, Minute,
          Retain, Block, Page, OkexPage, Concurrency, Budget, Pauses,
          StartClock, MaxClock
VARIABLES clock, cached, egress, job, task, market, queue, gate, waiter
klineVars == <<clock, cached, egress, job, task, market, queue, gate, waiter>>

ASSUME KlineAssumption ==
    /\ DefaultSymbols \subseteq KlineSymbols /\ Okex \subseteq KlineSymbols
    /\ {Minute, Retain, Block, Page, OkexPage, Concurrency} \subseteq Nat \ {0}
    /\ Budget >= 2 /\ Pauses \subseteq Nat \ {0}
    /\ Queries \subseteq KlineSymbols \X (Nat \X Nat)
    /\ StartClock \in Nat /\ StartClock >= Minute * Retain

Kline == INSTANCE KlineCache WITH Symbols <- KlineSymbols

----------------------------------------------------------------------------
(* Funding income (FundingLedger). *)

CONSTANTS IncomeSymbols, Incomes, FirstOrders, Replay, Window, Retention,
          IncomeRefresh, Addresses, MaxIncomeTime
VARIABLES incomeTime, incomePublished, orders, start, cursors, income, settings,
          address, summary, poll
fundingVars == <<incomeTime, incomePublished, orders, start, cursors, income,
                 settings, address, summary, poll>>

ASSUME FundingAssumption ==
    /\ Incomes \subseteq IncomeSymbols \X (1..MaxIncomeTime)
    /\ FirstOrders \subseteq 1..MaxIncomeTime
    /\ {Replay, Window, Retention, IncomeRefresh, MaxIncomeTime} \subseteq Nat \ {0}

Income == INSTANCE FundingLedger WITH
    Symbols <- IncomeSymbols, Settlements <- Incomes, Refresh <- IncomeRefresh,
    MaxClock <- MaxIncomeTime, now <- incomeTime, published <- incomePublished

----------------------------------------------------------------------------
(* Funding rates (FundingRates). *)

CONSTANTS RateSymbols, RateDefaults, RateTimes, Overlap, Retained, RateRefresh,
          Backoff, MaxRateTime
VARIABLES rateTime, ratePublished, marked, entry, load, budget
ratesVars == <<rateTime, ratePublished, marked, entry, load, budget>>

ASSUME RatesAssumption ==
    /\ RateDefaults \subseteq RateSymbols
    /\ {Overlap, Retained, RateRefresh, Backoff, MaxRateTime} \subseteq Nat \ {0}
    /\ RateTimes \subseteq 1..MaxRateTime

Rates == INSTANCE FundingRates WITH
    Symbols <- RateSymbols, Defaults <- RateDefaults, Settlements <- RateTimes,
    Daily <- FALSE, Refresh <- RateRefresh, MaxClock <- MaxRateTime,
    now <- rateTime, published <- ratePublished

----------------------------------------------------------------------------
(* BFUSD rounds (AutoEarn) and the request budgets they share. *)

CONSTANTS EarnAccounts, EarnIps, EarnSettings, EarnFunds, Headrooms, Quotas,
          Weights, EarnMinute, EarnPause, MaxEarnTime, MaxRounds, MaxResumes,
          MaxEarnRestarts
VARIABLES earnTime, earnDisk, earnMemory, due, round, wallet, requests, turn,
          resumes, rounds, earnRestarts
earnVars == <<earnTime, earnDisk, earnMemory, due, round, wallet, requests, turn,
              resumes, rounds, earnRestarts>>

ASSUME EarnAssumption ==
    /\ Len(EarnIps) \in Nat \ {0} /\ EarnSettings # {} /\ IsFiniteSet(EarnSettings)
    /\ {EarnFunds, EarnMinute, EarnPause, MaxEarnTime} \subseteq Nat
    /\ Headrooms \subseteq Int /\ Quotas \subseteq Nat
    /\ \A s \in EarnSettings :
        /\ {s.interval, s.cap} \subseteq Nat \ {0}
        /\ {s.trigger, s.reserve} \subseteq Nat

Earn == INSTANCE AutoEarn WITH
    Accounts <- EarnAccounts, Ips <- EarnIps, Settings <- EarnSettings,
    Funds <- EarnFunds, Minute <- EarnMinute, Pause <- EarnPause,
    MaxClock <- MaxEarnTime, MaxRestarts <- MaxEarnRestarts, now <- earnTime,
    disk <- earnDisk, memory <- earnMemory, budget <- requests,
    restarts <- earnRestarts

----------------------------------------------------------------------------

(* The monitor of an account (Monitor). *)

CONSTANTS Venues, MarketSymbols, Feeds, Orders, Views, Books, MarketStale,
          OrderStale, PositionStale, NotReady, Grace, Repeat, Tolerance,
          Residual, Interval, Quiet, MaxMonitorTime, MaxChanges
VARIABLES monitorTime, received, records, view, book, notReady, tracker,
          pending, slot, said, told, changes
monitorVars == <<monitorTime, received, records, view, book, notReady,
                 tracker, pending, slot, said, told, changes>>

ASSUME MonitorAssumption ==
    /\ Interval \in Nat \ {0} /\ MaxMonitorTime \in Nat \ {0}
    /\ {MarketStale, OrderStale, PositionStale, NotReady, Grace, Repeat} \subseteq Nat

Watch == INSTANCE Monitor WITH
    MaxClock <- MaxMonitorTime, now <- monitorTime, orders <- records

----------------------------------------------------------------------------

(* Users, grants and the copy publishes are decided by (Directory). *)

CONSTANTS Users, Cookies, Tokens, Strategies, Templates, Accounts, Fees,
          Viewers, MaxEdits, MaxPublishes
VARIABLES roles, sessions, lapsed, grants, rows, templates, bound, fallback,
          fees, directory, live, ready, reload, waiting, arrived, used
directoryVars == <<roles, sessions, lapsed, grants, rows, templates, bound,
                   fallback, fees, directory, live, ready, reload, waiting,
                   arrived, used>>

ASSUME DirectoryAssumption ==
    /\ IsFiniteSet(Users) /\ Fees # {} /\ {MaxEdits, MaxPublishes} \subseteq Nat
    /\ \A x \in Accounts : Viewers[x] \subseteq SUBSET Users

Access == INSTANCE Directory

----------------------------------------------------------------------------

(* What an account's exchange is asked (ExchangeAccount). *)

CONSTANTS AccountKinds, Callers, Leverages, Groups, Charge, NoGroup, MaxCalls, MaxEvents
VARIABLES kind, mode, modes, leverage, margin, group, recorded, checked, call,
          calls, events
accountVars == <<kind, mode, modes, leverage, margin, group, recorded, checked,
                 call, calls, events>>

ASSUME AccountAssumption ==
    /\ Leverages \subseteq Nat
    /\ Groups # {} /\ IsFiniteSet(Groups) /\ NoGroup \notin Groups
    /\ \A g \in Groups \union {NoGroup} : Charge[g] \in Int

Exchange == INSTANCE ExchangeAccount

----------------------------------------------------------------------------

(* The order parameters of a binding (OrderConfig). *)

CONSTANTS Forms, OrderSymbols, Markets, MarketOf, Main, MaxWrites,
          MaxOrderEdits, MaxSaves, MaxFaults
VARIABLES gridAllowed, default, selected, documents, intended, shown, save,
          late, audit, replaced, notified, writes, edits, faults
orderVars == <<gridAllowed, default, selected, documents, intended, shown,
               save, late, audit, replaced, notified, writes, edits, faults>>

Order == INSTANCE OrderConfig WITH
    Symbols <- OrderSymbols, MaxEdits <- MaxOrderEdits

ASSUME OrderAssumption ==
    /\ Main \in Markets /\ OrderSymbols # {} /\ IsFiniteSet(Forms)
    /\ Forms \subseteq Order!AllForms
    /\ {MaxWrites, MaxOrderEdits, MaxSaves, MaxFaults} \subseteq Nat

----------------------------------------------------------------------------

(* Market rules and projected targets (MarketRules). *)

CONSTANTS Hosts, Worlds, QuoteOf, Mappings, Inputs, RuleInterval, MaxRuleAge,
          MaxRuleTime, MaxRulePushes, MaxRuleEvents
VARIABLES host, ruleTime, ruleDue, world, traded, stored, held, cache,
          worker, stray, catalog, shares, request, archived, executed,
          rulePushes, ruleEvents
rulesVars == <<host, ruleTime, ruleDue, world, traded, stored, held, cache,
               worker, stray, catalog, shares, request, archived, executed,
               rulePushes, ruleEvents>>

ASSUME RulesAssumption ==
    /\ Hosts # {} /\ Len(Worlds) \in Nat \ {0} /\ DOMAIN Worlds = 1..Len(Worlds)
    /\ {RuleInterval, MaxRuleTime} \subseteq Nat \ {0}
    /\ {MaxRuleAge, MaxRulePushes, MaxRuleEvents} \subseteq Nat
    /\ \A accounts \in Hosts : \A i \in DOMAIN accounts : accounts[i].shares \in Nat
    \* what TargetProxyConfig::validate asks of the mappings
    /\ \A s \in DOMAIN Mappings :
        /\ {s, Mappings[s].symbol} \subseteq {q \in DOMAIN QuoteOf : QuoteOf[q] = "USDT"}
        /\ {Mappings[s].from, Mappings[s].to} \subseteq Nat \ {0}
    /\ \A w \in DOMAIN Worlds : \A p \in DOMAIN Worlds[w].bybit :
        \A row \in Worlds[w].bybit[p] : row.symbol \in DOMAIN QuoteOf
    /\ 1 \in DOMAIN Inputs
    /\ \A i \in DOMAIN Inputs : \A key \in DOMAIN Inputs[i] :
        /\ key[2] \in DOMAIN QuoteOf
        /\ Inputs[i][key].qty \in Int /\ Inputs[i][key].clear \in BOOLEAN
        \* quantities are whole in the units of either contract
        /\ key[2] \in DOMAIN Mappings =>
             (Inputs[i][key].qty * Mappings[key[2]].from) % Mappings[key[2]].to = 0

Rules == INSTANCE MarketRules WITH
    Interval <- RuleInterval, MaxAge <- MaxRuleAge, MaxClock <- MaxRuleTime,
    MaxPushes <- MaxRulePushes, MaxEvents <- MaxRuleEvents, now <- ruleTime,
    due <- ruleDue, pushes <- rulePushes, events <- ruleEvents

----------------------------------------------------------------------------

(* Theoretical curves and cost reports (TheoreticalNav). *)

CONSTANTS TheoryBackends, TheorySamples, TheoryWorld, TheoryRates,
          TheoryMinute, Quarter, MaxPoints, TheoryTrades, MaxReference,
          PageSize, Updates, Questions, TheoryQueries, Together, Lag, LateKept,
          CurveSlots, TheoryStart, TheoryEnd, MaxAsks, MaxFailures
VARIABLES theoryTime, updateLog, updateWrites, candlesKept, history,
          indexJob, curves, question, asks, failures
theoryVars == <<theoryTime, updateLog, updateWrites, candlesKept, history,
                indexJob, curves, question, asks, failures>>

ASSUME TheoryAssumption ==
    /\ {TheoryMinute, Quarter, CurveSlots, PageSize} \subseteq Nat \ {0}
    /\ {Lag, LateKept, MaxReference, MaxPoints, MaxAsks, MaxFailures} \subseteq Nat

Theory == INSTANCE TheoreticalNav WITH
    Backends <- TheoryBackends, Samples <- TheorySamples,
    World <- TheoryWorld, FeesNow <- TheoryRates, Minute <- TheoryMinute,
    Trades <- TheoryTrades, Queries <- TheoryQueries,
    StartNow <- TheoryStart, MaxNow <- TheoryEnd, now <- theoryTime,
    log <- updateLog, writes <- updateWrites, candles <- candlesKept,
    job <- indexJob, query <- question

----------------------------------------------------------------------------

(* The monitoring table (AccountOverview). *)

CONSTANTS Day, FreshFor, KeepDays, SpanDays, RebuildDays, MaxAnchorAge,
          AlertAfter, Deposit, Gains, NavFrom, Misallocated, GenerationTime,
          OverviewStart, OverviewEnd, MaxSamples, MaxMishaps
VARIABLES overviewTime, setback, reading, observed, recent, latest,
          savedDays, daily, loaded, actual, through, rebuild, samples,
          mishaps
overviewVars == <<overviewTime, setback, reading, observed, recent, latest,
                  savedDays, daily, loaded, actual, through, rebuild,
                  samples, mishaps>>

ASSUME OverviewAssumption ==
    /\ {Day, FreshFor} \subseteq Nat \ {0} /\ 2 * FreshFor <= Day
    /\ \A g \in Gains : g.at \in Nat
    /\ {KeepDays, SpanDays, RebuildDays, MaxSamples, MaxMishaps} \subseteq Nat

Overview == INSTANCE AccountOverview WITH
    StartNow <- OverviewStart, MaxNow <- OverviewEnd, now <- overviewTime,
    stored <- savedDays

----------------------------------------------------------------------------

(* The monitoring page's NAV curves (NavCurves). *)

CONSTANTS CurveStep, OwnSource, FarSource, FirstPoint, Booked, Allocated,
          Paid, ReadTime, CurveStart, CurveEnd, MaxUpsets
VARIABLES curveTime, statements, generation, curveCatalog, persisted, served,
          pass, setup, upsets
curveVars == <<curveTime, statements, generation, curveCatalog, persisted,
               served, pass, setup, upsets>>

ASSUME CurveAssumption ==
    /\ CurveStep \in Nat \ {0} /\ ReadTime \in 0..(CurveStep - 1)
    /\ \A x \in {OwnSource, FarSource} : FirstPoint[x] \in Nat \ {0}
    /\ OwnSource # FarSource /\ {CurveStart, CurveEnd, MaxUpsets} \subseteq Nat

Charts == INSTANCE NavCurves WITH
    now <- curveTime, catalog <- curveCatalog

----------------------------------------------------------------------------

Parts == {"kline", "income", "rates", "earn", "monitor", "directory",
          "account", "orders", "rules", "theory", "overview", "curves"}
hostVars == <<part, klineVars, fundingVars, ratesVars, earnVars, monitorVars,
              directoryVars, accountVars, orderVars, rulesVars, theoryVars,
              overviewVars, curveVars>>

Init ==
    /\ part \in Parts
    /\ Kline!KlineInit /\ Income!FundingInit /\ Rates!RatesInit /\ Earn!EarnInit
    /\ part # "income" => address = CHOOSE a \in Addresses : TRUE
    /\ Watch!MonitorInit
    /\ part # "monitor" => ~view.ok /\ ~book.ok
    /\ Access!DirectoryInit
    /\ part # "directory" => DOMAIN sessions = {} /\ DOMAIN rows = {}
    /\ Exchange!AccountInit
    /\ part # "account" => kind = "rapidx" /\ \A l \in Leverages \ {0} : leverage <= l
    /\ Order!OrderInit
    /\ part # "orders" => ~gridAllowed /\ default.algorithm = "chase"
    /\ Rules!RulesInit
    /\ part # "rules" => host = CHOOSE h \in Hosts : Len(h) = 1
    /\ Theory!Init
    /\ Overview!Init
    /\ part # "overview" => ~actual
    /\ Charts!Init
    /\ IF part = "curves" THEN Cardinality(setup) = 1 ELSE setup = {} /\ ~statements

KlineSteps == /\ part = "kline" /\ Kline!KlineNext
              /\ UNCHANGED <<part, fundingVars, ratesVars, earnVars,
                             monitorVars, directoryVars, accountVars,
                             orderVars, rulesVars, theoryVars, overviewVars,
                             curveVars>>
IncomeSteps == /\ part = "income" /\ Income!FundingNext
               /\ UNCHANGED <<part, klineVars, ratesVars, earnVars,
                              monitorVars, directoryVars, accountVars,
                              orderVars, rulesVars, theoryVars, overviewVars,
                              curveVars>>
RatesSteps == /\ part = "rates" /\ Rates!RatesNext
              /\ UNCHANGED <<part, klineVars, fundingVars, earnVars,
                             monitorVars, directoryVars, accountVars,
                             orderVars, rulesVars, theoryVars, overviewVars,
                             curveVars>>
EarnSteps == /\ part = "earn" /\ Earn!EarnNext
             /\ UNCHANGED <<part, klineVars, fundingVars, ratesVars,
                            monitorVars, directoryVars, accountVars,
                            orderVars, rulesVars, theoryVars, overviewVars,
                            curveVars>>
WatchSteps == /\ part = "monitor" /\ Watch!MonitorNext
             /\ UNCHANGED <<part, klineVars, fundingVars, ratesVars,
                            earnVars, directoryVars, accountVars, orderVars,
                            rulesVars, theoryVars, overviewVars, curveVars>>
AccessSteps == /\ part = "directory" /\ Access!DirectoryNext
             /\ UNCHANGED <<part, klineVars, fundingVars, ratesVars,
                            earnVars, monitorVars, accountVars, orderVars,
                            rulesVars, theoryVars, overviewVars, curveVars>>
ExchangeSteps == /\ part = "account" /\ Exchange!AccountNext
             /\ UNCHANGED <<part, klineVars, fundingVars, ratesVars,
                            earnVars, monitorVars, directoryVars, orderVars,
                            rulesVars, theoryVars, overviewVars, curveVars>>
OrderSteps == /\ part = "orders" /\ Order!OrderNext
             /\ UNCHANGED <<part, klineVars, fundingVars, ratesVars,
                            earnVars, monitorVars, directoryVars,
                            accountVars, rulesVars, theoryVars, overviewVars,
                            curveVars>>
RulesSteps == /\ part = "rules" /\ Rules!RulesNext
             /\ UNCHANGED <<part, klineVars, fundingVars, ratesVars,
                            earnVars, monitorVars, directoryVars,
                            accountVars, orderVars, theoryVars, overviewVars,
                            curveVars>>
TheorySteps == /\ part = "theory" /\ Theory!Next
             /\ UNCHANGED <<part, klineVars, fundingVars, ratesVars,
                            earnVars, monitorVars, directoryVars,
                            accountVars, orderVars, rulesVars, overviewVars,
                            curveVars>>
OverviewSteps == /\ part = "overview" /\ Overview!Next
             /\ UNCHANGED <<part, klineVars, fundingVars, ratesVars,
                            earnVars, monitorVars, directoryVars,
                            accountVars, orderVars, rulesVars, theoryVars,
                            curveVars>>
ChartsSteps == /\ part = "curves" /\ Charts!Next
             /\ UNCHANGED <<part, klineVars, fundingVars, ratesVars,
                            earnVars, monitorVars, directoryVars,
                            accountVars, orderVars, rulesVars, theoryVars,
                            overviewVars>>

Next == KlineSteps \/ IncomeSteps \/ RatesSteps \/ EarnSteps \/ WatchSteps
        \/ AccessSteps \/ ExchangeSteps \/ OrderSteps \/ RulesSteps
        \/ TheorySteps \/ OverviewSteps \/ ChartsSteps
Spec == Init /\ [][Next]_hostVars

----------------------------------------------------------------------------
(* Types. *)
TypeOK ==
    /\ part \in Parts
    /\ part = "kline" => Kline!KlineTypeOK
    /\ part = "income" => Income!FundingTypeOK
    /\ part = "rates" => Rates!RatesTypeOK
    /\ part = "earn" => Earn!EarnTypeOK
    /\ part = "monitor" => Watch!MonitorTypeOK
    /\ part = "directory" => Access!DirectoryTypeOK
    /\ part = "account" => Exchange!AccountTypeOK
    /\ part = "orders" => Order!OrderTypeOK
    /\ part = "rules" => Rules!RulesTypeOK
    /\ part = "theory" => Theory!TypeOK
    /\ part = "overview" => Overview!TypeOK
    /\ part = "curves" => Charts!TypeOK

(* A query is told its candles are ready only when every minute it asked for  *)
(* and the cache still keeps is there, or known not to exist (kline.rs        *)
(* warm_ranges, coverage).                                                    *)
ReadyIsCovered == part = "kline" => Kline!ReadyIsCovered

(* The cursor of a symbol never passes a settlement that is not in the ledger *)
(* (funding.rs sync_window, persist_chunk), and rates answered as complete    *)
(* are all the rates of the range asked for (funding_rates.rs schedule,       *)
(* wait_for).                                                                 *)
FundingIsComplete ==
    /\ part = "income" => Income!CursorIsComplete
    /\ part = "rates" => Rates!CompleteMeansAll

(* What left a futures wallet for a subscription and is not back is at most   *)
(* one round, and one more for every time an operator resumed the account     *)
(* (bfusd_auto.rs subscribe_futures_usdt, set_paused, save, resume).          *)
OneRoundOut == part = "earn" => Earn!OneRoundOut

(* The tracker believes an alert was delivered exactly when a channel         *)
(* acknowledged one and no recovery since: an alert that got lost is sent     *)
(* again although the other channel works, and an issue whose alert arrived   *)
(* stays until its recovery arrived as well (monitor.rs pending, mark_sent).  *)
TrackedAsTold == part = "monitor" => Watch!TrackedAsTold

(* While publishes are decided by the copy of the database it says what the   *)
(* database says: nothing a finished request revoked still lets a publish in  *)
(* (web/target_state.rs edit, session, catalog, load).  Every override, live  *)
(* or stored, names a template that exists, and where there are users there   *)
(* is an administrator (web.rs delete_order_strategy, web/target_state.rs     *)
(* publish, auth.rs set_role).                                                *)
DirectoryHolds ==
    part = "directory" => Access!DirectoryCurrent /\ Access!NothingDangles

(* What an operator is told of a leverage or a fee was so while the request   *)
(* ran, and a margin mode changes only if the owner changed it meanwhile      *)
(* (exchange_leverage.rs, exchange_leverage/unified.rs set_leverage).         *)
AnswersWereTrue == part = "account" => Exchange!AnswersWereTrue

(* What Exec runs is what was asked for: of a publish, by every symbol; of an *)
(* edit, by the binding, and on top of the version its operator saw           *)
(* (order_config.rs from_templates, apply_to, save_order_parameters).         *)
OrdersAsAsked == part = "orders" => Order!OrdersAsAsked

(* Publishes are projected with rules that were read back from Redis and are  *)
(* the account's own; what Exec is given of a proxied account was archived in *)
(* the same form, with rules young enough at the write, and is the exposure   *)
(* asked for (market_rules.rs refresh_all, redis_runtime.rs                   *)
(* publish_market_rules, target_proxy.rs project, ensure_fresh).              *)
RulesHold == part = "rules" => Rules!RulesHold

(* Theoretical curves and cost reports are those a replay of the archive      *)
(* gives (theoretical_nav.rs query_inputs, rebuild_timeline;                  *)
(* acquisition_cost.rs report_acquisition_cost).                              *)
TheoryHolds == part = "theory" => Theory!TheoryHolds

(* The monitoring table shows what the account had on its dates: midnights    *)
(* rebuilt from the NAV as much as samples, and profits and exposures between *)
(* and beside them (account_overview.rs report, daily.rs reconstruct,         *)
(* equity_history.rs rebuild).  A curve beside it that is answered as         *)
(* complete has every boundary's point up to the last one and none after, and *)
(* one the worker leaves alone was made under the funding selected now        *)
(* (web/nav_monitor.rs spawn, calculate; account_overview/nav.rs save).       *)
OverviewHolds ==
    /\ part = "overview" => Overview!OverviewHolds
    /\ part = "curves" => Charts!CurvesHold
=============================================================================
