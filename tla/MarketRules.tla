----------------------------- MODULE MarketRules -----------------------------
(***************************************************************************)
(* The market rules of the accounts and the targets projected with them    *)
(* (src/src/market_rules.rs, market_rules/unified.rs,                       *)
(* market_rules/rapidx.rs, target_proxy.rs, exec_routing.rs and             *)
(* publish_market_rules, project_targets of redis_runtime.rs).              *)
(*                                                                         *)
(* One worker refreshes the rules of every market of every account, one    *)
(* after the other: it fetches the instruments, writes them to Redis, reads *)
(* them back and only then shows them to the publishes of its own process. *)
(* A publish to a proxied account is projected into the contracts those    *)
(* rules trade, archived, and written to Exec later, as it was archived.   *)
(* Quantities are whole numbers the multipliers divide: overflow and       *)
(* underflow of doubles are left out.                                      *)
(***************************************************************************)
EXTENDS Integers, FiniteSets, SequencesExt

CONSTANTS
  Hosts,        \* the accounts a Manager may be configured with, in order
  Worlds,       \* what the exchanges list, one after the other
  QuoteOf,      \* quote of a symbol; "asset" for a bare asset
  Mappings,     \* target_proxy.symbol_mappings of the proxied accounts
  Inputs,       \* vectors a strategy may publish
  Interval,     \* between two rounds (60 s)
  MaxAge,       \* age at which rules are no longer used (180 s)
  MaxClock,     \* bound on time
  MaxPushes,    \* bound on requests
  MaxEvents     \* bound on failures and restarts

VARIABLES
  host,         \* the accounts
  now, due,     \* time, and when the next round is due
  world,        \* what the exchanges list now, an index of Worlds
  traded,       \* ghost: when a Bybit contract was last trading
  stored,       \* {account}:{venue}:market_rules in Redis
  held,         \* ghost: what Redis ever held there
  cache,        \* RedisRuntime::market_rules
  worker,       \* the refresh worker
  stray,        \* writes given up that the server may still make
  catalog,      \* the live vector of the strategy
  shares,       \* shares of each account
  request,      \* the publish under way
  archived,     \* the projections archived for each account
  executed,     \* what Exec was last given
  pushes, events

rulesVars == <<host, now, due, world, traded, stored, held, cache, worker, stray,
               catalog, shares, request, archived, executed, pushes, events>>

Ids == {host[i].id : i \in DOMAIN host}
Account(id) == host[CHOOSE i \in DOMAIN host : host[i].id = id]

----------------------------------------------------------------------------
(* Routing. *)

RapidXVenues == {"binance-futures", "okex-futures", "binance-margin", "okex-margin"}

\* The environment file of an account.  It may be absent only where nobody
\* configured its place, and then the account is a native one.
Readable(a) == a.env # "broken"
Values(a) == IF a.env = "missing"
             THEN [specific |-> "", wildcard |-> "", default |-> "native", portfolio |-> ""]
             ELSE a.values

\* The map names the exchange, or every exchange, before the default counts.
Backend(a, venue) ==
  LET v == Values(a)
      chosen == IF v.specific # "" THEN v.specific
                ELSE IF v.wildcard # "" THEN v.wildcard ELSE v.default
  IN IF chosen = "ltp" /\ venue \notin RapidXVenues THEN "unsupported" ELSE chosen

\* The markets one Exec owns: a cash market beside the contracts of RapidX
\* and of a unified OKX account.
MarketsOf(a) ==
  IF ~Readable(a) \/ Backend(a, a.venue) = "unsupported" THEN <<>>
  ELSE IF a.venue = "okex-futures" THEN <<a.venue, "okex-margin">>
  ELSE IF a.venue = "binance-futures" /\ Backend(a, a.venue) = "ltp"
       THEN <<a.venue, "binance-margin">>
  ELSE <<a.venue>>

\* The market a symbol belongs to, by its quote; "none" when the venue of the
\* account has no such market.
SymbolMarket(venue, symbol) ==
  LET quote == QuoteOf[symbol] IN
  CASE venue \in {"bybit-futures", "bitget-futures"} /\ quote = "USDT" -> venue
    [] venue \in {"binance-futures", "okex-futures"} /\ quote \in {"USDT", "USDC"} -> venue
    [] venue = "binance-coin-futures" /\ quote = "USD" -> venue
    [] venue \in {"binance-futures", "binance-margin"} /\ quote = "asset" -> "binance-margin"
    [] venue \in {"okex-futures", "okex-margin"} /\ quote = "asset" -> "okex-margin"
    [] OTHER -> "none"

\* A target is keyed by venue and symbol, the venue "" for an unqualified one.
Qualified(input) == \E key \in DOMAIN input : key[1] # ""

\* A clear has no quantity, and a cross spread has both its legs.
ValidTargets(input) ==
  \A key \in DOMAIN input :
    /\ input[key].clear => input[key].qty = 0
    /\ Qualified(input) => \A v \in {"okex-futures", "binance-futures"} : <<v, key[2]>> \in DOMAIN input

\* Proxy inputs may name unsupported markets, the projection filters them.
TargetAllowed(a, key) ==
  IF key[1] # "" THEN ~a.proxied /\ a.venue \in {"okex-futures", "binance-futures"}
  ELSE a.proxied \/ SymbolMarket(a.venue, key[2]) # "none"

\* The market of a symbol must be one the account's Exec owns.
Routed(a, symbol) == SymbolMarket(a.venue, symbol) \in Range(MarketsOf(a))

----------------------------------------------------------------------------
(* What the exchanges answer.  A row is usable when its increments and its   *)
(* identity parse.                                                           *)

NoRules == [venue |-> "", backend |-> "", portfolio |-> "", at |-> 0, rules |-> {}]
Rule(row) == [symbol |-> row.symbol, status |-> row.status, quote |-> row.quote]

Usable(rows) == \A r \in rows : r.usable /\ \A q \in rows : q.symbol = r.symbol => q = r

Failed == [ok |-> FALSE, rules |-> {}]
\* One unusable row among those kept refuses the whole answer.
Parsed(rows) == IF Usable(rows) THEN [ok |-> TRUE, rules |-> {Rule(r) : r \in rows}] ELSE Failed

ParseBinance(rows) == Parsed({r \in rows : r.kind = "perp"})

ParseOkxSwap(rows) == Parsed({r \in rows : r.kind = "perp" /\ r.settle = "USDT"})

ParseOkxSpot(rows) == Parsed({r \in rows : r.kind = "spot" /\ r.quote = "USDT"})

\* A linear contract quoted in USDT but settled in something else is refused.
ParseBybitPage(rows) ==
  LET kept == {r \in rows : r.kind = "perp" /\ r.quote = "USDT"} IN
  IF \A r \in kept : r.settle = "USDT" THEN Parsed(kept) ELSE Failed

\* Every perpetual of the category must be quoted in USDT.
ParseBitget(rows) ==
  LET kept == {r \in rows : r.kind = "perp"} IN
  IF kept # {} /\ \A r \in kept : r.quote = "USDT" THEN Parsed(kept) ELSE Failed

\* RapidX lists both exchanges and both markets in one map.  The row under a
\* key of this market must carry it, and no other row may claim to.
RapidXTargets(venue, rows) ==
  {r \in rows : /\ r.key = venue
                /\ r.quote \in {"USDT"} \union IF r.kind = "perp" THEN {"USDC"} ELSE {}}

\* Binance states are translated, those of OKX kept; another one is refused.
RapidXStatus(venue, status) ==
  CASE status \notin {"live", "suspend"} -> "unknown"
    [] venue \in {"binance-futures", "binance-margin"} /\ status = "live" -> "TRADING"
    [] venue \in {"binance-futures", "binance-margin"} -> "SUSPEND"
    [] OTHER -> status

ParseRapidX(venue, rows) ==
  LET kept == {[r EXCEPT !.status = RapidXStatus(venue, @)] : r \in RapidXTargets(venue, rows)} IN
  IF /\ kept # {}
     /\ \A r \in rows : r.venue = venue \/ r.key = venue => r.key = r.venue
     /\ \A r \in kept : r.status # "unknown"
  THEN Parsed(kept) ELSE Failed

----------------------------------------------------------------------------
(* The refresh worker. *)

Idle == [stage |-> "idle", todo |-> <<>>, shared |-> {}, page |-> 1, rules |-> {},
         at |-> 0, snapshot |-> NoRules]

Source == Account(Head(worker.todo)[1])
Venue == Head(worker.todo)[2]
Key == Head(worker.todo)

\* Every market of every account whose environment can be read.
RoundOf ==
  FlattenSeq([i \in DOMAIN host |->
     [j \in DOMAIN MarketsOf(host[i]) |-> <<host[i].id, MarketsOf(host[i])[j]>>]])

Keys == Range(RoundOf)

publishing == <<catalog, shares, request, archived, executed, pushes>>
listing == <<host, world, traded>>

StartRound ==
  /\ worker.stage = "idle" /\ due <= now /\ RoundOf # <<>>
  /\ worker' = [Idle EXCEPT !.stage = "fetch", !.todo = RoundOf]
  /\ due' = now + Interval
  /\ UNCHANGED <<listing, now, stored, held, cache, stray, publishing, events>>

\* The next market; what was fetched of a public venue is kept for the round.
After(w) ==
  IF Len(w.todo) = 1 THEN Idle
  ELSE [Idle EXCEPT !.stage = "fetch", !.todo = Tail(w.todo), !.shared = w.shared]

Fetching(backend) == worker.stage = "fetch" /\ Backend(Source, Venue) = backend

Step(w) ==
  /\ worker' = w
  /\ UNCHANGED <<listing, now, due, stored, held, cache, stray, publishing>>

\* Fault: what the round fetched of a venue serves every account there.
SharedByVenue == {s \in worker.shared : s.venue = Venue}

\* A native account takes what this round already fetched of its venue.
Shared == {s \in worker.shared : s.venue = Venue /\ Backend(Source, Venue) = "native"}

Reuse ==
  /\ worker.stage = "fetch" /\ worker.page = 1 /\ Shared # {}
  /\ \E s \in Shared : Step([worker EXCEPT !.stage = "set", !.snapshot = s])
  /\ UNCHANGED events

\* A snapshot is stamped when it is complete; an empty one is not one.
Snapshot(backend, portfolio, at, rules) ==
  [venue |-> Venue, backend |-> backend, portfolio |-> portfolio, at |-> at, rules |-> rules]

Fetched(rules) ==
  LET s == Snapshot("native", "", now, rules) IN
  IF rules = {} THEN Step(After(worker))
  ELSE Step([worker EXCEPT !.stage = "set", !.page = 1, !.rules = {}, !.snapshot = s,
                           !.shared = @ \union {s}])

\* Bybit is read page by page and a contract may be listed once.  A cursor behind
\* the last page there is now is answered with an empty one.
PageOf(n) == LET pages == Worlds[world].bybit IN IF n \in DOMAIN pages THEN pages[n] ELSE {}

FetchBybit ==
  /\ Fetching("native") /\ Venue = "bybit-futures" /\ (worker.page = 1 => Shared = {})
  /\ \E answer \in {ParseBybitPage(PageOf(worker.page))} :
       IF ~answer.ok \/ \E r \in answer.rules, q \in worker.rules : r.symbol = q.symbol
       THEN Step(After(worker))
       ELSE IF worker.page >= Len(Worlds[world].bybit)
       THEN Fetched(worker.rules \union answer.rules)
       ELSE Step([worker EXCEPT !.page = @ + 1, !.rules = @ \union answer.rules])
  /\ UNCHANGED events

\* The other venues answer in one piece.
PublicAnswer(venue) ==
  CASE venue = "binance-futures" -> ParseBinance(Worlds[world].binance)
    [] venue = "binance-coin-futures" -> ParseBinance(Worlds[world].coin)
    [] venue = "okex-futures" -> ParseOkxSwap(Worlds[world].okex)
    [] venue = "okex-margin" -> ParseOkxSpot(Worlds[world].okex)
    [] venue = "bitget-futures" -> ParseBitget(Worlds[world].bitget)
    [] OTHER -> Failed

FetchPublic ==
  /\ Fetching("native") /\ Venue # "bybit-futures" /\ Shared = {}
  /\ \E answer \in {PublicAnswer(Venue)} :
       IF answer.ok THEN Fetched(answer.rules) ELSE Step(After(worker))
  /\ UNCHANGED events

\* RapidX answers one account, four seconds after the last request to it, and
\* its snapshot is stamped when it is asked.
AskRapidX ==
  /\ Fetching("ltp") /\ Shared = {}
  /\ IF Values(Source).portfolio = "" THEN Step(After(worker))
     ELSE Step([worker EXCEPT !.stage = "asked", !.at = now])
  /\ UNCHANGED events

RapidXAnswers ==
  /\ worker.stage = "asked"
  /\ \E answer \in {ParseRapidX(Venue, Worlds[world].rapidx)} :
       IF ~answer.ok THEN Step(After(worker))
       ELSE Step([worker EXCEPT !.stage = "set", !.snapshot =
               Snapshot("ltp", Values(Source).portfolio, worker.at, answer.rules)])
  /\ UNCHANGED events

\* A request fails or is cut off, or a cursor comes back twice.
FetchFails ==
  /\ worker.stage \in {"fetch", "asked"} /\ Shared = {}
  /\ events < MaxEvents /\ events' = events + 1
  /\ Step(After(worker))

Store(key, s) ==
  /\ stored' = [stored EXCEPT ![key] = s]
  /\ held' = [held EXCEPT ![key] = @ \union {s}]

SetRules ==
  /\ worker.stage = "set"
  /\ Store(Key, worker.snapshot)
  /\ worker' = [worker EXCEPT !.stage = "confirm"]
  /\ UNCHANGED <<listing, now, due, cache, stray, publishing, events>>

\* Only what was read back as it was written is shown to publishes.
ConfirmRules ==
  /\ worker.stage = "confirm"
  /\ cache' = IF stored[Key] = worker.snapshot
              THEN [cache EXCEPT ![Key] = worker.snapshot] ELSE cache
  /\ worker' = After(worker)
  /\ UNCHANGED <<listing, now, due, stored, held, stray, publishing, events>>

\* Redis fails or is too slow: the write is made, lost, or made later.
SetLost ==
  /\ worker.stage = "set" /\ events < MaxEvents /\ events' = events + 1
  /\ \/ Store(Key, worker.snapshot) /\ UNCHANGED stray
     \/ stray' = stray \union {<<Key, worker.snapshot>>} /\ UNCHANGED <<stored, held>>
  /\ worker' = After(worker)
  /\ UNCHANGED <<listing, now, due, cache, publishing>>

StrayLands ==
  \E w \in stray :
    /\ Store(w[1], w[2]) /\ stray' = stray \ {w}
    /\ UNCHANGED <<listing, now, due, cache, worker, publishing, events>>

----------------------------------------------------------------------------
(* Projection. *)

Mapping(symbol) ==
  IF symbol \in DOMAIN Mappings THEN Mappings[symbol] ELSE [symbol |-> symbol, from |-> 1, to |-> 1]

NoProjection == [ok |-> FALSE, at |-> 0, projected |-> FALSE, targets |-> {}]
Projection(at, targets) == [ok |-> TRUE, at |-> at, projected |-> TRUE, targets |-> targets]

\* To clear a position, and to stop an account, is to hold none.
Scaled(target, n) == IF n = 0 \/ target.clear THEN 0 ELSE target.qty * n

Target(symbol, qty, target) == [symbol |-> symbol, qty |-> qty, clear |-> target.clear]

\* Is a snapshot young enough to be used, and not from the future?
Fresh(at) == at > 0 /\ now - at \in 0..MaxAge

\* What is known of a market; the proxy takes native rules of Bybit only.
RulesOf(key) == IF key \in DOMAIN cache THEN cache[key] ELSE NoRules
ForProxy(s) == s.venue = "bybit-futures" /\ s.backend = "native" /\ s.portfolio = ""

\* The rules that trade the contract of an input.
Tradable(snapshot, symbol) ==
  {r \in snapshot.rules : r.symbol = Mapping(symbol).symbol
                          /\ r.status = "Trading" /\ r.quote = "USDT"}

\* Each input that is a USDT contract and trades becomes its contract, in the
\* contract's units.  Two inputs of one contract refuse the vector.
Project(snapshot, input, n) ==
  LET kept == {key \in DOMAIN input :
                 QuoteOf[key[2]] = "USDT" /\ Tradable(snapshot, key[2]) # {}}
      Into(key) == Mapping(key[2])
  IN IF \/ ~ForProxy(snapshot) \/ ~Fresh(snapshot.at)
        \/ \E k, l \in kept : k # l /\ Into(k).symbol = Into(l).symbol
     THEN NoProjection
     ELSE Projection(snapshot.at,
            {Target(Into(k).symbol, (Scaled(input[k], n) * Into(k).from) \div Into(k).to,
                    input[k]) : k \in kept})

\* The legs of a cross spread this account's exchange owns.
ProjectCrossSpread(a, input, n) ==
  Projection(now, {Target(k[2], Scaled(input[k], n), input[k]) :
                     k \in {key \in DOMAIN input : key[1] = a.venue}})

\* Without either the vector is scaled as it is.
ScaleTargets(input, n) ==
  [ok |-> TRUE, at |-> now, projected |-> FALSE,
   targets |-> {Target(k[2], Scaled(input[k], n), input[k]) : k \in DOMAIN input}]

ProjectTargets(a, input, n) ==
  IF \E key \in DOMAIN input : ~TargetAllowed(a, key) THEN NoProjection
  ELSE IF Qualified(input) THEN ProjectCrossSpread(a, input, n)
  ELSE IF a.proxied THEN Project(RulesOf(<<a.id, a.venue>>), input, n)
  ELSE ScaleTargets(input, n)

----------------------------------------------------------------------------
(* Publishes: one at a time, by the strategy's mutex or the configuration    *)
(* lock.                                                                     *)

Free == [input |-> 0, plan |-> [id \in {} |-> NoProjection]]
rulesSide == <<listing, now, due, stored, held, cache, worker, stray>>

Archive(plan) ==
  archived' = [id \in Ids |-> archived[id] \union
                 (IF id \in DOMAIN plan THEN {plan[id]} ELSE {})]

Take(i, plan) ==
  request' = IF DOMAIN plan = {} THEN Free ELSE [input |-> i, plan |-> plan]

\* A strategy publishes a vector to every account with shares; a projection
\* that fails refuses all of it, before anything changes.
Push(i) ==
  /\ request = Free /\ pushes < MaxPushes /\ pushes' = pushes + 1
  /\ ValidTargets(Inputs[i])
  /\ \E plan \in {[id \in {x \in Ids : shares[x] > 0} |->
                     ProjectTargets(Account(id), Inputs[i], shares[id])]} :
       IF \A id \in DOMAIN plan : plan[id].ok
       THEN catalog' = i /\ Archive(plan) /\ Take(i, plan)
       ELSE UNCHANGED <<catalog, archived, request>>
  /\ UNCHANGED <<rulesSide, shares, executed, events>>

\* A publish by hand, of a stop too, is projected with the shares that are
\* saved; it is archived when it is a stop or the projection is the proxy's.
Publish(id, n) ==
  \E p \in {ProjectTargets(Account(id), Inputs[catalog], n)} :
    IF ~p.ok THEN UNCHANGED <<archived, request>>
    ELSE \E plan \in {[x \in {id} |-> p]} :
           /\ Take(catalog, plan)
           /\ IF n = 0 \/ Account(id).proxied THEN Archive(plan) ELSE UNCHANGED archived

PublishAgain(id) ==
  /\ request = Free /\ pushes < MaxPushes /\ pushes' = pushes + 1
  /\ Publish(id, shares[id])
  /\ UNCHANGED <<rulesSide, catalog, shares, executed, events>>

\* Shares are saved without a publish, except zero: that is a stop.  A stop
\* that cannot be projected has saved the shares and nothing else.
SaveShares(id, n) ==
  /\ request = Free /\ pushes < MaxPushes /\ pushes' = pushes + 1
  /\ n > 0 => \A key \in DOMAIN Inputs[catalog] : TargetAllowed(Account(id), key)
  /\ shares' = [shares EXCEPT ![id] = n]
  /\ IF n = 0 THEN Publish(id, 0) ELSE UNCHANGED <<archived, request>>
  /\ UNCHANGED <<rulesSide, catalog, executed, events>>

\* Fault: the rules a vector was projected with are not looked at again.
FreshWhenProjected(p) == TRUE

\* Rules that became too old between the projection and the write refuse it.
FreshEnough(p) == p.projected => Fresh(p.at)

Rest(id) == LET todo == DOMAIN request.plan \ {id} IN
  IF todo = {} THEN Free
  ELSE [request EXCEPT !.plan = [x \in todo |-> request.plan[x]]]

\* Exec is given the whole vector as it was archived; what it does not name
\* has the target zero.
WriteExec(id) ==
  /\ id \in DOMAIN request.plan
  /\ LET p == request.plan[id]  a == Account(id) IN
     executed' = IF FreshEnough(p) /\ \A t \in p.targets : Routed(a, t.symbol)
                 THEN [executed EXCEPT ![id] =
                         [p |-> p, input |-> request.input, shares |-> shares[id],
                          age |-> now - p.at, seen |-> traded, when |-> now]]
                 ELSE executed
  /\ request' = Rest(id)
  /\ UNCHANGED <<rulesSide, catalog, shares, archived, pushes, events>>

WriteFails(id) ==
  /\ id \in DOMAIN request.plan
  /\ events < MaxEvents /\ events' = events + 1
  /\ request' = Rest(id)
  /\ UNCHANGED <<rulesSide, catalog, shares, archived, executed, pushes>>

----------------------------------------------------------------------------
(* The world around. *)

Trades(w, symbol) ==
  \E p \in DOMAIN Worlds[w].bybit : \E r \in Worlds[w].bybit[p] :
    r.symbol = symbol /\ r.status = "Trading"
Seen(w, t) == [s \in DOMAIN QuoteOf |-> IF Trades(w, s) THEN t ELSE traded[s]]

ListingChanges ==
  /\ world < Len(Worlds) /\ world' = world + 1
  /\ traded' = Seen(world', now)
  /\ UNCHANGED <<host, now, due, stored, held, cache, worker, stray, publishing, events>>

\* Requests to the exchanges are cut off after ten seconds: the pages of one
\* snapshot are read within one unit of time.
Tick ==
  /\ now < MaxClock /\ worker.page = 1 /\ now' = now + 1
  /\ traded' = Seen(world, now')
  /\ UNCHANGED <<host, world, due, stored, held, cache, worker, stray, publishing, events>>

Restart ==
  /\ events < MaxEvents /\ events' = events + 1
  /\ cache' = [k \in Keys |-> NoRules] /\ worker' = Idle /\ due' = now /\ request' = Free
  /\ UNCHANGED <<listing, now, stored, held, stray, catalog, shares, archived, executed, pushes>>

RulesInit ==
  /\ host \in Hosts
  /\ now = 1 /\ due = 1 /\ world = 1
  /\ traded = [s \in DOMAIN QuoteOf |-> IF Trades(1, s) THEN 1 ELSE 0]
  /\ stored = [k \in Keys |-> NoRules] /\ held = [k \in Keys |-> {}]
  /\ cache = stored /\ worker = Idle /\ stray = {}
  /\ catalog = 1 /\ shares = [id \in Ids |-> Account(id).shares] /\ request = Free
  /\ archived = [id \in Ids |-> {}]
  /\ executed = [id \in Ids |-> [p |-> NoProjection, input |-> 0, shares |-> 0, age |-> 0,
                                 seen |-> traded, when |-> 0]]
  /\ pushes = 0 /\ events = 0

RulesNext ==
  \/ StartRound \/ Reuse \/ FetchBybit \/ FetchPublic \/ AskRapidX \/ RapidXAnswers
  \/ FetchFails \/ SetRules \/ ConfirmRules \/ SetLost \/ StrayLands
  \/ \E i \in DOMAIN Inputs : Push(i)
  \/ \E id \in Ids : PublishAgain(id) \/ WriteExec(id) \/ WriteFails(id)
  \/ \E id \in Ids, n \in 0..2 : SaveShares(id, n)
  \/ ListingChanges \/ Tick \/ Restart

RulesTypeOK ==
  /\ worker.stage \in {"idle", "fetch", "asked", "set", "confirm"}
  /\ DOMAIN stored = Keys /\ DOMAIN cache = Keys
  /\ \A k \in Keys : stored[k].at <= now /\ cache[k].at <= now
  /\ catalog \in DOMAIN Inputs /\ DOMAIN request.plan \subseteq Ids
  /\ \A id \in Ids : shares[id] \in 0..2

----------------------------------------------------------------------------
(***************************************************************************)
(* The rules a publish may be projected with were read back from Redis and  *)
(* are of the account's own backend and portfolio.  What Exec was given of  *)
(* a proxied account was archived before, in the same form; it was          *)
(* projected with rules at most MaxAge old at the write; every contract in  *)
(* it traded at Bybit no longer ago than that; and in units of the          *)
(* underlying it is the input times the shares, each input once.            *)
(***************************************************************************)
OwnRules(k, s) ==
  s.at > 0 => /\ s.venue = k[2]
              /\ s.backend = Backend(Account(k[1]), k[2])
              /\ s.portfolio = IF s.backend = "ltp" THEN Values(Account(k[1])).portfolio ELSE ""

SameExposure(e) ==
  \A t \in e.p.targets :
    Cardinality({key \in DOMAIN Inputs[e.input] :
       /\ Mapping(key[2]).symbol = t.symbol
       /\ t.qty * Mapping(key[2]).to
            = (IF Inputs[e.input][key].clear THEN 0 ELSE Inputs[e.input][key].qty)
              * e.shares * Mapping(key[2]).from}) = 1

RulesHold ==
  /\ \A k \in Keys : /\ cache[k].at > 0 => cache[k] \in held[k]
                     /\ OwnRules(k, cache[k]) /\ OwnRules(k, stored[k])
  /\ \A id \in Ids : LET e == executed[id] IN
       Account(id).proxied /\ e.input > 0 =>
         /\ e.p \in archived[id]
         /\ e.age <= MaxAge
         /\ \A t \in e.p.targets : e.when - e.seen[t.symbol] <= MaxAge
         /\ SameExposure(e)
=============================================================================
