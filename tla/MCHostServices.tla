--------------------------- MODULE MCHostServices ---------------------------
(***************************************************************************)
(* Small hosts: see the README for how each bound was chosen.              *)
(***************************************************************************)
EXTENDS HostServices, TLC

CONSTANTS b, o

\* One query reaching back to the edge of retention, one for the minute that follows.
MCKlineQueries == {<<o, <<2, 4>>>>, <<o, <<4, 5>>>>}

\* Two settlements of one symbol; the other has orders and no funding.
MCIncomes == {<<b, 1>>, <<b, 4>>}

\* A round takes two of the five USDT and leaves one.
MCEarnIps == <<"ip1", "ip2">>
MCEarnSettings ==
    {[enabled |-> TRUE, interval |-> 1, cap |-> 2, trigger |-> 0, reserve |-> 1]}

\* The order database unreadable; an order of unknown status beside a record
\* that cannot be decoded; an order a later update says is over.
MCFeeds == {<<"venue", "s">>}
MCOrders ==
    {[ok |-> FALSE],
     [ok |-> TRUE, bad |-> 1, updates |-> {},
      events |-> {[id |-> "o1", status |-> "unknown", at |-> 1]}],
     [ok |-> TRUE, bad |-> 0, updates |-> {[id |-> "o1", terminal |-> TRUE, at |-> 2]},
      events |-> {[id |-> "o1", status |-> "open", at |-> 1]}]}

Row(account, current, working, complete, dust, age) ==
    [strategy |-> "a", symbol |-> "s", account |-> {account}, target |-> {2},
     current |-> {current}, usdt |-> {10}, live |-> {working}, complete |-> complete,
     dust |-> dust, updated |-> age, until |-> 0]
Snapshot(own, on, positions) ==
    [ok |-> TRUE, own |-> own, at |-> 0, ready |-> on, rows |-> positions]
\* Exec gone; stuck half way; done; not ready with rows that disagree; another
\* account's.
MCViews ==
    {[ok |-> FALSE],
     Snapshot(TRUE, TRUE, <<Row(0, 1, 0, FALSE, FALSE, 1)>>),
     Snapshot(TRUE, TRUE, <<Row(2, 2, 0, TRUE, FALSE, 0)>>),
     Snapshot(TRUE, FALSE, <<Row(1, 1, 0, TRUE, TRUE, 0), Row(0, 1, 1, TRUE, TRUE, 0)>>),
     Snapshot(FALSE, TRUE, <<>>)}
MCBooks == {[ok |-> FALSE],
            [ok |-> TRUE, strategies |-> [a |-> [at |-> 1, targets |-> [s |-> 2]]]]}

\* No account is hidden from anyone.
MCViewers == [x \in Accounts |-> {}]

\* Two groups and the instruments without one are billed differently.
MCCharge == [g \in {"g1", "g2", "none"} |-> CASE g = "g1" -> 1 [] g = "g2" -> -1 [] OTHER -> 2]

\* Batch and grid carry grids that differ or agree; one form is invalid.
Form(algorithm, pov, grid, chase, base, on) ==
    [algorithm |-> algorithm, pov |-> pov, grid |-> grid, chase |-> chase,
     base |-> base, rate |-> chase, enabled |-> on]
MCForms == {Form("batch", 0, 1, 0, 0, TRUE), Form("grid", 0, 1, 0, 1, FALSE),
            Form("pov", 1, 0, 0, 0, TRUE),
            Form("chase", 0, 0, 1, 0, TRUE), Form("batch", 2, 2, 0, 0, TRUE)}
MCMarketOf == [s \in {"perp", "spot"} |-> IF s = "perp" THEN "main" ELSE "cash"]

\* Two tables of instruments: later one contract settles and RapidX shows a
\* state nobody knows.
Listed(symbol, venue, type, quote, status) ==
    [symbol |-> symbol, venue |-> venue, key |-> venue, kind |-> type, quote |-> quote,
     settle |-> quote, status |-> status, usable |-> TRUE]
World(p, state) ==
    [bybit |-> <<{Listed("p", "bybit-futures", "perp", "USDT", p)},
                 {Listed("kk", "bybit-futures", "perp", "USDT", "Trading"),
                  Listed("u", "bybit-futures", "perp", "USDC", "Trading")}>>,
     binance |-> {Listed("p", "binance-futures", "perp", "USDT", "TRADING")},
     coin |-> {Listed("d", "binance-coin-futures", "perp", "USD", "TRADING")},
     okex |-> {Listed("p", "okex-futures", "perp", "USDT", "live"),
               Listed("a", "okex-margin", "spot", "USDT", "live")},
     bitget |-> {Listed("p", "bitget-futures", "perp", "USDT", "online")},
     rapidx |-> {Listed("p", "binance-futures", "perp", "USDT", state),
                 Listed("a", "binance-margin", "spot", "USDT", state)}]
MCWorlds == <<World("Trading", "live"), World("Settling", "limited")>>
MCQuoteOf == [p |-> "USDT", k |-> "USDT", kk |-> "USDT", a |-> "asset", d |-> "USD", u |-> "USDC"]
MCMappings == [k |-> [symbol |-> "kk", from |-> 1, to |-> 2]]

\* A vector with an asset the proxy filters, one whose inputs collide, and the
\* legs of a cross spread.
Position(q) == [qty |-> q, clear |-> FALSE]
MCInputs == <<<<"", "p">> :> Position(2) @@ <<"", "k">> :> Position(2) @@ <<"", "a">> :> Position(1),
              <<"", "k">> :> Position(2) @@ <<"", "kk">> :> [qty |-> 0, clear |-> TRUE],
              <<"okex-futures", "p">> :> Position(1) @@ <<"binance-futures", "p">> :> Position(-1)>>

\* A proxied account, a unified one, and native and RapidX accounts side by side.
Configured(id, venue, backend, portfolio, n) ==
    [id |-> id, venue |-> venue, env |-> "present", proxied |-> venue = "bybit-futures", shares |-> n,
     values |-> [specific |-> "", wildcard |-> "", default |-> backend, portfolio |-> portfolio]]
MCHosts == {<<Configured("y", "bybit-futures", "native", "", 1)>>,
            <<Configured("x", "okex-futures", "native", "", 1)>>,
            <<Configured("x", "binance-futures", "native", "", 0),
              Configured("y", "binance-futures", "ltp", "2", 0)>>,
            <<Configured("x", "binance-coin-futures", "native", "", 0)>>,
            <<Configured("x", "bitget-futures", "native", "", 0),
              Configured("y", "bitget-futures", "native", "", 0)>>}

\* Two accounts, one behind RapidX; candles with empty minutes.
MCTheoryBackends == [x |-> "native", y |-> "ltp"]
MCTheorySamples == [twap5m |-> 2, vwap3m |-> 2, twap3m |-> 2, instant_taker |-> 1]
MCTheoryRates == [x |-> [fee |-> 1, taker |-> 2], y |-> [fee |-> 1, taker |-> 2]]
Bar(open, close, price, volume) == [open |-> open, close |-> close, price |-> price, volume |-> volume]
MCTheoryWorld ==
    [p |-> [at \in {2, 4, 6, 8, 10} |->
               CASE at = 2 -> Bar(4, 8, 4, 1) [] at = 4 -> Bar(8, 12, 8, 3)
                 [] at = 6 -> Bar(12, 4, 16, 1) [] at = 8 -> Bar(4, 8, 0, 0)
                 [] at = 10 -> Bar(8, 8, 8, 4)]]

\* Two publications: a position is opened and reversed; one rate is not archived.
Given(source, n, projection, rate) ==
    [source |-> source, binding |-> "b", shares |-> n, projected |-> projection # <<>>,
     projection |-> projection, fee |-> rate, taker |-> rate]
MCUpdates ==
    {[at |-> 2, strategy |-> "a", targets |-> [p |-> 4], signals |-> [p |-> 1],
      accounts |-> <<Given("x", 1, <<>>, 0), Given("y", 1, [p |-> 4], -1)>>],
     [at |-> 8, strategy |-> "a", targets |-> [p |-> -4], signals |-> [p |-> 2],
      accounts |-> <<Given("x", 2, <<>>, 0), Given("y", 1, [p |-> 8], 0), Given("gone", 1, <<>>, 0)>>]}
Curve(sources, from, to, reference) ==
    [kind |-> "curve", sources |-> sources, start |-> from, end |-> to, strategy |-> "",
     reference |-> reference]
Cost(from, to, reference, page) ==
    [kind |-> "cost", sources |-> {"x", "y"}, start |-> from, end |-> to, strategy |-> "",
     reference |-> reference, symbol |-> "", sort |-> "shortfall", page |-> page]
MCBoth == Curve({"x", "y"}, 5, 12, "instant_taker")
MCOne == Curve({"y"}, 7, 10, "twap3m")
MCQuestions == {MCBoth, MCOne, Cost(6, 10, "vwap3m", 1)}
\* The same curve twice: with one key, or contending for one slot when something was
\* written between.
MCTogether == {<<MCOne, MCOne>>}
Trade(id, source, symbol, from, to, q, worth, role) ==
    [id |-> id, source |-> source, strategy |-> "a", symbol |-> symbol, signal |-> from, at |-> to,
     qty |-> q, price |-> worth, fee |-> 1, liquidity |-> role]
MCTheoryTrades ==
    {Trade(1, "x", "p", 8, 9, -8, 8, "taker"), Trade(2, "x", "p", 0, 7, 4, 4, "maker"),
     Trade(3, "x", "p", 6, 9, 4, 8, "unknown"), Trade(4, "y", "p", 8, 9, 4, 12, "taker"),
     Trade(5, "y", "p", 10, 10, -4, 12, "taker")}

\* A loss on the first day, a gain and a loss around the second midnight.
MCGains == {[at |-> 1, amount |-> -20], [at |-> 3, amount |-> 10], [at |-> 4, amount |-> -30]}

\* Both sources begin off the grid; something is booked at and around a boundary.
MCFirstPoint == [own |-> 1, far |-> 1]
MCBooked == {[at |-> 2, amount |-> 5], [at |-> 3, amount |-> 11], [at |-> 4, amount |-> -3]}
=============================================================================
