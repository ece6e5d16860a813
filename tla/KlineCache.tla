----------------------------- MODULE KlineCache -----------------------------
(***************************************************************************)
(* The minute-candle cache of src/src/kline.rs.  Queries that miss candles *)
(* share one detached worker per symbol; the worker fetches the missing    *)
(* minutes newest first, page by page, through a queue that grants an HTTP *)
(* slot and the weight of the request together.  Candles are kept on disk  *)
(* and in memory until they fall behind the retention cutoff.              *)
(*                                                                         *)
(* A candle is named by the number of its minute; its prices are not part  *)
(* of this module (MinutePricing reads them).  Time is counted in ticks,   *)
(* Minute of them to a minute.                                             *)
(***************************************************************************)
EXTENDS Integers, FiniteSets, Sequences, SequencesExt

CONSTANTS Symbols,         \* symbols with a venue the cache supports
          DefaultSymbols,  \* those the refresher keeps warm
          Okex,            \* those fetched from OKX
          Holes,           \* minutes for which the exchange has no candle
          Waiters,         \* HTTP queries waiting for coverage
          Queries,         \* the symbol and minutes <<first, end>> they ask for
          Minute,          \* ticks to a minute
          Retain,          \* minutes kept (retain_days)
          Block,           \* minutes of one backfill block (24 hours)
          Page, OkexPage,  \* minutes of one page and of one OKX request
          Concurrency,     \* HTTP slots
          Budget,          \* weight of one rolling minute
          Pauses,          \* retry-after values, in ticks
          StartClock, MaxClock  \* bounds of the clock

VARIABLES clock,    \* now, in ticks
          cached,   \* klines_1m on disk, which MinuteCache.candles mirrors
          egress,   \* whether the HTTP client was built on a verified address
          job,      \* warming: the job of a symbol, with the range asked of it
          task,     \* the pass of every backfill
          market,   \* holder of the per-symbol backfill lock
          queue,    \* request_queue, in order of arrival
          gate,     \* WeightGate
          waiter    \* queries in warm_ranges
klineVars ==
    <<clock, cached, egress, job, task, market, queue, gate, waiter>>

Larger(a, b) == IF a > b THEN a ELSE b
Smaller(a, b) == IF a < b THEN a ELSE b

Tasks == (Symbols \X {"warm"}) \union (DefaultSymbols \X {"refresh"})
Idle == [at |-> "idle", range |-> <<0, 0>>, end |-> 0, block |-> 0,
         existing |-> {}, page |-> <<0, 0>>, upTo |-> 0, ok |-> FALSE]
NoJob == [range |-> <<0, 0>>, changed |-> FALSE]
Free == <<>>
Asleep == [at |-> "idle", symbol |-> "none", range |-> <<0, 0>>]

----------------------------------------------------------------------------
(* Minutes, retention and coverage. *)

FirstComplete(ticks) == (ticks + Minute - 1) \div Minute
ClosedMinutes == clock \div Minute
Cutoff == FirstComplete(clock - Retain * Minute)

ClosedRange(range) == <<range[1], Smaller(range[2], ClosedMinutes)>>
Readable(range) ==
    Larger(range[1], Cutoff)..(Smaller(range[2], ClosedMinutes) - 1)
Present(s, range) == Readable(range) \intersect cached[s]
Complete(s, range) ==
    \/ range[1] >= range[2]
    \/ Cardinality(Present(s, range)) = range[2] - range[1]

KlineInit ==
    /\ clock = StartClock
    /\ cached = [s \in Symbols |-> {}]
    /\ egress = FALSE
    /\ job = [s \in Symbols |-> NoJob]
    /\ task = [t \in Tasks |-> Idle]
    /\ market = [s \in Symbols |-> Free]
    /\ queue = <<>>
    /\ gate = [reserved |-> <<>>, blocked |-> 0]
    /\ waiter = [w \in Waiters |-> Asleep]

----------------------------------------------------------------------------
(* Queries. *)

\* A query whose minutes are all cached never waits for a worker.
Query(w, s, range) ==
    LET closed == ClosedRange(range) IN
    /\ waiter[w].at \in {"idle", "ready", "failed"}
    /\ IF range[1] < Cutoff
       THEN waiter' = [waiter EXCEPT ![w] =
                          [at |-> "failed", symbol |-> s, range |-> range]]
       ELSE waiter' = [waiter EXCEPT ![w] =
                          [at |-> IF Complete(s, closed) THEN "ready"
                                                         ELSE "joining",
                           symbol |-> s, range |-> closed]]
    /\ UNCHANGED <<clock, cached, egress, job, task, market, queue, gate>>

Merged(a, b) == <<Smaller(a[1], b[1]), Larger(a[2], b[2])>>

\* warm_symbol: extend the range of the running job, or start one.
Join(w) ==
    LET s == waiter[w].symbol
        range == Merged(job[s].range, waiter[w].range) IN
    /\ waiter[w].at = "joining"
    /\ waiter' = [waiter EXCEPT ![w].at = "waiting"]
    /\ IF job[s] # NoJob
       THEN /\ job' = [job EXCEPT ![s] =
                 [range |-> range, changed |-> @.changed \/ range # @.range]]
            /\ UNCHANGED task
       ELSE /\ job' = [job EXCEPT ![s] =
                 [range |-> waiter[w].range, changed |-> FALSE]]
            /\ task' = [task EXCEPT ![<<s, "warm">>] = [Idle EXCEPT !.at = "start"]]
    /\ UNCHANGED <<clock, cached, egress, market, queue, gate>>

\* After ten seconds, or when its browser leaves, a query stops waiting.
GivesUp(w) ==
    /\ waiter[w].at = "waiting"
    /\ waiter' = [waiter EXCEPT ![w] = Asleep]
    /\ UNCHANGED <<clock, cached, egress, job, task, market, queue, gate>>

----------------------------------------------------------------------------
(* One pass of a backfill. *)

RefreshTick(s) ==
    LET t == <<s, "refresh">> IN
    /\ task[t].at = "idle"
    /\ task' = [task EXCEPT ![t] = [Idle EXCEPT !.at = "pass", !.range =
                  <<Larger(ClosedMinutes - Block, Cutoff), ClosedMinutes>>]]
    /\ UNCHANGED <<clock, cached, egress, job, market, queue, gate, waiter>>

BeginPass(s) ==
    LET t == <<s, "warm">> IN
    /\ task[t].at = "start"
    /\ task' = [task EXCEPT ![t] = [Idle EXCEPT !.at = "pass",
                                                !.range = job[s].range]]
    /\ UNCHANGED <<clock, cached, egress, job, market, queue, gate, waiter>>

\* Fault: a pass that is dropped leaves its place in the queue behind.
ReleasedInQueue(t) ==
    /\ market' = [market EXCEPT ![t[1]] = IF @ = t THEN Free ELSE @]
    /\ UNCHANGED queue

\* A pass that is over gives back the market lock, its slot and its place.
PlacesOf(t) == {i \in DOMAIN queue : queue[i].task = t}
Released(t) ==
    /\ market' = [market EXCEPT ![t[1]] = IF @ = t THEN Free ELSE @]
    /\ queue' = IF PlacesOf(t) = {} THEN queue
                ELSE RemoveAt(queue, CHOOSE i \in PlacesOf(t) : TRUE)
Ended(t, ok) ==
    /\ task' = [task EXCEPT ![t] =
         IF t[2] = "refresh" THEN Idle
         ELSE [Idle EXCEPT !.at = "ended", !.range = task[t].range, !.ok = ok]]
    /\ Released(t)

\* ensure_range before it takes the market lock.
CheckCache(t) ==
    LET s == t[1]
        closed == ClosedRange(task[t].range) IN
    /\ task[t].at = "pass"
    /\ IF task[t].range[1] < Cutoff
       THEN Ended(t, FALSE)
       ELSE IF Complete(s, closed)
            THEN Ended(t, TRUE)
            ELSE /\ task' = [task EXCEPT ![t].at = "market",
                                         ![t].end = closed[2]]
                 /\ UNCHANGED <<market, queue>>
    /\ UNCHANGED <<clock, cached, egress, job, gate, waiter>>

\* With the lock it looks again: another pass may have filled the range.
TakeMarket(t) ==
    LET s == t[1]
        closed == <<task[t].range[1], task[t].end>> IN
    /\ task[t].at = "market" /\ market[s] = Free
    /\ IF Complete(s, closed)
       THEN Ended(t, TRUE)
       ELSE /\ market' = [market EXCEPT ![s] = t]
            /\ task' = [task EXCEPT ![t].at = "block"]
            /\ UNCHANGED queue
    /\ UNCHANGED <<clock, cached, egress, job, gate, waiter>>

\* The newest gap of a block that is still missing becomes the next page; a
\* block without gaps is over.
Missing(pass) == (pass.block..(pass.end - 1)) \ pass.existing
NewestGap(pass) ==
    LET last == CHOOSE m \in Missing(pass) : \A k \in Missing(pass) : k <= m
        firsts == {a \in Missing(pass) :
                     last - a < Page /\ a..last \subseteq Missing(pass)}
    IN  <<CHOOSE a \in firsts : \A b \in firsts : a <= b, last + 1>>
Paged(pass) ==
    IF Missing(pass) = {}
    THEN [pass EXCEPT !.at = "block", !.end = pass.block, !.existing = {},
                      !.page = <<0, 0>>, !.upTo = 0]
    ELSE [pass EXCEPT !.at = "client", !.page = NewestGap(pass),
                      !.upTo = NewestGap(pass)[2]]

\* The next block of up to 24 hours, backwards, never behind the cutoff.
NextBlock(t) ==
    LET first == Larger(task[t].end - Block, Cutoff) IN
    /\ task[t].at = "block"
    /\ IF task[t].end <= task[t].range[1]
       THEN Ended(t, TRUE)
       ELSE /\ task' = [task EXCEPT ![t] = Paged([@ EXCEPT !.block = first,
                          !.existing = Present(t[1], <<first, task[t].end>>)])]
            /\ UNCHANGED <<market, queue>>
    /\ UNCHANGED <<clock, cached, egress, job, gate, waiter>>

\* OKX answers a page in several requests, each up to where the last began.
RequestStart(t) ==
    IF t[1] \in Okex THEN Larger(task[t].upTo - OkexPage, task[t].page[1])
                     ELSE task[t].page[1]
Weight(t) == IF t[1] \in Okex THEN 2 ELSE 1

\* The client is built once, when its public address is verified; until five
\* minutes after a verification that failed, no other is tried.
VerifyEgress(t, answers) ==
    /\ task[t].at = "client" /\ ~egress
    /\ IF answers
       THEN egress' = TRUE /\ UNCHANGED <<task, market, queue>>
       ELSE Ended(t, FALSE) /\ UNCHANGED egress
    /\ UNCHANGED <<clock, cached, job, gate, waiter>>

Ask(t) ==
    /\ task[t].at = "client" /\ egress
    /\ task' = [task EXCEPT ![t].at = "queued"]
    /\ queue' = Append(queue, [task |-> t, end |-> task[t].page[2]])
    /\ UNCHANGED <<clock, cached, egress, job, market, gate, waiter>>

\* The newest candle end first, ties in order of arrival.
FirstQueued(i) ==
    \A k \in DOMAIN queue : \/ queue[k].end < queue[i].end
                            \/ queue[k].end = queue[i].end /\ k >= i

InFlight == {t \in Tasks : task[t].at = "sent"}
Recent(reserved) == SelectSeq(reserved, LAMBDA r : r[1] + Minute > clock)
Used(reserved) == FoldSeq(LAMBDA r, sum : sum + r[2], 0, reserved)

\* request_permit and WeightGate::reserve: a slot and the weight together.
Grant(i) ==
    LET t == queue[i].task IN
    /\ FirstQueued(i) /\ Cardinality(InFlight) < Concurrency
    /\ gate.blocked <= clock
    /\ Used(Recent(gate.reserved)) + Weight(t) <= Budget
    /\ gate' = [gate EXCEPT !.reserved = Append(Recent(@), <<clock, Weight(t)>>)]
    /\ queue' = RemoveAt(queue, i)
    /\ task' = [task EXCEPT ![t].at = "sent"]
    /\ UNCHANGED <<clock, cached, egress, job, market, waiter>>

MinutesOf(range) == range[1]..(range[2] - 1)

\* A page is saved whole: but for what is behind the cutoff.
Answered(t) ==
    LET s == t[1]
        candles == {m \in MinutesOf(task[t].page) \ Holes : m >= Cutoff} IN
    /\ task[t].at = "sent"
    /\ IF RequestStart(t) > task[t].page[1]
       THEN /\ task' = [task EXCEPT ![t].at = "queued", ![t].upTo = RequestStart(t)]
            /\ queue' = Append(queue, [task |-> t, end |-> RequestStart(t)])
            /\ UNCHANGED cached
       ELSE /\ cached' = [cached EXCEPT ![s] = @ \union candles]
            /\ task' = [task EXCEPT ![t] = Paged([@ EXCEPT !.existing =
                            task[t].existing \union MinutesOf(task[t].page)])]
            /\ UNCHANGED queue
    /\ UNCHANGED <<clock, egress, job, market, gate, waiter>>

\* Rate limited: the whole client pauses.  Binance says for how long, and never
\* shortens a pause that stands; OKX pauses it for one minute from now.
Limited(t, pause) ==
    /\ task[t].at = "sent"
    /\ gate' = [gate EXCEPT !.blocked =
         IF t[1] \in Okex THEN clock + Minute ELSE Larger(@, clock + pause)]
    /\ Ended(t, FALSE)
    /\ UNCHANGED <<clock, cached, egress, job, waiter>>

\* No answer, or one that is not a list of closed candles of this page.
Refused(t) ==
    /\ task[t].at = "sent"
    /\ Ended(t, FALSE)
    /\ UNCHANGED <<clock, cached, egress, job, gate, waiter>>

----------------------------------------------------------------------------
(* The worker of a symbol between two passes. *)

Told(s, ok) ==
    [w \in Waiters |->
        IF waiter[w].at = "waiting" /\ waiter[w].symbol = s
        THEN [waiter[w] EXCEPT !.at = IF ok THEN "ready" ELSE "failed"]
        ELSE waiter[w]]

\* Fault: the pass that ended answers for the range asked meanwhile.
ConcludeAnyRange(s) ==
    LET t == <<s, "warm">> IN
    /\ task[t].at = "ended"
    /\ task' = [task EXCEPT ![t] = Idle]
    /\ job' = [job EXCEPT ![s] = NoJob]
    /\ waiter' = Told(s, task[t].ok)
    /\ UNCHANGED <<clock, cached, egress, market, queue, gate>>

\* A pass that succeeded for a smaller range than the one now asked is
\* followed by another; otherwise the job is over and every query is told.
Conclude(s) ==
    LET t == <<s, "warm">> IN
    /\ task[t].at = "ended"
    /\ IF task[t].ok /\ job[s].range # task[t].range
       THEN /\ task' = [task EXCEPT ![t] = [Idle EXCEPT !.at = "start"]]
            /\ UNCHANGED <<job, waiter>>
       ELSE /\ task' = [task EXCEPT ![t] = Idle]
            /\ job' = [job EXCEPT ![s] = NoJob]
            /\ waiter' = Told(s, task[t].ok)
    /\ UNCHANGED <<clock, cached, egress, market, queue, gate>>

\* A range asked meanwhile interrupts the pass wherever it waits.
Interrupt(s) ==
    LET t == <<s, "warm">> IN
    /\ job[s].changed /\ task[t].at \notin {"idle", "start", "ended"}
    /\ job' = [job EXCEPT ![s].changed = FALSE]
    /\ task' = [task EXCEPT ![t] = [Idle EXCEPT !.at = "start"]]
    /\ Released(t)
    /\ UNCHANGED <<clock, cached, egress, gate, waiter>>

\* A worker that panics takes its job with it, and tells its queries.
WorkerDies(s) ==
    LET t == <<s, "warm">> IN
    /\ task[t].at # "idle"
    /\ job' = [job EXCEPT ![s] = NoJob]
    /\ task' = [task EXCEPT ![t] = Idle]
    /\ Released(t)
    /\ waiter' = Told(s, FALSE)
    /\ UNCHANGED <<clock, cached, egress, gate>>

Prune ==
    LET kept(minutes) == {m \in minutes : m >= Cutoff} IN
    /\ cached' = [s \in Symbols |-> kept(cached[s])]
    /\ UNCHANGED <<clock, egress, job, task, market, queue, gate, waiter>>

Tick ==
    /\ clock < MaxClock
    /\ clock' = clock + 1
    /\ UNCHANGED <<cached, egress, job, task, market, queue, gate, waiter>>

Step(t) == CheckCache(t) \/ TakeMarket(t) \/ NextBlock(t) \/ Ask(t)

KlineNext ==
    \/ \E w \in Waiters, q \in Queries : Query(w, q[1], q[2])
    \/ \E w \in Waiters : Join(w) \/ GivesUp(w)
    \/ \E s \in DefaultSymbols : RefreshTick(s)
    \/ \E s \in Symbols :
          BeginPass(s) \/ Conclude(s) \/ Interrupt(s) \/ WorkerDies(s)
    \/ \E t \in Tasks : Step(t)
    \/ \E t \in Tasks, answers \in BOOLEAN : VerifyEgress(t, answers)
    \/ \E i \in DOMAIN queue : Grant(i)
    \/ \E t \in Tasks : Answered(t) \/ Refused(t)
    \/ \E t \in Tasks, pause \in Pauses : Limited(t, pause)
    \/ Prune \/ Tick

KlineSpec == KlineInit /\ [][KlineNext]_klineVars

----------------------------------------------------------------------------
(* Types: a pass holds the lock of its symbol exactly while it fetches, the *)
(* queue holds the passes that wait for a slot, a waiting query has a job.  *)
KlineTypeOK ==
    /\ clock \in StartClock..MaxClock
    /\ \A s \in Symbols : cached[s] \subseteq 0..(ClosedMinutes - 1)
    /\ egress \in BOOLEAN
    /\ \A t \in Tasks :
          /\ task[t].at \in {"idle", "start", "pass", "market", "block",
                             "client", "queued", "sent", "ended"}
          /\ (market[t[1]] = t) <=>
                (task[t].at \in {"block", "client", "queued", "sent"})
    /\ {queue[i].task : i \in DOMAIN queue} = {t \in Tasks : task[t].at = "queued"}
    /\ Cardinality(InFlight) <= Concurrency
    /\ \A s \in Symbols : (job[s] # NoJob) <=> (task[<<s, "warm">>].at # "idle")
    /\ \A w \in Waiters :
          waiter[w].at = "waiting" => job[waiter[w].symbol] # NoJob

(* A query that was told its candles are ready finds them: whatever was merged *)
(* into the job, interrupted, pruned or fetched by others meanwhile, each      *)
(* closed minute it asked for that is still retained is cached, unless the     *)
(* exchange itself omitted it.                                                 *)
ReadyIsCovered ==
    \A w \in Waiters : waiter[w].at = "ready" =>
        Readable(waiter[w].range) \ Holes \subseteq
            cached[waiter[w].symbol]

(* "Queries wait up to 10 seconds for warming; remaining work continues in the *)
(* background and missing coverage is explicit" (README.md:195): the work of a *)
(* symbol goes on, so it comes to an end.  Every step a worker can take is     *)
(* taken, a slot is granted, an answer or an error arrives.                    *)
Fairness ==
    /\ \A s \in Symbols : /\ WF_klineVars(BeginPass(s)) /\ WF_klineVars(Conclude(s))
                          /\ WF_klineVars(Interrupt(s))
    /\ \A t \in Tasks : /\ WF_klineVars(Step(t))
                        /\ WF_klineVars(\E b \in BOOLEAN : VerifyEgress(t, b))
                        /\ WF_klineVars(Answered(t) \/ Refused(t))
    /\ WF_klineVars(\E i \in DOMAIN queue : Grant(i))
    /\ WF_klineVars(Tick)
KlineLive == KlineSpec /\ Fairness
BackfillEnds ==
    \A s \in Symbols :
        (task[<<s, "warm">>].at # "idle") ~> (task[<<s, "warm">>].at = "idle")
=============================================================================
