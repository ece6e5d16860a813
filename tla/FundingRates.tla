---------------------------- MODULE FundingRates ----------------------------
(***************************************************************************)
(* The cache of public funding rates, src/src/funding_rates.rs.  Queries   *)
(* and a refresher schedule one load per symbol; a load asks the exchange  *)
(* within a budget shared by all symbols and merges its rows, re-reading   *)
(* an overlap behind what it already covers.  A query is told which        *)
(* symbols are completely covered, from the same state as the rates.       *)
(*                                                                         *)
(* A settlement is named by its time; its rate is not part of the module,  *)
(* its mark price only as known or missing.                                *)
(***************************************************************************)
EXTENDS Integers, FiniteSets

CONSTANTS Symbols,
          Defaults,      \* symbols the refresher keeps without a query
          Settlements,   \* times of the funding settlements
          Daily,         \* daily estimates: history is kept without bound
          Overlap,       \* ticks behind the coverage that are read again
          Retained,      \* ticks of history without daily estimates
          Refresh,       \* ticks between two loads
          Backoff,       \* ticks of the first pause after a rejection
          MaxClock       \* bound of the clock

VARIABLES now,
          published,  \* settlements the exchange answers with, per symbol
          marked,     \* those whose mark price it has
          entry,      \* SymbolCache
          load,       \* the load in flight of a symbol
          budget      \* shared: the pause, and the rejections that led to it
ratesVars == <<now, published, marked, entry, load, budget>>

Unknown == 0
Smaller(a, b) == IF a < b THEN a ELSE b
Larger(a, b) == IF a > b THEN a ELSE b

NoEntry == [rates |-> {}, noMark |-> {}, from |-> Unknown, through |-> Unknown,
            wanted |-> Unknown, attempted |-> 0, loading |-> FALSE,
            error |-> FALSE]
NoLoad == [at |-> "idle", from |-> 0, through |-> 0]

RatesInit ==
    /\ now = 1
    /\ published = [s \in Symbols |-> {}] /\ marked = [s \in Symbols |-> {}]
    /\ entry = [s \in Symbols |-> NoEntry]
    /\ load = [s \in Symbols |-> NoLoad]
    /\ budget = [pausedTo |-> 0, rejections |-> 0]

----------------------------------------------------------------------------
(* Scheduling a load. *)

Oldest == Larger(now - Retained, 1)
Minimum(e) == IF ~Daily THEN Oldest
              ELSE IF e.wanted = Unknown THEN Oldest ELSE e.wanted
NeedsEarlier(e) == Daily /\ e.from # Unknown /\ Minimum(e) < e.from

Due(e) ==
    /\ ~e.loading
    /\ \/ e.attempted = 0
       \/ now - e.attempted >= (IF e.error THEN 1 ELSE Refresh)
       \/ NeedsEarlier(e) /\ ~e.error

\* A missing mark keeps its settlement inside every later load.
Since(from, e) ==
    LET missing == {t \in e.noMark : t >= Minimum(e)} \union {from} IN
    CHOOSE t \in missing : \A u \in missing : t <= u

\* Fault: a load begins where the last one ended.
LoadFromEnd(e) ==
    Since(IF NeedsEarlier(e) \/ e.through = Unknown THEN Minimum(e)
          ELSE Larger(e.through, Minimum(e)), e)
LoadFrom(e) ==
    Since(IF NeedsEarlier(e) \/ e.through = Unknown THEN Minimum(e)
          ELSE Larger(e.through - Overlap, Minimum(e)), e)

Scheduled(s, e) ==
    /\ entry' = [entry EXCEPT ![s] =
         IF Due(e) THEN [e EXCEPT !.loading = TRUE, !.attempted = now] ELSE e]
    /\ load' = IF Due(e)
               THEN [load EXCEPT ![s] = [at |-> "queued", from |-> LoadFrom(e),
                                         through |-> now]]
               ELSE load
    /\ UNCHANGED <<now, published, marked, budget>>

\* A query about [from, now]; it reads what is cached without waiting.
Request(s, from) ==
    /\ from <= now
    /\ Scheduled(s, [entry[s] EXCEPT !.wanted =
         IF @ = Unknown THEN from ELSE Smaller(@, from)])

RefreshTick(s) ==
    /\ s \in Defaults \/ entry[s] # NoEntry
    /\ Due(entry[s])
    /\ Scheduled(s, entry[s])

----------------------------------------------------------------------------
(* One load. *)

\* reserve: no request is sent while the shared pause lasts.
Send(s) ==
    /\ load[s].at = "queued" /\ budget.pausedTo <= now
    /\ load' = [load EXCEPT ![s].at = "sent"]
    /\ UNCHANGED <<now, published, marked, entry, budget>>

\* A late success does not end a pause that began after it was sent.
Succeeded ==
    [budget EXCEPT !.rejections = IF budget.pausedTo > now THEN @ ELSE 0]
\* Several rejections of one burst count once; each further burst doubles the
\* pause, which never shrinks.
Rejected ==
    LET count == IF budget.pausedTo > now THEN budget.rejections
                 ELSE Smaller(budget.rejections + 1, 5)
        doubled == Backoff * 2 ^ Smaller(Larger(count - 1, 0), 4)
    IN  [rejections |-> count,
         pausedTo |-> Larger(budget.pausedTo,
                             now + Smaller(doubled, 12 * Backoff))]

Kept(s) ==
    {t \in entry[s].rates : /\ t < load[s].from
                            /\ Daily \/ t >= load[s].through - Retained}
Answered(s) ==
    LET rows == {t \in published[s] : t \in load[s].from..load[s].through}
        first == Smaller(IF entry[s].from = Unknown THEN load[s].from
                         ELSE entry[s].from, load[s].from)
    IN
    /\ load[s].at = "sent"
    /\ entry' = [entry EXCEPT ![s] =
         [@ EXCEPT !.rates = Kept(s) \union rows,
                   !.noMark = (entry[s].noMark \intersect Kept(s)) \union (rows \ marked[s]),
                   !.from = IF Daily THEN first
                            ELSE Larger(first, load[s].through - Retained),
                   !.through = load[s].through,
                   !.loading = FALSE, !.error = FALSE]]
    /\ load' = [load EXCEPT ![s] = NoLoad]
    /\ budget' = Succeeded
    /\ UNCHANGED <<now, published, marked>>

\* Refused for good, by the firewall, or answered with rows that do not parse.
Fails(s, rejected) ==
    /\ load[s].at = "sent"
    /\ entry' = [entry EXCEPT ![s] = [@ EXCEPT !.loading = FALSE, !.error = TRUE]]
    /\ load' = [load EXCEPT ![s] = NoLoad]
    /\ budget' = IF rejected THEN Rejected ELSE budget
    /\ UNCHANGED <<now, published, marked>>

----------------------------------------------------------------------------
(* The exchange and time. *)

Publish(s, t) ==
    /\ t \in Settlements \ published[s] /\ t <= now
    /\ published' = [published EXCEPT ![s] = @ \union {t}]
    /\ UNCHANGED <<now, marked, entry, load, budget>>
Mark(s, t) ==
    /\ t \in published[s] \ marked[s]
    /\ marked' = [marked EXCEPT ![s] = @ \union {t}]
    /\ UNCHANGED <<now, published, entry, load, budget>>

\* External to the code: rates are published within Overlap.
Tick ==
    /\ now < MaxClock
    /\ \A s \in Symbols : \A t \in Settlements \ published[s] : now < t + Overlap
    /\ now' = now + 1
    /\ UNCHANGED <<published, marked, entry, load, budget>>

RatesNext ==
    \/ \E s \in Symbols, from \in 1..MaxClock : Request(s, from)
    \/ \E s \in Symbols : RefreshTick(s) \/ Send(s) \/ Answered(s)
    \/ \E s \in Symbols, rejected \in BOOLEAN : Fails(s, rejected)
    \/ \E s \in Symbols, t \in Settlements : Publish(s, t) \/ Mark(s, t)
    \/ Tick

RatesSpec == RatesInit /\ [][RatesNext]_ratesVars

----------------------------------------------------------------------------
(* What a query about [from, through] is told to be complete. *)
CompleteFor(e, from, through) ==
    /\ e.from # Unknown /\ e.from <= from
    /\ e.through # Unknown /\ e.through >= through
    /\ ~e.error
    /\ \A t \in e.noMark : t \notin from..through

(* Types: a symbol is loading exactly while it has a load, and coverage has  *)
(* two ends.                                                                 *)
RatesTypeOK ==
    /\ now \in 1..MaxClock /\ budget.rejections \in 0..5
    /\ \A s \in Symbols :
          /\ entry[s].loading <=> load[s].at # "idle"
          /\ entry[s].noMark \subseteq entry[s].rates
          /\ entry[s].rates \subseteq published[s]
          /\ (entry[s].from = Unknown) <=> (entry[s].through = Unknown)

(* Complete means all of it: a query that is told a symbol is completely     *)
(* covered gets every settlement of its range older than the overlap, each   *)
(* with its mark price, after whatever failed loads, late publications and   *)
(* widened requests.                                                         *)
CompleteMeansAll ==
    \A s \in Symbols, from \in 1..MaxClock, through \in 1..MaxClock :
        CompleteFor(entry[s], from, through) =>
            \A t \in Settlements :
                t >= from /\ t <= through /\ t < entry[s].through - Overlap =>
                    t \in entry[s].rates \ entry[s].noMark
=============================================================================
