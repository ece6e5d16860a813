------------------------------ MODULE NavLedger ------------------------------
(***************************************************************************)
(* How the NAV generations of the dashboard are refreshed (src/src/nav.rs, *)
(* src/src/nav/fill_recovery.rs, build_dashboard in src/src/web.rs).       *)
(*                                                                         *)
(* Exec commits order records and trade updates to its RocksDB, roughly in *)
(* key order.  NavHistoryStore scans only what was appended, with an       *)
(* overlap, repairs fills from durable executions and says what changed.   *)
(* NavTimelineCache extends the ledgers of the previous generation by that *)
(* change when it may, and rebuilds them otherwise; a generation replaces  *)
(* the previous one whole or not at all.                                   *)
(*                                                                         *)
(* An order record and a trade update have a key: it orders the records    *)
(* and is a time at once.  All executions of an order share one role.      *)
(***************************************************************************)
EXTENDS NavReplay

CONSTANTS Records,      \* order records Exec may commit
          Updates,      \* trade updates: [key, order, role]
          Executions,   \* durable executions: [order, id, ts, price, quantity, role]
          Inputs,       \* fees and snapshots PostgreSQL may hold
          Corrections,  \* sequences of ownership corrections it may hold
          Queries,      \* curves asked for: [start, end, tick, prices]
          Overlap,      \* how far behind the last key a scan begins again
          MaxResets     \* bound: recreations of the Exec database

Orders == {r.order : r \in Records}

ASSUME NavAssumption ==
    /\ Hour \in Nat \ {0} /\ Minute \in Nat \ {0} /\ Overlap \in Nat \ {0} /\ MaxResets \in Nat
    /\ \A r \in Records \union Updates : r.key \in Nat \ {0}
    /\ \A r, q \in Records : r.key = q.key => r = q
    /\ \A u \in Updates : u.order \in Orders

VARIABLES db,        \* the Exec database: what is committed, and its identity
          store,     \* NavHistoryStore, for the one source
          revisions, \* HISTORY_REVISION
          inputs,    \* PostgreSQL: fee rates and snapshots
          audited,   \* PostgreSQL: ownership corrections
          cache      \* NavTimelineCache, the generation being served
navVars == <<db, store, revisions, inputs, audited, cache>>

NoChange == [previous |-> 0, events |-> {}, revised |-> -1]
NoHistory == [events |-> {}, roles |-> [o \in Orders |-> {}], revision |-> 0,
              change |-> NoChange]
NoStore == [identity |-> 0, last |-> [orders |-> 0, updates |-> 0],
            seen |-> [orders |-> {}, updates |-> {}],
            raw |-> [active |-> FALSE, events |-> {}],
            legacy |-> [o \in Orders |-> 0], history |-> NoHistory]

----------------------------------------------------------------------------
(* Repairing fills from durable executions (fill_recovery). *)

Total(rows) == FoldSet(LAMBDA row, sum : sum + row.quantity, 0, rows)
OfOrder(rows, order) == {row \in rows : row.order = order}
Unpriced(events) == \E e \in events : e.quantity > 0 /\ e.price = 0

\* One event for every execution, at the place of the first lifecycle record.
Recovered(events, fills) ==
    LET template == CHOOSE e \in events : \A f \in events : e.key <= f.key IN
    {e \in events : e.quantity = 0} \union
    {[template EXCEPT !.key = template.key + x.id, !.ts = x.ts, !.price = x.price,
                      !.quantity = x.quantity, !.role = x.role] : x \in fills}
WithRole(event, role) ==
    IF role = "unknown" \/ event.quantity = 0 THEN event
    ELSE [event EXCEPT !.role = role]

\* replace_orders, for one order: the lifecycle is kept until the evidence is
\* complete, enriched when it agrees, replaced when it says more.
ResolvedOrder(events, fills) ==
    IF \/ events = {} \/ fills = {}
       \/ Total(fills) < Total(events) /\ ~Unpriced(events)
    THEN events
    ELSE IF Total(fills) = Total(events) /\ ~Unpriced(events)
         THEN {WithRole(e, (CHOOSE x \in fills : TRUE).role) : e \in events}
    ELSE Recovered(events, fills)
Waiting(events, fills) == Unpriced(events) /\ Total(fills) < Total(events)

Resolved(events, fills) ==
    UNION {ResolvedOrder(OfOrder(events, o), OfOrder(fills, o)) : o \in Orders}
Unresolved(events, fills) ==
    \E o \in Orders : Waiting(OfOrder(events, o), OfOrder(fills, o))

----------------------------------------------------------------------------
(* Reading the database. *)

RolesOf(updates) ==
    [o \in Orders |-> {u.role : u \in OfOrder(updates, o)}]

\* load_source_history: everything, from the beginning.
Loaded(source) ==
    [events |-> Resolved(source.orders, source.executions),
     roles |-> RolesOf(source.updates)]

\* Fault: a scan begins right behind the last key.
ScannedBehindLast(s, rows, family) == {r \in rows : r.key > s.last[family]}

Scanned(s, rows, family) == {r \in rows : r.key >= s.last[family] - Overlap}
LastKey(rows, old) == IF rows = {} THEN old ELSE Max({r.key : r \in rows})
Remembered(s, rows, family, last) ==
    {r \in s.seen[family] \union rows : r.key >= last - Overlap}

LegacyTimes(events, times) ==
    [o \in Orders |->
        LET legacy == {e.ts : e \in {x \in OfOrder(events, o) :
                                        x.role = "none" /\ x.quantity > 0}}
                      \union ({times[o]} \ {0})
        IN  IF legacy = {} THEN 0 ELSE Min(legacy)]

\* What the next generation may be extended by: nothing when the projection
\* was replaced; else the new events and the first fill whose role changed.
ChangeOf(replaced, added, roles, s) ==
    LET revised == {s.legacy[o] : o \in {x \in Orders :
                        roles[x] # s.history.roles[x]}} \ {0}
    IN  IF replaced THEN NoChange
        ELSE IF added # {} \/ roles # s.history.roles
        THEN [previous |-> s.history.revision, events |-> added,
              revised |-> IF revised = {} THEN 0 ELSE Min(revised)]
        ELSE s.history.change

\* Fault: a recreated database is taken for the one read before.
KeptAlways(source, old) == old

\* What was read from another database is forgotten.
Kept(source, old) ==
    IF old.identity \in {0, source.identity} THEN old ELSE NoStore

\* refresh_source: the store after it, and whether it could be refreshed.
Refreshed(source, old, revision) ==
    LET s == Kept(source, old)
        orders == Scanned(s, source.orders, "orders")
        updates == Scanned(s, source.updates, "updates")
        added == orders \ s.seen.orders
        combined == added \union
            (IF s.raw.active THEN s.raw.events ELSE s.history.events)
        resolved == Resolved(combined, source.executions)
        active == s.raw.active \/ resolved # combined
        replaced == active /\ resolved # s.history.events \union added
        roles == [o \in Orders |-> s.history.roles[o] \union
                     RolesOf(updates \ s.seen.updates)[o]]
        changed == replaced \/ added # {} \/ roles # s.history.roles
        last == [orders |-> LastKey(orders, s.last.orders),
                 updates |-> LastKey(updates, s.last.updates)]
        events == IF replaced THEN resolved ELSE s.history.events \union added
    IN  [ok |-> ~Unresolved(combined, source.executions),
         revision |-> IF changed THEN revision + 1 ELSE revision,
         store |->
           [identity |-> source.identity, last |-> last,
            seen |-> [orders |-> Remembered(s, orders, "orders", last.orders),
                      updates |-> Remembered(s, updates, "updates", last.updates)],
            raw |-> [active |-> active, events |-> IF active THEN combined ELSE {}],
            legacy |-> IF replaced
                       THEN LegacyTimes(events, [o \in Orders |-> 0])
                       ELSE LegacyTimes(added, s.legacy),
            history |-> [events |-> events, roles |-> roles,
                         revision |-> IF changed THEN revision + 1
                                      ELSE s.history.revision,
                         change |-> ChangeOf(replaced, added, roles, s)]]]

----------------------------------------------------------------------------
(* A generation of the dashboard. *)

FromScratch(history, corrections, given, strategic) ==
    Built(Prepared(history.events, history.roles, given, corrections, strategic))

\* Fault: any change is applied to whatever generation is served.
FollowsAny(history) == history.change # NoChange

\* The change leads from the generation served to this history.
Follows(history) ==
    /\ history.change # NoChange
    /\ history.change.previous = cache.history.revision
    /\ cache.history.revision # 0 \/ cache.history.events = {}

\* One projection: kept, extended by the change, or rebuilt.
Projection(history, strategic) ==
    LET old == cache.sources[strategic]
        opening == Opening(inputs, strategic)
        same == cache.inputs = inputs /\ cache.audited = audited
    IN  IF same /\ history.revision # 0
           /\ history.revision = cache.history.revision THEN old
        ELSE IF same /\ Follows(history) /\ Extends(old, history.change, opening)
        THEN Extended(old, history.change, history.roles)
        ELSE FromScratch(history, audited, inputs, strategic)

\* Without a strategies' snapshot both projections are one.
Generation(history) ==
    [history |-> history, inputs |-> inputs, audited |-> audited,
     sources |-> [x \in BOOLEAN |-> Projection(history, x /\ Strategic(inputs))]]
Complete(generation) == \A x \in BOOLEAN : generation.sources[x].ok

NavInit ==
    /\ db = [present |-> FALSE, identity |-> 1, since |-> 0, orders |-> {},
             updates |-> {}, executions |-> {}]
    /\ store = NoStore /\ revisions = 0
    /\ inputs \in Inputs /\ audited = <<>>
    /\ cache = [history |-> NoHistory, inputs |-> inputs, audited |-> <<>>,
                sources |-> [strategic \in BOOLEAN |->
                   FromScratch(NoHistory, <<>>, inputs,
                               strategic /\ Strategic(inputs))]]
    /\ \A x \in BOOLEAN : cache.sources[x].ok

\* build_dashboard: nothing is served unless both halves succeed, but the
\* history a failed generation read stays read.
Refresh ==
    \E read \in {Refreshed(db, store, revisions)} :
    \E next \in {Generation(IF db.present THEN read.store.history ELSE NoHistory)} :
        /\ db.present => read.ok
        /\ store' = IF db.present THEN read.store ELSE NoStore
        /\ revisions' = IF db.present THEN read.revision ELSE revisions
        /\ cache' = IF Complete(next) THEN next ELSE cache
        /\ UNCHANGED <<db, inputs, audited>>

\* The history is read and the generation fails for a reason of its own.
RefreshFails ==
    LET read == Refreshed(db, store, revisions) IN
    /\ db.present /\ read.ok
    /\ store' = read.store /\ revisions' = read.revision
    /\ UNCHANGED <<db, inputs, audited, cache>>

----------------------------------------------------------------------------
(* Exec and the operators. *)

\* External: records are committed in key order, but for less than Overlap, and
\* none that is older than the database.
Punctual(row, rows) ==
    row.key > db.since /\ \A other \in rows : row.key > other.key - Overlap

WriteOrder(r) ==
    /\ r \in Records \ db.orders /\ Punctual(r, db.orders)
    /\ db' = [db EXCEPT !.present = TRUE, !.orders = @ \union {r}]
    /\ UNCHANGED <<store, revisions, inputs, audited, cache>>
WriteUpdate(u) ==
    /\ db.present /\ u \in Updates \ db.updates /\ Punctual(u, db.updates)
    /\ db' = [db EXCEPT !.updates = @ \union {u}]
    /\ UNCHANGED <<store, revisions, inputs, audited, cache>>
WriteExecution(x) ==
    /\ db.present /\ x \in Executions \ db.executions
    /\ db' = [db EXCEPT !.executions = @ \union {x}]
    /\ UNCHANGED <<store, revisions, inputs, audited, cache>>
Recreate ==
    /\ db.present /\ db.identity <= MaxResets
    /\ db' = [present |-> FALSE, identity |-> db.identity + 1, orders |-> {},
              updates |-> {}, executions |-> {},
              since |-> LastKey(db.orders \union db.updates, db.since)]
    /\ UNCHANGED <<store, revisions, inputs, audited, cache>>

\* A later snapshot or another fee rate; corrections are only ever added.
SaveInputs(given) ==
    /\ given # inputs /\ inputs' = given
    /\ given.account.ts >= inputs.account.ts
    /\ given.strategy.ts >= inputs.strategy.ts
    /\ UNCHANGED <<db, store, revisions, audited, cache>>
Audit(corrections) ==
    /\ audited # corrections /\ IsPrefix(audited, corrections)
    /\ audited' = corrections
    /\ UNCHANGED <<db, store, revisions, inputs, cache>>

NavNext ==
    \/ Refresh \/ RefreshFails \/ Recreate
    \/ \E r \in Records : WriteOrder(r)
    \/ \E u \in Updates : WriteUpdate(u)
    \/ \E x \in Executions : WriteExecution(x)
    \/ \E given \in Inputs : SaveInputs(given)
    \/ \E corrections \in Corrections : Audit(corrections)

NavSpec == NavInit /\ [][NavNext]_navVars

----------------------------------------------------------------------------
(* Types: the store never holds more than the database it was read from, and *)
(* revisions only come from the counter.                                      *)
NavTypeOK ==
    /\ store.history.revision <= revisions
    /\ cache.history.revision <= revisions
    /\ store.identity <= db.identity
    /\ store.identity = db.identity => /\ store.seen.orders \subseteq db.orders
                                       /\ store.seen.updates \subseteq db.updates
    /\ \A x \in BOOLEAN : cache.sources[x].ok

(* Nothing is read twice and nothing is missed: whatever was committed late,  *)
(* recovered from executions, or recreated since the last scan, a refresh     *)
(* yields the events and roles a full load of the same database yields.       *)
HistoryComplete ==
    LET read == Refreshed(db, store, revisions) IN
    db.present /\ read.ok =>
        /\ read.store.history.events = Loaded(db).events
        /\ read.store.history.roles = Loaded(db).roles

(* Extending a generation is the same as rebuilding it: ledgers, checkpoints  *)
(* and first sightings of the generation served equal those computed from its *)
(* whole history, after late fills, revised roles, failed generations and new *)
(* snapshots.                                                                 *)
CacheMatchesRebuild ==
    \A x \in BOOLEAN :
        cache.sources[x] = FromScratch(cache.history, cache.audited, cache.inputs,
                                       x /\ Strategic(cache.inputs))

\* The projections that differ.
Served == {x \in BOOLEAN : x => Strategic(cache.inputs)}

(* A window has one answer: the checkpoint a curve starts from does not show  *)
(* in its ticks, marks and totals, and the report of an owner, which starts   *)
(* from the first fill and samples at fills only, ends where its curve ends.  *)
Agree(curve, full, reports) ==
    /\ curve = full
    /\ \A o \in DOMAIN reports :
          reports[o].state.ok /\ Last(curve).ok =>
             Last(reports[o].rows) - Head(reports[o].rows) =
                IF o = Unallocated THEN Residual(Last(curve)) ELSE Last(curve).owned[o]
Reported(p) == Strategies \union (IF p.strategic THEN {Unallocated} ELSE {})
OneAnswer ==
    \A x \in Served, query \in Queries : \A cached \in {cache.sources[x]} :
        Agree(Timeline(cached, query),
              Timeline([cached EXCEPT !.checkpoints = <<>>], query),
              [o \in Reported(cached.prepared) |-> Report(cached.prepared, o, query)])

(* The strategies add up to the account at every point of a curve: without an *)
(* opening of the strategies nothing is left over, with one what is left over *)
(* is the ledger Exec keeps of its own closes (nav.rs:3498, "Under strategy   *)
(* allocation this matches Exec's SYSTEM_POSITION_CLOSE ledger").             *)
CloseLedger(p, ts, through) ==
    LET Due(event) == event.ts < ts \/ (through /\ event.ts = ts)
        opened == IF p.opening = Nothing \/ p.opening.ts > ts THEN EmptyVenue
                  ELSE Opened(p.opening.quantity
                              - FoldFunction(+, 0, p.owned), p.price)
        closed == FoldLeft(LAMBDA v, f : Filled(v, f, p.fees), opened,
                    SelectSeq(p.fills, LAMBDA f : Due(f) /\ f.strategy = SystemClose))
    IN  FoldLeft(LAMBDA v, a : [v EXCEPT !.fifo = Bought(@,
                    a.moves[Unallocated].after - a.moves[Unallocated].before, a.price)],
                 closed, SelectSeq(p.allocations,
                            LAMBDA a : Due(a) /\ Unallocated \in DOMAIN a.moves))
AddsUp(p, points, query) ==
    \A i \in DOMAIN points :
        Residual(points[i]) =
            IF ~p.strategic \/ i = 1 THEN 0
            ELSE Nav(CloseLedger(p, points[i].ts, TRUE), points[i].mark)
                 - Nav(CloseLedger(p, query.start, FALSE), points[1].mark)
StrategiesAddUp ==
    \A x \in Served, query \in Queries :
        AddsUp(cache.sources[x].prepared, Timeline(cache.sources[x], query), query)
=============================================================================
