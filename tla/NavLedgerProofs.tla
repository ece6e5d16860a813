--------------------------- MODULE NavLedgerProofs ---------------------------
(***************************************************************************)
(* An incremental refresh of the NAV history reads what a full load would, *)
(* for every value of the constants: whatever Exec commits late within the *)
(* overlap, recovers from executions or recreates between two scans.       *)
(*                                                                         *)
(* What a recovery makes of the records read (Resolved) is not looked      *)
(* into: an incremental refresh resolves all that was ever read, and what  *)
(* was read is all there is.                                               *)
(***************************************************************************)
EXTENDS NavLedger, TLAPS

-----------------------------------------------------------------------------
(***************************************************************************)
(* One family of rows, scanned with an overlap                              *)
(***************************************************************************)
Keyed(rows) == \A r \in rows : r.key \in Nat \ {0}

\* Rows that are there have a last one.
Latest(rows) == rows # {} => \E r \in rows : \A q \in rows : q.key <= r.key

\* Of all rows some have been read.  The last key is the last of them, those at most the
\* overlap behind it are remembered, and none further behind is left to read.
HasRead(all, read, seen, last) ==
  /\ read \subseteq all /\ last \in Nat
  /\ \A r \in read : r.key <= last
  /\ last = 0 \/ \E r \in read : r.key = last
  /\ \A r \in all \ read : r.key > last - Overlap
  /\ seen = {r \in read : r.key >= last - Overlap}

LEMMA LastKeyFacts ==
  ASSUME NEW rows, NEW old \in Nat, Keyed(rows), Latest(rows)
  PROVE  /\ LastKey(rows, old) \in Nat
         /\ rows = {} => LastKey(rows, old) = old
         /\ rows # {} => /\ \E r \in rows : r.key = LastKey(rows, old)
                         /\ \A r \in rows : r.key <= LastKey(rows, old)
<1>1. CASE rows = {}
  BY <1>1 DEF LastKey
<1>2. CASE rows # {}
  <2> DEFINE keys == {r.key : r \in rows}
  <2>1. PICK r \in rows : \A q \in rows : q.key <= r.key
    BY <1>2 DEF Latest
  <2>2. r.key \in keys /\ \A k \in keys : r.key >= k
    BY <2>1 DEF Keyed
  <2>3. Max(keys) \in keys /\ \A k \in keys : Max(keys) >= k
    BY <2>2 DEF Max
  <2>4. LastKey(rows, old) = Max(keys)
    BY <1>2 DEF LastKey
  <2> HIDE DEF keys
  <2>5. \A k \in keys : k \in Nat
    BY DEF keys, Keyed
  <2>6. \A q \in rows : q.key \in keys
    BY DEF keys
  <2>7. \A k \in keys : \E q \in rows : q.key = k
    BY DEF keys
  <2> QED BY <1>2, <2>3, <2>4, <2>5, <2>6, <2>7
<1> QED BY <1>1, <1>2

\* A scan from the overlap on reads all that is left.
LEMMA ScanReadsAll ==
  ASSUME NEW all, NEW read, NEW seen, NEW last, Keyed(all), Latest(all),
         HasRead(all, read, seen, last),
         NEW rows, rows = {r \in all : r.key >= last - Overlap},
         NEW next, next = LastKey(rows, last)
  PROVE  /\ read \union (rows \ seen) = all
         /\ HasRead(all, all, {r \in seen \union rows : r.key >= next - Overlap}, next)
<1>1. /\ Overlap \in Nat \ {0} /\ last \in Nat /\ read \subseteq all
      /\ \A r \in all : r.key \in Nat
  BY NavAssumption DEF HasRead, Keyed
<1>2. Keyed(rows) /\ Latest(rows)
  <2>1. Keyed(rows)
    BY DEF Keyed
  <2>2. Latest(rows)
    <3> SUFFICES ASSUME NEW x \in rows PROVE \E r \in rows : \A q \in rows : q.key <= r.key
      BY DEF Latest
    <3>1. PICK r \in all : \A q \in all : q.key <= r.key
      BY DEF Latest
    <3>2. r.key >= x.key /\ x.key >= last - Overlap
      BY <3>1
    <3>3. r \in rows
      BY <1>1, <3>1, <3>2
    <3> QED BY <3>1, <3>3
  <2> QED BY <2>1, <2>2
<1>3. /\ next \in Nat
      /\ rows = {} => next = last
      /\ rows # {} => /\ \E r \in rows : r.key = next
                      /\ \A r \in rows : r.key <= next
  BY <1>1, <1>2, LastKeyFacts
<1>4. read \union (rows \ seen) = all
  BY <1>1 DEF HasRead
<1>5. next >= last
  <2>1. CASE last = 0
    BY <1>3, <2>1
  <2>2. CASE \E r \in read : r.key = last
    <3>1. PICK r \in rows : r.key = last
      BY <1>1, <2>2
    <3> QED BY <1>1, <1>3, <3>1
  <2> QED BY <2>1, <2>2 DEF HasRead
<1>6. \A r \in all : r.key <= next
  <2> SUFFICES ASSUME NEW r \in all PROVE r.key <= next
    OBVIOUS
  <2>1. CASE r \in rows
    BY <1>3, <2>1
  <2>2. CASE r \notin rows
    <3>1. r.key < last - Overlap /\ r.key \in Nat
      BY <1>1, <2>2
    <3> QED BY <1>1, <1>3, <1>5, <3>1
  <2> QED BY <2>1, <2>2
<1>7. next = 0 \/ \E r \in all : r.key = next
  BY <1>1, <1>3 DEF HasRead
<1>8. {r \in seen \union rows : r.key >= next - Overlap}
        = {r \in all : r.key >= next - Overlap}
  BY <1>1, <1>3, <1>5 DEF HasRead
<1> QED BY <1>3, <1>4, <1>6, <1>7, <1>8 DEF HasRead

\* A row that comes late within the overlap is still ahead of the next scan.
LEMMA LateIsAhead ==
  ASSUME NEW all, NEW read, NEW seen, NEW last, NEW row, Keyed(all),
         HasRead(all, read, seen, last), row.key \in Nat \ {0}, Punctual(row, all)
  PROVE  HasRead(all \union {row}, read, seen, last)
<1>1. row.key > last - Overlap
  BY NavAssumption DEF HasRead, Punctual
<1> QED BY <1>1 DEF HasRead

LEMMA LatestGrows ==
  ASSUME NEW all, NEW row, Keyed(all), Latest(all), row.key \in Nat \ {0}
  PROVE  Keyed(all \union {row}) /\ Latest(all \union {row})
<1>1. Keyed(all \union {row})
  BY DEF Keyed
<1>2. CASE all = {}
  <2>1. \A q \in all \union {row} : q.key <= row.key
    BY <1>2
  <2> QED BY <1>1, <2>1 DEF Latest
<1>3. CASE all # {}
  <2>1. PICK r \in all : \A q \in all : q.key <= r.key
    BY <1>3 DEF Latest
  <2>2. r.key \in Nat
    BY DEF Keyed
  <2> QED BY <1>1, <2>1, <2>2 DEF Latest, Keyed
<1> QED BY <1>1, <1>2, <1>3

-----------------------------------------------------------------------------
(***************************************************************************)
(* The store                                                                *)
(***************************************************************************)
\* The order records that were read: as they were, where a recovery changed them.
RawOrders(s) == IF s.raw.active THEN s.raw.events ELSE s.history.events

\* A store has read a part of each family, and knows the roles of the updates it read.
StoreReads(s) ==
  /\ HasRead(db.orders, RawOrders(s), s.seen.orders, s.last.orders)
  /\ \E read \in SUBSET db.updates :
       /\ HasRead(db.updates, read, s.seen.updates, s.last.updates)
       /\ s.history.roles = RolesOf(read)

DbTyped ==
  /\ db.orders \subseteq Records /\ db.updates \subseteq Updates
  /\ Latest(db.orders) /\ Latest(db.updates)
  /\ db.identity \in Nat \ {0}

NavInv ==
  /\ DbTyped
  /\ store.identity \in Nat /\ store.identity <= db.identity
  /\ store.identity = 0 => store = NoStore
  /\ StoreReads(Kept(db, store))
  /\ revisions \in Nat
  /\ store.history.revision \in Nat /\ store.history.revision <= revisions
  /\ cache.history.revision \in Nat /\ cache.history.revision <= revisions
  /\ \A x \in BOOLEAN : cache.sources[x].ok

LEMMA DbKeyed == DbTyped => Keyed(db.orders) /\ Keyed(db.updates)
BY NavAssumption DEF DbTyped, Keyed

LEMMA NothingRead ==
  /\ NoStore.identity = 0 /\ NoStore.history.revision = 0
  /\ NoStore.history = NoHistory /\ NoHistory.revision = 0
  /\ DbTyped => StoreReads(NoStore)
<1>1. /\ NoStore.identity = 0 /\ NoStore.history.revision = 0
      /\ NoStore.history = NoHistory /\ NoHistory.revision = 0
  BY DEF NoStore, NoHistory
<1>2. ASSUME DbTyped PROVE StoreReads(NoStore)
  <2>1. \A r \in db.orders \union db.updates : r.key > 0 - Overlap
    BY <1>2, DbKeyed, NavAssumption DEF Keyed
  <2>2. /\ NoStore.seen.orders = {} /\ NoStore.seen.updates = {}
        /\ NoStore.last.orders = 0 /\ NoStore.last.updates = 0
        /\ RawOrders(NoStore) = {} /\ NoStore.history.roles = [o \in Orders |-> {}]
    BY DEF NoStore, NoHistory, RawOrders
  <2>3. HasRead(db.orders, {}, {}, 0) /\ HasRead(db.updates, {}, {}, 0)
    BY <2>1 DEF HasRead
  <2>4. RolesOf({}) = [o \in Orders |-> {}]
    BY DEF RolesOf, OfOrder
  <2> QED BY <2>2, <2>3, <2>4 DEF StoreReads
<1> QED BY <1>1, <1>2

\* What a refresh reads is everything, and its events are what a full load makes of it.
LEMMA RefreshReads ==
  ASSUME NavInv, NEW read, read = Refreshed(db, store, revisions)
  PROVE  /\ read.store.identity = db.identity
         /\ StoreReads(read.store)
         /\ read.store.history.events = Loaded(db).events
         /\ read.store.history.roles = Loaded(db).roles
         /\ read.revision \in Nat /\ read.revision >= revisions
         /\ read.store.history.revision \in Nat
         /\ read.store.history.revision <= read.revision
<1> DEFINE s == Kept(db, store)
           orders == Scanned(s, db.orders, "orders")
           updates == Scanned(s, db.updates, "updates")
           added == orders \ s.seen.orders
           combined == added \union RawOrders(s)
           resolved == Resolved(combined, db.executions)
           active == s.raw.active \/ resolved # combined
           replaced == active /\ resolved # s.history.events \union added
           roles == [o \in Orders |-> s.history.roles[o] \union
                        RolesOf(updates \ s.seen.updates)[o]]
           changed == replaced \/ added # {} \/ roles # s.history.roles
           last == [orders |-> LastKey(orders, s.last.orders),
                    updates |-> LastKey(updates, s.last.updates)]
           events == IF replaced THEN resolved ELSE s.history.events \union added
<1>1. /\ read.revision = IF changed THEN revisions + 1 ELSE revisions
      /\ read.store.identity = db.identity
      /\ read.store.last = last
      /\ read.store.seen = [orders |-> Remembered(s, orders, "orders", last.orders),
                            updates |-> Remembered(s, updates, "updates", last.updates)]
      /\ read.store.raw = [active |-> active, events |-> IF active THEN combined ELSE {}]
      /\ read.store.history.events = events
      /\ read.store.history.roles = roles
      /\ read.store.history.revision = IF changed THEN revisions + 1
                                                  ELSE s.history.revision
  BY Zenon DEF Refreshed, RawOrders
<1>2. /\ DbTyped /\ Keyed(db.orders) /\ Keyed(db.updates) /\ StoreReads(s)
      /\ revisions \in Nat
      /\ s.history.revision \in Nat /\ s.history.revision <= revisions
  <2>1. s = store \/ s = NoStore
    BY DEF Kept
  <2> HIDE DEF s
  <2> QED BY <2>1, DbKeyed, NothingRead DEF NavInv, s
<1>3. PICK known \in SUBSET db.updates :
        /\ HasRead(db.updates, known, s.seen.updates, s.last.updates)
        /\ s.history.roles = RolesOf(known)
  BY <1>2 DEF StoreReads
<1> HIDE DEF s
<1>4. /\ combined = db.orders
      /\ HasRead(db.orders, db.orders, Remembered(s, orders, "orders", last.orders), last.orders)
  <2>1. HasRead(db.orders, RawOrders(s), s.seen.orders, s.last.orders)
    BY <1>2 DEF StoreReads
  <2>2. orders = {r \in db.orders : r.key >= s.last.orders - Overlap}
    BY DEF Scanned
  <2>3. last.orders = LastKey(orders, s.last.orders)
    OBVIOUS
  <2> HIDE DEF orders, last
  <2>4. /\ RawOrders(s) \union (orders \ s.seen.orders) = db.orders
        /\ HasRead(db.orders, db.orders,
                   {r \in s.seen.orders \union orders : r.key >= last.orders - Overlap},
                   last.orders)
    BY <1>2, <2>1, <2>2, <2>3, ScanReadsAll DEF DbTyped
  <2> QED BY <2>4 DEF Remembered
<1>5. /\ known \union (updates \ s.seen.updates) = db.updates
      /\ HasRead(db.updates, db.updates,
                 Remembered(s, updates, "updates", last.updates), last.updates)
  <2>1. updates = {r \in db.updates : r.key >= s.last.updates - Overlap}
    BY DEF Scanned
  <2>2. last.updates = LastKey(updates, s.last.updates)
    OBVIOUS
  <2> HIDE DEF updates, last
  <2>3. /\ known \union (updates \ s.seen.updates) = db.updates
        /\ HasRead(db.updates, db.updates,
                   {r \in s.seen.updates \union updates : r.key >= last.updates - Overlap},
                   last.updates)
    BY <1>2, <1>3, <2>1, <2>2, ScanReadsAll DEF DbTyped
  <2> QED BY <2>3 DEF Remembered
<1>6. roles = RolesOf(db.updates)
  <2> HIDE DEF updates
  <2> QED BY <1>3, <1>5 DEF RolesOf, OfOrder
<1>7. events = resolved
  <2>1. ~s.raw.active => RawOrders(s) = s.history.events
    BY DEF RawOrders
  <2> QED BY <2>1
<1>8. resolved = Loaded(db).events /\ roles = Loaded(db).roles
  BY <1>4, <1>6 DEF Loaded
<1>9. StoreReads(read.store)
  <2>1. RawOrders(read.store) = db.orders
    <3>1. active \/ resolved = combined
      OBVIOUS
    <3> HIDE DEF active, combined, resolved, events
    <3>2. RawOrders(read.store) = IF read.store.raw.active THEN read.store.raw.events
                                                           ELSE read.store.history.events
      BY DEF RawOrders
    <3>3. CASE active
      BY <1>1, <1>4, <3>2, <3>3
    <3>4. CASE ~active
      BY <1>1, <1>4, <1>7, <3>1, <3>2, <3>4
    <3> QED BY <3>3, <3>4
  <2>2. /\ HasRead(db.orders, RawOrders(read.store), read.store.seen.orders,
                   read.store.last.orders)
        /\ HasRead(db.updates, db.updates, read.store.seen.updates,
                   read.store.last.updates)
    BY <1>1, <1>4, <1>5, <2>1
  <2> QED BY <1>1, <1>6, <2>2 DEF StoreReads
<1> HIDE DEF changed, events, roles
<1> QED BY <1>1, <1>2, <1>7, <1>8, <1>9

-----------------------------------------------------------------------------
(***************************************************************************)
(* Every step keeps the invariant                                           *)
(***************************************************************************)
LEMMA NavStart == NavInit => NavInv
<1> SUFFICES ASSUME NavInit PROVE NavInv
  OBVIOUS
<1>1. DbTyped /\ db.identity = 1
  BY DEF NavInit, DbTyped, Latest
<1>2. Kept(db, store) = NoStore /\ store = NoStore
  BY NothingRead DEF NavInit, Kept
<1>3. cache.history = NoHistory /\ revisions = 0 /\ \A x \in BOOLEAN : cache.sources[x].ok
  BY DEF NavInit
<1> QED BY <1>1, <1>2, <1>3, NothingRead DEF NavInv

\* A store that was just refreshed is kept by the next refresh of the same database.
LEMMA RefreshedHolds ==
  ASSUME NavInv, UNCHANGED db,
         store' = Refreshed(db, store, revisions).store,
         revisions' = Refreshed(db, store, revisions).revision,
         \/ cache' = cache
         \/ /\ cache'.history = store'.history
            /\ \A x \in BOOLEAN : cache'.sources[x].ok
  PROVE  NavInv'
<1>1. PICK read : read = Refreshed(db, store, revisions)
  OBVIOUS
<1>2. /\ read.store.identity = db.identity /\ StoreReads(read.store)
      /\ read.revision \in Nat /\ read.revision >= revisions
      /\ read.store.history.revision \in Nat
      /\ read.store.history.revision <= read.revision
  BY <1>1, RefreshReads
<1>3. store' = read.store /\ revisions' = read.revision
  BY <1>1
<1>4. DbTyped' /\ store'.identity = db'.identity /\ db'.identity \in Nat \ {0}
  BY <1>2, <1>3 DEF NavInv, DbTyped
<1>5. StoreReads(Kept(db, store))'
  <2>1. StoreReads(read.store)'
    BY <1>2 DEF StoreReads
  <2>2. Kept(db', store') = store'
    BY <1>4 DEF Kept
  <2> QED BY <1>3, <2>1, <2>2 DEF StoreReads
<1>6. /\ cache'.history.revision \in Nat /\ cache'.history.revision <= revisions'
      /\ \A x \in BOOLEAN : cache'.sources[x].ok
  BY <1>2, <1>3 DEF NavInv
<1> QED BY <1>2, <1>3, <1>4, <1>5, <1>6 DEF NavInv

LEMMA RefreshKeeps == NavInv /\ Refresh => NavInv'
<1> SUFFICES ASSUME NavInv, Refresh PROVE NavInv'
  OBVIOUS
<1> DEFINE history == IF db.present THEN Refreshed(db, store, revisions).store.history
                                    ELSE NoHistory
<1>1. /\ store' = IF db.present THEN Refreshed(db, store, revisions).store ELSE NoStore
      /\ revisions' = IF db.present THEN Refreshed(db, store, revisions).revision
                                    ELSE revisions
      /\ cache' = IF Complete(Generation(history)) THEN Generation(history) ELSE cache
      /\ UNCHANGED db
  BY Zenon DEF Refresh
<1> HIDE DEF history
<1>2. \/ cache' = cache
      \/ cache'.history = history /\ \A x \in BOOLEAN : cache'.sources[x].ok
  <2>1. Generation(history).history = history
    BY DEF Generation
  <2> QED BY <1>1, <2>1 DEF Complete
<1>3. CASE db.present
  BY <1>1, <1>2, <1>3, RefreshedHolds DEF history
<1>4. CASE ~db.present
  <2>1. store' = NoStore /\ revisions' = revisions
    BY <1>1, <1>4
  <2>2. DbTyped' /\ db' = db
    BY <1>1 DEF NavInv, DbTyped
  <2>3. StoreReads(Kept(db, store))'
    <3>1. Kept(db', store') = NoStore
      BY <2>1 DEF Kept
    <3>2. StoreReads(NoStore)
      BY NothingRead DEF NavInv
    <3>3. StoreReads(NoStore)'
      BY <2>2, <3>2 DEF StoreReads, RawOrders, NoStore, NoHistory
    <3> QED BY <3>1, <3>3 DEF StoreReads, RawOrders
  <2>4. cache'.history.revision \in Nat /\ cache'.history.revision <= revisions'
    BY <1>2, <1>4, <2>1, NothingRead DEF NavInv, history
  <2>5. store'.identity = 0 /\ store'.history.revision = 0
    BY <2>1, NothingRead
  <2>6. \A x \in BOOLEAN : cache'.sources[x].ok
    BY <1>2 DEF NavInv
  <2>7. 0 <= db'.identity /\ revisions' \in Nat /\ 0 <= revisions'
    BY <2>1, <2>2 DEF NavInv, DbTyped
  <2> QED BY <2>1, <2>2, <2>3, <2>4, <2>5, <2>6, <2>7 DEF NavInv
<1> QED BY <1>3, <1>4

LEMMA RefreshFailsKeeps == NavInv /\ RefreshFails => NavInv'
BY RefreshedHolds DEF RefreshFails

\* What Exec commits to the database is ahead of every scan.
LEMMA WriteKeeps ==
  ASSUME NavInv, DbTyped', db'.identity = db.identity,
         UNCHANGED <<store, revisions, cache>>,
         \/ db'.orders = db.orders
         \/ \E r \in Records : Punctual(r, db.orders) /\ db'.orders = db.orders \union {r},
         \/ db'.updates = db.updates
         \/ \E u \in Updates : Punctual(u, db.updates) /\ db'.updates = db.updates \union {u}
  PROVE  NavInv'
<1>1. PICK s : s = Kept(db, store) /\ StoreReads(s)
  BY DEF NavInv
<1>2. Keyed(db.orders) /\ Keyed(db.updates)
  BY DbKeyed DEF NavInv
<1>3. HasRead(db'.orders, RawOrders(s), s.seen.orders, s.last.orders)
  BY <1>1, <1>2, LateIsAhead, NavAssumption DEF StoreReads
<1>4. PICK read \in SUBSET db.updates :
        /\ HasRead(db.updates, read, s.seen.updates, s.last.updates)
        /\ s.history.roles = RolesOf(read)
  BY <1>1 DEF StoreReads
<1>5. HasRead(db'.updates, read, s.seen.updates, s.last.updates)
  BY <1>2, <1>4, LateIsAhead, NavAssumption
<1>6. Kept(db', store') = s
  BY <1>1 DEF Kept
<1>7. StoreReads(s)'
  BY <1>3, <1>4, <1>5 DEF StoreReads, HasRead
<1>8. StoreReads(Kept(db, store))'
  BY <1>6, <1>7 DEF StoreReads
<1> QED BY <1>8 DEF NavInv

LEMMA WriteOrderKeeps ==
  ASSUME NavInv, NEW r \in Records, WriteOrder(r)
  PROVE  NavInv'
<1>1. /\ db'.orders = db.orders \union {r} /\ db'.updates = db.updates
      /\ db'.identity = db.identity
  BY DEF WriteOrder
<1>2. DbTyped'
  <2>1. Keyed(db.orders) /\ Latest(db.orders) /\ r.key \in Nat \ {0}
    BY DbKeyed, NavAssumption DEF NavInv, DbTyped
  <2>2. Latest(db.orders \union {r})
    BY <2>1, LatestGrows
  <2> QED BY <1>1, <2>2 DEF NavInv, DbTyped
<1> QED BY <1>1, <1>2, WriteKeeps DEF WriteOrder

LEMMA WriteUpdateKeeps ==
  ASSUME NavInv, NEW u \in Updates, WriteUpdate(u)
  PROVE  NavInv'
<1>1. /\ db'.updates = db.updates \union {u} /\ db'.orders = db.orders
      /\ db'.identity = db.identity
  BY DEF WriteUpdate
<1>2. DbTyped'
  <2>1. Keyed(db.updates) /\ Latest(db.updates) /\ u.key \in Nat \ {0}
    BY DbKeyed, NavAssumption DEF NavInv, DbTyped
  <2>2. Latest(db.updates \union {u})
    BY <2>1, LatestGrows
  <2> QED BY <1>1, <2>2 DEF NavInv, DbTyped
<1> QED BY <1>1, <1>2, WriteKeeps DEF WriteUpdate

LEMMA WriteExecutionKeeps ==
  ASSUME NavInv, NEW x \in Executions, WriteExecution(x)
  PROVE  NavInv'
<1>1. /\ db'.updates = db.updates /\ db'.orders = db.orders
      /\ db'.identity = db.identity
  BY DEF WriteExecution
<1>2. DbTyped'
  BY <1>1 DEF NavInv, DbTyped
<1> QED BY <1>1, <1>2, WriteKeeps DEF WriteExecution

\* A database that was recreated has an identity no store has.
LEMMA RecreateKeeps == NavInv /\ Recreate => NavInv'
<1> SUFFICES ASSUME NavInv, Recreate PROVE NavInv'
  OBVIOUS
<1>1. /\ db'.orders = {} /\ db'.updates = {} /\ db'.identity = db.identity + 1
      /\ UNCHANGED <<store, revisions, cache>>
  BY DEF Recreate
<1>2. DbTyped' /\ db'.identity > db.identity
  BY <1>1 DEF NavInv, DbTyped, Latest
<1>3. Kept(db', store') = NoStore
  BY <1>1, <1>2 DEF Kept, NavInv, DbTyped
<1>4. StoreReads(NoStore)'
  <2>1. /\ NoStore.seen.orders = {} /\ NoStore.seen.updates = {}
        /\ NoStore.last.orders = 0 /\ NoStore.last.updates = 0
        /\ RawOrders(NoStore) = {} /\ NoStore.history.roles = [o \in Orders |-> {}]
    BY DEF NoStore, NoHistory, RawOrders
  <2>2. HasRead({}, {}, {}, 0)
    BY DEF HasRead
  <2>3. RolesOf({}) = [o \in Orders |-> {}]
    BY DEF RolesOf, OfOrder
  <2> QED BY <1>1, <2>1, <2>2, <2>3 DEF StoreReads, HasRead
<1>5. StoreReads(Kept(db, store))'
  BY <1>3, <1>4 DEF StoreReads
<1> QED BY <1>1, <1>2, <1>5 DEF NavInv, DbTyped

LEMMA RestKeeps ==
  ASSUME NavInv, UNCHANGED <<db, store, revisions, cache>>
  PROVE  NavInv'
BY DEF NavInv, DbTyped, StoreReads, Kept

LEMMA NavStep == NavInv /\ [NavNext]_navVars => NavInv'
<1> SUFFICES ASSUME NavInv, [NavNext]_navVars PROVE NavInv'
  OBVIOUS
<1>1. CASE Refresh
  BY <1>1, RefreshKeeps
<1>2. CASE RefreshFails
  BY <1>2, RefreshFailsKeeps
<1>3. CASE Recreate
  BY <1>3, RecreateKeeps
<1>4. CASE \E r \in Records : WriteOrder(r)
  BY <1>4, WriteOrderKeeps
<1>5. CASE \E u \in Updates : WriteUpdate(u)
  BY <1>5, WriteUpdateKeeps
<1>6. CASE \E x \in Executions : WriteExecution(x)
  BY <1>6, WriteExecutionKeeps
<1>7. CASE \/ \E given \in Inputs : SaveInputs(given)
           \/ \E corrections \in Corrections : Audit(corrections)
  BY <1>7, RestKeeps DEF SaveInputs, Audit
<1>8. CASE UNCHANGED navVars
  BY <1>8, RestKeeps DEF navVars
<1> QED BY <1>1, <1>2, <1>3, <1>4, <1>5, <1>6, <1>7, <1>8 DEF NavNext

LEMMA NavInvariance == NavSpec => []NavInv
<1>1. NavInit => NavInv
  BY NavStart
<1>2. NavInv /\ [NavNext]_navVars => NavInv'
  BY NavStep
<1> QED BY <1>1, <1>2, PTL DEF NavSpec

\* The store never holds more than the database it was read from, generations are made
\* of revisions that were given out, and what is served is whole (nav.rs
\* refresh_source, NavTimelineCache).
THEOREM NavTypes == NavSpec => []NavTypeOK
<1>1. NavInv => NavTypeOK
  <2> SUFFICES ASSUME NavInv PROVE NavTypeOK
    OBVIOUS
  <2>1. store.identity = db.identity => /\ store.seen.orders \subseteq db.orders
                                        /\ store.seen.updates \subseteq db.updates
    BY DEF NavInv, Kept, StoreReads, HasRead
  <2> QED BY <2>1 DEF NavInv, NavTypeOK
<1> QED BY <1>1, NavInvariance, PTL

\* Whatever was committed late within the overlap, recovered from executions or
\* recreated since the last scan, and whichever refresh failed, a refresh yields the
\* events and roles a full load of the same database yields (nav.rs refresh_source,
\* load_source_history).
THEOREM HistoryIsComplete == NavSpec => []HistoryComplete
<1>1. NavInv => HistoryComplete
  BY RefreshReads DEF HistoryComplete
<1> QED BY <1>1, NavInvariance, PTL
=============================================================================
