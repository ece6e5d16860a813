---------------------- MODULE TargetPublicationProofs ----------------------
(***************************************************************************)
(* Proofs about TargetPublication, for any strategies, bindings, requests, *)
(* versions and shares.                                                    *)
(*                                                                         *)
(* A stop holds, and every account write carries the live target at the    *)
(* saved shares, because what a publish froze cannot go stale while it is  *)
(* under way: the shares change only under the exclusive lock, which needs *)
(* every lease back (LeasesHold, PlanCurrent); the catalog a publish reads *)
(* is fresh whenever admission is open (CatalogCurrent, ExclusiveClosed);  *)
(* and the live target of a strategy moves only under its mutex or with no *)
(* lease out (VersionLive).  An answer of 200 needs in addition that each  *)
(* active binding is either planned or written (Covered).                  *)
(***************************************************************************)
EXTENDS TargetPublication, SequenceTheorems, TLAPS

\* The configuration lock is held exclusively only with admission closed, by a process
\* that serves.
ExclusiveClosed == (Exclusive => ~ready) /\ (editor # "none" => up)

\* A request under way is for a strategy; none survives the process.
Named == \A r \in Requests : pc[r] # "idle" => name[r] \in Strategies
DownIdle == ~up => ~ready /\ ~reloading /\ \A r \in Requests : pc[r] = "idle"

\* Admission is open only on the saved configuration.
CatalogCurrent == ready => catalog = shares

\* What a publish froze still is the configuration and the live target.
PlanCurrent ==
  \A r \in Requests : \A w \in plan[r] :
    /\ pc[r] \in {"prepared", "publishing"}
    /\ StrategyOf[w.binding] = name[r] /\ w.shares = shares[w.binding]

VersionLive ==
  \A r \in Requests : pc[r] = "publishing" => version[r] = live[name[r]].ver

\* The write that brings binding b to its saved shares.
Due(b) == [binding |-> b, shares |-> shares[b]]

\* Every active binding of its strategy is planned, or already written.
Covered ==
  \A r \in Requests : \A b \in Bindings :
    StrategyOf[b] = name[r] /\ shares[b] > 0 =>
      /\ pc[r] = "prepared" => Due(b) \in plan[r]
      /\ pc[r] = "publishing" /\ ~failed[r] =>
           Due(b) \in plan[r] \/ exec[b] = Target(b, shares[b])

\* The inductive invariant.
Inv ==
  /\ TypeOK
  /\ ExclusiveClosed /\ Named /\ DownIdle /\ CatalogCurrent
  /\ PlanCurrent /\ VersionLive /\ Covered /\ StopHolds

-----------------------------------------------------------------------------
(***************************************************************************)
(* Leases                                                                   *)
(***************************************************************************)
\* Who is past admission.
LEMMA LeasedPc ==
  \A r \in Requests : r \in Leased <=> pc[r] \in {"admitted", "prepared", "publishing"}
BY DEF Leased

\* Two publishes past admission are for different strategies.
LEMMA OneLeasePerStrategy ==
  ASSUME Inv, NEW q \in Leased, NEW r \in Leased, name[q] = name[r]
  PROVE  q = r
BY DEF Inv, TypeOK, LeasesHold

\* The live targets are slots; versions compare.
LEMMA LiveVersions ==
  ASSUME StoreOK, NEW s \in Strategies
  PROVE  live[s].ver \in Versions \cup {0} /\ live[s].ver \in Nat
<1>1. live[s] \in Store!Row \cup {Store!Absent}
  BY DEF StoreOK
<1>2. CASE live[s] \in Store!Row
  BY <1>2, VersionsAssumption DEF Store!Row
<1>3. CASE live[s] = Store!Absent
  BY <1>3 DEF Store!Absent
<1> QED
  BY <1>1, <1>2, <1>3

-----------------------------------------------------------------------------
(***************************************************************************)
(* The initial state                                                        *)
(***************************************************************************)
\* The invariant holds initially.
LEMMA InitInv == Init => Inv
<1> SUFFICES ASSUME Init PROVE Inv
  OBVIOUS
<1>1. PICK i \in Ids, v \in Versions :
        /\ live = [s \in Strategies |-> [id |-> i, ver |-> v]]
        /\ catalogued = [s \in Strategies |-> i]
        /\ issued = {[name |-> s, id |-> i, ver |-> v] : s \in Strategies}
  BY DEF Init
<1>2. \A r \in Requests : pc[r] = "idle" /\ plan[r] = {}
  BY DEF Init
<1>3. StoreOK
  BY <1>1 DEF Init, StoreOK, Store!Event, Store!Row
<1>4. RequestOK
  BY DEF Init, RequestOK
<1>5. 0 \in 0..MaxShares /\ 0..1 \subseteq 0..MaxShares
  BY MaxSharesAssumption
<1>6. ConfigOK
  BY <1>5 DEF Init, ConfigOK
<1>7. LeasesHold
  BY <1>2 DEF LeasesHold, Leased
<1> QED
  BY <1>2, <1>3, <1>4, <1>6, <1>7 DEF Init, Inv, TypeOK, ExclusiveClosed, Exclusive,
     Named, DownIdle, CatalogCurrent, PlanCurrent, VersionLive, Covered, StopHolds

-----------------------------------------------------------------------------
(***************************************************************************)
(* What changes what                                                        *)
(***************************************************************************)
\* Only an enqueue, a hardening, a crash and a load touch the stores.
LEMMA StoreSteps ==
  ASSUME [Next]_vars
  PROVE  \/ \E r \in Requests : Enqueue(r)
         \/ Persist \/ Crash
         \/ (Start \/ (Reload /\ LoadCatalog)) /\ UNCHANGED <<log, durable, catalogued, issued>>
         \/ UNCHANGED storeVars
BY DEF Next, Publish, Arrive, Cancel, Lease, Unavailable, Prepare, Refuse, WriteExec,
   Answer, Edit, AwaitEdit, BeginEdit, SaveShares, Republish, ArchiveStop, PublishBinding,
   AbandonEdit, AwaitReload, Reload, Start, LoadCatalog, Store!Load, storeVars, vars

\* Only a publish and a crash touch the requests.
LEMMA RequestSteps ==
  ASSUME [Next]_vars
  PROVE  (\E r \in Requests : Publish(r)) \/ Crash \/ UNCHANGED requestVars
BY DEF Next, Edit, AwaitEdit, BeginEdit, SaveShares, Republish, ArchiveStop,
   PublishBinding, AbandonEdit, AwaitReload, Reload, Persist, Start, requestVars, vars

\* A publish leaves the configuration, the saved and the loaded one, alone.
LEMMA PublishKeepsConfig ==
  ASSUME NEW r \in Requests, Publish(r)
  PROVE  UNCHANGED <<up, ready, shares, catalog, editor, edited, reloading, confirmed>>
BY DEF Publish, Arrive, Cancel, Lease, Unavailable, Prepare, Refuse, Release, Enqueue,
   WriteExec, Answer, editVars

\* StoreOK
LEMMA KeepsStoreOK ==
  ASSUME Inv, [Next]_vars
  PROVE  StoreOK'
<1>1. StoreOK /\ RequestOK
  BY DEF Inv, TypeOK
<1>2. log \in Seq(Store!Event) /\ durable \in 0..Len(log) /\ Len(log) \in Nat
  BY <1>1, LenProperties DEF StoreOK
<1>3. ASSUME NEW r \in Requests, Enqueue(r)
      PROVE  StoreOK'
  <2> DEFINE s == name[r]
             v == version[r]
             row == [live[s] EXCEPT !.ver = v]
  <2>1. /\ s \in Strategies /\ Store!Admit(s, v) /\ live[s] # Store!Absent
        /\ v > live[s].ver
    BY <1>3 DEF Inv, Named, Enqueue, Store!Admit
  <2>2. v \in Versions
    BY <1>1, <2>1, LiveVersions, VersionsAssumption DEF RequestOK
  <2>3. row \in Store!Row
    BY <1>1, <2>1, <2>2 DEF StoreOK, Store!Row
  <2>4. Store!EventOf(s, row) \in Store!Event
    BY <2>1, <2>3 DEF Store!EventOf, Store!Event, Store!Row
  <2>5. /\ log' = Append(log, Store!EventOf(s, row)) /\ live' = [live EXCEPT ![s] = row]
        /\ issued' = issued \cup {Store!EventOf(s, row)} /\ UNCHANGED <<durable, catalogued>>
    BY <2>1 DEF Store!Admit
  <2> HIDE DEF row
  <2>6. log' \in Seq(Store!Event) /\ Len(log') = Len(log) + 1
    BY <1>2, <2>4, <2>5, AppendProperties
  <2>7. durable' \in 0..Len(log')
    BY <1>2, <2>5, <2>6
  <2> QED
    BY <1>1, <2>3, <2>4, <2>5, <2>6, <2>7 DEF StoreOK
<1>4. CASE Persist
  BY <1>1, <1>2, <1>4 DEF Persist, Store!Harden, StoreOK
<1>5. CASE Crash
  <2>1. PICK n \in 0..Len(log) : Store!Crash(n)
    BY <1>5 DEF Crash
  <2>2. /\ log' = SubSeq(log, 1, n) /\ durable' = n
        /\ live' = [s \in Strategies |-> Store!Absent] /\ UNCHANGED <<catalogued, issued>>
    BY <2>1 DEF Store!Crash
  <2>3. log' \in Seq(Store!Event) /\ Len(log') = n
    BY <1>2, <2>2
  <2> QED
    BY <1>1, <2>2, <2>3 DEF StoreOK
<1>6. CASE (Start \/ (Reload /\ LoadCatalog)) /\ UNCHANGED <<log, durable, catalogued, issued>>
  <2>1. live' \in [Strategies -> Store!Row]
    BY <1>6 DEF Start, LoadCatalog
  <2> QED
    BY <1>1, <1>6, <2>1 DEF StoreOK
<1>7. CASE UNCHANGED storeVars
  BY <1>1, <1>7 DEF StoreOK, storeVars
<1> QED
  BY <1>3, <1>4, <1>5, <1>6, <1>7, StoreSteps

\* RequestOK
LEMMA KeepsRequestOK ==
  ASSUME Inv, [Next]_vars
  PROVE  RequestOK'
<1> USE DEF RequestOK
<1>1. RequestOK /\ ConfigOK
  BY DEF Inv, TypeOK
<1>2. ASSUME NEW r \in Requests, Publish(r)
      PROVE  RequestOK'
  <2>1. ASSUME NEW s \in Strategies, Arrive(r, s)
        PROVE  RequestOK'
    BY <1>1, <2>1 DEF Arrive
  <2>2. CASE Cancel(r) \/ Unavailable(r)
    BY <1>1, <2>2 DEF Cancel, Unavailable
  <2>3. CASE Lease(r)
    BY <1>1, <2>3 DEF Lease
  <2>4. CASE Prepare(r)
    <3>1. {w \in Write : StrategyOf[w.binding] = name[r] /\ w.shares = catalog[w.binding]}
            \in SUBSET Write
      OBVIOUS
    <3> QED
      BY <1>1, <2>4, <3>1 DEF Prepare
  <2>5. CASE Refuse(r) \/ Answer(r)
    BY <1>1, <2>5 DEF Refuse, Answer, Release, Freed
  <2>6. CASE Enqueue(r)
    BY <1>1, <2>6 DEF Enqueue, MutexWhileWriting
  <2>7. ASSUME NEW w \in Write, WriteExec(r, w)
        PROVE  RequestOK'
    BY <1>1, <2>7 DEF WriteExec
  <2> QED
    BY <1>2, <2>1, <2>2, <2>3, <2>4, <2>5, <2>6, <2>7 DEF Publish
<1>3. CASE Crash
  BY <1>3 DEF Crash
<1>4. CASE UNCHANGED requestVars
  BY <1>1, <1>4 DEF requestVars
<1> QED
  BY <1>2, <1>3, <1>4, RequestSteps

\* ConfigOK
LEMMA KeepsConfigOK ==
  ASSUME Inv, [Next]_vars
  PROVE  ConfigOK'
<1> USE DEF ConfigOK
<1>1. RequestOK /\ ConfigOK /\ StoreOK
  BY DEF Inv, TypeOK
<1>2. ASSUME NEW r \in Requests, Publish(r)
      PROVE  ConfigOK'
  <2>1. exec' \in [Bindings -> [ver : Versions \cup {0}, shares : 0..MaxShares]]
    <3>1. ASSUME NEW w \in Write, WriteExec(r, w)
          PROVE  exec' \in [Bindings -> [ver : Versions \cup {0}, shares : 0..MaxShares]]
      <4>1. /\ w.binding \in Bindings
            /\ Frozen(r, w) \in [ver : Versions \cup {0}, shares : 0..MaxShares]
        BY <1>1, MaxSharesAssumption DEF RequestOK, Frozen, Write
      <4> QED
        BY <1>1, <3>1, <4>1 DEF WriteExec
    <3>2. CASE UNCHANGED exec
      BY <1>1, <3>2
    <3> QED
      BY <1>2, <3>1, <3>2 DEF Publish, Arrive, Cancel, Lease, Unavailable, Prepare, Refuse,
         Enqueue, Answer
  <2> QED
    BY <1>1, <1>2, <2>1, PublishKeepsConfig
<1>3. ASSUME NEW b \in Bindings, AwaitEdit(b)
      PROVE  ConfigOK'
  BY <1>1, <1>3 DEF AwaitEdit
<1>4. CASE BeginEdit \/ Republish \/ ArchiveStop \/ AbandonEdit \/ AwaitReload
  BY <1>1, <1>4 DEF BeginEdit, Republish, ArchiveStop, AbandonEdit, AwaitReload, editVars
<1>5. ASSUME NEW n \in 0..MaxShares, SaveShares(n)
      PROVE  ConfigOK'
  BY <1>1, <1>5 DEF SaveShares
<1>6. CASE PublishBinding
  <2>1. Target(edited, shares[edited]) \in [ver : Versions \cup {0}, shares : 0..MaxShares]
    BY <1>1, LiveVersions, StrategyOfAssumption DEF Target
  <2> QED
    BY <1>1, <1>6, <2>1 DEF PublishBinding
<1>7. CASE Reload \/ Start
  BY <1>1, <1>7 DEF Reload, Start, LoadCatalog, editVars
<1>8. CASE Crash
  BY <1>1, <1>8 DEF Crash
<1>9. CASE Persist \/ UNCHANGED vars
  BY <1>1, <1>9 DEF Persist, editVars, vars
<1> QED
  BY <1>2, <1>3, <1>4, <1>5, <1>6, <1>7, <1>8, <1>9 DEF Next, Edit

\* LeasesHold: a lease is given with the mutex free and nobody exclusive; the exclusive
\* lock with every lease back.
LEMMA KeepsLeases ==
  ASSUME Inv, [Next]_vars
  PROVE  LeasesHold'
<1>1. /\ RequestOK /\ ConfigOK /\ LeasesHold
      /\ \A r \in Requests : pc[r] # "idle" => name[r] \in Strategies
  BY DEF Inv, TypeOK, Named
<1>2. ASSUME NEW r \in Requests, Publish(r)
      PROVE  LeasesHold'
  <2>0. Exclusive' = Exclusive
    BY <1>2, PublishKeepsConfig DEF Exclusive
  <2>1. CASE (\E s \in Strategies : Arrive(r, s)) \/ Cancel(r) \/ Unavailable(r)
    <3>1. /\ UNCHANGED mutex /\ pc'[r] \in {"idle", "waiting"}
          /\ \A q \in Requests : q # r => pc'[q] = pc[q] /\ name'[q] = name[q]
      BY <1>1, <2>1 DEF Arrive, Cancel, Unavailable, RequestOK
    <3> QED
      BY <1>1, <2>0, <3>1 DEF LeasesHold, Leased
  <2>2. CASE Lease(r)
    <3>1. /\ name[r] \in Strategies /\ UNCHANGED name /\ mutex[name[r]] = NoRequest
          /\ mutex' = [mutex EXCEPT ![name[r]] = r] /\ ~Exclusive
          /\ \A q \in Requests : q # r => pc'[q] = pc[q]
      BY <1>1, <2>2 DEF Lease, Turn, LeaseFree, Exclusive, RequestOK
    <3>2. \A q \in Leased : q # r => name[q] \in Strategies /\ name[q] # name[r]
      BY <1>1, <3>1, NoRequestAssumption DEF LeasesHold, Leased
    <3> QED
      BY <1>1, <2>0, <3>1, <3>2 DEF LeasesHold, Leased, RequestOK
  <2>3. CASE Refuse(r) \/ Answer(r)
    <3>1. /\ r \in Leased /\ pc'[r] = "idle" /\ mutex' = [mutex EXCEPT ![name[r]] = NoRequest]
          /\ \A q \in Requests : q # r => pc'[q] = pc[q] /\ name'[q] = name[q]
      BY <1>1, <2>3 DEF Refuse, Answer, Release, Freed, RequestOK, Leased
    <3>2. \A q \in Leased : q # r => name[q] \in Strategies /\ name[q] # name[r]
      BY <1>1, <3>1, OneLeasePerStrategy DEF Leased
    <3>3. \A q \in Leased : q # r => mutex'[name[q]] = mutex[name[q]]
      BY <1>1, <3>1, <3>2 DEF RequestOK
    <3> QED
      BY <1>1, <2>0, <3>1, <3>3 DEF LeasesHold, Leased
  <2>4. CASE Prepare(r) \/ Enqueue(r) \/ \E w \in Write : WriteExec(r, w)
    <3>1. UNCHANGED <<mutex, name>> /\ Leased' = Leased
      BY <1>1, <2>4 DEF Prepare, Enqueue, MutexWhileWriting, WriteExec, Leased, RequestOK
    <3> QED
      BY <1>1, <2>0, <3>1 DEF LeasesHold
  <2> QED
    BY <1>2, <2>1, <2>2, <2>3, <2>4 DEF Publish
<1>3. CASE BeginEdit \/ Crash
  <2>1. Leased' = {}
    BY <1>3 DEF BeginEdit, LeasesReturned, Crash, Leased, requestVars
  <2> QED
    BY <2>1 DEF LeasesHold
<1>4. CASE UNCHANGED requestVars /\ (Exclusive' => Exclusive)
  BY <1>1, <1>4 DEF LeasesHold, Leased, requestVars
<1> QED
  BY <1>2, <1>3, <1>4 DEF Next, Edit, AwaitEdit, SaveShares, Republish, ArchiveStop,
     PublishBinding, AbandonEdit, AwaitReload, Reload, Persist, Start, Exclusive, editVars,
     vars

\* ExclusiveClosed and CatalogCurrent: an edit closes admission, a load opens it.
LEMMA KeepsClosed ==
  ASSUME Inv, [Next]_vars
  PROVE  ExclusiveClosed' /\ CatalogCurrent'
<1>1. ExclusiveClosed /\ CatalogCurrent /\ ConfigOK /\ DownIdle
  BY DEF Inv, TypeOK
<1>2. ASSUME NEW r \in Requests, Publish(r)
      PROVE  ExclusiveClosed' /\ CatalogCurrent'
  BY <1>1, <1>2, PublishKeepsConfig DEF ExclusiveClosed, CatalogCurrent, Exclusive
<1>3. ASSUME NEW b \in Bindings, AwaitEdit(b)
      PROVE  ExclusiveClosed' /\ CatalogCurrent'
  BY <1>1, <1>3 DEF AwaitEdit, ExclusiveClosed, CatalogCurrent, Exclusive
<1>4. CASE BeginEdit
  BY <1>1, <1>4 DEF BeginEdit, ExclusiveClosed, CatalogCurrent
<1>5. ASSUME NEW n \in 0..MaxShares, SaveShares(n)
      PROVE  ExclusiveClosed' /\ CatalogCurrent'
  <2>1. Exclusive /\ UNCHANGED <<ready, up>>
    BY <1>5 DEF SaveShares, Exclusive
  <2> QED
    BY <1>1, <1>5, <2>1 DEF SaveShares, ExclusiveClosed, CatalogCurrent
<1>6. CASE Republish \/ ArchiveStop \/ PublishBinding \/ AbandonEdit
  <2>1. /\ Exclusive' => Exclusive
        /\ editor # "none" /\ UNCHANGED <<ready, up, catalog, shares>>
    BY <1>6 DEF Republish, ArchiveStop, PublishBinding, AbandonEdit, Exclusive
  <2> QED
    BY <1>1, <2>1 DEF ExclusiveClosed, CatalogCurrent
<1>7. CASE Reload
  <2>1. ~Exclusive' /\ UNCHANGED <<shares, editor, up>>
    BY <1>7 DEF Reload, Exclusive, editVars
  <2>2. CatalogCurrent'
    BY <1>1, <1>7, <2>1 DEF Reload, LoadCatalog, CatalogCurrent
  <2> QED
    BY <1>1, <2>1, <2>2 DEF ExclusiveClosed
<1>8. CASE Start
  <2>1. ~Exclusive'
    BY <1>1, <1>8 DEF Start, Exclusive, ExclusiveClosed, editVars
  <2> QED
    BY <1>8, <2>1 DEF Start, LoadCatalog, ExclusiveClosed, CatalogCurrent
<1>9. CASE Crash
  BY <1>9 DEF Crash, Exclusive, ExclusiveClosed, CatalogCurrent
<1>10. CASE AwaitReload \/ Persist \/ UNCHANGED vars
  BY <1>1, <1>10 DEF AwaitReload, Persist, editVars, vars, Exclusive, ExclusiveClosed,
     CatalogCurrent
<1> QED
  BY <1>2, <1>3, <1>4, <1>5, <1>6, <1>7, <1>8, <1>9, <1>10 DEF Next, Edit

\* Named and DownIdle: requests die with the process.
LEMMA KeepsNamed ==
  ASSUME Inv, [Next]_vars
  PROVE  Named' /\ DownIdle'
<1>1. Named /\ DownIdle /\ RequestOK /\ ExclusiveClosed
  BY DEF Inv, TypeOK
<1>2. ASSUME NEW r \in Requests, Publish(r)
      PROVE  Named' /\ DownIdle'
  <2>1. up /\ UNCHANGED <<up, ready, reloading>>
    BY <1>1, <1>2, PublishKeepsConfig DEF DownIdle, Publish, Arrive, Cancel, Lease,
       Unavailable, Prepare, Refuse, Enqueue, WriteExec, Answer
  <2>2. \A q \in Requests : q # r => pc'[q] = pc[q] /\ name'[q] = name[q]
    BY <1>1, <1>2 DEF RequestOK, Publish, Arrive, Cancel, Lease, Unavailable, Prepare,
       Refuse, Release, Enqueue, WriteExec, Answer
  <2>3. pc'[r] # "idle" => name'[r] \in Strategies
    BY <1>1, <1>2 DEF Named, RequestOK, Publish, Arrive, Cancel, Lease, Unavailable,
       Prepare, Refuse, Release, Enqueue, WriteExec, Answer
  <2> QED
    BY <1>1, <2>1, <2>2, <2>3 DEF Named, DownIdle
<1>3. CASE Crash
  BY <1>3 DEF Crash, Named, DownIdle
<1>4. CASE Start \/ Reload
  <2>1. CASE Start
    BY <1>1, <2>1 DEF Start, LoadCatalog, Named, DownIdle, requestVars
  <2>2. CASE Reload
    BY <1>1, <2>2 DEF Reload, LoadCatalog, Named, DownIdle, requestVars
  <2> QED
    BY <1>4, <2>1, <2>2
<1>5. CASE /\ UNCHANGED requestVars /\ UNCHANGED up
           /\ ready' => ready
           /\ reloading' => reloading \/ up
  BY <1>1, <1>5 DEF Named, DownIdle, requestVars
<1> QED
  BY <1>2, <1>3, <1>4, <1>5 DEF Next, Edit, AwaitEdit, BeginEdit, SaveShares, Republish,
     ArchiveStop, PublishBinding, AbandonEdit, AwaitReload, Woken, Persist, vars

\* What edits, loads and stops publish or change, they change with no lease out.
LEMMA NoLeaseOut ==
  ASSUME Inv, [Next]_vars, UNCHANGED requestVars
  PROVE  Leased = {} \/ UNCHANGED <<shares, live, exec>>
<1>1. LeasesHold /\ DownIdle
  BY DEF Inv, TypeOK
<1>2. CASE Exclusive
  BY <1>1, <1>2 DEF LeasesHold
<1>3. CASE (\E n \in 0..MaxShares : SaveShares(n)) \/ PublishBinding
  BY <1>2, <1>3 DEF SaveShares, PublishBinding, Exclusive
<1>4. CASE Reload \/ Start
  BY <1>1, <1>4 DEF Reload, Start, LeasesReturned, DownIdle, Leased
<1>5. CASE Crash
  BY <1>5 DEF Crash, requestVars, Leased
<1>6. ASSUME NEW r \in Requests, Publish(r)
      PROVE  UNCHANGED <<shares, live, exec>>
  <2>1. \A w \in Write : ~WriteExec(r, w)
    BY DEF WriteExec, requestVars, Inv, TypeOK, RequestOK
  <2>2. ~Enqueue(r)
    BY DEF Enqueue, requestVars, Inv, TypeOK, RequestOK
  <2> QED
    BY <1>6, <2>1, <2>2 DEF Publish, Arrive, Cancel, Lease, Unavailable, Prepare, Refuse,
       Answer, storeVars
<1>7. CASE Persist
  BY <1>7 DEF Persist, Store!Harden
<1> QED
  BY <1>3, <1>4, <1>5, <1>6, <1>7 DEF Next, Edit, AwaitEdit, BeginEdit, Republish,
     ArchiveStop, AbandonEdit, AwaitReload, storeVars, vars

\* With no lease out nothing is planned.
LEMMA NothingPlanned ==
  ASSUME PlanCurrent, NEW r \in Requests, r \notin Leased
  PROVE  plan[r] = {} /\ pc[r] \notin {"prepared", "publishing"}
BY DEF PlanCurrent, Leased

\* PlanCurrent: what a publish freezes is the saved configuration, and it stays so.
LEMMA KeepsPlanCurrent ==
  ASSUME Inv, [Next]_vars
  PROVE  PlanCurrent'
<1>1. PlanCurrent /\ RequestOK /\ CatalogCurrent
  BY DEF Inv, TypeOK
<1>2. ASSUME NEW r \in Requests, Publish(r)
      PROVE  PlanCurrent'
  <2>1. /\ UNCHANGED shares
        /\ \A q \in Requests : q # r =>
             pc'[q] = pc[q] /\ name'[q] = name[q] /\ plan'[q] = plan[q]
    BY <1>1, <1>2 DEF RequestOK, Publish, Arrive, Cancel, Lease, Unavailable, Prepare,
       Refuse, Release, Enqueue, WriteExec, Answer
  <2>2. CASE (\E s \in Strategies : Arrive(r, s)) \/ Cancel(r) \/ Unavailable(r) \/ Lease(r)
    <3>1. UNCHANGED plan /\ pc[r] \in {"idle", "waiting"}
      BY <2>2 DEF Arrive, Cancel, Unavailable, Lease
    <3>2. plan'[r] = {}
      BY <1>1, <3>1, NothingPlanned DEF Leased
    <3> QED
      BY <1>1, <2>1, <3>2 DEF PlanCurrent
  <2>3. CASE Prepare(r)
    <3>1. /\ pc'[r] = "prepared" /\ name'[r] = name[r] /\ catalog = shares
          /\ plan'[r] = {w \in Write : /\ StrategyOf[w.binding] = name[r]
                                      /\ w.shares = catalog[w.binding]}
      BY <1>1, <2>3 DEF Prepare, CatalogCurrent, RequestOK
    <3> QED
      BY <1>1, <2>1, <3>1 DEF PlanCurrent
  <2>4. CASE Refuse(r) \/ Answer(r)
    <3>1. plan'[r] = {}
      BY <1>1, <2>4 DEF Refuse, Answer, Release, RequestOK
    <3> QED
      BY <1>1, <2>1, <3>1 DEF PlanCurrent
  <2>5. CASE Enqueue(r) \/ \E w \in Write : WriteExec(r, w)
    <3>1. /\ pc'[r] = "publishing" /\ name'[r] = name[r] /\ plan'[r] \subseteq plan[r]
      BY <1>1, <2>5 DEF Enqueue, WriteExec, RequestOK
    <3> QED
      BY <1>1, <2>1, <3>1 DEF PlanCurrent
  <2> QED
    BY <1>2, <2>2, <2>3, <2>4, <2>5 DEF Publish
<1>3. CASE Crash
  BY <1>3 DEF Crash, PlanCurrent
<1>4. CASE UNCHANGED requestVars
  <2>1. CASE Leased = {}
    BY <1>1, <1>4, <2>1, NothingPlanned DEF PlanCurrent, requestVars
  <2>2. CASE UNCHANGED shares
    BY <1>1, <1>4, <2>2 DEF PlanCurrent, requestVars
  <2> QED
    BY <1>4, <2>1, <2>2, NoLeaseOut
<1> QED
  BY <1>2, <1>3, <1>4, RequestSteps

\* VersionLive: a strategy's live target moves under its mutex.
LEMMA KeepsVersionLive ==
  ASSUME Inv, [Next]_vars
  PROVE  VersionLive'
<1>1. VersionLive /\ RequestOK /\ StoreOK /\ Named
  BY DEF Inv, TypeOK
<1>2. ASSUME NEW r \in Requests, Enqueue(r)
      PROVE  VersionLive'
  <2>1. /\ r \in Leased /\ name[r] \in Strategies /\ UNCHANGED <<name, version>>
        /\ live' = [live EXCEPT ![name[r]] = [live[name[r]] EXCEPT !.ver = version[r]]]
        /\ live[name[r]] # Store!Absent
        /\ \A q \in Requests : q # r => pc'[q] = pc[q]
    BY <1>1, <1>2 DEF Enqueue, Store!Admit, Leased, Named, RequestOK
  <2>2. live[name[r]] \in Store!Row
    BY <1>1, <2>1 DEF StoreOK
  <2>3. live'[name[r]].ver = version[r]
    BY <1>1, <2>1, <2>2 DEF StoreOK, Store!Row
  <2>4. ASSUME NEW q \in Requests, q # r, pc[q] = "publishing"
        PROVE  live'[name[q]] = live[name[q]] /\ name[q] \in Strategies
    <3>1. q \in Leased /\ name[q] \in Strategies
      BY <1>1, <2>4 DEF Leased, Named
    <3>2. name[q] # name[r]
      BY <2>1, <2>4, <3>1, OneLeasePerStrategy
    <3> QED
      BY <1>1, <2>1, <3>1, <3>2 DEF StoreOK
  <2>5. ASSUME NEW q \in Requests, q # r, pc'[q] = "publishing"
        PROVE  version'[q] = live'[name'[q]].ver
    <3>1. pc[q] = "publishing" /\ version[q] = live[name[q]].ver
      BY <1>1, <2>1, <2>5 DEF VersionLive
    <3> QED
      BY <2>1, <2>4, <2>5, <3>1
  <2>6. version'[r] = live'[name'[r]].ver
    BY <2>1, <2>3
  <2> QED
    BY <2>5, <2>6 DEF VersionLive
<1>3. ASSUME NEW r \in Requests, Publish(r), ~Enqueue(r)
      PROVE  VersionLive'
  <2>1. UNCHANGED live
    BY <1>3 DEF Publish, Arrive, Cancel, Lease, Unavailable, Prepare, Refuse, WriteExec,
       Answer, storeVars
  <2>2. \A q \in Requests : pc'[q] = "publishing" =>
          pc[q] = "publishing" /\ name'[q] = name[q] /\ version'[q] = version[q]
    BY <1>1, <1>3 DEF Publish, Arrive, Cancel, Lease, Unavailable, Prepare, Refuse,
       Release, WriteExec, Answer, RequestOK
  <2> QED
    BY <1>1, <2>1, <2>2 DEF VersionLive
<1>4. CASE Crash
  BY <1>4 DEF Crash, VersionLive
<1>5. CASE UNCHANGED requestVars
  <2>1. CASE Leased = {}
    BY <1>1, <1>5, <2>1 DEF VersionLive, requestVars, Leased
  <2>2. CASE UNCHANGED live
    BY <1>1, <1>5, <2>2 DEF VersionLive, requestVars
  <2> QED
    BY <1>5, <2>1, <2>2, NoLeaseOut
<1> QED
  BY <1>2, <1>3, <1>4, <1>5, RequestSteps

\* An account write carries the live target at the saved shares, to an active binding of
\* its own strategy only.
LEMMA WriteCarriesLive ==
  ASSUME Inv, NEW r \in Requests, NEW w \in Write, WriteExec(r, w)
  PROVE  /\ w = Due(w.binding) /\ w.binding \in Bindings /\ w \in plan[r]
         /\ StrategyOf[w.binding] = name[r] /\ shares[w.binding] > 0
         /\ Frozen(r, w) = Target(w.binding, shares[w.binding])
         /\ \A b \in Bindings : b # w.binding => exec'[b] = exec[b]
         /\ exec'[w.binding] \in {exec[w.binding], Frozen(r, w)}
         /\ ~failed'[r] => ~failed[r] /\ exec'[w.binding] = Frozen(r, w)
<1>1. RequestOK /\ ConfigOK /\ PlanCurrent /\ VersionLive
  BY DEF Inv, TypeOK
<1>2. /\ pc[r] = "publishing" /\ w \in plan[r] /\ w.binding \in Bindings
      /\ w.shares \in 1..MaxShares
  BY DEF WriteExec, Write
<1>3. StrategyOf[w.binding] = name[r] /\ w.shares = shares[w.binding]
  BY <1>1, <1>2 DEF PlanCurrent
<1>4. w = Due(w.binding) /\ shares[w.binding] > 0
  BY <1>2, <1>3, MaxSharesAssumption DEF Due, Write
<1>5. Frozen(r, w) = Target(w.binding, shares[w.binding])
  BY <1>1, <1>2, <1>3 DEF Frozen, Target, VersionLive
<1>6. /\ \A b \in Bindings : b # w.binding => exec'[b] = exec[b]
      /\ exec'[w.binding] \in {exec[w.binding], Frozen(r, w)}
  BY <1>1, <1>2 DEF WriteExec, ConfigOK
<1>7. ~failed'[r] => ~failed[r] /\ exec'[w.binding] = Frozen(r, w)
  BY <1>1, <1>2 DEF WriteExec, ConfigOK, RequestOK
<1> QED
  BY <1>2, <1>3, <1>4, <1>5, <1>6, <1>7

\* Covered: a write leaves the plan when it is made, and no other publish writes to the
\* accounts of the strategy.
LEMMA KeepsCovered ==
  ASSUME Inv, [Next]_vars
  PROVE  Covered'
<1>1. Covered /\ RequestOK /\ ConfigOK /\ StoreOK /\ Named /\ CatalogCurrent /\ VersionLive
  BY DEF Inv, TypeOK
<1>2. ASSUME NEW r \in Requests, NEW w \in Write, WriteExec(r, w)
      PROVE  Covered'
  <2>1. /\ UNCHANGED <<shares, live, pc, name>> /\ r \in Leased /\ pc[r] = "publishing"
        /\ plan' = [plan EXCEPT ![r] = @ \ {w}]
        /\ \A q \in Requests : q # r => failed'[q] = failed[q]
    BY <1>1, <1>2 DEF WriteExec, storeVars, Leased, RequestOK
  <2>2. ASSUME NEW q \in Requests, NEW b \in Bindings, StrategyOf[b] = name[q],
               shares[b] > 0, q # r, pc[q] \in {"prepared", "publishing"}
        PROVE  exec'[b] = exec[b] /\ plan'[q] = plan[q]
    <3>1. q \in Leased
      BY <2>2 DEF Leased
    <3>2. name[q] # name[r]
      BY <2>1, <2>2, <3>1, OneLeasePerStrategy
    <3>3. b # w.binding
      BY <1>2, <2>2, <3>2, WriteCarriesLive
    <3> QED
      BY <1>1, <1>2, <2>1, <2>2, <3>3, WriteCarriesLive DEF RequestOK
  <2>3. ASSUME NEW b \in Bindings, StrategyOf[b] = name[r], shares[b] > 0, ~failed'[r]
        PROVE  Due(b) \in plan'[r] \/ exec'[b] = Target(b, shares[b])
    <3>1. ~failed[r] /\ exec'[w.binding] = Target(w.binding, shares[w.binding])
      BY <1>2, <2>3, WriteCarriesLive
    <3>2. CASE b = w.binding
      BY <3>1, <3>2
    <3>3. CASE b # w.binding
      <4>1. exec'[b] = exec[b] /\ Due(b) # w
        BY <1>2, <3>3, WriteCarriesLive DEF Due
      <4>2. Due(b) \in plan[r] \/ exec[b] = Target(b, shares[b])
        BY <1>1, <2>1, <2>3, <3>1 DEF Covered
      <4>3. plan'[r] = plan[r] \ {w}
        BY <1>1, <2>1 DEF RequestOK
      <4> QED
        BY <4>1, <4>2, <4>3
    <3> QED
      BY <3>2, <3>3
  <2>4. ASSUME NEW q \in Requests, NEW b \in Bindings, StrategyOf[b] = name'[q],
               shares'[b] > 0
        PROVE  /\ pc'[q] = "prepared" => Due(b)' \in plan'[q]
               /\ pc'[q] = "publishing" /\ ~failed'[q] =>
                    Due(b)' \in plan'[q] \/ exec'[b] = Target(b, shares[b])'
    <3>1. Due(b)' = Due(b) /\ Target(b, shares[b])' = Target(b, shares[b])
          /\ pc'[q] = pc[q] /\ name'[q] = name[q] /\ shares' = shares
      BY <2>1 DEF Due, Target
    <3>2. CASE q = r
      BY <2>1, <2>3, <2>4, <3>1, <3>2
    <3>3. CASE q # r
      BY <1>1, <2>1, <2>2, <2>4, <3>1, <3>3 DEF Covered
    <3> QED
      BY <3>2, <3>3
  <2> QED
    BY <2>4 DEF Covered
<1>3. ASSUME NEW r \in Requests, Enqueue(r)
      PROVE  Covered'
  <2>1. /\ UNCHANGED <<shares, exec, name, plan, failed>> /\ r \in Leased
        /\ name[r] \in Strategies /\ pc[r] = "prepared"
        /\ \A q \in Requests : q # r => pc'[q] = pc[q]
        /\ \A s \in Strategies : s # name[r] => live'[s] = live[s]
    BY <1>1, <1>3 DEF Enqueue, Store!Admit, Leased, Named, RequestOK, StoreOK
  <2>2. \A b \in Bindings : Due(b)' = Due(b)
    BY <2>1 DEF Due
  <2>3. ASSUME NEW q \in Requests, NEW b \in Bindings, q # r, pc[q] = "publishing",
               StrategyOf[b] = name[q]
        PROVE  Target(b, shares[b])' = Target(b, shares[b])
    <3>1. q \in Leased /\ name[q] \in Strategies
      BY <1>1, <2>3 DEF Leased, Named
    <3>2. name[q] # name[r]
      BY <2>1, <2>3, <3>1, OneLeasePerStrategy
    <3> QED
      BY <2>1, <2>3, <3>1, <3>2 DEF Target
  <2> QED
    BY <1>1, <2>1, <2>2, <2>3 DEF Covered
<1>4. ASSUME NEW r \in Requests, Publish(r), ~Enqueue(r), \A w \in Write : ~WriteExec(r, w)
      PROVE  Covered'
  <2>1. /\ UNCHANGED <<shares, exec, live>>
        /\ \A q \in Requests : q # r =>
             /\ pc'[q] = pc[q] /\ name'[q] = name[q] /\ plan'[q] = plan[q]
             /\ failed'[q] = failed[q]
    BY <1>1, <1>4 DEF RequestOK, Publish, Arrive, Cancel, Lease, Unavailable, Prepare,
       Refuse, Release, Answer, storeVars
  <2>2. \A b \in Bindings : Due(b)' = Due(b) /\ Target(b, shares[b])' = Target(b, shares[b])
    BY <2>1 DEF Due, Target
  <2>3. CASE pc'[r] \notin {"prepared", "publishing"}
    BY <1>1, <2>1, <2>2, <2>3 DEF Covered
  <2>4. CASE Prepare(r)
    <3>1. /\ pc'[r] = "prepared" /\ name'[r] = name[r] /\ catalog = shares
          /\ plan'[r] = {w \in Write : /\ StrategyOf[w.binding] = name[r]
                                      /\ w.shares = catalog[w.binding]}
      BY <1>1, <2>4 DEF Prepare, CatalogCurrent, RequestOK
    <3>2. \A b \in Bindings : shares[b] > 0 => Due(b) \in Write
      BY <1>1, MaxSharesAssumption DEF Due, Write, ConfigOK
    <3>3. \A b \in Bindings :
            StrategyOf[b] = name[r] /\ shares[b] > 0 => Due(b) \in plan'[r]
      BY <3>1, <3>2 DEF Due
    <3> QED
      BY <1>1, <2>1, <2>2, <3>1, <3>3 DEF Covered
  <2> QED
    BY <1>1, <1>4, <2>3, <2>4 DEF RequestOK, Publish, Arrive, Cancel, Lease, Unavailable,
       Refuse, Release, Answer
<1>5. CASE Crash
  BY <1>5 DEF Crash, Covered
<1>6. CASE UNCHANGED requestVars
  <2>1. CASE Leased = {}
    BY <1>6, <2>1 DEF Covered, requestVars, Leased
  <2>2. CASE UNCHANGED <<shares, live, exec>>
    BY <1>1, <1>6, <2>2 DEF Covered, requestVars, Due, Target
  <2> QED
    BY <1>6, <2>1, <2>2, NoLeaseOut
<1> QED
  BY <1>2, <1>3, <1>4, <1>5, <1>6, RequestSteps

\* StopHolds: a stop is confirmed at zero, and only a publish of an active binding writes.
LEMMA KeepsStopHolds ==
  ASSUME Inv, [Next]_vars
  PROVE  StopHolds'
<1>1. StopHolds /\ ConfigOK
  BY DEF Inv, TypeOK
<1>2. ASSUME NEW r \in Requests, NEW w \in Write, WriteExec(r, w)
      PROVE  StopHolds'
  <2>1. ~confirmed[w.binding]
    BY <1>1, <1>2, WriteCarriesLive DEF StopHolds
  <2>2. UNCHANGED <<confirmed, shares>>
    BY <1>2 DEF WriteExec
  <2> QED
    BY <1>1, <1>2, <2>1, <2>2, WriteCarriesLive DEF StopHolds
<1>3. ASSUME NEW n \in 0..MaxShares, SaveShares(n)
      PROVE  StopHolds'
  BY <1>1, <1>3 DEF SaveShares, StopHolds, ConfigOK
<1>4. CASE PublishBinding
  <2>1. /\ exec'[edited].shares = shares[edited] /\ UNCHANGED shares
        /\ \A b \in Bindings : b # edited => exec'[b] = exec[b] /\ confirmed'[b] = confirmed[b]
        /\ confirmed'[edited] => shares[edited] = 0
    BY <1>1, <1>4 DEF PublishBinding, Target, ConfigOK, StopHolds
  <2> QED
    BY <1>1, <2>1 DEF StopHolds
<1>5. CASE UNCHANGED <<confirmed, shares, exec>>
  BY <1>1, <1>5 DEF StopHolds
<1> QED
  BY <1>2, <1>3, <1>4, <1>5 DEF Next, Publish, Arrive, Cancel, Lease, Unavailable, Prepare,
     Refuse, Enqueue, Answer, Edit, AwaitEdit, BeginEdit, Republish, ArchiveStop,
     AbandonEdit, AwaitReload, Reload, Persist, Crash, Start, vars

\* Every step keeps the invariant.
LEMMA NextInv == Inv /\ [Next]_vars => Inv'
BY KeepsStoreOK, KeepsRequestOK, KeepsConfigOK, KeepsLeases, KeepsClosed, KeepsNamed,
   KeepsPlanCurrent, KeepsVersionLive, KeepsCovered, KeepsStopHolds DEF Inv, TypeOK

-----------------------------------------------------------------------------
(***************************************************************************)
(* Theorems                                                                 *)
(***************************************************************************)
\* Inv is an inductive invariant.
THEOREM Invariance == Spec => []Inv
BY InitInv, NextInv, PTL DEF Spec

\* Every variable keeps its type, and leases exclude the exclusive lock.
THEOREM TypeCorrect == Spec => []TypeOK
<1>1. Inv => TypeOK
  BY DEF Inv
<1> QED
  BY <1>1, Invariance, PTL

\* A confirmed stop holds until the shares are raised again.
THEOREM StopsHold == Spec => []StopHolds
<1>1. Inv => StopHolds
  BY DEF Inv
<1> QED
  BY <1>1, Invariance, PTL

\* Every write to an account carries the live target at the saved shares.
THEOREM WritesCarryLive == Spec => ExecCarriesLive
<1> DEFINE A == \A b \in Bindings : exec'[b] # exec[b] => exec'[b] = Target(b, shares[b])
<1>1. ASSUME Inv, [Next]_vars
      PROVE  A
  <2>1. ConfigOK
    BY <1>1 DEF Inv, TypeOK
  <2>2. ASSUME NEW r \in Requests, NEW w \in Write, WriteExec(r, w)
        PROVE  A
    BY <1>1, <2>2, WriteCarriesLive
  <2>3. CASE PublishBinding
    BY <2>1, <2>3 DEF PublishBinding, ConfigOK
  <2>4. CASE UNCHANGED exec
    BY <2>4
  <2> QED
    BY <1>1, <2>2, <2>3, <2>4 DEF Next, Publish, Arrive, Cancel, Lease, Unavailable,
       Prepare, Refuse, Enqueue, Answer, Edit, AwaitEdit, BeginEdit, SaveShares, Republish,
       ArchiveStop, AbandonEdit, AwaitReload, Reload, Persist, Crash, Start, vars
<1>2. Inv /\ [Next]_vars => [A]_vars
  BY <1>1
<1> QED
  BY <1>2, Invariance, PTL DEF Spec, ExecCarriesLive

\* An answer of 200 leaves every active account of the strategy on the admitted target.
THEOREM OkPublished == Spec => OkMeansPublished
<1> DEFINE A == \A r \in Requests :
                  (pc[r] = "publishing" /\ pc'[r] = "idle" /\ up' /\ ~failed[r]) =>
                    \A b \in Bindings :
                      StrategyOf[b] = name[r] /\ shares[b] > 0 =>
                        exec[b] = [ver |-> version[r], shares |-> shares[b]]
<1>1. ASSUME Inv, [Next]_vars
      PROVE  A
  <2>1. SUFFICES ASSUME NEW r \in Requests, pc[r] = "publishing", pc'[r] = "idle", up',
                        ~failed[r],
                        NEW b \in Bindings, StrategyOf[b] = name[r], shares[b] > 0
                 PROVE  exec[b] = [ver |-> version[r], shares |-> shares[b]]
    OBVIOUS
  <2>2. RequestOK /\ VersionLive /\ Covered
    BY <1>1 DEF Inv, TypeOK
  <2>3. ~Crash /\ ~UNCHANGED requestVars
    BY <2>1 DEF Crash, requestVars
  <2>4. PICK q \in Requests : Publish(q)
    BY <1>1, <2>3, RequestSteps
  <2>5. Answer(r)
    BY <2>1, <2>2, <2>4 DEF RequestOK, Publish, Arrive, Cancel, Lease, Unavailable, Prepare,
       Refuse, Release, Enqueue, WriteExec, Answer
  <2>6. plan[r] = {}
    BY <2>5 DEF Answer, AllWritten
  <2>7. exec[b] = Target(b, shares[b])
    BY <2>1, <2>2, <2>6 DEF Covered
  <2> QED
    BY <2>1, <2>2, <2>7 DEF Target, VersionLive
<1>2. Inv /\ [Next]_vars => [A]_vars
  BY <1>1
<1> QED
  BY <1>2, Invariance, PTL DEF Spec, OkMeansPublished
=============================================================================
