------------------------- MODULE TargetPublication -------------------------
(***************************************************************************)
(* Publishing position targets to the bound Exec accounts of a strategy,   *)
(* against concurrent publishes, configuration edits, failing Redis writes *)
(* and crashes (src/src/web.rs, src/src/web/publication.rs and             *)
(* src/src/web/target_state.rs).                                           *)
(*                                                                         *)
(* The target stores enter only through what they promise, TargetLog; that *)
(* they keep the promise is TargetStore's RefinesTargetLog.                *)
(*                                                                         *)
(* A publish holds the mutex of its strategy and a shared lease of the     *)
(* configuration lock from admission to its last account write.  An edit   *)
(* or reload holds the configuration lock exclusively, and a waiting one   *)
(* makes the lease unavailable.                                            *)
(***************************************************************************)
EXTENDS Naturals, Sequences

CONSTANTS
  Strategies, Ids, NoId, Versions,   \* as in TargetLog
  Bindings,      \* (account, binding) pairs
  StrategyOf,    \* position strategy of each binding; it never changes
  MaxShares,     \* bound on the shares of a binding; 0 means stopped
  Requests,      \* publish requests that may be under way together
  NoRequest,     \* an unlocked strategy mutex
  NoStrategy     \* the strategy of an idle request

ASSUME StrategyOfAssumption == StrategyOf \in [Bindings -> Strategies]
ASSUME VersionsAssumption == Versions \subseteq Nat \ {0}
ASSUME MaxSharesAssumption == MaxShares \in Nat \ {0}
ASSUME NoRequestAssumption == NoRequest \notin Requests

VARIABLES
  log, durable, live, catalogued, issued,  \* the stores, as in TargetLog
  up,          \* the process serves
  ready,       \* the catalog may be used for admission
  shares,      \* PostgreSQL: shares of each binding
  catalog,     \* memory: the shares as of the last load
  exec,        \* Redis: version and shares of the target each account runs
  mutex,       \* holder of each strategy's mutex
  pc,          \* where each request is
  name,        \* the strategy a request is for
  version,     \* the version it froze
  plan,        \* the account writes it froze and has still to make
  failed,      \* one of its account writes failed
  editor,      \* the exclusive user: "none", "waiting", "holding", "stopping"
               \* or "publishing"
  edited,      \* the binding it edits
  reloading,   \* the reload worker waits for the configuration lock
  confirmed    \* history variable: the binding's last stop was confirmed

Store == INSTANCE TargetLog

storeVars == <<log, durable, live, catalogued, issued>>
requestVars == <<mutex, pc, name, version, plan, failed>>
editVars == <<editor, edited>>
vars == <<storeVars, up, ready, shares, catalog, exec, requestVars, editVars,
          reloading, confirmed>>

Write == [binding : Bindings, shares : 1..MaxShares]

\* Requests that hold a lease of the configuration lock.
Leased == {r \in Requests : pc[r] \in {"admitted", "prepared", "publishing"}}

Exclusive == editor \notin {"none", "waiting"}

\* Fault: readers overtake a waiting writer.
LeaseUnlessHeld == ~Exclusive

\* try_read_owned succeeds: nobody holds the lock or awaits it exclusively.
LeaseFree == editor = "none" /\ ~reloading

Target(b, n) == [ver |-> live[StrategyOf[b]].ver, shares |-> n]

Init ==
  /\ \E i \in Ids, v \in Versions :
       /\ \A w \in Versions : v <= w
       /\ live = [s \in Strategies |-> [id |-> i, ver |-> v]]
       /\ catalogued = [s \in Strategies |-> i]
       /\ issued = {[name |-> s, id |-> i, ver |-> v] : s \in Strategies}
  /\ log = <<>> /\ durable = 0
  /\ up = TRUE /\ ready = TRUE
  /\ shares \in [Bindings -> 0..1] /\ catalog = shares
  /\ exec = [b \in Bindings |-> [ver |-> 0, shares |-> 0]]
  /\ mutex = [s \in Strategies |-> NoRequest]
  /\ pc = [r \in Requests |-> "idle"]
  /\ name = [r \in Requests |-> NoStrategy]
  /\ version = [r \in Requests |-> 0]
  /\ plan = [r \in Requests |-> {}]
  /\ failed = [r \in Requests |-> FALSE]
  /\ editor = "none" /\ edited \in Bindings /\ reloading = FALSE
  /\ confirmed = [b \in Bindings |-> FALSE]

-----------------------------------------------------------------------------
(***************************************************************************)
(* A publish request                                                       *)
(***************************************************************************)
Arrive(r, s) ==
  /\ up /\ pc[r] = "idle"
  /\ pc' = [pc EXCEPT ![r] = "waiting"]
  /\ name' = [name EXCEPT ![r] = s]
  /\ UNCHANGED <<storeVars, up, ready, shares, catalog, exec, mutex, version,
                 plan, failed, editVars, reloading, confirmed>>

\* The client leaves while its request waits for the strategy mutex.
Cancel(r) ==
  /\ pc[r] = "waiting"
  /\ pc' = [pc EXCEPT ![r] = "idle"]
  /\ name' = [name EXCEPT ![r] = NoStrategy]
  /\ UNCHANGED <<storeVars, up, ready, shares, catalog, exec, mutex, version,
                 plan, failed, editVars, reloading, confirmed>>

\* Fault: publishes of one strategy do not wait for each other.
NoTurn(r) == TRUE

Turn(r) == mutex[name[r]] = NoRequest

\* The mutex is free and so is the lease; from here on the publish runs in a
\* task of its own.
Lease(r) ==
  /\ pc[r] = "waiting" /\ Turn(r)
  /\ LeaseFree
  /\ mutex' = [mutex EXCEPT ![name[r]] = r]
  /\ pc' = [pc EXCEPT ![r] = "admitted"]
  /\ UNCHANGED <<storeVars, up, ready, shares, catalog, exec, name, version,
                 plan, failed, editVars, reloading, confirmed>>

Unavailable(r) ==
  /\ pc[r] = "waiting" /\ Turn(r)
  /\ ~LeaseFree
  /\ pc' = [pc EXCEPT ![r] = "idle"]
  /\ name' = [name EXCEPT ![r] = NoStrategy]
  /\ UNCHANGED <<storeVars, up, ready, shares, catalog, exec, mutex, version,
                 plan, failed, editVars, reloading, confirmed>>

\* Fault: the guard of the strategy mutex outlives its request.
Leaked(r) == mutex

Freed(r) == [mutex EXCEPT ![name[r]] = NoRequest]

\* The request ends: both guards are dropped.
Release(r) ==
  /\ pc' = [pc EXCEPT ![r] = "idle"]
  /\ mutex' = Freed(r)
  /\ name' = [name EXCEPT ![r] = NoStrategy]
  /\ version' = [version EXCEPT ![r] = 0]
  /\ plan' = [plan EXCEPT ![r] = {}]
  /\ failed' = [failed EXCEPT ![r] = FALSE]

\* Freeze the version and the shares of every active binding.
Prepare(r) ==
  /\ pc[r] = "admitted" /\ ready
  /\ \E v \in Versions :
       /\ v > live[name[r]].ver
       /\ version' = [version EXCEPT ![r] = v]
  /\ plan' = [plan EXCEPT ![r] =
       {w \in Write : /\ StrategyOf[w.binding] = name[r]
                      /\ w.shares = catalog[w.binding]}]
  /\ pc' = [pc EXCEPT ![r] = "prepared"]
  /\ UNCHANGED <<storeVars, up, ready, shares, catalog, exec, mutex, name,
                 failed, editVars, reloading, confirmed>>

\* The catalog is refreshing, the publish is not authorized or not valid, or the
\* persistence queue is full or closing: nothing has changed yet.
Refuse(r) ==
  /\ pc[r] \in {"admitted", "prepared"}
  /\ Release(r)
  /\ UNCHANGED <<storeVars, up, ready, shares, catalog, exec, editVars,
                 reloading, confirmed>>

\* The strategy mutex is kept through the account writes.
MutexWhileWriting(r) == mutex

Enqueue(r) ==
  /\ pc[r] = "prepared"
  /\ Store!Admit(name[r], version[r])
  /\ pc' = [pc EXCEPT ![r] = "publishing"]
  /\ mutex' = MutexWhileWriting(r)
  /\ UNCHANGED <<up, ready, shares, catalog, exec, name, version, plan,
                 failed, editVars, reloading, confirmed>>

\* The target a planned write carries.
Frozen(r, w) == [ver |-> version[r], shares |-> w.shares]

\* The account writes run in parallel.  A failed one may have been applied.
WriteExec(r, w) ==
  /\ pc[r] = "publishing" /\ w \in plan[r]
  /\ plan' = [plan EXCEPT ![r] = @ \ {w}]
  /\ \/ /\ exec' = [exec EXCEPT ![w.binding] = Frozen(r, w)]
        /\ UNCHANGED failed
     \/ /\ exec' \in {exec, [exec EXCEPT ![w.binding] = Frozen(r, w)]}
        /\ failed' = [failed EXCEPT ![r] = TRUE]
  /\ UNCHANGED <<storeVars, up, ready, shares, catalog, mutex, pc, name,
                 version, editVars, reloading, confirmed>>

\* Fault: the answer does not wait for the slower accounts.
AnyWritten(r) == \E b \in Bindings : exec[b].ver = version[r]

AllWritten(r) == plan[r] = {}

\* 200 when every write succeeded, 502 otherwise.
Answer(r) ==
  /\ pc[r] = "publishing" /\ AllWritten(r)
  /\ Release(r)
  /\ UNCHANGED <<storeVars, up, ready, shares, catalog, exec, editVars,
                 reloading, confirmed>>

-----------------------------------------------------------------------------
(***************************************************************************)
(* Configuration edits                                                     *)
(***************************************************************************)
AwaitEdit(b) ==
  /\ up /\ editor = "none"
  /\ editor' = "waiting" /\ edited' = b
  /\ UNCHANGED <<storeVars, up, ready, shares, catalog, exec, requestVars,
                 reloading, confirmed>>

\* Fault: an edit does not wait for the publishes under way.
EditAnyway == TRUE

LeasesReturned == Leased = {}

\* Every lease is returned: the edit closes admission.
BeginEdit ==
  /\ editor = "waiting" /\ LeasesReturned
  /\ editor' = "holding" /\ ready' = FALSE
  /\ UNCHANGED <<storeVars, up, shares, catalog, exec, requestVars, edited,
                 reloading, confirmed>>

\* Saving shares above zero ends the edit; saving zero goes on to stop.
SaveShares(n) ==
  /\ editor = "holding"
  /\ shares' = [shares EXCEPT ![edited] = n]
  /\ editor' = IF n = 0 THEN "stopping" ELSE "none"
  /\ confirmed' = [confirmed EXCEPT ![edited] = @ /\ n = 0]
  /\ UNCHANGED <<storeVars, up, ready, catalog, exec, requestVars, edited, reloading>>

\* The manual publish of a binding; a stopped one is stopped again.
Republish ==
  /\ editor = "holding"
  /\ editor' = IF shares[edited] = 0 THEN "stopping" ELSE "publishing"
  /\ UNCHANGED <<storeVars, up, ready, shares, catalog, exec, requestVars,
                 edited, reloading, confirmed>>

\* The stop event is archived before the zero target is published.
ArchiveStop ==
  /\ editor = "stopping"
  /\ editor' = "publishing"
  /\ UNCHANGED <<storeVars, up, ready, shares, catalog, exec, requestVars,
                 edited, reloading, confirmed>>

\* publish_binding_with_projection: the live target at the saved shares.
PublishBinding ==
  /\ editor = "publishing"
  /\ exec' = [exec EXCEPT ![edited] = Target(edited, shares[edited])]
  /\ editor' = "none"
  /\ \/ confirmed' = [confirmed EXCEPT ![edited] = shares[edited] = 0]
     \/ UNCHANGED confirmed        \* applied, but reported as failed
  /\ UNCHANGED <<storeVars, up, ready, shares, catalog, requestVars, edited, reloading>>

\* An error, or the client leaves: the guard is dropped where the edit stands.
AbandonEdit ==
  /\ editor # "none"
  /\ editor' = "none"
  /\ UNCHANGED <<storeVars, up, ready, shares, catalog, exec, requestVars,
                 edited, reloading, confirmed>>

\* Targets::load: every strategy gets a target the stores promise, and admission
\* opens on a fresh copy of the configuration.
LoadCatalog ==
  /\ live' \in [Strategies -> Store!Row]
  /\ Store!Load
  /\ catalog' = shares
  /\ ready' = TRUE

\* Fault: the reload worker misses the end of an edit.
MissedWakeup == FALSE

Woken == up /\ ~ready

\* The end of an edit wakes the reload worker.
AwaitReload ==
  /\ Woken /\ ~reloading
  /\ reloading' = TRUE
  /\ UNCHANGED <<storeVars, up, ready, shares, catalog, exec, requestVars,
                 editVars, confirmed>>

\* It holds the configuration lock exclusively for the load; when that fails it
\* drops the lock and comes back a second later.
Reload ==
  /\ reloading /\ ~Exclusive /\ LeasesReturned
  /\ reloading' = FALSE
  /\ LoadCatalog \/ UNCHANGED <<live, catalog, ready>>
  /\ UNCHANGED <<log, durable, catalogued, issued, up, shares, exec,
                 requestVars, editVars, confirmed>>

-----------------------------------------------------------------------------
Persist ==
  /\ Store!Harden
  /\ UNCHANGED <<up, ready, shares, catalog, exec, requestVars, editVars, reloading, confirmed>>

Crash ==
  /\ up /\ up' = FALSE /\ ready' = FALSE
  /\ \E n \in 0..Len(log) : Store!Crash(n)
  /\ mutex' = [s \in Strategies |-> NoRequest]
  /\ pc' = [r \in Requests |-> "idle"]
  /\ version' = [r \in Requests |-> 0]
  /\ plan' = [r \in Requests |-> {}]
  /\ name' = [r \in Requests |-> NoStrategy]
  /\ failed' = [r \in Requests |-> FALSE]
  /\ editor' = "none" /\ reloading' = FALSE
  /\ UNCHANGED <<shares, catalog, exec, edited, confirmed>>

\* The process serves only after a first complete load.
Start ==
  /\ ~up /\ up' = TRUE
  /\ LoadCatalog
  /\ UNCHANGED <<shares, exec, requestVars, editVars, reloading, confirmed>>

Publish(r) ==
  \/ \E s \in Strategies : Arrive(r, s)
  \/ Cancel(r) \/ Lease(r) \/ Unavailable(r)
  \/ Prepare(r) \/ Refuse(r) \/ Enqueue(r)
  \/ \E w \in Write : WriteExec(r, w)
  \/ Answer(r)

Edit ==
  \/ \E b \in Bindings : AwaitEdit(b)
  \/ BeginEdit
  \/ \E n \in 0..MaxShares : SaveShares(n)
  \/ Republish \/ ArchiveStop \/ PublishBinding \/ AbandonEdit

Next ==
  \/ \E r \in Requests : Publish(r)
  \/ Edit \/ AwaitReload \/ Reload \/ Persist \/ Crash \/ Start

Spec == Init /\ [][Next]_vars

-----------------------------------------------------------------------------
(***************************************************************************)
(* Safety                                                                   *)
(***************************************************************************)
StoreOK ==
  /\ log \in Seq(Store!Event) /\ durable \in 0..Len(log)
  /\ live \in [Strategies -> Store!Row \cup {Store!Absent}]
  /\ catalogued \in [Strategies -> Ids \cup {NoId}]
  /\ issued \in SUBSET Store!Event

RequestOK ==
  /\ mutex \in [Strategies -> Requests \cup {NoRequest}]
  /\ pc \in [Requests -> {"idle", "waiting", "admitted", "prepared", "publishing"}]
  /\ name \in [Requests -> Strategies \cup {NoStrategy}]
  /\ version \in [Requests -> Versions \cup {0}]
  /\ plan \in [Requests -> SUBSET Write]
  /\ failed \in [Requests -> BOOLEAN]

ConfigOK ==
  /\ up \in BOOLEAN /\ ready \in BOOLEAN
  /\ shares \in [Bindings -> 0..MaxShares]
  /\ catalog \in [Bindings -> 0..MaxShares]
  /\ exec \in [Bindings -> [ver : Versions \cup {0}, shares : 0..MaxShares]]
  /\ editor \in {"none", "waiting", "holding", "stopping", "publishing"}
  /\ edited \in Bindings /\ reloading \in BOOLEAN
  /\ confirmed \in [Bindings -> BOOLEAN]

LeasesHold == \A r \in Leased : mutex[name[r]] = r /\ ~Exclusive

\* Every variable has its type, a request past admission holds the mutex of its
\* strategy, and no lease is out while the configuration lock is held.
TypeOK == StoreOK /\ RequestOK /\ ConfigOK /\ LeasesHold

\* A binding whose stop was confirmed runs a zero target until its shares are
\* raised again: no publish that was under way with the former shares, no
\* failed write and no crash brings its position back (web/publication.rs:9).
StopHolds ==
  \A b \in Bindings : confirmed[b] => shares[b] = 0 /\ exec[b].shares = 0

\* A write to an account always carries the live target of its strategy at the
\* shares its binding has in PostgreSQL at that very moment, whatever was frozen
\* when, and by whom: accounts see the targets of a strategy in order, and never
\* at shares that have been edited away.
ExecCarriesLive ==
  [][\A b \in Bindings :
       exec'[b] # exec[b] => exec'[b] = Target(b, shares[b])]_vars

\* A publish that is answered 200 leaves every active account of its strategy on
\* the target it admitted (docs/target_publication.md: "All bound account writes
\* complete before returning 200").
OkMeansPublished ==
  [][\A r \in Requests :
       (pc[r] = "publishing" /\ pc'[r] = "idle" /\ up' /\ ~failed[r]) =>
         \A b \in Bindings :
           StrategyOf[b] = name[r] /\ shares[b] > 0 =>
             exec[b] = [ver |-> version[r], shares |-> shares[b]]]_vars

(***************************************************************************)
(* Liveness.  The async mutex and the reader-writer lock serve their        *)
(* waiters in order; a publish bounds each account write by a timeout.      *)
(***************************************************************************)
Fairness ==
  /\ \A r \in Requests :
       /\ SF_vars(Lease(r) \/ Unavailable(r))
       /\ WF_vars(Prepare(r) \/ Enqueue(r) \/ Refuse(r))
       /\ WF_vars(\E w \in Write : WriteExec(r, w))
       /\ WF_vars(Answer(r))
  /\ WF_vars(BeginEdit)
  /\ WF_vars(\E n \in 0..MaxShares : SaveShares(n))
  /\ WF_vars(ArchiveStop) /\ WF_vars(PublishBinding)
  /\ WF_vars(AwaitReload) /\ SF_vars(Reload /\ LoadCatalog)

FairSpec == Spec /\ Fairness

\* A publish request is answered.
RequestAnswered ==
  \A r \in Requests : (pc[r] = "waiting") ~> (pc[r] = "idle")

\* Publishes cannot keep an edit out for ever: one that waits gets the lock, or
\* gives up.
EditGetsIn == (editor = "waiting") ~> (editor # "waiting")

\* After an edit, however it ends, admission opens again.
AdmissionReopens == (up /\ ~ready) ~> (ready \/ ~up)

\* An edit that waits gets its turn among the publishes, and publishes get
\* theirs after it.
EditsTakeTurns == EditGetsIn /\ AdmissionReopens
=============================================================================
