---------------------------- MODULE FollowQueue ----------------------------
(***************************************************************************)
(* Accounts that follow virtual accounts, and the queue that carries their *)
(* configuration to Exec (src/src/virtual_accounts.rs and the handlers and *)
(* the publisher of src/src/web.rs), over the Redis client of ExecRuntime. *)
(*                                                                         *)
(* One real account.  Every handler and the publisher hold the             *)
(* configuration lock exclusively (`job`), so they exclude each other; what *)
(* interleaves with them is Exec, Redis failures, crashes, and statements  *)
(* PostgreSQL still runs for a handler its client has dropped.  A binding  *)
(* name stands for its position strategy, which no edit may change.        *)
(* Symbol overrides and exchange-side projections of targets are left out. *)
(***************************************************************************)
EXTENDS ExecRuntime, Functions

CONSTANTS
  Virtuals,      \* virtual accounts
  OrderNames,    \* order templates
  MaxMultiplier, \* bound on the multiplier of a follow
  MaxEdits       \* bound on configuration edits

ASSUME BoundsAssumption ==
  /\ MaxMultiplier \in Nat /\ MaxEdits \in Nat
  /\ MaxShares \in Nat /\ MaxLosses \in Nat

VARIABLES
  template,   \* cta_virtual_account_bindings
  follows,    \* cta_account_follows: multiplier of each followed virtual
  orders,     \* cta_order_strategies
  catalog,    \* cta_account_strategy_bindings
  queue,      \* cta_follow_publish_queue
  archive,    \* shares of the last event archived for each binding
  job,        \* the holder of the configuration lock
  late,       \* order templates whose queueing statement is still at the server
  unqueued,   \* history: an edit of their order template ended before queueing
  edits       \* edits so far, for the bound MaxEdits

catalogVars == <<template, follows, orders, catalog>>
queueVars == <<queue, archive, late, unqueued>>
vars == <<redisVars, clientVars, losses, catalogVars, queueVars, job, edits>>

Bindings == [order : OrderNames, shares : 0..MaxShares]
Templates == [Strategies -> [order : OrderNames, shares : {1}] \union {None}]
Rows == [rev : 1..MaxEdits, archived : BOOLEAN]
Outcomes == {"pending", "deleted", "failed", "archived"}

NoRows == [b \in Strategies |-> None]
NoOutcome == [b \in Strategies |-> "pending"]

Jobs ==
  [kind : {"deliver", "publish", "order"},
   at : Strategies \union OrderNames \union {None},
   stage : {"next", "archive", "publish", "wait"},
   seen : [Strategies -> Rows \union {None}],   \* rows the delivery selected
   todo : SUBSET Strategies,
   done : [Strategies -> Outcomes]]             \* uncommitted in its transaction

\* An absent row, an idle lock or no answer is none of what there can be.
ASSUME NoneAssumption ==
  None \notin Strategies \union OrderNames \union Bindings \union Rows
               \union Jobs \union {"ok", "error"}

Job(kind, at, stage) ==
  [kind |-> kind, at |-> at, stage |-> stage,
   seen |-> NoRows, todo |-> {}, done |-> NoOutcome]

Init ==
  /\ ExecInit
  /\ template \in [Virtuals -> Templates]
  /\ follows = [v \in Virtuals |-> None]
  /\ orders \in [OrderNames -> Orders]
  /\ catalog = NoRows /\ queue = NoRows
  /\ archive = NoRows
  /\ job = None /\ late = {} /\ unqueued = {} /\ edits = 0

Queued == {b \in Strategies : queue[b] # None}
Following == \E v \in Virtuals : follows[v] # None

\* A binding gathers the shares of every followed template that has it.
Contributors(fs, ts, b) == {v \in Virtuals : fs[v] # None /\ ts[v][b] # None}
Consistent(fs, ts) ==
  \A b \in Strategies : \A v, w \in Contributors(fs, ts, b) :
    ts[v][b].order = ts[w][b].order
Shares(fs, ts, b) ==
  SumFunction([v \in Contributors(fs, ts, b) |-> ts[v][b].shares * fs[v]])
Combined(fs, ts) ==
  [b \in Strategies |->
     IF Contributors(fs, ts, b) = {} THEN None
     ELSE [order |-> ts[CHOOSE v \in Contributors(fs, ts, b) : TRUE][b].order,
           shares |-> Shares(fs, ts, b)]]

Acceptable(fs, ts) ==
  /\ Consistent(fs, ts)
  /\ \A b \in Strategies : Shares(fs, ts, b) \in 0..MaxShares

\* Fault: every new row starts before the first revision.
RequeuedBehind(b) ==
  [rev |-> IF queue[b] = None THEN 0 ELSE queue[b].rev + 1, archived |-> FALSE]

\* Fault: a row queued again keeps its archive mark.
RequeuedArchived(b) ==
  [rev |-> IF queue[b] = None THEN 1 ELSE queue[b].rev + 1,
   archived |-> queue[b] # None /\ queue[b].archived]

Requeued(b) ==
  [rev |-> IF queue[b] = None THEN 1 ELSE queue[b].rev + 1, archived |-> FALSE]

Enqueue(bs) == [b \in Strategies |-> IF b \in bs THEN Requeued(b) ELSE queue[b]]

\* Fault: obsolete bindings are left alone.
ChangedByDesired(desired, force) ==
  {b \in Strategies : desired[b] # None /\ (force \/ catalog[b] # desired[b])}

\* Bring the account's bindings to the desired ones; what is no longer
\* desired stays with zero shares.
ChangedBy(desired, force) ==
  {b \in Strategies :
     \/ desired[b] # None /\ (force \/ catalog[b] # desired[b])
     \/ desired[b] = None /\ catalog[b] # None /\ (force \/ catalog[b].shares # 0)}

Stopped(b) == IF catalog[b] = None THEN None ELSE [catalog[b] EXCEPT !.shares = 0]

Materialize(desired, force) ==
  /\ catalog' = [b \in Strategies |->
                   IF b \notin ChangedBy(desired, force) THEN catalog[b]
                   ELSE IF desired[b] # None THEN desired[b] ELSE Stopped(b)]
  /\ queue' = Enqueue(ChangedBy(desired, force))

Edit == job = None /\ edits < MaxEdits /\ edits' = edits + 1

\* Replace a template, and the bindings of the account when it follows it, in
\* one transaction; a conflict with another followed template refuses it all.
SaveVirtual(v, t) ==
  /\ Edit
  /\ LET ts == [template EXCEPT ![v] = t] IN
     /\ follows[v] # None => Acceptable(follows, ts)
     /\ template' = ts
     /\ IF follows[v] # None
          THEN Materialize(Combined(follows, ts), FALSE)
          ELSE UNCHANGED <<catalog, queue>>
  /\ UNCHANGED <<redisVars, clientVars, losses, follows, orders, archive, late,
                 unqueued, job>>

\* Follow a set of virtual accounts; every effective binding is queued.
Follow(fs) ==
  /\ Edit
  /\ \E v \in Virtuals : fs[v] # None
  /\ Acceptable(fs, template)
  /\ Materialize(Combined(fs, template), TRUE)
  /\ follows' = fs
  /\ UNCHANGED <<redisVars, clientVars, losses, template, orders, archive, late,
                 unqueued, job>>

\* Independent mode keeps the bindings and the rows still queued.
BecomeIndependent ==
  /\ Edit /\ Following
  /\ follows' = [v \in Virtuals |-> None]
  /\ UNCHANGED <<redisVars, clientVars, losses, template, orders, catalog,
                 queueVars, job>>

\* An order template is saved in a transaction of its own ...
SaveOrder(o, c) ==
  /\ Edit
  /\ orders' = [orders EXCEPT ![o] = c]
  /\ job' = Job("order", o, "next")
  /\ UNCHANGED <<redisVars, clientVars, losses, template, follows, catalog,
                 queueVars>>

Users(o) ==
  {b \in Strategies : /\ Following
                      /\ catalog[b] # None
                      /\ catalog[b].order = o /\ catalog[b].shares > 0}

\* ... and queues the bindings that use it in the next statement.
EnqueueOrderFollowers ==
  /\ job # None /\ job.kind = "order"
  /\ queue' = Enqueue(Users(job.at))
  /\ job' = None
  /\ UNCHANGED <<redisVars, clientVars, losses, catalogVars, archive, late,
                 unqueued, edits>>

\* The statement of a dropped handler runs at the server all the same, unless
\* the publisher's transaction holds one of its rows.
LateEnqueue(o) ==
  /\ o \in late
  /\ job # None => \A b \in Users(o) : job.done[b] = "pending"
  /\ queue' = Enqueue(Users(o))
  /\ late' = late \ {o}
  /\ UNCHANGED <<redisVars, clientVars, losses, catalogVars, archive, unqueued,
                 job, edits>>

MayEditBindings == ~Following /\ Queued = {}

\* save_binding, and save_binding_shares when the template stays: a stop is
\* archived and published at once, other shares wait for a manual publish.
SaveBinding(b, o, n) ==
  /\ Edit /\ MayEditBindings
  /\ catalog' = [catalog EXCEPT ![b] = [order |-> o, shares |-> n]]
  /\ job' = IF n = 0 THEN Job("publish", b, "archive") ELSE None
  /\ UNCHANGED <<redisVars, clientVars, losses, template, follows, orders,
                 queueVars>>

DeleteBinding(b) ==
  /\ Edit /\ MayEditBindings
  /\ catalog[b] # None /\ catalog[b].shares = 0
  /\ catalog' = [catalog EXCEPT ![b] = None]
  /\ UNCHANGED <<redisVars, clientVars, losses, template, follows, orders,
                 queueVars, job>>

\* A manual publish waits for the queue; a stopped binding is stopped again.
PublishBinding(b) ==
  /\ Edit /\ Queued = {}
  /\ catalog[b] # None
  /\ job' = Job("publish", b, IF catalog[b].shares = 0 THEN "archive" ELSE "publish")
  /\ UNCHANGED <<redisVars, clientVars, losses, catalogVars, queueVars>>

\* The publisher opens its transaction and selects the queue.
StartDelivery ==
  /\ job = None /\ Queued # {}
  /\ job' = [Job("deliver", None, "next") EXCEPT !.seen = queue, !.todo = Queued]
  /\ UNCHANGED <<redisVars, clientVars, losses, catalogVars, queueVars, edits>>

Delivering(stage) == job # None /\ job.kind = "deliver" /\ job.stage = stage

TakeRow(b) ==
  /\ Delivering("next") /\ b \in job.todo
  /\ job' = [job EXCEPT !.at = b, !.todo = @ \ {b},
               !.stage = IF job.seen[b].archived THEN "publish" ELSE "archive"]
  /\ UNCHANGED <<redisVars, clientVars, losses, catalogVars, queueVars, edits>>

\* The frozen shares are archived before they are published.
ArchiveBinding ==
  /\ job # None /\ job.stage = "archive"
  /\ archive' = [archive EXCEPT ![job.at] = catalog[job.at].shares]
  /\ job' = [job EXCEPT !.stage = "publish",
               !.seen = IF job.kind = "deliver"
                        THEN [@ EXCEPT ![job.at].archived = TRUE] ELSE @]
  /\ UNCHANGED <<redisVars, clientVars, losses, catalogVars, queue, late,
                 unqueued, edits>>

\* A row's statement changes the row only when it still is the revision seen.
RowAfter(b, outcome) ==
  IF queue[b] # None /\ queue[b].rev = job.seen[b].rev THEN outcome ELSE "pending"

\* The end of one row, or of a publish by hand.
Answered(outcome) ==
  job' = IF job.kind = "publish" THEN None
         ELSE [job EXCEPT !.at = None, !.stage = "next",
                 !.done[job.at] = RowAfter(job.at, outcome)]

ArchiveFails ==
  /\ losses < MaxLosses /\ losses' = losses + 1
  /\ job # None /\ job.stage = "archive"
  /\ Answered("failed")
  /\ UNCHANGED <<redisVars, clientVars, catalogVars, queueVars, edits>>

Effective(b) == [shares |-> catalog[b].shares, order |-> orders[catalog[b].order]]

\* A stale projection, the account mode or a reserved symbol refuses the
\* publish before Redis is asked.
CheckRefuses ==
  /\ losses < MaxLosses /\ losses' = losses + 1
  /\ op = None /\ answer = None /\ answer' = "error"
  /\ UNCHANGED <<redisVars, connected, op>>

PublishCurrent ==
  /\ job # None /\ job.stage = "publish"
  /\ Publish(job.at, Effective(job.at)) \/ Unreachable \/ CheckRefuses
  /\ job' = [job EXCEPT !.stage = "wait"]
  /\ UNCHANGED <<catalogVars, queueVars, edits>>

PublishAnswered ==
  /\ job # None /\ job.stage = "wait" /\ answer # None
  /\ answer' = None
  /\ unqueued' = IF answer = "ok" THEN unqueued \ {job.at} ELSE unqueued
  /\ Answered(IF answer = "ok" THEN "deleted" ELSE "archived")
  /\ UNCHANGED <<redisVars, connected, op, losses, catalogVars, queue, archive,
                 late, edits>>

\* The transaction of a delivery commits what its rows came to.
Settled(b) ==
  CASE job.done[b] = "deleted" -> None
    [] job.done[b] = "archived" -> [queue[b] EXCEPT !.archived = TRUE]
    [] job.done[b] = "failed" -> [queue[b] EXCEPT !.archived = job.seen[b].archived]
    [] OTHER -> queue[b]

FinishDelivery ==
  /\ Delivering("next") /\ job.todo = {}
  /\ queue' = [b \in Strategies |-> Settled(b)]
  /\ job' = None
  /\ UNCHANGED <<redisVars, clientVars, losses, catalogVars, archive, late,
                 unqueued, edits>>

\* Where the publish under way leaves Redis when its task is gone.
Orphaned ==
  /\ \/ op # None /\ op.stage = "commit" /\ Committed
     \/ UNCHANGED redisVars
  /\ op' = None /\ answer' = None

\* An order edit that ends between its two statements: the second one was
\* sent, or it is never run.
OrderAbandoned ==
  IF job # None /\ job.kind = "order"
    THEN \/ late' = late \union {job.at} /\ UNCHANGED unqueued
         \/ unqueued' = unqueued \union Users(job.at) /\ UNCHANGED late
    ELSE UNCHANGED <<late, unqueued>>

\* The client of an edit disconnects and its handler is dropped.
Disconnect ==
  /\ losses < MaxLosses /\ losses' = losses + 1
  /\ job # None /\ job.kind # "deliver"
  /\ Orphaned /\ OrderAbandoned
  /\ job' = None
  /\ UNCHANGED <<connected, catalogVars, queue, archive, edits>>

\* The process crashes, or a delivery loses PostgreSQL: the transaction of the
\* delivery rolls back, and the configuration lock is free again.
Crash ==
  /\ losses < MaxLosses /\ losses' = losses + 1
  /\ job # None
  /\ Orphaned /\ OrderAbandoned
  /\ job' = None /\ connected' = TRUE
  /\ UNCHANGED <<catalogVars, queue, archive, edits>>

Client == Commit \/ Confirm \/ PublishLost \/ Reconnect \/ PingFails
Exec == \E s \in Strategies : ExecSwitches(s)
Deliver == \/ StartDelivery \/ (\E b \in Strategies : TakeRow(b))
           \/ FinishDelivery
Perform == ArchiveBinding \/ ArchiveFails \/ PublishCurrent \/ PublishAnswered
Configure ==
  \/ \E v \in Virtuals, t \in Templates : SaveVirtual(v, t)
  \/ \E fs \in [Virtuals -> 0..MaxMultiplier \union {None}] : Follow(fs)
  \/ BecomeIndependent
  \/ \E o \in OrderNames, c \in Orders : SaveOrder(o, c)
  \/ EnqueueOrderFollowers
  \/ \E o \in OrderNames : LateEnqueue(o)
  \/ \E b \in Strategies, o \in OrderNames, n \in 0..MaxShares : SaveBinding(b, o, n)
  \/ \E b \in Strategies : DeleteBinding(b) \/ PublishBinding(b)

Next ==
  \/ Client /\ UNCHANGED <<catalogVars, queueVars, job, edits>>
  \/ Exec /\ UNCHANGED <<catalogVars, queueVars, job, edits>>
  \/ Deliver \/ Perform \/ Configure \/ Disconnect \/ Crash

Spec == Init /\ [][Next]_vars
-----------------------------------------------------------------------------
CatalogTypeOK ==
  /\ template \in [Virtuals -> Templates]
  /\ follows \in [Virtuals -> 0..MaxMultiplier \union {None}]
  /\ orders \in [OrderNames -> Orders]
  /\ catalog \in [Strategies -> Bindings \union {None}]

QueueTypeOK ==
  /\ queue \in [Strategies -> Rows \union {None}]
  /\ archive \in [Strategies -> 0..MaxShares \union {None}]
  /\ job \in Jobs \union {None}
  /\ late \subseteq OrderNames /\ unqueued \subseteq Strategies
  /\ edits \in 0..MaxEdits

TypeOK == ExecTypeOK /\ CatalogTypeOK /\ QueueTypeOK

(***************************************************************************)
(* The bindings of a following account are what its followed templates add *)
(* up to, whatever was edited in which order; a binding no template has    *)
(* any more is stopped.                                                     *)
(***************************************************************************)
EffectiveShares ==
  LET desired == Combined(follows, template) IN
  Following =>
    \A b \in Strategies :
      IF desired[b] # None THEN catalog[b] = desired[b]
      ELSE catalog[b] # None => catalog[b].shares = 0

\* Exec runs the binding's shares, with its order parameters unless it is
\* stopped, in a family that owns the strategy or is about to.
Owns(f, b) == \/ b \in names[f]
              \/ switch[b] # None /\ switch[b].state = "requested" /\ switch[b].to = f
Carried(b) ==
  \E f \in Families :
    /\ Owns(f, b)
    /\ config[f][b] # None
    /\ config[f][b].shares = catalog[b].shares
    /\ catalog[b].shares > 0 => config[f][b].order = orders[catalog[b].order]

Busy(b) ==
  \/ job # None /\ job.at \in {b, catalog[b].order}
  \/ catalog[b].order \in late

(***************************************************************************)
(* No binding of a following account falls out of step unnoticed: unless   *)
(* its row is queued, Exec carries its shares and parameters, and the      *)
(* position archive has those shares as its last event.  Excepted is a     *)
(* binding whose order template was saved by an edit that ended before it  *)
(* queued the followers (`unqueued`).                                       *)
(***************************************************************************)
FollowersServed ==
  Following =>
    \A b \in Strategies \ (Queued \union unqueued) :
      catalog[b] # None /\ ~Busy(b) =>
        Carried(b) /\ archive[b] = catalog[b].shares
=============================================================================
