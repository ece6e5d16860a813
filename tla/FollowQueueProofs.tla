------------------------- MODULE FollowQueueProofs -------------------------
(***************************************************************************)
(* Proofs about FollowQueue: the types, the shares of a following account, *)
(* and, when Exec moves no strategy while a publish is under way, that a   *)
(* strategy has one family and that no follower falls out of step.         *)
(*                                                                         *)
(* What a client can see (FollowersServed) speaks of bindings nothing is    *)
(* under way for.  The induction needs what holds meanwhile: a binding no  *)
(* row stands for is in step, short of the order parameters an edit has    *)
(* still to announce (InStep); a publish under way holds what Redis holds  *)
(* (OpCurrent); an answer of ok, and a row its delivery has settled, say   *)
(* what is true (AnswerTrue, Delivered).                                    *)
(***************************************************************************)
EXTENDS FollowQueue, FiniteSetTheorems, TLAPS

\* The configuration lock is held for a binding or for an order template.
JobShaped ==
  job # None =>
    /\ job.kind = "order" => job.at \in OrderNames /\ job.stage = "next"
    /\ job.kind = "publish" => job.stage # "next"
    /\ job.stage # "next" => job.at \in Strategies /\ catalog[job.at] # None

\* A row has its binding, and is marked archived only with its shares archived.
RowsBound ==
  \A b \in Strategies : queue[b] # None =>
    /\ catalog[b] # None
    /\ queue[b].archived => archive[b] = catalog[b].shares

\* A delivery under way: rows it selected are still there, those it has settled
\* unchanged, and what it has archived is the shares of now.
DeliveryShaped ==
  job # None /\ job.kind = "deliver" =>
    /\ job.stage # "next" =>
         job.seen[job.at] # None /\ job.at \notin job.todo /\ job.done[job.at] = "pending"
    /\ job.stage \in {"publish", "wait"} => job.seen[job.at].archived
    /\ \A b \in Strategies :
         /\ job.seen[b] # None =>
              queue[b] # None /\ (job.seen[b].archived => archive[b] = catalog[b].shares)
         /\ b \in job.todo => job.seen[b] # None /\ job.done[b] = "pending"
         /\ job.done[b] # "pending" => job.seen[b] # None /\ queue[b].rev = job.seen[b].rev
         /\ job.done[b] \in {"archived", "deleted"} => job.seen[b].archived

\* Every revision of a row has its edit, and so has every statement still to run.
Revision(b) == IF queue[b] = None THEN 0 ELSE queue[b].rev
Ordering == job # None /\ job.kind = "order"
RevisionsCounted ==
  /\ IsFiniteSet(late)
  /\ \A b \in Strategies :
       Revision(b) + Cardinality(late) + (IF Ordering THEN 1 ELSE 0) <= edits

CatalogInv ==
  /\ TypeOK /\ JobShaped /\ RowsBound /\ DeliveryShaped /\ RevisionsCounted
  /\ EffectiveShares

-----------------------------------------------------------------------------
\* The family that runs binding b, or will once Exec has moved it.
Owner(f, b) ==
  IF switch[b] # None /\ switch[b].state = "requested" THEN f = switch[b].to
  ELSE b \in names[f]

SwitchesOpposed ==
  \A s \in Strategies : switch[s] # None => switch[s].from = Opposite(switch[s].to)

Written(b) == \E f \in Families : Owner(f, b) /\ config[f][b] = Effective(b)

\* A publish under way is for the binding its job is at; before its commit it
\* holds what Redis holds, after it Redis holds what it wrote.
OpCurrent ==
  op # None =>
    LET s == op.strategy  f == FamilyOf[op.write.order] IN
    /\ job # None /\ job.stage = "wait" /\ job.at = s /\ op.write = Effective(s)
    /\ op.stage = "commit" =>
         /\ op.names = names[f]
         /\ op.switching = Switching(s, f)
         /\ op.request = (Switching(s, f) /\ Reusable(s))
         /\ ~PublishRefused(s, f)
    /\ op.stage = "confirm" => Owner(f, s) /\ config[f][s] = op.write

AnswerTrue ==
  answer # None =>
    /\ op = None /\ job # None /\ job.stage = "wait"
    /\ answer = "ok" => Written(job.at)

Delivered ==
  job # None /\ job.kind = "deliver" =>
    \A b \in Strategies : job.done[b] = "deleted" => Written(b)

\* An edit of the order template of b has still to queue b, or never will.
Awaiting(b) ==
  \/ b \in unqueued \/ catalog[b].order \in late
  \/ Ordering /\ job.at = catalog[b].order

InStep(b) ==
  /\ archive[b] = catalog[b].shares
  /\ \E f \in Families :
       /\ Owner(f, b) /\ config[f][b] # None
       /\ config[f][b].shares = catalog[b].shares
       /\ catalog[b].shares > 0 /\ ~Awaiting(b) =>
            config[f][b].order = orders[catalog[b].order]

AllInStep ==
  Following => \A b \in Strategies \ Queued : catalog[b] # None => InStep(b)

ServedInv ==
  /\ CatalogInv /\ SwitchesOpposed /\ OpCurrent /\ AnswerTrue /\ Delivered
  /\ AllInStep /\ OneFamily
-----------------------------------------------------------------------------
(***************************************************************************)
(* Operators of the model                                                   *)
(***************************************************************************)
LEMMA TwoFamilies ==
  \A f \in Families : Opposite(f) \in Families /\ Opposite(f) # f
BY DEF Families, Opposite

LEMMA FamilyTyped ==
  \A c \in Configs : c.order \in Orders /\ FamilyOf[c.order] \in Families
BY FamilyAssumption DEF Configs

\* A job is what it was made from.
LEMMA JobFields ==
  ASSUME NEW kind, NEW at, NEW stage
  PROVE  /\ Job(kind, at, stage).kind = kind
         /\ Job(kind, at, stage).at = at
         /\ Job(kind, at, stage).stage = stage
         /\ Job(kind, at, stage).seen = NoRows
         /\ Job(kind, at, stage).todo = {}
         /\ Job(kind, at, stage).done = NoOutcome
BY DEF Job

LEMMA JobTyped ==
  ASSUME NEW kind \in {"deliver", "publish", "order"},
         NEW at \in Strategies \union OrderNames \union {None},
         NEW stage \in {"next", "archive", "publish", "wait"}
  PROVE  Job(kind, at, stage) \in Jobs
BY DEF Job, Jobs, NoRows, NoOutcome, Outcomes

\* The bindings of acceptable follows.
LEMMA CombinedTyped ==
  ASSUME NEW fs, NEW ts \in [Virtuals -> Templates], Acceptable(fs, ts)
  PROVE  Combined(fs, ts) \in [Strategies -> Bindings \union {None}]
<1>1. ASSUME NEW b \in Strategies, Contributors(fs, ts, b) # {}
      PROVE  [order |-> ts[CHOOSE v \in Contributors(fs, ts, b) : TRUE][b].order,
              shares |-> Shares(fs, ts, b)] \in Bindings
  <2>1. PICK v \in Contributors(fs, ts, b) :
          v = CHOOSE w \in Contributors(fs, ts, b) : TRUE
    BY <1>1
  <2>2. v \in Virtuals /\ ts[v][b] # None
    BY <2>1 DEF Contributors
  <2>3. ts[v][b] \in [order : OrderNames, shares : {1}]
    BY <2>2 DEF Templates
  <2>4. Shares(fs, ts, b) \in 0..MaxShares
    BY DEF Acceptable
  <2> QED
    BY <2>1, <2>3, <2>4 DEF Bindings
<1> QED
  BY <1>1 DEF Combined

\* What the effective bindings come to once they are materialized.
LEMMA Materialized ==
  ASSUME CatalogTypeOK, NEW desired \in [Strategies -> Bindings \union {None}],
         NEW force \in BOOLEAN, Materialize(desired, force)
  PROVE  /\ catalog' \in [Strategies -> Bindings \union {None}]
         /\ \A b \in Strategies :
              /\ desired[b] # None => catalog'[b] = desired[b]
              /\ desired[b] = None /\ catalog'[b] # None => catalog'[b].shares = 0
              /\ b \in ChangedBy(desired, force) => catalog'[b] # None
              /\ b \notin ChangedBy(desired, force) => catalog'[b] = catalog[b]
<1>1. catalog' = [b \in Strategies |->
                    IF b \notin ChangedBy(desired, force) THEN catalog[b]
                    ELSE IF desired[b] # None THEN desired[b] ELSE Stopped(b)]
  BY DEF Materialize
<1>2. ASSUME NEW b \in Strategies, catalog[b] # None
      PROVE  Stopped(b) \in Bindings /\ Stopped(b).shares = 0
  <2>1. catalog[b] \in Bindings
    BY <1>2 DEF CatalogTypeOK
  <2> QED
    BY <1>2, <2>1, BoundsAssumption DEF Stopped, Bindings
<1>3. ASSUME NEW b \in Strategies, b \in ChangedBy(desired, force), desired[b] = None
      PROVE  catalog[b] # None
  BY <1>3 DEF ChangedBy
<1>4. None \notin Bindings
  BY NoneAssumption
<1>5. catalog \in [Strategies -> Bindings \union {None}]
  BY DEF CatalogTypeOK
<1>6. ASSUME NEW b \in Strategies
      PROVE  /\ catalog'[b] \in Bindings \union {None}
             /\ desired[b] # None => catalog'[b] = desired[b]
             /\ desired[b] = None /\ catalog'[b] # None => catalog'[b].shares = 0
             /\ b \in ChangedBy(desired, force) => catalog'[b] # None
             /\ b \notin ChangedBy(desired, force) => catalog'[b] = catalog[b]
  <2>1. CASE b \in ChangedBy(desired, force) /\ desired[b] # None
    BY <1>1, <2>1
  <2>2. CASE b \in ChangedBy(desired, force) /\ desired[b] = None
    BY <1>1, <1>2, <1>3, <1>4, <2>2
  <2>3. CASE b \notin ChangedBy(desired, force)
    BY <1>1, <1>5, <2>3 DEF ChangedBy
  <2> QED
    BY <2>1, <2>2, <2>3
<1> QED
  BY <1>1, <1>6
\* Rows queued again.
LEMMA Enqueued ==
  ASSUME QueueTypeOK, NEW bs \in SUBSET Strategies, queue' = Enqueue(bs),
         \A b \in bs : Revision(b) < MaxEdits
  PROVE  /\ queue' \in [Strategies -> Rows \union {None}]
         /\ \A b \in bs : /\ queue'[b] # None /\ ~queue'[b].archived
                          /\ queue'[b].rev = Revision(b) + 1
         /\ \A b \in Strategies \ bs : queue'[b] = queue[b]
<1>1. ASSUME NEW b \in bs
      PROVE  Requeued(b) \in Rows /\ ~Requeued(b).archived /\ Requeued(b).rev = Revision(b) + 1
  <2>1. queue[b] \in Rows \union {None} /\ Revision(b) < MaxEdits
    BY DEF QueueTypeOK
  <2>2. Revision(b) \in Nat
    BY <2>1 DEF Revision, Rows
  <2>3. Requeued(b) = [rev |-> Revision(b) + 1, archived |-> FALSE]
    BY DEF Requeued, Revision
  <2> QED
    BY <2>1, <2>2, <2>3, BoundsAssumption DEF Rows
<1> QED
  BY <1>1, NoneAssumption DEF Enqueue, QueueTypeOK

\* Statements still at the server, counted.
LEMMA LateCounted ==
  ASSUME IsFiniteSet(late), NEW o
  PROVE  /\ Cardinality(late) \in Nat
         /\ IsFiniteSet(late \ {o}) /\ IsFiniteSet(late \union {o})
         /\ o \in late => Cardinality(late \ {o}) = Cardinality(late) - 1
         /\ o \in late => Cardinality(late) >= 1
         /\ Cardinality(late \union {o}) \in Cardinality(late)..Cardinality(late) + 1
<1>1. Cardinality(late) \in Nat
  BY FS_CardinalityType
<1>2. /\ IsFiniteSet(late \ {o})
      /\ Cardinality(late \ {o}) = IF o \in late THEN Cardinality(late) - 1
                                                 ELSE Cardinality(late)
  BY FS_RemoveElement
<1>3. /\ IsFiniteSet(late \union {o})
      /\ Cardinality(late \union {o}) = IF o \in late THEN Cardinality(late)
                                                      ELSE Cardinality(late) + 1
  BY FS_AddElement
<1>4. Cardinality(late \ {o}) \in Nat
  BY <1>2, FS_CardinalityType
<1> QED
  BY <1>1, <1>2, <1>3, <1>4

-----------------------------------------------------------------------------
(***************************************************************************)
(* Types                                                                    *)
(***************************************************************************)
\* A committed publish leaves Redis well typed.
LEMMA CommittedTyped ==
  ASSUME ExecTypeOK, op # None, Committed
  PROVE  /\ config' \in [Families -> [Strategies -> Configs \union {None}]]
         /\ names' \in [Families -> SUBSET Strategies]
         /\ switch' \in [Strategies -> Switches \union {None}]
         /\ switchNames' \subseteq Strategies
<1> DEFINE s == op.strategy
           f == FamilyOf[op.write.order]
<1>1. op \in Operations
  BY DEF ExecTypeOK
<1>2. s \in Strategies /\ op.write \in Configs /\ op.names \subseteq Strategies
      /\ op.switchNames \subseteq Strategies
  BY <1>1 DEF Operations
<1>3. f \in Families /\ Opposite(f) \in Families
  BY <1>2, FamilyTyped, TwoFamilies
<1>4. [from |-> Opposite(f), to |-> f, state |-> "requested"] \in Switches
  BY <1>3 DEF Switches
<1>5. config' = [config EXCEPT ![f][s] = op.write]
  BY DEF Committed
<1>6. switch' = switch \/
        switch' = [switch EXCEPT ![s] = [from |-> Opposite(f), to |-> f, state |-> "requested"]]
  BY DEF Committed
<1>7. names' = names \/ names' = [names EXCEPT ![f] = op.names \union {s}]
  BY DEF Committed
<1>8. switchNames' = switchNames \/ switchNames' = op.switchNames \union {s}
  BY DEF Committed
<1> HIDE DEF s, f
<1>9. config' \in [Families -> [Strategies -> Configs \union {None}]]
  BY <1>2, <1>3, <1>5 DEF ExecTypeOK
<1>10. names' \in [Families -> SUBSET Strategies]
  BY <1>2, <1>3, <1>7 DEF ExecTypeOK
<1>11. switch' \in [Strategies -> Switches \union {None}]
  BY <1>2, <1>4, <1>6 DEF ExecTypeOK
<1> QED
  BY <1>2, <1>8, <1>9, <1>10, <1>11 DEF ExecTypeOK

\* What a publish of a bound binding writes.
LEMMA EffectiveTyped ==
  ASSUME CatalogTypeOK, NEW b \in Strategies, catalog[b] # None
  PROVE  Effective(b) \in Configs
<1>1. catalog[b] \in Bindings
  BY DEF CatalogTypeOK
<1> QED
  BY <1>1 DEF CatalogTypeOK, Bindings, Effective, Configs

\* What a publish holds before its commit.
LEMMA PreparedTyped ==
  ASSUME ExecTypeOK, NEW s \in Strategies, NEW c \in Configs
  PROVE  Prepared(s, c, FamilyOf[c.order]) \in Operations
<1>1. FamilyOf[c.order] \in Families /\ Opposite(FamilyOf[c.order]) \in Families
  BY FamilyTyped, TwoFamilies
<1>2. Switching(s, FamilyOf[c.order]) \in BOOLEAN
  BY DEF Switching
<1>3. (Switching(s, FamilyOf[c.order]) /\ Reusable(s)) \in BOOLEAN
  BY DEF Switching, Reusable
<1> QED
  BY <1>1, <1>2, <1>3 DEF Prepared, Operations, ExecTypeOK

\* Another failure, within its bound.
LEMMA LossCounted ==
  ASSUME losses \in 0..MaxLosses, losses < MaxLosses, losses' = losses + 1
  PROVE  losses' \in 0..MaxLosses
BY BoundsAssumption

\* The actions of the client keep the types of Redis and of the client.
LEMMA ClientTypes ==
  ASSUME ExecTypeOK, Client \/ Exec
  PROVE  ExecTypeOK'
<1>1. CASE Commit
  <2>1. op \in Operations /\ op' \in Operations
    BY <1>1 DEF Commit, ExecTypeOK, Operations
  <2> QED
    BY <1>1, <2>1, CommittedTyped DEF Commit, ExecTypeOK
<1>2. CASE Confirm
  BY <1>2 DEF Confirm, ExecTypeOK, redisVars
<1>3. CASE PublishLost
  <2>1. /\ op # None /\ op' = None /\ answer' = "error" /\ connected' = FALSE
        /\ losses' \in 0..MaxLosses
    BY <1>3, LossCounted DEF PublishLost, ExecTypeOK
  <2>2. CASE UNCHANGED redisVars
    BY <2>1, <2>2 DEF ExecTypeOK, redisVars
  <2>3. CASE Committed
    BY <2>1, <2>3, CommittedTyped DEF ExecTypeOK
  <2> QED
    BY <1>3, <2>2, <2>3 DEF PublishLost
<1>4. CASE Reconnect \/ PingFails
  <2>1. losses' \in 0..MaxLosses
    BY <1>4, LossCounted DEF Reconnect, PingFails, ExecTypeOK
  <2> QED
    BY <1>4, <2>1 DEF Reconnect, PingFails, ExecTypeOK, redisVars
<1>5. CASE Exec
  <2>1. PICK s \in Strategies : ExecSwitches(s)
    BY <1>5 DEF Exec
  <2>2. switch[s] \in Switches
    BY <2>1 DEF ExecSwitches, ExecTypeOK
  <2>3. [switch[s] EXCEPT !.state = "completed"] \in Switches
    BY <2>2 DEF Switches
  <2>4. switch' \in [Strategies -> Switches \union {None}]
    BY <2>1, <2>3 DEF ExecSwitches, ExecTypeOK
  <2>5. switch[s].from \in Families /\ switch[s].to \in Families
    BY <2>2 DEF Switches
  <2>6. names' \in [Families -> SUBSET Strategies]
    BY <2>1, <2>5 DEF ExecSwitches, ExecTypeOK
  <2> QED
    BY <2>1, <2>4, <2>6 DEF ExecSwitches, ExecTypeOK, clientVars
<1> QED
  BY <1>1, <1>2, <1>3, <1>4, <1>5 DEF Client
\* The job at a binding, between its steps.
LEMMA JobAtBinding ==
  ASSUME JobShaped, job # None, job.stage # "next"
  PROVE  job.at \in Strategies /\ catalog[job.at] # None
BY DEF JobShaped

LEMMA KeepsExecTypes ==
  ASSUME TypeOK, JobShaped, [Next]_vars
  PROVE  ExecTypeOK'
<1>1. ExecTypeOK /\ CatalogTypeOK
  BY DEF TypeOK
<1>2. CASE PublishCurrent
  <2>1. job.at \in Strategies /\ Effective(job.at) \in Configs
    BY <1>1, <1>2, JobAtBinding, EffectiveTyped DEF PublishCurrent
  <2>2. CASE Publish(job.at, Effective(job.at))
    <3>1. Prepared(job.at, Effective(job.at), FamilyOf[Effective(job.at).order]) \in Operations
      BY <1>1, <2>1, PreparedTyped
    <3> HIDE DEF Effective
    <3>2. op' \in Operations \union {None} /\ answer' \in {None, "error"}
      BY <2>2, <3>1 DEF Publish
    <3> QED
      BY <1>1, <2>2, <3>2 DEF Publish, ExecTypeOK, redisVars
  <2>3. CASE Unreachable
    BY <1>1, <2>3 DEF Unreachable, ExecTypeOK, redisVars
  <2>4. CASE CheckRefuses
    <3>1. losses' \in 0..MaxLosses
      BY <1>1, <2>4, LossCounted DEF CheckRefuses, ExecTypeOK
    <3> QED
      BY <1>1, <2>4, <3>1 DEF CheckRefuses, ExecTypeOK, redisVars
  <2> QED
    BY <1>2, <2>2, <2>3, <2>4 DEF PublishCurrent
<1>3. CASE PublishAnswered
  BY <1>1, <1>3 DEF PublishAnswered, ExecTypeOK, redisVars
<1>4. CASE Disconnect \/ Crash
  <2>1. op' = None /\ answer' = None /\ connected' \in BOOLEAN
    BY <1>1, <1>4 DEF Disconnect, Crash, Orphaned, ExecTypeOK
  <2>2. losses' \in 0..MaxLosses
    BY <1>1, <1>4, LossCounted DEF Disconnect, Crash, ExecTypeOK
  <2>3. CASE UNCHANGED redisVars
    BY <1>1, <2>1, <2>2, <2>3 DEF ExecTypeOK, redisVars
  <2>4. CASE op # None /\ Committed
    BY <1>1, <2>1, <2>2, <2>4, CommittedTyped DEF ExecTypeOK
  <2> QED
    BY <1>4, <2>3, <2>4 DEF Disconnect, Crash, Orphaned
<1>5. CASE ArchiveFails
  <2>1. losses' \in 0..MaxLosses
    BY <1>1, <1>5, LossCounted DEF ArchiveFails, ExecTypeOK
  <2> QED
    BY <1>1, <1>5, <2>1 DEF ArchiveFails, ExecTypeOK, redisVars, clientVars
<1>6. CASE UNCHANGED <<redisVars, clientVars, losses>>
  BY <1>1, <1>6 DEF ExecTypeOK, redisVars, clientVars
<1>7. CASE Client \/ Exec
  BY <1>1, <1>7, ClientTypes
<1>8. CASE ArchiveBinding \/ Deliver \/ Configure
  BY <1>6, <1>8 DEF ArchiveBinding, Deliver, StartDelivery, TakeRow, FinishDelivery,
     Configure, SaveVirtual, Follow, BecomeIndependent, SaveOrder, EnqueueOrderFollowers,
     LateEnqueue, SaveBinding, DeleteBinding, PublishBinding
<1> QED
  BY <1>2, <1>3, <1>4, <1>5, <1>6, <1>7, <1>8 DEF Next, Perform, vars

\* The saves of the catalog keep its types.
LEMMA KeepsCatalogTypes ==
  ASSUME TypeOK, [Next]_vars
  PROVE  CatalogTypeOK'
<1>1. CatalogTypeOK
  BY DEF TypeOK
<1>2. ASSUME NEW v \in Virtuals, NEW t \in Templates, SaveVirtual(v, t)
      PROVE  CatalogTypeOK'
  <2>1. template' \in [Virtuals -> Templates] /\ UNCHANGED <<follows, orders>>
    BY <1>1, <1>2 DEF SaveVirtual, CatalogTypeOK
  <2>2. CASE follows[v] = None
    BY <1>1, <1>2, <2>1, <2>2 DEF SaveVirtual, CatalogTypeOK
  <2>3. CASE follows[v] # None
    <3>1. /\ Acceptable(follows, template')
          /\ Materialize(Combined(follows, template'), FALSE)
      BY <1>2, <2>3 DEF SaveVirtual
    <3> QED
      BY <1>1, <2>1, <3>1, CombinedTyped, Materialized DEF CatalogTypeOK
  <2> QED
    BY <2>2, <2>3
<1>3. ASSUME NEW fs \in [Virtuals -> 0..MaxMultiplier \union {None}], Follow(fs)
      PROVE  CatalogTypeOK'
  <2>1. /\ Acceptable(fs, template) /\ Materialize(Combined(fs, template), TRUE)
        /\ follows' = fs /\ UNCHANGED <<template, orders>>
    BY <1>3 DEF Follow
  <2>2. catalog' \in [Strategies -> Bindings \union {None}]
    BY <1>1, <2>1, CombinedTyped, Materialized DEF CatalogTypeOK
  <2> QED
    BY <1>1, <2>1, <2>2 DEF CatalogTypeOK
<1>4. CASE BecomeIndependent
  BY <1>1, <1>4 DEF BecomeIndependent, CatalogTypeOK
<1>5. ASSUME NEW o \in OrderNames, NEW c \in Orders, SaveOrder(o, c)
      PROVE  CatalogTypeOK'
  BY <1>1, <1>5 DEF SaveOrder, CatalogTypeOK
<1>6. ASSUME NEW b \in Strategies, NEW o \in OrderNames, NEW n \in 0..MaxShares,
             SaveBinding(b, o, n)
      PROVE  CatalogTypeOK'
  <2>1. [order |-> o, shares |-> n] \in Bindings
    BY DEF Bindings
  <2> QED
    BY <1>1, <1>6, <2>1 DEF SaveBinding, CatalogTypeOK
<1>7. ASSUME NEW b \in Strategies, DeleteBinding(b)
      PROVE  CatalogTypeOK'
  BY <1>1, <1>7 DEF DeleteBinding, CatalogTypeOK
<1>8. CASE UNCHANGED catalogVars
  BY <1>1, <1>8 DEF CatalogTypeOK, catalogVars
<1> QED
  BY <1>2, <1>3, <1>4, <1>5, <1>6, <1>7, <1>8 DEF Next, Configure, Deliver, StartDelivery,
     TakeRow, FinishDelivery, Perform, ArchiveBinding, ArchiveFails, PublishCurrent,
     PublishAnswered, Disconnect, Crash, EnqueueOrderFollowers, LateEnqueue,
     PublishBinding, vars
-----------------------------------------------------------------------------
(***************************************************************************)
(* Rows, revisions and jobs                                                 *)
(***************************************************************************)
\* There is a revision left for every row an action may queue.
LEMMA RoomForRows ==
  ASSUME QueueTypeOK, RevisionsCounted, NEW b \in Strategies
  PROVE  /\ Revision(b) \in Nat
         /\ edits < MaxEdits => Revision(b) < MaxEdits
         /\ Ordering => Revision(b) < MaxEdits
         /\ \A o \in late : Revision(b) < MaxEdits
<1>1. queue[b] \in Rows \union {None} /\ edits \in 0..MaxEdits
  BY DEF QueueTypeOK
<1>2. Revision(b) \in Nat
  BY <1>1 DEF Revision, Rows
<1>3. IsFiniteSet(late)
  BY DEF RevisionsCounted
<1>4. Cardinality(late) \in Nat /\ \A o \in late : Cardinality(late) >= 1
  BY <1>3, LateCounted
<1>5. Revision(b) + Cardinality(late) + (IF Ordering THEN 1 ELSE 0) <= edits
  BY DEF RevisionsCounted
<1>6. Ordering => Revision(b) + Cardinality(late) + 1 <= edits
  BY <1>5
<1>7. ~Ordering => Revision(b) + Cardinality(late) <= edits
  BY <1>2, <1>4, <1>5
<1> QED
  BY <1>1, <1>2, <1>4, <1>6, <1>7, BoundsAssumption

\* What the commit of a delivery makes of a row.
LEMMA SettledRow ==
  ASSUME QueueTypeOK, DeliveryShaped, job # None, job.kind = "deliver",
         NEW b \in Strategies
  PROVE  /\ Settled(b) \in Rows \union {None}
         /\ Settled(b) # None =>
              /\ queue[b] # None /\ Settled(b).rev = queue[b].rev
              /\ Settled(b).archived => queue[b].archived \/ job.seen[b].archived
         /\ Settled(b) = None => queue[b] = None \/ job.done[b] = "deleted"
<1>1. queue[b] \in Rows \union {None} /\ job \in Jobs
  BY DEF QueueTypeOK
<1>2. job.done[b] \in Outcomes /\ job.seen[b] \in Rows \union {None}
  BY <1>1 DEF Jobs
<1>3. job.done[b] # "pending" => queue[b] # None /\ job.seen[b] # None
  BY DEF DeliveryShaped
<1>4. job.done[b] = "archived" => job.seen[b].archived
  BY DEF DeliveryShaped
<1>5. CASE job.done[b] = "deleted"
  BY <1>5 DEF Settled
<1>6. CASE job.done[b] \in {"archived", "failed"}
  <2>1. PICK a \in BOOLEAN : /\ Settled(b) = [queue[b] EXCEPT !.archived = a]
                             /\ a => job.seen[b].archived
    <3>1. CASE job.done[b] = "archived"
      BY <1>4, <3>1 DEF Settled
    <3>2. CASE job.done[b] = "failed"
      <4>1. job.seen[b].archived \in BOOLEAN
        BY <1>2, <1>3, <3>2 DEF Rows
      <4> QED
        BY <3>2, <4>1 DEF Settled
    <3> QED
      BY <1>6, <3>1, <3>2
  <2>2. queue[b] \in Rows
    BY <1>1, <1>3, <1>6
  <2>3. Settled(b) \in Rows /\ Settled(b).rev = queue[b].rev /\ Settled(b).archived = a
    BY <2>1, <2>2 DEF Rows
  <2> QED
    BY <1>3, <1>6, <2>1, <2>3, NoneAssumption
<1>7. CASE job.done[b] = "pending"
  BY <1>1, <1>7 DEF Settled
<1> QED
  BY <1>2, <1>5, <1>6, <1>7 DEF Outcomes

\* The job after one row, or after a publish by hand.
LEMMA AnsweredJob ==
  ASSUME QueueTypeOK, JobShaped, job # None, job.stage # "next",
         NEW outcome \in Outcomes, Answered(outcome)
  PROVE  /\ job' \in Jobs \union {None}
         /\ job.kind \in {"publish", "deliver"}
         /\ job.kind = "publish" => job' = None
         /\ job.kind = "deliver" =>
              /\ job' # None /\ job'.kind = "deliver"
              /\ job'.at = None /\ job'.stage = "next"
              /\ job'.seen = job.seen /\ job'.todo = job.todo
              /\ job'.done = [job.done EXCEPT ![job.at] = RowAfter(job.at, outcome)]
<1>1. job \in Jobs /\ job.kind # "order"
  BY DEF QueueTypeOK, JobShaped
<1>2. job.kind \in {"publish", "deliver"}
  BY <1>1 DEF Jobs
<1>3. RowAfter(job.at, outcome) \in Outcomes
  BY DEF RowAfter, Outcomes
<1>4. CASE job.kind = "publish"
  BY <1>4 DEF Answered
<1>5. CASE job.kind = "deliver"
  <2>1. job' = [job EXCEPT !.at = None, !.stage = "next",
                  !.done[job.at] = RowAfter(job.at, outcome)]
    BY <1>5 DEF Answered
  <2>2. /\ job'.kind = "deliver" /\ job'.at = None /\ job'.stage = "next"
        /\ job'.seen = job.seen /\ job'.todo = job.todo
        /\ job'.done = [job.done EXCEPT ![job.at] = RowAfter(job.at, outcome)]
    BY <1>1, <1>5, <2>1 DEF Jobs
  <2>3. [job.done EXCEPT ![job.at] = RowAfter(job.at, outcome)] \in [Strategies -> Outcomes]
    BY <1>1, <1>3 DEF Jobs
  <2>4. job' \in Jobs
    BY <1>1, <1>5, <2>1, <2>3 DEF Jobs
  <2> QED
    BY <1>5, <2>2, <2>4, NoneAssumption
<1> QED
  BY <1>2, <1>4, <1>5

\* The job of a delivery at a row it takes, and of a job that archives.
LEMMA TakenJob ==
  ASSUME QueueTypeOK, NEW b \in Strategies, TakeRow(b)
  PROVE  /\ job # None /\ job.kind = "deliver" /\ job.stage = "next" /\ b \in job.todo
         /\ job' \in Jobs /\ job' # None /\ job'.kind = "deliver" /\ job'.at = b
         /\ job'.stage = IF job.seen[b].archived THEN "publish" ELSE "archive"
         /\ job'.seen = job.seen /\ job'.todo = job.todo \ {b} /\ job'.done = job.done
<1>1. job \in Jobs /\ job # None /\ job.kind = "deliver" /\ job.stage = "next" /\ b \in job.todo
  BY DEF QueueTypeOK, TakeRow, Delivering
<1> DEFINE stage == IF job.seen[b].archived THEN "publish" ELSE "archive"
<1>2. job' = [job EXCEPT !.at = b, !.todo = job.todo \ {b}, !.stage = stage]
  BY DEF TakeRow
<1>3. stage \in {"publish", "archive"}
  OBVIOUS
<1> HIDE DEF stage
<1>4. job' \in Jobs
  BY <1>1, <1>2, <1>3 DEF Jobs
<1>5. /\ job'.kind = "deliver" /\ job'.at = b /\ job'.stage = stage
      /\ job'.seen = job.seen /\ job'.todo = job.todo \ {b} /\ job'.done = job.done
  BY <1>1, <1>2 DEF Jobs
<1> QED
  BY <1>1, <1>4, <1>5, NoneAssumption DEF stage

LEMMA ArchivedJob ==
  ASSUME QueueTypeOK, JobShaped, DeliveryShaped, ArchiveBinding
  PROVE  /\ job # None /\ job.stage = "archive" /\ job.at \in Strategies
         /\ job' \in Jobs /\ job' # None /\ job'.kind = job.kind /\ job'.at = job.at
         /\ job'.stage = "publish" /\ job'.todo = job.todo /\ job'.done = job.done
         /\ job.kind # "deliver" => job'.seen = job.seen
         /\ job.kind = "deliver" =>
              /\ job'.seen[job.at] # None /\ job'.seen[job.at].archived
              /\ job'.seen[job.at].rev = job.seen[job.at].rev
              /\ \A b \in Strategies \ {job.at} : job'.seen[b] = job.seen[b]
<1>1. job \in Jobs /\ job # None /\ job.stage = "archive" /\ job.at \in Strategies
  BY JobAtBinding DEF QueueTypeOK, ArchiveBinding
<1>2. CASE job.kind # "deliver"
  <2>1. job' = [job EXCEPT !.stage = "publish", !.seen = job.seen]
    BY <1>2 DEF ArchiveBinding
  <2> QED
    BY <1>1, <1>2, <2>1, NoneAssumption DEF Jobs
<1>3. CASE job.kind = "deliver"
  <2> DEFINE row == [job.seen[job.at] EXCEPT !.archived = TRUE]
             seen == [job.seen EXCEPT ![job.at] = row]
  <2>1. job' = [job EXCEPT !.stage = "publish", !.seen = seen]
    BY <1>3 DEF ArchiveBinding
  <2>2. job.seen[job.at] \in Rows
    BY <1>1, <1>3 DEF DeliveryShaped, Jobs
  <2>3. row \in Rows /\ row.archived /\ row.rev = job.seen[job.at].rev
    BY <2>2 DEF Rows
  <2>4. job.seen \in [Strategies -> Rows \union {None}]
    BY <1>1 DEF Jobs
  <2> HIDE DEF row
  <2>5. /\ seen \in [Strategies -> Rows \union {None}] /\ seen[job.at] = row
        /\ \A b \in Strategies \ {job.at} : seen[b] = job.seen[b]
    BY <1>1, <2>3, <2>4
  <2> HIDE DEF seen
  <2> QED
    BY <1>1, <1>3, <2>1, <2>3, <2>5, NoneAssumption DEF Jobs
<1> QED
  BY <1>2, <1>3
LEMMA StartedJob ==
  ASSUME QueueTypeOK, StartDelivery
  PROVE  /\ job = None /\ job' \in Jobs /\ job' # None /\ job'.kind = "deliver"
         /\ job'.at = None /\ job'.stage = "next" /\ job'.seen = queue
         /\ job'.todo = Queued /\ job'.done = NoOutcome
<1> DEFINE start == Job("deliver", None, "next")
<1>1. start \in Jobs /\ start.kind = "deliver" /\ start.at = None /\ start.stage = "next"
      /\ start.done = NoOutcome
  BY JobTyped, JobFields
<1>2. job' = [start EXCEPT !.seen = queue, !.todo = Queued] /\ job = None
  BY DEF StartDelivery
<1>3. Queued \subseteq Strategies
  BY DEF Queued
<1> HIDE DEF start
<1>4. job' \in Jobs
  BY <1>1, <1>2, <1>3 DEF Jobs, QueueTypeOK
<1>5. /\ job'.kind = "deliver" /\ job'.at = None /\ job'.stage = "next"
      /\ job'.seen = queue /\ job'.todo = Queued /\ job'.done = NoOutcome
  BY <1>1, <1>2 DEF Jobs
<1> QED
  BY <1>2, <1>4, <1>5, NoneAssumption

\* The job moves to the answer of its publish.
LEMMA PublishingJob ==
  ASSUME QueueTypeOK, PublishCurrent
  PROVE  /\ job # None /\ job.stage = "publish"
         /\ job' \in Jobs /\ job' # None /\ job'.kind = job.kind /\ job'.at = job.at
         /\ job'.stage = "wait" /\ job'.seen = job.seen
         /\ job'.todo = job.todo /\ job'.done = job.done
BY NoneAssumption DEF PublishCurrent, QueueTypeOK, Jobs

\* What every step makes of the queue.
LEMMA KeepsQueueType ==
  ASSUME CatalogInv, [Next]_vars
  PROVE  queue' \in [Strategies -> Rows \union {None}]
<1>1. QueueTypeOK /\ CatalogTypeOK /\ RevisionsCounted /\ DeliveryShaped
  BY DEF CatalogInv, TypeOK
<1>2. ASSUME NEW bs \in SUBSET Strategies, queue' = Enqueue(bs),
             edits < MaxEdits \/ Ordering \/ late # {}
      PROVE  queue' \in [Strategies -> Rows \union {None}]
  BY <1>1, <1>2, RoomForRows, Enqueued
<1>3. \A desired, force : ChangedBy(desired, force) \subseteq Strategies
  BY DEF ChangedBy
<1>4. \A o : Users(o) \subseteq Strategies
  BY DEF Users
<1>5. CASE UNCHANGED queue
  BY <1>1, <1>5 DEF QueueTypeOK
<1>6. ASSUME NEW v \in Virtuals, NEW t \in Templates, SaveVirtual(v, t)
      PROVE  queue' \in [Strategies -> Rows \union {None}]
  BY <1>2, <1>3, <1>5, <1>6 DEF SaveVirtual, Edit, Materialize
<1>7. ASSUME NEW fs, Follow(fs)
      PROVE  queue' \in [Strategies -> Rows \union {None}]
  BY <1>2, <1>3, <1>7 DEF Follow, Edit, Materialize
<1>8. CASE EnqueueOrderFollowers
  BY <1>2, <1>4, <1>8 DEF EnqueueOrderFollowers, Ordering
<1>9. ASSUME NEW o \in OrderNames, LateEnqueue(o)
      PROVE  queue' \in [Strategies -> Rows \union {None}]
  BY <1>2, <1>4, <1>9 DEF LateEnqueue
<1>10. CASE FinishDelivery
  BY <1>1, <1>10, SettledRow DEF FinishDelivery, Delivering
<1>11. CASE Client /\ UNCHANGED <<catalogVars, queueVars, job, edits>>
  BY <1>5, <1>11 DEF queueVars
<1>12. CASE Exec /\ UNCHANGED <<catalogVars, queueVars, job, edits>>
  BY <1>5, <1>12 DEF queueVars
<1>13. CASE Disconnect \/ Crash
  BY <1>5, <1>13 DEF Disconnect, Crash
<1>14. CASE Perform
  BY <1>5, <1>14 DEF Perform, ArchiveBinding, ArchiveFails, PublishCurrent,
     PublishAnswered, queueVars
<1>15. CASE StartDelivery \/ \E b \in Strategies : TakeRow(b)
  BY <1>5, <1>15 DEF StartDelivery, TakeRow, queueVars
<1>16. CASE UNCHANGED vars
  BY <1>5, <1>16 DEF vars, queueVars
<1>17. CASE \/ BecomeIndependent
            \/ \E o \in OrderNames, c \in Orders : SaveOrder(o, c)
            \/ \E b \in Strategies, o \in OrderNames, n \in 0..MaxShares :
                 SaveBinding(b, o, n)
            \/ \E b \in Strategies : DeleteBinding(b) \/ PublishBinding(b)
  BY <1>5, <1>17 DEF BecomeIndependent, SaveOrder, SaveBinding, DeleteBinding,
     PublishBinding, queueVars
<1> QED
  BY <1>6, <1>7, <1>8, <1>9, <1>10, <1>11, <1>12, <1>13, <1>14, <1>15, <1>16, <1>17
     DEF Next, Deliver, Configure

\* What every step makes of the job.
LEMMA KeepsJobType ==
  ASSUME CatalogInv, [Next]_vars
  PROVE  job' \in Jobs \union {None}
<1>1. QueueTypeOK /\ CatalogTypeOK /\ JobShaped /\ DeliveryShaped
  BY DEF CatalogInv, TypeOK
<1>2. CASE job' = None
  BY <1>2
<1>3. CASE UNCHANGED job
  BY <1>1, <1>3 DEF QueueTypeOK
<1>4. CASE Deliver
  BY <1>1, <1>2, <1>4, StartedJob, TakenJob DEF Deliver, FinishDelivery
<1>5. CASE ArchiveBinding \/ PublishCurrent
  BY <1>1, <1>5, ArchivedJob, PublishingJob
<1>6. CASE ArchiveFails \/ PublishAnswered
  <2>1. PICK outcome \in Outcomes : Answered(outcome)
    BY <1>6 DEF ArchiveFails, PublishAnswered, Outcomes
  <2>2. job # None /\ job.stage # "next"
    BY <1>6 DEF ArchiveFails, PublishAnswered
  <2> QED
    BY <1>1, <2>1, <2>2, AnsweredJob
<1>7. ASSUME NEW o \in OrderNames, NEW c \in Orders, SaveOrder(o, c)
      PROVE  job' \in Jobs
  BY <1>7, JobTyped DEF SaveOrder
<1>8. ASSUME NEW b \in Strategies, NEW o \in OrderNames, NEW n \in 0..MaxShares,
             SaveBinding(b, o, n)
      PROVE  job' \in Jobs \union {None}
  BY <1>8, JobTyped DEF SaveBinding
<1>9. ASSUME NEW b \in Strategies, PublishBinding(b)
      PROVE  job' \in Jobs
  <2>1. CASE job' = Job("publish", b, "archive")
    BY <2>1, JobTyped
  <2>2. CASE job' = Job("publish", b, "publish")
    BY <2>2, JobTyped
  <2> QED
    BY <1>9, <2>1, <2>2 DEF PublishBinding
<1> QED
  BY <1>2, <1>3, <1>4, <1>5, <1>6, <1>7, <1>8, <1>9 DEF Next, Perform, Configure,
     SaveVirtual, Follow, BecomeIndependent, EnqueueOrderFollowers, LateEnqueue,
     DeleteBinding, Disconnect, Crash, vars
\* What every step makes of the rest of the queue's state.
LEMMA KeepsCounters ==
  ASSUME CatalogInv, [Next]_vars
  PROVE  /\ archive' \in [Strategies -> 0..MaxShares \union {None}]
         /\ late' \subseteq OrderNames /\ unqueued' \subseteq Strategies
         /\ edits' \in 0..MaxEdits
<1>1. QueueTypeOK /\ CatalogTypeOK /\ JobShaped
  BY DEF CatalogInv, TypeOK
<1>2. Edit => edits' \in 0..MaxEdits
  BY <1>1, BoundsAssumption DEF Edit, QueueTypeOK
<1>3. \A o : Users(o) \subseteq Strategies
  BY DEF Users
<1>4. OrderAbandoned => late' \subseteq OrderNames /\ unqueued' \subseteq Strategies
  BY <1>1, <1>3 DEF OrderAbandoned, QueueTypeOK, JobShaped
<1>5. CASE ArchiveBinding
  <2>1. catalog[job.at] \in Bindings
    BY <1>1, <1>5, JobAtBinding DEF ArchiveBinding, CatalogTypeOK
  <2> QED
    BY <1>1, <1>5, <2>1 DEF ArchiveBinding, QueueTypeOK, Bindings
<1>6. CASE Disconnect \/ Crash
  BY <1>1, <1>4, <1>6 DEF Disconnect, Crash, QueueTypeOK
<1>7. CASE UNCHANGED <<queueVars, edits>>
  BY <1>1, <1>7 DEF queueVars, QueueTypeOK
<1>8. CASE PublishAnswered
  BY <1>1, <1>8 DEF PublishAnswered, QueueTypeOK
<1>9. CASE Deliver \/ ArchiveFails \/ PublishCurrent
  BY <1>1, <1>9 DEF Deliver, StartDelivery, TakeRow, FinishDelivery, ArchiveFails,
     PublishCurrent, QueueTypeOK, queueVars
<1>10. CASE Configure
  BY <1>1, <1>2, <1>10 DEF Configure, SaveVirtual, Follow, BecomeIndependent, SaveOrder,
     EnqueueOrderFollowers, LateEnqueue, SaveBinding, DeleteBinding, PublishBinding,
     QueueTypeOK, queueVars
<1> QED
  BY <1>5, <1>6, <1>7, <1>8, <1>9, <1>10 DEF Next, Perform, vars, queueVars

LEMMA KeepsTypes ==
  ASSUME CatalogInv, [Next]_vars
  PROVE  TypeOK'
<1>1. TypeOK /\ JobShaped
  BY DEF CatalogInv
<1> QED
  BY <1>1, KeepsExecTypes, KeepsCatalogTypes, KeepsQueueType, KeepsJobType, KeepsCounters
     DEF TypeOK, QueueTypeOK
-----------------------------------------------------------------------------
(***************************************************************************)
(* Every revision of a row has its edit                                     *)
(***************************************************************************)
\* Rows are queued by an edit, or by the statement of an earlier one.
LEMMA QueueSteps ==
  ASSUME CatalogInv, [Next]_vars
  PROVE  \/ UNCHANGED queue
         \/ job # None /\ job.kind = "deliver" /\ FinishDelivery
         \/ EnqueueOrderFollowers
         \/ \E o \in OrderNames : LateEnqueue(o)
         \/ Edit /\ \E bs \in SUBSET Strategies : queue' = Enqueue(bs)
<1>1. \A desired, force : ChangedBy(desired, force) \subseteq Strategies
  BY DEF ChangedBy
<1>2. ASSUME NEW v \in Virtuals, NEW t \in Templates, SaveVirtual(v, t)
      PROVE  \/ UNCHANGED queue
             \/ Edit /\ \E bs \in SUBSET Strategies : queue' = Enqueue(bs)
  <2>1. CASE follows[v] = None
    BY <1>2, <2>1 DEF SaveVirtual
  <2>2. CASE follows[v] # None
    <3>1. PICK ts : Edit /\ Materialize(Combined(follows, ts), FALSE)
      BY <1>2, <2>2 DEF SaveVirtual
    <3> QED
      BY <1>1, <3>1 DEF Materialize
  <2> QED
    BY <2>1, <2>2
<1>3. ASSUME NEW fs, Follow(fs)
      PROVE  Edit /\ \E bs \in SUBSET Strategies : queue' = Enqueue(bs)
  BY <1>1, <1>3 DEF Follow, Materialize
<1>4. FinishDelivery => job # None /\ job.kind = "deliver"
  BY DEF FinishDelivery, Delivering
<1>5. CASE Configure
  BY <1>2, <1>3, <1>5 DEF Configure, BecomeIndependent, SaveOrder, SaveBinding,
     DeleteBinding, PublishBinding, queueVars
<1>6. CASE Deliver
  BY <1>4, <1>6 DEF Deliver, StartDelivery, TakeRow, queueVars
<1> QED
  BY <1>5, <1>6 DEF Next, Perform, ArchiveBinding, ArchiveFails, PublishCurrent,
     PublishAnswered, Disconnect, Crash, queueVars, vars

\* The last revision of a row, after a step.
LEMMA RevisionSteps ==
  ASSUME CatalogInv, [Next]_vars, NEW b \in Strategies
  PROVE  /\ Revision(b) \in Nat /\ Revision(b)' \in Nat
         /\ Revision(b)' <= Revision(b) + 1
         /\ \/ Revision(b)' <= Revision(b)
            \/ Edit \/ EnqueueOrderFollowers \/ \E o \in OrderNames : LateEnqueue(o)
<1>1. QueueTypeOK /\ RevisionsCounted /\ DeliveryShaped
  BY DEF CatalogInv, TypeOK
<1>2. queue' \in [Strategies -> Rows \union {None}]
  BY KeepsQueueType
<1>3. Revision(b) \in Nat /\ Revision(b)' \in Nat
  BY <1>1, <1>2 DEF Revision, Rows, QueueTypeOK
<1>4. ASSUME NEW bs \in SUBSET Strategies, queue' = Enqueue(bs)
      PROVE  Revision(b)' <= Revision(b) + 1
  <2>1. CASE b \in bs
    BY <1>2, <1>3, <1>4, <2>1 DEF Enqueue, Requeued, Revision
  <2>2. CASE b \notin bs
    BY <1>3, <1>4, <2>2 DEF Enqueue, Revision
  <2> QED
    BY <2>1, <2>2
<1>5. \A o : Users(o) \in SUBSET Strategies
  BY DEF Users
<1>6. CASE UNCHANGED queue
  BY <1>3, <1>6 DEF Revision
<1>7. CASE job # None /\ job.kind = "deliver" /\ FinishDelivery
  <2>1. queue'[b] = Settled(b)
    BY <1>7 DEF FinishDelivery
  <2>2. queue'[b] # None => queue[b] # None /\ queue'[b].rev = queue[b].rev
    BY <1>1, <1>7, <2>1, SettledRow
  <2> QED
    BY <1>3, <2>2 DEF Revision
<1>8. CASE EnqueueOrderFollowers
  BY <1>3, <1>4, <1>5, <1>8 DEF EnqueueOrderFollowers
<1>9. ASSUME NEW o \in OrderNames, LateEnqueue(o)
      PROVE  Revision(b)' <= Revision(b) + 1
  BY <1>4, <1>5, <1>9 DEF LateEnqueue
<1> QED
  BY <1>3, <1>4, <1>6, <1>7, <1>8, <1>9, QueueSteps

LEMMA KeepsRevisions ==
  ASSUME CatalogInv, [Next]_vars
  PROVE  RevisionsCounted'
<1> DEFINE P == IF Ordering THEN 1 ELSE 0
           C == Cardinality(late)
<1>1. QueueTypeOK /\ RevisionsCounted /\ JobShaped /\ DeliveryShaped
  BY DEF CatalogInv, TypeOK
<1>2. IsFiniteSet(late)
  BY <1>1 DEF RevisionsCounted
<1>3. C \in Nat /\ edits \in Nat /\ P \in {0, 1} /\ P' \in {0, 1}
  BY <1>1, <1>2, FS_CardinalityType DEF QueueTypeOK
<1>4. \A b \in Strategies : Revision(b) + C + P <= edits
  BY <1>1 DEF RevisionsCounted
<1>5. job = None => P = 0
  BY DEF Ordering
<1>6. job # None /\ job.kind # "order" => P = 0
  BY DEF Ordering
<1>7. job' = None \/ job'.kind # "order" => P' = 0
  BY DEF Ordering
<1> SUFFICES IsFiniteSet(late') /\ \A b \in Strategies : Revision(b)' + C' + P' <= edits'
  BY DEF RevisionsCounted
<1> HIDE DEF P, C
<1>8. CASE Edit /\ UNCHANGED late
  <2>1. C' = C /\ P = 0 /\ edits' = edits + 1 /\ IsFiniteSet(late')
    BY <1>2, <1>5, <1>8 DEF C, Edit
  <2>2. CASE P' = 0
    BY <1>3, <1>4, <2>1, <2>2, RevisionSteps
  <2>3. CASE P' # 0
    <3>1. job' # None /\ job'.kind = "order"
      BY <1>7, <2>3
    <3>2. \A b \in Strategies : Revision(b)' <= Revision(b)
      <4>1. \A o, c : SaveOrder(o, c) => UNCHANGED queue
        BY DEF SaveOrder, queueVars
      <4>2. \A b, o, n : ~SaveBinding(b, o, n)
        BY <3>1, JobFields DEF SaveBinding
      <4>3. \A b : ~PublishBinding(b)
        BY <3>1, JobFields DEF PublishBinding
      <4>4. UNCHANGED queue
        BY <1>8, <3>1, <4>1, <4>2, <4>3 DEF Edit, Next, Client, Commit, Confirm, PublishLost,
           Reconnect, PingFails, Exec, Deliver, Delivering, StartDelivery, TakeRow,
           FinishDelivery, Perform, ArchiveBinding, ArchiveFails, PublishCurrent,
           PublishAnswered, Disconnect, Crash, Configure, SaveVirtual, Follow,
           BecomeIndependent, EnqueueOrderFollowers, LateEnqueue, DeleteBinding, vars,
           queueVars
      <4> QED
        BY <4>4, RevisionSteps DEF Revision
    <3> QED
      BY <1>3, <1>4, <2>1, <3>2, RevisionSteps
  <2> QED
    BY <2>2, <2>3
<1>9. CASE EnqueueOrderFollowers
  <2>1. C' = C /\ P = 1 /\ P' = 0 /\ edits' = edits /\ IsFiniteSet(late')
    BY <1>2, <1>7, <1>9 DEF C, P, EnqueueOrderFollowers, Ordering
  <2> QED
    BY <1>3, <1>4, <2>1, RevisionSteps
<1>10. ASSUME NEW o \in OrderNames, LateEnqueue(o)
       PROVE  IsFiniteSet(late') /\ \A b \in Strategies : Revision(b)' + C' + P' <= edits'
  <2>1. late' = late \ {o} /\ o \in late /\ UNCHANGED <<job, edits>>
    BY <1>10 DEF LateEnqueue
  <2>2. C' = C - 1 /\ IsFiniteSet(late')
    BY <1>2, <2>1, LateCounted DEF C
  <2>3. P' = P
    BY <2>1 DEF P, Ordering
  <2> QED
    BY <1>3, <1>4, <2>1, <2>2, <2>3, RevisionSteps
<1>11. CASE Disconnect \/ Crash
  <2>1. P' = 0 /\ UNCHANGED <<queue, edits>> /\ OrderAbandoned
    BY <1>7, <1>11 DEF Disconnect, Crash
  <2>2. CASE UNCHANGED late
    BY <1>2, <1>3, <1>4, <2>1, <2>2, RevisionSteps DEF C, Revision
  <2>3. CASE Ordering /\ late' = late \union {job.at}
    <3>1. IsFiniteSet(late') /\ C' \in C..C + 1
      BY <1>2, <2>3, LateCounted DEF C
    <3>2. P = 1
      BY <2>3 DEF P
    <3>3. \A b \in Strategies : Revision(b)' = Revision(b)
      BY <2>1 DEF Revision
    <3> QED
      BY <1>3, <1>4, <2>1, <3>1, <3>2, <3>3, RevisionSteps
  <2> QED
    BY <2>1, <2>2, <2>3 DEF OrderAbandoned, Ordering
<1>12. ASSUME UNCHANGED <<late, edits>>, P' <= P,
              \A b \in Strategies : Revision(b)' <= Revision(b)
       PROVE  IsFiniteSet(late') /\ \A b \in Strategies : Revision(b)' + C' + P' <= edits'
  <2>1. C' = C /\ IsFiniteSet(late')
    BY <1>2, <1>12 DEF C
  <2> QED
    BY <1>3, <1>4, <1>12, <2>1, RevisionSteps
<1>13. CASE Deliver
  <2>1. P' = 0
    BY <1>1, <1>7, <1>13, StartedJob, TakenJob DEF Deliver, FinishDelivery
  <2>2. ~Edit /\ ~EnqueueOrderFollowers /\ \A o \in OrderNames : ~LateEnqueue(o)
    <3>1. UNCHANGED <<edits, late>> /\ edits \in Nat
      BY <1>3, <1>13 DEF Deliver, StartDelivery, TakeRow, FinishDelivery, queueVars
    <3>2. job # None => job.kind = "deliver"
      BY <1>13 DEF Deliver, StartDelivery, TakeRow, FinishDelivery, Delivering
    <3> QED
      BY <3>1, <3>2 DEF Edit, EnqueueOrderFollowers, LateEnqueue
  <2>3. UNCHANGED <<late, edits>>
    BY <1>13 DEF Deliver, StartDelivery, TakeRow, FinishDelivery, queueVars
  <2> QED
    BY <1>3, <1>12, <2>1, <2>2, <2>3, RevisionSteps
<1>14. CASE UNCHANGED <<queue, late, edits>> /\ P' <= P
  BY <1>12, <1>14, RevisionSteps DEF Revision
<1>15. CASE Perform
  <2>1. UNCHANGED <<queue, late, edits>>
    BY <1>15 DEF Perform, ArchiveBinding, ArchiveFails, PublishCurrent, PublishAnswered,
       queueVars
  <2>2. P' = 0
    <3>1. CASE ArchiveBinding \/ PublishCurrent
      <4>1. job # None /\ job.stage # "next" /\ job' # None /\ job'.kind = job.kind
        BY <1>1, <3>1, ArchivedJob, PublishingJob
      <4>2. job.kind # "order"
        BY <1>1, <4>1 DEF JobShaped
      <4> QED
        BY <1>7, <4>1, <4>2
    <3>2. CASE ArchiveFails \/ PublishAnswered
      <4>1. PICK outcome \in Outcomes : Answered(outcome)
        BY <3>2 DEF ArchiveFails, PublishAnswered, Outcomes
      <4>2. job # None /\ job.stage # "next"
        BY <3>2 DEF ArchiveFails, PublishAnswered
      <4> QED
        BY <1>1, <1>7, <4>1, <4>2, AnsweredJob
    <3> QED
      BY <1>15, <3>1, <3>2 DEF Perform
  <2> QED
    BY <1>3, <1>14, <2>1, <2>2
<1>16. CASE UNCHANGED <<queueVars, job, edits>>
  <2>1. P' = P
    BY <1>16 DEF P, Ordering
  <2> QED
    BY <1>3, <1>14, <1>16, <2>1 DEF queueVars
<1>17. CASE Configure
  BY <1>8, <1>9, <1>10, <1>17 DEF Configure, SaveVirtual, Follow, BecomeIndependent,
     SaveOrder, SaveBinding, DeleteBinding, PublishBinding, queueVars
<1> QED
  BY <1>11, <1>13, <1>15, <1>16, <1>17 DEF Next, vars
-----------------------------------------------------------------------------
(***************************************************************************)
(* The shares of a following account                                        *)
(***************************************************************************)
\* Templates the account does not follow have no part in its bindings.
LEMMA OthersDoNotMatter ==
  ASSUME NEW fs, NEW ts, NEW us,
         \A v \in Virtuals : fs[v] # None => us[v] = ts[v]
  PROVE  Combined(fs, us) = Combined(fs, ts)
<1>1. ASSUME NEW b \in Strategies
      PROVE  /\ Contributors(fs, us, b) = Contributors(fs, ts, b)
             /\ \A v \in Contributors(fs, ts, b) : us[v] = ts[v]
  BY DEF Contributors
<1>2. ASSUME NEW b \in Strategies
      PROVE  Shares(fs, us, b) = Shares(fs, ts, b)
  <2>1. [v \in Contributors(fs, us, b) |-> us[v][b].shares * fs[v]]
          = [v \in Contributors(fs, ts, b) |-> ts[v][b].shares * fs[v]]
    BY <1>1
  <2> QED
    BY <2>1 DEF Shares
<1>3. ASSUME NEW b \in Strategies, Contributors(fs, ts, b) # {}
      PROVE  us[CHOOSE v \in Contributors(fs, us, b) : TRUE]
               = ts[CHOOSE v \in Contributors(fs, ts, b) : TRUE]
  <2>1. PICK v \in Contributors(fs, ts, b) : v = CHOOSE w \in Contributors(fs, ts, b) : TRUE
    BY <1>3
  <2> QED
    BY <1>1, <2>1
<1>4. ASSUME NEW b \in Strategies
      PROVE  (IF Contributors(fs, us, b) = {} THEN None
              ELSE [order |-> us[CHOOSE v \in Contributors(fs, us, b) : TRUE][b].order,
                    shares |-> Shares(fs, us, b)])
           = (IF Contributors(fs, ts, b) = {} THEN None
              ELSE [order |-> ts[CHOOSE v \in Contributors(fs, ts, b) : TRUE][b].order,
                    shares |-> Shares(fs, ts, b)])
  BY <1>1, <1>2, <1>3
<1> QED
  BY <1>4 DEF Combined

LEMMA KeepsEffectiveShares ==
  ASSUME CatalogInv, [Next]_vars
  PROVE  EffectiveShares'
<1>1. CatalogTypeOK /\ EffectiveShares
  BY DEF CatalogInv, TypeOK
<1>2. ASSUME NEW v \in Virtuals, NEW t \in Templates, SaveVirtual(v, t)
      PROVE  EffectiveShares'
  <2>1. /\ template' = [template EXCEPT ![v] = t] /\ UNCHANGED follows
    BY <1>2 DEF SaveVirtual
  <2>2. template' \in [Virtuals -> Templates]
    BY <1>1, <2>1 DEF CatalogTypeOK
  <2>3. CASE follows[v] = None
    <3>1. UNCHANGED catalog
      BY <1>2, <2>3 DEF SaveVirtual
    <3>2. \A w \in Virtuals : follows[w] # None => template'[w] = template[w]
      BY <1>1, <2>1, <2>3 DEF CatalogTypeOK
    <3>3. Combined(follows, template') = Combined(follows, template)
      BY <3>2, OthersDoNotMatter
    <3> QED
      BY <1>1, <2>1, <3>1, <3>3 DEF EffectiveShares, Following
  <2>4. CASE follows[v] # None
    <3>1. /\ Acceptable(follows, template')
          /\ Materialize(Combined(follows, template'), FALSE)
      BY <1>2, <2>4 DEF SaveVirtual
    <3>2. Combined(follows, template') \in [Strategies -> Bindings \union {None}]
      BY <2>2, <3>1, CombinedTyped
    <3> QED
      BY <1>1, <2>1, <3>1, <3>2, Materialized DEF EffectiveShares
  <2> QED
    BY <2>3, <2>4
<1>3. ASSUME NEW fs, Follow(fs)
      PROVE  EffectiveShares'
  <2>1. /\ Acceptable(fs, template) /\ Materialize(Combined(fs, template), TRUE)
        /\ follows' = fs /\ UNCHANGED template
    BY <1>3 DEF Follow
  <2>2. Combined(fs, template) \in [Strategies -> Bindings \union {None}]
    BY <1>1, <2>1, CombinedTyped DEF CatalogTypeOK
  <2> QED
    BY <1>1, <2>1, <2>2, Materialized DEF EffectiveShares
<1>4. CASE BecomeIndependent
  BY <1>4 DEF BecomeIndependent, EffectiveShares, Following
<1>5. CASE UNCHANGED <<follows, template, catalog>>
  BY <1>1, <1>5 DEF EffectiveShares, Following
<1>6. CASE ~Following /\ UNCHANGED follows
  BY <1>6 DEF EffectiveShares, Following
<1>7. CASE Deliver \/ Perform
  BY <1>5, <1>7 DEF Deliver, StartDelivery, TakeRow, FinishDelivery, Perform,
     ArchiveBinding, ArchiveFails, PublishCurrent, PublishAnswered, catalogVars
<1>8. CASE Configure
  BY <1>2, <1>3, <1>4, <1>5, <1>6, <1>8 DEF Configure, SaveOrder, EnqueueOrderFollowers,
     LateEnqueue, SaveBinding, DeleteBinding, PublishBinding, MayEditBindings, catalogVars
<1> QED
  BY <1>5, <1>7, <1>8 DEF Next, Disconnect, Crash, catalogVars, vars
-----------------------------------------------------------------------------
(***************************************************************************)
(* Jobs, rows and deliveries                                                *)
(***************************************************************************)
\* Bindings go only with no row left and nobody at them.
LEMMA BindingsKept ==
  ASSUME CatalogInv, [Next]_vars
  PROVE  \A b \in Strategies :
           catalog[b] # None /\ catalog'[b] = None =>
             job = None /\ job' = None /\ Queued = {} /\ UNCHANGED queue
<1>1. CatalogTypeOK
  BY DEF CatalogInv, TypeOK
<1>2. ASSUME NEW v \in Virtuals, NEW t \in Templates, SaveVirtual(v, t),
             NEW b \in Strategies, catalog[b] # None
      PROVE  catalog'[b] # None
  <2>1. CASE follows[v] = None
    BY <1>2, <2>1 DEF SaveVirtual
  <2>2. CASE follows[v] # None
    <3>1. template' \in [Virtuals -> Templates]
      BY <1>1, <1>2 DEF SaveVirtual, CatalogTypeOK
    <3>2. /\ Acceptable(follows, template')
          /\ Materialize(Combined(follows, template'), FALSE)
      BY <1>2, <2>2 DEF SaveVirtual
    <3>3. Combined(follows, template') \in [Strategies -> Bindings \union {None}]
      BY <3>1, <3>2, CombinedTyped
    <3> QED
      BY <1>1, <1>2, <3>2, <3>3, Materialized
  <2> QED
    BY <2>1, <2>2
<1>3. ASSUME NEW fs, Follow(fs), NEW b \in Strategies, catalog[b] # None
      PROVE  catalog'[b] # None
  <2>1. Acceptable(fs, template) /\ Materialize(Combined(fs, template), TRUE)
    BY <1>3 DEF Follow
  <2>2. Combined(fs, template) \in [Strategies -> Bindings \union {None}]
    BY <1>1, <2>1, CombinedTyped DEF CatalogTypeOK
  <2> QED
    BY <1>1, <1>3, <2>1, <2>2, Materialized
<1>4. ASSUME NEW c \in Strategies, NEW o \in OrderNames, NEW n \in 0..MaxShares,
             SaveBinding(c, o, n), NEW b \in Strategies, catalog[b] # None
      PROVE  catalog'[b] # None
  <2>1. [order |-> o, shares |-> n] # None
    BY NoneAssumption DEF Bindings
  <2> QED
    BY <1>1, <1>4, <2>1 DEF SaveBinding, CatalogTypeOK
<1>5. ASSUME NEW b \in Strategies, DeleteBinding(b)
      PROVE  job = None /\ job' = None /\ Queued = {} /\ UNCHANGED queue
  BY <1>5 DEF DeleteBinding, Edit, MayEditBindings, queueVars
<1>6. CASE UNCHANGED catalog
  BY <1>6
<1>7. CASE Deliver \/ Perform
  BY <1>6, <1>7 DEF Deliver, StartDelivery, TakeRow, FinishDelivery, Perform,
     ArchiveBinding, ArchiveFails, PublishCurrent, PublishAnswered, catalogVars
<1>8. CASE Configure
  BY <1>2, <1>3, <1>4, <1>5, <1>6, <1>8 DEF Configure, BecomeIndependent, SaveOrder,
     EnqueueOrderFollowers, LateEnqueue, PublishBinding, catalogVars
<1> QED
  BY <1>6, <1>7, <1>8 DEF Next, Disconnect, Crash, catalogVars, vars

LEMMA KeepsJobShape ==
  ASSUME CatalogInv, [Next]_vars
  PROVE  JobShaped'
<1>1. QueueTypeOK /\ CatalogTypeOK /\ JobShaped /\ DeliveryShaped /\ RowsBound
  BY DEF CatalogInv, TypeOK
<1>2. CASE job' = None
  BY <1>2 DEF JobShaped
<1>3. CASE UNCHANGED job
  BY <1>1, <1>2, <1>3, BindingsKept DEF JobShaped
<1>4. CASE StartDelivery
  BY <1>1, <1>4, StartedJob DEF JobShaped
<1>5. ASSUME NEW b \in Strategies, TakeRow(b)
      PROVE  JobShaped'
  <2>1. /\ job'.kind = "deliver" /\ job'.at = b /\ b \in job.todo
        /\ job # None /\ job.kind = "deliver" /\ UNCHANGED catalog
    BY <1>1, <1>5, TakenJob DEF TakeRow, catalogVars
  <2>2. catalog[b] # None
    BY <1>1, <2>1 DEF DeliveryShaped, RowsBound
  <2> QED
    BY <2>1, <2>2 DEF JobShaped
<1>6. CASE ArchiveBinding \/ PublishCurrent
  <2>1. /\ job # None /\ job.stage # "next" /\ job'.kind = job.kind /\ job'.at = job.at
        /\ job'.stage # "next" /\ UNCHANGED catalog
    BY <1>1, <1>6, ArchivedJob, PublishingJob DEF ArchiveBinding, PublishCurrent, catalogVars
  <2> QED
    BY <1>1, <2>1 DEF JobShaped
<1>7. CASE ArchiveFails \/ PublishAnswered
  <2>1. PICK outcome \in Outcomes : Answered(outcome)
    BY <1>7 DEF ArchiveFails, PublishAnswered, Outcomes
  <2>2. job # None /\ job.stage # "next"
    BY <1>7 DEF ArchiveFails, PublishAnswered
  <2>3. job' = None \/ (job'.kind = "deliver" /\ job'.stage = "next")
    BY <1>1, <2>1, <2>2, AnsweredJob
  <2> QED
    BY <2>3 DEF JobShaped
<1>8. ASSUME NEW o \in OrderNames, NEW c \in Orders, SaveOrder(o, c)
      PROVE  JobShaped'
  <2>1. job' = Job("order", o, "next")
    BY <1>8 DEF SaveOrder
  <2> QED
    BY <2>1, JobFields DEF JobShaped
<1>9. ASSUME NEW b \in Strategies, NEW o \in OrderNames, NEW n \in 0..MaxShares,
             SaveBinding(b, o, n)
      PROVE  JobShaped'
  <2>1. job' = None \/ job' = Job("publish", b, "archive")
    BY <1>9 DEF SaveBinding
  <2>2. catalog'[b] # None
    <3>1. [order |-> o, shares |-> n] # None
      BY NoneAssumption DEF Bindings
    <3> QED
      BY <1>1, <1>9, <3>1 DEF SaveBinding, CatalogTypeOK
  <2> QED
    BY <1>2, <2>1, <2>2, JobFields DEF JobShaped
<1>10. ASSUME NEW b \in Strategies, PublishBinding(b)
       PROVE  JobShaped'
  <2>1. /\ job' = Job("publish", b, "archive") \/ job' = Job("publish", b, "publish")
        /\ catalog'[b] # None
    BY <1>10 DEF PublishBinding, catalogVars
  <2> QED
    BY <2>1, JobFields DEF JobShaped
<1>11. CASE Configure
  BY <1>2, <1>3, <1>8, <1>9, <1>10, <1>11 DEF Configure, SaveVirtual, Follow,
     BecomeIndependent, EnqueueOrderFollowers, LateEnqueue, DeleteBinding
<1> QED
  BY <1>2, <1>3, <1>4, <1>5, <1>6, <1>7, <1>11 DEF Next, Perform, Deliver, FinishDelivery,
     Disconnect, Crash, vars
\* An edit of the effective bindings queues what it changes.
LEMMA KeepsRowsEffective ==
  ASSUME CatalogInv, NEW desired \in [Strategies -> Bindings \union {None}],
         NEW force \in BOOLEAN, Materialize(desired, force), edits < MaxEdits,
         UNCHANGED archive
  PROVE  RowsBound'
<1>1. CatalogTypeOK /\ QueueTypeOK /\ RowsBound /\ RevisionsCounted
  BY DEF CatalogInv, TypeOK
<1>2. queue' = Enqueue(ChangedBy(desired, force)) /\ ChangedBy(desired, force) \subseteq Strategies
  BY DEF Materialize, ChangedBy
<1>3. /\ \A b \in ChangedBy(desired, force) : ~queue'[b].archived
      /\ \A b \in Strategies \ ChangedBy(desired, force) : queue'[b] = queue[b]
  BY <1>1, <1>2, RoomForRows, Enqueued
<1>4. /\ \A b \in ChangedBy(desired, force) : catalog'[b] # None
      /\ \A b \in Strategies \ ChangedBy(desired, force) : catalog'[b] = catalog[b]
  BY <1>1, <1>2, Materialized
<1> QED
  BY <1>1, <1>3, <1>4 DEF RowsBound

\* A statement that queues the users of an order template.
LEMMA UsersQueued ==
  ASSUME CatalogInv, NEW o, queue' = Enqueue(Users(o)), Ordering \/ late # {}
  PROVE  /\ \A b \in Users(o) : /\ b \in Strategies /\ catalog[b] # None
                                /\ queue'[b] # None /\ ~queue'[b].archived
         /\ \A b \in Strategies \ Users(o) : queue'[b] = queue[b]
<1>1. QueueTypeOK /\ RevisionsCounted
  BY DEF CatalogInv, TypeOK
<1>2. Users(o) \subseteq Strategies /\ \A b \in Users(o) : catalog[b] # None
  BY DEF Users
<1> QED
  BY <1>1, <1>2, RoomForRows, Enqueued

LEMMA KeepsRows ==
  ASSUME CatalogInv, [Next]_vars
  PROVE  RowsBound'
<1>1. CatalogTypeOK /\ QueueTypeOK /\ RowsBound /\ DeliveryShaped /\ JobShaped
  BY DEF CatalogInv, TypeOK
<1>2. ASSUME NEW v \in Virtuals, NEW t \in Templates, SaveVirtual(v, t)
      PROVE  RowsBound'
  <2>1. CASE follows[v] = None
    <3>1. UNCHANGED <<queue, catalog, archive>>
      BY <1>2, <2>1 DEF SaveVirtual
    <3> QED
      BY <1>1, <3>1 DEF RowsBound
  <2>2. CASE follows[v] # None
    <3>1. template' \in [Virtuals -> Templates] /\ edits < MaxEdits /\ UNCHANGED archive
      BY <1>1, <1>2 DEF SaveVirtual, CatalogTypeOK, Edit
    <3>2. /\ Acceptable(follows, template')
          /\ Materialize(Combined(follows, template'), FALSE)
      BY <1>2, <2>2 DEF SaveVirtual
    <3>3. Combined(follows, template') \in [Strategies -> Bindings \union {None}]
      BY <3>1, <3>2, CombinedTyped
    <3> QED
      BY <3>1, <3>2, <3>3, KeepsRowsEffective
  <2> QED
    BY <2>1, <2>2
<1>3. ASSUME NEW fs, Follow(fs)
      PROVE  RowsBound'
  <2>1. /\ Acceptable(fs, template) /\ Materialize(Combined(fs, template), TRUE)
        /\ edits < MaxEdits /\ UNCHANGED archive
    BY <1>3 DEF Follow, Edit
  <2>2. Combined(fs, template) \in [Strategies -> Bindings \union {None}]
    BY <1>1, <2>1, CombinedTyped DEF CatalogTypeOK
  <2> QED
    BY <2>1, <2>2, KeepsRowsEffective
<1>4. ASSUME NEW o, queue' = Enqueue(Users(o)), Ordering \/ late # {},
             UNCHANGED <<catalog, archive>>
      PROVE  RowsBound'
  BY <1>1, <1>4, UsersQueued DEF RowsBound
<1>5. CASE EnqueueOrderFollowers
  BY <1>4, <1>5 DEF EnqueueOrderFollowers, Ordering, catalogVars
<1>6. ASSUME NEW o, LateEnqueue(o)
      PROVE  RowsBound'
  BY <1>4, <1>6 DEF LateEnqueue, catalogVars
<1>7. CASE ArchiveBinding
  <2>1. archive' = [archive EXCEPT ![job.at] = catalog[job.at].shares]
        /\ UNCHANGED <<queue, catalog>>
    BY <1>7 DEF ArchiveBinding, catalogVars
  <2> QED
    BY <1>1, <2>1 DEF RowsBound, QueueTypeOK
<1>8. CASE FinishDelivery
  <2>1. /\ job # None /\ job.kind = "deliver" /\ UNCHANGED <<catalog, archive>>
        /\ \A b \in Strategies : queue'[b] = Settled(b)
    BY <1>8 DEF FinishDelivery, Delivering, catalogVars
  <2>2. \A b \in Strategies : job.seen[b] # None /\ job.seen[b].archived =>
          archive[b] = catalog[b].shares
    BY <1>1, <2>1 DEF DeliveryShaped
  <2>3. ASSUME NEW b \in Strategies, Settled(b) # None, Settled(b).archived
        PROVE  archive[b] = catalog[b].shares
    <3>1. CASE queue[b].archived
      BY <1>1, <2>1, <2>3, <3>1, SettledRow DEF RowsBound
    <3>2. CASE ~queue[b].archived
      <4>1. job.seen[b].archived /\ job.done[b] # "pending"
        BY <1>1, <2>1, <2>3, <3>2, SettledRow DEF Settled
      <4> QED
        BY <1>1, <2>1, <2>2, <4>1 DEF DeliveryShaped
    <3> QED
      BY <3>1, <3>2
  <2> QED
    BY <1>1, <2>1, <2>3, SettledRow DEF RowsBound
<1>9. CASE UNCHANGED <<queue, catalog, archive>>
  BY <1>1, <1>9 DEF RowsBound
<1>10. CASE Queued = {} /\ UNCHANGED queue
  BY <1>10 DEF RowsBound, Queued
<1>11. CASE StartDelivery \/ \E b \in Strategies : TakeRow(b)
  BY <1>9, <1>11 DEF StartDelivery, TakeRow, queueVars, catalogVars
<1>12. CASE ArchiveFails \/ PublishCurrent \/ PublishAnswered
  BY <1>9, <1>12 DEF ArchiveFails, PublishCurrent, PublishAnswered, queueVars, catalogVars
<1>13. CASE Configure
  BY <1>2, <1>3, <1>5, <1>6, <1>9, <1>10, <1>13 DEF Configure, BecomeIndependent, SaveOrder,
     SaveBinding, DeleteBinding, PublishBinding, MayEditBindings, queueVars, catalogVars
<1> QED
  BY <1>7, <1>8, <1>9, <1>11, <1>12, <1>13 DEF Next, Perform, Deliver, Disconnect, Crash,
     queueVars, catalogVars, vars

\* What a settled row says, and what it leaves to the queue.
LEMMA KeepsDelivery ==
  ASSUME CatalogInv, [Next]_vars
  PROVE  DeliveryShaped'
<1>1. CatalogTypeOK /\ QueueTypeOK /\ RowsBound /\ DeliveryShaped /\ JobShaped
  BY DEF CatalogInv, TypeOK
<1>2. CASE job' = None \/ job'.kind # "deliver"
  BY <1>2 DEF DeliveryShaped
<1>3. CASE UNCHANGED <<job, queue, catalog, archive>>
  BY <1>1, <1>3 DEF DeliveryShaped
<1>4. CASE StartDelivery
  <2>1. UNCHANGED <<queue, catalog, archive>>
    BY <1>4 DEF StartDelivery, queueVars, catalogVars
  <2>2. \A b \in Strategies : NoOutcome[b] = "pending"
    BY DEF NoOutcome
  <2> QED
    BY <1>1, <1>4, <2>1, <2>2, StartedJob DEF DeliveryShaped, RowsBound, Queued
<1>5. ASSUME NEW b \in Strategies, TakeRow(b)
      PROVE  DeliveryShaped'
  <2>1. UNCHANGED <<queue, catalog, archive>>
    BY <1>5 DEF TakeRow, queueVars, catalogVars
  <2>2. /\ job # None /\ job.kind = "deliver" /\ job.stage = "next" /\ b \in job.todo
        /\ job'.at = b /\ job'.seen = job.seen /\ job'.todo = job.todo \ {b}
        /\ job'.done = job.done
        /\ job'.stage \in {"publish", "wait"} => job.seen[b].archived
    BY <1>1, <1>5, TakenJob
  <2> QED
    BY <1>1, <2>1, <2>2 DEF DeliveryShaped
<1>6. CASE ArchiveBinding
  <2>1. /\ archive' = [archive EXCEPT ![job.at] = catalog[job.at].shares]
        /\ UNCHANGED <<queue, catalog>>
    BY <1>6 DEF ArchiveBinding, catalogVars
  <2>2. archive'[job.at] = catalog[job.at].shares
        /\ \A b \in Strategies \ {job.at} : archive'[b] = archive[b]
    BY <1>1, <1>6, <2>1, ArchivedJob DEF QueueTypeOK
  <2>3. CASE job.kind # "deliver"
    BY <1>1, <1>2, <1>6, <2>3, ArchivedJob
  <2>4. CASE job.kind = "deliver"
    BY <1>1, <1>6, <2>1, <2>2, <2>4, ArchivedJob DEF DeliveryShaped
  <2> QED
    BY <2>3, <2>4
<1>7. CASE PublishCurrent
  <2>1. UNCHANGED <<queue, catalog, archive>>
    BY <1>7 DEF PublishCurrent, queueVars, catalogVars
  <2> QED
    BY <1>1, <1>7, <2>1, PublishingJob DEF DeliveryShaped
<1>8. ASSUME NEW outcome \in Outcomes, Answered(outcome), job # None, job.stage # "next",
             outcome \in {"archived", "deleted"} => job.stage = "wait",
             UNCHANGED <<queue, catalog, archive>>
      PROVE  DeliveryShaped'
  <2>1. CASE job.kind = "publish"
    BY <1>1, <1>2, <1>8, <2>1, AnsweredJob
  <2>2. CASE job.kind = "deliver"
    <3>1. job \in Jobs /\ job.at \in Strategies
      BY <1>1, <1>8, JobAtBinding DEF QueueTypeOK
    <3>2. /\ job'.stage = "next" /\ job'.seen = job.seen /\ job'.todo = job.todo
          /\ job'.done[job.at] = RowAfter(job.at, outcome)
          /\ \A b \in Strategies \ {job.at} : job'.done[b] = job.done[b]
      BY <1>1, <1>8, <2>2, <3>1, AnsweredJob DEF Jobs
    <3>3. /\ RowAfter(job.at, outcome) # "pending" =>
               queue[job.at].rev = job.seen[job.at].rev /\ RowAfter(job.at, outcome) = outcome
      BY DEF RowAfter
    <3>4. /\ job.seen[job.at] # None /\ job.at \notin job.todo
          /\ job.stage = "wait" => job.seen[job.at].archived
      BY <1>1, <1>8, <2>2 DEF DeliveryShaped
    <3> QED
      BY <1>1, <1>8, <2>2, <3>1, <3>2, <3>3, <3>4 DEF DeliveryShaped
  <2> QED
    BY <1>1, <1>8, <2>1, <2>2, AnsweredJob
<1>9. CASE ArchiveFails
  <2>1. /\ Answered("failed") /\ job # None /\ job.stage # "next"
        /\ UNCHANGED <<queue, catalog, archive>>
    BY <1>9 DEF ArchiveFails, queueVars, catalogVars
  <2> QED
    BY <1>8, <2>1 DEF Outcomes
<1>10. CASE PublishAnswered
  <2>1. /\ Answered("deleted") \/ Answered("archived")
        /\ job # None /\ job.stage = "wait" /\ UNCHANGED <<queue, catalog, archive>>
    BY <1>10 DEF PublishAnswered, catalogVars
  <2> QED
    BY <1>8, <2>1 DEF Outcomes
<1>11. ASSUME NEW o \in OrderNames, LateEnqueue(o)
       PROVE  DeliveryShaped'
  <2>1. /\ queue' = Enqueue(Users(o)) /\ late # {}
        /\ UNCHANGED <<job, catalog, archive>>
        /\ job # None => \A b \in Users(o) : job.done[b] = "pending"
    BY <1>11 DEF LateEnqueue, catalogVars
  <2> QED
    BY <1>1, <2>1, UsersQueued DEF DeliveryShaped
<1>12. CASE Configure
  <2>1. ASSUME Edit
        PROVE  job' = None \/ job'.kind # "deliver" \/ UNCHANGED job
    <3>1. \A o, c : SaveOrder(o, c) => job'.kind # "deliver"
      BY JobFields DEF SaveOrder
    <3>2. \A b, o, n : SaveBinding(b, o, n) => job' = None \/ job'.kind # "deliver"
      BY JobFields DEF SaveBinding
    <3>3. \A b : PublishBinding(b) => job'.kind # "deliver"
      BY JobFields DEF PublishBinding
    <3> QED
      BY <1>12, <3>1, <3>2, <3>3 DEF Configure, SaveVirtual, Follow, BecomeIndependent,
         EnqueueOrderFollowers, LateEnqueue, DeleteBinding
  <2>2. CASE Edit
    BY <1>2, <2>1, <2>2 DEF Edit
  <2> QED
    BY <1>2, <1>11, <1>12, <2>2 DEF Configure, SaveVirtual, Follow, BecomeIndependent,
       SaveOrder, EnqueueOrderFollowers, SaveBinding, DeleteBinding, PublishBinding
<1> QED
  BY <1>2, <1>3, <1>4, <1>5, <1>6, <1>7, <1>9, <1>10, <1>12 DEF Next, Perform, Deliver,
     FinishDelivery, Disconnect, Crash, queueVars, catalogVars, vars
-----------------------------------------------------------------------------
(***************************************************************************)
(* Theorems about the catalog and the queue                                 *)
(***************************************************************************)
\* The invariant of the catalog holds before the first edit.
LEMMA CatalogInitially == Init => CatalogInv
<1> SUFFICES ASSUME Init PROVE CatalogInv
  OBVIOUS
<1>1. ExecTypeOK
  BY BoundsAssumption DEF Init, ExecInit, ExecTypeOK
<1>2. CatalogTypeOK
  BY DEF Init, CatalogTypeOK, NoRows
<1>3. QueueTypeOK
  BY BoundsAssumption DEF Init, QueueTypeOK, NoRows
<1>4. ~Following
  BY DEF Init, Following
<1>5. RevisionsCounted
  <2>1. IsFiniteSet(late) /\ Cardinality(late) = 0
    BY FS_EmptySet DEF Init
  <2> QED
    BY <2>1 DEF Init, RevisionsCounted, Revision, NoRows, Ordering
<1> QED
  BY <1>1, <1>2, <1>3, <1>4, <1>5 DEF CatalogInv, TypeOK, EffectiveShares, JobShaped,
     RowsBound, DeliveryShaped, Init, NoRows

\* The invariant of the catalog and the queue: types, the shape of the job that
\* holds the configuration lock, rows bound to bindings, revisions counted.
THEOREM CatalogInvariance == Spec => []CatalogInv
<1>1. CatalogInv /\ [Next]_vars => CatalogInv'
  BY KeepsTypes, KeepsJobShape, KeepsRows, KeepsDelivery, KeepsRevisions,
     KeepsEffectiveShares DEF CatalogInv
<1> QED
  BY <1>1, CatalogInitially, PTL DEF Spec

\* Every variable keeps its type; a revision stays within the edits made.
THEOREM TypeCorrect == Spec => []TypeOK
<1>1. CatalogInv => TypeOK
  BY DEF CatalogInv
<1> QED
  BY <1>1, CatalogInvariance, PTL

\* EffectiveShares: whatever is edited in which order, the bindings of a
\* following account are what its followed templates add up to, and what no
\* template has any more is stopped.
THEOREM SharesAddUp == Spec => []EffectiveShares
<1>1. CatalogInv => EffectiveShares
  BY DEF CatalogInv
<1> QED
  BY <1>1, CatalogInvariance, PTL
-----------------------------------------------------------------------------
(***************************************************************************)
(* One family for a strategy                                                *)
(***************************************************************************)
\* Nothing that Exec will run binding b with changes in the step.
Kept(b) ==
  \A f \in Families : Owner(f, b) => Owner(f, b)' /\ config'[f][b] = config[f][b]

LEMMA NothingWritten ==
  ASSUME UNCHANGED redisVars
  PROVE  /\ \A b \in Strategies : Kept(b)
         /\ OneFamily => OneFamily'
         /\ SwitchesOpposed => SwitchesOpposed'
BY DEF redisVars, Kept, Owner, OneFamily, SwitchesOpposed

\* What a commit does for its own strategy.
LEMMA CommitOwns ==
  ASSUME ServedInv, op # None, op.stage = "commit", Committed,
         NEW s, s = op.strategy, NEW f, f = FamilyOf[op.write.order]
  PROVE  Owner(f, s)'
<1>1. ExecTypeOK /\ OpCurrent
  BY DEF ServedInv, CatalogInv, TypeOK
<1>2. op \in Operations
  BY <1>1 DEF ExecTypeOK
<1>3. s \in Strategies /\ f \in Families
  BY <1>2, FamilyTyped DEF Operations
<1>4. /\ op.names = names[f] /\ op.switching = Switching(s, f)
      /\ op.request = (Switching(s, f) /\ Reusable(s)) /\ ~PublishRefused(s, f)
  BY <1>1 DEF OpCurrent
<1>5. switch[s] \in Switches \union {None}
  BY <1>1, <1>3 DEF ExecTypeOK
<1>6. switch[s] # None /\ switch[s].state = "requested" => switch[s].to = f
  BY <1>4, <1>5 DEF PublishRefused, SwitchUnderWay, Switches
<1> DEFINE new == [from |-> Opposite(f), to |-> f, state |-> "requested"]
<1>7. CASE Switching(s, f) /\ Reusable(s)
  <2>1. switch' = [switch EXCEPT ![s] = new]
    BY <1>4, <1>7 DEF Committed
  <2>2. new \in Switches
    BY <1>3, TwoFamilies DEF Switches
  <2>3. switch'[s] = new /\ new # None /\ new.state = "requested" /\ new.to = f
    BY <1>1, <1>3, <2>1, <2>2, AbsentAssumption DEF ExecTypeOK
  <2> QED
    BY <2>3 DEF Owner
<1>8. CASE Switching(s, f) /\ ~Reusable(s)
  <2>1. switch' = switch
    BY <1>4, <1>8 DEF Committed
  <2>2. switch[s] # None /\ switch[s].state = "requested"
    BY <1>5, <1>8 DEF Reusable, Switches
  <2> QED
    BY <1>6, <2>1, <2>2 DEF Owner
<1>9. CASE ~Switching(s, f)
  <2>1. switch' = switch
    BY <1>4, <1>9 DEF Committed
  <2>2. s \in names'[f]
    BY <1>1, <1>3, <1>4, <1>9 DEF Committed, ExecTypeOK
  <2> QED
    BY <1>6, <2>1, <2>2 DEF Owner
<1> QED
  BY <1>7, <1>8, <1>9

\* A commit touches nothing but its own strategy, and hands that one over only
\* by a request.
LEMMA CommitKeeps ==
  ASSUME ServedInv, op # None, op.stage = "commit", Committed
  PROVE  /\ op.strategy \in Strategies /\ FamilyOf[op.write.order] \in Families
         /\ config'[FamilyOf[op.write.order]][op.strategy] = op.write
         /\ \A b \in Strategies \ {op.strategy} : Kept(b)
         /\ OneFamily' /\ SwitchesOpposed'
<1> DEFINE s == op.strategy
           f == FamilyOf[op.write.order]
           new == [from |-> Opposite(f), to |-> f, state |-> "requested"]
<1>1. ExecTypeOK /\ OpCurrent /\ OneFamily /\ SwitchesOpposed
  BY DEF ServedInv, CatalogInv, TypeOK
<1>2. op \in Operations
  BY <1>1 DEF ExecTypeOK
<1>3. s \in Strategies /\ f \in Families /\ op.write \in Configs
  BY <1>2, FamilyTyped DEF Operations
<1>4. op.names = names[f] /\ op.switching = Switching(s, f)
  BY <1>1 DEF OpCurrent
<1>5. config' = [config EXCEPT ![f][s] = op.write]
  BY DEF Committed
<1>6. /\ config'[f][s] = op.write
      /\ \A g \in Families, b \in Strategies : b # s => config'[g][b] = config[g][b]
  BY <1>1, <1>3, <1>5 DEF ExecTypeOK
<1>7. switch' = switch \/ switch' = [switch EXCEPT ![s] = new]
  BY DEF Committed
<1>8. names' = names \/ (~Switching(s, f) /\ names' = [names EXCEPT ![f] = names[f] \union {s}])
  BY <1>4 DEF Committed
<1>9. new.from = Opposite(new.to)
  OBVIOUS
<1> HIDE DEF new
<1>10. \A b \in Strategies : b # s => switch'[b] = switch[b]
  BY <1>1, <1>7 DEF ExecTypeOK
<1>11. \A g \in Families, b \in Strategies : b # s => (b \in names'[g] <=> b \in names[g])
  BY <1>1, <1>3, <1>8 DEF ExecTypeOK
<1>12. \A b \in Strategies : b # s => Kept(b)
  BY <1>6, <1>10, <1>11 DEF Kept, Owner
<1>13. SwitchesOpposed'
  BY <1>1, <1>7, <1>9 DEF SwitchesOpposed, ExecTypeOK
<1>14. OneFamily'
  <2>1. ASSUME NEW b \in Strategies, b # s
        PROVE  \E g \in Families : b \notin names'[g]
    BY <1>1, <1>11, <2>1 DEF OneFamily
  <2>2. \E g \in Families : s \notin names'[g]
    <3>1. CASE names' = names
      BY <1>1, <1>3, <3>1 DEF OneFamily
    <3>2. CASE ~Switching(s, f) /\ names' = [names EXCEPT ![f] = names[f] \union {s}]
      BY <1>1, <1>3, <3>2, TwoFamilies DEF Switching, ExecTypeOK
    <3> QED
      BY <1>8, <3>1, <3>2
  <2> QED
    BY <2>1, <2>2 DEF OneFamily
<1> QED
  BY <1>3, <1>6, <1>12, <1>13, <1>14

\* Exec completes what was requested, so a family about to own owns.
LEMMA SwitchKeeps ==
  ASSUME ServedInv, NEW s \in Strategies, ExecSwitches(s)
  PROVE  /\ \A b \in Strategies : Kept(b)
         /\ OneFamily' /\ SwitchesOpposed'
<1>1. ExecTypeOK /\ OneFamily /\ SwitchesOpposed
  BY DEF ServedInv, CatalogInv, TypeOK
<1>2. /\ switch[s] # None /\ switch[s].state = "requested" /\ UNCHANGED config
      /\ switch' = [switch EXCEPT ![s].state = "completed"]
      /\ names' = [names EXCEPT ![switch[s].from] = @ \ {s}, ![switch[s].to] = @ \union {s}]
  BY DEF ExecSwitches
<1>3. switch[s] \in Switches
  BY <1>1, <1>2 DEF ExecTypeOK
<1> PICK from, to : from = switch[s].from /\ to = switch[s].to
  OBVIOUS
<1>4. from \in Families /\ to \in Families /\ from # to
  BY <1>1, <1>2, <1>3, TwoFamilies DEF Switches, SwitchesOpposed
<1>5. /\ names'[from] = names[from] \ {s} /\ names'[to] = names[to] \union {s}
      /\ \A f \in Families : f # from /\ f # to => names'[f] = names[f]
  BY <1>1, <1>2, <1>4 DEF ExecTypeOK
<1>6. /\ switch'[s].state = "completed" /\ switch'[s].from = from /\ switch'[s].to = to
      /\ \A b \in Strategies : b # s => switch'[b] = switch[b]
  BY <1>1, <1>2, <1>3 DEF ExecTypeOK, Switches
<1>7. ASSUME NEW b \in Strategies, b # s
      PROVE  \A f \in Families : b \in names'[f] <=> b \in names[f]
  BY <1>4, <1>5, <1>7
<1>8. \A b \in Strategies : b # s => Kept(b)
  BY <1>2, <1>6, <1>7 DEF Kept, Owner
<1>9. Kept(s)
  <2>1. \A f \in Families : Owner(f, s) => f = to
    BY <1>2 DEF Owner
  <2>2. Owner(to, s)'
    BY <1>5, <1>6 DEF Owner
  <2> QED
    BY <1>2, <2>1, <2>2 DEF Kept
<1>10. OneFamily'
  BY <1>1, <1>4, <1>5, <1>7 DEF OneFamily
<1>11. SwitchesOpposed'
  BY <1>1, <1>2, <1>6 DEF SwitchesOpposed
<1> QED
  BY <1>8, <1>9, <1>10, <1>11
\* What a step does to Redis: it commits the publish under way, Exec moves a
\* strategy, or nothing changes.
LEMMA RedisSteps ==
  ASSUME [Next]_vars
  PROVE  \/ UNCHANGED redisVars
         \/ op # None /\ op.stage = "commit" /\ Committed
         \/ \E s \in Strategies : ExecSwitches(s)
BY DEF Next, Client, Commit, Confirm, PublishLost, Reconnect, PingFails, Exec, Deliver,
   StartDelivery, TakeRow, FinishDelivery, Perform, ArchiveBinding, ArchiveFails,
   PublishCurrent, Publish, Unreachable, CheckRefuses, PublishAnswered, Configure,
   SaveVirtual, Follow, BecomeIndependent, SaveOrder, EnqueueOrderFollowers, LateEnqueue,
   SaveBinding, DeleteBinding, PublishBinding, Disconnect, Crash, Orphaned, vars

LEMMA KeepsFamilies ==
  ASSUME ServedInv, [Next]_vars
  PROVE  OneFamily' /\ SwitchesOpposed'
<1>1. OneFamily /\ SwitchesOpposed
  BY DEF ServedInv
<1> QED
  BY <1>1, RedisSteps, NothingWritten, CommitKeeps, SwitchKeeps

\* Every binding is kept, but the one a commit is for: that one is written.
LEMMA KeptOrWritten ==
  ASSUME ServedInv, [Next]_vars, NEW b \in Strategies,
         UNCHANGED <<catalog, orders>>
  PROVE  \/ Kept(b)
         \/ /\ op # None /\ b = op.strategy /\ job # None /\ job.at = b
            /\ job.stage = "wait" /\ Written(b)'
<1>1. CASE UNCHANGED redisVars
  BY <1>1, NothingWritten
<1>2. CASE \E s \in Strategies : ExecSwitches(s)
  BY <1>2, SwitchKeeps
<1>3. CASE op # None /\ op.stage = "commit" /\ Committed
  <2>1. CASE b # op.strategy
    BY <1>3, <2>1, CommitKeeps
  <2>2. CASE b = op.strategy
    <3>1. /\ job # None /\ job.at = b /\ job.stage = "wait" /\ op.write = Effective(b)
      BY <1>3, <2>2 DEF ServedInv, OpCurrent
    <3>2. PICK f \in Families : f = FamilyOf[op.write.order]
      BY <1>3, CommitKeeps
    <3>3. Owner(f, b)' /\ config'[f][b] = Effective(b)
      BY <1>3, <2>2, <3>1, <3>2, CommitOwns, CommitKeeps
    <3>4. Effective(b)' = Effective(b)
      BY DEF Effective
    <3> QED
      BY <1>3, <2>2, <3>1, <3>3, <3>4 DEF Written
  <2> QED
    BY <2>1, <2>2
<1> QED
  BY <1>1, <1>2, <1>3, RedisSteps

\* What is written stays written while its binding is kept and unedited.
LEMMA StaysWritten ==
  ASSUME ServedInv, [Next]_vars, NEW b \in Strategies, Written(b),
         UNCHANGED <<catalog, orders>>
  PROVE  Written(b)'
<1>1. Effective(b)' = Effective(b)
  BY DEF Effective
<1>2. CASE Kept(b)
  BY <1>1, <1>2 DEF Kept, Written
<1> QED
  BY <1>2, KeptOrWritten

\* A binding is in step once it is written and archived ...
LEMMA WrittenInStep ==
  ASSUME CatalogTypeOK, NEW b \in Strategies, catalog[b] # None,
         Written(b), archive[b] = catalog[b].shares
  PROVE  InStep(b)
<1>1. Effective(b) \in Configs
  BY EffectiveTyped
<1>2. Effective(b) # None
  BY <1>1, AbsentAssumption
<1>3. /\ Effective(b).shares = catalog[b].shares
      /\ Effective(b).order = orders[catalog[b].order]
  BY DEF Effective
<1> QED
  BY <1>2, <1>3 DEF Written, InStep

\* ... and stays so while it is kept, unedited, and awaits what it awaited.
LEMMA StaysInStep ==
  ASSUME NEW b \in Strategies, InStep(b), Kept(b),
         archive'[b] = catalog[b].shares, catalog'[b] = catalog[b],
         \/ catalog[b].shares = 0
         \/ Awaiting(b)'
         \/ ~Awaiting(b) /\ orders'[catalog[b].order] = orders[catalog[b].order]
  PROVE  InStep(b)'
<1>1. PICK f \in Families :
        /\ Owner(f, b) /\ config[f][b] # None
        /\ config[f][b].shares = catalog[b].shares
        /\ catalog[b].shares > 0 /\ ~Awaiting(b) =>
             config[f][b].order = orders[catalog[b].order]
  BY DEF InStep
<1>2. Owner(f, b)' /\ config'[f][b] = config[f][b]
  BY <1>1 DEF Kept
<1>3. catalog'[b].shares > 0 /\ ~Awaiting(b)' =>
        config'[f][b].order = orders'[catalog'[b].order]
  <2>1. CASE catalog[b].shares = 0
    BY <2>1
  <2>2. CASE Awaiting(b)'
    BY <2>2
  <2>3. CASE ~Awaiting(b) /\ orders'[catalog[b].order] = orders[catalog[b].order]
    BY <1>1, <1>2, <2>3
  <2> QED
    BY <2>1, <2>2, <2>3
<1> QED
  BY <1>1, <1>2, <1>3 DEF InStep

-----------------------------------------------------------------------------
(***************************************************************************)
(* Publishes and their answers                                              *)
(***************************************************************************)
\* While a publish is under way, or its answer is out, its job waits.
LEMMA WaitsForPublish ==
  ASSUME ServedInv, [Next]_vars, op # None \/ answer # None
  PROVE  /\ job # None /\ job.stage = "wait" /\ job.kind # "order"
         /\ \/ Client /\ UNCHANGED <<catalogVars, queueVars, job, edits>>
            \/ Exec /\ UNCHANGED <<catalogVars, queueVars, job, edits>>
            \/ PublishAnswered
            \/ \E o \in OrderNames : LateEnqueue(o)
            \/ Disconnect \/ Crash \/ UNCHANGED vars
<1>1. job # None /\ job.stage = "wait"
  BY DEF ServedInv, OpCurrent, AnswerTrue
<1>2. job.kind # "order"
  BY <1>1 DEF ServedInv, CatalogInv, JobShaped
<1> QED
  BY <1>1, <1>2 DEF Next, Deliver, Delivering, StartDelivery, TakeRow, FinishDelivery, Perform,
     ArchiveBinding, ArchiveFails, PublishCurrent, Configure, Edit, SaveVirtual, Follow,
     BecomeIndependent, SaveOrder, EnqueueOrderFollowers, SaveBinding, DeleteBinding,
     PublishBinding

\* What the client's steps keep of the bindings' effective parameters.
LEMMA EffectiveKept ==
  ASSUME UNCHANGED <<catalog, orders>>, NEW b
  PROVE  Effective(b)' = Effective(b)
BY DEF Effective

LEMMA KeepsAnswer ==
  ASSUME ServedInv, [Next]_vars
  PROVE  AnswerTrue'
<1>1. AnswerTrue /\ OpCurrent /\ JobShaped /\ ExecTypeOK /\ QueueTypeOK
  BY DEF ServedInv, CatalogInv, TypeOK
<1>2. CASE answer' = None
  BY <1>2 DEF AnswerTrue
<1>3. CASE Confirm /\ UNCHANGED <<catalogVars, queueVars, job, edits>>
  <2>1. op # None /\ op.stage = "confirm" /\ op' = None /\ UNCHANGED <<config, redisVars>>
    BY <1>3 DEF Confirm, redisVars
  <2>2. op \in Operations
    BY <1>1, <2>1 DEF ExecTypeOK
  <2>3. PICK f \in Families, b \in Strategies :
          f = FamilyOf[op.write.order] /\ b = op.strategy
    BY <2>2, FamilyTyped DEF Operations
  <2>4. /\ job # None /\ job.stage = "wait" /\ job.at = b
        /\ Owner(f, b) /\ config[f][b] = Effective(b)
    BY <1>1, <2>1, <2>3 DEF OpCurrent
  <2>5. Owner(f, b)'
    BY <2>1, <2>4 DEF Owner, redisVars
  <2>6. Effective(b)' = Effective(b) /\ UNCHANGED job
    BY <1>3, EffectiveKept DEF catalogVars
  <2> QED
    BY <2>1, <2>4, <2>5, <2>6 DEF AnswerTrue, Written
<1>4. CASE PublishLost /\ UNCHANGED <<catalogVars, queueVars, job, edits>>
  <2>1. op # None /\ op' = None /\ answer' = "error" /\ UNCHANGED job
    BY <1>4 DEF PublishLost
  <2> QED
    BY <1>1, <2>1 DEF AnswerTrue, OpCurrent
<1>5. CASE PublishCurrent
  <2>1. job' # None /\ job'.stage = "wait"
    BY <1>1, <1>5, PublishingJob
  <2>2. answer' = None \/ (answer' = "error" /\ op' = None)
    BY <1>5 DEF PublishCurrent, Publish, Unreachable, CheckRefuses
  <2> QED
    BY <2>1, <2>2 DEF AnswerTrue
<1>6. ASSUME answer # None, UNCHANGED <<answer, op, job, catalog, orders>>
      PROVE  AnswerTrue'
  <2>1. op = None /\ job # None /\ job.stage = "wait" /\ job.at \in Strategies
    BY <1>1, <1>6, JobAtBinding DEF AnswerTrue
  <2>2. answer = "ok" => Written(job.at)'
    BY <1>1, <1>6, <2>1, StaysWritten DEF AnswerTrue
  <2> QED
    BY <1>6, <2>1, <2>2 DEF AnswerTrue
<1>7. CASE answer # None
  <2>1. op = None
    BY <1>1, <1>7 DEF AnswerTrue
  <2>2. CASE Client /\ UNCHANGED <<catalogVars, queueVars, job, edits>>
    BY <1>6, <1>7, <2>1, <2>2 DEF Client, Commit, Confirm, PublishLost, Reconnect, PingFails,
       catalogVars
  <2>3. CASE Exec /\ UNCHANGED <<catalogVars, queueVars, job, edits>>
    BY <1>6, <1>7, <2>3 DEF Exec, ExecSwitches, clientVars, catalogVars
  <2>4. CASE PublishAnswered \/ Disconnect \/ Crash
    BY <1>2, <2>4 DEF PublishAnswered, Disconnect, Crash, Orphaned
  <2>5. CASE \E o \in OrderNames : LateEnqueue(o)
    BY <1>6, <1>7, <2>5 DEF LateEnqueue, clientVars, catalogVars
  <2>6. CASE UNCHANGED vars
    BY <1>6, <1>7, <2>6 DEF vars, clientVars, catalogVars
  <2> QED
    BY <1>7, <2>2, <2>3, <2>4, <2>5, <2>6, WaitsForPublish
<1>8. CASE UNCHANGED answer /\ answer = None
  BY <1>2, <1>8
<1>9. CASE Client /\ UNCHANGED <<catalogVars, queueVars, job, edits>>
  BY <1>3, <1>4, <1>7, <1>8, <1>9 DEF Client, Commit, Reconnect, PingFails
<1>10. CASE UNCHANGED clientVars
  BY <1>7, <1>8, <1>10 DEF clientVars
<1> QED
  BY <1>2, <1>5, <1>9, <1>10 DEF Next, Exec, ExecSwitches, Deliver, StartDelivery, TakeRow,
     FinishDelivery, Perform, ArchiveBinding, ArchiveFails, PublishAnswered, Configure,
     SaveVirtual, Follow, BecomeIndependent, SaveOrder, EnqueueOrderFollowers, LateEnqueue,
     SaveBinding, DeleteBinding, PublishBinding, Disconnect, Crash, Orphaned, vars
LEMMA KeepsOp ==
  ASSUME Overlap = FALSE, ServedInv, [Next]_vars
  PROVE  OpCurrent'
<1>1. OpCurrent /\ AnswerTrue /\ JobShaped /\ ExecTypeOK /\ CatalogTypeOK /\ QueueTypeOK
  BY DEF ServedInv, CatalogInv, TypeOK
<1>2. CASE op' = None
  BY <1>2 DEF OpCurrent
<1>3. CASE op = None /\ PublishCurrent
  <2>1. PICK s \in Strategies : s = job.at /\ catalog[s] # None
    BY <1>1, <1>3, JobAtBinding DEF PublishCurrent
  <2>2. PICK c \in Configs : c = Effective(s)
    BY <1>1, <2>1, EffectiveTyped
  <2>3. PICK f \in Families : f = FamilyOf[c.order]
    BY FamilyTyped
  <2>4. CASE Publish(s, c) /\ op' # None
    <3>1. op' = Prepared(s, c, f) /\ ~PublishRefused(s, f) /\ UNCHANGED redisVars
      BY <2>3, <2>4 DEF Publish
    <3>2. /\ op'.strategy = s /\ op'.write = c /\ op'.stage = "commit"
          /\ op'.names = names[f] /\ op'.switching = Switching(s, f)
          /\ op'.request = (Switching(s, f) /\ Reusable(s))
      BY <3>1 DEF Prepared
    <3>3. job' # None /\ job'.stage = "wait" /\ job'.at = s
      BY <1>1, <1>3, <2>1, PublishingJob
    <3>4. Effective(s)' = c
      BY <1>3, <2>2, EffectiveKept DEF PublishCurrent, catalogVars
    <3>5. /\ names'[f] = names[f] /\ Switching(s, f)' = Switching(s, f)
          /\ Reusable(s)' = Reusable(s) /\ PublishRefused(s, f)' = PublishRefused(s, f)
      BY <3>1 DEF redisVars, Switching, Reusable, PublishRefused, SwitchUnderWay
    <3> QED
      BY <2>3, <3>1, <3>2, <3>3, <3>4, <3>5 DEF OpCurrent
  <2>5. CASE Unreachable \/ CheckRefuses
    BY <1>2, <1>3, <2>5 DEF Unreachable, CheckRefuses
  <2> QED
    BY <1>2, <1>3, <2>1, <2>2, <2>4, <2>5 DEF PublishCurrent
<1>4. CASE Commit /\ UNCHANGED <<catalogVars, queueVars, job, edits>>
  <2>1. op # None /\ op.stage = "commit" /\ Committed /\ op' = [op EXCEPT !.stage = "confirm"]
    BY <1>4 DEF Commit
  <2>2. op \in Operations
    BY <1>1, <2>1 DEF ExecTypeOK
  <2>3. PICK f \in Families, s \in Strategies, c \in Configs :
          f = FamilyOf[op.write.order] /\ s = op.strategy /\ c = op.write
    BY <2>2, FamilyTyped DEF Operations
  <2>4. op'.strategy = s /\ op'.write = c /\ op'.stage = "confirm"
    BY <2>1, <2>2, <2>3 DEF Operations
  <2>5. job # None /\ job.stage = "wait" /\ job.at = s /\ c = Effective(s)
    BY <1>1, <2>1, <2>3 DEF OpCurrent
  <2>6. Effective(s)' = Effective(s) /\ UNCHANGED job
    BY <1>4, EffectiveKept DEF catalogVars
  <2>7. Owner(f, s)' /\ config'[f][s] = c
    BY <2>1, <2>3, CommitOwns, CommitKeeps
  <2> QED
    BY <2>3, <2>4, <2>5, <2>6, <2>7 DEF OpCurrent
<1>5. CASE op # None /\ UNCHANGED <<redisVars, op, job, catalog, orders>>
  <2>1. op \in Operations
    BY <1>1, <1>5 DEF ExecTypeOK
  <2>2. PICK f \in Families, s \in Strategies :
          f = FamilyOf[op.write.order] /\ s = op.strategy
    BY <2>1, FamilyTyped DEF Operations
  <2>3. /\ names'[f] = names[f] /\ Switching(s, f)' = Switching(s, f)
        /\ Reusable(s)' = Reusable(s) /\ PublishRefused(s, f)' = PublishRefused(s, f)
        /\ Owner(f, s)' = Owner(f, s) /\ Effective(s)' = Effective(s)
    BY <1>5 DEF redisVars, Switching, Reusable, PublishRefused, SwitchUnderWay, Owner,
       Effective
  <2> QED
    BY <1>1, <1>5, <2>2, <2>3 DEF OpCurrent, redisVars
<1>6. CASE op # None
  <2>1. CASE Client /\ UNCHANGED <<catalogVars, queueVars, job, edits>>
    BY <1>2, <1>4, <1>6, <2>1 DEF Client, Commit, Confirm, PublishLost, Reconnect, PingFails
  <2>2. ~Exec
    BY <1>6 DEF Exec, ExecSwitches
  <2>3. CASE PublishAnswered
    BY <1>1, <1>6, <2>3 DEF PublishAnswered, AnswerTrue
  <2>4. CASE Disconnect \/ Crash
    BY <1>2, <2>4 DEF Disconnect, Crash, Orphaned
  <2>5. CASE \E o \in OrderNames : LateEnqueue(o)
    BY <1>5, <1>6, <2>5 DEF LateEnqueue, clientVars, catalogVars
  <2>6. CASE UNCHANGED vars
    BY <1>5, <1>6, <2>6 DEF vars, clientVars, catalogVars
  <2> QED
    BY <1>6, <2>1, <2>2, <2>3, <2>4, <2>5, <2>6, WaitsForPublish
<1>7. CASE op = None /\ ~PublishCurrent
  <2>1. op' = None
    BY <1>7 DEF Next, Client, Commit, Confirm, PublishLost, Reconnect, PingFails, Exec,
       ExecSwitches, Deliver, StartDelivery, TakeRow, FinishDelivery, Perform, ArchiveBinding,
       ArchiveFails, PublishAnswered, Configure, SaveVirtual, Follow, BecomeIndependent,
       SaveOrder, EnqueueOrderFollowers, LateEnqueue, SaveBinding, DeleteBinding,
       PublishBinding, Disconnect, Crash, Orphaned, vars, clientVars
  <2> QED
    BY <1>2, <2>1
<1> QED
  BY <1>3, <1>6, <1>7

\* What a delivery has settled is written, until it commits.
LEMMA KeepsDelivered ==
  ASSUME ServedInv, [Next]_vars
  PROVE  Delivered'
<1>1. Delivered /\ AnswerTrue /\ JobShaped /\ DeliveryShaped /\ QueueTypeOK
  BY DEF ServedInv, CatalogInv, TypeOK
<1>2. CASE job' = None \/ job'.kind # "deliver"
  BY <1>2 DEF Delivered
<1>3. ASSUME job # None, job.kind = "deliver", job'.done = job.done,
             UNCHANGED <<catalog, orders>>
      PROVE  Delivered'
  BY <1>1, <1>3, StaysWritten DEF Delivered
<1>4. CASE StartDelivery
  <2>1. job'.done = NoOutcome
    BY <1>1, <1>4, StartedJob
  <2> QED
    BY <2>1 DEF Delivered, NoOutcome
<1>5. ASSUME NEW b \in Strategies, TakeRow(b)
      PROVE  Delivered'
  BY <1>1, <1>3, <1>5, TakenJob DEF TakeRow, catalogVars
<1>6. CASE ArchiveBinding
  BY <1>1, <1>2, <1>3, <1>6, ArchivedJob DEF ArchiveBinding, catalogVars
<1>7. CASE PublishCurrent
  BY <1>1, <1>2, <1>3, <1>7, PublishingJob DEF PublishCurrent, catalogVars
<1>8. ASSUME NEW outcome \in Outcomes, Answered(outcome), job # None, job.stage # "next",
             outcome = "deleted" => Written(job.at), UNCHANGED <<catalog, orders>>
      PROVE  Delivered'
  <2>1. CASE job.kind = "publish"
    BY <1>1, <1>2, <1>8, <2>1, AnsweredJob
  <2>2. CASE job.kind = "deliver"
    <3>1. job \in Jobs /\ job.at \in Strategies
      BY <1>1, <1>8, JobAtBinding DEF QueueTypeOK
    <3>2. /\ job'.done[job.at] = RowAfter(job.at, outcome)
          /\ \A b \in Strategies \ {job.at} : job'.done[b] = job.done[b]
      BY <1>1, <1>8, <2>2, <3>1, AnsweredJob DEF Jobs
    <3>3. RowAfter(job.at, outcome) = "deleted" => outcome = "deleted"
      BY DEF RowAfter
    <3>4. \A b \in Strategies : job'.done[b] = "deleted" => Written(b)
      BY <1>1, <1>8, <2>2, <3>1, <3>2, <3>3 DEF Delivered
    <3> QED
      BY <1>8, <3>4, StaysWritten DEF Delivered
  <2> QED
    BY <1>1, <1>8, <2>1, <2>2, AnsweredJob
<1>9. CASE ArchiveFails
  <2>1. /\ Answered("failed") /\ job # None /\ job.stage # "next"
        /\ UNCHANGED <<catalog, orders>>
    BY <1>9 DEF ArchiveFails, catalogVars
  <2> QED
    BY <1>8, <2>1 DEF Outcomes
<1>10. CASE PublishAnswered
  <2>1. /\ Answered("deleted") \/ Answered("archived")
        /\ Answered("deleted") \/ answer # "ok"
        /\ job # None /\ job.stage = "wait" /\ answer # None
        /\ UNCHANGED <<catalog, orders>>
    BY <1>10 DEF PublishAnswered, catalogVars
  <2>2. CASE answer = "ok"
    <3>1. Written(job.at) /\ Answered("deleted")
      BY <1>1, <2>1, <2>2 DEF AnswerTrue
    <3> QED
      BY <1>8, <2>1, <3>1 DEF Outcomes
  <2>3. CASE answer # "ok"
    <3>1. Answered("archived")
      BY <1>10, <2>3 DEF PublishAnswered
    <3> QED
      BY <1>8, <2>1, <3>1 DEF Outcomes
  <2> QED
    BY <2>2, <2>3
<1>11. CASE UNCHANGED <<job, catalog, orders>>
  BY <1>2, <1>3, <1>11
<1>12. CASE Configure
  <2>1. \A o, c : SaveOrder(o, c) => job'.kind # "deliver"
    BY JobFields DEF SaveOrder
  <2>2. \A b, o, n : SaveBinding(b, o, n) => job' = None \/ job'.kind # "deliver"
    BY JobFields DEF SaveBinding
  <2>3. \A b : PublishBinding(b) => job'.kind # "deliver"
    BY JobFields DEF PublishBinding
  <2> QED
    BY <1>2, <1>11, <1>12, <2>1, <2>2, <2>3 DEF Configure, Edit, SaveVirtual, Follow,
       BecomeIndependent, EnqueueOrderFollowers, LateEnqueue, DeleteBinding, catalogVars
<1> QED
  BY <1>2, <1>4, <1>5, <1>6, <1>7, <1>9, <1>10, <1>11, <1>12 DEF Next, Deliver,
     FinishDelivery, Perform, Disconnect, Crash, vars, catalogVars
-----------------------------------------------------------------------------
(***************************************************************************)
(* No follower falls out of step                                            *)
(***************************************************************************)
\* The bindings and their rows stay, and so does the step each is in.
LEMMA KeepsStep ==
  ASSUME ServedInv, [Next]_vars, UNCHANGED <<follows, catalog, orders>>,
         NEW b \in Strategies, Following, catalog[b] # None, b \notin Queued,
         archive'[b] = archive[b] \/ archive'[b] = catalog[b].shares,
         catalog[b].shares = 0 \/ Awaiting(b)' \/ ~Awaiting(b)
  PROVE  InStep(b)'
<1>1. InStep(b) /\ CatalogTypeOK
  BY DEF ServedInv, CatalogInv, AllInStep, TypeOK
<1>2. archive[b] = catalog[b].shares
  BY <1>1 DEF InStep
<1>3. archive'[b] = catalog[b].shares
  BY <1>2
<1>4. CASE Kept(b)
  BY <1>1, <1>3, <1>4, StaysInStep
<1>5. CASE Written(b)'
  <2>1. Effective(b)' = Effective(b) /\ Effective(b) \in Configs
    BY <1>1, EffectiveKept, EffectiveTyped
  <2>2. PICK f \in Families : Owner(f, b)' /\ config'[f][b] = Effective(b)
    BY <1>5, <2>1 DEF Written
  <2>3. /\ Effective(b) # None /\ Effective(b).shares = catalog[b].shares
        /\ Effective(b).order = orders[catalog[b].order]
    BY <2>1, AbsentAssumption DEF Effective
  <2> QED
    BY <1>3, <2>2, <2>3 DEF InStep
<1> QED
  BY <1>4, <1>5, KeptOrWritten

\* An edit of the effective bindings queues every binding it changes.
LEMMA KeepsStepEffective ==
  ASSUME ServedInv, NEW desired \in [Strategies -> Bindings \union {None}],
         NEW force \in BOOLEAN, Materialize(desired, force), edits < MaxEdits,
         UNCHANGED <<orders, archive, late, unqueued, job, redisVars>>,
         Following \/ force
  PROVE  \A b \in Strategies \ Queued' : catalog'[b] # None => InStep(b)'
<1>1. CatalogTypeOK /\ QueueTypeOK /\ RevisionsCounted /\ AllInStep
  BY DEF ServedInv, CatalogInv, TypeOK
<1>2. queue' = Enqueue(ChangedBy(desired, force)) /\ ChangedBy(desired, force) \subseteq Strategies
  BY DEF Materialize, ChangedBy
<1>3. /\ \A b \in ChangedBy(desired, force) : queue'[b] # None
      /\ \A b \in Strategies \ ChangedBy(desired, force) : queue'[b] = queue[b]
  BY <1>1, <1>2, RoomForRows, Enqueued
<1> SUFFICES ASSUME NEW b \in Strategies, queue'[b] = None, catalog'[b] # None
             PROVE  InStep(b)'
  BY DEF Queued
<1>4. b \notin ChangedBy(desired, force) /\ b \notin Queued
  BY <1>3 DEF Queued
<1>5. catalog'[b] = catalog[b]
  BY <1>1, <1>4, Materialized
<1>6. ~force
  BY <1>4, <1>5 DEF ChangedBy
<1>7. InStep(b)
  BY <1>1, <1>4, <1>5, <1>6 DEF AllInStep
<1>8. Awaiting(b)' = Awaiting(b)
  BY <1>5 DEF Awaiting, Ordering
<1>9. Kept(b)
  BY NothingWritten
<1>10. archive'[b] = catalog[b].shares
  BY <1>7 DEF InStep
<1> QED
  BY <1>5, <1>7, <1>8, <1>9, <1>10, StaysInStep

LEMMA KeepsStepConfigure ==
  ASSUME ServedInv, [Next]_vars, Configure
  PROVE  AllInStep'
<1>1. /\ CatalogTypeOK /\ QueueTypeOK /\ RevisionsCounted /\ JobShaped /\ AllInStep
      /\ CatalogInv
  BY DEF ServedInv, CatalogInv, TypeOK
<1>2. ASSUME NEW v \in Virtuals, NEW t \in Templates, SaveVirtual(v, t)
      PROVE  AllInStep'
  <2>1. /\ UNCHANGED <<follows, orders, archive, late, unqueued, job, redisVars>>
        /\ edits < MaxEdits
    BY <1>2 DEF SaveVirtual, Edit
  <2>2. CASE follows[v] = None
    <3>1. UNCHANGED <<queue, catalog>>
      BY <1>2, <2>2 DEF SaveVirtual
    <3> QED
      BY <2>1, <3>1, KeepsStep DEF AllInStep, Following, Queued, Awaiting, Ordering
  <2>3. CASE follows[v] # None
    <3>1. template' \in [Virtuals -> Templates]
      BY <1>1, <1>2 DEF SaveVirtual, CatalogTypeOK
    <3>2. /\ Acceptable(follows, template')
          /\ Materialize(Combined(follows, template'), FALSE)
      BY <1>2, <2>3 DEF SaveVirtual
    <3>3. Combined(follows, template') \in [Strategies -> Bindings \union {None}]
      BY <3>1, <3>2, CombinedTyped
    <3>4. Following
      BY <2>3 DEF Following
    <3> QED
      BY <2>1, <3>2, <3>3, <3>4, KeepsStepEffective DEF AllInStep
  <2> QED
    BY <2>2, <2>3
<1>3. ASSUME NEW fs, Follow(fs)
      PROVE  AllInStep'
  <2>1. /\ Acceptable(fs, template) /\ Materialize(Combined(fs, template), TRUE)
        /\ edits < MaxEdits
        /\ UNCHANGED <<orders, archive, late, unqueued, job, redisVars>>
    BY <1>3 DEF Follow, Edit
  <2>2. Combined(fs, template) \in [Strategies -> Bindings \union {None}]
    BY <1>1, <2>1, CombinedTyped DEF CatalogTypeOK
  <2> QED
    BY <2>1, <2>2, KeepsStepEffective DEF AllInStep
<1>4. CASE BecomeIndependent
  BY <1>4 DEF BecomeIndependent, AllInStep, Following
<1>5. ASSUME NEW o \in OrderNames, NEW c \in Orders, SaveOrder(o, c)
      PROVE  AllInStep'
  <2>1. /\ UNCHANGED <<follows, catalog, queue, archive, late, unqueued, redisVars>>
        /\ orders' = [orders EXCEPT ![o] = c] /\ job = None
        /\ job' = Job("order", o, "next")
    BY <1>5 DEF SaveOrder, Edit, queueVars
  <2>2. job' \in Jobs /\ job'.kind = "order" /\ job'.at = o
    BY <2>1, JobTyped, JobFields
  <2>3. job' # None
    BY <2>2, NoneAssumption
  <2>4. ASSUME NEW b \in Strategies, Following, catalog[b] # None, b \notin Queued
        PROVE  InStep(b)'
    <3>1. InStep(b)
      BY <1>1, <2>4 DEF AllInStep
    <3>2. Kept(b)
      BY <2>1, NothingWritten
    <3>3. CASE catalog[b].order = o
      <4>1. Awaiting(b)'
        BY <2>1, <2>2, <2>3, <3>3 DEF Awaiting, Ordering
      <4>2. archive'[b] = catalog[b].shares
        BY <2>1, <3>1 DEF InStep
      <4> QED
        BY <2>1, <3>1, <3>2, <4>1, <4>2, StaysInStep
    <3>4. CASE catalog[b].order # o
      <4>1. orders'[catalog[b].order] = orders[catalog[b].order]
        <5>1. catalog[b].order \in OrderNames
          BY <1>1, <2>4 DEF CatalogTypeOK, Bindings
        <5> QED
          BY <1>1, <2>1, <3>4, <5>1 DEF CatalogTypeOK
      <4>2. archive'[b] = catalog[b].shares
        BY <2>1, <3>1 DEF InStep
      <4>3. Awaiting(b) => Awaiting(b)'
        BY <2>1 DEF Awaiting, Ordering
      <4> QED
        BY <2>1, <3>1, <3>2, <4>1, <4>2, <4>3, StaysInStep
    <3> QED
      BY <3>3, <3>4
  <2> QED
    BY <2>1, <2>4 DEF AllInStep, Following, Queued
<1>6. ASSUME NEW o, queue' = Enqueue(Users(o)), Ordering \/ late # {},
             UNCHANGED <<follows, catalog, orders, archive>>,
             \A b \in Strategies : catalog[b] # None /\ catalog[b].order # o =>
               (Awaiting(b) => Awaiting(b)')
      PROVE  AllInStep'
  <2>1. ASSUME NEW b \in Strategies, Following, catalog[b] # None, queue'[b] = None
        PROVE  InStep(b)'
    <3>1. b \notin Users(o) /\ b \notin Queued
      BY <1>1, <1>6, <2>1, UsersQueued DEF Queued
    <3>2. catalog[b] \in Bindings
      BY <1>1, <2>1 DEF CatalogTypeOK
    <3>3. catalog[b].order # o \/ catalog[b].shares = 0
      BY <2>1, <3>1, <3>2 DEF Users, Bindings
    <3> QED
      BY <1>6, <2>1, <3>1, <3>3, KeepsStep
  <2> QED
    BY <1>6, <2>1 DEF AllInStep, Following, Queued
<1>7. CASE EnqueueOrderFollowers
  <2>1. /\ job # None /\ job.kind = "order" /\ queue' = Enqueue(Users(job.at))
        /\ job' = None /\ UNCHANGED <<follows, catalog, orders, archive, late, unqueued>>
    BY <1>7 DEF EnqueueOrderFollowers, catalogVars
  <2> QED
    BY <1>6, <2>1 DEF Awaiting, Ordering
<1>8. ASSUME NEW o \in OrderNames, LateEnqueue(o)
      PROVE  AllInStep'
  <2>1. /\ o \in late /\ queue' = Enqueue(Users(o)) /\ late' = late \ {o}
        /\ UNCHANGED <<follows, catalog, orders, archive, unqueued, job>>
    BY <1>8 DEF LateEnqueue, catalogVars
  <2> QED
    BY <1>6, <2>1 DEF Awaiting, Ordering
<1>9. CASE ~Following /\ UNCHANGED follows
  BY <1>9 DEF AllInStep, Following
<1>10. ASSUME NEW b \in Strategies, PublishBinding(b)
       PROVE  AllInStep'
  <2>1. /\ UNCHANGED <<follows, catalog, orders, queue, archive, late, unqueued>>
        /\ job = None
    BY <1>10 DEF PublishBinding, Edit, catalogVars, queueVars
  <2> QED
    BY <2>1, KeepsStep DEF AllInStep, Following, Queued, Awaiting, Ordering
<1> QED
  BY <1>2, <1>3, <1>4, <1>5, <1>7, <1>8, <1>9, <1>10 DEF Configure, SaveBinding,
     DeleteBinding, MayEditBindings
\* A row a delivery settled leaves the queue with its binding in step.
LEMMA KeepsStepFinish ==
  ASSUME ServedInv, [Next]_vars, FinishDelivery
  PROVE  AllInStep'
<1>1. /\ CatalogTypeOK /\ QueueTypeOK /\ DeliveryShaped /\ RowsBound /\ AllInStep /\ Delivered
  BY DEF ServedInv, CatalogInv, TypeOK
<1>2. /\ job # None /\ job.kind = "deliver" /\ job' = None
      /\ \A b \in Strategies : queue'[b] = Settled(b)
      /\ UNCHANGED <<redisVars, follows, catalog, orders, archive, late, unqueued>>
  BY DEF FinishDelivery, Delivering, catalogVars
<1>3. ASSUME NEW b \in Strategies, Following, catalog[b] # None, Settled(b) = None
      PROVE  InStep(b)'
  <2>1. Awaiting(b)' = Awaiting(b)
    BY <1>2 DEF Awaiting, Ordering
  <2>2. InStep(b)
    <3>1. CASE b \notin Queued
      BY <1>1, <1>3, <3>1 DEF AllInStep
    <3>2. CASE b \in Queued
      <4>1. job.done[b] = "deleted"
        BY <1>1, <1>2, <1>3, <3>2, SettledRow DEF Queued
      <4>2. Written(b) /\ archive[b] = catalog[b].shares
        BY <1>1, <1>2, <4>1 DEF Delivered, DeliveryShaped
      <4> QED
        BY <1>1, <1>3, <4>2, WrittenInStep
    <3> QED
      BY <3>1, <3>2
  <2>3. Kept(b) /\ archive'[b] = catalog[b].shares
    BY <1>2, <2>2, NothingWritten DEF InStep
  <2> QED
    BY <1>2, <2>1, <2>2, <2>3, StaysInStep
<1> QED
  BY <1>2, <1>3 DEF AllInStep, Following, Queued

LEMMA KeepsAllInStep ==
  ASSUME ServedInv, [Next]_vars
  PROVE  AllInStep'
<1>1. /\ CatalogTypeOK /\ QueueTypeOK /\ JobShaped /\ DeliveryShaped /\ AllInStep /\ AnswerTrue
  BY DEF ServedInv, CatalogInv, TypeOK
<1>2. ASSUME UNCHANGED <<follows, catalog, orders, queue>>,
             \A b \in Strategies : Following /\ catalog[b] # None =>
               /\ archive'[b] = archive[b] \/ archive'[b] = catalog[b].shares
               /\ catalog[b].shares = 0 \/ Awaiting(b)' \/ ~Awaiting(b)
      PROVE  AllInStep'
  BY <1>2, KeepsStep DEF AllInStep, Following, Queued
<1>3. ASSUME UNCHANGED <<follows, catalog, orders, queue, archive, late, unqueued>>,
             Ordering' <=> Ordering, Ordering => job'.at = job.at
      PROVE  AllInStep'
  BY <1>2, <1>3 DEF Awaiting
<1>4. CASE UNCHANGED <<catalogVars, queueVars, job>>
  BY <1>3, <1>4 DEF catalogVars, queueVars, Ordering
<1>5. CASE StartDelivery
  BY <1>1, <1>3, <1>5, StartedJob DEF StartDelivery, catalogVars, queueVars, Ordering
<1>6. ASSUME NEW b \in Strategies, TakeRow(b)
      PROVE  AllInStep'
  BY <1>1, <1>3, <1>6, TakenJob DEF TakeRow, catalogVars, queueVars, Ordering
<1>7. CASE ArchiveBinding
  <2>1. /\ job # None /\ job' # None /\ job'.kind = job.kind /\ job'.at = job.at
        /\ archive' = [archive EXCEPT ![job.at] = catalog[job.at].shares]
        /\ UNCHANGED <<follows, catalog, orders, queue, late, unqueued>>
    BY <1>1, <1>7, ArchivedJob DEF ArchiveBinding, catalogVars
  <2>2. \A b \in Strategies : archive'[b] = archive[b] \/ archive'[b] = catalog[b].shares
    BY <1>1, <2>1 DEF QueueTypeOK
  <2>3. \A b : Awaiting(b)' = Awaiting(b)
    BY <2>1 DEF Awaiting, Ordering
  <2> QED
    BY <1>2, <2>1, <2>2, <2>3
<1>8. CASE PublishCurrent
  BY <1>1, <1>3, <1>8, PublishingJob DEF PublishCurrent, catalogVars, queueVars, Ordering
<1>9. ASSUME NEW outcome \in Outcomes, Answered(outcome), job # None, job.stage # "next"
      PROVE  ~Ordering /\ ~Ordering'
  BY <1>1, <1>9, AnsweredJob DEF Ordering
<1>10. CASE ArchiveFails
  <2>1. /\ UNCHANGED <<follows, catalog, orders, queue, archive, late, unqueued>>
        /\ Answered("failed") /\ job # None /\ job.stage # "next"
    BY <1>10 DEF ArchiveFails, catalogVars, queueVars
  <2>2. "failed" \in Outcomes
    BY DEF Outcomes
  <2>3. ~Ordering /\ ~Ordering'
    BY <1>9, <2>1, <2>2
  <2> QED
    BY <1>3, <2>1, <2>3
<1>11. CASE PublishAnswered
  <2>1. /\ UNCHANGED <<redisVars, follows, catalog, orders, queue, archive, late>>
        /\ unqueued' = IF answer = "ok" THEN unqueued \ {job.at} ELSE unqueued
        /\ Answered(IF answer = "ok" THEN "deleted" ELSE "archived")
        /\ job # None /\ job.stage = "wait" /\ answer # None
    BY <1>11 DEF PublishAnswered, catalogVars
  <2>2. ~Ordering /\ ~Ordering'
    BY <1>9, <2>1 DEF Outcomes
  <2>3. job.at \in Strategies
    BY <1>1, <2>1, JobAtBinding
  <2>4. ASSUME NEW b \in Strategies, Following, catalog[b] # None, b \notin Queued
        PROVE  InStep(b)'
    <3>1. CASE b # job.at \/ answer # "ok"
      <4>1. Awaiting(b)' = Awaiting(b)
        BY <2>1, <2>2, <3>1 DEF Awaiting
      <4> QED
        BY <2>1, <2>4, <4>1, KeepsStep
    <3>2. CASE b = job.at /\ answer = "ok"
      <4>1. Written(b)
        BY <1>1, <2>1, <3>2 DEF AnswerTrue
      <4>2. PICK f \in Families : Owner(f, b) /\ config[f][b] = Effective(b)
        BY <4>1 DEF Written
      <4>3. Owner(f, b)' /\ config'[f][b] = Effective(b)
        BY <2>1, <4>2 DEF redisVars, Owner
      <4>4. Effective(b) \in Configs /\ Effective(b) # None
        BY <1>1, <2>4, EffectiveTyped, AbsentAssumption
      <4>5. archive'[b] = catalog[b].shares
        BY <1>1, <2>1, <2>4 DEF AllInStep, InStep
      <4>6. /\ Effective(b).shares = catalog[b].shares
            /\ Effective(b).order = orders[catalog[b].order]
        BY DEF Effective
      <4> QED
        BY <2>1, <4>3, <4>4, <4>5, <4>6 DEF InStep
    <3> QED
      BY <3>1, <3>2
  <2> QED
    BY <2>1, <2>4 DEF AllInStep, Following, Queued
<1>12. CASE Disconnect \/ Crash
  <2>1. /\ UNCHANGED <<follows, catalog, orders, queue, archive>> /\ OrderAbandoned /\ job' = None
    BY <1>12 DEF Disconnect, Crash, catalogVars
  <2>2. ASSUME NEW b \in Strategies, Following, catalog[b] # None, Awaiting(b)
        PROVE  catalog[b].shares = 0 \/ Awaiting(b)'
    <3>1. unqueued \subseteq unqueued' /\ late \subseteq late'
      BY <2>1 DEF OrderAbandoned
    <3>2. CASE b \in unqueued \/ catalog[b].order \in late
      BY <2>1, <3>1, <3>2 DEF Awaiting
    <3>3. CASE Ordering /\ job.at = catalog[b].order
      <4>1. CASE late' = late \union {job.at}
        BY <2>1, <3>3, <4>1 DEF Awaiting
      <4>2. CASE unqueued' = unqueued \union Users(job.at)
        <5>1. catalog[b] \in Bindings
          BY <1>1, <2>2 DEF CatalogTypeOK
        <5>2. b \in Users(job.at) \/ catalog[b].shares = 0
          BY <2>2, <3>3, <5>1 DEF Users, Bindings
        <5> QED
          BY <4>2, <5>2 DEF Awaiting
      <4> QED
        BY <2>1, <3>3, <4>1, <4>2 DEF OrderAbandoned, Ordering
    <3> QED
      BY <2>2, <3>2, <3>3 DEF Awaiting
  <2> QED
    BY <1>2, <2>1, <2>2
<1>13. CASE Client /\ UNCHANGED <<catalogVars, queueVars, job, edits>>
  BY <1>4, <1>13
<1>14. CASE Exec /\ UNCHANGED <<catalogVars, queueVars, job, edits>>
  BY <1>4, <1>14
<1> QED
  BY <1>4, <1>5, <1>6, <1>7, <1>8, <1>10, <1>11, <1>12, <1>13, <1>14, KeepsStepFinish,
     KeepsStepConfigure DEF Next, Deliver, Perform, vars

-----------------------------------------------------------------------------
(***************************************************************************)
(* Theorems about Exec and the followers                                    *)
(***************************************************************************)
LEMMA ServedInitially == Init => ServedInv
<1> SUFFICES ASSUME Init PROVE ServedInv
  OBVIOUS
<1>1. CatalogInv
  BY CatalogInitially
<1>2. op = None /\ answer = None /\ job = None /\ ~Following
  BY DEF Init, ExecInit, Following
<1>3. OneFamily /\ SwitchesOpposed
  BY DEF Init, ExecInit, OneFamily, SwitchesOpposed, Families
<1> QED
  BY <1>1, <1>2, <1>3 DEF ServedInv, OpCurrent, AnswerTrue, Delivered, AllInStep

\* The whole invariant, for an Exec that moves no strategy from one family to
\* the other while the Manager publishes.
THEOREM ServedInvariance ==
  ASSUME Overlap = FALSE
  PROVE  Spec => []ServedInv
<1>1. ServedInv /\ [Next]_vars => ServedInv'
  <2> SUFFICES ASSUME ServedInv, [Next]_vars PROVE ServedInv'
    OBVIOUS
  <2>1. CatalogInv'
    BY KeepsTypes, KeepsJobShape, KeepsRows, KeepsDelivery, KeepsRevisions,
       KeepsEffectiveShares DEF ServedInv, CatalogInv
  <2> QED
    BY <2>1, KeepsFamilies, KeepsOp, KeepsAnswer, KeepsDelivered, KeepsAllInStep
       DEF ServedInv
<1> QED
  BY <1>1, ServedInitially, PTL DEF Spec

\* OneFamily: no publish, whatever fails, leaves a strategy to both families.
THEOREM OneFamilyOwns ==
  ASSUME Overlap = FALSE
  PROVE  Spec => []OneFamily
<1>1. ServedInv => OneFamily
  BY DEF ServedInv
<1> QED
  BY <1>1, ServedInvariance, PTL

\* FollowersServed: unless its row is queued, its publish or its order edit is
\* under way, or that edit ended early, Exec carries what a following account's
\* binding says, and the archive has it.
THEOREM NoFollowerForgotten ==
  ASSUME Overlap = FALSE
  PROVE  Spec => []FollowersServed
<1>1. ServedInv => FollowersServed
  <2> SUFFICES ASSUME ServedInv, Following, NEW b \in Strategies,
                      b \notin Queued, b \notin unqueued, catalog[b] # None, ~Busy(b)
               PROVE  Carried(b) /\ archive[b] = catalog[b].shares
    BY DEF FollowersServed
  <2>1. InStep(b) /\ SwitchesOpposed /\ ExecTypeOK
    BY DEF ServedInv, CatalogInv, TypeOK, AllInStep
  <2>2. ~Awaiting(b)
    BY DEF Awaiting, Busy, Ordering
  <2>3. PICK f \in Families :
          /\ Owner(f, b) /\ config[f][b] # None
          /\ config[f][b].shares = catalog[b].shares
          /\ catalog[b].shares > 0 => config[f][b].order = orders[catalog[b].order]
    BY <2>1, <2>2 DEF InStep
  <2>4. Owns(f, b)
    BY <2>3 DEF Owner, Owns
  <2> QED
    BY <2>1, <2>3, <2>4 DEF Carried, InStep
<1> QED
  BY <1>1, ServedInvariance, PTL
=============================================================================
