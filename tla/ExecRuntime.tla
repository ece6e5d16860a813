---------------------------- MODULE ExecRuntime ----------------------------
(***************************************************************************)
(* The Redis keys one Exec account reads, and the Manager's publish into    *)
(* them (src/src/redis_runtime.rs).                                         *)
(*                                                                         *)
(* The account has one market; with a second market the same keys exist    *)
(* twice and every transaction writes both.  A published configuration is  *)
(* the shares and the order parameters it carries: targets are the live    *)
(* target times the shares, so the shares stand for them.                  *)
(*                                                                         *)
(* A publish holds the mutex of the connection.  It reads the indexes and  *)
(* the switch, decides, and sends one transaction that watches none of     *)
(* them; then it reads back what it wrote.  Exec, another process, moves a *)
(* strategy between the two execution families on request.                 *)
(***************************************************************************)
EXTENDS Naturals, FiniteSets

CONSTANTS
  Strategies,    \* binding names, the strategy names of Exec
  Orders,        \* order parameters, as far as Exec tells them apart
  FamilyOf,      \* execution family of the algorithm of the parameters
  None,          \* an absent key or an idle operation
  MaxShares,     \* bound on shares
  MaxLosses,     \* bound on Redis failures and on crashes together
  Overlap        \* Exec may move a strategy while a publish is under way

Families == {"batch_exec", "chase_exec"}

ASSUME FamilyAssumption == FamilyOf \in [Orders -> Families]
ASSUME OverlapAssumption == Overlap \in BOOLEAN

VARIABLES
  config,       \* {family}:{strategy}
  names,        \* {family}:strategy_names
  switch,       \* exec_switch:{strategy}
  switchNames,  \* exec_switch:strategy_names
  connected,    \* the long connection is there
  op,           \* the publish that holds the connection
  answer,       \* what the last publish returned to its caller
  losses        \* failures so far, for the bound MaxLosses

redisVars == <<config, names, switch, switchNames>>
clientVars == <<connected, op, answer>>

Opposite(f) == CHOOSE g \in Families : g # f

Configs == [shares : 0..MaxShares, order : Orders]
Switches == [from : Families, to : Families, state : {"requested", "completed"}]

\* What a publish holds between its steps: the configuration it writes and
\* the indexes and the decision of its reads.
Operations ==
  [strategy : Strategies, write : Configs, stage : {"commit", "confirm"},
   names : SUBSET Strategies, switchNames : SUBSET Strategies,
   switching : BOOLEAN, request : BOOLEAN]

\* An absent key or an idle connection is not a record.
ASSUME AbsentAssumption == None \notin Configs \union Switches \union Operations

ExecInit ==
  /\ config = [f \in Families |-> [s \in Strategies |-> None]]
  /\ names = [f \in Families |-> {}]
  /\ switch = [s \in Strategies |-> None]
  /\ switchNames = {}
  /\ connected = TRUE /\ op = None /\ answer = None /\ losses = 0

\* A switch in progress in any other direction than this publish wants.
SwitchUnderWay(s, f) ==
  /\ switch[s] # None
  /\ switch[s].state # "completed"
  /\ <<switch[s].from, switch[s].to>> # <<Opposite(f), f>>

\* Fault: a strategy the other family owns is indexed without a handover.
NeverSwitching(s, f) == FALSE

\* The strategy is indexed by the other family: it has to be handed over.
Switching(s, f) == s \in names[Opposite(f)]

\* Fault: a completed switch is taken for one still under way, so no second
\* one is ever requested.
NeverReusable(s) == switch[s] = None

\* No request is kept, or only that of a switch already completed.
Reusable(s) == switch[s] = None \/ switch[s].state = "completed"

\* The reads and the checks of a publish; a refused one changes nothing.
PublishRefused(s, f) ==
  \/ SwitchUnderWay(s, f)
  \/ Switching(s, f) /\ s \in names[f]

Prepared(s, c, f) ==
  [strategy |-> s, write |-> c, stage |-> "commit",
   names |-> names[f], switchNames |-> switchNames,
   switching |-> Switching(s, f), request |-> Switching(s, f) /\ Reusable(s)]

Publish(s, c) ==
  LET f == FamilyOf[c.order] IN
  /\ op = None /\ answer = None /\ connected
  /\ IF PublishRefused(s, f)
       THEN answer' = "error" /\ op' = None
       ELSE op' = Prepared(s, c, f) /\ answer' = None
  /\ UNCHANGED <<redisVars, connected, losses>>

\* The transaction overwrites whole indexes with what was read before.
Committed ==
  LET s == op.strategy  f == FamilyOf[op.write.order] IN
  /\ config' = [config EXCEPT ![f][s] = op.write]
  /\ switch' = IF op.request
               THEN [switch EXCEPT ![s] =
                       [from |-> Opposite(f), to |-> f, state |-> "requested"]]
               ELSE switch
  /\ switchNames' = IF op.request THEN op.switchNames \union {s} ELSE switchNames
  /\ names' = IF ~op.switching /\ s \notin op.names
              THEN [names EXCEPT ![f] = op.names \union {s}]
              ELSE names

Commit ==
  /\ op # None /\ op.stage = "commit"
  /\ Committed
  /\ op' = [op EXCEPT !.stage = "confirm"]
  /\ UNCHANGED <<connected, answer, losses>>

\* Read back: the payload, and the index or the switch the commit relied on.
Confirmed ==
  LET s == op.strategy  f == FamilyOf[op.write.order] IN
  /\ config[f][s] = op.write
  /\ ~op.switching => s \in names[f]
  /\ op.switching => switch[s] # None

Confirm ==
  /\ op # None /\ op.stage = "confirm"
  /\ answer' = IF Confirmed THEN "ok" ELSE "error"
  /\ op' = None
  /\ UNCHANGED <<redisVars, connected, losses>>

\* A timeout or a transport error: the answer is an error whether or not the
\* transaction was applied, and the connection is given up.
PublishLost ==
  /\ losses < MaxLosses /\ losses' = losses + 1
  /\ op # None
  /\ \/ op.stage = "commit" /\ Committed
     \/ UNCHANGED redisVars
  /\ op' = None /\ answer' = "error" /\ connected' = FALSE

\* A publish that finds no connection and cannot open one.
Unreachable ==
  /\ op = None /\ answer = None /\ ~connected
  /\ answer' = "error"
  /\ UNCHANGED <<redisVars, connected, op, losses>>

\* The keepalive task, or the next operation, opens the connection again.
Reconnect ==
  /\ ~connected /\ op = None
  /\ connected' = TRUE
  /\ UNCHANGED <<redisVars, op, answer, losses>>

\* A failed PING drops the connection; the task holds the mutex meanwhile.
PingFails ==
  /\ losses < MaxLosses /\ losses' = losses + 1
  /\ connected /\ op = None
  /\ connected' = FALSE
  /\ UNCHANGED <<redisVars, op, answer>>

\* Exec has handed the position over: it moves the strategy from one index to
\* the other and completes the switch.
ExecSwitches(s) ==
  /\ Overlap \/ op = None
  /\ switch[s] # None /\ switch[s].state = "requested"
  /\ names' = [names EXCEPT ![switch[s].from] = @ \ {s},
                            ![switch[s].to] = @ \union {s}]
  /\ switch' = [switch EXCEPT ![s].state = "completed"]
  /\ switchNames' = switchNames \ {s}
  /\ UNCHANGED <<config, clientVars, losses>>

ExecTypeOK ==
  /\ config \in [Families -> [Strategies -> Configs \union {None}]]
  /\ names \in [Families -> SUBSET Strategies]
  /\ switch \in [Strategies -> Switches \union {None}]
  /\ switchNames \subseteq Strategies
  /\ connected \in BOOLEAN
  /\ op \in Operations \union {None}
  /\ answer \in {None, "ok", "error"}
  /\ losses \in 0..MaxLosses

(***************************************************************************)
(* A strategy is indexed by one execution family at most.  The two          *)
(* families keep independent position ledgers, and publish_strategy_inner   *)
(* refuses every later publish of a strategy it finds in both.              *)
(***************************************************************************)
OneFamily == \A s \in Strategies : \E f \in Families : s \notin names[f]
=============================================================================
