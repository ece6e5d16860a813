--------------------------- MODULE ReserveManager ---------------------------
(***************************************************************************)
(* The BNB reserve of an account (src/src/bnb_auto.rs): a controller that   *)
(* refills the reserve with Convert purchases, moves BNB between the spot,  *)
(* futures and Earn wallets and hedges the total.  An operation is          *)
(* journaled before its POST, and until its outcome is known nothing else   *)
(* is submitted: not after a lost answer, a failed write of the journal or  *)
(* a restart.                                                               *)
(*                                                                         *)
(* BNB is counted in whole units, of BFUSD only the wallet that holds it    *)
(* matters, thresholds are constants and the other settings reduce to the   *)
(* enable switch.  The exchange is part of the model.                       *)
(***************************************************************************)
EXTENDS Naturals, FiniteSets, Functions

CONSTANTS
  Required, RefillTrigger, RefillTarget,       \* of the managed total
  FuturesTrigger, FuturesTarget, FuturesSweep,
  EarnMin,
  OpIds,        \* exchange ids of operations; a settled one may be used again
  NoOp,         \* no operation
  LatePayout    \* Earn may pay out between two queries of one round

ASSUME ThresholdsAssumption ==
  /\ {Required, RefillTrigger, RefillTarget, FuturesTrigger, FuturesTarget,
      FuturesSweep, EarnMin} \subseteq Nat
  /\ Required < RefillTrigger /\ RefillTrigger < RefillTarget
  /\ FuturesTrigger < FuturesTarget /\ FuturesTarget < FuturesSweep
  /\ FuturesTarget < RefillTarget
  /\ EarnMin > 0
ASSUME LatePayoutAssumption == LatePayout \in BOOLEAN

Wallets == {"spot", "futures", "earn"}
Kinds == {"transfer", "bfusd", "redeem", "subscribe", "burn", "convert"}
Stages == {"sent", "processing", "paying", "done", "failed"}
Op == [kind : Kinds, from : Wallets, to : Wallets, amount : Nat]
Order == [op : Op, stage : Stages]
Pending == [id : OpIds, op : Op, floor : Nat, answered : BOOLEAN]
Journal == [pending : Pending \cup {NoOp}, latched : BOOLEAN,
            route : {"none", "futures", "spot"}]

ASSUME OpIdsAssumption == IsFiniteSet(OpIds)
ASSUME NoOpAssumption == NoOp \notin Order \cup Pending

VARIABLES
  wallet,    \* exchange: the BNB of each wallet
  bfusd,     \* exchange: the wallet that holds the BFUSD
  burnOn,    \* exchange: the fee discount is on
  orders,    \* exchange: the operation under each id, with its stage
  journal,   \* bnb-auto.json: pending operation, refill latch, Convert route
  enabled,   \* bnb-auto.json: settings.enabled
  pc,        \* the step of the round that holds the funds gate
  account,   \* the round's copy of the journal
  balances,  \* the balances the round read
  hedge      \* Redis: size of the published reserve hedge

exchangeVars == <<wallet, bfusd, burnOn, orders>>
vars == <<exchangeVars, journal, enabled, pc, account, balances, hedge>>

Total(w) == w["spot"] + w["futures"] + w["earn"]

Current == [wallet |-> wallet, bfusd |-> bfusd]
Unread == [wallet |-> [w \in Wallets |-> 0], bfusd |-> "spot"]
Blank == [pending |-> NoOp, latched |-> FALSE, route |-> "none"]

Settled(id) == orders[id] # NoOp => orders[id].stage \in {"done", "failed"}

\* Any balances an account may have that holds no more than a full reserve.
Init ==
  /\ wallet \in [Wallets -> 0..RefillTarget] /\ Total(wallet) <= RefillTarget
  /\ bfusd \in {"spot", "futures"} /\ burnOn \in BOOLEAN
  /\ orders = [id \in OpIds |-> NoOp]
  /\ journal = Blank /\ enabled = FALSE
  /\ pc = "idle" /\ account = Blank /\ balances = Unread
  /\ hedge = 0

-----------------------------------------------------------------------------
(***************************************************************************)
(* The exchange, as the controller uses it                                  *)
(***************************************************************************)
Moved(op) ==
  [wallet EXCEPT ![op.from] = @ - op.amount, ![op.to] = @ + op.amount]

InStage(id, s) == [orders EXCEPT ![id].stage = s]

\* A request arrives.  Wallet transfers and the discount switch act at once, Earn
\* takes the amount and pays out later, Convert works on an accepted quote.
Arrives(id) ==
  LET op == orders[id].op IN
  /\ orders[id] # NoOp /\ orders[id].stage = "sent"
  /\ \/ /\ op.kind = "transfer" /\ op.amount <= wallet[op.from]
        /\ wallet' = Moved(op) /\ orders' = InStage(id, "done")
        /\ UNCHANGED <<bfusd, burnOn>>
     \/ /\ op.kind = "bfusd"
        /\ bfusd' = op.to /\ orders' = InStage(id, "done")
        /\ UNCHANGED <<wallet, burnOn>>
     \/ /\ op.kind = "burn"
        /\ burnOn' = TRUE /\ orders' = InStage(id, "done")
        /\ UNCHANGED <<wallet, bfusd>>
     \/ /\ op.kind \in {"redeem", "subscribe"} /\ op.amount <= wallet[op.from]
        /\ wallet' = [wallet EXCEPT ![op.from] = @ - op.amount]
        /\ orders' = InStage(id, "paying")
        /\ UNCHANGED <<bfusd, burnOn>>
     \/ /\ op.kind = "convert"
        /\ orders' = InStage(id, "processing")
        /\ UNCHANGED <<wallet, bfusd, burnOn>>
  /\ UNCHANGED <<journal, enabled, pc, account, balances, hedge>>

\* The request is rejected, or never arrives.
Dropped(id) ==
  /\ orders[id] # NoOp /\ orders[id].stage = "sent"
  /\ orders' = [orders EXCEPT ![id] = NoOp]
  /\ UNCHANGED <<wallet, bfusd, burnOn, journal, enabled, pc, account, balances, hedge>>

\* Earn pays out, or gives the amount back.
PaysOut(id) ==
  LET op == orders[id].op IN
  /\ orders[id] # NoOp /\ orders[id].stage = "paying"
  /\ LatePayout \/ pc # "reconcile"
  /\ \/ /\ wallet' = [wallet EXCEPT ![op.to] = @ + op.amount]
        /\ orders' = InStage(id, "done")
     \/ /\ wallet' = [wallet EXCEPT ![op.from] = @ + op.amount]
        /\ orders' = InStage(id, "failed")
  /\ UNCHANGED <<bfusd, burnOn, journal, enabled, pc, account, balances, hedge>>

\* Convert delivers, or fails.
Converts(id) ==
  LET op == orders[id].op IN
  /\ orders[id] # NoOp /\ orders[id].stage = "processing"
  /\ \/ /\ wallet' = [wallet EXCEPT ![op.to] = @ + op.amount]
        /\ orders' = InStage(id, "done")
     \/ /\ orders' = InStage(id, "failed")
        /\ UNCHANGED wallet
  /\ UNCHANGED <<bfusd, burnOn, journal, enabled, pc, account, balances, hedge>>

\* Trading fees.
Fee ==
  /\ wallet["futures"] > 0
  /\ wallet' = [wallet EXCEPT !["futures"] = @ - 1]
  /\ UNCHANGED <<bfusd, burnOn, orders, journal, enabled, pc, account, balances, hedge>>

\* AutoEarnHub's sweep of spot BFUSD, under the same funds gate.
SweepSpotBfusd ==
  /\ pc = "idle" /\ bfusd = "spot"
  /\ bfusd' = "futures"
  /\ UNCHANGED <<wallet, burnOn, orders, journal, enabled, pc, account, balances, hedge>>

-----------------------------------------------------------------------------
(***************************************************************************)
(* A round (BnbManager::execute_with_api).  BnbManager::commit replaces the *)
(* journal in the file and in memory together, or in neither; the round     *)
(* goes on with its own copy either way.                                    *)
(***************************************************************************)
Saved(a, next)   == account' = a /\ journal' = a /\ pc' = next
Unsaved(a, next) == account' = a /\ UNCHANGED journal /\ pc' = next

EndRound == pc' = "idle" /\ account' = Blank /\ balances' = Unread

StartRound ==
  /\ pc = "idle" /\ enabled
  /\ account' = journal /\ balances' = Current
  /\ pc' = IF journal.pending = NoOp THEN "latch" ELSE "reconcile"
  /\ UNCHANGED <<exchangeVars, journal, enabled, hedge>>

-----------------------------------------------------------------------------
(***************************************************************************)
(* Reconciling the pending operation (BnbManager::reconcile)                *)
(***************************************************************************)
\* The exchange says that an accepted quote failed.
QuoteFailed(p) ==
  p.op.kind = "convert" /\ orders[p.id] # NoOp /\ orders[p.id].stage = "failed"

\* It reports success: by the status of the quote, by the state of the switch,
\* and otherwise in the persisted answer.
Succeeded(p) ==
  \/ p.op.kind = "convert" /\ orders[p.id] # NoOp /\ orders[p.id].stage = "done"
  \/ p.op.kind = "burn" /\ burnOn
  \/ p.op.kind \notin {"convert", "burn"} /\ p.answered

\* Fault: the receipt is taken for granted.
SeenAnyway(p, b) == TRUE

\* The receiving balance shows the amount.
Seen(p, b) ==
  \/ p.op.kind = "burn"
  \/ p.op.kind = "bfusd" /\ b.bfusd = p.op.to
  \/ p.op.kind = "convert" /\ Total(b.wallet) >= p.floor
  \/ p.op.kind \in {"transfer", "redeem", "subscribe"} /\ b.wallet[p.op.to] >= p.floor

\* Fault: the history is not asked.
NotResolved(p, stage) == FALSE

\* history::resolve, thirty seconds after the submission or later.
Resolved(p, stage) ==
  /\ p.op.kind \notin {"convert", "burn"} /\ p.answered
  /\ orders[p.id] # NoOp /\ orders[p.id].stage = stage

Cleared(a) == [a EXCEPT !.pending = NoOp]

\* A purchase that arrived also ends its refill.
Finished(a) == IF a.pending.op.kind = "convert" THEN Blank ELSE Cleared(a)

ReconcileSeen ==
  /\ pc = "reconcile"
  /\ Succeeded(account.pending) /\ Seen(account.pending, balances)
  /\ Saved(Finished(account), "latch")
  /\ UNCHANGED <<exchangeVars, enabled, balances, hedge>>

\* The receipt was spent before it was observed.
ReconcileResolved ==
  /\ pc = "reconcile"
  /\ ~Seen(account.pending, balances) /\ Resolved(account.pending, "done")
  /\ Saved(Cleared(account), "latch")
  /\ UNCHANGED <<exchangeVars, enabled, balances, hedge>>

\* Certain failure: a later round may try again.
ReconcileFailed ==
  /\ pc = "reconcile"
  /\ \/ QuoteFailed(account.pending)
     \/ ~Seen(account.pending, balances) /\ Resolved(account.pending, "failed")
  /\ journal' = Cleared(account)
  /\ EndRound
  /\ UNCHANGED <<exchangeVars, enabled, hedge>>

\* No answer from the exchange, not final yet, or the journal was not saved.
ReconcileLater ==
  /\ pc = "reconcile"
  /\ EndRound
  /\ UNCHANGED <<exchangeVars, journal, enabled, hedge>>

-----------------------------------------------------------------------------
(***************************************************************************)
(* Funding (BnbManager::manage_funds, refill): at most one operation        *)
(***************************************************************************)
Monus(m, n) == IF m > n THEN m - n ELSE 0

Owned == Total(balances.wallet)
FuturesBnb == balances.wallet["futures"]
SpotBnb == balances.wallet["spot"]
EarnBnb == balances.wallet["earn"]

\* Fault: the fee wallet is filled up to the sweep.
FeeWalletBelowSweep == FuturesBnb <= FuturesSweep

FeeWalletLow == FuturesBnb <= FuturesTrigger

\* Filling the fee wallet would take the total to the VIP requirement.
FeeShort ==
  /\ FeeWalletLow
  /\ Owned <= Required + Monus(FuturesTarget, FuturesBnb + SpotBnb)

\* refill_quantity
Quantity ==
  IF account.latched \/ Owned <= RefillTrigger THEN Monus(RefillTarget, Owned) ELSE 0

LatchRefill ==
  /\ pc = "latch"
  /\ ~account.latched /\ (FeeShort \/ Quantity > 0)
  /\ LET a == [account EXCEPT !.latched = TRUE] IN
       Saved(a, "fund") \/ Unsaved(a, "hedge")
  /\ UNCHANGED <<exchangeVars, enabled, balances, hedge>>

KeepLatch ==
  /\ pc = "latch"
  /\ account.latched \/ ~(FeeShort \/ Quantity > 0)
  /\ pc' = "fund"
  /\ UNCHANGED <<exchangeVars, journal, enabled, account, balances, hedge>>

UnlatchRefill ==
  /\ pc = "fund" /\ account.latched /\ Quantity = 0
  /\ LET a == [account EXCEPT !.latched = FALSE, !.route = "none"] IN
       Saved(a, "fund") \/ Unsaved(a, "hedge")
  /\ UNCHANGED <<exchangeVars, enabled, balances, hedge>>

Refilling == pc = "fund" /\ account.latched /\ Quantity > 0

\* The wallet with a direct pair; the futures wallet may lose its pair later.
ChooseRoute ==
  /\ Refilling
  /\ \E r \in {"futures", "spot"} :
       LET a == [account EXCEPT !.route = r] IN
       \/ account.route = "none" /\ (Saved(a, "fund") \/ Unsaved(a, "hedge"))
       \/ account.route = "futures" /\ r = "spot" /\ (Saved(a, "hedge") \/ Unsaved(a, "hedge"))
  /\ UNCHANGED <<exchangeVars, enabled, balances, hedge>>

\* BnbManager::submit up to the POST.  Nothing is sent when the journal is not saved.
Submit(kind, from, to, amount) ==
  LET id == CHOOSE i \in OpIds : Settled(i)
      op == [kind |-> kind, from |-> from, to |-> to, amount |-> amount]
      floor == IF kind = "convert" THEN Owned + amount
               ELSE balances.wallet[to] + amount
      p == [id |-> id, op |-> op, floor |-> floor, answered |-> FALSE]
  IN
  /\ account.pending = NoOp
  /\ \E i \in OpIds : Settled(i)
  /\ orders' = [orders EXCEPT ![id] = NoOp]
  /\ LET a == [account EXCEPT !.pending = p] IN
       Saved(a, "post") \/ Unsaved(a, "hedge")
  /\ UNCHANGED <<wallet, bfusd, burnOn, enabled, balances, hedge>>

\* Bring the BFUSD to the wallet of the route, then accept a quote there.
Refill ==
  /\ Refilling /\ account.route # "none"
  /\ IF balances.bfusd = account.route
     THEN Submit("convert", account.route, account.route, Quantity)
     ELSE Submit("bfusd", balances.bfusd, account.route, 0)

Balanced == pc = "fund" /\ ~account.latched

EnableBurn == Balanced /\ ~burnOn /\ Submit("burn", "futures", "futures", 0)

TopUpFutures ==
  LET gap == FuturesTarget - FuturesBnb IN
  /\ Balanced /\ burnOn /\ FeeWalletLow
  /\ \/ /\ SpotBnb > 0
        /\ Submit("transfer", "spot", "futures", IF gap < SpotBnb THEN gap ELSE SpotBnb)
     \/ /\ SpotBnb = 0 /\ EarnBnb >= gap /\ Owned > Required + gap
        /\ Submit("redeem", "earn", "spot", gap)

SweepFutures ==
  /\ Balanced /\ burnOn
  /\ FuturesBnb >= FuturesSweep /\ FuturesBnb - FuturesTarget >= EarnMin
  /\ Submit("transfer", "futures", "spot", FuturesBnb - FuturesTarget)

Subscribe ==
  /\ Balanced /\ burnOn
  /\ ~FeeWalletLow /\ SpotBnb >= EarnMin
  /\ \E amount \in EarnMin..SpotBnb : Submit("subscribe", "spot", "earn", amount)

\* Nothing to do, or something refuses: a limit, the rate limiter, the exchange.
NoFunding ==
  /\ pc = "fund"
  /\ pc' = "hedge"
  /\ UNCHANGED <<exchangeVars, journal, enabled, account, balances, hedge>>

-----------------------------------------------------------------------------
(***************************************************************************)
(* The POST and its answer                                                  *)
(***************************************************************************)
Post ==
  /\ pc = "post"
  /\ orders' = [orders EXCEPT ![account.pending.id] =
       [op |-> account.pending.op, stage |-> "sent"]]
  /\ pc' = "wait"
  /\ UNCHANGED <<wallet, bfusd, burnOn, journal, enabled, account, balances, hedge>>

\* The limiter keeps the request back, or Earn finds a redemption too small.
PostRefused ==
  /\ pc = "post"
  /\ Saved(Cleared(account), "hedge") \/ Unsaved(Cleared(account), "hedge")
  /\ UNCHANGED <<exchangeVars, enabled, balances, hedge>>

Answered ==
  /\ pc = "wait"
  /\ orders[account.pending.id] # NoOp /\ orders[account.pending.id].stage # "sent"
  /\ LET a == [account EXCEPT !.pending.answered = TRUE] IN
       Saved(a, "recheck") \/ Unsaved(a, "recheck")
  /\ UNCHANGED <<exchangeVars, enabled, balances, hedge>>

\* Fault: an operation without an answer is given up.
ForgetUnanswered(a) == Cleared(a)

\* An error or a timeout: the outcome is open.
KeptUnanswered(a) == a

Unanswered ==
  /\ pc = "wait"
  /\ journal' = KeptUnanswered(journal)
  /\ pc' = "hedge"
  /\ UNCHANGED <<exchangeVars, enabled, account, balances, hedge>>

\* Fresh balances may show the receipt at once; if not, a later round asks.
Recheck ==
  /\ pc = "recheck"
  /\ \/ /\ Succeeded(account.pending) /\ Seen(account.pending, Current)
        /\ \/ Saved(Finished(account), "hedge") /\ balances' = Current
           \/ Unsaved(Finished(account), "hedge") /\ UNCHANGED balances
     \/ /\ QuoteFailed(account.pending)
        /\ Saved(Cleared(account), "hedge") \/ Unsaved(Cleared(account), "hedge")
        /\ UNCHANGED balances
     \/ Unsaved(account, "hedge") /\ UNCHANGED balances
  /\ UNCHANGED <<exchangeVars, enabled, hedge>>

\* Fault: the hedge does not wait for the pending operation.
HedgeAnyway == TRUE

HedgeAllowed == account.pending = NoOp

\* BnbManager::hedge, when its checks let it publish: the attempt is journaled
\* before Redis is written, and Redis may refuse it.
PublishHedge ==
  /\ pc = "hedge" /\ HedgeAllowed
  /\ journal' = account
  /\ hedge' \in {hedge, Owned}
  /\ EndRound
  /\ UNCHANGED <<exchangeVars, enabled>>

SkipHedge ==
  /\ pc = "hedge"
  /\ EndRound
  /\ UNCHANGED <<exchangeVars, journal, enabled, hedge>>

-----------------------------------------------------------------------------
\* BnbManager::save, on the enable switch.
Save ==
  /\ pc = "idle"
  /\ journal.pending = NoOp \/ enabled
  /\ enabled' = ~enabled
  /\ UNCHANGED <<exchangeVars, journal, pc, account, balances, hedge>>

\* The operator confirms the outcome of the pending operation, having verified
\* at the exchange that it is final.
Acknowledge ==
  /\ pc = "idle" /\ journal.pending # NoOp
  /\ Settled(journal.pending.id)
  /\ journal' = Finished(journal)
  /\ UNCHANGED <<exchangeVars, enabled, pc, account, balances, hedge>>

Crash ==
  /\ pc # "idle"
  /\ EndRound
  /\ UNCHANGED <<exchangeVars, journal, enabled, hedge>>

Exchange ==
  \/ \E id \in OpIds : Arrives(id) \/ Dropped(id) \/ PaysOut(id) \/ Converts(id)
  \/ Fee \/ SweepSpotBfusd

Reconcile ==
  ReconcileSeen \/ ReconcileResolved \/ ReconcileFailed \/ ReconcileLater

Fund ==
  \/ LatchRefill \/ KeepLatch \/ UnlatchRefill \/ ChooseRoute \/ Refill
  \/ EnableBurn \/ TopUpFutures \/ SweepFutures \/ Subscribe \/ NoFunding

Round ==
  \/ StartRound \/ Reconcile \/ Fund
  \/ Post \/ PostRefused \/ Answered \/ Unanswered \/ Recheck
  \/ PublishHedge \/ SkipHedge

Next == Exchange \/ Round \/ Save \/ Acknowledge \/ Crash

Spec == Init /\ [][Next]_vars

-----------------------------------------------------------------------------
(***************************************************************************)
(* Safety                                                                   *)
(***************************************************************************)
\* Every variable has its type; between two rounds no copy of the journal is kept.
TypeOK ==
  /\ wallet \in [Wallets -> Nat] /\ bfusd \in Wallets /\ burnOn \in BOOLEAN
  /\ orders \in [OpIds -> Order \cup {NoOp}]
  /\ journal \in Journal /\ enabled \in BOOLEAN
  /\ pc \in {"idle", "reconcile", "latch", "fund", "post", "wait", "recheck", "hedge"}
  /\ account \in Journal
  /\ balances \in [wallet : [Wallets -> Nat], bfusd : Wallets]
  /\ hedge \in Nat
  /\ pc = "idle" => account = Blank

\* An operation whose outcome is open at the exchange is the pending one of the
\* journal: no crash, lost answer or failed save lets a second one go out beside
\* it, or be submitted twice (docs/bnb_reserve_management.md: "Pending actions
\* survive restarts and block subsequent mutations").
OpenIsJournaled ==
  \A id \in OpIds : ~Settled(id) => journal.pending # NoOp /\ journal.pending.id = id

\* BNB on its way into a wallet.
OnItsWay(id) ==
  IF Settled(id) THEN 0
  ELSE IF orders[id].stage = "paying" \/ orders[id].op.kind = "convert"
       THEN orders[id].op.amount ELSE 0

\* What the account owns, or will own when everything under way succeeds.
Reserve == Total(wallet) + SumFunction([id \in OpIds |-> OnItsWay(id)])

\* One shortage is bought once: with everything on its way counted, the reserve
\* never exceeds the target of a refill.
ReserveWithinTarget == Reserve <= RefillTarget

\* The hedge is resized only while nothing is on its way between the wallets or
\* into them.
HedgeOnSettled ==
  [][hedge' # hedge => \A id \in OpIds : Settled(id)]_vars

\* Buying starts when the managed reserve is at or below the trigger, or filling
\* the fee wallet would touch the VIP requirement (docs/bnb_reserve_management.md).
RefillStartsLow ==
  [][journal'.latched /\ ~journal.latched =>
       \/ Reserve <= RefillTrigger
       \/ Reserve <= Required + FuturesTarget]_vars

(***************************************************************************)
(* Liveness.  The loop polls for ever; the exchange gets an operation to an *)
(* end and answers a query that is repeated for ever, crashes notwithstanding. *)
(***************************************************************************)
Fairness ==
  /\ SF_vars(\E id \in OpIds : PaysOut(id))
  /\ SF_vars(StartRound)
  /\ SF_vars(ReconcileSeen \/ ReconcileResolved \/ ReconcileFailed)
  /\ WF_vars(Reconcile) /\ WF_vars(Fund) /\ WF_vars(Post \/ PostRefused)
  /\ WF_vars(Answered \/ Unanswered) /\ WF_vars(Recheck) /\ WF_vars(SkipHedge)

FairSpec == Spec /\ Fairness

\* An answered wallet or Earn operation never waits for the operator: its receipt
\* is seen, or the exchange history settles it, unless management is switched off.
SettlesItself ==
  (journal.pending # NoOp /\ journal.pending.answered
     /\ journal.pending.op.kind \notin {"convert", "burn"})
  ~> (journal.pending = NoOp \/ ~enabled)
=============================================================================
