----------------------- MODULE ReserveManagerProofs -----------------------
(***************************************************************************)
(* Proofs about ReserveManager, for any thresholds and any finite set of    *)
(* operation ids.                                                           *)
(*                                                                         *)
(* TypeOK holds in any case.  The rest is proved for LatePayout = FALSE,    *)
(* that is, while Earn never pays out between the balance read of a round   *)
(* and its reconciliation; the run of ReserveManagerLatePayout.cfg shows    *)
(* what happens otherwise.                                                  *)
(*                                                                         *)
(* An open operation is the journaled one because a round clears the        *)
(* journal only on a final outcome.  For a purchase or an Earn operation    *)
(* that is taken from the balances, so the argument is about floors: the    *)
(* balances a floor is computed from are an upper bound (Fresh), hence an   *)
(* operation that has not paid out is short of its floor by its amount      *)
(* (FloorHolds), and the balances of a reconciliation that began before     *)
(* cannot show it (BalancesHold).                                           *)
(***************************************************************************)
EXTENDS ReserveManager, FiniteSetTheorems, WellFoundedInduction, TLAPS

-----------------------------------------------------------------------------
(***************************************************************************)
(* Types                                                                    *)
(***************************************************************************)
\* A round that reconciles, posts, waits or looks again has a pending operation.
PendingHere ==
  pc \in {"reconcile", "post", "wait", "recheck"} => account.pending # NoOp

TypeInv == TypeOK /\ PendingHere

\* The fields of an order, of a pending operation and of a journal have their types.
LEMMA Fields ==
  /\ \A o \in Order \cup {NoOp} :
       o # NoOp => /\ o.op \in Op /\ o.stage \in Stages
                   /\ o.op.kind \in Kinds /\ o.op.from \in Wallets
                   /\ o.op.to \in Wallets /\ o.op.amount \in Nat
  /\ \A p \in Pending \cup {NoOp} :
       p # NoOp => /\ p.id \in OpIds /\ p.op \in Op
                   /\ p.floor \in Nat /\ p.answered \in BOOLEAN
                   /\ p.op.kind \in Kinds /\ p.op.from \in Wallets
                   /\ p.op.to \in Wallets /\ p.op.amount \in Nat
  /\ \A a \in Journal :
       /\ a.pending \in Pending \cup {NoOp} /\ a.latched \in BOOLEAN
       /\ a.route \in {"none", "futures", "spot"}
BY DEF Order, Pending, Journal, Op

\* The writes of the journal keep its type, and set what they say.
LEMMA JournalWrites ==
  ASSUME NEW a \in Journal
  PROVE  /\ Cleared(a) \in Journal /\ Cleared(a).pending = NoOp
         /\ Blank \in Journal /\ Blank.pending = NoOp
         /\ Finished(a) \in Journal /\ Finished(a).pending = NoOp
         /\ \A l \in BOOLEAN :
              LET b == [a EXCEPT !.latched = l] IN b \in Journal /\ b.pending = a.pending
         /\ \A r \in {"none", "futures", "spot"} :
              LET b == [a EXCEPT !.route = r] IN b \in Journal /\ b.pending = a.pending
         /\ LET b == [a EXCEPT !.latched = FALSE, !.route = "none"]
            IN b \in Journal /\ b.pending = a.pending
         /\ \A p \in Pending :
              LET b == [a EXCEPT !.pending = p] IN b \in Journal /\ b.pending = p
BY DEF Journal, Cleared, Finished, Blank

\* Marking the answer changes nothing else of the pending operation.
LEMMA Answering ==
  ASSUME NEW a \in Journal, a.pending # NoOp
  PROVE  LET b == [a EXCEPT !.pending.answered = TRUE] IN
         /\ b \in Journal
         /\ b.pending # NoOp
         /\ b.pending = [a.pending EXCEPT !.answered = TRUE]
         /\ b.pending.id = a.pending.id /\ b.pending.op = a.pending.op
         /\ b.pending.floor = a.pending.floor /\ b.pending.answered
<1>1. [a.pending EXCEPT !.answered = TRUE] \in Pending
  BY DEF Journal, Pending
<1>2. [a.pending EXCEPT !.answered = TRUE] # NoOp
  BY <1>1, NoOpAssumption
<1> QED BY <1>1, <1>2 DEF Journal, Pending

\* What a funding step submits, and when.
Sends ==
  /\ pc = "fund"
  /\ \E kind \in Kinds, from \in Wallets, to \in Wallets, amount \in Nat :
       /\ Submit(kind, from, to, amount)
       /\ kind \in {"redeem", "subscribe"} => amount > 0
       /\ kind \in {"transfer", "redeem", "subscribe"} => from # to
       /\ kind = "convert" => amount > 0 /\ Owned + amount <= RefillTarget
       /\ kind = "burn" => ~burnOn

LEMMA NatFacts ==
  ASSUME TypeOK
  PROVE  /\ FuturesBnb \in Nat /\ SpotBnb \in Nat /\ EarnBnb \in Nat
         /\ Owned \in Nat /\ Quantity \in Nat
         /\ Quantity > 0 => Owned + Quantity <= RefillTarget
         /\ Total(wallet) \in Nat
         /\ FeeWalletLow => FuturesTarget - FuturesBnb \in Nat /\ FuturesTarget - FuturesBnb > 0
<1>1. FuturesBnb \in Nat /\ SpotBnb \in Nat /\ EarnBnb \in Nat
  BY DEF TypeOK, FuturesBnb, SpotBnb, EarnBnb, Wallets
<1>2. Owned = SpotBnb + FuturesBnb + EarnBnb
  BY DEF Owned, Total, FuturesBnb, SpotBnb, EarnBnb
<1>3. Total(wallet) \in Nat
  BY DEF TypeOK, Total, Wallets
<1> QED BY <1>1, <1>2, <1>3, ThresholdsAssumption DEF Quantity, Monus, FeeWalletLow

LEMMA Refills ==
  ASSUME TypeOK, Refill
  PROVE  Sends
<1>1. account.route \in Wallets /\ balances.bfusd \in Wallets
  BY DEF TypeOK, Journal, Refill, Wallets
<1>2. pc = "fund" /\ Quantity > 0
  BY DEF Refill, Refilling
<1>3. CASE balances.bfusd = account.route
  BY <1>1, <1>2, <1>3, NatFacts DEF Refill, Sends, Kinds
<1>4. CASE balances.bfusd # account.route
  BY <1>1, <1>2, <1>4, NatFacts DEF Refill, Sends, Kinds
<1> QED BY <1>3, <1>4

LEMMA Manages ==
  ASSUME TypeOK, EnableBurn \/ TopUpFutures \/ SweepFutures \/ Subscribe
  PROVE  Sends
<1> USE NatFacts, ThresholdsAssumption DEF Kinds, Wallets
<1>1. pc = "fund"
  BY DEF EnableBurn, TopUpFutures, SweepFutures, Subscribe, Balanced
<1>2. CASE EnableBurn
  BY <1>1, <1>2 DEF EnableBurn, Sends
<1>3. CASE TopUpFutures
  <2> DEFINE gap == FuturesTarget - FuturesBnb
             least == IF gap < SpotBnb THEN gap ELSE SpotBnb
  <2>1. gap \in Nat /\ gap > 0 /\ least \in Nat
    BY <1>3 DEF TopUpFutures
  <2>2. \/ Submit("transfer", "spot", "futures", least)
        \/ Submit("redeem", "earn", "spot", gap)
    BY <1>3 DEF TopUpFutures
  <2> HIDE DEF gap, least
  <2> QED BY <1>1, <2>1, <2>2 DEF Sends
<1>4. CASE SweepFutures
  <2> DEFINE much == FuturesBnb - FuturesTarget
  <2>1. much \in Nat
    BY <1>4 DEF SweepFutures
  <2>2. Submit("transfer", "futures", "spot", much)
    BY <1>4 DEF SweepFutures
  <2> HIDE DEF much
  <2> QED BY <1>1, <2>1, <2>2 DEF Sends
<1>5. CASE Subscribe
  <2>1. PICK amount \in EarnMin..SpotBnb : Submit("subscribe", "spot", "earn", amount)
    BY <1>5 DEF Subscribe
  <2>2. amount \in Nat /\ amount > 0
    BY <2>1
  <2> QED BY <1>1, <2>1, <2>2 DEF Sends
<1> QED BY <1>2, <1>3, <1>4, <1>5

\* A submission journals its operation under a settled id, whose old order is
\* forgotten, or sends nothing.
LEMMA Submission ==
  ASSUME TypeOK, Sends
  PROVE  /\ UNCHANGED <<wallet, bfusd, burnOn, enabled, balances, hedge>>
         /\ account.pending = NoOp /\ pc = "fund"
         /\ \E p \in Pending :
              /\ p # NoOp /\ ~p.answered /\ Settled(p.id)
              /\ account' \in Journal /\ account'.pending = p
              /\ account'.latched = account.latched
              /\ orders' = [orders EXCEPT ![p.id] = NoOp]
              /\ \/ journal' = account' /\ pc' = "post"
                 \/ journal' = journal /\ pc' = "hedge"
              /\ p.op.kind \in {"transfer", "redeem", "subscribe"} => p.op.from # p.op.to
              /\ p.op.kind \in {"redeem", "subscribe"} =>
                   /\ p.op.amount > 0
                   /\ p.floor = balances.wallet[p.op.to] + p.op.amount
              /\ p.op.kind = "convert" =>
                   /\ p.op.amount > 0 /\ p.floor = Owned + p.op.amount
                   /\ p.floor <= RefillTarget
              /\ p.op.kind = "burn" => ~burnOn
<1>1. PICK kind \in Kinds, from \in Wallets, to \in Wallets, amount \in Nat :
        /\ Submit(kind, from, to, amount)
        /\ kind \in {"redeem", "subscribe"} => amount > 0
        /\ kind \in {"transfer", "redeem", "subscribe"} => from # to
        /\ kind = "convert" => amount > 0 /\ Owned + amount <= RefillTarget
        /\ kind = "burn" => ~burnOn
  BY DEF Sends
<1> DEFINE id == CHOOSE i \in OpIds : Settled(i)
           op == [kind |-> kind, from |-> from, to |-> to, amount |-> amount]
           floor == IF kind = "convert" THEN Owned + amount
                    ELSE balances.wallet[to] + amount
           p == [id |-> id, op |-> op, floor |-> floor, answered |-> FALSE]
           a == [account EXCEPT !.pending = p]
<1>2. id \in OpIds /\ Settled(id)
  <2>1. \E i \in OpIds : Settled(i)
    BY <1>1 DEF Submit
  <2> QED BY <2>1
<1>3. floor \in Nat
  BY NatFacts DEF TypeOK
<1>4. /\ account.pending = NoOp /\ orders' = [orders EXCEPT ![id] = NoOp]
      /\ Saved(a, "post") \/ Unsaved(a, "hedge")
      /\ UNCHANGED <<wallet, bfusd, burnOn, enabled, balances, hedge>>
  BY <1>1 DEF Submit
<1> HIDE DEF id, floor
<1>5. p \in Pending /\ p # NoOp
  <2>1. p \in Pending
    BY <1>2, <1>3 DEF Pending, Op
  <2> QED BY <2>1, NoOpAssumption
<1>6. a \in Journal /\ a.pending = p /\ a.latched = account.latched
  <2> HIDE DEF p
  <2> QED BY <1>5 DEF TypeOK, Journal
<1>7. /\ account' = a
      /\ \/ journal' = a /\ pc' = "post"
         \/ journal' = journal /\ pc' = "hedge"
  BY <1>4 DEF Saved, Unsaved
<1>8. p.op.kind = kind /\ p.op.amount = amount /\ p.op.from = from /\ p.op.to = to
      /\ p.floor = floor /\ ~p.answered /\ p.id = id
  OBVIOUS
<1>9. /\ kind = "convert" => floor = Owned + amount
      /\ kind \in {"redeem", "subscribe"} => floor = balances.wallet[to] + amount
  BY DEF floor
<1>10. pc = "fund"
  BY DEF Sends
<1> HIDE DEF p, a
<1> QED BY <1>1, <1>2, <1>4, <1>5, <1>6, <1>7, <1>8, <1>9, <1>10

LEMMA InitTyped == Init => TypeInv
<1> SUFFICES ASSUME Init PROVE TypeInv
  OBVIOUS
<1>1. Blank \in Journal
  BY DEF Blank, Journal
<1>2. Unread \in [wallet : [Wallets -> Nat], bfusd : Wallets]
  BY DEF Unread, Wallets
<1>3. wallet \in [Wallets -> Nat]
  BY ThresholdsAssumption DEF Init
<1> QED BY <1>1, <1>2, <1>3 DEF Init, TypeInv, PendingHere, TypeOK, Wallets

\* The exchange keeps the types.
LEMMA ExchangeTyped ==
  ASSUME TypeInv, Exchange
  PROVE  TypeInv'
<1> USE DEF TypeInv, PendingHere
<1>1. ASSUME NEW id \in OpIds, orders[id] # NoOp, NEW s \in Stages
      PROVE  [orders EXCEPT ![id].stage = s] \in [OpIds -> Order \cup {NoOp}]
  BY <1>1 DEF TypeOK, Order
<1>2. ASSUME NEW id \in OpIds, Arrives(id)
      PROVE  TypeOK'
  <2> DEFINE op == orders[id].op
  <2>1. op \in Op /\ op.from \in Wallets /\ op.to \in Wallets /\ op.amount \in Nat
    BY <1>2, Fields DEF TypeOK, Arrives
  <2>2. InStage(id, "done") \in [OpIds -> Order \cup {NoOp}]
        /\ InStage(id, "paying") \in [OpIds -> Order \cup {NoOp}]
        /\ InStage(id, "processing") \in [OpIds -> Order \cup {NoOp}]
    BY <1>1, <1>2 DEF Arrives, InStage, Stages
  <2>3. orders' \in [OpIds -> Order \cup {NoOp}]
    BY <1>2, <2>2 DEF Arrives
  <2>4. wallet' \in [Wallets -> Nat]
    <3> HIDE DEF op
    <3>1. \/ wallet' = wallet
          \/ op.amount <= wallet[op.from]
             /\ \/ wallet' = [wallet EXCEPT ![op.from] = @ - op.amount, ![op.to] = @ + op.amount]
                \/ wallet' = [wallet EXCEPT ![op.from] = @ - op.amount]
      BY <1>2 DEF Arrives, Moved, op
    <3>2. wallet \in [Wallets -> Nat]
      BY DEF TypeOK
    <3> QED BY <2>1, <3>1, <3>2
  <2>5. bfusd' \in Wallets /\ burnOn' \in BOOLEAN
    BY <1>2, <2>1 DEF Arrives, TypeOK
  <2>6. UNCHANGED <<journal, enabled, pc, account, balances, hedge>>
    BY <1>2 DEF Arrives
  <2> QED BY <2>3, <2>4, <2>5, <2>6 DEF TypeOK
<1>3. ASSUME NEW id \in OpIds, Dropped(id)
      PROVE  TypeOK'
  BY <1>3 DEF Dropped, TypeOK
<1>4. ASSUME NEW id \in OpIds, PaysOut(id) \/ Converts(id)
      PROVE  TypeOK'
  <2> DEFINE op == orders[id].op
  <2>1. op \in Op /\ op.from \in Wallets /\ op.to \in Wallets /\ op.amount \in Nat
    BY <1>4, Fields DEF TypeOK, PaysOut, Converts
  <2>2. orders' \in [OpIds -> Order \cup {NoOp}]
    <3>1. PICK s \in {"done", "failed"} : orders' = InStage(id, s) /\ orders[id] # NoOp
      BY <1>4 DEF PaysOut, Converts
    <3> QED BY <1>1, <3>1 DEF InStage, Stages
  <2>3. \/ wallet' = wallet
        \/ wallet' = [wallet EXCEPT ![op.to] = @ + op.amount]
        \/ wallet' = [wallet EXCEPT ![op.from] = @ + op.amount]
    BY <1>4 DEF PaysOut, Converts
  <2>4. UNCHANGED <<bfusd, burnOn, journal, enabled, pc, account, balances, hedge>>
    BY <1>4 DEF PaysOut, Converts
  <2> HIDE DEF op
  <2>5. wallet' \in [Wallets -> Nat]
    BY <2>1, <2>3 DEF TypeOK
  <2> QED BY <2>2, <2>4, <2>5 DEF TypeOK
<1>5. CASE Fee
  BY <1>5 DEF Fee, TypeOK, Wallets
<1>6. CASE SweepSpotBfusd
  BY <1>6 DEF SweepSpotBfusd, TypeOK, Wallets
<1>7. UNCHANGED <<journal, pc, account>>
  BY DEF Exchange, Arrives, Dropped, PaysOut, Converts, Fee, SweepSpotBfusd
<1> QED BY <1>2, <1>3, <1>4, <1>5, <1>6, <1>7 DEF Exchange

LEMMA RoundTyped ==
  ASSUME TypeInv, Round
  PROVE  TypeInv'
<1> USE DEF TypeInv, PendingHere
<1>a. account \in Journal /\ journal \in Journal
  BY DEF TypeOK
<1>1. CASE StartRound
  <2>1. Current \in [wallet : [Wallets -> Nat], bfusd : Wallets]
    BY DEF Current, TypeOK
  <2> QED BY <1>1, <2>1 DEF StartRound, exchangeVars, TypeOK
<1>b. Unread \in [wallet : [Wallets -> Nat], bfusd : Wallets]
  BY DEF Unread, Wallets
<1>2. CASE Reconcile
  <2>1. CASE ReconcileSeen \/ ReconcileResolved
    <3>1. /\ account' \in Journal /\ journal' = account' /\ pc' = "latch"
          /\ UNCHANGED <<wallet, bfusd, burnOn, orders, enabled, balances, hedge>>
      BY <1>a, <2>1, JournalWrites DEF ReconcileSeen, ReconcileResolved, Saved, exchangeVars
    <3> QED BY <3>1 DEF TypeOK
  <2>2. CASE ReconcileFailed \/ ReconcileLater
    <3>1. /\ journal' \in Journal /\ account' = Blank /\ balances' = Unread /\ pc' = "idle"
          /\ UNCHANGED <<wallet, bfusd, burnOn, orders, enabled, hedge>>
      BY <1>a, <2>2, JournalWrites DEF ReconcileFailed, ReconcileLater, EndRound, exchangeVars
    <3>2. Blank \in Journal
      BY DEF Blank, Journal
    <3> QED BY <1>b, <3>1, <3>2 DEF TypeOK
  <2> QED BY <1>2, <2>1, <2>2 DEF Reconcile
<1>3. CASE Fund
  <2>1. CASE LatchRefill \/ UnlatchRefill
    <3>1. /\ account' \in Journal /\ (journal' = account' \/ journal' = journal)
          /\ pc' \in {"fund", "hedge"}
      BY <1>a, <2>1, JournalWrites DEF LatchRefill, UnlatchRefill, Saved, Unsaved
    <3>2. UNCHANGED <<wallet, bfusd, burnOn, orders, enabled, balances, hedge>>
      BY <2>1 DEF LatchRefill, UnlatchRefill, exchangeVars
    <3> QED BY <1>a, <3>1, <3>2 DEF TypeOK
  <2>2. CASE ChooseRoute
    <3>1. PICK r \in {"futures", "spot"} :
            /\ account' = [account EXCEPT !.route = r]
            /\ journal' = account' \/ journal' = journal
            /\ pc' \in {"fund", "hedge"}
      BY <2>2 DEF ChooseRoute, Saved, Unsaved
    <3>2. [account EXCEPT !.route = r] \in Journal
      BY <1>a DEF Journal
    <3> QED BY <1>a, <2>2, <3>1, <3>2 DEF ChooseRoute, exchangeVars, TypeOK
  <2>3. CASE KeepLatch \/ NoFunding
    BY <2>3 DEF KeepLatch, NoFunding, exchangeVars, TypeOK
  <2>4. CASE Sends
    <3>1. PICK p \in Pending :
            /\ p # NoOp /\ account' \in Journal /\ account'.pending = p
            /\ orders' = [orders EXCEPT ![p.id] = NoOp]
            /\ \/ journal' = account' /\ pc' = "post"
               \/ journal' = journal /\ pc' = "hedge"
      BY <2>4, Submission
    <3>2. UNCHANGED <<wallet, bfusd, burnOn, enabled, balances, hedge>>
      BY <2>4, Submission
    <3> QED BY <1>a, <3>1, <3>2 DEF TypeOK
  <2> QED BY <1>3, <2>1, <2>2, <2>3, <2>4, Refills, Manages DEF Fund
<1>4. CASE Post
  <2>1. account.pending \in Pending /\ account.pending # NoOp
    BY <1>a, <1>4 DEF Post, Journal
  <2>2. [op |-> account.pending.op, stage |-> "sent"] \in Order
    BY <2>1 DEF Pending, Order, Stages
  <2> DEFINE o == [op |-> account.pending.op, stage |-> "sent"]
  <2> HIDE DEF o
  <2>3. orders' = [orders EXCEPT ![account.pending.id] = o] /\ o \in Order
    BY <1>4, <2>2 DEF Post, o
  <2> QED BY <1>4, <2>1, <2>3 DEF Post, TypeOK
<1>5. CASE PostRefused
  BY <1>a, <1>5, JournalWrites DEF PostRefused, Saved, Unsaved, exchangeVars, TypeOK
<1>6. CASE Answered
  BY <1>a, <1>6, Answering DEF Answered, Saved, Unsaved, exchangeVars, TypeOK
<1>7. CASE Unanswered
  BY <1>7 DEF Unanswered, KeptUnanswered, exchangeVars, TypeOK
<1>8. CASE Recheck
  <2>1. Current \in [wallet : [Wallets -> Nat], bfusd : Wallets]
    BY DEF Current, TypeOK
  <2>2. account' \in Journal /\ (journal' = account' \/ journal' = journal) /\ pc' = "hedge"
    BY <1>a, <1>8, JournalWrites DEF Recheck, Saved, Unsaved
  <2>3. balances' = Current \/ balances' = balances
    BY <1>8 DEF Recheck
  <2>4. UNCHANGED <<wallet, bfusd, burnOn, orders, enabled, hedge>>
    BY <1>8 DEF Recheck, exchangeVars
  <2> QED BY <1>a, <2>1, <2>2, <2>3, <2>4 DEF TypeOK
<1>9. CASE PublishHedge \/ SkipHedge
  BY <1>a, <1>b, <1>9, NatFacts, JournalWrites
     DEF PublishHedge, SkipHedge, EndRound, exchangeVars, TypeOK
<1> QED BY <1>1, <1>2, <1>3, <1>4, <1>5, <1>6, <1>7, <1>8, <1>9 DEF Round

LEMMA StepTyped == TypeInv /\ [Next]_vars => TypeInv'
<1> SUFFICES ASSUME TypeInv, [Next]_vars PROVE TypeInv'
  OBVIOUS
<1>a. account \in Journal /\ journal \in Journal
  BY DEF TypeInv, TypeOK
<1>1. CASE Save \/ Acknowledge \/ Crash
  <2>1. Unread \in [wallet : [Wallets -> Nat], bfusd : Wallets]
    BY DEF Unread, Wallets
  <2> QED BY <1>1, <1>a, <2>1, JournalWrites
          DEF Save, Acknowledge, Crash, EndRound, exchangeVars, TypeInv, TypeOK, PendingHere
<1>2. CASE UNCHANGED vars
  BY <1>2 DEF vars, exchangeVars, TypeInv, TypeOK, PendingHere
<1> QED BY <1>1, <1>2, ExchangeTyped, RoundTyped DEF Next

\* Every variable has its type, whenever Earn pays out.
THEOREM TypeCorrect == Spec => []TypeOK
<1>1. TypeInv => TypeOK
  BY DEF TypeInv
<1> QED BY <1>1, InitTyped, StepTyped, PTL DEF Spec

-----------------------------------------------------------------------------
(***************************************************************************)
(* One operation under way                                                  *)
(***************************************************************************)
\* Nothing is under way at the exchange.
NoneOpen == \A id \in OpIds : Settled(id)

\* Where the round's copy of the journal stands to the file.
CopyMatches ==
  /\ pc \in {"reconcile", "latch", "fund", "post", "wait"} => account = journal
  /\ pc \in {"latch", "fund"} => account.pending = NoOp
  /\ pc = "post" => orders[account.pending.id] = NoOp
  /\ pc = "recheck" =>
       /\ account.pending.answered /\ journal.pending # NoOp
       /\ account.pending.id = journal.pending.id
       /\ account.pending.op = journal.pending.op
       /\ account.pending.floor = journal.pending.floor
  /\ pc = "hedge" /\ account.pending = NoOp => NoneOpen

\* The order at the exchange is the pending operation, and an answer means that the
\* request arrived.
OrdersMatch ==
  /\ journal.pending # NoOp =>
       /\ orders[journal.pending.id] # NoOp =>
            orders[journal.pending.id].op = journal.pending.op
       /\ journal.pending.answered =>
            orders[journal.pending.id] # NoOp /\ orders[journal.pending.id].stage # "sent"
  /\ pc = "recheck" =>
       orders[account.pending.id] # NoOp /\ orders[account.pending.id].stage # "sent"
  /\ \A id \in OpIds : orders[id] # NoOp =>
       /\ orders[id].stage = "paying" => orders[id].op.kind \in {"redeem", "subscribe"}
       /\ orders[id].stage = "processing" => orders[id].op.kind = "convert"

\* While operation p has not paid out, the balance it waits for is short of its floor
\* by the amount at least.
FloorHolds(p) ==
  /\ p.op.kind \in {"transfer", "redeem", "subscribe"} => p.op.from # p.op.to
  /\ p.op.kind \in {"redeem", "subscribe"} =>
       p.op.amount > 0 /\ wallet[p.op.to] + p.op.amount <= p.floor
  /\ p.op.kind = "convert" =>
       p.op.amount > 0 /\ Total(wallet) + p.op.amount <= p.floor /\ p.floor <= RefillTarget
  /\ p.op.kind = "burn" => ~burnOn

FloorsHold ==
  journal.pending # NoOp /\ (~Settled(journal.pending.id) \/ pc = "post") =>
    FloorHolds(journal.pending)

\* No wallet holds more than the round read: only fees were taken since.
Fresh == \A w \in Wallets : wallet[w] <= balances.wallet[w]

\* The balances a round funds with are fresh.  Those it reconciles with are fresh unless
\* they predate what is still to be seen, and then they do not show it.
BalancesHold ==
  /\ pc \in {"latch", "fund"} => Fresh
  /\ pc = "reconcile" =>
       LET p == account.pending IN
       /\ \/ Fresh
          \/ p.op.kind = "convert" /\ Total(balances.wallet) < p.floor
          \/ p.op.kind \notin {"convert", "burn"} /\ ~p.answered
       /\ ~Settled(p.id) =>
            /\ p.op.kind \in {"redeem", "subscribe"} => balances.wallet[p.op.to] < p.floor
            /\ p.op.kind = "convert" => Total(balances.wallet) < p.floor

\* With what is on its way under any one id, the account owns at most a full reserve.
EachWithinTarget ==
  /\ Total(wallet) <= RefillTarget
  /\ \A id \in OpIds : Total(wallet) + OnItsWay(id) <= RefillTarget

\* The inductive invariant.
Inv ==
  /\ TypeInv /\ OpenIsJournaled /\ CopyMatches /\ OrdersMatch
  /\ FloorsHold /\ BalancesHold /\ EachWithinTarget

\* What the order under an open id is.
LEMMA OpenOrder ==
  ASSUME Inv, NEW id \in OpIds, ~Settled(id)
  PROVE  /\ orders[id] # NoOp /\ orders[id] \in Order
         /\ orders[id].stage \in {"sent", "processing", "paying"}
         /\ journal.pending # NoOp /\ journal.pending \in Pending
         /\ journal.pending.id = id /\ journal.pending.op = orders[id].op
         /\ FloorHolds(journal.pending)
         /\ \A i \in OpIds \ {id} : Settled(i)
         /\ pc \notin {"latch", "fund", "post"}
         /\ pc = "hedge" => account.pending # NoOp
         /\ journal.pending.answered => orders[id].stage # "sent"
<1>1. orders[id] # NoOp /\ orders[id] \in Order
      /\ orders[id].stage \in {"sent", "processing", "paying"}
  <2>1. orders[id] # NoOp /\ orders[id].stage \notin {"done", "failed"}
    BY DEF Settled
  <2>2. orders[id] \in Order \cup {NoOp}
    BY DEF Inv, TypeInv, TypeOK
  <2> QED BY <2>1, <2>2, Fields DEF Stages
<1>2. journal.pending # NoOp /\ journal.pending.id = id
      /\ \A i \in OpIds \ {id} : Settled(i)
  BY DEF Inv, OpenIsJournaled
<1>3. journal.pending \in Pending
  BY <1>2, Fields DEF Inv, TypeInv, TypeOK
<1> QED BY <1>1, <1>2, <1>3 DEF Inv, OrdersMatch, FloorsHold, CopyMatches, NoneOpen

\* When nothing is under way and the pending operation is dropped from the journal,
\* or kept with a settled outcome, the journal needs no more.
LEMMA SettledStep ==
  ASSUME Inv, NoneOpen, UNCHANGED <<wallet, bfusd, burnOn, orders>>,
         journal'.pending = NoOp, pc' # "recheck"
  PROVE  /\ OpenIsJournaled' /\ OrdersMatch' /\ FloorsHold' /\ EachWithinTarget'
         /\ NoneOpen'
<1>1. NoneOpen'
  BY DEF NoneOpen, Settled
<1>2. OpenIsJournaled'
  BY <1>1 DEF NoneOpen, OpenIsJournaled
<1>3. OrdersMatch'
  BY DEF Inv, OrdersMatch
<1>4. FloorsHold'
  BY DEF FloorsHold
<1>5. EachWithinTarget'
  BY DEF Inv, EachWithinTarget, OnItsWay, Settled
<1> QED BY <1>1, <1>2, <1>3, <1>4, <1>5

\* A step that only ends a round, or moves on with the journal as it was.
LEMMA IdleStep ==
  ASSUME Inv, UNCHANGED <<wallet, bfusd, burnOn, orders, journal>>, pc' = "idle"
  PROVE  /\ OpenIsJournaled' /\ CopyMatches' /\ OrdersMatch' /\ FloorsHold'
         /\ BalancesHold' /\ EachWithinTarget'
<1>1. OpenIsJournaled'
  BY DEF Inv, OpenIsJournaled, Settled
<1>2. CopyMatches' /\ BalancesHold'
  BY DEF CopyMatches, BalancesHold
<1>3. OrdersMatch'
  BY DEF Inv, OrdersMatch
<1>4. FloorsHold'
  BY DEF Inv, FloorsHold, FloorHolds, Settled
<1>5. EachWithinTarget'
  BY DEF Inv, EachWithinTarget, OnItsWay, Settled
<1> QED BY <1>1, <1>2, <1>3, <1>4, <1>5

LEMMA InitInv == Init => Inv
<1> SUFFICES ASSUME Init PROVE Inv
  OBVIOUS
<1>1. TypeInv
  BY InitTyped
<1>2. NoneOpen
  BY DEF Init, NoneOpen, Settled
<1>3. OpenIsJournaled /\ EachWithinTarget
  BY <1>1, <1>2, NatFacts
     DEF Init, NoneOpen, OpenIsJournaled, EachWithinTarget, OnItsWay, TypeInv
<1>4. CopyMatches /\ OrdersMatch /\ FloorsHold /\ BalancesHold
  BY DEF Init, CopyMatches, OrdersMatch, FloorsHold, BalancesHold, Blank
<1> QED BY <1>1, <1>3, <1>4 DEF Inv

-----------------------------------------------------------------------------
(***************************************************************************)
(* Rounds                                                                   *)
(***************************************************************************)
\* A round starts on the journal and on balances it has just read.
LEMMA StartKeeps ==
  ASSUME Inv, StartRound
  PROVE  Inv'
<1>1. UNCHANGED <<wallet, bfusd, burnOn, orders, journal>> /\ account' = journal
      /\ balances' = Current
      /\ pc' = IF journal.pending = NoOp THEN "latch" ELSE "reconcile"
  BY DEF StartRound, exchangeVars
<1>2. TypeInv'
  BY RoundTyped DEF Inv, Round
<1>3. OpenIsJournaled' /\ EachWithinTarget'
  BY <1>1 DEF Inv, OpenIsJournaled, EachWithinTarget, OnItsWay, Settled
<1>4. CopyMatches' /\ OrdersMatch'
  BY <1>1 DEF CopyMatches, Inv, OrdersMatch
<1>5. FloorsHold'
  BY <1>1 DEF Inv, FloorsHold, FloorHolds, Settled
<1>6. Fresh'
  BY <1>1 DEF Fresh, Current, Inv, TypeInv, TypeOK
<1> DEFINE p == journal.pending
<1>7. ASSUME pc' = "reconcile", ~Settled(p.id)
      PROVE  /\ p.op.kind \in {"redeem", "subscribe"} => wallet[p.op.to] < p.floor
             /\ p.op.kind = "convert" => Total(wallet) < p.floor
  <2>1. p # NoOp
    BY <1>1, <1>7
  <2>2. p \in Pending /\ p.op.amount \in Nat /\ p.floor \in Nat /\ p.op.to \in Wallets
    BY <2>1, Fields DEF Inv, TypeInv, TypeOK
  <2>3. FloorHolds(p)
    BY <1>7, <2>1 DEF Inv, FloorsHold
  <2>4. Total(wallet) \in Nat /\ wallet[p.op.to] \in Nat
    BY <2>2, NatFacts DEF Inv, TypeInv, TypeOK
  <2> HIDE DEF p
  <2> QED BY <2>1, <2>2, <2>3, <2>4 DEF FloorHolds
<1>8. BalancesHold'
  <2>1. account'.pending = p /\ balances'.wallet = wallet /\ orders' = orders
    BY <1>1 DEF Current
  <2>2. Settled(account.pending.id)' <=> Settled(p.id)
    BY <2>1 DEF Settled
  <2> HIDE DEF p
  <2> QED BY <1>6, <1>7, <2>1, <2>2 DEF BalancesHold
<1> QED BY <1>2, <1>3, <1>4, <1>5, <1>8 DEF Inv

\* A receipt that was seen is final, and the balances that showed it are fresh.
LEMMA SeenIsFinal ==
  ASSUME Inv, pc = "reconcile", Succeeded(account.pending),
         Seen(account.pending, balances)
  PROVE  NoneOpen /\ Fresh
<1> DEFINE p == account.pending
<1>1. p = journal.pending /\ p # NoOp
  BY DEF Inv, CopyMatches, TypeInv, PendingHere
<1>2. p \in Pending /\ p.op.kind \in Kinds /\ p.op.to \in Wallets /\ p.floor \in Nat
  BY <1>1, Fields DEF Inv, TypeInv, TypeOK
<1>3. balances.wallet[p.op.to] \in Nat /\ Total(balances.wallet) \in Nat
  BY <1>2 DEF Inv, TypeInv, TypeOK, Total, Wallets
<1>4. Fresh
  BY <1>2, <1>3 DEF Inv, BalancesHold, Succeeded, Seen
<1>5. ASSUME NEW id \in OpIds, ~Settled(id)
      PROVE  FALSE
  <2>1. /\ journal.pending.id = id /\ orders[id].op = p.op
        /\ orders[id].stage \in {"sent", "processing", "paying"}
        /\ FloorHolds(p) /\ orders[id] # NoOp
        /\ p.answered => orders[id].stage # "sent"
    BY <1>1, <1>5, OpenOrder
  <2>2. /\ orders[id].stage = "paying" => p.op.kind \in {"redeem", "subscribe"}
        /\ orders[id].stage = "processing" => p.op.kind = "convert"
    BY <2>1 DEF Inv, OrdersMatch
  <2>3. /\ p.op.kind \in {"redeem", "subscribe"} => balances.wallet[p.op.to] < p.floor
        /\ p.op.kind = "convert" => Total(balances.wallet) < p.floor
    BY <1>1, <1>5, <2>1 DEF Inv, BalancesHold
  <2>4. CASE p.op.kind = "convert"
    BY <1>1, <1>2, <1>3, <2>3, <2>4 DEF Seen
  <2>5. CASE p.op.kind = "burn"
    BY <2>1, <2>5 DEF Succeeded, FloorHolds
  <2>6. CASE p.op.kind \in {"redeem", "subscribe"}
    BY <1>2, <1>3, <2>3, <2>6 DEF Seen
  <2>7. CASE p.op.kind \in {"transfer", "bfusd"}
    BY <2>1, <2>2, <2>7 DEF Succeeded
  <2> HIDE DEF p
  <2> QED BY <1>2, <2>4, <2>5, <2>6, <2>7 DEF Kinds
<1> QED BY <1>4, <1>5 DEF NoneOpen

LEMMA ReconcileKeeps ==
  ASSUME Inv, Reconcile
  PROVE  Inv'
<1> DEFINE p == account.pending
<1>1. pc = "reconcile" /\ UNCHANGED <<wallet, bfusd, burnOn, orders>>
  BY DEF Reconcile, ReconcileSeen, ReconcileResolved, ReconcileFailed, ReconcileLater,
         exchangeVars
<1>2. TypeInv'
  BY RoundTyped DEF Inv, Round
<1>3. account = journal /\ p # NoOp /\ account \in Journal
  BY <1>1 DEF Inv, CopyMatches, TypeInv, PendingHere, TypeOK
<1>4. ASSUME Settled(p.id)
      PROVE  NoneOpen
  BY <1>3, <1>4, OpenOrder DEF NoneOpen
<1>5. CASE ReconcileSeen \/ ReconcileResolved
  <2>1. account' = journal' /\ journal'.pending = NoOp /\ pc' = "latch"
        /\ balances' = balances
    BY <1>3, <1>5, JournalWrites DEF ReconcileSeen, ReconcileResolved, Saved
  <2>2. NoneOpen /\ Fresh
    <3>1. CASE ReconcileSeen
      BY <3>1, SeenIsFinal DEF ReconcileSeen
    <3>2. CASE ReconcileResolved
      <4>1. p.answered /\ p.op.kind \notin {"convert", "burn"} /\ Settled(p.id)
        BY <3>2 DEF ReconcileResolved, Resolved, Settled
      <4> QED BY <1>1, <1>4, <4>1 DEF Inv, BalancesHold
    <3> QED BY <1>5, <3>1, <3>2
  <2>3. Fresh'
    BY <1>1, <2>1, <2>2 DEF Fresh
  <2>4. CopyMatches' /\ BalancesHold'
    BY <2>1, <2>3 DEF CopyMatches, BalancesHold
  <2> QED BY <1>1, <1>2, <2>1, <2>2, <2>4, SettledStep DEF Inv
<1>6. CASE ReconcileFailed
  <2>1. Settled(p.id)
    BY <1>6 DEF ReconcileFailed, QuoteFailed, Resolved, Settled
  <2>2. journal'.pending = NoOp /\ pc' = "idle"
    BY <1>3, <1>6, JournalWrites DEF ReconcileFailed, EndRound
  <2>3. CopyMatches' /\ BalancesHold'
    BY <2>2 DEF CopyMatches, BalancesHold
  <2> QED BY <1>1, <1>2, <1>4, <2>1, <2>2, <2>3, SettledStep DEF Inv
<1>7. CASE ReconcileLater
  <2>1. UNCHANGED journal /\ pc' = "idle"
    BY <1>7 DEF ReconcileLater, EndRound
  <2> QED BY <1>1, <1>2, <2>1, IdleStep DEF Inv
<1> QED BY <1>5, <1>6, <1>7 DEF Reconcile

\* Funding starts with nothing under way, journals at most one operation and leaves it
\* unsent.
LEMMA FundKeeps ==
  ASSUME Inv, Fund
  PROVE  Inv'
<1>1. pc \in {"latch", "fund"}
  <2>1. CASE LatchRefill \/ KeepLatch \/ UnlatchRefill \/ ChooseRoute \/ NoFunding
    BY <2>1 DEF LatchRefill, KeepLatch, UnlatchRefill, ChooseRoute, Refilling, NoFunding
  <2>2. CASE Sends
    BY <2>2 DEF Sends
  <2> QED BY <2>1, <2>2, Refills, Manages DEF Fund, Inv, TypeInv
<1>2. account = journal /\ account.pending = NoOp /\ account \in Journal
  BY <1>1 DEF Inv, CopyMatches, TypeInv, TypeOK
<1>3. NoneOpen
  BY <1>2, OpenOrder DEF NoneOpen
<1>4. Fresh
  BY <1>1 DEF Inv, BalancesHold
<1>5. TypeInv'
  BY RoundTyped DEF Inv, Round
<1>6. ASSUME UNCHANGED <<wallet, bfusd, burnOn, orders, balances>>,
             account'.pending = NoOp, journal'.pending = NoOp,
             \/ pc' = "fund" /\ account' = journal'
             \/ pc' = "hedge"
      PROVE  Inv'
  <2>1. CopyMatches'
    BY <1>3, <1>6 DEF CopyMatches, NoneOpen, Settled
  <2>2. BalancesHold'
    BY <1>4, <1>6 DEF BalancesHold, Fresh
  <2> QED BY <1>3, <1>5, <1>6, <2>1, <2>2, SettledStep DEF Inv
<1>7. CASE LatchRefill \/ UnlatchRefill
  <2>1. /\ account'.pending = NoOp /\ (journal' = account' \/ journal' = journal)
        /\ UNCHANGED <<wallet, bfusd, burnOn, orders, balances>>
        /\ \/ pc' = "fund" /\ account' = journal'
           \/ pc' = "hedge"
    BY <1>2, <1>7, JournalWrites DEF LatchRefill, UnlatchRefill, Saved, Unsaved, exchangeVars
  <2> QED BY <1>2, <1>6, <2>1
<1>8. CASE KeepLatch \/ NoFunding
  BY <1>2, <1>6, <1>8 DEF KeepLatch, NoFunding, exchangeVars
<1>9. CASE ChooseRoute
  <2>1. PICK r \in {"futures", "spot"} :
          /\ account' = [account EXCEPT !.route = r]
          /\ \/ journal' = account' /\ pc' \in {"fund", "hedge"}
             \/ journal' = journal /\ pc' = "hedge"
    BY <1>9 DEF ChooseRoute, Saved, Unsaved
  <2>2. account'.pending = NoOp
    BY <1>2, <2>1 DEF Journal
  <2>3. UNCHANGED <<wallet, bfusd, burnOn, orders, balances>>
    BY <1>9 DEF ChooseRoute, exchangeVars
  <2> QED BY <1>2, <1>6, <2>1, <2>2, <2>3
<1>10. CASE Sends
  <2>1. UNCHANGED <<wallet, bfusd, burnOn, enabled, balances, hedge>>
    BY <1>10, Submission DEF Inv, TypeInv
  <2>2. PICK p \in Pending :
          /\ p # NoOp /\ ~p.answered /\ Settled(p.id)
          /\ account' \in Journal /\ account'.pending = p
          /\ orders' = [orders EXCEPT ![p.id] = NoOp]
          /\ \/ journal' = account' /\ pc' = "post"
             \/ journal' = journal /\ pc' = "hedge"
          /\ p.op.kind \in {"transfer", "redeem", "subscribe"} => p.op.from # p.op.to
          /\ p.op.kind \in {"redeem", "subscribe"} =>
               /\ p.op.amount > 0
               /\ p.floor = balances.wallet[p.op.to] + p.op.amount
          /\ p.op.kind = "convert" =>
               /\ p.op.amount > 0 /\ p.floor = Owned + p.op.amount
               /\ p.floor <= RefillTarget
          /\ p.op.kind = "burn" => ~burnOn
    BY <1>10, Submission DEF Inv, TypeInv
  <2>3. p.id \in OpIds /\ p.op.to \in Wallets /\ p.op.amount \in Nat /\ p.floor \in Nat
    BY <2>2, Fields
  <2>4. orders'[p.id] = NoOp /\ \A i \in OpIds \ {p.id} : orders'[i] = orders[i]
    BY <2>2, <2>3 DEF Inv, TypeInv, TypeOK
  <2>5. NoneOpen'
    BY <1>3, <2>4 DEF NoneOpen, Settled
  <2>6. OpenIsJournaled'
    BY <2>5 DEF NoneOpen, OpenIsJournaled
  <2>7. CopyMatches'
    BY <2>2, <2>4 DEF CopyMatches
  <2>8. OrdersMatch'
    BY <1>2, <2>2, <2>3, <2>4 DEF Inv, OrdersMatch
  <2>9. Total(wallet) <= Owned /\ wallet[p.op.to] <= balances.wallet[p.op.to]
    BY <1>4, <2>3 DEF Fresh, Total, Owned, Wallets, Inv, TypeInv, TypeOK
  <2>10. FloorHolds(p)
    <3>1. Owned \in Nat /\ Total(wallet) \in Nat /\ p.floor \in Nat
          /\ wallet[p.op.to] \in Nat /\ balances.wallet[p.op.to] \in Nat
      BY <2>3, NatFacts DEF Inv, TypeInv, TypeOK
    <3> QED BY <2>2, <2>3, <2>9, <3>1 DEF FloorHolds
  <2>11. FloorsHold'
    BY <1>2, <2>1, <2>2, <2>10 DEF FloorsHold, FloorHolds
  <2>12. BalancesHold'
    BY <2>2 DEF BalancesHold
  <2>13. EachWithinTarget'
    BY <2>1, <2>5, NatFacts
       DEF Inv, TypeInv, EachWithinTarget, OnItsWay, NoneOpen
  <2> QED BY <1>5, <2>6, <2>7, <2>8, <2>11, <2>12, <2>13 DEF Inv
<1> QED BY <1>7, <1>8, <1>9, <1>10, Refills, Manages DEF Fund, Inv, TypeInv

\* The request goes out under the journaled id, with its floor still to be reached.
LEMMA PostKeeps ==
  ASSUME Inv, Post
  PROVE  Inv'
<1> DEFINE p == account.pending
<1>1. /\ account = journal /\ p # NoOp /\ orders[p.id] = NoOp
      /\ UNCHANGED <<wallet, bfusd, burnOn, journal, account, balances>> /\ pc' = "wait"
      /\ orders' = [orders EXCEPT ![p.id] = [op |-> p.op, stage |-> "sent"]]
  BY DEF Post, Inv, CopyMatches, TypeInv, PendingHere
<1>2. p.id \in OpIds /\ p.op.amount \in Nat /\ p.op \in Op /\ p.floor \in Nat
  BY <1>1, Fields DEF Inv, TypeInv, TypeOK
<1>3. /\ orders'[p.id] = [op |-> p.op, stage |-> "sent"] /\ orders'[p.id] # NoOp
      /\ \A i \in OpIds \ {p.id} : orders'[i] = orders[i]
  <2>1. [op |-> p.op, stage |-> "sent"] \in Order
    BY <1>2 DEF Order, Stages
  <2>2. [op |-> p.op, stage |-> "sent"] # NoOp
    BY <2>1, NoOpAssumption
  <2>3. orders'[p.id] = [op |-> p.op, stage |-> "sent"]
    BY <1>1, <1>2 DEF Inv, TypeInv, TypeOK
  <2>4. \A i \in OpIds \ {p.id} : orders'[i] = orders[i]
    BY <1>1 DEF Inv, TypeInv, TypeOK
  <2> QED BY <2>2, <2>3, <2>4
<1>4. orders'[p.id].op = p.op /\ orders'[p.id].stage = "sent"
  BY <1>3
<1>5. TypeInv'
  BY RoundTyped DEF Inv, Round
<1>6. \A i \in OpIds \ {p.id} : Settled(i) /\ Settled(i)'
  BY <1>1, <1>3 DEF Inv, OpenIsJournaled, Settled
<1>7. OpenIsJournaled'
  BY <1>1, <1>6 DEF OpenIsJournaled
<1>8. CopyMatches' /\ BalancesHold'
  BY <1>1 DEF CopyMatches, BalancesHold
<1>9. ~p.answered
  BY <1>1 DEF Inv, OrdersMatch
<1>10. OrdersMatch'
  <2>1. \A i \in OpIds : orders'[i] # NoOp =>
          /\ orders'[i].stage = "paying" => orders'[i].op.kind \in {"redeem", "subscribe"}
          /\ orders'[i].stage = "processing" => orders'[i].op.kind = "convert"
    BY <1>3, <1>4 DEF Inv, OrdersMatch
  <2>2. pc' # "recheck" /\ journal'.pending = p /\ ~p.answered
    BY <1>1, <1>9
  <2> HIDE DEF p
  <2> QED BY <1>4, <2>1, <2>2 DEF OrdersMatch
<1>11. FloorHolds(p)
  BY <1>1 DEF Inv, FloorsHold, Post
<1>12. FloorsHold'
  BY <1>1, <1>11 DEF FloorsHold, FloorHolds
<1>13. EachWithinTarget'
  <2>1. Total(wallet) <= RefillTarget /\ Total(wallet) \in Nat
    BY NatFacts DEF Inv, EachWithinTarget, TypeInv
  <2>2. p.op.kind = "convert" => Total(wallet) + p.op.amount <= RefillTarget
    BY <1>2, <1>11, <2>1, ThresholdsAssumption DEF FloorHolds
  <2>3. PICK q \in OpIds : q = p.id
    BY <1>2
  <2>4. \A i \in OpIds \ {q} : OnItsWay(i)' = 0
    BY <1>6, <2>3 DEF OnItsWay
  <2>5. OnItsWay(q)' = 0 \/ (p.op.kind = "convert" /\ OnItsWay(q)' = p.op.amount)
    BY <1>4, <2>3 DEF OnItsWay
  <2>6. \A i \in OpIds : Total(wallet) + OnItsWay(i)' <= RefillTarget
    BY <2>1, <2>2, <2>4, <2>5
  <2> QED BY <1>1, <2>1, <2>6 DEF EachWithinTarget
<1> QED BY <1>5, <1>7, <1>8, <1>10, <1>12, <1>13 DEF Inv

LEMMA AnswerKeeps ==
  ASSUME Inv, Answered
  PROVE  Inv'
<1> DEFINE p == account.pending
           b == [account EXCEPT !.pending.answered = TRUE]
<1>1. /\ account = journal /\ p # NoOp /\ account \in Journal
      /\ orders[p.id] # NoOp /\ orders[p.id].stage # "sent"
      /\ UNCHANGED <<wallet, bfusd, burnOn, orders, balances>> /\ pc' = "recheck"
      /\ account' = b /\ (journal' = b \/ journal' = journal)
  BY DEF Answered, Saved, Unsaved, exchangeVars, Inv, CopyMatches, TypeInv, PendingHere, TypeOK
<1>2. /\ b.pending # NoOp /\ b.pending.id = p.id /\ b.pending.op = p.op
      /\ b.pending.floor = p.floor /\ b.pending.answered
  BY <1>1, Answering
<1> HIDE DEF b
<1>3. /\ journal'.pending # NoOp /\ journal'.pending.id = p.id
      /\ journal'.pending.op = p.op /\ journal'.pending.floor = p.floor
  BY <1>1, <1>2
<1>4. TypeInv'
  BY RoundTyped DEF Inv, Round
<1>5. OpenIsJournaled'
  BY <1>1, <1>3 DEF Inv, OpenIsJournaled, Settled
<1>6. CopyMatches' /\ BalancesHold'
  BY <1>1, <1>2, <1>3 DEF CopyMatches, BalancesHold
<1>7. OrdersMatch'
  BY <1>1, <1>2, <1>3 DEF Inv, OrdersMatch
<1>8. FloorsHold'
  <2>1. ASSUME ~Settled(p.id)
        PROVE  FloorHolds(p)
    BY <1>1, <2>1 DEF Inv, FloorsHold
  <2>2. Settled(journal.pending.id)' <=> Settled(p.id)
    BY <1>1, <1>3 DEF Settled
  <2>3. FloorHolds(p) => FloorHolds(journal.pending)'
    BY <1>1, <1>3 DEF FloorHolds
  <2> QED BY <1>1, <1>3, <2>1, <2>2, <2>3 DEF FloorsHold, Settled
<1>9. EachWithinTarget'
  BY <1>1 DEF Inv, EachWithinTarget, OnItsWay, Settled
<1> QED BY <1>4, <1>5, <1>6, <1>7, <1>8, <1>9 DEF Inv

\* What a fresh read shows as received is final, too.
LEMMA RecheckIsFinal ==
  ASSUME Inv, pc = "recheck",
         \/ Succeeded(account.pending) /\ Seen(account.pending, Current)
         \/ QuoteFailed(account.pending)
  PROVE  NoneOpen
<1> DEFINE p == account.pending
<1>1. /\ p # NoOp /\ journal.pending # NoOp /\ p.id = journal.pending.id
      /\ p.op = journal.pending.op /\ p.floor = journal.pending.floor
      /\ orders[p.id] # NoOp /\ orders[p.id].stage # "sent"
  BY DEF Inv, CopyMatches, OrdersMatch, TypeInv, PendingHere
<1>2. p \in Pending /\ p.op.kind \in Kinds /\ p.op.to \in Wallets /\ p.floor \in Nat
      /\ p.op.amount \in Nat
  BY <1>1, Fields DEF Inv, TypeInv, TypeOK
<1>3. wallet[p.op.to] \in Nat /\ Total(wallet) \in Nat
  BY <1>2, NatFacts DEF Inv, TypeInv, TypeOK
<1>4. ASSUME NEW id \in OpIds, ~Settled(id)
      PROVE  FALSE
  <2>1. /\ id = p.id /\ orders[id].op = p.op
        /\ orders[id].stage \in {"processing", "paying"}
        /\ FloorHolds(journal.pending)
    BY <1>1, <1>4, OpenOrder
  <2>2. FloorHolds(p)
    BY <1>1, <2>1 DEF FloorHolds
  <2>3. /\ orders[id].stage = "paying" => p.op.kind \in {"redeem", "subscribe"}
        /\ orders[id].stage = "processing" => p.op.kind = "convert"
    BY <1>1, <2>1 DEF Inv, OrdersMatch
  <2>4. Succeeded(p) /\ Seen(p, Current)
    BY <2>1 DEF QuoteFailed
  <2>5. CASE p.op.kind = "convert"
    BY <2>1, <2>4, <2>5 DEF Succeeded
  <2>6. CASE p.op.kind \in {"redeem", "subscribe"}
    <3>1. Current.wallet = wallet
      BY DEF Current
    <3>2. wallet[p.op.to] >= p.floor
      BY <2>4, <2>6, <3>1 DEF Seen
    <3> QED BY <1>2, <1>3, <2>2, <2>6, <3>2 DEF FloorHolds
  <2> QED BY <2>1, <2>3, <2>5, <2>6
<1> QED BY <1>4 DEF NoneOpen

LEMMA RecheckKeeps ==
  ASSUME Inv, Recheck
  PROVE  Inv'
<1>1. /\ pc = "recheck" /\ pc' = "hedge" /\ UNCHANGED <<wallet, bfusd, burnOn, orders>>
      /\ account \in Journal /\ account.pending # NoOp
  BY DEF Recheck, Saved, Unsaved, exchangeVars, Inv, TypeInv, TypeOK, PendingHere
<1>2. TypeInv'
  BY RoundTyped DEF Inv, Round
<1>3. \/ NoneOpen /\ account'.pending = NoOp /\ journal' = account'
      \/ NoneOpen /\ account'.pending = NoOp /\ journal' = journal
      \/ account' = account /\ journal' = journal
  BY <1>1, RecheckIsFinal, JournalWrites DEF Recheck, Saved, Unsaved
<1>4. BalancesHold'
  BY <1>1 DEF BalancesHold
<1>5. CopyMatches'
  BY <1>1, <1>3 DEF CopyMatches, NoneOpen, Settled
<1>6. CASE journal' = journal
  <2>1. OpenIsJournaled' /\ EachWithinTarget'
    BY <1>1, <1>6 DEF Inv, OpenIsJournaled, EachWithinTarget, OnItsWay, Settled
  <2>2. OrdersMatch'
    BY <1>1, <1>6 DEF Inv, OrdersMatch
  <2>3. FloorsHold'
    BY <1>1, <1>6 DEF Inv, FloorsHold, FloorHolds, Settled
  <2> QED BY <1>2, <1>4, <1>5, <2>1, <2>2, <2>3 DEF Inv
<1>7. CASE NoneOpen /\ journal'.pending = NoOp
  BY <1>1, <1>2, <1>4, <1>5, <1>7, SettledStep DEF Inv
<1> QED BY <1>3, <1>6, <1>7

LEMMA EndKeeps ==
  ASSUME Inv, PostRefused \/ Unanswered \/ PublishHedge \/ SkipHedge
  PROVE  Inv'
<1>1. TypeInv'
  BY RoundTyped DEF Inv, Round
<1>2. UNCHANGED <<wallet, bfusd, burnOn, orders>>
  BY DEF PostRefused, Unanswered, PublishHedge, SkipHedge, exchangeVars
<1>3. CASE PostRefused
  <2>1. /\ account = journal /\ orders[account.pending.id] = NoOp /\ pc = "post"
        /\ account \in Journal
    BY <1>3 DEF PostRefused, Inv, CopyMatches, TypeInv, TypeOK
  <2>2. NoneOpen
    BY <2>1, OpenOrder DEF NoneOpen
  <2>3. /\ pc' = "hedge" /\ account'.pending = NoOp
        /\ \/ journal'.pending = NoOp
           \/ journal' = journal
    BY <1>3, <2>1, JournalWrites DEF PostRefused, Saved, Unsaved
  <2>4. NoneOpen' /\ OpenIsJournaled' /\ EachWithinTarget'
    BY <1>2, <2>2 DEF Inv, NoneOpen, OpenIsJournaled, EachWithinTarget, OnItsWay, Settled
  <2>5. CopyMatches' /\ BalancesHold'
    BY <2>3, <2>4 DEF CopyMatches, BalancesHold
  <2>6. OrdersMatch' /\ FloorsHold'
    <3>1. OrdersMatch'
      BY <1>2, <2>3 DEF Inv, OrdersMatch
    <3>2. journal'.pending # NoOp => Settled(journal.pending.id)'
      BY <1>2, <2>1, <2>3 DEF Settled
    <3> QED BY <2>3, <3>1, <3>2 DEF FloorsHold
  <2> QED BY <1>1, <2>4, <2>5, <2>6 DEF Inv
<1>4. CASE Unanswered
  <2>1. /\ account' = account /\ account.pending # NoOp /\ journal' = journal
        /\ pc = "wait" /\ pc' = "hedge"
    BY <1>4 DEF Unanswered, KeptUnanswered, Inv, TypeInv, PendingHere
  <2>2. OpenIsJournaled' /\ EachWithinTarget'
    BY <1>2, <2>1 DEF Inv, OpenIsJournaled, EachWithinTarget, OnItsWay, Settled
  <2>3. CopyMatches' /\ BalancesHold'
    BY <2>1 DEF CopyMatches, BalancesHold
  <2>4. OrdersMatch'
    BY <1>2, <2>1 DEF Inv, OrdersMatch
  <2>5. FloorsHold'
    BY <1>2, <2>1 DEF Inv, FloorsHold, FloorHolds, Settled
  <2> QED BY <1>1, <2>2, <2>3, <2>4, <2>5 DEF Inv
<1>5. CASE PublishHedge
  <2>1. journal'.pending = NoOp /\ pc' = "idle" /\ NoneOpen
    BY <1>5 DEF PublishHedge, HedgeAllowed, EndRound, Inv, CopyMatches
  <2>2. CopyMatches' /\ BalancesHold'
    BY <2>1 DEF CopyMatches, BalancesHold
  <2> QED BY <1>1, <1>2, <2>1, <2>2, SettledStep DEF Inv
<1>6. CASE SkipHedge
  <2>1. UNCHANGED journal /\ pc' = "idle"
    BY <1>6 DEF SkipHedge, EndRound
  <2> QED BY <1>1, <1>2, <2>1, IdleStep DEF Inv
<1> QED BY <1>3, <1>4, <1>5, <1>6

\* The switch, the operator's confirmation of a final outcome, and a crash.
LEMMA OutsideKeeps ==
  ASSUME Inv, Save \/ Acknowledge \/ Crash
  PROVE  Inv'
<1>1. TypeInv'
  BY StepTyped DEF Inv, Next
<1>2. UNCHANGED <<wallet, bfusd, burnOn, orders>> /\ pc' = "idle"
  BY DEF Save, Acknowledge, Crash, EndRound, exchangeVars
<1>3. CASE Save \/ Crash
  <2>1. UNCHANGED journal
    BY <1>3 DEF Save, Crash
  <2> QED BY <1>1, <1>2, <2>1, IdleStep DEF Inv
<1>4. CASE Acknowledge
  <2>1. journal \in Journal
    BY DEF Inv, TypeInv, TypeOK
  <2>2. journal'.pending = NoOp
    BY <1>4, <2>1, JournalWrites DEF Acknowledge
  <2>3. NoneOpen
    BY <1>4, OpenOrder DEF NoneOpen, Acknowledge
  <2>4. CopyMatches' /\ BalancesHold'
    BY <1>2 DEF CopyMatches, BalancesHold
  <2> QED BY <1>1, <1>2, <2>2, <2>3, <2>4, SettledStep DEF Inv
<1> QED BY <1>3, <1>4

-----------------------------------------------------------------------------
(***************************************************************************)
(* The exchange                                                             *)
(***************************************************************************)
\* Taking from one wallet or adding to one changes the total by as much.
LEMMA TotalTaken ==
  ASSUME NEW w \in [Wallets -> Nat], NEW f \in Wallets, NEW n \in Nat, n <= w[f]
  PROVE  /\ [w EXCEPT ![f] = @ - n] \in [Wallets -> Nat]
         /\ Total([w EXCEPT ![f] = @ - n]) + n = Total(w)
         /\ \A v \in Wallets : [w EXCEPT ![f] = @ - n][v] <= w[v]
BY DEF Total, Wallets

LEMMA TotalAdded ==
  ASSUME NEW w \in [Wallets -> Nat], NEW t \in Wallets, NEW n \in Nat
  PROVE  /\ [w EXCEPT ![t] = @ + n] \in [Wallets -> Nat]
         /\ Total([w EXCEPT ![t] = @ + n]) = Total(w) + n
BY DEF Total, Wallets

LEMMA TotalMoved ==
  ASSUME NEW w \in [Wallets -> Nat], NEW f \in Wallets, NEW t \in Wallets \ {f},
         NEW n \in Nat, n <= w[f]
  PROVE  Total([w EXCEPT ![f] = @ - n, ![t] = @ + n]) = Total(w)
<1> DEFINE u == [w EXCEPT ![f] = @ - n]
<1>1. u \in [Wallets -> Nat] /\ Total(u) + n = Total(w)
  BY TotalTaken
<1>2. [w EXCEPT ![f] = @ - n, ![t] = @ + n] = [u EXCEPT ![t] = @ + n]
  OBVIOUS
<1>3. Total(u) \in Nat /\ Total(w) \in Nat
  BY <1>1 DEF Total, Wallets
<1> HIDE DEF u
<1>4. Total([u EXCEPT ![t] = @ + n]) = Total(u) + n
  BY <1>1 DEF Total, Wallets
<1> QED BY <1>1, <1>2, <1>3, <1>4

\* A step of the order under one open id keeps the rest when the order becomes settled.
LEMMA FinalStep ==
  ASSUME Inv, NEW id \in OpIds, ~Settled(id), Settled(id)',
         \A i \in OpIds \ {id} : orders'[i] = orders[i],
         orders'[id] # NoOp => orders'[id].op = orders[id].op /\ orders'[id].stage # "sent",
         orders'[id] = NoOp => orders[id].stage = "sent",
         Total(wallet)' <= RefillTarget, Total(wallet)' \in Nat,
         UNCHANGED <<journal, pc, account, balances>>
  PROVE  /\ OpenIsJournaled' /\ CopyMatches' /\ OrdersMatch' /\ FloorsHold'
         /\ EachWithinTarget'
<1>1. NoneOpen'
  BY OpenOrder DEF NoneOpen, Settled
<1>2. OpenIsJournaled' /\ EachWithinTarget'
  BY <1>1 DEF NoneOpen, OpenIsJournaled, EachWithinTarget, OnItsWay
<1>3. /\ journal.pending # NoOp /\ journal.pending.id = id
      /\ pc \notin {"latch", "fund", "post"}
      /\ orders[id] # NoOp /\ journal.pending.op = orders[id].op
      /\ journal.pending.answered => orders[id].stage # "sent"
  BY OpenOrder
<1>4. CopyMatches'
  BY <1>1, <1>3 DEF Inv, CopyMatches
<1>5. OrdersMatch'
  <2>1. pc = "recheck" => account.pending.id = id /\ orders[id].stage # "sent"
    BY <1>3 DEF Inv, CopyMatches, OrdersMatch
  <2>2. \A i \in OpIds : orders'[i] # NoOp =>
          /\ orders'[i].stage = "paying" => orders'[i].op.kind \in {"redeem", "subscribe"}
          /\ orders'[i].stage = "processing" => orders'[i].op.kind = "convert"
    BY DEF Inv, OrdersMatch, Settled
  <2> QED BY <1>3, <2>1, <2>2 DEF OrdersMatch
<1>6. FloorsHold'
  BY <1>3 DEF FloorsHold
<1> QED BY <1>2, <1>4, <1>5, <1>6

LEMMA ArrivesKeeps ==
  ASSUME Inv, NEW id \in OpIds, Arrives(id)
  PROVE  Inv'
<1> DEFINE op == orders[id].op
           p == journal.pending
<1>1. orders[id] # NoOp /\ orders[id].stage = "sent" /\ ~Settled(id)
      /\ UNCHANGED <<journal, pc, account, balances>>
  BY DEF Arrives, Settled
<1>2. /\ op \in Op /\ op.kind \in Kinds /\ op.from \in Wallets /\ op.to \in Wallets
      /\ op.amount \in Nat /\ p # NoOp /\ p.id = id /\ p.op = op /\ ~p.answered
      /\ FloorHolds(p) /\ p.floor \in Nat
      /\ pc \notin {"latch", "fund", "post"}
      /\ \A i \in OpIds \ {id} : Settled(i)
  BY <1>1, OpenOrder, Fields
<1>3. pc # "recheck"
  BY <1>1, <1>2 DEF Inv, CopyMatches, OrdersMatch
<1>4. pc = "reconcile" => account.pending = p
  BY DEF Inv, CopyMatches
<1>5. TypeInv'
  BY ExchangeTyped DEF Inv, Exchange
<1>6. wallet \in [Wallets -> Nat] /\ Total(wallet) \in Nat /\ Total(wallet) <= RefillTarget
      /\ wallet' \in [Wallets -> Nat] /\ orders \in [OpIds -> Order \cup {NoOp}]
  BY <1>5, NatFacts DEF Inv, TypeInv, TypeOK, EachWithinTarget
<1>7. ASSUME NEW s \in Stages, orders' = InStage(id, s)
      PROVE  /\ orders'[id] # NoOp /\ orders'[id].op = op /\ orders'[id].stage = s
             /\ \A i \in OpIds \ {id} : orders'[i] = orders[i]
  <2>1. orders[id] \in Order
    BY <1>1, <1>6
  <2>2. orders'[id] = [orders[id] EXCEPT !.stage = s]
    BY <1>6, <1>7 DEF InStage
  <2>3. orders'[id] \in Order /\ orders'[id].op = op /\ orders'[id].stage = s
    BY <2>1, <2>2 DEF Order
  <2>4. \A i \in OpIds \ {id} : orders'[i] = orders[i]
    BY <1>6, <1>7 DEF InStage
  <2> QED BY <2>3, <2>4, NoOpAssumption
<1>8. "done" \in Stages /\ "paying" \in Stages /\ "processing" \in Stages
  BY DEF Stages
<1>9. CASE op.kind \in {"transfer", "bfusd", "burn"}
  <2>1. orders' = InStage(id, "done")
    BY <1>9 DEF Arrives
  <2>2. Settled(id)'
    BY <1>7, <1>8, <2>1 DEF Settled
  <2>3. Total(wallet)' = Total(wallet)
    <3>1. \/ wallet' = wallet
          \/ op.amount <= wallet[op.from]
             /\ wallet' = [wallet EXCEPT ![op.from] = @ - op.amount, ![op.to] = @ + op.amount]
             /\ op.from # op.to
      BY <1>2, <1>9 DEF Arrives, Moved, FloorHolds
    <3>2. Total(wallet') = Total(wallet)
      <4> HIDE DEF op
      <4> QED BY <1>2, <1>6, <3>1, TotalMoved
    <3> QED BY <3>2 DEF Total
  <2>4. BalancesHold'
    <3>1. CASE op.kind \in {"transfer", "bfusd"}
      BY <1>1, <1>2, <1>4, <2>2, <3>1 DEF BalancesHold
    <3>2. CASE op.kind = "burn"
      <4>1. wallet' = wallet
        BY <3>2 DEF Arrives
      <4>2. pc = "reconcile" => Fresh
        BY <1>2, <1>4, <3>2 DEF Inv, BalancesHold
      <4>3. Settled(account.pending.id)' \/ pc # "reconcile"
        BY <1>1, <1>2, <1>4, <2>2 DEF Settled
      <4> QED BY <1>1, <1>2, <4>1, <4>2, <4>3 DEF BalancesHold, Fresh
    <3> QED BY <1>9, <3>1, <3>2
  <2> QED BY <1>1, <1>5, <1>6, <1>7, <1>8, <2>1, <2>2, <2>3, <2>4, FinalStep DEF Inv
<1>10. CASE op.kind \in {"redeem", "subscribe", "convert"}
  <2>1. /\ op.kind = "convert" => wallet' = wallet /\ orders' = InStage(id, "processing")
        /\ op.kind # "convert" =>
             /\ op.amount <= wallet[op.from]
             /\ wallet' = [wallet EXCEPT ![op.from] = @ - op.amount]
             /\ orders' = InStage(id, "paying")
        /\ burnOn' = burnOn
    BY <1>10 DEF Arrives
  <2>2. /\ orders'[id] # NoOp /\ orders'[id].op = op
        /\ \A i \in OpIds \ {id} : orders'[i] = orders[i]
        /\ op.kind = "convert" => orders'[id].stage = "processing"
        /\ op.kind # "convert" => orders'[id].stage = "paying"
    BY <1>7, <1>8, <2>1
  <2>3. ~Settled(id)' /\ \A i \in OpIds \ {id} : Settled(i)'
    BY <1>2, <2>2 DEF Settled
  <2>4. OpenIsJournaled'
    BY <1>1, <1>2, <2>3 DEF OpenIsJournaled
  <2>5. CopyMatches'
    BY <1>1, <1>2, <1>3, OpenOrder DEF Inv, CopyMatches
  <2>6. OrdersMatch'
    <3>1. \A i \in OpIds : orders'[i] # NoOp =>
            /\ orders'[i].stage = "paying" => orders'[i].op.kind \in {"redeem", "subscribe"}
            /\ orders'[i].stage = "processing" => orders'[i].op.kind = "convert"
      <4> HIDE DEF op
      <4> QED BY <1>10, <2>2 DEF Inv, OrdersMatch
    <3> HIDE DEF op
    <3> QED BY <1>1, <1>2, <1>3, <2>2, <3>1 DEF OrdersMatch
  <2>7. \A v \in Wallets : wallet'[v] <= wallet[v]
    <3> HIDE DEF op
    <3> QED BY <1>2, <1>6, <2>1, TotalTaken
  <2>8. /\ Total(wallet') \in Nat /\ Total(wallet') <= Total(wallet)
        /\ op.kind # "convert" => Total(wallet') + op.amount <= Total(wallet)
    <3> HIDE DEF op
    <3>1. CASE op.kind = "convert"
      BY <1>6, <2>1, <3>1
    <3>2. CASE op.kind # "convert"
      <4>1. Total(wallet') + op.amount = Total(wallet)
        BY <1>2, <1>6, <2>1, <3>2, TotalTaken
      <4>2. Total(wallet') \in Nat
        BY <1>6 DEF Total, Wallets
      <4> QED BY <1>2, <1>6, <3>2, <4>1, <4>2
    <3> QED BY <3>1, <3>2
  <2>9. FloorsHold'
    <3>1. op.kind # "convert" => wallet'[op.to] + op.amount <= p.floor
      <4>1. op.kind # "convert" => wallet[op.to] + op.amount <= p.floor
        BY <1>2, <1>10 DEF FloorHolds
      <4> HIDE DEF op, p
      <4> QED BY <1>2, <1>6, <2>7, <4>1
    <3>2. op.kind = "convert" => wallet' = wallet
      BY <2>1
    <3>3. op.kind \in {"redeem", "subscribe"} => op.amount > 0 /\ op.from # op.to
      BY <1>2 DEF FloorHolds
    <3> QED BY <1>1, <1>2, <1>10, <3>1, <3>2, <3>3 DEF FloorsHold, FloorHolds
  <2>10. BalancesHold'
    <3>1. pc = "reconcile" =>
            /\ p.op.kind \in {"redeem", "subscribe"} => balances.wallet[p.op.to] < p.floor
            /\ p.op.kind = "convert" => Total(balances.wallet) < p.floor
      BY <1>1, <1>2, <1>4 DEF Inv, BalancesHold
    <3> HIDE DEF p, op
    <3> QED BY <1>1, <1>2, <1>4, <1>10, <3>1 DEF BalancesHold
  <2>11. EachWithinTarget'
    <3>1. Total(wallet)' = Total(wallet')
      BY DEF Total
    <3>2. \A i \in OpIds \ {id} : OnItsWay(i)' = 0
      BY <2>3 DEF OnItsWay
    <3>3. OnItsWay(id)' = op.amount
      BY <1>10, <2>2, <2>3 DEF OnItsWay
    <3>4. op.kind = "convert" => Total(wallet) + op.amount <= RefillTarget
      <4>1. op.kind = "convert" => OnItsWay(id) = op.amount
        BY <1>1 DEF OnItsWay
      <4> QED BY <4>1 DEF Inv, EachWithinTarget
    <3>5. RefillTarget \in Nat
      BY ThresholdsAssumption
    <3>6. op.kind = "convert" => Total(wallet') = Total(wallet)
      BY <2>1
    <3>7. Total(wallet') <= RefillTarget
      BY <1>6, <2>8, <3>5
    <3> HIDE DEF op
    <3>8. Total(wallet') + op.amount <= RefillTarget
      BY <1>2, <1>6, <2>8, <3>4, <3>5, <3>6
    <3> QED BY <2>8, <3>1, <3>2, <3>3, <3>7, <3>8 DEF EachWithinTarget
  <2> QED BY <1>5, <2>4, <2>5, <2>6, <2>9, <2>10, <2>11 DEF Inv
<1> QED BY <1>2, <1>9, <1>10 DEF Kinds

\* Earn pays out between rounds, and so is seen whole by the next reconciliation.
LEMMA PaysOutKeeps ==
  ASSUME LatePayout = FALSE, Inv, NEW id \in OpIds, PaysOut(id)
  PROVE  Inv'
<1> DEFINE op == orders[id].op
<1>1. /\ orders[id] # NoOp /\ orders[id].stage = "paying" /\ ~Settled(id)
      /\ UNCHANGED <<burnOn, journal, pc, account, balances>> /\ pc # "reconcile"
  BY DEF PaysOut, Settled
<1>2. /\ op \in Op /\ op.from \in Wallets /\ op.to \in Wallets /\ op.amount \in Nat
      /\ orders[id] \in Order /\ pc \notin {"latch", "fund", "post"}
  BY <1>1, OpenOrder, Fields
<1>3. TypeInv'
  BY ExchangeTyped DEF Inv, Exchange
<1>4. wallet \in [Wallets -> Nat] /\ orders \in [OpIds -> Order \cup {NoOp}]
  BY DEF Inv, TypeInv, TypeOK
<1>5. Total(wallet)' = Total(wallet) + op.amount
  <2>1. \/ wallet' = [wallet EXCEPT ![op.to] = @ + op.amount]
        \/ wallet' = [wallet EXCEPT ![op.from] = @ + op.amount]
    BY DEF PaysOut
  <2>2. Total(wallet') = Total(wallet) + op.amount
    <3> HIDE DEF op
    <3> QED BY <1>2, <1>4, <2>1, TotalAdded
  <2> QED BY <2>2 DEF Total
<1>6. Total(wallet)' <= RefillTarget /\ Total(wallet)' \in Nat
  <2>1. OnItsWay(id) = op.amount
    BY <1>1 DEF OnItsWay
  <2>2. Total(wallet) + op.amount <= RefillTarget
    BY <2>1 DEF Inv, EachWithinTarget
  <2>3. Total(wallet)' \in Nat
    BY <1>3, NatFacts DEF TypeInv, TypeOK, Total, Wallets
  <2> QED BY <1>5, <2>2, <2>3
<1>7. PICK s \in {"done", "failed"} : orders' = InStage(id, s)
  BY DEF PaysOut
<1>8. /\ orders'[id] # NoOp /\ orders'[id].op = op /\ orders'[id].stage = s
      /\ \A i \in OpIds \ {id} : orders'[i] = orders[i]
  <2>1. orders'[id] = [orders[id] EXCEPT !.stage = s]
        /\ \A i \in OpIds \ {id} : orders'[i] = orders[i]
    BY <1>4, <1>7 DEF InStage
  <2>2. orders'[id] \in Order /\ orders'[id].op = op /\ orders'[id].stage = s
    BY <1>2, <2>1 DEF Order, Stages
  <2> QED BY <2>1, <2>2, NoOpAssumption
<1>9. Settled(id)'
  BY <1>8 DEF Settled
<1>10. BalancesHold'
  BY <1>1, <1>2 DEF BalancesHold
<1> QED BY <1>1, <1>3, <1>6, <1>8, <1>9, <1>10, FinalStep DEF Inv

\* A purchase that arrives in the middle of a reconciliation was not in the balances
\* the round read.
LEMMA ConvertsKeeps ==
  ASSUME Inv, NEW id \in OpIds, Converts(id)
  PROVE  Inv'
<1> DEFINE op == orders[id].op
<1>1. /\ orders[id] # NoOp /\ orders[id].stage = "processing" /\ ~Settled(id)
      /\ UNCHANGED <<burnOn, journal, pc, account, balances>>
  BY DEF Converts, Settled
<1>2. /\ op \in Op /\ op.to \in Wallets /\ op.amount \in Nat
      /\ orders[id] \in Order /\ pc \notin {"latch", "fund", "post"}
      /\ op.kind = "convert"
      /\ journal.pending.id = id /\ journal.pending.op = op
  BY <1>1, OpenOrder, Fields DEF Inv, OrdersMatch
<1>3. TypeInv'
  BY ExchangeTyped DEF Inv, Exchange
<1>4. wallet \in [Wallets -> Nat] /\ orders \in [OpIds -> Order \cup {NoOp}]
      /\ Total(wallet) \in Nat
  BY NatFacts DEF Inv, TypeInv, TypeOK
<1>5. \/ Total(wallet)' = Total(wallet) + op.amount
      \/ Total(wallet)' = Total(wallet)
  <2>1. \/ wallet' = [wallet EXCEPT ![op.to] = @ + op.amount]
        \/ wallet' = wallet
    BY DEF Converts
  <2>2. \/ Total(wallet') = Total(wallet) + op.amount
        \/ Total(wallet') = Total(wallet)
    <3> HIDE DEF op
    <3> QED BY <1>2, <1>4, <2>1, TotalAdded
  <2> QED BY <2>2 DEF Total
<1>6. Total(wallet)' <= RefillTarget /\ Total(wallet)' \in Nat
  <2>1. OnItsWay(id) = op.amount
    BY <1>1, <1>2 DEF OnItsWay
  <2>2. Total(wallet) + op.amount <= RefillTarget /\ Total(wallet) <= RefillTarget
    BY <2>1 DEF Inv, EachWithinTarget
  <2>3. Total(wallet)' \in Nat
    BY <1>2, <1>4, <1>5
  <2> QED BY <1>5, <2>2, <2>3
<1>7. PICK s \in {"done", "failed"} : orders' = InStage(id, s)
  BY DEF Converts
<1>8. /\ orders'[id] # NoOp /\ orders'[id].op = op /\ orders'[id].stage = s
      /\ \A i \in OpIds \ {id} : orders'[i] = orders[i]
  <2>1. orders'[id] = [orders[id] EXCEPT !.stage = s]
        /\ \A i \in OpIds \ {id} : orders'[i] = orders[i]
    BY <1>4, <1>7 DEF InStage
  <2>2. orders'[id] \in Order /\ orders'[id].op = op /\ orders'[id].stage = s
    BY <1>2, <2>1 DEF Order, Stages
  <2> QED BY <2>1, <2>2, NoOpAssumption
<1>9. Settled(id)'
  BY <1>8 DEF Settled
<1>10. BalancesHold'
  <2>1. ASSUME pc = "reconcile"
        PROVE  /\ account.pending.op.kind = "convert" /\ account.pending.id = id
               /\ Total(balances.wallet) < account.pending.floor
    BY <1>1, <1>2, <2>1 DEF Inv, CopyMatches, BalancesHold
  <2>2. pc = "reconcile" => Settled(account.pending.id)'
    BY <1>1, <1>9, <2>1 DEF Settled
  <2> QED BY <1>1, <1>2, <2>1, <2>2 DEF BalancesHold
<1> QED BY <1>1, <1>3, <1>6, <1>8, <1>9, <1>10, FinalStep DEF Inv

LEMMA DroppedKeeps ==
  ASSUME Inv, NEW id \in OpIds, Dropped(id)
  PROVE  Inv'
<1>1. /\ orders[id] # NoOp /\ orders[id].stage = "sent" /\ ~Settled(id)
      /\ UNCHANGED <<wallet, bfusd, burnOn, journal, pc, account, balances>>
  BY DEF Dropped, Settled
<1>2. orders'[id] = NoOp /\ \A i \in OpIds \ {id} : orders'[i] = orders[i]
  BY DEF Dropped, Inv, TypeInv, TypeOK
<1>3. TypeInv'
  BY ExchangeTyped DEF Inv, Exchange
<1>4. Settled(id)' /\ \A i \in OpIds : Settled(i) => Settled(i)'
  BY <1>2 DEF Settled
<1>5. Total(wallet)' <= RefillTarget /\ Total(wallet)' \in Nat
  BY <1>1, NatFacts DEF Inv, TypeInv, EachWithinTarget, Total
<1>6. BalancesHold'
  <2>1. pc = "reconcile" => account.pending.id \in OpIds
    BY Fields DEF Inv, TypeInv, TypeOK, PendingHere
  <2>2. pc = "reconcile" /\ ~Settled(account.pending.id)' => ~Settled(account.pending.id)
    BY <1>1, <1>4, <2>1 DEF Settled
  <2> QED BY <1>1, <2>2 DEF Inv, BalancesHold, Fresh
<1> QED BY <1>1, <1>2, <1>3, <1>4, <1>5, <1>6, FinalStep DEF Inv

\* Fees only take.
LEMMA FeeKeeps ==
  ASSUME Inv, Fee \/ SweepSpotBfusd
  PROVE  Inv'
<1>1. UNCHANGED <<burnOn, orders, journal, pc, account, balances>>
  BY DEF Fee, SweepSpotBfusd
<1>2. TypeInv'
  BY ExchangeTyped DEF Inv, Exchange
<1>3. wallet \in [Wallets -> Nat] /\ wallet' \in [Wallets -> Nat]
      /\ Total(wallet) \in Nat /\ Total(wallet') \in Nat
  BY <1>2, NatFacts DEF Inv, TypeInv, TypeOK, Total, Wallets
<1>4. /\ \A w \in Wallets : wallet'[w] <= wallet[w]
      /\ Total(wallet') <= Total(wallet)
  BY <1>3 DEF Fee, SweepSpotBfusd, Wallets, Total
<1>5. OpenIsJournaled' /\ CopyMatches' /\ OrdersMatch'
  BY <1>1 DEF Inv, OpenIsJournaled, CopyMatches, OrdersMatch, NoneOpen, Settled
<1>6. FloorsHold'
  <2>1. ASSUME journal.pending # NoOp, FloorHolds(journal.pending)
        PROVE  FloorHolds(journal.pending)'
    <3>1. journal.pending.op.to \in Wallets /\ journal.pending.op.amount \in Nat
          /\ journal.pending.floor \in Nat
      BY <2>1, Fields DEF Inv, TypeInv, TypeOK
    <3> DEFINE p == journal.pending
    <3>2. p.op.kind \in {"redeem", "subscribe"} => wallet'[p.op.to] + p.op.amount <= p.floor
      <4>1. p.op.kind \in {"redeem", "subscribe"} => wallet[p.op.to] + p.op.amount <= p.floor
        BY <2>1 DEF FloorHolds
      <4> HIDE DEF p
      <4> QED BY <1>3, <1>4, <3>1, <4>1 DEF p
    <3>3. p.op.kind = "convert" => Total(wallet') + p.op.amount <= p.floor
      <4>1. p.op.kind = "convert" => Total(wallet) + p.op.amount <= p.floor
        BY <2>1 DEF FloorHolds
      <4> QED BY <1>3, <1>4, <3>1, <4>1
    <3> QED BY <1>1, <2>1, <3>2, <3>3 DEF FloorHolds
  <2> QED BY <1>1, <2>1 DEF Inv, FloorsHold, Settled
<1>7. BalancesHold'
  <2>1. Fresh => Fresh'
    <3>1. balances.wallet \in [Wallets -> Nat]
      BY DEF Inv, TypeInv, TypeOK
    <3> QED BY <1>1, <1>3, <1>4, <3>1 DEF Fresh
  <2>2. Settled(account.pending.id)' <=> Settled(account.pending.id)
    BY <1>1 DEF Settled
  <2> QED BY <1>1, <2>1, <2>2 DEF Inv, BalancesHold
<1>8. EachWithinTarget'
  <2>1. \A id \in OpIds : OnItsWay(id)' = OnItsWay(id)
    BY <1>1 DEF OnItsWay, Settled
  <2>2. \A id \in OpIds : OnItsWay(id) \in Nat
    <3>1. ASSUME NEW id \in OpIds, ~Settled(id)
          PROVE  orders[id].op.amount \in Nat
      BY <3>1, OpenOrder, Fields
    <3> QED BY <3>1 DEF OnItsWay
  <2>3. Total(wallet)' = Total(wallet')
    BY DEF Total
  <2>4. RefillTarget \in Nat
    BY ThresholdsAssumption
  <2> QED BY <1>3, <1>4, <2>1, <2>2, <2>3, <2>4 DEF Inv, EachWithinTarget
<1> QED BY <1>2, <1>5, <1>6, <1>7, <1>8 DEF Inv

-----------------------------------------------------------------------------
(***************************************************************************)
(* Theorems                                                                 *)
(***************************************************************************)
LEMMA StepInv ==
  ASSUME LatePayout = FALSE
  PROVE  Inv /\ [Next]_vars => Inv'
<1> SUFFICES ASSUME Inv, [Next]_vars PROVE Inv'
  OBVIOUS
<1>1. CASE Exchange
  BY <1>1, ArrivesKeeps, DroppedKeeps, PaysOutKeeps, ConvertsKeeps, FeeKeeps DEF Exchange
<1>2. CASE Round
  BY <1>2, StartKeeps, ReconcileKeeps, FundKeeps, PostKeeps, AnswerKeeps, RecheckKeeps,
     EndKeeps DEF Round
<1>3. CASE Save \/ Acknowledge \/ Crash
  BY <1>3, OutsideKeeps
<1>4. CASE UNCHANGED vars
  <2>1. UNCHANGED <<wallet, bfusd, burnOn, orders, journal, pc, account, balances>>
    BY <1>4 DEF vars, exchangeVars
  <2>2. TypeInv'
    BY StepTyped DEF Inv
  <2>3. OpenIsJournaled' /\ EachWithinTarget'
    BY <2>1 DEF Inv, OpenIsJournaled, EachWithinTarget, OnItsWay, Settled
  <2>4. CopyMatches'
    BY <2>1 DEF Inv, CopyMatches, NoneOpen, Settled
  <2>5. OrdersMatch'
    BY <2>1 DEF Inv, OrdersMatch
  <2>6. FloorsHold'
    BY <2>1 DEF Inv, FloorsHold, FloorHolds, Settled
  <2>7. BalancesHold'
    BY <2>1 DEF Inv, BalancesHold, Fresh, Settled
  <2> QED BY <2>2, <2>3, <2>4, <2>5, <2>6, <2>7 DEF Inv
<1> QED BY <1>1, <1>2, <1>3, <1>4 DEF Next

\* The invariant holds while Earn never pays out in the middle of a reconciliation.
THEOREM Invariance ==
  ASSUME LatePayout = FALSE
  PROVE  Spec => []Inv
<1>1. Inv /\ [Next]_vars => Inv'
  BY StepInv
<1> QED BY <1>1, InitInv, PTL DEF Spec

\* Whatever is under way at the exchange is the pending operation of the journal.
THEOREM NothingBeside ==
  ASSUME LatePayout = FALSE
  PROVE  Spec => []OpenIsJournaled
<1>1. Inv => OpenIsJournaled
  BY DEF Inv
<1> QED BY <1>1, Invariance, PTL

\* The published hedge changes only while nothing is under way.
THEOREM HedgeWaits ==
  ASSUME LatePayout = FALSE
  PROVE  Spec => HedgeOnSettled
<1> DEFINE A == hedge' # hedge => \A id \in OpIds : Settled(id)
<1>1. ASSUME Inv, [Next]_vars
      PROVE  A
  <2>1. CASE PublishHedge
    BY <1>1, <2>1 DEF PublishHedge, HedgeAllowed, Inv, CopyMatches, NoneOpen
  <2>2. CASE Sends
    BY <1>1, <2>2, Submission DEF Inv, TypeInv
  <2>3. CASE Exchange
    BY <2>3 DEF Exchange, Arrives, Dropped, PaysOut, Converts, Fee, SweepSpotBfusd
  <2>4. CASE Reconcile
    BY <2>4 DEF Reconcile, ReconcileSeen, ReconcileResolved, ReconcileFailed, ReconcileLater
  <2>5. CASE LatchRefill \/ KeepLatch \/ UnlatchRefill \/ ChooseRoute \/ NoFunding
    BY <2>5 DEF LatchRefill, KeepLatch, UnlatchRefill, ChooseRoute, NoFunding
  <2>6. CASE \/ StartRound \/ Post \/ PostRefused \/ Answered \/ Unanswered \/ Recheck
             \/ SkipHedge \/ Save \/ Acknowledge \/ Crash \/ UNCHANGED vars
    BY <2>6 DEF StartRound, Post, PostRefused, Answered, Unanswered, Recheck, SkipHedge,
                Save, Acknowledge, Crash, vars
  <2> QED BY <1>1, <2>1, <2>2, <2>3, <2>4, <2>5, <2>6, Refills, Manages
          DEF Inv, TypeInv, Next, Round, Fund
<1>2. Inv /\ [Next]_vars => [A]_vars
  BY <1>1
<1> QED BY <1>2, Invariance, PTL DEF Spec, HedgeOnSettled

-----------------------------------------------------------------------------
(***************************************************************************)
(* The reserve, as a sum                                                    *)
(***************************************************************************)
\* A sum with one term that is not zero is that term.  The fold is the only function
\* that unfolds the way it does: a smallest set on which another one differed would
\* leave a smaller one.
LEMMA SumOfOne ==
  ASSUME NEW S, IsFiniteSet(S), NEW fun, NEW p \in S, fun[p] \in Nat,
         \A q \in S \ {p} : fun[q] = 0
  PROVE  SumFunctionOnSet(fun, S) = fun[p]
<1> DEFINE Only == [s \in SUBSET S |-> IF p \in s THEN fun[p] ELSE 0]
           Pick(s) == CHOOSE x \in s : TRUE
           Unfolds(h) == h = [s \in SUBSET S |->
                     IF s = {} THEN 0 ELSE fun[Pick(s)] + h[s \ {Pick(s)}]]
<1>1. Unfolds(Only)
  <2>1. ASSUME NEW s \in SUBSET S, s # {}
        PROVE Only[s] = fun[Pick(s)] + Only[s \ {Pick(s)}]
    <3>1. Pick(s) \in s
      BY <2>1
    <3> HIDE DEF Pick
    <3>2. s \ {Pick(s)} \in SUBSET S
      OBVIOUS
    <3>3. CASE Pick(s) = p
      <4>1. Only[s \ {Pick(s)}] = 0
        BY <3>2, <3>3
      <4>2. Only[s] = fun[p]
        BY <3>1, <3>3
      <4> QED BY <4>1, <4>2, <3>3
    <3>4. CASE Pick(s) # p
      <4>1. Only[s \ {Pick(s)}] = Only[s]
        BY <3>2, <3>4
      <4>2. fun[Pick(s)] = 0
        BY <3>1, <3>4
      <4>3. Only[s] \in Nat
        OBVIOUS
      <4> QED BY <4>1, <4>2, <4>3
    <3> QED BY <3>3, <3>4
  <2>2. Only[{}] = 0
    OBVIOUS
  <2> QED BY <2>1, <2>2
<1> DEFINE h == CHOOSE iter : Unfolds(iter)
<1>2. Unfolds(h)
  <2> HIDE DEF Unfolds
  <2> QED BY <1>1
<1>3. SumFunctionOnSet(fun, S) = h[S]
  BY DEF SumFunctionOnSet, FoldFunctionOnSet, MapThenFoldSet
<1> HIDE DEF h
<1>4. ASSUME NEW s \in SUBSET S, s # {}
      PROVE /\ Pick(s) \in s
            /\ h[s] = fun[Pick(s)] + h[s \ {Pick(s)}]
            /\ Only[s] = fun[Pick(s)] + Only[s \ {Pick(s)}]
  BY <1>1, <1>2, <1>4
<1>5. h[{}] = 0 /\ Only[{}] = 0
  BY <1>2
<1> HIDE DEF Only, Pick, Unfolds
<1> DEFINE Wrong == {t \in SUBSET S : h[t] # Only[t]}
<1>6. Wrong = {}
  <2>1. SUFFICES ASSUME Wrong # {} PROVE FALSE
    OBVIOUS
  <2>2. IsWellFoundedOn(StrictSubsetOrdering(S), SUBSET S)
    BY FS_StrictSubsetOrderingWellFounded, FS_FiniteSubsetsOfFinite
  <2>3. PICK s \in Wrong : \A r \in Wrong : <<r, s>> \notin StrictSubsetOrdering(S)
    BY <2>1, <2>2, WFMin
  <2>4. s # {}
    BY <1>5
  <2> DEFINE r == s \ {Pick(s)}
  <2>5. r \in Wrong
    BY <2>4, <1>4
  <2>6. <<r, s>> \in StrictSubsetOrdering(S)
    BY <2>4, <1>4 DEF StrictSubsetOrdering
  <2> QED BY <2>3, <2>5, <2>6
<1>7. h[S] = Only[S]
  BY <1>6
<1> QED BY <1>3, <1>7 DEF Only

\* When no term is, the sum is zero.
LEMMA SumOfNone ==
  ASSUME NEW S, IsFiniteSet(S), NEW fun, \A q \in S : fun[q] = 0
  PROVE  SumFunctionOnSet(fun, S) = 0
<1>1. CASE S # {}
  <2>1. PICK p \in S : TRUE
    BY <1>1
  <2> QED BY <2>1, SumOfOne
<1>2. CASE S = {}
  <2> DEFINE Unfolds(h) == h = [s \in SUBSET S |->
               IF s = {} THEN 0
               ELSE fun[CHOOSE x \in s : TRUE] + h[s \ {CHOOSE x \in s : TRUE}]]
             h == CHOOSE iter : Unfolds(iter)
  <2>1. Unfolds([s \in SUBSET S |-> 0])
    BY <1>2
  <2>2. Unfolds(h)
    <3> HIDE DEF Unfolds
    <3> QED BY <2>1
  <2>3. SumFunctionOnSet(fun, S) = h[S]
    BY DEF SumFunctionOnSet, FoldFunctionOnSet, MapThenFoldSet
  <2> HIDE DEF h
  <2> QED BY <1>2, <2>2, <2>3
<1> QED BY <1>1, <1>2

\* With everything on its way counted, the reserve stays within the refill target: one
\* shortage is bought once.
THEOREM BoughtOnce ==
  ASSUME LatePayout = FALSE
  PROVE  Spec => []ReserveWithinTarget
<1>1. ASSUME Inv
      PROVE  ReserveWithinTarget
  <2> DEFINE coming == [id \in OpIds |-> OnItsWay(id)]
  <2>1. Reserve = Total(wallet) + SumFunctionOnSet(coming, OpIds)
    BY DEF Reserve, SumFunction
  <2>2. \A id \in OpIds : coming[id] = OnItsWay(id)
    OBVIOUS
  <2>3. Total(wallet) \in Nat /\ Total(wallet) <= RefillTarget
    BY <1>1, NatFacts DEF Inv, TypeInv, EachWithinTarget
  <2>4. CASE NoneOpen
    <3>1. \A id \in OpIds : coming[id] = 0
      BY <2>4, <2>2 DEF NoneOpen, OnItsWay
    <3> HIDE DEF coming
    <3>2. SumFunctionOnSet(coming, OpIds) = 0
      BY <3>1, SumOfNone, OpIdsAssumption
    <3> QED BY <2>1, <2>3, <3>2 DEF ReserveWithinTarget
  <2>5. CASE ~NoneOpen
    <3>1. PICK p \in OpIds : ~Settled(p)
      BY <2>5 DEF NoneOpen
    <3>2. /\ orders[p].op.amount \in Nat
          /\ \A id \in OpIds \ {p} : Settled(id)
      BY <1>1, <3>1, OpenOrder, Fields
    <3>3. coming[p] \in Nat /\ \A id \in OpIds \ {p} : coming[id] = 0
      BY <2>2, <3>2 DEF OnItsWay
    <3>4. Total(wallet) + coming[p] <= RefillTarget
      BY <1>1, <2>2 DEF Inv, EachWithinTarget
    <3> HIDE DEF coming
    <3>5. SumFunctionOnSet(coming, OpIds) = coming[p]
      BY <3>3, SumOfOne, OpIdsAssumption
    <3> QED BY <2>1, <3>4, <3>5 DEF ReserveWithinTarget
  <2> QED BY <2>4, <2>5
<1> QED BY <1>1, Invariance, PTL

\* A refill whose latch is not in the file yet was latched low, and nothing came in since.
Low == Total(wallet) <= RefillTrigger \/ Total(wallet) <= Required + FuturesTarget

LatchedLow ==
  account.latched /\ ~journal.latched =>
    pc = "hedge" /\ account.pending = NoOp /\ Low

LEMMA ReserveIsTotal ==
  ASSUME NoneOpen, TypeInv
  PROVE  Reserve = Total(wallet)
<1> DEFINE coming == [id \in OpIds |-> OnItsWay(id)]
<1>1. \A id \in OpIds : coming[id] = 0
  BY DEF NoneOpen, OnItsWay
<1>2. Reserve = Total(wallet) + SumFunctionOnSet(coming, OpIds)
  BY DEF Reserve, SumFunction
<1> HIDE DEF coming
<1>3. SumFunctionOnSet(coming, OpIds) = 0
  BY <1>1, SumOfNone, OpIdsAssumption
<1> QED BY <1>2, <1>3, NatFacts DEF TypeInv

\* What LatchRefill latches on is low.
LEMMA LatchIsLow ==
  ASSUME Inv, LatchRefill
  PROVE  Low /\ NoneOpen
<1>1. pc = "latch" /\ ~account.latched /\ (FeeShort \/ Quantity > 0)
  BY DEF LatchRefill
<1>2. NoneOpen
  BY <1>1, OpenOrder DEF NoneOpen
<1>3. Total(wallet) <= Owned
  BY <1>1 DEF Inv, BalancesHold, Fresh, Total, Owned, Wallets, TypeInv, TypeOK
<1>4. Total(wallet) \in Nat /\ Owned \in Nat /\ FuturesBnb \in Nat /\ SpotBnb \in Nat
  BY NatFacts DEF Inv, TypeInv
<1>5. Required \in Nat /\ FuturesTarget \in Nat /\ RefillTrigger \in Nat
  BY ThresholdsAssumption
<1>6. Owned <= RefillTrigger \/ Owned <= Required + FuturesTarget
  BY <1>1, <1>4, <1>5 DEF FeeShort, Quantity, Monus
<1> QED BY <1>2, <1>3, <1>4, <1>5, <1>6 DEF Low

\* The only steps that set the latch in the file.
LEMMA LatchStep ==
  ASSUME Inv, LatchedLow, [Next]_vars
  PROVE  /\ LatchedLow'
         /\ journal'.latched /\ ~journal.latched => Low /\ NoneOpen
<1>a. account \in Journal /\ journal \in Journal /\ (pc = "idle" => account = Blank)
  BY DEF Inv, TypeInv, TypeOK
<1>b. ~Blank.latched
  BY DEF Blank
<1>c. /\ \A a \in Journal : Cleared(a).latched = a.latched
      /\ \A a \in Journal : Finished(a).latched => a.latched
  BY <1>b DEF Cleared, Finished, Journal
<1>1. ASSUME account'.latched => journal'.latched, journal'.latched => journal.latched
      PROVE  /\ LatchedLow'
             /\ journal'.latched /\ ~journal.latched => Low /\ NoneOpen
  BY <1>1 DEF LatchedLow
<1>2. CASE Exchange
  <2>1. UNCHANGED <<journal, pc, account>>
    BY <1>2 DEF Exchange, Arrives, Dropped, PaysOut, Converts, Fee, SweepSpotBfusd
  <2>2. CASE account.latched /\ ~journal.latched
    <3>1. NoneOpen /\ pc = "hedge" /\ account.pending = NoOp /\ Low
      BY <2>2 DEF LatchedLow, Inv, CopyMatches
    <3>2. Fee \/ SweepSpotBfusd
      BY <1>2, <3>1 DEF Exchange, NoneOpen, Settled, Arrives, Dropped, PaysOut, Converts
    <3>3. Low'
      <4>1. wallet \in [Wallets -> Nat]
        BY DEF Inv, TypeInv, TypeOK
      <4>2. Required \in Nat /\ FuturesTarget \in Nat /\ RefillTrigger \in Nat
        BY ThresholdsAssumption
      <4> QED BY <3>1, <3>2, <4>1, <4>2 DEF Fee, SweepSpotBfusd, Low, Total, Wallets
    <3> QED BY <2>1, <2>2, <3>1, <3>3 DEF LatchedLow
  <2>3. CASE ~(account.latched /\ ~journal.latched)
    BY <2>1, <2>3 DEF LatchedLow
  <2> QED BY <2>2, <2>3
<1>3. CASE StartRound
  BY <1>1, <1>3 DEF StartRound
<1>4. CASE Reconcile
  <2>1. account = journal
    BY <1>4 DEF Reconcile, ReconcileSeen, ReconcileResolved, ReconcileFailed,
                ReconcileLater, Inv, CopyMatches
  <2> QED BY <1>1, <1>4, <1>a, <1>b, <1>c, <2>1
          DEF Reconcile, ReconcileSeen, ReconcileResolved, ReconcileFailed,
              ReconcileLater, Saved, EndRound
<1>5. CASE LatchRefill
  <2>1. Low /\ NoneOpen
    BY <1>5, LatchIsLow
  <2>2. Low'
    BY <1>5, <2>1 DEF LatchRefill, exchangeVars, Low, Total
  <2>3. account.pending = NoOp
    BY <1>5 DEF LatchRefill, Inv, CopyMatches
  <2>4. /\ account' = [account EXCEPT !.latched = TRUE]
        /\ \/ journal' = account' /\ pc' = "fund"
           \/ journal' = journal /\ pc' = "hedge"
    BY <1>5 DEF LatchRefill, Saved, Unsaved
  <2>5. account'.pending = NoOp
    BY <1>a, <2>3, <2>4 DEF Journal
  <2> QED BY <2>1, <2>2, <2>4, <2>5 DEF LatchedLow
<1>6. CASE Fund /\ ~LatchRefill
  <2>1. CASE Sends
    <3>1. account = journal
      BY <2>1 DEF Sends, Inv, CopyMatches
    <3>2. account'.latched = account.latched /\ (journal' = account' \/ journal' = journal)
      BY <2>1, Submission DEF Inv, TypeInv
    <3> QED BY <1>1, <3>1, <3>2
  <2>2. CASE KeepLatch \/ NoFunding \/ UnlatchRefill
    <3>1. account = journal
      BY <2>2 DEF KeepLatch, NoFunding, UnlatchRefill, Inv, CopyMatches
    <3>2. /\ account'.latched => account.latched
          /\ journal' = account' \/ journal' = journal
      BY <1>a, <2>2 DEF KeepLatch, NoFunding, UnlatchRefill, Saved, Unsaved, Journal
    <3>3. account.latched => journal'.latched \/ ~account'.latched
      BY <3>1, <3>2
    <3> QED BY <1>1, <3>1, <3>2, <3>3
  <2>3. CASE ChooseRoute
    <3>1. account = journal
      BY <2>3 DEF ChooseRoute, Refilling, Inv, CopyMatches
    <3>2. PICK r \in {"futures", "spot"} :
            /\ account' = [account EXCEPT !.route = r]
            /\ journal' = account' \/ journal' = journal
      BY <2>3 DEF ChooseRoute, Saved, Unsaved
    <3>3. account'.latched = account.latched
      BY <1>a, <3>2 DEF Journal
    <3> QED BY <1>1, <3>1, <3>2, <3>3
  <2> QED BY <1>6, <2>1, <2>2, <2>3, Refills, Manages DEF Fund, Inv, TypeInv
<1>7. CASE Post \/ PostRefused \/ Unanswered
  <2>1. account = journal
    BY <1>7 DEF Post, PostRefused, Unanswered, Inv, CopyMatches
  <2> QED BY <1>1, <1>7, <1>a, <1>c, <2>1
          DEF Post, PostRefused, Unanswered, KeptUnanswered, Saved, Unsaved
<1>8. CASE Answered
  <2>1. account = journal
    BY <1>8 DEF Answered, Inv, CopyMatches
  <2>2. account' = [account EXCEPT !.pending.answered = TRUE]
        /\ (journal' = account' \/ journal' = journal)
    BY <1>8 DEF Answered, Saved, Unsaved
  <2>3. account'.latched = account.latched
    BY <1>a, <2>2 DEF Journal
  <2> QED BY <1>1, <2>1, <2>2, <2>3
<1>9. CASE Recheck
  <2>1. account.latched => journal.latched
    BY <1>9 DEF Recheck, LatchedLow
  <2>2. /\ account'.latched => account.latched
        /\ journal' = account' \/ journal' = journal
    BY <1>9, <1>a, <1>c DEF Recheck, Saved, Unsaved
  <2> QED BY <1>1, <2>1, <2>2
<1>10. CASE PublishHedge
  <2>1. journal' = account /\ account' = Blank
    BY <1>10 DEF PublishHedge, EndRound
  <2>2. account.pending = NoOp => NoneOpen
    BY <1>10 DEF PublishHedge, Inv, CopyMatches
  <2> QED BY <1>b, <2>1, <2>2 DEF LatchedLow
<1>11. CASE SkipHedge \/ Crash \/ Save \/ Acknowledge
  <2>1. account' = Blank
    BY <1>11, <1>a DEF SkipHedge, Crash, Save, Acknowledge, EndRound
  <2>2. journal'.latched => journal.latched
    BY <1>11, <1>a, <1>c DEF SkipHedge, Crash, Save, Acknowledge
  <2> QED BY <1>1, <1>b, <2>1, <2>2
<1>12. CASE UNCHANGED vars
  BY <1>12 DEF vars, exchangeVars, LatchedLow, Low, Total
<1> QED BY <1>2, <1>3, <1>4, <1>5, <1>6, <1>7, <1>8, <1>9, <1>10, <1>11, <1>12
        DEF Next, Round

\* Buying starts low as long as no payout lands between the two queries of a round, the
\* interleaving in which it does not.
THEOREM StartsLow ==
  ASSUME LatePayout = FALSE
  PROVE  Spec => RefillStartsLow
<1> DEFINE A == journal'.latched /\ ~journal.latched =>
                  \/ Reserve <= RefillTrigger
                  \/ Reserve <= Required + FuturesTarget
<1>1. Init => LatchedLow
  BY DEF Init, LatchedLow, Blank
<1>2. Inv /\ LatchedLow /\ [Next]_vars => LatchedLow'
  BY LatchStep
<1>3. Inv /\ LatchedLow /\ [Next]_vars => [A]_vars
  <2>1. ASSUME Inv, LatchedLow, [Next]_vars, journal'.latched, ~journal.latched
        PROVE  \/ Reserve <= RefillTrigger
               \/ Reserve <= Required + FuturesTarget
    BY <2>1, LatchStep, ReserveIsTotal DEF Inv, Low
  <2> QED BY <2>1
<1> QED BY <1>1, <1>2, <1>3, Invariance, PTL DEF Spec, RefillStartsLow
============================================================================
