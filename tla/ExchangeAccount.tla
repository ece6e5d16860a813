-------------------------- MODULE ExchangeAccount --------------------------
(***************************************************************************)
(* What the Manager asks the exchange about one account and one contract   *)
(* of it (src/src/exchange_leverage.rs, exchange_leverage/unified.rs,       *)
(* web/account_mode.rs and the handlers of web.rs): the account mode at    *)
(* start-up, the leverage, the fees.                                       *)
(*                                                                         *)
(* A request of an operator is a sequence of HTTP calls and no lock spans  *)
(* them: another operator, or the owner of the account at the exchange's   *)
(* own front end, may act between any two.  The exchange is modelled as    *)
(* the code uses it.                                                       *)
(***************************************************************************)
EXTENDS Integers, FiniteSets

CONSTANTS
  AccountKinds,      \* kinds of account looked at, of AllKinds
  Callers,    \* operators' requests
  Leverages,     \* leverages; 0 is the contract nobody has set one for
  Groups,     \* fee groups of OKX
  Charge,     \* what a group costs, in the convention of Binance
  NoGroup,       \* no fee group
  MaxCalls,   \* bound on requests
  MaxEvents   \* bound on failures, restarts and what the owner does

VARIABLES
  kind,       \* venue and backend of the account, from the configuration
  mode,       \* account mode at the exchange
  modes,      \* the modes it had since the Manager started
  leverage,   \* leverage of the contract at the exchange
  margin,     \* margin and position mode of the contract at the exchange
  group,      \* fee group of the contract at the exchange
  recorded,   \* row of cta_account_symbol_leverages, 0 without one
  checked,    \* what the start-up found of the account mode
  call,       \* requests
  calls, events

accountVars == <<kind, mode, modes, leverage, margin, group, recorded, checked,
                 call, calls, events>>

AllKinds == {"binance", "binance_pm", "okex", "bybit", "bitget", "rapidx"}

\* The modes an account of a kind can be in, as the exchange names them.
Modes ==
  [binance |-> {"single_asset", "multi_assets"}, binance_pm |-> {"portfolio"},
   okex |-> {"acctLv2", "acctLv3"},
   bybit |-> {"ISOLATED_MARGIN", "REGULAR_MARGIN", "PORTFOLIO_MARGIN"},
   bitget |-> {"hedge_mode", "one_way_mode"}, rapidx |-> {"sub_portfolio"}]

\* The modes in which a target that is not zero may be published.  Portfolio
\* margin and a RapidX sub-portfolio are not even asked.
UnifiedModes == {"REGULAR_MARGIN", "PORTFOLIO_MARGIN", "one_way_mode"}
Required == {"multi_assets", "portfolio", "acctLv3", "sub_portfolio"} \union UnifiedModes

Unasked == {"binance_pm", "rapidx"}
Unified == {"bybit", "bitget"}
Binance == {"binance", "binance_pm"}

Idle == [op |-> "idle", want |-> 0, stage |-> "none", wrote |-> FALSE, value |-> 0,
         group |-> NoGroup, held |-> {}, groups |-> {}, touched |-> FALSE,
         overrode |-> FALSE, ok |-> FALSE]

AccountInit ==
  /\ kind \in AccountKinds /\ mode \in Modes[kind] /\ modes = {mode}
  /\ leverage \in IF kind = "bitget" THEN {0} ELSE Leverages \ {0}
  /\ margin = "cross"
  /\ group \in IF kind = "okex" THEN Groups \union {NoGroup} ELSE {CHOOSE g \in Groups : TRUE}
  /\ recorded = 0 /\ checked = "starting"
  /\ call = [c \in Callers |-> Idle]
  /\ calls = 0 /\ events = 0

exchangeVars == <<mode, modes, leverage, margin, group>>
boundVars == <<calls, events>>

----------------------------------------------------------------------------
(* Start-up. *)

\* Every enabled publisher is checked once, before the API opens.  An account
\* whose check fails stays shut until the next start.
CheckMode(answered) ==
  /\ checked = "starting"
  /\ IF answered THEN UNCHANGED events ELSE events < MaxEvents /\ events' = events + 1
  /\ checked' = IF kind \in Unasked THEN "verified"
                ELSE IF ~answered THEN "failed"
                ELSE IF mode \in Required THEN "verified" ELSE "rejected"
  /\ UNCHANGED <<kind, exchangeVars, recorded, call, calls>>

\* The Manager restarts: requests under way are gone, what they did is not.
Restart ==
  /\ events < MaxEvents /\ events' = events + 1
  /\ checked # "starting" /\ checked' = "starting"
  /\ call' = [c \in Callers |-> Idle] /\ modes' = {mode}
  /\ UNCHANGED <<kind, mode, leverage, margin, group, recorded, calls>>

\* May a target that is not zero be published?  An absent result is never
\* treated as verified.
MayPublish == checked = "verified"

----------------------------------------------------------------------------
(* Requests. *)

\* Where a request of a kind of account begins.
FirstStage(op) ==
  IF kind \in Unified THEN "mode"
  ELSE [set |-> "post", get |-> "look", fee |-> "tier"][op]

\* The answer that ends a request; it stays for the operator to read.
Answered(r, ok, value) ==
  [r EXCEPT !.stage = "done", !.ok = ok, !.value = value, !.want = 0, !.wrote = FALSE]

Finished(c, ok, value) == call' = [call EXCEPT ![c] = Answered(@, ok, value)]

Fail(c) == Finished(c, FALSE, 0)

\* What the other requests under way could have seen of the exchange.
Under(r) == r.stage \notin {"none", "done"}
Witness(r) == IF Under(r) THEN [r EXCEPT !.held = @ \union {leverage'}] ELSE r

\* The calls go to the exchange itself; a RapidX account has no keys for it.
Native == kind # "rapidx"

\* An operator asks.
Ask(c, op, want) ==
  /\ checked # "starting"
  /\ call[c].stage \in {"none", "done"}
  /\ calls < MaxCalls /\ calls' = calls + 1
  /\ call' = [call EXCEPT ![c] =
        [Idle EXCEPT !.op = op, !.want = want, !.held = {leverage}, !.groups = {group},
                     !.stage = IF Native THEN FirstStage(op) ELSE "done"]]
  /\ UNCHANGED <<kind, exchangeVars, recorded, checked, events>>

Proceed(c, stage) == call' = [call EXCEPT ![c].stage = stage]

\* The account mode lets Bybit and Bitget requests through; portfolio margin
\* has no leverage of a contract.
ModeServes(op) ==
  /\ mode \in Required
  /\ op # "fee" => mode # "PORTFOLIO_MARGIN"

\* Fault: the settings of the contract are not looked at before the write.
SettingsUnread(c) == call[c].wrote => leverage # 0 /\ margin = "cross"

\* Bitget: the settings that carry the account mode carry the contracts too.
\* A contract without a row may be set; one with a row must be cross.
SettingsServe(c) ==
  \/ leverage = 0 /\ call[c].op = "set" /\ ~call[c].wrote
  \/ leverage # 0 /\ margin = "cross"

\* The leverage of the contract was read.  A request that has not written
\* writes now; one that has compares what it reads with what it wrote.
Read(c, value) ==
  CASE call[c].op = "get" -> call' = [call EXCEPT ![c] = [@ EXCEPT !.stage = "catalog", !.value = value]]
    [] call[c].op = "set" /\ ~call[c].wrote -> Proceed(c, "post")
    [] OTHER -> IF value = call[c].want
                THEN call' = [call EXCEPT ![c] = [@ EXCEPT !.stage = "catalog", !.value = value]]
                ELSE Fail(c)

\* A call that read something changes the request only.
Looked == UNCHANGED <<kind, exchangeVars, recorded, checked, boundVars>>

AskMode(c) ==
  /\ call[c].stage = "mode"
  /\ IF ~ModeServes(call[c].op) THEN Fail(c)
     ELSE IF call[c].op = "fee" THEN Proceed(c, "commission")
     ELSE IF kind = "bybit" THEN Proceed(c, "look")
     ELSE IF SettingsServe(c) THEN Read(c, leverage) ELSE Fail(c)
  /\ Looked

\* Binance lists the positions with their leverage, OKX that of cross margin.
BinanceLeverage(c) == kind \in Binance /\ call[c].stage = "look" /\ Read(c, leverage) /\ Looked
OkxLeverage(c) == kind = "okex" /\ call[c].stage = "look" /\ Read(c, leverage) /\ Looked

\* Bybit's position must be a one-way one.
OneWay == margin = "cross"

BybitLeverage(c) ==
  /\ kind = "bybit" /\ call[c].stage = "look"
  /\ IF OneWay THEN Read(c, leverage) ELSE Fail(c)
  /\ Looked

\* A write that was acknowledged and what the exchange made of it.
Write(c, applied, next) ==
  /\ leverage' = IF applied THEN call[c].want ELSE leverage
  /\ margin' = IF applied /\ kind = "bitget" THEN "cross" ELSE margin
  /\ call' = [d \in Callers |->
       IF d = c
       THEN [call[d] EXCEPT !.wrote = TRUE, !.held = {leverage'}, !.value = call[d].want,
                            !.overrode = margin' # margin, !.stage = next]
       ELSE Witness(call[d])]
  /\ UNCHANGED <<kind, mode, modes, group, recorded, checked, boundVars>>

\* Binance and OKX are taken at their word.
BinanceWrites(c) == kind \in Binance /\ call[c].stage = "post" /\ Write(c, TRUE, "catalog")
OkxWrites(c) == kind = "okex" /\ call[c].stage = "post" /\ Write(c, TRUE, "catalog")

\* Bybit and Bitget may acknowledge a write that does not take effect, which is
\* why the leverage is read back; Bybit also answers 110043 when there was
\* nothing to change.  Bitget's request names the cross mode.
UnifiedWrites(c) ==
  /\ kind \in Unified /\ call[c].stage = "post"
  /\ \E applied \in BOOLEAN : Write(c, applied, "mode")

\* The account's tier comes before Binance's commission, the instrument's fee
\* group, which may be left out, before that of OKX.
BinanceTier(c) ==
  /\ kind \in Binance /\ call[c].stage = "tier"
  /\ Proceed(c, "commission") /\ Looked

OkxGroup(c) ==
  /\ kind = "okex" /\ call[c].stage = "tier"
  /\ \E g \in {NoGroup, group} :
       call' = [call EXCEPT ![c] = [@ EXCEPT !.stage = "commission", !.group = g]]
  /\ Looked

\* The groups OKX lists for the instrument: all, only its own, or none for an
\* instrument that has none and is billed at makerU and takerU.
Listed == IF group = NoGroup THEN {{}} ELSE {Groups, {group}}

\* Which of the listed groups bills the instrument, as a set: empty is an error.
\* Fault: without a group the first one listed is taken.
AnyGroup(listed, known) ==
  IF listed = {} THEN {NoGroup}
  ELSE IF known # NoGroup THEN listed \intersect {known}
  ELSE {CHOOSE g \in listed : TRUE}

SelectGroup(listed, known) ==
  IF listed = {} THEN {NoGroup}
  ELSE IF known # NoGroup THEN listed \intersect {known}
  ELSE IF Cardinality(listed) = 1 THEN listed ELSE {}

\* OKX signs a fee the other way round: what it lists is the negated cost.
OkxRate(g) == -Charge[g]

OkxCommission(c) ==
  /\ kind = "okex" /\ call[c].stage = "commission"
  /\ \E listed \in Listed : \E chosen \in {SelectGroup(listed, call[c].group)} :
       IF chosen = {} THEN Fail(c) ELSE \E g \in chosen : Finished(c, TRUE, -OkxRate(g))
  /\ Looked

\* Binance, Bybit and Bitget answer for the contract.
BinanceCommission(c) ==
  /\ kind \in Binance /\ call[c].stage = "commission"
  /\ Finished(c, TRUE, Charge[group]) /\ Looked

UnifiedCommission(c) ==
  /\ kind \in Unified /\ call[c].stage = "commission"
  /\ Finished(c, TRUE, Charge[group]) /\ Looked

\* The catalog is written (set) or read (get).  When it cannot be, the answer
\* of the exchange stands.
Catalog(c, reachable) ==
  /\ call[c].stage = "catalog"
  /\ IF reachable THEN UNCHANGED events ELSE events < MaxEvents /\ events' = events + 1
  /\ recorded' = IF reachable /\ call[c].op = "set" THEN call[c].want ELSE recorded
  /\ Finished(c, TRUE, call[c].value)
  /\ UNCHANGED <<kind, exchangeVars, checked, calls>>

\* A call fails or its answer is lost; a lost write may have been applied.
Lose(c) ==
  /\ call[c].stage \in {"mode", "look", "post", "tier", "commission"}
  /\ events < MaxEvents /\ events' = events + 1
  /\ leverage' \in {leverage} \union (IF call[c].stage = "post" THEN {call[c].want} ELSE {})
  /\ call' = [d \in Callers |->
       IF d = c THEN Answered(call[d], FALSE, 0) ELSE Witness(call[d])]
  /\ margin' = IF leverage' # leverage /\ kind = "bitget" THEN "cross" ELSE margin
  /\ UNCHANGED <<kind, mode, modes, group, recorded, checked, calls>>

----------------------------------------------------------------------------
(* The owner of the account, at the exchange. *)

Owner ==
  /\ events < MaxEvents /\ events' = events + 1
  /\ \/ mode' \in Modes[kind] \ {mode} /\ UNCHANGED <<leverage, margin, group>>
     \/ /\ leverage' \in (Leverages \ {0}) \ {leverage}
        /\ margin' \in IF kind \in Unified THEN {"cross", "isolated"} ELSE {margin}
        /\ UNCHANGED <<mode, group>>
     \/ kind = "okex" /\ group' \in Groups \ {group} /\ UNCHANGED <<mode, leverage, margin>>
  /\ modes' = modes \union {mode'}
  /\ call' = [c \in Callers |->
       IF Under(call[c])
       THEN [Witness(call[c]) EXCEPT !.groups = @ \union {group'}, !.touched = TRUE]
       ELSE call[c]]
  /\ UNCHANGED <<kind, recorded, checked, calls>>

AccountNext ==
  \/ \E b \in BOOLEAN : CheckMode(b)
  \/ Restart
  \/ \E c \in Callers : \E want \in Leverages \ {0} : Ask(c, "set", want)
  \/ \E c \in Callers : \E op \in {"get", "fee"} : Ask(c, op, 0)
  \/ \E c \in Callers : BinanceLeverage(c) \/ BinanceWrites(c) \/ BinanceTier(c) \/ BinanceCommission(c)
  \/ \E c \in Callers : OkxLeverage(c) \/ OkxWrites(c) \/ OkxGroup(c) \/ OkxCommission(c)
  \/ \E c \in Callers : AskMode(c) \/ BybitLeverage(c) \/ UnifiedWrites(c) \/ UnifiedCommission(c)
  \/ \E c \in Callers : Lose(c)
  \/ \E c \in Callers : \E b \in BOOLEAN : Catalog(c, b)
  \/ Owner

AccountTypeOK ==
  /\ kind \in AccountKinds /\ mode \in Modes[kind]
  /\ leverage \in Leverages \union {0} /\ margin \in {"cross", "isolated"}
  /\ group \in Groups \union {NoGroup}
  /\ checked \in {"starting", "verified", "rejected", "failed"}
  /\ \A c \in Callers : call[c].stage \in
       {"none", "mode", "look", "post", "tier", "commission", "catalog", "done"}

----------------------------------------------------------------------------
(***************************************************************************)
(* What an operator is told was so while the request ran.  A leverage that *)
(* was set is one the contract had after the write; the fee is that of a   *)
(* group the contract was in; and the margin mode of a contract is changed *)
(* by setting its leverage only if the owner changed it meanwhile (the     *)
(* write of Bitget names a mode).  And targets that are not zero may be     *)
(* published only to an account that was in a mode which serves them since *)
(* the Manager started.                                                    *)
(***************************************************************************)
AnswersWereTrue ==
  /\ MayPublish => modes \intersect Required # {}
  /\ \A c \in Callers :
       /\ call[c].stage = "done" /\ call[c].ok =>
            IF call[c].op = "fee"
            THEN call[c].value \in {Charge[g] : g \in call[c].groups}
            ELSE call[c].value \in call[c].held
       /\ call[c].overrode => call[c].touched
=============================================================================
