------------------------------ MODULE AutoEarn ------------------------------
(***************************************************************************)
(* The BFUSD rounds of bfusd_auto.rs.  A round sweeps BFUSD that lies in   *)
(* the spot wallet back to the futures wallet, then moves USDT out of the  *)
(* futures wallet, subscribes BFUSD with it and moves the BFUSD back.  The *)
(* account is paused on disk before the first of these requests and comes  *)
(* out of it only when the last one succeeded: a crash, an error or an     *)
(* answer that never came leaves it paused until an operator resumes it.   *)
(* A round holds the lock of the funds and that of the settings, so only   *)
(* time, a crash and the exchange happen during one.  One action is one    *)
(* request with its answer and the code up to the next request.            *)
(***************************************************************************)
EXTENDS RequestBudget, FiniteSets

CONSTANTS Accounts, Ips,      \* Ips: the egress addresses, in their order
          Settings,           \* what an operator may save (without `paused`)
          Funds,              \* USDT of each futures wallet at the start
          Headrooms, Quotas,  \* margin headroom and quota the exchange answers
          Weights,            \* weights its headers report; 0: none
          Pause, MaxClock, MaxRounds, MaxResumes, MaxRestarts

VARIABLES now,
          disk,      \* bfusd-auto.json, by account
          memory,    \* what the process holds of it
          due,       \* when the next round is due
          round,     \* the round that runs
          wallet,    \* where the money of each account is
          budget,    \* request budgets, by egress and origin
          turn,      \* the next egress, by account
          resumes,   \* how often an operator resumed each account
          rounds,    \* rounds started; bounded by MaxRounds
          restarts   \* bounded by MaxRestarts

earnVars == <<now, disk, memory, due, round, wallet, budget, turn, resumes, rounds, restarts>>

Idle == [account |-> "none"]
Default == [enabled |-> FALSE, interval |-> 1, cap |-> 1, trigger |-> 0, reserve |-> 0]
Stored(s, paused) == [enabled |-> s.enabled, interval |-> s.interval, cap |-> s.cap,
                      trigger |-> s.trigger, reserve |-> s.reserve, paused |-> paused]

EarnTypeOK ==
    /\ now \in 1..MaxClock
    /\ disk \in [Accounts -> {Stored(s, p) : s \in Settings \cup {Default}, p \in BOOLEAN}]
    /\ memory \in [Accounts -> {Stored(s, p) : s \in Settings \cup {Default}, p \in BOOLEAN}]
    /\ \/ round = Idle
       \/ /\ round.account \in Accounts /\ round.ip \in 1..Len(Ips)
          /\ round.stage \in {"account", "spot", "sweep", "quota", "out", "buy", "in"}
          /\ {round.usdt, round.amount, round.bfusd} \subseteq Nat
    /\ \A a \in Accounts : \A place \in DOMAIN wallet[a] : wallet[a][place] \in Nat
    /\ \A a \in Accounts : turn[a] \in 1..Len(Ips)

EarnInit ==
    /\ now = 1
    /\ disk = [a \in Accounts |-> Stored(Default, FALSE)]
    /\ memory = disk
    /\ due = [a \in Accounts |-> 0]
    /\ round = Idle
    /\ wallet = [a \in Accounts |-> [futures |-> Funds, out |-> 0, bought |-> 0,
                                   futures_bfusd |-> 0]]
    /\ budget = [k \in (1..Len(Ips)) \X {"fapi", "sapi"} |-> Unused]
    /\ turn = [a \in Accounts |-> 1]
    /\ resumes = [a \in Accounts |-> 0]
    /\ rounds = 0 /\ restarts = 0

----------------------------------------------------------------------------
(* Settings.  A file that cannot be written leaves memory as it was; when it *)
(* is the directory that cannot be synced the new file is there all the      *)
(* same.                                                                     *)

Outcomes == {"written", "refused", "unsynced"}

Persist(new, outcome) ==
    /\ disk' = IF outcome = "refused" THEN disk ELSE new
    /\ memory' = IF outcome = "written" THEN new ELSE memory

\* Fault: an operator's settings replace the pause too.
SavedAnew(a, s) == Stored(s, FALSE)
\* What an operator saves keeps the pause.
Saved(a, s) == Stored(s, memory[a].paused)

Save(a, s, outcome) ==
    /\ round = Idle
    /\ Persist([memory EXCEPT ![a] = Saved(a, s)], outcome)
    /\ due' = IF outcome = "written" THEN [due EXCEPT ![a] = now] ELSE due
    /\ UNCHANGED <<now, round, wallet, budget, turn, resumes, rounds, restarts>>

Resume(a, outcome) ==
    /\ round = Idle
    /\ memory[a].paused /\ resumes[a] < MaxResumes
    /\ Persist([memory EXCEPT ![a].paused = FALSE], outcome)
    /\ due' = IF outcome = "written" THEN [due EXCEPT ![a] = now] ELSE due
    /\ resumes' = [resumes EXCEPT ![a] = @ + 1]
    /\ UNCHANGED <<now, round, wallet, budget, turn, rounds, restarts>>

----------------------------------------------------------------------------
(* Egress. *)

Least(x, y) == IF x < y THEN x ELSE y
Capacity(i) ==
    Least(Score(budget[<<i, "fapi">>], "account", now),
          Least(Score(budget[<<i, "sapi">>], "spot", now),
                Score(budget[<<i, "sapi">>], "position", now)))
\* The address with most capacity; of equals, the first from the account's turn.
InTurn(a, k) == ((turn[a] - 1 + k) % Len(Ips)) + 1
Selected(a) ==
    {InTurn(a, k) : k \in {k \in 0..Len(Ips) - 1 :
        /\ Capacity(InTurn(a, k)) > 0
        /\ \A j \in 0..Len(Ips) - 1 :
            \/ Capacity(InTurn(a, j)) < Capacity(InTurn(a, k))
            \/ Capacity(InTurn(a, j)) = Capacity(InTurn(a, k)) /\ j >= k}}

----------------------------------------------------------------------------
(* Requests of the running round. *)

Key(request) == <<round.ip, Origin(request)>>
\* A GET is charged when it is sent, a POST when its permit was taken.
CanSend(request, charged) ==
    IF charged THEN Ready(budget[Key(request)], now)
    ELSE Reservable(budget[Key(request)], request, now)
Charged(b, request, charged) == IF charged THEN b ELSE Reserved(b, request, now)
\* The budgets after a request was sent and its answer seen.
Seen(request, charged, weight, pause) ==
    [budget EXCEPT ![Key(request)] =
        Observed(Charged(@, request, charged), request, weight, pause, now)]

\* The permits of a funds transaction are taken together, before it starts;
\* those taken before one was refused stay charged.
Permits(budgets, requests) ==
    FoldLeft(LAMBDA taken, r :
                 IF taken.all /\ Reservable(taken.budgets[Key(r)], r, now)
                 THEN [taken EXCEPT !.budgets[Key(r)] = Reserved(@, r, now)]
                 ELSE [taken EXCEPT !.all = FALSE],
             [budgets |-> budgets, all |-> TRUE], requests)

Paused(p) == [memory EXCEPT ![round.account].paused = p]
Settled == UNCHANGED <<now, due, turn, resumes, rounds, restarts>>
Moved(from, to, n) ==
    [wallet EXCEPT ![round.account] =
        [wallet[round.account] EXCEPT ![from] = @ - n, ![to] = @ + n]]

\* The round ends without the answer it needs: not sent, or refused, limited or
\* unreadable, and then without effect.
Fails(request, charged) ==
    /\ budget' \in IF ~CanSend(request, charged) THEN {budget}
                   ELSE {Seen(request, charged, weight, pause) :
                            weight \in Weights, pause \in {0, Pause}}
    /\ round' = Idle
    /\ UNCHANGED <<disk, memory, wallet>> /\ Settled

Ends(budgets) ==
    /\ budget' = budgets /\ round' = Idle
    /\ UNCHANGED <<disk, memory, wallet>> /\ Settled
Asks(budgets, next) ==
    /\ budget' = budgets /\ round' = next
    /\ UNCHANGED <<disk, memory, wallet>> /\ Settled

\* Takes the permits and pauses the account on disk; the round goes on to
\* `next` only when both were possible.
Begins(budgets, requests, next) ==
    \E taken \in {Permits(budgets, requests)} :
        IF ~taken.all THEN Ends(taken.budgets)
        ELSE /\ budget' = taken.budgets
             /\ \E outcome \in Outcomes :
                  /\ Persist(Paused(TRUE), outcome)
                  /\ round' = IF outcome = "written" THEN next ELSE Idle
             /\ UNCHANGED wallet /\ Settled

----------------------------------------------------------------------------
(* A round. *)

\* By the poll, when it is due, or by hand.  It is due again before anything
\* else can fail: a configuration that does not allow it, or no egress with room.
Start(a, manual) ==
    /\ round = Idle
    /\ memory[a].enabled /\ ~memory[a].paused
    /\ manual \/ due[a] <= now
    /\ rounds < MaxRounds /\ rounds' = rounds + 1
    /\ due' = [due EXCEPT ![a] = now + memory[a].interval]
    /\ \/ \E i \in Selected(a) :
            /\ turn' = [turn EXCEPT ![a] = (i % Len(Ips)) + 1]
            /\ round' = [account |-> a, stage |-> "account", ip |-> i,
                         usdt |-> 0, headroom |-> 0, amount |-> 0, bfusd |-> 0]
       \/ UNCHANGED <<turn, round>>
    /\ UNCHANGED <<now, disk, memory, wallet, budget, resumes, restarts>>

\* The futures account; without Multi-Assets Mode the round ends here.
ReadAccount ==
    /\ round # Idle /\ round.stage = "account"
    /\ \/ Fails("account", FALSE)
       \/ /\ CanSend("account", FALSE)
          /\ \E weight \in Weights, headroom \in Headrooms :
                Asks(Seen("account", FALSE, weight, 0),
                     [round EXCEPT !.stage = "spot", !.headroom = headroom,
                                   !.usdt = wallet[round.account].futures])

Excess(reserve) == IF round.usdt > reserve THEN round.usdt - reserve ELSE 0

\* Is there enough USDT, and enough margin, to ask for the quota.
Worth == LET s == memory[round.account]
         IN Excess(s.reserve) > s.trigger /\ round.headroom > s.trigger

\* BFUSD in the spot wallet is moved first.
ReadSpot ==
    /\ round # Idle /\ round.stage = "spot"
    /\ \/ Fails("spot", FALSE)
       \/ /\ CanSend("spot", FALSE)
          /\ \E weight \in Weights, swept \in {wallet[round.account].bought} :
                IF swept > 0
                THEN Begins(Seen("spot", FALSE, weight, 0), <<"transfer">>,
                            [round EXCEPT !.stage = "sweep", !.bfusd = swept])
                ELSE IF Worth THEN Asks(Seen("spot", FALSE, weight, 0),
                                        [round EXCEPT !.stage = "quota"])
                ELSE Ends(Seen("spot", FALSE, weight, 0))

\* A transfer of BFUSD to the futures wallet, answered or not.  `next` is what
\* the round does once the pause is lifted, or stays.
BringsBack(lifts, next) ==
    \/ Fails("transfer", TRUE)
    \/ /\ CanSend("transfer", TRUE)
       /\ wallet' = Moved("bought", "futures_bfusd", round.bfusd)
       /\ \/ UNCHANGED <<disk, memory, budget>> /\ round' = Idle
          \/ /\ \E weight \in Weights : budget' = Seen("transfer", TRUE, weight, 0)
             /\ IF ~lifts THEN UNCHANGED <<disk, memory>> /\ round' = Idle
                ELSE \E outcome \in Outcomes :
                        /\ Persist(Paused(FALSE), outcome)
                        /\ round' = IF outcome = "written" THEN next ELSE Idle
       /\ Settled

Sweep ==
    /\ round # Idle /\ round.stage = "sweep"
    /\ BringsBack(TRUE, IF Worth THEN [round EXCEPT !.stage = "quota"] ELSE Idle)

\* The amount of the round: the least of what is there and what is allowed.
Amount(quota) ==
    LET s == memory[round.account]
    IN CHOOSE n \in {Excess(s.reserve), round.usdt, round.headroom, quota, s.cap} :
        \A m \in {Excess(s.reserve), round.usdt, round.headroom, quota, s.cap} : n <= m

ReadQuota ==
    /\ round # Idle /\ round.stage = "quota"
    /\ \/ Fails("quota", FALSE)
       \/ /\ CanSend("quota", FALSE)
          /\ \E weight \in Weights, quota \in Quotas :
                IF Amount(quota) < 1 \/ Amount(quota) <= memory[round.account].trigger
                THEN Ends(Seen("quota", FALSE, weight, 0))
                ELSE Begins(Seen("quota", FALSE, weight, 0),
                            <<"transfer", "subscribe", "transfer">>,
                            [round EXCEPT !.stage = "out", !.amount = Amount(quota)])

MoveOut ==
    /\ round # Idle /\ round.stage = "out"
    /\ \/ Fails("transfer", TRUE)
       \/ /\ CanSend("transfer", TRUE)
          /\ wallet' = Moved("futures", "out", round.amount)
          /\ \/ UNCHANGED budget /\ round' = Idle
             \/ /\ \E weight \in Weights : budget' = Seen("transfer", TRUE, weight, 0)
                /\ round' = [round EXCEPT !.stage = "buy"]
          /\ UNCHANGED <<disk, memory>> /\ Settled

\* The exchange gives BFUSD one for one, or keeps a fee.
Subscribe ==
    /\ round # Idle /\ round.stage = "buy"
    /\ \/ Fails("subscribe", TRUE)
       \/ /\ CanSend("subscribe", TRUE)
          /\ \E got \in {round.amount, round.amount - 1} :
                /\ wallet' = [wallet EXCEPT ![round.account] =
                      [wallet[round.account] EXCEPT !.out = @ - round.amount,
                                                    !.bought = @ + got]]
                /\ \/ UNCHANGED budget /\ round' = Idle
                   \/ /\ got > 0
                      /\ \E weight \in Weights :
                            budget' = Seen("subscribe", TRUE, weight, 0)
                      /\ round' = [round EXCEPT !.stage = "in", !.bfusd = got]
          /\ UNCHANGED <<disk, memory>> /\ Settled

\* A fee leaves the account paused although the money is back.
MoveIn ==
    /\ round # Idle /\ round.stage = "in"
    /\ BringsBack(round.bfusd = round.amount, Idle)

----------------------------------------------------------------------------

\* What the process held is gone: the file, the wallets and the exchange's own
\* counters are not.
Restart ==
    /\ restarts < MaxRestarts
    /\ restarts' = restarts + 1
    /\ memory' = disk
    /\ due' = [a \in Accounts |-> 0]
    /\ round' = Idle
    /\ budget' = [k \in DOMAIN budget |-> Unused]
    /\ turn' = [a \in Accounts |-> 1]
    /\ UNCHANGED <<now, disk, wallet, resumes, rounds>>

Tick ==
    /\ now < MaxClock
    /\ now' = now + 1
    /\ UNCHANGED <<disk, memory, due, round, wallet, budget, turn, resumes, rounds, restarts>>

EarnNext ==
    \/ \E a \in Accounts, s \in Settings, outcome \in Outcomes : Save(a, s, outcome)
    \/ \E a \in Accounts, outcome \in Outcomes : Resume(a, outcome)
    \/ \E a \in Accounts, manual \in BOOLEAN : Start(a, manual)
    \/ ReadAccount \/ ReadSpot \/ Sweep \/ ReadQuota
    \/ MoveOut \/ Subscribe \/ MoveIn
    \/ Restart \/ Tick

----------------------------------------------------------------------------
(* What left a futures wallet for a subscription and has not come back is at  *)
(* most one round of the account, and one more for every time an operator     *)
(* resumed it: whatever request failed, answer was lost, file could not be    *)
(* written or crash came between (bfusd_auto.rs subscribe_futures_usdt,       *)
(* set_paused, save, resume).                                                 *)
OneRoundOut ==
    \A a \in Accounts :
        wallet[a].out + wallet[a].bought
            <= (1 + resumes[a]) * (CHOOSE c \in {s.cap : s \in Settings} :
                                        \A s \in Settings : s.cap <= c)
=============================================================================
