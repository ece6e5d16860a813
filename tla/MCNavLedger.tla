----------------------------- MODULE MCNavLedger -----------------------------
(***************************************************************************)
(* One source, two strategies: a legacy buy, a close that belongs to no    *)
(* strategy and a fill that has no price until its execution is read.  The *)
(* role of the first arrives later, with an update.                        *)
(* An account snapshot precedes the fills, a strategies' snapshot lies     *)
(* between them, and a correction moves a share of one strategy to the     *)
(* residual.                                                               *)
(***************************************************************************)
EXTENDS NavLedger, TLC

CONSTANTS s1, s2, o1, o3, o4

MCStrategies == {s1, s2}

Buy(key, ts, price, quantity, order, strategy, role) ==
    [key |-> key, ts |-> ts, side |-> "buy", price |-> price, role |-> role,
     quantity |-> quantity, order |-> order, strategy |-> strategy]
Sell(key, ts, price, quantity, order, strategy, role) ==
    [Buy(key, ts, price, quantity, order, strategy, role) EXCEPT !.side = "sell"]

MCRecords ==
    {Buy(10, 10, 2, 2, o1, s1, "none"), Sell(50, 50, 5, 2, o3, SystemClose, "none"),
     Buy(55, 90, 0, 1, o4, s2, "none")}
MCUpdates == {[key |-> 40, order |-> o1, role |-> "maker"]}
MCExecutions ==
    {[order |-> o4, id |-> 1, ts |-> 85, price |-> 4, quantity |-> 1,
      role |-> "taker"]}

MCFees == [maker |-> 0, taker |-> 1]
MCAccount == [ts |-> 5, quantity |-> 1, price |-> 0]
MCOwned == [ts |-> 15, price |-> 3, residual |-> 1,
            owned |-> [s \in MCStrategies |-> IF s = s1 THEN 2 ELSE 0]]
MCInputs ==
    {[fees |-> MCFees, account |-> Nothing, strategy |-> Nothing],
     [fees |-> MCFees, account |-> MCAccount, strategy |-> Nothing],
     [fees |-> MCFees, account |-> MCAccount, strategy |-> MCOwned]}

Move(before, after) == [before |-> before, after |-> after]
MCCorrections ==
    {<<>>,
     <<[ts |-> 45, price |-> 3,
        moves |-> [o \in MCStrategies \union {Unallocated} |->
           IF o = s1 THEN Move(2, 1) ELSE IF o = s2 THEN Move(0, 0)
                                     ELSE Move(1, 2)]]>>}

\* The whole history, the window from the first checkpoint on, and the same at
\* minute prices.
MCQueries ==
    {[start |-> 0, end |-> 100, tick |-> 45, prices |-> LatestFill],
     [start |-> 42, end |-> 90, tick |-> 25, prices |-> LatestFill],
     [start |-> 40, end |-> 90, tick |-> 50,
      prices |-> [m \in {30, 40, 80} |-> 1 + m \div 20]]}
=============================================================================
