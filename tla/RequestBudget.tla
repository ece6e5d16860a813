---------------------------- MODULE RequestBudget ----------------------------
(***************************************************************************)
(* The request budget of one egress address towards one exchange origin    *)
(* (treasury_rate_limit.rs): a rolling minute of weights per pool, the use *)
(* other clients were seen to make of it, and the pause a 429 or a 418     *)
(* asks for.  A request the budget cannot carry is not sent at all.        *)
(* Times are in ticks, a rolling minute is Minute of them.                 *)
(***************************************************************************)
EXTENDS Integers, Sequences, SequencesExt

CONSTANT Minute

Pools == {"futures", "spot", "ip", "uid"}
Limit == [futures |-> 1800, spot |-> 4500, ip |-> 4500, uid |-> 6000]

\* What a request costs, and of which pool.
Cost == [account |-> <<"futures", 5>>,   burn |-> <<"futures", 1>>,
         pairs |-> <<"futures", 20>>,    quote |-> <<"futures", 50>>,
         order |-> <<"futures", 50>>,    accept |-> <<"futures", 200>>,
         spot |-> <<"spot", 20>>,        price |-> <<"spot", 2>>,
         spot_quote |-> <<"uid", 200>>,  spot_accept |-> <<"uid", 500>>,
         transfer |-> <<"uid", 900>>,    transfers |-> <<"ip", 1>>,
         quota |-> <<"ip", 150>>,        subscribe |-> <<"ip", 150>>,
         position |-> <<"ip", 150>>,     earn_subscribe |-> <<"ip", 1>>,
         redeem |-> <<"ip", 1>>]
Origin(request) == IF Cost[request][1] = "futures" THEN "fapi" ELSE "sapi"
Writes == {"earn_subscribe", "redeem"}

\* A budget nothing was ever charged to.  0 is the time before the first.
Unused == [reserved |-> [p \in Pools |-> <<>>], observed |-> [p \in Pools |-> <<>>],
           cooldown |-> 0, write |-> 0, quotes |-> <<>>]

Within(entries, now, span) == SelectSeq(entries, LAMBDA e : now - e[1] < span)
Weight(entries) == FoldLeft(LAMBDA sum, e : sum + e[2], 0, entries)

\* What the last minute used: the own reservations, or, if it is more, what a
\* response reported together with what was reserved since.
Used(b, pool, now) ==
    LET own == Within(b.reserved[pool], now, Minute)
        After(o) == o[2] + Weight(SelectSeq(own, LAMBDA e : e[1] > o[1]))
        seen == Within(b.observed[pool], now, Minute)
    IN FoldLeft(LAMBDA m, o : IF After(o) > m THEN After(o) ELSE m, Weight(own), seen)

Ready(b, now) == b.cooldown <= now

\* Room kept so that a quote can be accepted before it expires.
Headroom(request) == CASE request = "quote" -> 200
                       [] request = "spot_quote" -> 500
                       [] OTHER -> 0

Fits(b, request, now) ==
    Used(b, Cost[request][1], now) + Cost[request][2] + Headroom(request)
        <= Limit[Cost[request][1]]

Reservable(b, request, now) ==
    /\ Ready(b, now)
    /\ request = "quote" =>
        /\ Len(Within(b.quotes, now, 1440 * Minute)) < 500
        /\ Len(Within(b.quotes, now, 60 * Minute)) < 360
    /\ request \in Writes /\ b.write # 0 => 20 * (now - b.write) >= Minute
    /\ Fits(b, request, now)

Reserved(b, request, now) ==
    LET pool == Cost[request][1]
    IN [b EXCEPT !.reserved[pool] = Append(Within(@, now, Minute),
                                           <<now, Cost[request][2]>>),
                 !.observed[pool] = Within(@, now, Minute),
                 !.quotes = IF request = "quote" THEN Append(@, <<now, 1>>) ELSE @,
                 !.write = IF request \in Writes THEN now ELSE @]

\* A response: the weight it reports (0: no header), and the pause it asks for.
Observed(b, request, weight, pause, now) ==
    [b EXCEPT !.observed[Cost[request][1]] =
                  IF weight = 0 THEN @ ELSE Append(Within(@, now, Minute), <<now, weight>>),
              !.cooldown = IF pause > 0 /\ now + pause > @ THEN now + pause ELSE @]

\* How much of the pool is left, on a scale of 10000; 0 when the request does
\* not even fit, or the egress is cooling down.
Score(b, request, now) ==
    LET limit == Limit[Cost[request][1]]
        used == Used(b, Cost[request][1], now)
    IN IF ~Ready(b, now) \/ used + Cost[request][2] > limit
       THEN 0 ELSE ((limit - used) * 10000) \div limit
=============================================================================
