------------------------- MODULE HostServicesProofs -------------------------
(***************************************************************************)
(* Five of the host's services, for every value of their constants: a      *)
(* query that is told its candles are ready finds them, the funding        *)
(* ledger's cursors and the cached funding rates leave nothing out, of a   *)
(* wallet at most one BFUSD round is away for each resume, and the monitor *)
(* believes what it was acknowledged.                                      *)
(* A service has an inductive invariant of its own.  The host runs one in  *)
(* a behaviour, so that together they are inductive for the host.          *)
(***************************************************************************)
EXTENDS HostServices, FiniteSetTheorems, WellFoundedInduction, TLAPS

-----------------------------------------------------------------------------
(***************************************************************************)
(* Least and greatest numbers                                               *)
(***************************************************************************)
\* A set of naturals that is not empty has a least element, however large it is.
LEMMA LeastNatural ==
  ASSUME NEW S \in SUBSET Nat, S # {}
  PROVE  \E m \in S : \A n \in S : m <= n
<1>1. PICK m \in S : \A n \in S : <<n, m>> \notin OpToRel(<, Nat)
  BY WFMin, NatLessThanWellFounded, Zenon
<1>2. \A n \in S : ~(n < m)
  BY <1>1 DEF OpToRel
<1> QED BY <1>2

\* A finite one has a greatest: a smallest set without one would leave a smaller.
LEMMA GreatestNatural ==
  ASSUME NEW S \in SUBSET Nat, IsFiniteSet(S), S # {}
  PROVE  \E m \in S : \A n \in S : n <= m
<1> DEFINE Greatest(T, m) == m \in T /\ \A n \in T : n <= m
           Without == {T \in SUBSET S : T # {} /\ ~\E m \in S : Greatest(T, m)}
<1>1. SUFFICES ASSUME Without # {} PROVE FALSE
  OBVIOUS
<1>2. IsWellFoundedOn(StrictSubsetOrdering(S), SUBSET S)
  BY FS_StrictSubsetOrderingWellFounded, FS_FiniteSubsetsOfFinite
<1>3. PICK T \in Without : \A U \in Without : <<U, T>> \notin StrictSubsetOrdering(S)
  BY <1>1, <1>2, WFMin
<1>4. PICK x \in T : TRUE
  BY <1>3
<1> DEFINE U == T \ {x}
<1>5. U \in SUBSET S /\ <<U, T>> \in StrictSubsetOrdering(S)
  BY <1>3, <1>4 DEF StrictSubsetOrdering
<1>6. CASE U = {}
  <2>1. Greatest(T, x) /\ x \in S
    BY <1>3, <1>4, <1>6
  <2> QED BY <1>3, <2>1
<1>7. CASE U # {}
  <2>1. PICK m \in S : Greatest(U, m)
    BY <1>3, <1>5, <1>7
  <2>2. Greatest(T, m) \/ Greatest(T, x)
    BY <1>3, <1>4, <2>1
  <2> QED BY <1>3, <1>4, <2>1, <2>2
<1> QED BY <1>6, <1>7

-----------------------------------------------------------------------------
(***************************************************************************)
(* Minute candles                                                           *)
(***************************************************************************)
Fetching == {"client", "queued", "sent"}
Passes == [at : {"idle", "start", "pass", "market", "block", "ended"} \union Fetching,
           range : Nat \X Nat, end : Nat, block : Nat, existing : SUBSET Nat,
           page : Nat \X Nat, upTo : Nat, ok : BOOLEAN]
Jobs == [range : Nat \X Nat, changed : BOOLEAN]
Places == [task : Kline!Tasks, end : Nat]
Queried == [at : {"idle", "joining", "waiting", "ready", "failed"},
            symbol : KlineSymbols \union {"none"}, range : Nat \X Nat]

KlineTyped ==
  /\ clock \in Nat /\ clock >= StartClock
  /\ cached \in [KlineSymbols -> SUBSET Nat]
  /\ job \in [KlineSymbols -> Jobs]
  /\ task \in [Kline!Tasks -> Passes]
  /\ queue \in Seq(Places)
  /\ waiter \in [Waiters -> Queried]

\* In the queue a pass that waits for a slot has one place, and no other has any.
QueueHolds ==
  /\ \A i \in DOMAIN queue : task[queue[i].task].at = "queued"
  /\ \A i, j \in DOMAIN queue : queue[i].task = queue[j].task => i = j

\* Of these minutes no candle is missing that the cache keeps and the exchange has.
Filled(s, first, end) ==
  \A m \in Nat : /\ first <= m /\ m < end /\ m < Kline!ClosedMinutes
                 /\ m >= Kline!Cutoff /\ m \notin Holes
                 => m \in cached[s]

\* A pass works backwards: what is behind it is filled, and so are the minutes of its
\* block it takes for fetched.  One that succeeded filled its range.
PassHolds(s, p) ==
  /\ p.range[2] <= Kline!ClosedMinutes
  /\ p.at = "market" => p.end = p.range[2]
  /\ p.at \in {"block"} \union Fetching => Filled(s, p.end, p.range[2])
  /\ p.at \in Fetching => \A m \in p.existing : m >= Kline!Cutoff /\ m \notin Holes
                                                => m \in cached[s]
  /\ p.at = "ended" /\ p.ok => Filled(s, p.range[1], p.range[2])

\* While its worker runs the job of a symbol asks for some minutes.
JobHolds(s) ==
  /\ job[s].range[2] <= Kline!ClosedMinutes
  /\ task[<<s, "warm">>].at # "idle" => job[s].range[1] < job[s].range[2]

\* A query that waits is within what its job was asked for; one that is ready is filled.
QueryHolds(q) ==
  /\ q.at \in {"joining", "waiting"} => q.range[1] < q.range[2]
  /\ q.at \in {"joining", "waiting", "ready"} =>
       q.symbol \in KlineSymbols /\ q.range[2] <= Kline!ClosedMinutes
  /\ q.at = "waiting" => /\ job[q.symbol].range[1] <= q.range[1]
                         /\ q.range[2] <= job[q.symbol].range[2]
  /\ q.at = "ready" => Filled(q.symbol, q.range[1], q.range[2])

KlineInv ==
  /\ KlineTyped
  /\ QueueHolds
  /\ \A s \in KlineSymbols : JobHolds(s)
  /\ \A t \in Kline!Tasks : PassHolds(t[1], task[t])
  /\ \A w \in Waiters : QueryHolds(waiter[w])

\* As time passes minutes are closed and fall behind the cutoff, and none comes back.
LEMMA TimeFacts ==
  ASSUME NEW c \in Nat, c >= StartClock
  PROVE  /\ c \div Minute \in Nat
         /\ Kline!FirstComplete(c - Retain * Minute) \in Nat
         /\ \A d : d = c + 1 =>
              /\ c \div Minute <= d \div Minute
              /\ Kline!FirstComplete(c - Retain * Minute)
                   <= Kline!FirstComplete(d - Retain * Minute)
<1>1. Minute \in Nat \ {0} /\ Retain \in Nat \ {0} /\ Minute * Retain = Retain * Minute
  BY KlineAssumption
<1>2. Retain * Minute \in Nat /\ c - Retain * Minute \in Nat
  <2>1. Retain * Minute \in Nat
    BY <1>1
  <2>2. c >= Retain * Minute
    BY <1>1, <2>1, KlineAssumption
  <2> QED BY <2>1, <2>2
<1> DEFINE k == Retain * Minute
<1> HIDE DEF k
<1>3. k \in Nat /\ c - k \in Nat
  BY <1>2 DEF k
<1>4. c \div Minute \in Nat /\ c \div Minute <= (c + 1) \div Minute
  BY <1>1
<1>5. ASSUME NEW a \in Nat
      PROVE  /\ Kline!FirstComplete(a) \in Nat
             /\ Kline!FirstComplete(a) <= Kline!FirstComplete(a + 1)
  <2> DEFINE b == a + Minute - 1
  <2>1. b \in Nat /\ a + 1 + Minute - 1 = b + 1
    BY <1>1
  <2>2. Kline!FirstComplete(a) = b \div Minute /\ Kline!FirstComplete(a + 1) = (b + 1) \div Minute
    BY <2>1 DEF Kline!FirstComplete
  <2> HIDE DEF b
  <2>3. b \div Minute \in Nat /\ b \div Minute <= (b + 1) \div Minute
    BY <1>1, <2>1
  <2> QED BY <2>2, <2>3
<1>6. c + 1 - k = (c - k) + 1
  BY <1>3
<1>7. /\ Kline!FirstComplete(c - k) \in Nat
      /\ Kline!FirstComplete(c - k) <= Kline!FirstComplete(c + 1 - k)
  BY <1>3, <1>5, <1>6
<1>8. ASSUME NEW d, d = c + 1
      PROVE  /\ c \div Minute <= d \div Minute
             /\ Kline!FirstComplete(c - k) <= Kline!FirstComplete(d - k)
  <2>1. d \in Nat /\ d - k = c + 1 - k
    BY <1>3, <1>8
  <2> QED BY <1>4, <1>7, <1>8, <2>1
<1> QED BY <1>4, <1>7, <1>8 DEF k

LEMMA KlineTimes ==
  ASSUME KlineTyped
  PROVE  Kline!ClosedMinutes \in Nat /\ Kline!Cutoff \in Nat
BY TimeFacts DEF KlineTyped, Kline!ClosedMinutes, Kline!Cutoff

\* A range of which every minute is present lacks none.
LEMMA CompleteIsFilled ==
  ASSUME KlineTyped, NEW s \in KlineSymbols, NEW r \in Nat \X Nat, Kline!Complete(s, r)
  PROVE  Filled(s, r[1], r[2])
<1>1. Kline!ClosedMinutes \in Nat /\ Kline!Cutoff \in Nat
  BY KlineTimes
<1>2. CASE r[1] >= r[2]
  BY <1>2 DEF Filled
<1>3. CASE r[1] < r[2] /\ Cardinality(Kline!Present(s, r)) = r[2] - r[1]
  <2> DEFINE all == r[1]..(r[2] - 1)
  <2>1. IsFiniteSet(all) /\ Cardinality(all) = r[2] - r[1]
    <3>1. r[1] \in Int /\ r[2] - 1 \in Int /\ ~(r[1] > r[2] - 1)
      BY <1>3
    <3>2. (r[2] - 1) - r[1] + 1 = r[2] - r[1]
      BY <3>1
    <3> QED BY <3>1, <3>2, FS_Interval
  <2>2. Kline!Present(s, r) \subseteq all
    BY <1>1 DEF Kline!Present, Kline!Readable, Kline!Larger, Kline!Smaller
  <2>3. Kline!Present(s, r) = all
    BY <1>3, <2>1, <2>2, FS_Subset
  <2>4. all \subseteq cached[s]
    BY <2>3 DEF Kline!Present
  <2> QED BY <2>4 DEF Filled
<1>4. Kline!Cardinality(Kline!Present(s, r)) = Cardinality(Kline!Present(s, r))
  BY DEF Kline!Cardinality, Cardinality
<1> QED BY <1>2, <1>3, <1>4 DEF Kline!Complete

\* Candles are dropped only behind the cutoff, which never moves back.
KeepsCandles ==
  /\ Kline!ClosedMinutes' >= Kline!ClosedMinutes
  /\ Kline!Cutoff' >= Kline!Cutoff
  /\ \A s \in KlineSymbols : \A m \in cached[s] : m >= Kline!Cutoff' => m \in cached'[s]

LEMMA FilledStays ==
  ASSUME KlineTyped, KlineTyped', KeepsCandles, NEW s \in KlineSymbols,
         NEW a \in Nat, NEW b \in Nat, Filled(s, a, b), b <= Kline!ClosedMinutes
  PROVE  Filled(s, a, b)'
<1>1. /\ {Kline!ClosedMinutes, Kline!Cutoff, Kline!ClosedMinutes', Kline!Cutoff'} \subseteq Nat
      /\ cached[s] \subseteq Nat
  <2>1. Kline!ClosedMinutes \in Nat /\ Kline!Cutoff \in Nat
    BY KlineTimes
  <2>2. Kline!ClosedMinutes' \in Nat /\ Kline!Cutoff' \in Nat
    BY TimeFacts DEF KlineTyped, Kline!ClosedMinutes, Kline!Cutoff
  <2> QED BY <2>1, <2>2 DEF KlineTyped
<1> SUFFICES ASSUME NEW m \in Nat, a <= m, m < b, m < Kline!ClosedMinutes',
                    m >= Kline!Cutoff', m \notin Holes
             PROVE  m \in cached'[s]
  BY DEF Filled
<1>2. m < Kline!ClosedMinutes /\ m >= Kline!Cutoff
  BY <1>1 DEF KeepsCandles
<1>3. m \in cached[s]
  BY <1>2 DEF Filled
<1> QED BY <1>3 DEF KeepsCandles

LEMMA PassStays ==
  ASSUME KlineTyped, KlineTyped', KeepsCandles, NEW s \in KlineSymbols,
         NEW p \in Passes, PassHolds(s, p)
  PROVE  PassHolds(s, p)'
<1>1. /\ {Kline!ClosedMinutes, Kline!Cutoff, Kline!ClosedMinutes', Kline!Cutoff'} \subseteq Nat
      /\ cached[s] \subseteq Nat
  <2>1. Kline!ClosedMinutes \in Nat /\ Kline!Cutoff \in Nat
    BY KlineTimes
  <2>2. Kline!ClosedMinutes' \in Nat /\ Kline!Cutoff' \in Nat
    BY TimeFacts DEF KlineTyped, Kline!ClosedMinutes, Kline!Cutoff
  <2> QED BY <2>1, <2>2 DEF KlineTyped
<1>2. /\ p.range[1] \in Nat /\ p.range[2] \in Nat /\ p.end \in Nat /\ p.existing \subseteq Nat
      /\ p.range[2] <= Kline!ClosedMinutes /\ p.range[2] <= Kline!ClosedMinutes'
  BY <1>1 DEF Passes, PassHolds, KeepsCandles
<1>3. p.at \in {"block"} \union Fetching => Filled(s, p.end, p.range[2])'
  BY <1>2, FilledStays DEF PassHolds
<1>4. p.at \in Fetching => \A m \in p.existing : m >= Kline!Cutoff' /\ m \notin Holes
                                                 => m \in cached'[s]
  BY <1>1, <1>2 DEF PassHolds, KeepsCandles
<1>5. p.at = "ended" /\ p.ok => Filled(s, p.range[1], p.range[2])'
  BY <1>2, FilledStays DEF PassHolds
<1> QED BY <1>2, <1>3, <1>4, <1>5 DEF PassHolds

LEMMA QueryStays ==
  ASSUME KlineTyped, KlineTyped', KeepsCandles, NEW q \in Queried, QueryHolds(q),
         q.at = "waiting" => UNCHANGED job[q.symbol]
  PROVE  QueryHolds(q)'
<1>1. {Kline!ClosedMinutes, Kline!ClosedMinutes'} \subseteq Nat
  <2>1. Kline!ClosedMinutes \in Nat
    BY KlineTimes
  <2>2. Kline!ClosedMinutes' \in Nat
    BY TimeFacts DEF KlineTyped, Kline!ClosedMinutes
  <2> QED BY <2>1, <2>2
<1>2. q.range[1] \in Nat /\ q.range[2] \in Nat
  BY DEF Queried
<1>3. q.at = "ready" => Filled(q.symbol, q.range[1], q.range[2])'
  BY <1>2, FilledStays DEF QueryHolds
<1> QED BY <1>1, <1>2, <1>3 DEF QueryHolds, KeepsCandles

\* A step that moves one pass keeps the invariant if it does for that pass, the queue,
\* the job and the queries.
LEMMA PassMoves ==
  ASSUME KlineInv, NEW t \in Kline!Tasks, NEW p \in Passes, KlineTyped',
         task' = [task EXCEPT ![t] = p], QueueHolds', UNCHANGED clock,
         \A s \in KlineSymbols : cached[s] \subseteq cached'[s],
         PassHolds(t[1], p)',
         \A s \in KlineSymbols : JobHolds(s)', \A w \in Waiters : QueryHolds(waiter[w])'
  PROVE  KlineInv'
<1>1. KlineTyped
  BY DEF KlineInv
<1>2. UNCHANGED <<Kline!ClosedMinutes, Kline!Cutoff>>
  BY DEF Kline!ClosedMinutes, Kline!Cutoff
<1>3. KeepsCandles
  <2>1. Kline!ClosedMinutes \in Nat /\ Kline!Cutoff \in Nat
    BY <1>1, KlineTimes
  <2> QED BY <1>2, <2>1 DEF KeepsCandles
<1>4. ASSUME NEW u \in Kline!Tasks PROVE PassHolds(u[1], task[u])'
  <2>1. CASE u = t
    <3>1. task'[u] = p
      BY <1>1, <2>1 DEF KlineTyped
    <3> QED BY <2>1, <3>1 DEF PassHolds, Filled
  <2>2. CASE u # t
    <3>1. task'[u] = task[u] /\ task[u] \in Passes /\ PassHolds(u[1], task[u])
      BY <1>1, <2>2 DEF KlineTyped, KlineInv
    <3>2. u[1] \in KlineSymbols
      BY KlineAssumption DEF Kline!Tasks
    <3> DEFINE q == task[u]
    <3> HIDE DEF q
    <3>3. PassHolds(u[1], q)'
      BY <1>1, <1>3, <3>1, <3>2, PassStays DEF q
    <3> QED BY <3>1, <3>3 DEF PassHolds, Filled, q
  <2> QED BY <2>1, <2>2
<1> QED BY <1>4 DEF KlineInv

\* Where job and queries rest, theirs hold too, and a worker does not start.
LEMMA TaskMoves ==
  ASSUME KlineInv, NEW t \in Kline!Tasks, NEW p \in Passes,
         task' = [task EXCEPT ![t] = p], queue' \in Seq(Places), QueueHolds',
         cached' \in [KlineSymbols -> SUBSET Nat],
         \A s \in KlineSymbols : cached[s] \subseteq cached'[s],
         UNCHANGED <<clock, job, waiter>>, PassHolds(t[1], p)',
         t[2] = "refresh" \/ task[t].at # "idle"
  PROVE  KlineInv'
<1>1. KlineTyped /\ KlineTyped'
  BY DEF KlineInv, KlineTyped
<1>2. UNCHANGED <<Kline!ClosedMinutes, Kline!Cutoff>>
  BY DEF Kline!ClosedMinutes, Kline!Cutoff
<1>3. KeepsCandles
  <2>1. Kline!ClosedMinutes \in Nat /\ Kline!Cutoff \in Nat
    BY <1>1, KlineTimes
  <2> QED BY <1>2, <2>1 DEF KeepsCandles
<1>4. ASSUME NEW s \in KlineSymbols PROVE JobHolds(s)'
  <2>1. <<s, "warm">> \in Kline!Tasks /\ JobHolds(s)
    BY DEF KlineInv, Kline!Tasks
  <2>2. CASE t = <<s, "warm">>
    BY <1>1, <1>2, <2>1, <2>2 DEF JobHolds, KlineTyped
  <2>3. CASE t # <<s, "warm">>
    BY <1>1, <1>2, <2>1, <2>3 DEF JobHolds, KlineTyped
  <2> QED BY <2>2, <2>3
<1>5. ASSUME NEW w \in Waiters PROVE QueryHolds(waiter[w])'
  <2>1. waiter[w] \in Queried /\ QueryHolds(waiter[w])
    BY <1>1 DEF KlineTyped, KlineInv
  <2> QED BY <1>1, <1>3, <2>1, QueryStays DEF QueryHolds, Filled
<1> QED BY <1>1, <1>4, <1>5, PassMoves

-----------------------------------------------------------------------------
(* The queue *)

LEMMA PlaceRemoved ==
  ASSUME NEW q \in Seq(Places), NEW i \in DOMAIN q
  PROVE  /\ Kline!RemoveAt(q, i) \in Seq(Places)
         /\ \A j \in DOMAIN Kline!RemoveAt(q, i) :
              /\ (IF j < i THEN j ELSE j + 1) \in DOMAIN q
              /\ Kline!RemoveAt(q, i)[j] = q[IF j < i THEN j ELSE j + 1]
<1> DEFINE a == SubSeq(q, 1, i - 1)
           b == SubSeq(q, i + 1, Len(q))
<1>1. i \in 1..Len(q) /\ Len(q) \in Nat
  OBVIOUS
<1>2. /\ a \in Seq(Places) /\ Len(a) = i - 1
      /\ \A j \in 1..(i - 1) : a[j] = q[j]
  BY <1>1
<1>3. /\ b \in Seq(Places) /\ Len(b) = Len(q) - i
      /\ \A j \in 1..(Len(q) - i) : b[j] = q[i + j]
  BY <1>1
<1>4. Kline!RemoveAt(q, i) = a \o b
  BY DEF Kline!RemoveAt
<1> HIDE DEF a, b
<1>5. /\ a \o b \in Seq(Places) /\ Len(a \o b) = Len(q) - 1
      /\ \A j \in 1..(Len(q) - 1) : (a \o b)[j] = IF j <= i - 1 THEN a[j] ELSE b[j - (i - 1)]
  BY <1>1, <1>2, <1>3
<1>6. ASSUME NEW j \in 1..(Len(q) - 1)
      PROVE  /\ (IF j < i THEN j ELSE j + 1) \in DOMAIN q
             /\ (a \o b)[j] = q[IF j < i THEN j ELSE j + 1]
  <2>1. j \in Nat /\ j <= Len(q) - 1 /\ (j < i \/ j >= i)
    BY <1>1
  <2>2. CASE j < i
    BY <1>1, <1>2, <1>5, <2>1, <2>2
  <2>3. CASE j >= i
    <3>1. j - (i - 1) \in 1..(Len(q) - i) /\ i + (j - (i - 1)) = j + 1
      BY <1>1, <2>1, <2>3
    <3>2. b[j - (i - 1)] = q[j + 1]
      BY <1>3, <3>1
    <3>3. (a \o b)[j] = b[j - (i - 1)] /\ ~(j <= i - 1)
      BY <1>1, <1>5, <2>1, <2>3
    <3>4. j + 1 \in DOMAIN q
      BY <1>1, <2>1
    <3> QED BY <1>1, <2>1, <2>3, <3>2, <3>3, <3>4
  <2> QED BY <2>1, <2>2, <2>3
<1>7. DOMAIN (a \o b) = 1..(Len(q) - 1)
  BY <1>1, <1>5
<1> QED BY <1>4, <1>5, <1>6, <1>7

\* A task that is taken out of the queue leaves the others their places.
LEMMA QueueShrinks ==
  ASSUME KlineInv, NEW t \in Kline!Tasks, NEW p \in Passes, NEW i \in DOMAIN queue,
         task' = [task EXCEPT ![t] = p], queue[i].task = t,
         queue' = Kline!RemoveAt(queue, i)
  PROVE  queue' \in Seq(Places) /\ QueueHolds'
<1>1. queue \in Seq(Places) /\ QueueHolds /\ task \in [Kline!Tasks -> Passes]
  BY DEF KlineInv, KlineTyped
<1>2. /\ queue' \in Seq(Places)
      /\ \A j \in DOMAIN queue' : /\ (IF j < i THEN j ELSE j + 1) \in DOMAIN queue
                                  /\ queue'[j] = queue[IF j < i THEN j ELSE j + 1]
  BY <1>1, PlaceRemoved
<1>3. DOMAIN queue \subseteq Nat /\ DOMAIN queue' \subseteq Nat /\ i \in Nat
  BY <1>1, <1>2
<1>4. \A j \in DOMAIN queue' : (IF j < i THEN j ELSE j + 1) # i
  BY <1>3
<1>5. ASSUME NEW j \in DOMAIN queue' PROVE task'[queue'[j].task].at = "queued"
  <2> DEFINE k == IF j < i THEN j ELSE j + 1
  <2>1. k \in DOMAIN queue /\ queue'[j] = queue[k] /\ k # i
    BY <1>2, <1>4
  <2> HIDE DEF k
  <2>2. queue[k].task # t /\ task[queue[k].task].at = "queued"
    BY <1>1, <2>1 DEF QueueHolds
  <2> QED BY <1>1, <2>1, <2>2
<1>6. ASSUME NEW j \in DOMAIN queue', NEW k \in DOMAIN queue',
             queue'[j].task = queue'[k].task
      PROVE  j = k
  <2>1. (IF j < i THEN j ELSE j + 1) = (IF k < i THEN k ELSE k + 1)
    BY <1>1, <1>2, <1>6 DEF QueueHolds
  <2> QED BY <1>3, <2>1
<1> QED BY <1>2, <1>5, <1>6 DEF QueueHolds

\* A pass that is over takes its place with it (RequestQueueGuard::drop).
LEMMA QueueReleased ==
  ASSUME KlineInv, NEW t \in Kline!Tasks, NEW p \in Passes,
         task' = [task EXCEPT ![t] = p], Kline!Released(t)
  PROVE  queue' \in Seq(Places) /\ QueueHolds'
<1>1. queue \in Seq(Places) /\ QueueHolds /\ task \in [Kline!Tasks -> Passes]
  BY DEF KlineInv, KlineTyped
<1>2. CASE Kline!PlacesOf(t) = {}
  <2>1. queue' = queue /\ \A i \in DOMAIN queue : queue[i].task # t
    BY <1>2 DEF Kline!Released, Kline!PlacesOf
  <2> QED BY <1>1, <2>1 DEF QueueHolds
<1>3. CASE Kline!PlacesOf(t) # {}
  <2> DEFINE i == CHOOSE x \in Kline!PlacesOf(t) : TRUE
  <2>1. i \in Kline!PlacesOf(t) /\ queue' = Kline!RemoveAt(queue, i)
    BY <1>3 DEF Kline!Released
  <2> HIDE DEF i
  <2>2. i \in DOMAIN queue /\ queue[i].task = t
    BY <2>1 DEF Kline!PlacesOf
  <2> QED BY <2>1, <2>2, QueueShrinks
<1> QED BY <1>2, <1>3

LEMMA QueueWaits ==
  ASSUME KlineInv, NEW t \in Kline!Tasks, NEW p \in Passes,
         task' = [task EXCEPT ![t] = p], task[t].at # "queued", queue' = queue
  PROVE  queue' \in Seq(Places) /\ QueueHolds'
BY DEF KlineInv, KlineTyped, QueueHolds

LEMMA QueueGrows ==
  ASSUME KlineInv, NEW t \in Kline!Tasks, NEW p \in Passes, NEW e \in Nat,
         task' = [task EXCEPT ![t] = p], task[t].at # "queued", p.at = "queued",
         queue' = Append(queue, [task |-> t, end |-> e])
  PROVE  queue' \in Seq(Places) /\ QueueHolds'
<1>1. queue \in Seq(Places) /\ QueueHolds /\ task \in [Kline!Tasks -> Passes]
  BY DEF KlineInv, KlineTyped
<1> DEFINE place == [task |-> t, end |-> e]
<1>2. place \in Places /\ place.task = t
  BY DEF Places
<1> HIDE DEF place
<1>3. /\ queue' \in Seq(Places) /\ Len(queue') = Len(queue) + 1 /\ Len(queue) \in Nat
      /\ \A i \in 1..Len(queue) : queue'[i] = queue[i]
      /\ queue'[Len(queue) + 1] = place
  BY <1>1, <1>2 DEF place
<1>4. DOMAIN queue' = 1..(Len(queue) + 1) /\ DOMAIN queue = 1..Len(queue)
  BY <1>1, <1>3
<1>5. \A i \in DOMAIN queue : queue[i].task # t /\ task[queue[i].task].at = "queued"
  BY <1>1 DEF QueueHolds
<1>6. \A i \in DOMAIN queue' : i \in DOMAIN queue \/ i = Len(queue) + 1
  BY <1>3, <1>4
<1>7. ASSUME NEW i \in DOMAIN queue' PROVE task'[queue'[i].task].at = "queued"
  BY <1>1, <1>2, <1>3, <1>4, <1>5, <1>6
<1>8. ASSUME NEW i \in DOMAIN queue', NEW j \in DOMAIN queue',
             queue'[i].task = queue'[j].task
      PROVE  i = j
  BY <1>1, <1>2, <1>3, <1>4, <1>5, <1>6, <1>8 DEF QueueHolds
<1> QED BY <1>3, <1>7, <1>8 DEF QueueHolds

\* A pass ends.
LEMMA PassEnds ==
  ASSUME KlineInv, NEW t \in Kline!Tasks, NEW ok \in BOOLEAN, Kline!Ended(t, ok),
         UNCHANGED <<clock, job, waiter, cached>>,
         task[t].at # "idle", ok => Filled(t[1], task[t].range[1], task[t].range[2])
  PROVE  KlineInv'
<1>1. task[t] \in Passes /\ PassHolds(t[1], task[t]) /\ KlineTyped
  BY DEF KlineInv, KlineTyped
<1>2. Kline!ClosedMinutes \in Nat
  BY <1>1, KlineTimes
<1>3. PICK p \in Passes : task' = [task EXCEPT ![t] = p] /\ PassHolds(t[1], p)
  <2> DEFINE p == IF t[2] = "refresh" THEN Kline!Idle
                  ELSE [Kline!Idle EXCEPT !.at = "ended", !.range = task[t].range, !.ok = ok]
  <2>1. task' = [task EXCEPT ![t] = p]
    BY DEF Kline!Ended
  <2>2. p \in Passes
    BY <1>1 DEF Passes, Kline!Idle
  <2>3. PassHolds(t[1], p)
    BY <1>1, <1>2 DEF PassHolds, Kline!Idle, Fetching
  <2> QED BY <2>1, <2>2, <2>3
<1>4. PassHolds(t[1], p)'
  BY <1>3 DEF PassHolds, Filled, Kline!ClosedMinutes, Kline!Cutoff
<1>5. queue' \in Seq(Places) /\ QueueHolds'
  BY <1>3, QueueReleased DEF Kline!Ended
<1>6. cached' \in [KlineSymbols -> SUBSET Nat]
  BY <1>1 DEF KlineTyped
<1> QED BY <1>3, <1>4, <1>5, <1>6, TaskMoves

\* A pass goes on without an answer: its candles are what they were.
LEMMA PassGoesOn ==
  ASSUME KlineInv, NEW t \in Kline!Tasks, NEW p \in Passes,
         task' = [task EXCEPT ![t] = p], PassHolds(t[1], p),
         queue' \in Seq(Places), QueueHolds', UNCHANGED <<clock, cached, job, waiter>>,
         t[2] = "refresh" \/ task[t].at # "idle"
  PROVE  KlineInv'
<1>1. PassHolds(t[1], p)'
  BY DEF PassHolds, Filled, Kline!ClosedMinutes, Kline!Cutoff
<1>2. cached' \in [KlineSymbols -> SUBSET Nat]
  BY DEF KlineInv, KlineTyped
<1> QED BY <1>1, <1>2, TaskMoves

\* A worker starts with nothing done.
Started == [Kline!Idle EXCEPT !.at = "start"]
LEMMA StartHolds ==
  ASSUME KlineTyped
  PROVE  /\ {Started, Kline!Idle} \subseteq Passes
         /\ Started.at = "start" /\ Kline!Idle.at = "idle"
         /\ \A s \in KlineSymbols : PassHolds(s, Started) /\ PassHolds(s, Kline!Idle)
<1>1. Kline!ClosedMinutes \in Nat
  BY KlineTimes
<1>2. Kline!Idle \in Passes /\ Kline!Idle.at = "idle" /\ Kline!Idle.range = <<0, 0>>
  BY DEF Kline!Idle, Passes
<1>3. Started \in Passes /\ Started.at = "start" /\ Started.range = <<0, 0>>
  BY <1>2 DEF Started, Passes
<1> QED BY <1>1, <1>2, <1>3 DEF PassHolds, Fetching

-----------------------------------------------------------------------------
(* Queries *)

LEMMA QueryKeeps ==
  ASSUME KlineInv, NEW w \in Waiters, NEW q \in Queries, Kline!Query(w, q[1], q[2])
  PROVE  KlineInv'
<1> DEFINE s == q[1]
           range == q[2]
           closed == Kline!ClosedRange(range)
<1>1. s \in KlineSymbols /\ range \in Nat \X Nat
  BY KlineAssumption
<1>2. KlineTyped /\ Kline!ClosedMinutes \in Nat /\ Kline!Cutoff \in Nat
  BY KlineTimes DEF KlineInv
<1> HIDE DEF s, range
<1>3. closed \in Nat \X Nat /\ closed[2] <= Kline!ClosedMinutes
  BY <1>1, <1>2 DEF Kline!ClosedRange, Kline!Smaller
<1> HIDE DEF closed
<1>4. PICK p \in Queried : waiter' = [waiter EXCEPT ![w] = p] /\ QueryHolds(p)
                           /\ p.at # "waiting"
  <2>1. CASE range[1] < Kline!Cutoff
    <3> DEFINE p == [at |-> "failed", symbol |-> s, range |-> range]
    <3>1. waiter' = [waiter EXCEPT ![w] = p]
      BY <2>1 DEF Kline!Query, s, range
    <3>2. p \in Queried /\ QueryHolds(p) /\ p.at # "waiting"
      BY <1>1 DEF Queried, QueryHolds
    <3> QED BY <3>1, <3>2
  <2>2. CASE ~(range[1] < Kline!Cutoff) /\ Kline!Complete(s, closed)
    <3> DEFINE p == [at |-> "ready", symbol |-> s, range |-> closed]
    <3>1. waiter' = [waiter EXCEPT ![w] = p]
      BY <2>2 DEF Kline!Query, s, range, closed
    <3>2. Filled(s, closed[1], closed[2])
      BY <1>1, <1>2, <1>3, <2>2, CompleteIsFilled
    <3>3. p \in Queried /\ QueryHolds(p) /\ p.at # "waiting"
      BY <1>1, <1>3, <3>2 DEF Queried, QueryHolds
    <3> QED BY <3>1, <3>3
  <2>3. CASE ~(range[1] < Kline!Cutoff) /\ ~Kline!Complete(s, closed)
    <3> DEFINE p == [at |-> "joining", symbol |-> s, range |-> closed]
    <3>1. waiter' = [waiter EXCEPT ![w] = p]
      BY <2>3 DEF Kline!Query, s, range, closed
    <3>2. closed[1] < closed[2]
      BY <1>3, <2>3 DEF Kline!Complete
    <3>3. p \in Queried /\ QueryHolds(p) /\ p.at # "waiting"
      BY <1>1, <1>3, <3>2 DEF Queried, QueryHolds
    <3> QED BY <3>1, <3>3
  <2> QED BY <2>1, <2>2, <2>3
<1>5. UNCHANGED <<clock, cached, job, task, queue>>
  BY DEF Kline!Query
<1>6. KlineTyped'
  BY <1>2, <1>4, <1>5 DEF KlineTyped
<1>7. ASSUME NEW v \in Waiters PROVE QueryHolds(waiter[v])'
  <2>1. waiter'[v] = p \/ waiter'[v] = waiter[v]
    BY <1>2, <1>4 DEF KlineTyped
  <2>2. QueryHolds(waiter[v]) /\ QueryHolds(p)
    BY <1>4 DEF KlineInv
  <2> QED BY <1>5, <2>1, <2>2 DEF QueryHolds, Filled, Kline!ClosedMinutes, Kline!Cutoff
<1> QED BY <1>5, <1>6, <1>7 DEF KlineInv, QueueHolds, PassHolds, JobHolds, Filled,
                                Kline!ClosedMinutes, Kline!Cutoff

\* A job is extended to the range asked; one that is new has no other query waiting.
LEMMA JoinKeeps ==
  ASSUME KlineInv, NEW w \in Waiters, Kline!Join(w)
  PROVE  KlineInv'
<1>0. PICK asked, s : asked = waiter[w] /\ s = asked.symbol
  OBVIOUS
<1> DEFINE merged == Kline!Merged(job[s].range, asked.range)
<1>1. KlineTyped /\ Kline!ClosedMinutes \in Nat /\ QueryHolds(asked) /\ asked.at = "joining"
  BY <1>0, KlineTimes DEF KlineInv, Kline!Join
<1>2. /\ asked \in Queried /\ s \in KlineSymbols /\ job[s] \in Jobs
      /\ asked.range[1] < asked.range[2] /\ asked.range[2] <= Kline!ClosedMinutes
      /\ asked.range \in Nat \X Nat
      /\ job[s].range \in Nat \X Nat /\ job[s].range[2] <= Kline!ClosedMinutes
  <2>1. asked \in Queried /\ s \in KlineSymbols
    BY <1>0, <1>1 DEF KlineTyped, QueryHolds
  <2>2. asked.range[1] < asked.range[2] /\ asked.range[2] <= Kline!ClosedMinutes
    BY <1>1 DEF QueryHolds
  <2>3. job[s] \in Jobs /\ job[s].range[2] <= Kline!ClosedMinutes
    BY <1>1, <2>1 DEF KlineInv, KlineTyped, JobHolds
  <2> QED BY <2>1, <2>2, <2>3 DEF Queried, Jobs
<1>3. /\ waiter' = [waiter EXCEPT ![w].at = "waiting"]
      /\ UNCHANGED <<clock, cached, queue>>
  BY DEF Kline!Join
<1>4. UNCHANGED <<Kline!ClosedMinutes, Kline!Cutoff>>
  BY <1>3 DEF Kline!ClosedMinutes, Kline!Cutoff
<1>5. PICK j \in Jobs :
        /\ job' = [job EXCEPT ![s] = j] /\ j.range[2] <= Kline!ClosedMinutes
        /\ j.range[1] <= asked.range[1] /\ asked.range[2] <= j.range[2]
        /\ \A v \in Waiters : waiter[v].at = "waiting" /\ waiter[v].symbol = s =>
             j.range[1] <= waiter[v].range[1] /\ waiter[v].range[2] <= j.range[2]
  <2>1. CASE job[s] # Kline!NoJob
    <3> DEFINE j == [range |-> merged, changed |-> job[s].changed \/ merged # job[s].range]
    <3>1. job' = [job EXCEPT ![s] = j]
      BY <1>0, <1>2, <2>1 DEF Kline!Join
    <3>2. /\ merged \in Nat \X Nat /\ merged[2] <= Kline!ClosedMinutes
          /\ merged[1] <= asked.range[1] /\ asked.range[2] <= merged[2]
          /\ merged[1] <= job[s].range[1] /\ job[s].range[2] <= merged[2]
      BY <1>2 DEF Kline!Merged, Kline!Larger, Kline!Smaller
    <3> HIDE DEF merged
    <3>3. j \in Jobs /\ j.range = merged
      BY <1>2, <3>2 DEF Jobs
    <3>4. ASSUME NEW v \in Waiters, waiter[v].at = "waiting", waiter[v].symbol = s
          PROVE  merged[1] <= waiter[v].range[1] /\ waiter[v].range[2] <= merged[2]
      <4>1. /\ job[s].range[1] <= waiter[v].range[1]
            /\ waiter[v].range[2] <= job[s].range[2]
            /\ waiter[v].range \in Nat \X Nat
        BY <1>1, <3>4 DEF KlineInv, KlineTyped, QueryHolds, Queried
      <4> QED BY <1>2, <3>2, <4>1
    <3> QED BY <3>1, <3>2, <3>3, <3>4
  <2>2. CASE job[s] = Kline!NoJob
    <3> DEFINE j == [range |-> asked.range, changed |-> FALSE]
    <3>1. job' = [job EXCEPT ![s] = j]
      BY <1>0, <2>2 DEF Kline!Join
    <3>2. j \in Jobs /\ j.range = asked.range
      BY <1>2 DEF Jobs
    <3>3. ASSUME NEW v \in Waiters, waiter[v].at = "waiting", waiter[v].symbol = s
          PROVE  FALSE
      <4>1. /\ 0 <= waiter[v].range[1] /\ waiter[v].range[2] <= 0
            /\ waiter[v].range[1] < waiter[v].range[2] /\ waiter[v].range \in Nat \X Nat
        BY <1>1, <2>2, <3>3 DEF KlineInv, KlineTyped, QueryHolds, Queried, Kline!NoJob
      <4> QED BY <4>1
    <3> HIDE DEF j
    <3>4. /\ j.range[2] <= Kline!ClosedMinutes /\ j.range[1] <= asked.range[1]
          /\ asked.range[2] <= j.range[2]
      BY <1>2, <3>2
    <3> QED BY <3>1, <3>2, <3>3, <3>4
  <2> QED BY <2>1, <2>2
<1> DEFINE t == <<s, "warm">>
<1>6. t \in Kline!Tasks /\ t[1] = s /\ task \in [Kline!Tasks -> Passes]
  BY <1>1, <1>2 DEF Kline!Tasks, KlineTyped
<1>7. PICK p \in Passes : /\ task' = [task EXCEPT ![t] = p] /\ PassHolds(s, p)
                          /\ p = task[t] \/ task[t].at # "queued"
  <2>1. CASE job[s] # Kline!NoJob
    <3>1. task' = [task EXCEPT ![t] = task[t]]
      BY <1>0, <1>6, <2>1 DEF Kline!Join
    <3> QED BY <1>6, <3>1 DEF KlineInv
  <2>2. CASE job[s] = Kline!NoJob
    <3>1. task' = [task EXCEPT ![t] = Started]
      BY <1>0, <2>2 DEF Kline!Join, Started
    <3>2. task[t].at = "idle"
      BY <1>2, <2>2 DEF KlineInv, JobHolds, Kline!NoJob
    <3>3. Started \in Passes /\ PassHolds(s, Started) /\ task[t].at # "queued"
      BY <1>1, <1>2, <3>2, StartHolds
    <3> QED BY <3>1, <3>3
  <2> QED BY <2>1, <2>2
<1> HIDE DEF t
<1>8. queue' = queue /\ QueueHolds'
  <2>1. CASE p = task[t]
    BY <1>3, <1>6, <1>7, <2>1 DEF KlineInv, QueueHolds
  <2>2. CASE task[t].at # "queued"
    BY <1>3, <1>6, <1>7, <2>2, QueueWaits
  <2> QED BY <1>7, <2>1, <2>2
<1>9. KlineTyped'
  <2>1. waiter' \in [Waiters -> Queried]
    BY <1>0, <1>1, <1>2, <1>3 DEF KlineTyped, Queried
  <2> QED BY <1>1, <1>3, <1>5, <1>7, <2>1 DEF KlineTyped
<1>10. PassHolds(t[1], p)'
  <2>1. t[1] = s
    BY <1>6
  <2> QED BY <1>4, <1>3, <1>7, <2>1 DEF PassHolds, Filled
<1>11. ASSUME NEW x \in KlineSymbols PROVE JobHolds(x)'
  <2>1. CASE x = s
    <3>1. job'[x] = j
      BY <1>1, <1>2, <1>5, <2>1 DEF KlineTyped
    <3>2. j.range[1] < j.range[2]
      BY <1>2, <1>5 DEF Jobs
    <3> QED BY <1>4, <1>5, <3>1, <3>2 DEF JobHolds
  <2>2. CASE x # s
    <3>1. job'[x] = job[x] /\ task'[<<x, "warm">>] = task[<<x, "warm">>]
      BY <1>1, <1>5, <1>6, <1>7, <2>2 DEF KlineTyped, Kline!Tasks, t
    <3> QED BY <1>4, <3>1 DEF JobHolds, KlineInv
  <2> QED BY <2>1, <2>2
<1>12. ASSUME NEW v \in Waiters PROVE QueryHolds(waiter[v])'
  <2>1. waiter[v] \in Queried /\ QueryHolds(waiter[v])
    BY <1>1 DEF KlineInv, KlineTyped
  <2>2. CASE v = w
    <3>1. /\ waiter'[v].at = "waiting" /\ waiter'[v].symbol = s
          /\ waiter'[v].range = asked.range
      BY <1>0, <1>1, <1>2, <1>3, <2>2 DEF KlineTyped, Queried
    <3>2. job'[s] = j
      BY <1>1, <1>2, <1>5 DEF KlineTyped
    <3> QED BY <1>2, <1>4, <1>5, <3>1, <3>2 DEF QueryHolds
  <2>3. CASE v # w
    <3>1. waiter'[v] = waiter[v]
      BY <1>1, <1>3, <2>3 DEF KlineTyped
    <3>2. CASE waiter[v].at = "waiting" /\ waiter[v].symbol = s
      <4>1. job'[s] = j
        BY <1>1, <1>2, <1>5 DEF KlineTyped
      <4> QED BY <1>4, <1>5, <2>1, <3>1, <3>2, <4>1 DEF QueryHolds
    <3>3. CASE waiter[v].at = "waiting" /\ waiter[v].symbol # s
      <4>1. job'[waiter[v].symbol] = job[waiter[v].symbol]
        BY <1>1, <1>5, <2>1, <3>3 DEF KlineTyped, QueryHolds
      <4> QED BY <1>4, <2>1, <3>1, <3>3, <4>1 DEF QueryHolds
    <3>4. CASE waiter[v].at # "waiting"
      BY <1>3, <1>4, <2>1, <3>1, <3>4 DEF QueryHolds, Filled
    <3> QED BY <3>2, <3>3, <3>4
  <2> QED BY <2>2, <2>3
<1> QED BY <1>3, <1>6, <1>7, <1>8, <1>9, <1>10, <1>11, <1>12, PassMoves

LEMMA GivesUpKeeps ==
  ASSUME KlineInv, NEW w \in Waiters, Kline!GivesUp(w)
  PROVE  KlineInv'
<1>1. /\ waiter' = [waiter EXCEPT ![w] = Kline!Asleep]
      /\ UNCHANGED <<clock, cached, job, task, queue>>
  BY DEF Kline!GivesUp
<1>2. Kline!Asleep \in Queried /\ Kline!Asleep.at = "idle"
  BY DEF Kline!Asleep, Queried
<1>3. KlineTyped'
  BY <1>1, <1>2 DEF KlineInv, KlineTyped
<1>4. ASSUME NEW v \in Waiters PROVE QueryHolds(waiter[v])'
  <2>1. waiter'[v] = Kline!Asleep \/ waiter'[v] = waiter[v]
    BY <1>1 DEF KlineInv, KlineTyped
  <2> QED BY <1>1, <1>2, <2>1 DEF KlineInv, QueryHolds, Filled, Kline!ClosedMinutes,
                                  Kline!Cutoff
<1> QED BY <1>1, <1>3, <1>4 DEF KlineInv, QueueHolds, PassHolds, JobHolds, Filled,
                                Kline!ClosedMinutes, Kline!Cutoff

-----------------------------------------------------------------------------
(* A pass *)

LEMMA TaskFacts ==
  ASSUME KlineInv, NEW t \in Kline!Tasks
  PROVE  /\ t[1] \in KlineSymbols /\ task[t] \in Passes /\ PassHolds(t[1], task[t])
         /\ Kline!ClosedMinutes \in Nat /\ Kline!Cutoff \in Nat
         /\ KlineTyped /\ task \in [Kline!Tasks -> Passes]
BY KlineTimes, KlineAssumption DEF KlineInv, KlineTyped, Kline!Tasks

LEMMA RefreshTickKeeps ==
  ASSUME KlineInv, NEW s \in DefaultSymbols, Kline!RefreshTick(s)
  PROVE  KlineInv'
<1> DEFINE t == <<s, "refresh">>
           range == <<Kline!Larger(Kline!ClosedMinutes - Block, Kline!Cutoff), Kline!ClosedMinutes>>
           p == [Kline!Idle EXCEPT !.at = "pass", !.range = range]
<1>1. t \in Kline!Tasks /\ t[1] = s /\ t[2] = "refresh"
  BY DEF Kline!Tasks
<1>2. Kline!ClosedMinutes \in Nat /\ Kline!Cutoff \in Nat /\ KlineTyped
  BY <1>1, TaskFacts
<1>3. range \in Nat \X Nat /\ range[2] = Kline!ClosedMinutes
  BY <1>2, KlineAssumption DEF Kline!Larger
<1>4. task' = [task EXCEPT ![t] = p] /\ task[t].at # "queued" /\ queue' = queue
  BY DEF Kline!RefreshTick
<1> HIDE DEF range
<1>5. p \in Passes /\ PassHolds(s, p)
  <2>1. PICK r \in Nat \X Nat : r = range
    BY <1>3
  <2>2. p \in Passes /\ p.range = range /\ p.at = "pass"
    BY <2>1 DEF Passes, Kline!Idle
  <2> QED BY <1>2, <1>3, <2>2 DEF PassHolds, Fetching
<1> HIDE DEF p
<1>6. PICK q \in Passes : q = p
  BY <1>5
<1>7. queue' \in Seq(Places) /\ QueueHolds'
  BY <1>1, <1>4, <1>6, QueueWaits
<1> QED BY <1>1, <1>4, <1>5, <1>6, <1>7, PassGoesOn DEF Kline!RefreshTick

LEMMA BeginPassKeeps ==
  ASSUME KlineInv, NEW s \in KlineSymbols, Kline!BeginPass(s)
  PROVE  KlineInv'
<1> DEFINE t == <<s, "warm">>
           p == [Kline!Idle EXCEPT !.at = "pass", !.range = job[s].range]
<1>1. t \in Kline!Tasks /\ t[1] = s
  BY DEF Kline!Tasks
<1>2. job[s].range \in Nat \X Nat /\ job[s].range[2] <= Kline!ClosedMinutes
  BY DEF KlineInv, KlineTyped, JobHolds, Jobs
<1>3. task' = [task EXCEPT ![t] = p] /\ task[t].at = "start" /\ queue' = queue
  BY DEF Kline!BeginPass
<1>4. p \in Passes /\ PassHolds(s, p)
  BY <1>2 DEF Passes, PassHolds, Kline!Idle, Fetching
<1> HIDE DEF p
<1>5. PICK q \in Passes : q = p
  BY <1>4
<1>6. queue' \in Seq(Places) /\ QueueHolds'
  BY <1>1, <1>3, <1>5, QueueWaits
<1> QED BY <1>1, <1>3, <1>4, <1>5, <1>6, PassGoesOn DEF Kline!BeginPass

LEMMA CheckCacheKeeps ==
  ASSUME KlineInv, NEW t \in Kline!Tasks, Kline!CheckCache(t)
  PROVE  KlineInv'
<1> DEFINE s == t[1]
           closed == Kline!ClosedRange(task[t].range)
           p == [task[t] EXCEPT !.at = "market", !.end = closed[2]]
<1>1. /\ s \in KlineSymbols /\ task[t] \in Passes /\ PassHolds(s, task[t])
      /\ Kline!ClosedMinutes \in Nat /\ KlineTyped /\ task[t].at = "pass"
  BY TaskFacts DEF Kline!CheckCache
<1>2. /\ closed = task[t].range /\ task[t].range \in Nat \X Nat
      /\ task[t].range[2] <= Kline!ClosedMinutes
  BY <1>1 DEF Passes, PassHolds, Kline!ClosedRange, Kline!Smaller
<1> HIDE DEF closed
<1>3. UNCHANGED <<clock, job, waiter, cached>>
  BY DEF Kline!CheckCache
<1>4. CASE Kline!Ended(t, FALSE)
  BY <1>1, <1>3, <1>4, PassEnds
<1>5. CASE Kline!Ended(t, TRUE) /\ Kline!Complete(s, closed)
  <2>1. Filled(s, task[t].range[1], task[t].range[2])
    BY <1>1, <1>2, <1>5, CompleteIsFilled
  <2> QED BY <1>1, <1>3, <1>5, <2>1, PassEnds
<1>6. CASE task' = [task EXCEPT ![t] = p] /\ queue' = queue
  <2>1. p \in Passes /\ PassHolds(s, p) /\ p.at # "idle"
    BY <1>1, <1>2 DEF Passes, PassHolds, Fetching
  <2> HIDE DEF p
  <2>2. PICK q \in Passes : q = p
    BY <2>1
  <2>3. queue' \in Seq(Places) /\ QueueHolds'
    BY <1>1, <1>6, <2>2, QueueWaits
  <2> QED BY <1>1, <1>3, <1>6, <2>1, <2>2, <2>3, PassGoesOn
<1>7. task' = [task EXCEPT ![t].at = "market", ![t].end = closed[2]] => task' = [task EXCEPT ![t] = p]
  BY <1>1 DEF KlineTyped
<1> QED BY <1>4, <1>5, <1>6, <1>7 DEF Kline!CheckCache, closed

LEMMA TakeMarketKeeps ==
  ASSUME KlineInv, NEW t \in Kline!Tasks, Kline!TakeMarket(t)
  PROVE  KlineInv'
<1> DEFINE s == t[1]
           closed == <<task[t].range[1], task[t].end>>
           p == [task[t] EXCEPT !.at = "block"]
<1>1. /\ s \in KlineSymbols /\ task[t] \in Passes /\ PassHolds(s, task[t])
      /\ Kline!ClosedMinutes \in Nat /\ KlineTyped /\ task[t].at = "market"
  BY TaskFacts DEF Kline!TakeMarket
<1>2. /\ closed \in Nat \X Nat /\ task[t].end = task[t].range[2]
      /\ closed[1] = task[t].range[1] /\ closed[2] = task[t].range[2]
      /\ task[t].end \in Nat
  BY <1>1 DEF Passes, PassHolds
<1>3. UNCHANGED <<clock, job, waiter, cached>>
  BY DEF Kline!TakeMarket
<1>4. CASE Kline!Ended(t, TRUE) /\ Kline!Complete(s, closed)
  <2> HIDE DEF closed
  <2>1. Filled(s, task[t].range[1], task[t].range[2])
    BY <1>1, <1>2, <1>4, CompleteIsFilled
  <2> QED BY <1>1, <1>3, <1>4, <2>1, PassEnds
<1>5. CASE task' = [task EXCEPT ![t] = p] /\ queue' = queue
  <2>1. p \in Passes /\ p.at = "block" /\ p.end = task[t].end /\ p.range = task[t].range
    BY <1>1 DEF Passes
  <2>2. Filled(s, p.end, p.range[2])
    BY <1>2, <2>1 DEF Filled
  <2>3. PassHolds(s, p)
    BY <1>1, <2>1, <2>2 DEF PassHolds, Fetching
  <2> HIDE DEF p
  <2>4. PICK q \in Passes : q = p
    BY <2>1
  <2>5. queue' \in Seq(Places) /\ QueueHolds'
    BY <1>1, <1>5, <2>4, QueueWaits
  <2> QED BY <1>1, <1>3, <1>5, <2>3, <2>4, <2>5, PassGoesOn
<1>6. task' = [task EXCEPT ![t].at = "block"] => task' = [task EXCEPT ![t] = p]
  BY <1>1 DEF KlineTyped
<1> QED BY <1>4, <1>5, <1>6 DEF Kline!TakeMarket

\* The next page is the newest gap, and a block without one is behind the pass.
LEMMA PagedFacts ==
  ASSUME NEW p \in Passes
  PROVE  /\ Kline!Paged(p) \in Passes
         /\ Kline!Paged(p).range = p.range
         /\ \/ /\ Kline!Paged(p).at = "block" /\ Kline!Paged(p).end = p.block
               /\ \A m \in Nat : p.block <= m /\ m < p.end => m \in p.existing
            \/ /\ Kline!Paged(p).at = "client" /\ Kline!Paged(p).end = p.end
               /\ Kline!Paged(p).existing = p.existing
<1> DEFINE missing == Kline!Missing(p)
<1>1. /\ p.block \in Nat /\ p.end \in Nat /\ p.existing \subseteq Nat
      /\ Page \in Nat \ {0}
  BY KlineAssumption DEF Passes
<1>2. missing = {m \in Nat : p.block <= m /\ m < p.end /\ m \notin p.existing}
  BY <1>1 DEF Kline!Missing
<1>3. IsFiniteSet(missing)
  <2>1. IsFiniteSet(p.block..(p.end - 1))
    BY <1>1, FS_Interval
  <2> QED BY <2>1, FS_Subset DEF Kline!Missing
<1> HIDE DEF missing
<1>4. CASE missing = {}
  <2>1. Kline!Paged(p) = [p EXCEPT !.at = "block", !.end = p.block, !.existing = {},
                                   !.page = <<0, 0>>, !.upTo = 0]
    BY <1>4 DEF Kline!Paged, missing
  <2>2. <<0, 0>> \in Nat \X Nat /\ {} \in SUBSET Nat
    OBVIOUS
  <2> QED BY <1>1, <1>2, <1>4, <2>1, <2>2 DEF Passes
<1>5. CASE missing # {}
  <2> DEFINE last == CHOOSE m \in missing : \A k \in missing : k <= m
             firsts == {a \in missing : last - a < Page /\ a..last \subseteq missing}
             first == CHOOSE a \in firsts : \A b \in firsts : a <= b
             gap == <<first, last + 1>>
  <2>1. missing \subseteq Nat
    BY <1>2
  <2>2. last \in missing /\ \A k \in missing : k <= last
    BY <1>3, <1>5, <2>1, GreatestNatural
  <2> HIDE DEF last
  <2>3. last \in firsts
    BY <1>1, <2>1, <2>2
  <2>4. firsts \in SUBSET Nat /\ firsts # {}
    BY <2>1, <2>3
  <2> HIDE DEF firsts
  <2>5. first \in firsts
    BY <2>4, LeastNatural
  <2> HIDE DEF first
  <2>6. gap \in Nat \X Nat /\ gap[2] \in Nat
    BY <2>1, <2>2, <2>4, <2>5
  <2>7. Kline!NewestGap(p) = gap
    BY DEF Kline!NewestGap, first, firsts, last, missing
  <2> HIDE DEF gap
  <2>8. Kline!Paged(p) = [p EXCEPT !.at = "client", !.page = gap, !.upTo = gap[2]]
    BY <1>5, <2>7 DEF Kline!Paged, missing
  <2> QED BY <1>1, <2>6, <2>8 DEF Passes, Fetching
<1> QED BY <1>4, <1>5

\* What is behind a block that is over is filled too.
LEMMA PagedHolds ==
  ASSUME KlineTyped, NEW s \in KlineSymbols, NEW p \in Passes,
         p.range[2] <= Kline!ClosedMinutes, Filled(s, p.end, p.range[2]),
         \A m \in p.existing : m >= Kline!Cutoff /\ m \notin Holes => m \in cached[s]
  PROVE  PassHolds(s, Kline!Paged(p))
<1>1. p.block \in Nat /\ p.end \in Nat /\ p.range[2] \in Nat
  BY DEF Passes
<1>2. PICK q \in Passes : q = Kline!Paged(p) /\ q.range = p.range
  BY PagedFacts
<1>3. CASE /\ q.at = "block" /\ q.end = p.block
           /\ \A m \in Nat : p.block <= m /\ m < p.end => m \in p.existing
  <2>1. Filled(s, p.block, p.range[2])
    <3> SUFFICES ASSUME NEW m \in Nat, p.block <= m, m < p.range[2],
                        m < Kline!ClosedMinutes, m >= Kline!Cutoff, m \notin Holes
                 PROVE  m \in cached[s]
      BY DEF Filled
    <3>1. CASE m < p.end
      BY <1>3, <3>1
    <3>2. CASE p.end <= m
      BY <3>2 DEF Filled
    <3> QED BY <1>1, <3>1, <3>2
  <2>2. PassHolds(s, q)
    BY <1>2, <1>3, <2>1 DEF PassHolds, Fetching
  <2> QED BY <1>2, <2>2
<1>4. CASE q.at = "client" /\ q.end = p.end /\ q.existing = p.existing
  <2>1. PassHolds(s, q)
    BY <1>2, <1>4 DEF PassHolds, Fetching
  <2> QED BY <1>2, <2>1
<1> QED BY <1>2, <1>3, <1>4, PagedFacts

LEMMA NextBlockKeeps ==
  ASSUME KlineInv, NEW t \in Kline!Tasks, Kline!NextBlock(t)
  PROVE  KlineInv'
<1> DEFINE s == t[1]
           first == Kline!Larger(task[t].end - Block, Kline!Cutoff)
           there == Kline!Present(s, <<first, task[t].end>>)
           p == [task[t] EXCEPT !.block = first, !.existing = there]
<1>1. /\ s \in KlineSymbols /\ task[t] \in Passes /\ PassHolds(s, task[t])
      /\ Kline!ClosedMinutes \in Nat /\ Kline!Cutoff \in Nat /\ KlineTyped
      /\ task[t].at = "block"
  BY TaskFacts DEF Kline!NextBlock
<1>2. /\ task[t].range \in Nat \X Nat /\ task[t].end \in Nat
      /\ task[t].range[2] <= Kline!ClosedMinutes
      /\ Filled(s, task[t].end, task[t].range[2])
  BY <1>1 DEF Passes, PassHolds
<1>3. UNCHANGED <<clock, job, waiter, cached>>
  BY DEF Kline!NextBlock
<1>4. CASE Kline!Ended(t, TRUE) /\ task[t].end <= task[t].range[1]
  <2>1. Filled(s, task[t].range[1], task[t].range[2])
    BY <1>2, <1>4 DEF Filled
  <2> QED BY <1>1, <1>3, <1>4, <2>1, PassEnds
<1>5. CASE task' = [task EXCEPT ![t] = Kline!Paged(p)] /\ queue' = queue
  <2>1. first \in Nat
    BY <1>1, <1>2, KlineAssumption DEF Kline!Larger
  <2>2. there \subseteq cached[s] /\ there \subseteq Nat
    BY <1>1 DEF Kline!Present, KlineTyped
  <2> HIDE DEF first, there
  <2>3. /\ p \in Passes /\ p.range = task[t].range /\ p.end = task[t].end
        /\ p.existing = there
    BY <1>1, <2>1, <2>2 DEF Passes
  <2> HIDE DEF p
  <2>4. PICK x \in Passes : x = p
    BY <2>3
  <2>5. PassHolds(s, Kline!Paged(x))
    BY <1>1, <1>2, <2>2, <2>3, <2>4, PagedHolds
  <2>6. PICK q \in Passes : q = Kline!Paged(x)
    BY PagedFacts
  <2>7. task' = [task EXCEPT ![t] = q] /\ PassHolds(s, q)
    BY <1>5, <2>4, <2>5, <2>6
  <2>8. queue' \in Seq(Places) /\ QueueHolds'
    BY <1>1, <1>5, <2>7, QueueWaits
  <2> QED BY <1>1, <1>3, <2>7, <2>8, PassGoesOn
<1> QED BY <1>4, <1>5 DEF Kline!NextBlock

LEMMA AskKeeps ==
  ASSUME KlineInv, NEW t \in Kline!Tasks, Kline!Ask(t)
  PROVE  KlineInv'
<1>1. /\ t[1] \in KlineSymbols /\ task[t] \in Passes /\ PassHolds(t[1], task[t])
      /\ KlineTyped /\ task[t].at = "client"
  BY TaskFacts DEF Kline!Ask
<1>2. PICK p \in Passes : p = [task[t] EXCEPT !.at = "queued"]
  BY <1>1 DEF Passes, Fetching
<1>3. task' = [task EXCEPT ![t] = p]
  BY <1>2 DEF Kline!Ask
<1>4. PassHolds(t[1], p) /\ p.at = "queued"
  BY <1>1, <1>2 DEF PassHolds, Fetching, Passes
<1>5. PICK e \in Nat : queue' = Append(queue, [task |-> t, end |-> e])
  BY <1>1 DEF Kline!Ask, Passes
<1>6. queue' \in Seq(Places) /\ QueueHolds'
  BY <1>1, <1>3, <1>4, <1>5, QueueGrows
<1> QED BY <1>1, <1>3, <1>4, <1>6, PassGoesOn DEF Kline!Ask

LEMMA VerifyEgressKeeps ==
  ASSUME KlineInv, NEW t \in Kline!Tasks, NEW answers \in BOOLEAN,
         Kline!VerifyEgress(t, answers)
  PROVE  KlineInv'
<1>1. task[t].at = "client" /\ UNCHANGED <<clock, cached, job, waiter>>
  BY DEF Kline!VerifyEgress
<1>2. CASE Kline!Ended(t, FALSE)
  BY <1>1, <1>2, PassEnds
<1>3. CASE UNCHANGED <<task, market, queue>>
  BY <1>1, <1>3 DEF KlineInv, KlineTyped, QueueHolds, PassHolds, JobHolds, QueryHolds,
                    Filled, Kline!ClosedMinutes, Kline!Cutoff
<1> QED BY <1>2, <1>3 DEF Kline!VerifyEgress

LEMMA GrantKeeps ==
  ASSUME KlineInv, NEW i \in DOMAIN queue, Kline!Grant(i)
  PROVE  KlineInv'
<1>1. PICK t \in Kline!Tasks : t = queue[i].task /\ task[t].at = "queued"
  <2>1. queue[i] \in Places
    BY DEF KlineInv, KlineTyped
  <2>2. queue[i].task \in Kline!Tasks
    BY <2>1 DEF Places
  <2> QED BY <2>2 DEF KlineInv, QueueHolds
<1>2. /\ t[1] \in KlineSymbols /\ task[t] \in Passes /\ PassHolds(t[1], task[t])
      /\ KlineTyped
  BY TaskFacts
<1>3. PICK p \in Passes : p = [task[t] EXCEPT !.at = "sent"]
  BY <1>2 DEF Passes, Fetching
<1>4. task' = [task EXCEPT ![t] = p] /\ queue' = Kline!RemoveAt(queue, i)
  BY <1>1, <1>3 DEF Kline!Grant
<1>5. PassHolds(t[1], p)
  BY <1>1, <1>2, <1>3 DEF PassHolds, Fetching, Passes
<1>6. queue' \in Seq(Places) /\ QueueHolds'
  BY <1>1, <1>4, QueueShrinks
<1> QED BY <1>1, <1>4, <1>5, <1>6, PassGoesOn DEF Kline!Grant

\* A page that was answered whole is cached but for what fell behind the cutoff.
LEMMA AnsweredKeeps ==
  ASSUME KlineInv, NEW t \in Kline!Tasks, Kline!Answered(t)
  PROVE  KlineInv'
<1> DEFINE s == t[1]
           lowest == Kline!RequestStart(t)
           minutes == Kline!MinutesOf(task[t].page)
           candles == {m \in minutes \ Holes : m >= Kline!Cutoff}
<1>1. /\ s \in KlineSymbols /\ task[t] \in Passes /\ PassHolds(s, task[t])
      /\ Kline!ClosedMinutes \in Nat /\ Kline!Cutoff \in Nat /\ KlineTyped
      /\ task[t].at = "sent"
  BY TaskFacts DEF Kline!Answered
<1>2. UNCHANGED <<clock, job, waiter>>
  BY DEF Kline!Answered
<1>3. lowest \in Nat /\ minutes \subseteq Nat
  BY <1>1, KlineAssumption DEF Kline!RequestStart, Kline!Larger, Kline!MinutesOf, Passes
<1> HIDE DEF lowest, minutes
<1>4. CASE /\ task' = [task EXCEPT ![t].at = "queued", ![t].upTo = lowest]
           /\ queue' = Append(queue, [task |-> t, end |-> lowest])
           /\ cached' = cached
  <2>1. PICK p \in Passes : p = [task[t] EXCEPT !.at = "queued", !.upTo = lowest]
    BY <1>1, <1>3 DEF Passes, Fetching
  <2>2. task' = [task EXCEPT ![t] = p]
    BY <1>1, <1>4, <2>1 DEF KlineTyped
  <2>3. PassHolds(s, p) /\ p.at = "queued"
    BY <1>1, <2>1 DEF PassHolds, Fetching, Passes
  <2>4. PICK e \in Nat : e = lowest
    BY <1>3
  <2>5. queue' \in Seq(Places) /\ QueueHolds'
    BY <1>1, <1>4, <2>2, <2>3, <2>4, QueueGrows
  <2> QED BY <1>1, <1>2, <1>4, <2>2, <2>3, <2>5, PassGoesOn
<1>5. CASE /\ cached' = [cached EXCEPT ![s] = @ \union candles]
           /\ task' = [task EXCEPT ![t] =
                Kline!Paged([task[t] EXCEPT !.existing = task[t].existing \union minutes])]
           /\ queue' = queue
  <2>1. PICK x \in Passes : x = [task[t] EXCEPT !.existing = task[t].existing \union minutes]
    BY <1>1, <1>3 DEF Passes
  <2>2. PICK q \in Passes : q = Kline!Paged(x)
    BY PagedFacts
  <2>3. task' = [task EXCEPT ![t] = q]
    BY <1>5, <2>1, <2>2
  <2>4. candles \subseteq Nat
    BY <1>3
  <2>5. /\ cached' \in [KlineSymbols -> SUBSET Nat]
        /\ \A y \in KlineSymbols : cached[y] \subseteq cached'[y]
        /\ cached'[s] = cached[s] \union candles
    <3> HIDE DEF candles
    <3> QED BY <1>1, <1>5, <2>4 DEF KlineTyped
  <2>6. queue' \in Seq(Places) /\ QueueHolds'
    BY <1>1, <1>5, <2>3, QueueWaits
  <2>7. UNCHANGED <<Kline!ClosedMinutes, Kline!Cutoff>>
    BY <1>2 DEF Kline!ClosedMinutes, Kline!Cutoff
  <2>8. /\ x.range = task[t].range /\ x.end = task[t].end /\ x.block = task[t].block
        /\ x.existing = task[t].existing \union minutes
        /\ x.end \in Nat /\ x.block \in Nat /\ x.range[2] \in Nat
    BY <1>1, <2>1 DEF Passes
  <2>9. x.range[2] <= Kline!ClosedMinutes'
    BY <1>1, <2>7, <2>8 DEF PassHolds
  <2>10. Filled(s, x.end, x.range[2])'
    BY <1>1, <2>5, <2>7, <2>8 DEF PassHolds, Filled, Fetching
  <2>11. \A m \in x.existing : m >= Kline!Cutoff' /\ m \notin Holes => m \in cached'[s]
    BY <1>1, <2>5, <2>7, <2>8 DEF PassHolds, Fetching
  <2>12. PassHolds(s, q)'
    <3>1. q.range = x.range
      BY <2>2, PagedFacts
    <3>2. CASE /\ q.at = "block" /\ q.end = x.block
               /\ \A m \in Nat : x.block <= m /\ m < x.end => m \in x.existing
      <4>1. Filled(s, x.block, x.range[2])'
        <5> SUFFICES ASSUME NEW m \in Nat, x.block <= m, m < x.range[2],
                            m < Kline!ClosedMinutes', m >= Kline!Cutoff', m \notin Holes
                     PROVE  m \in cached'[s]
          BY DEF Filled
        <5>1. CASE m < x.end
          BY <2>11, <3>2, <5>1
        <5>2. CASE x.end <= m
          BY <2>10, <5>2 DEF Filled
        <5> QED BY <2>8, <5>1, <5>2
      <4> QED BY <2>9, <3>1, <3>2, <4>1 DEF PassHolds, Fetching
    <3>3. CASE q.at = "client" /\ q.end = x.end /\ q.existing = x.existing
      BY <2>9, <2>10, <2>11, <3>1, <3>3 DEF PassHolds, Fetching
    <3> QED BY <2>2, <3>2, <3>3, PagedFacts
  <2> QED BY <1>1, <1>2, <2>3, <2>5, <2>6, <2>12, TaskMoves
<1>6. CASE lowest > task[t].page[1]
  BY <1>4, <1>6 DEF Kline!Answered, lowest
<1>7. CASE ~(lowest > task[t].page[1])
  <2>1. queue' = queue
    BY <1>7 DEF Kline!Answered, lowest
  <2>2. cached' = [cached EXCEPT ![s] = @ \union candles]
    BY <1>7 DEF Kline!Answered, lowest, minutes
  <2>3. task' = [task EXCEPT ![t] =
           Kline!Paged([task[t] EXCEPT !.existing = task[t].existing \union minutes])]
    BY <1>7 DEF Kline!Answered, lowest, minutes
  <2> QED BY <1>5, <2>1, <2>2, <2>3
<1> QED BY <1>6, <1>7

-----------------------------------------------------------------------------
(* The worker between two passes *)

\* A job that ends tells every query of its symbol; the others and their jobs stay.
LEMMA JobEnds ==
  ASSUME KlineInv, NEW s \in KlineSymbols, NEW ok \in BOOLEAN,
         ok => Filled(s, job[s].range[1], job[s].range[2]),
         task' = [task EXCEPT ![<<s, "warm">>] = Kline!Idle],
         job' = [job EXCEPT ![s] = Kline!NoJob], waiter' = Kline!Told(s, ok),
         queue' \in Seq(Places), QueueHolds', UNCHANGED <<clock, cached>>
  PROVE  KlineInv'
<1>0. <<s, "warm">> \in Kline!Tasks /\ <<s, "warm">>[1] = s
  BY DEF Kline!Tasks
<1>1. PICK t \in Kline!Tasks : t = <<s, "warm">> /\ t[1] = s
  BY <1>0
<1>2. /\ KlineTyped /\ Kline!ClosedMinutes \in Nat
      /\ UNCHANGED <<Kline!ClosedMinutes, Kline!Cutoff>>
  BY KlineTimes DEF KlineInv, Kline!ClosedMinutes, Kline!Cutoff
<1>3. PICK p \in Passes : p = Kline!Idle /\ p.at = "idle" /\ PassHolds(s, p)
  BY <1>2, StartHolds
<1>4. PassHolds(t[1], p)'
  BY <1>1, <1>2, <1>3 DEF PassHolds, Filled
<1>5. Kline!NoJob \in Jobs /\ Kline!NoJob.range[2] = 0
  BY DEF Kline!NoJob, Jobs
<1>6. job' \in [KlineSymbols -> Jobs]
  BY <1>2, <1>5 DEF KlineTyped
<1>7. ASSUME NEW x \in KlineSymbols PROVE JobHolds(x)'
  <2>1. CASE x = s
    <3>1. job'[x] = Kline!NoJob /\ task'[<<x, "warm">>].at = "idle"
      BY <1>1, <1>2, <1>3, <2>1 DEF KlineTyped
    <3> QED BY <1>2, <1>5, <3>1 DEF JobHolds
  <2>2. CASE x # s
    <3>1. job'[x] = job[x] /\ task'[<<x, "warm">>] = task[<<x, "warm">>]
      BY <1>1, <1>2, <2>2 DEF KlineTyped, Kline!Tasks
    <3> QED BY <1>2, <3>1 DEF JobHolds, KlineInv
  <2> QED BY <2>1, <2>2
<1>8. ASSUME NEW w \in Waiters
      PROVE  waiter'[w] \in Queried /\ QueryHolds(waiter[w])'
  <2>1. waiter[w] \in Queried /\ QueryHolds(waiter[w])
    BY <1>2 DEF KlineInv, KlineTyped
  <2>2. CASE waiter[w].at = "waiting" /\ waiter[w].symbol = s
    <3>1. waiter'[w] = [waiter[w] EXCEPT !.at = IF ok THEN "ready" ELSE "failed"]
      BY <2>2 DEF Kline!Told
    <3>2. /\ waiter'[w] \in Queried
          /\ (waiter'[w].at = "ready" /\ ok) \/ waiter'[w].at = "failed"
          /\ waiter'[w].symbol = s /\ waiter'[w].range = waiter[w].range
      BY <2>1, <2>2, <3>1 DEF Queried
    <3>3. /\ waiter[w].range \in Nat \X Nat /\ job[s].range \in Nat \X Nat
          /\ job[s].range[1] <= waiter[w].range[1]
          /\ waiter[w].range[2] <= job[s].range[2]
          /\ waiter[w].range[2] <= Kline!ClosedMinutes
      BY <1>2, <2>1, <2>2 DEF KlineTyped, Queried, Jobs, QueryHolds
    <3>4. ok => Filled(s, waiter[w].range[1], waiter[w].range[2])
      BY <3>3 DEF Filled
    <3>5. ok => Filled(s, waiter[w].range[1], waiter[w].range[2])'
      <4>1. PICK a, b : a = waiter[w].range[1] /\ b = waiter[w].range[2]
        OBVIOUS
      <4>2. ok => Filled(s, a, b)'
        BY <1>2, <3>4, <4>1 DEF Filled
      <4> QED BY <3>2, <4>1, <4>2 DEF Filled
    <3> QED BY <1>2, <3>2, <3>3, <3>5 DEF QueryHolds
  <2>3. CASE ~(waiter[w].at = "waiting" /\ waiter[w].symbol = s)
    <3>1. waiter'[w] = waiter[w]
      BY <2>3 DEF Kline!Told
    <3>2. waiter[w].at = "waiting" => job'[waiter[w].symbol] = job[waiter[w].symbol]
      BY <1>2, <2>1, <2>3 DEF KlineTyped, QueryHolds
    <3> QED BY <1>2, <2>1, <3>1, <3>2 DEF QueryHolds, Filled
  <2> QED BY <2>2, <2>3
<1>9. KlineTyped'
  <2>1. waiter' \in [Waiters -> Queried]
    BY <1>8 DEF Kline!Told
  <2> QED BY <1>1, <1>2, <1>3, <1>6, <2>1 DEF KlineTyped
<1> QED BY <1>1, <1>3, <1>4, <1>7, <1>8, <1>9, PassMoves

LEMMA ConcludeKeeps ==
  ASSUME KlineInv, NEW s \in KlineSymbols, Kline!Conclude(s)
  PROVE  KlineInv'
<1>0. <<s, "warm">> \in Kline!Tasks /\ <<s, "warm">>[1] = s
  BY DEF Kline!Tasks
<1>1. PICK t \in Kline!Tasks : t = <<s, "warm">> /\ t[1] = s
  BY <1>0
<1>2. /\ task[t] \in Passes /\ PassHolds(s, task[t]) /\ KlineTyped /\ task[t].at = "ended"
      /\ UNCHANGED <<clock, cached, queue>>
  BY <1>1, TaskFacts DEF Kline!Conclude
<1>3. CASE task' = [task EXCEPT ![t] = Started] /\ UNCHANGED <<job, waiter>>
  <2>1. PICK p \in Passes : p = Started /\ PassHolds(s, p)
    BY <1>2, StartHolds
  <2>2. queue' \in Seq(Places) /\ QueueHolds'
    BY <1>2, <1>3, <2>1, QueueWaits
  <2> QED BY <1>1, <1>2, <1>3, <2>1, <2>2, PassGoesOn
<1>4. CASE /\ ~(task[t].ok /\ job[s].range # task[t].range)
           /\ task' = [task EXCEPT ![t] = Kline!Idle]
           /\ job' = [job EXCEPT ![s] = Kline!NoJob]
           /\ waiter' = Kline!Told(s, task[t].ok)
  <2>1. PICK ok \in BOOLEAN : ok = task[t].ok
    BY <1>2 DEF Passes
  <2>2. ok => Filled(s, job[s].range[1], job[s].range[2])
    BY <1>2, <1>4, <2>1 DEF PassHolds
  <2>3. PICK p \in Passes : p = Kline!Idle
    BY <1>2, StartHolds
  <2>4. queue' \in Seq(Places) /\ QueueHolds'
    BY <1>2, <1>4, <2>3, QueueWaits
  <2> QED BY <1>1, <1>2, <1>4, <2>1, <2>2, <2>4, JobEnds
<1> QED BY <1>1, <1>3, <1>4 DEF Kline!Conclude, Started

LEMMA InterruptKeeps ==
  ASSUME KlineInv, NEW s \in KlineSymbols, Kline!Interrupt(s)
  PROVE  KlineInv'
<1>0. <<s, "warm">> \in Kline!Tasks /\ <<s, "warm">>[1] = s
  BY DEF Kline!Tasks
<1>1. PICK t \in Kline!Tasks : t = <<s, "warm">> /\ t[1] = s
  BY <1>0
<1>2. /\ task[t] \in Passes /\ KlineTyped /\ task[t].at # "idle"
      /\ Kline!ClosedMinutes \in Nat
      /\ UNCHANGED <<clock, cached, waiter>>
      /\ UNCHANGED <<Kline!ClosedMinutes, Kline!Cutoff>>
  BY <1>1, TaskFacts DEF Kline!Interrupt, Kline!ClosedMinutes, Kline!Cutoff
<1>3. PICK p \in Passes : p = Started /\ PassHolds(s, p)
  BY <1>2, StartHolds
<1>4. task' = [task EXCEPT ![t] = p] /\ Kline!Released(t)
  BY <1>1, <1>3 DEF Kline!Interrupt, Started
<1>5. queue' \in Seq(Places) /\ QueueHolds'
  BY <1>4, QueueReleased
<1>6. PICK j \in Jobs : job' = [job EXCEPT ![s] = j] /\ j.range = job[s].range
  <2>1. job[s] \in Jobs
    BY <1>2 DEF KlineTyped
  <2>2. [job[s] EXCEPT !.changed = FALSE] \in Jobs
    BY <2>1 DEF Jobs
  <2> QED BY <2>1, <2>2 DEF Kline!Interrupt, Jobs
<1>7. KlineTyped'
  BY <1>2, <1>4, <1>5, <1>6 DEF KlineTyped
<1>8. PassHolds(t[1], p)'
  BY <1>1, <1>2, <1>3 DEF PassHolds, Filled
<1>9. \A x \in KlineSymbols : job'[x].range = job[x].range
  BY <1>2, <1>6 DEF KlineTyped
<1>10. ASSUME NEW x \in KlineSymbols PROVE JobHolds(x)'
  <2>1. task'[<<x, "warm">>].at # "idle" => task[<<x, "warm">>].at # "idle"
    <3>1. <<x, "warm">> \in Kline!Tasks
      BY DEF Kline!Tasks
    <3> QED BY <1>2, <1>4, <3>1 DEF KlineTyped
  <2> QED BY <1>2, <1>9, <2>1 DEF JobHolds, KlineInv
<1>11. ASSUME NEW w \in Waiters PROVE QueryHolds(waiter[w])'
  BY <1>2, <1>9 DEF KlineInv, QueryHolds, Filled
<1> QED BY <1>2, <1>4, <1>5, <1>7, <1>8, <1>10, <1>11, PassMoves

LEMMA WorkerDiesKeeps ==
  ASSUME KlineInv, NEW s \in KlineSymbols, Kline!WorkerDies(s)
  PROVE  KlineInv'
<1>1. PICK t \in Kline!Tasks : t = <<s, "warm">>
  BY DEF Kline!Tasks
<1>2. PICK p \in Passes : p = Kline!Idle
  BY StartHolds DEF KlineInv
<1>3. task' = [task EXCEPT ![t] = p] /\ Kline!Released(t)
  BY <1>1, <1>2 DEF Kline!WorkerDies
<1>4. queue' \in Seq(Places) /\ QueueHolds'
  BY <1>3, QueueReleased
<1> QED BY <1>4, JobEnds DEF Kline!WorkerDies

-----------------------------------------------------------------------------
(* Time and retention *)

\* A step of time, or of pruning, moves no pass and no query.
LEMMA CandlesKept ==
  ASSUME KlineInv, KlineTyped', KeepsCandles, UNCHANGED <<job, task, queue, waiter>>
  PROVE  KlineInv'
<1>1. KlineTyped
  BY DEF KlineInv
<1>2. QueueHolds'
  BY DEF KlineInv, QueueHolds
<1>3. {Kline!ClosedMinutes, Kline!ClosedMinutes'} \subseteq Nat
  <2>1. Kline!ClosedMinutes \in Nat
    BY <1>1, KlineTimes
  <2>2. Kline!ClosedMinutes' \in Nat
    BY TimeFacts DEF KlineTyped, Kline!ClosedMinutes
  <2> QED BY <2>1, <2>2
<1>4. ASSUME NEW s \in KlineSymbols PROVE JobHolds(s)'
  <2>1. JobHolds(s) /\ job[s].range[2] \in Nat
    BY <1>1 DEF KlineInv, KlineTyped, Jobs
  <2> QED BY <1>3, <2>1 DEF JobHolds, KeepsCandles
<1>5. ASSUME NEW t \in Kline!Tasks PROVE PassHolds(t[1], task[t])'
  <2>1. PICK p \in Passes : p = task[t] /\ PassHolds(t[1], p) /\ t[1] \in KlineSymbols
    BY TaskFacts
  <2>2. PassHolds(t[1], p)'
    BY <1>1, <2>1, PassStays
  <2> QED BY <2>1, <2>2 DEF PassHolds, Filled
<1>6. ASSUME NEW w \in Waiters PROVE QueryHolds(waiter[w])'
  <2>1. PICK q \in Queried : q = waiter[w] /\ QueryHolds(q)
    BY <1>1 DEF KlineInv, KlineTyped
  <2>2. QueryHolds(q)'
    BY <1>1, <2>1, QueryStays
  <2> QED BY <2>1, <2>2 DEF QueryHolds, Filled
<1> QED BY <1>2, <1>4, <1>5, <1>6 DEF KlineInv

LEMMA PruneKeeps == KlineInv /\ Kline!Prune => KlineInv'
<1> SUFFICES ASSUME KlineInv, Kline!Prune PROVE KlineInv'
  OBVIOUS
<1>1. /\ UNCHANGED <<clock, job, task, queue, waiter>>
      /\ cached' = [s \in KlineSymbols |-> {m \in cached[s] : m >= Kline!Cutoff}]
  BY DEF Kline!Prune
<1>2. KlineTyped /\ Kline!ClosedMinutes \in Nat /\ Kline!Cutoff \in Nat
  BY KlineTimes DEF KlineInv
<1>3. UNCHANGED <<Kline!ClosedMinutes, Kline!Cutoff>>
  BY <1>1 DEF Kline!ClosedMinutes, Kline!Cutoff
<1>4. KlineTyped' /\ KeepsCandles
  BY <1>1, <1>2, <1>3 DEF KlineTyped, KeepsCandles
<1> QED BY <1>1, <1>4, CandlesKept

LEMMA KlineTickKeeps == KlineInv /\ Kline!Tick => KlineInv'
<1> SUFFICES ASSUME KlineInv, Kline!Tick PROVE KlineInv'
  OBVIOUS
<1>1. /\ UNCHANGED <<cached, job, task, queue, waiter>> /\ clock' = clock + 1
      /\ KlineTyped /\ StartClock \in Nat
  BY KlineAssumption DEF Kline!Tick, KlineInv
<1>2. KlineTyped'
  BY <1>1 DEF KlineTyped
<1>3. Kline!ClosedMinutes' >= Kline!ClosedMinutes /\ Kline!Cutoff' >= Kline!Cutoff
  <2>1. clock \in Nat /\ clock >= StartClock /\ clock' = clock + 1
    BY <1>1 DEF KlineTyped
  <2>2. /\ clock \div Minute <= clock' \div Minute
        /\ Kline!FirstComplete(clock - Retain * Minute)
             <= Kline!FirstComplete(clock' - Retain * Minute)
    BY <2>1, TimeFacts, Zenon
  <2>3. {Kline!ClosedMinutes, Kline!Cutoff, Kline!ClosedMinutes', Kline!Cutoff'} \subseteq Nat
    BY <1>1, <1>2, TimeFacts, KlineTimes DEF KlineTyped, Kline!ClosedMinutes, Kline!Cutoff
  <2>4. Kline!ClosedMinutes <= Kline!ClosedMinutes' /\ Kline!Cutoff <= Kline!Cutoff'
    BY <2>2, Zenon DEF Kline!ClosedMinutes, Kline!Cutoff
  <2> QED BY <2>3, <2>4
<1>4. KeepsCandles
  BY <1>1, <1>3 DEF KeepsCandles
<1> QED BY <1>1, <1>2, <1>4, CandlesKept

-----------------------------------------------------------------------------
LEMMA KlineStart == Kline!KlineInit => KlineInv
<1> SUFFICES ASSUME Kline!KlineInit PROVE KlineInv
  OBVIOUS
<1>1. Kline!NoJob \in Jobs /\ Kline!NoJob.range = <<0, 0>>
  BY DEF Kline!NoJob, Jobs
<1>2. Kline!Idle \in Passes /\ Kline!Idle.at = "idle" /\ Kline!Idle.range = <<0, 0>>
  BY DEF Kline!Idle, Passes
<1>3. Kline!Asleep \in Queried /\ Kline!Asleep.at = "idle"
  BY DEF Kline!Asleep, Queried
<1>4. KlineTyped /\ queue = <<>>
  BY <1>1, <1>2, <1>3, KlineAssumption DEF Kline!KlineInit, KlineTyped
<1>5. Kline!ClosedMinutes \in Nat
  BY <1>4, KlineTimes
<1>6. \A s \in KlineSymbols : <<s, "warm">> \in Kline!Tasks
  BY DEF Kline!Tasks
<1>7. \A s \in KlineSymbols : JobHolds(s)
  <2> SUFFICES ASSUME NEW s \in KlineSymbols PROVE JobHolds(s)
    OBVIOUS
  <2>1. job[s] = Kline!NoJob /\ task[<<s, "warm">>] = Kline!Idle
    BY <1>6 DEF Kline!KlineInit
  <2>2. job[s].range[2] = 0 /\ task[<<s, "warm">>].at = "idle"
    BY <1>1, <1>2, <2>1
  <2> QED BY <1>5, <2>2 DEF JobHolds
<1>8. \A t \in Kline!Tasks : PassHolds(t[1], task[t])
  BY <1>2, <1>5 DEF Kline!KlineInit, PassHolds, Fetching
<1>9. \A w \in Waiters : QueryHolds(waiter[w])
  BY <1>3 DEF Kline!KlineInit, QueryHolds
<1> QED BY <1>4, <1>7, <1>8, <1>9 DEF KlineInv, QueueHolds

LEMMA KlineStep == KlineInv /\ Kline!KlineNext => KlineInv'
<1> SUFFICES ASSUME KlineInv, Kline!KlineNext PROVE KlineInv'
  OBVIOUS
<1>1. CASE \E w \in Waiters, q \in Queries : Kline!Query(w, q[1], q[2])
  BY <1>1, QueryKeeps
<1>2. CASE \E w \in Waiters : Kline!Join(w) \/ Kline!GivesUp(w)
  BY <1>2, JoinKeeps, GivesUpKeeps
<1>3. CASE \E s \in DefaultSymbols : Kline!RefreshTick(s)
  BY <1>3, RefreshTickKeeps
<1>4. CASE \E s \in KlineSymbols : \/ Kline!BeginPass(s) \/ Kline!Conclude(s)
                                   \/ Kline!Interrupt(s) \/ Kline!WorkerDies(s)
  BY <1>4, BeginPassKeeps, ConcludeKeeps, InterruptKeeps, WorkerDiesKeeps
<1>5. CASE \E t \in Kline!Tasks : Kline!Step(t)
  BY <1>5, CheckCacheKeeps, TakeMarketKeeps, NextBlockKeeps, AskKeeps DEF Kline!Step
<1>6. CASE \E t \in Kline!Tasks, answers \in BOOLEAN : Kline!VerifyEgress(t, answers)
  BY <1>6, VerifyEgressKeeps
<1>7. CASE \E i \in DOMAIN queue : Kline!Grant(i)
  BY <1>7, GrantKeeps
<1>8. CASE \E t \in Kline!Tasks : Kline!Answered(t)
  BY <1>8, AnsweredKeeps
<1>9. CASE \E t \in Kline!Tasks : \/ Kline!Refused(t)
                                  \/ \E pause \in Pauses : Kline!Limited(t, pause)
  <2>1. PICK t \in Kline!Tasks :
          /\ task[t].at = "sent" /\ Kline!Ended(t, FALSE)
          /\ UNCHANGED <<clock, cached, job, waiter>>
    BY <1>9 DEF Kline!Refused, Kline!Limited
  <2> QED BY <2>1, PassEnds
<1>10. CASE Kline!Prune \/ Kline!Tick
  BY <1>10, PruneKeeps, KlineTickKeeps
<1> QED BY <1>1, <1>2, <1>3, <1>4, <1>5, <1>6, <1>7, <1>8, <1>9, <1>10
        DEF Kline!KlineNext

LEMMA ReadyIsFilled == KlineInv => Kline!ReadyIsCovered
<1> SUFFICES ASSUME KlineInv, NEW w \in Waiters, waiter[w].at = "ready",
                    NEW m \in Kline!Readable(waiter[w].range) \ Holes
             PROVE  m \in cached[waiter[w].symbol]
  BY DEF Kline!ReadyIsCovered
<1>1. /\ Filled(waiter[w].symbol, waiter[w].range[1], waiter[w].range[2])
      /\ waiter[w].range \in Nat \X Nat /\ Kline!ClosedMinutes \in Nat /\ Kline!Cutoff \in Nat
  BY KlineTimes DEF KlineInv, KlineTyped, Queried, QueryHolds
<1>2. /\ m \in Nat /\ waiter[w].range[1] <= m /\ m < waiter[w].range[2]
      /\ m < Kline!ClosedMinutes /\ m >= Kline!Cutoff
  BY <1>1 DEF Kline!Readable, Kline!Larger, Kline!Smaller
<1> QED BY <1>1, <1>2 DEF Filled

-----------------------------------------------------------------------------
(***************************************************************************)
(* Funding rates                                                            *)
(***************************************************************************)
Entries == [rates : SUBSET RateTimes, noMark : SUBSET RateTimes, from : Nat,
            through : Nat, wanted : Nat, attempted : Nat, loading : BOOLEAN,
            error : BOOLEAN]
Loads == [at : {"idle", "queued", "sent"}, from : Nat, through : Nat]

RatesTyped ==
  /\ rateTime \in Nat \ {0}
  /\ entry \in [RateSymbols -> Entries]
  /\ load \in [RateSymbols -> Loads]
  /\ ratePublished \in [RateSymbols -> SUBSET RateTimes]

\* What the exchange publishes late, it publishes within the overlap.
PublishedInTime ==
  \A s \in RateSymbols : \A t \in RateTimes : 
    t \notin ratePublished[s] => rateTime <= t + Overlap

\* Coverage has both ends or none, and all of it up to the overlap is there.
Covered(e) ==
  /\ (e.from = 0) <=> (e.through = 0)
  /\ e.from # 0 =>
       \A t \in RateTimes : t >= e.from /\ t < e.through - Overlap => t \in e.rates

\* A load ends now or earlier, and begins where nothing is left out between it and what
\* is covered: behind the covered end by the overlap, or before all that is kept.
LeavesNoGap(l, e) ==
  l.at # "idle" =>
    /\ l.from # 0 /\ l.through \in 1..rateTime
    /\ e.from # 0 =>
         \/ l.from <= e.through - Overlap
         \/ l.from <= l.through - Retained
         \/ l.from = 1

RatesInv ==
  /\ RatesTyped
  /\ PublishedInTime
  /\ \A s \in RateSymbols : Covered(entry[s]) /\ LeavesNoGap(load[s], entry[s])

LEMMA RatesStart == Rates!RatesInit => RatesInv
<1> SUFFICES ASSUME Rates!RatesInit PROVE RatesInv
  OBVIOUS
<1>1. Rates!NoEntry \in Entries /\ Rates!NoEntry.from = 0 /\ Rates!NoEntry.through = 0
  BY DEF Rates!NoEntry, Rates!Unknown, Entries
<1>2. Rates!NoLoad \in Loads /\ Rates!NoLoad.at = "idle"
  BY DEF Rates!NoLoad, Loads
<1>3. RatesTyped
  BY <1>1, <1>2 DEF RatesTyped, Rates!RatesInit
<1>4. PublishedInTime
  BY RatesAssumption DEF PublishedInTime, Rates!RatesInit
<1>5. \A s \in RateSymbols : Covered(entry[s]) /\ LeavesNoGap(load[s], entry[s])
  BY <1>1, <1>2 DEF Covered, LeavesNoGap, Rates!RatesInit
<1> QED BY <1>3, <1>4, <1>5 DEF RatesInv

\* Where a load begins (schedule): a missing mark may only move it back.
LEMMA LoadBegins ==
  ASSUME RatesTyped, NEW e \in Entries, Covered(e)
  PROVE  /\ Rates!LoadFrom(e) \in Nat \ {0}
         /\ e.from # 0 =>
              \/ Rates!LoadFrom(e) <= e.through - Overlap
              \/ Rates!LoadFrom(e) <= rateTime - Retained
              \/ Rates!LoadFrom(e) = 1
<1> DEFINE first == IF e.through = 0 THEN Rates!Oldest
                    ELSE Rates!Larger(e.through - Overlap, Rates!Oldest)
           Missing == {t \in e.noMark : t >= Rates!Oldest} \union {first}
<1>0. RateTimes \subseteq Nat \ {0} /\ Overlap \in Nat \ {0} /\ Retained \in Nat \ {0}
  BY RatesAssumption
<1>1. /\ rateTime \in Nat \ {0} /\ e.through \in Nat /\ e.noMark \subseteq Nat \ {0}
      /\ Overlap \in Nat \ {0} /\ Retained \in Nat \ {0}
  BY <1>0 DEF RatesTyped, Entries
<1>2. /\ Rates!Oldest \in Nat \ {0}
      /\ Rates!Oldest = 1 \/ Rates!Oldest = rateTime - Retained
  BY <1>1 DEF Rates!Oldest, Rates!Larger
<1>3. /\ first \in Nat \ {0}
      /\ e.from # 0 => first = Rates!Oldest \/ first = e.through - Overlap
  BY <1>1, <1>2 DEF Rates!Larger, Covered
<1>4. Rates!LoadFrom(e) = CHOOSE t \in Missing : \A u \in Missing : t <= u
  BY DEF Rates!LoadFrom, Rates!NeedsEarlier, Rates!Minimum, Rates!Since, Rates!Unknown
<1> HIDE DEF first
<1>5. Missing \in SUBSET Nat /\ Missing # {}
  BY <1>1, <1>3
<1>6. \E t \in Missing : \A u \in Missing : t <= u
  BY <1>5, LeastNatural
<1>7. Rates!LoadFrom(e) \in Missing /\ Rates!LoadFrom(e) <= first
  BY <1>4, <1>6
<1> HIDE DEF Rates!LoadFrom
<1>8. Rates!LoadFrom(e) \in Nat \ {0}
  BY <1>1, <1>3, <1>7
<1> QED BY <1>1, <1>2, <1>3, <1>7, <1>8

LEMMA ScheduleKeeps ==
  ASSUME RatesInv, NEW s \in RateSymbols, NEW e \in Entries,
         Covered(e), LeavesNoGap(load[s], e), Rates!Scheduled(s, e)
  PROVE  RatesInv'
<1> DEFINE loading == [e EXCEPT !.loading = TRUE, !.attempted = rateTime]
           sent == [at |-> "queued", from |-> Rates!LoadFrom(e), through |-> rateTime]
<1>1. /\ RatesTyped /\ UNCHANGED <<rateTime, ratePublished>>
      /\ \A x \in RateSymbols : Covered(entry[x]) /\ LeavesNoGap(load[x], entry[x])
  BY DEF RatesInv, Rates!Scheduled
<1>2. loading \in Entries
  BY <1>1 DEF RatesTyped, Entries
<1>3. Covered(loading)
  BY DEF Covered, Entries
<1>4. loading.from = e.from /\ loading.through = e.through
  BY DEF Entries
<1>5. /\ Rates!LoadFrom(e) \in Nat \ {0}
      /\ e.from # 0 =>
           \/ Rates!LoadFrom(e) <= e.through - Overlap
           \/ Rates!LoadFrom(e) <= rateTime - Retained
           \/ Rates!LoadFrom(e) = 1
  BY <1>1, LoadBegins
<1> HIDE DEF Rates!LoadFrom
<1>6. sent \in Loads /\ LeavesNoGap(sent, loading)
  BY <1>1, <1>4, <1>5 DEF Loads, LeavesNoGap, RatesTyped
<1>7. PICK f \in Entries, l \in Loads :
        /\ entry' = [entry EXCEPT ![s] = f] /\ load' = [load EXCEPT ![s] = l]
        /\ Covered(f) /\ LeavesNoGap(l, f)
  <2>1. CASE Rates!Due(e)
    <3>1. entry' = [entry EXCEPT ![s] = loading] /\ load' = [load EXCEPT ![s] = sent]
      BY <2>1 DEF Rates!Scheduled
    <3> QED BY <1>2, <1>3, <1>6, <3>1
  <2>2. CASE ~Rates!Due(e)
    <3>1. /\ entry' = [entry EXCEPT ![s] = e] /\ load[s] \in Loads
          /\ load' = [load EXCEPT ![s] = load[s]]
      BY <1>1, <2>2 DEF Rates!Scheduled, RatesTyped
    <3> QED BY <3>1
  <2> QED BY <2>1, <2>2
<1>8. RatesTyped' /\ PublishedInTime'
  BY <1>1, <1>7 DEF RatesTyped, RatesInv, PublishedInTime
<1>9. \A x \in RateSymbols : Covered(entry[x])' /\ LeavesNoGap(load[x], entry[x])'
  BY <1>1, <1>7 DEF RatesTyped, LeavesNoGap, Covered
<1> QED BY <1>8, <1>9 DEF RatesInv

\* A load that was answered (load): what it read again replaces what was there from its
\* beginning on, and what it keeps reaches up to it.
LEMMA AnswerKeeps ==
  ASSUME RatesInv, NEW s \in RateSymbols, Rates!Answered(s)
  PROVE  RatesInv'
<1> DEFINE e == entry[s]
           l == load[s]
           answer == {t \in ratePublished[s] : t \in l.from..l.through}
           first == Rates!Smaller(IF entry[s].from = Rates!Unknown THEN l.from
                                  ELSE entry[s].from, l.from)
           kept == Rates!Kept(s)
           f == [e EXCEPT !.rates = kept \union answer,
                          !.noMark = (@ \intersect kept) \union (answer \ marked[s]),
                          !.from = IF FALSE THEN first
                                   ELSE Rates!Larger(first, l.through - Retained),
                          !.through = l.through,
                          !.loading = FALSE, !.error = FALSE]
<1>1. /\ RatesTyped /\ PublishedInTime /\ UNCHANGED <<rateTime, ratePublished>>
      /\ \A x \in RateSymbols : Covered(entry[x]) /\ LeavesNoGap(load[x], entry[x])
  BY DEF RatesInv, Rates!Answered
<1>2. /\ entry' = [entry EXCEPT ![s] = f] /\ load' = [load EXCEPT ![s] = Rates!NoLoad]
      /\ l.at = "sent"
  <2>1. entry' = [entry EXCEPT ![s] = f]
    BY DEF Rates!Answered
  <2> QED BY <2>1 DEF Rates!Answered
<1>14. kept = {t \in e.rates : t < l.from /\ t >= l.through - Retained}
  BY DEF Rates!Kept
<1> HIDE DEF kept
<1>3. e \in Entries /\ l \in Loads /\ ratePublished[s] \subseteq RateTimes
  BY <1>1 DEF RatesTyped
<1>4. Rates!NoLoad \in Loads /\ Rates!NoLoad.at = "idle"
  BY DEF Rates!NoLoad, Loads
<1>5. /\ {Overlap, Retained} \subseteq Nat \ {0} /\ RateTimes \subseteq Nat \ {0}
      /\ rateTime \in Nat \ {0}
      /\ {e.from, e.through, l.from, l.through} \subseteq Nat
      /\ e.rates \subseteq RateTimes /\ e.noMark \subseteq RateTimes
  BY <1>1, <1>3, RatesAssumption DEF RatesTyped, Entries, Loads
<1>6. /\ l.from # 0 /\ l.through # 0 /\ l.through <= rateTime
      /\ e.from # 0 =>
           \/ l.from <= e.through - Overlap
           \/ l.from <= l.through - Retained
           \/ l.from = 1
  BY <1>1, <1>2, <1>5 DEF LeavesNoGap
<1>7. first \in Nat \ {0} /\ first <= l.from /\ (first < l.from => first = e.from)
  BY <1>5, <1>6 DEF Rates!Smaller, Rates!Unknown
<1> HIDE DEF first
<1>8. /\ Rates!Larger(first, l.through - Retained) \in Nat \ {0}
      /\ Rates!Larger(first, l.through - Retained) >= first
      /\ Rates!Larger(first, l.through - Retained) >= l.through - Retained
  BY <1>5, <1>7 DEF Rates!Larger
<1> HIDE DEF Rates!Larger
<1>9. /\ kept \subseteq RateTimes /\ answer \subseteq RateTimes
      /\ (e.noMark \intersect kept) \union (answer \ marked[s]) \subseteq RateTimes
  BY <1>3, <1>5, <1>14
<1>10. /\ f \in Entries /\ f.rates = kept \union answer /\ f.through = l.through
       /\ f.from = Rates!Larger(first, l.through - Retained)
  <2> HIDE DEF answer
  <2> QED BY <1>3, <1>5, <1>8, <1>9 DEF Entries
<1> HIDE DEF f
<1>11. Covered(f)
  <2> SUFFICES ASSUME NEW t \in RateTimes, t >= f.from, t < f.through - Overlap
               PROVE  t \in f.rates
    BY <1>6, <1>8, <1>10 DEF Covered
  <2>1. t \in Nat /\ t >= first /\ t >= l.through - Retained /\ t < l.through - Overlap
    BY <1>5, <1>7, <1>8, <1>10
  <2>2. CASE t >= l.from
    <3>1. t \in ratePublished[s]
      BY <1>1, <1>5, <1>6, <2>1 DEF PublishedInTime
    <3> QED BY <1>5, <1>10, <2>1, <2>2, <3>1
  <2>3. CASE t < l.from
    <3>1. first = e.from /\ e.from # 0
      BY <1>5, <1>7, <2>1, <2>3
    <3>2. t < e.through - Overlap
      BY <1>5, <1>6, <2>1, <2>3, <3>1
    <3>3. t \in e.rates
      BY <1>1, <2>1, <3>1, <3>2 DEF Covered
    <3> QED BY <1>10, <1>14, <2>1, <2>3, <3>3
  <2> QED BY <1>5, <2>1, <2>2, <2>3
<1>12. RatesTyped' /\ PublishedInTime'
  BY <1>1, <1>2, <1>4, <1>10 DEF RatesTyped, PublishedInTime
<1>13. \A x \in RateSymbols : Covered(entry[x])' /\ LeavesNoGap(load[x], entry[x])'
  BY <1>1, <1>2, <1>4, <1>11 DEF RatesTyped, LeavesNoGap, Covered
<1> QED BY <1>12, <1>13 DEF RatesInv

LEMMA RatesStep == RatesInv /\ Rates!RatesNext => RatesInv'
<1> SUFFICES ASSUME RatesInv, Rates!RatesNext PROVE RatesInv'
  OBVIOUS
<1>1. /\ RatesTyped /\ PublishedInTime /\ {Overlap, Retained} \subseteq Nat \ {0}
      /\ RateTimes \subseteq Nat \ {0}
      /\ \A x \in RateSymbols : Covered(entry[x]) /\ LeavesNoGap(load[x], entry[x])
  BY RatesAssumption DEF RatesInv
<1>2. ASSUME NEW s \in RateSymbols, NEW from \in 1..MaxRateTime, Rates!Request(s, from)
      PROVE  RatesInv'
  <2> DEFINE e == [entry[s] EXCEPT !.wanted =
                     IF @ = Rates!Unknown THEN from ELSE Rates!Smaller(@, from)]
  <2>1. /\ e \in Entries /\ e.from = entry[s].from /\ e.through = entry[s].through
        /\ e.rates = entry[s].rates
    BY <1>1 DEF RatesTyped, Entries, Rates!Smaller
  <2>2. Rates!Scheduled(s, e)
    BY <1>2 DEF Rates!Request
  <2> HIDE DEF e
  <2>3. Covered(e) /\ LeavesNoGap(load[s], e)
    BY <1>1, <2>1 DEF Covered, LeavesNoGap
  <2> QED BY <2>1, <2>2, <2>3, ScheduleKeeps
<1>3. ASSUME NEW s \in RateSymbols, Rates!RefreshTick(s)
      PROVE  RatesInv'
  <2>1. Rates!Scheduled(s, entry[s]) /\ entry[s] \in Entries
    BY <1>1, <1>3 DEF Rates!RefreshTick, RatesTyped
  <2> QED BY <1>1, <2>1, ScheduleKeeps
<1>4. ASSUME NEW s \in RateSymbols, Rates!Send(s)
      PROVE  RatesInv'
  <2>1. /\ UNCHANGED <<rateTime, ratePublished, entry>> /\ load[s].at = "queued"
        /\ load' = [load EXCEPT ![s].at = "sent"]
    BY <1>4 DEF Rates!Send
  <2>2. RatesTyped' /\ PublishedInTime'
    BY <1>1, <2>1 DEF RatesTyped, PublishedInTime, Loads
  <2>3. \A x \in RateSymbols : Covered(entry[x])' /\ LeavesNoGap(load[x], entry[x])'
    BY <1>1, <2>1 DEF RatesTyped, LeavesNoGap, Covered, Loads
  <2> QED BY <2>2, <2>3 DEF RatesInv
<1>5. ASSUME NEW s \in RateSymbols, Rates!Answered(s)
      PROVE  RatesInv'
  BY <1>5, AnswerKeeps
<1>6. ASSUME NEW s \in RateSymbols, NEW rejected \in BOOLEAN, Rates!Fails(s, rejected)
      PROVE  RatesInv'
  <2>1. /\ UNCHANGED <<rateTime, ratePublished>>
        /\ entry' = [entry EXCEPT ![s] = [@ EXCEPT !.loading = FALSE, !.error = TRUE]]
        /\ load' = [load EXCEPT ![s] = Rates!NoLoad]
    BY <1>6 DEF Rates!Fails
  <2>2. Rates!NoLoad \in Loads /\ Rates!NoLoad.at = "idle"
    BY DEF Rates!NoLoad, Loads
  <2>6. entry' \in [RateSymbols -> Entries] /\ load' \in [RateSymbols -> Loads]
    <3>1. [entry[s] EXCEPT !.loading = FALSE, !.error = TRUE] \in Entries
      BY <1>1 DEF RatesTyped, Entries
    <3> QED BY <1>1, <2>1, <2>2, <3>1 DEF RatesTyped
  <2>3. RatesTyped' /\ PublishedInTime'
    BY <1>1, <2>1, <2>6 DEF RatesTyped, PublishedInTime
  <2>4. \A x \in RateSymbols :
           /\ entry'[x].from = entry[x].from /\ entry'[x].through = entry[x].through
           /\ entry'[x].rates = entry[x].rates
           /\ load'[x] = IF x = s THEN Rates!NoLoad ELSE load[x]
    BY <1>1, <2>1 DEF RatesTyped, Entries
  <2>5. \A x \in RateSymbols : Covered(entry[x])' /\ LeavesNoGap(load[x], entry[x])'
    <3> TAKE x \in RateSymbols
    <3>1. Covered(entry[x])'
      BY <1>1, <2>4 DEF Covered
    <3>2. CASE x = s
      BY <2>2, <2>4, <3>1, <3>2 DEF LeavesNoGap
    <3>3. CASE x # s
      <4>1. /\ load'[x] = load[x] /\ rateTime' = rateTime
            /\ entry'[x].from = entry[x].from /\ entry'[x].through = entry[x].through
        BY <2>1, <2>4, <3>3
      <4> QED BY <1>1, <3>1, <4>1 DEF LeavesNoGap
    <3> QED BY <3>2, <3>3
  <2> QED BY <2>3, <2>5 DEF RatesInv
<1>7. ASSUME NEW s \in RateSymbols, NEW t \in RateTimes, Rates!Publish(s, t)
      PROVE  RatesInv'
  <2>1. /\ UNCHANGED <<rateTime, entry, load>>
        /\ ratePublished' = [ratePublished EXCEPT ![s] = @ \union {t}]
    BY <1>7 DEF Rates!Publish
  <2>2. RatesTyped' /\ PublishedInTime'
    BY <1>1, <2>1 DEF RatesTyped, PublishedInTime
  <2> QED BY <1>1, <2>1, <2>2 DEF RatesInv, Covered, LeavesNoGap
<1>8. ASSUME NEW s \in RateSymbols, NEW t \in RateTimes, Rates!Mark(s, t)
      PROVE  RatesInv'
  <2>1. UNCHANGED <<rateTime, entry, load, ratePublished>>
    BY <1>8 DEF Rates!Mark
  <2> QED BY <1>1, <2>1 DEF RatesInv, RatesTyped, PublishedInTime, Covered, LeavesNoGap
<1>9. CASE Rates!Tick
  <2>1. /\ rateTime' = rateTime + 1 /\ UNCHANGED <<entry, load, ratePublished>>
        /\ \A s \in RateSymbols : \A t \in RateTimes \ ratePublished[s] : rateTime < t + Overlap
    BY <1>9 DEF Rates!Tick
  <2>2. RatesTyped'
    BY <1>1, <2>1 DEF RatesTyped
  <2>3. PublishedInTime'
    BY <1>1, <2>1 DEF RatesTyped, PublishedInTime
  <2>4. \A x \in RateSymbols : Covered(entry[x])' /\ LeavesNoGap(load[x], entry[x])'
    BY <1>1, <2>1 DEF RatesTyped, LeavesNoGap, Covered, Loads
  <2> QED BY <2>2, <2>3, <2>4 DEF RatesInv
<1> QED BY <1>2, <1>3, <1>4, <1>5, <1>6, <1>7, <1>8, <1>9 DEF Rates!RatesNext

LEMMA RatesComplete == RatesInv => Rates!CompleteMeansAll
<1> SUFFICES ASSUME RatesInv, NEW s \in RateSymbols, NEW from \in 1..MaxRateTime,
                    NEW until \in 1..MaxRateTime,
                    Rates!CompleteFor(entry[s], from, until),
                    NEW t \in RateTimes, t >= from, t <= until,
                    t < entry[s].through - Overlap
             PROVE  t \in entry[s].rates \ entry[s].noMark
  BY DEF Rates!CompleteMeansAll
<1>1. /\ entry[s] \in Entries /\ Covered(entry[s]) /\ RateTimes \subseteq Nat
      /\ MaxRateTime \in Nat
  BY RatesAssumption DEF RatesInv, RatesTyped
<1>2. /\ entry[s].from # 0 /\ entry[s].from <= from
      /\ \A u \in entry[s].noMark : u \notin from..until
  BY DEF Rates!CompleteFor, Rates!Unknown
<1>3. t \in from..until /\ t >= entry[s].from
  BY <1>1, <1>2 DEF Entries
<1> QED BY <1>1, <1>2, <1>3 DEF Covered

-----------------------------------------------------------------------------
(***************************************************************************)
(* Funding income                                                           *)
(***************************************************************************)
Cursors == [start : Nat, through : Nat]
Polls == [at : {"idle", "symbols", "fetched"}, todo : SUBSET IncomeSymbols,
          failed : BOOLEAN, symbol : IncomeSymbols \union {"none"}, through : Nat,
          rows : SUBSET Incomes]

IncomeTyped ==
  /\ incomeTime \in Nat \ {0} /\ start \in Nat
  /\ orders \in [IncomeSymbols -> Nat]
  /\ cursors \in [IncomeSymbols -> Cursors]
  /\ incomePublished \in SUBSET Incomes
  /\ poll \in Polls

\* What the exchange publishes late, it publishes within the replayed time.
SettledInTime ==
  \A e \in Incomes : e \notin incomePublished => incomeTime <= e[2] + Replay

\* All income of a symbol, from its start up to a time, is there.
Whole(s, first, last, there) ==
  \A e \in Incomes : e[1] = s /\ e[2] >= first /\ e[2] <= last => e \in there

\* A cursor is in the past.  What it says is true up to the replayed time, and without
\* exception once it is too old to be replayed.
CursorHolds(s) ==
  /\ cursors[s].start = 0 => cursors[s].through = 0
  /\ cursors[s].through < incomeTime
  /\ cursors[s].start # 0 =>
       Whole(s, cursors[s].start, cursors[s].through - Replay, income)
  /\ cursors[s].through # 0 /\ cursors[s].through < incomeTime - 2 * Replay =>
       Whole(s, cursors[s].start, cursors[s].through, income)

\* The same of the cursor a fetched window would leave, together with its rows.
FetchHolds ==
  poll.at = "fetched" =>
    /\ poll.symbol \in IncomeSymbols /\ cursors[poll.symbol].start # 0
    /\ poll.through < incomeTime
    /\ Whole(poll.symbol, cursors[poll.symbol].start, poll.through - Replay,
             income \union poll.rows)
    /\ poll.through < incomeTime - 2 * Replay =>
         Whole(poll.symbol, cursors[poll.symbol].start, poll.through,
               income \union poll.rows)

IncomeInv ==
  /\ IncomeTyped
  /\ SettledInTime
  /\ \A s \in IncomeSymbols : CursorHolds(s)
  /\ \A s \in poll.todo : cursors[s].start # 0
  /\ FetchHolds

LEMMA IncomeFacts ==
  /\ {Replay, Window} \subseteq Nat \ {0}
  /\ \A e \in Incomes : e[1] \in IncomeSymbols /\ e[2] \in Nat \ {0}
  /\ FirstOrders \subseteq Nat \ {0}
<1>1. {Replay, Window, MaxIncomeTime} \subseteq Nat \ {0}
  BY FundingAssumption
<1>2. 1..MaxIncomeTime \subseteq Nat \ {0}
  BY <1>1
<1>3. ASSUME NEW e \in Incomes PROVE e[1] \in IncomeSymbols /\ e[2] \in Nat \ {0}
  <2>1. PICK s \in IncomeSymbols, t \in 1..MaxIncomeTime : e = <<s, t>>
    BY FundingAssumption
  <2> QED BY <1>2, <2>1
<1> QED BY <1>1, <1>2, <1>3, FundingAssumption

LEMMA Sleeps == /\ Income!Asleep \in Polls /\ Income!Asleep.at = "idle"
                /\ Income!Asleep.todo = {}
BY DEF Income!Asleep, Polls

LEMMA IncomeStart == Income!FundingInit => IncomeInv
<1> SUFFICES ASSUME Income!FundingInit PROVE IncomeInv
  OBVIOUS
<1>1. /\ incomeTime = 1 /\ incomePublished = {} /\ start = 0 /\ poll = Income!Asleep
      /\ orders = [s \in IncomeSymbols |-> 0]
      /\ cursors = [s \in IncomeSymbols |-> [start |-> 0, through |-> 0]]
  BY DEF Income!FundingInit, Income!None
<1>2. IncomeTyped
  BY <1>1, Sleeps DEF IncomeTyped, Cursors
<1>3. SettledInTime
  BY <1>1, IncomeFacts DEF SettledInTime
<1>4. \A s \in IncomeSymbols : CursorHolds(s)
  BY <1>1 DEF CursorHolds
<1> QED BY <1>1, <1>2, <1>3, <1>4, Sleeps DEF IncomeInv, FetchHolds

\* A poll that ends or is cancelled leaves the ledger as it is.
LEMMA PollEnds ==
  ASSUME IncomeInv, poll' = Income!Asleep,
         UNCHANGED <<incomeTime, incomePublished, orders, start, cursors, income>>
  PROVE  IncomeInv'
<1>1. IncomeTyped'
  BY Sleeps DEF IncomeInv, IncomeTyped
<1>2. SettledInTime' /\ \A s \in IncomeSymbols : CursorHolds(s)'
  BY DEF IncomeInv, SettledInTime, CursorHolds
<1> QED BY <1>1, <1>2, Sleeps DEF IncomeInv, FetchHolds

\* Nothing of the ledger changes and the poll goes on to its next symbol.
LEMMA PollGoesOn ==
  ASSUME IncomeInv, poll' \in Polls, poll'.at # "fetched", poll'.todo \subseteq poll.todo,
         UNCHANGED <<incomeTime, incomePublished, orders, start, cursors, income>>
  PROVE  IncomeInv'
<1>1. IncomeTyped'
  BY DEF IncomeInv, IncomeTyped
<1>2. SettledInTime' /\ \A s \in IncomeSymbols : CursorHolds(s)'
  BY DEF IncomeInv, SettledInTime, CursorHolds
<1> QED BY <1>1, <1>2 DEF IncomeInv, FetchHolds

\* Local order history found so far decides the starts (reconcile_order_history).
LEMMA ReconcileKeeps ==
  ASSUME IncomeInv, poll.at = "idle", Income!BeginPoll
  PROVE  IncomeInv'
<1>1. /\ IncomeTyped /\ SettledInTime /\ \A s \in IncomeSymbols : CursorHolds(s)
  BY DEF IncomeInv
<1>2. /\ UNCHANGED <<incomeTime, incomePublished, orders, income>>
  BY DEF Income!BeginPoll
<1>3. Income!AccountStart \in Nat
  <2> DEFINE times == {orders[s] : s \in IncomeSymbols} \ {0}
             first == CHOOSE t \in times : \A u \in times : t <= u
  <2>1. times \in SUBSET Nat
    BY <1>1 DEF IncomeTyped
  <2>2. CASE times = {}
    BY <1>1, <2>2 DEF Income!AccountStart, IncomeTyped
  <2>3. CASE times # {}
    <3>1. \E t \in times : \A u \in times : t <= u
      BY <2>1, <2>3, LeastNatural
    <3>2. first \in Nat
      BY <2>1, <3>1
    <3>3. Income!AccountStart = IF start = 0 THEN first ELSE Income!Earlier(start, first)
      BY <2>3 DEF Income!AccountStart
    <3> HIDE DEF first, Income!AccountStart
    <3> QED BY <1>1, <3>2, <3>3 DEF Income!Earlier, IncomeTyped
  <2> QED BY <2>2, <2>3
<1> HIDE DEF Income!AccountStart
<1>4. CASE UNCHANGED <<start, cursors>> /\ (poll' = Income!Asleep \/ UNCHANGED poll)
  <2>1. CASE poll' = Income!Asleep
    BY <1>2, <1>4, <2>1, PollEnds
  <2>2. CASE UNCHANGED poll
    BY <1>1, <1>2, <1>4, <2>2, PollGoesOn DEF IncomeTyped
  <2> QED BY <1>4, <2>1, <2>2
<1>5. CASE /\ start' = Income!AccountStart /\ UNCHANGED <<cursors, poll>>
  <2>1. IncomeTyped'
    BY <1>1, <1>2, <1>3, <1>5 DEF IncomeTyped
  <2>2. SettledInTime' /\ \A s \in IncomeSymbols : CursorHolds(s)'
    BY <1>1, <1>2, <1>5 DEF SettledInTime, CursorHolds
  <2> QED BY <1>2, <1>5, <2>1, <2>2 DEF IncomeInv, FetchHolds
<1>6. CASE /\ start' = Income!AccountStart /\ cursors' = Income!Reconciled
           /\ poll' = [Income!Asleep EXCEPT !.at = "symbols",
                                            !.todo = Income!Registered(Income!Reconciled)]
  <2>1. ASSUME NEW s \in IncomeSymbols
        PROVE  /\ Income!Reconciled[s] \in Cursors
               /\ \/ Income!Reconciled[s] = cursors[s]
                  \/ Income!Reconciled[s].through = 0
    <3>1. cursors[s] \in Cursors /\ orders[s] \in Nat
      BY <1>1 DEF IncomeTyped
    <3>2. Income!Later(Income!AccountStart, orders[s]) \in Nat
      BY <1>3, <3>1 DEF Income!Later
    <3>3. [start |-> Income!Later(Income!AccountStart, orders[s]), through |-> 0] \in Cursors
      BY <3>2 DEF Cursors
    <3> QED BY <3>1, <3>3 DEF Income!Reconciled, Income!Reopened, Income!None
  <2>2. DOMAIN Income!Reconciled = IncomeSymbols
        /\ Income!Reconciled = [s \in IncomeSymbols |-> Income!Reconciled[s]]
    BY DEF Income!Reconciled
  <2> HIDE DEF Income!Reconciled
  <2>3. cursors' \in [IncomeSymbols -> Cursors]
    BY <1>6, <2>1, <2>2
  <2>4. /\ poll' \in Polls /\ poll'.at = "symbols"
        /\ poll'.todo = Income!Registered(Income!Reconciled)
    BY <1>6, Sleeps DEF Polls, Income!Registered, Income!Asleep
  <2>5. IncomeTyped' /\ SettledInTime'
    BY <1>1, <1>2, <1>3, <1>6, <2>3, <2>4 DEF IncomeTyped, SettledInTime
  <2>6. ASSUME NEW s \in IncomeSymbols PROVE CursorHolds(s)'
    <3>1. CASE cursors'[s] = cursors[s]
      BY <1>1, <1>2, <3>1 DEF CursorHolds
    <3>2. CASE cursors'[s].through = 0
      <4>1. cursors'[s].start \in Nat
        BY <2>3 DEF Cursors
      <4>2. \A e \in Incomes : ~(e[2] >= cursors'[s].start /\ e[2] <= 0 - Replay)
        BY <4>1, IncomeFacts
      <4> QED BY <1>1, <1>2, <3>2, <4>1, <4>2 DEF CursorHolds, Whole, IncomeTyped
    <3> QED BY <1>6, <2>1, <3>1, <3>2
  <2>7. \A s \in poll'.todo : cursors'[s].start # 0
    BY <1>6, <2>4 DEF Income!Registered
  <2> QED BY <2>4, <2>5, <2>6, <2>7 DEF IncomeInv, FetchHolds
<1>7. \/ UNCHANGED <<start, cursors>> /\ (poll' = Income!Asleep \/ UNCHANGED poll)
      \/ start' = Income!AccountStart /\ UNCHANGED <<cursors, poll>>
      \/ /\ start' = Income!AccountStart /\ cursors' = Income!Reconciled
         /\ poll' = [Income!Asleep EXCEPT !.at = "symbols",
                                          !.todo = Income!Registered(Income!Reconciled)]
  BY DEF Income!BeginPoll, Income!Failed
<1> QED BY <1>4, <1>5, <1>6, <1>7

\* The rows of a window and what is there reach from the start of the symbol to the end
\* of the window: what the exchange may still publish is within its last replayed time,
\* and what precedes it is behind a cursor that was true (sync_window).
LEMMA WindowWhole ==
  ASSUME IncomeInv, NEW s \in IncomeSymbols, cursors[s].start # 0,
         NEW F \in Nat, NEW W \in Nat, F = Income!From(cursors[s]), W < incomeTime,
         NEW last \in Int, last <= W,
         last <= W - Replay \/ W < incomeTime - 2 * Replay,
         NEW there, {e \in incomePublished : e[1] = s /\ e[2] \in F..W} \subseteq there
  PROVE  Whole(s, cursors[s].start, last, income \union there)
<1> SUFFICES ASSUME NEW e \in Incomes, e[1] = s, e[2] >= cursors[s].start, e[2] <= last
             PROVE  e \in income \union there
  BY DEF Whole
<1>1. /\ IncomeTyped /\ SettledInTime /\ CursorHolds(s)
      /\ Replay \in Nat \ {0} /\ e[2] \in Nat \ {0}
  BY IncomeFacts DEF IncomeInv
<1>2. /\ incomeTime \in Nat /\ cursors[s].start \in Nat /\ cursors[s].through \in Nat
  BY <1>1 DEF IncomeTyped, Cursors
<1>3. CASE e[2] >= F
  <2>1. e \in incomePublished
    BY <1>1, <1>2 DEF SettledInTime
  <2>2. e[2] \in F..W
    BY <1>1, <1>3
  <2> QED BY <2>1, <2>2
<1>4. CASE e[2] < F
  <2>1. CASE cursors[s].through >= incomeTime - 2 * Replay
    <3>1. cursors[s].through # 0 /\ F = cursors[s].through - Replay
      BY <1>1, <1>2, <1>4, <2>1 DEF Income!From, Income!Later, Income!None
    <3>2. Whole(s, cursors[s].start, cursors[s].through - Replay, income)
      BY <1>1 DEF CursorHolds
    <3>3. e[2] <= cursors[s].through - Replay
      BY <1>1, <1>4, <3>1
    <3> QED BY <3>2, <3>3 DEF Whole
  <2>2. CASE ~(cursors[s].through >= incomeTime - 2 * Replay)
    <3>1. /\ cursors[s].through # 0 /\ F = cursors[s].through + 1
          /\ cursors[s].through < incomeTime - 2 * Replay
      BY <1>1, <1>2, <1>4, <2>2 DEF Income!From, Income!None
    <3>2. Whole(s, cursors[s].start, cursors[s].through, income)
      BY <1>1, <3>1 DEF CursorHolds
    <3>3. e[2] <= cursors[s].through
      BY <1>1, <1>2, <1>4, <3>1
    <3> QED BY <3>2, <3>3 DEF Whole
  <2> QED BY <2>1, <2>2
<1> QED BY <1>1, <1>3, <1>4

LEMMA FetchKeeps ==
  ASSUME IncomeInv, NEW s \in IncomeSymbols, Income!Fetch(s)
  PROVE  IncomeInv'
<1> DEFINE F == Income!From(cursors[s])
           W == Income!Earlier(F + Window - 1, incomeTime - 1)
           answer == {e \in incomePublished : e[1] = s /\ e[2] \in F..W}
<1>1. /\ IncomeTyped /\ SettledInTime /\ CursorHolds(s) /\ FetchHolds
      /\ {Replay, Window} \subseteq Nat \ {0} /\ s \in poll.todo /\ cursors[s].start # 0
      /\ UNCHANGED <<incomeTime, incomePublished, orders, start, cursors, income>>
      /\ poll.at = "symbols" /\ poll \in Polls
  BY IncomeFacts DEF IncomeInv, Income!Fetch, IncomeTyped
<1>2. /\ incomeTime \in Nat \ {0} /\ {cursors[s].start, cursors[s].through} \subseteq Nat
  BY <1>1 DEF IncomeTyped, Cursors
<1>3. F \in Nat /\ W \in Int
  BY <1>1, <1>2 DEF Income!From, Income!Later, Income!Earlier, Income!None
<1>4. W < incomeTime
  BY <1>1, <1>2, <1>3 DEF Income!Earlier
<1>5. /\ Income!SyncWindow(cursors[s])[1] = F /\ Income!SyncWindow(cursors[s])[2] = W
      /\ F = Income!From(cursors[s])
  BY DEF Income!SyncWindow
<1>6. \/ poll' = [poll EXCEPT !.todo = @ \ {s}]
      \/ poll' = [poll EXCEPT !.todo = @ \ {s}, !.failed = TRUE]
      \/ /\ ~(W < F)
         /\ poll' = [poll EXCEPT !.at = "fetched", !.symbol = s,
                        !.todo = @ \ {s}, !.through = W, !.rows = answer]
  <2> HIDE DEF F, W, Income!SyncWindow
  <2> QED BY <1>5 DEF Income!Fetch
<1> HIDE DEF F, W
<1>7. CASE poll' = [poll EXCEPT !.todo = @ \ {s}]
  <2>1. poll' \in Polls /\ poll'.at # "fetched" /\ poll'.todo \subseteq poll.todo
    BY <1>1, <1>7 DEF Polls
  <2> QED BY <1>1, <2>1, PollGoesOn
<1>8. CASE poll' = [poll EXCEPT !.todo = @ \ {s}, !.failed = TRUE]
  <2>1. poll' \in Polls /\ poll'.at # "fetched" /\ poll'.todo \subseteq poll.todo
    BY <1>1, <1>8 DEF Polls
  <2> QED BY <1>1, <2>1, PollGoesOn
<1>9. CASE /\ ~(W < F)
           /\ poll' = [poll EXCEPT !.at = "fetched", !.symbol = s,
                          !.todo = @ \ {s}, !.through = W, !.rows = answer]
  <2>1. W \in Nat /\ answer \in SUBSET Incomes
    BY <1>1, <1>3, <1>9 DEF IncomeTyped
  <2>2. poll' \in Polls
    <3> HIDE DEF answer
    <3> QED BY <1>1, <1>9, <2>1 DEF Polls
  <2>3. /\ poll'.todo \subseteq poll.todo /\ poll'.symbol = s /\ poll'.through = W
        /\ poll'.rows = answer
    <3> HIDE DEF answer
    <3> QED BY <1>1, <1>9 DEF Polls
  <2>4. IncomeTyped' /\ SettledInTime' /\ \A x \in IncomeSymbols : CursorHolds(x)'
    BY <1>1, <2>2 DEF IncomeInv, IncomeTyped, SettledInTime, CursorHolds
  <2>5. \A x \in poll'.todo : cursors'[x].start # 0
    BY <1>1, <2>3 DEF IncomeInv
  <2>6. Whole(s, cursors[s].start, W - Replay, income \union answer)
    <3>1. W - Replay \in Int /\ W - Replay <= W /\ W - Replay <= W - Replay
      BY <1>1, <1>3
    <3> HIDE DEF Income!From
    <3> QED BY <1>1, <1>3, <1>4, <1>5, <2>1, <3>1, WindowWhole
  <2>7. ASSUME W < incomeTime - 2 * Replay
        PROVE  Whole(s, cursors[s].start, W, income \union answer)
    <3>1. W \in Int /\ W <= W
      BY <1>3
    <3> HIDE DEF Income!From
    <3> QED BY <1>1, <1>3, <1>4, <1>5, <2>1, <2>7, <3>1, WindowWhole
  <2>8. FetchHolds'
    BY <1>1, <1>4, <2>3, <2>6, <2>7 DEF FetchHolds
  <2> QED BY <2>4, <2>5, <2>8 DEF IncomeInv
<1> QED BY <1>6, <1>7, <1>8, <1>9

\* The income and the cursor of a window are stored together (persist_chunk).
LEMMA PersistKeeps ==
  ASSUME IncomeInv, Income!Persist
  PROVE  IncomeInv'
<1> DEFINE s == poll.symbol
           last == Income!Later(cursors[s].through, poll.through)
<1>1. /\ IncomeTyped /\ SettledInTime /\ \A x \in IncomeSymbols : CursorHolds(x)
      /\ FetchHolds /\ poll.at = "fetched" /\ poll \in Polls
      /\ UNCHANGED <<incomeTime, incomePublished, orders, start>>
      /\ income' = income \union poll.rows
      /\ cursors' = [cursors EXCEPT ![poll.symbol].through = last]
      /\ poll' = [Income!Asleep EXCEPT !.at = "symbols", !.todo = poll.todo,
                                       !.failed = poll.failed]
  BY DEF IncomeInv, Income!Persist, IncomeTyped
<1>2. s \in IncomeSymbols /\ cursors[s] \in Cursors /\ poll.through \in Nat
  BY <1>1 DEF FetchHolds, IncomeTyped, Polls
<1>3. last \in Nat /\ (last = cursors[s].through \/ last = poll.through)
  BY <1>2 DEF Income!Later, Cursors
<1> HIDE DEF last
<1>4. /\ cursors' \in [IncomeSymbols -> Cursors]
      /\ \A x \in IncomeSymbols : cursors'[x].start = cursors[x].start
      /\ \A x \in IncomeSymbols : x # s => cursors'[x] = cursors[x]
      /\ cursors'[s].through = last
  BY <1>1, <1>2, <1>3 DEF Cursors, IncomeTyped
<1>5. poll' \in Polls /\ poll'.at = "symbols" /\ poll'.todo = poll.todo
  BY <1>1, Sleeps DEF Polls, Income!Asleep
<1>6. IncomeTyped' /\ SettledInTime'
  BY <1>1, <1>4, <1>5 DEF IncomeTyped, SettledInTime
<1>7. ASSUME NEW x \in IncomeSymbols PROVE CursorHolds(x)'
  <2>1. CASE x # s
    <3>1. cursors'[x] = cursors[x] /\ incomeTime' = incomeTime /\ income \subseteq income'
      BY <1>1, <1>4, <2>1
    <3> QED BY <1>1, <3>1 DEF CursorHolds, Whole
  <2>2. CASE x = s /\ last = cursors[s].through
    <3>1. /\ cursors'[x].start = cursors[x].start /\ cursors'[x].through = cursors[x].through
          /\ incomeTime' = incomeTime /\ income \subseteq income'
      BY <1>1, <1>2, <1>4, <2>2
    <3> QED BY <1>1, <3>1 DEF CursorHolds, Whole
  <2>3. CASE x = s /\ last = poll.through
    BY <1>1, <1>2, <1>4, <2>3 DEF CursorHolds, FetchHolds
  <2> QED BY <1>3, <2>1, <2>2, <2>3
<1>8. \A x \in poll'.todo : cursors'[x].start # 0
  <2>1. poll.todo \subseteq IncomeSymbols
    BY <1>1 DEF Polls
  <2>2. \A x \in poll.todo : cursors[x].start # 0
    BY DEF IncomeInv
  <2> QED BY <1>4, <1>5, <2>1, <2>2
<1> QED BY <1>5, <1>6, <1>7, <1>8 DEF IncomeInv, FetchHolds

LEMMA IncomeStep == IncomeInv /\ Income!FundingNext => IncomeInv'
<1> SUFFICES ASSUME IncomeInv, Income!FundingNext PROVE IncomeInv'
  OBVIOUS
<1>1. /\ IncomeTyped /\ SettledInTime /\ \A s \in IncomeSymbols : CursorHolds(s)
      /\ FetchHolds /\ poll \in Polls /\ {Replay, Window} \subseteq Nat \ {0}
      /\ \A s \in poll.todo : cursors[s].start # 0
  BY IncomeFacts DEF IncomeInv, IncomeTyped
<1>2. CASE \E enabled, tested \in BOOLEAN : Income!SaveSettings(enabled, tested)
  BY <1>2, PollEnds DEF Income!SaveSettings
<1>3. CASE \E a \in Addresses : Income!Restart(a)
  BY <1>3, PollEnds DEF Income!Restart
<1>4. CASE Income!BeginPoll
  BY <1>4, ReconcileKeeps DEF Income!BeginPoll
<1>5. CASE Income!Persist
  BY <1>5, PersistKeeps
<1>6. CASE Income!PersistFails
  <2>1. /\ UNCHANGED <<incomeTime, incomePublished, orders, start, cursors, income>>
        /\ poll' = [Income!Asleep EXCEPT !.at = "symbols", !.todo = poll.todo,
                                         !.failed = TRUE]
    BY <1>6 DEF Income!PersistFails
  <2>2. poll' \in Polls /\ poll'.at # "fetched" /\ poll'.todo \subseteq poll.todo
    BY <1>1, <2>1 DEF Polls, Income!Asleep
  <2> QED BY <2>1, <2>2, PollGoesOn
<1>7. CASE Income!EndPoll
  BY <1>7, PollEnds DEF Income!EndPoll
<1>8. CASE Income!Tick
  <2>1. /\ incomeTime' = incomeTime + 1
        /\ UNCHANGED <<incomePublished, orders, start, cursors, income, poll>>
        /\ \A e \in Incomes \ incomePublished : incomeTime < e[2] + Replay
        /\ \A s \in IncomeSymbols :
             cursors[s].through # 0 => cursors[s].through # incomeTime - 2 * Replay
        /\ poll.at = "fetched" => poll.through # incomeTime - 2 * Replay
    BY <1>8 DEF Income!Tick, Income!Punctual, Income!None
  <2>2. IncomeTyped' /\ incomeTime \in Nat
    BY <1>1, <2>1 DEF IncomeTyped
  <2>3. SettledInTime'
    BY <1>1, <2>1, <2>2, IncomeFacts DEF SettledInTime
  <2>4. ASSUME NEW s \in IncomeSymbols PROVE CursorHolds(s)'
    <3>1. cursors[s].through \in Nat
      BY <1>1 DEF IncomeTyped, Cursors
    <3>2. /\ cursors[s].through < incomeTime'
          /\ cursors[s].through # 0 /\ cursors[s].through < incomeTime' - 2 * Replay =>
               cursors[s].through < incomeTime - 2 * Replay
      BY <1>1, <2>1, <2>2, <3>1 DEF CursorHolds
    <3> QED BY <1>1, <2>1, <3>2 DEF CursorHolds
  <2>5. FetchHolds'
    <3>1. poll.through \in Nat
      BY <1>1 DEF Polls
    <3>2. poll.at = "fetched" =>
            /\ poll.through < incomeTime'
            /\ poll.through < incomeTime' - 2 * Replay =>
                 poll.through < incomeTime - 2 * Replay
      <4>1. poll.at = "fetched" => poll.through < incomeTime
        BY <1>1 DEF FetchHolds
      <4>2. poll.at = "fetched" => poll.through # incomeTime - 2 * Replay
        BY <2>1
      <4>3. incomeTime' = incomeTime + 1 /\ incomeTime \in Nat /\ Replay \in Nat
        BY <1>1, <2>1, <2>2
      <4> QED BY <3>1, <4>1, <4>2, <4>3
    <3> QED BY <1>1, <2>1, <3>2 DEF FetchHolds
  <2> QED BY <1>1, <2>1, <2>2, <2>3, <2>4, <2>5 DEF IncomeInv
<1>9. ASSUME NEW s \in IncomeSymbols, Income!Fetch(s)
      PROVE  IncomeInv'
  BY <1>9, FetchKeeps
<1>10. ASSUME NEW s \in IncomeSymbols, Income!FetchFails(s)
       PROVE  IncomeInv'
  <2>1. /\ UNCHANGED <<incomeTime, incomePublished, orders, start, cursors, income>>
        /\ poll' = [poll EXCEPT !.todo = @ \ {s}, !.failed = TRUE] /\ poll.at = "symbols"
    BY <1>10 DEF Income!FetchFails
  <2>2. poll' \in Polls /\ poll'.at # "fetched" /\ poll'.todo \subseteq poll.todo
    BY <1>1, <2>1 DEF Polls
  <2> QED BY <2>1, <2>2, PollGoesOn
<1>11. ASSUME NEW e \in Incomes, Income!Publish(e)
       PROVE  IncomeInv'
  <2>1. /\ UNCHANGED <<incomeTime, orders, start, cursors, income, poll>>
        /\ incomePublished' = incomePublished \union {e}
    BY <1>11 DEF Income!Publish
  <2>2. IncomeTyped' /\ SettledInTime'
    BY <1>1, <2>1 DEF IncomeTyped, SettledInTime
  <2>3. \A s \in IncomeSymbols : CursorHolds(s)'
    BY <1>1, <2>1 DEF CursorHolds
  <2>4. FetchHolds'
    BY <1>1, <2>1 DEF FetchHolds
  <2> QED BY <1>1, <2>1, <2>2, <2>3, <2>4 DEF IncomeInv
<1>12. ASSUME NEW s \in IncomeSymbols, NEW t \in FirstOrders, Income!Discover(s, t)
       PROVE  IncomeInv'
  <2>1. /\ UNCHANGED <<incomeTime, incomePublished, start, cursors, income, poll>>
        /\ orders' = [orders EXCEPT ![s] = t]
    BY <1>12 DEF Income!Discover
  <2>2. IncomeTyped' /\ SettledInTime'
    BY <1>1, <2>1, IncomeFacts DEF IncomeTyped, SettledInTime
  <2>3. \A x \in IncomeSymbols : CursorHolds(x)'
    BY <1>1, <2>1 DEF CursorHolds
  <2>4. FetchHolds'
    BY <1>1, <2>1 DEF FetchHolds
  <2> QED BY <1>1, <2>1, <2>2, <2>3, <2>4 DEF IncomeInv
<1> QED BY <1>2, <1>3, <1>4, <1>5, <1>6, <1>7, <1>8, <1>9, <1>10, <1>11, <1>12
        DEF Income!FundingNext

LEMMA IncomeComplete == IncomeInv => Income!CursorIsComplete
<1> SUFFICES ASSUME IncomeInv, NEW e \in Incomes, cursors[e[1]].start # 0,
                    e[2] \in cursors[e[1]].start..(cursors[e[1]].through - Replay)
             PROVE  e \in income
  BY DEF Income!CursorIsComplete
<1>1. e[1] \in IncomeSymbols /\ e[2] \in Nat /\ Replay \in Nat
  BY IncomeFacts
<1>2. CursorHolds(e[1]) /\ cursors[e[1]] \in Cursors
  BY <1>1 DEF IncomeInv, IncomeTyped
<1>3. e[2] >= cursors[e[1]].start /\ e[2] <= cursors[e[1]].through - Replay
  BY <1>1, <1>2 DEF Cursors
<1> QED BY <1>1, <1>2, <1>3 DEF CursorHolds, Whole

-----------------------------------------------------------------------------
(***************************************************************************)
(* BFUSD rounds                                                             *)
(***************************************************************************)
Stages == {"account", "spot", "sweep", "quota", "out", "buy", "in"}
Configs == {Earn!Stored(s, p) : s \in EarnSettings \union {Earn!Default}, p \in BOOLEAN}
Rounds == [account : EarnAccounts, stage : Stages, ip : 1..Len(EarnIps), usdt : Nat,
           headroom : Int, amount : Nat, bfusd : Nat]
Purses == [futures : Nat, out : Nat, bought : Nat, futures_bfusd : Nat]

\* The largest amount a round may move.
Largest == CHOOSE c \in {s.cap : s \in EarnSettings} : \A s \in EarnSettings : s.cap <= c

\* What is away of an account, and what the operator's resumes account for.
Away(a) == wallet[a].out + wallet[a].bought
Resumed(a) == resumes[a] * Largest

EarnTyped ==
  /\ earnMemory \in [EarnAccounts -> Configs] /\ earnDisk \in [EarnAccounts -> Configs]
  /\ wallet \in [EarnAccounts -> Purses] /\ resumes \in [EarnAccounts -> Nat]
  /\ turn \in [EarnAccounts -> 1..Len(EarnIps)]
  /\ round \in Rounds \union {Earn!Idle}

\* An account that may start a round, now or after a restart, has no round out that its
\* resumes do not account for.
AwayBounded(a) ==
  /\ Away(a) <= Resumed(a) + Largest
  /\ ~(earnMemory[a].paused /\ earnDisk[a].paused) => Away(a) <= Resumed(a)

\* Before it moves anything out a round is paused, in memory and on disk.  What it moves
\* out is one round's, and all of it is where the next request takes it from.
RoundHolds(r) ==
  /\ r.stage \notin {"buy", "in"} => Away(r.account) <= Resumed(r.account)
  /\ r.stage \in {"out", "buy", "in"} =>
       earnMemory[r.account].paused /\ earnDisk[r.account].paused
  /\ r.stage \in {"spot", "sweep", "quota", "out"} => r.usdt <= wallet[r.account].futures
  /\ r.stage = "sweep" => r.bfusd <= wallet[r.account].bought
  /\ r.stage \in {"out", "buy"} => r.amount >= 1 /\ r.amount <= Largest
  /\ r.stage = "out" => r.amount <= r.usdt
  /\ r.stage = "buy" => /\ r.amount <= wallet[r.account].out
                        /\ Away(r.account) <= Resumed(r.account) + r.amount
  /\ r.stage = "in" => /\ r.bfusd <= wallet[r.account].bought
                       /\ Away(r.account) <= Resumed(r.account) + r.bfusd

EarnInv ==
  /\ EarnTyped
  /\ \A a \in EarnAccounts : AwayBounded(a)
  /\ round # Earn!Idle => RoundHolds(round)

LEMMA LargestCap ==
  /\ Largest \in Nat \ {0}
  /\ \A s \in EarnSettings : s.cap <= Largest
<1> DEFINE caps == {s.cap : s \in EarnSettings}
           cap == [s \in EarnSettings |-> s.cap]
<1>1. caps \subseteq Nat \ {0} /\ caps # {}
  BY EarnAssumption
<1>2. cap \in Surjection(EarnSettings, caps)
  BY DEF Surjection
<1>3. IsFiniteSet(caps)
  BY <1>2, EarnAssumption, FS_Surjection
<1>4. \E c \in caps : \A n \in caps : n <= c
  BY <1>1, <1>3, GreatestNatural
<1>5. \E c \in caps : \A s \in EarnSettings : s.cap <= c
  BY <1>4
<1>6. Largest \in caps /\ \A s \in EarnSettings : s.cap <= Largest
  BY <1>5 DEF Largest
<1> QED BY <1>1, <1>6

LEMMA RecordFacts ==
  ASSUME NEW c \in Configs
  PROVE  /\ c.cap \in Nat /\ c.cap <= Largest /\ c.reserve \in Nat /\ c.trigger \in Nat
         /\ c.paused \in BOOLEAN
         /\ \A p \in BOOLEAN : /\ [c EXCEPT !.paused = p] \in Configs
                               /\ [c EXCEPT !.paused = p].paused = p
<1>1. PICK s \in EarnSettings \union {Earn!Default}, q \in BOOLEAN : c = Earn!Stored(s, q)
  BY DEF Configs
<1>2. s.cap \in Nat /\ s.cap <= Largest /\ s.reserve \in Nat /\ s.trigger \in Nat
  BY LargestCap, EarnAssumption DEF Earn!Default
<1>3. ASSUME NEW p \in BOOLEAN
      PROVE  /\ [c EXCEPT !.paused = p] \in Configs /\ [c EXCEPT !.paused = p].paused = p
  <2>1. [c EXCEPT !.paused = p] = Earn!Stored(s, p)
    BY <1>1 DEF Earn!Stored
  <2> QED BY <2>1 DEF Configs, Earn!Stored
<1> QED BY <1>1, <1>2, <1>3 DEF Earn!Stored

LEMMA ResumedTyped ==
  ASSUME EarnTyped, NEW a \in EarnAccounts
  PROVE  /\ Resumed(a) \in Nat /\ Away(a) \in Nat /\ wallet[a] \in Purses
         /\ {wallet[a].futures, wallet[a].out, wallet[a].bought,
             wallet[a].futures_bfusd} \subseteq Nat
BY LargestCap DEF EarnTyped, Resumed, Away, Purses

LEMMA EarnStart == Earn!EarnInit => EarnInv
<1> SUFFICES ASSUME Earn!EarnInit PROVE EarnInv
  OBVIOUS
<1>1. Earn!Stored(Earn!Default, FALSE) \in Configs
  <2>1. \A s \in EarnSettings \union {Earn!Default}, p \in BOOLEAN :
          Earn!Stored(s, p) \in Configs
    BY DEF Configs
  <2> HIDE DEF Configs
  <2> QED BY <2>1
<1>2. /\ earnDisk = [a \in EarnAccounts |-> Earn!Stored(Earn!Default, FALSE)]
      /\ earnMemory = earnDisk /\ round = Earn!Idle
      /\ wallet = [a \in EarnAccounts |-> [futures |-> EarnFunds, out |-> 0, bought |-> 0,
                                         futures_bfusd |-> 0]]
      /\ turn = [a \in EarnAccounts |-> 1] /\ resumes = [a \in EarnAccounts |-> 0]
  BY DEF Earn!EarnInit
<1> HIDE DEF Earn!EarnInit
<1>3. earnDisk \in [EarnAccounts -> Configs] /\ earnMemory \in [EarnAccounts -> Configs]
  <2> HIDE DEF Configs
  <2> QED BY <1>1, <1>2
<1>4. wallet \in [EarnAccounts -> Purses] /\ turn \in [EarnAccounts -> 1..Len(EarnIps)]
  BY <1>2, EarnAssumption DEF Purses
<1>5. EarnTyped
  BY <1>2, <1>3, <1>4 DEF EarnTyped
<1>6. \A a \in EarnAccounts : Away(a) = 0 /\ Resumed(a) = 0
  BY <1>2, LargestCap DEF Away, Resumed
<1>7. \A a \in EarnAccounts : AwayBounded(a)
  BY <1>6, LargestCap DEF AwayBounded
<1> QED BY <1>2, <1>5, <1>7 DEF EarnInv

\* A setting is stored in the file before memory has it: whichever of the two still has
\* the old one, an account is not without its pause unless it was, or the new one is.
LEMMA PersistKeepsPauses ==
  ASSUME EarnTyped, NEW a \in EarnAccounts, NEW c \in Configs, NEW outcome \in Earn!Outcomes,
         Earn!Persist([earnMemory EXCEPT ![a] = c], outcome)
  PROVE  /\ earnMemory' \in [EarnAccounts -> Configs]
         /\ earnDisk' \in [EarnAccounts -> Configs]
         /\ \A x \in EarnAccounts :
              ~(earnMemory'[x].paused /\ earnDisk'[x].paused) =>
                \/ ~(earnMemory[x].paused /\ earnDisk[x].paused)
                \/ x = a /\ ~c.paused
         /\ outcome = "written" => earnMemory'[a] = c /\ earnDisk'[a] = c
<1> DEFINE new == [earnMemory EXCEPT ![a] = c]
<1>1. /\ new \in [EarnAccounts -> Configs] /\ new[a] = c
      /\ \A x \in EarnAccounts : x # a => new[x] = earnMemory[x]
  BY DEF EarnTyped
<1>2. /\ earnDisk' = IF outcome = "refused" THEN earnDisk ELSE new
      /\ earnMemory' = IF outcome = "written" THEN new ELSE earnMemory
  BY DEF Earn!Persist
<1> HIDE DEF new
<1> QED BY <1>1, <1>2 DEF EarnTyped

\* A round that ends, for whatever reason, leaves the accounts bounded.
LEMMA RoundEnds ==
  ASSUME EarnInv, round' = Earn!Idle, UNCHANGED <<earnMemory, earnDisk, wallet, resumes, turn>>
  PROVE  EarnInv'
<1>1. EarnTyped'
  BY DEF EarnInv, EarnTyped
<1> QED BY <1>1 DEF EarnInv, AwayBounded, Away, Resumed

\* A round that asks its next question has moved nothing.
LEMMA RoundAsks ==
  ASSUME EarnInv, NEW r \in Rounds, round' = r, RoundHolds(r),
         UNCHANGED <<earnMemory, earnDisk, wallet, resumes, turn>>
  PROVE  EarnInv'
<1>1. EarnTyped'
  BY DEF EarnInv, EarnTyped
<1>2. RoundHolds(round)'
  BY DEF RoundHolds, Away, Resumed
<1> QED BY <1>1, <1>2 DEF EarnInv, AwayBounded, Away, Resumed

\* What the steps of a round have in common: the account it is about.
LEMMA RoundFacts ==
  ASSUME EarnInv, round # Earn!Idle
  PROVE  /\ round \in Rounds /\ RoundHolds(round) /\ round.account \in EarnAccounts
         /\ {round.usdt, round.amount, round.bfusd} \subseteq Nat /\ round.headroom \in Int
         /\ earnMemory[round.account] \in Configs /\ wallet[round.account] \in Purses
         /\ EarnTyped /\ \A x \in EarnAccounts : AwayBounded(x)
BY DEF EarnInv, EarnTyped, Rounds

LEMMA FailKeeps ==
  ASSUME EarnInv, NEW asked, NEW charged, Earn!Fails(asked, charged)
  PROVE  EarnInv'
BY RoundEnds DEF Earn!Fails, Earn!Settled

LEMMA EndKeeps ==
  ASSUME EarnInv, NEW budgets, Earn!Ends(budgets)
  PROVE  EarnInv'
BY RoundEnds DEF Earn!Ends, Earn!Settled

\* The pause is written before the round goes on; without it, the round ends.
LEMMA BeginKeeps ==
  ASSUME EarnInv, round # Earn!Idle, NEW next \in Rounds,
         next.account = round.account, next.stage \in {"sweep", "out"},
         next.usdt <= wallet[round.account].futures,
         next.stage = "sweep" => next.bfusd <= wallet[round.account].bought,
         next.stage = "out" => /\ next.amount >= 1 /\ next.amount <= Largest
                               /\ next.amount <= next.usdt,
         Away(round.account) <= Resumed(round.account),
         \/ \E budgets : Earn!Ends(budgets)
         \/ /\ \E outcome \in Earn!Outcomes :
                 /\ Earn!Persist(Earn!Paused(TRUE), outcome)
                 /\ round' = IF outcome = "written" THEN next ELSE Earn!Idle
            /\ UNCHANGED <<wallet, resumes, turn>>
  PROVE  EarnInv'
<1>1. CASE \E b : Earn!Ends(b)
  BY <1>1, EndKeeps
<1>2. CASE \E outcome \in Earn!Outcomes :
             /\ Earn!Persist(Earn!Paused(TRUE), outcome)
             /\ round' = IF outcome = "written" THEN next ELSE Earn!Idle
             /\ UNCHANGED <<wallet, resumes, turn>>
  <2>0. PICK a \in EarnAccounts : a = round.account
    BY RoundFacts
  <2>1. PICK outcome \in Earn!Outcomes :
             /\ Earn!Persist(Earn!Paused(TRUE), outcome)
             /\ round' = IF outcome = "written" THEN next ELSE Earn!Idle
             /\ UNCHANGED <<wallet, resumes, turn>>
    BY <1>2
  <2>2. /\ EarnTyped /\ earnMemory[a] \in Configs
        /\ \A x \in EarnAccounts : AwayBounded(x)
    BY <2>0, RoundFacts
  <2>3. PICK c \in Configs : c = [earnMemory[a] EXCEPT !.paused = TRUE] /\ c.paused
    <3>1. \E d \in Configs : d = earnMemory[a]
      BY <2>2
    <3> QED BY <3>1, RecordFacts
  <2>4. Earn!Paused(TRUE) = [earnMemory EXCEPT ![a] = c]
    BY <2>0, <2>3 DEF Earn!Paused
  <2>9. Earn!Persist([earnMemory EXCEPT ![a] = c], outcome)
    BY <2>1, <2>4 DEF Earn!Persist
  <2>5. /\ earnMemory' \in [EarnAccounts -> Configs]
        /\ earnDisk' \in [EarnAccounts -> Configs]
        /\ \A x \in EarnAccounts :
             ~(earnMemory'[x].paused /\ earnDisk'[x].paused) =>
               ~(earnMemory[x].paused /\ earnDisk[x].paused)
        /\ outcome = "written" => earnMemory'[a].paused /\ earnDisk'[a].paused
    <3>1. /\ earnMemory' \in [EarnAccounts -> Configs]
          /\ earnDisk' \in [EarnAccounts -> Configs]
          /\ \A x \in EarnAccounts :
               ~(earnMemory'[x].paused /\ earnDisk'[x].paused) =>
                 \/ ~(earnMemory[x].paused /\ earnDisk[x].paused)
                 \/ x = a /\ ~c.paused
          /\ outcome = "written" => earnMemory'[a] = c /\ earnDisk'[a] = c
      BY <2>2, <2>9, PersistKeepsPauses
    <3> QED BY <2>3, <3>1
  <2>6. EarnTyped'
    BY <2>1, <2>2, <2>5 DEF EarnTyped
  <2>7. \A x \in EarnAccounts : AwayBounded(x)'
    BY <2>1, <2>2, <2>5 DEF AwayBounded, Away, Resumed
  <2>8. ASSUME round' # Earn!Idle PROVE RoundHolds(round)'
    <3>1. outcome = "written" /\ round' = next
      BY <2>1, <2>8
    <3>2. next.account = a /\ earnMemory'[a].paused /\ earnDisk'[a].paused
      BY <2>0, <2>5, <3>1
    <3>3. /\ Away(a)' <= Resumed(a)' /\ wallet' = wallet
      BY <2>0, <2>1 DEF Away, Resumed
    <3> QED BY <2>0, <3>1, <3>2, <3>3 DEF RoundHolds
  <2> QED BY <2>6, <2>7, <2>8 DEF EarnInv
<1> QED BY <1>1, <1>2

\* A transfer back takes from what is away; the pause is lifted only where no more than
\* the resumes account for is away then.
LEMMA BringBackKeeps ==
  ASSUME EarnInv, round # Earn!Idle, NEW lifts \in BOOLEAN,
         round.bfusd <= wallet[round.account].bought,
         lifts => Away(round.account) <= Resumed(round.account) + round.bfusd,
         NEW next \in Rounds \union {Earn!Idle},
         next # Earn!Idle => /\ next.account = round.account /\ next.stage = "quota"
                             /\ next.usdt <= wallet[round.account].futures,
         Earn!BringsBack(lifts, next)
  PROVE  EarnInv'
<1>0. PICK a \in EarnAccounts, n \in Nat : a = round.account /\ n = round.bfusd
  BY RoundFacts
<1>1. /\ EarnTyped /\ earnMemory[a] \in Configs /\ n <= wallet[a].bought
      /\ \A x \in EarnAccounts : AwayBounded(x)
      /\ lifts => Away(a) <= Resumed(a) + n
  BY <1>0, RoundFacts
<1>2. \A x \in EarnAccounts :
        /\ Resumed(x) \in Nat /\ Away(x) \in Nat
        /\ {wallet[x].futures, wallet[x].out, wallet[x].bought,
            wallet[x].futures_bfusd} \subseteq Nat
  BY <1>1, ResumedTyped
<1>3. CASE Earn!Fails("transfer", TRUE)
  BY <1>3, FailKeeps
<1>4. CASE /\ wallet' = Earn!Moved("bought", "futures_bfusd", n)
           /\ UNCHANGED <<resumes, turn>>
           /\ \/ UNCHANGED <<earnDisk, earnMemory>> /\ round' = Earn!Idle
              \/ /\ lifts
                 /\ \E outcome \in Earn!Outcomes :
                      /\ Earn!Persist(Earn!Paused(FALSE), outcome)
                      /\ round' = IF outcome = "written" THEN next ELSE Earn!Idle
  <2>1. wallet' = [wallet EXCEPT ![a] =
          [wallet[a] EXCEPT !["bought"] = @ - n, !["futures_bfusd"] = @ + n]]
    BY <1>0, <1>4 DEF Earn!Moved
  <2>2. /\ wallet' \in [EarnAccounts -> Purses] /\ wallet'[a].out = wallet[a].out
        /\ wallet'[a].bought = wallet[a].bought - n
        /\ wallet'[a].futures = wallet[a].futures
        /\ \A x \in EarnAccounts : x # a => wallet'[x] = wallet[x]
    <3> DEFINE p == [wallet[a] EXCEPT !["bought"] = @ - n, !["futures_bfusd"] = @ + n]
    <3>1. /\ wallet \in [EarnAccounts -> Purses] /\ wallet[a] \in Purses
          /\ wallet[a].bought \in Nat /\ wallet[a].futures_bfusd \in Nat
      BY <1>1, <1>2 DEF EarnTyped
    <3>2. wallet[a].bought - n \in Nat /\ wallet[a].futures_bfusd + n \in Nat
      BY <1>1, <3>1
    <3>3. /\ p \in Purses /\ p.out = wallet[a].out /\ p.futures = wallet[a].futures
          /\ p.bought = wallet[a].bought - n
      BY <3>1, <3>2 DEF Purses
    <3>4. wallet' = [wallet EXCEPT ![a] = p]
      BY <2>1
    <3> HIDE DEF p
    <3> QED BY <3>1, <3>3, <3>4
  <2>3. /\ Away(a)' = Away(a) - n
        /\ \A x \in EarnAccounts : x # a => Away(x)' = Away(x)
        /\ \A x \in EarnAccounts : Resumed(x)' = Resumed(x)
    <3>1. Away(a)' = Away(a) - n
      <4>1. {wallet[a].out, wallet[a].bought} \subseteq Nat /\ n \in Nat
        BY <1>2
      <4> QED BY <2>2, <4>1 DEF Away
    <3>2. \A x \in EarnAccounts : x # a => Away(x)' = Away(x)
      BY <2>2 DEF Away
    <3>3. \A x \in EarnAccounts : Resumed(x)' = Resumed(x)
      BY <1>4 DEF Resumed
    <3> QED BY <3>1, <3>2, <3>3
  <2>4. \A x \in EarnAccounts : Away(x)' <= Away(x)
    BY <1>1, <1>2, <2>3
  <2>5. CASE UNCHANGED <<earnDisk, earnMemory>> /\ round' = Earn!Idle
    <3>1. EarnTyped'
      BY <1>1, <1>4, <2>2, <2>5 DEF EarnTyped
    <3>2. ASSUME NEW x \in EarnAccounts PROVE AwayBounded(x)'
      <4>1. Away(x)' <= Away(x) /\ Resumed(x)' = Resumed(x) /\ AwayBounded(x)
        BY <1>1, <2>3, <2>4
      <4>2. Away(x) \in Nat /\ Resumed(x) \in Nat /\ Away(x)' \in Int /\ Largest \in Nat
        BY <1>1, <1>2, <2>3, LargestCap
      <4> QED BY <2>5, <4>1, <4>2 DEF AwayBounded
    <3> QED BY <2>5, <3>1, <3>2 DEF EarnInv
  <2>6. CASE /\ lifts
             /\ \E outcome \in Earn!Outcomes :
                  /\ Earn!Persist(Earn!Paused(FALSE), outcome)
                  /\ round' = IF outcome = "written" THEN next ELSE Earn!Idle
    <3>1. PICK outcome \in Earn!Outcomes :
            /\ Earn!Persist(Earn!Paused(FALSE), outcome)
            /\ round' = IF outcome = "written" THEN next ELSE Earn!Idle
      BY <2>6
    <3>2. PICK c \in Configs : c = [earnMemory[a] EXCEPT !.paused = FALSE]
      <4>1. \E d \in Configs : d = earnMemory[a]
        BY <1>1
      <4> QED BY <4>1, RecordFacts
    <3>3. Earn!Paused(FALSE) = [earnMemory EXCEPT ![a] = c]
      BY <1>0, <3>2 DEF Earn!Paused
    <3>9. Earn!Persist([earnMemory EXCEPT ![a] = c], outcome)
      BY <3>1, <3>3 DEF Earn!Persist
    <3>4. /\ earnMemory' \in [EarnAccounts -> Configs]
          /\ earnDisk' \in [EarnAccounts -> Configs]
          /\ \A x \in EarnAccounts :
               ~(earnMemory'[x].paused /\ earnDisk'[x].paused) =>
                 \/ ~(earnMemory[x].paused /\ earnDisk[x].paused)
                 \/ x = a
      <4>1. /\ earnMemory' \in [EarnAccounts -> Configs]
            /\ earnDisk' \in [EarnAccounts -> Configs]
            /\ \A x \in EarnAccounts :
                 ~(earnMemory'[x].paused /\ earnDisk'[x].paused) =>
                   \/ ~(earnMemory[x].paused /\ earnDisk[x].paused)
                   \/ x = a /\ ~c.paused
        BY <1>1, <3>9, PersistKeepsPauses
      <4> QED BY <4>1
    <3>5. EarnTyped'
      BY <1>1, <1>4, <2>2, <3>1, <3>4 DEF EarnTyped
    <3>6. Away(a)' <= Resumed(a)'
      <4>1. Away(a) <= Resumed(a) + n /\ Away(a) \in Nat /\ Resumed(a) \in Nat
        BY <1>1, <1>2, <2>6
      <4>2. Away(a)' = Away(a) - n /\ Resumed(a)' = Resumed(a)
        BY <2>3
      <4> QED BY <4>1, <4>2
    <3>7. ASSUME NEW x \in EarnAccounts PROVE AwayBounded(x)'
      <4>1. Away(x)' <= Away(x) /\ Resumed(x)' = Resumed(x) /\ AwayBounded(x)
        BY <1>1, <2>3, <2>4
      <4>2. Away(x) \in Nat /\ Resumed(x) \in Nat /\ Away(x)' \in Int /\ Largest \in Nat
        BY <1>1, <1>2, <2>3, LargestCap
      <4>3. CASE x = a
        BY <3>6, <4>1, <4>2, <4>3 DEF AwayBounded
      <4>4. CASE x # a
        BY <3>4, <4>1, <4>2, <4>4 DEF AwayBounded
      <4> QED BY <4>3, <4>4
    <3>8. ASSUME round' # Earn!Idle PROVE RoundHolds(round)'
      <4>1. round' = next /\ next # Earn!Idle
        BY <3>1, <3>8
      <4>2. /\ next.account = a /\ next.stage = "quota"
            /\ next.usdt <= wallet'[a].futures
        BY <1>0, <2>2, <4>1
      <4> QED BY <3>6, <4>1, <4>2 DEF RoundHolds
    <3> QED BY <3>5, <3>7, <3>8 DEF EarnInv
  <2> QED BY <1>4, <2>5, <2>6
<1>5. \/ Earn!Fails("transfer", TRUE)
      \/ /\ wallet' = Earn!Moved("bought", "futures_bfusd", n)
         /\ UNCHANGED <<resumes, turn>>
         /\ \/ UNCHANGED <<earnDisk, earnMemory>> /\ round' = Earn!Idle
            \/ /\ lifts
               /\ \E outcome \in Earn!Outcomes :
                    /\ Earn!Persist(Earn!Paused(FALSE), outcome)
                    /\ round' = IF outcome = "written" THEN next ELSE Earn!Idle
  BY <1>0 DEF Earn!BringsBack, Earn!Settled
<1> QED BY <1>3, <1>4, <1>5

LEMMA LeastOfFive ==
  ASSUME NEW a \in Int, NEW b \in Int, NEW c \in Int, NEW d \in Int, NEW e \in Int
  PROVE  \E n \in {a, b, c, d, e} : \A m \in {a, b, c, d, e} : n <= m
<1> DEFINE two(x, y) == IF x <= y THEN x ELSE y
           least == two(a, two(b, two(c, two(d, e))))
<1>1. least \in Int /\ least \in {a, b, c, d, e}
  OBVIOUS
<1>2. least <= a /\ least <= b /\ least <= c /\ least <= d /\ least <= e
  OBVIOUS
<1> HIDE DEF least
<1> QED BY <1>1, <1>2

\* A round moves no more than it saw in the futures wallet, and no more than its cap.
LEMMA AmountBounded ==
  ASSUME EarnInv, round # Earn!Idle, NEW quota \in Nat
  PROVE  /\ Earn!Amount(quota) \in Int /\ Earn!Amount(quota) <= round.usdt
         /\ Earn!Amount(quota) <= Largest
<1>1. /\ round.usdt \in Nat /\ round.headroom \in Int
      /\ earnMemory[round.account] \in Configs
  BY RoundFacts
<1>2. PICK c \in Configs : c = earnMemory[round.account]
  BY <1>1
<1>3. c.reserve \in Nat /\ c.cap \in Nat /\ c.cap <= Largest
  BY RecordFacts
<1>4. Earn!Excess(c.reserve) \in Int
  BY <1>1, <1>3 DEF Earn!Excess
<1> DEFINE amounts == {Earn!Excess(c.reserve), round.usdt, round.headroom, quota, c.cap}
<1>5. Earn!Amount(quota) = CHOOSE n \in amounts : \A m \in amounts : n <= m
  BY <1>2 DEF Earn!Amount
<1>6. \E n \in amounts : \A m \in amounts : n <= m
  <2> HIDE DEF Earn!Excess
  <2>1. \E x1, x2, x3 \in Int : /\ x1 = Earn!Excess(c.reserve) /\ x2 = round.usdt
                                /\ x3 = round.headroom
    BY <1>1, <1>4
  <2> QED BY <1>3, <2>1, LeastOfFive
<1>7. Earn!Amount(quota) \in amounts /\ \A m \in amounts : Earn!Amount(quota) <= m
  <2> HIDE DEF amounts
  <2> QED BY <1>5, <1>6
<1> HIDE DEF Earn!Amount, Earn!Excess
<1>8. Earn!Amount(quota) \in Int /\ Earn!Amount(quota) <= round.usdt
      /\ Earn!Amount(quota) <= c.cap
  BY <1>1, <1>3, <1>4, <1>7
<1> QED BY <1>3, <1>8, LargestCap

LEMMA SaveKeeps ==
  ASSUME EarnInv, NEW a \in EarnAccounts, NEW s \in EarnSettings,
         NEW outcome \in Earn!Outcomes, Earn!Save(a, s, outcome)
  PROVE  EarnInv'
<1>1. /\ EarnTyped /\ \A x \in EarnAccounts : AwayBounded(x)
      /\ earnMemory[a] \in Configs /\ round = Earn!Idle
      /\ UNCHANGED <<round, wallet, turn, resumes>>
  BY DEF EarnInv, EarnTyped, Earn!Save
<1>2. earnMemory[a].paused \in BOOLEAN
  BY <1>1, RecordFacts
<1>3. PICK c \in Configs : /\ c = Earn!Saved(a, s)
                           /\ c.paused <=> earnMemory[a].paused
  <2>1. Earn!Saved(a, s) \in Configs
    BY <1>2 DEF Earn!Saved, Configs
  <2>2. Earn!Saved(a, s).paused = earnMemory[a].paused
    BY DEF Earn!Saved, Earn!Stored
  <2> QED BY <2>1, <2>2
<1>4. Earn!Persist([earnMemory EXCEPT ![a] = c], outcome)
  BY <1>3 DEF Earn!Save, Earn!Persist
<1>5. /\ earnMemory' \in [EarnAccounts -> Configs]
      /\ earnDisk' \in [EarnAccounts -> Configs]
      /\ \A x \in EarnAccounts :
           ~(earnMemory'[x].paused /\ earnDisk'[x].paused) =>
             \/ ~(earnMemory[x].paused /\ earnDisk[x].paused)
             \/ x = a /\ ~c.paused
  BY <1>1, <1>4, PersistKeepsPauses
<1>6. EarnTyped'
  BY <1>1, <1>5 DEF EarnTyped
<1>7. \A x \in EarnAccounts : AwayBounded(x)'
  BY <1>1, <1>3, <1>5 DEF AwayBounded, Away, Resumed
<1> QED BY <1>1, <1>6, <1>7 DEF EarnInv

\* An operator who resumes an account allows one round more.
LEMMA ResumeKeeps ==
  ASSUME EarnInv, NEW a \in EarnAccounts, NEW outcome \in Earn!Outcomes,
         Earn!Resume(a, outcome)
  PROVE  EarnInv'
<1>1. /\ EarnTyped /\ \A x \in EarnAccounts : AwayBounded(x)
      /\ earnMemory[a] \in Configs /\ round = Earn!Idle
      /\ UNCHANGED <<round, wallet, turn>>
      /\ resumes' = [resumes EXCEPT ![a] = @ + 1]
  BY DEF EarnInv, EarnTyped, Earn!Resume
<1>2. PICK c \in Configs : c = [earnMemory[a] EXCEPT !.paused = FALSE]
  <2>1. \E d \in Configs : d = earnMemory[a]
    BY <1>1
  <2> QED BY <2>1, RecordFacts
<1>3. Earn!Persist([earnMemory EXCEPT ![a] = c], outcome)
  BY <1>2 DEF Earn!Resume, Earn!Persist
<1>4. /\ earnMemory' \in [EarnAccounts -> Configs]
      /\ earnDisk' \in [EarnAccounts -> Configs]
      /\ \A x \in EarnAccounts :
           ~(earnMemory'[x].paused /\ earnDisk'[x].paused) =>
             \/ ~(earnMemory[x].paused /\ earnDisk[x].paused)
             \/ x = a /\ ~c.paused
  BY <1>1, <1>3, PersistKeepsPauses
<1>5. EarnTyped'
  <2>1. resumes' \in [EarnAccounts -> Nat]
    BY <1>1 DEF EarnTyped
  <2> QED BY <1>1, <1>4, <2>1 DEF EarnTyped
<1>6. /\ Away(a)' = Away(a) /\ Resumed(a)' = Resumed(a) + Largest
      /\ \A x \in EarnAccounts : x # a => Away(x)' = Away(x) /\ Resumed(x)' = Resumed(x)
  <2>1. resumes'[a] = resumes[a] + 1 /\ resumes[a] \in Nat
    BY <1>1 DEF EarnTyped
  <2>2. (resumes[a] + 1) * Largest = resumes[a] * Largest + Largest
    BY <2>1, LargestCap
  <2> QED BY <1>1, <2>1, <2>2 DEF Away, Resumed, EarnTyped
<1>7. ASSUME NEW x \in EarnAccounts PROVE AwayBounded(x)'
  <2>1. Away(x) \in Nat /\ Resumed(x) \in Nat /\ Largest \in Nat
    BY <1>1, ResumedTyped, LargestCap
  <2>2. CASE x = a
    BY <1>1, <1>6, <2>1, <2>2 DEF AwayBounded
  <2>3. CASE x # a
    BY <1>1, <1>4, <1>6, <2>1, <2>3 DEF AwayBounded
  <2> QED BY <2>2, <2>3
<1> QED BY <1>1, <1>5, <1>7 DEF EarnInv

LEMMA StartKeeps ==
  ASSUME EarnInv, NEW a \in EarnAccounts, NEW manual \in BOOLEAN, Earn!Start(a, manual)
  PROVE  EarnInv'
<1>1. /\ EarnTyped /\ \A x \in EarnAccounts : AwayBounded(x)
      /\ round = Earn!Idle /\ ~earnMemory[a].paused
      /\ UNCHANGED <<earnMemory, earnDisk, wallet, resumes>>
  BY DEF EarnInv, Earn!Start
<1>2. CASE UNCHANGED <<turn, round>>
  BY <1>1, <1>2, RoundEnds
<1>3. CASE \E i \in Earn!Selected(a) :
             /\ turn' = [turn EXCEPT ![a] = (i % Len(EarnIps)) + 1]
             /\ round' = [account |-> a, stage |-> "account", ip |-> i,
                          usdt |-> 0, headroom |-> 0, amount |-> 0, bfusd |-> 0]
  <2>1. PICK i \in Earn!Selected(a) :
             /\ turn' = [turn EXCEPT ![a] = (i % Len(EarnIps)) + 1]
             /\ round' = [account |-> a, stage |-> "account", ip |-> i,
                          usdt |-> 0, headroom |-> 0, amount |-> 0, bfusd |-> 0]
    BY <1>3
  <2>2. Len(EarnIps) \in Nat \ {0} /\ turn[a] \in 1..Len(EarnIps)
    BY <1>1, EarnAssumption DEF EarnTyped
  <2>3. i \in 1..Len(EarnIps)
    <3>1. PICK k \in 0..Len(EarnIps) - 1 : i = Earn!InTurn(a, k)
      BY DEF Earn!Selected
    <3>2. turn[a] - 1 + k \in Int
      BY <2>2
    <3>3. (turn[a] - 1 + k) % Len(EarnIps) \in 0..Len(EarnIps) - 1
      BY <2>2, <3>2
    <3> QED BY <2>2, <3>1, <3>3 DEF Earn!InTurn
  <2>4. (i % Len(EarnIps)) + 1 \in 1..Len(EarnIps)
    <3>1. i % Len(EarnIps) \in 0..Len(EarnIps) - 1
      BY <2>2, <2>3
    <3> QED BY <2>2, <3>1
  <2>5. round' \in Rounds /\ round'.account = a /\ round'.stage = "account"
    BY <2>1, <2>3 DEF Rounds, Stages
  <2>6. turn' \in [EarnAccounts -> 1..Len(EarnIps)]
    BY <1>1, <2>1, <2>4 DEF EarnTyped
  <2>7. EarnTyped'
    BY <1>1, <2>5, <2>6 DEF EarnTyped
  <2>8. Away(a)' <= Resumed(a)'
    BY <1>1 DEF AwayBounded, Away, Resumed
  <2>9. RoundHolds(round)'
    BY <2>5, <2>8 DEF RoundHolds
  <2> QED BY <1>1, <2>7, <2>9 DEF EarnInv, AwayBounded, Away, Resumed
<1> QED BY <1>2, <1>3 DEF Earn!Start

LEMMA ReadAccountKeeps ==
  ASSUME EarnInv, Earn!ReadAccount
  PROVE  EarnInv'
<1>1. /\ round # Earn!Idle /\ round.stage = "account" /\ round \in Rounds
      /\ RoundHolds(round) /\ EarnTyped /\ wallet[round.account] \in Purses
      /\ Headrooms \subseteq Int
  BY RoundFacts, EarnAssumption DEF Earn!ReadAccount
<1>2. CASE Earn!Fails("account", FALSE)
  BY <1>2, FailKeeps
<1>3. CASE \E headroom \in Headrooms :
             /\ round' = [round EXCEPT !.stage = "spot", !.headroom = headroom,
                                       !.usdt = wallet[round.account].futures]
             /\ UNCHANGED <<earnMemory, earnDisk, wallet, resumes, turn>>
  <2>1. PICK headroom \in Headrooms :
             round' = [round EXCEPT !.stage = "spot", !.headroom = headroom,
                                    !.usdt = wallet[round.account].futures]
    BY <1>3
  <2>2. wallet[round.account].futures \in Nat /\ headroom \in Int
    BY <1>1 DEF Purses
  <2>3. /\ round' \in Rounds /\ round'.stage = "spot" /\ round'.account = round.account
        /\ round'.usdt = wallet[round.account].futures
    BY <1>1, <2>1, <2>2 DEF Rounds, Stages
  <2>4. PICK r \in Rounds : /\ r = round' /\ r.stage = "spot" /\ r.account = round.account
                            /\ r.usdt = wallet[round.account].futures
    BY <2>3
  <2>5. RoundHolds(r)
    BY <1>1, <2>2, <2>4 DEF RoundHolds
  <2> QED BY <1>3, <2>4, <2>5, RoundAsks
<1> QED BY <1>2, <1>3 DEF Earn!ReadAccount, Earn!Asks, Earn!Settled

LEMMA ReadSpotKeeps ==
  ASSUME EarnInv, Earn!ReadSpot
  PROVE  EarnInv'
<1>1. /\ round # Earn!Idle /\ round.stage = "spot" /\ round \in Rounds
      /\ RoundHolds(round) /\ EarnTyped /\ round.account \in EarnAccounts
  BY RoundFacts DEF Earn!ReadSpot
<1>2. /\ round.usdt <= wallet[round.account].futures
      /\ Away(round.account) <= Resumed(round.account)
      /\ wallet[round.account].bought \in Nat
  BY <1>1, ResumedTyped DEF RoundHolds, Purses
<1>3. CASE Earn!Fails("spot", FALSE)
  BY <1>3, FailKeeps
<1>4. CASE \E budgets : Earn!Ends(budgets)
  BY <1>4, EndKeeps
<1>5. CASE /\ round' = [round EXCEPT !.stage = "quota"]
           /\ UNCHANGED <<earnMemory, earnDisk, wallet, resumes, turn>>
  <2>1. PICK r \in Rounds : /\ r = round' /\ r.stage = "quota"
                            /\ r.account = round.account /\ r.usdt = round.usdt
    BY <1>1, <1>5 DEF Rounds, Stages
  <2>2. RoundHolds(r)
    BY <1>2, <2>1 DEF RoundHolds
  <2> QED BY <1>5, <2>1, <2>2, RoundAsks
<1>6. CASE \E budgets : Earn!Begins(budgets, <<"transfer">>,
             [round EXCEPT !.stage = "sweep", !.bfusd = wallet[round.account].bought])
  <2>1. PICK r \in Rounds :
          /\ r = [round EXCEPT !.stage = "sweep", !.bfusd = wallet[round.account].bought]
          /\ r.stage = "sweep" /\ r.account = round.account /\ r.usdt = round.usdt
          /\ r.bfusd = wallet[round.account].bought
    <3> DEFINE q == [round EXCEPT !.stage = "sweep", !.bfusd = wallet[round.account].bought]
    <3>1. /\ q \in Rounds /\ q.stage = "sweep" /\ q.account = round.account
          /\ q.usdt = round.usdt /\ q.bfusd = wallet[round.account].bought
      BY <1>1, <1>2 DEF Rounds, Stages
    <3> HIDE DEF q
    <3>2. \E r \in Rounds : r = q
      BY <3>1
    <3> QED BY <3>1, <3>2 DEF q
  <2>2. \/ \E budgets : Earn!Ends(budgets)
        \/ /\ \E outcome \in Earn!Outcomes :
                /\ Earn!Persist(Earn!Paused(TRUE), outcome)
                /\ round' = IF outcome = "written" THEN r ELSE Earn!Idle
           /\ UNCHANGED <<wallet, resumes, turn>>
    BY <1>6, <2>1 DEF Earn!Begins, Earn!Settled
  <2>3. /\ r.stage \in {"sweep", "out"} /\ r.usdt <= wallet[round.account].futures
        /\ r.bfusd <= wallet[round.account].bought /\ r.stage # "out"
    BY <1>2, <2>1
  <2> QED BY <1>1, <1>2, <2>1, <2>2, <2>3, BeginKeeps
<1> QED BY <1>3, <1>4, <1>5, <1>6 DEF Earn!ReadSpot, Earn!Asks, Earn!Settled

\* What the sweep and the last transfer of a round do with the pause.
LEMMA SweepKeeps ==
  ASSUME EarnInv, Earn!Sweep
  PROVE  EarnInv'
<1>1. /\ round # Earn!Idle /\ round.stage = "sweep" /\ round \in Rounds
      /\ RoundHolds(round) /\ EarnTyped /\ round.account \in EarnAccounts
      /\ round.bfusd \in Nat
  BY RoundFacts DEF Earn!Sweep
<1>2. /\ round.usdt <= wallet[round.account].futures
      /\ round.bfusd <= wallet[round.account].bought
      /\ Away(round.account) <= Resumed(round.account)
  BY <1>1 DEF RoundHolds
<1>3. Away(round.account) <= Resumed(round.account) + round.bfusd
  <2>1. PICK a \in EarnAccounts : a = round.account
    BY <1>1
  <2>2. Away(a) \in Nat /\ Resumed(a) \in Nat
    BY <1>1, ResumedTyped
  <2> QED BY <1>1, <1>2, <2>1, <2>2
<1>4. PICK next \in Rounds \union {Earn!Idle} :
        /\ next = (IF Earn!Worth THEN [round EXCEPT !.stage = "quota"] ELSE Earn!Idle)
        /\ next # Earn!Idle => /\ next.account = round.account /\ next.stage = "quota"
                               /\ next.usdt <= wallet[round.account].futures
  <2>1. CASE Earn!Worth
    <3>1. PICK r \in Rounds : /\ r = [round EXCEPT !.stage = "quota"] /\ r.stage = "quota"
                              /\ r.account = round.account /\ r.usdt = round.usdt
      <4> DEFINE q == [round EXCEPT !.stage = "quota"]
      <4>1. /\ q \in Rounds /\ q.stage = "quota" /\ q.account = round.account
            /\ q.usdt = round.usdt
        BY <1>1 DEF Rounds, Stages
      <4> HIDE DEF q
      <4>2. \E r \in Rounds : r = q
        BY <4>1
      <4> QED BY <4>1, <4>2 DEF q
    <3> QED BY <1>2, <2>1, <3>1
  <2>2. CASE ~Earn!Worth
    BY <2>2
  <2> QED BY <2>1, <2>2
<1>5. Earn!BringsBack(TRUE, next)
  BY <1>4 DEF Earn!Sweep, Earn!BringsBack
<1> QED BY <1>1, <1>2, <1>3, <1>4, <1>5, BringBackKeeps

LEMMA MoveInKeeps ==
  ASSUME EarnInv, Earn!MoveIn
  PROVE  EarnInv'
<1>1. /\ round # Earn!Idle /\ round.stage = "in" /\ RoundHolds(round)
  BY RoundFacts DEF Earn!MoveIn
<1>2. /\ round.bfusd <= wallet[round.account].bought
      /\ Away(round.account) <= Resumed(round.account) + round.bfusd
  BY <1>1 DEF RoundHolds
<1>3. PICK lifts \in BOOLEAN : lifts <=> round.bfusd = round.amount
  OBVIOUS
<1>4. Earn!BringsBack(lifts, Earn!Idle)
  BY <1>3 DEF Earn!MoveIn, Earn!BringsBack
<1>5. Earn!Idle \in Rounds \union {Earn!Idle}
  OBVIOUS
<1> QED BY <1>1, <1>2, <1>4, <1>5, BringBackKeeps

LEMMA ReadQuotaKeeps ==
  ASSUME EarnInv, Earn!ReadQuota
  PROVE  EarnInv'
<1>1. /\ round # Earn!Idle /\ round.stage = "quota" /\ round \in Rounds
      /\ RoundHolds(round) /\ EarnTyped /\ round.account \in EarnAccounts
      /\ Quotas \subseteq Nat
  BY RoundFacts, EarnAssumption DEF Earn!ReadQuota
<1>2. /\ round.usdt <= wallet[round.account].futures
      /\ Away(round.account) <= Resumed(round.account)
  BY <1>1 DEF RoundHolds
<1>3. CASE Earn!Fails("quota", FALSE)
  BY <1>3, FailKeeps
<1>4. CASE \E budgets : Earn!Ends(budgets)
  BY <1>4, EndKeeps
<1>5. CASE \E quota \in Quotas :
             /\ ~(Earn!Amount(quota) < 1)
             /\ \/ \E b : Earn!Ends(b)
                \/ /\ \E outcome \in Earn!Outcomes :
                        /\ Earn!Persist(Earn!Paused(TRUE), outcome)
                        /\ round' = IF outcome = "written"
                                    THEN [round EXCEPT !.stage = "out",
                                                       !.amount = Earn!Amount(quota)]
                                    ELSE Earn!Idle
                   /\ UNCHANGED <<wallet, resumes, turn>>
  <2>1. PICK quota \in Quotas :
             /\ ~(Earn!Amount(quota) < 1)
             /\ \/ \E b : Earn!Ends(b)
                \/ /\ \E outcome \in Earn!Outcomes :
                        /\ Earn!Persist(Earn!Paused(TRUE), outcome)
                        /\ round' = IF outcome = "written"
                                    THEN [round EXCEPT !.stage = "out",
                                                       !.amount = Earn!Amount(quota)]
                                    ELSE Earn!Idle
                   /\ UNCHANGED <<wallet, resumes, turn>>
    BY <1>5
  <2>2. /\ Earn!Amount(quota) \in Int /\ Earn!Amount(quota) <= round.usdt
        /\ Earn!Amount(quota) <= Largest
    BY <1>1, AmountBounded
  <2> HIDE DEF Earn!Amount
  <2>3. PICK r \in Rounds :
          /\ r = [round EXCEPT !.stage = "out", !.amount = Earn!Amount(quota)]
          /\ r.stage = "out" /\ r.account = round.account /\ r.usdt = round.usdt
          /\ r.amount = Earn!Amount(quota)
    <3> DEFINE q == [round EXCEPT !.stage = "out", !.amount = Earn!Amount(quota)]
    <3>1. Earn!Amount(quota) \in Nat
      BY <2>1, <2>2
    <3>2. /\ q \in Rounds /\ q.stage = "out" /\ q.account = round.account
          /\ q.usdt = round.usdt /\ q.amount = Earn!Amount(quota)
      BY <1>1, <3>1 DEF Rounds, Stages
    <3> HIDE DEF q
    <3>3. \E r \in Rounds : r = q
      BY <3>2
    <3> QED BY <3>2, <3>3 DEF q
  <2>4. \/ \E b : Earn!Ends(b)
        \/ /\ \E outcome \in Earn!Outcomes :
                /\ Earn!Persist(Earn!Paused(TRUE), outcome)
                /\ round' = IF outcome = "written" THEN r ELSE Earn!Idle
           /\ UNCHANGED <<wallet, resumes, turn>>
    BY <2>1, <2>3
  <2>5. r.amount >= 1 /\ r.amount <= Largest /\ r.amount <= r.usdt
    BY <2>1, <2>2, <2>3
  <2> QED BY <1>1, <1>2, <2>3, <2>4, <2>5, BeginKeeps
<1>6. ASSUME NEW weight \in Weights, NEW quota \in Quotas,
             IF Earn!Amount(quota) < 1
                \/ Earn!Amount(quota) <= earnMemory[round.account].trigger
             THEN Earn!Ends(Earn!Seen("quota", FALSE, weight, 0))
             ELSE Earn!Begins(Earn!Seen("quota", FALSE, weight, 0),
                    <<"transfer", "subscribe", "transfer">>,
                    [round EXCEPT !.stage = "out", !.amount = Earn!Amount(quota)])
      PROVE  EarnInv'
  <2>1. CASE Earn!Ends(Earn!Seen("quota", FALSE, weight, 0))
    BY <1>4, <2>1
  <2>2. CASE /\ ~(Earn!Amount(quota) < 1)
             /\ Earn!Begins(Earn!Seen("quota", FALSE, weight, 0),
                  <<"transfer", "subscribe", "transfer">>,
                  [round EXCEPT !.stage = "out", !.amount = Earn!Amount(quota)])
    <3>1. \/ \E b : Earn!Ends(b)
          \/ /\ \E outcome \in Earn!Outcomes :
                  /\ Earn!Persist(Earn!Paused(TRUE), outcome)
                  /\ round' = IF outcome = "written"
                              THEN [round EXCEPT !.stage = "out",
                                                 !.amount = Earn!Amount(quota)]
                              ELSE Earn!Idle
             /\ UNCHANGED <<wallet, resumes, turn>>
      BY <2>2 DEF Earn!Begins, Earn!Settled
    <3> QED BY <1>5, <2>2, <3>1
  <2> QED BY <1>6, <2>1, <2>2
<1> QED BY <1>3, <1>6 DEF Earn!ReadQuota

LEMMA MoveOutKeeps ==
  ASSUME EarnInv, Earn!MoveOut
  PROVE  EarnInv'
<1>0. PICK a \in EarnAccounts, n \in Nat : a = round.account /\ n = round.amount
  BY RoundFacts DEF Earn!MoveOut
<1>1. /\ round # Earn!Idle /\ round.stage = "out" /\ round \in Rounds
      /\ RoundHolds(round) /\ EarnTyped /\ round.usdt \in Nat
      /\ \A x \in EarnAccounts : AwayBounded(x)
  BY RoundFacts DEF Earn!MoveOut
<1>2. /\ round.usdt <= wallet[a].futures /\ Away(a) <= Resumed(a)
      /\ earnMemory[a].paused /\ earnDisk[a].paused
      /\ n >= 1 /\ n <= Largest /\ n <= round.usdt
  BY <1>0, <1>1 DEF RoundHolds
<1>3. /\ wallet[a] \in Purses /\ Largest \in Nat
      /\ {wallet[a].futures, wallet[a].out, wallet[a].bought} \subseteq Nat
      /\ \A x \in EarnAccounts : Resumed(x) \in Nat /\ Away(x) \in Nat
  BY <1>1, ResumedTyped, LargestCap
<1>4. CASE Earn!Fails("transfer", TRUE)
  BY <1>4, FailKeeps
<1>5. CASE /\ wallet' = Earn!Moved("futures", "out", n)
           /\ round' = Earn!Idle \/ round' = [round EXCEPT !.stage = "buy"]
           /\ UNCHANGED <<earnDisk, earnMemory, resumes, turn>>
  <2>1. /\ wallet' \in [EarnAccounts -> Purses] /\ wallet'[a].out = wallet[a].out + n
        /\ wallet'[a].bought = wallet[a].bought
        /\ \A x \in EarnAccounts : x # a => wallet'[x] = wallet[x]
    <3> DEFINE p == [wallet[a] EXCEPT !["futures"] = @ - n, !["out"] = @ + n]
    <3>1. wallet' = [wallet EXCEPT ![a] = p]
      BY <1>0, <1>5 DEF Earn!Moved
    <3>2. wallet[a].futures - n \in Nat /\ wallet[a].out + n \in Nat
      BY <1>1, <1>2, <1>3
    <3>3. /\ p \in Purses /\ p.out = wallet[a].out + n /\ p.bought = wallet[a].bought
      BY <1>3, <3>2 DEF Purses
    <3> HIDE DEF p
    <3> QED BY <1>1, <3>1, <3>3 DEF EarnTyped
  <2>2. /\ Away(a)' = Away(a) + n
        /\ \A x \in EarnAccounts : x # a => Away(x)' = Away(x)
        /\ \A x \in EarnAccounts : Resumed(x)' = Resumed(x)
    BY <1>3, <1>5, <2>1 DEF Away, Resumed
  <2>3. /\ round' \in Rounds \union {Earn!Idle}
        /\ round' # Earn!Idle =>
             /\ round'.stage = "buy" /\ round'.account = a /\ round'.amount = n
    BY <1>0, <1>1, <1>5 DEF Rounds, Stages
  <2>4. EarnTyped'
    BY <1>1, <1>5, <2>1, <2>3 DEF EarnTyped
  <2>5. ASSUME NEW x \in EarnAccounts PROVE AwayBounded(x)'
    <3>1. CASE x = a
      BY <1>2, <1>3, <1>5, <2>2, <3>1 DEF AwayBounded
    <3>2. CASE x # a
      BY <1>1, <1>5, <2>2, <3>2 DEF AwayBounded
    <3> QED BY <3>1, <3>2
  <2>6. ASSUME round' # Earn!Idle PROVE RoundHolds(round)'
    <3>1. n <= wallet'[a].out /\ Away(a)' <= Resumed(a)' + n
      BY <1>2, <1>3, <2>1, <2>2
    <3> QED BY <1>2, <1>5, <2>3, <2>6, <3>1 DEF RoundHolds
  <2> QED BY <2>4, <2>5, <2>6 DEF EarnInv
<1> QED BY <1>0, <1>4, <1>5 DEF Earn!MoveOut, Earn!Settled

LEMMA SubscribeKeeps ==
  ASSUME EarnInv, Earn!Subscribe
  PROVE  EarnInv'
<1>0. PICK a \in EarnAccounts, n \in Nat : a = round.account /\ n = round.amount
  BY RoundFacts DEF Earn!Subscribe
<1>1. /\ round # Earn!Idle /\ round.stage = "buy" /\ round \in Rounds
      /\ RoundHolds(round) /\ EarnTyped
      /\ \A x \in EarnAccounts : AwayBounded(x)
  BY RoundFacts DEF Earn!Subscribe
<1>2. /\ earnMemory[a].paused /\ earnDisk[a].paused
      /\ n >= 1 /\ n <= Largest /\ n <= wallet[a].out
      /\ Away(a) <= Resumed(a) + n
  BY <1>0, <1>1 DEF RoundHolds
<1>3. /\ wallet[a] \in Purses /\ Largest \in Nat
      /\ {wallet[a].futures, wallet[a].out, wallet[a].bought} \subseteq Nat
      /\ \A x \in EarnAccounts : Resumed(x) \in Nat /\ Away(x) \in Nat
  BY <1>1, ResumedTyped, LargestCap
<1>4. CASE Earn!Fails("subscribe", TRUE)
  BY <1>4, FailKeeps
<1>5. CASE \E got \in {n, n - 1} :
             /\ wallet' = [wallet EXCEPT ![a] =
                   [wallet[a] EXCEPT !.out = @ - n, !.bought = @ + got]]
             /\ \/ round' = Earn!Idle
                \/ round' = [round EXCEPT !.stage = "in", !.bfusd = got]
             /\ UNCHANGED <<earnDisk, earnMemory, resumes, turn>>
  <2>0. PICK got \in {n, n - 1} :
             /\ wallet' = [wallet EXCEPT ![a] =
                   [wallet[a] EXCEPT !.out = @ - n, !.bought = @ + got]]
             /\ \/ round' = Earn!Idle
                \/ round' = [round EXCEPT !.stage = "in", !.bfusd = got]
             /\ UNCHANGED <<earnDisk, earnMemory, resumes, turn>>
    BY <1>5
  <2>9. got \in Nat /\ got <= n
    BY <1>2
  <2>1. /\ wallet' \in [EarnAccounts -> Purses] /\ wallet'[a].out = wallet[a].out - n
        /\ wallet'[a].bought = wallet[a].bought + got
        /\ \A x \in EarnAccounts : x # a => wallet'[x] = wallet[x]
    <3> DEFINE p == [wallet[a] EXCEPT !.out = @ - n, !.bought = @ + got]
    <3>1. wallet' = [wallet EXCEPT ![a] = p]
      BY <2>0
    <3>2. wallet[a].out - n \in Nat /\ wallet[a].bought + got \in Nat
      BY <1>2, <1>3, <2>9
    <3>3. p \in Purses /\ p.out = wallet[a].out - n /\ p.bought = wallet[a].bought + got
      BY <1>3, <3>2 DEF Purses
    <3> HIDE DEF p
    <3> QED BY <1>1, <3>1, <3>3 DEF EarnTyped
  <2>2. /\ Away(a)' = Away(a) - n + got
        /\ \A x \in EarnAccounts : x # a => Away(x)' = Away(x)
        /\ \A x \in EarnAccounts : Resumed(x)' = Resumed(x)
    BY <1>3, <2>0, <2>1, <2>9 DEF Away, Resumed
  <2>3. /\ round' \in Rounds \union {Earn!Idle}
        /\ round' # Earn!Idle =>
             /\ round'.stage = "in" /\ round'.account = a /\ round'.bfusd = got
    BY <1>0, <1>1, <2>0, <2>9 DEF Rounds, Stages
  <2>4. EarnTyped'
    BY <1>1, <2>0, <2>1, <2>3 DEF EarnTyped
  <2>5. ASSUME NEW x \in EarnAccounts PROVE AwayBounded(x)'
    <3>1. CASE x = a
      BY <1>2, <1>3, <2>0, <2>2, <2>9, <3>1 DEF AwayBounded
    <3>2. CASE x # a
      BY <1>1, <2>0, <2>2, <3>2 DEF AwayBounded
    <3> QED BY <3>1, <3>2
  <2>6. ASSUME round' # Earn!Idle PROVE RoundHolds(round)'
    <3>1. got <= wallet'[a].bought /\ Away(a)' <= Resumed(a)' + got
      BY <1>2, <1>3, <2>1, <2>2, <2>9
    <3> QED BY <1>2, <2>0, <2>3, <2>6, <3>1 DEF RoundHolds
  <2> QED BY <2>4, <2>5, <2>6 DEF EarnInv
<1> QED BY <1>0, <1>4, <1>5 DEF Earn!Subscribe, Earn!Settled

LEMMA EarnStep == EarnInv /\ Earn!EarnNext => EarnInv'
<1> SUFFICES ASSUME EarnInv, Earn!EarnNext PROVE EarnInv'
  OBVIOUS
<1>1. EarnTyped /\ \A x \in EarnAccounts : AwayBounded(x)
  BY DEF EarnInv
<1>2. CASE Earn!Restart
  <2>1. /\ earnMemory' = earnDisk /\ round' = Earn!Idle
        /\ turn' = [a \in EarnAccounts |-> 1] /\ UNCHANGED <<earnDisk, wallet, resumes>>
    BY <1>2 DEF Earn!Restart
  <2>2. EarnTyped'
    BY <1>1, <2>1, EarnAssumption DEF EarnTyped
  <2>3. \A x \in EarnAccounts : AwayBounded(x)'
    BY <1>1, <2>1 DEF AwayBounded, Away, Resumed
  <2> QED BY <2>1, <2>2, <2>3 DEF EarnInv
<1>3. CASE Earn!Tick
  <2>1. UNCHANGED <<earnDisk, earnMemory, round, wallet, turn, resumes>>
    BY <1>3 DEF Earn!Tick
  <2>2. EarnTyped'
    BY <1>1, <2>1 DEF EarnTyped
  <2> QED BY <2>1, <2>2 DEF EarnInv, AwayBounded, Away, Resumed, RoundHolds
<1> QED BY <1>2, <1>3, SaveKeeps, ResumeKeeps, StartKeeps, ReadAccountKeeps, ReadSpotKeeps,
           SweepKeeps, ReadQuotaKeeps, MoveOutKeeps, SubscribeKeeps, MoveInKeeps
        DEF Earn!EarnNext

LEMMA OneRoundAway == EarnInv => Earn!OneRoundOut
<1> SUFFICES ASSUME EarnInv, NEW a \in EarnAccounts
             PROVE  wallet[a].out + wallet[a].bought <= (1 + resumes[a]) * Largest
  BY DEF Earn!OneRoundOut, Largest
<1>1. resumes[a] \in Nat /\ Away(a) <= Resumed(a) + Largest
  BY DEF EarnInv, EarnTyped, AwayBounded
<1>2. (1 + resumes[a]) * Largest = resumes[a] * Largest + Largest
  BY <1>1, LargestCap
<1> QED BY <1>1, <1>2 DEF Away, Resumed

-----------------------------------------------------------------------------
(***************************************************************************)
(* The monitor                                                              *)
(***************************************************************************)
Tracks == [active : BOOLEAN, visible : BOOLEAN, first : Nat, sent : Nat]

\* A channel has at most one notice of an issue to send: an alert or a recovery.
NoticesTyped ==
  /\ pending = [c \in Watch!Channels |-> pending[c]]
  /\ \A c \in Watch!Channels : \A n \in pending[c] :
       /\ n = [key |-> n.key, recovery |-> n.recovery]
       /\ n.key \in DOMAIN tracker /\ n.recovery \in BOOLEAN
  /\ \A c \in Watch!Channels : \A n, m \in pending[c] : n.key = m.key => n = m

\* An issue someone was told of is kept until its recovery was acknowledged as well.
WatchInv ==
  /\ monitorTime \in Nat \ {0}
  /\ \A k \in DOMAIN tracker : /\ tracker[k] \in Tracks
                               /\ tracker[k].sent # 0 => tracker[k].active
                               /\ k \in told <=> tracker[k].sent # 0
  /\ told \subseteq DOMAIN tracker
  /\ NoticesTyped

LEMMA WatchStart == Watch!MonitorInit => WatchInv
<1> SUFFICES ASSUME Watch!MonitorInit PROVE WatchInv
  OBVIOUS
<1>1. /\ monitorTime = 1 /\ tracker = <<>> /\ told = {}
      /\ pending = [c \in Watch!Channels |-> {}]
  BY DEF Watch!MonitorInit
<1>2. DOMAIN tracker = {}
  BY <1>1
<1> QED BY <1>1, <1>2 DEF WatchInv, NoticesTyped

\* An issue found again keeps what was said of it; one that is gone is forgotten only if
\* nobody was told.
LEMMA PollKeeps == WatchInv /\ Watch!Poll => WatchInv'
<1> SUFFICES ASSUME WatchInv, Watch!Poll PROVE WatchInv'
  OBVIOUS
<1>1. PICK issues \in {Watch!Issues} :
        LET keys == {i.key : i \in issues}
            IssueOf(key) == CHOOSE i \in issues : i.key = key
        IN /\ tracker' = [key \in keys \union DOMAIN tracker |->
                            IF key \in keys THEN Watch!Present(IssueOf(key))
                            ELSE Watch!Gone(key)]
           /\ pending' = [c \in Watch!Channels |->
                {[key |-> k, recovery |-> FALSE] : k \in {k \in keys :
                    Watch!Channel(k) = c /\ Watch!AlertDue(Watch!Present(IssueOf(k)))}}
                \union {[key |-> k, recovery |-> TRUE] : k \in {k \in DOMAIN tracker \ keys :
                    Watch!Channel(k) = c /\ tracker[k].active /\ tracker[k].sent # 0}}]
  BY DEF Watch!Poll
<1> DEFINE keys == {i.key : i \in issues}
           IssueOf(key) == CHOOSE i \in issues : i.key = key
<1>2. UNCHANGED <<monitorTime, told>> /\ monitorTime \in Nat \ {0}
  BY DEF Watch!Poll, WatchInv
<1>3. \A k \in keys : IssueOf(k).key = k
  OBVIOUS
<1>4. ASSUME NEW k \in keys
      PROVE  /\ Watch!Present(IssueOf(k)) \in Tracks
             /\ Watch!Present(IssueOf(k)).active
             /\ k \in told <=> Watch!Present(IssueOf(k)).sent # 0
  <2> DEFINE issue == IssueOf(k)
             first == IF Watch!Tracked(k).active THEN Watch!Tracked(k).first ELSE monitorTime
  <2>1. issue.key = k
    BY <1>3
  <2> HIDE DEF issue
  <2>2. Watch!Tracked(k) \in Tracks /\ (k \in told <=> Watch!Tracked(k).sent # 0)
    BY DEF WatchInv, Watch!Tracked, Watch!Fresh, Tracks
  <2>3. Watch!Present(issue) = [active |-> TRUE, visible |-> monitorTime - first >= issue.delay,
                                first |-> first, sent |-> Watch!Tracked(k).sent]
    BY <2>1 DEF Watch!Present
  <2>4. first \in Nat
    BY <1>2, <2>2 DEF Tracks
  <2> HIDE DEF first
  <2>5. Watch!Present(issue) \in Tracks /\ Watch!Present(issue).active
        /\ Watch!Present(issue).sent = Watch!Tracked(k).sent
    BY <2>2, <2>3, <2>4 DEF Tracks
  <2> QED BY <2>2, <2>5 DEF issue
<1>5. ASSUME NEW k \in DOMAIN tracker
      PROVE  /\ Watch!Gone(k) \in Tracks
             /\ Watch!Gone(k).sent # 0 => Watch!Gone(k).active
             /\ k \in told <=> Watch!Gone(k).sent # 0
  BY DEF WatchInv, Watch!Gone, Watch!Fresh, Tracks
<1> HIDE DEF IssueOf, keys
<1>6. /\ DOMAIN tracker' = keys \union DOMAIN tracker
      /\ \A k \in keys : tracker'[k] = Watch!Present(IssueOf(k))
      /\ \A k \in DOMAIN tracker \ keys : tracker'[k] = Watch!Gone(k)
  BY <1>1 DEF keys, IssueOf
<1>7. \A k \in DOMAIN tracker' : /\ tracker'[k] \in Tracks
                                 /\ tracker'[k].sent # 0 => tracker'[k].active
                                 /\ k \in told' <=> tracker'[k].sent # 0
  BY <1>2, <1>4, <1>5, <1>6
<1>8. ASSUME NEW c \in Watch!Channels, NEW n \in pending'[c]
      PROVE  /\ n = [key |-> n.key, recovery |-> n.recovery] /\ n.recovery \in BOOLEAN
             /\ n.key \in DOMAIN tracker' /\ (n.recovery <=> n.key \notin keys)
  <2>1. \/ \E k \in keys : n = [key |-> k, recovery |-> FALSE]
        \/ \E k \in DOMAIN tracker \ keys : n = [key |-> k, recovery |-> TRUE]
    BY <1>1, <1>8 DEF keys
  <2>2. CASE \E k \in keys : n = [key |-> k, recovery |-> FALSE]
    BY <1>6, <2>2
  <2>3. CASE \E k \in DOMAIN tracker \ keys : n = [key |-> k, recovery |-> TRUE]
    BY <1>6, <2>3
  <2> QED BY <2>1, <2>2, <2>3
<1>9. pending' = [c \in Watch!Channels |-> pending'[c]]
  BY <1>1
<1>10. NoticesTyped'
  BY <1>8, <1>9 DEF NoticesTyped
<1>11. told' \subseteq DOMAIN tracker'
  BY <1>2, <1>6 DEF WatchInv
<1> QED BY <1>2, <1>7, <1>10, <1>11 DEF WatchInv

\* A channel acknowledges what it was sent, or nothing.
LEMMA SendKeeps ==
  ASSUME WatchInv, NEW c \in Watch!Channels, Watch!Send(c)
  PROVE  WatchInv'
<1>1. /\ \/ /\ tracker' = Watch!Marked(pending[c])
            /\ told' = (told \ {n.key : n \in {n \in pending[c] : n.recovery}})
                       \union {n.key : n \in {n \in pending[c] : ~n.recovery}}
         \/ UNCHANGED <<tracker, told>>
      /\ pending' = [pending EXCEPT ![c] = {}]
      /\ UNCHANGED monitorTime
  BY DEF Watch!Send, Watch!Acknowledged
<1>2. /\ monitorTime \in Nat \ {0}
      /\ \A n \in pending[c] : /\ n = [key |-> n.key, recovery |-> n.recovery]
                               /\ n.key \in DOMAIN tracker /\ n.recovery \in BOOLEAN
      /\ \A n, m \in pending[c] : n.key = m.key => n = m
  BY DEF WatchInv, NoticesTyped
<1>3. /\ \A k \in DOMAIN tracker' : /\ tracker'[k] \in Tracks
                                    /\ tracker'[k].sent # 0 => tracker'[k].active
                                    /\ k \in told' <=> tracker'[k].sent # 0
      /\ DOMAIN tracker' = DOMAIN tracker /\ told' \subseteq DOMAIN tracker
  <2>1. CASE UNCHANGED <<tracker, told>>
    BY <2>1 DEF WatchInv
  <2>2. CASE /\ tracker' = Watch!Marked(pending[c])
             /\ told' = (told \ {n.key : n \in {n \in pending[c] : n.recovery}})
                        \union {n.key : n \in {n \in pending[c] : ~n.recovery}}
    <3>1. DOMAIN tracker' = DOMAIN tracker /\ told' \subseteq DOMAIN tracker
      <4>1. DOMAIN tracker' = DOMAIN tracker
        BY <2>2 DEF Watch!Marked
      <4>2. told' \subseteq told \union {n.key : n \in pending[c]}
        BY <2>2
      <4> QED BY <1>2, <4>1, <4>2 DEF WatchInv
    <3>2. ASSUME NEW k \in DOMAIN tracker
          PROVE  /\ tracker'[k] \in Tracks
                 /\ tracker'[k].sent # 0 => tracker'[k].active
                 /\ k \in told' <=> tracker'[k].sent # 0
      <4> DEFINE alert == [key |-> k, recovery |-> FALSE]
                 recovery == [key |-> k, recovery |-> TRUE]
      <4>1. /\ tracker[k] \in Tracks /\ (tracker[k].sent # 0 => tracker[k].active)
            /\ k \in told <=> tracker[k].sent # 0
        BY DEF WatchInv
      <4>2. tracker'[k] = IF recovery \in pending[c] THEN Watch!Fresh
                          ELSE IF alert \in pending[c]
                          THEN [tracker[k] EXCEPT !.active = TRUE, !.sent = monitorTime]
                          ELSE tracker[k]
        BY <2>2 DEF Watch!Marked
      <4>3. \A n \in pending[c] : n.key = k => n = alert \/ n = recovery
        BY <1>2
      <4>4. alert.key = k /\ ~alert.recovery /\ recovery.key = k /\ recovery.recovery
            /\ alert # recovery
        OBVIOUS
      <4> HIDE DEF alert, recovery
      <4>5. CASE recovery \in pending[c]
        <5>1. k \notin told'
          BY <1>2, <2>2, <4>4, <4>5
        <5>2. tracker'[k] = Watch!Fresh
          BY <4>2, <4>5
        <5> QED BY <5>1, <5>2 DEF Watch!Fresh, Tracks
      <4>6. CASE recovery \notin pending[c] /\ alert \in pending[c]
        <5>1. k \in told'
          BY <2>2, <4>4, <4>6
        <5>2. tracker'[k] = [tracker[k] EXCEPT !.active = TRUE, !.sent = monitorTime]
          BY <4>2, <4>6
        <5> QED BY <1>2, <4>1, <5>1, <5>2 DEF Tracks
      <4>7. CASE recovery \notin pending[c] /\ alert \notin pending[c]
        <5>1. k \in told' <=> k \in told
          BY <2>2, <4>3, <4>7
        <5>2. tracker'[k] = tracker[k]
          BY <4>2, <4>7
        <5> QED BY <4>1, <5>1, <5>2
      <4> QED BY <4>5, <4>6, <4>7
    <3> QED BY <3>1, <3>2
  <2> QED BY <1>1, <2>1, <2>2
<1>4. NoticesTyped'
  <2>1. pending' = [d \in Watch!Channels |-> pending'[d]]
    BY <1>1 DEF WatchInv, NoticesTyped
  <2>2. \A d \in Watch!Channels : pending'[d] \subseteq pending[d]
    BY <1>1 DEF WatchInv, NoticesTyped
  <2> QED BY <1>3, <2>1, <2>2 DEF WatchInv, NoticesTyped
<1> QED BY <1>1, <1>2, <1>3, <1>4 DEF WatchInv

LEMMA WatchStep == WatchInv /\ Watch!MonitorNext => WatchInv'
<1> SUFFICES ASSUME WatchInv, Watch!MonitorNext PROVE WatchInv'
  OBVIOUS
<1>1. CASE Watch!Tick \/ Watch!Change \/ Watch!Heartbeats
  <2>1. /\ UNCHANGED <<tracker, pending, told>>
        /\ monitorTime' = monitorTime \/ monitorTime' = monitorTime + 1
    BY <1>1 DEF Watch!Tick, Watch!Change, Watch!Heartbeats, Watch!Watch
  <2>2. NoticesTyped'
    BY <2>1 DEF WatchInv, NoticesTyped
  <2> QED BY <2>1, <2>2 DEF WatchInv
<1>2. CASE Watch!Poll
  BY <1>2, PollKeeps
<1>3. CASE \E c \in Watch!Channels : Watch!Send(c)
  BY <1>3, SendKeeps
<1> QED BY <1>1, <1>2, <1>3 DEF Watch!MonitorNext

LEMMA ToldIsTracked == WatchInv => Watch!TrackedAsTold
BY DEF WatchInv, Watch!TrackedAsTold

-----------------------------------------------------------------------------
(***************************************************************************)
(* The host                                                                 *)
(***************************************************************************)
\* A behaviour is about one service: its invariant holds whatever the others are.
Inv ==
  /\ part = "kline" => KlineInv
  /\ part = "income" => IncomeInv
  /\ part = "rates" => RatesInv
  /\ part = "earn" => EarnInv
  /\ part = "monitor" => WatchInv

LEMMA InvStart == Init => Inv
<1> SUFFICES ASSUME Init PROVE Inv
  OBVIOUS
<1>1. Kline!KlineInit /\ Income!FundingInit /\ Rates!RatesInit /\ Earn!EarnInit
     /\ Watch!MonitorInit
  BY DEF Init
<1> QED BY <1>1, KlineStart, IncomeStart, RatesStart, EarnStart, WatchStart DEF Inv

LEMMA InvStep == Inv /\ [Next]_hostVars => Inv'
<1> SUFFICES ASSUME Inv, [Next]_hostVars PROVE Inv'
  OBVIOUS
<1>1. CASE IncomeSteps
  <2>1. part = "income" /\ part' = part /\ Income!FundingNext
    BY <1>1 DEF IncomeSteps
  <2> QED BY <2>1, IncomeStep DEF Inv
<1>2. CASE RatesSteps
  <2>1. part = "rates" /\ part' = part /\ Rates!RatesNext
    BY <1>2 DEF RatesSteps
  <2> QED BY <2>1, RatesStep DEF Inv
<1>3. CASE EarnSteps
  <2>1. part = "earn" /\ part' = part /\ Earn!EarnNext
    BY <1>3 DEF EarnSteps
  <2> QED BY <2>1, EarnStep DEF Inv
<1>4. CASE WatchSteps
  <2>1. part = "monitor" /\ part' = part /\ Watch!MonitorNext
    BY <1>4 DEF WatchSteps
  <2> QED BY <2>1, WatchStep DEF Inv
<1>5. CASE UNCHANGED hostVars
  <2>1. UNCHANGED <<part, klineVars, fundingVars, ratesVars, earnVars, monitorVars>>
    BY <1>5 DEF hostVars
  <2>6. KlineInv => KlineInv'
    <3>1. UNCHANGED <<clock, cached, job, task, queue, waiter>>
      BY <2>1 DEF klineVars
    <3> QED BY <3>1 DEF KlineInv, KlineTyped, QueueHolds, JobHolds, PassHolds, QueryHolds,
                        Filled, Kline!ClosedMinutes, Kline!Cutoff
  <2>2. IncomeInv => IncomeInv'
    <3>1. UNCHANGED <<incomeTime, incomePublished, orders, start, cursors, income, poll>>
      BY <2>1 DEF fundingVars
    <3> QED BY <3>1 DEF IncomeInv, IncomeTyped, SettledInTime, CursorHolds, FetchHolds
  <2>3. RatesInv => RatesInv'
    <3>1. UNCHANGED <<rateTime, ratePublished, entry, load>>
      BY <2>1 DEF ratesVars
    <3> QED BY <3>1 DEF RatesInv, RatesTyped, PublishedInTime, LeavesNoGap
  <2>4. EarnInv => EarnInv'
    <3>1. UNCHANGED <<earnMemory, earnDisk, round, wallet, resumes, turn>>
      BY <2>1 DEF earnVars
    <3> QED BY <3>1 DEF EarnInv, EarnTyped, AwayBounded, RoundHolds, Away, Resumed
  <2>5. WatchInv => WatchInv'
    <3>1. UNCHANGED <<monitorTime, tracker, pending, told>>
      BY <2>1 DEF monitorVars
    <3> QED BY <3>1 DEF WatchInv, NoticesTyped
  <2> QED BY <2>1, <2>2, <2>3, <2>4, <2>5, <2>6 DEF Inv
<1>6. ASSUME \/ AccessSteps \/ ExchangeSteps \/ OrderSteps
             \/ RulesSteps \/ TheorySteps \/ OverviewSteps \/ ChartsSteps
      PROVE  part \notin {"kline", "income", "rates", "earn", "monitor"} /\ part' = part
  BY <1>6 DEF AccessSteps, ExchangeSteps, OrderSteps, RulesSteps,
              TheorySteps, OverviewSteps, ChartsSteps
<1>7. CASE part \notin {"kline", "income", "rates", "earn", "monitor"} /\ part' = part
  BY <1>7 DEF Inv
<1>8. CASE KlineSteps
  <2>1. part = "kline" /\ part' = part /\ Kline!KlineNext
    BY <1>8 DEF KlineSteps
  <2> QED BY <2>1, KlineStep DEF Inv
<1> QED BY <1>1, <1>2, <1>3, <1>4, <1>5, <1>6, <1>7, <1>8 DEF Next

\* The invariant holds of the host, whichever service a behaviour is about.
THEOREM Invariance == Spec => []Inv
<1>1. Init => Inv
  BY InvStart
<1>2. Inv /\ [Next]_hostVars => Inv'
  BY InvStep
<1> QED BY <1>1, <1>2, PTL DEF Spec

\* A query that was told its candles are ready finds them: whatever was merged into its
\* job, interrupted, pruned or fetched by another pass meanwhile, every closed minute it
\* asked for that the cache still keeps is there, or one the exchange does not have
\* (kline.rs warm_symbol, ensure_range, warm_ranges).
THEOREM ReadyCovered == Spec => []ReadyIsCovered
<1>1. Inv => ReadyIsCovered
  BY ReadyIsFilled DEF Inv, ReadyIsCovered
<1> QED BY <1>1, Invariance, PTL

\* The cursor of a symbol never passes a settlement that is not in the ledger, and rates
\* answered as complete are all the rates of the range asked for, whatever fails, is
\* cancelled, retried or published late (funding.rs sync_window, persist_chunk;
\* funding_rates.rs schedule, load).
THEOREM FundingComplete == Spec => []FundingIsComplete
<1>1. Inv => FundingIsComplete
  BY IncomeComplete, RatesComplete DEF Inv, FundingIsComplete
<1> QED BY <1>1, Invariance, PTL

\* At most one round of an account is out, and one more for every resume, whatever request
\* fails, answer is lost or file cannot be written, and wherever the process ends
\* (bfusd_auto.rs subscribe_futures_usdt, set_paused, save, resume).
THEOREM RoundsOut == Spec => []OneRoundOut
<1>1. Inv => OneRoundOut
  BY OneRoundAway DEF Inv, OneRoundOut
<1> QED BY <1>1, Invariance, PTL

\* The tracker believes exactly the alerts a channel acknowledged and no recovery since,
\* whatever the polls find, whichever channel fails and whenever an issue comes back
\* (monitor.rs pending, mark_sent).
THEOREM AlertsTracked == Spec => []TrackedAsTold
<1>1. Inv => TrackedAsTold
  BY ToldIsTracked DEF Inv, TrackedAsTold
<1> QED BY <1>1, Invariance, PTL
=============================================================================
