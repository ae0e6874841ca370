---- MODULE PaperBrokerProofs ----
(***************************************************************************)
(* Proofs about the paper broker.  Every operation of the broker maps a    *)
(* sound store to a sound store (one lemma per operation); every handler   *)
(* is a composition of operations; so soundness is inductive, and the      *)
(* properties of PaperBroker follow from it.                               *)
(***************************************************************************)
EXTENDS PaperBroker, TLAPS

----
\* Arithmetic and sums.

LEMMA BpsType ==
    ASSUME NEW v \in Nat, NEW bps \in Nat
    PROVE  Bps(v, bps) \in Nat
<1>1. v * bps \in Nat OBVIOUS
<1> QED BY <1>1 DEF Bps

\* Fees grow with the price.
LEMMA BpsMonotone ==
    ASSUME NEW v \in Nat, NEW w \in Nat, NEW bps \in Nat, v <= w
    PROVE  Bps(v, bps) <= Bps(w, bps)
<1>1. v * bps \in Nat /\ w * bps \in Nat OBVIOUS
<1>2. v * bps <= w * bps BY SMTT(30)
<1> QED BY <1>1, <1>2 DEF Bps

LEMMA CostFields ==
    /\ Cost.commission_bps \in Nat /\ Cost.fx_bps \in Nat
    /\ Cost.slippage_bps \in Nat /\ Cost.sell_tax_bps \in Nat
    /\ Cost.latency \in Nat /\ Cost.timeout \in Nat
    /\ Cost.stop_cooldown \in Nat /\ Cost.initial_cash \in Nat \ {0}
    /\ Cost.max_quantity \in Nat \ {0} /\ Cost.max_fill \in Nat \ {0}
    /\ Cost.max_entries \in Nat \ {0} /\ Cost.max_submissions \in Nat \ {0}
    /\ Cost.daily_loss_pct \in Nat /\ Cost.trade_risk_pct \in Nat
    /\ Cost.participation_pct \in Nat
BY CostAssumption DEF CostType

LEMMA AllInType ==
    ASSUME NEW v \in Nat
    PROVE  AllIn(v) \in Nat /\ AllIn(v) >= v
<1>1. Cost.commission_bps + Cost.fx_bps \in Nat BY CostFields
<1>2. Bps(v, Cost.commission_bps + Cost.fx_bps) \in Nat BY <1>1, BpsType
<1> QED BY <1>2 DEF AllIn

LEMMA AllInMonotone ==
    ASSUME NEW v \in Nat, NEW w \in Nat, v <= w
    PROVE  AllIn(v) <= AllIn(w)
<1>1. Cost.commission_bps + Cost.fx_bps \in Nat BY CostFields
<1>2. /\ Bps(v, Cost.commission_bps + Cost.fx_bps) \in Nat
      /\ Bps(w, Cost.commission_bps + Cost.fx_bps) \in Nat
      /\ Bps(v, Cost.commission_bps + Cost.fx_bps)
            <= Bps(w, Cost.commission_bps + Cost.fx_bps)
  BY <1>1, BpsType, BpsMonotone
<1> QED BY <1>2 DEF AllIn

LEMMA ExecutionType ==
    ASSUME NEW v \in Nat
    PROVE  Execution(v) \in Nat /\ Execution(v) >= v
<1>1. Bps(v, Cost.slippage_bps) \in Nat BY CostFields, BpsType
<1> QED BY <1>1 DEF Execution

LEMMA ExitNetType == ASSUME NEW v \in Int PROVE ExitNet(v) \in Int
<1>1. v * (Cost.commission_bps + Cost.slippage_bps + Cost.fx_bps + Cost.sell_tax_bps)
        \in Int
  BY CostFields
<1> QED BY <1>1 DEF ExitNet, Bps

\* Selling for a positive amount never costs more than it brings in.
LEMMA ExitNetNonNegative == ASSUME NEW v \in Nat PROVE ExitNet(v) >= 0
<1> DEFINE f == Cost.commission_bps + Cost.slippage_bps + Cost.fx_bps + Cost.sell_tax_bps
<1>1. f \in Nat /\ f <= 10000 BY CostFields, CostAssumption
<1> HIDE DEF f
<1>2. v * f \in Nat /\ v * f <= v * 10000 BY <1>1, SMTT(30)
<1>3. (v * f) \div 10000 <= v BY <1>2, <1>1
<1> QED BY <1>3, <1>2 DEF ExitNet, Bps, f

LEMMA CandidateFields ==
    ASSUME NEW s \in Symbols
    PROVE  /\ Candidate[s].limit \in Nat \ {0}
           /\ Candidate[s].stop \in Nat
           /\ Candidate[s].offset_bps \in Nat
           /\ Candidate[s].emergency \in Nat
           /\ Candidate[s].targets \in Seq(Target)
           /\ Len(Candidate[s].targets) \in Nat
           /\ Len(Candidate[s].targets) >= 1
           /\ Len(Candidate[s].targets) <= 3
<1>1. Candidate[s] \in Policy BY PolicyAssumption
<1>2. Candidate[s].targets \in Seq(Target) BY <1>1 DEF Policy
<1>3. Candidate[s].limit \in Nat \ {0} BY <1>1 DEF Policy
<1>4. Candidate[s].stop \in Nat BY <1>1 DEF Policy
<1>5. Candidate[s].offset_bps \in Nat BY <1>1 DEF Policy
<1>6. Candidate[s].emergency \in Nat BY <1>1 DEF Policy
<1> QED BY <1>2, <1>3, <1>4, <1>5, <1>6, PolicyAssumption

LEMMA StopLimitType ==
    ASSUME NEW s \in Symbols, NEW v \in Nat
    PROVE  StopLimit(s, v) \in Int
<1>1. Candidate[s].offset_bps \in Nat BY CandidateFields
<1>2. Bps(v, Candidate[s].offset_bps) \in Nat BY <1>1, BpsType
<1> QED BY <1>2 DEF StopLimit

LEMMA WorstCaseRiskType ==
    ASSUME NEW s \in Symbols
    PROVE  WorstCaseRisk(s) \in Nat
<1>0. Candidate[s].limit \in Nat /\ Candidate[s].stop \in Nat BY CandidateFields
<1>1. AllIn(Candidate[s].limit) \in Nat BY <1>0, AllInType
<1>2. StopLimit(s, Candidate[s].stop) \in Int BY <1>0, StopLimitType
<1>3. ExitNet(StopLimit(s, Candidate[s].stop)) \in Int BY <1>2, ExitNetType
<1> QED BY <1>1, <1>3 DEF WorstCaseRisk, Larger

\* The sum over nothing.
LEMMA TotalEmpty ==
    ASSUME NEW f, DOMAIN f = {}
    PROVE  Total(f) = 0
<1> DEFINE zero == [x \in SUBSET {} |-> 0]
           step(g) == [x \in SUBSET {} |->
                IF x = {} THEN 0
                ELSE f[CHOOSE y \in x : TRUE] + g[x \ {CHOOSE y \in x : TRUE}]]
<1>1. \A x \in SUBSET {} : x = {} OBVIOUS
<1>2. zero = step(zero) BY <1>1
<1>3. \A g : g = step(g) => g[{}] = 0
  <2>1. {} \in SUBSET {} OBVIOUS
  <2> QED BY <2>1
<1> HIDE DEF zero
<1>4. (CHOOSE g : g = step(g)) = step(CHOOSE g : g = step(g)) BY <1>2
<1> QED BY <1>3, <1>4 DEF Total, MapThenSumSet, MapThenFoldSet

LEMMA TargetQuantityType ==
    ASSUME NEW s \in Symbols, NEW q \in Nat, NEW i \in 1..3, i <= Len(Candidate[s].targets)
    PROVE  TargetQuantity(s, q, i) \in Int
<1> DEFINE T == Candidate[s].targets
<1>1. T \in Seq(Target) /\ Len(T) \in Nat /\ Len(T) >= 1 /\ Len(T) <= 3 BY CandidateFields
<1>2. \A j \in 1..Len(T) : Ceil(q, T[j]) \in Int
  <2> SUFFICES ASSUME NEW j \in 1..Len(T) PROVE Ceil(q, T[j]) \in Int OBVIOUS
  <2>1. T[j] \in Target BY <1>1
  <2>2. T[j].pct \in Nat BY <2>1 DEF Target
  <2>3. q * T[j].pct + 99 \in Int BY <2>2
  <2> QED BY <2>3 DEF Ceil
<1>3. \A j \in 0..Len(T) : Given(s, q, j) \in Int
  <2> SUFFICES ASSUME NEW j \in 0..Len(T) PROVE Given(s, q, j) \in Int OBVIOUS
  <2>1. CASE j = 0 BY <2>1 DEF Given
  <2>2. CASE j = Len(T) BY <2>2, <1>1 DEF Given
  <2>3. CASE j = 1 /\ j # Len(T)
    BY <2>3, <1>1, <1>2 DEF Given, Smaller
  <2>4. CASE j = 2 /\ j # Len(T)
    BY <2>4, <1>1, <1>2 DEF Given, Smaller
  <2> QED BY <1>1, <2>1, <2>2, <2>3, <2>4
<1>4. i \in 0..Len(T) /\ i - 1 \in 0..Len(T) BY <1>1
<1> QED BY <1>3, <1>4 DEF TargetQuantity

----
\* Sound stores.

Store == [book: Book, saved: Book, intents: [Keys -> Intent]]

\* An order in the book still has shares to buy, a position shares to sell; and the
\* stop of a position is never below the plan's.
OrdersOpen(b) ==
    \A s \in Symbols : b.pending[s] # NoOrder
        => b.pending[s].filled < b.pending[s].desired
PositionsOpen(b) ==
    \A s \in Symbols : b.position[s] # NoPosition
        => b.position[s].remaining > 0 /\ b.position[s].stop >= Candidate[s].stop

\* Only one symbol has an order or a position, and both are of one plan.
OneSymbol(b) ==
    \A s, r \in Symbols :
        /\ b.pending[s] # NoOrder \/ b.position[s] # NoPosition
        /\ b.pending[r] # NoOrder \/ b.position[r] # NoPosition
        => s = r
OnePlan(b) ==
    \A s \in Symbols : b.pending[s] # NoOrder /\ b.position[s] # NoPosition
        => b.pending[s].plan = b.position[s].plan

\* Everything in the book was claimed.
Claimed(b, C) ==
    \A s \in Symbols :
        /\ b.pending[s] # NoOrder => <<b.pending[s].plan, s>> \in C
        /\ b.position[s] # NoPosition => <<b.position[s].plan, s>> \in C

Leaving(b) ==
    \A s \in Symbols :
        /\ b.position[s] # NoPosition
        /\ \/ b.position[s].exit_pending_at # None
           \/ b.position[s].filled_targets # {}
        => b.pending[s] = NoOrder

Sound(b, C) == /\ OrdersOpen(b) /\ PositionsOpen(b)
               /\ OneSymbol(b) /\ OnePlan(b)
               /\ Claimed(b, C) /\ Leaving(b)

Good(st, C) == st \in Store /\ Sound(st.book, C) /\ Sound(st.saved, C)

LEMMA CancelFacts ==
    ASSUME NEW st \in Store, NEW S \in SUBSET Symbols, OrdersOpen(st.book)
    PROVE  /\ Cancel(st, S) \in Store
           /\ Cancel(st, S).book = [st.book EXCEPT !.pending =
                    [s \in Symbols |-> IF s \in S THEN NoOrder ELSE st.book.pending[s]]]
           /\ Cancel(st, S).saved \in {st.saved, Cancel(st, S).book}
<1> DEFINE gone == Resting(st.book) \cap S
           left == [s \in Symbols |-> IF s \in S THEN NoOrder ELSE st.book.pending[s]]
<1>0. /\ st.book \in Book /\ st.saved \in Book
      /\ st.intents \in [Keys -> Intent]
      /\ st.book.pending \in [Symbols -> Order \cup {NoOrder}]
  BY DEF Store, Book
<1>1. CASE gone = {}
  <2>1. Cancel(st, S) = st BY <1>1 DEF Cancel
  <2>2. left = st.book.pending BY <1>0, <1>1 DEF Resting
  <2>3. [st.book EXCEPT !.pending = left] = st.book BY <1>0, <2>2 DEF Book
  <2> QED BY <2>1, <2>3
<1>2. CASE gone # {}
  <2> DEFINE w == Withdrawn(st, gone)
  <2>1. Cancel(st, S) = [w EXCEPT !.saved = w.book] BY <1>2 DEF Cancel, Save
  <2>2. [s \in Symbols |-> IF s \in gone THEN NoOrder ELSE st.book.pending[s]] = left
    BY DEF Resting
  <2>3. w.book = [st.book EXCEPT !.pending = left] /\ w.saved = st.saved
    BY <2>2, <1>0 DEF Withdrawn, Store
  <2>a. left \in [Symbols -> Order \cup {NoOrder}] BY <1>0
  <2>4. w.book \in Book BY <2>3, <2>a, <1>0 DEF Book
  <2>5. w.intents \in [Keys -> Intent]
    <3> SUFFICES ASSUME NEW k \in Keys
                 PROVE  (IF k[2] \in gone /\ st.book.pending[k[2]].plan = k[1]
                                          /\ st.intents[k].cancelled = 0
                         THEN [st.intents[k] EXCEPT !.cancelled
                                    = Unfilled(st.book.pending[k[2]])]
                         ELSE st.intents[k]) \in Intent
      BY <1>0 DEF Withdrawn, Store
    <3>1. st.intents[k] \in Intent BY <1>0
    <3>2. CASE k[2] \in gone
      <4>1. st.book.pending[k[2]] \in Order /\ k[2] \in Symbols
        BY <3>2, <1>0 DEF Resting, Keys
      <4>2. Unfilled(st.book.pending[k[2]]) \in Nat
        BY <4>1, <3>2 DEF OrdersOpen, Unfilled, Order, Resting
      <4> QED BY <3>1, <4>2 DEF Intent
    <3> QED BY <3>1, <3>2
  <2>6. w \in Store
    <3>1. \E x, y : w = [st EXCEPT !.book = x, !.intents = y] BY DEF Withdrawn
    <3> QED BY <3>1, <2>3, <2>4, <2>5, <1>0 DEF Store
  <2> QED BY <2>1, <2>3, <2>4, <2>6, <1>0 DEF Store
<1> QED BY <1>1, <1>2

LEMMA SaveGood ==
    ASSUME NEW C, NEW st \in Store, Sound(st.book, C)
    PROVE  Good(Save(st), C) /\ Save(st).book = st.book
BY DEF Good, Save, Store

\* Soundness looks at the orders and the positions only.
LEMMA SoundSame ==
    ASSUME NEW C, NEW b, NEW c, Sound(b, C),
           c.pending = b.pending, c.position = b.position
    PROVE  Sound(c, C)
BY DEF Sound, OrdersOpen, PositionsOpen, OneSymbol, OnePlan, Claimed, Leaving

LEMMA CancelGood ==
    ASSUME NEW C, NEW st, Good(st, C), NEW S \in SUBSET Symbols
    PROVE  /\ Good(Cancel(st, S), C)
           /\ Cancel(st, S).book = [st.book EXCEPT !.pending =
                    [s \in Symbols |-> IF s \in S THEN NoOrder ELSE st.book.pending[s]]]
<1> DEFINE r == Cancel(st, S)
<1>1. st \in Store /\ OrdersOpen(st.book) BY DEF Good, Sound
<1>2. /\ r \in Store
      /\ r.book = [st.book EXCEPT !.pending =
            [s \in Symbols |-> IF s \in S THEN NoOrder ELSE st.book.pending[s]]]
      /\ r.saved \in {st.saved, r.book}
  BY <1>1, CancelFacts
<1>3. /\ r.book.position = st.book.position
      /\ \A s \in Symbols : r.book.pending[s] \in {NoOrder, st.book.pending[s]}
  BY <1>1, <1>2 DEF Store, Book
<1> HIDE DEF r
<1>4. Sound(r.book, C)
  BY <1>3 DEF Good, Sound, OrdersOpen, PositionsOpen, OneSymbol, OnePlan, Claimed, Leaving
<1> QED BY <1>2, <1>4 DEF Good, r

LEMMA FreshCountersFacts ==
    ASSUME NEW b \in Book
    PROVE  /\ FreshCounters(b) \in Book
           /\ FreshCounters(b).pending = b.pending
           /\ FreshCounters(b).position = b.position
           /\ FreshCounters(b).cash = b.cash
<1> DEFINE b1 == [b  EXCEPT !.session_realized = 0]
           b2 == [b1 EXCEPT !.trades_today = 0]
           b3 == [b2 EXCEPT !.submissions_today = 0]
           b4 == [b3 EXCEPT !.consecutive_stops = 0]
           b5 == [b4 EXCEPT !.cooldown_until = 0]
<1>1. b1 \in Book BY DEF Book
<1>2. b2 \in Book BY <1>1 DEF Book
<1>3. b3 \in Book BY <1>2 DEF Book
<1>4. b4 \in Book BY <1>3 DEF Book
<1>5. b5 \in Book BY <1>4 DEF Book
<1> QED BY <1>5 DEF FreshCounters, Book

LEMMA DateOfType == ASSUME NEW n \in Nat PROVE DateOf(n) \in Nat
BY BoundAssumption DEF DateOf

LEMMA EnsureSessionGood ==
    ASSUME NEW C, NEW st, Good(st, C), now \in Nat
    PROVE  Good(EnsureSession(st), C)
<1>1. CASE st.book.session_date = DateOf(now) BY <1>1 DEF EnsureSession
<1>2. CASE st.book.session_date # DateOf(now)
  <2> DEFINE b == [FreshCounters(st.book) EXCEPT !.session_date = DateOf(now)]
             n == [st EXCEPT !.book = b]
  <2>1. st \in Store /\ st.book \in Book BY DEF Good, Store
  <2>2. /\ FreshCounters(st.book) \in Book
        /\ FreshCounters(st.book).pending = st.book.pending
        /\ FreshCounters(st.book).position = st.book.position
    BY <2>1, FreshCountersFacts
  <2>3. b \in Book /\ b.pending = st.book.pending /\ b.position = st.book.position
    BY <2>2, DateOfType DEF Book
  <2> HIDE DEF b
  <2>4. n \in Store /\ n.book = b /\ n.saved = st.saved BY <2>1, <2>3 DEF Store
  <2>5. Sound(st.book, C) BY DEF Good
  <2>6. Sound(b, C) BY <2>3, <2>5, SoundSame
  <2>7. Good(n, C) BY <2>4, <2>6 DEF Good
  <2> HIDE DEF n
  <2>8. Good(Cancel(n, Symbols), C) BY <2>7, CancelGood
  <2>9. EnsureSession(st) = Save(Cancel(n, Symbols)) BY <1>2 DEF EnsureSession, n, b
  <2>10. Cancel(n, Symbols) \in Store /\ Sound(Cancel(n, Symbols).book, C)
    BY <2>8 DEF Good
  <2> QED BY <2>9, <2>10, SaveGood
<1> QED BY <1>1, <1>2

LEMMA OpenPositionType ==
    ASSUME NEW order \in Order, NEW s \in Symbols, NEW t \in Tick, now \in Nat
    PROVE  OpenPosition(order, s, t) \in Position
<1>1. t.bid \in Nat /\ order.plan \in Plans /\ Candidate[s].stop \in Nat
  BY CandidateFields DEF Tick, Order
<1> QED BY <1>1 DEF OpenPosition, Position

LEMMA FillCases ==
    ASSUME NEW st \in Store, NEW s \in Symbols, NEW t \in Tick, NEW v \in Nat,
           st.book.pending[s] # NoOrder, OrdersOpen(st.book)
    PROVE  \/ ApplyEntryFill(st, s, t, v) = st
           \/ \E q \in Nat \ {0} :
                /\ q <= Unfilled(st.book.pending[s])
                /\ q <= st.book.cash \div AllIn(Execution(t.ask))
                /\ ApplyEntryFill(st, s, t, v)
                    = Save([st EXCEPT !.book = Bought(st.book, s, t, q)])
<1> DEFINE b == st.book
           each == AllIn(Execution(t.ask))
           q == Smaller(Smaller(v, b.cash \div each), Unfilled(b.pending[s]))
<1>1. b \in Book /\ b.cash \in Int /\ b.pending[s] \in Order
  BY DEF Store, Book
<1>2. t.ask \in Nat /\ t.ask >= 1 BY DEF Tick
<1>3. each \in Nat /\ each >= 1 BY <1>2, ExecutionType, AllInType
<1>4. b.cash \div each \in Int BY <1>1, <1>3
<1>5. Unfilled(b.pending[s]) \in Nat
  BY <1>1 DEF Unfilled, Order, OrdersOpen
<1>6. /\ q \in Int /\ q <= Unfilled(b.pending[s]) /\ q <= b.cash \div each
  <2> HIDE DEF each, b
  <2> QED BY <1>4, <1>5 DEF Smaller
<1>7. CASE q <= 0 BY <1>7 DEF ApplyEntryFill
<1>8. CASE ~(q <= 0)
  <2>1. q \in Nat \ {0} BY <1>6, <1>8
  <2>2. ApplyEntryFill(st, s, t, v) = Save([st EXCEPT !.book = Bought(b, s, t, q)])
    BY <1>8 DEF ApplyEntryFill
  <2> QED BY <2>1, <2>2, <1>6
<1> QED BY <1>7, <1>8

LEMMA BoughtGood ==
    ASSUME NEW C, NEW b \in Book, Sound(b, C), NEW s \in Symbols, NEW t \in Tick,
           NEW q \in Nat \ {0}, b.pending[s] # NoOrder, q <= Unfilled(b.pending[s]),
           now \in Nat
    PROVE  /\ Bought(b, s, t, q) \in Book
           /\ Sound(Bought(b, s, t, q), C)
<1> DEFINE order == b.pending[s]
           each == AllIn(Execution(t.ask))
           held == IF b.position[s] # NoPosition THEN b.position[s]
                   ELSE OpenPosition(order, s, t)
           p == [held EXCEPT !.quantity = @ + q, !.remaining = @ + q,
                             !.entry_price = AveragePrice(held, each, q)]
           o == IF q = Unfilled(order) THEN NoOrder ELSE [order EXCEPT !.filled = @ + q]
           n == Bought(b, s, t, q)
<1>1. order \in Order /\ order.filled < order.desired /\ order.filled \in Nat
      /\ order.desired \in Nat
  BY DEF Book, Sound, OrdersOpen, Order
<1>2. held \in Position /\ held.plan = order.plan
  BY <1>1, OpenPositionType DEF Book, OpenPosition, Sound, OnePlan
<1>0. held.stop >= Candidate[s].stop
  BY CandidateFields DEF OpenPosition, Sound, PositionsOpen
<1>3. each \in Nat /\ each >= 1
  <2>1. t.ask \in Nat /\ t.ask >= 1 BY DEF Tick
  <2> QED BY <2>1, ExecutionType, AllInType
<1>4. held.quantity \in Nat /\ held.entry_price \in Nat /\ held.remaining \in Nat
  BY <1>2 DEF Position
<1> HIDE DEF order, each, held
<1>5. AveragePrice(held, each, q) \in Nat
  <2>1. held.entry_price * held.quantity \in Nat /\ each * q \in Nat
    BY <1>3, <1>4
  <2>2. held.quantity + q \in Nat \ {0} BY <1>4
  <2>3. held.entry_price * held.quantity + each * q \in Nat BY <2>1
  <2> HIDE DEF each
  <2> QED BY <2>2, <2>3 DEF AveragePrice
<1>6. /\ p \in Position /\ p.plan = order.plan /\ p.remaining > 0
      /\ p.stop = held.stop
  <2> DEFINE p1 == [held EXCEPT !.quantity = @ + q]
             p2 == [p1 EXCEPT !.remaining = @ + q]
             p3 == [p2 EXCEPT !.entry_price = AveragePrice(held, each, q)]
  <2>1. p1 \in Position /\ p1.remaining = held.remaining /\ p1.plan = held.plan
        /\ p1.stop = held.stop
    BY <1>2, <1>4 DEF Position
  <2>2. p2 \in Position /\ p2.remaining = held.remaining + q /\ p2.plan = held.plan
        /\ p2.stop = held.stop
    <3>1. p1.remaining + q \in Nat BY <2>1, <1>4
    <3> QED BY <2>1, <3>1 DEF Position
  <2>3. p3 \in Position /\ p3.remaining = held.remaining + q /\ p3.plan = held.plan
        /\ p3.stop = held.stop
    BY <2>2, <1>5 DEF Position
  <2>4. p3 = p OBVIOUS
  <2> QED BY <2>3, <2>4, <1>2, <1>4
<1>7. /\ o \in Order \cup {NoOrder}
      /\ o # NoOrder => o.filled < o.desired /\ o.plan = order.plan
  BY <1>1 DEF Order, Unfilled, order
<1>8. /\ p.exit_pending_at = held.exit_pending_at
      /\ p.filled_targets = held.filled_targets
  BY <1>2 DEF Position
<1>9. held.exit_pending_at = None /\ held.filled_targets = {}
  BY DEF held, OpenPosition, Sound, Leaving
<1> DEFINE tr == IF order.filled = 0 THEN b.trades_today + 1 ELSE b.trades_today
           cash == b.cash - each * q
<1>10. tr \in Nat /\ cash \in Int
  <2>1. each * q \in Int BY <1>3
  <2> QED BY <2>1 DEF Book
<1>11. n = [b EXCEPT !.cash = cash, !.position[s] = p,
                     !.trades_today = tr, !.pending[s] = o]
  BY DEF Bought, order, each, held
<1> HIDE DEF n, p, o, tr, cash
<1>12. n \in Book
  <2> DEFINE n1 == [b EXCEPT !.cash = cash]
             n2 == [n1 EXCEPT !.position[s] = p]
             n3 == [n2 EXCEPT !.trades_today = tr]
             n4 == [n3 EXCEPT !.pending[s] = o]
  <2>1. n1 \in Book BY <1>10 DEF Book
  <2>2. n2 \in Book BY <2>1, <1>6 DEF Book
  <2>3. n3 \in Book BY <2>2, <1>10 DEF Book
  <2>4. n4 \in Book BY <2>3, <1>7 DEF Book
  <2> QED BY <2>4, <1>11 DEF Book
<1>13. /\ n.pending = [b.pending EXCEPT ![s] = o]
       /\ n.position = [b.position EXCEPT ![s] = p]
  BY <1>11 DEF Book
<1>14. Sound(n, C)
  <2>1. /\ b.pending \in [Symbols -> Order \cup {NoOrder}]
        /\ b.position \in [Symbols -> Position \cup {NoPosition}]
    BY DEF Book
  <2>2. /\ \A r \in Symbols : r # s => /\ n.pending[r] = b.pending[r]
                                       /\ n.position[r] = b.position[r]
        /\ n.pending[s] = o /\ n.position[s] = p
    BY <2>1, <1>13
  <2>3. OrdersOpen(n) /\ PositionsOpen(n)
    BY <2>2, <1>0, <1>6, <1>7 DEF Sound, OrdersOpen, PositionsOpen
  <2>4. OneSymbol(n) BY <2>2 DEF Sound, OneSymbol
  <2>5. OnePlan(n) BY <2>2, <1>6, <1>7 DEF Sound, OnePlan
  <2>6. Claimed(n, C)
    BY <2>2, <1>6, <1>7 DEF Sound, Claimed, order
  <2>7. Leaving(n)
    BY <2>2, <1>8, <1>9 DEF Sound, Leaving
  <2> QED BY <2>3, <2>4, <2>5, <2>6, <2>7 DEF Sound
<1> QED BY <1>12, <1>14 DEF n

LEMMA ApplyEntryFillGood ==
    ASSUME NEW C, NEW st, Good(st, C), NEW s \in Symbols, NEW t \in Tick, NEW v \in Nat,
           st.book.pending[s] # NoOrder, now \in Nat
    PROVE  Good(ApplyEntryFill(st, s, t, v), C)
<1>1. st \in Store /\ st.book \in Book /\ OrdersOpen(st.book) /\ Sound(st.book, C)
  BY DEF Good, Store, Sound
<1>2. CASE ApplyEntryFill(st, s, t, v) = st BY <1>2
<1>3. ASSUME NEW q \in Nat \ {0}, q <= Unfilled(st.book.pending[s]),
             ApplyEntryFill(st, s, t, v)
                = Save([st EXCEPT !.book = Bought(st.book, s, t, q)])
      PROVE  Good(ApplyEntryFill(st, s, t, v), C)
  <2> DEFINE n == [st EXCEPT !.book = Bought(st.book, s, t, q)]
  <2>1. Bought(st.book, s, t, q) \in Book /\ Sound(Bought(st.book, s, t, q), C)
    BY <1>1, <1>3, BoughtGood
  <2>2. n \in Store /\ n.book = Bought(st.book, s, t, q) BY <1>1, <2>1 DEF Store
  <2>3. Good(Save(n), C) BY <2>1, <2>2, SaveGood
  <2> QED BY <1>3, <2>3
<1> QED BY <1>1, <1>2, <1>3, FillCases

LEMMA VisibleType == ASSUME NEW t \in Tick PROVE Visible(t) \in Nat
<1>1. t.trade_size * Cost.participation_pct \in Nat BY CostFields DEF Tick
<1>2. (t.trade_size * Cost.participation_pct) \div 100 \in Nat BY <1>1
<1> QED BY <1>2, CostFields DEF Visible, Smaller, Tick

LEMMA ProcessPendingGood ==
    ASSUME NEW C, NEW st, Good(st, C), NEW s \in Symbols, NEW t \in Tick, now \in Nat
    PROVE  Good(ProcessPending(st, s, t), C)
<1>1. Good(Cancel(st, {s}), C) BY CancelGood
<1>2. st.book.pending[s] # NoOrder => Good(ApplyEntryFill(st, s, t, Visible(t)), C)
  BY VisibleType, ApplyEntryFillGood
<1> QED BY <1>1, <1>2 DEF ProcessPending

\* A sale leaves the orders alone and can only shrink or end the position.
LEMMA SoldGood ==
    ASSUME NEW C, NEW b \in Book, Sound(b, C), NEW s \in Symbols, NEW t \in Tick,
           NEW q \in Nat \ {0}, b.position[s] # NoPosition, q <= b.position[s].remaining,
           NEW reason, now \in Nat
    PROVE  /\ Sold(b, s, q, t, reason) \in Book
           /\ Sound(Sold(b, s, q, t, reason), C)
<1> DEFINE p == b.position[s]
           net == ExitNet(t.bid * q)
           pnl == net - p.entry_price * q
           stopped == p.remaining = q /\ reason = "STOP_LOSS"
           left == IF p.remaining = q THEN NoPosition ELSE [p EXCEPT !.remaining = @ - q]
           stops == IF stopped THEN b.consecutive_stops + 1
                    ELSE IF p.remaining = q /\ pnl > 0 THEN 0 ELSE b.consecutive_stops
           cool == IF stopped THEN now + Cost.stop_cooldown ELSE b.cooldown_until
           cash == b.cash + net
           total == b.realized + pnl
           today == b.session_realized + pnl
           n == Sold(b, s, q, t, reason)
<1>1. p \in Position /\ p.remaining \in Nat /\ p.entry_price \in Nat
  BY DEF Book, Position
<1>2. net \in Int /\ pnl \in Int
  <2>1. t.bid * q \in Int BY DEF Tick
  <2>2. net \in Int BY <2>1, ExitNetType
  <2>3. p.entry_price * q \in Int BY <1>1
  <2> QED BY <2>2, <2>3
<1> HIDE DEF net, pnl
<1>3. left \in Position \cup {NoPosition}
  <2>1. CASE p.remaining = q BY <2>1
  <2>2. CASE p.remaining # q
    <3>1. p.remaining - q \in Nat BY <1>1
    <3> QED BY <1>1, <2>2, <3>1 DEF Position
  <2> QED BY <2>1, <2>2
<1>4. left # NoPosition =>
        /\ left.remaining > 0 /\ left.plan = p.plan /\ left.stop = p.stop
        /\ left.exit_pending_at = p.exit_pending_at
        /\ left.filled_targets = p.filled_targets
  BY <1>1 DEF Position
<1>5. /\ stops \in Nat /\ cool \in Nat
      /\ cash \in Int /\ total \in Int /\ today \in Int
  BY <1>2, CostFields DEF Book
<1>6. n = [b EXCEPT !.cash = cash, !.realized = total, !.session_realized = today,
                    !.position[s] = left, !.consecutive_stops = stops,
                    !.cooldown_until = cool]
  BY DEF Sold, net, pnl
<1> HIDE DEF n, left, stops, cool, cash, total, today
<1>7. n \in Book
  <2> DEFINE n1 == [b EXCEPT !.cash = cash]
             n2 == [n1 EXCEPT !.realized = total]
             n3 == [n2 EXCEPT !.session_realized = today]
             n4 == [n3 EXCEPT !.position[s] = left]
             n5 == [n4 EXCEPT !.consecutive_stops = stops]
             n6 == [n5 EXCEPT !.cooldown_until = cool]
  <2>1. n1 \in Book BY <1>5 DEF Book
  <2>2. n2 \in Book BY <2>1, <1>5 DEF Book
  <2>3. n3 \in Book BY <2>2, <1>5 DEF Book
  <2>4. n4 \in Book BY <2>3, <1>3 DEF Book
  <2>5. n5 \in Book BY <2>4, <1>5 DEF Book
  <2>6. n6 \in Book BY <2>5, <1>5 DEF Book
  <2> QED BY <2>6, <1>6 DEF Book
<1>8. n.pending = b.pending /\ n.position = [b.position EXCEPT ![s] = left]
  BY <1>6 DEF Book
<1>9. Sound(n, C)
  <2>1. b.position \in [Symbols -> Position \cup {NoPosition}] BY DEF Book
  <2>2. /\ \A r \in Symbols : r # s => n.position[r] = b.position[r]
        /\ n.position[s] = left
    BY <2>1, <1>8
  <2>3. OrdersOpen(n) /\ PositionsOpen(n)
    BY <2>2, <1>4, <1>8 DEF Sound, OrdersOpen, PositionsOpen
  <2>4. OneSymbol(n) BY <2>2, <1>8 DEF Sound, OneSymbol
  <2>5. OnePlan(n) /\ Claimed(n, C)
    BY <2>2, <1>4, <1>8 DEF Sound, OnePlan, Claimed
  <2>6. Leaving(n) BY <2>2, <1>4, <1>8 DEF Sound, Leaving
  <2> QED BY <2>3, <2>4, <2>5, <2>6 DEF Sound
<1> QED BY <1>7, <1>9 DEF n

LEMMA CloseQuantityGood ==
    ASSUME NEW C, NEW st, Good(st, C), NEW s \in Symbols, NEW t \in Tick,
           NEW quantity \in Int, st.book.position[s] # NoPosition, NEW reason, now \in Nat
    PROVE  Good(CloseQuantity(st, s, quantity, t, reason), C)
<1> DEFINE p == st.book.position[s]
           q == Smaller(quantity, p.remaining)
           b == Sold(st.book, s, q, t, reason)
           led == [st.intents EXCEPT ![<<p.plan, s>>].sold = @ + q]
           n == [st EXCEPT !.book = b, !.intents[<<p.plan, s>>].sold = @ + q]
<1>1. st \in Store /\ st.book \in Book /\ Sound(st.book, C)
      /\ st.intents \in [Keys -> Intent]
  BY DEF Good, Store
<1>2. p \in Position /\ p.remaining \in Nat /\ p.plan \in Plans
  BY <1>1 DEF Book, Position
<1>3. q \in Int /\ q <= p.remaining BY <1>2 DEF Smaller
<1>4. CASE q <= 0 BY <1>4 DEF CloseQuantity
<1>5. CASE ~(q <= 0)
  <2>1. q \in Nat \ {0} BY <1>3, <1>5
  <2>2. CloseQuantity(st, s, quantity, t, reason) = Save(n) BY <1>5 DEF CloseQuantity
  <2> HIDE DEF q, p
  <2>3. b \in Book /\ Sound(b, C) BY <1>1, <1>3, <2>1, SoldGood DEF p
  <2> HIDE DEF b
  <2>4. <<p.plan, s>> \in Keys BY <1>2 DEF Keys
  <2>5. led \in [Keys -> Intent]
    <3>1. st.intents[<<p.plan, s>>] \in Intent BY <1>1, <2>4
    <3>2. [st.intents[<<p.plan, s>>] EXCEPT !.sold = @ + q] \in Intent
      BY <3>1, <2>1 DEF Intent
    <3> QED BY <1>1, <3>2
  <2>6. n = [st EXCEPT !.book = b, !.intents = led] BY <1>1 DEF Store
  <2> HIDE DEF n, led
  <2>7. n \in Store /\ n.book = b BY <1>1, <2>3, <2>5, <2>6 DEF Store
  <2>8. Good(Save(n), C) BY <2>3, <2>7, SaveGood
  <2> QED BY <2>2, <2>8
<1> QED BY <1>4, <1>5

\* Changing a position without touching what soundness looks at.
LEMMA PositionTouched ==
    ASSUME NEW C, NEW st, Good(st, C), NEW s \in Symbols, NEW p \in Position,
           st.book.position[s] # NoPosition,
           p.plan = st.book.position[s].plan, p.remaining > 0,
           p.stop >= st.book.position[s].stop,
           \/ st.book.pending[s] = NoOrder
           \/ /\ p.exit_pending_at = st.book.position[s].exit_pending_at
              /\ p.filled_targets = st.book.position[s].filled_targets
    PROVE  /\ Good([st EXCEPT !.book.position[s] = p], C)
           /\ [st EXCEPT !.book.position[s] = p].book.position[s] = p
           /\ [st EXCEPT !.book.position[s] = p].book.pending = st.book.pending
<1> DEFINE n == [st.book EXCEPT !.position = [@ EXCEPT ![s] = p]]
<1>1. /\ st \in Store /\ st.book \in Book /\ Sound(st.book, C)
      /\ st.book.position \in [Symbols -> Position \cup {NoPosition}]
  BY DEF Good, Store, Book
<1>2. /\ n \in Book /\ n.pending = st.book.pending
      /\ n.position = [st.book.position EXCEPT ![s] = p]
  BY <1>1 DEF Book
<1>3. [st EXCEPT !.book.position[s] = p] = [st EXCEPT !.book = n] BY <1>1 DEF Store
<1> HIDE DEF n
<1>4. Sound(n, C)
  <2>1. /\ \A r \in Symbols : r # s => n.position[r] = st.book.position[r]
        /\ n.position[s] = p
    BY <1>1, <1>2
  <2>0. p.stop >= Candidate[s].stop
    <3>1. /\ p.stop \in Nat /\ st.book.position[s].stop \in Nat
          /\ Candidate[s].stop \in Nat
      BY <1>1, CandidateFields DEF Position
    <3> QED BY <1>1, <3>1 DEF Sound, PositionsOpen
  <2>2. OrdersOpen(n) /\ PositionsOpen(n)
    BY <2>0, <2>1, <1>1, <1>2 DEF Sound, OrdersOpen, PositionsOpen
  <2>3. OneSymbol(n) BY <2>1, <1>1, <1>2 DEF Sound, OneSymbol
  <2>4. OnePlan(n) /\ Claimed(n, C)
    BY <2>1, <1>1, <1>2 DEF Sound, OnePlan, Claimed
  <2>5. Leaving(n) BY <2>1, <1>1, <1>2 DEF Sound, Leaving
  <2> QED BY <2>2, <2>3, <2>4, <2>5 DEF Sound
<1>5. [st EXCEPT !.book = n] \in Store BY <1>1, <1>2 DEF Store
<1> QED BY <1>1, <1>2, <1>3, <1>4, <1>5 DEF Good, Store

LEMMA BeginExitGood ==
    ASSUME NEW C, NEW st, Good(st, C), NEW s \in Symbols,
           st.book.position[s] # NoPosition, now \in Nat
    PROVE  /\ Good(BeginExit(st, s), C)
           /\ BeginExit(st, s).book.position[s] # NoPosition
<1> DEFINE p == [st.book.position[s] EXCEPT !.exit_pending_at = now]
           n == [st EXCEPT !.book.position[s].exit_pending_at = now]
           r == Cancel(n, {s})
<1>1. /\ st \in Store /\ st.book \in Book /\ Sound(st.book, C) /\ Sound(st.saved, C)
      /\ st.book.position \in [Symbols -> Position \cup {NoPosition}]
      /\ st.book.position[s] \in Position
      /\ st.book.pending \in [Symbols -> Order \cup {NoOrder}]
  BY DEF Good, Store, Book
<1>2. CASE st.book.position[s].exit_pending_at # None
  BY <1>2 DEF BeginExit
<1>3. CASE st.book.position[s].exit_pending_at = None
  <2>1. p \in Position /\ p.plan = st.book.position[s].plan
        /\ p.remaining = st.book.position[s].remaining
        /\ p.stop = st.book.position[s].stop
    BY <1>1 DEF Position
  <2>2. n \in Store /\ n.saved = st.saved /\ n.book.pending = st.book.pending
        /\ n.book.position = [st.book.position EXCEPT ![s] = p]
    <3> DEFINE b == [st.book EXCEPT !.position = [@ EXCEPT ![s] = p]]
    <3>1. n = [st EXCEPT !.book = b] BY <1>1 DEF Store, Book
    <3>2. b \in Book /\ b.pending = st.book.pending
          /\ b.position = [st.book.position EXCEPT ![s] = p]
      BY <1>1, <2>1 DEF Book
    <3> QED BY <1>1, <3>1, <3>2 DEF Store
  <2> HIDE DEF n
  <2>3. OrdersOpen(n.book) BY <1>1, <2>2 DEF Sound, OrdersOpen
  <2>4. /\ r \in Store /\ r.saved \in {n.saved, r.book}
        /\ r.book = [n.book EXCEPT !.pending =
             [x \in Symbols |-> IF x \in {s} THEN NoOrder ELSE n.book.pending[x]]]
    BY <2>2, <2>3, CancelFacts
  <2>5. /\ r.book.position = [st.book.position EXCEPT ![s] = p]
        /\ r.book.pending = [st.book.pending EXCEPT ![s] = NoOrder]
    BY <1>1, <2>2, <2>4 DEF Store, Book
  <2> HIDE DEF r, p
  <2>6. /\ \A x \in Symbols : x # s => /\ r.book.position[x] = st.book.position[x]
                                       /\ r.book.pending[x] = st.book.pending[x]
        /\ r.book.position[s] = p /\ r.book.pending[s] = NoOrder
    BY <1>1, <2>5
  <2>7. Sound(r.book, C)
    <3>1. OrdersOpen(r.book) /\ PositionsOpen(r.book)
      BY <1>1, <2>1, <2>6 DEF Sound, OrdersOpen, PositionsOpen
    <3>2. OneSymbol(r.book) BY <1>1, <2>6 DEF Sound, OneSymbol
    <3>3. OnePlan(r.book) /\ Claimed(r.book, C)
      BY <1>1, <2>1, <2>6 DEF Sound, OnePlan, Claimed
    <3>4. Leaving(r.book) BY <1>1, <2>6 DEF Sound, Leaving
    <3> QED BY <3>1, <3>2, <3>3, <3>4 DEF Sound
  <2>8. Good(r, C) BY <1>1, <2>2, <2>4, <2>7 DEF Good
  <2>9. BeginExit(st, s) = r BY <1>3 DEF BeginExit, r, n
  <2>10. p # NoPosition BY <2>1, NoneAssumption
  <2> QED BY <2>6, <2>8, <2>9, <2>10
<1> QED BY <1>2, <1>3

LEMMA MarkTargetGood ==
    ASSUME NEW C, NEW st, Good(st, C), NEW s \in Symbols, NEW i \in {1, 2, 3},
           st.book.position[s] # NoPosition
    PROVE  /\ Good(MarkTarget(st, s, i), C)
           /\ MarkTarget(st, s, i).book.position[s] # NoPosition
<1> DEFINE c == Cancel(st, {s})
           p == [c.book.position[s] EXCEPT !.filled_targets = @ \cup {i}]
<1>1. /\ Good(c, C)
      /\ c.book = [st.book EXCEPT !.pending =
           [x \in Symbols |-> IF x \in {s} THEN NoOrder ELSE st.book.pending[x]]]
  BY CancelGood
<1>2. st.book \in Book BY DEF Good, Store
<1>3. c.book.position[s] = st.book.position[s] /\ c.book.pending[s] = NoOrder
  BY <1>1, <1>2 DEF Book
<1> HIDE DEF c
<1>4. c.book.position[s] \in Position /\ c.book.position[s].remaining > 0
  BY <1>1, <1>3 DEF Good, Store, Book, Sound, PositionsOpen
<1>5. p \in Position /\ p.plan = c.book.position[s].plan /\ p.remaining > 0
      /\ p.stop >= c.book.position[s].stop
  BY <1>4 DEF Position
<1>6. MarkTarget(st, s, i) = [c EXCEPT !.book.position[s] = p]
  BY <1>1 DEF MarkTarget, c
<1> HIDE DEF p
<1>7. p # NoPosition BY <1>5, NoneAssumption
<1>8. c.book.position[s] # NoPosition BY <1>3
<1>9. /\ Good([c EXCEPT !.book.position[s] = p], C)
      /\ [c EXCEPT !.book.position[s] = p].book.position[s] = p
  <2>1. Good(c, C) BY <1>1
  <2>2. c.book.pending[s] = NoOrder BY <1>3
  <2> QED BY <2>1, <2>2, <1>5, <1>8, PositionTouched
<1> QED BY <1>6, <1>7, <1>9

LEMMA TakeProfitGood ==
    ASSUME NEW C, NEW st, Good(st, C), NEW s \in Symbols, NEW t \in Tick,
           NEW i \in {1, 2, 3}, now \in Nat
    PROVE  Good(TakeProfit(st, s, t, i), C)
<1>1. CASE ~TargetDue(st, s, t, i) BY <1>1 DEF TakeProfit
<1>2. CASE TargetDue(st, s, t, i)
  <2> DEFINE p == st.book.position[s]
             tq == TargetQuantity(s, p.quantity, i)
             closed == CloseQuantity(MarkTarget(st, s, i), s, tq, t, "TARGET")
             stop == Larger(closed.book.position[s].stop, p.entry_price)
             moved == [closed.book.position[s] EXCEPT !.stop = stop]
  <2>1. p # NoPosition /\ i <= Len(Candidate[s].targets) BY <1>2 DEF TargetDue
  <2>2. p \in Position /\ p.quantity \in Nat /\ p.entry_price \in Nat
    BY <2>1 DEF Good, Store, Book, Position
  <2>3. tq \in Int
    <3>1. i \in 1..3 OBVIOUS
    <3> QED BY <2>1, <2>2, <3>1, TargetQuantityType
  <2> HIDE DEF tq
  <2>4. Good(closed, C) BY <2>1, <2>3, MarkTargetGood, CloseQuantityGood
  <2> HIDE DEF closed
  <2>5. ASSUME closed.book.position[s] # NoPosition
        PROVE  Good([closed EXCEPT !.book.position[s] = moved], C)
    <3>1. closed.book.position[s] \in Position /\ closed.book.position[s].remaining > 0
      BY <2>4, <2>5 DEF Good, Store, Book, Sound, PositionsOpen
    <3>2. stop \in Nat /\ stop >= closed.book.position[s].stop
      BY <2>2, <3>1 DEF Larger, Position
    <3> HIDE DEF stop
    <3>3. /\ moved \in Position /\ moved.remaining > 0
          /\ moved.stop >= closed.book.position[s].stop
          /\ moved.plan = closed.book.position[s].plan
          /\ moved.exit_pending_at = closed.book.position[s].exit_pending_at
          /\ moved.filled_targets = closed.book.position[s].filled_targets
      BY <3>1, <3>2 DEF Position
    <3> HIDE DEF moved
    <3> QED BY <2>4, <2>5, <3>3, PositionTouched
  <2>6. TakeProfit(st, s, t, i) =
            IF i = 1 /\ Candidate[s].move_stop /\ closed.book.position[s] # NoPosition
            THEN [closed EXCEPT !.book.position[s] = moved] ELSE closed
    BY <1>2 DEF TakeProfit, closed, tq
  <2> QED BY <2>4, <2>5, <2>6
<1> QED BY <1>1, <1>2

----
\* The inductive invariant: the store is sound for the keys claimed so far.

IInv == Good(Current, claimed) /\ now \in Nat /\ now <= Horizon /\ claimed \in SUBSET Keys

\* More claims keep a book sound.
LEMMA MoreClaims ==
    ASSUME NEW C, NEW D, C \subseteq D, NEW b, Sound(b, C)
    PROVE  Sound(b, D)
BY DEF Sound, Claimed

\* The store a step leads to.
After == [book |-> book', saved |-> saved', intents |-> intents']

\* A handler that ends in a good store.
LEMMA Handled ==
    ASSUME NEW C, NEW st, Good(st, C), Becomes(st)
    PROVE  Good(After, C)
<1>1. st = After BY DEF Good, Store, After, Becomes
<1> QED BY <1>1

\* A step to a good store that keeps clock and claims.
LEMMA Kept ==
    ASSUME IInv, Good(After, claimed), UNCHANGED <<claimed, now>>
    PROVE  IInv'
BY DEF IInv, Good, Sound, After, Current

LEMMA InitSound == Init => IInv
<1> SUFFICES ASSUME Init PROVE IInv OBVIOUS
<1>1. EmptyBook.cash \in Int /\ 0 \in Nat /\ 0 \in Int
  BY CostFields DEF EmptyBook
<1>2. EmptyBook \in Book BY <1>1, CostFields DEF EmptyBook, Book
<1>3. Sound(EmptyBook, claimed)
  BY DEF EmptyBook, Sound, OrdersOpen, PositionsOpen, OneSymbol, OnePlan, Claimed, Leaving
<1>4. intents \in [Keys -> Intent] BY DEF Init, Intent
<1>5. Current \in Store BY <1>2, <1>4 DEF Init, Current, Store
<1> QED BY <1>2, <1>3, <1>5, BoundAssumption DEF Init, IInv, Good, Current

LEMMA LiveFacts ==
    ASSUME NEW C, Good(Current, C), now \in Nat, NEW s \in Symbols, NEW t \in Ticks
    PROVE  /\ t \in Tick
           /\ Good(Filled(s, t), C)
           /\ Live(s, t) => Good(Marked(s, t), C)
                            /\ Marked(s, t).book.position[s] # NoPosition
           /\ Live(s, t) => Good(Watched(s, t), C)
                            /\ Watched(s, t).book.position[s] # NoPosition
<1>1. t \in Tick BY TickAssumption
<1>2. Good(Filled(s, t), C)
  BY <1>1, ProcessPendingGood DEF Filled
<1> SUFFICES ASSUME Live(s, t)
             PROVE  /\ Good(Marked(s, t), C)
                    /\ Marked(s, t).book.position[s] # NoPosition
                    /\ Good(Watched(s, t), C)
                    /\ Watched(s, t).book.position[s] # NoPosition
  BY <1>1, <1>2
<1> DEFINE f == Filled(s, t)
           high == Larger(f.book.position[s].highest, t.bid)
           p == [f.book.position[s] EXCEPT !.highest = high]
           m == Marked(s, t)
<1>3. f.book.position[s] # NoPosition BY DEF Live
<1>4. f.book.position[s] \in Position /\ f.book.position[s].remaining > 0
  BY <1>2, <1>3 DEF Good, Store, Book, Sound, PositionsOpen
<1>5. high \in Nat BY <1>1, <1>4 DEF Larger, Position, Tick
<1> HIDE DEF high
<1>6. /\ p \in Position /\ p.remaining > 0
      /\ p.stop >= f.book.position[s].stop
      /\ p.plan = f.book.position[s].plan
      /\ p.exit_pending_at = f.book.position[s].exit_pending_at
      /\ p.filled_targets = f.book.position[s].filled_targets
  BY <1>4, <1>5 DEF Position
<1>7. m = [f EXCEPT !.book.position[s] = p] BY <1>2 DEF Marked, high
<1> HIDE DEF f, p, m
<1>8. Good(m, C) /\ m.book.position[s] = p /\ p # NoPosition
  <2>1. Good(f, C) BY <1>2 DEF f
  <2>2. /\ Good([f EXCEPT !.book.position[s] = p], C)
        /\ [f EXCEPT !.book.position[s] = p].book.position[s] = p
    BY <2>1, <1>3, <1>6, PositionTouched DEF f
  <2> QED BY <2>2, <1>6, <1>7, NoneAssumption
<1> DEFINE since == IF t.vwap = "above" THEN None
                    ELSE IF m.book.position[s].below_vwap_since = None THEN now
                         ELSE m.book.position[s].below_vwap_since
           w == [m.book.position[s] EXCEPT !.below_vwap_since = since]
<1>9. m.book.position[s] \in Position BY <1>6, <1>8
<1>10. since \in Nat \cup {None} BY <1>9 DEF Position
<1> HIDE DEF since
<1>11. /\ w \in Position /\ w.remaining > 0
       /\ w.stop >= m.book.position[s].stop
       /\ w.plan = m.book.position[s].plan
       /\ w.exit_pending_at = m.book.position[s].exit_pending_at
       /\ w.filled_targets = m.book.position[s].filled_targets
  BY <1>6, <1>8, <1>9, <1>10 DEF Position
<1>12. Watched(s, t) = m \/ Watched(s, t) = [m EXCEPT !.book.position[s] = w]
  BY <1>8 DEF Watched, m, since
<1> HIDE DEF w
<1>13. /\ Good([m EXCEPT !.book.position[s] = w], C)
       /\ [m EXCEPT !.book.position[s] = w].book.position[s] = w
       /\ w # NoPosition
  BY <1>8, <1>11, PositionTouched, NoneAssumption
<1> QED BY <1>8, <1>12, <1>13 DEF m

LEMMA CloseAllGood ==
    ASSUME NEW C, NEW st, Good(st, C), NEW s \in Symbols, NEW t \in Tick,
           st.book.position[s] # NoPosition, NEW reason, now \in Nat
    PROVE  Good(CloseAll(st, s, t, reason), C)
<1>1. st.book.position[s] \in Position BY DEF Good, Store, Book
<1>2. st.book.position[s].remaining \in Int BY <1>1 DEF Position
<1> QED BY <1>2, CloseQuantityGood DEF CloseAll

LEMMA TickGood ==
    ASSUME NEW C, Good(Current, C), now \in Nat,
           NEW s \in Symbols, NEW t \in Ticks, OnTick(s, t)
    PROVE  Good(After, C)
<1>1. /\ t \in Tick
      /\ Good(Filled(s, t), C)
      /\ Live(s, t) => Good(Marked(s, t), C)
                       /\ Marked(s, t).book.position[s] # NoPosition
      /\ Live(s, t) => Good(Watched(s, t), C)
                       /\ Watched(s, t).book.position[s] # NoPosition
      /\ now \in Nat
  BY LiveFacts
<1>2. CASE TickIdle(s, t) BY <1>1, <1>2, Handled DEF TickIdle
<1>3. Live(s, t) => /\ Good(BeginExit(Marked(s, t), s), C)
                    /\ BeginExit(Marked(s, t), s).book.position[s] # NoPosition
  BY <1>1, BeginExitGood
<1>4. CASE TickStopExecuted(s, t)
  <2> DEFINE st == BeginExit(Marked(s, t), s)
  <2>1. Good(CloseAll(st, s, t, "STOP_LOSS"), C)
    BY <1>1, <1>3, <1>4, CloseAllGood DEF TickStopExecuted
  <2>2. Becomes(CloseAll(st, s, t, "STOP_LOSS"))
    BY <1>4 DEF TickStopExecuted
  <2> QED BY <2>1, <2>2, Handled
<1>5. CASE TickStopWaits(s, t) BY <1>3, <1>5, Handled DEF TickStopWaits
<1>6. CASE TickTimedExit(s, t)
  <2>1. Good(CloseAll(Watched(s, t), s, t, "TIMED_EXIT"), C)
    BY <1>1, <1>6, CloseAllGood DEF TickTimedExit
  <2> QED BY <2>1, <1>6, Handled DEF TickTimedExit
<1>7. CASE TickTargets(s, t)
  <2> DEFINE a == TakeProfit(Watched(s, t), s, t, 1)
             b == TakeProfit(a, s, t, 2)
             c == TakeProfit(b, s, t, 3)
  <2>1. Good(a, C) BY <1>1, <1>7, TakeProfitGood DEF TickTargets
  <2>2. Good(b, C) BY <1>1, <2>1, TakeProfitGood
  <2>3. Good(c, C) BY <1>1, <2>2, TakeProfitGood
  <2>4. Good(Save(c), C) BY <2>3, SaveGood DEF Good
  <2>5. Becomes(Save(c)) BY <1>7 DEF TickTargets
  <2> QED BY <2>4, <2>5, Handled
<1> QED BY <1>2, <1>4, <1>5, <1>6, <1>7 DEF OnTick

\* An admissible entry finds the slot empty and buys at least one share.
LEMMA AdmissibleFacts ==
    ASSUME NEW C, NEW st, Good(st, C), NEW p \in Plans, NEW s \in Symbols,
           Admissible(st, p, s)
    PROVE  /\ \A r \in Symbols : /\ st.book.pending[r] = NoOrder
                                 /\ st.book.position[r] = NoPosition
           /\ EntryQuantity(st.book, s) \in Nat \ {0}
           /\ EntryQuantity(st.book, s) * AllIn(Candidate[s].limit) <= st.book.cash
<1> DEFINE b == st.book
           q == EntryQuantity(b, s)
           each == AllIn(Candidate[s].limit)
<1>1. b \in Book /\ b.cash \in Int /\ b.session_realized \in Int
  BY DEF Good, Store, Book
<1>2. Resting(b) = {} /\ Holding(b) = {}
  BY DEF Admissible, CanSubmit, SlotFree
<1>3. WorstCaseRisk(s) \in Nat /\ WorstCaseRisk(s) > 0
  BY WorstCaseRiskType DEF Admissible
<1>4. each \in Nat /\ each >= 1
  BY CandidateFields, AllInType
<1>5. PositionRisk(b) = 0 /\ PendingRisk(b) = 0
  BY <1>2, TotalEmpty DEF PositionRisk, PendingRisk
<1>6. RiskBudget(b) \in Int
  <2>1. DailyRiskUsed(b) \in Int BY <1>1, <1>5 DEF DailyRiskUsed, Larger
  <2>2. DailyBudget \in Int /\ TradeBudget \in Int
    BY CostFields DEF DailyBudget, TradeBudget
  <2> HIDE DEF b
  <2> QED BY <2>1, <2>2 DEF RiskBudget, Smaller, Larger
<1>7. RiskBudget(b) \div WorstCaseRisk(s) \in Int /\ b.cash \div each \in Int
  BY <1>1, <1>3, <1>4, <1>6
<1>8. Cost.max_quantity \in Int BY CostFields
<1>9. q \in Int /\ q <= b.cash \div each
  <2> HIDE DEF b
  <2> QED BY <1>7, <1>8 DEF EntryQuantity, Smaller
<1>10. q > 0 BY DEF Admissible
<1>11. q * each <= b.cash
  <2> HIDE DEF q, each, b
  <2>1. q * each <= (b.cash \div each) * each
    BY <1>4, <1>7, <1>9, <1>10, SMTT(30)
  <2>2. (b.cash \div each) * each <= b.cash BY <1>1, <1>4, SMTT(30)
  <2> QED BY <1>1, <1>4, <1>7, <1>9, <2>1, <2>2
<1> QED BY <1>2, <1>9, <1>10, <1>11 DEF Resting, Holding

LEMMA SubmitSound ==
    ASSUME IInv, NEW p \in Plans, NEW s \in Symbols, SubmitAccepted(p, s)
    PROVE  IInv'
<1> DEFINE st == EnsureSession(Current)
           q  == EntryQuantity(st.book, s)
           o  == [plan |-> p, eligible_at |-> now + Cost.latency,
                  expires_at |-> now + Cost.timeout, desired |-> q, filled |-> 0]
           n1 == [st EXCEPT !.book.pending[s] = o]
           n2 == [n1 EXCEPT !.book.submissions_today = @ + 1]
           n3 == [n2 EXCEPT !.intents[<<p, s>>].bought = q]
           D  == claimed \cup {<<p, s>>}
<1>0. now \in Nat /\ <<p, s>> \in Keys BY DEF IInv, Keys
<1>1. Good(st, claimed) BY <1>0, EnsureSessionGood DEF IInv
<1>2. Admissible(st, p, s) BY DEF SubmitAccepted
<1>3. /\ \A r \in Symbols : /\ st.book.pending[r] = NoOrder
                            /\ st.book.position[r] = NoPosition
      /\ q \in Nat \ {0}
  BY <1>1, <1>2, AdmissibleFacts
<1>4. Becomes(Save(n3)) /\ claimed' = D /\ now' = now BY DEF SubmitAccepted
<1>5. /\ st \in Store /\ st.book \in Book /\ st.saved \in Book
      /\ st.intents \in [Keys -> Intent] /\ Sound(st.saved, claimed)
  BY <1>1 DEF Good, Store
<1> HIDE DEF st, q
<1>6. o \in Order BY <1>0, <1>3, CostFields DEF Order
<1> DEFINE pend == [st.book.pending EXCEPT ![s] = o]
           b == [[st.book EXCEPT !.pending = pend] EXCEPT !.submissions_today = @ + 1]
           led == [st.intents EXCEPT ![<<p, s>>].bought = q]
<1>7. n3 = [[st EXCEPT !.book = b] EXCEPT !.intents = led] BY <1>5 DEF Store, Book
<1>8. led \in [Keys -> Intent]
  <2>1. [st.intents[<<p, s>>] EXCEPT !.bought = q] \in Intent
    BY <1>0, <1>3, <1>5 DEF Intent
  <2> QED BY <1>5, <2>1
<1>9. pend \in [Symbols -> Order \cup {NoOrder}] BY <1>5, <1>6 DEF Book
<1> HIDE DEF pend, led
<1>10. b \in Book /\ b.pending = pend /\ b.position = st.book.position
  <2> DEFINE a == [st.book EXCEPT !.pending = pend]
  <2>1. a \in Book /\ a.pending = pend /\ a.position = st.book.position
    BY <1>5, <1>9 DEF Book
  <2> HIDE DEF a
  <2>2. [a EXCEPT !.submissions_today = @ + 1] \in Book
    BY <2>1 DEF Book
  <2>3. /\ [a EXCEPT !.submissions_today = @ + 1].pending = a.pending
        /\ [a EXCEPT !.submissions_today = @ + 1].position = a.position
    BY <2>1 DEF Book
  <2> QED BY <2>1, <2>2, <2>3 DEF a
<1> HIDE DEF b, n3
<1>11. n3 \in Store /\ n3.book = b BY <1>5, <1>7, <1>8, <1>10 DEF Store
<1>12. /\ \A r \in Symbols : r # s => pend[r] = NoOrder
       /\ pend[s] = o
  BY <1>3, <1>5 DEF pend, Book
<1>13. o.filled < o.desired /\ o.plan = p BY <1>3
<1>14. Sound(b, D)
  <2> HIDE DEF o
  <2> QED BY <1>3, <1>10, <1>12, <1>13
        DEF Sound, OrdersOpen, PositionsOpen, OneSymbol, OnePlan, Claimed, Leaving
<1>15. Good(Save(n3), D) BY <1>11, <1>14, SaveGood
<1>16. Current' = Save(n3)
  <2>1. Save(n3) \in Store BY <1>15 DEF Good
  <2> QED BY <2>1, <1>4 DEF Current, Becomes, Store
<1>17. D \in SUBSET Keys BY <1>0 DEF IInv
<1> QED BY <1>4, <1>15, <1>16, <1>17 DEF IInv, Good, Sound

\* Every step but a new entry and the clock.
Handles ==
    \/ \E s \in Symbols, t \in Ticks : OnTick(s, t)
    \/ \E p \in Plans, s \in Symbols : SubmitRefused(p, s)
    \/ \E s \in Symbols : CancelPending(s)
    \/ \E s \in Symbols, t \in Ticks : \/ CorporateActionCloses(s, t)
                                      \/ CorporateActionKeeps(s, t)
                                      \/ ForceClosePriced(s, t)
    \/ ForceCloseUnpriced \/ ExpirePending \/ ResetDay \/ Restart

LEMMA HandlesGood ==
    ASSUME NEW C, Good(Current, C), now \in Nat, Handles
    PROVE  Good(After, C)
<1>1. ASSUME NEW s \in Symbols, NEW t \in Ticks, OnTick(s, t) PROVE Good(After, C)
  BY <1>1, TickGood
<1>3. ASSUME NEW p \in Plans, NEW s \in Symbols, SubmitRefused(p, s) PROVE Good(After, C)
  BY <1>3, EnsureSessionGood, Handled DEF SubmitRefused
<1>4. \A S \in SUBSET Symbols : Good(Cancel(Current, S), C)
  BY CancelGood
<1>5. ASSUME NEW s \in Symbols, CancelPending(s) PROVE Good(After, C)
  <2>1. {s} \in SUBSET Symbols OBVIOUS
  <2> QED BY <1>4, <1>5, <2>1, Handled DEF CancelPending
<1>6. ASSUME NEW s \in Symbols, NEW t \in Ticks, CorporateActionCloses(s, t)
      PROVE  Good(After, C)
  <2>1. {s} \in SUBSET Symbols /\ t \in Tick BY TickAssumption
  <2>2. Good(CloseAll(Cancel(Current, {s}), s, t, "CORPORATE_ACTION"), C)
    BY <1>4, <1>6, <2>1, CloseAllGood DEF CorporateActionCloses
  <2> QED BY <1>6, <2>2, Handled DEF CorporateActionCloses
<1>7. ASSUME NEW s \in Symbols, NEW t \in Ticks, CorporateActionKeeps(s, t)
      PROVE  Good(After, C)
  <2>1. {s} \in SUBSET Symbols OBVIOUS
  <2> QED BY <1>4, <1>7, <2>1, Handled DEF CorporateActionKeeps
<1>8. ASSUME NEW s \in Symbols, NEW t \in Ticks, ForceClosePriced(s, t)
      PROVE  Good(After, C)
  <2> DEFINE st == Cancel(Current, Symbols)
  <2>1. t \in Tick BY TickAssumption
  <2>2. Good(st, C) BY <1>4
  <2>3. st.book.position[s] # NoPosition
    <3>1. st.book = [Current.book EXCEPT !.pending =
            [r \in Symbols |-> IF r \in Symbols THEN NoOrder ELSE Current.book.pending[r]]]
      BY CancelGood
    <3>2. Current.book = book /\ book \in Book BY DEF Current, Good, Store
    <3>3. st.book.position = book.position BY <3>1, <3>2 DEF Book
    <3> QED BY <1>8, <3>3 DEF ForceClosePriced
  <2>4. Good(CloseAll(st, s, t, "SESSION_FORCE_CLOSE"), C)
    BY <2>1, <2>2, <2>3, CloseAllGood
  <2> QED BY <1>8, <2>4, Handled DEF ForceClosePriced
<1>9. CASE ForceCloseUnpriced
  BY <1>4, <1>9, Handled DEF ForceCloseUnpriced
<1>10. CASE ExpirePending
  <2>1. Due(book) \in SUBSET Symbols BY DEF Due, Resting
  <2> QED BY <1>4, <1>10, <2>1, Handled DEF ExpirePending
<1>11. CASE ResetDay
  <2> DEFINE b == FreshCounters(Current.book)
             n == [Current EXCEPT !.book = b]
  <2>1. Current \in Store /\ Current.book \in Book /\ Sound(Current.book, C)
    BY DEF Good, Store
  <2>2. /\ b \in Book /\ b.pending = Current.book.pending
        /\ b.position = Current.book.position
    BY <2>1, FreshCountersFacts
  <2>3. Becomes(Save(n)) BY <1>11 DEF ResetDay
  <2> HIDE DEF b
  <2>4. n \in Store /\ n.book = b BY <2>1, <2>2 DEF Store
  <2>5. Sound(b, C) BY <2>1, <2>2, SoundSame
  <2>6. Good(Save(n), C) BY <2>4, <2>5, SaveGood
  <2> QED BY <2>3, <2>6, Handled
<1>12. CASE Restart
  <2>1. saved \in Book /\ Sound(saved, C) BY DEF Good, Store, Current
  <2>2. intents \in [Keys -> Intent] BY DEF Good, Store, Current
  <2>3. Good([book |-> saved, saved |-> saved, intents |-> intents], C)
    BY <2>1, <2>2 DEF Good, Store
  <2>4. Becomes([book |-> saved, saved |-> saved, intents |-> intents])
    BY <1>12 DEF Restart, Becomes
  <2> QED BY <2>3, <2>4, Handled
<1> QED BY <1>1, <1>3, <1>5, <1>6, <1>7, <1>8, <1>9, <1>10, <1>11, <1>12 DEF Handles

LEMMA HandlesKeeps == Handles => UNCHANGED <<claimed, now>>
BY DEF Handles, OnTick, TickIdle, TickStopExecuted, TickStopWaits, TickTimedExit,
       TickTargets, SubmitRefused, CancelPending, CorporateActionCloses,
       CorporateActionKeeps, ForceClosePriced, ForceCloseUnpriced, ExpirePending,
       ResetDay, Restart

LEMMA NextCases ==
    Next => \/ \E p \in Plans, s \in Symbols : SubmitAccepted(p, s)
            \/ Handles
            \/ Elapse
BY DEF Next, Handles

LEMMA NextSound == IInv /\ [Next]_vars => IInv'
<1> SUFFICES ASSUME IInv, [Next]_vars PROVE IInv' OBVIOUS
<1>0. Good(Current, claimed) /\ now \in Nat BY DEF IInv
<1>1. ASSUME NEW p \in Plans, NEW s \in Symbols, SubmitAccepted(p, s) PROVE IInv'
  BY <1>1, SubmitSound
<1>2. CASE Handles BY <1>0, <1>2, HandlesGood, HandlesKeeps, Kept
<1>3. CASE Elapse
  <2>1. Current' = Current BY <1>3 DEF Elapse, Current
  <2>2. now' \in Nat /\ now' <= Horizon BY <1>0, <1>3, BoundAssumption DEF Elapse
  <2> QED BY <1>3, <2>1, <2>2 DEF Elapse, IInv, Good, Sound
<1>4. CASE UNCHANGED vars
  BY <1>4 DEF vars, IInv, Current, Good, Sound
<1> QED BY <1>1, <1>2, <1>3, <1>4, NextCases

\* The invariant the properties below follow from: in memory and on disk the
\* book is well formed, one symbol of one plan occupies it, and what occupies it
\* was claimed (broker.py, every handler).
THEOREM Soundness == Spec => []IInv
<1>1. Init => IInv BY InitSound
<1>2. IInv /\ [Next]_vars => IInv' BY NextSound
<1> QED BY <1>1, <1>2, PTL DEF Spec

----
\* What follows from it.

\* Every variable keeps its shape: quantities, prices and limits never become
\* negative, in memory or in the saved copy (PendingOrder, Position, Portfolio).
THEOREM TypeCorrect == Spec => []TypeOK
<1>1. IInv => TypeOK
  BY BoundAssumption DEF IInv, Good, Store, Current, TypeOK
<1> QED BY <1>1, Soundness, PTL

LEMMA SoundSlot == IInv => SlotExclusive
<1> SUFFICES ASSUME IInv PROVE SlotExclusive OBVIOUS
<1>1. Sound(book, claimed) BY DEF IInv, Good, Current
<1>2. Occupying(book) \subseteq claimed
  BY <1>1 DEF Occupying, Resting, Holding, Sound, Claimed
<1>3. \A k, l \in Occupying(book) : k = l
  BY <1>1 DEF Occupying, Resting, Holding, Sound, OneSymbol, OnePlan
<1> QED BY <1>2, <1>3 DEF SlotExclusive

LEMMA SoundLeaving == IInv => LeavingHasNoOrder
BY DEF IInv, Good, Current, Sound, Leaving, LeavingHasNoOrder, Holding

\* One entry at most rests or is held at any time, over all the plans and
\* symbols of the market (can_submit, submit_entry, _apply_entry_fill).
THEOREM OneSlot == Spec => []SlotExclusive
BY SoundSlot, Soundness, PTL

\* A position that has begun to leave cannot be added to (_begin_exit, on_tick).
THEOREM LeavingIsFinal == Spec => []LeavingHasNoOrder
BY SoundLeaving, Soundness, PTL
====
