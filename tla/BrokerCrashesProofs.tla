---- MODULE BrokerCrashesProofs ----
(***************************************************************************)
(* Shares add up: in the recorded intents, in the positions and their      *)
(* targets, and in the ledger that a crash leaves ahead of the portfolio.  *)
(*                                                                         *)
(* A handler is a sequence of operations, and so is what a crash leaves of *)
(* it.  Every operation takes the account of each entry through a few      *)
(* moves (fill, withdrawal, sale) and each position through a few others.  *)
(* Evolves and Progresses say that one account or position leads to        *)
(* another by such moves; they compose along the calls of a handler, and   *)
(* whatever the moves preserve, the handler preserves.                     *)
(***************************************************************************)
EXTENDS BrokerSlotProofs, BrokerCrashes

----
\* Accounts.

\* The account of an entry k: shares resting and held, and what is recorded of it.
RestingOf(b, k) ==
    IF b.pending[k[2]] # NoOrder /\ b.pending[k[2]].plan = k[1]
    THEN Unfilled(b.pending[k[2]]) ELSE 0
HeldOf(b, k) ==
    IF b.position[k[2]] # NoPosition /\ b.position[k[2]].plan = k[1]
    THEN b.position[k[2]].remaining ELSE 0

Accounts == [resting: Nat, held: Nat, bought: Nat, cancelled: Nat, sold: Nat]

Account(b, ledger, k) ==
    [resting |-> RestingOf(b, k), held |-> HeldOf(b, k), bought |-> ledger[k].bought,
     cancelled |-> ledger[k].cancelled, sold |-> ledger[k].sold]

\* A fill, a withdrawal, whose intent is recorded once, and a sale.
Fills(x, y) ==
    \E q \in Nat : y = [x EXCEPT !.resting = @ - q, !.held = @ + q]
Withdraws(x, y) ==
    /\ x.resting > 0
    /\ y = [x EXCEPT !.resting = 0,
                     !.cancelled = IF @ = 0 THEN x.resting ELSE @]
Sells(x, y) ==
    \E q \in Nat : q <= x.held /\ y = [x EXCEPT !.held = @ - q, !.sold = @ + q]

Moves(x, y) == x = y \/ Fills(x, y) \/ Withdraws(x, y) \/ Sells(x, y)

LEMMA MovesByField ==
    ASSUME NEW x \in Accounts, NEW y \in Accounts, y.bought = x.bought,
           \/ /\ y.sold = x.sold /\ y.cancelled = x.cancelled
              /\ y.held >= x.held /\ y.resting + y.held = x.resting + x.held
           \/ /\ x.resting > 0 /\ y.resting = 0
              /\ y.held = x.held /\ y.sold = x.sold
              /\ y.cancelled = IF x.cancelled = 0 THEN x.resting ELSE x.cancelled
           \/ /\ y.resting = x.resting /\ y.cancelled = x.cancelled
              /\ y.held <= x.held /\ y.held + y.sold = x.held + x.sold
    PROVE  Moves(x, y)
  <1>1. CASE /\ y.sold = x.sold /\ y.cancelled = x.cancelled
             /\ y.held >= x.held /\ y.resting + y.held = x.resting + x.held
    <2> DEFINE q == y.held - x.held
    <2>1. q \in Nat /\ y.resting = x.resting - q /\ y.held = x.held + q
      BY <1>1 DEF Accounts
    <2> HIDE DEF q
    <2>2. y = [x EXCEPT !.resting = @ - q, !.held = @ + q]
      BY <1>1, <2>1 DEF Accounts
    <2> QED BY <2>1, <2>2 DEF Moves, Fills
  <1>2. CASE /\ x.resting > 0 /\ y.resting = 0
             /\ y.held = x.held /\ y.sold = x.sold
             /\ y.cancelled = IF x.cancelled = 0 THEN x.resting ELSE x.cancelled
    BY <1>2 DEF Moves, Withdraws, Accounts
  <1>3. CASE /\ y.resting = x.resting /\ y.cancelled = x.cancelled
             /\ y.held <= x.held /\ y.held + y.sold = x.held + x.sold
    <2> DEFINE q == x.held - y.held
    <2>1. q \in Nat /\ q <= x.held /\ y.held = x.held - q /\ y.sold = x.sold + q
      BY <1>3 DEF Accounts
    <2> HIDE DEF q
    <2>2. y = [x EXCEPT !.held = @ - q, !.sold = @ + q]
      BY <1>3, <2>1 DEF Accounts
    <2> QED BY <2>1, <2>2 DEF Moves, Sells
  <1> QED BY <1>1, <1>2, <1>3

\* y comes from x by moves: it is wherever x is and moves lead.
Evolves(x, y) ==
    \A P \in SUBSET Accounts :
        (\A u \in P, v \in Accounts : Moves(u, v) => v \in P) /\ x \in P => y \in P

LEMMA EvolvesByMove ==
    ASSUME NEW x, NEW y \in Accounts, Moves(x, y)
    PROVE  Evolves(x, y)
  BY DEF Evolves

LEMMA EvolvesOn ==
    ASSUME NEW x, NEW y, NEW z, Evolves(x, y), Evolves(y, z)
    PROVE  Evolves(x, z)
  BY DEF Evolves

----
\* Positions.

\* The fields of a position that say what it holds, at what cost and for whom.
SameShares(p, q) ==
    /\ p.plan = q.plan
    /\ p.entry_price = q.entry_price
    /\ p.quantity = q.quantity
    /\ p.remaining = q.remaining
    /\ p.filled_targets = q.filled_targets

\* The fields that say how many shares, and whose.
SameStake(p, q) == p.plan = q.plan /\ p.remaining = q.remaining

\* The first fill and further ones, before any target is taken.
Opens(u, v) == u = NoPosition /\ v.filled_targets = {} /\ v.remaining = v.quantity
Grows(u, v) ==
    /\ u # NoPosition
    /\ u.filled_targets = {} /\ v.filled_targets = {}
    /\ u.remaining - u.quantity = v.remaining - v.quantity

\* The i-th target is taken and something remains.
Takes(s, u, v, i) ==
    /\ u # NoPosition
    /\ i <= Len(Candidate[s].targets)
    /\ i \notin u.filled_targets
    /\ v.filled_targets = u.filled_targets \cup {i}
    /\ v.quantity = u.quantity
    /\ v.remaining = u.remaining - TargetQuantity(s, u.quantity, i)

\* With the first target the stop moves up to the entry price, if it is to.
Guards(s, u, v, i) ==
    /\ v.entry_price = u.entry_price
    /\ v.stop >= u.stop
    /\ i = 1 /\ Candidate[s].move_stop => v.stop >= v.entry_price

PositionMoves(s, u, v) ==
    \/ v = NoPosition
    \/ v # NoPosition /\ \/ Opens(u, v)
                         \/ Grows(u, v)
                         \/ u # NoPosition /\ SameHolding(u, v)
                         \/ \E i \in {1, 2, 3} : Takes(s, u, v, i) /\ Guards(s, u, v, i)

Progresses(s, u, v) ==
    \A P \in SUBSET (Position \cup {NoPosition}) :
        /\ \A x \in P, y \in Position \cup {NoPosition} : PositionMoves(s, x, y) => y \in P
        /\ u \in P
        => v \in P

LEMMA ProgressByMove ==
    ASSUME NEW s, NEW u, NEW v \in Position \cup {NoPosition}, PositionMoves(s, u, v)
    PROVE  Progresses(s, u, v)
  BY DEF Progresses

LEMMA ProgressOn ==
    ASSUME NEW s, NEW u, NEW v, NEW w, Progresses(s, u, v), Progresses(s, v, w)
    PROVE  Progresses(s, u, w)
  BY DEF Progresses

----
\* Stores.

\* The copy c on disk would do for the book b, as far as shares and money go.
Agree(c, b) ==
    /\ c.pending = b.pending
    /\ c.cash = b.cash
    /\ c.realized = b.realized
    /\ c.session_realized = b.session_realized
    /\ c.trades_today = b.trades_today
    /\ c.submissions_today = b.submissions_today
    /\ \A s \in Symbols :
        /\ c.position[s] = NoPosition <=> b.position[s] = NoPosition
        /\ c.position[s] # NoPosition => SameShares(c.position[s], b.position[s])

Settled(st) == Agree(st.saved, st.book)

Accounted(a, b) ==
    \A k \in Keys : Evolves(Account(a.book, a.intents, k), Account(b.book, b.intents, k))

\* Operations lead from store a to store b.
Advances(a, b) ==
    /\ Accounted(a, b)
    /\ \A s \in Symbols : Progresses(s, a.book.position[s], b.book.position[s])
    /\ Settled(a) => Settled(b)

LEMMA AdvancesOn ==
    ASSUME NEW a, NEW b, NEW c, Advances(a, b), Advances(b, c)
    PROVE  Advances(a, c)
  <1>1. Accounted(a, c) BY EvolvesOn DEF Advances, Accounted
  <1>2. ASSUME NEW s \in Symbols
        PROVE  Progresses(s, a.book.position[s], c.book.position[s])
    BY ProgressOn DEF Advances
  <1> QED BY <1>1, <1>2 DEF Advances

LEMMA AdvancesNot == ASSUME NEW a PROVE Advances(a, a)
  BY DEF Advances, Accounted, Evolves, Progresses

LEMMA AccountType ==
    ASSUME NEW st \in Store, OrdersOpen(st.book), NEW k \in Keys
    PROVE  Account(st.book, st.intents, k) \in Accounts
  <1>1. st.book \in Book /\ k[2] \in Symbols /\ st.intents[k] \in Intent
    BY DEF Store, Keys
  <1>2. RestingOf(st.book, k) \in Nat
    <2>1. CASE st.book.pending[k[2]] # NoOrder
      <3>1. st.book.pending[k[2]] \in Order BY <1>1, <2>1 DEF Book
      <3>2. Unfilled(st.book.pending[k[2]]) \in Nat
        BY <1>1, <2>1, <3>1 DEF OrdersOpen, Order, Unfilled
      <3> QED BY <3>2 DEF RestingOf
    <2>2. CASE st.book.pending[k[2]] = NoOrder BY <2>2 DEF RestingOf
    <2> QED BY <2>1, <2>2
  <1>3. HeldOf(st.book, k) \in Nat
    BY <1>1 DEF Book, Position, HeldOf
  <1> QED BY <1>1, <1>2, <1>3 DEF Account, Accounts, Intent

\* A saved store is settled.
LEMMA SaveSettles ==
    ASSUME NEW st, Save(st) \in Store
    PROVE  Settled(Save(st))
  <1>1. DOMAIN st = DOMAIN Save(st) BY DEF Save
  <1>2. "saved" \in DOMAIN st /\ "book" \in DOMAIN st BY <1>1 DEF Store
  <1>3. Save(st).saved = st.book /\ Save(st).book = st.book BY <1>2 DEF Save
  <1> QED BY <1>3 DEF Settled, Agree, SameShares

----
\* The operations of the broker.

LEMMA SameAccounts ==
    ASSUME NEW a, NEW b, b.intents = a.intents, b.book.pending = a.book.pending,
           \A s \in Symbols :
                /\ b.book.position[s] = NoPosition <=> a.book.position[s] = NoPosition
                /\ b.book.position[s] # NoPosition
                    => SameStake(b.book.position[s], a.book.position[s])
    PROVE  Accounted(a, b)
  <1> SUFFICES ASSUME NEW k \in Keys
               PROVE  Evolves(Account(a.book, a.intents, k), Account(b.book, b.intents, k))
    BY DEF Accounted
  <1>1. k[2] \in Symbols BY DEF Keys
  <1>2. RestingOf(b.book, k) = RestingOf(a.book, k) BY DEF RestingOf
  <1>3. HeldOf(b.book, k) = HeldOf(a.book, k) BY <1>1 DEF HeldOf, SameStake
  <1>4. Account(a.book, a.intents, k) = Account(b.book, b.intents, k)
    BY <1>2, <1>3 DEF Account
  <1> QED BY <1>4 DEF Evolves

\* A position may change in everything but its shares.
LEMMA TouchAccounted ==
    ASSUME NEW st \in Store, NEW s \in Symbols, NEW p \in Position,
           st.book.position[s] # NoPosition, SameShares(p, st.book.position[s])
    PROVE  /\ Accounted(st, [st EXCEPT !.book.position[s] = p])
           /\ Settled(st) => Settled([st EXCEPT !.book.position[s] = p])
  <1> DEFINE n == [st EXCEPT !.book.position[s] = p]
  <1>1. st.book \in Book /\ st.book.position \in [Symbols -> Position \cup {NoPosition}]
    BY DEF Store, Book
  <1>2. n.book = [st.book EXCEPT !.position = [@ EXCEPT ![s] = p]]
        /\ n.saved = st.saved /\ n.intents = st.intents
    BY <1>1 DEF Store, Book
  <1> HIDE DEF n
  <1>3. /\ n.book.pending = st.book.pending /\ n.book.cash = st.book.cash
        /\ n.book.realized = st.book.realized
        /\ n.book.session_realized = st.book.session_realized
        /\ n.book.trades_today = st.book.trades_today
        /\ n.book.submissions_today = st.book.submissions_today
        /\ n.book.position[s] = p
        /\ \A r \in Symbols : r # s => n.book.position[r] = st.book.position[r]
    BY <1>1, <1>2 DEF Book
  <1>4. p # NoPosition BY NoneAssumption
  <1>5. \A r \in Symbols :
            /\ n.book.position[r] = NoPosition <=> st.book.position[r] = NoPosition
            /\ n.book.position[r] # NoPosition
                => SameShares(n.book.position[r], st.book.position[r])
    BY <1>3, <1>4 DEF SameShares
  <1>6. Accounted(st, n)
    <2>1. \A r \in Symbols :
            /\ n.book.position[r] = NoPosition <=> st.book.position[r] = NoPosition
            /\ n.book.position[r] # NoPosition
                => SameStake(n.book.position[r], st.book.position[r])
      BY <1>5 DEF SameShares, SameStake
    <2> QED BY <1>2, <1>3, <2>1, SameAccounts
  <1>7. Settled(st) => Settled(n)
    BY <1>2, <1>3, <1>5 DEF Settled, Agree, SameShares
  <1> QED BY <1>6, <1>7 DEF n

LEMMA TouchAdvances ==
    ASSUME NEW st \in Store, NEW s \in Symbols, NEW p \in Position,
           st.book.position[s] # NoPosition, SameHolding(st.book.position[s], p)
    PROVE  Advances(st, [st EXCEPT !.book.position[s] = p])
  <1> DEFINE n == [st EXCEPT !.book.position[s] = p]
  <1>1. /\ n.book.position[s] = p
        /\ \A r \in Symbols : r # s => n.book.position[r] = st.book.position[r]
    BY DEF Store, Book
  <1>2. SameShares(p, st.book.position[s]) BY DEF SameShares, SameHolding
  <1>3. Accounted(st, n) /\ (Settled(st) => Settled(n)) BY <1>2, TouchAccounted
  <1> HIDE DEF n
  <1>4. p # NoPosition BY NoneAssumption
  <1>5. Progresses(s, st.book.position[s], n.book.position[s])
    BY <1>1, <1>4, ProgressByMove DEF PositionMoves
  <1>6. \A r \in Symbols : Progresses(r, st.book.position[r], n.book.position[r])
    BY <1>1, <1>5 DEF Progresses
  <1> QED BY <1>3, <1>6 DEF Advances, n

\* Orders are withdrawn: their accounts move, no other and no position does.
LEMMA CancelAdvances ==
    ASSUME NEW st \in Store, OrdersOpen(st.book), NEW S \in SUBSET Symbols
    PROVE  Advances(st, Cancel(st, S))
  <1> DEFINE gone == Resting(st.book) \cap S
             r == Cancel(st, S)
  <1>1. st.book \in Book BY DEF Store
  <1>2. r \in Store /\ OrdersOpen(r.book)
    <2>1. /\ r \in Store
          /\ r.book = [st.book EXCEPT !.pending =
                [s \in Symbols |-> IF s \in S THEN NoOrder ELSE st.book.pending[s]]]
      BY CancelFacts
    <2> HIDE DEF r
    <2>2. \A s \in Symbols : r.book.pending[s] \in {NoOrder, st.book.pending[s]}
      BY <1>1, <2>1 DEF Book
    <2> QED BY <2>1, <2>2 DEF OrdersOpen, r
  <1>3. CASE gone = {} BY <1>3, AdvancesNot DEF Cancel
  <1>4. CASE gone # {}
    <2> DEFINE left == [s \in Symbols |-> IF s \in gone THEN NoOrder
                                          ELSE st.book.pending[s]]
    <2>1. r = Save(Withdrawn(st, gone)) BY <1>4 DEF Cancel
    <2>2. /\ r.book = [st.book EXCEPT !.pending = left]
          /\ r.intents = [k \in Keys |->
                IF /\ k[2] \in gone
                   /\ st.book.pending[k[2]].plan = k[1]
                   /\ st.intents[k].cancelled = 0
                THEN [st.intents[k] EXCEPT !.cancelled = Unfilled(st.book.pending[k[2]])]
                ELSE st.intents[k]]
      BY <1>1, <2>1 DEF Save, Withdrawn, Store
    <2>3. r.book.pending = left /\ r.book.position = st.book.position
      BY <1>1, <2>2 DEF Book
    <2>4. ASSUME NEW k \in Keys
          PROVE  Evolves(Account(st.book, st.intents, k), Account(r.book, r.intents, k))
      <3> DEFINE x == Account(st.book, st.intents, k)
                 y == Account(r.book, r.intents, k)
      <3>1. k[2] \in Symbols /\ st.intents[k] \in Intent BY <1>1 DEF Keys, Store
      <3>2. HeldOf(r.book, k) = HeldOf(st.book, k) BY <2>3 DEF HeldOf
      <3>3. CASE k[2] \in gone /\ st.book.pending[k[2]].plan = k[1]
        <4> DEFINE u == Unfilled(st.book.pending[k[2]])
        <4>1. RestingOf(st.book, k) = u BY <3>3 DEF RestingOf, Resting
        <4>2. RestingOf(r.book, k) = 0 BY <2>3, <3>1, <3>3 DEF RestingOf
        <4>3. u > 0
          <5>1. st.book.pending[k[2]] \in Order /\ st.book.pending[k[2]] # NoOrder
            BY <1>1, <3>1, <3>3 DEF Resting, Book
          <5> QED BY <1>1, <3>1, <5>1 DEF OrdersOpen, Order, Unfilled
        <4>4. r.intents[k] = IF st.intents[k].cancelled = 0
                             THEN [st.intents[k] EXCEPT !.cancelled = u]
                             ELSE st.intents[k]
          BY <2>2, <3>3
        <4> HIDE DEF u, r
        <4>5. Moves(x, y)
          <5>1. x \in Accounts /\ y \in Accounts BY <1>2, AccountType DEF r
          <5>2. /\ y.resting = 0 /\ y.held = x.held /\ x.resting = u
                /\ y.bought = x.bought /\ y.sold = x.sold
                /\ y.cancelled = IF x.cancelled = 0 THEN u ELSE x.cancelled
            BY <3>1, <3>2, <4>1, <4>2, <4>4 DEF Account, Intent
          <5> HIDE DEF x, y
          <5> QED BY <4>3, <5>1, <5>2, MovesByField
        <4>6. y \in Accounts BY <1>2, AccountType DEF r
        <4> QED BY <4>5, <4>6, EvolvesByMove
      <3>4. CASE ~(k[2] \in gone /\ st.book.pending[k[2]].plan = k[1])
        <4>1. RestingOf(r.book, k) = RestingOf(st.book, k)
          BY <2>3, <3>1, <3>4 DEF RestingOf, Resting
        <4>2. r.intents[k] = st.intents[k] BY <2>2, <3>4
        <4>3. x = y BY <3>2, <4>1, <4>2 DEF Account
        <4> QED BY <4>3 DEF Evolves
      <3> QED BY <3>3, <3>4
    <2>5. Settled(r) BY <1>2, <2>1, SaveSettles
    <2> QED BY <2>3, <2>4, <2>5 DEF Advances, Accounted, Progresses
  <1> QED BY <1>3, <1>4

\* What a fill makes of its order and of its position.
LEMMA BoughtShares ==
    ASSUME NEW C, NEW b \in Book, Sound(b, C), NEW s \in Symbols, NEW t \in Tick,
           NEW q \in Nat \ {0}, b.pending[s] # NoOrder, q <= Unfilled(b.pending[s]),
           now \in Nat
    PROVE  LET n == Bought(b, s, t, q)
           IN  /\ \A r \in Symbols : r # s => /\ n.pending[r] = b.pending[r]
                                            /\ n.position[r] = b.position[r]
               /\ IF q = Unfilled(b.pending[s]) THEN n.pending[s] = NoOrder
                  ELSE /\ n.pending[s] # NoOrder
                       /\ n.pending[s].plan = b.pending[s].plan
                       /\ Unfilled(n.pending[s]) = Unfilled(b.pending[s]) - q
               /\ n.position[s] \in Position
               /\ n.position[s].plan = b.pending[s].plan
               /\ n.position[s].filled_targets = {}
               /\ b.position[s] = NoPosition
                    => n.position[s].quantity = q /\ n.position[s].remaining = q
               /\ b.position[s] # NoPosition
                    => /\ b.position[s].plan = b.pending[s].plan
                       /\ b.position[s].filled_targets = {}
                       /\ n.position[s].quantity = b.position[s].quantity + q
                       /\ n.position[s].remaining = b.position[s].remaining + q
  <1> DEFINE order == b.pending[s]
             held == IF b.position[s] # NoPosition THEN b.position[s]
                     ELSE OpenPosition(order, s, t)
             price == AveragePrice(held, AllIn(Execution(t.ask)), q)
             p == [held EXCEPT !.quantity = @ + q, !.remaining = @ + q,
                               !.entry_price = price]
             o == IF q = Unfilled(order) THEN NoOrder ELSE [order EXCEPT !.filled = @ + q]
             n == Bought(b, s, t, q)
  <1>1. order \in Order /\ order.filled \in Nat /\ order.desired \in Nat
    BY DEF Book, Order
  <1>2. /\ held \in Position /\ held.plan = order.plan /\ held.filled_targets = {}
        /\ b.position[s] = NoPosition => held.quantity = 0 /\ held.remaining = 0
    BY <1>1, OpenPositionType DEF Book, OpenPosition, Sound, OnePlan, Leaving
  <1>3. /\ n.pending = [b.pending EXCEPT ![s] = o]
        /\ n.position = [b.position EXCEPT ![s] = p]
    BY DEF Bought, Book
  <1>4. n.pending[s] = o /\ n.position[s] = p
        /\ \A r \in Symbols : r # s => /\ n.pending[r] = b.pending[r]
                                       /\ n.position[r] = b.position[r]
    BY <1>3 DEF Book
  <1> HIDE DEF n, held
  <1>5. price \in Nat
    <2>1. t.ask \in Nat /\ t.ask >= 1 BY DEF Tick
    <2>2. AllIn(Execution(t.ask)) \in Nat BY <2>1, ExecutionType, AllInType
    <2> DEFINE each == AllIn(Execution(t.ask))
    <2> HIDE DEF each
    <2>3. held.entry_price * held.quantity \in Nat /\ each * q \in Nat
      BY <1>2, <2>2 DEF Position, each
    <2>4. held.quantity + q \in Nat \ {0} BY <1>2 DEF Position
    <2>5. held.entry_price * held.quantity + each * q \in Nat BY <2>3
    <2> QED BY <2>4, <2>5 DEF AveragePrice, each
  <1> HIDE DEF price
  <1>6. /\ p.plan = held.plan /\ p.filled_targets = held.filled_targets
        /\ p.quantity = held.quantity + q /\ p.remaining = held.remaining + q
    BY <1>2 DEF Position
  <1>7. p \in Position
    <2> DEFINE p1 == [held EXCEPT !.quantity = @ + q]
               p2 == [p1 EXCEPT !.remaining = @ + q]
    <2>1. held.quantity + q \in Nat /\ held.remaining + q \in Nat
      BY <1>2 DEF Position
    <2>2. p1 \in Position /\ p1.remaining = held.remaining BY <1>2, <2>1 DEF Position
    <2>3. p2 \in Position BY <2>1, <2>2 DEF Position
    <2>4. [p2 EXCEPT !.entry_price = price] \in Position BY <1>5, <2>3 DEF Position
    <2>5. p = [p2 EXCEPT !.entry_price = price] OBVIOUS
    <2> QED BY <2>4, <2>5
  <1>8. o # NoOrder => o.plan = order.plan /\ Unfilled(o) = Unfilled(order) - q
    BY <1>1 DEF Order, Unfilled
  <1>9. q # Unfilled(order) => o # NoOrder
    <2> SUFFICES ASSUME q # Unfilled(order) PROVE o \in Order BY NoneAssumption
    <2> QED BY <1>1 DEF Order
  <1>10. b.position[s] # NoPosition => held = b.position[s] BY DEF held
  <1> HIDE DEF p, o
  <1>11. q = Unfilled(order) => o = NoOrder BY DEF o
  <1> QED BY <1>2, <1>4, <1>5, <1>6, <1>7, <1>8, <1>9, <1>10, <1>11 DEF n

LEMMA FillAdvances ==
    ASSUME NEW C, NEW st, Good(st, C), NEW s \in Symbols, NEW t \in Tick,
           NEW q \in Nat \ {0}, st.book.pending[s] # NoOrder,
           q <= Unfilled(st.book.pending[s]), now \in Nat
    PROVE  Advances(st, Save([st EXCEPT !.book = Bought(st.book, s, t, q)]))
  <1> DEFINE b == st.book
             n == Bought(b, s, t, q)
             r == Save([st EXCEPT !.book = n])
  <1>1. /\ st \in Store /\ b \in Book /\ Sound(b, C) BY DEF Good, Store
  <1>2. n \in Book /\ Sound(n, C) BY <1>1, BoughtGood
  <1>3. /\ \A x \in Symbols : x # s => /\ n.pending[x] = b.pending[x]
                                      /\ n.position[x] = b.position[x]
        /\ IF q = Unfilled(b.pending[s]) THEN n.pending[s] = NoOrder
           ELSE /\ n.pending[s] # NoOrder
                /\ n.pending[s].plan = b.pending[s].plan
                /\ Unfilled(n.pending[s]) = Unfilled(b.pending[s]) - q
        /\ n.position[s] \in Position
        /\ n.position[s].plan = b.pending[s].plan
        /\ n.position[s].filled_targets = {}
        /\ b.position[s] = NoPosition
             => n.position[s].quantity = q /\ n.position[s].remaining = q
        /\ b.position[s] # NoPosition
             => /\ b.position[s].plan = b.pending[s].plan
                /\ b.position[s].filled_targets = {}
                /\ n.position[s].quantity = b.position[s].quantity + q
                /\ n.position[s].remaining = b.position[s].remaining + q
    BY <1>1, BoughtShares
  <1> HIDE DEF n
  <1>4. /\ r.book = n /\ r.saved = n /\ r.intents = st.intents /\ r \in Store
    BY <1>1, <1>2 DEF Save, Store
  <1>5. Good(r, C) BY <1>2, <1>4 DEF Good
  <1>6. Settled(r) BY <1>4 DEF Settled, Agree, SameShares
  <1> HIDE DEF r
  <1>7. n.position[s] # NoPosition BY <1>3, NoneAssumption
  <1>8. ASSUME NEW x \in Symbols PROVE Progresses(x, b.position[x], n.position[x])
    <2>1. CASE x # s BY <1>3, <2>1 DEF Progresses
    <2>2. CASE x = s
      <3>1. CASE b.position[s] = NoPosition
        <4>1. Opens(b.position[s], n.position[s]) BY <1>3, <3>1 DEF Opens
        <4> QED BY <1>3, <1>7, <2>2, <4>1, ProgressByMove DEF PositionMoves
      <3>2. CASE b.position[s] # NoPosition
        <4>1. b.position[s] \in Position BY <1>1, <3>2 DEF Book
        <4>2. Grows(b.position[s], n.position[s])
          BY <1>3, <3>2, <4>1 DEF Grows, Position
        <4> QED BY <1>3, <1>7, <2>2, <4>2, ProgressByMove DEF PositionMoves
      <3> QED BY <3>1, <3>2
    <2> QED BY <2>1, <2>2
  <1>9. ASSUME NEW k \in Keys
        PROVE  Evolves(Account(b, st.intents, k), Account(r.book, r.intents, k))
    <2> DEFINE x == Account(b, st.intents, k)
               y == Account(r.book, r.intents, k)
    <2>1. x \in Accounts /\ y \in Accounts BY <1>1, <1>5, AccountType DEF Good, Sound
    <2>2. /\ x.bought = y.bought /\ x.cancelled = y.cancelled /\ x.sold = y.sold
          /\ x.resting = RestingOf(b, k) /\ y.resting = RestingOf(n, k)
          /\ x.held = HeldOf(b, k) /\ y.held = HeldOf(n, k)
      BY <1>4 DEF Account
    <2>3. k[2] \in Symbols BY DEF Keys
    <2>4. CASE k[2] = s /\ k[1] = b.pending[s].plan
      <3>1. RestingOf(b, k) = Unfilled(b.pending[s]) BY <2>4 DEF RestingOf
      <3>2. RestingOf(n, k) = Unfilled(b.pending[s]) - q
        <4>1. Unfilled(b.pending[s]) \in Int BY <1>1 DEF Book, Order, Unfilled
        <4> QED BY <1>3, <2>4, <4>1 DEF RestingOf
      <3>3. HeldOf(n, k) = n.position[s].remaining BY <1>3, <1>7, <2>4 DEF HeldOf
      <3>4. HeldOf(n, k) = HeldOf(b, k) + q
        BY <1>3, <2>1, <2>2, <2>4, <3>3 DEF HeldOf
      <3> HIDE DEF x, y
      <3>5. x.held \in Nat /\ x.resting \in Nat BY <2>1 DEF Accounts
      <3>6. y.held >= x.held /\ y.resting + y.held = x.resting + x.held
        BY <2>2, <3>1, <3>2, <3>4, <3>5
      <3>7. Moves(x, y) BY <2>1, <2>2, <3>6, MovesByField
      <3> QED BY <2>1, <3>7, EvolvesByMove DEF x, y
    <2>5. CASE ~(k[2] = s /\ k[1] = b.pending[s].plan)
      <3>1. RestingOf(n, k) = RestingOf(b, k)
        BY <1>3, <2>3, <2>5 DEF RestingOf
      <3>2. HeldOf(n, k) = HeldOf(b, k)
        BY <1>3, <2>3, <2>5 DEF HeldOf
      <3>3. x = y BY <1>4, <3>1, <3>2 DEF Account
      <3> QED BY <3>3 DEF Evolves
    <2> QED BY <2>4, <2>5
  <1> QED BY <1>4, <1>6, <1>8, <1>9 DEF Advances, Accounted, r, n

LEMMA ProcessPendingAdvances ==
    ASSUME NEW C, NEW st, Good(st, C), NEW s \in Symbols, NEW t \in Tick, now \in Nat
    PROVE  Advances(st, ProcessPending(st, s, t))
  <1>1. Advances(st, Cancel(st, {s}))
    BY CancelAdvances DEF Good, Sound
  <1>2. ASSUME st.book.pending[s] # NoOrder
        PROVE  Advances(st, ApplyEntryFill(st, s, t, Visible(t)))
    <2>1. st \in Store /\ OrdersOpen(st.book) /\ Visible(t) \in Nat
      BY VisibleType DEF Good, Sound
    <2> DEFINE r == ApplyEntryFill(st, s, t, Visible(t))
    <2>2. \/ r = st
          \/ \E q \in Nat \ {0} :
                /\ q <= Unfilled(st.book.pending[s])
                /\ r = Save([st EXCEPT !.book = Bought(st.book, s, t, q)])
      BY <1>2, <2>1, FillCases
    <2> HIDE DEF r
    <2> QED BY <1>2, <2>2, FillAdvances, AdvancesNot DEF r
  <1> QED BY <1>1, <1>2, AdvancesNot DEF ProcessPending

LEMMA EnsureSessionAdvances ==
    ASSUME NEW C, NEW st, Good(st, C), now \in Nat
    PROVE  Advances(st, EnsureSession(st))
  <1>1. CASE st.book.session_date = DateOf(now)
    BY <1>1, AdvancesNot DEF EnsureSession
  <1>2. CASE st.book.session_date # DateOf(now)
    <2> DEFINE b == [FreshCounters(st.book) EXCEPT !.session_date = DateOf(now)]
               n == [st EXCEPT !.book = b]
               c == Cancel(n, Symbols)
    <2>1. st \in Store /\ st.book \in Book /\ Sound(st.book, C) BY DEF Good, Store
    <2>2. b \in Book /\ b.pending = st.book.pending /\ b.position = st.book.position
      BY <2>1, FreshCountersFacts, DateOfType DEF Book
    <2> HIDE DEF b
    <2>3. n \in Store /\ n.book = b /\ n.saved = st.saved /\ n.intents = st.intents
      BY <2>1, <2>2 DEF Store
    <2>4. Sound(b, C) BY <2>1, <2>2, SoundSame
    <2>5. Good(n, C) BY <2>3, <2>4 DEF Good
    <2> HIDE DEF n
    <2>6. Accounted(st, n) BY <2>2, <2>3, SameAccounts DEF SameStake
    <2>7. Advances(n, c) /\ c \in Store
      BY <2>5, CancelAdvances, CancelGood DEF Good, Sound
    <2>8. EnsureSession(st) = Save(c) BY <1>2 DEF EnsureSession, n, b
    <2>9. Save(c) \in Store BY <2>8, EnsureSessionGood DEF Good
    <2>10. Save(c).book = c.book /\ Save(c).intents = c.intents
      BY <2>7 DEF Save, Store
    <2>11. Settled(Save(c)) BY <2>9, SaveSettles
    <2> HIDE DEF c
    <2>12. Accounted(st, Save(c))
      BY <2>6, <2>7, <2>10, EvolvesOn DEF Advances, Accounted
    <2>13. \A s \in Symbols : Progresses(s, st.book.position[s], Save(c).book.position[s])
      BY <2>2, <2>3, <2>7, <2>10 DEF Advances
    <2> QED BY <2>8, <2>11, <2>12, <2>13 DEF Advances
  <1> QED BY <1>1, <1>2

\* A sale moves the account of the position's entry, and nothing else.
LEMMA SaleFacts ==
    ASSUME NEW C, NEW st, Good(st, C), NEW s \in Symbols, NEW t \in Tick,
           NEW quantity \in Nat \ {0}, st.book.position[s] # NoPosition, NEW reason,
           now \in Nat
    PROVE  LET r == CloseQuantity(st, s, quantity, t, reason)
               p == st.book.position[s]
               v == r.book.position[s]
           IN  /\ Accounted(st, r)
               /\ Settled(r)
               /\ \A x \in Symbols : x # s => r.book.position[x] = st.book.position[x]
               /\ v # NoPosition =>
                    /\ v.plan = p.plan /\ v.quantity = p.quantity
                    /\ v.remaining = p.remaining - quantity
                    /\ v.entry_price = p.entry_price /\ v.stop = p.stop
                    /\ v.filled_targets = p.filled_targets
  <1> DEFINE b == st.book
             p == b.position[s]
             q == Smaller(quantity, p.remaining)
             n == Sold(b, s, q, t, reason)
             left == IF p.remaining = q THEN NoPosition ELSE [p EXCEPT !.remaining = @ - q]
             key == <<p.plan, s>>
             r == CloseQuantity(st, s, quantity, t, reason)
  <1>1. /\ st \in Store /\ b \in Book /\ Sound(b, C)
        /\ st.intents \in [Keys -> Intent]
    BY DEF Good, Store
  <1>2. p \in Position /\ p.remaining \in Nat /\ p.remaining > 0 /\ p.plan \in Plans
    BY <1>1 DEF Book, Position, Sound, PositionsOpen
  <1>3. q \in Nat \ {0} /\ q <= p.remaining /\ (q # p.remaining => q = quantity)
    BY <1>2 DEF Smaller
  <1>4. r = Save([st EXCEPT !.book = n, !.intents[key].sold = @ + q])
    BY <1>3 DEF CloseQuantity
  <1>5. Good(r, C) BY CloseQuantityGood
  <1> HIDE DEF q
  <1>6. n.pending = b.pending /\ n.position = [b.position EXCEPT ![s] = left]
    BY <1>1 DEF Sold, Book
  <1>7. key \in Keys BY <1>2 DEF Keys
  <1>8. /\ r.book = n
        /\ r.intents = [st.intents EXCEPT ![key].sold = @ + q]
    <2> HIDE DEF n, key
    <2> QED BY <1>1, <1>4 DEF Save, Store
  <1>9. Settled(r) BY <1>4, <1>5, SaveSettles DEF Good
  <1>10. left # NoPosition =>
            /\ left.plan = p.plan /\ left.quantity = p.quantity
            /\ left.remaining = p.remaining - q /\ q = quantity
            /\ left.entry_price = p.entry_price /\ left.stop = p.stop
            /\ left.filled_targets = p.filled_targets
    BY <1>2, <1>3 DEF Position
  <1>11. left = NoPosition <=> p.remaining = q
    <2> SUFFICES ASSUME p.remaining # q PROVE left # NoPosition OBVIOUS
    <2>1. p.remaining - q \in Nat BY <1>2, <1>3
    <2>2. left \in Position BY <1>2, <2>1 DEF Position
    <2> QED BY <2>2, NoneAssumption
  <1>12. /\ n.position[s] = left
         /\ \A x \in Symbols : x # s => n.position[x] = b.position[x]
    BY <1>1, <1>6 DEF Book
  <1> HIDE DEF n, r, left
  <1>13. ASSUME NEW k \in Keys
         PROVE  Evolves(Account(b, st.intents, k), Account(r.book, r.intents, k))
    <2> DEFINE x == Account(b, st.intents, k)
               y == Account(r.book, r.intents, k)
    <2>1. x \in Accounts /\ y \in Accounts BY <1>1, <1>5, AccountType DEF Good, Sound
    <2>2. k[2] \in Symbols /\ k = <<k[1], k[2]>> BY DEF Keys
    <2>3. RestingOf(r.book, k) = RestingOf(b, k) BY <1>6, <1>8 DEF RestingOf
    <2>4. CASE k = key
      <3>1. HeldOf(b, k) = p.remaining BY <2>4 DEF HeldOf
      <3>2. HeldOf(n, k) = p.remaining - q
        BY <1>2, <1>3, <1>10, <1>11, <1>12, <2>4 DEF HeldOf
      <3>3. /\ r.intents[k].bought = st.intents[k].bought
            /\ r.intents[k].cancelled = st.intents[k].cancelled
            /\ r.intents[k].sold = st.intents[k].sold + q
        <4>1. r.intents[k] = [st.intents[k] EXCEPT !.sold = @ + q]
          BY <1>1, <1>7, <1>8, <2>4
        <4>2. st.intents[k] \in Intent BY <1>1
        <4> QED BY <4>1, <4>2 DEF Intent
      <3>4. /\ y.bought = x.bought /\ y.resting = x.resting /\ y.cancelled = x.cancelled
            /\ x.held = p.remaining /\ y.held = p.remaining - q /\ y.sold = x.sold + q
        BY <1>8, <2>3, <3>1, <3>2, <3>3 DEF Account
      <3> HIDE DEF x, y
      <3>5. x.sold \in Nat BY <2>1 DEF Accounts
      <3>6. y.held <= x.held /\ y.held + y.sold = x.held + x.sold
        BY <1>2, <1>3, <3>4, <3>5
      <3>7. Moves(x, y) BY <2>1, <3>4, <3>6, MovesByField
      <3> QED BY <2>1, <3>7, EvolvesByMove DEF x, y
    <2>5. CASE k # key
      <3>1. r.intents[k] = st.intents[k] BY <1>1, <1>8, <2>5
      <3>2. k[2] # s \/ k[1] # p.plan BY <2>2, <2>5
      <3>3. HeldOf(r.book, k) = HeldOf(b, k)
        BY <1>8, <1>10, <1>12, <2>2, <3>2 DEF HeldOf
      <3>4. x = y BY <2>3, <3>1, <3>3 DEF Account
      <3> QED BY <3>4 DEF Evolves
    <2> QED BY <2>4, <2>5
  <1> QED BY <1>8, <1>9, <1>10, <1>12, <1>13 DEF Accounted, r

LEMMA CloseAllAdvances ==
    ASSUME NEW C, NEW st, Good(st, C), NEW s \in Symbols, NEW t \in Tick,
           st.book.position[s] # NoPosition, NEW reason, now \in Nat
    PROVE  Advances(st, CloseAll(st, s, t, reason))
  <1> DEFINE held == st.book.position[s].remaining
             r == CloseQuantity(st, s, held, t, reason)
  <1>1. held \in Nat \ {0}
    <2>1. st.book.position[s] \in Position BY DEF Good, Store, Book
    <2> QED BY <2>1 DEF Good, Sound, PositionsOpen, Position
  <1>2. /\ Accounted(st, r) /\ Settled(r)
        /\ \A x \in Symbols : x # s => r.book.position[x] = st.book.position[x]
        /\ r.book.position[s] # NoPosition
             => r.book.position[s].remaining = held - held
    BY <1>1, SaleFacts
  <1>3. Good(r, C) BY <1>1, CloseQuantityGood
  <1> HIDE DEF r
  <1>4. r.book.position[s] = NoPosition
    <2>1. r.book.position[s] # NoPosition => r.book.position[s].remaining > 0
      BY <1>3 DEF Good, Sound, PositionsOpen
    <2> QED BY <1>1, <1>2, <2>1
  <1>5. Progresses(s, st.book.position[s], r.book.position[s])
    BY <1>4, ProgressByMove DEF PositionMoves
  <1>6. \A x \in Symbols : Progresses(x, st.book.position[x], r.book.position[x])
    BY <1>2, <1>5 DEF Progresses
  <1> QED BY <1>2, <1>6 DEF Advances, CloseAll, r

LEMMA BeginExitAdvances ==
    ASSUME NEW C, NEW st, Good(st, C), NEW s \in Symbols,
           st.book.position[s] # NoPosition, now \in Nat
    PROVE  Advances(st, BeginExit(st, s))
  <1> DEFINE p == [st.book.position[s] EXCEPT !.exit_pending_at = now]
             n == [st EXCEPT !.book.position[s] = p]
  <1>1. CASE st.book.position[s].exit_pending_at # None
    BY <1>1, AdvancesNot DEF BeginExit
  <1>2. CASE st.book.position[s].exit_pending_at = None
    <2>1. st \in Store /\ st.book \in Book /\ st.book.position[s] \in Position
      BY DEF Good, Store, Book
    <2>2. p \in Position /\ SameHolding(st.book.position[s], p)
      BY <2>1 DEF Position, SameHolding
    <2>3. BeginExit(st, s) = Cancel(n, {s})
      BY <1>2, <2>1 DEF BeginExit, Store, Book
    <2> HIDE DEF p
    <2>4. Advances(st, n) BY <2>1, <2>2, TouchAdvances
    <2>5. n \in Store /\ OrdersOpen(n.book)
      <3> DEFINE b == [st.book EXCEPT !.position = [@ EXCEPT ![s] = p]]
      <3>1. n = [st EXCEPT !.book = b] BY <2>1 DEF Store, Book
      <3>2. b \in Book /\ b.pending = st.book.pending BY <2>1, <2>2 DEF Book
      <3> HIDE DEF b, n
      <3>3. n \in Store /\ n.book = b BY <2>1, <3>1, <3>2 DEF Store
      <3> QED BY <3>2, <3>3 DEF OrdersOpen, Good, Sound
    <2> HIDE DEF n
    <2>6. Advances(n, Cancel(n, {s})) BY <2>5, CancelAdvances
    <2> QED BY <2>3, <2>4, <2>6, AdvancesOn
  <1> QED BY <1>1, <1>2

\* A position whose i-th target is marked.
WithTarget(p, i) == [p EXCEPT !.filled_targets = @ \cup {i}]

\* The mark of a target is made in memory, after the withdrawal.
LEMMA MarkTargetFacts ==
    ASSUME NEW C, NEW st, Good(st, C), NEW s \in Symbols, NEW i \in {1, 2, 3},
           st.book.position[s] # NoPosition
    PROVE  /\ Accounted(st, MarkTarget(st, s, i))
           /\ MarkTarget(st, s, i).book.position[s] = WithTarget(st.book.position[s], i)
           /\ \A x \in Symbols : x # s =>
                MarkTarget(st, s, i).book.position[x] = st.book.position[x]
  <1> DEFINE r == MarkTarget(st, s, i)
             c == Cancel(st, {s})
             p == st.book.position[s]
             m == [p EXCEPT !.filled_targets = @ \cup {i}]
  <1>1. /\ Good(c, C) /\ Advances(st, c)
        /\ c.book = [st.book EXCEPT !.pending =
             [x \in Symbols |-> IF x \in {s} THEN NoOrder ELSE st.book.pending[x]]]
    BY CancelGood, CancelAdvances DEF Good, Sound
  <1>2. st.book \in Book /\ p \in Position BY DEF Good, Store, Book
  <1>3. c.book.position = st.book.position BY <1>1, <1>2 DEF Book
  <1>4. c \in Store /\ c.book \in Book BY <1>1 DEF Good, Store
  <1> HIDE DEF c
  <1>5. /\ r.book = [c.book EXCEPT !.position = [@ EXCEPT ![s] = m]]
        /\ r.saved = c.saved /\ r.intents = c.intents
    BY <1>3, <1>4 DEF MarkTarget, c, Store, Book
  <1>6. m \in Position /\ m.plan = p.plan /\ m.remaining = p.remaining
    BY <1>2 DEF Position
  <1> HIDE DEF r, m
  <1>7. /\ r.book.pending = c.book.pending /\ r.book.position[s] = m
        /\ \A x \in Symbols : x # s => r.book.position[x] = c.book.position[x]
    BY <1>4, <1>5 DEF Book
  <1>8. m # NoPosition BY <1>6, NoneAssumption
  <1>9. Accounted(c, r)
    <2>1. \A x \in Symbols :
            /\ r.book.position[x] = NoPosition <=> c.book.position[x] = NoPosition
            /\ r.book.position[x] # NoPosition
                => SameStake(r.book.position[x], c.book.position[x])
      BY <1>3, <1>6, <1>7, <1>8 DEF SameStake
    <2> QED BY <1>5, <1>7, <2>1, SameAccounts
  <1>10. Accounted(st, r)
    BY <1>1, <1>9, EvolvesOn DEF Advances, Accounted
  <1> QED BY <1>3, <1>5, <1>7, <1>10 DEF r, c, m, WithTarget

\* The sale at a target, before the stop is moved.
TargetSale(st, s, t, i) ==
    CloseQuantity(MarkTarget(st, s, i), s,
                  TargetQuantity(s, st.book.position[s].quantity, i), t, "TARGET")

TakesOnly(s, u, v, i) ==
    v # NoPosition => /\ Takes(s, u, v, i)
                      /\ v.entry_price = u.entry_price
                      /\ v.stop = u.stop

LEMMA TargetSaleFacts ==
    ASSUME NEW C, NEW st, Good(st, C), NEW s \in Symbols, NEW t \in Tick,
           NEW i \in {1, 2, 3}, TargetDue(st, s, t, i), now \in Nat
    PROVE  /\ Good(TargetSale(st, s, t, i), C)
           /\ Accounted(st, TargetSale(st, s, t, i))
           /\ Settled(TargetSale(st, s, t, i))
           /\ TakesOnly(s, st.book.position[s], TargetSale(st, s, t, i).book.position[s], i)
           /\ \A x \in Symbols : x # s =>
                TargetSale(st, s, t, i).book.position[x] = st.book.position[x]
  <1> DEFINE p == st.book.position[s]
             tq == TargetQuantity(s, p.quantity, i)
             marked == MarkTarget(st, s, i)
             m == WithTarget(p, i)
             r == CloseQuantity(marked, s, tq, t, "TARGET")
             v == r.book.position[s]
  <1>1. p # NoPosition /\ i <= Len(Candidate[s].targets)
        /\ i \notin p.filled_targets /\ tq > 0
    BY DEF TargetDue
  <1>2. p \in Position /\ p.quantity \in Nat
    BY <1>1 DEF Good, Store, Book, Position
  <1>3. tq \in Nat \ {0}
    <2>1. i \in 1..3 OBVIOUS
    <2>2. tq \in Int BY <1>1, <1>2, <2>1, TargetQuantityType
    <2> QED BY <1>1, <2>2
  <1> HIDE DEF tq
  <1>4. Good(marked, C) /\ marked.book.position[s] # NoPosition
    BY <1>1, MarkTargetGood
  <1>5. /\ Accounted(st, marked) /\ marked.book.position[s] = m
        /\ \A x \in Symbols : x # s => marked.book.position[x] = st.book.position[x]
    BY <1>1, MarkTargetFacts
  <1> HIDE DEF marked
  <1>6. /\ Accounted(marked, r) /\ Settled(r)
        /\ \A x \in Symbols : x # s => r.book.position[x] = marked.book.position[x]
        /\ v # NoPosition =>
             /\ v.quantity = marked.book.position[s].quantity
             /\ v.remaining = marked.book.position[s].remaining - tq
             /\ v.entry_price = marked.book.position[s].entry_price
             /\ v.stop = marked.book.position[s].stop
             /\ v.filled_targets = marked.book.position[s].filled_targets
    BY <1>3, <1>4, SaleFacts
  <1>7. Good(r, C) BY <1>3, <1>4, CloseQuantityGood
  <1> HIDE DEF r
  <1>8. /\ m.quantity = p.quantity /\ m.remaining = p.remaining
        /\ m.entry_price = p.entry_price /\ m.stop = p.stop
        /\ m.filled_targets = p.filled_targets \cup {i}
    BY <1>2 DEF Position, WithTarget
  <1>9. TakesOnly(s, p, v, i)
    <2> HIDE DEF m
    <2> QED BY <1>1, <1>5, <1>6, <1>8 DEF TakesOnly, Takes, tq
  <1>10. Accounted(st, r) BY <1>5, <1>6, EvolvesOn DEF Accounted
  <1>11. \A x \in Symbols : x # s => r.book.position[x] = st.book.position[x]
    BY <1>5, <1>6
  <1> QED BY <1>6, <1>7, <1>9, <1>10, <1>11 DEF TargetSale, r, marked, tq

LEMMA TakeProfitAdvances ==
    ASSUME NEW C, NEW st, Good(st, C), NEW s \in Symbols, NEW t \in Tick,
           NEW i \in {1, 2, 3}, now \in Nat
    PROVE  Advances(st, TakeProfit(st, s, t, i))
  <1>1. CASE ~TargetDue(st, s, t, i) BY <1>1, AdvancesNot DEF TakeProfit
  <1>2. CASE TargetDue(st, s, t, i)
    <2> DEFINE p == st.book.position[s]
               closed == TargetSale(st, s, t, i)
               u == closed.book.position[s]
               moved == [u EXCEPT !.stop = Larger(@, p.entry_price)]
               moves == i = 1 /\ Candidate[s].move_stop /\ u # NoPosition
               r == TakeProfit(st, s, t, i)
    <2>1. /\ Good(closed, C) /\ Accounted(st, closed) /\ Settled(closed)
          /\ \A x \in Symbols : x # s => closed.book.position[x] = st.book.position[x]
          /\ TakesOnly(s, p, u, i)
      BY <1>2, TargetSaleFacts
    <2>2. p \in Position /\ p.entry_price \in Nat /\ p.stop \in Nat
      BY <1>2 DEF TargetDue, Good, Store, Book, Position
    <2>3. closed \in Store /\ closed.book \in Book BY <2>1 DEF Good, Store
    <2>4. r = IF moves THEN [closed EXCEPT !.book.position[s] = moved] ELSE closed
      <3>1. r = IF moves THEN [closed EXCEPT !.book.position[s].stop
                                    = Larger(@, p.entry_price)]
                ELSE closed
        BY <1>2 DEF TakeProfit, TargetSale
      <3> HIDE DEF r, closed
      <3>2. [closed EXCEPT !.book.position[s].stop = Larger(@, p.entry_price)]
              = [closed EXCEPT !.book.position[s] = moved]
        BY <2>3 DEF Store, Book
      <3> QED BY <3>1, <3>2
    <2> HIDE DEF closed, r
    <2>5. CASE ~moves
      <3>1. u # NoPosition => Takes(s, p, u, i) /\ Guards(s, p, u, i)
        BY <2>1, <2>2, <2>5 DEF Guards, TakesOnly
      <3>2. u \in Position \cup {NoPosition} BY <2>3 DEF Book
      <3>3. Progresses(s, p, u)
        BY <3>1, <3>2, ProgressByMove DEF PositionMoves
      <3>4. \A x \in Symbols : Progresses(x, st.book.position[x], closed.book.position[x])
        BY <2>1, <3>3 DEF Progresses
      <3> QED BY <2>1, <2>4, <2>5, <3>4 DEF Advances, r
    <2>6. CASE moves
      <3>1. u \in Position /\ u # NoPosition BY <2>3, <2>6 DEF Book
      <3>2. Larger(u.stop, p.entry_price) \in Nat BY <2>2, <3>1 DEF Larger, Position
      <3>3. /\ moved \in Position /\ SameShares(moved, u)
            /\ moved.entry_price = u.entry_price
            /\ moved.stop = Larger(u.stop, p.entry_price)
        BY <3>1, <3>2 DEF Position, SameShares
      <3> HIDE DEF moved
      <3>4. /\ Accounted(closed, r) /\ Settled(r)
        BY <2>1, <2>3, <2>4, <2>6, <3>1, <3>3, TouchAccounted
      <3>5. /\ r.book.position[s] = moved
            /\ \A x \in Symbols : x # s => r.book.position[x] = closed.book.position[x]
        BY <2>3, <2>4, <2>6 DEF Store, Book
      <3>6. Takes(s, p, moved, i) /\ Guards(s, p, moved, i)
        BY <2>1, <2>2, <3>1, <3>3 DEF Takes, TakesOnly, Guards, SameShares, Larger
      <3>7. moved # NoPosition BY <3>3, NoneAssumption
      <3>8. Progresses(s, p, moved)
        BY <3>3, <3>6, <3>7, ProgressByMove DEF PositionMoves
      <3>9. \A x \in Symbols : Progresses(x, st.book.position[x], r.book.position[x])
        BY <2>1, <3>5, <3>8 DEF Progresses
      <3>10. Accounted(st, r) BY <2>1, <3>4, EvolvesOn DEF Accounted
      <3> QED BY <3>4, <3>9, <3>10 DEF Advances, r
    <2> QED BY <2>5, <2>6
  <1> QED BY <1>1, <1>2
----
\* The handlers.

LEMMA WatchedAdvances ==
    ASSUME NEW C, Good(Current, C), now \in Nat, NEW s \in Symbols, NEW t \in Ticks
    PROVE  /\ Advances(Current, Filled(s, t))
           /\ Live(s, t) => Advances(Current, Marked(s, t))
           /\ Live(s, t) => Advances(Current, Watched(s, t))
  <1> DEFINE f == Filled(s, t)
             m == Marked(s, t)
  <1>1. /\ t \in Tick /\ Good(f, C)
        /\ Live(s, t) => Good(m, C) /\ m.book.position[s] # NoPosition
        /\ Live(s, t) => Good(Watched(s, t), C)
    BY LiveFacts
  <1>2. Advances(Current, f) BY <1>1, ProcessPendingAdvances DEF Filled
  <1> HIDE DEF f, m
  <1>3. ASSUME Live(s, t) PROVE Advances(Current, m)
    <2> DEFINE high == Larger(f.book.position[s].highest, t.bid)
               p == [f.book.position[s] EXCEPT !.highest = high]
    <2>1. f.book.position[s] # NoPosition BY <1>3 DEF Live, f
    <2>2. f \in Store /\ f.book.position[s] \in Position
      BY <1>1, <2>1 DEF Good, Store, Book
    <2>3. high \in Nat BY <1>1, <2>2 DEF Larger, Position, Tick
    <2>4. m = [f EXCEPT !.book.position[s] = p] BY <2>2 DEF Marked, m, f
    <2> HIDE DEF high
    <2>5. p \in Position /\ SameHolding(f.book.position[s], p)
      BY <2>2, <2>3 DEF Position, SameHolding
    <2> HIDE DEF p
    <2>6. Advances(f, m) BY <2>1, <2>2, <2>4, <2>5, TouchAdvances
    <2> QED BY <1>2, <2>6, AdvancesOn
  <1>4. ASSUME Live(s, t) PROVE Advances(Current, Watched(s, t))
    <2> DEFINE old == m.book.position[s].below_vwap_since
               since == IF t.vwap = "above" THEN None ELSE IF old = None THEN now ELSE old
               p == [m.book.position[s] EXCEPT !.below_vwap_since = since]
    <2>1. m.book.position[s] # NoPosition /\ m \in Store /\ m.book.position[s] \in Position
      BY <1>1, <1>4 DEF Good, Store, Book
    <2>2. since \in Nat \cup {None} BY <2>1 DEF Position
    <2>3. Watched(s, t) = m \/ Watched(s, t) = [m EXCEPT !.book.position[s] = p]
      BY <2>1 DEF Watched, m
    <2> HIDE DEF since
    <2>4. p \in Position /\ SameHolding(m.book.position[s], p)
      BY <2>1, <2>2 DEF Position, SameHolding
    <2> HIDE DEF p
    <2>5. Advances(m, [m EXCEPT !.book.position[s] = p]) BY <2>1, <2>4, TouchAdvances
    <2> QED BY <1>3, <1>4, <2>3, <2>5, AdvancesOn
  <1> QED BY <1>2, <1>3, <1>4 DEF f, m

\* A handler that ends in a store its operations lead to.
LEMMA AdvancesAfter ==
    ASSUME NEW st \in Store, Advances(Current, st), Becomes(st)
    PROVE  Advances(Current, After)
  <1>1. st = After BY DEF Store, After, Becomes
  <1> QED BY <1>1

\* Saving leads nowhere else.
LEMMA SaveAdvances ==
    ASSUME NEW st \in Store
    PROVE  Advances(st, Save(st))
  <1>1. Save(st) \in Store /\ Save(st).book = st.book /\ Save(st).intents = st.intents
    BY DEF Save, Store
  <1>2. Settled(Save(st)) BY <1>1, SaveSettles
  <1> QED BY <1>1, <1>2 DEF Advances, Accounted, Evolves, Progresses

LEMMA TickAdvances ==
    ASSUME NEW C, Good(Current, C), now \in Nat,
           NEW s \in Symbols, NEW t \in Ticks, OnTick(s, t)
    PROVE  Advances(Current, After)
  <1>1. /\ t \in Tick
        /\ Good(Filled(s, t), C)
        /\ Live(s, t) => Good(Marked(s, t), C)
                         /\ Marked(s, t).book.position[s] # NoPosition
        /\ Live(s, t) => Good(Watched(s, t), C)
                         /\ Watched(s, t).book.position[s] # NoPosition
    BY LiveFacts
  <1>2. /\ Advances(Current, Filled(s, t))
        /\ Live(s, t) => Advances(Current, Marked(s, t))
        /\ Live(s, t) => Advances(Current, Watched(s, t))
    BY WatchedAdvances
  <1>3. CASE TickIdle(s, t) BY <1>1, <1>2, <1>3, AdvancesAfter DEF TickIdle, Good
  <1>4. Live(s, t) => /\ Good(BeginExit(Marked(s, t), s), C)
                      /\ BeginExit(Marked(s, t), s).book.position[s] # NoPosition
                      /\ Advances(Current, BeginExit(Marked(s, t), s))
    BY <1>1, <1>2, BeginExitGood, BeginExitAdvances, AdvancesOn
  <1>5. CASE TickStopExecuted(s, t)
    <2> DEFINE b == BeginExit(Marked(s, t), s)
               st == CloseAll(b, s, t, "STOP_LOSS")
    <2>1. Live(s, t) /\ Becomes(st) BY <1>5 DEF TickStopExecuted
    <2> HIDE DEF b
    <2>2. Good(b, C) /\ b.book.position[s] # NoPosition /\ Advances(Current, b)
      BY <1>4, <2>1 DEF b
    <2>3. Good(st, C) /\ Advances(b, st)
      BY <1>1, <2>2, CloseAllGood, CloseAllAdvances
    <2> HIDE DEF st
    <2> QED BY <2>1, <2>2, <2>3, AdvancesOn, AdvancesAfter DEF Good
  <1>6. CASE TickStopWaits(s, t)
    <2>1. Becomes(BeginExit(Marked(s, t), s)) /\ Live(s, t) BY <1>6 DEF TickStopWaits
    <2> QED BY <1>4, <2>1, AdvancesAfter DEF Good
  <1>7. CASE TickTimedExit(s, t)
    <2> DEFINE w == Watched(s, t)
               st == CloseAll(w, s, t, "TIMED_EXIT")
    <2>1. Live(s, t) /\ Becomes(st) BY <1>7 DEF TickTimedExit
    <2> HIDE DEF w
    <2>2. Good(w, C) /\ w.book.position[s] # NoPosition /\ Advances(Current, w)
      BY <1>1, <1>2, <2>1 DEF w
    <2>3. Good(st, C) /\ Advances(w, st)
      BY <1>1, <2>2, CloseAllGood, CloseAllAdvances
    <2> HIDE DEF st
    <2> QED BY <2>1, <2>2, <2>3, AdvancesOn, AdvancesAfter DEF Good
  <1>8. CASE TickTargets(s, t)
    <2> DEFINE w == Watched(s, t)
               a == TakeProfit(w, s, t, 1)
               b == TakeProfit(a, s, t, 2)
               c == TakeProfit(b, s, t, 3)
    <2>1. Live(s, t) /\ Becomes(Save(c)) BY <1>8 DEF TickTargets
    <2> HIDE DEF w
    <2>2. Good(w, C) /\ Advances(Current, w) BY <1>1, <1>2, <2>1 DEF w
    <2>3. Good(a, C) /\ Advances(w, a) BY <1>1, <2>2, TakeProfitGood, TakeProfitAdvances
    <2> HIDE DEF a
    <2>4. Good(b, C) /\ Advances(a, b) BY <1>1, <2>3, TakeProfitGood, TakeProfitAdvances
    <2> HIDE DEF b
    <2>5. Good(c, C) /\ Advances(b, c) BY <1>1, <2>4, TakeProfitGood, TakeProfitAdvances
    <2> HIDE DEF c
    <2>6. Good(Save(c), C) /\ Advances(c, Save(c))
      BY <2>5, SaveGood, SaveAdvances DEF Good
    <2>7. Advances(Current, Save(c)) BY <2>2, <2>3, <2>4, <2>5, <2>6, AdvancesOn
    <2> QED BY <2>1, <2>6, <2>7, AdvancesAfter DEF Good
  <1> QED BY <1>3, <1>5, <1>6, <1>7, <1>8 DEF OnTick

LEMMA HandlesAdvances ==
    ASSUME NEW C, Good(Current, C), Synced(Current), now \in Nat, Handles
    PROVE  Advances(Current, After)
  <1>1. ASSUME NEW s \in Symbols, NEW t \in Ticks, OnTick(s, t)
        PROVE  Advances(Current, After)
    BY <1>1, TickAdvances
  <1>2. \A S \in SUBSET Symbols :
            Good(Cancel(Current, S), C) /\ Advances(Current, Cancel(Current, S))
    BY CancelGood, CancelAdvances DEF Good, Sound
  <1>3. ASSUME NEW p \in Plans, NEW s \in Symbols, SubmitRefused(p, s)
        PROVE  Advances(Current, After)
    <2> DEFINE st == EnsureSession(Current)
    <2>1. Good(st, C) /\ Advances(Current, st)
      BY EnsureSessionGood, EnsureSessionAdvances
    <2> QED BY <1>3, <2>1, AdvancesAfter DEF Good, SubmitRefused
  <1>4. ASSUME NEW S \in SUBSET Symbols, Becomes(Cancel(Current, S))
        PROVE  Advances(Current, After)
    BY <1>2, <1>4, AdvancesAfter DEF Good
  <1>5. ASSUME NEW s \in Symbols, CancelPending(s) PROVE Advances(Current, After)
    <2>1. {s} \in SUBSET Symbols OBVIOUS
    <2> QED BY <1>4, <1>5, <2>1 DEF CancelPending
  <1>6. ASSUME NEW s \in Symbols, NEW t \in Ticks, NEW S \in SUBSET Symbols, NEW reason,
               Cancel(Current, S).book.position[s] # NoPosition,
               Becomes(CloseAll(Cancel(Current, S), s, t, reason))
        PROVE  Advances(Current, After)
    <2> DEFINE c == Cancel(Current, S)
               st == CloseAll(c, s, t, reason)
    <2>1. t \in Tick BY TickAssumption
    <2>2. Good(c, C) /\ Advances(Current, c) BY <1>2
    <2>3. c.book.position[s] # NoPosition /\ Becomes(st) BY <1>6
    <2> HIDE DEF c
    <2>4. Good(st, C) /\ Advances(c, st)
      BY <2>1, <2>2, <2>3, CloseAllGood, CloseAllAdvances
    <2> HIDE DEF st
    <2> QED BY <2>2, <2>3, <2>4, AdvancesOn, AdvancesAfter DEF Good
  <1>7. ASSUME NEW s \in Symbols, NEW t \in Ticks, CorporateActionCloses(s, t)
        PROVE  Advances(Current, After)
    <2>1. {s} \in SUBSET Symbols OBVIOUS
    <2> QED BY <1>6, <1>7, <2>1 DEF CorporateActionCloses
  <1>8. ASSUME NEW s \in Symbols, NEW t \in Ticks, CorporateActionKeeps(s, t)
        PROVE  Advances(Current, After)
    <2>1. {s} \in SUBSET Symbols OBVIOUS
    <2> QED BY <1>4, <1>8, <2>1 DEF CorporateActionKeeps
  <1>9. ASSUME NEW s \in Symbols, NEW t \in Ticks, ForceClosePriced(s, t)
        PROVE  Advances(Current, After)
    <2>1. Cancel(Current, Symbols).book = [Current.book EXCEPT !.pending =
            [r \in Symbols |-> IF r \in Symbols THEN NoOrder ELSE Current.book.pending[r]]]
      BY CancelGood
    <2>2. Current.book = book /\ book \in Book BY DEF Current, Good, Store
    <2>3. Cancel(Current, Symbols).book.position = book.position BY <2>1, <2>2 DEF Book
    <2> QED BY <1>6, <1>9, <2>3 DEF ForceClosePriced
  <1>10. CASE ForceCloseUnpriced BY <1>4, <1>10 DEF ForceCloseUnpriced
  <1>11. CASE ExpirePending
    <2>1. Due(book) \in SUBSET Symbols BY DEF Due, Resting
    <2> QED BY <1>4, <1>11, <2>1 DEF ExpirePending
  <1>12. CASE ResetDay
    <2>1. Current \in Store /\ Current.book \in Book BY DEF Good, Store
    <2> DEFINE b == FreshCounters(Current.book)
               n == [Current EXCEPT !.book = b]
    <2>2. b \in Book /\ b.pending = Current.book.pending /\ b.position = Current.book.position
      BY <2>1, FreshCountersFacts
    <2>3. Becomes(Save(n)) BY <1>12 DEF ResetDay
    <2> HIDE DEF b
    <2>4. n \in Store /\ n.book = b /\ n.intents = Current.intents BY <2>1, <2>2 DEF Store
    <2> HIDE DEF n
    <2>5. Accounted(Current, n) BY <2>2, <2>4, SameAccounts DEF SameStake
    <2>6. Advances(n, Save(n)) /\ Save(n) \in Store BY <2>4, SaveAdvances DEF Save, Store
    <2>7. Settled(Save(n)) BY <2>6, SaveSettles
    <2>8. Save(n).book = b BY <2>4 DEF Save, Store
    <2>9. Accounted(Current, Save(n))
      BY <2>5, <2>6, EvolvesOn DEF Advances, Accounted
    <2>10. Advances(Current, Save(n))
      BY <2>2, <2>7, <2>8, <2>9 DEF Advances, Progresses
    <2> QED BY <2>3, <2>6, <2>10, AdvancesAfter
  <1>13. CASE Restart
    <2>1. /\ After.book = saved /\ After.saved = saved /\ After.intents = intents
          /\ Current.book = book /\ Current.saved = saved /\ Current.intents = intents
          /\ saved \in Book /\ book \in Book
      BY <1>13 DEF Restart, After, Current, Good, Store
    <2>2. Unmarked(saved) = Unmarked(book) BY <2>1 DEF Synced
    <2>3. /\ saved.pending = book.pending
          /\ \A s \in Symbols :
                /\ saved.position[s] = NoPosition <=> book.position[s] = NoPosition
                /\ saved.position[s] # NoPosition
                    => SameHolding(saved.position[s], book.position[s])
      BY <2>1, <2>2, UnmarkedFacts
    <2>4. Accounted(Current, After)
      <3>1. \A s \in Symbols :
                /\ After.book.position[s] = NoPosition
                    <=> Current.book.position[s] = NoPosition
                /\ After.book.position[s] # NoPosition
                    => SameStake(After.book.position[s], Current.book.position[s])
        BY <2>1, <2>3 DEF SameHolding, SameStake
      <3> QED BY <2>1, <2>3, <3>1, SameAccounts
    <2>5. ASSUME NEW s \in Symbols PROVE Progresses(s, book.position[s], saved.position[s])
      <3>1. saved.position[s] \in Position \cup {NoPosition} BY <2>1 DEF Book
      <3>2. PositionMoves(s, book.position[s], saved.position[s])
        BY <2>3 DEF PositionMoves, SameHolding
      <3> QED BY <3>1, <3>2, ProgressByMove
    <2>6. Settled(After) BY <2>1 DEF Settled, Agree, SameShares
    <2> QED BY <2>1, <2>4, <2>5, <2>6 DEF Advances
  <1> QED BY <1>1, <1>3, <1>5, <1>7, <1>8, <1>9, <1>10, <1>11, <1>12, <1>13 DEF Handles

----
\* What the moves keep.

\* Nothing rests, is held or was withdrawn or sold.
Unused == {x \in Accounts :
    x.resting = 0 /\ x.held = 0 /\ x.cancelled = 0 /\ x.sold = 0}

\* Every share bought is resting, held, cancelled or sold.
Balanced == {x \in Accounts :
    /\ x.bought = x.cancelled + x.sold + x.resting + x.held
    /\ x.resting > 0 => x.cancelled = 0}

\* The ledger is not behind.  An order whose withdrawal was recorded before a crash
\* may rest again, but then nothing more than the record is to be accounted for.
Ahead == {x \in Accounts :
    /\ x.resting + x.held <= x.bought
    /\ x.resting + x.held + x.cancelled + x.sold > 0
        => x.bought <= x.resting + x.held + x.cancelled + x.sold
    /\ x.cancelled > 0 => x.bought <= x.held + x.cancelled + x.sold}

\* The shares gone from a position are those of the targets taken; and once the
\* first is taken, the stop is no longer below the entry price if it is to move.
Matched(s) == {p \in Position :
    /\ \A i \in p.filled_targets : i <= Len(Candidate[s].targets)
    /\ p.remaining = p.quantity - SoldAtTargets(s, p)}
Protected(s) == {p \in Position :
    Candidate[s].move_stop /\ 1 \in p.filled_targets => p.stop >= p.entry_price}

LEMMA MovesFields ==
    ASSUME NEW x \in Accounts, NEW y \in Accounts, Moves(x, y)
    PROVE  /\ y.bought = x.bought
           /\ \/ /\ y.sold = x.sold /\ y.cancelled = x.cancelled
                 /\ y.held >= x.held /\ y.resting + y.held = x.resting + x.held
              \/ /\ x.resting > 0 /\ y.resting = 0
                 /\ y.held = x.held /\ y.sold = x.sold
                 /\ y.cancelled = IF x.cancelled = 0 THEN x.resting ELSE x.cancelled
              \/ /\ y.resting = x.resting /\ y.cancelled = x.cancelled
                 /\ y.held <= x.held /\ y.held + y.sold = x.held + x.sold
  <1>1. CASE Fills(x, y)
    <2>1. PICK q \in Nat : y = [x EXCEPT !.resting = @ - q, !.held = @ + q]
      BY <1>1 DEF Fills
    <2>2. /\ y.resting = x.resting - q /\ y.held = x.held + q /\ y.bought = x.bought
          /\ y.cancelled = x.cancelled /\ y.sold = x.sold
      BY <2>1 DEF Accounts
    <2> QED BY <2>2 DEF Accounts
  <1>2. CASE Withdraws(x, y) BY <1>2 DEF Withdraws, Accounts
  <1>3. CASE Sells(x, y)
    <2>1. PICK q \in Nat : q <= x.held /\ y = [x EXCEPT !.held = @ - q, !.sold = @ + q]
      BY <1>3 DEF Sells
    <2>2. /\ y.held = x.held - q /\ y.sold = x.sold + q /\ y.bought = x.bought
          /\ y.cancelled = x.cancelled /\ y.resting = x.resting
      BY <2>1 DEF Accounts
    <2> QED BY <2>2 DEF Accounts
  <1>4. CASE x = y BY <1>4 DEF Accounts
  <1> QED BY <1>1, <1>2, <1>3, <1>4 DEF Moves

LEMMA UnusedKept ==
    ASSUME NEW x \in Unused, NEW y \in Accounts, Moves(x, y) PROVE y \in Unused
  <1>1. x \in Accounts BY DEF Unused
  <1> QED BY <1>1, MovesFields DEF Unused, Accounts

LEMMA BalancedKept ==
    ASSUME NEW x \in Balanced, NEW y \in Accounts, Moves(x, y) PROVE y \in Balanced
  <1>1. x \in Accounts BY DEF Balanced
  <1> QED BY <1>1, MovesFields DEF Balanced, Accounts

LEMMA AheadKept ==
    ASSUME NEW x \in Ahead, NEW y \in Accounts, Moves(x, y) PROVE y \in Ahead
  <1>1. x \in Accounts BY DEF Ahead
  <1> QED BY <1>1, MovesFields DEF Ahead, Accounts

\* One more target taken counts its shares once.
LEMMA SoldOnceMore ==
    ASSUME NEW s \in Symbols, NEW u \in Position, NEW v \in Position, NEW i \in {1, 2, 3},
           \A j \in u.filled_targets : j <= Len(Candidate[s].targets),
           Takes(s, u, v, i)
    PROVE  /\ SoldAtTargets(s, u) \in Int
           /\ TargetQuantity(s, u.quantity, i) \in Int
           /\ SoldAtTargets(s, v) = SoldAtTargets(s, u) + TargetQuantity(s, u.quantity, i)
  <1> DEFINE n(j) == TargetQuantity(s, u.quantity, j)
             old(j) == IF j \in u.filled_targets THEN n(j) ELSE 0
             new(j) == IF j \in v.filled_targets THEN n(j) ELSE 0
  <1>1. u.quantity \in Nat /\ u.filled_targets \subseteq {1, 2, 3} /\ v.quantity = u.quantity
        /\ v.filled_targets = u.filled_targets \cup {i} /\ i \notin u.filled_targets
        /\ i <= Len(Candidate[s].targets)
    BY DEF Position, Takes
  <1>2. \A j \in 1..3 : j <= Len(Candidate[s].targets) => n(j) \in Int
    BY <1>1, TargetQuantityType
  <1> HIDE DEF n
  <1>3. \A j \in {1, 2, 3} : old(j) \in Int BY <1>1, <1>2
  <1>4. n(i) \in Int BY <1>1, <1>2
  <1>5. \A j \in {1, 2, 3} : new(j) = IF j = i THEN n(i) ELSE old(j) BY <1>1
  <1>6. old(i) = 0 BY <1>1
  <1> HIDE DEF old, new
  <1>7. new(1) + new(2) + new(3) = old(1) + old(2) + old(3) + n(i)
    BY <1>3, <1>4, <1>5, <1>6
  <1>8. SoldAtTargets(s, u) = old(1) + old(2) + old(3)
    BY DEF SoldAtTargets, old, n
  <1>9. SoldAtTargets(s, v) = new(1) + new(2) + new(3)
    BY <1>1 DEF SoldAtTargets, new, n
  <1> QED BY <1>3, <1>4, <1>7, <1>8, <1>9 DEF n

LEMMA TakesMatched ==
    ASSUME NEW s \in Symbols, NEW u \in Matched(s), NEW v \in Position,
           NEW i \in {1, 2, 3}, Takes(s, u, v, i)
    PROVE  v \in Matched(s)
  <1>1. /\ u \in Position /\ u.quantity \in Nat /\ u.remaining \in Nat
        /\ \A j \in u.filled_targets : j <= Len(Candidate[s].targets)
        /\ u.remaining = u.quantity - SoldAtTargets(s, u)
    BY DEF Matched, Position
  <1>2. /\ SoldAtTargets(s, u) \in Int
        /\ TargetQuantity(s, u.quantity, i) \in Int
        /\ SoldAtTargets(s, v) = SoldAtTargets(s, u) + TargetQuantity(s, u.quantity, i)
    BY <1>1, SoldOnceMore
  <1>3. /\ v.quantity = u.quantity
        /\ v.remaining = u.remaining - TargetQuantity(s, u.quantity, i)
    BY DEF Takes
  <1>4. v.remaining = v.quantity - SoldAtTargets(s, v) BY <1>1, <1>2, <1>3
  <1>5. \A j \in v.filled_targets : j <= Len(Candidate[s].targets) BY <1>1 DEF Takes
  <1> QED BY <1>4, <1>5 DEF Matched

LEMMA MatchedKept ==
    ASSUME NEW s \in Symbols, NEW u \in Matched(s) \cup {NoPosition},
           NEW v \in Position \cup {NoPosition}, PositionMoves(s, u, v)
    PROVE  v \in Matched(s) \cup {NoPosition}
  <1> SUFFICES ASSUME v # NoPosition PROVE v \in Matched(s) OBVIOUS
  <1>1. v \in Position /\ v.quantity \in Nat /\ v.remaining \in Nat BY DEF Position
  <1>2. ASSUME NEW p, p.filled_targets = {} PROVE SoldAtTargets(s, p) = 0
    BY <1>2 DEF SoldAtTargets
  <1>3. CASE Opens(u, v) BY <1>1, <1>2, <1>3 DEF Opens, Matched
  <1>4. ASSUME u # NoPosition
        PROVE  /\ u \in Position /\ u.quantity \in Nat /\ u.remaining \in Nat
               /\ \A i \in u.filled_targets : i <= Len(Candidate[s].targets)
               /\ u.remaining = u.quantity - SoldAtTargets(s, u)
    BY <1>4 DEF Matched, Position
  <1>5. CASE Grows(u, v)
    <2>1. SoldAtTargets(s, u) = 0 /\ SoldAtTargets(s, v) = 0 BY <1>2, <1>5 DEF Grows
    <2>2. v.remaining = v.quantity BY <1>1, <1>4, <1>5, <2>1 DEF Grows
    <2> QED BY <1>1, <1>5, <2>1, <2>2 DEF Matched, Grows
  <1>6. CASE u # NoPosition /\ SameHolding(u, v)
    <2>1. SoldAtTargets(s, u) = SoldAtTargets(s, v)
      BY <1>6 DEF SameHolding, SoldAtTargets
    <2> QED BY <1>1, <1>4, <1>6, <2>1 DEF Matched, SameHolding
  <1>7. ASSUME NEW i \in {1, 2, 3}, Takes(s, u, v, i) PROVE v \in Matched(s)
    <2>1. u \in Matched(s) BY <1>7 DEF Takes
    <2> QED BY <1>1, <1>7, <2>1, TakesMatched
  <1> QED BY <1>3, <1>5, <1>6, <1>7 DEF PositionMoves

LEMMA ProtectedKept ==
    ASSUME NEW s \in Symbols, NEW u \in Protected(s) \cup {NoPosition},
           NEW v \in Position \cup {NoPosition}, PositionMoves(s, u, v)
    PROVE  v \in Protected(s) \cup {NoPosition}
  <1> SUFFICES ASSUME v # NoPosition PROVE v \in Protected(s) OBVIOUS
  <1>1. v \in Position OBVIOUS
  <1>2. CASE Opens(u, v) \/ Grows(u, v) BY <1>1, <1>2 DEF Opens, Grows, Protected
  <1>3. CASE u # NoPosition /\ SameHolding(u, v)
    BY <1>1, <1>3 DEF SameHolding, Protected
  <1>4. ASSUME NEW i \in {1, 2, 3}, Takes(s, u, v, i), Guards(s, u, v, i)
        PROVE  v \in Protected(s)
    <2>1. u \in Protected(s) /\ u.stop \in Nat /\ u.entry_price \in Nat /\ v.stop \in Nat
      BY <1>1, <1>4 DEF Takes, Protected, Position
    <2> QED BY <1>1, <1>4, <2>1 DEF Takes, Guards, Protected
  <1> QED BY <1>2, <1>3, <1>4 DEF PositionMoves

----
\* The invariant.

\* The account of every entry is in a set that moves do not lead out of.
LEMMA AccountsKept ==
    ASSUME NEW a, NEW b, Accounted(a, b), NEW P \in SUBSET Accounts,
           \A u \in P, v \in Accounts : Moves(u, v) => v \in P,
           NEW k \in Keys, Account(a.book, a.intents, k) \in P
    PROVE  Account(b.book, b.intents, k) \in P
  BY DEF Accounted, Evolves

LEMMA PositionsKept ==
    ASSUME NEW s \in Symbols, NEW u, NEW v, Progresses(s, u, v),
           NEW P \in SUBSET (Position \cup {NoPosition}),
           \A x \in P, y \in Position \cup {NoPosition} : PositionMoves(s, x, y) => y \in P,
           u \in P
    PROVE  v \in P
  BY DEF Progresses

\* Shares add up in a book, given the ledger and the claimed keys.
Leads(b, ledger, C) ==
    /\ \A k \in Keys : Account(b, ledger, k) \in Ahead
    /\ \A k \in Keys \ C : Account(b, ledger, k) \in Unused
    /\ \A s \in Symbols : b.position[s] \in Matched(s) \cup {NoPosition}
Exact(b, ledger) ==
    /\ \A k \in Keys : Account(b, ledger, k) \in Balanced
    /\ \A s \in Symbols : b.position[s] \in Protected(s) \cup {NoPosition}

LEMMA LeadsKept ==
    ASSUME NEW C, NEW a, NEW b, Accounted(a, b), Leads(a.book, a.intents, C)
    PROVE  /\ \A k \in Keys : Account(b.book, b.intents, k) \in Ahead
           /\ \A k \in Keys \ C : Account(b.book, b.intents, k) \in Unused
  <1>1. Ahead \in SUBSET Accounts /\ Unused \in SUBSET Accounts BY DEF Ahead, Unused
  <1>2. /\ \A u \in Ahead, v \in Accounts : Moves(u, v) => v \in Ahead
        /\ \A u \in Unused, v \in Accounts : Moves(u, v) => v \in Unused
    BY AheadKept, UnusedKept
  <1>3. \A k \in Keys : Account(b.book, b.intents, k) \in Ahead
    BY <1>1, <1>2, AccountsKept DEF Leads
  <1>4. \A k \in Keys \ C : Account(b.book, b.intents, k) \in Unused
    BY <1>1, <1>2, AccountsKept DEF Leads
  <1> QED BY <1>3, <1>4

LEMMA AdvancesLeads ==
    ASSUME NEW C, NEW a, NEW b, Advances(a, b), Leads(a.book, a.intents, C)
    PROVE  Leads(b.book, b.intents, C)
  <1>1. ASSUME NEW s \in Symbols PROVE b.book.position[s] \in Matched(s) \cup {NoPosition}
    <2> DEFINE P == Matched(s) \cup {NoPosition}
    <2>1. P \in SUBSET (Position \cup {NoPosition}) BY DEF Matched
    <2>2. \A x \in P, y \in Position \cup {NoPosition} : PositionMoves(s, x, y) => y \in P
      BY MatchedKept
    <2>3. a.book.position[s] \in P BY DEF Leads
    <2>4. Progresses(s, a.book.position[s], b.book.position[s]) BY DEF Advances
    <2> HIDE DEF P
    <2>5. b.book.position[s] \in P BY <2>1, <2>2, <2>3, <2>4, PositionsKept
    <2> QED BY <2>5 DEF P
  <1>2. Accounted(a, b) BY DEF Advances
  <1> QED BY <1>1, <1>2, LeadsKept DEF Leads

LEMMA AdvancesExact ==
    ASSUME NEW a, NEW b, Advances(a, b), Exact(a.book, a.intents)
    PROVE  Exact(b.book, b.intents)
  <1>1. ASSUME NEW s \in Symbols
        PROVE  b.book.position[s] \in Protected(s) \cup {NoPosition}
    <2> DEFINE P == Protected(s) \cup {NoPosition}
    <2>1. P \in SUBSET (Position \cup {NoPosition}) BY DEF Protected
    <2>2. \A x \in P, y \in Position \cup {NoPosition} : PositionMoves(s, x, y) => y \in P
      BY ProtectedKept
    <2>3. a.book.position[s] \in P BY DEF Exact
    <2>4. Progresses(s, a.book.position[s], b.book.position[s]) BY DEF Advances
    <2> HIDE DEF P
    <2>5. b.book.position[s] \in P BY <2>1, <2>2, <2>3, <2>4, PositionsKept
    <2> QED BY <2>5 DEF P
  <1>2. Balanced \in SUBSET Accounts BY DEF Balanced
  <1>3. \A u \in Balanced, v \in Accounts : Moves(u, v) => v \in Balanced
    BY BalancedKept
  <1>4. \A k \in Keys : Account(b.book, b.intents, k) \in Balanced
    BY <1>2, <1>3, AccountsKept DEF Advances, Exact
  <1> QED BY <1>1, <1>4 DEF Exact

\* A new entry: its account was unused, the others do not change.
LEMMA EntryAccounts ==
    ASSUME NEW C, NEW b, NEW ledger \in [Keys -> Intent], Leads(b, ledger, C),
           NEW n, NEW key \in Keys \ C, NEW q \in Nat,
           RestingOf(n, key) \in {0, q}, HeldOf(n, key) = 0,
           \A k \in Keys \ {key} :
                RestingOf(n, k) = RestingOf(b, k) /\ HeldOf(n, k) = HeldOf(b, k)
    PROVE  LET L == [ledger EXCEPT ![key].bought = q]
           IN  /\ \A k \in Keys : Account(n, L, k) \in Ahead
               /\ \A k \in Keys \ (C \cup {key}) : Account(n, L, k) \in Unused
               /\ RestingOf(n, key) = q /\ (\A k \in Keys : Account(b, ledger, k) \in Balanced)
                    => \A k \in Keys : Account(n, L, k) \in Balanced
  <1> DEFINE L == [ledger EXCEPT ![key].bought = q]
  <1>1. ledger[key].cancelled = 0 /\ ledger[key].sold = 0
    <2>1. Account(b, ledger, key) \in Unused BY DEF Leads
    <2> QED BY <2>1 DEF Unused, Account
  <1>2. L[key].bought = q /\ L[key].cancelled = 0 /\ L[key].sold = 0
    <2>1. ledger[key] \in Intent OBVIOUS
    <2>2. L[key] = [ledger[key] EXCEPT !.bought = q] OBVIOUS
    <2> QED BY <1>1, <2>1, <2>2 DEF Intent
  <1>3. \A k \in Keys \ {key} : L[k] = ledger[k] OBVIOUS
  <1> HIDE DEF L
  <1>4. \A k \in Keys \ {key} : Account(n, L, k) = Account(b, ledger, k)
    BY <1>3 DEF Account
  <1>5. Account(n, L, key) = [resting |-> RestingOf(n, key), held |-> 0, bought |-> q,
                              cancelled |-> 0, sold |-> 0]
    BY <1>2 DEF Account
  <1>6. Account(n, L, key) \in Ahead BY <1>5 DEF Ahead, Accounts
  <1>7. RestingOf(n, key) = q => Account(n, L, key) \in Balanced
    BY <1>5 DEF Balanced, Accounts
  <1> QED BY <1>4, <1>6, <1>7 DEF Leads, L

LEMMA SubmitLeads ==
    ASSUME IInv, Leads(book, intents, claimed),
           NEW p \in Plans, NEW s \in Symbols, SubmitAccepted(p, s)
    PROVE  /\ Leads(book', intents', claimed')
           /\ Exact(book, intents) => Exact(book', intents')
  <1> DEFINE st == EnsureSession(Current)
             q == EntryQuantity(st.book, s)
             o == [plan |-> p, eligible_at |-> now + Cost.latency,
                   expires_at |-> now + Cost.timeout, desired |-> q, filled |-> 0]
             b == [st.book EXCEPT !.pending[s] = o, !.submissions_today = @ + 1]
             key == <<p, s>>
             L == [st.intents EXCEPT ![key].bought = q]
  <1>1. Good(st, claimed) /\ Advances(Current, st)
    BY EnsureSessionGood, EnsureSessionAdvances DEF IInv
  <1>2. Admissible(st, p, s) BY DEF SubmitAccepted
  <1>3. /\ \A r \in Symbols : st.book.pending[r] = NoOrder /\ st.book.position[r] = NoPosition
        /\ q \in Nat \ {0}
    BY <1>1, <1>2, AdmissibleFacts
  <1>4. st \in Store /\ st.book \in Book /\ st.intents \in [Keys -> Intent]
    BY <1>1 DEF Good, Store
  <1>5. book' = b /\ intents' = L
    <2>1. Becomes(Save([st EXCEPT !.book.pending[s] = o,
                                  !.book.submissions_today = @ + 1,
                                  !.intents[key].bought = q]))
      BY DEF SubmitAccepted
    <2> HIDE DEF st, o, q, key
    <2> QED BY <1>4, <2>1 DEF Becomes, Save, Store, Book
  <1>6. key \in Keys \ claimed /\ claimed' = claimed \cup {key}
    BY <1>2 DEF SubmitAccepted, Admissible, Keys
  <1>7. Leads(st.book, st.intents, claimed)
    BY <1>1, AdvancesLeads DEF Current
  <1>8. Exact(book, intents) => Exact(st.book, st.intents)
    BY <1>1, AdvancesExact DEF Current
  <1> HIDE DEF st, q
  <1>9. o # NoOrder
    <2>1. o \in Order BY <1>3, CostFields DEF IInv, Order
    <2> QED BY <2>1, NoneAssumption
  <1>10. /\ b.pending = [st.book.pending EXCEPT ![s] = o]
         /\ b.position = st.book.position
    BY <1>4 DEF Book
  <1>11. o.plan = p /\ Unfilled(o) = q BY <1>3 DEF Unfilled
  <1> HIDE DEF b, o, L
  <1>12. /\ b.pending[s] = o
         /\ \A r \in Symbols : r # s => b.pending[r] = NoOrder
         /\ \A r \in Symbols : b.position[r] = NoPosition
    BY <1>3, <1>4, <1>10 DEF Book
  <1>13. RestingOf(b, key) = q BY <1>9, <1>11, <1>12 DEF RestingOf
  <1>14. \A k \in Keys : k[2] \in Symbols /\ k = <<k[1], k[2]>> BY DEF Keys
  <1>15. \A k \in Keys : HeldOf(b, k) = 0 /\ HeldOf(st.book, k) = 0
    BY <1>3, <1>12, <1>14 DEF HeldOf
  <1>16. \A k \in Keys \ {key} : RestingOf(b, k) = 0 /\ RestingOf(st.book, k) = 0
    BY <1>3, <1>11, <1>12, <1>14 DEF RestingOf
  <1> HIDE DEF key
  <1>17. /\ \A k \in Keys : Account(b, L, k) \in Ahead
         /\ \A k \in Keys \ (claimed \cup {key}) : Account(b, L, k) \in Unused
         /\ (\A k \in Keys : Account(st.book, st.intents, k) \in Balanced)
                => \A k \in Keys : Account(b, L, k) \in Balanced
    BY <1>3, <1>4, <1>6, <1>7, <1>13, <1>15, <1>16, EntryAccounts DEF L
  <1>18. Leads(b, L, claimed \cup {key}) BY <1>12, <1>17 DEF Leads
  <1>19. Exact(st.book, st.intents) => Exact(b, L) BY <1>12, <1>17 DEF Exact
  <1> QED BY <1>5, <1>6, <1>8, <1>18, <1>19

\* The inductive invariants: the ledger leads, crashes or not, and without one
\* everything is accounted for exactly.
LeadInv == LimitInv /\ Leads(book, intents, claimed)
ExactInv == LeadInv /\ Exact(book, intents)

LEMMA LeadInit == Init => ExactInv
  <1> SUFFICES ASSUME Init
               PROVE  Leads(book, intents, claimed) /\ Exact(book, intents)
    BY LimitInit DEF ExactInv, LeadInv
  <1>1. \A k \in Keys : Account(book, intents, k) =
            [resting |-> 0, held |-> 0, bought |-> 0, cancelled |-> 0, sold |-> 0]
    <2>1. \A k \in Keys : k[2] \in Symbols BY DEF Keys
    <2> QED BY <2>1 DEF Init, EmptyBook, Account, RestingOf, HeldOf
  <1>2. \A s \in Symbols : book.position[s] = NoPosition BY DEF Init, EmptyBook
  <1> QED BY <1>1, <1>2 DEF Leads, Exact, Ahead, Unused, Balanced, Accounts

LEMMA LeadStep ==
    ASSUME LeadInv, [Next]_vars
    PROVE  LeadInv' /\ (Exact(book, intents) => Exact(book', intents'))
  <1>1. /\ LimitInv' /\ IInv /\ Synced(Current) /\ Leads(book, intents, claimed)
        /\ Good(Current, claimed) /\ now \in Nat
    BY LimitStep DEF LeadInv, LimitInv, SyncInv, IInv
  <1> SUFFICES /\ Leads(book', intents', claimed')
               /\ Exact(book, intents) => Exact(book', intents')
    BY <1>1 DEF LeadInv, Leads, Account, RestingOf, HeldOf
  <1>2. ASSUME NEW p \in Plans, NEW s \in Symbols, SubmitAccepted(p, s)
        PROVE  /\ Leads(book', intents', claimed')
               /\ Exact(book, intents) => Exact(book', intents')
    BY <1>1, <1>2, SubmitLeads
  <1>3. CASE Handles
    <2>1. Advances(Current, After) BY <1>1, <1>3, HandlesAdvances
    <2>2. /\ Current.book = book /\ Current.intents = intents
          /\ After.book = book' /\ After.intents = intents'
      BY DEF Current, After
    <2>3. claimed' = claimed BY <1>3, HandlesKeeps
    <2>4. Leads(After.book, After.intents, claimed)
      BY <1>1, <2>1, <2>2, AdvancesLeads
    <2>5. Exact(book, intents) => Exact(After.book, After.intents)
      BY <2>1, <2>2, AdvancesExact
    <2> QED BY <2>2, <2>3, <2>4, <2>5
  <1>4. CASE UNCHANGED <<book, intents, claimed>> BY <1>1, <1>4
  <1> QED BY <1>2, <1>3, <1>4, NextCases DEF Elapse, vars

LEMMA ExactStep == ExactInv /\ [Next]_vars => ExactInv'
  BY LeadStep DEF ExactInv, Exact, Account, RestingOf, HeldOf

\* The recorded intents account for every share, through partial fills, partial
\* exits, withdrawals and restarts (_apply_entry_fill, close_quantity,
\* cancel_pending).
THEOREM SharesAccountedFor == Spec => []IntentsMatchBook
  <1>1. ExactInv => IntentsMatchBook
    <2> SUFFICES ASSUME ExactInv, NEW k \in Keys
                 PROVE  intents[k].bought - intents[k].cancelled - intents[k].sold
                            = RestingOf(book, k) + HeldOf(book, k)
      BY DEF IntentsMatchBook, RestingOf, HeldOf, Resting, Holding, Keys
    <2>1. Account(book, intents, k) \in Balanced BY DEF ExactInv, Exact
    <2> QED BY <2>1 DEF Balanced, Accounts, Account
  <1> QED BY LeadInit, ExactStep, <1>1, PTL DEF Spec

LEMMA LeadImpliesMatch == LeadInv => TargetsMatchRemaining
  <1> SUFFICES ASSUME LeadInv, NEW s \in Holding(book)
               PROVE  LET p == book.position[s]
                      IN  /\ p.remaining = p.quantity - SoldAtTargets(s, p)
                          /\ p.remaining > 0
    BY DEF TargetsMatchRemaining
  <1>1. s \in Symbols /\ book.position[s] # NoPosition BY DEF Holding
  <1>2. book.position[s] \in Matched(s) BY <1>1 DEF LeadInv, Leads
  <1>3. book.position[s].remaining > 0
    BY <1>1 DEF LeadInv, LimitInv, SyncInv, IInv, Good, Sound, PositionsOpen, Current
  <1> QED BY <1>2, <1>3 DEF Matched

\* What remains of a position is what its open targets still ask for, although
\* every partial fill re-allocates the targets (_allocate_targets, on_tick).
THEOREM TargetsAddUp == Spec => []TargetsMatchRemaining
  <1>1. ExactInv => TargetsMatchRemaining BY LeadImpliesMatch DEF ExactInv
  <1> QED BY LeadInit, ExactStep, <1>1, PTL DEF Spec

----
\* Crashes.

\* A store in which everything but the unsaved fields may be relied on.
Sure(st, C) ==
    /\ Good(st, C)
    /\ Within(st.book)
    /\ Settled(st)
    /\ Leads(st.book, st.intents, C)

LEMMA SureCurrent == LeadInv => Sure(Current, claimed)
  <1> SUFFICES ASSUME LeadInv PROVE Sure(Current, claimed) OBVIOUS
  <1>1. /\ Good(Current, claimed) /\ Within(book) /\ Synced(Current)
        /\ Leads(book, intents, claimed)
    BY DEF LeadInv, LimitInv, SyncInv, IInv
  <1>2. /\ Current.book = book /\ Current.saved = saved /\ Current.intents = intents
        /\ book \in Book /\ saved \in Book
    BY <1>1 DEF Current, Good, Store
  <1>3. Unmarked(saved) = Unmarked(book) BY <1>1, <1>2 DEF Synced
  <1>4. /\ saved.pending = book.pending
        /\ saved.cash = book.cash
        /\ saved.realized = book.realized
        /\ saved.session_realized = book.session_realized
        /\ saved.trades_today = book.trades_today
        /\ saved.submissions_today = book.submissions_today
        /\ \A s \in Symbols :
             /\ saved.position[s] = NoPosition <=> book.position[s] = NoPosition
             /\ saved.position[s] # NoPosition
                 => SameHolding(saved.position[s], book.position[s])
    BY <1>2, <1>3, UnmarkedFacts
  <1>5. Agree(saved, book) BY <1>4 DEF Agree, SameShares, SameHolding
  <1> QED BY <1>1, <1>2, <1>5 DEF Sure, Settled

LEMMA SureAdvances ==
    ASSUME NEW C, NEW a, NEW b, Sure(a, C), Advances(a, b), Good(b, C), Within(b.book)
    PROVE  Sure(b, C)
  <1>1. Leads(b.book, b.intents, C) BY AdvancesLeads DEF Sure
  <1> QED BY <1>1 DEF Sure, Advances

LEMMA SureCancel ==
    ASSUME NEW C, NEW st, Sure(st, C), NEW S \in SUBSET Symbols
    PROVE  Sure(Cancel(st, S), C)
  <1>1. Good(st, C) /\ Within(st.book) /\ st \in Store /\ OrdersOpen(st.book)
    BY DEF Sure, Good, Sound
  <1>2. /\ Advances(st, Cancel(st, S)) /\ Good(Cancel(st, S), C)
        /\ Within(Cancel(st, S).book)
    BY <1>1, CancelAdvances, CancelGood, CancelWithin
  <1> QED BY <1>2, SureAdvances

LEMMA SureBeginExit ==
    ASSUME NEW C, NEW st, Sure(st, C), NEW s \in Symbols,
           st.book.position[s] # NoPosition, now \in Nat
    PROVE  Sure(BeginExit(st, s), C)
  <1>1. Good(st, C) /\ Within(st.book) BY DEF Sure
  <1>2. /\ Advances(st, BeginExit(st, s)) /\ Good(BeginExit(st, s), C)
        /\ Within(BeginExit(st, s).book)
    BY <1>1, BeginExitAdvances, BeginExitGood, BeginExitWithin
  <1> QED BY <1>2, SureAdvances

LEMMA SureTakeProfit ==
    ASSUME NEW C, NEW st, Sure(st, C), NEW s \in Symbols, NEW t \in Ticks,
           NEW i \in {1, 2, 3}, now \in Nat
    PROVE  Sure(TakeProfit(st, s, t, i), C)
  <1>1. Good(st, C) /\ Within(st.book) /\ t \in Tick BY TickAssumption DEF Sure
  <1>2. /\ Advances(st, TakeProfit(st, s, t, i)) /\ Good(TakeProfit(st, s, t, i), C)
        /\ Within(TakeProfit(st, s, t, i).book)
    BY <1>1, TakeProfitAdvances, TakeProfitGood, TakeProfitWithin
  <1> QED BY <1>2, SureAdvances

LEMMA SureTick ==
    ASSUME NEW C, Sure(Current, C), now \in Nat, NEW s \in Symbols, NEW t \in Ticks
    PROVE  /\ Sure(Filled(s, t), C)
           /\ Live(s, t) => Sure(Marked(s, t), C)
           /\ Live(s, t) => Sure(Watched(s, t), C)
  <1>1. Good(Current, C) /\ Within(book) BY DEF Sure, Current
  <1>2. /\ Good(Filled(s, t), C)
        /\ Live(s, t) => Good(Marked(s, t), C)
        /\ Live(s, t) => Good(Watched(s, t), C)
    BY <1>1, LiveFacts
  <1>3. /\ Within(Filled(s, t).book)
        /\ Live(s, t) => Within(Marked(s, t).book) /\ Within(Watched(s, t).book)
    BY <1>1, WatchedWithin
  <1>4. /\ Advances(Current, Filled(s, t))
        /\ Live(s, t) => Advances(Current, Marked(s, t))
        /\ Live(s, t) => Advances(Current, Watched(s, t))
    BY <1>1, WatchedAdvances
  <1> QED BY <1>2, <1>3, <1>4, SureAdvances

\* The ledger L records a withdrawal or a sale that the book of st does not show.
Notes(st, L) ==
    \A k \in Keys :
        /\ L[k] \in Intent
        /\ L[k].bought = st.intents[k].bought
        /\ \/ L[k].cancelled = st.intents[k].cancelled
           \/ /\ st.intents[k].cancelled = 0
              /\ L[k].cancelled = RestingOf(st.book, k)
        /\ \/ L[k].sold = st.intents[k].sold
           \/ HeldOf(st.book, k) > 0 /\ L[k].sold >= st.intents[k].sold

LEMMA NotedLeads ==
    ASSUME NEW C, NEW st \in Store, OrdersOpen(st.book),
           Leads(st.book, st.intents, C), NEW L, Notes(st, L)
    PROVE  Leads(st.book, L, C)
  <1>1. ASSUME NEW k \in Keys
        PROVE  /\ Account(st.book, L, k) \in Ahead
               /\ Account(st.book, st.intents, k) \in Unused
                    => Account(st.book, L, k) \in Unused
    <2> DEFINE x == Account(st.book, st.intents, k)
               y == Account(st.book, L, k)
    <2>1. x \in Accounts /\ x \in Ahead BY AccountType DEF Leads
    <2>2. L[k] \in Intent /\ L[k].bought = x.bought BY DEF Notes, Account
    <2>3. y \in Accounts BY <2>1, <2>2 DEF Account, Accounts, Intent
    <2>4. /\ y.resting = x.resting /\ y.held = x.held /\ y.bought = x.bought
          /\ \/ y.cancelled = x.cancelled
             \/ x.cancelled = 0 /\ y.cancelled = x.resting
          /\ y.sold = x.sold \/ (x.held > 0 /\ y.sold >= x.sold)
      BY DEF Notes, Account
    <2> HIDE DEF x, y
    <2>5. y \in Ahead BY <2>1, <2>3, <2>4 DEF Ahead, Accounts
    <2>6. x \in Unused => y \in Unused BY <2>1, <2>3, <2>4 DEF Unused, Accounts
    <2> QED BY <2>5, <2>6 DEF x, y
  <1> QED BY <1>1 DEF Leads

LEMMA CancelNotes ==
    ASSUME NEW st \in Store, OrdersOpen(st.book), NEW S \in SUBSET Symbols
    PROVE  Notes(st, Cancel(st, S).intents)
  <1> SUFFICES ASSUME NEW k \in Keys
               PROVE  LET L == Cancel(st, S).intents
                      IN  /\ L[k] \in Intent
                          /\ L[k].bought = st.intents[k].bought
                          /\ \/ L[k].cancelled = st.intents[k].cancelled
                             \/ /\ st.intents[k].cancelled = 0
                                /\ L[k].cancelled = RestingOf(st.book, k)
                          /\ L[k].sold = st.intents[k].sold
    BY DEF Notes
  <1> DEFINE gone == Resting(st.book) \cap S
             L == Cancel(st, S).intents
  <1>1. st.intents[k] \in Intent /\ k[2] \in Symbols BY DEF Store, Keys
  <1>2. CASE gone = {} BY <1>1, <1>2 DEF Cancel
  <1>3. CASE gone # {}
    <2>1. L = [h \in Keys |->
                IF /\ h[2] \in gone
                   /\ st.book.pending[h[2]].plan = h[1]
                   /\ st.intents[h].cancelled = 0
                THEN [st.intents[h] EXCEPT !.cancelled = Unfilled(st.book.pending[h[2]])]
                ELSE st.intents[h]]
      BY <1>3 DEF Cancel, Save, Withdrawn, Store
    <2>2. CASE k[2] \in gone /\ st.book.pending[k[2]].plan = k[1]
                /\ st.intents[k].cancelled = 0
      <3> DEFINE u == Unfilled(st.book.pending[k[2]])
      <3>1. L[k] = [st.intents[k] EXCEPT !.cancelled = u] BY <2>1, <2>2
      <3>2. RestingOf(st.book, k) = u BY <2>2 DEF RestingOf, Resting
      <3>3. RestingOf(st.book, k) \in Nat BY AccountType DEF Account, Accounts
      <3> HIDE DEF u, L
      <3> QED BY <1>1, <2>2, <3>1, <3>2, <3>3 DEF Intent, L
    <2>3. CASE ~(k[2] \in gone /\ st.book.pending[k[2]].plan = k[1]
                  /\ st.intents[k].cancelled = 0)
      <3>1. L[k] = st.intents[k] BY <2>1, <2>3
      <3> QED BY <1>1, <3>1
    <2> QED BY <2>2, <2>3
  <1> QED BY <1>2, <1>3

LEMMA SaleNotes ==
    ASSUME NEW C, NEW st, Good(st, C), NEW s \in Symbols, NEW t, NEW reason,
           NEW quantity \in Nat \ {0}, st.book.position[s] # NoPosition
    PROVE  Notes(st, CloseQuantity(st, s, quantity, t, reason).intents)
  <1> DEFINE p == st.book.position[s]
             q == Smaller(quantity, p.remaining)
             key == <<p.plan, s>>
             n == Sold(st.book, s, q, t, reason)
             L == CloseQuantity(st, s, quantity, t, reason).intents
  <1>1. st \in Store /\ st.intents \in [Keys -> Intent] /\ p \in Position
    BY DEF Good, Store, Book
  <1>2. p.remaining \in Nat /\ p.remaining > 0 /\ p.plan \in Plans
    BY <1>1 DEF Position, Good, Sound, PositionsOpen
  <1>3. q \in Nat \ {0} BY <1>2 DEF Smaller
  <1>4. L = [st.intents EXCEPT ![key].sold = @ + q]
    <2>1. CloseQuantity(st, s, quantity, t, reason)
            = Save([st EXCEPT !.book = n, !.intents[key].sold = @ + q])
      BY <1>3 DEF CloseQuantity
    <2> HIDE DEF n, key, q
    <2> QED BY <1>1, <2>1 DEF Save, Store
  <1>5. key \in Keys BY <1>2 DEF Keys
  <1>6. HeldOf(st.book, key) > 0 BY <1>2 DEF HeldOf
  <1> HIDE DEF L, key, q
  <1> SUFFICES ASSUME NEW k \in Keys
               PROVE  /\ L[k] \in Intent
                      /\ L[k].bought = st.intents[k].bought
                      /\ L[k].cancelled = st.intents[k].cancelled
                      /\ \/ L[k].sold = st.intents[k].sold
                         \/ HeldOf(st.book, k) > 0 /\ L[k].sold >= st.intents[k].sold
    BY DEF Notes, L
  <1>7. st.intents[k] \in Intent BY <1>1
  <1>8. CASE k # key
    <2>1. L[k] = st.intents[k] BY <1>1, <1>4, <1>8
    <2> QED BY <1>7, <2>1
  <1>9. CASE k = key
    <2>1. L[k] = [st.intents[k] EXCEPT !.sold = @ + q] BY <1>1, <1>4, <1>9
    <2> QED BY <1>3, <1>6, <1>7, <1>9, <2>1 DEF Intent
  <1> QED BY <1>8, <1>9

LEMMA CloseAllNotes ==
    ASSUME NEW C, NEW st, Good(st, C), NEW s \in Symbols, NEW t, NEW reason,
           st.book.position[s] # NoPosition
    PROVE  Notes(st, CloseAll(st, s, t, reason).intents)
  <1>1. st.book.position[s].remaining \in Nat \ {0}
    <2>1. st.book.position[s] \in Position BY DEF Good, Store, Book
    <2> QED BY <2>1 DEF Good, Sound, PositionsOpen, Position
  <1> QED BY <1>1, SaleNotes DEF CloseAll

\* The mark of a target is not saved and records nothing.
LEMMA MarkTargetSaves ==
    ASSUME NEW C, NEW st, Good(st, C), NEW s \in Symbols, NEW i \in {1, 2, 3},
           st.book.position[s] # NoPosition
    PROVE  LET m == MarkTarget(st, s, i)
               c == Cancel(st, {s})
           IN  /\ m.saved = c.saved
               /\ m.intents = c.intents
               /\ \A k \in Keys : HeldOf(m.book, k) = HeldOf(c.book, k)
               /\ \A k \in Keys : RestingOf(m.book, k) = RestingOf(c.book, k)
  <1> DEFINE m == MarkTarget(st, s, i)
             c == Cancel(st, {s})
             p == WithTarget(c.book.position[s], i)
  <1>1. c \in Store /\ c.book \in Book /\ st.book \in Book
    BY CancelGood DEF Good, Store
  <1>2. c.book.position = st.book.position
    <2>1. c.book = [st.book EXCEPT !.pending =
            [x \in Symbols |-> IF x \in {s} THEN NoOrder ELSE st.book.pending[x]]]
      BY CancelGood
    <2> QED BY <1>1, <2>1 DEF Book
  <1> HIDE DEF c
  <1>3. /\ m.book = [c.book EXCEPT !.position = [@ EXCEPT ![s] = p]]
        /\ m.saved = c.saved /\ m.intents = c.intents
    BY <1>1 DEF MarkTarget, WithTarget, c, Store, Book
  <1>4. c.book.position[s] \in Position /\ c.book.position[s] # NoPosition
    BY <1>1, <1>2 DEF Book
  <1>5. p \in Position /\ SameStake(p, c.book.position[s])
    BY <1>4 DEF WithTarget, Position, SameStake
  <1> HIDE DEF m, p
  <1>6. /\ m.book.pending = c.book.pending /\ m.book.position[s] = p
        /\ \A x \in Symbols : x # s => m.book.position[x] = c.book.position[x]
    BY <1>1, <1>3 DEF Book
  <1>7. p # NoPosition BY <1>5, NoneAssumption
  <1>8. ASSUME NEW k \in Keys
        PROVE  /\ HeldOf(m.book, k) = HeldOf(c.book, k)
               /\ RestingOf(m.book, k) = RestingOf(c.book, k)
    <2>1. k[2] \in Symbols BY DEF Keys
    <2>2. HeldOf(m.book, k) = HeldOf(c.book, k)
      BY <1>4, <1>5, <1>6, <1>7, <2>1 DEF HeldOf, SameStake
    <2> QED BY <1>6, <2>2 DEF RestingOf
  <1> QED BY <1>3, <1>8 DEF m, c

\* The sale at a target before the stop is moved: nothing is lost but the move.
LEMMA SureTargetSale ==
    ASSUME NEW C, NEW st, Sure(st, C), NEW s \in Symbols, NEW t \in Ticks,
           NEW i \in {1, 2, 3}, TargetDue(st, s, t, i), now \in Nat
    PROVE  /\ Sure(TargetSale(st, s, t, i), C)
           /\ Notes(Cancel(st, {s}), TargetSale(st, s, t, i).intents)
  <1> DEFINE u == st.book.position[s]
             tq == TargetQuantity(s, u.quantity, i)
             m == MarkTarget(st, s, i)
             r == TargetSale(st, s, t, i)
             v == r.book.position[s]
  <1>1. /\ Good(st, C) /\ Within(st.book) /\ Leads(st.book, st.intents, C)
        /\ t \in Tick
    BY TickAssumption DEF Sure
  <1>2. u # NoPosition /\ i <= Len(Candidate[s].targets) /\ tq > 0 BY DEF TargetDue
  <1>3. u \in Position /\ u \in Matched(s) BY <1>1, <1>2 DEF Good, Store, Book, Leads
  <1>4. tq \in Nat \ {0}
    <2>1. i \in 1..3 /\ u.quantity \in Nat BY <1>3 DEF Position
    <2>2. tq \in Int BY <1>2, <2>1, TargetQuantityType
    <2> QED BY <1>2, <2>2
  <1>5. /\ Good(m, C) /\ m.book.position[s] # NoPosition /\ Within(m.book)
        /\ m.book.pending[s] = NoOrder
    BY <1>1, <1>2, MarkTargetGood, MarkTargetWithin
  <1>6. r = CloseQuantity(m, s, tq, t, "TARGET") BY DEF TargetSale
  <1> HIDE DEF tq
  <1>7. Within(r.book) BY <1>4, <1>5, <1>6, CloseQuantityWithin
  <1>8. Notes(m, r.intents) BY <1>1, <1>4, <1>5, <1>6, SaleNotes
  <1>9. Notes(Cancel(st, {s}), r.intents)
    <2> DEFINE c == Cancel(st, {s})
    <2>1. /\ m.intents = c.intents
          /\ \A k \in Keys : HeldOf(m.book, k) = HeldOf(c.book, k)
          /\ \A k \in Keys : RestingOf(m.book, k) = RestingOf(c.book, k)
      BY <1>1, <1>2, MarkTargetSaves
    <2> HIDE DEF c, m, r
    <2> QED BY <1>8, <2>1 DEF Notes, c
  <1> HIDE DEF m
  <1>10. /\ Good(r, C) /\ Accounted(st, r) /\ Settled(r) /\ TakesOnly(s, u, v, i)
         /\ \A x \in Symbols : x # s => r.book.position[x] = st.book.position[x]
    BY <1>1, TargetSaleFacts
  <1> HIDE DEF r
  <1>11. v \in Matched(s) \cup {NoPosition}
    <2>1. v \in Position \cup {NoPosition} BY <1>10 DEF Good, Store, Book
    <2>2. v # NoPosition => Takes(s, u, v, i) BY <1>10 DEF TakesOnly
    <2> QED BY <1>3, <2>1, <2>2, TakesMatched
  <1>12. Leads(r.book, r.intents, C)
    <2>1. \A x \in Symbols : r.book.position[x] \in Matched(x) \cup {NoPosition}
      BY <1>1, <1>10, <1>11 DEF Leads
    <2> QED BY <1>1, <1>10, <2>1, LeadsKept DEF Leads
  <1> QED BY <1>7, <1>9, <1>10, <1>12 DEF Sure, r

\* A crash keeps the invariant wherever it finds a store that may be relied on,
\* and whatever of the operation under way was recorded.
LEMMA CrashSafe ==
    ASSUME LeadInv, NEW st, Sure(st, claimed'),
           saved' = st.saved, book' = st.saved, now' = now,
           claimed' \in SUBSET Keys,
           intents' \in [Keys -> Intent], Leads(st.book, intents', claimed')
    PROVE  LeadInv'
  <1>1. /\ Good(st, claimed') /\ Within(st.book) /\ Settled(st)
        /\ st.book \in Book /\ st.saved \in Book
        /\ now \in Nat /\ now <= Horizon
    BY DEF Sure, Good, Store, LeadInv, LimitInv, SyncInv, IInv
  <1>2. Good(After, claimed')
    <2>1. After.book = st.saved /\ After.saved = st.saved /\ After \in Store
      BY <1>1 DEF After, Store
    <2> QED BY <1>1, <2>1 DEF Good
  <1>3. IInv'
    <2>1. Current' = After BY DEF Current, After
    <2> QED BY <1>1, <1>2, <2>1 DEF IInv, Good, Sound
  <1>4. Within(st.saved)
    <2>1. Trims(st.saved, st.book)
      <3>1. \A s \in Symbols : st.saved.position[s] # NoPosition
              => /\ st.saved.position[s].quantity = st.book.position[s].quantity
                 /\ st.saved.position[s].remaining = st.book.position[s].remaining
                 /\ st.saved.position[s].entry_price = st.book.position[s].entry_price
        BY <1>1 DEF Settled, Agree, SameShares
      <3> QED BY <1>1, <3>1 DEF Settled, Agree, Trims, SamePaid
    <2> QED BY <1>1, <2>1, TrimsWithin
  <1>5. Leads(st.saved, intents', claimed')
    <2>1. /\ st.saved.pending = st.book.pending
          /\ \A s \in Symbols :
                /\ st.saved.position[s] = NoPosition <=> st.book.position[s] = NoPosition
                /\ st.saved.position[s] # NoPosition
                     => SameShares(st.saved.position[s], st.book.position[s])
      BY <1>1 DEF Settled, Agree
    <2>2. ASSUME NEW k \in Keys
          PROVE  Account(st.saved, intents', k) = Account(st.book, intents', k)
      <3>1. k[2] \in Symbols BY DEF Keys
      <3>2. RestingOf(st.saved, k) = RestingOf(st.book, k) BY <2>1 DEF RestingOf
      <3>3. HeldOf(st.saved, k) = HeldOf(st.book, k)
        BY <2>1, <3>1 DEF HeldOf, SameShares
      <3> QED BY <3>2, <3>3 DEF Account
    <2>3. ASSUME NEW s \in Symbols
          PROVE  st.saved.position[s] \in Matched(s) \cup {NoPosition}
      <3> DEFINE u == st.book.position[s]
                 v == st.saved.position[s]
      <3>1. SUFFICES ASSUME v # NoPosition PROVE v \in Matched(s) OBVIOUS
      <3>2. u \in Matched(s) /\ v \in Position /\ SameShares(v, u)
        BY <1>1, <2>1, <3>1 DEF Leads, Book
      <3>3. SoldAtTargets(s, u) = SoldAtTargets(s, v)
        BY <3>2 DEF SameShares, SoldAtTargets
      <3> QED BY <3>2, <3>3 DEF Matched, SameShares
    <2> QED BY <2>2, <2>3 DEF Leads
  <1>6. Synced(Current)' BY DEF Synced, Current
  <1>7. Within(book)' BY <1>4, WithinPrime
  <1>8. Leads(book, intents, claimed)'
    BY <1>5 DEF Leads, Account, RestingOf, HeldOf
  <1> QED BY <1>3, <1>6, <1>7, <1>8 DEF LeadInv, LimitInv, SyncInv

LEMMA BeginExitNotes ==
    ASSUME NEW C, NEW st, Good(st, C), NEW s \in Symbols,
           st.book.position[s] # NoPosition, now \in Nat
    PROVE  Notes(st, BeginExit(st, s).intents)
  <1> DEFINE p == [st.book.position[s] EXCEPT !.exit_pending_at = now]
             n == [st EXCEPT !.book.position[s] = p]
  <1>1. st \in Store /\ st.book \in Book /\ st.book.position[s] \in Position
        /\ OrdersOpen(st.book) /\ st.intents \in [Keys -> Intent]
    BY DEF Good, Sound, Store, Book
  <1>2. Notes(st, st.intents) BY <1>1 DEF Notes
  <1>3. CASE st.book.position[s].exit_pending_at # None BY <1>2, <1>3 DEF BeginExit
  <1>4. CASE st.book.position[s].exit_pending_at = None
    <2>1. p \in Position /\ SameStake(p, st.book.position[s])
      BY <1>1 DEF Position, SameStake
    <2>2. BeginExit(st, s) = Cancel(n, {s}) BY <1>1, <1>4 DEF BeginExit, Store, Book
    <2> HIDE DEF p
    <2> DEFINE b == [st.book EXCEPT !.position = [@ EXCEPT ![s] = p]]
    <2>3. n = [st EXCEPT !.book = b] BY <1>1 DEF Store, Book
    <2>4. b \in Book /\ b.pending = st.book.pending /\ b.position[s] = p
          /\ \A x \in Symbols : x # s => b.position[x] = st.book.position[x]
      BY <1>1, <2>1 DEF Book
    <2> HIDE DEF b, n
    <2>5. n \in Store /\ n.book = b /\ n.intents = st.intents
      BY <1>1, <2>3, <2>4 DEF Store
    <2>6. OrdersOpen(n.book) BY <1>1, <2>4, <2>5 DEF OrdersOpen
    <2>7. Notes(n, Cancel(n, {s}).intents) BY <2>5, <2>6, CancelNotes
    <2>8. p # NoPosition BY <2>1, NoneAssumption
    <2>9. ASSUME NEW k \in Keys
          PROVE  RestingOf(n.book, k) = RestingOf(st.book, k)
                 /\ HeldOf(n.book, k) = HeldOf(st.book, k)
      <3>1. k[2] \in Symbols BY DEF Keys
      <3>2. RestingOf(n.book, k) = RestingOf(st.book, k) BY <2>4, <2>5 DEF RestingOf
      <3>3. HeldOf(n.book, k) = HeldOf(st.book, k)
        BY <2>1, <2>4, <2>5, <2>8, <3>1 DEF HeldOf, SameStake
      <3> QED BY <3>2, <3>3
    <2> QED BY <2>2, <2>5, <2>7, <2>9 DEF Notes
  <1> QED BY <1>3, <1>4

\* A crash that finds a store of the kind above, or one with a record more.
LEMMA CrashFinds ==
    ASSUME LeadInv, UNCHANGED <<claimed, now>>, NEW st, Sure(st, claimed), CrashLeaves(st)
    PROVE  LeadInv'
  <1>1. st \in Store /\ claimed' = claimed /\ claimed \in SUBSET Keys
    BY DEF Sure, Good, LeadInv, LimitInv, SyncInv, IInv
  <1>2. saved' = st.saved /\ book' = st.saved /\ intents' = st.intents
    BY DEF CrashLeaves
  <1>3. intents' \in [Keys -> Intent] BY <1>1, <1>2 DEF Store
  <1>4. Sure(st, claimed') BY <1>1
  <1>5. Leads(st.book, intents', claimed') BY <1>2, <1>4 DEF Sure
  <1> QED BY <1>1, <1>2, <1>3, <1>4, <1>5, CrashSafe

LEMMA CrashFindsRecord ==
    ASSUME LeadInv, UNCHANGED <<claimed, now>>, NEW st, Sure(st, claimed),
           NEW half, half.saved = st.saved, NEW done \in Store,
           half.intents = done.intents, Notes(st, done.intents), CrashLeaves(half)
    PROVE  LeadInv'
  <1>1. st \in Store /\ claimed' = claimed /\ claimed \in SUBSET Keys
    BY DEF Sure, Good, LeadInv, LimitInv, SyncInv, IInv
  <1>2. saved' = st.saved /\ book' = st.saved /\ intents' = done.intents
    BY DEF CrashLeaves
  <1>3. intents' \in [Keys -> Intent] BY <1>2 DEF Store
  <1>4. Sure(st, claimed') BY <1>1
  <1>5. OrdersOpen(st.book) /\ Leads(st.book, st.intents, claimed)
    BY DEF Sure, Good, Sound
  <1>6. Leads(st.book, intents', claimed')
    BY <1>1, <1>2, <1>5, NotedLeads
  <1> QED BY <1>1, <1>2, <1>3, <1>4, <1>6, CrashSafe

LEMMA RecordedFields ==
    ASSUME NEW st \in Store, NEW done
    PROVE  Recorded(st, done).saved = st.saved /\ Recorded(st, done).intents = done.intents
  BY DEF Recorded, Store

LEMMA CrashSubmitSafe ==
    ASSUME LeadInv, NEW p \in Plans, NEW s \in Symbols, CrashInSubmit(p, s)
    PROVE  LeadInv'
  <1> DEFINE st == EnsureSession(Current)
             q == EntryQuantity(st.book, s)
             key == <<p, s>>
             L == [st.intents EXCEPT ![key].bought = q]
             buy == [st EXCEPT !.intents[key].bought = q]
  <1>1. Sure(Current, claimed) /\ now \in Nat /\ claimed \in SUBSET Keys
    BY SureCurrent DEF LeadInv, LimitInv, SyncInv, IInv
  <1>2. Sure(st, claimed)
    <2>1. Good(Current, claimed) /\ Within(Current.book) BY <1>1 DEF Sure
    <2>2. Good(st, claimed) /\ Within(st.book) /\ Advances(Current, st)
      BY <1>1, <2>1, EnsureSessionGood, EnsureSessionWithin, EnsureSessionAdvances
    <2> HIDE DEF st
    <2> QED BY <1>1, <2>2, SureAdvances
  <1>3. /\ Admissible(st, p, s) /\ claimed' = claimed \cup {key} /\ now' = now
        /\ CrashLeaves(st) \/ CrashLeaves(buy)
    BY DEF CrashInSubmit
  <1>4. /\ \A r \in Symbols : st.book.pending[r] = NoOrder /\ st.book.position[r] = NoPosition
        /\ q \in Nat \ {0}
    BY <1>2, <1>3, AdmissibleFacts DEF Sure
  <1>5. key \in Keys \ claimed BY <1>3 DEF Admissible, Keys
  <1> HIDE DEF st
  <1>6. st \in Store /\ st.intents \in [Keys -> Intent] /\ st.saved \in Book /\ st.book \in Book
    BY <1>2 DEF Sure, Good, Store
  <1> HIDE DEF q, key
  <1>7. buy.saved = st.saved /\ buy.intents = L BY <1>6 DEF Store
  <1> HIDE DEF buy
  <1>8. saved' = st.saved /\ book' = st.saved /\ intents' \in {st.intents, L}
    BY <1>3, <1>7 DEF CrashLeaves
  <1>9. L \in [Keys -> Intent]
    <2>1. [st.intents[key] EXCEPT !.bought = q] \in Intent
      BY <1>4, <1>5, <1>6 DEF Intent
    <2>2. L = [st.intents EXCEPT ![key] = [st.intents[key] EXCEPT !.bought = q]]
      OBVIOUS
    <2> QED BY <1>6, <2>1, <2>2
  <1>10. /\ RestingOf(st.book, key) \in {0, q} /\ HeldOf(st.book, key) = 0
    <2>1. key[2] \in Symbols BY <1>5 DEF Keys
    <2> QED BY <1>4, <2>1 DEF RestingOf, HeldOf
  <1>11. /\ \A k \in Keys : Account(st.book, L, k) \in Ahead
         /\ \A k \in Keys \ (claimed \cup {key}) : Account(st.book, L, k) \in Unused
    BY <1>2, <1>4, <1>5, <1>6, <1>10, EntryAccounts DEF Sure
  <1> HIDE DEF L
  <1>12. Leads(st.book, L, claimed') /\ Leads(st.book, st.intents, claimed')
    BY <1>2, <1>3, <1>11 DEF Sure, Leads
  <1>13. Sure(st, claimed')
    <2>1. Good(st, claimed')
      <3>1. claimed \subseteq claimed' BY <1>3
      <3> QED BY <1>2, <3>1, MoreClaims DEF Sure, Good
    <2> QED BY <1>2, <1>12, <2>1 DEF Sure
  <1>14. claimed' \in SUBSET Keys BY <1>1, <1>3, <1>5
  <1>15. intents' \in [Keys -> Intent] /\ Leads(st.book, intents', claimed')
    BY <1>6, <1>8, <1>9, <1>12
  <1> QED BY <1>3, <1>8, <1>13, <1>14, <1>15, CrashSafe

LEMMA CrashTargetSafe ==
    ASSUME LeadInv, NEW s \in Symbols, NEW t \in Ticks, NEW i \in {1, 2, 3},
           CrashInTarget(s, t, i)
    PROVE  LeadInv'
  <1> DEFINE st == BeforeTarget(s, t, i)
             c == Cancel(st, {s})
             marked == MarkTarget(st, s, i)
             sale == TargetSale(st, s, t, i)
  <1>1. Sure(Current, claimed) /\ now \in Nat /\ t \in Tick
    BY SureCurrent, TickAssumption DEF LeadInv, LimitInv, SyncInv, IInv
  <1>2. /\ Live(s, t) /\ TargetDue(st, s, t, i) /\ UNCHANGED <<claimed, now>>
        /\ \/ CrashLeaves(Recorded(st, marked))
           \/ CrashLeaves(marked)
           \/ CrashLeaves(Recorded(marked, sale))
           \/ CrashLeaves(sale)
    BY DEF CrashInTarget, TargetSale
  <1>3. Sure(st, claimed)
    <2> DEFINE w == Watched(s, t)
               a == TakeProfit(w, s, t, 1)
               b == TakeProfit(a, s, t, 2)
    <2>1. Sure(w, claimed) BY <1>1, <1>2, SureTick
    <2> HIDE DEF w
    <2>2. Sure(a, claimed) BY <1>1, <2>1, SureTakeProfit
    <2> HIDE DEF a
    <2>3. Sure(b, claimed) BY <1>1, <2>2, SureTakeProfit
    <2>4. st \in {w, a, b} BY DEF BeforeTarget, w, a
    <2> QED BY <2>1, <2>2, <2>3, <2>4
  <1> HIDE DEF st
  <1>4. Good(st, claimed) /\ st.book.position[s] # NoPosition
        /\ st \in Store /\ OrdersOpen(st.book)
    BY <1>2, <1>3 DEF Sure, Good, Sound, TargetDue
  <1>5. Sure(c, claimed) /\ c \in Store BY <1>3, SureCancel DEF Sure, Good
  <1>6. Notes(st, c.intents) BY <1>4, CancelNotes
  <1>7. marked.saved = c.saved /\ marked.intents = c.intents /\ marked \in Store
    BY <1>4, MarkTargetSaves, MarkTargetGood DEF Good
  <1>8. Sure(sale, claimed) /\ Notes(c, sale.intents)
    BY <1>1, <1>2, <1>3, SureTargetSale
  <1>9. sale \in Store BY <1>8 DEF Sure, Good
  <1> HIDE DEF c, marked, sale
  <1>10. CASE CrashLeaves(Recorded(st, marked))
    <2>1. Recorded(st, marked).saved = st.saved
          /\ Recorded(st, marked).intents = marked.intents
      BY <1>4, RecordedFields
    <2> QED BY <1>2, <1>3, <1>6, <1>7, <1>10, <2>1, CrashFindsRecord
  <1>11. CASE CrashLeaves(marked)
    <2>1. CrashLeaves(c) BY <1>7, <1>11 DEF CrashLeaves
    <2> QED BY <1>2, <1>5, <2>1, CrashFinds
  <1>12. CASE CrashLeaves(Recorded(marked, sale))
    <2>1. Recorded(marked, sale).saved = c.saved
          /\ Recorded(marked, sale).intents = sale.intents
      BY <1>7, RecordedFields
    <2> QED BY <1>2, <1>5, <1>8, <1>9, <1>12, <2>1, CrashFindsRecord
  <1>13. CASE CrashLeaves(sale) BY <1>2, <1>8, <1>13, CrashFinds
  <1> QED BY <1>2, <1>10, <1>11, <1>12, <1>13

LEMMA CrashStopSafe ==
    ASSUME LeadInv, NEW s \in Symbols, NEW t \in Ticks, CrashInStop(s, t)
    PROVE  LeadInv'
  <1> DEFINE m == Marked(s, t)
             b == BeginExit(m, s)
             done == CloseAll(b, s, t, "STOP_LOSS")
  <1>1. Sure(Current, claimed) /\ Good(Current, claimed) /\ now \in Nat /\ t \in Tick
    BY SureCurrent, TickAssumption DEF LeadInv, LimitInv, SyncInv, IInv
  <1>2. /\ Live(s, t) /\ UNCHANGED <<claimed, now>>
        /\ \/ CrashLeaves(Recorded(m, b))
           \/ CrashLeaves(b)
           \/ CrashLeaves(Recorded(b, done))
    BY DEF CrashInStop
  <1>3. Sure(m, claimed) /\ m.book.position[s] # NoPosition
    BY <1>1, <1>2, SureTick, LiveFacts
  <1> HIDE DEF m
  <1>4. Good(m, claimed) /\ m \in Store BY <1>3 DEF Sure, Good
  <1>5. /\ Sure(b, claimed) /\ b.book.position[s] # NoPosition /\ Good(b, claimed)
        /\ Notes(m, b.intents)
    BY <1>1, <1>3, <1>4, SureBeginExit, BeginExitGood, BeginExitNotes
  <1> HIDE DEF b
  <1>6. Good(done, claimed) /\ Notes(b, done.intents)
    BY <1>1, <1>5, CloseAllGood, CloseAllNotes
  <1> HIDE DEF done
  <1>7. b \in Store /\ done \in Store BY <1>5, <1>6 DEF Good
  <1>8. CASE CrashLeaves(Recorded(m, b))
    <2>1. Recorded(m, b).saved = m.saved /\ Recorded(m, b).intents = b.intents
      BY <1>4, RecordedFields
    <2> QED BY <1>2, <1>3, <1>5, <1>7, <1>8, <2>1, CrashFindsRecord
  <1>9. CASE CrashLeaves(b) BY <1>2, <1>5, <1>9, CrashFinds
  <1>10. CASE CrashLeaves(Recorded(b, done))
    <2>1. Recorded(b, done).saved = b.saved /\ Recorded(b, done).intents = done.intents
      BY <1>7, RecordedFields
    <2> QED BY <1>2, <1>5, <1>6, <1>7, <1>10, <2>1, CrashFindsRecord
  <1> QED BY <1>2, <1>8, <1>9, <1>10

LEMMA CrashStepSafe ==
    ASSUME LeadInv, Crash
    PROVE  LeadInv'
  <1>1. Sure(Current, claimed) /\ Good(Current, claimed) /\ now \in Nat
    BY SureCurrent DEF LeadInv, LimitInv, SyncInv, IInv
  <1>2. Current \in Store /\ OrdersOpen(Current.book) BY <1>1 DEF Good, Sound
  <1>3. ASSUME NEW st, Sure(st, claimed), NEW s \in Symbols, NEW t \in Tick, NEW reason,
               st.book.position[s] # NoPosition, UNCHANGED <<claimed, now>>,
               CrashLeaves(Recorded(st, CloseAll(st, s, t, reason)))
        PROVE  LeadInv'
    <2> DEFINE done == CloseAll(st, s, t, reason)
    <2>1. Good(st, claimed) /\ st \in Store BY <1>3 DEF Sure, Good
    <2>2. Good(done, claimed) /\ Notes(st, done.intents)
      BY <1>1, <1>3, <2>1, CloseAllGood, CloseAllNotes
    <2>3. CrashLeaves(Recorded(st, done)) BY <1>3
    <2> HIDE DEF done
    <2>4. Recorded(st, done).saved = st.saved /\ Recorded(st, done).intents = done.intents
      BY <2>1, RecordedFields
    <2> QED BY <1>3, <2>2, <2>3, <2>4, CrashFindsRecord DEF Good
  <1>4. ASSUME NEW s \in Symbols, CrashInCancel(s) PROVE LeadInv'
    <2> DEFINE done == Cancel(Current, {s})
    <2>1. Sure(done, claimed) /\ Notes(Current, done.intents)
      BY <1>1, <1>2, SureCancel, CancelNotes
    <2>2. CrashLeaves(Recorded(Current, done)) /\ UNCHANGED <<claimed, now>>
      BY <1>4 DEF CrashInCancel
    <2> HIDE DEF done
    <2>3. Recorded(Current, done).saved = Current.saved
          /\ Recorded(Current, done).intents = done.intents
      BY <1>2, RecordedFields
    <2> QED BY <1>1, <2>1, <2>2, <2>3, CrashFindsRecord DEF Sure, Good
  <1>5. ASSUME NEW s \in Symbols, NEW t \in Ticks, CrashInClose(s, t) PROVE LeadInv'
    <2> DEFINE st == Cancel(Current, Symbols)
    <2>1. /\ st.book.position[s] # NoPosition /\ UNCHANGED <<claimed, now>>
          /\ CrashLeaves(Recorded(st, CloseAll(st, s, t, "SESSION_FORCE_CLOSE")))
      BY <1>5 DEF CrashInClose
    <2>2. Sure(st, claimed) /\ t \in Tick BY <1>1, SureCancel, TickAssumption
    <2> HIDE DEF st
    <2> QED BY <1>3, <2>1, <2>2
  <1>6. ASSUME NEW s \in Symbols, NEW t \in Ticks, CrashAfterOrder(s, t) PROVE LeadInv'
    <2>1. Sure(Filled(s, t), claimed) BY <1>1, SureTick
    <2> QED BY <1>6, <2>1, CrashFinds DEF CrashAfterOrder
  <1>7. ASSUME NEW s \in Symbols, NEW t \in Ticks, CrashInTimedExit(s, t) PROVE LeadInv'
    <2> DEFINE w == Watched(s, t)
    <2>1. /\ Live(s, t) /\ UNCHANGED <<claimed, now>>
          /\ CrashLeaves(Recorded(w, CloseAll(w, s, t, "TIMED_EXIT")))
      BY <1>7 DEF CrashInTimedExit
    <2>2. Sure(w, claimed) /\ w.book.position[s] # NoPosition /\ t \in Tick
      BY <1>1, <2>1, SureTick, LiveFacts
    <2> HIDE DEF w
    <2> QED BY <1>3, <2>1, <2>2
  <1> QED BY <1>4, <1>5, <1>6, <1>7, CrashSubmitSafe, CrashTargetSafe, CrashStopSafe
          DEF Crash

\* The inductive invariant of the broker with crashes.
CrashInv ==
    /\ LeadInv
    /\ crashes \in Nat
    /\ crashes = 0 => Exact(book, intents)

LEMMA CrashInit == Init /\ crashes = 0 => CrashInv
  BY LeadInit DEF CrashInv, ExactInv

LEMMA CrashStep == CrashInv /\ [CrashNext]_crashVars => CrashInv'
  <1> SUFFICES ASSUME CrashInv, [CrashNext]_crashVars PROVE CrashInv' OBVIOUS
  <1>1. CASE [Next]_vars /\ UNCHANGED crashes
    <2>1. LeadInv' /\ (Exact(book, intents) => Exact(book', intents'))
      BY <1>1, LeadStep DEF CrashInv
    <2> QED BY <1>1, <2>1 DEF CrashInv, Exact, Account, RestingOf, HeldOf
  <1>2. CASE Crash /\ crashes' = crashes + 1
    <2>1. LeadInv' BY <1>2, CrashStepSafe DEF CrashInv
    <2> QED BY <1>2, <2>1 DEF CrashInv
  <1> QED BY <1>1, <1>2 DEF CrashNext, crashVars

\* A crash between any two commits of any handler leaves a book in which everything
\* a handler relies on holds: sound, funded, within the limits, shares recorded.
THEOREM CrashSoundness == CrashSpec => []CrashInv
  BY CrashInit, CrashStep, PTL DEF CrashSpec

\* Wherever the process stops, the recorded intents are not behind the book: no
\* share rests or is held without a recorded BUY, none leaves without a CANCEL or
\* SELL (submit_entry, cancel_pending, close_quantity and what each commits first).
THEOREM LedgerLeadsThroughCrashes == CrashSpec => []LedgerLeads
  <1>1. CrashInv => LedgerLeads
    <2> SUFFICES ASSUME CrashInv, NEW k \in Keys
                 PROVE  LET inBook == RestingShares(k) + HeldShares(k)
                            out == intents[k].cancelled + intents[k].sold
                        IN  /\ inBook <= intents[k].bought
                            /\ inBook + out > 0 => intents[k].bought <= inBook + out
      BY DEF LedgerLeads
    <2>1. RestingShares(k) = RestingOf(book, k) /\ HeldShares(k) = HeldOf(book, k)
      <3>1. k[2] \in Symbols BY DEF Keys
      <3> QED BY <3>1 DEF RestingShares, HeldShares, RestingOf, HeldOf, Resting, Holding
    <2> DEFINE x == Account(book, intents, k)
    <2>2. x \in Ahead BY DEF CrashInv, LeadInv, Leads
    <2>3. /\ x.resting = RestingShares(k) /\ x.held = HeldShares(k)
          /\ x.bought = intents[k].bought /\ x.cancelled = intents[k].cancelled
          /\ x.sold = intents[k].sold
      BY <2>1 DEF Account
    <2> HIDE DEF x
    <2> QED BY <2>2, <2>3 DEF Ahead, Accounts
  <1> QED BY CrashSoundness, <1>1, PTL

\* As long as no crash has cut a handler short, the stop of a position whose first
\* target is taken is not below the entry price if the plan moves it (on_tick).
THEOREM StopFollows == CrashSpec => []StopFollowsFirstTarget
  <1>1. CrashInv => StopFollowsFirstTarget
    <2> SUFFICES ASSUME CrashInv, NEW s \in Holding(book), crashes = 0,
                        Candidate[s].move_stop, 1 \in book.position[s].filled_targets
                 PROVE  book.position[s].stop >= book.position[s].entry_price
      BY DEF StopFollowsFirstTarget
    <2>1. s \in Symbols /\ book.position[s] # NoPosition BY DEF Holding
    <2>2. book.position[s] \in Protected(s) BY <2>1 DEF CrashInv, Exact
    <2> QED BY <2>2 DEF Protected
  <1> QED BY CrashSoundness, <1>1, PTL

\* What crashes inside an operation do not break either: the slot, the exit marks,
\* the copy on disk, the limits, and the match of targets and remaining shares.
THEOREM SafeThroughCrashes ==
    CrashSpec => [](/\ SlotExclusive /\ LeavingHasNoOrder /\ SavedIsCurrent
                    /\ OrderFunded /\ DailyEntryLimit /\ TargetsMatchRemaining)
  <1>1. CrashInv => SlotExclusive /\ LeavingHasNoOrder
    BY SoundSlot, SoundLeaving DEF CrashInv, LeadInv, LimitInv, SyncInv
  <1>2. CrashInv => SavedIsCurrent /\ OrderFunded /\ DailyEntryLimit
    BY DEF CrashInv, LeadInv, LimitInv, SyncInv, Synced, Current, SavedIsCurrent,
           Within, Funded, Limited, OrderFunded, DailyEntryLimit, Resting
  <1>3. CrashInv => TargetsMatchRemaining
    BY LeadImpliesMatch DEF CrashInv
  <1> QED BY CrashSoundness, <1>1, <1>2, <1>3, PTL

\* A fill or a sale is either on disk with its price or did not happen: a restart
\* neither loses money nor forgets a loss that counts against the day's budget
\* (_save, _restore).
THEOREM MoneyThroughCrashes == CrashSpec => [](CashMatchesLedger /\ DailyRiskContained)
  <1>1. CrashInv => CashMatchesLedger /\ DailyRiskContained
    BY LimitCash, LimitRisk DEF CrashInv, LeadInv
  <1> QED BY CrashSoundness, <1>1, PTL

----
\* The slot.

\* Outside a submission a crash leaves only entries in the slot that were there.
LEMMA CrashClaims ==
    ASSUME NEW C, Good(Current, C), now \in Nat, Crash,
           ~ \E p \in Plans, s \in Symbols : CrashInSubmit(p, s)
    PROVE  Claimed(book', C) /\ claimed' = claimed
  <1>1. ASSUME NEW st, Good(st, C), NEW half, half.saved = st.saved, CrashLeaves(half)
        PROVE  Claimed(book', C)
    BY <1>1 DEF Good, Sound, CrashLeaves
  <1>2. ASSUME NEW st, Good(st, C), NEW done, CrashLeaves(Recorded(st, done))
        PROVE  Claimed(book', C)
    <2>1. Recorded(st, done).saved = st.saved BY <1>2, RecordedFields DEF Good
    <2> QED BY <1>1, <1>2, <2>1
  <1>3. ASSUME NEW s \in Symbols, CrashInCancel(s) PROVE Claimed(book', C) /\ claimed' = claimed
    BY <1>2, <1>3 DEF CrashInCancel
  <1>4. ASSUME NEW s \in Symbols, NEW t \in Ticks, CrashInClose(s, t)
        PROVE  Claimed(book', C) /\ claimed' = claimed
    <2>1. Good(Cancel(Current, Symbols), C) BY CancelGood
    <2> QED BY <1>2, <1>4, <2>1 DEF CrashInClose
  <1>5. ASSUME NEW s \in Symbols, NEW t \in Ticks, CrashAfterOrder(s, t)
        PROVE  Claimed(book', C) /\ claimed' = claimed
    <2>1. Good(Filled(s, t), C) BY LiveFacts
    <2> QED BY <1>1, <1>5, <2>1 DEF CrashAfterOrder
  <1>6. ASSUME NEW s \in Symbols, NEW t \in Ticks, CrashInStop(s, t)
        PROVE  Claimed(book', C) /\ claimed' = claimed
    <2> DEFINE m == Marked(s, t)
               b == BeginExit(m, s)
    <2>1. Live(s, t) BY <1>6 DEF CrashInStop
    <2>2. Good(m, C) /\ m.book.position[s] # NoPosition BY <2>1, LiveFacts
    <2>3. Good(b, C)
      <3> HIDE DEF m
      <3> QED BY <2>2, BeginExitGood
    <2> QED BY <1>1, <1>2, <1>6, <2>2, <2>3 DEF CrashInStop
  <1>7. ASSUME NEW s \in Symbols, NEW t \in Ticks, CrashInTimedExit(s, t)
        PROVE  Claimed(book', C) /\ claimed' = claimed
    <2>1. Live(s, t) BY <1>7 DEF CrashInTimedExit
    <2>2. Good(Watched(s, t), C) BY <2>1, LiveFacts
    <2> QED BY <1>2, <1>7, <2>2 DEF CrashInTimedExit
  <1>8. ASSUME NEW s \in Symbols, NEW t \in Ticks, NEW i \in {1, 2, 3}, CrashInTarget(s, t, i)
        PROVE  Claimed(book', C) /\ claimed' = claimed
    <2> DEFINE st == BeforeTarget(s, t, i)
               marked == MarkTarget(st, s, i)
               sale == TargetSale(st, s, t, i)
    <2>1. /\ Live(s, t) /\ TargetDue(st, s, t, i) /\ claimed' = claimed
          /\ \/ CrashLeaves(Recorded(st, marked))
             \/ CrashLeaves(marked)
             \/ CrashLeaves(Recorded(marked, sale))
             \/ CrashLeaves(sale)
      BY <1>8 DEF CrashInTarget, TargetSale
    <2>2. Good(st, C)
      <3> DEFINE w == Watched(s, t)
                 a == TakeProfit(w, s, t, 1)
                 b == TakeProfit(a, s, t, 2)
      <3>1. Good(w, C) /\ t \in Tick BY <2>1, LiveFacts
      <3> HIDE DEF w
      <3>2. Good(a, C) BY <3>1, TakeProfitGood
      <3> HIDE DEF a
      <3>3. Good(b, C) BY <3>1, <3>2, TakeProfitGood
      <3>4. st \in {w, a, b} BY DEF BeforeTarget, w, a
      <3> QED BY <3>1, <3>2, <3>3, <3>4
    <2> HIDE DEF st
    <2>3. st.book.position[s] # NoPosition BY <2>1 DEF TargetDue
    <2>4. Good(marked, C) BY <2>2, <2>3, MarkTargetGood
    <2>5. Good(sale, C) BY <2>1, <2>2, TickAssumption, TargetSaleFacts
    <2> HIDE DEF marked, sale
    <2> QED BY <1>1, <1>2, <2>1, <2>2, <2>4, <2>5
  <1> QED BY <1>3, <1>4, <1>5, <1>6, <1>7, <1>8 DEF Crash

\* A crash in a submission leaves the slot free and its key claimed.
LEMMA CrashForfeits ==
    ASSUME LeadInv, NEW p \in Plans, NEW s \in Symbols, CrashInSubmit(p, s)
    PROVE  Slot!Forfeit(<<p, s>>)
  <1> DEFINE st == EnsureSession(Current)
             buy == [st EXCEPT !.intents[<<p, s>>].bought = EntryQuantity(st.book, s)]
  <1>1. Sure(Current, claimed) /\ now \in Nat
    BY SureCurrent DEF LeadInv, LimitInv, SyncInv, IInv
  <1>2. /\ Good(st, claimed) /\ Advances(Current, st)
    BY <1>1, EnsureSessionGood, EnsureSessionAdvances DEF Sure
  <1>3. /\ Admissible(st, p, s) /\ claimed' = claimed \cup {<<p, s>>}
        /\ CrashLeaves(st) \/ CrashLeaves(buy)
    BY DEF CrashInSubmit
  <1>4. \A r \in Symbols : st.book.pending[r] = NoOrder /\ st.book.position[r] = NoPosition
    BY <1>2, <1>3, AdmissibleFacts
  <1>5. Settled(st) BY <1>1, <1>2 DEF Sure, Advances
  <1>6. <<p, s>> \notin claimed BY <1>3 DEF Admissible
  <1> HIDE DEF st
  <1>7. book' = st.saved
    <2>1. buy.saved = st.saved BY <1>2 DEF Good, Store
    <2> HIDE DEF buy
    <2> QED BY <1>3, <2>1 DEF CrashLeaves
  <1>8. Occupying(book') = {}
    BY <1>4, <1>5, <1>7 DEF Settled, Agree, Occupying, Resting, Holding
  <1>9. Holder' = <<>> BY <1>8 DEF Holder
  <1> QED BY <1>3, <1>6, <1>9 DEF Slot!Forfeit

LEMMA CrashSlot ==
    ASSUME LeadInv, Crash
    PROVE  \/ \E e \in Keys : Slot!Forfeit(e)
           \/ Slot!Release
           \/ UNCHANGED Slot!slotVars
  <1>1. SyncInv /\ now \in Nat BY DEF LeadInv, LimitInv, SyncInv, IInv
  <1>2. CASE \E p \in Plans, s \in Symbols : CrashInSubmit(p, s)
    BY <1>2, CrashForfeits DEF Keys
  <1>3. CASE ~ \E p \in Plans, s \in Symbols : CrashInSubmit(p, s)
    <2>1. Claimed(book', Occupying(book)) /\ claimed' = claimed
      BY <1>1, <1>3, OccupyingGood, CrashClaims
    <2> QED BY <1>1, <2>1, ClaimedSlot
  <1> QED BY <1>2, <1>3

\* The slot is kept as the broker promises it when crashes cut operations short,
\* except that an entry may lose its only chance: no order is ever sent twice
\* because the process died on the way (submit_entry claims the key first).
THEOREM SlotThroughCrashes == CrashSpec => SlotKeptThroughCrashes
  <1>1. Init => Slot!SlotInit
    BY DEF Init, EmptyBook, Slot!SlotInit, Holder, Occupying, Resting, Holding
  <1>2. CrashInv /\ CrashInv' /\ [CrashNext]_crashVars
          => [Slot!SlotNext \/ \E e \in Keys : Slot!Forfeit(e)]_(Slot!slotVars)
    <2> SUFFICES ASSUME CrashInv, CrashInv', [CrashNext]_crashVars
                 PROVE  [Slot!SlotNext \/ \E e \in Keys : Slot!Forfeit(e)]_(Slot!slotVars)
      OBVIOUS
    <2>1. CASE [Next]_vars
      <3>1. SyncInv /\ SyncInv' BY DEF CrashInv, LeadInv, LimitInv
      <3> QED BY <2>1, <3>1, SlotStep
    <2>2. CASE Crash
      BY <2>2, CrashSlot DEF CrashInv, Slot!SlotNext
    <2> QED BY <2>1, <2>2 DEF CrashNext, crashVars
  <1> QED BY CrashSoundness, <1>1, <1>2, PTL
          DEF CrashSpec, SlotKeptThroughCrashes, Slot!CrashingSlotSpec
====
