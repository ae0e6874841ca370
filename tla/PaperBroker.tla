---- MODULE PaperBroker ----
(***************************************************************************)
(* The paper broker of one market (src/src/daytrader/broker.py): a slot    *)
(* for one resting entry order and one position, conservative fills,       *)
(* stop / target / timed exits, daily limits, and a JSON copy of the       *)
(* portfolio that survives a restart.                                      *)
(*                                                                         *)
(* Every handler is one action.  A handler calls several operations of the *)
(* broker one after the other, so each operation is an operator from store *)
(* to store, where a store is the in-memory portfolio ("book"), the copy   *)
(* of it in SQLite ("saved") and the ledger of order intents ("intents").  *)
(* Money is an integer, costs are basis points rounded down, and one clock *)
(* stands for both the source and the receive timestamp of a tick.         *)
(***************************************************************************)
EXTENDS Integers, Sequences, FiniteSetsExt

CONSTANTS
    Plans,        \* plan identifiers
    Symbols,      \* the symbols of this market
    Candidate,    \* Candidate[s]: what the approved plan says about symbol s
    Cost,         \* the market's CostConfig
    Ticks,        \* the quotes a tick may carry
    SessionLength,\* clock units per trading date
    Horizon,      \* bound: the clock stops here
    NoOrder,      \* "no pending order for this symbol"
    NoPosition    \* "no position in this symbol"

None == -1        \* a timestamp or date that is not set

\* An entry order is claimed once per plan and symbol: "{plan}:{SYMBOL}:ENTRY".
Keys == Plans \X Symbols

Target    == [price: Nat, pct: Nat]
Policy    == [limit: Nat \ {0}, stop: Nat, offset_bps: Nat, emergency: Nat \ {0},
              targets: Seq(Target), max_holding: Nat \ {0}, no_progress: Nat,
              min_progress_pct: Nat, below_vwap: Nat, move_stop: BOOLEAN]
CostType  == [initial_cash: Nat \ {0}, commission_bps: Nat, slippage_bps: Nat,
              fx_bps: Nat, sell_tax_bps: Nat, trade_risk_pct: Nat,
              daily_loss_pct: Nat,
              max_quantity: Nat \ {0}, latency: Nat, timeout: Nat \ {0},
              allow_partial: BOOLEAN, max_fill: Nat \ {0}, participation_pct: Nat,
              max_submissions: Nat \ {0}, max_entries: Nat \ {0},
              stop_count: Nat \ {0}, stop_cooldown: Nat]
\* halted: market or symbol not trading; orderly: regular session, LULD normal,
\* bid < ask, consolidated quote and a spread within the limit; vwap: where the
\* bid is relative to the session's VWAP, "none" when the tick carries no VWAP.
Tick      == [bid: Nat \ {0}, ask: Nat \ {0}, ask_size: Nat, trade_size: Nat,
              halted: BOOLEAN, orderly: BOOLEAN, vwap: {"none", "below", "above"}]

Order     == [plan: Plans, eligible_at: Nat, expires_at: Nat, desired: Nat, filled: Nat]
Intent    == [bought: Nat, cancelled: Nat, sold: Nat]
Position  == [plan: Plans, quantity: Nat, remaining: Nat, entry_price: Nat,
              stop: Nat, highest: Nat, opened_at: Nat, filled_targets: SUBSET {1, 2, 3},
              exit_pending_at: Nat \cup {None}, below_vwap_since: Nat \cup {None}]

ASSUME PolicyAssumption ==
    /\ Candidate \in [Symbols -> Policy]
    /\ \A s \in Symbols : /\ Len(Candidate[s].targets) >= 1
                          /\ Len(Candidate[s].targets) <= 3
                          /\ Candidate[s].offset_bps <= 10000
ASSUME CostAssumption ==
    /\ Cost \in CostType
    /\ Cost.commission_bps + Cost.slippage_bps + Cost.fx_bps + Cost.sell_tax_bps <= 10000
ASSUME TickAssumption == Ticks \subseteq Tick
ASSUME BoundAssumption == SessionLength \in Nat \ {0} /\ Horizon \in Nat
ASSUME NoneAssumption == NoOrder \notin Order /\ NoPosition \notin Position

VARIABLES
    book,     \* the portfolio in memory
    saved,    \* the portfolio as the repository last stored it
    intents,  \* per key: quantities of the recorded BUY, CANCEL and SELL intents
    claimed,  \* the claimed idempotency keys
    now       \* the clock

vars == <<book, saved, intents, claimed, now>>

----
\* Costs and sizes.

Smaller(a, b) == IF a <= b THEN a ELSE b
Larger(a, b)  == IF a >= b THEN a ELSE b

Total(f) == MapThenSumSet(LAMBDA x : f[x], DOMAIN f)

Bps(value, bps) == (value * bps) \div 10000

\* What one share bought at this price takes from the cash.
AllIn(price) == price + Bps(price, Cost.commission_bps + Cost.fx_bps)

\* The ask plus slippage: what a marketable buy executes at.
Execution(ask) == ask + Bps(ask, Cost.slippage_bps)

ExitNet(gross) ==
    gross - Bps(gross, Cost.commission_bps + Cost.slippage_bps
                       + Cost.fx_bps + Cost.sell_tax_bps)

\* The lowest bid a triggered stop accepts before the emergency timeout.
StopLimit(s, stop) == stop - Bps(stop, Candidate[s].offset_bps)

WorstCaseRisk(s) ==
    Larger(0, AllIn(Candidate[s].limit) - ExitNet(StopLimit(s, Candidate[s].stop)))

\* Shares a tick offers to a resting buy.
Visible(t) ==
    Smaller(IF t.ask_size > 0 THEN t.ask_size
            ELSE (t.trade_size * Cost.participation_pct) \div 100,
            Cost.max_fill)

Ceil(quantity, target) == (quantity * target.pct + 99) \div 100

\* Shares of a position given to its first i targets: every target but the last
\* gets its percentage rounded up while shares are left, the last gets the rest.
Given(s, quantity, i) ==
    LET T == Candidate[s].targets
    IN  CASE i = 0      -> 0
          [] i = Len(T) -> quantity
          [] i = 1 /\ i # Len(T) -> Smaller(quantity, Ceil(quantity, T[1]))
          [] OTHER      -> Smaller(quantity, Ceil(quantity, T[1]) + Ceil(quantity, T[2]))

TargetQuantity(s, quantity, i) == Given(s, quantity, i) - Given(s, quantity, i - 1)

DateOf(time) == time \div SessionLength

\* Mutants of Unfilled: the operands swapped, the filled part forgotten.
UnfilledSwapped(order)  == order.filled - order.desired
UnfilledOriginal(order) == order.desired

Unfilled(order) == order.desired - order.filled

----
\* Operations of the broker on a store.

Current == [book |-> book, saved |-> saved, intents |-> intents]

Becomes(st) == /\ book' = st.book
               /\ saved' = st.saved
               /\ intents' = st.intents

Save(st) == [st EXCEPT !.saved = st.book]

Resting(b) == {s \in Symbols : b.pending[s] # NoOrder}
Holding(b) == {s \in Symbols : b.position[s] # NoPosition}

\* The pending orders of the symbols S leave the book.  The cancel intent has a
\* key of its own per order: a second one for the same order is not recorded.
Withdrawn(st, S) ==
    [st EXCEPT
        !.book.pending = [s \in Symbols |-> IF s \in S THEN NoOrder ELSE @[s]],
        !.intents = [k \in Keys |->
            IF /\ k[2] \in S
               /\ st.book.pending[k[2]].plan = k[1]
               /\ @[k].cancelled = 0
            THEN [@[k] EXCEPT !.cancelled = Unfilled(st.book.pending[k[2]])]
            ELSE @[k]]]

\* Mutant of Cancel: the withdrawal is not saved.
CancelUnsaved(st, S) == Withdrawn(st, Resting(st.book) \cap S)

Cancel(st, S) ==
    LET gone == Resting(st.book) \cap S
    IN  IF gone = {} THEN st ELSE Save(Withdrawn(st, gone))

FreshCounters(b) ==
    [b EXCEPT !.session_realized = 0, !.trades_today = 0, !.submissions_today = 0,
              !.consecutive_stops = 0, !.cooldown_until = 0]

\* A new trading date: the counters restart and yesterday's orders go.
EnsureSession(st) ==
    IF st.book.session_date = DateOf(now) THEN st
    ELSE Save(Cancel([st EXCEPT !.book = [FreshCounters(@) EXCEPT
                                              !.session_date = DateOf(now)]], Symbols))

PendingRisk(b) ==
    Total([s \in Resting(b) |-> Unfilled(b.pending[s]) * WorstCaseRisk(s)])

PositionRisk(b) ==
    Total([s \in Holding(b) |-> b.position[s].remaining
        * Larger(0, b.position[s].entry_price
                    - ExitNet(StopLimit(s, b.position[s].stop)))])

DailyRiskUsed(b) ==
    Larger(0, -b.session_realized) + PositionRisk(b) + PendingRisk(b)

DailyBudget == (Cost.initial_cash * Cost.daily_loss_pct) \div 100
TradeBudget == (Cost.initial_cash * Cost.trade_risk_pct) \div 100

\* Mutant of SlotFree: pending orders do not reserve the slot.
SlotFreeOfPositions(b) == Holding(b) = {}

\* The market's slot: no position and no pending order, in any symbol.
SlotFree(b) == Holding(b) = {} /\ Resting(b) = {}

\* Mutant of DayOpen: the limits are off by one.
DayOpenAtLimit(b) == /\ b.trades_today <= Cost.max_entries
                     /\ b.submissions_today <= Cost.max_submissions

DayOpen(b) == /\ b.trades_today < Cost.max_entries
              /\ b.submissions_today < Cost.max_submissions

CanSubmit(b) == /\ SlotFree(b)
                /\ DayOpen(b)
                /\ b.consecutive_stops < Cost.stop_count
                /\ now >= b.cooldown_until
                /\ DailyRiskUsed(b) < DailyBudget

\* Mutant of RiskBudget: what the day has already used is forgotten.
RiskBudgetPerTrade(b) == IF b.cash > 0 THEN TradeBudget ELSE 0

RiskBudget(b) == Smaller(TradeBudget, Larger(0, DailyBudget - DailyRiskUsed(b)))

EntryQuantity(b, s) ==
    Smaller(Cost.max_quantity,
            Smaller(b.cash \div AllIn(Candidate[s].limit),
                    RiskBudget(b) \div WorstCaseRisk(s)))

\* Mutant of AveragePrice: the two prices are not weighted by their quantities.
AveragePriceUnweighted(p, each, q) ==
    IF p.quantity = 0 \/ q = 0 THEN each ELSE (p.entry_price + each) \div 2

\* The all-in price per share once q more shares are bought at `each`.
AveragePrice(p, each, q) ==
    (p.entry_price * p.quantity + each * q) \div (p.quantity + q)

OpenPosition(order, s, t) ==
    [plan |-> order.plan, quantity |-> 0, remaining |-> 0, entry_price |-> 0,
     stop |-> Candidate[s].stop, highest |-> t.bid, opened_at |-> now,
     filled_targets |-> {}, exit_pending_at |-> None, below_vwap_since |-> None]

\* The book after q shares are bought at the tick's ask.
Bought(b, s, t, q) ==
    LET order == b.pending[s]
        each  == AllIn(Execution(t.ask))
        held  == IF b.position[s] # NoPosition THEN b.position[s]
                 ELSE OpenPosition(order, s, t)
    IN  [b EXCEPT !.cash = @ - each * q,
                  !.position[s] = [held EXCEPT !.quantity = @ + q,
                                               !.remaining = @ + q,
                                               !.entry_price = AveragePrice(held, each, q)],
                  !.trades_today = IF order.filled = 0 THEN @ + 1 ELSE @,
                  !.pending[s] = IF q = Unfilled(order) THEN NoOrder
                                 ELSE [order EXCEPT !.filled = @ + q]]

\* A fill of at most `visible` shares, truncated to the cash and to the order.
ApplyEntryFill(st, s, t, visible) ==
    LET b == st.book
        q == Smaller(Smaller(visible, b.cash \div AllIn(Execution(t.ask))),
                     Unfilled(b.pending[s]))
    IN  IF q <= 0 THEN st ELSE Save([st EXCEPT !.book = Bought(b, s, t, q)])

\* Mutant of Reaches: the limit is compared with the ask before slippage.
ReachesBeforeSlippage(order, s, t) == /\ now >= order.eligible_at
                                      /\ t.ask <= Candidate[s].limit

\* The tick reaches the order: its latency is over and the executed price,
\* slippage included, is within the limit.
Reaches(order, s, t) == /\ now >= order.eligible_at
                        /\ t.ask <= Candidate[s].limit
                        /\ Execution(t.ask) <= Candidate[s].limit

\* What a tick does to the resting order of its symbol.
ProcessPending(st, s, t) ==
    LET order == st.book.pending[s]
    IN  IF order = NoOrder THEN st
        ELSE IF t.halted THEN Cancel(st, {s})
        ELSE IF ~t.orderly THEN st
        ELSE IF now >= order.expires_at THEN Cancel(st, {s})
        ELSE IF /\ Reaches(order, s, t)
                /\ Visible(t) > 0
                /\ Cost.allow_partial \/ Visible(t) >= Unfilled(order)
        THEN ApplyEntryFill(st, s, t, Visible(t))
        ELSE st

\* The book after q shares of s are sold at the tick's bid.
Sold(b, s, q, t, reason) ==
    LET p    == b.position[s]
        net  == ExitNet(t.bid * q)
        pnl  == net - p.entry_price * q
        last == p.remaining = q
        stopped == last /\ reason = "STOP_LOSS"
    IN  [b EXCEPT !.cash = @ + net,
                  !.realized = @ + pnl,
                  !.session_realized = @ + pnl,
                  !.position[s] = IF last THEN NoPosition
                                  ELSE [p EXCEPT !.remaining = @ - q],
                  !.consecutive_stops = IF stopped THEN @ + 1
                                        ELSE IF last /\ pnl > 0 THEN 0 ELSE @,
                  !.cooldown_until = IF stopped THEN now + Cost.stop_cooldown ELSE @]

\* Sell at most `quantity` shares.
CloseQuantity(st, s, quantity, t, reason) ==
    LET p == st.book.position[s]
        q == Smaller(quantity, p.remaining)
    IN  IF q <= 0 THEN st
        ELSE Save([st EXCEPT !.book = Sold(@, s, q, t, reason),
                             !.intents[<<p.plan, s>>].sold = @ + q])

CloseAll(st, s, t, reason) ==
    CloseQuantity(st, s, st.book.position[s].remaining, t, reason)

\* Mutant of BeginExit: the resting order stays.
BeginExitKeepingOrder(st, s) ==
    IF st.book.position[s].exit_pending_at # None THEN st
    ELSE [st EXCEPT !.book.position[s].exit_pending_at = now]

\* The stop has triggered: remember since when and withdraw the resting order.
\* Only the withdrawal saves; without one the mark stays in memory.
BeginExit(st, s) ==
    IF st.book.position[s].exit_pending_at # None THEN st
    ELSE Cancel([st EXCEPT !.book.position[s].exit_pending_at = now], {s})

\* A triggered stop may be executed at this bid.
Executable(st, s, t) ==
    LET p == st.book.position[s]
    IN  \/ t.bid >= StopLimit(s, p.stop)
        \/ now - p.exit_pending_at >= Candidate[s].emergency

\* Mutant of MarkTarget: the resting order stays.
MarkTargetKeepingOrder(st, s, i) ==
    [st EXCEPT !.book.position[s].filled_targets = @ \cup {i}]

\* The i-th target is taken: the resting order goes and the target is marked
\* before its shares are sold.
MarkTarget(st, s, i) ==
    [Cancel(st, {s}) EXCEPT !.book.position[s].filled_targets = @ \cup {i}]

TargetDue(st, s, t, i) ==
    LET p == st.book.position[s]
    IN  /\ p # NoPosition
        /\ i <= Len(Candidate[s].targets)
        /\ i \notin p.filled_targets
        /\ TargetQuantity(s, p.quantity, i) > 0
        /\ t.bid >= Candidate[s].targets[i].price

\* After the first target the stop may move up to the entry price.
TakeProfit(st, s, t, i) ==
    LET p      == st.book.position[s]
        closed == CloseQuantity(MarkTarget(st, s, i), s,
                                TargetQuantity(s, p.quantity, i), t, "TARGET")
    IN  IF ~TargetDue(st, s, t, i) THEN st
        ELSE IF /\ i = 1 /\ Candidate[s].move_stop
                /\ closed.book.position[s] # NoPosition
             THEN [closed EXCEPT !.book.position[s].stop = Larger(@, p.entry_price)]
             ELSE closed

----
\* One tick of symbol s (on_tick): first the resting order, then the position.

Filled(s, t) == ProcessPending(Current, s, t)

Live(s, t) == Filled(s, t).book.position[s] # NoPosition /\ ~t.halted

Marked(s, t) == [Filled(s, t) EXCEPT !.book.position[s].highest = Larger(@, t.bid)]

StopTriggered(s, t) ==
    LET p == Filled(s, t).book.position[s]
    IN  p.exit_pending_at # None \/ t.bid <= p.stop

\* The VWAP timer starts with the first bid below VWAP and is cleared by one
\* that is not; a tick without VWAP leaves it alone.
Watched(s, t) ==
    LET st == Marked(s, t)
    IN  IF Candidate[s].below_vwap = 0 \/ t.vwap = "none" THEN st
        ELSE [st EXCEPT !.book.position[s].below_vwap_since =
                IF t.vwap = "above" THEN None ELSE IF @ = None THEN now ELSE @]

TimedExitDue(s, t) ==
    LET p == Watched(s, t).book.position[s]
        c == Candidate[s]
    IN  \/ now - p.opened_at >= c.max_holding
        \/ /\ c.no_progress > 0
           /\ now - p.opened_at >= c.no_progress
           /\ (p.highest - p.entry_price) * 100 < c.min_progress_pct * p.entry_price
        \/ /\ c.below_vwap > 0 /\ t.vwap = "below"
           /\ now - p.below_vwap_since >= c.below_vwap

\* Nothing is held, or trading is halted: only the resting order is processed.
TickIdle(s, t) ==
    /\ ~Live(s, t)
    /\ Becomes(Filled(s, t))
    /\ UNCHANGED <<claimed, now>>

\* The stop has been touched and this bid may be sold at.
TickStopExecuted(s, t) ==
    /\ Live(s, t) /\ StopTriggered(s, t)
    /\ LET st == BeginExit(Marked(s, t), s)
       IN  Executable(st, s, t) /\ Becomes(CloseAll(st, s, t, "STOP_LOSS"))
    /\ UNCHANGED <<claimed, now>>

\* The stop has been touched but the bid has gapped below the stop limit: wait.
TickStopWaits(s, t) ==
    /\ Live(s, t) /\ StopTriggered(s, t)
    /\ LET st == BeginExit(Marked(s, t), s)
       IN  ~Executable(st, s, t) /\ Becomes(st)
    /\ UNCHANGED <<claimed, now>>

\* Maximum holding time, no progress, or too long below VWAP.  The resting
\* order, if any, is left alone.
TickTimedExit(s, t) ==
    /\ Live(s, t) /\ ~StopTriggered(s, t) /\ TimedExitDue(s, t)
    /\ Becomes(CloseAll(Watched(s, t), s, t, "TIMED_EXIT"))
    /\ UNCHANGED <<claimed, now>>

\* No exit is due: sell at every open target the bid reaches, then save.
TickTargets(s, t) ==
    /\ Live(s, t) /\ ~StopTriggered(s, t) /\ ~TimedExitDue(s, t)
    /\ Becomes(Save(TakeProfit(TakeProfit(TakeProfit(
                    Watched(s, t), s, t, 1), s, t, 2), s, t, 3)))
    /\ UNCHANGED <<claimed, now>>

OnTick(s, t) == \/ TickIdle(s, t)
                \/ TickStopExecuted(s, t)
                \/ TickStopWaits(s, t)
                \/ TickTimedExit(s, t)
                \/ TickTargets(s, t)

----
\* The other handlers.

\* submit_entry: the session is brought up to date before anything is checked.
Admissible(st, p, s) ==
    /\ CanSubmit(st.book)
    /\ WorstCaseRisk(s) > 0
    /\ EntryQuantity(st.book, s) > 0
    /\ <<p, s>> \notin claimed

\* Bound: an order is only placed while its timeout lies before the horizon.
SubmitAccepted(p, s) ==
    LET st == EnsureSession(Current)
        q  == EntryQuantity(st.book, s)
    IN  /\ now + Cost.timeout <= Horizon
        /\ Admissible(st, p, s)
        /\ claimed' = claimed \cup {<<p, s>>}
        /\ Becomes(Save([st EXCEPT
                !.book.pending[s] = [plan |-> p, eligible_at |-> now + Cost.latency,
                                     expires_at |-> now + Cost.timeout,
                                     desired |-> q, filled |-> 0],
                !.book.submissions_today = @ + 1,
                !.intents[<<p, s>>].bought = q]))
        /\ UNCHANGED now

SubmitRefused(p, s) ==
    LET st == EnsureSession(Current)
    IN  /\ ~Admissible(st, p, s)
        /\ Becomes(st)
        /\ UNCHANGED <<claimed, now>>

\* The engine withdraws the order of a symbol: halted feed or expired plan.
CancelPending(s) ==
    /\ Becomes(Cancel(Current, {s}))
    /\ UNCHANGED <<claimed, now>>

\* A corporate action: the order goes, and the position too while the symbol
\* trades.  A halted tick may be a halt of the market only, so both may follow.
CorporateActionCloses(s, t) ==
    LET st == Cancel(Current, {s})
    IN  /\ st.book.position[s] # NoPosition
        /\ Becomes(CloseAll(st, s, t, "CORPORATE_ACTION"))
        /\ UNCHANGED <<claimed, now>>

CorporateActionKeeps(s, t) ==
    /\ book.position[s] = NoPosition \/ t.halted
    /\ Becomes(Cancel(Current, {s}))
    /\ UNCHANGED <<claimed, now>>

\* Mutant of Due: a partially filled order is no longer expired.
DueUnfilledOnly(b) ==
    {s \in Resting(b) : b.pending[s].filled = 0 /\ now >= b.pending[s].expires_at}

Due(b) == {s \in Resting(b) : now >= b.pending[s].expires_at}

\* The maintenance job, once a second.
ExpirePending ==
    /\ Due(book) # {}
    /\ Becomes(Cancel(Current, Due(book)))
    /\ UNCHANGED <<claimed, now>>

\* Session end: every order goes, and the position at the latest tick the engine
\* remembers for its symbol, however old; the slot invariant leaves at most one.
ForceClosePriced(s, t) ==
    LET st == Cancel(Current, Symbols)
    IN  /\ book.position[s] # NoPosition
        /\ Becomes(CloseAll(st, s, t, "SESSION_FORCE_CLOSE"))
        /\ UNCHANGED <<claimed, now>>

\* Session end with no position, or none the engine has seen a tick of.
ForceCloseUnpriced ==
    /\ Becomes(Cancel(Current, Symbols))
    /\ UNCHANGED <<claimed, now>>

\* Mutant of ResetDay: the fresh counters are not saved.
ResetDayUnsaved ==
    /\ Becomes([Current EXCEPT !.book = FreshCounters(@)])
    /\ UNCHANGED <<claimed, now>>

\* The morning job that zeroes the counters.
ResetDay ==
    /\ Becomes(Save([Current EXCEPT !.book = FreshCounters(@)]))
    /\ UNCHANGED <<claimed, now>>

\* The process stops and starts again from what was saved.
Restart ==
    /\ book' = saved
    /\ UNCHANGED <<saved, intents, claimed, now>>

Elapse ==
    /\ now < Horizon
    /\ now' = now + 1
    /\ UNCHANGED <<book, saved, intents, claimed>>

----
EmptyBook == [cash |-> Cost.initial_cash, realized |-> 0, session_realized |-> 0,
              pending |-> [s \in Symbols |-> NoOrder],
              position |-> [s \in Symbols |-> NoPosition],
              trades_today |-> 0, submissions_today |-> 0, consecutive_stops |-> 0,
              cooldown_until |-> 0, session_date |-> None]

Init == /\ book = EmptyBook
        /\ saved = EmptyBook
        /\ intents = [k \in Keys |-> [bought |-> 0, cancelled |-> 0, sold |-> 0]]
        /\ claimed = {}
        /\ now = 0

Next == \/ \E s \in Symbols, t \in Ticks : OnTick(s, t)
        \/ \E p \in Plans, s \in Symbols : SubmitAccepted(p, s) \/ SubmitRefused(p, s)
        \/ \E s \in Symbols : CancelPending(s)
        \/ \E s \in Symbols, t \in Ticks : CorporateActionCloses(s, t) \/ CorporateActionKeeps(s, t)
        \/ \E s \in Symbols, t \in Ticks : ForceClosePriced(s, t)
        \/ ForceCloseUnpriced
        \/ ExpirePending
        \/ ResetDay
        \/ Restart
        \/ Elapse

Spec == Init /\ [][Next]_vars

----
\* Properties.

Book == [cash: Int, realized: Int, session_realized: Int,
         pending: [Symbols -> Order \cup {NoOrder}],
         position: [Symbols -> Position \cup {NoPosition}],
         trades_today: Nat, submissions_today: Nat, consecutive_stops: Nat,
         cooldown_until: Nat, session_date: Nat \cup {None}]

\* Every variable has the shape the broker gives it, in memory and on disk.
TypeOK == /\ book \in Book
          /\ saved \in Book
          /\ intents \in [Keys -> Intent]
          /\ claimed \subseteq Keys
          /\ now \in 0..Horizon

\* The entries (plan and symbol) that occupy the slot: resting or held.
Occupying(b) == {<<b.pending[s].plan, s>> : s \in Resting(b)}
                \cup {<<b.position[s].plan, s>> : s \in Holding(b)}

\* The market has one slot: no two entries are ever resting or held at the same
\* time, whatever ticks, timeouts and restarts do to them, and what occupies the
\* slot was claimed (can_submit, submit_entry, process_pending).
SlotExclusive == /\ \A k, l \in Occupying(book) : k = l
                 /\ Occupying(book) \subseteq claimed

\* A position that has begun to leave, by a triggered stop or by a target, has
\* no resting order that could still add to it (_begin_exit, on_tick).
LeavingHasNoOrder ==
    \A s \in Holding(book) :
        \/ book.position[s].exit_pending_at # None
        \/ book.position[s].filled_targets # {}
        => book.pending[s] = NoOrder

\* Shares of position p already sold at its targets.
SoldAtTargets(s, p) ==
    LET sold(i) == IF i \in p.filled_targets THEN TargetQuantity(s, p.quantity, i) ELSE 0
    IN  sold(1) + sold(2) + sold(3)

\* What remains of a position is what its open targets still ask for, although
\* partial fills re-allocate the targets (_allocate_targets, on_tick).
TargetsMatchRemaining ==
    \A s \in Holding(book) :
        LET p == book.position[s]
        IN  /\ p.remaining = p.quantity - SoldAtTargets(s, p)
            /\ p.remaining > 0

\* The recorded intents account for every share: bought less cancelled less
\* sold is what the entry still has resting plus what it still holds.
IntentsMatchBook ==
    \A k \in Keys :
        LET s == k[2]
            resting == IF s \in Resting(book) /\ book.pending[s].plan = k[1]
                       THEN Unfilled(book.pending[s]) ELSE 0
            held == IF s \in Holding(book) /\ book.position[s].plan = k[1]
                    THEN book.position[s].remaining ELSE 0
        IN  intents[k].bought - intents[k].cancelled - intents[k].sold = resting + held

\* What two fills of one entry cost differs by a multiple of every quantity that an
\* entry may have: then no average of their prices is rounded.
SteadyPrices ==
    \A s \in Symbols, t, u \in Ticks :
        Execution(t.ask) <= Candidate[s].limit /\ Execution(u.ask) <= Candidate[s].limit
        => \A n \in 1..Cost.max_quantity :
               (AllIn(Execution(t.ask)) - AllIn(Execution(u.ask))) % n = 0

\* No money appears or disappears: cash plus the cost of what is held is the
\* initial cash plus all realised profit, across partial fills and partial exits.
\* Averages are rounded down here, so that at other prices something is missing.
CashMatchesLedger ==
    LET owned == book.cash + Total([s \in Holding(book) |->
                     book.position[s].entry_price * book.position[s].remaining])
        owed  == Cost.initial_cash + book.realized
    IN  owned <= owed /\ (SteadyPrices => owned = owed)

\* A resting order can always be paid in full at its limit, so that the
\* truncation of a fill to the cash never bites and cash never goes negative.
OrderFunded ==
    /\ book.cash >= 0
    /\ \A s \in Resting(book) :
            Unfilled(book.pending[s]) * AllIn(Candidate[s].limit) <= book.cash

\* Entries filled today stay within the limit even though the count moves at
\* the first fill, which comes after the check (can_submit, _apply_entry_fill).
DailyEntryLimit ==
    /\ book.trades_today <= Cost.max_entries
    /\ book.submissions_today <= Cost.max_submissions

\* No bid is below the limit of a triggered stop.
NoGaps == \A s \in Symbols, t \in Ticks : t.bid >= StopLimit(s, Candidate[s].stop)

\* The costs of a sale are those of its shares, nothing is rounded.
WholeExits ==
    \A t \in Ticks, q \in 1..Cost.max_quantity : ExitNet(t.bid * q) = ExitNet(t.bid) * q

\* In a market whose bids never gap below a stop limit, the loss realised today
\* plus the risk still open stays within the daily budget, but for one unit of
\* rounding for each share sold.
DailyRiskContained ==
    NoGaps => DailyRiskUsed(book)
                <= DailyBudget + IF WholeExits THEN 0 ELSE Cost.max_quantity

\* A book without the two fields of its positions that not every change saves.
Unmarked(b) == [b EXCEPT !.position = [s \in Symbols |->
                    IF b.position[s] = NoPosition THEN NoPosition
                    ELSE [b.position[s] EXCEPT !.exit_pending_at = None, !.highest = 0]]]

\* The copy on disk is the portfolio in memory, up to the highest bid seen and
\* the mark of a triggered stop: a restart loses nothing else.
SavedIsCurrent == Unmarked(saved) = Unmarked(book)

\* A resting order does not rest for ever: maintenance expires it if no tick does.
OrderResolved ==
    \A s \in Symbols : book.pending[s] # NoOrder ~> book.pending[s] = NoOrder

\* "The first partial fill consumes one daily entry": a position that appears
\* counts as an entry of the day.
EntryConsumesLimit ==
    [][\A s \in Symbols :
        s \in Holding(book)' \ Holding(book) => book'.trades_today = book.trades_today + 1]_vars

\* A triggered stop "remains EXIT_PENDING until the emergency timeout": the mark
\* leaves a position only with the position.
ExitRemainsPending ==
    [][\A s \in Holding(book) \cap Holding(book)' :
        book.position[s].exit_pending_at # None
            => book'.position[s].exit_pending_at # None]_vars

\* The broker implements the slot of EntrySlot: the entry that rests or is held
\* has it, and the claimed keys are the entries that ever did.
Holder == IF Occupying(book) = {} THEN <<>> ELSE CHOOSE k \in Occupying(book) : TRUE

Slot == INSTANCE EntrySlot WITH
            Entries <- Keys, NoEntry <- <<>>, holder <- Holder, used <- claimed

SlotKept == Slot!SlotSpec
====
