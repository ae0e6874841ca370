---- MODULE BrokerSlotProofs ----
(***************************************************************************)
(* The saved portfolio is the one in memory, with it the paper broker      *)
(* implements the slot of EntrySlot, and it keeps its limits.              *)
(*                                                                         *)
(* Every operation either leaves book and copy alone or ends in a save; in *)
(* between only the two fields that Unmarked leaves out change.  Soundness *)
(* with respect to the entries that occupy the slot (rather than to all    *)
(* claimed keys) then says that a handler can only release the slot.       *)
(***************************************************************************)
EXTENDS PaperBrokerProofs

----
\* The saved copy.

Synced(st) == Unmarked(st.saved) = Unmarked(st.book)

\* A store that was just saved.
LEMMA SaveSynced == ASSUME NEW st, Save(st) \in Store PROVE Synced(Save(st))
  <1>1. DOMAIN st = DOMAIN Save(st) BY DEF Save
  <1>2. "saved" \in DOMAIN st /\ "book" \in DOMAIN st BY <1>1 DEF Store
  <1>3. Save(st).saved = st.book /\ Save(st).book = st.book BY <1>2 DEF Save
  <1> QED BY <1>3 DEF Synced

LEMMA CancelSynced ==
    ASSUME NEW C, NEW st, Good(st, C), NEW S \in SUBSET Symbols, Synced(st)
    PROVE  Synced(Cancel(st, S))
  <1>1. \/ Cancel(st, S) = st
        \/ Cancel(st, S) = Save(Withdrawn(st, Resting(st.book) \cap S))
    BY DEF Cancel
  <1>2. Cancel(st, S) \in Store BY CancelGood DEF Good
  <1> QED BY <1>1, <1>2, SaveSynced

\* Fields of a position that Unmarked leaves out may change freely.
LEMMA TouchSynced ==
    ASSUME NEW st \in Store, Synced(st), NEW s \in Symbols, NEW p \in Position,
           st.book.position[s] \in Position,
           [p EXCEPT !.exit_pending_at = None, !.highest = 0]
             = [st.book.position[s] EXCEPT !.exit_pending_at = None, !.highest = 0]
    PROVE  Synced([st EXCEPT !.book.position[s] = p])
  <1> DEFINE pos == [st.book.position EXCEPT ![s] = p]
             b == [st.book EXCEPT !.position = pos]
             plain(x) == [r \in Symbols |->
                            IF x[r] = NoPosition THEN NoPosition
                            ELSE [x[r] EXCEPT !.exit_pending_at = None, !.highest = 0]]
  <1>1. st.book \in Book /\ st.book.position \in [Symbols -> Position \cup {NoPosition}]
    BY DEF Store, Book
  <1>2. p # NoPosition /\ st.book.position[s] # NoPosition
    BY NoneAssumption
  <1>3. plain(pos) = plain(st.book.position)
    BY <1>1, <1>2
  <1>4. [st EXCEPT !.book.position[s] = p].book = b
        /\ [st EXCEPT !.book.position[s] = p].saved = st.saved
    BY <1>1 DEF Store, Book
  <1>5. Unmarked(b) = [st.book EXCEPT !.position = plain(pos)]
    <2>1. b.position = pos BY <1>1 DEF Book
    <2> HIDE DEF pos
    <2>2. [b EXCEPT !.position = plain(pos)] = [st.book EXCEPT !.position = plain(pos)]
      BY <1>1 DEF Book
    <2> QED BY <2>1, <2>2 DEF Unmarked
  <1>6. Unmarked(st.book) = [st.book EXCEPT !.position = plain(st.book.position)]
    BY DEF Unmarked
  <1> HIDE DEF plain, pos, b
  <1> QED BY <1>3, <1>4, <1>5, <1>6 DEF Synced

LEMMA EnsureSessionSynced ==
    ASSUME NEW C, NEW st, Good(st, C), Synced(st), now \in Nat
    PROVE  Synced(EnsureSession(st))
  <1>1. EnsureSession(st) \in Store BY EnsureSessionGood DEF Good
  <1>2. CASE st.book.session_date = DateOf(now) BY <1>2 DEF EnsureSession
  <1>3. CASE st.book.session_date # DateOf(now)
    BY <1>1, <1>3, SaveSynced DEF EnsureSession
  <1> QED BY <1>2, <1>3

LEMMA ProcessPendingSynced ==
    ASSUME NEW C, NEW st, Good(st, C), Synced(st), NEW s \in Symbols, NEW t \in Tick,
           now \in Nat
    PROVE  Synced(ProcessPending(st, s, t))
  <1>1. Synced(Cancel(st, {s})) BY CancelSynced
  <1>2. ASSUME st.book.pending[s] # NoOrder
        PROVE  Synced(ApplyEntryFill(st, s, t, Visible(t)))
    <2>1. ApplyEntryFill(st, s, t, Visible(t)) \in Store
      BY <1>2, VisibleType, ApplyEntryFillGood DEF Good
    <2> QED BY <2>1, SaveSynced DEF ApplyEntryFill
  <1> QED BY <1>1, <1>2 DEF ProcessPending

\* A sale of everything that is held always saves: something is held.
LEMMA CloseAllSynced ==
    ASSUME NEW C, NEW st, Good(st, C), NEW s \in Symbols, NEW t \in Tick,
           st.book.position[s] # NoPosition, NEW reason, now \in Nat
    PROVE  Synced(CloseAll(st, s, t, reason))
  <1> DEFINE held == st.book.position[s].remaining
  <1>1. st.book.position[s] \in Position BY DEF Good, Store, Book
  <1>2. held \in Nat /\ held > 0
    BY <1>1 DEF Position, Good, Sound, PositionsOpen
  <1>3. Smaller(held, held) = held BY DEF Smaller
  <1>4. CloseAll(st, s, t, reason) \in Store BY CloseAllGood DEF Good
  <1> QED BY <1>2, <1>3, <1>4, SaveSynced DEF CloseAll, CloseQuantity

LEMMA BeginExitSynced ==
    ASSUME NEW C, NEW st, Good(st, C), Synced(st), NEW s \in Symbols,
           st.book.position[s] # NoPosition, now \in Nat
    PROVE  Synced(BeginExit(st, s))
  <1> DEFINE p == [st.book.position[s] EXCEPT !.exit_pending_at = now]
             n == [st EXCEPT !.book.position[s] = p]
  <1>1. st \in Store /\ st.book.position[s] \in Position
    BY DEF Good, Store, Book
  <1>2. p \in Position BY <1>1 DEF Position
  <1>3. [p EXCEPT !.exit_pending_at = None, !.highest = 0]
          = [st.book.position[s] EXCEPT !.exit_pending_at = None, !.highest = 0]
    BY <1>1 DEF Position
  <1>4. n = [st EXCEPT !.book.position[s].exit_pending_at = now]
    BY <1>1 DEF Store, Book
  <1> HIDE DEF p
  <1>5. Synced(n) BY <1>1, <1>2, <1>3, TouchSynced
  <1> HIDE DEF n
  <1>6. BeginExit(st, s) \in Store BY BeginExitGood DEF Good
  <1>7. \/ BeginExit(st, s) = st
        \/ BeginExit(st, s) = n
        \/ BeginExit(st, s) = Save(Withdrawn(n, Resting(n.book) \cap {s}))
    BY <1>4 DEF BeginExit, Cancel
  <1> QED BY <1>5, <1>6, <1>7, SaveSynced

LEMMA MarkedSynced ==
    ASSUME NEW C, Good(Current, C), Synced(Current), now \in Nat,
           NEW s \in Symbols, NEW t \in Ticks
    PROVE  /\ Synced(Filled(s, t))
           /\ Live(s, t) => Synced(Marked(s, t))
  <1> DEFINE f == Filled(s, t)
             high == Larger(f.book.position[s].highest, t.bid)
             p == [f.book.position[s] EXCEPT !.highest = high]
  <1>1. t \in Tick /\ Good(f, C) BY LiveFacts
  <1>2. Synced(f) BY <1>1, ProcessPendingSynced DEF Filled
  <1>3. ASSUME Live(s, t) PROVE Synced(Marked(s, t))
    <2>1. f.book.position[s] # NoPosition BY <1>3 DEF Live
    <2>2. f \in Store /\ f.book.position[s] \in Position
      BY <1>1, <2>1 DEF Good, Store, Book
    <2>3. high \in Nat BY <1>1, <2>2 DEF Larger, Position, Tick
    <2>4. Marked(s, t) = [f EXCEPT !.book.position[s] = p] BY <2>2 DEF Marked
    <2> HIDE DEF high, f
    <2>5. p \in Position BY <2>2, <2>3 DEF Position
    <2>6. [p EXCEPT !.exit_pending_at = None, !.highest = 0]
            = [f.book.position[s] EXCEPT !.exit_pending_at = None, !.highest = 0]
      BY <2>2 DEF Position
    <2> HIDE DEF p
    <2>7. Synced(f) BY <1>2
    <2>8. Synced([f EXCEPT !.book.position[s] = p])
      BY <2>2, <2>5, <2>6, <2>7, TouchSynced
    <2> QED BY <2>4, <2>8
  <1> QED BY <1>2, <1>3

\* A handler that ends in a synced store.
LEMMA SyncedAfter ==
    ASSUME NEW st \in Store, Synced(st), Becomes(st)
    PROVE  Synced(After)
  <1>1. st = After BY DEF Store, After, Becomes
  <1> QED BY <1>1

LEMMA TickSynced ==
    ASSUME NEW C, Good(Current, C), Synced(Current), now \in Nat,
           NEW s \in Symbols, NEW t \in Ticks, OnTick(s, t)
    PROVE  Synced(After)
  <1>1. /\ t \in Tick
        /\ Good(Filled(s, t), C)
        /\ Live(s, t) => Good(Marked(s, t), C)
                         /\ Marked(s, t).book.position[s] # NoPosition
        /\ Live(s, t) => Good(Watched(s, t), C)
                         /\ Watched(s, t).book.position[s] # NoPosition
    BY LiveFacts
  <1>2. Synced(Filled(s, t)) /\ (Live(s, t) => Synced(Marked(s, t)))
    BY MarkedSynced
  <1>3. CASE TickIdle(s, t) BY <1>1, <1>2, <1>3, SyncedAfter DEF TickIdle, Good
  <1>4. Live(s, t) => /\ Good(BeginExit(Marked(s, t), s), C)
                      /\ BeginExit(Marked(s, t), s).book.position[s] # NoPosition
                      /\ Synced(BeginExit(Marked(s, t), s))
    BY <1>1, <1>2, BeginExitGood, BeginExitSynced
  <1>5. CASE TickStopExecuted(s, t)
    <2> DEFINE st == CloseAll(BeginExit(Marked(s, t), s), s, t, "STOP_LOSS")
    <2>1. Good(st, C) /\ Synced(st)
      BY <1>1, <1>4, <1>5, CloseAllGood, CloseAllSynced DEF TickStopExecuted
    <2>2. Becomes(st) BY <1>5 DEF TickStopExecuted
    <2> QED BY <2>1, <2>2, SyncedAfter DEF Good
  <1>6. CASE TickStopWaits(s, t)
    <2>1. Becomes(BeginExit(Marked(s, t), s)) /\ Live(s, t) BY <1>6 DEF TickStopWaits
    <2> QED BY <1>4, <2>1, SyncedAfter DEF Good
  <1>7. CASE TickTimedExit(s, t)
    <2> DEFINE st == CloseAll(Watched(s, t), s, t, "TIMED_EXIT")
    <2>1. Good(st, C) /\ Synced(st)
      BY <1>1, <1>7, CloseAllGood, CloseAllSynced DEF TickTimedExit
    <2> QED BY <1>7, <2>1, SyncedAfter DEF Good, TickTimedExit
  <1>8. CASE TickTargets(s, t)
    <2> DEFINE c == TakeProfit(TakeProfit(TakeProfit(
                        Watched(s, t), s, t, 1), s, t, 2), s, t, 3)
    <2>1. Good(c, C) BY <1>1, <1>8, TakeProfitGood DEF TickTargets
    <2>2. Becomes(Save(c)) BY <1>8 DEF TickTargets
    <2> HIDE DEF c
    <2>3. Good(Save(c), C) BY <2>1, SaveGood DEF Good
    <2>4. Synced(Save(c)) BY <2>3, SaveSynced DEF Good
    <2> QED BY <2>2, <2>3, <2>4, SyncedAfter DEF Good
  <1> QED BY <1>3, <1>5, <1>6, <1>7, <1>8 DEF OnTick

LEMMA HandlesSynced ==
    ASSUME NEW C, Good(Current, C), Synced(Current), now \in Nat, Handles
    PROVE  Synced(After)
  <1>1. ASSUME NEW s \in Symbols, NEW t \in Ticks, OnTick(s, t) PROVE Synced(After)
    BY <1>1, TickSynced
  <1>2. \A S \in SUBSET Symbols :
            Good(Cancel(Current, S), C) /\ Synced(Cancel(Current, S))
    BY CancelGood, CancelSynced
  <1>3. ASSUME NEW p \in Plans, NEW s \in Symbols, SubmitRefused(p, s) PROVE Synced(After)
    <2> DEFINE st == EnsureSession(Current)
    <2>1. Good(st, C) /\ Synced(st) BY EnsureSessionGood, EnsureSessionSynced
    <2> QED BY <1>3, <2>1, SyncedAfter DEF Good, SubmitRefused
  <1>4. ASSUME NEW S \in SUBSET Symbols, Becomes(Cancel(Current, S)) PROVE Synced(After)
    BY <1>2, <1>4, SyncedAfter DEF Good
  <1>5. ASSUME NEW s \in Symbols, CancelPending(s) PROVE Synced(After)
    <2>1. {s} \in SUBSET Symbols OBVIOUS
    <2> QED BY <1>4, <1>5, <2>1 DEF CancelPending
  <1>6. ASSUME NEW s \in Symbols, NEW t \in Ticks, NEW S \in SUBSET Symbols, NEW reason,
               Cancel(Current, S).book.position[s] # NoPosition,
               Becomes(CloseAll(Cancel(Current, S), s, t, reason))
        PROVE  Synced(After)
    <2> DEFINE st == CloseAll(Cancel(Current, S), s, t, reason)
    <2>1. t \in Tick BY TickAssumption
    <2>2. Good(st, C) /\ Synced(st)
      BY <1>2, <1>6, <2>1, CloseAllGood, CloseAllSynced
    <2> QED BY <1>6, <2>2, SyncedAfter DEF Good
  <1>7. ASSUME NEW s \in Symbols, NEW t \in Ticks, CorporateActionCloses(s, t)
        PROVE  Synced(After)
    <2>1. {s} \in SUBSET Symbols OBVIOUS
    <2> QED BY <1>6, <1>7, <2>1 DEF CorporateActionCloses
  <1>8. ASSUME NEW s \in Symbols, NEW t \in Ticks, CorporateActionKeeps(s, t)
        PROVE  Synced(After)
    <2>1. {s} \in SUBSET Symbols OBVIOUS
    <2> QED BY <1>4, <1>8, <2>1 DEF CorporateActionKeeps
  <1>9. ASSUME NEW s \in Symbols, NEW t \in Ticks, ForceClosePriced(s, t)
        PROVE  Synced(After)
    <2>1. Cancel(Current, Symbols).book = [Current.book EXCEPT !.pending =
            [r \in Symbols |-> IF r \in Symbols THEN NoOrder ELSE Current.book.pending[r]]]
      BY CancelGood
    <2>2. Current.book = book /\ book \in Book BY DEF Current, Good, Store
    <2>3. Cancel(Current, Symbols).book.position = book.position BY <2>1, <2>2 DEF Book
    <2> QED BY <1>6, <1>9, <2>3 DEF ForceClosePriced
  <1>10. CASE ForceCloseUnpriced BY <1>4, <1>10 DEF ForceCloseUnpriced
  <1>11. CASE ExpirePending
    <2>1. Due(book) \in SUBSET Symbols BY DEF Due, Resting
    <2> QED BY <1>4, <1>11, <2>1 DEF ExpirePending
  <1>12. CASE ResetDay
    <2>1. saved' = book'
      BY <1>12 DEF ResetDay, Becomes, Save, Current
    <2> QED BY <2>1 DEF Synced, After
  <1>13. CASE Restart
    BY <1>13 DEF Restart, Synced, After
  <1> QED BY <1>1, <1>3, <1>5, <1>7, <1>8, <1>9, <1>10, <1>11, <1>12, <1>13 DEF Handles

\* A new entry: the slot was free, the session is saved with the order in it.
LEMMA SubmitFacts ==
    ASSUME IInv, NEW p \in Plans, NEW s \in Symbols, SubmitAccepted(p, s)
    PROVE  /\ Occupying(book') = {<<p, s>>}
           /\ saved' = book'
           /\ <<p, s>> \in Keys \ claimed
           /\ claimed' = claimed \cup {<<p, s>>}
  <1> DEFINE st == EnsureSession(Current)
             o == [plan |-> p, eligible_at |-> now + Cost.latency,
                   expires_at |-> now + Cost.timeout,
                   desired |-> EntryQuantity(st.book, s), filled |-> 0]
             b == [st.book EXCEPT !.pending[s] = o, !.submissions_today = @ + 1]
  <1>1. Good(st, claimed) BY EnsureSessionGood DEF IInv
  <1>2. Admissible(st, p, s) BY DEF SubmitAccepted
  <1>3. \A r \in Symbols : st.book.pending[r] = NoOrder /\ st.book.position[r] = NoPosition
    BY <1>1, <1>2, AdmissibleFacts
  <1>4. st \in Store /\ st.book \in Book BY <1>1 DEF Good, Store
  <1>5. book' = b /\ saved' = b
    <2>1. Becomes(Save([st EXCEPT !.book.pending[s] = o,
                                  !.book.submissions_today = @ + 1,
                                  !.intents[<<p, s>>].bought = EntryQuantity(st.book, s)]))
      BY DEF SubmitAccepted
    <2> HIDE DEF st, o
    <2> QED BY <1>4, <2>1 DEF Becomes, Save, Store, Book
  <1>6. o # NoOrder
    <2>1. EntryQuantity(st.book, s) \in Nat \ {0} BY <1>1, <1>2, AdmissibleFacts
    <2> HIDE DEF st
    <2>2. o \in Order BY <2>1, CostFields DEF IInv, Order
    <2> QED BY <2>2, NoneAssumption
  <1>7. /\ b.pending = [st.book.pending EXCEPT ![s] = o]
        /\ b.position = st.book.position
    BY <1>4 DEF Book
  <1>8. st.book.pending \in [Symbols -> Order \cup {NoOrder}] BY <1>4 DEF Book
  <1>9. o.plan = p OBVIOUS
  <1> HIDE DEF b, o, st
  <1>10. Resting(b) = {s} /\ Holding(b) = {}
    BY <1>3, <1>6, <1>7, <1>8 DEF Resting, Holding
  <1>11. b.pending[s] = o BY <1>7, <1>8
  <1>12. Occupying(b) = {<<p, s>>}
    BY <1>9, <1>10, <1>11 DEF Occupying
  <1>13. claimed' = claimed \cup {<<p, s>>} /\ <<p, s>> \notin claimed /\ <<p, s>> \in Keys
    BY <1>2 DEF SubmitAccepted, Admissible, Keys
  <1> QED BY <1>5, <1>12, <1>13

\* The inductive invariant.
SyncInv == IInv /\ Synced(Current)

LEMMA SyncStep == SyncInv /\ [Next]_vars => SyncInv'
  <1> SUFFICES ASSUME SyncInv, [Next]_vars PROVE SyncInv'
    OBVIOUS
  <1>1. IInv' BY NextSound DEF SyncInv
  <1>2. Good(Current, claimed) /\ now \in Nat /\ Synced(Current) /\ IInv
    BY DEF SyncInv, IInv
  <1>3. ASSUME NEW p \in Plans, NEW s \in Symbols, SubmitAccepted(p, s)
        PROVE  Synced(Current)'
    BY <1>2, <1>3, SubmitFacts DEF Synced, Current
  <1>4. ASSUME Handles PROVE Synced(Current)'
    <2>1. Synced(After) BY <1>2, <1>4, HandlesSynced
    <2> QED BY <2>1 DEF After, Synced, Current
  <1>5. Elapse => Synced(Current)' BY <1>2 DEF Elapse, Synced, Current
  <1>6. UNCHANGED vars => Synced(Current)' BY <1>2 DEF vars, Synced, Current
  <1> QED BY <1>1, <1>3, <1>4, <1>5, <1>6, NextCases DEF SyncInv

LEMMA SyncInit == Init => SyncInv
  BY InitSound DEF Init, SyncInv, Synced, Current

\* A restart loses nothing of the portfolio but the highest bid seen and the mark
\* of a triggered stop, whatever handler ran last (_save_portfolio and its callers).
THEOREM RestartLosesNothing == Spec => []SavedIsCurrent
  <1>1. SyncInv => SavedIsCurrent
    BY DEF SyncInv, Synced, Current, SavedIsCurrent
  <1>2. SyncInv /\ [Next]_vars => SyncInv'
    BY SyncStep
  <1> QED BY SyncInit, <1>1, <1>2, PTL DEF Spec

----
\* The refinement.

\* Two positions that differ in the highest bid, the marks and the timers only.
SameHolding(p, q) ==
    /\ p.plan = q.plan
    /\ p.quantity = q.quantity
    /\ p.remaining = q.remaining
    /\ p.entry_price = q.entry_price
    /\ p.stop = q.stop
    /\ p.filled_targets = q.filled_targets

\* What two books that differ in the unsaved fields only have in common.
LEMMA UnmarkedFacts ==
    ASSUME NEW b \in Book, NEW c \in Book, Unmarked(b) = Unmarked(c)
    PROVE  /\ b.pending = c.pending
           /\ b.cash = c.cash
           /\ b.realized = c.realized
           /\ b.session_realized = c.session_realized
           /\ b.trades_today = c.trades_today
           /\ b.submissions_today = c.submissions_today
           /\ \A s \in Symbols :
                /\ b.position[s] = NoPosition <=> c.position[s] = NoPosition
                /\ b.position[s] # NoPosition => SameHolding(b.position[s], c.position[s])
  <1> DEFINE plain(x) == [s \in Symbols |->
                    IF x.position[s] = NoPosition THEN NoPosition
                    ELSE [x.position[s] EXCEPT !.exit_pending_at = None, !.highest = 0]]
             u(x) == [x EXCEPT !.position = plain(x)]
  <1>1. \A x \in Book : /\ u(x).pending = x.pending
                        /\ u(x).cash = x.cash
                        /\ u(x).realized = x.realized
                        /\ u(x).session_realized = x.session_realized
                        /\ u(x).trades_today = x.trades_today
                        /\ u(x).submissions_today = x.submissions_today
                        /\ u(x).position = plain(x)
    <2> HIDE DEF plain
    <2> QED BY DEF Book
  <1>2. u(b) = u(c) BY DEF Unmarked
  <1>3. plain(b) = plain(c)
    <2> HIDE DEF plain, u
    <2>1. u(b).position = plain(b) /\ u(c).position = plain(c) BY <1>1
    <2> QED BY <1>2, <2>1
  <1>4. ASSUME NEW x \in Book, NEW s \in Symbols
        PROVE  /\ plain(x)[s] = NoPosition <=> x.position[s] = NoPosition
               /\ x.position[s] # NoPosition => SameHolding(plain(x)[s], x.position[s])
    <2>1. CASE x.position[s] = NoPosition BY <2>1
    <2>2. CASE x.position[s] # NoPosition
      <3>1. x.position[s] \in Position BY <2>2 DEF Book
      <3>2. [x.position[s] EXCEPT !.exit_pending_at = None, !.highest = 0] \in Position
        BY <3>1 DEF Position
      <3>3. SameHolding([x.position[s] EXCEPT !.exit_pending_at = None, !.highest = 0],
                        x.position[s])
        BY <3>1 DEF Position, SameHolding
      <3>4. plain(x)[s] = [x.position[s] EXCEPT !.exit_pending_at = None, !.highest = 0]
        BY <2>2
      <3> QED BY <2>2, <3>2, <3>3, <3>4, NoneAssumption
    <2> QED BY <2>1, <2>2
  <1> HIDE DEF plain, u
  <1>5. /\ b.pending = c.pending /\ b.cash = c.cash
        /\ b.realized = c.realized /\ b.session_realized = c.session_realized
        /\ b.trades_today = c.trades_today
        /\ b.submissions_today = c.submissions_today
    BY <1>1, <1>2
  <1> QED BY <1>3, <1>4, <1>5 DEF SameHolding

\* The store is sound for the entries that occupy the slot, on disk as well.
LEMMA OccupyingGood ==
    ASSUME SyncInv
    PROVE  Good(Current, Occupying(book))
  <1>1. /\ Current \in Store /\ Sound(book, claimed) /\ Sound(saved, claimed)
        /\ book \in Book /\ saved \in Book
    BY DEF SyncInv, IInv, Good, Current, Store
  <1>2. Claimed(book, Occupying(book))
    BY DEF Claimed, Occupying, Resting, Holding
  <1>3. /\ saved.pending = book.pending
        /\ \A s \in Symbols :
             saved.position[s] # NoPosition =>
                /\ book.position[s] # NoPosition
                /\ saved.position[s].plan = book.position[s].plan
    BY <1>1, UnmarkedFacts DEF SyncInv, Synced, Current, SameHolding
  <1>4. Claimed(saved, Occupying(book))
    BY <1>2, <1>3 DEF Claimed
  <1> QED BY <1>1, <1>2, <1>4 DEF Good, Sound, Current

LEMMA OccupyingShape ==
    ASSUME IInv
    PROVE  /\ Occupying(book) \subseteq Keys
           /\ \A k, l \in Occupying(book) : k = l
  <1>1. Sound(book, claimed) /\ book \in Book BY DEF IInv, Good, Current, Store
  <1>2. \A k, l \in Occupying(book) : k = l
    BY <1>1 DEF Occupying, Resting, Holding, Sound, OneSymbol, OnePlan
  <1>3. Occupying(book) \subseteq claimed
    BY <1>1 DEF Occupying, Resting, Holding, Sound, Claimed
  <1> QED BY <1>2, <1>3 DEF IInv

LEMMA KeyNotEmpty == \A k \in Keys : k # <<>>
  <1> SUFFICES ASSUME NEW p \in Plans, NEW s \in Symbols PROVE <<p, s>> # <<>>
    BY DEF Keys
  <1>1. Len(<<p, s>>) = 2 /\ Len(<<>>) = 0
    OBVIOUS
  <1> QED BY <1>1

\* When only entries that occupied the slot still do, it has its holder or none.
LEMMA ClaimedSlot ==
    ASSUME SyncInv, Claimed(book', Occupying(book)), claimed' = claimed
    PROVE  Slot!Release \/ UNCHANGED Slot!slotVars
  <1> DEFINE O == Occupying(book)
             P == Occupying(book')
  <1>1. P \subseteq O
    <2> HIDE DEF O
    <2> QED BY DEF Claimed, Occupying, Resting, Holding, O
  <1>2. O \subseteq Keys /\ \A k, l \in O : k = l
    BY OccupyingShape DEF SyncInv
  <1>3. Holder = (IF O = {} THEN <<>> ELSE CHOOSE k \in O : TRUE)
        /\ Holder' = (IF P = {} THEN <<>> ELSE CHOOSE k \in P : TRUE)
    BY DEF Holder
  <1> HIDE DEF O, P
  <1>4. CASE P = O BY <1>3, <1>4 DEF Slot!slotVars
  <1>5. CASE P # O
    <2>1. P = {} /\ O # {} BY <1>1, <1>2, <1>5
    <2>2. Holder \in Keys BY <1>2, <1>3, <2>1
    <2>3. Holder # <<>> BY <2>2, KeyNotEmpty
    <2>4. Holder' = <<>> BY <1>3, <2>1
    <2> QED BY <2>3, <2>4 DEF Slot!Release
  <1> QED BY <1>4, <1>5

\* A handler keeps the holder of the slot or releases the slot.
LEMMA HandlesSlot ==
    ASSUME SyncInv, SyncInv', Handles
    PROVE  Slot!Release \/ UNCHANGED Slot!slotVars
  <1>1. Good(After, Occupying(book))
    BY OccupyingGood, HandlesGood DEF SyncInv, IInv
  <1>2. Claimed(book', Occupying(book)) BY <1>1 DEF Good, Sound, After
  <1>3. claimed' = claimed BY HandlesKeeps
  <1> QED BY <1>2, <1>3, ClaimedSlot

LEMMA SlotStep ==
    ASSUME SyncInv, SyncInv', [Next]_vars
    PROVE  [Slot!SlotNext]_(Slot!slotVars)
  <1>1. ASSUME NEW p \in Plans, NEW s \in Symbols, SubmitAccepted(p, s)
        PROVE  Slot!Take(<<p, s>>) /\ <<p, s>> \in Keys
    <2>1. /\ Occupying(book') = {<<p, s>>}
          /\ <<p, s>> \in Keys \ claimed
          /\ claimed' = claimed \cup {<<p, s>>}
      BY <1>1, SubmitFacts DEF SyncInv
    <2>2. Holder' = <<p, s>> BY <2>1 DEF Holder
    <2> QED BY <2>1, <2>2 DEF Slot!Take
  <1>2. CASE Handles BY <1>2, HandlesSlot DEF Slot!SlotNext
  <1>3. CASE Elapse \/ UNCHANGED vars
    <2> DEFINE O == Occupying(book)
               P == Occupying(book')
    <2>1. O = P /\ claimed' = claimed BY <1>3 DEF Elapse, vars
    <2>2. /\ Holder = (IF O = {} THEN <<>> ELSE CHOOSE k \in O : TRUE)
          /\ Holder' = (IF P = {} THEN <<>> ELSE CHOOSE k \in P : TRUE)
      BY DEF Holder
    <2> HIDE DEF O, P
    <2> QED BY <2>1, <2>2 DEF Slot!slotVars
  <1> QED BY <1>1, <1>2, <1>3, NextCases DEF Slot!SlotNext

\* The broker implements the slot: an entry takes it at most once, and once it has
\* lost the slot it never comes back, whatever ticks, timeouts and restarts do to
\* orders and positions (can_submit, submit_entry, recover).
THEOREM SlotImplemented == Spec => SlotKept
  <1>1. Init => Slot!SlotInit
    BY DEF Init, EmptyBook, Slot!SlotInit, Holder, Occupying, Resting, Holding
  <1>2. SyncInv /\ [Next]_vars => SyncInv'
    BY SyncStep
  <1>3. SyncInv /\ SyncInv' /\ [Next]_vars => [Slot!SlotNext]_(Slot!slotVars)
    BY SlotStep
  <1> QED BY SyncInit, <1>1, <1>2, <1>3, PTL DEF Spec, SlotKept, Slot!SlotSpec

----
\* Arithmetic for the money and the risk of fills and sales.

\* The sum over one.
LEMMA TotalSingle ==
    ASSUME NEW f, NEW z, DOMAIN f = {z}, f[z] \in Int
    PROVE  Total(f) = f[z]
  <1> DEFINE pick(x) == CHOOSE y \in x : TRUE
             one == [x \in SUBSET {z} |-> IF x = {} THEN 0 ELSE f[z]]
             step(g) == [x \in SUBSET {z} |->
                            IF x = {} THEN 0 ELSE f[pick(x)] + g[x \ {pick(x)}]]
  <1>1. \A x \in SUBSET {z} : x # {} => x = {z} /\ pick(x) = z OBVIOUS
  <1>2. one = step(one)
    <2> SUFFICES ASSUME NEW x \in SUBSET {z}, x # {}
                 PROVE  f[z] = f[pick(x)] + one[x \ {pick(x)}]
      OBVIOUS
    <2>1. pick(x) = z /\ x \ {pick(x)} = {} BY <1>1
    <2> HIDE DEF pick
    <2>2. one[x \ {pick(x)}] = 0 BY <2>1
    <2> QED BY <2>1, <2>2
  <1>3. \A g : g = step(g) => g[{z}] = f[z]
    <2> SUFFICES ASSUME NEW g, g = step(g) PROVE g[{z}] = f[z] OBVIOUS
    <2>1. {} \in SUBSET {z} /\ {z} \in SUBSET {z} /\ {z} # {} OBVIOUS
    <2>2. pick({z}) = z /\ {z} \ {pick({z})} = {} BY <1>1, <2>1
    <2>3. step(g)[{}] = 0 BY <2>1
    <2>4. step(g)[{z}] = f[pick({z})] + g[{z} \ {pick({z})}] BY <2>1
    <2> HIDE DEF step, pick
    <2>5. g[{}] = 0 /\ g[{z}] = f[z] + g[{}] BY <2>2, <2>3, <2>4
    <2> QED BY <2>5
  <1> HIDE DEF one
  <1>4. (CHOOSE g : g = step(g)) = step(CHOOSE g : g = step(g)) BY <1>2
  <1>5. (CHOOSE g : g = step(g))[{z}] = f[z] BY <1>3, <1>4
  <1> QED BY <1>5 DEF Total, MapThenSumSet, MapThenFoldSet

\* What is left of an amount when its costs are taken grows with the amount.
LEMMA NetMonotone ==
    ASSUME NEW v \in Nat, NEW w \in Nat, NEW bps \in Nat, v <= w, bps <= 10000
    PROVE  v - Bps(v, bps) <= w - Bps(w, bps)
  <1> DEFINE k == w - v
             x == v * bps
             y == w * bps
  <1>1. k \in Nat /\ x \in Nat /\ y \in Nat OBVIOUS
  <1>2. y = x + k * bps /\ k * bps \in Nat BY SMTT(30)
  <1>3. k * bps <= k * 10000
    <2> HIDE DEF k
    <2> QED BY <1>1, SMTT(30)
  <1>4. y <= x + k * 10000 BY <1>1, <1>2, <1>3
  <1> HIDE DEF x, y
  <1>5. y \div 10000 <= (x \div 10000) + k BY <1>1, <1>4
  <1> QED BY <1>5 DEF Bps, x, y

LEMMA ExitNetMonotone ==
    ASSUME NEW v \in Nat, NEW w \in Nat, v <= w
    PROVE  ExitNet(v) <= ExitNet(w)
  <1> DEFINE bps == Cost.commission_bps + Cost.slippage_bps
                    + Cost.fx_bps + Cost.sell_tax_bps
  <1>1. bps \in Nat /\ bps <= 10000 BY CostFields, CostAssumption
  <1> HIDE DEF bps
  <1>2. v - Bps(v, bps) <= w - Bps(w, bps) BY <1>1, NetMonotone
  <1> QED BY <1>2 DEF ExitNet, bps

LEMMA StopLimitFacts ==
    ASSUME NEW s \in Symbols, NEW v \in Nat
    PROVE  /\ StopLimit(s, v) \in Nat
           /\ \A w \in Nat : v <= w => StopLimit(s, v) <= StopLimit(s, w)
  <1>1. Candidate[s].offset_bps \in Nat /\ Candidate[s].offset_bps <= 10000
    BY CandidateFields, PolicyAssumption
  <1>2. 0 - Bps(0, Candidate[s].offset_bps) <= v - Bps(v, Candidate[s].offset_bps)
    BY <1>1, NetMonotone
  <1>3. Bps(0, Candidate[s].offset_bps) = 0 BY <1>1 DEF Bps
  <1>4. Bps(v, Candidate[s].offset_bps) \in Nat
    <2> DEFINE o == Candidate[s].offset_bps
    <2>1. o \in Nat BY <1>1
    <2> HIDE DEF o
    <2> QED BY <2>1, BpsType DEF o
  <1>5. \A w \in Nat : v <= w => StopLimit(s, v) <= StopLimit(s, w)
    BY <1>1, NetMonotone DEF StopLimit
  <1> QED BY <1>2, <1>3, <1>4, <1>5 DEF StopLimit

\* The costs of q shares together are less than a unit per share more than the
\* costs of each.
LEMMA ExitNetOfMany ==
    ASSUME NEW v \in Nat, NEW q \in Nat \ {0}
    PROVE  ExitNet(v) * q - q <= ExitNet(v * q)
  <1> DEFINE bps == Cost.commission_bps + Cost.slippage_bps
                    + Cost.fx_bps + Cost.sell_tax_bps
             x == v * bps
             k == x \div 10000
  <1>1. bps \in Nat BY CostFields
  <1> HIDE DEF bps
  <1>2. x \in Nat /\ k \in Nat BY <1>1
  <1>3. (v * q) * bps = x * q BY <1>1, SMTT(30)
  <1>4. (x * q) \div 10000 <= k * q + q
    <2> HIDE DEF x
    <2>1. x <= k * 10000 + 10000 BY <1>2
    <2> HIDE DEF k
    <2>2. x * q <= (k * 10000 + 10000) * q BY <1>2, <2>1, SMTT(30)
    <2>3. (k * 10000 + 10000) * q = (k * q + q) * 10000 BY <1>2, SMTT(30)
    <2>4. x * q \in Nat /\ k * q + q \in Nat BY <1>2, SMTT(30)
    <2> DEFINE a == x * q
               b == k * q + q
    <2>5. a <= b * 10000 /\ a \in Nat /\ b \in Nat BY <2>2, <2>3, <2>4
    <2> HIDE DEF a, b
    <2>6. a \div 10000 <= b BY <2>5
    <2> QED BY <2>6 DEF a, b
  <1>5. (v - k) * q = v * q - k * q /\ k * q \in Int /\ v * q \in Int BY <1>2, SMTT(30)
  <1>6. ExitNet(v) = v - k /\ ExitNet(v * q) = v * q - ((x * q) \div 10000)
    BY <1>3 DEF ExitNet, Bps, bps
  <1>7. (x * q) \div 10000 \in Int
    <2>1. x * q \in Nat BY <1>2
    <2> QED BY <2>1
  <1> HIDE DEF k, x
  <1> QED BY <1>4, <1>5, <1>6, <1>7

\* The average price of a position that grows, whose cost is at most what was paid.
LEMMA AverageCost ==
    ASSUME NEW ep \in Nat, NEW Q \in Nat, NEW each \in Nat, NEW q \in Nat \ {0},
           NEW avg \in Int, avg = (ep * Q + each * q) \div (Q + q)
    PROVE  /\ ep * Q + each * q \in Nat
           /\ avg \in Nat
           /\ avg * (Q + q) \in Nat
           /\ avg * (Q + q) <= ep * Q + each * q
           /\ (ep * Q + each * q) % (Q + q) = 0 => avg * (Q + q) = ep * Q + each * q
  <1> DEFINE n == Q + q
             paid == ep * Q + each * q
  <1>1. n \in Nat \ {0} OBVIOUS
  <1>2. ep * Q \in Nat /\ each * q \in Nat OBVIOUS
  <1>3. paid \in Nat BY <1>2
  <1>4. avg = paid \div n OBVIOUS
  <1> HIDE DEF n, paid
  <1>5. avg \in Nat BY <1>1, <1>3, <1>4
  <1>6. paid = n * avg + (paid % n) /\ (paid % n) \in Nat BY <1>1, <1>3, <1>4
  <1>7. n * avg = avg * n /\ avg * n \in Nat BY <1>1, <1>5, SMTT(30)
  <1>8. avg * n <= paid /\ ((paid % n) = 0 => avg * n = paid)
    BY <1>3, <1>6, <1>7
  <1> QED BY <1>3, <1>5, <1>7, <1>8 DEF n, paid

\* The risk of what is held after a fill is at most the risk before and that of the
\* shares filled.
LEMMA AverageRisk ==
    ASSUME NEW ep \in Nat, NEW Q \in Nat, NEW each \in Nat, NEW q \in Nat \ {0},
           NEW A \in Nat, each <= A, NEW X \in Int, NEW avg \in Nat,
           avg * (Q + q) <= ep * Q + each * q
    PROVE  (Q + q) * Larger(0, avg - X) <= Q * Larger(0, ep - X) + q * Larger(0, A - X)
  <1> DEFINE r == Larger(0, ep - X)
             a == Larger(0, A - X)
  <1>1. r \in Nat /\ a \in Nat /\ ep - X <= r /\ A - X <= a BY DEF Larger
  <1>2. Q * r \in Nat /\ q * a \in Nat BY <1>1
  <1>3. CASE avg - X <= 0
    <2>1. Larger(0, avg - X) = 0 BY <1>3 DEF Larger
    <2> QED BY <1>2, <2>1
  <1>4. CASE ~(avg - X <= 0)
    <2>1. Larger(0, avg - X) = avg - X BY <1>4 DEF Larger
    <2> HIDE DEF r, a
    <2>2. (Q + q) * (avg - X) = avg * (Q + q) - X * (Q + q)
          /\ avg * (Q + q) \in Int /\ X * (Q + q) \in Int
      BY SMTT(30)
    <2>3. X * (Q + q) = X * Q + X * q /\ X * Q \in Int /\ X * q \in Int BY SMTT(30)
    <2>4. ep * Q - X * Q <= Q * r
      <3>1. Q * (ep - X) <= Q * r BY <1>1, SMTT(30)
      <3>2. Q * (ep - X) = ep * Q - X * Q BY SMTT(30)
      <3> QED BY <3>1, <3>2
    <2>5. each * q - X * q <= q * a
      <3>1. q * (each - X) <= q * a BY <1>1, SMTT(30)
      <3>2. q * (each - X) = each * q - X * q BY SMTT(30)
      <3> QED BY <3>1, <3>2
    <2>6. ep * Q \in Int /\ each * q \in Int OBVIOUS
    <2>7. (Q + q) * (avg - X) <= Q * r + q * a
      BY <1>2, <2>2, <2>3, <2>4, <2>5, <2>6
    <2> QED BY <2>1, <2>7 DEF r, a
  <1> QED BY <1>3, <1>4

\* x is a multiple of n.
Multiple(x, n) == \E k \in Int : x = n * k

LEMMA RemainderMultiple ==
    ASSUME NEW x \in Int, NEW n \in Nat \ {0}
    PROVE  x % n = 0 <=> Multiple(x, n)
  <1>1. ASSUME x % n = 0 PROVE Multiple(x, n)
    <2>1. x = n * (x \div n) + (x % n) /\ (x \div n) \in Int OBVIOUS
    <2>2. x = n * (x \div n) BY <1>1, <2>1
    <2> QED BY <2>1, <2>2 DEF Multiple
  <1>2. ASSUME Multiple(x, n) PROVE x % n = 0
    <2>1. PICK k \in Int : x = n * k BY <1>2 DEF Multiple
    <2>2. x = n * (x \div n) + (x % n) /\ (x \div n) \in Int /\ (x % n) \in 0..(n - 1) OBVIOUS
    <2> DEFINE d == x \div n
               r == x % n
    <2>3. d \in Int /\ r \in 0..(n - 1) /\ n * k = n * d + r BY <2>1, <2>2
    <2> HIDE DEF d, r
    <2>4. r = n * (k - d) BY <2>3, SMTT(30)
    <2>5. k - d = 0
      <3>1. CASE k - d >= 1
        <4>1. n * (k - d) >= n BY <2>3, <3>1, SMTT(30)
        <4> QED BY <2>3, <2>4, <4>1
      <3>2. CASE k - d <= -1
        <4>1. n * (k - d) <= -n BY <2>3, <3>2, SMTT(30)
        <4> QED BY <2>3, <2>4, <4>1
      <3> QED BY <2>3, <3>1, <3>2
    <2> QED BY <2>3, <2>4, <2>5 DEF r
  <1> QED BY <1>1, <1>2

LEMMA SumMultiple ==
    ASSUME NEW n \in Nat \ {0}, NEW x \in Int, NEW y \in Int, Multiple(x, n), Multiple(y, n),
           NEW q \in Int
    PROVE  Multiple(x + y * q, n)
  <1>1. PICK j \in Int : x = n * j BY DEF Multiple
  <1>2. PICK k \in Int : y = n * k BY DEF Multiple
  <1>3. x + y * q = n * (j + k * q) /\ j + k * q \in Int BY <1>1, <1>2, SMTT(30)
  <1> QED BY <1>3 DEF Multiple

\* No average is rounded if the prices are steady, whatever was filled before.
LEMMA EvenFill ==
    ASSUME NEW ep \in Nat, NEW Q \in Nat, NEW each \in Nat, NEW q \in Nat \ {0},
           Multiple((ep - each) * Q, Q + q)
    PROVE  (ep * Q + each * q) % (Q + q) = 0
  <1> DEFINE n == Q + q
             x == ep * Q + each * q
  <1>1. PICK k \in Int : (ep - each) * Q = n * k BY DEF Multiple
  <1>2. n \in Nat \ {0} /\ x \in Int BY SMTT(30)
  <1>3. x = (ep - each) * Q + each * n BY SMTT(30)
  <1>4. each * n = n * each /\ n * k + n * each = n * (k + each) BY <1>2, SMTT(30)
  <1>5. Multiple(x, n)
    <2> HIDE DEF x, n
    <2>1. x = n * (k + each) /\ k + each \in Int BY <1>1, <1>3, <1>4
    <2> QED BY <2>1 DEF Multiple
  <1> HIDE DEF x, n
  <1>6. x % n = 0 BY <1>2, <1>5, RemainderMultiple
  <1> QED BY <1>6 DEF x, n

LEMMA EvenAfter ==
    ASSUME NEW avg \in Nat, NEW ep \in Nat, NEW Q \in Nat, NEW each \in Nat,
           NEW q \in Nat, NEW u \in Nat, NEW n \in Nat \ {0},
           avg * (Q + q) = ep * Q + each * q,
           Multiple((ep - u) * Q, n), Multiple(each - u, n)
    PROVE  Multiple((avg - u) * (Q + q), n)
  <1>1. (avg - u) * (Q + q) = avg * (Q + q) - u * (Q + q)
        /\ avg * (Q + q) \in Int /\ u * (Q + q) \in Int
    BY SMTT(30)
  <1>2. u * (Q + q) = u * Q + u * q /\ u * Q \in Int /\ u * q \in Int BY SMTT(30)
  <1>3. (ep - u) * Q = ep * Q - u * Q /\ ep * Q \in Int BY SMTT(30)
  <1>4. (each - u) * q = each * q - u * q /\ each * q \in Int BY SMTT(30)
  <1>5. (avg - u) * (Q + q) = (ep - u) * Q + (each - u) * q
    BY <1>1, <1>2, <1>3, <1>4
  <1>6. (ep - u) * Q \in Int /\ each - u \in Int BY <1>3
  <1>7. Multiple((ep - u) * Q + (each - u) * q, n) BY <1>6, SumMultiple
  <1> QED BY <1>5, <1>7

----
(***************************************************************************)
(* Resting orders stay funded, the daily limits are kept, no money is lost *)
(* and the risk of a day is contained, for every price, fee, fill and      *)
(* interleaving.  The count of entries moves at the first fill, after the  *)
(* limit was checked: what closes the gap is that an order without a fill  *)
(* still has an entry of the day to take.  Risk is budgeted before a share *)
(* is bought: every share that rests or is held carries a part of the      *)
(* budget with it, which its sale, at whatever bid, cannot exceed.         *)
(***************************************************************************)
\* What holds of the book at every step of every handler.

Funded(b) ==
    /\ b.cash >= 0
    /\ \A s \in Symbols : b.pending[s] # NoOrder
        => Unfilled(b.pending[s]) * AllIn(Candidate[s].limit) <= b.cash

Limited(b) ==
    /\ b.trades_today <= Cost.max_entries
    /\ b.submissions_today <= Cost.max_submissions
    /\ \A s \in Symbols : b.pending[s] # NoOrder /\ b.pending[s].filled = 0
        => b.trades_today < Cost.max_entries

\* An entry never has more shares than the plan allows, and none of them is sold
\* while others still rest.
Sized(b) ==
    \A s \in Symbols :
        /\ b.position[s] # NoPosition => b.position[s].remaining <= Cost.max_quantity
        /\ b.pending[s] # NoOrder => Unfilled(b.pending[s]) <= Cost.max_quantity
        /\ b.pending[s] # NoOrder /\ b.position[s] # NoPosition
            => /\ b.position[s].remaining = b.position[s].quantity
               /\ b.position[s].remaining + Unfilled(b.pending[s]) <= Cost.max_quantity

\* With shares that cost v the money of the book is all there.
Tallies(b, v) ==
    /\ b.cash + v <= Cost.initial_cash + b.realized
    /\ SteadyPrices => b.cash + v = Cost.initial_cash + b.realized

\* At steady prices the next fill does not round the average either: what the shares
\* cost differs from the price of that fill by whole units for each share.
Even(b) ==
    \A s \in Symbols, t \in Ticks, n \in 1..Cost.max_quantity :
        /\ b.pending[s] # NoOrder /\ b.position[s] # NoPosition
        /\ Execution(t.ask) <= Candidate[s].limit
        => Multiple((b.position[s].entry_price - AllIn(Execution(t.ask)))
                        * b.position[s].quantity, n)

Honest(b) ==
    /\ Holding(b) = {} => Tallies(b, 0)
    /\ \A s \in Symbols : b.position[s] # NoPosition
        => Tallies(b, b.position[s].entry_price * b.position[s].remaining)
    /\ SteadyPrices => Even(b)

\* What a share bought at this price may lose, with the unit that rounding may cost.
Grain == IF WholeExits THEN 0 ELSE 1
ShareRisk(s, price) ==
    Larger(0, price - ExitNet(StopLimit(s, Candidate[s].stop))) + Grain

Lost(b) == Larger(0, -b.session_realized)
HeldRisk(b, s) ==
    IF b.position[s] = NoPosition THEN 0
    ELSE b.position[s].remaining * ShareRisk(s, b.position[s].entry_price)
OpenRisk(b, s) ==
    IF b.pending[s] = NoOrder THEN HeldRisk(b, s)
    ELSE Unfilled(b.pending[s]) * ShareRisk(s, AllIn(Candidate[s].limit)) + HeldRisk(b, s)

Limit == DailyBudget + Grain * Cost.max_quantity

\* What is lost and what may still be lost is within the budget of the day.
Contained(b) ==
    NoGaps => /\ Lost(b) <= Limit
              /\ \A s \in Symbols : /\ Lost(b) + HeldRisk(b, s) <= Limit
                                    /\ Lost(b) + OpenRisk(b, s) <= Limit

Within(b) == Funded(b) /\ Limited(b) /\ Sized(b) /\ Honest(b) /\ Contained(b)

\* The fields of a position that say what was paid for how much.
SamePaid(p, q) ==
    /\ p.quantity = q.quantity
    /\ p.remaining = q.remaining
    /\ p.entry_price = q.entry_price

\* c is b with orders withdrawn and positions changed in other things.
Trims(c, b) ==
    /\ c.cash = b.cash
    /\ c.realized = b.realized
    /\ c.session_realized = b.session_realized
    /\ c.trades_today = b.trades_today
    /\ c.submissions_today = b.submissions_today
    /\ \A s \in Symbols : c.pending[s] \in {NoOrder, b.pending[s]}
    /\ \A s \in Symbols :
        /\ c.position[s] = NoPosition <=> b.position[s] = NoPosition
        /\ c.position[s] # NoPosition => SamePaid(c.position[s], b.position[s])

LEMMA TrimsWithin ==
    ASSUME NEW b, NEW c, Within(b), Trims(c, b)
    PROVE  Within(c)
  <1>1. Funded(c) BY DEF Within, Funded, Trims
  <1>2. Limited(c) BY DEF Within, Limited, Trims
  <1>3. Sized(c) BY DEF Within, Sized, Trims, SamePaid
  <1>4. Honest(c)
    <2>1. Holding(c) = Holding(b) BY DEF Holding, Trims
    <2>2. \A v : Tallies(b, v) => Tallies(c, v) BY DEF Tallies, Trims
    <2>3. ASSUME NEW s \in Symbols, c.position[s] # NoPosition
          PROVE  /\ b.position[s] # NoPosition
                 /\ c.position[s].entry_price * c.position[s].remaining
                     = b.position[s].entry_price * b.position[s].remaining
      BY <2>3 DEF Trims, SamePaid
    <2>4. Even(b) => Even(c) BY DEF Even, Trims, SamePaid
    <2> QED BY <2>1, <2>2, <2>3, <2>4 DEF Within, Honest
  <1>5. Contained(c)
    <2>1. Lost(c) = Lost(b) BY DEF Lost, Trims
    <2>2. ASSUME NEW s \in Symbols
          PROVE  /\ HeldRisk(c, s) = HeldRisk(b, s)
                 /\ OpenRisk(c, s) \in {HeldRisk(b, s), OpenRisk(b, s)}
      <3>1. HeldRisk(c, s) = HeldRisk(b, s) BY DEF HeldRisk, Trims, SamePaid
      <3> QED BY <3>1 DEF OpenRisk, Trims
    <2> QED BY <2>1, <2>2 DEF Within, Contained
  <1> QED BY <1>1, <1>2, <1>3, <1>4, <1>5 DEF Within

LEMMA ShareRiskType ==
    ASSUME NEW s \in Symbols, NEW price \in Nat
    PROVE  /\ ShareRisk(s, price) \in Nat
           /\ Grain \in {0, 1}
           /\ ExitNet(StopLimit(s, Candidate[s].stop)) \in Int
  <1>1. Candidate[s].stop \in Nat BY CandidateFields
  <1>2. StopLimit(s, Candidate[s].stop) \in Int BY <1>1, StopLimitType
  <1>3. ExitNet(StopLimit(s, Candidate[s].stop)) \in Int BY <1>2, ExitNetType
  <1>4. Grain \in {0, 1} BY DEF Grain
  <1> QED BY <1>3, <1>4 DEF ShareRisk, Larger

LEMMA RiskType ==
    ASSUME NEW b \in Book, NEW s \in Symbols
    PROVE  HeldRisk(b, s) \in Nat /\ OpenRisk(b, s) \in Int
  <1>1. HeldRisk(b, s) \in Nat
    <2>1. CASE b.position[s] = NoPosition BY <2>1 DEF HeldRisk
    <2>2. CASE b.position[s] # NoPosition
      <3>1. b.position[s].remaining \in Nat /\ b.position[s].entry_price \in Nat
        BY <2>2 DEF Book, Position
      <3>2. ShareRisk(s, b.position[s].entry_price) \in Nat BY <3>1, ShareRiskType
      <3> QED BY <2>2, <3>1, <3>2 DEF HeldRisk
    <2> QED BY <2>1, <2>2
  <1>2. OpenRisk(b, s) \in Int
    <2>1. CASE b.pending[s] = NoOrder BY <1>1, <2>1 DEF OpenRisk
    <2>2. CASE b.pending[s] # NoOrder
      <3>1. b.pending[s] \in Order BY <2>2 DEF Book
      <3>2. Unfilled(b.pending[s]) \in Int BY <3>1 DEF Order, Unfilled
      <3>3. AllIn(Candidate[s].limit) \in Nat BY CandidateFields, AllInType
      <3>4. ShareRisk(s, AllIn(Candidate[s].limit)) \in Nat BY <3>3, ShareRiskType
      <3> QED BY <1>1, <2>2, <3>2, <3>4 DEF OpenRisk
    <2> QED BY <2>1, <2>2
  <1> QED BY <1>1, <1>2

LEMMA LimitType ==
    /\ DailyBudget \in Nat
    /\ Limit \in Nat
    /\ Grain * Cost.max_quantity \in Nat
  <1>1. Cost.initial_cash * Cost.daily_loss_pct \in Nat BY CostFields
  <1>2. DailyBudget \in Nat BY <1>1 DEF DailyBudget
  <1>3. Grain * Cost.max_quantity \in Nat BY CostFields DEF Grain
  <1> QED BY <1>2, <1>3 DEF Limit

\* What Within says of a state does not depend on how its prime is written.
LEMMA WithinPrime == Within(book)' <=> Within(book')
  <1>1. Funded(book)' <=> Funded(book') BY DEF Funded
  <1>2. Limited(book)' <=> Limited(book') BY DEF Limited
  <1>3. Sized(book)' <=> Sized(book') BY DEF Sized
  <1>4. Honest(book)' <=> Honest(book') BY DEF Honest, Tallies, Even, Holding
  <1>5. Contained(book)' <=> Contained(book')
    BY DEF Contained, Lost, HeldRisk, OpenRisk
  <1> QED BY <1>1, <1>2, <1>3, <1>4, <1>5 DEF Within

LEMMA CancelTrims ==
    ASSUME NEW st \in Store, NEW S \in SUBSET Symbols
    PROVE  Trims(Cancel(st, S).book, st.book)
  <1>1. st.book \in Book BY DEF Store
  <1>2. CASE Resting(st.book) \cap S = {} BY <1>2 DEF Cancel, Trims, SamePaid
  <1>3. CASE Resting(st.book) \cap S # {}
    <2> DEFINE left == [s \in Symbols |-> IF s \in Resting(st.book) \cap S THEN NoOrder
                                          ELSE st.book.pending[s]]
    <2>1. Cancel(st, S).book = [st.book EXCEPT !.pending = left]
      BY <1>1, <1>3 DEF Cancel, Save, Withdrawn, Store
    <2>2. \A s \in Symbols : left[s] \in {NoOrder, st.book.pending[s]} OBVIOUS
    <2> HIDE DEF left
    <2> QED BY <1>1, <2>1, <2>2 DEF Trims, SamePaid, Book
  <1> QED BY <1>2, <1>3

LEMMA TouchTrims ==
    ASSUME NEW st \in Store, NEW s \in Symbols, NEW p \in Position,
           st.book.position[s] # NoPosition, SamePaid(p, st.book.position[s])
    PROVE  Trims([st EXCEPT !.book.position[s] = p].book, st.book)
  <1> DEFINE n == [st.book EXCEPT !.position = [@ EXCEPT ![s] = p]]
  <1>1. [st EXCEPT !.book.position[s] = p].book = n BY DEF Store, Book
  <1>2. p # NoPosition BY NoneAssumption
  <1>3. /\ n.position[s] = p
        /\ \A r \in Symbols : r # s => n.position[r] = st.book.position[r]
    BY DEF Store, Book
  <1>4. /\ n.cash = st.book.cash /\ n.realized = st.book.realized
        /\ n.session_realized = st.book.session_realized
        /\ n.trades_today = st.book.trades_today
        /\ n.submissions_today = st.book.submissions_today
        /\ n.pending = st.book.pending
    BY DEF Store, Book
  <1> HIDE DEF n
  <1> QED BY <1>1, <1>2, <1>3, <1>4 DEF Trims, SamePaid

LEMMA CancelWithin ==
    ASSUME NEW C, NEW st, Good(st, C), Within(st.book), NEW S \in SUBSET Symbols
    PROVE  Within(Cancel(st, S).book)
  BY CancelTrims, TrimsWithin DEF Good

LEMMA FreshWithin ==
    ASSUME NEW b \in Book, Within(b)
    PROVE  Within(FreshCounters(b))
  <1> DEFINE f == FreshCounters(b)
  <1>1. /\ f.pending = b.pending /\ f.cash = b.cash
        /\ f.position = b.position /\ f.realized = b.realized
        /\ f.session_realized = 0
        /\ f.trades_today = 0 /\ f.submissions_today = 0
    BY DEF FreshCounters, Book
  <1> HIDE DEF f
  <1>2. Funded(f) BY <1>1 DEF Within, Funded
  <1>3. Limited(f) BY <1>1, CostFields DEF Limited
  <1>4. Sized(f) BY <1>1 DEF Within, Sized
  <1>5. Honest(f) BY <1>1 DEF Within, Honest, Tallies, Even, Holding
  <1>6. Contained(f)
    <2>1. Lost(f) = 0 /\ Lost(b) \in Nat
      <3>1. b.session_realized \in Int BY DEF Book
      <3> QED BY <1>1, <3>1 DEF Lost, Larger
    <2>2. Limit \in Int BY LimitType
    <2>3. ASSUME NEW s \in Symbols
          PROVE  /\ HeldRisk(f, s) = HeldRisk(b, s) /\ OpenRisk(f, s) = OpenRisk(b, s)
                 /\ HeldRisk(b, s) \in Int /\ OpenRisk(b, s) \in Int
      BY <1>1, RiskType DEF HeldRisk, OpenRisk
    <2> QED BY <2>1, <2>2, <2>3 DEF Within, Contained
  <1> QED BY <1>2, <1>3, <1>4, <1>5, <1>6 DEF Within, f

LEMMA EnsureSessionWithin ==
    ASSUME NEW C, NEW st, Good(st, C), Within(st.book), now \in Nat
    PROVE  Within(EnsureSession(st).book)
  <1>1. CASE st.book.session_date = DateOf(now) BY <1>1 DEF EnsureSession
  <1>2. CASE st.book.session_date # DateOf(now)
    <2> DEFINE f == FreshCounters(st.book)
               b == [f EXCEPT !.session_date = DateOf(now)]
               n == [st EXCEPT !.book = b]
    <2>1. st \in Store /\ st.book \in Book BY DEF Good, Store
    <2>2. f \in Book /\ Within(f) BY <2>1, FreshCountersFacts, FreshWithin
    <2> HIDE DEF f
    <2>3. b \in Book /\ Trims(b, f) BY <2>2, DateOfType DEF Book, Trims, SamePaid
    <2>4. Within(b) BY <2>2, <2>3, TrimsWithin
    <2>5. EnsureSession(st) = Save(Cancel(n, Symbols))
      BY <1>2 DEF EnsureSession, f
    <2> HIDE DEF b
    <2>6. n \in Store /\ n.book = b BY <2>1, <2>3 DEF Store
    <2> HIDE DEF n
    <2>7. Within(Cancel(n, Symbols).book) BY <2>4, <2>6, CancelTrims, TrimsWithin
    <2>8. EnsureSession(st) \in Store BY EnsureSessionGood DEF Good
    <2>9. EnsureSession(st).book = Cancel(n, Symbols).book
      BY <2>5, <2>8 DEF Save, Store
    <2> QED BY <2>7, <2>9
  <1> QED BY <1>1, <1>2

----
\* Fills and sales.

\* What q shares cost within the limit leaves enough for the rest of the order.
LEMMA RestFunded ==
    ASSUME NEW cash \in Int, NEW U \in Nat, NEW q \in Nat \ {0}, q <= U,
           NEW each \in Nat \ {0}, NEW A \in Nat, each <= A,
           U * A <= cash, q <= cash \div each
    PROVE  /\ each * q \in Nat
           /\ cash - each * q >= 0
           /\ (U - q) * A <= cash - each * q
  <1>1. each * q \in Nat /\ q * each = each * q OBVIOUS
  <1>2. cash \div each \in Int OBVIOUS
  <1>3. q * each <= (cash \div each) * each BY <1>2, SMTT(30)
  <1>4. (cash \div each) * each <= cash BY SMTT(30)
  <1>5. (cash \div each) * each \in Int BY <1>2
  <1>6. q * each <= q * A BY SMTT(30)
  <1>7. (U - q) * A = U * A - q * A /\ U * A \in Int /\ q * A \in Int BY SMTT(30)
  <1> QED BY <1>1, <1>3, <1>4, <1>5, <1>6, <1>7

\* What is held of s, and what a share of it cost.
Owned(b, s) == IF b.position[s] = NoPosition THEN 0 ELSE b.position[s].quantity
Price(b, s) == IF b.position[s] = NoPosition THEN 0 ELSE b.position[s].entry_price

LEMMA BoughtFacts ==
    ASSUME NEW C, NEW b \in Book, Sound(b, C), Sized(b), NEW s \in Symbols, NEW t \in Tick,
           NEW q \in Nat \ {0}, b.pending[s] # NoOrder, q <= Unfilled(b.pending[s]),
           now \in Nat
    PROVE  LET Q == Owned(b, s)
               ep == Price(b, s)
               each == AllIn(Execution(t.ask))
               paid == ep * Q + each * q
               n == Bought(b, s, t, q)
               p == n.position[s]
           IN  /\ Q \in Nat /\ ep \in Nat /\ paid \in Nat
               /\ Q + Unfilled(b.pending[s]) <= Cost.max_quantity
               /\ b.position[s] # NoPosition => b.position[s].remaining = Q
               /\ p # NoPosition
               /\ p.quantity = Q + q /\ p.remaining = Q + q
               /\ p.entry_price \in Nat
               /\ p.entry_price * (Q + q) \in Nat
               /\ p.entry_price * (Q + q) <= paid
               /\ paid % (Q + q) = 0 => p.entry_price * (Q + q) = paid
               /\ n.realized = b.realized
               /\ n.session_realized = b.session_realized
               /\ \A r \in Symbols : r # s =>
                    /\ b.pending[r] = NoOrder /\ b.position[r] = NoPosition
                    /\ n.position[r] = NoPosition
  <1> DEFINE order == b.pending[s]
             each == AllIn(Execution(t.ask))
             held == IF b.position[s] # NoPosition THEN b.position[s]
                     ELSE OpenPosition(order, s, t)
             Q == Owned(b, s)
             ep == Price(b, s)
             paid == ep * Q + each * q
             avg == AveragePrice(held, each, q)
             p == [held EXCEPT !.quantity = @ + q, !.remaining = @ + q, !.entry_price = avg]
             n == Bought(b, s, t, q)
  <1>1. order \in Order /\ Unfilled(order) \in Nat
    BY DEF Book, Sound, OrdersOpen, Order, Unfilled
  <1>2. held \in Position BY <1>1, OpenPositionType DEF Book
  <1>3. held.quantity = Q /\ held.entry_price = ep /\ held.remaining = Q
    BY DEF OpenPosition, Owned, Price, Sized
  <1>4. Q \in Nat /\ ep \in Nat BY <1>2, <1>3 DEF Position
  <1>5. each \in Nat
    <2>1. t.ask \in Nat BY DEF Tick
    <2> QED BY <2>1, ExecutionType, AllInType
  <1>6. Q + Unfilled(order) <= Cost.max_quantity
    <2>1. CASE b.position[s] = NoPosition BY <1>1, <2>1 DEF Sized, Owned
    <2>2. CASE b.position[s] # NoPosition BY <1>1, <2>2 DEF Sized, Owned
    <2> QED BY <2>1, <2>2
  <1>7. b.position[s] # NoPosition => b.position[s].remaining = Q BY DEF Sized, Owned
  <1> HIDE DEF each, Q, ep, order
  <1>8. /\ paid \in Nat /\ avg \in Nat
        /\ avg * (Q + q) \in Nat /\ avg * (Q + q) <= paid
        /\ paid % (Q + q) = 0 => avg * (Q + q) = paid
    <2>1. avg = paid \div (Q + q) BY <1>3 DEF AveragePrice
    <2> HIDE DEF avg, held
    <2>2. avg = (ep * Q + each * q) \div (Q + q) BY <2>1
    <2>3. /\ ep * Q + each * q \in Nat
          /\ avg \in Nat
          /\ avg * (Q + q) \in Nat
          /\ avg * (Q + q) <= ep * Q + each * q
          /\ (ep * Q + each * q) % (Q + q) = 0
               => avg * (Q + q) = ep * Q + each * q
      <3>1. ep * Q \in Nat /\ each * q \in Nat BY <1>4, <1>5
      <3>2. ep * Q + each * q \in Nat /\ Q + q \in Nat \ {0} BY <1>4, <3>1
      <3>3. avg \in Int BY <2>2, <3>2
      <3> HIDE DEF paid
      <3> DEFINE Rounded(e, o, a, k, x) ==
                   x = (e * o + a * k) \div (o + k)
                     => /\ e * o + a * k \in Nat
                        /\ x \in Nat
                        /\ x * (o + k) \in Nat
                        /\ x * (o + k) <= e * o + a * k
                        /\ (e * o + a * k) % (o + k) = 0
                             => x * (o + k) = e * o + a * k
      <3>4. \A e, o, a \in Nat : \A k \in Nat \ {0} : \A x \in Int : Rounded(e, o, a, k, x)
        BY AverageCost
      <3>5. ep \in Nat /\ Q \in Nat /\ each \in Nat /\ q \in Nat \ {0} BY <1>4, <1>5
      <3> HIDE DEF Rounded
      <3>6. Rounded(ep, Q, each, q, avg) BY <3>3, <3>4, <3>5
      <3> QED BY <2>2, <3>6 DEF Rounded
    <2> QED BY <2>3
  <1>9. n = [b EXCEPT !.cash = @ - each * q, !.position[s] = p,
                  !.trades_today = IF order.filled = 0 THEN @ + 1 ELSE @,
                  !.pending[s] = IF q = Unfilled(order) THEN NoOrder
                                 ELSE [order EXCEPT !.filled = @ + q]]
    BY DEF Bought, each, order
  <1> HIDE DEF avg, held, paid
  <1>10. /\ p.quantity = Q + q /\ p.remaining = Q + q /\ p.entry_price = avg
         /\ p \in Position
    <2> DEFINE p1 == [held EXCEPT !.quantity = Q + q]
               p2 == [p1 EXCEPT !.remaining = Q + q]
               p3 == [p2 EXCEPT !.entry_price = avg]
    <2>1. Q + q \in Nat BY <1>4
    <2>2. p1 \in Position /\ p1.quantity = Q + q /\ p1.remaining = Q
      BY <1>2, <1>3, <2>1 DEF Position
    <2>3. p2 \in Position /\ p2.quantity = Q + q /\ p2.remaining = Q + q
      BY <2>1, <2>2 DEF Position
    <2>4. /\ p3 \in Position /\ p3.quantity = Q + q /\ p3.remaining = Q + q
          /\ p3.entry_price = avg
      BY <1>8, <2>3 DEF Position
    <2>5. p = p3 BY <1>2, <1>3 DEF Position
    <2> QED BY <2>4, <2>5
  <1>11. p # NoPosition BY <1>10, NoneAssumption
  <1> HIDE DEF p, n
  <1>12. /\ n.realized = b.realized /\ n.session_realized = b.session_realized
         /\ n.position[s] = p
         /\ \A r \in Symbols : r # s => n.position[r] = b.position[r]
    BY <1>9 DEF Book
  <1>13. \A r \in Symbols : r # s =>
            /\ b.pending[r] = NoOrder /\ b.position[r] = NoPosition
    BY DEF Sound, OneSymbol
  <1> QED BY <1>4, <1>6, <1>7, <1>8, <1>10, <1>11, <1>12, <1>13
          DEF paid, n, Q, ep, each, order

\* A fill moves risk from the order to the position.
LEMMA ShareRiskAverage ==
    ASSUME NEW s \in Symbols, NEW ep \in Nat, NEW Q \in Nat, NEW each \in Nat,
           NEW q \in Nat \ {0}, NEW A \in Nat, each <= A, NEW avg \in Nat,
           avg * (Q + q) <= ep * Q + each * q
    PROVE  (Q + q) * ShareRisk(s, avg) <= Q * ShareRisk(s, ep) + q * ShareRisk(s, A)
  <1> DEFINE X == ExitNet(StopLimit(s, Candidate[s].stop))
             a == Larger(0, avg - X)
             e == Larger(0, ep - X)
             l == Larger(0, A - X)
  <1>1. X \in Int /\ Grain \in {0, 1} BY ShareRiskType
  <1> HIDE DEF X
  <1>2. a \in Nat /\ e \in Nat /\ l \in Nat BY <1>1 DEF Larger
  <1>3. (Q + q) * a <= Q * e + q * l BY <1>1, AverageRisk
  <1> HIDE DEF a, e, l
  <1>4. /\ (Q + q) * (a + Grain) = (Q + q) * a + (Q * Grain + q * Grain)
        /\ Q * (e + Grain) = Q * e + Q * Grain
        /\ q * (l + Grain) = q * l + q * Grain
    BY <1>1, <1>2, SMTT(30)
  <1>5. /\ (Q + q) * a \in Int /\ Q * e \in Int /\ q * l \in Int
        /\ Q * Grain \in Int /\ q * Grain \in Int
    BY <1>1, <1>2
  <1>6. (Q + q) * (a + Grain) <= Q * (e + Grain) + q * (l + Grain)
    BY <1>3, <1>4, <1>5
  <1> QED BY <1>6 DEF ShareRisk, a, e, l, X

LEMMA RiskMoves ==
    ASSUME NEW U \in Nat, NEW q \in Nat, q <= U, NEW x \in Nat, NEW h \in Nat,
           NEW old \in Nat, h <= old + q * x
    PROVE  /\ h <= U * x + old
           /\ (U - q) * x + h <= U * x + old
  <1>1. q * x <= U * x BY SMTT(30)
  <1>2. (U - q) * x = U * x - q * x BY SMTT(30)
  <1>3. q * x \in Nat /\ U * x \in Nat OBVIOUS
  <1> QED BY <1>1, <1>2, <1>3

LEMMA BoughtHonest ==
    ASSUME NEW C, NEW b \in Book, Sound(b, C), Sized(b), Honest(b),
           NEW s \in Symbols, NEW t \in Ticks,
           NEW q \in Nat \ {0}, b.pending[s] # NoOrder, q <= Unfilled(b.pending[s]),
           Execution(t.ask) <= Candidate[s].limit, now \in Nat,
           Bought(b, s, t, q).cash = b.cash - AllIn(Execution(t.ask)) * q,
           \A r \in Symbols : r # s => Bought(b, s, t, q).pending[r] = NoOrder
    PROVE  Honest(Bought(b, s, t, q))
  <1> DEFINE each == AllIn(Execution(t.ask))
             Q == Owned(b, s)
             ep == Price(b, s)
             paid == ep * Q + each * q
             n == Bought(b, s, t, q)
             p == n.position[s]
             v == p.entry_price * (Q + q)
  <1>1. t \in Tick BY TickAssumption
  <1>2. /\ Q \in Nat /\ ep \in Nat /\ paid \in Nat
        /\ Q + Unfilled(b.pending[s]) <= Cost.max_quantity
        /\ b.position[s] # NoPosition => b.position[s].remaining = Q
        /\ p # NoPosition
        /\ p.quantity = Q + q /\ p.remaining = Q + q
        /\ p.entry_price \in Nat
        /\ v \in Nat /\ v <= paid
        /\ paid % (Q + q) = 0 => v = paid
        /\ n.realized = b.realized
        /\ \A r \in Symbols : r # s =>
                /\ b.pending[r] = NoOrder /\ b.position[r] = NoPosition
                /\ n.position[r] = NoPosition
    BY <1>1, BoughtFacts
  <1>3. \A u \in Ticks : AllIn(Execution(u.ask)) \in Nat
    <2>1. \A u \in Ticks : u.ask \in Nat BY TickAssumption DEF Tick
    <2> QED BY <2>1, ExecutionType, AllInType
  <1>4. each \in Nat /\ each * q \in Nat /\ ep * Q \in Nat BY <1>2, <1>3
  <1>5. b.cash \in Int /\ b.realized \in Int /\ Cost.initial_cash \in Int
    BY CostFields DEF Book
  <1>6. Q + q \in 1..Cost.max_quantity
    <2>1. Unfilled(b.pending[s]) \in Int BY DEF Book, Order, Unfilled
    <2> QED BY <1>2, <2>1, CostFields
  \* What was paid so far is in the book, position or not.
  <1>7. Tallies(b, ep * Q)
    <2>1. CASE b.position[s] = NoPosition
      <3>1. Holding(b) = {} BY <1>2, <2>1 DEF Holding
      <3>2. ep * Q = 0 BY <2>1 DEF Owned, Price
      <3> QED BY <3>1, <3>2 DEF Honest
    <2>2. CASE b.position[s] # NoPosition
      <3>1. ep = b.position[s].entry_price BY <2>2 DEF Price
      <3> QED BY <1>2, <2>2, <3>1 DEF Honest
    <2> QED BY <2>1, <2>2
  <1>8. ASSUME SteadyPrices, NEW u \in Ticks, Execution(u.ask) <= Candidate[s].limit,
               NEW m \in 1..Cost.max_quantity
        PROVE  Multiple((ep - AllIn(Execution(u.ask))) * Q, m)
    <2>1. CASE b.position[s] = NoPosition
      <3>1. Q = 0 BY <2>1 DEF Owned
      <3>2. (ep - AllIn(Execution(u.ask))) * Q = m * 0
        <4> HIDE DEF ep, Q
        <4>1. ep - AllIn(Execution(u.ask)) \in Int BY <1>2, <1>3
        <4> QED BY <3>1, <4>1
      <3> QED BY <3>2 DEF Multiple
    <2>2. CASE b.position[s] # NoPosition
      <3>1. Even(b) BY <1>8 DEF Honest
      <3>2. ep = b.position[s].entry_price /\ Q = b.position[s].quantity
        BY <2>2 DEF Price, Owned
      <3> QED BY <1>8, <2>2, <3>1, <3>2 DEF Even
    <2> QED BY <2>1, <2>2
  <1>9. SteadyPrices => v = paid
    <2> SUFFICES ASSUME SteadyPrices PROVE paid % (Q + q) = 0 BY <1>2
    <2>1. Multiple((ep - each) * Q, Q + q) BY <1>6, <1>8
    <2>2. Q \in Nat /\ ep \in Nat /\ each \in Nat BY <1>2, <1>4
    <2> HIDE DEF Q, ep, each
    <2> QED BY <2>1, <2>2, EvenFill
  <1>10. Even(n) \/ ~SteadyPrices
    <2> SUFFICES ASSUME SteadyPrices, NEW r \in Symbols, NEW u \in Ticks,
                        NEW m \in 1..Cost.max_quantity,
                        n.pending[r] # NoOrder, n.position[r] # NoPosition,
                        Execution(u.ask) <= Candidate[r].limit
                 PROVE  Multiple((n.position[r].entry_price - AllIn(Execution(u.ask)))
                                    * n.position[r].quantity, m)
      BY DEF Even
    <2>1. r = s OBVIOUS
    <2>2. m \in Nat \ {0} BY CostFields
    <2>3. Multiple((ep - AllIn(Execution(u.ask))) * Q, m) BY <1>8, <2>1
    <2>4. Multiple(each - AllIn(Execution(u.ask)), m)
      <3>1. (each - AllIn(Execution(u.ask))) % m = 0 BY <2>1 DEF SteadyPrices
      <3>2. each - AllIn(Execution(u.ask)) \in Int BY <1>3, <1>4
      <3> QED BY <2>2, <3>1, <3>2, RemainderMultiple
    <2> DEFINE w == AllIn(Execution(u.ask))
    <2>5. w \in Nat BY <1>3
    <2>6. v = ep * Q + each * q BY <1>9
    <2> HIDE DEF Q, ep, each, w, n
    <2>7. Multiple((p.entry_price - w) * (Q + q), m)
      BY <1>2, <1>4, <2>2, <2>3, <2>4, <2>5, <2>6, EvenAfter DEF w
    <2> QED BY <1>2, <2>1, <2>7 DEF w
  <1>11. Tallies(n, v)
    <2> HIDE DEF Q, ep, each, n, v
    <2> QED BY <1>2, <1>4, <1>5, <1>7, <1>9 DEF Tallies, n, each
  <1>12. Holding(n) # {} BY <1>2 DEF Holding
  <1> HIDE DEF n
  <1> QED BY <1>2, <1>10, <1>11, <1>12 DEF Honest, n

LEMMA BoughtWithin ==
    ASSUME NEW C, NEW b \in Book, Sound(b, C), Within(b), NEW s \in Symbols, NEW t \in Ticks,
           NEW q \in Nat \ {0}, b.pending[s] # NoOrder, q <= Unfilled(b.pending[s]),
           now \in Nat, q <= b.cash \div AllIn(Execution(t.ask)),
           Execution(t.ask) <= Candidate[s].limit
    PROVE  Within(Bought(b, s, t, q))
  <1> DEFINE order == b.pending[s]
             each == AllIn(Execution(t.ask))
             A == AllIn(Candidate[s].limit)
             U == Unfilled(order)
             o == IF q = U THEN NoOrder ELSE [order EXCEPT !.filled = @ + q]
             n == Bought(b, s, t, q)
  <1>0. t \in Tick BY TickAssumption
  <1>1. order \in Order /\ order.filled \in Nat /\ order.desired \in Nat
        /\ order.filled < order.desired /\ U \in Nat
    BY DEF Book, Sound, OrdersOpen, Order, Unfilled
  <1>2. each \in Nat \ {0} /\ A \in Nat /\ each <= A
    <2>1. t.ask \in Nat /\ t.ask >= 1 BY <1>0 DEF Tick
    <2>2. Candidate[s].limit \in Nat BY CandidateFields
    <2>3. Execution(t.ask) \in Nat /\ Execution(t.ask) >= 1 BY <2>1, ExecutionType
    <2> QED BY <2>2, <2>3, AllInType, AllInMonotone
  <1>3. b.cash \in Int /\ U * A <= b.cash
    BY DEF Book, Within, Funded
  <1> HIDE DEF each, A, U
  <1>4. /\ each * q \in Nat /\ b.cash - each * q >= 0
        /\ (U - q) * A <= b.cash - each * q
    BY <1>1, <1>2, <1>3, RestFunded DEF U, each
  <1>5. /\ n.cash = b.cash - each * q
        /\ n.trades_today = IF order.filled = 0 THEN b.trades_today + 1 ELSE b.trades_today
        /\ n.submissions_today = b.submissions_today
        /\ n.pending = [b.pending EXCEPT ![s] = o]
    BY DEF Bought, Book, each, U
  <1>6. o # NoOrder => /\ Unfilled(o) = U - q
                       /\ o.filled # 0
    BY <1>1 DEF Order, Unfilled, U
  <1>7. \A r \in Symbols : r # s => b.pending[r] = NoOrder
    BY DEF Sound, OneSymbol
  <1>8. /\ n.pending[s] = o
        /\ \A r \in Symbols : r # s => n.pending[r] = NoOrder
    BY <1>5, <1>7 DEF Book
  <1>9. Honest(n)
    BY <1>0, <1>5, <1>8, BoughtHonest DEF Within, each
  <1> DEFINE Q == Owned(b, s)
             ep == Price(b, s)
             p == n.position[s]
  <1>10. /\ Q \in Nat /\ ep \in Nat
         /\ Q + U <= Cost.max_quantity
         /\ b.position[s] # NoPosition => b.position[s].remaining = Q
         /\ p # NoPosition
         /\ p.quantity = Q + q /\ p.remaining = Q + q
         /\ p.entry_price \in Nat
         /\ p.entry_price * (Q + q) <= ep * Q + each * q
         /\ n.session_realized = b.session_realized
         /\ \A r \in Symbols : r # s =>
                /\ b.position[r] = NoPosition /\ n.position[r] = NoPosition
    BY <1>0, BoughtFacts DEF Within, U, each
  <1> HIDE DEF o, n
  <1>11. Funded(n)
    <2>1. ASSUME NEW r \in Symbols, n.pending[r] # NoOrder
          PROVE  Unfilled(n.pending[r]) * AllIn(Candidate[r].limit) <= n.cash
      <3>1. r = s /\ o # NoOrder BY <1>8, <2>1
      <3>2. Unfilled(n.pending[r]) = U - q BY <1>6, <1>8, <3>1
      <3> QED BY <1>4, <1>5, <3>1, <3>2 DEF A
    <2> QED BY <1>4, <1>5, <2>1 DEF Funded
  <1>12. Limited(n)
    <2>1. order.filled = 0 => b.trades_today < Cost.max_entries
      BY DEF Within, Limited
    <2>2. n.trades_today <= Cost.max_entries
      BY <1>5, <2>1, CostFields DEF Within, Limited, Book
    <2>3. n.submissions_today <= Cost.max_submissions
      BY <1>5 DEF Within, Limited
    <2>4. \A r \in Symbols : n.pending[r] # NoOrder => n.pending[r].filled # 0
      BY <1>6, <1>8
    <2> QED BY <2>2, <2>3, <2>4 DEF Limited
  <1>13. Sized(n)
    BY <1>1, <1>6, <1>8, <1>10, CostFields DEF Sized, U
  <1>14. Contained(n)
    <2> DEFINE x == ShareRisk(s, A)
               h == (Q + q) * ShareRisk(s, p.entry_price)
               old == Q * ShareRisk(s, ep)
    <2>1. x \in Nat /\ h \in Nat /\ old \in Nat
      BY <1>2, <1>10, ShareRiskType
    <2>2. h <= old + q * x
      <3> HIDE DEF Q, ep
      <3> QED BY <1>2, <1>10, ShareRiskAverage
    <2>3. HeldRisk(b, s) = old
      <3>1. CASE b.position[s] = NoPosition
        <4>1. Q = 0 BY <3>1 DEF Owned
        <4>2. ShareRisk(s, ep) \in Nat BY <1>10, ShareRiskType
        <4> QED BY <3>1, <4>1, <4>2 DEF HeldRisk
      <3>2. CASE b.position[s] # NoPosition
        BY <1>10, <3>2 DEF HeldRisk, Price
      <3> QED BY <3>1, <3>2
    <2>4. HeldRisk(n, s) = h BY <1>10 DEF HeldRisk
    <2> HIDE DEF x, h, old
    <2>5. h <= U * x + old /\ (U - q) * x + h <= U * x + old
      BY <1>1, <2>1, <2>2, RiskMoves DEF U
    <2>6. OpenRisk(b, s) = U * x + old BY <2>3 DEF OpenRisk, U, x, A
    <2>7. OpenRisk(n, s) \in {h, (U - q) * x + h}
      <3>1. CASE o = NoOrder BY <1>8, <2>4, <3>1 DEF OpenRisk
      <3>2. CASE o # NoOrder BY <1>6, <1>8, <2>4, <3>2 DEF OpenRisk, x, A
      <3> QED BY <3>1, <3>2
    <2>8. Lost(n) = Lost(b) /\ Lost(b) \in Int
      <3>1. b.session_realized \in Int BY DEF Book
      <3> QED BY <1>10, <3>1 DEF Lost, Larger
    <2>9. ASSUME NEW r \in Symbols, r # s
          PROVE  HeldRisk(n, r) = HeldRisk(b, r) /\ OpenRisk(n, r) = OpenRisk(b, r)
      BY <1>7, <1>8, <1>10, <2>9 DEF HeldRisk, OpenRisk
    <2>10. Limit \in Int BY LimitType
    <2>11. U * x + old \in Int /\ (U - q) * x + h \in Int
      BY <1>1, <2>1 DEF U
    <2> QED BY <2>1, <2>4, <2>5, <2>6, <2>7, <2>8, <2>9, <2>10, <2>11 DEF Within, Contained
  <1> QED BY <1>9, <1>11, <1>12, <1>13, <1>14 DEF Within, n

LEMMA ProcessPendingWithin ==
    ASSUME NEW C, NEW st, Good(st, C), Within(st.book), NEW s \in Symbols, NEW t \in Ticks,
           now \in Nat
    PROVE  Within(ProcessPending(st, s, t).book)
  <1>0. t \in Tick BY TickAssumption
  <1>1. Within(Cancel(st, {s}).book) BY CancelWithin
  <1>2. ASSUME st.book.pending[s] # NoOrder, Execution(t.ask) <= Candidate[s].limit
        PROVE  Within(ApplyEntryFill(st, s, t, Visible(t)).book)
    <2> DEFINE r == ApplyEntryFill(st, s, t, Visible(t))
    <2>1. /\ st \in Store /\ st.book \in Book /\ OrdersOpen(st.book) /\ Sound(st.book, C)
          /\ Visible(t) \in Nat
      BY <1>0, VisibleType DEF Good, Store, Sound
    <2>2. CASE r = st BY <2>2
    <2>3. ASSUME NEW q \in Nat \ {0},
                 q <= Unfilled(st.book.pending[s]),
                 q <= st.book.cash \div AllIn(Execution(t.ask)),
                 r = Save([st EXCEPT !.book = Bought(st.book, s, t, q)])
          PROVE  Within(r.book)
      <3>1. r.book = Bought(st.book, s, t, q)
        BY <2>1, <2>3 DEF Save, Store
      <3>2. Within(Bought(st.book, s, t, q))
        BY <1>2, <2>1, <2>3, BoughtWithin
      <3> QED BY <3>1, <3>2
    <2> HIDE DEF r
    <2>4. \/ r = st
          \/ \E q \in Nat \ {0} :
                /\ q <= Unfilled(st.book.pending[s])
                /\ q <= st.book.cash \div AllIn(Execution(t.ask))
                /\ r = Save([st EXCEPT !.book = Bought(st.book, s, t, q)])
      BY <1>0, <1>2, <2>1, FillCases DEF r
    <2> QED BY <2>2, <2>3, <2>4 DEF r
  <1> QED BY <1>1, <1>2 DEF ProcessPending, Reaches

\* A sale loses at most what its shares had at risk: no bid is below the stop limit.
LEMMA SaleRisk ==
    ASSUME NoGaps, NEW s \in Symbols, NEW t \in Ticks, NEW q \in 1..Cost.max_quantity,
           NEW ep \in Nat
    PROVE  /\ ep * q - ExitNet(t.bid * q) <= q * ShareRisk(s, ep)
           /\ ExitNet(t.bid * q) \in Int
  <1> DEFINE X == ExitNet(StopLimit(s, Candidate[s].stop))
             each == ExitNet(t.bid)
             net == ExitNet(t.bid * q)
             x == Larger(0, ep - X)
  <1>1. q \in Nat \ {0} BY CostFields
  <1>2. t.bid \in Nat BY TickAssumption DEF Tick
  <1>3. Candidate[s].stop \in Nat BY CandidateFields
  <1>4. StopLimit(s, Candidate[s].stop) \in Nat BY <1>3, StopLimitFacts
  <1>5. X <= each BY <1>2, <1>4, ExitNetMonotone DEF NoGaps
  <1>6. X \in Int /\ each \in Int /\ Grain \in {0, 1} BY <1>2, ExitNetType, ShareRiskType
  <1>7. net \in Int
    <2>1. t.bid * q \in Int BY <1>1, <1>2
    <2> HIDE DEF net
    <2> QED BY <2>1, ExitNetType DEF net
  <1>8. each * q - q * Grain <= net
    <2>1. CASE WholeExits
      <3>1. net = each * q BY <2>1 DEF WholeExits
      <3>2. q * Grain = 0 BY <1>1, <2>1 DEF Grain
      <3> HIDE DEF net, each
      <3> QED BY <1>7, <3>1, <3>2
    <2>2. CASE ~WholeExits
      <3>1. each * q - q <= net BY <1>1, <1>2, ExitNetOfMany
      <3>2. q * Grain = q BY <1>1, <2>2 DEF Grain
      <3> HIDE DEF net, each
      <3> QED BY <3>1, <3>2
    <2> QED BY <2>1, <2>2
  <1> HIDE DEF X, each, net
  <1>9. x \in Nat /\ ep - each <= x BY <1>5, <1>6 DEF Larger
  <1> HIDE DEF x
  <1>10. (ep - each) * q <= x * q BY <1>1, <1>6, <1>9, SMTT(30)
  <1>11. /\ (ep - each) * q = ep * q - each * q
         /\ q * (x + Grain) = x * q + q * Grain
    BY <1>1, <1>6, <1>9, SMTT(30)
  <1>12. /\ ep * q \in Int /\ each * q \in Int /\ x * q \in Int /\ q * Grain \in Int
    BY <1>1, <1>6, <1>9
  <1>13. ep * q - net <= q * (x + Grain)
    BY <1>7, <1>8, <1>10, <1>11, <1>12
  <1> QED BY <1>7, <1>13 DEF ShareRisk, x, X, net

\* What a sale of q shares changes.
LEMMA SoldFacts ==
    ASSUME NEW b \in Book, NEW s \in Symbols, b.position[s] # NoPosition, NEW t, NEW reason,
           NEW q \in Nat \ {0}, q <= b.position[s].remaining
    PROVE  LET p == b.position[s]
               net == ExitNet(t.bid * q)
               n == Sold(b, s, q, t, reason)
           IN  /\ n.cash = b.cash + net
               /\ n.realized = b.realized + (net - p.entry_price * q)
               /\ n.session_realized = b.session_realized + (net - p.entry_price * q)
               /\ n.pending = b.pending
               /\ n.trades_today = b.trades_today
               /\ n.submissions_today = b.submissions_today
               /\ n.position[s] = NoPosition <=> p.remaining = q
               /\ n.position[s] # NoPosition =>
                    /\ n.position[s].quantity = p.quantity
                    /\ n.position[s].remaining = p.remaining - q
                    /\ n.position[s].entry_price = p.entry_price
               /\ \A r \in Symbols : r # s => n.position[r] = b.position[r]
  <1> DEFINE p == b.position[s]
             net == ExitNet(t.bid * q)
             n == Sold(b, s, q, t, reason)
             left == IF p.remaining = q THEN NoPosition ELSE [p EXCEPT !.remaining = @ - q]
  <1>1. p \in Position /\ p.remaining \in Nat BY DEF Book, Position
  <1>2. p.remaining # q => left \in Position
    <2>1. p.remaining - q \in Nat BY <1>1
    <2> QED BY <1>1, <2>1 DEF Position
  <1>3. left = NoPosition <=> p.remaining = q BY <1>2, NoneAssumption
  <1>4. left # NoPosition => /\ left.quantity = p.quantity
                             /\ left.remaining = p.remaining - q
                             /\ left.entry_price = p.entry_price
    BY <1>1 DEF Position
  <1>5. n = [b EXCEPT !.cash = @ + net,
                  !.realized = @ + (net - p.entry_price * q),
                  !.session_realized = @ + (net - p.entry_price * q),
                  !.position[s] = left,
                  !.consecutive_stops = IF p.remaining = q /\ reason = "STOP_LOSS" THEN @ + 1
                                        ELSE IF p.remaining = q
                                                /\ net - p.entry_price * q > 0
                                             THEN 0 ELSE @,
                  !.cooldown_until = IF p.remaining = q /\ reason = "STOP_LOSS"
                                     THEN now + Cost.stop_cooldown ELSE @]
    BY DEF Sold
  <1> HIDE DEF net, left, n
  <1>6. /\ n.cash = b.cash + net
        /\ n.realized = b.realized + (net - p.entry_price * q)
        /\ n.session_realized = b.session_realized + (net - p.entry_price * q)
        /\ n.pending = b.pending
        /\ n.trades_today = b.trades_today
        /\ n.submissions_today = b.submissions_today
        /\ n.position = [b.position EXCEPT ![s] = left]
    BY <1>5 DEF Book
  <1>7. n.position[s] = left /\ \A r \in Symbols : r # s => n.position[r] = b.position[r]
    BY <1>6 DEF Book
  <1> QED BY <1>3, <1>4, <1>6, <1>7 DEF net, n

\* A sale brings in cash and leaves orders and counts alone; with shares resting it
\* is of everything held.
LEMMA SoldWithin ==
    ASSUME NEW C, NEW b \in Book, Sound(b, C), Within(b), NEW s \in Symbols,
           NEW t \in Ticks, b.position[s] # NoPosition, NEW reason,
           NEW q \in Nat \ {0}, q <= b.position[s].remaining,
           b.pending[s] = NoOrder \/ q = b.position[s].remaining
    PROVE  Within(Sold(b, s, q, t, reason))
  <1> DEFINE p == b.position[s]
             ep == p.entry_price
             R == p.remaining
             net == ExitNet(t.bid * q)
             n == Sold(b, s, q, t, reason)
  <1>1. /\ n.cash = b.cash + net
        /\ n.realized = b.realized + (net - ep * q)
        /\ n.session_realized = b.session_realized + (net - ep * q)
        /\ n.pending = b.pending
        /\ n.trades_today = b.trades_today
        /\ n.submissions_today = b.submissions_today
        /\ n.position[s] = NoPosition <=> R = q
        /\ n.position[s] # NoPosition => /\ n.position[s].quantity = p.quantity
                                         /\ n.position[s].remaining = R - q
                                         /\ n.position[s].entry_price = ep
        /\ \A r \in Symbols : r # s => n.position[r] = b.position[r]
    BY SoldFacts
  <1>2. /\ ep \in Nat /\ R \in Nat /\ q <= R /\ R <= Cost.max_quantity
        /\ b.cash \in Int /\ b.realized \in Int /\ b.session_realized \in Int
        /\ ep * q \in Nat /\ ep * R \in Nat
    <2>1. p \in Position BY DEF Book
    <2>2. ep \in Nat /\ R \in Nat BY <2>1 DEF Position
    <2>3. ep * q \in Nat /\ ep * R \in Nat BY <2>2
    <2>4. R <= Cost.max_quantity BY DEF Within, Sized
    <2>5. b.cash \in Int /\ b.realized \in Int /\ b.session_realized \in Int BY DEF Book
    <2> QED BY <2>2, <2>3, <2>4, <2>5
  <1>3. net \in Int /\ net >= 0
    <2>1. t.bid \in Nat BY TickAssumption DEF Tick
    <2>2. t.bid * q \in Nat BY <2>1
    <2> HIDE DEF net
    <2> QED BY <2>2, ExitNetType, ExitNetNonNegative DEF net
  <1>4. \A r \in Symbols : r # s =>
            /\ b.pending[r] = NoOrder /\ b.position[r] = NoPosition
    BY DEF Sound, OneSymbol
  <1> HIDE DEF n, net
  <1>5. Funded(n)
    <2>1. n.cash >= b.cash /\ n.cash \in Int /\ n.cash >= 0
      BY <1>1, <1>2, <1>3 DEF Within, Funded
    <2>2. ASSUME NEW x \in Symbols, n.pending[x] # NoOrder
          PROVE  Unfilled(n.pending[x]) * AllIn(Candidate[x].limit) <= n.cash
      <3>1. b.pending[x] \in Order /\ b.pending[x] # NoOrder BY <1>1, <2>2 DEF Book
      <3>2. Unfilled(b.pending[x]) \in Int BY <3>1 DEF Order, Unfilled
      <3>3. AllIn(Candidate[x].limit) \in Nat BY CandidateFields, AllInType
      <3>4. Unfilled(b.pending[x]) * AllIn(Candidate[x].limit) \in Int BY <3>2, <3>3
      <3>5. Unfilled(b.pending[x]) * AllIn(Candidate[x].limit) <= b.cash
        BY <3>1 DEF Within, Funded
      <3> QED BY <1>1, <1>2, <2>1, <3>4, <3>5
    <2> QED BY <2>1, <2>2 DEF Funded
  <1>6. Limited(n) BY <1>1 DEF Within, Limited
  <1>7. Sized(n)
    <2>1. b.pending[s] # NoOrder => R = q OBVIOUS
    <2> QED BY <1>1, <1>2, <1>4, <2>1, CostFields DEF Within, Sized
  <1>8. Honest(n)
    <2>1. Tallies(b, ep * R) BY DEF Within, Honest
    <2>2. ASSUME NEW v \in Int, v = ep * R - ep * q PROVE Tallies(n, v)
      <3> DEFINE c == ep * q
                 d == ep * R
      <3>1. c \in Int /\ d \in Int /\ v = d - c BY <1>2, <2>2
      <3>2. n.cash = b.cash + net /\ n.realized = b.realized + (net - c) BY <1>1
      <3>3. Tallies(b, d) BY <2>1
      <3>4. b.cash \in Int /\ b.realized \in Int /\ Cost.initial_cash \in Int
        BY <1>2, CostFields
      <3> HIDE DEF c, d, ep, R
      <3>5. /\ n.cash + v = (b.cash + d) + (net - c)
            /\ Cost.initial_cash + n.realized
                 = (Cost.initial_cash + b.realized) + (net - c)
        BY <1>3, <3>1, <3>2, <3>4
      <3>6. /\ b.cash + d <= Cost.initial_cash + b.realized
            /\ SteadyPrices => b.cash + d = Cost.initial_cash + b.realized
        BY <3>3 DEF Tallies
      <3>7. /\ n.cash + v <= Cost.initial_cash + n.realized
            /\ SteadyPrices => n.cash + v = Cost.initial_cash + n.realized
        BY <1>3, <3>1, <3>4, <3>5, <3>6
      <3> QED BY <3>7 DEF Tallies
    <2>3. CASE R = q
      <3>1. Holding(n) = {} BY <1>1, <1>4, <2>3 DEF Holding
      <3>2. 0 = ep * R - ep * q BY <1>2, <2>3
      <3>3. Tallies(n, 0) BY <2>2, <3>2
      <3>4. Even(n) BY <3>1 DEF Even, Holding
      <3> QED BY <3>1, <3>3, <3>4 DEF Honest, Holding
    <2>4. CASE R # q
      <3>1. Holding(n) # {} BY <1>1, <2>4 DEF Holding
      <3>2. ep * (R - q) = ep * R - ep * q /\ ep * (R - q) \in Int
        BY <1>2, SMTT(30)
      <3>3. Tallies(n, ep * (R - q)) BY <2>2, <3>2
      <3>4. Even(n) BY <1>1, <1>4, <2>4 DEF Even
      <3> QED BY <1>1, <1>4, <2>4, <3>1, <3>3, <3>4 DEF Honest
    <2> QED BY <2>3, <2>4
  <1>9. Contained(n)
    <2> SUFFICES ASSUME NoGaps
                 PROVE  /\ Lost(n) <= Limit
                        /\ \A r \in Symbols : /\ Lost(n) + HeldRisk(n, r) <= Limit
                                              /\ Lost(n) + OpenRisk(n, r) <= Limit
      BY DEF Contained
    <2> DEFINE x == ShareRisk(s, ep)
    <2>1. x \in Nat BY <1>2, ShareRiskType
    <2>2. ep * q - net <= q * x
      <3>1. q \in 1..Cost.max_quantity BY <1>2, CostFields
      <3> QED BY <1>2, <3>1, SaleRisk DEF net
    <2> HIDE DEF x
    <2>3. q * x \in Nat /\ (R - q) * x = R * x - q * x /\ R * x \in Nat
          /\ (R - q) * x \in Nat
      <3>1. R - q \in Nat BY <1>2
      <3> QED BY <1>2, <2>1, <3>1, SMTT(30)
    <2>4. Lost(n) <= Lost(b) + q * x /\ Lost(n) \in Nat /\ Lost(b) \in Nat
      BY <1>1, <1>2, <1>3, <2>2, <2>3 DEF Lost, Larger
    <2>5. HeldRisk(b, s) = R * x BY DEF HeldRisk, x
    <2>6. HeldRisk(n, s) = R * x - q * x
      BY <1>1, <1>2, <2>3 DEF HeldRisk, x
    <2>7. Limit \in Nat BY LimitType
    <2>8. Lost(b) + R * x <= Limit BY <2>5 DEF Within, Contained
    <2>9. Lost(n) + HeldRisk(n, s) <= Limit
      BY <2>3, <2>4, <2>6, <2>7, <2>8
    <2>10. Lost(n) + OpenRisk(n, s) <= Limit
      <3>1. CASE b.pending[s] = NoOrder BY <1>1, <2>9, <3>1 DEF OpenRisk
      <3>2. CASE b.pending[s] # NoOrder
        <4> DEFINE u == Unfilled(b.pending[s]) * ShareRisk(s, AllIn(Candidate[s].limit))
        <4>1. OpenRisk(b, s) = u + R * x /\ OpenRisk(n, s) = u + (R * x - q * x)
          BY <1>1, <2>5, <2>6, <3>2 DEF OpenRisk
        <4>2. u \in Int
          <5>1. b.pending[s] \in Order BY <3>2 DEF Book
          <5>2. Unfilled(b.pending[s]) \in Int BY <5>1 DEF Order, Unfilled
          <5>3. AllIn(Candidate[s].limit) \in Nat BY CandidateFields, AllInType
          <5>4. ShareRisk(s, AllIn(Candidate[s].limit)) \in Nat BY <5>3, ShareRiskType
          <5> QED BY <5>2, <5>4
        <4> HIDE DEF u
        <4>3. Lost(b) + OpenRisk(b, s) <= Limit BY DEF Within, Contained
        <4> QED BY <2>3, <2>4, <2>7, <4>1, <4>2, <4>3
      <3> QED BY <3>1, <3>2
    <2>11. Lost(n) <= Limit BY <2>3, <2>4, <2>6, <2>7, <2>9
    <2>12. ASSUME NEW r \in Symbols, r # s
           PROVE  HeldRisk(n, r) = 0 /\ OpenRisk(n, r) = 0
      BY <1>1, <1>4, <2>12 DEF HeldRisk, OpenRisk
    <2> QED BY <2>4, <2>7, <2>9, <2>10, <2>11, <2>12
  <1> QED BY <1>5, <1>6, <1>7, <1>8, <1>9 DEF Within, n

LEMMA CloseQuantityWithin ==
    ASSUME NEW C, NEW st, Good(st, C), Within(st.book), NEW s \in Symbols, NEW t \in Ticks,
           NEW quantity \in Int, st.book.position[s] # NoPosition, NEW reason, now \in Nat,
           st.book.pending[s] = NoOrder \/ quantity = st.book.position[s].remaining
    PROVE  Within(CloseQuantity(st, s, quantity, t, reason).book)
  <1> DEFINE p == st.book.position[s]
             q == Smaller(quantity, p.remaining)
             b == st.book
             n == Sold(b, s, q, t, reason)
             r == CloseQuantity(st, s, quantity, t, reason)
  <1>1. st \in Store /\ b \in Book /\ Sound(b, C) BY DEF Good, Store
  <1>2. p.remaining \in Nat BY <1>1 DEF Book, Position
  <1>3. /\ q \in Int /\ q <= p.remaining
        /\ b.pending[s] = NoOrder \/ q = p.remaining
    BY <1>2 DEF Smaller
  <1>4. CASE q <= 0 BY <1>4 DEF CloseQuantity
  <1>5. CASE ~(q <= 0)
    <2>1. r = Save([st EXCEPT !.book = n, !.intents[<<p.plan, s>>].sold = @ + q])
      BY <1>5 DEF CloseQuantity
    <2>2. q \in Nat \ {0} BY <1>3, <1>5
    <2> HIDE DEF q
    <2>3. Within(n) BY <1>1, <1>3, <2>2, SoldWithin
    <2> HIDE DEF n
    <2>4. r.book = n BY <1>1, <2>1 DEF Save, Store
    <2> QED BY <2>3, <2>4
  <1> QED BY <1>4, <1>5

LEMMA CloseAllWithin ==
    ASSUME NEW C, NEW st, Good(st, C), Within(st.book), NEW s \in Symbols, NEW t \in Ticks,
           st.book.position[s] # NoPosition, NEW reason, now \in Nat
    PROVE  Within(CloseAll(st, s, t, reason).book)
  <1>1. st.book.position[s] \in Position BY DEF Good, Store, Book
  <1>2. st.book.position[s].remaining \in Int BY <1>1 DEF Position
  <1> QED BY <1>2, CloseQuantityWithin DEF CloseAll

----
\* The handlers.

LEMMA BeginExitWithin ==
    ASSUME NEW C, NEW st, Good(st, C), Within(st.book), NEW s \in Symbols,
           st.book.position[s] # NoPosition, now \in Nat
    PROVE  Within(BeginExit(st, s).book)
  <1> DEFINE p == [st.book.position[s] EXCEPT !.exit_pending_at = now]
             n == [st EXCEPT !.book.position[s] = p]
  <1>1. CASE st.book.position[s].exit_pending_at # None BY <1>1 DEF BeginExit
  <1>2. CASE st.book.position[s].exit_pending_at = None
    <2>1. st \in Store /\ st.book \in Book /\ st.book.position[s] \in Position
      BY DEF Good, Store, Book
    <2>2. p \in Position /\ SamePaid(p, st.book.position[s])
      BY <2>1 DEF Position, SamePaid
    <2>3. BeginExit(st, s) = Cancel(n, {s})
      BY <1>2, <2>1 DEF BeginExit, Store, Book
    <2> HIDE DEF p
    <2>4. n \in Store /\ Within(n.book)
      <3>1. Within(n.book) BY <2>1, <2>2, TouchTrims, TrimsWithin
      <3> DEFINE b == [st.book EXCEPT !.position = [@ EXCEPT ![s] = p]]
      <3>2. b \in Book BY <2>1, <2>2 DEF Book
      <3>3. n = [st EXCEPT !.book = b] BY <2>1 DEF Store, Book
      <3> HIDE DEF b
      <3>4. n \in Store BY <2>1, <3>2, <3>3 DEF Store
      <3> QED BY <3>1, <3>4
    <2> HIDE DEF n
    <2>5. {s} \in SUBSET Symbols OBVIOUS
    <2>6. Trims(Cancel(n, {s}).book, n.book) BY <2>4, <2>5, CancelTrims
    <2> QED BY <2>3, <2>4, <2>6, TrimsWithin
  <1> QED BY <1>1, <1>2

\* Up to the exits, a tick fills or withdraws the order and touches the position.
LEMMA WatchedWithin ==
    ASSUME NEW C, Good(Current, C), Within(book), now \in Nat,
           NEW s \in Symbols, NEW t \in Ticks
    PROVE  /\ Within(Filled(s, t).book)
           /\ Live(s, t) => Within(Marked(s, t).book) /\ Within(Watched(s, t).book)
  <1> DEFINE f == Filled(s, t)
             m == Marked(s, t)
             w == Watched(s, t)
  <1>1. /\ t \in Tick /\ Good(f, C)
        /\ Live(s, t) => /\ Good(m, C) /\ m.book.position[s] # NoPosition
                         /\ f.book.position[s] # NoPosition
    BY LiveFacts DEF Live
  <1>2. Within(f.book)
    BY <1>1, ProcessPendingWithin DEF Filled, Current
  <1>3. ASSUME Live(s, t) PROVE Within(m.book)
    <2> DEFINE high == Larger(f.book.position[s].highest, t.bid)
               p == [f.book.position[s] EXCEPT !.highest = high]
    <2>1. f \in Store /\ f.book.position[s] \in Position
      BY <1>1, <1>3 DEF Good, Store, Book
    <2>2. m = [f EXCEPT !.book.position[s] = p]
      BY <2>1 DEF Marked, Store, Book
    <2>3. high \in Nat BY <1>1, <2>1 DEF Larger, Position, Tick
    <2> HIDE DEF f, m, high
    <2>4. p \in Position /\ SamePaid(p, f.book.position[s])
      BY <2>1, <2>3 DEF Position, SamePaid
    <2> HIDE DEF p
    <2>5. f.book.position[s] # NoPosition BY <1>1, <1>3
    <2>6. Trims([f EXCEPT !.book.position[s] = p].book, f.book)
      BY <2>1, <2>4, <2>5, TouchTrims
    <2> QED BY <1>2, <2>2, <2>6, TrimsWithin
  <1>4. ASSUME Live(s, t) PROVE Within(w.book)
    <2>1. m \in Store /\ m.book.position[s] \in Position /\ m.book.position[s] # NoPosition
      BY <1>1, <1>4 DEF Good, Store, Book
    <2>2. Within(m.book) BY <1>3, <1>4
    <2> DEFINE since == IF t.vwap = "above" THEN None
                        ELSE IF m.book.position[s].below_vwap_since = None THEN now
                        ELSE m.book.position[s].below_vwap_since
               p == [m.book.position[s] EXCEPT !.below_vwap_since = since]
    <2>3. w = m \/ w = [m EXCEPT !.book.position[s] = p]
      <3> HIDE DEF m
      <3>1. \/ w = m
            \/ w = [m EXCEPT !.book.position[s].below_vwap_since =
                        IF t.vwap = "above" THEN None ELSE IF @ = None THEN now ELSE @]
        BY DEF Watched, m
      <3>2. [m EXCEPT !.book.position[s].below_vwap_since =
                        IF t.vwap = "above" THEN None ELSE IF @ = None THEN now ELSE @]
              = [m EXCEPT !.book.position[s] = p]
        BY <2>1 DEF Store, Book
      <3> QED BY <3>1, <3>2
    <2> HIDE DEF m, w
    <2>4. since \in Nat \cup {None} BY <2>1 DEF Position
    <2> HIDE DEF since
    <2>5. p \in Position /\ SamePaid(p, m.book.position[s])
      BY <2>1, <2>4 DEF Position, SamePaid
    <2> HIDE DEF p
    <2>6. Trims([m EXCEPT !.book.position[s] = p].book, m.book)
      BY <2>1, <2>5, TouchTrims
    <2> QED BY <2>2, <2>3, <2>6, TrimsWithin
  <1> QED BY <1>2, <1>3, <1>4

LEMMA MarkTargetWithin ==
    ASSUME NEW C, NEW st, Good(st, C), Within(st.book), NEW s \in Symbols,
           NEW i \in {1, 2, 3}, st.book.position[s] # NoPosition
    PROVE  /\ Within(MarkTarget(st, s, i).book)
           /\ MarkTarget(st, s, i).book.pending[s] = NoOrder
  <1> DEFINE c == Cancel(st, {s})
             p == [c.book.position[s] EXCEPT !.filled_targets = @ \cup {i}]
  <1>1. /\ Good(c, C) /\ Within(c.book)
        /\ c.book = [st.book EXCEPT !.pending =
             [x \in Symbols |-> IF x \in {s} THEN NoOrder ELSE st.book.pending[x]]]
    BY CancelGood, CancelWithin
  <1>2. st.book \in Book BY DEF Good, Store
  <1>3. c.book.position[s] = st.book.position[s] /\ c.book.pending[s] = NoOrder
    BY <1>1, <1>2 DEF Book
  <1>4. c \in Store /\ c.book.position[s] \in Position
    BY <1>1, <1>3 DEF Good, Store, Book
  <1> HIDE DEF c
  <1>5. MarkTarget(st, s, i) = [c EXCEPT !.book.position[s] = p]
    BY <1>4 DEF MarkTarget, c, Store, Book
  <1>6. p \in Position /\ SamePaid(p, c.book.position[s])
    BY <1>4 DEF Position, SamePaid
  <1> HIDE DEF p
  <1>7. Trims([c EXCEPT !.book.position[s] = p].book, c.book)
    BY <1>3, <1>4, <1>6, TouchTrims
  <1>8. [c EXCEPT !.book.position[s] = p].book.pending = c.book.pending
    BY <1>4 DEF Store, Book
  <1> QED BY <1>1, <1>3, <1>5, <1>7, <1>8, TrimsWithin

LEMMA TakeProfitWithin ==
    ASSUME NEW C, NEW st, Good(st, C), Within(st.book), NEW s \in Symbols, NEW t \in Ticks,
           NEW i \in {1, 2, 3}, now \in Nat
    PROVE  Within(TakeProfit(st, s, t, i).book)
  <1>0. t \in Tick BY TickAssumption
  <1>1. CASE ~TargetDue(st, s, t, i) BY <1>1 DEF TakeProfit
  <1>2. CASE TargetDue(st, s, t, i)
    <2> DEFINE p == st.book.position[s]
               tq == TargetQuantity(s, p.quantity, i)
               closed == CloseQuantity(MarkTarget(st, s, i), s, tq, t, "TARGET")
               stop == Larger(closed.book.position[s].stop, p.entry_price)
               moved == [closed.book.position[s] EXCEPT !.stop = stop]
    <2>1. p # NoPosition /\ i <= Len(Candidate[s].targets) BY <1>2 DEF TargetDue
    <2>2. p.quantity \in Nat /\ p.entry_price \in Nat
      BY <2>1 DEF Good, Store, Book, Position
    <2>3. tq \in Int
      <3>1. i \in 1..3 OBVIOUS
      <3> QED BY <2>1, <2>2, <3>1, TargetQuantityType
    <2> HIDE DEF tq
    <2>4. /\ Good(MarkTarget(st, s, i), C) /\ Within(MarkTarget(st, s, i).book)
          /\ MarkTarget(st, s, i).book.position[s] # NoPosition
          /\ MarkTarget(st, s, i).book.pending[s] = NoOrder
      BY <2>1, MarkTargetGood, MarkTargetWithin
    <2>5. Good(closed, C) /\ Within(closed.book)
      BY <1>0, <2>3, <2>4, CloseQuantityGood, CloseQuantityWithin
    <2>6. \/ TakeProfit(st, s, t, i) = closed
          \/ /\ closed.book.position[s] # NoPosition
             /\ TakeProfit(st, s, t, i)
                  = [closed EXCEPT !.book.position[s].stop = Larger(@, p.entry_price)]
      BY <1>2 DEF TakeProfit, tq
    <2> HIDE DEF closed, p
    <2>7. ASSUME closed.book.position[s] # NoPosition
          PROVE  Within([closed EXCEPT !.book.position[s].stop
                            = Larger(@, p.entry_price)].book)
      <3>1. closed \in Store /\ closed.book.position[s] \in Position
        BY <2>5, <2>7 DEF Good, Store, Book
      <3>2. [closed EXCEPT !.book.position[s].stop = Larger(@, p.entry_price)]
              = [closed EXCEPT !.book.position[s] = moved]
        BY <3>1 DEF Store, Book
      <3>3. stop \in Nat BY <2>2, <3>1 DEF Larger, Position
      <3> HIDE DEF stop
      <3>4. moved \in Position /\ SamePaid(moved, closed.book.position[s])
        BY <3>1, <3>3 DEF Position, SamePaid
      <3> HIDE DEF moved
      <3>5. Trims([closed EXCEPT !.book.position[s] = moved].book, closed.book)
        BY <2>7, <3>1, <3>4, TouchTrims
      <3> QED BY <2>5, <3>2, <3>5, TrimsWithin
    <2> QED BY <2>5, <2>6, <2>7
  <1> QED BY <1>1, <1>2

\* A handler that ends in a store whose book is within the limits.
LEMMA WithinAfter ==
    ASSUME NEW st, Within(st.book), Becomes(st)
    PROVE  Within(book')
  BY DEF Becomes

LEMMA TickWithin ==
    ASSUME NEW C, Good(Current, C), Within(book), now \in Nat,
           NEW s \in Symbols, NEW t \in Ticks, OnTick(s, t)
    PROVE  Within(book')
  <1>1. /\ t \in Tick
        /\ Live(s, t) => Good(Marked(s, t), C)
                         /\ Marked(s, t).book.position[s] # NoPosition
        /\ Live(s, t) => Good(Watched(s, t), C)
                         /\ Watched(s, t).book.position[s] # NoPosition
    BY LiveFacts
  <1>2. /\ Within(Filled(s, t).book)
        /\ Live(s, t) => Within(Marked(s, t).book) /\ Within(Watched(s, t).book)
    BY WatchedWithin
  <1>3. CASE TickIdle(s, t) BY <1>2, <1>3, WithinAfter DEF TickIdle
  <1>4. Live(s, t) => /\ Good(BeginExit(Marked(s, t), s), C)
                      /\ BeginExit(Marked(s, t), s).book.position[s] # NoPosition
                      /\ Within(BeginExit(Marked(s, t), s).book)
    BY <1>1, <1>2, BeginExitGood, BeginExitWithin
  <1>5. CASE TickStopExecuted(s, t)
    <2> DEFINE st == BeginExit(Marked(s, t), s)
    <2>1. Live(s, t) /\ Becomes(CloseAll(st, s, t, "STOP_LOSS"))
      BY <1>5 DEF TickStopExecuted
    <2>2. Within(CloseAll(st, s, t, "STOP_LOSS").book)
      BY <1>1, <1>4, <2>1, CloseAllWithin
    <2> QED BY <2>1, <2>2, WithinAfter
  <1>6. CASE TickStopWaits(s, t)
    <2>1. Live(s, t) /\ Becomes(BeginExit(Marked(s, t), s))
      BY <1>6 DEF TickStopWaits
    <2> QED BY <1>4, <2>1, WithinAfter
  <1>7. CASE TickTimedExit(s, t)
    <2>1. Live(s, t) /\ Becomes(CloseAll(Watched(s, t), s, t, "TIMED_EXIT"))
      BY <1>7 DEF TickTimedExit
    <2>2. Within(CloseAll(Watched(s, t), s, t, "TIMED_EXIT").book)
      BY <1>1, <1>2, <2>1, CloseAllWithin
    <2> QED BY <2>1, <2>2, WithinAfter
  <1>8. CASE TickTargets(s, t)
    <2> DEFINE a == TakeProfit(Watched(s, t), s, t, 1)
               b == TakeProfit(a, s, t, 2)
               c == TakeProfit(b, s, t, 3)
    <2>1. Live(s, t) /\ Becomes(Save(c)) BY <1>8 DEF TickTargets
    <2>2. Good(a, C) /\ Within(a.book)
      BY <1>1, <1>2, <2>1, TakeProfitGood, TakeProfitWithin
    <2>3. Good(b, C) /\ Within(b.book)
      BY <1>1, <2>2, TakeProfitGood, TakeProfitWithin
    <2>4. Good(c, C) /\ Within(c.book)
      BY <1>1, <2>3, TakeProfitGood, TakeProfitWithin
    <2> HIDE DEF c
    <2>5. Save(c).book = c.book BY <2>4, SaveGood DEF Good
    <2> QED BY <2>1, <2>4, <2>5, WithinAfter
  <1> QED BY <1>3, <1>5, <1>6, <1>7, <1>8 DEF OnTick

\* A restart keeps the limits because what it brings back is what was saved.
LEMMA HandlesWithin ==
    ASSUME NEW C, Good(Current, C), Synced(Current), Within(book), now \in Nat, Handles
    PROVE  Within(book')
  <1>0. Current.book = book /\ Current \in Store /\ book \in Book
    BY DEF Current, Good, Store
  <1>1. ASSUME NEW s \in Symbols, NEW t \in Ticks, OnTick(s, t) PROVE Within(book')
    BY <1>1, TickWithin
  <1>2. \A S \in SUBSET Symbols :
            Good(Cancel(Current, S), C) /\ Within(Cancel(Current, S).book)
    BY <1>0, CancelGood, CancelWithin
  <1>3. ASSUME NEW p \in Plans, NEW s \in Symbols, SubmitRefused(p, s) PROVE Within(book')
    <2>1. Within(EnsureSession(Current).book) BY <1>0, EnsureSessionWithin
    <2> QED BY <1>3, <2>1, WithinAfter DEF SubmitRefused
  <1>4. ASSUME NEW S \in SUBSET Symbols, Becomes(Cancel(Current, S)) PROVE Within(book')
    BY <1>2, <1>4, WithinAfter
  <1>5. ASSUME NEW s \in Symbols, CancelPending(s) PROVE Within(book')
    <2>1. {s} \in SUBSET Symbols OBVIOUS
    <2> QED BY <1>4, <1>5, <2>1 DEF CancelPending
  <1>6. ASSUME NEW s \in Symbols, NEW t \in Ticks, NEW S \in SUBSET Symbols, NEW reason,
               Cancel(Current, S).book.position[s] # NoPosition,
               Becomes(CloseAll(Cancel(Current, S), s, t, reason))
        PROVE  Within(book')
    <2>1. t \in Tick BY TickAssumption
    <2>2. Within(CloseAll(Cancel(Current, S), s, t, reason).book)
      BY <1>2, <1>6, <2>1, CloseAllWithin
    <2> QED BY <1>6, <2>2, WithinAfter
  <1>7. ASSUME NEW s \in Symbols, NEW t \in Ticks, CorporateActionCloses(s, t)
        PROVE  Within(book')
    <2>1. {s} \in SUBSET Symbols OBVIOUS
    <2> QED BY <1>6, <1>7, <2>1 DEF CorporateActionCloses
  <1>8. ASSUME NEW s \in Symbols, NEW t \in Ticks, CorporateActionKeeps(s, t)
        PROVE  Within(book')
    <2>1. {s} \in SUBSET Symbols OBVIOUS
    <2> QED BY <1>4, <1>8, <2>1 DEF CorporateActionKeeps
  <1>9. ASSUME NEW s \in Symbols, NEW t \in Ticks, ForceClosePriced(s, t)
        PROVE  Within(book')
    <2>1. Cancel(Current, Symbols).book = [Current.book EXCEPT !.pending =
            [r \in Symbols |-> IF r \in Symbols THEN NoOrder ELSE Current.book.pending[r]]]
      BY CancelGood
    <2>2. Cancel(Current, Symbols).book.position = book.position BY <1>0, <2>1 DEF Book
    <2> QED BY <1>6, <1>9, <2>2 DEF ForceClosePriced
  <1>10. CASE ForceCloseUnpriced BY <1>4, <1>10 DEF ForceCloseUnpriced
  <1>11. CASE ExpirePending
    <2>1. Due(book) \in SUBSET Symbols BY DEF Due, Resting
    <2> QED BY <1>4, <1>11, <2>1 DEF ExpirePending
  <1>12. CASE ResetDay
    <2>1. Within(FreshCounters(book)) BY <1>0, FreshWithin
    <2>2. book' = FreshCounters(book)
      BY <1>12 DEF ResetDay, Becomes, Save, Current
    <2> QED BY <2>1, <2>2
  <1>13. CASE Restart
    <2>1. saved \in Book BY DEF Good, Store, Current
    <2>2. Unmarked(saved) = Unmarked(book) BY DEF Synced, Current
    <2>3. Trims(saved, book)
      BY <1>0, <2>1, <2>2, UnmarkedFacts DEF Trims, SamePaid, SameHolding
    <2> QED BY <1>13, <2>3, TrimsWithin DEF Restart
  <1> QED BY <1>1, <1>3, <1>5, <1>7, <1>8, <1>9, <1>10, <1>11, <1>12, <1>13 DEF Handles

\* A new entry is within the limits because they were checked for it.
\* The quantity of an admissible entry respects the plan's maximum, and all its
\* shares together lose no more than the day may still lose.
LEMMA AdmissibleRisk ==
    ASSUME NEW C, NEW st, Good(st, C), NEW p \in Plans, NEW s \in Symbols,
           Admissible(st, p, s)
    PROVE  /\ EntryQuantity(st.book, s) <= Cost.max_quantity
           /\ Lost(st.book) + EntryQuantity(st.book, s) * WorstCaseRisk(s) <= DailyBudget
  <1> DEFINE b == st.book
             q == EntryQuantity(b, s)
             W == WorstCaseRisk(s)
             R == RiskBudget(b)
  <1>1. q \in Nat \ {0} BY AdmissibleFacts
  <1>2. W \in Nat \ {0} BY WorstCaseRiskType DEF Admissible
  <1>3. Lost(b) \in Nat
    <2>1. b.session_realized \in Int BY DEF Good, Store, Book
    <2> QED BY <2>1 DEF Lost, Larger
  <1>4. DailyRiskUsed(b) = Lost(b) /\ Lost(b) < DailyBudget
    <2>1. Resting(b) = {} /\ Holding(b) = {} BY DEF Admissible, CanSubmit, SlotFree
    <2>2. PositionRisk(b) = 0 /\ PendingRisk(b) = 0
      BY <2>1, TotalEmpty DEF PositionRisk, PendingRisk
    <2>3. DailyRiskUsed(b) < DailyBudget BY DEF Admissible, CanSubmit
    <2> HIDE DEF b
    <2>4. DailyRiskUsed(b) = Lost(b) BY <1>3, <2>2 DEF DailyRiskUsed, Lost
    <2> QED BY <2>3, <2>4
  <1>5. DailyBudget \in Int /\ TradeBudget \in Int
    BY CostFields DEF DailyBudget, TradeBudget
  <1> HIDE DEF b
  <1>6. R \in Int /\ R <= DailyBudget - Lost(b)
    BY <1>3, <1>4, <1>5 DEF RiskBudget, Smaller, Larger
  <1>7. b.cash \div AllIn(Candidate[s].limit) \in Int
    <2>1. AllIn(Candidate[s].limit) \in Nat /\ AllIn(Candidate[s].limit) >= 1
      BY CandidateFields, AllInType
    <2>2. b.cash \in Int BY DEF Good, Store, Book, b
    <2> QED BY <2>1, <2>2
  <1>8. R \div W \in Int BY <1>2, <1>6
  <1>9. q <= Cost.max_quantity /\ q <= R \div W
    BY <1>7, <1>8, CostFields DEF EntryQuantity, Smaller
  <1>10. q * W <= R
    <2> HIDE DEF q, W, R
    <2>1. q * W <= (R \div W) * W BY <1>1, <1>2, <1>8, <1>9, SMTT(30)
    <2>2. (R \div W) * W <= R BY <1>2, <1>6, SMTT(30)
    <2>3. q * W \in Int /\ (R \div W) * W \in Int BY <1>1, <1>2, <1>8
    <2> QED BY <1>6, <2>1, <2>2, <2>3
  <1>11. q * W \in Int BY <1>1, <1>2
  <1> HIDE DEF q, W, R
  <1>12. Lost(b) + q * W <= DailyBudget BY <1>3, <1>5, <1>6, <1>10, <1>11
  <1> QED BY <1>9, <1>12 DEF b, q, W

LEMMA SubmitWithin ==
    ASSUME IInv, Within(book), NEW p \in Plans, NEW s \in Symbols, SubmitAccepted(p, s)
    PROVE  Within(book')
  <1> DEFINE st == EnsureSession(Current)
             q == EntryQuantity(st.book, s)
             o == [plan |-> p, eligible_at |-> now + Cost.latency,
                   expires_at |-> now + Cost.timeout, desired |-> q, filled |-> 0]
             b == [st.book EXCEPT !.pending[s] = o, !.submissions_today = @ + 1]
  <1>1. Good(st, claimed) /\ Within(st.book)
    BY EnsureSessionGood, EnsureSessionWithin DEF IInv, Current
  <1>2. Admissible(st, p, s) BY DEF SubmitAccepted
  <1>3. /\ \A r \in Symbols : st.book.pending[r] = NoOrder
        /\ q \in Nat \ {0}
        /\ q * AllIn(Candidate[s].limit) <= st.book.cash
    BY <1>1, <1>2, AdmissibleFacts
  <1>4. /\ st.book.trades_today < Cost.max_entries
        /\ st.book.submissions_today < Cost.max_submissions
    BY <1>2 DEF Admissible, CanSubmit, DayOpen
  <1>5. st \in Store /\ st.book \in Book BY <1>1 DEF Good, Store
  <1>6. book' = b
    <2>1. Becomes(Save([st EXCEPT !.book.pending[s] = o,
                                  !.book.submissions_today = @ + 1,
                                  !.intents[<<p, s>>].bought = q]))
      BY DEF SubmitAccepted
    <2> HIDE DEF st, o
    <2> QED BY <1>5, <2>1 DEF Becomes, Save, Store, Book
  <1> HIDE DEF q, st
  <1>7. o.filled = 0 /\ Unfilled(o) = q BY <1>3 DEF Unfilled
  <1> HIDE DEF o
  <1>8. /\ b.pending[s] = o
        /\ \A r \in Symbols : r # s => b.pending[r] = NoOrder
        /\ b.cash = st.book.cash
        /\ b.trades_today = st.book.trades_today
        /\ b.submissions_today = st.book.submissions_today + 1
    BY <1>3, <1>5 DEF Book
  <1> HIDE DEF b
  <1>9. Funded(b) BY <1>1, <1>3, <1>7, <1>8 DEF Within, Funded
  <1>10. Limited(b)
    <2>1. st.book.submissions_today \in Nat /\ Cost.max_submissions \in Nat
      BY <1>5, CostFields DEF Book
    <2> QED BY <1>1, <1>4, <1>8, <2>1 DEF Within, Limited
  <1>11. \A r \in Symbols : st.book.position[r] = NoPosition
    BY <1>1, <1>2, AdmissibleFacts
  <1>12. /\ q <= Cost.max_quantity
         /\ Lost(st.book) + q * WorstCaseRisk(s) <= DailyBudget
    BY <1>1, <1>2, AdmissibleRisk DEF q
  <1>13. /\ \A r \in Symbols : b.position[r] = NoPosition
         /\ b.realized = st.book.realized
         /\ b.session_realized = st.book.session_realized
    BY <1>5, <1>11 DEF Book, b
  <1>14. Sized(b) BY <1>7, <1>8, <1>12, <1>13 DEF Sized
  <1>15. Honest(b)
    <2>1. Holding(st.book) = {} BY <1>11 DEF Holding
    <2>2. Tallies(st.book, 0) BY <1>1, <2>1 DEF Within, Honest
    <2>3. Tallies(b, 0) BY <1>8, <1>13, <2>2 DEF Tallies
    <2> QED BY <1>13, <2>3 DEF Honest, Even
  <1>16. Contained(b)
    <2> DEFINE W == WorstCaseRisk(s)
    <2>1. Lost(b) = Lost(st.book) BY <1>13 DEF Lost
    <2>2. Lost(b) \in Nat
      <3>1. st.book.session_realized \in Int BY <1>5 DEF Book
      <3> QED BY <1>13, <3>1 DEF Lost, Larger
    <2>3. W \in Nat BY WorstCaseRiskType
    <2>4. ShareRisk(s, AllIn(Candidate[s].limit)) = W + Grain
      BY DEF ShareRisk, WorstCaseRisk
    <2>5. Grain = 0 \/ Grain = 1 BY DEF Grain
    <2>6. DailyBudget \in Nat /\ Cost.max_quantity \in Nat
      BY LimitType, CostFields
    <2>7. \A r \in Symbols : HeldRisk(b, r) = 0 BY <1>13 DEF HeldRisk
    <2>8. \A r \in Symbols : r # s => OpenRisk(b, r) = 0
      BY <1>8, <2>7 DEF OpenRisk
    <2>9. o # NoOrder
      <3>1. now \in Nat /\ Cost.latency \in Nat /\ Cost.timeout \in Nat
        BY CostFields DEF IInv
      <3>2. o \in Order BY <1>3, <3>1 DEF Order, o
      <3> QED BY <3>2, NoneAssumption
    <2>10. OpenRisk(b, s) = q * (W + Grain)
      <3>1. q * (W + Grain) \in Int BY <1>3, <2>3, <2>5
      <3> HIDE DEF W
      <3> QED BY <1>7, <1>8, <2>4, <2>7, <2>9, <3>1 DEF OpenRisk
    <2> HIDE DEF W
    <2>11. Lost(b) + q * (W + Grain) <= Limit
      <3>1. q * W \in Nat BY <1>3, <2>3
      <3>2. Lost(b) + q * W <= DailyBudget BY <1>12, <2>1 DEF W
      <3>3. CASE Grain = 0
        <4>1. Limit = DailyBudget BY <2>6, <3>3 DEF Limit
        <4>2. q * (W + Grain) = q * W BY <2>3, <3>3
        <4> QED BY <3>2, <4>1, <4>2
      <3>4. CASE Grain = 1
        <4>1. Limit = DailyBudget + Cost.max_quantity BY <2>6, <3>4 DEF Limit
        <4>2. q * (W + Grain) = q * W + q BY <1>3, <2>3, <3>4, SMTT(30)
        <4> QED BY <1>3, <1>12, <2>2, <2>6, <3>1, <3>2, <4>1, <4>2
      <3> QED BY <2>5, <3>3, <3>4
    <2>12. Lost(b) <= Limit
      <3>1. q * (W + Grain) \in Nat BY <1>3, <2>3, <2>5
      <3>2. Limit \in Nat BY LimitType
      <3> QED BY <2>2, <2>11, <3>1, <3>2
    <2>13. Lost(b) + 0 = Lost(b) BY <2>2
    <2> QED BY <2>7, <2>8, <2>10, <2>11, <2>12, <2>13 DEF Contained
  <1> QED BY <1>6, <1>9, <1>10, <1>14, <1>15, <1>16 DEF Within

\* The inductive invariant.
LimitInv == SyncInv /\ Within(book)

LEMMA LimitInit == Init => LimitInv
  <1> SUFFICES ASSUME Init PROVE Within(book) BY SyncInit DEF LimitInv
  <1> DEFINE b == EmptyBook
  <1>1. /\ b.cash = Cost.initial_cash /\ b.realized = 0 /\ b.session_realized = 0
        /\ b.trades_today = 0 /\ b.submissions_today = 0
        /\ \A s \in Symbols : b.pending[s] = NoOrder /\ b.position[s] = NoPosition
    BY DEF EmptyBook
  <1>2. book = b BY DEF Init
  <1> HIDE DEF b
  <1>3. Funded(b) BY <1>1, CostFields DEF Funded
  <1>4. Limited(b) BY <1>1, CostFields DEF Limited
  <1>5. Sized(b) BY <1>1 DEF Sized
  <1>6. Honest(b)
    <2>1. Tallies(b, 0) BY <1>1, CostFields DEF Tallies
    <2> QED BY <1>1, <2>1 DEF Honest, Even
  <1>7. Contained(b)
    <2>1. Lost(b) = 0 BY <1>1 DEF Lost, Larger
    <2>2. \A s \in Symbols : HeldRisk(b, s) = 0 /\ OpenRisk(b, s) = 0
      BY <1>1 DEF HeldRisk, OpenRisk
    <2> QED BY <2>1, <2>2, LimitType DEF Contained
  <1> QED BY <1>2, <1>3, <1>4, <1>5, <1>6, <1>7 DEF Within

LEMMA LimitStep == LimitInv /\ [Next]_vars => LimitInv'
  <1> SUFFICES ASSUME LimitInv, [Next]_vars PROVE Within(book)'
    BY SyncStep DEF LimitInv
  <1>1. /\ IInv /\ Synced(Current) /\ Within(book)
        /\ Good(Current, claimed) /\ now \in Nat
    BY DEF LimitInv, SyncInv, IInv
  <1>2. ASSUME NEW p \in Plans, NEW s \in Symbols, SubmitAccepted(p, s)
        PROVE  Within(book)'
    BY <1>1, <1>2, SubmitWithin, WithinPrime
  <1>3. Handles => Within(book)'
    BY <1>1, HandlesWithin, WithinPrime
  <1>4. Elapse => Within(book)' BY <1>1, WithinPrime DEF Elapse
  <1>5. UNCHANGED vars => Within(book)' BY <1>1, WithinPrime DEF vars
  <1> QED BY <1>2, <1>3, <1>4, <1>5, NextCases

\* A resting order can be paid in full at its limit whatever fills, exits, new days
\* and restarts come first, and cash never goes negative (submit_entry,
\* _apply_entry_fill, whose truncation to the cash therefore never bites).
THEOREM OrdersFunded == Spec => []OrderFunded
  <1>1. LimitInv => OrderFunded
    BY DEF LimitInv, Within, Funded, OrderFunded, Resting
  <1> QED BY LimitInit, LimitStep, <1>1, PTL DEF Spec

\* Entries and submissions of a day stay within their limits although an entry is
\* counted at its first fill, after the check (can_submit, _apply_entry_fill).
THEOREM EntriesLimited == Spec => []DailyEntryLimit
  <1>1. LimitInv => DailyEntryLimit
    BY DEF LimitInv, Within, Limited, DailyEntryLimit
  <1> QED BY LimitInit, LimitStep, <1>1, PTL DEF Spec

\* At most one position counts in the sum, and the money of the book accounts for it.
LEMMA LimitCash == LimitInv => CashMatchesLedger
  <1> SUFFICES ASSUME LimitInv PROVE CashMatchesLedger OBVIOUS
  <1> DEFINE cost == [s \in Holding(book) |->
                          book.position[s].entry_price * book.position[s].remaining]
  <1>1. Sound(book, claimed) /\ book \in Book /\ Honest(book)
    BY DEF LimitInv, SyncInv, IInv, Good, Current, Store, Within
  <1>2. Tallies(book, Total(cost))
    <2>1. CASE Holding(book) = {}
      <3>1. Total(cost) = 0 BY <2>1, TotalEmpty
      <3> QED BY <1>1, <2>1, <3>1 DEF Honest
    <2>2. CASE Holding(book) # {}
      <3>1. PICK s \in Symbols : book.position[s] # NoPosition BY <2>2 DEF Holding
      <3>2. Holding(book) = {s} BY <1>1, <3>1 DEF Holding, Sound, OneSymbol
      <3>3. book.position[s].entry_price \in Nat /\ book.position[s].remaining \in Nat
        BY <1>1, <3>1 DEF Book, Position
      <3>4. DOMAIN cost = {s}
            /\ cost[s] = book.position[s].entry_price * book.position[s].remaining
        BY <3>2
      <3>5. cost[s] \in Int BY <3>3, <3>4
      <3> HIDE DEF cost
      <3>6. Total(cost) = cost[s] BY <3>4, <3>5, TotalSingle
      <3> QED BY <1>1, <3>1, <3>4, <3>6 DEF Honest
    <2> QED BY <2>1, <2>2
  <1> QED BY <1>2 DEF Tallies, CashMatchesLedger

\* What the broker counts as the risk of an order and of a position is no more than
\* what its shares may lose: a stop only moves up from the plan's.
LEMMA RiskCounted ==
    ASSUME NEW b \in Book, NEW C, Sound(b, C), NEW s \in Symbols,
           b.pending[s] # NoOrder \/ b.position[s] # NoPosition
    PROVE  /\ PositionRisk(b) \in Int /\ PositionRisk(b) <= HeldRisk(b, s)
           /\ PendingRisk(b) \in Int
           /\ PositionRisk(b) + PendingRisk(b) <= OpenRisk(b, s)
  <1> DEFINE held == [r \in Holding(b) |-> b.position[r].remaining
                         * Larger(0, b.position[r].entry_price
                                     - ExitNet(StopLimit(r, b.position[r].stop)))]
             open == [r \in Resting(b) |-> Unfilled(b.pending[r]) * WorstCaseRisk(r)]
  <1>1. \A r \in Symbols : r # s => b.pending[r] = NoOrder /\ b.position[r] = NoPosition
    BY DEF Sound, OneSymbol
  <1>2. PositionRisk(b) = Total(held) /\ PendingRisk(b) = Total(open)
    BY DEF PositionRisk, PendingRisk
  <1>3. HeldRisk(b, s) \in Nat BY RiskType
  <1>4. Total(held) \in Int /\ Total(held) <= HeldRisk(b, s)
    <2>1. CASE b.position[s] = NoPosition
      <3>1. Holding(b) = {} BY <1>1, <2>1 DEF Holding
      <3>2. Total(held) = 0 BY <3>1, TotalEmpty
      <3> QED BY <1>3, <3>2
    <2>2. CASE b.position[s] # NoPosition
      <3> DEFINE p == b.position[s]
                 plan == ExitNet(StopLimit(s, Candidate[s].stop))
                 moved == ExitNet(StopLimit(s, p.stop))
                 risk == Larger(0, p.entry_price - moved)
                 share == ShareRisk(s, p.entry_price)
      <3>1. /\ p.entry_price \in Nat /\ p.remaining \in Nat /\ p.stop \in Nat
            /\ Candidate[s].stop \in Nat /\ Candidate[s].stop <= p.stop
        BY <2>2, CandidateFields DEF Book, Position, Sound, PositionsOpen
      <3>2. Holding(b) = {s} BY <1>1, <2>2 DEF Holding
      <3>3. held[s] = p.remaining * risk /\ DOMAIN held = {s} BY <3>2
      <3>4. plan \in Int /\ moved \in Int /\ plan <= moved
        <4>1. /\ StopLimit(s, Candidate[s].stop) \in Nat /\ StopLimit(s, p.stop) \in Nat
              /\ StopLimit(s, Candidate[s].stop) <= StopLimit(s, p.stop)
          BY <3>1, StopLimitFacts
        <4> QED BY <4>1, ExitNetType, ExitNetMonotone
      <3>5. share = Larger(0, p.entry_price - plan) + Grain BY DEF ShareRisk
      <3>6. HeldRisk(b, s) = p.remaining * share BY <2>2 DEF HeldRisk
      <3> HIDE DEF p, plan, moved, held, share
      <3>7. risk \in Nat /\ share \in Nat /\ risk <= share
        BY <3>1, <3>4, <3>5 DEF Larger, Grain
      <3> HIDE DEF risk
      <3>8. p.remaining * risk <= p.remaining * share /\ p.remaining * risk \in Int
        BY <3>1, <3>7, SMTT(30)
      <3>9. Total(held) = held[s] BY <3>3, <3>8, TotalSingle
      <3> QED BY <3>3, <3>6, <3>8, <3>9
    <2> QED BY <2>1, <2>2
  <1>5. Total(open) \in Int /\ Total(open) + HeldRisk(b, s) <= OpenRisk(b, s)
    <2>1. CASE b.pending[s] = NoOrder
      <3>1. Resting(b) = {} BY <1>1, <2>1 DEF Resting
      <3>2. Total(open) = 0 BY <3>1, TotalEmpty
      <3> QED BY <1>3, <2>1, <3>2 DEF OpenRisk
    <2>2. CASE b.pending[s] # NoOrder
      <3> DEFINE U == Unfilled(b.pending[s])
                 W == WorstCaseRisk(s)
                 share == ShareRisk(s, AllIn(Candidate[s].limit))
      <3>1. U \in Nat BY <2>2 DEF Book, Order, Unfilled, Sound, OrdersOpen
      <3>2. W \in Nat BY WorstCaseRiskType
      <3>3. share = W + Grain BY DEF ShareRisk, WorstCaseRisk
      <3>4. Resting(b) = {s} BY <1>1, <2>2 DEF Resting
      <3>5. open[s] = U * W /\ DOMAIN open = {s} BY <3>4
      <3>6. OpenRisk(b, s) = U * share + HeldRisk(b, s) BY <2>2 DEF OpenRisk
      <3> HIDE DEF U, W, share, open
      <3>7. share \in Nat /\ W <= share BY <3>2, <3>3 DEF Grain
      <3>8. U * W <= U * share /\ U * W \in Int /\ U * share \in Int
        BY <3>1, <3>2, <3>7, SMTT(30)
      <3>9. Total(open) = open[s] BY <3>5, <3>8, TotalSingle
      <3> QED BY <1>3, <3>5, <3>6, <3>8, <3>9
    <2> QED BY <2>1, <2>2
  <1> HIDE DEF held, open
  <1> QED BY <1>2, <1>3, <1>4, <1>5, RiskType

LEMMA LimitRisk == LimitInv => DailyRiskContained
  <1> SUFFICES ASSUME LimitInv, NoGaps
               PROVE  DailyRiskUsed(book)
                        <= DailyBudget + IF WholeExits THEN 0 ELSE Cost.max_quantity
    BY DEF DailyRiskContained
  <1>1. Sound(book, claimed) /\ book \in Book /\ Contained(book)
    BY DEF LimitInv, SyncInv, IInv, Good, Current, Store, Within
  <1>2. Limit = DailyBudget + IF WholeExits THEN 0 ELSE Cost.max_quantity
    BY LimitType, CostFields DEF Limit, Grain
  <1>3. Lost(book) \in Nat /\ Limit \in Nat
    <2>1. book.session_realized \in Int BY <1>1 DEF Book
    <2> QED BY <2>1, LimitType DEF Lost, Larger
  <1>4. Lost(book) + PositionRisk(book) + PendingRisk(book) <= Limit
    <2>1. CASE \E s \in Symbols : book.pending[s] # NoOrder \/ book.position[s] # NoPosition
      <3>1. PICK s \in Symbols : book.pending[s] # NoOrder \/ book.position[s] # NoPosition
        BY <2>1
      <3>2. /\ PositionRisk(book) \in Int /\ PendingRisk(book) \in Int
            /\ PositionRisk(book) + PendingRisk(book) <= OpenRisk(book, s)
        BY <1>1, <3>1, RiskCounted
      <3>3. OpenRisk(book, s) \in Int /\ Lost(book) + OpenRisk(book, s) <= Limit
        BY <1>1, RiskType DEF Contained
      <3> QED BY <1>3, <3>2, <3>3
    <2>2. CASE \A s \in Symbols : book.pending[s] = NoOrder /\ book.position[s] = NoPosition
      <3>1. PositionRisk(book) = 0 /\ PendingRisk(book) = 0
        BY <2>2, TotalEmpty DEF PositionRisk, PendingRisk, Holding, Resting
      <3>2. Lost(book) <= Limit BY <1>1 DEF Contained
      <3> QED BY <1>3, <3>1, <3>2
    <2> QED BY <2>1, <2>2
  <1> QED BY <1>2, <1>4 DEF DailyRiskUsed, Lost

\* No money appears or disappears, whatever partial fills, partial exits and new days
\* come (_apply_entry_fill, close_quantity): cash plus the cost of what is held is
\* never more than the initial cash plus what was realised, and exactly that when the
\* fills of an entry round no average.
THEOREM MoneyKept == Spec => []CashMatchesLedger
  <1> QED BY LimitInit, LimitStep, LimitCash, PTL DEF Spec

\* The loss of the day and the risk still open stay within the budget of the day when
\* no bid is below a stop limit: an order takes no more of it than is left
\* (submit_entry), each share that fills or is sold passes its part on
\* (_apply_entry_fill, close_quantity), and a stop only moves up (on_tick).
THEOREM RiskContained == Spec => []DailyRiskContained
  <1> QED BY LimitInit, LimitStep, LimitRisk, PTL DEF Spec
====
