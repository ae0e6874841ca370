---- MODULE BrokerCrashes ----
(***************************************************************************)
(* PaperBroker with crashes inside its operations.  Every operation makes  *)
(* several commits: an entry claims its key, records a BUY intent and then *)
(* saves the portfolio; a withdrawal and a sale record their intents       *)
(* before they save; a tick that takes several targets saves after each.   *)
(* A crash keeps the commits made so far and loses the rest, and the       *)
(* process starts again from the saved portfolio.                          *)
(***************************************************************************)
EXTENDS PaperBroker

CONSTANT MaxCrashes   \* bound: crashes inside an operation

ASSUME CrashAssumption == MaxCrashes \in Nat

VARIABLE crashes      \* crashes inside an operation so far

crashVars == <<vars, crashes>>

\* The process stops where the store is st, and starts again.
CrashLeaves(st) == /\ saved' = st.saved
                   /\ intents' = st.intents
                   /\ book' = st.saved

\* Mutant of Recorded: the portfolio is saved first, the intent recorded later.
RecordedAfterSave(st, done) == [st EXCEPT !.saved = done.saved]

\* Half-way from st to done: the intent is recorded, the portfolio not saved.
Recorded(st, done) == [st EXCEPT !.intents = done.intents]

\* Every withdrawal of a resting order outside on_tick: halt, expiry, corporate
\* action, end of the session.
CrashInCancel(s) ==
    /\ CrashLeaves(Recorded(Current, Cancel(Current, {s})))
    /\ UNCHANGED <<claimed, now>>

\* A position closed by a corporate action or by the end of the session.
CrashInClose(s, t) ==
    LET st == Cancel(Current, Symbols)
    IN  /\ st.book.position[s] # NoPosition
        /\ CrashLeaves(Recorded(st, CloseAll(st, s, t, "SESSION_FORCE_CLOSE")))
        /\ UNCHANGED <<claimed, now>>

\* The key is claimed, and the BUY intent possibly recorded, when it happens.
CrashInSubmit(p, s) ==
    LET st  == EnsureSession(Current)
        buy == [st EXCEPT !.intents[<<p, s>>].bought = EntryQuantity(st.book, s)]
    IN  /\ now + Cost.timeout <= Horizon
        /\ Admissible(st, p, s)
        /\ claimed' = claimed \cup {<<p, s>>}
        /\ CrashLeaves(st) \/ CrashLeaves(buy)
        /\ UNCHANGED now

\* After the resting order was processed, before the position is looked at.
CrashAfterOrder(s, t) ==
    /\ CrashLeaves(Filled(s, t))
    /\ UNCHANGED <<claimed, now>>

\* In the withdrawal that a triggered stop makes, after it, or in the sale.
CrashInStop(s, t) ==
    LET m == Marked(s, t)
        b == BeginExit(m, s)
    IN  /\ Live(s, t) /\ StopTriggered(s, t)
        /\ \/ CrashLeaves(Recorded(m, b))
           \/ CrashLeaves(b)
           \/ Executable(b, s, t) /\ CrashLeaves(Recorded(b, CloseAll(b, s, t, "STOP_LOSS")))
        /\ UNCHANGED <<claimed, now>>

CrashInTimedExit(s, t) ==
    LET w == Watched(s, t)
    IN  /\ Live(s, t) /\ ~StopTriggered(s, t) /\ TimedExitDue(s, t)
        /\ CrashLeaves(Recorded(w, CloseAll(w, s, t, "TIMED_EXIT")))
        /\ UNCHANGED <<claimed, now>>

\* The store when on_tick comes to the i-th target.
BeforeTarget(s, t, i) ==
    CASE i = 1 -> Watched(s, t)
      [] i = 2 -> TakeProfit(Watched(s, t), s, t, 1)
      [] i = 3 -> TakeProfit(TakeProfit(Watched(s, t), s, t, 1), s, t, 2)

\* While the i-th target is taken: in the withdrawal, after it, in the sale, and
\* after the sale, when the stop has not been moved yet.
CrashInTarget(s, t, i) ==
    LET st     == BeforeTarget(s, t, i)
        marked == MarkTarget(st, s, i)
        sale   == CloseQuantity(marked, s,
                      TargetQuantity(s, st.book.position[s].quantity, i), t, "TARGET")
    IN  /\ Live(s, t) /\ ~StopTriggered(s, t) /\ ~TimedExitDue(s, t)
        /\ TargetDue(st, s, t, i)
        /\ \/ CrashLeaves(Recorded(st, marked))
           \/ CrashLeaves(marked)
           \/ CrashLeaves(Recorded(marked, sale))
           \/ CrashLeaves(sale)
        /\ UNCHANGED <<claimed, now>>

Crash ==
    \/ \E s \in Symbols : CrashInCancel(s)
    \/ \E p \in Plans, s \in Symbols : CrashInSubmit(p, s)
    \/ \E s \in Symbols, t \in Ticks :
            \/ CrashInClose(s, t) \/ CrashAfterOrder(s, t) \/ CrashInStop(s, t)
            \/ CrashInTimedExit(s, t)
            \/ \E i \in 1..3 : CrashInTarget(s, t, i)

CrashNext == \/ Next /\ UNCHANGED crashes
             \/ Crash /\ crashes < MaxCrashes /\ crashes' = crashes + 1

CrashSpec == Init /\ crashes = 0 /\ [][CrashNext]_crashVars

\* Time passes and the maintenance job keeps running; no tick is promised.
FairCrashSpec == CrashSpec /\ WF_vars(Elapse) /\ WF_vars(ExpirePending)

----
\* Shares of the entry k that are resting, and that are held.
RestingShares(k) ==
    IF k[2] \in Resting(book) /\ book.pending[k[2]].plan = k[1]
    THEN Unfilled(book.pending[k[2]]) ELSE 0
HeldShares(k) ==
    IF k[2] \in Holding(book) /\ book.position[k[2]].plan = k[1]
    THEN book.position[k[2]].remaining ELSE 0

\* The ledger of intents runs ahead of the portfolio, never behind it: whatever
\* crash comes between the two, no share rests or is held without a recorded
\* BUY, and of an entry that got into the book no share leaves it without a
\* recorded CANCEL or SELL (submit_entry, cancel_pending, close_quantity).
LedgerLeads ==
    \A k \in Keys :
        LET inBook == RestingShares(k) + HeldShares(k)
            out    == intents[k].cancelled + intents[k].sold
        IN  /\ inBook <= intents[k].bought
            /\ inBook + out > 0 => intents[k].bought <= inBook + out

\* Once the first target has been taken the stop is no longer below the entry
\* price, if the plan asks for that (move_stop_to_entry_after_tp1), whatever
\* orders, fills and restarts come between.  A crash inside on_tick can break it:
\* the sale is saved before the stop is moved.
StopFollowsFirstTarget ==
    \A s \in Holding(book) :
        LET p == book.position[s]
        IN  crashes = 0 /\ Candidate[s].move_stop /\ 1 \in p.filled_targets
                => p.stop >= p.entry_price

\* Crashes cost an entry the slot at most, they never give it the slot twice: the
\* key is claimed before anything else of the entry is stored (submit_entry).
SlotKeptThroughCrashes == Slot!CrashingSlotSpec
====
