---- MODULE TradingDay ----
(***************************************************************************)
(* One trading date of one market: the plan registry, the market's slot    *)
(* and the handlers that write to both - ticks and corporate actions       *)
(* (src/src/daytrader/engine.py), the session guard and the maintenance    *)
(* job (scheduler.py), registration (api.py).                              *)
(*                                                                         *)
(* A handler is a list of durable writes, made one after the other: the    *)
(* process may stop between two of them, and the maintenance job, which    *)
(* runs in a thread of its own, may come in between.  The other handlers   *)
(* share the event loop and wait for the list to end.  Quantities and      *)
(* prices are left to PaperBroker: here a symbol's order and position are  *)
(* there or not.                                                           *)
(***************************************************************************)
EXTENDS PlanRegistry, Sequences

CONSTANTS
    Symbols,
    Approved,   \* Approved[p]: the symbols of plan p
    MaxRestarts \* bound: how often the process restarts

ASSUME DayAssumption ==
    /\ Approved \in [PlanIds -> SUBSET Symbols]
    /\ NoPlan \notin PlanIds
    /\ MaxRestarts \in Nat

VARIABLES
    resting,  \* per symbol: the plan of its pending order
    held,     \* per symbol: the plan of its position
    claimed,  \* the entries (plan and symbol) ever submitted
    late,     \* the wall clock is past the forced exit of the date
    lapsed,   \* the plans whose expiry the wall clock is past
    priced,   \* memory: the symbols with a latest tick
    guard,    \* memory: whether the session guard has closed the date
    todo,     \* memory: the writes left to the handler that is running
    restarts

slotVars == <<resting, held, claimed>>
time     == <<late, lapsed>>
memory   == <<priced, guard, todo>>
dayVars  == <<registryVars, slotVars, time, memory, restarts>>

Resting == {s \in Symbols : resting[s] # NoPlan}
Held    == {s \in Symbols : held[s] # NoPlan}
InSlot(p) == \E s \in Symbols : p \in {resting[s], held[s]}

Idle == todo = <<>>

\* The writes of a handler.
Withdraw(S)       == [do |-> "withdraw", symbols |-> S]
Sell(S)           == [do |-> "sell", symbols |-> S]
Claim(p, s)       == [do |-> "claim", plan |-> p, symbol |-> s]
Rest(p, s)        == [do |-> "rest", plan |-> p, symbol |-> s]
Become(p, status) == [do |-> "status", plan |-> p, status |-> status]
Complete(p)       == [do |-> "complete", plan |-> p]

\* Mutant of ForPlan: a plan of the date that is over is taken as well.
ForPlanStored(writes) ==
    IF Stored = {} THEN <<>> ELSE writes[CHOOSE p \in Stored : TRUE]

\* Of the date's plans the handlers only see the active one (active_plans).
ForPlan(writes) == IF Active = {} THEN <<>> ELSE writes[CHOOSE p \in Active : TRUE]

----
\* What the handlers write, in the order of the code.

\* _handle_corporate_action: the symbol's order and position, then the plan.
CorporateAction(s, tradable) ==
    LET cancelled == [p \in PlanIds |->
            IF s \in Approved[p] THEN <<Become(p, "CANCELLED")>> ELSE <<>>]
    IN  <<Withdraw({s})>> \o (IF tradable THEN <<Sell({s})>> ELSE <<>>) \o ForPlan(cancelled)

\* Mutant of ForceClose: pending orders are left alone.
ForceCloseHeld(known) ==
    <<Sell(known)>> \o ForPlan([p \in PlanIds |-> <<Complete(p)>>])

\* force_close_market, which can only price known symbols, then the plan.
ForceClose(known) ==
    <<Withdraw(Symbols), Sell(known)>> \o ForPlan([p \in PlanIds |-> <<Complete(p)>>])

\* A tick below the forced exit, after the broker: the plan has expired, or its
\* signal may be submitted (_try_entry).
Entry(s) ==
    LET expired(p) == <<Become(p, "EXPIRED"), Withdraw(Approved[p])>>
        submitted(p) == <<Claim(p, s), Rest(p, s), Become(p, "RUNNING")>>
    IN  ForPlan([p \in PlanIds |->
            CASE p \in lapsed -> expired(p)
              [] p \notin lapsed /\ s \in Approved[p] -> submitted(p)
              [] OTHER -> <<>>])

----
\* The next write of the running handler.

Take(op) == /\ todo # <<>>
            /\ Head(todo).do = op
            /\ todo' = Tail(todo)

WriteWithdraw ==
    /\ Take("withdraw")
    /\ resting' = [s \in Symbols |-> IF s \in Head(todo).symbols THEN NoPlan ELSE resting[s]]
    /\ UNCHANGED <<registryVars, held, claimed, time, priced, guard, restarts>>

WriteSell ==
    /\ Take("sell")
    /\ held' = [s \in Symbols |-> IF s \in Head(todo).symbols THEN NoPlan ELSE held[s]]
    /\ UNCHANGED <<registryVars, resting, claimed, time, priced, guard, restarts>>

\* Mutant of SlotFree: pending orders do not reserve the slot.
SlotFreeOfPositions == Held = {}

\* can_submit: the market has one slot.
SlotFree == Held = {} /\ Resting = {}

\* submit_entry: the key is claimed before the order is saved ...
WriteClaim ==
    LET entry == <<Head(todo).plan, Head(todo).symbol>>
    IN  /\ Take("claim")
        /\ SlotFree /\ entry \notin claimed
        /\ claimed' = claimed \cup {entry}
        /\ UNCHANGED <<registryVars, resting, held, time, priced, guard, restarts>>

\* ... and no signal, or a refusal for whatever reason, ends the handler.
RefuseClaim ==
    /\ todo # <<>> /\ Head(todo).do = "claim"
    /\ todo' = <<>>
    /\ UNCHANGED <<registryVars, slotVars, time, priced, guard, restarts>>

WriteRest ==
    /\ Take("rest")
    /\ resting' = [resting EXCEPT ![Head(todo).symbol] = Head(todo).plan]
    /\ UNCHANGED <<registryVars, held, claimed, time, priced, guard, restarts>>

\* set_plan_status: any stored plan takes any status.
StatusBecomes(p, status) ==
    /\ plans' = [plans EXCEPT ![p].status = status]
    /\ UNCHANGED <<nonces, rows, issues, clock>>

WriteStatus ==
    /\ Take("status")
    /\ StatusBecomes(Head(todo).plan, Head(todo).status)
    /\ UNCHANGED <<slotVars, time, priced, guard, restarts>>

\* Mutant of FullyClosed: a position that could not be priced is overlooked.
FullyClosedUnchecked == Resting = {}

\* No position and no pending order is left in the market.
FullyClosed == Resting = {} /\ Held = {}

\* The plan completes if nothing is left.
WriteComplete ==
    /\ Take("complete")
    /\ IF FullyClosed THEN StatusBecomes(Head(todo).plan, "COMPLETED")
                      ELSE UNCHANGED registryVars
    /\ UNCHANGED <<slotVars, time, priced, guard, restarts>>

Write == \/ WriteWithdraw \/ WriteSell \/ WriteClaim \/ RefuseClaim \/ WriteRest
         \/ WriteStatus \/ WriteComplete

----
\* The handlers.  A tick leaves the symbol priced, whatever it does.

Tick(s, writes) ==
    /\ Idle
    /\ priced' = priced \cup {s}
    /\ todo' = writes
    /\ UNCHANGED <<registryVars, claimed, time, guard, restarts>>

\* PaperBroker.on_tick: the order may stay, fill in part or in full, or go; the
\* position may open, stay or be closed, with or without the order.
BrokerOnTick(s) ==
    \E order \in {resting[s], NoPlan}, position \in {held[s], resting[s], NoPlan} :
        /\ resting' = [resting EXCEPT ![s] = order]
        /\ held' = [held EXCEPT ![s] = position]

CorporateActionTick(s, tradable) ==
    /\ Tick(s, CorporateAction(s, tradable))
    /\ UNCHANGED <<resting, held>>

HaltedTick(s) ==
    /\ Tick(s, <<Withdraw({s})>>)
    /\ UNCHANGED <<resting, held>>

\* The tick's own time is past the forced exit.
ForcedExitTick(s) ==
    /\ late
    /\ Tick(s, ForceClose(priced'))
    /\ BrokerOnTick(s)

\* The tick's own time is before the forced exit: it may be a little behind the clock.
OpenTick(s) ==
    /\ Tick(s, Entry(s))
    /\ BrokerOnTick(s)

\* session_guard, once a minute until the date is closed.
SessionGuard ==
    /\ Idle /\ late
    /\ guard = "open"
    /\ guard' = "notifying"
    /\ todo' = ForceClose(priced)
    /\ UNCHANGED <<registryVars, slotVars, time, priced, restarts>>

\* The guard awaits its notification; if that fails the date stays open.
Notified ==
    /\ Idle
    /\ guard = "notifying"
    /\ guard' \in {"open", "closed"}
    /\ UNCHANGED <<registryVars, slotVars, time, priced, todo, restarts>>

\* The maintenance thread: an order times out, between any two writes.
Maintenance(s) ==
    /\ s \in Resting
    /\ resting' = [resting EXCEPT ![s] = NoPlan]
    /\ UNCHANGED <<registryVars, held, claimed, time, memory, restarts>>

\* register_plan: a plan that has not expired is approved.
RegisterPlan(p, d, v, c) ==
    /\ Idle
    /\ p \notin lapsed
    /\ ApprovePlan(p, d, v, c)
    /\ UNCHANGED <<slotVars, time, memory, restarts>>

IssueCode(d, c) ==
    /\ Idle
    /\ IssueNonce(d, c)
    /\ UNCHANGED <<slotVars, time, memory, restarts>>

PassForcedExit ==
    /\ ~late
    /\ late' = TRUE
    /\ UNCHANGED <<registryVars, slotVars, lapsed, memory, restarts>>

\* A plan's expiry lies between the forced exit and the close of the session.
PassExpiry(p) ==
    /\ late /\ p \notin lapsed
    /\ lapsed' = lapsed \cup {p}
    /\ UNCHANGED <<registryVars, slotVars, late, memory, restarts>>

\* The process stops wherever it is and starts again on the database.
Restart ==
    /\ restarts < MaxRestarts
    /\ restarts' = restarts + 1
    /\ priced' = {}
    /\ guard' = "open"
    /\ todo' = <<>>
    /\ UNCHANGED <<registryVars, slotVars, time>>

DayInit == /\ RegistryInit
           /\ resting = [s \in Symbols |-> NoPlan]
           /\ held = [s \in Symbols |-> NoPlan]
           /\ claimed = {}
           /\ late = FALSE
           /\ lapsed = {}
           /\ priced = {}
           /\ guard = "open"
           /\ todo = <<>>
           /\ restarts = 0

DayNext ==
    \/ Write
    \/ \E s \in Symbols, tradable \in BOOLEAN : CorporateActionTick(s, tradable)
    \/ \E s \in Symbols : \/ HaltedTick(s) \/ ForcedExitTick(s) \/ OpenTick(s)
                          \/ Maintenance(s)
    \/ SessionGuard
    \/ Notified
    \/ \E p \in PlanIds, d \in Days, v \in 1..MaxVersion, c \in Codes : RegisterPlan(p, d, v, c)
    \/ \E d \in Days, c \in Codes : IssueCode(d, c)
    \/ PassForcedExit
    \/ \E p \in PlanIds : PassExpiry(p)
    \/ Restart

\* The event loop runs its handlers in the order they arrive, so the guard is never
\* overtaken for ever; a running handler ends; the clock passes the forced exit.
DaySpec == /\ DayInit /\ [][DayNext]_dayVars
           /\ WF_dayVars(Write)
           /\ SF_dayVars(SessionGuard)
           /\ WF_dayVars(PassForcedExit)

----
\* Properties.

\* The market's single slot is kept across ticks, crashes and the maintenance
\* thread: the order and the position there are belong to one symbol and one plan
\* (can_submit before claim_idempotency_key and the save).
SlotShared ==
    \A s, t \in Resting \cup Held :
        /\ s = t
        /\ s \in Resting /\ t \in Held => resting[s] = held[t]

\* A completed plan has no order and no position left, also when the forced close
\* could not price a symbol or was cut short (force_close, process_tick).
CompletedFlat ==
    \A p \in Stored : plans[p].status = "COMPLETED" => ~InSlot(p)

\* The handlers, which write statuses from plans read at the start of a tick, only
\* make the registry's own steps and give a status to active plans alone: none that
\* was replaced, completed or cancelled before the tick comes back, with the RUNNING
\* that follows an entry or with any other status (active_plans, set_plan_status).
RegistryKept == RegistrySpec

\* Every plan that is active before the forced exit ends, or a position is left
\* that no tick has priced since the process started (session_guard).
DayEnds ==
    \A p \in PlanIds :
        (p \in Active /\ ~late) ~> \/ p \notin Active
                                   \/ late /\ ~(Held \subseteq priced)

\* Claimed by the documentation and refuted when the process stops between the order
\* and the status (submit_entry, _try_entry): a plan whose order or position is in the
\* market is not replaced.
NotReplacedWhileTrading ==
    [][\A p \in Active : InSlot(p) /\ rows' # rows => p \in Active']_dayVars

\* Claimed by the documentation and refuted when the plan's order rests on another of
\* its symbols (_handle_corporate_action): no position opens for a cancelled plan.
NoEntryOnceCancelled ==
    [][\A s \in Symbols :
          held[s] = NoPlan /\ held'[s] # NoPlan => plans[held'[s]].status # "CANCELLED"]_dayVars

\* Who has the market's slot: the entry that rests or is held, and from its claim on
\* also the one whose order is the next write.
InTheSlot ==
    {k \in PlanIds \X Symbols :
        \/ k[1] \in {resting[k[2]], held[k[2]]}
        \/ ~Idle /\ Head(todo) = Rest(k[1], k[2])}

DayHolder == IF InTheSlot = {} THEN <<>> ELSE CHOOSE k \in InTheSlot : TRUE

DaySlot == INSTANCE EntrySlot WITH
               Entries <- PlanIds \X Symbols, NoEntry <- <<>>,
               holder <- DayHolder, used <- claimed

\* The handlers of the day keep the slot as the broker alone does: an entry has it at
\* most once, although claim and order are two writes and the process may die, or the
\* maintenance thread cancel, between any two (submit_entry, expire_orders).
DaySlotKept == DaySlot!SlotSpec
====
