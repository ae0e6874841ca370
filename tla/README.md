# A TLA+ model of the paper-trading engine

The program receives market ticks for Korean and US stocks, holds a trading plan that a
person has approved with a one-time code, enters and leaves simulated positions by the
plan's rules, and closes everything before the session ends. It sends no real orders. This
directory models the parts whose correctness depends on the order of events: the broker's
book and what a crash leaves of it, the plan registry, the gate between a tick and an entry,
the pullback strategy, the feed process that makes the ticks, and the day that ties them
together.

Paths below are relative to `src/src/daytrader/`.

## The system

| Component | State | Operations | Modelled in |
| --- | --- | --- | --- |
| Paper broker, `broker.py` | per market: cash, one slot of a pending order and a position, daily counters; all of it saved as JSON | `submit_entry`, `process_pending`, `on_tick`, `cancel_pending`, `expire_pending`, `force_close`, `reset_day`, restore | `PaperBroker`, `BrokerCrashes` |
| Order-intent recorder, `kis_orders.py` | a ledger of BUY, CANCEL and SELL intents, each key once | `record_new_order`, `record_cancel_order` | `PaperBroker`, `BrokerCrashes` (`intents`) |
| Plan registry, `repository.py` | approval codes per market and date, plans with version and status | `issue_nonce`, `approve_plan`, `active_plans`, `set_plan_status` | `PlanRegistry` |
| Pullback strategy, `pullback.py` | per plan and symbol: phase, high, low, clock, volume samples; saved as a row | `evaluate`, `reset`, `mark_submission`, `mark_terminal` | `PullbackRebreak` |
| Engine, `engine.py` | latest ticks, previous contexts, feed states (memory only) | `process_tick` and its paths, `_validate_feed`, `_update_feed_state`, `_try_entry` | `EntryGate`, `TradingDay`, `PullbackRebreak` |
| Scheduler, `scheduler.py` | the dates closed (memory only) | session guard, forced close, maintenance, code issue, day reset | `TradingDay`, `PaperBroker` |
| HTTP API, `api.py` | none of its own | registration, code issue, tick ingestion | `TradingDay`, `PlanRegistry` |
| Rules and cross debounce, `rules.py` | a debounce state per cross predicate (memory only) | `evaluate_group`, `evaluate_predicate` | `EntryGate` |
| Feed bridge and minute bars, `feed.py`, `feed_history.py` | latest trade and quote, cumulative volume, sequence, current and completed bars; completed bars saved | `on_record`, `_emit`, `on_trade`, `save`, `load` | `EnrichedFeed` |
| KIS stream, `kis_websocket.py` | connection, subscriptions | the loop of `run` | `EnrichedFeed`; its effect on the engine in `EntryGate` and `PullbackRebreak` |
| Validator, models, configuration, market clock | none | pure functions | shapes and assumptions only |
| Quote poller, `kis_readonly.py` | a token | polls quotes into the engine | its ticks in `EntryGate` |
| Notifier, entry point, dashboard | none that matters | I/O | not modelled |

How they interact. The feed runs in a process of its own and posts ticks to the API; the
poller runs in the engine's process, and nothing keeps both from sending. Ticks, registrations and the asynchronous scheduler jobs run on one event
loop; a handler without an `await` runs to its end before the next one starts. The
synchronous scheduler jobs (maintenance every second, day reset) run in APScheduler's worker
thread on the same portfolio objects, without a lock. Every component writes through the
repository, whose statements hold a lock and commit one by one: a handler is a sequence of
commits and a crash can separate any two. After a restart portfolios, plans and strategy rows
are loaded again; ticks, contexts, feed states and the closed dates are not.

What is hard, and the properties that make each component correct:

- **Broker.** Partial fills interleave with stops, targets, timers, timeouts and
  cancellations, and one slot per market has to survive all of them. Correct means: at most one
  entry at a time and each once; shares, money and recorded intents add up; the daily entry
  and loss limits hold although checks and counts happen at different moments; a resting
  order resolves; what is saved is what is in memory.
- **Registry.** A code approves one plan, of its own day; of a day's plans only the newest is active; versions
  grow along the whole day, not only over the plan that is replaced.
- **Strategy.** Breakout, pullback and rebreak can be undone by new highs, resets, reconnects
  and crashes. Correct means: a pattern that waits or fires satisfies the numbers of
  the plan, its clock and its volume samples belong to the pullback they measure, and every
  change of phase is saved.
- **Entry gate.** Two producers interleave, requests are late, connections, sessions and halts
  come and go. Correct means: no order in a warm-up or on a tick older than one already seen,
  and a crossing is confirmed once, by ticks that really held it, a cooldown after the last.
- **Feed.** Trades come late, twice counted or not at all; connections break, saves fail and
  the process dies. Correct means: bars, sums and rows agree, the volume is neither lost nor
  doubled, what was posted of a bar stays true, and the plans' symbols are subscribed again.
- **The day.** Plan status and slot are written separately. Correct means: a completed plan
  is flat, handlers keep the registry's rules, the day's plans end.

`PROJECT.json` lists the hazards one by one with their lines and the properties aimed at them.

## Modules

| Module | What it is |
| --- | --- |
| `EntrySlot` | abstract: an entry takes the one slot at most once and never gets it back; also with entries that a crash makes forfeit the slot |
| `PaperBroker` | the broker of one market; implements `EntrySlot` |
| `PlanRegistry` | codes and plans; also the abstract registry that `TradingDay` implements |
| `PullbackRebreak` | the strategy for one plan and symbol, with the engine around it |
| `TradingDay` | one date of one market: registry, slot, engine handlers, scheduler, crashes; implements `PlanRegistry` and `EntrySlot` |
| `BrokerCrashes` | extends `PaperBroker`: a crash between any two commits of an operation |
| `EntryGate` | one symbol and one rule-based plan in the engine, with both producers |
| `EnrichedFeed` | the feed process for one symbol, with the exchange, launchd and the bar table |
| `MC...` | instances for TLC |
| `BrokerSlotProofs` | theorems about `PaperBroker`: the saved copy, the refinement of `EntrySlot`, funded orders, the daily limits, money and risk |
| `BrokerCrashesProofs` | theorems about `PaperBroker` and `BrokerCrashes`: share accounts, targets, and what of all this survives crashes |
| `PullbackProofs` | theorems about `PullbackRebreak` |
| other `...Proofs` | theorems about the module they are named after |

### PaperBroker

`book` is the `Portfolio`, `saved` its JSON copy, `intents` the ledger, `claimed` the
idempotency keys, `now` the clock. A handler (`OnTick`, `SubmitAccepted`, `SubmitRefused`,
`CancelPending`, `CorporateAction...`, `ExpirePending`, `ForceClose...`, `ResetDay`) is one
action; inside, each method of the broker is an operator from store to store, composed in
the order of the calls, including every `_save` and every path that forgets one. `OnTick`
splits along the early returns of `on_tick`: nothing due, stop executed, stop triggered
and waiting, timed exit, targets. `Restart` puts `saved` into `book`.

Money is an integer and costs are basis points rounded down; the code uses floats. One clock
stands for a tick's source and receive times. The events it logs are left out.

Two properties say what rounding may do. `CashMatchesLedger`: cash plus the cost of what is held
is never more than the initial cash plus realised profit, at any prices, and exactly that at
`SteadyPrices`, whose fills differ by multiples of every quantity, so that no average price is
rounded. `DailyRiskContained`: if no bid gaps below a stop limit (`NoGaps`), losses of the day plus
the risk still open stay within the daily budget, plus one unit for each share an entry may have
unless the costs of every sale are those of its shares (`WholeExits`). The TLC instances assume
steady prices and whole exits (`ExactPrices`, which TLC evaluates), so the runs check both in the
exact form; the theorems cover both forms.

### BrokerCrashes

Every operation commits more than once: the key is claimed, the intent recorded, the portfolio
saved. A `CrashIn...` action is an operation that stops at one of these points: it takes the
store of `PaperBroker` that the operation has reached, keeps `saved` and `intents` and
replaces `book` by `saved`, because the next thing is a restart. `Recorded` is the point after
the intents and before the save. `crashes` counts them, so that properties of the
undisturbed program can say so.

### EntryGate

`feed` is the `FeedState`, `previous` the level in the previous context, `cross` the
`CrossDebounceState`. A tick is one action with the four outcomes of `process_tick`: rejected
by `_validate_feed`, halted, rejected by `_try_entry` before the rules, or evaluated. The other
conditions of an entry are Booleans of the tick (`admitted`, `allowed`), what the rules see of
prices is a level. The two comparisons of a crossing overlap where `minimum_cross_pct` is 0, its
default: a value exactly at the level ("touching") both was at or below and is at the margin, so that
one tick can confirm a crossing and be what the next one begins from. `Valid` has the age and the
second by which the source time of a tick may be ahead of the engine's clock or of its receipt
(`Tolerance`). `BridgeSendsLate` and `LateArrives` are a request the bridge has given up
on (its HTTP client times out after 5 s) and the server still serves. `Poll` is the poller's tick: its one
connection identifier, and its clock as sequence number. The five history variables
record what the properties speak of: they are computed from ticks and from the decision
alone, not from `warmup_until` or `cross`. An accepted tick of a session other than
"regular" reaches the engine only from other clients of the API; both producers send regular
ones.

### EnrichedFeed

`phase`, `subscribed` and `connection` are the loop of `KISWebSocketStream.run`; `prior`,
`trade`, `quote` and `sequence` the dictionaries of the bridge; `session`, `completed`,
`current` and `volume` the calculator; `disk` the table `minute_bars`. `TradeArrives` is
`on_record` of a trade with `on_trade` and `_emit`, whose `await` comes after all changes.
`load` is the query in its two parts: the `Newest` rows its limit of 20,000 (`MaxRows`) leaves, and
those `InTheirOrder`. Rows beyond the limit stay on disk, and their bars in memory until the next restart.
`SaveFails` and `StopsAfterSave` split `_complete_current` at its commit. A bar is its start and
volume: prices, and with them notional and VWAP, go the way volume goes, and the opening
range is the set of its bars. The exchange prints trades with a growing cumulative volume
and publishes them in any order within the day; what is published without a subscriber is
lost. The minute is the unit of time, the first of each day before the open.

`VolumeExact` measures the session against the exchange: `opened` is what had been traded when
the market opened. Of this, `Leaked` is what the bridge counts into the session all the same: if
premarket trades are missed between a record of the day and the open, the first regular
record brings them in with the difference of the cumulative volumes (`feed.py:239-243`).
`docs/INDICATOR_CONTRACT.ko.md:25-26` defines `vwap_regular` over regular trades only, so this is a
divergence of code and document. The property keeps it in the sum, so that it says how much
too large the volume is and that nothing else is.

### PlanRegistry

Each action is one transaction. `issues` is the history of the codes issued, each with its day;
`CodeRow` is the row `approve_plan` looks up. `OneApprovalPerCode` compares plans with that history: a
plan carries the code and the day of the issue it spent, and no other plan does. The wall-clock
`created_at` that orders plans is a counter (`rows`): the clock is assumed not to be set back between two
approvals of a day, and not to show the same instant at both. `SetPlanStatus` requires an
active plan because its callers only look at active plans; `RegistryKept` of `TradingDay`
shows that this is so. `store_plan` and `consume_nonce` are called by nothing and left out.

### PullbackRebreak

`mem` is the runtime state, `disk` its row. `Evaluated` is `evaluate` without
I/O, one operator per phase. The engine's sequence of saved signal, submission and saved
outcome is three actions (`EvaluateForming` or `RecoverSignal`, `Submit`, `MarkSubmission`), with
`Restart` possible in between. `EntryConfirmed` and `EntryEnds` are also the position of a replaced plan
on the same symbol, because `_sync_pullback_execution_states` does not look at whose it is. What the strategy asks of indicators other than price, ATR, recent
high and bar volume is a Boolean of the tick. A clock unit is the minute of one bar and
never goes back. Left out: `breakout_price`, `breakout_at`, `prior_breakout_confirmed` and
`pullback_depth_atr`, which are only reported, and `session_date`, since a plan is active on
its own date only.

### TradingDay

`resting` and `held` say which plan has an order or a position on a symbol, `plans` and the
other registry variables come from `PlanRegistry`. A handler puts its durable writes into
`todo`; `Write...` actions make them one by one. `Restart` may drop the rest of the list
and `Maintenance` may come between two writes; other handlers wait until it is empty, as on
the event loop. `BrokerOnTick` allows every outcome `PaperBroker` can have for a symbol; its own
writes are one step here. `ForcedExitTick`, `OpenTick`, `HaltedTick` and
`CorporateActionTick` are the paths of `process_tick`; `OpenTick` stays possible after the
forced exit because a tick's source time may lag behind the wall clock. `SessionGuard` and
`Notified` are separate because `force_close` awaits the notifier before the date is marked. `InTheSlot`
maps the day to `EntrySlot`: who rests or is held has the slot, or whose claimed order is the next write.

## Runs

| Run | Question | Bounds and why they are enough |
| --- | --- | --- |
| `broker_slot` | exclusive slot, implemented `EntrySlot`, intents, daily entry limit and loss budget | 2 plans and 2 symbols so that two entries compete, 2 entries a day, up to 2 shares for partial fills, 4 clock units with a date change at 3, latency 1, timeout 3: orders fill, expire, or straddle the date; no halt, and no bid gaps below a stop limit, as the budget assumes |
| `broker_fills` | share and money accounting, funded orders, saved copy, ledger ahead of the book, moved stop, orders resolve | 1 symbol with 3 targets and every exit, 3 shares (three partial fills, every rounding of targets), quotes that fill at two prices, reach the limit only without slippage, halt, gap, and reach one or two targets, 4 clock units, one crash inside any operation and any number between operations, prices that make every cost exact |
| `plan_registry` | single-use codes, one active plan, growing versions | 2 days, 3 plans, 2 codes, 3 versions, 3 issues, codes that expire within the run |
| `pullback` | sound patterns | 8 ticks around the level that rise, fall, invalidate, lack volume or indicators; samples of 2 bars so that they overflow; 5 minutes, a breakout counted up to 2 ticks (checked with 3 as well), pullbacks of 1 to 2; 2 connections |
| `trading_day` | slot, completion, registry rules, end of the day | 2 symbols, a plan of both and a revision of one, 1 crash anywhere |
| `entry_gate` | no order in the warm-up or on an old tick; confirmations sound, single and apart | 6 kinds of ticks that tell the rejections, the crossing (below, exactly at, between and above) and the disturbances apart, for the bridge, and the poller's tick with bid = ask; 5 ticks of 2 connections (checked with 6 as well), one late at a time and of one kind, 4 instants; source times up to 1 ahead, as the tolerance allows, so that a tick may still be valid, or a run begin, an instant later; warm-up 3 against the 2 that `EntryInOrder` needs; 2 ticks over 1 instant confirm, 2 instants apart |
| `feed` | bars, volume, rows, numbering, posted bars, subscriptions | 2 days of 3 minutes, 4 trades of which 2 may be waiting to be published, in any order; no quotes after the first tick; `load` reads 2 rows, as many as a day has bars, so that the first day's rows fall out of it; 2 changes of the plans, so that the symbol is dropped and taken up again, 1 failure of any kind at any point; enough for premarket volume to be missed before the open, for a trade to come late after a restart within the opening range, and for a row to be left unread. Checked with 1 change among 2 symbols as well |
| `broker_entry_count`, `broker_exit_mark`, `pullback_signal`, `day_replace`, `day_corporate` | statements of the documentation that the code does not keep | see Findings |

`CHECK_DEADLOCK FALSE` is set throughout: clocks, versions and codes are bounded, so a
behaviour may end at the bounds.

Symmetry (of plans) is used in `plan_registry` and `broker_slot`; the other instances give plans and
symbols different roles or check liveness.

### Fairness

- `broker_fills`: weak fairness of `Elapse` (time passes) and of `ExpirePending` (the
  maintenance job runs every second, `scheduler.py:108`). No fairness of ticks: the point is
  that none may come.
- `feed`: weak fairness of the steps of the loop and of `Launched`. `Connected` and
  `ReadSubscriptions` are steps of a coroutine, `BackoffEnds` and `Refresh` wait for asyncio
  timers, and launchd restarts the process (`KeepAlive`). Failures are bounded, so that
  the property is about what happens after the last. No fairness of trades, quotes, plans or the
  clock.
- `trading_day`: weak fairness of `Write` (a handler that has started goes on), strong
  fairness of `SessionGuard` (the event loop serves callbacks in the order they became ready,
  so ticks can delay the guard but not for ever) and weak fairness of `PassForcedExit`. No
  fairness of ticks, of maintenance or of the notification.

### Findings

1. A timed exit sells a partially filled position but leaves its order; the next fill opens a
   position that does not count as an entry, against `src/README.md:187` (`broker_entry_count`).
2. The mark of a triggered stop is in memory only; a restart forgets it and restarts the
   emergency timeout, against `src/README.md:190` (`broker_exit_mark`).
3. A signal saved before a crash is submitted after it on a tick that need not meet any
   condition, against `docs/PULLBACK_STRATEGY.ko.md:70` (`pullback_signal`).
4. A crash between the order and the plan's RUNNING status lets a revision replace a plan
   with an order in the market, against `docs/SAFETY_ENHANCEMENTS.ko.md:26` (`day_replace`).
5. A corporate action cancels a plan but not its order on another symbol, which can still
   fill, against `docs/INDICATOR_CONTRACT.ko.md:66-68` (`day_corporate`).

## Proofs

TLAPS proves, for all values of the constants that satisfy the named assumptions:

| Module | Theorem | What it states |
| --- | --- | --- |
| `PaperBrokerProofs` | `TypeCorrect`, `OneSlot`, `LeavingIsFinal` | `TypeOK`, `SlotExclusive`, `LeavingHasNoOrder` |
| `BrokerSlotProofs` | `RestartLosesNothing`, `SlotImplemented` | `SavedIsCurrent`, and `SlotKept`: `EntrySlot` is implemented |
| | `OrdersFunded`, `EntriesLimited` | `OrderFunded`, `DailyEntryLimit` |
| | `MoneyKept`, `RiskContained` | `CashMatchesLedger`, `DailyRiskContained` |
| `BrokerCrashesProofs` | `SharesAccountedFor`, `TargetsAddUp` | `IntentsMatchBook`, `TargetsMatchRemaining` |
| | `LedgerLeadsThroughCrashes`, `StopFollows` | `LedgerLeads`, `StopFollowsFirstTarget` of `BrokerCrashes` |
| | `CrashSoundness`, `SafeThroughCrashes` | the invariant behind them; and that types, the slot, leaving positions and targets survive a crash inside any operation |
| | `MoneyThroughCrashes`, `SlotThroughCrashes` | so do `CashMatchesLedger` and `DailyRiskContained`; and `SlotKeptThroughCrashes`: `EntrySlot` with forfeits is implemented |
| `PlanRegistryProofs` | `RegistryTypeCorrect`, `OneActivePlan`, `VersionsGrow`, `CodeIsSingleUse` | the four invariants of `plan_registry` |
| `EntryGateProofs` | `GateTypeCorrect`, `WarmupRespected`, `OrdersInOrder`, `RunHeld`, `OncePerCrossing`, `CooldownRespected` | all six properties of `entry_gate` |
| `PullbackProofs` | `StrategyTypeCorrect`, `PatternIsSound`, `ClockRunsWhileDeep`, `BarsCountOnce`, `PatternIsSaved` | all five properties of `pullback`: `StrategyTypeOK`, `PatternSound`, `TimedWhileDeep`, `BarsInOrder`, `PatternSaved` |
| `TradingDayProofs` | `OneOwnerPerSlot`, `CompletedIsFlat`, `DayKeepsRegistry` | `SlotShared`, `CompletedFlat`, `RegistryKept` |
| | `OneActivePlanAllDay` | `ActiveIsLatest` of the registry, under the handlers of the day |
| | `DayKeepsSlot` | `DaySlotKept`: the day implements the `EntrySlot` that the broker implements |
| `EnrichedFeedProofs` | `FeedTypeCorrect`, `DiskMatchesMemory`, `SessionAddsUp`, `VolumeAgrees` | `FeedTypeOK`, `DiskIsCompleted`, `SessionIsBars`, `VolumeExact` |
| | `NumberingCorrect`, `PostsAreFinal` | the action properties `TicksNumbered` and `PostedBarsStay` |

**The broker's argument.** The three properties are not inductive: a restart replaces the book
by the saved copy, so whatever holds of one must hold of the other, and handlers pass
through intermediate stores. The invariant therefore says of *both* copies that they are well
typed and `Sound`: every order still has shares to buy, every position shares to sell, all
occupied symbols are one symbol, its order and its position belong to one plan, the entry is
claimed, and a leaving position has no order. A lemma per operation shows that it takes good
stores to good stores; each action composes these lemmas along its calls. That every position has shares
left is what makes a closed position leave the book, and it needs the sizes of the targets.

**The slot's and the limits' argument.** Every operation leaves book and copy alone or ends
in a save, except for the two fields `SavedIsCurrent` leaves out: this is `Synced`, added to
the invariant. The lemmas of `PaperBrokerProofs` are about soundness for *any* set of claims.
Taking the entries that now occupy the slot for the claims, and with `Synced` the same on disk,
they say that whatever a handler leaves in the slot was there before: a handler can only
release the slot, and only an accepted entry takes it, whose key is then new.
For the limits, `Within` adds that an order without a fill still has an entry of the day to
take, which is what keeps the count within its limit when it moves at the first fill; and that
fees grow with the price, so that a fill at or below the limit leaves enough cash for the rest.

**The argument for money and risk.** Both are parts of `Within`, which holds of the book and,
by `Synced`, of its copy. *Money*: only a fill and a sale move it, and a fill replaces the average
by one rounded down, so that the book can lose track of some cost but never gain; equality needs
that the next fill does not round either (`Even`), a fact about what was paid so far. *Risk*: the
order reserves for each share what it loses from the limit price to the stop limit.
A fill is at or below the limit, so the share takes its part of the reserve along; a sale without a
gap yields at least the stop limit, and stops only move up; so a loss is never more than what was
reserved for the shares sold. A part of a position pays costs rounded on their own, at
most one unit for each share (`Grain`). That no entry ever has more shares than it asked for, and
that no position is sold in part while its order rests, is `Sized`, and bounds the units
by `max_quantity`. A new day starts the loss at zero with what is held still within
the budget. A crash inside an operation brings back the copy last saved, which agrees in money with a
book that the operation has passed through (`Settled`), so `Within` holds of it too.

**The argument for shares, targets and crashes.** Every entry has an account: what rests, what
is held, and what the ledger says was bought, cancelled and sold. Each
operation moves accounts by three moves only (a fill, a withdrawal, a sale), and
positions by a few more (a target hit, the stop moved, the mark of leaving). Facts that are closed
under the moves hold of every store an operation passes through, in whatever order it makes
them: an entry never submitted has an empty account, the ledger's books balance, the ledger is
never behind the book, targets cover exactly what is left, the stop of a position with its first target
hit is not below its entry. Without a crash ledger and book are equal at the end of each
operation, which is `IntentsMatchBook`. A crash leaves the saved copy of before the operation
and a ledger that may be further: `Sure` is what such a store still has, namely
everything except the equality; for orders and positions that the copy has and the
ledger has already withdrawn or sold, it keeps only `Ahead`. `CrashInv` says this of both copies, and
equality as long as `crashes` is 0. For the slot, a crash in any other operation than a submission
leaves occupants of before, so it releases the slot or leaves it alone. In a submission
the key is claimed before anything else is stored: the entry forfeits the slot, and plain
`EntrySlot` is violated, which knows no used entry that never had it.

**The registry's argument.** Added to the properties: rows are numbered without gaps
below `rows`, which makes the latest plan unique and later than all others; a day with
plans has a latest one, so that the version check really compares with it; every stored
plan carries the serial of an issued code; and the code now valid for a day, if unused,
has approved no plan. Each serial is the number of an issue, and rows and plans carry the day and the
code of theirs.

**The gate's argument.** The properties speak of the history of ticks; `EngineInv` relates it to
what the engine keeps. The warm-up is the one of the last disturbance. Nothing newer than the
last tick was accepted, except before a disturbance, and then it is newer than the disturbance by at
most the age and the tolerance: this is why a warm-up of `2 * MaxAge + 2 * Tolerance` keeps orders in
order, although sequences are compared within a connection only. By default the
warm-up is 60 s, the age 3 s and the tolerance 1 s. A crossing under way began with a tick at or
below that no confirmation has used (the tick that confirmed the last crossing included, if it was
exactly at the level), and is part of the recorded run of ticks above. The last
confirmation is remembered, or a disturbance lies between. Each part survives a tick whoever sends it and
however late, given `ProducersInv`: a tick on its way was received no later than now; how far
its source time may be ahead is checked when it arrives.

**The strategy's argument.** The same conditions are required of memory and row, because a
restart replaces one by the other: what each phase has recorded of high, low, clock and samples,
that the clock is not ahead of the present, and that samples are of distinct bars since the
clock started. Added to the properties are `OutcomeOfSignal` (an outcome waiting
to be saved belongs to a saved signal) and what the engine's memory may be between the three commits.

**The day's argument.** `DayInv` speaks of the writes still in `todo`: they are of the form their
handler gives them, they concern active plans, an order is written after its claim, and a status comes
last. With them it can be said when a completed plan may still own something (only while the
write that takes it away is due) and why whoever rests owns the slot. Dropping the rest of the list in a crash must preserve it all, which is why the
order of the writes is part of the invariant. Each step of the day is a step of the registry or
leaves it alone; that is `RegistryKept`, and with it the registry's own theorems hold of the day.
For the slot, the entry has it from its claim on: the order is the next write of the same list
(`RestFollowsClaim`), so what a crash or a cancellation in between does is a release. No
other step adds an owner or makes an order due, and `SlotShared` with `RestFindsSlot` leaves at most one.

**The feed's argument.** The invariant has layers, each proved from those below. *Order*: trades waiting to be
published are of today and numbered in the exchange's order, days only pass,
completed bars lie before now, rows are of regular minutes of days up to the last session
(`RowsOfDays`), and those that `load` still reads are in memory. A session that goes on after a restart needs all
of its rows: they are the newest, and a day has no more than `MaxRows` (`LastDayRead`). *Volume*: a trade
lies wholly below or above the highest cumulative volume of the session (`PendingFits`), so a late
one is recognised and one in order adds what is missing, or less after a restart; what was saved
never exceeds what memory had, and a session without a gap has all of it (`VolumeSound`). What it is
measured from is the volume at the open less what leaked (`Base`); that a regular trade not yet published
lies after the open is `PendingSinceOpen`.
*Posted bars*: completed bars are older than the current one, the range is
final once its minutes are over, and a trade that arrives in order belongs to no bar already closed.
Sums over sets and the replay by `load` are folds; what a fold computes is proved by
the least element of a set of counterexamples (`Least`, `FoldRuns`), since induction theorems
with an operator parameter cannot be instantiated.

**Assumptions** are those declared in the modules: types of the configuration, one to
three targets, fees together at most 100 per cent and a stop offset of at most 100 per cent.
The last two are not checked by the configuration classes in this form, but no sensible
configuration violates them; they keep a sale from costing money. For the gate: a
tick without the indicator is not admitted, which is how `_try_entry` treats missing indicators.
For the feed: a restart reads at least
the bars of one day (`MaxRows`; 20,000 rows against at most 390 bars of a session). For the day: the mark of an empty slot is not the identifier of a plan.
TLC evaluates all of them.

Only model-checked:

- `OrderResolved`, `DayEnds` and `SubscriptionsFollow`, which are liveness properties and out of the
  prover's reach.
- The counterexamples of the five runs that expect a violation.

## Not modelled, and why

- Two threads inside one broker operation. The maintenance job really can run in the middle of
  `on_tick`; `TradingDay` lets it come between writes only. At the level of that module a fill
  that races an expiry has the outcome of a fill or of an expiry. What no module has
  is the quantities of such a race: a fill of an order whose whole remainder was just recorded
  as cancelled, or a copy saved half-way through a fill. Both need the statements of
  `process_tick` and `cancel_pending` as separate steps, a second transcription of
  the broker rather than a model of it.
- The formulas of the indicators (ATR, VWAP, EMA, relative volume), the float arithmetic of
  allocations beyond what the quantities need, frames and their decoding: data. The
  modules take their results as members of small sets.
- `reference_symbol` and `market_above_vwap` in rules: one more Boolean of a tick
  (`admitted`).
- `import_csv` of the history, the cache of the approval key, the growing length of the backoff,
  `ping_interval=None` (a dead connection is noticed by the next failed send only).
- Plan validation beyond what the broker and the registry rely on: a stateless check of
  formats, ranges and hashes.
- The Telegram notifier (only that awaiting it lets other handlers run is modelled, in
  `TradingDay`), the HTTP formats, the calendars, the entry point: I/O.

## Plan

Done: all modules above and their proofs. What is left, in this order:

1. `BrokerThreads`: `on_tick` and `expire_pending` in steps on one book, if the broker is ever
   given a lock whose use is worth checking.
2. Target allocation and plan validation as pure operators, against a reference definition.
3. A lower bound for `CashMatchesLedger` at prices that round: how much of the cost the averages
   may lose, for each fill of an entry.

## Running

    tlc -workers 2 -config BrokerSlot.cfg MCPaperBroker.tla
    tlapm PaperBrokerProofs.tla

The module of each configuration is named in `PROJECT.json`.
