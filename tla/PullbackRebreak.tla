---- MODULE PullbackRebreak ----
(***************************************************************************)
(* The pullback-rebreak strategy of one plan and symbol                    *)
(* (src/src/daytrader/pullback.py) inside the engine that feeds it ticks   *)
(* (engine.py): a breakout of the opening range, a pullback of limited     *)
(* depth and duration on falling volume, a break of the pullback's high.   *)
(*                                                                         *)
(* The strategy's state is kept in memory and written to strategy_states   *)
(* ("disk") at nearly every step.  The engine saves a signal, submits the  *)
(* entry and saves the outcome one after the other: these are separate     *)
(* actions, and the process may stop between them.                         *)
(*                                                                         *)
(* Prices are integers, a clock unit is the minute of one bar, and what    *)
(* the strategy asks of the other indicators is a Boolean of the tick.     *)
(***************************************************************************)
EXTENDS Integers, SequencesExt

CONSTANTS
    Ticks,          \* the quotes, with their indicators, a tick may carry
    OpeningHigh,    \* opening_range_5_high, fixed once it is ready
    ConfirmTicks, HoldTime,  \* breakout_confirm_ticks, breakout_hold_ms
    MinDepth, MaxDepth,      \* pullback_depth_atr_min and _max, in percent
    MinMinutes, MaxMinutes,  \* pullback_min_minutes and _max_minutes
    MaxRatio,       \* pullback_volume_ratio_max, in percent
    SampleSize,     \* how many bars a volume sample keeps (20 in the code)
    MaxConnections, \* bound: highest connection identifier
    MaxCount,       \* bound: highest breakout_confirm_count
    Horizon,        \* bound: the clock stops here
    NoTick          \* no signal is being submitted

None == -1 \* a value that is not set

\* strong: above VWAP with aligned averages on high relative volume; support: VWAP
\* and EMA20 hold; calm: the RSI of a pullback; good: every condition of the
\* rebreak but the cross itself, the entry window included.
Tick == [last: Nat \ {0}, atr: Nat, recent_high: Nat \ {0}, volume: Nat \ {0},
         strong: BOOLEAN, support: BOOLEAN, calm: BOOLEAN, good: BOOLEAN]

Forming  == {"WAIT_BREAKOUT", "WAIT_PULLBACK", "WAIT_REBREAK"}
Settled  == {"ENTRY_PENDING", "POSITION_OPEN", "RISK_BLOCKED", "CLOSED", "CANCELLED", "EXPIRED"}

Bar   == [minute: Nat, volume: Nat \ {0}]
State == [phase: Forming \cup {"SIGNAL_TRIGGERED"} \cup Settled,
          connection_id: Nat \cup {None},
          breakout_candidate_started: Nat \cup {None}, breakout_confirm_count: Nat,
          impulse_high: Nat \cup {None}, atr_at_breakout: Nat \cup {None},
          pullback_started_at: Nat \cup {None}, pullback_low: Nat \cup {None},
          pullback_high: Nat \cup {None}, last_volume_timestamp: Nat \cup {None},
          impulse_volumes: Seq(Bar), pullback_volumes: Seq(Bar)]

ASSUME StrategyAssumption ==
    /\ Ticks \subseteq Tick /\ NoTick \notin Tick
    /\ OpeningHigh \in Nat /\ ConfirmTicks \in Nat \ {0} /\ HoldTime \in Nat
    /\ MinDepth \in Nat \ {0} /\ MaxDepth \in Nat /\ MinDepth < MaxDepth
    /\ MinMinutes \in Nat /\ MaxMinutes \in Nat /\ MinMinutes < MaxMinutes
    /\ MaxRatio \in Nat /\ SampleSize \in Nat \ {0}
    /\ MaxConnections \in Nat /\ MaxCount \in Nat /\ Horizon \in Nat

VARIABLES
    mem,      \* the runtime state
    disk,     \* the row of strategy_states
    previous, \* the last price of the engine's previous context
    feed,     \* the connection the engine last saw for the symbol
    conn,     \* the connection that delivers ticks
    signal,   \* the tick whose signal the engine is submitting
    outcome,  \* what the broker has answered to it
    entry,    \* the entry of this plan and symbol: none yet, resting or held, over
    active,   \* the plan is armed or running
    now

strategyVars == <<mem, disk, previous, feed, conn, signal, outcome, entry, active, now>>

----
\* The strategy's state.

Larger(a, b)  == IF a >= b THEN a ELSE b
Smaller(a, b) == IF a <= b THEN a ELSE b

Fresh == [phase |-> "WAIT_BREAKOUT", connection_id |-> None,
          breakout_candidate_started |-> None, breakout_confirm_count |-> 0,
          impulse_high |-> None, atr_at_breakout |-> None, pullback_started_at |-> None,
          pullback_low |-> None, pullback_high |-> None, last_volume_timestamp |-> None,
          impulse_volumes |-> <<>>, pullback_volumes |-> <<>>]

Reset == [Fresh EXCEPT !.connection_id = conn]

\* A state of another connection is not continued.
InContext(st) == IF st.connection_id \in {None, conn}
                 THEN [st EXCEPT !.connection_id = conn]
                 ELSE Reset

\* Mutant of Sampled: one bar too many is kept.
SampledOneMore(sample, bar) ==
    IF Len(sample) <= SampleSize THEN Append(sample, bar) ELSE Append(Tail(sample), bar)

\* A sample of the latest SampleSize bars.
Sampled(sample, bar) ==
    IF Len(sample) < SampleSize THEN Append(sample, bar) ELSE Append(Tail(sample), bar)

\* Mutant of RecordVolume: a bar counts at every tick.
RecordVolumeAgain(st, t, sample) ==
    LET counted == [st EXCEPT !.last_volume_timestamp = now]
        bar == [minute |-> now, volume |-> t.volume]
    IN  CASE sample = "impulse"  -> [counted EXCEPT !.impulse_volumes = Sampled(@, bar)]
          [] sample = "pullback" -> [counted EXCEPT !.pullback_volumes = Sampled(@, bar)]

\* The last bar's volume goes to one sample, once.
RecordVolume(st, t, sample) ==
    LET counted == [st EXCEPT !.last_volume_timestamp = now]
        bar == [minute |-> now, volume |-> t.volume]
    IN  CASE st.last_volume_timestamp = now -> st
          [] st.last_volume_timestamp # now /\ sample = "impulse"
                -> [counted EXCEPT !.impulse_volumes = Sampled(@, bar)]
          [] st.last_volume_timestamp # now /\ sample = "pullback"
                -> [counted EXCEPT !.pullback_volumes = Sampled(@, bar)]

Volume(sample) == FoldLeft(LAMBDA sum, bar : sum + bar.volume, 0, sample)

\* The pullback's mean volume over the impulse's mean volume.
VolumeFalls(st) ==
    /\ st.impulse_volumes # <<>> /\ st.pullback_volumes # <<>>
    /\ Volume(st.pullback_volumes) * Len(st.impulse_volumes) * 100
        <= MaxRatio * Volume(st.impulse_volumes) * Len(st.pullback_volumes)

Crosses(t, level) == previous # None /\ previous <= level /\ t.last > level

----
\* evaluate, one operator per phase.

BreaksOut(t) == Crosses(t, OpeningHigh) /\ t.strong /\ t.last > OpeningHigh

HoldsOut(st, t) ==
    /\ ~BreaksOut(t) /\ st.breakout_confirm_count > 0
    /\ t.strong /\ t.last > OpeningHigh

\* A breakout candidate starts, is held for another tick, or is dropped.
Watched(st, t) ==
    CASE BreaksOut(t) ->
            [st EXCEPT !.impulse_volumes = <<>>, !.pullback_volumes = <<>>,
                       !.last_volume_timestamp = None, !.breakout_candidate_started = now,
                       !.breakout_confirm_count = 1, !.impulse_high = t.last,
                       !.atr_at_breakout = t.atr]
      [] HoldsOut(st, t) ->
            [st EXCEPT !.breakout_confirm_count = @ + 1, !.impulse_high = Larger(@, t.last)]
      [] OTHER ->
            [st EXCEPT !.breakout_candidate_started = None,
                       !.breakout_confirm_count = 0, !.impulse_high = None]

AfterBreakoutTick(st, t) ==
    LET watched == Watched(st, t)
        counted == IF watched.breakout_confirm_count = 0 THEN watched
                   ELSE RecordVolume(watched, t, "impulse")
    IN  IF /\ counted.breakout_confirm_count >= ConfirmTicks
           /\ now - counted.breakout_candidate_started >= HoldTime
        THEN [counted EXCEPT !.phase = "WAIT_PULLBACK"]
        ELSE counted

NewHigh(st, t) == st.phase = "WAIT_PULLBACK" /\ t.last > st.impulse_high

\* Mutant of Extended: a new high does not stop the pullback's clock.
ExtendedKeepingTimer(st, t) ==
    IF NewHigh(st, t)
    THEN RecordVolume([st EXCEPT !.impulse_high = t.last, !.pullback_low = t.last,
                                 !.pullback_volumes = <<>>], t, "impulse")
    ELSE [st EXCEPT !.impulse_high = Larger(@, t.last),
                    !.pullback_low = IF @ = None THEN t.last ELSE Smaller(@, t.last)]

\* While waiting for the pullback a new high starts the measure again; otherwise
\* the high rises and the low falls with the price.
Extended(st, t) ==
    IF NewHigh(st, t)
    THEN RecordVolume([st EXCEPT !.impulse_high = t.last, !.pullback_low = t.last,
                                 !.pullback_started_at = None, !.pullback_volumes = <<>>],
                      t, "impulse")
    ELSE [st EXCEPT !.impulse_high = Larger(@, t.last),
                    !.pullback_low = IF @ = None THEN t.last ELSE Smaller(@, t.last)]

\* The depth of the pullback against a percentage of the ATR at the breakout.
Depth(st) == (st.impulse_high - st.pullback_low) * 100

\* Mutant of Invalid: only the supports are looked at.
InvalidBySupport(st, t) == ~t.support

Invalid(st, t) == Depth(st) > MaxDepth * st.atr_at_breakout \/ ~t.support

Overdue(st) == now - st.pullback_started_at > MaxMinutes

\* The pullback is deep, long and quiet enough: remember its high.
Confirmed(st, t) ==
    IF /\ now - st.pullback_started_at >= MinMinutes
       /\ t.calm /\ VolumeFalls(st)
    THEN [st EXCEPT !.phase = "WAIT_REBREAK",
                    !.pullback_high = Larger(t.last, Smaller(t.recent_high, st.impulse_high))]
    ELSE st

AfterPullbackTick(st, t) ==
    LET begun == [st EXCEPT !.pullback_started_at = IF @ = None THEN now ELSE @]
        counted == RecordVolume(begun, t, "pullback")
    IN  CASE Depth(st) < MinDepth * st.atr_at_breakout -> RecordVolume(st, t, "impulse")
          [] Depth(st) >= MinDepth * st.atr_at_breakout /\ Overdue(counted) -> Reset
          [] OTHER -> Confirmed(counted, t)

AfterRebreakTick(st, t) ==
    CASE Overdue(st) -> Reset
      [] ~Overdue(st) /\ t.good /\ Crosses(t, st.pullback_high)
            -> [st EXCEPT !.phase = "SIGNAL_TRIGGERED"]
      [] OTHER -> st

\* What an evaluated tick makes of a state in one of the forming phases.
Evaluated(st, t) ==
    LET extended == Extended(st, t)
    IN  CASE st.phase = "WAIT_BREAKOUT" -> AfterBreakoutTick(st, t)
          [] st.phase # "WAIT_BREAKOUT" /\ Invalid(extended, t) -> Reset
          [] st.phase = "WAIT_PULLBACK" /\ ~Invalid(extended, t) -> AfterPullbackTick(extended, t)
          [] st.phase = "WAIT_REBREAK" /\ ~Invalid(extended, t) -> AfterRebreakTick(extended, t)

----
\* The engine.

Idle == active /\ signal = NoTick

\* The tick belongs to the connection the engine knows, or to the first one.
KnownFeed == feed \in {None, conn}

\* Mutant of Marked: the new phase is not saved.
MarkedUnsaved(st, phase) == /\ mem' = [st EXCEPT !.phase = phase]
                            /\ UNCHANGED disk

\* _transition: the state is saved with its new phase.
Marked(st, phase) == /\ mem' = [st EXCEPT !.phase = phase]
                     /\ disk' = mem'

\* A tick leaves its price in the engine's previous context unless bid equals ask.
KeepsPrice(before) == previous' \in {before} \cup {t.last : t \in Ticks}

\* The first tick of another connection or session discards what was observed.
ContextReset ==
    /\ Idle /\ feed # None
    /\ mem' = Reset /\ disk' = Reset
    /\ KeepsPrice(None)
    /\ feed' = conn
    /\ UNCHANGED <<conn, signal, outcome, entry, active, now>>

\* So does a halt, which also forgets the last price.
Halted ==
    /\ Idle
    /\ mem' = Reset /\ disk' = Reset
    /\ previous' = None
    /\ feed' = conn
    /\ UNCHANGED <<conn, signal, outcome, entry, active, now>>

\* The tick fails one of the engine's own checks and leaves at most its price.
NotEvaluated ==
    /\ Idle /\ KnownFeed
    /\ KeepsPrice(previous)
    /\ feed' = conn
    /\ UNCHANGED <<mem, disk, conn, signal, outcome, entry, active, now>>

\* An evaluated tick finds nothing to do: only a context reset is saved.
EvaluateNothing(t) ==
    /\ Idle /\ KnownFeed /\ entry # "open"
    /\ t.atr = 0 \/ InContext(mem).phase \in Settled
    /\ mem' = InContext(mem)
    /\ disk' = IF mem.connection_id \in {None, conn} THEN disk ELSE Reset
    /\ previous' = t.last
    /\ feed' = conn
    /\ UNCHANGED <<conn, signal, outcome, entry, active, now>>

\* An evaluated tick moves the pattern, which is saved.
EvaluateForming(t) ==
    /\ Idle /\ KnownFeed /\ entry # "open"
    /\ t.atr > 0 /\ InContext(mem).phase \in Forming
    /\ mem' = Evaluated(InContext(mem), t)
    /\ mem'.breakout_confirm_count <= MaxCount
    /\ disk' = mem'
    /\ IF mem'.phase = "SIGNAL_TRIGGERED"
       THEN signal' = t /\ UNCHANGED previous
       ELSE previous' = t.last /\ UNCHANGED signal
    /\ feed' = conn
    /\ UNCHANGED <<conn, outcome, entry, active, now>>

\* A signal saved before a crash is taken up again.
RecoverSignal(t) ==
    /\ Idle /\ KnownFeed /\ entry # "open"
    /\ t.atr > 0 /\ InContext(mem).phase = "SIGNAL_TRIGGERED"
    /\ mem' = InContext(mem)
    /\ signal' = t
    /\ feed' = conn
    /\ UNCHANGED <<disk, previous, conn, outcome, entry, active, now>>

\* submit_entry accepts an entry once and may refuse it for its own reasons.
Submit ==
    /\ signal # NoTick /\ outcome = "none"
    /\ \/ entry = "none" /\ entry' = "open" /\ outcome' = "accepted"
       \/ outcome' = "refused" /\ UNCHANGED entry
    /\ UNCHANGED <<mem, disk, previous, feed, conn, signal, active, now>>

\* mark_submission, which ends the handler.
MarkSubmission ==
    /\ outcome # "none"
    /\ Marked(mem, IF outcome = "accepted" THEN "ENTRY_PENDING" ELSE "RISK_BLOCKED")
    /\ previous' = signal.last
    /\ signal' = NoTick
    /\ outcome' = "none"
    /\ UNCHANGED <<feed, conn, entry, active, now>>

\* A tick finds the plan's resting order, or a position, which may be that of a plan
\* it has replaced.
EntryConfirmed(phase) ==
    /\ Idle /\ KnownFeed
    /\ \/ phase = "ENTRY_PENDING" /\ entry = "open"
       \/ phase = "POSITION_OPEN"
    /\ Marked(mem, phase)
    /\ KeepsPrice(previous)
    /\ feed' = conn
    /\ UNCHANGED <<conn, signal, outcome, entry, active, now>>

\* A tick ends the order or position, whose ever it was, and the strategy is told.
EntryEnds(phase) ==
    /\ Idle /\ KnownFeed
    /\ phase \in {"CLOSED", "EXPIRED"}
    /\ entry' = IF entry = "open" THEN "over" ELSE entry
    /\ Marked(mem, phase)
    /\ KeepsPrice(previous)
    /\ feed' = conn
    /\ UNCHANGED <<conn, signal, outcome, active, now>>

\* Maintenance or the scheduler ends it, and nobody tells the strategy ...
EntryEndsUnseen ==
    /\ Idle /\ entry = "open"
    /\ entry' = "over"
    /\ UNCHANGED <<mem, disk, previous, feed, conn, signal, outcome, active, now>>

\* ... until a tick finds the order gone.
EntryFoundOver(t, phase) ==
    /\ Idle /\ KnownFeed /\ entry = "over"
    /\ mem.phase = "ENTRY_PENDING"
    /\ phase \in {"CLOSED", "EXPIRED", "CANCELLED"}
    /\ Marked(mem, phase)
    /\ previous' = t.last
    /\ feed' = conn
    /\ UNCHANGED <<conn, signal, outcome, entry, active, now>>

\* A corporate action, the plan's expiry or the forced close ends the plan.
PlanEnds(phase) ==
    /\ Idle
    /\ phase \in {"CANCELLED", "EXPIRED", "CLOSED"}
    /\ active' = FALSE
    /\ Marked(mem, phase)
    /\ feed' = conn
    /\ UNCHANGED <<previous, conn, signal, outcome, entry, now>>

\* The feed reconnects.
Reconnect ==
    /\ signal = NoTick /\ conn < MaxConnections
    /\ conn' = conn + 1
    /\ UNCHANGED <<mem, disk, previous, feed, signal, outcome, entry, active, now>>

\* The process stops, in the middle of a handler or not, and starts again.
Restart ==
    /\ mem' = disk
    /\ previous' = None /\ feed' = None
    /\ signal' = NoTick /\ outcome' = "none"
    /\ UNCHANGED <<disk, conn, entry, active, now>>

Elapse ==
    /\ signal = NoTick /\ now < Horizon
    /\ now' = now + 1
    /\ UNCHANGED <<mem, disk, previous, feed, conn, signal, outcome, entry, active>>

StrategyInit ==
    /\ mem = Fresh /\ disk = Fresh
    /\ previous = None /\ feed = None /\ conn = 1
    /\ signal = NoTick /\ outcome = "none"
    /\ entry = "none" /\ active = TRUE
    /\ now = 0

StrategyNext ==
    \/ \E t \in Ticks : EvaluateNothing(t) \/ EvaluateForming(t) \/ RecoverSignal(t)
    \/ NotEvaluated
    \/ ContextReset
    \/ Halted
    \/ Submit
    \/ MarkSubmission
    \/ \E phase \in Settled : EntryConfirmed(phase) \/ EntryEnds(phase) \/ PlanEnds(phase)
    \/ \E t \in Ticks, phase \in Settled : EntryFoundOver(t, phase)
    \/ EntryEndsUnseen
    \/ Reconnect
    \/ Restart
    \/ Elapse

StrategySpec == StrategyInit /\ [][StrategyNext]_strategyVars

----
\* Properties.

\* The runtime state and the saved row have the fields and ranges of the code, the
\* volume samples their length.
StrategyTypeOK ==
    /\ mem \in State /\ disk \in State
    /\ \A st \in {mem, disk} : /\ Len(st.impulse_volumes) <= SampleSize
                              /\ Len(st.pullback_volumes) <= SampleSize
    /\ previous \in Nat \cup {None} /\ feed \in Nat \cup {None} /\ conn \in Nat
    /\ signal \in Ticks \cup {NoTick} /\ outcome \in {"none", "accepted", "refused"}
    /\ entry \in {"none", "open", "over"} /\ active \in BOOLEAN /\ now \in Nat

\* Whatever ticks follow the confirmation, a pattern that waits for its rebreak or
\* has fired is one the rules allow: the level to break lies between the low and
\* the high, the pullback is deep enough and not too deep, and it followed a
\* breakout that held and lasted long enough (evaluate).
PatternSound ==
    \A st \in {mem, disk} : st.phase \in {"WAIT_REBREAK", "SIGNAL_TRIGGERED"} =>
        /\ st.pullback_low <= st.pullback_high /\ st.pullback_high <= st.impulse_high
        /\ MinDepth * st.atr_at_breakout <= Depth(st)
        /\ Depth(st) <= MaxDepth * st.atr_at_breakout
        /\ st.pullback_started_at >= st.breakout_candidate_started + HoldTime
        /\ st.pullback_started_at + MinMinutes <= now

\* The pullback's clock runs exactly while the pullback is deep enough, and its
\* sample holds no bar from before it began, across new highs that undo a pullback
\* and restarts (evaluate).
TimedWhileDeep ==
    \A st \in {mem, disk} : st.phase = "WAIT_PULLBACK" /\ st.pullback_low # None =>
        /\ st.pullback_started_at = None <=> Depth(st) < MinDepth * st.atr_at_breakout
        /\ \A i \in 1..Len(st.pullback_volumes) :
                st.pullback_volumes[i].minute >= st.pullback_started_at

\* A bar counts for one sample and once, and the impulse's bars all come before the
\* pullback's, so that the volume ratio compares a rise with the fall after it,
\* across new highs, resets and restarts (_record_volume).
BarsInOrder ==
    \A st \in {mem, disk} :
        LET bars == st.impulse_volumes \o st.pullback_volumes
        IN  \A i, j \in 1..Len(bars) : i < j => bars[i].minute < bars[j].minute

\* "Restarting restores the breakout, the high, the low, the depth and the samples":
\* what is on disk is what is in memory, up to the connection (_save, _state).
PatternSaved == [mem EXCEPT !.connection_id = 0] = [disk EXCEPT !.connection_id = 0]

\* The order is submitted only "when every condition is met" (PULLBACK_STRATEGY).
SubmittedOnConditions ==
    [][entry = "none" /\ entry' = "open" => signal.good]_strategyVars
====
