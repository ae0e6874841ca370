---- MODULE EntryGate ----
(***************************************************************************)
(* What stands between a tick and an entry order (TradingEngine in         *)
(* src/src/daytrader/engine.py, CrossDebounceState in rules.py): feed      *)
(* validation, the warm-up after a reconnect, a session change or a halt,  *)
(* and the debounced crossing that an entry rule waits for.                *)
(*                                                                         *)
(* One symbol and one plan, whose rules are a cross_above predicate and    *)
(* some other predicates.  Two producers send ticks: the feed bridge,      *)
(* which takes a new connection identifier whenever it reconnects, and the *)
(* REST poller, whose identifier never changes.  A tick of the bridge may  *)
(* reach the engine late: the bridge gives up waiting for the answer and   *)
(* goes on.  One clock serves all processes.                               *)
(***************************************************************************)
EXTENDS Integers

CONSTANTS
    BridgeKinds,     \* what ticks of the bridge may say
    PollKinds,       \* what ticks of the poller may say
    LateKinds,       \* bound: what ticks of the bridge that come late may say
    Cooldown,        \* halt_resume_cooldown_seconds: the length of the warm-up
    MaxAge,          \* max_tick_age_seconds
    Tolerance,       \* the second by which a time may be ahead of another
    Lag, Lead,       \* how far behind or ahead of its receipt the source of a tick may be
    Mode,            \* the mode of the rule group
    ConfirmTicks, HoldTime, CrossCooldown,   \* the debounce of the cross predicate
    MaxConnections,  \* bound: connections of the bridge
    MaxSequence,     \* bound: ticks of the bridge
    Horizon,         \* bound: the clock stops here
    NoFeed           \* "no tick of this symbol yet"

None == -1           \* a timestamp that is not set
Rest == 0            \* the connection identifier "kis-rest-poller"

\* Where the left side of the predicate is: below the right side, or at it where
\* the margin (minimum_cross_pct of the right side) is positive; exactly at it
\* where the margin is zero, so that both comparisons of a crossing hold; above it
\* by less than the margin; at the margin or above; "absent" without indicator.
Levels == {"below", "touching", "between", "above", "absent"}
AtOrBelow == {"below", "touching"}
Beyond == {"touching", "above"}

\* quote compares bid and ask; admitted: no other reason (window, quote scope,
\* spread, trigger, readiness of the indicators) rejects an entry on this tick;
\* allowed: the other predicates of the group hold.
Kind == [session: {"regular", "other"}, halted: BOOLEAN,
         quote: {"normal", "locked", "crossed"}, level: Levels,
         admitted: BOOLEAN, allowed: BOOLEAN]

Tick == [kind: Kind, connection: Nat, sequence: Nat, source: Int, received: Nat]
Feed == [connection: Nat, sequence: Nat, source: Int, received: Nat,
         session: {"regular", "other"}, halted: BOOLEAN, warmup_until: Int]
Cross == [active: {TRUE}, started_at: Nat, count: Nat \ {0}, last_fired: Int]
         \cup [active: {FALSE}, started_at: {None}, count: {0}, last_fired: Int]

ASSUME KindAssumption ==
    /\ BridgeKinds \subseteq Kind /\ PollKinds \subseteq Kind
    /\ LateKinds \subseteq BridgeKinds
    /\ \A k \in BridgeKinds \cup PollKinds : k.level = "absent" => ~k.admitted
ASSUME PolicyAssumption ==
    /\ Cooldown \in Nat \ {0} /\ MaxAge \in Nat
    /\ Tolerance \in Nat /\ Lag \in Nat /\ Lead \in Nat
    /\ Mode \in {"all", "any"}
    /\ ConfirmTicks \in Nat \ {0} /\ HoldTime \in Nat /\ CrossCooldown \in Nat
ASSUME BoundAssumption ==
    MaxConnections \in Nat \ {0} /\ MaxSequence \in Nat /\ Horizon \in Nat
ASSUME NoFeedAssumption == NoFeed \notin Feed

VARIABLES
    clock,
    feed,       \* the engine's FeedState of the symbol
    previous,   \* the level in the engine's previous context, "absent" without one
    cross,      \* the CrossDebounceState of the predicate
    entered,    \* the tick processed last led to an order
    confirmed,  \* the tick processed last confirmed the crossing
    link,       \* the bridge: its connection and the sequence of its last tick
    late,       \* ticks of the bridge on their way
    \* History, for the properties only; all of it since the engine's last start.
    disturbed,  \* receipt of the last tick that changed the connection or session or ended a halt
    newest,     \* the newest source time the engine accepted
    dipped,     \* a tick at or below came since the last break or confirmation
    fired,      \* source time of the last confirmation
    held        \* the last run of judged ticks beyond the margin: since when, how many

engineVars == <<feed, previous, cross, entered, confirmed>>
history    == <<disturbed, newest, dipped, fired, held>>
vars       == <<clock, engineVars, link, late, history>>

----
\* _validate_feed.

Fresh(t) == clock - t.source <= MaxAge

\* The source clock may be ahead of the engine's, within the tolerance.
Plausible(t) == /\ t.source - clock <= Tolerance /\ t.received - clock <= Tolerance
                /\ t.source - t.received <= Tolerance

InOrder(t) ==
    feed # NoFeed /\ feed.connection = t.connection =>
        /\ t.source >= feed.source
        /\ t.received >= feed.received
        /\ t.sequence > feed.sequence

Valid(t) == Fresh(t) /\ Plausible(t) /\ t.kind.quote # "crossed" /\ InOrder(t)

----
\* _update_feed_state.

\* Mutant of Disturbs: the end of a halt is no disturbance.
DisturbsWithoutResume(t) ==
    /\ feed # NoFeed
    /\ feed.connection # t.connection \/ feed.session # t.kind.session

\* The tick comes from another connection or session, or ends a halt.
Disturbs(t) ==
    /\ feed # NoFeed
    /\ \/ feed.connection # t.connection
       \/ feed.session # t.kind.session
       \/ feed.halted /\ ~t.kind.halted

WarmupUntil(t) == IF Disturbs(t) THEN t.received + Cooldown
                  ELSE IF feed = NoFeed THEN None ELSE feed.warmup_until

UpdatedFeed(t) ==
    [connection |-> t.connection, sequence |-> t.sequence, source |-> t.source,
     received |-> t.received, session |-> t.kind.session, halted |-> t.kind.halted,
     warmup_until |-> WarmupUntil(t)]

\* CrossDebounceState while a crossing is being confirmed, and otherwise.
Running(since, n, last) ==
    [active |-> TRUE, started_at |-> since, count |-> n, last_fired |-> last]
Stopped(last) ==
    [active |-> FALSE, started_at |-> None, count |-> 0, last_fired |-> last]
Idle == Stopped(None)

\* A disturbance and a halt forget the previous context and the crossing.
Forgets(t) == Disturbs(t) \/ t.kind.halted
Previous(t) == IF Forgets(t) THEN "absent" ELSE previous

\* Mutant of CrossBefore: the crossing survives a disturbance.
CrossKept(t) == cross

CrossBefore(t) == IF Forgets(t) THEN Idle ELSE cross

----
\* evaluate_predicate on a cross_above predicate.

Crossed(t) == Previous(t) \in AtOrBelow /\ t.kind.level \in Beyond

\* The predicate is evaluated against a previous context that has the indicator;
\* without one the debounce state is left as it is.
Judged(t) == Previous(t) # "absent"

\* The debounce state before the confirmation is looked at.
Advanced(t) ==
    LET c == CrossBefore(t)
    IN  IF ~Judged(t) THEN c
        ELSE IF Crossed(t)
        THEN Running(t.source, 1, c.last_fired)
        ELSE IF c.active /\ t.kind.level \in Beyond
        THEN Running(c.started_at, c.count + 1, c.last_fired)
        ELSE Stopped(c.last_fired)

\* Mutant of Confirms: the count alone confirms.
ConfirmsByCount(t) == Advanced(t).active /\ Advanced(t).count >= ConfirmTicks

Confirms(t) ==
    LET c == Advanced(t)
    IN  /\ Judged(t)
        /\ c.active
        /\ c.count >= ConfirmTicks
        /\ t.source - c.started_at >= HoldTime
        /\ c.last_fired = None \/ t.source - c.last_fired >= CrossCooldown

\* Mutant of CrossAfter: a confirmation only ends the run, it does not clear it.
CrossAfterUncleared(t) ==
    IF Confirms(t) THEN [Advanced(t) EXCEPT !.active = FALSE, !.last_fired = t.source]
    ELSE Advanced(t)

\* A confirmation is consumed, whatever the other predicates say.
CrossAfter(t) == IF Confirms(t) THEN Stopped(t.source) ELSE Advanced(t)

\* evaluate_group: every predicate is evaluated before the results are combined.
RulesMet(t) == IF Mode = "all" THEN Confirms(t) /\ t.kind.allowed
               ELSE Confirms(t) \/ t.kind.allowed

----
\* process_tick and _try_entry.

\* Mutant of Admits: a tick in the warm-up is admitted.
AdmitsInWarmup(t) == /\ t.kind.session = "regular" /\ t.kind.quote = "normal"
                     /\ t.kind.admitted

Admits(t) == /\ t.kind.session = "regular" /\ t.kind.quote = "normal"
             /\ t.kind.admitted
             /\ WarmupUntil(t) = None \/ t.received >= WarmupUntil(t)

\* What the history records of an accepted tick: whether it differs from the tick
\* accepted before it in connection, in session or by the end of a halt.
Later(a, b) == IF a >= b THEN a ELSE b
Interrupts(t) ==
    IF feed = NoFeed THEN FALSE
    ELSE \/ <<feed.connection, feed.session>> # <<t.connection, t.kind.session>>
         \/ feed.halted /\ ~t.kind.halted
Broken(t) == Interrupts(t) \/ t.kind.halted
Records(t, confirms, judged) ==
    /\ disturbed' = IF Interrupts(t) THEN t.received ELSE disturbed
    /\ newest' = Later(newest, t.source)
    /\ dipped' = \/ t.kind.level \in AtOrBelow /\ t.kind.quote = "normal" /\ ~t.kind.halted
                 \/ dipped /\ ~Broken(t) /\ ~confirms
    /\ fired' = IF confirms THEN t.source ELSE fired
    /\ held' = IF Broken(t) \/ (judged /\ t.kind.level \notin Beyond)
               THEN [since |-> None, count |-> 0]
               ELSE IF ~judged THEN held
               ELSE [since |-> IF held.since = None THEN t.source ELSE held.since,
                     count |-> held.count + 1]

\* Feed errors: the tick leaves nothing behind.
TickRejected(t) ==
    /\ ~Valid(t)
    /\ entered' = FALSE /\ confirmed' = FALSE
    /\ UNCHANGED <<feed, previous, cross, history>>

TickPaused(t) ==
    /\ Valid(t) /\ t.kind.halted
    /\ feed' = UpdatedFeed(t)
    /\ previous' = "absent"
    /\ cross' = Idle
    /\ entered' = FALSE /\ confirmed' = FALSE
    /\ Records(t, FALSE, FALSE)

\* The level of a tick with bid below ask becomes the previous context, whether
\* an entry was considered or not.
KeepsContext(t) == previous' = IF t.kind.quote = "normal" THEN t.kind.level ELSE Previous(t)

\* The entry is rejected before its rules are evaluated.
TickBlocked(t) ==
    /\ Valid(t) /\ ~t.kind.halted /\ ~Admits(t)
    /\ feed' = UpdatedFeed(t)
    /\ KeepsContext(t)
    /\ cross' = CrossBefore(t)
    /\ entered' = FALSE /\ confirmed' = FALSE
    /\ Records(t, FALSE, FALSE)

TickEvaluated(t) ==
    /\ Valid(t) /\ ~t.kind.halted /\ Admits(t)
    /\ feed' = UpdatedFeed(t)
    /\ KeepsContext(t)
    /\ cross' = CrossAfter(t)
    /\ entered' = RulesMet(t) /\ confirmed' = Confirms(t)
    /\ Records(t, Confirms(t), Judged(t))

ProcessTick(t) == TickRejected(t) \/ TickPaused(t) \/ TickBlocked(t) \/ TickEvaluated(t)

----
\* The producers.

\* The bridge numbers its ticks and stamps them with the time of receipt; the
\* source is the time of the exchange, whose clock is not the engine's.
BridgeTick(k, source) ==
    [kind |-> k, connection |-> link.connection, sequence |-> link.sequence + 1,
     source |-> source, received |-> clock]

Sends == /\ link.sequence < MaxSequence
         /\ link' = [link EXCEPT !.sequence = @ + 1]

BridgeSends(k, source) ==
    /\ Sends
    /\ ProcessTick(BridgeTick(k, source))
    /\ UNCHANGED <<clock, late>>

\* The request is slow: the bridge goes on before the engine has seen the tick.
BridgeSendsLate(k, source) ==
    /\ late = {}
    /\ Sends
    /\ late' = {BridgeTick(k, source)}
    /\ UNCHANGED <<clock, engineVars, history>>

LateArrives(t) ==
    /\ t \in late
    /\ late' = {}
    /\ ProcessTick(t)
    /\ UNCHANGED <<clock, link>>

\* The bridge reconnects; its numbers go on.
Reconnect ==
    /\ link.connection < MaxConnections
    /\ link' = [link EXCEPT !.connection = @ + 1]
    /\ UNCHANGED <<clock, engineVars, late, history>>

\* The poller stamps a quote with its own clock, in milliseconds.
Poll(k) ==
    /\ ProcessTick([kind |-> k, connection |-> Rest, sequence |-> clock,
                    source |-> clock, received |-> clock])
    /\ UNCHANGED <<clock, link, late>>

\* The engine starts again: the feed and the crossings are only in memory.
Restart ==
    /\ feed' = NoFeed /\ previous' = "absent" /\ cross' = Idle
    /\ entered' = FALSE /\ confirmed' = FALSE
    /\ disturbed' = None /\ newest' = None /\ dipped' = FALSE /\ fired' = None
    /\ held' = [since |-> None, count |-> 0]
    /\ UNCHANGED <<clock, link, late>>

Elapse ==
    /\ clock < Horizon
    /\ clock' = clock + 1
    /\ UNCHANGED <<engineVars, link, late, history>>

Init == /\ clock = 0
        /\ feed = NoFeed /\ previous = "absent" /\ cross = Idle
        /\ entered = FALSE /\ confirmed = FALSE
        /\ link = [connection |-> 1, sequence |-> 0]
        /\ late = {}
        /\ disturbed = None /\ newest = None /\ dipped = FALSE /\ fired = None
        /\ held = [since |-> None, count |-> 0]

Sources == {s \in (clock - Lag)..(clock + Lead) : s >= 0}

Next == \/ \E k \in BridgeKinds : \E s \in Sources : BridgeSends(k, s)
        \/ \E k \in LateKinds : \E s \in Sources : BridgeSendsLate(k, s)
        \/ \E t \in late : LateArrives(t)
        \/ \E k \in PollKinds : Poll(k)
        \/ Reconnect
        \/ Restart
        \/ Elapse

GateSpec == Init /\ [][Next]_vars

----
\* Properties.

GateTypeOK ==
    /\ clock \in 0..Horizon
    /\ feed \in Feed \cup {NoFeed}
    /\ previous \in Levels
    /\ cross \in Cross
    /\ entered \in BOOLEAN /\ confirmed \in BOOLEAN
    /\ link \in [connection: 1..MaxConnections, sequence: 0..MaxSequence]
    /\ late \subseteq Tick
    /\ disturbed \in Int /\ newest \in Int /\ dipped \in BOOLEAN /\ fired \in Int
    /\ held \in [since: Int, count: Nat]

\* No order is placed within the warm-up that follows the last change of
\* connection or session or the end of the last halt, however the two feeds
\* alternate and however late a tick of an old connection arrives
\* (_update_feed_state, _try_entry).
EntryAfterWarmup ==
    entered /\ disturbed # None => feed.received >= disturbed + Cooldown

\* No order is placed on a tick that is older than one the engine has already
\* accepted, although the order of ticks is only checked within a connection: the
\* warm-up outlasts the age of any tick an old connection can still deliver, and
\* the tolerance by which its source may have been ahead (_validate_feed, which
\* compares with the last tick alone).
EntryInOrder ==
    entered /\ 2 * MaxAge + 2 * Tolerance <= Cooldown => feed.source = newest

\* A crossing is confirmed only if a tick at or below the right side has come, in
\* this session of this connection and with no halt since, since the tick that
\* confirmed the last one, that tick included: a confirmation that another
\* predicate rejects is not repeated without a new crossing.  A tick that is
\* exactly at the level of a rule without a margin can confirm one crossing and
\* begin the next (evaluate_predicate, _update_feed_state).
ConfirmedOncePerCrossing == [][confirmed' /\ feed' # feed => dipped]_vars

\* Two confirmations are a cooldown apart, although a disturbance forgets when
\* the last one was: the warm-up stands in for the forgotten cooldown.
Forgotten == Cooldown - 2 * MaxAge - 2 * Tolerance
Apart == IF CrossCooldown <= Forgotten THEN CrossCooldown ELSE Forgotten
ConfirmationsApart ==
    [][confirmed' /\ feed' # feed /\ fired # None => feed'.source - fired >= Apart]_vars

\* The ticks that confirm a crossing are a run of at least ConfirmTicks ticks, all
\* at the margin or above, over at least the holding time.  Only ticks the predicate is judged on
\* belong to a run: one that is rejected before its rules are evaluated, or that
\* follows a tick without the indicator, neither counts nor interrupts it
\* (_try_entry, evaluate_predicate).
HeldBeforeConfirmation ==
    confirmed => /\ held.since # None
                 /\ held.count >= ConfirmTicks
                 /\ feed.source - held.since >= HoldTime
====
