---- MODULE EnrichedFeed ----
(***************************************************************************)
(* The feed process: the WebSocket loop (KISWebSocketStream.run), the      *)
(* bridge that joins trades and quotes into ticks (EnrichedFeedBridge) and *)
(* the minute bars behind the indicators (IndicatorCalculator and          *)
(* FeedHistoryStore).                                                      *)
(*                                                                         *)
(* Plans decide which symbols are subscribed; the data of one symbol,      *)
(* Traded, are followed.  The exchange prints its trades and publishes     *)
(* them, possibly late; what is published while the symbol is not          *)
(* subscribed is lost.  Of a bar only start and volume are kept.  The      *)
(* connection can break, a save can fail and the process can stop at any   *)
(* point, and launchd starts it again.                                     *)
(***************************************************************************)
EXTENDS Integers, SequencesExt

CONSTANTS
    Symbols, Traded,
    PerDay,        \* minutes of a day; the first of them is before the open
    Days,
    Opening,       \* minutes of the opening range
    MaxRows,       \* the limit of load: how many rows of a symbol it reads
    Sizes,         \* what one trade may add to the volume
    MaxTrades,     \* bound: trades
    MaxPending,    \* bound: trades that are not published yet
    MaxTicks,      \* bound: no quotes beyond this sequence number
    MaxChanges,    \* bound: changes of the plans
    MaxFaults      \* bound: failures of any kind

ASSUME FeedAssumption ==
    /\ Traded \in Symbols
    /\ PerDay \in Nat \ {0, 1} /\ Days \in Nat \ {0} /\ Opening \in 1..(PerDay - 1)
    /\ Sizes \subseteq Nat \ {0}
    /\ MaxRows \in Nat /\ MaxRows >= PerDay - 1   \* 20,000 rows hold the bars of a day
    /\ {MaxTrades, MaxPending, MaxTicks, MaxChanges, MaxFaults} \subseteq Nat

None == -1

Minutes    == 0..(PerDay * Days - 1)
Day(m)     == m \div PerDay
Regular(m) == m % PerDay # 0           \* session_open <= m < session_close
Bar        == [start: Minutes, volume: Nat]
Record     == [minute: Minutes, cum: Nat, size: Sizes]

NoBar   == [start |-> None, volume |-> 0]
NoTrade == [minute |-> None, connection |-> 0]
NoPrior == [day |-> None, cum |-> 0]
NoTick  == [connection |-> 0, sequence |-> 0, bar |-> NoBar, range |-> {}, day |-> None]

VARIABLES
    \* The exchange.
    now, cum, trades,  \* its minute, the day's cumulative volume, trades so far
    opened,            \* what the day's cumulative volume was when the market opened
    pending,           \* trades printed and not published yet, in their order
    wanted, changes,   \* the symbols of the active plans
    \* The loop of KISWebSocketStream: where it is, what it read, its last connection.
    phase, subscribed, connection,
    \* The bridge: the last cumulative volume, trade and quote, and the sequence.
    prior, trade, quote, sequence,
    \* The calculator.
    session, completed, current, volume,
    disk,              \* the minute_bars table: the volume saved for a minute
    tick,              \* the tick posted last
    faults,
    \* History: what the records of the last session that was traded amount to,
    \* and the opening range posted last.
    seen, settled

exchange   == <<now, cum, trades, opened, pending>>
plans      == <<wanted, changes>>
stream     == <<phase, subscribed, connection>>
bridge     == <<prior, trade, quote, sequence>>
calculator == <<session, completed, current, volume>>
history    == <<seen, settled>>
vars       == <<exchange, plans, stream, bridge, calculator, disk, tick, faults, history>>

----
\* FeedHistoryStore.

Unsaved == [m \in Minutes |-> None]

save(rows, bar) == [rows EXCEPT ![bar.start] = bar.volume]

\* The rows that few enough later ones follow.
Newest(rows) ==
    [m \in Minutes |->
        IF Cardinality({n \in Minutes : n > m /\ rows[n] # None}) < MaxRows THEN rows[m]
        ELSE None]

\* The bars of the rows, in the order of their minutes.
InTheirOrder(rows) ==
    FoldLeft(LAMBDA bars, m : IF rows[m] = None THEN bars
                              ELSE Append(bars, [start |-> m, volume |-> rows[m]]),
             <<>>, [i \in 1..(PerDay * Days) |-> i - 1])

load(rows) == InTheirOrder(Newest(rows))

----
\* IndicatorCalculator.on_trade.

VolumeOf(bars, day) ==
    FoldLeft(LAMBDA sum, bar : IF Day(bar.start) = day THEN sum + bar.volume ELSE sum, 0, bars)

\* Mutant of Completes: a bar is completed though there is none.
CompletesNothing(m) == session # Day(m) \/ m > current.start

\* A trade of a later minute or of another session completes the current bar; one
\* of an earlier minute is merged into it.
Completes(m) == current # NoBar /\ (session # Day(m) \/ m > current.start)

\* Mutant of CompletedAfter: a new session starts with an empty list.
CompletedOfSession(m) == IF session # None /\ session # Day(m) THEN <<>>
                         ELSE IF Completes(m) THEN Append(completed, current) ELSE completed

CompletedAfter(m) == IF Completes(m) THEN Append(completed, current) ELSE completed

\* Mutant of SessionStart: the sums of the previous session go on.
SessionStartKept(m) == volume

\* _begin_session sums up the bars that are there of the day.
SessionStart(m) == IF session = Day(m) THEN volume ELSE VolumeOf(CompletedAfter(m), Day(m))

on_trade(m, quantity) ==
    IF ~Regular(m) THEN UNCHANGED calculator
    ELSE LET bar == IF current = NoBar \/ Completes(m) THEN [start |-> m, volume |-> 0]
                    ELSE current
         IN  /\ session' = Day(m)
             /\ completed' = CompletedAfter(m)
             /\ current' = [bar EXCEPT !.volume = @ + quantity]
             /\ volume' = SessionStart(m) + quantity

----
\* IndicatorCalculator.snapshot, as far as bars are concerned.

\* Mutant of InRange: the minute that follows the range belongs to it.
InRangeOneMore(bar, m) == Day(bar.start) = Day(m) /\ bar.start % PerDay <= Opening + 1

InRange(bar, m) == Day(bar.start) = Day(m) /\ bar.start % PerDay <= Opening

\* _opening_range at minute m over the given bars: empty unless it is ready.
OpeningRange(bars, m) ==
    LET range == {bar \in bars : InRange(bar, m)}
    IN  IF m % PerDay > Opening
           /\ \A n \in 1..Opening : \E bar \in range : bar.start % PerDay = n
        THEN range ELSE {}

----
\* EnrichedFeedBridge.

\* Mutant of Quantity: a record stands for its own trade alone.
QuantityOfRecord(r) == r.size

\* What a trade record adds to the volume: what is missing since the record before
\* it, or its own size when there is none of that day or it came out of order.
Quantity(r) ==
    IF prior.day = Day(r.minute) /\ r.cum >= prior.cum THEN r.cum - prior.cum ELSE r.size

\* _emit: the latest trade and quote make a tick when both are of this connection
\* and fit each other (close in time, positive, not crossed); the number is used
\* up also by a tick outside the regular session, which is not posted.  Bars are
\* those of the calculator after the record.  Whether the post succeeds changes
\* nothing here.
Joins(theTrade, theQuote) == theTrade.connection = connection /\ theQuote = connection

Tick(m) == [connection |-> connection, sequence |-> sequence + 1,
            bar |-> IF completed' = <<>> THEN NoBar ELSE Last(completed'),
            range |-> OpeningRange(ToSet(completed') \cup ({current'} \ {NoBar}), m),
            day |-> Day(m)]

Emit(theTrade, theQuote) ==
    \E fit \in BOOLEAN :
        IF fit /\ Joins(theTrade, theQuote)
        THEN /\ sequence' = sequence + 1
             /\ tick' = IF Regular(theTrade.minute) THEN Tick(theTrade.minute) ELSE tick
             /\ settled' = IF tick'.range = {} THEN settled
                           ELSE [day |-> tick'.day, range |-> tick'.range]
        ELSE UNCHANGED <<sequence, tick, settled>>

\* What the history makes of a trade record: it begins a session, or goes on with it
\* in order or not; or it goes on with it and is lost.  A session begins at the
\* cumulative volume of the open.  Premarket volume that no record had brought in
\* by then leaks into it, as far as it followed a record of the day; the session is
\* whole from the start if that record came before the open, or if there was none
\* and this is the first regular trade.
Higher(a, b) == IF a >= b THEN a ELSE b
After(r) == IF seen.day # Day(r.minute) THEN seen
            ELSE [seen EXCEPT !.top = Higher(@, r.cum),
                              !.orderly = @ /\ r.cum >= seen.top]
Leaked(r) == IF prior.day = Day(r.minute) /\ prior.cum < opened THEN opened - prior.cum ELSE 0
Counts(r) == seen' = IF Regular(r.minute) /\ seen.day # Day(r.minute)
                     THEN [day |-> Day(r.minute), opened |-> opened, leaked |-> Leaked(r),
                           top |-> r.cum, orderly |-> TRUE,
                           whole |-> IF prior.day = Day(r.minute) THEN prior.cum <= opened
                                     ELSE r.cum - r.size = opened]
                     ELSE After(r)
Loses(r) == seen' = [After(r) EXCEPT !.whole = FALSE]

\* The exchange publishes a trade that is not older than a day: the first in
\* order, or a later one before it.
Publishes(i) ==
    /\ phase = "open" /\ Traded \in subscribed
    /\ Day(pending[i].minute) = Day(pending[1].minute)
    /\ pending' = RemoveAt(pending, i)
    /\ UNCHANGED <<now, cum, trades, opened, plans>>

\* A publication nobody is subscribed to.
Missed(i) ==
    /\ ~(phase = "open" /\ Traded \in subscribed)
    /\ pending' = RemoveAt(pending, i)
    /\ UNCHANGED <<now, cum, trades, opened, plans, stream, bridge, calculator, disk, tick, faults, history>>

\* on_record of a trade.  The cumulative volume is kept before the bars are.
TradeArrives(i) ==
    LET r == pending[i]
        t == [minute |-> r.minute, connection |-> connection]
    IN  /\ Publishes(i)
        /\ prior' = [day |-> Day(r.minute), cum |-> r.cum]
        /\ trade' = t
        /\ on_trade(r.minute, Quantity(r))
        /\ disk' = IF Regular(r.minute) /\ Completes(r.minute) THEN save(disk, current) ELSE disk
        /\ Counts(r)
        /\ Emit(t, quote)
        /\ UNCHANGED <<stream, quote, faults>>

QuoteArrives ==
    /\ phase = "open" /\ Traded \in subscribed
    /\ sequence < MaxTicks
    /\ quote' = connection
    /\ UNCHANGED <<prior, trade, calculator, seen>>
    /\ Emit(trade, connection)
    /\ UNCHANGED <<exchange, plans, stream, disk, faults>>

----
\* Failures.

Fault == faults < MaxFaults /\ faults' = faults + 1

\* What a new process knows: nothing but the saved bars.
Forgets(rows) ==
    /\ phase' = "dead" /\ subscribed' = {} /\ UNCHANGED connection
    /\ prior' = NoPrior /\ trade' = NoTrade /\ quote' = 0 /\ sequence' = 0
    /\ session' = None /\ completed' = load(rows) /\ current' = NoBar /\ volume' = 0

\* The bar that a trade completes cannot be saved: the exception leaves the bar
\* as it is, drops the quantity and ends the connection.
SaveFails(i) ==
    LET r == pending[i]
    IN  /\ Fault
        /\ Regular(r.minute) /\ Completes(r.minute)
        /\ Publishes(i)
        /\ prior' = [day |-> Day(r.minute), cum |-> r.cum]
        /\ trade' = [minute |-> r.minute, connection |-> connection]
        /\ phase' = "backoff" /\ subscribed' = {}
        /\ Loses(r)
        /\ UNCHANGED <<connection, quote, sequence, calculator, disk, tick, settled>>

\* The process stops after a bar was saved and before it is in memory.
StopsAfterSave(i) ==
    LET r == pending[i]
    IN  /\ Fault
        /\ Regular(r.minute) /\ Completes(r.minute)
        /\ Publishes(i)
        /\ disk' = save(disk, current)
        /\ Forgets(disk')
        /\ Loses(r)
        /\ UNCHANGED <<tick, settled>>

\* The process stops: a crash, or the plans cannot be read at the top of the loop.
Stops ==
    /\ Fault
    /\ phase # "dead"
    /\ Forgets(disk)
    /\ seen' = [seen EXCEPT !.whole = FALSE]
    /\ UNCHANGED <<exchange, plans, disk, tick, settled>>

\* The connection breaks or is refused, a subscription is rejected, or the plans
\* cannot be read at a refresh.
Breaks ==
    /\ Fault
    /\ phase \in {"connecting", "open"}
    /\ phase' = "backoff" /\ subscribed' = {}
    /\ UNCHANGED <<exchange, plans, connection, bridge, calculator, disk, tick, history>>

\* launchd (KeepAlive) starts the process again.
Launched ==
    /\ phase = "dead"
    /\ phase' = "top"
    /\ UNCHANGED <<exchange, plans, subscribed, connection, bridge, calculator, disk, tick,
                   faults, history>>

----
\* KISWebSocketStream.run.

OnlyStream == UNCHANGED <<exchange, plans, bridge, calculator, disk, tick, faults, history>>

\* With nothing to subscribe to, the loop sleeps and reads again.
ReadSubscriptions ==
    /\ phase = "top" /\ wanted # {}
    /\ phase' = "connecting" /\ subscribed' = wanted
    /\ UNCHANGED connection /\ OnlyStream

\* Mutant of NextConnection: the identifier is taken once, outside the loop.
FirstConnection == IF connection = 0 THEN 1 ELSE connection

\* The identifier is the time of the attempt.
NextConnection == connection + 1

Connected ==
    /\ phase = "connecting"
    /\ phase' = "open" /\ connection' = NextConnection
    /\ UNCHANGED subscribed /\ OnlyStream

\* Mutant of Outdated: only symbols that are missing count.
OutdatedByMissing == ~(wanted \subseteq subscribed)

\* A refresh finds other symbols than were subscribed.
Outdated == wanted # subscribed

Refresh ==
    /\ phase = "open" /\ Outdated
    /\ phase' = "top" /\ subscribed' = {}
    /\ UNCHANGED connection /\ OnlyStream

BackoffEnds ==
    /\ phase = "backoff"
    /\ phase' = "top"
    /\ UNCHANGED <<subscribed, connection>> /\ OnlyStream

----
\* The exchange and the plans.

Prints(size) ==
    /\ trades < MaxTrades /\ Len(pending) < MaxPending
    /\ trades' = trades + 1
    /\ cum' = cum + size
    /\ opened' = IF Regular(now) THEN opened ELSE cum'
    /\ pending' = Append(pending, [minute |-> now, cum |-> cum + size, size |-> size])
    /\ UNCHANGED <<now, plans, stream, bridge, calculator, disk, tick, faults, history>>

\* Overnight the cumulative volume starts again and nothing is left to publish.
MinutePasses ==
    /\ now + 1 \in Minutes
    /\ now' = now + 1
    /\ Day(now') # Day(now) => pending = <<>>
    /\ cum' = IF Day(now') = Day(now) THEN cum ELSE 0
    /\ opened' = IF Day(now') = Day(now) THEN opened ELSE 0
    /\ UNCHANGED <<trades, pending, plans, stream, bridge, calculator, disk, tick, faults, history>>

\* A plan with one more symbol becomes active, or the last one with a symbol ends.
PlansChange(symbol) ==
    /\ changes < MaxChanges
    /\ changes' = changes + 1
    /\ wanted' = IF symbol \in wanted THEN wanted \ {symbol} ELSE wanted \cup {symbol}
    /\ UNCHANGED <<exchange, stream, bridge, calculator, disk, tick, faults, history>>

Init ==
    /\ now = 0 /\ cum = 0 /\ trades = 0 /\ opened = 0 /\ pending = <<>>
    /\ wanted = {Traded} /\ changes = 0
    /\ phase = "top" /\ subscribed = {} /\ connection = 0
    /\ prior = NoPrior /\ trade = NoTrade /\ quote = 0 /\ sequence = 0
    /\ session = None /\ completed = <<>> /\ current = NoBar /\ volume = 0
    /\ disk = Unsaved
    /\ tick = NoTick
    /\ faults = 0
    /\ seen = [day |-> None, opened |-> 0, leaked |-> 0, top |-> 0, orderly |-> TRUE, whole |-> TRUE]
    /\ settled = [day |-> None, range |-> {}]

Next == \/ \E size \in Sizes : Prints(size)
        \/ MinutePasses
        \/ \E symbol \in Symbols : PlansChange(symbol)
        \/ \E i \in DOMAIN pending :
               Missed(i) \/ TradeArrives(i) \/ SaveFails(i) \/ StopsAfterSave(i)
        \/ QuoteArrives
        \/ Stops \/ Breaks \/ Launched
        \/ ReadSubscriptions \/ Connected \/ Refresh \/ BackoffEnds

FeedSpec == Init /\ [][Next]_vars

\* launchd restarts the process, and the loop keeps turning: every wait in it ends
\* by a timer or by the socket.
FairFeedSpec ==
    FeedSpec /\ WF_vars(Launched) /\ WF_vars(ReadSubscriptions) /\ WF_vars(Connected)
             /\ WF_vars(Refresh) /\ WF_vars(BackoffEnds)

----
\* Properties.

FeedTypeOK ==
    /\ now \in Minutes /\ cum \in Nat /\ trades \in 0..MaxTrades /\ opened \in 0..cum
    /\ pending \in Seq(Record) /\ Len(pending) <= MaxPending
    /\ wanted \subseteq Symbols /\ changes \in 0..MaxChanges
    /\ phase \in {"top", "connecting", "open", "backoff", "dead"}
    /\ subscribed \subseteq Symbols
    /\ phase \in {"connecting", "open"} <=> subscribed # {}
    /\ connection \in Nat /\ sequence \in Nat /\ quote \in 0..connection
    /\ completed \in Seq(Bar) /\ current \in Bar \cup {NoBar}
    /\ session \in 0..(Days - 1) \cup {None} /\ volume \in Nat
    /\ faults \in 0..MaxFaults

\* The divisor of the session's VWAP is the volume of its bars, whatever came late,
\* was lost or was restarted (_begin_session, on_trade).
SessionIsBars ==
    session # None =>
        volume = VolumeOf(completed, session)
                 + IF current = NoBar THEN 0 ELSE current.volume

\* A restart loses no bar that it would still read, and finds none it did not have:
\* each of the newest MaxRows rows is in memory with the volume it was saved with,
\* and each completed bar in memory was saved.  Rows beyond the limit stay on disk
\* for good and in memory until the restart (_complete_current, save, load).
DiskIsCompleted ==
    /\ \A m \in Minutes : Newest(disk)[m] # None =>
           \E i \in DOMAIN completed : completed[i] = [start |-> m, volume |-> disk[m]]
    /\ \A i \in DOMAIN completed :
           \/ completed[i].volume = disk[completed[i].start]
           \/ \E j \in DOMAIN completed : j > i /\ completed[j].start = completed[i].start

\* With records in order the session's volume is never more than what the exchange
\* traded since the open and what leaked into it of the premarket, whatever was
\* restarted or failed; and with no restart or failed save in between it is exactly
\* that, whatever was missed while reconnecting: the first record after the gap
\* brings in what was traded meanwhile, also what was traded before the open
\* (on_record; INDICATOR_CONTRACT: vwap_regular is over the regular session).
VolumeExact ==
    session # None /\ session = seen.day /\ seen.orderly =>
        /\ volume <= seen.top - seen.opened + seen.leaked
        /\ seen.whole => volume = seen.top - seen.opened + seen.leaked

\* Within a connection the numbers of ticks increase, and a new connection has a
\* new identifier, also when the process starts again and numbers from one
\* (INDICATOR_CONTRACT: sequence_id, connection_id).
TicksNumbered ==
    [][tick' # tick => \/ tick'.connection > tick.connection
                       \/ /\ tick'.connection = tick.connection
                          /\ tick'.sequence > tick.sequence]_vars

\* The day's records came in order, or no restart or failed save was among them.
Sound == seen.orderly \/ seen.whole

\* What ticks say of bars stays true for the day: they go through the bars in order,
\* all that carry the same bar carry the same volume, as the strategy that adds up
\* each bar once relies on, and an opening range once posted as ready does not
\* change.  Only a record that comes late and after a restart can make it otherwise
\* (INDICATOR_CONTRACT: bar_volume_1m_regular, opening_range_N).
PostedBarsStay ==
    [][Sound' => /\ tick'.day = tick.day =>
                       /\ tick'.bar.start >= tick.bar.start
                       /\ tick'.bar.start = tick.bar.start => tick'.bar = tick.bar
                 /\ tick'.range # {} /\ settled.day = tick'.day =>
                       tick'.range = settled.range]_vars

\* Once the plans stay as they are and nothing fails any more, the symbols of the
\* plans and no others are subscribed for good (run, subscriptions).
SubscriptionsFollow ==
    <>[](phase \in {"top", "open"} /\ subscribed = wanted)
====
