---- MODULE EntryGateProofs ----
(***************************************************************************)
(* Proofs about EntryGate, for every kind of tick, every cooldown, age and *)
(* debounce setting and any number of connections.                         *)
(*                                                                         *)
(* The properties follow from one inductive invariant.  Its parts relate   *)
(* the state the engine keeps of the feed and of the crossing to the       *)
(* history of the ticks it accepted; each part is shown to survive the     *)
(* processing of a tick, whichever producer sent it and however late.      *)
(***************************************************************************)
EXTENDS EntryGate, TLAPS

\* Ticks the producers can send by now.
Arrives(t) == /\ t \in Tick
              /\ 0 <= t.source /\ t.received <= clock

\* Before the first tick there is nothing to remember.
NothingSeen ==
    feed = NoFeed =>
        /\ previous = "absent" /\ cross = Idle /\ ~entered /\ ~confirmed
        /\ disturbed = None /\ newest = None /\ ~dipped /\ fired = None
        /\ held = [since |-> None, count |-> 0]

\* The warm-up is the one of the last disturbance.
WarmupKept ==
    feed # NoFeed =>
        /\ 0 <= feed.source /\ feed.source <= feed.received + Tolerance
        /\ feed.received <= clock
        /\ disturbed = None \/ disturbed >= 0
        /\ feed.warmup_until = IF disturbed = None THEN None ELSE disturbed + Cooldown

\* How much newer than the receipt of a disturbing tick a time accepted before it
\* can be: the tick was on its way for its greatest age, its source may have been
\* ahead of its receipt, and so may the source accepted before it of the clock.
Slack == MaxAge + 2 * Tolerance

\* Nothing newer than the last tick was accepted, except before a disturbance,
\* and then it is not much newer than the disturbance.
NewestBounded ==
    feed # NoFeed =>
        /\ feed.source <= newest /\ newest <= clock + Tolerance
        /\ disturbed = None => newest = feed.source
        /\ disturbed # None => newest <= feed.source \/ newest <= disturbed + Slack

\* A crossing that is under way began with a tick at or below.
CrossingDipped == previous \in AtOrBelow \/ cross.active => dipped

\* The last confirmation is remembered, or a disturbance lies between.
FiringRemembered ==
    /\ cross.last_fired \in {None, fired}
    /\ fired = None \/ (0 <= fired /\ fired <= newest)
    /\ fired # None =>
        \/ cross.last_fired = fired
        \/ feed.halted
        \/ disturbed # None /\ fired <= disturbed + Slack

\* A crossing that is under way is part of the run of ticks beyond the margin.
RunUnderWay ==
    /\ held.since = None \/ (0 <= held.since /\ held.since <= feed.source)
    /\ cross.active => /\ held.since # None
                       /\ held.since <= cross.started_at
                       /\ held.count >= cross.count

EngineType == /\ feed \in Feed \cup {NoFeed}
              /\ previous \in Levels
              /\ cross \in Cross
              /\ entered \in BOOLEAN /\ confirmed \in BOOLEAN
              /\ disturbed \in Int /\ newest \in Int /\ dipped \in BOOLEAN /\ fired \in Int
              /\ held \in [since: Int, count: Nat]

EngineInv == /\ clock \in Nat
             /\ EngineType /\ NothingSeen /\ WarmupKept /\ NewestBounded
             /\ CrossingDipped /\ FiringRemembered /\ RunUnderWay
             /\ EntryAfterWarmup /\ EntryInOrder /\ HeldBeforeConfirmation

ProducersInv == /\ clock \in 0..Horizon
                /\ link \in [connection: 1..MaxConnections, sequence: 0..MaxSequence]
                /\ \A t \in late : Arrives(t)

IInv == EngineInv /\ ProducersInv

----
\* The pieces of a tick's processing.

LEMMA WarmupType ==
    ASSUME EngineInv, NEW t, Arrives(t)
    PROVE  /\ WarmupUntil(t) \in Int
           /\ UpdatedFeed(t) \in Feed
           /\ UpdatedFeed(t) # NoFeed
  BY PolicyAssumption, NoFeedAssumption
     DEF EngineInv, EngineType, Arrives, Tick, Kind, Feed, WarmupUntil, UpdatedFeed, None

LEMMA CrossShape ==
    /\ \A last \in Int : Stopped(last) \in Cross
    /\ \A since \in Nat, n \in Nat \ {0}, last \in Int : Running(since, n, last) \in Cross
    /\ Idle \in Cross
    /\ \A c \in Cross : /\ c.started_at \in Int
                        /\ c.count \in Nat /\ c.last_fired \in Int
                        /\ c.active => c.started_at \in Nat /\ c.count \in Nat \ {0}
  <1>1. \A last \in Int : Stopped(last) \in Cross
    BY DEF Stopped, Cross
  <1>2. \A since \in Nat, n \in Nat \ {0}, last \in Int : Running(since, n, last) \in Cross
    BY DEF Running, Cross
  <1>3. None \in Int
    BY DEF None
  <1>4. Idle \in Cross
    BY <1>1, <1>3 DEF Idle
  <1>5. ASSUME NEW c \in Cross
        PROVE  /\ c.started_at \in Int
               /\ c.count \in Nat /\ c.last_fired \in Int
               /\ c.active => c.started_at \in Nat /\ c.count \in Nat \ {0}
    <2>1. CASE c \in [active: {TRUE}, started_at: Nat, count: Nat \ {0}, last_fired: Int]
      <3>1. /\ c.active = TRUE /\ c.started_at \in Nat
            /\ c.count \in Nat \ {0} /\ c.last_fired \in Int
        BY <2>1
      <3> QED BY <3>1
    <2>2. CASE c \in [active: {FALSE}, started_at: {None}, count: {0}, last_fired: Int]
      <3>1. /\ c.active = FALSE /\ c.started_at = None /\ c.count = 0
            /\ c.last_fired \in Int
        BY <2>2
      <3> QED BY <3>1, <1>3
    <2> QED BY <1>5, <2>1, <2>2 DEF Cross
  <1> QED BY <1>1, <1>2, <1>4, <1>5

LEMMA CrossBeforeType ==
    ASSUME EngineInv, NEW t, Arrives(t)
    PROVE  CrossBefore(t) \in Cross /\ Previous(t) \in Levels
  <1>1. cross \in Cross /\ previous \in Levels
    BY DEF EngineInv, EngineType
  <1>2. "absent" \in Levels
    BY DEF Levels
  <1> QED BY <1>1, <1>2, CrossShape DEF CrossBefore, Previous

LEMMA AdvancedType ==
    ASSUME EngineInv, NEW t, Arrives(t)
    PROVE  Advanced(t) \in Cross
  <1>0. t.source \in Nat /\ 1 \in Nat \ {0} /\ \A n \in Nat \ {0} : n + 1 \in Nat \ {0}
    BY DEF Arrives, Tick
  <1>1. CrossBefore(t) \in Cross
    BY CrossBeforeType
  <1>2. CASE ~Judged(t)
    BY <1>1, <1>2 DEF Advanced
  <1>3. CASE Judged(t) /\ Crossed(t)
    BY <1>1, <1>3, <1>0, CrossShape DEF Advanced
  <1>4. CASE Judged(t) /\ ~Crossed(t) /\ CrossBefore(t).active /\ t.kind.level \in Beyond
    BY <1>1, <1>4, <1>0, CrossShape DEF Advanced
  <1>5. CASE Judged(t) /\ ~Crossed(t) /\ ~(CrossBefore(t).active /\ t.kind.level \in Beyond)
    BY <1>1, <1>5, CrossShape DEF Advanced
  <1> QED BY <1>2, <1>3, <1>4, <1>5

LEMMA CrossAfterType ==
    ASSUME EngineInv, NEW t, Arrives(t)
    PROVE  CrossAfter(t) \in Cross
  BY AdvancedType, CrossShape DEF CrossAfter, Arrives, Tick

\* Where the history and the engine speak of the same thing.
LEMMA InterruptsIsDisturbs ==
    ASSUME EngineInv, NEW t, Arrives(t)
    PROVE  Interrupts(t) <=> Disturbs(t)
  BY DEF Interrupts, Disturbs

\* What an accepted tick makes of the feed and of the history, whatever becomes
\* of the crossing.
LEMMA FeedAccepted ==
    ASSUME EngineInv, NEW t, Arrives(t), Valid(t), NEW c \in BOOLEAN, NEW j \in BOOLEAN,
           feed' = UpdatedFeed(t), Records(t, c, j), clock' = clock
    PROVE  /\ feed' \in Feed /\ feed' # NoFeed
           /\ disturbed' \in Int /\ newest' \in Int /\ dipped' \in BOOLEAN /\ fired' \in Int
           /\ held' \in [since: Int, count: Nat]
           /\ WarmupKept' /\ NewestBounded'
           /\ newest <= newest' /\ t.source <= newest'
  <1>0. /\ clock \in Nat /\ EngineType /\ NothingSeen /\ WarmupKept /\ NewestBounded
    BY DEF EngineInv
  <1>1. feed' \in Feed /\ feed' # NoFeed /\ WarmupUntil(t) \in Int
    BY WarmupType
  <1>2. /\ t.source \in Int /\ t.received \in Nat /\ 0 <= t.source
        /\ t.source <= t.received + Tolerance /\ t.received <= clock
        /\ t.source <= clock + Tolerance /\ Tolerance \in Nat
    BY <1>0, PolicyAssumption DEF Arrives, Tick, Valid, Plausible
  <1>3. /\ feed'.source = t.source /\ feed'.received = t.received
        /\ feed'.warmup_until = WarmupUntil(t) /\ feed'.connection = t.connection
    BY DEF UpdatedFeed
  <1>4. Interrupts(t) <=> Disturbs(t)
    BY InterruptsIsDisturbs
  <1>5. /\ disturbed' = IF Disturbs(t) THEN t.received ELSE disturbed
        /\ newest' = IF newest >= t.source THEN newest ELSE t.source
        /\ fired' = IF c THEN t.source ELSE fired
    BY <1>4 DEF Records, Later
  <1>6. /\ disturbed' \in Int /\ newest' \in Int /\ fired' \in Int
        /\ newest <= newest' /\ t.source <= newest'
    BY <1>0, <1>2, <1>5 DEF EngineType
  <1>7. dipped' \in BOOLEAN
    BY DEF Records
  <1>8. held' \in [since: Int, count: Nat]
    BY <1>0, <1>2 DEF EngineType, Records, None
  <1>9. WarmupKept'
    BY <1>0, <1>1, <1>2, <1>3, <1>5 DEF WarmupKept, WarmupUntil, NothingSeen, Disturbs, None
  <1>10. NewestBounded'
    <2>1. clock - t.source <= MaxAge /\ MaxAge \in Nat
      BY PolicyAssumption DEF Valid, Fresh
    <2>2. CASE feed = NoFeed
      BY <1>0, <1>2, <1>3, <1>5, <2>2 DEF NewestBounded, NothingSeen, Disturbs, None
    <2>3. CASE feed # NoFeed /\ Disturbs(t)
      BY <1>0, <1>2, <1>3, <1>5, <2>1, <2>3 DEF NewestBounded, EngineType, None, Slack
    <2>4. CASE feed # NoFeed /\ ~Disturbs(t)
      <3>1. feed.source <= t.source
        BY <2>4 DEF Disturbs, Valid, InOrder
      <3>2. feed.source \in Int
        BY <1>0, <2>4 DEF EngineType, Feed
      <3> QED BY <1>0, <1>2, <1>3, <1>5, <2>1, <2>4, <3>1, <3>2 DEF NewestBounded, EngineType, None
    <2> QED BY <2>2, <2>3, <2>4
  <1> QED BY <1>1, <1>6, <1>7, <1>8, <1>9, <1>10

\* The crossing and the run of ticks beyond the margin after a tick that is not judged.
LEMMA CrossingNotJudged ==
    ASSUME EngineInv, NEW t, Arrives(t), Valid(t), feed' = UpdatedFeed(t),
           Records(t, FALSE, FALSE), clock' = clock, cross' = CrossBefore(t)
    PROVE  FiringRemembered' /\ RunUnderWay'
  <1>0. /\ clock \in Nat /\ EngineType /\ NothingSeen /\ WarmupKept /\ NewestBounded
        /\ FiringRemembered /\ RunUnderWay
    BY DEF EngineInv
  <1>1. /\ feed' \in Feed /\ feed' # NoFeed
        /\ disturbed' \in Int /\ newest' \in Int /\ fired' \in Int
        /\ newest <= newest' /\ t.source <= newest'
    BY FeedAccepted
  <1>2. /\ t.source \in Int /\ t.received \in Nat /\ 0 <= t.source
        /\ t.source <= t.received + Tolerance /\ t.received <= clock
        /\ t.source <= clock + Tolerance /\ Tolerance \in Nat
        /\ clock - t.source <= MaxAge /\ MaxAge \in Nat
    BY <1>0, PolicyAssumption DEF Arrives, Tick, Valid, Fresh, Plausible
  <1>3. feed'.source = t.source /\ feed'.halted = t.kind.halted
    BY DEF UpdatedFeed
  <1>4. Interrupts(t) <=> Disturbs(t)
    BY InterruptsIsDisturbs
  <1>5. /\ disturbed' = IF Disturbs(t) THEN t.received ELSE disturbed
        /\ fired' = fired
        /\ held' = IF Broken(t) THEN [since |-> None, count |-> 0] ELSE held
    BY <1>4 DEF Records
  <1>6. Broken(t) <=> Forgets(t)
    BY <1>4 DEF Broken, Forgets
  <1>7. FiringRemembered'
    <2>1. cross'.last_fired \in {None, fired}
      BY <1>0 DEF CrossBefore, Idle, Stopped, FiringRemembered
    <2>2. fired' = None \/ (0 <= fired' /\ fired' <= newest')
      BY <1>0, <1>1, <1>5 DEF FiringRemembered, EngineType
    <2>3. ASSUME fired # None
          PROVE  \/ cross'.last_fired = fired
                 \/ t.kind.halted
                 \/ disturbed' # None /\ fired <= disturbed' + Slack
      <3>1. CASE Disturbs(t)
        <4>1. feed # NoFeed
          BY <3>1 DEF Disturbs
        <4>2. fired <= clock + Tolerance
          BY <1>0, <1>2, <2>3, <4>1 DEF FiringRemembered, NewestBounded, EngineType
        <4> QED BY <1>0, <1>2, <1>5, <3>1, <4>2 DEF None, EngineType, Slack
      <3>2. CASE ~Disturbs(t) /\ ~t.kind.halted
        <4>1. cross' = cross /\ disturbed' = disturbed
          BY <3>2, <1>5 DEF CrossBefore, Forgets
        <4>2. feed # NoFeed
          BY <2>3, <1>0 DEF NothingSeen
        <4>3. ~feed.halted
          BY <3>2, <4>2 DEF Disturbs
        <4> QED BY <1>0, <2>3, <4>1, <4>3 DEF FiringRemembered
      <3> QED BY <3>1, <3>2
    <2> QED BY <1>3, <1>5, <2>1, <2>2, <2>3 DEF FiringRemembered
  <1>8. RunUnderWay'
    <2>1. CASE Forgets(t)
      BY <1>3, <1>5, <1>6, <2>1 DEF RunUnderWay, CrossBefore, Idle, Stopped
    <2>2. CASE ~Forgets(t)
      <3>1. cross' = cross /\ held' = held
        BY <1>5, <1>6, <2>2 DEF CrossBefore
      <3>2. CASE feed = NoFeed
        BY <1>0, <1>3, <3>1, <3>2 DEF NothingSeen, RunUnderWay, Idle, Stopped
      <3>3. CASE feed # NoFeed
        <4>1. feed.source <= t.source /\ feed.source \in Int
          BY <1>0, <2>2, <3>3 DEF Forgets, Disturbs, Valid, InOrder, EngineType, Feed
        <4> QED BY <1>0, <1>2, <1>3, <3>1, <4>1 DEF RunUnderWay, EngineType
      <3> QED BY <3>2, <3>3
    <2> QED BY <2>1, <2>2
  <1> QED BY <1>7, <1>8

\* A tick whose rules are evaluated disturbs nothing, so that the crossing and the
\* previous context are the ones the engine kept.
LEMMA EvaluatedUndisturbed ==
    ASSUME EngineInv, NEW t, Arrives(t), TickEvaluated(t)
    PROVE  /\ ~Disturbs(t) /\ ~Forgets(t) /\ ~Broken(t)
           /\ CrossBefore(t) = cross /\ Previous(t) = previous
           /\ disturbed' = disturbed
           /\ disturbed # None => t.received >= disturbed + Cooldown
           /\ feed # NoFeed => feed.source \in Int /\ feed.source <= t.source /\ ~feed.halted
  <1>0. EngineType /\ WarmupKept /\ NothingSeen
    BY DEF EngineInv
  <1>1. t.received \in Nat /\ Cooldown \in Nat \ {0} /\ ~t.kind.halted
    BY PolicyAssumption DEF Arrives, Tick, TickEvaluated
  <1>2. WarmupUntil(t) = None \/ t.received >= WarmupUntil(t)
    BY DEF TickEvaluated, Admits
  <1>3. ~Disturbs(t)
    BY <1>1, <1>2 DEF WarmupUntil, None
  <1>4. Interrupts(t) <=> Disturbs(t)
    BY InterruptsIsDisturbs
  <1>5. ~Forgets(t) /\ ~Broken(t)
    BY <1>1, <1>3, <1>4 DEF Forgets, Broken
  <1>6. CrossBefore(t) = cross /\ Previous(t) = previous
    BY <1>5 DEF CrossBefore, Previous
  <1>7. disturbed' = disturbed
    BY <1>3, <1>4 DEF TickEvaluated, Records
  <1>8. disturbed # None => t.received >= disturbed + Cooldown
    BY <1>0, <1>1, <1>2, <1>3 DEF WarmupUntil, WarmupKept, NothingSeen, EngineType, None
  <1>9. feed # NoFeed => feed.source \in Int /\ feed.source <= t.source /\ ~feed.halted
    BY <1>0, <1>1, <1>3 DEF Disturbs, TickEvaluated, Valid, InOrder, EngineType, Feed
  <1> QED BY <1>3, <1>5, <1>6, <1>7, <1>8, <1>9

LEMMA CrossingEvaluated ==
    ASSUME EngineInv, NEW t, Arrives(t), TickEvaluated(t), clock' = clock
    PROVE  /\ CrossingDipped' /\ FiringRemembered' /\ RunUnderWay'
           /\ HeldBeforeConfirmation'
           /\ Confirms(t) => dipped
           /\ Confirms(t) /\ fired # None => t.source - fired >= Apart
  <1>0. /\ clock \in Nat /\ EngineType /\ NothingSeen /\ WarmupKept /\ NewestBounded
        /\ CrossingDipped /\ FiringRemembered /\ RunUnderWay
    BY DEF EngineInv
  <1>1. /\ feed' = UpdatedFeed(t) /\ cross' = CrossAfter(t)
        /\ Records(t, Confirms(t), Judged(t)) /\ confirmed' = Confirms(t)
        /\ ~t.kind.halted /\ t.kind.quote = "normal" /\ previous' = t.kind.level
    BY DEF TickEvaluated, Admits, KeepsContext
  <1>2. /\ CrossBefore(t) = cross /\ Previous(t) = previous /\ ~Broken(t)
        /\ disturbed' = disturbed
        /\ disturbed # None => t.received >= disturbed + Cooldown
        /\ feed # NoFeed => feed.source \in Int /\ feed.source <= t.source /\ ~feed.halted
    BY EvaluatedUndisturbed
  <1>3. /\ t.source \in Int /\ t.received \in Nat /\ 0 <= t.source
        /\ t.source <= t.received + Tolerance /\ t.received <= clock
        /\ t.source <= clock + Tolerance /\ Tolerance \in Nat
        /\ clock - t.source <= MaxAge /\ MaxAge \in Nat
        /\ Cooldown \in Nat /\ CrossCooldown \in Nat /\ HoldTime \in Nat
        /\ ConfirmTicks \in Nat \ {0}
    BY <1>0, PolicyAssumption DEF Arrives, Tick, TickEvaluated, Valid, Fresh, Plausible
  <1>4. /\ feed'.source = t.source /\ feed'.halted = FALSE /\ feed' # NoFeed
    BY <1>1, WarmupType DEF UpdatedFeed
  <1>5. /\ dipped' = (t.kind.level \in AtOrBelow \/ (dipped /\ ~Confirms(t)))
        /\ fired' = IF Confirms(t) THEN t.source ELSE fired
        /\ newest' = IF newest >= t.source THEN newest ELSE t.source
        /\ held' = IF Judged(t) /\ t.kind.level \notin Beyond
                   THEN [since |-> None, count |-> 0]
                   ELSE IF ~Judged(t) THEN held
                   ELSE [since |-> IF held.since = None THEN t.source ELSE held.since,
                         count |-> held.count + 1]
    BY <1>1, <1>2 DEF Records, Later
  <1>6. Judged(t) <=> previous # "absent"
    BY <1>2 DEF Judged
  <1>7. Crossed(t) <=> previous \in AtOrBelow /\ t.kind.level \in Beyond
    BY <1>2 DEF Crossed
  <1>8. Advanced(t) = IF ~Judged(t) THEN cross
                      ELSE IF Crossed(t) THEN Running(t.source, 1, cross.last_fired)
                      ELSE IF cross.active /\ t.kind.level \in Beyond
                      THEN Running(cross.started_at, cross.count + 1, cross.last_fired)
                      ELSE Stopped(cross.last_fired)
    BY <1>2 DEF Advanced
  <1>9. Advanced(t).last_fired = cross.last_fired
    BY <1>8 DEF Running, Stopped
  <1>10. Confirms(t) <=>
            /\ Judged(t) /\ Advanced(t).active /\ Advanced(t).count >= ConfirmTicks
            /\ t.source - Advanced(t).started_at >= HoldTime
            /\ cross.last_fired = None \/ t.source - cross.last_fired >= CrossCooldown
    BY <1>9 DEF Confirms
  <1>11. cross' = IF Confirms(t) THEN Stopped(t.source) ELSE Advanced(t)
    BY <1>1 DEF CrossAfter
  <1>12. Advanced(t).active => dipped
    BY <1>0, <1>7, <1>8 DEF CrossingDipped, Stopped
  <1>13. CrossingDipped'
    <2>1. CASE Confirms(t)
      <3>1. ~cross'.active
        BY <1>11, <2>1 DEF Stopped
      <3> QED BY <1>1, <1>5, <3>1 DEF CrossingDipped
    <2>2. CASE ~Confirms(t)
      <3>1. cross' = Advanced(t)
        BY <1>11, <2>2
      <3>2. dipped' = (t.kind.level \in AtOrBelow \/ dipped)
        BY <1>5, <2>2
      <3> QED BY <1>1, <1>12, <3>1, <3>2 DEF CrossingDipped
    <2> QED BY <2>1, <2>2
  <1>14. RunUnderWay' /\ (Confirms(t) => /\ held'.since # None
                                         /\ held'.count >= ConfirmTicks
                                         /\ t.source - held'.since >= HoldTime)
    <2>0. /\ held.since \in Int /\ held.count \in Nat /\ cross.started_at \in Int
          /\ cross.count \in Nat
          /\ held.since = None \/ (0 <= held.since /\ held.since <= t.source)
      <3>1. /\ held.since \in Int /\ held.count \in Nat /\ cross.started_at \in Int
            /\ cross.count \in Nat
        BY <1>0, CrossShape DEF EngineType
      <3>2. CASE feed = NoFeed
        BY <1>0, <3>1, <3>2 DEF NothingSeen
      <3>3. CASE feed # NoFeed
        BY <1>0, <1>2, <1>3, <3>1, <3>3 DEF RunUnderWay
      <3> QED BY <3>1, <3>2, <3>3
    <2>1. held'.since = None \/ (0 <= held'.since /\ held'.since <= t.source)
      BY <2>0, <1>3, <1>5 DEF None
    <2>2. Advanced(t).active => /\ held'.since # None
                                /\ held'.since <= Advanced(t).started_at
                                /\ held'.count >= Advanced(t).count
                                /\ Advanced(t).started_at \in Int /\ Advanced(t).count \in Nat
                                /\ held'.since \in Int /\ held'.count \in Nat
      <3>1. CASE ~Judged(t)
        BY <1>0, <1>5, <1>8, <2>0, <3>1 DEF RunUnderWay
      <3>2. CASE Judged(t) /\ Crossed(t)
        BY <1>3, <1>5, <1>7, <1>8, <2>0, <3>2 DEF Running, None
      <3>3. CASE Judged(t) /\ ~Crossed(t) /\ cross.active /\ t.kind.level \in Beyond
        BY <1>0, <1>3, <1>5, <1>8, <2>0, <3>3 DEF Running, RunUnderWay
      <3>4. CASE Judged(t) /\ ~Crossed(t) /\ ~(cross.active /\ t.kind.level \in Beyond)
        BY <1>8, <3>4 DEF Stopped
      <3> QED BY <3>1, <3>2, <3>3, <3>4
    <2>3. RunUnderWay'
      BY <1>4, <1>11, <2>1, <2>2 DEF RunUnderWay, Stopped
    <2> QED BY <1>3, <1>10, <2>2, <2>3
  <1>15. HeldBeforeConfirmation'
    BY <1>1, <1>4, <1>14 DEF HeldBeforeConfirmation
  <1>16. ASSUME Confirms(t), fired # None
         PROVE  t.source - fired >= Apart
    <2>1. feed # NoFeed /\ fired \in Int /\ disturbed \in Int
      BY <1>0, <1>16 DEF NothingSeen, EngineType
    <2>2. CASE cross.last_fired = fired
      <3>1. t.source - fired >= CrossCooldown
        BY <1>10, <1>16, <2>2
      <3> QED BY <1>3, <2>1, <3>1 DEF Apart, Forgotten
    <2>3. CASE disturbed # None /\ fired <= disturbed + Slack
      <3>1. t.received >= disturbed + Cooldown /\ t.source >= t.received - MaxAge
        BY <1>0, <1>2, <1>3, <2>3
      <3>2. t.source - fired >= Forgotten
        BY <1>3, <2>1, <2>3, <3>1 DEF Forgotten, Slack
      <3> QED BY <1>3, <2>1, <3>2 DEF Apart, Forgotten
    <2> QED BY <1>0, <1>2, <1>16, <2>1, <2>2, <2>3 DEF FiringRemembered
  <1>17. FiringRemembered'
    <2>1. CASE Confirms(t)
      BY <1>0, <1>3, <1>5, <1>11, <2>1 DEF FiringRemembered, Stopped, EngineType
    <2>2. CASE ~Confirms(t) /\ feed = NoFeed
      BY <1>0, <1>5, <1>9, <1>11, <2>2 DEF FiringRemembered, NothingSeen
    <2>3. CASE ~Confirms(t) /\ feed # NoFeed
      BY <1>0, <1>2, <1>3, <1>5, <1>9, <1>11, <2>3 DEF FiringRemembered, EngineType
    <2> QED BY <2>1, <2>2, <2>3
  <1> QED BY <1>10, <1>12, <1>13, <1>14, <1>15, <1>16, <1>17

LEMMA EntryEvaluated ==
    ASSUME EngineInv, NEW t, Arrives(t), TickEvaluated(t), clock' = clock
    PROVE  EntryAfterWarmup' /\ EntryInOrder'
  <1>0. /\ clock \in Nat /\ EngineType /\ NothingSeen /\ WarmupKept /\ NewestBounded
    BY DEF EngineInv
  <1>1. feed' = UpdatedFeed(t) /\ Records(t, Confirms(t), Judged(t))
    BY DEF TickEvaluated
  <1>2. /\ disturbed' = disturbed
        /\ disturbed # None => t.received >= disturbed + Cooldown
        /\ feed # NoFeed => feed.source \in Int /\ feed.source <= t.source
    BY EvaluatedUndisturbed
  <1>3. /\ t.source \in Int /\ t.received \in Nat /\ 0 <= t.source
        /\ t.source <= t.received + Tolerance /\ t.received <= clock
        /\ t.source <= clock + Tolerance /\ Tolerance \in Nat
        /\ clock - t.source <= MaxAge /\ MaxAge \in Nat /\ Cooldown \in Nat
    BY <1>0, PolicyAssumption DEF Arrives, Tick, TickEvaluated, Valid, Fresh, Plausible
  <1>4. /\ feed'.source = t.source /\ feed'.received = t.received
        /\ newest' = IF newest >= t.source THEN newest ELSE t.source
    BY <1>1 DEF UpdatedFeed, Records, Later
  <1>5. EntryAfterWarmup'
    BY <1>2, <1>4 DEF EntryAfterWarmup
  <1>6. ASSUME 2 * MaxAge + 2 * Tolerance <= Cooldown
        PROVE  newest <= t.source
    <2>1. CASE feed = NoFeed
      BY <1>0, <1>3, <2>1 DEF NothingSeen, None
    <2>2. CASE feed # NoFeed
      BY <1>0, <1>2, <1>3, <1>6, <2>2 DEF NewestBounded, EngineType, Slack
    <2> QED BY <2>1, <2>2
  <1>7. EntryInOrder'
    <2>1. newest \in Int
      BY <1>0 DEF EngineType
    <2> QED BY <1>3, <1>4, <1>6, <2>1 DEF EntryInOrder
  <1> QED BY <1>5, <1>7

\* What a step that processes a tick does about the crossing.
Confirmation(t) ==
    confirmed' => /\ dipped
                  /\ feed'.source = t.source
                  /\ fired # None => t.source - fired >= Apart

LEMMA TickProcessed ==
    ASSUME EngineInv, NEW t, Arrives(t), ProcessTick(t), clock' = clock
    PROVE  EngineInv' /\ Confirmation(t)
  <1>0. /\ clock \in Nat /\ EngineType /\ NothingSeen /\ WarmupKept /\ NewestBounded
        /\ CrossingDipped /\ FiringRemembered /\ RunUnderWay
    BY DEF EngineInv
  <1>1. CASE TickRejected(t)
    <2>1. /\ feed' = feed /\ previous' = previous /\ cross' = cross
          /\ disturbed' = disturbed /\ newest' = newest /\ dipped' = dipped
          /\ fired' = fired /\ held' = held /\ entered' = FALSE /\ confirmed' = FALSE
      BY <1>1 DEF TickRejected, history
    <2>2. EngineType' /\ NothingSeen'
      BY <1>0, <2>1 DEF EngineType, NothingSeen
    <2>3. WarmupKept' /\ NewestBounded' /\ CrossingDipped' /\ FiringRemembered' /\ RunUnderWay'
      BY <1>0, <2>1 DEF WarmupKept, NewestBounded, CrossingDipped, FiringRemembered, RunUnderWay
    <2>4. EntryAfterWarmup' /\ EntryInOrder' /\ HeldBeforeConfirmation'
      BY <2>1 DEF EntryAfterWarmup, EntryInOrder, HeldBeforeConfirmation
    <2> QED BY <1>0, <2>1, <2>2, <2>3, <2>4 DEF EngineInv, Confirmation
  <1>2. CASE TickPaused(t)
    <2>1. /\ Valid(t) /\ feed' = UpdatedFeed(t) /\ Records(t, FALSE, FALSE)
          /\ previous' = "absent" /\ cross' = Idle /\ t.kind.halted
          /\ entered' = FALSE /\ confirmed' = FALSE
      BY <1>2 DEF TickPaused
    <2>2. /\ feed' \in Feed /\ feed' # NoFeed
          /\ disturbed' \in Int /\ newest' \in Int /\ dipped' \in BOOLEAN /\ fired' \in Int
          /\ held' \in [since: Int, count: Nat]
          /\ WarmupKept' /\ NewestBounded'
      BY <2>1, FeedAccepted
    <2>3. cross' = CrossBefore(t)
      BY <2>1 DEF CrossBefore, Forgets
    <2>4. FiringRemembered' /\ RunUnderWay'
      BY <2>1, <2>3, CrossingNotJudged
    <2>5. EngineType' /\ NothingSeen'
      BY <2>1, <2>2, CrossShape DEF EngineType, NothingSeen, Levels
    <2>6. CrossingDipped'
      BY <2>1 DEF CrossingDipped, AtOrBelow, Idle, Stopped
    <2>7. EntryAfterWarmup' /\ EntryInOrder' /\ HeldBeforeConfirmation'
      BY <2>1 DEF EntryAfterWarmup, EntryInOrder, HeldBeforeConfirmation
    <2> QED BY <1>0, <2>1, <2>2, <2>4, <2>5, <2>6, <2>7 DEF EngineInv, Confirmation
  <1>3. CASE TickBlocked(t)
    <2>1. /\ Valid(t) /\ feed' = UpdatedFeed(t) /\ Records(t, FALSE, FALSE)
          /\ KeepsContext(t) /\ cross' = CrossBefore(t) /\ ~t.kind.halted
          /\ entered' = FALSE /\ confirmed' = FALSE
      BY <1>3 DEF TickBlocked
    <2>2. /\ feed' \in Feed /\ feed' # NoFeed
          /\ disturbed' \in Int /\ newest' \in Int /\ dipped' \in BOOLEAN /\ fired' \in Int
          /\ held' \in [since: Int, count: Nat]
          /\ WarmupKept' /\ NewestBounded'
      BY <2>1, FeedAccepted
    <2>3. FiringRemembered' /\ RunUnderWay'
      BY <2>1, CrossingNotJudged
    <2>4. previous' \in Levels /\ cross' \in Cross
      BY <2>1, CrossBeforeType DEF KeepsContext, Arrives, Tick, Kind
    <2>5. EngineType' /\ NothingSeen'
      BY <2>1, <2>2, <2>4 DEF EngineType, NothingSeen
    <2>6. CrossingDipped'
      <3>1. Interrupts(t) <=> Disturbs(t)
        BY InterruptsIsDisturbs
      <3>2. dipped' = ((t.kind.level \in AtOrBelow /\ t.kind.quote = "normal" /\ ~t.kind.halted)
                       \/ (dipped /\ ~Broken(t)))
        BY <2>1 DEF Records
      <3>3. CASE Forgets(t)
        BY <2>1, <3>2, <3>3
           DEF CrossingDipped, AtOrBelow, KeepsContext, Previous, CrossBefore, Idle, Stopped
      <3>4. CASE ~Forgets(t)
        <4>1. ~Broken(t)
          BY <3>1, <3>4 DEF Forgets, Broken
        <4> QED BY <1>0, <2>1, <3>2, <3>4, <4>1 DEF CrossingDipped, KeepsContext, Previous, CrossBefore
      <3> QED BY <3>3, <3>4
    <2>7. EntryAfterWarmup' /\ EntryInOrder' /\ HeldBeforeConfirmation'
      BY <2>1 DEF EntryAfterWarmup, EntryInOrder, HeldBeforeConfirmation
    <2> QED BY <1>0, <2>1, <2>2, <2>3, <2>5, <2>6, <2>7 DEF EngineInv, Confirmation
  <1>4. CASE TickEvaluated(t)
    <2>1. /\ Valid(t) /\ feed' = UpdatedFeed(t) /\ Records(t, Confirms(t), Judged(t))
          /\ KeepsContext(t) /\ cross' = CrossAfter(t)
          /\ entered' = RulesMet(t) /\ confirmed' = Confirms(t)
      BY <1>4 DEF TickEvaluated
    <2>2. Confirms(t) \in BOOLEAN /\ Judged(t) \in BOOLEAN
      BY DEF Confirms, Judged
    <2>3. /\ feed' \in Feed /\ feed' # NoFeed
          /\ disturbed' \in Int /\ newest' \in Int /\ dipped' \in BOOLEAN /\ fired' \in Int
          /\ held' \in [since: Int, count: Nat]
          /\ WarmupKept' /\ NewestBounded'
      BY <2>1, <2>2, FeedAccepted
    <2>4. previous' \in Levels /\ cross' \in Cross
      BY <2>1, CrossBeforeType, CrossAfterType DEF KeepsContext, Arrives, Tick, Kind
    <2>5. entered' \in BOOLEAN /\ confirmed' \in BOOLEAN
      BY <2>1, <2>2 DEF RulesMet, Arrives, Tick, Kind
    <2>6. EngineType' /\ NothingSeen'
      BY <2>3, <2>4, <2>5 DEF EngineType, NothingSeen
    <2>7. /\ CrossingDipped' /\ FiringRemembered' /\ RunUnderWay' /\ HeldBeforeConfirmation'
          /\ Confirms(t) => dipped
          /\ Confirms(t) /\ fired # None => t.source - fired >= Apart
      BY <1>4, CrossingEvaluated
    <2>8. EntryAfterWarmup' /\ EntryInOrder'
      BY <1>4, EntryEvaluated
    <2>9. feed'.source = t.source
      BY <2>1 DEF UpdatedFeed
    <2> QED BY <1>0, <2>1, <2>3, <2>6, <2>7, <2>8, <2>9 DEF EngineInv, Confirmation
  <1> QED BY <1>1, <1>2, <1>3, <1>4 DEF ProcessTick

----
\* The producers.

\* A step in which no tick is processed and the engine keeps running.
LEMMA NoTick ==
    ASSUME EngineInv, clock' \in Nat, clock <= clock', UNCHANGED <<engineVars, history>>
    PROVE  EngineInv'
  <1>0. /\ clock \in Nat /\ EngineType /\ NothingSeen /\ WarmupKept /\ NewestBounded
        /\ CrossingDipped /\ FiringRemembered /\ RunUnderWay
        /\ EntryAfterWarmup /\ EntryInOrder /\ HeldBeforeConfirmation
    BY DEF EngineInv
  <1>1. /\ feed' = feed /\ previous' = previous /\ cross' = cross
        /\ disturbed' = disturbed /\ newest' = newest /\ dipped' = dipped
        /\ fired' = fired /\ held' = held /\ entered' = entered /\ confirmed' = confirmed
    BY DEF engineVars, history
  <1>2. EngineType' /\ NothingSeen' /\ CrossingDipped' /\ FiringRemembered' /\ RunUnderWay'
    BY <1>0, <1>1 DEF EngineType, NothingSeen, CrossingDipped, FiringRemembered, RunUnderWay
  <1>3. WarmupKept'
    BY <1>0, <1>1 DEF WarmupKept, EngineType, Feed
  <1>4. NewestBounded'
    <2>1. newest \in Int /\ clock \in Int /\ clock' \in Int /\ Tolerance \in Int
      BY <1>0, PolicyAssumption DEF EngineType
    <2>2. \A a, b, c, d \in Int : a <= b + d /\ b <= c => a <= c + d
      OBVIOUS
    <2>3. newest <= clock + Tolerance => newest <= clock' + Tolerance
      BY <2>1, <2>2
    <2> QED BY <1>0, <1>1, <2>3 DEF NewestBounded, Slack
  <1>5. EntryAfterWarmup' /\ EntryInOrder' /\ HeldBeforeConfirmation'
    BY <1>0, <1>1 DEF EntryAfterWarmup, EntryInOrder, HeldBeforeConfirmation
  <1> QED BY <1>2, <1>3, <1>4, <1>5 DEF EngineInv

LEMMA BridgeTickArrives ==
    ASSUME IInv, NEW k \in BridgeKinds, NEW s \in Sources
    PROVE  Arrives(BridgeTick(k, s))
  <1>1. clock \in Nat /\ link.connection \in Nat /\ link.sequence \in Nat
    BY BoundAssumption DEF IInv, ProducersInv, EngineInv
  <1>2. s \in Int /\ 0 <= s
    BY <1>1, PolicyAssumption DEF Sources
  <1>3. k \in Kind
    BY KindAssumption
  <1> QED BY <1>1, <1>2, <1>3 DEF Arrives, BridgeTick, Tick

LEMMA LateKept ==
    ASSUME ProducersInv, clock' \in Nat, clock <= clock', late' = late
    PROVE  \A t \in late' : Arrives(t)'
  BY DEF ProducersInv, Arrives, Tick

\* Every step keeps the invariant, and a step that confirms a crossing and changes
\* the feed has processed a tick.
LEMMA StepCorrect ==
    ASSUME IInv, [Next]_vars
    PROVE  /\ IInv'
           /\ confirmed' /\ feed' # feed => \E t : Arrives(t) /\ Confirmation(t)
  <1>0. /\ EngineInv /\ ProducersInv /\ clock \in 0..Horizon /\ clock \in Nat
        /\ MaxConnections \in Nat /\ MaxSequence \in Nat /\ Horizon \in Nat
    BY BoundAssumption DEF IInv, ProducersInv, EngineInv
  <1>1. ASSUME NEW k \in BridgeKinds, NEW s \in Sources, BridgeSends(k, s)
        PROVE  IInv' /\ \E t : Arrives(t) /\ Confirmation(t)
    <2>1. clock' = clock /\ late' = late /\ Sends /\ ProcessTick(BridgeTick(k, s))
      BY <1>1 DEF BridgeSends
    <2>2. Arrives(BridgeTick(k, s))
      BY BridgeTickArrives
    <2>3. EngineInv' /\ Confirmation(BridgeTick(k, s))
      BY <1>0, <2>1, <2>2, TickProcessed
    <2>4. link' \in [connection: 1..MaxConnections, sequence: 0..MaxSequence]
      BY <1>0, <2>1 DEF ProducersInv, Sends
    <2>5. \A t \in late' : Arrives(t)'
      BY <1>0, <2>1, LateKept
    <2> QED BY <1>0, <2>1, <2>2, <2>3, <2>4, <2>5 DEF IInv, ProducersInv
  <1>2. ASSUME NEW k \in LateKinds, NEW s \in Sources, BridgeSendsLate(k, s)
        PROVE  IInv' /\ UNCHANGED feed
    <2>1. /\ clock' = clock /\ late' = {BridgeTick(k, s)} /\ Sends
          /\ UNCHANGED <<engineVars, history>> /\ feed' = feed
      BY <1>2 DEF BridgeSendsLate, engineVars
    <2>2. Arrives(BridgeTick(k, s))
      BY BridgeTickArrives, KindAssumption
    <2>3. EngineInv'
      BY <1>0, <2>1, NoTick
    <2>4. link' \in [connection: 1..MaxConnections, sequence: 0..MaxSequence]
      BY <1>0, <2>1 DEF ProducersInv, Sends
    <2>5. \A t \in late' : Arrives(t)'
      BY <2>1, <2>2 DEF Arrives
    <2> QED BY <1>0, <2>1, <2>3, <2>4, <2>5 DEF IInv, ProducersInv
  <1>3. ASSUME NEW t \in late, LateArrives(t)
        PROVE  IInv' /\ Arrives(t) /\ Confirmation(t)
    <2>1. clock' = clock /\ link' = link /\ late' = {} /\ ProcessTick(t)
      BY <1>3 DEF LateArrives
    <2>2. Arrives(t)
      BY <1>0 DEF ProducersInv
    <2>3. EngineInv' /\ Confirmation(t)
      BY <1>0, <2>1, <2>2, TickProcessed
    <2> QED BY <1>0, <2>1, <2>2, <2>3 DEF IInv, ProducersInv
  <1>4. ASSUME NEW k \in PollKinds, Poll(k)
        PROVE  IInv' /\ \E t : Arrives(t) /\ Confirmation(t)
    <2> DEFINE q == [kind |-> k, connection |-> Rest, sequence |-> clock,
                     source |-> clock, received |-> clock]
    <2>1. clock' = clock /\ link' = link /\ late' = late /\ ProcessTick(q)
      BY <1>4 DEF Poll
    <2>2. Arrives(q)
      BY <1>0, KindAssumption DEF Arrives, Tick, Rest
    <2> HIDE DEF q
    <2>3. EngineInv' /\ Confirmation(q)
      BY <1>0, <2>1, <2>2, TickProcessed
    <2>4. \A t \in late' : Arrives(t)'
      BY <1>0, <2>1, LateKept
    <2> QED BY <1>0, <2>1, <2>2, <2>3, <2>4 DEF IInv, ProducersInv
  <1>5. CASE Reconnect
    <2>1. /\ clock' = clock /\ late' = late /\ UNCHANGED <<engineVars, history>>
          /\ feed' = feed
      BY <1>5 DEF Reconnect, engineVars
    <2>2. EngineInv'
      BY <1>0, <2>1, NoTick
    <2>3. link' \in [connection: 1..MaxConnections, sequence: 0..MaxSequence]
      BY <1>0, <1>5 DEF ProducersInv, Reconnect
    <2>4. \A t \in late' : Arrives(t)'
      BY <1>0, <2>1, LateKept
    <2> QED BY <1>0, <2>1, <2>2, <2>3, <2>4 DEF IInv, ProducersInv
  <1>6. CASE Restart
    <2>1. /\ clock' = clock /\ late' = late /\ link' = link
          /\ feed' = NoFeed /\ previous' = "absent" /\ cross' = Idle
          /\ entered' = FALSE /\ confirmed' = FALSE
          /\ disturbed' = None /\ newest' = None /\ dipped' = FALSE /\ fired' = None
          /\ held' = [since |-> None, count |-> 0]
      BY <1>6 DEF Restart
    <2>2. EngineType' /\ NothingSeen'
      <3>1. None \in Int /\ [since |-> None, count |-> 0] \in [since: Int, count: Nat]
        BY DEF None
      <3>2. cross' \in Cross /\ previous' \in Levels
        BY <2>1, CrossShape DEF Levels
      <3> QED BY <2>1, <3>1, <3>2 DEF EngineType, NothingSeen
    <2>3. WarmupKept' /\ NewestBounded' /\ CrossingDipped' /\ FiringRemembered' /\ RunUnderWay'
      BY <2>1 DEF WarmupKept, NewestBounded, CrossingDipped, FiringRemembered, RunUnderWay,
                  AtOrBelow, Idle, Stopped
    <2>4. EntryAfterWarmup' /\ EntryInOrder' /\ HeldBeforeConfirmation'
      BY <2>1 DEF EntryAfterWarmup, EntryInOrder, HeldBeforeConfirmation
    <2>5. \A t \in late' : Arrives(t)'
      BY <1>0, <2>1, LateKept
    <2> QED BY <1>0, <2>1, <2>2, <2>3, <2>4, <2>5 DEF IInv, ProducersInv, EngineInv
  <1>7. CASE Elapse
    <2>1. /\ clock' = clock + 1 /\ clock' \in 0..Horizon /\ clock' \in Nat
          /\ late' = late /\ link' = link
          /\ UNCHANGED <<engineVars, history>> /\ feed' = feed
      BY <1>0, <1>7 DEF Elapse, engineVars
    <2>2. EngineInv'
      BY <1>0, <2>1, NoTick
    <2>3. \A t \in late' : Arrives(t)'
      BY <1>0, <2>1, LateKept
    <2> QED BY <1>0, <2>1, <2>2, <2>3 DEF IInv, ProducersInv
  <1>8. CASE UNCHANGED vars
    <2>1. /\ clock' = clock /\ late' = late /\ link' = link
          /\ UNCHANGED <<engineVars, history>> /\ feed' = feed
      BY <1>8 DEF vars, engineVars
    <2>2. EngineInv'
      BY <1>0, <2>1, NoTick
    <2>3. \A t \in late' : Arrives(t)'
      BY <1>0, <2>1, LateKept
    <2> QED BY <1>0, <2>1, <2>2, <2>3 DEF IInv, ProducersInv
  <1>9. CASE Restart \/ Reconnect \/ Elapse \/ UNCHANGED vars
    <2>1. confirmed' /\ feed' # feed => FALSE
      BY <1>9 DEF Restart, Reconnect, Elapse, vars, engineVars
    <2> QED BY <1>5, <1>6, <1>7, <1>8, <1>9, <2>1
  <1> QED BY <1>1, <1>2, <1>3, <1>4, <1>9 DEF Next

LEMMA InitCorrect == Init => IInv
  <1> SUFFICES ASSUME Init PROVE IInv
    OBVIOUS
  <1>1. None \in Int /\ [since |-> None, count |-> 0] \in [since: Int, count: Nat]
    BY DEF None
  <1>2. cross \in Cross /\ previous \in Levels
    BY CrossShape DEF Init, Levels
  <1>3. EngineType /\ NothingSeen
    BY <1>1, <1>2 DEF Init, EngineType, NothingSeen
  <1>4. WarmupKept /\ NewestBounded /\ CrossingDipped /\ FiringRemembered /\ RunUnderWay
    BY DEF Init, WarmupKept, NewestBounded, CrossingDipped, FiringRemembered, RunUnderWay,
           AtOrBelow, Idle, Stopped
  <1>5. EntryAfterWarmup /\ EntryInOrder /\ HeldBeforeConfirmation
    BY DEF Init, EntryAfterWarmup, EntryInOrder, HeldBeforeConfirmation
  <1>6. clock \in Nat /\ ProducersInv
    BY BoundAssumption DEF Init, ProducersInv
  <1> QED BY <1>3, <1>4, <1>5, <1>6 DEF IInv, EngineInv

----
\* The theorems.

\* The invariant holds in every reachable state.
THEOREM GateInvariant == GateSpec => []IInv
  <1>1. IInv /\ [Next]_vars => IInv'
    BY StepCorrect
  <1> QED BY InitCorrect, <1>1, PTL DEF GateSpec

\* Every variable keeps its type: in particular a debounce state is either idle with
\* no start and no count, or running with both (CrossDebounceState).
THEOREM GateTypeCorrect == GateSpec => []GateTypeOK
  <1>1. IInv => GateTypeOK
    BY DEF IInv, EngineInv, EngineType, ProducersInv, Arrives, GateTypeOK
  <1> QED BY GateInvariant, <1>1, PTL

\* No order is placed within the warm-up, for any number of connections, however the
\* ticks of the bridge and the poller alternate and however late one arrives.
THEOREM WarmupRespected == GateSpec => []EntryAfterWarmup
  <1>1. IInv => EntryAfterWarmup
    BY DEF IInv, EngineInv
  <1> QED BY GateInvariant, <1>1, PTL

\* Where the warm-up is at least twice the greatest age of a tick and twice the
\* tolerance, no order is placed on a tick older than one the engine accepted before.
THEOREM OrdersInOrder == GateSpec => []EntryInOrder
  <1>1. IInv => EntryInOrder
    BY DEF IInv, EngineInv
  <1> QED BY GateInvariant, <1>1, PTL

\* A confirmation ends a run of judged ticks at the margin or above that is long
\* enough in number and in time.
THEOREM RunHeld == GateSpec => []HeldBeforeConfirmation
  <1>1. IInv => HeldBeforeConfirmation
    BY DEF IInv, EngineInv
  <1> QED BY GateInvariant, <1>1, PTL

\* Between two confirmations, the tick of the first one included, comes a tick at
\* or below: no crossing is confirmed twice.
THEOREM OncePerCrossing == GateSpec => ConfirmedOncePerCrossing
  <1>1. IInv /\ [Next]_vars => [confirmed' /\ feed' # feed => dipped]_vars
    BY StepCorrect DEF Confirmation
  <1> QED BY GateInvariant, <1>1, PTL DEF GateSpec, ConfirmedOncePerCrossing

\* Two confirmations are a cooldown apart, also across a disturbance.
THEOREM CooldownRespected == GateSpec => ConfirmationsApart
  <1>1. IInv /\ [Next]_vars
           => [confirmed' /\ feed' # feed /\ fired # None => feed'.source - fired >= Apart]_vars
    BY StepCorrect DEF Confirmation
  <1> QED BY GateInvariant, <1>1, PTL DEF GateSpec, ConfirmationsApart
====
