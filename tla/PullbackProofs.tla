---- MODULE PullbackProofs ----
(***************************************************************************)
(* Proofs about the pullback-rebreak strategy: what the ticks make of its  *)
(* state, and that the saved row follows.                                  *)
(*                                                                         *)
(* The invariant is stated of one strategy state and a time, and proved    *)
(* for each operator that makes a state out of another, before it is       *)
(* carried to the state in memory and to the row on disk.                  *)
(***************************************************************************)
EXTENDS PullbackRebreak, TLAPS

\* The bars of a sample, the oldest first, none twice.
Increasing(sample) ==
    \A i, j \in 1..Len(sample) : i < j => sample[i].minute < sample[j].minute

\* Both samples are in order, the impulse before the pullback; nothing is newer than
\* the bar that counted last, and that is not newer than the clock.
Sampling(st, time) ==
    /\ Len(st.impulse_volumes) <= SampleSize /\ Len(st.pullback_volumes) <= SampleSize
    /\ Increasing(st.impulse_volumes) /\ Increasing(st.pullback_volumes)
    /\ \A i \in 1..Len(st.impulse_volumes), j \in 1..Len(st.pullback_volumes) :
            st.impulse_volumes[i].minute < st.pullback_volumes[j].minute
    /\ \A i \in 1..Len(st.impulse_volumes) :
            st.impulse_volumes[i].minute <= st.last_volume_timestamp
    /\ \A i \in 1..Len(st.pullback_volumes) :
            st.pullback_volumes[i].minute <= st.last_volume_timestamp
    /\ st.last_volume_timestamp <= time

\* No pullback has begun before the breakout.
BeforeBreakout(st, time) ==
    /\ st.pullback_started_at = None /\ st.pullback_low = None
    /\ st.pullback_volumes = <<>>
    /\ st.breakout_confirm_count > 0 =>
          /\ st.breakout_candidate_started # None /\ st.breakout_candidate_started <= time
          /\ st.impulse_high # None /\ st.atr_at_breakout > 0

\* The breakout has held, and what followed it followed it.
AfterBreakout(st, time) ==
    /\ st.breakout_candidate_started # None
    /\ st.breakout_candidate_started + HoldTime <= time
    /\ st.impulse_high # None /\ st.atr_at_breakout > 0
    /\ st.pullback_low # None => st.pullback_low <= st.impulse_high
    /\ st.pullback_started_at # None =>
          /\ st.breakout_candidate_started + HoldTime <= st.pullback_started_at
          /\ st.pullback_started_at <= time

Shallow(st) == Depth(st) < MinDepth * st.atr_at_breakout

\* The pullback's clock runs while it is deep; its sample begins with it.
DuringPullback(st) ==
    /\ st.pullback_low = None => st.pullback_started_at = None
    /\ st.pullback_low # None => (st.pullback_started_at = None <=> Shallow(st))
    /\ st.pullback_started_at = None => st.pullback_volumes = <<>>
    /\ \A i \in 1..Len(st.pullback_volumes) :
            st.pullback_volumes[i].minute >= st.pullback_started_at

\* The pullback that was confirmed.
AfterPullback(st, time) ==
    /\ st.pullback_low # None /\ st.pullback_started_at # None
    /\ st.pullback_low <= st.pullback_high /\ st.pullback_high <= st.impulse_high
    /\ ~Shallow(st) /\ Depth(st) <= MaxDepth * st.atr_at_breakout
    /\ st.pullback_started_at + MinMinutes <= time

Sound(st, time) ==
    /\ st \in State /\ Sampling(st, time)
    /\ st.phase = "WAIT_BREAKOUT" => BeforeBreakout(st, time)
    /\ st.phase \in {"WAIT_PULLBACK", "WAIT_REBREAK", "SIGNAL_TRIGGERED"} =>
            AfterBreakout(st, time)
    /\ st.phase = "WAIT_PULLBACK" => DuringPullback(st)
    /\ st.phase \in {"WAIT_REBREAK", "SIGNAL_TRIGGERED"} => AfterPullback(st, time)

EngineTypeOK ==
    /\ previous \in Nat \cup {None} /\ feed \in Nat \cup {None} /\ conn \in Nat
    /\ signal \in Ticks \cup {NoTick} /\ outcome \in {"none", "accepted", "refused"}
    /\ entry \in {"none", "open", "over"} /\ active \in BOOLEAN /\ now \in Nat

\* The broker answers to a signal that is being submitted.
OutcomeOfSignal == outcome # "none" => signal # NoTick

StrategyInv == /\ EngineTypeOK /\ OutcomeOfSignal
               /\ Sound(mem, now) /\ Sound(disk, now)
               /\ PatternSaved

----
\* The volume samples.

LEMMA BarMinutes ==
    ASSUME NEW sample \in Seq(Bar)
    PROVE  \A i \in 1..Len(sample) : sample[i] \in Bar /\ sample[i].minute \in Nat
<1>1. \A i \in 1..Len(sample) : sample[i] \in Bar OBVIOUS
<1>2. \A bar \in Bar : bar.minute \in Nat BY DEF Bar
<1> QED BY <1>1, <1>2

\* Adding a bar that is newer than every bar of the sample.
LEMMA SampledSound ==
    ASSUME NEW sample \in Seq(Bar), Len(sample) <= SampleSize, Increasing(sample),
           NEW bar \in Bar,
           \A i \in 1..Len(sample) : sample[i].minute < bar.minute
    PROVE  /\ Sampled(sample, bar) \in Seq(Bar)
           /\ Len(Sampled(sample, bar)) <= SampleSize
           /\ Increasing(Sampled(sample, bar))
           /\ \A i \in 1..Len(Sampled(sample, bar)) :
                  \/ Sampled(sample, bar)[i] = bar
                  \/ \E j \in 1..Len(sample) : Sampled(sample, bar)[i] = sample[j]
<1> DEFINE r == Sampled(sample, bar)
           n == Len(sample)
<1>1. n \in Nat /\ SampleSize \in Nat \ {0} BY StrategyAssumption
<1>2. \A i \in 1..n : sample[i] \in Bar /\ sample[i].minute \in Nat BY BarMinutes
<1>3. bar.minute \in Nat BY DEF Bar
<1>4. CASE n < SampleSize
  <2>1. r = Append(sample, bar) BY <1>4 DEF Sampled
  <2>2. /\ r \in Seq(Bar) /\ Len(r) = n + 1 /\ r[n + 1] = bar
        /\ \A i \in 1..n : r[i] = sample[i]
    BY <1>1, <2>1
  <2> HIDE DEF r
  <2>3. \A i \in 1..Len(r) : i = n + 1 \/ i \in 1..n BY <1>1, <2>2
  <2>4. Increasing(r)
    <3> SUFFICES ASSUME NEW i \in 1..Len(r), NEW j \in 1..Len(r), i < j
                 PROVE  r[i].minute < r[j].minute
      BY DEF Increasing
    <3>1. i \in 1..n BY <1>1, <2>2
    <3>2. CASE j = n + 1 BY <2>2, <3>1, <3>2
    <3>3. CASE j \in 1..n BY <2>2, <3>1, <3>3 DEF Increasing
    <3> QED BY <2>3, <3>2, <3>3
  <2>5. \A i \in 1..Len(r) : r[i] = bar \/ \E j \in 1..n : r[i] = sample[j]
    BY <2>2, <2>3
  <2>6. Len(r) <= SampleSize BY <1>1, <1>4, <2>2
  <2> QED BY <2>2, <2>4, <2>5, <2>6 DEF r
<1>5. CASE ~(n < SampleSize)
  <2>1. r = Append(Tail(sample), bar) /\ n = SampleSize /\ sample # <<>>
    BY <1>1, <1>5 DEF Sampled
  <2>2. /\ Tail(sample) \in Seq(Bar) /\ Len(Tail(sample)) = n - 1
        /\ \A i \in 1..(n - 1) : Tail(sample)[i] = sample[i + 1]
    BY <1>1, <2>1
  <2>3. /\ r \in Seq(Bar) /\ Len(r) = n /\ r[n] = bar
        /\ \A i \in 1..(n - 1) : r[i] = sample[i + 1]
    BY <1>1, <2>1, <2>2
  <2> HIDE DEF r
  <2>4. \A i \in 1..Len(r) : i = n \/ (i \in 1..(n - 1) /\ i + 1 \in 1..n) BY <1>1, <2>3
  <2>5. Increasing(r)
    <3> SUFFICES ASSUME NEW i \in 1..Len(r), NEW j \in 1..Len(r), i < j
                 PROVE  r[i].minute < r[j].minute
      BY DEF Increasing
    <3>1. i \in 1..(n - 1) /\ i + 1 \in 1..n BY <1>1, <2>3
    <3>2. CASE j = n BY <2>3, <3>1, <3>2
    <3>3. CASE j \in 1..(n - 1) /\ j + 1 \in 1..n
      <4>1. i + 1 < j + 1 BY <3>1, <3>3
      <4> QED BY <2>3, <3>1, <3>3, <4>1 DEF Increasing
    <3> QED BY <2>4, <3>2, <3>3
  <2>6. \A i \in 1..Len(r) : r[i] = bar \/ \E j \in 1..n : r[i] = sample[j]
    BY <2>3, <2>4
  <2>7. Len(r) <= SampleSize BY <2>1, <2>3
  <2> QED BY <2>3, <2>5, <2>6, <2>7 DEF r
<1> QED BY <1>4, <1>5

\* Two samples in order, the first before the second, are one in order.
LEMMA JoinedIncreasing ==
    ASSUME NEW a \in Seq(Bar), NEW b \in Seq(Bar), Increasing(a), Increasing(b),
           \A i \in 1..Len(a), j \in 1..Len(b) : a[i].minute < b[j].minute
    PROVE  Increasing(a \o b)
<1>1. /\ Len(a) \in Nat /\ Len(b) \in Nat /\ Len(a \o b) = Len(a) + Len(b)
      /\ \A k \in 1..(Len(a) + Len(b)) :
            (a \o b)[k] = IF k <= Len(a) THEN a[k] ELSE b[k - Len(a)]
  OBVIOUS
<1> SUFFICES ASSUME NEW i \in 1..Len(a \o b), NEW j \in 1..Len(a \o b), i < j
             PROVE  (a \o b)[i].minute < (a \o b)[j].minute
  BY DEF Increasing
<1>2. i \in Int /\ j \in Int /\ i >= 1 /\ j <= Len(a) + Len(b) BY <1>1
<1>3. CASE j <= Len(a)
  <2>1. i \in 1..Len(a) /\ j \in 1..Len(a) BY <1>1, <1>2, <1>3
  <2> QED BY <1>1, <1>3, <2>1 DEF Increasing
<1>4. CASE i <= Len(a) /\ ~(j <= Len(a))
  <2>1. i \in 1..Len(a) /\ j - Len(a) \in 1..Len(b) BY <1>1, <1>2, <1>4
  <2> QED BY <1>1, <1>4, <2>1
<1>5. CASE ~(i <= Len(a))
  <2>1. /\ i - Len(a) \in 1..Len(b) /\ j - Len(a) \in 1..Len(b)
        /\ i - Len(a) < j - Len(a) /\ ~(j <= Len(a))
    BY <1>1, <1>2, <1>5
  <2> QED BY <1>1, <1>5, <2>1 DEF Increasing
<1> QED BY <1>3, <1>4, <1>5

\* A state whose samples are left alone keeps everything that is said of them.
Kept(st, r) ==
    /\ r.phase = st.phase /\ r.connection_id = st.connection_id
    /\ r.breakout_candidate_started = st.breakout_candidate_started
    /\ r.breakout_confirm_count = st.breakout_confirm_count
    /\ r.impulse_high = st.impulse_high /\ r.atr_at_breakout = st.atr_at_breakout
    /\ r.pullback_started_at = st.pullback_started_at
    /\ r.pullback_low = st.pullback_low /\ r.pullback_high = st.pullback_high

\* The minute's bar counts once; the impulse only while no pullback has begun.
LEMMA RecordVolumeSound ==
    ASSUME NEW st \in State, Sampling(st, now), now \in Nat, NEW t \in Tick,
           NEW sample \in {"impulse", "pullback"},
           sample = "impulse" => st.pullback_volumes = <<>>
    PROVE  LET r == RecordVolume(st, t, sample)
           IN  /\ r \in State /\ Sampling(r, now) /\ Kept(st, r)
               /\ sample = "impulse" => r.pullback_volumes = <<>>
               /\ \A i \in 1..Len(r.pullback_volumes) :
                      \/ r.pullback_volumes[i].minute = now
                      \/ \E j \in 1..Len(st.pullback_volumes) :
                            r.pullback_volumes[i] = st.pullback_volumes[j]
<1> DEFINE r == RecordVolume(st, t, sample)
           bar == [minute |-> now, volume |-> t.volume]
           impulse == st.impulse_volumes
           pullback == st.pullback_volumes
<1>1. /\ bar \in Bar /\ bar.minute = now
      /\ impulse \in Seq(Bar) /\ pullback \in Seq(Bar)
      /\ st.last_volume_timestamp \in Nat \cup {None}
      /\ Len(impulse) \in Nat /\ Len(pullback) \in Nat
  BY DEF State, Tick, Bar
<1>2. CASE st.last_volume_timestamp = now
  <2>1. r = st BY <1>2 DEF RecordVolume
  <2> QED BY <2>1 DEF Kept
<1>3. CASE st.last_volume_timestamp # now
  <2>1. st.last_volume_timestamp < now
    BY <1>1, <1>3 DEF Sampling, None
  <2>2. /\ \A i \in 1..Len(impulse) : impulse[i] \in Bar /\ impulse[i].minute \in Nat
        /\ \A i \in 1..Len(pullback) : pullback[i] \in Bar /\ pullback[i].minute \in Nat
    BY <1>1, BarMinutes
  <2>3. /\ \A i \in 1..Len(impulse) : impulse[i].minute < now
        /\ \A i \in 1..Len(pullback) : pullback[i].minute < now
    BY <1>1, <2>1, <2>2 DEF Sampling, None
  <2>4. CASE sample = "impulse"
    <3> DEFINE grown == Sampled(impulse, bar)
    <3>1. r = [st EXCEPT !.last_volume_timestamp = now, !.impulse_volumes = grown]
      BY <1>3, <2>4 DEF RecordVolume, State
    <3>2. /\ grown \in Seq(Bar) /\ Len(grown) <= SampleSize /\ Increasing(grown)
          /\ \A i \in 1..Len(grown) :
                grown[i] = bar \/ \E j \in 1..Len(impulse) : grown[i] = impulse[j]
      BY <1>1, <2>3, SampledSound DEF Sampling
    <3> HIDE DEF grown
    <3>3. /\ r \in State /\ Kept(st, r) /\ r.last_volume_timestamp = now
          /\ r.impulse_volumes = grown /\ r.pullback_volumes = pullback
      BY <3>1, <3>2 DEF State, Kept
    <3> HIDE DEF r
    <3>4. \A i \in 1..Len(grown) : grown[i].minute <= now
      <4> SUFFICES ASSUME NEW i \in 1..Len(grown) PROVE grown[i].minute <= now OBVIOUS
      <4>1. CASE grown[i] = bar BY <1>1, <4>1
      <4>2. CASE \E j \in 1..Len(impulse) : grown[i] = impulse[j] BY <2>2, <2>3, <4>2
      <4> QED BY <3>2, <4>1, <4>2
    <3>5. pullback = <<>> /\ Len(pullback) = 0 BY <2>4
    <3>6. Sampling(r, now)
      BY <3>2, <3>3, <3>4, <3>5 DEF Sampling
    <3> QED BY <3>3, <3>5, <3>6 DEF r
  <2>5. CASE sample = "pullback"
    <3> DEFINE grown == Sampled(pullback, bar)
    <3>1. r = [st EXCEPT !.last_volume_timestamp = now, !.pullback_volumes = grown]
      BY <1>3, <2>5 DEF RecordVolume, State
    <3>2. /\ grown \in Seq(Bar) /\ Len(grown) <= SampleSize /\ Increasing(grown)
          /\ \A i \in 1..Len(grown) :
                grown[i] = bar \/ \E j \in 1..Len(pullback) : grown[i] = pullback[j]
      BY <1>1, <2>3, SampledSound DEF Sampling
    <3> HIDE DEF grown
    <3>3. /\ r \in State /\ Kept(st, r) /\ r.last_volume_timestamp = now
          /\ r.pullback_volumes = grown /\ r.impulse_volumes = impulse
      BY <3>1, <3>2 DEF State, Kept
    <3> HIDE DEF r
    <3>4. \A i \in 1..Len(grown) : grown[i].minute <= now
      <4> SUFFICES ASSUME NEW i \in 1..Len(grown) PROVE grown[i].minute <= now OBVIOUS
      <4>1. CASE grown[i] = bar BY <1>1, <4>1
      <4>2. CASE \E j \in 1..Len(pullback) : grown[i] = pullback[j] BY <2>2, <2>3, <4>2
      <4> QED BY <3>2, <4>1, <4>2
    <3>5. \A i \in 1..Len(impulse), j \in 1..Len(grown) : impulse[i].minute < grown[j].minute
      BY <1>1, <2>3, <3>2 DEF Sampling
    <3>6. \A i \in 1..Len(impulse) : impulse[i].minute <= now BY <2>2, <2>3
    <3>7. Sampling(r, now)
      BY <3>2, <3>3, <3>4, <3>5, <3>6 DEF Sampling
    <3>8. \A i \in 1..Len(grown) :
              grown[i].minute = now \/ \E j \in 1..Len(pullback) : grown[i] = pullback[j]
      BY <1>1, <3>2
    <3> QED BY <2>5, <3>3, <3>7, <3>8 DEF r
  <2> QED BY <2>4, <2>5
<1> QED BY <1>2, <1>3

----
\* States that carry no pattern.

LEMMA FieldsTyped ==
    ASSUME NEW st \in State, NEW x \in Nat \cup {None}
    PROVE  /\ [st EXCEPT !.breakout_candidate_started = x] \in State
           /\ [st EXCEPT !.impulse_high = x] \in State
           /\ [st EXCEPT !.atr_at_breakout = x] \in State
           /\ [st EXCEPT !.last_volume_timestamp = x] \in State
           /\ [st EXCEPT !.impulse_volumes = <<>>] \in State
           /\ [st EXCEPT !.pullback_volumes = <<>>] \in State
           /\ x # None => [st EXCEPT !.breakout_confirm_count = x] \in State
<1>1. <<>> \in Seq(Bar) OBVIOUS
<1>2. [st EXCEPT !.breakout_candidate_started = x] \in State BY DEF State
<1>3. [st EXCEPT !.impulse_high = x] \in State BY DEF State
<1>4. [st EXCEPT !.atr_at_breakout = x] \in State BY DEF State
<1>5. [st EXCEPT !.last_volume_timestamp = x] \in State BY DEF State
<1>6. [st EXCEPT !.impulse_volumes = <<>>] \in State BY <1>1 DEF State
<1>7. [st EXCEPT !.pullback_volumes = <<>>] \in State BY <1>1 DEF State
<1>8. x # None => [st EXCEPT !.breakout_confirm_count = x] \in State BY DEF State
<1> QED BY <1>2, <1>3, <1>4, <1>5, <1>6, <1>7, <1>8

LEMMA FreshSound ==
    ASSUME NEW c \in Nat \cup {None}, NEW time \in Nat
    PROVE  Sound([Fresh EXCEPT !.connection_id = c], time)
<1> DEFINE r == [Fresh EXCEPT !.connection_id = c]
<1>1. <<>> \in Seq(Bar) OBVIOUS
<1>2. /\ r.phase = "WAIT_BREAKOUT" /\ r.breakout_confirm_count = 0
      /\ r.impulse_volumes = <<>> /\ r.pullback_volumes = <<>>
      /\ r.pullback_started_at = None /\ r.pullback_low = None
      /\ r.last_volume_timestamp = None
  BY DEF Fresh
<1>3. r \in State BY <1>1 DEF Fresh, State, Forming
<1> HIDE DEF r
<1>4. Sampling(r, time)
  BY <1>2, StrategyAssumption DEF Sampling, Increasing, None
<1>5. BeforeBreakout(r, time) BY <1>2 DEF BeforeBreakout
<1> QED BY <1>2, <1>3, <1>4, <1>5 DEF Sound, r

LEMMA ResetSound ==
    ASSUME conn \in Nat, NEW time \in Nat
    PROVE  Sound(Reset, time)
BY FreshSound DEF Reset

\* The predicates above do not look at the connection.
LEMMA ConnectionSound ==
    ASSUME NEW time, NEW st, Sound(st, time), NEW c \in Nat \cup {None}
    PROVE  Sound([st EXCEPT !.connection_id = c], time)
<1> DEFINE r == [st EXCEPT !.connection_id = c]
<1>1. st \in State BY DEF Sound
<1>2. r \in State BY <1>1 DEF State
<1>3. /\ r.phase = st.phase
      /\ r.breakout_candidate_started = st.breakout_candidate_started
      /\ r.breakout_confirm_count = st.breakout_confirm_count
      /\ r.impulse_high = st.impulse_high /\ r.atr_at_breakout = st.atr_at_breakout
      /\ r.pullback_started_at = st.pullback_started_at
      /\ r.pullback_low = st.pullback_low /\ r.pullback_high = st.pullback_high
      /\ r.last_volume_timestamp = st.last_volume_timestamp
      /\ r.impulse_volumes = st.impulse_volumes /\ r.pullback_volumes = st.pullback_volumes
  BY <1>1 DEF State
<1> HIDE DEF r
<1> QED
  BY <1>2, <1>3 DEF Sound, Sampling, BeforeBreakout, AfterBreakout, DuringPullback,
                    AfterPullback, Shallow, Depth, r

LEMMA InContextSound ==
    ASSUME NEW st, Sound(st, now), conn \in Nat, now \in Nat
    PROVE  Sound(InContext(st), now)
BY ResetSound, ConnectionSound DEF InContext

\* A settled state promises its samples only.
LEMMA SettledSound ==
    ASSUME NEW time, NEW st, Sound(st, time), NEW phase \in Settled
    PROVE  Sound([st EXCEPT !.phase = phase], time)
<1> DEFINE r == [st EXCEPT !.phase = phase]
<1>1. st \in State BY DEF Sound
<1>2. r \in State BY <1>1 DEF State
<1>3. /\ r.phase = phase
      /\ r.last_volume_timestamp = st.last_volume_timestamp
      /\ r.impulse_volumes = st.impulse_volumes /\ r.pullback_volumes = st.pullback_volumes
  BY <1>1 DEF State
<1> HIDE DEF r
<1>4. phase \notin {"WAIT_BREAKOUT", "WAIT_PULLBACK", "WAIT_REBREAK", "SIGNAL_TRIGGERED"}
  BY DEF Settled
<1> QED BY <1>2, <1>3, <1>4 DEF Sound, Sampling, r

\* What is said of a state stays true as time passes.
LEMMA LaterSound ==
    ASSUME NEW time \in Nat, NEW st, Sound(st, time), NEW later \in Nat, time <= later
    PROVE  Sound(st, later)
<1>1. st \in State BY DEF Sound
<1>2. /\ st.last_volume_timestamp \in Nat \cup {None}
      /\ st.breakout_candidate_started \in Nat \cup {None}
      /\ st.pullback_started_at \in Nat \cup {None}
  BY <1>1 DEF State
<1>3. /\ HoldTime \in Nat /\ MinMinutes \in Nat BY StrategyAssumption
<1>4. Sampling(st, later) BY <1>2 DEF Sound, Sampling, None
<1>5. BeforeBreakout(st, time) => BeforeBreakout(st, later)
  BY <1>2 DEF BeforeBreakout, None
<1>6. AfterBreakout(st, time) => AfterBreakout(st, later)
  BY <1>2, <1>3 DEF AfterBreakout, None
<1>7. AfterPullback(st, time) => AfterPullback(st, later)
  BY <1>2, <1>3 DEF AfterPullback, None
<1> QED BY <1>1, <1>4, <1>5, <1>6, <1>7 DEF Sound

----
\* evaluate, one lemma per phase.

\* A candidate for a breakout starts, holds or is dropped; no pullback is in sight.
LEMMA WatchedSound ==
    ASSUME NEW st, Sound(st, now), st.phase = "WAIT_BREAKOUT", now \in Nat,
           NEW t \in Tick, t.atr > 0
    PROVE  LET w == Watched(st, t)
           IN  /\ w \in State /\ w.phase = "WAIT_BREAKOUT"
               /\ Sampling(w, now) /\ BeforeBreakout(w, now)
<1> DEFINE w == Watched(st, t)
<1>1. /\ st \in State /\ Sampling(st, now) /\ BeforeBreakout(st, now)
      /\ st.breakout_confirm_count \in Nat /\ st.impulse_high \in Nat \cup {None}
      /\ t.last \in Nat /\ t.atr \in Nat /\ <<>> \in Seq(Bar)
  BY DEF Sound, State, Tick
<1>2. CASE BreaksOut(t)
  <2>1. w = [st EXCEPT !.impulse_volumes = <<>>, !.pullback_volumes = <<>>,
                       !.last_volume_timestamp = None, !.breakout_candidate_started = now,
                       !.breakout_confirm_count = 1, !.impulse_high = t.last,
                       !.atr_at_breakout = t.atr]
    BY <1>2 DEF Watched, HoldsOut
  <2>2. w \in State
    <3> DEFINE a == [st EXCEPT !.impulse_volumes = <<>>]
               b == [a EXCEPT !.pullback_volumes = <<>>]
               c == [b EXCEPT !.last_volume_timestamp = None]
               d == [c EXCEPT !.breakout_candidate_started = now]
               e == [d EXCEPT !.breakout_confirm_count = 1]
               f == [e EXCEPT !.impulse_high = t.last]
               g == [f EXCEPT !.atr_at_breakout = t.atr]
    <3>1. w = g BY <2>1
    <3>2. /\ None \in Nat \cup {None} /\ now \in Nat \cup {None}
          /\ 1 \in Nat \cup {None} /\ 1 # None
          /\ t.last \in Nat \cup {None} /\ t.atr \in Nat \cup {None}
      BY <1>1 DEF None
    <3> HIDE DEF w, a, b, c, d, e, f, g
    <3>3. a \in State BY <1>1, <3>2, FieldsTyped DEF a
    <3>4. b \in State BY <3>2, <3>3, FieldsTyped DEF b
    <3>5. c \in State BY <3>2, <3>4, FieldsTyped DEF c
    <3>6. d \in State BY <3>2, <3>5, FieldsTyped DEF d
    <3>7. e \in State BY <3>2, <3>6, FieldsTyped DEF e
    <3>8. f \in State BY <3>2, <3>7, FieldsTyped DEF f
    <3>9. g \in State BY <3>2, <3>8, FieldsTyped DEF g
    <3> QED BY <3>1, <3>9
  <2>3. /\ w.phase = "WAIT_BREAKOUT" /\ w.impulse_volumes = <<>> /\ w.pullback_volumes = <<>>
        /\ w.last_volume_timestamp = None /\ w.breakout_candidate_started = now
        /\ w.impulse_high = t.last /\ w.atr_at_breakout = t.atr
        /\ w.pullback_started_at = st.pullback_started_at /\ w.pullback_low = st.pullback_low
    BY <1>1, <2>1 DEF State
  <2> HIDE DEF w
  <2>4. Sampling(w, now)
    BY <2>3, StrategyAssumption DEF Sampling, Increasing, None
  <2>5. BeforeBreakout(w, now) BY <1>1, <2>3 DEF BeforeBreakout, None
  <2> QED BY <2>2, <2>3, <2>4, <2>5 DEF w
<1>3. CASE HoldsOut(st, t)
  <2> DEFINE high == Larger(st.impulse_high, t.last)
             count == st.breakout_confirm_count + 1
  <2>1. ~BreaksOut(t) /\ st.breakout_confirm_count > 0 BY <1>3 DEF HoldsOut
  <2>2. w = [st EXCEPT !.breakout_confirm_count = count, !.impulse_high = high]
    BY <1>1, <1>3, <2>1 DEF Watched, State
  <2>3. high \in Nat /\ count \in Nat BY <1>1, <2>1 DEF BeforeBreakout, Larger
  <2> HIDE DEF high, count
  <2>4. w \in State BY <1>1, <2>2, <2>3 DEF State
  <2>5. /\ w.phase = "WAIT_BREAKOUT"
        /\ w.impulse_volumes = st.impulse_volumes /\ w.pullback_volumes = st.pullback_volumes
        /\ w.last_volume_timestamp = st.last_volume_timestamp
        /\ w.breakout_candidate_started = st.breakout_candidate_started
        /\ w.impulse_high = high /\ w.atr_at_breakout = st.atr_at_breakout
        /\ w.pullback_started_at = st.pullback_started_at /\ w.pullback_low = st.pullback_low
    BY <1>1, <2>2 DEF State
  <2> HIDE DEF w
  <2>6. Sampling(w, now) BY <1>1, <2>5 DEF Sampling
  <2>7. BeforeBreakout(w, now) BY <1>1, <2>1, <2>3, <2>5 DEF BeforeBreakout, None
  <2> QED BY <2>4, <2>5, <2>6, <2>7 DEF w
<1>4. CASE ~BreaksOut(t) /\ ~HoldsOut(st, t)
  <2>1. w = [st EXCEPT !.breakout_candidate_started = None,
                       !.breakout_confirm_count = 0, !.impulse_high = None]
    BY <1>4 DEF Watched
  <2>2. w \in State
    <3> DEFINE a == [st EXCEPT !.breakout_candidate_started = None]
               b == [a EXCEPT !.breakout_confirm_count = 0]
               c == [b EXCEPT !.impulse_high = None]
    <3>1. w = c BY <2>1
    <3>2. None \in Nat \cup {None} /\ 0 \in Nat \cup {None} /\ 0 # None BY DEF None
    <3> HIDE DEF w, a, b, c
    <3>3. a \in State BY <1>1, <3>2, FieldsTyped DEF a
    <3>4. b \in State BY <3>2, <3>3, FieldsTyped DEF b
    <3>5. c \in State BY <3>2, <3>4, FieldsTyped DEF c
    <3> QED BY <3>1, <3>5
  <2>3. /\ w.phase = "WAIT_BREAKOUT" /\ w.breakout_confirm_count = 0
        /\ w.impulse_volumes = st.impulse_volumes /\ w.pullback_volumes = st.pullback_volumes
        /\ w.last_volume_timestamp = st.last_volume_timestamp
        /\ w.pullback_started_at = st.pullback_started_at /\ w.pullback_low = st.pullback_low
    BY <1>1, <2>1 DEF State
  <2> HIDE DEF w
  <2>4. Sampling(w, now) BY <1>1, <2>3 DEF Sampling
  <2>5. BeforeBreakout(w, now) BY <1>1, <2>3 DEF BeforeBreakout
  <2> QED BY <2>2, <2>3, <2>4, <2>5 DEF w
<1> QED BY <1>2, <1>3, <1>4

LEMMA AfterBreakoutTickSound ==
    ASSUME NEW st, Sound(st, now), st.phase = "WAIT_BREAKOUT", now \in Nat,
           NEW t \in Tick, t.atr > 0
    PROVE  Sound(AfterBreakoutTick(st, t), now)
<1> DEFINE w == Watched(st, t)
           c == IF w.breakout_confirm_count = 0 THEN w ELSE RecordVolume(w, t, "impulse")
           done == c.breakout_confirm_count >= ConfirmTicks
                   /\ now - c.breakout_candidate_started >= HoldTime
<1>1. /\ w \in State /\ w.phase = "WAIT_BREAKOUT" /\ Sampling(w, now)
      /\ BeforeBreakout(w, now) /\ w.pullback_volumes = <<>>
  BY WatchedSound DEF BeforeBreakout
<1>2. AfterBreakoutTick(st, t) = IF done THEN [c EXCEPT !.phase = "WAIT_PULLBACK"] ELSE c
  BY DEF AfterBreakoutTick
<1> HIDE DEF w
<1>3. /\ c \in State /\ Sampling(c, now) /\ Kept(w, c) /\ c.pullback_volumes = <<>>
  <2>1. CASE w.breakout_confirm_count = 0 BY <1>1, <2>1 DEF Kept
  <2>2. CASE w.breakout_confirm_count # 0
    BY <1>1, <2>2, RecordVolumeSound
  <2> QED BY <2>1, <2>2
<1> HIDE DEF c
<1>4. c.phase = "WAIT_BREAKOUT" /\ BeforeBreakout(c, now)
  BY <1>1, <1>3 DEF Kept, BeforeBreakout
<1>5. CASE ~done BY <1>2, <1>3, <1>4, <1>5 DEF Sound
<1>6. CASE done
  <2> DEFINE r == [c EXCEPT !.phase = "WAIT_PULLBACK"]
  <2>1. r \in State BY <1>3 DEF State, Forming
  <2>2. /\ r.phase = "WAIT_PULLBACK"
        /\ r.breakout_candidate_started = c.breakout_candidate_started
        /\ r.impulse_high = c.impulse_high /\ r.atr_at_breakout = c.atr_at_breakout
        /\ r.pullback_started_at = c.pullback_started_at
        /\ r.pullback_low = c.pullback_low
        /\ r.last_volume_timestamp = c.last_volume_timestamp
        /\ r.impulse_volumes = c.impulse_volumes /\ r.pullback_volumes = c.pullback_volumes
    BY <1>3 DEF State
  <2> HIDE DEF r
  <2>3. Sampling(r, now) BY <1>3, <2>2 DEF Sampling
  <2>4. c.breakout_confirm_count > 0 /\ c.breakout_candidate_started \in Nat \cup {None}
    BY <1>3, <1>6, StrategyAssumption DEF State
  <2>5. AfterBreakout(r, now)
    BY <1>4, <1>6, <2>2, <2>4, StrategyAssumption DEF BeforeBreakout, AfterBreakout, None
  <2>6. DuringPullback(r)
    BY <1>3, <1>4, <2>2 DEF BeforeBreakout, DuringPullback
  <2>7. Sound(r, now) BY <2>1, <2>2, <2>3, <2>5, <2>6 DEF Sound
  <2> QED BY <1>2, <1>6, <2>7 DEF r
<1> QED BY <1>5, <1>6

\* A pullback that is deep enough stays so while its high rises and its low falls.
LEMMA DepthGrows ==
    ASSUME NEW st \in State, NEW r \in State,
           r.impulse_high >= st.impulse_high, r.pullback_low <= st.pullback_low,
           r.atr_at_breakout = st.atr_at_breakout, ~Shallow(st)
    PROVE  ~Shallow(r)
<1> DEFINE least == MinDepth * st.atr_at_breakout
<1>1. /\ st.impulse_high \in Int /\ st.pullback_low \in Int /\ st.atr_at_breakout \in Int
      /\ r.impulse_high \in Int /\ r.pullback_low \in Int
  BY DEF State, None
<1>2. least \in Int BY <1>1, StrategyAssumption
<1> HIDE DEF least
<1>3. /\ Shallow(st) <=> (st.impulse_high - st.pullback_low) * 100 < least
      /\ Shallow(r) <=> (r.impulse_high - r.pullback_low) * 100 < least
  BY DEF Shallow, Depth, least
<1> QED BY <1>1, <1>2, <1>3

\* The high and the low follow the price: a deep pullback only gets deeper, until a
\* new high starts it again.
LEMMA ExtendedSound ==
    ASSUME NEW st, Sound(st, now), st.phase \in {"WAIT_PULLBACK", "WAIT_REBREAK"},
           now \in Nat, NEW t \in Tick
    PROVE  LET e == Extended(st, t)
           IN  /\ e \in State /\ e.phase = st.phase
               /\ Sampling(e, now) /\ AfterBreakout(e, now)
               /\ e.pullback_low # None /\ e.pullback_low <= t.last /\ t.last <= e.impulse_high
               /\ e.pullback_started_at # None => ~Shallow(e)
               /\ st.phase = "WAIT_PULLBACK" =>
                     /\ e.pullback_started_at = None => e.pullback_volumes = <<>>
                     /\ \A i \in 1..Len(e.pullback_volumes) :
                            e.pullback_volumes[i].minute >= e.pullback_started_at
               /\ st.phase = "WAIT_REBREAK" =>
                     /\ e.pullback_started_at = st.pullback_started_at
                     /\ e.pullback_high = st.pullback_high
                     /\ e.pullback_low <= e.pullback_high /\ e.pullback_high <= e.impulse_high
<1> DEFINE e == Extended(st, t)
<1>1. /\ st \in State /\ Sampling(st, now) /\ AfterBreakout(st, now)
      /\ st.impulse_high \in Nat /\ st.impulse_high # None
      /\ st.pullback_low \in Nat \cup {None} /\ st.pullback_high \in Nat \cup {None}
      /\ st.pullback_started_at \in Nat \cup {None}
      /\ t.last \in Nat /\ <<>> \in Seq(Bar)
  BY DEF Sound, State, Tick, AfterBreakout, None
<1>2. CASE NewHigh(st, t)
  <2> DEFINE raised == [st EXCEPT !.impulse_high = t.last, !.pullback_low = t.last,
                                  !.pullback_started_at = None, !.pullback_volumes = <<>>]
  <2>1. st.phase = "WAIT_PULLBACK" BY <1>2 DEF NewHigh
  <2>2. e = RecordVolume(raised, t, "impulse") BY <1>2 DEF Extended
  <2>3. raised \in State
    <3> DEFINE a == [st EXCEPT !.impulse_high = t.last]
               b == [a EXCEPT !.pullback_low = t.last]
               c == [b EXCEPT !.pullback_started_at = None]
               d == [c EXCEPT !.pullback_volumes = <<>>]
    <3>1. raised = d OBVIOUS
    <3>2. t.last \in Nat \cup {None} /\ None \in Nat \cup {None} BY <1>1
    <3> HIDE DEF raised, a, b, c, d
    <3>3. a \in State BY <1>1, <3>2, FieldsTyped DEF a
    <3>4. b \in State BY <3>2, <3>3 DEF b, State
    <3>5. c \in State BY <3>2, <3>4 DEF c, State
    <3>6. d \in State BY <3>2, <3>5, FieldsTyped DEF d
    <3> QED BY <3>1, <3>6
  <2>4. /\ raised.phase = st.phase /\ raised.impulse_high = t.last
        /\ raised.pullback_low = t.last /\ raised.pullback_started_at = None
        /\ raised.pullback_volumes = <<>> /\ raised.impulse_volumes = st.impulse_volumes
        /\ raised.breakout_candidate_started = st.breakout_candidate_started
        /\ raised.atr_at_breakout = st.atr_at_breakout
        /\ raised.last_volume_timestamp = st.last_volume_timestamp
    BY <1>1 DEF State
  <2> HIDE DEF raised, e
  <2>5. Sampling(raised, now)
    <3>1. Increasing(<<>>) /\ Len(<<>>) = 0 BY DEF Increasing
    <3> QED BY <1>1, <2>4, <3>1, StrategyAssumption DEF Sampling
  <2>6. /\ e \in State /\ Sampling(e, now) /\ Kept(raised, e) /\ e.pullback_volumes = <<>>
    BY <2>2, <2>3, <2>4, <2>5, RecordVolumeSound
  <2>7. /\ e.phase = st.phase /\ e.impulse_high = t.last /\ e.pullback_low = t.last
        /\ e.pullback_started_at = None
        /\ e.breakout_candidate_started = st.breakout_candidate_started
        /\ e.atr_at_breakout = st.atr_at_breakout
    BY <2>4, <2>6 DEF Kept
  <2>8. AfterBreakout(e, now)
    BY <1>1, <2>7 DEF AfterBreakout, None
  <2> QED BY <1>1, <2>1, <2>6, <2>7, <2>8 DEF e, None
<1>3. CASE ~NewHigh(st, t)
  <2> DEFINE high == Larger(st.impulse_high, t.last)
             low == IF st.pullback_low = None THEN t.last ELSE Smaller(st.pullback_low, t.last)
  <2>1. e = [st EXCEPT !.impulse_high = high, !.pullback_low = low]
    BY <1>1, <1>3 DEF Extended, State
  <2>2. /\ high \in Nat /\ low \in Nat /\ low <= t.last /\ t.last <= high
        /\ high >= st.impulse_high
        /\ st.pullback_low # None => low <= st.pullback_low
        /\ st.phase = "WAIT_PULLBACK" => high = st.impulse_high
    BY <1>1, <1>3 DEF Larger, Smaller, NewHigh, None
  <2> HIDE DEF high, low
  <2>3. e \in State BY <1>1, <2>1, <2>2 DEF State
  <2>4. /\ e.phase = st.phase /\ e.impulse_high = high /\ e.pullback_low = low
        /\ e.pullback_started_at = st.pullback_started_at
        /\ e.pullback_high = st.pullback_high
        /\ e.pullback_volumes = st.pullback_volumes /\ e.impulse_volumes = st.impulse_volumes
        /\ e.breakout_candidate_started = st.breakout_candidate_started
        /\ e.atr_at_breakout = st.atr_at_breakout
        /\ e.last_volume_timestamp = st.last_volume_timestamp
    BY <1>1, <2>1 DEF State
  <2> HIDE DEF e
  <2>5. Sampling(e, now) BY <1>1, <2>4 DEF Sampling
  <2>6. AfterBreakout(e, now)
    BY <1>1, <2>2, <2>4 DEF AfterBreakout, None
  <2>7. ASSUME st.pullback_started_at # None PROVE ~Shallow(e)
    <3>1. st.pullback_low # None /\ ~Shallow(st)
      BY <2>7 DEF Sound, DuringPullback, AfterPullback
    <3> QED BY <1>1, <2>2, <2>3, <2>4, <3>1, DepthGrows
  <2>8. CASE st.phase = "WAIT_PULLBACK"
    BY <2>2, <2>3, <2>4, <2>5, <2>6, <2>7, <2>8 DEF e, Sound, DuringPullback, None
  <2>9. CASE st.phase = "WAIT_REBREAK"
    <3>1. /\ st.pullback_low # None /\ st.pullback_low <= st.pullback_high
          /\ st.pullback_high <= st.impulse_high
      BY <2>9 DEF Sound, AfterPullback
    <3>2. low <= st.pullback_high /\ st.pullback_high <= high
      BY <1>1, <2>2, <3>1 DEF None
    <3> QED BY <2>2, <2>3, <2>4, <2>5, <2>6, <2>7, <2>9, <3>2 DEF e, None
  <2> QED BY <2>8, <2>9
<1> QED BY <1>2, <1>3

\* A shallow pullback adds to the impulse; a deep one runs the clock, adds to its own
\* sample, and is confirmed, left running, or given up when it lasts too long.
LEMMA AfterPullbackTickSound ==
    ASSUME NEW st \in State, st.phase = "WAIT_PULLBACK", Sampling(st, now),
           AfterBreakout(st, now), now \in Nat, conn \in Nat, NEW t \in Tick,
           st.pullback_low # None, st.pullback_low <= t.last, t.last <= st.impulse_high,
           st.pullback_started_at # None => ~Shallow(st),
           st.pullback_started_at = None => st.pullback_volumes = <<>>,
           \A i \in 1..Len(st.pullback_volumes) :
               st.pullback_volumes[i].minute >= st.pullback_started_at,
           ~Invalid(st, t)
    PROVE  Sound(AfterPullbackTick(st, t), now)
<1> DEFINE begun == [st EXCEPT !.pullback_started_at =
                        IF st.pullback_started_at = None THEN now ELSE st.pullback_started_at]
           counted == RecordVolume(begun, t, "pullback")
<1>1. /\ st.pullback_started_at \in Nat \cup {None} /\ st.impulse_high \in Nat
      /\ st.pullback_low \in Nat /\ t.last \in Nat /\ t.recent_high \in Nat
      /\ st.breakout_candidate_started \in Nat /\ HoldTime \in Nat
  BY StrategyAssumption DEF State, Tick, AfterBreakout, None
<1>2. Depth(st) \in Int /\ MinDepth * st.atr_at_breakout \in Int
  <2>1. Depth(st) \in Int BY <1>1 DEF Depth
  <2>2. st.atr_at_breakout \in Int BY DEF State, None
  <2> QED BY <2>1, <2>2, StrategyAssumption
<1>3. CASE Shallow(st)
  <2> DEFINE r == RecordVolume(st, t, "impulse")
  <2>1. AfterPullbackTick(st, t) = r
    <3>1. /\ Depth(st) < MinDepth * st.atr_at_breakout
          /\ ~(Depth(st) >= MinDepth * st.atr_at_breakout)
      BY <1>3, <1>2 DEF Shallow
    <3> QED BY <3>1 DEF AfterPullbackTick
  <2>2. st.pullback_started_at = None /\ st.pullback_volumes = <<>> BY <1>3
  <2>3. /\ r \in State /\ Sampling(r, now) /\ Kept(st, r) /\ r.pullback_volumes = <<>>
    BY <2>2, RecordVolumeSound
  <2> HIDE DEF r
  <2>4. AfterBreakout(r, now) BY <2>3 DEF AfterBreakout, Kept
  <2>5. Shallow(r) BY <1>3, <2>3 DEF Shallow, Depth, Kept
  <2>6. DuringPullback(r) BY <2>2, <2>3, <2>5 DEF DuringPullback, Kept
  <2> QED BY <2>1, <2>3, <2>4, <2>6 DEF Sound, Kept
<1>4. CASE ~Shallow(st)
  <2>1. /\ begun \in State /\ begun.phase = "WAIT_PULLBACK"
        /\ begun.impulse_high = st.impulse_high /\ begun.pullback_low = st.pullback_low
        /\ begun.atr_at_breakout = st.atr_at_breakout
        /\ begun.breakout_candidate_started = st.breakout_candidate_started
        /\ begun.pullback_volumes = st.pullback_volumes
        /\ begun.impulse_volumes = st.impulse_volumes
        /\ begun.last_volume_timestamp = st.last_volume_timestamp
    BY <1>1 DEF State
  <2>2. /\ begun.pullback_started_at \in Nat
        /\ st.breakout_candidate_started + HoldTime <= begun.pullback_started_at
        /\ begun.pullback_started_at <= now
        /\ \A i \in 1..Len(st.pullback_volumes) :
               st.pullback_volumes[i].minute >= begun.pullback_started_at
    <3>1. begun.pullback_started_at =
              IF st.pullback_started_at = None THEN now ELSE st.pullback_started_at
      BY DEF State
    <3>2. CASE st.pullback_started_at = None
      BY <1>1, <3>1, <3>2 DEF AfterBreakout
    <3>3. CASE st.pullback_started_at # None
      BY <1>1, <3>1, <3>3 DEF AfterBreakout
    <3> QED BY <3>2, <3>3
  <2>3. AfterPullbackTick(st, t) = IF Overdue(counted) THEN Reset ELSE Confirmed(counted, t)
    <3>1. ~(Depth(st) < MinDepth * st.atr_at_breakout) BY <1>4 DEF Shallow
    <3>2. Depth(st) >= MinDepth * st.atr_at_breakout BY <1>2, <3>1
    <3>3. begun = [st EXCEPT !.pullback_started_at = IF @ = None THEN now ELSE @]
      BY DEF State
    <3> QED BY <3>1, <3>2, <3>3 DEF AfterPullbackTick
  <2> HIDE DEF begun
  <2>4. Sampling(begun, now) BY <2>1 DEF Sampling
  <2>5. /\ counted \in State /\ Sampling(counted, now) /\ Kept(begun, counted)
        /\ \A i \in 1..Len(counted.pullback_volumes) :
               \/ counted.pullback_volumes[i].minute = now
               \/ \E j \in 1..Len(begun.pullback_volumes) :
                     counted.pullback_volumes[i] = begun.pullback_volumes[j]
    BY <2>1, <2>4, RecordVolumeSound
  <2> HIDE DEF counted
  <2>6. AfterBreakout(counted, now)
    BY <1>1, <2>1, <2>2, <2>5 DEF AfterBreakout, Kept
  <2>7. ~Shallow(counted) BY <1>4, <2>1, <2>5 DEF Shallow, Depth, Kept
  <2>8. counted.pullback_started_at = begun.pullback_started_at
        /\ counted.pullback_started_at # None
    BY <2>2, <2>5 DEF Kept, None
  <2>9. \A i \in 1..Len(counted.pullback_volumes) :
            counted.pullback_volumes[i].minute >= counted.pullback_started_at
    <3> SUFFICES ASSUME NEW i \in 1..Len(counted.pullback_volumes)
                 PROVE  counted.pullback_volumes[i].minute >= counted.pullback_started_at
      OBVIOUS
    <3> QED BY <2>1, <2>2, <2>5, <2>8
  <2>10. CASE Overdue(counted) BY <2>3, <2>10, ResetSound
  <2>11. CASE ~Overdue(counted) /\ Confirmed(counted, t) = counted
    <3>1. DuringPullback(counted)
      BY <2>1, <2>5, <2>7, <2>8, <2>9 DEF DuringPullback, Kept
    <3> QED BY <2>1, <2>3, <2>5, <2>6, <2>11, <3>1 DEF Sound, Kept
  <2>12. CASE ~Overdue(counted) /\ Confirmed(counted, t) # counted
    <3> DEFINE level == Larger(t.last, Smaller(t.recent_high, counted.impulse_high))
               r == [counted EXCEPT !.phase = "WAIT_REBREAK", !.pullback_high = level]
    <3>1. r = Confirmed(counted, t) /\ now - counted.pullback_started_at >= MinMinutes
      BY <2>12 DEF Confirmed
    <3>2. /\ level \in Nat /\ t.last <= level /\ level <= st.impulse_high
          /\ counted.impulse_high = st.impulse_high /\ counted.pullback_low = st.pullback_low
      BY <1>1, <2>1, <2>5 DEF Larger, Smaller, Kept
    <3> HIDE DEF level
    <3>3. r \in State BY <2>5, <3>2 DEF State, Forming
    <3>4. /\ r.phase = "WAIT_REBREAK" /\ r.pullback_high = level
          /\ r.impulse_high = counted.impulse_high /\ r.pullback_low = counted.pullback_low
          /\ r.atr_at_breakout = counted.atr_at_breakout
          /\ r.pullback_started_at = counted.pullback_started_at
          /\ r.breakout_candidate_started = counted.breakout_candidate_started
          /\ r.pullback_volumes = counted.pullback_volumes
          /\ r.impulse_volumes = counted.impulse_volumes
          /\ r.last_volume_timestamp = counted.last_volume_timestamp
      BY <2>5 DEF State
    <3> HIDE DEF r
    <3>5. Sampling(r, now) BY <2>5, <3>4 DEF Sampling
    <3>6. AfterBreakout(r, now) BY <2>6, <3>4 DEF AfterBreakout
    <3>7. ~Shallow(r) BY <2>7, <3>4 DEF Shallow, Depth
    <3>8. Depth(r) <= MaxDepth * r.atr_at_breakout
      <4>1. ~(Depth(st) > MaxDepth * st.atr_at_breakout) BY DEF Invalid
      <4>2. Depth(st) \in Int /\ MaxDepth * st.atr_at_breakout \in Int
        <5>1. Depth(st) \in Int BY <1>1 DEF Depth
        <5>2. st.atr_at_breakout \in Int BY DEF State, None
        <5> QED BY <5>1, <5>2, StrategyAssumption
      <4>3. Depth(r) = Depth(st) /\ r.atr_at_breakout = st.atr_at_breakout
        BY <2>1, <2>5, <3>2, <3>4 DEF Depth, Kept
      <4> QED BY <4>1, <4>2, <4>3
    <3>9. r.pullback_started_at + MinMinutes <= now
      BY <2>2, <2>8, <3>1, <3>4, StrategyAssumption
    <3>10. AfterPullback(r, now)
      BY <1>1, <2>8, <3>2, <3>4, <3>7, <3>8, <3>9 DEF AfterPullback, None
    <3> QED BY <2>3, <2>12, <3>1, <3>3, <3>4, <3>5, <3>6, <3>10 DEF Sound
  <2> QED BY <2>10, <2>11, <2>12
<1> QED BY <1>3, <1>4

\* The confirmed pullback fires or waits, still one the rules allow.
LEMMA AfterRebreakTickSound ==
    ASSUME NEW st, Sound(st, now), st.phase = "WAIT_REBREAK", now \in Nat, conn \in Nat,
           NEW t \in Tick
    PROVE  Sound(AfterRebreakTick(st, t), now)
<1> DEFINE r == [st EXCEPT !.phase = "SIGNAL_TRIGGERED"]
<1>1. AfterRebreakTick(st, t) \in {Reset, r, st} BY DEF AfterRebreakTick
<1>2. st \in State /\ AfterPullback(st, now) /\ AfterBreakout(st, now) /\ Sampling(st, now)
  BY DEF Sound
<1>3. r \in State BY <1>2 DEF State
<1>4. /\ r.phase = "SIGNAL_TRIGGERED" /\ r.pullback_high = st.pullback_high
      /\ r.impulse_high = st.impulse_high /\ r.pullback_low = st.pullback_low
      /\ r.atr_at_breakout = st.atr_at_breakout
      /\ r.pullback_started_at = st.pullback_started_at
      /\ r.breakout_candidate_started = st.breakout_candidate_started
      /\ r.pullback_volumes = st.pullback_volumes
      /\ r.impulse_volumes = st.impulse_volumes
      /\ r.last_volume_timestamp = st.last_volume_timestamp
  BY <1>2 DEF State
<1> HIDE DEF r
<1>5. Sampling(r, now) /\ AfterBreakout(r, now) /\ AfterPullback(r, now)
  BY <1>2, <1>4 DEF Sampling, AfterBreakout, AfterPullback, Shallow, Depth
<1>6. Sound(r, now) BY <1>3, <1>4, <1>5 DEF Sound
<1> QED BY <1>1, <1>6, ResetSound

\* An evaluated tick makes a sound state of a sound state.
LEMMA EvaluatedSound ==
    ASSUME NEW st, Sound(st, now), st.phase \in Forming, now \in Nat, conn \in Nat,
           NEW t \in Tick, t.atr > 0
    PROVE  Sound(Evaluated(st, t), now)
<1> DEFINE e == Extended(st, t)
<1>1. CASE st.phase = "WAIT_BREAKOUT"
  <2>1. Evaluated(st, t) = AfterBreakoutTick(st, t) BY <1>1 DEF Evaluated
  <2> QED BY <1>1, <2>1, AfterBreakoutTickSound
<1>2. CASE st.phase # "WAIT_BREAKOUT" /\ Invalid(e, t)
  <2>1. Evaluated(st, t) = Reset BY <1>2 DEF Evaluated
  <2> QED BY <2>1, ResetSound
<1>3. CASE st.phase = "WAIT_PULLBACK" /\ ~Invalid(e, t)
  <2>1. Evaluated(st, t) = AfterPullbackTick(e, t) BY <1>3 DEF Evaluated
  <2>2. /\ e \in State /\ e.phase = "WAIT_PULLBACK" /\ Sampling(e, now)
        /\ AfterBreakout(e, now) /\ e.pullback_low # None /\ e.pullback_low <= t.last
        /\ t.last <= e.impulse_high /\ (e.pullback_started_at # None => ~Shallow(e))
        /\ (e.pullback_started_at = None => e.pullback_volumes = <<>>)
        /\ \A i \in 1..Len(e.pullback_volumes) :
               e.pullback_volumes[i].minute >= e.pullback_started_at
    BY <1>3, ExtendedSound
  <2> HIDE DEF e
  <2> QED BY <1>3, <2>1, <2>2, AfterPullbackTickSound
<1>4. CASE st.phase = "WAIT_REBREAK" /\ ~Invalid(e, t)
  <2>1. Evaluated(st, t) = AfterRebreakTick(e, t) BY <1>4 DEF Evaluated
  <2>2. /\ e \in State /\ e.phase = "WAIT_REBREAK" /\ Sampling(e, now)
        /\ AfterBreakout(e, now) /\ e.pullback_low # None
        /\ e.pullback_started_at # None => ~Shallow(e)
    BY <1>4, ExtendedSound
  <2>3. /\ e.pullback_started_at = st.pullback_started_at
        /\ e.pullback_low <= e.pullback_high /\ e.pullback_high <= e.impulse_high
    BY <1>4, ExtendedSound
  <2> HIDE DEF e
  <2>4. st.pullback_started_at # None /\ st.pullback_started_at + MinMinutes <= now
    BY <1>4 DEF Sound, AfterPullback
  <2>5. Depth(e) <= MaxDepth * e.atr_at_breakout
    <3>1. ~(Depth(e) > MaxDepth * e.atr_at_breakout) BY <1>4 DEF Invalid
    <3>2. e.impulse_high \in Int /\ e.pullback_low \in Int /\ e.atr_at_breakout \in Int
      BY <2>2 DEF State, None
    <3>3. Depth(e) \in Int /\ MaxDepth * e.atr_at_breakout \in Int
      BY <3>2, StrategyAssumption DEF Depth
    <3> QED BY <3>1, <3>3
  <2>6. AfterPullback(e, now) BY <2>2, <2>3, <2>4, <2>5 DEF AfterPullback
  <2>7. Sound(e, now) BY <2>2, <2>6 DEF Sound
  <2> QED BY <2>1, <2>2, <2>7, AfterRebreakTickSound
<1> QED BY <1>1, <1>2, <1>3, <1>4 DEF Forming

----
\* The engine.

\* The state in memory is the saved one, up to the connection.
Same(st, r) == [st EXCEPT !.connection_id = 0] = [r EXCEPT !.connection_id = 0]

LEMMA SameMarked ==
    ASSUME NEW st \in State, NEW r \in State, Same(st, r), NEW c
    PROVE  Same([st EXCEPT !.connection_id = c], r)
BY DEF Same, State

\* Both records take what was made of the state in memory, or only memory moves to
\* another connection.
LEMMA StateStep ==
    ASSUME StrategyInv,
           now' \in Nat, now <= now',
           \/ /\ mem' = disk' /\ Sound(mem', now)
           \/ /\ UNCHANGED <<mem, disk>>
           \/ /\ mem' = InContext(mem) /\ mem.connection_id \in {None, conn}
              /\ UNCHANGED disk
    PROVE  Sound(mem, now)' /\ Sound(disk, now)' /\ PatternSaved'
<1>1. now \in Nat /\ conn \in Nat BY DEF StrategyInv, EngineTypeOK
<1>2. mem \in State /\ disk \in State BY DEF StrategyInv, Sound
<1>3. CASE mem' = disk' /\ Sound(mem', now)
  <2>1. Sound(mem', now') BY <1>1, <1>3, LaterSound
  <2> QED BY <1>3, <2>1 DEF PatternSaved
<1>4. CASE UNCHANGED <<mem, disk>>
  <2>1. Sound(mem, now') /\ Sound(disk, now') BY <1>1, LaterSound DEF StrategyInv
  <2> QED BY <1>4, <2>1 DEF StrategyInv, PatternSaved
<1>5. CASE mem' = InContext(mem) /\ mem.connection_id \in {None, conn} /\ UNCHANGED disk
  <2>1. mem' = [mem EXCEPT !.connection_id = conn] BY <1>5 DEF InContext
  <2>2. Sound(mem', now) /\ Sound(disk', now)
    BY <1>1, <1>5, InContextSound DEF StrategyInv
  <2>3. Sound(mem', now') /\ Sound(disk', now') BY <1>1, <2>2, LaterSound
  <2>4. Same(mem', disk')
    BY <1>2, <1>5, <2>1, SameMarked DEF StrategyInv, PatternSaved, Same
  <2> QED BY <2>3, <2>4 DEF PatternSaved, Same
<1> QED BY <1>3, <1>4, <1>5

\* A tick that only moves what the engine knows, or moves the strategy's state.
LEMMA TickStep ==
    ASSUME StrategyInv, NEW t \in Ticks,
           \/ EvaluateNothing(t) \/ EvaluateForming(t) \/ RecoverSignal(t)
    PROVE  StrategyInv'
<1>1. /\ t \in Tick /\ t.last \in Nat /\ now \in Nat /\ conn \in Nat
  BY StrategyAssumption DEF Tick, StrategyInv, EngineTypeOK
<1>2. Sound(InContext(mem), now) BY <1>1, InContextSound DEF StrategyInv
<1>3. UNCHANGED <<conn, outcome, entry, active, now>> /\ outcome = "none"
  BY DEF EvaluateNothing, EvaluateForming, RecoverSignal, Idle, StrategyInv, OutcomeOfSignal
<1>4. EngineTypeOK'
  BY <1>1 DEF EvaluateNothing, EvaluateForming, RecoverSignal, StrategyInv, EngineTypeOK
<1>5. OutcomeOfSignal' BY <1>3 DEF OutcomeOfSignal
<1>6. \/ mem' = disk' /\ Sound(mem', now)
      \/ UNCHANGED <<mem, disk>>
      \/ mem' = InContext(mem) /\ mem.connection_id \in {None, conn} /\ UNCHANGED disk
  <2>1. CASE EvaluateNothing(t)
    BY <1>2, <2>1 DEF EvaluateNothing, InContext
  <2>2. CASE EvaluateForming(t)
    BY <1>1, <1>2, <2>2, EvaluatedSound DEF EvaluateForming
  <2>3. CASE RecoverSignal(t)
    <3>1. Reset.phase # "SIGNAL_TRIGGERED" BY DEF Reset, Fresh
    <3> QED BY <2>3, <3>1 DEF RecoverSignal, InContext
  <2> QED BY <2>1, <2>2, <2>3
<1> QED BY <1>1, <1>3, <1>4, <1>5, <1>6, StateStep DEF StrategyInv

\* What the broker, the scheduler and maintenance tell the strategy settles it.
LEMMA SettlingStep ==
    ASSUME StrategyInv,
           \/ MarkSubmission
           \/ \E phase \in Settled : EntryConfirmed(phase) \/ EntryEnds(phase) \/ PlanEnds(phase)
           \/ \E t \in Ticks, phase \in Settled : EntryFoundOver(t, phase)
    PROVE  StrategyInv'
<1>1. PICK phase \in Settled : Marked(mem, phase)
  <2>1. {"ENTRY_PENDING", "RISK_BLOCKED"} \subseteq Settled BY DEF Settled
  <2> QED BY <2>1 DEF MarkSubmission, EntryConfirmed, EntryEnds, PlanEnds, EntryFoundOver
<1>2. mem' = disk' /\ Sound(mem', now)
  BY <1>1, SettledSound DEF Marked, StrategyInv
<1>3. UNCHANGED now /\ now \in Nat
  BY DEF MarkSubmission, EntryConfirmed, EntryEnds, PlanEnds, EntryFoundOver, StrategyInv,
         EngineTypeOK
<1>4. \A t \in Ticks : t.last \in Nat BY StrategyAssumption DEF Tick
<1>5. EngineTypeOK' /\ OutcomeOfSignal'
  <2>1. CASE MarkSubmission
    <3>1. signal \in Ticks
      BY <2>1 DEF MarkSubmission, StrategyInv, EngineTypeOK, OutcomeOfSignal
    <3> QED BY <1>4, <2>1, <3>1 DEF MarkSubmission, StrategyInv, EngineTypeOK, OutcomeOfSignal
  <2>2. CASE \E ph \in Settled : EntryConfirmed(ph) \/ EntryEnds(ph) \/ PlanEnds(ph)
    BY <1>4, <2>2 DEF EntryConfirmed, EntryEnds, PlanEnds, KeepsPrice, StrategyInv, EngineTypeOK,
                      OutcomeOfSignal
  <2>3. CASE \E t \in Ticks, ph \in Settled : EntryFoundOver(t, ph)
    BY <1>4, <2>3 DEF EntryFoundOver, StrategyInv, EngineTypeOK, OutcomeOfSignal
  <2> QED BY <2>1, <2>2, <2>3
<1> QED BY <1>2, <1>3, <1>5, StateStep DEF StrategyInv

\* Everything else: a reset, a halt and a restart replace the state, the rest leaves it alone.
LEMMA OtherStep ==
    ASSUME StrategyInv,
           \/ NotEvaluated \/ ContextReset \/ Halted
           \/ Submit \/ EntryEndsUnseen \/ Reconnect \/ Restart \/ Elapse
           \/ UNCHANGED strategyVars
    PROVE  StrategyInv'
<1>1. now \in Nat /\ conn \in Nat BY DEF StrategyInv, EngineTypeOK
<1>2. now' \in Nat /\ now <= now'
  BY <1>1 DEF NotEvaluated, ContextReset, Halted, Submit, EntryEndsUnseen, Reconnect, Restart,
              Elapse, strategyVars
<1>3. \/ mem' = disk' /\ Sound(mem', now)
      \/ UNCHANGED <<mem, disk>>
  <2>1. CASE ContextReset \/ Halted BY <1>1, <2>1, ResetSound DEF ContextReset, Halted
  <2>2. CASE Restart BY <2>2 DEF Restart, StrategyInv
  <2>3. CASE UNCHANGED <<mem, disk>> BY <2>3
  <2> QED
    BY <2>1, <2>2, <2>3 DEF NotEvaluated, Submit, EntryEndsUnseen, Reconnect, Elapse, strategyVars
<1>4. EngineTypeOK' /\ OutcomeOfSignal'
  <2>1. \A t \in Ticks : t.last \in Nat BY StrategyAssumption DEF Tick
  <2>2. CASE NotEvaluated \/ ContextReset
    BY <1>1, <2>1, <2>2 DEF NotEvaluated, ContextReset, KeepsPrice, Idle, StrategyInv, EngineTypeOK,
                            OutcomeOfSignal
  <2>3. CASE \/ Halted \/ Submit \/ EntryEndsUnseen \/ Reconnect \/ Restart \/ Elapse
             \/ UNCHANGED strategyVars
    BY <1>2, <2>3 DEF Halted, Submit, EntryEndsUnseen, Reconnect, Restart, Elapse, strategyVars,
                      StrategyInv, EngineTypeOK, OutcomeOfSignal
  <2> QED BY <2>2, <2>3
<1> QED BY <1>2, <1>3, <1>4, StateStep DEF StrategyInv

\* The inductive invariant of the strategy (pullback.py, engine.py).
THEOREM StrategySound == StrategySpec => []StrategyInv
<1>1. StrategyInit => StrategyInv
  <2> SUFFICES ASSUME StrategyInit PROVE StrategyInv OBVIOUS
  <2>1. Fresh = [Fresh EXCEPT !.connection_id = None] BY DEF Fresh
  <2>2. Sound(Fresh, 0) BY <2>1, FreshSound
  <2> QED BY <2>2
      DEF StrategyInit, StrategyInv, EngineTypeOK, OutcomeOfSignal, PatternSaved
<1>2. StrategyInv /\ [StrategyNext]_strategyVars => StrategyInv'
  BY TickStep, SettlingStep, OtherStep DEF StrategyNext
<1> QED BY <1>1, <1>2, PTL DEF StrategySpec

\* The state and the row keep the types and the sample length of the code (_state).
THEOREM StrategyTypeCorrect == StrategySpec => []StrategyTypeOK
<1>1. StrategyInv => StrategyTypeOK
  BY DEF StrategyInv, EngineTypeOK, Sound, Sampling, StrategyTypeOK
<1> QED BY <1>1, StrategySound, PTL

\* A pattern that waits for its rebreak, or has fired, is one the rules allow, in
\* memory and on disk, whatever ticks, resets and restarts came before (evaluate).
THEOREM PatternIsSound == StrategySpec => []PatternSound
<1>1. StrategyInv => PatternSound
  <2> SUFFICES ASSUME StrategyInv, NEW st \in {mem, disk},
                      st.phase \in {"WAIT_REBREAK", "SIGNAL_TRIGGERED"}
               PROVE  /\ st.pullback_low <= st.pullback_high
                      /\ st.pullback_high <= st.impulse_high
                      /\ MinDepth * st.atr_at_breakout <= Depth(st)
                      /\ Depth(st) <= MaxDepth * st.atr_at_breakout
                      /\ st.pullback_started_at >= st.breakout_candidate_started + HoldTime
                      /\ st.pullback_started_at + MinMinutes <= now
    BY DEF PatternSound
  <2>1. st \in State /\ AfterBreakout(st, now) /\ AfterPullback(st, now)
    BY DEF StrategyInv, Sound
  <2>2. /\ st.impulse_high \in Int /\ st.pullback_low \in Int /\ st.atr_at_breakout \in Int
        /\ st.pullback_started_at \in Int /\ st.breakout_candidate_started \in Int
    BY <2>1 DEF State, None
  <2>3. Depth(st) \in Int /\ MinDepth * st.atr_at_breakout \in Int
    BY <2>2, StrategyAssumption DEF Depth
  <2>4. MinDepth * st.atr_at_breakout <= Depth(st)
    BY <2>1, <2>3 DEF AfterPullback, Shallow
  <2>5. st.pullback_started_at >= st.breakout_candidate_started + HoldTime
    BY <2>1, <2>2, StrategyAssumption DEF AfterPullback, AfterBreakout
  <2> QED BY <2>1, <2>4, <2>5 DEF AfterPullback
<1> QED BY <1>1, StrategySound, PTL

\* The pullback's clock runs exactly while it is deep enough (evaluate).
THEOREM ClockRunsWhileDeep == StrategySpec => []TimedWhileDeep
<1>1. StrategyInv => TimedWhileDeep
  BY DEF StrategyInv, Sound, DuringPullback, Shallow, TimedWhileDeep
<1> QED BY <1>1, StrategySound, PTL

\* No bar counts twice, and the impulse's come before the pullback's (_record_volume).
THEOREM BarsCountOnce == StrategySpec => []BarsInOrder
<1>1. StrategyInv => BarsInOrder
  <2> SUFFICES ASSUME StrategyInv, NEW st \in {mem, disk},
                      NEW i \in 1..Len(st.impulse_volumes \o st.pullback_volumes),
                      NEW j \in 1..Len(st.impulse_volumes \o st.pullback_volumes), i < j
               PROVE  (st.impulse_volumes \o st.pullback_volumes)[i].minute
                        < (st.impulse_volumes \o st.pullback_volumes)[j].minute
    BY DEF BarsInOrder
  <2>1. /\ st.impulse_volumes \in Seq(Bar) /\ st.pullback_volumes \in Seq(Bar)
        /\ Sampling(st, now)
    BY DEF StrategyInv, Sound, State
  <2>2. Increasing(st.impulse_volumes \o st.pullback_volumes)
    BY <2>1, JoinedIncreasing DEF Sampling
  <2> QED BY <2>2 DEF Increasing
<1> QED BY <1>1, StrategySound, PTL

\* A restart goes on where the strategy was: the row follows the state (_save).
THEOREM PatternIsSaved == StrategySpec => []PatternSaved
<1>1. StrategyInv => PatternSaved BY DEF StrategyInv
<1> QED BY <1>1, StrategySound, PTL
====
