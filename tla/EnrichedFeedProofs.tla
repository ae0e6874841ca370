---- MODULE EnrichedFeedProofs ----
(***************************************************************************)
(* Proofs about EnrichedFeed, for every number of days, trades, restarts   *)
(* and failures: ticks are numbered, the bars in memory are those on disk, *)
(* the session's volume is that of its bars and agrees with the exchange's *)
(* cumulative volume, and what ticks say of bars stays true for the day.   *)
(*                                                                         *)
(* Sums and loads are folds.  What they compute is proved by induction     *)
(* over sets of numbers (UpTo), with the value of the fold at a number as  *)
(* a member of a set.  The invariants are layered, each over the one       *)
(* before: TypeInv, OrderInv, VolumeInv and PostedInv.                     *)
(***************************************************************************)
EXTENDS EnrichedFeed, FiniteSetTheorems, SequenceTheorems, TLAPS

----
\* Folds.

\* Every set of natural numbers has a least one.
LEMMA Least ==
    ASSUME NEW T, T \subseteq Nat, NEW t \in T
    PROVE  \E n \in T : \A m \in T : n <= m
  <1> DEFINE S == 0..t
             U == {0..n : n \in {m \in T : m <= t}}
  <1>1. IsWellFoundedOn(StrictSubsetOrdering(S), SUBSET S)
    <2>1. IsFiniteSet(S) BY FS_Interval
    <2> HIDE DEF S
    <2> QED BY <2>1, FS_StrictSubsetOrderingWellFounded, FS_FiniteSubsetsOfFinite
  <1>2. U \subseteq SUBSET S /\ U # {} OBVIOUS
  <1>3. PICK x \in U : \A y \in U : ~(<<y, x>> \in StrictSubsetOrdering(S))
    <2> HIDE DEF S, U
    <2> QED BY <1>1, <1>2, WFMin
  <1>4. PICK n \in T : n <= t /\ x = 0..n BY <1>3
  <1>5. ASSUME NEW m \in T, m < n PROVE FALSE
    <2>1. 0..m \in U BY <1>4, <1>5
    <2>2. 0..m \subseteq 0..n /\ 0..m # 0..n
      <3>1. n \in 0..n /\ n \notin 0..m /\ m \in Nat /\ n \in Nat BY <1>5
      <3> QED BY <3>1, <1>5
    <2>3. <<0..m, 0..n>> \in StrictSubsetOrdering(S)
      BY <1>2, <2>1, <2>2, <1>3, <1>4 DEF StrictSubsetOrdering
    <2> QED BY <1>3, <1>4, <2>1, <2>3
  <1> QED BY <1>4, <1>5

\* Induction over the numbers up to N, for a set instead of a predicate.
LEMMA UpTo ==
    ASSUME NEW N \in Nat, NEW T, 0 \in T,
           \A n \in Nat : n < N /\ n \in T => n + 1 \in T
    PROVE  \A n \in 0..N : n \in T
  <1> SUFFICES ASSUME NEW b \in 0..N, b \notin T PROVE FALSE OBVIOUS
  <1> DEFINE Bad == {n \in 0..N : n \notin T}
  <1>1. PICK n \in Bad : \A m \in Bad : n <= m
    <2>1. b \in Bad /\ Bad \subseteq Nat OBVIOUS
    <2> HIDE DEF Bad
    <2> QED BY <2>1, Least
  <1>2. n # 0 /\ n - 1 \in Nat /\ n - 1 < N OBVIOUS
  <1>3. n - 1 \in T
    <2>1. n - 1 \notin Bad BY <1>1, <1>2
    <2> QED BY <2>1, <1>2
  <1> QED BY <1>2, <1>3

LEMMA GreatestOf ==
    ASSUME NEW n \in Nat, NEW s, s \subseteq 1..(n + 1), n + 1 \in s
    PROVE  Max(s) = n + 1
  <1>1. \A y \in s : y \in Int /\ n + 1 >= y OBVIOUS
  <1>2. Max(s) \in s /\ \A y \in s : Max(s) >= y BY <1>1 DEF Max
  <1> DEFINE x == Max(s)
  <1>3. x \in Int /\ n + 1 >= x /\ x >= n + 1
    <2>1. x \in s /\ x >= n + 1 BY <1>2
    <2> HIDE DEF x
    <2> QED BY <1>1, <2>1
  <1> HIDE DEF x
  <1>4. x = n + 1 BY <1>3
  <1> QED BY <1>4 DEF x

LEMMA GreatestIn ==
    ASSUME NEW n \in Nat, NEW s, s \subseteq 1..n, s # {}
    PROVE  Max(s) \in s
  <1> DEFINE Below == {n - x : x \in s}
  <1>1. PICK t : t \in s OBVIOUS
  <1>2. PICK b \in Below : \A c \in Below : b <= c
    <2>1. Below \subseteq Nat /\ n - t \in Below BY <1>1
    <2> HIDE DEF Below
    <2> QED BY <2>1, Least
  <1>3. PICK x \in s : b = n - x OBVIOUS
  <1>4. ASSUME NEW y \in s PROVE x >= y
    <2>1. n - y \in Below /\ x \in 1..n /\ y \in 1..n OBVIOUS
    <2> HIDE DEF Below
    <2> QED BY <1>2, <1>3, <2>1
  <1> QED BY <1>4 DEF Max

\* Results of a fold of step over the indices in s, taken from the greatest.
Folds(f, V, N, base, step) ==
    /\ f \in [SUBSET (1..N) -> V]
    /\ f[{}] = base
    /\ \A s \in SUBSET (1..N) : s # {} => f[s] = step[<<f[s \ {Max(s)}], Max(s)>>]

LEMMA FoldExists ==
    ASSUME NEW V, NEW base \in V, NEW N \in Nat, NEW step \in [V \X (1..N) -> V]
    PROVE  \E f : Folds(f, V, N, base, step)
  <1> DEFINE T == {n \in 0..N : \E f : Folds(f, V, n, base, step)}
  <1>1. 0 \in T
    <2> DEFINE f == [s \in {{}} |-> base]
    <2>1. SUBSET (1..0) = {{}} OBVIOUS
    <2>2. Folds(f, V, 0, base, step) BY <2>1 DEF Folds
    <2> QED BY <2>2
  <1>2. ASSUME NEW n \in Nat, n < N, n \in T PROVE n + 1 \in T
    <2>1. PICK f : Folds(f, V, n, base, step) BY <1>2
    <2> DEFINE m == n + 1
               g == [s \in SUBSET (1..m) |->
                        IF m \in s THEN step[<<f[s \ {m}], m>>] ELSE f[s]]
    <2>2. ASSUME NEW s \in SUBSET (1..m)
          PROVE  /\ g[s] \in V
                 /\ m \in s => g[s] = step[<<g[s \ {m}], m>>]
      <3>1. s \ {m} \in SUBSET (1..n) /\ s \ {m} \in SUBSET (1..m) /\ m \notin s \ {m}
        OBVIOUS
      <3>2. f[s \ {m}] \in V /\ g[s \ {m}] = f[s \ {m}] BY <2>1, <3>1 DEF Folds
      <3>3. CASE m \in s
        <4>1. <<f[s \ {m}], m>> \in V \X (1..N) BY <1>2, <3>2
        <4> QED BY <3>2, <3>3, <4>1
      <3>4. CASE m \notin s
        <4>1. s \ {m} = s BY <3>4
        <4> QED BY <3>2, <3>4, <4>1
      <3> QED BY <3>3, <3>4
    <2>3. g \in [SUBSET (1..m) -> V]
      <3> HIDE DEF m
      <3> QED BY <2>2
    <2>4. g[{}] = base BY <2>1 DEF Folds
    <2>5. ASSUME NEW s \in SUBSET (1..m), s # {}
          PROVE  g[s] = step[<<g[s \ {Max(s)}], Max(s)>>]
      <3>1. CASE m \in s BY <2>2, <3>1, GreatestOf
      <3>2. CASE m \notin s
        <4>1. s \in SUBSET (1..n) /\ s \ {Max(s)} \in SUBSET (1..n)
          <5>1. \A x \in s : x \in 1..m /\ x # m BY <3>2
          <5>2. \A x \in s : x \in 1..n BY <5>1
          <5> QED BY <5>2
        <4>2. /\ g[s] = f[s] /\ g[s \ {Max(s)}] = f[s \ {Max(s)}]
          BY <3>2, <4>1
        <4> QED BY <2>1, <2>5, <4>1, <4>2 DEF Folds
      <3> QED BY <3>1, <3>2
    <2>6. Folds(g, V, m, base, step)
      <3> HIDE DEF g, m
      <3> QED BY <2>3, <2>4, <2>5 DEF Folds
    <2> HIDE DEF g
    <2> QED BY <1>2, <2>6
  <1>3. N \in T
    <2> HIDE DEF T
    <2>1. N \in 0..N OBVIOUS
    <2> QED BY <1>1, <1>2, <2>1, UpTo
  <1> QED BY <1>3

\* f folds step; of its values only those in V are known to step.
Steps(f, V, N, base, step) ==
    /\ f[{}] = base
    /\ \A s \in SUBSET (1..N) : s # {} /\ f[s \ {Max(s)}] \in V =>
           f[s] = step[<<f[s \ {Max(s)}], Max(s)>>]

\* The fold goes through the indices one by one.
Runs(g, V, N, base, step) ==
    /\ g \in [0..N -> V]
    /\ g[0] = base
    /\ \A i \in 1..N : g[i] = step[<<g[i - 1], i>>]

LEMMA FoldRuns ==
    ASSUME NEW V, NEW base \in V, NEW N \in Nat, NEW step \in [V \X (1..N) -> V],
           NEW f, Steps(f, V, N, base, step)
    PROVE  Runs([i \in 0..N |-> f[1..i]], V, N, base, step)
  <1> DEFINE g == [i \in 0..N |-> f[1..i]]
             T == {i \in 0..N : g[i] \in V}
  <1>1. ASSUME NEW n \in Nat, n < N, g[n] \in V
        PROVE  g[n + 1] = step[<<g[n], n + 1>>] /\ g[n + 1] \in V
    <2> DEFINE s == 1..(n + 1)
    <2>1. s \in SUBSET (1..N) /\ s # {} /\ n + 1 \in s
      <3>1. n + 1 \in s /\ \A x \in s : x \in 1..N BY <1>1
      <3> QED BY <3>1
    <2>2. Max(s) = n + 1 BY <2>1, GreatestOf
    <2>3. s \ {n + 1} = 1..n OBVIOUS
    <2>4. g[n] = f[1..n] /\ g[n + 1] = f[s] BY <1>1
    <2>5. <<g[n], n + 1>> \in V \X (1..N) BY <1>1
    <2> HIDE DEF g, s
    <2> QED BY <1>1, <2>1, <2>2, <2>3, <2>4, <2>5 DEF Steps
  <1>2. 0 \in T
    <2>1. 1..0 = {} OBVIOUS
    <2> QED BY <2>1 DEF Steps
  <1>3. ASSUME NEW n \in Nat, n < N, n \in T PROVE n + 1 \in T
    <2>1. n + 1 \in 0..N /\ g[n] \in V BY <1>3
    <2> HIDE DEF g
    <2> QED BY <1>1, <1>3, <2>1
  <1>4. \A n \in 0..N : n \in T
    <2> HIDE DEF T
    <2> QED BY <1>2, <1>3, UpTo
  <1>5. g \in [0..N -> V] BY <1>4
  <1>6. ASSUME NEW i \in 1..N PROVE g[i] = step[<<g[i - 1], i>>]
    <2>1. i - 1 \in Nat /\ i - 1 < N /\ g[i - 1] \in V /\ (i - 1) + 1 = i BY <1>4
    <2> HIDE DEF g
    <2> QED BY <1>1, <2>1
  <1>7. g[0] = base
    <2>1. 1..0 = {} OBVIOUS
    <2> QED BY <2>1 DEF Steps
  <1>8. Runs(g, V, N, base, step)
    <2> HIDE DEF g
    <2> QED BY <1>5, <1>6, <1>7 DEF Runs
  <1> QED BY <1>8

----
\* Sums of volumes.

Plus(sum, bar, day) == IF Day(bar.start) = day THEN sum + bar.volume ELSE sum

\* The running sums of a list of bars.
Sums(g, bars, day) ==
    /\ g \in [0..Len(bars) -> Nat]
    /\ g[0] = 0
    /\ \A i \in 1..Len(bars) : g[i] = Plus(g[i - 1], bars[i], day)

LEMMA VolumeRuns ==
    ASSUME NEW bars \in Seq(Bar), NEW day
    PROVE  \E g : Sums(g, bars, day) /\ VolumeOf(bars, day) = g[Len(bars)]
  <1> DEFINE N == Len(bars)
             step == [p \in Nat \X (1..N) |-> Plus(p[1], bars[p[2]], day)]
             P(f) == f = [s \in SUBSET (1..N) |->
                             IF s = {} THEN 0 ELSE Plus(f[s \ {Max(s)}], bars[Max(s)], day)]
             sum == CHOOSE f : P(f)
  <1>1. N \in Nat /\ DOMAIN bars = 1..N /\ \A i \in 1..N : bars[i].volume \in Nat
    <2>1. N \in Nat /\ DOMAIN bars = 1..N /\ \A i \in 1..N : bars[i] \in Bar
      BY LenProperties, ElementOfSeq
    <2> QED BY <2>1 DEF Bar
  <1>2. VolumeOf(bars, day) = sum[1..N]
    BY <1>1 DEF VolumeOf, FoldLeft, MapThenFoldSet, Plus
  <1>3. step \in [Nat \X (1..N) -> Nat]
    <2>1. \A x \in Nat, i \in 1..N : Plus(x, bars[i], day) \in Nat BY <1>1 DEF Plus
    <2> QED BY <2>1
  <1>4. P(sum)
    <2>1. PICK f : Folds(f, Nat, N, 0, step)
      <3> HIDE DEF N, step
      <3> QED BY <1>1, <1>3, FoldExists
    <2>2. ASSUME NEW s \in SUBSET (1..N), s # {}
          PROVE  f[s] = Plus(f[s \ {Max(s)}], bars[Max(s)], day)
      <3>1. Max(s) \in 1..N /\ f[s \ {Max(s)}] \in Nat
        <4>1. s \ {Max(s)} \in SUBSET (1..N) OBVIOUS
        <4>2. Max(s) \in s BY <1>1, <2>2, GreatestIn
        <4> QED BY <2>1, <4>1, <4>2 DEF Folds
      <3>2. f[s] = step[<<f[s \ {Max(s)}], Max(s)>>] BY <2>1, <2>2 DEF Folds
      <3> QED BY <3>1, <3>2
    <2>3. f = [s \in SUBSET (1..N) |->
                  IF s = {} THEN 0 ELSE Plus(f[s \ {Max(s)}], bars[Max(s)], day)]
      <3>1. f \in [SUBSET (1..N) -> Nat] /\ f[{}] = 0 BY <2>1 DEF Folds
      <3> HIDE DEF N
      <3> QED BY <2>2, <3>1
    <2> QED BY <2>3
  <1>5. sum[{}] = 0
    <2> HIDE DEF sum
    <2> QED BY <1>4
  <1>6. ASSUME NEW s \in SUBSET (1..N), s # {}, sum[s \ {Max(s)}] \in Nat
        PROVE  sum[s] = step[<<sum[s \ {Max(s)}], Max(s)>>]
    <2>1. Max(s) \in 1..N BY <1>1, <1>6, GreatestIn
    <2>2. sum[s] = Plus(sum[s \ {Max(s)}], bars[Max(s)], day)
      <3> HIDE DEF sum
      <3> QED BY <1>4, <1>6
    <2> HIDE DEF sum
    <2> QED BY <1>6, <2>1, <2>2
  <1> DEFINE g == [i \in 0..N |-> sum[1..i]]
  <1>7. Runs(g, Nat, N, 0, step) /\ g[N] = sum[1..N]
    <2>1. Steps(sum, Nat, N, 0, step)
      <3> HIDE DEF N, sum, step
      <3> QED BY <1>5, <1>6 DEF Steps
    <2>2. N \in Nat /\ 0 \in Nat BY <1>1
    <2> HIDE DEF N, step, sum
    <2>3. N \in 0..N BY <2>2
    <2> QED BY <1>3, <2>1, <2>2, <2>3, FoldRuns
  <1> HIDE DEF g
  <1>8. ASSUME NEW i \in 1..N PROVE g[i] = Plus(g[i - 1], bars[i], day)
    <2>1. g[i - 1] \in Nat /\ g[i] = step[<<g[i - 1], i>>]
      <3>1. i - 1 \in 0..N BY <1>1
      <3> HIDE DEF N, sum, step
      <3> QED BY <1>7, <3>1 DEF Runs
    <2> HIDE DEF sum
    <2> QED BY <2>1
  <1> HIDE DEF sum, step
  <1> QED BY <1>2, <1>7, <1>8 DEF Sums, Runs

\* Running sums are determined by the bars they go over.
LEMMA SumsAgree ==
    ASSUME NEW a \in Seq(Bar), NEW b \in Seq(Bar), NEW day, NEW g, NEW h,
           Sums(g, a, day), Sums(h, b, day),
           NEW n \in Nat, n <= Len(a), n <= Len(b), \A i \in 1..n : a[i] = b[i]
    PROVE  g[n] = h[n]
  <1> DEFINE T == {i \in 0..n : g[i] = h[i]}
  <1>1. 0 \in T BY DEF Sums
  <1>2. ASSUME NEW i \in Nat, i < n, i \in T PROVE i + 1 \in T
    <2>1. i + 1 \in 1..Len(a) /\ i + 1 \in 1..Len(b) /\ i + 1 \in 1..n /\ (i + 1) - 1 = i
      BY <1>2, LenProperties
    <2>2. g[i + 1] = Plus(g[i], a[i + 1], day) /\ h[i + 1] = Plus(h[i], b[i + 1], day)
      BY <2>1 DEF Sums
    <2> QED BY <1>2, <2>1, <2>2
  <1>3. n \in T
    <2> HIDE DEF T
    <2>1. n \in 0..n OBVIOUS
    <2> QED BY <1>1, <1>2, <2>1, UpTo
  <1> QED BY <1>3

LEMMA VolumeType ==
    ASSUME NEW bars \in Seq(Bar), NEW day
    PROVE  VolumeOf(bars, day) \in Nat
  <1>1. PICK g : Sums(g, bars, day) /\ VolumeOf(bars, day) = g[Len(bars)] BY VolumeRuns
  <1>2. Len(bars) \in 0..Len(bars) BY LenProperties
  <1> QED BY <1>1, <1>2 DEF Sums

LEMMA VolumeEmpty == ASSUME NEW day PROVE VolumeOf(<<>>, day) = 0
  <1>1. PICK g : Sums(g, <<>>, day) /\ VolumeOf(<<>>, day) = g[0]
    BY VolumeRuns, EmptySeq
  <1> QED BY <1>1 DEF Sums

LEMMA VolumeAppend ==
    ASSUME NEW bars \in Seq(Bar), NEW bar \in Bar, NEW day
    PROVE  VolumeOf(Append(bars, bar), day) = Plus(VolumeOf(bars, day), bar, day)
  <1> DEFINE more == Append(bars, bar)
             n == Len(bars)
  <1>1. /\ more \in Seq(Bar) /\ Len(more) = n + 1 /\ more[n + 1] = bar /\ n \in Nat
        /\ \A i \in 1..n : bars[i] = more[i]
    BY AppendProperties, LenProperties
  <1> HIDE DEF more
  <1>2. PICK g : Sums(g, bars, day) /\ VolumeOf(bars, day) = g[n] BY VolumeRuns
  <1>3. PICK h : Sums(h, more, day) /\ VolumeOf(more, day) = h[n + 1] BY <1>1, VolumeRuns
  <1> HIDE DEF n
  <1>4. g[n] = h[n] BY <1>1, <1>2, <1>3, SumsAgree DEF n
  <1>5. h[n + 1] = Plus(h[n], bar, day)
    <2>1. n + 1 \in 1..Len(more) /\ (n + 1) - 1 = n BY <1>1
    <2> QED BY <1>1, <1>3, <2>1 DEF Sums
  <1> QED BY <1>2, <1>3, <1>4, <1>5 DEF more

\* No bar of the day, no volume.
LEMMA VolumeOfNone ==
    ASSUME NEW bars \in Seq(Bar), NEW day, \A i \in DOMAIN bars : Day(bars[i].start) # day
    PROVE  VolumeOf(bars, day) = 0
  <1> DEFINE N == Len(bars)
  <1>1. N \in Nat /\ DOMAIN bars = 1..N BY LenProperties
  <1>2. PICK g : Sums(g, bars, day) /\ VolumeOf(bars, day) = g[N] BY VolumeRuns
  <1> DEFINE T == {i \in 0..N : g[i] = 0}
  <1>3. 0 \in T BY <1>1, <1>2 DEF Sums
  <1>4. ASSUME NEW i \in Nat, i < N, i \in T PROVE i + 1 \in T
    <2>1. i + 1 \in 1..N /\ (i + 1) - 1 = i BY <1>1, <1>4
    <2>2. g[i + 1] = Plus(g[i], bars[i + 1], day) BY <1>2, <2>1 DEF Sums
    <2> QED BY <1>1, <1>4, <2>1, <2>2 DEF Plus
  <1>5. N \in T
    <2> HIDE DEF T
    <2>1. N \in 0..N BY <1>1
    <2> QED BY <1>1, <1>3, <1>4, <2>1, UpTo
  <1> QED BY <1>2, <1>5

----
\* Loaded rows.

Rows == [Minutes -> Nat \cup {None}]

AllMinutes == PerDay * Days

LEMMA AllMinutesType == AllMinutes \in Nat /\ Minutes = 0..(AllMinutes - 1)
  <1>1. \A a, b \in Nat : a * b \in Nat OBVIOUS
  <1> QED BY <1>1, FeedAssumption DEF AllMinutes, Minutes

\* The bar of minute i - 1 is put behind those of the minutes before.
WithRow(bars, rows, i) ==
    IF rows[i - 1] = None THEN bars
    ELSE Append(bars, [start |-> i - 1, volume |-> rows[i - 1]])

Scan(g, rows) ==
    /\ g \in [0..AllMinutes -> Seq(Bar)]
    /\ g[0] = <<>>
    /\ \A i \in 1..AllMinutes : g[i] = WithRow(g[i - 1], rows, i)

LEMMA BarOfRow ==
    ASSUME NEW rows \in Rows, NEW i \in 1..AllMinutes
    PROVE  /\ i - 1 \in Minutes
           /\ rows[i - 1] # None => [start |-> i - 1, volume |-> rows[i - 1]] \in Bar
  <1>1. i - 1 \in Minutes BY AllMinutesType
  <1> QED BY <1>1 DEF Rows, Bar

LEMMA LoadRuns ==
    ASSUME NEW rows \in Rows
    PROVE  \E g : Scan(g, rows) /\ InTheirOrder(rows) = g[AllMinutes]
  <1> DEFINE N == AllMinutes
             V == Seq(Bar)
             step == [p \in V \X (1..N) |-> WithRow(p[1], rows, p[2])]
             at == [i \in 1..N |-> i - 1]
             P(f) == f = [s \in SUBSET (1..N) |->
                             IF s = {} THEN <<>> ELSE WithRow(f[s \ {Max(s)}], rows, Max(s))]
             list == CHOOSE f : P(f)
             g == [i \in 0..N |-> list[1..i]]
  <1>1. N \in Nat BY AllMinutesType
  <1>2. InTheirOrder(rows) = list[1..N]
    <2> DEFINE Q(f) == f = [s \in SUBSET (1..N) |->
                             IF s = {} THEN <<>>
                             ELSE IF rows[at[Max(s)]] = None THEN f[s \ {Max(s)}]
                             ELSE Append(f[s \ {Max(s)}],
                                         [start |-> at[Max(s)], volume |-> rows[at[Max(s)]]])]
    <2>1. InTheirOrder(rows) = (CHOOSE f : Q(f))[1..N]
      BY DEF InTheirOrder, FoldLeft, MapThenFoldSet, AllMinutes
    <2>2. ASSUME NEW s \in SUBSET (1..N), s # {} PROVE at[Max(s)] = Max(s) - 1
      BY <1>1, <2>2, GreatestIn
    <2>3. ASSUME NEW f
          PROVE  [s \in SUBSET (1..N) |->
                             IF s = {} THEN <<>>
                             ELSE IF rows[at[Max(s)]] = None THEN f[s \ {Max(s)}]
                             ELSE Append(f[s \ {Max(s)}],
                                         [start |-> at[Max(s)], volume |-> rows[at[Max(s)]]])]
                 = [s \in SUBSET (1..N) |->
                             IF s = {} THEN <<>> ELSE WithRow(f[s \ {Max(s)}], rows, Max(s))]
      <3> HIDE DEF at, N
      <3> QED BY <2>2 DEF WithRow
    <2>4. \A f : P(f) <=> Q(f) BY <2>3
    <2> HIDE DEF P, Q
    <2>5. (CHOOSE f : P(f)) = (CHOOSE f : Q(f)) BY <2>4
    <2> QED BY <2>1, <2>5
  <1>3. <<>> \in V /\ step \in [V \X (1..N) -> V]
    <2>1. ASSUME NEW bars \in V, NEW i \in 1..N PROVE WithRow(bars, rows, i) \in V
      BY <2>1, BarOfRow, AppendProperties DEF WithRow
    <2>2. \A p \in V \X (1..N) : WithRow(p[1], rows, p[2]) \in V BY <2>1
    <2> HIDE DEF V
    <2>3. <<>> \in V BY EmptySeq DEF V
    <2> QED BY <2>2, <2>3
  <1>4. P(list)
    <2>1. PICK f : Folds(f, V, N, <<>>, step)
      <3> HIDE DEF N, step, V
      <3> QED BY <1>1, <1>3, FoldExists
    <2>2. ASSUME NEW s \in SUBSET (1..N), s # {}
          PROVE  f[s] = WithRow(f[s \ {Max(s)}], rows, Max(s))
      <3>1. Max(s) \in 1..N /\ f[s \ {Max(s)}] \in V
        <4>1. s \ {Max(s)} \in SUBSET (1..N) OBVIOUS
        <4>2. Max(s) \in s BY <1>1, <2>2, GreatestIn
        <4> QED BY <2>1, <4>1, <4>2 DEF Folds
      <3>2. f[s] = step[<<f[s \ {Max(s)}], Max(s)>>] BY <2>1, <2>2 DEF Folds
      <3> HIDE DEF V, N
      <3> QED BY <3>1, <3>2
    <2>3. P(f)
      <3>1. f \in [SUBSET (1..N) -> V] /\ f[{}] = <<>> BY <2>1 DEF Folds
      <3> HIDE DEF N, V
      <3> QED BY <2>2, <3>1
    <2> HIDE DEF P
    <2> QED BY <2>3
  <1>5. Steps(list, V, N, <<>>, step)
    <2>1. list[{}] = <<>>
      <3> HIDE DEF list
      <3> QED BY <1>4
    <2>2. ASSUME NEW s \in SUBSET (1..N), s # {}, list[s \ {Max(s)}] \in V
          PROVE  list[s] = step[<<list[s \ {Max(s)}], Max(s)>>]
      <3>1. Max(s) \in 1..N BY <1>1, <2>2, GreatestIn
      <3>2. list[s] = WithRow(list[s \ {Max(s)}], rows, Max(s))
        <4> HIDE DEF list, N
        <4> QED BY <1>4, <2>2
      <3> HIDE DEF list, V, N
      <3> QED BY <2>2, <3>1, <3>2
    <2> HIDE DEF N, step, V, list
    <2> QED BY <2>1, <2>2 DEF Steps
  <1>6. Runs(g, V, N, <<>>, step) /\ g[N] = list[1..N]
    <2> HIDE DEF N, step, V, list
    <2>1. N \in 0..N BY <1>1
    <2> QED BY <1>1, <1>3, <1>5, <2>1, FoldRuns
  <1> HIDE DEF g, list
  <1>7. ASSUME NEW i \in 1..N PROVE g[i] = WithRow(g[i - 1], rows, i)
    <2>1. i - 1 \in 0..N BY <1>1
    <2>2. g[i - 1] \in V /\ g[i] = step[<<g[i - 1], i>>]
      <3> HIDE DEF N, V, step
      <3> QED BY <1>6, <2>1 DEF Runs
    <2> HIDE DEF V, N
    <2> QED BY <2>2
  <1>8. Scan(g, rows)
    <2> HIDE DEF step
    <2> QED BY <1>6, <1>7 DEF Runs, Scan
  <1> QED BY <1>2, <1>6, <1>8

\* What a scan has found after n minutes.
Found(bars, rows, n) ==
    /\ bars \in Seq(Bar)
    /\ \A i \in DOMAIN bars :
           bars[i].start < n /\ rows[bars[i].start] = bars[i].volume
    /\ \A i, j \in DOMAIN bars : i < j => bars[i].start < bars[j].start
    /\ \A m \in Minutes : m < n /\ rows[m] # None =>
           \E i \in DOMAIN bars : bars[i] = [start |-> m, volume |-> rows[m]]

LEMMA ScanFinds ==
    ASSUME NEW rows \in Rows, NEW g, Scan(g, rows)
    PROVE  \A n \in 0..AllMinutes : Found(g[n], rows, n)
  <1> DEFINE N == AllMinutes
             T == {n \in 0..N : Found(g[n], rows, n)}
  <1>1. N \in Nat BY AllMinutesType
  <1>2. 0 \in T
    <2>1. g[0] = <<>> /\ DOMAIN <<>> = {} /\ <<>> \in Seq(Bar) BY EmptySeq DEF Scan
    <2>2. \A m \in Minutes : ~(m < 0) BY AllMinutesType
    <2>3. Found(g[0], rows, 0) BY <2>1, <2>2 DEF Found
    <2> QED BY <1>1, <2>3
  <1>3. ASSUME NEW n \in Nat, n < N, n \in T PROVE n + 1 \in T
    <2> DEFINE a == g[n]
               bar == [start |-> n, volume |-> rows[n]]
    <2>1. n + 1 \in 1..N /\ n + 1 \in 0..N /\ (n + 1) - 1 = n BY <1>1, <1>3
    <2>2. n \in Minutes /\ (rows[n] # None => bar \in Bar) BY <2>1, BarOfRow
    <2>3. g[n + 1] = WithRow(a, rows, n + 1) BY <2>1 DEF Scan
    <2>4. Found(a, rows, n) BY <1>3
    <2>5. \A m \in Minutes : m < n + 1 => m < n \/ m = n BY AllMinutesType
    <2>6. \A i \in DOMAIN a : a[i].start \in Int /\ a[i].start < n + 1
      <3>1. \A i \in DOMAIN a : a[i] \in Bar BY <2>4, ElementOfSeq, LenProperties DEF Found
      <3> QED BY <1>3, <2>4, <3>1, AllMinutesType DEF Found, Bar
    <2> HIDE DEF a
    <2>7. CASE rows[n] = None
      <3>1. g[n + 1] = a BY <2>1, <2>3, <2>7 DEF WithRow
      <3>2. Found(a, rows, n + 1) BY <2>4, <2>5, <2>6, <2>7 DEF Found
      <3> QED BY <2>1, <3>1, <3>2
    <2>8. CASE rows[n] # None
      <3> DEFINE b == Append(a, bar)
      <3>1. g[n + 1] = b BY <2>1, <2>3, <2>8 DEF WithRow
      <3>2. /\ b \in Seq(Bar) /\ DOMAIN b = 1..(Len(a) + 1) /\ b[Len(a) + 1] = bar
            /\ DOMAIN a = 1..Len(a) /\ Len(a) \in Nat
            /\ \A i \in 1..Len(a) : b[i] = a[i]
        BY <2>2, <2>4, <2>8, AppendProperties, LenProperties DEF Found
      <3> HIDE DEF b
      <3>3. ASSUME NEW i \in DOMAIN b PROVE b[i].start < n + 1 /\ rows[b[i].start] = b[i].volume
        <4>1. CASE i = Len(a) + 1 BY <1>3, <3>2, <4>1
        <4>2. CASE i \in 1..Len(a) BY <2>4, <2>6, <3>2, <4>2 DEF Found
        <4> QED BY <3>2, <4>1, <4>2
      <3>4. ASSUME NEW m \in Minutes, m < n + 1, rows[m] # None
            PROVE  \E i \in DOMAIN b : b[i] = [start |-> m, volume |-> rows[m]]
        <4>1. CASE m = n
          <5>1. Len(a) + 1 \in DOMAIN b BY <3>2
          <5> QED BY <3>2, <4>1, <5>1
        <4>2. CASE m < n
          <5>1. PICK i \in DOMAIN a : a[i] = [start |-> m, volume |-> rows[m]]
            BY <2>4, <3>4, <4>2 DEF Found
          <5>2. i \in DOMAIN b /\ b[i] = a[i] BY <3>2
          <5> QED BY <5>1, <5>2
        <4> QED BY <2>5, <3>4, <4>1, <4>2
      <3>5. ASSUME NEW i \in DOMAIN b, NEW j \in DOMAIN b, i < j
            PROVE  b[i].start < b[j].start
        <4>1. i \in 1..Len(a) /\ i \in DOMAIN a BY <3>2, <3>5
        <4>2. CASE j = Len(a) + 1 BY <2>4, <3>2, <4>1, <4>2 DEF Found
        <4>3. CASE j \in 1..Len(a) BY <2>4, <3>2, <3>5, <4>1, <4>3 DEF Found
        <4> QED BY <3>2, <4>2, <4>3
      <3>6. Found(b, rows, n + 1)
        <4> HIDE DEF bar
        <4> QED BY <3>2, <3>3, <3>4, <3>5 DEF Found
      <3> QED BY <2>1, <3>1, <3>6
    <2> QED BY <2>7, <2>8
  <1> HIDE DEF T
  <1>4. \A n \in 0..N : n \in T BY <1>1, <1>2, <1>3, UpTo
  <1> QED BY <1>4 DEF T

\* The rows after minute m.
Later(rows, m) == {n \in Minutes : n > m /\ rows[n] # None}

\* With more rows there are not fewer after a minute.
LEMMA LaterMore ==
    ASSUME NEW rows, NEW more, NEW m \in Minutes, Later(rows, m) \subseteq Later(more, m)
    PROVE  /\ Cardinality(Later(rows, m)) \in Nat /\ Cardinality(Later(more, m)) \in Nat
           /\ Cardinality(Later(rows, m)) <= Cardinality(Later(more, m))
  <1>1. IsFiniteSet(Minutes)
    <2>1. AllMinutes \in Nat /\ Minutes = 0..(AllMinutes - 1) BY AllMinutesType
    <2>2. AllMinutes - 1 \in Int BY <2>1
    <2> QED BY <2>1, <2>2, FS_Interval
  <1>2. Later(more, m) \subseteq Minutes BY DEF Later
  <1>3. IsFiniteSet(Later(more, m)) BY <1>1, <1>2, FS_Subset
  <1>4. /\ IsFiniteSet(Later(rows, m))
        /\ Cardinality(Later(rows, m)) <= Cardinality(Later(more, m))
    BY <1>3, FS_Subset
  <1> QED BY <1>3, <1>4, FS_CardinalityType

\* What the limit of load does: it leaves out rows and changes none.
LEMMA NewestFacts ==
    ASSUME NEW rows \in Rows
    PROVE  /\ Newest(rows) \in Rows
           /\ \A m \in Minutes :
                  /\ Newest(rows)[m] \in {rows[m], None}
                  /\ Cardinality(Later(rows, m)) < MaxRows => Newest(rows)[m] = rows[m]
                  /\ Newest(rows)[m] # None => Cardinality(Later(rows, m)) < MaxRows
  BY DEF Newest, Later, Rows

\* A row that is still read after a bar was saved was read before.
LEMMA NewestSaved ==
    ASSUME NEW rows \in Rows, NEW bar \in Bar, NEW m \in Minutes,
           Newest(save(rows, bar))[m] # None
    PROVE  /\ save(rows, bar) \in Rows
           /\ Newest(save(rows, bar))[m] = save(rows, bar)[m]
           /\ m # bar.start => /\ save(rows, bar)[m] = rows[m]
                               /\ Newest(rows)[m] = rows[m]
  <1> DEFINE more == save(rows, bar)
  <1>1. /\ more \in Rows /\ bar.start \in Minutes /\ more[bar.start] = bar.volume
        /\ bar.volume # None /\ \A n \in Minutes : n # bar.start => more[n] = rows[n]
    BY DEF save, Rows, Bar, None
  <1> HIDE DEF more
  <1>2. Newest(more)[m] = more[m] /\ Cardinality(Later(more, m)) < MaxRows
    BY <1>1, NewestFacts DEF more
  <1>3. Later(rows, m) \subseteq Later(more, m) BY <1>1 DEF Later
  <1>4. MaxRows \in Nat BY FeedAssumption
  <1>5. Cardinality(Later(rows, m)) < MaxRows BY <1>2, <1>3, <1>4, LaterMore
  <1> QED BY <1>1, <1>2, <1>5, NewestFacts DEF more

\* What is loaded are the newest rows that are there.
LEMMA LoadFacts ==
    ASSUME NEW rows \in Rows
    PROVE  /\ load(rows) \in Seq(Bar)
           /\ \A i \in DOMAIN load(rows) :
                  /\ rows[load(rows)[i].start] = load(rows)[i].volume
                  /\ Newest(rows)[load(rows)[i].start] = load(rows)[i].volume
           /\ \A i, j \in DOMAIN load(rows) :
                  i < j => load(rows)[i].start < load(rows)[j].start
           /\ \A m \in Minutes : Newest(rows)[m] # None =>
                  \E i \in DOMAIN load(rows) :
                      load(rows)[i] = [start |-> m, volume |-> rows[m]]
  <1> DEFINE few == Newest(rows)
             bars == load(rows)
  <1>1. few \in Rows /\ \A m \in Minutes : few[m] \in {rows[m], None} BY NewestFacts
  <1>2. bars = InTheirOrder(few) BY DEF load
  <1> HIDE DEF few, bars
  <1>3. PICK g : Scan(g, few) /\ bars = g[AllMinutes] BY <1>1, <1>2, LoadRuns
  <1>4. AllMinutes \in 0..AllMinutes /\ \A m \in Minutes : m < AllMinutes BY AllMinutesType
  <1>5. Found(bars, few, AllMinutes) BY <1>1, <1>3, <1>4, ScanFinds
  <1>6. bars \in Seq(Bar) /\ \A i \in DOMAIN bars : bars[i] \in Bar
    BY <1>5, LenProperties, ElementOfSeq DEF Found
  <1>7. ASSUME NEW i \in DOMAIN bars
        PROVE  rows[bars[i].start] = bars[i].volume /\ few[bars[i].start] = bars[i].volume
    <2>1. few[bars[i].start] = bars[i].volume BY <1>5 DEF Found
    <2>2. bars[i].start \in Minutes /\ bars[i].volume # None BY <1>6 DEF Bar, None
    <2> QED BY <1>1, <2>1, <2>2
  <1>8. ASSUME NEW m \in Minutes, few[m] # None
        PROVE  \E i \in DOMAIN bars : bars[i] = [start |-> m, volume |-> rows[m]]
    <2>1. few[m] = rows[m] BY <1>1, <1>8
    <2>2. \E i \in DOMAIN bars : bars[i] = [start |-> m, volume |-> few[m]]
      BY <1>4, <1>5, <1>8 DEF Found
    <2> QED BY <2>1, <2>2
  <1>9. \A i, j \in DOMAIN bars : i < j => bars[i].start < bars[j].start BY <1>5 DEF Found
  <1> QED BY <1>6, <1>7, <1>8, <1>9 DEF few, bars

\* A saved bar adds at most its volume to what is loaded: it may replace a row, or
\* push one over the limit.
LEMMA SaveAdds ==
    ASSUME NEW rows \in Rows, NEW bar \in Bar, NEW day
    PROVE  VolumeOf(load(save(rows, bar)), day) <= Plus(VolumeOf(load(rows), day), bar, day)
  <1> DEFINE few == Newest(rows)
             more == Newest(save(rows, bar))
             N == AllMinutes
  <1>1. /\ few \in Rows /\ more \in Rows /\ bar.start \in Minutes /\ bar.volume \in Nat
        /\ bar.start \in Nat /\ bar.start < N /\ N \in Nat
        /\ more[bar.start] \in {bar.volume, None}
        /\ \A m \in Minutes : m # bar.start => more[m] \in {few[m], None}
    <2>1. save(rows, bar) \in Rows /\ save(rows, bar)[bar.start] = bar.volume
      BY DEF Rows, save, Bar
    <2>2. few \in Rows /\ more \in Rows BY <2>1, NewestFacts
    <2>3. \A m \in Minutes : more[m] # None => /\ more[m] = save(rows, bar)[m]
                                               /\ m # bar.start => more[m] = few[m]
      BY NewestSaved
    <2>4. /\ bar.start \in Minutes /\ bar.volume \in Nat /\ bar.start \in Nat
          /\ bar.start < N /\ N \in Nat
      BY AllMinutesType DEF Bar
    <2> HIDE DEF few, more
    <2> QED BY <2>1, <2>2, <2>3, <2>4
  <1>0. load(rows) = InTheirOrder(few) /\ load(save(rows, bar)) = InTheirOrder(more)
    BY DEF load
  <1> HIDE DEF few, more
  <1>2. PICK g : Scan(g, few) /\ load(rows) = g[N] BY <1>1, <1>0, LoadRuns
  <1>3. PICK h : Scan(h, more) /\ load(save(rows, bar)) = h[N] BY <1>1, <1>0, LoadRuns
  <1> DEFINE before(n) == VolumeOf(g[n], day)
             after(n) == VolumeOf(h[n], day)
             T == {n \in 0..N : after(n) <= IF bar.start < n THEN Plus(before(n), bar, day)
                                            ELSE before(n)}
  <1>4. \A n \in 0..N : /\ g[n] \in Seq(Bar) /\ h[n] \in Seq(Bar)
                         /\ before(n) \in Nat /\ after(n) \in Nat
    BY <1>2, <1>3, VolumeType DEF Scan
  <1>5. 0 \in T
    <2>1. before(0) = 0 /\ after(0) = 0 BY <1>2, <1>3, VolumeEmpty DEF Scan
    <2> QED BY <1>1, <2>1
  <1>6. ASSUME NEW n \in Nat, n < N, n \in T PROVE n + 1 \in T
    <2> DEFINE row == [start |-> n, volume |-> few[n]]
               new == [start |-> n, volume |-> more[n]]
    <2>1. /\ n \in 0..N /\ n + 1 \in 0..N /\ n + 1 \in 1..N /\ (n + 1) - 1 = n /\ n \in Minutes
      BY <1>1, <1>6, AllMinutesType
    <2>2. g[n + 1] = WithRow(g[n], few, n + 1) /\ h[n + 1] = WithRow(h[n], more, n + 1)
      BY <1>2, <1>3, <2>1 DEF Scan
    <2>3. /\ few[n] # None => row \in Bar /\ g[n + 1] = Append(g[n], row)
          /\ few[n] = None => g[n + 1] = g[n]
          /\ more[n] # None => new \in Bar /\ h[n + 1] = Append(h[n], new)
          /\ more[n] = None => h[n + 1] = h[n]
      BY <1>1, <2>1, <2>2, BarOfRow DEF WithRow
    <2>4. /\ few[n] # None => before(n + 1) = Plus(before(n), row, day)
          /\ more[n] # None => after(n + 1) = Plus(after(n), new, day)
      <3> HIDE DEF row, new
      <3>1. g[n] \in Seq(Bar) /\ h[n] \in Seq(Bar) BY <1>4, <2>1
      <3>2. few[n] # None =>
                VolumeOf(Append(g[n], row), day) = Plus(VolumeOf(g[n], day), row, day)
        BY <2>3, <3>1, VolumeAppend
      <3>3. more[n] # None =>
                VolumeOf(Append(h[n], new), day) = Plus(VolumeOf(h[n], day), new, day)
        BY <2>3, <3>1, VolumeAppend
      <3> QED BY <2>3, <3>2, <3>3
    <2>5. /\ before(n) \in Nat /\ after(n) \in Nat /\ before(n + 1) \in Nat
          /\ after(n + 1) \in Nat
      BY <1>4, <2>1
    <2>6. /\ few[n] = None => before(n + 1) = before(n)
          /\ more[n] = None => after(n + 1) = after(n)
      BY <2>3
    <2>7. after(n) <= IF bar.start < n THEN Plus(before(n), bar, day) ELSE before(n) BY <1>6
    <2>8. row.start = n /\ new.start = n /\ row.volume = few[n] /\ new.volume = more[n]
      OBVIOUS
    <2>9. (few[n] = None \/ few[n] \in Nat) /\ None \notin Nat
      BY <1>1, <2>1 DEF Rows, None
    <2> HIDE DEF before, after, row, new, T
    <2>10. CASE n = bar.start
      <3>1. /\ after(n) <= before(n)
            /\ \/ more[n] = bar.volume /\ after(n + 1) = Plus(after(n), new, day)
               \/ after(n + 1) = after(n)
        BY <1>1, <2>4, <2>6, <2>7, <2>9, <2>10
      <3>2. before(n) <= before(n + 1)
        BY <2>4, <2>5, <2>6, <2>8, <2>9 DEF Plus
      <3>3. after(n + 1) <= Plus(before(n + 1), bar, day)
        BY <1>1, <2>5, <2>8, <2>10, <3>1, <3>2 DEF Plus
      <3> QED BY <1>1, <2>1, <2>10, <3>3 DEF T
    <2>11. CASE n # bar.start
      <3>1. more[n] \in {few[n], None} BY <1>1, <2>1, <2>11
      <3>2. bar.start < n + 1 <=> bar.start < n BY <1>1, <2>11
      <3>3. after(n + 1) <= IF bar.start < n THEN Plus(before(n + 1), bar, day)
                            ELSE before(n + 1)
        BY <1>1, <2>4, <2>5, <2>6, <2>7, <2>8, <2>9, <3>1 DEF Plus
      <3> QED BY <2>1, <3>2, <3>3 DEF T
    <2> QED BY <2>10, <2>11
  <1> HIDE DEF T
  <1>7. N \in T
    <2>1. N \in 0..N BY <1>1
    <2> QED BY <1>1, <1>5, <1>6, <2>1, UpTo
  <1> QED BY <1>1, <1>2, <1>3, <1>7 DEF T

----
\* Days.

LEMMA DayParts ==
    ASSUME NEW m \in Minutes
    PROVE  /\ m \in Nat /\ Day(m) \in Nat /\ m % PerDay \in 0..(PerDay - 1)
           /\ m = PerDay * Day(m) + (m % PerDay)
  <1>1. m \in Nat /\ PerDay \in Nat \ {0} BY AllMinutesType, FeedAssumption
  <1> QED BY <1>1 DEF Day

LEMMA TimesGrows ==
    ASSUME NEW p \in Nat, NEW a \in Nat, NEW b \in Nat, a < b
    PROVE  p * a + p <= p * b
  <1>1. PICK c \in Nat : b = a + 1 + c
    <2>1. b - a - 1 \in Nat /\ b = a + 1 + (b - a - 1) OBVIOUS
    <2> QED BY <2>1
  <1>2. p * b = p * a + p + p * c BY <1>1
  <1>3. p * c \in Nat /\ p * a \in Nat OBVIOUS
  <1> QED BY <1>2, <1>3

\* Days follow each other, and within a day its minutes.
LEMMA DaysInOrder ==
    ASSUME NEW m \in Minutes, NEW n \in Minutes, m <= n
    PROVE  /\ Day(m) <= Day(n)
           /\ Day(m) = Day(n) => m % PerDay <= n % PerDay
           /\ Day(m) = Day(n) /\ m < n => m % PerDay < n % PerDay
  <1>1. PerDay \in Nat BY FeedAssumption
  <1> DEFINE a == Day(m)
             b == Day(n)
             x == m % PerDay
             y == n % PerDay
             pa == PerDay * a
             pb == PerDay * b
  <1>2. /\ m \in Nat /\ n \in Nat /\ a \in Nat /\ b \in Nat
        /\ x \in 0..(PerDay - 1) /\ y \in 0..(PerDay - 1)
        /\ m = pa + x /\ n = pb + y /\ pa \in Int /\ pb \in Int
    BY <1>1, DayParts
  <1>3. b < a => pb + PerDay <= pa BY <1>1, <1>2, TimesGrows
  <1>4. a = b => pa = pb OBVIOUS
  <1> HIDE DEF a, b, x, y, pa, pb
  <1>5. a <= b BY <1>1, <1>2, <1>3
  <1>6. a = b => x <= y /\ (m < n => x < y) BY <1>2, <1>4
  <1> QED BY <1>5, <1>6 DEF a, b, x, y

LEMMA DayType ==
    ASSUME NEW m \in Minutes
    PROVE  Day(m) \in 0..(Days - 1)
  <1>1. PerDay \in Nat /\ Days \in Nat BY FeedAssumption
  <1> DEFINE d == Day(m)
             x == m % PerDay
             pd == PerDay * d
             all == PerDay * Days
  <1>2. d \in Nat /\ m \in Nat /\ x \in Nat /\ m = pd + x /\ pd \in Int /\ all \in Int /\ m < all
    BY <1>1, DayParts, AllMinutesType DEF AllMinutes
  <1>3. Days < d => all + PerDay <= pd BY <1>1, <1>2, TimesGrows
  <1>4. Days = d => all = pd OBVIOUS
  <1> HIDE DEF d, x, pd, all
  <1>5. d < Days BY <1>1, <1>2, <1>3, <1>4
  <1> QED BY <1>1, <1>2, <1>5 DEF d

\* After the first minute of a day all are regular.
LEMMA LaterIsRegular ==
    ASSUME NEW m \in Minutes, NEW n \in Minutes, m < n, Day(m) = Day(n)
    PROVE  Regular(n)
  <1>1. m % PerDay < n % PerDay /\ m % PerDay \in Nat BY DaysInOrder, DayParts
  <1>2. n % PerDay \in Nat BY DayParts
  <1> QED BY <1>1, <1>2 DEF Regular

LEMMA EarlierDay ==
    ASSUME NEW m \in Minutes, NEW n \in Minutes, Day(m) < Day(n)
    PROVE  m < n
  <1>1. n <= m => Day(n) <= Day(m) BY DaysInOrder
  <1>2. m \in Int /\ n \in Int /\ Day(m) \in Int /\ Day(n) \in Int BY DayParts
  <1> QED BY <1>1, <1>2

----
\* Types.

DayOrNone == 0..(Days - 1) \cup {None}

Seen == [day: DayOrNone, opened: Nat, leaked: Nat, top: Nat, orderly: BOOLEAN, whole: BOOLEAN]

\* The cumulative volume from which the session is counted.
Base == seen.opened - seen.leaked

HistoryTypeOK ==
    /\ prior \in [day: DayOrNone, cum: Nat]
    /\ trade \in [minute: Minutes \cup {None}, connection: 0..connection]
    /\ phase = "open" => connection > 0
    /\ trade.connection > 0 => trade.minute \in Minutes
    /\ disk \in Rows
    /\ seen \in Seen
    /\ tick.day \in DayOrNone /\ tick.bar \in Bar \cup {NoBar}
    /\ settled.day \in DayOrNone

TypeInv == FeedTypeOK /\ HistoryTypeOK

\* Where the element that is at j after i was removed was before.
From(i, j) == IF j < i THEN j ELSE j + 1

LEMMA RemoveFacts ==
    ASSUME NEW S, NEW s \in Seq(S), NEW i \in DOMAIN s
    PROVE  /\ RemoveAt(s, i) \in Seq(S) /\ Len(RemoveAt(s, i)) = Len(s) - 1
           /\ \A j \in DOMAIN RemoveAt(s, i) :
                  /\ j \in Int /\ From(i, j) \in DOMAIN s /\ From(i, j) # i
                  /\ RemoveAt(s, i)[j] = s[From(i, j)]
  <1> DEFINE a == SubSeq(s, 1, i - 1)
             b == SubSeq(s, i + 1, Len(s))
             n == Len(s)
  <1>1. n \in Nat /\ DOMAIN s = 1..n /\ i \in 1..n BY LenProperties
  <1>2. /\ a \in Seq(S) /\ Len(a) = i - 1 /\ \A j \in 1..(i - 1) : a[j] = s[j]
    <2>1. \A j \in 1..(i - 1) : j \in 1..n BY <1>1
    <2>2. IF 1 <= i - 1 THEN Len(a) = i - 1 ELSE Len(a) = 0
      BY <1>1, <2>1, SubSeqProperties
    <2>3. a \in Seq(S) /\ \A j \in 1..Len(a) : a[j] = s[j]
      BY <1>1, <2>1, SubSeqProperties
    <2>4. Len(a) = i - 1 BY <1>1, <2>2
    <2> QED BY <2>3, <2>4
  <1>3. /\ b \in Seq(S) /\ Len(b) = n - i /\ \A j \in 1..(n - i) : b[j] = s[i + j]
    <2>1. \A j \in (i + 1)..n : j \in 1..n BY <1>1
    <2>2. IF i + 1 <= n THEN Len(b) = n - (i + 1) + 1 ELSE Len(b) = 0
      BY <1>1, <2>1, SubSeqProperties
    <2>3. b \in Seq(S) /\ \A j \in 1..Len(b) : b[j] = s[(i + 1) + j - 1]
      BY <1>1, <2>1, SubSeqProperties
    <2>4. Len(b) = n - i BY <1>1, <2>2
    <2>5. \A j \in 1..(n - i) : (i + 1) + j - 1 = i + j BY <1>1
    <2> QED BY <2>3, <2>4, <2>5
  <1> HIDE DEF a, b, n
  <1> DEFINE r == a \o b
  <1>4. /\ r \in Seq(S) /\ Len(r) = (i - 1) + (n - i)
        /\ \A j \in 1..Len(r) : r[j] = IF j <= i - 1 THEN a[j] ELSE b[j - (i - 1)]
    <2>1. /\ r \in Seq(S) /\ Len(r) = Len(a) + Len(b)
          /\ \A j \in 1..(Len(a) + Len(b)) :
                 r[j] = IF j <= Len(a) THEN a[j] ELSE b[j - Len(a)]
      BY <1>2, <1>3, ConcatProperties
    <2> QED BY <1>2, <1>3, <2>1
  <1>5. DOMAIN r = 1..(n - 1) /\ Len(r) = n - 1 BY <1>1, <1>4, LenProperties
  <1> HIDE DEF r
  <1>6. ASSUME NEW j \in 1..(n - 1)
        PROVE  r[j] = IF j < i THEN s[j] ELSE s[j + 1]
    <2>1. CASE j < i BY <1>1, <1>2, <1>4, <1>5, <2>1
    <2>2. CASE ~(j < i)
      <3>1. j - (i - 1) \in 1..(n - i) /\ i + (j - (i - 1)) = j + 1 BY <1>1, <2>2
      <3>2. ~(j <= i - 1) BY <1>1, <2>2
      <3> QED BY <1>3, <1>4, <1>5, <2>2, <3>1, <3>2
    <2> QED BY <2>1, <2>2
  <1>7. RemoveAt(s, i) = r BY DEF RemoveAt, r, a, b
  <1>8. ASSUME NEW j \in 1..(n - 1)
        PROVE  /\ j \in Int /\ From(i, j) \in 1..n /\ From(i, j) # i
               /\ r[j] = s[From(i, j)]
    BY <1>1, <1>6 DEF From
  <1> QED BY <1>1, <1>4, <1>5, <1>7, <1>8 DEF n

\* What a trade of minute m makes of the bars: it begins the first bar of the process,
\* completes the current one or is merged into it.
Begins(m, q) ==
    /\ current = NoBar
    /\ completed' = completed /\ disk' = disk
    /\ current' = [start |-> m, volume |-> q]
Turns(m, q) ==
    /\ current \in Bar /\ Completes(m)
    /\ completed' = Append(completed, current) /\ disk' = save(disk, current)
    /\ current' = [start |-> m, volume |-> q]
Merges(m, q) ==
    /\ current \in Bar /\ session = Day(m) /\ m <= current.start
    /\ completed' = completed /\ disk' = disk
    /\ current' = [start |-> current.start, volume |-> current.volume + q]
Counted(m, q) ==
    /\ Regular(m) /\ session' = Day(m) /\ volume' = SessionStart(m) + q
    /\ Begins(m, q) \/ Turns(m, q) \/ Merges(m, q)
Ignored(m) == ~Regular(m) /\ UNCHANGED <<calculator, disk>>

LEMMA NoBarFacts == NoBar \notin Bar /\ NoBar.start = -1 /\ NoBar.volume = 0
  BY AllMinutesType DEF NoBar, Bar, None

LEMMA RecordFacts ==
    ASSUME TypeInv, NEW i \in DOMAIN pending
    PROVE  /\ pending[i] \in Record /\ pending[i].minute \in Minutes
           /\ pending[i].cum \in Nat /\ pending[i].size \in Nat /\ pending[i].size > 0
           /\ Quantity(pending[i]) \in Nat
           /\ Day(pending[i].minute) \in 0..(Days - 1)
  <1> DEFINE r == pending[i]
  <1>1. r \in Record BY LenProperties, ElementOfSeq DEF TypeInv, FeedTypeOK
  <1>2. /\ r.minute \in Minutes /\ r.cum \in Nat /\ r.size \in Sizes
        /\ r.size \in Nat /\ r.size > 0
    <2> HIDE DEF r
    <2>1. r.minute \in Minutes /\ r.cum \in Nat /\ r.size \in Sizes BY <1>1 DEF Record
    <2>2. \A x \in Sizes : x \in Nat /\ x > 0 BY FeedAssumption
    <2> QED BY <2>1, <2>2
  <1>3. prior.cum \in Nat BY DEF TypeInv, HistoryTypeOK
  <1>4. Quantity(r) \in Nat BY <1>2, <1>3 DEF Quantity
  <1> QED BY <1>1, <1>2, <1>4, DayType

LEMMA TradeCases ==
    ASSUME TypeInv, NEW i \in DOMAIN pending, TradeArrives(i)
    PROVE  \/ Counted(pending[i].minute, Quantity(pending[i]))
           \/ Ignored(pending[i].minute)
  <1> DEFINE m == pending[i].minute
             q == Quantity(pending[i])
  <1>1. /\ m \in Minutes /\ q \in Nat /\ m \in Int /\ Day(m) \in Int BY RecordFacts, DayParts
  <1>2. /\ on_trade(m, q)
        /\ disk' = IF Regular(m) /\ Completes(m) THEN save(disk, current) ELSE disk
    BY DEF TradeArrives
  <1>3. /\ current \in Bar \cup {NoBar} /\ session \in Int
        /\ current \in Bar => current.start \in Int /\ current.volume \in Nat
    BY DayParts, NoBarFacts DEF TypeInv, FeedTypeOK, Bar, None
  <1>4. current \in Bar => current = [start |-> current.start, volume |-> current.volume]
    BY DEF Bar
  <1> HIDE DEF m, q
  <1>5. CASE ~Regular(m) BY <1>2, <1>5 DEF on_trade, Ignored, calculator, m
  <1>6. CASE Regular(m)
    <2>1. /\ session' = Day(m) /\ completed' = CompletedAfter(m)
          /\ volume' = SessionStart(m) + q
          /\ current' = [(IF current = NoBar \/ Completes(m) THEN [start |-> m, volume |-> 0]
                          ELSE current) EXCEPT !.volume = @ + q]
      BY <1>2, <1>6 DEF on_trade
    <2>2. [[start |-> m, volume |-> 0] EXCEPT !.volume = @ + q] = [start |-> m, volume |-> q]
      BY <1>1
    <2>3. CASE current = NoBar
      <3>1. ~Completes(m) BY <2>3 DEF Completes
      <3>2. Begins(m, q) BY <1>2, <2>1, <2>2, <2>3, <3>1 DEF Begins, CompletedAfter
      <3> QED BY <1>6, <2>1, <3>2 DEF Counted, m, q
    <2>4. CASE current # NoBar /\ Completes(m)
      <3>1. Turns(m, q) BY <1>2, <1>3, <1>6, <2>1, <2>2, <2>4 DEF Turns, CompletedAfter
      <3> QED BY <1>6, <2>1, <3>1 DEF Counted, m, q
    <2>5. CASE current # NoBar /\ ~Completes(m)
      <3>1. session = Day(m) /\ m <= current.start /\ current \in Bar
        BY <1>1, <1>3, <2>5 DEF Completes
      <3>2. current' = [start |-> current.start, volume |-> current.volume + q]
        <4>1. current' = [current EXCEPT !.volume = @ + q] BY <2>1, <2>5
        <4> QED BY <1>4, <3>1, <4>1
      <3>3. Merges(m, q) BY <1>2, <2>1, <2>5, <3>1, <3>2 DEF Merges, CompletedAfter
      <3> QED BY <1>6, <2>1, <3>3 DEF Counted, m, q
    <2> QED BY <2>3, <2>4, <2>5
  <1> QED BY <1>5, <1>6

LEMMA CountedTypes ==
    ASSUME TypeInv, NEW m \in Minutes, NEW q \in Nat, Counted(m, q)
    PROVE  /\ session' \in 0..(Days - 1) /\ completed' \in Seq(Bar) /\ current' \in Bar
           /\ volume' \in Nat /\ disk' \in Rows
           /\ CompletedAfter(m) = completed'
  <1>1. completed \in Seq(Bar) /\ disk \in Rows /\ volume \in Nat
    BY DEF TypeInv, FeedTypeOK, HistoryTypeOK
  <1>2. completed' \in Seq(Bar) /\ current' \in Bar /\ disk' \in Rows
    <2>1. CASE Begins(m, q) BY <1>1, <2>1 DEF Begins, Bar
    <2>2. CASE Turns(m, q)
      <3>1. completed' \in Seq(Bar) /\ current' \in Bar
        BY <1>1, <2>2, AppendProperties DEF Turns, Bar
      <3>2. disk' \in Rows BY <1>1, <2>2 DEF Turns, save, Rows, Bar
      <3> QED BY <3>1, <3>2
    <2>3. CASE Merges(m, q) BY <1>1, <2>3 DEF Merges, Bar
    <2> QED BY <2>1, <2>2, <2>3 DEF Counted
  <1>3. CompletedAfter(m) = completed'
    <2>1. CASE Begins(m, q) BY <2>1 DEF Begins, CompletedAfter, Completes
    <2>2. CASE Turns(m, q) BY <2>2 DEF Turns, CompletedAfter
    <2>3. CASE Merges(m, q)
      <3>1. ~Completes(m)
        <4>1. m \in Int /\ current.start \in Int BY <2>3, DayParts DEF Merges, Bar
        <4> QED BY <2>3, <4>1 DEF Merges, Completes
      <3> QED BY <2>3, <3>1 DEF Merges, CompletedAfter
    <2> QED BY <2>1, <2>2, <2>3 DEF Counted
  <1>4. volume' \in Nat
    <2>1. SessionStart(m) \in Nat BY <1>1, <1>2, <1>3, VolumeType DEF SessionStart
    <2> QED BY <2>1 DEF Counted
  <1> QED BY <1>2, <1>3, <1>4, DayType DEF Counted

\* A step posts a tick or it does not.
Posts(theTrade) ==
    /\ Regular(theTrade.minute) /\ theTrade.connection = connection
    /\ tick' = Tick(theTrade.minute)
    /\ settled' = IF tick'.range = {} THEN settled ELSE [day |-> tick'.day, range |-> tick'.range]

\* The opening range posted last is the one of the tick posted last, if that has one.
RangePosted == tick.range # {} => settled = [day |-> tick.day, range |-> tick.range]

LEMMA EmitCases ==
    ASSUME RangePosted, NEW theTrade, NEW theQuote, Emit(theTrade, theQuote)
    PROVE  /\ sequence' \in {sequence, sequence + 1}
           /\ UNCHANGED <<tick, settled>> \/ Posts(theTrade)
           /\ RangePosted'
  <1>1. CASE UNCHANGED <<sequence, tick, settled>> BY <1>1 DEF RangePosted
  <1>2. CASE /\ Joins(theTrade, theQuote) /\ sequence' = sequence + 1
             /\ tick' = IF Regular(theTrade.minute) THEN Tick(theTrade.minute) ELSE tick
             /\ settled' = IF tick'.range = {} THEN settled
                           ELSE [day |-> tick'.day, range |-> tick'.range]
    <2>1. RangePosted' BY <1>2 DEF RangePosted
    <2>2. CASE Regular(theTrade.minute) BY <1>2, <2>1, <2>2 DEF Posts, Joins
    <2>3. CASE ~Regular(theTrade.minute) BY <1>2, <2>1, <2>3 DEF RangePosted
    <2> QED BY <2>2, <2>3
  <1> QED BY <1>1, <1>2 DEF Emit

LEMMA CountsType ==
    ASSUME TypeInv, NEW i \in DOMAIN pending,
           \/ Counts(pending[i]) \/ Loses(pending[i])
           \/ seen' = [seen EXCEPT !.whole = FALSE]
    PROVE  seen' \in Seen
  <1> DEFINE r == pending[i]
             S == Seen
  <1>1. /\ r.cum \in Nat /\ Day(r.minute) \in DayOrNone /\ seen \in S /\ opened \in Nat
        /\ prior.cum \in Nat /\ seen.top \in Nat
    <2>1. r.cum \in Nat /\ Day(r.minute) \in DayOrNone BY RecordFacts DEF DayOrNone
    <2>2. opened \in Nat BY DEF TypeInv, FeedTypeOK
    <2>3. seen \in S /\ prior.cum \in Nat BY DEF TypeInv, HistoryTypeOK
    <2>4. seen.top \in Nat BY <2>3 DEF Seen
    <2> QED BY <2>1, <2>2, <2>3, <2>4
  <1> DEFINE whole == IF prior.day = Day(r.minute) THEN prior.cum <= opened
                      ELSE r.cum - r.size = opened
  <1> HIDE DEF r
  <1>2. Higher(seen.top, r.cum) \in Nat BY <1>1 DEF Higher
  <1>3. After(r) \in S
    <2>1. (seen.orderly /\ r.cum >= seen.top) \in BOOLEAN OBVIOUS
    <2> QED BY <1>1, <1>2, <2>1 DEF After, Seen
  <1>4. [day |-> Day(r.minute), opened |-> opened, leaked |-> Leaked(r), top |-> r.cum,
         orderly |-> TRUE, whole |-> whole] \in S
    <2>1. Leaked(r) \in Nat BY <1>1 DEF Leaked
    <2>2. whole \in BOOLEAN
      <3>1. CASE prior.day = Day(r.minute)
        <4>1. whole = (prior.cum <= opened) BY <3>1
        <4>2. (prior.cum <= opened) \in BOOLEAN BY <1>1
        <4> HIDE DEF whole
        <4> QED BY <4>1, <4>2
      <3>2. CASE prior.day # Day(r.minute)
        <4>1. whole = (r.cum - r.size = opened) BY <3>2
        <4>2. (r.cum - r.size = opened) \in BOOLEAN OBVIOUS
        <4> HIDE DEF whole
        <4> QED BY <4>1, <4>2
      <3> QED BY <3>1, <3>2
    <2> HIDE DEF whole
    <2> QED BY <1>1, <2>1, <2>2 DEF Seen
  <1>5. CASE Counts(r) BY <1>3, <1>4, <1>5 DEF Counts
  <1>6. CASE Loses(r) BY <1>3, <1>6 DEF Loses, Seen
  <1>7. CASE seen' = [seen EXCEPT !.whole = FALSE] BY <1>1, <1>7 DEF Seen
  <1> QED BY <1>5, <1>6, <1>7 DEF r

\* Losing a record changes of the history that it is whole.
LEMMA NotWhole ==
    ASSUME NEW a \in Seen
    PROVE  /\ [a EXCEPT !.whole = FALSE] \in Seen
           /\ [a EXCEPT !.whole = FALSE].day = a.day
           /\ [a EXCEPT !.whole = FALSE].opened = a.opened
           /\ [a EXCEPT !.whole = FALSE].leaked = a.leaked
           /\ [a EXCEPT !.whole = FALSE].top = a.top
           /\ [a EXCEPT !.whole = FALSE].orderly = a.orderly
           /\ ~[a EXCEPT !.whole = FALSE].whole
  BY DEF Seen

\* A step of the stream alone.
StreamStep == Launched \/ ReadSubscriptions \/ Connected \/ Refresh \/ BackoffEnds

LEMMA StreamType ==
    ASSUME TypeInv, StreamStep
    PROVE  TypeInv'
  <1>1. UNCHANGED <<exchange, plans, bridge, calculator, disk, tick, faults, history>>
    BY DEF StreamStep, Launched, ReadSubscriptions, Connected, Refresh, BackoffEnds, OnlyStream
  <1>2. connection \in Nat /\ phase \in {"top", "connecting", "open", "backoff", "dead"}
        /\ (phase \in {"connecting", "open"} <=> subscribed # {}) /\ wanted \subseteq Symbols
        /\ subscribed \subseteq Symbols
    BY DEF TypeInv, FeedTypeOK
  <1>3. /\ connection' \in Nat /\ connection' >= connection
        /\ phase' \in {"top", "connecting", "open", "backoff", "dead"}
        /\ (phase' \in {"connecting", "open"} <=> subscribed' # {})
        /\ subscribed' \subseteq Symbols
        /\ phase' = "open" => connection' > 0
    BY <1>2 DEF StreamStep, Launched, ReadSubscriptions, Connected, Refresh, BackoffEnds,
                NextConnection
  <1>4. FeedTypeOK'
    <2>1. quote \in 0..connection' BY <1>2, <1>3 DEF TypeInv, FeedTypeOK
    <2> QED BY <1>1, <1>3, <2>1
            DEF TypeInv, FeedTypeOK, exchange, plans, bridge, calculator
  <1>5. HistoryTypeOK'
    <2>1. trade \in [minute: Minutes \cup {None}, connection: 0..connection']
      BY <1>2, <1>3 DEF TypeInv, HistoryTypeOK
    <2> QED BY <1>1, <1>3, <2>1 DEF TypeInv, HistoryTypeOK, bridge, history
  <1> QED BY <1>4, <1>5 DEF TypeInv

\* A post keeps the types of tick and range.
LEMMA PostType ==
    ASSUME NEW theTrade, theTrade.minute \in Minutes, completed' \in Seq(Bar), Posts(theTrade),
           settled.day \in DayOrNone
    PROVE  tick'.day \in DayOrNone /\ tick'.bar \in Bar \cup {NoBar} /\ settled'.day \in DayOrNone
  <1>1. tick'.day \in DayOrNone /\ tick'.bar \in Bar \cup {NoBar}
    <2>1. tick'.day = Day(theTrade.minute)
          /\ tick'.bar = IF completed' = <<>> THEN NoBar ELSE Last(completed')
      BY DEF Posts, Tick
    <2>2. completed' # <<>> => Last(completed') \in Bar
      BY LenProperties, ElementOfSeq, EmptySeq DEF Last
    <2> QED BY <2>1, <2>2, DayType DEF DayOrNone
  <1>2. settled'.day \in {settled.day, tick'.day} BY DEF Posts
  <1> QED BY <1>1, <1>2

LEMMA TradeType ==
    ASSUME TypeInv, RangePosted, NEW i \in DOMAIN pending, TradeArrives(i)
    PROVE  TypeInv'
  <1> DEFINE r == pending[i]
             t == [minute |-> r.minute, connection |-> connection]
  <1>1. /\ r.minute \in Minutes /\ r.cum \in Nat /\ Quantity(r) \in Nat
        /\ Day(r.minute) \in 0..(Days - 1)
    BY RecordFacts
  <1>2. /\ session' \in 0..(Days - 1) \cup {None} /\ completed' \in Seq(Bar)
        /\ current' \in Bar \cup {NoBar} /\ volume' \in Nat /\ disk' \in Rows
    <2>1. CASE Counted(r.minute, Quantity(r)) BY <1>1, <2>1, CountedTypes
    <2>2. CASE Ignored(r.minute)
      BY <2>2 DEF Ignored, calculator, TypeInv, FeedTypeOK, HistoryTypeOK
    <2> QED BY <2>1, <2>2, TradeCases
  <1>3. /\ phase = "open" /\ UNCHANGED <<now, cum, trades, opened, plans, stream, quote, faults>>
        /\ prior' = [day |-> Day(r.minute), cum |-> r.cum] /\ trade' = t
        /\ pending' = RemoveAt(pending, i) /\ Emit(t, quote) /\ Counts(r)
    BY DEF TradeArrives, Publishes
  <1>4. pending' \in Seq(Record) /\ Len(pending') <= MaxPending
    <2>1. pending' \in Seq(Record) /\ Len(pending') = Len(pending) - 1
      BY <1>3, RemoveFacts DEF TypeInv, FeedTypeOK
    <2>2. Len(pending) \in Nat /\ Len(pending) <= MaxPending /\ MaxPending \in Nat
      BY LenProperties, FeedAssumption DEF TypeInv, FeedTypeOK
    <2> QED BY <2>1, <2>2
  <1>5. /\ sequence' \in Nat /\ tick'.day \in DayOrNone /\ tick'.bar \in Bar \cup {NoBar}
        /\ settled'.day \in DayOrNone
    <2>1. /\ sequence \in Nat /\ tick.day \in DayOrNone /\ tick.bar \in Bar \cup {NoBar}
          /\ settled.day \in DayOrNone
      BY DEF TypeInv, FeedTypeOK, HistoryTypeOK
    <2>2. /\ sequence' \in {sequence, sequence + 1}
          /\ UNCHANGED <<tick, settled>> \/ Posts(t)
      BY <1>3, EmitCases
    <2>3. t.minute \in Minutes BY <1>1
    <2> HIDE DEF t
    <2> QED BY <1>2, <2>1, <2>2, <2>3, PostType
  <1> HIDE DEF r
  <1>6. FeedTypeOK'
    BY <1>2, <1>3, <1>4, <1>5 DEF TypeInv, FeedTypeOK, plans, stream
  <1>7. HistoryTypeOK'
    <2>1. prior' \in [day: DayOrNone, cum: Nat] BY <1>1, <1>3 DEF DayOrNone
    <2>2. /\ connection' = connection /\ connection \in Nat /\ connection > 0
          /\ phase' = phase
      BY <1>3 DEF TypeInv, FeedTypeOK, HistoryTypeOK, stream
    <2>3. trade' \in [minute: Minutes \cup {None}, connection: 0..connection']
          /\ trade'.minute \in Minutes
      BY <1>1, <1>3, <2>2
    <2>4. seen' \in Seen
      BY <1>3, CountsType DEF r
    <2> QED BY <1>2, <1>5, <2>1, <2>2, <2>3, <2>4 DEF HistoryTypeOK
  <1> QED BY <1>6, <1>7 DEF TypeInv

LEMMA QuoteType ==
    ASSUME TypeInv, RangePosted, QuoteArrives
    PROVE  TypeInv'
  <1>1. /\ phase = "open" /\ quote' = connection /\ Emit(trade, connection)
        /\ UNCHANGED <<prior, trade, calculator, seen, exchange, plans, stream, disk, faults>>
    BY DEF QuoteArrives
  <1>2. connection \in Nat /\ connection > 0 BY <1>1 DEF TypeInv, FeedTypeOK, HistoryTypeOK
  <1>3. /\ sequence' \in Nat /\ tick'.day \in DayOrNone /\ tick'.bar \in Bar \cup {NoBar}
        /\ settled'.day \in DayOrNone
    <2>1. /\ sequence \in Nat /\ tick.day \in DayOrNone /\ tick.bar \in Bar \cup {NoBar}
          /\ settled.day \in DayOrNone /\ completed' \in Seq(Bar)
      BY <1>1 DEF TypeInv, FeedTypeOK, HistoryTypeOK, calculator
    <2>2. /\ sequence' \in {sequence, sequence + 1}
          /\ UNCHANGED <<tick, settled>> \/ Posts(trade)
      BY <1>1, EmitCases
    <2>3. Posts(trade) => trade.minute \in Minutes
      BY <1>2 DEF Posts, TypeInv, HistoryTypeOK
    <2> QED BY <2>1, <2>2, <2>3, PostType
  <1>4. FeedTypeOK'
    <2>1. quote' \in 0..connection' BY <1>1, <1>2 DEF stream
    <2> QED BY <1>1, <1>3, <2>1
            DEF TypeInv, FeedTypeOK, exchange, plans, stream, calculator
  <1>5. HistoryTypeOK' BY <1>1, <1>3 DEF TypeInv, HistoryTypeOK, stream
  <1> QED BY <1>4, <1>5 DEF TypeInv

\* A new process.
LEMMA ForgetsType ==
    ASSUME TypeInv, NEW rows \in Rows, Forgets(rows)
    PROVE  /\ phase' = "dead" /\ subscribed' = {} /\ connection' = connection
           /\ prior' = NoPrior /\ trade' = NoTrade /\ quote' = 0 /\ sequence' = 0
           /\ session' = None /\ completed' = load(rows) /\ completed' \in Seq(Bar)
           /\ current' = NoBar /\ volume' = 0
  BY LoadFacts DEF Forgets

\* A step that ends the process or the connection.
EndStep == Stops \/ Breaks \/ \E i \in DOMAIN pending : SaveFails(i) \/ StopsAfterSave(i)

LEMMA EndType ==
    ASSUME TypeInv, EndStep
    PROVE  TypeInv'
  <1>1. faults' \in 0..MaxFaults
    <2>1. Fault BY DEF EndStep, Stops, Breaks, SaveFails, StopsAfterSave
    <2>2. faults \in 0..MaxFaults /\ MaxFaults \in Nat
      BY FeedAssumption DEF TypeInv, FeedTypeOK
    <2> QED BY <2>1, <2>2 DEF Fault
  <1>2. ASSUME NEW rows \in Rows, Forgets(rows), disk' = rows,
               UNCHANGED <<now, cum, trades, opened, plans, tick, settled>>,
               pending' \in Seq(Record), Len(pending') <= MaxPending,
               seen' \in Seen
        PROVE  TypeInv'
    <2>1. connection \in Nat BY DEF TypeInv, FeedTypeOK
    <2>2. FeedTypeOK'
      BY <1>1, <1>2, <2>1, ForgetsType DEF TypeInv, FeedTypeOK, plans
    <2>3. HistoryTypeOK'
      BY <1>2, <2>1, ForgetsType
         DEF TypeInv, HistoryTypeOK, NoPrior, NoTrade, DayOrNone
    <2> QED BY <2>2, <2>3 DEF TypeInv
  <1>3. CASE Stops
    <2>1. /\ Forgets(disk) /\ seen' = [seen EXCEPT !.whole = FALSE]
          /\ UNCHANGED <<exchange, plans, disk, tick, settled>>
      BY <1>3 DEF Stops
    <2>2. /\ disk \in Rows /\ pending \in Seq(Record) /\ Len(pending) <= MaxPending
          /\ seen' \in Seen
      BY <2>1, NotWhole DEF TypeInv, FeedTypeOK, HistoryTypeOK
    <2> QED BY <1>2, <2>1, <2>2 DEF exchange
  <1>4. CASE Breaks
    BY <1>1, <1>4 DEF Breaks, TypeInv, FeedTypeOK, HistoryTypeOK, exchange, plans, bridge,
                      calculator, history
  <1>5. ASSUME NEW i \in DOMAIN pending, Publishes(i)
        PROVE  pending' \in Seq(Record) /\ Len(pending') <= MaxPending
    <2>1. pending' \in Seq(Record) /\ Len(pending') = Len(pending) - 1
      BY <1>5, RemoveFacts DEF TypeInv, FeedTypeOK, Publishes
    <2>2. Len(pending) \in Nat /\ Len(pending) <= MaxPending /\ MaxPending \in Nat
      BY LenProperties, FeedAssumption DEF TypeInv, FeedTypeOK
    <2> QED BY <2>1, <2>2
  <1>6. ASSUME NEW i \in DOMAIN pending, SaveFails(i) PROVE TypeInv'
    <2>1. /\ Publishes(i) /\ Loses(pending[i])
          /\ prior' = [day |-> Day(pending[i].minute), cum |-> pending[i].cum]
          /\ trade' = [minute |-> pending[i].minute, connection |-> connection]
          /\ phase' = "backoff" /\ subscribed' = {} /\ phase = "open"
          /\ UNCHANGED <<now, cum, trades, opened, plans>>
          /\ UNCHANGED <<connection, quote, sequence, calculator, disk, tick, settled>>
      BY <1>6 DEF SaveFails, Publishes
    <2>2. /\ pending[i].minute \in Minutes /\ pending[i].cum \in Nat
          /\ Day(pending[i].minute) \in 0..(Days - 1)
      BY RecordFacts
    <2>3. FeedTypeOK'
      BY <1>1, <1>5, <2>1 DEF TypeInv, FeedTypeOK, plans, calculator
    <2>4. HistoryTypeOK'
      <3>1. seen' \in Seen
        BY <2>1, CountsType
      <3>2. connection \in Nat BY DEF TypeInv, FeedTypeOK
      <3> QED BY <2>1, <2>2, <3>1, <3>2 DEF TypeInv, HistoryTypeOK, DayOrNone
    <2> QED BY <2>3, <2>4 DEF TypeInv
  <1>7. ASSUME NEW i \in DOMAIN pending, StopsAfterSave(i) PROVE TypeInv'
    <2>1. /\ Publishes(i) /\ Loses(pending[i]) /\ Completes(pending[i].minute)
          /\ disk' = save(disk, current) /\ Forgets(disk')
          /\ UNCHANGED <<now, cum, trades, opened, plans>> /\ UNCHANGED <<tick, settled>>
      BY <1>7 DEF StopsAfterSave, Publishes
    <2>2. disk' \in Rows
      <3>1. current \in Bar /\ disk \in Rows
        BY <2>1 DEF Completes, TypeInv, FeedTypeOK, HistoryTypeOK
      <3> QED BY <2>1, <3>1 DEF save, Rows, Bar
    <2>3. seen' \in Seen
      BY <2>1, CountsType
    <2> QED BY <1>2, <1>5, <2>1, <2>2, <2>3
  <1> QED BY <1>3, <1>4, <1>6, <1>7 DEF EndStep

\* A step outside the process, or none.
WorldStep == \/ \E size \in Sizes : Prints(size)
             \/ MinutePasses
             \/ \E symbol \in Symbols : PlansChange(symbol)
             \/ \E i \in DOMAIN pending : Missed(i)
             \/ UNCHANGED vars

LEMMA WorldKeeps ==
    ASSUME WorldStep
    PROVE  /\ UNCHANGED <<phase, subscribed, connection, prior, trade, quote, sequence, session,
                          completed, current, volume, disk, tick, faults, seen, settled>>
  BY DEF WorldStep, Prints, MinutePasses, PlansChange, Missed, vars, stream, bridge, calculator,
         history

LEMMA WorldType ==
    ASSUME TypeInv, WorldStep
    PROVE  TypeInv'
  <1>1. /\ now' \in Minutes /\ cum' \in Nat /\ trades' \in 0..MaxTrades /\ opened' \in 0..cum'
        /\ pending' \in Seq(Record) /\ Len(pending') <= MaxPending
        /\ wanted' \subseteq Symbols /\ changes' \in 0..MaxChanges
    <2>1. /\ now \in Minutes /\ cum \in Nat /\ trades \in 0..MaxTrades /\ opened \in 0..cum
          /\ pending \in Seq(Record) /\ Len(pending) <= MaxPending /\ Len(pending) \in Nat
          /\ wanted \subseteq Symbols /\ changes \in 0..MaxChanges
          /\ MaxTrades \in Nat /\ MaxPending \in Nat /\ MaxChanges \in Nat
      BY FeedAssumption, LenProperties DEF TypeInv, FeedTypeOK
    <2>2. ASSUME NEW size \in Sizes, Prints(size)
          PROVE  /\ cum' \in Nat /\ trades' \in 0..MaxTrades /\ opened' \in 0..cum'
                 /\ pending' \in Seq(Record) /\ Len(pending') <= MaxPending
      <3>1. size \in Nat BY FeedAssumption
      <3>2. [minute |-> now, cum |-> cum + size, size |-> size] \in Record
        BY <2>1, <2>2, <3>1 DEF Record
      <3>3. pending' \in Seq(Record) /\ Len(pending') = Len(pending) + 1
        BY <2>1, <2>2, <3>2, AppendProperties DEF Prints
      <3> QED BY <2>1, <2>2, <3>1, <3>3 DEF Prints
    <2>3. ASSUME NEW i \in DOMAIN pending, Missed(i)
          PROVE  pending' \in Seq(Record) /\ Len(pending') <= MaxPending
      <3>1. pending' \in Seq(Record) /\ Len(pending') = Len(pending) - 1
        BY <2>1, <2>3, RemoveFacts DEF Missed
      <3> QED BY <2>1, <3>1
    <2>4. MinutePasses => now' \in Minutes /\ cum' \in Nat /\ opened' \in 0..cum'
      BY <2>1 DEF MinutePasses
    <2>5. ASSUME NEW symbol \in Symbols, PlansChange(symbol)
          PROVE  wanted' \subseteq Symbols /\ changes' \in 0..MaxChanges
      BY <2>1, <2>5 DEF PlansChange
    <2>6. CASE \E size \in Sizes : Prints(size) BY <2>1, <2>2, <2>6 DEF Prints, plans
    <2>7. CASE MinutePasses BY <2>1, <2>4, <2>7 DEF MinutePasses, plans
    <2>8. CASE \E symbol \in Symbols : PlansChange(symbol)
      BY <2>1, <2>5, <2>8 DEF PlansChange, exchange
    <2>9. CASE \E i \in DOMAIN pending : Missed(i) BY <2>1, <2>3, <2>9 DEF Missed, plans
    <2>10. CASE UNCHANGED vars BY <2>1, <2>10 DEF vars, exchange, plans
    <2> QED BY <2>6, <2>7, <2>8, <2>9, <2>10 DEF WorldStep
  <1>2. FeedTypeOK' BY <1>1, WorldKeeps DEF TypeInv, FeedTypeOK
  <1>3. HistoryTypeOK' BY WorldKeeps DEF TypeInv, HistoryTypeOK
  <1> QED BY <1>2, <1>3 DEF TypeInv

\* Every step of the specification is one of these.
LEMMA StepCases ==
    ASSUME [Next]_vars
    PROVE  \/ WorldStep \/ StreamStep \/ EndStep \/ QuoteArrives
           \/ \E i \in DOMAIN pending : TradeArrives(i)
  BY DEF Next, WorldStep, StreamStep, EndStep

LEMMA RangeStep ==
    ASSUME RangePosted, [Next]_vars
    PROVE  RangePosted'
  <1>1. CASE WorldStep \/ StreamStep \/ EndStep
    <2>1. UNCHANGED <<tick, settled>>
      BY <1>1, WorldKeeps
         DEF StreamStep, Launched, ReadSubscriptions, Connected, Refresh, BackoffEnds,
             OnlyStream, history, EndStep, Stops, Breaks, SaveFails, StopsAfterSave
    <2> QED BY <2>1 DEF RangePosted
  <1>2. CASE QuoteArrives BY <1>2, EmitCases DEF QuoteArrives
  <1>3. ASSUME NEW i \in DOMAIN pending, TradeArrives(i) PROVE RangePosted'
    BY <1>3, EmitCases DEF TradeArrives
  <1> QED BY <1>1, <1>2, <1>3, StepCases

LEMMA TypeStep ==
    ASSUME TypeInv, RangePosted, [Next]_vars
    PROVE  TypeInv'
  BY StepCases, WorldType, StreamType, EndType, QuoteType, TradeType

LEMMA TypeInit == Init => TypeInv /\ RangePosted
  <1> SUFFICES ASSUME Init PROVE TypeInv /\ RangePosted OBVIOUS
  <1>1. 0 \in Minutes
    <2>1. PerDay \in Nat \ {0} /\ Days \in Nat \ {0} BY FeedAssumption
    <2>2. PerDay * Days # 0 BY <2>1
    <2> QED BY <2>2, AllMinutesType DEF AllMinutes
  <1>2. FeedTypeOK
    BY <1>1, FeedAssumption, EmptySeq DEF Init, FeedTypeOK
  <1>3. HistoryTypeOK
    <2>1. Unsaved \in Rows BY DEF Unsaved, Rows
    <2> QED BY <1>1, <2>1, FeedAssumption DEF Init, HistoryTypeOK, NoPrior, NoTrade, NoTick, DayOrNone, Seen
  <1>4. RangePosted BY DEF Init, RangePosted, NoTick
  <1> QED BY <1>2, <1>3, <1>4 DEF TypeInv

----
\* The order of trades and days.

\* Trades are published within their day; each adds to the volume of those before.
PendingInOrder ==
    /\ \A i \in DOMAIN pending :
           /\ pending[i].minute <= now /\ Day(pending[i].minute) = Day(now)
           /\ pending[i].cum <= cum
    /\ \A i, j \in DOMAIN pending :
           i < j => /\ pending[i].minute <= pending[j].minute
                    /\ pending[i].cum <= pending[j].cum - pending[j].size

\* Nothing is of a later day than the exchange; sessions are traded after the open.
DaysPass ==
    /\ prior.day <= Day(now) /\ seen.day <= Day(now)
    /\ seen.day = Day(now) => Regular(now) /\ seen.top <= cum
    /\ tick.day <= seen.day /\ settled.day <= seen.day

\* The current bar is of the session, the completed ones are not after it.
BarsOfSession ==
    /\ session = None <=> current = NoBar
    /\ session # None => /\ session = seen.day /\ Day(current.start) = session
                         /\ session <= prior.day
    /\ current.start <= now
    /\ \A i \in DOMAIN completed :
           completed[i].start < now /\ Day(completed[i].start) <= seen.day

\* A trade a tick can be made of is in the bars.
TradeCounted ==
    phase = "open" /\ trade.connection = connection /\ Regular(trade.minute) =>
        session = Day(trade.minute) /\ trade.minute <= current.start

\* Bars are of minutes after the open, and what is saved is not after the session.
RowsOfDays ==
    /\ current # NoBar => Regular(current.start)
    /\ \A m \in Minutes : disk[m] # None => Regular(m) /\ m < now /\ Day(m) <= seen.day

OrderInv ==
    /\ TypeInv /\ RangePosted
    /\ PendingInOrder /\ DaysPass /\ BarsOfSession /\ TradeCounted /\ DiskIsCompleted
    /\ RowsOfDays

\* The types that the steps below need of the state.
LEMMA Types ==
    ASSUME TypeInv
    PROVE  /\ now \in Minutes /\ now \in Nat /\ Day(now) \in Nat /\ cum \in Nat
           /\ pending \in Seq(Record) /\ completed \in Seq(Bar) /\ current \in Bar \cup {NoBar}
           /\ current.start \in Int /\ current.volume \in Nat
           /\ current \in Bar => /\ current.start \in Minutes /\ current.start \in Nat
                                 /\ Day(current.start) \in Nat
           /\ session \in Int /\ seen.day \in Int /\ prior.day \in Int /\ tick.day \in Int
           /\ settled.day \in Int /\ seen.top \in Nat /\ Base \in Int /\ prior.cum \in Nat
           /\ opened \in Nat
           /\ \A i \in DOMAIN completed :
                  /\ completed[i] \in Bar /\ completed[i].start \in Minutes
                  /\ completed[i].start \in Nat /\ Day(completed[i].start) \in Nat
                  /\ completed[i].volume \in Nat
           /\ \A i \in DOMAIN pending :
                  /\ pending[i].minute \in Minutes /\ pending[i].minute \in Nat
                  /\ Day(pending[i].minute) \in Nat
                  /\ pending[i].cum \in Nat /\ pending[i].size \in Nat /\ pending[i].size > 0
           /\ disk \in Rows /\ volume \in Nat
  <1>1. /\ now \in Minutes /\ cum \in Nat /\ pending \in Seq(Record) /\ completed \in Seq(Bar)
        /\ current \in Bar \cup {NoBar} /\ session \in 0..(Days - 1) \cup {None}
        /\ disk \in Rows /\ volume \in Nat /\ opened \in Nat
    BY DEF TypeInv, FeedTypeOK, HistoryTypeOK
  <1>2. /\ seen.day \in Int /\ prior.day \in Int /\ tick.day \in Int /\ settled.day \in Int
        /\ seen.top \in Nat /\ Base \in Int /\ prior.cum \in Nat
    BY DEF TypeInv, HistoryTypeOK, Seen, Base, DayOrNone, None
  <1>3. ASSUME NEW bar \in Bar
        PROVE  /\ bar.start \in Minutes /\ bar.start \in Nat /\ Day(bar.start) \in Nat
               /\ bar.volume \in Nat
    BY <1>3, DayParts DEF Bar
  <1>4. /\ current.start \in Int /\ current.volume \in Nat
        /\ current \in Bar => /\ current.start \in Minutes /\ current.start \in Nat
                              /\ Day(current.start) \in Nat
    BY <1>1, <1>3, NoBarFacts
  <1>5. \A i \in DOMAIN completed : completed[i] \in Bar BY <1>1, LenProperties, ElementOfSeq
  <1>6. now \in Nat /\ Day(now) \in Nat /\ session \in Int BY <1>1, DayParts DEF None
  <1>7. \A i \in DOMAIN pending :
                  /\ pending[i].minute \in Minutes /\ pending[i].minute \in Nat
                  /\ Day(pending[i].minute) \in Nat
                  /\ pending[i].cum \in Nat /\ pending[i].size \in Nat /\ pending[i].size > 0
    BY RecordFacts, DayParts
  <1> QED BY <1>1, <1>2, <1>3, <1>4, <1>5, <1>6, <1>7

LEMMA RemovalOrder ==
    ASSUME TypeInv, PendingInOrder, NEW i \in DOMAIN pending, pending' = RemoveAt(pending, i),
           now' = now, cum' = cum
    PROVE  PendingInOrder'
  <1> DEFINE s == RemoveAt(pending, i)
  <1>1. \A j \in DOMAIN pending' :
            /\ j \in Int /\ From(i, j) \in DOMAIN pending /\ From(i, j) # i
            /\ pending'[j] = pending[From(i, j)]
    <2>1. pending \in Seq(Record) BY DEF TypeInv, FeedTypeOK
    <2>2. \A j \in DOMAIN s :
              /\ j \in Int /\ From(i, j) \in DOMAIN pending /\ From(i, j) # i
              /\ s[j] = pending[From(i, j)]
      BY <2>1, RemoveFacts
    <2> HIDE DEF s
    <2>3. pending' = s BY DEF s
    <2> QED BY <2>2, <2>3
  <1>2. i \in Int BY LenProperties DEF TypeInv, FeedTypeOK
  <1>3. \A j, k \in DOMAIN pending' : j < k => From(i, j) < From(i, k)
    BY <1>1, <1>2 DEF From
  <1> QED BY <1>1, <1>3 DEF PendingInOrder

LEMMA PrintsOrder ==
    ASSUME TypeInv, PendingInOrder, NEW size \in Sizes, Prints(size)
    PROVE  PendingInOrder' /\ now' = now /\ cum' >= cum /\ cum' \in Nat
  <1> DEFINE n == Len(pending)
             r == [minute |-> now, cum |-> cum + size, size |-> size]
  <1>1. size \in Nat /\ now' = now /\ cum' = cum + size /\ pending' = Append(pending, r)
    BY FeedAssumption DEF Prints
  <1>2. now \in Minutes /\ now \in Nat /\ cum \in Nat /\ pending \in Seq(Record) BY Types
  <1>3. r \in Record BY <1>1, <1>2 DEF Record
  <1>4. r.minute = now /\ r.cum = cum + size /\ r.size = size OBVIOUS
  <1> HIDE DEF r
  <1>5. /\ DOMAIN pending = 1..n /\ DOMAIN pending' = 1..(n + 1) /\ n \in Nat
        /\ pending'[n + 1] = r /\ \A i \in 1..n : pending'[i] = pending[i]
    BY <1>1, <1>2, <1>3, AppendProperties, LenProperties
  <1>6. \A i \in 1..n : /\ pending[i].minute \in Nat /\ pending[i].cum \in Nat
                        /\ pending[i].minute <= now /\ Day(pending[i].minute) = Day(now)
                        /\ pending[i].cum <= cum
    BY <1>5, Types DEF PendingInOrder
  <1> HIDE DEF n
  <1>7. ASSUME NEW i \in 1..(n + 1)
        PROVE  /\ pending'[i].minute <= now' /\ Day(pending'[i].minute) = Day(now')
               /\ pending'[i].cum <= cum'
    <2>1. CASE i = n + 1 BY <1>1, <1>2, <1>4, <1>5, <2>1
    <2>2. CASE i \in 1..n BY <1>1, <1>2, <1>5, <1>6, <2>2
    <2> QED BY <1>5, <2>1, <2>2
  <1>8. ASSUME NEW i \in 1..(n + 1), NEW j \in 1..(n + 1), i < j
        PROVE  /\ pending'[i].minute <= pending'[j].minute
               /\ pending'[i].cum <= pending'[j].cum - pending'[j].size
    <2>1. i \in 1..n BY <1>5, <1>8
    <2>2. CASE j = n + 1 BY <1>1, <1>2, <1>4, <1>5, <1>6, <2>1, <2>2
    <2>3. CASE j \in 1..n BY <1>5, <1>8, <2>1, <2>3 DEF PendingInOrder
    <2> QED BY <1>5, <2>2, <2>3
  <1> QED BY <1>1, <1>2, <1>5, <1>7, <1>8 DEF PendingInOrder

LEMMA WorldOrder ==
    ASSUME OrderInv, WorldStep
    PROVE  OrderInv'
  <1>1. TypeInv' /\ RangePosted' BY WorldType, WorldKeeps DEF OrderInv, RangePosted
  <1>2. TradeCounted' /\ DiskIsCompleted' BY WorldKeeps DEF OrderInv, TradeCounted, DiskIsCompleted
  <1>3. TypeInv /\ PendingInOrder /\ DaysPass /\ BarsOfSession /\ RowsOfDays BY DEF OrderInv
  <1>4. /\ now \in Minutes /\ now \in Nat /\ Day(now) \in Nat /\ cum \in Nat
        /\ seen.top \in Nat /\ seen.day \in Int /\ prior.day \in Int /\ current.start \in Int
        /\ \A i \in DOMAIN completed : completed[i].start \in Nat
    BY <1>3, Types
  <1>10. now <= now' => RowsOfDays'
    <2>1. now' \in Nat BY <1>1, DayParts DEF TypeInv, FeedTypeOK
    <2>2. \A m \in Minutes : m \in Nat BY DayParts
    <2>3. \A a, b, c \in Nat : a < b /\ b <= c => a < c OBVIOUS
    <2> QED BY <1>3, <1>4, <2>1, <2>2, <2>3, WorldKeeps DEF RowsOfDays
  <1>5. ASSUME PendingInOrder', now' = now, cum' >= cum, cum' \in Nat
        PROVE  OrderInv'
    <2>1. DaysPass' BY <1>3, <1>4, <1>5, WorldKeeps DEF DaysPass
    <2>2. BarsOfSession' BY <1>3, <1>5, WorldKeeps DEF BarsOfSession
    <2>3. RowsOfDays' BY <1>4, <1>5, <1>10
    <2> QED BY <1>1, <1>2, <1>5, <2>1, <2>2, <2>3 DEF OrderInv
  <1>6. CASE \E size \in Sizes : Prints(size) BY <1>3, <1>5, <1>6, PrintsOrder
  <1>7. CASE \E i \in DOMAIN pending : Missed(i)
    <2>1. now' = now /\ cum' = cum BY <1>7 DEF Missed
    <2>2. PendingInOrder' BY <1>3, <1>7, RemovalOrder DEF Missed
    <2> QED BY <1>4, <1>5, <2>1, <2>2
  <1>8. CASE UNCHANGED vars \/ \E symbol \in Symbols : PlansChange(symbol)
    <2>1. pending' = pending /\ now' = now /\ cum' = cum
      BY <1>8 DEF vars, exchange, PlansChange
    <2>2. PendingInOrder' BY <1>3, <2>1 DEF PendingInOrder
    <2> QED BY <1>4, <1>5, <2>1, <2>2
  <1>9. CASE MinutePasses
    <2>1. /\ now + 1 \in Minutes /\ now' = now + 1 /\ pending' = pending
          /\ Day(now') # Day(now) => pending = <<>>
          /\ cum' = IF Day(now') = Day(now) THEN cum ELSE 0
      BY <1>9 DEF MinutePasses
    <2>2. now' \in Minutes /\ now < now' /\ Day(now) <= Day(now') /\ Day(now') \in Nat
      BY <1>4, <2>1, DaysInOrder, DayParts
    <2>3. BarsOfSession' /\ RowsOfDays'
      <3>1. now <= now' BY <1>4, <2>1
      <3> QED BY <1>3, <1>4, <1>10, <2>1, <2>2, <3>1, WorldKeeps DEF BarsOfSession
    <2>4. CASE Day(now') = Day(now)
      <3>1. cum' = cum /\ Regular(now') BY <1>4, <2>1, <2>2, <2>4, LaterIsRegular
      <3>2. PendingInOrder'
        <4>1. \A i \in DOMAIN pending : pending[i].minute \in Nat BY <1>3, Types
        <4> QED BY <1>3, <1>4, <2>1, <2>2, <2>4, <3>1, <4>1 DEF PendingInOrder
      <3>3. DaysPass' BY <1>3, <2>4, <3>1, WorldKeeps DEF DaysPass
      <3> QED BY <1>1, <1>2, <2>3, <3>2, <3>3 DEF OrderInv
    <2>5. CASE Day(now') # Day(now)
      <3>1. PendingInOrder'
        <4>1. DOMAIN pending' = {} BY <2>1, <2>5, EmptySeq
        <4> QED BY <4>1 DEF PendingInOrder
      <3>2. DaysPass'
        <4>1. Day(now) < Day(now') BY <1>4, <2>2, <2>5
        <4>2. prior.day <= Day(now') /\ seen.day < Day(now') BY <1>3, <1>4, <2>2, <4>1 DEF DaysPass
        <4> QED BY <1>3, <1>4, <2>2, <4>2, WorldKeeps DEF DaysPass
      <3> QED BY <1>1, <1>2, <2>3, <3>1, <3>2 DEF OrderInv
    <2> QED BY <2>4, <2>5
  <1> QED BY <1>6, <1>7, <1>8, <1>9 DEF WorldStep

LEMMA StreamOrder ==
    ASSUME OrderInv, StreamStep
    PROVE  OrderInv'
  <1>1. UNCHANGED <<exchange, plans, bridge, calculator, disk, tick, faults, history>>
    BY DEF StreamStep, Launched, ReadSubscriptions, Connected, Refresh, BackoffEnds, OnlyStream
  <1>2. TypeInv' BY StreamType DEF OrderInv
  <1>3. phase' = "open" => trade.connection # connection'
    <2>1. connection \in Nat /\ trade.connection \in 0..connection
      BY DEF OrderInv, TypeInv, FeedTypeOK, HistoryTypeOK
    <2>2. phase' = "open" => connection' = connection + 1
      BY DEF StreamStep, Launched, ReadSubscriptions, Connected, Refresh, BackoffEnds,
             NextConnection
    <2> QED BY <2>1, <2>2
  <1>4. TradeCounted' BY <1>1, <1>3 DEF TradeCounted, bridge
  <1>5. /\ RangePosted' /\ PendingInOrder' /\ DaysPass' /\ BarsOfSession' /\ DiskIsCompleted'
        /\ RowsOfDays'
    BY <1>1 DEF OrderInv, RangePosted, PendingInOrder, DaysPass, BarsOfSession, DiskIsCompleted,
                RowsOfDays, exchange, bridge, calculator, history
  <1> QED BY <1>2, <1>4, <1>5 DEF OrderInv

\* The record of a pending trade does not lead past the exchange.
LEMMA SeenOrder ==
    ASSUME OrderInv, NEW i \in DOMAIN pending,
           \/ Counts(pending[i]) \/ Loses(pending[i])
           \/ seen' = [seen EXCEPT !.whole = FALSE]
    PROVE  /\ seen.day <= seen'.day /\ seen'.day <= Day(now) /\ seen'.day \in Int
           /\ seen'.day = Day(now) => Regular(now) /\ seen'.top <= cum
           /\ seen'.day \in {seen.day, Day(now)}
           /\ Counts(pending[i]) /\ Regular(pending[i].minute) =>
                  seen'.day = Day(pending[i].minute)
           /\ Counts(pending[i]) /\ ~Regular(pending[i].minute) => seen'.day = seen.day
  <1> DEFINE r == pending[i]
  <1>1. TypeInv /\ PendingInOrder /\ DaysPass BY DEF OrderInv
  <1>2. /\ r.minute \in Minutes /\ r.minute \in Nat /\ r.cum \in Nat /\ r.minute <= now
        /\ Day(r.minute) = Day(now) /\ r.cum <= cum
        /\ now \in Minutes /\ now \in Nat /\ Day(now) \in Nat /\ cum \in Nat
        /\ seen.day \in Int /\ seen.top \in Nat
    BY <1>1, Types DEF PendingInOrder
  <1>3. seen \in Seen
    BY <1>1 DEF TypeInv, HistoryTypeOK
  <1>4. /\ seen.day <= Day(now)
        /\ seen.day = Day(now) => Regular(now) /\ seen.top <= cum
    BY <1>1 DEF DaysPass
  <1>5. Regular(r.minute) => Regular(now)
    <2>1. r.minute = now \/ r.minute < now BY <1>2
    <2> QED BY <1>2, <2>1, LaterIsRegular
  <1> HIDE DEF r
  <1>6. /\ After(r).day = seen.day
        /\ \/ After(r).top = seen.top
           \/ seen.day = Day(r.minute) /\ After(r).top \in {seen.top, r.cum}
    BY <1>3 DEF After, Higher
  <1>7. CASE seen' = After(r) \/ seen' = [After(r) EXCEPT !.whole = FALSE]
             \/ seen' = [seen EXCEPT !.whole = FALSE]
    <2>1. seen'.day = seen.day /\ (seen'.top = seen.top \/ seen'.top = r.cum)
      <3>1. After(r) \in Seen
        <4>1. Higher(seen.top, r.cum) \in Nat BY <1>2 DEF Higher
        <4>2. (seen.orderly /\ r.cum >= seen.top) \in BOOLEAN OBVIOUS
        <4> QED BY <1>3, <4>1, <4>2 DEF After, Seen
      <3> QED BY <1>3, <1>6, <1>7, <3>1, NotWhole
    <2>2. Counts(r) /\ Regular(r.minute) => seen'.day = Day(r.minute)
      BY <2>1 DEF Counts
    <2> QED BY <1>2, <1>4, <2>1, <2>2 DEF r
  <1>8. CASE /\ Regular(r.minute) /\ seen.day # Day(r.minute)
             /\ seen' = [day |-> Day(r.minute), opened |-> opened, leaked |-> Leaked(r),
                         top |-> r.cum, orderly |-> TRUE,
                         whole |-> IF prior.day = Day(r.minute) THEN prior.cum <= opened
                                   ELSE r.cum - r.size = opened]
    <2>1. seen'.day = Day(now) /\ seen'.top = r.cum BY <1>2, <1>8
    <2> QED BY <1>2, <1>4, <1>5, <1>8, <2>1 DEF r
  <1> QED BY <1>7, <1>8 DEF Counts, Loses, r

\* What a save changes.
LEMMA SavedRows ==
    ASSUME TypeInv, current \in Bar
    PROVE  /\ save(disk, current) \in Rows
           /\ save(disk, current)[current.start] = current.volume
           /\ \A m \in Minutes : m # current.start => save(disk, current)[m] = disk[m]
  <1>1. disk \in Rows /\ current.start \in Minutes /\ current.volume \in Nat BY Types DEF Bar
  <1> QED BY <1>1 DEF save, Rows

\* A bar is completed by a later trade.
LEMMA TurnsLater ==
    ASSUME OrderInv, NEW i \in DOMAIN pending, Completes(pending[i].minute)
    PROVE  /\ current.start < pending[i].minute /\ current.start < now
           /\ current \in Bar /\ Day(current.start) = seen.day /\ session = seen.day
  <1> DEFINE m == pending[i].minute
  <1>1. TypeInv /\ PendingInOrder /\ DaysPass /\ BarsOfSession BY DEF OrderInv
  <1>2. /\ m \in Minutes /\ m \in Nat /\ m <= now /\ Day(m) = Day(now) /\ now \in Nat
        /\ seen.day \in Int /\ seen.day <= Day(now) /\ Day(now) \in Nat
    BY <1>1, Types DEF PendingInOrder, DaysPass
  <1>3. current # NoBar /\ (session # Day(m) \/ m > current.start) BY DEF Completes
  <1>4. current \in Bar /\ current.start \in Minutes /\ current.start \in Nat
    BY <1>1, <1>3, Types
  <1>5. session = seen.day /\ Day(current.start) = session BY <1>1, <1>3 DEF BarsOfSession
  <1> HIDE DEF m
  <1>6. current.start < m
    <2>1. CASE session # Day(m)
      <3>1. Day(current.start) < Day(m) BY <1>2, <1>5, <2>1
      <3> QED BY <1>2, <1>4, <3>1, EarlierDay
    <2>2. CASE m > current.start BY <1>2, <1>4, <2>2
    <2> QED BY <1>3, <2>1, <2>2
  <1>7. current.start < now BY <1>2, <1>4, <1>6
  <1> QED BY <1>4, <1>5, <1>6, <1>7 DEF m

\* Saving a bar and putting it behind the others keeps disk and memory together.
LEMMA SavedTogether ==
    ASSUME TypeInv, DiskIsCompleted, current \in Bar,
           completed' = Append(completed, current), disk' = save(disk, current)
    PROVE  DiskIsCompleted'
  <1> DEFINE n == Len(completed)
  <1>1. /\ completed \in Seq(Bar) /\ disk \in Rows /\ current.start \in Minutes
        /\ current.volume \in Nat /\ current = [start |-> current.start, volume |-> current.volume]
        /\ \A i \in DOMAIN completed : completed[i].start \in Minutes
    BY Types DEF Bar
  <1>2. /\ DOMAIN completed = 1..n /\ DOMAIN completed' = 1..(n + 1) /\ n \in Nat
        /\ completed'[n + 1] = current /\ \A i \in 1..n : completed'[i] = completed[i]
    BY <1>1, AppendProperties, LenProperties
  <1>3. /\ disk'[current.start] = current.volume
        /\ \A m \in Minutes : m # current.start => disk'[m] = disk[m]
    BY <1>1 DEF save, Rows
  <1> HIDE DEF n
  <1>4. ASSUME NEW m \in Minutes, Newest(disk')[m] # None
        PROVE  \E i \in DOMAIN completed' : completed'[i] = [start |-> m, volume |-> disk'[m]]
    <2>1. CASE m = current.start
      <3>1. n + 1 \in DOMAIN completed' BY <1>2
      <3> QED BY <1>1, <1>2, <1>3, <2>1, <3>1
    <2>2. CASE m # current.start
      <3>0. Newest(disk)[m] # None
        <4>1. Newest(save(disk, current))[m] # None BY <1>4
        <4>2. Newest(disk)[m] = disk[m] /\ save(disk, current)[m] = disk[m]
              /\ Newest(save(disk, current))[m] = save(disk, current)[m]
          BY <1>1, <2>2, <4>1, NewestSaved
        <4> QED BY <4>1, <4>2
      <3>1. PICK i \in DOMAIN completed : completed[i] = [start |-> m, volume |-> disk[m]]
        BY <3>0 DEF DiskIsCompleted
      <3>2. i \in DOMAIN completed' /\ completed'[i] = completed[i] BY <1>2
      <3> QED BY <1>3, <2>2, <3>1, <3>2
    <2> QED BY <2>1, <2>2
  <1>5. ASSUME NEW i \in DOMAIN completed'
        PROVE  \/ completed'[i].volume = disk'[completed'[i].start]
               \/ \E j \in DOMAIN completed' : j > i /\ completed'[j].start = completed'[i].start
    <2>1. CASE i = n + 1 BY <1>2, <1>3, <2>1
    <2>2. CASE i \in 1..n
      <3>1. n + 1 \in DOMAIN completed' /\ n + 1 > i BY <1>2, <2>2
      <3>2. CASE completed[i].start = current.start BY <1>2, <2>2, <3>1, <3>2
      <3>3. CASE completed[i].start # current.start
        <4>1. disk'[completed[i].start] = disk[completed[i].start] BY <1>1, <1>2, <1>3, <2>2, <3>3
        <4>2. \/ completed[i].volume = disk[completed[i].start]
              \/ \E j \in DOMAIN completed : j > i /\ completed[j].start = completed[i].start
          BY <1>2, <2>2 DEF DiskIsCompleted
        <4>3. \A j \in DOMAIN completed : j \in DOMAIN completed' /\ completed'[j] = completed[j]
          BY <1>2
        <4> QED BY <1>2, <2>2, <4>1, <4>2, <4>3
      <3> QED BY <3>2, <3>3
    <2> QED BY <1>2, <2>1, <2>2
  <1> QED BY <1>4, <1>5 DEF DiskIsCompleted

LEMMA LoadedTogether ==
    ASSUME disk' \in Rows, completed' = load(disk')
    PROVE  DiskIsCompleted'
  <1>1. /\ \A i \in DOMAIN completed' : disk'[completed'[i].start] = completed'[i].volume
        /\ \A m \in Minutes : Newest(disk')[m] # None =>
               \E i \in DOMAIN completed' : completed'[i] = [start |-> m, volume |-> disk'[m]]
    BY LoadFacts
  <1> QED BY <1>1 DEF DiskIsCompleted

LEMMA TradeOrder ==
    ASSUME OrderInv, NEW i \in DOMAIN pending, TradeArrives(i)
    PROVE  OrderInv'
  <1> DEFINE r == pending[i]
             m == r.minute
             q == Quantity(r)
             t == [minute |-> m, connection |-> connection]
  <1>1. /\ TypeInv /\ RangePosted /\ PendingInOrder /\ DaysPass /\ BarsOfSession
        /\ DiskIsCompleted /\ RowsOfDays
    BY DEF OrderInv
  <1>2. /\ UNCHANGED <<now, cum, stream>> /\ prior' = [day |-> Day(m), cum |-> r.cum]
        /\ trade' = t /\ pending' = RemoveAt(pending, i) /\ Emit(t, quote) /\ Counts(r)
    BY DEF TradeArrives, Publishes
  <1>3. TypeInv' /\ RangePosted' BY <1>1, <1>2, TradeType, EmitCases
  <1>4. PendingInOrder' BY <1>1, <1>2, RemovalOrder
  <1>5. /\ seen.day <= seen'.day /\ seen'.day <= Day(now) /\ seen'.day \in Int
        /\ seen'.day = Day(now) => Regular(now) /\ seen'.top <= cum
        /\ Regular(m) => seen'.day = Day(m)
        /\ ~Regular(m) => seen'.day = seen.day
    BY <1>2, SeenOrder
  <1>6. /\ m \in Minutes /\ m \in Nat /\ q \in Nat /\ m <= now /\ Day(m) = Day(now)
        /\ Day(m) \in Nat /\ now \in Nat /\ now' = now
        /\ tick.day \in Int /\ settled.day \in Int /\ seen.day \in Int /\ session \in Int
        /\ completed \in Seq(Bar)
        /\ \A j \in DOMAIN completed : completed[j].start \in Nat /\ Day(completed[j].start) \in Nat
    BY <1>1, <1>2, Types, RecordFacts DEF PendingInOrder
  <1>7. Counted(m, q) \/ Ignored(m) BY <1>1, TradeCases
  <1>8. DaysPass'
    <2>1. tick'.day <= seen'.day /\ settled'.day <= seen'.day
      <3>1. tick.day <= seen'.day /\ settled.day <= seen'.day BY <1>1, <1>5, <1>6 DEF DaysPass
      <3>2. CASE UNCHANGED <<tick, settled>> BY <3>1, <3>2
      <3>3. CASE Posts(t)
        <4>1. Regular(m) /\ tick'.day = Day(m) BY <3>3 DEF Posts, Tick
        <4>2. tick'.day = seen'.day /\ settled'.day \in {settled.day, tick'.day}
          BY <1>5, <3>3, <4>1 DEF Posts
        <4> QED BY <1>5, <3>1, <4>2
      <3> QED BY <1>1, <1>2, <3>2, <3>3, EmitCases
    <2>2. prior'.day = Day(now) BY <1>2, <1>6
    <2>3. cum' = cum /\ now' = now BY <1>2
    <2> QED BY <1>5, <1>6, <2>1, <2>2, <2>3 DEF DaysPass
  <1>9. prior'.day = Day(m) /\ trade'.minute = m BY <1>2
  <1> HIDE DEF m, q, r, t
  <1>10. CASE Ignored(m)
    <2>1. UNCHANGED <<session, completed, current, volume, disk>> /\ ~Regular(m)
      BY <1>10 DEF Ignored, calculator
    <2>2. session <= prior'.day
      <3>1. session # None => session = seen.day BY <1>1 DEF BarsOfSession
      <3> QED BY <1>1, <1>5, <1>6, <1>9, <3>1 DEF None
    <2>3. BarsOfSession'
      BY <1>1, <1>5, <1>6, <2>1, <2>2 DEF BarsOfSession
    <2>4. DiskIsCompleted' BY <1>1, <2>1 DEF DiskIsCompleted
    <2>5. TradeCounted' BY <1>9, <2>1 DEF TradeCounted
    <2>6. RowsOfDays' BY <1>1, <1>5, <1>6, <2>1 DEF RowsOfDays
    <2> QED BY <1>3, <1>4, <1>8, <2>3, <2>4, <2>5, <2>6 DEF OrderInv
  <1>11. CASE Counted(m, q)
    <2>1. /\ Regular(m) /\ session' = Day(m) /\ session' # None /\ seen'.day = Day(m)
          /\ current' \in Bar /\ current' # NoBar
      BY <1>1, <1>5, <1>6, <1>11, CountedTypes, NoBarFacts DEF Counted, None
    <2>2. /\ Day(current'.start) = Day(m) /\ m <= current'.start /\ current'.start <= now
          /\ DiskIsCompleted'
          /\ \A j \in DOMAIN completed' :
                 completed'[j].start < now /\ Day(completed'[j].start) <= seen'.day
      <3>1. \A j \in DOMAIN completed :
                completed[j].start < now /\ Day(completed[j].start) <= seen'.day
        BY <1>1, <1>5, <1>6 DEF BarsOfSession
      <3>2. CASE Begins(m, q)
        <4>1. current'.start = m /\ completed' = completed /\ disk' = disk BY <3>2 DEF Begins
        <4> QED BY <1>1, <1>6, <3>1, <4>1 DEF DiskIsCompleted
      <3>3. CASE Turns(m, q)
        <4>1. /\ current'.start = m /\ completed' = Append(completed, current)
              /\ disk' = save(disk, current) /\ current \in Bar /\ Completes(m)
          BY <3>3 DEF Turns
        <4>2. current.start < now /\ Day(current.start) = seen.day
          BY <4>1, TurnsLater DEF m, r
        <4>3. DiskIsCompleted' BY <1>1, <4>1, SavedTogether
        <4>4. /\ DOMAIN completed = 1..Len(completed) /\ Len(completed) \in Nat
              /\ DOMAIN completed' = 1..(Len(completed) + 1)
              /\ completed'[Len(completed) + 1] = current
              /\ \A j \in 1..Len(completed) : completed'[j] = completed[j]
          BY <1>6, <4>1, AppendProperties, LenProperties
        <4>5. ASSUME NEW j \in DOMAIN completed'
              PROVE  completed'[j].start < now /\ Day(completed'[j].start) <= seen'.day
          <5>1. CASE j = Len(completed) + 1 BY <1>5, <4>2, <4>4, <5>1
          <5>2. CASE j \in 1..Len(completed) BY <3>1, <4>4, <5>2
          <5> QED BY <4>4, <5>1, <5>2
        <4> QED BY <1>6, <4>1, <4>3, <4>5
      <3>4. CASE Merges(m, q)
        <4>1. /\ current'.start = current.start /\ completed' = completed /\ disk' = disk
              /\ session = Day(m) /\ m <= current.start
          BY <3>4 DEF Merges
        <4>2. Day(current.start) = session /\ current.start <= now
          BY <1>1, <1>6, <4>1 DEF BarsOfSession, None
        <4> QED BY <1>1, <3>1, <4>1, <4>2 DEF DiskIsCompleted
      <3> QED BY <1>11, <3>2, <3>3, <3>4 DEF Counted
    <2>3. BarsOfSession' BY <1>5, <1>6, <1>9, <2>1, <2>2 DEF BarsOfSession
    <2>4. TradeCounted' BY <1>9, <2>1, <2>2 DEF TradeCounted
    <2>5. RowsOfDays'
      <3>1. \A n \in Minutes : disk[n] # None =>
                Regular(n) /\ n < now' /\ Day(n) <= seen'.day
        <4>1. \A n \in Minutes : Day(n) \in Int BY DayParts
        <4>2. \A a, b, c \in Int : a <= b /\ b <= c => a <= c OBVIOUS
        <4> QED BY <1>1, <1>5, <1>6, <4>1, <4>2 DEF RowsOfDays
      <3>2. CASE Begins(m, q) BY <2>1, <3>1, <3>2 DEF RowsOfDays, Begins
      <3>3. CASE Turns(m, q)
        <4>1. /\ current \in Bar /\ Completes(m) /\ current'.start = m
              /\ disk' = save(disk, current)
          BY <3>3 DEF Turns
        <4>2. Regular(current.start) BY <1>1, <4>1, NoBarFacts DEF RowsOfDays
        <4>3. current.start < now /\ Day(current.start) = seen.day
          BY <4>1, TurnsLater DEF m, r
        <4>4. \A n \in Minutes : n # current.start => disk'[n] = disk[n]
          BY <1>1, <4>1, SavedRows
        <4> QED BY <1>5, <1>6, <2>1, <3>1, <4>1, <4>2, <4>3, <4>4 DEF RowsOfDays
      <3>4. CASE Merges(m, q)
        <4>1. current'.start = current.start /\ current \in Bar /\ disk' = disk
          BY <3>4 DEF Merges
        <4> QED BY <1>1, <3>1, <4>1, NoBarFacts DEF RowsOfDays
      <3> QED BY <1>11, <3>2, <3>3, <3>4 DEF Counted
    <2> QED BY <1>3, <1>4, <1>8, <2>2, <2>3, <2>4, <2>5 DEF OrderInv
  <1> QED BY <1>7, <1>10, <1>11

\* A quote that posts a tick finds its trade in the session.
LEMMA QuotePosts ==
    ASSUME OrderInv, phase = "open", Posts(trade)
    PROVE  /\ trade.minute \in Minutes /\ Regular(trade.minute)
           /\ Day(trade.minute) = seen.day /\ session = seen.day
           /\ trade.minute <= current.start
  <1>1. TypeInv /\ BarsOfSession /\ TradeCounted BY DEF OrderInv
  <1>2. trade.connection = connection /\ Regular(trade.minute) BY DEF Posts
  <1>3. trade.minute \in Minutes
    BY <1>1, <1>2 DEF TypeInv, FeedTypeOK, HistoryTypeOK
  <1>4. session = Day(trade.minute) /\ trade.minute <= current.start
    BY <1>1, <1>2 DEF TradeCounted
  <1>5. session # None BY <1>3, <1>4, DayParts DEF None
  <1> QED BY <1>1, <1>2, <1>3, <1>4, <1>5 DEF BarsOfSession

LEMMA QuoteOrder ==
    ASSUME OrderInv, QuoteArrives
    PROVE  OrderInv'
  <1>1. /\ TypeInv /\ RangePosted /\ PendingInOrder /\ DaysPass /\ BarsOfSession
        /\ DiskIsCompleted /\ TradeCounted /\ RowsOfDays
    BY DEF OrderInv
  <1>2. /\ phase = "open" /\ Emit(trade, connection)
        /\ UNCHANGED <<prior, trade, calculator, seen, exchange, plans, stream, disk, faults>>
    BY DEF QuoteArrives
  <1>3. TypeInv' /\ RangePosted' BY <1>1, <1>2, QuoteType, EmitCases
  <1>4. PendingInOrder' /\ BarsOfSession' /\ DiskIsCompleted' /\ TradeCounted' /\ RowsOfDays'
    BY <1>1, <1>2 DEF PendingInOrder, BarsOfSession, DiskIsCompleted, TradeCounted, RowsOfDays,
                      calculator, exchange, stream
  <1>5. tick'.day <= seen.day /\ settled'.day <= seen.day
    <2>1. CASE UNCHANGED <<tick, settled>> BY <1>1, <2>1 DEF DaysPass
    <2>2. CASE Posts(trade)
      <3>1. tick'.day = seen.day /\ settled'.day \in {settled.day, tick'.day}
        BY <1>2, <2>2, QuotePosts DEF Posts, Tick
      <3>2. seen.day \in Int BY <1>1, Types
      <3> QED BY <1>1, <3>1, <3>2 DEF DaysPass
    <2> QED BY <1>1, <1>2, <2>1, <2>2, EmitCases
  <1>6. DaysPass' BY <1>1, <1>2, <1>5 DEF DaysPass, exchange
  <1> QED BY <1>3, <1>4, <1>6 DEF OrderInv

\* The rows a new process finds are those that were there, and the bar that was just
\* saved.
LEMMA RowsFound ==
    ASSUME OrderInv, NEW rows \in Rows,
           \/ rows = disk
           \/ /\ current \in Bar /\ rows = save(disk, current)
              /\ current.start < now /\ Day(current.start) = seen.day
    PROVE  \A m \in Minutes : rows[m] # None => Regular(m) /\ m < now /\ Day(m) <= seen.day
  <1>1. TypeInv /\ RowsOfDays BY DEF OrderInv
  <1> SUFFICES ASSUME NEW m \in Minutes, rows[m] # None
               PROVE  Regular(m) /\ m < now /\ Day(m) <= seen.day
    OBVIOUS
  <1>2. CASE disk[m] # None BY <1>1, <1>2 DEF RowsOfDays
  <1>3. CASE disk[m] = None
    <2>1. rows # disk BY <1>3
    <2>2. /\ m = current.start /\ current.start < now /\ Day(current.start) = seen.day
          /\ current \in Bar
      BY <1>1, <1>3, <2>1 DEF save, Rows, TypeInv, HistoryTypeOK
    <2>3. seen.day \in Int /\ current # NoBar BY <1>1, <2>2, Types, NoBarFacts
    <2> QED BY <1>1, <2>2, <2>3 DEF RowsOfDays
  <1> QED BY <1>2, <1>3

\* What a new process has in memory is of the rows it finds.
LEMMA LoadedOrder ==
    ASSUME OrderInv, NEW rows \in Rows,
           \/ rows = disk
           \/ /\ current \in Bar /\ rows = save(disk, current)
              /\ current.start < now /\ Day(current.start) = seen.day
    PROVE  \A j \in DOMAIN load(rows) :
               load(rows)[j].start < now /\ Day(load(rows)[j].start) <= seen.day
  <1> SUFFICES ASSUME NEW j \in DOMAIN load(rows)
               PROVE  load(rows)[j].start < now /\ Day(load(rows)[j].start) <= seen.day
    OBVIOUS
  <1>1. load(rows)[j] \in Bar /\ rows[load(rows)[j].start] = load(rows)[j].volume
    BY LoadFacts, LenProperties, ElementOfSeq
  <1>2. load(rows)[j].start \in Minutes /\ rows[load(rows)[j].start] # None
    BY <1>1 DEF Bar, None
  <1> QED BY <1>2, RowsFound

LEMMA EndOrder ==
    ASSUME OrderInv, EndStep
    PROVE  OrderInv'
  <1>1. /\ TypeInv /\ RangePosted /\ PendingInOrder /\ DaysPass /\ BarsOfSession
        /\ DiskIsCompleted /\ RowsOfDays
    BY DEF OrderInv
  <1>2. TypeInv' BY <1>1, EndType
  <1>3. UNCHANGED <<now, cum, tick, settled>> /\ phase' # "open"
    BY DEF EndStep, Stops, Breaks, SaveFails, StopsAfterSave, Publishes, exchange, Forgets, history
  <1>4. RangePosted' /\ TradeCounted' BY <1>1, <1>3 DEF RangePosted, TradeCounted
  <1>5. /\ seen.day \in Int /\ tick.day \in Int /\ settled.day \in Int /\ now \in Nat
        /\ Day(now) \in Nat
    BY <1>1, Types
  <1>6. ASSUME NEW rows \in Rows, Forgets(rows), disk' = rows, PendingInOrder',
               \/ rows = disk
               \/ /\ current \in Bar /\ rows = save(disk, current)
                  /\ current.start < now /\ Day(current.start) = seen.day,
               seen.day <= seen'.day, seen'.day <= Day(now), seen'.day \in Int,
               seen'.day = Day(now) => Regular(now) /\ seen'.top <= cum
        PROVE  OrderInv'
    <2>1. /\ prior' = NoPrior /\ session' = None /\ completed' = load(rows) /\ current' = NoBar
      BY <1>1, <1>6, ForgetsType
    <2>2. DiskIsCompleted' BY <1>6, <2>1, LoadedTogether
    <2>3. DaysPass' BY <1>1, <1>3, <1>5, <1>6, <2>1 DEF DaysPass, NoPrior, None
    <2>4. BarsOfSession'
      <3>1. \A j \in DOMAIN load(rows) :
               load(rows)[j].start < now /\ Day(load(rows)[j].start) <= seen.day
        BY <1>6, LoadedOrder
      <3>2. ASSUME NEW j \in DOMAIN load(rows) PROVE Day(load(rows)[j].start) \in Nat
        <4>1. load(rows)[j] \in Bar BY <1>6, LoadFacts, LenProperties, ElementOfSeq
        <4>2. load(rows)[j].start \in Minutes BY <4>1 DEF Bar
        <4> QED BY <4>2, DayParts
      <3> QED BY <1>3, <1>5, <1>6, <2>1, <3>1, <3>2, NoBarFacts DEF BarsOfSession
    <2>5. RowsOfDays'
      <3>1. \A m \in Minutes : rows[m] # None => Regular(m) /\ m < now /\ Day(m) <= seen.day
        BY <1>6, RowsFound
      <3>2. \A m \in Minutes : Day(m) \in Int BY DayParts
      <3>3. \A a, b, c \in Int : a <= b /\ b <= c => a <= c OBVIOUS
      <3> QED BY <1>3, <1>5, <1>6, <2>1, <3>1, <3>2, <3>3 DEF RowsOfDays
    <2> QED BY <1>2, <1>4, <1>6, <2>2, <2>3, <2>4, <2>5 DEF OrderInv
  <1>7. CASE Stops
    <2>1. /\ Forgets(disk) /\ seen' = [seen EXCEPT !.whole = FALSE] /\ disk' = disk
          /\ pending' = pending
      BY <1>7 DEF Stops, exchange
    <2>2. seen'.day = seen.day /\ seen'.top = seen.top
      BY <1>1, <2>1 DEF TypeInv, HistoryTypeOK
    <2>3. PendingInOrder' BY <1>1, <1>3, <2>1 DEF PendingInOrder
    <2>4. disk \in Rows BY <1>1, Types
    <2> QED BY <1>1, <1>5, <1>6, <2>1, <2>2, <2>3, <2>4 DEF DaysPass
  <1>8. CASE Breaks
    <2>1. UNCHANGED <<exchange, bridge, calculator, disk, history>> BY <1>8 DEF Breaks
    <2>2. PendingInOrder' /\ DaysPass' /\ BarsOfSession' /\ DiskIsCompleted' /\ RowsOfDays'
      BY <1>1, <1>3, <2>1 DEF PendingInOrder, DaysPass, BarsOfSession, DiskIsCompleted,
                              RowsOfDays, exchange, bridge, calculator, history
    <2> QED BY <1>2, <1>4, <2>2 DEF OrderInv
  <1>9. ASSUME NEW i \in DOMAIN pending, SaveFails(i) PROVE OrderInv'
    <2>1. /\ pending' = RemoveAt(pending, i) /\ Loses(pending[i])
          /\ prior' = [day |-> Day(pending[i].minute), cum |-> pending[i].cum]
          /\ UNCHANGED <<session, completed, current, disk>>
      BY <1>9 DEF SaveFails, Publishes, calculator
    <2>2. PendingInOrder' BY <1>1, <1>3, <2>1, RemovalOrder
    <2>3. /\ seen.day <= seen'.day /\ seen'.day <= Day(now) /\ seen'.day \in Int
          /\ seen'.day = Day(now) => Regular(now) /\ seen'.top <= cum
      BY <2>1, SeenOrder
    <2>4. seen'.day = seen.day
      <3>1. After(pending[i]) \in Seen
            /\ After(pending[i]).day = seen.day
        <4>1. seen \in Seen
          BY <1>1 DEF TypeInv, HistoryTypeOK
        <4>2. Higher(seen.top, pending[i].cum) \in Nat BY <1>1, Types DEF Higher
        <4>3. (seen.orderly /\ pending[i].cum >= seen.top) \in BOOLEAN OBVIOUS
        <4> QED BY <4>1, <4>2, <4>3 DEF After, Seen
      <3> QED BY <2>1, <3>1, NotWhole DEF Loses
    <2>5. Day(pending[i].minute) = Day(now) /\ prior'.day = Day(now)
      BY <1>1, <2>1 DEF PendingInOrder
    <2>6. DaysPass' BY <1>1, <1>3, <1>5, <2>3, <2>5 DEF DaysPass
    <2>7. BarsOfSession'
      <3>1. session # None => session <= prior'.day
        BY <1>1, <1>5, <2>5 DEF BarsOfSession, DaysPass
      <3> QED BY <1>1, <1>3, <2>1, <2>4, <3>1 DEF BarsOfSession
    <2>8. DiskIsCompleted' /\ RowsOfDays'
      BY <1>1, <1>3, <2>1, <2>4 DEF DiskIsCompleted, RowsOfDays
    <2> QED BY <1>2, <1>4, <2>2, <2>6, <2>7, <2>8 DEF OrderInv
  <1>10. ASSUME NEW i \in DOMAIN pending, StopsAfterSave(i) PROVE OrderInv'
    <2>1. /\ pending' = RemoveAt(pending, i) /\ Loses(pending[i]) /\ Completes(pending[i].minute)
          /\ disk' = save(disk, current) /\ Forgets(disk')
      BY <1>10 DEF StopsAfterSave, Publishes
    <2>2. PendingInOrder' BY <1>1, <1>3, <2>1, RemovalOrder
    <2>3. disk' \in Rows BY <1>2 DEF TypeInv, HistoryTypeOK
    <2>4. /\ current \in Bar /\ current.start < now /\ Day(current.start) = seen.day
      BY <2>1, TurnsLater
    <2>5. /\ seen.day <= seen'.day /\ seen'.day <= Day(now) /\ seen'.day \in Int
          /\ seen'.day = Day(now) => Regular(now) /\ seen'.top <= cum
      BY <2>1, SeenOrder
    <2> QED BY <1>6, <2>1, <2>2, <2>3, <2>4, <2>5
  <1> QED BY <1>7, <1>8, <1>9, <1>10 DEF EndStep

LEMMA OrderStep ==
    ASSUME OrderInv, [Next]_vars
    PROVE  OrderInv'
  BY StepCases, WorldOrder, StreamOrder, EndOrder, QuoteOrder, TradeOrder

LEMMA OrderInit == Init => OrderInv
  <1> SUFFICES ASSUME Init PROVE OrderInv OBVIOUS
  <1>1. TypeInv /\ RangePosted BY TypeInit
  <1>2. /\ DOMAIN pending = {} /\ DOMAIN completed = {} /\ now = 0 /\ Day(now) \in Nat
    BY <1>1, Types, EmptySeq DEF Init
  <1>3. PendingInOrder BY <1>2 DEF PendingInOrder
  <1>4. DaysPass BY <1>2 DEF DaysPass, Init, NoPrior, NoTick, None
  <1>5. BarsOfSession BY <1>2, NoBarFacts DEF BarsOfSession, Init
  <1>6. TradeCounted BY DEF TradeCounted, Init
  <1>7. DiskIsCompleted /\ RowsOfDays
    <2>1. \A m \in Minutes : disk[m] = None BY DEF Init, Unsaved
    <2>2. \A m \in Minutes : Newest(disk)[m] = None
      BY <1>1, <2>1, NewestFacts DEF TypeInv, HistoryTypeOK
    <2>3. current = NoBar BY DEF Init
    <2> QED BY <1>2, <2>1, <2>2, <2>3 DEF DiskIsCompleted, RowsOfDays
  <1> QED BY <1>1, <1>3, <1>4, <1>5, <1>6, <1>7 DEF OrderInv

\* The type invariant holds.
THEOREM FeedTypeCorrect == FeedSpec => []FeedTypeOK
  <1>1. Init => OrderInv BY OrderInit
  <1>2. OrderInv /\ [Next]_vars => OrderInv' BY OrderStep
  <1>3. OrderInv => FeedTypeOK BY DEF OrderInv, TypeInv
  <1> QED BY <1>1, <1>2, <1>3, PTL DEF FeedSpec

\* Through failed saves, lost connections and restarts, for every number of days and
\* every limit of load that holds the bars of a day, what a restart would read is in
\* memory as it was saved, and what is in memory was saved.
THEOREM DiskMatchesMemory == FeedSpec => []DiskIsCompleted
  <1>1. Init => OrderInv BY OrderInit
  <1>2. OrderInv /\ [Next]_vars => OrderInv' BY OrderStep
  <1>3. OrderInv => DiskIsCompleted BY DEF OrderInv
  <1> QED BY <1>1, <1>2, <1>3, PTL DEF FeedSpec

----
\* The volume of a session is that of its bars.

LEMMA CountedVolume ==
    ASSUME OrderInv, SessionIsBars, NEW m \in Minutes, NEW q \in Nat, Counted(m, q)
    PROVE  volume' = VolumeOf(completed', session') + current'.volume
  <1>1. /\ TypeInv /\ BarsOfSession BY DEF OrderInv
  <1>2. /\ completed \in Seq(Bar) /\ current.volume \in Nat /\ volume \in Nat /\ session \in Int
    BY <1>1, Types
  <1>3. /\ CompletedAfter(m) = completed' /\ completed' \in Seq(Bar) /\ session' = Day(m)
        /\ volume' = SessionStart(m) + q /\ Day(m) \in Nat
    BY <1>1, CountedTypes, DayParts DEF Counted
  <1>4. VolumeOf(completed', Day(m)) \in Nat /\ VolumeOf(completed, session) \in Nat
    BY <1>2, <1>3, VolumeType
  <1>5. CASE session # Day(m)
    <2>1. volume' = VolumeOf(completed', Day(m)) + q BY <1>3, <1>5 DEF SessionStart
    <2>2. current'.volume = q BY <1>5 DEF Counted, Begins, Turns, Merges
    <2> QED BY <1>3, <2>1, <2>2
  <1>6. CASE session = Day(m)
    <2>1. session # None /\ current # NoBar BY <1>1, <1>3, <1>6 DEF BarsOfSession, None
    <2>2. /\ volume = VolumeOf(completed, session) + current.volume
          /\ Day(current.start) = session /\ volume' = volume + q
      BY <1>1, <1>3, <1>6, <2>1 DEF SessionIsBars, BarsOfSession, SessionStart
    <2>3. CASE Turns(m, q)
      <3>1. VolumeOf(completed', session) = Plus(VolumeOf(completed, session), current, session)
        BY <1>2, <2>3, VolumeAppend DEF Turns
      <3> QED BY <1>2, <1>3, <1>4, <1>6, <2>2, <2>3, <3>1 DEF Turns, Plus
    <2>4. CASE Merges(m, q)
      BY <1>2, <1>3, <1>4, <1>6, <2>2, <2>4 DEF Merges
    <2> QED BY <2>1, <2>3, <2>4 DEF Counted, Begins
  <1> QED BY <1>5, <1>6

\* Steps that leave the bars alone, and those that forget them.
LEMMA BarsElsewhere ==
    ASSUME OrderInv, WorldStep \/ StreamStep \/ EndStep \/ QuoteArrives
    PROVE  \/ UNCHANGED <<session, completed, current, volume>>
           \/ session' = None /\ current' = NoBar
  BY DEF WorldStep, Prints, MinutePasses, PlansChange, Missed, StreamStep, Launched,
         ReadSubscriptions, Connected, Refresh, BackoffEnds, OnlyStream, EndStep, Stops,
         Breaks, SaveFails, StopsAfterSave, Forgets, QuoteArrives, calculator, vars

LEMMA SessionStep ==
    ASSUME OrderInv, SessionIsBars, [Next]_vars
    PROVE  SessionIsBars'
  <1>1. ASSUME NEW i \in DOMAIN pending, TradeArrives(i) PROVE SessionIsBars'
    <2>1. TypeInv BY DEF OrderInv
    <2>2. /\ pending[i].minute \in Minutes /\ Quantity(pending[i]) \in Nat
      BY <1>1, <2>1, RecordFacts
    <2>3. CASE Counted(pending[i].minute, Quantity(pending[i]))
      <3>1. volume' = VolumeOf(completed', session') + current'.volume
        BY <2>2, <2>3, CountedVolume
      <3>2. current' \in Bar BY <2>1, <2>2, <2>3, CountedTypes
      <3> QED BY <3>1, <3>2, NoBarFacts DEF SessionIsBars
    <2>4. CASE Ignored(pending[i].minute)
      BY <2>4 DEF Ignored, calculator, SessionIsBars
    <2> QED BY <1>1, <2>1, <2>3, <2>4, TradeCases
  <1>2. CASE WorldStep \/ StreamStep \/ EndStep \/ QuoteArrives
    BY <1>2, BarsElsewhere DEF SessionIsBars
  <1> QED BY <1>1, <1>2, StepCases

\* The divisor of VWAP is the volume of the session's bars.
THEOREM SessionAddsUp == FeedSpec => []SessionIsBars
  <1>1. Init => OrderInv /\ SessionIsBars BY OrderInit DEF Init, SessionIsBars
  <1>2. OrderInv /\ SessionIsBars /\ [Next]_vars => (OrderInv /\ SessionIsBars)'
    BY OrderStep, SessionStep
  <1> QED BY <1>1, <1>2, PTL DEF FeedSpec

----
\* The volume of a session and the cumulative volume of the exchange.

\* What the history makes of a record: it begins a session, is not of it, or goes on
\* with it.
Starts(r) ==
    /\ Regular(r.minute) /\ seen.day # Day(r.minute)
    /\ seen'.day = Day(r.minute) /\ Base' = opened - Leaked(r) /\ seen'.top = r.cum
    /\ seen'.orderly
    /\ seen'.whole = IF prior.day = Day(r.minute) THEN prior.cum <= opened
                     ELSE r.cum - r.size = opened
Passes(r) ==
    /\ seen.day # Day(r.minute)
    /\ seen'.day = seen.day /\ Base' = Base /\ seen'.top = seen.top
    /\ seen'.orderly = seen.orderly /\ (seen'.whole => seen.whole)
GoesOn(r) ==
    /\ seen.day = Day(r.minute)
    /\ seen'.day = seen.day /\ Base' = Base /\ seen'.top = Higher(seen.top, r.cum)
    /\ seen'.orderly = (seen.orderly /\ r.cum >= seen.top) /\ (seen'.whole => seen.whole)

LEMMA AfterCases ==
    ASSUME TypeInv, NEW i \in DOMAIN pending,
           \/ seen' = After(pending[i])
           \/ seen' = [After(pending[i]) EXCEPT !.whole = FALSE] /\ Loses(pending[i])
    PROVE  /\ Passes(pending[i]) \/ GoesOn(pending[i])
           /\ seen' = [After(pending[i]) EXCEPT !.whole = FALSE] => ~seen'.whole
  <1> DEFINE r == pending[i]
             S == Seen
             a == After(r)
  <1>1. seen \in S BY DEF TypeInv, HistoryTypeOK
  <1>2. r.cum \in Nat /\ seen.top \in Nat BY Types
  <1>3. Higher(seen.top, r.cum) \in Nat BY <1>2 DEF Higher
  <1>4. (seen.orderly /\ r.cum >= seen.top) \in BOOLEAN OBVIOUS
  <1>5. /\ a \in S
        /\ seen.day # Day(r.minute) => a = seen
        /\ seen.day = Day(r.minute) =>
              /\ a.day = seen.day /\ a.opened = seen.opened /\ a.leaked = seen.leaked /\ a.top = Higher(seen.top, r.cum)
              /\ a.orderly = (seen.orderly /\ r.cum >= seen.top) /\ a.whole = seen.whole
    BY <1>1, <1>3, <1>4 DEF After, Seen
  <1>6. /\ seen'.day = a.day /\ seen'.opened = a.opened /\ seen'.leaked = a.leaked /\ seen'.top = a.top
        /\ seen'.orderly = a.orderly /\ (seen'.whole => a.whole)
        /\ seen' = [a EXCEPT !.whole = FALSE] => ~seen'.whole
    <2> HIDE DEF a, r
    <2>1. seen' = a \/ seen' = [a EXCEPT !.whole = FALSE] BY DEF a, r
    <2>2. a \in Seen BY <1>5
    <2> QED BY <2>1, <2>2, NotWhole
  <1> HIDE DEF a, r
  <1>7. Passes(r) \/ GoesOn(r)
    <2>1. CASE seen.day # Day(r.minute) BY <1>5, <1>6, <2>1 DEF Passes, Base
    <2>2. CASE seen.day = Day(r.minute) BY <1>5, <1>6, <2>2 DEF GoesOn, Base
    <2> QED BY <2>1, <2>2
  <1> QED BY <1>6, <1>7 DEF a, r

LEMMA SeenCases ==
    ASSUME TypeInv, NEW i \in DOMAIN pending
    PROVE  /\ Loses(pending[i]) => (Passes(pending[i]) \/ GoesOn(pending[i])) /\ ~seen'.whole
           /\ Counts(pending[i]) => \/ Starts(pending[i]) \/ GoesOn(pending[i])
                                    \/ (Passes(pending[i]) /\ ~Regular(pending[i].minute))
  <1> DEFINE r == pending[i]
  <1>1. Loses(r) => (Passes(r) \/ GoesOn(r)) /\ ~seen'.whole BY AfterCases DEF Loses
  <1>2. Counts(r) /\ ~(Regular(r.minute) /\ seen.day # Day(r.minute)) =>
            GoesOn(r) \/ (Passes(r) /\ ~Regular(r.minute))
    <2> SUFFICES ASSUME Counts(r), ~(Regular(r.minute) /\ seen.day # Day(r.minute))
                 PROVE  GoesOn(r) \/ (Passes(r) /\ ~Regular(r.minute))
      OBVIOUS
    <2>1. seen' = After(r) BY DEF Counts
    <2>2. Passes(r) \/ GoesOn(r) BY <2>1, AfterCases
    <2> QED BY <2>2 DEF Passes
  <1>3. Counts(r) /\ Regular(r.minute) /\ seen.day # Day(r.minute) => Starts(r)
    <2> SUFFICES ASSUME Counts(r), Regular(r.minute), seen.day # Day(r.minute) PROVE Starts(r)
      OBVIOUS
    <2>1. seen' = [day |-> Day(r.minute), opened |-> opened, leaked |-> Leaked(r),
                   top |-> r.cum, orderly |-> TRUE,
                   whole |-> IF prior.day = Day(r.minute) THEN prior.cum <= opened
                             ELSE r.cum - r.size = opened]
      BY DEF Counts
    <2> QED BY <2>1 DEF Starts, Base
  <1> HIDE DEF r
  <1>4. /\ Loses(r) => (Passes(r) \/ GoesOn(r)) /\ ~seen'.whole
        /\ Counts(r) => Starts(r) \/ GoesOn(r) \/ (Passes(r) /\ ~Regular(r.minute))
    BY <1>1, <1>2, <1>3
  <1> QED BY <1>4 DEF r

\* A trade that is still to be published is wholly below the highest cumulative volume
\* of the session or wholly above it; one from before the open is below.
Fits(r) ==
    /\ r.cum < seen.top \/ seen.top <= r.cum - r.size
    /\ ~Regular(r.minute) => r.cum < seen.top
PendingFits == seen.day = Day(now) => \A i \in DOMAIN pending : Fits(pending[i])

\* The trades that remain when one is published, in their order.
LEMMA Remaining ==
    ASSUME OrderInv, NEW i \in DOMAIN pending, pending' = RemoveAt(pending, i)
    PROVE  \A j \in DOMAIN pending' : \E k \in DOMAIN pending :
               /\ k # i /\ pending'[j] = pending[k]
               /\ k < i => /\ pending[k].minute <= pending[i].minute
                           /\ pending[k].cum <= pending[i].cum - pending[i].size
               /\ k > i => /\ pending[i].minute <= pending[k].minute
                           /\ pending[i].cum <= pending[k].cum - pending[k].size
               /\ k < i \/ k > i
  <1>1. pending \in Seq(Record) BY DEF OrderInv, TypeInv, FeedTypeOK
  <1> DEFINE s == RemoveAt(pending, i)
  <1>2. \A j \in DOMAIN s : From(i, j) \in DOMAIN pending /\ From(i, j) # i
                            /\ s[j] = pending[From(i, j)]
    BY <1>1, RemoveFacts
  <1>3. pending' = s OBVIOUS
  <1> HIDE DEF s
  <1> SUFFICES ASSUME NEW j \in DOMAIN pending'
               PROVE  \E k \in DOMAIN pending :
                          /\ k # i /\ pending'[j] = pending[k]
                          /\ k < i => /\ pending[k].minute <= pending[i].minute
                                      /\ pending[k].cum <= pending[i].cum - pending[i].size
                          /\ k > i => /\ pending[i].minute <= pending[k].minute
                                      /\ pending[i].cum <= pending[k].cum - pending[k].size
                          /\ k < i \/ k > i
    OBVIOUS
  <1>4. PICK k \in DOMAIN pending : k # i /\ pending'[j] = pending[k] BY <1>2, <1>3
  <1>5. k \in Nat /\ i \in Nat BY <1>1, LenProperties
  <1>6. k < i \/ k > i BY <1>4, <1>5
  <1>7. /\ k < i => /\ pending[k].minute <= pending[i].minute
                    /\ pending[k].cum <= pending[i].cum - pending[i].size
        /\ k > i => /\ pending[i].minute <= pending[k].minute
                    /\ pending[i].cum <= pending[k].cum - pending[k].size
    BY <1>5 DEF OrderInv, PendingInOrder
  <1> QED BY <1>4, <1>6, <1>7

\* The publication of one trade leaves the others fit.
LEMMA PublishedFits ==
    ASSUME OrderInv, PendingFits, NEW i \in DOMAIN pending, pending' = RemoveAt(pending, i),
           now' = now, Counts(pending[i]) \/ Loses(pending[i])
    PROVE  PendingFits'
  <1> DEFINE r == pending[i]
  <1>1. TypeInv /\ PendingInOrder BY DEF OrderInv
  <1>2. /\ Day(r.minute) = Day(now) /\ r.minute \in Minutes /\ r.minute \in Nat
        /\ r.cum \in Nat /\ r.size \in Nat /\ r.size > 0 /\ seen.top \in Nat
    BY <1>1, Types DEF PendingInOrder
  <1>3. Starts(r) \/ GoesOn(r) \/ Passes(r) BY <1>1, SeenCases
  <1>4. CASE Passes(r) BY <1>2, <1>4 DEF Passes, PendingFits
  <1>5. CASE Starts(r) \/ GoesOn(r)
    <2> SUFFICES ASSUME NEW j \in DOMAIN pending' PROVE Fits(pending[j])'
      BY DEF PendingFits
    <2>1. PICK k \in DOMAIN pending :
               /\ k # i /\ pending'[j] = pending[k]
               /\ k < i => /\ pending[k].minute <= pending[i].minute
                           /\ pending[k].cum <= pending[i].cum - pending[i].size
               /\ k > i => /\ pending[i].minute <= pending[k].minute
                           /\ pending[i].cum <= pending[k].cum - pending[k].size
               /\ k < i \/ k > i
      BY Remaining
    <2> DEFINE p == pending[k]
    <2>2. /\ p.minute \in Minutes /\ p.minute \in Nat /\ p.cum \in Nat /\ p.size \in Nat
          /\ p.size > 0 /\ Day(p.minute) = Day(now)
      BY <1>1, Types DEF PendingInOrder
    <2>3. \/ p.cum < r.cum
          \/ r.cum <= p.cum - p.size /\ r.minute <= p.minute
      BY <1>2, <2>1, <2>2
    <2>4. p = pending'[j] BY <2>1
    <2>5. Fits(p) \/ Starts(r) BY <1>2, <1>5 DEF GoesOn, PendingFits
    <2>6. Regular(r.minute) /\ r.minute <= p.minute => Regular(p.minute)
      <3>1. r.minute <= p.minute => r.minute = p.minute \/ r.minute < p.minute BY <1>2, <2>2
      <3> QED BY <1>2, <2>2, <3>1, LaterIsRegular
    <2> HIDE DEF p, r
    <2>7. CASE Starts(r) BY <1>2, <2>2, <2>3, <2>4, <2>6, <2>7 DEF Starts, Fits
    <2>8. CASE GoesOn(r) /\ Fits(p)
      <3>1. seen'.top = IF seen.top >= r.cum THEN seen.top ELSE r.cum
        BY <2>8 DEF GoesOn, Higher
      <3> QED BY <1>2, <2>2, <2>3, <2>4, <2>8, <3>1 DEF Fits
    <2> QED BY <1>5, <2>5, <2>7, <2>8 DEF r
  <1> QED BY <1>3, <1>4, <1>5

LEMMA FitsStep ==
    ASSUME OrderInv, PendingFits, [Next]_vars
    PROVE  PendingFits'
  <1>1. TypeInv /\ PendingInOrder /\ DaysPass BY DEF OrderInv
  <1>2. pending \in Seq(Record) BY <1>1 DEF TypeInv, FeedTypeOK
  <1>3. /\ now \in Nat /\ seen.day \in Int /\ cum \in Nat /\ seen.top \in Nat /\ now \in Minutes
    BY <1>1, Types
  <1>4. ASSUME NEW i \in DOMAIN pending, TradeArrives(i) \/ SaveFails(i) \/ StopsAfterSave(i)
        PROVE  PendingFits'
    <2>1. /\ pending' = RemoveAt(pending, i) /\ now' = now
          /\ Counts(pending[i]) \/ Loses(pending[i])
      BY <1>4 DEF TradeArrives, SaveFails, StopsAfterSave, Publishes
    <2> QED BY <2>1, PublishedFits
  <1>5. CASE StreamStep \/ QuoteArrives \/ Stops \/ Breaks \/ UNCHANGED vars
             \/ \E symbol \in Symbols : PlansChange(symbol)
    <2>1. UNCHANGED <<now, pending>> /\ (seen' = seen \/ seen' = [seen EXCEPT !.whole = FALSE])
      BY <1>5 DEF StreamStep, Launched, ReadSubscriptions, Connected, Refresh, BackoffEnds,
                  OnlyStream, QuoteArrives, Stops, Breaks, PlansChange, vars, exchange, history
    <2>2. seen'.day = seen.day /\ seen'.top = seen.top
      BY <1>1, <2>1, NotWhole DEF TypeInv, HistoryTypeOK
    <2> QED BY <2>1, <2>2 DEF PendingFits, Fits
  <1>6. ASSUME NEW i \in DOMAIN pending, Missed(i) PROVE PendingFits'
    <2>1. pending' = RemoveAt(pending, i) /\ now' = now /\ seen' = seen
      BY <1>6 DEF Missed, history
    <2>2. \A j \in DOMAIN pending' : \E k \in DOMAIN pending : pending'[j] = pending[k]
      BY <2>1, Remaining
    <2> QED BY <2>1, <2>2 DEF PendingFits, Fits
  <1>7. CASE MinutePasses
    <2>1. /\ now' = now + 1 /\ pending' = pending /\ seen' = seen
          /\ Day(now') # Day(now) => pending = <<>>
      BY <1>7 DEF MinutePasses, history
    <2>2. CASE Day(now') = Day(now) BY <2>1, <2>2 DEF PendingFits, Fits
    <2>3. CASE pending' = <<>>
      <3>1. DOMAIN pending' = {} BY <2>3
      <3> QED BY <3>1 DEF PendingFits
    <2> QED BY <2>1, <2>2, <2>3
  <1>8. ASSUME NEW size \in Sizes, Prints(size) PROVE PendingFits'
    <2> DEFINE p == [minute |-> now, cum |-> cum + size, size |-> size]
    <2>1. /\ now' = now /\ seen' = seen /\ pending' = Append(pending, p)
          /\ size \in Nat
      BY <1>8, FeedAssumption DEF Prints, history
    <2>2. p \in Record BY <1>3, <2>1 DEF Record
    <2>3. p.minute = now /\ p.cum = cum + size /\ p.size = size OBVIOUS
    <2> HIDE DEF p
    <2>4. \A j \in DOMAIN pending' : pending'[j] = p \/ \E k \in DOMAIN pending : pending'[j] = pending[k]
      BY <1>2, <2>1, <2>2, AppendProperties, LenProperties
    <2>5. seen.day = Day(now) => Fits(p)
      BY <1>1, <1>3, <2>1, <2>3 DEF DaysPass, Fits
    <2> QED BY <2>1, <2>4, <2>5 DEF PendingFits, Fits
  <1> QED BY <1>4, <1>5, <1>6, <1>7, <1>8, StepCases DEF WorldStep, EndStep

\* What was saved is not more than what is in memory, so that a restart counts nothing
\* twice; and while records come in order, the sums go along with the exchange's.
VolumeSound ==
    /\ seen.orderly /\ prior.day = seen.day /\ seen.day # None => prior.cum = seen.top
    /\ seen.orderly => VolumeOf(completed, seen.day) <= seen.top - Base
    /\ seen.whole => session = seen.day
    /\ \A d \in Int : VolumeOf(load(disk), d) <= VolumeOf(completed, d)
CountedFromBase ==
    session # None /\ session = seen.day /\ seen.orderly =>
        /\ volume <= seen.top - Base
        /\ seen.whole => volume = seen.top - Base

\* A trade of the session that is still to be published is after the open.
PendingSinceOpen ==
    \A i \in DOMAIN pending :
        Regular(pending[i].minute) => opened <= pending[i].cum - pending[i].size

VolumeInv ==
    /\ OrderInv /\ SessionIsBars /\ PendingFits /\ PendingSinceOpen
    /\ VolumeSound /\ CountedFromBase

LEMMA SinceOpenStep ==
    ASSUME OrderInv, PendingSinceOpen, [Next]_vars
    PROVE  PendingSinceOpen'
  <1>1. TypeInv /\ PendingInOrder BY DEF OrderInv
  <1>2. pending \in Seq(Record) /\ now \in Minutes /\ now \in Nat /\ cum \in Nat
    BY <1>1, Types
  <1>3. ASSUME opened' = opened,
               \A j \in DOMAIN pending' : \E k \in DOMAIN pending : pending'[j] = pending[k]
        PROVE  PendingSinceOpen'
    <2> SUFFICES ASSUME NEW j \in DOMAIN pending', Regular(pending'[j].minute)
                 PROVE  opened' <= pending'[j].cum - pending'[j].size
      BY DEF PendingSinceOpen
    <2>1. PICK k \in DOMAIN pending : pending'[j] = pending[k] BY <1>3
    <2>2. opened <= pending[k].cum - pending[k].size BY <2>1 DEF PendingSinceOpen
    <2> QED BY <1>3, <2>1, <2>2
  <1>4. ASSUME NEW i \in DOMAIN pending, pending' = RemoveAt(pending, i), opened' = opened
        PROVE  PendingSinceOpen'
    <2>1. \A j \in DOMAIN pending' : \E k \in DOMAIN pending : pending'[j] = pending[k]
      BY <1>4, Remaining
    <2> QED BY <1>3, <1>4, <2>1
  <1>5. ASSUME NEW i \in DOMAIN pending,
               TradeArrives(i) \/ SaveFails(i) \/ StopsAfterSave(i) \/ Missed(i)
        PROVE  PendingSinceOpen'
    <2>1. pending' = RemoveAt(pending, i) /\ opened' = opened
      BY <1>5 DEF TradeArrives, SaveFails, StopsAfterSave, Publishes, Missed
    <2> QED BY <1>4, <2>1
  <1>6. CASE StreamStep \/ QuoteArrives \/ Stops \/ Breaks \/ UNCHANGED vars
             \/ \E symbol \in Symbols : PlansChange(symbol)
    <2>1. pending' = pending /\ opened' = opened
      BY <1>6 DEF StreamStep, Launched, ReadSubscriptions, Connected, Refresh, BackoffEnds,
                  OnlyStream, QuoteArrives, Stops, Breaks, PlansChange, vars, exchange
    <2>2. \A j \in DOMAIN pending' : \E k \in DOMAIN pending : pending'[j] = pending[k]
      BY <2>1
    <2> QED BY <1>3, <2>1, <2>2
  <1>7. CASE MinutePasses
    <2>1. /\ pending' = pending /\ (Day(now') # Day(now) => pending = <<>>)
          /\ opened' = IF Day(now') = Day(now) THEN opened ELSE 0
      BY <1>7 DEF MinutePasses
    <2>2. CASE Day(now') = Day(now)
      <3>1. \A j \in DOMAIN pending' : \E k \in DOMAIN pending : pending'[j] = pending[k]
        BY <2>1
      <3> QED BY <1>3, <2>1, <2>2, <3>1
    <2>3. CASE pending' = <<>>
      <3>1. DOMAIN pending' = {} BY <2>3
      <3> QED BY <3>1 DEF PendingSinceOpen
    <2> QED BY <2>1, <2>2, <2>3
  <1>8. ASSUME NEW size \in Sizes, Prints(size) PROVE PendingSinceOpen'
    <2> DEFINE p == [minute |-> now, cum |-> cum + size, size |-> size]
    <2>1. /\ pending' = Append(pending, p) /\ size \in Nat
          /\ opened' = IF Regular(now) THEN opened ELSE cum'
      BY <1>8, FeedAssumption DEF Prints
    <2>2. p \in Record BY <1>2, <2>1 DEF Record
    <2>3. p.minute = now /\ p.cum - p.size = cum
      <3>1. \A a, b \in Nat : (a + b) - b = a OBVIOUS
      <3> QED BY <1>2, <2>1, <3>1
    <2> HIDE DEF p
    <2>4. \A j \in DOMAIN pending' :
              pending'[j] = p \/ \E k \in DOMAIN pending : pending'[j] = pending[k]
      BY <1>2, <2>1, <2>2, AppendProperties, LenProperties
    <2>5. CASE Regular(now)
      <3>1. opened' = opened /\ opened <= p.cum - p.size
        BY <1>1, <2>1, <2>3, <2>5 DEF TypeInv, FeedTypeOK
      <3> SUFFICES ASSUME NEW j \in DOMAIN pending', Regular(pending'[j].minute)
                   PROVE  opened' <= pending'[j].cum - pending'[j].size
        BY DEF PendingSinceOpen
      <3>2. CASE pending'[j] = p BY <3>1, <3>2
      <3>3. ASSUME NEW k \in DOMAIN pending, pending'[j] = pending[k]
            PROVE  opened' <= pending'[j].cum - pending'[j].size
        <4>1. opened <= pending[k].cum - pending[k].size BY <3>3 DEF PendingSinceOpen
        <4> QED BY <3>1, <3>3, <4>1
      <3> QED BY <2>4, <3>2, <3>3
    <2>6. CASE ~Regular(now)
      <3>1. ASSUME NEW k \in DOMAIN pending PROVE ~Regular(pending[k].minute)
        <4>1. /\ pending[k].minute \in Minutes /\ pending[k].minute \in Nat
              /\ pending[k].minute <= now /\ Day(pending[k].minute) = Day(now)
          BY <1>1, Types DEF PendingInOrder
        <4>2. pending[k].minute = now \/ pending[k].minute < now BY <1>2, <4>1
        <4> QED BY <1>2, <2>6, <4>1, <4>2, LaterIsRegular
      <3>2. \A j \in DOMAIN pending' : ~Regular(pending'[j].minute)
        BY <2>3, <2>4, <2>6, <3>1
      <3> QED BY <3>2 DEF PendingSinceOpen
    <2> QED BY <2>5, <2>6
  <1> QED BY <1>5, <1>6, <1>7, <1>8, StepCases DEF WorldStep, EndStep

\* What the first record of a session adds is what was traded since the open and what
\* leaked in; or less, when a record of the day was after the open and was lost.
LEMMA StartsFromBase ==
    ASSUME VolumeInv, NEW i \in DOMAIN pending, Starts(pending[i])
    PROVE  /\ Quantity(pending[i]) <= seen'.top - Base'
           /\ seen'.whole => Quantity(pending[i]) = seen'.top - Base'
  <1> DEFINE r == pending[i]
             q == Quantity(r)
             c == prior.cum
  <1>1. TypeInv BY DEF VolumeInv, OrderInv
  <1>2. /\ r.cum \in Nat /\ r.size \in Nat /\ r.size > 0 /\ c \in Nat /\ opened \in Nat
    BY <1>1, Types
  <1>3. Regular(r.minute) /\ opened <= r.cum - r.size
    BY DEF Starts, VolumeInv, PendingSinceOpen
  <1>4. /\ Base' = opened - Leaked(r) /\ seen'.top = r.cum
        /\ seen'.whole = IF prior.day = Day(r.minute) THEN c <= opened
                         ELSE r.cum - r.size = opened
    BY DEF Starts
  <1>5. /\ q = IF prior.day = Day(r.minute) /\ r.cum >= c THEN r.cum - c ELSE r.size
        /\ Leaked(r) = IF prior.day = Day(r.minute) /\ c < opened THEN opened - c ELSE 0
    BY DEF Quantity, Leaked
  <1> DEFINE base == Base'
             top == seen'.top
             whole == seen'.whole
             leaked == Leaked(r)
             rc == r.cum
             rs == r.size
             sameDay == prior.day = Day(r.minute)
  <1>6. /\ base = opened - leaked /\ top = rc
        /\ sameDay => whole = (c <= opened)
        /\ ~sameDay => whole = (rc - rs = opened)
    BY <1>4
  <1>7. /\ sameDay /\ rc >= c => q = rc - c
        /\ ~(sameDay /\ rc >= c) => q = rs
        /\ sameDay /\ c < opened => leaked = opened - c
        /\ ~(sameDay /\ c < opened) => leaked = 0
    BY <1>5
  <1>8. rc \in Nat /\ rs \in Nat /\ rs > 0 /\ c \in Nat /\ opened \in Nat /\ opened <= rc - rs
    BY <1>2, <1>3
  <1> SUFFICES q <= top - base /\ (whole => q = top - base) OBVIOUS
  <1> HIDE DEF r, q, c, base, top, whole, leaked, rc, rs, sameDay
  <1>9. CASE ~sameDay
    <2>1. q = rs /\ leaked = 0 /\ (whole => rc - rs = opened) BY <1>6, <1>7, <1>9
    <2> QED BY <1>6, <1>8, <2>1
  <1>10. CASE sameDay /\ c < opened
    <2>1. rc >= c BY <1>8, <1>10
    <2>2. q = rc - c /\ leaked = opened - c BY <1>7, <1>10, <2>1
    <2> QED BY <1>6, <1>8, <2>2
  <1>11. CASE sameDay /\ ~(c < opened)
    <2>1. leaked = 0 /\ (whole => c <= opened) BY <1>6, <1>7, <1>11
    <2>2. CASE rc >= c
      <3>1. q = rc - c BY <1>7, <1>11, <2>2
      <3> QED BY <1>6, <1>8, <1>11, <2>1, <3>1
    <2>3. CASE ~(rc >= c)
      <3>1. q = rs /\ ~(c <= opened) BY <1>7, <1>8, <1>11, <2>3
      <3> QED BY <1>6, <1>8, <2>1, <3>1
    <2> QED BY <2>2, <2>3
  <1> QED BY <1>9, <1>10, <1>11

\* A record in order adds what the exchange has traded since the record before, or less
\* when it is the first after a restart.
LEMMA InOrder ==
    ASSUME VolumeInv, NEW i \in DOMAIN pending, seen.day = Day(pending[i].minute),
           seen.orderly, pending[i].cum >= seen.top
    PROVE  /\ Regular(pending[i].minute)
           /\ Quantity(pending[i]) <= pending[i].cum - seen.top
           /\ prior.day = seen.day => Quantity(pending[i]) = pending[i].cum - seen.top
  <1> DEFINE r == pending[i]
  <1>1. TypeInv /\ PendingInOrder BY DEF VolumeInv, OrderInv
  <1>2. /\ Day(r.minute) = Day(now) /\ Day(r.minute) \in Nat
        /\ r.cum \in Nat /\ r.size \in Nat /\ seen.top \in Nat /\ prior.cum \in Nat
    BY <1>1, Types DEF PendingInOrder
  <1>3. Fits(r) BY <1>2 DEF VolumeInv, PendingFits
  <1>4. Regular(r.minute) /\ seen.top <= r.cum - r.size BY <1>2, <1>3 DEF Fits
  <1>5. prior.day = seen.day => prior.cum = seen.top
    BY <1>2 DEF VolumeInv, VolumeSound, None
  <1> HIDE DEF r
  <1>6. seen.day = Day(r.minute) /\ r.cum >= seen.top BY DEF r
  <1>7. CASE prior.day = seen.day
    <2>1. Quantity(r) = r.cum - prior.cum BY <1>2, <1>5, <1>6, <1>7 DEF Quantity
    <2> QED BY <1>2, <1>4, <1>5, <1>7, <2>1 DEF r
  <1>8. CASE prior.day # seen.day
    <2>1. Quantity(r) = r.size BY <1>6, <1>8 DEF Quantity
    <2> QED BY <1>2, <1>4, <1>8, <2>1 DEF r
  <1> QED BY <1>7, <1>8

\* A bar that is saved adds at most its own volume to the disk, and that to memory.
LEMMA SavedVolume ==
    ASSUME TypeInv, VolumeSound, current \in Bar, NEW d \in Int
    PROVE  /\ VolumeOf(load(save(disk, current)), d) <= VolumeOf(Append(completed, current), d)
           /\ VolumeOf(Append(completed, current), d) = Plus(VolumeOf(completed, d), current, d)
           /\ VolumeOf(load(save(disk, current)), d) \in Nat
           /\ VolumeOf(completed, d) \in Nat
  <1>1. /\ disk \in Rows /\ completed \in Seq(Bar) /\ current.volume \in Nat
        /\ current.start \in Minutes
    BY Types
  <1>2. load(disk) \in Seq(Bar) BY <1>1, LoadFacts
  <1>3. VolumeOf(load(disk), d) \in Nat /\ VolumeOf(completed, d) \in Nat
    BY <1>1, <1>2, VolumeType
  <1>4. VolumeOf(load(disk), d) <= VolumeOf(completed, d) BY DEF VolumeSound
  <1>5. VolumeOf(load(save(disk, current)), d) <= Plus(VolumeOf(load(disk), d), current, d)
    BY <1>1, SaveAdds
  <1>6. VolumeOf(Append(completed, current), d) = Plus(VolumeOf(completed, d), current, d)
    BY <1>1, VolumeAppend
  <1>7. save(disk, current) \in Rows BY <1>1 DEF save, Rows
  <1>8. VolumeOf(load(save(disk, current)), d) \in Nat BY <1>7, LoadFacts, VolumeType
  <1> QED BY <1>1, <1>3, <1>4, <1>5, <1>6, <1>8 DEF Plus

LEMMA TradeVolume ==
    ASSUME VolumeInv, NEW i \in DOMAIN pending, TradeArrives(i), OrderInv'
    PROVE  VolumeSound' /\ CountedFromBase'
  <1> DEFINE r == pending[i]
             m == r.minute
             q == Quantity(r)
  <1>1. /\ OrderInv /\ SessionIsBars /\ PendingFits /\ VolumeSound /\ CountedFromBase
        /\ TypeInv /\ PendingInOrder /\ DaysPass /\ BarsOfSession
        /\ TypeInv' /\ BarsOfSession'
    BY DEF VolumeInv, OrderInv
  <1>2. /\ m \in Minutes /\ m \in Nat /\ q \in Nat /\ Day(m) \in Nat /\ r.cum \in Nat
        /\ Day(m) = Day(now) /\ seen.top \in Nat /\ Base \in Int /\ seen.day \in Int
        /\ prior.day \in Int /\ session \in Int /\ volume \in Nat
        /\ completed \in Seq(Bar) /\ completed' \in Seq(Bar) /\ volume' \in Nat
    <2>1. completed' \in Seq(Bar) /\ volume' \in Nat BY <1>1 DEF TypeInv, FeedTypeOK
    <2>2. q \in Nat BY <1>1, RecordFacts
    <2> QED BY <1>1, <2>1, <2>2, Types DEF PendingInOrder
  <1>3. prior' = [day |-> Day(m), cum |-> r.cum] /\ Counts(r) BY DEF TradeArrives
  <1>4. Counted(m, q) \/ Ignored(m) BY <1>1, TradeCases
  <1>5. Starts(r) \/ GoesOn(r) \/ (Passes(r) /\ ~Regular(m)) BY <1>1, <1>3, SeenCases
  <1>6. seen.day = Day(m) /\ seen.orderly /\ r.cum >= seen.top =>
            /\ Regular(m) /\ q <= r.cum - seen.top
            /\ prior.day = seen.day => q = r.cum - seen.top
    BY InOrder
  <1>7. Counted(m, q) => volume' = VolumeOf(completed', session') + current'.volume
    BY <1>1, <1>2, CountedVolume
  <1>8. prior'.day = Day(m) /\ prior'.cum = r.cum BY <1>3
  <1> HIDE DEF m, q, r
  <1>9. CASE Ignored(m)
    <2>1. ~Regular(m) /\ UNCHANGED <<session, completed, current, volume, disk>>
      BY <1>9 DEF Ignored, calculator
    <2>2. ~Starts(r) BY <2>1 DEF Starts, m
    <2>3. CASE Passes(r)
      <3>1. prior'.day # seen'.day BY <1>8, <2>3 DEF Passes, m
      <3>2. VolumeSound' BY <1>1, <2>1, <2>3, <3>1 DEF VolumeSound, Passes
      <3>3. CountedFromBase' BY <1>1, <2>1, <2>3 DEF CountedFromBase, Passes
      <3> QED BY <3>2, <3>3
    <2>4. CASE GoesOn(r)
      <3>1. ~seen'.orderly /\ seen'.day = seen.day BY <1>6, <2>1, <2>4 DEF GoesOn, m
      <3>2. seen'.whole => seen.whole BY <2>4 DEF GoesOn
      <3>3. VolumeSound' BY <1>1, <2>1, <3>1, <3>2 DEF VolumeSound
      <3>4. CountedFromBase' BY <3>1 DEF CountedFromBase
      <3> QED BY <3>3, <3>4
    <2> QED BY <1>5, <2>2, <2>3, <2>4
  <1>10. CASE Counted(m, q)
    <2>1. /\ Regular(m) /\ session' = Day(m) /\ volume' = SessionStart(m) + q
          /\ current' \in Bar /\ disk' \in Rows /\ CompletedAfter(m) = completed'
      BY <1>1, <1>2, <1>10, CountedTypes DEF Counted
    <2>2. current'.volume \in Nat /\ VolumeOf(completed', Day(m)) \in Nat
          /\ VolumeOf(completed, Day(m)) \in Nat
      BY <1>2, <2>1, VolumeType DEF Bar
    <2>3. seen'.day = Day(m) BY <1>5, <2>1 DEF Starts, GoesOn, m
    <2>4. seen'.orderly => prior'.cum = seen'.top
      <3>1. CASE Starts(r) BY <1>8, <3>1 DEF Starts
      <3>2. CASE GoesOn(r)
        <4>1. seen'.orderly => r.cum >= seen.top BY <3>2 DEF GoesOn
        <4>2. seen'.top = IF seen.top >= r.cum THEN seen.top ELSE r.cum
          BY <3>2 DEF GoesOn, Higher
        <4> QED BY <1>2, <1>8, <4>1, <4>2
      <3> QED BY <1>5, <2>1, <3>1, <3>2
    <2>5. \A d \in Int : VolumeOf(load(disk'), d) <= VolumeOf(completed', d)
      <3>1. CASE UNCHANGED <<completed, disk>> BY <1>1, <3>1 DEF VolumeSound
      <3>2. CASE Turns(m, q)
        BY <1>1, <3>2, SavedVolume DEF Turns
      <3> QED BY <1>10, <3>1, <3>2 DEF Counted, Begins, Merges
    <2>6. seen'.orderly =>
              /\ volume' <= seen'.top - Base'
              /\ seen'.whole => volume' = seen'.top - Base'
      <3>1. CASE Starts(r)
        <4>1. /\ q <= seen'.top - Base' /\ (seen'.whole => q = seen'.top - Base')
              /\ seen.day # Day(m)
          BY <3>1, StartsFromBase DEF Starts, m, q, r
        <4>2. session # Day(m)
          BY <1>1, <1>2, <4>1 DEF BarsOfSession, None
        <4>3. VolumeOf(completed', Day(m)) = 0
          <5>1. seen.day < Day(m) BY <1>1, <1>2, <4>1 DEF DaysPass
          <5>2. \A j \in DOMAIN completed : Day(completed[j].start) < Day(m)
            <6>1. \A j \in DOMAIN completed : /\ Day(completed[j].start) <= seen.day
                                              /\ Day(completed[j].start) \in Nat
              BY <1>1, Types DEF BarsOfSession
            <6> QED BY <1>2, <5>1, <6>1
          <5>3. current # NoBar => Day(current.start) < Day(m)
            BY <1>1, <5>1 DEF BarsOfSession
          <5>4. VolumeOf(completed, Day(m)) = 0 BY <1>2, <5>2, VolumeOfNone
          <5>5. CASE completed' = completed BY <5>4, <5>5
          <5>6. CASE Turns(m, q)
            <6>1. VolumeOf(completed', Day(m)) = Plus(VolumeOf(completed, Day(m)), current, Day(m))
              BY <1>2, <5>6, VolumeAppend DEF Turns
            <6>2. Day(current.start) # Day(m)
              BY <1>1, <1>2, <5>3, <5>6, NoBarFacts, Types DEF Turns
            <6> QED BY <5>4, <6>1, <6>2 DEF Plus
          <5> QED BY <1>10, <5>5, <5>6 DEF Counted, Begins, Merges
        <4>4. volume' = q BY <1>2, <2>1, <4>2, <4>3 DEF SessionStart
        <4> QED BY <4>1, <4>4
      <3>2. CASE GoesOn(r)
        <4> SUFFICES ASSUME seen'.orderly
                     PROVE  /\ volume' <= seen'.top - Base'
                            /\ seen'.whole => volume' = seen'.top - Base'
          OBVIOUS
        <4>1. /\ seen.orderly /\ r.cum >= seen.top /\ seen.day = Day(m)
              /\ Base' = Base /\ (seen'.whole => seen.whole)
              /\ seen'.top = Higher(seen.top, r.cum)
          BY <3>2 DEF GoesOn, m
        <4>2. seen'.top = r.cum BY <1>2, <4>1 DEF Higher
        <4>3. q <= r.cum - seen.top /\ (prior.day = seen.day => q = r.cum - seen.top)
          BY <1>6, <4>1
        <4>4. CASE session = Day(m)
          <5>1. volume' = volume + q BY <2>1, <4>4 DEF SessionStart
          <5>2. /\ volume <= seen.top - Base
                /\ seen.whole => volume = seen.top - Base
            BY <1>1, <1>2, <4>1, <4>4 DEF CountedFromBase, None
          <5>3. prior.day = seen.day
            BY <1>1, <1>2, <4>1, <4>4 DEF BarsOfSession, DaysPass, None
          <5>4. volume' <= r.cum - Base BY <1>2, <4>3, <5>1, <5>2
          <5>5. seen.whole => volume' = r.cum - Base
            <6>1. q = r.cum - seen.top BY <4>3, <5>3
            <6>2. \A a, b, c \in Int : (a - b) + (c - a) = c - b OBVIOUS
            <6>3. seen.whole => volume' = (seen.top - Base) + (r.cum - seen.top)
              BY <5>1, <5>2, <6>1
            <6> QED BY <1>2, <6>2, <6>3
          <5> QED BY <4>1, <4>2, <5>4, <5>5
        <4>5. CASE session # Day(m)
          <5>1. ~seen'.whole BY <1>1, <4>1, <4>5 DEF VolumeSound
          <5>2. session = None /\ current = NoBar BY <1>1, <4>1, <4>5 DEF BarsOfSession
          <5>3. completed' = completed
            BY <1>10, <5>2, NoBarFacts DEF Counted, Begins, Turns, Merges
          <5>4. volume' = VolumeOf(completed, Day(m)) + q BY <2>1, <4>5, <5>3 DEF SessionStart
          <5>5. VolumeOf(completed, Day(m)) <= seen.top - Base
            BY <1>1, <4>1 DEF VolumeSound
          <5>6. volume' <= r.cum - Base
            <6> DEFINE v == VolumeOf(completed, Day(m))
            <6>1. v \in Nat /\ volume' = v + q /\ v <= seen.top - Base
              BY <2>2, <5>4, <5>5
            <6> HIDE DEF v
            <6> QED BY <1>2, <4>3, <6>1
          <5> QED BY <4>1, <4>2, <5>1, <5>6
        <4> QED BY <4>4, <4>5
      <3> QED BY <1>5, <2>1, <3>1, <3>2
    <2>7. seen'.orderly => VolumeOf(completed', seen'.day) <= seen'.top - Base'
      <3>1. volume' = VolumeOf(completed', Day(m)) + current'.volume BY <1>7, <1>10, <2>1
      <3>2. seen'.top \in Int /\ Base' \in Int BY <1>1 DEF TypeInv, HistoryTypeOK, Seen, Base
      <3> QED BY <1>2, <2>2, <2>3, <2>6, <3>1, <3>2
    <2>8. VolumeSound' BY <2>1, <2>3, <2>4, <2>5, <2>7 DEF VolumeSound
    <2>9. CountedFromBase' BY <2>6 DEF CountedFromBase
    <2> QED BY <2>8, <2>9
  <1> QED BY <1>4, <1>9, <1>10

LEMMA EndVolume ==
    ASSUME VolumeInv, EndStep, OrderInv'
    PROVE  VolumeSound' /\ CountedFromBase'
  <1>1. /\ OrderInv /\ SessionIsBars /\ VolumeSound /\ CountedFromBase
        /\ TypeInv /\ DaysPass /\ BarsOfSession /\ TypeInv'
    BY DEF VolumeInv, OrderInv
  <1>2. /\ completed \in Seq(Bar) /\ disk \in Rows /\ volume \in Nat /\ seen.day \in Int
        /\ seen.top \in Nat /\ Base \in Int /\ current.volume \in Nat
    BY <1>1, Types
  <1>3. CASE Stops
    <2>1. /\ Forgets(disk) /\ seen' = [seen EXCEPT !.whole = FALSE] /\ disk' = disk
      BY <1>3 DEF Stops
    <2>2. /\ seen'.day = seen.day /\ seen'.top = seen.top /\ Base' = Base
          /\ seen'.orderly = seen.orderly /\ ~seen'.whole
      BY <1>1, <2>1, NotWhole DEF TypeInv, HistoryTypeOK, Base
    <2>3. prior' = NoPrior /\ session' = None /\ completed' = load(disk)
      BY <1>1, <1>2, <2>1, ForgetsType
    <2>4. prior'.day = None BY <2>3 DEF NoPrior
    <2>5. load(disk) \in Seq(Bar) BY <1>2, LoadFacts
    <2>6. VolumeOf(load(disk), seen.day) \in Nat /\ VolumeOf(completed, seen.day) \in Nat
      BY <1>2, <2>5, VolumeType
    <2>7. \A d \in Int : VolumeOf(load(disk), d) \in Nat BY <2>5, VolumeType
    <2>8. seen'.orderly => VolumeOf(completed', seen'.day) <= seen'.top - Base'
      <3>1. VolumeOf(load(disk), seen.day) <= VolumeOf(completed, seen.day)
        BY <1>1, <1>2 DEF VolumeSound
      <3>2. seen.orderly => VolumeOf(completed, seen.day) <= seen.top - Base
        BY <1>1 DEF VolumeSound
      <3>3. seen.orderly => VolumeOf(load(disk), seen.day) <= seen.top - Base
        BY <1>2, <2>6, <3>1, <3>2
      <3> QED BY <2>2, <2>3, <3>3
    <2>9. \A d \in Int : VolumeOf(load(disk'), d) <= VolumeOf(completed', d)
      BY <2>1, <2>3, <2>7
    <2> QED BY <2>2, <2>3, <2>4, <2>8, <2>9 DEF VolumeSound, CountedFromBase
  <1>4. CASE Breaks
    <2>1. UNCHANGED <<prior, session, completed, volume, disk, seen>>
      BY <1>4 DEF Breaks, bridge, calculator, history
    <2> QED BY <1>1, <2>1 DEF VolumeSound, CountedFromBase, Base
  <1>5. ASSUME NEW i \in DOMAIN pending, Loses(pending[i])
        PROVE  /\ seen'.day = seen.day /\ Base' = Base /\ seen'.top \in Nat
               /\ seen.top <= seen'.top /\ (seen'.orderly => seen.orderly) /\ ~seen'.whole
               /\ seen.day = Day(pending[i].minute) /\ seen'.orderly => seen'.top = pending[i].cum
    <2> DEFINE r == pending[i]
    <2>1. r.cum \in Nat BY <1>1, Types
    <2> HIDE DEF r
    <2>2. (Passes(r) \/ GoesOn(r)) /\ ~seen'.whole BY <1>1, <1>5, SeenCases DEF r
    <2>3. CASE Passes(r) BY <1>2, <2>2, <2>3 DEF Passes, r
    <2>4. CASE GoesOn(r)
      <3>1. seen'.top = IF seen.top >= r.cum THEN seen.top ELSE r.cum
        BY <2>4 DEF GoesOn, Higher
      <3>2. seen.top <= seen'.top /\ seen'.top \in Nat BY <1>2, <2>1, <3>1
      <3>3. seen'.orderly => seen.orderly /\ r.cum >= seen.top BY <2>4 DEF GoesOn
      <3>4. seen'.orderly => seen'.top = r.cum BY <1>2, <2>1, <3>1, <3>3
      <3> QED BY <2>2, <2>4, <3>2, <3>3, <3>4 DEF GoesOn, r
    <2> QED BY <2>2, <2>3, <2>4
  <1>6. ASSUME NEW i \in DOMAIN pending, SaveFails(i) PROVE VolumeSound' /\ CountedFromBase'
    <2>1. /\ Loses(pending[i])
          /\ prior' = [day |-> Day(pending[i].minute), cum |-> pending[i].cum]
          /\ UNCHANGED <<session, completed, volume, disk>>
      BY <1>6 DEF SaveFails, calculator
    <2>2. prior'.day = Day(pending[i].minute) /\ prior'.cum = pending[i].cum BY <2>1
    <2>3. /\ seen'.day = seen.day /\ Base' = Base /\ seen'.top \in Nat
          /\ seen.top <= seen'.top /\ (seen'.orderly => seen.orderly) /\ ~seen'.whole
          /\ seen.day = Day(pending[i].minute) /\ seen'.orderly => seen'.top = pending[i].cum
      BY <1>5, <2>1
    <2>4. VolumeOf(completed, seen.day) \in Nat BY <1>2, VolumeType
    <2>5. seen'.orderly => VolumeOf(completed', seen'.day) <= seen'.top - Base'
      <3>1. seen.orderly => VolumeOf(completed, seen.day) <= seen.top - Base
        BY <1>1 DEF VolumeSound
      <3>2. seen'.orderly => VolumeOf(completed, seen.day) <= seen'.top - Base
        BY <1>2, <2>3, <2>4, <3>1
      <3> QED BY <2>1, <2>3, <3>2
    <2>6. VolumeSound' BY <1>1, <2>1, <2>2, <2>3, <2>5 DEF VolumeSound
    <2>7. session # None /\ session = seen.day /\ seen'.orderly => volume <= seen'.top - Base
      <3>1. session # None /\ session = seen.day /\ seen.orderly => volume <= seen.top - Base
        BY <1>1 DEF CountedFromBase
      <3> QED BY <1>2, <2>3, <3>1
    <2>8. CountedFromBase' BY <2>1, <2>3, <2>7 DEF CountedFromBase
    <2> QED BY <2>6, <2>8
  <1>7. ASSUME NEW i \in DOMAIN pending, StopsAfterSave(i) PROVE VolumeSound' /\ CountedFromBase'
    <2>1. /\ Loses(pending[i]) /\ Completes(pending[i].minute)
          /\ disk' = save(disk, current) /\ Forgets(disk')
      BY <1>7 DEF StopsAfterSave
    <2>2. current \in Bar /\ Day(current.start) = seen.day /\ session = seen.day
      BY <1>1, <2>1, TurnsLater
    <2>3. disk' \in Rows BY <1>1 DEF TypeInv, HistoryTypeOK
    <2>4. prior' = NoPrior /\ session' = None /\ completed' = load(disk')
      BY <1>1, <2>1, <2>3, ForgetsType
    <2>5. prior'.day = None BY <2>4 DEF NoPrior
    <2>6. /\ seen'.day = seen.day /\ Base' = Base /\ seen'.top \in Nat
          /\ seen.top <= seen'.top /\ (seen'.orderly => seen.orderly) /\ ~seen'.whole
      BY <1>5, <2>1
    <2>7. \A d \in Int : VolumeOf(load(disk'), d) <= VolumeOf(completed', d)
      BY <2>3, <2>4, LoadFacts, VolumeType
    <2>8. seen'.orderly => VolumeOf(completed', seen'.day) <= seen'.top - Base'
      <3> DEFINE v == VolumeOf(load(save(disk, current)), seen.day)
                 w == VolumeOf(completed, seen.day)
      <3>1. /\ v <= VolumeOf(Append(completed, current), seen.day)
            /\ VolumeOf(Append(completed, current), seen.day) = Plus(w, current, seen.day)
            /\ v \in Nat /\ w \in Nat
        BY <1>1, <1>2, <2>2, SavedVolume
      <3>2. Plus(w, current, seen.day) = w + current.volume BY <2>2 DEF Plus
      <3>3. session # None BY <1>1, <2>2, NoBarFacts DEF BarsOfSession
      <3>4. volume = w + current.volume
        BY <1>1, <2>2, <3>3, NoBarFacts DEF SessionIsBars
      <3>5. seen.orderly => volume <= seen.top - Base
        BY <1>1, <2>2, <3>3 DEF CountedFromBase
      <3>6. completed' = load(save(disk, current)) BY <2>1, <2>4
      <3>7. VolumeOf(completed', seen'.day) = v BY <2>6, <3>6
      <3> HIDE DEF v, w
      <3>8. v <= volume BY <3>1, <3>2, <3>4
      <3>9. seen'.orderly => v <= seen'.top - Base BY <1>2, <2>6, <3>1, <3>5, <3>8
      <3> QED BY <2>6, <3>7, <3>9
    <2> QED BY <2>4, <2>5, <2>6, <2>7, <2>8 DEF VolumeSound, CountedFromBase
  <1> QED BY <1>3, <1>4, <1>6, <1>7 DEF EndStep

LEMMA VolumeStep ==
    ASSUME VolumeInv, [Next]_vars
    PROVE  VolumeInv'
  <1>1. /\ OrderInv /\ SessionIsBars /\ PendingFits /\ PendingSinceOpen
        /\ VolumeSound /\ CountedFromBase
    BY DEF VolumeInv
  <1>2. OrderInv' /\ SessionIsBars' /\ PendingFits' /\ PendingSinceOpen'
    BY <1>1, OrderStep, SessionStep, FitsStep, SinceOpenStep
  <1>3. CASE WorldStep \/ StreamStep \/ QuoteArrives
    <2>1. UNCHANGED <<prior, session, completed, volume, disk, seen>>
      BY <1>3, WorldKeeps DEF StreamStep, Launched, ReadSubscriptions, Connected, Refresh,
            BackoffEnds, OnlyStream, QuoteArrives, bridge, calculator, history
    <2>2. VolumeSound' /\ CountedFromBase' BY <1>1, <2>1 DEF VolumeSound, CountedFromBase, Base
    <2> QED BY <1>2, <2>2 DEF VolumeInv
  <1>4. CASE EndStep \/ \E i \in DOMAIN pending : TradeArrives(i)
    BY <1>2, <1>4, EndVolume, TradeVolume DEF VolumeInv
  <1> QED BY <1>3, <1>4, StepCases

LEMMA VolumeInit == Init => VolumeInv
  <1> SUFFICES ASSUME Init PROVE VolumeInv OBVIOUS
  <1>1. OrderInv BY OrderInit
  <1>2. SessionIsBars /\ CountedFromBase BY DEF Init, SessionIsBars, CountedFromBase
  <1>3. DOMAIN pending = {} /\ completed = <<>> BY DEF Init
  <1>4. PendingFits /\ PendingSinceOpen BY <1>3 DEF PendingFits, PendingSinceOpen
  <1>5. ASSUME NEW d \in Int PROVE VolumeOf(load(disk), d) <= VolumeOf(completed, d)
    <2>1. disk \in Rows BY <1>1, Types DEF OrderInv
    <2>2. load(disk) \in Seq(Bar) BY <2>1, LoadFacts
    <2>3. ASSUME NEW j \in DOMAIN load(disk) PROVE FALSE
      <3>1. load(disk)[j] \in Bar /\ disk[load(disk)[j].start] = load(disk)[j].volume
        BY <2>1, <2>2, LoadFacts, LenProperties, ElementOfSeq
      <3>2. load(disk)[j].start \in Minutes /\ load(disk)[j].volume \in Nat BY <3>1 DEF Bar
      <3>3. disk[load(disk)[j].start] = None BY <3>2 DEF Init, Unsaved
      <3> QED BY <3>1, <3>2, <3>3 DEF None
    <2>4. VolumeOf(load(disk), d) = 0 BY <2>2, <2>3, VolumeOfNone
    <2>5. VolumeOf(completed, d) = 0 BY <1>3, VolumeEmpty
    <2> QED BY <2>4, <2>5
  <1>6. VolumeOf(completed, seen.day) = 0 BY <1>3, VolumeEmpty
  <1>7. seen.day = None /\ session = None /\ seen.top = 0 /\ Base = 0 BY DEF Init, Base
  <1>8. VolumeSound BY <1>5, <1>6, <1>7 DEF VolumeSound
  <1> QED BY <1>1, <1>2, <1>4, <1>8 DEF VolumeInv

\* While records come in order nothing is counted twice.  With no restart or failed save
\* what was traded since the open is counted, what was missed included, and also what
\* leaked in of the premarket, by no more than that.
THEOREM VolumeAgrees == FeedSpec => []VolumeExact
  <1>1. Init => VolumeInv BY VolumeInit
  <1>2. VolumeInv /\ [Next]_vars => VolumeInv' BY VolumeStep
  <1>3. VolumeInv => VolumeExact
    <2> SUFFICES ASSUME VolumeInv PROVE VolumeExact OBVIOUS
    <2>1. TypeInv /\ CountedFromBase BY DEF VolumeInv, OrderInv
    <2>2. seen.top \in Int /\ seen.opened \in Int /\ seen.leaked \in Int
      BY <2>1 DEF TypeInv, HistoryTypeOK, Seen
    <2>3. seen.top - Base = seen.top - seen.opened + seen.leaked BY <2>2 DEF Base
    <2> QED BY <2>1, <2>3 DEF CountedFromBase, VolumeExact
  <1> QED BY <1>1, <1>2, <1>3, PTL DEF FeedSpec

----
\* What ticks say of bars.

\* The completed bars of the opening range of a day.
RangeOf(bars, day) ==
    {bar \in ToSet(bars) : Day(bar.start) = day /\ bar.start % PerDay <= Opening}

\* The completed bars of the session are as they were saved, and older than the
\* current one.
BarsSound ==
    Sound =>
        \A i \in DOMAIN completed :
            /\ Day(completed[i].start) = seen.day => completed[i].volume = disk[completed[i].start]
            /\ current # NoBar => completed[i].start < current.start

\* The bar posted last in the session is as it was saved, and not after the last one
\* completed.
BarPosted ==
    Sound /\ tick.day = seen.day /\ tick.bar # NoBar =>
        /\ disk[tick.bar.start] = tick.bar.volume
        /\ completed # <<>> /\ tick.bar.start <= Last(completed).start

\* The opening range posted last in the session is complete, and no more bars come.
RangeSettled ==
    Sound /\ settled.day = seen.day /\ seen.day # None =>
        /\ settled.range = RangeOf(completed, seen.day)
        /\ current # NoBar => current.start % PerDay > Opening
        /\ seen.day = Day(now) => now % PerDay > Opening

\* A trade in order that is still to be published comes after all bars.
AfterBars(p) ==
    seen.orderly /\ seen.top <= p.cum =>
        /\ current.start <= p.minute
        /\ \A i \in DOMAIN completed : completed[i].start < p.minute
        /\ settled.day = seen.day => p.minute % PerDay > Opening
PendingFollow == seen.day = Day(now) => \A i \in DOMAIN pending : AfterBars(pending[i])

PostedInv == VolumeInv /\ BarsSound /\ BarPosted /\ RangeSettled /\ PendingFollow

----
\* What a step makes of the session and of the bars.

LEMMA SeenMoves ==
    ASSUME OrderInv, [Next]_vars
    PROVE  \/ /\ seen'.day = seen.day
              /\ (seen'.orderly => seen.orderly) /\ (seen'.whole => seen.whole)
           \/ \E i \in DOMAIN pending : TradeArrives(i) /\ Starts(pending[i])
  <1>1. TypeInv BY DEF OrderInv
  <1>2. ASSUME NEW i \in DOMAIN pending, Passes(pending[i]) \/ GoesOn(pending[i])
        PROVE  /\ seen'.day = seen.day
               /\ (seen'.orderly => seen.orderly) /\ (seen'.whole => seen.whole)
    BY <1>2 DEF Passes, GoesOn
  <1>3. ASSUME NEW i \in DOMAIN pending, TradeArrives(i)
        PROVE  Starts(pending[i]) \/ Passes(pending[i]) \/ GoesOn(pending[i])
    BY <1>1, <1>3, SeenCases DEF TradeArrives
  <1>4. ASSUME NEW i \in DOMAIN pending, SaveFails(i) \/ StopsAfterSave(i)
        PROVE  Passes(pending[i]) \/ GoesOn(pending[i])
    <2>1. Loses(pending[i]) BY <1>4 DEF SaveFails, StopsAfterSave
    <2> QED BY <1>1, <2>1, SeenCases
  <1>5. CASE Stops
    BY <1>1, <1>5, NotWhole DEF Stops, TypeInv, HistoryTypeOK
  <1>6. CASE WorldStep \/ StreamStep \/ QuoteArrives \/ Breaks
    <2>1. seen' = seen
      BY <1>6, WorldKeeps DEF StreamStep, Launched, ReadSubscriptions, Connected, Refresh,
            BackoffEnds, OnlyStream, QuoteArrives, Breaks, history
    <2> QED BY <2>1
  <1> QED BY <1>2, <1>3, <1>4, <1>5, <1>6, StepCases DEF EndStep

\* The bars stay, or they are read from the disk.
BarsKept ==
    /\ UNCHANGED <<completed, disk>> /\ current'.start = current.start
    /\ current' = NoBar <=> current = NoBar
BarsLoaded ==
    /\ completed' = load(disk') /\ disk' \in Rows /\ current' = NoBar
    /\ \/ disk' = disk
       \/ \E i \in DOMAIN pending :
              Completes(pending[i].minute) /\ disk' = save(disk, current)

LEMMA BarsCases ==
    ASSUME OrderInv, [Next]_vars
    PROVE  \/ BarsKept \/ BarsLoaded
           \/ \E i \in DOMAIN pending :
                  /\ TradeArrives(i) /\ Counted(pending[i].minute, Quantity(pending[i]))
                  /\ \/ Begins(pending[i].minute, Quantity(pending[i]))
                     \/ Turns(pending[i].minute, Quantity(pending[i]))
  <1>1. TypeInv BY DEF OrderInv
  <1>2. TypeInv' BY OrderStep DEF OrderInv
  <1>3. CASE WorldStep \/ StreamStep \/ QuoteArrives \/ Breaks
    <2>1. UNCHANGED <<completed, disk, current>>
      BY <1>3, WorldKeeps DEF StreamStep, Launched, ReadSubscriptions, Connected, Refresh,
            BackoffEnds, OnlyStream, QuoteArrives, Breaks, calculator
    <2> QED BY <2>1 DEF BarsKept
  <1>4. ASSUME NEW i \in DOMAIN pending, SaveFails(i) PROVE BarsKept
    BY <1>4 DEF SaveFails, calculator, BarsKept
  <1>5. ASSUME NEW i \in DOMAIN pending, StopsAfterSave(i) PROVE BarsLoaded
    <2>1. disk' \in Rows BY <1>2 DEF TypeInv, HistoryTypeOK
    <2>2. /\ Forgets(disk') /\ Completes(pending[i].minute) /\ disk' = save(disk, current)
      BY <1>5 DEF StopsAfterSave
    <2>3. completed' = load(disk') /\ current' = NoBar BY <1>1, <2>1, <2>2, ForgetsType
    <2> QED BY <2>1, <2>2, <2>3 DEF BarsLoaded
  <1>6. CASE Stops
    <2>1. disk \in Rows BY <1>1 DEF TypeInv, HistoryTypeOK
    <2>2. Forgets(disk) /\ disk' = disk BY <1>6 DEF Stops
    <2>3. completed' = load(disk) /\ current' = NoBar BY <1>1, <2>1, <2>2, ForgetsType
    <2> QED BY <2>1, <2>2, <2>3 DEF BarsLoaded
  <1>7. ASSUME NEW i \in DOMAIN pending, TradeArrives(i)
        PROVE  \/ BarsKept
               \/ /\ Counted(pending[i].minute, Quantity(pending[i]))
                  /\ \/ Begins(pending[i].minute, Quantity(pending[i]))
                     \/ Turns(pending[i].minute, Quantity(pending[i]))
    <2> DEFINE m == pending[i].minute
               q == Quantity(pending[i])
    <2>1. Counted(m, q) \/ Ignored(m) BY <1>1, <1>7, TradeCases
    <2>2. m \in Minutes /\ q \in Nat BY <1>1, RecordFacts
    <2> HIDE DEF m, q
    <2>3. CASE Ignored(m) BY <2>3 DEF Ignored, calculator, BarsKept
    <2>4. CASE Counted(m, q) /\ Merges(m, q)
      <3>1. current' \in Bar BY <1>1, <2>2, <2>4, CountedTypes
      <3>2. /\ UNCHANGED <<completed, disk>> /\ current'.start = current.start
            /\ current \in Bar
        BY <2>4 DEF Merges
      <3> QED BY <3>1, <3>2, NoBarFacts DEF BarsKept
    <2> QED BY <2>1, <2>3, <2>4 DEF Counted, m, q
  <1> QED BY <1>3, <1>4, <1>5, <1>6, <1>7, StepCases DEF EndStep

\* The first trade of a session finds only bars of earlier ones.
LEMMA StartedBars ==
    ASSUME OrderInv, NEW i \in DOMAIN pending, TradeArrives(i), Starts(pending[i])
    PROVE  /\ seen.day < seen'.day /\ seen'.day = Day(pending[i].minute)
           /\ current' \in Bar /\ current'.start = pending[i].minute
           /\ \A j \in DOMAIN completed' :
                  /\ completed'[j].start < pending[i].minute
                  /\ Day(completed'[j].start) < seen'.day
  <1> DEFINE r == pending[i]
             m == r.minute
             q == Quantity(r)
  <1>1. TypeInv /\ PendingInOrder /\ DaysPass /\ BarsOfSession BY DEF OrderInv
  <1>2. /\ m \in Minutes /\ m \in Nat /\ q \in Nat /\ Day(m) \in Nat /\ Day(m) = Day(now)
        /\ seen.day \in Int /\ session \in Int /\ completed \in Seq(Bar)
    BY <1>1, Types, RecordFacts DEF PendingInOrder
  <1>3. /\ seen'.day = Day(m) /\ seen.day # Day(m) /\ Regular(m) BY DEF Starts
  <1>4. seen.day < Day(m) BY <1>1, <1>2, <1>3 DEF DaysPass
  <1>5. session # Day(m) BY <1>1, <1>2, <1>3 DEF BarsOfSession, None
  <1>6. Counted(m, q) BY <1>1, <1>3, TradeCases DEF Ignored
  <1>7. current' \in Bar BY <1>1, <1>2, <1>6, CountedTypes
  <1> HIDE DEF m, q, r
  <1>8. Begins(m, q) \/ Turns(m, q) BY <1>5, <1>6 DEF Counted, Merges
  <1>9. current'.start = m BY <1>8 DEF Begins, Turns
  <1>10. ASSUME NEW bar \in Bar, Day(bar.start) < Day(m) PROVE bar.start < m
    BY <1>2, <1>10, EarlierDay DEF Bar
  <1>11. \A j \in DOMAIN completed :
             completed[j].start < m /\ Day(completed[j].start) < Day(m)
    <2> SUFFICES ASSUME NEW j \in DOMAIN completed
                 PROVE  completed[j].start < m /\ Day(completed[j].start) < Day(m)
      OBVIOUS
    <2>1. /\ completed[j] \in Bar /\ Day(completed[j].start) \in Nat
          /\ Day(completed[j].start) <= seen.day
      BY <1>1, Types DEF BarsOfSession
    <2>2. Day(completed[j].start) < Day(m) BY <1>2, <1>4, <2>1
    <2> QED BY <1>10, <2>1, <2>2
  <1>12. \A j \in DOMAIN completed' :
             completed'[j].start < m /\ Day(completed'[j].start) < Day(m)
    <2>1. CASE completed' = completed BY <1>11, <2>1
    <2>2. CASE Turns(m, q)
      <3>1. current \in Bar /\ completed' = Append(completed, current) BY <2>2 DEF Turns
      <3>2. Day(current.start) = seen.day BY <1>1, <3>1, NoBarFacts DEF BarsOfSession
      <3>3. current.start < m /\ Day(current.start) < Day(m) BY <1>4, <1>10, <3>1, <3>2
      <3>4. \A j \in DOMAIN completed' :
                completed'[j] = current \/ (j \in DOMAIN completed /\ completed'[j] = completed[j])
        BY <1>2, <3>1, AppendProperties, LenProperties
      <3> QED BY <1>11, <3>3, <3>4
    <2> QED BY <1>8, <2>1, <2>2 DEF Begins
  <1> QED BY <1>3, <1>4, <1>7, <1>9, <1>12 DEF m, r

\* A process that has just read its bars goes on only with a trade in order.
LEMMA BegunBars ==
    ASSUME PostedInv, NEW i \in DOMAIN pending, GoesOn(pending[i]), current = NoBar, Sound'
    PROVE  /\ seen.orderly /\ pending[i].cum >= seen.top
           /\ \A j \in DOMAIN completed : completed[j].start < pending[i].minute
           /\ settled.day = seen.day => pending[i].minute % PerDay > Opening
  <1> DEFINE r == pending[i]
  <1>1. OrderInv /\ VolumeSound /\ PendingFollow BY DEF PostedInv, VolumeInv
  <1>2. TypeInv /\ PendingInOrder /\ BarsOfSession BY <1>1 DEF OrderInv
  <1>3. /\ Day(r.minute) = Day(now) /\ Day(r.minute) \in Nat /\ r.cum \in Nat /\ seen.top \in Nat
    BY <1>2, Types DEF PendingInOrder
  <1>4. seen.day = Day(r.minute) /\ (seen'.whole => seen.whole)
        /\ (seen'.orderly => seen.orderly /\ r.cum >= seen.top)
    BY DEF GoesOn
  <1>5. session = None BY <1>2 DEF BarsOfSession
  <1>6. ~seen.whole BY <1>1, <1>3, <1>4, <1>5 DEF VolumeSound, None
  <1>7. seen.orderly /\ r.cum >= seen.top BY <1>4, <1>6 DEF Sound
  <1>8. AfterBars(r) BY <1>1, <1>3, <1>4 DEF PendingFollow
  <1> QED BY <1>3, <1>7, <1>8 DEF AfterBars

\* A trade that adds a bar within the session.
LEMMA AddedBar ==
    ASSUME PostedInv, Sound', NEW i \in DOMAIN pending, TradeArrives(i), seen'.day = seen.day,
           Counted(pending[i].minute, Quantity(pending[i]))
    PROVE  /\ GoesOn(pending[i]) /\ Sound
           /\ current' \in Bar
           /\ Begins(pending[i].minute, Quantity(pending[i])) =>
                  \A j \in DOMAIN completed : completed[j].start < pending[i].minute
           /\ Turns(pending[i].minute, Quantity(pending[i])) =>
                  /\ current.start < pending[i].minute /\ current.start \in Nat
                  /\ pending[i].minute \in Nat
                  /\ Day(current.start) = seen.day /\ Day(pending[i].minute) = seen.day
                  /\ \A j \in DOMAIN completed : completed[j].start < current.start
  <1> DEFINE r == pending[i]
             m == r.minute
             q == Quantity(r)
  <1>1. OrderInv /\ TypeInv /\ BarsOfSession /\ BarsSound
    BY DEF PostedInv, VolumeInv, OrderInv
  <1>2. m \in Minutes /\ m \in Nat /\ q \in Nat BY <1>1, RecordFacts, Types
  <1>3. GoesOn(r)
    <2>1. Starts(r) \/ GoesOn(r) \/ (Passes(r) /\ ~Regular(m))
      BY <1>1, SeenCases DEF TradeArrives
    <2>2. Regular(m) BY DEF Counted
    <2>3. ~Starts(r) BY DEF Starts
    <2> QED BY <2>1, <2>2, <2>3
  <1>4. Sound BY <1>3 DEF GoesOn, Sound
  <1>5. current' \in Bar BY <1>1, <1>2, CountedTypes
  <1>6. Begins(m, q) => \A j \in DOMAIN completed : completed[j].start < m
    <2>1. Begins(m, q) => current = NoBar BY DEF Begins
    <2> QED BY <1>3, <2>1, BegunBars
  <1>7. Turns(m, q) =>
            /\ current.start < m /\ current.start \in Nat
            /\ Day(current.start) = seen.day /\ Day(m) = seen.day
            /\ \A j \in DOMAIN completed : completed[j].start < current.start
    <2> SUFFICES ASSUME Turns(m, q)
                 PROVE  /\ current.start < m /\ current.start \in Nat
                        /\ Day(current.start) = seen.day /\ Day(m) = seen.day
                        /\ \A j \in DOMAIN completed : completed[j].start < current.start
      OBVIOUS
    <2>1. current \in Bar /\ current # NoBar /\ Completes(m) BY NoBarFacts DEF Turns
    <2>2. current.start < m /\ Day(current.start) = seen.day BY <1>1, <2>1, TurnsLater
    <2>3. \A j \in DOMAIN completed : completed[j].start < current.start
      BY <1>1, <1>4, <2>1 DEF BarsSound
    <2> QED BY <1>1, <1>3, <2>1, <2>2, <2>3, Types DEF GoesOn
  <1> QED BY <1>2, <1>3, <1>4, <1>5, <1>6, <1>7

LEMMA AppendedBars ==
    ASSUME TypeInv, completed' = Append(completed, current), current \in Bar
    PROVE  /\ \A j \in DOMAIN completed' :
                  completed'[j] = current \/ (j \in DOMAIN completed /\ completed'[j] = completed[j])
           /\ completed' # <<>> /\ Last(completed') = current
           /\ \A j \in DOMAIN completed : j \in DOMAIN completed' /\ completed'[j] = completed[j]
           /\ \E j \in DOMAIN completed' : completed'[j] = current
  <1>1. completed \in Seq(Bar) BY Types
  <1>2. /\ Len(completed) \in Nat /\ DOMAIN completed = 1..Len(completed)
        /\ completed' \in Seq(Bar) /\ Len(completed') = Len(completed) + 1
        /\ DOMAIN completed' = 1..(Len(completed) + 1)
        /\ completed'[Len(completed) + 1] = current
        /\ \A j \in 1..Len(completed) : completed'[j] = completed[j]
    BY <1>1, AppendProperties, LenProperties
  <1>3. completed' # <<>>
    <2>1. Len(completed) + 1 \in DOMAIN completed' BY <1>2
    <2> QED BY <2>1
  <1>4. Last(completed') = current BY <1>2 DEF Last
  <1> QED BY <1>2, <1>3, <1>4

LEMMA BarsStep ==
    ASSUME PostedInv, [Next]_vars
    PROVE  BarsSound'
  <1>1. OrderInv /\ TypeInv /\ BarsSound /\ OrderInv' /\ TypeInv'
    BY OrderStep DEF PostedInv, VolumeInv, OrderInv
  <1>2. ASSUME NEW i \in DOMAIN pending, TradeArrives(i), Starts(pending[i]) PROVE BarsSound'
    <2>1. /\ current'.start = pending[i].minute /\ seen'.day = Day(pending[i].minute)
          /\ \A j \in DOMAIN completed' :
                 completed'[j].start < pending[i].minute /\ Day(completed'[j].start) < seen'.day
      BY <1>1, <1>2, StartedBars
    <2>2. seen'.day \in Int BY <1>1 DEF TypeInv, HistoryTypeOK, Seen, DayOrNone, None
    <2> QED BY <2>1, <2>2 DEF BarsSound
  <1>3. ASSUME seen'.day = seen.day, seen'.orderly => seen.orderly, seen'.whole => seen.whole
        PROVE  BarsSound'
    <2> SUFFICES ASSUME Sound'
                 PROVE  \A j \in DOMAIN completed' :
                            /\ Day(completed'[j].start) = seen'.day =>
                                   completed'[j].volume = disk'[completed'[j].start]
                            /\ current' # NoBar => completed'[j].start < current'.start
      BY DEF BarsSound
    <2>1. Sound BY <1>3 DEF Sound
    <2>2. \A j \in DOMAIN completed :
              /\ Day(completed[j].start) = seen.day => completed[j].volume = disk[completed[j].start]
              /\ current # NoBar => completed[j].start < current.start
              /\ completed[j].start \in Minutes /\ completed[j].start \in Nat
      BY <1>1, <2>1, Types DEF BarsSound
    <2>3. CASE BarsKept BY <1>3, <2>2, <2>3 DEF BarsKept
    <2>4. CASE BarsLoaded
      <3>1. /\ current' = NoBar /\ completed' = load(disk') /\ disk' \in Rows
        BY <2>4 DEF BarsLoaded
      <3>2. \A j \in DOMAIN completed' : disk'[completed'[j].start] = completed'[j].volume
        BY <3>1, LoadFacts
      <3> QED BY <3>1, <3>2
    <2>5. ASSUME NEW i \in DOMAIN pending, TradeArrives(i),
                 Counted(pending[i].minute, Quantity(pending[i])),
                 Begins(pending[i].minute, Quantity(pending[i]))
          PROVE  \A j \in DOMAIN completed' :
                     /\ Day(completed'[j].start) = seen'.day =>
                            completed'[j].volume = disk'[completed'[j].start]
                     /\ current' # NoBar => completed'[j].start < current'.start
      <3>1. \A j \in DOMAIN completed : completed[j].start < pending[i].minute
        BY <1>3, <2>5, AddedBar
      <3>2. current'.start = pending[i].minute /\ completed' = completed /\ disk' = disk
        BY <2>5 DEF Begins
      <3> QED BY <1>3, <2>2, <3>1, <3>2
    <2>6. ASSUME NEW i \in DOMAIN pending, TradeArrives(i),
                 Counted(pending[i].minute, Quantity(pending[i])),
                 Turns(pending[i].minute, Quantity(pending[i]))
          PROVE  \A j \in DOMAIN completed' :
                     /\ Day(completed'[j].start) = seen'.day =>
                            completed'[j].volume = disk'[completed'[j].start]
                     /\ current' # NoBar => completed'[j].start < current'.start
      <3>1. /\ current.start < pending[i].minute /\ current.start \in Nat
            /\ pending[i].minute \in Nat
            /\ \A j \in DOMAIN completed : completed[j].start < current.start
        BY <1>3, <2>6, AddedBar
      <3>2. /\ current'.start = pending[i].minute /\ completed' = Append(completed, current)
            /\ disk' = save(disk, current) /\ current \in Bar
        BY <2>6 DEF Turns
      <3>3. \A j \in DOMAIN completed' :
                completed'[j] = current \/ (j \in DOMAIN completed /\ completed'[j] = completed[j])
        BY <1>1, <3>2, AppendedBars
      <3>4. /\ disk'[current.start] = current.volume
            /\ \A m \in Minutes : m # current.start => disk'[m] = disk[m]
        BY <1>1, <3>2, SavedRows
      <3> SUFFICES ASSUME NEW j \in DOMAIN completed'
                   PROVE  /\ Day(completed'[j].start) = seen'.day =>
                                 completed'[j].volume = disk'[completed'[j].start]
                          /\ completed'[j].start < current'.start
        OBVIOUS
      <3>5. CASE completed'[j] = current BY <3>1, <3>2, <3>4, <3>5
      <3>6. CASE j \in DOMAIN completed /\ completed'[j] = completed[j]
        <4>1. completed[j].start < current.start /\ completed[j].start \in Minutes
              /\ completed[j].start \in Nat
          BY <2>2, <3>1, <3>6
        <4>2. disk'[completed[j].start] = disk[completed[j].start] BY <3>1, <3>4, <4>1
        <4> QED BY <1>3, <2>2, <3>1, <3>2, <3>6, <4>1, <4>2
      <3> QED BY <3>3, <3>5, <3>6
    <2> QED BY <1>1, <2>3, <2>4, <2>5, <2>6, BarsCases
  <1> QED BY <1>1, <1>2, <1>3, SeenMoves

\* The last of the rows is always read, and no row is after the last bar in memory.
LEMMA LoadLast ==
    ASSUME NEW rows \in Rows, NEW m \in Minutes, rows[m] # None
    PROVE  load(rows) # <<>> /\ m <= Last(load(rows)).start
  <1> DEFINE n == Len(load(rows))
             Left == {AllMinutes - x : x \in {y \in Minutes : rows[y] # None}}
  <1>1. load(rows) \in Seq(Bar) BY LoadFacts
  <1>2. PICK g \in Minutes : rows[g] # None /\ \A x \in Minutes : rows[x] # None => x <= g
    <2>1. AllMinutes \in Nat /\ \A x \in Minutes : x \in Nat /\ x < AllMinutes BY AllMinutesType
    <2>2. Left \subseteq Nat /\ AllMinutes - m \in Left BY <2>1
    <2>3. PICK z \in Left : \A y \in Left : z <= y
      <3> HIDE DEF Left
      <3> QED BY <2>2, Least
    <2>4. PICK g \in Minutes : rows[g] # None /\ z = AllMinutes - g BY <2>3
    <2>5. ASSUME NEW x \in Minutes, rows[x] # None PROVE x <= g
      <3>1. AllMinutes - x \in Left BY <2>5
      <3>2. AllMinutes - g <= AllMinutes - x BY <2>3, <2>4, <3>1
      <3> QED BY <2>1, <3>2
    <2> QED BY <2>4, <2>5
  <1> HIDE DEF Left
  <1>3. m \in Nat /\ g \in Nat /\ m <= g BY <1>2, DayParts
  <1>4. Newest(rows)[g] = rows[g]
    <2>1. Later(rows, g) = {}
      <3>1. ASSUME NEW x \in Minutes, rows[x] # None, x > g PROVE FALSE
        <4>1. x <= g /\ x \in Nat BY <1>2, <3>1, DayParts
        <4> QED BY <1>3, <3>1, <4>1
      <3> QED BY <3>1 DEF Later
    <2>2. Cardinality(Later(rows, g)) = 0 BY <2>1, FS_EmptySet
    <2>3. 0 < MaxRows BY FeedAssumption
    <2> QED BY <2>2, <2>3, NewestFacts
  <1>5. PICK k \in DOMAIN load(rows) : load(rows)[k].start = g
    <2>1. PICK k \in DOMAIN load(rows) : load(rows)[k] = [start |-> g, volume |-> rows[g]]
      BY <1>2, <1>4, LoadFacts
    <2>2. load(rows)[k].start = g BY <2>1
    <2> QED BY <2>2
  <1>6. n \in Nat /\ DOMAIN load(rows) = 1..n BY <1>1, LenProperties
  <1>7. n \in DOMAIN load(rows) /\ k \in Nat /\ k <= n BY <1>5, <1>6
  <1>8. k < n => load(rows)[k].start < load(rows)[n].start BY <1>7, LoadFacts
  <1>9. Last(load(rows)) = load(rows)[n] BY DEF Last
  <1>10. load(rows)[n].start \in Nat
    <2>1. load(rows)[n] \in Bar BY <1>1, <1>6, <1>7, ElementOfSeq
    <2> QED BY <2>1, DayParts DEF Bar
  <1>11. load(rows) # <<>>
    <2> DEFINE bars == load(rows)
    <2>1. k \in DOMAIN bars BY <1>5
    <2> HIDE DEF bars
    <2>2. bars # <<>> BY <2>1
    <2> QED BY <2>2 DEF bars
  <1> HIDE DEF n
  <1>12. m <= load(rows)[n].start
    <2>1. k = n \/ k < n BY <1>6, <1>7
    <2>2. CASE k = n BY <1>3, <1>5, <1>10, <2>2
    <2>3. CASE k < n BY <1>3, <1>5, <1>8, <1>10, <2>3
    <2> QED BY <2>1, <2>2, <2>3
  <1> QED BY <1>9, <1>11, <1>12

\* The limit is never reached by the rows of the last day alone.
LEMMA LastDayRead ==
    ASSUME NEW rows \in Rows, NEW m \in Minutes, Regular(m),
           \A x \in Minutes : rows[x] # None => Day(x) <= Day(m)
    PROVE  Newest(rows)[m] = rows[m]
  <1> DEFINE pd == PerDay * Day(m)
             r == m % PerDay
             last == pd + (PerDay - 1)
  <1>1. /\ PerDay \in Nat /\ MaxRows \in Nat /\ MaxRows >= PerDay - 1
    BY FeedAssumption
  <1>2. m \in Nat /\ Day(m) \in Nat /\ pd \in Int /\ r \in 1..(PerDay - 1) /\ m = pd + r
    <2>1. m \in Nat /\ Day(m) \in Nat /\ r \in 0..(PerDay - 1) /\ m = pd + r BY DayParts
    <2>2. pd \in Int BY <1>1, <2>1
    <2>3. r # 0 BY DEF Regular
    <2> HIDE DEF pd, r
    <2> QED BY <2>1, <2>2, <2>3
  <1>3. Later(rows, m) \subseteq (m + 1)..last
    <2> SUFFICES ASSUME NEW x \in Minutes, x > m, rows[x] # None PROVE x \in (m + 1)..last
      BY DEF Later
    <2>1. x \in Nat /\ Day(x) \in Nat /\ x % PerDay \in 0..(PerDay - 1)
          /\ x = PerDay * Day(x) + (x % PerDay)
      BY DayParts
    <2>2. m <= x BY <1>2, <2>1
    <2>3. Day(m) <= Day(x) BY <2>2, DaysInOrder
    <2>4. Day(x) = Day(m) BY <1>2, <2>1, <2>3
    <2>5. x = pd + (x % PerDay) BY <2>1, <2>4
    <2> DEFINE s == x % PerDay
    <2>6. s \in 0..(PerDay - 1) /\ x = pd + s BY <2>1, <2>5
    <2> HIDE DEF s, pd
    <2> QED BY <1>1, <1>2, <2>1, <2>6
  <1> HIDE DEF pd, r
  <1>4. last \in Int /\ m + 1 \in Int /\ last - m < MaxRows /\ 0 < MaxRows BY <1>1, <1>2
  <1> HIDE DEF last
  <1>5. IsFiniteSet((m + 1)..last) /\ Cardinality((m + 1)..last) < MaxRows
        /\ Cardinality((m + 1)..last) \in Int
    <2>1. /\ IsFiniteSet((m + 1)..last)
          /\ Cardinality((m + 1)..last) = IF m + 1 > last THEN 0 ELSE last - (m + 1) + 1
      BY <1>4, FS_Interval
    <2>2. last - (m + 1) + 1 = last - m BY <1>2, <1>4
    <2> QED BY <1>2, <1>4, <2>1, <2>2
  <1>6. IsFiniteSet(Later(rows, m)) /\ Cardinality(Later(rows, m)) <= Cardinality((m + 1)..last)
    BY <1>3, <1>5, FS_Subset
  <1>7. Cardinality(Later(rows, m)) \in Nat BY <1>6, FS_CardinalityType
  <1>8. Cardinality(Later(rows, m)) < MaxRows BY <1>1, <1>5, <1>6, <1>7
  <1> QED BY <1>8, NewestFacts

\* What was posted of a bar is still so after any step of the session.
LEMMA PostedBefore ==
    ASSUME PostedInv, [Next]_vars, Sound', tick.day = seen'.day, tick.bar # NoBar
    PROVE  /\ disk'[tick.bar.start] = tick.bar.volume
           /\ completed' # <<>> /\ tick.bar.start <= Last(completed').start
  <1>1. OrderInv /\ TypeInv /\ DaysPass /\ BarPosted /\ BarsSound
    BY DEF PostedInv, VolumeInv, OrderInv
  <1>2. tick.day \in Int /\ seen.day \in Int BY <1>1, Types
  <1>3. tick.bar \in Bar /\ tick.bar.start \in Minutes /\ tick.bar.volume \in Nat
        /\ tick.bar.start \in Nat
    BY <1>1, DayParts DEF TypeInv, HistoryTypeOK, Bar
  <1>4. /\ seen'.day = seen.day
        /\ (seen'.orderly => seen.orderly) /\ (seen'.whole => seen.whole)
    <2>1. ASSUME NEW i \in DOMAIN pending, TradeArrives(i), Starts(pending[i]) PROVE FALSE
      <3>1. seen.day < seen'.day BY <1>1, <2>1, StartedBars
      <3> QED BY <1>1, <1>2, <3>1 DEF DaysPass
    <2> QED BY <1>1, <2>1, SeenMoves
  <1>5. Sound BY <1>4 DEF Sound
  <1>6. /\ disk[tick.bar.start] = tick.bar.volume
        /\ completed # <<>> /\ tick.bar.start <= Last(completed).start
    BY <1>1, <1>4, <1>5 DEF BarPosted
  <1>7. current \in Bar => tick.bar.start < current.start
    <2> SUFFICES ASSUME current \in Bar PROVE tick.bar.start < current.start OBVIOUS
    <2>1. completed \in Seq(Bar) /\ current.start \in Nat BY <1>1, Types
    <2>2. Len(completed) \in DOMAIN completed /\ Last(completed) = completed[Len(completed)]
      BY <1>6, <2>1, LenProperties, EmptySeq DEF Last
    <2>3. Last(completed).start < current.start /\ Last(completed).start \in Nat
      BY <1>1, <1>5, <2>2, NoBarFacts, Types DEF BarsSound
    <2> QED BY <1>3, <1>6, <2>1, <2>3
  <1>8. current \in Bar => save(disk, current)[tick.bar.start] = tick.bar.volume
    <2> SUFFICES ASSUME current \in Bar
                 PROVE  save(disk, current)[tick.bar.start] = tick.bar.volume
      OBVIOUS
    <2>1. tick.bar.start # current.start BY <1>1, <1>3, <1>7, Types
    <2> QED BY <1>1, <1>3, <1>6, <2>1, SavedRows
  <1>9. CASE BarsKept BY <1>6, <1>9 DEF BarsKept
  <1>10. CASE BarsLoaded
    <2>1. completed' = load(disk') /\ disk' \in Rows BY <1>10 DEF BarsLoaded
    <2>2. disk'[tick.bar.start] = tick.bar.volume
      <3>1. CASE disk' = disk BY <1>6, <3>1
      <3>2. ASSUME NEW i \in DOMAIN pending, Completes(pending[i].minute),
                   disk' = save(disk, current)
            PROVE  disk'[tick.bar.start] = tick.bar.volume
        <4>1. current \in Bar BY <1>1, <3>2, TurnsLater
        <4> QED BY <1>8, <3>2, <4>1
      <3> QED BY <1>10, <3>1, <3>2 DEF BarsLoaded
    <2>3. disk'[tick.bar.start] # None BY <1>3, <2>2 DEF None
    <2> QED BY <1>3, <2>1, <2>2, <2>3, LoadLast
  <1>11. ASSUME NEW i \in DOMAIN pending, Turns(pending[i].minute, Quantity(pending[i]))
         PROVE  /\ disk'[tick.bar.start] = tick.bar.volume
                /\ completed' # <<>> /\ tick.bar.start <= Last(completed').start
    <2>1. current \in Bar /\ completed' = Append(completed, current) /\ disk' = save(disk, current)
      BY <1>11 DEF Turns
    <2>2. completed' # <<>> /\ Last(completed') = current BY <1>1, <2>1, AppendedBars
    <2>3. tick.bar.start < current.start /\ current.start \in Nat BY <1>1, <1>7, <2>1, Types
    <2> QED BY <1>3, <1>8, <2>1, <2>2, <2>3
  <1>12. ASSUME NEW i \in DOMAIN pending, Begins(pending[i].minute, Quantity(pending[i]))
         PROVE  /\ disk'[tick.bar.start] = tick.bar.volume
                /\ completed' # <<>> /\ tick.bar.start <= Last(completed').start
    BY <1>6, <1>12 DEF Begins
  <1> QED BY <1>1, <1>9, <1>10, <1>11, <1>12, BarsCases

\* A restart does not change the opening range of the session.
LEMMA LoadedRange ==
    ASSUME TypeInv, DiskIsCompleted, BarsSound, Sound, NEW rows \in Rows,
           \/ rows = disk
           \/ /\ rows = save(disk, current) /\ current \in Bar
              /\ current.start % PerDay > Opening,
           \A m \in Minutes : rows[m] # None => Regular(m) /\ Day(m) <= seen.day
    PROVE  RangeOf(load(rows), seen.day) = RangeOf(completed, seen.day)
  <1> DEFINE bars == load(rows)
             InIt(bar) == Day(bar.start) = seen.day /\ bar.start % PerDay <= Opening
  <1>1. /\ bars \in Seq(Bar)
        /\ \A j \in DOMAIN bars : /\ rows[bars[j].start] = bars[j].volume
                                   /\ Newest(rows)[bars[j].start] = bars[j].volume
        /\ \A m \in Minutes : Newest(rows)[m] # None =>
               \E j \in DOMAIN bars : bars[j] = [start |-> m, volume |-> rows[m]]
    BY LoadFacts
  <1>2. \A j \in DOMAIN bars : bars[j] \in Bar BY <1>1, LenProperties, ElementOfSeq
  <1>3. completed \in Seq(Bar) /\ \A j \in DOMAIN completed : completed[j] \in Bar BY Types
  <1>4. ASSUME NEW m \in Minutes, m % PerDay <= Opening
        PROVE  /\ rows[m] = disk[m]
               /\ Newest(rows)[m] # None => Newest(disk)[m] # None
    <2>1. CASE rows = disk BY <2>1
    <2>2. CASE rows = save(disk, current) /\ current \in Bar /\ current.start % PerDay > Opening
      <3>1. m # current.start
        <4>1. m % PerDay \in Nat /\ Opening \in Nat BY DayParts, FeedAssumption
        <4> QED BY <1>4, <2>2, <4>1
      <3>2. disk \in Rows /\ rows[m] = disk[m]
        BY <2>2, <3>1, SavedRows DEF TypeInv, HistoryTypeOK
      <3>3. Newest(rows)[m] # None => Newest(rows)[m] = rows[m] /\ Newest(disk)[m] = disk[m]
        BY <2>2, <3>1, <3>2, NewestSaved
      <3> QED BY <3>2, <3>3
    <2> QED BY <2>1, <2>2
  <1>5. ASSUME NEW bar \in Bar PROVE /\ bar.start \in Minutes /\ bar.volume # None
                                     /\ bar = [start |-> bar.start, volume |-> bar.volume]
    BY <1>5 DEF Bar, None
  <1> HIDE DEF bars
  <1>6. ASSUME NEW j \in DOMAIN bars, InIt(bars[j])
        PROVE  \E k \in DOMAIN completed : completed[k] = bars[j]
    <2>1. bars[j] \in Bar BY <1>2
    <2>2. disk[bars[j].start] = bars[j].volume BY <1>1, <1>4, <1>5, <1>6, <2>1
    <2>3. PICK k \in DOMAIN completed :
              completed[k] = [start |-> bars[j].start, volume |-> disk[bars[j].start]]
      <3>1. Newest(rows)[bars[j].start] # None BY <1>1, <1>5, <2>1
      <3>2. Newest(disk)[bars[j].start] # None BY <1>4, <1>5, <1>6, <2>1, <3>1
      <3> QED BY <1>5, <2>1, <3>2 DEF DiskIsCompleted
    <2>4. completed[k] = bars[j] BY <1>5, <2>1, <2>2, <2>3
    <2> QED BY <2>4
  <1>7. ASSUME NEW j \in DOMAIN completed, InIt(completed[j])
        PROVE  \E k \in DOMAIN bars : bars[k] = completed[j]
    <2>1. completed[j] \in Bar BY <1>3
    <2>2. completed[j].volume = disk[completed[j].start] BY <1>7 DEF BarsSound
    <2>3. rows[completed[j].start] = completed[j].volume BY <1>4, <1>5, <1>7, <2>1, <2>2
    <2>4. PICK k \in DOMAIN bars :
              bars[k] = [start |-> completed[j].start, volume |-> rows[completed[j].start]]
      <3> DEFINE m == completed[j].start
      <3>1. m \in Minutes /\ rows[m] # None BY <1>5, <2>1, <2>3
      <3>2. Day(m) = seen.day BY <1>7
      <3> HIDE DEF m
      <3>3. Newest(rows)[m] = rows[m] BY <3>1, <3>2, LastDayRead
      <3> QED BY <1>1, <3>1, <3>3 DEF m
    <2>5. bars[k] = completed[j] BY <1>5, <2>1, <2>3, <2>4
    <2> QED BY <2>5
  <1>8. RangeOf(bars, seen.day) = {bar \in ToSet(bars) : InIt(bar)} BY DEF RangeOf
  <1>9. RangeOf(completed, seen.day) = {bar \in ToSet(completed) : InIt(bar)} BY DEF RangeOf
  <1>10. ToSet(bars) = {bars[k] : k \in DOMAIN bars}
         /\ ToSet(completed) = {completed[k] : k \in DOMAIN completed}
    BY DEF ToSet
  <1> HIDE DEF InIt
  <1>11. {bar \in ToSet(bars) : InIt(bar)} = {bar \in ToSet(completed) : InIt(bar)}
    BY <1>6, <1>7, <1>10
  <1> QED BY <1>8, <1>9, <1>11 DEF bars

LEMMA NowMoves ==
    ASSUME OrderInv, [Next]_vars
    PROVE  /\ now' \in Minutes /\ now' \in Nat /\ now <= now' /\ Day(now) <= Day(now')
           /\ Day(now) = Day(now') => now % PerDay <= now' % PerDay
           /\ now % PerDay \in Nat /\ now' % PerDay \in Nat
  <1>1. TypeInv BY DEF OrderInv
  <1>2. now \in Minutes /\ now \in Nat BY <1>1, Types
  <1>3. now' = now \/ now' = now + 1
    <2>1. CASE StreamStep \/ EndStep \/ QuoteArrives \/ \E i \in DOMAIN pending : TradeArrives(i)
      BY <2>1 DEF StreamStep, Launched, ReadSubscriptions, Connected, Refresh, BackoffEnds,
                  OnlyStream, EndStep, Stops, Breaks, SaveFails, StopsAfterSave, QuoteArrives,
                  TradeArrives, Publishes, exchange
    <2>2. CASE WorldStep
      BY <2>2 DEF WorldStep, Prints, MinutePasses, PlansChange, Missed, exchange, vars
    <2> QED BY <2>1, <2>2, StepCases
  <1>4. now' \in Minutes
    <2>1. OrderInv' BY OrderStep
    <2> QED BY <2>1 DEF OrderInv, TypeInv, FeedTypeOK
  <1> DEFINE n == now'
  <1>5. n \in Minutes /\ n \in Nat BY <1>4, DayParts
  <1>6. now <= n BY <1>2, <1>3
  <1> HIDE DEF n
  <1>7. /\ Day(now) <= Day(n) /\ now % PerDay \in Nat /\ n % PerDay \in Nat
        /\ Day(now) = Day(n) => now % PerDay <= n % PerDay
    BY <1>2, <1>5, <1>6, DaysInOrder, DayParts, FeedAssumption
  <1> QED BY <1>5, <1>6, <1>7 DEF n

\* The opening range that was posted is still that of the bars after any step of the
\* session.
LEMMA RangeBefore ==
    ASSUME PostedInv, [Next]_vars, Sound', settled.day = seen'.day, seen'.day # None
    PROVE  /\ settled.range = RangeOf(completed', seen'.day)
           /\ current' # NoBar => current'.start % PerDay > Opening
           /\ seen'.day = Day(now') => now' % PerDay > Opening
           /\ seen'.day = seen.day /\ (seen'.orderly => seen.orderly)
  <1>1. OrderInv /\ TypeInv /\ DaysPass /\ RangeSettled /\ BarsSound /\ DiskIsCompleted /\ BarsOfSession
    BY DEF PostedInv, VolumeInv, OrderInv
  <1>2. settled.day \in Int /\ seen.day \in Int /\ Day(now) \in Nat /\ completed \in Seq(Bar)
        /\ disk \in Rows
    BY <1>1, Types
  <1>3. /\ seen'.day = seen.day
        /\ (seen'.orderly => seen.orderly) /\ (seen'.whole => seen.whole)
    <2>1. ASSUME NEW i \in DOMAIN pending, TradeArrives(i), Starts(pending[i]) PROVE FALSE
      <3>1. seen.day < seen'.day BY <1>1, <2>1, StartedBars
      <3> QED BY <1>1, <1>2, <3>1 DEF DaysPass
    <2> QED BY <1>1, <2>1, SeenMoves
  <1>4. Sound BY <1>3 DEF Sound
  <1>5. /\ settled.range = RangeOf(completed, seen.day)
        /\ current # NoBar => current.start % PerDay > Opening
        /\ seen.day = Day(now) => now % PerDay > Opening
    BY <1>1, <1>3, <1>4 DEF RangeSettled
  <1>6. Opening \in Nat BY FeedAssumption
  <1>7. seen'.day = Day(now') => now' % PerDay > Opening
    <2> SUFFICES ASSUME seen'.day = Day(now') PROVE now' % PerDay > Opening OBVIOUS
    <2>1. /\ Day(now) <= Day(now') /\ now % PerDay \in Nat /\ now' % PerDay \in Nat
          /\ Day(now) = Day(now') => now % PerDay <= now' % PerDay
      BY <1>1, NowMoves
    <2>2. Day(now) = Day(now') BY <1>1, <1>2, <1>3, <2>1 DEF DaysPass
    <2> DEFINE a == now % PerDay
               b == now' % PerDay
    <2>3. a \in Nat /\ b \in Nat /\ a <= b /\ a > Opening BY <1>3, <1>5, <2>1, <2>2
    <2> HIDE DEF a, b
    <2>4. b > Opening BY <1>6, <2>3
    <2> QED BY <2>4 DEF b
  <1>8. /\ settled.range = RangeOf(completed', seen'.day)
        /\ current' # NoBar => current'.start % PerDay > Opening
    <2>1. CASE BarsKept BY <1>3, <1>5, <2>1 DEF BarsKept
    <2>2. CASE BarsLoaded
      <3>1. completed' = load(disk') /\ disk' \in Rows /\ current' = NoBar BY <2>2 DEF BarsLoaded
      <3>2. RangeOf(load(disk'), seen.day) = RangeOf(completed, seen.day)
        <4>1. CASE disk' = disk
          <5>1. \A m \in Minutes : disk[m] # None => Regular(m) /\ Day(m) <= seen.day
            BY <1>1, <1>2, RowsFound
          <5>2. RangeOf(load(disk), seen.day) = RangeOf(completed, seen.day)
            BY <1>1, <1>2, <1>4, <5>1, LoadedRange
          <5> QED BY <4>1, <5>2
        <4>2. ASSUME NEW i \in DOMAIN pending, Completes(pending[i].minute),
                     disk' = save(disk, current)
              PROVE  RangeOf(load(disk'), seen.day) = RangeOf(completed, seen.day)
          <5>1. current \in Bar BY <1>1, <4>2, TurnsLater
          <5>2. current.start % PerDay > Opening BY <1>5, <5>1, NoBarFacts
          <5> DEFINE rows == save(disk, current)
          <5>3. rows \in Rows /\ current.start < now /\ Day(current.start) = seen.day
            BY <1>1, <4>2, <5>1, TurnsLater, SavedRows
          <5>4. rows = save(disk, current) OBVIOUS
          <5> HIDE DEF rows
          <5>5. \A m \in Minutes : rows[m] # None => Regular(m) /\ Day(m) <= seen.day
            BY <1>1, <5>1, <5>3, <5>4, RowsFound
          <5>6. RangeOf(load(rows), seen.day) = RangeOf(completed, seen.day)
            BY <1>1, <1>4, <5>1, <5>2, <5>3, <5>4, <5>5, LoadedRange
          <5> QED BY <4>2, <5>4, <5>6
        <4> QED BY <2>2, <4>1, <4>2 DEF BarsLoaded
      <3> QED BY <1>3, <1>5, <3>1, <3>2
    <2>3. ASSUME NEW i \in DOMAIN pending, TradeArrives(i),
                 Counted(pending[i].minute, Quantity(pending[i])),
                 Begins(pending[i].minute, Quantity(pending[i]))
          PROVE  /\ settled.range = RangeOf(completed', seen'.day)
                 /\ current' # NoBar => current'.start % PerDay > Opening
      <3>1. GoesOn(pending[i]) /\ current = NoBar BY <1>3, <2>3, AddedBar DEF Begins
      <3>2. pending[i].minute % PerDay > Opening BY <1>3, <3>1, BegunBars
      <3>3. completed' = completed /\ current'.start = pending[i].minute BY <2>3 DEF Begins
      <3> QED BY <1>3, <1>5, <3>2, <3>3
    <2>4. ASSUME NEW i \in DOMAIN pending, TradeArrives(i),
                 Counted(pending[i].minute, Quantity(pending[i])),
                 Turns(pending[i].minute, Quantity(pending[i]))
          PROVE  /\ settled.range = RangeOf(completed', seen'.day)
                 /\ current' # NoBar => current'.start % PerDay > Opening
      <3> DEFINE m == pending[i].minute
      <3>1. /\ current.start < m /\ Day(current.start) = Day(m)
        BY <1>3, <2>4, AddedBar
      <3>2. /\ current \in Bar /\ completed' = Append(completed, current) /\ current'.start = m
        BY <2>4 DEF Turns
      <3>3. current.start % PerDay > Opening BY <1>5, <3>2, NoBarFacts
      <3>4. m \in Minutes /\ current.start \in Minutes BY <1>1, <3>2, Types
      <3> HIDE DEF m
      <3>5. m % PerDay > Opening
        <4> DEFINE a == current.start % PerDay
                   b == m % PerDay
        <4>1. a \in Nat /\ b \in Nat BY <3>4, DayParts, FeedAssumption
        <4>2. a < b
          <5>1. m \in Nat /\ current.start \in Nat BY <3>4, DayParts
          <5>2. current.start <= m BY <3>1, <5>1
          <5> QED BY <3>1, <3>4, <5>2, DaysInOrder
        <4>3. a > Opening BY <3>3
        <4> HIDE DEF a, b
        <4>4. b > Opening BY <1>6, <4>1, <4>2, <4>3
        <4> QED BY <4>4 DEF b
      <3>6. RangeOf(completed', seen.day) = RangeOf(completed, seen.day)
        <4> DEFINE bars == completed'
                   InIt(bar) == Day(bar.start) = seen.day /\ bar.start % PerDay <= Opening
        <4>1. /\ \A j \in DOMAIN bars :
                     bars[j] = current \/ (j \in DOMAIN completed /\ bars[j] = completed[j])
              /\ \A j \in DOMAIN completed : j \in DOMAIN bars /\ bars[j] = completed[j]
          BY <1>1, <3>2, AppendedBars
        <4>2. ~InIt(current)
          <5>1. current.start % PerDay \in Nat BY <3>4, DayParts, FeedAssumption
          <5> QED BY <1>6, <3>3, <5>1
        <4>3. RangeOf(bars, seen.day) = {bar \in ToSet(bars) : InIt(bar)} BY DEF RangeOf
        <4>4. RangeOf(completed, seen.day) = {bar \in ToSet(completed) : InIt(bar)} BY DEF RangeOf
        <4>5. ToSet(bars) = {bars[k] : k \in DOMAIN bars}
              /\ ToSet(completed) = {completed[k] : k \in DOMAIN completed}
          BY DEF ToSet
        <4> HIDE DEF InIt, bars
        <4>6. {bar \in ToSet(bars) : InIt(bar)} = {bar \in ToSet(completed) : InIt(bar)}
          BY <4>1, <4>2, <4>5
        <4> QED BY <4>3, <4>4, <4>6 DEF bars
      <3> QED BY <1>3, <1>5, <3>2, <3>5, <3>6
    <2> QED BY <1>1, <2>1, <2>2, <2>3, <2>4, BarsCases
  <1> QED BY <1>3, <1>7, <1>8

\* A step posts what the trade of the bridge and the bars after it make, or nothing.
PostsNow == phase' = "open" /\ trade'.connection = connection' /\ Posts(trade')

LEMMA PostOrNot ==
    ASSUME PostedInv, [Next]_vars
    PROVE  \/ UNCHANGED <<tick, settled>>
           \/ PostsNow /\ (QuoteArrives \/ \E i \in DOMAIN pending : TradeArrives(i))
  <1>1. OrderInv /\ RangePosted BY DEF PostedInv, VolumeInv, OrderInv
  <1>2. CASE WorldStep \/ StreamStep \/ EndStep
    BY <1>2, WorldKeeps DEF StreamStep, Launched, ReadSubscriptions, Connected, Refresh,
        BackoffEnds, OnlyStream, EndStep, Stops, Breaks, SaveFails, StopsAfterSave, history
  <1>3. CASE QuoteArrives
    <2>1. /\ phase = "open" /\ Emit(trade, connection) /\ UNCHANGED <<trade, stream>>
      BY <1>3 DEF QuoteArrives
    <2>2. UNCHANGED <<tick, settled>> \/ Posts(trade) BY <1>1, <2>1, EmitCases
    <2>3. CASE Posts(trade)
      <3>1. trade.connection = connection BY <2>3 DEF Posts
      <3>2. trade' = trade /\ phase' = phase /\ connection' = connection BY <2>1 DEF stream
      <3> QED BY <1>3, <2>1, <2>3, <3>1, <3>2 DEF PostsNow
    <2> QED BY <2>2, <2>3
  <1>4. ASSUME NEW i \in DOMAIN pending, TradeArrives(i)
        PROVE  UNCHANGED <<tick, settled>> \/ PostsNow
    <2> DEFINE t == [minute |-> pending[i].minute, connection |-> connection]
    <2>1. /\ phase = "open" /\ Emit(t, quote) /\ UNCHANGED stream /\ trade' = t
      BY <1>4 DEF TradeArrives, Publishes
    <2> HIDE DEF t
    <2>2. UNCHANGED <<tick, settled>> \/ Posts(t) BY <1>1, <2>1, EmitCases
    <2>3. CASE Posts(t)
      <3>1. t.connection = connection BY <2>3 DEF Posts
      <3>2. trade' = t /\ phase' = phase /\ connection' = connection BY <2>1 DEF stream
      <3> QED BY <2>1, <2>3, <3>1, <3>2 DEF PostsNow
    <2> QED BY <2>2, <2>3
  <1> QED BY <1>2, <1>3, <1>4, StepCases

\* What is posted is of the session: its bar is the last one completed, and a range is
\* posted when the trade, and the bar it is in, are past the opening.
LEMMA PostedNow ==
    ASSUME OrderInv', PostsNow
    PROVE  /\ tick'.day = seen'.day /\ seen'.day # None
           /\ tick'.bar = IF completed' = <<>> THEN NoBar ELSE Last(completed')
           /\ tick'.range # {} =>
                 /\ tick'.range = RangeOf(completed', seen'.day)
                 /\ trade'.minute % PerDay > Opening /\ trade'.minute \in Minutes
                 /\ trade'.minute <= current'.start /\ Day(trade'.minute) = seen'.day
                 /\ current'.start % PerDay > Opening
                 /\ seen'.day = Day(now') => now' % PerDay > Opening
           /\ settled' = IF tick'.range = {} THEN settled
                         ELSE [day |-> tick'.day, range |-> tick'.range]
  <1> DEFINE m == trade'.minute
             n == now'
             s == current'.start
             d == seen'.day
  <1>1. TypeInv' /\ BarsOfSession' /\ TradeCounted' /\ Regular(m)
    BY DEF OrderInv, PostsNow, Posts
  <1>2. m \in Minutes /\ n \in Minutes
    <2>1. phase' = "open" => connection' > 0
      BY <1>1 DEF TypeInv, HistoryTypeOK
    <2>2. trade'.connection > 0 BY <2>1 DEF PostsNow
    <2> QED BY <1>1, <2>2 DEF TypeInv, HistoryTypeOK, FeedTypeOK
  <1>3. session' = Day(m) /\ m <= s BY <1>1 DEF TradeCounted, PostsNow
  <1>4. session' # None BY <1>2, <1>3, DayParts DEF None
  <1>5. session' = d /\ Day(s) = d /\ s <= n /\ current' # NoBar
    BY <1>1, <1>4 DEF BarsOfSession
  <1>6. current' \in Bar /\ s \in Minutes
    <2>1. current' \in Bar BY <1>1, <1>5 DEF TypeInv, FeedTypeOK
    <2> QED BY <2>1 DEF Bar
  <1>7. /\ tick'.day = Day(m)
        /\ tick'.bar = IF completed' = <<>> THEN NoBar ELSE Last(completed')
        /\ tick'.range = OpeningRange(ToSet(completed') \cup ({current'} \ {NoBar}), m)
        /\ settled' = IF tick'.range = {} THEN settled
                      ELSE [day |-> tick'.day, range |-> tick'.range]
    BY DEF PostsNow, Posts, Tick
  <1> HIDE DEF m, n, s
  <1>8. ASSUME tick'.range # {}
        PROVE  /\ tick'.range = RangeOf(completed', d)
               /\ m % PerDay > Opening /\ s % PerDay > Opening
               /\ d = Day(n) => n % PerDay > Opening
    <2> DEFINE A == ToSet(completed') \cup ({current'} \ {NoBar})
    <2>1. /\ m % PerDay > Opening
          /\ tick'.range = {bar \in A : InRange(bar, m)}
      BY <1>7, <1>8 DEF OpeningRange
    <2>2. /\ m % PerDay \in Nat /\ s % PerDay \in Nat /\ n % PerDay \in Nat /\ Opening \in Nat
          /\ m \in Nat /\ s \in Nat /\ n \in Nat
      BY <1>2, <1>6, DayParts, FeedAssumption
    <2>3. m % PerDay <= s % PerDay BY <1>2, <1>3, <1>5, <1>6, DaysInOrder
    <2>4. d = Day(n) => s % PerDay <= n % PerDay BY <1>2, <1>5, <1>6, DaysInOrder
    <2>5. s % PerDay > Opening
      <3> DEFINE a == m % PerDay
                 b == s % PerDay
      <3>1. a \in Nat /\ b \in Nat /\ a <= b /\ a > Opening BY <2>1, <2>2, <2>3
      <3> HIDE DEF a, b
      <3>2. b > Opening BY <2>2, <3>1
      <3> QED BY <3>2 DEF b
    <2>6. d = Day(n) => n % PerDay > Opening
      <3> DEFINE a == s % PerDay
                 b == n % PerDay
      <3>1. a \in Nat /\ b \in Nat /\ a > Opening /\ (d = Day(n) => a <= b) BY <2>2, <2>4, <2>5
      <3> HIDE DEF a, b
      <3>2. d = Day(n) => b > Opening BY <2>2, <3>1
      <3> QED BY <3>2 DEF b
    <2>7. ~InRange(current', m)
      <3> DEFINE b == s % PerDay
      <3>1. b \in Nat /\ b > Opening BY <2>2, <2>5
      <3> HIDE DEF b
      <3>2. ~(b <= Opening) BY <2>2, <3>1
      <3> QED BY <3>2 DEF b, s, InRange
    <2>8. RangeOf(completed', d) = {bar \in ToSet(completed') : InRange(bar, m)}
      BY <1>3, <1>5 DEF RangeOf, InRange
    <2>9. {bar \in A : InRange(bar, m)} = {bar \in ToSet(completed') : InRange(bar, m)}
      BY <2>7
    <2> QED BY <2>1, <2>5, <2>6, <2>8, <2>9
  <1> QED BY <1>2, <1>3, <1>4, <1>5, <1>7, <1>8 DEF m, n, s

LEMMA PostedStep ==
    ASSUME PostedInv, [Next]_vars
    PROVE  BarPosted'
  <1> SUFFICES ASSUME Sound', tick'.day = seen'.day, tick'.bar # NoBar
               PROVE  /\ disk'[tick'.bar.start] = tick'.bar.volume
                      /\ completed' # <<>> /\ tick'.bar.start <= Last(completed').start
    BY DEF BarPosted
  <1>1. OrderInv' BY OrderStep DEF PostedInv, VolumeInv
  <1>2. CASE UNCHANGED <<tick, settled>> BY <1>2, PostedBefore
  <1>3. CASE PostsNow
    <2>1. tick'.bar = IF completed' = <<>> THEN NoBar ELSE Last(completed') BY <1>1, <1>3, PostedNow
    <2>2. completed' # <<>> /\ tick'.bar = Last(completed') BY <2>1
    <2> DEFINE bars == completed'
               n == Len(bars)
    <2>3. bars \in Seq(Bar) BY <1>1 DEF OrderInv, TypeInv, FeedTypeOK
    <2>4. n \in Nat /\ DOMAIN bars = 1..n /\ n \in DOMAIN bars
      <3> HIDE DEF bars
      <3>1. bars # <<>> BY <2>2 DEF bars
      <3> QED BY <2>3, <3>1, LenProperties, EmptySeq
    <2>5. Last(completed') = bars[n] BY DEF Last
    <2>6. \/ bars[n].volume = disk'[bars[n].start]
          \/ \E j \in DOMAIN bars : j > n /\ bars[j].start = bars[n].start
      BY <1>1, <2>4 DEF OrderInv, DiskIsCompleted
    <2>7. bars[n].start \in Nat
      <3>1. bars[n] \in Bar BY <2>3, <2>4, ElementOfSeq
      <3> QED BY <3>1, DayParts DEF Bar
    <2> HIDE DEF n, bars
    <2>8. bars[n].volume = disk'[bars[n].start] BY <2>4, <2>6
    <2> QED BY <2>2, <2>5, <2>7, <2>8
  <1> QED BY <1>2, <1>3, PostOrNot

LEMMA SettledStep ==
    ASSUME PostedInv, [Next]_vars
    PROVE  RangeSettled'
  <1> SUFFICES ASSUME Sound', settled'.day = seen'.day, seen'.day # None
               PROVE  /\ settled'.range = RangeOf(completed', seen'.day)
                      /\ current' # NoBar => current'.start % PerDay > Opening
                      /\ seen'.day = Day(now') => now' % PerDay > Opening
    BY DEF RangeSettled
  <1>1. OrderInv' BY OrderStep DEF PostedInv, VolumeInv
  <1>2. CASE settled' = settled BY <1>2, RangeBefore
  <1>3. CASE PostsNow /\ settled' # settled
    <2>1. tick'.range # {} /\ settled' = [day |-> tick'.day, range |-> tick'.range]
      BY <1>1, <1>3, PostedNow
    <2>2. settled'.range = tick'.range BY <2>1
    <2> QED BY <1>1, <1>3, <2>1, <2>2, PostedNow
  <1> QED BY <1>2, <1>3, PostOrNot

\* What a tick says of bars, a later one of the day does not take back.
LEMMA StayStep ==
    ASSUME PostedInv, [Next]_vars, Sound'
    PROVE  /\ tick'.day = tick.day =>
                 /\ tick'.bar.start >= tick.bar.start
                 /\ tick'.bar.start = tick.bar.start => tick'.bar = tick.bar
           /\ tick'.range # {} /\ settled.day = tick'.day =>
                 tick'.range = settled.range
  <1>1. OrderInv' /\ TypeInv' /\ TypeInv /\ RangePosted
    BY OrderStep DEF PostedInv, VolumeInv, OrderInv
  <1>2. ASSUME NEW bar \in Bar \cup {NoBar}
        PROVE  /\ bar.start \in Int /\ bar.start >= -1
               /\ bar # NoBar => bar \in Bar /\ bar.start \in Nat /\ bar.start # -1
                                 /\ bar = [start |-> bar.start, volume |-> bar.volume]
    <2>1. CASE bar = NoBar BY <2>1, NoBarFacts
    <2>2. CASE bar \in Bar
      <3>1. bar.start \in Minutes /\ bar = [start |-> bar.start, volume |-> bar.volume]
        BY <2>2 DEF Bar
      <3> QED BY <2>2, <3>1, DayParts
    <2> QED BY <2>1, <2>2
  <1>3. tick.bar \in Bar \cup {NoBar} /\ tick'.bar \in Bar \cup {NoBar}
    BY <1>1 DEF TypeInv, HistoryTypeOK
  <1>4. CASE UNCHANGED <<tick, settled>>
    <2>1. tick'.range # {} => tick'.range = settled.range BY <1>1, <1>4 DEF RangePosted
    <2> QED BY <1>2, <1>3, <1>4, <2>1
  <1>5. CASE PostsNow
    <2>1. tick'.day = seen'.day /\ seen'.day # None
          /\ tick'.bar = IF completed' = <<>> THEN NoBar ELSE Last(completed')
      BY <1>1, <1>5, PostedNow
    <2>2. tick'.range # {} /\ settled.day = tick'.day => tick'.range = settled.range
      BY <1>1, <1>5, <2>1, PostedNow, RangeBefore
    <2>3. ASSUME tick'.day = tick.day
          PROVE  /\ tick'.bar.start >= tick.bar.start
                 /\ tick'.bar.start = tick.bar.start => tick'.bar = tick.bar
      <3>1. CASE tick.bar = NoBar
        <4> DEFINE new == tick'.bar
        <4>1. tick.bar.start = -1 BY <3>1, NoBarFacts
        <4>2. new \in Bar \cup {NoBar} BY <1>3
        <4> HIDE DEF new
        <4>3. new.start >= -1 /\ (new # NoBar => new.start # -1) BY <1>2, <4>2
        <4>4. new.start >= tick.bar.start /\ (new.start = tick.bar.start => new = tick.bar)
          BY <3>1, <4>1, <4>3
        <4> QED BY <4>4 DEF new
      <3>2. CASE tick.bar # NoBar
        <4>1. /\ disk'[tick.bar.start] = tick.bar.volume
              /\ completed' # <<>> /\ tick.bar.start <= Last(completed').start
          BY <2>1, <2>3, <3>2, PostedBefore
        <4> DEFINE new == tick'.bar
        <4>2. new = Last(completed') BY <2>1, <4>1
        <4>3. new \in Bar \cup {NoBar} BY <1>3
        <4>4. new # NoBar => disk'[new.start] = new.volume BY <2>1, PostedStep DEF BarPosted
        <4>5. new.start >= tick.bar.start BY <1>2, <1>3, <4>1, <4>2, <4>3
        <4> HIDE DEF new
        <4>6. tick.bar \in Bar /\ tick.bar.start \in Nat
              /\ tick.bar = [start |-> tick.bar.start, volume |-> tick.bar.volume]
          BY <1>2, <1>3, <3>2
        <4>7. new # NoBar
          <5>1. new.start # -1 BY <1>2, <4>3, <4>5, <4>6
          <5> QED BY <5>1, NoBarFacts
        <4>8. new = [start |-> new.start, volume |-> new.volume] BY <1>2, <4>3, <4>7
        <4>9. new.start = tick.bar.start => new = tick.bar BY <4>1, <4>4, <4>6, <4>7, <4>8
        <4> QED BY <4>5, <4>9 DEF new
      <3> QED BY <3>1, <3>2
    <2> QED BY <2>2, <2>3
  <1> QED BY <1>4, <1>5, PostOrNot

\* Every bar that is read was in memory, or is the one that was just saved.
LEMMA LoadedStarts ==
    ASSUME TypeInv, DiskIsCompleted, NEW rows \in Rows,
           rows = disk \/ (current \in Bar /\ rows = save(disk, current)),
           NEW j \in DOMAIN load(rows)
    PROVE  /\ load(rows)[j].start \in Minutes /\ load(rows)[j].start \in Nat
           /\ \/ \E k \in DOMAIN completed : completed[k].start = load(rows)[j].start
              \/ /\ current \in Bar /\ rows = save(disk, current) /\ rows # disk
                 /\ load(rows)[j].start = current.start
  <1> DEFINE bar == load(rows)[j]
  <1>1. bar \in Bar /\ Newest(rows)[bar.start] = bar.volume
    BY LoadFacts, LenProperties, ElementOfSeq
  <1>2. bar.start \in Minutes /\ bar.start \in Nat /\ bar.volume # None
    BY <1>1, DayParts DEF Bar, None
  <1> HIDE DEF bar
  <1>3. CASE Newest(disk)[bar.start] # None
    <2>1. PICK k \in DOMAIN completed : completed[k] = [start |-> bar.start, volume |-> disk[bar.start]]
      BY <1>2, <1>3 DEF DiskIsCompleted
    <2>2. completed[k].start = bar.start BY <2>1
    <2> QED BY <1>2, <2>2 DEF bar
  <1>4. CASE Newest(disk)[bar.start] = None
    <2>1. rows # disk BY <1>1, <1>2, <1>4
    <2>2. current \in Bar /\ rows = save(disk, current) /\ disk \in Rows
      BY <2>1 DEF TypeInv, HistoryTypeOK
    <2>3. bar.start = current.start
      <3>1. Newest(rows)[bar.start] # None BY <1>1, <1>2
      <3>2. bar.start # current.start => /\ Newest(rows)[bar.start] = rows[bar.start]
                                         /\ rows[bar.start] = disk[bar.start]
                                         /\ Newest(disk)[bar.start] = disk[bar.start]
        BY <1>2, <2>2, <3>1, NewestSaved
      <3> QED BY <1>4, <3>1, <3>2
    <2> QED BY <1>2, <2>1, <2>2, <2>3 DEF bar
  <1> QED BY <1>3, <1>4

\* Later minutes of a day are past the opening as well.
LEMMA PastOpening ==
    ASSUME NEW m \in Minutes, NEW n \in Minutes, m <= n, Day(m) = Day(n), m % PerDay > Opening
    PROVE  n % PerDay > Opening
  <1> DEFINE a == m % PerDay
             b == n % PerDay
  <1>1. a \in Nat /\ b \in Nat /\ a <= b /\ a > Opening /\ Opening \in Nat
    BY DayParts, DaysInOrder, FeedAssumption
  <1> HIDE DEF a, b
  <1>2. b > Opening BY <1>1
  <1> QED BY <1>2 DEF b

\* When the published trade is in order and comes after all bars, so do the others.
LEMMA PublishedFollow ==
    ASSUME OrderInv, NEW i \in DOMAIN pending, pending' = RemoveAt(pending, i), now' = now,
           Starts(pending[i]) \/ GoesOn(pending[i]),
           seen'.orderly =>
               /\ current'.start \in Int /\ current'.start <= pending[i].minute
               /\ \A j \in DOMAIN completed' :
                      completed'[j].start \in Int /\ completed'[j].start < pending[i].minute
               /\ settled'.day = seen'.day => pending[i].minute % PerDay > Opening
    PROVE  PendingFollow'
  <1> DEFINE r == pending[i]
  <1>1. TypeInv /\ PendingInOrder BY DEF OrderInv
  <1>2. /\ Day(r.minute) = Day(now) /\ r.minute \in Minutes /\ r.minute \in Nat
        /\ r.cum \in Nat /\ r.size \in Nat /\ r.size > 0 /\ seen.top \in Nat
    BY <1>1, Types DEF PendingInOrder
  <1> SUFFICES ASSUME NEW j \in DOMAIN pending', seen'.orderly, seen'.top <= pending'[j].cum
               PROVE  /\ current'.start <= pending'[j].minute
                      /\ \A k \in DOMAIN completed' : completed'[k].start < pending'[j].minute
                      /\ settled'.day = seen'.day => pending'[j].minute % PerDay > Opening
    BY DEF PendingFollow, AfterBars
  <1>3. PICK k \in DOMAIN pending :
             /\ k # i /\ pending'[j] = pending[k]
             /\ k < i => /\ pending[k].minute <= pending[i].minute
                         /\ pending[k].cum <= pending[i].cum - pending[i].size
             /\ k > i => /\ pending[i].minute <= pending[k].minute
                         /\ pending[i].cum <= pending[k].cum - pending[k].size
             /\ k < i \/ k > i
    BY Remaining
  <1> DEFINE p == pending[k]
  <1>4. /\ p.minute \in Minutes /\ p.minute \in Nat /\ p.cum \in Nat /\ p.size \in Nat
        /\ p.size > 0 /\ Day(p.minute) = Day(now)
    BY <1>1, Types DEF PendingInOrder
  <1>5. p.cum < r.cum \/ r.minute <= p.minute BY <1>2, <1>3, <1>4
  <1>6. pending'[j] = p BY <1>3
  <1>7. /\ current'.start \in Int /\ current'.start <= r.minute
        /\ \A n \in DOMAIN completed' :
               completed'[n].start \in Int /\ completed'[n].start < r.minute
        /\ settled'.day = seen'.day => r.minute % PerDay > Opening
    OBVIOUS
  <1>8. Starts(r) \/ GoesOn(r) OBVIOUS
  <1> HIDE DEF p, r
  <1>9. seen'.top = r.cum
    <2>1. CASE Starts(r) BY <2>1 DEF Starts
    <2>2. CASE GoesOn(r)
      <3>1. r.cum >= seen.top BY <2>2 DEF GoesOn
      <3>2. seen'.top = IF seen.top >= r.cum THEN seen.top ELSE r.cum
        BY <2>2 DEF GoesOn, Higher
      <3> QED BY <1>2, <3>1, <3>2
    <2> QED BY <1>8, <2>1, <2>2
  <1>10. r.minute <= p.minute BY <1>2, <1>4, <1>5, <1>6, <1>9
  <1>11. settled'.day = seen'.day => p.minute % PerDay > Opening
    BY <1>2, <1>4, <1>7, <1>10, PastOpening
  <1>12. current'.start <= p.minute BY <1>2, <1>4, <1>7, <1>10
  <1>13. \A n \in DOMAIN completed' : completed'[n].start < p.minute
    BY <1>2, <1>4, <1>7, <1>10
  <1> QED BY <1>6, <1>11, <1>12, <1>13

LEMMA TradeFollow ==
    ASSUME PostedInv, NEW i \in DOMAIN pending, TradeArrives(i)
    PROVE  PendingFollow'
  <1> DEFINE r == pending[i]
             m == r.minute
             q == Quantity(r)
  <1>1. /\ OrderInv /\ TypeInv /\ PendingInOrder /\ DaysPass /\ PendingFits /\ PendingFollow
        /\ VolumeInv /\ OrderInv' /\ TypeInv'
    BY OrderStep DEF PostedInv, VolumeInv, OrderInv, Next
  <1>2. /\ m \in Minutes /\ m \in Nat /\ q \in Nat /\ Day(m) \in Nat /\ Day(m) = Day(now)
        /\ r.cum \in Nat /\ seen.top \in Nat /\ seen.day \in Int /\ settled.day \in Int
        /\ current.start \in Int
    BY <1>1, Types, RecordFacts DEF PendingInOrder
  <1>3. /\ pending' = RemoveAt(pending, i) /\ now' = now /\ Counts(r) /\ trade'.minute = m
    BY DEF TradeArrives, Publishes
  <1>4. /\ current'.start \in Int
        /\ \A j \in DOMAIN completed' : completed'[j].start \in Int
    <2>1. /\ current' \in Bar \cup {NoBar} /\ completed' \in Seq(Bar)
      BY <1>1 DEF TypeInv, FeedTypeOK
    <2>2. ASSUME NEW bar \in Bar \cup {NoBar} PROVE bar.start \in Int
      BY <2>2, NoBarFacts, DayParts DEF Bar
    <2>3. \A j \in DOMAIN completed' : completed'[j] \in Bar
      BY <2>1, LenProperties, ElementOfSeq
    <2> QED BY <2>1, <2>2, <2>3
  <1>5. Starts(r) \/ GoesOn(r) \/ (Passes(r) /\ ~Regular(m)) BY <1>1, <1>3, SeenCases
  <1>6. UNCHANGED <<tick, settled>> \/ PostsNow
    <2>1. [Next]_vars BY DEF Next
    <2> QED BY <2>1, PostOrNot
  <1>7. PostsNow /\ settled' # settled => m % PerDay > Opening
    <2> SUFFICES ASSUME PostsNow, settled' # settled PROVE m % PerDay > Opening OBVIOUS
    <2>1. tick'.range # {} BY <1>1, PostedNow
    <2>2. trade'.minute % PerDay > Opening BY <1>1, <2>1, PostedNow
    <2> QED BY <1>3, <2>2
  <1>8. CASE Passes(r)
    BY <1>2, <1>3, <1>8 DEF Passes, PendingFollow
  <1>9. CASE Starts(r)
    <2>1. /\ seen.day < seen'.day /\ seen'.day = Day(m) /\ current'.start = m
          /\ \A j \in DOMAIN completed' : completed'[j].start < m
      BY <1>1, <1>9, StartedBars
    <2>2. settled'.day = seen'.day => m % PerDay > Opening
      <3>1. settled'.day = seen'.day => settled' # settled
        BY <1>1, <1>2, <2>1 DEF DaysPass
      <3> QED BY <1>6, <1>7, <3>1
    <2>3. current'.start <= m BY <1>2, <2>1
    <2> QED BY <1>1, <1>3, <1>4, <1>9, <2>1, <2>2, <2>3, PublishedFollow
  <1>10. CASE GoesOn(r)
    <2>1. ASSUME seen'.orderly
          PROVE  /\ current'.start <= m
                 /\ \A j \in DOMAIN completed' : completed'[j].start < m
                 /\ settled'.day = seen'.day => m % PerDay > Opening
      <3>1. /\ seen.orderly /\ r.cum >= seen.top /\ seen.day = Day(m) /\ seen'.day = seen.day
        BY <1>10, <2>1 DEF GoesOn
      <3>2. AfterBars(r) BY <1>1, <1>2, <3>1 DEF PendingFollow
      <3>3. /\ current.start <= m
            /\ \A j \in DOMAIN completed : completed[j].start < m
            /\ settled.day = seen.day => m % PerDay > Opening
        BY <1>2, <3>1, <3>2 DEF AfterBars
      <3>4. Regular(m) BY <1>1, <3>1, InOrder
      <3>5. Counted(m, q) BY <1>1, <3>4, TradeCases DEF Ignored
      <3>6. Sound' BY <2>1 DEF Sound
      <3>7. settled'.day = seen'.day => m % PerDay > Opening
        BY <1>6, <1>7, <3>1, <3>3
      <3>8. CASE Begins(m, q)
        <4>1. current'.start = m /\ completed' = completed BY <3>8 DEF Begins
        <4> QED BY <1>2, <3>3, <3>7, <4>1
      <3>9. CASE Merges(m, q)
        <4>1. current'.start = current.start /\ completed' = completed BY <3>9 DEF Merges
        <4> QED BY <3>3, <3>7, <4>1
      <3>10. CASE Turns(m, q)
        <4>1. current.start < m BY <3>1, <3>5, <3>6, <3>10, AddedBar
        <4>2. current'.start = m /\ completed' = Append(completed, current) /\ current \in Bar
          BY <3>10 DEF Turns
        <4>3. \A j \in DOMAIN completed' :
                  completed'[j] = current \/ (j \in DOMAIN completed /\ completed'[j] = completed[j])
          BY <1>1, <4>2, AppendedBars
        <4> HIDE DEF m
        <4>4. \A j \in DOMAIN completed' : completed'[j].start < m BY <3>3, <4>1, <4>3
        <4>5. current'.start <= m BY <1>2, <4>2
        <4> QED BY <3>7, <4>4, <4>5
      <3> QED BY <3>5, <3>8, <3>9, <3>10 DEF Counted
    <2> QED BY <1>1, <1>3, <1>4, <1>10, <2>1, PublishedFollow
  <1> QED BY <1>5, <1>8, <1>9, <1>10

LEMMA EndFollow ==
    ASSUME PostedInv, EndStep
    PROVE  PendingFollow'
  <1>1. /\ OrderInv /\ TypeInv /\ PendingInOrder /\ DaysPass /\ PendingFits /\ PendingFollow
        /\ VolumeInv /\ DiskIsCompleted
    BY DEF PostedInv, VolumeInv, OrderInv
  <1>2. \A j \in DOMAIN completed : completed[j].start \in Int
    <2>1. \A j \in DOMAIN completed : completed[j].start \in Nat BY <1>1, Types
    <2> QED BY <2>1
  <1>3. current.start \in Int BY <1>1, Types
  <1>4. CASE Stops
    <2>1. /\ Forgets(disk) /\ seen' = [seen EXCEPT !.whole = FALSE]
          /\ UNCHANGED <<now, pending, settled>>
      BY <1>4 DEF Stops, exchange
    <2>2. seen'.day = seen.day /\ seen'.top = seen.top /\ seen'.orderly = seen.orderly
      BY <1>1, <2>1, NotWhole DEF TypeInv, HistoryTypeOK
    <2>3. disk \in Rows BY <1>1, Types
    <2>4. completed' = load(disk) /\ current'.start = -1
      BY <1>1, <2>1, <2>3, ForgetsType, NoBarFacts
    <2> SUFFICES ASSUME seen.day = Day(now), NEW j \in DOMAIN pending,
                        seen.orderly, seen.top <= pending[j].cum
                 PROVE  /\ current'.start <= pending[j].minute
                        /\ \A k \in DOMAIN completed' : completed'[k].start < pending[j].minute
                        /\ settled.day = seen.day => pending[j].minute % PerDay > Opening
      BY <2>1, <2>2 DEF PendingFollow, AfterBars
    <2>5. pending[j].minute \in Nat BY <1>1, Types
    <2>6. /\ \A k \in DOMAIN completed : completed[k].start < pending[j].minute
          /\ settled.day = seen.day => pending[j].minute % PerDay > Opening
      BY <1>1 DEF PendingFollow, AfterBars
    <2>7. ASSUME NEW k \in DOMAIN load(disk) PROVE load(disk)[k].start < pending[j].minute
      <3>1. \E n \in DOMAIN completed : completed[n].start = load(disk)[k].start
        BY <1>1, <2>3, LoadedStarts
      <3> QED BY <2>6, <3>1
    <2> QED BY <2>4, <2>5, <2>6, <2>7
  <1>5. CASE Breaks
    <2>1. UNCHANGED <<now, pending, completed, current, seen, settled>>
      BY <1>5 DEF Breaks, exchange, calculator, history
    <2> QED BY <1>1, <2>1 DEF PendingFollow, AfterBars
  <1>6. ASSUME NEW i \in DOMAIN pending, Loses(pending[i]), Completes(pending[i].minute)
        PROVE  /\ Passes(pending[i]) \/ GoesOn(pending[i])
               /\ GoesOn(pending[i]) /\ seen'.orderly =>
                      /\ seen'.day = seen.day
                      /\ current.start < pending[i].minute /\ current \in Bar
                      /\ \A j \in DOMAIN completed : completed[j].start < pending[i].minute
                      /\ settled.day = seen.day => pending[i].minute % PerDay > Opening
    <2>1. Passes(pending[i]) \/ GoesOn(pending[i]) BY <1>1, <1>6, SeenCases
    <2>2. current.start < pending[i].minute /\ current \in Bar BY <1>1, <1>6, TurnsLater
    <2>3. Day(pending[i].minute) = Day(now) BY <1>1 DEF PendingInOrder
    <2>4. ASSUME GoesOn(pending[i]), seen'.orderly
          PROVE  /\ seen'.day = seen.day
                 /\ \A j \in DOMAIN completed : completed[j].start < pending[i].minute
                 /\ settled.day = seen.day => pending[i].minute % PerDay > Opening
      <3>1. /\ seen.orderly /\ pending[i].cum >= seen.top /\ seen.day = Day(now)
            /\ seen'.day = seen.day
        BY <2>3, <2>4 DEF GoesOn
      <3>2. pending[i].cum \in Nat /\ seen.top \in Nat BY <1>1, Types
      <3>3. AfterBars(pending[i]) BY <1>1, <3>1 DEF PendingFollow
      <3> QED BY <3>1, <3>2, <3>3 DEF AfterBars
    <2> QED BY <2>1, <2>2, <2>4
  <1>7. ASSUME NEW i \in DOMAIN pending, Passes(pending[i]), pending' = RemoveAt(pending, i),
               now' = now
        PROVE  PendingFollow'
    <2>1. Day(pending[i].minute) = Day(now) BY <1>1 DEF PendingInOrder
    <2> QED BY <1>7, <2>1 DEF Passes, PendingFollow
  <1>8. ASSUME NEW i \in DOMAIN pending, SaveFails(i) PROVE PendingFollow'
    <2>1. /\ Loses(pending[i]) /\ Completes(pending[i].minute)
          /\ pending' = RemoveAt(pending, i) /\ now' = now
          /\ UNCHANGED <<completed, current, settled>>
      BY <1>8 DEF SaveFails, Publishes, calculator
    <2>2. CASE Passes(pending[i]) BY <1>7, <2>1, <2>2
    <2>3. CASE GoesOn(pending[i])
      <3>1. pending[i].minute \in Nat BY <1>1, Types
      <3>2. current.start < pending[i].minute => current.start <= pending[i].minute
        BY <1>3, <3>1
      <3> QED BY <1>1, <1>2, <1>3, <1>6, <2>1, <2>3, <3>2, PublishedFollow
    <2> QED BY <1>6, <2>1, <2>2, <2>3
  <1>9. ASSUME NEW i \in DOMAIN pending, StopsAfterSave(i) PROVE PendingFollow'
    <2>1. /\ Loses(pending[i]) /\ Completes(pending[i].minute)
          /\ pending' = RemoveAt(pending, i) /\ now' = now /\ settled' = settled
          /\ disk' = save(disk, current) /\ Forgets(disk')
      BY <1>9 DEF StopsAfterSave, Publishes
    <2>2. CASE Passes(pending[i]) BY <1>7, <2>1, <2>2
    <2>3. CASE GoesOn(pending[i])
      <3>1. pending[i].minute \in Nat BY <1>1, Types
      <3>2. current \in Bar /\ current.start < pending[i].minute BY <1>6, <2>1, <1>1, TurnsLater
      <3>3. disk' \in Rows BY <1>1, <2>1, <3>2, SavedRows
      <3>4. completed' = load(disk') /\ current'.start = -1
        BY <1>1, <2>1, <3>3, ForgetsType, NoBarFacts
      <3>5. ASSUME NEW k \in DOMAIN completed', seen'.orderly
            PROVE  completed'[k].start \in Int /\ completed'[k].start < pending[i].minute
        <4>1. \A j \in DOMAIN completed : completed[j].start < pending[i].minute
          BY <1>6, <2>1, <2>3, <3>5
        <4> DEFINE rows == save(disk, current)
        <4>2. rows \in Rows /\ completed' = load(rows) BY <1>1, <2>1, <3>2, <3>4, SavedRows
        <4>3. k \in DOMAIN load(rows) BY <4>2
        <4> HIDE DEF rows
        <4>4. rows = save(disk, current) BY DEF rows
        <4>5. /\ load(rows)[k].start \in Nat
              /\ \/ \E n \in DOMAIN completed : completed[n].start = load(rows)[k].start
                 \/ load(rows)[k].start = current.start
          BY <1>1, <3>2, <4>2, <4>3, <4>4, LoadedStarts
        <4>6. load(rows)[k].start < pending[i].minute BY <3>2, <4>1, <4>5
        <4> QED BY <4>2, <4>5, <4>6
      <3>6. current'.start \in Int /\ current'.start <= pending[i].minute BY <3>1, <3>4
      <3>7. seen'.orderly /\ settled'.day = seen'.day => pending[i].minute % PerDay > Opening
        BY <1>6, <2>1, <2>3
      <3> QED BY <1>1, <2>1, <2>3, <3>5, <3>6, <3>7, PublishedFollow
    <2> QED BY <1>6, <2>1, <2>2, <2>3
  <1> QED BY <1>4, <1>5, <1>8, <1>9 DEF EndStep

LEMMA QuoteFollow ==
    ASSUME PostedInv, QuoteArrives
    PROVE  PendingFollow'
  <1>1. /\ OrderInv /\ TypeInv /\ PendingInOrder /\ PendingFollow /\ OrderInv'
    BY OrderStep DEF PostedInv, VolumeInv, OrderInv, Next
  <1>2. UNCHANGED <<now, pending, completed, current, seen>>
    BY DEF QuoteArrives, calculator, exchange
  <1>3. UNCHANGED <<tick, settled>> \/ PostsNow
    <2>1. [Next]_vars BY DEF Next
    <2> QED BY <2>1, PostOrNot
  <1>4. CASE settled' = settled BY <1>1, <1>2, <1>4 DEF PendingFollow, AfterBars
  <1>5. CASE PostsNow /\ settled' # settled
    <2>1. tick'.range # {} BY <1>1, <1>5, PostedNow
    <2>2. /\ trade'.minute % PerDay > Opening /\ trade'.minute \in Minutes
          /\ trade'.minute <= current'.start /\ Day(trade'.minute) = seen'.day
      BY <1>1, <1>5, <2>1, PostedNow
    <2> DEFINE m == trade'.minute
    <2> SUFFICES ASSUME seen.day = Day(now), NEW j \in DOMAIN pending,
                        seen.orderly, seen.top <= pending[j].cum
                 PROVE  /\ current.start <= pending[j].minute
                        /\ \A k \in DOMAIN completed : completed[k].start < pending[j].minute
                        /\ pending[j].minute % PerDay > Opening
      BY <1>2 DEF PendingFollow, AfterBars
    <2>3. /\ current.start <= pending[j].minute
          /\ \A k \in DOMAIN completed : completed[k].start < pending[j].minute
      BY <1>1 DEF PendingFollow, AfterBars
    <2>4. /\ pending[j].minute \in Minutes /\ pending[j].minute \in Nat
          /\ Day(pending[j].minute) = Day(now) /\ current.start \in Int
      BY <1>1, Types DEF PendingInOrder
    <2>5. m \in Minutes /\ m \in Nat /\ m <= current.start /\ Day(m) = Day(now) /\ m % PerDay > Opening
      BY <1>2, <2>2, DayParts
    <2> HIDE DEF m
    <2>6. m <= pending[j].minute BY <2>3, <2>4, <2>5
    <2>7. pending[j].minute % PerDay > Opening BY <2>4, <2>5, <2>6, PastOpening
    <2> QED BY <2>3, <2>7
  <1> QED BY <1>3, <1>4, <1>5

LEMMA WorldFollow ==
    ASSUME PostedInv, WorldStep \/ StreamStep
    PROVE  PendingFollow'
  <1>1. /\ OrderInv /\ TypeInv /\ PendingInOrder /\ DaysPass /\ BarsOfSession /\ RangeSettled
        /\ PendingFollow
    BY DEF PostedInv, VolumeInv, OrderInv
  <1>2. UNCHANGED <<completed, current, seen, settled>>
    BY WorldKeeps DEF StreamStep, Launched, ReadSubscriptions, Connected, Refresh, BackoffEnds,
                      OnlyStream, calculator, history
  <1>3. CASE UNCHANGED <<now, pending>>
    BY <1>1, <1>2, <1>3 DEF PendingFollow, AfterBars
  <1>4. ASSUME NEW i \in DOMAIN pending, Missed(i) PROVE PendingFollow'
    <2>1. pending' = RemoveAt(pending, i) /\ now' = now BY <1>4 DEF Missed
    <2>2. \A j \in DOMAIN pending' : \E k \in DOMAIN pending : pending'[j] = pending[k]
      BY <1>1, <2>1, Remaining
    <2> QED BY <1>1, <1>2, <2>1, <2>2 DEF PendingFollow, AfterBars
  <1>5. CASE MinutePasses
    <2>1. /\ pending' = pending /\ (Day(now') # Day(now) => pending = <<>>)
      BY <1>5 DEF MinutePasses
    <2>2. CASE Day(now') = Day(now) BY <1>1, <1>2, <2>1, <2>2 DEF PendingFollow, AfterBars
    <2>3. CASE pending' = <<>>
      <3>1. DOMAIN pending' = {} BY <2>3
      <3> QED BY <3>1 DEF PendingFollow
    <2> QED BY <2>1, <2>2, <2>3
  <1>6. ASSUME NEW size \in Sizes, Prints(size) PROVE PendingFollow'
    <2> DEFINE p == [minute |-> now, cum |-> cum + size, size |-> size]
    <2>1. now' = now /\ pending' = Append(pending, p) BY <1>6 DEF Prints
    <2>2. pending \in Seq(Record) BY <1>1, Types
    <2>3. p \in Record
      <3>1. now \in Minutes /\ cum \in Nat /\ size \in Nat BY <1>1, Types, FeedAssumption
      <3> QED BY <3>1 DEF Record
    <2>4. p.minute = now OBVIOUS
    <2> HIDE DEF p
    <2>5. \A j \in DOMAIN pending' : pending'[j] = p \/ \E k \in DOMAIN pending : pending'[j] = pending[k]
      BY <2>1, <2>2, <2>3, AppendProperties, LenProperties
    <2>6. ASSUME seen.day = Day(now) PROVE AfterBars(p)
      <3> SUFFICES ASSUME seen.orderly
                   PROVE  /\ current.start <= now
                          /\ \A k \in DOMAIN completed : completed[k].start < now
                          /\ settled.day = seen.day => now % PerDay > Opening
        BY <2>4 DEF AfterBars
      <3>1. Sound BY DEF Sound
      <3>2. Day(now) # None BY <1>1, Types DEF None
      <3> QED BY <1>1, <2>6, <3>1, <3>2 DEF BarsOfSession, RangeSettled
    <2> QED BY <1>1, <1>2, <2>1, <2>5, <2>6 DEF PendingFollow, AfterBars
  <1> QED BY <1>3, <1>4, <1>5, <1>6
        DEF WorldStep, StreamStep, Launched, ReadSubscriptions, Connected, Refresh, BackoffEnds,
            OnlyStream, PlansChange, exchange, vars

LEMMA PostedInvStep ==
    ASSUME PostedInv, [Next]_vars
    PROVE  PostedInv'
  <1>1. VolumeInv' BY VolumeStep DEF PostedInv
  <1>2. BarsSound' /\ BarPosted' /\ RangeSettled' BY BarsStep, PostedStep, SettledStep
  <1>3. PendingFollow'
    <2>1. OrderInv BY DEF PostedInv, VolumeInv
    <2> QED BY <2>1, StepCases, WorldFollow, EndFollow, QuoteFollow, TradeFollow
  <1> QED BY <1>1, <1>2, <1>3 DEF PostedInv

LEMMA PostedInit == Init => PostedInv
  <1> SUFFICES ASSUME Init PROVE PostedInv OBVIOUS
  <1>1. VolumeInv BY VolumeInit
  <1>2. DOMAIN completed = {} /\ DOMAIN pending = {} BY DEF Init
  <1>3. tick.bar = NoBar /\ seen.day = None BY DEF Init, NoTick
  <1> QED BY <1>1, <1>2, <1>3
        DEF PostedInv, BarsSound, BarPosted, RangeSettled, PendingFollow

\* What a tick says of bars, no later tick of the day takes back.
THEOREM PostsAreFinal == FeedSpec => PostedBarsStay
  <1>1. Init => PostedInv BY PostedInit
  <1>2. PostedInv /\ [Next]_vars => PostedInv' BY PostedInvStep
  <1>3. PostedInv /\ [Next]_vars =>
            [Sound' => /\ tick'.day = tick.day =>
                             /\ tick'.bar.start >= tick.bar.start
                             /\ tick'.bar.start = tick.bar.start => tick'.bar = tick.bar
                       /\ tick'.range # {} /\ settled.day = tick'.day =>
                             tick'.range = settled.range]_vars
    BY StayStep
  <1> QED BY <1>1, <1>2, <1>3, PTL DEF FeedSpec, PostedBarsStay

----
\* The numbering of ticks.

\* The tick posted last is of a connection up to the present one; while that is open
\* the sequence has reached the tick's number.  A restart sets the sequence back only
\* with the connection closed, and the next one has another identifier.
Numbered ==
    /\ connection \in Nat /\ sequence \in Nat
    /\ tick.connection \in Nat /\ tick.sequence \in Nat
    /\ tick.connection <= connection
    /\ phase = "open" /\ tick.connection = connection => tick.sequence <= sequence

\* From a tick to the next one.
Follows ==
    tick' # tick => \/ tick'.connection > tick.connection
                    \/ /\ tick'.connection = tick.connection
                       /\ tick'.sequence > tick.sequence

\* A record or quote of the open connection posts a tick with the next number.
LEMMA EmitNumbered ==
    ASSUME Numbered, phase = "open", NEW t, NEW q, Emit(t, q), UNCHANGED stream
    PROVE  Numbered' /\ Follows
  <1>1. connection' = connection /\ phase' = phase
    BY DEF stream
  <1>2. CASE UNCHANGED <<sequence, tick, settled>>
    BY <1>1, <1>2 DEF Numbered, Follows
  <1>3. CASE sequence' = sequence + 1 /\ tick' = tick
    BY <1>1, <1>3 DEF Numbered, Follows
  <1>4. CASE sequence' = sequence + 1 /\ tick' = Tick(t.minute)
    <2>1. tick'.connection = connection /\ tick'.sequence = sequence + 1
      BY <1>4 DEF Tick
    <2> QED BY <1>1, <1>4, <2>1 DEF Numbered, Follows
  <1> QED BY <1>2, <1>3, <1>4 DEF Emit

\* A step that closes the connection, or leaves the stream as it is, posts nothing.
LEMMA NothingPosted ==
    ASSUME Numbered, tick' = tick, connection' = connection, sequence' \in {0, sequence},
           phase' = "open" => phase = "open" /\ sequence' = sequence
    PROVE  Numbered' /\ Follows
  BY DEF Numbered, Follows

LEMMA StepNumbered ==
    ASSUME Numbered, [Next]_vars
    PROVE  Numbered' /\ Follows
  <1>1. ASSUME NEW i \in DOMAIN pending, TradeArrives(i)
        PROVE  Numbered' /\ Follows
    <2>1. /\ phase = "open" /\ UNCHANGED stream
          /\ Emit([minute |-> pending[i].minute, connection |-> connection], quote)
      BY <1>1 DEF TradeArrives, Publishes
    <2> QED BY <2>1, EmitNumbered
  <1>2. CASE QuoteArrives
    <2>1. phase = "open" /\ UNCHANGED stream /\ Emit(trade, connection)
      BY <1>2 DEF QuoteArrives
    <2> QED BY <2>1, EmitNumbered
  <1>3. ASSUME NEW i \in DOMAIN pending, SaveFails(i) \/ StopsAfterSave(i)
        PROVE  Numbered' /\ Follows
    <2>1. /\ tick' = tick /\ connection' = connection /\ sequence' \in {0, sequence}
          /\ phase' \in {"backoff", "dead"}
      BY <1>3 DEF SaveFails, StopsAfterSave, Forgets
    <2> QED BY <2>1, NothingPosted
  <1>4. CASE Stops \/ Breaks
    <2>1. /\ tick' = tick /\ connection' = connection /\ sequence' \in {0, sequence}
          /\ phase' \in {"backoff", "dead"}
      BY <1>4 DEF Stops, Breaks, Forgets, bridge
    <2> QED BY <2>1, NothingPosted
  <1>5. CASE Launched \/ ReadSubscriptions \/ Refresh \/ BackoffEnds
    <2>1. /\ tick' = tick /\ connection' = connection /\ sequence' = sequence
          /\ phase' \in {"top", "connecting"}
      BY <1>5 DEF Launched, ReadSubscriptions, Refresh, BackoffEnds, OnlyStream, bridge
    <2> QED BY <2>1, NothingPosted
  <1>6. CASE Connected
    <2>1. tick' = tick /\ sequence' = sequence /\ connection' = connection + 1
      BY <1>6 DEF Connected, NextConnection, OnlyStream, bridge
    <2> QED BY <2>1 DEF Numbered, Follows
  <1>7. ASSUME \/ \E size \in Sizes : Prints(size)
               \/ MinutePasses
               \/ \E symbol \in Symbols : PlansChange(symbol)
               \/ \E i \in DOMAIN pending : Missed(i)
               \/ UNCHANGED vars
        PROVE  Numbered' /\ Follows
    <2>1. UNCHANGED <<stream, bridge, tick>>
      BY <1>7 DEF Prints, MinutePasses, PlansChange, Missed, vars
    <2>2. tick' = tick /\ connection' = connection /\ sequence' = sequence /\ phase' = phase
      BY <2>1 DEF stream, bridge
    <2> QED BY <2>2, NothingPosted
  <1> QED BY <1>1, <1>2, <1>3, <1>4, <1>5, <1>6, <1>7 DEF Next

\* Ticks are numbered as the indicator contract says, for every number of
\* reconnections, restarts and failures.
THEOREM NumberingCorrect == FeedSpec => TicksNumbered
  <1>1. Init => Numbered
    BY DEF Init, Numbered, NoTick
  <1>2. Numbered /\ [Next]_vars => Numbered' /\ [Follows]_vars
    BY StepNumbered
  <1> QED BY <1>1, <1>2, PTL DEF FeedSpec, TicksNumbered, Follows
====
