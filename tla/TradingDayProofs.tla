---- MODULE TradingDayProofs ----
(***************************************************************************)
(* Proofs about the trading day: every handler drives the registry through *)
(* the registry's own steps, and the market's slot has one owner and is    *)
(* the abstract slot that the broker promises.                             *)
(*                                                                         *)
(* All rest on what holds of the list of writes that is still to be made,  *)
(* at any point where the process may stop or the maintenance thread may   *)
(* come in: the plans it writes for are active, its order follows its      *)
(* claim and finds the slot free, and nothing but withdrawals and sales    *)
(* follows a change of status.                                             *)
(***************************************************************************)
EXTENDS TradingDay, PlanRegistryProofs, SequenceTheorems

Writes ==
    [do: {"withdraw", "sell"}, symbols: SUBSET Symbols]
    \cup [do: {"claim", "rest"}, plan: PlanIds, symbol: Symbols]
    \cup [do: {"status"}, plan: PlanIds, status: Statuses \ {"ARMED", "COMPLETED"}]
    \cup [do: {"complete"}, plan: PlanIds]

\* Writes that need no plan.
Clearing == {"withdraw", "sell"}

\* The plans a list of writes is about are active, ...
ForActivePlans(writes) ==
    \A i \in 1..Len(writes) : writes[i].do \notin Clearing => writes[i].plan \in Active

\* ... an order is saved only after its claim has found the slot free, ...
RestAfterClaim(writes) ==
    \A i \in 2..Len(writes) : writes[i].do = "rest" => writes[i - 1].do = "claim"

\* ... a claim is followed at once by its own order, ...
RestFollowsClaim(writes) ==
    \A i \in 1..Len(writes) : writes[i].do = "claim" =>
        i < Len(writes) /\ writes[i + 1] = Rest(writes[i].plan, writes[i].symbol)

\* ... and a status is the last a list has to say about its plan.
StatusLast(writes) ==
    \A i, j \in 1..Len(writes) :
        i < j /\ writes[i].do \in {"status", "complete"} => writes[j].do \in Clearing

Sound(writes) ==
    /\ writes \in Seq(Writes)
    /\ ForActivePlans(writes) /\ RestAfterClaim(writes) /\ RestFollowsClaim(writes)
    /\ StatusLast(writes)

SlotTypeOK ==
    /\ resting \in [Symbols -> PlanIds \cup {NoPlan}]
    /\ held \in [Symbols -> PlanIds \cup {NoPlan}]
    /\ priced \subseteq Symbols

\* The slot is still free when the order of a claimed entry is saved.
RestFindsSlot == ~Idle /\ Head(todo).do = "rest" => SlotFree

DayInv == /\ RegistryInv /\ SlotTypeOK
          /\ Sound(todo) /\ RestFindsSlot
          /\ SlotShared /\ CompletedFlat

\* What stays true of the rest of a list when its first write is made.
LEMMA TailSound ==
    ASSUME NEW w, Sound(w), w # <<>>
    PROVE  /\ Sound(Tail(w))
           /\ Head(w) \in Writes
           /\ Head(w).do \notin Clearing => Head(w).plan \in Active
           /\ Head(w).do \in {"status", "complete"} =>
                 \A i \in 1..Len(Tail(w)) : Tail(w)[i].do \in Clearing
           /\ Tail(w) # <<>> /\ Head(Tail(w)).do = "rest" => Head(w).do = "claim"
           /\ Head(w).do = "claim" =>
                 Tail(w) # <<>> /\ Head(Tail(w)) = Rest(Head(w).plan, Head(w).symbol)
<1>1. /\ w \in Seq(Writes) /\ Tail(w) \in Seq(Writes)
      /\ Len(w) \in Nat /\ Len(w) >= 1 /\ Head(w) = w[1] /\ w[1] \in Writes
      /\ Len(Tail(w)) = Len(w) - 1
      /\ \A i \in 1..Len(Tail(w)) : Tail(w)[i] = w[i + 1]
  BY DEF Sound
<1>2. \A i \in 1..Len(Tail(w)) : i + 1 \in 2..Len(w) /\ i + 1 \in 1..Len(w) /\ (i + 1) - 1 = i
  BY <1>1
<1>3. ForActivePlans(Tail(w)) BY <1>1, <1>2 DEF Sound, ForActivePlans
<1>4. RestAfterClaim(Tail(w))
  <2> SUFFICES ASSUME NEW i \in 2..Len(Tail(w)), Tail(w)[i].do = "rest"
               PROVE  Tail(w)[i - 1].do = "claim"
    BY DEF RestAfterClaim
  <2>1. /\ i + 1 \in 2..Len(w) /\ (i + 1) - 1 = i /\ (i - 1) + 1 = i
        /\ i \in 1..Len(Tail(w)) /\ i - 1 \in 1..Len(Tail(w))
    BY <1>1
  <2>2. w[i + 1].do = "rest" BY <1>1, <2>1
  <2>3. w[i].do = "claim" BY <2>1, <2>2 DEF Sound, RestAfterClaim
  <2> QED BY <1>1, <2>1, <2>3
<1>5. StatusLast(Tail(w))
  <2> SUFFICES ASSUME NEW i \in 1..Len(Tail(w)), NEW j \in 1..Len(Tail(w)), i < j,
                      Tail(w)[i].do \in {"status", "complete"}
               PROVE  Tail(w)[j].do \in Clearing
    BY DEF StatusLast
  <2>1. i + 1 \in 1..Len(w) /\ j + 1 \in 1..Len(w) /\ i + 1 < j + 1 BY <1>1
  <2> QED BY <1>1, <2>1 DEF Sound, StatusLast
<1>6. Head(w).do \notin Clearing => Head(w).plan \in Active
  BY <1>1 DEF Sound, ForActivePlans
<1>7. Head(w).do \in {"status", "complete"} =>
          \A i \in 1..Len(Tail(w)) : Tail(w)[i].do \in Clearing
  <2> SUFFICES ASSUME Head(w).do \in {"status", "complete"}, NEW i \in 1..Len(Tail(w))
               PROVE  Tail(w)[i].do \in Clearing
    OBVIOUS
  <2>1. 1 \in 1..Len(w) /\ i + 1 \in 1..Len(w) /\ 1 < i + 1 BY <1>1
  <2> QED BY <1>1, <2>1 DEF Sound, StatusLast
<1>8. Tail(w) # <<>> /\ Head(Tail(w)).do = "rest" => Head(w).do = "claim"
  <2> SUFFICES ASSUME Tail(w) # <<>>, Head(Tail(w)).do = "rest" PROVE Head(w).do = "claim"
    OBVIOUS
  <2>1. Len(Tail(w)) >= 1 /\ Head(Tail(w)) = Tail(w)[1] BY <1>1
  <2>2. 1 \in 1..Len(Tail(w)) /\ 2 \in 2..Len(w) /\ Tail(w)[1] = w[2] BY <1>1, <2>1
  <2>3. w[2 - 1].do = "claim" BY <2>1, <2>2 DEF Sound, RestAfterClaim
  <2> QED BY <1>1, <2>3
<1>9. RestFollowsClaim(Tail(w))
  <2> SUFFICES ASSUME NEW i \in 1..Len(Tail(w)), Tail(w)[i].do = "claim"
               PROVE  /\ i < Len(Tail(w))
                      /\ Tail(w)[i + 1] = Rest(Tail(w)[i].plan, Tail(w)[i].symbol)
    BY DEF RestFollowsClaim
  <2>1. i + 1 \in 1..Len(w) /\ Tail(w)[i] = w[i + 1] BY <1>1
  <2>2. /\ i + 1 < Len(w)
        /\ w[(i + 1) + 1] = Rest(w[i + 1].plan, w[i + 1].symbol)
    BY <2>1 DEF Sound, RestFollowsClaim
  <2>3. i + 1 \in 1..Len(Tail(w)) BY <1>1, <2>2
  <2> QED BY <1>1, <2>1, <2>2, <2>3
<1>10. Head(w).do = "claim" =>
           Tail(w) # <<>> /\ Head(Tail(w)) = Rest(Head(w).plan, Head(w).symbol)
  <2> SUFFICES ASSUME Head(w).do = "claim"
               PROVE  Tail(w) # <<>> /\ Head(Tail(w)) = Rest(Head(w).plan, Head(w).symbol)
    OBVIOUS
  <2>1. 1 \in 1..Len(w) BY <1>1
  <2>2. 1 < Len(w) /\ w[1 + 1] = Rest(w[1].plan, w[1].symbol)
    BY <1>1, <2>1 DEF Sound, RestFollowsClaim
  <2>3. Len(Tail(w)) >= 1 /\ 1 \in 1..Len(Tail(w)) BY <1>1, <2>2
  <2>4. Tail(w) # <<>>
    <3>1. Len(<<>>) = 0 OBVIOUS
    <3> QED BY <2>3, <3>1
  <2>5. Head(Tail(w)) = Tail(w)[1] BY <1>1, <2>4
  <2> QED BY <1>1, <2>2, <2>3, <2>4, <2>5
<1> QED BY <1>1, <1>3, <1>4, <1>5, <1>6, <1>7, <1>8, <1>9, <1>10 DEF Sound

\* The handlers' lists, as they are when nothing is appended to nothing.
LEMMA ForPlanIs ==
    ASSUME NEW lists
    PROVE  \/ ForPlan(lists) = <<>>
           \/ \E p \in Active : ForPlan(lists) = lists[p]
<1>1. CASE Active = {} BY <1>1 DEF ForPlan
<1>2. CASE Active # {}
  <2>1. (CHOOSE p \in Active : TRUE) \in Active BY <1>2
  <2> QED BY <1>2, <2>1 DEF ForPlan
<1> QED BY <1>1, <1>2

LEMMA WritesOK ==
    /\ \A S \in SUBSET Symbols : Withdraw(S) \in Writes /\ Sell(S) \in Writes
    /\ \A p \in PlanIds, s \in Symbols : Claim(p, s) \in Writes /\ Rest(p, s) \in Writes
    /\ \A p \in PlanIds, st \in Statuses \ {"ARMED", "COMPLETED"} : Become(p, st) \in Writes
    /\ \A p \in PlanIds : Complete(p) \in Writes
BY DEF Withdraw, Sell, Claim, Rest, Become, Complete, Writes

\* Lists of up to three writes, by what their writes do.
LEMMA EmptySound == Sound(<<>>)
BY DEF Sound, ForActivePlans, RestAfterClaim, RestFollowsClaim, StatusLast

LEMMA OneSound ==
    ASSUME NEW a \in Writes, a.do \notin Clearing => a.plan \in Active, a.do # "claim"
    PROVE  Sound(<<a>>)
<1>1. <<a>> \in Seq(Writes) /\ Len(<<a>>) = 1 /\ <<a>>[1] = a OBVIOUS
<1>2. ForActivePlans(<<a>>) BY DEF ForActivePlans
<1>3. RestAfterClaim(<<a>>) BY DEF RestAfterClaim
<1>4. StatusLast(<<a>>) BY DEF StatusLast
<1>5. RestFollowsClaim(<<a>>) BY <1>1 DEF RestFollowsClaim
<1> QED BY <1>1, <1>2, <1>3, <1>4, <1>5 DEF Sound

LEMMA TwoSound ==
    ASSUME NEW a \in Writes, NEW b \in Writes,
           a.do \notin Clearing => a.plan \in Active,
           b.do \notin Clearing => b.plan \in Active,
           a.do \in {"status", "complete"} => b.do \in Clearing,
           b.do = "rest" => a.do = "claim",
           a.do = "claim" => b = Rest(a.plan, a.symbol), b.do # "claim"
    PROVE  Sound(<<a, b>>)
<1>1. <<a, b>> \in Seq(Writes) /\ Len(<<a, b>>) = 2 OBVIOUS
<1>2. <<a, b>>[1] = a /\ <<a, b>>[2] = b OBVIOUS
<1> DEFINE w == <<a, b>>
<1> HIDE DEF w
<1>3. ForActivePlans(w) BY <1>1, <1>2 DEF ForActivePlans, w
<1>4. RestAfterClaim(w) BY <1>1, <1>2 DEF RestAfterClaim, w
<1>5. StatusLast(w) BY <1>1, <1>2 DEF StatusLast, w
<1>6. RestFollowsClaim(w) BY <1>1, <1>2 DEF RestFollowsClaim, w
<1> QED BY <1>1, <1>3, <1>4, <1>5, <1>6 DEF Sound, w

LEMMA ThreeSound ==
    ASSUME NEW a \in Writes, NEW b \in Writes, NEW c \in Writes,
           a.do \notin Clearing => a.plan \in Active,
           b.do \notin Clearing => b.plan \in Active,
           c.do \notin Clearing => c.plan \in Active,
           a.do \notin {"status", "complete"}, b.do \notin {"status", "complete"},
           b.do = "rest" => a.do = "claim", c.do # "rest",
           a.do = "claim" => b = Rest(a.plan, a.symbol),
           b.do # "claim", c.do # "claim"
    PROVE  Sound(<<a, b, c>>)
<1>1. <<a, b, c>> \in Seq(Writes) /\ Len(<<a, b, c>>) = 3 OBVIOUS
<1>2. <<a, b, c>>[1] = a /\ <<a, b, c>>[2] = b /\ <<a, b, c>>[3] = c OBVIOUS
<1> DEFINE w == <<a, b, c>>
<1> HIDE DEF w
<1>3. ForActivePlans(w) BY <1>1, <1>2 DEF ForActivePlans, w
<1>4. RestAfterClaim(w) BY <1>1, <1>2 DEF RestAfterClaim, w
<1>5. StatusLast(w) BY <1>1, <1>2 DEF StatusLast, w
<1>6. RestFollowsClaim(w) BY <1>1, <1>2 DEF RestFollowsClaim, w
<1> QED BY <1>1, <1>3, <1>4, <1>5, <1>6 DEF Sound, w

LEMMA ListsJoined ==
    ASSUME NEW a, NEW b, NEW c
    PROVE  /\ <<a>> \o <<b>> = <<a, b>> /\ <<a, b>> \o <<c>> = <<a, b, c>>
           /\ <<a>> \o <<>> = <<a>> /\ <<a, b>> \o <<>> = <<a, b>>
<1> DEFINE S == {a, b, c}
<1>1. /\ <<a>> \in Seq(S) /\ <<b>> \in Seq(S) /\ <<c>> \in Seq(S)
      /\ <<a, b>> \in Seq(S) /\ <<a, b, c>> \in Seq(S)
  OBVIOUS
<1> HIDE DEF S
<1>2. <<a>> \o <<b>> = <<a, b>>
  <2>1. /\ <<a>> \o <<b>> \in Seq(S) /\ Len(<<a>> \o <<b>>) = 2
        /\ (<<a>> \o <<b>>)[1] = a /\ (<<a>> \o <<b>>)[2] = b
    BY <1>1, ConcatProperties
  <2>2. /\ Len(<<a>> \o <<b>>) = Len(<<a, b>>)
        /\ \A i \in 1..Len(<<a>> \o <<b>>) : (<<a>> \o <<b>>)[i] = <<a, b>>[i]
    BY <2>1
  <2> QED BY <1>1, <2>1, <2>2, SeqEqual
<1>3. <<a, b>> \o <<c>> = <<a, b, c>>
  <2>1. /\ <<a, b>> \o <<c>> \in Seq(S) /\ Len(<<a, b>> \o <<c>>) = 3
        /\ (<<a, b>> \o <<c>>)[1] = a /\ (<<a, b>> \o <<c>>)[2] = b
        /\ (<<a, b>> \o <<c>>)[3] = c
    BY <1>1, ConcatProperties
  <2>2. /\ Len(<<a, b>> \o <<c>>) = Len(<<a, b, c>>)
        /\ \A i \in 1..Len(<<a, b>> \o <<c>>) : (<<a, b>> \o <<c>>)[i] = <<a, b, c>>[i]
    BY <2>1
  <2> QED BY <1>1, <2>1, <2>2, SeqEqual
<1> QED BY <1>1, <1>2, <1>3, ConcatEmptySeq

\* A corporate action clears the symbol, and ends the plan that approved it.
LEMMA CorporateActionSound ==
    ASSUME NEW s \in Symbols, NEW tradable \in BOOLEAN
    PROVE  /\ Sound(CorporateAction(s, tradable))
           /\ CorporateAction(s, tradable) # <<>>
           /\ Head(CorporateAction(s, tradable)).do # "rest"
<1> DEFINE cancelled == [p \in PlanIds |->
                IF s \in Approved[p] THEN <<Become(p, "CANCELLED")>> ELSE <<>>]
           plan == ForPlan(cancelled)
           sell == IF tradable THEN <<Sell({s})>> ELSE <<>>
<1>1. Active \subseteq PlanIds BY DEF Active, Stored
<1>2. \/ plan = <<>>
      \/ \E p \in Active : plan = <<Become(p, "CANCELLED")>>
  <2>1. \A p \in Active : cancelled[p] \in {<<>>, <<Become(p, "CANCELLED")>>} BY <1>1
  <2> HIDE DEF cancelled
  <2> QED BY <2>1, ForPlanIs
<1>3. CorporateAction(s, tradable) = (<<Withdraw({s})>> \o sell) \o plan
  BY DEF CorporateAction
<1>4. /\ Withdraw({s}) \in Writes /\ Sell({s}) \in Writes
      /\ \A p \in Active : Become(p, "CANCELLED") \in Writes
  BY <1>1, WritesOK DEF Statuses
<1>5. /\ Withdraw({s}).do = "withdraw" /\ Sell({s}).do = "sell"
      /\ \A p \in Active : /\ Become(p, "CANCELLED").do = "status"
                           /\ Become(p, "CANCELLED").plan = p
  BY DEF Withdraw, Sell, Become
<1> HIDE DEF plan
<1>6. CASE plan = <<>> /\ tradable
  <2>1. CorporateAction(s, tradable) = <<Withdraw({s}), Sell({s})>> BY <1>3, <1>6, ListsJoined
  <2> QED BY <1>4, <1>5, <2>1, TwoSound DEF Clearing
<1>7. CASE plan = <<>> /\ ~tradable
  <2>1. CorporateAction(s, tradable) = <<Withdraw({s})>> BY <1>3, <1>7, ListsJoined
  <2> QED BY <1>4, <1>5, <2>1, OneSound DEF Clearing
<1>8. CASE plan # <<>> /\ tradable
  <2>1. PICK p \in Active : plan = <<Become(p, "CANCELLED")>> BY <1>2, <1>8
  <2>2. CorporateAction(s, tradable) = <<Withdraw({s}), Sell({s}), Become(p, "CANCELLED")>>
    BY <1>3, <1>8, <2>1, ListsJoined
  <2> QED BY <1>4, <1>5, <2>2, ThreeSound DEF Clearing
<1>9. CASE plan # <<>> /\ ~tradable
  <2>1. PICK p \in Active : plan = <<Become(p, "CANCELLED")>> BY <1>2, <1>9
  <2>2. CorporateAction(s, tradable) = <<Withdraw({s}), Become(p, "CANCELLED")>>
    BY <1>3, <1>9, <2>1, ListsJoined
  <2> QED BY <1>4, <1>5, <2>2, TwoSound DEF Clearing
<1> QED BY <1>6, <1>7, <1>8, <1>9

\* The forced close clears the market, and then completes the plan.
LEMMA ForceCloseSound ==
    ASSUME NEW known \in SUBSET Symbols
    PROVE  /\ Sound(ForceClose(known))
           /\ ForceClose(known) # <<>> /\ Head(ForceClose(known)).do # "rest"
<1> DEFINE completed == [p \in PlanIds |-> <<Complete(p)>>]
           plan == ForPlan(completed)
<1>1. Active \subseteq PlanIds BY DEF Active, Stored
<1>2. plan = <<>> \/ \E p \in Active : plan = <<Complete(p)>>
  <2>1. \A p \in Active : completed[p] = <<Complete(p)>> BY <1>1
  <2> HIDE DEF completed
  <2> QED BY <2>1, ForPlanIs
<1>3. ForceClose(known) = <<Withdraw(Symbols), Sell(known)>> \o plan BY DEF ForceClose
<1>4. /\ Withdraw(Symbols) \in Writes /\ Sell(known) \in Writes
      /\ \A p \in Active : Complete(p) \in Writes
  BY <1>1, WritesOK
<1>5. /\ Withdraw(Symbols).do = "withdraw" /\ Sell(known).do = "sell"
      /\ \A p \in Active : Complete(p).do = "complete" /\ Complete(p).plan = p
  BY DEF Withdraw, Sell, Complete
<1> HIDE DEF plan
<1>6. CASE plan = <<>>
  <2>1. ForceClose(known) = <<Withdraw(Symbols), Sell(known)>> BY <1>3, <1>6, ListsJoined
  <2> QED BY <1>4, <1>5, <2>1, TwoSound DEF Clearing
<1>7. CASE plan # <<>>
  <2>1. PICK p \in Active : plan = <<Complete(p)>> BY <1>2, <1>7
  <2>2. ForceClose(known) = <<Withdraw(Symbols), Sell(known), Complete(p)>>
    BY <1>3, <2>1, ListsJoined
  <2> QED BY <1>4, <1>5, <2>2, ThreeSound DEF Clearing
<1> QED BY <1>6, <1>7

\* An expired plan ends; an entry is claimed, saved, and only then reported.
LEMMA EntrySound ==
    ASSUME NEW s \in Symbols
    PROVE  /\ Sound(Entry(s))
           /\ Entry(s) # <<>> => Head(Entry(s)).do # "rest"
<1> DEFINE expired(p) == <<Become(p, "EXPIRED"), Withdraw(Approved[p])>>
           submitted(p) == <<Claim(p, s), Rest(p, s), Become(p, "RUNNING")>>
           lists == [p \in PlanIds |->
                        CASE p \in lapsed -> expired(p)
                          [] p \notin lapsed /\ s \in Approved[p] -> submitted(p)
                          [] OTHER -> <<>>]
<1>1. Active \subseteq PlanIds BY DEF Active, Stored
<1>2. Entry(s) = ForPlan(lists) BY DEF Entry
<1>3. \A p \in PlanIds : lists[p] = expired(p) \/ lists[p] = submitted(p) \/ lists[p] = <<>>
  OBVIOUS
<1>4. \/ Entry(s) = <<>>
      \/ \E p \in Active : Entry(s) = expired(p) \/ Entry(s) = submitted(p)
  <2> HIDE DEF lists, expired, submitted
  <2> QED BY <1>1, <1>2, <1>3, ForPlanIs
<1>5. \A p \in PlanIds : /\ Become(p, "EXPIRED") \in Writes /\ Become(p, "RUNNING") \in Writes
                         /\ Withdraw(Approved[p]) \in Writes
                         /\ Claim(p, s) \in Writes /\ Rest(p, s) \in Writes
  BY WritesOK, DayAssumption DEF Statuses
<1>6. \A p : /\ Become(p, "EXPIRED").do = "status" /\ Become(p, "EXPIRED").plan = p
             /\ Become(p, "RUNNING").do = "status" /\ Become(p, "RUNNING").plan = p
             /\ Withdraw(Approved[p]).do = "withdraw"
             /\ Claim(p, s).do = "claim" /\ Claim(p, s).plan = p /\ Claim(p, s).symbol = s
             /\ Rest(p, s).do = "rest" /\ Rest(p, s).plan = p
  BY DEF Become, Withdraw, Claim, Rest
<1>7. CASE Entry(s) = <<>> BY <1>7, EmptySound
<1>8. ASSUME NEW p \in Active, Entry(s) = expired(p)
      PROVE  Sound(Entry(s)) /\ Head(Entry(s)).do # "rest"
  BY <1>1, <1>5, <1>6, <1>8, TwoSound DEF Clearing
<1>9. ASSUME NEW p \in Active, Entry(s) = submitted(p)
      PROVE  Sound(Entry(s)) /\ Head(Entry(s)).do # "rest"
  BY <1>1, <1>5, <1>6, <1>9, ThreeSound DEF Clearing
<1> QED BY <1>4, <1>7, <1>8, <1>9

----
\* What a step does to the slot.

\* Taking orders and positions away keeps the slot's one owner, a completed plan out
\* of it, and a free slot free.
LEMMA SlotShrinks ==
    ASSUME SlotTypeOK, SlotShared, CompletedFlat, UNCHANGED plans, UNCHANGED priced,
           resting' \in [Symbols -> PlanIds \cup {NoPlan}],
           held' \in [Symbols -> PlanIds \cup {NoPlan}],
           \A s \in Symbols : resting'[s] \in {resting[s], NoPlan},
           \A s \in Symbols : held'[s] \in {held[s], NoPlan}
    PROVE  SlotTypeOK' /\ SlotShared' /\ CompletedFlat' /\ (SlotFree => SlotFree')
<1>1. /\ \A s \in Resting' : s \in Resting /\ resting'[s] = resting[s]
      /\ \A s \in Held' : s \in Held /\ held'[s] = held[s]
  BY DEF Resting, Held
<1>2. SlotTypeOK' BY DEF SlotTypeOK
<1>3. SlotShared' BY <1>1 DEF SlotShared
<1>4. CompletedFlat'
  <2> SUFFICES ASSUME NEW p \in Stored', plans'[p].status = "COMPLETED", InSlot(p)'
               PROVE  FALSE
    BY DEF CompletedFlat
  <2>1. p \in Stored /\ p \in PlanIds /\ p # NoPlan BY DayAssumption DEF Stored
  <2>2. InSlot(p) BY <2>1 DEF InSlot
  <2> QED BY <2>1, <2>2 DEF CompletedFlat
<1> QED BY <1>1, <1>2, <1>3, <1>4 DEF SlotFree

\* The broker's tick works on one symbol, and a position there has the order's plan.
LEMMA BrokerOnTickSound ==
    ASSUME SlotTypeOK, SlotShared, CompletedFlat, NEW s \in Symbols, BrokerOnTick(s),
           UNCHANGED plans, priced' \subseteq Symbols
    PROVE  SlotTypeOK' /\ SlotShared' /\ CompletedFlat'
<1>1. PICK order \in {resting[s], NoPlan}, position \in {held[s], resting[s], NoPlan} :
        /\ resting' = [resting EXCEPT ![s] = order]
        /\ held' = [held EXCEPT ![s] = position]
  BY DEF BrokerOnTick
<1>2. /\ resting'[s] = order /\ \A t \in Symbols : t # s => resting'[t] = resting[t]
      /\ held'[s] = position /\ \A t \in Symbols : t # s => held'[t] = held[t]
  BY <1>1 DEF SlotTypeOK
<1>3. SlotTypeOK' BY <1>1 DEF SlotTypeOK
<1>4. \A t \in Resting' \cup Held' : t \in Resting \cup Held
  BY <1>2 DEF Resting, Held
<1>5. \A t \in Symbols : t \in Resting' /\ t \in Held' => resting'[t] = held'[t]
  <2> SUFFICES ASSUME NEW t \in Symbols, t \in Resting', t \in Held'
               PROVE  resting'[t] = held'[t]
    OBVIOUS
  <2>1. CASE t = s
    <3>1. order = resting[s] /\ s \in Resting BY <1>2, <2>1 DEF Resting
    <3>2. CASE position = resting[s] BY <1>2, <2>1, <3>1, <3>2
    <3>3. CASE position = held[s] /\ s \in Held
      BY <1>2, <2>1, <3>1, <3>3 DEF SlotShared
    <3> QED BY <1>2, <2>1, <3>2, <3>3 DEF Held
  <2>2. CASE t # s
    BY <1>2, <2>2 DEF Resting, Held, SlotShared
  <2> QED BY <2>1, <2>2
<1>6. SlotShared'
  <2> SUFFICES ASSUME NEW t \in Resting' \cup Held', NEW u \in Resting' \cup Held'
               PROVE  t = u /\ (t \in Resting' /\ u \in Held' => resting'[t] = held'[u])
    BY DEF SlotShared
  <2>1. t = u BY <1>4 DEF SlotShared
  <2> QED BY <1>5, <2>1 DEF Resting
<1>7. CompletedFlat'
  <2> SUFFICES ASSUME NEW p \in Stored', plans'[p].status = "COMPLETED", InSlot(p)'
               PROVE  FALSE
    BY DEF CompletedFlat
  <2>1. p \in Stored /\ p \in PlanIds /\ p # NoPlan BY DayAssumption DEF Stored
  <2>2. PICK t \in Symbols : p \in {resting'[t], held'[t]} BY DEF InSlot
  <2>3. p \in {resting[t], held[t]} BY <1>2, <2>1, <2>2
  <2> QED BY <2>1, <2>3 DEF CompletedFlat, InSlot
<1> QED BY <1>3, <1>6, <1>7

\* The registry's own steps complete no plan but through set_plan_status.
LEMMA RegistryStepFlat ==
    ASSUME RegistryInv, CompletedFlat, UNCHANGED <<resting, held>>,
           \/ \E d \in Days, c \in Codes : IssueNonce(d, c)
           \/ \E p \in PlanIds, d \in Days, v \in 1..MaxVersion, c \in Codes :
                  ApprovePlan(p, d, v, c)
           \/ \E p \in PlanIds, status \in Statuses \ {"ARMED"} :
                  /\ SetPlanStatus(p, status)
                  /\ status = "COMPLETED" => FullyClosed
    PROVE  CompletedFlat'
<1> SUFFICES ASSUME NEW q \in Stored', plans'[q].status = "COMPLETED"
             PROVE  ~InSlot(q)'
  BY DEF CompletedFlat
<1>1. q \in PlanIds /\ (InSlot(q)' <=> InSlot(q)) BY DEF Stored, InSlot
<1>2. \A p \in Stored : plans[p] \in Plan
  BY DEF RegistryInv, RegistryTypeOK, Stored
<1>3. CASE plans'[q] = plans[q]
  BY <1>1, <1>3 DEF CompletedFlat, Stored
<1>4. CASE \E d \in Days, c \in Codes : IssueNonce(d, c)
  BY <1>3, <1>4 DEF IssueNonce
<1>5. CASE \E p \in PlanIds, d \in Days, v \in 1..MaxVersion, c \in Codes :
              ApprovePlan(p, d, v, c)
  <2>1. \/ plans'[q] = plans[q]
        \/ plans'[q].status = "ARMED"
        \/ q \in Stored /\ plans'[q] = [plans[q] EXCEPT !.status = "CANCELLED"]
    BY <1>1, <1>5 DEF ApprovePlan
  <2>2. CASE q \in Stored /\ plans'[q] = [plans[q] EXCEPT !.status = "CANCELLED"]
    BY <1>2, <2>2 DEF Plan
  <2> QED BY <1>3, <2>1, <2>2
<1>6. CASE \E p \in PlanIds, status \in Statuses \ {"ARMED"} :
              /\ SetPlanStatus(p, status)
              /\ status = "COMPLETED" => FullyClosed
  <2>1. PICK p \in PlanIds, status \in Statuses \ {"ARMED"} :
          /\ SetPlanStatus(p, status)
          /\ status = "COMPLETED" => FullyClosed
    BY <1>6
  <2>2. CASE q # p
    BY <1>1, <1>3, <2>1, <2>2 DEF SetPlanStatus, RegistryInv, RegistryTypeOK
  <2>3. CASE q = p
    <3>1. plans'[q].status = status
      BY <1>1, <1>2, <2>1, <2>3
         DEF SetPlanStatus, RegistryInv, RegistryTypeOK, Active, Plan
    <3>2. Resting = {} /\ Held = {} BY <2>1, <3>1 DEF FullyClosed
    <3>3. q # NoPlan BY <1>1, DayAssumption
    <3> QED BY <1>1, <3>2, <3>3 DEF InSlot, Resting, Held
  <2> QED BY <2>2, <2>3
<1> QED BY <1>4, <1>5, <1>6

----
\* The steps.

LEMMA DayInitSound == DayInit => DayInv
<1> SUFFICES ASSUME DayInit PROVE DayInv OBVIOUS
<1>1. RegistryInv BY RegistryInitSound DEF DayInit
<1>2. SlotTypeOK BY DEF DayInit, SlotTypeOK
<1>3. Sound(todo) /\ RestFindsSlot BY EmptySound DEF DayInit, RestFindsSlot, Idle
<1>4. SlotShared BY DEF DayInit, SlotShared, Resting, Held
<1>5. CompletedFlat BY DEF DayInit, RegistryInit, CompletedFlat, Stored
<1> QED BY <1>1, <1>2, <1>3, <1>4, <1>5 DEF DayInv

\* The rest of the list is as sound as the list, as long as the same plans are active.
LEMMA RestStaysSound ==
    ASSUME Sound(todo), todo # <<>>, todo' = Tail(todo), Active' = Active
    PROVE  Sound(todo)'
BY TailSound DEF Sound, ForActivePlans, RestAfterClaim, RestFollowsClaim, StatusLast

\* Nothing but withdrawals and sales follows a status, whatever plans are active then.
LEMMA StatusLeavesClearing ==
    ASSUME Sound(todo), todo # <<>>, todo' = Tail(todo),
           Head(todo).do \in {"status", "complete"}
    PROVE  Sound(todo)' /\ RestFindsSlot'
<1>1. \A i \in 1..Len(todo') : todo'[i].do \in Clearing BY TailSound
<1>2. /\ todo' \in Seq(Writes)
      /\ RestAfterClaim(todo') /\ RestFollowsClaim(todo') /\ StatusLast(todo')
  BY TailSound DEF Sound
<1>3. ForActivePlans(todo)' BY <1>1 DEF ForActivePlans
<1>4. RestFindsSlot'
  <2> SUFFICES ASSUME ~Idle', Head(todo').do = "rest" PROVE FALSE BY DEF RestFindsSlot
  <2>1. 1 \in 1..Len(todo') /\ Head(todo') = todo'[1] BY <1>2 DEF Idle
  <2> QED BY <1>1, <2>1 DEF Clearing
<1> QED BY <1>2, <1>3, <1>4 DEF Sound, RestAfterClaim, RestFollowsClaim, StatusLast

\* Every step of the day is a step of the registry, or leaves it alone.
LEMMA DayStepIsRegistryStep ==
    ASSUME DayInv, [DayNext]_dayVars
    PROVE  [RegistryNext]_registryVars
<1>1. CASE WriteStatus
  <2>1. todo # <<>> /\ Head(todo).do = "status" BY <1>1 DEF WriteStatus, Take
  <2>2. Head(todo) \in Writes /\ Head(todo).plan \in Active
    BY <2>1, TailSound DEF DayInv, Clearing
  <2>3. Head(todo).plan \in PlanIds /\ Head(todo).status \in Statuses \ {"ARMED"}
    BY <2>1, <2>2 DEF Writes
  <2>4. SetPlanStatus(Head(todo).plan, Head(todo).status)
    BY <1>1, <2>2 DEF WriteStatus, StatusBecomes, SetPlanStatus
  <2> QED BY <2>3, <2>4 DEF RegistryNext
<1>2. CASE WriteComplete
  <2>1. todo # <<>> /\ Head(todo).do = "complete" BY <1>2 DEF WriteComplete, Take
  <2>2. Head(todo).plan \in Active /\ Head(todo).plan \in PlanIds
    BY <2>1, TailSound DEF DayInv, Clearing, Active, Stored
  <2>3. SetPlanStatus(Head(todo).plan, "COMPLETED") \/ UNCHANGED registryVars
    BY <1>2, <2>2 DEF WriteComplete, StatusBecomes, SetPlanStatus
  <2> QED BY <2>2, <2>3 DEF RegistryNext, Statuses
<1>3. CASE UNCHANGED registryVars BY <1>3
<1>4. CASE \E p \in PlanIds, d \in Days, v \in 1..MaxVersion, c \in Codes : RegisterPlan(p, d, v, c)
  BY <1>4 DEF RegisterPlan, RegistryNext
<1>5. CASE \E d \in Days, c \in Codes : IssueCode(d, c)
  BY <1>5 DEF IssueCode, RegistryNext
<1> QED
  BY <1>1, <1>2, <1>3, <1>4, <1>5
     DEF DayNext, Write, WriteWithdraw, WriteSell, WriteClaim, RefuseClaim, WriteRest,
         CorporateActionTick, HaltedTick, ForcedExitTick, OpenTick, Tick, Maintenance,
         SessionGuard, Notified, PassForcedExit, PassExpiry, Restart, dayVars

\* A write that gives back part of the slot.
LEMMA ClearingWriteSound ==
    ASSUME DayInv, WriteWithdraw \/ WriteSell
    PROVE  Sound(todo)' /\ RestFindsSlot' /\ SlotTypeOK' /\ SlotShared' /\ CompletedFlat'
<1>1. /\ todo # <<>> /\ todo' = Tail(todo) /\ Head(todo).do \in Clearing
      /\ UNCHANGED <<registryVars, priced>>
  BY DEF WriteWithdraw, WriteSell, Take, Clearing
<1>2. UNCHANGED plans /\ Active' = Active BY <1>1 DEF registryVars, Active, Stored
<1>3. Sound(todo)' BY <1>1, <1>2, RestStaysSound DEF DayInv
<1>4. RestFindsSlot'
  BY <1>1, TailSound DEF DayInv, RestFindsSlot, Idle, Clearing
<1>5. /\ resting' \in [Symbols -> PlanIds \cup {NoPlan}]
      /\ held' \in [Symbols -> PlanIds \cup {NoPlan}]
      /\ \A s \in Symbols : resting'[s] \in {resting[s], NoPlan}
      /\ \A s \in Symbols : held'[s] \in {held[s], NoPlan}
  BY DEF DayInv, SlotTypeOK, WriteWithdraw, WriteSell
<1> QED BY <1>1, <1>2, <1>3, <1>4, <1>5, SlotShrinks DEF DayInv

\* A claim finds the slot free and leaves it so; a refused one ends the list.
LEMMA ClaimSound ==
    ASSUME DayInv, WriteClaim \/ RefuseClaim
    PROVE  Sound(todo)' /\ RestFindsSlot' /\ SlotTypeOK' /\ SlotShared' /\ CompletedFlat'
<1>1. todo # <<>> /\ UNCHANGED <<registryVars, resting, held, priced>>
  BY DEF WriteClaim, RefuseClaim, Take, slotVars
<1>2. UNCHANGED plans /\ Active' = Active BY <1>1 DEF registryVars, Active, Stored
<1>3. SlotTypeOK' /\ SlotShared' /\ CompletedFlat'
  BY <1>1, <1>2
     DEF DayInv, SlotTypeOK, SlotShared, CompletedFlat, Resting, Held, Stored, InSlot
<1>4. CASE WriteClaim
  <2>1. todo' = Tail(todo) /\ SlotFree' BY <1>1, <1>4 DEF WriteClaim, Take, SlotFree, Held, Resting
  <2>2. Sound(todo)' BY <1>1, <1>2, <2>1, RestStaysSound DEF DayInv
  <2> QED BY <1>3, <2>1, <2>2 DEF RestFindsSlot
<1>5. CASE RefuseClaim
  <2>1. todo' = <<>> BY <1>5 DEF RefuseClaim
  <2>2. Sound(todo)'
    BY <2>1, EmptySound DEF Sound, ForActivePlans, RestAfterClaim, RestFollowsClaim, StatusLast
  <2> QED BY <1>3, <2>1, <2>2 DEF RestFindsSlot, Idle
<1> QED BY <1>4, <1>5

\* The order takes the free slot, for a plan that is active.
LEMMA WriteRestSound ==
    ASSUME DayInv, WriteRest
    PROVE  Sound(todo)' /\ RestFindsSlot' /\ SlotTypeOK' /\ SlotShared' /\ CompletedFlat'
<1> DEFINE p == Head(todo).plan
           s == Head(todo).symbol
<1>1. /\ todo # <<>> /\ todo' = Tail(todo) /\ Head(todo).do = "rest"
      /\ UNCHANGED <<registryVars, held, priced>>
      /\ resting' = [resting EXCEPT ![s] = p]
  BY DEF WriteRest, Take
<1>2. UNCHANGED plans /\ Active' = Active BY <1>1 DEF registryVars, Active, Stored
<1>3. Sound(todo)' BY <1>1, <1>2, RestStaysSound DEF DayInv
<1>4. RestFindsSlot'
  BY <1>1, TailSound DEF DayInv, RestFindsSlot, Idle
<1>5. p \in Active /\ p \in PlanIds /\ s \in Symbols
  <2>1. Head(todo) \in Writes /\ p \in Active BY <1>1, TailSound DEF DayInv, Clearing
  <2> QED BY <1>1, <2>1 DEF Writes
<1>6. Held = {} /\ Resting = {} BY <1>1 DEF DayInv, RestFindsSlot, Idle, SlotFree
<1> HIDE DEF p, s
<1>7. /\ resting'[s] = p /\ \A t \in Symbols : t # s => resting'[t] = resting[t]
      /\ SlotTypeOK'
  BY <1>1, <1>5 DEF DayInv, SlotTypeOK
<1>8. Resting' \subseteq {s} /\ Held' = {} BY <1>1, <1>6, <1>7 DEF Resting, Held
<1>9. SlotShared' BY <1>8 DEF SlotShared
<1>10. CompletedFlat'
  <2> SUFFICES ASSUME NEW q \in Stored', plans'[q].status = "COMPLETED", InSlot(q)'
               PROVE  FALSE
    BY DEF CompletedFlat
  <2>1. q \in Stored /\ q \in PlanIds /\ q # NoPlan
    BY <1>2, DayAssumption DEF Stored
  <2>2. q = p BY <1>6, <1>7, <1>8, <2>1 DEF InSlot, Resting, Held
  <2> QED BY <1>2, <1>5, <2>2 DEF Active
<1> QED BY <1>3, <1>4, <1>7, <1>9, <1>10

\* A status ends the list's business with its plan; only an empty slot completes it.
LEMMA StatusWriteSound ==
    ASSUME DayInv, WriteStatus \/ WriteComplete
    PROVE  Sound(todo)' /\ RestFindsSlot' /\ SlotTypeOK' /\ SlotShared' /\ CompletedFlat'
<1>1. /\ todo # <<>> /\ todo' = Tail(todo) /\ Head(todo).do \in {"status", "complete"}
      /\ UNCHANGED <<resting, held, priced>>
  BY DEF WriteStatus, WriteComplete, Take, slotVars
<1>2. Sound(todo)' /\ RestFindsSlot' BY <1>1, StatusLeavesClearing DEF DayInv
<1>3. SlotTypeOK' /\ SlotShared'
  BY <1>1 DEF DayInv, SlotTypeOK, SlotShared, Resting, Held
<1>4. /\ Head(todo) \in Writes /\ Head(todo).plan \in Active
      /\ Head(todo).plan \in PlanIds
  BY <1>1, TailSound DEF DayInv, Clearing, Active, Stored
<1>5. CASE WriteStatus
  <2>1. Head(todo).do = "status" BY <1>5 DEF WriteStatus, Take
  <2>2. Head(todo).status \in Statuses \ {"ARMED", "COMPLETED"} BY <1>4, <2>1 DEF Writes
  <2>3. SetPlanStatus(Head(todo).plan, Head(todo).status)
    BY <1>4, <1>5 DEF WriteStatus, StatusBecomes, SetPlanStatus
  <2> QED BY <1>1, <1>2, <1>3, <1>4, <2>2, <2>3, RegistryStepFlat DEF DayInv
<1>6. CASE WriteComplete /\ FullyClosed
  <2>1. SetPlanStatus(Head(todo).plan, "COMPLETED")
    BY <1>4, <1>6 DEF WriteComplete, StatusBecomes, SetPlanStatus
  <2> QED BY <1>1, <1>2, <1>3, <1>4, <1>6, <2>1, RegistryStepFlat DEF DayInv, Statuses
<1>7. CASE WriteComplete /\ ~FullyClosed
  <2>1. UNCHANGED plans BY <1>7 DEF WriteComplete, registryVars
  <2> QED BY <1>1, <1>2, <1>3, <2>1 DEF DayInv, CompletedFlat, Stored, InSlot
<1> QED BY <1>5, <1>6, <1>7

\* A handler begins: its list is sound, and never starts with an order.
LEMMA ListBegins ==
    ASSUME NEW w, Sound(w), w # <<>> => Head(w).do # "rest", todo' = w, UNCHANGED plans
    PROVE  Sound(todo)' /\ RestFindsSlot'
<1>1. Active' = Active BY DEF Active, Stored
<1>2. Sound(todo)' BY <1>1 DEF Sound, ForActivePlans, RestAfterClaim, RestFollowsClaim, StatusLast
<1> QED BY <1>2 DEF RestFindsSlot, Idle

LEMMA TickSound ==
    ASSUME DayInv, NEW s \in Symbols,
           \/ \E tradable \in BOOLEAN : CorporateActionTick(s, tradable)
           \/ HaltedTick(s) \/ ForcedExitTick(s) \/ OpenTick(s)
    PROVE  Sound(todo)' /\ RestFindsSlot' /\ SlotTypeOK' /\ SlotShared' /\ CompletedFlat'
<1>1. UNCHANGED plans /\ priced' = priced \cup {s}
  BY DEF CorporateActionTick, HaltedTick, ForcedExitTick, OpenTick, Tick, registryVars
<1>2. priced' \in SUBSET Symbols BY <1>1 DEF DayInv, SlotTypeOK
<1>3. SlotTypeOK' /\ SlotShared' /\ CompletedFlat'
  <2>1. CASE UNCHANGED <<resting, held>>
    BY <1>1, <1>2, <2>1
       DEF DayInv, SlotTypeOK, SlotShared, CompletedFlat, Resting, Held, Stored, InSlot
  <2>2. CASE BrokerOnTick(s)
    BY <1>1, <1>2, <2>2, BrokerOnTickSound DEF DayInv
  <2> QED BY <2>1, <2>2 DEF CorporateActionTick, HaltedTick, ForcedExitTick, OpenTick
<1>4. CASE \E tradable \in BOOLEAN : CorporateActionTick(s, tradable)
  <2>1. PICK tradable \in BOOLEAN : todo' = CorporateAction(s, tradable)
    BY <1>4 DEF CorporateActionTick, Tick
  <2> QED BY <1>1, <1>3, <2>1, CorporateActionSound, ListBegins
<1>5. CASE HaltedTick(s)
  <2>1. todo' = <<Withdraw({s})>> BY <1>5 DEF HaltedTick, Tick
  <2>2. Withdraw({s}) \in Writes /\ Withdraw({s}).do = "withdraw"
    BY WritesOK DEF Withdraw
  <2>3. Sound(<<Withdraw({s})>>) BY <2>2, OneSound DEF Clearing
  <2>4. Head(<<Withdraw({s})>>).do # "rest" BY <2>2
  <2> QED BY <1>1, <1>3, <2>1, <2>3, <2>4, ListBegins
<1>6. CASE ForcedExitTick(s)
  <2>1. todo' = ForceClose(priced') BY <1>6 DEF ForcedExitTick, Tick
  <2> QED BY <1>1, <1>2, <1>3, <2>1, ForceCloseSound, ListBegins
<1>7. CASE OpenTick(s)
  <2>1. todo' = Entry(s) BY <1>7 DEF OpenTick, Tick
  <2> QED BY <1>1, <1>3, <2>1, EntrySound, ListBegins
<1> QED BY <1>4, <1>5, <1>6, <1>7

\* The maintenance thread takes an order away between any two writes.
LEMMA MaintenanceSound ==
    ASSUME DayInv, NEW s \in Symbols, Maintenance(s)
    PROVE  Sound(todo)' /\ RestFindsSlot' /\ SlotTypeOK' /\ SlotShared' /\ CompletedFlat'
<1>1. UNCHANGED <<registryVars, held, todo, priced>> BY DEF Maintenance, memory
<1>2. UNCHANGED plans /\ Active' = Active BY <1>1 DEF registryVars, Active, Stored
<1>3. Sound(todo)'
  BY <1>1, <1>2 DEF DayInv, Sound, ForActivePlans, RestAfterClaim, RestFollowsClaim, StatusLast
<1>4. /\ resting' \in [Symbols -> PlanIds \cup {NoPlan}]
      /\ held' \in [Symbols -> PlanIds \cup {NoPlan}]
      /\ \A t \in Symbols : resting'[t] \in {resting[t], NoPlan}
      /\ \A t \in Symbols : held'[t] \in {held[t], NoPlan}
  BY <1>1 DEF DayInv, SlotTypeOK, Maintenance
<1>5. SlotTypeOK' /\ SlotShared' /\ CompletedFlat' /\ (SlotFree => SlotFree')
  BY <1>1, <1>2, <1>4, SlotShrinks DEF DayInv
<1>6. RestFindsSlot' BY <1>1, <1>5 DEF DayInv, RestFindsSlot, Idle
<1> QED BY <1>3, <1>5, <1>6

\* A registration waits for the running handler, and completes nothing.
LEMMA RegistrationSound ==
    ASSUME DayInv,
           \/ \E p \in PlanIds, d \in Days, v \in 1..MaxVersion, c \in Codes :
                  RegisterPlan(p, d, v, c)
           \/ \E d \in Days, c \in Codes : IssueCode(d, c)
    PROVE  Sound(todo)' /\ RestFindsSlot' /\ SlotTypeOK' /\ SlotShared' /\ CompletedFlat'
<1>1. todo' = <<>> /\ UNCHANGED <<resting, held, priced>>
  BY DEF RegisterPlan, IssueCode, Idle, slotVars, memory
<1>2. Sound(todo)' /\ RestFindsSlot'
  BY <1>1, EmptySound
     DEF Sound, ForActivePlans, RestAfterClaim, RestFollowsClaim, StatusLast,
         RestFindsSlot, Idle
<1>3. SlotTypeOK' /\ SlotShared'
  BY <1>1 DEF DayInv, SlotTypeOK, SlotShared, Resting, Held
<1>4. CompletedFlat'
  BY <1>1, RegistryStepFlat DEF DayInv, RegisterPlan, IssueCode
<1> QED BY <1>2, <1>3, <1>4

\* The guard, the clock and a restart leave the tables alone; a restart forgets the list.
LEMMA RestOfDaySound ==
    ASSUME DayInv,
           \/ SessionGuard \/ Notified \/ PassForcedExit \/ Restart
           \/ \E p \in PlanIds : PassExpiry(p)
           \/ UNCHANGED dayVars
    PROVE  Sound(todo)' /\ RestFindsSlot' /\ SlotTypeOK' /\ SlotShared' /\ CompletedFlat'
<1>1. UNCHANGED <<plans, resting, held>> /\ priced' \subseteq Symbols
  BY DEF SessionGuard, Notified, PassForcedExit, PassExpiry, Restart, dayVars, slotVars,
         memory, registryVars, DayInv, SlotTypeOK
<1>2. SlotTypeOK' /\ SlotShared' /\ CompletedFlat'
  BY <1>1 DEF DayInv, SlotTypeOK, SlotShared, CompletedFlat, Resting, Held, Stored, InSlot
<1>3. Active' = Active BY <1>1 DEF Active, Stored
<1>4. CASE SessionGuard
  <2>1. todo' = ForceClose(priced) BY <1>4 DEF SessionGuard
  <2>2. priced \in SUBSET Symbols BY DEF DayInv, SlotTypeOK
  <2> QED BY <1>1, <1>2, <2>1, <2>2, ForceCloseSound, ListBegins
<1>5. CASE Restart
  <2>1. todo' = <<>> BY <1>5 DEF Restart
  <2>2. Sound(todo)'
    BY <2>1, EmptySound DEF Sound, ForActivePlans, RestAfterClaim, RestFollowsClaim, StatusLast
  <2> QED BY <1>2, <2>1, <2>2 DEF RestFindsSlot, Idle
<1>6. CASE UNCHANGED todo
  <2>1. Sound(todo)'
    BY <1>3, <1>6 DEF DayInv, Sound, ForActivePlans, RestAfterClaim, RestFollowsClaim, StatusLast
  <2> QED BY <1>1, <1>2, <1>6, <2>1 DEF DayInv, RestFindsSlot, Idle, SlotFree, Held, Resting
<1> QED
  BY <1>4, <1>5, <1>6 DEF Notified, PassForcedExit, PassExpiry, dayVars, memory

LEMMA DayStepSound == DayInv /\ [DayNext]_dayVars => DayInv'
<1> SUFFICES ASSUME DayInv, [DayNext]_dayVars PROVE DayInv' OBVIOUS
<1>1. RegistryInv' BY DayStepIsRegistryStep, RegistryStepSound DEF DayInv
<1>2. Sound(todo)' /\ RestFindsSlot' /\ SlotTypeOK' /\ SlotShared' /\ CompletedFlat'
  BY ClearingWriteSound, ClaimSound, WriteRestSound, StatusWriteSound, TickSound,
     MaintenanceSound, RegistrationSound, RestOfDaySound DEF DayNext, Write
<1> QED BY <1>1, <1>2 DEF DayInv

\* The inductive invariant of the day (engine.py, scheduler.py, repository.py).
THEOREM DaySound == DaySpec => []DayInv
<1>1. DayInit => DayInv BY DayInitSound
<1>2. DayInv /\ [DayNext]_dayVars => DayInv' BY DayStepSound
<1> QED BY <1>1, <1>2, PTL DEF DaySpec

\* One symbol and one plan own the market's slot, whatever stops or comes in between
\* the writes of a handler (can_submit, submit_entry, on_tick, expire_orders).
THEOREM OneOwnerPerSlot == DaySpec => []SlotShared
<1>1. DayInv => SlotShared BY DEF DayInv
<1> QED BY <1>1, DaySound, PTL

\* A completed plan keeps no order and no position (force_close, process_tick).
THEOREM CompletedIsFlat == DaySpec => []CompletedFlat
<1>1. DayInv => CompletedFlat BY DEF DayInv
<1> QED BY <1>1, DaySound, PTL

\* The day implements the registry: what is proved of the registry alone, with its
\* statuses given to active plans only, holds of the handlers that write to it one
\* write at a time (process_tick, force_close_market, register_plan).
THEOREM DayKeepsRegistry == DaySpec => RegistryKept
<1>1. DayInit => RegistryInit BY DEF DayInit
<1>2. DayInv /\ [DayNext]_dayVars => [RegistryNext]_registryVars
  BY DayStepIsRegistryStep
<1> QED BY <1>1, <1>2, DaySound, PTL DEF DaySpec, RegistryKept, RegistrySpec

\* So the engine never trades two plans of one market and date, on any day.
THEOREM OneActivePlanAllDay == DaySpec => []ActiveIsLatest
<1>1. DaySpec => RegistrySpec BY DayKeepsRegistry DEF RegistryKept
<1> QED BY <1>1, OneActivePlan, PTL

----
\* The day implements the slot.

\* The slot has one entry: an order that is due finds it free.
LEMMA OneInTheSlot ==
    ASSUME DayInv
    PROVE  /\ \A k, l \in InTheSlot : k = l
           /\ InTheSlot \subseteq PlanIds \X Symbols
<1> DEFINE due(k) == ~Idle /\ Head(todo) = Rest(k[1], k[2])
<1>1. ASSUME NEW k \in InTheSlot
      PROVE  \/ k[2] \in Resting /\ k[1] = resting[k[2]]
             \/ k[2] \in Held /\ k[1] = held[k[2]]
             \/ due(k)
  <2>1. k[1] \in PlanIds /\ k[2] \in Symbols /\ k[1] # NoPlan
    BY DayAssumption DEF InTheSlot
  <2> QED BY <1>1, <2>1 DEF InTheSlot, Resting, Held
<1>2. ASSUME NEW k \in InTheSlot, due(k) PROVE Resting = {} /\ Held = {}
  <2>1. Head(todo).do = "rest" BY <1>2 DEF Rest
  <2> QED BY <1>2, <2>1 DEF DayInv, RestFindsSlot, SlotFree
<1>3. \A k \in InTheSlot : k = <<k[1], k[2]>> BY DEF InTheSlot
<1>4. ASSUME NEW k \in InTheSlot, NEW l \in InTheSlot PROVE k = l
  <2>1. CASE due(k) \/ due(l)
    <3>1. due(k) /\ due(l) BY <1>1, <1>2, <1>4, <2>1
    <3>2. Rest(k[1], k[2]) = Rest(l[1], l[2]) BY <3>1
    <3>3. k[1] = l[1] /\ k[2] = l[2] BY <3>2 DEF Rest
    <3> QED BY <1>3, <1>4, <3>3
  <2>2. CASE ~due(k) /\ ~due(l)
    <3>1. k[2] = l[2] /\ k[1] = l[1] BY <1>1, <1>4, <2>2 DEF DayInv, SlotShared
    <3> QED BY <1>3, <1>4, <3>1
  <2> QED BY <2>1, <2>2
<1> QED BY <1>4 DEF InTheSlot

\* Whoever only takes from the slot releases it or leaves it alone.
LEMMA SlotGivenBack ==
    ASSUME DayInv, InTheSlot' \subseteq InTheSlot, UNCHANGED claimed
    PROVE  DaySlot!Release \/ UNCHANGED DaySlot!slotVars
<1> DEFINE O == InTheSlot
           P == InTheSlot'
<1>1. /\ \A k, l \in O : k = l
      /\ O \subseteq PlanIds \X Symbols
  BY OneInTheSlot
<1>2. /\ DayHolder = IF O = {} THEN <<>> ELSE CHOOSE k \in O : TRUE
      /\ DayHolder' = IF P = {} THEN <<>> ELSE CHOOSE k \in P : TRUE
  BY DEF DayHolder
<1>3. P \subseteq O OBVIOUS
<1> HIDE DEF O, P
<1>4. CASE P = O BY <1>2, <1>4 DEF DaySlot!slotVars
<1>5. CASE P # O
  <2>1. P = {} /\ O # {} BY <1>1, <1>3, <1>5
  <2>2. DayHolder \in PlanIds \X Symbols BY <1>1, <1>2, <2>1
  <2>3. DayHolder # <<>> BY <2>2
  <2> QED BY <1>2, <2>1, <2>3 DEF DaySlot!Release
<1> QED BY <1>4, <1>5

\* A claim takes the free slot for an entry that never had it.
LEMMA ClaimTakes ==
    ASSUME DayInv, WriteClaim
    PROVE  \E e \in PlanIds \X Symbols : DaySlot!Take(e)
<1> DEFINE p == Head(todo).plan
           s == Head(todo).symbol
<1>1. /\ todo # <<>> /\ Head(todo).do = "claim" /\ todo' = Tail(todo)
      /\ SlotFree /\ <<p, s>> \notin claimed /\ claimed' = claimed \cup {<<p, s>>}
      /\ UNCHANGED <<resting, held>>
  BY DEF WriteClaim, Take
<1>2. /\ Head(todo) \in Writes
      /\ todo' # <<>> /\ Head(todo') = Rest(p, s)
  BY <1>1, TailSound DEF DayInv
<1>3. p \in PlanIds /\ s \in Symbols BY <1>1, <1>2 DEF Writes
<1> HIDE DEF p, s
<1>4. \A k \in PlanIds \X Symbols : k[1] \notin {resting'[k[2]], held'[k[2]]}
  <2>1. \A t \in Symbols : resting[t] = NoPlan /\ held[t] = NoPlan
    BY <1>1 DEF SlotFree, Resting, Held
  <2> QED BY <1>1, <2>1, DayAssumption
<1>5. InTheSlot' = {k \in PlanIds \X Symbols : Rest(p, s) = Rest(k[1], k[2])}
  BY <1>2, <1>4 DEF InTheSlot, Idle
<1>6. \A k \in PlanIds \X Symbols : Rest(p, s) = Rest(k[1], k[2]) => k = <<p, s>>
  <2> SUFFICES ASSUME NEW k \in PlanIds \X Symbols, Rest(p, s) = Rest(k[1], k[2])
               PROVE  k = <<p, s>>
    OBVIOUS
  <2>1. k[1] = p /\ k[2] = s BY DEF Rest
  <2> QED BY <2>1
<1>7. InTheSlot' = {<<p, s>>} BY <1>3, <1>5, <1>6
<1>8. DayHolder' = <<p, s>> BY <1>7 DEF DayHolder
<1> QED BY <1>1, <1>3, <1>8 DEF DaySlot!Take

\* The order that is due rests: the entry keeps the slot.
LEMMA RestKeepsSlot ==
    ASSUME DayInv, WriteRest
    PROVE  InTheSlot' \subseteq InTheSlot /\ UNCHANGED claimed
<1> DEFINE p == Head(todo).plan
           s == Head(todo).symbol
<1>1. /\ todo # <<>> /\ Head(todo).do = "rest" /\ todo' = Tail(todo)
      /\ resting' = [resting EXCEPT ![s] = p]
      /\ UNCHANGED <<held, claimed>>
  BY DEF WriteRest, Take
<1>2. /\ Head(todo) \in Writes
      /\ todo' # <<>> => Head(todo').do # "rest"
  BY <1>1, TailSound DEF DayInv
<1>3. p \in PlanIds /\ s \in Symbols /\ Head(todo) = Rest(p, s)
  BY <1>1, <1>2 DEF Writes, Rest
<1>4. Resting = {} /\ Held = {} BY <1>1 DEF DayInv, RestFindsSlot, Idle, SlotFree
<1> HIDE DEF p, s
<1>5. \A t \in Symbols : /\ resting'[t] = IF t = s THEN p ELSE NoPlan
                         /\ held'[t] = NoPlan
  BY <1>1, <1>3, <1>4 DEF DayInv, SlotTypeOK, Resting, Held
<1>6. ASSUME NEW k \in InTheSlot' PROVE k \in InTheSlot
  <2>1. k \in PlanIds \X Symbols /\ k[1] # NoPlan BY DayAssumption DEF InTheSlot
  <2>2. ~(~Idle' /\ Head(todo') = Rest(k[1], k[2])) BY <1>2 DEF Rest, Idle
  <2>3. k[1] \in {resting'[k[2]], held'[k[2]]} BY <1>6, <2>2 DEF InTheSlot
  <2>4. k[1] = p /\ k[2] = s BY <1>5, <2>1, <2>3
  <2> QED BY <1>1, <1>3, <2>1, <2>4 DEF InTheSlot, Idle
<1> QED BY <1>1, <1>6

\* A tick's list does not begin with an order.
LEMMA TickStarts ==
    ASSUME DayInv, NEW s \in Symbols,
           \/ \E tradable \in BOOLEAN : CorporateActionTick(s, tradable)
           \/ HaltedTick(s) \/ ForcedExitTick(s) \/ OpenTick(s)
    PROVE  todo' = <<>> \/ Head(todo').do # "rest"
<1>1. CASE \E tradable \in BOOLEAN : CorporateActionTick(s, tradable)
  BY <1>1, CorporateActionSound DEF CorporateActionTick, Tick
<1>2. CASE HaltedTick(s)
  <2>1. todo' = <<Withdraw({s})>> BY <1>2 DEF HaltedTick, Tick
  <2>2. Withdraw({s}).do = "withdraw" BY DEF Withdraw
  <2>3. Head(<<Withdraw({s})>>) = Withdraw({s}) OBVIOUS
  <2> QED BY <2>1, <2>2, <2>3
<1>3. CASE ForcedExitTick(s)
  <2>1. todo' = ForceClose(priced') /\ priced' = priced \cup {s}
    BY <1>3 DEF ForcedExitTick, Tick
  <2>2. priced' \in SUBSET Symbols BY <2>1 DEF DayInv, SlotTypeOK
  <2> QED BY <2>1, <2>2, ForceCloseSound
<1>4. CASE OpenTick(s)
  <2>1. todo' = Entry(s) BY <1>4 DEF OpenTick, Tick
  <2> QED BY <2>1, EntrySound
<1> QED BY <1>1, <1>2, <1>3, <1>4

\* Every other step keeps claims, adds no owner, and makes no order due.
LEMMA OthersOnlyGiveBack ==
    ASSUME DayInv, [DayNext]_dayVars, ~WriteClaim, ~WriteRest
    PROVE  InTheSlot' \subseteq InTheSlot /\ UNCHANGED claimed
<1>1. UNCHANGED claimed
  BY DEF DayNext, Write, WriteWithdraw, WriteSell, RefuseClaim, WriteStatus, WriteComplete,
         CorporateActionTick, HaltedTick, ForcedExitTick, OpenTick, Tick, Maintenance,
         RegisterPlan, IssueCode, SessionGuard, Notified, PassForcedExit, PassExpiry,
         Restart, dayVars, slotVars
<1>2. \A t \in Symbols : /\ resting'[t] \in {resting[t], NoPlan}
                         /\ held'[t] \in {held[t], resting[t], NoPlan}
  <2>1. CASE \E s \in Symbols : BrokerOnTick(s)
    <3>1. PICK s \in Symbols : BrokerOnTick(s) BY <2>1
    <3>2. PICK order \in {resting[s], NoPlan}, position \in {held[s], resting[s], NoPlan} :
            /\ resting' = [resting EXCEPT ![s] = order]
            /\ held' = [held EXCEPT ![s] = position]
      BY <3>1 DEF BrokerOnTick
    <3> QED BY <3>2 DEF DayInv, SlotTypeOK
  <2>2. CASE WriteWithdraw \/ WriteSell
    BY <2>2 DEF WriteWithdraw, WriteSell
  <2>3. CASE \E s \in Symbols : Maintenance(s)
    BY <2>3 DEF Maintenance, DayInv, SlotTypeOK
  <2>4. CASE UNCHANGED <<resting, held>>
    BY <2>4
  <2> QED
    BY <2>1, <2>2, <2>3, <2>4
       DEF DayNext, Write, RefuseClaim, WriteStatus, WriteComplete,
           CorporateActionTick, HaltedTick, ForcedExitTick, OpenTick, Tick,
           RegisterPlan, IssueCode, SessionGuard, Notified, PassForcedExit, PassExpiry,
           Restart, dayVars, slotVars
<1>3. \/ todo' = <<>>
      \/ Head(todo').do # "rest"
      \/ UNCHANGED todo
  <2>1. CASE \/ WriteWithdraw \/ WriteSell \/ WriteStatus \/ WriteComplete
    <3>1. /\ todo # <<>> /\ todo' = Tail(todo) /\ Head(todo).do # "claim"
      BY <2>1 DEF WriteWithdraw, WriteSell, WriteStatus, WriteComplete, Take
    <3> QED BY <3>1, TailSound DEF DayInv
  <2>2. CASE \E s \in Symbols : \/ \E tradable \in BOOLEAN : CorporateActionTick(s, tradable)
                                \/ HaltedTick(s) \/ ForcedExitTick(s) \/ OpenTick(s)
    BY <2>2, TickStarts
  <2>3. CASE SessionGuard
    <3>1. todo' = ForceClose(priced) /\ priced \in SUBSET Symbols
      BY <2>3 DEF SessionGuard, DayInv, SlotTypeOK
    <3> QED BY <3>1, ForceCloseSound
  <2>4. CASE RefuseClaim \/ Restart BY <2>4 DEF RefuseClaim, Restart
  <2>5. CASE UNCHANGED todo BY <2>5
  <2> QED
    BY <2>1, <2>2, <2>3, <2>4, <2>5
       DEF DayNext, Write, Maintenance, RegisterPlan, IssueCode, Notified, PassForcedExit,
           PassExpiry, dayVars, memory
<1>4. ASSUME NEW k \in InTheSlot' PROVE k \in InTheSlot
  <2>1. k \in PlanIds \X Symbols /\ k[1] # NoPlan BY DayAssumption DEF InTheSlot
  <2>2. CASE k[1] \in {resting'[k[2]], held'[k[2]]}
    <3>1. k[1] \in {resting[k[2]], held[k[2]]} BY <1>2, <2>1, <2>2
    <3> QED BY <2>1, <3>1 DEF InTheSlot
  <2>3. CASE ~Idle' /\ Head(todo') = Rest(k[1], k[2])
    <3>1. todo' = todo BY <1>3, <2>3 DEF Idle, Rest
    <3> QED BY <2>1, <2>3, <3>1 DEF InTheSlot, Idle
  <2> QED BY <1>4, <2>2, <2>3 DEF InTheSlot
<1> QED BY <1>1, <1>4

\* The day promises of the slot what the broker alone promises: an entry has it at most
\* once.  That claim and order are two writes, that the maintenance thread comes between
\* and that a crash drops the rest changes nothing (submit_entry, expire_orders).
THEOREM DayKeepsSlot == DaySpec => DaySlotKept
<1>1. DayInit => DaySlot!SlotInit
  <2> SUFFICES ASSUME DayInit PROVE DaySlot!SlotInit OBVIOUS
  <2>1. \A k \in PlanIds \X Symbols : k[1] \notin {resting[k[2]], held[k[2]]}
    BY DayAssumption DEF DayInit
  <2>2. InTheSlot = {} BY <2>1 DEF InTheSlot, DayInit, Idle
  <2> QED BY <2>2 DEF DayInit, DaySlot!SlotInit, DayHolder
<1>2. DayInv /\ [DayNext]_dayVars => [DaySlot!SlotNext]_(DaySlot!slotVars)
  BY ClaimTakes, RestKeepsSlot, OthersOnlyGiveBack, SlotGivenBack DEF DaySlot!SlotNext
<1> QED BY <1>1, <1>2, DaySound, PTL DEF DaySpec, DaySlotKept, DaySlot!SlotSpec
====
