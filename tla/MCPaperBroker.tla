---- MODULE MCPaperBroker ----
(***************************************************************************)
(* TLC instances of PaperBroker.  Ask prices are multiples of 60000, which *)
(* keeps the average of up to three fills an integer; each side costs one  *)
(* per cent, each of slippage and commission, so every cost is exact.      *)
(***************************************************************************)
EXTENDS PaperBroker, TLC

CONSTANTS p1, sA, sB

PlanSymmetry == Permutations(Plans)

\* One entry a day, so that the limit bites; cash for exactly three shares.
OneEntry == [initial_cash |-> 3680000, commission_bps |-> 100, slippage_bps |-> 100,
             fx_bps |-> 0, sell_tax_bps |-> 0, trade_risk_pct |-> 10,
             daily_loss_pct |-> 10, max_quantity |-> 2, latency |-> 1, timeout |-> 3,
             allow_partial |-> TRUE, max_fill |-> 2, participation_pct |-> 10,
             max_submissions |-> 2, max_entries |-> 1, stop_count |-> 2,
             stop_cooldown |-> 1]
TwoEntries  == [OneEntry EXCEPT !.max_entries = 2]
ThreeShares == [OneEntry EXCEPT !.max_quantity = 3]

\* A with every exit, three targets and the stop moved after the first; B with
\* one target and no exit but the stop.
CandidateA == [limit |-> 1212000, stop |-> 1128000, offset_bps |-> 20, emergency |-> 1,
               targets |-> <<[price |-> 1260000, pct |-> 50],
                             [price |-> 1320000, pct |-> 30],
                             [price |-> 1380000, pct |-> 20]>>,
               max_holding |-> 3, no_progress |-> 2, min_progress_pct |-> 1,
               below_vwap |-> 1, move_stop |-> TRUE]
CandidateB == [limit |-> 1212000, stop |-> 1128000, offset_bps |-> 20, emergency |-> 1,
               targets |-> <<[price |-> 1320000, pct |-> 100]>>,
               max_holding |-> 9, no_progress |-> 0, min_progress_pct |-> 0,
               below_vwap |-> 0, move_stop |-> FALSE]

OnlyA == sA :> CandidateA

\* For two symbols: A with two targets and fewer timers.
CandidateC == [CandidateA EXCEPT !.targets = <<[price |-> 1260000, pct |-> 50],
                                               [price |-> 1320000, pct |-> 50]>>,
                                 !.below_vwap = 0, !.no_progress = 0,
                                 !.min_progress_pct = 0]
MCCandidate == (sA :> CandidateC) @@ (sB :> CandidateB)

Quote == [bid |-> 1188000, ask |-> 1200000, ask_size |-> 1, trade_size |-> 0,
          halted |-> FALSE, orderly |-> TRUE, vwap |-> "none"]

\* Quotes between the stop and the first target.
Small    == Quote
Below    == [Quote EXCEPT !.vwap = "below", !.ask = 1212000]
Cheap    == [Quote EXCEPT !.bid = 1132000, !.ask = 1140000, !.ask_size = 0,
                          !.trade_size = 29, !.vwap = "above"]
\* Quotes that end or trim a position.
AtStop   == [Quote EXCEPT !.bid = 1126000, !.ask = 1140000, !.ask_size = 3]
Gap      == [Quote EXCEPT !.bid = 1050000, !.ask = 1080000, !.orderly = FALSE]
First    == [Quote EXCEPT !.bid = 1260000, !.ask = 1320000]
Second   == [Quote EXCEPT !.bid = 1320000, !.ask = 1380000]
Halted   == [Quote EXCEPT !.halted = TRUE]

AllTicks   == {Small, Below, Cheap, AtStop, Gap, First, Second, Halted}
\* For two symbols: no halt, no bid below a stop limit, no VWAP timer, one target.
SlotTicks  == AllTicks \ {Below, Cheap, Second, Gap, Halted}
\* For crashes: the cheap quote is below the VWAP and the quote at the first
\* target above it; the offer is at the limit when the bid is at the stop.
CrashTicks == (AllTicks \ {Below, Cheap, AtStop, First})
              \cup {[Cheap EXCEPT !.vwap = "below"], [First EXCEPT !.vwap = "above"],
                    [AtStop EXCEPT !.ask = 1212000]}

\* The prices are exact in the sense of the accounts of money and of risk.
ASSUME ExactPrices == SteadyPrices /\ WholeExits
====
