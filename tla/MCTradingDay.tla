---- MODULE MCTradingDay ----
(***************************************************************************)
(* The TLC instance of TradingDay: the first plan approves both symbols,   *)
(* so that its order can rest on one while the other has an event; the     *)
(* second plan approves one of them and can replace the first.             *)
(***************************************************************************)
EXTENDS TradingDay

CONSTANTS p1, p2, sA, sB

MCApproved == [p \in PlanIds |-> IF p = p1 THEN {sA, sB} ELSE {sA}]
====
