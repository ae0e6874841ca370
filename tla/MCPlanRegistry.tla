---- MODULE MCPlanRegistry ----
(***************************************************************************)
(* The TLC instance of PlanRegistry: plans are stored under interchangeable *)
(* identifiers and codes are interchangeable values.                       *)
(***************************************************************************)
EXTENDS PlanRegistry, TLC

Interchangeable == Permutations(PlanIds) \cup Permutations(Codes) \cup Permutations(Days)
====
