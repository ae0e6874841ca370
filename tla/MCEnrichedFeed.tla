---- MODULE MCEnrichedFeed ----
(***************************************************************************)
(* TLC instance of EnrichedFeed.                                           *)
(***************************************************************************)
EXTENDS EnrichedFeed
====
