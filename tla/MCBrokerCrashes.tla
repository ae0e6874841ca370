---- MODULE MCBrokerCrashes ----
(***************************************************************************)
(* The TLC instances of MCPaperBroker with crashes inside operations.      *)
(***************************************************************************)
EXTENDS MCPaperBroker, BrokerCrashes
====
