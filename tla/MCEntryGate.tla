---- MODULE MCEntryGate ----
(***************************************************************************)
(* TLC instance of EntryGate: the kinds of ticks that tell the rejections, *)
(* the crossing and the disturbances apart.                                *)
(***************************************************************************)
EXTENDS EntryGate

Plain == [session |-> "regular", halted |-> FALSE, quote |-> "normal",
          level |-> "above", admitted |-> TRUE, allowed |-> FALSE]

MCBridgeKinds == {Plain,
                  [Plain EXCEPT !.level = "below", !.allowed = TRUE],
                  [Plain EXCEPT !.level = "touching"],
                  [Plain EXCEPT !.level = "between", !.session = "other"],
                  [Plain EXCEPT !.level = "absent", !.admitted = FALSE],
                  [Plain EXCEPT !.halted = TRUE]}
MCLateKinds == {Plain}
MCPollKinds == {[Plain EXCEPT !.quote = "locked"]}
====
