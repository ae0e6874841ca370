---- MODULE MCPullbackRebreak ----
(***************************************************************************)
(* The TLC instance of PullbackRebreak: an ATR of four price units, so that *)
(* a pullback of one or two units is deep enough and not too deep.         *)
(***************************************************************************)
EXTENDS PullbackRebreak

\* Around an opening high of 10.
At(price) == [last |-> price, atr |-> 4, recent_high |-> 13, volume |-> 2,
              strong |-> TRUE, support |-> TRUE, calm |-> TRUE, good |-> TRUE]

MCTicks == {At(10), At(12), At(13),
            [At(11) EXCEPT !.volume = 1],
            [At(13) EXCEPT !.good = FALSE, !.strong = FALSE],
            [At(12) EXCEPT !.recent_high = 12, !.calm = FALSE],
            [At(11) EXCEPT !.support = FALSE],
            [At(12) EXCEPT !.atr = 0]}
====
