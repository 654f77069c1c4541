--------------------------- MODULE MCCoreService ---------------------------
(* Model checking of CoreService with small signals and times.              *)
EXTENDS CoreService

OneBet == [bets |-> 1, liability |-> 1]

(* Signals that reach one limit only, and one that takes liability back. *)
SomeSignals == {[bets |-> 2, liability |-> 0], [bets |-> 0, liability |-> 2],
                [bets |-> 0, liability |-> -1]}

(* Signals of liability only: bets come from the spike scenario. *)
LiabilitySignals == {[bets |-> 0, liability |-> 2], [bets |-> 0, liability |-> -1]}

(* Timestamps relative to the clock. *)
PresentFuture == {0, 2}
=============================================================================
