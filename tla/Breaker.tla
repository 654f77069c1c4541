------------------------------ MODULE Breaker ------------------------------
(***************************************************************************)
(* domain.ApplyBreaker: one evaluation of one market, and the test that a  *)
(* replica makes of the event that comes of it.                            *)
(*                                                                         *)
(* A market state has the fields that the breaker reads or that decide     *)
(* whether two states are equal.  Left out: MarketID, which is the key of  *)
(* the map; the stake, a third sum that only IsEqual reads; and            *)
(* LastTransitionUnixMs, which changes only together with the status.      *)
(* Numbers are integers, times are integers of any unit.                   *)
(***************************************************************************)
EXTENDS Integers

CONSTANTS BetLimit,        \* BreakerConfig.BetCountThreshold
          LiabilityLimit,  \* BreakerConfig.LiabilityThresholdCents
          Cooldown         \* BreakerConfig.CooldownMs

(* The defaults, which the core process runs with, are positive. *)
ASSUME BreakerAssumption ==
    /\ BetLimit \in Nat \ {0}
    /\ LiabilityLimit \in Nat \ {0}
    /\ Cooldown \in Nat \ {0}

Reasons == {"NONE", "BET_RATE_SPIKE", "LIABILITY_SPIKE"}

EventTypes == {"MARKET_UPDATED", "MARKET_SUSPENDED", "MARKET_REOPENED"}

WindowMetrics == [bets : Int, liability : Int]

MarketState == [status : {"OPEN", "SUSPENDED"}, bets : Int, liability : Int,
                cooldownUntil : Int, reason : Reasons]

(* The state of a market when it is first seen. *)
NewMarket == [status |-> "OPEN", bets |-> 0, liability |-> 0,
              cooldownUntil |-> 0, reason |-> "NONE"]

(* Mutant of SuspensionReason: > for >=. *)
ReasonAbove(x) ==
    IF x.bets > BetLimit THEN "BET_RATE_SPIKE"
    ELSE IF x.liability > LiabilityLimit THEN "LIABILITY_SPIKE"
    ELSE "NONE"

(* The first limit that is reached, "NONE" when none is. *)
SuspensionReason(x) ==
    IF x.bets >= BetLimit THEN "BET_RATE_SPIKE"
    ELSE IF x.liability >= LiabilityLimit THEN "LIABILITY_SPIKE"
    ELSE "NONE"

(* Mutant of CanReopen: <= for <. *)
CanReopenAtLimit(t, s, x) ==
    /\ t >= s.cooldownUntil
    /\ x.bets <= BetLimit
    /\ x.liability <= LiabilityLimit

CanReopen(t, s, x) ==
    /\ t >= s.cooldownUntil
    /\ x.bets < BetLimit
    /\ x.liability < LiabilityLimit

Result(s, type) == [state |-> s, type |-> type]

Reopen(s) ==
    [status |-> "OPEN", bets |-> s.bets, liability |-> s.liability,
     cooldownUntil |-> 0, reason |-> "NONE"]

Suspend(t, s, x) ==
    [status |-> "SUSPENDED", bets |-> s.bets, liability |-> s.liability,
     cooldownUntil |-> t + Cooldown, reason |-> SuspensionReason(x)]

WithMetrics(s, x) == [s EXCEPT !.bets = x.bets, !.liability = x.liability]

(* Mutant of ApplyBreaker: a suspended market that is hot starts its        *)
(* cooldown and its suspension again.                                       *)
ApplyBreakerAgain(t, prev, x) ==
    LET next == WithMetrics(prev, x)
    IN  CASE SuspensionReason(x) # "NONE" ->
                Result(Suspend(t, next, x), "MARKET_SUSPENDED")
          [] SuspensionReason(x) = "NONE" /\ next.status = "SUSPENDED"
                /\ CanReopen(t, next, x) -> Result(Reopen(next), "MARKET_REOPENED")
          [] OTHER -> Result(next, "MARKET_UPDATED")

(* The state that follows prev at time t with the window's sums x, and the *)
(* type of the event.  The code returns a third value, whether there was a *)
(* transition: it is whether the type is another than MARKET_UPDATED.  An   *)
(* empty status, which the code takes for OPEN, is left out: every market of *)
(* the service begins as NewMarket.                                         *)
ApplyBreaker(t, prev, x) ==
    LET next == WithMetrics(prev, x)
    IN  CASE next.status = "OPEN" /\ SuspensionReason(x) # "NONE" ->
                Result(Suspend(t, next, x), "MARKET_SUSPENDED")
          [] next.status = "SUSPENDED" /\ CanReopen(t, next, x) ->
                Result(Reopen(next), "MARKET_REOPENED")
          [] OTHER -> Result(next, "MARKET_UPDATED")

(* decodeAndValidateEventPayload and validateEventEnvelope of the replica. *)
ValidForReplica(type, s) ==
    /\ type \in EventTypes
    /\ s.status \in {"OPEN", "SUSPENDED"}
    /\ type = "MARKET_SUSPENDED" => s.status = "SUSPENDED"
    /\ type = "MARKET_REOPENED" => s.status = "OPEN"

(* An open market is below both limits and carries no trace of an earlier   *)
(* suspension; a suspended one names its reason and the end of its cooldown.*)
Coherent(s) ==
    IF s.status = "OPEN"
    THEN /\ s.bets < BetLimit
         /\ s.liability < LiabilityLimit
         /\ s.cooldownUntil = 0
         /\ s.reason = "NONE"
    ELSE s.reason # "NONE"
=============================================================================
