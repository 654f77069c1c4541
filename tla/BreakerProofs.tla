--------------------------- MODULE BreakerProofs ---------------------------
(* What ApplyBreaker promises for all integers, limits and cooldowns.       *)
EXTENDS Breaker, TLAPS

(* One evaluation of a coherent market gives a coherent market, and an     *)
(* event that the replica accepts.                                          *)
THEOREM EvaluationCoherent ==
    ASSUME NEW t \in Int, NEW prev \in MarketState, NEW x \in WindowMetrics
    PROVE  LET r == ApplyBreaker(t, prev, x)
           IN  /\ r.state \in MarketState
               /\ r.type \in EventTypes
               /\ Coherent(prev) => Coherent(r.state)
               /\ ValidForReplica(r.type, r.state)
<1> DEFINE next == WithMetrics(prev, x)
           r    == ApplyBreaker(t, prev, x)
<1>1. /\ next \in MarketState
      /\ next.status = prev.status /\ next.reason = prev.reason
      /\ next.cooldownUntil = prev.cooldownUntil
      /\ next.bets = x.bets /\ next.liability = x.liability
    BY DEF WithMetrics, MarketState, WindowMetrics
<1> HIDE DEF next
<1>2. /\ SuspensionReason(x) \in Reasons
      /\ SuspensionReason(x) = "NONE" <=> x.bets < BetLimit /\ x.liability < LiabilityLimit
    BY BreakerAssumption DEF BreakerAssumption, SuspensionReason, Reasons, WindowMetrics
<1>3. CASE next.status = "OPEN" /\ SuspensionReason(x) # "NONE"
    <2> DEFINE s == Suspend(t, next, x)
    <2>1. r.state = s /\ r.type = "MARKET_SUSPENDED"
        BY <1>3 DEF ApplyBreaker, Result, next
    <2>2. s \in MarketState /\ s.status = "SUSPENDED" /\ s.reason # "NONE"
        BY <1>1, <1>2, <1>3, BreakerAssumption
        DEF Suspend, MarketState, BreakerAssumption
    <2> QED
        BY <2>1, <2>2 DEF EventTypes, Coherent, ValidForReplica
<1>4. CASE next.status = "SUSPENDED" /\ CanReopen(t, next, x)
    <2> DEFINE s == Reopen(next)
    <2>1. r.state = s /\ r.type = "MARKET_REOPENED"
        BY <1>4 DEF ApplyBreaker, Result, next
    <2>2. /\ s \in MarketState /\ s.status = "OPEN" /\ s.reason = "NONE"
          /\ s.cooldownUntil = 0 /\ s.bets < BetLimit /\ s.liability < LiabilityLimit
        BY <1>1, <1>4 DEF Reopen, CanReopen, MarketState, Reasons
    <2> QED
        BY <2>1, <2>2 DEF EventTypes, Coherent, ValidForReplica
<1>5. CASE /\ ~(next.status = "OPEN" /\ SuspensionReason(x) # "NONE")
           /\ ~(next.status = "SUSPENDED" /\ CanReopen(t, next, x))
    <2>1. r.state = next /\ r.type = "MARKET_UPDATED"
        BY <1>5 DEF ApplyBreaker, Result, next
    <2>2. Coherent(prev) => Coherent(next)
        BY <1>1, <1>2, <1>5 DEF Coherent
    <2> QED
        BY <1>1, <2>1, <2>2 DEF EventTypes, ValidForReplica, MarketState
<1> QED
    BY <1>3, <1>4, <1>5

(* What each type of event says: a suspension is of an open market and      *)
(* starts the cooldown at t, a reopening is of a suspended one whose        *)
(* cooldown is over, and an update changes neither the status nor the       *)
(* cooldown.                                                                *)
THEOREM TransitionShape ==
    ASSUME NEW t \in Int, NEW prev \in MarketState, NEW x \in WindowMetrics
    PROVE  LET r == ApplyBreaker(t, prev, x)
           IN  /\ r.type = "MARKET_SUSPENDED" =>
                    /\ prev.status = "OPEN" /\ r.state.status = "SUSPENDED"
                    /\ r.state.cooldownUntil = t + Cooldown
               /\ r.type = "MARKET_REOPENED" =>
                    /\ prev.status = "SUSPENDED" /\ r.state.status = "OPEN"
                    /\ t >= prev.cooldownUntil
               /\ r.type = "MARKET_UPDATED" =>
                    /\ r.state.status = prev.status
                    /\ r.state.cooldownUntil = prev.cooldownUntil
<1> DEFINE next == WithMetrics(prev, x)
           r    == ApplyBreaker(t, prev, x)
<1>1. /\ next.status = prev.status
      /\ next.cooldownUntil = prev.cooldownUntil
    BY DEF WithMetrics, MarketState, WindowMetrics
<1> HIDE DEF next
<1>2. CASE next.status = "OPEN" /\ SuspensionReason(x) # "NONE"
    <2>1. r.state = Suspend(t, next, x) /\ r.type = "MARKET_SUSPENDED"
        BY <1>2 DEF ApplyBreaker, Result, next
    <2> QED
        BY <1>1, <1>2, <2>1 DEF Suspend
<1>3. CASE next.status = "SUSPENDED" /\ CanReopen(t, next, x)
    <2>1. r.state = Reopen(next) /\ r.type = "MARKET_REOPENED"
        BY <1>3 DEF ApplyBreaker, Result, next
    <2> QED
        BY <1>1, <1>3, <2>1 DEF Reopen, CanReopen
<1>4. CASE /\ ~(next.status = "OPEN" /\ SuspensionReason(x) # "NONE")
           /\ ~(next.status = "SUSPENDED" /\ CanReopen(t, next, x))
    <2>1. r.state = next /\ r.type = "MARKET_UPDATED"
        BY <1>4 DEF ApplyBreaker, Result, next
    <2> QED
        BY <1>1, <2>1
<1> QED
    BY <1>2, <1>3, <1>4

(* A market whose sums reach a limit is suspended afterwards, whatever it   *)
(* was before: no cooldown ends while a limit is reached.                   *)
THEOREM HotIsSuspended ==
    ASSUME NEW t \in Int, NEW prev \in MarketState, NEW x \in WindowMetrics,
           x.bets >= BetLimit \/ x.liability >= LiabilityLimit
    PROVE  ApplyBreaker(t, prev, x).state.status = "SUSPENDED"
<1> DEFINE next == WithMetrics(prev, x)
<1>1. next.status = prev.status /\ prev.status \in {"OPEN", "SUSPENDED"}
    BY DEF WithMetrics, MarketState
<1> HIDE DEF next
<1>2. SuspensionReason(x) # "NONE"
    BY BreakerAssumption DEF BreakerAssumption, SuspensionReason, WindowMetrics
<1>3. ~CanReopen(t, next, x)
    BY BreakerAssumption DEF BreakerAssumption, CanReopen, WindowMetrics
<1>4. CASE prev.status = "OPEN"
    <2>1. ApplyBreaker(t, prev, x).state = Suspend(t, next, x)
        BY <1>1, <1>2, <1>4 DEF ApplyBreaker, Result, next
    <2> QED
        BY <2>1 DEF Suspend
<1>5. CASE prev.status = "SUSPENDED"
    <2>1. ApplyBreaker(t, prev, x).state = next
        BY <1>1, <1>3, <1>5 DEF ApplyBreaker, Result, next
    <2> QED
        BY <1>1, <1>5, <2>1
<1> QED
    BY <1>1, <1>4, <1>5
=============================================================================
