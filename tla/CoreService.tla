---------------------------- MODULE CoreService ----------------------------
(***************************************************************************)
(* What core computes: the signal windows that clients fill and clear, the *)
(* spike scenario that fills one signal by signal, and the tick that       *)
(* evaluates every market at the ticker's time.  Persistence, numbering    *)
(* and the map are the actions of CoreStream, with the states of Breaker   *)
(* and no streams.                                                         *)
(*                                                                         *)
(* Service.mu is held where `tick` is not empty.  The times that a call    *)
(* works with are read before it has the lock, and a tick carries the      *)
(* ticker's time, so that either may lie behind the clock when it is used. *)
(***************************************************************************)
EXTENDS Breaker, Sequences, FiniteSets

CONSTANTS Markets, DefaultMarket, Absent,
          MaxSeq, FaultKinds, MaxFaults,
          Window,       \* ServiceConfig.WindowDuration
          Signals,      \* the sums that one signal may carry
          Offsets,      \* a signal's timestamp, relative to the clock
          Skew,         \* bound on how far a time used lies behind the clock
          SpikeSignal,  \* the signal of runSpikeScenario
          SpikeSize,    \* the number of them (24 in the code)
          MaxSignals,   \* bound on the signals of clients
          MaxSpikes,    \* bound on the spike scenarios
          LastCall,     \* bound on the time of both
          MaxTime       \* bound on the clock

VARIABLES epoch, log, lastSeq, markets, tick, emit,
          phase, next, pend, chan, open, wire, faults

INSTANCE CoreStream WITH
    States <- MarketState, OpenState <- NewMarket,
    Replicas <- {}, Buffer <- 1, WireCap <- 1, FromSeqs <- {}

VARIABLES now,       \* the clock
          tickNow,   \* the time of the tick under way, or of the last one
          window,    \* Service.signalWindow
          spike,     \* the spike scenario of each market
          signals,   \* signals of clients so far
          spikes,    \* spike scenarios so far
          rows,      \* the event_type column of event_log, with the tick's time
          received   \* history: every signal since the window was last cleared

timeVars   == <<now, tickNow>>
clientVars == <<window, spike, signals, spikes, received>>
eventVars  == <<epoch, log, lastSeq, markets, tick, emit,
                phase, next, pend, chan, open, wire, faults>>
sVars      == <<eventVars, timeVars, clientVars, rows>>

ASSUME CoreServiceAssumption ==
    /\ DefaultMarket \in Markets
    /\ Absent \notin MarketState
    /\ Window \in Nat
    /\ Signals \subseteq WindowMetrics
    /\ Offsets \subseteq Int
    /\ Skew \in Nat
    /\ SpikeSignal \in WindowMetrics
    /\ SpikeSize \in Nat \ {0}
    /\ SpikeSize * SpikeSignal.bets >= BetLimit
    /\ {MaxFaults, MaxSignals, MaxSpikes, MaxTime} \subseteq Nat

Point == [ts : Int, bets : Int, liability : Int]

NoSpike == [left |-> 0, ts |-> 0, whole |-> FALSE]

SInit ==
    /\ Init
    /\ now = 0
    /\ tickNow = 0
    /\ window = [m \in Markets |-> <<>>]
    /\ spike = [m \in Markets |-> NoSpike]
    /\ signals = 0
    /\ spikes = 0
    /\ rows = <<>>
    /\ received = [m \in Markets |-> <<>>]

(* A time read at most Skew ago. *)
ReadBefore == {t \in 0 .. now : t >= now - Skew}

-----------------------------------------------------------------------------
(* Signals.                                                                 *)

(* The points of the time from on, in their order. *)
Since(points, from) ==
    LET kept[i \in 0 .. Len(points)] ==
            IF i = 0 THEN <<>>
            ELSE IF points[i].ts >= from THEN Append(kept[i - 1], points[i])
            ELSE kept[i - 1]
    IN  kept[Len(points)]

(* The sum of what each point has of one field. *)
Total(points, field) ==
    LET sum[i \in 0 .. Len(points)] ==
            IF i = 0 THEN 0 ELSE sum[i - 1] + points[i][field]
    IN  sum[Len(points)]

(* Mutant of Prune: > for >=. *)
PruneEdge(points, t) == Since(points, t - Window + 1)

(* pruneSignalsLocked: what is older than the window at time t goes. *)
Prune(points, t) == Since(points, t - Window)

(* metricsLocked *)
Metrics(points) ==
    [bets |-> Total(points, "bets"), liability |-> Total(points, "liability")]

(* ensureMarketExistsLocked, with the lock. *)
EnsureMarket(m) ==
    \/ EnsureMarketExists(m)
    \/ markets[m] # Absent /\ tick = {} /\ UNCHANGED eventVars

(* IngestSignal of x with the timestamp ts; t is the clock it read. *)
Ingest(m, x, ts, t) ==
    LET p == [ts |-> ts, bets |-> x.bets, liability |-> x.liability]
    IN  /\ EnsureMarket(m)
        /\ window' = [window EXCEPT ![m] = Prune(Append(@, p), t)]
        /\ received' = [received EXCEPT ![m] = Append(@, p)]

IngestSignal(m) ==
    /\ signals < MaxSignals /\ now <= LastCall
    /\ \E x \in Signals, d \in Offsets, t \in ReadBefore : Ingest(m, x, t + d, t)
    /\ signals' = signals + 1
    /\ UNCHANGED <<timeVars, spike, spikes, rows>>

(* ClearSignals, which is also the `normalize` scenario. *)
ClearSignals(m) ==
    /\ EnsureMarket(m)
    /\ window' = [window EXCEPT ![m] = <<>>]
    /\ received' = [received EXCEPT ![m] = <<>>]
    /\ spike' = [spike EXCEPT ![m].whole = FALSE]
    /\ UNCHANGED <<timeVars, signals, spikes, rows>>

(* The `spike` scenario reads the clock once; its signals are one call of   *)
(* IngestSignal each, and anything may happen between them.  (A bound: one  *)
(* scenario of a market at a time.)                                         *)
StartSpike(m) ==
    /\ spikes < MaxSpikes /\ now <= LastCall
    /\ spike[m].left = 0
    /\ spike' = [spike EXCEPT ![m] = [left |-> SpikeSize, ts |-> now, whole |-> TRUE]]
    /\ spikes' = spikes + 1
    /\ UNCHANGED <<eventVars, timeVars, window, signals, received, rows>>

(* Mutant of SpikeStep: it never ends. *)
SpikeStepEndless(m) ==
    /\ spike[m].whole
    /\ \E t \in ReadBefore : Ingest(m, SpikeSignal, spike[m].ts, t)
    /\ spike' = [spike EXCEPT ![m].left = @ - 1]
    /\ UNCHANGED <<timeVars, signals, spikes, rows>>

(* One signal of the scenario. *)
SpikeStep(m) ==
    /\ spike[m].left > 0
    /\ \E t \in ReadBefore : Ingest(m, SpikeSignal, spike[m].ts, t)
    /\ spike' = [spike EXCEPT ![m].left = @ - 1]
    /\ UNCHANGED <<timeVars, signals, spikes, rows>>

-----------------------------------------------------------------------------
(* The tick.                                                                *)

(* evaluateAll at the ticker's time: not before the last tick's, and at     *)
(* most Skew behind the clock.                                              *)
BeginTick ==
    /\ TickBegin
    /\ tickNow' \in {t \in ReadBefore : t >= tickNow}
    /\ UNCHANGED <<now, clientVars, rows>>

Row(m, r) == [market |-> m, type |-> r.type, at |-> tickNow, state |-> r.state]

(* Mutant of Kept: only calls prune the window, not the tick. *)
KeptUnpruned(m) == window[m]

(* What the tick keeps of the window of market m. *)
Kept(m) == Prune(window[m], tickNow)

(* What ApplyBreaker makes of market m. *)
Evaluation(m) == ApplyBreaker(tickNow, markets[m], Metrics(Kept(m)))

(* One market of evaluateAll: prune, sum, apply the breaker, and emit an    *)
(* event when the state is another one.  The code's sums are int64 and no   *)
(* overflow is modelled.                                                    *)
Evaluate(m) ==
    LET r == Evaluation(m)
    IN  /\ m \in tick
        /\ window' = [window EXCEPT ![m] = Kept(m)]
        /\ \/ r.state = markets[m] /\ EvaluateUnchanged(m) /\ UNCHANGED rows
           \/ EvaluateAndPersist(m, r.state) /\ rows' = Append(rows, Row(m, r))
           \/ r.state # markets[m] /\ PersistFails(m) /\ UNCHANGED rows
           \/ PersistUncertain(m, r.state) /\ rows' = Append(rows, Row(m, r))
        /\ UNCHANGED <<timeVars, spike, signals, spikes, received>>

(* The event is broadcast, to nobody here, and the map is updated. *)
Publish == Broadcast /\ UNCHANGED <<timeVars, clientVars, rows>>

(* A new process: the windows, the scenarios and the table were in memory. *)
Restart ==
    /\ CoreRestart
    /\ window' = [m \in Markets |-> <<>>]
    /\ received' = [m \in Markets |-> <<>>]
    /\ spike' = [m \in Markets |-> NoSpike]
    /\ rows' = <<>>
    /\ UNCHANGED <<timeVars, signals, spikes>>

(* The clock; it stops at MaxTime, ticks do not. *)
Advance ==
    /\ now < MaxTime
    /\ now' = now + 1
    /\ UNCHANGED <<eventVars, tickNow, clientVars, rows>>

Call(m) == IngestSignal(m) \/ ClearSignals(m) \/ StartSpike(m) \/ SpikeStep(m)

SNext ==
    \/ \E m \in Markets : Call(m) \/ Evaluate(m)
    \/ BeginTick
    \/ Publish
    \/ Restart
    \/ Advance

SSpec == SInit /\ [][SNext]_sVars

(* Time passes, the ticker delivers, and a tick that has begun goes on.     *)
(* Clients and faults need do nothing.                                      *)
SFairSpec ==
    /\ SSpec
    /\ WF_sVars(Advance)
    /\ WF_sVars(BeginTick /\ tickNow' = now)
    /\ WF_sVars(Publish)
    /\ \A m \in Markets : WF_sVars(Evaluate(m))

-----------------------------------------------------------------------------
(* Properties.                                                              *)

(* Every variable holds a value of the right kind. *)
STypeOK ==
    /\ TypeOK
    /\ now \in 0 .. MaxTime
    /\ tickNow \in 0 .. now
    /\ window \in [Markets -> Seq(Point)]
    /\ received \in [Markets -> Seq(Point)]
    /\ spike \in [Markets -> [left : 0 .. SpikeSize, ts : 0 .. now, whole : BOOLEAN]]
    /\ signals \in 0 .. MaxSignals
    /\ spikes \in 0 .. MaxSpikes
    /\ rows \in Seq([market : Markets, type : EventTypes, at : Nat, state : MarketState])

(* Whatever fails to persist, what core shows and what it has stored is     *)
(* coherent: an open market is below both limits of ApplyBreaker and has no *)
(* trace of a suspension, a suspended one has a reason; and every stored    *)
(* event passes the replica's validation, which would otherwise reconnect   *)
(* to the same event for ever.                                              *)
StatesCoherent ==
    /\ \A m \in Known(markets) : Coherent(markets[m])
    /\ \A e \in emit : Coherent(e.state)
    /\ \A i \in DOMAIN rows :
          Coherent(rows[i].state) /\ ValidForReplica(rows[i].type, rows[i].state)

(* The last transition of market m before position i of the rows rs.       *)
LastTransition(rs, m, i) ==
    {j \in DOMAIN rs :
        /\ j < i /\ rs[j].market = m /\ rs[j].type # "MARKET_UPDATED"
        /\ \A k \in DOMAIN rs :
              j < k /\ k < i /\ rs[k].market = m => rs[k].type = "MARKET_UPDATED"}

IsDown(rs, m, i) ==
    \E j \in LastTransition(rs, m, i) : rs[j].type = "MARKET_SUSPENDED"

(* Row i continues the life of its market. *)
Continues(rs, i) ==
    LET m == rs[i].market
    IN  CASE rs[i].type = "MARKET_SUSPENDED" -> ~IsDown(rs, m, i)
          [] rs[i].type = "MARKET_REOPENED" ->
               /\ IsDown(rs, m, i)
               /\ \A j \in LastTransition(rs, m, i) : rs[i].at >= rs[j].at + Cooldown
          [] rs[i].type = "MARKET_UPDATED" ->
               (rs[i].state.status = "SUSPENDED") <=> IsDown(rs, m, i)

(* The life of a market in the log, over failed inserts and ticks of any    *)
(* time: suspensions and reopenings alternate, a reopening comes at least   *)
(* Cooldown after the suspension before it, and between the two the market  *)
(* is suspended in every event.  (An insert that reports an error after it  *)
(* stored the row is followed by a second event of the same transition.)    *)
TransitionsAlternate ==
    "insertUncertain" \notin FaultKinds => \A i \in DOMAIN rows : Continues(rows, i)

(* The points that a tick at the present time would count. *)
InWindow(points) == Since(points, now - Window)

(* No signal is lost and none is invented: pruning by calls and ticks whose *)
(* times overtake one another keeps every signal that has come since the    *)
(* last ClearSignals and is in the window of the present, and none that has *)
(* not come since.                                                          *)
NoSignalLost ==
    \A m \in Markets :
        /\ InWindow(window[m]) = InWindow(received[m])
        /\ \A i \in DOMAIN window[m] : \E j \in DOMAIN received[m] :
              window[m][i] = received[m][j]

(* A whole spike that is still in the window cannot be missed: however its  *)
(* signals, other signals and ticks are interleaved, a tick that evaluates  *)
(* the market leaves it suspended, unless the insert fails.  (No signal of  *)
(* the instance has negative bets.)                                         *)
SpikeSuspends ==
    [][\A m \in tick \ tick' :
          /\ spike[m].whole /\ spike[m].left = 0
          /\ now <= spike[m].ts + Window
          /\ epoch' = epoch /\ faults' = faults
          => markets'[m].status = "SUSPENDED"]_sVars

(* After the last call and fault every market ends up open with empty sums, *)
(* also after signals of the future, and core stops emitting events.        *)
Recovers ==
    <>[](/\ emit = {}
         /\ \A m \in Known(markets) : markets[m] = NewMarket)
=============================================================================
