------------------------- MODULE CoreServiceProofs -------------------------
(***************************************************************************)
(* Proofs about CoreService, for all signals, windows, times and faults.   *)
(*                                                                         *)
(* KindInv says of which kind the values are that an evaluation reads and  *)
(* writes, StatesCoherent carries over by EvaluationCoherent, and LifeInv  *)
(* relates the state that each market has, or is about to have, to the     *)
(* last transition among its rows.  ClientInv bounds times and what is left *)
(* of scenarios, Complete says what a window has of the signals received,  *)
(* and SpikeInv what it has of a spike; both rest on WindowProofs.  The    *)
(* service implements CoreStream.                                          *)
(***************************************************************************)
EXTENDS WindowProofs, BreakerProofs, SequenceTheorems

StoredRow == [market : Markets, type : EventTypes, at : Int, state : MarketState]

(* The windows hold points and the scenarios have times that are past. *)
ClientInv ==
    /\ now \in Nat
    /\ tickNow \in 0 .. now
    /\ window \in [Markets -> Seq(Point)]
    /\ received \in [Markets -> Seq(Point)]
    /\ spike \in [Markets -> [left : 0 .. SpikeSize, ts : 0 .. now, whole : BOOLEAN]]

(* The kinds of the values that an evaluation reads and writes; only known  *)
(* markets are evaluated, and one event at most is under way.               *)
KindInv ==
    /\ ClientInv
    /\ now \in Int /\ tickNow \in Int
    /\ markets \in [Markets -> MarketState \cup {Absent}]
    /\ tick \subseteq Known(markets)
    /\ \A e \in emit : e.market \in Markets /\ e.state \in MarketState
    /\ rows \in Seq(StoredRow)

LEMMA NewMarketCoherent == NewMarket \in MarketState /\ Coherent(NewMarket)
BY BreakerAssumption DEF NewMarket, MarketState, Reasons, Coherent, BreakerAssumption

(* What a client's call does to the state of core. *)
LEMMA CallEffect ==
    ASSUME NEW m \in Markets, Call(m)
    PROVE  /\ \/ markets' = markets
              \/ markets[m] = Absent /\ markets' = [markets EXCEPT ![m] = NewMarket]
           /\ UNCHANGED <<tick, emit, now, tickNow, rows>>
<1>1. ASSUME EnsureMarket(m)
      PROVE  /\ \/ markets' = markets
                \/ markets[m] = Absent /\ markets' = [markets EXCEPT ![m] = NewMarket]
             /\ UNCHANGED <<tick, emit>>
    BY <1>1 DEF EnsureMarket, EnsureMarketExists, eventVars
<1>2. CASE IngestSignal(m)
    BY <1>1, <1>2 DEF IngestSignal, Ingest, timeVars
<1>3. CASE ClearSignals(m)
    BY <1>1, <1>3 DEF ClearSignals, timeVars
<1>4. CASE StartSpike(m)
    BY <1>4 DEF StartSpike, timeVars, eventVars
<1>5. CASE SpikeStep(m)
    BY <1>1, <1>5 DEF SpikeStep, Ingest, timeVars
<1> QED
    BY <1>2, <1>3, <1>4, <1>5 DEF Call

(* A signal is one more point of the window and of what has come. *)
LEMMA IngestWindow ==
    ASSUME NEW m \in Markets, NEW x \in WindowMetrics, NEW ts \in Int, NEW t \in Int,
           Ingest(m, x, ts, t)
    PROVE  \E p \in Point :
              /\ p.ts = ts /\ p.bets = x.bets
              /\ window' = [window EXCEPT ![m] = Prune(Append(@, p), t)]
              /\ received' = [received EXCEPT ![m] = Append(@, p)]
<1> DEFINE p == [ts |-> ts, bets |-> x.bets, liability |-> x.liability]
<1>1. p \in Point /\ p.ts = ts /\ p.bets = x.bets
    BY DEF Point, WindowMetrics
<1>2. /\ window' = [window EXCEPT ![m] = Prune(Append(@, p), t)]
      /\ received' = [received EXCEPT ![m] = Append(@, p)]
    BY DEF Ingest
<1> QED
    BY <1>1, <1>2

LEMMA PruneType ==
    ASSUME NEW points \in Seq(Point), NEW t \in Int
    PROVE  Prune(points, t) \in Seq(Point) /\ t - Window \in Int
<1>1. t - Window \in Int
    BY CoreServiceAssumption DEF CoreServiceAssumption
<1> QED
    BY <1>1, SinceType DEF Prune

(* What a call does to the windows: it takes the points of one signal,      *)
(* clears them, or leaves them alone.                                       *)
LEMMA CallOnWindow ==
    ASSUME NEW m \in Markets, Call(m), ClientInv
    PROVE  \/ \E p \in Point, t \in Int :
                 /\ t <= now
                 /\ \/ spike' = spike /\ \E x \in Signals : p.bets = x.bets
                    \/ /\ spike[m].left > 0
                       /\ spike' = [spike EXCEPT ![m].left = @ - 1]
                       /\ p.ts = spike[m].ts /\ p.bets = SpikeSignal.bets
                 /\ window' = [window EXCEPT ![m] = Prune(Append(@, p), t)]
                 /\ received' = [received EXCEPT ![m] = Append(@, p)]
           \/ /\ window' = [window EXCEPT ![m] = <<>>]
              /\ received' = [received EXCEPT ![m] = <<>>]
              /\ spike' = [spike EXCEPT ![m].whole = FALSE]
           \/ /\ UNCHANGED <<window, received>>
              /\ spike[m].left = 0
              /\ spike' = [spike EXCEPT ![m] = [left |-> SpikeSize, ts |-> now, whole |-> TRUE]]
<1>1. CASE IngestSignal(m)
    <2>1. PICK x \in Signals, d \in Offsets, t \in ReadBefore : Ingest(m, x, t + d, t)
        BY <1>1 DEF IngestSignal
    <2>2. x \in WindowMetrics /\ t \in Int /\ t <= now /\ t + d \in Int
        BY CoreServiceAssumption DEF CoreServiceAssumption, ReadBefore
    <2> QED
        BY <1>1, <2>1, <2>2, IngestWindow DEF IngestSignal
<1>2. CASE ClearSignals(m)
    BY <1>2 DEF ClearSignals
<1>3. CASE StartSpike(m)
    BY <1>3 DEF StartSpike
<1>4. CASE SpikeStep(m)
    <2>1. PICK t \in ReadBefore : Ingest(m, SpikeSignal, spike[m].ts, t)
        BY <1>4 DEF SpikeStep
    <2>2. /\ SpikeSignal \in WindowMetrics /\ t \in Int /\ t <= now
          /\ spike[m].ts \in Int
        BY CoreServiceAssumption DEF CoreServiceAssumption, ReadBefore, ClientInv
    <2> QED
        BY <1>4, <2>1, <2>2, IngestWindow DEF SpikeStep
<1> QED
    BY <1>1, <1>2, <1>3, <1>4 DEF Call

LEMMA ClientInit == SInit => ClientInv
<1> SUFFICES ASSUME SInit PROVE ClientInv
    OBVIOUS
<1>1. /\ now = 0 /\ tickNow = 0
      /\ window = [m \in Markets |-> <<>>] /\ received = [m \in Markets |-> <<>>]
      /\ spike = [m \in Markets |-> NoSpike]
    BY DEF SInit
<1>2. NoSpike \in [left : 0 .. SpikeSize, ts : 0 .. 0, whole : BOOLEAN]
    BY CoreServiceAssumption DEF CoreServiceAssumption, NoSpike
<1> QED
    BY <1>1, <1>2 DEF ClientInv

LEMMA ClientNext == ClientInv /\ [SNext]_sVars => ClientInv'
<1> SUFFICES ASSUME ClientInv, [SNext]_sVars PROVE ClientInv'
    OBVIOUS
<1> DEFINE Scenario == [left : 0 .. SpikeSize, ts : 0 .. now, whole : BOOLEAN]
<1>0. SpikeSize \in Nat \ {0} /\ Window \in Nat
    BY CoreServiceAssumption DEF CoreServiceAssumption
<1>1. ASSUME NEW m \in Markets, Call(m) PROVE ClientInv'
    <2>1. now' = now /\ tickNow' = tickNow
        BY <1>1, CallEffect
    <2>2. ASSUME NEW p \in Point, NEW t \in Int,
                 window' = [window EXCEPT ![m] = Prune(Append(@, p), t)],
                 received' = [received EXCEPT ![m] = Append(@, p)]
          PROVE  /\ window' \in [Markets -> Seq(Point)]
                 /\ received' \in [Markets -> Seq(Point)]
        <3>1. /\ Append(window[m], p) \in Seq(Point)
              /\ Append(received[m], p) \in Seq(Point)
            BY DEF ClientInv
        <3>2. Prune(Append(window[m], p), t) \in Seq(Point)
            BY <3>1, PruneType
        <3> QED
            BY <2>2, <3>1, <3>2 DEF ClientInv
    <2>3. ASSUME \/ spike' = spike
                 \/ spike[m].left > 0 /\ spike' = [spike EXCEPT ![m].left = @ - 1]
                 \/ spike' = [spike EXCEPT ![m].whole = FALSE]
          PROVE  spike' \in [Markets -> Scenario]
        <3>1. spike[m] \in Scenario
            BY DEF ClientInv
        <3>2. CASE spike' = spike
            BY <3>2 DEF ClientInv
        <3>3. CASE spike[m].left > 0 /\ spike' = [spike EXCEPT ![m].left = @ - 1]
            <4>1. [spike[m] EXCEPT !.left = @ - 1] \in Scenario
                BY <1>0, <3>1, <3>3
            <4> QED
                BY <3>3, <4>1 DEF ClientInv
        <3>4. CASE spike' = [spike EXCEPT ![m].whole = FALSE]
            <4>1. [spike[m] EXCEPT !.whole = FALSE] \in Scenario
                BY <3>1
            <4> QED
                BY <3>4, <4>1 DEF ClientInv
        <3> QED
            BY <2>3, <3>2, <3>3, <3>4
    <2>4. ASSUME NEW p \in Point, NEW t \in Int,
                 \/ spike' = spike
                 \/ spike[m].left > 0 /\ spike' = [spike EXCEPT ![m].left = @ - 1],
                 window' = [window EXCEPT ![m] = Prune(Append(@, p), t)],
                 received' = [received EXCEPT ![m] = Append(@, p)]
          PROVE  ClientInv'
        BY <2>1, <2>2, <2>3, <2>4 DEF ClientInv
    <2>5. CASE /\ window' = [window EXCEPT ![m] = <<>>]
               /\ received' = [received EXCEPT ![m] = <<>>]
               /\ spike' = [spike EXCEPT ![m].whole = FALSE]
        <3>1. spike' \in [Markets -> Scenario]
            BY <2>3, <2>5
        <3>2. /\ window' \in [Markets -> Seq(Point)]
              /\ received' \in [Markets -> Seq(Point)]
            BY <2>5 DEF ClientInv
        <3> QED
            BY <2>1, <3>1, <3>2 DEF ClientInv
    <2>6. CASE /\ UNCHANGED <<window, received>>
               /\ spike' = [spike EXCEPT ![m] = [left |-> SpikeSize, ts |-> now, whole |-> TRUE]]
        <3>1. [left |-> SpikeSize, ts |-> now, whole |-> TRUE] \in Scenario
            BY <1>0 DEF ClientInv
        <3> QED
            BY <2>1, <2>6, <3>1 DEF ClientInv
    <2> QED
        BY <1>1, <2>4, <2>5, <2>6, CallOnWindow
<1>2. ASSUME NEW m \in Markets, Evaluate(m) PROVE ClientInv'
    <2>1. Kept(m) \in Seq(Point)
        BY PruneType DEF Kept, ClientInv
    <2> QED
        BY <1>2, <2>1 DEF Evaluate, timeVars, ClientInv
<1>3. CASE BeginTick
    BY <1>3 DEF BeginTick, ReadBefore, clientVars, ClientInv
<1>4. CASE Publish
    BY <1>4 DEF Publish, timeVars, clientVars, ClientInv
<1>5. CASE Restart
    <2>1. NoSpike \in Scenario
        BY <1>0 DEF NoSpike, ClientInv
    <2> QED
        BY <1>5, <2>1 DEF Restart, timeVars, ClientInv
<1>6. CASE Advance
    <2>1. /\ now' = now + 1 /\ tickNow' = tickNow
          /\ UNCHANGED <<window, received, spike>>
        BY <1>6 DEF Advance, clientVars
    <2>2. 0 .. now \subseteq 0 .. now + 1
        BY DEF ClientInv
    <2>3. Scenario \subseteq [left : 0 .. SpikeSize, ts : 0 .. now + 1, whole : BOOLEAN]
        BY <2>2
    <2> QED
        BY <2>1, <2>2, <2>3 DEF ClientInv
<1>7. CASE UNCHANGED sVars
    BY <1>7 DEF sVars, timeVars, clientVars, ClientInv
<1> QED
    BY <1>1, <1>2, <1>3, <1>4, <1>5, <1>6, <1>7 DEF SNext

(* What an evaluation does: nothing, or a row and perhaps its announcement. *)
LEMMA EvaluateEffect ==
    ASSUME KindInv, NEW m \in Markets, Evaluate(m)
    PROVE  /\ markets[m] \in MarketState
           /\ UNCHANGED <<markets, now, tickNow>>
           /\ tick' \subseteq tick
           /\ emit = {}
           /\ \/ rows' = rows /\ emit' = {}
              \/ \E x \in WindowMetrics :
                    LET r == ApplyBreaker(tickNow, markets[m], x)
                    IN  /\ rows' = Append(rows, Row(m, r))
                        /\ \/ /\ emit' = {NewEvent(m, r.state)}
                           \/ /\ emit' = {}
                              /\ "insertUncertain" \in FaultKinds
<1> DEFINE x == Metrics(Kept(m))
           r == ApplyBreaker(tickNow, markets[m], x)
<1>1. /\ m \in tick /\ x \in WindowMetrics
      /\ \/ EvaluateUnchanged(m) /\ UNCHANGED rows
         \/ EvaluateAndPersist(m, r.state) /\ rows' = Append(rows, Row(m, r))
         \/ PersistFails(m) /\ UNCHANGED rows
         \/ PersistUncertain(m, r.state) /\ rows' = Append(rows, Row(m, r))
      /\ UNCHANGED <<now, tickNow>>
    <2>1. x \in WindowMetrics
        BY PruneType, MetricsType DEF Kept, KindInv, ClientInv
    <2> QED
        BY <2>1 DEF Evaluate, Evaluation, timeVars
<1> HIDE DEF x
<1>2. markets[m] \in MarketState
    BY <1>1 DEF KindInv, Known
<1>3. CASE EvaluateUnchanged(m) /\ UNCHANGED rows
    BY <1>1, <1>2, <1>3 DEF EvaluateUnchanged
<1>4. CASE EvaluateAndPersist(m, r.state) /\ rows' = Append(rows, Row(m, r))
    BY <1>1, <1>2, <1>4 DEF EvaluateAndPersist
<1>5. CASE PersistFails(m) /\ UNCHANGED rows
    BY <1>1, <1>2, <1>5 DEF PersistFails
<1>6. CASE PersistUncertain(m, r.state) /\ rows' = Append(rows, Row(m, r))
    BY <1>1, <1>2, <1>6 DEF PersistUncertain, Fault
<1> QED
    BY <1>1, <1>3, <1>4, <1>5, <1>6

LEMMA RowKind ==
    ASSUME KindInv, NEW m \in Markets, NEW x \in WindowMetrics, markets[m] \in MarketState
    PROVE  LET r == ApplyBreaker(tickNow, markets[m], x)
           IN  /\ r.state \in MarketState /\ r.type \in EventTypes
               /\ Row(m, r) \in StoredRow
               /\ Row(m, r).market = m /\ Row(m, r).type = r.type
               /\ Row(m, r).at = tickNow /\ Row(m, r).state = r.state
               /\ NewEvent(m, r.state).market = m
               /\ NewEvent(m, r.state).state = r.state
<1> DEFINE r == ApplyBreaker(tickNow, markets[m], x)
<1>1. r.state \in MarketState /\ r.type \in EventTypes /\ tickNow \in Int
    BY EvaluationCoherent DEF KindInv
<1> HIDE DEF r
<1>2. /\ Row(m, r) \in StoredRow
      /\ Row(m, r).market = m /\ Row(m, r).type = r.type
      /\ Row(m, r).at = tickNow /\ Row(m, r).state = r.state
    BY <1>1 DEF Row, StoredRow
<1>3. /\ NewEvent(m, r.state).market = m
      /\ NewEvent(m, r.state).state = r.state
    BY DEF NewEvent
<1> QED
    BY <1>1, <1>2, <1>3 DEF r

LEMMA KindInit == SInit => KindInv
<1> SUFFICES ASSUME SInit PROVE KindInv
    OBVIOUS
<1>1. markets = FreshMarkets /\ tick = {} /\ emit = {} /\ rows = <<>>
      /\ now = 0 /\ tickNow = 0
    BY DEF SInit, Init
<1> QED
    BY <1>1, ClientInit, NewMarketCoherent DEF KindInv, FreshMarkets

LEMMA KindNext == KindInv /\ [SNext]_sVars => KindInv'
<1> SUFFICES ASSUME KindInv, [SNext]_sVars PROVE KindInv'
    OBVIOUS
<1>0. ClientInv'
    BY ClientNext DEF KindInv
<1>1. ASSUME NEW m \in Markets, Call(m) PROVE KindInv'
    BY <1>0, <1>1, CallEffect, NewMarketCoherent, CoreServiceAssumption
    DEF KindInv, Known, CoreServiceAssumption
<1>2. ASSUME NEW m \in Markets, Evaluate(m) PROVE KindInv'
    <2>1. CASE rows' = rows /\ emit' = {}
        BY <1>0, <1>2, <2>1, EvaluateEffect DEF KindInv, Known
    <2>2. ASSUME NEW x \in WindowMetrics, NEW r,
                 r = ApplyBreaker(tickNow, markets[m], x),
                 rows' = Append(rows, Row(m, r)),
                 emit' = {NewEvent(m, r.state)} \/ emit' = {}
          PROVE  KindInv'
        <3>1. /\ Row(m, r) \in StoredRow /\ NewEvent(m, r.state).market = m
              /\ NewEvent(m, r.state).state \in MarketState
            BY <1>2, <2>2, EvaluateEffect, RowKind
        <3>2. rows' \in Seq(StoredRow)
            BY <2>2, <3>1 DEF KindInv
        <3> QED
            BY <1>0, <1>2, <2>2, <3>1, <3>2, EvaluateEffect DEF KindInv, Known
    <2> QED
        BY <1>2, <2>1, <2>2, EvaluateEffect
<1>3. CASE BeginTick
    BY <1>0, <1>3 DEF BeginTick, TickBegin, KindInv, Known, ReadBefore
<1>4. CASE Publish
    <2>1. PICK e \in emit : /\ markets' = [markets EXCEPT ![e.market] = e.state]
                            /\ tick' = tick \ {e.market}
                            /\ emit' = {}
        BY <1>4 DEF Publish, Broadcast
    <2> QED
        BY <1>0, <1>4, <2>1, CoreServiceAssumption
        DEF Publish, timeVars, KindInv, Known, CoreServiceAssumption
<1>5. CASE Restart
    BY <1>0, <1>5, NewMarketCoherent
    DEF Restart, CoreRestart, timeVars, KindInv, FreshMarkets, Known
<1>6. CASE Advance
    BY <1>0, <1>6 DEF Advance, eventVars, KindInv, Known
<1>7. CASE UNCHANGED sVars
    BY <1>0, <1>7 DEF sVars, eventVars, timeVars, KindInv, Known
<1> QED
    BY <1>1, <1>2, <1>3, <1>4, <1>5, <1>6, <1>7 DEF SNext

-----------------------------------------------------------------------------
LEMMA CoherentInit == SInit => StatesCoherent
BY NewMarketCoherent DEF SInit, Init, StatesCoherent, FreshMarkets, Known

LEMMA CoherentNext ==
    KindInv /\ StatesCoherent /\ [SNext]_sVars => StatesCoherent'
<1> SUFFICES ASSUME KindInv, StatesCoherent, [SNext]_sVars PROVE StatesCoherent'
    OBVIOUS
<1>1. ASSUME NEW m \in Markets, Call(m) PROVE StatesCoherent'
    BY <1>1, CallEffect, NewMarketCoherent DEF KindInv, Known, StatesCoherent
<1>2. ASSUME NEW m \in Markets, Evaluate(m) PROVE StatesCoherent'
    <2>1. CASE rows' = rows /\ emit' = {}
        BY <1>2, <2>1, EvaluateEffect DEF Known, StatesCoherent
    <2>2. ASSUME NEW x \in WindowMetrics, NEW r,
                 r = ApplyBreaker(tickNow, markets[m], x),
                 rows' = Append(rows, Row(m, r)),
                 emit' = {NewEvent(m, r.state)} \/ emit' = {}
          PROVE  StatesCoherent'
        <3>1. Coherent(markets[m])
            BY <1>2, EvaluateEffect, CoreServiceAssumption
            DEF StatesCoherent, Known, CoreServiceAssumption
        <3>2. Coherent(r.state) /\ ValidForReplica(r.type, r.state)
            BY <1>2, <2>2, <3>1, EvaluateEffect, EvaluationCoherent DEF KindInv
        <3>3. \A e \in emit' : Coherent(e.state)
            BY <1>2, <2>2, <3>2, EvaluateEffect, RowKind
        <3>4. Row(m, r).state = r.state /\ Row(m, r).type = r.type
            BY DEF Row
        <3>5. /\ rows \in Seq(StoredRow) /\ DOMAIN rows = 1 .. Len(rows)
              /\ Len(rows') = Len(rows) + 1 /\ DOMAIN rows' = 1 .. Len(rows')
              /\ \A i \in 1 .. Len(rows) : rows'[i] = rows[i]
              /\ rows'[Len(rows) + 1] = Row(m, r)
            BY <2>2 DEF KindInv
        <3>6. ASSUME NEW i \in DOMAIN rows'
              PROVE  Coherent(rows'[i].state) /\ ValidForReplica(rows'[i].type, rows'[i].state)
            BY <3>2, <3>4, <3>5, <3>6 DEF StatesCoherent
        <3> QED
            BY <1>2, <3>3, <3>6, EvaluateEffect DEF StatesCoherent, Known
    <2> QED
        BY <1>2, <2>1, <2>2, EvaluateEffect
<1>3. CASE BeginTick
    BY <1>3 DEF BeginTick, TickBegin, StatesCoherent, Known
<1>4. CASE Publish
    BY <1>4 DEF Publish, Broadcast, KindInv, StatesCoherent, Known
<1>5. CASE Restart
    BY <1>5, NewMarketCoherent
    DEF Restart, CoreRestart, FreshMarkets, StatesCoherent, Known
<1>6. CASE Advance
    BY <1>6 DEF Advance, eventVars, StatesCoherent, Known
<1>7. CASE UNCHANGED sVars
    BY <1>7 DEF sVars, eventVars, StatesCoherent, Known
<1> QED
    BY <1>1, <1>2, <1>3, <1>4, <1>5, <1>6, <1>7 DEF SNext

(* Every state that core shows or stores is coherent, and the replica       *)
(* accepts every stored event, whatever the clients send and whatever       *)
(* fails to persist.                                                        *)
THEOREM AlwaysCoherent == SSpec => []StatesCoherent
<1>1. SInit => KindInv /\ StatesCoherent
    BY KindInit, CoherentInit
<1>2. KindInv /\ StatesCoherent /\ [SNext]_sVars => KindInv' /\ StatesCoherent'
    BY KindNext, CoherentNext
<1> QED
    BY <1>1, <1>2, PTL DEF SSpec

-----------------------------------------------------------------------------
(* State s fits what the rows rs say of market m: it is suspended if and    *)
(* only if the last transition is a suspension, and until Cooldown after it.*)
Fits(rs, s, m) ==
    LET last == LastTransition(rs, m, Len(rs) + 1)
    IN  /\ s.status = "SUSPENDED" => last # {}
        /\ \A j \in last :
              /\ rs[j].type = "MARKET_SUSPENDED" <=> s.status = "SUSPENDED"
              /\ rs[j].type = "MARKET_SUSPENDED" => s.cooldownUntil = rs[j].at + Cooldown

(* The event under way fits, and so does every market that has none.        *)
LifeInv ==
    /\ \A m \in Markets \ Known(markets) : LastTransition(rows, m, Len(rows) + 1) = {}
    /\ \A e, f \in emit : e = f
    /\ \A e \in emit : e.market \in Known(markets) /\ Fits(rows, e.state, e.market)
    /\ \A m \in Known(markets) :
          (\A e \in emit : e.market # m) => Fits(rows, markets[m], m)

(* A new row changes nothing before it; after it, it is the last transition *)
(* of its market if it is one.                                              *)
LEMMA AppendedRow ==
    ASSUME NEW rs \in Seq(StoredRow), NEW row \in StoredRow, NEW m \in Markets
    PROVE  LET new == Append(rs, row)
               n   == Len(rs) + 1
           IN  /\ \A i \in 1 .. n : LastTransition(new, m, i) = LastTransition(rs, m, i)
               /\ row.market = m /\ row.type # "MARKET_UPDATED" =>
                     LastTransition(new, m, n + 1) = {n}
               /\ row.market # m \/ row.type = "MARKET_UPDATED" =>
                     LastTransition(new, m, n + 1) = LastTransition(rs, m, n)
<1> DEFINE new == Append(rs, row)
           n   == Len(rs) + 1
<1>1. /\ n \in Nat \ {0} /\ DOMAIN rs = 1 .. n - 1 /\ DOMAIN new = 1 .. n
      /\ \A i \in 1 .. n - 1 : new[i] = rs[i]
      /\ new[n] = row
    OBVIOUS
<1> HIDE DEF new, n
<1>2. ASSUME NEW i \in 1 .. n
      PROVE  LastTransition(new, m, i) = LastTransition(rs, m, i)
    BY <1>1 DEF LastTransition
<1>3. ASSUME row.market = m, row.type # "MARKET_UPDATED"
      PROVE  LastTransition(new, m, n + 1) = {n}
    BY <1>1, <1>3 DEF LastTransition
<1>4. ASSUME row.market # m \/ row.type = "MARKET_UPDATED"
      PROVE  LastTransition(new, m, n + 1) = LastTransition(rs, m, n)
    BY <1>1, <1>4 DEF LastTransition
<1> QED
    BY <1>2, <1>3, <1>4 DEF new, n

(* The row of an evaluation continues the life of its market, and the state *)
(* that it announces fits afterwards.                                       *)
LEMMA EvaluationContinues ==
    ASSUME NEW rs \in Seq(StoredRow), NEW t \in Int, NEW m \in Markets,
           NEW prev \in MarketState, NEW x \in WindowMetrics, NEW row \in StoredRow,
           Fits(rs, prev, m),
           LET r == ApplyBreaker(t, prev, x)
           IN  row.market = m /\ row.at = t /\ row.type = r.type /\ row.state = r.state
    PROVE  /\ Continues(Append(rs, row), Len(rs) + 1)
           /\ Fits(Append(rs, row), row.state, m)
<1> DEFINE r    == ApplyBreaker(t, prev, x)
           new  == Append(rs, row)
           n    == Len(rs) + 1
           last == LastTransition(rs, m, n)
<1>1. /\ n \in Nat \ {0} /\ DOMAIN rs = 1 .. n - 1 /\ DOMAIN new = 1 .. n
      /\ \A i \in 1 .. n - 1 : new[i] = rs[i]
      /\ new[n] = row /\ Len(new) + 1 = n + 1 /\ n \in 1 .. n
    OBVIOUS
<1>2. row.market = m /\ row.at = t /\ row.type = r.type /\ row.state = r.state
    OBVIOUS
<1>3. /\ r.type \in EventTypes
      /\ r.type = "MARKET_SUSPENDED" =>
           /\ prev.status = "OPEN" /\ r.state.status = "SUSPENDED"
           /\ r.state.cooldownUntil = t + Cooldown
      /\ r.type = "MARKET_REOPENED" =>
           /\ prev.status = "SUSPENDED" /\ r.state.status = "OPEN"
           /\ t >= prev.cooldownUntil
      /\ r.type = "MARKET_UPDATED" =>
           /\ r.state.status = prev.status
           /\ r.state.cooldownUntil = prev.cooldownUntil
    <2>1. r.type \in EventTypes
        BY EvaluationCoherent
    <2> QED
        BY <2>1, TransitionShape, SMTT(20)
<1>4. /\ LastTransition(new, m, n) = last
      /\ row.type # "MARKET_UPDATED" => LastTransition(new, m, n + 1) = {n}
      /\ row.type = "MARKET_UPDATED" => LastTransition(new, m, n + 1) = last
    BY <1>1, <1>2, AppendedRow
<1>5. /\ prev.status = "SUSPENDED" => last # {}
      /\ \A j \in last :
            /\ rs[j].type = "MARKET_SUSPENDED" <=> prev.status = "SUSPENDED"
            /\ rs[j].type = "MARKET_SUSPENDED" => prev.cooldownUntil = rs[j].at + Cooldown
    BY DEF Fits
<1>6. \A j \in last : j \in 1 .. n - 1 /\ new[j] = rs[j]
    BY <1>1 DEF LastTransition
<1>7. IsDown(new, m, n) <=> prev.status = "SUSPENDED"
    BY <1>4, <1>5, <1>6 DEF IsDown
<1> HIDE DEF r, new, n, last
<1>8. Continues(new, n)
    <2>1. CASE row.type = "MARKET_SUSPENDED"
        BY <1>1, <1>2, <1>3, <1>7, <2>1 DEF Continues
    <2>2. CASE row.type = "MARKET_REOPENED"
        <3>1. \A j \in LastTransition(new, m, n) : new[n].at >= new[j].at + Cooldown
            BY <1>1, <1>2, <1>3, <1>4, <1>5, <1>6, <2>2
        <3> QED
            BY <1>1, <1>2, <1>3, <1>7, <2>2, <3>1 DEF Continues
    <2>3. CASE row.type = "MARKET_UPDATED"
        BY <1>1, <1>2, <1>3, <1>7, <2>3 DEF Continues
    <2> QED
        <3>1. row.type \in {"MARKET_SUSPENDED", "MARKET_REOPENED", "MARKET_UPDATED"}
            BY <1>2, <1>3 DEF EventTypes
        <3> QED
            BY <2>1, <2>2, <2>3, <3>1, Zenon
<1>9. Fits(new, row.state, m)
    <2>1. CASE row.type # "MARKET_UPDATED"
        <3>1. row.type \in {"MARKET_SUSPENDED", "MARKET_REOPENED"}
            BY <1>2, <1>3, <2>1, Zenon DEF EventTypes
        <3>2. LastTransition(new, m, Len(new) + 1) = {n} /\ new[n] = row
            BY <1>1, <1>4, <2>1
        <3> QED
            BY <1>2, <1>3, <3>1, <3>2 DEF Fits
    <2>2. CASE row.type = "MARKET_UPDATED"
        BY <1>1, <1>2, <1>3, <1>4, <1>5, <1>6, <2>2 DEF Fits
    <2> QED
        BY <2>1, <2>2
<1> QED
    BY <1>8, <1>9 DEF new, n

(* A new row leaves the earlier ones and the other markets as they were. *)
LEMMA AppendKeeps ==
    ASSUME NEW rs \in Seq(StoredRow), NEW row \in StoredRow
    PROVE  /\ \A i \in 1 .. Len(rs) :
                 Continues(rs, i) => Continues(Append(rs, row), i)
           /\ \A m \in Markets, s \in MarketState :
                 row.market # m /\ Fits(rs, s, m) => Fits(Append(rs, row), s, m)
           /\ \A m \in Markets :
                 row.market # m => LastTransition(Append(rs, row), m, Len(rs) + 2)
                                     = LastTransition(rs, m, Len(rs) + 1)
<1> DEFINE new == Append(rs, row)
           n   == Len(rs) + 1
<1>1. /\ n \in Nat \ {0} /\ DOMAIN rs = 1 .. n - 1
      /\ \A i \in 1 .. n - 1 : new[i] = rs[i] /\ rs[i].market \in Markets
      /\ Len(new) + 1 = n + 1 /\ Len(rs) + 2 = n + 1 /\ n \in 1 .. n
      /\ 1 .. n - 1 \subseteq 1 .. n
    <2>1. /\ n \in Nat \ {0} /\ DOMAIN rs = 1 .. n - 1
          /\ \A i \in 1 .. n - 1 : new[i] = rs[i] /\ rs[i] \in StoredRow
          /\ Len(new) + 1 = n + 1 /\ Len(rs) + 2 = n + 1 /\ n \in 1 .. n
        OBVIOUS
    <2>2. 1 .. n - 1 \subseteq 1 .. n
        BY <2>1
    <2> QED
        BY <2>1, <2>2 DEF StoredRow
<1>2. \A m \in Markets :
         /\ \A i \in 1 .. n : LastTransition(new, m, i) = LastTransition(rs, m, i)
         /\ row.market # m => LastTransition(new, m, n + 1) = LastTransition(rs, m, n)
    BY AppendedRow
<1>3. \A m, i : \A j \in LastTransition(rs, m, i) : j \in 1 .. n - 1 /\ new[j] = rs[j]
    BY <1>1 DEF LastTransition
<1> HIDE DEF new, n
<1>4. ASSUME NEW i \in 1 .. n - 1, Continues(rs, i) PROVE Continues(new, i)
    <2>1. /\ new[i] = rs[i] /\ rs[i].market \in Markets
          /\ LastTransition(new, rs[i].market, i) = LastTransition(rs, rs[i].market, i)
        BY <1>1, <1>2
    <2>2. IsDown(new, rs[i].market, i) <=> IsDown(rs, rs[i].market, i)
        BY <1>3, <2>1 DEF IsDown
    <2>3. \A j \in LastTransition(rs, rs[i].market, i) : new[j] = rs[j]
        BY <1>3
    <2> QED
        BY <1>4, <2>1, <2>2, <2>3 DEF Continues
<1>5. ASSUME NEW m \in Markets, NEW s \in MarketState,
             row.market # m, Fits(rs, s, m)
      PROVE  Fits(new, s, m)
    BY <1>1, <1>2, <1>3, <1>5 DEF Fits, n
<1> QED
    BY <1>1, <1>2, <1>4, <1>5 DEF new, n

LEMMA LifeInit == SInit => LifeInv /\ TransitionsAlternate
<1> SUFFICES ASSUME SInit PROVE LifeInv /\ TransitionsAlternate
    OBVIOUS
<1>1. markets = FreshMarkets /\ emit = {} /\ rows = <<>>
    BY DEF SInit, Init
<1>2. \A m, i : LastTransition(rows, m, i) = {}
    BY <1>1 DEF LastTransition
<1> QED
    BY <1>1, <1>2
    DEF LifeInv, TransitionsAlternate, FreshMarkets, Known, Fits, NewMarket

LEMMA LifeNext ==
    ASSUME "insertUncertain" \notin FaultKinds
    PROVE  KindInv /\ LifeInv /\ TransitionsAlternate /\ [SNext]_sVars
             => LifeInv' /\ TransitionsAlternate'
<1> SUFFICES ASSUME KindInv, LifeInv, TransitionsAlternate, [SNext]_sVars
             PROVE  LifeInv' /\ TransitionsAlternate'
    OBVIOUS
<1>0. Absent \notin MarketState
    BY CoreServiceAssumption DEF CoreServiceAssumption
<1>1. ASSUME NEW m \in Markets, Call(m) PROVE LifeInv' /\ TransitionsAlternate'
    <2>1. UNCHANGED <<emit, rows>>
        BY <1>1, CallEffect
    <2>2. TransitionsAlternate'
        BY <2>1 DEF TransitionsAlternate
    <2>3. CASE markets' = markets
        BY <2>1, <2>2, <2>3 DEF LifeInv, Known
    <2>4. CASE markets[m] = Absent /\ markets' = [markets EXCEPT ![m] = NewMarket]
        <3>1. /\ Known(markets)' = Known(markets) \cup {m} /\ m \notin Known(markets)
              /\ \A k \in Known(markets) : markets'[k] = markets[k]
              /\ markets'[m] = NewMarket
            BY <1>0, <2>4, NewMarketCoherent DEF KindInv, Known
        <3>2. Fits(rows, NewMarket, m)
            BY <3>1 DEF LifeInv, Fits, NewMarket
        <3> QED
            BY <2>1, <2>2, <3>1, <3>2 DEF LifeInv
    <2> QED
        BY <1>1, <2>3, <2>4, CallEffect
<1>2. ASSUME NEW m \in Markets, Evaluate(m) PROVE LifeInv' /\ TransitionsAlternate'
    <2>1. /\ markets[m] \in MarketState /\ markets' = markets /\ emit = {}
          /\ m \in Known(markets) /\ rows \in Seq(StoredRow)
          /\ \A k \in Known(markets) : markets[k] \in MarketState /\ Fits(rows, markets[k], k)
        BY <1>0, <1>2, EvaluateEffect DEF KindInv, LifeInv, Known
    <2>2. CASE rows' = rows /\ emit' = {}
        BY <2>1, <2>2 DEF LifeInv, TransitionsAlternate, Known
    <2>3. ASSUME NEW x \in WindowMetrics, NEW r,
                 r = ApplyBreaker(tickNow, markets[m], x),
                 rows' = Append(rows, Row(m, r)),
                 emit' = {NewEvent(m, r.state)}
          PROVE  LifeInv' /\ TransitionsAlternate'
        <3> DEFINE row == Row(m, r)
                   e   == NewEvent(m, r.state)
        <3>1. /\ row \in StoredRow
              /\ row.market = m /\ row.type = r.type
              /\ row.at = tickNow /\ row.state = r.state
              /\ e.market = m /\ e.state = r.state
            BY <2>1, <2>3, RowKind
        <3> HIDE DEF row, e
        <3>2. Continues(rows', Len(rows) + 1) /\ Fits(rows', r.state, m)
            BY <2>1, <2>3, <3>1, EvaluationContinues DEF KindInv, row
        <3>3. /\ DOMAIN rows = 1 .. Len(rows) /\ Len(rows) \in Nat
              /\ Len(rows') = Len(rows) + 1 /\ Len(rows') + 1 = Len(rows) + 2
              /\ DOMAIN rows' = 1 .. Len(rows) + 1
            BY <2>1, <2>3
        <3>4. /\ \A i \in 1 .. Len(rows) : Continues(rows, i) => Continues(rows', i)
              /\ \A k \in Markets, s \in MarketState :
                    k # m /\ Fits(rows, s, k) => Fits(rows', s, k)
              /\ \A k \in Markets :
                    k # m => LastTransition(rows', k, Len(rows) + 2)
                               = LastTransition(rows, k, Len(rows) + 1)
            BY <2>1, <2>3, <3>1, AppendKeeps DEF row
        <3>5. TransitionsAlternate'
            BY <3>2, <3>3, <3>4 DEF TransitionsAlternate
        <3>6. \A k \in Markets \ Known(markets) :
                 LastTransition(rows', k, Len(rows') + 1) = {}
            BY <2>1, <3>3, <3>4 DEF LifeInv
        <3>7. emit' = {e}
            BY <2>3 DEF e
        <3>8. \A k \in Known(markets) : k # m => Fits(rows', markets[k], k)
            BY <2>1, <3>4 DEF Known
        <3> QED
            BY <2>1, <3>1, <3>2, <3>5, <3>6, <3>7, <3>8 DEF LifeInv, Known
    <2> QED
        BY <1>2, <2>2, <2>3, EvaluateEffect
<1>3. CASE BeginTick
    BY <1>3 DEF BeginTick, TickBegin, LifeInv, TransitionsAlternate, Known
<1>4. CASE Publish
    <2>1. PICK e \in emit : /\ markets' = [markets EXCEPT ![e.market] = e.state]
                            /\ emit' = {} /\ rows' = rows
        BY <1>4 DEF Publish, Broadcast
    <2>2. /\ e.market \in Known(markets) /\ Fits(rows, e.state, e.market)
          /\ e.state \in MarketState
          /\ \A f \in emit : f = e
        BY DEF LifeInv, KindInv
    <2>3. /\ Known(markets)' = Known(markets)
          /\ \A k \in Known(markets) :
                markets'[k] = IF k = e.market THEN e.state ELSE markets[k]
        BY <1>0, <2>1, <2>2 DEF Known, KindInv
    <2> QED
        BY <2>1, <2>2, <2>3 DEF LifeInv, TransitionsAlternate
<1>5. CASE Restart
    <2>1. markets' = FreshMarkets /\ emit' = {} /\ rows' = <<>>
        BY <1>5 DEF Restart, CoreRestart
    <2>2. \A m, i : LastTransition(rows', m, i) = {}
        BY <2>1 DEF LastTransition
    <2> QED
        BY <2>1, <2>2
        DEF LifeInv, TransitionsAlternate, FreshMarkets, Known, Fits, NewMarket
<1>6. CASE Advance
    BY <1>6 DEF Advance, eventVars, LifeInv, TransitionsAlternate, Known
<1>7. CASE UNCHANGED sVars
    BY <1>7 DEF sVars, eventVars, LifeInv, TransitionsAlternate, Known
<1> QED
    BY <1>1, <1>2, <1>3, <1>4, <1>5, <1>6, <1>7 DEF SNext

(* In the log of every life of core, suspensions and reopenings of a market *)
(* alternate, a reopening comes at least Cooldown after its suspension, and *)
(* every update agrees with them: for all signals and times, with inserts   *)
(* that fail and leave the market to a later tick.                          *)
THEOREM LivesAlternate == SSpec => []TransitionsAlternate
<1>1. CASE "insertUncertain" \in FaultKinds
    <2>1. TransitionsAlternate
        BY <1>1 DEF TransitionsAlternate
    <2> QED
        BY <2>1, PTL
<1>2. CASE "insertUncertain" \notin FaultKinds
    <2>1. SInit => KindInv /\ LifeInv /\ TransitionsAlternate
        BY KindInit, LifeInit
    <2>2. KindInv /\ LifeInv /\ TransitionsAlternate /\ [SNext]_sVars
            => KindInv' /\ LifeInv' /\ TransitionsAlternate'
        BY <1>2, KindNext, LifeNext
    <2> QED
        BY <2>1, <2>2, PTL DEF SSpec
<1> QED
    BY <1>1, <1>2

-----------------------------------------------------------------------------
(* CoreService implements CoreStream.                                       *)

(* The variables of CoreStream, in its order and in the order used here. *)
LEMMA SameEventVars == UNCHANGED eventVars => UNCHANGED csVars
BY DEF eventVars, csVars, coreVars, streamVars

LEMMA CallIsCoreStep ==
    ASSUME NEW m \in Markets, Call(m)
    PROVE  CoreStep \/ UNCHANGED csVars
<1>1. ASSUME EnsureMarket(m) PROVE CoreStep \/ UNCHANGED csVars
    BY <1>1, SameEventVars DEF EnsureMarket, CoreStep
<1>2. CASE EnsureMarket(m)
    BY <1>1, <1>2
<1>3. CASE StartSpike(m)
    BY <1>3, SameEventVars DEF StartSpike
<1> QED
    BY <1>2, <1>3 DEF Call, IngestSignal, ClearSignals, SpikeStep, Ingest

LEMMA EvaluateIsCoreStep ==
    ASSUME KindInv, NEW m \in Markets, Evaluate(m)
    PROVE  CoreStep
<1> DEFINE x == Metrics(Kept(m))
           s == ApplyBreaker(tickNow, markets[m], x).state
<1>1. /\ m \in tick /\ x \in WindowMetrics
      /\ \/ EvaluateUnchanged(m) \/ EvaluateAndPersist(m, s)
         \/ PersistFails(m) \/ PersistUncertain(m, s)
    <2>1. x \in WindowMetrics
        BY PruneType, MetricsType DEF Kept, KindInv, ClientInv
    <2> QED
        BY <2>1 DEF Evaluate, Evaluation
<1> HIDE DEF x
<1>2. s \in MarketState
    BY <1>1, EvaluationCoherent DEF KindInv, Known
<1> HIDE DEF s
<1> QED
    BY <1>1, <1>2 DEF CoreStep

LEMMA StepIsCoreStep == KindInv /\ [SNext]_sVars => CoreStep \/ UNCHANGED csVars
<1> SUFFICES ASSUME KindInv, [SNext]_sVars PROVE CoreStep \/ UNCHANGED csVars
    OBVIOUS
<1>1. ASSUME NEW m \in Markets, Call(m) \/ Evaluate(m)
      PROVE  CoreStep \/ UNCHANGED csVars
    BY <1>1, CallIsCoreStep, EvaluateIsCoreStep
<1>2. CASE BeginTick \/ Publish \/ Restart
    BY <1>2 DEF BeginTick, Publish, Restart, CoreStep
<1>3. CASE Advance
    BY <1>3, SameEventVars DEF Advance
<1>4. CASE UNCHANGED sVars
    BY <1>4, SameEventVars DEF sVars
<1> QED
    BY <1>1, <1>2, <1>3, <1>4 DEF SNext

(* With the breaker, the windows and the clock in the place of a state that *)
(* is chosen freely, core only does what CoreStream lets it do: what holds  *)
(* of every behaviour of CoreStream holds of the service.                   *)
THEOREM ServiceImplementsStream == SSpec => Spec
<1>1. SInit => Init
    BY DEF SInit
<1>2. KindInv /\ [SNext]_sVars => [Next]_csVars
    BY StepIsCoreStep DEF Next
<1> QED
    BY <1>1, <1>2, KindInit, KindNext, PTL DEF SSpec, Spec

-----------------------------------------------------------------------------
(* The kinds of all variables.                                              *)

LEMMA CoreTypeNext ==
    ASSUME TypeOK, CoreStep \/ UNCHANGED csVars
    PROVE  TypeOK'
<1> USE DEF TypeOK, Event, View
<1>0. NewMarket \in MarketState /\ DefaultMarket \in Markets /\ MaxFaults \in Nat
    BY NewMarketCoherent, CoreServiceAssumption DEF CoreServiceAssumption
<1>1. ASSUME NEW m \in Markets, NEW s \in MarketState, NEW n \in Nat, n = lastSeq
      PROVE  NewEvent(m, s) \in Event
    BY <1>1 DEF NewEvent
<1>2. ASSUME NEW m \in Markets, EnsureMarketExists(m) PROVE TypeOK'
    BY <1>0, <1>2 DEF EnsureMarketExists, streamVars
<1>3. CASE TickBegin
    BY <1>3 DEF TickBegin, streamVars, Known
<1>4. ASSUME NEW m \in Markets, EvaluateUnchanged(m) PROVE TypeOK'
    BY <1>4 DEF EvaluateUnchanged, streamVars
<1>5. ASSUME NEW m \in Markets, NEW s \in MarketState, EvaluateAndPersist(m, s)
      PROVE  TypeOK'
    BY <1>1, <1>5 DEF EvaluateAndPersist, streamVars
<1>6. ASSUME NEW kind, Fault(kind) PROVE faults' \in 0 .. MaxFaults
    BY <1>0, <1>6 DEF Fault
<1>7. ASSUME NEW rs \in SUBSET Event, RestoreLastSeq(rs) \/ RereadLastSeq(rs)
      PROVE  lastSeq' \in Nat
    BY <1>7 DEF RestoreLastSeq, RereadLastSeq
<1>8. ASSUME NEW m \in Markets, PersistFails(m) PROVE TypeOK'
    <2>1. lastSeq' \in Nat
        BY <1>7, <1>8 DEF PersistFails
    <2>2. faults' \in 0 .. MaxFaults
        BY <1>6, <1>8 DEF PersistFails
    <2> QED
        BY <1>8, <2>1, <2>2 DEF PersistFails, streamVars
<1>9. ASSUME NEW m \in Markets, NEW s \in MarketState, PersistUncertain(m, s)
      PROVE  TypeOK'
    <2>1. log' \in SUBSET Event /\ log' = log \cup {NewEvent(m, s)}
        BY <1>1, <1>9 DEF PersistUncertain
    <2>2. lastSeq' \in Nat
        BY <1>7, <1>9, <2>1 DEF PersistUncertain
    <2>3. faults' \in 0 .. MaxFaults
        BY <1>6, <1>9 DEF PersistUncertain
    <2> QED
        BY <1>9, <2>1, <2>2, <2>3 DEF PersistUncertain, streamVars
<1>10. CASE Broadcast
    <2>1. chan' \in [{} -> Seq(Event)] /\ open' \in [{} -> BOOLEAN]
        BY <1>10 DEF Broadcast
    <2>2. markets' \in View /\ tick' \in SUBSET Markets /\ emit' \in SUBSET Event
        BY <1>10 DEF Broadcast
    <2> QED
        BY <1>10, <2>1, <2>2 DEF Broadcast
<1>11. CASE CoreRestart
    <2>1. /\ phase' \in [{} -> Phases] /\ pend' \in [{} -> SUBSET Event]
          /\ chan' \in [{} -> Seq(Event)] /\ open' \in [{} -> BOOLEAN]
        BY <1>11 DEF CoreRestart
    <2>2. markets' \in View
        BY <1>0, <1>11 DEF CoreRestart, FreshMarkets
    <2>3. faults' \in 0 .. MaxFaults
        BY <1>6, <1>11 DEF CoreRestart
    <2> QED
        BY <1>11, <2>1, <2>2, <2>3 DEF CoreRestart
<1>12. CASE UNCHANGED csVars
    BY <1>12 DEF csVars, coreVars, streamVars
<1> QED
    BY <1>2, <1>3, <1>4, <1>5, <1>8, <1>9, <1>10, <1>11, <1>12 DEF CoreStep

LEMMA STypeInit == SInit => STypeOK
<1> SUFFICES ASSUME SInit PROVE STypeOK
    OBVIOUS
<1>1. TypeOK
    <2>1. /\ [c \in {} |-> "none"] \in [{} -> Phases] /\ [c \in {} |-> 1] \in [{} -> Nat \ {0}]
          /\ [c \in {} |-> {}] \in [{} -> SUBSET Event]
          /\ [c \in {} |-> <<>>] \in [{} -> Seq(Event)]
          /\ [c \in {} |-> FALSE] \in [{} -> BOOLEAN]
        OBVIOUS
    <2>2. FreshMarkets \in View
        BY NewMarketCoherent, CoreServiceAssumption
        DEF CoreServiceAssumption, FreshMarkets, View
    <2>3. 0 \in 0 .. MaxFaults
        BY CoreServiceAssumption DEF CoreServiceAssumption
    <2> QED
        BY <2>1, <2>2, <2>3 DEF SInit, Init, TypeOK
<1>2. /\ ClientInv
      /\ now \in 0 .. MaxTime /\ signals \in 0 .. MaxSignals /\ spikes \in 0 .. MaxSpikes
    BY ClientInit, CoreServiceAssumption DEF CoreServiceAssumption, SInit
<1> QED
    BY <1>1, <1>2 DEF STypeOK, ClientInv, SInit

LEMMA STypeNext == KindInv /\ STypeOK /\ [SNext]_sVars => STypeOK'
<1> SUFFICES ASSUME KindInv, STypeOK, [SNext]_sVars PROVE STypeOK'
    OBVIOUS
<1> DEFINE Table == Seq([market : Markets, type : EventTypes, at : Nat, state : MarketState])
<1>1. TypeOK' /\ ClientInv'
    BY StepIsCoreStep, CoreTypeNext, ClientNext DEF STypeOK, KindInv
<1>2. rows' \in Table
    <2>1. ASSUME rows' = rows \/ rows' = <<>> PROVE rows' \in Table
        <3>1. rows \in Table /\ <<>> \in Table
            BY DEF STypeOK
        <3> QED
            BY <2>1, <3>1
    <2>2. ASSUME NEW m \in Markets, Evaluate(m) PROVE rows' \in Table
        <3>1. CASE rows' = rows
            BY <3>1 DEF STypeOK
        <3>2. ASSUME NEW x \in WindowMetrics, NEW r,
                     r = ApplyBreaker(tickNow, markets[m], x),
                     rows' = Append(rows, Row(m, r))
              PROVE  rows' \in Table
            <4>1. r.type \in EventTypes /\ r.state \in MarketState
                BY <2>2, <3>2, EvaluateEffect, RowKind
            <4>2. tickNow \in Nat
                BY DEF KindInv, ClientInv
            <4>3. Row(m, r) \in [market : Markets, type : EventTypes, at : Nat, state : MarketState]
                BY <4>1, <4>2 DEF Row
            <4> QED
                BY <3>2, <4>3 DEF STypeOK
        <3> QED
            BY <2>2, <3>1, <3>2, EvaluateEffect
    <2>3. ASSUME NEW m \in Markets, Call(m) PROVE rows' = rows
        BY <2>3, CallEffect
    <2>4. CASE BeginTick \/ Publish \/ Restart \/ Advance \/ UNCHANGED sVars
        BY <2>1, <2>4 DEF BeginTick, Publish, Restart, Advance, sVars
    <2> QED
        BY <2>1, <2>2, <2>3, <2>4 DEF SNext
<1>3. now' \in 0 .. MaxTime /\ signals' \in 0 .. MaxSignals /\ spikes' \in 0 .. MaxSpikes
    <2> DEFINE Same == now' = now /\ signals' = signals /\ spikes' = spikes
    <2>1. /\ now \in 0 .. MaxTime /\ signals \in 0 .. MaxSignals /\ spikes \in 0 .. MaxSpikes
          /\ {MaxSignals, MaxSpikes, MaxTime} \subseteq Nat
        BY CoreServiceAssumption DEF STypeOK, CoreServiceAssumption
    <2>2. CASE Same
        BY <2>1, <2>2
    <2>3. ASSUME NEW m \in Markets, IngestSignal(m)
          PROVE  signals < MaxSignals /\ signals' = signals + 1 /\ now' = now /\ spikes' = spikes
        BY <2>3 DEF IngestSignal, timeVars
    <2>4. ASSUME NEW m \in Markets, StartSpike(m)
          PROVE  spikes < MaxSpikes /\ spikes' = spikes + 1 /\ now' = now /\ signals' = signals
        BY <2>4 DEF StartSpike, timeVars
    <2>5. ASSUME NEW m \in Markets, ClearSignals(m) PROVE Same
        BY <2>5 DEF ClearSignals, timeVars
    <2>6. ASSUME NEW m \in Markets, SpikeStep(m) PROVE Same
        BY <2>6 DEF SpikeStep, timeVars
    <2>7. ASSUME NEW m \in Markets, Evaluate(m) PROVE Same
        BY <2>7 DEF Evaluate, timeVars
    <2>8. CASE BeginTick
        BY <2>2, <2>8 DEF BeginTick, clientVars
    <2>9. CASE Publish
        BY <2>2, <2>9 DEF Publish, timeVars, clientVars
    <2>10. CASE Restart
        BY <2>2, <2>10 DEF Restart, timeVars
    <2>11. CASE Advance
        BY <2>1, <2>11 DEF Advance, clientVars
    <2>12. CASE UNCHANGED sVars
        BY <2>2, <2>12 DEF sVars, timeVars, clientVars
    <2>13. ASSUME NEW m \in Markets, Call(m) \/ Evaluate(m)
           PROVE  /\ now' \in 0 .. MaxTime
                  /\ signals' \in 0 .. MaxSignals /\ spikes' \in 0 .. MaxSpikes
        <3>1. CASE IngestSignal(m)
            BY <2>1, <2>3, <3>1
        <3>2. CASE StartSpike(m)
            BY <2>1, <2>4, <3>2
        <3> HIDE DEF Same
        <3> QED
            BY <2>2, <2>5, <2>6, <2>7, <2>13, <3>1, <3>2 DEF Call
    <2> QED
        BY <2>8, <2>9, <2>10, <2>11, <2>12, <2>13 DEF SNext
<1> QED
    BY <1>1, <1>2, <1>3 DEF STypeOK, ClientInv

(* Every reachable state of the service is well typed: the sums of any      *)
(* points are integers, a tick is never ahead of the clock, and no scenario *)
(* sends more signals than it has.                                          *)
THEOREM STypeCorrect == SSpec => []STypeOK
<1> QED
    BY KindInit, KindNext, STypeInit, STypeNext, PTL DEF SSpec

-----------------------------------------------------------------------------
(* No signal is lost.                                                       *)

(* What is pruned at a time t has left the window at any later time n. *)
LEMMA PruneEarly ==
    ASSUME NEW s \in Seq(Point), NEW t \in Int, NEW n \in Int, t <= n
    PROVE  Prune(Prune(s, t), n) = Prune(s, n)
<1>1. t - Window \in Int /\ n - Window \in Int /\ t - Window <= n - Window
    BY CoreServiceAssumption DEF CoreServiceAssumption
<1> QED
    BY <1>1, SinceTwice DEF Prune

LEMMA PrunePart ==
    ASSUME NEW s \in Seq(Point), NEW t \in Int
    PROVE  Among(Prune(s, t), s)
<1>1. t - Window \in Int
    BY CoreServiceAssumption DEF CoreServiceAssumption
<1> QED
    BY <1>1, SinceElements DEF Prune

(* The window w has, of what has come in r, all that is in the window at n. *)
Complete(w, r, n) == Prune(w, n) = Prune(r, n) /\ Among(w, r)

LEMMA NoSignalLostIsComplete ==
    NoSignalLost <=> \A m \in Markets : Complete(window[m], received[m], now)
BY DEF NoSignalLost, Complete, InWindow, Prune, Among

(* It stays complete when time passes, *)
LEMMA CompleteLater ==
    ASSUME NEW w \in Seq(Point), NEW r \in Seq(Point), NEW n \in Int, NEW t \in Int,
           n <= t, Complete(w, r, n)
    PROVE  Complete(w, r, t)
<1>1. /\ Prune(Prune(w, n), t) = Prune(w, t)
      /\ Prune(Prune(r, n), t) = Prune(r, t)
    BY PruneEarly
<1> QED
    BY <1>1 DEF Complete

(* when it is pruned at a time that is not ahead, *)
LEMMA CompletePruned ==
    ASSUME NEW w \in Seq(Point), NEW r \in Seq(Point), NEW n \in Int, NEW t \in Int,
           t <= n, Complete(w, r, n)
    PROVE  Complete(Prune(w, t), r, n)
<1>1. Prune(Prune(w, t), n) = Prune(w, n)
    BY PruneEarly
<1>2. Among(Prune(w, t), r)
    BY PrunePart, AmongTransitive DEF Complete
<1> QED
    BY <1>1, <1>2 DEF Complete

(* and when both take one more point. *)
LEMMA CompleteAppended ==
    ASSUME NEW w \in Seq(Point), NEW r \in Seq(Point), NEW n \in Int, NEW p \in Point,
           Complete(w, r, n)
    PROVE  Complete(Append(w, p), Append(r, p), n)
<1>1. n - Window \in Int
    BY CoreServiceAssumption DEF CoreServiceAssumption
<1>2. /\ Prune(Append(w, p), n) = KeepOne(Prune(w, n), p, n - Window)
      /\ Prune(Append(r, p), n) = KeepOne(Prune(r, n), p, n - Window)
    BY <1>1, SinceAppend DEF Prune
<1>3. Among(Append(w, p), Append(r, p))
    BY AmongAppend DEF Complete
<1> QED
    BY <1>2, <1>3 DEF Complete

LEMMA CompleteEmpty == \A n \in Int : Complete(<<>>, <<>>, n)
BY DEF Complete, Among

LEMMA CompleteNext ==
    ClientInv /\ NoSignalLost /\ [SNext]_sVars => NoSignalLost'
<1> SUFFICES ASSUME ClientInv, NoSignalLost, [SNext]_sVars,
                    NEW k \in Markets
             PROVE  Complete(window'[k], received'[k], now')
    BY DEF NoSignalLost, Complete, InWindow, Prune, Among
<1>0. /\ Complete(window[k], received[k], now)
      /\ window \in [Markets -> Seq(Point)] /\ received \in [Markets -> Seq(Point)]
      /\ window[k] \in Seq(Point) /\ received[k] \in Seq(Point)
      /\ now \in Int /\ tickNow \in Int /\ tickNow <= now
    BY NoSignalLostIsComplete DEF ClientInv
<1>1. CASE UNCHANGED <<window, received, now>>
    BY <1>0, <1>1
<1>2. ASSUME NEW m \in Markets, Call(m)
      PROVE  Complete(window'[k], received'[k], now')
    <2>1. now' = now
        BY <1>2, CallEffect
    <2>2. ASSUME NEW p \in Point, NEW t \in Int, t <= now,
                 window' = [window EXCEPT ![m] = Prune(Append(@, p), t)],
                 received' = [received EXCEPT ![m] = Append(@, p)]
          PROVE  Complete(window'[k], received'[k], now)
        <3>1. CASE k = m
            <4>1. /\ Append(window[k], p) \in Seq(Point) /\ Append(received[k], p) \in Seq(Point)
                  /\ Complete(Append(window[k], p), Append(received[k], p), now)
                BY <1>0, CompleteAppended
            <4>2. Complete(Prune(Append(window[k], p), t), Append(received[k], p), now)
                BY <1>0, <2>2, <4>1, CompletePruned
            <4> QED
                BY <1>0, <2>2, <3>1, <4>2
        <3>2. CASE k # m
            BY <1>0, <2>2, <3>2
        <3> QED
            BY <3>1, <3>2
    <2>3. CASE /\ window' = [window EXCEPT ![m] = <<>>]
               /\ received' = [received EXCEPT ![m] = <<>>]
        BY <1>0, <2>1, <2>3, CompleteEmpty
    <2>4. CASE UNCHANGED <<window, received>>
        BY <1>1, <2>1, <2>4
    <2> QED
        BY <1>2, <2>1, <2>2, <2>3, <2>4, CallOnWindow
<1>3. ASSUME NEW m \in Markets, Evaluate(m)
      PROVE  Complete(window'[k], received'[k], now')
    <2>1. /\ window' = [window EXCEPT ![m] = Prune(@, tickNow)]
          /\ received' = received /\ now' = now
        BY <1>3 DEF Evaluate, Kept, timeVars
    <2>2. Complete(Prune(window[k], tickNow), received[k], now)
        BY <1>0, CompletePruned
    <2> QED
        BY <1>0, <2>1, <2>2
<1>4. CASE BeginTick
    BY <1>1, <1>4 DEF BeginTick, clientVars
<1>5. CASE Publish
    BY <1>1, <1>5 DEF Publish, timeVars, clientVars
<1>6. CASE Restart
    BY <1>0, <1>6, CompleteEmpty DEF Restart, timeVars
<1>7. CASE Advance
    <2>1. now' = now + 1 /\ UNCHANGED <<window, received>>
        BY <1>7 DEF Advance, clientVars
    <2> QED
        BY <1>0, <2>1, CompleteLater
<1>8. CASE UNCHANGED sVars
    BY <1>1, <1>8 DEF sVars, timeVars, clientVars
<1> QED
    BY <1>2, <1>3, <1>4, <1>5, <1>6, <1>7, <1>8 DEF SNext

(* At any moment the window of each market has exactly those signals since  *)
(* the last ClearSignals that are in the window of the present, and besides *)
(* only older ones that a tick has still to drop: for every number of       *)
(* signals, with timestamps of the past and of the future, and calls and    *)
(* ticks whose times overtake one another.                                  *)
THEOREM NeverLost == SSpec => []NoSignalLost
<1>1. SInit => NoSignalLost
    BY NoSignalLostIsComplete, CompleteEmpty DEF SInit
<1>2. ClientInv /\ NoSignalLost /\ [SNext]_sVars => ClientInv' /\ NoSignalLost'
    BY ClientNext, CompleteNext
<1> QED
    BY <1>1, <1>2, ClientInit, PTL DEF SSpec

-----------------------------------------------------------------------------
(* A spike cannot be missed.                                                *)

(* No signal takes bets back, and an insert that fails has stored nothing.  *)
Undisputed ==
    /\ \A x \in Signals : x.bets >= 0
    /\ "insertUncertain" \notin FaultKinds

(* All signals of the spike of market m have come and are in the window.    *)
Due(m) == spike[m].whole /\ spike[m].left = 0 /\ now <= spike[m].ts + Window

(* The bets of the points w that are not older than a spike at time ts: of  *)
(* other points later ticks may drop some.                                  *)
BetsFrom(w, ts) == Total(Since(w, ts), "bets")

(* What the windows have of a spike, however much of it has come; and the   *)
(* event under way of a market whose spike is due suspends it.              *)
SpikeInv ==
    /\ \A m \in Markets : Grows(window[m])
    /\ \A m \in Markets : spike[m].whole /\ now <= spike[m].ts + Window =>
          BetsFrom(window[m], spike[m].ts) >= (SpikeSize - spike[m].left) * SpikeSignal.bets
    /\ \A e \in emit : /\ e.market \in tick
                       /\ Due(e.market) => e.state.status = "SUSPENDED"
    /\ \A e \in log : e.seq <= lastSeq

(* The bets of a spike are not pruned while it is in the window. *)
LEMMA SpikeKept ==
    ASSUME NEW w \in Seq(Point), NEW ts \in Int, NEW t \in Int, t <= ts + Window
    PROVE  BetsFrom(Prune(w, t), ts) = BetsFrom(w, ts)
<1>1. t - Window \in Int /\ t - Window <= ts
    BY CoreServiceAssumption DEF CoreServiceAssumption
<1>2. Since(Prune(w, t), ts) = Since(w, ts)
    BY <1>1, SinceTwice DEF Prune
<1> QED
    BY <1>2 DEF BetsFrom

LEMMA SpikeAppended ==
    ASSUME NEW w \in Seq(Point), NEW ts \in Int, NEW p \in Point, p.bets >= 0
    PROVE  /\ BetsFrom(w, ts) \in Int /\ p.bets \in Int
           /\ BetsFrom(Append(w, p), ts) >= BetsFrom(w, ts)
           /\ p.ts = ts => BetsFrom(Append(w, p), ts) = BetsFrom(w, ts) + p.bets
<1> DEFINE k == Since(w, ts)
<1>1. k \in Seq(Point) /\ Since(Append(w, p), ts) = KeepOne(k, p, ts)
    BY SinceType, SinceAppend
<1> HIDE DEF k
<1>2. /\ Total(Append(k, p), "bets") = Total(k, "bets") + p.bets
      /\ Total(k, "bets") \in Int /\ p.bets \in Int
    BY <1>1, TotalAppend, TotalType DEF Point
<1>3. BetsFrom(w, ts) = Total(k, "bets")
    BY DEF BetsFrom, k
<1>4. BetsFrom(Append(w, p), ts) = Total(KeepOne(k, p, ts), "bets")
    BY <1>1 DEF BetsFrom
<1> QED
    BY <1>2, <1>3, <1>4 DEF KeepOne

LEMMA SpikeKinds ==
    ASSUME ClientInv, NEW m \in Markets
    PROVE  /\ window[m] \in Seq(Point)
           /\ spike[m] \in [left : 0 .. SpikeSize, ts : 0 .. now, whole : BOOLEAN]
           /\ spike[m].ts \in Int /\ spike[m].left \in Int
           /\ now \in Int /\ tickNow \in Int /\ tickNow <= now
           /\ SpikeSize \in Nat /\ Window \in Nat
<1>1. SpikeSize \in Nat /\ Window \in Nat
    BY CoreServiceAssumption DEF CoreServiceAssumption
<1>2. /\ window[m] \in Seq(Point) /\ now \in Nat /\ tickNow \in 0 .. now
      /\ spike[m] \in [left : 0 .. SpikeSize, ts : 0 .. now, whole : BOOLEAN]
    BY DEF ClientInv
<1> QED
    BY <1>1, <1>2

(* A tick that finds the market of a due spike suspends it. *)
LEMMA DueIsSuspended ==
    ASSUME ClientInv, SpikeInv, NEW m \in Markets, Due(m), markets[m] \in MarketState
    PROVE  Evaluation(m).state.status = "SUSPENDED"
<1> DEFINE ts == spike[m].ts
           x  == Metrics(Kept(m))
<1>1. /\ window[m] \in Seq(Point) /\ ts \in Int /\ tickNow \in Int /\ tickNow <= ts + Window
    BY SpikeKinds DEF Due
<1>2. Kept(m) \in Seq(Point) /\ Among(Kept(m), window[m])
    BY <1>1, PruneType, PrunePart DEF Kept
<1>3. BetsFrom(Kept(m), ts) = BetsFrom(window[m], ts)
    BY <1>1, SpikeKept DEF Kept
<1>4. BetsFrom(Kept(m), ts) <= Total(Kept(m), "bets")
    BY <1>1, <1>2, GrowsPart, PartialTotal DEF SpikeInv, BetsFrom
<1>5. BetsFrom(window[m], ts) >= SpikeSize * SpikeSignal.bets
    <2>1. BetsFrom(window[m], ts) >= (SpikeSize - 0) * SpikeSignal.bets
        BY DEF SpikeInv, Due
    <2> QED
        BY <2>1, CoreServiceAssumption DEF CoreServiceAssumption
<1>6. x \in WindowMetrics /\ x.bets = Total(Kept(m), "bets")
    BY <1>2, MetricsType DEF Metrics
<1>7. BetsFrom(Kept(m), ts) \in Int
    BY <1>1, <1>2, SinceType, TotalType DEF BetsFrom
<1>8. x.bets >= BetLimit
    <2>1. SpikeSize * SpikeSignal.bets \in Int /\ BetLimit \in Int
        BY CoreServiceAssumption, BreakerAssumption
        DEF CoreServiceAssumption, BreakerAssumption, WindowMetrics
    <2>2. SpikeSize * SpikeSignal.bets >= BetLimit
        BY CoreServiceAssumption DEF CoreServiceAssumption
    <2>3. Total(Kept(m), "bets") \in Int
        BY <1>2, TotalType
    <2> HIDE DEF x
    <2> QED
        BY <1>3, <1>4, <1>5, <1>6, <1>7, <2>1, <2>2, <2>3
<1> HIDE DEF x
<1>9. ApplyBreaker(tickNow, markets[m], x).state.status = "SUSPENDED"
    BY <1>1, <1>6, <1>8, HotIsSuspended
<1> QED
    BY <1>9 DEF Evaluation, x

LEMMA SpikeBets == SpikeSignal.bets \in Nat /\ SpikeSize \in Nat \ {0}
<1>1. /\ SpikeSize \in Nat \ {0} /\ SpikeSignal.bets \in Int
      /\ SpikeSize * SpikeSignal.bets > 0
    BY CoreServiceAssumption, BreakerAssumption
    DEF CoreServiceAssumption, BreakerAssumption, WindowMetrics
<1>2. SpikeSignal.bets > 0
    BY <1>1
<1> QED
    BY <1>1, <1>2

LEMMA GrowsNext ==
    ASSUME Undisputed, ClientInv, SpikeInv, [SNext]_sVars, NEW k \in Markets
    PROVE  Grows(window'[k])
<1>0. Grows(window[k]) /\ window[k] \in Seq(Point) /\ window \in [Markets -> Seq(Point)]
    BY DEF SpikeInv, ClientInv
<1>1. ASSUME NEW m \in Markets, Call(m) PROVE Grows(window'[k])
    <2>1. ASSUME NEW p \in Point, NEW t \in Int, p.bets >= 0,
                 window' = [window EXCEPT ![m] = Prune(Append(@, p), t)]
          PROVE  Grows(window'[k])
        <3>1. Append(window[k], p) \in Seq(Point) /\ Grows(Append(window[k], p))
            BY <1>0, <2>1, GrowsAppend
        <3>2. Grows(Prune(Append(window[k], p), t))
            BY <3>1, PrunePart, GrowsPart
        <3> QED
            BY <1>0, <2>1, <3>2
    <2>2. CASE window' = [window EXCEPT ![m] = <<>>]
        BY <1>0, <2>2 DEF Grows
    <2>3. CASE window' = window
        BY <1>0, <2>3
    <2> QED
        BY <1>1, <2>1, <2>2, <2>3, CallOnWindow, SpikeBets DEF Undisputed
<1>2. ASSUME NEW m \in Markets, Evaluate(m) PROVE Grows(window'[k])
    <2>1. window' = [window EXCEPT ![m] = Prune(@, tickNow)] /\ tickNow \in Int
        BY <1>2 DEF Evaluate, Kept, ClientInv
    <2>2. Grows(Prune(window[k], tickNow))
        BY <1>0, <2>1, PrunePart, GrowsPart
    <2> QED
        BY <1>0, <2>1, <2>2
<1>3. CASE Restart
    BY <1>3 DEF Restart, Grows
<1>4. CASE BeginTick
    BY <1>0, <1>4 DEF BeginTick, clientVars
<1>5. CASE Publish
    BY <1>0, <1>5 DEF Publish, clientVars
<1>6. CASE Advance
    BY <1>0, <1>6 DEF Advance, clientVars
<1>7. CASE UNCHANGED sVars
    BY <1>0, <1>7 DEF sVars, clientVars
<1> QED
    BY <1>1, <1>2, <1>3, <1>4, <1>5, <1>6, <1>7 DEF SNext

(* What the window of market k has of its spike. *)
Covers(w, scenario, n) ==
    scenario.whole /\ n <= scenario.ts + Window =>
        BetsFrom(w, scenario.ts) >= (SpikeSize - scenario.left) * SpikeSignal.bets

LEMMA CoversNext ==
    ASSUME Undisputed, ClientInv, SpikeInv, [SNext]_sVars, NEW k \in Markets
    PROVE  Covers(window'[k], spike'[k], now')
<1> DEFINE w == window[k]
           b == SpikeSignal.bets
           Scenario == [left : 0 .. SpikeSize, ts : 0 .. now, whole : BOOLEAN]
<1>0. /\ Covers(w, spike[k], now) /\ Grows(w) /\ w \in Seq(Point)
      /\ window \in [Markets -> Seq(Point)] /\ spike \in [Markets -> Scenario]
      /\ spike[k] \in Scenario /\ spike[k].ts \in Int /\ spike[k].left \in Int
      /\ now \in Int /\ tickNow \in Int /\ tickNow <= now
      /\ b \in Nat /\ SpikeSize \in Nat /\ Window \in Nat
    <2>1. Covers(w, spike[k], now) /\ Grows(w)
        BY DEF SpikeInv, Covers
    <2>2. window \in [Markets -> Seq(Point)] /\ spike \in [Markets -> Scenario]
        BY DEF ClientInv
    <2> QED
        BY <2>1, <2>2, SpikeBets, SpikeKinds
<1> HIDE DEF w, b, Scenario
<1>1. CASE window'[k] = w /\ spike'[k] = spike[k] /\ now' \in Int /\ now <= now'
    BY <1>0, <1>1 DEF Covers
<1>2. ASSUME NEW m \in Markets, Call(m) PROVE Covers(window'[k], spike'[k], now')
    <2>1. now' = now
        BY <1>2, CallEffect
    <2>2. ASSUME NEW p \in Point, NEW t \in Int, t <= now, p.bets >= 0,
                 window' = [window EXCEPT ![m] = Prune(Append(@, p), t)],
                 \/ spike' = spike
                 \/ /\ spike' = [spike EXCEPT ![m].left = @ - 1]
                    /\ p.ts = spike[m].ts /\ p.bets = b
          PROVE  Covers(window'[k], spike'[k], now')
        <3>1. CASE k # m
            BY <1>0, <1>1, <2>1, <2>2, <3>1 DEF w
        <3>2. CASE k = m
            <4> DEFINE ts  == spike[k].ts
                       old == BetsFrom(w, ts)
                       new == BetsFrom(Append(w, p), ts)
            <4>1. window'[k] = Prune(Append(w, p), t) /\ Append(w, p) \in Seq(Point)
                BY <1>0, <2>2, <3>2 DEF w
            <4>2. SUFFICES ASSUME spike[k].whole, now <= ts + Window
                           PROVE  new >= (SpikeSize - spike'[k].left) * b
                <5>1. spike'[k].whole = spike[k].whole /\ spike'[k].ts = ts
                    BY <1>0, <2>2, <3>2 DEF Scenario
                <5>2. ASSUME now <= ts + Window
                      PROVE  BetsFrom(Prune(Append(w, p), t), ts) = new
                    <6>1. t <= ts + Window
                        BY <1>0, <2>2, <5>2
                    <6> QED
                        BY <1>0, <4>1, <6>1, SpikeKept
                <5> QED
                    BY <2>1, <4>1, <5>1, <5>2 DEF Covers, b
            <4>3. /\ old \in Int /\ new >= old /\ old >= (SpikeSize - spike[k].left) * b
                  /\ p.ts = ts => new = old + p.bets
                BY <1>0, <2>2, <4>2, SpikeAppended DEF Covers, b
            <4>4. new \in Int
                BY <1>0, <4>1, SinceType, TotalType DEF BetsFrom
            <4> HIDE DEF old, new
            <4>5. CASE spike' = spike
                <5>1. (SpikeSize - spike[k].left) * b \in Int
                    BY <1>0
                <5> QED
                    BY <4>3, <4>4, <4>5, <5>1
            <4>6. CASE /\ spike' = [spike EXCEPT ![m].left = @ - 1]
                       /\ p.ts = spike[m].ts /\ p.bets = b
                <5>1. spike'[k].left = spike[k].left - 1 /\ new = old + b
                    BY <1>0, <3>2, <4>3, <4>6 DEF Scenario
                <5>2. (SpikeSize - (spike[k].left - 1)) * b = (SpikeSize - spike[k].left) * b + b
                    BY <1>0
                <5>3. (SpikeSize - spike[k].left) * b \in Int
                    BY <1>0
                <5> QED
                    BY <1>0, <4>3, <4>4, <5>1, <5>2, <5>3
            <4> QED
                BY <2>2, <4>5, <4>6
        <3> QED
            BY <3>1, <3>2
    <2>3. CASE /\ window' = [window EXCEPT ![m] = <<>>]
               /\ spike' = [spike EXCEPT ![m].whole = FALSE]
        <3>1. CASE k # m
            BY <1>0, <1>1, <2>1, <2>3, <3>1 DEF w
        <3>2. CASE k = m
            <4>1. spike'[k].whole = FALSE
                BY <1>0, <2>3, <3>2 DEF Scenario
            <4> QED
                BY <4>1 DEF Covers
        <3> QED
            BY <3>1, <3>2
    <2>4. CASE /\ window' = window
               /\ spike' = [spike EXCEPT ![m] = [left |-> SpikeSize, ts |-> now, whole |-> TRUE]]
        <3>1. CASE k # m
            BY <1>0, <1>1, <2>1, <2>4, <3>1 DEF w
        <3>2. CASE k = m
            <4>1. spike'[k].left = SpikeSize /\ spike'[k].ts = now /\ window'[k] = w
                BY <1>0, <2>4, <3>2 DEF w
            <4>2. BetsFrom(w, now) >= 0
                BY <1>0, PartialTotal DEF BetsFrom
            <4>3. (SpikeSize - SpikeSize) * b = 0
                BY <1>0
            <4> QED
                BY <4>1, <4>2, <4>3 DEF Covers, b
        <3> QED
            BY <3>1, <3>2
    <2> QED
        BY <1>2, <2>2, <2>3, <2>4, CallOnWindow, SpikeBets DEF Undisputed, b
<1>3. ASSUME NEW m \in Markets, Evaluate(m) PROVE Covers(window'[k], spike'[k], now')
    <2>1. /\ window' = [window EXCEPT ![m] = Prune(@, tickNow)]
          /\ spike' = spike /\ now' = now
        BY <1>3 DEF Evaluate, Kept, timeVars
    <2>2. CASE k # m
        BY <1>0, <1>1, <2>1, <2>2 DEF w
    <2>3. CASE k = m
        <3>1. window'[k] = Prune(w, tickNow)
            BY <1>0, <2>1, <2>3 DEF w
        <3>2. ASSUME now <= spike[k].ts + Window
              PROVE  BetsFrom(Prune(w, tickNow), spike[k].ts) = BetsFrom(w, spike[k].ts)
            <4>1. tickNow <= spike[k].ts + Window
                BY <1>0, <3>2
            <4> QED
                BY <1>0, <4>1, SpikeKept
        <3> QED
            BY <1>0, <2>1, <3>1, <3>2 DEF Covers
    <2> QED
        BY <2>2, <2>3
<1>4. CASE BeginTick
    BY <1>0, <1>1, <1>4 DEF BeginTick, clientVars, w
<1>5. CASE Publish
    BY <1>0, <1>1, <1>5 DEF Publish, timeVars, clientVars, w
<1>6. CASE Restart
    <2>1. spike'[k].whole = FALSE
        BY <1>6 DEF Restart, NoSpike
    <2> QED
        BY <2>1 DEF Covers
<1>7. CASE Advance
    BY <1>0, <1>1, <1>7 DEF Advance, clientVars, w
<1>8. CASE UNCHANGED sVars
    BY <1>0, <1>1, <1>8 DEF sVars, timeVars, clientVars, w
<1> QED
    BY <1>2, <1>3, <1>4, <1>5, <1>6, <1>7, <1>8 DEF SNext

(* Without an uncertain insert no row is ahead of lastSeq, so that an       *)
(* insert fails only by a fault.                                            *)
LEMMA AheadNext ==
    ASSUME Undisputed, TypeOK, \A e \in log : e.seq <= lastSeq,
           CoreStep \/ UNCHANGED csVars
    PROVE  \A e \in log' : e.seq <= lastSeq'
<1>0. log \in SUBSET Event /\ lastSeq \in Nat /\ \A e \in log : e.seq \in Nat
    BY DEF TypeOK, Event
<1>1. ~HasRow(log, lastSeq + 1)
    BY <1>0 DEF HasRow
<1>2. ASSUME RestoreLastSeq(log) PROVE \A e \in log : e.seq <= lastSeq'
    BY <1>2 DEF RestoreLastSeq, RereadLastSeq, IsLastSeq
<1>3. CASE log' = log /\ lastSeq' = lastSeq
    BY <1>3
<1>4. ASSUME NEW m \in Markets, NEW s \in MarketState, EvaluateAndPersist(m, s)
      PROVE  \A e \in log' : e.seq <= lastSeq'
    BY <1>0, <1>4 DEF EvaluateAndPersist, NewEvent
<1>5. ASSUME NEW m \in Markets, PersistFails(m) PROVE \A e \in log' : e.seq <= lastSeq'
    BY <1>1, <1>2, <1>5 DEF PersistFails
<1>6. ASSUME NEW m \in Markets, NEW s \in MarketState PROVE ~PersistUncertain(m, s)
    BY DEF Undisputed, PersistUncertain, Fault
<1>7. CASE CoreRestart
    BY <1>7 DEF CoreRestart
<1>8. ASSUME NEW m \in Markets, EnsureMarketExists(m) \/ EvaluateUnchanged(m)
      PROVE  log' = log /\ lastSeq' = lastSeq
    BY <1>8 DEF EnsureMarketExists, EvaluateUnchanged
<1>9. CASE TickBegin \/ Broadcast \/ UNCHANGED csVars
    BY <1>3, <1>9 DEF TickBegin, Broadcast, csVars, coreVars
<1> QED
    BY <1>3, <1>4, <1>5, <1>6, <1>7, <1>8, <1>9 DEF CoreStep

(* A client's call other than the beginning of a scenario waits for the tick. *)
LEMMA CallWaits ==
    ASSUME NEW m \in Markets, Call(m)
    PROVE  StartSpike(m) \/ tick = {}
<1>1. EnsureMarket(m) => tick = {}
    BY DEF EnsureMarket, EnsureMarketExists
<1> QED
    BY <1>1 DEF Call, IngestSignal, ClearSignals, SpikeStep, Ingest

(* An evaluation of a market whose spike is due: it stays in the tick, with *)
(* an event that suspends it, or it is suspended already, or it leaves the  *)
(* tick by a fault.                                                         *)
LEMMA EvaluateDue ==
    ASSUME Undisputed, KindInv, TypeOK, SpikeInv, NEW m \in Markets, Evaluate(m)
    PROVE  /\ emit = {} /\ m \in tick
           /\ \/ /\ tick' = tick
                 /\ \E e : /\ emit' = {e} /\ e.market = m
                           /\ Due(m) => e.state.status = "SUSPENDED"
              \/ /\ tick' = tick \ {m} /\ emit' = {}
                 /\ Due(m) /\ faults' = faults => markets'[m].status = "SUSPENDED"
<1> DEFINE r == Evaluation(m)
<1>1. /\ m \in tick
      /\ \/ r.state = markets[m] /\ EvaluateUnchanged(m)
         \/ EvaluateAndPersist(m, r.state)
         \/ PersistFails(m)
         \/ PersistUncertain(m, r.state)
    BY DEF Evaluate
<1>2. Due(m) => r.state.status = "SUSPENDED"
    BY <1>1, DueIsSuspended DEF KindInv, Known
<1> HIDE DEF r
<1>3. CASE r.state = markets[m] /\ EvaluateUnchanged(m)
    BY <1>1, <1>2, <1>3 DEF EvaluateUnchanged
<1>4. CASE EvaluateAndPersist(m, r.state)
    <2> DEFINE e == NewEvent(m, r.state)
    <2>1. e.market = m /\ e.state = r.state
        BY DEF NewEvent
    <2>2. emit = {} /\ tick' = tick /\ emit' = {e}
        BY <1>4 DEF EvaluateAndPersist
    <2> HIDE DEF e
    <2> QED
        BY <1>1, <1>2, <2>1, <2>2
<1>5. CASE PersistFails(m)
    <2>1. ~HasRow(log, lastSeq + 1)
        BY DEF HasRow, SpikeInv, TypeOK, Event
    <2>2. faults' = faults + 1 /\ faults \in Nat
        BY <1>5, <2>1 DEF PersistFails, Fault, TypeOK
    <2> QED
        BY <1>1, <1>5, <2>2 DEF PersistFails
<1>6. CASE PersistUncertain(m, r.state)
    BY <1>6 DEF Undisputed, PersistUncertain, Fault
<1> QED
    BY <1>1, <1>3, <1>4, <1>5, <1>6

LEMMA EventNext ==
    ASSUME Undisputed, KindInv, TypeOK, SpikeInv, [SNext]_sVars
    PROVE  \A e \in emit' : e.market \in tick' /\ (Due(e.market)' => e.state.status = "SUSPENDED")
<1>0. \A e \in emit : /\ e.market \in tick /\ e.market \in Markets
                      /\ Due(e.market) => e.state.status = "SUSPENDED"
    BY DEF SpikeInv, KindInv
<1>1. ASSUME emit' = emit, tick' = tick,
             \A m \in Markets : Due(m)' => Due(m)
      PROVE  \A e \in emit' : /\ e.market \in tick'
                              /\ Due(e.market)' => e.state.status = "SUSPENDED"
    BY <1>0, <1>1
<1>2. CASE emit' = {}
    BY <1>2
<1>3. ASSUME UNCHANGED <<spike, now>> PROVE \A m : Due(m)' <=> Due(m)
    BY <1>3 DEF Due
<1>4. ASSUME NEW m \in Markets, Call(m)
      PROVE  \A e \in emit' : /\ e.market \in tick'
                              /\ Due(e.market)' => e.state.status = "SUSPENDED"
    <2>1. UNCHANGED <<tick, emit, now>>
        BY <1>4, CallEffect
    <2>2. CASE tick = {}
        BY <1>0, <1>2, <2>1, <2>2
    <2>3. CASE StartSpike(m)
        <3>1. spike' = [spike EXCEPT ![m] = [left |-> SpikeSize, ts |-> now, whole |-> TRUE]]
            BY <2>3 DEF StartSpike
        <3>2. SpikeSize # 0
            BY SpikeBets
        <3>3. \A k \in Markets : Due(k)' => Due(k)
            BY <2>1, <3>1, <3>2 DEF Due, KindInv, ClientInv
        <3> QED
            BY <1>1, <2>1, <3>3
    <2> QED
        BY <1>4, <2>2, <2>3, CallWaits
<1>5. ASSUME NEW m \in Markets, Evaluate(m)
      PROVE  \A e \in emit' : /\ e.market \in tick'
                              /\ Due(e.market)' => e.state.status = "SUSPENDED"
    <2>1. UNCHANGED <<spike, now>>
        BY <1>5 DEF Evaluate, timeVars
    <2> QED
        BY <1>3, <1>5, <2>1, EvaluateDue
<1>6. CASE BeginTick
    BY <1>0, <1>2, <1>6 DEF BeginTick, TickBegin
<1>7. CASE Publish
    BY <1>2, <1>7 DEF Publish, Broadcast
<1>8. CASE Restart
    BY <1>2, <1>8 DEF Restart, CoreRestart
<1>9. CASE Advance
    <2>1. now' = now + 1 /\ UNCHANGED <<spike, tick, emit>>
        BY <1>9 DEF Advance, clientVars, eventVars
    <2>2. \A m \in Markets : Due(m)' => Due(m)
        <3>1. ASSUME NEW m \in Markets, Due(m)' PROVE Due(m)
            BY <2>1, <3>1, SpikeKinds DEF Due, KindInv
        <3> QED
            BY <3>1
    <2> QED
        BY <1>1, <2>1, <2>2
<1>10. CASE UNCHANGED sVars
    BY <1>1, <1>3, <1>10 DEF sVars, timeVars, clientVars, eventVars
<1> QED
    BY <1>4, <1>5, <1>6, <1>7, <1>8, <1>9, <1>10 DEF SNext

LEMMA SpikeInit == SInit => SpikeInv
<1> SUFFICES ASSUME SInit PROVE SpikeInv
    OBVIOUS
<1>1. /\ window = [m \in Markets |-> <<>>] /\ spike = [m \in Markets |-> NoSpike]
      /\ emit = {} /\ log = {}
    BY DEF SInit, Init
<1> QED
    BY <1>1 DEF SpikeInv, NoSpike, Grows

LEMMA SpikeNext ==
    ASSUME Undisputed
    PROVE  KindInv /\ STypeOK /\ SpikeInv /\ [SNext]_sVars => SpikeInv'
<1> SUFFICES ASSUME KindInv, STypeOK, SpikeInv, [SNext]_sVars PROVE SpikeInv'
    OBVIOUS
<1>1. ClientInv /\ TypeOK /\ (CoreStep \/ UNCHANGED csVars)
    BY StepIsCoreStep DEF KindInv, STypeOK
<1>2. \A m \in Markets : Grows(window'[m]) /\ Covers(window'[m], spike'[m], now')
    BY <1>1, GrowsNext, CoversNext
<1>3. \A e \in emit' : e.market \in tick' /\ (Due(e.market)' => e.state.status = "SUSPENDED")
    BY <1>1, EventNext
<1>4. \A e \in log' : e.seq <= lastSeq'
    BY <1>1, AheadNext DEF SpikeInv
<1> QED
    BY <1>2, <1>3, <1>4 DEF SpikeInv, Covers

(* What SpikeSuspends says of one step. *)
LEMMA SpikeStepSuspends ==
    ASSUME Undisputed, KindInv, TypeOK, SpikeInv, [SNext]_sVars,
           NEW m \in tick \ tick', Due(m), epoch' = epoch, faults' = faults
    PROVE  markets'[m].status = "SUSPENDED"
<1>0. m \in Markets
    BY DEF KindInv, Known
<1>1. ASSUME NEW k \in Markets, Call(k) PROVE FALSE
    BY <1>1, CallEffect
<1>2. ASSUME NEW k \in Markets, Evaluate(k) PROVE markets'[m].status = "SUSPENDED"
    BY <1>0, <1>2, EvaluateDue
<1>3. CASE BeginTick
    BY <1>3 DEF BeginTick, TickBegin
<1>4. CASE Publish
    <2>1. PICK e \in emit : /\ markets' = [markets EXCEPT ![e.market] = e.state]
                            /\ tick' = tick \ {e.market}
        BY <1>4 DEF Publish, Broadcast
    <2>2. e.market = m
        BY <2>1
    <2> QED
        BY <1>0, <2>1, <2>2 DEF SpikeInv, KindInv
<1>5. CASE Restart
    BY <1>5 DEF Restart, CoreRestart, TypeOK
<1>6. CASE Advance
    BY <1>6 DEF Advance, eventVars
<1>7. CASE UNCHANGED sVars
    BY <1>7 DEF sVars, eventVars
<1> QED
    BY <1>1, <1>2, <1>3, <1>4, <1>5, <1>6, <1>7 DEF SNext

(* A whole spike that is in the window cannot be missed: for every size of  *)
(* the scenario that reaches the limit, any other signals without negative  *)
(* bets, and any interleaving of its calls with ticks whose times lie       *)
(* behind, a tick that evaluates the market leaves it suspended, unless the *)
(* insert fails.  (A fault that stores the row and reports an error is      *)
(* excluded: the insert after it fails without a further fault.)            *)
THEOREM SpikeNeverMissed == Undisputed => (SSpec => SpikeSuspends)
<1> SUFFICES ASSUME Undisputed PROVE SSpec => SpikeSuspends
    OBVIOUS
<1> DEFINE Suspends ==
        \A m \in tick \ tick' :
            /\ spike[m].whole /\ spike[m].left = 0
            /\ now <= spike[m].ts + Window
            /\ epoch' = epoch /\ faults' = faults
            => markets'[m].status = "SUSPENDED"
<1>1. SInit => KindInv /\ STypeOK /\ SpikeInv
    BY KindInit, STypeInit, SpikeInit
<1>2. KindInv /\ STypeOK /\ SpikeInv /\ [SNext]_sVars
        => KindInv' /\ STypeOK' /\ SpikeInv'
    BY KindNext, STypeNext, SpikeNext
<1>3. KindInv /\ STypeOK /\ SpikeInv /\ [SNext]_sVars => [Suspends]_sVars
    BY SpikeStepSuspends DEF Due, STypeOK
<1> QED
    BY <1>1, <1>2, <1>3, PTL DEF SSpec, SpikeSuspends
=============================================================================
