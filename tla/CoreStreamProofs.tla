-------------------------- MODULE CoreStreamProofs --------------------------
(***************************************************************************)
(* Proofs about CoreStream, for every value of its constants: the types,   *)
(* the numbering of the log, the frames of a stream, and that no event is  *)
(* missed.                                                                  *)
(***************************************************************************)
EXTENDS CoreStream, TLAPS, SequenceTheorems

(* The capacities, in the form the leaves use them. *)
LEMMA Bounds ==
    /\ Buffer \in Nat \ {0}
    /\ WireCap \in Nat \ {0}
    /\ MaxFaults \in Nat
    /\ FromSeqs \subseteq Nat \ {0}
    /\ DefaultMarket \in Markets /\ OpenState \in States
BY CoreStreamAssumption, EventLogAssumption DEF CoreStreamAssumption, EventLogAssumption

(* A new core process has a map of the right kind. *)
LEMMA FreshMarketsType == FreshMarkets \in View
BY Bounds DEF FreshMarkets, View

-----------------------------------------------------------------------------
(* Types.                                                                   *)

LEMMA TypeInit == Init => TypeOK
<1> SUFFICES ASSUME Init PROVE TypeOK
    OBVIOUS
<1>1. <<>> \in Seq(Event) /\ Len(<<>>) = 0
    BY EmptySeq
<1> QED
    BY <1>1, Bounds, FreshMarketsType DEF Init, TypeOK, Phases

LEMMA TypeCore ==
    ASSUME TypeOK, CoreStep PROVE TypeOK'
<1> USE Bounds DEF streamVars
<1>1. ASSUME NEW m \in Markets, EnsureMarketExists(m) PROVE TypeOK'
    BY <1>1 DEF EnsureMarketExists, TypeOK, View
<1>2. CASE TickBegin
    BY <1>2 DEF TickBegin, TypeOK, Known
<1>3. ASSUME NEW m \in Markets, EvaluateUnchanged(m) PROVE TypeOK'
    BY <1>3 DEF EvaluateUnchanged, TypeOK
<1>4. ASSUME NEW m \in Markets, NEW s \in States, EvaluateAndPersist(m, s)
      PROVE  TypeOK'
    <2>1. NewEvent(m, s) \in Event
        BY DEF NewEvent, Event, TypeOK
    <2> QED
        BY <1>4, <2>1 DEF EvaluateAndPersist, TypeOK
<1>5. ASSUME NEW rows \in SUBSET Event, RestoreLastSeq(rows), TypeOK
      PROVE  lastSeq' \in Nat
    BY <1>5 DEF RestoreLastSeq, RereadLastSeq, Event, TypeOK
<1>6. ASSUME NEW m \in Markets, PersistFails(m) PROVE TypeOK'
    <2>1. RestoreLastSeq(log)
        BY <1>6 DEF PersistFails, RestoreLastSeq
    <2>2. lastSeq' \in Nat
        BY <1>5, <2>1 DEF TypeOK
    <2> QED
        BY <1>6, <2>2 DEF PersistFails, Fault, TypeOK
<1>7. ASSUME NEW m \in Markets, NEW s \in States, PersistUncertain(m, s)
      PROVE  TypeOK'
    <2>1. NewEvent(m, s) \in Event
        BY DEF NewEvent, Event, TypeOK
    <2>2. lastSeq' \in Nat
        BY <1>5, <1>7, <2>1 DEF PersistUncertain, TypeOK
    <2> QED
        BY <1>7, <2>1, <2>2 DEF PersistUncertain, Fault, TypeOK
<1>8. CASE Broadcast
    <2>1. PICK e \in emit :
            /\ chan' = [c \in Replicas |->
                          IF open[c] /\ Len(chan[c]) < Buffer
                          THEN Append(chan[c], e) ELSE chan[c]]
            /\ open' = [c \in Replicas |-> open[c] /\ Len(chan[c]) < Buffer]
            /\ markets' = [markets EXCEPT ![e.market] = e.state]
            /\ tick' = tick \ {e.market}
            /\ emit' = {}
            /\ UNCHANGED <<epoch, log, lastSeq, phase, next, pend, wire, faults>>
        BY <1>8 DEF Broadcast
    <2>2. e \in Event /\ e.market \in Markets /\ e.state \in States
        BY DEF TypeOK, Event
    <2>3. ASSUME NEW c \in Replicas
          PROVE  chan'[c] \in Seq(Event) /\ Len(chan'[c]) <= Buffer
        <3>1. chan[c] \in Seq(Event) /\ Len(chan[c]) <= Buffer
            BY DEF TypeOK
        <3>2. Append(chan[c], e) \in Seq(Event) /\ Len(Append(chan[c], e)) = Len(chan[c]) + 1
            BY <3>1, <2>2, AppendProperties
        <3> QED
            BY <3>1, <3>2, <2>1, LenProperties
    <2>4. chan' \in [Replicas -> Seq(Event)]
        BY <2>1, <2>3
    <2>5. markets' \in View
        BY <2>1, <2>2 DEF TypeOK, View
    <2>6. open' \in [Replicas -> BOOLEAN]
        BY <2>1
    <2> QED
        BY <2>1, <2>3, <2>4, <2>5, <2>6 DEF TypeOK
<1>9. CASE CoreRestart
    <2>1. phase' \in [Replicas -> Phases]
        BY <1>9 DEF CoreRestart, TypeOK, Phases
    <2>2. <<>> \in Seq(Event) /\ Len(<<>>) = 0
        BY EmptySeq
    <2> QED
        BY <1>9, <2>1, <2>2, FreshMarketsType DEF CoreRestart, Fault, TypeOK
<1> QED
    BY <1>1, <1>2, <1>3, <1>4, <1>6, <1>7, <1>8, <1>9 DEF CoreStep

(* One frame written: what the wire and nextSeq are then. *)
LEMMA WriteType ==
    ASSUME TypeOK, NEW c \in Replicas, NEW e \in Event, Write(c, e)
    PROVE  /\ wire' \in [Replicas -> Seq(Event)]
           /\ next' \in [Replicas -> Nat \ {0}]
           /\ \A d \in Replicas : Len(wire'[d]) <= WireCap
<1>1. wire[c] \in Seq(Event) /\ Len(wire[c]) < WireCap /\ WireCap \in Nat
    BY Bounds DEF TypeOK, Write
<1>2. /\ Append(wire[c], e) \in Seq(Event)
      /\ Len(Append(wire[c], e)) = Len(wire[c]) + 1
    BY <1>1, AppendProperties
<1>3. Len(Append(wire[c], e)) <= WireCap
    BY <1>1, <1>2, LenProperties
<1>4. e.seq + 1 \in Nat \ {0}
    BY DEF Event
<1> QED
    BY <1>2, <1>3, <1>4 DEF TypeOK, Write

(* One event received from the channel. *)
LEMMA ReceiveType ==
    ASSUME TypeOK, NEW c \in Replicas, Receives(c)
    PROVE  /\ chan' \in [Replicas -> Seq(Event)]
           /\ \A d \in Replicas : Len(chan'[d]) <= Buffer
           /\ Head(chan[c]) \in Event
<1>1. chan[c] \in Seq(Event) /\ chan[c] # <<>> /\ Len(chan[c]) <= Buffer /\ Buffer \in Nat
    BY Bounds DEF TypeOK, Receives
<1>2. /\ Tail(chan[c]) \in Seq(Event)
      /\ Len(Tail(chan[c])) = Len(chan[c]) - 1
      /\ Head(chan[c]) \in Event
      /\ Len(chan[c]) \in Nat
    BY <1>1, HeadTailProperties, LenProperties
<1>3. Len(Tail(chan[c])) <= Buffer
    BY <1>1, <1>2
<1> QED
    BY <1>2, <1>3 DEF TypeOK, Receives

LEMMA TypeHandler ==
    ASSUME TypeOK, NEW c \in Replicas, HandlerStep(c) PROVE TypeOK'
<1> USE Bounds DEF coreVars
<1>0. <<>> \in Seq(Event) /\ Len(<<>>) = 0
    BY EmptySeq
<1>1. CASE LoadBacklog(c)
    BY <1>1 DEF LoadBacklog, RowsFrom, Phases, TypeOK
<1>2. CASE BacklogFails(c)
    BY <1>2, <1>0 DEF BacklogFails, Unsubscribe, Fault, Phases, TypeOK
<1>3. CASE WritePending(c)
    <2>1. PICK e \in pend[c] : Write(c, e) /\ pend' = [pend EXCEPT ![c] = @ \ {e}]
        BY <1>3 DEF WritePending
    <2>2. e \in Event
        BY DEF TypeOK
    <2> QED
        BY <1>3, <2>1, <2>2, WriteType DEF WritePending, TypeOK
<1>4. CASE SkipOld(c)
    BY <1>4, ReceiveType DEF SkipOld, TypeOK
<1>5. CASE WriteLive(c)
    <2>1. Receives(c) /\ Write(c, Head(chan[c]))
        BY <1>5 DEF WriteLive
    <2> QED
        BY <1>5, <2>1, ReceiveType, WriteType DEF WriteLive, TypeOK
<1>6. CASE GapFill(c)
    <2>1. Receives(c)
        BY <1>6 DEF GapFill
    <2>2. pend' \in [Replicas -> SUBSET Event]
        BY <1>6, <2>1, ReceiveType DEF GapFill, RowsFrom, TypeOK
    <2> QED
        BY <1>6, <2>1, <2>2, ReceiveType DEF GapFill, TypeOK
<1>7. CASE GapFillFails(c)
    BY <1>7, <1>0 DEF GapFillFails, Unsubscribe, Fault, Phases, TypeOK
<1>8. CASE HandlerReturns(c)
    BY <1>8 DEF HandlerReturns, Phases, TypeOK
<1> QED
    BY <1>1, <1>2, <1>3, <1>4, <1>5, <1>6, <1>7, <1>8 DEF HandlerStep

(* A client of any kind, and a step of core and its streams with any such   *)
(* clients, that counts faults within their bound: what the proofs need of   *)
(* Next, and of a specification that has other clients.                     *)
ClientMove(c) ==
    (\E from \in Nat \ {0} : OpenStream(c, from)) \/ Deliver(c) \/ CloseStream(c)

StreamStep ==
    /\ faults' \in 0 .. MaxFaults
    /\ \/ CoreStep
       \/ \E c \in Replicas : HandlerStep(c) \/ ClientMove(c)
       \/ UNCHANGED <<coreVars, streamVars>>

LEMMA TypeClient ==
    ASSUME TypeOK, NEW c \in Replicas, ClientMove(c), faults' \in 0 .. MaxFaults
    PROVE  TypeOK'
<1> USE Bounds DEF coreVars
<1>0. <<>> \in Seq(Event) /\ Len(<<>>) = 0
    BY EmptySeq
<1>1. ASSUME NEW from \in Nat \ {0}, OpenStream(c, from) PROVE TypeOK'
    BY <1>1 DEF OpenStream, Phases, TypeOK
<1>2. CASE Deliver(c)
    <2>1. wire[c] \in Seq(Event) /\ wire[c] # <<>> /\ Len(wire[c]) <= WireCap
        BY <1>2 DEF Deliver, TypeOK
    <2>2. /\ Tail(wire[c]) \in Seq(Event)
          /\ Len(Tail(wire[c])) = Len(wire[c]) - 1
          /\ Len(wire[c]) \in Nat
        BY <2>1, HeadTailProperties, LenProperties
    <2>3. Len(Tail(wire[c])) <= WireCap
        BY <2>1, <2>2
    <2> QED
        BY <1>2, <2>2, <2>3 DEF Deliver, TypeOK
<1>3. CASE CloseStream(c)
    BY <1>3, <1>0 DEF CloseStream, Unsubscribe, Phases, TypeOK
<1> QED
    BY <1>1, <1>2, <1>3 DEF ClientMove

LEMMA TypeStep == TypeOK /\ StreamStep => TypeOK'
<1> SUFFICES ASSUME TypeOK, StreamStep PROVE TypeOK'
    OBVIOUS
<1>1. CASE UNCHANGED <<coreVars, streamVars>>
    BY <1>1 DEF StreamStep, coreVars, streamVars, TypeOK
<1> QED
    BY <1>1, TypeCore, TypeHandler, TypeClient DEF StreamStep

(* The steps of Next are such steps. *)
LEMMA NextIsStreamStep == TypeOK /\ [Next]_csVars => StreamStep
<1> SUFFICES ASSUME TypeOK, [Next]_csVars PROVE StreamStep
    OBVIOUS
<1>1. CASE UNCHANGED csVars
    BY <1>1 DEF csVars, StreamStep, TypeOK
<1>2. ASSUME NEW c \in Replicas, ClientStep(c) PROVE StreamStep
    <2>1. ClientMove(c) /\ UNCHANGED faults
        BY <1>2, Bounds DEF ClientStep, ClientMove, OpenStream
    <2> QED
        BY <2>1 DEF StreamStep, TypeOK
<1>3. CASE CoreStep
    BY <1>3, TypeCore DEF StreamStep, TypeOK
<1>4. ASSUME NEW c \in Replicas, HandlerStep(c) PROVE StreamStep
    BY <1>4, TypeHandler DEF StreamStep, TypeOK
<1> QED
    BY <1>1, <1>2, <1>3, <1>4 DEF Next

LEMMA TypeNext == TypeOK /\ [Next]_csVars => TypeOK'
BY NextIsStreamStep, TypeStep

(* Every reachable state of core and its streams is well typed, and no      *)
(* channel or wire ever holds more than its capacity.                       *)
THEOREM TypeCorrect == Spec => []TypeOK
BY TypeInit, TypeNext, PTL DEF Spec

-----------------------------------------------------------------------------
(* The inductive invariant.  LogGapFree alone is not inductive: that the    *)
(* event under way is the last row, and the only one, is what lets a        *)
(* broadcast update the map.  FramesGapFree is not either: the backlog has  *)
(* to be without holes from nextSeq on, and what is in a channel has to be  *)
(* in the table for a gap fill to reach it.                                 *)

LogInv ==
    /\ LogGapFree
    /\ \A e \in log : e.epoch = epoch
    /\ \A e \in emit :
          /\ e \in log /\ e.seq = lastSeq
          /\ NumberedTo(log, lastSeq)
          /\ \A f \in emit : f = e

(* The rows that are read and not yet written: a run that starts at nextSeq. *)
BacklogInv(c) ==
    /\ pend[c] \subseteq log
    /\ phase[c] # "sending" => pend[c] = {}
    /\ \A e \in pend[c] :
          /\ e.seq >= next[c]
          /\ \A n \in next[c] .. e.seq : HasRow(pend[c], n)

ChannelInv(c) == \A i \in 1 .. Len(chan[c]) : chan[c][i] \in log

(* The frames that are written and not yet read: a run that ends at         *)
(* nextSeq - 1, of the present life of core while the handler is there.     *)
WireInv(c) ==
    /\ phase[c] \in {"none", "subscribed"} => wire[c] = <<>>
    /\ \A i \in 1 .. Len(wire[c]) :
          /\ wire[c][i].seq = next[c] - Len(wire[c]) + i - 1
          /\ wire[c][i].epoch = wire[c][1].epoch
          /\ wire[c][i].epoch <= epoch
          /\ wire[c][i].epoch = epoch => wire[c][i] \in log
          /\ phase[c] = "sending" => wire[c][i].epoch = epoch

StreamInv == \A c \in Replicas : BacklogInv(c) /\ ChannelInv(c) /\ WireInv(c)

-----------------------------------------------------------------------------
(* The log.                                                                 *)

(* Appending the next number keeps the rows numbered. *)
LEMMA NumberedExtend ==
    ASSUME NEW rows \in SUBSET Event, NEW n \in Nat, NumberedTo(rows, n),
           NEW e \in Event, e.seq = n + 1
    PROVE  NumberedTo(rows \cup {e}, n + 1) /\ e \notin rows
BY DEF NumberedTo, HasRow, Event

(* MAX(seq) of numbered rows is their number. *)
LEMMA NumberedLast ==
    ASSUME NEW rows \in SUBSET Event, NEW n \in Nat, NumberedTo(rows, n),
           NEW k \in Nat, IsLastSeq(rows, k)
    PROVE  k = n
<1>1. CASE rows = {} /\ k = 0
    BY <1>1 DEF NumberedTo, HasRow
<1>2. CASE (\E e \in rows : e.seq = k) /\ (\A e \in rows : e.seq <= k)
    <2>1. k \in 1 .. n
        BY <1>2 DEF NumberedTo
    <2>2. PICK f \in rows : f.seq = n
        BY <2>1 DEF NumberedTo, HasRow
    <2> QED
        BY <1>2, <2>1, <2>2
<1> QED
    BY <1>1, <1>2 DEF IsLastSeq

(* Whatever a failed insert did to the table, rolling lastSeq back and      *)
(* reading it again leaves the table numbered to lastSeq or one more.       *)
LEMMA RestoreNumbered ==
    ASSUME NEW rows \in SUBSET Event, lastSeq \in Nat, RestoreLastSeq(rows),
           NumberedTo(rows, lastSeq) \/ NumberedTo(rows, lastSeq + 1)
    PROVE  NumberedTo(rows, lastSeq') \/ NumberedTo(rows, lastSeq' + 1)
<1>1. CASE lastSeq' = lastSeq
    BY <1>1
<1>2. ASSUME NEW n \in {0} \cup {e.seq : e \in rows}, IsLastSeq(rows, n), lastSeq' = n
      PROVE  NumberedTo(rows, lastSeq')
    <2>1. n \in Nat
        BY DEF Event
    <2> QED
        BY <1>2, <2>1, NumberedLast
<1> QED
    BY <1>1, <1>2 DEF RestoreLastSeq, RereadLastSeq

LEMMA LogInit == Init => LogInv
BY DEF Init, LogInv, LogGapFree, NumberedTo, HasRow

(* What EvaluateAndPersist and PersistUncertain insert. *)
LEMMA NextRow ==
    ASSUME TypeOK, LogInv, ~HasRow(log, lastSeq + 1), NEW m \in Markets, NEW s \in States
    PROVE  /\ NewEvent(m, s) \in Event
           /\ NewEvent(m, s) \notin log
           /\ NumberedTo(log, lastSeq)
           /\ NumberedTo(log \cup {NewEvent(m, s)}, lastSeq + 1)
           /\ NewEvent(m, s).epoch = epoch /\ NewEvent(m, s).seq = lastSeq + 1
           /\ NewEvent(m, s).market = m /\ NewEvent(m, s).state = s
<1>1. /\ NewEvent(m, s) \in Event /\ lastSeq \in Nat /\ log \in SUBSET Event
      /\ NewEvent(m, s).epoch = epoch /\ NewEvent(m, s).seq = lastSeq + 1
      /\ NewEvent(m, s).market = m /\ NewEvent(m, s).state = s
    BY DEF NewEvent, Event, TypeOK
<1>2. NumberedTo(log, lastSeq)
    BY <1>1 DEF LogInv, LogGapFree, NumberedTo
<1> QED
    BY <1>1, <1>2, NumberedExtend

LEMMA LogCore ==
    ASSUME TypeOK, LogInv, CoreStep PROVE LogInv'
<1>1. ASSUME NEW m \in Markets, EnsureMarketExists(m) PROVE LogInv'
    BY <1>1 DEF EnsureMarketExists, LogInv, LogGapFree
<1>2. CASE TickBegin
    BY <1>2 DEF TickBegin, LogInv, LogGapFree
<1>3. ASSUME NEW m \in Markets, EvaluateUnchanged(m) PROVE LogInv'
    BY <1>3 DEF EvaluateUnchanged, LogInv, LogGapFree
<1>4. ASSUME NEW m \in Markets, NEW s \in States, EvaluateAndPersist(m, s)
      PROVE  LogInv'
    <2>1. /\ NumberedTo(log \cup {NewEvent(m, s)}, lastSeq + 1)
          /\ NewEvent(m, s).epoch = epoch /\ NewEvent(m, s).seq = lastSeq + 1
        BY <1>4, NextRow DEF EvaluateAndPersist
    <2> QED
        BY <1>4, <2>1 DEF EvaluateAndPersist, LogInv, LogGapFree
<1>5. ASSUME NEW m \in Markets, PersistFails(m) PROVE LogInv'
    <2>1. log \in SUBSET Event /\ lastSeq \in Nat
        BY DEF TypeOK
    <2>2. RestoreLastSeq(log) /\ log' = log
        BY <1>5 DEF PersistFails, RestoreLastSeq
    <2>3. LogGapFree'
        BY <2>1, <2>2, RestoreNumbered DEF LogInv, LogGapFree
    <2> QED
        BY <1>5, <2>3 DEF PersistFails, LogInv
<1>6. ASSUME NEW m \in Markets, NEW s \in States, PersistUncertain(m, s)
      PROVE  LogInv'
    <2> DEFINE rows == log \cup {NewEvent(m, s)}
    <2>1. NumberedTo(rows, lastSeq + 1) /\ NewEvent(m, s).epoch = epoch
        BY <1>6, NextRow DEF PersistUncertain
    <2>2. rows \in SUBSET Event /\ lastSeq \in Nat
        BY <1>6, NextRow DEF PersistUncertain, TypeOK
    <2>3. log' = rows /\ RestoreLastSeq(rows) /\ epoch' = epoch /\ emit' = {}
        BY <1>6 DEF PersistUncertain
    <2>4. LogGapFree'
        BY <2>1, <2>2, <2>3, RestoreNumbered DEF LogGapFree
    <2> QED
        BY <2>1, <2>3, <2>4 DEF LogInv
<1>7. CASE Broadcast
    BY <1>7 DEF Broadcast, LogInv, LogGapFree
<1>8. CASE CoreRestart
    BY <1>8 DEF CoreRestart, LogInv, LogGapFree, NumberedTo, HasRow
<1> QED
    BY <1>1, <1>2, <1>3, <1>4, <1>5, <1>6, <1>7, <1>8 DEF CoreStep

(* The handlers and the clients change nothing of core. *)
LEMMA StreamsLeaveCore ==
    ASSUME NEW c \in Replicas, HandlerStep(c) \/ ClientMove(c)
    PROVE  UNCHANGED coreVars
BY DEF HandlerStep, ClientMove, LoadBacklog, BacklogFails, WritePending, SkipOld,
       WriteLive, GapFill, GapFillFails, HandlerReturns, OpenStream, Deliver,
       CloseStream

LEMMA LogStep == TypeOK /\ LogInv /\ StreamStep => LogInv'
<1> SUFFICES ASSUME TypeOK, LogInv, StreamStep PROVE LogInv'
    OBVIOUS
<1>1. ASSUME UNCHANGED coreVars PROVE LogInv'
    BY <1>1 DEF coreVars, LogInv, LogGapFree
<1> QED
    BY <1>1, LogCore, StreamsLeaveCore DEF StreamStep

(* The table is numbered without a gap whatever insert fails, and however,  *)
(* and through restarts of core: the seq that a failed insert gives back is *)
(* used again only when its row is not there.                               *)
THEOREM LogAlwaysGapFree == Spec => []LogGapFree
<1>1. Init => TypeOK /\ LogInv
    BY TypeInit, LogInit
<1>2. TypeOK /\ LogInv /\ [Next]_csVars => (TypeOK /\ LogInv)'
    BY NextIsStreamStep, TypeStep, LogStep
<1>3. LogInv => LogGapFree
    BY DEF LogInv
<1> QED
    BY <1>1, <1>2, <1>3, PTL DEF Spec

-----------------------------------------------------------------------------
(* The streams.                                                             *)

LEMMA StreamInit == Init => StreamInv
<1> SUFFICES ASSUME Init, NEW c \in Replicas
             PROVE  BacklogInv(c) /\ ChannelInv(c) /\ WireInv(c)
    BY DEF StreamInv
<1>1. pend[c] = {} /\ chan[c] = <<>> /\ wire[c] = <<>>
    BY DEF Init
<1> QED
    BY <1>1, EmptySeq DEF BacklogInv, ChannelInv, WireInv

(* A step of one stream disturbs the invariant of that stream only. *)
LEMMA OtherStreams ==
    ASSUME StreamInv, UNCHANGED coreVars, NEW c \in Replicas,
           \A d \in Replicas \ {c} : /\ phase'[d] = phase[d] /\ next'[d] = next[d]
                                     /\ pend'[d] = pend[d] /\ chan'[d] = chan[d]
                                     /\ wire'[d] = wire[d],
           BacklogInv(c)', ChannelInv(c)', WireInv(c)'
    PROVE  StreamInv'
<1> SUFFICES ASSUME NEW d \in Replicas, d # c
             PROVE  BacklogInv(d)' /\ ChannelInv(d)' /\ WireInv(d)'
    BY DEF StreamInv
<1> QED
    BY DEF StreamInv, coreVars, BacklogInv, ChannelInv, WireInv

(* Steps of core: the table grows, or begins anew and every stream ends. *)
LEMMA StreamCore ==
    ASSUME TypeOK, LogInv, StreamInv, CoreStep PROVE StreamInv'
<1>1. ASSUME log \subseteq log', epoch' = epoch, UNCHANGED streamVars
      PROVE  StreamInv'
    BY <1>1 DEF streamVars, StreamInv, BacklogInv, ChannelInv, WireInv
<1>2. ASSUME NEW m \in Markets, EnsureMarketExists(m) PROVE StreamInv'
    BY <1>1, <1>2 DEF EnsureMarketExists
<1>3. CASE TickBegin
    BY <1>1, <1>3 DEF TickBegin
<1>4. ASSUME NEW m \in Markets, EvaluateUnchanged(m) PROVE StreamInv'
    BY <1>1, <1>4 DEF EvaluateUnchanged
<1>5. ASSUME NEW m \in Markets, NEW s \in States, EvaluateAndPersist(m, s)
      PROVE  StreamInv'
    BY <1>1, <1>5 DEF EvaluateAndPersist
<1>6. ASSUME NEW m \in Markets, PersistFails(m) PROVE StreamInv'
    BY <1>1, <1>6 DEF PersistFails
<1>7. ASSUME NEW m \in Markets, NEW s \in States, PersistUncertain(m, s)
      PROVE  StreamInv'
    BY <1>1, <1>7 DEF PersistUncertain
<1>8. CASE Broadcast
    <2>1. PICK e \in emit :
            /\ chan' = [c \in Replicas |->
                          IF open[c] /\ Len(chan[c]) < Buffer
                          THEN Append(chan[c], e) ELSE chan[c]]
            /\ UNCHANGED <<epoch, log, phase, next, pend, wire>>
        BY <1>8 DEF Broadcast
    <2>2. e \in log
        BY DEF LogInv
    <2>3. ASSUME NEW c \in Replicas PROVE ChannelInv(c)'
        <3>1. chan[c] \in Seq(Event) /\ e \in Event
            BY <2>2 DEF TypeOK
        <3>2. \A i \in 1 .. Len(Append(chan[c], e)) : Append(chan[c], e)[i] \in log
            BY <2>2, <3>1, AppendProperties, LenProperties DEF StreamInv, ChannelInv
        <3> QED
            BY <2>1, <3>2 DEF StreamInv, ChannelInv
    <2> QED
        BY <2>1, <2>3 DEF StreamInv, BacklogInv, WireInv
<1>9. CASE CoreRestart
    <2> SUFFICES ASSUME NEW c \in Replicas
                 PROVE  BacklogInv(c)' /\ ChannelInv(c)' /\ WireInv(c)'
        BY DEF StreamInv
    <2>1. /\ pend'[c] = {} /\ chan'[c] = <<>> /\ wire' = wire /\ next' = next
          /\ epoch' = epoch + 1 /\ epoch \in Nat
          /\ phase'[c] # "sending"
          /\ phase'[c] \in {"none", "subscribed"} => phase[c] = "none"
        BY <1>9 DEF CoreRestart, TypeOK, Phases
    <2>2. \A i \in 1 .. Len(wire[c]) : wire[c][i] \in Event
        BY LenProperties, ElementOfSeq DEF TypeOK
    <2>3. \A i \in 1 .. Len(wire[c]) : wire[c][i].epoch \in Nat
        BY <2>2 DEF Event
    <2> QED
        BY <2>1, <2>3, EmptySeq DEF StreamInv, BacklogInv, ChannelInv, WireInv
<1> QED
    BY <1>2, <1>3, <1>4, <1>5, <1>6, <1>7, <1>8, <1>9 DEF CoreStep

(* Writing the row nextSeq keeps the frames a run of this life of core. *)
LEMMA WriteNext ==
    ASSUME TypeOK, StreamInv, UNCHANGED coreVars, NEW c \in Replicas,
           phase[c] = "sending", phase' = phase,
           NEW e \in log, e.epoch = epoch, e.seq = next[c], Write(c, e)
    PROVE  WireInv(c)' /\ next'[c] = next[c] + 1
<1>1. /\ wire[c] \in Seq(Event) /\ e \in Event /\ epoch \in Nat /\ next[c] \in Nat
      /\ Len(wire[c]) \in Nat
    BY LenProperties DEF TypeOK
<1>2. wire'[c] = Append(wire[c], e) /\ next'[c] = next[c] + 1
    BY <1>1 DEF Write, TypeOK
<1>3. /\ Len(wire'[c]) = Len(wire[c]) + 1
      /\ \A i \in 1 .. Len(wire[c]) : wire'[c][i] = wire[c][i]
      /\ wire'[c][Len(wire[c]) + 1] = e
    BY <1>1, <1>2, AppendProperties
<1>4. ASSUME NEW i \in 1 .. Len(wire'[c])
      PROVE  /\ wire'[c][i].seq = next'[c] - Len(wire'[c]) + i - 1
             /\ wire'[c][i].epoch = epoch
             /\ wire'[c][i] \in log
    <2>1. CASE i = Len(wire[c]) + 1
        BY <1>1, <1>2, <1>3, <2>1
    <2>2. CASE i \in 1 .. Len(wire[c])
        BY <1>1, <1>2, <1>3, <2>2 DEF StreamInv, WireInv
    <2> QED
        BY <1>1, <1>3, <2>1, <2>2
<1>5. \A i \in 1 .. Len(wire'[c]) : wire'[c][i].epoch = wire'[c][1].epoch
    BY <1>1, <1>3, <1>4
<1> QED
    BY <1>1, <1>2, <1>4, <1>5 DEF WireInv, coreVars

(* Receiving drops the head of the channel. *)
LEMMA ReceiveChannel ==
    ASSUME TypeOK, StreamInv, UNCHANGED coreVars, NEW c \in Replicas, Receives(c)
    PROVE  /\ ChannelInv(c)'
           /\ Head(chan[c]) \in log
           /\ Len(chan'[c]) = Len(chan[c]) - 1
           /\ \A i \in 1 .. Len(chan'[c]) : chan'[c][i] = chan[c][i + 1]
<1>1. chan[c] \in Seq(Event) /\ chan[c] # <<>> /\ chan'[c] = Tail(chan[c])
    BY DEF TypeOK, Receives
<1>2. /\ Len(chan[c]) \in Nat \ {0}
      /\ Head(chan[c]) = chan[c][1]
      /\ Len(Tail(chan[c])) = Len(chan[c]) - 1
      /\ \A i \in 1 .. Len(Tail(chan[c])) : Tail(chan[c])[i] = chan[c][i + 1]
    BY <1>1, HeadTailProperties, LenProperties, EmptySeq
<1> QED
    BY <1>1, <1>2 DEF StreamInv, ChannelInv, coreVars

LEMMA StreamHandler ==
    ASSUME TypeOK, LogInv, StreamInv, NEW c \in Replicas, HandlerStep(c)
    PROVE  StreamInv'
<1>0. UNCHANGED coreVars /\ log' = log /\ epoch' = epoch
    BY StreamsLeaveCore DEF coreVars
<1>1. CASE LoadBacklog(c)
    <2>1. /\ phase[c] = "subscribed" /\ phase'[c] = "sending"
          /\ pend'[c] = RowsFrom(log, next[c])
          /\ next' = next /\ chan' = chan /\ wire' = wire
        BY <1>1 DEF LoadBacklog, TypeOK
    <2>2. wire[c] = <<>> /\ Len(wire[c]) = 0
        BY <2>1, EmptySeq DEF StreamInv, WireInv
    <2>3. BacklogInv(c)'
        <3>1. ASSUME NEW e \in log, e.seq >= next[c], NEW n \in next[c] .. e.seq
              PROVE  HasRow(RowsFrom(log, next[c]), n)
            <4>1. next[c] \in Nat \ {0} /\ e.seq \in Nat /\ lastSeq \in Nat
                BY DEF TypeOK, Event
            <4>2. HasRow(log, n)
                BY <3>1, <4>1 DEF LogInv, LogGapFree, NumberedTo
            <4> QED
                BY <3>1, <4>1, <4>2 DEF HasRow, RowsFrom
        <3> QED
            BY <1>0, <2>1, <3>1 DEF BacklogInv, RowsFrom
    <2>4. ChannelInv(c)' /\ WireInv(c)'
        BY <1>0, <2>1, <2>2 DEF StreamInv, ChannelInv, WireInv
    <2> QED
        BY <1>0, <1>1, <2>3, <2>4, OtherStreams DEF LoadBacklog, TypeOK
<1>2. ASSUME /\ phase'[c] \in {"closed", "refused"} /\ pend' = pend
             /\ pend[c] = {} /\ next' = next /\ wire' = wire /\ chan'[c] = <<>>,
             \A d \in Replicas \ {c} : phase'[d] = phase[d] /\ chan'[d] = chan[d]
      PROVE  StreamInv'
    <2>1. BacklogInv(c)' /\ ChannelInv(c)' /\ WireInv(c)'
        BY <1>0, <1>2, EmptySeq DEF StreamInv, BacklogInv, ChannelInv, WireInv
    <2> QED
        BY <1>0, <1>2, <2>1, OtherStreams
<1>3. CASE BacklogFails(c)
    <2>1. pend[c] = {}
        BY <1>3 DEF BacklogFails, StreamInv, BacklogInv
    <2> QED
        BY <1>2, <1>3, <2>1 DEF BacklogFails, Unsubscribe, TypeOK
<1>4. CASE WritePending(c)
    <2>1. PICK e \in pend[c] :
            /\ IsFirst(e, pend[c]) /\ Write(c, e)
            /\ pend' = [pend EXCEPT ![c] = @ \ {e}]
        BY <1>4 DEF WritePending
    <2>2. phase[c] = "sending" /\ phase' = phase /\ chan' = chan
        BY <1>4 DEF WritePending
    <2>3. e \in log /\ e \in Event /\ e.epoch = epoch /\ next[c] \in Nat \ {0}
        BY DEF StreamInv, BacklogInv, TypeOK, LogInv
    <2>4. e.seq = next[c]
        <3>1. e.seq \in Nat /\ e.seq >= next[c] /\ HasRow(pend[c], next[c])
            BY <2>3 DEF StreamInv, BacklogInv, Event
        <3>2. e.seq <= next[c]
            BY <2>1, <3>1 DEF IsFirst, HasRow
        <3> QED
            BY <2>3, <3>1, <3>2
    <2>5. WireInv(c)' /\ next'[c] = next[c] + 1
        BY <1>0, <2>1, <2>2, <2>3, <2>4, WriteNext
    <2>6. BacklogInv(c)'
        <3>1. pend'[c] = pend[c] \ {e}
            BY <2>1 DEF TypeOK
        <3>2. ASSUME NEW f \in pend[c], f # e
              PROVE  /\ f.seq >= next[c] + 1
                     /\ \A n \in next[c] + 1 .. f.seq : HasRow(pend[c] \ {e}, n)
            <4>1. f \in log /\ f \in Event /\ f.seq \in Nat /\ f.seq >= next[c]
                BY DEF StreamInv, BacklogInv, TypeOK, Event
            <4>2. f.seq # e.seq
                BY <2>3, <3>2, <4>1 DEF LogInv, LogGapFree, NumberedTo
            <4>3. \A n \in next[c] .. f.seq : HasRow(pend[c], n)
                BY DEF StreamInv, BacklogInv
            <4> QED
                BY <2>3, <2>4, <4>1, <4>2, <4>3 DEF HasRow
        <3> QED
            BY <1>0, <2>2, <2>5, <3>1, <3>2 DEF StreamInv, BacklogInv
    <2>7. ChannelInv(c)'
        BY <1>0, <2>2 DEF StreamInv, ChannelInv
    <2> QED
        BY <1>0, <2>1, <2>2, <2>5, <2>6, <2>7, OtherStreams DEF Write, TypeOK
<1>5. CASE SkipOld(c)
    <2>1. /\ Receives(c) /\ phase' = phase /\ next' = next /\ pend' = pend /\ wire' = wire
        BY <1>5 DEF SkipOld
    <2>2. BacklogInv(c)' /\ ChannelInv(c)' /\ WireInv(c)'
        BY <1>0, <2>1, ReceiveChannel DEF StreamInv, BacklogInv, WireInv
    <2> QED
        BY <1>0, <2>1, <2>2, OtherStreams DEF Receives, TypeOK
<1>6. CASE WriteLive(c)
    <2>1. /\ Receives(c) /\ Write(c, Head(chan[c])) /\ Head(chan[c]).seq = next[c]
          /\ phase' = phase /\ pend' = pend
        BY <1>6 DEF WriteLive
    <2>2. Head(chan[c]) \in log /\ ChannelInv(c)' /\ Head(chan[c]).epoch = epoch
        BY <1>0, <2>1, ReceiveChannel DEF LogInv
    <2>3. phase[c] = "sending" /\ pend[c] = {}
        BY <2>1 DEF Receives
    <2>4. WireInv(c)'
        BY <1>0, <2>1, <2>2, <2>3, WriteNext
    <2>5. BacklogInv(c)'
        BY <1>0, <2>1, <2>3 DEF BacklogInv
    <2> QED
        BY <1>0, <2>1, <2>2, <2>4, <2>5, OtherStreams DEF Receives, Write, TypeOK
<1>7. CASE GapFill(c)
    <2> DEFINE evt == Head(chan[c])
    <2>1. /\ Receives(c) /\ evt.seq > next[c]
          /\ pend'[c] = RowsFrom(log, next[c])
                          \cup {e \in {evt} : \A f \in RowsFrom(log, next[c]) : f.seq < e.seq}
          /\ \A d \in Replicas \ {c} : pend'[d] = pend[d]
          /\ phase' = phase /\ next' = next /\ wire' = wire
        BY <1>7 DEF GapFill, TypeOK
    <2>2. evt \in log /\ ChannelInv(c)'
        BY <1>0, <2>1, ReceiveChannel
    <2>3. next[c] \in Nat \ {0} /\ evt.seq \in Nat /\ lastSeq \in Nat
        BY <2>2 DEF TypeOK, Event
    <2>4. pend'[c] = RowsFrom(log, next[c])
        BY <2>1, <2>2, <2>3 DEF RowsFrom
    <2>5. phase[c] = "sending"
        BY <2>1 DEF Receives
    <2>6. BacklogInv(c)'
        <3>1. ASSUME NEW e \in log, e.seq >= next[c], NEW n \in next[c] .. e.seq
              PROVE  HasRow(RowsFrom(log, next[c]), n)
            <4>1. e.seq \in Nat
                BY DEF TypeOK, Event
            <4>2. HasRow(log, n)
                BY <3>1, <2>3, <4>1 DEF LogInv, LogGapFree, NumberedTo
            <4> QED
                BY <3>1, <2>3, <4>2 DEF HasRow, RowsFrom
        <3> QED
            BY <1>0, <2>1, <2>4, <2>5, <3>1 DEF BacklogInv, RowsFrom
    <2>7. WireInv(c)'
        BY <1>0, <2>1 DEF StreamInv, WireInv
    <2> QED
        BY <1>0, <2>1, <2>2, <2>6, <2>7, OtherStreams DEF Receives, TypeOK
<1>8. CASE GapFillFails(c)
    BY <1>2, <1>8 DEF GapFillFails, Unsubscribe, TypeOK
<1>9. CASE HandlerReturns(c)
    BY <1>2, <1>9 DEF HandlerReturns, TypeOK
<1> QED
    BY <1>1, <1>3, <1>4, <1>5, <1>6, <1>7, <1>8, <1>9 DEF HandlerStep

LEMMA StreamClient ==
    ASSUME TypeOK, LogInv, StreamInv, NEW c \in Replicas, ClientMove(c)
    PROVE  StreamInv'
<1>0. UNCHANGED coreVars /\ log' = log /\ epoch' = epoch
    BY StreamsLeaveCore DEF coreVars
<1>1. ASSUME NEW from \in Nat \ {0}, OpenStream(c, from) PROVE StreamInv'
    <2>1. /\ phase[c] = "none" /\ phase'[c] = "subscribed"
          /\ pend' = pend /\ chan' = chan /\ wire' = wire
          /\ \A d \in Replicas \ {c} : phase'[d] = phase[d] /\ next'[d] = next[d]
        BY <1>1 DEF OpenStream, TypeOK
    <2>2. pend[c] = {} /\ wire[c] = <<>> /\ Len(wire[c]) = 0
        BY <2>1, EmptySeq DEF StreamInv, BacklogInv, WireInv
    <2>3. BacklogInv(c)' /\ ChannelInv(c)' /\ WireInv(c)'
        BY <1>0, <2>1, <2>2 DEF StreamInv, BacklogInv, ChannelInv, WireInv
    <2> QED
        BY <1>0, <2>1, <2>3, OtherStreams
<1>2. CASE Deliver(c)
    <2>1. /\ wire[c] # <<>> /\ wire' = [wire EXCEPT ![c] = Tail(@)]
          /\ phase' = phase /\ next' = next /\ pend' = pend /\ chan' = chan
        BY <1>2 DEF Deliver
    <2>2. wire[c] \in Seq(Event) /\ wire'[c] = Tail(wire[c]) /\ next[c] \in Nat
        BY <2>1 DEF TypeOK
    <2>3. /\ Len(wire[c]) \in Nat \ {0}
          /\ Len(wire'[c]) = Len(wire[c]) - 1
          /\ \A i \in 1 .. Len(wire'[c]) : wire'[c][i] = wire[c][i + 1]
        BY <2>1, <2>2, HeadTailProperties, LenProperties, EmptySeq
    <2>4. ASSUME NEW i \in 1 .. Len(wire'[c])
          PROVE  /\ wire'[c][i] = wire[c][i + 1]
                 /\ i + 1 \in 1 .. Len(wire[c])
                 /\ wire'[c][1] = wire[c][2]
                 /\ 2 \in 1 .. Len(wire[c])
        BY <2>3
    <2>5. WireInv(c)'
        <3>1. phase[c] \notin {"none", "subscribed"}
            BY <2>1 DEF StreamInv, WireInv
        <3>2. ASSUME NEW i \in 1 .. Len(wire'[c])
              PROVE  /\ wire'[c][i].seq = next[c] - Len(wire'[c]) + i - 1
                     /\ wire'[c][i].epoch = wire'[c][1].epoch
                     /\ wire'[c][i].epoch <= epoch
                     /\ wire'[c][i].epoch = epoch => wire'[c][i] \in log
                     /\ phase[c] = "sending" => wire'[c][i].epoch = epoch
            <4>1. wire[c][i + 1].seq = next[c] - Len(wire[c]) + (i + 1) - 1
                BY <2>4 DEF StreamInv, WireInv
            <4>2. wire'[c][i].seq = next[c] - Len(wire'[c]) + i - 1
                BY <2>2, <2>3, <2>4, <4>1
            <4>3. /\ wire[c][i + 1].epoch = wire[c][1].epoch
                  /\ wire[c][2].epoch = wire[c][1].epoch
                  /\ wire[c][i + 1].epoch <= epoch
                  /\ wire[c][i + 1].epoch = epoch => wire[c][i + 1] \in log
                  /\ phase[c] = "sending" => wire[c][i + 1].epoch = epoch
                BY <2>4 DEF StreamInv, WireInv
            <4> QED
                BY <2>4, <4>2, <4>3
        <3> QED
            BY <1>0, <2>1, <3>1, <3>2 DEF WireInv
    <2>6. BacklogInv(c)' /\ ChannelInv(c)'
        BY <1>0, <2>1 DEF StreamInv, BacklogInv, ChannelInv
    <2> QED
        BY <1>0, <2>1, <2>5, <2>6, OtherStreams DEF TypeOK
<1>3. CASE CloseStream(c)
    <2>1. /\ phase'[c] = "none" /\ pend'[c] = {} /\ wire'[c] = <<>> /\ chan'[c] = <<>>
          /\ \A d \in Replicas \ {c} : /\ phase'[d] = phase[d] /\ next'[d] = next[d]
                                       /\ pend'[d] = pend[d] /\ chan'[d] = chan[d]
                                       /\ wire'[d] = wire[d]
        BY <1>3 DEF CloseStream, Unsubscribe, TypeOK
    <2>2. BacklogInv(c)' /\ ChannelInv(c)' /\ WireInv(c)'
        BY <1>0, <2>1, EmptySeq DEF BacklogInv, ChannelInv, WireInv
    <2> QED
        BY <1>0, <2>1, <2>2, OtherStreams
<1> QED
    BY <1>1, <1>2, <1>3 DEF ClientMove

LEMMA StreamNext ==
    TypeOK /\ LogInv /\ StreamInv /\ StreamStep => StreamInv'
<1> SUFFICES ASSUME TypeOK, LogInv, StreamInv, StreamStep PROVE StreamInv'
    OBVIOUS
<1>1. CASE UNCHANGED <<coreVars, streamVars>>
    BY <1>1 DEF coreVars, streamVars, StreamInv, BacklogInv, ChannelInv, WireInv
<1> QED
    BY <1>1, StreamCore, StreamHandler, StreamClient DEF StreamStep

LEMMA InvInductive ==
    /\ Init => TypeOK /\ LogInv /\ StreamInv
    /\ TypeOK /\ LogInv /\ StreamInv /\ [Next]_csVars => (TypeOK /\ LogInv /\ StreamInv)'
BY TypeInit, LogInit, StreamInit, NextIsStreamStep, TypeStep, LogStep, StreamNext

(* The frames of every stream are a gap-free, duplicate-free run of events, *)
(* for any number of clients and markets and any capacity of channel and    *)
(* wire, also when a slow client is evicted from the hub, when a gap is     *)
(* filled from the table, and when core restarts behind the frames.         *)
THEOREM StreamsGapFree == Spec => []FramesGapFree
<1>1. StreamInv => FramesGapFree
    BY DEF StreamInv, WireInv, FramesGapFree
<1> QED
    BY InvInductive, <1>1, PTL DEF Spec

(* Persist before broadcast, as every reader sees it: nothing is in a       *)
(* channel, a backlog or a frame of this life of core that is not a row.    *)
THEOREM DurableBeforeShown == Spec => []ShownIsDurable
<1>1. StreamInv => ShownIsDurable
    BY DEF StreamInv, BacklogInv, ChannelInv, WireInv, ShownIsDurable
<1> QED
    BY InvInductive, <1>1, PTL DEF Spec

-----------------------------------------------------------------------------
(* No event is missed.                                                      *)

(* NoEventMissed for one client, under the condition it holds on. *)
Covered(c) ==
    phase[c] = "sending" /\ open[c] =>
        \A e \in RowsFrom(log, next[c]) :
            \/ e \in pend[c] \cup emit
            \/ \E i \in 1 .. Len(chan[c]) : chan[c][i] = e

AllCovered == \A c \in Replicas : Covered(c)

LEMMA CoveredInit == Init => AllCovered
BY DEF Init, AllCovered, Covered

LEMMA CoveredCore ==
    ASSUME TypeOK, LogInv, AllCovered, "insertUncertain" \notin FaultKinds, CoreStep
    PROVE  AllCovered'
<1>1. ASSUME log' = log, emit' = emit, UNCHANGED streamVars PROVE AllCovered'
    BY <1>1 DEF streamVars, AllCovered, Covered
<1>2. ASSUME NEW m \in Markets, EnsureMarketExists(m) PROVE AllCovered'
    BY <1>1, <1>2 DEF EnsureMarketExists
<1>3. CASE TickBegin
    BY <1>1, <1>3 DEF TickBegin
<1>4. ASSUME NEW m \in Markets, EvaluateUnchanged(m) PROVE AllCovered'
    BY <1>1, <1>4 DEF EvaluateUnchanged
<1>5. ASSUME NEW m \in Markets, NEW s \in States, EvaluateAndPersist(m, s)
      PROVE  AllCovered'
    BY <1>5 DEF EvaluateAndPersist, streamVars, AllCovered, Covered, RowsFrom
<1>6. ASSUME NEW m \in Markets, PersistFails(m) PROVE AllCovered'
    BY <1>1, <1>6 DEF PersistFails
<1>7. ASSUME NEW m \in Markets, NEW s \in States, PersistUncertain(m, s)
      PROVE  AllCovered'
    BY <1>7 DEF PersistUncertain, Fault
<1>8. CASE Broadcast
    <2>1. PICK e \in emit :
            /\ chan' = [c \in Replicas |->
                          IF open[c] /\ Len(chan[c]) < Buffer
                          THEN Append(chan[c], e) ELSE chan[c]]
            /\ open' = [c \in Replicas |-> open[c] /\ Len(chan[c]) < Buffer]
            /\ emit' = {}
            /\ UNCHANGED <<log, phase, next, pend>>
        BY <1>8 DEF Broadcast
    <2>2. \A f \in emit : f = e
        BY DEF LogInv
    <2> SUFFICES ASSUME NEW c \in Replicas, phase'[c] = "sending", open'[c],
                        NEW f \in RowsFrom(log, next[c])
                 PROVE  \/ f \in pend[c]
                        \/ \E i \in 1 .. Len(chan'[c]) : chan'[c][i] = f
        BY <2>1 DEF AllCovered, Covered
    <2>3. open[c] /\ chan'[c] = Append(chan[c], e)
        BY <2>1
    <2>4. chan[c] \in Seq(Event) /\ e \in Event
        BY DEF TypeOK
    <2>5. /\ Len(chan[c]) \in Nat
          /\ Len(chan'[c]) = Len(chan[c]) + 1
          /\ \A i \in 1 .. Len(chan[c]) : chan'[c][i] = chan[c][i]
          /\ chan'[c][Len(chan[c]) + 1] = e
        BY <2>3, <2>4, AppendProperties, LenProperties
    <2>6. \/ f \in pend[c] \/ f = e
          \/ \E i \in 1 .. Len(chan[c]) : chan[c][i] = f
        BY <2>1, <2>2, <2>3 DEF AllCovered, Covered
    <2> QED
        BY <2>5, <2>6
<1>9. CASE CoreRestart
    BY <1>9 DEF CoreRestart, AllCovered, Covered
<1> QED
    BY <1>2, <1>3, <1>4, <1>5, <1>6, <1>7, <1>8, <1>9 DEF CoreStep

LEMMA CoveredStreams ==
    ASSUME TypeOK, StreamInv, AllCovered, NEW c \in Replicas, HandlerStep(c) \/ ClientMove(c)
    PROVE  AllCovered'
<1>0. UNCHANGED coreVars /\ log' = log /\ emit' = emit
    BY StreamsLeaveCore DEF coreVars
<1>1. ASSUME \A d \in Replicas \ {c} : /\ phase'[d] = phase[d] /\ next'[d] = next[d]
                                       /\ pend'[d] = pend[d] /\ chan'[d] = chan[d]
                                       /\ open'[d] = open[d],
             Covered(c)'
      PROVE  AllCovered'
    BY <1>0, <1>1 DEF AllCovered, Covered
<1>2. CASE LoadBacklog(c)
    BY <1>0, <1>1, <1>2 DEF LoadBacklog, Covered, TypeOK
<1>3. CASE BacklogFails(c)
    BY <1>0, <1>1, <1>3 DEF BacklogFails, Unsubscribe, Covered, TypeOK
<1>4. CASE WritePending(c)
    <2>1. PICK e \in pend[c] : Write(c, e) /\ pend' = [pend EXCEPT ![c] = @ \ {e}]
        BY <1>4 DEF WritePending
    <2>2. next'[c] = e.seq + 1 /\ pend'[c] = pend[c] \ {e} /\ e.seq \in Nat
        BY <2>1 DEF Write, TypeOK, Event
    <2>3. e.seq >= next[c] /\ next[c] \in Nat
        BY DEF StreamInv, BacklogInv, TypeOK
    <2>4. \A f \in log : f.seq \in Nat
        BY DEF TypeOK, Event
    <2>5. RowsFrom(log, next'[c]) \subseteq RowsFrom(log, next[c]) \ {e}
        BY <2>2, <2>3, <2>4 DEF RowsFrom
    <2>6. Covered(c)'
        BY <1>0, <1>4, <2>2, <2>5 DEF WritePending, AllCovered, Covered
    <2> QED
        BY <1>1, <1>4, <2>1, <2>6 DEF WritePending, Write, TypeOK
<1>5. ASSUME Receives(c), phase' = phase, pend' = pend, open' = open,
             next'[c] \in Nat, next'[c] >= next[c], Head(chan[c]).seq < next'[c]
      PROVE  Covered(c)'
    <2>1. chan[c] \in Seq(Event) /\ chan[c] # <<>>
        BY <1>5 DEF Receives, TypeOK
    <2>2. Head(chan[c]) = chan[c][1] /\ Len(chan[c]) \in Nat
        BY <2>1, HeadTailProperties, LenProperties
    <2>3. /\ Len(chan'[c]) = Len(chan[c]) - 1
          /\ \A i \in 1 .. Len(chan'[c]) : chan'[c][i] = chan[c][i + 1]
        BY <1>0, <1>5, ReceiveChannel
    <2> SUFFICES ASSUME phase[c] = "sending", open[c], NEW e \in RowsFrom(log, next'[c])
                 PROVE  \/ e \in pend[c] \cup emit
                        \/ \E i \in 1 .. Len(chan'[c]) : chan'[c][i] = e
        BY <1>0, <1>5 DEF Covered
    <2>4. e.seq \in Nat /\ next[c] \in Nat /\ e.seq >= next'[c]
        BY DEF RowsFrom, TypeOK, Event
    <2>5. e \in RowsFrom(log, next[c]) /\ e # chan[c][1]
        BY <1>5, <2>2, <2>4 DEF RowsFrom
    <2>6. \/ e \in pend[c] \cup emit
          \/ \E i \in 1 .. Len(chan[c]) : chan[c][i] = e
        BY <2>5 DEF AllCovered, Covered
    <2>7. ASSUME NEW i \in 1 .. Len(chan[c]), chan[c][i] = e
          PROVE  \E j \in 1 .. Len(chan'[c]) : chan'[c][j] = e
        <3>1. i # 1
            BY <2>5, <2>7
        <3>2. i - 1 \in 1 .. Len(chan'[c]) /\ chan'[c][i - 1] = e
            BY <2>2, <2>3, <2>7, <3>1
        <3> QED
            BY <3>2
    <2> QED
        BY <2>6, <2>7
<1>6. CASE SkipOld(c)
    <2>1. Covered(c)'
        BY <1>5, <1>6 DEF SkipOld, TypeOK
    <2> QED
        BY <1>1, <1>6, <2>1 DEF SkipOld, Receives, TypeOK
<1>7. CASE WriteLive(c)
    <2>1. next'[c] = Head(chan[c]).seq + 1 /\ Head(chan[c]).seq = next[c] /\ next[c] \in Nat
        BY <1>7 DEF WriteLive, Write, TypeOK
    <2>2. Covered(c)'
        BY <1>5, <1>7, <2>1 DEF WriteLive
    <2> QED
        BY <1>1, <1>7, <2>2 DEF WriteLive, Receives, Write, TypeOK
<1>8. CASE GapFill(c)
    <2>1. RowsFrom(log, next[c]) \subseteq pend'[c] /\ next' = next
        BY <1>8 DEF GapFill, TypeOK
    <2>2. Covered(c)'
        BY <1>0, <2>1 DEF Covered
    <2> QED
        BY <1>1, <1>8, <2>2 DEF GapFill, Receives, TypeOK
<1>9. CASE GapFillFails(c) \/ HandlerReturns(c)
    BY <1>1, <1>9 DEF GapFillFails, HandlerReturns, Unsubscribe, Covered, TypeOK
<1>10. ASSUME NEW from \in Nat \ {0}, OpenStream(c, from) PROVE AllCovered'
    BY <1>1, <1>10 DEF OpenStream, Covered, TypeOK
<1>11. CASE Deliver(c)
    BY <1>0, <1>11 DEF Deliver, AllCovered, Covered
<1>12. CASE CloseStream(c)
    BY <1>1, <1>12 DEF CloseStream, Unsubscribe, Covered, TypeOK
<1> QED
    BY <1>2, <1>3, <1>4, <1>6, <1>7, <1>8, <1>9, <1>10, <1>11, <1>12
    DEF HandlerStep, ClientMove

LEMMA CoveredNext ==
    ASSUME "insertUncertain" \notin FaultKinds
    PROVE  TypeOK /\ LogInv /\ StreamInv /\ AllCovered /\ StreamStep => AllCovered'
<1> SUFFICES ASSUME TypeOK, LogInv, StreamInv, AllCovered, StreamStep
             PROVE  AllCovered'
    OBVIOUS
<1>1. CASE UNCHANGED <<coreVars, streamVars>>
    BY <1>1 DEF coreVars, streamVars, AllCovered, Covered
<1> QED
    BY <1>1, CoveredCore, CoveredStreams DEF StreamStep

(* Subscribing before reading the backlog loses nothing: every row a        *)
(* followed stream has not written yet is on its way to it.                 *)
THEOREM NothingMissed == Spec => []NoEventMissed
<1>1. CASE "insertUncertain" \in FaultKinds
    <2>1. NoEventMissed
        BY <1>1 DEF NoEventMissed
    <2> QED
        BY <2>1, PTL
<1>2. CASE "insertUncertain" \notin FaultKinds
    <2>1. Init => AllCovered
        BY CoveredInit
    <2>2. TypeOK /\ LogInv /\ StreamInv /\ AllCovered /\ [Next]_csVars => AllCovered'
        BY <1>2, NextIsStreamStep, CoveredNext
    <2>3. AllCovered => NoEventMissed
        BY DEF AllCovered, Covered, NoEventMissed
    <2> QED
        BY InvInductive, <2>1, <2>2, <2>3, PTL DEF Spec
<1> QED
    BY <1>1, <1>2

-----------------------------------------------------------------------------
(* The map of markets and the log.                                          *)

MapInv == Reflects(markets, log \ emit)

LEMMA MapInit == Init => MapInv
BY DEF Init, MapInv, Reflects, FreshMarkets, IsLatestOfMarket

LEMMA MapCore ==
    ASSUME TypeOK, LogInv, MapInv, "insertUncertain" \notin FaultKinds, CoreStep
    PROVE  MapInv'
<1>1. ASSUME NEW m \in Markets, EnsureMarketExists(m) PROVE MapInv'
    <2>1. /\ markets[m] = Absent /\ markets' = [markets EXCEPT ![m] = OpenState]
          /\ log' = log /\ emit' = emit /\ markets \in View
        BY <1>1 DEF EnsureMarketExists, TypeOK
    <2>2. \A e \in log : e.state # Absent
        BY EventLogAssumption DEF EventLogAssumption, TypeOK, Event
    <2>3. \A n \in Markets : markets'[n] = IF n = m THEN OpenState ELSE markets[n]
        BY <2>1 DEF View
    <2> QED
        BY <2>1, <2>2, <2>3 DEF MapInv, Reflects, IsLatestOfMarket
<1>2. ASSUME NEW m \in Markets, NEW s \in States, EvaluateAndPersist(m, s)
      PROVE  MapInv'
    <2>1. NewEvent(m, s) \notin log
        BY <1>2, NextRow DEF EvaluateAndPersist
    <2>2. log' \ emit' = log /\ log \ emit = log /\ markets' = markets
        BY <1>2, <2>1 DEF EvaluateAndPersist
    <2> QED
        BY <2>2 DEF MapInv
<1>3. CASE Broadcast
    <2>1. PICK e \in emit : /\ markets' = [markets EXCEPT ![e.market] = e.state]
                            /\ log' = log /\ emit' = {}
        BY <1>3 DEF Broadcast
    <2>2. /\ e \in log /\ emit = {e} /\ e.seq = lastSeq /\ e.market \in Markets
          /\ \A f \in log : f.seq \in Nat /\ f.seq <= e.seq /\ (f.seq = e.seq => f = e)
          /\ markets \in View
        BY DEF LogInv, NumberedTo, TypeOK, Event
    <2>3. \A m \in Markets : markets'[m] = IF m = e.market THEN e.state ELSE markets[m]
        BY <2>1, <2>2 DEF View
    <2> SUFFICES ASSUME NEW m \in Markets
                 PROVE  /\ (\A f \in log : f.market # m) => markets'[m] \in {Absent, OpenState}
                        /\ \A f \in log : f.market = m /\ IsLatestOfMarket(f, log)
                                             => markets'[m] = f.state
        BY <2>1 DEF MapInv, Reflects
    <2>4. CASE m = e.market
        <3>1. \A f \in log : f.market = m /\ IsLatestOfMarket(f, log) => f = e
            BY <2>2, <2>4 DEF IsLatestOfMarket
        <3> QED
            BY <2>2, <2>3, <2>4, <3>1
    <2>5. CASE m # e.market
        <3>1. markets'[m] = markets[m]
            BY <2>3, <2>5
        <3>2. \A f \in log : f.market = m => f \in log \ emit
            BY <2>2, <2>5
        <3>3. \A f \in log : IsLatestOfMarket(f, log) /\ f.market = m
                                => IsLatestOfMarket(f, log \ emit)
            BY <3>2 DEF IsLatestOfMarket
        <3> QED
            BY <3>1, <3>2, <3>3 DEF MapInv, Reflects
    <2> QED
        BY <2>4, <2>5
<1>4. CASE CoreRestart
    BY <1>4 DEF CoreRestart, MapInv, Reflects, FreshMarkets, IsLatestOfMarket
<1>5. ASSUME NEW m \in Markets, NEW s \in States, PersistUncertain(m, s)
      PROVE  MapInv'
    BY <1>5 DEF PersistUncertain, Fault
<1>6. CASE TickBegin \/ \E m \in Markets : EvaluateUnchanged(m) \/ PersistFails(m)
    BY <1>6 DEF TickBegin, EvaluateUnchanged, PersistFails, MapInv
<1> QED
    BY <1>1, <1>2, <1>3, <1>4, <1>5, <1>6 DEF CoreStep

LEMMA MapNext ==
    ASSUME "insertUncertain" \notin FaultKinds
    PROVE  TypeOK /\ LogInv /\ MapInv /\ StreamStep => MapInv'
<1> SUFFICES ASSUME TypeOK, LogInv, MapInv, StreamStep PROVE MapInv'
    OBVIOUS
<1>1. ASSUME UNCHANGED coreVars PROVE MapInv'
    BY <1>1 DEF coreVars, MapInv
<1> QED
    BY <1>1, MapCore, StreamsLeaveCore DEF StreamStep

(* The authoritative map is what the log says, at every moment and through  *)
(* failed inserts, broadcasts and restarts.                                 *)
THEOREM MapMatchesLog == Spec => []StateMatchesLog
<1>1. CASE "insertUncertain" \in FaultKinds
    <2>1. StateMatchesLog
        BY <1>1 DEF StateMatchesLog
    <2> QED
        BY <2>1, PTL
<1>2. CASE "insertUncertain" \notin FaultKinds
    <2>1. TypeOK /\ LogInv /\ MapInv /\ [Next]_csVars => MapInv'
        BY <1>2, NextIsStreamStep, MapNext
    <2>2. MapInv => StateMatchesLog
        BY DEF MapInv, StateMatchesLog
    <2> QED
        BY InvInductive, MapInit, <2>1, <2>2, PTL DEF Spec
<1> QED
    BY <1>1, <1>2
=============================================================================
