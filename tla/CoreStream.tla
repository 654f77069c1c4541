----------------------------- MODULE CoreStream -----------------------------
(***************************************************************************)
(* The write path of core and the stream that publishes it: the tick that  *)
(* evaluates every market under Service.mu, emitEventLocked (persist, then *)
(* broadcast, then update), the hub's subscriber channels, and handleStream*)
(* (subscribe, read the backlog, write it, then follow the live channel    *)
(* with skip, gap fill and write).                                         *)
(*                                                                         *)
(* Service.mu is held from TickBegin until `tick` is empty.  The handlers  *)
(* do not take it: they read the table and their channel at any moment.    *)
(* Each member of Replicas is a client with at most one stream.            *)
(***************************************************************************)
EXTENDS EventLog

CONSTANTS Replicas,     \* clients of /stream
          Buffer,       \* capacity of a subscriber channel (1024 in the code)
          WireCap,      \* frames written and not yet read by the client
          MaxSeq,       \* bound on lastSeq
          FromSeqs,     \* values of from_seq a client may ask for
          FaultKinds,   \* the faults this instance is exposed to
          MaxFaults     \* bound on their number

ASSUME CoreStreamAssumption ==
    /\ Buffer \in Nat \ {0}
    /\ WireCap \in Nat \ {0}
    /\ MaxSeq \in Nat
    /\ FromSeqs \subseteq Nat \ {0}
    /\ MaxFaults \in Nat

VARIABLES epoch,    \* lives of the core process before this one
          log,      \* rows of event_log
          lastSeq,  \* Service.lastSeq
          markets,  \* Service.markets
          tick,     \* markets evaluateAll has still to visit; {}: mu is free
          emit,     \* the event persisted and not yet broadcast, if any
          phase,    \* where each client's handleStream is
          next,     \* its nextSeq
          pend,     \* rows read from the table and not yet written
          chan,     \* its subscriber channel
          open,     \* the channel is registered in the hub
          wire,     \* frames on their way to the client
          faults    \* faults so far

coreVars   == <<epoch, log, lastSeq, markets, tick, emit>>
streamVars == <<phase, next, pend, chan, open, wire>>
csVars     == <<coreVars, streamVars, faults>>

Phases == {"none", "subscribed", "sending", "closed", "refused"}

Init ==
    /\ epoch = 0
    /\ log = {}
    /\ lastSeq = 0
    /\ markets = FreshMarkets
    /\ tick = {}
    /\ emit = {}
    /\ phase = [c \in Replicas |-> "none"]
    /\ next = [c \in Replicas |-> 1]
    /\ pend = [c \in Replicas |-> {}]
    /\ chan = [c \in Replicas |-> <<>>]
    /\ open = [c \in Replicas |-> FALSE]
    /\ wire = [c \in Replicas |-> <<>>]
    /\ faults = 0

(* A fault of one of the kinds of this instance, within the bound. *)
Fault(kind) ==
    /\ kind \in FaultKinds
    /\ faults < MaxFaults
    /\ faults' = faults + 1

-----------------------------------------------------------------------------
(* The tick and emitEventLocked.                                            *)

(* IngestSignal or ClearSignals for a market not seen before: it becomes   *)
(* visible in the snapshot, and no event is emitted.                        *)
EnsureMarketExists(m) ==
    /\ tick = {}
    /\ markets[m] = Absent
    /\ markets' = [markets EXCEPT ![m] = OpenState]
    /\ UNCHANGED <<epoch, log, lastSeq, tick, emit, streamVars, faults>>

TickBegin ==
    /\ tick = {}
    /\ tick' = Known(markets)
    /\ UNCHANGED <<epoch, log, lastSeq, markets, emit, streamVars, faults>>

(* ApplyBreaker returned an equal state. *)
EvaluateUnchanged(m) ==
    /\ m \in tick
    /\ emit = {}
    /\ tick' = tick \ {m}
    /\ UNCHANGED <<epoch, log, lastSeq, markets, emit, streamVars, faults>>

NewEvent(m, s) == [epoch |-> epoch, seq |-> lastSeq + 1, market |-> m, state |-> s]

(* Mutant of EvaluateAndPersist: broadcast without the insert. *)
EvaluateWithoutInsert(m, s) ==
    /\ m \in tick
    /\ emit = {}
    /\ s # markets[m]
    /\ lastSeq < MaxSeq
    /\ lastSeq' = lastSeq + 1
    /\ emit' = {NewEvent(m, s)}
    /\ UNCHANGED <<epoch, log, markets, tick, streamVars, faults>>

(* ApplyBreaker returned another state: take the next seq and insert.       *)
EvaluateAndPersist(m, s) ==
    /\ m \in tick
    /\ emit = {}
    /\ s # markets[m]
    /\ lastSeq < MaxSeq
    /\ ~HasRow(log, lastSeq + 1)
    /\ lastSeq' = lastSeq + 1
    /\ log' = log \cup {NewEvent(m, s)}
    /\ emit' = {NewEvent(m, s)}
    /\ UNCHANGED <<epoch, markets, tick, streamVars, faults>>

(* Mutant of RestoreLastSeq: the number of the failed event is not given    *)
(* back.                                                                    *)
KeepIncrement(rows) == lastSeq' = lastSeq + 1

(* The second read of lastSeq after a failed insert succeeds. *)
RereadLastSeq(rows) ==
    \E n \in {0} \cup {e.seq : e \in rows} : IsLastSeq(rows, n) /\ lastSeq' = n

(* After a failed insert lastSeq goes back, then is read from the table    *)
(* again; with the database in trouble that read may fail as well.          *)
RestoreLastSeq(rows) == lastSeq' = lastSeq \/ RereadLastSeq(rows)

(* Mutant of PersistFails: the map is updated before the insert. *)
PersistFailsAfterUpdate(m) ==
    /\ m \in tick
    /\ emit = {}
    /\ Fault("insertFails")
    /\ RestoreLastSeq(log)
    /\ tick' = tick \ {m}
    /\ \E s \in States : markets' = [markets EXCEPT ![m] = s]
    /\ UNCHANGED <<epoch, log, emit, streamVars>>

(* The insert failed and stored nothing: the database refused it, or the   *)
(* primary key did, which is no fault, and then the read that follows fails *)
(* only by a fault.  The market is evaluated again by the next tick.        *)
PersistFails(m) ==
    /\ m \in tick
    /\ emit = {}
    /\ \/ Fault("insertFails") /\ RestoreLastSeq(log)
       \/ HasRow(log, lastSeq + 1) /\ RereadLastSeq(log) /\ UNCHANGED faults
       \/ HasRow(log, lastSeq + 1) /\ Fault("readFails") /\ UNCHANGED lastSeq
    /\ tick' = tick \ {m}
    /\ UNCHANGED <<epoch, log, markets, emit, streamVars>>

(* The insert reported an error after the row was stored. *)
PersistUncertain(m, s) ==
    /\ m \in tick
    /\ emit = {}
    /\ s # markets[m]
    /\ lastSeq < MaxSeq
    /\ ~HasRow(log, lastSeq + 1)
    /\ Fault("insertUncertain")
    /\ log' = log \cup {NewEvent(m, s)}
    /\ RestoreLastSeq(log \cup {NewEvent(m, s)})
    /\ tick' = tick \ {m}
    /\ UNCHANGED <<epoch, markets, emit, streamVars>>

(* Mutant of Broadcast: a full channel grows. *)
BroadcastUnbounded ==
    \E e \in emit :
        /\ chan' = [c \in Replicas |-> IF open[c] THEN Append(chan[c], e) ELSE chan[c]]
        /\ markets' = [markets EXCEPT ![e.market] = e.state]
        /\ tick' = tick \ {e.market}
        /\ emit' = {}
        /\ UNCHANGED <<epoch, log, lastSeq, open, phase, next, pend, wire, faults>>

(* Mutant of Broadcast: a slow subscriber loses the event and stays. *)
BroadcastDropping ==
    \E e \in emit :
        /\ chan' = [c \in Replicas |->
                      IF open[c] /\ Len(chan[c]) < Buffer
                      THEN Append(chan[c], e) ELSE chan[c]]
        /\ markets' = [markets EXCEPT ![e.market] = e.state]
        /\ tick' = tick \ {e.market}
        /\ emit' = {}
        /\ UNCHANGED <<epoch, log, lastSeq, open, phase, next, pend, wire, faults>>

(* SSEHub.Broadcast never waits: a full channel is closed and dropped from  *)
(* the hub; what it holds can still be received.                            *)
Broadcast ==
    \E e \in emit :
        /\ chan' = [c \in Replicas |->
                      IF open[c] /\ Len(chan[c]) < Buffer
                      THEN Append(chan[c], e) ELSE chan[c]]
        /\ open' = [c \in Replicas |-> open[c] /\ Len(chan[c]) < Buffer]
        /\ markets' = [markets EXCEPT ![e.market] = e.state]
        /\ tick' = tick \ {e.market}
        /\ emit' = {}
        /\ UNCHANGED <<epoch, log, lastSeq, phase, next, pend, wire, faults>>
-----------------------------------------------------------------------------
(* handleStream.                                                            *)

(* GET /stream?from_seq=from: the handler subscribes before it reads the   *)
(* backlog, so that nothing falls between the two.                          *)
OpenStream(c, from) ==
    /\ phase[c] = "none"
    /\ phase' = [phase EXCEPT ![c] = "subscribed"]
    /\ next' = [next EXCEPT ![c] = from]
    /\ open' = [open EXCEPT ![c] = TRUE]
    /\ UNCHANGED <<coreVars, pend, chan, wire, faults>>

LoadBacklog(c) ==
    /\ phase[c] = "subscribed"
    /\ phase' = [phase EXCEPT ![c] = "sending"]
    /\ pend' = [pend EXCEPT ![c] = RowsFrom(log, next[c])]
    /\ UNCHANGED <<coreVars, next, chan, open, wire, faults>>

(* The deferred unsubscribe runs however the handler returns. *)
Unsubscribe(c) ==
    /\ open' = [open EXCEPT ![c] = FALSE]
    /\ chan' = [chan EXCEPT ![c] = <<>>]

(* The backlog query failed: status 500. *)
BacklogFails(c) ==
    /\ phase[c] = "subscribed"
    /\ Fault("readFails")
    /\ phase' = [phase EXCEPT ![c] = "refused"]
    /\ Unsubscribe(c)
    /\ UNCHANGED <<coreVars, next, pend, wire>>

(* writeSSEEvent: the frame goes on the wire and nextSeq moves past it. *)
Write(c, e) ==
    /\ Len(wire[c]) < WireCap
    /\ wire' = [wire EXCEPT ![c] = Append(@, e)]
    /\ next' = [next EXCEPT ![c] = e.seq + 1]

(* The next row of the backlog, or of a gap fill. *)
WritePending(c) ==
    /\ phase[c] = "sending"
    /\ \E e \in pend[c] :
          /\ IsFirst(e, pend[c])
          /\ Write(c, e)
          /\ pend' = [pend EXCEPT ![c] = @ \ {e}]
    /\ UNCHANGED <<coreVars, phase, chan, open, faults>>

(* The handler is in its select and a live event is there to receive. *)
Receives(c) ==
    /\ phase[c] = "sending"
    /\ pend[c] = {}
    /\ chan[c] # <<>>
    /\ chan' = [chan EXCEPT ![c] = Tail(@)]

(* Mutant of SkipOld: <= for <. *)
SkipNextToo(c) ==
    /\ Receives(c)
    /\ Head(chan[c]).seq <= next[c]
    /\ UNCHANGED <<coreVars, phase, next, pend, open, wire, faults>>

(* evt.Seq < nextSeq: the backlog already had it. *)
SkipOld(c) ==
    /\ Receives(c)
    /\ Head(chan[c]).seq < next[c]
    /\ UNCHANGED <<coreVars, phase, next, pend, open, wire, faults>>

(* Mutant of WriteLive: no test of what the backlog already had. *)
WriteLiveTwice(c) ==
    /\ Receives(c)
    /\ Head(chan[c]).seq <= next[c]
    /\ Write(c, Head(chan[c]))
    /\ UNCHANGED <<coreVars, phase, pend, open, faults>>

WriteLive(c) ==
    /\ Receives(c)
    /\ Head(chan[c]).seq = next[c]
    /\ Write(c, Head(chan[c]))
    /\ UNCHANGED <<coreVars, phase, pend, open, faults>>

(* Mutant of GapFill: the event that shows the gap is written as it is. *)
WriteOverGap(c) ==
    /\ Receives(c)
    /\ Head(chan[c]).seq > next[c]
    /\ pend' = [pend EXCEPT ![c] = {Head(chan[c])}]
    /\ UNCHANGED <<coreVars, phase, next, open, wire, faults>>

(* evt.Seq > nextSeq: write the rows from nextSeq on, then the event unless *)
(* the rows reached it.                                                     *)
GapFill(c) ==
    LET rows == RowsFrom(log, next[c])
        evt  == Head(chan[c])
    IN  /\ Receives(c)
        /\ evt.seq > next[c]
        /\ pend' = [pend EXCEPT ![c] =
                      rows \cup {e \in {evt} : \A f \in rows : f.seq < e.seq}]
        /\ UNCHANGED <<coreVars, phase, next, open, wire, faults>>

(* The handler returns: what it wrote can still be read, then end of file. *)
GapFillFails(c) ==
    /\ phase[c] = "sending" /\ pend[c] = {} /\ chan[c] # <<>>
    /\ Head(chan[c]).seq > next[c]
    /\ Fault("readFails")
    /\ phase' = [phase EXCEPT ![c] = "closed"]
    /\ Unsubscribe(c)
    /\ UNCHANGED <<coreVars, next, pend, wire>>

(* The channel was closed by the hub and is drained. *)
HandlerReturns(c) ==
    /\ phase[c] = "sending" /\ pend[c] = {} /\ chan[c] = <<>>
    /\ ~open[c]
    /\ phase' = [phase EXCEPT ![c] = "closed"]
    /\ UNCHANGED <<coreVars, next, pend, chan, open, wire, faults>>

-----------------------------------------------------------------------------
(* The client's end of a stream, and the end of a core process.             *)

(* The client reads one frame. *)
Deliver(c) ==
    /\ wire[c] # <<>>
    /\ wire' = [wire EXCEPT ![c] = Tail(@)]
    /\ UNCHANGED <<coreVars, phase, next, pend, chan, open>>

(* The response body is closed; frames not read are gone, and the handler   *)
(* leaves at its next step, unsubscribing.                                  *)
CloseStream(c) ==
    /\ phase[c] # "none"
    /\ phase' = [phase EXCEPT ![c] = "none"]
    /\ next' = [next EXCEPT ![c] = 1]
    /\ pend' = [pend EXCEPT ![c] = {}]
    /\ wire' = [wire EXCEPT ![c] = <<>>]
    /\ Unsubscribe(c)
    /\ UNCHANGED coreVars

(* A new core process: the table was in memory and is empty, so lastSeq is *)
(* 0 again.  Connections end; frames on the wire may still be read.         *)
CoreRestart ==
    /\ Fault("coreRestart")
    /\ epoch' = epoch + 1
    /\ log' = {}
    /\ lastSeq' = 0
    /\ markets' = FreshMarkets
    /\ tick' = {}
    /\ emit' = {}
    /\ phase' = [c \in Replicas |->
                   CASE phase[c] = "subscribed" -> "refused"
                     [] phase[c] = "sending"    -> "closed"
                     [] OTHER                   -> phase[c]]
    /\ pend' = [c \in Replicas |-> {}]
    /\ chan' = [c \in Replicas |-> <<>>]
    /\ open' = [c \in Replicas |-> FALSE]
    /\ UNCHANGED <<next, wire>>

CoreStep ==
    \/ \E m \in Markets : EnsureMarketExists(m)
    \/ TickBegin
    \/ \E m \in Markets : EvaluateUnchanged(m)
    \/ \E m \in Markets, s \in States : EvaluateAndPersist(m, s)
    \/ \E m \in Markets : PersistFails(m)
    \/ \E m \in Markets, s \in States : PersistUncertain(m, s)
    \/ Broadcast
    \/ CoreRestart

HandlerStep(c) ==
    \/ LoadBacklog(c)
    \/ BacklogFails(c)
    \/ WritePending(c)
    \/ SkipOld(c)
    \/ WriteLive(c)
    \/ GapFill(c)
    \/ GapFillFails(c)
    \/ HandlerReturns(c)

(* Clients of any behaviour: from_seq is any number, also beyond the log.   *)
ClientStep(c) ==
    \/ \E from \in FromSeqs : OpenStream(c, from)
    \/ Deliver(c) /\ UNCHANGED faults
    \/ CloseStream(c) /\ UNCHANGED faults

Next == CoreStep \/ \E c \in Replicas : HandlerStep(c) \/ ClientStep(c)

Spec == Init /\ [][Next]_csVars

-----------------------------------------------------------------------------
(* Properties.                                                              *)

(* Every variable holds a value of the right kind, the channels and the     *)
(* wire within their capacity.                                              *)
TypeOK ==
    /\ epoch \in Nat
    /\ log \in SUBSET Event
    /\ lastSeq \in Nat
    /\ markets \in View
    /\ tick \in SUBSET Markets
    /\ emit \in SUBSET Event
    /\ phase \in [Replicas -> Phases]
    /\ next \in [Replicas -> Nat \ {0}]
    /\ pend \in [Replicas -> SUBSET Event]
    /\ chan \in [Replicas -> Seq(Event)]
    /\ open \in [Replicas -> BOOLEAN]
    /\ wire \in [Replicas -> Seq(Event)]
    /\ faults \in 0 .. MaxFaults
    /\ \A c \in Replicas : Len(chan[c]) <= Buffer /\ Len(wire[c]) <= WireCap

(* The table is numbered 1 .. n without a gap or a repetition, and lastSeq  *)
(* is n, or n - 1 when a failed insert did store its row: this is what the  *)
(* rollback of lastSeq in emitEventLocked and its second read must keep.    *)
LogGapFree == NumberedTo(log, lastSeq) \/ NumberedTo(log, lastSeq + 1)

(* The authoritative map is the result of the logged events, except for the *)
(* event that is persisted and not yet broadcast: emitEventLocked persists  *)
(* first and evaluateAll updates the map only when it succeeded.  It holds  *)
(* unless an insert that reported an error stored its row.                  *)
StateMatchesLog ==
    "insertUncertain" \notin FaultKinds => Reflects(markets, log \ emit)

(* What a client has on its wire is a run of consecutive events of one life *)
(* of core that ends just before nextSeq: over all interleavings of the     *)
(* backlog, the live channel, gap fills and eviction, handleStream writes   *)
(* no event twice and leaves none out.                                      *)
FramesGapFree ==
    \A c \in Replicas : \A i \in 1 .. Len(wire[c]) :
        /\ wire[c][i].seq = next[c] - Len(wire[c]) + i - 1
        /\ wire[c][i].epoch = wire[c][1].epoch

(* Nothing is shown to a client before it is a row of the table: the        *)
(* channels, the backlogs and, of this life of core, the frames hold rows.  *)
ShownIsDurable ==
    \A c \in Replicas :
        /\ pend[c] \subseteq log
        /\ \A i \in 1 .. Len(chan[c]) : chan[c][i] \in log
        /\ \A i \in 1 .. Len(wire[c]) :
              wire[c][i].epoch = epoch => wire[c][i] \in log

(* No lost event: while a stream is followed and its channel is registered, *)
(* every row from nextSeq on is still to come from the rows it has read, is *)
(* in its channel, or is about to be broadcast.  This is why the handler    *)
(* subscribes before it reads the backlog.  (A row whose insert reported an *)
(* error is announced only by the gap that the next event leaves.)          *)
NoEventMissed ==
    "insertUncertain" \notin FaultKinds =>
        \A c \in Replicas : phase[c] = "sending" /\ open[c] =>
            \A e \in RowsFrom(log, next[c]) :
                \/ e \in pend[c] \cup emit
                \/ \E i \in 1 .. Len(chan[c]) : chan[c][i] = e

(* "If core persistence fails, authoritative state and lastSeq do not       *)
(* advance" (README.md:56): lastSeq moves forward only with an event that   *)
(* was persisted and is going to be broadcast.                              *)
AdvancesWithEvent == [][lastSeq' > lastSeq => emit' # {}]_csVars
=============================================================================
