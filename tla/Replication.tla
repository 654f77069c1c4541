----------------------------- MODULE Replication -----------------------------
(***************************************************************************)
(* Core and its replicas: the stream of CoreStream, followed by the loop of *)
(* replica.Service.Start, one loop per replica: bootstrap from /snapshot,   *)
(* stream from lastAppliedSeq + 1, apply each event once and in order, and  *)
(* on a gap refresh from /snapshot again.                                   *)
(*                                                                         *)
(* Start runs the loop in one goroutine, so that each action is one step of *)
(* it.  A step that commits to the store and then changes memory is one     *)
(* action: a crash between the two leaves what a crash after both leaves,   *)
(* because memory is lost.                                                  *)
(***************************************************************************)
EXTENDS CoreStream

CONSTANT StoreDurable  \* the replica's database survives its process

ASSUME ReplicationAssumption == StoreDurable \in BOOLEAN

VARIABLES rpc,           \* where each replica's Start loop is
          snap,          \* the snapshot response it has yet to install, if any
          bootstrapped,  \* Service.bootstrapped
          applied,       \* Service.lastAppliedSeq
          coreLast,      \* Service.coreLastSeq
          view,          \* Service.markets
          hist,          \* Service.history
          ids,           \* rows of applied_events
          ckpt           \* consumer_checkpoint.last_applied_seq

memVars     == <<bootstrapped, applied, coreLast, view, hist>>
storeVars   == <<ids, ckpt>>
replicaVars == <<rpc, snap, memVars, storeVars>>
vars        == <<csVars, replicaVars>>

(* top: at the head of the loop.  gap: refreshing after ErrSeqGap.          *)
(* install: the snapshot has been read.  connecting: GET /stream is sent.   *)
(* stream: the response is 200 and frames are read; setConnected(true).     *)
Locations == {"top", "gap", "install", "connecting", "stream"}

EmptyView == [m \in Markets |-> Absent]
EmptyHist == [m \in Markets |-> <<>>]

RInit ==
    /\ Init
    /\ rpc = [r \in Replicas |-> "top"]
    /\ snap = [r \in Replicas |-> {}]
    /\ bootstrapped = [r \in Replicas |-> FALSE]
    /\ applied = [r \in Replicas |-> 0]
    /\ coreLast = [r \in Replicas |-> 0]
    /\ view = [r \in Replicas |-> EmptyView]
    /\ hist = [r \in Replicas |-> EmptyHist]
    /\ ids = [r \in Replicas |-> {}]
    /\ ckpt = [r \in Replicas |-> 0]

GoTo(r, location) == rpc' = [rpc EXCEPT ![r] = location]

-----------------------------------------------------------------------------
(* refreshFromSnapshot.                                                     *)

NeedsSnapshot(r) ==
    \/ rpc[r] = "gap"
    \/ rpc[r] = "top" /\ ~bootstrapped[r]

(* Mutant of FetchSnapshot: the copy is taken without Service.mu. *)
FetchSnapshotUnlocked(r) ==
    /\ NeedsSnapshot(r)
    /\ snap' = [snap EXCEPT ![r] = {[seq |-> lastSeq, markets |-> markets]}]
    /\ GoTo(r, "install")
    /\ UNCHANGED <<csVars, memVars, storeVars>>

(* GET /snapshot: core copies its markets and lastSeq under Service.mu.     *)
FetchSnapshot(r) ==
    /\ NeedsSnapshot(r)
    /\ tick = {}
    /\ snap' = [snap EXCEPT ![r] = {[seq |-> lastSeq, markets |-> markets]}]
    /\ GoTo(r, "install")
    /\ UNCHANGED <<csVars, memVars, storeVars>>

(* No response in time, or an error status: back to the loop's head, which  *)
(* streams again when the replica is bootstrapped.                          *)
FetchFails(r) ==
    /\ NeedsSnapshot(r)
    /\ Fault("snapshotFails")
    /\ GoTo(r, "top")
    /\ UNCHANGED <<coreVars, streamVars, snap, memVars, storeVars>>

(* Mutant of Install: the checkpoint is one before the snapshot. *)
InstallCheckpointBefore(r) ==
    /\ rpc[r] = "install"
    /\ \E s \in snap[r] :
          /\ s.seq >= applied[r]
          /\ ckpt' = [ckpt EXCEPT ![r] = s.seq - 1]
          /\ view' = [view EXCEPT ![r] = s.markets]
          /\ applied' = [applied EXCEPT ![r] = s.seq]
          /\ coreLast' = [coreLast EXCEPT ![r] = s.seq]
          /\ hist' = [hist EXCEPT ![r] = EmptyHist]
          /\ bootstrapped' = [bootstrapped EXCEPT ![r] = TRUE]
    /\ snap' = [snap EXCEPT ![r] = {}]
    /\ GoTo(r, "top")
    /\ UNCHANGED <<csVars, ids>>

(* Mutant of Install: a snapshot behind the replica is accepted. *)
InstallAnySnapshot(r) ==
    /\ rpc[r] = "install"
    /\ \E s \in snap[r] :
          /\ ckpt' = [ckpt EXCEPT ![r] = s.seq]
          /\ view' = [view EXCEPT ![r] = s.markets]
          /\ applied' = [applied EXCEPT ![r] = s.seq]
          /\ coreLast' = [coreLast EXCEPT ![r] = s.seq]
          /\ hist' = [hist EXCEPT ![r] = EmptyHist]
          /\ bootstrapped' = [bootstrapped EXCEPT ![r] = TRUE]
    /\ snap' = [snap EXCEPT ![r] = {}]
    /\ GoTo(r, "top")
    /\ UNCHANGED <<csVars, ids>>

(* Mutant of Install: the histories survive the snapshot. *)
InstallKeepingHistory(r) ==
    /\ rpc[r] = "install"
    /\ \E s \in snap[r] :
          /\ s.seq >= applied[r]
          /\ ckpt' = [ckpt EXCEPT ![r] = s.seq]
          /\ view' = [view EXCEPT ![r] = s.markets]
          /\ applied' = [applied EXCEPT ![r] = s.seq]
          /\ coreLast' = [coreLast EXCEPT ![r] = s.seq]
          /\ UNCHANGED hist
          /\ bootstrapped' = [bootstrapped EXCEPT ![r] = TRUE]
    /\ snap' = [snap EXCEPT ![r] = {}]
    /\ GoTo(r, "top")
    /\ UNCHANGED <<csVars, ids>>

(* validateSnapshot accepts it; SetCheckpoint; memory is replaced. *)
Install(r) ==
    /\ rpc[r] = "install"
    /\ \E s \in snap[r] :
          /\ s.seq >= applied[r]
          /\ ckpt' = [ckpt EXCEPT ![r] = s.seq]
          /\ view' = [view EXCEPT ![r] = s.markets]
          /\ hist' = [hist EXCEPT ![r] = EmptyHist]
          /\ applied' = [applied EXCEPT ![r] = s.seq]
          /\ coreLast' = [coreLast EXCEPT ![r] = s.seq]
          /\ bootstrapped' = [bootstrapped EXCEPT ![r] = TRUE]
    /\ snap' = [snap EXCEPT ![r] = {}]
    /\ GoTo(r, "top")
    /\ UNCHANGED <<csVars, ids>>

(* The snapshot is behind the replica, or SetCheckpoint failed. *)
InstallFails(r) ==
    /\ rpc[r] = "install"
    /\ \E s \in snap[r] :
          \/ s.seq < applied[r] /\ UNCHANGED faults
          \/ s.seq >= applied[r] /\ Fault("checkpointFails")
    /\ snap' = [snap EXCEPT ![r] = {}]
    /\ GoTo(r, "top")
    /\ UNCHANGED <<coreVars, streamVars, memVars, storeVars>>
-----------------------------------------------------------------------------
(* consumeStream and processEvent.                                          *)

(* Mutant of Connect: from the last applied event, not the one after it. *)
ConnectFromLast(r) ==
    /\ rpc[r] = "top"
    /\ bootstrapped[r]
    /\ OpenStream(r, applied[r])
    /\ GoTo(r, "connecting")
    /\ UNCHANGED <<snap, memVars, storeVars>>

Connect(r) ==
    /\ rpc[r] = "top"
    /\ bootstrapped[r]
    /\ OpenStream(r, applied[r] + 1)
    /\ GoTo(r, "connecting")
    /\ UNCHANGED <<snap, memVars, storeVars>>

(* The headers arrive when the handler has read its backlog. *)
Connected(r) ==
    /\ rpc[r] = "connecting"
    /\ phase[r] \in {"sending", "closed"}
    /\ GoTo(r, "stream")
    /\ UNCHANGED <<csVars, snap, memVars, storeVars>>

(* consumeStream returns and closes the body. *)
LeaveStream(r, location) ==
    /\ CloseStream(r)
    /\ GoTo(r, location)

(* A status other than 200. *)
ConnectRefused(r) ==
    /\ rpc[r] = "connecting"
    /\ phase[r] = "refused"
    /\ LeaveStream(r, "top")
    /\ UNCHANGED <<faults, snap, memVars, storeVars>>

(* The id that applied_events keeps of an event. *)
IdOf(e) == <<e.epoch, e.seq>>

Reading(r) == rpc[r] = "stream" /\ wire[r] # <<>>
Frame(r)   == Head(wire[r])

IsNew(r)   == IdOf(Frame(r)) \notin ids[r]
InOrder(r) == Frame(r).seq = applied[r] + 1

(* s.coreLastSeq becomes seq when seq is larger. *)
SeenSeq(r, seq) ==
    coreLast' = [coreLast EXCEPT ![r] = IF seq > @ THEN seq ELSE @]

(* CommitAppliedEvent: the id and the checkpoint in one transaction. *)
CommitApplied(r, e) ==
    /\ ids' = [ids EXCEPT ![r] = @ \cup {IdOf(e)}]
    /\ ckpt' = [ckpt EXCEPT ![r] = e.seq]

(* Mutant of ApplyEvent: an event of a market not in the map is dropped. *)
ApplyKnownMarket(r) ==
    LET e == Frame(r)
    IN  /\ Reading(r) /\ IsNew(r) /\ InOrder(r)
        /\ Deliver(r)
        /\ CommitApplied(r, e)
        /\ view' = [view EXCEPT ![r][e.market] = IF @ = Absent THEN @ ELSE e.state]
        /\ hist' = [hist EXCEPT ![r][e.market] = Append(@, e)]
        /\ applied' = [applied EXCEPT ![r] = e.seq]
        /\ SeenSeq(r, e.seq)
        /\ UNCHANGED <<faults, rpc, snap, bootstrapped>>

(* CommitAppliedEvent finds the id absent, as IsEventApplied did just before *)
(* it: one goroutine uses the store, and the result "not committed" of      *)
(* processEvent, which does what SkipDuplicate does, never comes.           *)
ApplyEvent(r) ==
    LET e == Frame(r)
    IN  /\ Reading(r) /\ IsNew(r) /\ InOrder(r)
        /\ Deliver(r)
        /\ CommitApplied(r, e)
        /\ view' = [view EXCEPT ![r][e.market] = e.state]
        /\ hist' = [hist EXCEPT ![r][e.market] = Append(@, e)]
        /\ applied' = [applied EXCEPT ![r] = e.seq]
        /\ SeenSeq(r, e.seq)
        /\ UNCHANGED <<faults, rpc, snap, bootstrapped>>

(* Mutant of SkipDuplicate: a duplicate moves lastAppliedSeq. *)
SkipAndAdvance(r) ==
    /\ Reading(r) /\ ~IsNew(r)
    /\ Deliver(r)
    /\ SeenSeq(r, Frame(r).seq)
    /\ applied' = [applied EXCEPT ![r] = Frame(r).seq]
    /\ UNCHANGED <<faults, rpc, snap, bootstrapped, view, hist, storeVars>>

(* Mutant of SkipDuplicate: a duplicate is not counted in coreLastSeq. *)
SkipUncounted(r) ==
    /\ Reading(r) /\ ~IsNew(r)
    /\ Deliver(r)
    /\ UNCHANGED <<faults, rpc, snap, memVars, storeVars>>

(* The id is in applied_events: skipped before the order is looked at, and  *)
(* lastAppliedSeq does not move.                                            *)
SkipDuplicate(r) ==
    /\ Reading(r) /\ ~IsNew(r)
    /\ Deliver(r)
    /\ SeenSeq(r, Frame(r).seq)
    /\ UNCHANGED <<faults, rpc, snap, bootstrapped, applied, view, hist, storeVars>>

(* Mutant of GapDetected: reconnect without a snapshot. *)
GapReconnects(r) ==
    /\ Reading(r) /\ IsNew(r) /\ ~InOrder(r)
    /\ LeaveStream(r, "top")
    /\ UNCHANGED <<faults, snap, memVars, storeVars>>

(* ErrSeqGap: the stream is left, coreLastSeq stays as it was. *)
GapDetected(r) ==
    /\ Reading(r) /\ IsNew(r) /\ ~InOrder(r)
    /\ LeaveStream(r, "gap")
    /\ UNCHANGED <<faults, snap, memVars, storeVars>>

(* The commit reported an error after it took effect: processEvent returns  *)
(* the error before memory is changed.                                      *)
CommitUncertain(r) ==
    /\ Reading(r) /\ IsNew(r) /\ InOrder(r)
    /\ Fault("commitUncertain")
    /\ CommitApplied(r, Frame(r))
    /\ LeaveStream(r, "top")
    /\ UNCHANGED <<snap, memVars>>

(* The handler ended and every frame has been read: io.EOF. *)
StreamEnds(r) ==
    /\ rpc[r] = "stream"
    /\ phase[r] = "closed"
    /\ wire[r] = <<>>
    /\ LeaveStream(r, "top")
    /\ UNCHANGED <<faults, snap, memVars, storeVars>>

(* The connection is lost, the idle monitor cancels it, a frame does not    *)
(* decode, or the store refuses a read or a commit: one branch of Start.    *)
StreamFails(r) ==
    /\ rpc[r] \in {"connecting", "stream"}
    /\ Fault("connectionLost")
    /\ LeaveStream(r, "top")
    /\ UNCHANGED <<snap, memVars, storeVars>>

-----------------------------------------------------------------------------
(* A new replica process: NewService starts at the stored checkpoint, with  *)
(* no markets, and has to bootstrap.                                        *)
ReplicaRestart(r) ==
    /\ Fault("replicaRestart")
    /\ \/ LeaveStream(r, "top")
       \/ phase[r] = "none" /\ GoTo(r, "top") /\ UNCHANGED <<coreVars, streamVars>>
    /\ snap' = [snap EXCEPT ![r] = {}]
    /\ bootstrapped' = [bootstrapped EXCEPT ![r] = FALSE]
    /\ view' = [view EXCEPT ![r] = EmptyView]
    /\ hist' = [hist EXCEPT ![r] = EmptyHist]
    /\ coreLast' = [coreLast EXCEPT ![r] = 0]
    /\ IF StoreDurable
       THEN /\ applied' = [applied EXCEPT ![r] = ckpt[r]]
            /\ UNCHANGED storeVars
       ELSE /\ applied' = [applied EXCEPT ![r] = 0]
            /\ ids' = [ids EXCEPT ![r] = {}]
            /\ ckpt' = [ckpt EXCEPT ![r] = 0]

-----------------------------------------------------------------------------
ServerStep ==
    /\ CoreStep \/ \E r \in Replicas : HandlerStep(r)
    /\ UNCHANGED replicaVars

Refresh(r) == FetchSnapshot(r) \/ FetchFails(r) \/ Install(r) \/ InstallFails(r)

Process(r) ==
    ApplyEvent(r) \/ SkipDuplicate(r) \/ GapDetected(r) \/ CommitUncertain(r)

Follow(r) ==
    \/ Connect(r) \/ Connected(r) \/ ConnectRefused(r)
    \/ Process(r) \/ StreamEnds(r) \/ StreamFails(r)

ReplicaStep(r) == Refresh(r) \/ Follow(r) \/ ReplicaRestart(r)

RNext == ServerStep \/ \E r \in Replicas : ReplicaStep(r)

RSpec == RInit /\ [][RNext]_vars

(* Fairness.  evaluateAll runs to its end and the handlers and the loop go  *)
(* on while they can: goroutines are scheduled.  A client waiting for       *)
(* Service.mu gets it when the tick that holds it is over (a Go RWMutex lets *)
(* waiting readers in before the next writer), hence strong fairness of     *)
(* FetchSnapshot.  Faults and new events have no fairness.                  *)
CoreFairness ==
    /\ WF_vars((\E m \in Markets : EvaluateUnchanged(m)) /\ UNCHANGED replicaVars)
    /\ WF_vars(Broadcast /\ UNCHANGED replicaVars)

HandlerFairness(r) ==
    WF_vars((LoadBacklog(r) \/ WritePending(r) \/ SkipOld(r) \/ WriteLive(r)
                \/ GapFill(r) \/ HandlerReturns(r)) /\ UNCHANGED replicaVars)

LoopFairness(r) ==
    /\ SF_vars(FetchSnapshot(r))
    /\ WF_vars(Install(r) \/ (InstallFails(r) /\ UNCHANGED faults))
    /\ WF_vars(Connect(r) \/ Connected(r) \/ ConnectRefused(r) \/ StreamEnds(r))
    /\ WF_vars(ApplyEvent(r) \/ SkipDuplicate(r) \/ GapDetected(r))

FairSpec ==
    /\ RSpec
    /\ CoreFairness
    /\ \A r \in Replicas : HandlerFairness(r) /\ LoopFairness(r)

-----------------------------------------------------------------------------
(* Properties.                                                              *)

(* Every variable of the replicas holds a value of the right kind. *)
RTypeOK ==
    /\ TypeOK
    /\ rpc \in [Replicas -> Locations]
    /\ snap \in [Replicas -> SUBSET [seq : Nat, markets : View]]
    /\ bootstrapped \in [Replicas -> BOOLEAN]
    /\ applied \in [Replicas -> Nat]
    /\ coreLast \in [Replicas -> Nat]
    /\ view \in [Replicas -> View]
    /\ hist \in [Replicas -> [Markets -> Seq(Event)]]
    /\ ids \in [Replicas -> SUBSET (Nat \X (Nat \ {0}))]
    /\ ckpt \in [Replicas -> Nat]

(* A replica that has bootstrapped shows the result of exactly the events   *)
(* up to lastAppliedSeq, whatever snapshots, backlogs and live events it    *)
(* came from and in which order they interleaved: processEvent and          *)
(* refreshFromSnapshot agree on what a sequence number stands for.          *)
ReplicaConsistent ==
    \A r \in Replicas :
        bootstrapped[r] => Reflects(view[r], UpTo(log, applied[r]))

Applied(r) == UNION {{hist[r][m][i] : i \in DOMAIN hist[r][m]} : m \in Markets}

(* Exactly once: since the last snapshot the histories of a replica hold    *)
(* one event of each number of a range that ends at lastAppliedSeq, in      *)
(* order within their market, and the last one is what the market shows.    *)
(* No fault of core, of the network or of a store changes this, not even    *)
(* the restart of core with an empty log.                                   *)
HistoryContiguous ==
    \A r \in Replicas :
        /\ \A e \in Applied(r) :
              /\ e.seq <= applied[r]
              /\ \A n \in e.seq .. applied[r] : HasRow(Applied(r), n)
              /\ \A f \in Applied(r) : e.seq = f.seq => e = f
        /\ \A m \in Markets : \A i \in DOMAIN hist[r][m] :
              /\ hist[r][m][i].market = m
              /\ i > 1 => hist[r][m][i - 1].seq < hist[r][m][i].seq
              /\ i = Len(hist[r][m]) => hist[r][m][i].state = view[r][m]

(* Nothing that concerns r is under way in core, in its handler, on the     *)
(* wire or in r, and r reports connected.                                   *)
Quiet(r) ==
    /\ tick = {} /\ emit = {}
    /\ phase[r] = "sending" /\ open[r]
    /\ pend[r] = {} /\ chan[r] = <<>> /\ wire[r] = <<>>
    /\ rpc[r] = "stream"

(* A market that core knows and that has not had an event: IngestSignal and *)
(* ClearSignals make it a key of core's map, and so of later snapshots.     *)
Silent(m) == \A e \in log : e.market # m

(* "Start keeps the replica synchronized by bootstrapping, consuming stream *)
(* events, and reconnecting on failure" (internal/replica/service.go:123):  *)
(* a connected replica with nothing left to read has applied every event of *)
(* core and has core's markets, each in core's state.  It may lack only a   *)
(* market without an event that core made after the replica's snapshot: no  *)
(* frame tells of it.  It never has a market that core has not.             *)
SynchronizedWhenQuiet ==
    \A r \in Replicas : Quiet(r) =>
        /\ applied[r] = lastSeq
        /\ \A m \in Markets :
              \/ view[r][m] = markets[m]
              \/ view[r][m] = Absent /\ Silent(m)

(* "updateCoreLastSeq tracks the highest sequence observed from core,       *)
(* including duplicate events" (internal/replica/service.go:382): an event  *)
(* that is read, whether it is applied, skipped as a duplicate or out of    *)
(* order, is counted, and so is part of the lag that Status reports.        *)
ObservedIsCounted ==
    [][\A r \in Replicas :
         ApplyEvent(r) \/ SkipDuplicate(r) \/ GapDetected(r)
            => coreLast'[r] >= Frame(r).seq]_vars

(* Status reports coreLastSeq - lastAppliedSeq as the lag.  When the commit *)
(* of an event reports an error after it took effect, the event is skipped  *)
(* as a duplicate from then on and the replica stays one event behind until *)
(* the next event makes a gap.  The lag it reports says so: what a quiet    *)
(* replica has not applied, it has at least counted.                        *)
LagIsReported ==
    \A r \in Replicas : Quiet(r) =>
        /\ coreLast[r] = lastSeq
        /\ applied[r] < lastSeq => <<epoch, lastSeq>> \in ids[r]

(* lastAppliedSeq does not go back while a replica process lives: the       *)
(* snapshots of a core that has restarted are refused by validateSnapshot   *)
(* as long as they are behind the replica, or behind its checkpoint when    *)
(* the process is new and its store is not.                                 *)
AppliedNeverBack ==
    [][\A r \in Replicas : applied'[r] < applied[r] => ~bootstrapped'[r]]_vars

(* The detailed replication implements its abstract specification.          *)
Abstract == INSTANCE ReplicatedMarkets
                WITH truth <- log, pos <- applied, shown <- view

ImplementsReplicatedMarkets == Abstract!Spec

(* With finitely many events and faults every replica ends up, and stays,   *)
(* connected and current.                                                   *)
Converges ==
    \A r \in Replicas :
        <>[](rpc[r] = "stream" /\ applied[r] = lastSeq
             /\ \A e \in log : view[r][e.market] = markets[e.market])

(* The same when commits may report an error after they took effect: the    *)
(* replica ends up connected and either current, or one event behind with   *)
(* the lag reported.                                                        *)
ConvergesOrReportsLag ==
    \A r \in Replicas :
        <>[](/\ rpc[r] = "stream"
             /\ coreLast[r] = lastSeq
             /\ applied[r] \in {lastSeq - 1, lastSeq})
=============================================================================
