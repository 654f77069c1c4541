---------------------------- MODULE ReplicaHealth ----------------------------
(***************************************************************************)
(* Heartbeats of replicas and the health that core derives from their age.  *)
(*                                                                         *)
(* A replica's reporter reads its Status and posts it, waits for the answer *)
(* at most HeartbeatTimeout, and posts again at the next tick of its ticker. *)
(* Core handles each post in a goroutine of its own: it reads the clock,    *)
(* waits for Service.mu and overwrites the replica's record.  A request for *)
(* /replicas/status does the same and classifies every record by its age;   *)
(* so does evaluateAll at the end of each tick, with the ticker's time.     *)
(*                                                                         *)
(* Time is one clock.  Requests arrive, or are lost, within MaxDelay, and   *)
(* nobody waits for Service.mu longer than MaxWait: time does not pass over *)
(* work that is due.  MaxDelay may exceed HeartbeatTimeout, so that a post  *)
(* that was given up may arrive after the one that followed it.             *)
(***************************************************************************)
EXTENDS Integers, FiniteSets

CONSTANTS Replicas,
          StaleAfter, OfflineAfter,  \* core's ServiceConfig, after NewService
          TickEvery,                 \* core's TickInterval
          Interval,                  \* HeartbeatInterval
          PostTimeout,               \* HeartbeatTimeout
          MaxDelay,                  \* of a request on its way to core
          MaxWait,                   \* for Service.mu
          MaxSeq, MaxTime,           \* bounds of the instance
          MaxDisturbances            \* bound on what happens to replicas and core

ASSUME ReplicaHealthAssumption ==
    /\ {StaleAfter, OfflineAfter, TickEvery, Interval, PostTimeout} \subseteq Nat \ {0}
    /\ StaleAfter <= OfflineAfter
    /\ {MaxDelay, MaxWait, MaxSeq, MaxTime, MaxDisturbances} \subseteq Nat
    /\ MaxWait < TickEvery

VARIABLES now,
          lastSeq,    \* core's Service.lastSeq
          tickAt,     \* when core's ticker fires next, or fired for a waiting tick
          record,     \* Service.replicas: none or one record per replica
          handling,   \* heartbeats whose handler has read the clock
          flight,     \* heartbeats on their way to core
          up,         \* the replica's process runs
          connected,  \* its Service.connected
          applied,    \* its Service.lastAppliedSeq
          due,        \* when its heartbeat ticker fires; empty before it exists
          post        \* the heartbeat its reporter waits for

(* What each replica really has of core's log: the numbers of the rows that *)
(* it has applied, singly or in a snapshot; and the replicas whose number   *)
(* counts what a former core process sent, because they have outlived it    *)
(* and not installed a snapshot of the present one.  Neither core nor the   *)
(* replicas know this: their numbers carry no mark of the process.          *)
VARIABLES has, former

(* History: the disturbances so far, when the last one of each replica was, *)
(* when its process started, and when core's did.                           *)
VARIABLES disturbances, calmSince, startedAt, coreSince

coreVars    == <<lastSeq, tickAt, record, handling>>
processVars == <<up, connected, applied, has, former>>
reportVars  == <<due, post>>
historyVars == <<disturbances, calmSince, startedAt, coreSince>>
vars == <<now, coreVars, flight, processVars, reportVars, historyVars>>

Healths == {"healthy", "stale", "offline"}
Beat    == [from : Replicas, connected : BOOLEAN, applied : Nat, sent : Nat]
Record  == [beat : Beat, seen : Nat, health : Healths]

HInit ==
    /\ now = 0
    /\ lastSeq = 0
    /\ tickAt = TickEvery
    /\ record = [r \in Replicas |-> {}]
    /\ handling = {} /\ flight = {}
    /\ up = [r \in Replicas |-> TRUE]
    /\ connected = [r \in Replicas |-> FALSE]
    /\ applied = [r \in Replicas |-> 0]
    /\ has = [r \in Replicas |-> {}]
    /\ former = {}
    /\ due = [r \in Replicas |-> {}]
    /\ post = [r \in Replicas |-> {}]
    /\ disturbances = 0
    /\ calmSince = [r \in Replicas |-> 0]
    /\ startedAt = [r \in Replicas |-> 0]
    /\ coreSince = 0

NonNegative(n) == IF n < 0 THEN 0 ELSE n

Classify(isConnected, age) ==
    IF ~isConnected \/ NonNegative(age) >= OfflineAfter THEN "offline"
    ELSE IF NonNegative(age) >= StaleAfter THEN "stale" ELSE "healthy"

UpdateHealth(x, time) ==
    [x EXCEPT !.health = Classify(x.beat.connected, time - x.seen)]

RefreshHealth(time) ==
    [r \in Replicas |-> {UpdateHealth(x, time) : x \in record[r]}]

Disturb(r) ==
    /\ disturbances < MaxDisturbances
    /\ disturbances' = disturbances + 1
    /\ calmSince' = [calmSince EXCEPT ![r] = now]

-----------------------------------------------------------------------------
(* The replica: what its Status says.                                       *)

(* A stream is opened or left. *)
ConnectionChanges(r) ==
    /\ up[r]
    /\ Disturb(r)
    /\ connected' = [connected EXCEPT ![r] = ~@]
    /\ UNCHANGED <<now, coreVars, flight, up, applied, has, former, reportVars,
                   startedAt, coreSince>>

(* processEvent applies the row that core sends for the next number. *)
ApplyEvent(r) ==
    /\ up[r]
    /\ applied[r] < lastSeq
    /\ applied' = [applied EXCEPT ![r] = @ + 1]
    /\ has' = [has EXCEPT ![r] = @ \cup {applied[r] + 1}]
    /\ UNCHANGED <<now, coreVars, flight, up, connected, former, reportVars, historyVars>>

(* refreshFromSnapshot, of a moment since core started. *)
InstallSnapshot(r) ==
    /\ up[r]
    /\ \E n \in applied[r] .. lastSeq :
          /\ applied' = [applied EXCEPT ![r] = n]
          /\ has' = [has EXCEPT ![r] = 1 .. n]
    /\ former' = former \ {r}
    /\ UNCHANGED <<now, coreVars, flight, up, connected, reportVars, historyVars>>

(* Events or a snapshot of a former core were still on their way. *)
ApplyLate(r) ==
    /\ up[r]
    /\ r \in former /\ has[r] = {}
    /\ \E n \in applied[r] + 1 .. MaxSeq : applied' = [applied EXCEPT ![r] = n]
    /\ UNCHANGED <<now, coreVars, flight, up, connected, has, former, reportVars,
                   historyVars>>

Apply(r) == ApplyEvent(r) \/ InstallSnapshot(r) \/ ApplyLate(r)

(* The process ends: its reporter with it, requests on their way stay. *)
ReplicaStops(r) ==
    /\ up[r]
    /\ Disturb(r)
    /\ up' = [up EXCEPT ![r] = FALSE]
    /\ connected' = [connected EXCEPT ![r] = FALSE]
    /\ due' = [due EXCEPT ![r] = {}]
    /\ post' = [post EXCEPT ![r] = {}]
    /\ UNCHANGED <<now, coreVars, flight, applied, has, former, startedAt, coreSince>>

(* A new process with an empty store. *)
ReplicaStarts(r) ==
    /\ ~up[r]
    /\ up' = [up EXCEPT ![r] = TRUE]
    /\ applied' = [applied EXCEPT ![r] = 0]
    /\ has' = [has EXCEPT ![r] = {}]
    /\ former' = former \ {r}
    /\ startedAt' = [startedAt EXCEPT ![r] = now]
    /\ calmSince' = [calmSince EXCEPT ![r] = now]
    /\ UNCHANGED <<now, coreVars, flight, connected, reportVars, disturbances, coreSince>>

-----------------------------------------------------------------------------
(* reportHeartbeats and sendHeartbeat.                                      *)

MustSend(r) == up[r] /\ post[r] = {} /\ \A d \in due[r] : d <= now

(* The ticker holds one tick: the next one taken is the first after now.    *)
NextFire(r) == {now + Interval - ((now - d) % Interval) : d \in due[r]}

(* Mutant of SendHeartbeat: the number known of core is sent for the one applied. *)
SendCoreSeq(r) ==
    LET b == [from |-> r, connected |-> connected[r],
              applied |-> lastSeq, sent |-> now]
    IN  /\ MustSend(r)
        /\ flight' = flight \cup {b}
        /\ post' = [post EXCEPT ![r] = {b}]
        /\ due' = [due EXCEPT ![r] = NextFire(r)]
        /\ UNCHANGED <<now, coreVars, processVars, historyVars>>

SendHeartbeat(r) ==
    LET b == [from |-> r, connected |-> connected[r],
              applied |-> applied[r], sent |-> now]
    IN  /\ MustSend(r)
        /\ flight' = flight \cup {b}
        /\ post' = [post EXCEPT ![r] = {b}]
        /\ due' = [due EXCEPT ![r] = NextFire(r)]
        /\ UNCHANGED <<now, coreVars, processVars, historyVars>>

(* Answered, failed or timed out; the ticker is made after the first post. *)
PostEnds(r) ==
    /\ post[r] # {}
    /\ post' = [post EXCEPT ![r] = {}]
    /\ due' = [due EXCEPT ![r] = IF @ = {} THEN {now + Interval} ELSE @]
    /\ UNCHANGED <<now, coreVars, flight, processVars, historyVars>>

HeartbeatLost(b) ==
    /\ b \in flight
    /\ Disturb(b.from)
    /\ flight' = flight \ {b}
    /\ UNCHANGED <<now, coreVars, processVars, reportVars, startedAt, coreSince>>

-----------------------------------------------------------------------------
(* Core.                                                                    *)

(* RecordReplicaHeartbeat reads the clock ... *)
HeartbeatArrives(b) ==
    /\ b \in flight
    /\ flight' = flight \ {b}
    /\ handling' = handling \cup {[beat |-> b, seen |-> now]}
    /\ UNCHANGED <<now, lastSeq, tickAt, record, processVars, reportVars, historyVars>>

(* The record that a heartbeat leaves, whatever there was before. *)
Recorded(h) == [beat |-> h.beat, seen |-> h.seen,
                health |-> Classify(h.beat.connected, 0)]

(* Mutant of RecordHeartbeat: its health waits for the next tick. *)
RecordUnclassified(h) ==
    /\ h \in handling
    /\ handling' = handling \ {h}
    /\ record' = [record EXCEPT ![h.beat.from] =
                    {[beat |-> h.beat, seen |-> h.seen, health |-> "unknown"]}]
    /\ UNCHANGED <<now, lastSeq, tickAt, flight, processVars, reportVars, historyVars>>

(* Mutant of RecordHeartbeat: a known replica is seen, what it says is not. *)
RecordSeenOnly(h) ==
    /\ h \in handling
    /\ handling' = handling \ {h}
    /\ record' = [record EXCEPT ![h.beat.from] =
                    IF @ = {} THEN {Recorded(h)} ELSE {[x EXCEPT !.seen = h.seen] : x \in @}]
    /\ UNCHANGED <<now, lastSeq, tickAt, flight, processVars, reportVars, historyVars>>

(* ... and overwrites the record when it has the lock. *)
RecordHeartbeat(h) ==
    /\ h \in handling
    /\ handling' = handling \ {h}
    /\ record' = [record EXCEPT ![h.beat.from] = {Recorded(h)}]
    /\ UNCHANGED <<now, lastSeq, tickAt, flight, processVars, reportVars, historyVars>>

(* Mutant of Evaluate: the tick evaluates markets only. *)
EvaluateMarketsOnly ==
    /\ tickAt <= now
    /\ tickAt' = tickAt + TickEvery
    /\ lastSeq' \in lastSeq .. MaxSeq
    /\ UNCHANGED <<now, record, handling, flight, processVars, reportVars, historyVars>>

(* evaluateAll with the time the ticker fired: events, then every health. *)
Evaluate ==
    /\ tickAt <= now
    /\ tickAt' = tickAt + TickEvery
    /\ lastSeq' \in lastSeq .. MaxSeq
    /\ record' = RefreshHealth(tickAt)
    /\ UNCHANGED <<now, handling, flight, processVars, reportVars, historyVars>>

(* The clocks that requests may have read before they get the lock. *)
RequestClocks == {time \in coreSince .. now : now <= time + MaxWait}

(* Mutant of Statuses: the health of the last tick or heartbeat is shown. *)
StatusesOfLastTick(time) == record

(* What a request with this clock answers when it has the lock. *)
Statuses(time) == RefreshHealth(time)

(* ReplicaStatuses: it reads the clock, waits for the lock, and answers. *)
ReplicaStatuses ==
    /\ \E time \in RequestClocks : record' = Statuses(time)
    /\ UNCHANGED <<now, lastSeq, tickAt, handling, flight, processVars, reportVars, historyVars>>

(* A new core process: no records, no log.  Requests it was handling end,   *)
(* and of its log no replica has a row, whatever number it stands at.       *)
CoreRestart ==
    /\ disturbances < MaxDisturbances
    /\ disturbances' = disturbances + 1
    /\ calmSince' = [r \in Replicas |-> now]
    /\ lastSeq' = 0
    /\ tickAt' = now + TickEvery
    /\ record' = [r \in Replicas |-> {}]
    /\ handling' = {}
    /\ coreSince' = now
    /\ has' = [r \in Replicas |-> {}]
    /\ former' = Replicas
    /\ UNCHANGED <<now, flight, up, connected, applied, reportVars, startedAt>>

-----------------------------------------------------------------------------
(* Nothing has to happen before the clock moves on. *)
NothingDue ==
    /\ \A b \in flight : now < b.sent + MaxDelay
    /\ \A h \in handling : now < h.seen + MaxWait
    /\ now < tickAt + MaxWait
    /\ \A r \in Replicas :
          /\ ~MustSend(r)
          /\ \A b \in post[r] : now < b.sent + PostTimeout

TimePasses ==
    /\ now < MaxTime
    /\ NothingDue
    /\ now' = now + 1
    /\ UNCHANGED <<coreVars, flight, processVars, reportVars, historyVars>>

ReplicaStep(r) ==
    \/ ConnectionChanges(r) \/ Apply(r) \/ ReplicaStops(r) \/ ReplicaStarts(r)
    \/ SendHeartbeat(r) \/ PostEnds(r)

CoreStep ==
    \/ \E h \in handling : RecordHeartbeat(h)
    \/ Evaluate
    \/ ReplicaStatuses
    \/ CoreRestart

HNext ==
    \/ TimePasses
    \/ \E r \in Replicas : ReplicaStep(r)
    \/ \E b \in flight : HeartbeatArrives(b) \/ HeartbeatLost(b)
    \/ CoreStep

HSpec == HInit /\ [][HNext]_vars

-----------------------------------------------------------------------------
(* Properties.                                                              *)

(* Every variable holds a value of the right kind. *)
HTypeOK ==
    /\ now \in Nat /\ lastSeq \in Nat /\ tickAt \in Nat
    /\ record \in [Replicas -> SUBSET Record]
    /\ handling \subseteq [beat : Beat, seen : Nat]
    /\ flight \subseteq Beat
    /\ up \in [Replicas -> BOOLEAN]
    /\ connected \in [Replicas -> BOOLEAN]
    /\ applied \in [Replicas -> Nat]
    /\ has \in [Replicas -> SUBSET (Nat \ {0})]
    /\ former \subseteq Replicas
    /\ due \in [Replicas -> SUBSET Nat]
    /\ post \in [Replicas -> SUBSET Beat]
    /\ disturbances \in Nat
    /\ calmSince \in [Replicas -> Nat]
    /\ startedAt \in [Replicas -> Nat]
    /\ coreSince \in Nat

(* "Heartbeat age threshold for stale" (README.md:332): a replica that any  *)
(* answer of /replicas/status calls healthy has said that it is connected   *)
(* within StaleAfter and the delay of one request, whatever was lost,       *)
(* overtaken, recorded out of order or left waiting for the lock.           *)
HealthyMeansRecent ==
    \A time \in RequestClocks, r \in Replicas : \A x \in Statuses(time)[r] :
        x.health = "healthy" =>
            x.beat.connected /\ time < x.beat.sent + MaxDelay + StaleAfter

(* How long after its last disturbance a replica may be misreported: until  *)
(* what was posted before is recorded, the post under way ends, and the     *)
(* next one after a whole interval is recorded.                             *)
Settle == 2 * (MaxDelay + MaxWait) + PostTimeout + Interval

(* From a heartbeat's clock to an answer before the next one is recorded. *)
OldestRecord == Interval + PostTimeout + MaxDelay + 2 * MaxWait

(* With thresholds above the delays, an undisturbed replica is healthy when *)
(* it is connected and offline when it is not, in every answer: no heartbeat *)
(* that comes late, out of order or between a clock and its lock makes core *)
(* raise or hide an outage.                                                 *)
UndisturbedIsJudgedRight ==
    OldestRecord <= StaleAfter =>
        \A time \in RequestClocks, r \in Replicas :
            up[r] /\ now > calmSince[r] + Settle =>
                /\ record[r] # {}
                /\ \A x \in Statuses(time)[r] :
                      x.health = IF connected[r] THEN "healthy" ELSE "offline"

(* "Heartbeat age threshold for offline" (README.md:333): the tick alone    *)
(* sees to it that a replica that has gone silent is held to be offline, and *)
(* no answer with an older clock brings it back.                            *)
SilentGoesOffline ==
    \A r \in Replicas : \A x \in record[r] :
        now >= x.seen + OfflineAfter + TickEvery + 2 * MaxWait =>
            x.health = "offline"

LagBehind(seq) == NonNegative(lastSeq - seq)

(* The events of core that r has still to apply. *)
Missing(r) == (1 .. lastSeq) \ has[r]

(* The lag that /replicas/status shows of a healthy replica is at least the *)
(* number of events it has really still to apply, whatever heartbeats came  *)
(* late or were overtaken, but for two cases: the replica lost its store in *)
(* a restart not longer ago than a heartbeat of its former process can      *)
(* count as recent, or it is core that has restarted under it and its       *)
(* number counts events of a log that is gone.                              *)
LagNotUnderstated ==
    \A time \in RequestClocks, r \in Replicas \ former : \A x \in Statuses(time)[r] :
        x.health = "healthy" /\ LagBehind(x.beat.applied) < Cardinality(Missing(r))
            => time < startedAt[r] + MaxDelay + StaleAfter
=============================================================================
