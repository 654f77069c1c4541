-------------------------- MODULE ReplicaHealthProofs --------------------------
(***************************************************************************)
(* Proofs about ReplicaHealth, for any replicas, thresholds, intervals and  *)
(* delays.  AgeInv relates the times at which a heartbeat is sent, seen and *)
(* recorded, SilenceInv relates them to the next tick of core, and CoverInv *)
(* to the ticker of the replica that sends them.                            *)
(***************************************************************************)
EXTENDS ReplicaHealth, FiniteSetTheorems, TLAPS

LEMMA Bounds ==
    /\ StaleAfter \in Nat \ {0} /\ OfflineAfter \in Nat \ {0}
    /\ TickEvery \in Nat \ {0} /\ Interval \in Nat \ {0} /\ PostTimeout \in Nat \ {0}
    /\ MaxDelay \in Nat /\ MaxWait \in Nat
    /\ MaxSeq \in Nat /\ MaxTime \in Nat /\ MaxDisturbances \in Nat
BY ReplicaHealthAssumption DEF ReplicaHealthAssumption

(* What a classification at a time makes of the records. *)
LEMMA Refreshed ==
    ASSUME NEW time, NEW r \in Replicas, NEW y \in RefreshHealth(time)[r],
           HTypeOK
    PROVE  \E x \in record[r] :
              y = [beat |-> x.beat, seen |-> x.seen,
                   health |-> Classify(x.beat.connected, time - x.seen)]
<1>1. PICK x \in record[r] : y = UpdateHealth(x, time)
    BY DEF RefreshHealth
<1>2. x \in Record
    BY DEF HTypeOK
<1> QED
    BY <1>1, <1>2 DEF UpdateHealth, Record

LEMMA ClassifyKind ==
    ASSUME NEW c, NEW age PROVE Classify(c, age) \in Healths
BY DEF Classify, Healths

-----------------------------------------------------------------------------
LEMMA TypeInit == HInit => HTypeOK
BY Bounds DEF HInit, HTypeOK

(* However a replica comes to apply more, nothing else of it changes. *)
LEMMA Applies ==
    ASSUME HTypeOK, NEW r \in Replicas, Apply(r)
    PROVE  /\ UNCHANGED <<now, coreVars, flight, up, connected, reportVars, historyVars>>
           /\ applied' \in [Replicas -> Nat]
           /\ \A q \in Replicas : applied'[q] >= applied[q]
           /\ has' \in [Replicas -> SUBSET (Nat \ {0})]
           /\ former' \subseteq Replicas
<1>1. applied \in [Replicas -> Nat] /\ has \in [Replicas -> SUBSET (Nat \ {0})]
      /\ lastSeq \in Nat /\ former \subseteq Replicas /\ MaxSeq \in Nat
    BY Bounds DEF HTypeOK
<1>2. ASSUME NEW n \in Nat, n >= applied[r], applied' = [applied EXCEPT ![r] = n]
      PROVE  applied' \in [Replicas -> Nat] /\ \A q \in Replicas : applied'[q] >= applied[q]
    BY <1>1, <1>2
<1>3. ASSUME NEW new \in SUBSET (Nat \ {0}), has' = [has EXCEPT ![r] = new]
      PROVE  has' \in [Replicas -> SUBSET (Nat \ {0})]
    BY <1>1, <1>3
<1>4. CASE ApplyEvent(r)
    <2>1. applied[r] + 1 \in Nat \ {0} /\ has[r] \cup {applied[r] + 1} \in SUBSET (Nat \ {0})
        BY <1>1
    <2>2. applied' = [applied EXCEPT ![r] = applied[r] + 1]
          /\ has' = [has EXCEPT ![r] = has[r] \cup {applied[r] + 1}]
          /\ former' = former
        BY <1>4 DEF ApplyEvent
    <2>3. applied' \in [Replicas -> Nat] /\ \A q \in Replicas : applied'[q] >= applied[q]
        BY <1>1, <1>2, <2>1, <2>2
    <2> QED
        BY <1>1, <1>3, <1>4, <2>1, <2>2, <2>3 DEF ApplyEvent
<1>5. CASE InstallSnapshot(r)
    <2>1. PICK n \in applied[r] .. lastSeq : /\ applied' = [applied EXCEPT ![r] = n]
                                             /\ has' = [has EXCEPT ![r] = 1 .. n]
        BY <1>5 DEF InstallSnapshot
    <2>2. n \in Nat /\ n >= applied[r] /\ 1 .. n \in SUBSET (Nat \ {0})
        BY <1>1
    <2>3. former' \subseteq Replicas
        BY <1>1, <1>5 DEF InstallSnapshot
    <2> QED
        BY <1>2, <1>3, <1>5, <2>1, <2>2, <2>3 DEF InstallSnapshot
<1>6. CASE ApplyLate(r)
    <2>1. PICK n \in applied[r] + 1 .. MaxSeq : applied' = [applied EXCEPT ![r] = n]
        BY <1>6 DEF ApplyLate
    <2>2. n \in Nat /\ n >= applied[r]
        BY <1>1
    <2> QED
        BY <1>1, <1>2, <1>6, <2>1, <2>2 DEF ApplyLate
<1> QED
    BY <1>4, <1>5, <1>6 DEF Apply

LEMMA TypeReplica ==
    ASSUME HTypeOK, NEW r \in Replicas, ReplicaStep(r)
    PROVE  HTypeOK'
<1> USE Bounds
<1> USE DEF HTypeOK, coreVars, processVars, reportVars, historyVars
<1>1. CASE ConnectionChanges(r)
    <2>1. connected' \in [Replicas -> BOOLEAN]
        BY <1>1, Zenon DEF ConnectionChanges
    <2> QED
        BY <1>1, <2>1 DEF ConnectionChanges, Disturb
<1>2. CASE Apply(r)
    BY <1>2, Applies
<1>3. CASE ReplicaStops(r)
    <2>1. connected' \in [Replicas -> BOOLEAN] /\ up' \in [Replicas -> BOOLEAN]
        BY <1>3, Zenon DEF ReplicaStops
    <2> QED
        BY <1>3, <2>1 DEF ReplicaStops, Disturb
<1>4. CASE ReplicaStarts(r)
    <2>1. up' \in [Replicas -> BOOLEAN]
        BY <1>4, Zenon DEF ReplicaStarts
    <2> QED
        BY <1>4, <2>1 DEF ReplicaStarts
<1>5. CASE SendHeartbeat(r)
    <2> DEFINE b == [from |-> r, connected |-> connected[r],
                     applied |-> applied[r], sent |-> now]
    <2>1. b \in Beat
        BY DEF Beat
    <2>2. NextFire(r) \subseteq Nat
        BY DEF NextFire
    <2>3. flight' = flight \cup {b} /\ post' = [post EXCEPT ![r] = {b}]
          /\ due' = [due EXCEPT ![r] = NextFire(r)]
          /\ UNCHANGED <<now, coreVars, processVars, historyVars>>
        BY <1>5 DEF SendHeartbeat
    <2> QED
        BY <2>1, <2>2, <2>3
<1>6. CASE PostEnds(r)
    BY <1>6 DEF PostEnds
<1> QED
    BY <1>1, <1>2, <1>3, <1>4, <1>5, <1>6 DEF ReplicaStep

LEMMA TypeNext == HTypeOK /\ [HNext]_vars => HTypeOK'
<1> SUFFICES ASSUME HTypeOK, [HNext]_vars PROVE HTypeOK'
    OBVIOUS
<1> USE Bounds
<1> USE DEF HTypeOK, coreVars, processVars, reportVars, historyVars
<1>1. ASSUME NEW time, record' = RefreshHealth(time)
      PROVE  record' \in [Replicas -> SUBSET Record]
    <2>1. ASSUME NEW r \in Replicas, NEW y \in RefreshHealth(time)[r]
          PROVE  y \in Record
        BY <2>1, Refreshed, ClassifyKind DEF Record
    <2> QED
        BY <1>1, <2>1 DEF RefreshHealth
<1>2. CASE TimePasses
    BY <1>2 DEF TimePasses
<1>3. ASSUME NEW r \in Replicas, ReplicaStep(r) PROVE HTypeOK'
    BY <1>3, TypeReplica
<1>4. ASSUME NEW b \in flight, HeartbeatArrives(b) PROVE HTypeOK'
    BY <1>4 DEF HeartbeatArrives
<1>5. ASSUME NEW b \in flight, HeartbeatLost(b) PROVE HTypeOK'
    BY <1>5 DEF HeartbeatLost, Disturb, Beat
<1>6. ASSUME NEW h \in handling, RecordHeartbeat(h) PROVE HTypeOK'
    <2>1. Recorded(h) \in Record
        BY ClassifyKind DEF Recorded, Record
    <2> QED
        BY <1>6, <2>1 DEF RecordHeartbeat
<1>7. CASE Evaluate
    BY <1>1, <1>7 DEF Evaluate
<1>8. CASE ReplicaStatuses
    BY <1>1, <1>8 DEF ReplicaStatuses, Statuses
<1>9. CASE CoreRestart
    BY <1>9 DEF CoreRestart
<1>10. CASE UNCHANGED vars
    BY <1>10 DEF vars
<1> QED
    BY <1>2, <1>3, <1>4, <1>5, <1>6, <1>7, <1>8, <1>9, <1>10 DEF HNext, CoreStep

(* Every record, heartbeat and time keeps its kind. *)
THEOREM HTypeCorrect == HSpec => []HTypeOK
BY TypeInit, TypeNext, PTL DEF HSpec

-----------------------------------------------------------------------------
(* Heartbeats arrive within MaxDelay and are recorded within MaxWait, and   *)
(* of the present process of a replica they tell no more than it applied.   *)
Timely(b) == b.sent <= now
Honest(b) == b.sent > startedAt[b.from] => b.applied <= applied[b.from]
SeenInTime(x) == x.beat.sent <= x.seen /\ x.seen <= x.beat.sent + MaxDelay /\ x.seen <= now

AgeInv ==
    /\ \A b \in flight : Timely(b) /\ now <= b.sent + MaxDelay /\ Honest(b)
    /\ \A h \in handling : SeenInTime(h) /\ now <= h.seen + MaxWait /\ Honest(h.beat)
    /\ \A r \in Replicas : \A x \in record[r] :
          x.beat.from = r /\ SeenInTime(x) /\ Honest(x.beat)

(* The next tick is not far off, and it finds every record of a silent      *)
(* replica old enough.                                                      *)
TickInv == now <= tickAt + MaxWait /\ tickAt <= now + TickEvery

SilenceInv ==
    \A r \in Replicas : \A x \in record[r] :
        x.health # "offline" =>
            tickAt < x.seen + OfflineAfter + TickEvery + MaxWait

HealthInv == HTypeOK /\ AgeInv /\ TickInv /\ SilenceInv

LEMMA AgeInit == HInit => AgeInv /\ TickInv /\ SilenceInv
BY Bounds DEF HInit, AgeInv, TickInv, SilenceInv

(* Of the steps of a replica only a heartbeat and a start matter. *)
LEMMA AgeReplica ==
    ASSUME HealthInv, NEW r \in Replicas, ReplicaStep(r)
    PROVE  AgeInv' /\ TickInv' /\ SilenceInv'
<1> USE Bounds
<1> USE DEF HealthInv, AgeInv, TickInv, SilenceInv, Timely, Honest, SeenInTime, coreVars
<1>1. ASSUME UNCHANGED <<now, coreVars, startedAt>>,
             \A q \in Replicas : applied'[q] \in Nat /\ applied'[q] >= applied[q],
             \A b \in flight' : b \in flight \/ (Timely(b) /\ now <= b.sent + MaxDelay /\ Honest(b))
      PROVE  AgeInv' /\ TickInv' /\ SilenceInv'
    <2>1. \A b \in Beat : Honest(b) => Honest(b)'
        BY <1>1 DEF Beat, HTypeOK
    <2>2. \A b \in flight' : (Timely(b) /\ now <= b.sent + MaxDelay /\ Honest(b))'
        <3>1. ASSUME NEW b \in flight'
              PROVE  b \in Beat /\ Timely(b) /\ now <= b.sent + MaxDelay /\ Honest(b)
            BY <1>1, TypeReplica DEF HTypeOK
        <3> QED
            BY <1>1, <2>1, <3>1
    <2>3. \A h \in handling : h.beat \in Beat
        BY DEF HTypeOK
    <2>4. \A q \in Replicas : \A x \in record[q] : x.beat \in Beat
        BY DEF HTypeOK, Record
    <2> HIDE DEF Honest
    <2> QED
        BY <1>1, <2>1, <2>2, <2>3, <2>4
<1>2. CASE ConnectionChanges(r) \/ ReplicaStops(r) \/ PostEnds(r)
    BY <1>1, <1>2
       DEF ConnectionChanges, ReplicaStops, PostEnds, Disturb, processVars, historyVars, HTypeOK
<1>3. CASE Apply(r)
    <2>1. UNCHANGED <<now, coreVars, flight, historyVars>>
          /\ applied' \in [Replicas -> Nat] /\ \A q \in Replicas : applied'[q] >= applied[q]
        BY <1>3, Applies
    <2> QED
        BY <1>1, <2>1 DEF historyVars
<1>4. CASE SendHeartbeat(r)
    BY <1>1, <1>4 DEF SendHeartbeat, processVars, historyVars, HTypeOK
<1>5. CASE ReplicaStarts(r)
    <2>1. \A b \in Beat : Timely(b) /\ Honest(b) => Honest(b)'
        BY <1>5 DEF ReplicaStarts, Beat, HTypeOK
    <2> QED
        BY <1>5, <2>1 DEF ReplicaStarts, HTypeOK, Record, Beat
<1> QED
    BY <1>2, <1>3, <1>4, <1>5 DEF ReplicaStep

(* A classification with a recent clock keeps what is known of the records. *)
LEMMA AgeRefresh ==
    ASSUME HealthInv, NEW time \in Nat, record' = RefreshHealth(time),
           UNCHANGED <<now, handling, flight, processVars, reportVars, historyVars>>,
           tickAt' \in Nat, tickAt' <= time + TickEvery + MaxWait
    PROVE  AgeInv' /\ SilenceInv'
<1> USE Bounds
<1> USE DEF HealthInv, processVars, historyVars
<1>1. ASSUME NEW r \in Replicas, NEW y \in record'[r]
      PROVE  /\ y.beat.from = r /\ SeenInTime(y)' /\ Honest(y.beat)'
             /\ y.health # "offline" => tickAt' < y.seen + OfflineAfter + TickEvery + MaxWait
    <2>1. PICK x \in record[r] :
              y = [beat |-> x.beat, seen |-> x.seen,
                   health |-> Classify(x.beat.connected, time - x.seen)]
        BY <1>1, Refreshed
    <2>2. x.beat.from = r /\ SeenInTime(x) /\ Honest(x.beat) /\ x.seen \in Nat
        BY DEF AgeInv, HTypeOK, Record
    <2>3. SeenInTime(y)' /\ Honest(y.beat)'
        BY <2>1, <2>2 DEF SeenInTime, Honest
    <2>4. y.health # "offline" => time - x.seen < OfflineAfter
        BY <2>1, <2>2 DEF Classify, NonNegative
    <2> QED
        BY <2>1, <2>2, <2>3, <2>4
<1>2. \A b \in flight' : (Timely(b) /\ now <= b.sent + MaxDelay /\ Honest(b))'
    BY DEF AgeInv, Timely, Honest
<1>3. \A h \in handling' : (SeenInTime(h) /\ now <= h.seen + MaxWait /\ Honest(h.beat))'
    BY DEF AgeInv, SeenInTime, Honest
<1> QED
    BY <1>1, <1>2, <1>3 DEF AgeInv, SilenceInv

LEMMA AgeNext == HealthInv /\ [HNext]_vars => AgeInv' /\ TickInv' /\ SilenceInv'
<1> SUFFICES ASSUME HealthInv, [HNext]_vars PROVE AgeInv' /\ TickInv' /\ SilenceInv'
    OBVIOUS
<1> USE Bounds
<1> USE DEF HealthInv, coreVars, processVars, reportVars, historyVars
<1>1. CASE TimePasses
    BY <1>1 DEF TimePasses, NothingDue, AgeInv, TickInv, SilenceInv, Timely, Honest,
       SeenInTime, HTypeOK, Beat, Record
<1>2. ASSUME NEW r \in Replicas, ReplicaStep(r) PROVE AgeInv' /\ TickInv' /\ SilenceInv'
    BY <1>2, AgeReplica
<1>3. ASSUME NEW b \in flight, HeartbeatArrives(b) PROVE AgeInv' /\ TickInv' /\ SilenceInv'
    BY <1>3 DEF HeartbeatArrives, AgeInv, TickInv, SilenceInv, Timely, Honest, SeenInTime,
       HTypeOK, Beat
<1>4. ASSUME NEW b \in flight, HeartbeatLost(b) PROVE AgeInv' /\ TickInv' /\ SilenceInv'
    BY <1>4 DEF HeartbeatLost, Disturb, AgeInv, TickInv, SilenceInv, Timely, Honest, SeenInTime
<1>5. ASSUME NEW h \in handling, RecordHeartbeat(h) PROVE AgeInv' /\ TickInv' /\ SilenceInv'
    <2>1. h.beat.from \in Replicas /\ h.seen \in Nat /\ now <= h.seen + MaxWait
        BY DEF HTypeOK, Beat, AgeInv
    <2>2. tickAt < h.seen + OfflineAfter + TickEvery + MaxWait
        BY <2>1 DEF TickInv, HTypeOK
    <2>3. \A r \in Replicas : \A x \in record'[r] :
              x \in record[r] \/ (r = h.beat.from /\ x = Recorded(h))
        BY <1>5, <2>1 DEF RecordHeartbeat, HTypeOK
    <2>4. SeenInTime(Recorded(h)) /\ Honest(Recorded(h).beat)
        BY DEF AgeInv, Recorded, SeenInTime
    <2> QED
        BY <1>5, <2>2, <2>3, <2>4 DEF RecordHeartbeat, Recorded, AgeInv, TickInv, SilenceInv,
           Timely, Honest, SeenInTime
<1>6. CASE Evaluate
    <2>1. TickInv' /\ tickAt' \in Nat
        BY <1>6 DEF Evaluate, TickInv, HTypeOK
    <2> QED
        BY <1>6, <2>1, AgeRefresh DEF Evaluate, HTypeOK
<1>7. CASE ReplicaStatuses
    <2>1. PICK time \in RequestClocks : record' = RefreshHealth(time)
        BY <1>7 DEF ReplicaStatuses, Statuses
    <2>2. time \in Nat /\ now <= time + MaxWait
        BY DEF RequestClocks, HTypeOK
    <2>3. tickAt' \in Nat /\ tickAt' <= time + TickEvery + MaxWait
        BY <1>7, <2>2 DEF ReplicaStatuses, TickInv, HTypeOK
    <2>4. TickInv'
        BY <1>7 DEF ReplicaStatuses, TickInv
    <2> QED
        BY <1>7, <2>1, <2>2, <2>3, <2>4, AgeRefresh DEF ReplicaStatuses
<1>8. CASE CoreRestart
    BY <1>8 DEF CoreRestart, AgeInv, TickInv, SilenceInv, Timely, Honest, HTypeOK
<1>9. CASE UNCHANGED vars
    BY <1>9 DEF vars, AgeInv, TickInv, SilenceInv, Timely, Honest, SeenInTime
<1> QED
    BY <1>1, <1>2, <1>3, <1>4, <1>5, <1>6, <1>7, <1>8, <1>9 DEF HNext, CoreStep

LEMMA HealthCorrect == HSpec => []HealthInv
<1>1. HInit => HealthInv
    BY TypeInit, AgeInit DEF HealthInv
<1>2. HealthInv /\ [HNext]_vars => HealthInv'
    BY TypeNext, AgeNext DEF HealthInv
<1> QED
    BY <1>1, <1>2, PTL DEF HSpec

-----------------------------------------------------------------------------
(* What an answer of /replicas/status can be based on. *)
LEMMA HealthyAnswer ==
    ASSUME HealthInv, NEW time \in RequestClocks, NEW r \in Replicas,
           NEW y \in Statuses(time)[r], y.health = "healthy"
    PROVE  /\ y.beat \in Beat /\ y.beat.from = r /\ Honest(y.beat)
           /\ y.beat.connected /\ time < y.beat.sent + MaxDelay + StaleAfter
<1> USE Bounds
<1>1. PICK x \in record[r] :
          y = [beat |-> x.beat, seen |-> x.seen,
               health |-> Classify(x.beat.connected, time - x.seen)]
    BY Refreshed DEF Statuses, HealthInv
<1>2. /\ x.beat \in Beat /\ x.seen \in Nat
      /\ x.beat.from = r /\ SeenInTime(x) /\ Honest(x.beat)
    BY DEF HealthInv, HTypeOK, AgeInv, Record
<1>3. time \in Nat
    BY DEF RequestClocks, HealthInv, HTypeOK
<1>4. x.beat.connected /\ time - x.seen < StaleAfter
    BY <1>1, <1>2, <1>3 DEF Classify, NonNegative
<1> QED
    BY <1>1, <1>2, <1>3, <1>4 DEF SeenInTime, Beat

(* A replica that is called healthy said a short time ago that it is        *)
(* connected, for any delays and order of heartbeats.                       *)
THEOREM HealthyIsRecent == HSpec => []HealthyMeansRecent
<1>1. HealthInv => HealthyMeansRecent
    BY HealthyAnswer DEF HealthyMeansRecent
<1> QED
    BY <1>1, HealthCorrect, PTL

(* A silent replica is offline after one more tick, and stays so. *)
THEOREM SilentIsOffline == HSpec => []SilentGoesOffline
<1>1. HealthInv => SilentGoesOffline
    BY Bounds DEF HealthInv, HTypeOK, Record, TickInv, SilenceInv, SilentGoesOffline
<1> QED
    BY <1>1, HealthCorrect, PTL

(* A process that has not outlived a core has every event up to its number. *)
HasInv ==
    \A r \in Replicas \ former : 1 .. applied[r] \subseteq has[r]

LEMMA HasNext == HTypeOK /\ HasInv /\ [HNext]_vars => HasInv'
<1> SUFFICES ASSUME HTypeOK, HasInv, [HNext]_vars PROVE HasInv'
    OBVIOUS
<1> USE Bounds DEF coreVars, processVars, reportVars, historyVars, HTypeOK, HasInv
<1>1. ASSUME NEW r \in Replicas, ReplicaStep(r) PROVE HasInv'
    <2>1. CASE ApplyEvent(r)
        <3>1. \A q \in Replicas \ former : 1 .. applied'[q] \subseteq has'[q]
            BY <2>1 DEF ApplyEvent
        <3> QED
            BY <2>1, <3>1 DEF ApplyEvent
    <2>2. CASE InstallSnapshot(r)
        BY <2>2 DEF InstallSnapshot
    <2>3. CASE ApplyLate(r)
        BY <2>3 DEF ApplyLate
    <2>4. CASE ReplicaStarts(r)
        BY <2>4 DEF ReplicaStarts
    <2>5. CASE ConnectionChanges(r) \/ ReplicaStops(r) \/ SendHeartbeat(r) \/ PostEnds(r)
        BY <2>5 DEF ConnectionChanges, ReplicaStops, SendHeartbeat, PostEnds
    <2> QED
        BY <1>1, <2>1, <2>2, <2>3, <2>4, <2>5 DEF ReplicaStep, Apply
<1>2. ASSUME NEW b \in flight, HeartbeatArrives(b) \/ HeartbeatLost(b) PROVE HasInv'
    BY <1>2 DEF HeartbeatArrives, HeartbeatLost
<1>3. CASE CoreStep
    BY <1>3 DEF CoreStep, RecordHeartbeat, Evaluate, ReplicaStatuses, CoreRestart
<1>4. CASE TimePasses \/ UNCHANGED vars
    BY <1>4 DEF TimePasses, vars
<1> QED
    BY <1>1, <1>2, <1>3, <1>4 DEF HNext

(* Of such a process the number tells what it has still to apply. *)
LEMMA MissingCount ==
    ASSUME HTypeOK, HasInv, NEW r \in Replicas \ former
    PROVE  Cardinality(Missing(r)) <= LagBehind(applied[r])
<1>1. lastSeq \in Nat /\ applied[r] \in Nat /\ 1 .. applied[r] \subseteq has[r]
    BY DEF HTypeOK, HasInv
<1>2. Missing(r) \subseteq applied[r] + 1 .. lastSeq
    BY <1>1 DEF Missing
<1>3. /\ IsFiniteSet(applied[r] + 1 .. lastSeq)
      /\ Cardinality(applied[r] + 1 .. lastSeq) =
            IF applied[r] + 1 > lastSeq THEN 0 ELSE lastSeq - (applied[r] + 1) + 1
    <2>1. applied[r] + 1 \in Int /\ lastSeq \in Int
        BY <1>1
    <2> QED
        BY <2>1, FS_Interval, Zenon
<1>4. Cardinality(applied[r] + 1 .. lastSeq) = LagBehind(applied[r])
    BY <1>1, <1>3 DEF LagBehind, NonNegative
<1>5. Cardinality(Missing(r)) <= Cardinality(applied[r] + 1 .. lastSeq)
    BY <1>2, <1>3, FS_Subset
<1> QED
    BY <1>4, <1>5

(* No late or overtaken heartbeat makes core show a smaller lag than the    *)
(* number of events a healthy replica has still to apply, unless it or core *)
(* has restarted as LagNotUnderstated says.                                 *)
THEOREM LagIsNotUnderstated == HSpec => []LagNotUnderstated
<1>1. ASSUME HealthInv, HasInv, NEW time \in RequestClocks, NEW r \in Replicas \ former,
             NEW x \in Statuses(time)[r], x.health = "healthy",
             LagBehind(x.beat.applied) < Cardinality(Missing(r))
      PROVE  time < startedAt[r] + MaxDelay + StaleAfter
    <2>1. /\ x.beat \in Beat /\ x.beat.from = r /\ Honest(x.beat)
          /\ time < x.beat.sent + MaxDelay + StaleAfter
        BY <1>1, HealthyAnswer
    <2>2. applied[r] \in Nat /\ startedAt[r] \in Nat /\ lastSeq \in Nat /\ time \in Nat
        BY <1>1 DEF HealthInv, HTypeOK, RequestClocks
    <2>3. Cardinality(Missing(r)) <= LagBehind(applied[r])
        BY <1>1, MissingCount DEF HealthInv
    <2>4. x.beat.applied \in Nat /\ x.beat.sent \in Nat
        BY <2>1 DEF Beat
    <2>5. IsFiniteSet(Missing(r))
        <3>1. IsFiniteSet(1 .. lastSeq)
            BY <2>2, 1 \in Int, lastSeq \in Int, FS_Interval, Zenon
        <3> QED
            BY <3>1, FS_Difference, Zenon DEF Missing
    <2>6. Cardinality(Missing(r)) \in Nat
        BY <2>5, FS_CardinalityType
    <2>7. x.beat.applied > applied[r]
        BY <1>1, <2>2, <2>3, <2>4, <2>6 DEF LagBehind, NonNegative
    <2> QED
        BY <2>1, <2>2, <2>4, <2>7, Bounds DEF Honest
<1>2. HealthInv /\ HasInv => LagNotUnderstated
    BY <1>1 DEF LagNotUnderstated
<1>3. HInit => HasInv
    BY DEF HInit, HasInv
<1>4. HealthInv /\ HasInv /\ [HNext]_vars => HasInv'
    BY HasNext DEF HealthInv
<1> QED
    BY <1>2, <1>3, <1>4, HealthCorrect, PTL DEF HSpec
-----------------------------------------------------------------------------
(* An undisturbed replica.  From its second heartbeat on, each is sent at   *)
(* most Spread after the one before.                                        *)
Spread == Interval + PostTimeout - 1

(* The heartbeats of a replica that are sent and not recorded. *)
Pending(r) == {b \in flight \cup {h.beat : h \in handling} : b.from = r}

(* As far as its ticker tells, r has sent a heartbeat in the Spread ticks   *)
(* that begin with t, or does so before they are over.                      *)
Posted(r, t) ==
    /\ due[r] # {}
    /\ IF post[r] = {} THEN t + Spread <= now \/ \E d \in due[r] : t + Spread <= d
       ELSE \E b \in post[r] : t <= b.sent

(* Core has it: it is on its way or waits for the lock, or something that   *)
(* had the lock after it was sent made the record.                          *)
Heard(r, t) ==
    \/ \E b \in Pending(r) : t <= b.sent /\ b.sent < t + Spread
    \/ record[r] # {} /\ \A x \in record[r] : t <= x.seen + MaxWait

ReporterInv ==
    \A r \in Replicas :
        /\ startedAt[r] <= calmSince[r] /\ calmSince[r] <= now
        /\ \A b \in post[r] :
              /\ b.sent <= now /\ now <= b.sent + PostTimeout
              /\ due[r] = {} => b.sent <= startedAt[r]
              /\ \A d \in due[r] : d <= b.sent + Interval
        /\ \A d \in due[r] : d <= now + Interval
        /\ up[r] /\ post[r] = {} /\ due[r] = {} => now <= startedAt[r]
        /\ ~up[r] => post[r] = {} /\ due[r] = {}

CoverInv ==
    \A r \in Replicas, t \in Nat :
        up[r] /\ calmSince[r] + 1 < t /\ t <= now /\ Posted(r, t) => Heard(r, t)

(* What was said since the last disturbance still holds. *)
FreshInv ==
    \A r \in Replicas :
        /\ \A b \in Pending(r) : b.sent > calmSince[r] => b.connected = connected[r]
        /\ \A x \in record[r] :
              x.beat.sent > calmSince[r] => x.beat.connected = connected[r]

(* A record that is heard of long enough after the last disturbance is young *)
(* and tells the truth.                                                     *)
LEMMA JudgedRight ==
    ASSUME HealthInv, ReporterInv, CoverInv, FreshInv, OldestRecord <= StaleAfter,
           NEW time \in RequestClocks, NEW r \in Replicas,
           up[r], now > calmSince[r] + Settle
    PROVE  /\ record[r] # {}
           /\ \A y \in Statuses(time)[r] :
                 y.health = IF connected[r] THEN "healthy" ELSE "offline"
<1> USE Bounds
<1> DEFINE t == now - MaxDelay - MaxWait - Spread
<1>1. /\ now \in Nat /\ calmSince[r] \in Nat /\ startedAt[r] \in Nat
      /\ time \in Nat /\ time <= now
    BY DEF HealthInv, HTypeOK, RequestClocks
<1>2. t \in Nat /\ calmSince[r] + 1 < t /\ t <= now
    BY <1>1 DEF Spread, Settle
<1>3. Posted(r, t)
    <2>1. \A b \in post[r] : b.sent \in Nat
        BY DEF HealthInv, HTypeOK, Beat
    <2>2. CASE due[r] = {}
        <3>1. startedAt[r] <= calmSince[r]
            BY DEF ReporterInv
        <3>2. CASE post[r] = {}
            <4>1. now <= startedAt[r]
                BY <2>2, <3>2 DEF ReporterInv
            <4> QED
                BY <1>1, <3>1, <4>1 DEF Settle
        <3>3. CASE post[r] # {}
            <4>1. PICK b \in post[r] : now <= b.sent + PostTimeout /\ b.sent <= startedAt[r]
                BY <2>2, <3>3 DEF ReporterInv
            <4> QED
                BY <1>1, <2>1, <3>1, <4>1 DEF Settle
        <3> QED
            BY <3>2, <3>3
    <2>3. CASE due[r] # {} /\ post[r] = {}
        BY <1>1, <2>3 DEF Posted, Spread
    <2>4. CASE due[r] # {} /\ post[r] # {}
        <3>1. PICK b \in post[r] : now <= b.sent + PostTimeout
            BY <2>4 DEF ReporterInv
        <3>2. t <= b.sent
            BY <1>1, <2>1, <3>1 DEF Spread
        <3> HIDE DEF t
        <3> QED
            BY <2>4, <3>1, <3>2, Zenon DEF Posted
    <2> QED
        BY <2>2, <2>3, <2>4
<1>4. \A b \in Pending(r) : b.sent >= t + Spread
    <2>1. \A b \in flight : b.sent \in Nat /\ now <= b.sent + MaxDelay
        BY DEF HealthInv, HTypeOK, Beat, AgeInv
    <2>2. \A h \in handling : h.beat.sent \in Nat /\ now <= h.beat.sent + MaxDelay + MaxWait
        BY <1>1 DEF HealthInv, HTypeOK, Beat, AgeInv, SeenInTime
    <2> QED
        BY <1>1, <2>1, <2>2 DEF Pending, Spread
<1>5. record[r] # {} /\ \A x \in record[r] : t <= x.seen + MaxWait
    <2> HIDE DEF t
    <2>1. Heard(r, t)
        BY <1>2, <1>3 DEF CoverInv
    <2>2. \A b \in Pending(r) : b.sent \in Nat
        BY DEF HealthInv, HTypeOK, Beat, Pending
    <2> QED
        BY <1>2, <1>4, <2>1, <2>2 DEF Heard, Spread
<1>6. ASSUME NEW x \in record[r]
      PROVE  /\ x \in Record /\ x.beat.connected = connected[r]
             /\ x.seen \in Nat /\ time - x.seen < StaleAfter
    <2>1. x \in Record /\ x.seen \in Nat /\ x.beat.sent \in Nat /\ SeenInTime(x)
        BY DEF HealthInv, HTypeOK, Record, Beat, AgeInv
    <2>2. x.beat.sent > calmSince[r]
        BY <1>1, <1>5, <2>1 DEF SeenInTime, Spread, Settle
    <2>3. time - x.seen < StaleAfter
        BY <1>1, <1>5, <2>1 DEF Spread, OldestRecord
    <2> QED
        BY <2>1, <2>2, <2>3 DEF FreshInv
<1>7. ASSUME NEW y \in Statuses(time)[r]
      PROVE  y.health = IF connected[r] THEN "healthy" ELSE "offline"
    <2>1. PICK x \in record[r] :
              y = [beat |-> x.beat, seen |-> x.seen,
                   health |-> Classify(x.beat.connected, time - x.seen)]
        BY Refreshed DEF Statuses, HealthInv
    <2>2. y.health = Classify(connected[r], time - x.seen)
        BY <1>6, <2>1
    <2>3. time - x.seen \in Int /\ time - x.seen < StaleAfter /\ StaleAfter <= OfflineAfter
        BY <1>1, <1>6, ReplicaHealthAssumption DEF ReplicaHealthAssumption
    <2> QED
        BY <2>2, <2>3 DEF Classify, NonNegative
<1> QED
    BY <1>5, <1>7

LEMMA JudgedInit == HInit => ReporterInv /\ CoverInv /\ FreshInv
BY DEF HInit, ReporterInv, CoverInv, FreshInv, Posted, Pending

(* The ticker fires within an interval, and once it exists it goes on. *)
LEMMA NextFireSoon ==
    ASSUME HTypeOK, NEW r \in Replicas
    PROVE  /\ \A d \in NextFire(r) : d <= now + Interval
           /\ NextFire(r) = {} => due[r] = {}
<1>1. ASSUME NEW d \in due[r] PROVE now + Interval - ((now - d) % Interval) <= now + Interval
    <2>1. now \in Nat /\ d \in Nat /\ Interval \in Nat \ {0}
        BY Bounds DEF HTypeOK
    <2>2. (now - d) % Interval \in Nat
        BY <2>1, SMTT(20)
    <2> QED
        BY <2>1, <2>2
<1> QED
    BY <1>1 DEF NextFire

LEMMA ReporterNext == HealthInv /\ ReporterInv /\ [HNext]_vars => ReporterInv'
<1> SUFFICES ASSUME HealthInv, ReporterInv, [HNext]_vars PROVE ReporterInv'
    OBVIOUS
<1> USE Bounds
<1> USE DEF coreVars, processVars, reportVars, historyVars
<1>1. HTypeOK
    BY DEF HealthInv
<1>2. CASE TimePasses
    <2>1. ASSUME NEW r \in Replicas
          PROVE  /\ calmSince[r] <= now'
                 /\ \A b \in post[r] : b.sent <= now' /\ now' <= b.sent + PostTimeout
                 /\ \A d \in due[r] : d <= now' + Interval
                 /\ ~(up[r] /\ post[r] = {} /\ due[r] = {})
        BY <1>1, <1>2 DEF TimePasses, NothingDue, MustSend, ReporterInv, HTypeOK, Beat
    <2> QED
        BY <1>2, <2>1 DEF TimePasses, ReporterInv
<1>3. ASSUME NEW r \in Replicas, ReplicaStep(r) PROVE ReporterInv'
    <2> USE DEF ReporterInv, HTypeOK
    <2>1. CASE ConnectionChanges(r)
        BY <1>1, <2>1 DEF ConnectionChanges, Disturb
    <2>2. CASE Apply(r)
        BY <1>1, <2>2, Applies
    <2>3. CASE ReplicaStops(r)
        BY <1>1, <2>3 DEF ReplicaStops, Disturb
    <2>4. CASE ReplicaStarts(r)
        BY <1>1, <2>4 DEF ReplicaStarts
    <2>5. CASE SendHeartbeat(r)
        <3> DEFINE b == [from |-> r, connected |-> connected[r],
                         applied |-> applied[r], sent |-> now]
        <3>1. /\ b.sent = now /\ post' = [post EXCEPT ![r] = {b}]
              /\ due' = [due EXCEPT ![r] = NextFire(r)]
            BY <2>5 DEF SendHeartbeat
        <3> HIDE DEF b
        <3>2. /\ \A d \in NextFire(r) : d <= now + Interval
              /\ NextFire(r) = {} => due[r] = {}
            BY <1>1, NextFireSoon
        <3> QED
            BY <1>1, <2>5, <3>1, <3>2 DEF SendHeartbeat, MustSend
    <2>6. CASE PostEnds(r)
        BY <1>1, <2>6 DEF PostEnds
    <2> QED
        BY <1>3, <2>1, <2>2, <2>3, <2>4, <2>5, <2>6 DEF ReplicaStep
<1>4. ASSUME NEW b \in flight, HeartbeatArrives(b) \/ HeartbeatLost(b) PROVE ReporterInv'
    BY <1>1, <1>4 DEF HeartbeatArrives, HeartbeatLost, Disturb, ReporterInv, HTypeOK
<1>5. ASSUME NEW h \in handling, RecordHeartbeat(h) PROVE ReporterInv'
    BY <1>5 DEF RecordHeartbeat, ReporterInv
<1>6. CASE Evaluate \/ ReplicaStatuses
    BY <1>6 DEF Evaluate, ReplicaStatuses, ReporterInv
<1>7. CASE CoreRestart
    BY <1>1, <1>7 DEF CoreRestart, ReporterInv, HTypeOK
<1>8. CASE UNCHANGED vars
    BY <1>8 DEF vars, ReporterInv
<1> QED
    BY <1>2, <1>3, <1>4, <1>5, <1>6, <1>7, <1>8 DEF HNext, CoreStep

LEMMA FreshNext == HealthInv /\ ReporterInv /\ FreshInv /\ [HNext]_vars => FreshInv'
<1> SUFFICES ASSUME HealthInv, ReporterInv, FreshInv, [HNext]_vars PROVE FreshInv'
    OBVIOUS
<1> USE DEF coreVars, processVars, reportVars, historyVars
<1>1. HTypeOK /\ AgeInv
    BY DEF HealthInv
<1>2. \A b \in flight : b \in Beat /\ b.sent \in Nat /\ b.sent <= now
    BY <1>1 DEF HTypeOK, AgeInv, Timely, Beat
<1>3. \A h \in handling : h.beat \in Beat /\ h.beat.sent \in Nat /\ h.beat.sent <= now
    BY <1>1 DEF HTypeOK, AgeInv, SeenInTime, Beat
<1>4. \A r \in Replicas : \A x \in record[r] : x.beat.sent \in Nat /\ x.beat.sent <= now
    BY <1>1 DEF HTypeOK, AgeInv, SeenInTime, Beat, Record
<1>5. now \in Nat /\ \A r \in Replicas : calmSince[r] \in Nat /\ calmSince[r] <= now
    BY <1>1 DEF HTypeOK, ReporterInv
<1>6. ASSUME NEW time, record' = RefreshHealth(time),
             UNCHANGED <<flight, handling, connected, calmSince>>
      PROVE  FreshInv'
    <2>1. ASSUME NEW r \in Replicas, NEW y \in record'[r]
          PROVE  y.beat.sent > calmSince[r] => y.beat.connected = connected[r]
        <3>1. PICK x \in record[r] : y.beat = x.beat
            BY <1>1, <1>6, <2>1, Refreshed
        <3> QED
            BY <3>1 DEF FreshInv
    <2> QED
        BY <1>6, <2>1 DEF FreshInv, Pending
<1>7. ASSUME UNCHANGED <<record, handling>>, flight' \subseteq flight,
             \A r \in Replicas : \/ calmSince'[r] = now
                                 \/ UNCHANGED <<calmSince[r], connected[r]>>
      PROVE  FreshInv'
    BY <1>2, <1>3, <1>4, <1>5, <1>7 DEF FreshInv, Pending
<1>8. CASE TimePasses
    BY <1>8 DEF TimePasses, FreshInv, Pending
<1>9. ASSUME NEW r \in Replicas, ReplicaStep(r) PROVE FreshInv'
    <2>1. CASE ConnectionChanges(r)
        BY <1>1, <1>7, <2>1 DEF ConnectionChanges, Disturb, HTypeOK
    <2>2. CASE Apply(r)
        BY <1>1, <1>7, <2>2, Applies
    <2>3. CASE ReplicaStops(r)
        BY <1>1, <1>7, <2>3 DEF ReplicaStops, Disturb, HTypeOK
    <2>4. CASE ReplicaStarts(r)
        BY <1>1, <1>7, <2>4 DEF ReplicaStarts, HTypeOK
    <2>5. CASE SendHeartbeat(r)
        <3>1. PICK b : /\ b.from = r /\ b.connected = connected[r]
                       /\ flight' = flight \cup {b}
            BY <2>5 DEF SendHeartbeat
        <3> QED
            BY <2>5, <3>1 DEF SendHeartbeat, FreshInv, Pending
    <2>6. CASE PostEnds(r)
        BY <1>1, <1>7, <2>6 DEF PostEnds, HTypeOK
    <2> QED
        BY <1>9, <2>1, <2>2, <2>3, <2>4, <2>5, <2>6 DEF ReplicaStep
<1>10. ASSUME NEW b \in flight, HeartbeatArrives(b) PROVE FreshInv'
    <2>1. \A r \in Replicas : Pending(r)' \subseteq Pending(r)
        BY <1>10 DEF HeartbeatArrives, Pending
    <2> QED
        BY <1>10, <2>1 DEF HeartbeatArrives, FreshInv
<1>11. ASSUME NEW b \in flight, HeartbeatLost(b) PROVE FreshInv'
    BY <1>1, <1>7, <1>11 DEF HeartbeatLost, Disturb, HTypeOK
<1>12. ASSUME NEW h \in handling, RecordHeartbeat(h) PROVE FreshInv'
    <2>1. \A r \in Replicas : Pending(r)' \subseteq Pending(r)
        BY <1>12 DEF RecordHeartbeat, Pending
    <2>2. ASSUME NEW r \in Replicas, NEW x \in record'[r]
          PROVE  x \in record[r] \/ (x.beat = h.beat /\ h.beat \in Pending(r))
        BY <1>1, <1>12, <2>2 DEF RecordHeartbeat, Recorded, Pending, HTypeOK
    <2> QED
        BY <1>12, <2>1, <2>2 DEF RecordHeartbeat, FreshInv
<1>13. CASE Evaluate
    BY <1>6, <1>13 DEF Evaluate
<1>14. CASE ReplicaStatuses
    BY <1>6, <1>14 DEF ReplicaStatuses, Statuses
<1>15. CASE CoreRestart
    BY <1>2, <1>5, <1>15 DEF CoreRestart, FreshInv, Pending
<1>16. CASE UNCHANGED vars
    BY <1>16 DEF vars, FreshInv, Pending
<1> QED
    BY <1>8, <1>9, <1>10, <1>11, <1>12, <1>13, <1>14, <1>15, <1>16 DEF HNext, CoreStep

(* What core has heard of a replica it goes on having heard of, as long as  *)
(* nothing of that is lost.                                                 *)
LEMMA HeardKept ==
    ASSUME NEW r, NEW t, Heard(r, t), Pending(r) \subseteq Pending(r)',
           record[r] # {} => record'[r] # {},
           \A y \in record'[r] : \E x \in record[r] : y.seen = x.seen
    PROVE  Heard(r, t)'
BY DEF Heard

LEMMA CoverReplica ==
    ASSUME HealthInv, ReporterInv, CoverInv, NEW q \in Replicas, ReplicaStep(q),
           NEW r \in Replicas, NEW t \in Nat,
           up'[r], calmSince'[r] + 1 < t, t <= now', Posted(r, t)'
    PROVE  Heard(r, t)'
<1> USE Bounds
<1> USE DEF coreVars, processVars, reportVars, historyVars
<1>1. HTypeOK /\ now \in Nat /\ calmSince[r] \in Nat /\ startedAt[r] \in Nat
    BY DEF HealthInv, HTypeOK
<1>2. UNCHANGED <<now, record, handling>>
    BY DEF ReplicaStep, ConnectionChanges, Apply, ApplyEvent, InstallSnapshot,
           ApplyLate, ReplicaStops, ReplicaStarts,
           SendHeartbeat, PostEnds
<1>3. flight \subseteq flight'
    BY DEF ReplicaStep, ConnectionChanges, Apply, ApplyEvent, InstallSnapshot,
           ApplyLate, ReplicaStops, ReplicaStarts,
           SendHeartbeat, PostEnds
<1>4. Pending(r) \subseteq Pending(r)'
    BY <1>2, <1>3 DEF Pending
<1>5. ASSUME up[r], calmSince'[r] = calmSince[r], Posted(r, t) PROVE Heard(r, t)'
    <2>1. Heard(r, t)
        BY <1>2, <1>5 DEF CoverInv
    <2> QED
        BY <1>2, <1>4, <2>1, HeardKept
<1>6. ASSUME up[r], UNCHANGED <<calmSince[r], due[r], post[r]>> PROVE Heard(r, t)'
    <2>1. Posted(r, t)
        BY <1>2, <1>6 DEF Posted
    <2> QED
        BY <1>5, <1>6, <2>1
<1>7. CASE q # r
    <2>1. UNCHANGED <<up[r], calmSince[r], due[r], post[r]>>
        BY <1>1, <1>7 DEF HTypeOK, ReplicaStep, ConnectionChanges, Apply, ApplyEvent, InstallSnapshot,
           ApplyLate, ReplicaStops,
           ReplicaStarts, SendHeartbeat, PostEnds, Disturb
    <2> QED
        BY <1>6, <2>1
<1>8. CASE q = r
    <2>1. CASE ConnectionChanges(r) \/ ReplicaStops(r) \/ ReplicaStarts(r)
        <3>1. calmSince'[r] = now
            BY <1>1, <2>1 DEF HTypeOK, ConnectionChanges, ReplicaStops, ReplicaStarts, Disturb
        <3> QED
            BY <1>1, <1>2, <3>1
    <2>2. CASE Apply(r)
        BY <1>6, <2>2 DEF Apply, ApplyEvent, InstallSnapshot, ApplyLate
    <2>3. CASE SendHeartbeat(r)
        <3>1. PICK b : /\ b.from = r /\ b.sent = now
                       /\ flight' = flight \cup {b} /\ post'[r] = {b} /\ due'[r] = NextFire(r)
            BY <1>1, <2>3 DEF SendHeartbeat, HTypeOK
        <3>2. up[r] /\ post[r] = {} /\ calmSince'[r] = calmSince[r]
            BY <2>3 DEF SendHeartbeat, MustSend
        <3>3. t <= now /\ due[r] # {}
            BY <1>2, <3>1 DEF Posted, NextFire
        <3>4. CASE t + Spread <= now
            BY <1>5, <3>2, <3>3, <3>4 DEF Posted
        <3>5. CASE now < t + Spread
            BY <3>1, <3>3, <3>5 DEF Heard, Pending
        <3> QED
            BY <1>1, <3>4, <3>5 DEF Spread
    <2>4. CASE PostEnds(r)
        <3>1. PICK b \in post[r] : now <= b.sent + PostTimeout
                                   /\ (due[r] = {} => b.sent <= startedAt[r])
                                   /\ \A d \in due[r] : d <= b.sent + Interval
            BY <2>4 DEF PostEnds, ReporterInv
        <3>2. b.sent \in Nat /\ \A d \in due[r] : d \in Nat
            BY <1>1 DEF HTypeOK, Beat
        <3>3. /\ post'[r] = {} /\ up[r] /\ calmSince'[r] = calmSince[r]
              /\ due'[r] = IF due[r] = {} THEN {now + Interval} ELSE due[r]
            BY <1>1, <2>4 DEF PostEnds, HTypeOK, ReporterInv
        <3>4. t + Spread <= now \/ \E d \in due'[r] : t + Spread <= d
            BY <1>2, <3>3 DEF Posted
        <3>5. CASE due[r] = {}
            <4>1. startedAt[r] <= calmSince[r] /\ calmSince[r] + 1 < t
                BY <3>3 DEF ReporterInv
            <4>2. t + Spread <= now + Interval
                BY <1>1, <3>3, <3>4, <3>5 DEF Spread
            <4> QED
                BY <1>1, <3>1, <3>2, <3>5, <4>1, <4>2 DEF Spread
        <3>6. CASE due[r] # {}
            <4>1. t <= b.sent
                BY <1>1, <3>1, <3>2, <3>3, <3>4, <3>6 DEF Spread
            <4> QED
                BY <1>5, <3>3, <3>6, <4>1 DEF Posted
        <3> QED
            BY <3>5, <3>6
    <2> QED
        BY <1>8, <2>1, <2>2, <2>3, <2>4 DEF ReplicaStep
<1> QED
    BY <1>7, <1>8

LEMMA CoverNext == HealthInv /\ ReporterInv /\ CoverInv /\ [HNext]_vars => CoverInv'
<1> SUFFICES ASSUME HealthInv, ReporterInv, CoverInv, [HNext]_vars,
                    NEW r \in Replicas, NEW t \in Nat,
                    up'[r], calmSince'[r] + 1 < t, t <= now', Posted(r, t)'
             PROVE  Heard(r, t)'
    BY DEF CoverInv
<1> USE Bounds
<1> USE DEF coreVars, processVars, reportVars, historyVars
<1>1. HTypeOK /\ now \in Nat /\ calmSince[r] \in Nat
    BY DEF HealthInv, HTypeOK
<1>2. ASSUME UNCHANGED <<now, up, due, post>>, calmSince'[r] = calmSince[r] PROVE Heard(r, t)
    <2>1. Posted(r, t)
        BY <1>2 DEF Posted
    <2> QED
        BY <1>2, <2>1 DEF CoverInv
<1>3. ASSUME calmSince'[r] = now, now' = now PROVE FALSE
    BY <1>1, <1>3
<1>4. CASE TimePasses
    <2>1. /\ now' = now + 1 /\ UNCHANGED <<record, handling, flight, up, due, post, calmSince>>
          /\ ~MustSend(r)
        BY <1>4 DEF TimePasses, NothingDue
    <2>2. /\ \A d \in due[r] : d \in Nat /\ d <= now + Interval
          /\ \A b \in post[r] : b.sent \in Nat /\ b.sent <= now
        BY <1>1 DEF HTypeOK, Beat, ReporterInv
    <2>3. t <= now /\ Posted(r, t)
        <3>1. CASE post[r] = {}
            <4>1. PICK d \in due[r] : d > now
                BY <1>1, <2>1, <2>2, <3>1 DEF MustSend
            <4>2. t + Spread <= now + 1 \/ \E e \in due[r] : t + Spread <= e
                BY <2>1, <3>1 DEF Posted
            <4>3. \E e \in due[r] : t + Spread <= e
                BY <1>1, <2>2, <4>1, <4>2 DEF Spread
            <4> QED
                BY <1>1, <2>2, <3>1, <4>3 DEF Posted, Spread
        <3>2. CASE post[r] # {}
            BY <1>1, <2>1, <2>2, <3>2 DEF Posted
        <3> QED
            BY <3>1, <3>2
    <2>4. Heard(r, t)
        BY <2>1, <2>3 DEF CoverInv
    <2> QED
        BY <2>1, <2>4, HeardKept DEF Pending
<1>5. ASSUME NEW q \in Replicas, ReplicaStep(q) PROVE Heard(r, t)'
    BY <1>5, CoverReplica
<1>6. ASSUME NEW b \in flight, HeartbeatArrives(b) PROVE Heard(r, t)'
    <2>1. Heard(r, t)
        BY <1>2, <1>6 DEF HeartbeatArrives
    <2>2. /\ flight' = flight \ {b} /\ handling' = handling \cup {[beat |-> b, seen |-> now]}
          /\ record' = record
        BY <1>6 DEF HeartbeatArrives
    <2>3. ASSUME NEW c \in Pending(r) PROVE c \in Pending(r)'
        <3>1. CASE c = b
            <4> DEFINE h == [beat |-> b, seen |-> now]
            <4>1. h \in handling' /\ h.beat = c /\ c.from = r
                BY <2>2, <3>1 DEF Pending
            <4> QED
                BY <4>1, Zenon DEF Pending
        <3>2. CASE c # b
            BY <2>2, <3>2 DEF Pending
        <3> QED
            BY <3>1, <3>2
    <2> QED
        BY <2>1, <2>2, <2>3, HeardKept
<1>7. ASSUME NEW b \in flight, HeartbeatLost(b) PROVE Heard(r, t)'
    <2>1. CASE b.from = r
        <3>1. calmSince'[r] = now /\ now' = now
            BY <1>1, <1>7, <2>1 DEF HeartbeatLost, Disturb, HTypeOK
        <3> QED
            BY <1>3, <3>1
    <2>2. CASE b.from # r
        <3>1. Heard(r, t)
            BY <1>1, <1>2, <1>7, <2>2 DEF HeartbeatLost, Disturb, HTypeOK
        <3>2. Pending(r) \subseteq Pending(r)' /\ record' = record
            BY <1>7, <2>2 DEF HeartbeatLost, Pending
        <3> QED
            BY <3>1, <3>2, HeardKept
    <2> QED
        BY <2>1, <2>2
<1>8. ASSUME NEW h \in handling, RecordHeartbeat(h) PROVE Heard(r, t)'
    <2>1. Heard(r, t) /\ now' = now
        BY <1>2, <1>8 DEF RecordHeartbeat
    <2>2. CASE h.beat.from # r
        <3>1. Pending(r) \subseteq Pending(r)' /\ record'[r] = record[r]
            BY <1>1, <1>8, <2>2 DEF RecordHeartbeat, Pending, HTypeOK
        <3> QED
            BY <2>1, <3>1, HeardKept
    <2>3. CASE h.beat.from = r
        <3>1. record'[r] = {Recorded(h)}
            BY <1>1, <1>8, <2>3, Zenon DEF RecordHeartbeat, HTypeOK
        <3>2. record'[r] # {} /\ \A x \in record'[r] : x.seen = h.seen
            BY <3>1 DEF Recorded
        <3>3. h.seen \in Nat /\ now <= h.seen + MaxWait
            BY DEF HealthInv, HTypeOK, AgeInv
        <3> QED
            BY <1>1, <2>1, <3>2, <3>3 DEF Heard
    <2> QED
        BY <2>2, <2>3
<1>9. ASSUME NEW time, record' = RefreshHealth(time),
             UNCHANGED <<now, handling, flight, up, due, post, calmSince>>
      PROVE  Heard(r, t)'
    <2>1. Heard(r, t) /\ Pending(r) \subseteq Pending(r)'
        BY <1>2, <1>9 DEF Pending
    <2>2. \A y \in record'[r] : \E x \in record[r] : y.seen = x.seen
        <3>1. ASSUME NEW y \in record'[r] PROVE \E x \in record[r] : y.seen = x.seen
            BY <1>1, <1>9, <3>1, Refreshed
        <3> QED
            BY <3>1
    <2>3. record[r] # {} => record'[r] # {}
        BY <1>9 DEF RefreshHealth
    <2> QED
        BY <2>1, <2>2, <2>3, HeardKept
<1>10. CASE Evaluate
    BY <1>9, <1>10 DEF Evaluate
<1>11. CASE ReplicaStatuses
    BY <1>9, <1>11 DEF ReplicaStatuses, Statuses
<1>12. CASE CoreRestart
    BY <1>3, <1>12 DEF CoreRestart
<1>13. CASE UNCHANGED vars
    <2>1. Heard(r, t)
        BY <1>2, <1>13 DEF vars
    <2> QED
        BY <1>13, <2>1, HeardKept DEF vars, Pending
<1> QED
    BY <1>4, <1>5, <1>6, <1>7, <1>8, <1>10, <1>11, <1>12, <1>13 DEF HNext, CoreStep

(* A replica that has not been disturbed for long enough is judged right in *)
(* every answer, for any delays below the thresholds and any order of its   *)
(* heartbeats at the lock.                                                  *)
THEOREM JudgedRightForever == HSpec => []UndisturbedIsJudgedRight
<1> DEFINE Inv == HealthInv /\ ReporterInv /\ CoverInv /\ FreshInv
<1>1. HInit => Inv
    BY TypeInit, AgeInit, JudgedInit DEF HealthInv
<1>2. Inv /\ [HNext]_vars => Inv'
    BY TypeNext, AgeNext, ReporterNext, CoverNext, FreshNext DEF HealthInv
<1>3. Inv => UndisturbedIsJudgedRight
    BY JudgedRight DEF UndisturbedIsJudgedRight
<1> QED
    BY <1>1, <1>2, <1>3, PTL DEF HSpec
=============================================================================
