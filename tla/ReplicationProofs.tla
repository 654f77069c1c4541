-------------------------- MODULE ReplicationProofs --------------------------
(***************************************************************************)
(* Proofs about Replication, for every value of its constants: the types,  *)
(* the histories, that nothing goes back, and for one life of core what a   *)
(* replica shows, the lag it reports, and the refinement of                 *)
(* ReplicatedMarkets.  What CoreStreamProofs proves of a stream holds here  *)
(* because every step is a StreamStep.                                      *)
(***************************************************************************)
EXTENDS Replication, CoreStreamProofs, FiniteSetTheorems

(* The actions of a replica that leave its memory and its store alone. *)
Moves(r) ==
    \/ FetchSnapshot(r) \/ FetchFails(r) \/ InstallFails(r)
    \/ Connect(r) \/ Connected(r) \/ ConnectRefused(r)
    \/ GapDetected(r) \/ StreamEnds(r) \/ StreamFails(r)

LEMMA ReplicaActions ==
    ASSUME NEW r \in Replicas
    PROVE  ReplicaStep(r) <=>
               \/ Moves(r) \/ Install(r) \/ ApplyEvent(r) \/ SkipDuplicate(r)
               \/ CommitUncertain(r) \/ ReplicaRestart(r)
BY Zenon DEF ReplicaStep, Refresh, Follow, Process, Moves

LEMMA MovesKeep ==
    ASSUME NEW r \in Replicas, Moves(r)
    PROVE  UNCHANGED <<memVars, storeVars>>
BY Zenon DEF Moves, FetchSnapshot, FetchFails, InstallFails, Connect, Connected,
   ConnectRefused, GapDetected, StreamEnds, StreamFails

(* What a replica does with its stream. *)
LEMMA ReplicaStream ==
    ASSUME NEW r \in Replicas, ReplicaStep(r)
    PROVE  \/ OpenStream(r, applied[r] + 1)
           \/ Deliver(r)
           \/ CloseStream(r)
           \/ UNCHANGED <<coreVars, streamVars>>
BY ReplicaActions, Zenon
   DEF Moves, FetchSnapshot, FetchFails, InstallFails, Connect, Connected,
       ConnectRefused, GapDetected, StreamEnds, StreamFails, LeaveStream,
       Install, ApplyEvent, SkipDuplicate, CommitUncertain, ReplicaRestart, csVars

LEMMA ReplicaFaults ==
    ASSUME TypeOK, NEW r \in Replicas, ReplicaStep(r)
    PROVE  faults' \in 0 .. MaxFaults
<1>1. faults' = faults \/ \E kind \in FaultKinds : Fault(kind)
    BY ReplicaActions, Zenon
       DEF Moves, FetchSnapshot, FetchFails, InstallFails, Connect, OpenStream, Connected,
           ConnectRefused, GapDetected, StreamEnds, StreamFails, Fault,
           Install, ApplyEvent, SkipDuplicate, CommitUncertain, ReplicaRestart, csVars
<1> QED
    BY <1>1, Bounds DEF Fault, TypeOK

(* The client of CoreStream that Replication puts in its place is one. *)
LEMMA ReplicaIsClient ==
    ASSUME TypeOK, NEW r \in Replicas, applied[r] \in Nat, ReplicaStep(r)
    PROVE  StreamStep
<1>1. ClientMove(r) \/ UNCHANGED <<coreVars, streamVars>>
    BY ReplicaStream DEF ClientMove
<1> QED
    BY <1>1, ReplicaFaults DEF StreamStep

LEMMA ReplicationIsStreamStep == RTypeOK /\ [RNext]_vars => StreamStep
<1> SUFFICES ASSUME RTypeOK, [RNext]_vars PROVE StreamStep
    OBVIOUS
<1>0. TypeOK
    BY DEF RTypeOK
<1>1. CASE UNCHANGED vars
    BY <1>0, <1>1 DEF vars, csVars, StreamStep, TypeOK
<1>2. CASE ServerStep
    BY <1>0, <1>2, TypeCore, TypeHandler DEF ServerStep, StreamStep, TypeOK
<1>3. ASSUME NEW r \in Replicas, ReplicaStep(r) PROVE StreamStep
    BY <1>0, <1>3, ReplicaIsClient DEF RTypeOK
<1> QED
    BY <1>1, <1>2, <1>3 DEF RNext

-----------------------------------------------------------------------------
(* Types.                                                                   *)

(* The part of RTypeOK that is about the replicas. *)
LoopKinds ==
    /\ rpc \in [Replicas -> Locations]
    /\ snap \in [Replicas -> SUBSET [seq : Nat, markets : View]]

MemoryKinds ==
    /\ bootstrapped \in [Replicas -> BOOLEAN]
    /\ applied \in [Replicas -> Nat]
    /\ coreLast \in [Replicas -> Nat]
    /\ view \in [Replicas -> View]
    /\ hist \in [Replicas -> [Markets -> Seq(Event)]]
    /\ ids \in [Replicas -> SUBSET (Nat \X (Nat \ {0}))]
    /\ ckpt \in [Replicas -> Nat]

LEMMA RTypeParts ==
    /\ RTypeOK <=> TypeOK /\ LoopKinds /\ MemoryKinds
    /\ RTypeOK' <=> TypeOK' /\ LoopKinds' /\ MemoryKinds'
BY Zenon DEF RTypeOK, LoopKinds, MemoryKinds

LEMMA EmptyMemory == EmptyView \in View /\ EmptyHist \in [Markets -> Seq(Event)]
<1>1. <<>> \in Seq(Event)
    BY EmptySeq
<1> QED
    BY <1>1 DEF EmptyView, EmptyHist, View

LEMMA RTypeInit == RInit => RTypeOK
<1> SUFFICES ASSUME RInit PROVE RTypeOK
    OBVIOUS
<1>1. TypeOK
    BY TypeInit DEF RInit
<1>2. LoopKinds
    BY DEF RInit, LoopKinds, Locations
<1>3. MemoryKinds
    BY EmptyMemory DEF RInit, MemoryKinds
<1> QED
    BY <1>1, <1>2, <1>3, RTypeParts

(* A frame that is read is an event. *)
LEMMA FrameType ==
    ASSUME TypeOK, NEW r \in Replicas, Reading(r)
    PROVE  /\ Frame(r) \in Event
           /\ Frame(r).seq \in Nat \ {0} /\ Frame(r).epoch \in Nat
           /\ Frame(r).market \in Markets /\ Frame(r).state \in States
<1>1. wire[r] \in Seq(Event) /\ wire[r] # <<>>
    BY DEF TypeOK, Reading
<1>2. Frame(r) \in Event
    BY <1>1, HeadTailProperties DEF Frame
<1> QED
    BY <1>2 DEF Event

LEMMA LoopKindsNext ==
    ASSUME RTypeOK, NEW r \in Replicas, ReplicaStep(r)
    PROVE  LoopKinds'
<1> USE DEF GoTo, Locations, LoopKinds
<1>0. LoopKinds /\ lastSeq \in Nat /\ markets \in View
    BY DEF RTypeOK, TypeOK
<1>1. CASE FetchSnapshot(r)
    BY <1>0, <1>1 DEF FetchSnapshot
<1>2. CASE FetchFails(r)
    BY <1>0, <1>2 DEF FetchFails
<1>3. CASE Install(r) \/ InstallFails(r) \/ ReplicaRestart(r)
    BY <1>0, <1>3 DEF Install, InstallFails, ReplicaRestart, LeaveStream
<1>4. CASE Connect(r) \/ Connected(r)
    BY <1>0, <1>4 DEF Connect, Connected
<1>5. CASE ConnectRefused(r) \/ GapDetected(r) \/ StreamEnds(r) \/ StreamFails(r)
                \/ CommitUncertain(r)
    BY <1>0, <1>5 DEF ConnectRefused, GapDetected, StreamEnds, StreamFails,
       CommitUncertain, LeaveStream
<1>6. CASE ApplyEvent(r) \/ SkipDuplicate(r)
    BY <1>0, <1>6 DEF ApplyEvent, SkipDuplicate
<1> QED
    BY <1>1, <1>2, <1>3, <1>4, <1>5, <1>6, ReplicaActions DEF Moves

LEMMA MemoryKindsNext ==
    ASSUME RTypeOK, NEW r \in Replicas, ReplicaStep(r)
    PROVE  MemoryKinds'
<1>0. TypeOK /\ LoopKinds /\ MemoryKinds
    BY RTypeParts
<1>1. CASE Moves(r)
    BY <1>0, <1>1, MovesKeep DEF MemoryKinds, memVars, storeVars
<1>2. CASE Install(r)
    <2>1. PICK s \in snap[r] :
            /\ ckpt' = [ckpt EXCEPT ![r] = s.seq]
            /\ view' = [view EXCEPT ![r] = s.markets]
            /\ hist' = [hist EXCEPT ![r] = EmptyHist]
            /\ applied' = [applied EXCEPT ![r] = s.seq]
            /\ coreLast' = [coreLast EXCEPT ![r] = s.seq]
            /\ bootstrapped' = [bootstrapped EXCEPT ![r] = TRUE]
        BY <1>2 DEF Install
    <2>2. s.seq \in Nat /\ s.markets \in View
        BY <1>0 DEF LoopKinds
    <2>3. ids' = ids
        BY <1>2 DEF Install
    <2> QED
        BY <1>0, <2>1, <2>2, <2>3, EmptyMemory DEF MemoryKinds
<1>3. CASE ApplyEvent(r)
    <2> DEFINE e == Frame(r)
    <2>1. /\ e \in Event /\ e.seq \in Nat \ {0} /\ e.epoch \in Nat
          /\ e.market \in Markets /\ e.state \in States
        BY <1>0, <1>3, FrameType DEF ApplyEvent
    <2>2. Append(hist[r][e.market], e) \in Seq(Event)
        BY <1>0, <2>1, AppendProperties DEF MemoryKinds
    <2> HIDE DEF e
    <2>3. hist' \in [Replicas -> [Markets -> Seq(Event)]]
        BY <1>0, <1>3, <2>1, <2>2 DEF ApplyEvent, MemoryKinds, e
    <2>4. view' \in [Replicas -> View]
        BY <1>0, <1>3, <2>1 DEF ApplyEvent, MemoryKinds, View, e
    <2>5. ids' \in [Replicas -> SUBSET (Nat \X (Nat \ {0}))] /\ ckpt' \in [Replicas -> Nat]
        BY <1>0, <1>3, <2>1 DEF ApplyEvent, CommitApplied, IdOf, MemoryKinds, e
    <2>6. /\ applied' \in [Replicas -> Nat] /\ coreLast' \in [Replicas -> Nat]
          /\ bootstrapped' \in [Replicas -> BOOLEAN]
        BY <1>0, <1>3, <2>1 DEF ApplyEvent, SeenSeq, MemoryKinds, e
    <2> QED
        BY <2>3, <2>4, <2>5, <2>6 DEF MemoryKinds
<1>4. CASE SkipDuplicate(r)
    <2>1. Frame(r).seq \in Nat
        BY <1>0, <1>4, FrameType DEF SkipDuplicate
    <2> QED
        BY <1>0, <1>4, <2>1 DEF SkipDuplicate, SeenSeq, MemoryKinds, storeVars
<1>5. CASE CommitUncertain(r)
    <2>1. Frame(r).seq \in Nat \ {0} /\ Frame(r).epoch \in Nat
        BY <1>0, <1>5, FrameType DEF CommitUncertain
    <2> QED
        BY <1>0, <1>5, <2>1 DEF CommitUncertain, CommitApplied, IdOf, MemoryKinds, memVars
<1>6. CASE ReplicaRestart(r)
    <2>1. /\ bootstrapped' = [bootstrapped EXCEPT ![r] = FALSE]
          /\ view' = [view EXCEPT ![r] = EmptyView]
          /\ hist' = [hist EXCEPT ![r] = EmptyHist]
          /\ coreLast' = [coreLast EXCEPT ![r] = 0]
        BY <1>6 DEF ReplicaRestart
    <2>2. /\ applied' = [applied EXCEPT ![r] = ckpt[r]] \/ applied' = [applied EXCEPT ![r] = 0]
          /\ ids' = ids \/ ids' = [ids EXCEPT ![r] = {}]
          /\ ckpt' = ckpt \/ ckpt' = [ckpt EXCEPT ![r] = 0]
        BY <1>6 DEF ReplicaRestart, storeVars
    <2>3. applied' \in [Replicas -> Nat] /\ ckpt' \in [Replicas -> Nat]
        <3>1. ckpt \in [Replicas -> Nat] /\ applied \in [Replicas -> Nat] /\ ckpt[r] \in Nat
            BY <1>0 DEF MemoryKinds
        <3>2. applied' \in [Replicas -> Nat]
            BY <2>2, <3>1
        <3>3. ckpt' \in [Replicas -> Nat]
            BY <2>2, <3>1
        <3> QED
            BY <3>2, <3>3
    <2>4. ids' \in [Replicas -> SUBSET (Nat \X (Nat \ {0}))]
        BY <1>0, <2>2, Zenon DEF MemoryKinds
    <2> QED
        BY <1>0, <2>1, <2>3, <2>4, EmptyMemory DEF MemoryKinds
<1> QED
    BY <1>1, <1>2, <1>3, <1>4, <1>5, <1>6, ReplicaActions

LEMMA RTypeNext == RTypeOK /\ [RNext]_vars => RTypeOK'
<1> SUFFICES ASSUME RTypeOK, [RNext]_vars PROVE RTypeOK'
    OBVIOUS
<1>1. TypeOK'
    BY ReplicationIsStreamStep, TypeStep DEF RTypeOK
<1>2. CASE UNCHANGED vars \/ ServerStep
    <2>1. UNCHANGED <<rpc, snap, memVars, storeVars>>
        BY <1>2 DEF vars, ServerStep, replicaVars
    <2> QED
        BY <1>1, <2>1, RTypeParts DEF LoopKinds, MemoryKinds, memVars, storeVars
<1>3. ASSUME NEW r \in Replicas, ReplicaStep(r) PROVE RTypeOK'
    BY <1>1, <1>3, LoopKindsNext, MemoryKindsNext, RTypeParts
<1> QED
    BY <1>2, <1>3 DEF RNext

(* Every variable of core, of the streams and of the replicas keeps its     *)
(* kind, whatever the replicas and the faults do.                           *)
THEOREM RTypeCorrect == RSpec => []RTypeOK
BY RTypeInit, RTypeNext, PTL DEF RSpec

(* An installed snapshot is not behind, an applied event is the next one,   *)
(* and what a restart forgets is not shown.                                 *)
THEOREM NeverBack == RSpec => AppliedNeverBack
<1>1. ASSUME RTypeOK, NEW r \in Replicas, ReplicaStep(r), NEW q \in Replicas,
             applied'[q] < applied[q]
      PROVE  ~bootstrapped'[q]
    <2>0. /\ applied \in [Replicas -> Nat] /\ bootstrapped \in [Replicas -> BOOLEAN]
          /\ TypeOK /\ snap \in [Replicas -> SUBSET [seq : Nat, markets : View]]
        BY <1>1 DEF RTypeOK
    <2>1. CASE Moves(r)
        BY <1>1, <2>0, <2>1, MovesKeep DEF memVars
    <2>2. CASE Install(r)
        BY <1>1, <2>0, <2>2 DEF Install
    <2>3. CASE ApplyEvent(r)
        BY <1>1, <2>0, <2>3 DEF ApplyEvent, InOrder
    <2>4. CASE SkipDuplicate(r) \/ CommitUncertain(r)
        BY <1>1, <2>0, <2>4 DEF SkipDuplicate, CommitUncertain, memVars
    <2>5. CASE ReplicaRestart(r)
        <3>1. \A p \in Replicas \ {r} : applied'[p] = applied[p]
            BY <2>0, <2>5 DEF ReplicaRestart
        <3> QED
            BY <1>1, <2>0, <2>5, <3>1 DEF ReplicaRestart
    <2> QED
        BY <1>1, <2>1, <2>2, <2>3, <2>4, <2>5, ReplicaActions
<1>2. RTypeOK /\ [RNext]_vars =>
          [\A r \in Replicas : applied'[r] < applied[r] => ~bootstrapped'[r]]_vars
    <2> SUFFICES ASSUME RTypeOK, RNext, NEW q \in Replicas, applied'[q] < applied[q]
                 PROVE  ~bootstrapped'[q]
        OBVIOUS
    <2>1. ~ServerStep
        BY DEF ServerStep, replicaVars, memVars, RTypeOK
    <2> QED
        BY <1>1, <2>1 DEF RNext
<1> QED
    BY <1>2, RTypeCorrect, PTL DEF RSpec, AppliedNeverBack

-----------------------------------------------------------------------------
(* Histories.                                                               *)

(* HistoryContiguous for one replica: its events, and its markets. *)
EventsContiguous(r) ==
    \A e \in Applied(r) :
        /\ e.seq <= applied[r]
        /\ \A n \in e.seq .. applied[r] : HasRow(Applied(r), n)
        /\ \A f \in Applied(r) : e.seq = f.seq => e = f

MarketOrdered(r, m) ==
    \A i \in DOMAIN hist[r][m] :
        /\ hist[r][m][i].market = m
        /\ i > 1 => hist[r][m][i - 1].seq < hist[r][m][i].seq
        /\ i = Len(hist[r][m]) => hist[r][m][i].state = view[r][m]

HistInv == \A r \in Replicas :
    EventsContiguous(r) /\ \A m \in Markets : MarketOrdered(r, m)

LEMMA HistParts == HistInv <=> HistoryContiguous
BY Zenon DEF HistInv, EventsContiguous, MarketOrdered, HistoryContiguous

(* A replica without history. *)
LEMMA EmptyHistory ==
    ASSUME NEW r \in Replicas, hist'[r] = EmptyHist
    PROVE  EventsContiguous(r)' /\ \A m \in Markets : MarketOrdered(r, m)'
<1>1. \A m \in Markets : hist'[r][m] = <<>>
    BY DEF EmptyHist
<1>2. DOMAIN <<>> = {}
    BY EmptySeq
<1> QED
    BY <1>1, <1>2 DEF EventsContiguous, MarketOrdered, Applied

LEMMA SameHistory ==
    ASSUME HistInv, NEW r \in Replicas,
           hist'[r] = hist[r], applied'[r] = applied[r], view'[r] = view[r]
    PROVE  EventsContiguous(r)' /\ \A m \in Markets : MarketOrdered(r, m)'
<1>1. Applied(r)' = Applied(r)
    BY DEF Applied
<1> QED
    BY <1>1 DEF HistInv, EventsContiguous, MarketOrdered

(* One more event, numbered after all others. *)
LEMMA HistoryAppend ==
    ASSUME RTypeOK, HistInv, NEW r \in Replicas, NEW e \in Event,
           e.seq = applied[r] + 1,
           applied'[r] = e.seq,
           view'[r] = [view[r] EXCEPT ![e.market] = e.state],
           hist'[r] = [hist[r] EXCEPT ![e.market] = Append(@, e)]
    PROVE  EventsContiguous(r)' /\ \A m \in Markets : MarketOrdered(r, m)'
<1>0. /\ applied[r] \in Nat /\ e.seq \in Nat /\ e.market \in Markets
      /\ view[r] \in View /\ hist[r] \in [Markets -> Seq(Event)]
    BY DEF RTypeOK, Event
<1>1. \A m \in Markets : m # e.market => hist'[r][m] = hist[r][m] /\ view'[r][m] = view[r][m]
    BY <1>0 DEF View
<1>2. hist'[r][e.market] = Append(hist[r][e.market], e) /\ view'[r][e.market] = e.state
    BY <1>0 DEF View
<1> DEFINE old == hist[r][e.market]
           new == hist'[r][e.market]
<1>3. /\ Len(old) \in Nat /\ DOMAIN old = 1 .. Len(old)
      /\ Len(new) = Len(old) + 1 /\ DOMAIN new = 1 .. Len(new)
      /\ \A i \in 1 .. Len(old) : new[i] = old[i]
      /\ new[Len(old) + 1] = e
    <2>1. old \in Seq(Event)
        BY <1>0
    <2>2. new \in Seq(Event)
        BY <1>2, <2>1, AppendProperties
    <2> QED
        BY <1>2, <2>1, <2>2, AppendProperties, LenProperties
<1>4. \A f \in Applied(r) : f \in Event /\ f.seq \in Nat
    <2>1. ASSUME NEW m \in Markets, NEW i \in DOMAIN hist[r][m]
          PROVE  hist[r][m][i] \in Event
        <3>1. hist[r][m] \in Seq(Event)
            BY <1>0
        <3> QED
            BY <3>1, ElementOfSeq, LenProperties
    <2> QED
        BY <2>1 DEF Applied, Event
<1> HIDE DEF old, new
<1>5. Applied(r)' = Applied(r) \cup {e}
    <2>1. {new[i] : i \in DOMAIN new} = {old[i] : i \in DOMAIN old} \cup {e}
        BY <1>3
    <2> DEFINE was(m) == {hist[r][m][i] : i \in DOMAIN hist[r][m]}
               is(m)  == {hist'[r][m][i] : i \in DOMAIN hist'[r][m]}
    <2>2. /\ Applied(r) = UNION {was(m) : m \in Markets}
          /\ Applied(r)' = UNION {is(m) : m \in Markets}
        BY DEF Applied
    <2>3. \A m \in Markets : m # e.market => is(m) = was(m)
        BY <1>1
    <2>4. is(e.market) = was(e.market) \cup {e}
        BY <2>1 DEF old, new
    <2> DEFINE before == UNION {was(m) : m \in Markets}
               after  == UNION {is(m) : m \in Markets}
    <2> HIDE DEF was, is
    <2>5. ASSUME NEW f \in after
          PROVE  f \in before \cup {e}
        <3>1. PICK m \in Markets : f \in is(m)
            OBVIOUS
        <3>2. f \in was(m) \/ f = e
            BY <2>3, <2>4, <3>1
        <3> QED
            BY <3>2
    <2>6. ASSUME NEW f \in before
          PROVE  f \in after
        <3>1. PICK m \in Markets : f \in was(m)
            OBVIOUS
        <3>2. f \in is(m)
            BY <1>0, <2>3, <2>4, <3>1
        <3> QED
            BY <3>2
    <2>7. e \in after
        BY <1>0, <2>4
    <2>8. Applied(r) = before /\ Applied(r)' = after
        BY <2>2
    <2> HIDE DEF before, after
    <2> QED
        BY <2>5, <2>6, <2>7, <2>8
<1>6. EventsContiguous(r)'
    <2> SUFFICES ASSUME NEW f \in Applied(r) \cup {e}
                 PROVE  /\ f.seq <= e.seq
                        /\ \A n \in f.seq .. e.seq : HasRow(Applied(r) \cup {e}, n)
                        /\ \A g \in Applied(r) \cup {e} : f.seq = g.seq => f = g
        BY <1>5 DEF EventsContiguous
    <2>1. CASE f = e
        BY <1>0, <1>4, <2>1 DEF HistInv, EventsContiguous, HasRow
    <2>2. CASE f \in Applied(r)
        <3>1. /\ f.seq <= applied[r] /\ f.seq \in Nat
              /\ \A n \in f.seq .. applied[r] : HasRow(Applied(r), n)
              /\ \A g \in Applied(r) : f.seq = g.seq => f = g
            BY <1>4, <2>2 DEF HistInv, EventsContiguous
        <3>2. ASSUME NEW n \in f.seq .. e.seq
              PROVE  HasRow(Applied(r) \cup {e}, n)
            <4>1. CASE n = e.seq
                BY <4>1 DEF HasRow
            <4>2. CASE n # e.seq
                <5>1. n \in f.seq .. applied[r]
                    BY <1>0, <3>1, <4>2
                <5> QED
                    BY <3>1, <5>1 DEF HasRow
            <4> QED
                BY <4>1, <4>2
        <3> QED
            <4>1. \A g \in Applied(r) \cup {e} : f.seq = g.seq => f = g
                BY <1>0, <3>1
            <4>2. f.seq <= e.seq
                BY <1>0, <3>1
            <4> QED
                BY <3>2, <4>1, <4>2
    <2> QED
        BY <2>1, <2>2
<1>7. ASSUME NEW m \in Markets, m # e.market PROVE MarketOrdered(r, m)'
    BY <1>1, <1>7 DEF HistInv, MarketOrdered
<1>8. MarketOrdered(r, e.market)'
    <2> SUFFICES ASSUME NEW i \in 1 .. Len(old) + 1
                 PROVE  /\ new[i].market = e.market
                        /\ i > 1 => new[i - 1].seq < new[i].seq
                        /\ i = Len(new) => new[i].state = view'[r][e.market]
        BY <1>3 DEF MarketOrdered, new
    <2>1. CASE i = Len(old) + 1
        <3>1. i > 1 => new[i - 1] = old[i - 1] /\ i - 1 \in DOMAIN old
            BY <1>3, <2>1
        <3>2. i > 1 => old[i - 1] \in Applied(r)
            BY <1>0, <3>1 DEF Applied, old
        <3>3. \A f \in Applied(r) : f.seq < e.seq
            BY <1>0, <1>4 DEF HistInv, EventsContiguous
        <3> QED
            BY <1>2, <1>3, <2>1, <3>1, <3>2, <3>3
    <2>2. CASE i \in 1 .. Len(old)
        <3>1. new[i] = old[i] /\ i # Len(new) /\ (i > 1 => new[i - 1] = old[i - 1])
            BY <1>3, <2>2
        <3>2. old[i].market = e.market /\ (i > 1 => old[i - 1].seq < old[i].seq)
            <4>1. MarketOrdered(r, e.market)
                BY <1>0 DEF HistInv
            <4> QED
                BY <1>3, <2>2, <4>1 DEF MarketOrdered, old
        <3> QED
            BY <3>1, <3>2
    <2> QED
        BY <1>3, <2>1, <2>2
<1> QED
    BY <1>6, <1>7, <1>8

LEMMA HistNext == RTypeOK /\ HistInv /\ [RNext]_vars => HistInv'
<1> SUFFICES ASSUME RTypeOK, HistInv, [RNext]_vars,  NEW q \in Replicas
             PROVE  EventsContiguous(q)' /\ \A m \in Markets : MarketOrdered(q, m)'
    BY DEF HistInv
<1>0. /\ TypeOK /\ applied \in [Replicas -> Nat]
      /\ view \in [Replicas -> View] /\ hist \in [Replicas -> [Markets -> Seq(Event)]]
    BY DEF RTypeOK
<1>1. CASE UNCHANGED vars \/ ServerStep
    BY <1>1, SameHistory DEF vars, ServerStep, replicaVars, memVars
<1>2. ASSUME NEW r \in Replicas, ReplicaStep(r)
      PROVE  EventsContiguous(q)' /\ \A m \in Markets : MarketOrdered(q, m)'
    <2>1. CASE Moves(r)
        BY <2>1, MovesKeep, SameHistory DEF memVars
    <2>2. CASE SkipDuplicate(r) \/ CommitUncertain(r)
        BY <2>2, SameHistory DEF SkipDuplicate, CommitUncertain, memVars
    <2>3. CASE Install(r)
        <3>1. CASE q = r
            BY <1>0, <2>3, <3>1, EmptyHistory DEF Install
        <3>2. CASE q # r
            BY <1>0, <2>3, <3>2, SameHistory DEF Install
        <3> QED
            BY <3>1, <3>2
    <2>4. CASE ReplicaRestart(r)
        <3>1. CASE q = r
            BY <1>0, <2>4, <3>1, EmptyHistory DEF ReplicaRestart
        <3>2. CASE q # r
            <4>1. hist'[q] = hist[q] /\ view'[q] = view[q] /\ applied'[q] = applied[q]
                BY <1>0, <2>4, <3>2 DEF ReplicaRestart
            <4> QED
                BY <4>1, SameHistory
        <3> QED
            BY <3>1, <3>2
    <2>5. CASE ApplyEvent(r)
        <3>1. Frame(r) \in Event /\ Frame(r).seq = applied[r] + 1
            BY <1>0, <2>5, FrameType DEF ApplyEvent, InOrder
        <3>2. CASE q = r
            BY <1>0, <2>5, <3>1, <3>2, HistoryAppend DEF ApplyEvent
        <3>3. CASE q # r
            BY <1>0, <2>5, <3>3, SameHistory DEF ApplyEvent
        <3> QED
            BY <3>2, <3>3
    <2> QED
        BY <1>2, <2>1, <2>2, <2>3, <2>4, <2>5, ReplicaActions
<1> QED
    BY <1>1, <1>2 DEF RNext

(* Each event once and in order, without a hole since the last snapshot, in *)
(* spite of every fault, a new life of core with smaller numbers included.  *)
THEOREM HistoriesContiguous == RSpec => []HistoryContiguous
<1>1. RInit => HistInv
    <2> SUFFICES ASSUME RInit, NEW r \in Replicas
                 PROVE  EventsContiguous(r) /\ \A m \in Markets : MarketOrdered(r, m)
        BY DEF HistInv
    <2>1. \A m \in Markets : hist[r][m] = <<>>
        BY DEF RInit, EmptyHist
    <2>2. DOMAIN <<>> = {}
        BY EmptySeq
    <2> QED
        BY <2>1, <2>2 DEF EventsContiguous, MarketOrdered, Applied
<1> QED
    BY <1>1, RTypeInit, RTypeNext, HistNext, HistParts, PTL DEF RSpec

-----------------------------------------------------------------------------
(* One life of core: it does not restart, and an insert that reports an     *)
(* error has stored nothing.                                                *)
OneLife == "coreRestart" \notin FaultKinds /\ "insertUncertain" \notin FaultKinds

(* The log of one life: lastSeq rows, numbered; the tick that emits an event *)
(* is not over; each market that has an event has a latest one.             *)
LifeInv ==
    /\ epoch = 0
    /\ NumberedTo(log, lastSeq)
    /\ IsFiniteSet(log) /\ Cardinality(log) = lastSeq
    /\ \A e \in emit : e.market \in tick
    /\ \A e \in log : \E f \in log : f.market = e.market /\ IsLatestOfMarket(f, log)

LEMMA LifeInit == Init => LifeInv
BY FS_EmptySet DEF Init, LifeInv, NumberedTo, HasRow

(* How the log and its number change, if they do. *)
LogGrows ==
    /\ log \subseteq log' /\ lastSeq' >= lastSeq /\ lastSeq' \in Nat
    /\ \A e \in log' \ log : e.seq \in Nat /\ e.seq > lastSeq

LEMMA LifeCore ==
    ASSUME OneLife, TypeOK, LogInv, LifeInv, CoreStep
    PROVE  LifeInv' /\ LogGrows
<1>0. lastSeq \in Nat /\ log \subseteq Event /\ emit \subseteq Event
    BY DEF TypeOK
<1>1. ASSUME UNCHANGED <<epoch, log, lastSeq>>, \A e \in emit' : e.market \in tick'
      PROVE  LifeInv' /\ LogGrows
    BY <1>0, <1>1 DEF LifeInv, LogGrows
<1>2. ASSUME NEW m \in Markets, EnsureMarketExists(m) PROVE LifeInv' /\ LogGrows
    BY <1>1, <1>2 DEF EnsureMarketExists, LifeInv
<1>3. CASE TickBegin
    BY <1>1, <1>3 DEF TickBegin, LifeInv
<1>4. ASSUME NEW m \in Markets, EvaluateUnchanged(m) PROVE LifeInv' /\ LogGrows
    BY <1>1, <1>4 DEF EvaluateUnchanged
<1>5. ASSUME NEW m \in Markets, NEW s \in States, EvaluateAndPersist(m, s)
      PROVE  LifeInv' /\ LogGrows
    <2> DEFINE e == NewEvent(m, s)
    <2>1. /\ e \in Event /\ e \notin log /\ e.seq = lastSeq + 1 /\ e.market = m
          /\ NumberedTo(log \cup {e}, lastSeq + 1)
        BY <1>5, NextRow DEF EvaluateAndPersist
    <2>2. /\ log' = log \cup {e} /\ lastSeq' = lastSeq + 1 /\ emit' = {e}
          /\ UNCHANGED <<epoch, tick>> /\ m \in tick
        BY <1>5 DEF EvaluateAndPersist
    <2> HIDE DEF e
    <2>3. IsFiniteSet(log') /\ Cardinality(log') = lastSeq'
        BY <2>1, <2>2, FS_AddElement DEF LifeInv
    <2>4. \A f \in log : f.seq \in Nat /\ f.seq <= lastSeq
        BY <1>0 DEF LifeInv, NumberedTo, Event
    <2>5. IsLatestOfMarket(e, log')
        BY <1>0, <2>1, <2>2, <2>4 DEF IsLatestOfMarket
    <2>6. ASSUME NEW f \in log'
          PROVE  \E g \in log' : g.market = f.market /\ IsLatestOfMarket(g, log')
        <3>1. CASE f.market = m
            BY <2>1, <2>2, <2>5, <3>1
        <3>2. CASE f.market # m
            <4>1. f \in log
                BY <2>1, <2>2, <3>2
            <4>2. PICK g \in log : g.market = f.market /\ IsLatestOfMarket(g, log)
                BY <4>1 DEF LifeInv
            <4>3. IsLatestOfMarket(g, log')
                BY <2>1, <2>2, <3>2, <4>2 DEF IsLatestOfMarket
            <4> QED
                BY <2>2, <4>2, <4>3
        <3> QED
            BY <3>1, <3>2
    <2>7. NumberedTo(log', lastSeq')
        BY <2>1, <2>2
    <2> QED
        <3>1. LogGrows
            BY <1>0, <2>1, <2>2 DEF LogGrows
        <3>2. epoch' = 0 /\ \A f \in emit' : f.market \in tick'
            BY <2>1, <2>2 DEF LifeInv
        <3> QED
            BY <2>3, <2>6, <2>7, <3>1, <3>2 DEF LifeInv
<1>6. ASSUME NEW m \in Markets, PersistFails(m) PROVE LifeInv' /\ LogGrows
    <2>1. ~HasRow(log, lastSeq + 1)
        BY <1>0 DEF LifeInv, NumberedTo, HasRow
    <2>2. RestoreLastSeq(log)
        BY <1>6, <2>1 DEF PersistFails
    <2>3. lastSeq' = lastSeq
        <3>1. ASSUME NEW n \in {0} \cup {e.seq : e \in log}, IsLastSeq(log, n)
              PROVE  n = lastSeq
            <4>1. n \in Nat
                BY <1>0 DEF Event
            <4> QED
                BY <1>0, <3>1, <4>1, NumberedLast DEF LifeInv
        <3> QED
            BY <2>2, <3>1 DEF RestoreLastSeq, RereadLastSeq
    <2> QED
        BY <1>1, <1>6, <2>3 DEF PersistFails
<1>7. ASSUME NEW m \in Markets, NEW s \in States, PersistUncertain(m, s)
      PROVE  LifeInv' /\ LogGrows
    BY <1>7 DEF PersistUncertain, Fault, OneLife
<1>8. CASE Broadcast
    <2>1. PICK e \in emit : UNCHANGED <<epoch, log, lastSeq>> /\ emit' = {}
        BY <1>8 DEF Broadcast
    <2> QED
        BY <1>1, <2>1
<1>9. CASE CoreRestart
    BY <1>9 DEF CoreRestart, Fault, OneLife
<1> QED
    BY <1>2, <1>3, <1>4, <1>5, <1>6, <1>7, <1>8, <1>9 DEF CoreStep

LEMMA LifeStep ==
    ASSUME OneLife, TypeOK, LogInv, LifeInv, StreamStep
    PROVE  LifeInv' /\ LogGrows
<1>1. CASE UNCHANGED coreVars
    BY <1>1 DEF coreVars, LifeInv, LogGrows, TypeOK
<1> QED
    BY <1>1, LifeCore, StreamsLeaveCore DEF StreamStep

(* What is proved of core and its streams in one life of core. *)
StreamLife == TypeOK /\ LogInv /\ StreamInv /\ AllCovered /\ MapInv /\ LifeInv

LEMMA StreamLifeInductive ==
    ASSUME OneLife
    PROVE  /\ Init => StreamLife
           /\ StreamLife /\ StreamStep => StreamLife' /\ LogGrows
<1>1. Init => StreamLife
    BY TypeInit, LogInit, StreamInit, CoveredInit, MapInit, LifeInit DEF StreamLife
<1>2. StreamLife /\ StreamStep => StreamLife' /\ LogGrows
    BY TypeStep, LogStep, StreamNext, CoveredNext, MapNext, LifeStep DEF StreamLife, OneLife
<1> QED
    BY <1>1, <1>2

-----------------------------------------------------------------------------
(* What a replica shows.                                                    *)

ShowInv(r) ==
    /\ applied[r] <= lastSeq /\ ckpt[r] <= lastSeq
    /\ bootstrapped[r] => Reflects(view[r], UpTo(log, applied[r]))
    /\ \A s \in snap[r] : s.seq <= lastSeq /\ Reflects(s.markets, UpTo(log, s.seq))

AllShow == \A r \in Replicas : ShowInv(r)

(* A log that grows keeps its prefixes. *)
LEMMA PrefixKept ==
    ASSUME TypeOK, LogGrows, NEW n \in Nat, n <= lastSeq
    PROVE  UpTo(log', n) = UpTo(log, n)
<1>1. \A e \in log' \ log : e.seq > lastSeq /\ lastSeq \in Nat
    BY DEF TypeOK, LogGrows
<1>2. ASSUME NEW e \in log' \ log PROVE ~(e.seq <= n)
    <2>1. e.seq \in Nat
        BY <1>2 DEF LogGrows
    <2> QED
        BY <1>1, <2>1
<1> QED
    BY <1>2 DEF LogGrows, UpTo

(* The prefix that is one longer, and the map that shows it. *)
LEMMA PrefixExtend ==
    ASSUME NEW rows \in SUBSET Event, NEW k \in Nat, NumberedTo(rows, k),
           NEW e \in rows, NEW n \in Nat, e.seq = n + 1,
           NEW v \in View, Reflects(v, UpTo(rows, n))
    PROVE  Reflects([v EXCEPT ![e.market] = e.state], UpTo(rows, n + 1))
<1>1. /\ \A f \in rows : f.seq \in Nat /\ (f.seq = e.seq => f = e)
      /\ e.market \in Markets
    BY DEF NumberedTo, Event
<1>2. UpTo(rows, n + 1) = UpTo(rows, n) \cup {e} /\ \A f \in UpTo(rows, n) : f.seq < e.seq
    BY <1>1 DEF UpTo
<1> DEFINE w == [v EXCEPT ![e.market] = e.state]
<1>3. \A m \in Markets : w[m] = IF m = e.market THEN e.state ELSE v[m]
    BY <1>1 DEF View
<1> HIDE DEF w
<1> SUFFICES ASSUME NEW m \in Markets
             PROVE  /\ (\A f \in UpTo(rows, n) \cup {e} : f.market # m)
                           => w[m] \in {Absent, OpenState}
                    /\ \A f \in UpTo(rows, n) \cup {e} :
                          f.market = m /\ IsLatestOfMarket(f, UpTo(rows, n) \cup {e})
                              => w[m] = f.state
    BY <1>2 DEF Reflects, w
<1>4. CASE m = e.market
    <2>1. ASSUME NEW f \in UpTo(rows, n), f.market = m
          PROVE  ~IsLatestOfMarket(f, UpTo(rows, n) \cup {e})
        <3>1. f.seq < e.seq /\ f.seq \in Nat /\ e.seq \in Nat
            BY <1>1, <1>2 DEF UpTo
        <3> QED
            BY <1>4, <2>1, <3>1 DEF IsLatestOfMarket
    <2> QED
        BY <1>3, <1>4, <2>1
<1>5. CASE m # e.market
    <2>1. w[m] = v[m]
        BY <1>3, <1>5
    <2>2. \A f : IsLatestOfMarket(f, UpTo(rows, n) \cup {e}) /\ f.market = m
                    => f \in UpTo(rows, n) /\ IsLatestOfMarket(f, UpTo(rows, n))
        BY <1>5 DEF IsLatestOfMarket
    <2> QED
        BY <1>5, <2>1, <2>2 DEF Reflects
<1> QED
    BY <1>4, <1>5

(* Steps of core and its handlers. *)
LEMMA ShowServer ==
    ASSUME RTypeOK, AllShow, LogGrows, UNCHANGED replicaVars
    PROVE  AllShow'
<1> SUFFICES ASSUME NEW r \in Replicas PROVE ShowInv(r)'
    BY DEF AllShow
<1>1. TypeOK /\ lastSeq \in Nat /\ applied[r] \in Nat /\ ckpt[r] \in Nat
      /\ \A s \in snap[r] : s.seq \in Nat
    BY DEF RTypeOK, TypeOK
<1>2. ShowInv(r)
    BY DEF AllShow
<1>3. UNCHANGED <<snap, bootstrapped, applied, view, ckpt>>
    BY DEF replicaVars, memVars, storeVars
<1>4. lastSeq' >= lastSeq /\ lastSeq' \in Nat
    BY DEF LogGrows
<1>5. UpTo(log', applied[r]) = UpTo(log, applied[r])
    BY <1>1, <1>2, PrefixKept DEF ShowInv
<1>6. \A s \in snap[r] : UpTo(log', s.seq) = UpTo(log, s.seq)
    BY <1>1, <1>2, PrefixKept DEF ShowInv
<1> QED
    BY <1>1, <1>2, <1>3, <1>4, <1>5, <1>6 DEF ShowInv

(* A frame that is read is a row of the one life. *)
LEMMA FrameIsRow ==
    ASSUME StreamLife, NEW r \in Replicas, Reading(r)
    PROVE  /\ Frame(r) \in log /\ Frame(r).epoch = 0
           /\ Frame(r).seq = next[r] - Len(wire[r])
           /\ Frame(r).seq \in 1 .. lastSeq
           /\ Len(wire[r]) \in Nat \ {0}
<1>0. TypeOK /\ WireInv(r) /\ epoch = 0 /\ NumberedTo(log, lastSeq)
    BY DEF StreamLife, StreamInv, LifeInv
<1>1. wire[r] \in Seq(Event) /\ wire[r] # <<>> /\ next[r] \in Nat
    BY <1>0 DEF TypeOK, Reading
<1>2. Len(wire[r]) \in Nat \ {0} /\ Frame(r) = wire[r][1]
    BY <1>1, HeadTailProperties, LenProperties, EmptySeq DEF Frame
<1>3. Frame(r).epoch \in Nat
    BY <1>0, FrameType
<1>4. 1 \in 1 .. Len(wire[r])
    BY <1>2
<1>5. /\ Frame(r).seq = next[r] - Len(wire[r]) + 1 - 1
      /\ Frame(r).epoch <= epoch
      /\ Frame(r).epoch = epoch => Frame(r) \in log
    BY <1>0, <1>2, <1>4 DEF WireInv
<1>6. Frame(r).epoch = 0 /\ Frame(r) \in log
    BY <1>0, <1>3, <1>5
<1> QED
    BY <1>0, <1>1, <1>2, <1>5, <1>6 DEF NumberedTo

LEMMA ReplicaLeavesCore ==
    ASSUME NEW r \in Replicas, ReplicaStep(r) PROVE UNCHANGED coreVars
BY ReplicaStream DEF OpenStream, Deliver, CloseStream

LEMMA ShowReplica ==
    ASSUME RTypeOK, StreamLife, AllShow, NEW r \in Replicas, ReplicaStep(r)
    PROVE  AllShow'
<1>0. /\ TypeOK /\ LoopKinds /\ MemoryKinds /\ lastSeq \in Nat /\ log \subseteq Event
      /\ log' = log /\ lastSeq' = lastSeq
    BY RTypeParts, ReplicaLeavesCore DEF TypeOK, coreVars
<1>1. ASSUME UNCHANGED <<applied, bootstrapped, view>>, \A q \in Replicas : ckpt'[q] <= lastSeq,
             \A q \in Replicas : \A s \in snap'[q] :
                s.seq <= lastSeq /\ Reflects(s.markets, UpTo(log, s.seq))
      PROVE  AllShow'
    BY <1>0, <1>1 DEF AllShow, ShowInv
<1>2. CASE FetchSnapshot(r)
    <2>1. emit = {}
        BY <1>2 DEF FetchSnapshot, StreamLife, LifeInv
    <2>2. log \ emit = UpTo(log, lastSeq)
        BY <1>0, <2>1 DEF StreamLife, LifeInv, NumberedTo, UpTo, Event
    <2>3. Reflects(markets, UpTo(log, lastSeq))
        BY <2>2 DEF StreamLife, MapInv
    <2>4. snap' = [snap EXCEPT ![r] = {[seq |-> lastSeq, markets |-> markets]}]
        BY <1>2 DEF FetchSnapshot
    <2>5. ASSUME NEW q \in Replicas, NEW s \in snap'[q]
          PROVE  s.seq <= lastSeq /\ Reflects(s.markets, UpTo(log, s.seq))
        <3>1. CASE q = r
            <4>1. s = [seq |-> lastSeq, markets |-> markets]
                BY <1>0, <2>4, <2>5, <3>1 DEF LoopKinds
            <4>2. s.seq = lastSeq /\ s.markets = markets
                BY <4>1
            <4> QED
                BY <1>0, <2>3, <4>2
        <3>2. CASE q # r
            BY <1>0, <2>4, <2>5, <3>2 DEF LoopKinds, AllShow, ShowInv
        <3> QED
            BY <3>1, <3>2
    <2> QED
        BY <1>1, <1>2, <2>5 DEF FetchSnapshot, memVars, storeVars, AllShow, ShowInv
<1>3. CASE FetchFails(r) \/ Connect(r) \/ Connected(r) \/ ConnectRefused(r)
                \/ GapDetected(r) \/ StreamEnds(r) \/ StreamFails(r)
    <2>1. UNCHANGED <<snap, memVars, storeVars>>
        BY <1>3, Zenon DEF FetchFails, Connect, Connected, ConnectRefused, GapDetected,
           StreamEnds, StreamFails
    <2> QED
        BY <1>1, <2>1 DEF memVars, storeVars, AllShow, ShowInv
<1>4. CASE InstallFails(r)
    <2>1. /\ snap' = [snap EXCEPT ![r] = {}]
          /\ UNCHANGED <<memVars, storeVars>>
        BY <1>4 DEF InstallFails
    <2>2. \A q \in Replicas : snap'[q] \subseteq snap[q]
        BY <1>0, <2>1 DEF LoopKinds
    <2> QED
        BY <1>1, <2>1, <2>2 DEF memVars, storeVars, AllShow, ShowInv
<1>5. CASE Install(r)
    <2>1. PICK s \in snap[r] :
            /\ ckpt' = [ckpt EXCEPT ![r] = s.seq]
            /\ view' = [view EXCEPT ![r] = s.markets]
            /\ applied' = [applied EXCEPT ![r] = s.seq]
            /\ bootstrapped' = [bootstrapped EXCEPT ![r] = TRUE]
        BY <1>5 DEF Install
    <2>2. snap' = [snap EXCEPT ![r] = {}]
        BY <1>5 DEF Install
    <2>3. s.seq <= lastSeq /\ Reflects(s.markets, UpTo(log, s.seq))
        BY DEF AllShow, ShowInv
    <2>4. ShowInv(r)'
        <3>1. /\ ckpt'[r] = s.seq /\ view'[r] = s.markets /\ applied'[r] = s.seq
              /\ snap'[r] = {}
            BY <1>0, <2>1, <2>2 DEF LoopKinds, MemoryKinds
        <3> QED
            BY <1>0, <2>3, <3>1 DEF ShowInv
    <2>5. ASSUME NEW q \in Replicas, q # r PROVE ShowInv(q)'
        <3>1. /\ ckpt'[q] = ckpt[q] /\ view'[q] = view[q] /\ applied'[q] = applied[q]
              /\ bootstrapped'[q] = bootstrapped[q] /\ snap'[q] = snap[q]
            BY <1>0, <2>1, <2>2, <2>5 DEF LoopKinds, MemoryKinds
        <3> QED
            BY <1>0, <3>1 DEF AllShow, ShowInv
    <2> QED
        BY <2>4, <2>5 DEF AllShow
<1>6. CASE ApplyEvent(r)
    <2> DEFINE e == Frame(r)
    <2>1. /\ e \in log /\ e.seq \in 1 .. lastSeq /\ e.seq = applied[r] + 1
        BY <1>6, FrameIsRow DEF ApplyEvent, InOrder
    <2>2. /\ ckpt' = [ckpt EXCEPT ![r] = e.seq]
          /\ view' = [view EXCEPT ![r][e.market] = e.state]
          /\ applied' = [applied EXCEPT ![r] = e.seq]
          /\ UNCHANGED <<snap, bootstrapped>>
        BY <1>6 DEF ApplyEvent, CommitApplied
    <2> HIDE DEF e
    <2>3. applied[r] \in Nat /\ view[r] \in View
        BY <1>0 DEF MemoryKinds
    <2>4. ShowInv(r)'
        <3>1. /\ ckpt'[r] = e.seq /\ applied'[r] = applied[r] + 1
              /\ view'[r] = [view[r] EXCEPT ![e.market] = e.state]
            BY <1>0, <2>1, <2>2 DEF MemoryKinds
        <3>2. bootstrapped[r] => Reflects(view'[r], UpTo(log, applied[r] + 1))
            BY <1>0, <2>1, <2>3, <3>1, PrefixExtend DEF StreamLife, LifeInv, AllShow, ShowInv
        <3> QED
            BY <1>0, <2>1, <2>2, <3>1, <3>2 DEF AllShow, ShowInv
    <2>5. ASSUME NEW q \in Replicas, q # r PROVE ShowInv(q)'
        <3>1. ckpt'[q] = ckpt[q] /\ view'[q] = view[q] /\ applied'[q] = applied[q]
            BY <1>0, <2>2, <2>5 DEF MemoryKinds
        <3> QED
            BY <1>0, <2>2, <3>1 DEF AllShow, ShowInv
    <2> QED
        BY <2>4, <2>5 DEF AllShow
<1>7. CASE SkipDuplicate(r)
    BY <1>1, <1>7 DEF SkipDuplicate, storeVars, AllShow, ShowInv
<1>8. CASE CommitUncertain(r)
    <2>1. Frame(r).seq <= lastSeq
        BY <1>0, <1>8, FrameIsRow DEF CommitUncertain
    <2>2. ckpt' = [ckpt EXCEPT ![r] = Frame(r).seq] /\ UNCHANGED <<snap, memVars>>
        BY <1>8 DEF CommitUncertain, CommitApplied
    <2>3. \A q \in Replicas : ckpt'[q] <= lastSeq
        BY <1>0, <2>1, <2>2 DEF MemoryKinds, AllShow, ShowInv
    <2> QED
        BY <1>1, <2>2, <2>3 DEF memVars, AllShow, ShowInv
<1>9. CASE ReplicaRestart(r)
    <2>1. /\ snap' = [snap EXCEPT ![r] = {}]
          /\ bootstrapped' = [bootstrapped EXCEPT ![r] = FALSE]
          /\ view' = [view EXCEPT ![r] = EmptyView]
        BY <1>9 DEF ReplicaRestart
    <2>2. \/ applied' = [applied EXCEPT ![r] = ckpt[r]] /\ ckpt' = ckpt
          \/ applied' = [applied EXCEPT ![r] = 0] /\ ckpt' = [ckpt EXCEPT ![r] = 0]
        BY <1>9 DEF ReplicaRestart, storeVars
    <2>3. ShowInv(r)'
        <3>1. snap'[r] = {} /\ ~bootstrapped'[r]
            BY <1>0, <2>1 DEF LoopKinds, MemoryKinds
        <3>2. applied'[r] <= lastSeq /\ ckpt'[r] <= lastSeq
            BY <1>0, <2>2 DEF MemoryKinds, AllShow, ShowInv
        <3> QED
            BY <1>0, <3>1, <3>2 DEF ShowInv
    <2>4. ASSUME NEW q \in Replicas, q # r PROVE ShowInv(q)'
        <3>1. /\ snap'[q] = snap[q] /\ bootstrapped'[q] = bootstrapped[q]
              /\ view'[q] = view[q]
            BY <1>0, <2>1, <2>4 DEF LoopKinds, MemoryKinds
        <3>2. applied'[q] = applied[q] /\ ckpt'[q] = ckpt[q]
            BY <1>0, <2>2, <2>4 DEF MemoryKinds
        <3> QED
            BY <1>0, <3>1, <3>2 DEF AllShow, ShowInv
    <2> QED
        BY <2>3, <2>4 DEF AllShow
<1> QED
    BY <1>2, <1>3, <1>4, <1>5, <1>6, <1>7, <1>8, <1>9, ReplicaActions DEF Moves

(* Core and replicas in one life of core. *)
ShowLife == RTypeOK /\ StreamLife /\ AllShow

LEMMA ShowLifeInductive ==
    ASSUME OneLife
    PROVE  /\ RInit => ShowLife
           /\ ShowLife /\ [RNext]_vars => ShowLife'
<1>1. RInit => ShowLife
    <2> SUFFICES ASSUME RInit PROVE ShowLife
        OBVIOUS
    <2>1. AllShow
        BY DEF RInit, Init, AllShow, ShowInv
    <2> QED
        BY <2>1, RTypeInit, StreamLifeInductive DEF ShowLife, RInit
<1>2. ASSUME ShowLife, [RNext]_vars PROVE ShowLife'
    <2>0. RTypeOK /\ StreamLife /\ AllShow
        BY <1>2 DEF ShowLife
    <2>1. RTypeOK' /\ StreamLife' /\ LogGrows
        BY <1>2, <2>0, RTypeNext, ReplicationIsStreamStep, StreamLifeInductive
    <2>2. CASE UNCHANGED vars \/ ServerStep
        <3>1. UNCHANGED replicaVars
            BY <2>2 DEF vars, ServerStep
        <3> QED
            BY <2>0, <2>1, <3>1, ShowServer DEF ShowLife
    <2>3. ASSUME NEW r \in Replicas, ReplicaStep(r) PROVE ShowLife'
        BY <2>0, <2>1, <2>3, ShowReplica DEF ShowLife
    <2> QED
        BY <1>2, <2>2, <2>3 DEF RNext
<1> QED
    BY <1>1, <1>2

(* A replica shows the result of exactly the events up to lastAppliedSeq,   *)
(* for any number of replicas, markets and faults in one life of core,      *)
(* commits that report an error after they took effect included.            *)
THEOREM ReplicasConsistent == OneLife => (RSpec => []ReplicaConsistent)
<1> SUFFICES ASSUME OneLife PROVE RSpec => []ReplicaConsistent
    OBVIOUS
<1>1. RInit => ShowLife
    BY ShowLifeInductive
<1>2. ShowLife /\ [RNext]_vars => ShowLife'
    BY ShowLifeInductive
<1>3. ShowLife => ReplicaConsistent
    BY DEF ShowLife, AllShow, ShowInv, ReplicaConsistent
<1> QED
    BY <1>1, <1>2, <1>3, PTL DEF RSpec

-----------------------------------------------------------------------------
(* How far a replica has read, and what it has counted.                     *)

(* The number of the last frame that was read, or lastAppliedSeq when the   *)
(* stream has just begun.                                                   *)
ReadUpTo(r) == next[r] - Len(wire[r]) - 1

Certain == "commitUncertain" \notin FaultKinds

(* The store is at most one event ahead of memory: the event of a commit    *)
(* that reported an error.                                                  *)
StoreInv(r) ==
    /\ applied[r] <= ckpt[r] /\ ckpt[r] <= applied[r] + 1
    /\ \A i \in ids[r] : \E n \in 1 .. applied[r] + 1 : i = <<0, n>>
    /\ Certain => /\ ckpt[r] = applied[r]
                  /\ \A i \in ids[r] : \E n \in 1 .. applied[r] : i = <<0, n>>

CountInv(r) ==
    /\ coreLast[r] <= lastSeq
    /\ bootstrapped[r] => applied[r] <= coreLast[r]

(* A stream begins after lastAppliedSeq and is read in step with it, but    *)
(* for the one event that is skipped because the store has it.              *)
PlaceInv(r) ==
    /\ rpc[r] \in {"top", "gap", "install"} => phase[r] = "none"
    /\ rpc[r] \in {"connecting", "stream"} =>
          /\ bootstrapped[r] /\ phase[r] # "none"
          /\ ReadUpTo(r) <= coreLast[r]
          /\ \/ ReadUpTo(r) = applied[r]
             \/ ReadUpTo(r) = applied[r] + 1 /\ <<0, applied[r] + 1>> \in ids[r]

FollowInv(r) == StoreInv(r) /\ CountInv(r) /\ PlaceInv(r)

AllFollow == \A r \in Replicas : FollowInv(r)

(* The handlers write what comes next, so that the last frame read stays.   *)
LEMMA HandlerPlace ==
    ASSUME TypeOK, StreamInv, NEW c \in Replicas, HandlerStep(c), NEW r \in Replicas
    PROVE  ReadUpTo(r)' = ReadUpTo(r) /\ (phase'[r] = "none" <=> phase[r] = "none")
<1>0. /\ phase \in [Replicas -> Phases] /\ next \in [Replicas -> Nat \ {0}]
      /\ wire \in [Replicas -> Seq(Event)]
    BY DEF TypeOK
<1>1. ASSUME NEW e \in Event, Write(c, e), e.seq = next[c]
      PROVE  ReadUpTo(r)' = ReadUpTo(r)
    <2>1. CASE r # c
        BY <1>0, <1>1, <2>1 DEF Write, ReadUpTo
    <2>2. CASE r = c
        <3>1. wire'[c] = Append(wire[c], e) /\ next'[c] = next[c] + 1
            BY <1>0, <1>1 DEF Write
        <3>2. Len(wire'[c]) = Len(wire[c]) + 1 /\ Len(wire[c]) \in Nat
            BY <1>0, <3>1, AppendProperties, LenProperties
        <3> QED
            BY <1>0, <2>2, <3>1, <3>2 DEF ReadUpTo
    <2> QED
        BY <2>1, <2>2
<1>2. CASE LoadBacklog(c) \/ BacklogFails(c)
    BY <1>0, <1>2 DEF LoadBacklog, BacklogFails, ReadUpTo
<1>3. CASE WritePending(c)
    <2>1. PICK e \in pend[c] : IsFirst(e, pend[c]) /\ Write(c, e)
        BY <1>3 DEF WritePending
    <2>2. /\ e \in Event /\ e.seq \in Nat /\ e.seq >= next[c] /\ next[c] \in Nat
          /\ \A n \in next[c] .. e.seq : HasRow(pend[c], n)
        BY <1>0 DEF TypeOK, StreamInv, BacklogInv, Event
    <2>3. PICK f \in pend[c] : f.seq = next[c]
        BY <2>2 DEF HasRow
    <2>4. e.seq <= f.seq
        BY <2>1 DEF IsFirst
    <2>5. e.seq = next[c]
        BY <2>2, <2>3, <2>4
    <2> QED
        BY <1>1, <1>3, <2>1, <2>2, <2>5 DEF WritePending
<1>4. CASE SkipOld(c) \/ GapFill(c)
    BY <1>4 DEF SkipOld, GapFill, ReadUpTo
<1>5. CASE WriteLive(c)
    <2>1. Head(chan[c]) \in Event
        BY <1>5, ReceiveType DEF WriteLive
    <2> QED
        BY <1>1, <1>5, <2>1 DEF WriteLive
<1>6. CASE GapFillFails(c) \/ HandlerReturns(c)
    BY <1>0, <1>6 DEF GapFillFails, HandlerReturns, ReadUpTo
<1> QED
    BY <1>2, <1>3, <1>4, <1>5, <1>6 DEF HandlerStep

(* Core leaves the streams alone, but for their channels. *)
LEMMA CorePlace ==
    ASSUME OneLife, CoreStep
    PROVE  UNCHANGED <<next, wire, phase>>
BY DEF OneLife, CoreStep, EnsureMarketExists, TickBegin, EvaluateUnchanged,
       EvaluateAndPersist, PersistFails, PersistUncertain, Broadcast, CoreRestart, Fault,
       streamVars

LEMMA FollowServer ==
    ASSUME OneLife, RTypeOK, StreamLife, LogGrows, AllFollow, ServerStep \/ UNCHANGED vars
    PROVE  AllFollow'
<1>0. TypeOK /\ StreamInv /\ UNCHANGED replicaVars
    BY DEF StreamLife, ServerStep, vars
<1>1. \A r \in Replicas : ReadUpTo(r)' = ReadUpTo(r) /\ (phase'[r] = "none" <=> phase[r] = "none")
    <2>1. CASE CoreStep
        BY <2>1, CorePlace DEF ReadUpTo
    <2>2. CASE \E c \in Replicas : HandlerStep(c)
        BY <1>0, <2>2, HandlerPlace
    <2>3. CASE UNCHANGED vars
        BY <2>3 DEF vars, csVars, streamVars, ReadUpTo
    <2> QED
        BY <2>1, <2>2, <2>3 DEF ServerStep
<1> SUFFICES ASSUME NEW r \in Replicas PROVE FollowInv(r)'
    BY DEF AllFollow
<1>2. UNCHANGED <<rpc, bootstrapped, applied, coreLast, ids, ckpt>>
    BY <1>0 DEF replicaVars, memVars, storeVars
<1>3. FollowInv(r) /\ coreLast[r] \in Nat /\ lastSeq \in Nat
    BY DEF AllFollow, RTypeOK, TypeOK
<1>4. StoreInv(r)'
    BY <1>2, <1>3 DEF FollowInv, StoreInv
<1>5. CountInv(r)'
    BY <1>2, <1>3 DEF FollowInv, CountInv, LogGrows
<1>6. PlaceInv(r)'
    BY <1>1, <1>2, <1>3 DEF FollowInv, PlaceInv
<1> QED
    BY <1>4, <1>5, <1>6 DEF FollowInv

(* A step of one replica leaves the others where they are. *)
LEMMA OthersKept ==
    ASSUME RTypeOK, NEW r \in Replicas, ReplicaStep(r), NEW q \in Replicas, q # r
    PROVE  /\ rpc'[q] = rpc[q] /\ bootstrapped'[q] = bootstrapped[q]
           /\ applied'[q] = applied[q] /\ coreLast'[q] = coreLast[q]
           /\ ids'[q] = ids[q] /\ ckpt'[q] = ckpt[q]
<1>0. LoopKinds /\ MemoryKinds
    BY RTypeParts
<1>1. CASE Moves(r)
    <2>1. \E location \in Locations : GoTo(r, location)
        BY <1>1 DEF Moves, FetchSnapshot, FetchFails, InstallFails, Connect, Connected,
           ConnectRefused, GapDetected, StreamEnds, StreamFails, LeaveStream, Locations
    <2>2. rpc'[q] = rpc[q]
        BY <1>0, <2>1 DEF GoTo, LoopKinds
    <2> QED
        BY <1>1, <2>2, MovesKeep DEF memVars, storeVars
<1>2. CASE Install(r)
    BY <1>0, <1>2 DEF Install, GoTo, LoopKinds, MemoryKinds
<1>3. CASE ApplyEvent(r)
    BY <1>0, <1>3 DEF ApplyEvent, SeenSeq, CommitApplied, LoopKinds, MemoryKinds
<1>4. CASE SkipDuplicate(r)
    BY <1>0, <1>4 DEF SkipDuplicate, SeenSeq, storeVars, LoopKinds, MemoryKinds
<1>5. CASE CommitUncertain(r)
    BY <1>0, <1>5 DEF CommitUncertain, CommitApplied, LeaveStream, GoTo, memVars,
       LoopKinds, MemoryKinds
<1>6. CASE ReplicaRestart(r)
    <2>1. /\ GoTo(r, "top")
          /\ bootstrapped' = [bootstrapped EXCEPT ![r] = FALSE]
          /\ coreLast' = [coreLast EXCEPT ![r] = 0]
        BY <1>6 DEF ReplicaRestart, LeaveStream
    <2>2. \/ applied' = [applied EXCEPT ![r] = ckpt[r]] /\ ckpt' = ckpt /\ ids' = ids
          \/ /\ applied' = [applied EXCEPT ![r] = 0]
             /\ ckpt' = [ckpt EXCEPT ![r] = 0] /\ ids' = [ids EXCEPT ![r] = {}]
        BY <1>6 DEF ReplicaRestart, storeVars
    <2>3. rpc'[q] = rpc[q] /\ bootstrapped'[q] = bootstrapped[q] /\ coreLast'[q] = coreLast[q]
        BY <1>0, <2>1 DEF GoTo, LoopKinds, MemoryKinds
    <2>4. applied'[q] = applied[q] /\ ids'[q] = ids[q] /\ ckpt'[q] = ckpt[q]
        BY <1>0, <2>2 DEF MemoryKinds
    <2> QED
        BY <2>3, <2>4
<1> QED
    BY <1>1, <1>2, <1>3, <1>4, <1>5, <1>6, ReplicaActions

LEMMA OthersFollow ==
    ASSUME RTypeOK, AllFollow, NEW r \in Replicas, ReplicaStep(r),
           NEW q \in Replicas, q # r
    PROVE  FollowInv(q)'
<1>0. TypeOK
    BY RTypeParts
<1>1. phase'[q] = phase[q] /\ next'[q] = next[q] /\ wire'[q] = wire[q]
    BY <1>0, ReplicaStream DEF TypeOK, OpenStream, Deliver, CloseStream, streamVars
<1>2. lastSeq' = lastSeq
    BY ReplicaLeavesCore DEF coreVars
<1>3. FollowInv(q)
    BY DEF AllFollow
<1> QED
    BY <1>1, <1>2, <1>3, OthersKept
    DEF FollowInv, StoreInv, CountInv, PlaceInv, ReadUpTo

(* Reading a frame moves the place by one, to the number of the frame. *)
LEMMA FramePlace ==
    ASSUME StreamLife, NEW r \in Replicas, Reading(r)
    PROVE  /\ Frame(r).seq = ReadUpTo(r) + 1 /\ IdOf(Frame(r)) = <<0, Frame(r).seq>>
           /\ Deliver(r) => ReadUpTo(r)' = ReadUpTo(r) + 1 /\ phase' = phase
<1>0. /\ wire \in [Replicas -> Seq(Event)] /\ wire[r] # <<>>
      /\ next[r] \in Nat /\ Len(wire[r]) \in Nat \ {0}
    BY FrameIsRow DEF StreamLife, TypeOK, Reading
<1>1. Frame(r).seq = next[r] - Len(wire[r]) /\ Frame(r).epoch = 0
    BY FrameIsRow
<1>2. ASSUME Deliver(r) PROVE ReadUpTo(r)' = ReadUpTo(r) + 1 /\ phase' = phase
    <2>1. wire'[r] = Tail(wire[r]) /\ next'[r] = next[r] /\ phase' = phase
        BY <1>0, <1>2 DEF Deliver
    <2>2. Len(wire'[r]) = Len(wire[r]) - 1
        BY <1>0, <2>1, HeadTailProperties
    <2> QED
        BY <1>0, <2>1, <2>2 DEF ReadUpTo
<1> QED
    BY <1>0, <1>1, <1>2 DEF ReadUpTo, IdOf

LEMMA FollowReplica ==
    ASSUME RTypeOK, StreamLife, AllShow, AllFollow, NEW r \in Replicas, ReplicaStep(r)
    PROVE  FollowInv(r)'
<1>0. /\ TypeOK /\ LoopKinds /\ MemoryKinds /\ FollowInv(r) /\ ShowInv(r)
      /\ lastSeq' = lastSeq /\ lastSeq \in Nat
      /\ applied[r] \in Nat /\ ckpt[r] \in Nat /\ coreLast[r] \in Nat
      /\ phase \in [Replicas -> Phases] /\ next \in [Replicas -> Nat \ {0}]
      /\ wire \in [Replicas -> Seq(Event)] /\ WireInv(r)
    BY RTypeParts, ReplicaLeavesCore
       DEF AllFollow, AllShow, MemoryKinds, TypeOK, coreVars, StreamLife, StreamInv
<1> USE <1>0
<1>1. CASE Moves(r)
    <2>1. UNCHANGED <<memVars, storeVars>>
        BY <1>1, MovesKeep
    <2>2. StoreInv(r)' /\ CountInv(r)'
        BY <2>1 DEF memVars, storeVars, FollowInv, StoreInv, CountInv
    <2>3. PlaceInv(r)'
        <3>1. CASE FetchSnapshot(r) \/ FetchFails(r) \/ InstallFails(r)
            BY <2>1, <3>1 DEF FetchSnapshot, FetchFails, InstallFails, NeedsSnapshot, GoTo,
               LoopKinds, FollowInv, PlaceInv, csVars, streamVars
        <3>2. CASE Connect(r)
            <4>1. /\ rpc'[r] = "connecting" /\ phase'[r] = "subscribed" /\ phase[r] = "none"
                  /\ next'[r] = applied[r] + 1 /\ wire'[r] = wire[r] /\ bootstrapped[r]
                BY <3>2 DEF Connect, OpenStream, GoTo, LoopKinds
            <4>2. Len(wire'[r]) = 0
                BY <4>1, EmptySeq DEF WireInv
            <4>3. ReadUpTo(r)' = applied[r]
                BY <4>1, <4>2 DEF ReadUpTo
            <4> QED
                BY <2>1, <4>1, <4>3 DEF memVars, FollowInv, CountInv, PlaceInv
        <3>3. CASE Connected(r)
            BY <2>1, <3>3 DEF Connected, GoTo, LoopKinds, FollowInv, PlaceInv, ReadUpTo,
               csVars, streamVars, memVars, storeVars
        <3>4. CASE ConnectRefused(r) \/ GapDetected(r) \/ StreamEnds(r) \/ StreamFails(r)
            <4>1. phase'[r] = "none" /\ rpc'[r] \in {"top", "gap"}
                BY <3>4 DEF ConnectRefused, GapDetected, StreamEnds, StreamFails, LeaveStream,
                   CloseStream, GoTo, LoopKinds
            <4> QED
                BY <4>1 DEF PlaceInv
        <3> QED
            BY <1>1, <3>1, <3>2, <3>3, <3>4 DEF Moves
    <2> QED
        BY <2>2, <2>3 DEF FollowInv
<1>2. CASE Install(r)
    <2>1. PICK s \in snap[r] :
            /\ s.seq >= applied[r]
            /\ ckpt' = [ckpt EXCEPT ![r] = s.seq]
            /\ applied' = [applied EXCEPT ![r] = s.seq]
            /\ coreLast' = [coreLast EXCEPT ![r] = s.seq]
            /\ bootstrapped' = [bootstrapped EXCEPT ![r] = TRUE]
        BY <1>2 DEF Install
    <2>2. /\ ckpt'[r] = s.seq /\ applied'[r] = s.seq /\ coreLast'[r] = s.seq
          /\ ids' = ids /\ rpc'[r] = "top" /\ phase' = phase /\ rpc[r] = "install"
        BY <1>2, <2>1 DEF Install, GoTo, LoopKinds, MemoryKinds, csVars, streamVars
    <2>3. s.seq \in Nat /\ s.seq <= lastSeq
        BY DEF LoopKinds, ShowInv
    <2>4. StoreInv(r)'
        <3>1. \A i \in ids[r] : \E n \in 1 .. applied[r] + 1 : i = <<0, n>>
            BY DEF FollowInv, StoreInv
        <3>2. \A i \in ids[r] : \E n \in 1 .. s.seq + 1 : i = <<0, n>>
            BY <2>1, <2>3, <3>1
        <3>3. Certain => \A i \in ids[r] : \E n \in 1 .. applied[r] : i = <<0, n>>
            BY DEF FollowInv, StoreInv
        <3>4. Certain => \A i \in ids[r] : \E n \in 1 .. s.seq : i = <<0, n>>
            BY <2>1, <2>3, <3>3
        <3> QED
            BY <2>2, <2>3, <3>2, <3>4 DEF StoreInv
    <2>5. CountInv(r)'
        BY <2>2, <2>3 DEF CountInv
    <2>6. PlaceInv(r)'
        BY <2>2 DEF FollowInv, PlaceInv
    <2> QED
        BY <2>4, <2>5, <2>6 DEF FollowInv
<1>3. CASE ApplyEvent(r)
    <2> DEFINE n == applied[r] + 1
    <2>1. Reading(r) /\ IsNew(r) /\ Frame(r).seq = n /\ Deliver(r) /\ rpc' = rpc
        BY <1>3 DEF ApplyEvent, InOrder
    <2>2. /\ IdOf(Frame(r)) = <<0, n>> /\ ReadUpTo(r) + 1 = n /\ n <= lastSeq
          /\ ReadUpTo(r)' = ReadUpTo(r) + 1 /\ phase' = phase
        BY <2>1, FramePlace, FrameIsRow
    <2>3. /\ ids'[r] = ids[r] \cup {<<0, n>>} /\ ckpt'[r] = n /\ applied'[r] = n
          /\ coreLast'[r] \in {coreLast[r], n} /\ coreLast'[r] >= n
          /\ coreLast'[r] >= coreLast[r] /\ bootstrapped' = bootstrapped
        BY <1>3, <2>1, <2>2 DEF ApplyEvent, CommitApplied, SeenSeq, MemoryKinds
    <2>4. StoreInv(r)'
        <3>1. \A i \in ids'[r] : \E k \in 1 .. n : i = <<0, k>>
            BY <2>3 DEF FollowInv, StoreInv
        <3> QED
            BY <2>3, <3>1 DEF StoreInv
    <2>5. CountInv(r)'
        BY <2>2, <2>3 DEF FollowInv, CountInv
    <2>6. PlaceInv(r)'
        BY <2>1, <2>2, <2>3 DEF Reading, FollowInv, PlaceInv
    <2> QED
        BY <2>4, <2>5, <2>6 DEF FollowInv
<1>4. CASE SkipDuplicate(r)
    <2> DEFINE n == Frame(r).seq
    <2>1. Reading(r) /\ <<0, n>> \in ids[r] /\ Deliver(r) /\ rpc' = rpc
        BY <1>4, FramePlace DEF SkipDuplicate, IsNew
    <2>2. /\ ReadUpTo(r) + 1 = n /\ n \in 1 .. lastSeq
          /\ ReadUpTo(r)' = ReadUpTo(r) + 1 /\ phase' = phase
        BY <2>1, FramePlace, FrameIsRow
    <2>3. /\ UNCHANGED <<ids, ckpt, applied, bootstrapped>>
          /\ coreLast'[r] \in {coreLast[r], n} /\ coreLast'[r] >= n
          /\ coreLast'[r] >= coreLast[r]
        BY <1>4, <2>2 DEF SkipDuplicate, SeenSeq, MemoryKinds, storeVars
    <2>4. n <= applied[r] + 1
        BY <2>1, <2>2 DEF FollowInv, StoreInv
    <2> HIDE DEF n
    <2>5. n = applied[r] + 1
        BY <2>1, <2>2, <2>4 DEF Reading, FollowInv, PlaceInv
    <2>6. PlaceInv(r)'
        BY <2>1, <2>2, <2>3, <2>5 DEF Reading, FollowInv, PlaceInv
    <2> QED
        BY <2>2, <2>3, <2>6 DEF FollowInv, StoreInv, CountInv
<1>5. CASE CommitUncertain(r)
    <2> DEFINE n == applied[r] + 1
    <2>1. Reading(r) /\ Frame(r).seq = n /\ ~Certain
        BY <1>5 DEF CommitUncertain, InOrder, Fault, Certain
    <2>2. IdOf(Frame(r)) = <<0, n>>
        BY <2>1, FramePlace
    <2>3. /\ ids'[r] = ids[r] \cup {<<0, n>>} /\ ckpt'[r] = n
          /\ UNCHANGED <<applied, coreLast, bootstrapped>>
          /\ rpc'[r] = "top" /\ phase'[r] = "none"
        BY <1>5, <2>1, <2>2 DEF CommitUncertain, CommitApplied, LeaveStream, CloseStream, GoTo,
           LoopKinds, MemoryKinds, memVars
    <2>4. StoreInv(r)'
        <3>1. \A i \in ids'[r] : \E k \in 1 .. n : i = <<0, k>>
            BY <2>3 DEF FollowInv, StoreInv
        <3> QED
            BY <2>1, <2>3, <3>1 DEF StoreInv, Certain
    <2> QED
        BY <2>3, <2>4 DEF FollowInv, CountInv, PlaceInv
<1>6. CASE ReplicaRestart(r)
    <2>1. /\ rpc'[r] = "top" /\ ~bootstrapped'[r] /\ coreLast'[r] = 0
        BY <1>6 DEF ReplicaRestart, LeaveStream, GoTo, LoopKinds, MemoryKinds
    <2>2. phase'[r] = "none"
        BY <1>6 DEF ReplicaRestart, LeaveStream, CloseStream, streamVars
    <2>3. \/ applied'[r] = ckpt[r] /\ ckpt' = ckpt /\ ids' = ids
          \/ applied'[r] = 0 /\ ckpt'[r] = 0 /\ ids'[r] = {}
        BY <1>6 DEF ReplicaRestart, storeVars, MemoryKinds
    <2>4. StoreInv(r)'
        <3>1. applied[r] <= ckpt[r] /\ (Certain => ckpt[r] = applied[r])
            BY DEF FollowInv, StoreInv
        <3>2. 1 .. applied[r] + 1 \subseteq 1 .. ckpt[r] + 1
            BY <3>1
        <3> QED
            BY <2>3, <3>1, <3>2 DEF FollowInv, StoreInv, Certain
    <2> QED
        BY <2>1, <2>2, <2>4 DEF FollowInv, CountInv, PlaceInv
<1> QED
    BY <1>1, <1>2, <1>3, <1>4, <1>5, <1>6, ReplicaActions

(* All that is proved of core and its replicas in one life of core. *)
FollowLife == ShowLife /\ AllFollow

LEMMA FollowLifeInductive ==
    ASSUME OneLife
    PROVE  /\ RInit => FollowLife
           /\ FollowLife /\ [RNext]_vars => FollowLife'
<1>1. RInit => FollowLife
    <2> SUFFICES ASSUME RInit PROVE FollowLife
        OBVIOUS
    <2>1. AllFollow
        BY DEF RInit, Init, AllFollow, FollowInv, StoreInv, CountInv, PlaceInv
    <2> QED
        BY <2>1, ShowLifeInductive DEF FollowLife
<1>2. ASSUME FollowLife, [RNext]_vars PROVE FollowLife'
    <2>0. RTypeOK /\ StreamLife /\ AllShow /\ AllFollow
        BY <1>2 DEF FollowLife, ShowLife
    <2>1. ShowLife' /\ LogGrows
        BY <1>2, <2>0, ShowLifeInductive, ReplicationIsStreamStep, StreamLifeInductive
           DEF FollowLife
    <2>2. CASE UNCHANGED vars \/ ServerStep
        BY <2>0, <2>1, <2>2, FollowServer DEF FollowLife
    <2>3. ASSUME NEW r \in Replicas, ReplicaStep(r) PROVE AllFollow'
        BY <2>0, <2>3, OthersFollow, FollowReplica DEF AllFollow
    <2> QED
        BY <1>2, <2>1, <2>2, <2>3 DEF RNext, FollowLife
<1> QED
    BY <1>1, <1>2

(* A quiet replica has read the whole log. *)
LEMMA QuietHasReadAll ==
    ASSUME FollowLife, NEW r \in Replicas, Quiet(r)
    PROVE  ReadUpTo(r) = lastSeq /\ coreLast[r] = lastSeq
<1>0. /\ lastSeq \in Nat /\ next[r] \in Nat \ {0} /\ coreLast[r] \in Nat
      /\ log \subseteq Event /\ NumberedTo(log, lastSeq) /\ Covered(r)
      /\ CountInv(r) /\ PlaceInv(r)
    BY DEF FollowLife, ShowLife, RTypeOK, StreamLife, TypeOK, LifeInv, AllCovered,
       AllFollow, FollowInv
<1>1. ReadUpTo(r) = next[r] - 1
    BY <1>0, EmptySeq DEF Quiet, ReadUpTo
<1>2. RowsFrom(log, next[r]) = {}
    <2>1. 1 .. Len(chan[r]) = {}
        BY EmptySeq DEF Quiet
    <2> QED
        BY <1>0, <2>1 DEF Quiet, Covered
<1>3. ~(lastSeq >= next[r])
    BY <1>0, <1>2 DEF NumberedTo, HasRow, RowsFrom
<1>4. ReadUpTo(r) <= coreLast[r] /\ coreLast[r] <= lastSeq
    BY <1>0 DEF Quiet, CountInv, PlaceInv
<1> QED
    BY <1>0, <1>1, <1>3, <1>4

(* The lag that Status reports is true of a quiet replica: it has counted   *)
(* every event of core, and the one it may not have applied is the one its  *)
(* store has, from a commit that reported an error.                         *)
THEOREM LagIsTrue == OneLife => (RSpec => []LagIsReported)
<1> SUFFICES ASSUME OneLife PROVE RSpec => []LagIsReported
    OBVIOUS
<1>1. RInit => FollowLife
    BY FollowLifeInductive
<1>2. FollowLife /\ [RNext]_vars => FollowLife'
    BY FollowLifeInductive
<1>3. FollowLife => LagIsReported
    <2> SUFFICES ASSUME FollowLife, NEW r \in Replicas, Quiet(r)
                 PROVE  /\ coreLast[r] = lastSeq
                        /\ applied[r] < lastSeq => <<epoch, lastSeq>> \in ids[r]
        BY DEF LagIsReported
    <2>1. ReadUpTo(r) = lastSeq /\ coreLast[r] = lastSeq
        BY QuietHasReadAll
    <2>2. PlaceInv(r) /\ epoch = 0 /\ applied[r] \in Nat
        BY DEF FollowLife, ShowLife, StreamLife, LifeInv, AllFollow, FollowInv, RTypeOK
    <2> QED
        BY <2>1, <2>2 DEF PlaceInv, Quiet
<1> QED
    BY <1>1, <1>2, <1>3, PTL DEF RSpec

-----------------------------------------------------------------------------
(* Which markets are known.                                                 *)

(* A tick visits markets of core's map, and a replica or a snapshot on its  *)
(* way has none that is not in it.                                          *)
KnownInv ==
    /\ tick \subseteq Known(markets)
    /\ \A r \in Replicas :
          /\ Known(view[r]) \subseteq Known(markets)
          /\ \A s \in snap[r] : Known(s.markets) \subseteq Known(markets)

LEMMA KnownInit == RInit => KnownInv
BY DEF RInit, Init, KnownInv, Known, EmptyView

(* In one life of core no key leaves its map. *)
LEMMA KnownCore ==
    ASSUME OneLife, TypeOK, KnownInv, CoreStep
    PROVE  Known(markets) \subseteq Known(markets') /\ tick' \subseteq Known(markets')
<1>1. markets \in View /\ emit \subseteq Event /\ OpenState # Absent
      /\ \A e \in Event : e.state # Absent
    BY EventLogAssumption DEF TypeOK, Event
<1>2. ASSUME markets' = markets, tick' \subseteq tick \cup Known(markets)
      PROVE  Known(markets) \subseteq Known(markets') /\ tick' \subseteq Known(markets')
    BY <1>2 DEF KnownInv
<1>3. ASSUME NEW m \in Markets, EnsureMarketExists(m)
      PROVE  Known(markets) \subseteq Known(markets') /\ tick' \subseteq Known(markets')
    BY <1>1, <1>3 DEF EnsureMarketExists, Known, View, KnownInv
<1>4. CASE Broadcast
    <2>1. PICK e \in emit : /\ markets' = [markets EXCEPT ![e.market] = e.state]
                            /\ tick' = tick \ {e.market}
        BY <1>4 DEF Broadcast
    <2> QED
        BY <1>1, <2>1 DEF Known, View, KnownInv
<1>5. CASE TickBegin
    BY <1>2, <1>5 DEF TickBegin
<1>6. ASSUME NEW m \in Markets,
             EvaluateUnchanged(m) \/ PersistFails(m)
                \/ \E s \in States : EvaluateAndPersist(m, s) \/ PersistUncertain(m, s)
      PROVE  Known(markets) \subseteq Known(markets') /\ tick' \subseteq Known(markets')
    BY <1>2, <1>6 DEF EvaluateUnchanged, PersistFails, EvaluateAndPersist, PersistUncertain
<1>7. CASE CoreRestart
    BY <1>7 DEF CoreRestart, Fault, OneLife
<1> QED
    BY <1>3, <1>4, <1>5, <1>6, <1>7 DEF CoreStep

(* A market that has an event is known: the event is in the map, or the     *)
(* tick that visits the market is not over.                                 *)
LEMMA LoggedIsKnown ==
    ASSUME StreamLife, KnownInv, NEW e \in log
    PROVE  e.market \in Known(markets)
<1>1. PICK f \in log : f.market = e.market /\ IsLatestOfMarket(f, log)
    BY DEF StreamLife, LifeInv
<1>2. f.market \in Markets /\ f.state # Absent
    BY EventLogAssumption DEF StreamLife, TypeOK, Event
<1>3. CASE f \in emit
    BY <1>1, <1>3 DEF StreamLife, LifeInv, KnownInv
<1>4. CASE f \notin emit
    <2>1. IsLatestOfMarket(f, log \ emit)
        BY <1>1, <1>4 DEF IsLatestOfMarket
    <2>2. markets[f.market] = f.state
        BY <1>2, <1>4, <2>1 DEF StreamLife, MapInv, Reflects
    <2> QED
        BY <1>1, <1>2, <2>2 DEF Known
<1> QED
    BY <1>3, <1>4

LEMMA KnownReplica ==
    ASSUME RTypeOK, StreamLife, KnownInv, NEW r \in Replicas, ReplicaStep(r)
    PROVE  KnownInv'
<1>0. /\ LoopKinds /\ MemoryKinds /\ markets' = markets /\ tick' = tick
    BY ReplicaLeavesCore, RTypeParts DEF coreVars
<1>1. ASSUME NEW v, view' = [view EXCEPT ![r] = v], Known(v) \subseteq Known(markets),
             NEW S, snap' = [snap EXCEPT ![r] = S],
             \A s \in S : Known(s.markets) \subseteq Known(markets)
      PROVE  KnownInv'
    BY <1>0, <1>1 DEF KnownInv, LoopKinds, MemoryKinds
<1>2. view = [view EXCEPT ![r] = view[r]] /\ snap = [snap EXCEPT ![r] = snap[r]]
    BY <1>0 DEF LoopKinds, MemoryKinds
<1>3. CASE Moves(r)
    <2>1. view' = view
        BY <1>3, MovesKeep DEF memVars
    <2>2. \/ snap' = snap \/ snap' = [snap EXCEPT ![r] = {}]
          \/ snap' = [snap EXCEPT ![r] = {[seq |-> lastSeq, markets |-> markets]}]
        BY <1>3, Zenon DEF Moves, FetchSnapshot, FetchFails, InstallFails, Connect, Connected,
           ConnectRefused, GapDetected, StreamEnds, StreamFails
    <2>3. PICK S : /\ snap' = [snap EXCEPT ![r] = S]
                   /\ S \in {snap[r], {}, {[seq |-> lastSeq, markets |-> markets]}}
        BY <1>2, <2>2
    <2>4. \A s \in S : Known(s.markets) \subseteq Known(markets)
        BY <2>3 DEF KnownInv
    <2>5. Known(view[r]) \subseteq Known(markets)
        BY DEF KnownInv
    <2>6. view' = [view EXCEPT ![r] = view[r]]
        BY <1>2, <2>1
    <2> QED
        BY <1>1, <2>3, <2>4, <2>5, <2>6
<1>4. CASE Install(r)
    <2>1. PICK s \in snap[r] : view' = [view EXCEPT ![r] = s.markets]
        BY <1>4 DEF Install
    <2>2. snap' = [snap EXCEPT ![r] = {}]
        BY <1>4 DEF Install
    <2>3. Known(s.markets) \subseteq Known(markets)
        BY DEF KnownInv
    <2>4. PICK v : view' = [view EXCEPT ![r] = v] /\ Known(v) \subseteq Known(markets)
        BY <2>1, <2>3
    <2>5. PICK S : snap' = [snap EXCEPT ![r] = S] /\ S = {}
        BY <2>2
    <2>6. \A x \in S : Known(x.markets) \subseteq Known(markets)
        BY <2>5
    <2> QED
        BY <1>1, <2>4, <2>5, <2>6
<1>5. CASE ApplyEvent(r)
    <2> DEFINE v == [view[r] EXCEPT ![Frame(r).market] = Frame(r).state]
    <2>1. view' = [view EXCEPT ![r] = v] /\ snap' = snap /\ Frame(r) \in log
        BY <1>5, FrameIsRow DEF ApplyEvent
    <2>2. Frame(r).market \in Known(markets)
        BY <2>1, LoggedIsKnown
    <2>3. Known(v) \subseteq Known(markets)
        BY <1>0, <2>2 DEF KnownInv, Known, MemoryKinds, View
    <2> QED
        BY <1>1, <1>2, <2>1, <2>3 DEF KnownInv
<1>6. CASE SkipDuplicate(r) \/ CommitUncertain(r)
    <2>1. view' = view /\ snap' = snap
        BY <1>6 DEF SkipDuplicate, CommitUncertain, memVars
    <2> QED
        BY <1>1, <1>2, <2>1 DEF KnownInv
<1>7. CASE ReplicaRestart(r)
    <2>1. Known(EmptyView) = {}
        BY DEF Known, EmptyView
    <2> QED
        BY <1>1, <1>7, <2>1 DEF ReplicaRestart
<1> QED
    BY <1>3, <1>4, <1>5, <1>6, <1>7, ReplicaActions

LEMMA KnownNext ==
    ASSUME OneLife, RTypeOK, StreamLife, KnownInv, [RNext]_vars
    PROVE  KnownInv'
<1>1. ASSUME UNCHANGED replicaVars,
             Known(markets) \subseteq Known(markets') /\ tick' \subseteq Known(markets')
      PROVE  KnownInv'
    BY <1>1 DEF KnownInv, replicaVars, memVars
<1>2. CASE ServerStep
    <2>1. CASE CoreStep
        BY <1>1, <1>2, <2>1, KnownCore DEF ServerStep, RTypeOK
    <2>2. ASSUME NEW c \in Replicas, HandlerStep(c) PROVE KnownInv'
        BY <1>1, <1>2, <2>2, StreamsLeaveCore DEF ServerStep, coreVars, KnownInv
    <2> QED
        BY <1>2, <2>1, <2>2 DEF ServerStep
<1>3. CASE UNCHANGED vars
    BY <1>1, <1>3 DEF vars, csVars, coreVars, KnownInv
<1> QED
    BY <1>2, <1>3, KnownReplica DEF RNext

(* A connected replica with nothing left to read has applied every event of *)
(* core and has core's markets in core's states, but for markets without an *)
(* event that it may not know.  A commit that reports an error after it took *)
(* effect must be ruled out: LagIsReported is what remains of this then.    *)
THEOREM SynchronizedAtRest == OneLife /\ Certain => (RSpec => []SynchronizedWhenQuiet)
<1> SUFFICES ASSUME OneLife, Certain PROVE RSpec => []SynchronizedWhenQuiet
    OBVIOUS
<1>1. RInit => FollowLife /\ KnownInv
    BY FollowLifeInductive, KnownInit
<1>2. FollowLife /\ KnownInv /\ [RNext]_vars => (FollowLife /\ KnownInv)'
    BY FollowLifeInductive, KnownNext DEF FollowLife, ShowLife
<1>3. FollowLife /\ KnownInv => SynchronizedWhenQuiet
    <2> SUFFICES ASSUME FollowLife, KnownInv, NEW r \in Replicas, Quiet(r)
                 PROVE  /\ applied[r] = lastSeq
                        /\ \A m \in Markets :
                              \/ view[r][m] = markets[m]
                              \/ view[r][m] = Absent /\ Silent(m)
        BY DEF SynchronizedWhenQuiet
    <2>0. /\ StoreInv(r) /\ PlaceInv(r) /\ ShowInv(r) /\ MapInv
          /\ applied[r] \in Nat /\ lastSeq \in Nat /\ log \subseteq Event
          /\ NumberedTo(log, lastSeq)
        BY DEF FollowLife, ShowLife, StreamLife, LifeInv, AllShow, AllFollow, FollowInv,
           RTypeOK, TypeOK
    <2>1. applied[r] = lastSeq
        <3>1. ReadUpTo(r) = lastSeq
            BY QuietHasReadAll
        <3>2. <<0, applied[r] + 1>> \notin ids[r]
            BY <2>0 DEF StoreInv
        <3> QED
            BY <2>0, <3>1, <3>2 DEF PlaceInv, Quiet
    <2>2. UpTo(log, lastSeq) = log /\ log \ emit = log
        BY <2>0 DEF UpTo, NumberedTo, Event, Quiet
    <2>3. Reflects(view[r], log) /\ Reflects(markets, log)
        BY <2>0, <2>1, <2>2 DEF PlaceInv, Quiet, ShowInv, MapInv
    <2>4. ASSUME NEW m \in Markets
          PROVE  view[r][m] = markets[m] \/ (view[r][m] = Absent /\ Silent(m))
        <3>1. CASE Silent(m)
            <4>1. {view[r][m], markets[m]} \subseteq {Absent, OpenState}
                BY <2>3, <3>1 DEF Reflects, Silent
            <4>2. view[r][m] # Absent => markets[m] # Absent
                BY DEF KnownInv, Known
            <4> QED
                BY <3>1, <4>1, <4>2
        <3>2. CASE ~Silent(m)
            <4>1. PICK f \in log : f.market = m /\ IsLatestOfMarket(f, log)
                BY <3>2 DEF Silent, FollowLife, ShowLife, StreamLife, LifeInv
            <4> QED
                BY <2>3, <4>1 DEF Reflects
        <3> QED
            BY <3>1, <3>2
    <2> QED
        BY <2>1, <2>4
<1> QED
    BY <1>1, <1>2, <1>3, PTL DEF RSpec

-----------------------------------------------------------------------------
(* Replication implements ReplicatedMarkets.                                *)

(* The instance brings definitions of its own of the data of EventLog. *)
LEMMA AbstractData ==
    /\ \A S : Abstract!Cardinality(S) = Cardinality(S)
    /\ Abstract!View = View
    /\ \A v, rows : Abstract!Reflects(v, rows) <=> Reflects(v, rows)
    /\ \A rows, n : Abstract!UpTo(rows, n) = UpTo(rows, n)
<1>1. \A S : Abstract!Cardinality(S) = Cardinality(S)
    BY DEF Cardinality, Abstract!Cardinality
<1>2. \A v, rows : Abstract!Reflects(v, rows) <=> Reflects(v, rows)
    BY DEF Reflects, Abstract!Reflects, IsLatestOfMarket, Abstract!IsLatestOfMarket
<1>3. Abstract!View = View /\ \A rows, n : Abstract!UpTo(rows, n) = UpTo(rows, n)
    BY DEF View, Abstract!View, UpTo, Abstract!UpTo
<1> QED
    BY <1>1, <1>2, <1>3

LEMMA AbstractCommit ==
    ASSUME OneLife, FollowLife, ServerStep \/ UNCHANGED vars
    PROVE  [Abstract!Next]_(Abstract!rmVars)
<1>0. /\ StreamLife /\ LifeInv /\ UNCHANGED <<applied, view>>
    BY DEF FollowLife, ShowLife, StreamLife, ServerStep, vars, replicaVars, memVars
<1>1. ASSUME NEW m \in Markets, NEW s \in States, EvaluateAndPersist(m, s)
      PROVE  Abstract!Commit(m, s)
    BY <1>0, <1>1, AbstractData DEF EvaluateAndPersist, NewEvent, LifeInv, Abstract!Commit
<1>2. ASSUME CoreStep, ~\E m \in Markets, s \in States : EvaluateAndPersist(m, s)
      PROVE  log' = log
    BY <1>2 DEF OneLife, CoreStep, EnsureMarketExists, TickBegin, EvaluateUnchanged,
       PersistFails, PersistUncertain, Broadcast, CoreRestart, Fault
<1>3. log' = log => UNCHANGED Abstract!rmVars
    BY <1>0 DEF Abstract!rmVars
<1>4. ASSUME NEW c \in Replicas, HandlerStep(c) PROVE log' = log
    BY <1>4, StreamsLeaveCore DEF coreVars
<1>5. UNCHANGED vars => log' = log
    BY DEF vars, csVars, coreVars
<1> QED
    BY <1>1, <1>2, <1>3, <1>4, <1>5 DEF ServerStep, Abstract!Next

LEMMA AbstractReplica ==
    ASSUME OneLife, Certain, FollowLife, FollowLife', NEW r \in Replicas, ReplicaStep(r)
    PROVE  [Abstract!Next]_(Abstract!rmVars)
<1>0. /\ log' = log /\ lastSeq' = lastSeq /\ Cardinality(log) = lastSeq
      /\ lastSeq \in Nat /\ applied[r] \in Nat
      /\ TypeOK /\ StreamLife /\ LoopKinds /\ MemoryKinds
      /\ ShowInv(r) /\ ShowInv(r)' /\ FollowInv(r) /\ MemoryKinds'
    BY RTypeParts, ReplicaLeavesCore
       DEF FollowLife, ShowLife, StreamLife, LifeInv, AllShow, AllFollow, RTypeOK, TypeOK,
           coreVars
<1>1. CASE Moves(r) \/ SkipDuplicate(r) \/ CommitUncertain(r)
    <2>1. UNCHANGED <<applied, view>>
        BY <1>1, MovesKeep DEF SkipDuplicate, CommitUncertain, memVars
    <2> QED
        BY <1>0, <2>1 DEF Abstract!rmVars
<1>2. CASE Install(r)
    <2>1. PICK s \in snap[r] :
            /\ s.seq >= applied[r]
            /\ view' = [view EXCEPT ![r] = s.markets]
            /\ applied' = [applied EXCEPT ![r] = s.seq]
        BY <1>2 DEF Install
    <2>2. /\ s.seq \in Nat /\ s.markets \in View /\ s.seq <= lastSeq
          /\ Reflects(s.markets, UpTo(log, s.seq))
        BY <1>0 DEF LoopKinds, ShowInv
    <2>3. s.seq \in applied[r] .. Cardinality(log)
        BY <1>0, <2>1, <2>2
    <2>4. Abstract!Show(r)
        BY <1>0, <2>1, <2>2, <2>3, AbstractData DEF Abstract!Show
    <2> QED
        BY <2>4 DEF Abstract!Next
<1>3. CASE ApplyEvent(r)
    <2> DEFINE n == applied[r] + 1
               v == [view[r] EXCEPT ![Frame(r).market] = Frame(r).state]
    <2>1. /\ Reading(r) /\ Frame(r).seq = n
          /\ view' = [view EXCEPT ![r] = v] /\ applied' = [applied EXCEPT ![r] = n]
          /\ bootstrapped' = bootstrapped
        BY <1>3 DEF ApplyEvent, InOrder
    <2>2. n \in applied[r] .. Cardinality(log)
        BY <1>0, <2>1, FrameIsRow
    <2> HIDE DEF n, v
    <2>3. view'[r] = v /\ applied'[r] = n /\ v \in View
        BY <1>0, <2>1 DEF MemoryKinds
    <2>4. Reflects(v, UpTo(log, n))
        <3>1. bootstrapped'[r]
            BY <1>0, <2>1 DEF FollowInv, PlaceInv, Reading
        <3> QED
            BY <1>0, <2>3, <3>1 DEF ShowInv
    <2>5. Abstract!Show(r)
        BY <1>0, <2>1, <2>2, <2>3, <2>4, AbstractData DEF Abstract!Show
    <2> QED
        BY <2>5 DEF Abstract!Next
<1>4. CASE ReplicaRestart(r)
    <2>1. view' = [view EXCEPT ![r] = EmptyView]
        BY <1>4 DEF ReplicaRestart
    <2>2. PICK n \in {ckpt[r], 0} : applied' = [applied EXCEPT ![r] = n]
        BY <1>4 DEF ReplicaRestart
    <2>3. n \in 0 .. applied[r]
        BY <1>0, <2>2 DEF FollowInv, StoreInv
    <2>4. Abstract!Forget(r)
        BY <1>0, <2>1, <2>2, <2>3 DEF Abstract!Forget, Abstract!EmptyView, EmptyView
    <2> QED
        BY <2>4 DEF Abstract!Next
<1> QED
    BY <1>1, <1>2, <1>3, <1>4, ReplicaActions

(* Streams, backlogs, evictions, snapshots, retries and replica restarts    *)
(* implement the abstract replication: core commits, replicas move forward  *)
(* along its prefixes, and a replica that restarts forgets what it shows.   *)
THEOREM ReplicationImplements == OneLife /\ Certain => (RSpec => ImplementsReplicatedMarkets)
<1> SUFFICES ASSUME OneLife, Certain PROVE RSpec => ImplementsReplicatedMarkets
    OBVIOUS
<1>1. RInit => FollowLife
    BY FollowLifeInductive
<1>2. FollowLife /\ [RNext]_vars => FollowLife'
    BY FollowLifeInductive
<1>3. RInit => Abstract!Init
    BY DEF RInit, Init, Abstract!Init, Abstract!EmptyView, EmptyView
<1>4. FollowLife /\ FollowLife' /\ [RNext]_vars => [Abstract!Next]_(Abstract!rmVars)
    BY AbstractCommit, AbstractReplica DEF RNext
<1> QED
    BY <1>1, <1>2, <1>3, <1>4, PTL DEF RSpec, ImplementsReplicatedMarkets, Abstract!Spec
=============================================================================
