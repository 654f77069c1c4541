--------------------------- MODULE ReplicaLoopProofs ---------------------------
(***************************************************************************)
(* Proofs about ReplicaLoop, for all delays, jitters, timeouts and          *)
(* latencies that its assumption admits.                                    *)
(*                                                                         *)
(* CauseInv says what the location and the error of the last attempt tell   *)
(* of each other, BackoffInv what the doublings have made of the delay, and *)
(* PaceInv bounds the timer from below by what has happened since it was    *)
(* last set.                                                                *)
(***************************************************************************)
EXTENDS ReplicaLoop, Induction

LEMMA Bounds ==
    /\ Initial \in Nat \ {0} /\ Cap \in Nat \ {0}
    /\ Millisecond \in Nat \ {0} /\ HalfRange \in Nat \ {0}
    /\ Millisecond <= Initial /\ Initial <= Cap
    /\ 3 * Cap <= 2 * HalfRange
    /\ Jitters \subseteq Int
    /\ IdleTimeout \in Nat \ {0} /\ KeepAlive \in Nat \ {0}
    /\ MaxAttempts \in Nat \ {0}
    /\ Latency \in Nat /\ LineCap \in Nat
BY ReplicaLoopAssumption DEF ReplicaLoopAssumption

(* One round of exponentialBackoffDuration doubles within a duration.       *)
LEMMA DoubledIdeal ==
    ASSUME NEW d \in Millisecond .. Cap
    PROVE  Doubled(d) = IF 2 * d < Cap THEN 2 * d ELSE Cap
<1>1. CASE d >= Cap \/ d > Cap \div 2
    <2>1. 2 * d >= Cap
        BY <1>1, Bounds, SMTT(20)
    <2> QED
        BY <1>1, <2>1, Bounds DEF Doubled
<1>2. CASE ~(d >= Cap \/ d > Cap \div 2)
    <2>1. 2 * d <= Cap
        BY <1>2, Bounds, SMTT(20)
    <2>2. 2 * d + HalfRange \in 0 .. 2 * HalfRange - 1
        BY <2>1, Bounds
    <2>3. (2 * d + HalfRange) % (2 * HalfRange) = 2 * d + HalfRange
        BY <2>2, Bounds, SMTT(20)
    <2>4. Doubled(d) = 2 * d
        BY <1>2, <2>3, Bounds DEF Doubled, Wrap
    <2> QED
        BY <2>1, <2>4, Bounds
<1> QED
    BY <1>1, <1>2

LEMMA DoubledBounds ==
    ASSUME NEW d \in Millisecond .. Cap
    PROVE  Doubled(d) \in Millisecond .. Cap
BY DoubledIdeal, Bounds

(* The jitter stays within the bounds, whatever it is. *)
LEMMA JitterBounds ==
    ASSUME NEW d \in Millisecond .. Cap, NEW j \in Jitters
    PROVE  WithJitter(d, j) \in Millisecond .. Cap
<1>1. d \in Int /\ j \in Int
    BY Bounds
<1>2. (d * j) \div 100 \in Int
    BY <1>1, SMTT(20)
<1> QED
    BY <1>2, Bounds DEF WithJitter

LEMMA CountBounds ==
    ASSUME NEW n \in 0 .. MaxAttempts
    PROVE  Count(n) \in 1 .. MaxAttempts
BY Bounds DEF Count

-----------------------------------------------------------------------------
(* LTypeOK in three parts: flags, the loop, its stream. *)
Flags ==
    /\ shutdown \in BOOLEAN /\ bootstrapped \in BOOLEAN /\ connected \in BOOLEAN
    /\ idleReset \in BOOLEAN /\ idleErr \in BOOLEAN /\ cancelled \in BOOLEAN
    /\ steady \in BOOLEAN /\ owed \in BOOLEAN

LoopKinds ==
    /\ pc \in Locations
    /\ lastError \in Errors /\ result \in Errors
    /\ attempts \in 0 .. MaxAttempts /\ failures \in 0 .. MaxAttempts
    /\ delay \in Millisecond .. Cap
    /\ round \in Nat

StreamKinds ==
    /\ lines \in Seq(Lines) /\ Len(lines) <= LineCap
    /\ body \in {"open", "eof", "broken"}
    /\ monitor \in {"none", "armed", "fired", "done"}
    /\ timer \in 0 .. IdleTimeout
    /\ quiet \in 0 .. KeepAlive
    /\ readAge \in 0 .. Latency /\ resetAge \in 0 .. Latency

Kinds == LoopKinds /\ StreamKinds

LEMMA StreamKindsKept ==
    ASSUME StreamKinds, UNCHANGED streamVars PROVE StreamKinds'
BY DEF StreamKinds, streamVars, wireVars, monitorVars, ageVars

(* A failure that is waited for. *)
LEMMA WaitKinds ==
    ASSUME Kinds, WaitBackoff, UNCHANGED streamVars,
           result' \in Errors, lastError' \in Errors
    PROVE  Kinds'
<1>1. attempts' \in 0 .. MaxAttempts /\ failures' \in 0 .. MaxAttempts
    BY CountBounds, Bounds DEF WaitBackoff, Kinds, LoopKinds
<1>2. pc' \in Locations /\ delay' \in Millisecond .. Cap /\ round' \in Nat
    BY Bounds DEF WaitBackoff, Locations
<1>3. LoopKinds'
    BY <1>1, <1>2, Zenon DEF LoopKinds
<1> QED
    BY <1>3, StreamKindsKept, Zenon DEF Kinds

LEMMA FlagsInit == LInit => Flags
BY Zenon DEF LInit, Flags

LEMMA FlagsNext == Flags /\ [LNext]_vars => Flags'
<1> SUFFICES ASSUME Flags, [LNext]_vars PROVE Flags'
    OBVIOUS
<1> USE DEF Flags, statusVars, delayVars, monitorVars, wireVars, ageVars, streamVars,
        historyVars
<1>1. CASE Stopped \/ UNCHANGED vars
    BY <1>1, Zenon DEF Stopped, vars
<1>2. CASE BeginAttempt \/ InstallSnapshot
    BY <1>2, Zenon DEF BeginAttempt, InstallSnapshot
<1>3. CASE SnapshotFails
    BY <1>3, Zenon DEF SnapshotFails, WaitBackoff
<1>4. CASE StreamRefused \/ StreamOver
    BY <1>4, Zenon DEF StreamRefused, StreamOver, Return
<1>5. CASE StreamAccepted \/ BeginReading \/ ScanEnds
    BY <1>5, Zenon DEF StreamAccepted, BeginReading, ScanEnds
<1>6. CASE ReadLine
    BY <1>6, Zenon DEF ReadLine, TakeLine, Return
<1>7. CASE Stop \/ RefreshAfterGap \/ RetryAfterEnd \/ RetryAfterError
    BY <1>7, Zenon DEF Stop, RefreshAfterGap, RetryAfterEnd, RetryAfterError, WaitBackoff
<1>8. CASE Backoff
    BY <1>8, Zenon DEF Backoff, Double, Jitter, WaitEnds
<1>9. CASE Monitor
    BY <1>9, Zenon DEF Monitor, MonitorResets, MonitorFires, MonitorCancels, MonitorStops
<1>10. CASE Environment
    <2>1. CASE CoreWrites \/ StreamStalls \/ StreamEnds
        BY <2>1, Zenon DEF CoreWrites, StreamStalls, StreamEnds
    <2>2. CASE Shutdown \/ Tick
        BY <2>2, Zenon DEF Shutdown, Tick
    <2> QED
        BY <1>10, <2>1, <2>2, Zenon DEF Environment
<1> QED
    BY <1>1, <1>2, <1>3, <1>4, <1>5, <1>6, <1>7, <1>8, <1>9, <1>10, Zenon
       DEF LNext, Fetch, Retry, Consume

LEMMA TypeInit == LInit => Kinds
BY Bounds DEF LInit, Kinds, LoopKinds, StreamKinds, Locations, Errors

LEMMA TypeNext == Kinds /\ [LNext]_vars => Kinds'
<1> SUFFICES ASSUME Kinds, [LNext]_vars PROVE Kinds'
    OBVIOUS
<1> USE Bounds
<1>0. CASE SnapshotFails \/ RetryAfterEnd \/ RetryAfterError
    <2>1. WaitBackoff /\ UNCHANGED streamVars
        BY <1>0, Zenon DEF SnapshotFails, RetryAfterEnd, RetryAfterError
    <2>2. SnapshotError \subseteq Errors
        BY Zenon DEF SnapshotError, Errors
    <2>3. result' \in Errors /\ lastError' \in Errors
        BY <1>0, <2>2, Zenon DEF SnapshotFails, RetryAfterEnd, RetryAfterError, Kinds, LoopKinds
    <2> QED
        BY <2>1, <2>3, WaitKinds
<1> USE DEF Kinds, LoopKinds, StreamKinds, Locations, Errors,
        statusVars, delayVars, monitorVars, wireVars, ageVars, streamVars, historyVars
<1>1. ASSUME NEW error \in Errors, NEW b, Return(error, b)
      PROVE  Kinds'
    BY <1>1 DEF Return
<1>2. CASE BeginAttempt
    BY <1>2 DEF BeginAttempt
<1>3. CASE InstallSnapshot
    BY <1>3 DEF InstallSnapshot
<1>5. CASE StreamRefused
    BY <1>1, <1>5 DEF StreamRefused
<1>6. CASE StreamAccepted
    BY <1>6 DEF StreamAccepted
<1>7. CASE BeginReading
    BY <1>7 DEF BeginReading
<1>8. CASE ReadLine
    <2>1. Head(lines) \in Lines /\ Tail(lines) \in Seq(Lines)
          /\ Len(Tail(lines)) <= LineCap
        BY <1>8 DEF ReadLine
    <2>2. CASE Head(lines) \in {"comment", "event"}
        <3>1. TakeLine /\ UNCHANGED pc
            BY <1>8, <2>2 DEF ReadLine
        <3>2. readAge' \in 0 .. Latency
            BY <3>1 DEF TakeLine
        <3> QED
            BY <2>1, <3>1, <3>2 DEF TakeLine
    <2>3. CASE Head(lines) \notin {"comment", "event"}
        BY <1>1, <1>8, <2>1, <2>3 DEF ReadLine, Lines
    <2> QED
        BY <2>2, <2>3
<1>9. CASE ScanEnds
    BY <1>9 DEF ScanEnds
<1>10. CASE StreamOver
    BY <1>1, <1>10 DEF StreamOver
<1>11. CASE Stop
    BY <1>11 DEF Stop
<1>12. CASE RefreshAfterGap
    BY <1>12 DEF RefreshAfterGap, GoesOn
<1>15. CASE Double
    BY <1>15, DoubledBounds DEF Double
<1>16. CASE Jitter
    BY <1>16, JitterBounds DEF Jitter
<1>17. CASE WaitEnds
    BY <1>17 DEF WaitEnds
<1>18. CASE Monitor
    <2>1. CASE MonitorResets
        BY <2>1 DEF MonitorResets
    <2>2. CASE MonitorFires
        BY <2>2 DEF MonitorFires
    <2>3. CASE MonitorCancels
        BY <2>3 DEF MonitorCancels
    <2>4. CASE MonitorStops
        BY <2>4 DEF MonitorStops
    <2> QED
        BY <1>18, <2>1, <2>2, <2>3, <2>4 DEF Monitor
<1>19. CASE CoreWrites
    <2>1. PICK line \in Lines : lines' = Append(lines, line)
        BY <1>19 DEF CoreWrites
    <2>2. lines' \in Seq(Lines) /\ Len(lines') <= LineCap
        BY <1>19, <2>1 DEF CoreWrites
    <2> QED
        BY <1>19, <2>2 DEF CoreWrites
<1>20. CASE StreamStalls \/ StreamEnds \/ Shutdown
    <2>1. CASE StreamStalls
        BY <2>1 DEF StreamStalls
    <2>2. CASE StreamEnds
        BY <2>2 DEF StreamEnds
    <2>3. CASE Shutdown
        BY <2>3 DEF Shutdown
    <2> QED
        BY <1>20, <2>1, <2>2, <2>3
<1>21. CASE Tick
    BY <1>21 DEF Tick, Kept, Readable
<1>22. CASE Stopped \/ UNCHANGED vars
    <2>1. UNCHANGED vars
        BY <1>22, Zenon DEF Stopped
    <2>2. LoopKinds'
        BY <2>1 DEF vars
    <2>3. StreamKinds'
        BY <2>1, StreamKindsKept, Zenon DEF vars
    <2> QED
        BY <2>2, <2>3, Zenon
<1> QED
    BY <1>0, <1>2, <1>3, <1>5, <1>6, <1>7, <1>8, <1>9, <1>10, <1>11, <1>12,
       <1>15, <1>16, <1>17, <1>18, <1>19, <1>20, <1>21, <1>22
       DEF LNext, Fetch, Retry, Backoff, Consume, Environment

(* Every variable keeps its kind, and every delay that is waited is at least *)
(* the least and at most the configured maximum: doubling does not overflow. *)
THEOREM LTypeCorrect == LSpec => []LTypeOK
<1>1. LInit => Kinds
    BY TypeInit
<1>2. Kinds /\ [LNext]_vars => Kinds'
    BY TypeNext
<1>3. Kinds /\ Flags => LTypeOK
    BY Zenon DEF Kinds, LoopKinds, StreamKinds, Flags, LTypeOK
<1> QED
    BY <1>1, <1>2, <1>3, FlagsInit, FlagsNext, PTL DEF LSpec

-----------------------------------------------------------------------------
(* The idle timeout is reported before anything is cancelled for it, so the *)
(* cancellation of a context means a timeout that is reported, or shutdown. *)
StopInv ==
    /\ cancelled \/ monitor = "fired" => idleErr
    /\ pc = "scanned" /\ result = "canceled" => shutdown \/ idleErr
    /\ pc = "failed" /\ result = "canceled" => shutdown
    /\ pc = "stopped" => shutdown

(* An error is waited for before the head of the loop is reached again. *)
OwedInv == pc \in {"head", "fetching", "connecting", "accepted"} => ~owed

(* What lastError says at the places from which a wait or a stream is       *)
(* reached; a stream that ends without an error leaves none.                *)
ErrorInv ==
    /\ pc \in {"reading", "scanned"} => lastError = "none"
    /\ pc = "failed" /\ result = "eof" => lastError = "none"
    /\ pc \in {"head", "connecting"} /\ failures = 0 => lastError = "none"
    /\ pc \in {"doubling", "waiting"} =>
          failures # 0 /\ lastError = IF result = "eof" THEN "none" ELSE result

CauseInv == StopInv /\ OwedInv /\ ErrorInv /\ ConnectedOnlyOnStream

LEMMA CauseInit == LInit => CauseInv
BY DEF LInit, CauseInv, StopInv, OwedInv, ErrorInv, ConnectedOnlyOnStream

LEMMA CauseNext == Kinds /\ CauseInv /\ [LNext]_vars => CauseInv'
<1> SUFFICES ASSUME Kinds, CauseInv, [LNext]_vars PROVE CauseInv'
    OBVIOUS
<1> USE DEF CauseInv, StopInv, OwedInv, ErrorInv, ConnectedOnlyOnStream,
        statusVars, delayVars, monitorVars, wireVars, ageVars, streamVars, historyVars
<1>1. failures \in 0 .. MaxAttempts /\ Count(failures) # 0
    BY CountBounds, Bounds DEF Kinds, LoopKinds, StreamKinds
<1>2. CASE BeginAttempt
    BY <1>2 DEF BeginAttempt
<1>3. CASE InstallSnapshot
    BY <1>3 DEF InstallSnapshot
<1>4. CASE SnapshotFails
    BY <1>1, <1>4 DEF SnapshotFails, SnapshotError, WaitBackoff
<1>5. CASE StreamRefused
    BY <1>5 DEF StreamRefused, Return
<1>6. CASE StreamAccepted
    BY <1>6 DEF StreamAccepted
<1>7. CASE BeginReading
    BY <1>7 DEF BeginReading
<1>8. CASE ReadLine
    <2>1. Head(lines) \in Lines
        BY <1>8 DEF ReadLine, Kinds, LoopKinds, StreamKinds
    <2>2. CASE Head(lines) \in {"comment", "event"}
        BY <1>8, <2>2 DEF ReadLine, TakeLine
    <2>3. CASE Head(lines) \in {"gap", "bad"}
        <3>1. Return(Head(lines), FALSE) /\ Head(lines) \notin {"canceled", "eof"}
            BY <1>8, <2>3 DEF ReadLine
        <3> QED
            BY <1>8, <3>1 DEF ReadLine, Return
    <2> QED
        BY <2>1, <2>2, <2>3 DEF Lines
<1>9. CASE ScanEnds
    BY <1>9 DEF ScanEnds, StreamDone, Kinds, LoopKinds, StreamKinds
<1>10. CASE StreamOver
    BY <1>10 DEF StreamOver, Return
<1>11. CASE Stop
    BY <1>11 DEF Stop
<1>12. CASE RefreshAfterGap
    BY <1>12 DEF RefreshAfterGap, GoesOn
<1>13. CASE RetryAfterEnd
    BY <1>1, <1>13 DEF RetryAfterEnd, GoesOn, WaitBackoff
<1>14. CASE RetryAfterError
    BY <1>1, <1>14 DEF RetryAfterError, GoesOn, WaitBackoff
<1>15. CASE Backoff
    <2>1. CASE Double
        BY <2>1 DEF Double
    <2>2. CASE Jitter
        BY <2>2 DEF Jitter
    <2>3. CASE WaitEnds
        BY <2>3 DEF WaitEnds
    <2> QED
        BY <1>15, <2>1, <2>2, <2>3 DEF Backoff
<1>16. CASE Monitor
    BY <1>16 DEF Monitor, MonitorResets, MonitorFires, MonitorCancels, MonitorStops
<1>17. CASE Environment
    BY <1>17 DEF Environment, CoreWrites, StreamStalls, StreamEnds, Shutdown, Tick
<1>18. CASE Stopped \/ UNCHANGED vars
    BY <1>18 DEF Stopped, vars
<1> QED
    BY <1>2, <1>3, <1>4, <1>5, <1>6, <1>7, <1>8, <1>9, <1>10, <1>11, <1>12, <1>13,
       <1>14, <1>15, <1>16, <1>17, <1>18
       DEF LNext, Fetch, Retry, Consume

LEMMA CauseCorrect == LSpec => []CauseInv
<1>1. LInit => Kinds /\ CauseInv
    BY TypeInit, CauseInit
<1>2. Kinds /\ CauseInv /\ [LNext]_vars => (Kinds /\ CauseInv)'
    BY TypeNext, CauseNext
<1> QED
    BY <1>1, <1>2, PTL DEF LSpec

(* The loop takes no idle timeout for a shutdown. *)
THEOREM StopsForShutdown == LSpec => []StopsOnlyOnShutdown
<1>1. CauseInv => StopsOnlyOnShutdown
    BY DEF CauseInv, StopInv, StopsOnlyOnShutdown
<1> QED
    BY <1>1, CauseCorrect, PTL

(* What Status says of the connection is true. *)
THEOREM ConnectedIsTrue == LSpec => []ConnectedOnlyOnStream
<1>1. CauseInv => ConnectedOnlyOnStream
    BY DEF CauseInv
<1> QED
    BY <1>1, CauseCorrect, PTL

(* So is what it says of the last error. *)
THEOREM ErrorIsTrue == LSpec => []ErrorIsLastFailure
<1>1. CauseInv => ErrorIsLastFailure
    BY DEF CauseInv, ErrorInv, ErrorIsLastFailure
<1> QED
    BY <1>1, CauseCorrect, PTL

(* No failed attempt is followed by another without a wait or a snapshot. *)
THEOREM NeverHammers == LSpec => []NoHammering
<1>1. CauseInv => NoHammering
    BY DEF CauseInv, OwedInv, NoHammering
<1> QED
    BY <1>1, CauseCorrect, PTL

-----------------------------------------------------------------------------
(* The function that Ideal chooses: there is one for every k, it is of      *)
(* numbers, and the one for k + 1 goes on where the one for k ends.         *)
Powers(power, k) == power = [i \in 0 .. k |-> IF i = 0 THEN Initial ELSE 2 * power[i - 1]]

Power(k) == CHOOSE power : Powers(power, k)

LEMMA PowersExist ==
    ASSUME NEW k \in Nat
    PROVE  \E power \in [0 .. k -> Nat] : Powers(power, k)
<1> DEFINE G == [i \in 1 .. k |-> [n \in Nat |-> 2 * n]]
<1>1. Initial \in Nat /\ G \in Steps(k, Nat)
    BY Bounds DEF Steps
<1>2. PICK power \in [0 .. k -> Nat] : RunOf(power, k, Initial, G)
    <2> HIDE DEF G
    <2> QED
        BY <1>1, RecursionExists
<1>3. ASSUME NEW i \in 0 .. k
      PROVE  power[i] = IF i = 0 THEN Initial ELSE 2 * power[i - 1]
    <2>1. CASE i = 0
        BY <1>2, <2>1 DEF RunOf
    <2>2. CASE i # 0
        <3>1. i \in 1 .. k /\ power[i - 1] \in Nat
            BY <2>2
        <3> QED
            BY <1>2, <3>1 DEF RunOf
    <2> QED
        BY <2>1, <2>2
<1> QED
    BY <1>3 DEF Powers

LEMMA PowerUnfolds ==
    ASSUME NEW k \in Nat
    PROVE  Powers(Power(k), k)
BY PowersExist DEF Power

LEMMA PowersGoOn ==
    ASSUME NEW k \in Nat, NEW power, Powers(power, k)
    PROVE  /\ power[0] = Initial
           /\ \A i \in 1 .. k : power[i] = 2 * power[i - 1]
<1>1. power[0] = Initial
    BY DEF Powers
<1>2. \A i \in 1 .. k : power[i] = 2 * power[i - 1]
    BY DEF Powers
<1> QED
    BY <1>1, <1>2

LEMMA PowersAgree ==
    ASSUME NEW k \in Nat, NEW f, NEW g, Powers(f, k), Powers(g, k) \/ Powers(g, k + 1)
    PROVE  f[k] = g[k]
<1>1. f[0] = Initial /\ \A i \in 1 .. k : f[i] = 2 * f[i - 1]
    BY PowersGoOn
<1>2. g[0] = Initial /\ \A i \in 1 .. k : g[i] = 2 * g[i - 1]
    <2>1. CASE Powers(g, k)
        BY <2>1, PowersGoOn
    <2>2. CASE Powers(g, k + 1)
        <3>1. g[0] = Initial /\ \A i \in 1 .. k + 1 : g[i] = 2 * g[i - 1]
            BY <2>2, PowersGoOn
        <3> QED
            BY <3>1
    <2> QED
        BY <2>1, <2>2
<1>3. GoAlike(f, g, k)
    BY <1>1, <1>2 DEF GoAlike
<1> QED
    BY <1>3, RecursionUnique

LEMMA PowerStep ==
    ASSUME NEW k \in Nat
    PROVE  /\ Power(0)[0] = Initial
           /\ Power(k)[k] \in Nat
           /\ Power(k + 1)[k + 1] = 2 * Power(k)[k]
<1>1. Power(0)[0] = Initial
    BY PowerUnfolds, PowersGoOn
<1>2. PICK power \in [0 .. k -> Nat] : Powers(power, k)
    BY PowersExist
<1>3. Powers(Power(k), k) /\ Powers(Power(k + 1), k + 1)
    BY PowerUnfolds
<1>4. Power(k)[k] = power[k] /\ Power(k + 1)[k] = power[k]
    BY <1>2, <1>3, PowersAgree
<1>5. Power(k + 1)[k + 1] = 2 * Power(k + 1)[k]
    <2>1. \A i \in 1 .. k + 1 : Power(k + 1)[i] = 2 * Power(k + 1)[i - 1]
        BY <1>3, PowersGoOn
    <2> QED
        BY <2>1
<1>6. power[k] \in Nat
    BY <1>2
<1> QED
    BY <1>1, <1>4, <1>5, <1>6

LEMMA IdealIs ==
    ASSUME NEW k \in Nat
    PROVE  Ideal(k) = IF Power(k)[k] < Cap THEN Power(k)[k] ELSE Cap
BY DEF Ideal, Power, Powers

(* Cutting at the cap once or after every doubling comes to the same. *)
LEMMA IdealDoubles ==
    ASSUME NEW k \in Nat
    PROVE  /\ Ideal(0) = Initial
           /\ Ideal(k) \in 0 .. Cap
           /\ Ideal(k + 1) = IF 2 * Ideal(k) < Cap THEN 2 * Ideal(k) ELSE Cap
<1>1. Power(0)[0] = Initial /\ Power(k)[k] \in Nat /\ Power(k + 1)[k + 1] = 2 * Power(k)[k]
    BY PowerStep
<1>2. /\ Ideal(0) = IF Power(0)[0] < Cap THEN Power(0)[0] ELSE Cap
      /\ Ideal(k) = IF Power(k)[k] < Cap THEN Power(k)[k] ELSE Cap
      /\ Ideal(k + 1) = IF Power(k + 1)[k + 1] < Cap THEN Power(k + 1)[k + 1] ELSE Cap
    BY IdealIs
<1>3. Ideal(0) = Initial
    BY <1>1, <1>2, Bounds
<1>4. ASSUME NEW p \in Nat, Power(k)[k] = p
      PROVE  Ideal(k) \in 0 .. Cap
             /\ Ideal(k + 1) = IF 2 * Ideal(k) < Cap THEN 2 * Ideal(k) ELSE Cap
    BY <1>1, <1>2, <1>4, Bounds
<1> QED
    BY <1>1, <1>3, <1>4

(* The jitter, truncated and cut at both ends, leaves a half to one and a   *)
(* half of the delay.                                                       *)
LEMMA JitterPaces ==
    ASSUME NEW d \in Millisecond .. Cap, NEW j \in Jitters
    PROVE  2 * WithJitter(d, j) + 1 >= d /\ 2 * WithJitter(d, j) <= 3 * d
<1>1. d \in Nat /\ Millisecond <= d /\ d <= Cap /\ j \in Int /\ 50 <= j /\ j <= 149
    BY Bounds, ReplicaLoopAssumption DEF ReplicaLoopAssumption
<1>2. PICK p \in Int : p = d * j
    BY <1>1
<1>3. 50 * d <= p /\ p <= 149 * d
    BY <1>1, <1>2, SMTT(20)
<1>4. PICK q \in Int : q = p \div 100
    BY <1>2
<1>5. 100 * q <= p /\ p < 100 * q + 100
    BY <1>2, <1>4, SMTT(20)
<1>6. WithJitter(d, j) = IF q > Cap THEN Cap ELSE IF q < Millisecond THEN Millisecond ELSE q
    BY <1>2, <1>4 DEF WithJitter
<1> QED
    BY <1>1, <1>3, <1>5, <1>6, Bounds

(* The attempts that are counted are the failures in a row, and every round *)
(* of the doubling has reached the ideal delay of its number.               *)
BackoffInv ==
    /\ attempts = failures
    /\ pc = "doubling" => failures # 0 /\ round < attempts /\ delay = Ideal(round)
    /\ PacedByFailures

LEMMA BackoffInit == LInit => BackoffInv
BY DEF LInit, BackoffInv, PacedByFailures

LEMMA BackoffNext == Kinds /\ BackoffInv /\ [LNext]_vars => BackoffInv'
<1> SUFFICES ASSUME Kinds, BackoffInv, [LNext]_vars PROVE BackoffInv'
    OBVIOUS
<1> USE DEF statusVars, delayVars, historyVars
<1>1. /\ attempts \in 0 .. MaxAttempts /\ failures \in 0 .. MaxAttempts
      /\ delay \in Millisecond .. Cap /\ round \in Nat /\ attempts = failures
    BY DEF Kinds, LoopKinds, BackoffInv
<1>2. ASSUME pc' \notin {"doubling", "waiting"}, attempts' = failures' PROVE BackoffInv'
    BY <1>2 DEF BackoffInv, PacedByFailures
<1>3. ASSUME UNCHANGED <<pc, attempts, failures, delayVars>> PROVE BackoffInv'
    BY <1>3, Zenon DEF BackoffInv, PacedByFailures
<1>4. CASE SnapshotFails \/ RetryAfterEnd \/ RetryAfterError
    <2>1. WaitBackoff
        BY <1>4, Zenon DEF SnapshotFails, RetryAfterEnd, RetryAfterError
    <2>2. attempts' = failures' /\ attempts' \in 1 .. MaxAttempts
        BY <1>1, <2>1, CountBounds DEF WaitBackoff
    <2>3. Ideal(0) = Initial
        BY IdealDoubles
    <2> QED
        BY <2>1, <2>2, <2>3 DEF WaitBackoff, BackoffInv, PacedByFailures
<1>5. CASE Double
    <2>1. Ideal(round + 1) = Doubled(delay)
        <3>1. delay = Ideal(round)
            BY <1>5 DEF Double, BackoffInv
        <3> QED
            BY <1>1, <3>1, IdealDoubles, DoubledIdeal
    <2> QED
        BY <1>1, <1>5, <2>1 DEF Double, BackoffInv, PacedByFailures
<1>6. CASE Jitter
    <2>1. PICK j \in Jitters : delay' = WithJitter(delay, j)
        BY <1>6 DEF Jitter
    <2>2. round = failures - 1 /\ delay = Ideal(round) /\ UNCHANGED <<attempts, failures>>
          /\ pc' = "waiting"
        BY <1>1, <1>6 DEF Jitter, BackoffInv
    <2>3. 2 * delay' + 1 >= delay /\ 2 * delay' <= 3 * delay
        BY <1>1, <2>1, JitterPaces
    <2> QED
        BY <1>1, <2>2, <2>3 DEF BackoffInv, PacedByFailures
<1>7. CASE BeginAttempt \/ WaitEnds \/ StreamRefused \/ StreamAccepted \/ ScanEnds
           \/ StreamOver \/ Stop \/ RefreshAfterGap \/ InstallSnapshot \/ BeginReading
    <2>1. pc' \notin {"doubling", "waiting"} /\ attempts' = failures'
        BY <1>1, <1>7 DEF BeginAttempt, WaitEnds, StreamRefused, StreamAccepted, ScanEnds,
           StreamOver, Stop, RefreshAfterGap, InstallSnapshot, BeginReading, Return
    <2> QED
        BY <1>2, <2>1
<1>8. CASE ReadLine
    <2>1. pc' \notin {"doubling", "waiting"} /\ attempts' = failures'
        BY <1>1, <1>8 DEF ReadLine, TakeLine, Return
    <2> QED
        BY <1>2, <2>1
<1>9. CASE Monitor \/ Environment \/ Stopped \/ UNCHANGED vars
    <2>1. UNCHANGED <<pc, attempts, failures, delayVars>>
        BY <1>9, Zenon DEF Monitor, MonitorResets, MonitorFires, MonitorCancels, MonitorStops,
           Environment, CoreWrites, StreamStalls, StreamEnds, Shutdown, Tick, Stopped, vars
    <2> QED
        BY <1>3, <2>1
<1> QED
    BY <1>4, <1>5, <1>6, <1>7, <1>8, <1>9 DEF LNext, Fetch, Retry, Backoff, Consume

(* The wait after k failures in a row is a half to one and a half of the    *)
(* initial delay doubled k - 1 times and cut at the cap, for all delays and *)
(* jitters: nothing on the way overflows, and a success starts it afresh.   *)
THEOREM WaitsArePaced == LSpec => []PacedByFailures
<1>1. LInit => Kinds /\ BackoffInv
    BY TypeInit, BackoffInit
<1>2. Kinds /\ BackoffInv /\ [LNext]_vars => (Kinds /\ BackoffInv)'
    BY TypeNext, BackoffNext
<1>3. BackoffInv => PacedByFailures
    BY DEF BackoffInv
<1> QED
    BY <1>1, <1>2, <1>3, PTL DEF LSpec

-----------------------------------------------------------------------------
(* On a stream that is kept alive the timer is at least what is left of     *)
(* IdleTimeout after what has passed since it was last set: the wait for    *)
(* the monitor, after that for the loop, after that for core.               *)
PaceInv ==
    /\ idleErr \/ monitor # "none" => pc \in {"reading", "scanned"}
    /\ pc = "reading" => monitor # "none"
    /\ ~Readable => readAge = 0
    /\ ~idleReset => resetAge = 0
    /\ monitor = "none" => readAge = 0 /\ ~idleReset
    /\ steady => /\ ~idleErr /\ monitor # "fired"
                 /\ monitor = "armed" =>
                      /\ timer + resetAge >= IdleTimeout - KeepAlive - Latency
                      /\ ~idleReset => timer + readAge >= IdleTimeout - KeepAlive
                      /\ ~idleReset /\ ~Readable => timer + quiet >= IdleTimeout

PaceAssumption == KeepAlive + 2 * Latency < IdleTimeout

LEMMA PaceInit == LInit => PaceInv
BY DEF LInit, PaceInv, Readable

LEMMA PaceNext == PaceAssumption /\ Kinds /\ PaceInv /\ [LNext]_vars => PaceInv'
<1> SUFFICES ASSUME PaceAssumption, Kinds, PaceInv, [LNext]_vars PROVE PaceInv'
    OBVIOUS
<1> USE Bounds
<1> USE DEF PaceInv, Readable,
        statusVars, delayVars, monitorVars, wireVars, ageVars, streamVars, historyVars
<1>1. /\ timer \in Nat /\ quiet \in Nat /\ readAge \in Nat /\ resetAge \in Nat
      /\ quiet <= KeepAlive /\ readAge <= Latency /\ resetAge <= Latency
      /\ timer <= IdleTimeout
    BY DEF Kinds, LoopKinds, StreamKinds
<1>2. CASE UNCHANGED streamVars /\ {pc, pc'} \cap {"reading", "scanned"} = {}
    BY <1>2
<1>3. CASE BeginAttempt \/ Stop \/ Fetch \/ Retry \/ Backoff
    <2>1. UNCHANGED streamVars /\ {pc, pc'} \cap {"reading", "scanned"} = {}
        BY <1>3 DEF BeginAttempt, Stop, Fetch, InstallSnapshot, SnapshotFails, Retry,
           RefreshAfterGap, RetryAfterEnd, RetryAfterError, GoesOn, WaitBackoff,
           Backoff, Double, Jitter, WaitEnds
    <2> QED
        BY <1>2, <2>1
<1>4. CASE StreamAccepted
    BY <1>4 DEF StreamAccepted
<1>5. CASE StreamRefused \/ StreamOver
    BY <1>5 DEF StreamRefused, StreamOver, Return
<1>6. CASE BeginReading
    BY <1>1, <1>6 DEF BeginReading
<1>7. CASE ReadLine
    <2>1. CASE Head(lines) \in {"comment", "event"}
        <3>1. TakeLine /\ UNCHANGED pc /\ Readable
            BY <1>7, <2>1 DEF ReadLine
        <3>2. idleReset' = TRUE /\ UNCHANGED <<timer, resetAge, monitor, idleErr, steady>>
            BY <3>1 DEF TakeLine
        <3>3. ~Readable' => readAge' = 0
            BY <3>1 DEF TakeLine
        <3>4. monitor # "none"
            BY <1>7 DEF ReadLine
        <3> QED
            BY <1>1, <3>1, <3>2, <3>3, <3>4
    <2>2. CASE Head(lines) \notin {"comment", "event"}
        BY <1>7, <2>2 DEF ReadLine, Return
    <2> QED
        BY <2>1, <2>2
<1>8. CASE ScanEnds
    BY <1>1, <1>8 DEF ScanEnds
<1>9. CASE MonitorResets
    BY <1>1, <1>9 DEF MonitorResets
<1>10. CASE MonitorFires
    BY <1>1, <1>10 DEF MonitorFires, PaceAssumption
<1>11. CASE MonitorCancels
    BY <1>1, <1>11 DEF MonitorCancels
<1>12. CASE MonitorStops
    BY <1>1, <1>12 DEF MonitorStops
<1>13. CASE CoreWrites
    BY <1>1, <1>13 DEF CoreWrites
<1>14. CASE StreamStalls \/ StreamEnds \/ Shutdown
    BY <1>1, <1>14 DEF StreamStalls, StreamEnds, Shutdown
<1>15. CASE Tick
    BY <1>1, <1>15 DEF Tick, Kept
<1>16. CASE Stopped \/ UNCHANGED vars
    BY <1>16 DEF Stopped, vars
<1> QED
    BY <1>3, <1>4, <1>5, <1>6, <1>7, <1>8, <1>9, <1>10, <1>11, <1>12, <1>13, <1>14,
       <1>15, <1>16
       DEF LNext, Consume, Monitor, Environment

(* A stream that core keeps alive is never held to be idle, whatever the    *)
(* latencies and timeouts, as long as the timeout is above their sum.       *)
THEOREM KeptAlive == LSpec => []KeptAliveNeverIdle
<1>1. PaceAssumption => (LSpec => []PaceInv)
    <2>1. LInit => Kinds /\ PaceInv
        BY TypeInit, PaceInit
    <2>2. PaceAssumption /\ Kinds /\ PaceInv /\ [LNext]_vars => (Kinds /\ PaceInv)'
        BY TypeNext, PaceNext
    <2> SUFFICES ASSUME PaceAssumption PROVE LSpec => []PaceInv
        OBVIOUS
    <2>3. Kinds /\ PaceInv /\ [LNext]_vars => (Kinds /\ PaceInv)'
        BY <2>2
    <2> QED
        BY <2>1, <2>3, PTL DEF LSpec
<1>2. PaceInv => KeptAliveNeverIdle
    BY DEF PaceInv, KeptAliveNeverIdle
<1>3. CASE PaceAssumption
    BY <1>1, <1>2, <1>3, PTL
<1>4. CASE ~PaceAssumption
    <2>1. KeptAliveNeverIdle
        BY <1>4 DEF PaceAssumption, KeptAliveNeverIdle
    <2> QED
        BY <2>1, PTL
<1> QED
    BY <1>3, <1>4
=============================================================================
