----------------------------- MODULE ReplicaLoop -----------------------------
(***************************************************************************)
(* The control of replica.Service.Start: attempts, failures and the delays  *)
(* between them, the idle monitor of a stream, what Status reports, and     *)
(* shutdown, against a core that sends any lines, ends a stream at any      *)
(* moment, or falls silent.  What the lines carry is the subject of         *)
(* Replication.                                                             *)
(*                                                                         *)
(* Two goroutines: the loop, and during a stream the monitor, which has a   *)
(* timer, two channels of one (idleReset, idleErr) and the cancellation of  *)
(* the stream's context.  A monitor that is left over from an earlier       *)
(* stream has channels of its own and its context is done: it returns.      *)
(*                                                                         *)
(* Time is counted in ticks for the stream; delays are durations of the     *)
(* code, signed integers of 2 * HalfRange values, and waiting for them is   *)
(* one step.                                                                *)
(***************************************************************************)
EXTENDS Integers, Sequences

CONSTANTS Initial, Cap,     \* ReconnectBackoff and ReconnectBackoffMax, after NewService
          Millisecond,      \* the least delay
          Jitters,          \* values of 0.5 + RandomFloat64(), in percent
          HalfRange,        \* a duration is in -HalfRange .. HalfRange - 1
          IdleTimeout,      \* StreamIdleTimeout, in ticks
          KeepAlive,        \* core's streamHeartbeatInterval, in ticks
          Latency,          \* ticks until a goroutine that can go on does
          LineCap,          \* lines written by core and not yet read
          MaxAttempts       \* bound on the attempts that are counted

ASSUME ReplicaLoopAssumption ==
    /\ {Initial, Cap, Millisecond, HalfRange} \subseteq Nat \ {0}
    /\ Millisecond <= Initial /\ Initial <= Cap
    /\ 3 * Cap <= 2 * HalfRange
    /\ Jitters \subseteq 50 .. 149
    /\ {IdleTimeout, KeepAlive, MaxAttempts} \subseteq Nat \ {0}
    /\ {Latency, LineCap} \subseteq Nat

VARIABLES pc,           \* where the loop is
          shutdown,     \* the context of Start is done
          bootstrapped, connected, lastError, attempts,  \* of Service
          result,       \* the error of the last attempt
          delay, round  \* of exponentialBackoffDuration, then the delay waited

VARIABLES lines,        \* on the wire, unread
          body,         \* the stream: open, or how it ended
          monitor,      \* where the idle monitor is
          timer,        \* ticks until its timer fires
          idleReset, idleErr,  \* whether the channels hold a value
          cancelled     \* cancel() of the stream's context was called

(* Of the environment: whether core keeps this stream alive, the ticks since *)
(* it wrote, those since the loop had nothing to read, and the monitor      *)
(* nothing to take.  History: failures since the last success, and whether  *)
(* a failure has been followed by neither a wait nor a snapshot.            *)
VARIABLES steady, quiet, readAge, resetAge, failures, owed

statusVars  == <<bootstrapped, connected, lastError, attempts>>
delayVars   == <<delay, round>>
monitorVars == <<monitor, timer, idleReset, idleErr, cancelled>>
wireVars    == <<lines, body, steady, quiet>>
ageVars     == <<readAge, resetAge>>
streamVars  == <<wireVars, monitorVars, ageVars>>
historyVars == <<failures, owed>>
vars == <<pc, shutdown, statusVars, result, delayVars, streamVars, historyVars>>

(* head: at the top.  fetching, refreshing: GET /snapshot of bootstrap, of a *)
(* gap.  connecting: GET /stream.  accepted: its response is 200.  reading: *)
(* in Scan.  scanned: Scan returned false.  failed: consumeStream returned.  *)
(* doubling, waiting: in waitBackoff.                                       *)
Locations == {"head", "fetching", "connecting", "accepted", "reading", "scanned",
              "failed", "refreshing", "doubling", "waiting", "stopped"}

(* A comment, an event that is applied or skipped, one out of order, and one *)
(* that does not decode, is not valid or cannot be stored.                  *)
Lines  == {"comment", "event", "gap", "bad"}
Errors == {"none", "snapshot", "status", "gap", "bad", "eof", "broken", "idle", "canceled"}

LInit ==
    /\ pc = "head" /\ shutdown = FALSE
    /\ bootstrapped = FALSE /\ connected = FALSE
    /\ lastError = "none" /\ attempts = 0
    /\ result = "none" /\ delay = Initial /\ round = 0
    /\ lines = <<>> /\ body = "open" /\ steady = FALSE /\ quiet = 0
    /\ monitor = "none" /\ timer = 0
    /\ idleReset = FALSE /\ idleErr = FALSE /\ cancelled = FALSE
    /\ readAge = 0 /\ resetAge = 0
    /\ failures = 0 /\ owed = FALSE

StreamDone == cancelled \/ shutdown

-----------------------------------------------------------------------------
(* Delays.                                                                  *)

(* The value of an integer as a duration. *)
Wrap(x) == ((x + HalfRange) % (2 * HalfRange)) - HalfRange

(* Mutant of Doubled: the cap is looked at after doubling only. *)
DoubledThenCapped(d) == IF d >= Cap THEN Cap ELSE Wrap(2 * d)

(* One round of exponentialBackoffDuration. *)
Doubled(d) == IF d >= Cap \/ d > Cap \div 2 THEN Cap ELSE Wrap(2 * d)

(* Mutant of WithJitter: the cap is not looked at after the jitter. *)
WithJitterUncapped(d, jitter) ==
    LET jittered == (d * jitter) \div 100
    IN  IF jittered < Millisecond THEN Millisecond ELSE jittered

(* nextReconnectDelay: jitter is between 0.5 and 1.5, and truncated. *)
WithJitter(d, jitter) ==
    LET jittered == (d * jitter) \div 100
    IN  IF jittered > Cap THEN Cap
        ELSE IF jittered < Millisecond THEN Millisecond ELSE jittered

Count(n) == IF n < MaxAttempts THEN n + 1 ELSE n

(* waitBackoff begins: the attempt is counted, the doubling starts. *)
WaitBackoff ==
    /\ pc' = "doubling"
    /\ attempts' = Count(attempts)
    /\ failures' = Count(failures)
    /\ delay' = Initial
    /\ round' = 0

Double ==
    /\ pc = "doubling"
    /\ round + 1 < attempts
    /\ round' = round + 1
    /\ delay' = Doubled(delay)
    /\ UNCHANGED <<pc, shutdown, statusVars, result, streamVars, historyVars>>

Jitter ==
    /\ pc = "doubling"
    /\ round + 1 >= attempts
    /\ \E j \in Jitters : delay' = WithJitter(delay, j)
    /\ pc' = "waiting"
    /\ UNCHANGED <<shutdown, statusVars, result, round, streamVars, historyVars>>

(* The timer of waitBackoff, or the end of the context; the attempt's error *)
(* and the delay are gone with it.                                          *)
WaitEnds ==
    /\ pc = "waiting"
    /\ pc' = "head"
    /\ owed' = FALSE
    /\ result' = "none" /\ delay' = Initial /\ round' = 0
    /\ UNCHANGED <<shutdown, statusVars, streamVars, failures>>

-----------------------------------------------------------------------------
(* The head of the loop, and snapshots.                                     *)

(* Mutant of BeginAttempt: the context is not looked at. *)
BeginAttemptUnchecked ==
    /\ pc = "head"
    /\ pc' = IF bootstrapped THEN "connecting" ELSE "fetching"
    /\ UNCHANGED <<shutdown, statusVars, result, delayVars, streamVars, historyVars>>

BeginAttempt ==
    /\ pc = "head"
    /\ pc' = IF shutdown THEN "stopped"
             ELSE IF bootstrapped THEN "connecting" ELSE "fetching"
    /\ UNCHANGED <<shutdown, statusVars, result, delayVars, streamVars, historyVars>>

(* refreshFromSnapshot succeeds. *)
InstallSnapshot ==
    /\ pc \in {"fetching", "refreshing"}
    /\ pc' = IF pc = "fetching" THEN "connecting" ELSE "head"
    /\ bootstrapped' = TRUE
    /\ lastError' = "none"
    /\ attempts' = 0
    /\ failures' = 0 /\ owed' = FALSE
    /\ result' = "none"
    /\ UNCHANGED <<shutdown, connected, delayVars, streamVars>>

(* It fails or times out; when the context is done it may say so. *)
SnapshotError == {"snapshot"} \cup (IF shutdown THEN {"canceled"} ELSE {})

(* Mutant of SnapshotFails: a failed refresh goes to the head at once. *)
SnapshotFailsAtOnce ==
    /\ pc \in {"fetching", "refreshing"}
    /\ \E e \in SnapshotError : result' = e /\ lastError' = e
    /\ owed' = TRUE
    /\ IF pc = "fetching"
       THEN connected' = FALSE /\ WaitBackoff
       ELSE /\ pc' = "head"
            /\ UNCHANGED <<connected, attempts, failures, delayVars>>
    /\ UNCHANGED <<shutdown, bootstrapped, streamVars>>

(* setConnected(false) is called for a failed bootstrap only. *)
SnapshotFails ==
    /\ pc \in {"fetching", "refreshing"}
    /\ \E e \in SnapshotError : result' = e /\ lastError' = e
    /\ owed' = TRUE
    /\ connected' = IF pc = "fetching" THEN FALSE ELSE connected
    /\ WaitBackoff
    /\ UNCHANGED <<shutdown, bootstrapped, streamVars>>

-----------------------------------------------------------------------------
(* consumeStream.                                                           *)

(* consumeStream returns: its deferred calls close the body, cancel the     *)
(* stream's context, so that the monitor returns, and when there was a      *)
(* stream set connected to false.                                           *)
Return(error, isConnected) ==
    /\ pc' = "failed"
    /\ result' = error
    /\ connected' = isConnected
    /\ owed' = TRUE
    /\ lines' = <<>> /\ body' = "open" /\ steady' = FALSE /\ quiet' = 0
    /\ monitor' = "none" /\ timer' = 0
    /\ idleReset' = FALSE /\ idleErr' = FALSE /\ cancelled' = FALSE
    /\ readAge' = 0 /\ resetAge' = 0
    /\ UNCHANGED <<shutdown, bootstrapped, lastError, attempts, delayVars, failures>>

(* No response, or a status other than 200. *)
StreamRefused ==
    /\ pc = "connecting"
    /\ \E e \in {"status", "broken"} \cup (IF shutdown THEN {"canceled"} ELSE {}) :
          Return(e, connected)

(* The headers have arrived: setConnected(true).  Core may keep the stream  *)
(* alive or not.                                                            *)
StreamAccepted ==
    /\ pc = "connecting"
    /\ pc' = "accepted"
    /\ connected' = TRUE
    /\ steady' \in BOOLEAN
    /\ UNCHANGED <<shutdown, bootstrapped, lastError, attempts, result, delayVars,
                   lines, body, quiet, monitorVars, ageVars, historyVars>>

(* resetReconnectBackoff, clearLastError, and the monitor is started. *)
BeginReading ==
    /\ pc = "accepted"
    /\ pc' = "reading"
    /\ attempts' = 0
    /\ lastError' = "none"
    /\ monitor' = "armed" /\ timer' = IdleTimeout
    /\ failures' = 0 /\ owed' = FALSE
    /\ UNCHANGED <<shutdown, bootstrapped, connected, result, delayVars, wireVars,
                   idleReset, idleErr, cancelled, ageVars>>

(* Mutant of TakeLine: the timer is reset by events only. *)
TakeEventLine ==
    /\ lines' = Tail(lines)
    /\ idleReset' = (idleReset \/ Head(lines) # "comment")
    /\ readAge' = IF Tail(lines) = <<>> THEN 0 ELSE readAge
    /\ UNCHANGED <<shutdown, statusVars, result, delayVars, body, steady, quiet,
                   monitor, timer, idleErr, cancelled, resetAge, historyVars>>

(* Scan returns a line: the reset is offered to the monitor, and dropped    *)
(* when one is waiting already.                                             *)
TakeLine ==
    /\ lines' = Tail(lines)
    /\ idleReset' = TRUE
    /\ readAge' = IF Tail(lines) = <<>> THEN 0 ELSE readAge
    /\ UNCHANGED <<shutdown, statusVars, result, delayVars, body, steady, quiet,
                   monitor, timer, idleErr, cancelled, resetAge, historyVars>>

(* Mutant of ReadLine: connected is not set back when the stream is left. *)
ReadLineKeepConnected ==
    /\ pc = "reading" /\ lines # <<>>
    /\ IF Head(lines) \in {"comment", "event"}
       THEN TakeLine /\ UNCHANGED pc
       ELSE Return(Head(lines), connected)

(* A comment is skipped, an event applied or skipped; the others end it. *)
ReadLine ==
    /\ pc = "reading" /\ lines # <<>>
    /\ IF Head(lines) \in {"comment", "event"}
       THEN TakeLine /\ UNCHANGED pc
       ELSE Return(Head(lines), FALSE)

(* Scan returns false: all is read and the body ended, or its context is    *)
(* done.                                                                    *)
ScanEnds ==
    /\ pc = "reading"
    /\ \/ body # "open" /\ lines = <<>> /\ result' = body
       \/ StreamDone /\ result' = "canceled"
    /\ pc' = "scanned"
    /\ UNCHANGED <<shutdown, statusVars, delayVars, streamVars, historyVars>>

(* An idle timeout explains the end better than the scanner's error. *)
StreamOver ==
    /\ pc = "scanned"
    /\ Return(IF idleErr THEN "idle" ELSE result, FALSE)

-----------------------------------------------------------------------------
(* The idle monitor: a select whose ready cases are taken in any order.     *)

MonitorResets ==
    /\ monitor = "armed" /\ idleReset
    /\ idleReset' = FALSE
    /\ timer' = IdleTimeout
    /\ resetAge' = 0
    /\ UNCHANGED <<pc, shutdown, statusVars, result, delayVars, wireVars,
                   monitor, idleErr, cancelled, readAge, historyVars>>

(* Mutant of MonitorFires: cancel() before the error is reported. *)
MonitorFiresBackwards ==
    /\ monitor = "armed" /\ timer = 0
    /\ cancelled' = TRUE
    /\ monitor' = "fired"
    /\ UNCHANGED <<pc, shutdown, statusVars, result, delayVars, wireVars,
                   timer, idleReset, idleErr, ageVars, historyVars>>

MonitorFires ==
    /\ monitor = "armed" /\ timer = 0
    /\ idleErr' = TRUE
    /\ monitor' = "fired"
    /\ UNCHANGED <<pc, shutdown, statusVars, result, delayVars, wireVars,
                   timer, idleReset, cancelled, ageVars, historyVars>>

(* Mutant of MonitorCancels: the error is reported, the stream not cancelled. *)
MonitorCancelsNothing ==
    /\ monitor = "fired"
    /\ monitor' = "done"
    /\ UNCHANGED <<pc, shutdown, statusVars, result, delayVars, wireVars,
                   timer, idleReset, idleErr, cancelled, ageVars, historyVars>>

MonitorCancels ==
    /\ monitor = "fired"
    /\ cancelled' = TRUE
    /\ monitor' = "done"
    /\ UNCHANGED <<pc, shutdown, statusVars, result, delayVars, wireVars,
                   timer, idleReset, idleErr, ageVars, historyVars>>

MonitorStops ==
    /\ monitor = "armed" /\ StreamDone
    /\ monitor' = "done"
    /\ UNCHANGED <<pc, shutdown, statusVars, result, delayVars, wireVars,
                   timer, idleReset, idleErr, cancelled, ageVars, historyVars>>

-----------------------------------------------------------------------------
(* The branches of Start after consumeStream.                               *)

Stop ==
    /\ pc = "failed"
    /\ shutdown \/ result = "canceled"
    /\ pc' = "stopped"
    /\ connected' = FALSE
    /\ UNCHANGED <<shutdown, bootstrapped, lastError, attempts, result, delayVars,
                   streamVars, historyVars>>

GoesOn == pc = "failed" /\ ~shutdown /\ result # "canceled"

(* ErrSeqGap: a snapshot at once. *)
RefreshAfterGap ==
    /\ GoesOn /\ result = "gap"
    /\ lastError' = "gap"
    /\ pc' = "refreshing"
    /\ UNCHANGED <<shutdown, bootstrapped, connected, attempts, result, delayVars,
                   streamVars, historyVars>>

(* Mutant of RetryAfterEnd: the end of a stream is an error like others. *)
RetryAfterEndWithError ==
    /\ GoesOn /\ result = "eof"
    /\ connected' = FALSE
    /\ lastError' = "eof"
    /\ WaitBackoff
    /\ UNCHANGED <<shutdown, bootstrapped, result, streamVars, owed>>

(* io.EOF: lastError stays as it is. *)
RetryAfterEnd ==
    /\ GoesOn /\ result = "eof"
    /\ connected' = FALSE
    /\ WaitBackoff
    /\ UNCHANGED <<shutdown, bootstrapped, lastError, result, streamVars, owed>>

RetryAfterError ==
    /\ GoesOn /\ result \notin {"gap", "eof"}
    /\ lastError' = result
    /\ connected' = FALSE
    /\ WaitBackoff
    /\ UNCHANGED <<shutdown, bootstrapped, result, streamVars, owed>>

-----------------------------------------------------------------------------
(* Core, the network, the operator and time.                                *)

OnStream == pc \in {"accepted", "reading"}

CoreWrites ==
    /\ OnStream /\ body = "open" /\ ~StreamDone
    /\ Len(lines) < LineCap
    /\ \E line \in Lines : lines' = Append(lines, line)
    /\ quiet' = 0
    /\ UNCHANGED <<pc, shutdown, statusVars, result, delayVars, body, steady,
                   monitorVars, ageVars, historyVars>>

(* Core, or the network, falls silent without closing the stream. *)
StreamStalls ==
    /\ OnStream /\ steady
    /\ steady' = FALSE /\ quiet' = 0
    /\ UNCHANGED <<pc, shutdown, statusVars, result, delayVars, lines, body,
                   monitorVars, ageVars, historyVars>>

StreamEnds ==
    /\ OnStream /\ body = "open"
    /\ body' \in {"eof", "broken"}
    /\ UNCHANGED <<pc, shutdown, statusVars, result, delayVars, lines, steady, quiet,
                   monitorVars, ageVars, historyVars>>

Shutdown ==
    /\ ~shutdown
    /\ shutdown' = TRUE
    /\ UNCHANGED <<pc, statusVars, result, delayVars, streamVars, historyVars>>

(* A goroutine with something to read or take does so within Latency, and a *)
(* core that keeps the stream alive writes within KeepAlive.                *)
Readable == lines # <<>> \/ body # "open"

Kept == steady /\ body = "open"

Tick ==
    /\ pc = "reading" /\ monitor = "armed" /\ timer > 0
    /\ Kept => quiet < KeepAlive
    /\ Readable => readAge < Latency
    /\ idleReset => resetAge < Latency
    /\ timer' = timer - 1
    /\ quiet' = IF Kept THEN quiet + 1 ELSE 0
    /\ readAge' = IF Readable THEN readAge + 1 ELSE 0
    /\ resetAge' = IF idleReset THEN resetAge + 1 ELSE 0
    /\ UNCHANGED <<pc, shutdown, statusVars, result, delayVars, lines, body, steady,
                   monitor, idleReset, idleErr, cancelled, historyVars>>

-----------------------------------------------------------------------------
Fetch   == InstallSnapshot \/ SnapshotFails
Retry   == RefreshAfterGap \/ RetryAfterEnd \/ RetryAfterError
Backoff == Double \/ Jitter \/ WaitEnds
Consume == BeginReading \/ ReadLine \/ ScanEnds \/ StreamOver
Monitor == MonitorResets \/ MonitorFires \/ MonitorCancels \/ MonitorStops

Environment == CoreWrites \/ StreamStalls \/ StreamEnds \/ Shutdown \/ Tick

(* A loop that has stopped stays so. *)
Stopped == pc = "stopped" /\ UNCHANGED vars

LNext ==
    \/ BeginAttempt \/ Fetch \/ StreamRefused \/ StreamAccepted \/ Consume
    \/ Stop \/ Retry \/ Backoff \/ Monitor \/ Environment \/ Stopped

LSpec == LInit /\ [][LNext]_vars

(* Goroutines run and time passes.  A request for a snapshot ends, because  *)
(* it has a timeout; one for a stream has none, and ends for certain only   *)
(* when the context is done.  Nothing is assumed of core but that it writes *)
(* while it keeps the stream alive.                                         *)
LFairSpec ==
    /\ LSpec
    /\ WF_vars(BeginAttempt) /\ WF_vars(Fetch) /\ WF_vars(Consume)
    /\ WF_vars(Stop \/ Retry) /\ WF_vars(Backoff)
    /\ WF_vars(shutdown /\ StreamRefused)
    /\ WF_vars(Monitor) /\ WF_vars(Tick) /\ WF_vars(steady /\ CoreWrites)

-----------------------------------------------------------------------------
(* Properties.                                                              *)

(* Every variable holds a value of the right kind, and a delay is never     *)
(* below the least one nor above the configured maximum.                    *)
LTypeOK ==
    /\ pc \in Locations
    /\ shutdown \in BOOLEAN /\ bootstrapped \in BOOLEAN /\ connected \in BOOLEAN
    /\ idleReset \in BOOLEAN /\ idleErr \in BOOLEAN /\ cancelled \in BOOLEAN
    /\ steady \in BOOLEAN /\ owed \in BOOLEAN
    /\ lastError \in Errors /\ result \in Errors
    /\ attempts \in 0 .. MaxAttempts /\ failures \in 0 .. MaxAttempts
    /\ delay \in Millisecond .. Cap
    /\ round \in Nat
    /\ lines \in Seq(Lines) /\ Len(lines) <= LineCap
    /\ body \in {"open", "eof", "broken"}
    /\ monitor \in {"none", "armed", "fired", "done"}
    /\ timer \in 0 .. IdleTimeout
    /\ quiet \in 0 .. KeepAlive
    /\ readAge \in 0 .. Latency /\ resetAge \in 0 .. Latency

(* Start returns for a shutdown only.  The idle timeout ends a stream by    *)
(* cancelling its context, and Start takes context.Canceled for a shutdown: *)
(* what makes the difference is that the timeout is reported before it      *)
(* cancels, and looked for before the scanner's error.                      *)
StopsOnlyOnShutdown == pc = "stopped" => shutdown

(* Status says connected exactly while there is a stream, however it ends,  *)
(* also when a gap, a failed refresh and a shutdown follow one another.     *)
(* Heartbeats and Replication rely on it.                                   *)
ConnectedOnlyOnStream == connected <=> pc \in {"accepted", "reading", "scanned"}

(* "Stream EOF should not pollute replica last_error" (LESSONS.md:47), and  *)
(* between attempts lastError is the error of the last one, whatever came   *)
(* before; on a stream there is none.                                       *)
ErrorIsLastFailure ==
    /\ pc \in {"doubling", "waiting"} =>
          lastError = IF result = "eof" THEN "none" ELSE result
    /\ pc \in {"reading", "scanned", "connecting"} /\ failures = 0 =>
          lastError = "none"

(* Initial * 2 ^ k, cut at the cap once. *)
Ideal(k) ==
    LET power[i \in 0 .. k] == IF i = 0 THEN Initial ELSE 2 * power[i - 1]
    IN  IF power[k] < Cap THEN power[k] ELSE Cap

(* "Overflow can produce negative durations and reconnect hammering"        *)
(* (README.md:381): after k failures in a row the wait is between half and  *)
(* one and a half times Initial * 2 ^ (k - 1), cut at the cap, and after a  *)
(* success it begins again at Initial.                                      *)
PacedByFailures ==
    pc = "waiting" =>
        /\ 2 * delay + 1 >= Ideal(failures - 1)
        /\ 2 * delay <= 3 * Ideal(failures - 1)

(* No request for a snapshot or a stream follows a failed attempt without a *)
(* wait or a snapshot in between; the one exception is the refresh that a   *)
(* gap asks for.                                                            *)
NoHammering == pc \in {"fetching", "connecting"} => ~owed

(* A core that writes a keepalive in time is never held to be idle, for all *)
(* interleavings of the lines, the reset channel and the timer.             *)
KeptAliveNeverIdle ==
    KeepAlive + 2 * Latency < IdleTimeout /\ steady => ~idleErr

(* "StreamIdleTimeout": the loop does not read a stream for ever that       *)
(* brings no line.                                                          *)
SilentStreamLeft == <>[](pc = "reading") => []<><<ReadLine>>_vars

(* After a shutdown the loop stops, wherever it is.                         *)
ShutdownStops == shutdown ~> pc = "stopped"
=============================================================================
