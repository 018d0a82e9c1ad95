------------------------------ MODULE Telemetry ------------------------------
(***************************************************************************)
(* platform/telemetry: New, which makes a provider for each signal and     *)
(* registers them globally, or closes what it has made; the handler of the *)
(* errors of their exporters, which logs at a limited rate; and Shutdown,  *)
(* which sends what is left of every signal until a deadline.              *)
(*                                                                         *)
(* The collector answers the exporter of a signal or leaves it hanging.    *)
(* Time is a counter; a deadline passes only when no exporter that is      *)
(* answered has anything left to do.                                       *)
(***************************************************************************)
EXTENDS Integers, Sequences, FiniteSetsExt

CONSTANTS
    Interval,   \* errorLogInterval
    Horizon,    \* bound of the clock
    MaxErrors   \* bound of the errors handled

ASSUME BoundsAssumption == Interval \in Nat \ {0} /\ Horizon \in Nat \ {0} /\ MaxErrors \in Nat

VARIABLES
    phase,       \* where New, or the Shutdown after it, stands
    config,      \* "off", "invalid", "on"
    stuck,       \* signals whose exporter the collector leaves hanging
    provider,    \* provider[s]: "none", "up", "closing", "closed"
    registered,  \* the providers and the error handler are the global ones
    late,        \* the context of Shutdown is done
    sent,        \* signals whose data were sent before their provider closed
    now,         \* the clock
    last,        \* errorHandler.last, 0 before the first WARN
    suppressed,  \* errorHandler.suppressed
    writing,     \* writing[s]: count in the WARN that the exporter of s is logging
    errors,      \* errors handled so far
    reported,    \* errors that WARNs have told of
    warned       \* times at which a WARN was decided

building == <<phase, config, stuck, provider, registered>>
closing  == <<late, sent>>
handler  == <<now, last, suppressed, writing, errors, reported, warned>>
tvars    == <<building, closing, handler>>

Signals == {"trace", "metric", "log"}
NoLine  == -1
Made(s) == provider[s] # "none"

TelemetryInit ==
    /\ phase = "resource"
    /\ config \in {"off", "invalid", "on"}
    /\ stuck \in SUBSET Signals
    /\ provider = [s \in Signals |-> "none"]
    /\ registered = FALSE
    /\ late = FALSE /\ sent = {}
    /\ now = 1 /\ last = 0 /\ suppressed = 0
    /\ writing = [s \in Signals |-> NoLine]
    /\ errors = 0 /\ reported = 0 /\ warned = <<>>

-----------------------------------------------------------------------------
(* New.                                                                    *)

Goes(to) ==
    /\ phase' = to
    /\ UNCHANGED <<config, stuck, provider, registered, closing, handler>>

(* validate, Enabled, and newResource.                                     *)
Start ==
    /\ phase = "resource"
    /\ \/ config = "invalid" /\ Goes("failed")
       \/ config = "off" /\ Goes("running")
       \/ config = "on" /\ \E to \in {"failed", "trace"} : Goes(to)

(* The step after that of each provider; the metrics of the runtime are    *)
(* started between the meter and the logger.                               *)
After(s) == CASE s = "trace"  -> "metric"
              [] s = "metric" -> "runtime"
              [] s = "log"    -> "register"

Provide(s) ==
    /\ phase = s
    /\ provider' = [provider EXCEPT ![s] = "up"]
    /\ phase' = After(s)
    /\ UNCHANGED <<config, stuck, registered, closing, handler>>

RuntimeMetrics == phase = "runtime" /\ Goes("log")

(* Mutant: a provider that fails ends New as the first one does.           *)
StepFails_NoRollback ==
    /\ phase \in {"trace", "metric", "runtime", "log"}
    /\ Goes("failed")

(* A step fails: nothing is made yet, or rollback closes what is.          *)
StepFails ==
    \/ phase = "trace" /\ Goes("failed")
    \/ phase \in {"metric", "runtime", "log"} /\ Goes("rollback")

Register ==
    /\ phase = "register"
    /\ registered' = TRUE /\ phase' = "running"
    /\ UNCHANGED <<config, stuck, provider, closing, handler>>

-----------------------------------------------------------------------------
(* Shutdown, called by the closer of the service or by rollback.           *)

Stop == phase = "running" /\ Goes("stopping")

Shutting == phase \in {"rollback", "stopping"}

(* Mutant: the providers are shut down one after the other.                *)
CanClose_InTurn(s) == Shutting /\ provider[s] = "up" /\ \A d \in Signals : provider[d] # "closing"

(* Each provider is shut down in a goroutine of its own.                   *)
CanClose(s) == Shutting /\ provider[s] = "up"

CloseBegins(s) ==
    /\ CanClose(s)
    /\ provider' = [provider EXCEPT ![s] = "closing"]
    /\ UNCHANGED <<phase, config, stuck, registered, closing, handler>>

Closes(s, delivered) ==
    /\ provider[s] = "closing"
    /\ provider' = [provider EXCEPT ![s] = "closed"]
    /\ sent' = IF delivered THEN sent \cup {s} ELSE sent
    /\ UNCHANGED <<phase, config, stuck, registered, late, handler>>

Delivers(s) == s \notin stuck /\ ~late /\ Closes(s, TRUE)
GivesUp(s)  == late /\ Closes(s, FALSE)

Deadline ==
    /\ Shutting /\ ~late
    /\ \A s \in Signals : ~CanClose(s) /\ (provider[s] = "closing" => s \in stuck)
    /\ late' = TRUE
    /\ UNCHANGED <<building, sent, handler>>

(* wg.Wait returns.                                                        *)
ShutdownReturns ==
    /\ Shutting /\ \A s \in Signals : provider[s] \in {"none", "closed"}
    /\ Goes(IF phase = "rollback" THEN "failed" ELSE "stopped")

-----------------------------------------------------------------------------
(* errorHandler.                                                           *)

(* An export of the signal fails, and its goroutine calls Handle.          *)
Failing(s) ==
    /\ registered /\ s \in stuck /\ provider[s] \in {"up", "closing"}
    /\ writing[s] = NoLine
    /\ errors < MaxErrors /\ errors' = errors + 1

Throttled(s) ==
    /\ last # 0 /\ now - last < Interval
    /\ suppressed' = suppressed + 1
    /\ UNCHANGED <<writing, warned, last>>

(* Mutant: the count goes on from one WARN to the next.                    *)
Admitted_NoReset(s) ==
    /\ last = 0 \/ now - last >= Interval
    /\ writing' = [writing EXCEPT ![s] = suppressed]
    /\ warned' = Append(warned, now)
    /\ last' = now
    /\ UNCHANGED suppressed

(* Mutant: last is set by the first WARN only.                             *)
Admitted_LastOnce(s) ==
    /\ last = 0 \/ now - last >= Interval
    /\ writing' = [writing EXCEPT ![s] = suppressed]
    /\ warned' = Append(warned, now)
    /\ last' = (IF last = 0 THEN now ELSE last)
    /\ suppressed' = 0

Admitted(s) ==
    /\ last = 0 \/ now - last >= Interval
    /\ writing' = [writing EXCEPT ![s] = suppressed]
    /\ warned' = Append(warned, now)
    /\ last' = now /\ suppressed' = 0

(* Handle up to the unlock.                                                *)
Handle(s) ==
    /\ Failing(s)
    /\ Throttled(s) \/ Admitted(s)
    /\ UNCHANGED <<building, closing, now, reported>>

(* slog.Warn, after the unlock.  The line is itself exported with the log  *)
(* signal, and that may fail in turn.                                      *)
Warn(s) ==
    /\ writing[s] # NoLine
    /\ reported' = reported + 1 + writing[s]
    /\ writing' = [writing EXCEPT ![s] = NoLine]
    /\ UNCHANGED <<building, closing, now, last, suppressed, errors, warned>>

Tick ==
    /\ now < Horizon
    /\ now' = now + 1
    /\ UNCHANGED <<building, closing, last, suppressed, writing, errors, reported, warned>>

-----------------------------------------------------------------------------
TelemetryNext ==
    \/ Start \/ RuntimeMetrics \/ StepFails \/ Register
    \/ Stop \/ Deadline \/ ShutdownReturns
    \/ \E s \in Signals :
          \/ Provide(s)
          \/ CloseBegins(s) \/ Delivers(s) \/ GivesUp(s)
          \/ Handle(s) \/ Warn(s)
    \/ Tick

TelemetrySpec == TelemetryInit /\ [][TelemetryNext]_tvars

-----------------------------------------------------------------------------
TelemetryTypeOK ==
    /\ phase \in {"resource", "trace", "metric", "runtime", "log", "register", "running",
                  "rollback", "stopping", "failed", "stopped"}
    /\ config \in {"off", "invalid", "on"}
    /\ stuck \subseteq Signals /\ sent \subseteq Signals
    /\ provider \in [Signals -> {"none", "up", "closing", "closed"}]
    /\ registered \in BOOLEAN /\ late \in BOOLEAN
    /\ now \in Nat /\ last \in Nat /\ suppressed \in Nat /\ errors \in Nat /\ reported \in Nat
    /\ writing \in [Signals -> Nat \cup {NoLine}]
    /\ warned \in Seq(Nat)

(* A New that fails, at whichever step, leaves no provider running and the *)
(* global state as it was (telemetry.go:55-56).                            *)
FailedNewLeavesNothing ==
    phase = "failed" => ~registered /\ \A s \in Signals : provider[s] \in {"none", "closed"}

(* An exporter that hangs at the shutdown does not eat the time of the     *)
(* others: what the collector accepts is sent (telemetry.go:121-122).      *)
StuckSignalAlone ==
    phase = "stopped" => \A s \in Signals : Made(s) /\ s \notin stuck => s \in sent

(* However the exporters interleave, and although a WARN is written after  *)
(* the lock is released, two of them are never decided on within Interval  *)
(* of each other (errorhandler.go:12-13).                                  *)
WarnsSpaced ==
    \A i, j \in DOMAIN warned : i < j => warned[j] - warned[i] >= Interval

(* No error is lost or told of twice: each was the reason of a WARN, is in *)
(* the count of one, or waits in the count for the next.                   *)
EveryErrorAccounted ==
    errors = reported + suppressed
             + SumFunctionOnSet([s \in Signals |-> 1 + writing[s]], Signals)
=============================================================================
