--------------------------- MODULE Telemetry_proofs ---------------------------
(***************************************************************************)
(* Proofs about Telemetry, for every interval and without a bound on the   *)
(* clock or on the number of errors: what New leaves behind, what Shutdown *)
(* sends, how far apart the WARNs of the error handler are, and that they  *)
(* account for every error.                                                *)
(***************************************************************************)
EXTENDS Telemetry, SumTheorems

Closing == {"rollback", "stopping", "failed", "stopped"}

(* How the providers stand to the progress of New and Shutdown.  Once the  *)
(* deadline has passed only stuck providers are not closed, so that a      *)
(* closed one either has sent its data or was stuck.                       *)
ProvidersInv ==
    /\ phase \in {"resource", "trace"} => \A s \in Signals : provider[s] = "none"
    /\ registered => phase \in {"running", "stopping", "stopped"}
    /\ phase \in {"failed", "stopped"} => \A s \in Signals : provider[s] \in {"none", "closed"}
    /\ \A s \in Signals : /\ provider[s] \in {"closing", "closed"} => phase \in Closing
                          /\ provider[s] = "closed" => s \in sent \cup stuck
    /\ late => /\ phase \in Closing
               /\ \A s \in Signals : /\ provider[s] # "up"
                                     /\ provider[s] = "closing" => s \in stuck

(* errorHandler.last is the time of the last WARN.                         *)
WarnsInv ==
    /\ now # 0 /\ last <= now
    /\ warned = <<>> <=> last = 0
    /\ warned # <<>> => last = warned[Len(warned)]
    /\ WarnsSpaced

TelemetryInv == TelemetryTypeOK /\ ProvidersInv /\ WarnsInv

-----------------------------------------------------------------------------
LEMMA TelemetryInitially == TelemetryInit => TelemetryInv
<1> SUFFICES ASSUME TelemetryInit PROVE TelemetryInv
  OBVIOUS
<1> USE DEF TelemetryInit
<1>1. TelemetryTypeOK
  <2>1. phase = "resource" /\ <<>> \in Seq(Nat) /\ TRUE \in BOOLEAN /\ FALSE \in BOOLEAN
    OBVIOUS
  <2>2. /\ writing \in [Signals -> Nat \cup {NoLine}]
        /\ provider \in [Signals -> {"none", "up", "closing", "closed"}]
    OBVIOUS
  <2>3. QED
    BY <2>1, <2>2 DEF TelemetryTypeOK
<1>2. ProvidersInv
  BY DEF ProvidersInv
<1>3. WarnsInv
  BY DEF WarnsInv, WarnsSpaced
<1>4. QED
  BY <1>1, <1>2, <1>3 DEF TelemetryInv

LEMMA TypeStep == TelemetryTypeOK /\ [TelemetryNext]_tvars => TelemetryTypeOK'
<1> SUFFICES ASSUME TelemetryTypeOK, [TelemetryNext]_tvars PROVE TelemetryTypeOK'
  OBVIOUS
<1> USE DEF TelemetryTypeOK
<1>1. CASE Start \/ RuntimeMetrics \/ StepFails \/ Stop
  BY <1>1 DEF Start, RuntimeMetrics, StepFails, Stop, Goes, closing, handler
<1>2. CASE ShutdownReturns \/ Register
  BY <1>2 DEF ShutdownReturns, Register, Goes, closing, handler
<1>3. CASE Deadline
  BY <1>3 DEF Deadline, building, handler
<1>4. CASE Tick
  BY <1>4 DEF Tick, building, closing
<1>5. ASSUME NEW s \in Signals, Provide(s) PROVE TelemetryTypeOK'
  BY <1>5 DEF Provide, After, Signals, closing, handler
<1>6. ASSUME NEW s \in Signals, CloseBegins(s) \/ Delivers(s) \/ GivesUp(s)
      PROVE  TelemetryTypeOK'
  BY <1>6 DEF CloseBegins, Delivers, GivesUp, Closes, closing, handler
<1>7. ASSUME NEW s \in Signals, Handle(s) PROVE TelemetryTypeOK'
  <2>1. CASE Throttled(s)
    BY <1>7, <2>1 DEF Handle, Failing, Throttled, building, closing
  <2>2. CASE Admitted(s)
    BY <1>7, <2>2 DEF Handle, Failing, Admitted, building, closing
  <2>3. QED
    BY <1>7, <2>1, <2>2 DEF Handle
<1>8. ASSUME NEW s \in Signals, Warn(s) PROVE TelemetryTypeOK'
  BY <1>8 DEF Warn, NoLine, building, closing
<1>9. CASE UNCHANGED tvars
  BY <1>9 DEF tvars, building, closing, handler
<1>10. QED
  BY <1>1, <1>2, <1>3, <1>4, <1>5, <1>6, <1>7, <1>8, <1>9 DEF TelemetryNext

LEMMA ProvidersStep == TelemetryInv /\ [TelemetryNext]_tvars => ProvidersInv'
<1> SUFFICES ASSUME TelemetryInv, [TelemetryNext]_tvars PROVE ProvidersInv'
  OBVIOUS
<1> USE DEF TelemetryInv, TelemetryTypeOK, ProvidersInv, Closing
<1>1. CASE Start
  BY <1>1 DEF Start, Goes, closing, handler
<1>2. CASE RuntimeMetrics \/ StepFails \/ Stop
  BY <1>2 DEF RuntimeMetrics, StepFails, Stop, Goes, closing, handler
<1>3. CASE Register
  BY <1>3 DEF Register, closing, handler
<1>4. CASE Deadline
  BY <1>4 DEF Deadline, Shutting, CanClose, building, handler
<1>5. CASE ShutdownReturns
  BY <1>5 DEF ShutdownReturns, Shutting, Goes, closing, handler
<1>6. ASSUME NEW s \in Signals, Provide(s) PROVE ProvidersInv'
  BY <1>6 DEF Provide, After, Signals, closing, handler
<1>7. ASSUME NEW s \in Signals, CloseBegins(s) PROVE ProvidersInv'
  BY <1>7 DEF CloseBegins, CanClose, Shutting, closing, handler
<1>8. ASSUME NEW s \in Signals, Delivers(s) \/ GivesUp(s) PROVE ProvidersInv'
  BY <1>8 DEF Delivers, GivesUp, Closes, handler
<1>9. CASE Tick \/ (\E s \in Signals : Handle(s) \/ Warn(s)) \/ UNCHANGED tvars
  BY <1>9 DEF Tick, Handle, Warn, tvars, building, closing
<1>10. QED
  BY <1>1, <1>2, <1>3, <1>4, <1>5, <1>6, <1>7, <1>8, <1>9 DEF TelemetryNext

(* A WARN is admitted at least an interval after the last one, which is    *)
(* the latest of all.                                                      *)
LEMMA AdmittedIsSpaced ==
    ASSUME TelemetryInv, NEW s \in Signals, Handle(s), Admitted(s)
    PROVE  WarnsInv'
<1> USE DEF TelemetryInv, TelemetryTypeOK, WarnsInv, WarnsSpaced
<1>1. /\ warned' = Append(warned, now) /\ last' = now /\ now' = now
      /\ last = 0 \/ now - last >= Interval
  BY DEF Handle, Admitted
<1>2. Len(warned') = Len(warned) + 1 /\ warned'[Len(warned')] = now
      /\ \A i \in DOMAIN warned : warned'[i] = warned[i]
  BY <1>1
<1>3. ASSUME NEW i \in DOMAIN warned PROVE now - warned[i] >= Interval
  <2>1. i \in 1 .. Len(warned) /\ Len(warned) \in DOMAIN warned /\ warned # <<>>
    OBVIOUS
  <2>2. warned[i] <= warned[Len(warned)]
    BY <2>1, BoundsAssumption
  <2>3. QED
    BY <1>1, <2>1, <2>2, BoundsAssumption
<1>4. ASSUME NEW i \in DOMAIN warned', NEW j \in DOMAIN warned', i < j
      PROVE  warned'[j] - warned'[i] >= Interval
  <2>1. i \in DOMAIN warned
    BY <1>2, <1>4, <1>1
  <2>2. CASE j \in DOMAIN warned
    BY <1>2, <1>4, <2>1, <2>2
  <2>3. CASE j \notin DOMAIN warned
    <3>1. j = Len(warned')
      BY <1>1, <1>2, <2>3
    <3>2. QED
      BY <1>2, <1>3, <2>1, <3>1
  <2>4. QED
    BY <2>2, <2>3
<1>5. QED
  BY <1>1, <1>2, <1>4

LEMMA WarnsStep == TelemetryInv /\ [TelemetryNext]_tvars => WarnsInv'
<1> SUFFICES ASSUME TelemetryInv, [TelemetryNext]_tvars PROVE WarnsInv'
  OBVIOUS
<1>1. CASE UNCHANGED <<now, last, warned>>
  BY <1>1 DEF TelemetryInv, WarnsInv, WarnsSpaced
<1>2. CASE Tick
  BY <1>2 DEF Tick, TelemetryInv, TelemetryTypeOK, WarnsInv, WarnsSpaced
<1>3. ASSUME NEW s \in Signals, Handle(s) PROVE WarnsInv'
  <2>1. Throttled(s) => UNCHANGED <<now, last, warned>>
    BY <1>3 DEF Handle, Throttled
  <2>2. QED
    BY <1>1, <1>3, <2>1, AdmittedIsSpaced DEF Handle
<1>4. Start \/ RuntimeMetrics \/ StepFails \/ Register \/ Stop \/ Deadline \/ ShutdownReturns
      => UNCHANGED <<now, last, warned>>
  BY DEF Start, RuntimeMetrics, StepFails, Register, Stop, Deadline, ShutdownReturns, Goes, handler
<1>5. ASSUME NEW s \in Signals,
             Provide(s) \/ CloseBegins(s) \/ Delivers(s) \/ GivesUp(s) \/ Warn(s)
      PROVE  UNCHANGED <<now, last, warned>>
  BY <1>5 DEF Provide, CloseBegins, Delivers, GivesUp, Closes, Warn, handler
<1>6. UNCHANGED tvars => UNCHANGED <<now, last, warned>>
  BY DEF tvars, handler
<1>7. QED
  BY <1>1, <1>2, <1>3, <1>4, <1>5, <1>6 DEF TelemetryNext

-----------------------------------------------------------------------------
(* The inductive invariant holds, the types of the variables included.     *)
THEOREM TelemetryInvariance == TelemetrySpec => []TelemetryInv
<1>1. TelemetryInv /\ [TelemetryNext]_tvars => TelemetryInv'
  BY TypeStep, ProvidersStep, WarnsStep DEF TelemetryInv
<1>2. QED
  BY TelemetryInitially, <1>1, PTL DEF TelemetrySpec

(* A New that fails closes the providers it has made and registers none    *)
(* (build with rollback, telemetry.go:60-106).                             *)
THEOREM FailedNewUndone == TelemetrySpec => []FailedNewLeavesNothing
<1>1. TelemetryInv => FailedNewLeavesNothing
  BY DEF TelemetryInv, ProvidersInv, FailedNewLeavesNothing
<1>2. QED
  BY TelemetryInvariance, <1>1, PTL

(* Shutdown returns with the data of every signal sent that the collector  *)
(* takes, whichever others hang (telemetry.go:121-145).                    *)
THEOREM StuckSignalHoldsNoOther == TelemetrySpec => []StuckSignalAlone
<1>1. TelemetryInv => StuckSignalAlone
  BY DEF TelemetryInv, ProvidersInv, StuckSignalAlone, Made
<1>2. QED
  BY TelemetryInvariance, <1>1, PTL

(* Any two WARNs are at least errorLogInterval apart                       *)
(* (errorHandler.Handle, errorhandler.go:29-44).                           *)
THEOREM WarnInterval == TelemetrySpec => []WarnsSpaced
<1>1. TelemetryInv => WarnsSpaced
  BY DEF TelemetryInv, WarnsInv
<1>2. QED
  BY TelemetryInvariance, <1>1, PTL

-----------------------------------------------------------------------------
(* The count of the errors.                                                *)

(* What the WARN under way for s is about: its own error and those it      *)
(* counts, nothing when no line is being written.                          *)
Pending == [s \in Signals |-> 1 + writing[s]]

LEMMA SignalsFinite == IsFiniteSet(Signals)
<1>1. IsFiniteSet({} \cup {"trace"})
  BY FS_EmptySet, FS_AddElement
<1>2. IsFiniteSet(({} \cup {"trace"}) \cup {"metric"})
  BY <1>1, FS_AddElement
<1>3. IsFiniteSet((({} \cup {"trace"}) \cup {"metric"}) \cup {"log"})
  BY <1>2, FS_AddElement
<1>4. Signals = (({} \cup {"trace"}) \cup {"metric"}) \cup {"log"}
  BY DEF Signals
<1>5. QED
  BY <1>3, <1>4

LEMMA PendingType ==
    ASSUME TelemetryTypeOK
    PROVE  (\A s \in Signals : Pending[s] \in Nat) /\ SumFunctionOnSet(Pending, Signals) \in Nat
<1>1. \A s \in Signals : Pending[s] \in Nat
  BY DEF Pending, TelemetryTypeOK, NoLine
<1>2. QED
  BY <1>1, SignalsFinite, SumType

(* A change of writing[s] alone changes the sum by as much.                *)
LEMMA PendingChange ==
    ASSUME TelemetryTypeOK, NEW s \in Signals, NEW n \in Nat \cup {NoLine},
           writing' = [writing EXCEPT ![s] = n]
    PROVE  SumFunctionOnSet(Pending', Signals)
             = SumFunctionOnSet(Pending, Signals) + n - writing[s]
<1>1. PICK old : old = Pending
  OBVIOUS
<1>2. PICK new : new = Pending'
  OBVIOUS
<1>3. writing \in [Signals -> Nat \cup {NoLine}]
  BY DEF TelemetryTypeOK
<1>4. new = [d \in Signals |-> 1 + writing'[d]]
  BY <1>2 DEF Pending
<1>5. /\ \A d \in Signals : old[d] \in Nat /\ new[d] \in Nat
      /\ \A d \in Signals \ {s} : new[d] = old[d]
      /\ old[s] = 1 + writing[s] /\ new[s] = 1 + n
  BY <1>1, <1>3, <1>4 DEF Pending, NoLine
<1>6. SumFunctionOnSet(new, Signals) = SumFunctionOnSet(old, Signals) + new[s] - old[s]
  BY <1>5, SignalsFinite, SumChange
<1>7. SumFunctionOnSet(old, Signals) \in Nat
  BY <1>5, SignalsFinite, SumType
<1>8. n \in Int /\ writing[s] \in Int
  BY <1>3 DEF NoLine
<1>9. SumFunctionOnSet(new, Signals) = SumFunctionOnSet(old, Signals) + n - writing[s]
  BY <1>5, <1>6, <1>7, <1>8
<1>10. QED
  BY <1>1, <1>2, <1>9

LEMMA AccountedStep ==
    TelemetryTypeOK /\ EveryErrorAccounted /\ [TelemetryNext]_tvars => EveryErrorAccounted'
<1> SUFFICES ASSUME TelemetryTypeOK, EveryErrorAccounted, [TelemetryNext]_tvars
             PROVE  EveryErrorAccounted'
  OBVIOUS
<1>1. errors = reported + suppressed + SumFunctionOnSet(Pending, Signals)
  BY DEF EveryErrorAccounted, Pending
<1>2. SUFFICES errors' = reported' + suppressed' + SumFunctionOnSet(Pending', Signals)
  BY DEF EveryErrorAccounted, Pending
<1>3. /\ errors \in Nat /\ reported \in Nat /\ suppressed \in Nat
      /\ SumFunctionOnSet(Pending, Signals) \in Nat
      /\ \A s \in Signals : writing[s] \in Int
  BY PendingType DEF TelemetryTypeOK, NoLine
<1>4. CASE UNCHANGED <<suppressed, writing, errors, reported>>
  <2>1. Pending' = Pending
    BY <1>4 DEF Pending
  <2>2. QED
    BY <1>1, <1>4, <2>1
<1>5. ASSUME NEW s \in Signals, Handle(s)
      PROVE  errors' = reported' + suppressed' + SumFunctionOnSet(Pending', Signals)
  <2>1. errors' = errors + 1 /\ reported' = reported /\ writing[s] = NoLine
    BY <1>5 DEF Handle, Failing
  <2>2. CASE Throttled(s)
    <3>1. suppressed' = suppressed + 1 /\ Pending' = Pending
      BY <2>2 DEF Throttled, Pending
    <3>2. QED
      BY <1>1, <1>3, <2>1, <3>1
  <2>3. CASE Admitted(s)
    <3>1. writing' = [writing EXCEPT ![s] = suppressed] /\ suppressed' = 0
      BY <2>3 DEF Admitted
    <3>2. SumFunctionOnSet(Pending', Signals)
            = SumFunctionOnSet(Pending, Signals) + suppressed - writing[s]
      BY <1>3, <3>1, PendingChange
    <3>3. QED
      BY <1>1, <1>3, <2>1, <3>1, <3>2 DEF NoLine
  <2>4. QED
    BY <1>5, <2>2, <2>3 DEF Handle
<1>6. ASSUME NEW s \in Signals, Warn(s)
      PROVE  errors' = reported' + suppressed' + SumFunctionOnSet(Pending', Signals)
  <2>1. /\ reported' = reported + 1 + writing[s]
        /\ writing' = [writing EXCEPT ![s] = NoLine]
        /\ errors' = errors /\ suppressed' = suppressed
    BY <1>6 DEF Warn
  <2>2. SumFunctionOnSet(Pending', Signals)
          = SumFunctionOnSet(Pending, Signals) + NoLine - writing[s]
    BY <2>1, PendingChange
  <2>3. QED
    BY <1>1, <1>3, <2>1, <2>2 DEF NoLine
<1>7. Start \/ RuntimeMetrics \/ StepFails \/ Register \/ Stop \/ Deadline \/ ShutdownReturns
      => UNCHANGED <<suppressed, writing, errors, reported>>
  BY DEF Start, RuntimeMetrics, StepFails, Register, Stop, Deadline, ShutdownReturns, Goes, handler
<1>8. ASSUME NEW s \in Signals, Provide(s) \/ CloseBegins(s) \/ Delivers(s) \/ GivesUp(s)
      PROVE  UNCHANGED <<suppressed, writing, errors, reported>>
  BY <1>8 DEF Provide, CloseBegins, Delivers, GivesUp, Closes, handler
<1>9. Tick \/ UNCHANGED tvars => UNCHANGED <<suppressed, writing, errors, reported>>
  BY DEF Tick, tvars, handler
<1>10. QED
  BY <1>4, <1>5, <1>6, <1>7, <1>8, <1>9 DEF TelemetryNext

(* No error of an exporter is lost or told of twice by the rate limit      *)
(* (errorHandler.Handle, errorhandler.go:29-44): the suppressed count goes *)
(* into exactly one WARN, however the exporters interleave.                *)
THEOREM ErrorsAccounted == TelemetrySpec => []EveryErrorAccounted
<1>1. TelemetryInit => EveryErrorAccounted
  <2> SUFFICES ASSUME TelemetryInit PROVE EveryErrorAccounted
    OBVIOUS
  <2>1. \A s \in Signals : Pending[s] = 0
    BY DEF TelemetryInit, Pending, NoLine
  <2>2. SumFunctionOnSet(Pending, Signals) = 0
    BY <2>1, SignalsFinite, SumOfZeros
  <2>3. errors = 0 /\ reported = 0 /\ suppressed = 0
    BY DEF TelemetryInit
  <2>4. QED
    BY <2>2, <2>3 DEF EveryErrorAccounted, Pending
<1>2. TelemetryInv => TelemetryTypeOK
  BY DEF TelemetryInv
<1>3. QED
  BY <1>1, <1>2, AccountedStep, TelemetryInvariance, PTL DEF TelemetrySpec
===============================================================================
