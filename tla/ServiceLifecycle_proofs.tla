------------------------ MODULE ServiceLifecycle_proofs ------------------------
(***************************************************************************)
(* Proofs about ServiceLifecycle for any number of requests, watches and   *)
(* profiles and any environments.  LifecycleInv is inductive; with it      *)
(* nothing leaks, the telemetry is closed last, no handler of a server     *)
(* that stopped properly sees a resource closed, only a usable             *)
(* configuration runs, the exit code tells, watches are told of the        *)
(* shutdown, and the stop is not held by what it can end.                  *)
(***************************************************************************)
EXTENDS ServiceLifecycle, SequenceTheorems, FiniteSetTheorems, TLAPS

(* What app.New does step by step.                                         *)
Steps == Resource \cup {"config", "validator"}

(* Each of the sequences of steps by itself.                               *)
LEMMA OrderNewFacts ==
    /\ OrderNew \in Seq(Steps) /\ Len(OrderNew) >= 2 /\ OrderNew[1] = "config"
    /\ \A i \in 1 .. Len(OrderNew) : OrderNew[i] = "telemetry" <=> i = 2
<1>1. OrderNew \in Seq(Steps) /\ Len(OrderNew) = 7
  BY DEF OrderNew, Steps, Resource, Conns
<1>2. \A i \in 1 .. 7 : OrderNew[i] = "telemetry" <=> i = 2
  BY DEF OrderNew, Steps, Resource, Conns
<1>3. QED
  BY <1>1, <1>2 DEF OrderNew

LEMMA UserNewFacts ==
    /\ UserNew \in Seq(Steps) /\ Len(UserNew) >= 2 /\ UserNew[1] = "config"
    /\ \A i \in 1 .. Len(UserNew) : UserNew[i] = "telemetry" <=> i = 2
<1>1. UserNew \in Seq(Steps) /\ Len(UserNew) = 5
  BY DEF UserNew, Steps, Resource, Conns
<1>2. \A i \in 1 .. 5 : UserNew[i] = "telemetry" <=> i = 2
  BY DEF UserNew, Steps, Resource, Conns
<1>3. QED
  BY <1>1, <1>2 DEF UserNew

LEMMA ProductNewFacts ==
    /\ ProductNew \in Seq(Steps) /\ Len(ProductNew) >= 2 /\ ProductNew[1] = "config"
    /\ \A i \in 1 .. Len(ProductNew) : ProductNew[i] = "telemetry" <=> i = 2
<1>1. ProductNew \in Seq(Steps) /\ Len(ProductNew) = 5
  BY DEF ProductNew, Steps, Resource, Conns
<1>2. \A i \in 1 .. 5 : ProductNew[i] = "telemetry" <=> i = 2
  BY DEF ProductNew, Steps, Resource, Conns
<1>3. QED
  BY <1>1, <1>2 DEF ProductNew

LEMMA GatewayNewFacts ==
    /\ GatewayNew \in Seq(Steps) /\ Len(GatewayNew) >= 2 /\ GatewayNew[1] = "config"
    /\ \A i \in 1 .. Len(GatewayNew) : GatewayNew[i] = "telemetry" <=> i = 2
<1>1. GatewayNew \in Seq(Steps) /\ Len(GatewayNew) = 4
  BY DEF GatewayNew, Steps, Resource, Conns
<1>2. \A i \in 1 .. 4 : GatewayNew[i] = "telemetry" <=> i = 2
  BY DEF GatewayNew, Steps, Resource, Conns
<1>3. QED
  BY <1>1, <1>2 DEF GatewayNew

LEMMA NotificationNewFacts ==
    /\ NotificationNew \in Seq(Steps) /\ Len(NotificationNew) >= 2 /\ NotificationNew[1] = "config"
    /\ \A i \in 1 .. Len(NotificationNew) : NotificationNew[i] = "telemetry" <=> i = 2
<1>1. NotificationNew \in Seq(Steps) /\ Len(NotificationNew) = 4
  BY DEF NotificationNew, Steps, Resource, Conns
<1>2. \A i \in 1 .. 4 : NotificationNew[i] = "telemetry" <=> i = 2
  BY DEF NotificationNew, Steps, Resource, Conns
<1>3. QED
  BY <1>1, <1>2 DEF NotificationNew

(* Telemetry is the second step of app.New of every service, and only      *)
(* config comes before it.                                                 *)
LEMMA NewFacts ==
    ASSUME service \in Services
    PROVE  /\ New \in Seq(Steps) /\ Len(New) >= 2
           /\ New[1] = "config"
           /\ \A i \in 1 .. Len(New) : New[i] = "telemetry" <=> i = 2
<1> DEFINE base == CASE service = "order"   -> OrderNew
                     [] service = "user"    -> UserNew
                     [] service = "product" -> ProductNew
                     [] service = "gateway" -> GatewayNew
                     [] service = "notification" -> NotificationNew
<1>1. /\ base \in Seq(Steps) /\ Len(base) >= 2
      /\ base[1] = "config"
      /\ \A i \in 1 .. Len(base) : base[i] = "telemetry" <=> i = 2
  <2>1. CASE service = "order"
    <3>1. base = OrderNew
      BY <2>1
    <3>2. QED
      BY <3>1, OrderNewFacts
  <2>2. CASE service = "user"
    <3>1. base = UserNew
      BY <2>2
    <3>2. QED
      BY <3>1, UserNewFacts
  <2>3. CASE service = "product"
    <3>1. base = ProductNew
      BY <2>3
    <3>2. QED
      BY <3>1, ProductNewFacts
  <2>4. CASE service = "gateway"
    <3>1. base = GatewayNew
      BY <2>4
    <3>2. QED
      BY <3>1, GatewayNewFacts
  <2>5. CASE service = "notification"
    <3>1. base = NotificationNew
      BY <2>5
    <3>2. QED
      BY <3>1, NotificationNewFacts
  <2>6. QED
    BY <2>1, <2>2, <2>3, <2>4, <2>5 DEF Services
<1>2. /\ initDebugServer \in Seq(Steps)
      /\ \A i \in 1 .. Len(initDebugServer) : initDebugServer[i] # "telemetry"
  <2>1. CASE debug
    BY <2>1 DEF initDebugServer, Steps, Resource
  <2>2. CASE ~debug
    BY <2>2 DEF initDebugServer
  <2>3. QED
    BY <2>1, <2>2
<1>3. New = base \o initDebugServer
  BY DEF New
<1> HIDE DEF base
<1>4. QED
  BY <1>1, <1>2, <1>3

-----------------------------------------------------------------------------
(* The steps of LifecycleNext: those of main, those of the servers, and    *)
(* those of what is in flight.                                             *)

ServerStep ==
    \/ HealthShutdown \/ Stopped
    \/ \E s \in Servers : \/ AcceptFails(s) \/ ServeFails(s) \/ StopAccepting(s)
                          \/ Drained(s) \/ ShutdownTimeout(s)

RequestStep ==
    \E r \in Requests : \/ Arrive(r) \/ CallReturns(r) \/ CallAborted(r)
                        \/ TxEnds(r) \/ HandlerCancelled(r)

WatchStep ==
    \E w \in Watchers : \/ \E known \in BOOLEAN : WatchOpens(w, known)
                        \/ WatchSends(w) \/ WatchEnds(w) \/ WatcherGone(w)

ProfileStep ==
    \E p \in Profiles : ProfileStarts(p) \/ ProfileEnds(p) \/ ClientStalls(p) \/ StalledGone(p)

LEMMA LifecycleCases ==
    ASSUME [LifecycleNext]_lvars
    PROVE  \/ NewStep \/ NewFails \/ Run \/ RunReturns \/ CloseNext \/ Exit \/ Signal
           \/ ServerStep \/ RequestStep \/ WatchStep \/ ProfileStep
           \/ UNCHANGED lvars
  BY DEF LifecycleNext, Process, NewStopped, Environment, ServerStep, RequestStep, WatchStep,
         ProfileStep, ProfileInterrupted

(* A step of what is in flight touches nothing else.                       *)
LEMMA FlightFrame ==
    ASSUME RequestStep \/ WatchStep \/ ProfileStep
    PROVE  UNCHANGED <<main, open, serves, rates>>
  BY DEF RequestStep, WatchStep, ProfileStep, Arrive, CallReturns, CallAborted, TxEnds,
         HandlerCancelled, WatchOpens, WatchSends, WatchEnds, WatcherGone, ProfileStarts,
         ProfileEnds, ClientStalls, StalledGone

(* A step of a server leaves main alone, and closes listeners at most.     *)
LEMMA ServerFrame ==
    ASSUME ServerStep
    PROVE  /\ UNCHANGED <<main, req>>
           /\ open' \subseteq open
           /\ "telemetry" \in open => "telemetry" \in open'
<1>1. CASE HealthShutdown
  BY <1>1 DEF HealthShutdown
<1>2. CASE Stopped
  BY <1>2 DEF Stopped, flight
<1>3. ASSUME NEW s \in Servers, AcceptFails(s) \/ StopAccepting(s)
      PROVE  /\ UNCHANGED <<main, req>>
             /\ open' \subseteq open
             /\ "telemetry" \in open => "telemetry" \in open'
  BY <1>3 DEF AcceptFails, StopAccepting, flight, Listener
<1>4. ASSUME NEW s \in Servers, ServeFails(s) \/ Drained(s) \/ ShutdownTimeout(s)
      PROVE  UNCHANGED <<main, req, open>>
  BY <1>4 DEF ServeFails, Drained, ShutdownTimeout, flight
<1>5. QED
  BY <1>1, <1>2, <1>3, <1>4 DEF ServerStep

-----------------------------------------------------------------------------
(* The part of the inductive invariant on the resources, part by part.     *)

LEMMA ResourceInvInit == LifecycleInit => ResourceInv
<1> SUFFICES ASSUME LifecycleInit PROVE ResourceInv
  OBVIOUS
<1>1. LifecycleTypeOK
  <2>1. /\ service \in Services /\ env \in Environments[service] /\ signalled \in BOOLEAN
        /\ rates \in BOOLEAN /\ code \in {0, 1} /\ phase = "new" /\ built \in Nat
    BY DEF LifecycleInit
  <2>2. closer \in Seq(Resource) /\ open \subseteq Resource
    BY DEF LifecycleInit
  <2>3. /\ server = [s \in Servers |-> "off"]
        /\ acceptErr = [s \in Servers |-> FALSE]
        /\ serveErr = [s \in Servers |-> FALSE]
        /\ req = [r \in Requests |-> "none"]
        /\ profile = [p \in Profiles |-> "none"]
    BY DEF LifecycleInit
  <2>4. QED
    BY <2>1, <2>2, <2>3 DEF LifecycleTypeOK
<1>2. Registered /\ TelemetryFirst
  BY DEF LifecycleInit, Registered, TelemetryFirst
<1>3. Building
  BY NewFacts DEF LifecycleInit, Building
<1>4. ServersDone /\ HandlersServed
  BY DEF LifecycleInit, ServersDone, HandlersServed, InFlight, Servers
<1>5. QED
  BY <1>1, <1>2, <1>3, <1>4 DEF ResourceInv

(* Register keeps the closer a sequence of resources.                      *)
LEMMA RegisterTypes ==
    ASSUME closer \in Seq(Resource), open \subseteq Resource, NEW step, Register(step)
    PROVE  closer' \in Seq(Resource) /\ open' \subseteq Resource
  BY DEF Register

LEMMA TypesKept == LifecycleTypeOK /\ [LifecycleNext]_lvars => LifecycleTypeOK'
<1> SUFFICES ASSUME LifecycleTypeOK, [LifecycleNext]_lvars PROVE LifecycleTypeOK'
  OBVIOUS
<1>1. CASE NewStep
  BY <1>1, RegisterTypes DEF NewStep, LifecycleTypeOK, serves, flight
<1>2. CASE NewFails \/ RunReturns \/ Signal
  BY <1>2 DEF NewFails, RunReturns, Signal, LifecycleTypeOK, serves, flight
<1>3. CASE Run
  BY <1>3 DEF Run, LifecycleTypeOK, flight, debug
<1>4. CASE CloseNext
  <2>1. closer' \in Seq(Resource)
    BY <1>4 DEF CloseNext, LifecycleTypeOK, Front
  <2>2. code' \in {0, 1} /\ open' \subseteq Resource
    BY <1>4 DEF CloseNext, LifecycleTypeOK
  <2>3. QED
    BY <1>4, <2>1, <2>2 DEF CloseNext, LifecycleTypeOK, serves, flight
<1>5. CASE Exit
  BY <1>5 DEF Exit, LifecycleTypeOK, serves, Results
<1>6. CASE ServerStep
  <2>1. CASE HealthShutdown
    BY <1>6, <2>1, ServerFrame DEF HealthShutdown, LifecycleTypeOK, main, Advance, Servers
  <2>2. CASE Stopped
    BY <1>6, <2>2, ServerFrame DEF Stopped, ServeReturns, LifecycleTypeOK, main, flight, Advance, Servers
  <2>3. ASSUME NEW s \in Servers, AcceptFails(s) \/ ServeFails(s) PROVE LifecycleTypeOK'
    BY <1>6, <2>3, ServerFrame DEF AcceptFails, ServeFails, ServeReturns, LifecycleTypeOK, main, flight, Advance
  <2>4. ASSUME NEW s \in Servers, StopAccepting(s) \/ Drained(s) PROVE LifecycleTypeOK'
    BY <1>6, <2>4, ServerFrame DEF StopAccepting, Drained, ServeReturns, LifecycleTypeOK, main, flight, Advance
  <2>5. ASSUME NEW s \in Servers, ShutdownTimeout(s) PROVE LifecycleTypeOK'
    BY <1>6, <2>5, ServerFrame DEF ShutdownTimeout, ServeReturns, LifecycleTypeOK, main, Advance
  <2>6. QED
    BY <1>6, <2>1, <2>2, <2>3, <2>4, <2>5 DEF ServerStep
<1>7. CASE RequestStep
  <2>1. PICK r \in Requests : \/ Arrive(r) \/ CallReturns(r) \/ CallAborted(r)
                              \/ TxEnds(r) \/ HandlerCancelled(r)
    BY <1>7 DEF RequestStep
  <2>2. profile' = profile /\ \E result \in {"call", "tx"} \cup Results : Answer(r, result)
    BY <2>1 DEF Arrive, CallReturns, CallAborted, TxEnds, HandlerCancelled, UsePool, Results
  <2>3. QED
    BY <1>7, <2>2, FlightFrame DEF LifecycleTypeOK, Answer, main, serves
<1>8. CASE WatchStep
  <2>1. UNCHANGED <<req, profile>>
    BY <1>8 DEF WatchStep, WatchOpens, WatchSends, WatchEnds, WatcherGone
  <2>2. QED
    BY <1>8, <2>1, FlightFrame DEF LifecycleTypeOK, main, serves
<1>9. CASE ProfileStep
  <2>1. req' = req
        /\ profile' \in [Profiles -> {"none", "running", "unread", "sent", "gone", "cut"}]
    BY <1>9 DEF ProfileStep, ProfileStarts, ProfileEnds, ClientStalls, StalledGone, LifecycleTypeOK
  <2>2. QED
    BY <1>9, <2>1, FlightFrame DEF LifecycleTypeOK, main, serves
<1>10. CASE UNCHANGED lvars
  BY <1>10 DEF lvars, main, serves, flight, LifecycleTypeOK
<1>11. QED
  BY <1>1, <1>2, <1>3, <1>4, <1>5, <1>6, <1>7, <1>8, <1>9, <1>10, LifecycleCases

(* What Append and Front do to the resources listed in the closer.         *)
LEMMA ListedAfterAppend ==
    ASSUME closer \in Seq(Resource), NEW x
    PROVE  Range(Append(closer, x)) = Range(closer) \cup {x}
<1>1. /\ Len(Append(closer, x)) = Len(closer) + 1
      /\ DOMAIN closer = 1 .. Len(closer)
      /\ DOMAIN Append(closer, x) = 1 .. Len(closer) + 1
      /\ \A i \in 1 .. Len(closer) : Append(closer, x)[i] = closer[i]
      /\ Append(closer, x)[Len(closer) + 1] = x
      /\ Len(closer) \in Nat
  OBVIOUS
<1>2. Range(closer) \cup {x} \subseteq Range(Append(closer, x))
  BY <1>1 DEF Range
<1>3. ASSUME NEW i \in 1 .. Len(closer) + 1
      PROVE  Append(closer, x)[i] \in Range(closer) \cup {x}
  <2>1. CASE i = Len(closer) + 1
    BY <1>1, <2>1
  <2>2. CASE i \in 1 .. Len(closer)
    BY <1>1, <2>2 DEF Range
  <2>3. QED
    BY <1>1, <2>1, <2>2
<1>4. QED
  BY <1>1, <1>2, <1>3 DEF Range

LEMMA ListedAfterFront ==
    ASSUME closer \in Seq(Resource), closer # <<>>
    PROVE  /\ Range(closer) \ {Last(closer)} \subseteq Range(Front(closer))
           /\ DOMAIN Front(closer) = 1 .. Len(closer) - 1
           /\ \A i \in DOMAIN Front(closer) : Front(closer)[i] = closer[i]
           /\ Front(closer) # <<>> => Len(closer) > 1
<1>1. /\ Len(closer) \in Nat \ {0}
      /\ DOMAIN closer = 1 .. Len(closer)
      /\ DOMAIN Front(closer) = 1 .. Len(closer) - 1
      /\ \A i \in 1 .. Len(closer) - 1 : Front(closer)[i] = closer[i]
      /\ Len(Front(closer)) = Len(closer) - 1
  <2>1. Len(closer) \in Nat \ {0} /\ DOMAIN closer = 1 .. Len(closer)
    BY EmptySeq, LenProperties
  <2>2. /\ SubSeq(closer, 1, Len(closer) - 1) \in Seq(Resource)
        /\ Len(SubSeq(closer, 1, Len(closer) - 1)) = Len(closer) - 1
        /\ \A i \in 1 .. Len(closer) - 1 : SubSeq(closer, 1, Len(closer) - 1)[i] = closer[i]
    BY <2>1
  <2>3. QED
    BY <2>1, <2>2 DEF Front
<1>2. ASSUME NEW i \in 1 .. Len(closer), closer[i] # Last(closer)
      PROVE  closer[i] \in Range(Front(closer))
  <2>1. i \in 1 .. Len(closer) - 1
    BY <1>1, <1>2 DEF Last
  <2>2. QED
    BY <1>1, <2>1 DEF Range
<1>3. Range(closer) \ {Last(closer)} \subseteq Range(Front(closer))
  BY <1>1, <1>2 DEF Range
<1>4. Front(closer) # <<>> => Len(closer) > 1
  BY <1>1 DEF Front
<1>5. QED
  BY <1>1, <1>3, <1>4

(* The resources and the closer: only NewStep, CloseNext and the steps of  *)
(* the servers change one of them.                                         *)
LEMMA ResourcesKept ==
    ResourceInv /\ [LifecycleNext]_lvars => Registered' /\ TelemetryFirst'
<1> SUFFICES ASSUME ResourceInv, [LifecycleNext]_lvars PROVE Registered' /\ TelemetryFirst'
  OBVIOUS
<1> USE DEF ResourceInv
<1>1. CASE NewStep
  <2> DEFINE step == New[built + 1]
  <2>1. built \in Nat /\ built < Len(New) /\ phase = "new" /\ Register(step)
    BY <1>1 DEF NewStep, LifecycleTypeOK
  <2>2. closer \in Seq(Resource) /\ DOMAIN closer = 1 .. Len(closer) /\ Len(closer) \in Nat
    BY DEF LifecycleTypeOK
  <2>3. /\ closer = <<>> <=> built < 2
        /\ step = "telemetry" <=> built = 1
        /\ built = 0 => step = "config"
    BY <2>1, NewFacts DEF Building, LifecycleTypeOK
  <2> HIDE DEF step
  <2>4. CASE step \in Resource
    <3>1. open' = open \cup {step} /\ closer' = Append(closer, step)
      BY <2>1, <2>4 DEF Register
    <3>2. Registered'
      BY <2>2, <3>1, ListedAfterAppend DEF Registered
    <3>3. CASE built = 1
      <4>1. closer = <<>> /\ step = "telemetry"
        BY <2>3, <3>3
      <4>2. closer' = <<"telemetry">>
        BY <3>1, <4>1
      <4>3. QED
        BY <3>1, <3>2, <4>1, <4>2 DEF TelemetryFirst
    <3>4. CASE built # 1
      <4>1. built # 0
        BY <2>3, <2>4 DEF Resource, Conns
      <4>2. closer # <<>> /\ step # "telemetry" /\ Len(closer) > 0
        BY <2>1, <2>2, <2>3, <3>4, <4>1
      <4>3. /\ DOMAIN closer' = 1 .. Len(closer) + 1
            /\ \A i \in 1 .. Len(closer) : closer'[i] = closer[i]
            /\ closer'[Len(closer) + 1] = step
        BY <2>2, <3>1
      <4>4. ASSUME NEW i \in DOMAIN closer' PROVE closer'[i] = "telemetry" <=> i = 1
        <5>1. CASE i = Len(closer) + 1
          BY <2>2, <4>2, <4>3, <5>1
        <5>2. CASE i \in 1 .. Len(closer)
          BY <2>2, <4>2, <4>3, <5>2 DEF TelemetryFirst
        <5>3. QED
          BY <2>2, <4>3, <5>1, <5>2
      <4>5. QED
        BY <3>1, <3>2, <4>2, <4>4 DEF TelemetryFirst
    <3>5. QED
      BY <3>3, <3>4
  <2>5. CASE step \notin Resource
    BY <2>1, <2>5 DEF Register, Registered, TelemetryFirst
  <2>6. QED
    BY <2>4, <2>5
<1>2. CASE CloseNext
  <2>1. closer # <<>> /\ closer \in Seq(Resource)
        /\ closer' = Front(closer) /\ open' = open \ {Last(closer)}
    BY <1>2 DEF CloseNext, LifecycleTypeOK
  <2>2. Registered'
    BY <2>1, ListedAfterFront DEF Registered
  <2>3. ASSUME closer' # <<>>
        PROVE  /\ "telemetry" \in open'
               /\ \A i \in DOMAIN closer' : closer'[i] = "telemetry" <=> i = 1
    <3>1. Len(closer) > 1 /\ Len(closer) \in DOMAIN closer
          /\ DOMAIN closer' \subseteq DOMAIN closer
          /\ \A i \in DOMAIN closer' : closer'[i] = closer[i]
      BY <2>1, <2>3, ListedAfterFront
    <3>2. Last(closer) # "telemetry"
      BY <2>1, <3>1 DEF TelemetryFirst, Last
    <3>3. QED
      BY <2>1, <3>1, <3>2 DEF TelemetryFirst
  <2>4. QED
    BY <2>2, <2>3 DEF TelemetryFirst
<1>3. CASE ServerStep
  BY <1>3, ServerFrame DEF main, Registered, TelemetryFirst
<1>4. CASE NewFails \/ Run \/ RunReturns \/ Exit \/ Signal
  BY <1>4 DEF NewFails, Run, RunReturns, Exit, Signal, Registered, TelemetryFirst
<1>5. CASE RequestStep \/ WatchStep \/ ProfileStep
  BY <1>5, FlightFrame DEF main, Registered, TelemetryFirst
<1>6. CASE UNCHANGED lvars
  BY <1>6 DEF lvars, main, Registered, TelemetryFirst
<1>7. QED
  BY <1>1, <1>2, <1>3, <1>4, <1>5, <1>6, LifecycleCases

(* While app.New works nothing is served, and what it has reached decides  *)
(* whether anything is registered.                                         *)
LEMMA BuildingKept == ResourceInv /\ [LifecycleNext]_lvars => Building'
<1> SUFFICES ASSUME ResourceInv, [LifecycleNext]_lvars, phase' = "new" PROVE Building'
  BY DEF Building
<1> USE DEF ResourceInv
<1>1. CASE NewStep
  <2>1. /\ built \in Nat /\ built < Len(New) /\ phase = "new" /\ built' = built + 1
        /\ Register(New[built + 1]) /\ UNCHANGED <<service, env, server>>
    BY <1>1 DEF NewStep, LifecycleTypeOK, serves
  <2>2. built = 0 => New[built + 1] = "config"
    BY <2>1, NewFacts DEF LifecycleTypeOK
  <2>3. built = 1 => New[built + 1] = "telemetry"
    BY <2>1, NewFacts DEF LifecycleTypeOK
  <2>4. built = 0 => closer' = <<>>
    BY <2>1, <2>2 DEF Register, Building, Resource, Conns
  <2>5. closer \in Seq(Resource)
    BY DEF LifecycleTypeOK
  <2>6. built = 1 => closer' # <<>>
    <3>1. SUFFICES ASSUME built = 1 PROVE closer' # <<>>
      OBVIOUS
    <3>2. closer' = Append(closer, "telemetry")
      BY <2>1, <2>3, <3>1 DEF Register, Resource
    <3>3. QED
      BY <2>5, <3>2
  <2>7. built > 1 => closer' # <<>>
    BY <2>1, <2>5 DEF Register, Building
  <2>8. New' = New
    BY <2>1 DEF New, initDebugServer, debug
  <2>9. Len(New) \in Nat
    BY NewFacts DEF LifecycleTypeOK
  <2>10. built' <= Len(New)' /\ (closer' = <<>> <=> built' < 2)
    BY <2>1, <2>4, <2>6, <2>7, <2>8, <2>9
  <2>11. QED
    BY <2>1, <2>10 DEF Building
<1>2. CASE Signal
  BY <1>2 DEF Signal, Building, New, initDebugServer, debug, serves
<1>3. CASE NewFails \/ Run \/ RunReturns \/ Exit
  BY <1>3 DEF NewFails, Run, RunReturns, Exit
<1>4. CASE CloseNext
  BY <1>4 DEF CloseNext
<1>5. CASE ServerStep
  <2>1. phase = "new"
    BY <1>5, ServerFrame DEF main
  <2>2. \A s \in Servers : server[s] = "off"
    BY <2>1 DEF Building
  <2>3. FALSE
    BY <1>5, <2>2 DEF ServerStep, HealthShutdown, Stopped, AcceptFails, ServeFails,
                      StopAccepting, Drained, ShutdownTimeout, Servers
  <2>4. QED
    BY <2>3
<1>6. CASE RequestStep \/ WatchStep \/ ProfileStep
  <2>1. UNCHANGED <<service, env, phase, built, closer, server>>
    BY <1>6, FlightFrame DEF main, serves
  <2>2. QED
    BY <2>1 DEF Building, New, initDebugServer, debug
<1>7. CASE UNCHANGED lvars
  BY <1>7 DEF lvars, main, serves, Building, New, initDebugServer, debug
<1>8. QED
  BY <1>1, <1>2, <1>3, <1>4, <1>5, <1>6, <1>7, LifecycleCases

(* A server that has returned does not come back, and applyProfileRates is *)
(* undone with the return of the debug server.                             *)
LEMMA ServerStepReturns ==
    ASSUME LifecycleTypeOK, ServerStep
    PROVE  /\ \A s \in Servers : Returned(s) => Returned(s)'
           /\ rates' => rates /\ (Returned("debug")' => Returned("debug"))
<1> USE DEF Returned, LifecycleTypeOK, Servers
<1>1. CASE HealthShutdown
  BY <1>1 DEF HealthShutdown, Advance
<1>2. CASE Stopped
  BY <1>2 DEF Stopped, ServeReturns, Advance
<1>3. ASSUME NEW t \in Servers, AcceptFails(t) \/ StopAccepting(t)
      PROVE  /\ \A s \in Servers : Returned(s) => Returned(s)'
             /\ rates' => rates /\ (Returned("debug")' => Returned("debug"))
  BY <1>3 DEF AcceptFails, StopAccepting, Advance
<1>4. ASSUME NEW t \in Servers, ServeFails(t) \/ Drained(t) \/ ShutdownTimeout(t)
      PROVE  /\ \A s \in Servers : Returned(s) => Returned(s)'
             /\ rates' => rates /\ (Returned("debug")' => Returned("debug"))
  BY <1>4 DEF ServeFails, Drained, ShutdownTimeout, ServeReturns, Advance
<1>5. QED
  BY <1>1, <1>2, <1>3, <1>4 DEF ServerStep

LEMMA ServersDoneKept == ResourceInv /\ [LifecycleNext]_lvars => ServersDone'
<1> SUFFICES ASSUME ResourceInv, [LifecycleNext]_lvars PROVE ServersDone'
  OBVIOUS
<1> USE DEF ResourceInv
<1>1. CASE NewStep \/ NewFails \/ Signal
  BY <1>1 DEF NewStep, NewFails, Signal, ServersDone, Building, Returned, serves
<1>2. CASE Run
  BY <1>2 DEF Run, ServersDone, Returned, Servers, LifecycleTypeOK
<1>3. CASE RunReturns \/ CloseNext \/ Exit
  BY <1>3 DEF RunReturns, CloseNext, Exit, ServersDone, Returned, serves
<1>4. CASE ServerStep
  BY <1>4, ServerFrame, ServerStepReturns DEF ServersDone, main
<1>5. CASE RequestStep \/ WatchStep \/ ProfileStep
  BY <1>5, FlightFrame DEF main, serves, ServersDone, Returned
<1>6. CASE UNCHANGED lvars
  BY <1>6 DEF lvars, main, serves, ServersDone, Returned
<1>7. QED
  BY <1>1, <1>2, <1>3, <1>4, <1>5, <1>6, LifecycleCases

(* A handler in flight has a server that still serves it, has given up on  *)
(* its listener, or, at the gateway, has given up waiting.                 *)
LEMMA HandlersKept == ResourceInv /\ [LifecycleNext]_lvars => HandlersServed'
<1> SUFFICES ASSUME ResourceInv, [LifecycleNext]_lvars PROVE HandlersServed'
  OBVIOUS
<1> USE DEF ResourceInv
<1>1. CASE NewStep \/ NewFails \/ RunReturns \/ CloseNext \/ Signal
  <2>1. UNCHANGED <<service, serves, req>>
    BY <1>1 DEF NewStep, NewFails, RunReturns, CloseNext, Signal, flight
  <2>2. QED
    BY <2>1 DEF HandlersServed, InFlight, Grpc, Http, Kafka, serves
<1>2. CASE Run
  <2>1. InFlight' = InFlight /\ server["main"] = "off" /\ server'["main"] = "serving"
    BY <1>2 DEF Run, Building, InFlight, flight, Servers
  <2>2. QED
    BY <2>1 DEF HandlersServed
<1>3. CASE Exit
  <2>1. UNCHANGED <<service, serves>> /\ InFlight' = {}
    BY <1>3 DEF Exit, InFlight
  <2>2. QED
    BY <2>1 DEF HandlersServed, serves
<1>4. CASE ServerStep
  <2>1. InFlight' = InFlight /\ Grpc' = Grpc /\ Http' = Http /\ Kafka' = Kafka
    BY <1>4, ServerFrame DEF main, InFlight, Grpc, Http, Kafka
  <2> USE <2>1 DEF LifecycleTypeOK, HandlersServed, Servers
  <2>2. CASE HealthShutdown
    BY <2>2 DEF HealthShutdown, Advance
  <2>3. CASE Stopped
    BY <2>3 DEF Stopped, ServeReturns, Advance, Held
  <2>4. ASSUME NEW s \in Servers, AcceptFails(s) PROVE HandlersServed'
    BY <2>4 DEF AcceptFails
  <2>5. ASSUME NEW s \in Servers, ServeFails(s) PROVE HandlersServed'
    BY <2>5 DEF ServeFails, ServeReturns, Advance
  <2>6. ASSUME NEW s \in Servers, StopAccepting(s) PROVE HandlersServed'
    BY <2>6 DEF StopAccepting, Advance
  <2>7. ASSUME NEW s \in Servers, Drained(s) PROVE HandlersServed'
    BY <2>7 DEF Drained, ServeReturns, Advance, Held
  <2>8. ASSUME NEW s \in Servers, ShutdownTimeout(s) PROVE HandlersServed'
    BY <2>8 DEF ShutdownTimeout, ServeReturns, Advance, Overdue, Grpc, Http, Kafka
  <2>9. QED
    BY <1>4, <2>2, <2>3, <2>4, <2>5, <2>6, <2>7, <2>8 DEF ServerStep
<1>5. CASE RequestStep
  <2>1. UNCHANGED <<service, server, acceptErr, serveErr>>
    BY <1>5, FlightFrame DEF main, serves
  <2>2. InFlight' # {} => InFlight # {} \/ Reachable("main")
    BY <1>5 DEF RequestStep, Arrive, CallReturns, CallAborted, TxEnds, HandlerCancelled,
                Answer, InFlight, LifecycleTypeOK
  <2>3. QED
    BY <2>1, <2>2 DEF HandlersServed, Grpc, Http, Kafka, Reachable
<1>6. CASE WatchStep \/ ProfileStep
  <2>1. UNCHANGED <<service, server, acceptErr, serveErr>>
    BY <1>6, FlightFrame DEF main, serves
  <2>2. req' = req
    BY <1>6 DEF WatchStep, ProfileStep, WatchOpens, WatchSends, WatchEnds, WatcherGone,
                ProfileStarts, ProfileEnds, ClientStalls, StalledGone
  <2>3. QED
    BY <2>1, <2>2 DEF HandlersServed, Grpc, Http, Kafka, InFlight
<1>7. CASE UNCHANGED lvars
  BY <1>7 DEF lvars, main, serves, flight, HandlersServed, InFlight, Grpc, Http, Kafka
<1>8. QED
  BY <1>1, <1>2, <1>3, <1>4, <1>5, <1>6, <1>7, LifecycleCases

-----------------------------------------------------------------------------
LEMMA ResourceInvKept == ResourceInv /\ [LifecycleNext]_lvars => ResourceInv'
  BY TypesKept, ResourcesKept, BuildingKept, ServersDoneKept, HandlersKept DEF ResourceInv

-----------------------------------------------------------------------------
(* The configuration.                                                      *)

(* Every setting that only a later step can find of no use has a step of   *)
(* app.New that needs it.                                                  *)
LEMMA EverySettingHasItsStep ==
    ASSUME service \in Services, env \in [Variables(service) -> Values],
           NEW v \in Used(service), env[v] = "unusable", v # "OTEL_EXPORTER_OTLP_ENDPOINT"
    PROVE  \E i \in 1 .. Len(New) : New[i] \in DOMAIN UsedBy /\ v \in UsedBy[New[i]]
<1> DEFINE base == CASE service = "order"   -> OrderNew
                     [] service = "user"    -> UserNew
                     [] service = "product" -> ProductNew
                     [] service = "gateway" -> GatewayNew
                     [] service = "notification" -> NotificationNew
           tail == initDebugServer
<1>1. /\ DOMAIN UsedBy = {"pool", "userConn", "productConn", "orderConn", "consumer",
                          "listener", "debugListener"}
      /\ UsedBy["pool"] = {"PG_DSN"}
      /\ UsedBy["userConn"] = {"USER_SERVICE_GRPC_ADDR"}
      /\ UsedBy["productConn"] = {"PRODUCT_SERVICE_GRPC_ADDR"}
      /\ UsedBy["orderConn"] = {"ORDER_SERVICE_GRPC_ADDR"}
      /\ UsedBy["consumer"] = {"KAFKA_BROKERS"}
      /\ UsedBy["listener"] = {"GRPC_SERVER_ADDR", "HTTP_ADDR"}
      /\ UsedBy["debugListener"] = {"PPROF_ADDR"}
  BY DEF UsedBy
<1>2. /\ v \in Variables(service)
      /\ v \in {"PG_DSN", "USER_SERVICE_GRPC_ADDR", "PRODUCT_SERVICE_GRPC_ADDR",
                "ORDER_SERVICE_GRPC_ADDR", "KAFKA_BROKERS", "GRPC_SERVER_ADDR", "HTTP_ADDR",
                "PPROF_ADDR"}
  <2>1. v \in Variables(service) /\ v \in UNION {UsedBy[step] : step \in DOMAIN UsedBy}
    BY DEF Used
  <2>2. PICK needed \in {UsedBy[step] : step \in DOMAIN UsedBy} : v \in needed
    BY <2>1, Zenon
  <2>3. QED
    BY <1>1, <2>1, <2>2
<1>3. /\ base \in Seq(Steps)
      /\ v # "PPROF_ADDR" =>
            \E i \in 1 .. Len(base) : base[i] \in DOMAIN UsedBy /\ v \in UsedBy[base[i]]
  <2> DEFINE Has(s) == v # "PPROF_ADDR" =>
                          \E i \in 1 .. Len(s) : s[i] \in DOMAIN UsedBy /\ v \in UsedBy[s[i]]
  <2>1. CASE service = "order"
    <3>1. base = OrderNew
      BY <2>1
    <3>2. v \in {"PG_DSN", "USER_SERVICE_GRPC_ADDR", "PRODUCT_SERVICE_GRPC_ADDR",
                 "GRPC_SERVER_ADDR", "PPROF_ADDR"}
      BY <1>2, <2>1 DEF Variables, OrderConfig, Common, PG, GRPCServer
    <3>3. /\ Len(OrderNew) = 7 /\ OrderNew[3] = "pool" /\ OrderNew[5] = "userConn"
          /\ OrderNew[6] = "productConn" /\ OrderNew[7] = "listener"
      BY DEF OrderNew
    <3>4. Has(OrderNew)
      BY <1>1, <3>2, <3>3
    <3>5. QED
      BY <3>1, <3>4, OrderNewFacts
  <2>2. CASE service = "user"
    <3>1. base = UserNew
      BY <2>2
    <3>2. v \in {"PG_DSN", "GRPC_SERVER_ADDR", "PPROF_ADDR"}
      BY <1>2, <2>2 DEF Variables, UserConfig, Common, PG, GRPCServer
    <3>3. Len(UserNew) = 5 /\ UserNew[3] = "pool" /\ UserNew[5] = "listener"
      BY DEF UserNew
    <3>4. Has(UserNew)
      BY <1>1, <3>2, <3>3
    <3>5. QED
      BY <3>1, <3>4, UserNewFacts
  <2>3. CASE service = "product"
    <3>1. base = ProductNew
      BY <2>3
    <3>2. v \in {"PG_DSN", "GRPC_SERVER_ADDR", "PPROF_ADDR"}
      BY <1>2, <2>3 DEF Variables, ProductConfig, Common, PG, GRPCServer
    <3>3. Len(ProductNew) = 5 /\ ProductNew[3] = "pool" /\ ProductNew[5] = "listener"
      BY DEF ProductNew
    <3>4. Has(ProductNew)
      BY <1>1, <3>2, <3>3
    <3>5. QED
      BY <3>1, <3>4, ProductNewFacts
  <2>4. CASE service = "gateway"
    <3>1. base = GatewayNew
      BY <2>4
    <3>2. v \in {"ORDER_SERVICE_GRPC_ADDR", "HTTP_ADDR", "PPROF_ADDR"}
      BY <1>2, <2>4 DEF Variables, GatewayConfig, Common
    <3>3. Len(GatewayNew) = 4 /\ GatewayNew[3] = "orderConn" /\ GatewayNew[4] = "listener"
      BY DEF GatewayNew
    <3>4. Has(GatewayNew)
      BY <1>1, <3>2, <3>3
    <3>5. QED
      BY <3>1, <3>4, GatewayNewFacts
  <2>5. CASE service = "notification"
    <3>1. base = NotificationNew
      BY <2>5
    <3>2. v \in {"PG_DSN", "KAFKA_BROKERS", "PPROF_ADDR"}
      BY <1>2, <2>5 DEF Variables, NotificationConfig, Common, PG
    <3>3. Len(NotificationNew) = 4 /\ NotificationNew[3] = "pool" /\ NotificationNew[4] = "consumer"
      BY DEF NotificationNew
    <3>4. Has(NotificationNew)
      BY <1>1, <3>2, <3>3
    <3>5. QED
      BY <3>1, <3>4, NotificationNewFacts
  <2>6. QED
    BY <2>1, <2>2, <2>3, <2>4, <2>5 DEF Services
<1>4. /\ tail \in Seq(Steps)
      /\ v = "PPROF_ADDR" => Len(tail) = 1 /\ tail[1] = "debugListener"
  BY DEF initDebugServer, debug, Steps, Resource
<1>5. New = base \o tail
  BY DEF New
<1> HIDE DEF base, tail
<1>6. CASE v = "PPROF_ADDR"
  <2>1. Len(New) = Len(base) + 1 /\ New[Len(base) + 1] = "debugListener" /\ Len(base) \in Nat
    <3>1. /\ base \in Seq(Steps) /\ tail \in Seq(Steps)
          /\ Len(tail) = 1 /\ tail[1] = "debugListener"
      BY <1>3, <1>4, <1>6
    <3>2. Len(base \o tail) = Len(base) + 1 /\ (base \o tail)[Len(base) + 1] = tail[1]
      <4>1. /\ Len(base) \in Nat
            /\ Len(base \o tail) = Len(base) + Len(tail)
            /\ \A i \in 1 .. Len(base) + Len(tail) : (base \o tail)[i] =
                    IF i <= Len(base) THEN base[i] ELSE tail[i - Len(base)]
        BY <3>1, ConcatProperties, LenProperties
      <4>2. QED
        BY <3>1, <4>1
    <3>3. QED
      BY <1>5, <3>1, <3>2
  <2>2. Len(base) + 1 \in 1 .. Len(New)
    BY <2>1
  <2>3. QED
    BY <1>1, <1>6, <2>1, <2>2
<1>7. CASE v # "PPROF_ADDR"
  <2>1. PICK i \in 1 .. Len(base) : base[i] \in DOMAIN UsedBy /\ v \in UsedBy[base[i]]
    BY <1>3, <1>7
  <2>2. i \in 1 .. Len(New) /\ New[i] = base[i]
    BY <1>3, <1>4, <1>5, <2>1
  <2>3. QED
    BY <2>1, <2>2
<1>8. QED
  BY <1>6, <1>7

(* When every step has worked, every setting is of use.                    *)
LEMMA AllStepsWorked ==
    ASSUME LifecycleTypeOK, \A i \in 1 .. Len(New) : Works(New[i], env)
    PROVE  Usable(env)
<1>1. /\ service \in Services /\ env \in [Variables(service) -> Values]
      /\ \A v \in Variables(service) \ Used(service) : env[v] # "unusable"
  BY EnvironmentsAssumption DEF LifecycleTypeOK
<1>2. ConfigValid(env) /\ TelemetryValid(env)
  <2>1. Len(New) >= 2 /\ Len(New) \in Nat /\ New[1] = "config" /\ New[2] = "telemetry"
    BY <1>1, NewFacts
  <2>2. Works("config", env) /\ Works("telemetry", env)
    BY <2>1
  <2>3. QED
    BY <2>2 DEF Works
<1>3. SUFFICES ASSUME NEW v \in Variables(service)
               PROVE  \/ env[v] \in {"good", "off"}
                      \/ env[v] = "unset" /\ v \in Optional(env)
                      \/ v = "OTEL_EXPORTER_OTLP_ENDPOINT" /\ ~Exporting(env)
  BY <1>1 DEF Usable
<1>4. env[v] \in Values /\ env[v] # "invalid" /\ (env[v] = "unset" => v \in Optional(env))
  BY <1>1, <1>2 DEF ConfigValid
<1>5. CASE env[v] = "unusable" /\ v # "OTEL_EXPORTER_OTLP_ENDPOINT"
  <2>1. v \in Used(service)
    BY <1>1, <1>5
  <2>2. PICK i \in 1 .. Len(New) : New[i] \in DOMAIN UsedBy /\ v \in UsedBy[New[i]]
    BY <1>1, <1>5, <2>1, EverySettingHasItsStep
  <2>3. Works(New[i], env) /\ v \in DOMAIN env
    BY <1>1
  <2>4. QED
    BY <1>5, <2>2, <2>3 DEF Works
<1>6. CASE env[v] = "unusable" /\ v = "OTEL_EXPORTER_OTLP_ENDPOINT"
  BY <1>2, <1>6 DEF TelemetryValid
<1>7. QED
  BY <1>4, <1>5, <1>6 DEF Values

LEMMA ConfiguredKept ==
    ResourceInv /\ Configured /\ [LifecycleNext]_lvars => Configured'
<1> SUFFICES ASSUME ResourceInv, Configured, [LifecycleNext]_lvars PROVE Configured'
  OBVIOUS
<1>1. CASE NewStep
  <2>1. /\ phase = "new" /\ phase' = "new" /\ built' = built + 1 /\ built \in Nat
        /\ UNCHANGED <<service, env>> /\ Works(New[built + 1], env)
    BY <1>1 DEF NewStep, ResourceInv, LifecycleTypeOK
  <2>2. New' = New
    BY <2>1 DEF New, initDebugServer, debug
  <2>3. \A i \in 1 .. built' : i \in 1 .. built \/ i = built + 1
    BY <2>1
  <2>4. \A i \in 1 .. built' : Works(New[i], env)
    BY <2>1, <2>3 DEF Configured
  <2>5. (\A i \in 1 .. built : Works(New[i], env))'
    BY <2>1, <2>2, <2>4
  <2>6. QED
    BY <2>1, <2>5 DEF Configured, RunsConfigured
<1>2. CASE Run
  <2>1. /\ phase = "new" /\ phase' = "run" /\ env' = env
        /\ \A i \in 1 .. Len(New) : Works(New[i], env)
    BY <1>2 DEF Run, Configured
  <2>2. Usable(env)
    BY <2>1, AllStepsWorked DEF ResourceInv
  <2>3. QED
    BY <2>1, <2>2 DEF Configured, RunsConfigured
<1>3. CASE NewFails \/ RunReturns \/ CloseNext \/ Exit
  BY <1>3 DEF NewFails, RunReturns, CloseNext, Exit, Configured, RunsConfigured
<1>4. CASE Signal \/ ServerStep \/ RequestStep \/ WatchStep \/ ProfileStep \/ UNCHANGED lvars
  <2>1. UNCHANGED <<service, env, phase, built>>
    BY <1>4, ServerFrame, FlightFrame DEF Signal, main, lvars
  <2>2. New' = New
    BY <2>1 DEF New, initDebugServer, debug
  <2>3. QED
    BY <2>1, <2>2 DEF Configured, RunsConfigured
<1>5. QED
  BY <1>1, <1>2, <1>3, <1>4, LifecycleCases

-----------------------------------------------------------------------------
(* Why the servers stop.                                                   *)

(* The context of the errgroup, once done, stays so.                       *)
LEMMA CancelledStays ==
    ResourceInv /\ StopReasons /\ [LifecycleNext]_lvars => (Cancelled => Cancelled')
<1> SUFFICES ASSUME ResourceInv, StopReasons, [LifecycleNext]_lvars, Cancelled PROVE Cancelled'
  OBVIOUS
<1> USE DEF Cancelled
<1>1. CASE NewStep \/ NewFails \/ RunReturns \/ CloseNext \/ Exit \/ Signal
  <2>1. UNCHANGED <<server, serveErr>> /\ (signalled => signalled')
    BY <1>1 DEF NewStep, NewFails, RunReturns, CloseNext, Exit, Signal, serves
  <2>2. QED
    BY <2>1 DEF Returned
<1>2. CASE Run
  <2>1. \A s \in Servers : ~serveErr[s]
    BY <1>2 DEF Run, ResourceInv, Building, StopReasons
  <2>2. QED
    BY <1>2, <2>1 DEF Run
<1>3. CASE ServerStep
  <2>1. signalled' = signalled /\ \A s \in Servers : Returned(s) => Returned(s)'
    BY <1>3, ServerFrame, ServerStepReturns DEF main, ResourceInv
  <2>2. \A s \in Servers : serveErr[s] => serveErr'[s]
    BY <1>3 DEF ServerStep, HealthShutdown, Stopped, AcceptFails, ServeFails, StopAccepting,
                Drained, ShutdownTimeout, ResourceInv, LifecycleTypeOK
  <2>3. ASSUME NEW s \in Servers, Returned(s), serveErr[s]
        PROVE  (Returned(s) /\ serveErr[s])'
    BY <2>1, <2>2, <2>3
  <2>4. QED
    BY <2>1, <2>3
<1>4. CASE RequestStep \/ WatchStep \/ ProfileStep \/ UNCHANGED lvars
  <2>1. UNCHANGED <<signalled, server, serveErr>>
    BY <1>4, FlightFrame DEF main, serves, lvars
  <2>2. QED
    BY <2>1 DEF Returned
<1>5. QED
  BY <1>1, <1>2, <1>3, <1>4, LifecycleCases

(* What the servers themselves keep of StopReasons.                        *)
ServerReasons(s) ==
    /\ server[s] \in {"leaving", "draining", "stopping", "returned"} => Cancelled
    /\ server[s] \in {"stopping", "abandoned"} => serveErr[s]
    /\ serveErr[s] => server[s] \in {"stopping", "returned", "abandoned"}
    /\ server[s] = "abandoned" => acceptErr[s]

LEMMA ServerReasonsKept ==
    ASSUME ResourceInv, StopReasons, ServerStep, Cancelled => Cancelled'
    PROVE  \A s \in Servers : ServerReasons(s)'
<1> SUFFICES ASSUME NEW s \in Servers PROVE ServerReasons(s)'
  OBVIOUS
<1> USE DEF ServerReasons
<1>1. /\ ServerReasons(s) /\ ServerReasons("main")
      /\ server \in [Servers -> {"off", "serving", "leaving", "draining", "stopping",
                                 "returned", "abandoned"}]
      /\ acceptErr \in [Servers -> BOOLEAN] /\ serveErr \in [Servers -> BOOLEAN]
  BY DEF ResourceInv, LifecycleTypeOK, StopReasons, Servers
<1>2. CASE HealthShutdown
  BY <1>1, <1>2 DEF HealthShutdown, Advance
<1>3. CASE Stopped
  BY <1>1, <1>3 DEF Stopped, ServeReturns, Advance
<1>4. ASSUME NEW t \in Servers, AcceptFails(t) PROVE ServerReasons(s)'
  BY <1>1, <1>4 DEF AcceptFails
<1>5. ASSUME NEW t \in Servers, ServeFails(t) PROVE ServerReasons(s)'
  BY <1>1, <1>5 DEF ServeFails, ServeReturns, Advance
<1>6. ASSUME NEW t \in Servers, StopAccepting(t) PROVE ServerReasons(s)'
  BY <1>1, <1>6 DEF StopAccepting, Advance
<1>7. ASSUME NEW t \in Servers, Drained(t) PROVE ServerReasons(s)'
  BY <1>1, <1>7 DEF Drained, ServeReturns, Advance
<1>8. ASSUME NEW t \in Servers, ShutdownTimeout(t) PROVE ServerReasons(s)'
  BY <1>1, <1>8 DEF ShutdownTimeout, ServeReturns, Advance
<1>9. QED
  BY <1>2, <1>3, <1>4, <1>5, <1>6, <1>7, <1>8 DEF ServerStep

LEMMA StopReasonsKept ==
    ResourceInv /\ StopReasons /\ [LifecycleNext]_lvars => StopReasons'
<1> SUFFICES ASSUME ResourceInv, StopReasons, [LifecycleNext]_lvars PROVE StopReasons'
  OBVIOUS
<1>1. Cancelled => Cancelled'
  BY CancelledStays
<1>2. CASE NewStep \/ NewFails \/ Signal
  <2>1. /\ UNCHANGED <<server, acceptErr, serveErr>> /\ phase' \in {phase, "close"}
        /\ phase' = "close" /\ phase # "close" => code' = 1
        /\ phase' = phase => code' = code
        /\ phase' = "run" => UNCHANGED <<service, env, built>>
        /\ phase \in {"new", "run"}
    BY <1>2 DEF NewStep, NewFails, Signal, serves
  <2>2. phase' = "run" => New' = New
    BY <2>1 DEF New, initDebugServer, debug
  <2>3. QED
    BY <1>1, <2>1, <2>2 DEF StopReasons
<1>3. CASE Run
  <2>1. /\ phase' = "run" /\ phase = "new" /\ built = Len(New)
        /\ UNCHANGED <<service, env, built, code, acceptErr, serveErr>>
        /\ \A s \in Servers : server'[s] \in {"off", "serving"} /\ server[s] = "off"
        /\ server'["main"] = "serving"
    BY <1>3 DEF Run, ResourceInv, Building, Servers
  <2>2. New' = New
    BY <2>1 DEF New, initDebugServer, debug
  <2>3. \A s \in Servers : ~serveErr[s]
    BY <2>1 DEF StopReasons
  <2>4. QED
    BY <2>1, <2>2, <2>3 DEF StopReasons
<1>4. CASE RunReturns
  <2>1. /\ phase = "run" /\ phase' = "close"
        /\ \A s \in Servers : Returned(s)
        /\ code' = 0 => \A s \in Servers : ~serveErr[s]
        /\ UNCHANGED <<service, env, built, signalled, server, acceptErr, serveErr>>
    BY <1>4 DEF RunReturns, serves
  <2>2. built = Len(New) /\ New' = New
    BY <2>1 DEF StopReasons, New, initDebugServer, debug
  <2>3. ASSUME code' = 0 PROVE signalled
    <3>1. server["main"] = "returned"
      BY <2>1, <2>3 DEF StopReasons, Returned, Servers
    <3>2. Cancelled
      BY <3>1 DEF StopReasons, Servers
    <3>3. QED
      BY <2>1, <2>3, <3>2 DEF Cancelled
  <2>4. QED
    BY <1>1, <2>1, <2>2, <2>3 DEF StopReasons
<1>5. CASE CloseNext \/ Exit
  <2>1. /\ UNCHANGED <<service, env, built, signalled, server, acceptErr, serveErr>>
        /\ phase = "close" /\ phase' \in {"close", "exited"}
        /\ code' \in {code, 1}
    BY <1>5 DEF CloseNext, Exit, serves
  <2>2. New' = New
    BY <2>1 DEF New, initDebugServer, debug
  <2>3. QED
    BY <1>1, <2>1, <2>2 DEF StopReasons
<1>6. CASE ServerStep
  <2>1. UNCHANGED <<service, env, phase, built, signalled, code>>
    BY <1>6, ServerFrame DEF main
  <2>2. New' = New
    BY <2>1 DEF New, initDebugServer, debug
  <2>3. \A s \in Servers : ServerReasons(s)'
    BY <1>1, <1>6, ServerReasonsKept
  <2>4. (phase = "run" => built = Len(New) /\ server["main"] # "off")'
    <3>1. SUFFICES ASSUME phase = "run" PROVE built = Len(New) /\ server'["main"] # "off"
      BY <2>1, <2>2
    <3>2. server["main"] # "off" /\ built = Len(New)
      BY <3>1 DEF StopReasons
    <3>3. server'["main"] # "off"
      BY <1>6, <3>2 DEF ServerStep, HealthShutdown, Stopped, AcceptFails, ServeFails,
             StopAccepting, Drained, ShutdownTimeout, ServeReturns, Advance, ResourceInv,
             LifecycleTypeOK, Servers
    <3>4. QED
      BY <3>2, <3>3
  <2>5. (phase \in {"close", "exited"} /\ code = 0 =>
            built = Len(New) /\ signalled /\ \A s \in Servers : ~serveErr[s])'
    <3>1. SUFFICES ASSUME phase \in {"close", "exited"}, code = 0
                   PROVE  built = Len(New) /\ signalled /\ \A s \in Servers : ~serveErr'[s]
      BY <2>1, <2>2
    <3>2. \A s \in Servers : Returned(s)
      BY <3>1 DEF ResourceInv, ServersDone
    <3>3. \A s \in Servers : server[s] \notin {"serving", "draining"}
      BY <3>2 DEF Returned
    <3>4. serveErr' = serveErr
      BY <1>6, <3>3 DEF ServerStep, HealthShutdown, Stopped, AcceptFails, ServeFails,
             StopAccepting, Drained, ShutdownTimeout
    <3>5. QED
      BY <3>1, <3>4 DEF StopReasons
  <2>6. QED
    BY <2>1, <2>3, <2>4, <2>5 DEF StopReasons, ServerReasons
<1>7. CASE RequestStep \/ WatchStep \/ ProfileStep \/ UNCHANGED lvars
  <2>1. UNCHANGED <<service, env, phase, built, signalled, code, server, acceptErr, serveErr>>
    BY <1>7, FlightFrame DEF main, serves, lvars
  <2>2. New' = New
    BY <2>1 DEF New, initDebugServer, debug
  <2>3. QED
    BY <1>1, <2>1, <2>2 DEF StopReasons
<1>8. QED
  BY <1>2, <1>3, <1>4, <1>5, <1>6, <1>7, LifecycleCases

-----------------------------------------------------------------------------
(* The watches and profiles in flight, and who cuts what off.              *)

LEMMA StreamsServedByServers ==
    ASSUME ResourceInv, StopReasons, StreamsServed, ServerStep
    PROVE  StreamsServed'
<1> USE DEF Servers
<1>1. /\ server \in [Servers -> {"off", "serving", "leaving", "draining", "stopping",
                                 "returned", "abandoned"}]
      /\ serveErr \in [Servers -> BOOLEAN]
      /\ profile \in [Profiles -> {"none", "running", "unread", "sent", "gone", "cut"}]
      /\ UNCHANGED <<service, req>> /\ Grpc' = Grpc
  BY ServerFrame DEF main, ResourceInv, LifecycleTypeOK, Grpc, Http, Kafka
<1>2. CASE HealthShutdown
  <2>1. /\ server["main"] = "serving" /\ server' = [server EXCEPT !["main"] = "leaving"]
        /\ UNCHANGED <<serveErr, profile>> /\ Grpc
        /\ \A w \in Watchers : watch'[w].state = watch[w].state
    BY <1>2 DEF HealthShutdown, Advance
  <2>2. /\ Watching' = Watching /\ Running' = Running
        /\ server'["main"] = "leaving" /\ server'["debug"] = server["debug"]
    BY <1>1, <2>1 DEF Watching, Running
  <2>3. QED
    BY <1>1, <2>1, <2>2 DEF StreamsServed
<1>3. CASE Stopped
  <2>1. /\ Watching = {} /\ server' = [server EXCEPT !["main"] = "returned"]
        /\ UNCHANGED <<serveErr, watch, profile>>
    BY <1>3 DEF Stopped, ServeReturns, Advance, Held, flight
  <2>2. /\ Watching' = {} /\ Running' = Running /\ server'["debug"] = server["debug"]
    BY <1>1, <2>1 DEF Watching, Running
  <2>3. QED
    BY <1>1, <2>1, <2>2 DEF StreamsServed
<1>4. ASSUME NEW s \in Servers, AcceptFails(s) PROVE StreamsServed'
  BY <1>1, <1>4 DEF AcceptFails, StreamsServed, Watching, Running, flight
<1>5. ASSUME NEW s \in Servers, ServeFails(s) PROVE StreamsServed'
  <2>1. /\ server' = [server EXCEPT ![s] = "abandoned"]
        /\ serveErr' = [serveErr EXCEPT ![s] = TRUE]
        /\ UNCHANGED <<watch, profile>>
    BY <1>5 DEF ServeFails, ServeReturns, Advance, flight
  <2>2. Watching' = Watching /\ Running' = Running
    BY <2>1 DEF Watching, Running
  <2>3. QED
    BY <1>1, <2>1, <2>2 DEF StreamsServed
<1>6. ASSUME NEW s \in Servers, StopAccepting(s) PROVE StreamsServed'
  <2>1. /\ server' = [server EXCEPT ![s] = "draining"]
        /\ UNCHANGED <<serveErr, watch, profile>>
    BY <1>6 DEF StopAccepting, Advance, flight
  <2>2. Watching' = Watching /\ Running' = Running
    BY <2>1 DEF Watching, Running
  <2>3. QED
    BY <1>1, <2>1, <2>2 DEF StreamsServed
<1>7. ASSUME NEW s \in Servers, Drained(s) PROVE StreamsServed'
  <2>1. /\ server' = [server EXCEPT ![s] = "returned"]
        /\ UNCHANGED <<serveErr, watch, profile>>
        /\ s = "main" => Watching = {}
        /\ s = "debug" => Running = {}
    BY <1>7 DEF Drained, ServeReturns, Advance, Held, flight
  <2>2. Watching' = Watching /\ Running' = Running
    BY <2>1 DEF Watching, Running
  <2>3. QED
    BY <1>1, <2>1, <2>2 DEF StreamsServed
<1>8. ASSUME NEW s \in Servers, ShutdownTimeout(s) PROVE StreamsServed'
  <2>1. CASE s = "main"
    <3>1. /\ serveErr' = [serveErr EXCEPT !["main"] = TRUE]
          /\ server' = [server EXCEPT !["main"] = IF Grpc THEN "stopping" ELSE "returned"]
          /\ watch' = watch
          /\ profile' = [p \in Profiles |-> profile[p]]
      BY <1>8, <2>1 DEF ShutdownTimeout, ServeReturns, Advance
    <3>2. /\ Watching' = Watching /\ Running' = Running /\ server'["debug"] = server["debug"]
          /\ \A p \in Profiles : profile'[p] = profile[p]
          /\ serveErr'["main"] /\ serveErr'["debug"] = serveErr["debug"]
          /\ Grpc => server'["main"] = "stopping"
      BY <1>1, <3>1 DEF Watching, Running
    <3>3. QED
      BY <1>1, <3>1, <3>2 DEF StreamsServed
  <2>2. CASE s = "debug"
    <3>1. /\ serveErr' = [serveErr EXCEPT !["debug"] = TRUE]
          /\ server' = [server EXCEPT !["debug"] = "returned"]
          /\ watch' = watch
          /\ profile' = [p \in Profiles |-> IF p \in Running THEN "cut" ELSE profile[p]]
      BY <1>8, <2>2 DEF ShutdownTimeout, ServeReturns, Advance
    <3>2. /\ Watching' = Watching /\ Running' = {} /\ server'["main"] = server["main"]
          /\ serveErr'["debug"] /\ serveErr'["main"] = serveErr["main"]
      BY <1>1, <3>1 DEF Watching, Running
    <3>3. QED
      BY <1>1, <3>1, <3>2 DEF StreamsServed
  <2>3. QED
    BY <2>1, <2>2
<1>9. QED
  BY <1>2, <1>3, <1>4, <1>5, <1>6, <1>7, <1>8 DEF ServerStep

(* What the steps of the requests, watches and profiles do to each other.  *)
LEMMA StreamsServedInFlight ==
    ASSUME ResourceInv, WatchTypeOK, StopReasons, StreamsServed,
           RequestStep \/ WatchStep \/ ProfileStep
    PROVE  StreamsServed'
<1> USE DEF Servers
<1>1. UNCHANGED <<service, server, serveErr>> /\ Grpc' = Grpc
  BY FlightFrame DEF main, serves, Grpc, Http, Kafka
<1>2. CASE RequestStep
  <2>1. UNCHANGED <<watch, profile>>
    BY <1>2 DEF RequestStep, Arrive, CallReturns, CallAborted, TxEnds, HandlerCancelled
  <2>2. ASSUME NEW r \in Requests, req'[r] = "cut" PROVE req[r] = "cut" \/ serveErr["main"]
    BY <1>2, <2>2 DEF RequestStep, Arrive, CallReturns, CallAborted, TxEnds, HandlerCancelled,
           Answer, UsePool, ResourceInv, LifecycleTypeOK, StopReasons
  <2>3. QED
    BY <1>1, <2>1, <2>2 DEF StreamsServed, Watching, Running
<1>3. CASE WatchStep
  <2>1. UNCHANGED <<req, profile>>
    BY <1>3 DEF WatchStep, WatchOpens, WatchSends, WatchEnds, WatcherGone
  <2>2. PICK w \in Watchers : \/ \E known \in BOOLEAN : WatchOpens(w, known)
                              \/ WatchSends(w) \/ WatchEnds(w) \/ WatcherGone(w)
    BY <1>3 DEF WatchStep
  <2>3. /\ \A v \in Watchers : v # w => watch'[v] = watch[v]
        /\ watch'[w].state # "cut"
        /\ w \in Watching \/ (Grpc /\ Reachable("main"))
    BY <2>2 DEF WatchOpens, WatchSends, WatchEnds, WatcherGone, WatchTypeOK, Watching
  <2>4. Watching' # {} => Watching # {} \/ (Grpc /\ Reachable("main"))
    BY <2>3 DEF Watching
  <2>5. QED
    BY <1>1, <2>1, <2>3, <2>4 DEF StreamsServed, Running, Reachable
<1>4. CASE ProfileStep
  <2>1. UNCHANGED <<req, watch>>
    BY <1>4 DEF ProfileStep, ProfileStarts, ProfileEnds, ClientStalls, StalledGone
  <2>2. PICK p \in Profiles : ProfileStarts(p) \/ ProfileEnds(p) \/ ClientStalls(p) \/ StalledGone(p)
    BY <1>4 DEF ProfileStep
  <2>3. /\ \A q \in Profiles : q # p => profile'[q] = profile[q]
        /\ profile'[p] # "cut"
        /\ p \in Running \/ Reachable("debug")
    BY <2>2 DEF ProfileStarts, ProfileEnds, ClientStalls, StalledGone, Running, ResourceInv,
           LifecycleTypeOK
  <2>4. Running' # {} => Running # {} \/ Reachable("debug")
    BY <2>3 DEF Running
  <2>5. QED
    BY <1>1, <2>1, <2>3, <2>4 DEF StreamsServed, Watching, Reachable
<1>5. QED
  BY <1>2, <1>3, <1>4

LEMMA StreamsServedKept ==
    ResourceInv /\ WatchTypeOK /\ StopReasons /\ StreamsServed /\ [LifecycleNext]_lvars
        => StreamsServed'
<1> SUFFICES ASSUME ResourceInv, WatchTypeOK, StopReasons, StreamsServed, [LifecycleNext]_lvars
             PROVE  StreamsServed'
  OBVIOUS
<1>1. CASE NewStep \/ NewFails \/ RunReturns \/ CloseNext \/ Signal \/ UNCHANGED lvars
  <2>1. UNCHANGED <<service, server, serveErr, req, watch, profile>>
    BY <1>1 DEF NewStep, NewFails, RunReturns, CloseNext, Signal, lvars, main, serves, flight
  <2>2. QED
    BY <2>1 DEF StreamsServed, Watching, Running, Grpc, Http, Kafka
<1>2. CASE Run
  <2>1. /\ UNCHANGED <<service, serveErr, req, watch, profile>>
        /\ server["main"] = "off" /\ server["debug"] = "off"
    BY <1>2 DEF Run, flight, ResourceInv, Building, Servers
  <2>2. Watching' = {} /\ Running' = {}
    BY <2>1 DEF StreamsServed, Watching, Running
  <2>3. QED
    BY <2>1, <2>2 DEF StreamsServed
<1>3. CASE Exit
  <2>1. /\ phase = "close" /\ UNCHANGED <<service, server, acceptErr, serveErr>>
        /\ req' = [r \in Requests |-> IF r \in InFlight THEN "cut" ELSE req[r]]
        /\ watch' = [w \in Watchers |-> IF w \in Watching THEN [watch[w] EXCEPT !.state = "cut"]
                                                          ELSE watch[w]]
        /\ profile' = [p \in Profiles |-> IF p \in Running THEN "cut" ELSE profile[p]]
    BY <1>3 DEF Exit, serves
  <2>2. server["main"] \in {"off", "returned", "abandoned"}
        /\ server["debug"] \in {"off", "returned", "abandoned"}
    BY <2>1 DEF ResourceInv, ServersDone, Returned, Servers
  <2>3. InFlight # {} => serveErr["main"]
    BY <2>2 DEF ResourceInv, HandlersServed, StopReasons, Servers
  <2>4. (Watching # {} => serveErr["main"]) /\ (Running # {} => serveErr["debug"])
    BY <2>2 DEF StreamsServed, StopReasons, Servers
  <2>5. Watching' = {} /\ Running' = {}
    BY <2>1 DEF Watching, Running, WatchTypeOK
  <2>6. ASSUME NEW w \in Watchers, watch'[w].state = "cut"
        PROVE  w \in Watching \/ watch[w].state = "cut"
    BY <2>1, <2>6
  <2>7. QED
    BY <2>1, <2>3, <2>4, <2>5, <2>6 DEF StreamsServed
<1>4. CASE ServerStep
  BY <1>4, StreamsServedByServers
<1>5. CASE RequestStep \/ WatchStep \/ ProfileStep
  BY <1>5, StreamsServedInFlight
<1>6. QED
  BY <1>1, <1>2, <1>3, <1>4, <1>5, LifecycleCases

-----------------------------------------------------------------------------
(* What a watch is told.                                                   *)

Stream == [state  : {"none", "open", "unavailable", "gone", "cut"},
           known  : BOOLEAN,
           update : Statuses \cup {"none"},
           sent   : Seq(Statuses)]

(* The four ways the stream s of a watch goes on as t.                     *)
StreamOpens(s, t) ==
    /\ s.state = "none" /\ t.state = "open" /\ t.sent = <<>>
    /\ t.update \in Statuses /\ (t.update = "NOT_SERVING" => HealthDown)

StreamSends(s, t) ==
    /\ t.state = s.state /\ s.state = "open"
    /\ s.update # "none" /\ t.update = "none" /\ t.sent = Append(s.sent, s.update)

StreamEnds(s, t) ==
    /\ HealthDown /\ s.state = "open" /\ t.state = "unavailable" /\ t.update = "none"
    /\ t.sent = IF s.sent = <<>> \/ Last(s.sent) # "NOT_SERVING"
                THEN Append(s.sent, "NOT_SERVING") ELSE s.sent

StreamGone(s, t) == t.state = "gone" /\ t.update = "none" /\ t.sent = s.sent

LEMMA WatchStepCases ==
    ASSUME WatchTypeOK, WatchStep
    PROVE  /\ watch' \in [Watchers -> Stream]
           /\ \A w \in Watchers : \/ watch'[w] = watch[w]
                                  \/ StreamOpens(watch[w], watch'[w])
                                  \/ StreamSends(watch[w], watch'[w])
                                  \/ StreamEnds(watch[w], watch'[w])
                                  \/ StreamGone(watch[w], watch'[w])
<1>1. watch \in [Watchers -> Stream]
  BY DEF WatchTypeOK, Stream
<1>2. PICK w \in Watchers : \/ \E known \in BOOLEAN : WatchOpens(w, known)
                            \/ WatchSends(w) \/ WatchEnds(w) \/ WatcherGone(w)
  BY DEF WatchStep
<1>3. watch[w] \in Stream
  BY <1>1, <1>2
<1>4. SUFFICES \E t \in Stream :
         /\ watch' = [watch EXCEPT ![w] = t]
         /\ \/ StreamOpens(watch[w], t) \/ StreamSends(watch[w], t)
            \/ StreamEnds(watch[w], t) \/ StreamGone(watch[w], t)
  BY <1>1
<1>5. ASSUME NEW known \in BOOLEAN, WatchOpens(w, known)
      PROVE  \E t \in Stream : watch' = [watch EXCEPT ![w] = t] /\ StreamOpens(watch[w], t)
  <2> DEFINE t == [state |-> "open", known |-> known, update |-> StatusOf(known), sent |-> <<>>]
  <2>1. watch' = [watch EXCEPT ![w] = t] /\ watch[w].state = "none"
    BY <1>5 DEF WatchOpens
  <2>2. StatusOf(known) \in Statuses /\ (StatusOf(known) = "NOT_SERVING" => HealthDown)
    BY DEF StatusOf, Statuses
  <2>3. t \in Stream /\ StreamOpens(watch[w], t)
    BY <2>1, <2>2 DEF Stream, StreamOpens
  <2>4. QED
    BY <2>1, <2>3
<1>6. ASSUME WatchSends(w)
      PROVE  \E t \in Stream : watch' = [watch EXCEPT ![w] = t] /\ StreamSends(watch[w], t)
  <2> DEFINE t == [watch[w] EXCEPT !.sent = Append(@, watch[w].update), !.update = "none"]
  <2>1. /\ watch' = [watch EXCEPT ![w] = t]
        /\ watch[w].state = "open" /\ watch[w].update # "none"
    BY <1>1, <1>6 DEF WatchSends, Watching
  <2>2. watch[w].update \in Statuses /\ watch[w].sent \in Seq(Statuses)
    BY <1>3, <2>1 DEF Stream
  <2>3. t \in Stream /\ StreamSends(watch[w], t)
    <3>. DEFINE next == Append(watch[w].sent, watch[w].update)
    <3>0. next \in Seq(Statuses)
      BY <2>2, AppendProperties
    <3>. HIDE DEF next
    <3>1. PICK seq \in Seq(Statuses) : seq = next
      BY <3>0
    <3>2. t = [watch[w] EXCEPT !.sent = seq, !.update = "none"]
      BY <3>1 DEF next
    <3>3. t \in Stream /\ t.state = watch[w].state /\ t.update = "none" /\ t.sent = seq
      BY <1>3, <3>2 DEF Stream
    <3>4. QED
      BY <2>1, <3>1, <3>3 DEF StreamSends, next
  <2>4. QED
    BY <2>1, <2>3
<1>7. ASSUME WatchEnds(w)
      PROVE  \E t \in Stream : watch' = [watch EXCEPT ![w] = t] /\ StreamEnds(watch[w], t)
  <2> DEFINE t == [watch[w] EXCEPT !.state = "unavailable", !.update = "none",
                                   !.sent = IF NotSent(w) THEN Append(@, "NOT_SERVING") ELSE @]
  <2>1. watch' = [watch EXCEPT ![w] = t] /\ watch[w].state = "open" /\ HealthDown
    BY <1>1, <1>7 DEF WatchEnds, Watching, WatchCancelled
  <2>2. watch[w].sent \in Seq(Statuses)
    BY <1>3 DEF Stream
  <2>3. t \in Stream /\ StreamEnds(watch[w], t)
    <3>. DEFINE next == IF NotSent(w) THEN Append(watch[w].sent, "NOT_SERVING") ELSE watch[w].sent
    <3>0. next \in Seq(Statuses)
      BY <2>2, AppendProperties DEF Statuses
    <3>. HIDE DEF next
    <3>1. PICK seq \in Seq(Statuses) : seq = next
      BY <3>0
    <3>2. t = [watch[w] EXCEPT !.state = "unavailable", !.update = "none", !.sent = seq]
      BY <3>1 DEF next
    <3>3. /\ t \in Stream /\ t.state = "unavailable" /\ t.update = "none" /\ t.sent = seq
      BY <1>3, <3>2 DEF Stream
    <3>4. QED
      BY <2>1, <3>1, <3>3 DEF StreamEnds, NotSent, next
  <2>4. QED
    BY <2>1, <2>3
<1>8. ASSUME WatcherGone(w)
      PROVE  \E t \in Stream : watch' = [watch EXCEPT ![w] = t] /\ StreamGone(watch[w], t)
  <2> DEFINE t == [watch[w] EXCEPT !.state = "gone", !.update = "none"]
  <2>1. watch' = [watch EXCEPT ![w] = t]
    BY <1>1, <1>8 DEF WatcherGone
  <2>2. t \in Stream /\ StreamGone(watch[w], t)
    BY <1>3 DEF Stream, StreamGone
  <2>3. QED
    BY <2>1, <2>2
<1>9. QED
  BY <1>2, <1>5, <1>6, <1>7, <1>8

(* The steps of main and of the servers: only the update of an open watch  *)
(* and, at the exit, its state change.                                     *)
LEMMA OtherStepsOfWatches ==
    ASSUME WatchTypeOK, [LifecycleNext]_lvars, ~WatchStep
    PROVE  /\ watch' \in [Watchers -> Stream]
           /\ \A w \in Watchers :
                 /\ watch'[w].sent = watch[w].sent
                 /\ watch'[w].state \in {watch[w].state, "cut"}
                 /\ \/ watch'[w].update = watch[w].update
                    \/ /\ HealthShutdown /\ w \in Watching
                       /\ watch'[w].update = "NOT_SERVING"
<1>1. watch \in [Watchers -> Stream]
  BY DEF WatchTypeOK, Stream
<1>2. CASE HealthShutdown
  <2>1. watch' = [w \in Watchers |-> IF w \in Watching /\ watch[w].known
                                     THEN [watch[w] EXCEPT !.update = "NOT_SERVING"]
                                     ELSE watch[w]]
    BY <1>2 DEF HealthShutdown
  <2>2. ASSUME NEW s \in Stream
        PROVE  /\ [s EXCEPT !.update = "NOT_SERVING"] \in Stream
               /\ [s EXCEPT !.update = "NOT_SERVING"].sent = s.sent
               /\ [s EXCEPT !.update = "NOT_SERVING"].state = s.state
               /\ [s EXCEPT !.update = "NOT_SERVING"].update = "NOT_SERVING"
    BY DEF Stream, Statuses
  <2>3. QED
    BY <1>1, <1>2, <2>1, <2>2
<1>3. CASE Exit
  <2>1. watch' = [w \in Watchers |-> IF w \in Watching THEN [watch[w] EXCEPT !.state = "cut"]
                                                       ELSE watch[w]]
    BY <1>3 DEF Exit
  <2>2. ASSUME NEW s \in Stream
        PROVE  /\ [s EXCEPT !.state = "cut"] \in Stream
               /\ [s EXCEPT !.state = "cut"].sent = s.sent
               /\ [s EXCEPT !.state = "cut"].state = "cut"
               /\ [s EXCEPT !.state = "cut"].update = s.update
    BY DEF Stream
  <2>3. QED
    BY <1>1, <2>1, <2>2
<1>4. CASE ~HealthShutdown /\ ~Exit
  <2>1. watch' = watch
    BY <1>4, LifecycleCases DEF NewStep, NewFails, Run, RunReturns, CloseNext, Signal, ServerStep,
           Stopped, AcceptFails, ServeFails, StopAccepting, Drained, ShutdownTimeout, RequestStep,
           Arrive, CallReturns, CallAborted, TxEnds, HandlerCancelled, ProfileStep,
           ProfileStarts, ProfileEnds, ClientStalls, StalledGone, flight, lvars
  <2>2. QED
    BY <1>1, <2>1
<1>5. QED
  BY <1>2, <1>3, <1>4

LEMMA WatchTypeKept == WatchTypeOK /\ [LifecycleNext]_lvars => WatchTypeOK'
<1> SUFFICES ASSUME WatchTypeOK, [LifecycleNext]_lvars PROVE watch' \in [Watchers -> Stream]
  BY DEF WatchTypeOK, Stream
<1>1. QED
  BY WatchStepCases, OtherStepsOfWatches

(* The service does not report itself healthy again.                       *)
LEMMA HealthStaysDown ==
    ASSUME ResourceInv, [LifecycleNext]_lvars, HealthDown
    PROVE  HealthDown' /\ ~HealthShutdown
<1>1. Grpc /\ server["main"] \in {"leaving", "draining", "stopping", "returned"}
  BY DEF HealthDown, ResourceInv, LifecycleTypeOK, Servers
<1>2. ~HealthShutdown
  BY <1>1 DEF HealthShutdown
<1>3. CASE Run
  BY <1>1, <1>3 DEF Run, ResourceInv, Building, Servers
<1>4. CASE ServerStep
  <2>1. Grpc' = Grpc
    BY <1>4, ServerFrame DEF main, Grpc, Http, Kafka
  <2>2. server'["main"] \in {"leaving", "draining", "stopping", "returned"}
    BY <1>1, <1>2, <1>4 DEF ServerStep, Stopped, AcceptFails, ServeFails, StopAccepting, Drained,
           ShutdownTimeout, ServeReturns, Advance, ResourceInv, LifecycleTypeOK, Servers
  <2>3. QED
    BY <1>1, <1>2, <2>1, <2>2 DEF HealthDown
<1>5. CASE ~Run /\ ~ServerStep
  <2>1. UNCHANGED <<service, server>>
    BY <1>5, LifecycleCases, FlightFrame DEF NewStep, NewFails, RunReturns, CloseNext, Exit, Signal,
           lvars, main, serves
  <2>2. QED
    BY <1>1, <1>2, <2>1 DEF HealthDown, Grpc, Http, Kafka
<1>6. QED
  BY <1>3, <1>4, <1>5

(* What ToldOnce says of one stream.                                       *)
StreamTold(s) ==
    /\ s.state = "none" => s.sent = <<>>
    /\ s.update = "NOT_SERVING" => HealthDown
    /\ s.sent # <<>> /\ Last(s.sent) = "NOT_SERVING" => HealthDown /\ s.update = "none"
    /\ \A i \in DOMAIN s.sent : s.sent[i] = "NOT_SERVING" => i = Len(s.sent)
    /\ s.state = "unavailable" => s.sent # <<>> /\ Last(s.sent) = "NOT_SERVING"

(* Appending a status to those that do not end with NOT_SERVING.           *)
LEMMA ToldByAppend ==
    ASSUME NEW seq \in Seq(Statuses), NEW status \in Statuses,
           seq # <<>> => Last(seq) # "NOT_SERVING",
           \A i \in DOMAIN seq : seq[i] = "NOT_SERVING" => i = Len(seq)
    PROVE  /\ Append(seq, status) # <<>> /\ Last(Append(seq, status)) = status
           /\ \A i \in DOMAIN Append(seq, status) :
                 Append(seq, status)[i] = "NOT_SERVING" => i = Len(Append(seq, status))
<1>1. /\ Len(seq) \in Nat /\ DOMAIN seq = 1 .. Len(seq)
      /\ Len(Append(seq, status)) = Len(seq) + 1
      /\ DOMAIN Append(seq, status) = 1 .. Len(seq) + 1
      /\ \A i \in 1 .. Len(seq) : Append(seq, status)[i] = seq[i]
      /\ Append(seq, status)[Len(seq) + 1] = status
      /\ Append(seq, status) # <<>>
      /\ Len(seq) > 0 => seq # <<>>
  OBVIOUS
<1>2. \A i \in 1 .. Len(seq) : seq[i] # "NOT_SERVING"
  BY <1>1 DEF Last
<1>3. ASSUME NEW i \in 1 .. Len(seq) + 1, Append(seq, status)[i] = "NOT_SERVING"
      PROVE  i = Len(seq) + 1
  <2>1. i \notin 1 .. Len(seq)
    BY <1>1, <1>2, <1>3
  <2>2. QED
    BY <1>1, <2>1
<1>4. QED
  BY <1>1, <1>3 DEF Last

LEMMA ToldOnceKept ==
    ResourceInv /\ WatchTypeOK /\ ToldOnce /\ [LifecycleNext]_lvars => ToldOnce'
<1> SUFFICES ASSUME ResourceInv, WatchTypeOK, ToldOnce, [LifecycleNext]_lvars,
                    NEW w \in Watchers
             PROVE  StreamTold(watch[w])'
  BY DEF ToldOnce, StreamTold, NotSent
<1>1. /\ watch[w] \in Stream /\ watch'[w] \in Stream
      /\ StreamTold(watch[w])
      /\ HealthDown => HealthDown' /\ ~HealthShutdown
  BY WatchTypeKept, HealthStaysDown DEF WatchTypeOK, Stream, ToldOnce, StreamTold, NotSent
<1>2. PICK s \in Stream, t \in Stream : s = watch[w] /\ t = watch'[w]
  BY <1>1
<1>3. SUFFICES /\ t.state = "none" => t.sent = <<>>
               /\ t.update = "NOT_SERVING" => HealthDown'
               /\ t.sent # <<>> /\ Last(t.sent) = "NOT_SERVING" => HealthDown' /\ t.update = "none"
               /\ \A i \in DOMAIN t.sent : t.sent[i] = "NOT_SERVING" => i = Len(t.sent)
               /\ t.state = "unavailable" => t.sent # <<>> /\ Last(t.sent) = "NOT_SERVING"
  BY <1>2 DEF StreamTold
<1>4. /\ s.sent \in Seq(Statuses) /\ s.update \in Statuses \cup {"none"}
      /\ StreamTold(s)
  BY <1>1, <1>2 DEF Stream
<1>5. CASE StreamOpens(s, t)
  BY <1>1, <1>5 DEF StreamOpens
<1>6. CASE StreamSends(s, t)
  <2>1. s.sent # <<>> => Last(s.sent) # "NOT_SERVING"
    BY <1>4, <1>6 DEF StreamSends, StreamTold
  <2>2. s.update \in Statuses
    BY <1>4, <1>6 DEF StreamSends
  <2>3. /\ t.sent # <<>> /\ Last(t.sent) = s.update
        /\ \A i \in DOMAIN t.sent : t.sent[i] = "NOT_SERVING" => i = Len(t.sent)
    BY <1>4, <1>6, <2>1, <2>2, ToldByAppend DEF StreamSends, StreamTold
  <2>4. QED
    BY <1>1, <1>4, <1>6, <2>3 DEF StreamSends, StreamTold
<1>7. CASE StreamEnds(s, t)
  <2>1. CASE s.sent = <<>> \/ Last(s.sent) # "NOT_SERVING"
    <3>1. /\ t.sent # <<>> /\ Last(t.sent) = "NOT_SERVING"
          /\ \A i \in DOMAIN t.sent : t.sent[i] = "NOT_SERVING" => i = Len(t.sent)
      BY <1>4, <1>7, <2>1, ToldByAppend DEF StreamEnds, StreamTold, Statuses
    <3>2. QED
      BY <1>1, <1>7, <3>1 DEF StreamEnds
  <2>2. CASE ~(s.sent = <<>> \/ Last(s.sent) # "NOT_SERVING")
    BY <1>1, <1>4, <1>7, <2>2 DEF StreamEnds, StreamTold
  <2>3. QED
    BY <2>1, <2>2
<1>8. CASE StreamGone(s, t)
  BY <1>1, <1>4, <1>8 DEF StreamGone, StreamTold
<1>9. CASE ~WatchStep
  <2>1. /\ t.sent = s.sent /\ t.state \in {s.state, "cut"}
        /\ t.update = s.update \/ (HealthShutdown /\ t.update = "NOT_SERVING")
    BY <1>2, <1>9, OtherStepsOfWatches
  <2>2. HealthShutdown => HealthDown'
    BY DEF HealthShutdown, HealthDown, Advance, ResourceInv, LifecycleTypeOK, Servers, main, Grpc,
           Http, Kafka
  <2>3. QED
    BY <1>1, <1>4, <2>1, <2>2 DEF StreamTold
<1>10. CASE t = s
  BY <1>1, <1>4, <1>10 DEF StreamTold
<1>11. QED
  BY <1>2, <1>5, <1>6, <1>7, <1>8, <1>9, <1>10, WatchStepCases

-----------------------------------------------------------------------------
LEMMA LifecycleInvInit == LifecycleInit => LifecycleInv
<1> SUFFICES ASSUME LifecycleInit PROVE LifecycleInv
  OBVIOUS
<1>1. ResourceInv
  BY ResourceInvInit
<1>2. Configured
  BY DEF LifecycleInit, Configured, RunsConfigured
<1>3. StopReasons
  BY DEF LifecycleInit, StopReasons, Servers
<1>4. \A w \in Watchers : watch[w] = [state |-> "none", known |-> TRUE,
                                      update |-> "none", sent |-> <<>>]
  BY DEF LifecycleInit
<1>5. StreamsServed
  <2>1. Watching = {} /\ Running = {}
    BY <1>4 DEF LifecycleInit, Watching, Running
  <2>2. QED
    BY <1>4, <2>1 DEF LifecycleInit, StreamsServed
<1>6. WatchTypeOK
  <2>1. [state |-> "none", known |-> TRUE, update |-> "none", sent |-> <<>>] \in Stream
    BY DEF Stream
  <2>2. watch \in [Watchers -> Stream]
    BY <2>1 DEF LifecycleInit
  <2>3. QED
    BY <2>2 DEF WatchTypeOK, Stream
<1>7. ToldOnce
  BY <1>4 DEF ToldOnce, NotSent
<1>8. QED
  BY <1>1, <1>2, <1>3, <1>5, <1>6, <1>7 DEF LifecycleInv

LEMMA LifecycleInvKept == LifecycleInv /\ [LifecycleNext]_lvars => LifecycleInv'
  BY ResourceInvKept, ConfiguredKept, StopReasonsKept, StreamsServedKept, WatchTypeKept,
     ToldOnceKept DEF LifecycleInv

(* The invariant holds in every behaviour of a process.                    *)
THEOREM LifecycleInvariance == LifecycleSpec => []LifecycleInv
<1>1. QED
  BY LifecycleInvInit, LifecycleInvKept, PTL DEF LifecycleSpec

(* Every exit leaves the resources closed and the profile rates restored,  *)
(* whichever step of app.New failed (closer.go, listener.go).              *)
THEOREM ReleasedAtExit == LifecycleSpec => []NothingLeaks
<1>1. LifecycleInv => NothingLeaks
  <2> SUFFICES ASSUME LifecycleInv, phase = "exited" PROVE open = {} /\ closer = <<>> /\ ~rates
    BY DEF NothingLeaks
  <2>1. closer = <<>> /\ ~rates
    BY DEF LifecycleInv, ResourceInv, ServersDone, Servers
  <2>2. Range(closer) = {}
    BY <2>1 DEF Range
  <2>3. QED
    BY <2>1, <2>2 DEF LifecycleInv, ResourceInv, Registered
<1>2. QED
  BY <1>1, LifecycleInvariance, PTL

(* The telemetry is open as long as any other resource is (main.go:23-24). *)
THEOREM TelemetryClosedLast == LifecycleSpec => []TelemetryLast
<1>1. LifecycleInv => TelemetryLast
  <2> SUFFICES ASSUME LifecycleInv, open # {} PROVE "telemetry" \in open
    BY DEF TelemetryLast
  <2>1. closer # <<>>
    BY DEF LifecycleInv, ResourceInv, Registered, Range
  <2>2. QED
    BY <2>1 DEF LifecycleInv, ResourceInv, TelemetryFirst
<1>2. QED
  BY <1>1, LifecycleInvariance, PTL

(* No handler sees a resource closed under it, unless its server gave up   *)
(* on a failed listener or, at the gateway, on the shutdown timeout        *)
(* (grpcserver/server.go:99-102, httpserver/server.go:129-131).            *)
THEOREM HandlersDoneAtClose == LifecycleSpec => []NoHandlerAtClose
<1>1. LifecycleInv => NoHandlerAtClose
  <2> SUFFICES ASSUME LifecycleInv, phase = "close", InFlight # {}
               PROVE  acceptErr["main"] \/ (Http /\ serveErr["main"])
    BY DEF NoHandlerAtClose
  <2>1. server["main"] \in {"off", "returned", "abandoned"}
    BY DEF LifecycleInv, ResourceInv, ServersDone, Returned, Servers
  <2>2. QED
    BY <2>1 DEF LifecycleInv, ResourceInv, HandlersServed, Grpc, Http, Kafka
<1>2. QED
  BY <1>1, LifecycleInvariance, PTL

(* A process runs only with settings it can use: what is wrong with its    *)
(* environment has stopped app.New (config.go, telemetry/config.go:36-38). *)
THEOREM OnlyConfiguredRun == LifecycleSpec => []RunsConfigured
<1>1. LifecycleInv => RunsConfigured
  BY DEF LifecycleInv, Configured
<1>2. QED
  BY <1>1, LifecycleInvariance, PTL

(* Exit code 0 means a service that had started, was told to stop, and cut *)
(* nobody off (main.go, errgroup of App.Run).                              *)
THEOREM ExitCodeTells == LifecycleSpec => []CleanExit
<1>1. LifecycleInv => CleanExit
  <2> SUFFICES ASSUME LifecycleInv, phase = "exited", code = 0
               PROVE  /\ built = Len(New) /\ signalled
                      /\ \A r \in Requests : req[r] # "cut"
                      /\ \A w \in Watchers : watch[w].state # "cut"
                      /\ \A p \in Profiles : profile[p] # "cut"
    BY DEF CleanExit
  <2>1. built = Len(New) /\ signalled /\ ~serveErr["main"] /\ ~serveErr["debug"]
    BY DEF LifecycleInv, StopReasons, Servers
  <2>2. QED
    BY <2>1 DEF LifecycleInv, StreamsServed
<1>2. QED
  BY <1>1, LifecycleInvariance, PTL

(* A watch that the server ends has been sent NOT_SERVING, last and once   *)
(* (health.go:41-66).                                                      *)
THEOREM ToldTheEnd == LifecycleSpec => []WatchersTold
<1>1. LifecycleInv => WatchersTold
  <2> SUFFICES ASSUME LifecycleInv, NEW w \in Watchers, watch[w].state = "unavailable"
               PROVE  /\ ~NotSent(w)
                      /\ Cardinality({i \in DOMAIN watch[w].sent :
                                          watch[w].sent[i] = "NOT_SERVING"}) = 1
    BY DEF WatchersTold
  <2>1. ~NotSent(w) /\ watch[w].sent \in Seq(Statuses)
    BY DEF LifecycleInv, ToldOnce, WatchTypeOK
  <2>2. PICK seq \in Seq(Statuses) : seq = watch[w].sent
    BY <2>1
  <2>3. /\ seq # <<>> /\ Last(seq) = "NOT_SERVING"
        /\ \A i \in DOMAIN seq : seq[i] = "NOT_SERVING" => i = Len(seq)
    BY <2>1, <2>2 DEF NotSent, LifecycleInv, ToldOnce
  <2>4. Len(seq) \in DOMAIN seq /\ seq[Len(seq)] = "NOT_SERVING"
    <3>1. Len(seq) \in Nat \ {0} /\ DOMAIN seq = 1 .. Len(seq)
      BY <2>3, EmptySeq, LenProperties
    <3>2. QED
      BY <2>3, <3>1 DEF Last
  <2>5. {i \in DOMAIN seq : seq[i] = "NOT_SERVING"} = {Len(seq)}
    BY <2>3, <2>4
  <2>6. Cardinality({Len(seq)}) = 1
    BY FS_Singleton
  <2>7. QED
    BY <2>1, <2>2, <2>5, <2>6
<1>2. QED
  BY <1>1, LifecycleInvariance, PTL

(* The graceful stop is not held by what it can end: the timeout of a gRPC *)
(* server finds a handler at work, and a profile that runs is cut off only *)
(* when the listener had failed (health.go:14-16, debugserver/server.go).  *)
THEOREM StopIsNotHeld == LifecycleSpec => StopNotHeld
<1> DEFINE Free == /\ Grpc /\ serveErr'["main"] /\ server["main"] = "draining" => InFlight # {}
                   /\ \A p \in Profiles : profile[p] = "running" /\ profile'[p] = "cut"
                                          => acceptErr["debug"]
<1>1. LifecycleInv /\ [LifecycleNext]_lvars => [Free]_lvars
  <2> SUFFICES ASSUME LifecycleInv, [LifecycleNext]_lvars PROVE Free
    OBVIOUS
  <2>1. /\ ResourceInv /\ StopReasons /\ StreamsServed
        /\ serveErr \in [Servers -> BOOLEAN]
    BY DEF LifecycleInv, ResourceInv, LifecycleTypeOK
  <2>2. ASSUME Grpc, serveErr'["main"], server["main"] = "draining" PROVE InFlight # {}
    <3>1. ~serveErr["main"] /\ "main" \in Servers
      BY <2>1, <2>2 DEF StopReasons, Servers
    <3>2. ShutdownTimeout("main")
      <4>1. CASE ServerStep
        BY <2>1, <2>2, <3>1, <4>1 DEF ServerStep, HealthShutdown, Stopped, AcceptFails, ServeFails,
               StopAccepting, Drained, ShutdownTimeout
      <4>2. CASE ~ServerStep
        <5>1. serveErr' = serveErr
          BY <4>2, LifecycleCases, FlightFrame DEF NewStep, NewFails, Run, RunReturns, CloseNext,
                 Exit, Signal, lvars, serves
        <5>2. QED
          BY <2>2, <3>1, <5>1
      <4>3. QED
        BY <4>1, <4>2
    <3>3. HealthDown
      BY <2>2 DEF HealthDown
    <3>4. QED
      BY <3>2, <3>3 DEF ShutdownTimeout, Held, Overdue, WatchCancelled
  <2>3. ASSUME NEW p \in Profiles, profile[p] = "running", profile'[p] = "cut"
        PROVE  acceptErr["debug"]
    <3>1. p \in Running
      BY <2>3 DEF Running
    <3>2. CASE Exit
      <4>1. Returned("debug")
        BY <3>2 DEF Exit, ResourceInv, ServersDone, LifecycleInv, Servers
      <4>2. server["debug"] = "abandoned"
        BY <2>1, <3>1, <4>1 DEF StreamsServed, Returned
      <4>3. QED
        BY <2>1, <4>2 DEF StopReasons, Servers
    <3>3. CASE ServerStep
      <4>1. PICK s \in Servers : ShutdownTimeout(s)
        BY <2>3, <3>3 DEF ServerStep, HealthShutdown, Stopped, AcceptFails, ServeFails,
               StopAccepting, Drained, flight
      <4>2. s = "debug"
        BY <2>3, <4>1 DEF ShutdownTimeout
      <4>3. Cancelled
        BY <2>1, <4>1, <4>2 DEF ShutdownTimeout, StopReasons
      <4>4. FALSE
        BY <2>3, <3>1, <4>1, <4>2, <4>3 DEF ShutdownTimeout, Overdue, ProfileCancelled
      <4>5. QED
        BY <4>4
    <3>4. CASE ~Exit /\ ~ServerStep
      <4>1. profile'[p] # "cut"
        BY <2>1, <2>3, <3>4, LifecycleCases DEF NewStep, NewFails, Run, RunReturns, CloseNext,
               Signal, lvars, flight, RequestStep, Arrive, CallReturns, CallAborted, TxEnds,
               HandlerCancelled, WatchStep, WatchOpens, WatchSends, WatchEnds, WatcherGone,
               ProfileStep, ProfileStarts, ProfileEnds, ClientStalls, StalledGone, ResourceInv,
               LifecycleTypeOK
      <4>2. QED
        BY <2>3, <4>1
    <3>5. QED
      BY <3>2, <3>3, <3>4
  <2>4. QED
    BY <2>2, <2>3
<1>2. QED
  BY <1>1, LifecycleInvariance, PTL DEF LifecycleSpec, StopNotHeld
===============================================================================
