-------------------------- MODULE ServiceLifecycle --------------------------
(***************************************************************************)
(* The life of one process of a service: app.New, which acquires resources *)
(* and releases them when a step fails; App.Run, which runs the server of  *)
(* the service (in the notification service the consumer) and, when        *)
(* PPROF_ADDR is set, the debug server under an errgroup; their graceful   *)
(* stop; and the release of the resources by the closer.  The requests,    *)
(* health watches and profiles in flight are modelled as far as they and   *)
(* the stop affect each other.                                             *)
(*                                                                         *)
(* The signal, a failing Accept, the answers of other services and the     *)
(* behaviour of clients are the environment.  The durations of the         *)
(* shutdown timeouts are abstracted: a timeout passes only when nothing    *)
(* the process does by itself is left to end what it waits for.            *)
(***************************************************************************)
EXTENDS Naturals, Sequences, SequencesExt, FiniteSets, Configuration

CONSTANTS
    Requests,     \* requests to the server of the service, records for the consumer
    Watchers,     \* health Watch streams
    Profiles,     \* CPU profiles and traces taken from the debug server
    Environments  \* Environments[s]: what service s may be configured with

ASSUME EnvironmentsAssumption ==
    /\ DOMAIN Environments = Services
    /\ \A s \in Services :
        /\ Environments[s] \subseteq [Variables(s) -> Values]
        /\ \A e \in Environments[s], v \in Variables(s) \ Used(s) : e[v] # "unusable"

VARIABLES
    service,    \* the service this process runs
    env,        \* its environment variables
    phase,      \* where main stands
    built,      \* steps of app.New done
    closer,     \* resources registered in the closer, oldest first
    open,       \* resources in use: a closed one refuses its users
    signalled,  \* the process has been told to stop
    server,     \* server[s]: what Serve of server s is doing
    acceptErr,  \* acceptErr[s]: the listener of s failed under Serve
    serveErr,   \* serveErr[s]: Serve of s has an error to return
    rates,      \* the mutex and block profile rates of debugserver are set
    req,        \* req[r]: state of request r
    watch,      \* watch[w]: state of Watch stream w
    profile,    \* profile[p]: state of profile p
    code        \* exit code

main   == <<service, env, phase, built, closer, signalled, code>>
serves == <<server, acceptErr, serveErr>>
flight == <<req, watch, profile>>
lvars  == <<main, open, serves, rates, flight>>

Servers == {"main", "debug"}
Http    == service = "gateway"
Kafka   == service = "notification"
Grpc    == ~Http /\ ~Kafka
debug   == env["PPROF_ADDR"] # "unset"

-----------------------------------------------------------------------------
(* app.New: the steps that may fail, in order.  Those of Resource hold     *)
(* something that has to be released.                                      *)

OrderNew   == <<"config", "telemetry", "pool", "validator", "userConn", "productConn", "listener">>
UserNew    == <<"config", "telemetry", "pool", "validator", "listener">>
ProductNew == <<"config", "telemetry", "pool", "validator", "listener">>
GatewayNew == <<"config", "telemetry", "orderConn", "listener">>
NotificationNew == <<"config", "telemetry", "pool", "consumer">>

initDebugServer == IF debug THEN <<"debugListener">> ELSE <<>>

New == (CASE service = "order"   -> OrderNew
          [] service = "user"    -> UserNew
          [] service = "product" -> ProductNew
          [] service = "gateway" -> GatewayNew
          [] service = "notification" -> NotificationNew) \o initDebugServer

Conns    == {"userConn", "productConn", "orderConn"}
Resource == {"telemetry", "pool", "consumer", "listener", "debugListener"} \cup Conns
Listener(s) == IF s = "main" THEN "listener" ELSE "debugListener"

(* Mutant: the listener is not registered.                                 *)
Register_NoListener(step) ==
    /\ open' = open \cup ({step} \cap Resource)
    /\ closer' = IF step \in Resource \ {"listener"} THEN Append(closer, step) ELSE closer

(* What is acquired is registered with the closer in the same step.        *)
Register(step) ==
    IF step \in Resource
    THEN open' = open \cup {step} /\ closer' = Append(closer, step)
    ELSE UNCHANGED <<open, closer>>

NewStep ==
    /\ phase = "new" /\ built < Len(New)
    /\ Works(New[built + 1], env)
    /\ built' = built + 1
    /\ Register(New[built + 1])
    /\ UNCHANGED <<service, env, phase, signalled, code, serves, rates, flight>>

(* A step fails, config.New only for a reason in the environment: the      *)
(* deferred function of New closes what was registered.                    *)
NewFails ==
    /\ phase = "new" /\ built < Len(New)
    /\ New[built + 1] = "config" => ~Works("config", env)
    /\ phase' = "close" /\ code' = 1
    /\ UNCHANGED <<service, env, built, closer, open, signalled, serves, rates, flight>>

NewStopped == built < Len(New) /\ ~Works(New[built + 1], env) /\ NewFails

(* App.Run starts Serve of each server in a goroutine of the errgroup.     *)
Run ==
    /\ phase = "new" /\ built = Len(New)
    /\ phase' = "run"
    /\ server' = [s \in Servers |-> IF s = "debug" /\ ~debug THEN "off" ELSE "serving"]
    /\ rates' = debug
    /\ UNCHANGED <<service, env, built, closer, open, signalled, code,
                   acceptErr, serveErr, flight>>

Returned(s) == server[s] \in {"off", "returned", "abandoned"}

Cancelled_BySignal == signalled   \* mutant: an errgroup without a context
(* The context of the errgroup: done after the signal or the first error   *)
(* a Serve returns.                                                        *)
Cancelled == signalled \/ \E s \in Servers : Returned(s) /\ serveErr[s]

(* g.Wait returns; run calls App.Close whatever the result.                *)
RunReturns ==
    /\ phase = "run" /\ \A s \in Servers : Returned(s)
    /\ phase' = "close"
    /\ code' = IF \E s \in Servers : serveErr[s] THEN 1 ELSE 0
    /\ UNCHANGED <<service, env, built, closer, open, signalled, serves, rates, flight>>

(* pgxpool.Close refuses new acquisitions at once and then waits for the   *)
(* connections in use; neither it nor the closer looks at the context.     *)
PoolDrains == "pool" \in Range(New) \ (open \cup Range(closer))
              /\ \E r \in Requests : req[r] = "tx"

(* Mutant: resources are closed in the order of their acquisition.         *)
CloseNext_Forward ==
    /\ phase = "close" /\ closer # <<>> /\ ~PoolDrains
    /\ closer' = Tail(closer)
    /\ open' = open \ {Head(closer)}
    /\ UNCHANGED <<service, env, phase, built, signalled, code, serves, rates, flight>>

(* The last registered resource is closed.  A listener its server has      *)
(* closed already is no error; the flush of the telemetry may fail.        *)
CloseNext ==
    /\ phase = "close" /\ closer # <<>> /\ ~PoolDrains
    /\ closer' = Front(closer)
    /\ open' = open \ {Last(closer)}
    /\ code' \in {code} \cup (IF Last(closer) = "telemetry" /\ Exporting(env) THEN {1} ELSE {})
    /\ UNCHANGED <<service, env, phase, built, signalled, serves, rates, flight>>

InFlight == {r \in Requests : req[r] \in {"call", "tx"}}
Watching == {w \in Watchers : watch[w].state = "open"}
Running  == {p \in Profiles : profile[p] \in {"running", "unread"}}

(* os.Exit: whatever is still in flight dies with the process.             *)
Exit ==
    /\ phase = "close" /\ closer = <<>> /\ ~PoolDrains
    /\ phase' = "exited"
    /\ req' = [r \in Requests |-> IF r \in InFlight THEN "cut" ELSE req[r]]
    /\ watch' = [w \in Watchers |-> IF w \in Watching THEN [watch[w] EXCEPT !.state = "cut"]
                                                       ELSE watch[w]]
    /\ profile' = [p \in Profiles |-> IF p \in Running THEN "cut" ELSE profile[p]]
    /\ UNCHANGED <<service, env, built, closer, open, signalled, code, serves, rates>>

-----------------------------------------------------------------------------
(* Serve of grpcserver, httpserver and debugserver.                        *)

Advance(s, to) == server' = [server EXCEPT ![s] = to]

(* Accept fails for good: the inner Serve closes the listener and reports. *)
(* Connections already accepted stay open, and are served as before.  The  *)
(* consumer has no listener, and its Run returns no error.                 *)
AcceptFails(s) ==
    /\ s = "main" => ~Kafka
    /\ server[s] = "serving" /\ ~acceptErr[s]
    /\ acceptErr' = [acceptErr EXCEPT ![s] = TRUE]
    /\ open' = open \ {Listener(s)}
    /\ UNCHANGED <<main, server, serveErr, rates, flight>>

(* applyProfileRates is undone when Serve of the debug server returns.     *)
ServeReturns(s, to) ==
    /\ Advance(s, to)
    /\ rates' = (rates /\ s # "debug")

(* The select of Serve takes the error: it returns without any stop.       *)
ServeFails(s) ==
    /\ server[s] = "serving" /\ acceptErr[s]
    /\ ServeReturns(s, "abandoned")
    /\ serveErr' = [serveErr EXCEPT ![s] = TRUE]
    /\ UNCHANGED <<main, open, acceptErr, flight>>

HealthDown == Grpc /\ server["main"] \notin {"off", "serving", "abandoned"}

(* healthServer.shutdown: every watch of a known service has an update,    *)
(* in place of one it has not sent yet.                                    *)
HealthShutdown ==
    /\ Grpc /\ server["main"] = "serving" /\ Cancelled
    /\ Advance("main", "leaving")
    /\ watch' = [w \in Watchers |-> IF w \in Watching /\ watch[w].known
                                    THEN [watch[w] EXCEPT !.update = "NOT_SERVING"]
                                    ELSE watch[w]]
    /\ UNCHANGED <<main, open, acceptErr, serveErr, rates, req, profile>>

(* GracefulStop and http.Server.Shutdown close the listener first, and the *)
(* consumer takes no further record once its context is done.              *)
StopAccepting(s) ==
    /\ IF s = "main" /\ Grpc THEN server[s] = "leaving"
                             ELSE server[s] = "serving" /\ Cancelled
    /\ Advance(s, "draining")
    /\ open' = open \ {Listener(s)}
    /\ UNCHANGED <<main, acceptErr, serveErr, rates, flight>>

Held(s) == IF s = "main" THEN InFlight \cup Watching # {} ELSE Running # {}

Drained(s) ==
    /\ server[s] = "draining" /\ ~Held(s)
    /\ ServeReturns(s, "returned")
    /\ UNCHANGED <<main, open, acceptErr, serveErr, flight>>

WatchCancelled_Never == FALSE   \* mutant: stopWatching is not called

(* stopWatching cancels the context of every watch; BaseContext makes the  *)
(* contexts of the profiles derive from the one Serve was given.           *)
WatchCancelled   == HealthDown
ProfileCancelled == Cancelled

(* What holds s will not end for a reason of the process' own.  Run of the *)
(* consumer has no timeout.                                                *)
Overdue(s) ==
    IF s = "main" THEN ~Kafka /\ (WatchCancelled => Watching = {})
                  ELSE ProfileCancelled => \A p \in Running : profile[p] = "unread"

(* Mutant: the timeout is not reported.                                    *)
ShutdownTimeout_Quiet(s) ==
    /\ server[s] = "draining" /\ Held(s) /\ Overdue(s)
    /\ IF s = "main" /\ Grpc THEN Advance(s, "stopping") /\ UNCHANGED rates
                             ELSE ServeReturns(s, "returned")
    /\ profile' = [p \in Profiles |-> IF s = "debug" /\ p \in Running THEN "cut" ELSE profile[p]]
    /\ UNCHANGED <<main, open, acceptErr, serveErr, req, watch>>

(* grpc: Stop cancels what is in flight.  debug: Close closes the          *)
(* connections and Serve returns.  http: Serve returns, no more.           *)
ShutdownTimeout(s) ==
    /\ server[s] = "draining" /\ Held(s) /\ Overdue(s)
    /\ serveErr' = [serveErr EXCEPT ![s] = TRUE]
    /\ IF s = "main" /\ Grpc THEN Advance(s, "stopping") /\ UNCHANGED rates
                             ELSE ServeReturns(s, "returned")
    /\ profile' = [p \in Profiles |-> IF s = "debug" /\ p \in Running THEN "cut" ELSE profile[p]]
    /\ UNCHANGED <<main, open, acceptErr, req, watch>>

(* Mutant: the handlers are not waited for after Stop.                     *)
Stopped_AtOnce ==
    /\ server["main"] = "stopping"
    /\ ServeReturns("main", "returned")
    /\ UNCHANGED <<main, open, acceptErr, serveErr, flight>>

(* <-done: GracefulStop has seen the last handler return.                  *)
Stopped ==
    /\ server["main"] = "stopping" /\ ~Held("main")
    /\ ServeReturns("main", "returned")
    /\ UNCHANGED <<main, open, acceptErr, serveErr, flight>>

-----------------------------------------------------------------------------
(* Requests: a handler calls other services (order and gateway), then uses *)
(* the database (all but gateway).                                         *)

(* Connections outlive a failed listener: they carry new requests until    *)
(* the stop, and until the exit when there is none.                        *)
Reachable(s) == phase # "exited" /\ server[s] \in {"serving", "leaving", "abandoned"}

Calling == Range(New) \cap Conns
UsePool == IF "pool" \in open THEN "tx" ELSE "failed"
Answer(r, result) == req' = [req EXCEPT ![r] = result]

(* The consumer handles one record at a time.                              *)
Arrive(r) ==
    /\ Reachable("main") /\ req[r] = "none"
    /\ Kafka => InFlight = {}
    /\ Answer(r, IF Calling # {} THEN "call" ELSE UsePool)
    /\ UNCHANGED <<main, open, serves, rates, watch, profile>>

(* The services answer, if they do; with success only on an open           *)
(* connection, and a closed pool has no connection to give.                *)
CallReturns(r) ==
    /\ req[r] = "call"
    /\ \/ /\ Calling \subseteq open
          /\ Answer(r, IF Grpc THEN UsePool ELSE "ok")
       \/ Answer(r, "failed")
    /\ UNCHANGED <<main, open, serves, rates, watch, profile>>

(* ClientConn.Close fails the calls in flight.                             *)
CallAborted(r) ==
    /\ req[r] = "call" /\ ~(Calling \subseteq open)
    /\ Answer(r, "failed")
    /\ UNCHANGED <<main, open, serves, rates, watch, profile>>

TxEnds(r) ==
    /\ req[r] = "tx"
    /\ \E result \in {"ok", "failed"} : Answer(r, result)
    /\ UNCHANGED <<main, open, serves, rates, watch, profile>>

(* After Stop the context of a handler is done and its answer is lost.     *)
HandlerCancelled(r) ==
    /\ server["main"] = "stopping" /\ r \in InFlight
    /\ Answer(r, "cut")
    /\ UNCHANGED <<main, open, serves, rates, watch, profile>>

-----------------------------------------------------------------------------
(* Health.Watch of a gRPC service, of the server or of an unknown service. *)

StatusOf(known) ==
    IF known THEN IF HealthDown THEN "NOT_SERVING" ELSE "SERVING" ELSE "SERVICE_UNKNOWN"

WatchOpens(w, known) ==
    /\ Grpc /\ Reachable("main") /\ watch[w].state = "none"
    /\ watch' = [watch EXCEPT ![w] = [state |-> "open", known |-> known,
                                      update |-> StatusOf(known), sent |-> <<>>]]
    /\ UNCHANGED <<main, open, serves, rates, req, profile>>

(* The loop of health.Server.Watch sends the update that is pending.       *)
WatchSends(w) ==
    /\ w \in Watching /\ watch[w].update # "none"
    /\ watch' = [watch EXCEPT ![w].sent = Append(@, watch[w].update), ![w].update = "none"]
    /\ UNCHANGED <<main, open, serves, rates, req, profile>>

NotSent(w) == watch[w].sent = <<>> \/ Last(watch[w].sent) # "NOT_SERVING"

(* Mutant: the stream ends without a last status.                          *)
WatchEnds_Silent(w) ==
    /\ w \in Watching /\ WatchCancelled
    /\ watch' = [watch EXCEPT ![w].state = "unavailable", ![w].update = "none"]
    /\ UNCHANGED <<main, open, serves, rates, req, profile>>

(* The loop sees its context done, which it may do before a pending        *)
(* update; Watch then sends NOT_SERVING unless that was the last status.   *)
WatchEnds(w) ==
    /\ w \in Watching /\ WatchCancelled
    /\ watch' = [watch EXCEPT ![w].state = "unavailable",
                              ![w].update = "none",
                              ![w].sent = IF NotSent(w) THEN Append(@, "NOT_SERVING") ELSE @]
    /\ UNCHANGED <<main, open, serves, rates, req, profile>>

(* The client closes the stream.                                           *)
WatcherGone(w) ==
    /\ w \in Watching
    /\ watch' = [watch EXCEPT ![w].state = "gone", ![w].update = "none"]
    /\ UNCHANGED <<main, open, serves, rates, req, profile>>

-----------------------------------------------------------------------------
(* The debug server: CPU profiles and traces.                              *)

ProfileStarts(p) ==
    /\ Reachable("debug") /\ profile[p] = "none"
    /\ profile' = [profile EXCEPT ![p] = "running"]
    /\ UNCHANGED <<main, open, serves, rates, req, watch>>

(* sleep returns, by its timer or because the context is done.             *)
ProfileEnds(p) ==
    /\ profile[p] = "running"
    /\ profile' = [profile EXCEPT ![p] = "sent"]
    /\ UNCHANGED <<main, open, serves, rates, req, watch>>

ProfileInterrupted(p) == ProfileCancelled /\ ProfileEnds(p)

(* The client does not read the answer; a while later it may go away.      *)
ClientStalls(p) ==
    /\ profile[p] = "running"
    /\ profile' = [profile EXCEPT ![p] = "unread"]
    /\ UNCHANGED <<main, open, serves, rates, req, watch>>

StalledGone(p) ==
    /\ profile[p] = "unread"
    /\ profile' = [profile EXCEPT ![p] = "gone"]
    /\ UNCHANGED <<main, open, serves, rates, req, watch>>

-----------------------------------------------------------------------------
Signal ==
    /\ phase \in {"new", "run"} /\ ~signalled
    /\ signalled' = TRUE
    /\ UNCHANGED <<service, env, phase, built, closer, code, open, serves, rates, flight>>

LifecycleInit ==
    /\ service \in Services
    /\ env \in Environments[service]
    /\ phase = "new" /\ built = 0 /\ code = 0
    /\ closer = <<>> /\ open = {}
    /\ signalled = FALSE
    /\ server    = [s \in Servers |-> "off"]
    /\ acceptErr = [s \in Servers |-> FALSE]
    /\ serveErr  = [s \in Servers |-> FALSE]
    /\ rates = FALSE
    /\ req = [r \in Requests |-> "none"]
    /\ watch = [w \in Watchers |-> [state |-> "none", known |-> TRUE,
                                    update |-> "none", sent |-> <<>>]]
    /\ profile = [p \in Profiles |-> "none"]

(* What the process does by itself.                                        *)
Process ==
    \/ NewStep \/ NewStopped \/ Run \/ RunReturns \/ CloseNext \/ Exit
    \/ HealthShutdown \/ Stopped
    \/ \E s \in Servers : ServeFails(s) \/ StopAccepting(s) \/ Drained(s) \/ ShutdownTimeout(s)
    \/ \E r \in Requests : CallAborted(r) \/ TxEnds(r) \/ HandlerCancelled(r)
    \/ \E w \in Watchers : WatchSends(w) \/ WatchEnds(w)
    \/ \E p \in Profiles : ProfileInterrupted(p)

Environment ==
    \/ Signal \/ NewFails
    \/ \E s \in Servers : AcceptFails(s)
    \/ \E r \in Requests : Arrive(r) \/ CallReturns(r)
    \/ \E w \in Watchers : WatcherGone(w) \/ \E known \in BOOLEAN : WatchOpens(w, known)
    \/ \E p \in Profiles : ProfileStarts(p) \/ ProfileEnds(p) \/ ClientStalls(p) \/ StalledGone(p)

LifecycleNext == Process \/ Environment

LifecycleSpec == LifecycleInit /\ [][LifecycleNext]_lvars /\ WF_lvars(Process)

-----------------------------------------------------------------------------
Results == {"ok", "failed", "cut"}

LifecycleTypeOK ==
    /\ service \in Services /\ env \in Environments[service] /\ signalled \in BOOLEAN
    /\ rates \in BOOLEAN /\ code \in {0, 1}
    /\ phase \in {"new", "run", "close", "exited"}
    /\ built \in Nat
    /\ closer \in Seq(Resource)
    /\ open \subseteq Resource
    /\ server \in [Servers -> {"off", "serving", "leaving", "draining", "stopping",
                               "returned", "abandoned"}]
    /\ acceptErr \in [Servers -> BOOLEAN] /\ serveErr \in [Servers -> BOOLEAN]
    /\ req \in [Requests -> {"none", "call", "tx"} \cup Results]
    /\ profile \in [Profiles -> {"none", "running", "unread", "sent", "gone", "cut"}]

(* Whatever step of New fails and however the servers end, the process     *)
(* exits with every resource released and the profile rates as they were   *)
(* (closer.go, listener.go: "in case the server was never started").       *)
NothingLeaks == phase = "exited" => open = {} /\ closer = <<>> /\ ~rates

(* The telemetry outlives every other resource, so the errors logged while *)
(* they are closed still reach the collector (main.go:23-24).              *)
TelemetryLast == open \subseteq {"telemetry"} \/ "telemetry" \in open

(* Resources are closed only when no handler is left, unless Serve gave up *)
(* on a failed Accept, or, at the gateway, on the shutdown timeout, which  *)
(* does not stop the handlers (grpcserver.graceful waits for done).        *)
NoHandlerAtClose ==
    phase = "close" =>
        \/ InFlight = {} \/ acceptErr["main"]
        \/ Http /\ serveErr["main"]

(* What makes the last three inductive: how the resources stand to the     *)
(* closer, the servers to the phase of main, and the handlers to them.     *)
Registered == open \subseteq Range(closer)

TelemetryFirst ==
    closer # <<>> => /\ "telemetry" \in open
                     /\ \A i \in DOMAIN closer : closer[i] = "telemetry" <=> i = 1

Building ==
    phase = "new" => /\ built <= Len(New)
                     /\ closer = <<>> <=> built < 2
                     /\ \A s \in Servers : server[s] = "off"

ServersDone ==
    /\ rates => ~Returned("debug")
    /\ phase \in {"close", "exited"} => \A s \in Servers : Returned(s)
    /\ phase = "exited" => closer = <<>>

HandlersServed ==
    /\ server["main"] = "abandoned" => acceptErr["main"]
    /\ InFlight # {} => \/ server["main"] \in {"serving", "leaving", "draining", "stopping"}
                        \/ server["main"] = "abandoned"
                        \/ server["main"] = "returned" /\ Http /\ serveErr["main"]

ResourceInv ==
    /\ LifecycleTypeOK
    /\ Registered /\ TelemetryFirst /\ Building /\ ServersDone /\ HandlersServed

(* A process that runs can use every setting it needs.  What is wrong with *)
(* the environment stops app.New, be it the validation of the config or    *)
(* the step that uses it: an endpoint of the telemetry that is no URL      *)
(* would otherwise just not be exported to (telemetry/config.go:36-38).    *)
RunsConfigured == phase = "run" => Usable(env)

(* What makes the others inductive: app.New has found nothing wrong so     *)
(* far, a server has a reason to stop and to report an error, its streams  *)
(* are served, and a watch is told of the shutdown once, as its last news. *)
Configured ==
    /\ phase = "new" => \A i \in 1 .. built : Works(New[i], env)
    /\ RunsConfigured

StopReasons ==
    /\ \A s \in Servers :
        /\ server[s] \in {"leaving", "draining", "stopping", "returned"} => Cancelled
        /\ server[s] \in {"stopping", "abandoned"} => serveErr[s]
        /\ serveErr[s] => server[s] \in {"stopping", "returned", "abandoned"}
        /\ server[s] = "abandoned" => acceptErr[s]
    /\ phase \in {"new", "run"} => code = 0
    /\ phase = "run" => built = Len(New) /\ server["main"] # "off"
    /\ phase \in {"close", "exited"} /\ code = 0 =>
        built = Len(New) /\ signalled /\ \A s \in Servers : ~serveErr[s]

StreamsServed ==
    /\ Watching # {} => Grpc /\ server["main"] \notin {"off", "returned"}
    /\ Running # {} => server["debug"] \notin {"off", "returned"}
    /\ \A r \in Requests : req[r] = "cut" => serveErr["main"]
    /\ \A w \in Watchers : watch[w].state = "cut" => serveErr["main"]
    /\ \A p \in Profiles : profile[p] = "cut" => serveErr["debug"]

Statuses == {"SERVING", "NOT_SERVING", "SERVICE_UNKNOWN"}

WatchTypeOK ==
    watch \in [Watchers -> [state  : {"none", "open", "unavailable", "gone", "cut"},
                            known  : BOOLEAN,
                            update : Statuses \cup {"none"},
                            sent   : Seq(Statuses)]]

ToldOnce ==
    \A w \in Watchers :
        /\ watch[w].state = "none" => watch[w].sent = <<>>
        /\ watch[w].update = "NOT_SERVING" => HealthDown
        /\ ~NotSent(w) => HealthDown /\ watch[w].update = "none"
        /\ \A i \in DOMAIN watch[w].sent :
               watch[w].sent[i] = "NOT_SERVING" => i = Len(watch[w].sent)
        /\ watch[w].state = "unavailable" => ~NotSent(w)

(* The inductive invariant.                                                *)
LifecycleInv ==
    /\ ResourceInv
    /\ Configured /\ StopReasons /\ StreamsServed
    /\ WatchTypeOK /\ ToldOnce

(* Exit code 0: the service had started, and nobody's request, watch or    *)
(* profile was cut off by the stop.                                        *)
CleanExit ==
    phase = "exited" /\ code = 0 =>
        /\ built = Len(New) /\ signalled
        /\ \A r \in Requests : req[r] # "cut"
        /\ \A w \in Watchers : watch[w].state # "cut"
        /\ \A p \in Profiles : profile[p] # "cut"

(* A watch the server ends has been told NOT_SERVING, as its last status   *)
(* and once, whichever of the update and the cancellation comes first      *)
(* (health.go:41-66).                                                      *)
WatchersTold ==
    \A w \in Watchers : watch[w].state = "unavailable" =>
        /\ ~NotSent(w)
        /\ Cardinality({i \in DOMAIN watch[w].sent : watch[w].sent[i] = "NOT_SERVING"}) = 1

(* The graceful stop is never held until its timeout by what it can end:   *)
(* by open watches alone (health.go:14-16), or by a running profile, which *)
(* ends with its data and is not cut off (debugserver/server.go:74-78).    *)
StopNotHeld ==
    [][/\ Grpc /\ serveErr'["main"] /\ server["main"] = "draining" => InFlight # {}
       /\ \A p \in Profiles : profile[p] = "running" /\ profile'[p] = "cut"
                              => acceptErr["debug"]]_lvars

(* After the signal, or once a server has failed, the process exits: no    *)
(* handler, watch or profile, and no other server, keeps it.               *)
StopEnds == signalled \/ (\E s \in Servers : serveErr[s]) ~> phase = "exited"
=============================================================================
