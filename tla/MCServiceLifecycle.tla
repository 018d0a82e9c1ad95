-------------------------- MODULE MCServiceLifecycle --------------------------
(* Small instances of ServiceLifecycle for TLC.                              *)
EXTENDS ServiceLifecycle

Good(s) == [v \in Variables(s) |-> "good"]

(* A good environment, one without the debug server, one without telemetry,  *)
(* and one for each thing that may be wrong with one variable.               *)
OneDeviation ==
    [s \in Services |->
        {Good(s), [Good(s) EXCEPT !["PPROF_ADDR"] = "unset"],
         [Good(s) EXCEPT !["PPROF_ADDR"] = "unset", !["OTEL_ENABLED"] = "off",
                         !["OTEL_EXPORTER_OTLP_ENDPOINT"] = "unset"]}
        \cup {[Good(s) EXCEPT ![v] = "invalid"] : v \in Variables(s)}
        \cup {[Good(s) EXCEPT ![v] = "unset"] : v \in Variables(s) \ Optional(Good(s))}
        \cup {[Good(s) EXCEPT ![v] = "unusable"] : v \in Used(s)}]
===============================================================================
