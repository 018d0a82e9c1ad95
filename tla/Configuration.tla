---------------------------- MODULE Configuration ----------------------------
(***************************************************************************)
(* The environment variables a service is configured with, and which of    *)
(* its first steps finds out that one of them is wrong.  What a variable   *)
(* holds is abstracted to                                                  *)
(*   "good"                                                                *)
(*   "off"       OTEL_ENABLED = false                                      *)
(*   "unset"     not set (an empty endpoint or PPROF_ADDR is no other)     *)
(*   "invalid"   refused by env.Parse or by a Validate of the package      *)
(*   "unusable"  accepted by both, of no use to the step that needs it     *)
(***************************************************************************)

Values == {"good", "off", "unset", "invalid", "unusable"}

Common     == {"APP_NAME", "LOG_LEVEL", "LOG_FORMAT", "OTEL_ENABLED",
               "OTEL_EXPORTER_OTLP_ENDPOINT", "PPROF_ADDR", "PPROF_MUTEX_FRACTION",
               "PPROF_BLOCK_RATE"}
PG         == {"PG_DSN", "PG_MAX_CONNS"}
GRPCServer == {"GRPC_SERVER_ADDR", "GRPC_SERVER_REFLECTION"}

OrderConfig        == Common \cup PG \cup GRPCServer
                          \cup {"USER_SERVICE_GRPC_ADDR", "PRODUCT_SERVICE_GRPC_ADDR"}
UserConfig         == Common \cup PG \cup GRPCServer
ProductConfig      == Common \cup PG \cup GRPCServer
GatewayConfig      == Common \cup {"HTTP_ADDR", "ORDER_SERVICE_GRPC_ADDR", "FAKE_AUTH_USER_ID"}
NotificationConfig == Common \cup PG \cup {"KAFKA_BROKERS", "KAFKA_CONSUMER_GROUP", "KAFKA_TOPICS"}

Services == {"order", "user", "product", "gateway", "notification"}

Variables(service) ==
    CASE service = "order"        -> OrderConfig
      [] service = "user"         -> UserConfig
      [] service = "product"      -> ProductConfig
      [] service = "gateway"      -> GatewayConfig
      [] service = "notification" -> NotificationConfig

(* The variables that need not be set.                                     *)
Optional(env) ==
    {"PPROF_ADDR", "PPROF_MUTEX_FRACTION", "PPROF_BLOCK_RATE"}
        \cup (IF env["OTEL_ENABLED"] = "off" THEN {"OTEL_EXPORTER_OTLP_ENDPOINT"} ELSE {})

(* config.New: env.Parse, then Validate of the structure and its parts.    *)
ConfigValid(env) ==
    \A v \in DOMAIN env : env[v] # "invalid" /\ (env[v] = "unset" => v \in Optional(env))

Exporting(env) == env["OTEL_ENABLED"] # "off"

(* Mutant: any endpoint will do, "localhost:4317" too.                     *)
TelemetryValid_NoURL(env) == Exporting(env) => env["OTEL_EXPORTER_OTLP_ENDPOINT"] # "unset"

(* Config.validate of telemetry, with isEndpointURL.                       *)
TelemetryValid(env) == Exporting(env) => env["OTEL_EXPORTER_OTLP_ENDPOINT"] = "good"

(* The variable that a later step of app.New needs.                        *)
UsedBy ==
    [pool          |-> {"PG_DSN"},
     userConn      |-> {"USER_SERVICE_GRPC_ADDR"},
     productConn   |-> {"PRODUCT_SERVICE_GRPC_ADDR"},
     orderConn     |-> {"ORDER_SERVICE_GRPC_ADDR"},
     consumer      |-> {"KAFKA_BROKERS"},
     listener      |-> {"GRPC_SERVER_ADDR", "HTTP_ADDR"},
     debugListener |-> {"PPROF_ADDR"}]

(* What only the step that needs it can find of no use.                    *)
Used(service) ==
    Variables(service) \cap ((UNION {UsedBy[step] : step \in DOMAIN UsedBy})
                                 \cup {"OTEL_EXPORTER_OTLP_ENDPOINT"})

(* Whether the step can work in env.                                       *)
Works(step, env) ==
    /\ step = "config" => ConfigValid(env)
    /\ step = "telemetry" => TelemetryValid(env)
    /\ step \in DOMAIN UsedBy => \A v \in UsedBy[step] \cap DOMAIN env : env[v] # "unusable"

(* Nothing that the service needs is missing or wrong.                     *)
Usable(env) ==
    \A v \in DOMAIN env :
        \/ env[v] \in {"good", "off"}
        \/ env[v] = "unset" /\ v \in Optional(env)
        \/ v = "OTEL_EXPORTER_OTLP_ENDPOINT" /\ ~Exporting(env)
=============================================================================
