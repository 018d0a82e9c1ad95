----------------------------- MODULE RequestPath -----------------------------
(***************************************************************************)
(* POST /api/v1/orders from the HTTP client and back: the gateway with its *)
(* middleware, binding and client, the order service (OrderService, whose  *)
(* steps are taken as they are), and the user and product services behind  *)
(* it, each with its interceptors, its repository and its client.          *)
(*                                                                         *)
(* OrderService tells which class of error a call ends with; here every    *)
(* error is the record of ErrorMapping that the program makes of it, on    *)
(* every hop.  A service answers a lookup in one step and the order        *)
(* service takes the answer, or stops waiting for it, in another.  A       *)
(* database, a connection and a process may fail, and the client may leave *)
(* at any time.                                                            *)
(***************************************************************************)
EXTENDS OrderService, ErrorMapping

CONSTANTS
    HttpRequests,   \* what a client may send
    Users,          \* rows of users
    Addresses,      \* rows of addresses
    NoUuid,         \* text that is no uuid
    DefaultUser,    \* FAKE_AUTH_USER_ID of the gateway
    DbFailures,     \* errors of a failing Postgres
    MaxItems        \* items of the largest order a gRPC client accepts

ASSUME PathAssumption ==
    /\ DefaultUser \in Users /\ NoUuid \notin Ids \cup Users \cup Addresses
    /\ DbFailures \subseteq PrivateTexts \ {"canceled", "no_rows"}
    /\ \A f \in DbFailures : PgCode(f) \in {"UNAVAILABLE", "DEADLINE_EXCEEDED", "INTERNAL"}
    /\ MaxItems \in Nat

VARIABLES
    http,       \* http[c]: the request of the client
    gate,       \* gate[c]: "idle", "waiting" for the order service, "done"
    away,       \* away[c]: the client has gone
    reply,      \* reply[c][d]: Sent when service d has been asked, its answer, then Read
    held,       \* held[c]: the error that CreateOrder returns, or is going to
    response,   \* response[c]: what the client is sent
    alarm,      \* alarm[c]: a service on the way logged an ERROR for the request
    fault       \* fault[c]: something failed that the request relied on

pathVars == <<http, gate, away, reply, held, response, alarm, fault>>
vars     == <<ovars, pathVars>>

NoRequest  == [json |-> FALSE, user |-> "", address |-> "", items |-> <<>>]
NoStatus   == StatusOf("", "")
Sent       == StatusOf("sent", "")
Read       == StatusOf("read", "")
NoResponse == [status |-> 0, code |-> "", reason |-> "", message |-> "", fields |-> {},
               total |-> 0, state |-> ""]

PathInit ==
    /\ OrderInit
    /\ http     = [c \in Calls |-> NoRequest]
    /\ gate     = [c \in Calls |-> "idle"]
    /\ away     = [c \in Calls |-> FALSE]
    /\ reply    = [c \in Calls |-> [d \in Dependencies |-> NoStatus]]
    /\ held     = [c \in Calls |-> NoError]
    /\ response = [c \in Calls |-> NoResponse]
    /\ alarm    = [c \in Calls |-> FALSE]
    /\ fault    = [c \in Calls |-> FALSE]

(* The Logger of a service: an error line, at the level of its code.       *)
Log(c, code) == alarm' = [alarm EXCEPT ![c] = @ \/ Level(code) = "ERROR"]

Hurt(c, failed) == fault' = [fault EXCEPT ![c] = @ \/ failed]

-----------------------------------------------------------------------------
(* The gateway.                                                            *)

(* response.Fail, and the Logger middleware that finds its error in the    *)
(* box of the context.                                                     *)
Refuse(c, err) ==
    LET body == Fail(err) IN
    /\ gate' = [gate EXCEPT ![c] = "done"]
    /\ response' = [response EXCEPT ![c] =
           [x \in DOMAIN NoResponse |-> IF x \in DOMAIN body THEN body[x] ELSE NoResponse[x]]]
    /\ Log(c, body.code)

(* Validate of the request DTO and of its items.                           *)
Violations(r) ==
    {f \in {"address_id", "items"} :
        \/ f = "address_id" /\ r.address = NoUuid
        \/ f = "items" /\ ~(/\ Valid(r.items)
                            /\ \A i \in DOMAIN r.items : r.items[i].id \in Ids)}

(* A bound of the instance: items of requests that pass are in Requests.   *)
ASSUME HttpRequestsAssumption ==
    \A r \in HttpRequests : Violations(r) = {} => r.items \in Requests

(* A uuid that is not in the form Postgres writes; is.UUID may refuse it.  *)
OtherSpelling(r) ==
    \E i \in DOMAIN r.items : r.items[i].id \in Ids /\ Canonical[r.items[i].id] # r.items[i].id

Refusals(r) ==
    {Violations(r)} \cup (IF OtherSpelling(r) THEN {Violations(r) \cup {"items"}} ELSE {})

(* bind.JSON: what it may say of a request.                                *)
Bind(r) ==
    IF r.json THEN {OzzoMap(fields) : fields \in Refusals(r)} ELSE {InvalidRequestBody}

(* Handler.CreateOrder up to the call of the order service.                *)
Arrive(c, r) ==
    /\ gate[c] = "idle"
    /\ http' = [http EXCEPT ![c] = r]
    /\ \E err \in Bind(r) :
          \/ err # NoError /\ Refuse(c, err)
          \/ /\ err = NoError
             /\ gate' = [gate EXCEPT ![c] = "waiting"]
             /\ UNCHANGED <<response, alarm>>
    /\ UNCHANGED <<ovars, away, reply, held, fault>>

(* FakeAuth.                                                               *)
UserID(c) == IF http[c].user = "" THEN DefaultUser ELSE http[c].user

ClientLeaves(c) ==
    /\ gate[c] = "waiting" /\ ~away[c]
    /\ away' = [away EXCEPT ![c] = TRUE]
    /\ UNCHANGED <<ovars, http, gate, reply, held, response, alarm, fault>>

(* What the client is shown of an order.  The order service numbers the    *)
(* states of an order for the wire, the gateway names them again.          *)
OrderStates == <<"created", "paid", "confirmed", "assembling", "assembled", "courier_assigned",
                 "delivering", "delivered", "canceled">>
StatusToProto(state) ==
    IF state \in {OrderStates[i] : i \in DOMAIN OrderStates}
    THEN CHOOSE i \in DOMAIN OrderStates : OrderStates[i] = state
    ELSE 0
StatusFromProto(n) == IF n \in DOMAIN OrderStates THEN OrderStates[n] ELSE "unspecified"


OrderToProto(c) == [total |-> total[c], state |-> StatusToProto("created")]
ProtoToOrder(p) == [total |-> p.total, state |-> StatusFromProto(p.state)]

Created(c) ==
    LET order == ProtoToOrder(OrderToProto(c)) IN
    [NoResponse EXCEPT !.status = 201, !.total = order.total, !.state = order.state]

Oversized(r) == Len(r.items) > MaxItems

(* Mutant: an error is reported and the order shown nevertheless.          *)
OrderReplies_AlwaysCreated(c) ==
    /\ gate[c] = "waiting" /\ stage[c] = "ended" /\ answer[c] # "LOST"
    /\ gate' = [gate EXCEPT ![c] = "done"]
    /\ response' = [response EXCEPT ![c] = Created(c)]
    /\ UNCHANGED <<alarm, ovars, http, away, reply, held, fault>>

(* The answer of the order service reaches the gateway, or is too large    *)
(* for its client to take.                                                 *)
OrderReplies(c) ==
    /\ gate[c] = "waiting" /\ stage[c] = "ended" /\ answer[c] # "LOST"
    /\ \/ /\ answer[c] = "OK" /\ ~Oversized(http[c])
          /\ gate' = [gate EXCEPT ![c] = "done"]
          /\ response' = [response EXCEPT ![c] = Created(c)]
          /\ UNCHANGED alarm
       \/ answer[c] = "OK" /\ Oversized(http[c]) /\ Refuse(c, GrpcMap(Raw("RESOURCE_EXHAUSTED")))
       \/ answer[c] # "OK" /\ Refuse(c, GrpcMap(Status(held[c])))
    /\ UNCHANGED <<ovars, http, away, reply, held, fault>>

(* The call of the gateway ends without an answer: its context is done, or *)
(* the connection breaks.                                                  *)
CallCancelled(c) ==
    /\ gate[c] = "waiting" /\ away[c]
    /\ Refuse(c, GrpcMap(Raw("CANCELED")))
    /\ UNCHANGED <<ovars, http, away, reply, held, fault>>

CallBreaks(c) ==
    /\ gate[c] = "waiting"
    /\ Refuse(c, GrpcMap(Raw("UNAVAILABLE")))
    /\ Hurt(c, TRUE)
    /\ UNCHANGED <<ovars, http, away, reply, held>>

(* The gateway dies: nobody answers.                                       *)
GatewayDies ==
    /\ \E c \in Calls : gate[c] = "waiting"
    /\ gate' = [c \in Calls |-> IF gate[c] = "waiting" THEN "done" ELSE gate[c]]
    /\ fault' = [c \in Calls |-> fault[c] \/ gate[c] = "waiting"]
    /\ UNCHANGED <<ovars, http, away, reply, held, response, alarm>>

-----------------------------------------------------------------------------
(* The order service.                                                      *)

(* The call reaches the order service, perhaps when nobody waits for it    *)
(* any more, unless the gateway has refused the request itself.            *)
OrderReceives(c) ==
    LET r == http[c] IN
    /\ gate[c] # "idle" /\ r.json /\ Violations(r) = {}
    /\ response[c].code # "INVALID_ARGUMENT"
    /\ Validated(c, r.items, UserID(c) # NoUuid)
    /\ \/ /\ UserID(c) # NoUuid
          /\ reply' = [reply EXCEPT ![c] = [d \in Dependencies |-> Sent]]
          /\ UNCHANGED held
       \/ /\ UserID(c) = NoUuid
          /\ held' = [held EXCEPT ![c] = ValidationFailed({"user_id"})]
          /\ UNCHANGED reply
    /\ UNCHANGED <<http, gate, away, response, alarm, fault>>

(* The context of the call is done once the gateway waits no longer.       *)
OrderCancelled(c) ==
    /\ gate[c] = "done"
    /\ CallerGone(c)
    /\ UNCHANGED pathVars

(* The class of an error, as OrderService tells them apart.                *)
Class(e) == IF e.code \in {"INVALID_ARGUMENT", "NOT_FOUND", "CANCELED"} THEN e.code
            ELSE "UNAVAILABLE"

(* A lookup comes back with a status: GetUser, GetAddress or GetProducts   *)
(* of the clients.                                                         *)
LookupEnds(c, d, s) ==
    LET e == GrpcMap(s) IN
    /\ Answered(c, d, IF s = OKStatus THEN "ok" ELSE Class(e))
    /\ held' = IF failure' # failure THEN [held EXCEPT ![c] = e] ELSE held
    /\ reply' = IF reply[c][d] = Sent THEN reply ELSE [reply EXCEPT ![c][d] = Read]
    /\ UNCHANGED <<http, gate, away, response, alarm>>

LookupAnswered(c, d) ==
    /\ reply[c][d] \notin {NoStatus, Sent, Read}
    /\ LookupEnds(c, d, reply[c][d])
    /\ UNCHANGED fault

(* Mutant: the clients detach the lookups from the context of the call.    *)
LookupCancelled_Detached(c, d) ==
    /\ failure[c] # None
    /\ LookupEnds(c, d, Raw("CANCELED"))
    /\ UNCHANGED fault

LookupCancelled(c, d) ==
    /\ Cancelled(c)
    /\ LookupEnds(c, d, Raw("CANCELED"))
    /\ UNCHANGED fault

LookupBreaks(c, d) ==
    /\ LookupEnds(c, d, Raw("UNAVAILABLE"))
    /\ Hurt(c, TRUE)

(* The Logger of the order service sees the error the call ends with.      *)
OrderLogs(c) ==
    IF answer'[c] \in Errors THEN Log(c, held'[c].code) ELSE UNCHANGED alarm

OrderWorks(c) ==
    /\ \/ Resolved(c) /\ held' = IF failure[c] = None /\ answer'[c] # None
                                 THEN [held EXCEPT ![c] = Caused(New("NOT_FOUND"), "product not found")]
                                 ELSE held
       \/ RefuseOrder(c) /\ held' = [held EXCEPT ![c] = PgMap(Plain("class_23"))]
       \/ (Begin(c) \/ InsertOrder(c) \/ InsertItems(c) \/ SaveEvent(c) \/ Commit(c)) /\ UNCHANGED held
    /\ OrderLogs(c)
    /\ UNCHANGED <<http, gate, away, reply, response, fault>>

(* Postgres fails a statement or the commit, or the context is done.       *)
StoreFails(c) ==
    \E cause \in DbFailures \cup {"canceled"} :
        /\ TxFails(c) \/ CommitUnacknowledged(c)
        /\ answer'[c] = IF PgCode(cause) = "DEADLINE_EXCEEDED" THEN "UNAVAILABLE" ELSE PgCode(cause)
        /\ held' = [held EXCEPT ![c] = PgMap(Plain(cause))]
        /\ OrderLogs(c)
        /\ Hurt(c, cause # "canceled")
        /\ UNCHANGED <<http, gate, away, reply, response>>

OrderDies ==
    /\ Crash
    /\ fault' = [c \in Calls |-> fault[c] \/ stage'[c] # stage[c]]
    /\ UNCHANGED <<http, gate, away, reply, held, response, alarm>>

-----------------------------------------------------------------------------
(* The user and product services.                                          *)

GetUser(c)     == IF UserID(c) \in Users THEN NoError ELSE PgMap(Plain("no_rows"))
GetAddress(c)  == IF http[c].address \in Addresses THEN NoError ELSE PgMap(Plain("no_rows"))
GetProducts(c) == IF Distinct(request[c]) THEN NoError ELSE ValidationFailed({"ids"})

(* A service handles the lookup it was sent, even one nobody waits for:    *)
(* the validation interceptor, the query of the repository and pgerr.Map.  *)
Serve(c, d) ==
    /\ reply[c][d] = Sent
    /\ \E err \in {CASE d = "user"     -> GetUser(c)
                     [] d = "address"  -> GetAddress(c)
                     [] d = "products" -> GetProducts(c)}
                  \cup {PgMap(Plain(f)) : f \in DbFailures}
                  \cup (IF Cancelled(c) \/ lookup[c][d] # "pending"
                        THEN {PgMap(Plain("canceled"))} ELSE {}) :
          /\ reply' = [reply EXCEPT ![c][d] = IF lookup[c][d] # "pending" THEN Read
                                             ELSE IF err = NoError THEN OKStatus ELSE Status(err)]
          /\ Log(c, err.code)
          /\ Hurt(c, err.cause \in DbFailures)
    /\ UNCHANGED <<ovars, http, gate, away, held, response>>

-----------------------------------------------------------------------------
PathNext ==
    \/ \E c \in Calls :
          \/ \E r \in HttpRequests : Arrive(c, r)
          \/ ClientLeaves(c)
          \/ OrderReplies(c)
          \/ CallCancelled(c)
          \/ CallBreaks(c)
          \/ OrderReceives(c)
          \/ OrderCancelled(c)
          \/ \E d \in Dependencies :
                \/ Serve(c, d)
                \/ LookupAnswered(c, d)
                \/ LookupCancelled(c, d)
                \/ LookupBreaks(c, d)
          \/ OrderWorks(c)
          \/ StoreFails(c)
    \/ GatewayDies
    \/ OrderDies

(* Fairness: the gateway and the order service run and notice that a       *)
(* context is done, Postgres serves the order service.  That a user or     *)
(* product service ever answers is not assumed: no call has a deadline.    *)
PathFairness ==
    \A c \in Calls :
        /\ WF_vars(OrderReplies(c) \/ CallCancelled(c))
        /\ WF_vars(OrderCancelled(c))
        /\ \A d \in Dependencies : WF_vars(LookupCancelled(c, d))
        /\ SF_vars(OrderWorks(c))

PathSpec == PathInit /\ [][PathNext]_vars /\ PathFairness

-----------------------------------------------------------------------------
Fields    == {"address_id", "items", "user_id", "ids"}
AppErrors == [code : {""} \cup Codes, reason : Reasons, message : Texts \cup Codes,
              cause : Texts \cup Codes, fields : SUBSET Fields]
Statuses  == [grpc : {"", "OK", "sent", "read"} \cup Codes, message : Texts \cup Codes,
              info : {""} \cup Codes, reason : Reasons, fields : SUBSET Fields]

PathTypeOK ==
    /\ OrderTypeOK
    /\ http  \in [Calls -> HttpRequests \cup {NoRequest}]
    /\ gate  \in [Calls -> {"idle", "waiting", "done"}]
    /\ away  \in [Calls -> BOOLEAN]
    /\ reply \in [Calls -> [Dependencies -> Statuses]]
    /\ held  \in [Calls -> AppErrors]
    /\ DOMAIN response = Calls
    /\ \A c \in Calls : response[c].status \in {0, 201} \cup {HTTP(code) : code \in Codes}
    /\ alarm \in [Calls -> BOOLEAN]
    /\ fault \in [Calls -> BOOLEAN]

Stored(c) == \A t \in Tables : c \in rows[t]

ToldTruly(c) ==
    /\ response[c].status = 201 =>
          Stored(c) /\ response[c].total = total[c] /\ response[c].state = "created"
    /\ response[c].status \in 400 .. 498 /\ ~Oversized(http[c]) =>
          \A t \in Tables : c \notin rows[t]

(* What the client is told is true, now and later: an order it was shown   *)
(* is stored, as it was shown; a request refused with a status below 499   *)
(* has stored nothing and never will.  The one exception is an order whose *)
(* answer is too large for the client of the gateway.                      *)
AnswerIsTrue == \A c \in Calls : ToldTruly(c)

(* Something about the request that is the client's business.              *)
AtFault(c) ==
    LET r == http[c] IN
    \/ ~r.json \/ Violations(r) # {} \/ Oversized(r) \/ OtherSpelling(r)
    \/ UserID(c) \notin Users \/ r.address \notin Addresses
    \/ ~Distinct(r.items) \/ ~AllFound(r.items) \/ TotalAmount(r.items) < 0

BlamedRightly(c) ==
    /\ response[c].status \in 400 .. 498 => AtFault(c)
    /\ response[c].status = 499 => away[c]
    /\ response[c].status >= 500 \/ alarm[c] => fault[c]

(* The blame is on the right side, wherever the error came up and however  *)
(* the cancellation of the other calls raced it: a status below 499 means  *)
(* a request at fault (a product written in other letters is, too), 499 a  *)
(* client that has gone, and one from 500, or an ERROR line of any service *)
(* on the way, that something failed.                                      *)
BlameIsRight == \A c \in Calls : BlamedRightly(c)

Tellable(e) ==
    /\ e.message \notin PrivateTexts
    /\ e.reason = "VALIDATION_FAILED" => e.fields # {}

(* No text of Postgres or of the transport is shown to the client, and a   *)
(* refused validation tells the fields.                                    *)
NothingInternalShown == \A c \in Calls : Tellable(response[c])

(* A call nobody waits for any more ends, although the services it asked   *)
(* may never answer: no connection and no goroutine is held for ever.      *)
AbandonedCallsEnd == \A c \in Calls : gate[c] = "done" ~> stage[c] \in {"none", "ended"}

-----------------------------------------------------------------------------
(* The inductive invariant behind the three safety properties.             *)

(* How far the order service is follows the gateway, and it works on the   *)
(* items of the request.                                                   *)
OrderFollows(c) ==
    /\ gate[c] = "idle" => stage[c] = "none" /\ response[c] = NoResponse
    /\ gone[c] => gate[c] = "done"
    /\ stage[c] = "none" =>
          /\ held[c] = NoError /\ failure[c] = None
          /\ \A d \in Dependencies : reply[c][d] = NoStatus
    /\ stage[c] # "none" => request[c] = http[c].items
    /\ stage[c] \in {"begin"} \cup TxStages => total[c] = TotalAmount(http[c].items)

(* The codes an error may have on this path, and what each implies.        *)
PathCodes == {"INVALID_ARGUMENT", "NOT_FOUND", "CANCELED", "UNAVAILABLE", "DEADLINE_EXCEEDED",
              "INTERNAL"}
Justified(c, code) ==
    /\ code \in PathCodes
    /\ code \in {"INVALID_ARGUMENT", "NOT_FOUND"} => AtFault(c)
    /\ code \in ServerErrors => fault[c]

(* A status on its way says nothing but what is so.                        *)
RepliesJustified(c) ==
    \A d \in Dependencies :
        \/ reply[c][d] \in {NoStatus, Sent, Read, OKStatus}
        \/ /\ Justified(c, reply[c][d].info)
           /\ Tellable(reply[c][d])

(* Nor does the error CreateOrder holds, which is the one of the errgroup, *)
(* and then that of the answer, as far as these tell the codes apart.      *)
HeldJustified(c) ==
    /\ held[c].code # "" => Justified(c, held[c].code) /\ Tellable(held[c])
    /\ stage[c] = "resolve" /\ failure[c] # None =>
          held[c].code # "" /\ Class(held[c]) = failure[c]
    /\ stage[c] = "ended" => answer[c] # None
    /\ stage[c] = "ended" /\ answer[c] \in Errors =>
          /\ held[c].code # ""
          /\ held[c].code \in {"INVALID_ARGUMENT", "NOT_FOUND", "CANCELED"} =>
                answer[c] = held[c].code

(* What the client was told remains true: the call has ended, or a refusal *)
(* of the gateway keeps it from beginning.                                 *)
AnswerStays(c) ==
    /\ response[c].status = 201 => stage[c] = "ended"
    /\ response[c].status \in 400 .. 498 /\ ~Oversized(http[c]) =>
          \/ stage[c] = "ended"
          \/ stage[c] = "none" /\ response[c].code = "INVALID_ARGUMENT"

CallInv(c) ==
    /\ OrderFollows(c)
    /\ RepliesJustified(c)
    /\ HeldJustified(c)
    /\ AnswerStays(c)
    /\ ToldTruly(c)
    /\ BlamedRightly(c)
    /\ Tellable(response[c])

PathInv == PathTypeOK /\ OrderInv /\ \A c \in Calls : CallInv(c)
=============================================================================
