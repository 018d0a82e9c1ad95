------------------------- MODULE RequestPath_proofs -------------------------
(***************************************************************************)
(* Proofs about RequestPath, for every set of calls, requests, users,      *)
(* addresses and products, every failure of Postgres and every limit:      *)
(* what the client is told is true, the blame is on the right side, and    *)
(* nothing internal is shown.                                              *)
(***************************************************************************)
EXTENDS RequestPath, OrderService_proofs

-----------------------------------------------------------------------------
(* The ways of an error.                                                   *)

(* An error of the program keeps its code in a status.                     *)
LEMMA StatusKeeps ==
    ASSUME NEW e \in AppErrors, e.code # ""
    PROVE  /\ Status(e) \in Statuses
           /\ Status(e).info = e.code
           /\ Tellable(e) => Tellable(Status(e))
<1>1. From(e) = e
  BY DEF From
<1>2. GRPC(e.code) \in Codes /\ PublicText(e.code) \in Codes
  BY DEF GRPC, PublicText, Codes, ServerErrors, ClientErrors
<1>3. Public(e) \in Texts \cup Codes
  BY <1>2 DEF Public, AppErrors
<1>4. Status(e) \in Statuses
  BY <1>1, <1>2, <1>3 DEF Status, Statuses, AppErrors
<1>5. PublicText(e.code) \notin PrivateTexts
  BY <1>2 DEF Codes, ServerErrors, ClientErrors, PrivateTexts
<1>6. Tellable(e) => Tellable(Status(e))
  BY <1>1, <1>5 DEF Tellable, Status, Public
<1>7. QED
  BY <1>1, <1>4, <1>6 DEF Status

(* And a status gives it back.                                             *)
LEMMA MapKeeps ==
    ASSUME NEW s \in Statuses
    PROVE  /\ GrpcMap(s) \in AppErrors
           /\ GrpcMap(s).reason = s.reason /\ GrpcMap(s).fields = s.fields
           /\ s.info # "" => GrpcMap(s).code = s.info
           /\ s.info # "" /\ Tellable(s) => Tellable(GrpcMap(s))
<1>1. CodeFromGRPC(s.grpc) \in {""} \cup Codes
  BY DEF CodeFromGRPC, Codes, ServerErrors, ClientErrors
<1>2. GrpcMap(s) \in AppErrors
  BY <1>1 DEF GrpcMap, AppErrors, Statuses, Texts
<1>3. QED
  BY <1>2 DEF GrpcMap, Tellable

(* A status of the library becomes an error with its code and no text.     *)
LEMMA RawMapped ==
    ASSUME NEW g \in Codes
    PROVE  /\ GrpcMap(Raw(g)) \in AppErrors
           /\ GrpcMap(Raw(g)).code = g
           /\ Tellable(GrpcMap(Raw(g)))
<1> DEFINE e == [code |-> g, reason |-> "", message |-> "", cause |-> "transport",
                 fields |-> {}]
<1>1. g # "" /\ g # "OK" /\ "transport" \in Texts
  BY DEF Codes, ServerErrors, ClientErrors, Texts, PrivateTexts
<1>2. GrpcMap(Raw(g)) = e
  BY <1>1 DEF GrpcMap, Raw, StatusOf, CodeFromGRPC
<1>3. "" \in Texts \ PrivateTexts /\ "" \in Reasons
  BY DEF Texts, Reasons, PrivateTexts
<1>4. e \in AppErrors
  BY <1>1, <1>3 DEF AppErrors
<1>5. e.code = g /\ Tellable(e)
  BY <1>3 DEF Tellable
<1> HIDE DEF e
<1>6. QED
  BY <1>2, <1>4, <1>5

(* An error of Postgres is not told by its text.                           *)
LEMMA PgMapped ==
    ASSUME NEW cause \in PrivateTexts
    PROVE  /\ PgMap(Plain(cause)) \in AppErrors
           /\ PgMap(Plain(cause)).code = PgCode(cause)
           /\ PgMap(Plain(cause)).cause = cause
           /\ PgCode(cause) \in PathCodes \cup {"ALREADY_EXISTS"}
           /\ Tellable(PgMap(Plain(cause)))
<1> DEFINE e == [code |-> PgCode(cause), reason |-> "", message |-> "", cause |-> cause,
                 fields |-> {}]
<1>1. PgCode(cause) \in PathCodes \cup {"ALREADY_EXISTS"}
  BY DEF PgCode, PathCodes
<1>2. PgMap(Plain(cause)) = e
  BY DEF PgMap, Plain, Caused, NoError, New
<1>3. PgCode(cause) \in Codes
  BY <1>1 DEF PathCodes, Codes, ServerErrors, ClientErrors
<1>4. "" \in Texts \ PrivateTexts /\ "" \in Reasons
  BY DEF Texts, Reasons, PrivateTexts
<1>5. e \in AppErrors
  BY <1>3, <1>4 DEF AppErrors, Texts
<1>6. e.code = PgCode(cause) /\ e.cause = cause /\ Tellable(e)
  BY <1>4 DEF Tellable
<1> HIDE DEF e
<1>7. QED
  BY <1>1, <1>2, <1>5, <1>6

(* A failed validation names its fields.                                   *)
LEMMA ValidationTold ==
    ASSUME NEW fields \in SUBSET Fields, fields # {}
    PROVE  /\ ValidationFailed(fields) \in AppErrors
           /\ ValidationFailed(fields).code = "INVALID_ARGUMENT"
           /\ Tellable(ValidationFailed(fields))
<1>1. "validation failed" \in Texts \ PrivateTexts
  BY DEF Texts, GivenTexts, PrivateTexts
<1>2. QED
  BY <1>1 DEF ValidationFailed, New, AppErrors, Tellable, Codes, ClientErrors, Reasons, Texts

(* The status of HTTP tells the kind of the code.                          *)
LEMMA HttpKinds ==
    ASSUME NEW code \in Codes
    PROVE  /\ HTTP(code) \in 400 .. 599
           /\ HTTP(code) = 499 <=> code = "CANCELED"
           /\ HTTP(code) >= 500 <=> code \in ServerErrors
           /\ Level(code) = "ERROR" <=> code \in ServerErrors
  BY DEF HTTP, Level, Codes, ServerErrors, ClientErrors

(* What a client is sent with an error.                                    *)
LEMMA RefuseTells ==
    ASSUME NEW c \in Calls, NEW e \in AppErrors, e.code # "", Tellable(e),
           DOMAIN response = Calls, gate \in [Calls -> {"idle", "waiting", "done"}],
           alarm \in [Calls -> BOOLEAN], Refuse(c, e)
    PROVE  /\ gate' = [gate EXCEPT ![c] = "done"]
           /\ DOMAIN response' = Calls
           /\ \A b \in Calls \ {c} : response'[b] = response[b] /\ alarm'[b] = alarm[b]
           /\ response'[c].status = HTTP(e.code) /\ response'[c].code = e.code
           /\ Tellable(response'[c])
           /\ alarm' \in [Calls -> BOOLEAN]
           /\ alarm'[c] => alarm[c] \/ e.code \in ServerErrors
<1> DEFINE body == Fail(e)
           told == [x \in DOMAIN NoResponse |->
                       IF x \in DOMAIN body THEN body[x] ELSE NoResponse[x]]
<1>1. /\ DOMAIN body = {"status", "code", "reason", "message", "fields"}
      /\ body.status = HTTP(e.code) /\ body.code = e.code /\ body.reason = e.reason
      /\ body.message = Public(e) /\ body.fields = e.fields
  BY DEF Fail, From
<1>2. e.code \in Codes
  BY DEF AppErrors
<1>3. PublicText(e.code) \notin PrivateTexts
  BY <1>2 DEF PublicText, Codes, ServerErrors, ClientErrors, PrivateTexts
<1>4. Public(e) \notin PrivateTexts
  BY <1>3 DEF Public, Tellable
<1>5. /\ response' = [response EXCEPT ![c] = told]
      /\ Log(c, body.code) /\ gate' = [gate EXCEPT ![c] = "done"]
  BY DEF Refuse
<1> HIDE DEF body
<1>6. /\ told.status = HTTP(e.code) /\ told.code = e.code
      /\ told.message = Public(e) /\ told.reason = e.reason
      /\ told.fields = e.fields
  <2>1. DOMAIN NoResponse = {"status", "code", "reason", "message", "fields", "total", "state"}
    BY DEF NoResponse
  <2>2. QED
    BY <1>1, <2>1
<1>7. Log(c, e.code)
  BY <1>1, <1>5
<1> HIDE DEF told
<1>8. /\ alarm' \in [Calls -> BOOLEAN]
      /\ \A b \in Calls \ {c} : alarm'[b] = alarm[b]
      /\ alarm'[c] => alarm[c] \/ e.code \in ServerErrors
  BY <1>2, <1>7, HttpKinds DEF Log
<1>9. /\ DOMAIN response' = Calls
      /\ \A b \in Calls \ {c} : response'[b] = response[b]
      /\ response'[c].status = HTTP(e.code) /\ response'[c].code = e.code
      /\ Tellable(response'[c])
  BY <1>4, <1>5, <1>6 DEF Tellable
<1>10. QED
  BY <1>5, <1>8, <1>9

-----------------------------------------------------------------------------
(* A call whose state a step leaves alone.                                 *)

Untouched(b) ==
    /\ http'[b] = http[b] /\ gate'[b] = gate[b] /\ away'[b] = away[b]
    /\ reply'[b] = reply[b] /\ held'[b] = held[b] /\ response'[b] = response[b]
    /\ alarm'[b] = alarm[b] /\ fault'[b] = fault[b]

OrderUntouched(b) ==
    /\ request'[b] = request[b] /\ stage'[b] = stage[b] /\ gone'[b] = gone[b]
    /\ failure'[b] = failure[b] /\ total'[b] = total[b] /\ answer'[b] = answer[b]
    /\ \A t \in Tables : b \in rows'[t] <=> b \in rows[t]

(* Whether a request is at fault depends on the request.                   *)
LEMMA FaultStays ==
    ASSUME NEW b \in Calls, http'[b] = http[b]
    PROVE  AtFault(b)' <=> AtFault(b)
  BY DEF AtFault, UserID, Violations, OtherSpelling, Oversized, Distinct, AllFound, Catalog,
         TotalAmount, Wrap, Sum, Valid

(* A reason stays: the request is the same, a fault is not undone.         *)
LEMMA JustifiedStays ==
    ASSUME NEW b \in Calls, http'[b] = http[b], fault[b] => fault'[b], NEW code,
           Justified(b, code)
    PROVE  Justified(b, code)'
  BY FaultStays DEF Justified

(* The error held, by a call whose state in the order service rests.       *)
LEMMA HeldStays ==
    ASSUME NEW b \in Calls, HeldJustified(b), OrderUntouched(b), http'[b] = http[b],
           fault[b] => fault'[b], held'[b] = held[b]
    PROVE  HeldJustified(b)'
  BY JustifiedStays DEF HeldJustified, OrderUntouched

(* What the client was told, by a call whose state there rests.            *)
LEMMA ToldStays ==
    ASSUME NEW b \in Calls, AnswerStays(b), ToldTruly(b), OrderUntouched(b),
           http'[b] = http[b], response'[b] = response[b]
    PROVE  AnswerStays(b)' /\ ToldTruly(b)'
  BY DEF AnswerStays, ToldTruly, OrderUntouched, Oversized, Stored

(* The whole invariant of a call that the step leaves alone.               *)
LEMMA Frame ==
    ASSUME NEW b \in Calls, CallInv(b), Untouched(b), OrderUntouched(b)
    PROVE  CallInv(b)'
<1> USE DEF Untouched, OrderUntouched
<1>1. OrderFollows(b)'
  BY DEF CallInv, OrderFollows
<1>2. RepliesJustified(b)' /\ HeldJustified(b)'
  BY JustifiedStays DEF CallInv, RepliesJustified, HeldJustified
<1>3. AnswerStays(b)' /\ ToldTruly(b)'
  BY DEF CallInv, AnswerStays, ToldTruly, Stored
<1>4. BlamedRightly(b)' /\ Tellable(response[b])'
  BY FaultStays DEF CallInv, BlamedRightly, Tellable
<1>5. QED
  BY <1>1, <1>2, <1>3, <1>4 DEF CallInv

(* A step of OrderService for one call leaves the others alone.            *)
LEMMA OthersUntouched ==
    ASSUME OrderTypeOK, NEW c \in Calls,
           \/ \E items \in Requests : Receive(c, items)
           \/ CallerGone(c)
           \/ \E d \in Dependencies : Answer(c, d)
           \/ Resolved(c)
           \/ Begin(c) \/ InsertOrder(c) \/ RefuseOrder(c) \/ InsertItems(c) \/ SaveEvent(c)
           \/ Commit(c) \/ CommitUnacknowledged(c) \/ TxFails(c),
           NEW b \in Calls \ {c}
    PROVE  OrderUntouched(b)
<1> USE DEF OrderTypeOK, OrderUntouched, Advance
<1>1. CASE \E items \in Requests : Receive(c, items)
  BY <1>1 DEF Receive, Validated, End
<1>2. CASE CallerGone(c) \/ \E d \in Dependencies : Answer(c, d)
  BY <1>2 DEF CallerGone, Answer, Answered, Lookup
<1>3. CASE Resolved(c)
  <2>1. \A t \in Tables : b \in rows'[t] <=> b \in rows[t]
    BY <1>3 DEF Resolved
  <2>2. request'[b] = request[b] /\ gone'[b] = gone[b] /\ failure'[b] = failure[b]
    BY <1>3 DEF Resolved, Forget
  <2>3. stage'[b] = stage[b] /\ answer'[b] = answer[b]
    BY <1>3 DEF Resolved, End
  <2>4. total'[b] = total[b]
    <3>1. \/ UNCHANGED total
          \/ total' = [total EXCEPT ![c] = TotalAmount(request[c])]
      BY <1>3 DEF Resolved
    <3>2. QED
      BY <3>1
  <2>5. QED
    BY <2>1, <2>2, <2>3, <2>4
<1>4. CASE Begin(c) \/ InsertOrder(c) \/ InsertItems(c) \/ SaveEvent(c)
  BY <1>4 DEF Begin, InsertOrder, InsertItems, SaveEvent, Insert
<1>5. CASE RefuseOrder(c) \/ TxFails(c)
  BY <1>5 DEF RefuseOrder, TxFails, End
<1>6. CASE Commit(c) \/ CommitUnacknowledged(c)
  <2>1. PICK result : End(c, result)
    BY <1>6 DEF Commit, CommitUnacknowledged
  <2>2. stage'[b] = stage[b] /\ answer'[b] = answer[b]
    BY <2>1 DEF End
  <2>3. Apply(c) /\ UNCHANGED <<request, gone, lookup, failure, total>>
    BY <1>6 DEF Commit, CommitUnacknowledged
  <2>4. \A t \in Tables : b \in rows'[t] <=> b \in rows[t]
    BY <2>3 DEF Apply
  <2>5. QED
    BY <2>2, <2>3, <2>4
<1>7. QED
  BY <1>1, <1>2, <1>3, <1>4, <1>5, <1>6

-----------------------------------------------------------------------------
(* The steps of the order service are those of OrderService.               *)

(* What the order service works on is one of the requests it is known to   *)
(* accept.                                                                 *)
LEMMA ReceivesAsOrder ==
    ASSUME PathTypeOK, NEW c \in Calls, OrderReceives(c)
    PROVE  /\ http[c].items \in Requests
           /\ Receive(c, http[c].items)
<1>1. http[c] \in HttpRequests
  <2>1. http[c] \in HttpRequests \cup {NoRequest}
    BY DEF PathTypeOK
  <2>2. http[c].json /\ ~NoRequest.json
    BY DEF OrderReceives, NoRequest
  <2>3. QED
    BY <2>1, <2>2
<1>2. http[c].items \in Requests
  BY <1>1, HttpRequestsAssumption DEF OrderReceives
<1>3. Valid(http[c].items)
  BY DEF OrderReceives, Violations
<1>4. PICK uuids \in BOOLEAN : uuids = (UserID(c) # NoUuid)
  OBVIOUS
<1>5. Validated(c, http[c].items, uuids /\ Valid(http[c].items))
  BY <1>3, <1>4 DEF OrderReceives
<1>6. QED
  BY <1>2, <1>5 DEF Receive

(* The end of a lookup is an answer of OrderService, whatever the status.  *)
LEMMA LookupAsOrder ==
    ASSUME NEW c \in Calls, NEW d \in Dependencies, NEW s, LookupEnds(c, d, s)
    PROVE  Answer(c, d)
<1>1. PICK outcome : Answered(c, d, outcome)
  BY DEF LookupEnds
<1>2. outcome \in {"ok"} \cup Errors
  BY <1>1, OutcomeTypes DEF Answered
<1>3. QED
  BY <1>1, <1>2 DEF Answer

(* The goroutine of a call takes the steps of OrderService.                *)
LEMMA WorkAsOrder ==
    ASSUME NEW c \in Calls, OrderWorks(c)
    PROVE  \/ Resolved(c) \/ Begin(c) \/ InsertOrder(c) \/ RefuseOrder(c) \/ InsertItems(c)
           \/ SaveEvent(c) \/ Commit(c)
  BY DEF OrderWorks

(* The steps of PathNext, and what each is in OrderService.                *)
OrderStep(c) ==
    \/ \E items \in Requests : Receive(c, items)
    \/ CallerGone(c)
    \/ \E d \in Dependencies : Answer(c, d)
    \/ Resolved(c)
    \/ Begin(c) \/ InsertOrder(c) \/ RefuseOrder(c) \/ InsertItems(c) \/ SaveEvent(c)
    \/ Commit(c) \/ CommitUnacknowledged(c) \/ TxFails(c)

(* Every step of this half of the path is one of them.                     *)
LEMMA StepsOfOrder ==
    ASSUME PathTypeOK, NEW c \in Calls,
           \/ OrderReceives(c) \/ OrderCancelled(c) \/ OrderWorks(c) \/ StoreFails(c)
           \/ \E d \in Dependencies :
                  LookupAnswered(c, d) \/ LookupCancelled(c, d) \/ LookupBreaks(c, d)
    PROVE  OrderStep(c)
<1>1. CASE OrderReceives(c)
  BY <1>1, ReceivesAsOrder DEF OrderStep
<1>2. CASE OrderCancelled(c)
  BY <1>2 DEF OrderCancelled, OrderStep
<1>3. CASE OrderWorks(c)
  BY <1>3, WorkAsOrder DEF OrderStep
<1>4. CASE StoreFails(c)
  BY <1>4 DEF StoreFails, OrderStep
<1>5. ASSUME NEW d \in Dependencies,
             LookupAnswered(c, d) \/ LookupCancelled(c, d) \/ LookupBreaks(c, d)
      PROVE  OrderStep(c)
  BY <1>5, LookupAsOrder DEF LookupAnswered, LookupCancelled, LookupBreaks, OrderStep
<1>6. QED
  BY <1>1, <1>2, <1>3, <1>4, <1>5

(* And each of them is a step of OrderNext.                                *)
LEMMA StepIsNext ==
    ASSUME NEW c \in Calls, OrderStep(c)
    PROVE  OrderNext
  BY DEF OrderStep, OrderNext, TxStep

(* A step for one call leaves the others alone.                            *)
LEMMA StepTouchesOne ==
    ASSUME OrderTypeOK, NEW c \in Calls, OrderStep(c), NEW b \in Calls \ {c}
    PROVE  OrderUntouched(b)
  BY OthersUntouched DEF OrderStep

(* Every step of the path is a step of the order service or leaves its     *)
(* state alone.                                                            *)
LEMMA PathRefinesOrder ==
    PathTypeOK /\ [PathNext]_vars => [OrderNext]_ovars
<1> SUFFICES ASSUME PathTypeOK, [PathNext]_vars PROVE [OrderNext]_ovars
  OBVIOUS
<1>1. ASSUME NEW c \in Calls,
             \/ OrderReceives(c) \/ OrderCancelled(c) \/ OrderWorks(c) \/ StoreFails(c)
             \/ \E d \in Dependencies :
                    LookupAnswered(c, d) \/ LookupCancelled(c, d) \/ LookupBreaks(c, d)
      PROVE  OrderNext
  BY <1>1, StepsOfOrder, StepIsNext
<1>2. ASSUME NEW c \in Calls,
             \/ \E r \in HttpRequests : Arrive(c, r)
             \/ ClientLeaves(c) \/ OrderReplies(c) \/ CallCancelled(c) \/ CallBreaks(c)
             \/ \E d \in Dependencies : Serve(c, d)
      PROVE  UNCHANGED ovars
  BY <1>2 DEF Arrive, ClientLeaves, OrderReplies, CallCancelled, CallBreaks, Serve
<1>3. CASE GatewayDies
  BY <1>3 DEF GatewayDies
<1>4. CASE OrderDies
  BY <1>4 DEF OrderDies, OrderNext
<1>5. CASE UNCHANGED vars
  BY <1>5 DEF vars
<1>6. QED
  BY <1>1, <1>2, <1>3, <1>4, <1>5 DEF PathNext

-----------------------------------------------------------------------------
(* The steps of the gateway.                                               *)

PathTypes ==
    /\ http  \in [Calls -> HttpRequests \cup {NoRequest}]
    /\ gate  \in [Calls -> {"idle", "waiting", "done"}]
    /\ away  \in [Calls -> BOOLEAN]
    /\ reply \in [Calls -> [Dependencies -> Statuses]]
    /\ held  \in [Calls -> AppErrors]
    /\ DOMAIN response = Calls
    /\ \A c \in Calls : response[c].status \in {0, 201} \cup {HTTP(code) : code \in Codes}
    /\ alarm \in [Calls -> BOOLEAN]
    /\ fault \in [Calls -> BOOLEAN]

(* The type invariant without that of the order service.                   *)
LEMMA TypesSplit ==
    /\ PathTypeOK <=> OrderTypeOK /\ PathTypes
    /\ PathTypeOK' <=> OrderTypeOK' /\ PathTypes'
  BY DEF PathTypeOK, PathTypes

(* An invariant of every call needs only be shown for the one that moves.  *)
LEMMA OneMoves ==
    ASSUME \A b \in Calls : CallInv(b), NEW c \in Calls, CallInv(c)',
           \A b \in Calls \ {c} : Untouched(b) /\ OrderUntouched(b)
    PROVE  \A b \in Calls : CallInv(b)'
  BY Frame

(* The state of the order service, when the step is one of the gateway.    *)
LEMMA OrderRests ==
    ASSUME UNCHANGED ovars
    PROVE  \A b \in Calls : OrderUntouched(b)
  BY DEF ovars, call, OrderUntouched

(* A call of the gateway that is refused: its part of the invariant rests  *)
(* on why the error is justified.                                          *)
LEMMA RefusedInv ==
    ASSUME PathInv, NEW c \in Calls, NEW e \in AppErrors, e.code \in Codes, Tellable(e),
           Refuse(c, e), UNCHANGED <<ovars, away, reply, held>>,
           gate[c] = "waiting", http' = http, fault' \in [Calls -> BOOLEAN],
           fault[c] => fault'[c],
           e.code \in ClientErrors \ {"CANCELED"} => AtFault(c),
           e.code \in ClientErrors \ {"CANCELED"} =>
              \/ Oversized(http[c])
              \/ stage[c] = "ended" /\ \A t \in Tables : c \notin rows[t],
           e.code = "CANCELED" => away[c],
           e.code \in ServerErrors => fault'[c],
           \A b \in Calls \ {c} : fault'[b] = fault[b]
    PROVE  PathTypes' /\ \A b \in Calls : CallInv(b)'
<1>0. e.code # "" /\ OrderTypeOK /\ PathTypes /\ \A b \in Calls : CallInv(b)
  BY TypesSplit DEF PathInv, Codes, ServerErrors, ClientErrors
<1>1. /\ gate' = [gate EXCEPT ![c] = "done"]
      /\ DOMAIN response' = Calls
      /\ \A b \in Calls \ {c} : response'[b] = response[b] /\ alarm'[b] = alarm[b]
      /\ response'[c].status = HTTP(e.code) /\ response'[c].code = e.code
      /\ Tellable(response'[c])
      /\ alarm' \in [Calls -> BOOLEAN]
      /\ alarm'[c] => alarm[c] \/ e.code \in ServerErrors
  BY <1>0, RefuseTells DEF PathTypes
<1>2. PathTypes'
  <2>1. ASSUME NEW b \in Calls
        PROVE  response'[b].status \in {0, 201} \cup {HTTP(code) : code \in Codes}
    <3>1. CASE b = c
      BY <1>1, <3>1
    <3>2. CASE b # c
      BY <1>0, <1>1, <3>2 DEF PathTypes
    <3>3. QED
      BY <3>1, <3>2
  <2>2. QED
    BY <1>0, <1>1, <2>1 DEF PathTypes
<1>3. /\ HTTP(e.code) \in 400 .. 599
      /\ HTTP(e.code) = 499 <=> e.code = "CANCELED"
      /\ HTTP(e.code) >= 500 <=> e.code \in ServerErrors
  BY HttpKinds
<1>4. HTTP(e.code) \in 400 .. 498 <=> e.code \in ClientErrors \ {"CANCELED"}
  BY <1>3 DEF Codes, ServerErrors, ClientErrors
<1>5. OrderUntouched(c) /\ http'[c] = http[c] /\ reply'[c] = reply[c] /\ held'[c] = held[c]
      /\ away'[c] = away[c] /\ gate'[c] = "done"
  BY <1>0, <1>1, OrderRests DEF PathTypes
<1>6. OrderFollows(c)'
  BY <1>0, <1>5 DEF CallInv, OrderFollows, OrderUntouched
<1>7. RepliesJustified(c)' /\ HeldJustified(c)'
  BY <1>0, <1>5, JustifiedStays DEF CallInv, RepliesJustified, HeldJustified, OrderUntouched
<1>8. AnswerStays(c)' /\ ToldTruly(c)'
  <2>1. response'[c].status # 201
    BY <1>1, <1>3
  <2>2. response'[c].status \in 400 .. 498 => e.code \in ClientErrors \ {"CANCELED"}
    BY <1>1, <1>4
  <2>3. Oversized(http[c])' <=> Oversized(http[c])
    BY DEF Oversized
  <2>4. stage'[c] = stage[c] /\ \A t \in Tables : c \in rows'[t] <=> c \in rows[t]
    BY <1>5 DEF OrderUntouched
  <2>5. QED
    BY <2>1, <2>2, <2>3, <2>4 DEF AnswerStays, ToldTruly
<1>9. BlamedRightly(c)'
  <2>1. response'[c].status \in 400 .. 498 => AtFault(c)'
    BY <1>1, <1>4, FaultStays
  <2>2. response'[c].status = 499 => away'[c]
    BY <1>1, <1>3, <1>5
  <2>3. response'[c].status >= 500 => fault'[c]
    BY <1>1, <1>3
  <2>4. alarm'[c] => fault'[c]
    BY <1>0, <1>1 DEF CallInv, BlamedRightly
  <2>5. QED
    BY <2>1, <2>2, <2>3, <2>4 DEF BlamedRightly
<1>10. CallInv(c)'
  BY <1>1, <1>6, <1>7, <1>8, <1>9 DEF CallInv, Tellable
<1>11. \A b \in Calls \ {c} : Untouched(b) /\ OrderUntouched(b)
  BY <1>0, <1>1, OrderRests DEF Untouched, PathTypes
<1>12. QED
  BY <1>0, <1>2, <1>10, <1>11, OneMoves

(* What Arrive tells a client it refuses.                                  *)
LEMMA Refusable ==
    ASSUME NEW r, NEW err \in Bind(r), err # NoError
    PROVE  /\ err \in AppErrors /\ err.code = "INVALID_ARGUMENT" /\ Tellable(err)
           /\ ~r.json \/ Violations(r) # {} \/ OtherSpelling(r)
<1>1. CASE ~r.json
  <2>1. err = InvalidRequestBody
    BY <1>1 DEF Bind
  <2>2. "invalid request body" \in Texts \ PrivateTexts /\ "" \in Texts
    BY DEF Texts, GivenTexts, PrivateTexts
  <2>3. QED
    BY <1>1, <2>1, <2>2
       DEF InvalidRequestBody, New, AppErrors, Tellable, Codes, ClientErrors, Reasons
<1>2. CASE r.json
  <2>1. PICK fields \in Refusals(r) : err = OzzoMap(fields)
    BY <1>2 DEF Bind
  <2>2. fields \in SUBSET Fields
    BY <2>1 DEF Refusals, Violations, Fields
  <2>3. fields # {} /\ err = ValidationFailed(fields)
    BY <2>1 DEF OzzoMap
  <2>4. Violations(r) # {} \/ OtherSpelling(r)
    BY <2>1, <2>3 DEF Refusals
  <2>5. QED
    BY <2>2, <2>3, <2>4, ValidationTold
<1>3. QED
  BY <1>1, <1>2

(* A request arrives: refused for what is wrong with it, or sent on.       *)
LEMMA ArriveInv ==
    ASSUME PathInv, NEW c \in Calls, NEW r \in HttpRequests, Arrive(c, r)
    PROVE  PathTypes' /\ \A b \in Calls : CallInv(b)'
<1>0. OrderTypeOK /\ OpenIsNotStored /\ PathTypes /\ \A b \in Calls : CallInv(b)
  BY TypesSplit DEF PathInv, OrderInv
<1>1. /\ gate[c] = "idle" /\ stage[c] = "none" /\ response[c] = NoResponse
      /\ http' = [http EXCEPT ![c] = r]
      /\ UNCHANGED <<ovars, away, reply, held, fault>>
      /\ OrderUntouched(c)
  BY <1>0, OrderRests DEF Arrive, CallInv, OrderFollows
<1>2. /\ held[c] = NoError /\ failure[c] = None /\ ~gone[c]
      /\ \A d \in Dependencies : reply[c][d] = NoStatus
      /\ \A t \in Tables : c \notin rows[t]
      /\ alarm[c] => fault[c]
  BY <1>0, <1>1 DEF CallInv, OrderFollows, OpenIsNotStored, BlamedRightly
<1>3. OrderFollows(c)' <=> (gate'[c] = "idle" => response'[c] = NoResponse)
  BY <1>0, <1>1, <1>2 DEF OrderFollows, OrderUntouched, TxStages
<1>4. RepliesJustified(c)' /\ HeldJustified(c)'
  <2>1. RepliesJustified(c)'
    BY <1>1, <1>2 DEF RepliesJustified
  <2>2. held'[c].code = "" /\ stage'[c] = "none"
    <3>1. NoError.code = ""
      BY DEF NoError, New
    <3>2. QED
      BY <1>1, <1>2, <3>1 DEF OrderUntouched
  <2>3. QED
    BY <2>1, <2>2 DEF HeldJustified
<1>5. ASSUME NEW err \in Bind(r), err # NoError, Refuse(c, err)
      PROVE  PathTypes' /\ \A b \in Calls : CallInv(b)'
  <2>1. /\ err \in AppErrors /\ err.code = "INVALID_ARGUMENT" /\ Tellable(err)
        /\ ~r.json \/ Violations(r) # {} \/ OtherSpelling(r)
    BY <1>5, Refusable
  <2>2. /\ gate' = [gate EXCEPT ![c] = "done"]
        /\ DOMAIN response' = Calls
        /\ \A b \in Calls \ {c} : response'[b] = response[b] /\ alarm'[b] = alarm[b]
        /\ response'[c].status = HTTP(err.code) /\ response'[c].code = err.code
        /\ Tellable(response'[c])
        /\ alarm' \in [Calls -> BOOLEAN]
        /\ alarm'[c] => alarm[c] \/ err.code \in ServerErrors
    BY <1>0, <1>5, <2>1, RefuseTells DEF PathTypes
  <2>3. HTTP(err.code) = 400 /\ err.code \notin ServerErrors /\ err.code \in Codes
    BY <2>1 DEF HTTP, Codes, ServerErrors, ClientErrors
  <2>4. PathTypes'
    <3>1. ASSUME NEW b \in Calls
          PROVE  response'[b].status \in {0, 201} \cup {HTTP(code) : code \in Codes}
      <4>1. CASE b = c
        BY <2>2, <2>3, <4>1
      <4>2. CASE b # c
        BY <1>0, <2>2, <4>2 DEF PathTypes
      <4>3. QED
        BY <4>1, <4>2
    <3>2. QED
      BY <1>0, <1>1, <2>2, <3>1 DEF PathTypes
  <2>5. http'[c] = r /\ gate'[c] = "done"
    BY <1>0, <1>1, <2>2 DEF PathTypes
  <2>6. AtFault(c)'
    BY <2>1, <2>5 DEF AtFault
  <2>7. AnswerStays(c)' /\ ToldTruly(c)' /\ BlamedRightly(c)'
    BY <1>1, <1>2, <2>1, <2>2, <2>3, <2>6
       DEF AnswerStays, ToldTruly, BlamedRightly, OrderUntouched
  <2>8. OrderFollows(c)'
    BY <1>3, <2>5
  <2>9. CallInv(c)'
    BY <1>4, <2>2, <2>7, <2>8 DEF CallInv, Tellable
  <2>10. \A b \in Calls \ {c} : Untouched(b) /\ OrderUntouched(b)
    BY <1>0, <1>1, <2>2, OrderRests DEF Untouched, PathTypes
  <2>11. QED
    BY <1>0, <2>4, <2>9, <2>10, OneMoves
<1>6. CASE gate' = [gate EXCEPT ![c] = "waiting"] /\ UNCHANGED <<response, alarm>>
  <2>1. PathTypes'
    BY <1>0, <1>1, <1>6 DEF PathTypes
  <2>2. gate'[c] = "waiting" /\ response'[c] = NoResponse
    BY <1>0, <1>1, <1>6 DEF PathTypes
  <2>3. NoResponse.status = 0 /\ Tellable(NoResponse)
    BY DEF NoResponse, Tellable, PrivateTexts
  <2>4. AnswerStays(c)' /\ ToldTruly(c)' /\ BlamedRightly(c)'
    BY <1>1, <1>2, <1>6, <2>2, <2>3 DEF AnswerStays, ToldTruly, BlamedRightly
  <2>5. CallInv(c)'
    BY <1>3, <1>4, <2>2, <2>3, <2>4 DEF CallInv, Tellable
  <2>6. \A b \in Calls \ {c} : Untouched(b) /\ OrderUntouched(b)
    BY <1>0, <1>1, <1>6, OrderRests DEF Untouched, PathTypes
  <2>7. QED
    BY <1>0, <2>1, <2>5, <2>6, OneMoves
<1>7. QED
  BY <1>5, <1>6 DEF Arrive

(* The client leaves.                                                      *)
LEMMA ClientLeavesInv ==
    ASSUME PathInv, NEW c \in Calls, ClientLeaves(c)
    PROVE  PathTypes' /\ \A b \in Calls : CallInv(b)'
<1>0. OrderTypeOK /\ PathTypes /\ \A b \in Calls : CallInv(b)
  BY TypesSplit DEF PathInv
<1>1. /\ gate[c] = "waiting" /\ away' = [away EXCEPT ![c] = TRUE]
      /\ UNCHANGED <<ovars, http, gate, reply, held, response, alarm, fault>>
      /\ OrderUntouched(c)
  BY OrderRests DEF ClientLeaves
<1>2. PathTypes'
  BY <1>0, <1>1 DEF PathTypes
<1>3. OrderFollows(c)'
  BY <1>0, <1>1 DEF CallInv, OrderFollows, OrderUntouched
<1>4. RepliesJustified(c)' /\ HeldJustified(c)'
  BY <1>0, <1>1, JustifiedStays DEF CallInv, RepliesJustified, HeldJustified, OrderUntouched
<1>5. AnswerStays(c)' /\ ToldTruly(c)'
  BY <1>0, <1>1 DEF CallInv, AnswerStays, ToldTruly, OrderUntouched, Oversized, Stored
<1>6. BlamedRightly(c)'
  BY <1>0, <1>1, FaultStays DEF CallInv, BlamedRightly, PathTypes
<1>7. CallInv(c)'
  BY <1>0, <1>1, <1>3, <1>4, <1>5, <1>6 DEF CallInv, Tellable
<1>8. \A b \in Calls \ {c} : Untouched(b) /\ OrderUntouched(b)
  BY <1>0, <1>1, OrderRests DEF Untouched, PathTypes
<1>9. QED
  BY <1>0, <1>2, <1>7, <1>8, OneMoves

(* The order a client is shown is the one that was stored.                 *)
LEMMA CreatedShows ==
    ASSUME NEW c
    PROVE  /\ Created(c).status = 201 /\ Created(c).total = total[c]
           /\ Created(c).state = "created" /\ Tellable(Created(c))
<1>1. DOMAIN OrderStates = 1 .. 9 /\ \A i \in 1 .. 9 : OrderStates[i] = "created" <=> i = 1
  BY DEF OrderStates
<1>2. StatusToProto("created") = 1
  BY <1>1 DEF StatusToProto
<1>3. StatusFromProto(1) = "created"
  BY <1>1 DEF StatusFromProto
<1>4. /\ ProtoToOrder(OrderToProto(c)).total = total[c]
      /\ ProtoToOrder(OrderToProto(c)).state = "created"
  BY <1>2, <1>3 DEF ProtoToOrder, OrderToProto
<1>5. /\ Created(c).status = 201 /\ Created(c).total = total[c] /\ Created(c).state = "created"
      /\ Created(c).message = "" /\ Created(c).reason = ""
  BY <1>4 DEF Created, NoResponse
<1>6. "" \notin PrivateTexts
  BY DEF PrivateTexts
<1>7. QED
  BY <1>5, <1>6 DEF Tellable

(* The client is shown the order: it is stored.                            *)
LEMMA ShownInv ==
    ASSUME PathInv, NEW c \in Calls, gate[c] = "waiting", stage[c] = "ended", answer[c] = "OK",
           gate' = [gate EXCEPT ![c] = "done"],
           response' = [response EXCEPT ![c] = Created(c)],
           UNCHANGED <<ovars, http, away, reply, held, alarm, fault>>
    PROVE  PathTypes' /\ \A b \in Calls : CallInv(b)'
<1>0. /\ OrderTypeOK /\ PathTypes /\ \A b \in Calls : CallInv(b)
      /\ Stored(c) /\ OrderUntouched(c)
  BY TypesSplit, OrderRests DEF PathInv, OrderInv, ConfirmedIsStored, Stored
<1>1. gate'[c] = "done" /\ response'[c] = Created(c)
  BY <1>0 DEF PathTypes
<1>2. PathTypes'
  <2>1. ASSUME NEW b \in Calls
        PROVE  response'[b].status \in {0, 201} \cup {HTTP(code) : code \in Codes}
    <3>1. CASE b = c
      BY <1>1, <3>1, CreatedShows
    <3>2. CASE b # c
      BY <1>0, <3>2 DEF PathTypes
    <3>3. QED
      BY <3>1, <3>2
  <2>2. QED
    BY <1>0, <2>1 DEF PathTypes
<1>3. OrderFollows(c)'
  BY <1>0, <1>1 DEF CallInv, OrderFollows, OrderUntouched
<1>4. RepliesJustified(c)' /\ HeldJustified(c)'
  BY <1>0, JustifiedStays DEF CallInv, RepliesJustified, HeldJustified, OrderUntouched
<1>5. AnswerStays(c)' /\ ToldTruly(c)'
  BY <1>0, <1>1, CreatedShows DEF AnswerStays, ToldTruly, OrderUntouched, Stored
<1>6. BlamedRightly(c)'
  BY <1>0, <1>1, CreatedShows DEF CallInv, BlamedRightly
<1>7. CallInv(c)'
  BY <1>1, <1>3, <1>4, <1>5, <1>6, CreatedShows DEF CallInv, Tellable
<1>8. \A b \in Calls \ {c} : Untouched(b) /\ OrderUntouched(b)
  BY <1>0, OrderRests DEF Untouched, PathTypes
<1>9. QED
  BY <1>0, <1>2, <1>7, <1>8, OneMoves

(* The answer of the order service: an order, or the error it held.        *)
LEMMA OrderRepliesInv ==
    ASSUME PathInv, NEW c \in Calls, OrderReplies(c)
    PROVE  PathTypes' /\ \A b \in Calls : CallInv(b)'
<1>0. /\ OrderTypeOK /\ PathTypes /\ \A b \in Calls : CallInv(b)
      /\ RefusedIsNotStored /\ CanceledOnlyIfGone
  BY TypesSplit DEF PathInv, OrderInv
<1>1. /\ gate[c] = "waiting" /\ stage[c] = "ended" /\ answer[c] # "LOST"
      /\ UNCHANGED <<ovars, http, away, reply, held, fault>>
  BY DEF OrderReplies
<1>2. CASE /\ answer[c] = "OK"
           /\ gate' = [gate EXCEPT ![c] = "done"]
           /\ response' = [response EXCEPT ![c] = Created(c)]
           /\ UNCHANGED alarm
  BY <1>1, <1>2, ShownInv
<1>3. CASE Oversized(http[c]) /\ Refuse(c, GrpcMap(Raw("RESOURCE_EXHAUSTED")))
  <2> DEFINE e == GrpcMap(Raw("RESOURCE_EXHAUSTED"))
  <2>1. /\ "RESOURCE_EXHAUSTED" \in Codes \cap (ClientErrors \ {"CANCELED"})
        /\ "RESOURCE_EXHAUSTED" \notin ServerErrors
    BY DEF Codes, ServerErrors, ClientErrors
  <2>2. e \in AppErrors /\ e.code = "RESOURCE_EXHAUSTED" /\ Tellable(e)
    BY <2>1, RawMapped
  <2>3. AtFault(c)
    BY <1>3 DEF AtFault
  <2>4. Refuse(c, e)
    BY <1>3
  <2> HIDE DEF e
  <2>5. fault' \in [Calls -> BOOLEAN] /\ http' = http /\ fault' = fault
    BY <1>0, <1>1 DEF PathTypes
  <2>6. QED
    BY <1>1, <1>3, <2>1, <2>2, <2>3, <2>4, <2>5, RefusedInv
<1>4. CASE answer[c] # "OK" /\ Refuse(c, GrpcMap(Status(held[c])))
  <2> DEFINE e == GrpcMap(Status(held[c]))
  <2>1. answer[c] \in Errors
    BY <1>0, <1>1, <1>4 DEF CallInv, HeldJustified, OrderTypeOK, Answers
  <2>2. /\ held[c] \in AppErrors /\ held[c].code # ""
        /\ Justified(c, held[c].code) /\ Tellable(held[c])
        /\ held[c].code \in {"INVALID_ARGUMENT", "NOT_FOUND", "CANCELED"} =>
              answer[c] = held[c].code
    BY <1>0, <1>1, <2>1 DEF CallInv, HeldJustified, PathTypes
  <2>3. /\ Status(held[c]) \in Statuses /\ Status(held[c]).info = held[c].code
        /\ Tellable(Status(held[c]))
    BY <2>2, StatusKeeps
  <2>4. e \in AppErrors /\ e.code = held[c].code /\ Tellable(e)
    BY <2>2, <2>3, MapKeeps
  <2>5. Refuse(c, e)
    BY <1>4
  <2> HIDE DEF e
  <2>6. /\ e.code \in Codes
        /\ e.code \in ClientErrors \ {"CANCELED"} => e.code \in {"INVALID_ARGUMENT", "NOT_FOUND"}
    BY <2>2, <2>4 DEF Justified, PathCodes, Codes, ServerErrors, ClientErrors
  <2>7. e.code \in ClientErrors \ {"CANCELED"} =>
            AtFault(c) /\ \A t \in Tables : c \notin rows[t]
    BY <1>0, <2>2, <2>4, <2>6 DEF Justified, RefusedIsNotStored
  <2>8. e.code # "CANCELED"
    BY <1>0, <1>1, <2>2, <2>4 DEF CanceledOnlyIfGone, CallInv, OrderFollows
  <2>9. e.code \in ServerErrors => fault[c]
    BY <2>2, <2>4 DEF Justified
  <2>10. fault' \in [Calls -> BOOLEAN] /\ http' = http /\ fault' = fault
    BY <1>0, <1>1 DEF PathTypes
  <2>11. QED
    BY <1>1, <2>4, <2>5, <2>6, <2>7, <2>8, <2>9, <2>10, RefusedInv
<1>5. QED
  BY <1>2, <1>3, <1>4 DEF OrderReplies

(* The call of the gateway is cancelled or its connection breaks.          *)
LEMMA CallEndsInv ==
    ASSUME PathInv, NEW c \in Calls, CallCancelled(c) \/ CallBreaks(c)
    PROVE  PathTypes' /\ \A b \in Calls : CallInv(b)'
<1>0. PathTypes
  BY TypesSplit DEF PathInv
<1>1. /\ "CANCELED" \in Codes \ ServerErrors
      /\ "UNAVAILABLE" \in ServerErrors \ ClientErrors /\ "UNAVAILABLE" \in Codes
  BY DEF Codes, ServerErrors, ClientErrors
<1>2. CASE CallCancelled(c)
  <2> DEFINE e == GrpcMap(Raw("CANCELED"))
  <2>1. e \in AppErrors /\ e.code = "CANCELED" /\ Tellable(e)
    BY <1>1, RawMapped
  <2>2. Refuse(c, e) /\ gate[c] = "waiting" /\ away[c]
    BY <1>2 DEF CallCancelled
  <2> HIDE DEF e
  <2>3. UNCHANGED <<ovars, away, reply, held, http, fault>> /\ fault' \in [Calls -> BOOLEAN]
    BY <1>0, <1>2 DEF CallCancelled, PathTypes
  <2>4. QED
    BY <1>1, <2>1, <2>2, <2>3, RefusedInv
<1>3. CASE CallBreaks(c)
  <2> DEFINE e == GrpcMap(Raw("UNAVAILABLE"))
  <2>1. e \in AppErrors /\ e.code = "UNAVAILABLE" /\ Tellable(e)
    BY <1>1, RawMapped
  <2>2. Refuse(c, e) /\ gate[c] = "waiting"
    BY <1>3 DEF CallBreaks
  <2> HIDE DEF e
  <2>3. /\ UNCHANGED <<ovars, away, reply, held, http>> /\ fault' \in [Calls -> BOOLEAN]
        /\ fault'[c] /\ \A b \in Calls \ {c} : fault'[b] = fault[b]
    BY <1>0, <1>3 DEF CallBreaks, Hurt, PathTypes
  <2>4. QED
    BY <1>1, <2>1, <2>2, <2>3, RefusedInv
<1>4. QED
  BY <1>2, <1>3

(* The gateway dies: nobody is told anything.                              *)
LEMMA GatewayDiesInv ==
    ASSUME PathInv, GatewayDies
    PROVE  PathTypes' /\ \A b \in Calls : CallInv(b)'
<1>0. OrderTypeOK /\ PathTypes /\ \A b \in Calls : CallInv(b)
  BY TypesSplit DEF PathInv
<1>1. /\ gate' = [c \in Calls |-> IF gate[c] = "waiting" THEN "done" ELSE gate[c]]
      /\ fault' = [c \in Calls |-> fault[c] \/ gate[c] = "waiting"]
      /\ UNCHANGED <<ovars, http, away, reply, held, response, alarm>>
  BY DEF GatewayDies
<1>2. PathTypes'
  BY <1>0, <1>1 DEF PathTypes
<1>3. ASSUME NEW c \in Calls PROVE CallInv(c)'
  <2>1. /\ OrderUntouched(c) /\ http'[c] = http[c] /\ reply'[c] = reply[c] /\ held'[c] = held[c]
        /\ away'[c] = away[c] /\ response'[c] = response[c] /\ alarm'[c] = alarm[c]
        /\ fault[c] => fault'[c]
        /\ gate'[c] = "idle" => gate[c] = "idle"
        /\ gate[c] = "done" => gate'[c] = "done"
    BY <1>0, <1>1, OrderRests DEF PathTypes
  <2>2. OrderFollows(c)'
    BY <1>0, <2>1 DEF CallInv, OrderFollows, OrderUntouched
  <2>3. RepliesJustified(c)' /\ HeldJustified(c)'
    BY <1>0, <2>1, JustifiedStays DEF CallInv, RepliesJustified, HeldJustified, OrderUntouched
  <2>4. AnswerStays(c)' /\ ToldTruly(c)'
    BY <1>0, <2>1 DEF CallInv, AnswerStays, ToldTruly, OrderUntouched, Oversized, Stored
  <2>5. BlamedRightly(c)'
    BY <1>0, <2>1, FaultStays DEF CallInv, BlamedRightly
  <2>6. QED
    BY <1>0, <2>1, <2>2, <2>3, <2>4, <2>5 DEF CallInv, Tellable
<1>4. QED
  BY <1>2, <1>3

-----------------------------------------------------------------------------
(* The steps of the order service and of the services behind it.           *)

(* The client has been told nothing that a later step could make untrue.   *)
Unanswered(c) ==
    /\ response[c].status # 201
    /\ response[c].status \in 400 .. 498 => Oversized(http[c])

(* While the order service works, nothing has been told.                   *)
LEMMA WorkingUnanswered ==
    ASSUME NEW c \in Calls, CallInv(c), stage[c] \notin {"none", "ended"}
    PROVE  Unanswered(c)
  BY DEF CallInv, AnswerStays, Unanswered

(* A step of a call whose client has not been answered: what is to show.   *)
LEMMA UnansweredInv ==
    ASSUME NEW c \in Calls, CallInv(c), Unanswered(c),
           http'[c] = http[c], away'[c] = away[c], response'[c] = response[c],
           fault[c] => fault'[c], alarm'[c] => alarm[c] \/ fault'[c],
           OrderFollows(c)', RepliesJustified(c)', HeldJustified(c)'
    PROVE  CallInv(c)'
<1>1. AnswerStays(c)' /\ ToldTruly(c)'
  BY DEF Unanswered, AnswerStays, ToldTruly, Oversized
<1>2. BlamedRightly(c)'
  BY FaultStays DEF CallInv, BlamedRightly
<1>3. QED
  BY <1>1, <1>2 DEF CallInv, Tellable

(* The order service refuses the user, or starts its lookups.              *)
LEMMA OrderReceivesInv ==
    ASSUME PathInv, NEW c \in Calls, OrderReceives(c)
    PROVE  PathTypes' /\ \A b \in Calls : CallInv(b)'
<1>0. OrderTypeOK /\ PathTypes /\ \A b \in Calls : CallInv(b)
  BY TypesSplit DEF PathInv
<1>1. /\ stage[c] = "none" /\ gate[c] # "idle" /\ response[c].code # "INVALID_ARGUMENT"
      /\ request' = [request EXCEPT ![c] = http[c].items]
      /\ UNCHANGED <<gone, failure, total, rows, http, gate, away, response, alarm, fault>>
  BY DEF OrderReceives, Validated
<1>2. /\ request'[c] = http[c].items /\ failure[c] = None /\ held[c] = NoError
      /\ gone[c] => gate[c] = "done"
      /\ \A d \in Dependencies : reply[c][d] = NoStatus
  BY <1>0, <1>1 DEF CallInv, OrderFollows, OrderTypeOK
<1>3. Unanswered(c)
  BY <1>0, <1>1 DEF CallInv, AnswerStays, Unanswered
<1>4. \A b \in Calls \ {c} : OrderUntouched(b)
  BY <1>0, ReceivesAsOrder, StepTouchesOne, TypesSplit DEF OrderStep, PathInv
<1>5. CASE UserID(c) # NoUuid
  <2>1. /\ stage' = [stage EXCEPT ![c] = "resolve"] /\ UNCHANGED held
        /\ reply' = [reply EXCEPT ![c] = [d \in Dependencies |-> Sent]]
    <3>1. Violations(http[c]) = {}
      BY DEF OrderReceives
    <3>2. QED
      BY <1>5, <3>1 DEF OrderReceives, Validated, Advance
  <2>2. Sent \in Statuses
    BY DEF Sent, StatusOf, Statuses, Texts, Reasons
  <2>3. PathTypes'
    BY <1>0, <1>1, <2>1, <2>2 DEF PathTypes
  <2>4. stage'[c] = "resolve" /\ held'[c] = NoError /\ \A d \in Dependencies : reply'[c][d] = Sent
    BY <1>0, <1>2, <2>1 DEF OrderTypeOK, PathTypes
  <2>5. OrderFollows(c)'
    BY <1>1, <1>2, <2>4 DEF OrderFollows, TxStages
  <2>6. RepliesJustified(c)'
    BY <2>4 DEF RepliesJustified
  <2>7. NoError.code = ""
    BY DEF NoError, New
  <2>8. HeldJustified(c)'
    BY <1>1, <1>2, <2>4, <2>7 DEF HeldJustified
  <2>9. CallInv(c)'
    BY <1>0, <1>1, <1>3, <2>5, <2>6, <2>8, UnansweredInv
  <2>10. \A b \in Calls \ {c} : Untouched(b)
    BY <1>0, <1>1, <2>1 DEF Untouched, PathTypes
  <2>11. QED
    BY <1>0, <1>4, <2>3, <2>9, <2>10, OneMoves
<1>6. CASE UserID(c) = NoUuid
  <2> DEFINE e == ValidationFailed({"user_id"})
  <2>1. /\ stage' = [stage EXCEPT ![c] = "ended"] /\ UNCHANGED reply
        /\ answer' = [answer EXCEPT ![c] = "INVALID_ARGUMENT"]
        /\ held' = [held EXCEPT ![c] = e]
    BY <1>6 DEF OrderReceives, Validated, End, Advance
  <2>2. e \in AppErrors /\ e.code = "INVALID_ARGUMENT" /\ Tellable(e)
    BY ValidationTold DEF Fields
  <2> HIDE DEF e
  <2>3. PathTypes'
    BY <1>0, <1>1, <2>1, <2>2 DEF PathTypes
  <2>4. /\ stage'[c] = "ended" /\ held'[c] = e
        /\ answer'[c] = "INVALID_ARGUMENT" /\ reply'[c] = reply[c]
    BY <1>0, <2>1 DEF OrderTypeOK, PathTypes
  <2>5. OrderFollows(c)'
    BY <1>1, <1>2, <2>4 DEF OrderFollows, TxStages
  <2>6. RepliesJustified(c)'
    BY <1>2, <2>4 DEF RepliesJustified
  <2>7. AtFault(c)'
    <3>1. UserID(c) \notin Users
      BY <1>6, PathAssumption
    <3>2. AtFault(c)
      BY <3>1 DEF AtFault
    <3>3. QED
      BY <1>1, <3>2, FaultStays
  <2>8. Justified(c, "INVALID_ARGUMENT")'
    BY <2>7 DEF Justified, PathCodes, ServerErrors
  <2>9. HeldJustified(c)'
    BY <2>2, <2>4, <2>8 DEF HeldJustified, None, Tellable
  <2>10. CallInv(c)'
    BY <1>0, <1>1, <1>3, <2>5, <2>6, <2>9, UnansweredInv
  <2>11. \A b \in Calls \ {c} : Untouched(b)
    BY <1>0, <1>1, <2>1 DEF Untouched, PathTypes
  <2>12. QED
    BY <1>0, <1>4, <2>3, <2>10, <2>11, OneMoves
<1>7. QED
  BY <1>5, <1>6

(* Only a call whose gateway has gone is cancelled.                        *)
LEMMA OrderCancelledInv ==
    ASSUME PathInv, NEW c \in Calls, OrderCancelled(c)
    PROVE  PathTypes' /\ \A b \in Calls : CallInv(b)'
<1>0. OrderTypeOK /\ PathTypes /\ \A b \in Calls : CallInv(b)
  BY TypesSplit DEF PathInv
<1>1. /\ gate[c] = "done" /\ stage[c] \notin {"none", "ended"} /\ UNCHANGED pathVars
      /\ UNCHANGED <<request, stage, failure, total, answer, rows>>
  BY DEF OrderCancelled, CallerGone
<1>2. PathTypes' /\ \A b \in Calls : Untouched(b)
  BY <1>0, <1>1 DEF PathTypes, pathVars, Untouched
<1>3. \A b \in Calls \ {c} : OrderUntouched(b)
  BY <1>0, StepTouchesOne DEF OrderStep, OrderCancelled
<1>4. OrderFollows(c)'
  BY <1>0, <1>1 DEF CallInv, OrderFollows, pathVars
<1>5. RepliesJustified(c)' /\ HeldJustified(c)'
  BY <1>0, <1>1, <1>2, JustifiedStays
     DEF CallInv, RepliesJustified, HeldJustified, Untouched
<1>6. CallInv(c)'
  BY <1>0, <1>1, <1>2, <1>4, <1>5, WorkingUnanswered, UnansweredInv DEF Untouched
<1>7. QED
  BY <1>0, <1>2, <1>3, <1>6, OneMoves

(* A service answers a lookup with an error only for a reason.             *)
LEMMA ServedJustified ==
    ASSUME PathInv, NEW c \in Calls, NEW d \in Dependencies, reply[c][d] = Sent,
           NEW err,
           \/ err = CASE d = "user"     -> GetUser(c)
                      [] d = "address"  -> GetAddress(c)
                      [] d = "products" -> GetProducts(c)
           \/ \E f \in DbFailures : err = PgMap(Plain(f))
           \/ err = PgMap(Plain("canceled"))
    PROVE  \/ err = NoError
           \/ /\ err \in AppErrors /\ err.code \in PathCodes /\ Tellable(err)
              /\ err.code \in {"INVALID_ARGUMENT", "NOT_FOUND"} => AtFault(c)
              /\ err.code \in ServerErrors => err.cause \in DbFailures
<1>1. CASE \E f \in DbFailures : err = PgMap(Plain(f))
  <2>1. PICK f \in DbFailures : err = PgMap(Plain(f))
    BY <1>1
  <2>2. /\ f \in PrivateTexts
        /\ PgCode(f) \in {"UNAVAILABLE", "DEADLINE_EXCEEDED", "INTERNAL"}
    BY PathAssumption
  <2>3. err \in AppErrors /\ err.code = PgCode(f) /\ err.cause = f /\ Tellable(err)
    BY <2>1, <2>2, PgMapped
  <2>4. QED
    BY <2>2, <2>3 DEF PathCodes
<1>2. CASE err = PgMap(Plain("canceled"))
  <2>1. "canceled" \in PrivateTexts /\ PgCode("canceled") = "CANCELED"
    BY DEF PrivateTexts, PgCode
  <2>2. err \in AppErrors /\ err.code = "CANCELED" /\ Tellable(err)
    BY <1>2, <2>1, PgMapped
  <2>3. QED
    BY <2>2 DEF PathCodes, ServerErrors
<1>3. ASSUME err = PgMap(Plain("no_rows")), AtFault(c)
      PROVE  /\ err \in AppErrors /\ err.code = "NOT_FOUND" /\ Tellable(err)
             /\ err.code \in PathCodes /\ err.code \notin ServerErrors
  <2>1. "no_rows" \in PrivateTexts /\ PgCode("no_rows") = "NOT_FOUND"
    BY DEF PrivateTexts, PgCode
  <2>2. err \in AppErrors /\ err.code = "NOT_FOUND" /\ Tellable(err)
    BY <1>3, <2>1, PgMapped
  <2>3. QED
    BY <2>2 DEF PathCodes, ServerErrors
<1>4. CASE d = "user" /\ err = GetUser(c)
  <2>1. UserID(c) \notin Users => AtFault(c)
    BY DEF AtFault
  <2>2. QED
    BY <1>3, <1>4, <2>1 DEF GetUser
<1>5. CASE d = "address" /\ err = GetAddress(c)
  <2>1. http[c].address \notin Addresses => AtFault(c)
    BY DEF AtFault
  <2>2. QED
    BY <1>3, <1>5, <2>1 DEF GetAddress
<1>6. CASE d = "products" /\ err = GetProducts(c)
  <2>1. CallInv(c)
    BY DEF PathInv
  <2>2. Sent # NoStatus
    <3>1. Sent.grpc = "sent" /\ NoStatus.grpc = ""
      BY DEF Sent, NoStatus, StatusOf
    <3>2. QED
      BY <3>1
  <2>3. request[c] = http[c].items
    BY <2>1, <2>2 DEF CallInv, OrderFollows
  <2>4. CASE Distinct(request[c])
    BY <1>6, <2>4 DEF GetProducts
  <2>5. CASE ~Distinct(request[c])
    <3>1. AtFault(c)
      BY <2>3, <2>5 DEF AtFault
    <3>2. err = ValidationFailed({"ids"})
      BY <1>6, <2>5 DEF GetProducts
    <3>3. err \in AppErrors /\ err.code = "INVALID_ARGUMENT" /\ Tellable(err)
      BY <3>2, ValidationTold DEF Fields
    <3>4. QED
      BY <3>1, <3>3 DEF PathCodes, ServerErrors
  <2>6. QED
    BY <2>4, <2>5
<1>7. QED
  BY <1>1, <1>2, <1>4, <1>5, <1>6 DEF Dependencies

(* The answer of a service says why; its ERROR line means a failure.       *)
LEMMA ServeInv ==
    ASSUME PathInv, NEW c \in Calls, NEW d \in Dependencies, Serve(c, d)
    PROVE  PathTypes' /\ \A b \in Calls : CallInv(b)'
<1>0. OrderTypeOK /\ PathTypes /\ \A b \in Calls : CallInv(b)
  BY TypesSplit DEF PathInv
<1>1. PICK err :
          /\ \/ err = CASE d = "user"     -> GetUser(c)
                        [] d = "address"  -> GetAddress(c)
                        [] d = "products" -> GetProducts(c)
             \/ \E f \in DbFailures : err = PgMap(Plain(f))
             \/ err = PgMap(Plain("canceled"))
          /\ reply' = [reply EXCEPT ![c][d] = IF lookup[c][d] # "pending" THEN Read
                                             ELSE IF err = NoError THEN OKStatus ELSE Status(err)]
          /\ Log(c, err.code)
          /\ Hurt(c, err.cause \in DbFailures)
  BY DEF Serve
<1>2. /\ reply[c][d] = Sent
      /\ UNCHANGED <<ovars, http, gate, away, held, response>>
      /\ \A b \in Calls : OrderUntouched(b)
  BY OrderRests DEF Serve
<1>3. \/ err = NoError
      \/ /\ err \in AppErrors /\ err.code \in PathCodes /\ Tellable(err)
         /\ err.code \in {"INVALID_ARGUMENT", "NOT_FOUND"} => AtFault(c)
         /\ err.code \in ServerErrors => err.cause \in DbFailures
  BY <1>1, <1>2, ServedJustified
<1>4. /\ fault' \in [Calls -> BOOLEAN] /\ alarm' \in [Calls -> BOOLEAN]
      /\ \A b \in Calls \ {c} : fault'[b] = fault[b] /\ alarm'[b] = alarm[b]
      /\ fault[c] => fault'[c]
      /\ err.cause \in DbFailures => fault'[c]
      /\ alarm'[c] => alarm[c] \/ Level(err.code) = "ERROR"
  BY <1>0, <1>1 DEF Log, Hurt, PathTypes
<1>5. alarm'[c] => alarm[c] \/ fault'[c]
  <2>1. NoError.code = "" /\ "" \notin ServerErrors
    BY DEF NoError, New, ServerErrors
  <2>2. Level(err.code) = "ERROR" <=> err.code \in ServerErrors
    BY DEF Level
  <2>3. QED
    BY <1>3, <1>4, <2>1, <2>2
<1>6. PICK s : /\ reply' = [reply EXCEPT ![c][d] = s]
               /\ s = (IF lookup[c][d] # "pending" THEN Read
                       ELSE IF err = NoError THEN OKStatus ELSE Status(err))
  BY <1>1
<1>7. /\ s \in Statuses
      /\ \/ s \in {Read, OKStatus}
         \/ Justified(c, s.info)' /\ Tellable(s)
  <2>1. Read \in Statuses /\ OKStatus \in Statuses
    BY DEF Read, OKStatus, StatusOf, Statuses, Texts, Reasons
  <2>2. CASE s = Status(err) /\ err # NoError
    <3>1. err.code # ""
      BY <1>3, <2>2 DEF PathCodes
    <3>2. s \in Statuses /\ s.info = err.code /\ Tellable(s)
      BY <1>3, <2>2, <3>1, StatusKeeps
    <3>3. AtFault(c)' <=> AtFault(c)
      BY <1>2, FaultStays
    <3>4. Justified(c, err.code)'
      BY <1>3, <1>4, <2>2, <3>3 DEF Justified
    <3>5. QED
      BY <3>2, <3>4
  <2>3. QED
    BY <1>6, <2>1, <2>2
<1>8. PathTypes'
  <2>1. reply' \in [Calls -> [Dependencies -> Statuses]]
    BY <1>0, <1>6, <1>7 DEF PathTypes
  <2>2. QED
    BY <1>0, <1>2, <1>4, <2>1 DEF PathTypes
<1>9. OrderFollows(c)'
  <2>1. stage[c] # "none"
    <3>1. Sent.grpc = "sent" /\ NoStatus.grpc = ""
      BY DEF Sent, NoStatus, StatusOf
    <3>2. QED
      BY <1>0, <1>2, <3>1 DEF CallInv, OrderFollows
  <2>2. QED
    BY <1>0, <1>2, <2>1 DEF CallInv, OrderFollows, OrderUntouched
<1>10. RepliesJustified(c)'
  <2>1. ASSUME NEW x \in Dependencies
        PROVE  (\/ reply[c][x] \in {NoStatus, Sent, Read, OKStatus}
                \/ Justified(c, reply[c][x].info) /\ Tellable(reply[c][x]))'
    <3>1. CASE x = d
      <4>1. reply'[c][x] = s
        BY <1>0, <1>6, <3>1 DEF PathTypes
      <4>2. Justified(c, s.info)' => Justified(c, reply[c][x].info)'
        BY <4>1 DEF Justified
      <4>3. Tellable(s) => Tellable(reply[c][x])'
        BY <4>1 DEF Tellable
      <4>4. QED
        BY <1>7, <4>1, <4>2, <4>3
    <3>2. CASE x # d
      <4>1. reply'[c][x] = reply[c][x]
        BY <1>0, <1>6, <3>2 DEF PathTypes
      <4>2. \/ reply[c][x] \in {NoStatus, Sent, Read, OKStatus}
            \/ Justified(c, reply[c][x].info) /\ Tellable(reply[c][x])
        BY <1>0 DEF CallInv, RepliesJustified
      <4>3. Justified(c, reply[c][x].info) => Justified(c, reply[c][x].info)'
        <5>1. Justified(c, reply[c][x].info) =>
                  /\ reply[c][x].info \in PathCodes
                  /\ reply[c][x].info \in {"INVALID_ARGUMENT", "NOT_FOUND"} => AtFault(c)'
                  /\ reply[c][x].info \in ServerErrors => fault'[c]
          BY <1>2, <1>4, FaultStays DEF Justified
        <5>2. QED
          BY <4>1, <5>1 DEF Justified
      <4>4. Tellable(reply[c][x]) => Tellable(reply[c][x])'
        BY <4>1 DEF Tellable
      <4>5. QED
        BY <4>1, <4>2, <4>3, <4>4
    <3>3. QED
      BY <3>1, <3>2
  <2>2. QED
    BY <2>1 DEF RepliesJustified
<1>11. HeldJustified(c)'
  BY <1>0, <1>2, <1>4, HeldStays DEF CallInv
<1>12. AnswerStays(c)' /\ ToldTruly(c)'
  BY <1>0, <1>2, ToldStays DEF CallInv
<1>13. BlamedRightly(c)'
  BY <1>0, <1>2, <1>4, <1>5, FaultStays DEF CallInv, BlamedRightly
<1>14. CallInv(c)'
  BY <1>0, <1>2, <1>9, <1>10, <1>11, <1>12, <1>13 DEF CallInv, Tellable
<1>15. \A b \in Calls \ {c} : Untouched(b)
  BY <1>0, <1>2, <1>4, <1>6 DEF Untouched, PathTypes
<1>16. QED
  BY <1>0, <1>2, <1>8, <1>14, <1>15, OneMoves

(* A lookup that ends: what is to show of the status it comes back with.   *)
LEMMA LookupEndsInv ==
    ASSUME PathInv, NEW c \in Calls, NEW d \in Dependencies, NEW s \in Statuses,
           LookupEnds(c, d, s), NEW code, code = GrpcMap(s).code,
           s = OKStatus \/ (Justified(c, code)' /\ Tellable(GrpcMap(s))),
           fault' \in [Calls -> BOOLEAN], fault[c] => fault'[c],
           \A b \in Calls \ {c} : fault'[b] = fault[b]
    PROVE  PathTypes' /\ \A b \in Calls : CallInv(b)'
<1>0. OrderTypeOK /\ PathTypes /\ \A b \in Calls : CallInv(b)
  BY TypesSplit DEF PathInv
<1> DEFINE e == GrpcMap(s)
<1>1. e \in AppErrors /\ e.code = code
  BY MapKeeps
<1>2. /\ Answered(c, d, IF s = OKStatus THEN "ok" ELSE Class(e))
      /\ held' = IF failure' # failure THEN [held EXCEPT ![c] = e] ELSE held
      /\ reply' = IF reply[c][d] = Sent THEN reply ELSE [reply EXCEPT ![c][d] = Read]
      /\ UNCHANGED <<http, gate, away, response, alarm>>
  BY DEF LookupEnds
<1>3. s = OKStatus \/ (Justified(c, code)' /\ Tellable(e))
  OBVIOUS
<1> HIDE DEF e
<1>4. PICK outcome : /\ outcome = (IF s = OKStatus THEN "ok" ELSE Class(e))
                     /\ Answered(c, d, outcome)
  BY <1>2
<1>5. /\ stage[c] = "resolve"
      /\ UNCHANGED <<request, stage, gone, total, tx, answer, rows>>
      /\ failure' = IF outcome # "ok" /\ failure[c] = None
                    THEN [failure EXCEPT ![c] = outcome] ELSE failure
  BY <1>4 DEF Answered, Lookup
<1>6. \A b \in Calls \ {c} : OrderUntouched(b)
  BY <1>0, LookupAsOrder, StepTouchesOne DEF OrderStep
<1>7. Read \in Statuses
  BY DEF Read, StatusOf, Statuses, Texts, Reasons
<1>8. PathTypes'
  <2>1. reply' \in [Calls -> [Dependencies -> Statuses]]
    BY <1>0, <1>2, <1>7 DEF PathTypes
  <2>2. held' \in [Calls -> AppErrors]
    BY <1>0, <1>1, <1>2 DEF PathTypes
  <2>3. QED
    BY <1>0, <1>2, <2>1, <2>2 DEF PathTypes
<1>9. \A b \in Calls \ {c} : Untouched(b)
  <2>1. \A b \in Calls \ {c} : reply'[b] = reply[b]
    BY <1>0, <1>2 DEF PathTypes
  <2>2. \A b \in Calls \ {c} : held'[b] = held[b]
    BY <1>0, <1>2 DEF PathTypes
  <2>3. QED
    BY <1>2, <2>1, <2>2 DEF Untouched
<1>10. OrderFollows(c)'
  BY <1>0, <1>2, <1>5 DEF CallInv, OrderFollows, TxStages
<1>11. RepliesJustified(c)'
  <2>1. ASSUME NEW x \in Dependencies
        PROVE  (\/ reply[c][x] \in {NoStatus, Sent, Read, OKStatus}
                \/ Justified(c, reply[c][x].info) /\ Tellable(reply[c][x]))'
    <3>1. reply'[c][x] \in {reply[c][x], Read}
      BY <1>0, <1>2 DEF PathTypes
    <3>2. CASE reply'[c][x] = reply[c][x]
      <4>1. \/ reply[c][x] \in {NoStatus, Sent, Read, OKStatus}
            \/ Justified(c, reply[c][x].info) /\ Tellable(reply[c][x])
        BY <1>0 DEF CallInv, RepliesJustified
      <4>2. Justified(c, reply[c][x].info) => Justified(c, reply[c][x].info)'
        <5>1. Justified(c, reply[c][x].info) =>
                  /\ reply[c][x].info \in PathCodes
                  /\ reply[c][x].info \in {"INVALID_ARGUMENT", "NOT_FOUND"} => AtFault(c)'
                  /\ reply[c][x].info \in ServerErrors => fault'[c]
          BY <1>2, FaultStays DEF Justified
        <5>2. QED
          BY <3>2, <5>1 DEF Justified
      <4>3. Tellable(reply[c][x]) => Tellable(reply[c][x])'
        BY <3>2 DEF Tellable
      <4>4. QED
        BY <3>2, <4>1, <4>2, <4>3
    <3>3. CASE reply'[c][x] = Read
      BY <3>3
    <3>4. QED
      BY <3>1, <3>2, <3>3
  <2>2. QED
    BY <2>1 DEF RepliesJustified
<1>12. HeldJustified(c)'
  <2>1. CASE outcome = "ok" \/ failure[c] # None
    <3>1. failure' = failure
      BY <1>5, <2>1
    <3>2. held' = held
      BY <1>2, <3>1
    <3>3. OrderUntouched(c)
      BY <1>5, <3>1 DEF OrderUntouched
    <3>4. QED
      BY <1>0, <1>2, <3>2, <3>3, HeldStays DEF CallInv
  <2>2. CASE outcome # "ok" /\ failure[c] = None
    <3>1. s # OKStatus /\ outcome = Class(e)
      BY <1>4, <2>2
    <3>2. Justified(c, code)' /\ Tellable(e)
      BY <1>3, <3>1
    <3>3. failure' = [failure EXCEPT ![c] = outcome]
      BY <1>5, <2>2
    <3>4. failure'[c] = Class(e) /\ Class(e) # None
      BY <1>0, <3>1, <3>3 DEF OrderTypeOK, Class, None
    <3>5. held' = [held EXCEPT ![c] = e]
      BY <1>2, <2>2, <3>4
    <3>6. held'[c] = e
      BY <1>0, <3>5 DEF PathTypes
    <3>7. e.code # ""
      BY <1>1, <3>2 DEF Justified, PathCodes
    <3>8. Justified(c, held[c].code)'
      BY <1>1, <3>2, <3>6 DEF Justified
    <3>9. Tellable(held[c])' /\ Class(held[c])' = failure'[c]
      BY <3>2, <3>4, <3>6 DEF Tellable, Class
    <3>10. QED
      BY <1>5, <3>6, <3>7, <3>8, <3>9 DEF HeldJustified
  <2>3. QED
    BY <2>1, <2>2
<1>13. CallInv(c)'
  BY <1>0, <1>2, <1>5, <1>10, <1>11, <1>12, WorkingUnanswered, UnansweredInv
<1>14. QED
  BY <1>0, <1>6, <1>8, <1>9, <1>13, OneMoves

(* The statuses the library makes are well formed.                         *)
LEMMA RawJustified ==
    ASSUME NEW g \in Codes
    PROVE  Raw(g) \in Statuses /\ GrpcMap(Raw(g)).code = g /\ Tellable(GrpcMap(Raw(g)))
<1>1. Raw(g) \in Statuses
  BY DEF Raw, StatusOf, Statuses, Texts, PrivateTexts, Reasons
<1>2. QED
  BY <1>1, RawMapped

(* The three ways in which a lookup ends.                                  *)
LEMMA LookupsInv ==
    ASSUME PathInv, NEW c \in Calls, NEW d \in Dependencies,
           LookupAnswered(c, d) \/ LookupCancelled(c, d) \/ LookupBreaks(c, d)
    PROVE  PathTypes' /\ \A b \in Calls : CallInv(b)'
<1>0. OrderTypeOK /\ PathTypes /\ \A b \in Calls : CallInv(b)
  BY TypesSplit DEF PathInv
<1>1. CASE LookupAnswered(c, d)
  <2>1. /\ reply[c][d] \notin {NoStatus, Sent, Read} /\ reply[c][d] \in Statuses
        /\ LookupEnds(c, d, reply[c][d]) /\ UNCHANGED <<fault, http>>
    BY <1>0, <1>1 DEF LookupAnswered, LookupEnds, PathTypes
  <2>2. PICK s \in Statuses : s = reply[c][d]
    BY <2>1
  <2>3. s = OKStatus \/ (Justified(c, s.info) /\ Tellable(s))
    <3>1. RepliesJustified(c)
      BY <1>0 DEF CallInv
    <3>2. \/ reply[c][d] = OKStatus
          \/ Justified(c, reply[c][d].info) /\ Tellable(reply[c][d])
      BY <2>1, <3>1 DEF RepliesJustified
    <3>3. QED
      BY <2>2, <3>2
  <2>4. CASE s = OKStatus
    <3>1. PICK code : code = GrpcMap(s).code
      OBVIOUS
    <3>2. LookupEnds(c, d, s) /\ fault' \in [Calls -> BOOLEAN] /\ fault' = fault
      BY <1>0, <2>1, <2>2 DEF PathTypes
    <3>3. QED
      BY <2>4, <3>1, <3>2, LookupEndsInv
  <2>5. CASE Justified(c, s.info) /\ Tellable(s)
    <3>1. s.info # ""
      BY <2>5 DEF Justified, PathCodes
    <3>2. s.info = GrpcMap(s).code /\ Tellable(GrpcMap(s))
      BY <2>5, <3>1, MapKeeps
    <3>3. Justified(c, s.info)'
      BY <2>1, <2>5, JustifiedStays
    <3>4. QED
      BY <1>0, <2>1, <2>2, <3>2, <3>3, LookupEndsInv DEF PathTypes
  <2>6. QED
    BY <2>3, <2>4, <2>5
<1>2. CASE LookupCancelled(c, d)
  <2>1. LookupEnds(c, d, Raw("CANCELED")) /\ UNCHANGED fault
    BY <1>2 DEF LookupCancelled
  <2>2. "CANCELED" \in Codes /\ Justified(c, "CANCELED")'
    BY DEF Codes, ClientErrors, ServerErrors, Justified, PathCodes
  <2>3. QED
    BY <1>0, <2>1, <2>2, RawJustified, LookupEndsInv DEF PathTypes
<1>3. CASE LookupBreaks(c, d)
  <2>1. /\ LookupEnds(c, d, Raw("UNAVAILABLE")) /\ fault' \in [Calls -> BOOLEAN]
        /\ fault'[c] /\ \A b \in Calls \ {c} : fault'[b] = fault[b]
    BY <1>0, <1>3 DEF LookupBreaks, Hurt, PathTypes
  <2>2. "UNAVAILABLE" \in Codes /\ Justified(c, "UNAVAILABLE")'
    BY <2>1 DEF Codes, ClientErrors, ServerErrors, Justified, PathCodes
  <2>3. QED
    BY <2>1, <2>2, RawJustified, LookupEndsInv
<1>4. QED
  BY <1>1, <1>2, <1>3

(* A call that goes on in the order service, or ends there, holding the    *)
(* error h: what is to show.                                               *)
LEMMA WorkInv ==
    ASSUME PathInv, NEW c \in Calls, OrderStep(c), stage[c] \notin {"none", "ended"},
           UNCHANGED <<http, gate, away, reply, response, request, gone>>, OrderLogs(c),
           NEW h \in AppErrors, held' = [held EXCEPT ![c] = h],
           h.code # "" => Justified(c, h.code)' /\ Tellable(h),
           fault' \in [Calls -> BOOLEAN], fault[c] => fault'[c],
           \A b \in Calls \ {c} : fault'[b] = fault[b],
           stage'[c] \in {"begin", "ended"} \cup TxStages,
           stage'[c] # "ended" => total'[c] = TotalAmount(http[c].items),
           stage'[c] = "ended" => answer'[c] # None,
           answer'[c] \in Errors =>
              /\ h.code # ""
              /\ h.code \in {"INVALID_ARGUMENT", "NOT_FOUND", "CANCELED"} => answer'[c] = h.code
    PROVE  PathTypes' /\ \A b \in Calls : CallInv(b)'
<1>0. OrderTypeOK /\ PathTypes /\ \A b \in Calls : CallInv(b)
  BY TypesSplit DEF PathInv
<1>1. held'[c] = h /\ held' \in [Calls -> AppErrors] /\ \A b \in Calls \ {c} : held'[b] = held[b]
  BY <1>0 DEF PathTypes
<1>2. /\ alarm' \in [Calls -> BOOLEAN] /\ \A b \in Calls \ {c} : alarm'[b] = alarm[b]
      /\ alarm'[c] => alarm[c] \/ (answer'[c] \in Errors /\ h.code \in ServerErrors)
  <2>1. Level(h.code) = "ERROR" <=> h.code \in ServerErrors
    BY DEF Level
  <2>2. CASE answer'[c] \in Errors
    BY <1>0, <1>1, <2>1, <2>2 DEF OrderLogs, Log, PathTypes
  <2>3. CASE answer'[c] \notin Errors
    BY <1>0, <2>3 DEF OrderLogs, PathTypes
  <2>4. QED
    BY <2>2, <2>3
<1>3. alarm'[c] => alarm[c] \/ fault'[c]
  BY <1>2 DEF Justified
<1>4. PathTypes'
  BY <1>0, <1>1, <1>2 DEF PathTypes
<1>5. \A b \in Calls \ {c} : Untouched(b) /\ OrderUntouched(b)
  BY <1>0, <1>1, <1>2, StepTouchesOne DEF Untouched
<1>6. OrderFollows(c)'
  BY <1>0 DEF CallInv, OrderFollows, TxStages
<1>7. RepliesJustified(c)'
  BY <1>0, JustifiedStays DEF CallInv, RepliesJustified
<1>8. HeldJustified(c)'
  <2>1. h.code # "" => (Justified(c, held[c].code) /\ Tellable(held[c]))'
    <3>1. ASSUME h.code # "" PROVE Justified(c, held[c].code)'
      BY <1>1, <3>1 DEF Justified
    <3>2. ASSUME h.code # "" PROVE Tellable(held[c])'
      BY <1>1, <3>2 DEF Tellable
    <3>3. QED
      BY <3>1, <3>2
  <2>2. QED
    BY <1>1, <2>1 DEF HeldJustified, TxStages
<1>9. CallInv(c)'
  BY <1>0, <1>3, <1>6, <1>7, <1>8, WorkingUnanswered, UnansweredInv
<1>10. QED
  BY <1>0, <1>4, <1>5, <1>9, OneMoves

(* resolve ends: an error of a lookup, no such product, or an order.       *)
LEMMA ResolvedInv ==
    ASSUME PathInv, NEW c \in Calls, OrderWorks(c), Resolved(c),
           held' = IF failure[c] = None /\ answer'[c] # None
                   THEN [held EXCEPT ![c] = Caused(New("NOT_FOUND"), "product not found")]
                   ELSE held
    PROVE  PathTypes' /\ \A b \in Calls : CallInv(b)'
<1>0. OrderTypeOK /\ OpenIsNotStored /\ PathTypes /\ \A b \in Calls : CallInv(b)
  BY TypesSplit DEF PathInv, OrderInv
<1>1. /\ stage[c] = "resolve" /\ OrderStep(c) /\ OrderLogs(c)
      /\ UNCHANGED <<http, gate, away, reply, response, request, gone, fault>>
  BY DEF Resolved, OrderWorks, OrderStep
<1>2. PICK h \in AppErrors : h = held[c]
  BY <1>0 DEF PathTypes
<1>3. /\ request[c] = http[c].items /\ answer[c] = None
      /\ failure[c] # None => h.code # "" /\ Class(h) = failure[c]
      /\ held = [held EXCEPT ![c] = h]
      /\ fault' \in [Calls -> BOOLEAN]
  <2>1. OrderFollows(c) /\ HeldJustified(c)
    BY <1>0 DEF CallInv
  <2>2. QED
    BY <1>0, <1>1, <1>2, <2>1 DEF HeldJustified, OrderFollows, OpenIsNotStored, PathTypes
<1>4. h.code # "" => Justified(c, h.code)' /\ Tellable(h)
  <2>1. h.code # "" => Justified(c, h.code) /\ Tellable(h)
    BY <1>0, <1>2 DEF CallInv, HeldJustified
  <2>2. QED
    BY <1>1, <2>1, JustifiedStays
<1>5. CASE failure[c] # None /\ End(c, failure[c])
  <2>1. /\ stage'[c] = "ended" /\ answer'[c] = failure[c] /\ held' = held
        /\ failure[c] \in Errors
    BY <1>0, <1>5 DEF End, Advance, OrderTypeOK
  <2>2. h.code \in {"INVALID_ARGUMENT", "NOT_FOUND", "CANCELED"} => failure[c] = h.code
    BY <1>3, <1>5 DEF Class
  <2>3. QED
    BY <1>1, <1>3, <1>4, <1>5, <2>1, <2>2, WorkInv
<1>6. CASE failure[c] = None /\ ~AllFound(request[c]) /\ End(c, "NOT_FOUND")
  <2> DEFINE e == Caused(New("NOT_FOUND"), "product not found")
  <2>1. stage'[c] = "ended" /\ answer'[c] = "NOT_FOUND"
    BY <1>0, <1>6 DEF End, Advance, OrderTypeOK
  <2>2. /\ "" \in Texts \ PrivateTexts /\ "product not found" \in Texts /\ "" \in Reasons
        /\ "NOT_FOUND" \in Codes
    BY DEF Texts, Reasons, PrivateTexts, Codes, ClientErrors
  <2>3. e \in AppErrors
    BY <2>2 DEF AppErrors, Caused, New
  <2>4. e.code = "NOT_FOUND" /\ e.message = "" /\ e.reason = ""
    BY DEF Caused, New
  <2>5. Tellable(e)
    BY <2>2, <2>4 DEF Tellable
  <2>6. held' = [held EXCEPT ![c] = e]
    BY <1>6, <2>1 DEF None
  <2> HIDE DEF e
  <2>7. AtFault(c)
    BY <1>3, <1>6 DEF AtFault
  <2>8. Justified(c, "NOT_FOUND")'
    BY <1>1, <2>7, FaultStays DEF Justified, PathCodes, ServerErrors
  <2>9. Justified(c, e.code)'
    BY <2>4, <2>8
  <2>10. QED
    BY <1>1, <1>3, <2>1, <2>3, <2>4, <2>5, <2>6, <2>9, WorkInv DEF None
<1>7. CASE /\ failure[c] = None /\ AllFound(request[c])
           /\ total' = [total EXCEPT ![c] = TotalAmount(request[c])]
           /\ Advance(c, "begin")
           /\ UNCHANGED <<answer, tx>>
  <2>1. /\ stage'[c] = "begin" /\ answer'[c] = None /\ held' = held
        /\ total'[c] = TotalAmount(http[c].items)
    BY <1>0, <1>3, <1>7 DEF Advance, OrderTypeOK
  <2>2. None \notin Errors
    BY DEF None, Errors
  <2>3. QED
    BY <1>1, <1>3, <1>4, <2>1, <2>2, WorkInv
<1>8. QED
  BY <1>5, <1>6, <1>7 DEF Resolved

(* The steps of the goroutine: each error it ends with has its reason.     *)
LEMMA OrderWorksInv ==
    ASSUME PathInv, NEW c \in Calls, OrderWorks(c)
    PROVE  PathTypes' /\ \A b \in Calls : CallInv(b)'
<1>0. OrderTypeOK /\ OpenIsNotStored /\ PathTypes /\ \A b \in Calls : CallInv(b)
  BY TypesSplit DEF PathInv, OrderInv
<1>1. OrderStep(c) /\ OrderLogs(c) /\ UNCHANGED <<http, gate, away, reply, response, fault>>
  BY WorkAsOrder DEF OrderWorks, OrderStep
<1>2. fault' \in [Calls -> BOOLEAN] /\ OrderFollows(c)
  BY <1>0, <1>1 DEF PathTypes, CallInv
<1>3. CASE RefuseOrder(c) /\ held' = [held EXCEPT ![c] = PgMap(Plain("class_23"))]
  <2> DEFINE h == PgMap(Plain("class_23"))
  <2>1. "class_23" \in PrivateTexts /\ PgCode("class_23") = "INVALID_ARGUMENT"
    BY DEF PrivateTexts, PgCode
  <2>2. h \in AppErrors /\ h.code = "INVALID_ARGUMENT" /\ Tellable(h)
    BY <2>1, PgMapped
  <2>3. held' = [held EXCEPT ![c] = h]
    BY <1>3
  <2> HIDE DEF h
  <2>4. /\ stage[c] = "order" /\ total[c] < 0 /\ UNCHANGED <<request, gone>>
        /\ stage'[c] = "ended" /\ answer'[c] = "INVALID_ARGUMENT"
    BY <1>0, <1>3 DEF RefuseOrder, End, Advance, OrderTypeOK
  <2>5. AtFault(c)
    <3>1. total[c] = TotalAmount(http[c].items)
      BY <1>2, <2>4 DEF OrderFollows, TxStages
    <3>2. TotalAmount(http[c].items) < 0
      BY <2>4, <3>1
    <3>3. QED
      BY <3>2 DEF AtFault
  <2>6. Justified(c, "INVALID_ARGUMENT")'
    BY <1>1, <2>5, FaultStays DEF Justified, PathCodes, ServerErrors
  <2>7. Justified(c, h.code)'
    BY <2>2, <2>6
  <2>8. QED
    BY <1>1, <1>2, <2>2, <2>3, <2>4, <2>7, WorkInv DEF None
<1>4. CASE (Begin(c) \/ InsertOrder(c) \/ InsertItems(c) \/ SaveEvent(c) \/ Commit(c))
           /\ UNCHANGED held
  <2>1. PICK h \in AppErrors : h = held[c]
    BY <1>0 DEF PathTypes
  <2>2. held' = [held EXCEPT ![c] = h]
    BY <1>0, <1>4, <2>1 DEF PathTypes
  <2>3. h.code # "" => Justified(c, h.code)' /\ Tellable(h)
    <3>1. h.code # "" => Justified(c, h.code) /\ Tellable(h)
      BY <1>0, <2>1 DEF CallInv, HeldJustified
    <3>2. QED
      BY <1>1, <3>1, JustifiedStays
  <2>4. /\ stage[c] \in {"begin"} \cup TxStages
        /\ UNCHANGED <<request, gone, total>>
    BY <1>4 DEF Begin, InsertOrder, InsertItems, SaveEvent, Insert, Commit, TxStages
  <2>5. \/ stage'[c] \in TxStages /\ answer' = answer
        \/ stage'[c] = "ended" /\ answer'[c] = "OK"
    BY <1>0, <1>4
       DEF Begin, InsertOrder, InsertItems, SaveEvent, Insert, Commit, End, Advance, TxStages,
           OrderTypeOK
  <2>6. /\ total'[c] = TotalAmount(http[c].items)
        /\ stage[c] \notin {"none", "ended"}
        /\ answer[c] = None
    BY <1>0, <1>2, <2>4 DEF OrderFollows, TxStages, OpenIsNotStored
  <2>7. None \notin Errors /\ "OK" \notin Errors /\ "OK" # None
    BY DEF None, Errors
  <2>8. QED
    BY <1>1, <1>2, <2>2, <2>3, <2>4, <2>5, <2>6, <2>7, WorkInv DEF TxStages
<1>5. QED
  BY <1>3, <1>4, ResolvedInv DEF OrderWorks

(* Postgres fails the call, or its cancellation does.                      *)
LEMMA StoreFailsInv ==
    ASSUME PathInv, NEW c \in Calls, StoreFails(c)
    PROVE  PathTypes' /\ \A b \in Calls : CallInv(b)'
<1>0. OrderTypeOK /\ PathTypes /\ \A b \in Calls : CallInv(b)
  BY TypesSplit DEF PathInv
<1>1. PICK cause \in DbFailures \cup {"canceled"} :
          /\ TxFails(c) \/ CommitUnacknowledged(c)
          /\ answer'[c] = IF PgCode(cause) = "DEADLINE_EXCEEDED" THEN "UNAVAILABLE"
                          ELSE PgCode(cause)
          /\ held' = [held EXCEPT ![c] = PgMap(Plain(cause))]
          /\ OrderLogs(c)
          /\ Hurt(c, cause # "canceled")
          /\ UNCHANGED <<http, gate, away, reply, response>>
  BY DEF StoreFails
<1>2. /\ cause \in PrivateTexts
      /\ PgCode(cause) \in {"UNAVAILABLE", "DEADLINE_EXCEEDED", "INTERNAL", "CANCELED"}
      /\ PgCode(cause) \in {"UNAVAILABLE", "DEADLINE_EXCEEDED", "INTERNAL"} => cause # "canceled"
  <2>1. "canceled" \in PrivateTexts /\ PgCode("canceled") = "CANCELED"
    BY DEF PrivateTexts, PgCode
  <2>2. QED
    BY <2>1, PathAssumption
<1>3. PICK h \in AppErrors : /\ h = PgMap(Plain(cause))
                             /\ h.code = PgCode(cause) /\ Tellable(h)
  BY <1>2, PgMapped
<1>4. held' = [held EXCEPT ![c] = h]
  BY <1>1, <1>3
<1>5. /\ fault' \in [Calls -> BOOLEAN]
      /\ fault[c] => fault'[c]
      /\ cause # "canceled" => fault'[c]
      /\ \A b \in Calls \ {c} : fault'[b] = fault[b]
  BY <1>0, <1>1 DEF Hurt, PathTypes
<1>6. PICK result : End(c, result)
  BY <1>1 DEF TxFails, CommitUnacknowledged
<1>7. /\ stage[c] \in {"begin"} \cup TxStages /\ UNCHANGED <<request, gone>>
      /\ stage'[c] = "ended" /\ OrderStep(c)
  <2>1. stage'[c] = "ended"
    BY <1>0, <1>6 DEF End, Advance, OrderTypeOK
  <2>2. QED
    BY <1>1, <2>1 DEF TxFails, CommitUnacknowledged, TxStages, OrderStep
<1>8. Justified(c, h.code)'
  BY <1>2, <1>3, <1>5 DEF Justified, PathCodes, ServerErrors
<1>9. /\ answer'[c] # None /\ h.code # ""
      /\ h.code \in {"INVALID_ARGUMENT", "NOT_FOUND", "CANCELED"} => answer'[c] = h.code
  BY <1>1, <1>2, <1>3 DEF None
<1>10. stage[c] \notin {"none", "ended"}
  BY <1>7 DEF TxStages
<1>11. UNCHANGED <<http, gate, away, reply, response, request, gone>> /\ OrderLogs(c)
  BY <1>1, <1>7
<1>12. /\ stage'[c] \in {"begin", "ended"} \cup TxStages
       /\ stage'[c] # "ended" => total'[c] = TotalAmount(http[c].items)
       /\ stage'[c] = "ended" => answer'[c] # None
       /\ OrderStep(c)
  BY <1>7, <1>9
<1>13. QED
  BY <1>3, <1>4, <1>5, <1>8, <1>9, <1>10, <1>11, <1>12, WorkInv

(* The order service dies: no answer, and nothing that was told changes.   *)
LEMMA OrderDiesInv ==
    ASSUME PathInv, OrderDies
    PROVE  PathTypes' /\ \A b \in Calls : CallInv(b)'
<1>0. OrderTypeOK /\ PathTypes /\ \A b \in Calls : CallInv(b)
  BY TypesSplit DEF PathInv
<1>1. /\ UNCHANGED <<http, gate, away, reply, held, response, alarm>>
      /\ UNCHANGED <<request, gone, failure, total, rows>>
      /\ fault' = [c \in Calls |-> fault[c] \/ stage'[c] # stage[c]]
      /\ \A c \in Calls :
            \/ /\ stage[c] \notin {"none", "ended"}
               /\ stage'[c] = "ended" /\ answer'[c] = "LOST"
            \/ /\ stage[c] \in {"none", "ended"}
               /\ stage'[c] = stage[c] /\ answer'[c] = answer[c]
  BY DEF OrderDies, Crash
<1>2. PathTypes'
  BY <1>0, <1>1 DEF PathTypes
<1>3. ASSUME NEW c \in Calls PROVE CallInv(c)'
  <2>1. fault[c] => fault'[c]
    BY <1>1
  <2>2. CASE /\ stage[c] \notin {"none", "ended"}
             /\ stage'[c] = "ended" /\ answer'[c] = "LOST"
    <3>1. OrderFollows(c)'
      BY <1>0, <1>1, <2>2 DEF CallInv, OrderFollows, TxStages
    <3>2. RepliesJustified(c)'
      BY <1>0, <1>1, <2>1, JustifiedStays DEF CallInv, RepliesJustified
    <3>3. HeldJustified(c)'
      <4>1. "LOST" \notin Errors /\ "LOST" # None
        BY DEF Errors, None
      <4>2. held[c].code # "" => Justified(c, held[c].code)' /\ Tellable(held[c])
        BY <1>0, <1>1, <2>1, JustifiedStays DEF CallInv, HeldJustified
      <4>3. QED
        BY <1>1, <2>2, <4>1, <4>2 DEF HeldJustified
    <3>4. QED
      BY <1>0, <1>1, <2>1, <2>2, <3>1, <3>2, <3>3, WorkingUnanswered, UnansweredInv
  <2>3. CASE stage'[c] = stage[c] /\ answer'[c] = answer[c]
    <3>1. Untouched(c) /\ OrderUntouched(c)
      BY <1>0, <1>1, <2>3 DEF Untouched, OrderUntouched, PathTypes
    <3>2. QED
      BY <1>0, <3>1, Frame
  <2>4. QED
    BY <1>1, <2>2, <2>3
<1>4. QED
  BY <1>2, <1>3

-----------------------------------------------------------------------------
(* PathInv is inductive.                                                   *)

(* Nobody has asked for anything.                                          *)
LEMMA PathInvInit == PathInit => PathInv
<1> SUFFICES ASSUME PathInit PROVE PathInv
  OBVIOUS
<1>1. OrderInv
  BY OrderInvInit DEF PathInit
<1>2. NoStatus \in Statuses /\ NoError \in AppErrors
  BY DEF NoStatus, StatusOf, Statuses, NoError, New, AppErrors, Texts, Reasons
<1>3. NoResponse.status = 0 /\ Tellable(NoResponse)
  BY DEF NoResponse, Tellable, PrivateTexts
<1>4. PathTypes
  BY <1>2, <1>3 DEF PathInit, PathTypes
<1>5. ASSUME NEW c \in Calls PROVE CallInv(c)
  <2>1. /\ stage[c] = "none" /\ gate[c] = "idle" /\ response[c] = NoResponse /\ ~gone[c]
        /\ held[c] = NoError /\ failure[c] = None /\ ~alarm[c]
        /\ \A d \in Dependencies : reply[c][d] = NoStatus
    BY DEF PathInit, OrderInit
  <2>2. OrderFollows(c) /\ RepliesJustified(c)
    BY <2>1 DEF OrderFollows, RepliesJustified, TxStages
  <2>3. NoError.code = ""
    BY DEF NoError, New
  <2>4. HeldJustified(c)
    BY <2>1, <2>3 DEF HeldJustified
  <2>5. AnswerStays(c) /\ ToldTruly(c) /\ BlamedRightly(c)
    BY <1>3, <2>1 DEF AnswerStays, ToldTruly, BlamedRightly
  <2>6. QED
    BY <1>3, <2>1, <2>2, <2>4, <2>5 DEF CallInv, Tellable
<1>6. QED
  BY <1>1, <1>4, <1>5, TypesSplit DEF PathInv, OrderInv

(* Every step preserves it, each by the lemma of its action.               *)
LEMMA PathInvStep == PathInv /\ [PathNext]_vars => PathInv'
<1> SUFFICES ASSUME PathInv, [PathNext]_vars PROVE PathInv'
  OBVIOUS
<1>1. OrderInv'
  <2>1. [OrderNext]_ovars
    BY PathRefinesOrder DEF PathInv
  <2>2. OrderInv
    BY DEF PathInv
  <2>3. QED
    BY <2>1, <2>2, OrderInvStep
<1>2. PathTypes' /\ \A b \in Calls : CallInv(b)'
  <2>1. CASE UNCHANGED vars
    <3>1. PathTypes /\ \A b \in Calls : CallInv(b)
      BY TypesSplit DEF PathInv
    <3>2. \A b \in Calls : Untouched(b) /\ OrderUntouched(b)
      BY <2>1 DEF vars, pathVars, ovars, call, Untouched, OrderUntouched
    <3>3. PathTypes'
      BY <2>1, <3>1 DEF vars, pathVars, PathTypes
    <3>4. QED
      BY <3>1, <3>2, <3>3, Frame
  <2>2. CASE PathNext
    BY <2>2, ArriveInv, ClientLeavesInv, OrderRepliesInv, CallEndsInv, OrderReceivesInv,
       OrderCancelledInv, ServeInv, LookupsInv, OrderWorksInv, StoreFailsInv, GatewayDiesInv,
       OrderDiesInv
       DEF PathNext
  <2>3. QED
    BY <2>1, <2>2
<1>3. QED
  BY <1>1, <1>2, TypesSplit DEF PathInv, OrderInv

(* The invariant of a request on its way through the four services.        *)
THEOREM PathInvariance == PathSpec => []PathInv
  BY PathInvInit, PathInvStep, PTL DEF PathSpec

(* What the client is told is true, now and later: an order it was shown   *)
(* is stored as shown, and a refused one never is, whichever of the        *)
(* services, databases and connections fails on the way.                   *)
THEOREM TruthfulAnswer == PathSpec => []AnswerIsTrue
<1>1. PathInv => AnswerIsTrue
  BY DEF PathInv, CallInv, AnswerIsTrue
<1>2. QED
  BY <1>1, PathInvariance, PTL

(* The status and the level of the log put the blame where it belongs.     *)
THEOREM RightBlame == PathSpec => []BlameIsRight
<1>1. PathInv => BlameIsRight
  BY DEF PathInv, CallInv, BlameIsRight
<1>2. QED
  BY <1>1, PathInvariance, PTL

(* No text of Postgres or of the transport reaches the client.             *)
THEOREM NothingLeaksOut == PathSpec => []NothingInternalShown
<1>1. PathInv => NothingInternalShown
  BY DEF PathInv, CallInv, NothingInternalShown
<1>2. QED
  BY <1>1, PathInvariance, PTL

(* The order service in its environment is the one that OrderService takes *)
(* on its own: its theorems hold of the whole path.                        *)
THEOREM PathImplementsOrder == PathSpec => OrderSpec
<1>1. PathInit => OrderInit
  BY DEF PathInit
<1>2. PathInv => PathTypeOK
  BY DEF PathInv
<1>3. QED
  BY <1>1, <1>2, PathRefinesOrder, PathInvariance, PTL DEF PathSpec, OrderSpec

(* The amount a client is shown for the order it created is the sum of     *)
(* price times quantity over the items it asked for, unless no int64 holds *)
(* that sum; it is never negative.                                         *)
ShownAmountExact ==
    \A c \in Calls : response[c].status = 201 =>
        /\ response[c].total \in 0 .. Half - 1
        /\ Sum(http[c].items) < Half => response[c].total = Sum(http[c].items)

THEOREM ShownAmount == PathSpec => []ShownAmountExact
<1>1. PathInv => ShownAmountExact
  <2> SUFFICES ASSUME PathInv, NEW c \in Calls, response[c].status = 201
               PROVE  /\ response[c].total \in 0 .. Half - 1
                      /\ Sum(http[c].items) < Half => response[c].total = Sum(http[c].items)
    BY DEF ShownAmountExact
  <2>1. CallInv(c) /\ AmountExactIfFits
    BY DEF PathInv, OrderInv
  <2>2. c \in rows["orders"] /\ response[c].total = total[c] /\ stage[c] = "ended"
    BY <2>1 DEF CallInv, ToldTruly, Stored, AnswerStays, Tables
  <2>3. request[c] = http[c].items
    BY <2>1, <2>2 DEF CallInv, OrderFollows
  <2>4. QED
    BY <2>1, <2>2, <2>3 DEF AmountExactIfFits
<1>2. QED
  BY <1>1, PathInvariance, PTL

(* So the whole path keeps the first part of EventDelivery: whatever fails *)
(* between the client and the database, an event joins the outbox once and *)
(* in one step, and stays.                                                 *)
THEOREM PathAccepts == PathSpec => Outbox!Delivery
  BY PathImplementsOrder, OutboxAccepts, PTL
=============================================================================
