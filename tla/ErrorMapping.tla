---------------------------- MODULE ErrorMapping ----------------------------
(***************************************************************************)
(* How an error travels: from Postgres or a context to an apperr.Error,    *)
(* through the interceptors of a gRPC server into a status, back into an   *)
(* apperr.Error at the client of that server, and from there into the      *)
(* status and the body of an HTTP response.                                *)
(*                                                                         *)
(* A text is abstracted to where it comes from: the public text of a code  *)
(* is named by the code, the text of a driver or of the transport is one   *)
(* of the PrivateTexts, and "" is no text.                                 *)
(***************************************************************************)

ServerErrors == {"INTERNAL", "UNKNOWN", "DATA_LOSS", "UNAVAILABLE", "DEADLINE_EXCEEDED",
                 "UNIMPLEMENTED"}
ClientErrors == {"INVALID_ARGUMENT", "FAILED_PRECONDITION", "OUT_OF_RANGE", "UNAUTHENTICATED",
                 "PERMISSION_DENIED", "NOT_FOUND", "ALREADY_EXISTS", "ABORTED",
                 "RESOURCE_EXHAUSTED", "CANCELED"}
Codes == ServerErrors \cup ClientErrors

(* Code.GRPC and CodeFromGRPC: the codes of both sides have the same names *)
(* and a string that is no Code of the package becomes an internal error.  *)
GRPC(code) == IF code \in Codes THEN code ELSE "INTERNAL"
CodeFromGRPC(grpc) ==
    CASE grpc = "OK"    -> ""
      [] grpc \in Codes -> grpc
      [] OTHER          -> "INTERNAL"

HTTP(code) ==
    CASE code \in {"INVALID_ARGUMENT", "FAILED_PRECONDITION", "OUT_OF_RANGE"} -> 400
      [] code = "UNAUTHENTICATED"               -> 401
      [] code = "PERMISSION_DENIED"             -> 403
      [] code = "NOT_FOUND"                     -> 404
      [] code \in {"ALREADY_EXISTS", "ABORTED"} -> 409
      [] code = "RESOURCE_EXHAUSTED"            -> 429
      [] code = "CANCELED"                      -> 499
      [] code = "UNIMPLEMENTED"                 -> 501
      [] code = "UNAVAILABLE"                   -> 503
      [] code = "DEADLINE_EXCEEDED"             -> 504
      [] OTHER                                  -> 500

Level(code) == IF code \in ServerErrors THEN "ERROR" ELSE "WARN"

PublicText(code) == IF code \in Codes \ {"UNKNOWN", "DATA_LOSS"} THEN code ELSE "INTERNAL"

-----------------------------------------------------------------------------
(* Errors of the program.  One that is no apperr.Error has no code, and    *)
(* its cause tells what it is.                                             *)

GivenTexts   == {"invalid request body", "validation failed"}
PrivateTexts == {"canceled", "deadline", "no_rows", "unique_violation", "exclusion_violation",
                 "query_canceled", "class_08", "class_22", "class_23", "class_40", "class_53",
                 "class_55", "class_57", "other", "product not found", "transport"}
Texts        == {""} \cup GivenTexts \cup PrivateTexts
Reasons      == {"", "INVALID_REQUEST_BODY", "VALIDATION_FAILED"}

New(code)     == [code |-> code, reason |-> "", message |-> "", cause |-> "", fields |-> {}]
NoError       == New("")
Caused(e, text) == [e EXCEPT !.cause = text]
Plain(cause)  == Caused(NoError, cause)

InvalidRequestBody ==
    [New("INVALID_ARGUMENT") EXCEPT !.reason = "INVALID_REQUEST_BODY",
                                    !.message = "invalid request body"]
ValidationFailed(fields) ==
    [New("INVALID_ARGUMENT") EXCEPT !.reason = "VALIDATION_FAILED",
                                    !.message = "validation failed", !.fields = fields]

(* ozzoerr.Map.                                                            *)
OzzoMap(fields) == IF fields = {} THEN NoError ELSE ValidationFailed(fields)

(* Error.Public: the text given to the error, or that of its code.         *)
Public(e) == IF e.message # "" THEN e.message ELSE PublicText(e.code)

(* apperr.From.                                                            *)
ContextCode(cause) ==
    CASE cause = "canceled" -> "CANCELED"
      [] cause = "deadline" -> "DEADLINE_EXCEEDED"
      [] OTHER              -> "INTERNAL"
From(e) == IF e.code # "" THEN e ELSE Caused(New(ContextCode(e.cause)), e.cause)

(* Mutant: the errors of the context are not recognised.                   *)
PgCode_NoContext(cause) ==
    IF cause = "no_rows" THEN "NOT_FOUND"
    ELSE IF cause \in {"class_08", "class_40", "class_53", "class_55", "class_57"} THEN "UNAVAILABLE"
    ELSE IF cause \in {"class_22", "class_23"} THEN "INVALID_ARGUMENT"
    ELSE "INTERNAL"

(* pgerr.Map: what the context, pgx or the SQLSTATE of Postgres says.      *)
PgCode(cause) ==
    CASE cause = "canceled"                       -> "CANCELED"
      [] cause \in {"deadline", "query_canceled"} -> "DEADLINE_EXCEEDED"
      [] cause = "no_rows"                        -> "NOT_FOUND"
      [] cause \in {"unique_violation", "exclusion_violation"} -> "ALREADY_EXISTS"
      [] cause \in {"class_22", "class_23"}       -> "INVALID_ARGUMENT"
      [] cause \in {"class_08", "class_40", "class_53", "class_55", "class_57"} -> "UNAVAILABLE"
      [] OTHER                                    -> "INTERNAL"

PgMap(e) == IF e.code # "" THEN e ELSE Caused(New(PgCode(e.cause)), e.cause)

-----------------------------------------------------------------------------
(* Statuses of a call.  One that the server of the program made carries    *)
(* the code in its ErrorInfo; one that the library made has no details.    *)

StatusOf(grpc, text) ==
    [grpc |-> grpc, message |-> text, info |-> "", reason |-> "", fields |-> {}]
OKStatus  == StatusOf("OK", "")
Raw(grpc) == StatusOf(grpc, "transport")

(* The Error interceptor, around the Logger interceptor.                   *)
Status(err) ==
    LET e == From(err) IN
    [grpc |-> GRPC(e.code), message |-> Public(e), info |-> e.code, reason |-> e.reason,
     fields |-> e.fields]

(* Mutant: the message of every status is taken over.                      *)
GrpcMap_AnyMessage(s) ==
    [code    |-> IF s.info # "" THEN s.info ELSE CodeFromGRPC(s.grpc),
     reason  |-> s.reason,
     message |-> s.message,
     cause   |-> s.message,
     fields  |-> s.fields]

(* grpcerr.Map.                                                            *)
GrpcMap(s) ==
    [code    |-> IF s.info # "" THEN s.info ELSE CodeFromGRPC(s.grpc),
     reason  |-> s.reason,
     message |-> IF s.info # "" THEN s.message ELSE "",
     cause   |-> s.message,
     fields  |-> s.fields]

(* response.Fail.                                                          *)
Fail(err) ==
    LET e == From(err) IN
    [status |-> HTTP(e.code), code |-> e.code, reason |-> e.reason, message |-> Public(e),
     fields |-> e.fields]
=============================================================================
