----------------------------- MODULE ASHandler -----------------------------
(***************************************************************************)
(* The http.Handler that NewASHandler builds around a consumer's AS        *)
(* (server/as.go), with its log and metric hooks (server/middleware.go),   *)
(* handling one request of any client: routing, decoding, the call of the  *)
(* AS, the mapping of its outcome to a response, and the hooks.            *)
(*                                                                         *)
(* The consumer's AS is external: it may return a value, a nil value, an   *)
(* error that wraps any of the library's error types, or panic.  So are    *)
(* the hooks, which may panic.  net/http recovers from a panic by closing  *)
(* the connection; what the handler wrote is then still in its buffer.     *)
(*                                                                         *)
(* This module has the actions; Exchange composes them with a client.      *)
(***************************************************************************)
EXTENDS Integers, Sequences

CONSTANTS
  None,     (* No request, no response, no event, no error code.           *)
  MaxTypes  (* Of how many of the library's types an error chain has one.  *)

ASSUME MaxTypesAssumption == MaxTypes \in Nat \ {0}

VARIABLES
  hooks,     (* The hooks installed: a subset of {"log", "metric"}.        *)
  request,   (* The request on the wire, None before there is one.         *)
  stage,     (* How far the handler is: "idle", "called" (in the AS),      *)
             (* "returned", "logged", "finished", or "panicked".           *)
  served,    (* What the AS method was called with, and how it ended.      *)
  response,  (* What the handler wrote.                                    *)
  again,     (* Whether it called WriteHeader a second time.               *)
  capture,   (* The statusCapture between the handler and the writer.      *)
  logged,    (* The event the log hook was given.                          *)
  counted    (* The event the metric hook was given.                       *)

handlerVars ==
  <<hooks, request, stage, served, response, again, capture, logged, counted>>

-----------------------------------------------------------------------------
(* Requests.                                                               *)

Methods   == {"GET", "POST", "PUT", "DELETE", "PATCH"}
Endpoints == {"token", "permission", "introspect", "resource_set", "elsewhere"}

(***************************************************************************)
(* Ids in the path: none in "/resource_set", an empty one in               *)
(* "/resource_set/", one with a slash in it, and names of resources.       *)
(***************************************************************************)
Names   == {"plain", "decoded", "cleaned"}
PathIds == Names \cup {None, "", "nested"}

(***************************************************************************)
(* Bodies.  "good" is what the endpoint expects and "foreign" the same     *)
(* under another content type; "malformed" does not parse and "huge" is    *)
(* beyond the limit (1 MiB of JSON, 10 MiB of a form).  A permission body  *)
(* lists permissions, a token form has a grant_type.                       *)
(***************************************************************************)
Bodies  == {"none", "good", "foreign", "null", "malformed", "huge"}
Batches == {<<>>, <<"p">>, <<"p", "q">>}
Grants  == {"uma-ticket", "another"}

Request(method, endpoint, id, body, items, grant, auth) ==
  [method |-> method, endpoint |-> endpoint, id |-> id, body |-> body,
   items |-> items, grant |-> grant, auth |-> auth]

Requests ==
  {r \in [method : Methods, endpoint : Endpoints, id : PathIds, body : Bodies,
          items : Batches, grant : Grants, auth : {"none", "PAT"}] :
     /\ r.id # None => r.endpoint = "resource_set"
     /\ r.grant # "uma-ticket" => r.endpoint = "token"
     /\ r.items # <<>> => r.endpoint = "permission" /\ r.body \in {"good", "foreign"}}

-----------------------------------------------------------------------------
(* Operations and the requests that reach them.                            *)

IdOps == {"read", "update", "delete"}
Ops   == {"token", "permission", "introspect", "create", "list"} \cup IdOps

(* Mutant: the handlers of POST endpoints are not wrapped in methodOnly.   *)
RoutesAnyMethod ==
  (Methods \X {<<"token", "token">>, <<"permission", "permission">>,
               <<"introspect", "introspect">>})
    \cup {<<"POST", <<"resource_set", "create">>>>, <<"GET", <<"resource_set", "list">>>>,
          <<"GET", <<"resource_set", "read">>>>, <<"PUT", <<"resource_set", "update">>>>,
          <<"DELETE", <<"resource_set", "delete">>>>}

(* The routing table: a method, and an endpoint with its operation.        *)
Routes ==
  {<<"POST", <<"token", "token">>>>, <<"POST", <<"permission", "permission">>>>,
   <<"POST", <<"introspect", "introspect">>>>,
   <<"POST", <<"resource_set", "create">>>>, <<"GET", <<"resource_set", "list">>>>,
   <<"GET", <<"resource_set", "read">>>>, <<"PUT", <<"resource_set", "update">>>>,
   <<"DELETE", <<"resource_set", "delete">>>>}

RoutedTo(r, op) ==
  /\ <<r.method, <<r.endpoint, op>>>> \in Routes
  /\ (r.id # None) = (op \in IdOps)

(* A path under /resource_set that names no resource.                      *)
NoSuchPath(r) == r.id \in {"", "nested"}

FormOps == {"token", "introspect"}
JSONOps == {"permission", "create", "update"}
BodyOps == FormOps \cup JSONOps

(***************************************************************************)
(* ParseForm leaves the form empty when the content type is not a form's.  *)
(* JSON is read whatever its content type, and null decodes into the zero  *)
(* value.                                                                  *)
(***************************************************************************)
Unreadable(op, r) ==
  \/ op \in FormOps \cup JSONOps /\ r.body \in {"malformed", "huge"}
  \/ op \in JSONOps /\ r.body = "none"

EmptyBatch(op, r) == op = "permission" /\ r.items = <<>>

(* What the AS method is given: of a batch, the first permission.          *)
Argument(op, r) ==
  IF op = "permission" THEN r.items[1]
  ELSE IF op \notin BodyOps THEN None
  ELSE IF r.body = "good" \/ (op \in JSONOps /\ r.body = "foreign") THEN "given"
  ELSE "zero"

-----------------------------------------------------------------------------
(* Errors.                                                                 *)

Codes == {"invalid_grant", "invalid_scope", "invalid_token", "need_info",
          "request_submitted", "not_authorized", "extension", ""}

(***************************************************************************)
(* An error is the chain it wraps: at most one error of each of the        *)
(* library's types, with its code, and anything else.                      *)
(***************************************************************************)
Chains == [need : {"need_info", "", None}, invalid : BOOLEAN,
           oauth : Codes \cup {None}, notImplemented : BOOLEAN]

TypesIn(e) ==
  (IF e.need # None THEN 1 ELSE 0) + (IF e.invalid THEN 1 ELSE 0)
    + (IF e.oauth # None THEN 1 ELSE 0) + (IF e.notImplemented THEN 1 ELSE 0)

Errors == {e \in Chains : TypesIn(e) <= MaxTypes}

OAuth(code) == [need |-> None, invalid |-> FALSE, oauth |-> code,
                notImplemented |-> FALSE]

Invalid == [need |-> None, invalid |-> TRUE, oauth |-> None, notImplemented |-> FALSE]

-----------------------------------------------------------------------------
(* Responses.  Bodies: none, the JSON null, a value, a list of ids, an     *)
(* OAuth envelope (with a code and perhaps a ticket), or other text.       *)

Successes == {"OK", "Created", "NoContent"}
Refusals  == {"BadRequest", "Unauthorized", "Forbidden", "NotFound", "MethodNotAllowed",
              "InternalServerError", "NotImplemented", "BadGateway"}
Statuses  == Successes \cup Refusals

Responses == [status : Statuses,
              body : {"none", "null", "value", "ids", "envelope", "text"},
              code : Codes \cup {None}, ticket : BOOLEAN]

(* What a hook is told.                                                    *)
Events == [endpoint : Endpoints \ {"elsewhere"}, status : Statuses]

ASSUME NoneAssumption ==
  /\ None \notin Requests \cup Responses \cup Events \cup Errors
  /\ None \notin Ops \cup Codes \cup Names \cup {"nested", "given", "zero", "p", "q"}

Response(status, body, code, ticket) ==
  [status |-> status, body |-> body, code |-> code, ticket |-> ticket]

Bare(status) == Response(status, "none", None, FALSE)

Envelope(status, code) == Response(status, "envelope", code, FALSE)

SuccessStatus(op) ==
  CASE op \in {"permission", "create"} -> "Created"
    [] op = "delete"                   -> "NoContent"
    [] OTHER                           -> "OK"

(* Mutant: a status table without a default.                               *)
StatusFromTable(code) ==
  CASE code = "invalid_token" -> "Unauthorized"
    [] code \in {"need_info", "not_authorized", "request_submitted"} -> "Forbidden"
    [] code \in {"invalid_grant", "invalid_scope"} -> "BadRequest"
    [] OTHER -> ""

StatusForCode(code) ==
  CASE code = "invalid_token" -> "Unauthorized"
    [] code \in {"need_info", "not_authorized", "request_submitted"} -> "Forbidden"
    [] OTHER -> "BadRequest"

(* Mutant: an OAuthError in the chain hides a NeedInfoError.               *)
WriteOAuthFirst(e) ==
  IF e.oauth # None THEN Envelope(StatusForCode(e.oauth), e.oauth)
  ELSE IF e.need # None THEN Response("Forbidden", "envelope", e.need, TRUE)
  ELSE IF e.invalid THEN Envelope("BadRequest", "invalid_grant")
  ELSE Bare(IF e.notImplemented THEN "NotImplemented" ELSE "InternalServerError")

(* The first type in this order that the chain holds decides.              *)
WriteError(e) ==
  IF e.need # None THEN Response("Forbidden", "envelope", e.need, TRUE)
  ELSE IF e.invalid THEN Envelope("BadRequest", "invalid_grant")
  ELSE IF e.oauth # None THEN Envelope(StatusForCode(e.oauth), e.oauth)
  ELSE Bare(IF e.notImplemented THEN "NotImplemented" ELSE "InternalServerError")

(***************************************************************************)
(* A delete has no body and a nil list is written as an empty one.  Any    *)
(* other nil is a typed pointer, not a nil interface: written as null.     *)
(***************************************************************************)
Success(op, value) ==
  Response(SuccessStatus(op),
           CASE op = "delete" -> "none"
             [] op = "list"   -> "ids"
             [] OTHER         -> IF value = "nil" THEN "null" ELSE "value",
           None, FALSE)

-----------------------------------------------------------------------------
NotServed == [by |-> None, id |-> None, arg |-> None, kind |-> "not called", error |-> None]

(* A statusCapture before the handler runs.                                *)
Uncaptured == [status |-> "OK", captured |-> FALSE]

HandlerInit ==
  /\ request = None
  /\ stage = "idle"
  /\ served = NotServed
  /\ response = None
  /\ again = FALSE
  /\ capture = Uncaptured
  /\ logged = None
  /\ counted = None

(* WriteHeader: the first status counts.                                   *)
Write(r) ==
  /\ response' = IF response = None THEN r ELSE response
  /\ again' = (again \/ response # None)

(* Mutant: the wrapper passes WriteHeader on without looking at it.        *)
CaptureNothing(status) == UNCHANGED capture

(* What the wrapper keeps of a WriteHeader; without hooks there is none.   *)
Capture(status) ==
  capture' = IF hooks = {} \/ capture.captured THEN capture
             ELSE [status |-> status, captured |-> TRUE]

Answer(r) ==
  /\ Write(r)
  /\ Capture(r.status)
  /\ stage' = "returned"
  /\ UNCHANGED <<hooks, request, logged, counted>>

Arrived == stage = "idle" /\ request # None

(* No route: the mux's own 404, outside every wrapper.                     *)
NotRouted ==
  /\ Arrived
  /\ request.endpoint = "elsewhere"
  /\ Write(Response("NotFound", "text", None, FALSE))
  /\ stage' = "finished"
  /\ UNCHANGED <<hooks, request, served, capture, logged, counted>>

NotFound ==
  /\ Arrived
  /\ NoSuchPath(request)
  /\ Answer(Response("NotFound", "text", None, FALSE))
  /\ UNCHANGED served

MethodNotAllowed ==
  /\ Arrived
  /\ request.endpoint # "elsewhere" /\ ~NoSuchPath(request)
  /\ \A op \in Ops : ~RoutedTo(request, op)
  /\ Answer(Bare("MethodNotAllowed"))
  /\ UNCHANGED served

Handling(op) == Arrived /\ ~NoSuchPath(request) /\ RoutedTo(request, op)

Called(op, arg) ==
  served' = [by |-> op, id |-> IF op \in IdOps THEN request.id ELSE None,
             arg |-> arg, kind |-> "called", error |-> None]

(* Mutant: the caller does not stop after the refusal.                     *)
RefuseBodyAndGoOn(op) ==
  /\ Handling(op) /\ Unreadable(op, request)
  /\ Write(WriteError(OAuth(IF op = "introspect" THEN "invalid_token" ELSE "invalid_grant")))
  /\ Capture("BadRequest")
  /\ Called(op, "zero")
  /\ stage' = "called"
  /\ UNCHANGED <<hooks, request, logged, counted>>

RefuseBody(op) ==
  /\ Handling(op) /\ Unreadable(op, request)
  /\ Answer(WriteError(OAuth(IF op = "introspect" THEN "invalid_token" ELSE "invalid_grant")))
  /\ UNCHANGED served

RefuseBatch(op) ==
  /\ Handling(op) /\ ~Unreadable(op, request) /\ EmptyBatch(op, request)
  /\ Answer(WriteError(Invalid))
  /\ UNCHANGED served

CallAS(op) ==
  /\ Handling(op) /\ ~Unreadable(op, request) /\ ~EmptyBatch(op, request)
  /\ Called(op, Argument(op, request))
  /\ stage' = "called"
  /\ UNCHANGED <<hooks, request, response, again, capture, logged, counted>>

ASEnds(kind, error) ==
  /\ stage = "called"
  /\ served' = [served EXCEPT !.kind = kind, !.error = error]

ASReturns(value) == ASEnds(value, None) /\ Answer(Success(served.by, value))

ASFails(e) == ASEnds("error", e) /\ Answer(WriteError(e))

(* The AS panics, or returns a nil ResourceSetResponse, which its handler  *)
(* dereferences.  The hooks are not called.                                *)
ASPanics ==
  /\ ASEnds("panic", None)
  /\ stage' = "panicked"
  /\ UNCHANGED <<hooks, request, response, again, capture, logged, counted>>

-----------------------------------------------------------------------------
(* The instrumentation around a handler that returned.                     *)

(* What the hooks are told: the label the route was registered under, and  *)
(* the status in the wrapper.                                              *)
Event == [endpoint |-> request.endpoint, status |-> capture.status]

(* A hook is called, and may panic; a nil one is skipped.                  *)
Log ==
  /\ stage = "returned"
  /\ logged' = IF "log" \in hooks THEN Event ELSE None
  /\ \/ stage' = "logged"
     \/ "log" \in hooks /\ stage' = "panicked"
  /\ UNCHANGED <<hooks, request, served, response, again, capture, counted>>

Count ==
  /\ stage = "logged"
  /\ counted' = IF "metric" \in hooks THEN Event ELSE None
  /\ \/ stage' = "finished"
     \/ "metric" \in hooks /\ stage' = "panicked"
  /\ UNCHANGED <<hooks, request, served, response, again, capture, logged>>

HandlerStep ==
  \/ NotRouted \/ NotFound \/ MethodNotAllowed
  \/ \E op \in Ops : RefuseBody(op) \/ RefuseBatch(op) \/ CallAS(op)
  \/ \E value \in {"value", "nil"} : ASReturns(value)
  \/ \E e \in Errors : ASFails(e)
  \/ ASPanics
  \/ Log \/ Count

-----------------------------------------------------------------------------
(* Properties of the handler.                                              *)

HandlerTypeOK ==
  /\ hooks \subseteq {"log", "metric"}
  /\ request \in Requests \cup {None}
  /\ stage \in {"idle", "called", "returned", "logged", "finished", "panicked"}
  /\ served \in [by : Ops \cup {None}, id : PathIds, arg : {"given", "zero", "p", "q", None},
                 kind : {"not called", "called", "value", "nil", "error", "panic"},
                 error : Errors \cup {None}]
  /\ response \in Responses \cup {None}
  /\ again \in BOOLEAN
  /\ capture \in [status : Statuses, captured : BOOLEAN]
  /\ logged \in Events \cup {None}
  /\ counted \in Events \cup {None}

(***************************************************************************)
(* One request, one answer.  A request is answered by exactly one          *)
(* WriteHeader on whatever way it leaves its handler, and by none when the *)
(* AS panicked; the answer says success exactly when the AS was called and *)
(* did what it was asked (server/as.go:235-468).                           *)
(***************************************************************************)
OneAnswer ==
  /\ ~again
  /\ stage \in {"idle", "called"} \/ served.kind = "panic" => response = None
  /\ stage \in {"returned", "logged", "finished"} => response # None
  /\ response # None => (response.status \in Successes) = (served.kind \in {"value", "nil"})

(***************************************************************************)
(* The hooks and the client agree, though each reads its own copy of the   *)
(* status: the client the one in the response, the hooks the one the       *)
(* wrapper kept, which starts as a 200.  When a response leaves, each      *)
(* installed hook was told the very status that leaves; of a handler that  *)
(* panicked the hooks know nothing, and a request that was counted was     *)
(* logged before, as the same (server/middleware.go:89-132).               *)
(***************************************************************************)
HooksSeeTheAnswer ==
  /\ stage = "finished" /\ request.endpoint # "elsewhere" =>
       /\ "log" \in hooks => logged # None /\ logged.status = response.status
       /\ "metric" \in hooks => counted # None /\ counted.status = response.status
  /\ served.kind = "panic" \/ response = None => logged = None /\ counted = None
  /\ counted # None /\ "log" \in hooks => logged = counted
=============================================================================
