------------------------------ MODULE Exchange ------------------------------
(***************************************************************************)
(* One HTTP exchange with the AS handler.  A client method builds a        *)
(* request (client/token.go, permission.go, introspection.go,              *)
(* resource_set.go), the handler serves it (ASHandler), and the client     *)
(* maps the response to a result; or another HTTP client sends a request   *)
(* that no client method makes.  In between the request or the response    *)
(* can be lost, or a gateway can answer instead, while the handler goes    *)
(* on with what reached it.                                                *)
(***************************************************************************)
EXTENDS ASHandler

VARIABLES
  pat,      (* How the client was given its PAT: not, WithPAT, NewPATDoer. *)
  pc,       (* The caller: "idle", "sent" or "done".                       *)
  call,     (* The operation and its arguments; None for another caller.   *)
  answerer, (* Who answered: "server", "gateway", or None.                 *)
  page,     (* What the gateway answered, None if it did not.              *)
  result    (* What the client method returned.                            *)

callerVars == <<pat, pc, call, answerer, page, result>>
vars == <<handlerVars, callerVars>>

-----------------------------------------------------------------------------
(***************************************************************************)
(* Classes of id arguments: "plain" needs no escaping; "query" is a plain  *)
(* id, then a ? or # and more; "escape" holds a valid percent-escape,      *)
(* which decodes to "decoded"; "rooted" starts with a slash, which the mux *)
(* redirects to the path without it; "slash" holds a / (or %2F); "dot" is  *)
(* "."; "parent" is "../resource_set", "sibling" "../token" and "away"     *)
(* climbs to a path that is not an endpoint; "malformed" is not a URL.     *)
(***************************************************************************)
IdArgs == {"", "plain", "query", "escape", "rooted", "slash", "dot", "parent",
           "sibling", "away", "malformed"}

Calls == {c \in [op : Ops, id : IdArgs, nil : BOOLEAN, huge : BOOLEAN] :
            /\ c.op \notin IdOps => c.id = ""
            /\ c.nil \/ c.huge => c.op \in BodyOps
            /\ ~(c.nil /\ c.huge)}

(* Mutant: every request is authorized.                                    *)
AuthorizeAll(how, op) == IF how = "none" THEN "none" ELSE "PAT"

(* The Authorization header a request carries.  authorize is called for    *)
(* the protection API only; a PAT doer marks every request.                *)
Authorization(how, op) ==
  IF how = "doer" \/ (how = "option" /\ op # "token") THEN "PAT" ELSE "none"

MethodOf(op) ==
  CASE op \in {"list", "read"} -> "GET"
    [] op = "update"           -> "PUT"
    [] op = "delete"           -> "DELETE"
    [] OTHER                   -> "POST"

(***************************************************************************)
(* endpointURL resolves "/resource_set/" and the id as a URL reference,    *)
(* and the mux cleans the path: the endpoint and the id that remain.       *)
(***************************************************************************)
PathOf(op, id) ==
  CASE op \notin IdOps \cup {"create", "list"} -> <<op, None>>
    [] op \in {"create", "list"} \/ id = "parent" -> <<"resource_set", None>>
    [] id \in {"plain", "query"} -> <<"resource_set", "plain">>
    [] id = "escape"             -> <<"resource_set", "decoded">>
    [] id = "rooted"             -> <<"resource_set", "cleaned">>
    [] id = "slash"              -> <<"resource_set", "nested">>
    [] id = "dot"                -> <<"resource_set", "">>
    [] id = "sibling"            -> <<"token", None>>
    [] OTHER                     -> <<"elsewhere", None>>

(* The request of a client method.  A permission goes out as a batch.      *)
RequestOf(how, c) ==
  Request(MethodOf(c.op), PathOf(c.op, c.id)[1], PathOf(c.op, c.id)[2],
          IF c.huge THEN "huge" ELSE IF c.op \in BodyOps THEN "good" ELSE "none",
          IF c.op = "permission" /\ ~c.huge THEN <<"p">> ELSE <<>>,
          "uma-ticket", Authorization(how, c.op))

-----------------------------------------------------------------------------
(* Results.                                                                *)

Results == [kind : {"value", "zero", "need_info", "oauth", "opaque", "transport", "panic"},
            code : Codes \cup {None}, ticket : BOOLEAN]

ASSUME NoResultAssumption ==
  None \notin Calls \cup Results \cup {"server", "gateway"}

Result(kind, code, ticket) == [kind |-> kind, code |-> code, ticket |-> ticket]

(* An untyped error: for an HTTP answer, and for a call or an answer that  *)
(* did not get through.                                                    *)
Opaque    == Result("opaque", None, FALSE)
Transport == Result("transport", None, FALSE)

DecodeOAuthError(r) ==
  IF r.body # "envelope" \/ r.code = "" THEN Opaque
  ELSE IF r.code = "need_info" THEN Result("need_info", r.code, r.ticket)
  ELSE Result("oauth", r.code, FALSE)

(* Mutant: the status is not looked at.                                    *)
DecodeAnyStatus(op, r) ==
  CASE op = "delete" \/ r.body = (IF op = "list" THEN "ids" ELSE "value") ->
         Result("value", None, FALSE)
    [] op # "delete" /\ r.body \in {"null", "envelope"} -> Result("zero", None, FALSE)
    [] OTHER -> Opaque

(* JSON null decodes into the zero value without an error, and so does an  *)
(* object with none of the fields; a list of ids is not an object.         *)
Decode(op, r) ==
  IF op = "delete" /\ r.status \in {"OK", "NoContent"} THEN Result("value", None, FALSE)
  ELSE IF r.status # SuccessStatus(op) THEN DecodeOAuthError(r)
  ELSE CASE r.body = (IF op = "list" THEN "ids" ELSE "value") -> Result("value", None, FALSE)
         [] r.body = "null" \/ (op # "list" /\ r.body = "envelope") ->
              Result("zero", None, FALSE)
         [] OTHER -> Opaque

-----------------------------------------------------------------------------
Init ==
  /\ HandlerInit
  /\ hooks \in SUBSET {"log", "metric"}
  /\ pat \in {"none", "option", "doer"}
  /\ call \in Calls \cup {None}
  /\ pc = "idle"
  /\ answerer = None
  /\ page = None
  /\ result = None

Finish(who, p, r) ==
  /\ pc' = "done"
  /\ answerer' = who
  /\ page' = p
  /\ result' = r
  /\ UNCHANGED <<handlerVars, pat, call>>

(* A nil argument or an empty id never reaches the network.                *)
RefuseLocally ==
  /\ pc = "idle" /\ call # None
  /\ call.nil \/ (call.op \in IdOps /\ call.id = "")
  /\ Finish(None, None, Transport)

(* endpointURL drops url.Parse's error and resolves against a nil URL.     *)
PanicOnPath ==
  /\ pc = "idle" /\ call # None
  /\ ~call.nil /\ call.id = "malformed"
  /\ Finish(None, None, Result("panic", None, FALSE))

Put(r) ==
  /\ pc = "idle"
  /\ pc' = "sent"
  /\ request' = r
  /\ UNCHANGED <<hooks, stage, served, response, again, capture, logged, counted,
                 pat, call, answerer, page, result>>

Send ==
  /\ call # None
  /\ ~call.nil /\ call.id # "malformed"
  /\ call.op \in IdOps => call.id # ""
  /\ Put(RequestOf(pat, call))

(* Another HTTP client sends anything it likes.                            *)
SendAny(r) == call = None /\ pat = "none" /\ r.auth = "none" /\ Put(r)

Serve == HandlerStep /\ UNCHANGED callerVars

Waiting == pc = "sent" /\ call # None

(* A response leaves the server's buffer when its handler has finished.    *)
Deliver ==
  /\ Waiting /\ stage = "finished"
  /\ Finish("server", None, Decode(call.op, response))

(* The request or its answer is lost or cut short, or the connection is    *)
(* closed by a panic: an error of the doer or of reading the body.         *)
Lose == Waiting /\ Finish(None, None, Transport)

(***************************************************************************)
(* A gateway answers instead, with a status of its own and a page of text, *)
(* or in JSON: an envelope with or without a code, null, or a value.       *)
(***************************************************************************)
Pages(op) ==
  {Response(s, "text", None, FALSE) : s \in {"OK", SuccessStatus(op), "BadGateway"}}
    \cup {Response(SuccessStatus(op), b, None, FALSE) : b \in {"null", "value", "ids"}}
    \cup {Envelope(SuccessStatus(op), code) : code \in {"", "invalid_token"}}
    \cup {Envelope("BadGateway", code) : code \in {"", "invalid_token"}}
    \cup {Response("BadGateway", "envelope", "need_info", TRUE)}

GatewayAnswers(op, p) == Waiting /\ call.op = op /\ Finish("gateway", p, Decode(op, p))

Next ==
  \/ RefuseLocally \/ PanicOnPath \/ Send
  \/ \E r \in Requests : SendAny(r)
  \/ Serve
  \/ Deliver \/ Lose
  \/ \E op \in Ops : \E p \in Pages(op) : GatewayAnswers(op, p)

Spec == Init /\ [][Next]_vars

-----------------------------------------------------------------------------
(* Properties.                                                             *)

TypeOK ==
  /\ HandlerTypeOK
  /\ pat \in {"none", "option", "doer"}
  /\ pc \in {"idle", "sent", "done"}
  /\ call \in Calls \cup {None}
  /\ answerer \in {None, "server", "gateway"}
  /\ page \in Responses \cup {None}
  /\ (page # None) = (answerer = "gateway")
  /\ result \in Results \cup {None}
  /\ (pc = "done") = (result # None)

(***************************************************************************)
(* Where a success or a typed error comes from.  When the AS handler's     *)
(* answer arrives, a value means that the AS did what this client asked,   *)
(* an empty value that the AS returned nil, never a failure, and a code is *)
(* that of the AS's error or of a body the handler could not read.  A      *)
(* gateway in between is believed no more than its answer says: text is    *)
(* neither, except that a delete reads no body; a success takes the status *)
(* the operation has, and a typed error its code in an envelope.  Without  *)
(* an answer there is neither (server/as.go:246-468, client/token.go:61-   *)
(* 102, client/resource_set.go:123-199).                                   *)
(***************************************************************************)
FromTheServer ==
  /\ result.kind \in {"value", "zero"} => served.by = call.op
  /\ result.kind = "value" =>
       served.kind = "value" \/ (call.op \in {"list", "delete"} /\ served.kind = "nil")
  /\ result.kind = "zero" => served.kind = "nil"
  /\ result.kind = "need_info" =>
       served.kind = "error" /\ "need_info" \in {served.error.need, served.error.oauth}
  /\ result.kind = "oauth" =>
       IF served.kind = "error" THEN served.error.invalid \/ result.code = served.error.oauth
       ELSE call.huge /\ result.code \in {"invalid_grant", "invalid_token"}

FromAGateway ==
  /\ result.kind \in {"value", "zero"} =>
       \/ page.status = SuccessStatus(call.op) /\ page.body # "text"
       \/ call.op = "delete" /\ page.status \in {"OK", "NoContent"}
  /\ result.kind \in {"need_info", "oauth"} =>
       /\ page.status # SuccessStatus(call.op)
       /\ page.body = "envelope" /\ page.code = result.code

NothingInvented ==
  pc = "done" /\ call # None =>
    CASE answerer = "server"  -> FromTheServer
      [] answerer = "gateway" -> FromAGateway
      [] answerer = None      -> result.kind \in {"transport", "panic"}

(***************************************************************************)
(* A typed error survives being written as a status and an envelope and    *)
(* read back, whatever else the chain wraps: once delivered, a need_info   *)
(* error still has its fresh ticket, a ValidationError comes back as a     *)
(* typed OAuth error, and an OAuthError with its code.  An error that has  *)
(* no code, such as a NeedInfoError built without one, or that has no      *)
(* type, comes back untyped (server/as.go:444-487, client/token.go:84-     *)
(* 102).                                                                   *)
(***************************************************************************)
TypedErrorsSurvive ==
  answerer = "server" /\ served.kind = "error" =>
    LET e == served.error
    IN  CASE e.need = "need_info" -> result = Result("need_info", "need_info", TRUE)
          [] e.need = None /\ e.invalid -> result.kind = "oauth"
          [] e.need = None /\ ~e.invalid /\ e.oauth \notin {None, ""} -> result.code = e.oauth
          [] OTHER -> result = Opaque

(***************************************************************************)
(* The AS is asked what the caller asked.  A client method reaches its own *)
(* operation with its own argument and, if that has no URL syntax in it,   *)
(* its own id; an id that has some may name another resource, and one that *)
(* climbs to the collection turns a read into a list, but none turns a     *)
(* call into another that changes the AS.  The PAT comes along with every  *)
(* call when the doer adds it, and with all but the ticket grant when      *)
(* WithPAT gave it.  Whoever asks, a GET reaches the operations that read  *)
(* or list resource sets, and no other method does; and of a batch of      *)
(* permissions, which no client method sends, the first alone is           *)
(* registered and answered for (client/client.go:190-221, client/doer.go:  *)
(* 17-64, server/as.go:198-212, 288-302, 358-396).                         *)
(***************************************************************************)
ServedAsAsked ==
  served.by # None =>
    /\ (request.method = "GET") = (served.by \in {"list", "read"})
    /\ served.by = "permission" => served.arg = request.items[1]
    /\ call # None =>
         /\ \/ served.by = call.op
            \/ call.id = "parent" /\ call.op = "read" /\ served.by = "list"
         /\ call.id = "plain" => served.id = "plain"
         /\ served.arg # "zero" /\ request.items \in {<<>>, <<"p">>}
         /\ (request.auth = "PAT") = (pat = "doer" \/ (pat = "option" /\ served.by # "token"))

-----------------------------------------------------------------------------
(* What the code's own comments say, where the code does otherwise.        *)

(* token.go:29-30, of TokenRequest: "grant_type is not exposed as a Go     *)
(* field: the encoder always emits UMATicketGrantType and the decoder      *)
(* enforces that exact URN."  token.go:93-95, of ParseTokenRequest: "The   *)
(* only invariant ParseTokenRequest enforces is that grant_type, when set, *)
(* matches UMATicketGrantType".                                            *)
GrantTypeEnforced ==
  served.by = "token" /\ request.body = "good" => request.grant = "uma-ticket"
=============================================================================
