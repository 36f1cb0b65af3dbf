-------------------------- MODULE Exchange_proofs --------------------------
(***************************************************************************)
(* Proofs about Exchange: what one exchange may do, whatever the request,  *)
(* the AS's answer, the hooks and the network.                             *)
(***************************************************************************)
EXTENDS Exchange, TLAPS

-----------------------------------------------------------------------------
(***************************************************************************)
(* Lemmas on the pure operators.                                           *)
(***************************************************************************)

(* What a client method sends is a request (client/client.go:190-221).     *)
LEMMA RequestOfType ==
  ASSUME NEW how \in {"none", "option", "doer"}, NEW c \in Calls
  PROVE  RequestOf(how, c) \in Requests
<1>1. /\ c.op \in Ops /\ c.id \in IdArgs /\ c.huge \in BOOLEAN
      /\ c.op \notin IdOps => c.id = ""
  BY DEF Calls
<1>2. MethodOf(c.op) \in Methods
  BY <1>1 DEF MethodOf, Methods
<1>3. /\ PathOf(c.op, c.id)[1] \in Endpoints
      /\ PathOf(c.op, c.id)[2] \in PathIds
      /\ PathOf(c.op, c.id)[2] # None => PathOf(c.op, c.id)[1] = "resource_set"
  BY <1>1 DEF PathOf, Endpoints, PathIds, Names, Ops, IdOps, IdArgs
<1>4. Authorization(how, c.op) \in {"none", "PAT"}
  BY DEF Authorization
<1> DEFINE body == IF c.huge THEN "huge" ELSE IF c.op \in BodyOps THEN "good" ELSE "none"
           items == IF c.op = "permission" /\ ~c.huge THEN <<"p">> ELSE <<>>
<1>5. body \in Bodies /\ items \in Batches
  BY DEF Bodies, Batches
<1>6. items # <<>> => PathOf(c.op, c.id)[1] = "permission" /\ body = "good"
  BY <1>1 DEF PathOf, BodyOps, JSONOps, IdOps
<1> QED
  BY <1>2, <1>3, <1>4, <1>5, <1>6 DEF RequestOf, Request, Requests, Grants

(* An error is always answered with an error status (server/as.go:444-487).*)
LEMMA WriteErrorType ==
  ASSUME NEW e \in Errors
  PROVE  WriteError(e) \in Responses /\ WriteError(e).status \in Refusals
<1>1. /\ e.need \in {"need_info", "", None}
      /\ e.oauth \in Codes \cup {None}
  BY DEF Errors, Chains
<1> QED
  BY <1>1 DEF WriteError, Responses, Response, Envelope, Bare, StatusForCode,
     Statuses, Successes, Refusals, Codes

LEMMA SuccessType ==
  ASSUME NEW op \in Ops, NEW value \in {"value", "nil"}
  PROVE  Success(op, value) \in Responses
  BY DEF Success, SuccessStatus, Responses, Response, Statuses, Successes

LEMMA DecodeType ==
  ASSUME NEW op \in Ops, NEW r \in Responses
  PROVE  Decode(op, r) \in Results
<1> USE DEF Result, Results
<1>1. r.code \in Codes \cup {None} /\ r.ticket \in BOOLEAN
  BY DEF Responses
<1>2. DecodeOAuthError(r) \in Results
  BY <1>1 DEF DecodeOAuthError, Opaque
<1>3. Result("value", None, FALSE) \in Results /\ Result("zero", None, FALSE) \in Results
      /\ Opaque \in Results
  BY DEF Opaque
<1> QED
  <2> HIDE DEF Result, Results
  <2> QED BY <1>2, <1>3 DEF Decode

(* What a gateway answers is a response.                                   *)
LEMMA PagesType ==
  ASSUME NEW op \in Ops, NEW p \in Pages(op)
  PROVE  p \in Responses
<1>1. SuccessStatus(op) \in Statuses /\ "OK" \in Statuses /\ "BadGateway" \in Statuses
  BY DEF SuccessStatus, Statuses, Successes, Refusals
<1>2. ASSUME NEW s \in Statuses,
             NEW body \in {"none", "null", "value", "ids", "envelope", "text"},
             NEW code \in Codes \cup {None}, NEW ticket \in BOOLEAN
      PROVE  Response(s, body, code, ticket) \in Responses
  BY DEF Response, Responses
<1>3. {"", "invalid_token", "need_info"} \subseteq Codes
  BY DEF Codes
<1>4. \A s \in {"OK", SuccessStatus(op), "BadGateway"} :
        Response(s, "text", None, FALSE) \in Responses
  BY <1>1, <1>2
<1>5. \A b \in {"null", "value", "ids"} :
        Response(SuccessStatus(op), b, None, FALSE) \in Responses
  BY <1>1, <1>2
<1>6. \A code \in {"", "invalid_token"} :
        Envelope(SuccessStatus(op), code) \in Responses /\ Envelope("BadGateway", code) \in Responses
  BY <1>1, <1>2, <1>3 DEF Envelope
<1>7. Response("BadGateway", "envelope", "need_info", TRUE) \in Responses
  BY <1>1, <1>2, <1>3
<1> QED
  BY <1>4, <1>5, <1>6, <1>7 DEF Pages

(* What the routing table relates (server/as.go:213-244).                  *)
LEMMA Routing ==
  ASSUME NEW r \in Requests, NEW op \in Ops, RoutedTo(r, op)
  PROVE  /\ r.endpoint # "elsewhere"
         /\ (r.method = "GET") = (op \in {"list", "read"})
         /\ op \in IdOps => r.id # None
  BY NoneAssumption DEF RoutedTo, Routes, IdOps, Ops

(* Where a client method's request is routed.                              *)
LEMMA OwnRoute ==
  ASSUME NEW how \in {"none", "option", "doer"}, NEW c \in Calls, NEW op \in Ops,
         c.id # "malformed", c.op \in IdOps => c.id # "",
         RoutedTo(RequestOf(how, c), op)
  PROVE  \/ op = c.op
         \/ c.id = "parent" /\ c.op = "read" /\ op = "list"
<1>1. c.op \in Ops /\ c.id \in IdArgs /\ (c.op \notin IdOps => c.id = "")
  BY DEF Calls
<1>2. /\ <<MethodOf(c.op), <<PathOf(c.op, c.id)[1], op>>>> \in Routes
      /\ (PathOf(c.op, c.id)[2] # None) = (op \in IdOps)
  BY DEF RoutedTo, RequestOf, Request
<1>3. CASE c.op \notin IdOps
  BY <1>1, <1>2, <1>3 DEF MethodOf, PathOf, Routes, Ops, IdOps
<1>4. CASE c.op \in IdOps
  <2>1. MethodOf(c.op) = (IF c.op = "read" THEN "GET" ELSE IF c.op = "update" THEN "PUT" ELSE "DELETE")
    BY <1>4 DEF MethodOf, IdOps
  <2>2. CASE c.id = "parent"
    <3>1. PathOf(c.op, c.id)[1] = "resource_set" /\ PathOf(c.op, c.id)[2] = None
      BY <1>4, <2>2 DEF PathOf, IdOps
    <3> QED
      BY <1>2, <1>4, <2>1, <2>2, <3>1 DEF Routes, Ops, IdOps
  <2>3. CASE c.id \notin {"parent", "sibling"}
    <3>1. PathOf(c.op, c.id)[1] \in {"resource_set", "elsewhere"}
      BY <1>1, <1>4, <2>3 DEF PathOf, IdOps, IdArgs
    <3>2. PathOf(c.op, c.id)[1] = "resource_set" => PathOf(c.op, c.id)[2] # None
      BY <1>1, <1>4, <2>3, NoneAssumption DEF PathOf, IdOps, IdArgs, Names, Codes
    <3> QED
      BY <1>2, <1>4, <2>1, <3>1, <3>2 DEF Routes, Ops, IdOps
  <2>4. CASE c.id = "sibling"
    <3>1. PathOf(c.op, c.id)[1] = "token"
      BY <1>4, <2>4 DEF PathOf, IdOps
    <3> QED
      BY <1>2, <1>4, <2>1, <3>1 DEF Routes, Ops, IdOps
  <2> QED
    BY <2>2, <2>3, <2>4
<1> QED
  BY <1>3, <1>4

(* The handler reads every body a client method sends, but a huge one, and *)
(* finds a permission in a batch of its.                                   *)
LEMMA OwnBody ==
  ASSUME NEW how \in {"none", "option", "doer"}, NEW c \in Calls, NEW op \in Ops,
         c.id # "malformed", c.op \in IdOps => c.id # "",
         RoutedTo(RequestOf(how, c), op)
  PROVE  /\ Unreadable(op, RequestOf(how, c)) \/ EmptyBatch(op, RequestOf(how, c)) => c.huge
         /\ ~c.huge => Argument(op, RequestOf(how, c)) # "zero"
<1>1. op = c.op \/ (c.op = "read" /\ op = "list")
  BY OwnRoute
<1>2. c.op \in Ops /\ (c.huge => c.op \in BodyOps)
  BY DEF Calls
<1>3. /\ RequestOf(how, c).body =
           (IF c.huge THEN "huge" ELSE IF c.op \in BodyOps THEN "good" ELSE "none")
      /\ RequestOf(how, c).items = (IF c.op = "permission" /\ ~c.huge THEN <<"p">> ELSE <<>>)
  BY DEF RequestOf, Request
<1>4. Unreadable(op, RequestOf(how, c)) => c.huge
  BY <1>1, <1>3 DEF Unreadable, BodyOps, FormOps, JSONOps
<1>5. EmptyBatch(op, RequestOf(how, c)) => c.huge
  <2>1. <<"p">> # <<>>
    OBVIOUS
  <2> QED
    BY <1>1, <1>3, <2>1 DEF EmptyBatch
<1>6. ~c.huge => Argument(op, RequestOf(how, c)) # "zero"
  <2> SUFFICES ASSUME ~c.huge PROVE Argument(op, RequestOf(how, c)) # "zero"
    OBVIOUS
  <2>1. CASE op = "permission"
    <3>1. Argument(op, RequestOf(how, c)) = <<"p">>[1]
      BY <1>1, <1>3, <2>1 DEF Argument
    <3>2. <<"p">>[1] = "p"
      OBVIOUS
    <3> QED
      BY <3>1, <3>2
  <2>2. CASE op \notin BodyOps
    BY <2>2, NoneAssumption DEF Argument, BodyOps, JSONOps
  <2>3. CASE op \in BodyOps /\ op # "permission"
    BY <1>1, <1>3, <2>3 DEF Argument, BodyOps, FormOps, JSONOps
  <2> QED
    BY <2>1, <2>2, <2>3
<1> QED
  BY <1>4, <1>5, <1>6

-----------------------------------------------------------------------------
(***************************************************************************)
(* The inductive invariant.  Of the handler: the AS is called with what    *)
(* the request routed to it holds; the response and the events are         *)
(* determined by how the call ended and by how far the handler is.  Of the *)
(* caller: what it sent, and where its result comes from.                  *)
(***************************************************************************)
ServedInv ==
  IF served.kind = "not called" THEN served = NotServed
  ELSE /\ request # None
       /\ served.by \in Ops
       /\ RoutedTo(request, served.by)
       /\ ~Unreadable(served.by, request)
       /\ ~EmptyBatch(served.by, request)
       /\ served.arg = Argument(served.by, request)
       /\ served.id = (IF served.by \in IdOps THEN request.id ELSE None)
       /\ served.kind = "error" => served.error # None

StageInv ==
  /\ stage = "idle" => served.kind = "not called"
  /\ (stage = "called") = (served.kind = "called")
  /\ served.kind = "panic" => stage = "panicked"
  /\ again = FALSE
  /\ (response = None) = (stage \in {"idle", "called"} \/ served.kind = "panic")
  /\ stage # "idle" => request # None
  /\ stage \in {"returned", "logged", "panicked"} => request.endpoint # "elsewhere"

(* A response that does not come from the AS.                              *)
Refused ==
  /\ response.status \in Refusals
  /\ response.body = "envelope" =>
       /\ response.code \in {"invalid_grant", "invalid_token"}
       /\ \E op \in Ops : /\ RoutedTo(request, op)
                          /\ Unreadable(op, request) \/ EmptyBatch(op, request)

WrittenInv ==
  response # None =>
    /\ served.kind = "not called" => Refused
    /\ served.kind = "error" => response = WriteError(served.error)
    /\ served.kind \in {"value", "nil"} => response = Success(served.by, served.kind)

(* The wrapper's own copy of the status.                                   *)
CaptureInv ==
  /\ stage \in {"idle", "called"} => capture = Uncaptured
  /\ response # None /\ hooks # {} /\ request.endpoint # "elsewhere" =>
       capture.status = response.status

Told(hook) == IF hook \in hooks THEN Event ELSE None

HookInv ==
  /\ \/ stage \in {"idle", "called", "returned"}
     \/ stage = "finished" /\ request.endpoint = "elsewhere"
     \/ served.kind = "panic"
     => logged = None /\ counted = None
  /\ stage = "logged" => logged = Told("log") /\ counted = None
  /\ stage = "finished" /\ request.endpoint # "elsewhere" =>
       logged = Told("log") /\ counted = Told("metric")
  /\ stage = "panicked" /\ served.kind # "panic" =>
       \/ "log" \in hooks /\ logged = Event /\ counted = None
       \/ logged = Told("log") /\ counted = Event

HandlerInv ==
  HandlerTypeOK /\ ServedInv /\ StageInv /\ WrittenInv /\ CaptureInv /\ HookInv

CallerInv ==
  /\ pc = "idle" =>
       request = None /\ stage = "idle" /\ result = None /\ answerer = None /\ page = None
  /\ call = None => result = None /\ answerer = None
  /\ call # None /\ request # None =>
       /\ call.id # "malformed"
       /\ call.op \in IdOps => call.id # ""
       /\ request = RequestOf(pat, call)
  /\ answerer = "server" =>
       stage = "finished" /\ result = Decode(call.op, response)
  /\ answerer = "gateway" => page \in Pages(call.op) /\ result = Decode(call.op, page)
  /\ answerer = None /\ result # None => result.kind \in {"transport", "panic"}

IInv == TypeOK /\ HandlerInv /\ CallerInv

LEMMA WasCalled ==
  ASSUME ServedInv, served.by # None
  PROVE  served.kind # "not called"
<1>1. NotServed.by = None
  BY DEF NotServed
<1>2. served # NotServed
  BY <1>1
<1> QED
  BY <1>2 DEF ServedInv

LEMMA InitIInv == Init => IInv
<1> SUFFICES ASSUME Init PROVE IInv
  OBVIOUS
<1> USE NoneAssumption DEF Init, HandlerInit, NotServed
<1>1. TypeOK
  <2>1. [status |-> "OK", captured |-> FALSE] \in [status : Statuses, captured : BOOLEAN]
    BY DEF Statuses, Successes
  <2>2. capture \in [status : Statuses, captured : BOOLEAN]
    BY <2>1 DEF Uncaptured
  <2> QED
    BY <2>2, NoResultAssumption DEF TypeOK, HandlerTypeOK, PathIds
<1>2. HandlerInv
  BY <1>1 DEF HandlerInv, TypeOK, ServedInv, StageInv, WrittenInv, CaptureInv, HookInv
<1>3. CallerInv
  BY NoResultAssumption DEF CallerInv
<1> QED
  BY <1>1, <1>2, <1>3 DEF IInv

-----------------------------------------------------------------------------
(* A step of the handler before the AS is called.                          *)
LEMMA ArrivalStep ==
  ASSUME HandlerInv, request # None, stage = "idle"
  PROVE  /\ request \in Requests /\ served = NotServed /\ response = None /\ again = FALSE
         /\ logged = None /\ counted = None /\ capture = Uncaptured
  BY DEF HandlerInv, HandlerTypeOK, ServedInv, StageInv, CaptureInv, HookInv

(* The wrapper keeps a status (server/middleware.go:112-132).              *)
LEMMA CaptureType ==
  ASSUME capture \in [status : Statuses, captured : BOOLEAN],
         NEW status \in Statuses, Capture(status)
  PROVE  capture' \in [status : Statuses, captured : BOOLEAN]
<1>1. [status |-> status, captured |-> TRUE] \in [status : Statuses, captured : BOOLEAN]
  OBVIOUS
<1> QED
  BY <1>1 DEF Capture

(* An answer that does not come from the AS.                               *)
LEMMA RefusalStep ==
  ASSUME HandlerInv, Arrived, NEW r \in Responses,
         r.status \in Refusals,
         r.body = "envelope" =>
           /\ r.code \in {"invalid_grant", "invalid_token"}
           /\ \E op \in Ops : /\ RoutedTo(request, op)
                              /\ Unreadable(op, request) \/ EmptyBatch(op, request),
         Write(r), UNCHANGED <<hooks, request, served, logged, counted>>,
         \/ stage' = "returned" /\ request.endpoint # "elsewhere" /\ Capture(r.status)
         \/ stage' = "finished" /\ request.endpoint = "elsewhere" /\ UNCHANGED capture
  PROVE  HandlerInv'
<1>1. /\ request # None /\ served = NotServed /\ response = None /\ again = FALSE
      /\ logged = None /\ counted = None /\ capture = Uncaptured
  BY ArrivalStep DEF Arrived
<1>0. served.kind = "not called"
  BY <1>1 DEF NotServed
<1>2. response' = r /\ response' # None /\ again' = FALSE
  BY <1>1, NoneAssumption DEF Write
<1>3. HandlerTypeOK'
  <2>1. stage' \in {"returned", "finished"}
    OBVIOUS
  <2>2. capture' \in [status : Statuses, captured : BOOLEAN]
    BY CaptureType DEF HandlerInv, HandlerTypeOK, Responses
  <2> QED
    BY <1>2, <2>1, <2>2 DEF HandlerInv, HandlerTypeOK
<1>4. ServedInv'
  BY <1>0, <1>1 DEF ServedInv
<1>5. StageInv'
  BY <1>0, <1>1, <1>2 DEF StageInv
<1>6. WrittenInv'
  <2>1. Refused'
    BY <1>2 DEF Refused
  <2> QED
    BY <1>0, <1>1, <2>1 DEF WrittenInv
<1>8. CaptureInv'
  BY <1>1, <1>2 DEF CaptureInv, Capture, Uncaptured
<1>7. HookInv'
  BY <1>1 DEF HookInv
<1> QED
  BY <1>3, <1>4, <1>5, <1>6, <1>7, <1>8 DEF HandlerInv

(* The answer of the AS.                                                   *)
LEMMA AnswerStep ==
  ASSUME HandlerInv, NEW kind \in {"value", "nil", "error"}, NEW error \in Errors \cup {None},
         NEW r \in Responses,
         ASEnds(kind, error), Answer(r),
         kind = "error" => error # None /\ r = WriteError(error),
         kind \in {"value", "nil"} => r = Success(served.by, kind)
  PROVE  HandlerInv'
<1>1. /\ request # None /\ served.kind = "called" /\ response = None /\ again = FALSE
      /\ request.endpoint # "elsewhere" /\ logged = None /\ counted = None
      /\ capture = Uncaptured
  <2>1. /\ request # None /\ served.kind = "called" /\ response = None /\ again = FALSE
        /\ logged = None /\ counted = None /\ capture = Uncaptured
    BY DEF HandlerInv, StageInv, CaptureInv, HookInv, ASEnds
  <2>2. RoutedTo(request, served.by) /\ served.by \in Ops /\ request \in Requests
    BY <2>1 DEF HandlerInv, ServedInv, HandlerTypeOK
  <2> QED
    BY <2>1, <2>2, Routing
<1>2. response' = r /\ response' # None /\ again' = FALSE
  BY <1>1, NoneAssumption DEF Answer, Write
<1>3. /\ stage' = "returned"
      /\ served' = [served EXCEPT !.kind = kind, !.error = error]
      /\ UNCHANGED <<hooks, request, logged, counted>>
  BY DEF Answer, ASEnds
<1>4. /\ served'.by = served.by /\ served'.id = served.id /\ served'.arg = served.arg
      /\ served'.kind = kind /\ served'.error = error
  BY <1>3 DEF HandlerInv, HandlerTypeOK
<1>5. HandlerTypeOK'
  <2>1. capture' \in [status : Statuses, captured : BOOLEAN]
    BY CaptureType DEF Answer, HandlerInv, HandlerTypeOK, Responses
  <2> QED
    BY <1>2, <1>3, <1>4, <2>1 DEF HandlerInv, HandlerTypeOK
<1>10. CaptureInv'
  BY <1>1, <1>2, <1>3 DEF CaptureInv, Answer, Capture, Uncaptured
<1>6. ServedInv'
  BY <1>1, <1>3, <1>4 DEF HandlerInv, ServedInv
<1>7. StageInv'
  BY <1>1, <1>2, <1>3, <1>4 DEF StageInv
<1>8. WrittenInv'
  BY <1>2, <1>4 DEF WrittenInv
<1>9. HookInv'
  BY <1>1, <1>3 DEF HookInv
<1> QED
  BY <1>5, <1>6, <1>7, <1>8, <1>9, <1>10 DEF HandlerInv

(* An id is looked at under /resource_set only (server/as.go:358-364).     *)
LEMMA NoSuchPathEndpoint ==
  ASSUME NEW r \in Requests, NoSuchPath(r)
  PROVE  r.endpoint = "resource_set"
  BY NoneAssumption DEF NoSuchPath, Requests, Codes

LEMMA HandlerStepInv ==
  ASSUME HandlerInv, HandlerStep
  PROVE  HandlerInv' /\ request' = request
<1> USE DEF Successes, Refusals, Statuses
<1>1. ASSUME NotRouted PROVE HandlerInv' /\ request' = request
  <2> DEFINE r == Response("NotFound", "text", None, FALSE)
  <2>1. r \in Responses /\ r.status \in Refusals /\ r.body # "envelope"
    BY DEF Response, Responses
  <2>2. Write(r) /\ Arrived /\ UNCHANGED <<hooks, request, served, capture, logged, counted>>
        /\ stage' = "finished" /\ request.endpoint = "elsewhere"
    BY <1>1 DEF NotRouted
  <2> HIDE DEF r
  <2> QED
    BY <2>1, <2>2, RefusalStep
<1>2. ASSUME NotFound PROVE HandlerInv' /\ request' = request
  <2> DEFINE r == Response("NotFound", "text", None, FALSE)
  <2>1. r \in Responses /\ r.status \in Refusals /\ r.body # "envelope"
    BY DEF Response, Responses
  <2>2. Write(r) /\ Arrived /\ UNCHANGED <<hooks, request, served, logged, counted>>
        /\ stage' = "returned" /\ Capture(r.status)
    BY <1>2 DEF NotFound, Answer
  <2>3. request.endpoint # "elsewhere"
    BY <1>2, <2>2, ArrivalStep, NoSuchPathEndpoint DEF NotFound, Arrived
  <2> HIDE DEF r
  <2> QED
    BY <2>1, <2>2, <2>3, RefusalStep
<1>3. ASSUME MethodNotAllowed PROVE HandlerInv' /\ request' = request
  <2> DEFINE r == Bare("MethodNotAllowed")
  <2>1. r \in Responses /\ r.status \in Refusals /\ r.body # "envelope"
    BY DEF Bare, Response, Responses
  <2>2. Write(r) /\ Arrived /\ UNCHANGED <<hooks, request, served, logged, counted>>
        /\ stage' = "returned" /\ request.endpoint # "elsewhere" /\ Capture(r.status)
    BY <1>3 DEF MethodNotAllowed, Answer
  <2> HIDE DEF r
  <2> QED
    BY <2>1, <2>2, RefusalStep
<1>4. ASSUME NEW op \in Ops, RefuseBody(op) \/ RefuseBatch(op)
      PROVE  HandlerInv' /\ request' = request
  <2>1. PICK r \in {WriteError(OAuth("invalid_token")), WriteError(OAuth("invalid_grant")),
                    WriteError(Invalid)} : Answer(r)
    BY <1>4 DEF RefuseBody, RefuseBatch
  <2>2. /\ r \in Responses /\ r.status \in Refusals
        /\ r.code \in {"invalid_grant", "invalid_token"}
    <3>1. ASSUME NEW code \in Codes PROVE OAuth(code) \in Errors
      <4>1. OAuth(code) \in Chains
        BY DEF OAuth, Chains
      <4>2. TypesIn(OAuth(code)) \in 0..1
        BY DEF OAuth, TypesIn
      <4> QED
        BY <4>1, <4>2, MaxTypesAssumption DEF Errors
    <3>4. {"invalid_token", "invalid_grant"} \subseteq Codes
      BY DEF Codes
    <3>3. Invalid \in Errors
      BY MaxTypesAssumption DEF Invalid, Errors, Chains, TypesIn
    <3>2. /\ WriteError(OAuth("invalid_token")).code = "invalid_token"
          /\ WriteError(OAuth("invalid_grant")).code = "invalid_grant"
          /\ WriteError(Invalid).code = "invalid_grant"
      BY NoneAssumption DEF WriteError, OAuth, Invalid, Response, Envelope, Codes
    <3> QED
      BY <2>1, <3>1, <3>2, <3>3, <3>4, WriteErrorType
  <2>3. /\ Arrived /\ RoutedTo(request, op) /\ UNCHANGED served
        /\ Unreadable(op, request) \/ EmptyBatch(op, request)
    BY <1>4 DEF RefuseBody, RefuseBatch, Handling
  <2>4. request.endpoint # "elsewhere"
    BY <2>3, ArrivalStep, Routing DEF Arrived
  <2>5. /\ Write(r) /\ Capture(r.status) /\ stage' = "returned"
        /\ UNCHANGED <<hooks, request, logged, counted>>
    BY <2>1 DEF Answer
  <2> QED
    BY <2>2, <2>3, <2>4, <2>5, RefusalStep
<1>5. ASSUME NEW op \in Ops, CallAS(op) PROVE HandlerInv' /\ request' = request
  <2>1. /\ Arrived /\ RoutedTo(request, op) /\ stage' = "called"
        /\ ~Unreadable(op, request) /\ ~EmptyBatch(op, request)
        /\ served' = [by |-> op, id |-> (IF op \in IdOps THEN request.id ELSE None),
                      arg |-> Argument(op, request), kind |-> "called", error |-> None]
        /\ UNCHANGED <<hooks, request, response, again, capture, logged, counted>>
    BY <1>5 DEF CallAS, Handling, Called
  <2>2. /\ request # None /\ request \in Requests /\ response = None /\ again = FALSE
        /\ logged = None /\ counted = None
    BY <2>1, ArrivalStep DEF Arrived
  <2>3. Argument(op, request) \in {"given", "zero", "p", "q", None}
    <3>1. op = "permission" => request.items \in {<<"p">>, <<"p", "q">>}
      BY <2>1, <2>2 DEF EmptyBatch, Requests, Batches
    <3>2. <<"p">>[1] = "p" /\ <<"p", "q">>[1] = "p"
      OBVIOUS
    <3> QED
      BY <3>1, <3>2 DEF Argument
  <2>4. request.id \in PathIds /\ None \in PathIds
    BY <2>2 DEF Requests, PathIds
  <2>5. HandlerTypeOK'
    BY <2>1, <2>2, <2>3, <2>4 DEF HandlerInv, HandlerTypeOK
  <2>6. ServedInv'
    BY <2>1, <2>2 DEF ServedInv
  <2>7. request.endpoint # "elsewhere"
    BY <2>1, <2>2, Routing
  <2>8. StageInv'
    BY <2>1, <2>2 DEF StageInv
  <2>9. WrittenInv' /\ CaptureInv' /\ HookInv'
    BY <2>1, <2>2, ArrivalStep DEF WrittenInv, CaptureInv, HookInv, Arrived
  <2> QED
    BY <2>1, <2>5, <2>6, <2>8, <2>9 DEF HandlerInv
<1>6. ASSUME NEW value \in {"value", "nil"}, ASReturns(value)
      PROVE  HandlerInv' /\ request' = request
  <2>1. Success(served.by, value) \in Responses
    BY <1>6, SuccessType DEF ASReturns, ASEnds, HandlerInv, StageInv, ServedInv
  <2>2. ASEnds(value, None) /\ Answer(Success(served.by, value))
    BY <1>6 DEF ASReturns
  <2>3. request' = request
    BY <2>2 DEF Answer
  <2> QED
    BY <2>1, <2>2, <2>3, AnswerStep
<1>7. ASSUME NEW e \in Errors, ASFails(e) PROVE HandlerInv' /\ request' = request
  <2>1. WriteError(e) \in Responses /\ e # None
    BY WriteErrorType, NoneAssumption
  <2>2. ASEnds("error", e) /\ Answer(WriteError(e))
    BY <1>7 DEF ASFails
  <2>3. request' = request
    BY <2>2 DEF Answer
  <2> QED
    BY <2>1, <2>2, <2>3, AnswerStep
<1>8. ASSUME ASPanics PROVE HandlerInv' /\ request' = request
  <2>1. /\ stage = "called" /\ stage' = "panicked"
        /\ served' = [served EXCEPT !.kind = "panic", !.error = None]
        /\ UNCHANGED <<hooks, request, response, again, capture, logged, counted>>
    BY <1>8 DEF ASPanics, ASEnds
  <2>2. /\ served'.by = served.by /\ served'.id = served.id /\ served'.arg = served.arg
        /\ served'.kind = "panic" /\ served'.error = None
    BY <2>1 DEF HandlerInv, HandlerTypeOK
  <2>3. /\ served.kind = "called" /\ response = None /\ request # None
        /\ logged = None /\ counted = None
    BY <2>1 DEF HandlerInv, StageInv, HookInv
  <2>4. request.endpoint # "elsewhere"
    BY <2>3, Routing DEF HandlerInv, HandlerTypeOK, ServedInv
  <2>5. HandlerTypeOK'
    BY <2>1, <2>2 DEF HandlerInv, HandlerTypeOK
  <2>6. ServedInv'
    BY <2>1, <2>2, <2>3 DEF HandlerInv, ServedInv
  <2>7. StageInv'
    BY <2>1, <2>2, <2>3, <2>4 DEF HandlerInv, StageInv
  <2>8. WrittenInv' /\ CaptureInv' /\ HookInv'
    BY <2>1, <2>2, <2>3 DEF WrittenInv, CaptureInv, HookInv
  <2> QED
    BY <2>1, <2>5, <2>6, <2>7, <2>8 DEF HandlerInv
<1>9. ASSUME Log \/ Count PROVE HandlerInv' /\ request' = request
  <2>1. /\ stage \in {"returned", "logged"} /\ stage' \in {"logged", "finished", "panicked"}
        /\ UNCHANGED <<hooks, request, served, response, again, capture>>
    BY <1>9 DEF Log, Count
  <2>2. /\ served.kind \notin {"called", "panic"} /\ response # None /\ again = FALSE
        /\ request # None /\ request.endpoint # "elsewhere"
        /\ request \in Requests
    BY <2>1 DEF HandlerInv, HandlerTypeOK, StageInv
  <2>3. Event \in Events
    BY <2>2 DEF HandlerInv, HandlerTypeOK, Event, Events, Requests
  <2>4. HandlerTypeOK'
    <3>1. logged' \in Events \cup {None} /\ counted' \in Events \cup {None}
      BY <1>9, <2>3 DEF Log, Count, HandlerInv, HandlerTypeOK
    <3>2. /\ hooks' = hooks /\ request' = request /\ served' = served
          /\ response' = response /\ again' = again /\ capture' = capture
      BY <2>1
    <3>3. HandlerTypeOK
      BY DEF HandlerInv
    <3>4. stage' \in {"idle", "called", "returned", "logged", "finished", "panicked"}
      BY <2>1
    <3>5. /\ hooks' \subseteq {"log", "metric"}
          /\ request' \in Requests \cup {None}
          /\ response' \in Responses \cup {None}
          /\ again' \in BOOLEAN
          /\ capture' \in [status : Statuses, captured : BOOLEAN]
      BY <3>2, <3>3 DEF HandlerTypeOK
    <3>6. served' \in [by : Ops \cup {None}, id : PathIds,
                      arg : {"given", "zero", "p", "q", None},
                      kind : {"not called", "called", "value", "nil", "error", "panic"},
                      error : Errors \cup {None}]
      BY <3>2, <3>3, Zenon DEF HandlerTypeOK
    <3> QED
      BY <3>1, <3>4, <3>5, <3>6, Zenon DEF HandlerTypeOK
  <2>5. ServedInv' /\ StageInv'
    BY <2>1, <2>2 DEF HandlerInv, ServedInv, StageInv
  <2>6. WrittenInv' /\ CaptureInv'
    BY <2>1 DEF HandlerInv, WrittenInv, Refused, CaptureInv
  <2>7. Event' = Event /\ Told("log")' = Told("log") /\ Told("metric")' = Told("metric")
    BY <2>1 DEF Event, Told
  <2>8. HookInv'
    <3>1. CASE Log
      <4>1. logged' = Told("log") /\ counted' = None /\ counted = None
        BY <2>2, <3>1 DEF Log, Told, HandlerInv, HookInv
      <4> QED
        BY <2>1, <2>2, <2>7, <3>1, <4>1 DEF HookInv, Log, Told
    <3>2. CASE Count
      <4>1. counted' = Told("metric") /\ logged' = Told("log")
        BY <3>2 DEF Count, Told, HandlerInv, HookInv
      <4> QED
        BY <2>1, <2>2, <2>7, <3>2, <4>1 DEF HookInv, Count, Told
    <3> QED
      BY <1>9, <3>1, <3>2
  <2> QED
    BY <2>1, <2>4, <2>5, <2>6, <2>8 DEF HandlerInv
<1> QED
  BY <1>1, <1>2, <1>3, <1>4, <1>5, <1>6, <1>7, <1>8, <1>9 DEF HandlerStep

-----------------------------------------------------------------------------
(* A step of the caller that leaves the handler alone.                     *)
LEMMA HandlerUnchanged ==
  ASSUME HandlerInv, UNCHANGED handlerVars
  PROVE  HandlerInv'
<1> USE DEF handlerVars
<1>1. HandlerTypeOK'
  <2>1. HandlerTypeOK
    BY DEF HandlerInv
  <2>2. /\ hooks' = hooks /\ request' = request /\ stage' = stage /\ served' = served
        /\ response' = response /\ again' = again /\ capture' = capture
        /\ logged' = logged /\ counted' = counted
    OBVIOUS
  <2> QED
    BY <2>1, <2>2, Zenon DEF HandlerTypeOK
<1>4. StageInv'
  BY DEF HandlerInv, StageInv
<1>2. ServedInv' /\ WrittenInv' /\ CaptureInv'
  BY DEF HandlerInv, ServedInv, WrittenInv, Refused, CaptureInv
<1>3. HookInv'
  BY DEF HandlerInv, HookInv, Told, Event
<1> QED
  BY <1>1, <1>2, <1>3, <1>4 DEF HandlerInv

LEMMA PutInv ==
  ASSUME IInv, NEW r \in Requests, Put(r)
  PROVE  HandlerInv'
<1>1. /\ request = None /\ stage = "idle" /\ request' = r /\ r # None
      /\ UNCHANGED <<hooks, stage, served, response, again, capture, logged, counted>>
  BY NoneAssumption DEF IInv, CallerInv, Put
<1>2. served = NotServed /\ served.kind = "not called" /\ response = None
  BY <1>1 DEF IInv, HandlerInv, ServedInv, StageInv, NotServed
<1>3. HandlerTypeOK'
  BY <1>1 DEF IInv, HandlerInv, HandlerTypeOK
<1>4. ServedInv' /\ WrittenInv' /\ StageInv' /\ CaptureInv'
  BY <1>1, <1>2 DEF IInv, HandlerInv, ServedInv, WrittenInv, StageInv, CaptureInv
<1>5. HookInv'
  BY <1>1, <1>2 DEF IInv, HandlerInv, HookInv
<1> QED
  BY <1>3, <1>4, <1>5 DEF HandlerInv

(* A call ends.                                                            *)
LEMMA FinishInv ==
  ASSUME IInv, NEW who \in {None, "server", "gateway"}, NEW p \in Responses \cup {None},
         NEW r \in Results, Finish(who, p, r),
         call # None, pc # "done", (p # None) = (who = "gateway"),
         who = "server" => stage = "finished" /\ r = Decode(call.op, response),
         who = "gateway" => p \in Pages(call.op) /\ r = Decode(call.op, p),
         who = None => r.kind \in {"transport", "panic"}
  PROVE  IInv'
<1>1. /\ pc' = "done" /\ answerer' = who /\ page' = p /\ result' = r /\ r # None
      /\ UNCHANGED <<handlerVars, pat, call>>
  BY NoResultAssumption DEF Finish
<1>2. HandlerInv'
  BY <1>1, HandlerUnchanged DEF IInv
<1>3. TypeOK'
  BY <1>1, <1>2 DEF IInv, TypeOK, HandlerInv
<1>4. CallerInv'
  BY <1>1, NoResultAssumption DEF IInv, CallerInv, handlerVars
<1> QED
  BY <1>2, <1>3, <1>4 DEF IInv

LEMMA NextIInv == IInv /\ [Next]_vars => IInv'
<1> SUFFICES ASSUME IInv, [Next]_vars PROVE IInv'
  OBVIOUS
<1> USE DEF Waiting
<1>0. call # None => call \in Calls /\ call.op \in Ops
  BY DEF IInv, TypeOK, Calls
<1>1. ASSUME RefuseLocally PROVE IInv'
  <2>1. Transport \in Results /\ Transport.kind = "transport"
    BY DEF Transport, Result, Results
  <2>2. Finish(None, None, Transport) /\ call # None /\ pc # "done"
    BY <1>1 DEF RefuseLocally
  <2> QED
    BY <2>1, <2>2, FinishInv, NoResultAssumption
<1>2. ASSUME PanicOnPath PROVE IInv'
  <2> DEFINE r == Result("panic", None, FALSE)
  <2>1. r \in Results /\ r.kind = "panic"
    BY DEF Result, Results
  <2>2. Finish(None, None, r) /\ call # None /\ pc # "done"
    BY <1>2 DEF PanicOnPath
  <2> HIDE DEF r
  <2> QED
    BY <2>1, <2>2, FinishInv, NoResultAssumption
<1>3. ASSUME Send PROVE IInv'
  <2>1. /\ call # None /\ call.id # "malformed" /\ (call.op \in IdOps => call.id # "")
        /\ Put(RequestOf(pat, call))
    BY <1>3 DEF Send
  <2>2. RequestOf(pat, call) \in Requests
    BY <1>0, <2>1, RequestOfType DEF IInv, TypeOK
  <2>3. HandlerInv'
    BY <2>1, <2>2, PutInv
  <2>4. TypeOK' /\ CallerInv'
    BY <2>1, <2>3 DEF IInv, HandlerInv, TypeOK, CallerInv, Put
  <2> QED
    BY <2>3, <2>4 DEF IInv
<1>4. ASSUME NEW r \in Requests, SendAny(r) PROVE IInv'
  <2>1. call = None /\ Put(r)
    BY <1>4 DEF SendAny
  <2>2. HandlerInv'
    BY <2>1, PutInv
  <2>3. TypeOK' /\ CallerInv'
    BY <2>1, <2>2 DEF IInv, HandlerInv, TypeOK, CallerInv, Put
  <2> QED
    BY <2>2, <2>3 DEF IInv
<1>5. ASSUME Serve PROVE IInv'
  <2>1. HandlerInv' /\ request' = request /\ UNCHANGED callerVars
    BY <1>5, HandlerStepInv DEF Serve, IInv
  <2>2. stage # "finished" /\ request # None
    <3>1. stage \in {"idle", "called", "returned", "logged"} /\ (stage = "idle" => Arrived)
      BY <1>5 DEF Serve, HandlerStep, NotRouted, NotFound, MethodNotAllowed, RefuseBody,
         RefuseBatch, CallAS, Handling, Arrived, ASReturns, ASFails, ASPanics, ASEnds, Log, Count
    <3> QED
      BY <3>1 DEF Arrived, IInv, HandlerInv, StageInv
  <2>3. TypeOK'
    BY <2>1 DEF IInv, HandlerInv, TypeOK, callerVars
  <2>4. CallerInv'
    BY <2>1, <2>2 DEF IInv, CallerInv, callerVars
  <2> QED
    BY <2>1, <2>3, <2>4 DEF IInv
<1>6. ASSUME Deliver PROVE IInv'
  <2>1. /\ call # None /\ pc # "done" /\ stage = "finished"
        /\ Finish("server", None, Decode(call.op, response))
    BY <1>6 DEF Deliver
  <2>2. response \in Responses
    BY <2>1 DEF IInv, HandlerInv, HandlerTypeOK, StageInv
  <2>3. Decode(call.op, response) \in Results
    BY <1>0, <2>1, <2>2, DecodeType
  <2> QED
    BY <2>1, <2>3, FinishInv, NoResultAssumption
<1>7. ASSUME Lose PROVE IInv'
  <2>1. Transport \in Results /\ Transport.kind = "transport"
    BY DEF Transport, Result, Results
  <2>2. Finish(None, None, Transport) /\ call # None /\ pc # "done"
    BY <1>7 DEF Lose
  <2> QED
    BY <2>1, <2>2, FinishInv, NoResultAssumption
<1>8. ASSUME NEW op \in Ops, NEW p \in Pages(op), GatewayAnswers(op, p) PROVE IInv'
  <2>1. /\ Finish("gateway", p, Decode(call.op, p)) /\ call # None /\ pc # "done"
        /\ p \in Pages(call.op)
    BY <1>8 DEF GatewayAnswers
  <2>2. p \in Responses
    BY PagesType
  <2>3. Decode(call.op, p) \in Results /\ p # None
    BY <1>0, <2>1, <2>2, DecodeType, NoneAssumption
  <2> QED
    BY <2>1, <2>2, <2>3, FinishInv, NoResultAssumption
<1>9. CASE UNCHANGED vars
  <2>1. HandlerInv' /\ UNCHANGED callerVars
    BY <1>9, HandlerUnchanged DEF IInv, vars
  <2>2. TypeOK' /\ CallerInv'
    BY <1>9, <2>1 DEF IInv, HandlerInv, TypeOK, CallerInv, vars, callerVars, handlerVars
  <2> QED
    BY <2>1, <2>2 DEF IInv
<1> QED
  BY <1>1, <1>2, <1>3, <1>4, <1>5, <1>6, <1>7, <1>8, <1>9 DEF Next

LEMMA Invariance == Spec => []IInv
  BY InitIInv, NextIInv, PTL DEF Spec

-----------------------------------------------------------------------------
(***************************************************************************)
(* Theorems.                                                               *)
(***************************************************************************)

(* Type correctness, of any request and any answer: a client method always *)
(* maps what it is given to one of its results (client/token.go:29-102).   *)
THEOREM TypeCorrect == Spec => []TypeOK
<1>1. IInv => TypeOK
  BY DEF IInv
<1> QED
  BY <1>1, Invariance, PTL

(* One request, one answer, whichever way the request leaves its handler   *)
(* (server/as.go:235-468).                                                 *)
THEOREM OneAnswerAlways == Spec => []OneAnswer
<1>1. IInv => OneAnswer
  <2> SUFFICES ASSUME IInv PROVE OneAnswer
    OBVIOUS
  <2>1. StageInv /\ WrittenInv /\ ServedInv /\ HandlerTypeOK
    BY DEF IInv, HandlerInv
  <2>2. response # None => (response.status \in Successes) = (served.kind \in {"value", "nil"})
    <3> SUFFICES ASSUME response # None
                 PROVE  (response.status \in Successes) = (served.kind \in {"value", "nil"})
      OBVIOUS
    <3>1. served.kind \in {"not called", "value", "nil", "error"}
      BY <2>1 DEF StageInv, HandlerTypeOK
    <3>2. CASE served.kind = "not called"
      <4>1. response.status \in Refusals
        BY <2>1, <3>2 DEF WrittenInv, Refused
      <4>2. response.status \notin Successes
        BY <4>1 DEF Refusals, Successes
      <4>3. served.kind \notin {"value", "nil"}
        BY <3>2
      <4> QED
        BY <4>2, <4>3
    <3>3. CASE served.kind = "error"
      <4>1. served.error \in Errors /\ response = WriteError(served.error)
        BY <2>1, <3>3 DEF WrittenInv, ServedInv, HandlerTypeOK
      <4>2. response.status \notin Successes
        BY <4>1, WriteErrorType DEF Refusals, Successes
      <4>3. served.kind \notin {"value", "nil"}
        BY <3>3
      <4> QED
        BY <4>2, <4>3
    <3>4. CASE served.kind \in {"value", "nil"}
      <4>1. response = Success(served.by, served.kind)
        BY <2>1, <3>4 DEF WrittenInv
      <4>2. response.status = SuccessStatus(served.by)
        BY <4>1 DEF Success, Response
      <4>3. response.status \in Successes
        BY <4>2 DEF SuccessStatus, Successes
      <4> QED
        BY <3>4, <4>3
    <3> QED
      BY <3>1, <3>2, <3>3, <3>4
  <2> QED
    BY <2>1, <2>2 DEF OneAnswer, StageInv
<1> QED
  BY <1>1, Invariance, PTL

(* The status the hooks were told, which is the wrapper's copy, is the one *)
(* the client gets, with any hooks installed and on every way the request  *)
(* takes through its handler; and of a panic they are told nothing         *)
(* (server/middleware.go:89-132).                                          *)
THEOREM HooksAgree == Spec => []HooksSeeTheAnswer
<1>1. IInv => HooksSeeTheAnswer
  <2> SUFFICES ASSUME IInv PROVE HooksSeeTheAnswer
    OBVIOUS
  <2>1. StageInv /\ CaptureInv /\ HookInv /\ HandlerTypeOK
    BY DEF IInv, HandlerInv
  <2>2. Event.status = capture.status
    BY DEF Event
  <2>4. ASSUME stage = "finished", request.endpoint # "elsewhere"
        PROVE  /\ "log" \in hooks => logged # None /\ logged.status = response.status
               /\ "metric" \in hooks => counted # None /\ counted.status = response.status
    <3>1. logged = Told("log") /\ counted = Told("metric")
      BY <2>1, <2>4 DEF HookInv
    <3>2. served.kind # "panic" /\ response # None
      BY <2>1, <2>4 DEF StageInv
    <3>3. hooks # {} => capture.status = response.status
      BY <2>1, <2>4, <3>2 DEF CaptureInv
    <3>4. request \in Requests /\ request.endpoint \in Endpoints \ {"elsewhere"}
      BY <2>1, <2>4 DEF StageInv, HandlerTypeOK, Requests
    <3>5. Event \in Events
      BY <2>1, <3>4 DEF Event, Events, HandlerTypeOK
    <3>6. Event # None
      BY <3>5, NoneAssumption
    <3> QED
      BY <2>2, <3>1, <3>3, <3>6 DEF Told
  <2>5. served.kind = "panic" \/ response = None => logged = None /\ counted = None
    BY <2>1 DEF HookInv, StageInv
  <2>6. counted # None /\ "log" \in hooks => logged = counted
    BY <2>1 DEF HookInv, Told, HandlerTypeOK
  <2> QED
    BY <2>4, <2>5, <2>6 DEF HooksSeeTheAnswer
<1> QED
  BY <1>1, Invariance, PTL

(* Reading is safe, whatever another HTTP client sends.                    *)
LEMMA ReadingIsSafe ==
  ASSUME IInv, served.by # None
  PROVE  (request.method = "GET") = (served.by \in {"list", "read"})
<1>1. HandlerTypeOK /\ ServedInv
  BY DEF IInv, HandlerInv
<1>2. served.kind # "not called"
  BY <1>1, WasCalled
<1>3. request \in Requests /\ served.by \in Ops /\ RoutedTo(request, served.by)
  BY <1>1, <1>2 DEF HandlerTypeOK, ServedInv
<1> QED
  BY <1>3, Routing

(* A success or a typed error is the AS's own when the AS answered, never  *)
(* more than the answer says when a gateway did, with a page of text or of *)
(* JSON, and is not made up when an answer was lost (client/token.go:73-   *)
(* 102, client/resource_set.go:123-199).                                   *)
THEOREM NothingIsInvented == Spec => []NothingInvented
<1>1. IInv => NothingInvented
  <2> SUFFICES ASSUME IInv, pc = "done", call # None PROVE NothingInvented
    BY DEF NothingInvented
  <2>1. /\ HandlerTypeOK /\ ServedInv /\ StageInv /\ WrittenInv /\ CallerInv
        /\ result # None /\ call \in Calls /\ call.op \in Ops
        /\ answerer \in {None, "server", "gateway"}
        /\ pat \in {"none", "option", "doer"}
    BY DEF IInv, HandlerInv, TypeOK, Calls
  <2>2. CASE answerer = None
    BY <2>1, <2>2, NoResultAssumption DEF CallerInv, NothingInvented
  <2>3. CASE answerer = "gateway"
    <3>1. result = Decode(call.op, page)
      BY <2>1, <2>3 DEF CallerInv
    <3>2. CASE call.op = "delete" /\ page.status \in {"OK", "NoContent"}
      <4>1. result.kind = "value"
        BY <3>1, <3>2 DEF Decode, Result
      <4> QED
        BY <3>2, <4>1, <2>3, NoResultAssumption DEF NothingInvented, FromAGateway
    <3>3. CASE ~(call.op = "delete" /\ page.status \in {"OK", "NoContent"})
               /\ page.status # SuccessStatus(call.op)
      <4>1. result = DecodeOAuthError(page)
        BY <3>1, <3>3 DEF Decode
      <4>2. result.kind \in {"opaque", "need_info", "oauth"}
        BY <4>1 DEF DecodeOAuthError, Opaque, Result
      <4>3. result.kind \in {"need_info", "oauth"} =>
              page.body = "envelope" /\ page.code = result.code
        BY <4>1 DEF DecodeOAuthError, Opaque, Result
      <4>4. FromAGateway
        BY <3>3, <4>2, <4>3 DEF FromAGateway
      <4> QED
        BY <2>3, <4>4, NoResultAssumption DEF NothingInvented
    <3>4. CASE ~(call.op = "delete" /\ page.status \in {"OK", "NoContent"})
               /\ page.status = SuccessStatus(call.op)
      <4>1. result.kind \in {"value", "zero", "opaque"}
        BY <3>1, <3>4 DEF Decode, Opaque, Result
      <4>2. page.body = "text" => result.kind = "opaque"
        BY <3>1, <3>4 DEF Decode, Opaque, Result
      <4>3. FromAGateway
        BY <3>4, <4>1, <4>2 DEF FromAGateway
      <4> QED
        BY <2>3, <4>3, NoResultAssumption DEF NothingInvented
    <3> QED
      BY <3>2, <3>3, <3>4
  <2>4. CASE answerer = "server"
    <3> SUFFICES FromTheServer
      BY <2>4, NoResultAssumption DEF NothingInvented
    <3>1. /\ stage = "finished" /\ result = Decode(call.op, response)
          /\ response \in Responses /\ response # None
          /\ served.kind \in {"not called", "value", "nil", "error"}
          /\ call.id # "malformed" /\ (call.op \in IdOps => call.id # "")
          /\ request = RequestOf(pat, call)
      BY <2>1, <2>4 DEF CallerInv, StageInv, HandlerTypeOK
    <3>2. CASE served.kind = "not called"
      <4>1. Refused
        BY <2>1, <3>1, <3>2 DEF WrittenInv
      <4>2. response.status # SuccessStatus(call.op) /\ response.status \notin {"OK", "NoContent"}
        BY <4>1 DEF Refused, Refusals, SuccessStatus
      <4>3. result = DecodeOAuthError(response)
        BY <3>1, <4>2 DEF Decode
      <4>4. response.body = "envelope" =>
              /\ response.code \in {"invalid_grant", "invalid_token"}
              /\ call.huge
        BY <2>1, <3>1, <4>1, OwnBody DEF Refused
      <4> QED
        BY <3>2, <4>3, <4>4 DEF DecodeOAuthError, Opaque, Result, FromTheServer
    <3>3. CASE served.kind = "error"
      <4>1. served.error \in Errors /\ response = WriteError(served.error)
        BY <2>1, <3>1, <3>3 DEF WrittenInv, ServedInv, HandlerTypeOK
      <4>2. response.status \in Refusals
        BY <4>1, WriteErrorType
      <4>3. response.status # SuccessStatus(call.op) /\ response.status \notin {"OK", "NoContent"}
        BY <4>2 DEF Refusals, SuccessStatus
      <4>4. result = DecodeOAuthError(response)
        BY <3>1, <4>3 DEF Decode
      <4>5. response.body = "envelope" =>
              \/ response.code = served.error.need /\ served.error.need # None
              \/ response.code = served.error.oauth
              \/ served.error.invalid /\ response.code = "invalid_grant"
        BY <4>1 DEF WriteError, Response, Envelope, Bare
      <4>6. served.error.need \in {"need_info", "", None}
        BY <4>1 DEF Errors, Chains
      <4>7. CASE response.body # "envelope" \/ response.code = ""
        BY <4>4, <4>7 DEF DecodeOAuthError, Opaque, Result, FromTheServer
      <4>8. CASE response.body = "envelope" /\ response.code = "need_info"
        <5>1. result.kind = "need_info"
          BY <4>4, <4>8 DEF DecodeOAuthError, Result
        <5>2. "need_info" \in {served.error.need, served.error.oauth}
          BY <4>5, <4>8
        <5> QED
          BY <3>3, <5>1, <5>2 DEF FromTheServer
      <4>9. CASE response.body = "envelope" /\ response.code \notin {"", "need_info"}
        <5>1. result.kind = "oauth" /\ result.code = response.code
          BY <4>4, <4>9 DEF DecodeOAuthError, Result
        <5>2. \/ response.code = served.error.oauth
              \/ served.error.invalid /\ response.code = "invalid_grant"
          BY <4>5, <4>6, <4>9
        <5> QED
          BY <3>3, <5>1, <5>2 DEF FromTheServer
      <4> QED
        BY <4>7, <4>8, <4>9
    <3>4. CASE served.kind \in {"value", "nil"}
      <4>1. /\ served.by \in Ops /\ RoutedTo(request, served.by)
            /\ response = Success(served.by, served.kind)
        BY <2>1, <3>1, <3>4 DEF WrittenInv, ServedInv
      <4>2. /\ served.by = call.op \/ (call.op = "read" /\ served.by = "list")
        BY <2>1, <3>1, <4>1, OwnRoute
      <4>3. response.body # "envelope"
        BY <4>1 DEF Success, Response
      <4>4. result.kind \in {"value", "zero", "opaque"}
        BY <3>1, <4>3 DEF Decode, DecodeOAuthError, Opaque, Result
      <4>5. call.op = "read" /\ served.by = "list" => result.kind = "opaque"
        BY <3>1, <4>1 DEF Success, SuccessStatus, Response, Decode, Opaque, Result
      <4>6. served.by = call.op => response.status = SuccessStatus(call.op)
        BY <4>1 DEF Success, Response
      <4>7. result.kind = "zero" => served.kind = "nil"
        <5> SUFFICES ASSUME result.kind = "zero", served.kind = "value" PROVE FALSE
          BY <3>4
        <5>1. served.by = call.op
          BY <4>2, <4>5
        <5>2. response.body \notin {"null", "envelope"}
          BY <3>4, <4>1 DEF Success, Response
        <5> QED
          BY <3>1, <4>6, <5>1, <5>2 DEF Decode, Opaque, Result
      <4>8. result.kind = "value" => served.kind = "value" \/ call.op \in {"list", "delete"}
        <5> SUFFICES ASSUME result.kind = "value", served.kind = "nil",
                            call.op \notin {"list", "delete"}
                     PROVE  FALSE
          BY <3>4
        <5>1. served.by = call.op
          BY <4>2, <4>5
        <5>2. response.body = "null"
          BY <4>1, <5>1 DEF Success, Response
        <5> QED
          BY <3>1, <4>6, <5>1, <5>2 DEF Decode, Opaque, Result
      <4> QED
        BY <3>4, <4>2, <4>4, <4>5, <4>7, <4>8 DEF FromTheServer
    <3> QED
      BY <3>1, <3>2, <3>3, <3>4
  <2> QED
    BY <2>1, <2>2, <2>3, <2>4
<1> QED
  BY <1>1, Invariance, PTL

(* For every chain of errors an AS may return: a need_info error comes     *)
(* back with its ticket, an OAuthError with its code, a ValidationError as *)
(* a typed error, and one without a type or a code as an untyped one       *)
(* (server/as.go:444-487, client/token.go:84-102).                         *)
THEOREM TypedErrorsComeBack == Spec => []TypedErrorsSurvive
<1>1. IInv => TypedErrorsSurvive
  <2> SUFFICES ASSUME IInv, answerer = "server", served.kind = "error"
               PROVE  TypedErrorsSurvive
    BY DEF TypedErrorsSurvive
  <2> DEFINE e == served.error
  <2>1. /\ StageInv /\ WrittenInv /\ ServedInv /\ HandlerTypeOK
        /\ stage = "finished" /\ result = Decode(call.op, response)
    BY NoResultAssumption DEF IInv, HandlerInv, CallerInv
  <2>2. e \in Errors /\ response = WriteError(e)
    BY <2>1 DEF WrittenInv, ServedInv, StageInv, HandlerTypeOK
  <2>3. response.status \in Refusals
    BY <2>2, WriteErrorType
  <2>4. response.status # SuccessStatus(call.op) /\ response.status \notin {"OK", "NoContent"}
    BY <2>3 DEF Refusals, SuccessStatus
  <2>5. result = DecodeOAuthError(WriteError(e))
    BY <2>1, <2>2, <2>4 DEF Decode
  <2>6. /\ e.need \in {"need_info", "", None} /\ e.oauth \in Codes \cup {None}
        /\ e.need # "need_info" => e.need \in {"", None}
    BY <2>2 DEF Errors, Chains
  <2> HIDE DEF e
  <2>7. CASE e.need # None
    <3>1. WriteError(e) = Response("Forbidden", "envelope", e.need, TRUE)
      BY <2>7 DEF WriteError
    <3>2. result = IF e.need = "" THEN Opaque ELSE Result("need_info", "need_info", TRUE)
      <4>1. WriteError(e).body = "envelope" /\ WriteError(e).code = e.need
            /\ WriteError(e).ticket = TRUE
        BY <3>1 DEF Response
      <4>2. e.need \in {"", "need_info"}
        BY <2>6, <2>7
      <4> QED
        BY <2>5, <4>1, <4>2 DEF DecodeOAuthError
    <3>3. CASE e.need = "need_info"
      BY <2>7, <3>2, <3>3 DEF TypedErrorsSurvive, e
    <3>4. CASE e.need = ""
      BY <2>7, <3>2, <3>4 DEF TypedErrorsSurvive, e
    <3> QED
      BY <2>6, <2>7, <3>3, <3>4
  <2>8. CASE e.need = None /\ e.invalid
    <3>1. WriteError(e) = Response("BadRequest", "envelope", "invalid_grant", FALSE)
      BY <2>8 DEF WriteError, Envelope
    <3>2. result.kind = "oauth"
      BY <2>5, <3>1 DEF DecodeOAuthError, Response, Result
    <3>3. e.need # "need_info"
      BY <2>8, NoneAssumption DEF Codes
    <3> QED
      BY <2>8, <3>2, <3>3 DEF TypedErrorsSurvive, e
  <2>9. CASE e.need = None /\ ~e.invalid /\ e.oauth \notin {None, ""}
    <3>1. WriteError(e) = Response(StatusForCode(e.oauth), "envelope", e.oauth, FALSE)
      BY <2>9 DEF WriteError, Envelope
    <3>2. result.code = e.oauth
      <4>1. WriteError(e).body = "envelope" /\ WriteError(e).code = e.oauth
        BY <3>1 DEF Response
      <4>2. result \in {Result("need_info", e.oauth, WriteError(e).ticket),
                       Result("oauth", e.oauth, FALSE)}
        BY <2>5, <2>9, <4>1 DEF DecodeOAuthError
      <4> QED
        BY <4>2 DEF Result
    <3>3. e.need # "need_info"
      BY <2>9, NoneAssumption DEF Codes
    <3> QED
      BY <2>9, <3>2, <3>3 DEF TypedErrorsSurvive, e
  <2>10. CASE e.need = None /\ ~e.invalid /\ ~(e.oauth \notin {None, ""})
    <3>1. WriteError(e).body # "envelope" \/ WriteError(e).code = ""
      BY <2>10 DEF WriteError, Envelope, Bare, Response
    <3>2. result = Opaque
      BY <2>5, <3>1 DEF DecodeOAuthError
    <3>3. e.need # "need_info"
      BY <2>10, NoneAssumption DEF Codes
    <3> QED
      BY <2>10, <3>2, <3>3 DEF TypedErrorsSurvive, e
  <2> QED
    BY <2>6, <2>7, <2>8, <2>9, <2>10
<1> QED
  BY <1>1, Invariance, PTL

(* The AS is asked what the caller asked, for every call and every way to  *)
(* pass the PAT (client/client.go:190-221, server/as.go:288-302, 358-396). *)
THEOREM AskedIsServed == Spec => []ServedAsAsked
<1>1. IInv => ServedAsAsked
  <2> SUFFICES ASSUME IInv, served.by # None PROVE ServedAsAsked
    BY DEF ServedAsAsked
  <2>1. HandlerTypeOK /\ ServedInv /\ CallerInv /\ TypeOK
    BY DEF IInv, HandlerInv
  <2>2. served.kind # "not called"
    BY <2>1, WasCalled
  <2>3. /\ served.by \in Ops /\ RoutedTo(request, served.by) /\ request # None
        /\ ~Unreadable(served.by, request)
        /\ served.arg = Argument(served.by, request)
        /\ served.id = (IF served.by \in IdOps THEN request.id ELSE None)
    BY <2>1, <2>2 DEF ServedInv
  <2>4. served.by = "permission" => served.arg = request.items[1]
    BY <2>3 DEF Argument
  <2>5. ASSUME call # None
        PROVE  /\ \/ served.by = call.op
                  \/ call.id = "parent" /\ call.op = "read" /\ served.by = "list"
               /\ call.id = "plain" => served.id = "plain"
               /\ served.arg # "zero" /\ request.items \in {<<>>, <<"p">>}
               /\ (request.auth = "PAT")
                    = (pat = "doer" \/ (pat = "option" /\ served.by # "token"))
    <3>1. /\ call \in Calls /\ pat \in {"none", "option", "doer"}
          /\ call.op \in Ops /\ (call.op \notin IdOps => call.id = "")
          /\ call.id # "malformed" /\ (call.op \in IdOps => call.id # "")
          /\ request = RequestOf(pat, call)
      BY <2>1, <2>3, <2>5 DEF TypeOK, CallerInv, Calls
    <3>2. \/ served.by = call.op
          \/ call.id = "parent" /\ call.op = "read" /\ served.by = "list"
      BY <2>3, <3>1, OwnRoute
    <3>3. call.id = "plain" => served.id = "plain"
      <4> SUFFICES ASSUME call.id = "plain" PROVE served.id = "plain"
        OBVIOUS
      <4>1. call.op \in IdOps /\ served.by = call.op
        BY <3>1, <3>2
      <4>2. request.id = "plain"
        BY <3>1, <4>1 DEF RequestOf, Request, PathOf, IdOps
      <4> QED
        BY <2>3, <4>1, <4>2
    <3>4. served.arg # "zero"
      <4>1. ~call.huge
        <5>1. call.huge => call.op \in FormOps \cup JSONOps
          BY <3>1 DEF Calls, BodyOps
        <5>2. call.huge => request.body = "huge"
          BY <3>1 DEF RequestOf, Request
        <5> QED
          BY <2>3, <3>2, <5>1, <5>2 DEF Unreadable, FormOps, JSONOps
      <4> QED
        BY <2>3, <3>1, <4>1, OwnBody
    <3>5. request.items \in {<<>>, <<"p">>}
      BY <3>1 DEF RequestOf, Request
    <3>6. (request.auth = "PAT") = (pat = "doer" \/ (pat = "option" /\ served.by # "token"))
      <4>1. request.auth = Authorization(pat, call.op)
        BY <3>1 DEF RequestOf, Request
      <4>2. served.by = "token" <=> call.op = "token"
        BY <3>2
      <4> QED
        BY <4>1, <4>2 DEF Authorization
    <3> QED
      BY <3>2, <3>3, <3>4, <3>5, <3>6
  <2>6. (request.method = "GET") = (served.by \in {"list", "read"})
    BY ReadingIsSafe
  <2> QED
    BY <2>4, <2>5, <2>6 DEF ServedAsAsked
<1> QED
  BY <1>1, Invariance, PTL

=============================================================================
