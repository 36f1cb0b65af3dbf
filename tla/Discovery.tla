----------------------------- MODULE Discovery -----------------------------
(***************************************************************************)
(* Discovery, end to end: a consumer's AS is probed for the document that  *)
(* describes it (server/metadata.go BuildMetadata), the document is served *)
(* (NewMetadataHandler), the proxies of the deployment may add cache       *)
(* directives on the way, a client takes or refuses it                     *)
(* (client/metadata.go FetchMetadata, one fetch), and then calls the AS.   *)
(***************************************************************************)
EXTENDS CacheControl

CONSTANTS
  Implementations,  (* The ASs that may be deployed.                       *)
  URLs,             (* URLs an AS or a client may be configured with.      *)
  Values,           (* Numbers a max-age may give.                         *)
  Fallbacks,        (* Configured TTLs.                                    *)
  MaxDirectives,    (* Bound on the directives the proxies add.            *)
  None              (* A nil AS or document, no answer, no result.         *)

(***************************************************************************)
(* A URL is its host and path, and the number of its trailing slashes.  A  *)
(* TTL is a time.Duration; a proxy may write any number.                   *)
(***************************************************************************)
ASSUME DeploymentAssumption ==
  /\ URLs \subseteq (STRING \X STRING) \X Nat
  /\ Values \subseteq Int
  /\ Fallbacks \subseteq GoInts

VARIABLES
  as,        (* The AS deployed, or None.                                  *)
  asURL,     (* The URL it is published under.                             *)
  base,      (* The URL the client was built with.                         *)
  relaxed,   (* Whether the client compares no issuers.                    *)
  fallback,  (* The client's default TTL.                                  *)
  mounted,   (* The document the handler serves, or None.                  *)
  answer,    (* Its response on the way to whoever asked.                  *)
  header,    (* The Cache-Control header of that response, by lines.       *)
  result,    (* How the client's FetchMetadata ended.                      *)
  called     (* The client's call of the AS.                               *)

deployment == <<as, asURL, base, relaxed, fallback>>
vars == <<deployment, mounted, answer, header, result, called>>

-----------------------------------------------------------------------------
(***************************************************************************)
(* The methods of an AS, and the operations multiplexed through each: of   *)
(* the five on resource sets, two stand for all.                           *)
(***************************************************************************)
Methods == {"token", "permission", "introspect", "resource_set"}

OpsOf(m) == IF m = "resource_set" THEN {"create", "read"} ELSE {m}

(***************************************************************************)
(* How an AS behaves in one method: what a probe is answered with, and the *)
(* operations it serves; any other is ErrNotImplemented.  The probe is the *)
(* zero value of the request, which for resource sets has OpUnknown, an    *)
(* operation no client can ask for.                                        *)
(***************************************************************************)
Behaviour(probe, serves) == [probe |-> probe, serves |-> serves]

Behaviours == [probe : {"not implemented", "refused", "accepted"},
               serves : SUBSET UNION {OpsOf(m) : m \in Methods}]

ASSUME ImplementationAssumption == Implementations \subseteq [Methods -> Behaviours]

Path(url) == url[1][2]
Root(url) == <<url[1][1], "">>

(* Mutant: a trailing slash is not stripped before joining.                *)
JoinedAsIs(url, m) == <<IF url[2] = 0 THEN TrimSlashes(url) ELSE url, m>>

(* The endpoint of a method, as BuildMetadata joins it.                    *)
Joined(url, m) == <<TrimSlashes(url), m>>

(* The endpoint as the client resolves it: the base's path is replaced.    *)
EndpointURL(url, m) == <<Root(url), m>>

(* Mutant: only a probe that succeeds counts.                              *)
AdvertisesSuccess(server) == {m \in Methods : server[m].probe = "accepted"}

Advertised(server) == {m \in Methods : server[m].probe # "not implemented"}

(***************************************************************************)
(* Grant types and the fields that options set are left out.               *)
(***************************************************************************)
BuildMetadata(url, server) ==
  [issuer |-> url,
   endpoints |-> {Joined(url, m) : m \in IF server = None THEN {} ELSE Advertised(server)}]

-----------------------------------------------------------------------------
(* The handler was given the document, or by mistake nil.                  *)
Init ==
  /\ as \in Implementations \cup {None}
  /\ asURL \in URLs
  /\ base \in URLs
  /\ relaxed \in BOOLEAN
  /\ fallback \in Fallbacks
  /\ mounted \in {BuildMetadata(asURL, as), None}
  /\ answer = None
  /\ header = <<>>
  /\ result = None
  /\ called = None

Response(method, status, doc) == [method |-> method, status |-> status, doc |-> doc]

Respond(response) ==
  /\ answer = None /\ result = None
  /\ answer' = response
  /\ UNCHANGED <<deployment, mounted, header, result, called>>

(* A nil document.                                                         *)
ServeNothing(method) ==
  /\ mounted = None
  /\ Respond(Response(method, "InternalServerError", None))

MethodNotAllowed(method) ==
  /\ mounted # None /\ method \notin {"GET", "HEAD"}
  /\ Respond(Response(method, "MethodNotAllowed", None))

(* Mutant: the method is not looked at, but for a HEAD.                    *)
ServeAnyMethod(method) ==
  /\ mounted # None
  /\ Respond(Response(method, "OK", IF method # "HEAD" THEN mounted ELSE None))

(* Without a Cache-Control header, and for a HEAD without a body.          *)
ServeDocument(method) ==
  /\ mounted # None /\ method \in {"GET", "HEAD"}
  /\ Respond(Response(method, "OK", IF method = "GET" THEN mounted ELSE None))

Positions(h) == UNION {{i} \X DOMAIN h[i] : i \in DOMAIN h}

(* A proxy adds a directive to the response, on a line of its own or at    *)
(* the end of the last one.                                                *)
AddDirective(d) ==
  /\ answer # None
  /\ Cardinality(Positions(header)) < MaxDirectives
  /\ \/ header' = Append(header, <<d>>)
     \/ header # <<>> /\ header' = [header EXCEPT ![Len(header)] = Append(@, d)]
  /\ UNCHANGED <<deployment, mounted, answer, result, called>>

(* The answer was for somebody else.                                       *)
Elsewhere ==
  /\ answer # None
  /\ answer' = None
  /\ header' = <<>>
  /\ UNCHANGED <<deployment, mounted, result, called>>

(* FetchMetadata returns.                                                  *)
Return(kind, doc, ttl) ==
  /\ answer # None /\ answer.method = "GET"
  /\ answer' = None
  /\ result' = [kind |-> kind, doc |-> doc, ttl |-> ttl]
  /\ UNCHANGED <<deployment, mounted, header, called>>

(* A transport error, or a status other than 200.                          *)
FetchFails == Return("failed", None, 0)

Acceptable(doc) == relaxed \/ SameIssuer(base, doc.issuer)

RejectMixUp ==
  /\ Return("mixup", None, 0)
  /\ answer.status = "OK" /\ ~Acceptable(answer.doc)

Accept ==
  /\ Return("fetched", answer.doc, CacheTTL(FirstLine(header), fallback))
  /\ answer.status = "OK" /\ Acceptable(answer.doc)

(***************************************************************************)
(* The client calls the AS at the endpoint it resolves, not where the      *)
(* document says it is.  The AS handler is mounted under the AS's URL.     *)
(***************************************************************************)
StatusOf(m, op) ==
  IF as = None \/ EndpointURL(base, m) # <<TrimSlashes(asURL), m>> THEN "elsewhere"
  ELSE IF op \in as[m].serves THEN "served" ELSE "not implemented"

Call(m, op) ==
  /\ result # None /\ called = None
  /\ called' = [method |-> m, to |-> EndpointURL(base, m), status |-> StatusOf(m, op)]
  /\ UNCHANGED <<deployment, mounted, answer, header, result>>

Next ==
  \/ \E method \in {"GET", "HEAD", "POST"} :
       ServeNothing(method) \/ MethodNotAllowed(method) \/ ServeDocument(method)
  \/ \E d \in {MaxAge(n) : n \in Values} \cup {Garbled, Other} : AddDirective(d)
  \/ Elsewhere
  \/ FetchFails \/ RejectMixUp \/ Accept
  \/ \E m \in Methods : \E op \in OpsOf(m) : Call(m, op)

Spec == Init /\ [][Next]_vars

-----------------------------------------------------------------------------
(* Properties.                                                             *)

Got == result # None /\ result.kind = "fetched"

TypeOK ==
  /\ mounted # None => {e[2] : e \in mounted.endpoints} \subseteq Methods
  /\ answer # None =>
       (answer.doc # None) = (answer.status = "OK" /\ answer.method = "GET")
  /\ header \in Seq(Seq(Directives))
  /\ result # None =>
       /\ result.kind \in {"failed", "mixup", "fetched"}
       /\ (result.doc # None) = Got
       /\ result.ttl \in GoInts
  /\ called # None => called.status \in {"elsewhere", "served", "not implemented"}

(* The convention of server/metadata.go:30-46: a probe is ErrNotImplemented *)
(* exactly when nothing behind it is served.                               *)
FollowsConvention ==
  \A m \in Methods : (as[m].probe = "not implemented") = (as[m].serves = {})

(***************************************************************************)
(* The document tells what the AS does.  When the AS follows the probing   *)
(* convention, an operation that is served is served under an endpoint of  *)
(* the document the client was given, and an endpoint of the document      *)
(* never has nothing but 501 behind it (server/metadata.go:54-79).         *)
(***************************************************************************)
AdvertisedIsServed ==
  Got /\ called # None /\ called.status # "elsewhere" /\ FollowsConvention =>
    /\ called.status = "served" => called.to \in result.doc.endpoints
    /\ called.to \in result.doc.endpoints => as[called.method].serves # {}

(***************************************************************************)
(* The mix-up check and the client's calls agree on which AS this is: a    *)
(* client whose base URL has no path refuses a document as a mix-up        *)
(* exactly when its calls would not get to the AS the document describes,  *)
(* with or without a slash at the end of either URL (server/metadata.go:   *)
(* 55, client/metadata.go:102-109, 127-129, client/client.go:190-205).     *)
(***************************************************************************)
MixUpIsElsewhere ==
  as # None /\ called # None /\ ~relaxed /\ Path(base) = "" /\ asURL[2] <= 1 /\ base[2] <= 1 =>
    /\ result.kind = "fetched" => called.status # "elsewhere"
    /\ result.kind = "mixup" => called.status = "elsewhere"

(***************************************************************************)
(* The client calls the AS where its document says it is, unless the base  *)
(* URL has a path: it then resolves every endpoint against the host alone, *)
(* away from the one advertised (client/client.go:190-205,                 *)
(* server/metadata.go:54-72).                                              *)
(***************************************************************************)
CallsWhereAdvertised ==
  Got /\ ~relaxed /\ called # None =>
    \A e \in result.doc.endpoints :
      e[2] = called.method => (e = called.to) = (Path(base) = "")

(***************************************************************************)
(* The lifetime is the one asked for by the first max-age on the header's  *)
(* first line, exactly, as long as it can be expressed in nanoseconds; an  *)
(* unusable one falls back, whatever a later one says; and without any     *)
(* max-age it falls back too (client/metadata.go:111, 139-156).            *)
(***************************************************************************)
FirstMaxAgeDecides ==
  Got =>
    /\ LET line == FirstLine(header)
       IN  \A i \in DOMAIN line :
             LET d == line[i]
             IN  d[1] # "other" /\ (\A j \in 1 .. i - 1 : line[j][1] = "other") =>
                   /\ ~Parses(d) \/ d[2] < 0 => result.ttl = fallback
                   /\ Parses(d) /\ d[2] >= 0 /\ d[2] * Second <= MaxInt =>
                        result.ttl = d[2] * Second
    /\ (\A p \in Positions(header) : header[p[1]][p[2]][1] = "other") => result.ttl = fallback

-----------------------------------------------------------------------------
(* What the code's own comments say, where the code does otherwise.        *)

(***************************************************************************)
(* client/metadata.go:131-138, of cacheTTL: missing or invalid "returns    *)
(* fallback", "A negative or zero max-age disables caching (returns 0)",   *)
(* and otherwise "this library applies it verbatim".                       *)
(***************************************************************************)
DocumentedTTL ==
  IF MaxAgeAt(FirstLine(header)) = {} THEN fallback
  ELSE LET d == FirstMaxAge(FirstLine(header))
       IN  IF ~Parses(d) THEN fallback
           ELSE IF d[2] <= 0 THEN 0 ELSE d[2] * Second

LifetimeAsDocumented == Got => result.ttl = DocumentedTTL
=============================================================================
