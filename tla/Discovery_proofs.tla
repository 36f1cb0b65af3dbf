-------------------------- MODULE Discovery_proofs --------------------------
(***************************************************************************)
(* Proofs about Discovery, for any ASs, URLs, headers and integer width.   *)
(***************************************************************************)
EXTENDS Discovery, GoInt_proofs, TLAPS

-----------------------------------------------------------------------------
(***************************************************************************)
(* The inductive invariant: the document is the AS's own wherever it has   *)
(* got to, and a result, once there, and the call that follows it are      *)
(* what the deployment and the header make them; the header no longer      *)
(* changes, because no other answer is on its way.                         *)
(***************************************************************************)
Document == BuildMetadata(asURL, as)

DeploymentInv ==
  /\ as \in Implementations \cup {None}
  /\ asURL \in URLs
  /\ base \in URLs
  /\ fallback \in Fallbacks
  /\ relaxed \in BOOLEAN
  /\ mounted \in {Document, None}
  /\ header \in Seq(Seq(Directives))

Whole(response) == response.status = "OK" /\ response.method = "GET"

AnswerInv ==
  answer # None =>
    /\ answer.status \in {"OK", "MethodNotAllowed", "InternalServerError"}
    /\ Whole(answer) => answer.doc = Document /\ Document # None
    /\ ~Whole(answer) => answer.doc = None

ResultInv ==
  result # None =>
    /\ answer = None
    /\ result.kind \in {"failed", "mixup", "fetched"}
    /\ result.kind = "mixup" => ~relaxed /\ ~SameIssuer(base, asURL)
    /\ result.kind = "fetched" =>
         /\ relaxed \/ SameIssuer(base, asURL)
         /\ result.doc = Document /\ Document # None
         /\ result.ttl = CacheTTL(FirstLine(header), fallback)
    /\ result.kind # "fetched" => result.doc = None /\ result.ttl = 0

CalledInv ==
  called # None =>
    /\ result # None
    /\ \E m \in Methods : \E op \in OpsOf(m) :
         called = [method |-> m, to |-> EndpointURL(base, m), status |-> StatusOf(m, op)]

IInv == DeploymentInv /\ AnswerInv /\ ResultInv /\ CalledInv

-----------------------------------------------------------------------------
(***************************************************************************)
(* The header.                                                             *)
(***************************************************************************)

(* Header.Get returns a line (client/metadata.go:111).                     *)
LEMMA FirstLineIs ==
  ASSUME NEW h \in Seq(Seq(Directives))
  PROVE  FirstLine(h) \in Seq(Directives) /\ (h # <<>> => 1 \in DOMAIN h /\ FirstLine(h) = h[1])
  BY DEF FirstLine

(* The first max-age is the one with only other directives before it       *)
(* (client/metadata.go:140-146).                                           *)
LEMMA FirstMaxAgeIs ==
  ASSUME NEW h \in Seq(Directives), NEW i \in DOMAIN h, h[i][1] # "other",
         \A j \in 1 .. i - 1 : h[j][1] = "other"
  PROVE  MaxAgeAt(h) # {} /\ FirstMaxAge(h) = h[i]
<1>1. i \in MaxAgeAt(h) /\ MaxAgeAt(h) \subseteq Nat /\ DOMAIN h = 1 .. Len(h)
  BY DEF MaxAgeAt
<1>2. ASSUME NEW k \in MaxAgeAt(h) PROVE i <= k
  <2>1. k \in 1 .. Len(h) /\ h[k][1] # "other"
    BY <1>1 DEF MaxAgeAt
  <2> QED
    BY <1>1, <2>1
<1>3. \A k \in MaxAgeAt(h) : (\A j \in MaxAgeAt(h) : k <= j) => k = i
  BY <1>1, <1>2
<1>4. (CHOOSE k \in MaxAgeAt(h) : \A j \in MaxAgeAt(h) : k <= j) = i
  BY <1>1, <1>2, <1>3
<1> QED
  BY <1>1, <1>4 DEF FirstMaxAge

(* Whatever the header, the lifetime is a time.Duration                    *)
(* (client/metadata.go:139-156).                                           *)
LEMMA LifetimeInRange ==
  ASSUME NEW h \in Seq(Directives), NEW ttl \in GoInts
  PROVE  CacheTTL(h, ttl) \in GoInts
<1>1. CASE MaxAgeAt(h) = {}
  BY <1>1 DEF CacheTTL
<1>2. CASE MaxAgeAt(h) # {}
  <2>1. MaxAgeAt(h) \subseteq DOMAIN h /\ MaxAgeAt(h) \subseteq Nat
    BY DEF MaxAgeAt
  <2>2. \E i \in MaxAgeAt(h) : \A j \in MaxAgeAt(h) : i <= j
    BY <1>2, <2>1, LeastNat
  <2>3. FirstMaxAge(h) \in Directives
    BY <2>1, <2>2 DEF FirstMaxAge
  <2>4. FirstMaxAge(h)[2] * Second \in Int
    BY <2>3, SecondAssumption DEF Directives
  <2> QED
    BY <1>2, <2>4, WrapInRange DEF CacheTTL
<1> QED
  BY <1>1, <1>2

(* Every directive that a proxy adds is one.                               *)
LEMMA Added ==
  ASSUME NEW d \in {MaxAge(n) : n \in Values} \cup {Garbled, Other} PROVE d \in Directives
  BY DeploymentAssumption DEF Directives, MaxAge, Garbled, Other

-----------------------------------------------------------------------------
(***************************************************************************)
(* The invariant is inductive.                                             *)
(***************************************************************************)
LEMMA InitIInv == Init => IInv
<1> SUFFICES ASSUME Init PROVE IInv
  OBVIOUS
<1>1. DeploymentInv
  <2>1. header \in Seq(Seq(Directives))
    BY DEF Init
  <2>2. mounted \in {Document, None} /\ relaxed \in BOOLEAN
    BY Zenon DEF Init, Document
  <2> QED
    BY Zenon, <2>1, <2>2 DEF Init, DeploymentInv
<1>2. AnswerInv /\ ResultInv /\ CalledInv
  BY Zenon DEF Init, AnswerInv, ResultInv, CalledInv
<1> QED
  BY <1>1, <1>2 DEF IInv

LEMMA DeploymentKept ==
  ASSUME DeploymentInv, UNCHANGED <<deployment, mounted>>, header' \in Seq(Seq(Directives))
  PROVE  DeploymentInv' /\ Document' = Document
  BY DEF DeploymentInv, deployment, Document

LEMMA CalledKept ==
  ASSUME CalledInv, UNCHANGED <<deployment, called>>, result # None => result' # None
  PROVE  CalledInv'
  BY DEF CalledInv, deployment, StatusOf

(* The handler's answers: its own document or none                         *)
(* (server/metadata.go:101-125).                                           *)
LEMMA RespondIInv ==
  ASSUME IInv, NEW method, NEW status \in {"OK", "MethodNotAllowed", "InternalServerError"},
         NEW doc, Respond(Response(method, status, doc)),
         status = "OK" /\ method = "GET" => doc = Document /\ Document # None,
         ~(status = "OK" /\ method = "GET") => doc = None
  PROVE  IInv'
<1> USE DEF IInv, Respond
<1>1. DeploymentInv' /\ Document' = Document
  BY DeploymentKept DEF DeploymentInv
<1>2. answer'.status = status /\ answer'.method = method /\ answer'.doc = doc
  BY DEF Response
<1>3. AnswerInv'
  BY <1>1, <1>2 DEF AnswerInv, Whole
<1>4. ResultInv'
  BY DEF ResultInv
<1> QED
  BY <1>1, <1>3, <1>4, CalledKept

LEMMA HandlerIInv ==
  ASSUME IInv, NEW method \in {"GET", "HEAD", "POST"},
         ServeNothing(method) \/ MethodNotAllowed(method) \/ ServeDocument(method)
  PROVE  IInv'
<1>1. CASE ServeNothing(method)
  BY <1>1, RespondIInv DEF ServeNothing
<1>2. CASE MethodNotAllowed(method)
  BY <1>2, RespondIInv DEF MethodNotAllowed
<1>3. CASE ServeDocument(method)
  BY <1>3, RespondIInv DEF ServeDocument, IInv, DeploymentInv
<1> QED
  BY <1>1, <1>2, <1>3

LEMMA AddDirectiveIInv ==
  ASSUME IInv, NEW d \in Directives, AddDirective(d) PROVE IInv'
<1> USE DEF IInv, AddDirective
<1>1. header' \in Seq(Seq(Directives))
  <2>1. header \in Seq(Seq(Directives)) /\ <<d>> \in Seq(Directives)
    BY DEF DeploymentInv
  <2>2. CASE header' = Append(header, <<d>>)
    BY <2>1, <2>2
  <2>3. CASE header # <<>> /\ header' = [header EXCEPT ![Len(header)] = Append(@, d)]
    <3>1. Len(header) \in DOMAIN header /\ header[Len(header)] \in Seq(Directives)
      BY <2>1, <2>3
    <3>2. Append(header[Len(header)], d) \in Seq(Directives)
      BY <3>1
    <3> QED
      BY <2>1, <2>3, <3>1, <3>2
  <2> QED
    BY <2>2, <2>3
<1>2. DeploymentInv' /\ Document' = Document
  BY <1>1, DeploymentKept
<1>3. AnswerInv' /\ ResultInv'
  BY <1>2 DEF AnswerInv, Whole, ResultInv
<1> QED
  BY <1>2, <1>3, CalledKept

LEMMA ElsewhereIInv == ASSUME IInv, Elsewhere PROVE IInv'
<1> USE DEF IInv, Elsewhere
<1>1. DeploymentInv' /\ Document' = Document
  BY DeploymentKept
<1>2. AnswerInv' /\ ResultInv'
  BY <1>1 DEF AnswerInv, ResultInv
<1> QED
  BY <1>1, <1>2, CalledKept

(* How FetchMetadata ends (client/metadata.go:79-129).                     *)
LEMMA ReturnIInv ==
  ASSUME IInv, FetchFails \/ RejectMixUp \/ Accept PROVE IInv'
<1> USE DEF IInv
<1>1. UNCHANGED <<deployment, mounted, header, called>> /\ answer' = None
  BY DEF FetchFails, RejectMixUp, Accept, Return
<1>2. DeploymentInv' /\ Document' = Document
  BY <1>1, DeploymentKept DEF DeploymentInv
<1>3. AnswerInv'
  BY <1>1 DEF AnswerInv
<1>4. ResultInv'
  <2>1. CASE FetchFails
    BY <2>1 DEF FetchFails, Return, ResultInv
  <2>2. CASE RejectMixUp
    <3>1. answer.doc = Document /\ Document.issuer = asURL
      BY <2>2 DEF RejectMixUp, Return, AnswerInv, Whole, Document, BuildMetadata
    <3> QED
      BY <2>2, <3>1 DEF RejectMixUp, Return, ResultInv, Acceptable, deployment
  <2>3. CASE Accept
    <3>1. answer.doc = Document /\ Document # None /\ Document.issuer = asURL
      BY <2>3 DEF Accept, Return, AnswerInv, Whole, Document, BuildMetadata
    <3> QED
      BY <2>3, <3>1, <1>2 DEF Accept, Return, ResultInv, Acceptable, deployment
  <2> QED
    BY <2>1, <2>2, <2>3
<1>5. result = None
  BY DEF FetchFails, RejectMixUp, Accept, Return, ResultInv
<1>6. CalledInv'
  BY <1>1, <1>5, CalledKept
<1> QED
  BY <1>2, <1>3, <1>4, <1>6

LEMMA CallIInv ==
  ASSUME IInv, NEW m \in Methods, NEW op \in OpsOf(m), Call(m, op) PROVE IInv'
<1> USE DEF IInv, Call
<1>1. DeploymentInv' /\ Document' = Document
  BY DeploymentKept DEF DeploymentInv
<1>2. AnswerInv' /\ ResultInv'
  BY <1>1 DEF AnswerInv, Whole, ResultInv, deployment
<1>3. CalledInv'
  BY DEF CalledInv, deployment, StatusOf
<1> QED
  BY <1>1, <1>2, <1>3

LEMMA NextIInv == IInv /\ [Next]_vars => IInv'
<1> SUFFICES ASSUME IInv, [Next]_vars PROVE IInv'
  OBVIOUS
<1>1. ASSUME NEW method \in {"GET", "HEAD", "POST"},
             ServeNothing(method) \/ MethodNotAllowed(method) \/ ServeDocument(method)
      PROVE  IInv'
  BY <1>1, HandlerIInv
<1>2. ASSUME NEW d \in {MaxAge(n) : n \in Values} \cup {Garbled, Other}, AddDirective(d)
      PROVE  IInv'
  BY <1>2, Added, AddDirectiveIInv
<1>3. CASE Elsewhere
  BY <1>3, ElsewhereIInv
<1>4. CASE FetchFails \/ RejectMixUp \/ Accept
  BY <1>4, ReturnIInv
<1>5. ASSUME NEW m \in Methods, NEW op \in OpsOf(m), Call(m, op) PROVE IInv'
  BY <1>5, CallIInv
<1>6. CASE UNCHANGED vars
  <2>1. DeploymentInv' /\ Document' = Document
    BY <1>6, DeploymentKept DEF IInv, DeploymentInv, vars
  <2>2. AnswerInv' /\ ResultInv'
    BY <1>6, <2>1 DEF IInv, AnswerInv, Whole, ResultInv, vars, deployment
  <2> QED
    BY <1>6, <2>1, <2>2, CalledKept DEF IInv, vars
<1> QED
  BY <1>1, <1>2, <1>3, <1>4, <1>5, <1>6 DEF Next

(***************************************************************************)
(* In every reachable state of every deployment the document that is       *)
(* served, fetched or called by is the one BuildMetadata made of the AS    *)
(* (server/metadata.go:54-125, client/metadata.go:79-129).                 *)
(***************************************************************************)
THEOREM Invariance == Spec => []IInv
  BY InitIInv, NextIInv, PTL DEF Spec

-----------------------------------------------------------------------------
(***************************************************************************)
(* What follows from it.                                                   *)
(***************************************************************************)

(***************************************************************************)
(* The model's variables keep their shape: the handler sends a document    *)
(* with an OK to a GET and with nothing else (server/metadata.go:106-125), *)
(* and a client gets one, with a lifetime that is a time.Duration, exactly *)
(* when FetchMetadata returns no error (client/metadata.go:79-129).        *)
(***************************************************************************)
THEOREM TypeCorrect == Spec => []TypeOK
<1>1. IInv => TypeOK
  <2> SUFFICES ASSUME IInv PROVE TypeOK
    OBVIOUS
  <2> USE DEF IInv
  <2>1. mounted # None => {e[2] : e \in mounted.endpoints} \subseteq Methods
    <3>1. Document.endpoints = {Joined(asURL, m) : m \in IF as = None THEN {} ELSE Advertised(as)}
      BY Zenon DEF Document, BuildMetadata
    <3>2. ASSUME NEW e \in Document.endpoints PROVE e[2] \in Methods
      <4>1. PICK m \in IF as = None THEN {} ELSE Advertised(as) : e = Joined(asURL, m)
        BY <3>1, Zenon
      <4>2. m \in Methods
        BY DEF Advertised
      <4> QED
        BY <4>1, <4>2 DEF Joined
    <3> QED
      BY <3>2 DEF DeploymentInv
  <2>2. answer # None => (answer.doc # None) = (answer.status = "OK" /\ answer.method = "GET")
    BY Zenon DEF AnswerInv, Whole
  <2>3. header \in Seq(Seq(Directives))
    BY DEF DeploymentInv
  <2>4. result # None => result.kind \in {"failed", "mixup", "fetched"}
    BY DEF ResultInv
  <2>5. result # None => (result.doc # None) = Got
    BY Zenon DEF ResultInv, Got
  <2>6. result # None => result.ttl \in GoInts
    <3>1. 0 \in GoInts
      BY HalfRangeAssumption DEF GoInts, MinInt, MaxInt
    <3>2. CacheTTL(FirstLine(header), fallback) \in GoInts
      BY FirstLineIs, LifetimeInRange, DeploymentAssumption DEF DeploymentInv
    <3> QED
      BY <3>1, <3>2 DEF ResultInv
  <2>7. called # None => called.status \in {"elsewhere", "served", "not implemented"}
    <3>1. \A m, op : StatusOf(m, op) \in {"elsewhere", "served", "not implemented"}
      BY DEF StatusOf
    <3>2. called # None => \E m, op : called.status = StatusOf(m, op)
      BY DEF CalledInv
    <3> QED
      BY <3>1, <3>2, Zenon
  <2> QED
    BY <2>1, <2>2, <2>3, <2>4, <2>5, <2>6, <2>7 DEF TypeOK
<1> QED
  BY <1>1, Invariance, PTL

(***************************************************************************)
(* A client that takes the document can rely on it: what the AS serves is  *)
(* under an endpoint of it and no endpoint of it is all 501, for any AS    *)
(* that follows the probing convention (server/metadata.go:54-79,          *)
(* client/client.go:190-205).                                              *)
(***************************************************************************)
THEOREM DocumentIsTrue == Spec => []AdvertisedIsServed
<1>1. IInv => AdvertisedIsServed
  <2> SUFFICES ASSUME IInv, Got, called # None, called.status # "elsewhere", FollowsConvention
               PROVE  /\ called.status = "served" => called.to \in result.doc.endpoints
                      /\ called.to \in result.doc.endpoints => as[called.method].serves # {}
    BY Zenon DEF AdvertisedIsServed
  <2>1. PICK m \in Methods : \E op \in OpsOf(m) :
          called = [method |-> m, to |-> EndpointURL(base, m), status |-> StatusOf(m, op)]
    BY DEF IInv, CalledInv
  <2>2. PICK op \in OpsOf(m) :
          /\ called.method = m /\ called.to = EndpointURL(base, m)
          /\ called.status = StatusOf(m, op)
    BY <2>1
  <2>3. /\ as # None /\ EndpointURL(base, m) = <<TrimSlashes(asURL), m>>
        /\ called.status = "served" => op \in as[m].serves
    BY <2>2 DEF StatusOf
  <2>4. result.doc.endpoints = {Joined(asURL, n) : n \in Advertised(as)}
    <3>1. result.doc = Document
      BY DEF IInv, ResultInv, Got
    <3>2. Document.endpoints = {Joined(asURL, n) : n \in Advertised(as)}
      BY <2>3, Zenon DEF Document, BuildMetadata
    <3> QED
      BY <3>1, <3>2
  <2>5. as[m].probe = "not implemented" <=> as[m].serves = {}
    BY Zenon DEF FollowsConvention
  <2>6. ASSUME called.status = "served" PROVE called.to \in result.doc.endpoints
    <3>1. m \in Advertised(as)
      BY <2>3, <2>5, <2>6 DEF Advertised
    <3> QED
      BY <2>2, <2>3, <2>4, <3>1 DEF Joined
  <2>7. ASSUME called.to \in result.doc.endpoints PROVE as[called.method].serves # {}
    <3>1. m \in Advertised(as)
      BY <2>2, <2>3, <2>4, <2>7 DEF Joined
    <3> QED
      BY <2>2, <2>5, <3>1 DEF Advertised
  <2> QED
    BY <2>6, <2>7
<1> QED
  BY <1>1, Invariance, PTL

(* A base URL without a path is the root that endpoints are resolved       *)
(* against (client/client.go:190-205).                                     *)
LEMMA RootOfBase == ASSUME IInv PROVE TrimSlashes(base) = Root(base) <=> Path(base) = ""
<1>1. base \in (STRING \X STRING) \X Nat
  BY DeploymentAssumption DEF IInv, DeploymentInv
<1>2. base[1] \in STRING \X STRING
  BY <1>1
<1>3. base[1] = <<base[1][1], base[1][2]>>
  BY <1>2
<1>4. ASSUME NEW host, NEW path PROVE <<host, path>> = <<host, "">> <=> path = ""
  OBVIOUS
<1> QED
  BY <1>3, <1>4, Zenon DEF TrimSlashes, Root, Path

(***************************************************************************)
(* Whatever hosts and paths the URLs have, the mix-up defence refuses an   *)
(* AS's document exactly when a client without a path in its base URL      *)
(* would not call that AS (server/metadata.go:55, client/metadata.go:102-  *)
(* 109, 127-129, client/client.go:190-205).                                *)
(***************************************************************************)
THEOREM MixUpDefence == Spec => []MixUpIsElsewhere
<1>1. IInv => MixUpIsElsewhere
  <2> SUFFICES ASSUME IInv, as # None, called # None, ~relaxed, Path(base) = ""
               PROVE  /\ result.kind = "fetched" => called.status # "elsewhere"
                      /\ result.kind = "mixup" => called.status = "elsewhere"
    BY Zenon DEF MixUpIsElsewhere
  <2>1. PICK m \in Methods : \E op \in OpsOf(m) :
          called = [method |-> m, to |-> EndpointURL(base, m), status |-> StatusOf(m, op)]
    BY Zenon DEF IInv, CalledInv
  <2>2. PICK op \in OpsOf(m) :
          called = [method |-> m, to |-> EndpointURL(base, m), status |-> StatusOf(m, op)]
    BY <2>1
  <2>3. EndpointURL(base, m) = <<TrimSlashes(base), m>>
    BY RootOfBase DEF EndpointURL
  <2>4. called.status = "elsewhere" <=> TrimSlashes(base) # TrimSlashes(asURL)
    <3>1. EndpointURL(base, m) = <<TrimSlashes(asURL), m>> <=> TrimSlashes(base) = TrimSlashes(asURL)
      <4>1. ASSUME NEW x, NEW y PROVE <<x, m>> = <<y, m>> <=> x = y
        OBVIOUS
      <4> QED
        BY <2>3, <4>1, Zenon
    <3>2. called.status = StatusOf(m, op)
      BY <2>2
    <3> QED
      BY <3>1, <3>2 DEF StatusOf
  <2>5. /\ result.kind = "fetched" => TrimSlashes(base) = TrimSlashes(asURL)
        /\ result.kind = "mixup" => TrimSlashes(base) # TrimSlashes(asURL)
    BY DEF IInv, CalledInv, ResultInv, SameIssuer
  <2> QED
    BY <2>4, <2>5
<1> QED
  BY <1>1, Invariance, PTL

(***************************************************************************)
(* An endpoint of the document is the one the client calls exactly when    *)
(* its base URL has no path (client/client.go:190-205,                     *)
(* server/metadata.go:54-72).                                              *)
(***************************************************************************)
THEOREM BaseWithoutPath == Spec => []CallsWhereAdvertised
<1>1. IInv => CallsWhereAdvertised
  <2> SUFFICES ASSUME IInv, Got, ~relaxed, called # None,
                      NEW e \in result.doc.endpoints, e[2] = called.method
               PROVE  e = called.to <=> Path(base) = ""
    BY Zenon DEF CallsWhereAdvertised
  <2>1. PICK m \in Methods : called.method = m /\ called.to = EndpointURL(base, m)
    BY DEF IInv, CalledInv
  <2>2. result.doc = Document /\ TrimSlashes(base) = TrimSlashes(asURL)
    BY DEF IInv, ResultInv, Got, SameIssuer
  <2>3. PICK n : e = Joined(asURL, n)
    <3>1. e \in Document.endpoints
      BY <2>2
    <3>2. Document.endpoints = {Joined(asURL, n) : n \in IF as = None THEN {} ELSE Advertised(as)}
      BY Zenon DEF Document, BuildMetadata
    <3> QED
      BY <3>1, <3>2, Zenon
  <2>4. e = <<TrimSlashes(base), m>> /\ called.to = <<Root(base), m>>
    BY <2>1, <2>2, <2>3 DEF Joined, EndpointURL
  <2>5. TrimSlashes(base) = Root(base) <=> Path(base) = ""
    BY RootOfBase
  <2>6. e = called.to <=> TrimSlashes(base) = Root(base)
    BY <2>4
  <2> QED
    BY <2>5, <2>6
<1> QED
  BY <1>1, Invariance, PTL

(***************************************************************************)
(* The first max-age on the first line of the header decides, and exactly, *)
(* unless int64 nanoseconds overflow; an unusable one, and a header        *)
(* without any, fall back to the configured TTL (client/metadata.go:111,   *)
(* 139-156).                                                               *)
(***************************************************************************)
THEOREM FirstDirectiveDecides == Spec => []FirstMaxAgeDecides
<1>1. ASSUME IInv, Got, NEW i \in DOMAIN FirstLine(header), FirstLine(header)[i][1] # "other",
             \A j \in 1 .. i - 1 : FirstLine(header)[j][1] = "other"
      PROVE  LET d == FirstLine(header)[i]
             IN  /\ ~Parses(d) \/ d[2] < 0 => result.ttl = fallback
                 /\ Parses(d) /\ d[2] >= 0 /\ d[2] * Second <= MaxInt =>
                      result.ttl = d[2] * Second
  <2> DEFINE d == FirstLine(header)[i]
  <2>1. FirstLine(header) \in Seq(Directives) /\ result.ttl = CacheTTL(FirstLine(header), fallback)
    BY <1>1, FirstLineIs DEF IInv, DeploymentInv, ResultInv, Got
  <2>2. MaxAgeAt(FirstLine(header)) # {} /\ FirstMaxAge(FirstLine(header)) = d
    BY <1>1, <2>1, FirstMaxAgeIs
  <2>3. result.ttl = IF ~Parses(d) \/ d[2] < 0 THEN fallback ELSE Wrap(d[2] * Second)
    BY <2>1, <2>2 DEF CacheTTL
  <2> HIDE DEF d
  <2>4. ASSUME Parses(d), d[2] >= 0, d[2] * Second <= MaxInt PROVE result.ttl = d[2] * Second
    <3>1. d[2] \in Nat
      BY <2>4 DEF Parses, GoInts, MinInt, MaxInt
    <3>2. d[2] * Second \in Nat
      BY <3>1, SecondAssumption
    <3>3. d[2] * Second \in GoInts
      BY <2>4, <3>2, HalfRangeAssumption DEF GoInts, MinInt, MaxInt
    <3>4. ~(~Parses(d) \/ d[2] < 0)
      BY <2>4, <3>1
    <3>5. result.ttl = Wrap(d[2] * Second)
      BY <2>3, <3>4
    <3> QED
      BY <3>3, <3>5, WrapFits
  <2> QED
    BY <2>3, <2>4 DEF d
<1>2. ASSUME IInv, Got, \A p \in Positions(header) : header[p[1]][p[2]][1] = "other"
      PROVE  result.ttl = fallback
  <2>1. header \in Seq(Seq(Directives)) /\ result.ttl = CacheTTL(FirstLine(header), fallback)
    BY <1>2 DEF IInv, DeploymentInv, ResultInv, Got
  <2>2. ASSUME NEW i \in DOMAIN FirstLine(header) PROVE FirstLine(header)[i][1] = "other"
    <3>1. header # <<>>
      BY <2>2 DEF FirstLine
    <3>2. 1 \in DOMAIN header /\ FirstLine(header) = header[1]
      BY <2>1, <3>1, FirstLineIs
    <3>3. <<1, i>> \in Positions(header)
      BY <2>2, <3>2 DEF Positions
    <3> QED
      BY <1>2, <3>2, <3>3
  <2>3. MaxAgeAt(FirstLine(header)) = {}
    BY <2>2 DEF MaxAgeAt
  <2> QED
    BY <2>1, <2>3 DEF CacheTTL
<1>3. IInv => FirstMaxAgeDecides
  BY <1>1, <1>2, Zenon DEF FirstMaxAgeDecides
<1> QED
  BY <1>3, Invariance, PTL
=============================================================================
