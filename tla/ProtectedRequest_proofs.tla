---------------------- MODULE ProtectedRequest_proofs ----------------------
(***************************************************************************)
(* Proofs about ProtectedRequest, for any routes, headers, permissions and *)
(* tickets.                                                                *)
(***************************************************************************)
EXTENDS ProtectedRequest, SequenceTheorems, TLAPS

Over == pc \in {"answered", "read"}

(* What was asked and what became of it, at every stage of a request.      *)
AskedInv ==
  /\ introspected = NotAsked \/ (introspected.of = Token /\ Token # <<>> /\ route # None)
  /\ pc \in {"arrived", "introspecting"} => introspected = NotAsked
  /\ pc \in {"arrived", "introspecting", "asking"} => issued = Unissued /\ outcome = Undecided
  /\ pc = "asking" => introspected.of = Token /\ ~Covered

(* The demo's outcome is what introspection and registration came to.      *)
DecidedInv ==
  rs = "demo" /\ pc \in {"decided", "answered", "read"} =>
    IF Covered THEN outcome = Allow /\ issued = Unissued
    ELSE outcome.decision = "unknown" /\ (route # None => outcome.err # "none")

IssuedInv ==
  issued # Unissued =>
    /\ route # None /\ introspected.of = Token
    /\ issued.rsid = route.rsid /\ issued.scopes = route.scopes
    /\ \/ outcome.err = "other"
       \/ outcome.err = "ticket required" /\ outcome.challenge.ticket = issued.ticket

(* The response follows the outcome.                                       *)
RepliedInv ==
  /\ Over /\ route # None =>
       /\ reply.status = "OK" <=> outcome.err = "none" /\ outcome.decision = "allow"
       /\ outcome.err = "other" => reply.status = "InternalServerError"
       /\ outcome.err = "ticket required" => reply.status = "Unauthorized"
  /\ Over /\ route = None =>
       /\ reply.status = "NotFound"
       /\ introspected = NotAsked /\ issued = Unissued

IInv ==
  /\ TypeOK
  /\ authorization \in Headers
  /\ AskedInv /\ DecidedInv /\ IssuedInv /\ RepliedInv

-----------------------------------------------------------------------------
(* A token is what follows the scheme and the space.                       *)
LEMMA BearerSplit ==
  ASSUME NEW header \in Seq(STRING), ExtractBearerToken(header) # <<>>
  PROVE  \E scheme \in {"Bearer", "bearer"} :
           header = <<scheme, "space">> \o ExtractBearerToken(header)
<1> DEFINE token == SubSeq(header, 3, Len(header))
           whole == <<header[1], "space">> \o token
<1>1. /\ Len(header) > 2 /\ header[1] \in {"Bearer", "bearer"} /\ header[2] = "space"
      /\ ExtractBearerToken(header) = token
  BY DEF ExtractBearerToken
<1>2. Len(header) \in Nat /\ \A i \in 1 .. Len(header) : header[i] \in STRING
  OBVIOUS
<1>3. /\ token \in Seq(STRING) /\ Len(token) = Len(header) - 2
      /\ \A i \in 1 .. Len(header) - 2 : token[i] = header[i + 2]
  BY <1>1, <1>2
<1>4. <<header[1], "space">> \in Seq(STRING)
  BY <1>1
<1>5. /\ whole \in Seq(STRING) /\ Len(whole) = Len(header)
      /\ \A i \in 1 .. Len(header) : whole[i] = header[i]
  BY <1>1, <1>2, <1>3, <1>4
<1>6. whole = header
  BY <1>5, SeqEqual
<1> QED
  BY <1>1, <1>6

(* Nothing is covered before introspection.                                *)
LEMMA NotCovered == introspected = NotAsked => ~Covered
BY DEF NotAsked, Covered

(* Introspection covers the route exactly when a permission does.          *)
LEMMA CoveredIffActive ==
  ASSUME NEW active \in BOOLEAN, NEW perms,
         authorization \in Headers, Token # <<>>,
         introspected' = [of |-> Token, active |-> active, perms |-> perms],
         UNCHANGED <<route, authorization>>
  PROVE  Covered' <=> active /\ \E perm \in perms : Covers(perm)
<1>1. \E scheme \in {"Bearer", "bearer"} : authorization = <<scheme, "space">> \o Token
  BY RequestAssumption, BearerSplit DEF Token
<1>2. introspected'.of = Token /\ introspected'.active = active /\ introspected'.perms = perms
  OBVIOUS
<1>3. ASSUME NEW perm
      PROVE  Covers(perm) <=> /\ perm.rsid = route.rsid
                              /\ {route.scopes[i] : i \in DOMAIN route.scopes}
                                   \subseteq perm.scopes
  BY DEF Covers
<1>4. (\E perm \in perms : Covers(perm)) <=>
        \E perm \in perms : /\ perm.rsid = route.rsid
                            /\ {route.scopes[i] : i \in DOMAIN route.scopes}
                                 \subseteq perm.scopes
  BY <1>3
<1> QED
  BY <1>1, <1>2, <1>4 DEF Covered

(* Records that differ.                                                    *)
LEMMA Outcomes ==
  /\ Undecided.decision = "unknown" /\ Undecided.err = "none"
  /\ Failure.decision = "unknown" /\ Failure.err = "other"
  /\ Allow.decision = "allow" /\ Allow.err = "none"
  /\ NoReply.status = "none"
BY DEF Undecided, Failure, Allow, Without, Outcome, NoChallenge, NoReply

(* What the steps before a response leave alone.                           *)
LEMMA SameQuestion ==
  ASSUME UNCHANGED <<route, authorization, introspected>>
  PROVE  Token' = Token /\ Covered' = Covered
BY DEF Token, Covered

-----------------------------------------------------------------------------
LEMMA InitInv == Init => IInv
<1> SUFFICES ASSUME Init PROVE IInv
  OBVIOUS
<1>1. TypeOK /\ authorization \in Headers
  BY Outcomes DEF Init, TypeOK
<1>2. AskedInv /\ DecidedInv /\ IssuedInv /\ RepliedInv
  BY DEF Init, AskedInv, DecidedInv, IssuedInv, RepliedInv, Over
<1> QED
  BY <1>1, <1>2 DEF IInv

LEMMA NoSuchRouteInv == IInv /\ NoSuchRoute => IInv'
<1> SUFFICES ASSUME IInv, NoSuchRoute PROVE IInv'
  OBVIOUS
<1>1. /\ pc = "arrived" /\ route = None /\ pc' = "answered"
      /\ reply'.status = "NotFound"
      /\ UNCHANGED <<rs, asURL, realm, route, authorization, introspected, issued, outcome>>
  BY DEF NoSuchRoute, Respond, deployment
<1>2. Token' = Token /\ Covered' = Covered
  BY <1>1, SameQuestion
<1>3. introspected = NotAsked /\ issued = Unissued /\ outcome = Undecided /\ ~Covered
  BY <1>1, NotCovered DEF IInv, AskedInv
<1>4. TypeOK' /\ authorization' \in Headers
  BY <1>1, <1>2, <1>3 DEF IInv, TypeOK
<1>5. AskedInv' /\ IssuedInv'
  BY <1>1, <1>2, <1>3 DEF AskedInv, IssuedInv, NotAsked, Unissued
<1>6. DecidedInv'
  BY <1>1, <1>2, <1>3, Outcomes DEF DecidedInv
<1>7. RepliedInv'
  BY <1>1, <1>3 DEF RepliedInv, NotAsked, Unissued
<1> QED
  BY <1>4, <1>5, <1>6, <1>7 DEF IInv

LEMMA StartInv == IInv /\ Start => IInv'
<1> SUFFICES ASSUME IInv, Start PROVE IInv'
  OBVIOUS
<1>1. /\ pc = "arrived" /\ route # None /\ rs = "demo"
      /\ pc' = (IF Token = <<>> THEN "asking" ELSE "introspecting")
      /\ UNCHANGED <<rs, route, authorization, introspected, issued, outcome, reply>>
  BY DEF Start, deployment
<1>2. Token' = Token /\ Covered' = Covered
  BY <1>1, SameQuestion
<1>3. introspected = NotAsked /\ issued = Unissued /\ outcome = Undecided /\ ~Covered
  BY <1>1, NotCovered DEF IInv, AskedInv
<1>4. TypeOK' /\ authorization' \in Headers
  BY <1>1, <1>2 DEF IInv, TypeOK
<1>5. AskedInv'
  BY <1>1, <1>2, <1>3 DEF AskedInv, NotAsked
<1>6. DecidedInv' /\ IssuedInv' /\ RepliedInv'
  BY <1>1, <1>3 DEF DecidedInv, IssuedInv, RepliedInv, Over
<1> QED
  BY <1>4, <1>5, <1>6 DEF IInv

LEMMA IntrospectInv ==
  ASSUME IInv, NEW active \in BOOLEAN, NEW perms, Introspect(active, perms)
  PROVE  IInv'
<1>1. /\ pc = "introspecting"
      /\ introspected' = [of |-> Token, active |-> active, perms |-> perms]
      /\ UNCHANGED <<rs, asURL, realm, route, authorization, issued, reply>>
  BY DEF Introspect, deployment
<1>2. /\ Token # <<>> /\ route # None /\ rs = "demo" /\ authorization \in Headers
      /\ issued = Unissued /\ outcome = Undecided
  BY <1>1 DEF IInv, TypeOK, AskedInv
<1>3. Covered' <=> active /\ \E perm \in perms : Covers(perm)
  BY <1>1, <1>2, CoveredIffActive
<1>4. IF Covered' THEN pc' = "decided" /\ outcome' = Allow
                  ELSE pc' = "asking" /\ outcome' = outcome
  BY <1>3 DEF Introspect, Decide
<1>5. Token' = Token /\ introspected'.of = Token
  BY <1>1 DEF Token
<1>6. TypeOK' /\ authorization' \in Headers
  <2>1. outcome'.err \in {"none", "ticket required", "nil ticket required", "other"}
    BY <1>2, <1>4, Outcomes
  <2>2. pc' \in {"decided", "asking"}
    BY <1>4
  <2> QED
    BY <1>1, <1>2, <2>1, <2>2 DEF IInv, TypeOK
<1>7. AskedInv'
  BY <1>1, <1>2, <1>4, <1>5 DEF AskedInv
<1>8. DecidedInv'
  BY <1>1, <1>2, <1>4 DEF DecidedInv
<1>9. IssuedInv' /\ RepliedInv'
  BY <1>1, <1>2, <1>4 DEF IssuedInv, RepliedInv, Over
<1> QED
  BY <1>6, <1>7, <1>8, <1>9 DEF IInv

LEMMA IntrospectFailsInv == IInv /\ IntrospectFails => IInv'
<1> SUFFICES ASSUME IInv, IntrospectFails PROVE IInv'
  OBVIOUS
<1>1. /\ pc = "introspecting" /\ pc' = "decided" /\ outcome' = Failure
      /\ UNCHANGED <<rs, route, authorization, introspected, issued, reply>>
  BY DEF IntrospectFails, Decide, deployment
<1>2. Token' = Token /\ Covered' = Covered
  BY <1>1, SameQuestion
<1>3. route # None /\ introspected = NotAsked /\ issued = Unissued /\ ~Covered
  BY <1>1, NotCovered DEF IInv, TypeOK, AskedInv
<1>4. TypeOK' /\ authorization' \in Headers
  BY <1>1, <1>2, Outcomes DEF IInv, TypeOK
<1>5. AskedInv' /\ IssuedInv' /\ RepliedInv'
  BY <1>1, <1>2, <1>3 DEF AskedInv, IssuedInv, RepliedInv, Over
<1>6. DecidedInv'
  BY <1>1, <1>2, <1>3, Outcomes DEF DecidedInv
<1> QED
  BY <1>4, <1>5, <1>6 DEF IInv

(* A registration that was answered, or that failed.                       *)
LEMMA RegistrationInv ==
  ASSUME IInv, pc = "asking", pc' = "decided",
         UNCHANGED <<rs, route, authorization, introspected, reply>>,
         outcome'.decision = "unknown",
         outcome'.err \in {"other", "ticket required"},
         \/ issued' = issued
         \/ /\ issued'.rsid = route.rsid /\ issued'.scopes = route.scopes
            /\ outcome'.err = "ticket required" =>
                 outcome'.challenge.ticket = issued'.ticket
  PROVE  IInv'
<1>1. Token' = Token /\ Covered' = Covered
  BY SameQuestion
<1>2. /\ route # None /\ rs = "demo" /\ issued = Unissued
      /\ introspected.of = Token /\ ~Covered
  BY DEF IInv, TypeOK, AskedInv
<1>3. TypeOK' /\ authorization' \in Headers
  BY <1>1, <1>2 DEF IInv, TypeOK
<1>4. AskedInv'
  BY <1>1, <1>2 DEF IInv, AskedInv
<1>5. DecidedInv'
  BY <1>1, <1>2 DEF DecidedInv
<1>6. IssuedInv'
  BY <1>1, <1>2 DEF IssuedInv
<1>7. RepliedInv'
  BY DEF RepliedInv, Over
<1> QED
  BY <1>3, <1>4, <1>5, <1>6, <1>7 DEF IInv

LEMMA AskForTicketInv ==
  ASSUME IInv, NEW ticket, AskForTicket(ticket)
  PROVE  IInv'
<1>1. /\ pc = "asking" /\ pc' = "decided"
      /\ UNCHANGED <<rs, route, authorization, introspected, reply>>
      /\ outcome' = Outcome("unknown", "ticket required", Challenged(ticket))
      /\ issued' = issued \/ Mint(ticket)
  BY DEF AskForTicket, Decide, deployment
<1>2. /\ outcome'.decision = "unknown" /\ outcome'.err = "ticket required"
      /\ outcome'.challenge.ticket = ticket
  BY <1>1 DEF Outcome, Challenged, TicketRequired
<1>3. Mint(ticket) => /\ issued'.rsid = route.rsid /\ issued'.scopes = route.scopes
                      /\ issued'.ticket = ticket
  BY DEF Mint
<1> QED
  BY <1>1, <1>2, <1>3, RegistrationInv

LEMMA AskFailsInv == IInv /\ AskFails => IInv'
<1> SUFFICES ASSUME IInv, AskFails PROVE IInv'
  OBVIOUS
<1>1. /\ pc = "asking" /\ pc' = "decided" /\ outcome' = Failure
      /\ UNCHANGED <<rs, route, authorization, introspected, reply>>
      /\ issued' = issued \/ \E ticket \in Tickets : Mint(ticket)
  BY DEF AskFails, Decide, deployment
<1>2. (\E ticket \in Tickets : Mint(ticket)) =>
         issued'.rsid = route.rsid /\ issued'.scopes = route.scopes
  BY DEF Mint
<1> QED
  BY <1>1, <1>2, Outcomes, RegistrationInv

LEMMA OwnDecisionInv ==
  ASSUME IInv, NEW d, NEW c,
         NEW err \in {"none", "ticket required", "nil ticket required", "other"},
         OwnDecision(d, err, c)
  PROVE  IInv'
<1>1. /\ pc = "arrived" /\ rs = "own" /\ route # None /\ pc' = "decided"
      /\ outcome'.err = err
      /\ UNCHANGED <<rs, route, authorization, introspected, issued, reply>>
  BY DEF OwnDecision, Decide, Outcome, deployment
<1>2. Token' = Token /\ Covered' = Covered
  BY <1>1, SameQuestion
<1>3. introspected = NotAsked /\ issued = Unissued
  BY <1>1 DEF IInv, AskedInv
<1>4. TypeOK' /\ authorization' \in Headers
  BY <1>1, <1>2 DEF IInv, TypeOK
<1>5. AskedInv' /\ DecidedInv' /\ IssuedInv' /\ RepliedInv'
  BY <1>1, <1>2, <1>3 DEF AskedInv, DecidedInv, IssuedInv, RepliedInv, Over
<1> QED
  BY <1>4, <1>5 DEF IInv

LEMMA AnswerInv == IInv /\ Answer => IInv'
<1> SUFFICES ASSUME IInv, Answer PROVE IInv'
  OBVIOUS
<1>1. PICK status, challenge :
        /\ pc = "decided" /\ Respond(status, challenge)
        /\ status = IF outcome.err \in {"ticket required", "nil ticket required"}
                    THEN "Unauthorized"
                    ELSE IF outcome.err = "other" THEN "InternalServerError"
                    ELSE IF outcome.decision = "allow" THEN "OK" ELSE "Forbidden"
  <2>1. pc = "decided"
    BY DEF Answer
  <2>2. CASE outcome.err = "ticket required"
             /\ Respond("Unauthorized", BuildUMAChallenge(outcome.challenge))
    BY <2>1, <2>2
  <2>3. CASE outcome.err = "nil ticket required" /\ Respond("Unauthorized", <<>>)
    BY <2>1, <2>3
  <2>4. CASE outcome.err = "other" /\ Respond("InternalServerError", <<>>)
    BY <2>1, <2>4
  <2>5. CASE /\ outcome.err = "none"
             /\ Respond(IF outcome.decision = "allow" THEN "OK" ELSE "Forbidden", <<>>)
    BY <2>1, <2>5
  <2> QED
    BY <2>2, <2>3, <2>4, <2>5 DEF Answer
<1>10. /\ pc = "decided" /\ pc' = "answered" /\ reply'.status = status
       /\ UNCHANGED <<rs, route, authorization, introspected, issued, outcome>>
  BY <1>1 DEF Respond, deployment
<1>2. Token' = Token /\ Covered' = Covered
  BY <1>1, <1>10, SameQuestion
<1>3. route # None
  BY <1>1, <1>10 DEF IInv, TypeOK
<1>4. outcome.err \in {"none", "ticket required", "nil ticket required", "other"}
  BY DEF IInv, TypeOK
<1>5. TypeOK' /\ authorization' \in Headers
  BY <1>1, <1>10, <1>2, <1>4 DEF IInv, TypeOK
<1>6. AskedInv' /\ DecidedInv' /\ IssuedInv'
  BY <1>1, <1>10, <1>2 DEF IInv, AskedInv, DecidedInv, IssuedInv
<1>7. RepliedInv'
  BY <1>1, <1>10, <1>3, <1>4 DEF RepliedInv
<1> QED
  BY <1>5, <1>6, <1>7 DEF IInv

(* The client's reading, and every step that changes nothing proved here.  *)
LEMMA ReadInv ==
  ASSUME IInv,
         UNCHANGED <<rs, route, authorization, introspected, issued, outcome, reply>>,
         pc' = pc \/ (pc = "answered" /\ pc' = "read")
  PROVE  IInv'
<1>1. Token' = Token /\ Covered' = Covered
  BY SameQuestion
<1>2. TypeOK' /\ authorization' \in Headers
  BY <1>1 DEF IInv, TypeOK
<1>3. AskedInv' /\ DecidedInv' /\ IssuedInv'
  BY <1>1 DEF IInv, AskedInv, DecidedInv, IssuedInv
<1>4. RepliedInv'
  BY DEF IInv, RepliedInv, Over
<1> QED
  BY <1>2, <1>3, <1>4 DEF IInv

LEMMA StepInv == IInv /\ [Next]_vars => IInv'
<1> SUFFICES ASSUME IInv, [Next]_vars PROVE IInv'
  OBVIOUS
<1>1. CASE NoSuchRoute
  BY <1>1, NoSuchRouteInv
<1>2. CASE Start
  BY <1>2, StartInv
<1>3. CASE \E active \in BOOLEAN, perms \in Granted : Introspect(active, perms)
  BY <1>3, IntrospectInv
<1>4. CASE IntrospectFails
  BY <1>4, IntrospectFailsInv
<1>5. CASE \E ticket \in Tickets \cup {<<>>} : AskForTicket(ticket)
  BY <1>5, AskForTicketInv
<1>6. CASE AskFails
  BY <1>6, AskFailsInv
<1>7. CASE \E d \in Decisions, err \in {"none", "nil ticket required", "other"} :
             OwnDecision(d, err, NoChallenge)
  BY <1>7, OwnDecisionInv
<1>8. CASE \E d \in Decisions, ticket \in Tickets \cup {<<>>}, scopes \in Tickets \cup {<<>>} :
             OwnDecision(d, "ticket required", TicketRequired(ticket, asURL, scopes, realm))
  BY <1>8, OwnDecisionInv
<1>9. CASE Answer
  BY <1>9, AnswerInv
<1>10. CASE ReadChallenge \/ UNCHANGED vars
  BY <1>10, ReadInv DEF ReadChallenge, vars, deployment
<1> QED
  BY <1>1, <1>2, <1>3, <1>4, <1>5, <1>6, <1>7, <1>8, <1>9, <1>10 DEF Next

-----------------------------------------------------------------------------
(* The inductive invariant of a request to the resource server.            *)
THEOREM Invariance == Spec => []IInv
BY InitInv, StepInv, PTL DEF Spec

(* The state keeps its type (examples/as-rs-demo/main.go:411-482).         *)
THEOREM TypeCorrect == Spec => []TypeOK
<1>1. IInv => TypeOK
  BY DEF IInv
<1> QED
  BY <1>1, Invariance, PTL

(* The resource server fails closed, whatever the authorization server and *)
(* a consumer's RS answer (examples/as-rs-demo/main.go:411-431, 463-479).  *)
THEOREM ClosedByDefault == Spec => []FailsClosed
<1>1. IInv => FailsClosed
  <2> SUFFICES ASSUME IInv, Over PROVE FailsClosed
    BY DEF FailsClosed, Over
  <2>1. /\ TypeOK /\ AskedInv /\ DecidedInv /\ RepliedInv
        /\ pc \in {"answered", "read"}
    BY DEF IInv, Over
  <2>2. CASE route = None
    <3>1. reply.status = "NotFound"
      BY <2>2, <2>1 DEF RepliedInv
    <3> QED
      BY <2>2, <3>1 DEF FailsClosed
  <2>3. CASE route # None
    <3>1. reply.status = "OK" <=> outcome.err = "none" /\ outcome.decision = "allow"
      BY <2>1, <2>3 DEF RepliedInv
    <3>2. rs = "demo" /\ Covered => outcome = Allow
      BY <2>1 DEF DecidedInv
    <3>3. rs = "demo" /\ ~Covered => outcome.decision = "unknown"
      BY <2>1 DEF DecidedInv
    <3>4. rs = "demo" /\ Covered => reply.status = "OK"
      BY <3>1, <3>2, Outcomes
    <3>5. rs = "demo" /\ ~Covered => reply.status # "OK"
      BY <3>1, <3>3
    <3> QED
      BY <2>3, <3>1, <3>4, <3>5 DEF FailsClosed
  <2> QED
    BY <2>2, <2>3
<1> QED
  BY <1>1, Invariance, PTL

(* No ticket is minted in vain (examples/as-rs-demo/main.go:414-450).      *)
THEOREM TicketsAreNeeded == Spec => []NoTicketInVain
<1>1. IInv => NoTicketInVain
  <2> SUFFICES ASSUME IInv, issued # Unissued PROVE NoTicketInVain
    BY DEF NoTicketInVain
  <2>1. TypeOK /\ AskedInv /\ DecidedInv /\ IssuedInv /\ RepliedInv
    BY DEF IInv
  <2>2. /\ introspected.of = Token /\ route # None
        /\ issued.rsid = route.rsid /\ issued.scopes = route.scopes
    BY <2>1 DEF IssuedInv
  <2>3. pc \in {"decided", "answered", "read"} /\ rs = "demo"
    BY <2>1 DEF AskedInv, TypeOK
  <2>4. ~Covered
    BY <2>1, <2>3 DEF DecidedInv
  <2>5. pc \in {"answered", "read"} =>
          \/ reply.status = "InternalServerError"
          \/ reply.status = "Unauthorized" /\ outcome.challenge.ticket = issued.ticket
    BY <2>1, <2>2 DEF RepliedInv, IssuedInv, Over
  <2> QED
    BY <2>2, <2>4, <2>5 DEF NoTicketInVain
<1> QED
  BY <1>1, Invariance, PTL

-----------------------------------------------------------------------------
(***************************************************************************)
(* Reading a challenge: what precedes a parameter has neither its key nor  *)
(* a quote too many, and what follows it does not matter.                  *)
(***************************************************************************)
(* Every piece is a string; the prover has to be told so of a literal.     *)
Pieces == STRING \cup {"UMA", "quote", "comma", "space", "realm", "as_uri", "ticket", "scope"}

NoKey(s, key) == \A i \in 1 .. Len(s) - 1 : ~(s[i] = key /\ s[i + 1] = "quote")

NoQuote(v) == \A i \in 1 .. Len(v) : v[i] # "quote"

(* The place of the only least element.                                    *)
LEMMA MinIs ==
  ASSUME NEW S \in SUBSET Nat, NEW x \in S, \A y \in S : x <= y PROVE Min(S) = x
<1>1. \A z \in S : (\A y \in S : z =< y) => z = x
  OBVIOUS
<1> QED
  BY <1>1 DEF Min

(* The first key of a header is at k, and v is the text up to the next     *)
(* quote.                                                                  *)
HoldsAt(h, key, v, k) ==
  /\ k + 2 + Len(v) <= Len(h)
  /\ h[k] = key /\ h[k + 1] = "quote" /\ h[k + 2 + Len(v)] = "quote"
  /\ \A i \in 1 .. Len(v) : h[k + 1 + i] = v[i]
  /\ \A i \in 1 .. k - 1 : ~(h[i] = key /\ h[i + 1] = "quote")

(* parseChallenge reads from the first key to the next quote               *)
(* (examples/as-rs-demo/main.go:503-517).                                  *)
LEMMA ParamValueAt ==
  ASSUME NEW h \in Seq(Pieces), NEW key \in Pieces, NEW v \in Seq(Pieces), NoQuote(v),
         NEW k \in Nat \ {0}, HoldsAt(h, key, v, k)
  PROVE  ParamValue(h, key) = v
<1> DEFINE n == Len(v)
<1> USE DEF HoldsAt
<1>1. n \in Nat /\ Len(h) \in Nat
  OBVIOUS
<1>2. k \in KeyAt(h, key) /\ KeyAt(h, key) \subseteq Nat
  BY <1>1 DEF KeyAt
<1>3. \A i \in KeyAt(h, key) : k <= i
  <2> SUFFICES ASSUME NEW i \in KeyAt(h, key), i < k PROVE FALSE
    BY <1>2
  <2>1. i \in 1 .. k - 1 /\ h[i] = key /\ h[i + 1] = "quote"
    BY <1>1 DEF KeyAt
  <2> QED
    BY <2>1
<1>4. Min(KeyAt(h, key)) = k
  BY <1>2, <1>3, MinIs
<1> DEFINE Q == QuotesFrom(h, k + 2)
<1>5. k + 2 + n \in Q /\ Q \subseteq Nat
  BY <1>1 DEF QuotesFrom
<1>6. \A j \in Q : k + 2 + n <= j
  <2> SUFFICES ASSUME NEW j \in Q, j < k + 2 + n PROVE FALSE
    BY <1>1, <1>5
  <2>1. j \in k + 2 .. Len(h) /\ h[j] = "quote"
    BY <1>1 DEF QuotesFrom
  <2>2. j - k - 1 \in 1 .. n
    BY <1>1, <2>1
  <2>3. h[k + 1 + (j - k - 1)] = v[j - k - 1] /\ k + 1 + (j - k - 1) = j
    BY <2>1, <2>2
  <2> QED
    BY <2>1, <2>2, <2>3 DEF NoQuote
<1>7. Min(Q) = k + 2 + n
  <2> HIDE DEF Q
  <2> QED BY <1>5, <1>6, MinIs
<1>8. ParamValue(h, key) = SubSeq(h, k + 2, (k + 2 + n) - 1)
  BY <1>2, <1>4, <1>5, <1>7 DEF ParamValue
<1> DEFINE r == SubSeq(h, k + 2, (k + 2 + n) - 1)
<1>9. /\ r \in Seq(Pieces) /\ Len(r) = n
      /\ \A i \in 1 .. n : r[i] = h[k + 1 + i]
  BY <1>1
<1>10. r = v
  <2> HIDE DEF r
  <2> QED BY <1>9, SeqEqual
<1> QED
  BY <1>8, <1>10

(* One sequence after another.                                             *)
LEMMA Joined ==
  ASSUME NEW a \in Seq(Pieces), NEW b \in Seq(Pieces)
  PROVE  /\ a \o b \in Seq(Pieces) /\ Len(a \o b) = Len(a) + Len(b)
         /\ \A i \in 1 .. Len(a) : (a \o b)[i] = a[i]
         /\ \A i \in 1 .. Len(b) : (a \o b)[Len(a) + i] = b[i]
<1>1. /\ a \o b \in Seq(Pieces) /\ Len(a \o b) = Len(a) + Len(b)
      /\ \A i \in 1 .. Len(a) + Len(b) :
           (a \o b)[i] = IF i <= Len(a) THEN a[i] ELSE b[i - Len(a)]
  BY ConcatProperties
<1>2. Len(a) \in Nat /\ Len(b) \in Nat
  OBVIOUS
<1> DEFINE ab == a \o b
<1> HIDE DEF ab
<1>3. \A i \in 1 .. Len(a) + Len(b) : ab[i] = IF i <= Len(a) THEN a[i] ELSE b[i - Len(a)]
  BY <1>1 DEF ab
<1>4. \A i \in 1 .. Len(a) : ab[i] = a[i]
  BY <1>2, <1>3
<1>5. ASSUME NEW i \in 1 .. Len(b) PROVE ab[Len(a) + i] = b[i]
  <2>1. /\ Len(a) + i \in 1 .. Len(a) + Len(b) /\ ~(Len(a) + i <= Len(a))
        /\ (Len(a) + i) - Len(a) = i
    BY <1>2
  <2> QED
    BY <1>3, <2>1
<1> QED
  BY <1>1, <1>4, <1>5 DEF ab

(* Named, for the prover rewrites the equation itself.                     *)
Associative(a, b, c) == (a \o b) \o c = a \o (b \o c)

LEMMA Regrouped ==
  ASSUME NEW a \in Seq(Pieces), NEW b \in Seq(Pieces), NEW c \in Seq(Pieces)
  PROVE  Associative(a, b, c)
BY ConcatAssociative DEF Associative

(* A parameter: its key, a quote, its value, a quote (uma.go:61-77).       *)
LEMMA ParamShape ==
  ASSUME NEW key \in Pieces, NEW v \in Seq(Pieces)
  PROVE  /\ Param(key, v) \in Seq(Pieces) /\ Len(Param(key, v)) = Len(v) + 3
         /\ Param(key, v)[1] = key /\ Param(key, v)[2] = "quote"
         /\ Param(key, v)[Len(v) + 3] = "quote"
         /\ \A i \in 1 .. Len(v) : Param(key, v)[2 + i] = v[i]
<1> DEFINE a == <<key, "quote">>
           b == a \o v
           c == <<"quote">>
           p == b \o c
<1>1. "quote" \in Pieces /\ Len(v) \in Nat
  BY DEF Pieces
<1>2. a \in Seq(Pieces) /\ Len(a) = 2 /\ a[1] = key /\ a[2] = "quote"
  BY <1>1
<1>3. c \in Seq(Pieces) /\ Len(c) = 1 /\ c[1] = "quote"
  BY <1>1
<1> HIDE DEF a, c
<1>4. /\ b \in Seq(Pieces) /\ Len(b) = Len(a) + Len(v)
      /\ \A i \in 1 .. Len(a) : b[i] = a[i]
      /\ \A i \in 1 .. Len(v) : b[Len(a) + i] = v[i]
  BY <1>2, Joined
<1> HIDE DEF b
<1>5. /\ p \in Seq(Pieces) /\ Len(p) = Len(b) + Len(c)
      /\ \A i \in 1 .. Len(b) : p[i] = b[i]
      /\ \A i \in 1 .. Len(c) : p[Len(b) + i] = c[i]
  BY <1>3, <1>4, Joined
<1> HIDE DEF p
<1>6. p[1] = key /\ p[2] = "quote"
  BY <1>1, <1>2, <1>4, <1>5
<1>7. Len(p) = Len(v) + 3 /\ p[Len(v) + 3] = "quote"
  BY <1>1, <1>2, <1>3, <1>4, <1>5
<1>8. ASSUME NEW i \in 1 .. Len(v) PROVE p[2 + i] = v[i]
  BY <1>1, <1>2, <1>4, <1>5
<1>9. Param(key, v) = p
  BY DEF Param, p, b, a, c
<1> QED
  BY <1>5, <1>6, <1>7, <1>8, <1>9

(* The value of a parameter, wherever it is in the header.                 *)
LEMMA ParamValueAfter ==
  ASSUME NEW pre \in Seq(Pieces), NEW key \in Pieces \ {"quote"}, NEW v \in Seq(Pieces),
         NEW post \in Seq(Pieces), NoKey(pre, key), NoQuote(v)
  PROVE  ParamValue((pre \o Param(key, v)) \o post, key) = v
<1> DEFINE p == Param(key, v)
           m == pre \o p
           h == m \o post
<1>1. /\ p \in Seq(Pieces) /\ Len(p) = Len(v) + 3
      /\ p[1] = key /\ p[2] = "quote" /\ p[Len(v) + 3] = "quote"
      /\ \A i \in 1 .. Len(v) : p[2 + i] = v[i]
  BY ParamShape
<1> HIDE DEF p
<1>2. /\ m \in Seq(Pieces) /\ Len(m) = Len(pre) + Len(p)
      /\ \A i \in 1 .. Len(pre) + Len(p) : m[i] = IF i <= Len(pre) THEN pre[i] ELSE p[i - Len(pre)]
  BY <1>1, ConcatProperties
<1> HIDE DEF m
<1>3. /\ h \in Seq(Pieces) /\ Len(h) = Len(m) + Len(post)
      /\ \A i \in 1 .. Len(m) + Len(post) : h[i] = IF i <= Len(m) THEN m[i] ELSE post[i - Len(m)]
  BY <1>2, ConcatProperties
<1> HIDE DEF h
<1>4. Len(pre) \in Nat /\ Len(v) \in Nat /\ Len(post) \in Nat /\ Len(m) = Len(pre) + Len(v) + 3
  BY <1>1, <1>2
<1>k. PICK k \in Nat \ {0} : k = Len(pre) + 1
  BY <1>4
<1>5. \A i \in 1 .. Len(pre) : h[i] = pre[i]
  BY <1>1, <1>2, <1>3, <1>4
<1>6. ASSUME NEW i \in 1 .. Len(v) + 3 PROVE h[Len(pre) + i] = p[i]
  <2>1. /\ Len(pre) + i \in 1 .. Len(pre) + Len(p) /\ ~(Len(pre) + i <= Len(pre))
        /\ (Len(pre) + i) - Len(pre) = i
        /\ Len(pre) + i \in 1 .. Len(m) + Len(post) /\ Len(pre) + i <= Len(m)
    BY <1>1, <1>4
  <2> QED
    BY <1>2, <1>3, <2>1
<1>7. h[k] = key /\ h[k + 1] = "quote" /\ h[k + 2 + Len(v)] = "quote"
  <2>1. /\ 1 \in 1 .. Len(v) + 3 /\ 2 \in 1 .. Len(v) + 3 /\ Len(v) + 3 \in 1 .. Len(v) + 3
        /\ k + 1 = Len(pre) + 2 /\ k + 2 + Len(v) = Len(pre) + (Len(v) + 3)
    BY <1>k, <1>4
  <2> QED
    BY <1>1, <1>6, <2>1
<1>8. ASSUME NEW i \in 1 .. Len(v) PROVE h[k + 1 + i] = v[i]
  <2>1. 2 + i \in 1 .. Len(v) + 3 /\ k + 1 + i = Len(pre) + (2 + i)
    BY <1>k, <1>4
  <2> QED
    BY <1>1, <1>6, <2>1
<1>9. ASSUME NEW i \in 1 .. k - 1 PROVE ~(h[i] = key /\ h[i + 1] = "quote")
  <2>1. CASE i = Len(pre)
    BY <1>7, <1>k, <2>1
  <2>2. CASE i # Len(pre)
    <3>1. i \in 1 .. Len(pre) - 1 /\ i \in 1 .. Len(pre) /\ i + 1 \in 1 .. Len(pre)
      BY <1>k, <1>4, <2>2
    <3> QED
      BY <1>5, <3>1 DEF NoKey
  <2> QED
    BY <2>1, <2>2
<1>10. k + 2 + Len(v) <= Len(h)
  BY <1>k, <1>1, <1>3, <1>4
<1>11. HoldsAt(h, key, v, k)
  BY <1>7, <1>8, <1>9, <1>10 DEF HoldsAt
<1>12. ParamValue(h, key) = v
  BY <1>3, <1>11, ParamValueAt
<1> QED
  BY <1>12 DEF h, m, p

(* Where there is no such parameter its value is empty.                    *)
LEMMA NoParamValue ==
  ASSUME NEW h \in Seq(Pieces), NEW key, NoKey(h, key) PROVE ParamValue(h, key) = <<>>
<1>1. KeyAt(h, key) = {}
  BY DEF KeyAt, NoKey
<1> QED
  BY <1>1 DEF ParamValue

LEMMA NoKeyConcat ==
  ASSUME NEW a \in Seq(Pieces), NEW b \in Seq(Pieces), NEW key, NoKey(a, key), NoKey(b, key),
         b = <<>> \/ b[1] # "quote"
  PROVE  a \o b \in Seq(Pieces) /\ NoKey(a \o b, key)
<1> DEFINE h == a \o b
<1>1. /\ h \in Seq(Pieces) /\ Len(h) = Len(a) + Len(b)
      /\ \A i \in 1 .. Len(a) + Len(b) : h[i] = IF i <= Len(a) THEN a[i] ELSE b[i - Len(a)]
  BY ConcatProperties
<1> HIDE DEF h
<1>2. Len(a) \in Nat /\ Len(b) \in Nat
  OBVIOUS
<1>3. ASSUME NEW i \in 1 .. Len(h) - 1 PROVE ~(h[i] = key /\ h[i + 1] = "quote")
  <2>1. i \in 1 .. Len(a) + Len(b) /\ i + 1 \in 1 .. Len(a) + Len(b)
    BY <1>1, <1>2
  <2>2. CASE i < Len(a)
    <3>1. i \in 1 .. Len(a) - 1 /\ h[i] = a[i] /\ h[i + 1] = a[i + 1]
      BY <1>1, <1>2, <2>1, <2>2
    <3> QED
      BY <3>1 DEF NoKey
  <2>3. CASE i = Len(a)
    <3>1. h[i + 1] = b[1] /\ b # <<>>
      BY <1>1, <1>2, <2>1, <2>3
    <3> QED
      BY <3>1
  <2>4. CASE i > Len(a)
    <3>1. /\ i - Len(a) \in 1 .. Len(b) - 1 /\ h[i] = b[i - Len(a)]
          /\ h[i + 1] = b[(i - Len(a)) + 1]
      BY <1>1, <1>2, <2>1, <2>4
    <3> QED
      BY <3>1 DEF NoKey
  <2> QED
    BY <1>2, <2>2, <2>3, <2>4
<1> QED
  BY <1>1, <1>3 DEF NoKey, h

(* Another parameter, whose value has no quote and does not end in the     *)
(* key.                                                                    *)
LEMMA NoKeyParam ==
  ASSUME NEW other \in Pieces, NEW key \in Pieces, NEW v \in Seq(Pieces),
         other # key, key # "quote", NoQuote(v), v = <<>> \/ v[Len(v)] # key
  PROVE  NoKey(Param(other, v), key)
<1> DEFINE p == Param(other, v)
<1>0. /\ Len(p) = Len(v) + 3 /\ p[1] = other /\ p[2] = "quote"
      /\ \A i \in 1 .. Len(v) : p[2 + i] = v[i]
  BY ParamShape, Zenon
<1> HIDE DEF p
<1>1. /\ Len(p) = Len(v) + 3 /\ p[1] = other /\ p[2] = "quote" /\ Len(v) \in Nat
      /\ \A i \in 1 .. Len(v) : p[2 + i] = v[i]
  BY <1>0
<1>2. ASSUME NEW i \in 1 .. Len(p) - 1 PROVE ~(p[i] = key /\ p[i + 1] = "quote")
  <2>1. CASE i = 1 \/ i = 2
    BY <1>1, <2>1
  <2>2. CASE i \in 3 .. Len(v) + 1
    <3>1. i - 1 \in 1 .. Len(v) /\ 2 + (i - 1) = i + 1
      BY <1>1, <2>2
    <3>2. p[i + 1] = v[i - 1]
      BY <1>1, <3>1
    <3> QED
      BY <3>1, <3>2 DEF NoQuote
  <2>3. CASE i = Len(v) + 2 /\ Len(v) > 0
    <3>1. Len(v) \in 1 .. Len(v) /\ 2 + Len(v) = i /\ v # <<>>
      BY <1>1, <2>3
    <3> QED
      BY <1>1, <3>1
  <2> QED
    BY <1>1, <2>1, <2>2, <2>3
<1> QED
  BY <1>2 DEF NoKey, p
(* A value that does not make what follows it look like the parameter.     *)
Apart(v, key) == NoQuote(v) /\ (v = <<>> \/ v[Len(v)] # key)

(* A separator is one piece.                                               *)
LEMMA OnePiece ==
  ASSUME NEW x \in Pieces, x # "quote", NEW key
  PROVE  /\ <<x>> \in Seq(Pieces) /\ Len(<<x>>) = 1 /\ <<x>>[1] = x
         /\ NoKey(<<x>>, key)
<1>1. <<x>> \in Seq(Pieces) /\ Len(<<x>>) = 1 /\ <<x>>[1] = x
  OBVIOUS
<1> DEFINE c == <<x>>
<1> HIDE DEF c
<1>2. Len(c) = 1
  BY <1>1 DEF c
<1>3. NoKey(c, key)
  BY <1>2 DEF NoKey
<1> QED
  BY <1>1, <1>3 DEF c

(* What precedes a parameter has not its key when it ends in others.       *)
LEMMA NoKeyBefore ==
  ASSUME NEW pre \in Seq(Pieces), NEW key \in Pieces, NEW other \in Pieces,
         NEW v \in Seq(Pieces), NoKey(pre, key), Apart(v, key),
         other # key, key # "quote", other # "quote"
  PROVE  NoKey(pre \o Param(other, v), key)
<1>1. NoKey(Param(other, v), key)
  BY NoKeyParam DEF Apart
<1>2. Param(other, v) \in Seq(Pieces) /\ Param(other, v)[1] # "quote"
  BY ParamShape
<1> QED
  BY <1>1, <1>2, NoKeyConcat

LEMMA NoKeyComma ==
  ASSUME NEW pre \in Seq(Pieces), NEW key, NoKey(pre, key)
  PROVE  NoKey(pre \o <<"comma">>, key)
<1>1. "comma" \in Pieces
  BY DEF Pieces
<1> DEFINE c == <<"comma">>
<1>2. c \in Seq(Pieces) /\ c[1] # "quote" /\ NoKey(c, key)
  BY <1>1, OnePiece
<1> HIDE DEF c
<1>3. NoKey(pre \o c, key)
  BY <1>2, NoKeyConcat
<1> QED
  BY <1>3 DEF c

(***************************************************************************)
(* What parseChallenge finds in a header that BuildUMAChallenge wrote.     *)
(***************************************************************************)
Written(r, u, t, s) == BuildUMAChallenge(TicketRequired(t, u, s, r))

ToRealm(r) == (<<"UMA">> \o Param("realm", r)) \o <<"comma">>
ToURL(r, u) == (ToRealm(r) \o Param("as_uri", u)) \o <<"comma">>
ToTicket(r, u, t) == ToURL(r, u) \o Param("ticket", t)
Scope(s) == IF s = <<>> THEN <<>> ELSE <<"comma">> \o Param("scope", s)

LEMMA WrittenIs ==
  ASSUME NEW r, NEW u, NEW t, NEW s
  PROVE  Written(r, u, t, s) = ToTicket(r, u, t) \o Scope(s)
BY DEF Written, BuildUMAChallenge, TicketRequired, ToTicket, ToURL, ToRealm, Scope

LEMMA PartsAreSequences ==
  ASSUME NEW r \in Seq(Pieces), NEW u \in Seq(Pieces), NEW t \in Seq(Pieces),
         NEW s \in Seq(Pieces)
  PROVE  /\ ToRealm(r) \in Seq(Pieces) /\ ToURL(r, u) \in Seq(Pieces)
         /\ ToTicket(r, u, t) \in Seq(Pieces) /\ Scope(s) \in Seq(Pieces)
         /\ ToTicket(r, u, t)[1] = "UMA" /\ Len(ToTicket(r, u, t)) > 0
<1> DEFINE uma == <<"UMA">>
           comma == <<"comma">>
           pr == Param("realm", r)
           pu == Param("as_uri", u)
           pt == Param("ticket", t)
           ps == Param("scope", s)
<1>1. {"UMA", "comma", "realm", "as_uri", "ticket", "scope"} \subseteq Pieces
  BY DEF Pieces
<1>2. /\ uma \in Seq(Pieces) /\ Len(uma) = 1 /\ uma[1] = "UMA"
      /\ comma \in Seq(Pieces) /\ Len(comma) = 1
  BY <1>1, OnePiece
<1>3. pr \in Seq(Pieces) /\ pu \in Seq(Pieces) /\ pt \in Seq(Pieces) /\ ps \in Seq(Pieces)
  BY <1>1, ParamShape
<1> HIDE DEF uma, comma, pr, pu, pt, ps
<1> DEFINE h1 == uma \o pr
           h2 == h1 \o comma
           h3 == h2 \o pu
           h4 == h3 \o comma
           h5 == h4 \o pt
<1>12. /\ h1 \in Seq(Pieces) /\ Len(h1) = Len(uma) + Len(pr)
       /\ \A i \in 1 .. Len(uma) : h1[i] = uma[i]
  BY <1>2, <1>3, Joined
<1> HIDE DEF h1
<1>4. h1 \in Seq(Pieces) /\ h1[1] = "UMA" /\ Len(h1) > 0
  BY <1>2, <1>3, <1>12
<1>5. h2 \in Seq(Pieces) /\ h2[1] = "UMA" /\ Len(h2) > 0
  BY <1>2, <1>4, Joined
<1> HIDE DEF h2
<1>6. h3 \in Seq(Pieces) /\ h3[1] = "UMA" /\ Len(h3) > 0
  BY <1>3, <1>5, Joined
<1> HIDE DEF h3
<1>7. h4 \in Seq(Pieces) /\ h4[1] = "UMA" /\ Len(h4) > 0
  BY <1>2, <1>6, Joined
<1> HIDE DEF h4
<1>8. h5 \in Seq(Pieces) /\ h5[1] = "UMA" /\ Len(h5) > 0
  BY <1>3, <1>7, Joined
<1> HIDE DEF h5
<1>9. ToRealm(r) = h2 /\ ToURL(r, u) = h4 /\ ToTicket(r, u, t) = h5
  BY DEF ToRealm, ToURL, ToTicket, h1, h2, h3, h4, h5, uma, comma, pr, pu, pt
<1>10. comma \o ps \in Seq(Pieces)
  BY <1>2, <1>3, Joined
<1>11. Scope(s) \in Seq(Pieces)
  BY <1>10 DEF Scope, comma, ps
<1> QED
  BY <1>5, <1>7, <1>8, <1>9, <1>11

(* What precedes each parameter has not its key.                           *)
LEMMA PartsHaveNoKey ==
  ASSUME NEW r \in Seq(Pieces), NEW u \in Seq(Pieces), NEW t \in Seq(Pieces),
         NEW key \in {"as_uri", "ticket", "scope"}, Apart(r, key)
  PROVE  /\ NoKey(ToRealm(r), key)
         /\ key # "as_uri" /\ Apart(u, key) => NoKey(ToURL(r, u), key)
         /\ key = "scope" /\ Apart(u, key) /\ Apart(t, key) => NoKey(ToTicket(r, u, t), key)
<1>1. {"UMA", "comma", "realm", "as_uri", "ticket", "scope"} \subseteq Pieces
  BY DEF Pieces
<1>2. <<"UMA">> \in Seq(Pieces) /\ NoKey(<<"UMA">>, key)
  BY <1>1, OnePiece
<1> DEFINE h1 == <<"UMA">> \o Param("realm", r)
           h3 == ToRealm(r) \o Param("as_uri", u)
<1>3. h1 \in Seq(Pieces) /\ NoKey(h1, key)
  <2>1. Param("realm", r) \in Seq(Pieces)
    BY <1>1, ParamShape
  <2>2. h1 \in Seq(Pieces)
    BY <1>2, <2>1, Joined
  <2>3. NoKey(h1, key)
    BY <1>1, <1>2, NoKeyBefore
  <2> QED
    BY <2>2, <2>3
<1> HIDE DEF h1
<1>4. NoKey(ToRealm(r), key)
  <2>1. NoKey(h1 \o <<"comma">>, key)
    BY <1>3, NoKeyComma
  <2> QED
    BY <2>1 DEF ToRealm, h1
<1>5. ToRealm(r) \in Seq(Pieces) /\ ToURL(r, u) \in Seq(Pieces)
  BY PartsAreSequences
<1>6. ASSUME key # "as_uri", Apart(u, key) PROVE NoKey(ToURL(r, u), key)
  <2>1. Param("as_uri", u) \in Seq(Pieces)
    BY <1>1, ParamShape
  <2>2. h3 \in Seq(Pieces)
    BY <1>5, <2>1, Joined
  <2>3. NoKey(h3, key)
    BY <1>1, <1>4, <1>5, <1>6, NoKeyBefore
  <2> HIDE DEF h3
  <2>4. NoKey(h3 \o <<"comma">>, key)
    BY <2>2, <2>3, NoKeyComma
  <2> QED
    BY <2>4 DEF ToURL, h3
<1>7. ASSUME key = "scope", Apart(u, key), Apart(t, key) PROVE NoKey(ToTicket(r, u, t), key)
  <2>1. NoKey(ToURL(r, u), key)
    BY <1>6, <1>7
  <2>2. NoKey(ToURL(r, u) \o Param("ticket", t), key)
    BY <1>1, <1>5, <1>7, <2>1, NoKeyBefore
  <2> QED
    BY <2>2 DEF ToTicket
<1> QED
  BY <1>4, <1>6, <1>7

(* The client reads back what the resource server wrote (uma.go:61-77,     *)
(* examples/as-rs-demo/main.go:491-517).                                   *)
LEMMA ReadsBack ==
  ASSUME NEW r \in Seq(Pieces), NEW u \in Seq(Pieces), NEW t \in Seq(Pieces),
         NEW s \in Seq(Pieces)
  PROVE  /\ Written(r, u, t, s) # <<>> /\ Head(Written(r, u, t, s)) = "UMA"
         /\ Apart(r, "as_uri") /\ NoQuote(u) => ParamValue(Written(r, u, t, s), "as_uri") = u
         /\ Apart(r, "ticket") /\ Apart(u, "ticket") /\ NoQuote(t) =>
              ParamValue(Written(r, u, t, s), "ticket") = t
         /\ Apart(r, "scope") /\ Apart(u, "scope") /\ Apart(t, "scope") /\ NoQuote(s) =>
              ParamValue(Written(r, u, t, s), "scope") = s
<1>1. /\ {"UMA", "comma", "realm", "as_uri", "ticket", "scope", "quote"} \subseteq Pieces
      /\ "as_uri" # "quote" /\ "ticket" # "quote" /\ "scope" # "quote"
  BY DEF Pieces
<1>2. PICK h2 \in Seq(Pieces) : h2 = ToRealm(r)
  BY PartsAreSequences
<1>3. PICK h4 \in Seq(Pieces) : h4 = ToURL(r, u)
  BY PartsAreSequences
<1>4. PICK h5 \in Seq(Pieces) : h5 = ToTicket(r, u, t) /\ h5[1] = "UMA" /\ Len(h5) > 0
  BY PartsAreSequences
<1>5. PICK tail \in Seq(Pieces) : tail = Scope(s)
  BY PartsAreSequences
<1>6. PICK pu \in Seq(Pieces), pt \in Seq(Pieces), ps \in Seq(Pieces), comma \in Seq(Pieces) :
         /\ pu = Param("as_uri", u) /\ pt = Param("ticket", t) /\ ps = Param("scope", s)
         /\ comma = <<"comma">>
  BY <1>1, ParamShape, OnePiece
<1>7. PICK w : w = Written(r, u, t, s)
  OBVIOUS
<1>16. /\ w = h5 \o tail
       /\ h5 = h4 \o pt
       /\ h4 = (h2 \o pu) \o comma
       /\ tail = IF s = <<>> THEN <<>> ELSE comma \o ps
  BY <1>2, <1>3, <1>4, <1>5, <1>6, <1>7, WrittenIs DEF ToURL, ToTicket, Scope
<1>8. Apart(r, "as_uri") => NoKey(h2, "as_uri")
  BY <1>2, PartsHaveNoKey
<1>9. Apart(r, "ticket") /\ Apart(u, "ticket") => NoKey(h4, "ticket")
  BY <1>3, PartsHaveNoKey
<1>10. Apart(r, "scope") /\ Apart(u, "scope") /\ Apart(t, "scope") => NoKey(h5, "scope")
  BY <1>4, PartsHaveNoKey
<1>12. w # <<>> /\ Head(w) = "UMA"
  <2> DEFINE j == h5 \o tail
  <2>1. /\ j \in Seq(Pieces) /\ Len(j) = Len(h5) + Len(tail)
        /\ \A i \in 1 .. Len(h5) : j[i] = h5[i]
    BY Joined
  <2> HIDE DEF j
  <2>2. j[1] = "UMA" /\ Len(j) > 0
    <3>1. Len(h5) \in Nat /\ Len(tail) \in Nat
      BY LenProperties
    <3>2. 1 \in 1 .. Len(h5)
      BY <1>4, <3>1
    <3> QED
      BY <1>4, <2>1, <3>1, <3>2
  <2>3. j # <<>> /\ Head(j) = "UMA"
    BY <2>1, <2>2
  <2> QED
    BY <1>16, <2>3 DEF j
<1>13. ASSUME Apart(r, "as_uri"), NoQuote(u) PROVE ParamValue(w, "as_uri") = u
  <2>1. pt \o tail \in Seq(Pieces) /\ h2 \o pu \in Seq(Pieces)
    BY Joined
  <2>2. comma \o (pt \o tail) \in Seq(Pieces)
    BY <2>1, Joined
  <2>3. w = (h2 \o pu) \o (comma \o (pt \o tail))
    <3>1. Associative(h4, pt, tail)
      BY Regrouped
    <3>2. Associative(h2 \o pu, comma, pt \o tail)
      BY <2>1, Regrouped
    <3> QED
      BY <1>16, <3>1, <3>2 DEF Associative
  <2>4. ParamValue((h2 \o Param("as_uri", u)) \o (comma \o (pt \o tail)), "as_uri") = u
    BY <1>1, <1>8, <1>13, <2>2, ParamValueAfter
  <2> QED
    BY <1>6, <2>3, <2>4
<1>14. ASSUME Apart(r, "ticket"), Apart(u, "ticket"), NoQuote(t)
       PROVE  ParamValue(w, "ticket") = t
  <2>1. ParamValue((h4 \o Param("ticket", t)) \o tail, "ticket") = t
    BY <1>1, <1>9, <1>14, ParamValueAfter
  <2> QED
    BY <1>6, <1>16, <2>1
<1>15. ASSUME Apart(r, "scope"), Apart(u, "scope"), Apart(t, "scope"), NoQuote(s)
       PROVE  ParamValue(w, "scope") = s
  <2>1. NoKey(h5, "scope")
    BY <1>10, <1>15
  <2>2. CASE s = <<>>
    <3>1. w = h5
      BY <1>16, <2>2, ConcatEmptySeq
    <3> QED
      BY <2>1, <2>2, <3>1, NoParamValue
  <2>3. CASE s # <<>>
    <3> DEFINE e == << >>
    <3>1. h5 \o comma \in Seq(Pieces) /\ NoKey(h5 \o comma, "scope")
      <4>1. h5 \o comma \in Seq(Pieces)
        BY Joined
      <4>2. NoKey(h5 \o <<"comma">>, "scope")
        BY <2>1, NoKeyComma
      <4> QED
        BY <1>6, <4>1, <4>2
    <3>2. e \in Seq(Pieces)
      OBVIOUS
    <3> HIDE DEF e
    <3>3. ParamValue(((h5 \o comma) \o Param("scope", s)) \o e, "scope") = s
      BY <1>1, <1>15, <3>1, <3>2, ParamValueAfter
    <3>4. h5 \o (comma \o ps) = (h5 \o comma) \o ps
      <4>1. Associative(h5, comma, ps)
        BY Regrouped
      <4> QED
        BY <4>1 DEF Associative
    <3>5. (h5 \o comma) \o ps \in Seq(Pieces)
      BY <3>1, Joined
    <3>6. ((h5 \o comma) \o ps) \o e = (h5 \o comma) \o ps
      BY <3>5, ConcatEmptySeq DEF e
    <3> QED
      BY <1>6, <1>16, <2>3, <3>3, <3>4, <3>6
  <2> QED
    BY <2>2, <2>3
<1> QED
  BY <1>7, <1>12, <1>13, <1>14, <1>15

(* Of these, the URL alone.                                                *)
LEMMA URLReadsBack ==
  ASSUME NEW r \in Seq(Pieces), NEW u \in Seq(Pieces), NEW t \in Seq(Pieces),
         NEW s \in Seq(Pieces), Apart(r, "as_uri"), NoQuote(u)
  PROVE  ParamValue(Written(r, u, t, s), "as_uri") = u
<1>1. Apart(r, "as_uri") /\ NoQuote(u) => ParamValue(Written(r, u, t, s), "as_uri") = u
  BY ReadsBack
<1> QED
  BY <1>1

-----------------------------------------------------------------------------
(***************************************************************************)
(* The challenge on its way: the resource server's own URL and realm, a    *)
(* ticket and scopes in the outcome, the header built from them, and what  *)
(* the client makes of it.                                                 *)
(***************************************************************************)
ChallengeInv ==
  /\ asURL \in URLs /\ realm \in Realms
  /\ outcome.err = "ticket required" =>
       /\ outcome.challenge.asURL = asURL /\ outcome.challenge.realm = realm
       /\ outcome.challenge.ticket \in Tickets \cup {<<>>}
       /\ IF rs = "demo" THEN outcome.challenge.scopes = JoinScopes(route.scopes)
          ELSE outcome.challenge.scopes \in Tickets \cup {<<>>}
  /\ Over /\ route # None /\ outcome.err = "ticket required" =>
       reply.challenge = BuildUMAChallenge(outcome.challenge)
  /\ pc = "read" => reply.status = "Unauthorized" /\ parsed = ParseChallenge(reply.challenge)

LEMMA InitChallenge == Init => ChallengeInv
BY Outcomes DEF Init, ChallengeInv, Over

(* A step before the answer that leaves the outcome alone.                 *)
LEMMA SameOutcome ==
  ASSUME ChallengeInv, UNCHANGED <<rs, asURL, realm, route, outcome>>, pc' # "read",
         Over' => route = None
  PROVE  ChallengeInv'
BY DEF ChallengeInv

(* A step that decides, without a challenge.                               *)
LEMMA NoChallengeNeeded ==
  ASSUME ChallengeInv, UNCHANGED <<rs, asURL, realm, route>>, pc' = "decided",
         outcome'.err # "ticket required"
  PROVE  ChallengeInv'
BY DEF ChallengeInv, Over

(* A step that decides, with one.                                          *)
LEMMA ChallengeNeeded ==
  ASSUME ChallengeInv, UNCHANGED <<rs, asURL, realm, route>>, pc' = "decided",
         NEW ticket \in Tickets \cup {<<>>}, NEW scopes, NEW decision,
         outcome' = Outcome(decision, "ticket required",
                            TicketRequired(ticket, asURL, scopes, realm)),
         IF rs = "demo" THEN scopes = JoinScopes(route.scopes)
         ELSE scopes \in Tickets \cup {<<>>}
  PROVE  ChallengeInv'
<1>1. /\ outcome'.challenge.ticket = ticket /\ outcome'.challenge.asURL = asURL
      /\ outcome'.challenge.scopes = scopes /\ outcome'.challenge.realm = realm
  BY DEF Outcome, TicketRequired
<1> QED
  BY <1>1 DEF ChallengeInv, Over

LEMMA StepChallenge == IInv /\ ChallengeInv /\ [Next]_vars => ChallengeInv'
<1> SUFFICES ASSUME IInv, ChallengeInv, [Next]_vars PROVE ChallengeInv'
  OBVIOUS
<1> USE DEF deployment
<1>1. CASE NoSuchRoute
  BY <1>1, SameOutcome DEF NoSuchRoute, Respond
<1>2. CASE Start
  BY <1>2, SameOutcome DEF Start, Over
<1>3. ASSUME NEW active \in BOOLEAN, NEW perms \in Granted, Introspect(active, perms)
      PROVE  ChallengeInv'
  <2>1. UNCHANGED <<rs, asURL, realm, route>>
    BY <1>3 DEF Introspect
  <2>2. \/ pc' = "decided" /\ outcome' = Allow
        \/ pc' = "asking" /\ UNCHANGED outcome
    BY <1>3 DEF Introspect, Decide
  <2>3. CASE pc' = "decided" /\ outcome' = Allow
    BY <2>1, <2>3, Outcomes, NoChallengeNeeded
  <2>4. CASE pc' = "asking" /\ UNCHANGED outcome
    BY <2>1, <2>4, SameOutcome DEF Over
  <2> QED
    BY <2>2, <2>3, <2>4
<1>4. CASE IntrospectFails
  BY <1>4, Outcomes, NoChallengeNeeded DEF IntrospectFails, Decide
<1>5. ASSUME NEW ticket \in Tickets \cup {<<>>}, AskForTicket(ticket) PROVE ChallengeInv'
  <2>1. rs = "demo"
    BY <1>5 DEF AskForTicket, IInv, TypeOK
  <2>2. /\ UNCHANGED <<rs, asURL, realm, route>> /\ pc' = "decided"
        /\ outcome' = Outcome("unknown", "ticket required",
                              TicketRequired(ticket, asURL, JoinScopes(route.scopes), realm))
    BY <1>5 DEF AskForTicket, Decide, Challenged
  <2> QED
    BY <2>1, <2>2, ChallengeNeeded
<1>6. CASE AskFails
  BY <1>6, Outcomes, NoChallengeNeeded DEF AskFails, Decide
<1>7. ASSUME NEW d \in Decisions, NEW err \in {"none", "nil ticket required", "other"},
             OwnDecision(d, err, NoChallenge)
      PROVE  ChallengeInv'
  <2>1. outcome'.err = err /\ pc' = "decided" /\ UNCHANGED <<rs, asURL, realm, route>>
    BY <1>7 DEF OwnDecision, Decide, Outcome
  <2>2. outcome'.err # "ticket required"
    BY <1>7, <2>1
  <2> QED
    BY <2>1, <2>2, NoChallengeNeeded
<1>8. ASSUME NEW d \in Decisions, NEW ticket \in Tickets \cup {<<>>},
             NEW scopes \in Tickets \cup {<<>>},
             OwnDecision(d, "ticket required", TicketRequired(ticket, asURL, scopes, realm))
      PROVE  ChallengeInv'
  <2>1. /\ rs = "own" /\ UNCHANGED <<rs, asURL, realm, route>> /\ pc' = "decided"
        /\ outcome' = Outcome(d, "ticket required", TicketRequired(ticket, asURL, scopes, realm))
    BY <1>8 DEF OwnDecision, Decide
  <2>2. IF rs = "demo" THEN scopes = JoinScopes(route.scopes)
        ELSE scopes \in Tickets \cup {<<>>}
    BY <2>1
  <2> QED
    BY <2>1, <2>2, ChallengeNeeded
<1>9. CASE Answer
  <2>1. pc' = "answered" /\ UNCHANGED <<rs, asURL, realm, route, outcome>>
    BY <1>9 DEF Answer, Respond
  <2>2. ASSUME outcome.err = "ticket required"
        PROVE  reply'.challenge = BuildUMAChallenge(outcome.challenge)
    <3>1. Respond("Unauthorized", BuildUMAChallenge(outcome.challenge))
      BY <1>9, <2>2 DEF Answer
    <3> QED
      BY <3>1 DEF Respond
  <2> QED
    BY <2>1, <2>2 DEF ChallengeInv
<1>10. CASE ReadChallenge
  <2>1. /\ Over /\ reply.status = "Unauthorized" /\ pc' = "read"
        /\ parsed' = ParseChallenge(reply.challenge)
        /\ UNCHANGED <<rs, asURL, realm, route, outcome, reply>>
    BY <1>10 DEF ReadChallenge, Over
  <2> QED
    BY <2>1 DEF ChallengeInv
<1>11. CASE UNCHANGED vars
  BY <1>11 DEF vars, ChallengeInv, Over
<1> QED
  BY <1>1, <1>2, <1>3, <1>4, <1>5, <1>6, <1>7, <1>8, <1>9, <1>10, <1>11 DEF Next

LEMMA ChallengeInvariance == Spec => [](IInv /\ ChallengeInv)
<1>1. Init => IInv /\ ChallengeInv
  BY InitInv, InitChallenge
<1>2. IInv /\ ChallengeInv /\ [Next]_vars => (IInv /\ ChallengeInv)'
  BY StepInv, StepChallenge
<1> QED
  BY <1>1, <1>2, PTL DEF Spec

-----------------------------------------------------------------------------
LEMMA StringsArePieces == ASSUME NEW v \in Seq(STRING) PROVE v \in Seq(Pieces)
<1>1. STRING \subseteq Pieces
  BY DEF Pieces
<1> QED
  BY <1>1, SeqMonotonic

LEMMA JoinedScopes == ASSUME NEW v \in Seq(STRING) PROVE JoinScopes(v) \in Seq(Pieces)
<1> DEFINE n == IF Len(v) = 0 THEN 0 ELSE 2 * Len(v) - 1
<1>1. n \in Nat /\ 1 .. 2 * Len(v) - 1 = 1 .. n /\ "space" \in Pieces
  BY DEF Pieces
<1>2. ASSUME NEW i \in 1 .. 2 * Len(v) - 1, i % 2 = 1
      PROVE  v[(i + 1) \div 2] \in Pieces
  <2>1. (i + 1) \div 2 \in 1 .. Len(v)
    OBVIOUS
  <2> QED
    BY <2>1 DEF Pieces
<1>3. JoinScopes(v) \in [1 .. n -> Pieces]
  BY <1>1, <1>2 DEF JoinScopes
<1> QED
  BY <1>1, <1>3

(* Unmistakable and Quoteless values, one by one.                          *)
LEMMA ApartIs ==
  ASSUME NEW v \in Seq(Pieces), NEW key
  PROVE  /\ NoQuote(v) <=> \A i \in DOMAIN v : v[i] # "quote"
         /\ Apart(v, key) <=> (\A i \in DOMAIN v : v[i] # "quote") /\ ~EndsIn(v, key)
BY DEF NoQuote, Apart, EndsIn

(***************************************************************************)
(* The client reads in the challenge what the resource server wrote,       *)
(* whatever the URL, the realm, the ticket and the scopes, except for a    *)
(* quote in a value and for one that ends in a key (uma.go:61-77,          *)
(* examples/as-rs-demo/main.go:443-447, 491-517).                          *)
(***************************************************************************)
THEOREM ChallengeIsRead == Spec => []ChallengeComesAcross
<1>1. IInv /\ ChallengeInv => ChallengeComesAcross
  <2> SUFFICES ASSUME IInv, ChallengeInv, pc = "read", outcome.err = "ticket required"
               PROVE  ChallengeComesAcross
    BY DEF ChallengeComesAcross
  <2> DEFINE c == outcome.challenge
             sent == IF issued # Unissued THEN issued.ticket ELSE c.ticket
             scopes == IF rs = "demo" THEN JoinScopes(route.scopes) ELSE c.scopes
             w == Written(realm, asURL, c.ticket, c.scopes)
  <2>1. /\ reply.status = "Unauthorized" /\ parsed = ParseChallenge(reply.challenge)
        /\ asURL \in URLs /\ realm \in Realms /\ c.asURL = asURL /\ c.realm = realm
        /\ c.ticket \in Tickets \cup {<<>>}
    BY DEF ChallengeInv
  <2>2. route # None /\ route \in Routes
    BY <2>1 DEF IInv, RepliedInv, TypeOK, Over
  <2>3. reply.challenge = w
    BY <2>1, <2>2 DEF ChallengeInv, Over, Written, BuildUMAChallenge, TicketRequired
  <2>4. scopes = c.scopes /\ sent = c.ticket
    BY DEF ChallengeInv, IInv, IssuedInv
  <2>5. realm \in Seq(Pieces) /\ asURL \in Seq(Pieces) /\ c.ticket \in Seq(Pieces)
    <3>1. \A v \in Tickets \cup URLs \cup Realms : v \in Seq(Pieces)
      BY RequestAssumption, StringsArePieces
    <3>2. <<>> \in Seq(Pieces)
      BY EmptySeq
    <3> QED
      BY <2>1, <3>1, <3>2
  <2>6. c.scopes \in Seq(Pieces)
    <3>1. route.scopes \in Seq(STRING)
      BY <2>2, RequestAssumption
    <3>2. JoinScopes(route.scopes) \in Seq(Pieces)
      BY <3>1, JoinedScopes
    <3>3. \A v \in Tickets : v \in Seq(Pieces)
      BY RequestAssumption, StringsArePieces
    <3>4. <<>> \in Seq(Pieces)
      BY EmptySeq
    <3> QED
      BY <3>2, <3>3, <3>4 DEF ChallengeInv
  <2>7. PICK r \in Seq(Pieces), u \in Seq(Pieces), tk \in Seq(Pieces), sc \in Seq(Pieces) :
           r = realm /\ u = asURL /\ tk = c.ticket /\ sc = c.scopes
    BY <2>5, <2>6
  <2>11. /\ parsed.asURL = ParamValue(Written(r, u, tk, sc), "as_uri")
         /\ parsed.ticket = ParamValue(Written(r, u, tk, sc), "ticket")
         /\ parsed.scopes = ParamValue(Written(r, u, tk, sc), "scope")
    <3>1. Written(r, u, tk, sc) # <<>> /\ Head(Written(r, u, tk, sc)) = "UMA"
      BY ReadsBack
    <3>2. parsed = ParseChallenge(Written(r, u, tk, sc))
      BY <2>1, <2>3, <2>7
    <3> QED
      BY <3>1, <3>2 DEF ParseChallenge
  <2>8. ASSUME Unmistakable({realm}, "as_uri"), Quoteless({asURL})
        PROVE  parsed.asURL = asURL
    <3>1. Apart(r, "as_uri") /\ NoQuote(u)
      BY <2>7, <2>8, ApartIs DEF Unmistakable, Quoteless
    <3>2. ParamValue(Written(r, u, tk, sc), "as_uri") = u
      BY <3>1, URLReadsBack
    <3> QED
      BY <2>7, <2>11, <3>2
  <2>9. ASSUME Unmistakable({realm, asURL}, "ticket"), Quoteless({c.ticket})
        PROVE  parsed.ticket = c.ticket
    <3>1. Apart(r, "ticket") /\ Apart(u, "ticket") /\ NoQuote(tk)
      BY <2>7, <2>9, ApartIs DEF Unmistakable, Quoteless
    <3>2. ParamValue(Written(r, u, tk, sc), "ticket") = tk
      BY <3>1, ReadsBack
    <3> QED
      BY <2>7, <2>11, <3>2
  <2>10. ASSUME Unmistakable({realm, asURL, c.ticket}, "scope"), Quoteless({c.scopes})
         PROVE  parsed.scopes = c.scopes
    <3>1. Apart(r, "scope") /\ Apart(u, "scope") /\ Apart(tk, "scope") /\ NoQuote(sc)
      BY <2>7, <2>10, ApartIs DEF Unmistakable, Quoteless
    <3>2. ParamValue(Written(r, u, tk, sc), "scope") = sc
      BY <3>1, ReadsBack
    <3> QED
      BY <2>7, <2>11, <3>2
  <2> QED
    BY <2>4, <2>8, <2>9, <2>10 DEF ChallengeComesAcross
<1> QED
  BY <1>1, ChallengeInvariance, PTL
=============================================================================
