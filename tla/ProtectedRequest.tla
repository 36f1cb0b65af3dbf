-------------------------- MODULE ProtectedRequest --------------------------
(***************************************************************************)
(* One request to a resource server: its handler asks an RS (server/rs.go) *)
(* for a decision and answers with the page, a challenge or a refusal      *)
(* (examples/as-rs-demo/main.go demoRS.handler), and the client reads the  *)
(* challenge.  The RS is the one of the demo, which asks the authorization *)
(* server, or a consumer's own, which may return anything.                 *)
(*                                                                         *)
(* The authorization server is external: an introspection or a             *)
(* registration may be answered in any way, fail, or take effect and then  *)
(* fail.                                                                   *)
(***************************************************************************)
EXTENDS Challenge

CONSTANTS
  None,     (* No route.                                                   *)
  Routes,   (* rs.resources: for each route a resource and its scopes.     *)
  Headers,  (* Authorization headers a client may send.                    *)
  Granted,  (* Sets of permissions an introspected token may carry.        *)
  Tickets,  (* Tickets the authorization server may mint.                  *)
  URLs,     (* URLs of the authorization server.                           *)
  Realms    (* Realms of the resource server.                              *)

ASSUME RequestAssumption ==
  /\ None \notin Routes
  /\ Headers \cup Tickets \cup URLs \cup Realms \subseteq Seq(STRING)
  /\ \A r \in Routes : r.scopes \in Seq(STRING)
  /\ <<>> \notin Tickets

VARIABLES
  rs,             (* Whose RS decides: "demo" or "own".                    *)
  asURL, realm,   (* What the RS was configured with.                      *)
  route,          (* The route asked for, or None when there is no such.   *)
  authorization,  (* The Authorization header, empty when there is none.   *)
  pc,             (* "arrived", "introspecting", "asking", "decided",      *)
                  (* "answered" or "read".                                 *)
  introspected,   (* What the authorization server said, of which token.   *)
  issued,         (* The ticket it minted, and for what.                   *)
  outcome,        (* What ProtectedRequest returned.                       *)
  reply,          (* The resource server's response.                       *)
  parsed          (* What the client read in its challenge.                *)

deployment == <<rs, asURL, realm>>
vars == <<deployment, route, authorization, pc, introspected, issued, outcome,
          reply, parsed>>

-----------------------------------------------------------------------------
Decisions == {"unknown", "allow", "deny", "another"}

(* strings.Join: a space between the scopes.                               *)
JoinScopes(scopes) ==
  [i \in 1 .. 2 * Len(scopes) - 1 |->
     IF i % 2 = 1 THEN scopes[(i + 1) \div 2] ELSE "space"]

TicketRequired(ticket, url, scopes, name) ==
  [ticket |-> ticket, asURL |-> url, scopes |-> scopes, realm |-> name]

(***************************************************************************)
(* An error is none, holds a *TicketRequired, which may be nil, or is any  *)
(* other.                                                                  *)
(***************************************************************************)
Outcome(decision, err, challenge) ==
  [decision |-> decision, err |-> err, challenge |-> challenge]

NoChallenge == TicketRequired(<<>>, <<>>, <<>>, <<>>)

Without(decision, err) == Outcome(decision, err, NoChallenge)

Undecided == Without("unknown", "none")
Failure   == Without("unknown", "other")
Allow     == Without("allow", "none")

NotAsked  == [of |-> <<>>, active |-> FALSE, perms |-> {}]
Unissued  == [ticket |-> <<>>, rsid |-> None, scopes |-> <<>>]
NoReply   == [status |-> "none", challenge |-> <<>>]

Init ==
  /\ rs \in {"demo", "own"}
  /\ asURL \in URLs
  /\ realm \in Realms
  /\ route \in Routes \cup {None}
  /\ authorization \in Headers
  /\ pc = "arrived"
  /\ introspected = NotAsked
  /\ issued = Unissued
  /\ outcome = Undecided
  /\ reply = NoReply
  /\ parsed = ParseChallenge(<<>>)

Respond(status, challenge) ==
  /\ pc' = "answered"
  /\ reply' = [status |-> status, challenge |-> challenge]
  /\ UNCHANGED <<deployment, route, authorization, introspected, issued, outcome, parsed>>

Decide(o) == pc' = "decided" /\ outcome' = o

NoSuchRoute ==
  /\ pc = "arrived" /\ route = None
  /\ Respond("NotFound", <<>>)

(***************************************************************************)
(* demoRS.ProtectedRequest.                                                *)
(***************************************************************************)
Token == ExtractBearerToken(authorization)

(* Mutant: any Authorization header is taken for a token.                  *)
StartWithAnyHeader ==
  /\ pc = "arrived" /\ rs = "demo" /\ route # None
  /\ pc' = IF authorization = <<>> THEN "asking" ELSE "introspecting"
  /\ UNCHANGED <<deployment, route, authorization, introspected, issued, outcome,
                 reply, parsed>>

Start ==
  /\ pc = "arrived" /\ rs = "demo" /\ route # None
  /\ pc' = IF Token = <<>> THEN "asking" ELSE "introspecting"
  /\ UNCHANGED <<deployment, route, authorization, introspected, issued, outcome,
                 reply, parsed>>

(* Mutant: one of the scopes is enough.                                    *)
CoversSome(perm) ==
  perm.rsid = route.rsid /\ \E i \in DOMAIN route.scopes : route.scopes[i] \in perm.scopes

Covers(perm) ==
  perm.rsid = route.rsid /\ \A i \in DOMAIN route.scopes : route.scopes[i] \in perm.scopes

Introspect(active, perms) ==
  /\ pc = "introspecting"
  /\ introspected' = [of |-> Token, active |-> active, perms |-> perms]
  /\ IF active /\ \E perm \in perms : Covers(perm)
     THEN Decide(Allow)
     ELSE pc' = "asking" /\ UNCHANGED outcome
  /\ UNCHANGED <<deployment, route, authorization, issued, reply, parsed>>

(* Mutant: a token that cannot be introspected is taken for an inactive one. *)
IntrospectFailsInactive ==
  /\ pc = "introspecting"
  /\ pc' = "asking"
  /\ UNCHANGED <<deployment, route, authorization, introspected, issued, outcome,
                 reply, parsed>>

IntrospectFails ==
  /\ pc = "introspecting"
  /\ Decide(Failure)
  /\ UNCHANGED <<deployment, route, authorization, introspected, issued, reply, parsed>>

Challenged(ticket) == TicketRequired(ticket, asURL, JoinScopes(route.scopes), realm)

Mint(ticket) ==
  issued' = [ticket |-> ticket, rsid |-> route.rsid, scopes |-> route.scopes]

(* An answer without a ticket is decoded into an empty one.                *)
AskForTicket(ticket) ==
  /\ pc = "asking"
  /\ IF ticket = <<>> THEN UNCHANGED issued ELSE Mint(ticket)
  /\ Decide(Outcome("unknown", "ticket required", Challenged(ticket)))
  /\ UNCHANGED <<deployment, route, authorization, introspected, reply, parsed>>

(* The call fails; it may have reached the authorization server.           *)
AskFails ==
  /\ pc = "asking"
  /\ UNCHANGED issued \/ \E ticket \in Tickets : Mint(ticket)
  /\ Decide(Failure)
  /\ UNCHANGED <<deployment, route, authorization, introspected, reply, parsed>>

(***************************************************************************)
(* A consumer's RS.                                                        *)
(***************************************************************************)
OwnDecision(decision, err, challenge) ==
  /\ pc = "arrived" /\ rs = "own" /\ route # None
  /\ Decide(Outcome(decision, err, challenge))
  /\ UNCHANGED <<deployment, route, authorization, introspected, issued, reply, parsed>>

(***************************************************************************)
(* The handler, and the client.                                            *)
(***************************************************************************)

(* Mutant: the decision is looked at before the error.                     *)
AllowFirst ==
  /\ pc = "decided"
  /\ IF outcome.decision = "allow" THEN Respond("OK", <<>>)
     ELSE Respond("Unauthorized", IF outcome.err = "ticket required"
                                  THEN BuildUMAChallenge(outcome.challenge) ELSE <<>>)

Answer ==
  /\ pc = "decided"
  /\ \/ /\ outcome.err = "ticket required"
        /\ Respond("Unauthorized", BuildUMAChallenge(outcome.challenge))
     \/ outcome.err = "nil ticket required" /\ Respond("Unauthorized", <<>>)
     \/ outcome.err = "other" /\ Respond("InternalServerError", <<>>)
     \/ /\ outcome.err = "none"
        /\ Respond(IF outcome.decision = "allow" THEN "OK" ELSE "Forbidden", <<>>)

ReadChallenge ==
  /\ pc = "answered" /\ reply.status = "Unauthorized"
  /\ pc' = "read"
  /\ parsed' = ParseChallenge(reply.challenge)
  /\ UNCHANGED <<deployment, route, authorization, introspected, issued, outcome, reply>>

Next ==
  \/ NoSuchRoute
  \/ Start
  \/ \E active \in BOOLEAN, perms \in Granted : Introspect(active, perms)
  \/ IntrospectFails
  \/ \E ticket \in Tickets \cup {<<>>} : AskForTicket(ticket)
  \/ AskFails
  \/ \E d \in Decisions, err \in {"none", "nil ticket required", "other"} :
       OwnDecision(d, err, NoChallenge)
  \/ \E d \in Decisions, ticket \in Tickets \cup {<<>>}, scopes \in Tickets \cup {<<>>} :
       OwnDecision(d, "ticket required", TicketRequired(ticket, asURL, scopes, realm))
  \/ Answer
  \/ ReadChallenge

Spec == Init /\ [][Next]_vars

-----------------------------------------------------------------------------
(* Properties.                                                             *)

TypeOK ==
  /\ pc \in {"arrived", "introspecting", "asking", "decided", "answered", "read"}
  /\ rs \in {"demo", "own"}
  /\ route \in Routes \cup {None}
  /\ pc \in {"introspecting", "asking", "decided"} => route # None
  /\ pc = "introspecting" => Token # <<>>
  /\ pc \in {"introspecting", "asking"} \/ introspected # NotAsked \/ issued # Unissued =>
       rs = "demo"
  /\ outcome.err \in {"none", "ticket required", "nil ticket required", "other"}
  /\ reply.status \in {"none", "OK", "Unauthorized", "Forbidden", "NotFound",
                       "InternalServerError"}
  /\ reply.status # "none" <=> pc \in {"answered", "read"}

(* The authorization server said that the token the client sent covers all *)
(* the route requires, with a single permission.                           *)
Covered ==
  /\ introspected.active
  /\ \E scheme \in {"Bearer", "bearer"} :
       authorization = <<scheme, "space">> \o introspected.of
  /\ \E perm \in introspected.perms :
       /\ perm.rsid = route.rsid
       /\ {route.scopes[i] : i \in DOMAIN route.scopes} \subseteq perm.scopes

(***************************************************************************)
(* The resource server fails closed.  The page is served only when the RS  *)
(* said allow and no error, whatever else it returned, and by the demo     *)
(* exactly when the token the client sent was introspected as active, with *)
(* one permission for the resource and every scope of the route; not when  *)
(* introspection failed, or two permissions cover it between them          *)
(* (examples/as-rs-demo/main.go:411-431, 463-479).                         *)
(***************************************************************************)
FailsClosed ==
  pc \in {"answered", "read"} =>
    /\ reply.status = "OK" => outcome.decision = "allow" /\ outcome.err = "none"
    /\ rs = "demo" => (reply.status = "OK" <=> route # None /\ Covered)

(***************************************************************************)
(* A ticket costs state at the authorization server, and none is minted in *)
(* vain: only for a client that sent no token or one that does not cover   *)
(* the route, for what the route requires, and it reaches that client      *)
(* unless the answer was lost (examples/as-rs-demo/main.go:414-450).       *)
(***************************************************************************)
NoTicketInVain ==
  issued # Unissued =>
    /\ ~Covered
    /\ introspected.of = Token
    /\ issued.rsid = route.rsid /\ issued.scopes = route.scopes
    /\ pc \in {"answered", "read"} =>
         \/ reply.status = "InternalServerError"
         \/ reply.status = "Unauthorized" /\ outcome.challenge.ticket = issued.ticket

(***************************************************************************)
(* The client reads in the challenge what the resource server wrote: the   *)
(* ticket the authorization server issued and where to redeem it, and no   *)
(* scopes when there are none.  The caveat of uma.go:54-60 is that no      *)
(* value has a quote in it; the other is that no value written before ends *)
(* in the key and an equals sign, which parseChallenge would take for the  *)
(* parameter (uma.go:61-77, examples/as-rs-demo/main.go:491-517).          *)
(***************************************************************************)
Quoteless(values) == \A v \in values : \A i \in DOMAIN v : v[i] # "quote"
EndsIn(v, key) == v # <<>> /\ v[Len(v)] = key
Unmistakable(values, key) == Quoteless(values) /\ \A v \in values : ~EndsIn(v, key)

ChallengeComesAcross ==
  pc = "read" /\ outcome.err = "ticket required" =>
    LET c == outcome.challenge
        sent == IF issued # Unissued THEN issued.ticket ELSE c.ticket
        scopes == IF rs = "demo" THEN JoinScopes(route.scopes) ELSE c.scopes
    IN  /\ Unmistakable({realm}, "as_uri") /\ Quoteless({asURL}) => parsed.asURL = asURL
        /\ Unmistakable({realm, asURL}, "ticket") /\ Quoteless({sent}) =>
             parsed.ticket = sent
        /\ Unmistakable({realm, asURL, sent}, "scope") /\ Quoteless({scopes}) =>
             parsed.scopes = scopes
=============================================================================
