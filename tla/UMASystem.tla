----------------------------- MODULE UMASystem -----------------------------
(***************************************************************************)
(* The parties of examples/as-rs-demo together: requesting parties ask the *)
(* resource server for protected routes, the resource server introspects   *)
(* their tokens and registers permissions at the authorization server, and *)
(* the parties redeem the tickets it hands them there.  Every call may     *)
(* fail with its effect done: its answer is lost, or the caller times out  *)
(* while the authorization server's handler keeps running.  The caller     *)
(* sends it again (client.NewRetryDoer) or gives up, and the visit fails:  *)
(* the requesting party of the demo ends on any error (main.go:68-70).     *)
(* Whether a party asks for another route after a visit is up to it.       *)
(*                                                                         *)
(* A party has one request at a time, so its stage is also that of the     *)
(* goroutine that serves it in the resource server.                        *)
(***************************************************************************)
EXTENDS AuthorizationServer

CONSTANTS
  Parties,     (* Requesting parties.                                      *)
  Nobody,      (* Placeholder: a handler nobody waits for.                 *)
  Routes,      (* rs.resources: the permission each route requires.        *)
  MaxVisits,   (* Bound on the routes each party asks for, in turn.        *)
  MaxLosses    (* Bound on the calls that fail.                            *)

ASSUME SystemAssumption ==
  /\ Nobody \notin Parties
  /\ Routes \subseteq Perms
  /\ \A p \in Routes : p.resource # "" /\ p.scopes # {}
  /\ MaxVisits \in [Parties -> Nat]
  /\ MaxLosses \in Nat

VARIABLES
  stage,      (* Where each party's visit stands.                          *)
  goal,       (* The permission of the route each party asks for.          *)
  retrying,   (* Whether it asks again, with the token of its visit.       *)
  ticket,     (* The ticket each party redeems, 0 when it has none.        *)
  sent,       (* How often it has been sent, where 2 is twice or more.     *)
  rpt,        (* The token each party holds, 0 when it has none.           *)
  visits,     (* How many routes each party has asked for.                 *)
  serving,    (* The party whose call each handler serves, or Nobody.      *)
  losses      (* How many calls have failed.                               *)

parties ==
  <<stage, goal, retrying, ticket, sent, rpt, visits, serving, losses>>

systemVars == <<vars, parties>>

SystemInit ==
  /\ Init
  /\ stage = [p \in Parties |-> "start"]
  /\ goal \in [Parties -> Routes]
  /\ retrying = [p \in Parties |-> FALSE]
  /\ ticket = [p \in Parties |-> 0]
  /\ sent = [p \in Parties |-> 0]
  /\ rpt = [p \in Parties |-> 0]
  /\ visits = [p \in Parties |-> 1]
  /\ serving = [h \in Handlers |-> Nobody]
  /\ losses = 0

Goto(p, s) == stage' = [stage EXCEPT ![p] = s]

Hold(p, t) == /\ ticket' = [ticket EXCEPT ![p] = t]
              /\ sent' = [sent EXCEPT ![p] = 0]

(***************************************************************************)
(* The requesting party and the resource server.                           *)
(***************************************************************************)

(* The party asks for its route, with its token if it has one; without     *)
(* one, the resource server asks for a ticket at once.                     *)
Get(p) ==
  /\ stage[p] = "start"
  /\ Goto(p, IF rpt[p] = 0 THEN "register" ELSE "introspect")
  /\ UNCHANGED <<vars, goal, retrying, ticket, sent, rpt, visits, serving, losses>>

(* A call reaches the authorization server and a handler takes it up.      *)
Reaches(p, h) ==
  /\ \A g \in Handlers : serving[g] # p
  /\ serving[h] = Nobody
  /\ serving' = [serving EXCEPT ![h] = p]
  /\ UNCHANGED <<stage, goal, retrying, ticket, rpt, visits, losses>>

CallIntrospect(p, h) ==
  /\ stage[p] = "introspect"
  /\ Reaches(p, h)
  /\ Introspect(h, rpt[p])
  /\ UNCHANGED sent

CallPermission(p, h) ==
  /\ stage[p] = "register"
  /\ Reaches(p, h)
  /\ Permission(h, goal[p])
  /\ UNCHANGED sent

CallToken(p, h) ==
  /\ stage[p] = "redeem"
  /\ Reaches(p, h)
  /\ TakeTicket(h, ticket[p]) \/ RefuseTicket(h, ticket[p])
  /\ sent' = [sent EXCEPT ![p] = IF @ = 0 THEN 1 ELSE 2]

(* The answer arrives at whoever waits for it.                             *)
Arrives(p, h) ==
  /\ serving[h] = p
  /\ Done(h)
  /\ serving' = [serving EXCEPT ![h] = Nobody]
  /\ UNCHANGED <<goal, visits, losses>>

(* Mutant: the resource server compares the resource and not the scopes.   *)
SameResource(perm, route) == perm.resource = route.resource

(* The resource server's decision on one permission of a token.            *)
Covers(perm, route) ==
  perm.resource = route.resource /\ route.scopes \subseteq perm.scopes

Allowed(p, h) == reply[h].kind = "active" /\ Covers(reply[h].perm, goal[p])

Introspected(p, h) ==
  /\ stage[p] = "introspect"
  /\ Arrives(p, h)
  /\ Goto(p, IF Allowed(p, h) THEN "served" ELSE "register")
  /\ UNCHANGED <<retrying, ticket, sent, rpt>>

(* The ticket goes to the party in the challenge.  A party that asked with *)
(* the token of this very visit expects a 200: it drops the ticket.        *)
Registered(p, h) ==
  /\ stage[p] = "register"
  /\ Arrives(p, h)
  /\ Hold(p, IF retrying[p] THEN 0 ELSE reply[h].id)
  /\ Goto(p, IF retrying[p] THEN "failed" ELSE "redeem")
  /\ UNCHANGED <<retrying, rpt>>

(* The party asks again, with the new token.                               *)
Redeemed(p, h) ==
  /\ stage[p] = "redeem" /\ reply[h].kind = "rpt"
  /\ Arrives(p, h)
  /\ rpt' = [rpt EXCEPT ![p] = reply[h].id]
  /\ retrying' = [retrying EXCEPT ![p] = TRUE]
  /\ Hold(p, 0)
  /\ Goto(p, "start")

(* Mutant: the party redeems a refused ticket again.                       *)
RedeemAgain(p, h) ==
  /\ stage[p] = "redeem" /\ reply[h].kind = "invalid_grant"
  /\ Arrives(p, h)
  /\ UNCHANGED <<stage, retrying, ticket, sent, rpt>>

(* The ticket was refused: the visit ends.                                 *)
Refused(p, h) ==
  /\ stage[p] = "redeem" /\ reply[h].kind = "invalid_grant"
  /\ Arrives(p, h)
  /\ Hold(p, 0)
  /\ Goto(p, "failed")
  /\ UNCHANGED <<retrying, rpt>>

(* After a visit the party may ask for a route, with the token it has.     *)
NextVisit(p) ==
  /\ stage[p] \in {"served", "failed"} /\ visits[p] < MaxVisits[p]
  /\ visits' = [visits EXCEPT ![p] = @ + 1]
  /\ \E r \in Routes : goal' = [goal EXCEPT ![p] = r]
  /\ retrying' = [retrying EXCEPT ![p] = FALSE]
  /\ Goto(p, "start")
  /\ UNCHANGED <<vars, ticket, sent, rpt, serving, losses>>

(***************************************************************************)
(* Failures.                                                               *)
(***************************************************************************)

Fails == losses < MaxLosses /\ losses' = losses + 1

(* Mutant: the visit ends and the ticket is kept.                          *)
KeepTicket(p) == Goto(p, "failed") /\ UNCHANGED <<ticket, sent>>

(* A failed call of the resource server is a 500, neither the 401 nor the  *)
(* 200 the party expects, and ends the visit; so does a failed redemption. *)
GiveUp(p) == Goto(p, "failed") /\ Hold(p, 0)

Resend(p) == UNCHANGED <<stage, ticket, sent>>

(* Mutant: the handler stops when its caller has gone.                     *)
Abort(p, h) ==
  /\ serving[h] = p
  /\ Fails
  /\ serving' = [serving EXCEPT ![h] = Nobody]
  /\ GiveUp(p) \/ Resend(p)
  /\ taken' = [taken EXCEPT ![h] = NotTaken]
  /\ reply' = [reply EXCEPT ![h] = NoReply]
  /\ UNCHANGED <<minted, resources, tickets, rpts, issued, origin, goal, retrying, rpt, visits>>

(* The caller sees a failure and the handler does not: it goes on.         *)
LoseCall(p, h) ==
  /\ serving[h] = p
  /\ Fails
  /\ serving' = [serving EXCEPT ![h] = Nobody]
  /\ GiveUp(p) \/ Resend(p)
  /\ UNCHANGED <<vars, goal, retrying, rpt, visits>>

(* The challenge is lost between the resource server and the party, or the *)
(* first redemption on its way to the authorization server.                *)
LoseTicket(p) ==
  /\ stage[p] = "redeem" /\ sent[p] = 0
  /\ Fails
  /\ GiveUp(p)
  /\ UNCHANGED <<vars, goal, retrying, rpt, visits, serving>>

(***************************************************************************)
(* The authorization server's own steps.                                   *)
(***************************************************************************)
Finish(h) == StoreRPT(h) /\ UNCHANGED parties

(* The answer to a call that nobody waits for any more.                    *)
Orphan(h) == serving[h] = Nobody /\ Done(h) /\ UNCHANGED parties

(* The program's own steps for a party.                                    *)
Step(p) ==
  \/ Get(p)
  \/ \E h \in Handlers :
       \/ CallIntrospect(p, h)
       \/ CallPermission(p, h)
       \/ CallToken(p, h)
       \/ Introspected(p, h)
       \/ Registered(p, h)
       \/ Redeemed(p, h)
       \/ Refused(p, h)

SystemNext ==
  \/ \E p \in Parties : Step(p) \/ NextVisit(p) \/ LoseTicket(p)
  \/ \E p \in Parties, h \in Handlers : LoseCall(p, h)
  \/ \E h \in Handlers : Finish(h) \/ Orphan(h)

SystemSpec == SystemInit /\ [][SystemNext]_systemVars

(* A visit that can go on does: it is one goroutine at a time, the party's *)
(* or the resource server's, and calls return or fail.  The handlers of    *)
(* the authorization server are goroutines that nothing blocks.  Nothing   *)
(* makes a party ask for another route.                                    *)
FairSystem ==
  /\ SystemSpec
  /\ \A p \in Parties : WF_systemVars(Step(p))
  /\ \A h \in Handlers : WF_systemVars(Finish(h)) /\ WF_systemVars(Orphan(h))

-----------------------------------------------------------------------------
(* Properties.                                                             *)

Waiting(h) == serving[h] # Nobody

SystemTypeOK ==
  /\ stage \in [Parties -> {"start", "introspect", "register", "redeem", "served", "failed"}]
  /\ goal \in [Parties -> Routes]
  /\ retrying \in [Parties -> BOOLEAN]
  /\ ticket \in [Parties -> 0 .. minted] /\ rpt \in [Parties -> 0 .. minted]
  /\ sent \in [Parties -> 0 .. 2]
  /\ visits \in [Parties -> Nat]
  /\ serving \in [Handlers -> Parties \cup {Nobody}]
  /\ losses \in 0 .. MaxLosses
  /\ \A p \in Parties : (ticket[p] # 0) <=> (stage[p] = "redeem")

(***************************************************************************)
(* Nobody is served without having redeemed a ticket that the resource     *)
(* server had registered for enough: the token a served party holds was    *)
(* minted for a ticket of the same resource and of at least the scopes of  *)
(* the route (examples/as-rs-demo/main.go:411-431).                        *)
(***************************************************************************)
AccessJustified ==
  \A p \in Parties :
    stage[p] = "served" =>
      /\ rpt[p] \in DOMAIN origin
      /\ LET granted == issued[origin[rpt[p]]]
         IN granted.resource = goal[p].resource /\ goal[p].scopes \subseteq granted.scopes

(***************************************************************************)
(* What makes AccessJustified inductive: a party waits for one answer, it  *)
(* is an answer to what the party asked, and the server still knows the    *)
(* token of a served party as it answered.                                 *)
(***************************************************************************)
OneCallEach ==
  \A g, h \in Handlers : Waiting(g) /\ serving[g] = serving[h] => g = h

Fits(h, p) ==
  /\ ~Ready(h) => stage[p] = "redeem"
  /\ stage[p] = "redeem" => sent[p] > 0
  /\ reply[h] # NoReply =>
       \/ stage[p] = "introspect" /\ reply[h].kind \in {"active", "inactive"}
                                  /\ reply[h].of = rpt[p]
       \/ stage[p] = "register" /\ reply[h].kind = "ticket" /\ reply[h].id \in Ids
       \/ stage[p] = "redeem" /\ reply[h].kind \in {"rpt", "invalid_grant"}

AnswerFits == \A h \in Handlers : Waiting(h) => Fits(h, serving[h])

ServedByToken ==
  \A p \in Parties :
    stage[p] = "served" =>
      /\ rpt[p] \in DOMAIN rpts
      /\ rpts[rpt[p]].resource = goal[p].resource
      /\ goal[p].scopes \subseteq rpts[rpt[p]].scopes

SystemIInv == SystemTypeOK /\ OneCallEach /\ AnswerFits /\ ServedByToken

(***************************************************************************)
(* A party is told that its ticket is not valid only when it sent the      *)
(* ticket before and that call failed: no visit ends in a refusal unless a *)
(* call of a redemption failed (examples/as-rs-demo/main.go:346-357).      *)
(***************************************************************************)
RefusedOnlyAfterResend ==
  \A h \in Handlers :
    Waiting(h) /\ reply[h].kind = "invalid_grant" =>
      sent[serving[h]] > 1 /\ losses > 0

(***************************************************************************)
(* A ticket that nobody will redeem stays in the server's map for ever,    *)
(* for tickets do not expire; only a failed call leaves one behind         *)
(* (examples/as-rs-demo/main.go:336-339).                                  *)
(***************************************************************************)
Held == {ticket[p] : p \in Parties} \cup {reply[h].id : h \in {g \in Handlers : Waiting(g)}}

LeaksOnlyByLoss == Cardinality(DOMAIN tickets \ Held) <= losses

(***************************************************************************)
(* A party's token is its own: the one on its way to a party was minted    *)
(* for the very ticket the party presented, whoever else is redeeming and  *)
(* whatever was given up or sent again, and no two parties ever hold the   *)
(* same (examples/as-rs-demo/main.go:346-361).                             *)
(***************************************************************************)
OwnTokenOnly ==
  /\ \A h \in Handlers :
       Waiting(h) /\ reply[h].kind = "rpt" => origin[reply[h].id] = ticket[serving[h]]
  /\ \A p, q \in Parties : p # q /\ rpt[p] # 0 => rpt[p] # rpt[q]

(***************************************************************************)
(* The parties use the authorization server only through its operations,   *)
(* so all that is proved of it holds in the system.                        *)
(***************************************************************************)
UsesTheServer == Spec

(***************************************************************************)
(* A token just redeemed is enough for the route it was redeemed for: when *)
(* the party asks again with it, the resource server finds it active and   *)
(* covering, whoever else redeems and whatever was lost, and never sends   *)
(* the party for another ticket, which would end its visit                 *)
(* (examples/as-rs-demo/main.go:208-226, 415-431).                         *)
(***************************************************************************)
FreshTokenSuffices ==
  \A p \in Parties : retrying[p] => stage[p] \notin {"register", "redeem"}

(***************************************************************************)
(* What makes FreshTokenSuffices inductive: the ticket on its way to a     *)
(* party, and the one it redeems, is for the route it asks for; the token  *)
(* of a party that asks again covers that route, and is answered active.   *)
(***************************************************************************)
TicketForGoal ==
  /\ \A p \in Parties : stage[p] = "redeem" =>
       ticket[p] \in DOMAIN issued /\ issued[ticket[p]] = goal[p]
  /\ \A h \in Handlers : Waiting(h) /\ reply[h].kind = "ticket" =>
       reply[h].id \in DOMAIN issued /\ issued[reply[h].id] = goal[serving[h]]

FreshToken ==
  /\ \A p \in Parties : retrying[p] =>
       rpt[p] \in DOMAIN rpts /\ Covers(rpts[rpt[p]], goal[p])
  /\ \A h \in Handlers :
       Waiting(h) /\ retrying[serving[h]] /\ reply[h] # NoReply => reply[h].kind = "active"

FreshInv == FreshTokenSuffices /\ TicketForGoal /\ FreshToken

(***************************************************************************)
(* Every visit ends, and one that begins when no call fails any more ends  *)
(* in the protected page, whatever failed before it: no lost answer,       *)
(* abandoned ticket or handler left running stands in its way              *)
(* (examples/as-rs-demo/main.go:153-226).                                  *)
(***************************************************************************)
Served ==
  \A p \in Parties :
    /\ (stage[p] = "start") ~> (stage[p] \in {"served", "failed"})
    /\ (stage[p] = "start" /\ losses = MaxLosses) ~> (stage[p] = "served")
=============================================================================
