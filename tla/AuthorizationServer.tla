------------------------ MODULE AuthorizationServer ------------------------
(***************************************************************************)
(* The authorization server of examples/as-rs-demo, the repository's own   *)
(* implementation of server.AS, under concurrent requests.  net/http runs  *)
(* each request in a goroutine, here a handler.  The server's mutex is     *)
(* taken once by ResourceSet, Permission and Introspect, and twice by      *)
(* Token: to take the ticket, and to store the token minted for it.  Each  *)
(* critical section, with the local work before it, is one step.           *)
(***************************************************************************)
EXTENDS Integers, FiniteSets

CONSTANTS
  Handlers,   (* Goroutines that serve requests.                           *)
  Perms,      (* Permission requests: a resource and a set of scopes.      *)
  NoPerm,     (* Placeholder where a reply or a handler has no permission. *)
  MaxTickets, (* Bound on the tickets issued.                              *)
  MaxResources(* Bound on the resource sets registered.                    *)

ASSUME ServerAssumption ==
  /\ MaxTickets \in Nat
  /\ MaxResources \in Nat
  /\ NoPerm \notin Perms

VARIABLES
  minted,     (* How many identifiers randomID has returned.               *)
  resources,  (* The ids of a.resources.                                   *)
  tickets,    (* a.tickets: a permission for each live ticket.             *)
  rpts,       (* a.rpts: a permission for each token.                      *)
  taken,      (* The ticket each handler took and has not redeemed yet.    *)
  reply,      (* What each handler is answering.                           *)
  issued,     (* History: the permission of every ticket ever issued.      *)
  origin      (* History: the ticket every token was minted for.           *)

vars == <<minted, resources, tickets, rpts, taken, reply, issued, origin>>

(***************************************************************************)
(* Identifiers are 128 random bits, taken never to repeat: the n-th one    *)
(* drawn is n.  0 stands for the empty string, -1 for one never drawn.     *)
(***************************************************************************)
Presented == -1 .. minted

(* Go maps.                                                                *)
Put(m, k, v)  == [x \in DOMAIN m \cup {k} |-> IF x = k THEN v ELSE m[x]]
Delete(m, k)  == [x \in DOMAIN m \ {k} |-> m[x]]

NotTaken == [ticket |-> 0, perm |-> NoPerm]

Reply(kind, of, id, perm) == [kind |-> kind, of |-> of, id |-> id, perm |-> perm]

NoReply == Reply("none", 0, 0, NoPerm)

Init ==
  /\ minted = 0
  /\ resources = {}
  /\ tickets = <<>>
  /\ rpts = <<>>
  /\ taken = [h \in Handlers |-> NotTaken]
  /\ reply = [h \in Handlers |-> NoReply]
  /\ issued = <<>>
  /\ origin = <<>>

(* A handler that is not between Token's two critical sections.            *)
Ready(h) == taken[h] = NotTaken

(* A handler without a request.                                            *)
Idle(h) == Ready(h) /\ reply[h] = NoReply

Answer(h, r) == reply' = [reply EXCEPT ![h] = r]

(***************************************************************************)
(* Validation failures: the answer is an error, and nothing changes.       *)
(***************************************************************************)
ValidPermission(p) == p.resource # "" /\ p.scopes # {}

Invalid(h) ==
  /\ Idle(h)
  /\ Answer(h, Reply("invalid", 0, 0, NoPerm))
  /\ UNCHANGED <<minted, resources, tickets, rpts, taken, issued, origin>>

InvalidPermission(h, p) == ~ValidPermission(p) /\ Invalid(h)

(* Token and Introspect with an empty ticket or token.                     *)
InvalidTicketOrToken(h, id) == id = 0 /\ Invalid(h)

(***************************************************************************)
(* The operations.                                                         *)
(***************************************************************************)

(* ResourceSet with OpCreate.  Every other op is ErrNotImplemented.        *)
CreateResourceSet(h) ==
  /\ Idle(h)
  /\ Cardinality(resources) < MaxResources
  /\ minted' = minted + 1
  /\ resources' = resources \cup {minted + 1}
  /\ Answer(h, Reply("created", 0, minted + 1, NoPerm))
  /\ UNCHANGED <<tickets, rpts, taken, issued, origin>>

Permission(h, p) ==
  /\ Idle(h)
  /\ ValidPermission(p)
  /\ Cardinality(DOMAIN issued) < MaxTickets
  /\ minted' = minted + 1
  /\ tickets' = Put(tickets, minted + 1, p)
  /\ issued' = Put(issued, minted + 1, p)
  /\ Answer(h, Reply("ticket", 0, minted + 1, p))
  /\ UNCHANGED <<resources, rpts, taken, origin>>

(* Mutant: the ticket is not deleted.                                      *)
PeekTicket(h, t) ==
  /\ Idle(h)
  /\ t \in DOMAIN tickets
  /\ taken' = [taken EXCEPT ![h] = [ticket |-> t, perm |-> tickets[t]]]
  /\ Answer(h, NoReply)
  /\ UNCHANGED <<minted, resources, tickets, rpts, issued, origin>>

(* Token, first critical section: look the ticket up and delete it.        *)
TakeTicket(h, t) ==
  /\ Idle(h)
  /\ t \in DOMAIN tickets
  /\ taken' = [taken EXCEPT ![h] = [ticket |-> t, perm |-> tickets[t]]]
  /\ tickets' = Delete(tickets, t)
  /\ Answer(h, NoReply)
  /\ UNCHANGED <<minted, resources, rpts, issued, origin>>

(* Mutant: a live ticket may be refused.                                   *)
RefuseAny(h, t) ==
  /\ Idle(h)
  /\ t # 0
  /\ Answer(h, Reply("invalid_grant", t, 0, NoPerm))
  /\ UNCHANGED <<minted, resources, tickets, rpts, taken, issued, origin>>

RefuseTicket(h, t) ==
  /\ Idle(h)
  /\ t # 0 /\ t \notin DOMAIN tickets
  /\ Answer(h, Reply("invalid_grant", t, 0, NoPerm))
  /\ UNCHANGED <<minted, resources, tickets, rpts, taken, issued, origin>>

(* Mutant: the token is answered but not stored.                           *)
ForgetRPT(h) ==
  /\ ~Ready(h)
  /\ minted' = minted + 1
  /\ taken' = [taken EXCEPT ![h] = NotTaken]
  /\ Answer(h, Reply("rpt", taken[h].ticket, minted + 1, taken[h].perm))
  /\ UNCHANGED <<resources, tickets, rpts, issued, origin>>

(* Mutant: the permission is read from the ticket map when it is stored.   *)
StoreLatePerm(h) ==
  /\ ~Ready(h)
  /\ minted' = minted + 1
  /\ rpts' = Put(rpts, minted + 1, IF taken[h].ticket \in DOMAIN tickets
                                   THEN tickets[taken[h].ticket] ELSE NoPerm)
  /\ origin' = Put(origin, minted + 1, taken[h].ticket)
  /\ taken' = [taken EXCEPT ![h] = NotTaken]
  /\ Answer(h, Reply("rpt", taken[h].ticket, minted + 1, taken[h].perm))
  /\ UNCHANGED <<resources, tickets, issued>>

(* Mutant: the handlers share one variable for the ticket they took.       *)
StoreShared(h) ==
  /\ ~Ready(h)
  /\ minted' = minted + 1
  /\ \E g \in Handlers : ~Ready(g) /\ rpts' = Put(rpts, minted + 1, taken[g].perm)
  /\ origin' = Put(origin, minted + 1, taken[h].ticket)
  /\ taken' = [taken EXCEPT ![h] = NotTaken]
  /\ Answer(h, Reply("rpt", taken[h].ticket, minted + 1, rpts'[minted + 1]))
  /\ UNCHANGED <<resources, tickets, issued>>

(* Mutant: one handler redeems the ticket that another took.               *)
StoreOther(h) ==
  /\ ~Ready(h)
  /\ minted' = minted + 1
  /\ \E g \in Handlers :
       /\ ~Ready(g)
       /\ rpts' = Put(rpts, minted + 1, taken[g].perm)
       /\ origin' = Put(origin, minted + 1, taken[g].ticket)
       /\ Answer(h, Reply("rpt", taken[g].ticket, minted + 1, taken[g].perm))
  /\ taken' = [taken EXCEPT ![h] = NotTaken]
  /\ UNCHANGED <<resources, tickets, issued>>

(* Token, second critical section: mint the token and store it; answer.    *)
StoreRPT(h) ==
  /\ ~Ready(h)
  /\ minted' = minted + 1
  /\ rpts' = Put(rpts, minted + 1, taken[h].perm)
  /\ origin' = Put(origin, minted + 1, taken[h].ticket)
  /\ taken' = [taken EXCEPT ![h] = NotTaken]
  /\ Answer(h, Reply("rpt", taken[h].ticket, minted + 1, taken[h].perm))
  /\ UNCHANGED <<resources, tickets, issued>>

(* An unknown token is not an error: the answer says it is not active.     *)
Introspect(h, r) ==
  /\ Idle(h)
  /\ r # 0
  /\ Answer(h, IF r \in DOMAIN rpts THEN Reply("active", r, 0, rpts[r])
                                    ELSE Reply("inactive", r, 0, NoPerm))
  /\ UNCHANGED <<minted, resources, tickets, rpts, taken, issued, origin>>

(* The handler returns: its answer is on the wire and its goroutine ends.  *)
Done(h) ==
  /\ reply[h] # NoReply
  /\ Answer(h, NoReply)
  /\ UNCHANGED <<minted, resources, tickets, rpts, taken, issued, origin>>

Next ==
  \E h \in Handlers :
    \/ \E p \in Perms : InvalidPermission(h, p)
    \/ \E id \in Presented : InvalidTicketOrToken(h, id)
    \/ CreateResourceSet(h)
    \/ \E p \in Perms : Permission(h, p)
    \/ \E t \in Presented : TakeTicket(h, t)
    \/ \E t \in Presented : RefuseTicket(h, t)
    \/ StoreRPT(h)
    \/ \E r \in Presented : Introspect(h, r)
    \/ Done(h)

Spec == Init /\ [][Next]_vars

(* A handler that took a ticket keeps running.                             *)
FairSpec == Spec /\ \A h \in Handlers : WF_vars(StoreRPT(h))

-----------------------------------------------------------------------------
(* Properties.                                                             *)

Ids == 1 .. minted

Replies == [kind : {"none", "invalid", "created", "ticket", "invalid_grant",
                    "rpt", "active", "inactive"},
            of : Int, id : Int, perm : Perms \cup {NoPerm}]

TypeOK ==
  /\ minted \in Nat
  /\ resources \subseteq Ids
  /\ DOMAIN tickets \subseteq Ids /\ \A t \in DOMAIN tickets : tickets[t] \in Perms
  /\ DOMAIN rpts \subseteq Ids /\ \A r \in DOMAIN rpts : rpts[r] \in Perms
  /\ DOMAIN issued \subseteq Ids /\ \A t \in DOMAIN issued : issued[t] \in Perms
  /\ DOMAIN origin = DOMAIN rpts /\ \A r \in DOMAIN rpts : origin[r] \in DOMAIN issued
  /\ taken \in [Handlers -> [ticket : Nat, perm : Perms \cup {NoPerm}]]
  /\ reply \in [Handlers -> Replies]

Redeemers(t) == {h \in Handlers : ~Ready(h) /\ taken[h].ticket = t}
RPTsOf(t)    == {r \in DOMAIN origin : origin[r] = t}

(***************************************************************************)
(* No ticket is lost and none is used twice, however redemptions of the    *)
(* same ticket interleave: every ticket ever issued is live, or held by    *)
(* exactly one handler that will mint its token, or was redeemed for       *)
(* exactly one token (examples/as-rs-demo/main.go:346-361).                *)
(***************************************************************************)
TicketConserved ==
  \A t \in DOMAIN issued :
    \/ t \in DOMAIN tickets /\ Redeemers(t) = {} /\ RPTsOf(t) = {}
    \/ t \notin DOMAIN tickets /\ RPTsOf(t) = {} /\ \E h \in Handlers : Redeemers(t) = {h}
    \/ t \notin DOMAIN tickets /\ Redeemers(t) = {} /\ \E r \in Ids : RPTsOf(t) = {r}

(***************************************************************************)
(* A token carries the permission its ticket was registered for, across    *)
(* the window in which the ticket is gone from one map and not yet in the  *)
(* other (examples/as-rs-demo/main.go:347-360).                            *)
(***************************************************************************)
PermissionCarried ==
  /\ \A t \in DOMAIN tickets : t \in DOMAIN issued /\ tickets[t] = issued[t]
  /\ \A h \in Handlers : ~Ready(h) =>
       taken[h].ticket \in DOMAIN issued /\ taken[h].perm = issued[taken[h].ticket]
  /\ \A r \in DOMAIN rpts : rpts[r] = issued[origin[r]]

(***************************************************************************)
(* A token is active from the moment the server hands it out, with the     *)
(* permission that introspection then reports: no reply names a token, as  *)
(* issued or as active, that the server does not know                      *)
(* (examples/as-rs-demo/main.go:358-384).                                  *)
(***************************************************************************)
AnsweredIsKnown ==
  \A h \in Handlers :
    /\ reply[h].kind = "rpt" =>
         reply[h].id \in DOMAIN rpts /\ rpts[reply[h].id] = reply[h].perm
    /\ reply[h].kind = "active" =>
         reply[h].of \in DOMAIN rpts /\ rpts[reply[h].of] = reply[h].perm

(***************************************************************************)
(* A refused ticket is not a live one: it was never issued, is being       *)
(* redeemed, or was (examples/as-rs-demo/main.go:352-357).                 *)
(***************************************************************************)
RefusedIsNotLive ==
  \A h \in Handlers :
    reply[h].kind = "invalid_grant" => reply[h].of \notin DOMAIN tickets

(***************************************************************************)
(* What makes the properties above inductive: only an identifier drawn     *)
(* before can have been refused, so a ticket issued later is not it.       *)
(***************************************************************************)
RefusedIsOld ==
  \A h \in Handlers : reply[h].kind = "invalid_grant" => reply[h].of <= minted

IInv ==
  /\ TypeOK
  /\ TicketConserved
  /\ PermissionCarried
  /\ AnsweredIsKnown
  /\ RefusedIsNotLive
  /\ RefusedIsOld

(* The server implements the abstract ticket promise.                      *)
Promise == INSTANCE TicketGrant WITH
  Perms <- Perms,
  perm  <- issued,
  spent <- DOMAIN issued \ DOMAIN tickets,
  grant <- [r \in DOMAIN rpts |-> [ticket |-> origin[r], perm |-> rpts[r]]]

(***************************************************************************)
(* Redemptions take effect once and with the right permission: every step  *)
(* is a step of TicketGrant or changes nothing it sees.                    *)
(***************************************************************************)
KeepsPromise == Promise!Spec

(***************************************************************************)
(* A ticket that was taken is redeemed: no taken ticket is stranded        *)
(* between the critical sections while its handler runs                    *)
(* (examples/as-rs-demo/main.go:351-361).                                  *)
(***************************************************************************)
TakenIsRedeemed ==
  \A t \in 1 .. 2 * MaxTickets + MaxResources :
    (t \in DOMAIN issued \ DOMAIN tickets) ~> (RPTsOf(t) # {})
=============================================================================
