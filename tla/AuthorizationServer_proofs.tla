--------------------- MODULE AuthorizationServer_proofs ---------------------
(***************************************************************************)
(* Proofs about AuthorizationServer, for any number of handlers, tickets   *)
(* and permissions.                                                        *)
(***************************************************************************)
EXTENDS AuthorizationServer, TLAPS

(* The next identifier is new to every map.                                *)
LEMMA NextIdIsNew ==
  ASSUME TypeOK
  PROVE  /\ minted + 1 \in Nat \ {0}
         /\ minted + 1 \notin DOMAIN tickets
         /\ minted + 1 \notin DOMAIN rpts
         /\ minted + 1 \notin DOMAIN issued
         /\ Ids \subseteq 1 .. minted + 1
  BY DEF TypeOK, Ids

LEMMA InitIInv == Init => IInv
<1> SUFFICES ASSUME Init PROVE IInv
  OBVIOUS
<1>1. DOMAIN tickets = {} /\ DOMAIN rpts = {} /\ DOMAIN issued = {} /\ DOMAIN origin = {}
  BY DEF Init
<1>2. \A h \in Handlers : reply[h] = NoReply /\ taken[h] = NotTaken
  BY DEF Init
<1>3. TypeOK
  <2>1. taken \in [Handlers -> [ticket : Nat, perm : Perms \cup {NoPerm}]]
    BY DEF Init, NotTaken
  <2>2. reply \in [Handlers -> Replies]
    BY DEF Init, Replies, Reply, NoReply
  <2> QED
    BY <1>1, <2>1, <2>2 DEF Init, TypeOK, Ids
<1>4. TicketConserved /\ PermissionCarried
  BY <1>1, <1>2 DEF TicketConserved, PermissionCarried, Ready
<1>5. AnsweredIsKnown /\ RefusedIsNotLive /\ RefusedIsOld
  BY <1>2 DEF AnsweredIsKnown, RefusedIsNotLive, RefusedIsOld, Reply, NoReply
<1> QED
  BY <1>3, <1>4, <1>5 DEF IInv

(***************************************************************************)
(* A step that only changes one handler's reply, to one that is true.      *)
(***************************************************************************)
LEMMA AnswerIInv ==
  ASSUME IInv, NEW h \in Handlers, NEW r \in Replies, Answer(h, r),
         UNCHANGED <<minted, resources, tickets, rpts, taken, issued, origin>>,
         r.kind # "rpt",
         r.kind = "active" => r.of \in DOMAIN rpts /\ rpts[r.of] = r.perm,
         r.kind = "invalid_grant" => r.of \notin DOMAIN tickets /\ r.of <= minted
  PROVE  IInv'
<1> USE DEF IInv
<1>1. reply' \in [Handlers -> Replies]
  BY DEF Answer, TypeOK
<1>2. TypeOK'
  BY <1>1 DEF TypeOK, Ids
<1>3. TicketConserved'
  BY DEF TicketConserved, Redeemers, RPTsOf, Ready, Ids
<1>4. PermissionCarried'
  BY DEF PermissionCarried, Ready
<1>5. \A g \in Handlers : reply'[g] = IF g = h THEN r ELSE reply[g]
  BY DEF Answer, TypeOK
<1>6. AnsweredIsKnown' /\ RefusedIsNotLive' /\ RefusedIsOld'
  BY <1>5 DEF AnsweredIsKnown, RefusedIsNotLive, RefusedIsOld
<1> QED
  BY <1>2, <1>3, <1>4, <1>6

LEMMA InvalidIInv == ASSUME IInv, NEW h \in Handlers, Invalid(h) PROVE IInv'
<1> DEFINE r == Reply("invalid", 0, 0, NoPerm)
<1>1. r \in Replies /\ r.kind = "invalid"
  BY DEF Reply, Replies
<1> QED
  BY <1>1, AnswerIInv DEF Invalid

LEMMA DoneIInv == ASSUME IInv, NEW h \in Handlers, Done(h) PROVE IInv'
<1>1. NoReply \in Replies /\ NoReply.kind = "none"
  BY DEF NoReply, Reply, Replies
<1> QED
  BY <1>1, AnswerIInv DEF Done

LEMMA RefuseTicketIInv ==
  ASSUME IInv, NEW h \in Handlers, NEW t \in Presented, RefuseTicket(h, t)
  PROVE  IInv'
<1> DEFINE r == Reply("invalid_grant", t, 0, NoPerm)
<1>1. t \in Int /\ t <= minted
  BY DEF Presented, IInv, TypeOK
<1>2. r \in Replies /\ r.kind = "invalid_grant" /\ r.of = t
  BY <1>1 DEF Reply, Replies
<1> QED
  BY <1>1, <1>2, AnswerIInv DEF RefuseTicket

LEMMA IntrospectIInv ==
  ASSUME IInv, NEW h \in Handlers, NEW t \in Presented, Introspect(h, t)
  PROVE  IInv'
<1>1. t \in Int
  BY DEF Presented, IInv, TypeOK
<1>2. CASE t \in DOMAIN rpts
  <2> DEFINE r == Reply("active", t, 0, rpts[t])
  <2>1. rpts[t] \in Perms
    BY <1>2 DEF IInv, TypeOK
  <2>2. r \in Replies /\ r.kind = "active" /\ r.of = t /\ r.perm = rpts[t]
    BY <1>1, <2>1 DEF Reply, Replies
  <2>3. Answer(h, r)
    BY <1>2 DEF Introspect
  <2> QED
    BY <1>2, <2>2, <2>3, AnswerIInv DEF Introspect
<1>3. CASE t \notin DOMAIN rpts
  <2> DEFINE r == Reply("inactive", t, 0, NoPerm)
  <2>1. r \in Replies /\ r.kind = "inactive"
    BY <1>1 DEF Reply, Replies
  <2>2. Answer(h, r)
    BY <1>3 DEF Introspect
  <2> QED
    BY <2>1, <2>2, AnswerIInv DEF Introspect
<1> QED
  BY <1>2, <1>3

LEMMA CreateResourceSetIInv ==
  ASSUME IInv, NEW h \in Handlers, CreateResourceSet(h)
  PROVE  IInv'
<1> USE DEF IInv, CreateResourceSet, Idle
<1> DEFINE r == Reply("created", 0, minted + 1, NoPerm)
<1>1. minted + 1 \in Nat \ {0} /\ Ids \subseteq Ids' /\ minted + 1 \in Ids'
  BY DEF TypeOK, Ids
<1>2. r \in Replies /\ r.kind = "created"
  BY <1>1 DEF Reply, Replies
<1>3. \A g \in Handlers : reply'[g] = IF g = h THEN r ELSE reply[g]
  BY DEF Answer, TypeOK
<1>4. TypeOK'
  <2>1. reply' \in [Handlers -> Replies]
    BY <1>2 DEF Answer, TypeOK
  <2> QED
    BY <1>1, <2>1 DEF TypeOK
<1>5. TicketConserved'
  BY <1>1 DEF TicketConserved, Redeemers, RPTsOf, Ready
<1>6. PermissionCarried'
  BY DEF PermissionCarried, Ready
<1>7. AnsweredIsKnown' /\ RefusedIsNotLive'
  BY <1>2, <1>3 DEF AnsweredIsKnown, RefusedIsNotLive
<1>8. RefusedIsOld'
  <2> SUFFICES ASSUME NEW g \in Handlers, reply'[g].kind = "invalid_grant"
               PROVE  reply'[g].of <= minted'
    BY DEF RefusedIsOld
  <2>1. g # h /\ reply'[g] = reply[g]
    BY <1>2, <1>3
  <2>2. reply[g].of \in Int /\ reply[g].of <= minted
    BY <2>1 DEF RefusedIsOld, TypeOK, Replies
  <2> QED
    BY <2>1, <2>2 DEF TypeOK
<1> QED
  BY <1>4, <1>5, <1>6, <1>7, <1>8

LEMMA PermissionIInv ==
  ASSUME IInv, NEW h \in Handlers, NEW p \in Perms, Permission(h, p)
  PROVE  IInv'
<1> USE DEF IInv, Permission, Idle
<1> PICK n \in Nat : n = minted + 1
  BY NextIdIsNew
<1> DEFINE r == Reply("ticket", 0, n, p)
<1>1. /\ n \in Nat \ {0} /\ Ids \subseteq Ids' /\ n \in Ids'
      /\ n \notin DOMAIN tickets /\ n \notin DOMAIN rpts /\ n \notin DOMAIN issued
  BY NextIdIsNew DEF TypeOK, Ids
<1>2. /\ DOMAIN tickets' = DOMAIN tickets \cup {n} /\ tickets'[n] = p
      /\ \A t \in DOMAIN tickets : tickets'[t] = tickets[t]
  BY <1>1 DEF Put
<1>3. /\ DOMAIN issued' = DOMAIN issued \cup {n} /\ issued'[n] = p
      /\ \A t \in DOMAIN issued : issued'[t] = issued[t]
  BY <1>1 DEF Put
<1>4. r \in Replies /\ r.kind = "ticket"
  BY <1>1 DEF Reply, Replies
<1>5. \A g \in Handlers : reply'[g] = IF g = h THEN r ELSE reply[g]
  BY DEF Answer, TypeOK
<1>6. TypeOK'
  <2>1. reply' \in [Handlers -> Replies]
    BY <1>4 DEF Answer, TypeOK
  <2> QED
    BY <1>1, <1>2, <1>3, <2>1 DEF TypeOK
<1>7. TicketConserved'
  <2>1. Redeemers(n)' = {} /\ RPTsOf(n)' = {}
    BY <1>1 DEF Redeemers, RPTsOf, Ready, PermissionCarried, TypeOK
  <2>2. \A t \in DOMAIN issued : Redeemers(t)' = Redeemers(t) /\ RPTsOf(t)' = RPTsOf(t)
    BY DEF Redeemers, RPTsOf, Ready
  <2> QED
    BY <1>1, <1>2, <1>3, <2>1, <2>2 DEF TicketConserved
<1>8. PermissionCarried'
  BY <1>1, <1>2, <1>3 DEF PermissionCarried, Ready, TypeOK
<1>9. AnsweredIsKnown'
  BY <1>4, <1>5 DEF AnsweredIsKnown
<1>10. RefusedIsNotLive' /\ RefusedIsOld'
  <2> SUFFICES ASSUME NEW g \in Handlers, reply'[g].kind = "invalid_grant"
               PROVE  reply'[g].of \notin DOMAIN tickets' /\ reply'[g].of <= minted'
    BY DEF RefusedIsNotLive, RefusedIsOld
  <2>1. g # h /\ reply'[g] = reply[g]
    BY <1>4, <1>5
  <2>2. reply[g].of \in Int /\ reply[g].of <= minted /\ reply[g].of \notin DOMAIN tickets
    BY <2>1 DEF RefusedIsOld, RefusedIsNotLive, TypeOK, Replies
  <2> QED
    BY <1>2, <2>1, <2>2 DEF TypeOK
<1> QED
  BY <1>6, <1>7, <1>8, <1>9, <1>10

LEMMA TakeTicketIInv ==
  ASSUME IInv, NEW h \in Handlers, NEW t \in Presented, TakeTicket(h, t)
  PROVE  IInv'
<1> USE DEF IInv, TakeTicket, Idle, NoReply
<1> DEFINE r == NoReply
<1>1. DOMAIN tickets' = DOMAIN tickets \ {t} /\ \A u \in DOMAIN tickets' : tickets'[u] = tickets[u]
  BY DEF Delete
<1>2. t \in DOMAIN issued /\ t \in Nat \ {0} /\ tickets[t] = issued[t] /\ issued[t] \in Perms
  BY DEF PermissionCarried, TypeOK, Ids
<1>3. \A g \in Handlers : taken'[g] = IF g = h THEN [ticket |-> t, perm |-> tickets[t]]
                                               ELSE taken[g]
  BY DEF TypeOK
<1>4. \A g \in Handlers : reply'[g] = IF g = h THEN r ELSE reply[g]
  BY DEF Answer, TypeOK
<1>5. TypeOK'
  <2>1. reply' \in [Handlers -> Replies]
    BY DEF Answer, TypeOK, Reply, Replies
  <2>2. taken' \in [Handlers -> [ticket : Nat, perm : Perms \cup {NoPerm}]]
    BY <1>2 DEF TypeOK
  <2> QED
    BY <1>1, <2>1, <2>2 DEF TypeOK, Ids
<1>6. ~Ready(h)' /\ taken'[h].ticket = t /\ \A g \in Handlers \ {h} : Ready(g)' <=> Ready(g)
  BY <1>2, <1>3 DEF Ready, NotTaken
<1>7. TicketConserved'
  <2>1. Redeemers(t) = {} /\ RPTsOf(t) = {}
    BY <1>2 DEF TicketConserved
  <2>2. Redeemers(t)' = {h} /\ RPTsOf(t)' = {}
    BY <1>3, <1>6, <2>1 DEF Redeemers, RPTsOf
  <2>3. \A u \in DOMAIN issued \ {t} : Redeemers(u)' = Redeemers(u) /\ RPTsOf(u)' = RPTsOf(u)
    BY <1>3, <1>6 DEF Redeemers, RPTsOf
  <2>4. Ids' = Ids
    BY DEF Ids
  <2> SUFFICES ASSUME NEW u \in DOMAIN issued
               PROVE  \/ u \in DOMAIN tickets' /\ Redeemers(u)' = {} /\ RPTsOf(u)' = {}
                      \/ u \notin DOMAIN tickets' /\ RPTsOf(u)' = {}
                           /\ \E g \in Handlers : Redeemers(u)' = {g}
                      \/ u \notin DOMAIN tickets' /\ Redeemers(u)' = {}
                           /\ \E q \in Ids' : RPTsOf(u)' = {q}
    BY DEF TicketConserved
  <2>5. CASE u = t
    BY <1>1, <2>2, <2>5
  <2>6. CASE u # t
    BY <1>1, <2>3, <2>4, <2>6 DEF TicketConserved
  <2> QED
    BY <2>5, <2>6
<1>8. PermissionCarried'
  BY <1>1, <1>2, <1>3, <1>6 DEF PermissionCarried
<1>9. AnsweredIsKnown' /\ RefusedIsNotLive' /\ RefusedIsOld'
  BY <1>1, <1>4 DEF AnsweredIsKnown, RefusedIsNotLive, RefusedIsOld, Reply
<1> QED
  BY <1>5, <1>7, <1>8, <1>9

LEMMA StoreRPTIInv == ASSUME IInv, NEW h \in Handlers, StoreRPT(h) PROVE IInv'
<1> USE DEF IInv, StoreRPT
<1> PICK n \in Nat, t \in Nat : n = minted + 1 /\ t = taken[h].ticket
  BY NextIdIsNew DEF TypeOK
<1> DEFINE r == Reply("rpt", t, n, taken[h].perm)
<1>1. /\ n \in Nat \ {0} /\ Ids \subseteq Ids' /\ n \in Ids'
      /\ n \notin DOMAIN tickets /\ n \notin DOMAIN rpts /\ n \notin DOMAIN issued
  BY NextIdIsNew DEF TypeOK, Ids
<1>2. t \in DOMAIN issued /\ t \in Nat /\ taken[h].perm = issued[t] /\ issued[t] \in Perms
  BY DEF PermissionCarried, TypeOK
<1>3. /\ DOMAIN rpts' = DOMAIN rpts \cup {n} /\ rpts'[n] = issued[t]
      /\ \A q \in DOMAIN rpts : rpts'[q] = rpts[q]
  BY <1>1, <1>2 DEF Put
<1>4. /\ DOMAIN origin' = DOMAIN origin \cup {n} /\ origin'[n] = t
      /\ \A q \in DOMAIN origin : origin'[q] = origin[q]
  BY <1>1 DEF Put, TypeOK
<1>5. \A g \in Handlers : taken'[g] = IF g = h THEN NotTaken ELSE taken[g]
  BY DEF TypeOK
<1>6. r \in Replies /\ r.kind = "rpt" /\ r.id = n /\ r.perm = issued[t]
  BY <1>1, <1>2 DEF Reply, Replies
<1>7. \A g \in Handlers : reply'[g] = IF g = h THEN r ELSE reply[g]
  BY DEF Answer, TypeOK
<1>8. TypeOK'
  <2>1. reply' \in [Handlers -> Replies]
    BY <1>6 DEF Answer, TypeOK
  <2>2. taken' \in [Handlers -> [ticket : Nat, perm : Perms \cup {NoPerm}]]
    BY DEF TypeOK, NotTaken
  <2>3. DOMAIN origin' = DOMAIN rpts' /\ \A q \in DOMAIN rpts' : origin'[q] \in DOMAIN issued'
    BY <1>2, <1>3, <1>4 DEF TypeOK
  <2>4. DOMAIN rpts' \subseteq Ids' /\ \A q \in DOMAIN rpts' : rpts'[q] \in Perms
    BY <1>1, <1>2, <1>3 DEF TypeOK
  <2> QED
    BY <1>1, <2>1, <2>2, <2>3, <2>4 DEF TypeOK
<1>9. Ready(h)' /\ \A g \in Handlers \ {h} : Ready(g)' <=> Ready(g)
  BY <1>5 DEF Ready
<1>10. TicketConserved'
  <2>1. /\ t \notin DOMAIN tickets /\ RPTsOf(t) = {}
        /\ \E g \in Handlers : Redeemers(t) = {g}
    BY <1>2 DEF TicketConserved, Redeemers
  <2>2. Redeemers(t) = {h}
    BY <2>1 DEF Redeemers
  <2>3. Redeemers(t)' = {} /\ RPTsOf(t)' = {n}
    BY <1>4, <1>5, <1>9, <2>1, <2>2 DEF Redeemers, RPTsOf
  <2>4. \A u \in DOMAIN issued \ {t} : Redeemers(u)' = Redeemers(u) /\ RPTsOf(u)' = RPTsOf(u)
    BY <1>4, <1>5, <1>9 DEF Redeemers, RPTsOf
  <2> SUFFICES ASSUME NEW u \in DOMAIN issued
               PROVE  \/ u \in DOMAIN tickets' /\ Redeemers(u)' = {} /\ RPTsOf(u)' = {}
                      \/ u \notin DOMAIN tickets' /\ RPTsOf(u)' = {}
                           /\ \E g \in Handlers : Redeemers(u)' = {g}
                      \/ u \notin DOMAIN tickets' /\ Redeemers(u)' = {}
                           /\ \E q \in Ids' : RPTsOf(u)' = {q}
    BY DEF TicketConserved
  <2>5. CASE u = t
    BY <1>1, <2>1, <2>3, <2>5
  <2>6. CASE u # t
    BY <1>1, <2>4, <2>6 DEF TicketConserved
  <2> QED
    BY <2>5, <2>6
<1>11. PermissionCarried'
  <2>1. \A g \in Handlers : ~Ready(g)' => taken'[g] = taken[g] /\ ~Ready(g)
    BY <1>5, <1>9
  <2>2. \A q \in DOMAIN rpts' : rpts'[q] = issued'[origin'[q]]
    BY <1>3, <1>4 DEF PermissionCarried, TypeOK
  <2> QED
    BY <2>1, <2>2 DEF PermissionCarried
<1>12. AnsweredIsKnown'
  BY <1>3, <1>6, <1>7 DEF AnsweredIsKnown
<1>13. RefusedIsNotLive' /\ RefusedIsOld'
  <2> SUFFICES ASSUME NEW g \in Handlers, reply'[g].kind = "invalid_grant"
               PROVE  reply'[g].of \notin DOMAIN tickets' /\ reply'[g].of <= minted'
    BY DEF RefusedIsNotLive, RefusedIsOld
  <2>1. g # h /\ reply'[g] = reply[g]
    BY <1>6, <1>7
  <2>2. reply[g].of \in Int /\ reply[g].of <= minted /\ reply[g].of \notin DOMAIN tickets
    BY <2>1 DEF RefusedIsOld, RefusedIsNotLive, TypeOK, Replies
  <2> QED
    BY <2>1, <2>2 DEF TypeOK
<1> QED
  BY <1>8, <1>10, <1>11, <1>12, <1>13

LEMMA NextIInv == IInv /\ [Next]_vars => IInv'
<1> SUFFICES ASSUME IInv, [Next]_vars PROVE IInv'
  OBVIOUS
<1>1. ASSUME NEW h \in Handlers, NEW p \in Perms, InvalidPermission(h, p) PROVE IInv'
  BY <1>1, InvalidIInv DEF InvalidPermission
<1>2. ASSUME NEW h \in Handlers, NEW i \in Presented, InvalidTicketOrToken(h, i) PROVE IInv'
  BY <1>2, InvalidIInv DEF InvalidTicketOrToken
<1>3. CASE UNCHANGED vars
  BY <1>3 DEF vars, IInv, TypeOK, Ids, TicketConserved, Redeemers, RPTsOf, Ready,
     PermissionCarried, AnsweredIsKnown, RefusedIsNotLive, RefusedIsOld
<1> QED
  BY <1>1, <1>2, <1>3, CreateResourceSetIInv, PermissionIInv, TakeTicketIInv,
     RefuseTicketIInv, StoreRPTIInv, IntrospectIInv, DoneIInv DEF Next

(* Every state of the server satisfies the inductive invariant.            *)
THEOREM Invariance == Spec => []IInv
  BY InitIInv, NextIInv, PTL DEF Spec

(* The server's maps and the handlers' local state keep their types.       *)
THEOREM TypeCorrect == Spec => []TypeOK
<1>1. IInv => TypeOK
  BY DEF IInv
<1> QED
  BY <1>1, Invariance, PTL

(***************************************************************************)
(* However many redemptions of a ticket interleave, it is live, or being   *)
(* redeemed by one handler, or redeemed for one token                      *)
(* (examples/as-rs-demo/main.go:342-367).                                  *)
(***************************************************************************)
THEOREM SingleUse == Spec => []TicketConserved
<1>1. IInv => TicketConserved
  BY DEF IInv
<1> QED
  BY <1>1, Invariance, PTL

(***************************************************************************)
(* Every token carries the permission its ticket was registered for        *)
(* (examples/as-rs-demo/main.go:331-361).                                  *)
(***************************************************************************)
THEOREM RightPermission == Spec => []PermissionCarried
<1>1. IInv => PermissionCarried
  BY DEF IInv
<1> QED
  BY <1>1, Invariance, PTL

(***************************************************************************)
(* The server knows every token it answered with, as issued or as active   *)
(* (examples/as-rs-demo/main.go:358-384).                                  *)
(***************************************************************************)
THEOREM HonestAnswers == Spec => []AnsweredIsKnown
<1>1. IInv => AnsweredIsKnown
  BY DEF IInv
<1> QED
  BY <1>1, Invariance, PTL

(***************************************************************************)
(* A ticket whose refusal is under way is not live: no other request       *)
(* redeems it in the meantime (examples/as-rs-demo/main.go:352-357).       *)
(***************************************************************************)
THEOREM RefusedStayRefused == Spec => []RefusedIsNotLive
<1>1. IInv => RefusedIsNotLive
  BY DEF IInv
<1> QED
  BY <1>1, Invariance, PTL

-----------------------------------------------------------------------------
(* The refinement of TicketGrant.                                          *)

(* What TicketGrant sees of a state.                                       *)
Spent  == DOMAIN issued \ DOMAIN tickets
Grants == [r \in DOMAIN rpts |-> [ticket |-> origin[r], perm |-> rpts[r]]]

LEMMA InitRefines == Init => Promise!Init
<1> SUFFICES ASSUME Init PROVE Promise!Init
  OBVIOUS
<1>1. DOMAIN issued = {} /\ DOMAIN tickets = {} /\ DOMAIN rpts = {} /\ issued = <<>>
  BY DEF Init
<1>2. Spent = {}
  BY <1>1 DEF Spent
<1>3. Grants = <<>>
  BY <1>1 DEF Grants
<1> QED
  BY <1>1, <1>2, <1>3 DEF Promise!Init, Spent, Grants

LEMMA PermissionRefines ==
  ASSUME IInv, NEW h \in Handlers, NEW p \in Perms, Permission(h, p)
  PROVE  Promise!Register
<1> PICK n \in Nat : n = minted + 1
  BY NextIdIsNew DEF IInv
<1>1. n \notin DOMAIN issued
  BY NextIdIsNew DEF IInv
<1>2. /\ DOMAIN issued' = DOMAIN issued \cup {n} /\ issued'[n] = p
      /\ \A t \in DOMAIN issued : issued'[t] = issued[t]
  BY <1>1 DEF Permission, Put
<1>3. DOMAIN tickets' = DOMAIN tickets \cup {n}
  BY DEF Permission, Put
<1>4. Spent' = Spent
  BY <1>1, <1>2, <1>3 DEF Spent
<1>5. Grants' = Grants
  BY DEF Permission, Grants
<1>6. Promise!Grows(issued, issued', n)
  BY <1>2 DEF Promise!Grows
<1>7. n \in DOMAIN issued' \ DOMAIN issued
  BY <1>1, <1>2
<1> QED
  BY <1>2, <1>4, <1>5, <1>6, <1>7 DEF Promise!Register, Spent, Grants

LEMMA TakeTicketRefines ==
  ASSUME IInv, NEW h \in Handlers, NEW t \in Presented, TakeTicket(h, t)
  PROVE  Promise!Spend
<1>1. t \in DOMAIN issued \ Spent
  BY DEF TakeTicket, IInv, PermissionCarried, Spent
<1>2. Spent' = Spent \cup {t}
  BY <1>1 DEF TakeTicket, Delete, Spent
<1>3. Grants' = Grants /\ issued' = issued
  BY DEF TakeTicket, Grants
<1> QED
  BY <1>1, <1>2, <1>3 DEF Promise!Spend, Spent, Grants

LEMMA StoreRPTRefines ==
  ASSUME IInv, NEW h \in Handlers, StoreRPT(h)
  PROVE  Promise!Grant
<1> PICK n \in Nat, t \in Nat : n = minted + 1 /\ t = taken[h].ticket
  BY NextIdIsNew DEF IInv, TypeOK
<1>1. n \notin DOMAIN rpts
  BY NextIdIsNew DEF IInv
<1>2. t \in DOMAIN issued /\ taken[h].perm = issued[t]
  BY DEF StoreRPT, IInv, PermissionCarried
<1>3. t \notin DOMAIN tickets /\ RPTsOf(t) = {}
  <2>1. h \in Redeemers(t)
    BY DEF StoreRPT, Redeemers
  <2> QED
    BY <1>2, <2>1 DEF IInv, TicketConserved
<1>4. /\ DOMAIN rpts' = DOMAIN rpts \cup {n} /\ rpts'[n] = issued[t]
      /\ \A q \in DOMAIN rpts : rpts'[q] = rpts[q]
  BY <1>1, <1>2 DEF StoreRPT, Put
<1>5. /\ origin'[n] = t
      /\ \A q \in DOMAIN rpts : origin'[q] = origin[q]
  BY <1>1 DEF StoreRPT, Put, IInv, TypeOK
<1>6. /\ DOMAIN Grants' = DOMAIN Grants \cup {n} /\ DOMAIN Grants = DOMAIN rpts
      /\ Grants'[n] = [ticket |-> t, perm |-> issued[t]]
      /\ \A q \in DOMAIN Grants : Grants'[q] = Grants[q]
  BY <1>4, <1>5 DEF Grants
<1>7. Promise!Grows(Grants, Grants', n)
  BY <1>6 DEF Promise!Grows
<1>8. \A q \in DOMAIN Grants : Grants[q].ticket # t
  BY <1>3 DEF Grants, RPTsOf, IInv, TypeOK
<1>9. t \in Spent /\ Spent' = Spent /\ issued' = issued
  BY <1>2, <1>3 DEF Spent, StoreRPT
<1>10. n \in DOMAIN Grants' \ DOMAIN Grants
  BY <1>1, <1>6
<1>11. /\ Grants'[n].ticket = t /\ Grants'[n].perm = issued[t]
  BY <1>6
<1>12. \E r \in DOMAIN Grants' \ DOMAIN Grants :
          /\ Promise!Grows(Grants, Grants', r)
          /\ Grants'[r].ticket \in Spent
          /\ \A q \in DOMAIN Grants : Grants[q].ticket # Grants'[r].ticket
          /\ Grants'[r].perm = issued[Grants'[r].ticket]
          /\ issued' = issued /\ Spent' = Spent
  BY <1>7, <1>8, <1>9, <1>10, <1>11
<1> QED
  BY <1>12, Zenon DEF Promise!Grant, Spent, Grants

LEMMA StepRefines == IInv /\ [Next]_vars => [Promise!Next]_(Promise!vars)
<1> SUFFICES ASSUME IInv, [Next]_vars PROVE Promise!Next \/ UNCHANGED Promise!vars
  OBVIOUS
<1> USE DEF Promise!Next
<1>1. UNCHANGED <<issued, tickets, rpts, origin>> => UNCHANGED Promise!vars
  BY DEF Promise!vars
<1>2. ASSUME NEW h \in Handlers,
             \/ \E p \in Perms : InvalidPermission(h, p)
             \/ \E id \in Presented : InvalidTicketOrToken(h, id)
             \/ CreateResourceSet(h)
             \/ \E t \in Presented : RefuseTicket(h, t)
             \/ \E r \in Presented : Introspect(h, r)
             \/ Done(h)
      PROVE  UNCHANGED Promise!vars
  BY <1>1, <1>2 DEF InvalidPermission, InvalidTicketOrToken, Invalid,
     CreateResourceSet, RefuseTicket, Introspect, Done
<1>3. CASE UNCHANGED vars
  BY <1>1, <1>3 DEF vars
<1>4. CASE Next
  BY <1>2, <1>4, PermissionRefines, TakeTicketRefines, StoreRPTRefines DEF Next
<1> QED
  BY <1>3, <1>4

(***************************************************************************)
(* The demo server implements the single-use ticket: every behaviour of    *)
(* its interleaved critical sections is one of TicketGrant                 *)
(* (examples/as-rs-demo/main.go:331-385).                                  *)
(***************************************************************************)
THEOREM Refinement == Spec => KeepsPromise
  BY InitRefines, StepRefines, Invariance, PTL DEF Spec, KeepsPromise, Promise!Spec
=============================================================================
