-------------------------- MODULE UMASystem_proofs --------------------------
(***************************************************************************)
(* Proofs about UMASystem, for any parties, routes, handlers and bounds.   *)
(***************************************************************************)
EXTENDS UMASystem, AuthorizationServer_proofs, FiniteSetTheorems

-----------------------------------------------------------------------------
(* The system uses the authorization server through its operations only.   *)

(* The party's calls are calls of Permission, Token and Introspect.        *)
LEMMA CallIsServerStep ==
  ASSUME SystemTypeOK, NEW p \in Parties, NEW h \in Handlers,
         CallIntrospect(p, h) \/ CallPermission(p, h) \/ CallToken(p, h)
  PROVE  Next
<1>1. rpt[p] \in 0 .. minted /\ ticket[p] \in 0 .. minted /\ goal[p] \in Routes
  BY DEF SystemTypeOK
<1>2. goal[p] \in Perms
  BY <1>1, SystemAssumption, Zenon
<1>3. rpt[p] \in Presented /\ ticket[p] \in Presented
  BY <1>1 DEF Presented
<1>4. CASE CallIntrospect(p, h)
  BY <1>3, <1>4 DEF CallIntrospect, Next
<1>5. CASE CallPermission(p, h)
  BY <1>2, <1>5 DEF CallPermission, Next
<1>6. CASE CallToken(p, h)
  BY <1>3, <1>6 DEF CallToken, Next
<1> QED
  BY <1>4, <1>5, <1>6

(* A step of a party, of the network or of the server is an operation of   *)
(* the authorization server or leaves it alone.                            *)
LEMMA StepIsServerStep ==
  ASSUME SystemTypeOK, [SystemNext]_systemVars
  PROVE  [Next]_vars
<1>1. ASSUME NEW p \in Parties, Get(p) \/ NextVisit(p) \/ LoseTicket(p)
      PROVE  UNCHANGED vars
  BY <1>1 DEF Get, NextVisit, LoseTicket
<1>2. ASSUME NEW p \in Parties, NEW h \in Handlers, LoseCall(p, h)
      PROVE  UNCHANGED vars
  BY <1>2 DEF LoseCall
<1>3. ASSUME NEW h \in Handlers, Finish(h) \/ Orphan(h) PROVE Next
  BY <1>3 DEF Finish, Orphan, Next
<1>4. ASSUME NEW p \in Parties, NEW h \in Handlers, Arrives(p, h) PROVE Next
  BY <1>4 DEF Arrives, Next
<1>5. ASSUME NEW p \in Parties, Step(p) PROVE [Next]_vars
  BY <1>1, <1>4, <1>5, CallIsServerStep
     DEF Step, Introspected, Registered, Redeemed, Refused
<1>6. CASE UNCHANGED systemVars
  BY <1>6 DEF systemVars
<1> QED
  BY <1>1, <1>2, <1>3, <1>5, <1>6 DEF SystemNext

-----------------------------------------------------------------------------
(* The inductive invariant.                                                *)

LEMMA InitSystemIInv == SystemInit => SystemIInv
<1> SUFFICES ASSUME SystemInit PROVE SystemIInv
  OBVIOUS
<1>1. minted = 0 /\ \A h \in Handlers : serving[h] = Nobody
  BY DEF SystemInit, Init
<1>2. SystemTypeOK
  <2>1. losses \in 0 .. MaxLosses
    <3>1. MaxLosses \in Nat
      BY SystemAssumption, Zenon
    <3> QED
      BY <3>1 DEF SystemInit
  <2>2. /\ \A p \in Parties : ticket[p] = 0 /\ stage[p] = "start"
        /\ ticket \in [Parties -> 0 .. minted] /\ rpt \in [Parties -> 0 .. minted]
    BY <1>1 DEF SystemInit
  <2>3. /\ stage \in [Parties -> {"start", "introspect", "register", "redeem", "served", "failed"}]
        /\ retrying \in [Parties -> BOOLEAN]
    BY DEF SystemInit
  <2>4. /\ goal \in [Parties -> Routes] /\ sent \in [Parties -> 0 .. 2]
        /\ visits \in [Parties -> Nat] /\ serving \in [Handlers -> Parties \cup {Nobody}]
    BY DEF SystemInit
  <2> QED
    BY <2>1, <2>2, <2>3, <2>4 DEF SystemTypeOK
<1>3. OneCallEach /\ AnswerFits
  BY <1>1 DEF OneCallEach, AnswerFits, Waiting
<1>4. ServedByToken
  BY DEF SystemInit, ServedByToken
<1> QED
  BY <1>2, <1>3, <1>4 DEF SystemIInv

(* What every server step leaves of the tokens and identifiers.            *)
LEMMA ServerGrows ==
  ASSUME IInv, [Next]_vars
  PROVE  /\ minted' \in Nat /\ minted <= minted'
         /\ \A r \in DOMAIN rpts : r \in DOMAIN rpts' /\ rpts'[r] = rpts[r]
<1> USE DEF IInv
<1>1. minted \in Nat /\ minted + 1 \notin DOMAIN rpts
  BY NextIdIsNew DEF TypeOK
<1>2. ASSUME NEW h \in Handlers, StoreRPT(h)
      PROVE  minted' = minted + 1 /\ rpts' = Put(rpts, minted + 1, taken[h].perm)
  BY <1>2 DEF StoreRPT
<1>3. ASSUME NEW h \in Handlers, StoreRPT(h)
      PROVE  \A r \in DOMAIN rpts : r \in DOMAIN rpts' /\ rpts'[r] = rpts[r]
  BY <1>1, <1>2, <1>3 DEF Put
<1>4. ASSUME ~\E h \in Handlers : StoreRPT(h)
      PROVE  rpts' = rpts /\ minted' \in {minted, minted + 1}
  BY <1>4 DEF Next, vars, InvalidPermission, InvalidTicketOrToken, Invalid, CreateResourceSet,
     Permission, TakeTicket, RefuseTicket, Introspect, Done
<1> QED
  BY <1>1, <1>2, <1>3, <1>4

(* What a handler says of the party that waits for it.                     *)
LEMMA FitsNow ==
  ASSUME SystemIInv, NEW h \in Handlers, NEW p \in Parties, serving[h] = p
  PROVE  Fits(h, p)
  BY SystemAssumption, Zenon DEF SystemIInv, AnswerFits, Waiting

(* A handler whose caller and whose own state a step leaves alone fits     *)
(* after it as before.                                                     *)
LEMMA OthersFit ==
  ASSUME SystemIInv, NEW g \in Handlers, NEW q \in Parties, serving[g] = q,
         taken'[g] = taken[g], reply'[g] = reply[g],
         stage'[q] = stage[q], rpt'[q] = rpt[q], sent'[q] = sent[q],
         minted \in Nat, minted' \in Nat, minted <= minted'
  PROVE  Fits(g, q)'
<1>1. Fits(g, q)
  BY FitsNow
<1>2. Ids \subseteq Ids'
  BY DEF Ids
<1> QED
  BY <1>1, <1>2 DEF Fits, Ready

(* A step of party p keeps AnswerFits if it leaves the other parties and   *)
(* the handlers they wait for alone.                                       *)
LEMMA FitsAfter ==
  ASSUME SystemIInv, NEW p \in Parties,
         minted \in Nat, minted' \in Nat, minted <= minted',
         \A q \in Parties \ {p} :
           stage'[q] = stage[q] /\ rpt'[q] = rpt[q] /\ sent'[q] = sent[q],
         \A g \in Handlers : serving'[g] # Nobody =>
           \/ serving'[g] = p /\ Fits(g, p)'
           \/ /\ serving'[g] = serving[g] /\ serving[g] # p
              /\ taken'[g] = taken[g] /\ reply'[g] = reply[g]
  PROVE  AnswerFits'
<1>1. ASSUME NEW g \in Handlers, NEW r, serving'[g] = r, r # Nobody
      PROVE  Fits(g, r)'
  <2>1. CASE r = p /\ Fits(g, p)'
    BY <2>1
  <2>2. CASE /\ r = serving[g] /\ serving[g] # p
             /\ taken'[g] = taken[g] /\ reply'[g] = reply[g]
    <3>1. PICK q \in Parties : serving[g] = q /\ q # p
      BY <1>1, <2>2 DEF SystemIInv, SystemTypeOK
    <3>2. Fits(g, q)'
      BY <2>2, <3>1, OthersFit
    <3> QED
      BY <2>2, <3>1, <3>2
  <2> QED
    BY <1>1, <2>1, <2>2
<1> QED
  BY <1>1, Zenon DEF AnswerFits, Waiting

(* A served party stays justified while neither its token nor its goal     *)
(* changes: the server forgets no token.                                   *)
LEMMA StillServed ==
  ASSUME IInv, SystemIInv, [Next]_vars, NEW p \in Parties,
         stage[p] = "served", rpt'[p] = rpt[p], goal'[p] = goal[p]
  PROVE  /\ rpt'[p] \in DOMAIN rpts'
         /\ rpts'[rpt'[p]].resource = goal'[p].resource
         /\ goal'[p].scopes \subseteq rpts'[rpt'[p]].scopes
<1>1. rpt[p] \in DOMAIN rpts' /\ rpts'[rpt[p]] = rpts[rpt[p]]
  BY ServerGrows DEF SystemIInv, ServedByToken
<1> QED
  BY <1>1 DEF SystemIInv, ServedByToken

(***************************************************************************)
(* Steps that leave the server alone.                                      *)
(***************************************************************************)
LEMMA GetSystemIInv ==
  ASSUME IInv, SystemIInv, NEW p \in Parties, Get(p)
  PROVE  SystemIInv'
<1> USE DEF SystemIInv
<1>1. /\ vars' = vars
      /\ UNCHANGED <<goal, retrying, ticket, sent, rpt, visits, serving, losses>>
      /\ stage' = [stage EXCEPT ![p] = IF rpt[p] = 0 THEN "register" ELSE "introspect"]
      /\ stage[p] = "start"
  BY DEF Get, Goto
<1>2. minted' = minted /\ taken' = taken /\ reply' = reply /\ rpts' = rpts
  BY <1>1 DEF vars
<1>3. SystemTypeOK'
  BY <1>1, <1>2 DEF SystemTypeOK
<1>4. OneCallEach'
  BY <1>1 DEF OneCallEach, Waiting
<1>5. \A h \in Handlers : serving[h] = p => Fits(h, p)'
  BY <1>1, <1>2, FitsNow DEF Fits, Ready, SystemTypeOK
<1>6. AnswerFits'
  <2>1. minted \in Nat
    BY DEF IInv, TypeOK
  <2>2. \A q \in Parties \ {p} : stage'[q] = stage[q]
    BY <1>1 DEF SystemTypeOK
  <2> QED
    BY <1>1, <1>2, <1>5, <2>1, <2>2, FitsAfter
<1>7. ServedByToken'
  BY <1>1, <1>2 DEF ServedByToken, SystemTypeOK
<1> QED
  BY <1>3, <1>4, <1>6, <1>7

LEMMA NextVisitSystemIInv ==
  ASSUME IInv, SystemIInv, NEW p \in Parties, NextVisit(p)
  PROVE  SystemIInv'
<1> USE DEF SystemIInv
<1>1. PICK r \in Routes :
        /\ vars' = vars /\ UNCHANGED <<ticket, sent, rpt, serving, losses>>
        /\ stage' = [stage EXCEPT ![p] = "start"] /\ stage[p] \in {"served", "failed"}
        /\ visits' = [visits EXCEPT ![p] = @ + 1] /\ goal' = [goal EXCEPT ![p] = r]
        /\ retrying' = [retrying EXCEPT ![p] = FALSE]
  BY DEF NextVisit, Goto
<1>2. minted' = minted /\ taken' = taken /\ reply' = reply /\ rpts' = rpts
  BY <1>1 DEF vars
<1>3. SystemTypeOK'
  BY <1>1, <1>2 DEF SystemTypeOK
<1>4. OneCallEach'
  BY <1>1 DEF OneCallEach, Waiting
<1>5. \A h \in Handlers : serving[h] = p => Fits(h, p)'
  BY <1>1, <1>2, FitsNow DEF Fits, Ready, SystemTypeOK
<1>6. AnswerFits'
  <2>1. minted \in Nat
    BY DEF IInv, TypeOK
  <2>2. \A q \in Parties \ {p} : stage'[q] = stage[q]
    BY <1>1 DEF SystemTypeOK
  <2> QED
    BY <1>1, <1>2, <1>5, <2>1, <2>2, FitsAfter
<1>7. ServedByToken'
  BY <1>1, <1>2 DEF ServedByToken, SystemTypeOK
<1> QED
  BY <1>3, <1>4, <1>6, <1>7

(* The two ways a failed call leaves its caller, whoever else is waiting.  *)
LEMMA FailureSystemIInv ==
  ASSUME IInv, SystemIInv, NEW p \in Parties, Fails, GiveUp(p) \/ Resend(p),
         UNCHANGED <<vars, goal, retrying, rpt, visits>>,
         serving' \in [Handlers -> Parties \cup {Nobody}],
         \A h \in Handlers : serving'[h] \in {serving[h], Nobody} /\ serving'[h] # p
  PROVE  SystemIInv'
<1> USE DEF SystemIInv
<1>1. minted' = minted /\ taken' = taken /\ reply' = reply /\ rpts' = rpts
  BY DEF vars
<1>2. \/ stage' = stage /\ ticket' = ticket /\ sent' = sent
      \/ /\ stage' = [stage EXCEPT ![p] = "failed"]
         /\ ticket' = [ticket EXCEPT ![p] = 0] /\ sent' = [sent EXCEPT ![p] = 0]
  BY DEF GiveUp, Resend, Goto, Hold
<1>3. losses' \in 0 .. MaxLosses
  <2>1. MaxLosses \in Nat
    BY SystemAssumption, Zenon
  <2> QED
    BY <2>1 DEF Fails, SystemTypeOK
<1>4. SystemTypeOK'
  <2>1. minted \in Nat
    BY DEF IInv, TypeOK
  <2> QED
    BY <1>1, <1>2, <1>3, <2>1 DEF SystemTypeOK
<1>5. OneCallEach'
  BY DEF OneCallEach, Waiting
<1>6. AnswerFits'
  <2>1. minted \in Nat
    BY DEF IInv, TypeOK
  <2>2. \A q \in Parties \ {p} : stage'[q] = stage[q] /\ sent'[q] = sent[q]
    BY <1>2 DEF SystemTypeOK
  <2> QED
    BY <1>1, <2>1, <2>2, FitsAfter
<1>7. ServedByToken'
  BY <1>1, <1>2 DEF ServedByToken, SystemTypeOK
<1> QED
  BY <1>4, <1>5, <1>6, <1>7

LEMMA LoseCallSystemIInv ==
  ASSUME IInv, SystemIInv, NEW p \in Parties, NEW h \in Handlers, LoseCall(p, h)
  PROVE  SystemIInv'
<1>1. serving[h] = p /\ serving' = [serving EXCEPT ![h] = Nobody]
  BY DEF LoseCall
<1>2. p # Nobody /\ serving \in [Handlers -> Parties \cup {Nobody}]
  BY SystemAssumption DEF SystemIInv, SystemTypeOK
<1>3. \A g \in Handlers : serving[g] = p => g = h
  BY <1>1, <1>2 DEF SystemIInv, OneCallEach, Waiting
<1>4. /\ serving' \in [Handlers -> Parties \cup {Nobody}]
      /\ \A g \in Handlers : serving'[g] \in {serving[g], Nobody} /\ serving'[g] # p
  BY <1>1, <1>2, <1>3
<1> QED
  BY <1>4, FailureSystemIInv DEF LoseCall

LEMMA LoseTicketSystemIInv ==
  ASSUME IInv, SystemIInv, NEW p \in Parties, LoseTicket(p)
  PROVE  SystemIInv'
<1>1. \A g \in Handlers : serving[g] # p
  BY FitsNow DEF LoseTicket, Fits
<1>2. /\ serving' \in [Handlers -> Parties \cup {Nobody}]
      /\ \A g \in Handlers : serving'[g] \in {serving[g], Nobody} /\ serving'[g] # p
  BY <1>1 DEF LoseTicket, SystemIInv, SystemTypeOK
<1> QED
  BY <1>2, FailureSystemIInv DEF LoseTicket

(***************************************************************************)
(* A call reaches the server.                                              *)
(***************************************************************************)

(* A handler's own answer is the only one that a step of it changes.       *)
LEMMA AnswerIsItsOwn ==
  ASSUME TypeOK, NEW h \in Handlers, NEW r, Answer(h, r)
  PROVE  reply'[h] = r /\ \A g \in Handlers \ {h} : reply'[g] = reply[g]
  BY DEF TypeOK, Answer

LEMMA CallSystemIInv ==
  ASSUME IInv, SystemIInv, [Next]_vars, NEW p \in Parties, NEW h \in Handlers,
         Reaches(p, h), Fits(h, p)', stage[p] # "served",
         \A g \in Handlers \ {h} : taken'[g] = taken[g] /\ reply'[g] = reply[g],
         sent' \in [Parties -> 0 .. 2], \A q \in Parties \ {p} : sent'[q] = sent[q]
  PROVE  SystemIInv'
<1>1. /\ minted \in Nat /\ minted' \in Nat /\ minted <= minted'
  BY ServerGrows DEF IInv, TypeOK
<1>2. /\ serving' = [serving EXCEPT ![h] = p]
      /\ \A g \in Handlers : serving[g] # p
      /\ UNCHANGED <<stage, goal, retrying, ticket, rpt, visits, losses>>
  BY DEF Reaches
<1>3. SystemTypeOK'
  BY <1>1, <1>2 DEF SystemIInv, SystemTypeOK
<1>4. \A g \in Handlers : serving'[g] = IF g = h THEN p ELSE serving[g]
  BY <1>2 DEF SystemIInv, SystemTypeOK
<1>5. OneCallEach'
  BY <1>2, <1>4 DEF SystemIInv, OneCallEach, Waiting
<1>6. AnswerFits'
  BY <1>1, <1>2, <1>4, FitsAfter
<1>7. ServedByToken'
  BY <1>2, StillServed DEF ServedByToken
<1> QED
  BY <1>3, <1>5, <1>6, <1>7 DEF SystemIInv

LEMMA CallIntrospectSystemIInv ==
  ASSUME IInv, SystemIInv, [Next]_vars, NEW p \in Parties, NEW h \in Handlers,
         CallIntrospect(p, h)
  PROVE  SystemIInv'
<1>1. PICK r : /\ r.kind \in {"active", "inactive"} /\ r.of = rpt[p]
               /\ Answer(h, r)
  BY DEF CallIntrospect, Introspect, Reply
<1>2. /\ stage[p] = "introspect" /\ Reaches(p, h) /\ sent' = sent
      /\ Ready(h) /\ taken' = taken
  BY DEF CallIntrospect, Introspect, Idle
<1>3. reply'[h] = r /\ \A g \in Handlers \ {h} : reply'[g] = reply[g]
  BY <1>1, AnswerIsItsOwn DEF IInv
<1>4. Fits(h, p)'
  BY <1>1, <1>2, <1>3 DEF Fits, Ready, Reaches
<1>5. sent' \in [Parties -> 0 .. 2] /\ stage[p] # "served"
  BY <1>2 DEF SystemIInv, SystemTypeOK
<1> QED
  BY <1>2, <1>3, <1>4, <1>5, CallSystemIInv

LEMMA CallPermissionSystemIInv ==
  ASSUME IInv, SystemIInv, [Next]_vars, NEW p \in Parties, NEW h \in Handlers,
         CallPermission(p, h)
  PROVE  SystemIInv'
<1>1. PICK r : r.kind = "ticket" /\ r.id = minted + 1 /\ Answer(h, r)
  BY DEF CallPermission, Permission, Reply
<1>2. /\ stage[p] = "register" /\ Reaches(p, h) /\ sent' = sent
      /\ Ready(h) /\ taken' = taken /\ minted' = minted + 1
  BY DEF CallPermission, Permission, Idle
<1>3. reply'[h] = r /\ \A g \in Handlers \ {h} : reply'[g] = reply[g]
  BY <1>1, AnswerIsItsOwn DEF IInv
<1>4. Fits(h, p)'
  <2>1. r.id \in 1 .. minted'
    BY <1>1, <1>2 DEF IInv, TypeOK
  <2> QED
    BY <1>1, <1>2, <1>3, <2>1 DEF Fits, Ready, Reaches, Ids
<1>5. sent' \in [Parties -> 0 .. 2] /\ stage[p] # "served"
  BY <1>2 DEF SystemIInv, SystemTypeOK
<1> QED
  BY <1>2, <1>3, <1>4, <1>5, CallSystemIInv

LEMMA CallTokenSystemIInv ==
  ASSUME IInv, SystemIInv, [Next]_vars, NEW p \in Parties, NEW h \in Handlers,
         CallToken(p, h)
  PROVE  SystemIInv'
<1>1. PICK r : (r = NoReply \/ r.kind = "invalid_grant") /\ Answer(h, r)
  BY DEF CallToken, TakeTicket, RefuseTicket, Reply
<1>2. /\ stage[p] = "redeem" /\ Reaches(p, h) /\ sent' = [sent EXCEPT ![p] = IF @ = 0 THEN 1 ELSE 2]
  BY DEF CallToken
<1>3. reply'[h] = r /\ \A g \in Handlers \ {h} : reply'[g] = reply[g]
  BY <1>1, AnswerIsItsOwn DEF IInv
<1>4. \A g \in Handlers \ {h} : taken'[g] = taken[g]
  BY DEF CallToken, TakeTicket, RefuseTicket, IInv, TypeOK
<1>5. /\ sent' \in [Parties -> 0 .. 2] /\ sent'[p] > 0 /\ stage[p] # "served"
      /\ \A q \in Parties \ {p} : sent'[q] = sent[q]
  BY <1>2 DEF SystemIInv, SystemTypeOK
<1>6. Fits(h, p)'
  BY <1>1, <1>2, <1>3, <1>5 DEF Fits, Reaches
<1> QED
  BY <1>2, <1>3, <1>4, <1>5, <1>6, CallSystemIInv

(***************************************************************************)
(* An answer arrives.                                                      *)
(***************************************************************************)
LEMMA Arrival ==
  ASSUME IInv, SystemIInv, NEW p \in Parties, NEW h \in Handlers, Arrives(p, h),
         \A q \in Parties \ {p} :
           stage'[q] = stage[q] /\ rpt'[q] = rpt[q] /\ sent'[q] = sent[q]
  PROVE  /\ serving' \in [Handlers -> Parties \cup {Nobody}]
         /\ minted' = minted /\ minted \in Nat /\ rpts' = rpts
         /\ Fits(h, p) /\ reply[h] # NoReply
         /\ OneCallEach' /\ AnswerFits'
<1>1. /\ serving[h] = p /\ serving' = [serving EXCEPT ![h] = Nobody]
      /\ Answer(h, NoReply) /\ reply[h] # NoReply
      /\ minted' = minted /\ taken' = taken /\ rpts' = rpts
  BY DEF Arrives, Done
<1>2. serving \in [Handlers -> Parties \cup {Nobody}] /\ minted \in Nat
  BY DEF SystemIInv, SystemTypeOK, IInv, TypeOK
<1>3. p # Nobody
  BY SystemAssumption, Zenon
<1>4. \A g \in Handlers : serving[g] = p => g = h
  BY <1>1, <1>3 DEF SystemIInv, OneCallEach, Waiting
<1>5. \A g \in Handlers : serving'[g] = IF g = h THEN Nobody ELSE serving[g]
  BY <1>1, <1>2
<1>6. OneCallEach'
  BY <1>5 DEF SystemIInv, OneCallEach, Waiting
<1>7. \A g \in Handlers \ {h} : reply'[g] = reply[g]
  BY <1>1, AnswerIsItsOwn DEF IInv
<1>8. AnswerFits'
  BY <1>1, <1>2, <1>4, <1>5, <1>7, FitsAfter
<1> QED
  BY <1>1, <1>2, <1>6, <1>8, FitsNow

LEMMA IntrospectedSystemIInv ==
  ASSUME IInv, SystemIInv, NEW p \in Parties, NEW h \in Handlers, Introspected(p, h)
  PROVE  SystemIInv'
<1>1. /\ stage[p] = "introspect" /\ Arrives(p, h)
      /\ stage' = [stage EXCEPT ![p] = IF Allowed(p, h) THEN "served" ELSE "register"]
      /\ UNCHANGED <<retrying, ticket, sent, rpt, goal, visits, losses>>
  BY DEF Introspected, Goto, Arrives
<1>2. \A q \in Parties \ {p} : stage'[q] = stage[q]
  BY <1>1 DEF SystemIInv, SystemTypeOK
<1>3. /\ serving' \in [Handlers -> Parties \cup {Nobody}]
      /\ minted' = minted /\ minted \in Nat /\ rpts' = rpts
      /\ Fits(h, p) /\ reply[h] # NoReply
      /\ OneCallEach' /\ AnswerFits'
  BY <1>1, <1>2, Arrival
<1>4. SystemTypeOK'
  BY <1>1, <1>3 DEF SystemIInv, SystemTypeOK
<1>5. ASSUME Allowed(p, h)
      PROVE  /\ rpt[p] \in DOMAIN rpts /\ rpts[rpt[p]].resource = goal[p].resource
             /\ goal[p].scopes \subseteq rpts[rpt[p]].scopes
  <2>1. reply[h].kind = "active" /\ Covers(reply[h].perm, goal[p])
    BY <1>5 DEF Allowed
  <2>2. reply[h].of = rpt[p]
    BY <1>1, <1>3 DEF Fits
  <2>3. rpt[p] \in DOMAIN rpts /\ rpts[rpt[p]] = reply[h].perm
    BY <2>1, <2>2 DEF IInv, AnsweredIsKnown
  <2> QED
    BY <2>1, <2>3 DEF Covers
<1>6. ServedByToken'
  BY <1>1, <1>2, <1>3, <1>5 DEF SystemIInv, ServedByToken, SystemTypeOK
<1> QED
  BY <1>3, <1>4, <1>6 DEF SystemIInv

LEMMA RegisteredSystemIInv ==
  ASSUME IInv, SystemIInv, NEW p \in Parties, NEW h \in Handlers, Registered(p, h)
  PROVE  SystemIInv'
<1>1. /\ stage[p] = "register" /\ Arrives(p, h)
      /\ stage' = [stage EXCEPT ![p] = IF retrying[p] THEN "failed" ELSE "redeem"]
      /\ ticket' = [ticket EXCEPT ![p] = IF retrying[p] THEN 0 ELSE reply[h].id]
      /\ sent' = [sent EXCEPT ![p] = 0]
      /\ UNCHANGED <<retrying, rpt, goal, visits, losses>>
  BY DEF Registered, Goto, Hold, Arrives
<1>2. \A q \in Parties \ {p} : stage'[q] = stage[q] /\ sent'[q] = sent[q]
  BY <1>1 DEF SystemIInv, SystemTypeOK
<1>3. /\ serving' \in [Handlers -> Parties \cup {Nobody}]
      /\ minted' = minted /\ minted \in Nat /\ rpts' = rpts
      /\ Fits(h, p) /\ reply[h] # NoReply
      /\ OneCallEach' /\ AnswerFits'
  BY <1>1, <1>2, Arrival
<1>4. reply[h].id \in 1 .. minted
  BY <1>1, <1>3 DEF Fits, Ids
<1>5. SystemTypeOK'
  BY <1>1, <1>3, <1>4 DEF SystemIInv, SystemTypeOK
<1>6. ServedByToken'
  BY <1>1, <1>2, <1>3 DEF SystemIInv, ServedByToken, SystemTypeOK
<1> QED
  BY <1>3, <1>5, <1>6 DEF SystemIInv

(* The answer to a redemption, a token or a refusal.                       *)
LEMMA RedemptionSystemIInv ==
  ASSUME IInv, SystemIInv, NEW p \in Parties, NEW h \in Handlers,
         Redeemed(p, h) \/ Refused(p, h)
  PROVE  SystemIInv'
<1>1. /\ stage[p] = "redeem" /\ Arrives(p, h)
      /\ stage' = [stage EXCEPT ![p] = "start"] \/ stage' = [stage EXCEPT ![p] = "failed"]
      /\ ticket' = [ticket EXCEPT ![p] = 0]
      /\ sent' = [sent EXCEPT ![p] = 0]
      /\ retrying' = [retrying EXCEPT ![p] = TRUE] \/ retrying' = retrying
      /\ UNCHANGED <<goal, visits, losses>>
  BY DEF Redeemed, Refused, Goto, Hold, Arrives
<1>2. /\ rpt' \in [Parties -> 0 .. minted]
      /\ \A q \in Parties \ {p} : rpt'[q] = rpt[q]
  <2>1. CASE Refused(p, h)
    BY <2>1 DEF Refused, SystemIInv, SystemTypeOK
  <2>2. CASE Redeemed(p, h)
    <3>1. reply[h].id \in 1 .. minted
      BY <2>2 DEF Redeemed, IInv, AnsweredIsKnown, TypeOK, Ids
    <3>2. rpt' = [rpt EXCEPT ![p] = reply[h].id] /\ rpt \in [Parties -> 0 .. minted]
      BY <2>2 DEF Redeemed, SystemIInv, SystemTypeOK
    <3> QED
      BY <3>1, <3>2
  <2> QED
    BY <2>1, <2>2
<1>3. \A q \in Parties \ {p} : stage'[q] = stage[q] /\ sent'[q] = sent[q]
  BY <1>1 DEF SystemIInv, SystemTypeOK
<1>4. /\ serving' \in [Handlers -> Parties \cup {Nobody}]
      /\ minted' = minted /\ minted \in Nat /\ rpts' = rpts
      /\ OneCallEach' /\ AnswerFits'
  BY <1>1, <1>2, <1>3, Arrival
<1>5. SystemTypeOK'
  <2>1. ticket' \in [Parties -> 0 .. minted]
    BY <1>1, <1>4 DEF SystemIInv, SystemTypeOK
  <2>2. \A q \in Parties : ticket'[q] # 0 <=> stage'[q] = "redeem"
    BY <1>1 DEF SystemIInv, SystemTypeOK
  <2>3. stage' \in [Parties -> {"start", "introspect", "register", "redeem", "served", "failed"}]
    BY <1>1 DEF SystemIInv, SystemTypeOK
  <2>4. retrying' \in [Parties -> BOOLEAN]
    BY <1>1, Zenon DEF SystemIInv, SystemTypeOK
  <2>5. sent' \in [Parties -> 0 .. 2]
    BY <1>1 DEF SystemIInv, SystemTypeOK
  <2> QED
    BY <1>1, <1>2, <1>4, <2>1, <2>2, <2>3, <2>4, <2>5 DEF SystemIInv, SystemTypeOK
<1>6. ServedByToken'
  BY <1>1, <1>2, <1>3, <1>4 DEF SystemIInv, ServedByToken, SystemTypeOK
<1> QED
  BY <1>4, <1>5, <1>6 DEF SystemIInv

(***************************************************************************)
(* The server's own steps.                                                 *)
(***************************************************************************)
LEMMA ServerSystemIInv ==
  ASSUME IInv, SystemIInv, [Next]_vars, NEW h \in Handlers, Finish(h) \/ Orphan(h)
  PROVE  SystemIInv'
<1>1. UNCHANGED <<stage, goal, retrying, ticket, sent, rpt, visits, serving, losses>>
  BY DEF Finish, Orphan, parties
<1>2. /\ minted \in Nat /\ minted' \in Nat /\ minted <= minted'
  BY ServerGrows DEF IInv, TypeOK
<1>3. SystemTypeOK'
  BY <1>1, <1>2 DEF SystemIInv, SystemTypeOK
<1>4. OneCallEach'
  BY <1>1 DEF SystemIInv, OneCallEach, Waiting
<1>5. \A g \in Handlers \ {h} : taken'[g] = taken[g] /\ reply'[g] = reply[g]
  BY AnswerIsItsOwn DEF Finish, Orphan, StoreRPT, Done, IInv, TypeOK
<1>6. ASSUME NEW p \in Parties, serving[h] = p PROVE Fits(h, p)'
  <2>1. StoreRPT(h)
    BY <1>6, SystemAssumption DEF Finish, Orphan
  <2>2. Fits(h, p) /\ ~Ready(h)
    BY <1>6, <2>1, FitsNow DEF StoreRPT
  <2>3. taken'[h] = NotTaken
    BY <2>1 DEF StoreRPT, IInv, TypeOK
  <2>4. PICK r : r.kind = "rpt" /\ reply'[h] = r
    BY <2>1, AnswerIsItsOwn DEF StoreRPT, Reply, IInv
  <2> QED
    BY <1>1, <2>2, <2>3, <2>4 DEF Fits, Ready
<1>7. ASSUME NEW g \in Handlers, NEW p \in Parties, serving[g] = p PROVE Fits(g, p)'
  BY <1>1, <1>2, <1>5, <1>6, <1>7, OthersFit
<1>8. AnswerFits'
  <2>1. ASSUME NEW g \in Handlers, NEW r, serving'[g] = r, r # Nobody PROVE Fits(g, r)'
    <3>1. r \in Parties /\ serving[g] = r
      BY <1>1, <2>1 DEF SystemIInv, SystemTypeOK
    <3> QED
      BY <1>7, <3>1
  <2> QED
    BY <2>1, Zenon DEF AnswerFits, Waiting
<1>9. ServedByToken'
  BY <1>1, StillServed DEF ServedByToken
<1> QED
  BY <1>3, <1>4, <1>8, <1>9 DEF SystemIInv

LEMMA NextSystemIInv == IInv /\ SystemIInv /\ [SystemNext]_systemVars => SystemIInv'
<1> SUFFICES ASSUME IInv, SystemIInv, [SystemNext]_systemVars PROVE SystemIInv'
  OBVIOUS
<1>1. [Next]_vars
  BY StepIsServerStep DEF SystemIInv
<1>2. ASSUME NEW p \in Parties, Step(p) PROVE SystemIInv'
  BY <1>1, <1>2, GetSystemIInv, CallIntrospectSystemIInv, CallPermissionSystemIInv,
     CallTokenSystemIInv, IntrospectedSystemIInv, RegisteredSystemIInv,
     RedemptionSystemIInv DEF Step
<1>3. CASE UNCHANGED systemVars
  <2>1. /\ minted' = minted /\ taken' = taken /\ reply' = reply /\ rpts' = rpts
        /\ UNCHANGED <<stage, goal, retrying, ticket, sent, rpt, visits, serving, losses>>
    BY <1>3 DEF systemVars, vars, parties
  <2> QED
    BY <2>1 DEF SystemIInv, SystemTypeOK, OneCallEach, AnswerFits, Fits, Ready, Ids,
       Waiting, ServedByToken
<1> QED
  BY <1>1, <1>2, <1>3, NextVisitSystemIInv, LoseTicketSystemIInv, LoseCallSystemIInv,
     ServerSystemIInv DEF SystemNext

-----------------------------------------------------------------------------
(***************************************************************************)
(* Tickets under way.  Nobody but the party that a ticket was handed to    *)
(* can redeem it, so it is live until that party has sent it; and a party  *)
(* that has sent it waits for the answer unless a call has failed.         *)
(***************************************************************************)
Challenging(h) == Waiting(h) /\ reply[h].kind = "ticket"

UnsentIsLive ==
  /\ \A p \in Parties : stage[p] = "redeem" /\ sent[p] = 0 => ticket[p] \in DOMAIN tickets
  /\ \A h \in Handlers : Challenging(h) => reply[h].id \in DOMAIN tickets

OneOwner ==
  /\ \A p, q \in Parties : p # q /\ ticket[p] # 0 => ticket[p] # ticket[q]
  /\ \A h \in Handlers, q \in Parties : Challenging(h) => ticket[q] # reply[h].id
  /\ \A g, h \in Handlers :
       g # h /\ Challenging(g) /\ Challenging(h) => reply[g].id # reply[h].id

Unanswered(p) == \A h \in Handlers : serving[h] # p

SentIsAnswered ==
  \A p \in Parties :
    stage[p] = "redeem" /\ (sent[p] > 1 \/ (sent[p] > 0 /\ Unanswered(p))) => losses > 0

TicketInv == UnsentIsLive /\ OneOwner /\ SentIsAnswered /\ RefusedOnlyAfterResend

LEMMA InitTicketInv == SystemInit => TicketInv
<1> SUFFICES ASSUME SystemInit PROVE TicketInv
  OBVIOUS
<1>1. /\ \A h \in Handlers : ~Waiting(h)
      /\ \A p \in Parties : stage[p] = "start" /\ ticket[p] = 0
  BY DEF SystemInit, Waiting
<1> QED
  BY <1>1 DEF TicketInv, UnsentIsLive, OneOwner, SentIsAnswered, RefusedOnlyAfterResend,
     Challenging

(***************************************************************************)
(* A step that mints, hands over and sends no ticket: a challenge or a     *)
(* refusal still under way is an old one, a ticket still held is the same, *)
(* and who no longer has an answer coming has lost it.                     *)
(***************************************************************************)
LEMMA NoTicketMoves ==
  ASSUME SystemIInv, TicketInv, tickets' = tickets,
         losses' \in Nat, losses' >= losses,
         serving' \in [Handlers -> Parties \cup {Nobody}],
         \A g \in Handlers :
           serving'[g] # Nobody /\ reply'[g].kind \in {"ticket", "invalid_grant"} =>
             /\ serving'[g] = serving[g] /\ reply'[g] = reply[g]
             /\ sent'[serving[g]] = sent[serving[g]],
         \A q \in Parties : ticket'[q] \in {ticket[q], 0},
         \A q \in Parties : stage'[q] = "redeem" =>
           /\ stage[q] = "redeem" /\ ticket'[q] = ticket[q] /\ sent'[q] = sent[q]
           /\ losses' > 0 \/ (Unanswered(q)' => Unanswered(q))
  PROVE  TicketInv'
<1>1. losses \in Nat
  <2>1. MaxLosses \in Nat
    BY SystemAssumption, Zenon
  <2> QED
    BY <2>1 DEF SystemIInv, SystemTypeOK
<1>2. \A g \in Handlers : Challenging(g)' => Challenging(g) /\ reply'[g] = reply[g]
  BY DEF Challenging, Waiting
<1>3. UnsentIsLive'
  BY <1>2 DEF TicketInv, UnsentIsLive
<1>4. OneOwner'
  <2>1. \A g \in Handlers : Challenging(g) => reply[g].id # 0
    BY DEF Challenging, Waiting, Ids, SystemIInv, SystemTypeOK, AnswerFits, Fits, NoReply, Reply
  <2>2. \A p, q \in Parties : p # q /\ ticket'[p] # 0 => ticket'[p] # ticket'[q]
    BY DEF TicketInv, OneOwner
  <2>3. \A h \in Handlers, q \in Parties : Challenging(h)' => ticket'[q] # reply'[h].id
    BY <1>2, <2>1 DEF TicketInv, OneOwner
  <2>4. \A g, h \in Handlers :
          g # h /\ Challenging(g)' /\ Challenging(h)' => reply'[g].id # reply'[h].id
    BY <1>2 DEF TicketInv, OneOwner
  <2> QED
    BY <2>2, <2>3, <2>4 DEF OneOwner
<1>5. SentIsAnswered'
  BY <1>1 DEF TicketInv, SentIsAnswered
<1>6. RefusedOnlyAfterResend'
  BY <1>1 DEF TicketInv, RefusedOnlyAfterResend, Waiting
<1> QED
  BY <1>3, <1>4, <1>5, <1>6 DEF TicketInv

(* The bound on failures is a number, and so is their count.               *)
LEMMA LossesAreCounted ==
  ASSUME SystemTypeOK
  PROVE  losses \in Nat /\ (Fails => losses' \in Nat /\ losses' > 0 /\ losses' >= losses)
<1>1. MaxLosses \in Nat
  BY SystemAssumption, Zenon
<1> QED
  BY <1>1 DEF SystemTypeOK, Fails

LEMMA VisitTicketInv ==
  ASSUME SystemIInv, TicketInv, NEW p \in Parties, Get(p) \/ NextVisit(p)
  PROVE  TicketInv'
<1>1. /\ tickets' = tickets /\ reply' = reply
      /\ UNCHANGED <<ticket, sent, serving, losses>>
      /\ stage' \in {[stage EXCEPT ![p] = "register"], [stage EXCEPT ![p] = "introspect"],
                     [stage EXCEPT ![p] = "start"]}
  BY DEF Get, NextVisit, Goto, vars
<1>2. losses \in Nat /\ serving \in [Handlers -> Parties \cup {Nobody}]
  BY LossesAreCounted DEF SystemIInv, SystemTypeOK
<1>3. \A q \in Parties : stage'[q] = "redeem" => stage[q] = "redeem"
  BY <1>1 DEF SystemIInv, SystemTypeOK
<1>4. \A q \in Parties : Unanswered(q)' => Unanswered(q)
  BY <1>1 DEF Unanswered
<1>5. \A g \in Handlers :
        serving'[g] # Nobody /\ reply'[g].kind \in {"ticket", "invalid_grant"} =>
          /\ serving'[g] = serving[g] /\ reply'[g] = reply[g]
          /\ sent'[serving[g]] = sent[serving[g]]
  BY <1>1
<1>6. losses' \in Nat /\ losses' >= losses
  BY <1>1, <1>2
<1> QED
  BY <1>1, <1>2, <1>3, <1>4, <1>5, <1>6, NoTicketMoves

(* A call fails: nobody waits for it any more.                             *)
LEMMA FailureTicketInv ==
  ASSUME SystemIInv, TicketInv, NEW p \in Parties, Fails, GiveUp(p) \/ Resend(p),
         tickets' = tickets, reply' = reply,
         serving' \in [Handlers -> Parties \cup {Nobody}],
         \A g \in Handlers : serving'[g] \in {serving[g], Nobody} /\ serving'[g] # p
  PROVE  TicketInv'
<1>1. \/ stage' = stage /\ ticket' = ticket /\ sent' = sent
      \/ /\ stage' = [stage EXCEPT ![p] = "failed"]
         /\ ticket' = [ticket EXCEPT ![p] = 0] /\ sent' = [sent EXCEPT ![p] = 0]
  BY DEF GiveUp, Resend, Goto, Hold
<1>2. /\ losses' \in Nat /\ losses' > 0 /\ losses' >= losses
      /\ serving \in [Handlers -> Parties \cup {Nobody}]
  BY LossesAreCounted DEF SystemIInv, SystemTypeOK
<1>3. \A q \in Parties : q # p => sent'[q] = sent[q]
  BY <1>1 DEF SystemIInv, SystemTypeOK
<1>4. \A g \in Handlers :
        serving'[g] # Nobody /\ reply'[g].kind \in {"ticket", "invalid_grant"} =>
          /\ serving'[g] = serving[g] /\ reply'[g] = reply[g]
          /\ sent'[serving[g]] = sent[serving[g]]
  BY <1>2, <1>3
<1>5. \A q \in Parties : ticket'[q] \in {ticket[q], 0}
  BY <1>1 DEF SystemIInv, SystemTypeOK
<1>6. \A q \in Parties : stage'[q] = "redeem" =>
        stage[q] = "redeem" /\ ticket'[q] = ticket[q] /\ sent'[q] = sent[q]
  BY <1>1 DEF SystemIInv, SystemTypeOK
<1> QED
  BY <1>2, <1>4, <1>5, <1>6, NoTicketMoves

LEMMA LossTicketInv ==
  ASSUME SystemIInv, TicketInv, NEW p \in Parties,
         LoseTicket(p) \/ \E h \in Handlers : LoseCall(p, h)
  PROVE  TicketInv'
<1>1. /\ Fails
      /\ (GiveUp(p) \/ Resend(p))
      /\ tickets' = tickets
      /\ reply' = reply
  BY DEF LoseTicket, LoseCall, vars
<1>2. p # Nobody /\ serving \in [Handlers -> Parties \cup {Nobody}]
  BY SystemAssumption DEF SystemIInv, SystemTypeOK
<1>3. CASE LoseTicket(p)
  <2>1. \A g \in Handlers : serving[g] # p
    BY <1>3, FitsNow DEF LoseTicket, Fits
  <2>2. serving' = serving /\ serving' \in [Handlers -> Parties \cup {Nobody}]
    BY <1>2, <1>3 DEF LoseTicket
  <2>3. \A g \in Handlers : serving'[g] \in {serving[g], Nobody} /\ serving'[g] # p
    BY <2>1, <2>2
  <2> QED
    BY <1>1, <2>2, <2>3, FailureTicketInv
<1>4. ASSUME NEW h \in Handlers, LoseCall(p, h) PROVE TicketInv'
  <2>1. serving[h] = p /\ serving' = [serving EXCEPT ![h] = Nobody]
    BY <1>4 DEF LoseCall
  <2>2. \A g \in Handlers : serving[g] = p => g = h
    BY <1>2, <2>1 DEF SystemIInv, OneCallEach, Waiting
  <2>3. /\ serving' \in [Handlers -> Parties \cup {Nobody}]
        /\ \A g \in Handlers : serving'[g] \in {serving[g], Nobody} /\ serving'[g] # p
    BY <1>2, <2>1, <2>2
  <2> QED
    BY <1>1, <2>3, FailureTicketInv
<1> QED
  BY <1>3, <1>4

(* A handler mints a token, or answers where nobody waits.                 *)
LEMMA ServerTicketInv ==
  ASSUME IInv, SystemIInv, TicketInv, NEW h \in Handlers, Finish(h) \/ Orphan(h)
  PROVE  TicketInv'
<1>1. /\ UNCHANGED <<stage, ticket, sent, serving, losses>> /\ tickets' = tickets
  BY DEF Finish, Orphan, StoreRPT, Done, parties
<1>2. /\ \A g \in Handlers \ {h} : reply'[g] = reply[g]
      /\ reply'[h].kind = "rpt" \/ serving[h] = Nobody
  <2>1. CASE Finish(h)
    <3>1. PICK r : r.kind = "rpt" /\ Answer(h, r)
      BY <2>1 DEF Finish, StoreRPT, Reply
    <3> QED
      BY <3>1, AnswerIsItsOwn DEF IInv
  <2>2. CASE Orphan(h)
    BY <2>2, AnswerIsItsOwn DEF Orphan, Done, IInv
  <2> QED
    BY <2>1, <2>2
<1>3. losses \in Nat /\ serving \in [Handlers -> Parties \cup {Nobody}]
  BY LossesAreCounted DEF SystemIInv, SystemTypeOK
<1>4. \A g \in Handlers :
        serving'[g] # Nobody /\ reply'[g].kind \in {"ticket", "invalid_grant"} =>
          /\ serving'[g] = serving[g] /\ reply'[g] = reply[g]
          /\ sent'[serving[g]] = sent[serving[g]]
  BY <1>1, <1>2
<1>5. \A q \in Parties : Unanswered(q)' => Unanswered(q)
  BY <1>1 DEF Unanswered
<1>6. losses' \in Nat /\ losses' >= losses
  BY <1>1, <1>3
<1> QED
  BY <1>1, <1>3, <1>4, <1>5, <1>6, NoTicketMoves

(***************************************************************************)
(* Calls of the server.                                                    *)
(***************************************************************************)
LEMMA IntrospectTicketInv ==
  ASSUME IInv, SystemIInv, TicketInv, NEW p \in Parties, NEW h \in Handlers,
         CallIntrospect(p, h)
  PROVE  TicketInv'
<1>1. PICK r : r.kind \in {"active", "inactive"} /\ Answer(h, r)
  BY DEF CallIntrospect, Introspect, Reply
<1>2. /\ serving' = [serving EXCEPT ![h] = p]
      /\ UNCHANGED <<stage, ticket, sent, losses>> /\ tickets' = tickets
      /\ serving[h] = Nobody /\ stage[p] = "introspect"
  BY DEF CallIntrospect, Reaches, Introspect
<1>3. losses \in Nat /\ serving \in [Handlers -> Parties \cup {Nobody}]
  BY LossesAreCounted DEF SystemIInv, SystemTypeOK
<1>4. reply'[h] = r /\ \A g \in Handlers \ {h} : reply'[g] = reply[g]
  BY <1>1, AnswerIsItsOwn DEF IInv
<1>5. \A g \in Handlers :
        serving'[g] # Nobody /\ reply'[g].kind \in {"ticket", "invalid_grant"} =>
          /\ serving'[g] = serving[g] /\ reply'[g] = reply[g]
          /\ sent'[serving[g]] = sent[serving[g]]
  BY <1>1, <1>2, <1>3, <1>4
<1>6. \A q \in Parties : stage'[q] = "redeem" => (Unanswered(q)' => Unanswered(q))
  <2>1. \A g \in Handlers : serving'[g] = IF g = h THEN p ELSE serving[g]
    BY <1>2, <1>3
  <2>2. Nobody \notin Parties
    BY SystemAssumption, Zenon
  <2> QED
    BY <1>2, <2>1, <2>2 DEF Unanswered
<1>7. /\ losses' \in Nat /\ losses' >= losses
      /\ serving' \in [Handlers -> Parties \cup {Nobody}]
  BY <1>2, <1>3
<1> QED
  BY <1>2, <1>5, <1>6, <1>7, NoTicketMoves

(* A new ticket: no party holds it and no other answer names it.           *)
LEMMA PermissionTicketInv ==
  ASSUME IInv, SystemIInv, TicketInv, NEW p \in Parties, NEW h \in Handlers,
         CallPermission(p, h)
  PROVE  TicketInv'
<1>1. PICK r : r.kind = "ticket" /\ r.id = minted + 1 /\ Answer(h, r)
  BY DEF CallPermission, Permission, Reply
<1>2. /\ serving' = [serving EXCEPT ![h] = p]
      /\ UNCHANGED <<stage, ticket, sent, losses>>
      /\ tickets' = Put(tickets, minted + 1, goal[p])
      /\ serving[h] = Nobody /\ stage[p] = "register"
  BY DEF CallPermission, Reaches, Permission
<1>3. /\ serving \in [Handlers -> Parties \cup {Nobody}] /\ Nobody \notin Parties
      /\ minted \in Nat /\ ticket \in [Parties -> 0 .. minted]
  BY SystemAssumption DEF SystemIInv, SystemTypeOK, IInv, TypeOK
<1>4. reply'[h] = r /\ \A g \in Handlers \ {h} : reply'[g] = reply[g]
  BY <1>1, AnswerIsItsOwn DEF IInv
<1>5. /\ serving'[h] = p /\ \A g \in Handlers \ {h} : serving'[g] = serving[g]
      /\ \A q \in Parties : stage[q] = "redeem" /\ Unanswered(q)' => Unanswered(q)
  BY <1>2, <1>3 DEF Unanswered
<1>6. DOMAIN tickets' = DOMAIN tickets \cup {minted + 1}
  BY <1>2 DEF Put
<1>7. \A g \in Handlers \ {h} :
        Challenging(g)' => Challenging(g) /\ reply'[g] = reply[g] /\ reply[g].id \in 1 .. minted
  <2>1. \A g \in Handlers \ {h} : Challenging(g)' => Challenging(g) /\ reply'[g] = reply[g]
    BY <1>4, <1>5 DEF Challenging, Waiting
  <2>2. \A g \in Handlers : Challenging(g) => reply[g].id \in 1 .. minted
    BY DEF Challenging, Waiting, Ids, SystemIInv, SystemTypeOK, AnswerFits, Fits, NoReply, Reply
  <2> QED
    BY <2>1, <2>2
<1>8. UnsentIsLive'
  BY <1>1, <1>2, <1>4, <1>6, <1>7 DEF TicketInv, UnsentIsLive
<1>9. OneOwner'
  <2>1. \A p1, q \in Parties : p1 # q /\ ticket'[p1] # 0 => ticket'[p1] # ticket'[q]
    BY <1>2 DEF TicketInv, OneOwner
  <2>2. \A q \in Parties : ticket'[q] # minted + 1
    BY <1>2, <1>3
  <2>3. \A g \in Handlers, q \in Parties : Challenging(g)' => ticket'[q] # reply'[g].id
    BY <1>1, <1>2, <1>4, <1>7, <2>2 DEF TicketInv, OneOwner
  <2>4. \A g1, g2 \in Handlers :
          g1 # g2 /\ Challenging(g1)' /\ Challenging(g2)' => reply'[g1].id # reply'[g2].id
    BY <1>1, <1>3, <1>4, <1>7 DEF TicketInv, OneOwner
  <2> QED
    BY <2>1, <2>3, <2>4 DEF OneOwner
<1>10. SentIsAnswered'
  BY <1>2, <1>5 DEF TicketInv, SentIsAnswered
<1>11. RefusedOnlyAfterResend'
  BY <1>1, <1>2, <1>4, <1>5 DEF TicketInv, RefusedOnlyAfterResend, Waiting
<1> QED
  BY <1>8, <1>9, <1>10, <1>11 DEF TicketInv

(* A ticket is sent for the first time while it is live, so it is taken;   *)
(* one that is sent again was sent in a call that failed.                  *)
LEMMA TokenTicketInv ==
  ASSUME IInv, SystemIInv, TicketInv, NEW p \in Parties, NEW h \in Handlers,
         CallToken(p, h)
  PROVE  TicketInv'
<1>1. /\ serving' = [serving EXCEPT ![h] = p]
      /\ UNCHANGED <<stage, ticket, losses>>
      /\ sent' = [sent EXCEPT ![p] = IF @ = 0 THEN 1 ELSE 2]
      /\ serving[h] = Nobody /\ stage[p] = "redeem" /\ Unanswered(p)
  BY DEF CallToken, Reaches, Unanswered
<1>2. /\ serving \in [Handlers -> Parties \cup {Nobody}] /\ Nobody \notin Parties
      /\ sent \in [Parties -> 0 .. 2] /\ ticket[p] # 0
  BY <1>1, SystemAssumption DEF SystemIInv, SystemTypeOK
<1>3. losses > 0 \/ (sent[p] = 0 /\ ticket[p] \in DOMAIN tickets)
  BY <1>1, <1>2 DEF TicketInv, UnsentIsLive, SentIsAnswered
<1>4. PICK r : /\ Answer(h, r)
               /\ \/ r = NoReply
                  \/ r.kind = "invalid_grant" /\ ticket[p] \notin DOMAIN tickets
  BY DEF CallToken, TakeTicket, RefuseTicket, Reply
<1>5. /\ reply'[h].kind \in {"none", "invalid_grant"}
      /\ reply'[h].kind = "invalid_grant" => ticket[p] \notin DOMAIN tickets
      /\ \A g \in Handlers \ {h} : reply'[g] = reply[g]
  BY <1>4, AnswerIsItsOwn DEF IInv, NoReply, Reply
<1>6. DOMAIN tickets \ {ticket[p]} \subseteq DOMAIN tickets'
  BY DEF CallToken, TakeTicket, RefuseTicket, Delete
<1>7. /\ serving'[h] = p /\ \A g \in Handlers \ {h} : serving'[g] = serving[g]
      /\ sent'[p] = (IF sent[p] = 0 THEN 1 ELSE 2)
      /\ \A q \in Parties \ {p} : sent'[q] = sent[q]
  BY <1>1, <1>2
<1>8. \A g \in Handlers : Challenging(g)' => Challenging(g) /\ reply'[g] = reply[g]
  BY <1>5, <1>7 DEF Challenging, Waiting
<1>9. UnsentIsLive'
  <2>1. ASSUME NEW q \in Parties, stage'[q] = "redeem", sent'[q] = 0
        PROVE  ticket'[q] \in DOMAIN tickets'
    <3>1. q # p /\ sent[q] = 0 /\ stage[q] = "redeem"
      BY <1>1, <1>2, <1>7, <2>1
    <3>2. ticket[q] \in DOMAIN tickets /\ ticket[q] # ticket[p]
      BY <1>2, <3>1 DEF TicketInv, UnsentIsLive, OneOwner
    <3> QED
      BY <1>1, <1>6, <3>2
  <2>2. ASSUME NEW g \in Handlers, Challenging(g)' PROVE reply'[g].id \in DOMAIN tickets'
    <3>1. reply'[g].id \in DOMAIN tickets /\ reply'[g].id # ticket[p]
      BY <1>8, <2>2 DEF TicketInv, UnsentIsLive, OneOwner
    <3> QED
      BY <1>6, <3>1
  <2> QED
    BY <2>1, <2>2 DEF UnsentIsLive
<1>10. OneOwner'
  BY <1>1, <1>8 DEF TicketInv, OneOwner
<1>11. SentIsAnswered'
  <2>1. ASSUME NEW q \in Parties, stage'[q] = "redeem",
               sent'[q] > 1 \/ (sent'[q] > 0 /\ Unanswered(q)')
        PROVE  losses' > 0
    <3>1. CASE q = p
      <4>1. ~Unanswered(p)'
        BY <1>7 DEF Unanswered
      <4>2. sent[p] # 0
        BY <1>7, <2>1, <3>1, <4>1
      <4> QED
        BY <1>1, <1>3, <4>2
    <3>2. CASE q # p
      <4>1. Unanswered(q)' => Unanswered(q)
        BY <1>2, <1>7, <1>1 DEF Unanswered
      <4> QED
        BY <1>1, <1>7, <2>1, <3>2, <4>1 DEF TicketInv, SentIsAnswered
    <3> QED
      BY <3>1, <3>2
  <2> QED
    BY <2>1 DEF SentIsAnswered
<1>12. RefusedOnlyAfterResend'
  <2>1. ASSUME NEW g \in Handlers, Waiting(g)', reply'[g].kind = "invalid_grant"
        PROVE  sent'[serving'[g]] > 1 /\ losses' > 0
    <3>1. CASE g = h
      <4>1. losses > 0
        BY <1>3, <1>5, <2>1, <3>1
      <4>2. sent[p] # 0
        BY <1>1, <1>2, <1>3, <1>5, <2>1, <3>1 DEF TicketInv, UnsentIsLive
      <4> QED
        BY <1>1, <1>7, <3>1, <4>1, <4>2
    <3>2. CASE g # h
      <4>1. /\ Waiting(g) /\ reply[g].kind = "invalid_grant" /\ serving'[g] = serving[g]
            /\ serving[g] # p /\ serving[g] \in Parties
        BY <1>1, <1>2, <1>5, <1>7, <2>1, <3>2 DEF Waiting, Unanswered
      <4> QED
        BY <1>1, <1>7, <4>1 DEF TicketInv, RefusedOnlyAfterResend
    <3> QED
      BY <3>1, <3>2
  <2> QED
    BY <2>1, Zenon DEF RefusedOnlyAfterResend
<1> QED
  BY <1>9, <1>10, <1>11, <1>12 DEF TicketInv

(***************************************************************************)
(* Answers.                                                                *)
(***************************************************************************)

(* The answer leaves its handler, and nobody else is concerned.            *)
LEMMA ArrivalLeaves ==
  ASSUME IInv, SystemIInv, NEW p \in Parties, NEW h \in Handlers, Arrives(p, h)
  PROVE  /\ tickets' = tickets /\ losses' = losses /\ serving[h] = p
         /\ serving' \in [Handlers -> Parties \cup {Nobody}]
         /\ serving'[h] = Nobody
         /\ \A g \in Handlers \ {h} :
              serving'[g] = serving[g] /\ reply'[g] = reply[g] /\ serving[g] # p
         /\ \A q \in Parties \ {p} : Unanswered(q)' => Unanswered(q)
<1>1. /\ serving[h] = p /\ serving' = [serving EXCEPT ![h] = Nobody]
      /\ Answer(h, NoReply) /\ tickets' = tickets /\ losses' = losses
  BY DEF Arrives, Done
<1>2. serving \in [Handlers -> Parties \cup {Nobody}] /\ Nobody \notin Parties
  BY SystemAssumption DEF SystemIInv, SystemTypeOK
<1>3. \A g \in Handlers : serving[g] = p => g = h
  BY <1>1, <1>2 DEF SystemIInv, OneCallEach, Waiting
<1>4. \A g \in Handlers \ {h} : reply'[g] = reply[g]
  BY <1>1, AnswerIsItsOwn DEF IInv
<1>5. \A g \in Handlers : serving'[g] = IF g = h THEN Nobody ELSE serving[g]
  BY <1>1, <1>2
<1>6. \A q \in Parties \ {p} : Unanswered(q)' => Unanswered(q)
  BY <1>1, <1>5 DEF Unanswered
<1> QED
  BY <1>1, <1>2, <1>3, <1>4, <1>5, <1>6

(* The answer ends a visit, a redemption or an introspection.              *)
LEMMA EndedTicketInv ==
  ASSUME IInv, SystemIInv, TicketInv, NEW p \in Parties, NEW h \in Handlers,
         \/ Introspected(p, h) \/ Redeemed(p, h) \/ Refused(p, h)
         \/ Registered(p, h) /\ retrying[p]
  PROVE  TicketInv'
<1>1. /\ Arrives(p, h)
      /\ \/ /\ ticket' = ticket /\ sent' = sent
         \/ ticket' = [ticket EXCEPT ![p] = 0] /\ sent' = [sent EXCEPT ![p] = 0]
      /\ stage' \in {[stage EXCEPT ![p] = "start"], [stage EXCEPT ![p] = "served"],
                     [stage EXCEPT ![p] = "register"], [stage EXCEPT ![p] = "failed"]}
  BY DEF Introspected, Redeemed, Refused, Registered, Goto, Hold
<1>2. /\ tickets' = tickets /\ losses' = losses /\ serving[h] = p
      /\ serving' \in [Handlers -> Parties \cup {Nobody}]
      /\ serving'[h] = Nobody
      /\ \A g \in Handlers \ {h} :
           serving'[g] = serving[g] /\ reply'[g] = reply[g] /\ serving[g] # p
      /\ \A q \in Parties \ {p} : Unanswered(q)' => Unanswered(q)
  BY <1>1, ArrivalLeaves
<1>3. losses \in Nat /\ serving \in [Handlers -> Parties \cup {Nobody}]
  BY LossesAreCounted DEF SystemIInv, SystemTypeOK
<1>4. \A q \in Parties \ {p} :
        stage'[q] = stage[q] /\ ticket'[q] = ticket[q] /\ sent'[q] = sent[q]
  BY <1>1 DEF SystemIInv, SystemTypeOK
<1>5. ticket'[p] \in {ticket[p], 0} /\ stage'[p] # "redeem"
  BY <1>1 DEF SystemIInv, SystemTypeOK
<1>6. \A g \in Handlers :
        serving'[g] # Nobody /\ reply'[g].kind \in {"ticket", "invalid_grant"} =>
          /\ serving'[g] = serving[g] /\ reply'[g] = reply[g]
          /\ sent'[serving[g]] = sent[serving[g]]
  BY <1>2, <1>3, <1>4
<1>7. losses' \in Nat /\ losses' >= losses
  BY <1>2, <1>3
<1>8. \A q \in Parties : ticket'[q] \in {ticket[q], 0}
  BY <1>4, <1>5
<1>9. \A q \in Parties : stage'[q] = "redeem" =>
        /\ stage[q] = "redeem" /\ ticket'[q] = ticket[q] /\ sent'[q] = sent[q]
        /\ losses' > 0 \/ (Unanswered(q)' => Unanswered(q))
  BY <1>2, <1>4, <1>5
<1> QED
  BY <1>2, <1>6, <1>7, <1>8, <1>9, NoTicketMoves

(* The ticket moves from the challenge to the party it is for.             *)
LEMMA RegisteredTicketInv ==
  ASSUME IInv, SystemIInv, TicketInv, NEW p \in Parties, NEW h \in Handlers,
         Registered(p, h), ~retrying[p]
  PROVE  TicketInv'
<1>1. /\ stage[p] = "register" /\ Arrives(p, h)
      /\ stage' = [stage EXCEPT ![p] = "redeem"]
      /\ ticket' = [ticket EXCEPT ![p] = reply[h].id]
      /\ sent' = [sent EXCEPT ![p] = 0]
  BY DEF Registered, Goto, Hold
<1>2. /\ tickets' = tickets /\ losses' = losses /\ serving[h] = p
      /\ serving'[h] = Nobody
      /\ \A g \in Handlers \ {h} :
           serving'[g] = serving[g] /\ reply'[g] = reply[g] /\ serving[g] # p
      /\ \A q \in Parties \ {p} : Unanswered(q)' => Unanswered(q)
  BY <1>1, ArrivalLeaves
<1>3. reply[h].kind = "ticket" /\ Challenging(h)
  <2>1. Fits(h, p) /\ reply[h] # NoReply
    BY <1>1, <1>2, FitsNow DEF Arrives, Done
  <2>2. p # Nobody
    BY SystemAssumption, Zenon
  <2> QED
    BY <1>1, <1>2, <2>1, <2>2 DEF Fits, Challenging, Waiting
<1>4. /\ \A q \in Parties \ {p} :
           stage'[q] = stage[q] /\ ticket'[q] = ticket[q] /\ sent'[q] = sent[q]
      /\ stage'[p] = "redeem" /\ ticket'[p] = reply[h].id /\ sent'[p] = 0
  BY <1>1 DEF SystemIInv, SystemTypeOK
<1>5. \A g \in Handlers : Challenging(g)' => g # h /\ Challenging(g) /\ reply'[g] = reply[g]
  BY <1>2 DEF Challenging, Waiting
<1>6. UnsentIsLive'
  BY <1>2, <1>3, <1>4, <1>5 DEF TicketInv, UnsentIsLive
<1>7. OneOwner'
  <2>1. \A p1, q \in Parties : p1 # q /\ ticket'[p1] # 0 => ticket'[p1] # ticket'[q]
    BY <1>3, <1>4 DEF TicketInv, OneOwner
  <2>2. \A g \in Handlers, q \in Parties : Challenging(g)' => ticket'[q] # reply'[g].id
    BY <1>3, <1>4, <1>5 DEF TicketInv, OneOwner
  <2>3. \A g1, g2 \in Handlers :
          g1 # g2 /\ Challenging(g1)' /\ Challenging(g2)' => reply'[g1].id # reply'[g2].id
    BY <1>5 DEF TicketInv, OneOwner
  <2> QED
    BY <2>1, <2>2, <2>3 DEF OneOwner
<1>8. SentIsAnswered'
  BY <1>2, <1>4 DEF TicketInv, SentIsAnswered
<1>9. RefusedOnlyAfterResend'
  <2>1. ASSUME NEW g \in Handlers, Waiting(g)', reply'[g].kind = "invalid_grant"
        PROVE  sent'[serving'[g]] > 1 /\ losses' > 0
    <3>1. /\ Waiting(g) /\ reply[g].kind = "invalid_grant" /\ serving'[g] = serving[g]
          /\ serving[g] \in Parties \ {p}
      BY <1>2, <2>1 DEF Waiting, SystemIInv, SystemTypeOK
    <3> QED
      BY <1>2, <1>4, <3>1 DEF TicketInv, RefusedOnlyAfterResend
  <2> QED
    BY <2>1, Zenon DEF RefusedOnlyAfterResend
<1> QED
  BY <1>6, <1>7, <1>8, <1>9 DEF TicketInv

LEMMA NextTicketInv ==
  ASSUME IInv, SystemIInv, TicketInv, [SystemNext]_systemVars
  PROVE  TicketInv'
<1>1. ASSUME NEW p \in Parties, Step(p) PROVE TicketInv'
  BY <1>1, VisitTicketInv, IntrospectTicketInv, PermissionTicketInv, TokenTicketInv,
     EndedTicketInv, RegisteredTicketInv DEF Step
<1>2. CASE UNCHANGED systemVars
  <2>1. UNCHANGED <<tickets, reply, stage, ticket, sent, serving, losses>>
    BY <1>2 DEF systemVars, vars, parties
  <2> QED
    BY <2>1 DEF TicketInv, UnsentIsLive, OneOwner, SentIsAnswered, RefusedOnlyAfterResend,
       Challenging, Waiting, Unanswered
<1> QED
  BY <1>1, <1>2, VisitTicketInv, LossTicketInv, ServerTicketInv DEF SystemNext

-----------------------------------------------------------------------------
(***************************************************************************)
(* Tickets left behind.  A ticket leaves the hands it is in either because *)
(* it was sent, and is then no longer live, or because a call failed.      *)
(***************************************************************************)
Stranded == DOMAIN tickets \ Held

(* Only a challenge names a live ticket, and no answer one not yet minted. *)
RepliesAreOld ==
  \A h \in Handlers :
    /\ reply[h].id <= minted
    /\ reply[h].kind # "ticket" => reply[h].id \notin DOMAIN tickets

SentIsGone == \A p \in Parties : sent[p] > 0 => ticket[p] \notin DOMAIN tickets

LeakInv == RepliesAreOld /\ SentIsGone /\ LeaksOnlyByLoss

LEMMA TicketsFinite == ASSUME TypeOK PROVE IsFiniteSet(DOMAIN tickets)
<1>1. minted \in Int /\ DOMAIN tickets \subseteq 1 .. minted
  BY DEF TypeOK, Ids
<1>2. IsFiniteSet(1 .. minted)
  BY <1>1, FS_Interval
<1> QED
  BY <1>1, <1>2, FS_Subset

LEMMA InitLeakInv == SystemInit => LeakInv
<1> SUFFICES ASSUME SystemInit PROVE LeakInv
  OBVIOUS
<1>1. DOMAIN tickets = {} /\ losses = 0 /\ minted = 0
  BY DEF SystemInit, Init
<1>2. \A h \in Handlers : reply[h].id = 0
  BY DEF SystemInit, Init, NoReply, Reply
<1>3. DOMAIN tickets \ Held = {}
  BY <1>1
<1>4. LeaksOnlyByLoss
  BY <1>1, <1>3, FS_EmptySet DEF LeaksOnlyByLoss
<1> QED
  BY <1>1, <1>2, <1>4 DEF LeakInv, RepliesAreOld, SentIsGone

(***************************************************************************)
(* The server's answers.                                                   *)
(***************************************************************************)
LEMMA AnswerIsOld ==
  ASSUME TypeOK, RepliesAreOld, NEW h \in Handlers, NEW r \in Replies, Answer(h, r),
         minted' \in {minted, minted + 1},
         \A t \in DOMAIN tickets' : t \in DOMAIN tickets \/ t = minted + 1,
         r.id <= minted', r.kind # "ticket" => r.id \notin DOMAIN tickets'
  PROVE  RepliesAreOld'
<1> SUFFICES ASSUME NEW g \in Handlers
             PROVE  /\ reply'[g].id <= minted'
                    /\ reply'[g].kind # "ticket" => reply'[g].id \notin DOMAIN tickets'
  BY DEF RepliesAreOld
<1>1. CASE g = h
  BY <1>1, AnswerIsItsOwn
<1>2. CASE g # h
  <2>1. reply'[g] = reply[g] /\ reply[g].id \in Int /\ minted \in Nat
    BY <1>2, AnswerIsItsOwn DEF TypeOK, Replies
  <2> QED
    BY <2>1 DEF RepliesAreOld
<1> QED
  BY <1>1, <1>2

LEMMA NextRepliesAreOld ==
  ASSUME IInv, RepliesAreOld, [Next]_vars PROVE RepliesAreOld'
<1> USE DEF IInv
<1>1. /\ minted \in Nat /\ 0 <= minted /\ 0 \notin DOMAIN tickets
      /\ minted + 1 \notin DOMAIN tickets
  BY DEF TypeOK, Ids
<1>2. ASSUME NEW h \in Handlers, NEW r \in Replies, Answer(h, r), UNCHANGED minted, r.id = 0,
             DOMAIN tickets' \subseteq DOMAIN tickets
      PROVE  RepliesAreOld'
  BY <1>1, <1>2, AnswerIsOld
<1>3. ASSUME NEW h \in Handlers, Invalid(h) PROVE RepliesAreOld'
  <2>1. Reply("invalid", 0, 0, NoPerm) \in Replies /\ Reply("invalid", 0, 0, NoPerm).id = 0
    BY DEF Reply, Replies
  <2> QED
    BY <1>2, <1>3, <2>1 DEF Invalid
<1>4. ASSUME NEW h \in Handlers, NEW t \in Presented, RefuseTicket(h, t) PROVE RepliesAreOld'
  <2>1. t \in Int
    BY <1>1 DEF Presented
  <2>2. /\ Reply("invalid_grant", t, 0, NoPerm) \in Replies
        /\ Reply("invalid_grant", t, 0, NoPerm).id = 0
    BY <2>1 DEF Reply, Replies
  <2> QED
    BY <1>2, <1>4, <2>2 DEF RefuseTicket
<1>5. ASSUME NEW h \in Handlers, NEW t \in Presented, Introspect(h, t) PROVE RepliesAreOld'
  <2>1. t \in Int
    BY <1>1 DEF Presented
  <2> DEFINE r == IF t \in DOMAIN rpts THEN Reply("active", t, 0, rpts[t])
                                        ELSE Reply("inactive", t, 0, NoPerm)
  <2>2. r \in Replies /\ r.id = 0
    BY <2>1 DEF Reply, Replies, TypeOK
  <2>3. Answer(h, r) /\ UNCHANGED <<minted, tickets>>
    BY <1>5 DEF Introspect
  <2> QED
    BY <1>2, <2>2, <2>3
<1>6. NoReply \in Replies /\ NoReply.id = 0
  BY DEF NoReply, Reply, Replies
<1>7. ASSUME NEW h \in Handlers, Done(h) PROVE RepliesAreOld'
  BY <1>2, <1>6, <1>7 DEF Done
<1>8. ASSUME NEW h \in Handlers, NEW t \in Presented, TakeTicket(h, t) PROVE RepliesAreOld'
  <2>1. DOMAIN tickets' \subseteq DOMAIN tickets
    BY <1>8 DEF TakeTicket, Delete
  <2> QED
    BY <1>2, <1>6, <1>8, <2>1 DEF TakeTicket
<1>9. ASSUME NEW h \in Handlers, CreateResourceSet(h) PROVE RepliesAreOld'
  <2> DEFINE r == Reply("created", 0, minted + 1, NoPerm)
  <2>1. r \in Replies /\ r.id = minted + 1 /\ r.kind = "created"
    BY <1>1 DEF Reply, Replies
  <2>2. Answer(h, r) /\ minted' = minted + 1 /\ tickets' = tickets
    BY <1>9 DEF CreateResourceSet
  <2> QED
    BY <1>1, <2>1, <2>2, AnswerIsOld
<1>10. ASSUME NEW h \in Handlers, NEW p \in Perms, Permission(h, p) PROVE RepliesAreOld'
  <2> DEFINE r == Reply("ticket", 0, minted + 1, p)
  <2>1. r \in Replies /\ r.id = minted + 1 /\ r.kind = "ticket"
    BY <1>1 DEF Reply, Replies
  <2>2. Answer(h, r) /\ minted' = minted + 1 /\ DOMAIN tickets' = DOMAIN tickets \cup {minted + 1}
    BY <1>10 DEF Permission, Put
  <2> QED
    BY <1>1, <2>1, <2>2, AnswerIsOld
<1>11. ASSUME NEW h \in Handlers, StoreRPT(h) PROVE RepliesAreOld'
  <2> DEFINE r == Reply("rpt", taken[h].ticket, minted + 1, taken[h].perm)
  <2>1. r \in Replies /\ r.id = minted + 1 /\ r.kind = "rpt"
    BY <1>1 DEF Reply, Replies, TypeOK
  <2>2. Answer(h, r) /\ minted' = minted + 1 /\ tickets' = tickets
    BY <1>11 DEF StoreRPT
  <2> QED
    BY <1>1, <2>1, <2>2, AnswerIsOld
<1>12. CASE UNCHANGED vars
  BY <1>12 DEF vars, RepliesAreOld
<1> QED
  BY <1>3, <1>4, <1>5, <1>7, <1>8, <1>9, <1>10, <1>11, <1>12
     DEF Next, InvalidPermission, InvalidTicketOrToken

(***************************************************************************)
(* Counting what is left behind.                                           *)
(***************************************************************************)

(* Nothing more is, when what was held stays held and a new ticket is.     *)
LEMMA NoneLeft ==
  ASSUME TypeOK, LeaksOnlyByLoss, losses' = losses, losses \in Nat,
         \A t \in DOMAIN tickets' : t \in DOMAIN tickets \/ t \in Held',
         \A t \in DOMAIN tickets' : t \in Held => t \in Held'
  PROVE  LeaksOnlyByLoss'
<1>1. IsFiniteSet(Stranded)
  BY TicketsFinite, FS_Subset DEF Stranded
<1>2. Stranded' \subseteq Stranded
  BY DEF Stranded
<1>3. Cardinality(Stranded') <= Cardinality(Stranded) /\ IsFiniteSet(Stranded')
  BY <1>1, <1>2, FS_Subset
<1>4. Cardinality(Stranded) \in Nat /\ Cardinality(Stranded') \in Nat
  BY <1>1, <1>3, FS_CardinalityType
<1>5. Cardinality(Stranded) <= losses
  BY DEF LeaksOnlyByLoss, Stranded
<1>6. Cardinality(Stranded') <= losses'
  BY <1>3, <1>4, <1>5
<1> QED
  BY <1>6 DEF LeaksOnlyByLoss, Stranded

(* At most one more is, when a call fails and only one ticket is let go.   *)
LEMMA OneLeft ==
  ASSUME TypeOK, LeaksOnlyByLoss, losses' = losses + 1, losses \in Nat, NEW x,
         tickets' = tickets,
         \A t \in DOMAIN tickets : t \in Held => t \in Held' \/ t = x
  PROVE  LeaksOnlyByLoss'
<1>1. IsFiniteSet(Stranded)
  BY TicketsFinite, FS_Subset DEF Stranded
<1>2. Stranded' \subseteq Stranded \cup {x}
  BY DEF Stranded
<1>3. /\ IsFiniteSet(Stranded \cup {x})
      /\ Cardinality(Stranded \cup {x}) = IF x \in Stranded THEN Cardinality(Stranded)
                                           ELSE Cardinality(Stranded) + 1
  BY <1>1, FS_AddElement
<1>4. Cardinality(Stranded') <= Cardinality(Stranded \cup {x}) /\ IsFiniteSet(Stranded')
  BY <1>2, <1>3, FS_Subset
<1>5. Cardinality(Stranded) \in Nat /\ Cardinality(Stranded') \in Nat
  BY <1>1, <1>4, FS_CardinalityType
<1>6. Cardinality(Stranded) <= losses
  BY DEF LeaksOnlyByLoss, Stranded
<1>7. Cardinality(Stranded') <= losses'
  BY <1>3, <1>4, <1>5, <1>6
<1> QED
  BY <1>7 DEF LeaksOnlyByLoss, Stranded

(* The two ways to hold a ticket.                                          *)
LEMMA HeldIs ==
  ASSUME NEW t
  PROVE  t \in Held <=> \/ \E p \in Parties : ticket[p] = t
                        \/ \E h \in Handlers : Waiting(h) /\ reply[h].id = t
  BY DEF Held

LEMMA HeldNext ==
  ASSUME NEW t
  PROVE  t \in Held' <=> \/ \E p \in Parties : ticket'[p] = t
                         \/ \E h \in Handlers : Waiting(h)' /\ reply'[h].id = t
  BY DEF Held

(***************************************************************************)
(* Steps.                                                                  *)
(***************************************************************************)

(* A party that goes on by itself, and a handler at work, let nothing go.  *)
LEMMA VisitLeakInv ==
  ASSUME IInv, SystemIInv, LeakInv, NEW p \in Parties, Get(p) \/ NextVisit(p)
  PROVE  SentIsGone' /\ LeaksOnlyByLoss'
<1>1. UNCHANGED <<tickets, reply, ticket, sent, serving, losses>>
  BY DEF Get, NextVisit, vars
<1>2. DOMAIN tickets' = DOMAIN tickets /\ Held' = Held
  BY <1>1 DEF Held, Waiting
<1> QED
  BY <1>1, <1>2 DEF LeakInv, SentIsGone, LeaksOnlyByLoss

(* A call that reaches the server: the handler takes up the party's call,  *)
(* and what it answers with is held.                                       *)
LEMMA CallLeakInv ==
  ASSUME IInv, SystemIInv, LeakInv, NEW p \in Parties, NEW h \in Handlers,
         CallIntrospect(p, h) \/ CallPermission(p, h) \/ CallToken(p, h)
  PROVE  SentIsGone' /\ LeaksOnlyByLoss'
<1>1. /\ serving[h] = Nobody /\ serving' = [serving EXCEPT ![h] = p]
      /\ UNCHANGED <<stage, ticket, losses>>
  BY DEF CallIntrospect, CallPermission, CallToken, Reaches
<1>2. /\ serving'[h] = p /\ p # Nobody
      /\ \A g \in Handlers \ {h} : serving'[g] = serving[g]
  BY <1>1, SystemAssumption DEF SystemIInv, SystemTypeOK
<1>3. \A g \in Handlers \ {h} : reply'[g] = reply[g]
  BY AnswerIsItsOwn DEF IInv, CallIntrospect, CallPermission, CallToken, Introspect, Permission,
     TakeTicket, RefuseTicket
<1>4. \A t : t \in Held => t \in Held'
  <2> SUFFICES ASSUME NEW t, t \in Held PROVE t \in Held'
    OBVIOUS
  <2>1. CASE \E q \in Parties : ticket[q] = t
    BY <1>1, <2>1, HeldNext
  <2>2. ASSUME NEW g \in Handlers, Waiting(g), reply[g].id = t PROVE t \in Held'
    <3>1. g # h /\ Waiting(g)' /\ reply'[g].id = t
      BY <1>1, <1>2, <1>3, <2>2 DEF Waiting
    <3> QED
      BY <3>1, HeldNext
  <2> QED
    BY <2>1, <2>2, HeldIs
<1>5. losses \in Nat /\ minted \in Nat /\ DOMAIN tickets \subseteq 1 .. minted
  BY LossesAreCounted DEF SystemIInv, IInv, TypeOK, Ids
<1>6. \A t \in DOMAIN tickets' : t \in DOMAIN tickets \/ t \in Held'
  <2>1. CASE CallPermission(p, h)
    <3> DEFINE r == Reply("ticket", 0, minted + 1, goal[p])
    <3>1. DOMAIN tickets' = DOMAIN tickets \cup {minted + 1} /\ Answer(h, r)
      BY <2>1 DEF CallPermission, Permission, Put
    <3>2. reply'[h].id = minted + 1
      BY <3>1, AnswerIsItsOwn DEF IInv, Reply
    <3>3. minted + 1 \in Held'
      BY <1>2, <3>2, HeldNext DEF Waiting
    <3> QED
      BY <3>1, <3>3
  <2>2. CASE CallIntrospect(p, h) \/ CallToken(p, h)
    BY <2>2 DEF CallIntrospect, CallToken, Introspect, TakeTicket, RefuseTicket, Delete
  <2> QED
    BY <2>1, <2>2
<1>7. SentIsGone'
  <2>1. \A q \in Parties : ticket[q] \in 0 .. minted /\ sent[q] \in 0 .. 2
    BY DEF SystemIInv, SystemTypeOK
  <2>2. CASE CallPermission(p, h)
    <3>1. DOMAIN tickets' = DOMAIN tickets \cup {minted + 1} /\ sent' = sent
      BY <2>2 DEF CallPermission, Permission, Put
    <3> QED
      BY <1>1, <1>5, <2>1, <3>1 DEF LeakInv, SentIsGone
  <2>3. CASE CallIntrospect(p, h)
    BY <1>1, <2>3 DEF CallIntrospect, Introspect, LeakInv, SentIsGone
  <2>4. CASE CallToken(p, h)
    <3>1. DOMAIN tickets' \subseteq DOMAIN tickets /\ ticket[p] \notin DOMAIN tickets'
      BY <2>4 DEF CallToken, TakeTicket, RefuseTicket, Delete
    <3>2. \A q \in Parties \ {p} : sent'[q] = sent[q]
      BY <2>4 DEF CallToken, SystemIInv, SystemTypeOK
    <3> QED
      BY <1>1, <3>1, <3>2 DEF LeakInv, SentIsGone
  <2> QED
    BY <2>2, <2>3, <2>4
<1> QED
  BY <1>1, <1>4, <1>5, <1>6, <1>7, NoneLeft DEF IInv, LeakInv

(* Who waits for an answer holds no live ticket but the one in the answer. *)
LEMMA WaiterHolds ==
  ASSUME IInv, SystemIInv, LeakInv, NEW p \in Parties, NEW h \in Handlers, serving[h] = p
  PROVE  /\ ticket[p] \notin DOMAIN tickets
         /\ reply[h].id \in DOMAIN tickets => reply[h].kind = "ticket" /\ stage[p] = "register"
<1>1. Fits(h, p)
  BY FitsNow
<1>2. 0 \notin DOMAIN tickets
  BY DEF IInv, TypeOK, Ids
<1>3. ticket[p] \notin DOMAIN tickets
  <2>1. CASE stage[p] = "redeem"
    BY <1>1, <2>1 DEF Fits, LeakInv, SentIsGone
  <2>2. CASE stage[p] # "redeem"
    BY <1>2, <2>2 DEF SystemIInv, SystemTypeOK
  <2> QED
    BY <2>1, <2>2
<1>4. reply[h].id \in DOMAIN tickets => reply[h].kind = "ticket"
  BY DEF LeakInv, RepliesAreOld
<1>5. reply[h].kind = "ticket" => reply[h] # NoReply
  BY DEF NoReply, Reply
<1> QED
  BY <1>1, <1>3, <1>4, <1>5 DEF Fits

(* An answer: the ticket in it, if any, moves to the party.                *)
LEMMA ArrivalLeakInv ==
  ASSUME IInv, SystemIInv, LeakInv, FreshTokenSuffices, NEW p \in Parties, NEW h \in Handlers,
         Introspected(p, h) \/ Registered(p, h) \/ Redeemed(p, h) \/ Refused(p, h)
  PROVE  SentIsGone' /\ LeaksOnlyByLoss'
<1>1. Arrives(p, h)
  BY DEF Introspected, Registered, Redeemed, Refused
<1>2. /\ tickets' = tickets /\ losses' = losses /\ serving[h] = p
      /\ \A g \in Handlers \ {h} : serving'[g] = serving[g] /\ reply'[g] = reply[g]
  BY <1>1, ArrivalLeaves
<1>3. \A q \in Parties \ {p} : ticket'[q] = ticket[q] /\ sent'[q] = sent[q]
  BY DEF Introspected, Registered, Redeemed, Refused, Hold, SystemIInv, SystemTypeOK
<1>4. (sent'[p] = 0 /\ ticket'[p] \in {0, reply[h].id}) \/ UNCHANGED <<ticket, sent>>
  BY DEF Introspected, Registered, Redeemed, Refused, Hold, SystemIInv, SystemTypeOK
<1>5. SentIsGone'
  BY <1>2, <1>3, <1>4 DEF LeakInv, SentIsGone
<1>6. losses \in Nat
  BY LossesAreCounted DEF SystemIInv
<1>7. ASSUME NEW t \in DOMAIN tickets, t \in Held PROVE t \in Held'
  <2>1. ASSUME NEW q \in Parties, ticket[q] = t PROVE t \in Held'
    <3>1. q # p
      BY <1>2, <1>7, <2>1, WaiterHolds
    <3> QED
      BY <1>3, <2>1, <3>1, HeldNext
  <2>2. ASSUME NEW g \in Handlers \ {h}, Waiting(g), reply[g].id = t PROVE t \in Held'
    <3>1. Waiting(g)' /\ reply'[g].id = t
      BY <1>2, <2>2 DEF Waiting
    <3> QED
      BY <3>1, HeldNext
  <2>3. CASE reply[h].id = t
    <3>1. stage[p] = "register"
      BY <1>2, <1>7, <2>3, WaiterHolds
    <3>2. ticket'[p] = t
      BY <2>3, <3>1 DEF FreshTokenSuffices, Introspected, Registered, Redeemed, Refused, Hold, SystemIInv, SystemTypeOK
    <3> QED
      BY <3>2, HeldNext
  <2> QED
    BY <1>7, <2>1, <2>2, <2>3, HeldIs
<1>8. LeaksOnlyByLoss'
  BY <1>2, <1>6, <1>7, NoneLeft DEF IInv, LeakInv
<1> QED
  BY <1>5, <1>8

(***************************************************************************)
(* A failed call lets go of at most one live ticket: the one in the answer *)
(* that is lost, or the one of the challenge that is.                      *)
(***************************************************************************)
LEMMA LossLeakInv ==
  ASSUME IInv, SystemIInv, LeakInv, NEW p \in Parties,
         LoseTicket(p) \/ \E h \in Handlers : LoseCall(p, h)
  PROVE  SentIsGone' /\ LeaksOnlyByLoss'
<1>1. /\ losses' = losses + 1 /\ tickets' = tickets /\ reply' = reply
      /\ GiveUp(p) \/ Resend(p)
  BY DEF LoseTicket, LoseCall, Fails, vars
<1>2. losses \in Nat
  BY LossesAreCounted DEF SystemIInv
<1>3. /\ \A q \in Parties \ {p} : ticket'[q] = ticket[q] /\ sent'[q] = sent[q]
      /\ (ticket'[p] = 0 /\ sent'[p] = 0) \/ UNCHANGED <<ticket, sent>>
  BY <1>1 DEF GiveUp, Resend, Hold, SystemIInv, SystemTypeOK
<1>4. SentIsGone'
  BY <1>1, <1>3 DEF LeakInv, SentIsGone
<1>5. CASE LoseTicket(p)
  <2>1. serving' = serving
    BY <1>5 DEF LoseTicket
  <2>2. \A t : t \in Held => t \in Held' \/ t = ticket[p]
    BY <1>1, <1>3, <2>1, HeldIs, HeldNext DEF Waiting
  <2>3. LeaksOnlyByLoss'
    BY <1>1, <1>2, <2>2, OneLeft DEF IInv, LeakInv
  <2> QED
    BY <1>4, <2>3
<1>6. ASSUME NEW h \in Handlers, LoseCall(p, h) PROVE LeaksOnlyByLoss'
  <2>1. serving[h] = p /\ \A g \in Handlers \ {h} : serving'[g] = serving[g]
    BY <1>6 DEF LoseCall, SystemIInv, SystemTypeOK
  <2>2. ticket[p] \notin DOMAIN tickets
    BY <2>1, WaiterHolds
  <2>3. \A t \in DOMAIN tickets : t \in Held => t \in Held' \/ t = reply[h].id
    <3> SUFFICES ASSUME NEW t \in DOMAIN tickets, t \in Held, t # reply[h].id
                 PROVE  t \in Held'
      OBVIOUS
    <3>1. ASSUME NEW q \in Parties, ticket[q] = t PROVE t \in Held'
      BY <1>3, <2>2, <3>1, HeldNext
    <3>2. ASSUME NEW g \in Handlers, Waiting(g), reply[g].id = t PROVE t \in Held'
      <4>1. Waiting(g)' /\ reply'[g].id = t
        BY <1>1, <2>1, <3>2 DEF Waiting
      <4> QED
        BY <4>1, HeldNext
    <3> QED
      BY <3>1, <3>2, HeldIs
  <2> QED
    BY <1>1, <1>2, <2>3, OneLeft DEF IInv, LeakInv
<1> QED
  BY <1>4, <1>5, <1>6

(* A handler mints a token, or answers where nobody waits.                 *)
LEMMA ServerLeakInv ==
  ASSUME IInv, SystemIInv, LeakInv, NEW h \in Handlers, Finish(h) \/ Orphan(h)
  PROVE  SentIsGone' /\ LeaksOnlyByLoss'
<1>1. UNCHANGED <<tickets, ticket, sent, stage, serving, losses>>
  BY DEF Finish, Orphan, StoreRPT, Done, parties
<1>2. \A g \in Handlers \ {h} : reply'[g] = reply[g]
  BY AnswerIsItsOwn DEF IInv, Finish, Orphan, StoreRPT, Done
<1>3. losses \in Nat
  BY LossesAreCounted DEF SystemIInv
<1>4. Waiting(h) => reply[h].id \notin DOMAIN tickets
  <2>1. CASE Orphan(h)
    BY <2>1 DEF Orphan, Waiting
  <2>2. ASSUME Finish(h), Waiting(h) PROVE reply[h].id \notin DOMAIN tickets
    <3>1. PICK p \in Parties : serving[h] = p
      BY <2>2 DEF Waiting, SystemIInv, SystemTypeOK
    <3>2. stage[p] = "redeem"
      BY <2>2, <3>1, FitsNow DEF Fits, Finish, StoreRPT
    <3> QED
      BY <3>1, <3>2, WaiterHolds
  <2> QED
    BY <2>1, <2>2
<1>5. ASSUME NEW t \in DOMAIN tickets, t \in Held PROVE t \in Held'
  <2>1. ASSUME NEW q \in Parties, ticket[q] = t PROVE t \in Held'
    BY <1>1, <2>1, HeldNext
  <2>2. ASSUME NEW g \in Handlers, Waiting(g), reply[g].id = t PROVE t \in Held'
    <3>1. g # h
      BY <1>4, <1>5, <2>2
    <3>2. Waiting(g)' /\ reply'[g].id = t
      BY <1>1, <1>2, <2>2, <3>1 DEF Waiting
    <3> QED
      BY <3>2, HeldNext
  <2> QED
    BY <1>5, <2>1, <2>2, HeldIs
<1>6. LeaksOnlyByLoss'
  BY <1>1, <1>3, <1>5, NoneLeft DEF IInv, LeakInv
<1>7. SentIsGone'
  BY <1>1 DEF LeakInv, SentIsGone
<1> QED
  BY <1>6, <1>7

LEMMA NextLeakInv ==
  ASSUME IInv, SystemIInv, LeakInv, FreshTokenSuffices, [SystemNext]_systemVars
  PROVE  LeakInv'
<1>1. RepliesAreOld'
  BY StepIsServerStep, NextRepliesAreOld DEF SystemIInv, LeakInv
<1>2. ASSUME NEW p \in Parties, Step(p) PROVE SentIsGone' /\ LeaksOnlyByLoss'
  BY <1>2, VisitLeakInv, CallLeakInv, ArrivalLeakInv DEF Step
<1>3. CASE UNCHANGED systemVars
  <2>1. UNCHANGED <<tickets, reply, ticket, sent, serving, losses>>
    BY <1>3 DEF systemVars, vars, parties
  <2>2. DOMAIN tickets' = DOMAIN tickets /\ Held' = Held
    BY <2>1 DEF Held, Waiting
  <2> QED
    BY <1>1, <2>1, <2>2 DEF LeakInv, SentIsGone, LeaksOnlyByLoss
<1>4. CASE SystemNext
  <2>1. SentIsGone' /\ LeaksOnlyByLoss'
    BY <1>2, <1>4, VisitLeakInv, LossLeakInv, ServerLeakInv DEF SystemNext
  <2> QED
    BY <1>1, <2>1 DEF LeakInv
<1> QED
  BY <1>3, <1>4

-----------------------------------------------------------------------------
(***************************************************************************)
(* Whose token.  A handler works on the ticket of the party that waits for *)
(* it, and a token is in one place: with a party or on its way to one.     *)
(***************************************************************************)
Bringing(h) == Waiting(h) /\ reply[h].kind = "rpt"

TakenForItsCaller ==
  \A h \in Handlers : Waiting(h) /\ ~Ready(h) => taken[h].ticket = ticket[serving[h]]

OnePlace ==
  \A h \in Handlers : Bringing(h) =>
    /\ \A q \in Parties : rpt[q] # reply[h].id
    /\ \A g \in Handlers \ {h} : Bringing(g) => reply[g].id # reply[h].id

OwnInv == OwnTokenOnly /\ TakenForItsCaller /\ OnePlace

LEMMA InitOwnInv == SystemInit => OwnInv
<1> SUFFICES ASSUME SystemInit PROVE OwnInv
  OBVIOUS
<1>1. \A h \in Handlers : ~Waiting(h)
  BY DEF SystemInit, Waiting
<1>2. \A p \in Parties : rpt[p] = 0
  BY DEF SystemInit
<1> QED
  BY <1>1, <1>2 DEF OwnInv, OwnTokenOnly, TakenForItsCaller, OnePlace, Bringing

(***************************************************************************)
(* A step that mints and hands over no token: whoever still waits does so  *)
(* with its ticket, and whoever begins to is served for its own.           *)
(***************************************************************************)
Untouched(h) ==
  /\ serving'[h] = serving[h] /\ taken'[h] = taken[h] /\ reply'[h] = reply[h]
  /\ ticket'[serving[h]] = ticket[serving[h]]

TakenUp(h) ==
  /\ reply'[h].kind # "rpt"
  /\ taken'[h] # NotTaken => taken'[h].ticket = ticket'[serving'[h]]

LEMMA NoTokenMoves ==
  ASSUME OwnInv, UNCHANGED <<rpt, origin>>,
         \A h \in Handlers : serving'[h] # Nobody => Untouched(h) \/ TakenUp(h)
  PROVE  OwnInv'
<1>1. \A h \in Handlers : Bringing(h)' => Bringing(h) /\ Untouched(h)
  BY DEF Bringing, Waiting, Untouched, TakenUp
<1>2. OwnTokenOnly'
  BY <1>1 DEF OwnInv, OwnTokenOnly, Bringing, Waiting, Untouched
<1>3. TakenForItsCaller'
  BY DEF OwnInv, TakenForItsCaller, Waiting, Ready, Untouched, TakenUp
<1>4. OnePlace'
  BY <1>1 DEF OwnInv, OnePlace, Untouched
<1> QED
  BY <1>2, <1>3, <1>4 DEF OwnInv

(* A party that goes on by itself.                                         *)
LEMMA VisitOwnInv ==
  ASSUME OwnInv, NEW p \in Parties, Get(p) \/ NextVisit(p)
  PROVE  OwnInv'
<1>1. UNCHANGED <<rpt, origin, serving, taken, reply, ticket>>
  BY DEF Get, NextVisit, vars
<1> QED
  BY <1>1, NoTokenMoves DEF Untouched

(* A call that fails: the party waits no more, whatever it still holds.    *)
LEMMA LossOwnInv ==
  ASSUME SystemIInv, OwnInv, NEW p \in Parties,
         LoseTicket(p) \/ \E h \in Handlers : LoseCall(p, h)
  PROVE  OwnInv'
<1>1. /\ UNCHANGED <<rpt, origin, taken, reply>>
      /\ GiveUp(p) \/ Resend(p)
  BY DEF LoseTicket, LoseCall, vars
<1>2. \A q \in Parties \ {p} : ticket'[q] = ticket[q]
  BY <1>1 DEF GiveUp, Resend, Hold, SystemIInv, SystemTypeOK
<1>3. \A g \in Handlers : serving'[g] # Nobody =>
        serving'[g] = serving[g] /\ serving[g] \in Parties \ {p}
  <2>1. serving \in [Handlers -> Parties \cup {Nobody}] /\ p # Nobody
    BY SystemAssumption DEF SystemIInv, SystemTypeOK
  <2>2. CASE LoseTicket(p)
    <3>1. \A g \in Handlers : serving[g] # p
      BY <2>2, FitsNow DEF LoseTicket, Fits
    <3> QED
      BY <2>1, <2>2, <3>1 DEF LoseTicket
  <2>3. ASSUME NEW h \in Handlers, LoseCall(p, h)
        PROVE  \A g \in Handlers : serving'[g] # Nobody =>
                 serving'[g] = serving[g] /\ serving[g] \in Parties \ {p}
    <3>1. serving[h] = p /\ serving' = [serving EXCEPT ![h] = Nobody]
      BY <2>3 DEF LoseCall
    <3>2. \A g \in Handlers : serving[g] = p => g = h
      BY <2>1, <3>1 DEF SystemIInv, OneCallEach, Waiting
    <3> QED
      BY <2>1, <3>1, <3>2
  <2> QED
    BY <2>2, <2>3
<1> QED
  BY <1>1, <1>2, <1>3, NoTokenMoves DEF Untouched

(* A call: its handler has taken nothing, or the ticket it was sent.       *)
LEMMA CallOwnInv ==
  ASSUME IInv, SystemIInv, OwnInv, NEW p \in Parties, NEW h \in Handlers,
         CallIntrospect(p, h) \/ CallPermission(p, h) \/ CallToken(p, h)
  PROVE  OwnInv'
<1>1. UNCHANGED <<rpt, origin, ticket>> /\ serving' = [serving EXCEPT ![h] = p]
  BY DEF CallIntrospect, CallPermission, CallToken, Reaches, Introspect, Permission,
     TakeTicket, RefuseTicket
<1>2. PICK r : r.kind # "rpt" /\ Answer(h, r)
  BY DEF CallIntrospect, CallPermission, CallToken, Introspect, Permission, TakeTicket,
     RefuseTicket, Reply, NoReply
<1>3. reply'[h] = r /\ \A g \in Handlers \ {h} : reply'[g] = reply[g]
  BY <1>2, AnswerIsItsOwn DEF IInv
<1>4. /\ \A g \in Handlers \ {h} : taken'[g] = taken[g]
      /\ taken'[h] # NotTaken => taken'[h].ticket = ticket[p]
  BY DEF CallIntrospect, CallPermission, CallToken, Introspect, Permission, TakeTicket,
     RefuseTicket, Idle, Ready, IInv, TypeOK
<1>5. serving'[h] = p /\ \A g \in Handlers \ {h} : serving'[g] = serving[g]
  BY <1>1 DEF SystemIInv, SystemTypeOK
<1>6. TakenUp(h)
  BY <1>1, <1>2, <1>3, <1>4, <1>5 DEF TakenUp
<1>7. \A g \in Handlers \ {h} : Untouched(g)
  BY <1>1, <1>3, <1>4, <1>5 DEF Untouched
<1> QED
  BY <1>1, <1>6, <1>7, NoTokenMoves

(* An answer that brings no token.                                         *)
LEMMA AnswerOwnInv ==
  ASSUME IInv, SystemIInv, OwnInv, NEW p \in Parties, NEW h \in Handlers,
         Introspected(p, h) \/ Registered(p, h) \/ Refused(p, h)
  PROVE  OwnInv'
<1>1. Arrives(p, h) /\ rpt' = rpt /\ UNCHANGED <<origin, taken>>
  BY DEF Introspected, Registered, Refused, Arrives, Done
<1>2. /\ serving'[h] = Nobody
      /\ \A g \in Handlers \ {h} :
           serving'[g] = serving[g] /\ reply'[g] = reply[g] /\ serving[g] # p
  BY <1>1, ArrivalLeaves
<1>3. \A q \in Parties \ {p} : ticket'[q] = ticket[q]
  BY DEF Introspected, Registered, Refused, Hold, SystemIInv, SystemTypeOK
<1>4. \A g \in Handlers : serving'[g] # Nobody => Untouched(g)
  BY <1>1, <1>2, <1>3 DEF Untouched, SystemIInv, SystemTypeOK
<1> QED
  BY <1>1, <1>4, NoTokenMoves

(* The token moves from the answer to the party.                           *)
LEMMA RedeemedOwnInv ==
  ASSUME IInv, SystemIInv, OwnInv, NEW p \in Parties, NEW h \in Handlers, Redeemed(p, h)
  PROVE  OwnInv'
<1>1. /\ Arrives(p, h) /\ UNCHANGED <<origin, taken>>
      /\ rpt' = [rpt EXCEPT ![p] = reply[h].id]
      /\ ticket' = [ticket EXCEPT ![p] = 0]
  BY DEF Redeemed, Arrives, Done, Hold
<1>2. /\ serving[h] = p /\ serving'[h] = Nobody
      /\ \A g \in Handlers \ {h} :
           serving'[g] = serving[g] /\ reply'[g] = reply[g] /\ serving[g] # p
  BY <1>1, ArrivalLeaves
<1>3. Bringing(h)
  <2>1. p # Nobody
    BY SystemAssumption, Zenon
  <2> QED
    BY <1>2, <2>1 DEF Redeemed, Bringing, Waiting
<1>4. rpt'[p] = reply[h].id /\ \A q \in Parties \ {p} : rpt'[q] = rpt[q]
  BY <1>1 DEF SystemIInv, SystemTypeOK
<1>5. \A g \in Handlers : serving'[g] # Nobody => g # h /\ Untouched(g)
  BY <1>1, <1>2 DEF Untouched, SystemIInv, SystemTypeOK
<1>6. \A g \in Handlers : Bringing(g)' => g # h /\ Bringing(g) /\ Untouched(g)
  BY <1>5 DEF Bringing, Waiting, Untouched
<1>7. OwnTokenOnly'
  <2>1. \A g \in Handlers : Bringing(g)' => origin'[reply'[g].id] = ticket'[serving'[g]]
    BY <1>1, <1>6 DEF OwnInv, OwnTokenOnly, Bringing, Untouched
  <2>2. \A q \in Parties : rpt[q] # reply[h].id
    BY <1>3 DEF OwnInv, OnePlace
  <2>3. \A q, s \in Parties : q # s /\ rpt'[q] # 0 => rpt'[q] # rpt'[s]
    BY <1>4, <2>2 DEF OwnInv, OwnTokenOnly
  <2> QED
    BY <2>1, <2>3 DEF OwnTokenOnly, Bringing
<1>8. TakenForItsCaller'
  BY <1>5 DEF OwnInv, TakenForItsCaller, Waiting, Ready, Untouched
<1>9. OnePlace'
  BY <1>3, <1>4, <1>6 DEF OwnInv, OnePlace, Untouched
<1> QED
  BY <1>7, <1>8, <1>9 DEF OwnInv

(* A token is minted: nobody has it, and only its handler's caller will.   *)
LEMMA FinishOwnInv ==
  ASSUME IInv, SystemIInv, OwnInv, NEW h \in Handlers, Finish(h)
  PROVE  OwnInv'
<1> DEFINE n == minted + 1
<1>1. n \in Nat /\ n \notin DOMAIN rpts /\ DOMAIN origin = DOMAIN rpts
  BY NextIdIsNew DEF IInv, TypeOK
<1>2. UNCHANGED <<rpt, ticket, serving>>
  BY DEF Finish, parties
<1>3. PICK r : r.kind = "rpt" /\ r.id = n /\ Answer(h, r)
  BY DEF Finish, StoreRPT, Reply
<1>4. reply'[h] = r /\ \A g \in Handlers \ {h} : reply'[g] = reply[g]
  BY <1>3, AnswerIsItsOwn DEF IInv
<1>5. /\ origin'[n] = taken[h].ticket
      /\ \A t \in DOMAIN rpts : origin'[t] = origin[t]
  BY <1>1 DEF Finish, StoreRPT, Put
<1>6. ~Ready(h) /\ Ready(h)' /\ \A g \in Handlers \ {h} : taken'[g] = taken[g]
  BY DEF Finish, StoreRPT, Ready, IInv, TypeOK
<1>7. \A q \in Parties : rpt[q] # n
  BY DEF SystemIInv, SystemTypeOK, IInv, TypeOK
<1>8. \A g \in Handlers \ {h} : Bringing(g)' =>
        Bringing(g) /\ reply[g].id \in DOMAIN rpts /\ reply[g].id # n
  BY <1>1, <1>2, <1>4 DEF Bringing, Waiting, IInv, AnsweredIsKnown
<1>9. OwnTokenOnly'
  <2>1. \A g \in Handlers \ {h} : Bringing(g)' => origin'[reply'[g].id] = ticket'[serving'[g]]
    BY <1>2, <1>4, <1>5, <1>8 DEF OwnInv, OwnTokenOnly, Bringing
  <2>2. Bringing(h)' => origin'[reply'[h].id] = ticket'[serving'[h]]
    BY <1>2, <1>3, <1>4, <1>5, <1>6 DEF OwnInv, TakenForItsCaller, Bringing, Waiting
  <2>3. \A p, q \in Parties : p # q /\ rpt'[p] # 0 => rpt'[p] # rpt'[q]
    BY <1>2 DEF OwnInv, OwnTokenOnly
  <2> QED
    BY <2>1, <2>2, <2>3 DEF OwnTokenOnly, Bringing
<1>10. TakenForItsCaller'
  BY <1>2, <1>6 DEF OwnInv, TakenForItsCaller, Waiting, Ready
<1>11. OnePlace'
  BY <1>2, <1>3, <1>4, <1>7, <1>8 DEF OwnInv, OnePlace
<1> QED
  BY <1>9, <1>10, <1>11 DEF OwnInv

(* The answer of a handler that nobody waits for.                          *)
LEMMA OrphanOwnInv ==
  ASSUME IInv, OwnInv, NEW h \in Handlers, Orphan(h) PROVE OwnInv'
<1>1. UNCHANGED <<rpt, origin, taken, ticket, serving>> /\ serving[h] = Nobody
  BY DEF Orphan, Done, parties
<1>2. \A g \in Handlers \ {h} : reply'[g] = reply[g]
  BY AnswerIsItsOwn DEF IInv, Orphan, Done
<1> QED
  BY <1>1, <1>2, NoTokenMoves DEF Untouched

LEMMA NextOwnInv ==
  ASSUME IInv, SystemIInv, OwnInv, [SystemNext]_systemVars
  PROVE  OwnInv'
<1>1. ASSUME NEW p \in Parties, Step(p) PROVE OwnInv'
  BY <1>1, VisitOwnInv, CallOwnInv, AnswerOwnInv, RedeemedOwnInv DEF Step
<1>2. CASE UNCHANGED systemVars
  <2>1. UNCHANGED <<rpt, origin, taken, reply, ticket, serving>>
    BY <1>2 DEF systemVars, vars, parties
  <2> QED
    BY <2>1, NoTokenMoves DEF Untouched
<1> QED
  BY <1>1, <1>2, VisitOwnInv, LossOwnInv, FinishOwnInv, OrphanOwnInv DEF SystemNext

-----------------------------------------------------------------------------
(***************************************************************************)
(* The token just redeemed.  A ticket is for the route that its party asks *)
(* for and a token for its ticket, so the token covers that route; and the *)
(* server still knows it when the party asks again.                        *)
(***************************************************************************)
FreshParty(p) ==
  /\ stage[p] = "redeem" => ticket[p] \in DOMAIN issued /\ issued[ticket[p]] = goal[p]
  /\ retrying[p] => /\ rpt[p] \in DOMAIN rpts /\ Covers(rpts[rpt[p]], goal[p])
                    /\ stage[p] # "register" /\ stage[p] # "redeem"

FreshAnswer(h) ==
  /\ reply[h].kind = "ticket" =>
       reply[h].id \in DOMAIN issued /\ issued[reply[h].id] = goal[serving[h]]
  /\ retrying[serving[h]] /\ reply[h] # NoReply => reply[h].kind = "active"

LEMMA FreshInvIs ==
  FreshInv <=> /\ \A p \in Parties : FreshParty(p)
               /\ \A h \in Handlers : Waiting(h) => FreshAnswer(h)
  BY Zenon DEF FreshInv, FreshTokenSuffices, TicketForGoal, FreshToken, FreshParty, FreshAnswer

LEMMA InitFreshInv == SystemInit => FreshInv
<1> SUFFICES ASSUME SystemInit PROVE FreshInv
  OBVIOUS
<1>1. \A h \in Handlers : ~Waiting(h)
  BY DEF SystemInit, Waiting
<1>2. \A p \in Parties : stage[p] = "start" /\ retrying[p] = FALSE
  BY DEF SystemInit
<1> QED
  BY <1>1, <1>2 DEF FreshInv, FreshTokenSuffices, TicketForGoal, FreshToken

(* What every server step leaves of the tickets and tokens issued.         *)
LEMMA IssuedGrows ==
  ASSUME IInv, [Next]_vars
  PROVE  /\ \A t \in DOMAIN issued : t \in DOMAIN issued' /\ issued'[t] = issued[t]
         /\ \A r \in DOMAIN rpts : r \in DOMAIN rpts' /\ rpts'[r] = rpts[r]
<1> USE DEF IInv
<1>1. minted \in Nat /\ minted + 1 \notin DOMAIN issued
  BY NextIdIsNew DEF TypeOK
<1>2. ASSUME NEW h \in Handlers, NEW p \in Perms, Permission(h, p)
      PROVE  \A t \in DOMAIN issued : t \in DOMAIN issued' /\ issued'[t] = issued[t]
  <2>1. issued' = Put(issued, minted + 1, p)
    BY <1>2 DEF Permission
  <2> QED
    BY <1>1, <2>1 DEF Put
<1>3. ASSUME ~\E h \in Handlers : \E p \in Perms : Permission(h, p)
      PROVE  issued' = issued
  BY <1>3 DEF Next, vars, InvalidPermission, InvalidTicketOrToken, Invalid, CreateResourceSet,
     StoreRPT, TakeTicket, RefuseTicket, Introspect, Done
<1> QED
  BY <1>2, <1>3, ServerGrows

(* A party, or an answer under way, that a step leaves alone.              *)
LEMMA PartyStaysFresh ==
  ASSUME IInv, [Next]_vars, NEW q, FreshParty(q),
         stage'[q] = stage[q], ticket'[q] = ticket[q], rpt'[q] = rpt[q],
         goal'[q] = goal[q], retrying'[q] = retrying[q]
  PROVE  FreshParty(q)'
  BY IssuedGrows DEF FreshParty

LEMMA AnswerStaysFresh ==
  ASSUME IInv, [Next]_vars, NEW g, FreshAnswer(g),
         serving'[g] = serving[g], reply'[g] = reply[g],
         goal'[serving[g]] = goal[serving[g]], retrying'[serving[g]] = retrying[serving[g]]
  PROVE  FreshAnswer(g)'
  BY IssuedGrows DEF FreshAnswer

(* A step of party p keeps FreshInv if it leaves the other parties and     *)
(* the handlers they wait for alone.                                       *)
LEMMA FreshAfter ==
  ASSUME IInv, SystemIInv, FreshInv, [Next]_vars, NEW p \in Parties,
         FreshParty(p)',
         \A q \in Parties \ {p} :
           /\ stage'[q] = stage[q] /\ ticket'[q] = ticket[q] /\ rpt'[q] = rpt[q]
           /\ goal'[q] = goal[q] /\ retrying'[q] = retrying[q],
         \A g \in Handlers : Waiting(g)' =>
           \/ FreshAnswer(g)'
           \/ /\ serving'[g] = serving[g] /\ reply'[g] = reply[g]
              /\ goal'[serving[g]] = goal[serving[g]]
              /\ retrying'[serving[g]] = retrying[serving[g]]
  PROVE  FreshInv'
<1>1. /\ \A q \in Parties : FreshParty(q)
      /\ \A g \in Handlers : Waiting(g) => FreshAnswer(g)
  BY FreshInvIs
<1>2. \A q \in Parties : FreshParty(q)'
  <2>1. ASSUME NEW q \in Parties, q # p PROVE FreshParty(q)'
    BY <1>1, <2>1, PartyStaysFresh
  <2> QED
    BY <2>1
<1>3. ASSUME NEW g \in Handlers, Waiting(g)' PROVE FreshAnswer(g)'
  <2>1. CASE FreshAnswer(g)'
    BY <2>1
  <2>2. CASE /\ serving'[g] = serving[g] /\ reply'[g] = reply[g]
             /\ goal'[serving[g]] = goal[serving[g]]
             /\ retrying'[serving[g]] = retrying[serving[g]]
    <3>1. Waiting(g)
      BY <1>3, <2>2 DEF Waiting
    <3> QED
      BY <1>1, <2>2, <3>1, AnswerStaysFresh
  <2> QED
    BY <1>3, <2>1, <2>2
<1> QED
  BY <1>2, <1>3, Zenon DEF FreshInv, FreshTokenSuffices, TicketForGoal, FreshToken, FreshParty,
     FreshAnswer

(* The party's own steps.  A party that asks again holds a token, and one  *)
(* between two visits waits for no answer.                                 *)
LEMMA GetFreshInv ==
  ASSUME IInv, SystemIInv, FreshInv, [Next]_vars, NEW p \in Parties, Get(p)
  PROVE  FreshInv'
<1>1. /\ stage' = [stage EXCEPT ![p] = IF rpt[p] = 0 THEN "register" ELSE "introspect"]
      /\ UNCHANGED <<vars, goal, retrying, ticket, rpt, serving>>
  BY DEF Get, Goto
<1>2. FreshParty(p)
  BY FreshInvIs
<1>3. retrying[p] => rpt[p] # 0
  BY <1>2 DEF FreshParty, IInv, TypeOK, Ids
<1>4. /\ stage'[p] = IF rpt[p] = 0 THEN "register" ELSE "introspect"
      /\ \A q \in Parties \ {p} : stage'[q] = stage[q]
  BY <1>1 DEF SystemIInv, SystemTypeOK
<1>5. FreshParty(p)'
  BY <1>1, <1>2, <1>3, <1>4 DEF FreshParty, vars
<1>6. UNCHANGED reply
  BY <1>1 DEF vars
<1> QED
  BY <1>1, <1>4, <1>5, <1>6, FreshAfter

LEMMA NextVisitFreshInv ==
  ASSUME IInv, SystemIInv, FreshInv, [Next]_vars, NEW p \in Parties, NextVisit(p)
  PROVE  FreshInv'
<1>1. PICK r \in Routes :
        /\ stage[p] \in {"served", "failed"}
        /\ stage' = [stage EXCEPT ![p] = "start"]
        /\ goal' = [goal EXCEPT ![p] = r]
        /\ retrying' = [retrying EXCEPT ![p] = FALSE]
        /\ UNCHANGED <<ticket, rpt, serving, reply>>
  BY DEF NextVisit, Goto, vars
<1>2. /\ stage'[p] = "start" /\ retrying'[p] = FALSE
      /\ \A q \in Parties \ {p} :
           stage'[q] = stage[q] /\ goal'[q] = goal[q] /\ retrying'[q] = retrying[q]
  BY <1>1 DEF SystemIInv, SystemTypeOK
<1>3. FreshParty(p)'
  BY <1>2 DEF FreshParty
<1>4. ASSUME NEW g \in Handlers, Waiting(g)', serving[g] = p
      PROVE  FreshAnswer(g)'
  <2>1. Fits(g, p)
    BY <1>4, FitsNow
  <2>2. reply'[g] = NoReply
    BY <1>1, <2>1 DEF Fits
  <2> QED
    BY <2>2 DEF FreshAnswer, NoReply, Reply
<1>5. \A g \in Handlers : Waiting(g)' => serving[g] \in Parties
  BY <1>1 DEF Waiting, SystemIInv, SystemTypeOK
<1>6. \A g \in Handlers : Waiting(g)' =>
        \/ FreshAnswer(g)'
        \/ /\ serving'[g] = serving[g] /\ reply'[g] = reply[g]
           /\ goal'[serving[g]] = goal[serving[g]]
           /\ retrying'[serving[g]] = retrying[serving[g]]
  BY <1>1, <1>2, <1>4, <1>5
<1> QED
  BY <1>1, <1>2, <1>3, <1>6, FreshAfter

(* A call that fails: the visit ends, or the same call is made again.      *)
LEMMA LossFreshInv ==
  ASSUME IInv, SystemIInv, FreshInv, [Next]_vars, NEW p \in Parties,
         LoseTicket(p) \/ \E h \in Handlers : LoseCall(p, h)
  PROVE  FreshInv'
<1>1. /\ UNCHANGED <<goal, retrying, rpt, reply, issued, rpts>>
      /\ GiveUp(p) \/ Resend(p)
      /\ \A g \in Handlers : Waiting(g)' => serving'[g] = serving[g]
  BY DEF LoseTicket, LoseCall, vars, Waiting, SystemIInv, SystemTypeOK
<1>2. /\ stage'[p] = "failed" \/ (stage'[p] = stage[p] /\ ticket'[p] = ticket[p])
      /\ \A q \in Parties \ {p} : stage'[q] = stage[q] /\ ticket'[q] = ticket[q]
  BY <1>1 DEF GiveUp, Resend, Goto, Hold, SystemIInv, SystemTypeOK
<1>3. FreshParty(p)
  BY FreshInvIs
<1>4. FreshParty(p)'
  BY <1>1, <1>2, <1>3 DEF FreshParty
<1> QED
  BY <1>1, <1>2, <1>4, FreshAfter

(* A call: what its handler answers at once suits the party.               *)
LEMMA CallFreshInv ==
  ASSUME IInv, SystemIInv, FreshInv, [Next]_vars, NEW p \in Parties, NEW h \in Handlers,
         CallIntrospect(p, h) \/ CallPermission(p, h) \/ CallToken(p, h)
  PROVE  FreshInv'
<1>1. /\ UNCHANGED <<stage, goal, retrying, ticket, rpt>>
      /\ serving' = [serving EXCEPT ![h] = p]
  BY DEF CallIntrospect, CallPermission, CallToken, Reaches
<1>2. FreshParty(p)
  BY FreshInvIs
<1>3. FreshParty(p)'
  BY <1>1, <1>2, PartyStaysFresh
<1>4. PICK r : /\ Answer(h, r)
               /\ \/ /\ r.kind = "active" \/ (r.kind = "inactive" /\ ~retrying[p])
                     /\ r # NoReply
                  \/ /\ r.kind = "ticket" /\ ~retrying[p]
                     /\ r.id \in DOMAIN issued' /\ issued'[r.id] = goal[p]
                  \/ ~retrying[p] /\ r.kind # "ticket"
  <2>1. CASE CallIntrospect(p, h)
    <3>1. retrying[p] => rpt[p] \in DOMAIN rpts
      BY <1>2 DEF FreshParty
    <3>2. PICK r : /\ Answer(h, r) /\ r.kind \in {"active", "inactive"}
                   /\ rpt[p] \in DOMAIN rpts => r.kind = "active"
      BY <2>1 DEF CallIntrospect, Introspect, Reply
    <3> QED
      BY <3>1, <3>2 DEF NoReply, Reply
  <2>2. CASE CallPermission(p, h)
    <3>1. PICK r : r.kind = "ticket" /\ r.id = minted + 1 /\ Answer(h, r)
      BY <2>2 DEF CallPermission, Permission, Reply
    <3>2. issued' = Put(issued, minted + 1, goal[p]) /\ stage[p] = "register"
      BY <2>2 DEF CallPermission, Permission
    <3>3. minted + 1 \in DOMAIN issued' /\ issued'[minted + 1] = goal[p]
      BY <3>2 DEF Put
    <3> QED
      BY <1>2, <3>1, <3>2, <3>3 DEF FreshParty
  <2>3. CASE CallToken(p, h)
    <3>1. PICK r : (r = NoReply \/ r.kind = "invalid_grant") /\ Answer(h, r)
      BY <2>3 DEF CallToken, TakeTicket, RefuseTicket, Reply
    <3>2. stage[p] = "redeem"
      BY <2>3 DEF CallToken
    <3> QED
      BY <1>2, <3>1, <3>2 DEF FreshParty, NoReply, Reply
  <2> QED
    BY <2>1, <2>2, <2>3
<1>5. reply'[h] = r /\ \A g \in Handlers \ {h} : reply'[g] = reply[g]
  BY <1>4, AnswerIsItsOwn DEF IInv
<1>6. serving'[h] = p /\ \A g \in Handlers \ {h} : serving'[g] = serving[g]
  BY <1>1 DEF SystemIInv, SystemTypeOK
<1>7. FreshAnswer(h)'
  BY <1>1, <1>4, <1>5, <1>6 DEF FreshAnswer
<1> QED
  BY <1>1, <1>3, <1>5, <1>6, <1>7, FreshAfter

(* An answer: what it brings suits the party that waited for it.           *)
LEMMA AnswerFreshInv ==
  ASSUME IInv, SystemIInv, OwnInv, FreshInv, [Next]_vars, NEW p \in Parties, NEW h \in Handlers,
         Introspected(p, h) \/ Registered(p, h) \/ Redeemed(p, h) \/ Refused(p, h)
  PROVE  FreshInv'
<1>1. Arrives(p, h) /\ UNCHANGED <<goal, issued, rpts, origin>>
  BY DEF Introspected, Registered, Redeemed, Refused, Arrives, Done
<1>2. /\ serving[h] = p /\ serving'[h] = Nobody
      /\ \A g \in Handlers \ {h} :
           serving'[g] = serving[g] /\ reply'[g] = reply[g] /\ serving[g] # p
  BY <1>1, ArrivalLeaves
<1>3. \A q \in Parties \ {p} :
        /\ stage'[q] = stage[q] /\ ticket'[q] = ticket[q] /\ rpt'[q] = rpt[q]
        /\ retrying'[q] = retrying[q]
  BY DEF Introspected, Registered, Redeemed, Refused, Goto, Hold, SystemIInv, SystemTypeOK
<1>4. FreshParty(p) /\ FreshAnswer(h)
  <2>1. p # Nobody
    BY SystemAssumption, Zenon
  <2> QED
    BY <1>2, <2>1, FreshInvIs DEF Waiting
<1>5. Fits(h, p) /\ reply[h] # NoReply
  BY <1>1, <1>2, FitsNow DEF Arrives, Done
<1>6. FreshParty(p)'
  <2>1. CASE Introspected(p, h)
    <3>1. /\ stage[p] = "introspect" /\ UNCHANGED <<rpt, retrying>>
          /\ stage'[p] = IF Allowed(p, h) THEN "served" ELSE "register"
      BY <2>1 DEF Introspected, Goto, SystemIInv, SystemTypeOK
    <3>2. ASSUME retrying[p] PROVE Allowed(p, h)
      <4>1. reply[h].kind = "active" /\ reply[h].of = rpt[p]
        BY <1>2, <1>4, <1>5, <3>1, <3>2 DEF FreshAnswer, Fits
      <4>2. rpts[rpt[p]] = reply[h].perm
        BY <4>1 DEF IInv, AnsweredIsKnown
      <4> QED
        BY <1>4, <3>2, <4>1, <4>2 DEF FreshParty, Allowed
    <3> QED
      BY <1>1, <1>4, <3>1, <3>2 DEF FreshParty
  <2>2. CASE Registered(p, h)
    <3>1. /\ stage[p] = "register" /\ retrying' = retrying
          /\ ticket'[p] = IF retrying[p] THEN 0 ELSE reply[h].id
      BY <2>2 DEF Registered, Hold, SystemIInv, SystemTypeOK
    <3>2. ~retrying[p] /\ reply[h].kind = "ticket"
      BY <1>4, <1>5, <3>1 DEF FreshParty, Fits
    <3> QED
      BY <1>1, <1>2, <1>4, <3>1, <3>2 DEF FreshParty, FreshAnswer
  <2>3. CASE Redeemed(p, h)
    <3>1. /\ stage[p] = "redeem" /\ reply[h].kind = "rpt"
          /\ stage'[p] = "start" /\ rpt'[p] = reply[h].id
      BY <2>3 DEF Redeemed, Goto, SystemIInv, SystemTypeOK
    <3>2. Waiting(h)
      BY <1>2, SystemAssumption, Zenon DEF Waiting
    <3>3. origin[reply[h].id] = ticket[p]
      BY <1>2, <3>1, <3>2 DEF OwnInv, OwnTokenOnly
    <3>4. reply[h].id \in DOMAIN rpts /\ rpts[reply[h].id] = goal[p]
      BY <1>4, <3>1, <3>3 DEF IInv, AnsweredIsKnown, PermissionCarried, FreshParty
    <3> QED
      BY <1>1, <3>1, <3>4 DEF FreshParty, Covers
  <2>4. CASE Refused(p, h)
    <3>1. stage[p] = "redeem" /\ stage'[p] = "failed" /\ retrying' = retrying
      BY <2>4 DEF Refused, Goto, SystemIInv, SystemTypeOK
    <3> QED
      BY <1>4, <3>1 DEF FreshParty
  <2> QED
    BY <2>1, <2>2, <2>3, <2>4
<1>7. \A g \in Handlers : Waiting(g)' =>
        /\ serving'[g] = serving[g] /\ reply'[g] = reply[g]
        /\ goal'[serving[g]] = goal[serving[g]]
        /\ retrying'[serving[g]] = retrying[serving[g]]
  BY <1>1, <1>2, <1>3 DEF Waiting, SystemIInv, SystemTypeOK
<1> QED
  BY <1>1, <1>3, <1>6, <1>7, FreshAfter

(* The server's own steps: a party still redeeming does not ask again yet. *)
LEMMA ServerFreshInv ==
  ASSUME IInv, SystemIInv, FreshInv, [Next]_vars, NEW h \in Handlers,
         Finish(h) \/ Orphan(h)
  PROVE  FreshInv'
<1>1. UNCHANGED <<stage, goal, retrying, ticket, rpt, serving>>
  BY DEF Finish, Orphan, parties
<1>2. \A g \in Handlers \ {h} : reply'[g] = reply[g]
  BY AnswerIsItsOwn DEF Finish, Orphan, StoreRPT, Done, IInv
<1>3. /\ \A q \in Parties : FreshParty(q)
      /\ \A g \in Handlers : Waiting(g) => FreshAnswer(g)
  BY FreshInvIs
<1>4. \A q \in Parties : FreshParty(q)'
  BY <1>1, <1>3, PartyStaysFresh
<1>5. ASSUME Waiting(h) PROVE FreshAnswer(h)'
  <2>1. PICK p \in Parties : serving[h] = p
    BY <1>5 DEF Waiting, SystemIInv, SystemTypeOK
  <2>2. StoreRPT(h)
    BY <1>5 DEF Finish, Orphan, Waiting
  <2>3. PICK r : r.kind = "rpt" /\ reply'[h] = r
    BY <2>2, AnswerIsItsOwn DEF StoreRPT, Reply, IInv
  <2>4. ~retrying[p]
    BY <1>3, <2>1, <2>2, FitsNow DEF Fits, FreshParty, StoreRPT
  <2> QED
    BY <1>1, <2>1, <2>3, <2>4 DEF FreshAnswer
<1>6. ASSUME NEW g \in Handlers, Waiting(g)' PROVE FreshAnswer(g)'
  <2>1. Waiting(g)
    BY <1>1, <1>6 DEF Waiting
  <2>2. CASE g # h
    BY <1>1, <1>2, <1>3, <2>1, <2>2, AnswerStaysFresh
  <2> QED
    BY <1>5, <2>1, <2>2
<1> QED
  BY <1>4, <1>6, Zenon DEF FreshInv, FreshTokenSuffices, TicketForGoal, FreshToken, FreshParty,
     FreshAnswer

LEMMA NextFreshInv ==
  ASSUME IInv, SystemIInv, OwnInv, FreshInv, [SystemNext]_systemVars
  PROVE  FreshInv'
<1>1. [Next]_vars
  BY StepIsServerStep DEF SystemIInv
<1>2. ASSUME NEW p \in Parties, Step(p) PROVE FreshInv'
  BY <1>1, <1>2, GetFreshInv, CallFreshInv, AnswerFreshInv DEF Step
<1>3. CASE UNCHANGED systemVars
  <2>1. UNCHANGED <<issued, rpts, reply, stage, goal, retrying, ticket, rpt, serving>>
    BY <1>3 DEF systemVars, vars, parties
  <2> QED
    BY <2>1 DEF FreshInv, FreshTokenSuffices, TicketForGoal, FreshToken, Waiting
<1> QED
  BY <1>1, <1>2, <1>3, NextVisitFreshInv, LossFreshInv, ServerFreshInv DEF SystemNext

-----------------------------------------------------------------------------
(* The theorems.                                                           *)

LEMMA AllInvariants == SystemSpec => [](IInv /\ SystemIInv /\ TicketInv)
<1>1. SystemInit => IInv /\ SystemIInv /\ TicketInv
  BY InitIInv, InitSystemIInv, InitTicketInv DEF SystemInit
<1>2. IInv /\ SystemIInv /\ TicketInv /\ [SystemNext]_systemVars =>
        (IInv /\ SystemIInv /\ TicketInv)'
  BY NextIInv, NextSystemIInv, NextTicketInv, StepIsServerStep DEF SystemIInv
<1> QED
  BY <1>1, <1>2, PTL DEF SystemSpec

LEMMA TokenInvariants == SystemSpec => [](OwnInv /\ FreshInv)
<1>1. SystemInit => OwnInv /\ FreshInv
  BY InitOwnInv, InitFreshInv
<1>2. IInv /\ SystemIInv /\ OwnInv /\ FreshInv /\ [SystemNext]_systemVars =>
        (OwnInv /\ FreshInv)'
  BY NextOwnInv, NextFreshInv
<1> QED
  BY <1>1, <1>2, AllInvariants, PTL DEF SystemSpec

(* The parties' and the network's state keeps its type, and every answer   *)
(* under way fits what its party asked.                                    *)
THEOREM SystemInvariance == SystemSpec => []SystemIInv
  BY AllInvariants, PTL

(* The parties' and the network's state keeps its type, and a party holds  *)
(* a ticket exactly while it redeems one (examples/as-rs-demo/main.go:     *)
(* 153-221).                                                               *)
THEOREM SystemTypeCorrect == SystemSpec => []SystemTypeOK
<1>1. SystemIInv => SystemTypeOK
  BY DEF SystemIInv
<1> QED
  BY <1>1, SystemInvariance, PTL

(***************************************************************************)
(* The composition is one of the server: whatever the parties do and       *)
(* whichever calls fail, the server takes only its own steps.              *)
(***************************************************************************)
THEOREM Composition == SystemSpec => UsesTheServer
<1>1. SystemInit => Init
  BY DEF SystemInit
<1>2. SystemIInv /\ [SystemNext]_systemVars => [Next]_vars
  BY StepIsServerStep DEF SystemIInv
<1> QED
  BY <1>1, <1>2, SystemInvariance, PTL DEF SystemSpec, UsesTheServer, Spec

(***************************************************************************)
(* Whatever the parties, the resource server and the failing calls make of *)
(* it, a ticket is redeemed at most once and for its own permission, and   *)
(* what an answer names is known (examples/as-rs-demo/main.go:331-385).    *)
(***************************************************************************)
THEOREM PromiseInTheFlow ==
  SystemSpec => KeepsPromise /\ [](TicketConserved /\ PermissionCarried /\ AnsweredIsKnown)
<1>1. SystemSpec => Spec
  BY Composition DEF UsesTheServer
<1> QED
  BY <1>1, Refinement, SingleUse, RightPermission, HonestAnswers, PTL

(***************************************************************************)
(* Whoever is served holds a token minted for a ticket that the resource   *)
(* server registered for the same resource and enough scopes               *)
(* (examples/as-rs-demo/main.go:411-431).                                  *)
(***************************************************************************)
THEOREM Access == SystemSpec => []AccessJustified
<1>1. IInv /\ SystemIInv => AccessJustified
  BY DEF IInv, PermissionCarried, TypeOK, SystemIInv, ServedByToken, AccessJustified
<1> QED
  BY <1>1, AllInvariants, PTL

(***************************************************************************)
(* A party is told that its ticket is not valid only when it sent that     *)
(* ticket before and a call failed: no visit ends in a refusal while its   *)
(* calls succeed, whatever the other parties do                            *)
(* (examples/as-rs-demo/main.go:346-357).                                  *)
(***************************************************************************)
THEOREM RefusalsAreResends == SystemSpec => []RefusedOnlyAfterResend
<1>1. TicketInv => RefusedOnlyAfterResend
  BY DEF TicketInv
<1> QED
  BY <1>1, AllInvariants, PTL

(***************************************************************************)
(* Whoever redeems gets the token of its own ticket, and no two parties    *)
(* the same, whatever is redeemed, given up and sent again at once         *)
(* (examples/as-rs-demo/main.go:346-361).                                  *)
(***************************************************************************)
THEOREM TokensAreOwn == SystemSpec => []OwnTokenOnly
<1>1. OwnInv => OwnTokenOnly
  BY DEF OwnInv
<1> QED
  BY <1>1, TokenInvariants, PTL

(***************************************************************************)
(* A party that redeemed a ticket for a route is let in when it asks       *)
(* again: the resource server never sends it for a second ticket, whoever  *)
(* else redeems and whichever calls fail                                   *)
(* (examples/as-rs-demo/main.go:208-226, 415-431).                         *)
(***************************************************************************)
THEOREM FreshTokensSuffice == SystemSpec => []FreshTokenSuffices
<1>1. FreshInv => FreshTokenSuffices
  BY DEF FreshInv
<1> QED
  BY <1>1, TokenInvariants, PTL

(***************************************************************************)
(* Tickets do not expire, and still no more of them stay in the server's   *)
(* map for nothing than calls have failed, whoever asks for what and       *)
(* however the failures fall (examples/as-rs-demo/main.go:336-339).        *)
(***************************************************************************)
THEOREM LeaksAreLosses == SystemSpec => []LeaksOnlyByLoss
<1>1. SystemInit => LeakInv
  BY InitLeakInv
<1>2. IInv /\ SystemIInv /\ FreshTokenSuffices /\ LeakInv /\ [SystemNext]_systemVars => LeakInv'
  BY NextLeakInv
<1>3. LeakInv => LeaksOnlyByLoss
  BY DEF LeakInv
<1> QED
  BY <1>1, <1>2, <1>3, AllInvariants, FreshTokensSuffice, PTL DEF SystemSpec
=============================================================================
