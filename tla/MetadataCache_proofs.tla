------------------------ MODULE MetadataCache_proofs ------------------------
(***************************************************************************)
(* Proofs about MetadataCache, for any number of callers, any issuers and  *)
(* headers, and any bounds.                                                *)
(***************************************************************************)
EXTENDS MetadataCache, GoInt_proofs, TLAPS

-----------------------------------------------------------------------------
(***************************************************************************)
(* Lemmas on the pure operators.                                           *)
(***************************************************************************)

(***************************************************************************)
(* Whatever the header, the lifetime is an integer number of time units:   *)
(* what is computed from it never leaves arithmetic                        *)
(* (client/metadata.go:139-156).                                           *)
(***************************************************************************)
LEMMA CacheTTLType ==
  ASSUME NEW header \in Seq(Directives), NEW fallback \in Int
  PROVE  CacheTTL(header, fallback) \in Int
<1>1. CASE MaxAgeAt(header) = {}
  BY <1>1 DEF CacheTTL
<1>2. CASE MaxAgeAt(header) # {}
  <2>1. MaxAgeAt(header) \subseteq DOMAIN header /\ MaxAgeAt(header) \subseteq Nat
    BY DEF MaxAgeAt
  <2>2. \E i \in MaxAgeAt(header) : \A j \in MaxAgeAt(header) : i <= j
    BY <1>2, <2>1, LeastNat
  <2>3. FirstMaxAge(header) \in Directives
    BY <2>1, <2>2 DEF FirstMaxAge
  <2>4. FirstMaxAge(header)[2] * Second \in Int
    BY <2>3, SecondAssumption DEF Directives
  <2> QED
    BY <1>2, <2>4, WrapInt DEF CacheTTL
<1> QED
  BY <1>1, <1>2

LEMMA LifetimeType == ASSUME NEW d \in Docs PROVE Lifetime(d) \in Int
  BY CacheTTLType, CacheAssumption DEF Lifetime, Docs

-----------------------------------------------------------------------------
(***************************************************************************)
(* The inductive invariant.                                                *)
(***************************************************************************)
LEMMA InitIInv == Init => IInv
<1> SUFFICES ASSUME Init PROVE IInv
  OBVIOUS
<1>1. TypeOK
  BY DEF Init, TypeOK, Ended
<1>2. InPlay = {}
  BY DEF Init, InPlay
<1> QED
  BY <1>1, <1>2 DEF Init, IInv, NoMixUp, Got, BoundedStaleness, ServedInOrder,
     OwnAnswer, ExpiryWithinGrant

(***************************************************************************)
(* A step that leaves the cache, the answers in play, and the finished     *)
(* calls' documents alone keeps the order of service.                      *)
(***************************************************************************)
LEMMA ServedInOrderKept ==
  ASSUME ServedInOrder, TypeOK, TypeOK', InPlay' \subseteq InPlay,
         published <= published', clock <= clock'
  PROVE  ServedInOrder'
<1>1. \A d \in InPlay' : d \in Docs /\ d.version <= published' /\ d.servedAt <= clock'
  BY DEF ServedInOrder, TypeOK, Docs
<1> QED
  BY <1>1 DEF ServedInOrder

LEMMA CallIInv == ASSUME IInv, NEW c \in Callers, Call(c) PROVE IInv'
<1> USE DEF IInv, Call, Goto
<1>1. TypeOK'
  BY DEF TypeOK, Ended
<1>2. InPlay' \subseteq InPlay
  BY DEF InPlay, TypeOK, Ended
<1>3. ServedInOrder'
  BY <1>1, <1>2, ServedInOrderKept DEF TypeOK
<1>4. NoMixUp' /\ BoundedStaleness' /\ ExpiryWithinGrant'
  BY DEF NoMixUp, Got, BoundedStaleness, ExpiryWithinGrant, TypeOK, Ended, Lifetime
<1>5. OwnAnswer'
  BY DEF OwnAnswer, TypeOK
<1> QED
  BY <1>1, <1>3, <1>4, <1>5

LEMMA HitIInv == ASSUME IInv, NEW c \in Callers, Hit(c) PROVE IInv'
<1> USE DEF IInv, Hit, Goto
<1>0. cache # NoEntry /\ now[c] < cache.expires /\ cache \in Entries
  BY DEF Usable, TypeOK
<1>1. TypeOK'
  BY <1>0 DEF TypeOK, Ended, Entries
<1>2. InPlay' \subseteq InPlay
  BY DEF InPlay, TypeOK
<1>3. ServedInOrder'
  BY <1>1, <1>2, ServedInOrderKept DEF TypeOK
<1>4. NoMixUp'
  BY <1>0 DEF NoMixUp, Got, TypeOK
<1>5. BoundedStaleness'
  <2>1. now[c] < cache.doc.servedAt + Lifetime(cache.doc)
    <3>1. Lifetime(cache.doc) \in Int /\ cache.doc.servedAt \in Int
      BY <1>0, LifetimeType DEF Entries, Docs
    <3> QED
      BY <1>0, <3>1 DEF ExpiryWithinGrant, Entries, TypeOK
  <2> QED
    BY <2>1 DEF BoundedStaleness, TypeOK, Lifetime
<1>6. OwnAnswer' /\ ExpiryWithinGrant'
  BY DEF OwnAnswer, ExpiryWithinGrant, TypeOK, Lifetime
<1> QED
  BY <1>1, <1>3, <1>4, <1>5, <1>6

LEMMA MissIInv == ASSUME IInv, NEW c \in Callers, Miss(c) PROVE IInv'
<1> USE DEF IInv, Miss, Goto
<1>1. TypeOK'
  BY DEF TypeOK
<1>2. InPlay' \subseteq InPlay
  BY DEF InPlay, TypeOK
<1>3. ServedInOrder'
  BY <1>1, <1>2, ServedInOrderKept DEF TypeOK
<1>4. NoMixUp' /\ BoundedStaleness' /\ ExpiryWithinGrant' /\ OwnAnswer'
  BY DEF NoMixUp, Got, BoundedStaleness, ExpiryWithinGrant, OwnAnswer, TypeOK, Lifetime
<1> QED
  BY <1>1, <1>3, <1>4

LEMMA AnswerIInv ==
  ASSUME IInv, NEW c \in Callers, NEW i \in Issuers, NEW h \in Headers, Answer(c, i, h)
  PROVE  IInv'
<1> USE DEF IInv, Answer, Goto
<1> DEFINE new == [version |-> published, issuer |-> i, header |-> h, servedAt |-> clock]
<1>1. new \in Docs
  BY DEF Docs, TypeOK
<1>2. TypeOK'
  BY <1>1 DEF TypeOK
<1>3. InPlay' \subseteq InPlay \cup {new}
  BY DEF InPlay, TypeOK
<1>4. ServedInOrder'
  <2>1. \A d \in InPlay' : d \in Docs /\ d.version <= published' /\ d.servedAt <= clock'
    BY <1>1, <1>3 DEF ServedInOrder, TypeOK
  <2>2. ASSUME NEW d \in InPlay', NEW e \in InPlay', d.version < e.version
        PROVE  d.servedAt <= e.servedAt
    <3>1. CASE d \in InPlay /\ e \in InPlay
      BY <2>2, <3>1 DEF ServedInOrder
    <3>2. CASE e = new
      BY <2>1, <3>2
    <3>3. CASE d = new
      BY <2>1, <2>2, <3>3, <1>1 DEF Docs
    <3> QED
      BY <1>3, <3>1, <3>2, <3>3
  <2> QED
    BY <2>1, <2>2 DEF ServedInOrder
<1>5. OwnAnswer'
  BY DEF OwnAnswer, TypeOK
<1>6. NoMixUp' /\ BoundedStaleness' /\ ExpiryWithinGrant'
  BY DEF NoMixUp, Got, BoundedStaleness, ExpiryWithinGrant, TypeOK, Lifetime
<1> QED
  BY <1>2, <1>4, <1>5, <1>6

(* Both ways a call ends with an error.                                    *)
LEMMA ErrorIInv ==
  ASSUME IInv, NEW c \in Callers, FetchFails(c) \/ RejectMixUp(c)
  PROVE  IInv'
<1> USE DEF IInv, FetchFails, RejectMixUp, Goto
<1>1. TypeOK'
  BY DEF TypeOK, Ended
<1>2. InPlay' \subseteq InPlay
  BY DEF InPlay, TypeOK
<1>3. ServedInOrder'
  BY <1>1, <1>2, ServedInOrderKept DEF TypeOK
<1>4. NoMixUp' /\ BoundedStaleness' /\ ExpiryWithinGrant' /\ OwnAnswer'
  BY DEF NoMixUp, Got, BoundedStaleness, ExpiryWithinGrant, OwnAnswer, TypeOK, Lifetime
<1> QED
  BY <1>1, <1>3, <1>4

LEMMA StoreIInv == ASSUME IInv, NEW c \in Callers, Store(c) PROVE IInv'
<1> USE DEF IInv, Store, Goto
<1>1. doc[c] \in InPlay /\ doc[c] \in Docs /\ now[c] <= doc[c].servedAt
  BY DEF InPlay, ServedInOrder, OwnAnswer
<1>2. Lifetime(doc[c]) \in Int /\ now[c] \in Int /\ doc[c].servedAt \in Int
  BY <1>1, LifetimeType DEF TypeOK, Docs
<1>3. cache'.doc = doc[c] /\ cache'.expires = now[c] + Lifetime(doc[c])
  OBVIOUS
<1>4. TypeOK'
  BY <1>1, <1>2 DEF TypeOK, Ended, Entries
<1>5. InPlay' \subseteq InPlay
  BY <1>1, <1>3 DEF InPlay, TypeOK
<1>6. ServedInOrder'
  BY <1>4, <1>5, ServedInOrderKept DEF TypeOK
<1>7. NoMixUp'
  BY <1>3 DEF NoMixUp, Got, Acceptable, TypeOK
<1>8. ExpiryWithinGrant'
  BY <1>1, <1>2, <1>3 DEF ExpiryWithinGrant, Lifetime
<1>9. BoundedStaleness' /\ OwnAnswer'
  BY DEF BoundedStaleness, OwnAnswer, TypeOK, Lifetime
<1> QED
  BY <1>4, <1>6, <1>7, <1>8, <1>9

LEMMA EnvironmentIInv == ASSUME IInv, Publish \/ Tick PROVE IInv'
<1> USE DEF IInv, Publish, Tick
<1>1. TypeOK'
  BY DEF TypeOK
<1>2. InPlay' = InPlay
  BY DEF InPlay
<1>3. ServedInOrder'
  BY <1>1, <1>2, ServedInOrderKept DEF TypeOK
<1>4. NoMixUp' /\ BoundedStaleness' /\ ExpiryWithinGrant'
  BY DEF NoMixUp, Got, BoundedStaleness, ExpiryWithinGrant, Lifetime
<1>5. OwnAnswer'
  BY DEF OwnAnswer, TypeOK
<1> QED
  BY <1>1, <1>3, <1>4, <1>5

LEMMA StutterIInv == ASSUME IInv, UNCHANGED vars PROVE IInv'
  BY DEF IInv, vars, TypeOK, NoMixUp, Got, BoundedStaleness, ServedInOrder, InPlay,
     OwnAnswer, ExpiryWithinGrant, Lifetime

LEMMA NextIInv == IInv /\ [Next]_vars => IInv'
<1> SUFFICES ASSUME IInv, [Next]_vars PROVE IInv'
  OBVIOUS
<1>1. ASSUME NEW c \in Callers, Call(c) PROVE IInv'
  BY <1>1, CallIInv
<1>2. ASSUME NEW c \in Callers, Hit(c) PROVE IInv'
  BY <1>2, HitIInv
<1>3. ASSUME NEW c \in Callers, Miss(c) PROVE IInv'
  BY <1>3, MissIInv
<1>4. ASSUME NEW c \in Callers, NEW i \in Issuers, NEW h \in Headers, Answer(c, i, h)
      PROVE  IInv'
  BY <1>4, AnswerIInv
<1>5. ASSUME NEW c \in Callers, FetchFails(c) \/ RejectMixUp(c) PROVE IInv'
  BY <1>5, ErrorIInv
<1>6. ASSUME NEW c \in Callers, Store(c) PROVE IInv'
  BY <1>6, StoreIInv
<1>7. CASE Publish \/ Tick
  BY <1>7, EnvironmentIInv
<1>8. CASE UNCHANGED vars
  BY <1>8, StutterIInv
<1> QED
  BY <1>1, <1>2, <1>3, <1>4, <1>5, <1>6, <1>7, <1>8 DEF Next

(***************************************************************************)
(* The theorems.                                                           *)
(***************************************************************************)

(* IInv holds in every reachable state.                                    *)
THEOREM Invariance == Spec => []IInv
<1>1. Init => IInv
  BY InitIInv
<1>2. IInv /\ [Next]_vars => IInv'
  BY NextIInv
<1> QED
  BY <1>1, <1>2, PTL DEF Spec

(* The state has its type in every reachable state.                        *)
THEOREM TypeCorrect == Spec => []TypeOK
  BY Invariance, PTL DEF IInv

(* A client with mix-up validation on never caches or returns a document   *)
(* of another issuer (client/metadata.go:102-109).                         *)
THEOREM MixUpSafety == Spec => []NoMixUp
  BY Invariance, PTL DEF IInv

(* A cached answer is never staler, at the start of the call, than the     *)
(* lifetime its server granted (client/metadata.go:65-72, 111-113).        *)
THEOREM StalenessBound == Spec => []BoundedStaleness
  BY Invariance, PTL DEF IInv

(* An older document replaces a newer one only when the two calls overlap  *)
(* (client/metadata.go:73-114): the acting caller holds an answer served   *)
(* no earlier than it began, and answers are served in version order.      *)
THEOREM OverlapOnly == Spec => OlderOnlyByOverlap
<1> DEFINE A ==
      \A c \in Callers :
        (/\ cache # NoEntry
         /\ cache'.doc.version < cache.doc.version
         /\ pc[c] # pc'[c])
        => now[c] <= cache.doc.servedAt
<1>1. IInv /\ [Next]_vars => [A]_vars
  <2> SUFFICES ASSUME IInv, Next, NEW c \in Callers, cache # NoEntry,
                      cache'.doc.version < cache.doc.version, pc[c] # pc'[c]
               PROVE  now[c] <= cache.doc.servedAt
    OBVIOUS
  <2>1. cache \in Entries
    BY DEF IInv, TypeOK
  <2>2. cache' # cache
    BY <2>1 DEF Entries, Docs
  <2>3. PICK x \in Callers : Store(x)
    BY <2>2 DEF Next, Call, Hit, Miss, Answer, FetchFails, RejectMixUp, Publish, Tick
  <2>4. x = c
    BY <2>3 DEF Store, Goto, IInv, TypeOK
  <2>5. doc[c] \in InPlay /\ cache.doc \in InPlay /\ cache'.doc = doc[c]
    BY <2>3, <2>4 DEF Store, Goto, InPlay
  <2>6. doc[c].servedAt <= cache.doc.servedAt
    BY <2>5 DEF IInv, ServedInOrder
  <2>7. now[c] <= doc[c].servedAt
    BY <2>3, <2>4 DEF Store, Goto, IInv, OwnAnswer
  <2> QED
    BY <2>5, <2>6, <2>7 DEF IInv, ServedInOrder, TypeOK, Docs
<1>2. Spec => [][A]_vars
  BY <1>1, Invariance, PTL DEF Spec
<1> QED
  BY <1>2 DEF OlderOnlyByOverlap
=============================================================================
