--------------------------- MODULE MetadataCache ---------------------------
(***************************************************************************)
(* The metadata cache of one client value (client/metadata.go              *)
(* FetchMetadata), called by several goroutines at once.                   *)
(*                                                                         *)
(* The mutex metaMu is held for the look-up and, separately, for the       *)
(* store; it is not held while the document is fetched.  Each of the two   *)
(* critical sections is one step, and the clock, the AS and the other      *)
(* callers move between them.  A caller samples the clock before the       *)
(* look-up and uses that sample for the expiry of what it stores.          *)
(*                                                                         *)
(* The AS is external: it publishes numbered versions of its document, and *)
(* the version current at that moment is what a GET is answered with.      *)
(***************************************************************************)
EXTENDS CacheControl

CONSTANTS
  Callers,     (* Goroutines that call FetchMetadata.                      *)
  Issuers,     (* Issuer URLs a document may carry.                        *)
  Configured,  (* The base URL the client was built with.                  *)
  Headers,     (* First Cache-Control lines that answers may have.         *)
  DefaultTTL,  (* metaDefaultTTL (WithMetadataTTL).                        *)
  MaxTime,     (* Bound on the clock.                                      *)
  MaxVersion,  (* Bound on the versions the AS publishes.                  *)
  NoEntry,     (* The nil metaCache.                                       *)
  NoDoc        (* The nil document.                                        *)

ASSUME CacheAssumption ==
  /\ Headers \subseteq Seq(Directives)
  /\ DefaultTTL \in Int
  /\ MaxTime \in Nat
  /\ MaxVersion \in Nat

VARIABLES
  relaxed,    (* metaRelaxedMixUp: chosen when the client is built.        *)
  clock,      (* What time.Now() returns.                                  *)
  published,  (* Version of the document the AS serves now.                *)
  cache,      (* metaCache: NoEntry, or a document and its expiry.         *)
  pc,         (* Where each caller is in FetchMetadata, or how its last    *)
              (* call ended.                                               *)
  now,        (* Each caller's sample of the clock in its last call.       *)
  doc         (* The document its last call was answered with or returned. *)

vars == <<relaxed, clock, published, cache, pc, now, doc>>

(***************************************************************************)
(* A document together with the header of the response it came in.         *)
(* servedAt, the moment the AS answered, is not visible to the client: it  *)
(* is recorded for the properties.                                         *)
(***************************************************************************)
Docs == [version : Nat, issuer : Issuers, header : Headers, servedAt : Nat]

Entries == [doc : Docs, expires : Int]

(* A finished call returned the cached document, the one it fetched, an    *)
(* error, or a MixUpError.                                                 *)
Ended == {"idle", "hit", "fetched", "failed", "mixup"}

Lifetime(d) == CacheTTL(d.header, DefaultTTL)

Init ==
  /\ relaxed \in BOOLEAN
  /\ clock = 0
  /\ published = 0
  /\ cache = NoEntry
  /\ pc = [c \in Callers |-> "idle"]
  /\ now = [c \in Callers |-> 0]
  /\ doc = [c \in Callers |-> NoDoc]

(***************************************************************************)
(* The caller's steps.                                                     *)
(***************************************************************************)
Goto(c, from, to, d) ==
  /\ pc[c] \in from
  /\ pc' = [pc EXCEPT ![c] = to]
  /\ doc' = [doc EXCEPT ![c] = d]

(* Mutant: a call that joins another one's fetch shares its answer.        *)
JoinFetch(c) ==
  /\ now' = [now EXCEPT ![c] = clock]
  /\ IF \E x \in Callers : pc[x] = "answered"
     THEN \E x \in Callers : pc[x] = "answered" /\ Goto(c, Ended, "answered", doc[x])
     ELSE Goto(c, Ended, "look", NoDoc)
  /\ UNCHANGED <<relaxed, clock, published, cache>>

(* now := time.Now()                                                       *)
Call(c) ==
  /\ Goto(c, Ended, "look", NoDoc)
  /\ now' = [now EXCEPT ![c] = clock]
  /\ UNCHANGED <<relaxed, clock, published, cache>>

(* The cached document is usable by a call that sampled the clock at t.    *)
Usable(t) == cache # NoEntry /\ t < cache.expires

Hit(c) ==
  /\ Usable(now[c])
  /\ Goto(c, {"look"}, "hit", cache.doc)
  /\ UNCHANGED <<relaxed, clock, published, cache, now>>

Miss(c) ==
  /\ ~Usable(now[c])
  /\ Goto(c, {"look"}, "fetch", NoDoc)
  /\ UNCHANGED <<relaxed, clock, published, cache, now>>

(* doer.Do: the AS, or whoever answers at that URL, serves a document.     *)
Answer(c, issuer, header) ==
  /\ Goto(c, {"fetch"}, "answered",
          [version |-> published, issuer |-> issuer,
           header |-> header, servedAt |-> clock])
  /\ UNCHANGED <<relaxed, clock, published, cache, now>>

(* Mutant: the failure is cached, as a nil document.                       *)
CacheFailure(c) ==
  /\ Goto(c, {"fetch", "answered"}, "failed", NoDoc)
  /\ cache' = [doc |-> NoDoc, expires |-> now[c] + DefaultTTL]
  /\ UNCHANGED <<relaxed, clock, published, now>>

(* A transport error, or an answer that cannot be read, is not a 200 or    *)
(* does not decode: an error, and the cache stays as it is.                *)
FetchFails(c) ==
  /\ Goto(c, {"fetch", "answered"}, "failed", NoDoc)
  /\ UNCHANGED <<relaxed, clock, published, cache, now>>

Acceptable(d) == relaxed \/ SameIssuer(Configured, d.issuer)

(* Mutant: the document is cached before its issuer is compared.           *)
RejectCached(c) ==
  /\ Goto(c, {"answered"}, "mixup", NoDoc)
  /\ ~Acceptable(doc[c])
  /\ cache' = [doc |-> doc[c], expires |-> now[c] + Lifetime(doc[c])]
  /\ UNCHANGED <<relaxed, clock, published, now>>

RejectMixUp(c) ==
  /\ Goto(c, {"answered"}, "mixup", NoDoc)
  /\ ~Acceptable(doc[c])
  /\ UNCHANGED <<relaxed, clock, published, cache, now>>

(* Mutant: the expiry counts from the moment of the store.                 *)
StoreFromNow(c) ==
  /\ Goto(c, {"answered"}, "fetched", doc[c])
  /\ Acceptable(doc[c])
  /\ cache' = [doc |-> doc[c], expires |-> clock + Lifetime(doc[c])]
  /\ UNCHANGED <<relaxed, clock, published, now>>

Store(c) ==
  /\ Goto(c, {"answered"}, "fetched", doc[c])
  /\ Acceptable(doc[c])
  /\ cache' = [doc |-> doc[c], expires |-> now[c] + Lifetime(doc[c])]
  /\ UNCHANGED <<relaxed, clock, published, now>>

(***************************************************************************)
(* The environment.                                                        *)
(***************************************************************************)
Publish ==
  /\ published < MaxVersion
  /\ published' = published + 1
  /\ UNCHANGED <<relaxed, clock, cache, pc, now, doc>>

Tick ==
  /\ clock < MaxTime
  /\ clock' = clock + 1
  /\ UNCHANGED <<relaxed, published, cache, pc, now, doc>>

Next ==
  \/ \E c \in Callers :
       \/ Call(c)
       \/ Hit(c)
       \/ Miss(c)
       \/ \E i \in Issuers, h \in Headers : Answer(c, i, h)
       \/ FetchFails(c)
       \/ RejectMixUp(c)
       \/ Store(c)
  \/ Publish
  \/ Tick

Spec == Init /\ [][Next]_vars

(***************************************************************************)
(* Properties.                                                             *)
(***************************************************************************)
TypeOK ==
  /\ relaxed \in BOOLEAN
  /\ clock \in Nat
  /\ published \in Nat
  /\ cache \in Entries \cup {NoEntry}
  /\ pc \in [Callers -> Ended \cup {"look", "fetch", "answered"}]
  /\ now \in [Callers -> Nat]
  /\ doc \in [Callers -> Docs \cup {NoDoc}]

(* Caller c's last call returned a document.                               *)
Got(c) == pc[c] \in {"hit", "fetched"}

(***************************************************************************)
(* Unless mix-up validation was switched off, no document of another       *)
(* issuer is ever cached or handed to a caller, whichever goroutine        *)
(* fetched it (client/metadata.go:54-57, 102-109).                         *)
(***************************************************************************)
NoMixUp ==
  ~relaxed =>
    /\ cache # NoEntry => SameIssuer(Configured, cache.doc.issuer)
    /\ \A c \in Callers : Got(c) => SameIssuer(Configured, doc[c].issuer)

(***************************************************************************)
(* A call answered from the cache gets a document the AS served less than  *)
(* its lifetime before the call began, however long the fetch that cached  *)
(* it took.  The expiry counts from the clock sampled before that fetch    *)
(* (client/metadata.go:65, 113); counting from the store would not do.     *)
(***************************************************************************)
BoundedStaleness ==
  \A c \in Callers : pc[c] = "hit" =>
    now[c] < doc[c].servedAt + Lifetime(doc[c])

(***************************************************************************)
(* The lock is not held across the fetch, so a slow fetch may overwrite a  *)
(* newer document with an older one (client/metadata.go:73-114).  It can   *)
(* happen only between overlapping calls: a store that replaces the cached *)
(* document by an older version belongs to a call that began no later than *)
(* the newer one was served.                                               *)
(***************************************************************************)
OlderOnlyByOverlap ==
  [][\A c \in Callers :
       (/\ cache # NoEntry
        /\ cache'.doc.version < cache.doc.version
        /\ pc[c] # pc'[c])
       => now[c] <= cache.doc.servedAt]_vars

(***************************************************************************)
(* What makes the properties above inductive: the documents in play, with  *)
(* the cached one, were served in the order of their versions and no later *)
(* than now; a call's answer is no older than the call; and the expiry of  *)
(* the cached document never exceeds what its server granted.              *)
(***************************************************************************)
InPlay ==
  {doc[c] : c \in {x \in Callers : pc[x] = "answered"}}
    \cup (IF cache = NoEntry THEN {} ELSE {cache.doc})

ServedInOrder ==
  /\ \A d \in InPlay : d \in Docs /\ d.version <= published /\ d.servedAt <= clock
  /\ \A d, e \in InPlay : d.version < e.version => d.servedAt <= e.servedAt

OwnAnswer ==
  \A c \in Callers :
    /\ now[c] <= clock
    /\ pc[c] = "answered" => now[c] <= doc[c].servedAt

ExpiryWithinGrant ==
  cache # NoEntry => cache.expires <= cache.doc.servedAt + Lifetime(cache.doc)

IInv ==
  /\ TypeOK
  /\ NoMixUp
  /\ BoundedStaleness
  /\ ServedInOrder
  /\ OwnAnswer
  /\ ExpiryWithinGrant
=============================================================================
