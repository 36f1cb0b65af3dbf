# TLA+ models of go-uma

go-uma is a Go library for User-Managed Access: a client package for the
three parties' HTTP calls, a server package that turns a consumer's
authorization server (AS) into an `http.Handler`, helpers for resource servers
(RS), and a demo (`examples/as-rs-demo`) that runs all parties in one process.
This directory models it in TLA+, checks the models with TLC and proves the
main results with TLAPS. Paths are relative to the repository root.

## The system

| Component | State | Operations | Source |
|---|---|---|---|
| Metadata fetch | one cached document and its expiry, under `metaMu` | `FetchMetadata` from any goroutine: look up, fetch without the lock, check the issuer, store | `client/metadata.go`, `client/client.go` |
| Cache-Control, issuer comparison | none | `cacheTTL`, `sameIssuer` | `client/metadata.go:127-156` |
| Retrying doer | per call: attempt, last response or error, body | `retryDoer.Do`, `WithMaxAttempts`, `WithBackoff` | `client/doer.go` |
| PAT doer, `WithPAT` | the token, set once | `patDoer.Do`, `authorize` | `client/doer.go`, `client/client.go` |
| Client methods | none beyond the client's configuration | `Token`, `Permission`, `Introspect`, five resource-set calls | `client/*.go` |
| AS handler | per request: what has been written | routing, body limits, decoding, the call of the AS, error mapping | `server/as.go` |
| Error types | none | their codes, and what survives the wire | `errors.go` |
| Demo AS | `tickets`, `rpts`, `resources` under one mutex | `ResourceSet`, `Permission`, `Token`, `Introspect` | `examples/as-rs-demo/main.go:279-385` |
| Demo RS and requesting party | the route map; the party's ticket and token | `ProtectedRequest`, `askForTicket`, the flow in `run` | `examples/as-rs-demo/main.go:73-253, 396-482` |
| RS helpers | none | decisions, the challenge and the bearer header | `server/rs.go`, `uma.go` |
| AS metadata | none | `BuildMetadata`, the metadata handler | `server/metadata.go` |
| Instrumentation | per request: the captured status | `instrument`, `statusCapture` | `server/middleware.go` |

How they interact: a client method builds a request, a chain of `HTTPDoer`s
(retrying, PAT) sends it, the AS handler decodes it and calls one method of the
consumer's AS, and the answer comes back as a status and an envelope that the
client decodes. net/http runs every request in a goroutine, so an AS is called
concurrently; a client value may be shared by goroutines too. The RS calls the
AS from inside its own handler, under the request's context, to introspect a
token or to register a permission; the ticket it gets goes to the requesting
party in a challenge, and the party redeems it at the AS.

What is hard, and what makes each part correct:

* **Metadata fetch.** The lock is not held across the fetch and the clock is
  sampled before the look-up. Correct means: no document of another issuer is
  cached or returned, no hit is older than its lifetime, a failed fetch leaves
  the cache alone, and an older document replaces a newer one only between
  overlapping calls.
* **Retrying doer.** Errors, transient answers and cancellation mix freely, and
  state is carried from one attempt to the next. Correct means: exactly one of
  response and error, the last outcome reported, bodies replayed, re-sending
  only after a transient failure, bounded delays, termination.
* **Client and handler.** Every error type the AS can return, alone or wrapped,
  crosses a status and an envelope; anything may answer in place of the AS, and
  anyone may send what no client method sends. Correct means: one answer to a
  request, successes and typed errors are those of the answer that was sent, a
  typed error keeps what it has of code and ticket, and the AS is asked what the
  caller asked.
* **Hooks.** They run after the handler, on what a wrapper of the response
  remembers, and handlers and hooks may panic. Correct means: the status logged
  and counted is the one that leaves, and a panic is not taken for an answer.
* **Discovery.** What is advertised depends on how a live AS answers empty
  requests, and what the client takes on a comparison of URLs. Correct means:
  the advertised is served and the served advertised, a document is refused
  exactly when its AS is not the one a client without a path in its base URL
  would call, and calls go where the document says.
* **Resource server.** Calls of the AS fail, RSs return a decision with an
  error, and challenge and token cross as text. Correct means: the page is
  served on a full allow only, tickets are minted for those who need one, and
  the client reads what was written.
* **Demo AS.** `Token` holds the lock twice, once to take the ticket and once to
  store its token. Correct means: a ticket is redeemed once, for the permission
  it was registered for, and what an answer names the server knows.
* **The flow.** A call can fail after its effect, and a failure ends the visit it
  happens in (`main.go:68-70, 171-226`). Correct means: access is given only
  under a token for enough scopes, a token just redeemed is enough, only a failed
  call makes a visit fail or strands a ticket, and no failure stands in the way
  of a later visit.

## Modules

| Module | Models or proves | State and actions, and the code they stand for |
|---|---|---|
| `GoInt` | int64 arithmetic | `Wrap`; the width is a constant |
| `GoInt_proofs` | lemmas about it | and the least counterexample that stands for induction |
| `CacheControl` | `cacheTTL`, `sameIssuer` | pure operators; a header is a sequence of lines, a line one of directives, and `FirstLine` is `Header.Get` |
| `Discovery` | `BuildMetadata`, `NewMetadataHandler`, one `FetchMetadata` and a call of the AS | `Init` probes and builds, `ServeNothing`, `MethodNotAllowed`, `ServeDocument` are the handler, `AddDirective` a proxy, `FetchFails`, `RejectMixUp`, `Accept` the client, `Call` its next call |
| `Discovery_proofs` | its theorems | |
| `MetadataCache` | `FetchMetadata` | `Call` samples the clock, `Hit`/`Miss` is the first critical section, `Answer`/`FetchFails` the exchange, `RejectMixUp` the issuer check, `Store` the second critical section; `Tick` and `Publish` are the clock and the AS |
| `MetadataCache_proofs` | its theorems | |
| `RetryDoer` | `retryDoer.Do` | `FirstTry`, `Prepare`, `GetBodyFails` (at any retry), `Exhausted` are the loop head; `TimerFires`, `GiveUp` the select; `Answered`, `Failed`, `Transient` the attempt; `Cancel` the context |
| `RetryDoer_proofs` | its theorems | |
| `ASHandler` | `NewASHandler`, its hooks and a consumer's AS, for one request | `NotRouted`, `NotFound`, `MethodNotAllowed` the mux; `RefuseBody`, `RefuseBatch`, `CallAS` a handler before the AS, `ASReturns`, `ASFails`, `ASPanics` after it; `Capture` is what `statusCapture` keeps of each `WriteHeader`; `Log`, `Count` the hooks, which read it |
| `Exchange` | the client methods, any other HTTP client and the network around `ASHandler`, which it EXTENDS | `RefuseLocally`, `PanicOnPath`, `Send` the client, `SendAny` another; `Serve` the handler; `Deliver` the decoding; `Lose`, `GatewayAnswers` the network, where a gateway's page is text, a JSON value or an error envelope |
| `Exchange_proofs` | its theorems | |
| `Challenge` | `BuildUMAChallenge`, `parseChallenge`, `ExtractBearerToken` | pure operators; a string is a sequence of pieces |
| `ProtectedRequest` | one request to the resource server, of the demo or a consumer's RS | `NoSuchRoute` the routing; `Start`, `Introspect(Fails)`, `AskForTicket`, `AskFails` the demo's `ProtectedRequest`, `OwnDecision` another's; `Answer` the handler; `ReadChallenge` the client |
| `ProtectedRequest_proofs` | its theorems | |
| `TicketGrant` | the abstract promise about tickets | `Register`, `Spend`, `Grant` |
| `AuthorizationServer` | the demo AS | one action per critical section; `TakeTicket`, `StoreRPT` are the two of `Token`; `Done` ends a request |
| `AuthorizationServer_proofs` | its theorems | |
| `UMASystem` | requesting parties, RS and AS together; EXTENDS `AuthorizationServer` | `Get`, `Call*` and the actions on answers follow `run` and `ProtectedRequest`; `Registered` with `retrying`, `Refused` and `GiveUp` end a visit as failed, as `run` does; `LoseCall`, `LoseTicket` are failures; `NextVisit` is a party that asks for another route; `Finish`, `Orphan` handlers nobody waits for |
| `UMASystem_proofs` | its theorems | |
| `MC*` | small instances | constants only |

Conventions. The critical sections of a mutex are single steps, with the local
work before them. An identifier from `randomID` is the next number drawn, so
identifiers never repeat (128 random bits). History variables (`issued`,
`origin`, `sent` in the retrying doer, `servedAt`) are read by properties only.
Definitions marked *Mutant* are plausible wrong versions of the definition that
follows; they occur in no specification and show that the properties can fail.

## Runs

Seven configurations state what holds, five more (below) what does not; those
without `CHECK_DEADLOCK FALSE` also check that nothing gets stuck.

| Configuration | What it checks and shows | Bounds |
|---|---|---|
| `Discovery.cfg` | `AdvertisedIsServed`, `MixUpIsElsewhere`, `CallsWhereAdvertised`, `FirstMaxAgeDecides` | an AS that refuses its probes, accepts them, is absent, the demo's and two partial ones; URLs with and without a path and with up to 2 trailing slashes; headers of up to 2 directives, on one line or two; 8 non-negative integers, 4 units to a second, so that 2 overflows and 5 wraps to a positive value |
| `MetadataCache.cfg` | `NoMixUp`, `BoundedStaleness`, `OlderOnlyByOverlap` | 2 callers (symmetric), 2 versions, 4 instants, three headers, an issuer that matches up to slashes and one that does not |
| `RetryDoer.cfg` | one result of a call, `LastOutcomeReturned`, `ResendsOnlyAfterTransient`, `BodyReplayed`, `BackoffShape`, `Returns` | -1 to 4 attempts, delays below, at and above each other and the defaults, 16 non-negative integers |
| `Exchange.cfg` | `OneAnswer`, `HooksSeeTheAnswer`, `NothingInvented`, `TypedErrorsSurvive`, `ServedAsAsked` | all operations, id classes, methods, endpoints, body classes, hooks and PAT settings; error chains of up to two of the library's types (`MaxTypes`); gateway pages of text and JSON; batches of up to 2; one request |
| `AuthorizationServer.cfg` | `TicketConserved`, `PermissionCarried`, `RefusedIsNotLive`, refinement of `TicketGrant` (`KeepsPromise`), `TakenIsRedeemed` | 2 handlers, 2 tickets, 1 resource set, two permissions and an invalid one, every identifier drawn, one never drawn and the empty one presented |
| `ProtectedRequest.cfg` | `FailsClosed`, `NoTicketInVain`, `ChallengeComesAcross` | routes with none, one and two scopes, well-formed and malformed headers, tokens with no, one, two separate and covering permissions, and values with a quote or ending in a key; one request |
| `UMASystem.cfg` | `AccessJustified`, `RefusedOnlyAfterResend`, `LeaksOnlyByLoss`, `OwnTokenOnly`, `FreshTokenSuffices`, `UsesTheServer`, `Served` | 2 parties, one visiting twice, 2 handlers, two routes of one resource with nested scopes, 1 failed call, 4 tickets |

The bounds are enough for the cases that matter. Two callers suffice for the
races of the cache, whose state is one document, and two redemptions for those
of a ticket; four attempts give every pattern of two consecutive outcomes and a
retry after it; a second visit presents a token for less than the new route
needs, and one failure covers a call lost before, during and after its
redemption. Four tickets are one per visit and one for the failure, so the bound
never stops a party; how often a party asks for a route (`MaxVisits`) is the
environment's choice and not the program's. Handler and resource server keep nothing between requests,
so one request is every request; two types in an error chain put each before
each other (that any number of them is handled so is proved); two directives are the least with a first and a
later one. What holds beyond the bounds is proved (below).

`RetryDoer`, `Discovery`, `Exchange`, `ProtectedRequest` and `UMASystem` stop
when their work is done, so their configurations turn the deadlock check off;
`Returns` and `Served` say that the first and the last do not stop early.

### Where the code and its comments disagree

Each of these is a run in which TLC finds the documented statement violated.

* `CacheControlDocumented.cfg`. `client/metadata.go:133-134` says a negative
  max-age disables caching; the code falls back to the default lifetime
  (150-152). Lines 136-138 say other values are applied verbatim; a value above
  9223372036 seconds overflows `time.Duration` at line 153.
* `RetryFirstDelay.cfg`. `client/doer.go:205` says retry index 0 is the first
  retry and waits the base; line 170 passes 1, and the first retry waits twice
  the base.
* `RetryCancel.cfg`. `client/doer.go:133-135` says a cancellation during the
  backoff returns the context's error; lines 173-178 return the last outcome,
  which may be a response whose body is already closed.
* `RetryNoGetBody.cfg`. `client/doer.go:129-131` says a body without `GetBody`
  falls back to a single attempt; the loop sends it again, drained.
* `ExchangeGrantType.cfg`. `token.go:29-30` and 93-95 say that the decoder
  enforces the `grant_type`; neither it (`token.go:99-113`) nor `handleToken`
  reads it, so any value reaches the AS as a UMA ticket grant.

Noted by reading, without a run of their own; the models follow the code:

* `client/doer.go:38-39`: `WithPAT` and `NewPATDoer` put "the same Authorization
  header on the wire"; only the latter marks the ticket grant.
* `server/as.go:439` says that a `*uma.ValidationError` gives an `invalid_request`
  envelope; line 453 writes `invalid_grant`. `TypedErrorsSurvive` asks of such an
  error no more than that it comes back as a typed one.
* `server/as.go:423`: a nil value writes no body; a typed nil pointer is written
  as `null`.
* `server/rs.go:157-159`: a nil `TicketRequired` writes an empty header; the code
  writes none.
* `client/metadata.go:119-120` says that "a single trailing slash" is stripped
  from each side; line 128 trims all of them. `MixUpIsElsewhere` is about URLs
  with one at most, where the two agree.
* `client/metadata.go:136` speaks of a directive "in the response";
  `Header.Get` at line 111 reads the first `Cache-Control` line only, and a
  max-age on a later one is not seen. `FirstMaxAgeDecides` is about that line.
* `client/resource_set.go:53-54` calls ids opaque; `client/client.go:203`
  resolves them unescaped, as URL references.
* `server/metadata.go:28-30`: an AS URL that is not absolute gives an empty
  issuer; the issuer is the argument as it is.
* `server/metadata.go:40-47`: an AS must not answer `ErrNotImplemented` to the
  probe of an endpoint it serves; the demo's `ResourceSet` does, for
  `OpUnknown`, so `BuildMetadata` would not advertise where it creates resource
  sets. `AdvertisedIsServed` is about ASs that follow the rule.
* `examples/as-rs-demo/main.go:500-504`: `paramValue` handles what the library
  writes; it misreads a value that ends in `key=`, as `ChallengeComesAcross`
  says.

## Fairness

* `RetryDoer`: weak fairness of `Step`. The goroutine is scheduled, the inner
  doer answers or fails, and timers fire. Cancellation is never forced.
* `AuthorizationServer`: weak fairness of `StoreRPT`. A handler that took a
  ticket ignores its context, so nothing but the mutex stands between it and the
  second critical section. No request is forced to arrive.
* `UMASystem`: weak fairness of each party's `Step` and of the handlers that have
  work. Within a visit one goroutine at a time, `run` or the resource server's, is
  runnable or waits for a call, and a call returns or fails. A visit that fails is
  over: nothing retries it, and no fairness makes a party ask for another route
  (`NextVisit`). `Served` therefore says two things: every visit ends, and one
  that begins when no call fails any more ends in the page, whatever earlier
  failures left behind in the server.
* `MetadataCache`, `Discovery`, `Exchange`, `ProtectedRequest`: safety only.

## Proofs

TLAPS proves the following for every value of the constants that satisfies the
named assumptions. They say that counts are naturals, options are integers,
placeholders are not values, and routes are valid permissions; that in
`Discovery` URLs have a number of trailing slashes and fallbacks are
`time.Duration`s (`DeploymentAssumption`); and that in `ProtectedRequest` the
values of a challenge are sequences of strings (`RequestAssumption`).

| Theorem | Result |
|---|---|
| `MetadataCache_proofs`: `Invariance`, `TypeCorrect`, `MixUpSafety`, `StalenessBound`, `OverlapOnly` | the cache's invariant, each safety property, and the action property |
| `RetryDoer_proofs`: `Invariance`, `TypeCorrect`, `AnswerOrError`, `ReportsLast`, `ResendBound`, `BodySafety`, `TruncatedBackoff` | the loop's invariant and five properties, for any options and any number of attempts |
| `AuthorizationServer_proofs`: `Invariance`, `TypeCorrect`, `SingleUse`, `RightPermission`, `HonestAnswers`, `RefusedStayRefused` | the server's invariant and its safety properties, for any number of handlers; `HonestAnswers` is `AnsweredIsKnown`, which the proofs of the flow rest on and no run states |
| `AuthorizationServer_proofs`: `Refinement` | the demo AS implements `TicketGrant` |
| `Exchange_proofs`: `TypeCorrect`, `OneAnswerAlways`, `HooksAgree`, `NothingIsInvented`, `TypedErrorsComeBack`, `AskedIsServed` | every property of the exchange |
| `ProtectedRequest_proofs`: `Invariance`, `TypeCorrect`, `ClosedByDefault`, `TicketsAreNeeded`, `ChallengeIsRead` | the resource server's invariant, fails closed, mints no ticket in vain and is understood by the client, for any routes, headers, URLs and values |
| `Discovery_proofs`: `Invariance`, `TypeCorrect`, `DocumentIsTrue`, `MixUpDefence`, `BaseWithoutPath`, `FirstDirectiveDecides` | every property of discovery, for any ASs, URLs and headers of any length |
| `UMASystem_proofs`: `SystemInvariance`, `SystemTypeCorrect`, `Composition`, `PromiseInTheFlow`, `Access`, `RefusalsAreResends`, `LeaksAreLosses`, `TokensAreOwn`, `FreshTokensSuffice` | the flow's invariant; the system's behaviours are the server's, so its theorems hold in it; access is justified; refusals and stranded tickets come only of failed calls; a party gets the token of its own ticket and of no other, and that token lets it in |

Each argument is an inductive invariant `IInv` (`SystemIInv`, `TicketInv`,
`LeakInv`, `OwnInv` and `FreshInv` in `UMASystem`, also `ChallengeInv` in `ProtectedRequest`), with one
lemma per action, and TLC found every one of them to hold on the instances above
before it was proved. Where a proof needs induction over numbers it takes the
least counterexample (`LeastNat`), which the provers do find.

* *Cache.* `BoundedStaleness` speaks of calls that ended, so the invariant adds
  what holds of the entry they hit: it expires no later than its server granted
  (`ExpiryWithinGrant`), because a call samples the clock before it is answered
  (`OwnAnswer`). `OlderOnlyByOverlap` needs that answers in play are served in
  the order of their versions (`ServedInOrder`).
* *Retrying doer.* While `Do` runs, every attempt so far failed in a way that is
  retried and `lastErr`, `lastResp` describe the last (`LastRemembered`); the
  loop variable counts attempts (`Counted`), and the body is whole whenever it
  is about to be sent (`FullBody`).
* *Authorization server.* `TicketConserved` splits issued tickets into live,
  being redeemed and redeemed; it is preserved because the next identifier is
  new to every map (lemma `NextIdIsNew`). A refused ticket stays refused because
  its number was drawn before (`RefusedIsOld`).
* *Refinement.* `Permission` maps to `Register`, `TakeTicket` to `Spend`,
  `StoreRPT` to `Grant`, all other steps to stuttering. `StoreRPT` needs
  `TicketConserved`: the ticket has no token yet.
* *System.* A party waits for one answer (`OneCallEach`), the answer under way is
  to what it asked (`AnswerFits`), and a served party's token is known with
  enough scopes (`ServedByToken`); the last is preserved since the server
  forgets no token (lemma `ServerGrows`). With `PermissionCarried` this gives
  `AccessJustified`. That every step is one of the server's needs the ranges in
  `SystemTypeOK`: only identifiers already drawn are presented.
* *Refusals.* A ticket belongs to one party or to one answer under way
  (`OneOwner`), so it is live until that party sends it (`UnsentIsLive`), and a
  party that sent it and has no answer coming has lost one (`SentIsAnswered`).
  Hence a refused party has sent its ticket twice: `TicketInv`, inductive on top
  of the two invariants above.
* *Leaks.* Counting the stranded tickets is inductive once it is known that a
  ticket which was presented has left the server's map (`SentIsGone`) and that no
  answer under way but a challenge names a live one (`RepliesAreOld`). Then a
  step strands a ticket only by giving up a ticket or an answer with one, which
  is a failed call, and at most one ticket goes with it (`NoneLeft`, `OneLeft`).
* *Whose token.* `OwnInv` adds that the handler a party waits for took that
  party's ticket (`TakenForItsCaller`), which a party cannot swap while it waits,
  and that a token is with one party or in one answer under way (`OnePlace`). A
  minted token is in no such place, because its number is new and every token
  answered or held was minted before.
* *The fresh token.* The ticket under way to a party, and the one it redeems, is
  for the route it asks for (`TicketForGoal`); by `OwnInv` its token is for that
  ticket and by `PermissionCarried` of its permission, so the token of a party
  that asks again covers its route, and is answered active (`FreshToken`). Hence
  no such party is sent for a ticket, which `LeaksAreLosses` uses: the demo's
  party would drop that ticket.
* *Exchange.* The invariant says what of a request, its answer and its events
  can stand at each stage of the handler, and that a client's request is the one
  of its call; the properties follow by cases on the routing table (`Routing`)
  and the error chain.
* *Protected request.* The invariant ties the outcome to what was introspected
  and minted: an allow of the demo is a covering token (`CoveredIffActive`), for
  a bearer header is its scheme, a space and the token (`BearerSplit`).
* *Challenge.* `ChallengeInv` follows the challenge from the decision through the
  header to the client. That it is read as written (`ReadsBack`) comes from where
  the parser looks: no piece before a parameter is its key with a quote after it
  (`PartsHaveNoKey`), so the parameter itself is the first place, and its value
  ends at the next quote, for it has none (`ParamValueAfter`).
* *Backoff.* The delay for a retry index is the one for the index before, doubled
  and capped (`DoublingGrown`), and once capped it stays so; each attempt waits
  for its own index (`DelaysInv`). Neither grows past the maximum nor wraps while
  twice the base and twice the maximum are representable (`WrapFits`).
* *Discovery.* The invariant carries the document from the AS's probes through
  the handler, the header and the client to the call, one conjunct for each; the
  properties follow from the last by cases on what the AS serves. What is said of
  the header is about the least index of a max-age directive.

Only model-checked: the liveness properties `Returns`, `TakenIsRedeemed` and
`Served` (liveness under fairness is out of the prover's reach). The five runs
that find a documented statement violated have nothing to prove.

## What is not modelled

* JSON and form encodings, percent-escapes and other URL syntax: kinds of bodies
  and classes of ids stand for them. In headers, text is one piece, and quotes,
  keys and separators are pieces of their own.
* Claims (`claims.go`), and what metadata options add to a document.
* Durations in log events, and the paths they carry.
* Responses too long for net/http's buffer, of which a panic in a hook leaves a
  part already sent; the client sees that as a failed call, as it does here.
* Delays of a request are modelled as the failure of its call: a request that is
  processed after its caller gave up is a handler nobody waits for.
* A loss of the demo AS's memory (it persists nothing, and all parties run in its
  process), and expiry of tickets and tokens (it has none).
* The test suites and the conformance harness.

## Plan

Done, in this order: `CacheControl` and `MetadataCache`; `RetryDoer`;
`Exchange`; `TicketGrant` and `AuthorizationServer`; the composition `UMASystem`;
then `ASHandler` with the hooks and with requests of any client, `Discovery`,
`Challenge` and `ProtectedRequest`; then the proofs of every safety property.

Next, in order of importance:

1. A shared client: `RetryDoer` over `AuthorizationServer`, refining the calls
   of `UMASystem`. A retried redemption is a re-sent ticket there, so it ends in
   a refusal where `LoseCall` now ends in one.
2. `sameIssuer` over URLs of pieces, with a host and a path, in place of a pair
   and a number of slashes.
