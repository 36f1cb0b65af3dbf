----------------------------- MODULE RetryDoer -----------------------------
(***************************************************************************)
(* One call of retryDoer.Do (client/doer.go): attempts over an inner doer  *)
(* that may answer, answer with a transient status, or fail, with a        *)
(* backoff between attempts and a context that may be canceled at any      *)
(* moment.                                                                 *)
(*                                                                         *)
(* The inner doer and the server behind it are external: an attempt has an *)
(* outcome, and, whatever the outcome, the server may or may not have      *)
(* acted on the request (an answer can be lost after the fact).            *)
(***************************************************************************)
EXTENDS GoInt, Sequences

CONSTANTS
  AttemptOptions,    (* Arguments of WithMaxAttempts.                      *)
  DelayOptions,      (* Arguments of WithBackoff, base and maximum.        *)
  DefaultBaseDelay,  (* 100 ms in defaultRetryConfig.                      *)
  DefaultMaxDelay    (* 5 s in defaultRetryConfig.                         *)

ASSUME RetryAssumption ==
  /\ AttemptOptions \subseteq Int
  /\ DelayOptions \subseteq Int
  /\ DefaultBaseDelay \in Nat \ {0}
  /\ DefaultMaxDelay \in Nat \ {0}

VARIABLES
  cfg,       (* retryConfig after the options, chosen once.                *)
  getBody,   (* The request's GetBody: "absent", or "present"; one that is *)
             (* present may work for one retry and fail for the next.      *)
  canceled,  (* req.Context() is done.                                     *)
  pc,        (* Where Do is.                                               *)
  attempt,   (* The loop variable.                                         *)
  body,      (* req.Body: "full", or "drained" by an earlier attempt.      *)
  lastErr,   (* lastErr is not nil.                                        *)
  lastResp,  (* lastResp: "nil", or a response whose body is closed.       *)
  delays,    (* The delays waited so far, in order.                        *)
  sent,      (* History: what each attempt carried, and how it ended.      *)
  result     (* What Do returned.                                          *)

vars == <<cfg, getBody, canceled, pc, attempt, body, lastErr, lastResp,
          delays, sent, result>>

-----------------------------------------------------------------------------
(* The configuration.                                                      *)

(* Mutant: WithMaxAttempts takes any number.                               *)
NoClamp(n) == n

ClampAttempts(n) == IF n < 1 THEN 1 ELSE n

OrDefault(d, default) == IF d > 0 THEN d ELSE default

Config(n, base, maxDelay) ==
  [maxAttempts |-> ClampAttempts(n),
   baseDelay   |-> OrDefault(base, DefaultBaseDelay),
   maxDelay    |-> OrDefault(maxDelay, DefaultMaxDelay)]

Configs == {Config(n, b, m) : n \in AttemptOptions,
                              b \in DelayOptions, m \in DelayOptions}

(***************************************************************************)
(* One round of the loop in backoff: the delay doubles, in int64, until it *)
(* exceeds the maximum; from there on it is the maximum.                   *)
(***************************************************************************)
Base(c) == [delay |-> c.baseDelay, capped |-> FALSE]

(* Mutant: the exponent is not capped.                                     *)
Uncapped(c, last) == [delay |-> Wrap(2 * last.delay), capped |-> FALSE]

Doubled(c, last) ==
  LET d == Wrap(2 * last.delay)
  IN  IF last.capped \/ d > c.maxDelay
      THEN [delay |-> c.maxDelay, capped |-> TRUE]
      ELSE [delay |-> d, capped |-> FALSE]

Backoff(c, retryIndex) ==
  LET Double[i \in 0 .. retryIndex] ==
        IF i = 0 THEN Base(c) ELSE Doubled(c, Double[i - 1])
  IN  Double[retryIndex].delay

-----------------------------------------------------------------------------
(* An answer that is not transient, a 502, 503 or 504, and a failure of    *)
(* the inner doer.  500 counts with the answers that are not transient.    *)
Outcomes == {"ok", "refused", "transient", "neterr"}

(* Mutant: every answer but a success is retried.                          *)
RetryAnyRefusal(status) == status # "ok"

ShouldRetryStatus(status) == status = "transient"

NoResult == [err |-> "nil", resp |-> "nil", readable |-> FALSE]

Init ==
  /\ cfg \in Configs
  /\ getBody \in {"absent", "present"}
  /\ canceled = FALSE
  /\ pc = "loop"
  /\ attempt = 1
  /\ body = "full"
  /\ lastErr = FALSE
  /\ lastResp = "nil"
  /\ delays = <<>>
  /\ sent = <<>>
  /\ result = NoResult

(* readable: the body of the response is still open for the caller.        *)
Return(err, resp, readable) ==
  /\ pc' = "done"
  /\ result' = [err |-> err, resp |-> resp, readable |-> readable]

(* The loop's end, and a cancellation, return what the last attempt left:  *)
(* a transient answer was drained and closed when it came.                 *)
ReturnLast ==
  IF lastErr THEN Return("neterr", "nil", FALSE) ELSE Return("nil", lastResp, FALSE)

FirstTry ==
  /\ pc = "loop"
  /\ attempt <= cfg.maxAttempts
  /\ attempt = 1
  /\ pc' = "send"
  /\ UNCHANGED <<cfg, getBody, canceled, attempt, body, lastErr, lastResp,
                 delays, sent, result>>

(* Mutant: the body is restored only before the first retry.               *)
PrepareOnce ==
  /\ pc = "loop"
  /\ attempt <= cfg.maxAttempts
  /\ attempt > 1
  /\ body' = IF getBody = "present" /\ attempt = 2 THEN "full" ELSE body
  /\ delays' = Append(delays, Backoff(cfg, attempt - 1))
  /\ pc' = "wait"
  /\ UNCHANGED <<cfg, getBody, canceled, attempt, lastErr, lastResp, sent, result>>

(* Before any other attempt: restore the body, where GetBody is there and  *)
(* does not fail, then wait.                                               *)
Prepare ==
  /\ pc = "loop"
  /\ attempt <= cfg.maxAttempts
  /\ attempt > 1
  /\ body' = IF getBody = "present" THEN "full" ELSE body
  /\ delays' = Append(delays, Backoff(cfg, attempt - 1))
  /\ pc' = "wait"
  /\ UNCHANGED <<cfg, getBody, canceled, attempt, lastErr, lastResp, sent, result>>

GetBodyFails ==
  /\ pc = "loop"
  /\ attempt <= cfg.maxAttempts
  /\ attempt > 1
  /\ getBody = "present"
  /\ Return("getbody", "nil", FALSE)
  /\ UNCHANGED <<cfg, getBody, canceled, attempt, body, lastErr, lastResp,
                 delays, sent>>

(* Mutant: the loop starts over instead of returning.                      *)
StartOver ==
  /\ pc = "loop"
  /\ attempt > cfg.maxAttempts
  /\ attempt' = 1
  /\ sent' = <<>> /\ delays' = <<>>
  /\ UNCHANGED <<cfg, getBody, canceled, pc, body, lastErr, lastResp, result>>

Exhausted ==
  /\ pc = "loop"
  /\ attempt > cfg.maxAttempts
  /\ ReturnLast
  /\ UNCHANGED <<cfg, getBody, canceled, attempt, body, lastErr, lastResp,
                 delays, sent>>

(* The select: when both channels are ready Go takes either.               *)
TimerFires ==
  /\ pc = "wait"
  /\ pc' = "send"
  /\ UNCHANGED <<cfg, getBody, canceled, attempt, body, lastErr, lastResp,
                 delays, sent, result>>

GiveUp ==
  /\ pc = "wait"
  /\ canceled
  /\ ReturnLast
  /\ UNCHANGED <<cfg, getBody, canceled, attempt, body, lastErr, lastResp,
                 delays, sent>>

(* inner.Do, which drains the body it is given.                            *)
Send(outcome, acted) ==
  /\ pc = "send"
  /\ outcome = "ok" => acted
  /\ sent' = Append(sent, [body |-> body, outcome |-> outcome, acted |-> acted])
  /\ body' = "drained"
  /\ UNCHANGED <<cfg, getBody, canceled, delays>>

Answered(outcome, acted) ==
  /\ Send(outcome, acted)
  /\ outcome # "neterr" /\ ~ShouldRetryStatus(outcome)
  /\ Return("nil", outcome, TRUE)
  /\ UNCHANGED <<attempt, lastErr, lastResp>>

Failed(acted) ==
  /\ Send("neterr", acted)
  /\ lastErr' = TRUE
  /\ lastResp' = "nil"
  /\ attempt' = attempt + 1
  /\ pc' = "loop"
  /\ UNCHANGED result

(* Mutant: an earlier error is not forgotten.                              *)
TransientKeepsError(outcome, acted) ==
  /\ Send(outcome, acted)
  /\ outcome # "neterr" /\ ShouldRetryStatus(outcome)
  /\ lastResp' = outcome
  /\ attempt' = attempt + 1
  /\ pc' = "loop"
  /\ UNCHANGED <<lastErr, result>>

Transient(outcome, acted) ==
  /\ Send(outcome, acted)
  /\ outcome # "neterr" /\ ShouldRetryStatus(outcome)
  /\ lastResp' = outcome
  /\ lastErr' = FALSE
  /\ attempt' = attempt + 1
  /\ pc' = "loop"
  /\ UNCHANGED result

(* The caller, or a deadline, cancels the request's context.               *)
Cancel ==
  /\ ~canceled
  /\ pc # "done"
  /\ canceled' = TRUE
  /\ UNCHANGED <<cfg, getBody, pc, attempt, body, lastErr, lastResp,
                 delays, sent, result>>

(* The steps of Do itself: the scheduler runs the goroutine, the inner     *)
(* doer answers or fails, and timers fire.                                 *)
Step ==
  \/ FirstTry
  \/ Prepare
  \/ GetBodyFails
  \/ Exhausted
  \/ TimerFires
  \/ GiveUp
  \/ \E acted \in BOOLEAN :
       \/ \E o \in Outcomes : Answered(o, acted)
       \/ Failed(acted)
       \/ \E o \in Outcomes : Transient(o, acted)

Next == Step \/ Cancel

Spec == Init /\ [][Next]_vars

FairSpec == Spec /\ WF_vars(Step)

-----------------------------------------------------------------------------
(* Properties.                                                             *)

Attempts == [body : {"full", "drained"}, outcome : Outcomes, acted : BOOLEAN]

TypeOK ==
  /\ cfg \in [maxAttempts : Nat \ {0}, baseDelay : Nat \ {0}, maxDelay : Nat \ {0}]
  /\ getBody \in {"absent", "present"}
  /\ canceled \in BOOLEAN
  /\ pc \in {"loop", "wait", "send", "done"}
  /\ attempt \in Nat \ {0}
  /\ body \in {"full", "drained"}
  /\ lastErr \in BOOLEAN
  /\ lastResp \in {"nil", "transient"}
  /\ sent \in Seq(Attempts)
  /\ result \in [err : {"nil", "neterr", "getbody"}, resp : Outcomes \cup {"nil"},
               readable : BOOLEAN]

(***************************************************************************)
(* Do returns a response or an error, never both and never neither, even   *)
(* when WithMaxAttempts was given zero or less: every caller dereferences  *)
(* the response once the error is nil (client/doer.go:85-92, 153-202).     *)
(***************************************************************************)
ResponseXorError ==
  pc = "done" => (result.err = "nil") # (result.resp = "nil")

(***************************************************************************)
(* What Do returns is how the last attempt ended.  In a mixed run of       *)
(* transient answers and errors an earlier one never resurfaces, neither   *)
(* when the attempts run out nor when the context is canceled, and the     *)
(* body of the response is open to the caller exactly if the answer is not *)
(* one of those drained and closed for a retry (client/doer.go:171-200).   *)
(***************************************************************************)
LastOutcomeReturned ==
  pc = "done" /\ result.err # "getbody" =>
    LET last == sent[Len(sent)].outcome
    IN  /\ Len(sent) >= 1
        /\ last = "neterr" => result.err = "neterr"
        /\ last # "neterr" => result.resp = last
        /\ result.readable <=> last \in {"ok", "refused"}

(***************************************************************************)
(* The request is sent again only after a failure or a 502, 503 or 504,    *)
(* never after another answer, 500 included.  So the server acts on it     *)
(* twice only if the answer to the first time was lost, or a gateway spoke *)
(* for the server, and the caller let Do try more than once: what the      *)
(* caution in client/doer.go:114-121 warns of, and how it is avoided.      *)
(***************************************************************************)
ResendsOnlyAfterTransient ==
  /\ Len(sent) <= cfg.maxAttempts
  /\ \A i \in 1 .. Len(sent) - 1 : sent[i].outcome \in {"transient", "neterr"}
  /\ \A i, j \in 1 .. Len(sent) :
       i < j /\ sent[i].acted /\ sent[j].acted =>
         cfg.maxAttempts > 1 /\ sent[i].outcome \in {"transient", "neterr"}

(***************************************************************************)
(* With a GetBody, every attempt carries the whole body, however many came *)
(* before it (client/doer.go:162-168).                                     *)
(***************************************************************************)
BodyReplayed ==
  getBody = "present" => \A i \in 1 .. Len(sent) : sent[i].body = "full"

(***************************************************************************)
(* The delays are positive, never shrink, at most double, and never exceed *)
(* the maximum, also when the base does, as long as twice the base and     *)
(* twice the maximum are int64 (client/doer.go:94-106, 204-217).           *)
(***************************************************************************)
BackoffShape ==
  2 * cfg.maxDelay <= MaxInt /\ 2 * cfg.baseDelay <= MaxInt =>
    /\ \A i \in 1 .. Len(delays) : delays[i] \in 1 .. cfg.maxDelay
    /\ \A i \in 1 .. Len(delays) - 1 : delays[i + 1] \in delays[i] .. 2 * delays[i]

(***************************************************************************)
(* Do returns, as long as the inner doer does (client/doer.go:156).        *)
(***************************************************************************)
Returns == <>(pc = "done")

(***************************************************************************)
(* client/doer.go:205: "retryIndex 0 -> first retry (base)"; the delay     *)
(* before the first retry should be the base delay.                        *)
(***************************************************************************)
FirstRetryWaitsBase ==
  Len(delays) >= 1 /\ cfg.baseDelay <= cfg.maxDelay => delays[1] = cfg.baseDelay

(***************************************************************************)
(* client/doer.go:133-135: Do "returns the context error immediately if    *)
(* the request's context is canceled ... while waiting to back off".       *)
(***************************************************************************)
CancelReturnsContextError ==
  [][pc = "wait" /\ pc' = "done" => result'.err = "context"]_vars

(***************************************************************************)
(* client/doer.go:129-131: a body without GetBody "will fall back to       *)
(* single-attempt behavior on retry".                                      *)
(***************************************************************************)
NoReplayWithoutGetBody ==
  getBody = "absent" => Len(sent) <= 1

(***************************************************************************)
(* What makes the safety properties inductive: while Do runs, every        *)
(* attempt so far failed in a way that is retried, lastErr and lastResp    *)
(* describe the last of them, and the loop variable counts them.           *)
(***************************************************************************)
Counted ==
  /\ pc # "done" => Len(sent) = attempt - 1
  /\ pc \in {"wait", "send"} => attempt <= cfg.maxAttempts
  /\ pc = "wait" => attempt > 1
  /\ attempt <= cfg.maxAttempts + 1

LastRemembered ==
  pc # "done" =>
    /\ \A i \in 1 .. Len(sent) : sent[i].outcome \in {"transient", "neterr"}
    /\ sent = <<>> => ~lastErr /\ lastResp = "nil"
    /\ sent # <<>> =>
         /\ lastErr = (sent[Len(sent)].outcome = "neterr")
         /\ lastResp = IF lastErr THEN "nil" ELSE "transient"

FullBody ==
  /\ pc # "done" /\ attempt = 1 => body = "full"
  /\ pc \in {"wait", "send"} /\ getBody = "present" => body = "full"

IInv ==
  /\ TypeOK
  /\ Counted
  /\ LastRemembered
  /\ FullBody
  /\ ResponseXorError
  /\ LastOutcomeReturned
  /\ ResendsOnlyAfterTransient
  /\ BodyReplayed
=============================================================================
