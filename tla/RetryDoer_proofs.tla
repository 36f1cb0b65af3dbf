-------------------------- MODULE RetryDoer_proofs --------------------------
(***************************************************************************)
(* Proofs about RetryDoer, for any options and any number of attempts.     *)
(***************************************************************************)
EXTENDS RetryDoer, GoInt_proofs, TLAPS

(* Every configuration the options can build has at least one attempt.     *)
LEMMA ConfigType ==
  ASSUME NEW c \in Configs
  PROVE  c \in [maxAttempts : Nat \ {0}, baseDelay : Nat \ {0}, maxDelay : Nat \ {0}]
<1>1. PICK n \in AttemptOptions, b \in DelayOptions, m \in DelayOptions : c = Config(n, b, m)
  BY DEF Configs
<1>2. ClampAttempts(n) \in Nat \ {0}
  BY RetryAssumption DEF ClampAttempts
<1>3. /\ OrDefault(b, DefaultBaseDelay) \in Nat \ {0}
      /\ OrDefault(m, DefaultMaxDelay) \in Nat \ {0}
  BY RetryAssumption DEF OrDefault
<1> QED
  BY <1>1, <1>2, <1>3 DEF Config

LEMMA InitIInv == Init => IInv
<1> SUFFICES ASSUME Init PROVE IInv
  OBVIOUS
<1>1. TypeOK
  <2>1. cfg \in [maxAttempts : Nat \ {0}, baseDelay : Nat \ {0}, maxDelay : Nat \ {0}]
    BY ConfigType DEF Init
  <2>2. sent \in Seq(Attempts)
    BY DEF Init
  <2>3. result \in [err : {"nil", "neterr", "getbody"}, resp : Outcomes \cup {"nil"},
                    readable : BOOLEAN]
    BY DEF Init, NoResult
  <2>4. canceled \in BOOLEAN /\ lastErr \in BOOLEAN
    BY DEF Init
  <2>5. /\ getBody \in {"absent", "present"}
        /\ pc \in {"loop", "wait", "send", "done"}
        /\ attempt \in Nat \ {0}
        /\ body \in {"full", "drained"}
        /\ lastResp \in {"nil", "transient"}
    BY DEF Init
  <2> QED
    BY <2>1, <2>2, <2>3, <2>4, <2>5, Zenon DEF TypeOK
<1>2. Len(sent) = 0 /\ 1 .. Len(sent) = {} /\ cfg.maxAttempts \in Nat \ {0}
  BY <1>1 DEF Init, TypeOK
<1>3. Counted
  BY <1>2 DEF Init, Counted
<1>4. LastRemembered /\ FullBody /\ ResponseXorError /\ LastOutcomeReturned
  BY <1>2 DEF Init, LastRemembered, FullBody, ResponseXorError, LastOutcomeReturned
<1>5. ResendsOnlyAfterTransient /\ BodyReplayed
  BY <1>2 DEF Init, ResendsOnlyAfterTransient, BodyReplayed
<1> QED
  BY <1>1, <1>3, <1>4, <1>5 DEF IInv

(* The properties that only speak of the attempts made so far.             *)
LEMMA SentKept ==
  ASSUME IInv, UNCHANGED <<sent, cfg, getBody>>
  PROVE  ResendsOnlyAfterTransient' /\ BodyReplayed'
  BY DEF IInv, ResendsOnlyAfterTransient, BodyReplayed

LEMMA FirstTryIInv == ASSUME IInv, FirstTry PROVE IInv'
<1> USE DEF IInv, FirstTry
<1>1. TypeOK'
  BY DEF TypeOK
<1>2. Counted' /\ LastRemembered' /\ FullBody'
  BY DEF TypeOK, Counted, LastRemembered, FullBody
<1>3. ResponseXorError' /\ LastOutcomeReturned'
  BY DEF ResponseXorError, LastOutcomeReturned
<1> QED
  BY <1>1, <1>2, <1>3, SentKept

LEMMA PrepareIInv == ASSUME IInv, Prepare PROVE IInv'
<1> USE DEF IInv, Prepare
<1>1. TypeOK'
  BY DEF TypeOK
<1>2. Counted' /\ LastRemembered' /\ FullBody'
  BY DEF TypeOK, Counted, LastRemembered, FullBody
<1>3. ResponseXorError' /\ LastOutcomeReturned'
  BY DEF ResponseXorError, LastOutcomeReturned
<1> QED
  BY <1>1, <1>2, <1>3, SentKept

LEMMA TimerFiresIInv == ASSUME IInv, TimerFires PROVE IInv'
<1> USE DEF IInv, TimerFires
<1>1. TypeOK'
  BY DEF TypeOK
<1>2. Counted' /\ LastRemembered' /\ FullBody'
  BY DEF TypeOK, Counted, LastRemembered, FullBody
<1>3. ResponseXorError' /\ LastOutcomeReturned'
  BY DEF ResponseXorError, LastOutcomeReturned
<1> QED
  BY <1>1, <1>2, <1>3, SentKept

LEMMA GetBodyFailsIInv == ASSUME IInv, GetBodyFails PROVE IInv'
<1> USE DEF IInv, GetBodyFails, Return
<1>1. TypeOK'
  BY DEF TypeOK
<1>2. Counted' /\ LastRemembered' /\ FullBody'
  BY DEF TypeOK, Counted, LastRemembered, FullBody
<1>3. ResponseXorError' /\ LastOutcomeReturned'
  BY DEF ResponseXorError, LastOutcomeReturned
<1> QED
  BY <1>1, <1>2, <1>3, SentKept

(* Both places that return what the last attempt left.                     *)
LEMMA ReturnLastIInv == ASSUME IInv, Exhausted \/ GiveUp PROVE IInv'
<1> USE DEF IInv, Exhausted, GiveUp
<1>1. sent # <<>> /\ Len(sent) >= 1 /\ sent[Len(sent)] \in Attempts /\ pc # "done"
  BY DEF Counted, TypeOK
<1>2. /\ lastErr = (sent[Len(sent)].outcome = "neterr")
      /\ lastResp = IF lastErr THEN "nil" ELSE "transient"
      /\ sent[Len(sent)].outcome \in {"transient", "neterr"}
  BY <1>1 DEF LastRemembered, TypeOK
<1>3. /\ pc' = "done" /\ sent' = sent
      /\ lastErr => result' = [err |-> "neterr", resp |-> "nil", readable |-> FALSE]
      /\ ~lastErr => result' = [err |-> "nil", resp |-> "transient", readable |-> FALSE]
  BY <1>2 DEF ReturnLast, Return
<1>4. TypeOK'
  <2>1. result' \in [err : {"nil", "neterr", "getbody"}, resp : Outcomes \cup {"nil"},
                     readable : BOOLEAN]
    <3>1. lastErr \in BOOLEAN
      BY DEF TypeOK
    <3>2. PICK e \in {"nil", "neterr", "getbody"}, r \in Outcomes \cup {"nil"} :
            result' = [err |-> e, resp |-> r, readable |-> FALSE]
      BY <1>3, <3>1 DEF Outcomes
    <3> QED
      BY <3>2
  <2> QED
    BY <1>3, <2>1 DEF TypeOK
<1>5. Counted' /\ LastRemembered' /\ FullBody'
  BY <1>3 DEF TypeOK, Counted, LastRemembered, FullBody
<1>6. ResponseXorError' /\ LastOutcomeReturned'
  <2>1. \/ result' = [err |-> "neterr", resp |-> "nil", readable |-> FALSE] 
           /\ sent[Len(sent)].outcome = "neterr"
        \/ result' = [err |-> "nil", resp |-> "transient", readable |-> FALSE] 
           /\ sent[Len(sent)].outcome = "transient"
    BY <1>2, <1>3
  <2>2. ResponseXorError'
    BY <2>1 DEF ResponseXorError
  <2>3. \/ result'.err = "neterr" /\ ~result'.readable /\ sent[Len(sent)].outcome = "neterr"
        \/ /\ result'.resp = "transient" /\ ~result'.readable
           /\ sent[Len(sent)].outcome = "transient"
    BY <2>1
  <2>4. LastOutcomeReturned'
    BY <1>1, <1>3, <2>3 DEF LastOutcomeReturned
  <2> QED
    BY <2>2, <2>4
<1>7. UNCHANGED <<sent, cfg, getBody>>
  OBVIOUS
<1>8. ResendsOnlyAfterTransient' /\ BodyReplayed'
  BY <1>7, SentKept
<1> QED
  BY <1>4, <1>5, <1>6, <1>8

(* Sending appends one attempt, which carries what Prepare restored.       *)
LEMMA SendAppends ==
  ASSUME IInv, NEW o \in Outcomes, NEW acted \in BOOLEAN, Send(o, acted)
  PROVE  /\ sent' \in Seq(Attempts)
         /\ Len(sent') = Len(sent) + 1
         /\ Len(sent') = attempt
         /\ sent'[Len(sent')].outcome = o
         /\ \A i \in 1 .. Len(sent) : sent'[i] = sent[i]
         /\ \A i \in 1 .. Len(sent) : sent[i].outcome \in {"transient", "neterr"}
         /\ attempt <= cfg.maxAttempts
         /\ ResendsOnlyAfterTransient'
         /\ BodyReplayed'
<1> USE DEF IInv, Send
<1> DEFINE a == [body |-> body, outcome |-> o, acted |-> acted]
<1>1. a \in Attempts /\ sent \in Seq(Attempts) /\ sent' = Append(sent, a)
  BY DEF TypeOK, Attempts
<1>2. /\ sent' \in Seq(Attempts) /\ Len(sent') = Len(sent) + 1
      /\ sent'[Len(sent')] = a
      /\ \A i \in 1 .. Len(sent) : sent'[i] = sent[i]
  BY <1>1
<1>3. \A i \in 1 .. Len(sent) : sent[i].outcome \in {"transient", "neterr"}
  BY DEF LastRemembered
<1>4. Len(sent) = attempt - 1 /\ attempt <= cfg.maxAttempts /\ attempt \in Nat
  BY DEF Counted, TypeOK
<1>5. ResendsOnlyAfterTransient'
  BY <1>1, <1>2, <1>3, <1>4 DEF ResendsOnlyAfterTransient, TypeOK
<1>6. BodyReplayed'
  <2>1. getBody = "present" => a.body = "full"
    BY DEF FullBody
  <2>2. 1 .. Len(sent') = 1 .. Len(sent) \cup {Len(sent')}
    BY <1>1, <1>2
  <2> QED
    BY <1>2, <2>1, <2>2 DEF BodyReplayed
<1> QED
  BY <1>2, <1>3, <1>4, <1>5, <1>6

LEMMA AnsweredIInv ==
  ASSUME IInv, NEW o \in Outcomes, NEW acted \in BOOLEAN, Answered(o, acted)
  PROVE  IInv'
<1> USE DEF IInv, Answered
<1>1. Send(o, acted) /\ UNCHANGED <<cfg, getBody, attempt, lastErr, lastResp, canceled>>
      /\ body' = "drained" /\ pc' = "done" /\ result' = [err |-> "nil", resp |-> o, readable |-> TRUE]
      /\ o # "neterr"
  BY DEF Send, Return
<1>2. TypeOK'
  BY <1>1, SendAppends DEF TypeOK
<1>3. Counted' /\ LastRemembered' /\ FullBody'
  BY <1>1 DEF Counted, LastRemembered, FullBody
<1>4. ResponseXorError'
  BY <1>1 DEF ResponseXorError, Outcomes
<1>5. LastOutcomeReturned'
  <2>1. o \in {"ok", "refused"} /\ result'.readable /\ result'.resp = o
    BY <1>1 DEF Answered, ShouldRetryStatus, Outcomes
  <2>2. Len(sent') >= 1 /\ sent'[Len(sent')].outcome = o
    BY SendAppends DEF TypeOK
  <2> QED
    BY <2>1, <2>2 DEF LastOutcomeReturned
<1> QED
  BY <1>1, <1>2, <1>3, <1>4, <1>5, SendAppends

(* Both outcomes that lead back to the top of the loop.                    *)
LEMMA RetriedIInv ==
  ASSUME IInv, NEW o \in Outcomes, NEW acted \in BOOLEAN,
         (o = "neterr" /\ Failed(acted)) \/ Transient(o, acted)
  PROVE  IInv'
<1> USE DEF IInv
<1>1. Send(o, acted) /\ UNCHANGED <<cfg, getBody, canceled, result>>
      /\ body' = "drained" /\ pc' = "loop" /\ attempt' = attempt + 1
      /\ pc = "send" /\ o \in {"neterr", "transient"}
      /\ lastErr' = (o = "neterr")
      /\ lastResp' = IF o = "neterr" THEN "nil" ELSE "transient"
  BY DEF Send, Failed, Transient, ShouldRetryStatus
<1>2. TypeOK'
  BY <1>1, SendAppends DEF TypeOK
<1>3. Counted'
  BY <1>1, SendAppends DEF Counted, TypeOK
<1>4. LastRemembered'
  <2>1. 1 .. Len(sent') = 1 .. Len(sent) \cup {Len(sent')}
    BY <1>1, SendAppends DEF TypeOK
  <2>2. \A i \in 1 .. Len(sent') : sent'[i].outcome \in {"transient", "neterr"}
    BY <1>1, <2>1, SendAppends
  <2>3. sent' # <<>>
    BY <1>1, SendAppends DEF TypeOK
  <2> QED
    BY <1>1, <2>2, <2>3, SendAppends DEF LastRemembered
<1>5. FullBody' /\ ResponseXorError' /\ LastOutcomeReturned'
  BY <1>1 DEF FullBody, ResponseXorError, LastOutcomeReturned, TypeOK
<1> QED
  BY <1>1, <1>2, <1>3, <1>4, <1>5, SendAppends

LEMMA CancelIInv == ASSUME IInv, Cancel PROVE IInv'
<1> USE DEF IInv, Cancel
<1>1. TypeOK'
  BY DEF TypeOK
<1>2. Counted' /\ LastRemembered' /\ FullBody' /\ ResponseXorError' /\ LastOutcomeReturned'
  BY DEF Counted, LastRemembered, FullBody, ResponseXorError, LastOutcomeReturned
<1> QED
  BY <1>1, <1>2, SentKept

LEMMA StutterIInv == ASSUME IInv, UNCHANGED vars PROVE IInv'
  BY DEF IInv, vars, TypeOK, Counted, LastRemembered, FullBody, ResponseXorError,
     LastOutcomeReturned, ResendsOnlyAfterTransient, BodyReplayed

LEMMA NextIInv == IInv /\ [Next]_vars => IInv'
<1> SUFFICES ASSUME IInv, [Next]_vars PROVE IInv'
  OBVIOUS
<1>1. CASE FirstTry
  BY <1>1, FirstTryIInv
<1>2. CASE Prepare
  BY <1>2, PrepareIInv
<1>3. CASE GetBodyFails
  BY <1>3, GetBodyFailsIInv
<1>4. CASE Exhausted \/ GiveUp
  BY <1>4, ReturnLastIInv
<1>5. CASE TimerFires
  BY <1>5, TimerFiresIInv
<1>6. ASSUME NEW acted \in BOOLEAN, NEW o \in Outcomes, Answered(o, acted) PROVE IInv'
  BY <1>6, AnsweredIInv
<1>7. ASSUME NEW acted \in BOOLEAN, Failed(acted) PROVE IInv'
  BY <1>7, RetriedIInv DEF Outcomes
<1>8. ASSUME NEW acted \in BOOLEAN, NEW o \in Outcomes, Transient(o, acted) PROVE IInv'
  BY <1>8, RetriedIInv
<1>9. CASE Cancel
  BY <1>9, CancelIInv
<1>10. CASE UNCHANGED vars
  BY <1>10, StutterIInv
<1> QED
  BY <1>1, <1>2, <1>3, <1>4, <1>5, <1>6, <1>7, <1>8, <1>9, <1>10 DEF Next, Step

(***************************************************************************)
(* The theorems.                                                           *)
(***************************************************************************)

(* IInv holds in every reachable state.                                    *)
THEOREM Invariance == Spec => []IInv
<1>1. Init => IInv
  BY InitIInv
<1>2. IInv /\ [Next]_vars => IInv'
  BY NextIInv
<1> QED
  BY <1>1, <1>2, PTL DEF Spec

(* The loop's state keeps its type, whatever the options: at least one     *)
(* attempt is configured and the delays are positive                       *)
(* (client/doer.go:83-106).                                                *)
THEOREM TypeCorrect == Spec => []TypeOK
  BY Invariance, PTL DEF IInv

(* Do returns a response or an error, never both and never neither         *)
(* (client/doer.go:153-202).                                               *)
THEOREM AnswerOrError == Spec => []ResponseXorError
  BY Invariance, PTL DEF IInv

(* Do reports how the last attempt ended (client/doer.go:181-201).         *)
THEOREM ReportsLast == Spec => []LastOutcomeReturned
  BY Invariance, PTL DEF IInv

(* At most maxAttempts attempts, each but the last ended transiently       *)
(* (client/doer.go:156, 182).                                              *)
THEOREM ResendBound == Spec => []ResendsOnlyAfterTransient
  BY Invariance, PTL DEF IInv

(* With a GetBody every attempt carries the whole body                     *)
(* (client/doer.go:162-168).                                               *)
THEOREM BodySafety == Spec => []BodyReplayed
  BY Invariance, PTL DEF IInv

-----------------------------------------------------------------------------
(***************************************************************************)
(* The delays.  Induction over the retry index is not available, and a     *)
(* least counterexample takes its place.                                   *)
(***************************************************************************)

(* The delays before the retries up to r, as the loop of backoff computes  *)
(* them (client/doer.go:209-215).                                          *)
Doubling(c, r, f) ==
  f = [i \in 0 .. r |-> IF i = 0 THEN Base(c) ELSE Doubled(c, f[i - 1])]

(* The loop defines them (client/doer.go:204-217).                         *)
LEMMA DoublingExists == ASSUME NEW c, NEW r \in Nat PROVE \E f : Doubling(c, r, f)
<1> DEFINE T == {n \in Nat : ~ \E f : Doubling(c, n, f)}
<1>1. SUFFICES ASSUME T # {} PROVE FALSE
  OBVIOUS
<1>2. PICK x \in T : \A y \in T : x <= y
  <2>1. T \subseteq Nat
    OBVIOUS
  <2> QED
    <3> HIDE DEF T
    <3> QED BY <1>1, <2>1, LeastNat
<1>3. CASE x = 0
  <2> DEFINE f == [i \in 0 .. 0 |-> Base(c)]
  <2>1. Doubling(c, 0, f)
    BY DEF Doubling
  <2> QED
    BY <1>3, <2>1
<1>4. CASE x # 0
  <2>1. x - 1 \in Nat /\ x - 1 \notin T
    BY <1>2, <1>4
  <2>2. PICK g : Doubling(c, x - 1, g)
    BY <2>1
  <2> DEFINE f == [i \in 0 .. x |-> IF i < x THEN g[i] ELSE Doubled(c, g[x - 1])]
  <2>3. \A i \in 0 .. x - 1 : g[i] = IF i = 0 THEN Base(c) ELSE Doubled(c, g[i - 1])
    BY <2>2 DEF Doubling
  <2>4. ASSUME NEW i \in 0 .. x PROVE f[i] = IF i = 0 THEN Base(c) ELSE Doubled(c, f[i - 1])
    <3>1. CASE i < x
      BY <2>1, <2>3, <3>1
    <3>2. CASE i = x
      BY <1>4, <2>1, <3>2
    <3> QED
      BY <3>1, <3>2
  <2>5. Doubling(c, x, f)
    BY <2>4 DEF Doubling
  <2> QED
    BY <2>5
<1> QED
  BY <1>3, <1>4

LEMMA BackoffIs ==
  ASSUME NEW c, NEW r \in Nat
  PROVE  \E f : Doubling(c, r, f) /\ Backoff(c, r) = f[r].delay
<1> DEFINE f == CHOOSE ff : ff = [i \in 0 .. r |-> IF i = 0 THEN Base(c) ELSE Doubled(c, ff[i - 1])]
<1>1. Doubling(c, r, f)
  BY DoublingExists DEF Doubling
<1>2. Backoff(c, r) = f[r].delay
  BY DEF Backoff
<1> QED
  BY <1>1, <1>2

(* A longer loop starts like a shorter one.                                *)
LEMMA DoublingAgrees ==
  ASSUME NEW c, NEW r \in Nat, NEW s \in Nat, r <= s, NEW f, NEW g,
         Doubling(c, r, f), Doubling(c, s, g)
  PROVE  f[r] = g[r]
<1> DEFINE T == {i \in 0 .. r : f[i] # g[i]}
<1>1. SUFFICES ASSUME T # {} PROVE FALSE
  OBVIOUS
<1>2. PICK x \in T : \A y \in T : x <= y
  <2>1. T \subseteq Nat
    OBVIOUS
  <2> QED
    <3> HIDE DEF T
    <3> QED BY <1>1, <2>1, LeastNat
<1>3. \A i \in 0 .. r : /\ f[i] = IF i = 0 THEN Base(c) ELSE Doubled(c, f[i - 1])
                       /\ g[i] = IF i = 0 THEN Base(c) ELSE Doubled(c, g[i - 1])
  BY DEF Doubling
<1>4. x # 0
  BY <1>3
<1>5. x - 1 \in 0 .. r /\ x - 1 \notin T
  BY <1>2, <1>4
<1>6. f[x - 1] = g[x - 1]
  BY <1>5
<1>7. x \in 0 .. r /\ f[x] # g[x]
  OBVIOUS
<1>8. f[x] = Doubled(c, f[x - 1])
  BY <1>3, <1>4
<1>9. g[x] = Doubled(c, g[x - 1])
  BY <1>3, <1>4
<1> QED
  BY <1>6, <1>7, <1>8, <1>9

(* Delays are integers.                                                    *)
ConfigRecords == [maxAttempts : Nat \ {0}, baseDelay : Nat \ {0}, maxDelay : Nat \ {0}]
Delays == [delay : Int, capped : BOOLEAN]

LEMMA DoubledType ==
  ASSUME NEW c \in ConfigRecords, NEW v \in Delays PROVE Doubled(c, v) \in Delays
<1>1. 2 * v.delay \in Int /\ Wrap(2 * v.delay) \in Int
  BY WrapInt DEF Delays
<1> QED
  BY <1>1 DEF Doubled, Delays, ConfigRecords

LEMMA DoublingType ==
  ASSUME NEW c \in ConfigRecords, NEW r \in Nat, NEW f, Doubling(c, r, f)
  PROVE  \A i \in 0 .. r : f[i] \in Delays
<1> DEFINE T == {i \in 0 .. r : f[i] \notin Delays}
<1>1. SUFFICES ASSUME T # {} PROVE FALSE
  OBVIOUS
<1>2. PICK x \in T : \A y \in T : x <= y
  <2>1. T \subseteq Nat
    OBVIOUS
  <2> QED
    <3> HIDE DEF T
    <3> QED BY <1>1, <2>1, LeastNat
<1>3. f[x] = IF x = 0 THEN Base(c) ELSE Doubled(c, f[x - 1])
  BY DEF Doubling
<1>4. CASE x = 0
  <2>1. Base(c) \in Delays
    BY DEF Base, Delays, ConfigRecords
  <2> QED
    BY <1>3, <1>4, <2>1
<1>5. CASE x # 0
  <2>1. x - 1 \in 0 .. r /\ x - 1 \notin T
    BY <1>2, <1>5
  <2> QED
    BY <1>3, <1>5, <2>1, DoubledType
<1> QED
  BY <1>4, <1>5

(***************************************************************************)
(* A delay of the loop: positive, far enough from the largest int64 to be  *)
(* doubled, and from the first retry on at most the maximum, which it is   *)
(* once the loop has been left (client/doer.go:209-215).                   *)
(***************************************************************************)
Grown(c, i, v) ==
  /\ v.delay >= 1 /\ 2 * v.delay <= MaxInt
  /\ v.capped => v.delay = c.maxDelay
  /\ i >= 1 => v.delay <= c.maxDelay

LEMMA DoubledGrown ==
  ASSUME NEW c \in ConfigRecords, 2 * c.maxDelay <= MaxInt,
         NEW i \in Nat, NEW v \in Delays, Grown(c, i, v)
  PROVE  /\ Grown(c, i + 1, Doubled(c, v))
         /\ i >= 1 => Doubled(c, v).delay \in v.delay .. 2 * v.delay
<1>1. v.delay \in Int /\ v.capped \in BOOLEAN /\ c.maxDelay \in Nat \ {0}
  BY DEF Delays, ConfigRecords
<1>2. 2 * v.delay \in GoInts
  BY <1>1, HalfRangeAssumption DEF Grown, GoInts, MinInt, MaxInt
<1>3. Wrap(2 * v.delay) = 2 * v.delay
  BY <1>2, WrapFits
<1>4. CASE v.capped \/ 2 * v.delay > c.maxDelay
  <2>1. Doubled(c, v).delay = c.maxDelay /\ Doubled(c, v).capped
    BY <1>3, <1>4 DEF Doubled
  <2> QED
    BY <1>1, <1>4, <2>1 DEF Grown
<1>5. CASE ~(v.capped \/ 2 * v.delay > c.maxDelay)
  <2>1. Doubled(c, v).delay = 2 * v.delay /\ ~Doubled(c, v).capped
    BY <1>3, <1>5 DEF Doubled
  <2> QED
    BY <1>1, <1>5, <2>1, HalfRangeAssumption DEF Grown, MaxInt
<1> QED
  BY <1>4, <1>5

LEMMA DoublingGrown ==
  ASSUME NEW c \in ConfigRecords, 2 * c.maxDelay <= MaxInt, 2 * c.baseDelay <= MaxInt,
         NEW r \in Nat, NEW f, Doubling(c, r, f)
  PROVE  \A i \in 0 .. r : Grown(c, i, f[i])
<1> DEFINE T == {i \in 0 .. r : ~Grown(c, i, f[i])}
<1>1. SUFFICES ASSUME T # {} PROVE FALSE
  OBVIOUS
<1>2. PICK x \in T : \A y \in T : x <= y
  <2>1. T \subseteq Nat
    OBVIOUS
  <2> QED
    <3> HIDE DEF T
    <3> QED BY <1>1, <2>1, LeastNat
<1>3. f[x] = IF x = 0 THEN Base(c) ELSE Doubled(c, f[x - 1])
  BY DEF Doubling
<1>4. CASE x = 0
  BY <1>3, <1>4 DEF Base, Grown, ConfigRecords
<1>5. CASE x # 0
  <2>1. x - 1 \in 0 .. r /\ x - 1 \notin T /\ x - 1 \in Nat /\ (x - 1) + 1 = x
    BY <1>2, <1>5
  <2>2. Grown(c, x - 1, f[x - 1]) /\ f[x - 1] \in Delays
    BY <2>1, DoublingType
  <2>3. Grown(c, (x - 1) + 1, Doubled(c, f[x - 1]))
    <3> HIDE DEF T
    <3> QED BY <2>1, <2>2, DoubledGrown
  <2> QED
    BY <1>3, <1>5, <2>1, <2>3
<1> QED
  BY <1>4, <1>5

(***************************************************************************)
(* The shape of backoff(r), r >= 1, as Do calls it: between 1 and the      *)
(* maximum, and the next between it and its double (client/doer.go:204-    *)
(* 217).                                                                   *)
(***************************************************************************)
LEMMA BackoffGrows ==
  ASSUME NEW c \in ConfigRecords, 2 * c.maxDelay <= MaxInt, 2 * c.baseDelay <= MaxInt,
         NEW r \in Nat \ {0}
  PROVE  /\ Backoff(c, r) \in 1 .. c.maxDelay
         /\ Backoff(c, r + 1) \in Backoff(c, r) .. 2 * Backoff(c, r)
<1>1. PICK f : Doubling(c, r, f) /\ Backoff(c, r) = f[r].delay
  BY BackoffIs
<1>2. PICK g : Doubling(c, r + 1, g) /\ Backoff(c, r + 1) = g[r + 1].delay
  BY BackoffIs
<1>3. f[r] = g[r]
  BY <1>1, <1>2, DoublingAgrees
<1>4. g[r] \in Delays /\ Grown(c, r, g[r])
  BY <1>2, DoublingType, DoublingGrown
<1>5. g[r + 1] = Doubled(c, g[r])
  BY <1>2 DEF Doubling
<1>6. Doubled(c, g[r]).delay \in g[r].delay .. 2 * g[r].delay
  BY <1>4, DoubledGrown
<1>7. g[r].delay \in 1 .. c.maxDelay
  BY <1>4 DEF Grown, Delays, ConfigRecords
<1> QED
  BY <1>1, <1>2, <1>3, <1>5, <1>6, <1>7

(***************************************************************************)
(* The delays waited so far are those of backoff, one for each retry       *)
(* prepared (client/doer.go:157-176).                                      *)
(***************************************************************************)
DelaysInv ==
  /\ delays \in Seq(Int)
  /\ pc \in {"wait", "send"} => Len(delays) = attempt - 1
  /\ pc = "loop" => Len(delays) = IF attempt = 1 THEN 0 ELSE attempt - 2
  /\ \A i \in 1 .. Len(delays) : delays[i] = Backoff(cfg, i)

LEMMA BackoffInt == ASSUME NEW c \in ConfigRecords, NEW r \in Nat PROVE Backoff(c, r) \in Int
<1>1. PICK f : Doubling(c, r, f) /\ Backoff(c, r) = f[r].delay
  BY BackoffIs
<1>2. f[r] \in Delays
  BY <1>1, DoublingType
<1> QED
  BY <1>1, <1>2 DEF Delays

LEMMA InitDelaysInv == Init => DelaysInv
  BY DEF Init, DelaysInv

LEMMA PrepareDelaysInv == ASSUME TypeOK, DelaysInv, Prepare PROVE DelaysInv'
<1> DEFINE d == Backoff(cfg, attempt - 1)
<1>1. attempt \in Nat \ {0, 1} /\ cfg \in ConfigRecords /\ Len(delays) = attempt - 2
  BY DEF Prepare, TypeOK, DelaysInv, ConfigRecords
<1>2. attempt - 1 \in Nat /\ d \in Int
  BY <1>1, BackoffInt
<1>3. delays' = Append(delays, d) /\ cfg' = cfg /\ attempt' = attempt /\ pc' = "wait"
  BY DEF Prepare
<1>4. /\ delays' \in Seq(Int) /\ Len(delays') = Len(delays) + 1
      /\ \A i \in 1 .. Len(delays) : delays'[i] = delays[i]
      /\ delays'[Len(delays) + 1] = d
  <2> HIDE DEF d
  <2> QED BY <1>2, <1>3 DEF DelaysInv
<1>5. Len(delays) + 1 = attempt - 1
  BY <1>1
<1>6. ASSUME NEW i \in 1 .. Len(delays') PROVE delays'[i] = Backoff(cfg, i)
  <2>1. Len(delays) \in Nat
    BY DEF DelaysInv
  <2>2. i \in 1 .. Len(delays) \/ i = Len(delays) + 1
    BY <1>4, <2>1
  <2> QED
    BY <1>4, <1>5, <2>2 DEF DelaysInv
<1> QED
  BY <1>1, <1>3, <1>4, <1>6 DEF DelaysInv

LEMMA NextDelaysInv == TypeOK /\ DelaysInv /\ [Next]_vars => DelaysInv'
<1> SUFFICES ASSUME TypeOK, DelaysInv, [Next]_vars PROVE DelaysInv'
  OBVIOUS
<1>1. CASE Prepare
  BY <1>1, PrepareDelaysInv
<1>2. CASE UNCHANGED <<cfg, delays, pc, attempt>>
  BY <1>2 DEF DelaysInv
<1>3. CASE UNCHANGED <<cfg, delays>> /\ pc' = "done"
  BY <1>3 DEF DelaysInv
<1>4. CASE FirstTry \/ TimerFires
  BY <1>4 DEF FirstTry, TimerFires, DelaysInv
<1>5. CASE UNCHANGED <<cfg, delays>> /\ pc = "send" /\ pc' = "loop" /\ attempt' = attempt + 1
  BY <1>5 DEF DelaysInv, TypeOK
<1>6. CASE UNCHANGED vars \/ Cancel
  BY <1>2, <1>6 DEF vars, Cancel
<1>7. CASE GetBodyFails \/ Exhausted \/ GiveUp
  BY <1>3, <1>7 DEF GetBodyFails, Exhausted, GiveUp, ReturnLast, Return
<1>8. ASSUME NEW acted, NEW o, Answered(o, acted) PROVE DelaysInv'
  BY <1>3, <1>8 DEF Answered, Send, Return
<1>9. ASSUME NEW acted, NEW o, Failed(acted) \/ Transient(o, acted) PROVE DelaysInv'
  BY <1>5, <1>9 DEF Failed, Transient, Send
<1> QED
  BY <1>1, <1>4, <1>6, <1>7, <1>8, <1>9 DEF Next, Step

(***************************************************************************)
(* The backoff is truncated exponential, for every base and maximum that   *)
(* an int64 can hold twice, and any number of attempts                     *)
(* (client/doer.go:94-106, 169-176, 204-217).                              *)
(***************************************************************************)
THEOREM TruncatedBackoff == Spec => []BackoffShape
<1>1. TypeOK /\ DelaysInv => BackoffShape
  <2> SUFFICES ASSUME TypeOK, DelaysInv, 2 * cfg.maxDelay <= MaxInt, 2 * cfg.baseDelay <= MaxInt
               PROVE  /\ \A i \in 1 .. Len(delays) : delays[i] \in 1 .. cfg.maxDelay
                      /\ \A i \in 1 .. Len(delays) - 1 :
                           delays[i + 1] \in delays[i] .. 2 * delays[i]
    BY DEF BackoffShape
  <2>1. cfg \in ConfigRecords /\ Len(delays) \in Nat
    BY DEF TypeOK, DelaysInv, ConfigRecords
  <2>2. \A i \in 1 .. Len(delays) : delays[i] = Backoff(cfg, i) /\ i \in Nat \ {0}
    BY <2>1 DEF DelaysInv
  <2>3. ASSUME NEW i \in 1 .. Len(delays) PROVE delays[i] \in 1 .. cfg.maxDelay
    BY <2>1, <2>2, BackoffGrows
  <2>4. ASSUME NEW i \in 1 .. Len(delays) - 1
        PROVE  delays[i + 1] \in delays[i] .. 2 * delays[i]
    <3>1. i \in 1 .. Len(delays) /\ i + 1 \in 1 .. Len(delays)
      BY <2>1
    <3> QED
      BY <2>1, <2>2, <3>1, BackoffGrows
  <2> QED
    BY <2>3, <2>4
<1> QED
  BY <1>1, InitDelaysInv, NextDelaysInv, TypeCorrect, PTL DEF Spec
=============================================================================
