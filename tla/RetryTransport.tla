---------------------------- MODULE RetryTransport ----------------------------
(***************************************************************************)
(* GovernorTransport.RoundTrip (internal/gitlab/ratelimit.go): every API   *)
(* call of the program goes through it.  Requests of several goroutines    *)
(* share one token bucket; each is sent, and sent again after a delay, at  *)
(* most MaxRetries times.                                                  *)
(*                                                                         *)
(* Time is a Tick that refills the bucket (golang.org/x/time/rate, modelled *)
(* from its use) and shortens the sleeps.  A response is told apart by its *)
(* class and by the delay its headers ask for; NoHint is no such header.   *)
(***************************************************************************)
EXTENDS Integers, FiniteSets

CONSTANTS Requests,     \* concurrent calls of RoundTrip
          WithBody,     \* the ones that carry a body
          MaxRetries,   \* t.maxRetries
          BaseBackoff, MaxBackoff,  \* t.baseBackoff, t.maxBackoff, in ticks
          JitterPct,    \* t.jitterRatio, in percent
          Burst, Rate,  \* the limiter: its size, its tokens per tick
          Hints,        \* the Retry-After and RateLimit-Reset delays seen
          NoHint,       \* a response without such a header
          WordBits,     \* the width of int
          MaxTicks      \* bound: ticks are counted up to here

ASSUME TransportAssumption ==
  /\ MaxRetries \in Nat /\ BaseBackoff \in Nat \ {0} /\ MaxBackoff \in Nat \ {0}
  /\ JitterPct \in 1..100 /\ Burst \in Nat \ {0} /\ Rate \in Nat \ {0}
  /\ Hints \subseteq Nat /\ NoHint \notin Nat /\ WordBits \in Nat \ {0}
  /\ IsFiniteSet(Requests) /\ WithBody \subseteq Requests /\ MaxTicks \in Nat

VARIABLES
  pc,         \* where each call is
  attempt,    \* the loop variable
  body,       \* the request body: "none", "full" or "spent"
  sentBodies, \* what the bodies of the attempts were when sent
  open,       \* the attempts whose response body is open
  reply,      \* the response or error of the last attempt
  delay,      \* the delay the call asked for
  left,       \* the ticks that its sleep still lasts
  answer,     \* what RoundTrip returned
  ctxDone,    \* the context of the requests is done
  tokens, sent, ticks  \* the bucket, the sends so far, the time so far

callVars == <<pc, attempt, body, sentBodies, open, reply, delay, left, answer>>
transportVars == <<callVars, ctxDone, tokens, sent, ticks>>

(* 429 and 5xx are retried; what the model calls "final" is any other     *)
(* status.  A retryable error is a timeout, an EOF or a net.OpError; a     *)
(* fatal one is a cancellation or anything else.                           *)
Final     == [class : {"final"}, hint : {NoHint}]
Throttled == [class : {"429"}, hint : Hints \cup {NoHint}]
ServerErr == [class : {"5xx"}, hint : Hints \cup {NoHint}]
NetErr    == [class : {"neterr", "fatal"}, hint : {NoHint}]
Replies   == Final \cup Throttled \cup ServerErr \cup NetErr
None      == [class |-> "none", hint |-> NoHint]

IsResponse(r)  == r.class \in {"final", "429", "5xx"}
IsRetryable(r) == r.class \in {"429", "5xx", "neterr"}

TransportInit ==
  /\ pc = [r \in Requests |-> "limiter"]
  /\ attempt = [r \in Requests |-> 0]
  /\ body = [r \in Requests |-> IF r \in WithBody THEN "full" ELSE "none"]
  /\ sentBodies = [r \in Requests |-> {}]
  /\ open = [r \in Requests |-> {}]
  /\ reply = [r \in Requests |-> None]
  /\ delay = [r \in Requests |-> 0]
  /\ left = [r \in Requests |-> 0]
  /\ answer = [r \in Requests |-> "none"]
  /\ ctxDone = FALSE /\ tokens = Burst /\ sent = 0 /\ ticks = 0

-----------------------------------------------------------------------------
(* 1 << attempt on a signed word, and the multiplier made of it. *)
ShiftLeft(a) == IF a < WordBits - 1 THEN 2 ^ a
                ELSE IF a = WordBits - 1 THEN - (2 ^ (WordBits - 1)) ELSE 0
Multiplier(a) == IF ShiftLeft(a) > 1024 THEN 1024 ELSE ShiftLeft(a)

AtMostMaxBackoff(d) == IF d > MaxBackoff THEN MaxBackoff ELSE d
Backoff(a) == AtMostMaxBackoff(BaseBackoff * Multiplier(a))

(* applyJitter: any value within the jitter of d, cut to [0, MaxBackoff]. *)
ApplyJitter(d) ==
  IF d <= 0 THEN {0}
  ELSE LET range == (d * JitterPct) \div 100
       IN  {AtMostMaxBackoff(x) : x \in {y \in (d - range)..(d + range) : y >= 0}}

(* calculateDelay: Retry-After (or, on a 429, RateLimit-Reset) if given. *)
CalculateDelay(a, r) == IF r.hint # NoHint THEN ApplyJitter(r.hint)
                                           ELSE ApplyJitter(Backoff(a))

-----------------------------------------------------------------------------
Return(r, what) ==
  /\ pc' = [pc EXCEPT ![r] = "returned"]
  /\ answer' = [answer EXCEPT ![r] = what]

(* Mutation: an attempt is not charged to the limiter. *)
TakeNoToken == UNCHANGED tokens
TakeToken == tokens > 0 /\ tokens' = tokens - 1

(* Mutation: a retry goes on with the reader of the attempt before it. *)
NotRewound(r) == body[r]
Rewound(r) == IF attempt[r] > 0 /\ body[r] # "none" THEN "full" ELSE body[r]

(* limiter.Wait, then the rewind of the body of a retry. *)
Admit(r) ==
  /\ pc[r] = "limiter"
  /\ ~ctxDone /\ TakeToken
  /\ pc' = [pc EXCEPT ![r] = "send"]
  /\ body' = [body EXCEPT ![r] = Rewound(r)]
  /\ UNCHANGED <<attempt, sentBodies, open, reply, delay, left, answer, ctxDone,
                 sent, ticks>>

(* limiter.Wait fails: the context is done, or its deadline is too near. *)
AdmitFails(r) ==
  /\ pc[r] = "limiter"
  /\ ctxDone \/ tokens = 0
  /\ open' = [open EXCEPT ![r] = {}]
  /\ Return(r, "error")
  /\ UNCHANGED <<attempt, body, sentBodies, reply, delay, left, ctxDone, tokens,
                 sent, ticks>>

(* io.ReadAll cannot buffer the body: no attempt is made. *)
BufferFails(r) ==
  /\ pc[r] = "limiter" /\ attempt[r] = 0 /\ body[r] # "none"
  /\ Return(r, "error")
  /\ UNCHANGED <<attempt, body, sentBodies, open, reply, delay, left, ctxDone, tokens,
                 sent, ticks>>

(* GetBody fails: the retry has its token, and is not sent. *)
RewindFails(r) ==
  /\ pc[r] = "limiter" /\ attempt[r] > 0 /\ body[r] # "none"
  /\ ~ctxDone /\ TakeToken
  /\ Return(r, "error")
  /\ UNCHANGED <<attempt, body, sentBodies, open, reply, delay, left, ctxDone, sent, ticks>>

CanRetry(r) == attempt[r] < MaxRetries

(* The response bodies that are open when reply a has come, and when the   *)
(* loop has drained and closed it to try again.                            *)
OpenWith(r, a) == IF IsResponse(a) THEN open[r] \cup {attempt[r]} ELSE open[r]
DrainAndClose(r, a) == OpenWith(r, a) \ {attempt[r]}

(* t.base.RoundTrip, and what the loop does with its reply a. *)
Send(r, a) ==
  /\ pc[r] = "send"
  /\ sent' = IF ticks < MaxTicks THEN sent + 1 ELSE sent
  /\ sentBodies' = [sentBodies EXCEPT ![r] = @ \cup {body[r]}]
  /\ body' = [body EXCEPT ![r] = IF @ = "full" THEN "spent" ELSE @]
  /\ reply' = [reply EXCEPT ![r] = a]
  /\ \/ /\ ~IsRetryable(a) \/ ~CanRetry(r)
        /\ Return(r, IF IsResponse(a) THEN "response" ELSE "error")
        /\ open' = [open EXCEPT ![r] = OpenWith(r, a)]
        /\ UNCHANGED <<delay, left>>
     \/ /\ IsRetryable(a) /\ CanRetry(r)
        /\ \E d \in CalculateDelay(attempt[r], a) :
             /\ delay' = [delay EXCEPT ![r] = d]
             /\ left' = [left EXCEPT ![r] = d]
        /\ pc' = [pc EXCEPT ![r] = "sleep"]
        /\ open' = [open EXCEPT ![r] = DrainAndClose(r, a)]
        /\ UNCHANGED answer
  /\ UNCHANGED <<attempt, ctxDone, tokens, ticks>>

(* Mutation: the loop does not count its attempts. *)
WakeUpUncounted(r) ==
  /\ pc[r] = "sleep"
  /\ left[r] = 0
  /\ pc' = [pc EXCEPT ![r] = "limiter"]
  /\ UNCHANGED <<attempt, body, sentBodies, open, reply, delay, left, answer, ctxDone,
                 tokens, sent, ticks>>

(* clock.Sleep ends, and the loop goes round. *)
WakeUp(r) ==
  /\ pc[r] = "sleep"
  /\ left[r] = 0
  /\ attempt' = [attempt EXCEPT ![r] = @ + 1]
  /\ pc' = [pc EXCEPT ![r] = "limiter"]
  /\ UNCHANGED <<body, sentBodies, open, reply, delay, left, answer, ctxDone, tokens,
                 sent, ticks>>

SleepCancelled(r) ==
  /\ pc[r] = "sleep"
  /\ ctxDone
  /\ Return(r, "error")
  /\ UNCHANGED <<attempt, body, sentBodies, open, reply, delay, left, ctxDone, tokens,
                 sent, ticks>>

CancelRequests == ~ctxDone /\ ctxDone' = TRUE /\ UNCHANGED <<callVars, tokens, sent, ticks>>

Tick ==
  /\ \E r \in Requests : pc[r] # "returned"
  /\ tokens' = IF tokens + Rate > Burst THEN Burst ELSE tokens + Rate
  /\ left' = [r \in Requests |-> IF left[r] > 0 THEN left[r] - 1 ELSE 0]
  /\ ticks' = IF ticks < MaxTicks THEN ticks + 1 ELSE ticks
  /\ UNCHANGED <<pc, attempt, body, sentBodies, open, reply, delay, answer, ctxDone, sent>>

Call(r) ==
  \/ BufferFails(r) \/ Admit(r) \/ AdmitFails(r) \/ RewindFails(r) \/ WakeUp(r) \/ SleepCancelled(r)
  \/ \E a \in Replies : Send(r, a)

TransportNext == Tick \/ CancelRequests \/ \E r \in Requests : Call(r)

TransportSpec == TransportInit /\ [][TransportNext]_transportVars

(* Time passes, the goroutines are scheduled and the base transport        *)
(* answers (its own timeouts see to that).                                 *)
FairTransportSpec ==
  /\ TransportSpec
  /\ WF_transportVars(Tick) /\ \A r \in Requests : WF_transportVars(Call(r))

-----------------------------------------------------------------------------
(* Every attempt pays for itself: with its retries counted, the program    *)
(* never sends more than the bucket held and the time refilled, however    *)
(* the goroutines interleave.                                              *)
RateLimitHolds == sent <= Burst + Rate * ticks

(* A retry carries the whole body again, never the one its predecessor     *)
(* already read to the end.                                                *)
BodyIsWhole == \A r \in Requests : "spent" \notin sentBodies[r]

(* Every call returns. *)
CallsReturn == \A r \in Requests : <>(pc[r] = "returned")
=============================================================================
