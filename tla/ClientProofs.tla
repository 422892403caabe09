----------------------------- MODULE ClientProofs -----------------------------
(***************************************************************************)
(* Proofs about the API client of internal/gitlab: the transport under     *)
(* every call, and the streams of paginated lists on top of it.            *)
(*                                                                         *)
(* The transport, for any number of concurrent requests, any limiter,      *)
(* backoff and number of retries, and any width of the words the backoff   *)
(* is computed in.  That the rate limit holds needs an account of every    *)
(* token (Budget): it is in the bucket, spent on a request that has been   *)
(* sent, or taken by one that is about to be.  The other results rest on   *)
(* what a call knows at each place of its loop: in which state its body is *)
(* (Bodies), that no earlier response is left open (Closed), and how far   *)
(* its retries and its sleep can go (Bounds).                              *)
(*                                                                         *)
(* The streams, for any set of ids, any size of a page and of the channel, *)
(* and any number of deletions.  The invariant follows an id from the      *)
(* server to its reader.  What the pages so far should have held is in the *)
(* batch, in the channel or with the reader (Coverage); an error is about  *)
(* to be sent, in the channel, or with the reader (Truncation).            *)
(***************************************************************************)
EXTENDS RetryTransport, Stream, FiniteSetTheorems, SequenceTheorems, WellFoundedInduction, TLAPS

(* The calls that hold a token they have not spent. *)
Admitted == {r \in Requests : pc[r] = "send"}

TransportTypes ==
  /\ pc \in [Requests -> {"limiter", "send", "sleep", "returned"}]
  /\ attempt \in [Requests -> Nat]
  /\ body \in [Requests -> {"none", "full", "spent"}]
  /\ sentBodies \in [Requests -> SUBSET {"none", "full", "spent"}]
  /\ open \in [Requests -> SUBSET Nat]
  /\ delay \in [Requests -> Int] /\ left \in [Requests -> Int]
  /\ answer \in [Requests -> {"none", "response", "error"}]
  /\ tokens \in Nat /\ sent \in Nat /\ ticks \in Nat

(* Every token is accounted for as long as time is counted. *)
Budget ==
  /\ tokens <= Burst /\ ticks <= MaxTicks
  /\ ticks < MaxTicks => sent + tokens + Cardinality(Admitted) <= Burst + Rate * ticks
  /\ RateLimitHolds

(* A body that has been read is sent only after it was rewound. *)
Bodies ==
  /\ \A r \in Requests : pc[r] = "send" => body[r] # "spent"
  /\ \A r \in Requests : pc[r] = "limiter" /\ attempt[r] = 0 => body[r] # "spent"
  /\ BodyIsWhole

(* A call leaves no response open but the one it returns, and that one it  *)
(* leaves open for its caller.                                             *)
Closed ==
  \A r \in Requests :
    /\ pc[r] # "returned" => open[r] = {} /\ answer[r] = "none"
    /\ answer[r] = "error" => open[r] = {}
    /\ answer[r] = "response" => open[r] = {attempt[r]}

(* The loop is bounded, and so is each of its sleeps, whatever the server  *)
(* asks for and however the computation of the backoff overflows.          *)
Bounds ==
  \A r \in Requests : /\ attempt[r] <= MaxRetries
                      /\ pc[r] = "sleep" => attempt[r] < MaxRetries
                      /\ delay[r] \in 0..MaxBackoff /\ left[r] \in 0..delay[r]

(* The inductive invariant of the transport. *)
TransportInv == TransportTypes /\ Budget /\ Bodies /\ Closed /\ Bounds

-----------------------------------------------------------------------------
(* calculateDelay stays between zero and maxBackoff, for every attempt and *)
(* every header: the shift of the backoff may overflow to a negative       *)
(* number or to zero, and a Retry-After may ask for any time.              *)
LEMMA DelayIsBounded ==
  ASSUME NEW a, NEW r, NEW d \in CalculateDelay(a, r)
  PROVE  d \in 0..MaxBackoff
  <1>1. ASSUME NEW x, NEW y \in ApplyJitter(x)
        PROVE  y \in 0..MaxBackoff
    BY TransportAssumption DEF TransportAssumption, ApplyJitter, AtMostMaxBackoff
  <1> QED BY <1>1 DEF CalculateDelay

(* The calls that hold a token: one joins, or one leaves. *)
LEMMA AdmittedFacts ==
  ASSUME NEW S \in SUBSET Requests, NEW r \in Requests
  PROVE  /\ Cardinality(S) \in Nat
         /\ r \notin S => Cardinality(S \cup {r}) = Cardinality(S) + 1
         /\ r \in S => Cardinality(S \ {r}) = Cardinality(S) - 1 /\ Cardinality(S) >= 1
  <1>1. IsFiniteSet(S)
    BY TransportAssumption, FS_Subset DEF TransportAssumption
  <1>2. Cardinality(S) \in Nat
    BY <1>1, FS_CardinalityType
  <1>3. r \notin S => Cardinality(S \cup {r}) = Cardinality(S) + 1
    BY <1>1, FS_AddElement
  <1>4. r \in S => IsFiniteSet(S \ {r}) /\ Cardinality(S \ {r}) = Cardinality(S) - 1
    BY <1>1, FS_RemoveElement
  <1>5. r \in S => Cardinality(S \ {r}) \in Nat
    BY <1>4, FS_CardinalityType
  <1> QED BY <1>2, <1>3, <1>4, <1>5

(* The transport starts in the invariant. *)
LEMMA InitTransportInv == TransportInit => TransportInv
  <1> SUFFICES ASSUME TransportInit PROVE TransportInv
    OBVIOUS
  <1> USE TransportAssumption DEF TransportAssumption, TransportInit
  <1>1. TransportTypes
    BY DEF TransportTypes
  <1>2. Budget
    <2>1. Admitted = {}
      BY DEF Admitted
    <2>2. Cardinality(Admitted) = 0
      BY <2>1, FS_EmptySet
    <2> QED BY <2>2 DEF Budget, RateLimitHolds
  <1>3. Bodies
    BY DEF Bodies, BodyIsWhole
  <1>4. Closed
    BY DEF Closed
  <1>5. Bounds
    BY DEF Bounds
  <1> QED BY <1>1, <1>2, <1>3, <1>4, <1>5 DEF TransportInv

(* Taking a token, and rewinding the body of a retry, keeps the invariant. *)
LEMMA StepAdmit ==
  ASSUME TransportInv, NEW r \in Requests, Admit(r)
  PROVE  TransportInv'
  <1> USE DEF TransportInv, Admit, TakeToken
  <1>1. TransportTypes'
    BY DEF TransportTypes, Rewound
  <1>2. Budget'
    <2>1. Admitted' = Admitted \cup {r} /\ r \notin Admitted
      BY DEF Admitted, TransportTypes
    <2>2. Cardinality(Admitted) \in Nat /\ Cardinality(Admitted') = Cardinality(Admitted) + 1
      BY <2>1, AdmittedFacts DEF Admitted
    <2> QED BY <2>2, TransportAssumption DEF Budget, RateLimitHolds, TransportTypes, TransportAssumption
  <1>3. Bodies'
    BY DEF Bodies, BodyIsWhole, TransportTypes, Rewound
  <1>4. Closed'
    BY DEF Closed, TransportTypes
  <1>5. Bounds'
    BY DEF Bounds, TransportTypes
  <1> QED BY <1>1, <1>2, <1>3, <1>4, <1>5

(* A call that the limiter or a cancellation turns away, or whose body     *)
(* cannot be read or rewound, keeps the invariant.                         *)
LEMMA StepTurnedAway ==
  ASSUME TransportInv, NEW r \in Requests,
         AdmitFails(r) \/ SleepCancelled(r) \/ BufferFails(r) \/ RewindFails(r)
  PROVE  TransportInv'
  <1> USE DEF TransportInv, AdmitFails, SleepCancelled, BufferFails, RewindFails, TakeToken, Return
  <1>1. TransportTypes'
    BY DEF TransportTypes
  <1>2. Budget'
    <2>1. Admitted' = Admitted
      BY DEF Admitted, TransportTypes
    <2>2. Cardinality(Admitted) \in Nat
      BY TransportAssumption, FS_Subset, FS_CardinalityType DEF Admitted, TransportAssumption
    <2>3. tokens' <= tokens /\ tokens' \in Nat /\ sent' = sent /\ ticks' = ticks
      BY <1>1 DEF TransportTypes
    <2>4. Rate * ticks \in Nat
      BY TransportAssumption DEF TransportAssumption, TransportTypes
    <2> QED BY <2>1, <2>2, <2>3, <2>4, TransportAssumption
            DEF Budget, RateLimitHolds, TransportTypes, TransportAssumption
  <1>3. Bodies'
    BY DEF Bodies, BodyIsWhole, TransportTypes
  <1>4. Closed'
    BY DEF Closed, TransportTypes
  <1>5. Bounds'
    BY DEF Bounds, TransportTypes
  <1> QED BY <1>1, <1>2, <1>3, <1>4, <1>5

(* Sending a request, and what the loop does with the reply, keeps the     *)
(* invariant: the token taken is now spent.                                *)
LEMMA StepSend ==
  ASSUME TransportInv, NEW r \in Requests, NEW a \in Replies, Send(r, a)
  PROVE  TransportInv'
  <1> USE DEF TransportInv
  <1>1. /\ pc[r] = "send" /\ pc' \in {[pc EXCEPT ![r] = "returned"], [pc EXCEPT ![r] = "sleep"]}
        /\ UNCHANGED <<attempt, tokens, ticks>>
        /\ sent' = IF ticks < MaxTicks THEN sent + 1 ELSE sent
        /\ sentBodies' = [sentBodies EXCEPT ![r] = @ \cup {body[r]}]
        /\ body' = [body EXCEPT ![r] = IF @ = "full" THEN "spent" ELSE @]
    BY DEF Send, Return
  <1>2. open[r] = {} /\ answer[r] = "none"
    BY <1>1 DEF Closed
  <1>3. Budget'
    <2>1. Admitted' = Admitted \ {r} /\ r \in Admitted
      BY <1>1 DEF Admitted, TransportTypes
    <2>2. Cardinality(Admitted) \in Nat /\ Cardinality(Admitted') = Cardinality(Admitted) - 1
      BY <2>1, AdmittedFacts DEF Admitted
    <2>3. Cardinality(Admitted) >= 1
      BY <2>1, AdmittedFacts DEF Admitted
    <2>4. Rate * ticks \in Nat
      BY TransportAssumption DEF TransportAssumption, TransportTypes
    <2> QED BY <1>1, <2>2, <2>3, <2>4, TransportAssumption
            DEF Budget, RateLimitHolds, TransportTypes, TransportAssumption
  <1>4. Bodies'
    BY <1>1 DEF Bodies, BodyIsWhole, TransportTypes
  <1>5. CASE ~IsRetryable(a) \/ ~CanRetry(r)
    <2>1. /\ pc' = [pc EXCEPT ![r] = "returned"] /\ UNCHANGED <<delay, left>>
          /\ answer' = [answer EXCEPT ![r] = IF IsResponse(a) THEN "response" ELSE "error"]
          /\ open' = [open EXCEPT ![r] = OpenWith(r, a)]
      BY <1>5 DEF Send, Return
    <2>2. OpenWith(r, a) = IF IsResponse(a) THEN {attempt[r]} ELSE {}
      BY <1>2 DEF OpenWith
    <2>3. TransportTypes'
      BY <1>1, <2>1, <2>2 DEF TransportTypes
    <2>4. Closed'
      BY <1>1, <1>2, <2>1, <2>2 DEF Closed, TransportTypes
    <2>5. Bounds'
      BY <1>1, <2>1 DEF Bounds, TransportTypes
    <2> QED BY <1>3, <1>4, <2>3, <2>4, <2>5
  <1>6. CASE IsRetryable(a) /\ CanRetry(r)
    <2>1. /\ pc' = [pc EXCEPT ![r] = "sleep"] /\ answer' = answer
          /\ open' = [open EXCEPT ![r] = DrainAndClose(r, a)]
      BY <1>6 DEF Send
    <2>2. PICK d \in CalculateDelay(attempt[r], a) : /\ delay' = [delay EXCEPT ![r] = d]
                                                     /\ left' = [left EXCEPT ![r] = d]
      BY <1>6 DEF Send
    <2>3. d \in 0..MaxBackoff
      BY DelayIsBounded
    <2>4. DrainAndClose(r, a) = {}
      BY <1>2 DEF DrainAndClose, OpenWith
    <2>5. TransportTypes'
      BY <1>1, <2>1, <2>2, <2>3, <2>4 DEF TransportTypes
    <2>6. Closed'
      BY <1>1, <1>2, <2>1, <2>4 DEF Closed, TransportTypes
    <2>7. Bounds'
      BY <1>1, <1>6, <2>1, <2>2, <2>3 DEF Bounds, TransportTypes, CanRetry
    <2> QED BY <1>3, <1>4, <2>5, <2>6, <2>7
  <1> QED BY <1>5, <1>6

(* The end of a sleep, and with it the next round of the loop, keeps the   *)
(* invariant.                                                              *)
LEMMA StepWakeUp ==
  ASSUME TransportInv, NEW r \in Requests, WakeUp(r)
  PROVE  TransportInv'
  <1> USE DEF TransportInv, WakeUp
  <1>1. TransportTypes'
    BY DEF TransportTypes
  <1>2. Budget'
    <2>1. Admitted' = Admitted
      BY DEF Admitted, TransportTypes
    <2> QED BY <2>1 DEF Budget, RateLimitHolds
  <1>3. Bodies'
    BY DEF Bodies, BodyIsWhole, TransportTypes
  <1>4. Closed'
    BY DEF Closed, TransportTypes
  <1>5. Bounds'
    BY TransportAssumption DEF Bounds, TransportTypes, TransportAssumption
  <1> QED BY <1>1, <1>2, <1>3, <1>4, <1>5

(* The passing of time keeps the invariant: what it refills, it allows.    *)
LEMMA StepTick ==
  ASSUME TransportInv, Tick
  PROVE  TransportInv'
  <1> USE TransportAssumption DEF TransportInv, Tick, TransportAssumption
  <1>1. TransportTypes'
    BY DEF TransportTypes
  <1>2. Budget'
    <2>1. Admitted' = Admitted
      BY DEF Admitted
    <2>2. Cardinality(Admitted) \in Nat
      BY FS_Subset, FS_CardinalityType DEF Admitted
    <2>3. Rate * ticks \in Nat /\ Rate * (ticks + 1) = Rate * ticks + Rate
      BY DEF TransportTypes
    <2>4. CASE ticks < MaxTicks
      <3>1. ticks' = ticks + 1 /\ sent' = sent /\ tokens' <= tokens + Rate /\ tokens' <= Burst
        BY <2>4 DEF TransportTypes, Budget
      <3>2. sent + tokens + Cardinality(Admitted) <= Burst + Rate * ticks
        BY <2>4 DEF Budget
      <3>3. tokens' \in Nat
        BY <1>1 DEF TransportTypes
      <3>4. sent + tokens' + Cardinality(Admitted) <= Burst + Rate * (ticks + 1)
        BY <2>2, <2>3, <3>1, <3>2, <3>3 DEF TransportTypes
      <3>5. sent <= Burst + Rate * (ticks + 1)
        BY <2>2, <2>3, <3>3, <3>4 DEF TransportTypes
      <3> QED BY <2>1, <2>4, <3>1, <3>4, <3>5 DEF TransportTypes, Budget, RateLimitHolds
    <2>5. CASE ~(ticks < MaxTicks)
      BY <2>5 DEF TransportTypes, Budget, RateLimitHolds
    <2> QED BY <2>4, <2>5
  <1>3. Bodies'
    BY DEF Bodies, BodyIsWhole
  <1>4. Closed'
    BY DEF Closed
  <1>5. Bounds'
    BY DEF Bounds, TransportTypes
  <1> QED BY <1>1, <1>2, <1>3, <1>4, <1>5

(* Every step keeps the invariant. *)
LEMMA NextTransportInv == TransportInv /\ [TransportNext]_transportVars => TransportInv'
  <1> SUFFICES ASSUME TransportInv, [TransportNext]_transportVars PROVE TransportInv'
    OBVIOUS
  <1>1. CASE Tick
    BY <1>1, StepTick
  <1>2. CASE CancelRequests \/ UNCHANGED transportVars
    BY <1>2 DEF CancelRequests, transportVars, callVars, TransportInv, TransportTypes, Budget, RateLimitHolds, Admitted,
                Bodies, BodyIsWhole, Closed, Bounds
  <1>3. CASE \E r \in Requests : Call(r)
    BY <1>3, StepAdmit, StepTurnedAway, StepWakeUp, StepSend DEF Call
  <1> QED BY <1>1, <1>2, <1>3 DEF TransportNext

(* The transport never leaves its invariant. *)
LEMMA TransportInvariance == TransportSpec => []TransportInv
  BY InitTransportInv, NextTransportInv, PTL DEF TransportSpec

-----------------------------------------------------------------------------
(* The program never sends more requests, retries counted, than its bucket *)
(* held at the start and the time since has refilled, however many         *)
(* goroutines share the limiter.                                           *)
THEOREM RateLimitAlwaysHolds == TransportSpec => []RateLimitHolds
  <1>1. TransportInv => RateLimitHolds
    BY DEF TransportInv, Budget
  <1> QED BY <1>1, TransportInvariance, PTL

(* No attempt is sent with a body that an earlier one has read to its end. *)
THEOREM BodyIsAlwaysWhole == TransportSpec => []BodyIsWhole
  <1>1. TransportInv => BodyIsWhole
    BY DEF TransportInv, Bodies
  <1> QED BY <1>1, TransportInvariance, PTL

(* RoundTrip closes every response it does not return: one that ends with  *)
(* an error leaves none open, and one that ends with a response leaves     *)
(* only that one to its caller.                                            *)
THEOREM ResponsesAreClosed == TransportSpec => []Closed
  <1>1. TransportInv => Closed
    BY DEF TransportInv
  <1> QED BY <1>1, TransportInvariance, PTL

(* RoundTrip tries at most maxRetries times again, and never sleeps longer *)
(* than maxBackoff, whatever Retry-After a server sends and however far    *)
(* the shift that computes the backoff overflows.                          *)
THEOREM RetriesAreBounded == TransportSpec => []Bounds
  <1>1. TransportInv => Bounds
    BY DEF TransportInv
  <1> QED BY <1>1, TransportInvariance, PTL

-----------------------------------------------------------------------------
StreamTypes ==
  /\ reader \in {"range", "instance"} /\ live \subseteq Ids /\ cancelled \in BOOLEAN
  /\ mode \in {"keyset", "page"} /\ page \in Nat \ {0} /\ idAfter \in Nat
  /\ ppc \in {"check", "fetch", "send", "sendErr", "closed"}
  /\ batch \subseteq Ids /\ next \in Nat /\ stalled \in BOOLEAN
  /\ out \in Seq(Ids \cup {0}) /\ failed \in BOOLEAN
  /\ cpc \in {"reading", "failed", "finished"} /\ got \subseteq Ids

IsQueued(i) == \E k \in 1..Len(out) : out[k] = i

Truncation ==
  /\ failed => ppc = "sendErr" \/ (ppc = "closed" /\ IsQueued(0)) \/ cpc = "failed"
  /\ ppc = "sendErr" => failed

Ended == cpc = "finished" => out = <<>> /\ ppc = "closed"

(* The id i is on the way to the reader, or the reader has it or gave up. *)
IsTaken(i) == i \in got \/ IsQueued(i) \/ cpc = "failed"

(* The id i is on a page before the current one; before the page that the  *)
(* link names.                                                             *)
IsBefore(i, id, number) ==
  IF mode = "keyset" THEN i <= id ELSE Below(i) \div PerPage < number - 1
IsPassed(i) == IsBefore(i, idAfter, page)
IsLinked(i) == next = 0 \/ IsBefore(i, next, next)

Advances == next # 0 => IF mode = "keyset" THEN next > idAfter ELSE next = page + 1

Coverage ==
  Exact =>
    /\ \A i \in live : IsPassed(i) => IsTaken(i)
    /\ ppc = "send" => Advances /\ \A i \in live : IsLinked(i) => i \in batch \/ IsTaken(i)
    /\ ppc = "closed" /\ ~failed => \A i \in live : IsTaken(i)

(* The inductive invariant of a stream. *)
StreamInv == StreamTypes /\ Truncation /\ Ended /\ Coverage

-----------------------------------------------------------------------------
(* A set of numbers that is not empty has a least one. *)
LEMMA HasLeast ==
  ASSUME NEW S \in SUBSET Nat, S # {}
  PROVE  \E m \in S : \A k \in S : m <= k
<1>1. PICK m \in S : \A k \in S : ~(<<k, m>> \in OpToRel(<, Nat))
  BY NatLessThanWellFounded, WFMin, Zenon
<1>2. \A k \in S : ~(k < m)
  BY <1>1 DEF OpToRel
<1> QED BY <1>2

(* A finite one has a greatest: a least subset without one would have one  *)
(* element more than a subset that has one.                                *)
LEMMA HasGreatest ==
  ASSUME NEW S \in SUBSET Nat, IsFiniteSet(S), S # {}
  PROVE  \E m \in S : \A k \in S : k <= m
<1> DEFINE Bad == {X \in SUBSET S : X # {} /\ ~\E m \in X : \A k \in X : k <= m}
<1> SUFFICES ASSUME Bad # {} PROVE FALSE
  BY DEF Bad
<1>1. Bad \subseteq FiniteSubsetsOf(S)
  BY FS_Subset DEF FiniteSubsetsOf
<1>2. PICK X \in Bad : \A Y \in Bad : ~(<<Y, X>> \in StrictSubsetOrdering(S))
  <2> HIDE DEF Bad
  <2> QED BY <1>1, FS_StrictSubsetOrderingWellFounded, WFMin, Zenon
<1>3. PICK x \in X : TRUE
  OBVIOUS
<1>4. CASE X \ {x} = {}
  BY <1>3, <1>4
<1>5. CASE X \ {x} # {}
  <2>1. <<X \ {x}, X>> \in StrictSubsetOrdering(S)
    BY <1>3 DEF StrictSubsetOrdering
  <2>2. PICK m \in X \ {x} : \A k \in X \ {x} : k <= m
    BY <1>2, <1>5, <2>1
  <2>3. CASE m <= x
    <3>1. \A k \in X : k <= x
      BY <2>2, <2>3
    <3> QED BY <3>1, <1>3
  <2>4. CASE x <= m
    <3>1. \A k \in X : k <= m
      BY <2>2, <2>4
    <3> QED BY <3>1, <2>2
  <2> QED BY <2>3, <2>4, <1>3
<1> QED BY <1>4, <1>5

(* FirstOf and LastOf choose what they say. *)
LEMMA FirstOfSet ==
  ASSUME NEW S \in SUBSET Nat, S # {}
  PROVE  FirstOf(S) \in S /\ \A j \in S : FirstOf(S) <= j
BY HasLeast DEF FirstOf

(* The greatest element exists because a page is finite. *)
LEMMA LastOfSet ==
  ASSUME NEW S \in SUBSET Nat, IsFiniteSet(S), S # {}
  PROVE  LastOf(S) \in S /\ \A j \in S : j <= LastOf(S)
BY HasGreatest DEF LastOf

-----------------------------------------------------------------------------
(* A keyset page holds every id above id_after up to its last one, and all *)
(* of them when it has no link.                                            *)
LEMMA KeysetPageIsDense ==
  ASSUME StreamTypes
  PROVE  /\ KeysetPage \subseteq live /\ IsFiniteSet(KeysetPage)
         /\ \A i \in KeysetPage : i > idAfter
         /\ HasMore(KeysetPage) =>
              \A i \in live : i <= LastOf(KeysetPage) => i <= idAfter \/ i \in KeysetPage
         /\ ~HasMore(KeysetPage) => \A i \in live : i <= idAfter \/ i \in KeysetPage
<1> DEFINE S == KeysetPage
           Between(i) == {j \in live : idAfter < j /\ j < i}
<1>1. (\A j \in live : j \in Nat) /\ IsFiniteSet(live) /\ idAfter \in Nat /\ PerPage \in Nat \ {0}
  BY StreamAssumption, FS_Subset DEF StreamTypes
<1>2. S \subseteq live /\ IsFiniteSet(S) /\ S \in SUBSET Nat /\ \A i \in S : i > idAfter
  BY <1>1, FS_Subset DEF KeysetPage
<1>3. \A i \in live : i > idAfter => (i \in S <=> Cardinality(Between(i)) < PerPage)
  BY DEF KeysetPage
<1>4. \A i \in live : IsFiniteSet(Between(i)) /\ Cardinality(Between(i)) \in Nat
  BY <1>1, FS_Subset, FS_CardinalityType
<1>5. ASSUME NEW m \in S, NEW i \in live, i > idAfter, i <= m
      PROVE  i \in S
  <2>1. m \in live /\ m > idAfter /\ Between(i) \subseteq Between(m)
    <3>1. m \in live /\ m \in Nat /\ i \in Nat /\ m > idAfter
      BY <1>1, <1>2
    <3>2. ASSUME NEW j \in live, j < i PROVE j < m
      BY <1>1, <1>5, <3>1, <3>2
    <3> QED BY <3>1, <3>2
  <2>2. Cardinality(Between(i)) <= Cardinality(Between(m))
    BY <1>4, <2>1, FS_Subset
  <2>3. Cardinality(Between(m)) < PerPage
    BY <1>3, <2>1
  <2> HIDE DEF Between, S
  <2> QED BY <1>1, <1>3, <1>4, <1>5, <2>1, <2>2, <2>3
<1>6. ASSUME HasMore(S), NEW i \in live, i <= LastOf(S), ~(i <= idAfter)
      PROVE  i \in S
  <2>1. LastOf(S) \in S
    BY <1>2, <1>6, LastOfSet DEF HasMore
  <2> QED BY <1>1, <1>5, <1>6, <2>1
<1>7. ASSUME ~HasMore(S), NEW i \in live, ~(i <= idAfter)
      PROVE  i \in S
  <2>1. CASE S = {}
    <3> DEFINE A == {j \in live : j > idAfter}
    <3>1. A \in SUBSET Nat /\ A # {}
      BY <1>1, <1>7
    <3>2. PICK m \in A : \A k \in A : m <= k
      BY <3>1, HasLeast
    <3>3. Between(m) = {}
      BY <1>1, <3>2
    <3>4. m \in S
      BY <1>1, <1>3, <3>2, <3>3, FS_EmptySet
    <3> QED BY <2>1, <3>4
  <2>2. CASE S # {}
    <3>1. LastOf(S) \in S
      BY <1>2, <2>2, LastOfSet
    <3>2. ~(i > LastOf(S))
      BY <1>7, <2>2 DEF HasMore
    <3>3. LastOf(S) \in Nat /\ i \in Nat
      BY <1>1, <1>2, <3>1
    <3>4. i > idAfter /\ i <= LastOf(S)
      BY <1>1, <1>7, <3>2, <3>3
    <3> QED BY <1>5, <3>1, <3>4
  <2> QED BY <2>1, <2>2
<1> QED BY <1>2, <1>6, <1>7

(* The number of ids below another. *)
LEMMA BelowFacts ==
  ASSUME StreamTypes, NEW i \in live
  PROVE  /\ IsFiniteSet({j \in live : j < i}) /\ Below(i) \in Nat
         /\ Below(i) \div PerPage \in Nat
         /\ \A k \in live : i <= k => Below(i) <= Below(k)
<1>1. (\A j \in live : j \in Nat) /\ IsFiniteSet(live) /\ PerPage \in Nat \ {0}
  BY StreamAssumption, FS_Subset DEF StreamTypes
<1>2. \A k : IsFiniteSet({j \in live : j < k}) /\ Cardinality({j \in live : j < k}) \in Nat
  BY <1>1, FS_Subset, FS_CardinalityType
<1>3. ASSUME NEW k \in live, i <= k PROVE Below(i) <= Below(k)
  <2>1. {j \in live : j < i} \subseteq {j \in live : j < k}
    BY <1>1, <1>3
  <2> QED BY <1>2, <2>1, FS_Subset DEF Below
<1>4. Below(i) \in Nat
  BY <1>2 DEF Below
<1> QED BY <1>1, <1>2, <1>3, <1>4

(* The ids have every rank up to that of the last. *)
LEMMA RanksAreDense ==
  ASSUME StreamTypes, NEW i \in live, NEW r \in Nat, r <= Below(i)
  PROVE  \E j \in live : Below(j) = r
<1> DEFINE A == {j \in live : Below(j) >= r}
<1>1. (\A j \in live : j \in Nat) /\ IsFiniteSet(live)
  BY StreamAssumption, FS_Subset DEF StreamTypes
<1>2. i \in A
  BY BelowFacts
<1>3. PICK j \in A : \A k \in A : j <= k
  BY <1>1, <1>2, HasLeast
<1>4. Below(j) \in Nat /\ Below(j) >= r
  BY BelowFacts
<1>5. ~(Below(j) > r)
  <2> SUFFICES ASSUME Below(j) > r PROVE FALSE
    OBVIOUS
  <2> DEFINE B == {k \in live : k < j}
  <2>1. IsFiniteSet(B) /\ B \in SUBSET Nat /\ Cardinality(B) = Below(j)
    BY <1>1, BelowFacts DEF Below
  <2>2. B # {}
    BY <1>4, <2>1, FS_EmptySet
  <2>3. PICK p \in B : \A k \in B : k <= p
    BY <2>1, <2>2, HasGreatest
  <2>4. {k \in live : k < p} = B \ {p}
    BY <1>1, <2>3
  <2>5. Below(p) = Below(j) - 1
    BY <2>1, <2>3, <2>4, FS_RemoveElement DEF Below
  <2>6. p \in A /\ p < j
    BY <1>4, <2>3, <2>5
  <2> QED BY <1>1, <1>3, <2>6
<1> QED BY <1>4, <1>5

(* A numbered page without a link is the last: no id has a place after it. *)
LEMMA NumberPageIsDense ==
  ASSUME StreamTypes, ~HasMore(NumberPage), NEW i \in live
  PROVE  Below(i) \div PerPage < page - 1 \/ i \in NumberPage
<1> DEFINE S == NumberPage
           q == Below(i) \div PerPage
<1>1. /\ \A j \in live : j \in Nat
      /\ IsFiniteSet(live) /\ page \in Nat \ {0}
      /\ PerPage \in Nat \ {0}
  BY StreamAssumption, FS_Subset DEF StreamTypes
<1>2. S \subseteq live /\ IsFiniteSet(S) /\ S \in SUBSET Nat
  BY <1>1, FS_Subset DEF NumberPage
<1>3. Below(i) \in Nat /\ q \in Nat
  BY BelowFacts
<1> SUFFICES ASSUME q >= page - 1 PROVE q = page - 1
  BY <1>1, <1>3 DEF NumberPage
<1>4. CASE S = {}
  <2> DEFINE r == (page - 1) * PerPage
  <2>1. r \in Nat /\ r \div PerPage = page - 1
    BY <1>1
  <2>2. q * PerPage <= Below(i)
    BY <1>1, <1>3
  <2>3. r <= q * PerPage
    BY <1>1, <1>3
  <2>4. r <= Below(i)
    BY <1>1, <1>3, <2>1, <2>2, <2>3
  <2>5. PICK j \in live : Below(j) = r
    BY <2>1, <2>4, RanksAreDense
  <2> QED BY <1>4, <2>1, <2>5 DEF NumberPage
<1>5. CASE S # {}
  <2>1. LastOf(S) \in S
    BY <1>2, <1>5, LastOfSet
  <2>2. i <= LastOf(S)
    <3>1. ~(i > LastOf(S)) /\ i \in Nat /\ LastOf(S) \in Nat
      BY <1>1, <1>2, <1>5, <2>1 DEF HasMore
    <3> QED BY <3>1
  <2>3. Below(i) <= Below(LastOf(S)) /\ Below(LastOf(S)) \in Nat
    BY <1>2, <2>1, <2>2, BelowFacts
  <2>4. q <= Below(LastOf(S)) \div PerPage
    BY <1>1, <1>3, <2>3
  <2>5. Below(LastOf(S)) \div PerPage = page - 1
    BY <2>1 DEF NumberPage
  <2> QED BY <1>1, <1>3, <2>4, <2>5
<1> QED BY <1>4, <1>5

-----------------------------------------------------------------------------
(* The invariant holds initially. *)
LEMMA StreamInvInit ==
  ASSUME Init PROVE StreamInv
<1> USE DEF Init
<1>1. StreamTypes
  <2>1. out \in Seq(Ids \cup {0})
    OBVIOUS
  <2>2. got \subseteq Ids
    OBVIOUS
  <2>3. /\ reader \in {"range", "instance"} /\ live \subseteq Ids /\ batch \subseteq Ids
        /\ page \in Nat \ {0} /\ idAfter \in Nat /\ next \in Nat
    OBVIOUS
  <2> QED BY <2>1, <2>2, <2>3, Zenon DEF StreamTypes
<1>2. Truncation /\ Ended
  BY DEF Truncation, Ended
<1>3. Coverage
  <2>1. \A i \in live : i > 0
    BY StreamAssumption
  <2> QED BY <2>1, StreamAssumption DEF Coverage, IsPassed, IsBefore
<1> QED BY <1>1, <1>2, <1>3 DEF StreamInv

(* What a step keeps that changes neither the server nor the position, and *)
(* takes nothing from the channel or the reader.                           *)
LEMMA SamePlace ==
  ASSUME UNCHANGED <<live, optVars>>, NEW i
  PROVE  IsPassed(i)' <=> IsPassed(i)
BY DEF optVars, IsPassed, IsBefore, Below

(* The same for the channel and the reader. *)
LEMMA SameTaken ==
  ASSUME UNCHANGED <<out, cpc, got>>, NEW i
  PROVE  (IsTaken(i)' <=> IsTaken(i)) /\ (IsQueued(i)' <=> IsQueued(i))
BY DEF IsTaken, IsQueued

(* The producer fails, or finds the context done: an error is to be sent. *)
LEMMA ProducerFails ==
  ASSUME StreamInv, ppc \in {"check", "fetch", "send"}, ppc' = "sendErr", failed' = TRUE,
         UNCHANGED <<reader, live, cancelled, optVars, batch, next, stalled, out, cpc, got>>
  PROVE  StreamInv'
<1>1. StreamTypes'
  BY DEF StreamInv, StreamTypes, optVars
<1>2. Truncation' /\ Ended'
  BY DEF StreamInv, Truncation, Ended
<1>3. Coverage'
  BY SamePlace, SameTaken DEF StreamInv, Coverage, Exact, optVars
<1> QED BY <1>1, <1>2, <1>3 DEF StreamInv

(* The context is looked at. *)
LEMMA CheckContextStep ==
  ASSUME StreamInv, CheckContext
  PROVE  StreamInv'
<1>1. /\ ppc = "check"
      /\ UNCHANGED <<reader, live, cancelled, optVars, batch, next, stalled, out, cpc, got>>
  BY DEF CheckContext
<1>2. CASE cancelled
  BY <1>1, <1>2, ProducerFails DEF CheckContext
<1>3. CASE ~cancelled
  <2>1. ppc' = "fetch" /\ failed' = failed
    BY <1>3 DEF CheckContext, StreamInv, StreamTypes
  <2>2. StreamTypes'
    BY <1>1, <2>1 DEF StreamInv, StreamTypes, optVars
  <2>3. Truncation' /\ Ended'
    BY <1>1, <2>1 DEF StreamInv, Truncation, Ended
  <2>4. Coverage'
    BY <1>1, <2>1, SamePlace, SameTaken DEF StreamInv, Coverage, Exact, optVars
  <2> QED BY <2>2, <2>3, <2>4 DEF StreamInv
<1> QED BY <1>2, <1>3

(* A page arrives: with the pages before it, it holds all that is before   *)
(* the page its link names, and all there is when it has no link.          *)
LEMMA FetchPageStep ==
  ASSUME StreamInv, FetchPage
  PROVE  StreamInv'
<1> DEFINE items == Asked
<1>0. PICK a \in {RightAnswer} \cup StalledAnswers :
        /\ batch' = a.items /\ next' = IF a.items = {} THEN 0 ELSE a.next
        /\ stalled' = (stalled \/ a # RightAnswer)
  BY DEF FetchPage
<1>1. /\ ppc = "fetch" /\ ppc' = "send"
      /\ UNCHANGED <<reader, live, cancelled, optVars, out, failed, cpc, got>>
  BY DEF FetchPage
<1>2. /\ StreamTypes /\ \A j \in live : j \in Nat \ {0}
      /\ mode \in {"keyset", "page"} /\ page \in Nat \ {0} /\ idAfter \in Nat
  BY StreamAssumption DEF StreamInv, StreamTypes
<1>3. items \subseteq live /\ IsFiniteSet(items)
  BY <1>2, StreamAssumption, FS_Subset, KeysetPageIsDense DEF NumberPage, StreamTypes, Asked
<1>4. HasMore(items) => LastOf(items) \in items
  BY <1>2, <1>3, LastOfSet DEF HasMore
<1>5. NextLink(items) \in Nat /\ (NextLink(items) # 0 <=> HasMore(items))
  BY <1>2, <1>3, <1>4 DEF NextLink
<1>9. a.items \subseteq live /\ a.next \in Nat
  <2>1. CASE a = RightAnswer
    BY <1>3, <1>5, <2>1 DEF RightAnswer
  <2>2. CASE a \in StalledAnswers
    BY <1>2, <1>3, <2>2 DEF StalledAnswers, FirstPage, Position
  <2> QED BY <1>0, <2>1, <2>2
<1>6. StreamTypes'
  <2>1. batch' \subseteq Ids /\ next' \in Nat
    BY <1>0, <1>2, <1>9 DEF StreamTypes
  <2>2. stalled' \in BOOLEAN
    BY <1>0, Zenon
  <2> QED BY <1>1, <1>2, <2>1, <2>2 DEF StreamTypes, optVars
<1>7. Truncation' /\ Ended'
  BY <1>1, SameTaken DEF StreamInv, Truncation, Ended
<1>8. Coverage'
  <2> SUFFICES ASSUME ~stalled', mode = "keyset" \/ live = Ids
               PROVE  /\ \A i \in live : IsPassed(i)' => IsTaken(i)'
                      /\ Advances'
                      /\ \A i \in live : IsLinked(i)' => i \in batch' \/ IsTaken(i)'
    BY <1>1 DEF Coverage, Exact, optVars
  <2>5. ~stalled /\ a = RightAnswer
    BY <1>0
  <2>6. batch' = items /\ next' = NextLink(items)
    BY <1>0, <1>5, <2>5 DEF RightAnswer, HasMore
  <2>7. next' \in Nat /\ (next' # 0 <=> HasMore(items))
    BY <1>5, <2>6
  <2>1. \A i \in live : IsPassed(i) => IsTaken(i)
    BY <2>5 DEF StreamInv, Coverage, Exact
  <2>2. \A i \in live : IsPassed(i)' => IsTaken(i)'
    BY <1>1, <2>1, SamePlace, SameTaken
  <2>3. CASE mode = "keyset"
    <3>1. items = KeysetPage
      BY <2>3 DEF Asked
    <3>2. next' # 0 => next' = LastOf(items) /\ next' > idAfter
      BY <1>2, <1>4, <2>6, <2>7, <2>3, <3>1, KeysetPageIsDense DEF NextLink
    <3>3. \A i \in live : IsLinked(i)' => i \in items \/ IsPassed(i)
      BY <1>1, <1>2, <2>7, <2>3, <3>1, <3>2, KeysetPageIsDense
         DEF IsLinked, IsPassed, IsBefore, optVars
    <3> QED BY <1>1, <2>1, <2>2, <2>3, <2>6, <3>2, <3>3, SameTaken DEF Advances, optVars
  <2>4. CASE mode = "page"
    <3>1. items = NumberPage
      BY <2>4 DEF Asked
    <3>2. next' # 0 => next' = page + 1
      BY <2>6, <2>7, <2>4 DEF NextLink
    <3>3. \A i \in live : IsLinked(i)' => i \in items \/ IsPassed(i)
      <4>1. \A i \in live : Below(i)' = Below(i) /\ Below(i) \div PerPage \in Nat
        BY <1>1, <1>2, BelowFacts DEF Below
      <4>2. \A i \in live : next' = 0 => i \in items \/ IsPassed(i)
        BY <1>2, <2>7, <2>4, <3>1, NumberPageIsDense DEF IsPassed, IsBefore
      <4>3. ASSUME NEW i \in live, next' # 0, IsLinked(i)' PROVE i \in items \/ IsPassed(i)
        <5>1. Below(i) \div PerPage < page
          BY <1>1, <1>2, <2>4, <3>2, <4>1, <4>3 DEF IsLinked, IsBefore, optVars
        <5> QED BY <1>2, <2>4, <3>1, <4>1, <5>1 DEF NumberPage, IsPassed, IsBefore
      <4> QED BY <4>2, <4>3
    <3> QED BY <1>1, <2>1, <2>2, <2>4, <2>6, <3>2, <3>3, SameTaken DEF Advances, optVars
  <2> QED BY <1>2, <2>3, <2>4
<1> QED BY <1>6, <1>7, <1>8 DEF StreamInv

(* A keyset request is refused: from the first numbered page on, nothing   *)
(* has been passed.                                                        *)
LEMMA FallbackStep ==
  ASSUME StreamInv, Fallback
  PROVE  StreamInv'
<1>1. /\ ppc = "fetch" /\ ppc' = "check" /\ mode' = "page" /\ page' = 1 /\ idAfter' = 0
      /\ UNCHANGED <<reader, live, cancelled, batch, next, stalled, out, failed, cpc, got>>
  BY DEF Fallback
<1>2. StreamTypes'
  BY <1>1 DEF StreamInv, StreamTypes
<1>3. Truncation' /\ Ended'
  BY <1>1, SameTaken DEF StreamInv, Truncation, Ended
<1>4. \A i \in live : ~IsPassed(i)'
  <2>1. \A i \in live : (Below(i) \div PerPage)' \in Nat
    BY <1>1, BelowFacts DEF StreamInv, Below
  <2> QED BY <1>1, <2>1 DEF IsPassed, IsBefore
<1>5. Coverage'
  BY <1>1, <1>4 DEF Coverage, Exact
<1> QED BY <1>2, <1>3, <1>5 DEF StreamInv

(* What is appended to the channel is queued behind what is there. *)
LEMMA AppendQueues ==
  ASSUME StreamTypes, NEW x \in Ids \cup {0}, out' = Append(out, x), UNCHANGED <<cpc, got>>, NEW i
  PROVE  /\ out' \in Seq(Ids \cup {0})
         /\ IsQueued(x)'
         /\ IsQueued(i) => IsQueued(i)'
         /\ IsTaken(i) => IsTaken(i)'
<1>1. out \in Seq(Ids \cup {0})
  BY DEF StreamTypes
<1>2. /\ Len(out') = Len(out) + 1 /\ out'[Len(out) + 1] = x /\ Len(out) \in Nat
      /\ \A k \in 1..Len(out) : out'[k] = out[k]
  BY <1>1, AppendProperties
<1>3. out' \in Seq(Ids \cup {0})
  BY <1>1, AppendProperties
<1>4. IsQueued(x)'
  BY <1>2 DEF IsQueued
<1>5. IsQueued(i) => IsQueued(i)'
  BY <1>2 DEF IsQueued
<1> QED BY <1>3, <1>4, <1>5 DEF IsTaken

(* An item of the page is sent. *)
LEMMA SendItemStep ==
  ASSUME StreamInv, SendItem
  PROVE  StreamInv'
<1>0. PICK x : x = FirstOf(batch)
  OBVIOUS
<1>1. /\ ppc = "send" /\ ppc' = "send" /\ batch # {}
      /\ out' = Append(out, x) /\ batch' = batch \ {x}
      /\ UNCHANGED <<reader, live, cancelled, optVars, next, stalled, failed, cpc, got>>
  BY <1>0 DEF SendItem
<1>2. StreamTypes /\ batch \subseteq Ids
  BY DEF StreamInv, StreamTypes
<1>3. x \in batch /\ x \in Ids \cup {0}
  BY <1>0, <1>1, <1>2, StreamAssumption, FirstOfSet
<1>4. /\ out' \in Seq(Ids \cup {0}) /\ IsQueued(x)'
      /\ \A i : (IsQueued(i) => IsQueued(i)') /\ (IsTaken(i) => IsTaken(i)')
  BY <1>1, <1>2, <1>3, AppendQueues
<1>5. StreamTypes'
  BY <1>1, <1>2, <1>4 DEF StreamTypes, optVars
<1>6. Truncation' /\ Ended'
  BY <1>1 DEF StreamInv, Truncation, Ended
<1>7. Coverage'
  <2>1. \A i \in live : IsPassed(i)' <=> IsPassed(i)
    BY <1>1, SamePlace
  <2>2. \A i \in live : IsLinked(i)' <=> IsLinked(i)
    BY <1>1 DEF IsLinked, IsBefore, Below, optVars
  <2>3. Advances' <=> Advances
    BY <1>1 DEF Advances, optVars
  <2>4. IsTaken(x)'
    BY <1>4 DEF IsTaken
  <2> QED BY <1>1, <1>4, <2>1, <2>2, <2>3, <2>4 DEF StreamInv, Coverage, Exact, optVars
<1> QED BY <1>5, <1>6, <1>7 DEF StreamInv

(* The page is sent: the link is followed, or the channel closed.          *)
LEMMA NextPageStep ==
  ASSUME StreamInv, NextPage
  PROVE  StreamInv'
<1>1. /\ ppc = "send" /\ batch = {}
      /\ UNCHANGED <<reader, live, cancelled, batch, next, stalled, out, failed, cpc, got>>
  BY DEF NextPage
<1>2. /\ StreamTypes /\ mode \in {"keyset", "page"} /\ page \in Nat \ {0}
      /\ idAfter \in Nat /\ next \in Nat
  BY DEF StreamInv, StreamTypes
<1>3. Exact =>
        Advances /\ \A i \in live : IsLinked(i) => IsTaken(i)'
  BY <1>1, SameTaken DEF StreamInv, Coverage
<1>4. CASE mode = "keyset" /\ next > idAfter
  <2>1. ppc' = "check" /\ idAfter' = next /\ mode' = mode /\ page' = page
    BY <1>4 DEF NextPage
  <2>2. StreamTypes'
    BY <1>1, <1>2, <2>1 DEF StreamTypes
  <2>3. Truncation' /\ Ended'
    BY <1>1, <2>1, SameTaken DEF StreamInv, Truncation, Ended
  <2>4. \A i \in live : IsPassed(i)' => IsLinked(i)
    BY <1>4, <2>1 DEF IsPassed, IsLinked, IsBefore
  <2>5. Coverage'
    BY <1>1, <1>3, <1>4, <2>1, <2>4 DEF Coverage, Exact
  <2> QED BY <2>2, <2>3, <2>5 DEF StreamInv
<1>5. CASE mode = "page" /\ next > page
  <2>1. ppc' = "check" /\ page' = next /\ mode' = mode /\ idAfter' = idAfter
    BY <1>5 DEF NextPage
  <2>2. StreamTypes'
    BY <1>1, <1>2, <1>5, <2>1 DEF StreamTypes
  <2>3. Truncation' /\ Ended'
    BY <1>1, <2>1, SameTaken DEF StreamInv, Truncation, Ended
  <2>4. \A i \in live : IsPassed(i)' => IsLinked(i)
    BY <1>1, <1>5, <2>1 DEF IsPassed, IsLinked, IsBefore, Below
  <2>5. Coverage'
    BY <1>1, <1>3, <2>1, <2>4 DEF Coverage, Exact
  <2> QED BY <2>2, <2>3, <2>5 DEF StreamInv
<1>6. CASE ~(mode = "keyset" /\ next > idAfter) /\ ~(mode = "page" /\ next > page)
  <2>1. ppc' = "closed" /\ UNCHANGED optVars
    BY <1>6 DEF NextPage
  <2>2. StreamTypes'
    BY <1>1, <1>2, <2>1 DEF StreamTypes, optVars
  <2>3. Truncation' /\ Ended'
    BY <1>1, <2>1, SameTaken DEF StreamInv, Truncation, Ended
  <2>4. Advances => next = 0
    BY <1>2, <1>6 DEF Advances
  <2>5. \A i \in live : IsPassed(i)' <=> IsPassed(i)
    BY <1>1, <2>1, SamePlace
  <2>6. Coverage'
    BY <1>1, <1>3, <2>1, <2>4, <2>5, SameTaken DEF StreamInv, Coverage, Exact, IsLinked, optVars
  <2> QED BY <2>2, <2>3, <2>6 DEF StreamInv
<1> QED BY <1>4, <1>5, <1>6

(* The error is sent, and the channel closed.                              *)
LEMMA SendErrorStep ==
  ASSUME StreamInv, SendError
  PROVE  StreamInv'
<1>1. /\ ppc = "sendErr" /\ ppc' = "closed" /\ out' = Append(out, 0)
      /\ UNCHANGED <<reader, live, cancelled, optVars, batch, next, stalled, failed, cpc, got>>
  BY DEF SendError
<1>2. StreamTypes
  BY DEF StreamInv
<1>3. /\ out' \in Seq(Ids \cup {0}) /\ IsQueued(0)'
      /\ \A i : (IsQueued(i) => IsQueued(i)') /\ (IsTaken(i) => IsTaken(i)')
  BY <1>1, <1>2, AppendQueues
<1>4. StreamTypes'
  BY <1>1, <1>2, <1>3 DEF StreamTypes, optVars
<1>5. Truncation' /\ Ended'
  BY <1>1, <1>3 DEF StreamInv, Truncation, Ended
<1>6. Coverage'
  BY <1>1, <1>3, SamePlace DEF StreamInv, Truncation, Coverage, Exact, optVars
<1> QED BY <1>4, <1>5, <1>6 DEF StreamInv

(* The reader takes an item: an id is counted, and an error, or the end of *)
(* the context that an instance scan sees, makes it fail.                  *)
LEMMA ReceiveStep ==
  ASSUME StreamInv, Receive
  PROVE  StreamInv'
<1>1. PICK x : x = Head(out)
  OBVIOUS
<1>2. /\ cpc = "reading" /\ out # <<>> /\ out' = Tail(out)
      /\ UNCHANGED <<reader, live, cancelled, optVars, ppc, batch, next, stalled, failed>>
  BY DEF Receive
<1>3. StreamTypes /\ out \in Seq(Ids \cup {0}) /\ got \subseteq Ids
  BY DEF StreamInv, StreamTypes
<1>4. /\ out' \in Seq(Ids \cup {0}) /\ x \in Ids \cup {0}
      /\ Len(out) \in Nat \ {0} /\ Len(out') = Len(out) - 1 /\ x = out[1]
      /\ \A k \in 1..Len(out') : out'[k] = out[k + 1]
  BY <1>1, <1>2, <1>3, HeadTailProperties
<1>5. ASSUME NEW i, IsQueued(i) PROVE i = x \/ IsQueued(i)'
  <2>1. PICK k \in 1..Len(out) : out[k] = i
    BY <1>5 DEF IsQueued
  <2>2. CASE k = 1
    BY <1>4, <2>1, <2>2
  <2>3. CASE k # 1
    <3>1. k - 1 \in 1..Len(out') /\ out'[k - 1] = i
      BY <1>4, <2>1, <2>3
    <3> QED BY <3>1 DEF IsQueued
  <2> QED BY <2>2, <2>3
<1>6. CASE (reader = "instance" /\ cancelled) \/ x = 0
  <2>1. cpc' = "failed" /\ got' = got
    BY <1>1, <1>6 DEF Receive
  <2>2. StreamTypes'
    BY <1>2, <1>3, <1>4, <2>1 DEF StreamTypes, optVars
  <2>3. Truncation' /\ Ended'
    BY <1>2, <2>1 DEF StreamInv, Truncation, Ended
  <2>4. \A i : IsTaken(i)'
    BY <2>1 DEF IsTaken
  <2>5. Advances' <=> Advances
    BY <1>2 DEF Advances, optVars
  <2>6. Coverage'
    BY <1>2, <2>4, <2>5 DEF StreamInv, Coverage, Exact, optVars
  <2> QED BY <2>2, <2>3, <2>6 DEF StreamInv
<1>7. CASE ~(reader = "instance" /\ cancelled) /\ x # 0
  <2>1. cpc' = cpc /\ got' = got \cup {x} /\ x \in Ids
    BY <1>1, <1>4, <1>7 DEF Receive
  <2>2. got' \subseteq Ids /\ x \in got' /\ got \subseteq got'
    BY <1>3, <2>1
  <2>3. StreamTypes'
    BY <1>2, <1>3, <1>4, <2>1, <2>2 DEF StreamTypes, optVars
  <2>4. Truncation' /\ Ended'
    BY <1>2, <1>5, <1>7, <2>1 DEF StreamInv, Truncation, Ended
  <2>5. \A i \in live : IsTaken(i) => IsTaken(i)'
    <3> SUFFICES ASSUME NEW i \in live, IsTaken(i) PROVE IsTaken(i)'
      OBVIOUS
    <3>2. CASE i \in got
      BY <2>2, <3>2 DEF IsTaken
    <3>3. CASE IsQueued(i)
      BY <1>5, <2>2, <3>3 DEF IsTaken
    <3> QED BY <1>2, <3>2, <3>3 DEF IsTaken
  <2>6. \A i \in live : (IsPassed(i)' <=> IsPassed(i)) /\ (IsLinked(i)' <=> IsLinked(i))
    BY <1>2, SamePlace DEF IsLinked, IsBefore, Below, optVars
  <2>7. Advances' <=> Advances
    BY <1>2 DEF Advances, optVars
  <2>8. Coverage'
    BY <1>2, <2>5, <2>6, <2>7 DEF StreamInv, Coverage, Exact, optVars
  <2> QED BY <2>3, <2>4, <2>8 DEF StreamInv
<1> QED BY <1>6, <1>7

(* The reader finds the channel closed. *)
LEMMA FinishStep ==
  ASSUME StreamInv, Finish
  PROVE  StreamInv'
<1>1. /\ cpc = "reading" /\ out = <<>> /\ ppc = "closed" /\ cpc' = "finished"
      /\ UNCHANGED <<reader, live, cancelled, optVars, ppc, batch, next, stalled, out, failed, got>>
  BY DEF Finish
<1>2. StreamTypes'
  BY <1>1 DEF StreamInv, StreamTypes, optVars
<1>3. Truncation' /\ Ended'
  BY <1>1 DEF StreamInv, Truncation, Ended, IsQueued
<1>4. \A i \in live : IsTaken(i) => IsTaken(i)'
  BY <1>1 DEF IsTaken, IsQueued
<1>5. Coverage'
  BY <1>1, <1>4, SamePlace DEF StreamInv, Coverage, Exact, optVars
<1> QED BY <1>2, <1>3, <1>5 DEF StreamInv

(* What is deleted needs no reader any more, and shifts numbered pages.    *)
LEMMA DeleteStep ==
  ASSUME StreamInv, NEW d \in Ids, Delete(d)
  PROVE  StreamInv'
<1>1. /\ d \in live /\ live' = live \ {d}
      /\ UNCHANGED <<reader, cancelled, optVars, ppc, batch, next, stalled, out, failed, cpc, got>>
  BY DEF Delete
<1>2. StreamTypes'
  BY <1>1 DEF StreamInv, StreamTypes, optVars
<1>3. Truncation' /\ Ended'
  BY <1>1, SameTaken DEF StreamInv, Truncation, Ended
<1>4. Coverage'
  <2> SUFFICES ASSUME mode = "keyset" PROVE Coverage'
    BY <1>1 DEF Coverage, Exact, optVars
  <2>1. \A i : (IsPassed(i)' <=> IsPassed(i)) /\ (IsLinked(i)' <=> IsLinked(i))
    BY <1>1 DEF IsPassed, IsLinked, IsBefore, optVars
  <2>2. Advances' <=> Advances
    BY <1>1 DEF Advances, optVars
  <2> QED BY <1>1, <2>1, <2>2, SameTaken DEF StreamInv, Coverage, Exact, optVars
<1> QED BY <1>2, <1>3, <1>4 DEF StreamInv

(* The end of the context, and a step that changes nothing. *)
LEMMA QuietStep ==
  ASSUME StreamInv, Cancel \/ UNCHANGED vars
  PROVE  StreamInv'
<1>1. /\ UNCHANGED <<reader, live, optVars, ppc, batch, next, stalled, out, failed, cpc, got>>
      /\ cancelled' \in BOOLEAN
  BY DEF Cancel, vars, StreamInv, StreamTypes
<1>2. StreamTypes'
  BY <1>1 DEF StreamInv, StreamTypes, optVars
<1>3. Truncation' /\ Ended'
  BY <1>1, SameTaken DEF StreamInv, Truncation, Ended
<1>4. \A i : (IsPassed(i)' <=> IsPassed(i)) /\ (IsLinked(i)' <=> IsLinked(i))
  BY <1>1, SamePlace DEF IsLinked, IsBefore, Below, optVars
<1>5. Advances' <=> Advances
  BY <1>1 DEF Advances, optVars
<1>6. Coverage'
  BY <1>1, <1>4, <1>5, SameTaken DEF StreamInv, Coverage, Exact, optVars
<1> QED BY <1>2, <1>3, <1>6 DEF StreamInv

(* Every step keeps the invariant. *)
LEMMA StreamInvStep ==
  ASSUME StreamInv, [Next]_vars
  PROVE  StreamInv'
<1>1. CASE FetchFails \/ SendCancelled
  BY <1>1, ProducerFails DEF FetchFails, SendCancelled
<1> QED BY <1>1, CheckContextStep, FetchPageStep, FallbackStep, SendItemStep, NextPageStep,
           SendErrorStep, ReceiveStep, FinishStep, DeleteStep, QuietStep
        DEF Next, Producer, Reader

(* The invariant is an invariant of the specification. *)
LEMMA StreamInvAlways == Spec => []StreamInv
<1>1. Init => StreamInv
  BY StreamInvInit
<1>2. StreamInv /\ [Next]_vars => StreamInv'
  BY StreamInvStep
<1> QED BY <1>1, <1>2, PTL DEF Spec

-----------------------------------------------------------------------------
(* For any ids and any sizes: a stream that was cut short by an error or a *)
(* cancellation never looks complete to its reader (StreamAll).            *)
THEOREM TruncationIsNeverSilent == Spec => []NoSilentTruncation
<1>1. StreamInv => NoSilentTruncation
  BY DEF StreamInv, Truncation, Ended, NoSilentTruncation, IsQueued
<1> QED BY <1>1, StreamInvAlways, PTL

(* For any ids and any sizes: a reader that comes to the end of a stream   *)
(* without an error has every id that was there all the time, whatever is  *)
(* deleted between keyset pages (of numbered pages, if nothing was), if    *)
(* the server gave the pages and links it was asked for (StreamAll,        *)
(* ParsePageResponse).                                                     *)
THEOREM StreamsAreComplete == Spec => []StreamComplete
<1>1. StreamInv => StreamComplete
  <2> SUFFICES ASSUME StreamInv, cpc = "finished", Exact, NEW i \in live
               PROVE  i \in got
    BY DEF StreamComplete
  <2>1. out = <<>> /\ ppc = "closed" /\ ~failed
    BY DEF StreamInv, Truncation, Ended, IsQueued
  <2>2. IsTaken(i)
    BY <2>1 DEF StreamInv, Coverage
  <2> QED BY <2>1, <2>2 DEF IsTaken, IsQueued
<1> QED BY <1>1, StreamInvAlways, PTL
=============================================================================
