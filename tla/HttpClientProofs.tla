-------------------------- MODULE HttpClientProofs --------------------------
(***************************************************************************)
(* The token bucket's ceiling, and what the HTTP client keeps through      *)
(* retries, token refreshes and lost answers, for every rate, burst, retry *)
(* limit, number of calls and set of threads.                              *)
(***************************************************************************)
EXTENDS HttpClient, TLAPS

LEMMA CapacityType == Capacity \in Nat /\ Unit \in Nat /\ Unit > 0
  BY BucketAssumption DEF Capacity

\* What has been given out in excess of the rate, and what the bucket could
\* give out now, never exceed the bucket together.
BucketInv == BucketTypeOK /\ debt + Refilled <= Capacity

LEMMA RefilledType ==
    ASSUME BucketTypeOK
    PROVE  Refilled \in 0..Capacity /\ Refilled >= level
  BY CapacityType DEF BucketTypeOK, Refilled, AtMost

LEMMA BucketStarts == BucketInit => BucketInv
  BY CapacityType, BucketAssumption
     DEF BucketInit, BucketInv, BucketTypeOK, Refilled, AtMost

\* A thread asks for a token.
LEMMA ArriveKeeps ==
    ASSUME BucketInv, NEW t \in Threads, Arrive(t)
    PROVE  BucketInv'
  BY DEF BucketInv, BucketTypeOK, Arrive, Refilled

\* The lock is held and a token is taken, or not: the sum is kept.
LEMMA TakeKeeps ==
    ASSUME BucketInv, Take
    PROVE  /\ level' \in 0..Capacity /\ idle' \in 0..Capacity /\ debt' \in Nat
           /\ debt' + Refilled' <= Capacity
  BY RefilledType, CapacityType DEF BucketInv, BucketTypeOK, Take, Refilled, AtMost

LEMMA MissKeeps ==
    ASSUME BucketInv, Miss
    PROVE  /\ level' \in 0..Capacity /\ idle' \in 0..Capacity /\ debt' \in Nat
           /\ debt' + Refilled' <= Capacity
  BY RefilledType, CapacityType DEF BucketInv, BucketTypeOK, Miss, Refilled, AtMost

LEMMA AcquireKeeps ==
    ASSUME BucketInv, NEW t \in Threads, Acquire(t)
    PROVE  BucketInv'
  <1>1. CASE Granted(t)
    <2>1. want' \in [Threads -> BOOLEAN] /\ nap' \in [Threads -> 0..Unit]
      BY <1>1 DEF Granted, BucketInv, BucketTypeOK
    <2> QED
      BY <1>1, <2>1, TakeKeeps DEF Granted, BucketInv, BucketTypeOK
  <1>2. CASE Sleep(t)
    <2>1. Unit - Refilled \in 0..Unit
      BY <1>2, RefilledType, CapacityType DEF Sleep, Miss, BucketInv
    <2>2. want' \in [Threads -> BOOLEAN] /\ nap' \in [Threads -> 0..Unit]
      BY <1>2, <2>1 DEF Sleep, BucketInv, BucketTypeOK
    <2> QED
      BY <1>2, <2>2, MissKeeps DEF Sleep, BucketInv, BucketTypeOK
  <1> QED
    BY <1>1, <1>2 DEF Acquire

LEMMA TryAcquireKeeps ==
    ASSUME BucketInv, NEW t \in Threads, TryAcquire(t)
    PROVE  BucketInv'
  BY TakeKeeps, MissKeeps DEF TryAcquire, BucketInv, BucketTypeOK

\* In a tick the bucket earns a unit, and what was given out counts one less.
LEMMA ElapseKeeps ==
    ASSUME BucketInv, Elapse
    PROVE  BucketInv'
  <1>1. nap' \in [Threads -> 0..Unit]
    BY CapacityType DEF Elapse, BucketInv, BucketTypeOK
  <1>2. /\ level' \in 0..Capacity /\ idle' \in 0..Capacity /\ debt' \in Nat
        /\ debt' + Refilled' <= Capacity
    BY CapacityType DEF Elapse, BucketInv, BucketTypeOK, Refilled, AtMost
  <1> QED
    BY <1>1, <1>2 DEF Elapse, BucketInv, BucketTypeOK

LEMMA BucketInvMeans == BucketInv => CeilingHolds
  BY RefilledType, CapacityType DEF BucketInv, CeilingHolds, BucketTypeOK

\* "An overall requests-per-second ceiling" (TokenBucket): whatever its threads
\* do, the bucket never gives out more tokens over a stretch of time than its
\* burst and what the rate earns meanwhile.
THEOREM BucketCeiling == BucketSpec => []CeilingHolds
  <1>1. BucketInv /\ [BucketNext]_bucketVars => BucketInv'
    <2> SUFFICES ASSUME BucketInv, [BucketNext]_bucketVars PROVE BucketInv'
      OBVIOUS
    <2>1. CASE UNCHANGED bucketVars
      BY <2>1 DEF bucketVars, BucketInv, BucketTypeOK, Refilled
    <2> QED
      BY <2>1, ArriveKeeps, AcquireKeeps, TryAcquireKeeps, ElapseKeeps DEF BucketNext
  <1> QED
    BY <1>1, BucketStarts, BucketInvMeans, PTL DEF BucketSpec
-----------------------------------------------------------------------------
(* The client.                                                             *)

Busy == step # "idle"

\* A token that has been taken for a request that is not sent yet.
Pending == IF step \in {"auth", "send"} THEN Unit ELSE 0

\* Where request stands says what it has in its hands.
Placed ==
    /\ want[Client] <=> step = "pace"
    /\ step = "send" => token # 0
    /\ Busy => attempt >= 1

\* A POST under way has had no effect, and effects count attempts.
EffectsInv ==
    /\ effects <= IF Busy THEN attempt - 1 ELSE attempt
    /\ kind = "keyed_post" => effects <= 1
    /\ kind = "post" => effects <= 1 /\ (Busy => effects = 0)

\* A refreshed call holds a token that was never refused.
TokensInv ==
    /\ 401 \in retried => refreshed
    /\ Busy /\ 401 \in retried => token \notin rejected
    /\ ~resent

\* The wire is at most one token ahead of the bucket.
WireInv == wire + Pending <= debt + Unit

ClientInv ==
    /\ TypeOK /\ BucketInv
    /\ Placed /\ AttemptsBounded /\ EffectsInv /\ TokensInv /\ WireInv

LEMMA ClientStarts == Init => ClientInv
  <1> SUFFICES ASSUME Init PROVE ClientInv
    OBVIOUS
  <1>1. BucketInv
    BY BucketStarts DEF Init
  <1> USE ClientAssumption, CapacityType DEF Init
  <1>2. TypeOK
    <2>1. /\ kind \in AllKinds /\ outcome \in Outcomes
          /\ step \in {"idle", "pace", "auth", "send"}
      BY DEF AllKinds, Outcomes
    <2>2. /\ attempt \in 0..(MaxAttempts + 1) /\ effects \in 0..(MaxAttempts + 1)
          /\ token \in 0..issued /\ live \in 0..issued /\ issued \in 0..MaxTokens
          /\ wire \in Nat /\ calls \in 0..MaxCalls
      OBVIOUS
    <2>3. rejected \subseteq 1..issued /\ retried \subseteq Statuses
      OBVIOUS
    <2>4. refreshed \in BOOLEAN /\ expired \in BOOLEAN /\ resent \in BOOLEAN
      OBVIOUS
    <2> QED
      BY <1>1, <2>1, <2>2, <2>3, <2>4 DEF BucketInv, TypeOK
  <1>3. Placed
    BY DEF BucketInit, Placed, Busy
  <1>4. AttemptsBounded /\ EffectsInv /\ TokensInv
    BY DEF AttemptsBounded, EffectsInv, TokensInv, Busy
  <1>5. WireInv
    BY DEF BucketInit, WireInv, Pending
  <1> QED
    BY <1>1, <1>2, <1>3, <1>4, <1>5 DEF ClientInv

\* A call begins.
LEMMA StartCallKeeps ==
    ASSUME ClientInv, NEW k \in Kinds, StartCall(k)
    PROVE  ClientInv'
  <1> USE ClientAssumption, CapacityType
  <1>1. BucketInv'
    BY ArriveKeeps DEF ClientInv, StartCall, Attempt
  <1>2. TypeOK'
    <2>1. /\ kind' \in AllKinds /\ outcome' \in Outcomes
          /\ step' \in {"idle", "pace", "auth", "send"}
      BY DEF StartCall, Attempt, Outcomes
    <2>2. /\ attempt' \in 0..(MaxAttempts + 1) /\ effects' \in 0..(MaxAttempts + 1)
          /\ calls' \in 0..MaxCalls
      BY DEF ClientInv, TypeOK, StartCall
    <2>3. rejected' \subseteq 1..issued' /\ retried' \subseteq Statuses
      BY DEF ClientInv, TypeOK, StartCall
    <2>4. refreshed' \in BOOLEAN /\ expired' \in BOOLEAN /\ resent' \in BOOLEAN
      BY DEF ClientInv, TypeOK, StartCall
    <2> QED
      BY <1>1, <2>1, <2>2, <2>3, <2>4 DEF ClientInv, BucketInv, TypeOK, StartCall
  <1>3. Placed'
    BY DEF ClientInv, StartCall, Attempt, Arrive, Placed, Busy, TypeOK, BucketTypeOK
  <1>4. AttemptsBounded' /\ EffectsInv' /\ TokensInv'
    BY DEF ClientInv, StartCall, Attempt, AttemptsBounded, EffectsInv, TokensInv, Busy
  <1>5. WireInv'
    BY DEF ClientInv, StartCall, Attempt, Arrive, WireInv, Pending, TypeOK, BucketTypeOK
  <1> QED
    BY <1>1, <1>2, <1>3, <1>4, <1>5 DEF ClientInv

\* The bucket lets the attempt go, or has it sleep.
LEMMA PaceKeeps == ASSUME ClientInv, Pace PROVE ClientInv'
  <1> USE ClientAssumption, CapacityType
  <1>1. BucketInv'
    BY AcquireKeeps DEF ClientInv, Pace
  <1>2. TypeOK'
    BY <1>1 DEF ClientInv, BucketInv, Pace, TypeOK, serverVars, ghostVars
  <1>3. Placed'
    BY DEF ClientInv, Pace, Acquire, Granted, Sleep, Placed, Busy, TypeOK, BucketTypeOK
  <1>4. AttemptsBounded' /\ EffectsInv' /\ TokensInv'
    BY DEF ClientInv, Pace, AttemptsBounded, EffectsInv, TokensInv, Busy, serverVars,
           ghostVars
  <1>5. WireInv'
    <2>1. CASE Granted(Client)
      BY <2>1 DEF ClientInv, Pace, Granted, Take, WireInv, Pending, TypeOK, BucketTypeOK,
                  ghostVars
    <2>2. CASE Sleep(Client)
      BY <2>2 DEF ClientInv, Pace, Sleep, Miss, WireInv, Pending, TypeOK, BucketTypeOK,
                  ghostVars
    <2> QED
      BY <2>1, <2>2 DEF Pace, Acquire
  <1> QED
    BY <1>1, <1>2, <1>3, <1>4, <1>5 DEF ClientInv

LEMMA UseTokenKeeps == ASSUME ClientInv, UseToken PROVE ClientInv'
  <1>1. BucketInv'
    BY DEF ClientInv, UseToken, bucketVars, BucketInv, BucketTypeOK, Refilled
  <1>2. TypeOK'
    BY <1>1 DEF ClientInv, BucketInv, UseToken, TypeOK, serverVars, ghostVars
  <1>3. Placed' /\ AttemptsBounded' /\ EffectsInv' /\ TokensInv'
    BY DEF ClientInv, UseToken, Placed, AttemptsBounded, EffectsInv, TokensInv, Busy,
           serverVars, ghostVars, bucketVars
  <1>4. WireInv'
    BY DEF ClientInv, UseToken, WireInv, Pending, ghostVars, bucketVars
  <1> QED
    BY <1>1, <1>2, <1>3, <1>4 DEF ClientInv

\* A fresh token was never refused: tokens are numbered.
LEMMA FetchTokenKeeps == ASSUME ClientInv, FetchToken PROVE ClientInv'
  <1> USE ClientAssumption, CapacityType
  <1>0. UNCHANGED <<attempt, refreshed, retried, bucketVars, kind, effects, rejected,
                    resent, wire, calls>>
    BY DEF FetchToken, Leave
  <1>1. BucketInv'
    BY <1>0 DEF ClientInv, bucketVars, BucketInv, BucketTypeOK, Refilled
  <1>2. TypeOK'
    <2>1. /\ outcome' \in Outcomes
          /\ step' \in {"idle", "pace", "auth", "send"}
          /\ expired' \in BOOLEAN
      BY DEF ClientInv, TypeOK, FetchToken, Leave, Outcomes
    <2>2. /\ issued' \in 0..MaxTokens /\ issued' >= issued
          /\ token' \in 0..issued' /\ live' \in 0..issued'
      BY DEF ClientInv, TypeOK, FetchToken
    <2>3. rejected' \subseteq 1..issued'
      BY <1>0, <2>2 DEF ClientInv, TypeOK
    <2> QED
      BY <1>0, <1>1, <2>1, <2>2, <2>3 DEF ClientInv, BucketInv, TypeOK
  <1>3. Placed' /\ AttemptsBounded' /\ EffectsInv'
    BY <1>0 DEF ClientInv, FetchToken, Leave, Placed, AttemptsBounded, EffectsInv, Busy,
                bucketVars, TypeOK
  <1>4. TokensInv'
    BY <1>0 DEF ClientInv, FetchToken, Leave, TokensInv, Busy, TypeOK
  <1>5. WireInv'
    BY <1>0 DEF ClientInv, FetchToken, Leave, WireInv, Pending, bucketVars, TypeOK,
                BucketTypeOK
  <1> QED
    BY <1>1, <1>2, <1>3, <1>4, <1>5 DEF ClientInv

\* How a call goes on after an answer: it ends, is repeated with a new token,
\* or is repeated as it was.
Ends ==
    /\ step' = "idle" /\ outcome' \in Outcomes
    /\ UNCHANGED <<attempt, refreshed, retried, bucketVars, token, expired>>

Renews(status) ==
    status = 401 /\ MayRefresh /\ OnAuthFailure /\ refreshed' = TRUE /\ Again(status)

Repeats(status) ==
    /\ status # 401 /\ MayRetry(status) /\ Again(status)
    /\ UNCHANGED <<refreshed, token, expired>>

LEMMA SendSplits ==
    ASSUME NEW status \in Statuses, Send(status)
    PROVE  /\ step = "send" /\ wire' = wire + Unit
           /\ UNCHANGED <<kind, live, issued, calls>>
           /\ Ends \/ Renews(status) \/ Repeats(status)
  <1>1. \A how \in Outcomes : Leave(how) /\ UNCHANGED <<token, expired>> => Ends
    BY DEF Leave, Ends
  <1>2. /\ "ok" \in Outcomes /\ "api_error" \in Outcomes /\ "auth_error" \in Outcomes
        /\ "rate_limited" \in Outcomes
    BY DEF Outcomes
  <1>3. MayRetry(status) => status # 401
    BY DEF MayRetry, RETRYABLE_STATUS
  <1> QED
    BY <1>1, <1>2, <1>3 DEF Send, Renews, Repeats

\* The server carries out at most what it was asked for.
LEMMA EffectBounds ==
    ASSUME ClientInv, NEW status \in Statuses, Send(status)
    PROVE  /\ effects' \in Nat /\ effects' <= attempt
           /\ kind \in {"post", "keyed_post"} => effects' <= 1
  <1>1. /\ effects \in Nat /\ attempt \in Nat /\ attempt >= 1
        /\ effects <= attempt - 1
        /\ kind = "post" => effects = 0
        /\ kind = "keyed_post" => effects <= 1
    BY ClientAssumption DEF ClientInv, TypeOK, Placed, EffectsInv, Busy, Send
  <1>2. effects' = effects \/ effects' = Effect
    BY DEF Send, ServerActs
  <1> QED
    BY <1>1, <1>2 DEF Effect

\* One request on the wire and what the client makes of the answer.
LEMMA SendKeeps ==
    ASSUME ClientInv, NEW status \in Statuses, Send(status)
    PROVE  ClientInv'
  <1> USE ClientAssumption, CapacityType
  <1>0. /\ step = "send" /\ wire' = wire + Unit
        /\ UNCHANGED <<kind, live, issued, calls>>
    BY SendSplits
  <1>1. Ends \/ Renews(status) \/ Repeats(status)
    BY SendSplits
  <1>2. token \in 1..issued /\ issued \in Nat /\ attempt \in Nat /\ attempt >= 1
    BY <1>0 DEF ClientInv, TypeOK, Placed, Busy
  <1>3. rejected' \subseteq 1..issued
    BY <1>2 DEF ClientInv, TypeOK, Send
  <1>4. resent' = FALSE
    BY <1>0 DEF ClientInv, TokensInv, Busy, Send
  <1>5. effects' \in 0..(MaxAttempts + 1) /\ effects' <= attempt
    BY EffectBounds DEF ClientInv, TypeOK
  <1>6. /\ kind' \in AllKinds /\ live' \in 0..issued' /\ issued' \in 0..MaxTokens
        /\ calls' \in 0..MaxCalls /\ wire' \in Nat /\ rejected' \subseteq 1..issued'
        /\ resent' \in BOOLEAN /\ effects' \in 0..(MaxAttempts + 1)
    <2>1. /\ kind' \in AllKinds /\ live' \in 0..issued' /\ issued' \in 0..MaxTokens
          /\ calls' \in 0..MaxCalls /\ wire' \in Nat
      BY <1>0 DEF ClientInv, TypeOK
    <2>2. rejected' \subseteq 1..issued'
      BY <1>0, <1>3
    <2> QED
      BY <1>4, <1>5, <2>1, <2>2
  <1>7. CASE Ends
    <2>1. BucketInv'
      BY <1>7 DEF Ends, ClientInv, bucketVars, BucketInv, BucketTypeOK, Refilled
    <2>2. TypeOK'
      <3>1. /\ step' \in {"idle", "pace", "auth", "send"} /\ outcome' \in Outcomes
            /\ refreshed' \in BOOLEAN /\ expired' \in BOOLEAN
            /\ retried' \subseteq Statuses
            /\ attempt' \in 0..(MaxAttempts + 1)
        BY <1>7 DEF ClientInv, TypeOK, Ends
      <3>2. token' \in 0..issued'
        BY <1>0, <1>7 DEF ClientInv, TypeOK, Ends
      <3> QED
        BY <1>6, <2>1, <3>1, <3>2 DEF BucketInv, TypeOK
    <2>3. Placed' /\ AttemptsBounded'
      BY <1>0, <1>7 DEF ClientInv, Placed, AttemptsBounded, Busy, Ends, bucketVars
    <2>4. EffectsInv'
      BY <1>0, <1>5, <1>7, EffectBounds DEF EffectsInv, Busy, Ends
    <2>5. TokensInv'
      BY <1>4, <1>7 DEF ClientInv, TokensInv, Busy, Ends
    <2>6. WireInv'
      BY <1>0, <1>7 DEF ClientInv, TypeOK, BucketTypeOK, WireInv, Pending, Ends, bucketVars
    <2> QED
      BY <2>1, <2>2, <2>3, <2>4, <2>5, <2>6 DEF ClientInv
  <1>8. CASE Renews(status) \/ Repeats(status)
    <2>1. /\ step' = "pace" /\ Arrive(Client) /\ attempt' = attempt + 1
          /\ retried' = retried \cup {status} /\ AllowRetry(kind)
          /\ UNCHANGED outcome
      BY <1>8 DEF Renews, Repeats, Again, Attempt, MayRefresh, MayRetry
    <2>2. BucketInv'
      BY <2>1, ArriveKeeps DEF ClientInv
    <2>3. /\ want'[Client] = TRUE /\ debt' = debt
      BY <2>1 DEF ClientInv, TypeOK, BucketTypeOK, Arrive
    <2>4. refreshed' \in BOOLEAN /\ expired' \in BOOLEAN
      BY <1>8 DEF Renews, Repeats, ClientInv, TypeOK, OnAuthFailure
    <2>5. token' \in 0..issued
      BY <1>2, <1>8 DEF Renews, Repeats, OnAuthFailure
    <2>6. AttemptsBounded'
      <3>1. CASE Renews(status)
        BY <2>1, <3>1 DEF ClientInv, TypeOK, AttemptsBounded, Renews, MayRefresh
      <3>2. CASE Repeats(status)
        BY <2>1, <3>2 DEF ClientInv, TypeOK, AttemptsBounded, Repeats, MayRetry
      <3> QED
        BY <1>8, <3>1, <3>2
    <2>7. attempt' \in 0..(MaxAttempts + 1)
      BY <1>2, <2>1, <2>6 DEF AttemptsBounded
    <2>8. TypeOK'
      <3>1. retried' \subseteq Statuses
        BY <2>1 DEF ClientInv, TypeOK
      <3>2. step' \in {"idle", "pace", "auth", "send"} /\ outcome' \in Outcomes
        BY <2>1 DEF ClientInv, TypeOK
      <3>3. token' \in 0..issued'
        BY <1>0, <2>5
      <3> QED
        BY <1>6, <2>2, <2>4, <2>7, <3>1, <3>2, <3>3 DEF BucketInv, TypeOK
    <2>9. Placed'
      BY <1>2, <2>1, <2>3 DEF Placed, Busy
    <2>10. EffectsInv'
      BY <1>0, <1>2, <1>5, <2>1, EffectBounds DEF EffectsInv, Busy, AllowRetry
    <2>11. TokensInv'
      <3>1. CASE Renews(status)
        <4>1. token' \notin rejected' /\ refreshed' = TRUE
          BY <1>2, <1>3, <3>1 DEF Renews, OnAuthFailure
        <4> QED
          BY <1>4, <4>1 DEF TokensInv
      <3>2. CASE Repeats(status)
        <4>1. rejected' = rejected /\ (401 \in retried' => 401 \in retried)
          BY <2>1, <3>2 DEF Repeats, Send
        <4> QED
          BY <1>0, <1>4, <3>2, <4>1 DEF ClientInv, TokensInv, Busy, Repeats
      <3> QED
        BY <1>8, <3>1, <3>2
    <2>12. WireInv'
      BY <1>0, <2>1, <2>3 DEF ClientInv, TypeOK, BucketTypeOK, WireInv, Pending
    <2> QED
      BY <2>2, <2>6, <2>8, <2>9, <2>10, <2>11, <2>12 DEF ClientInv
  <1> QED
    BY <1>1, <1>7, <1>8

LEMMA ExpireKeeps == ASSUME ClientInv, Expire PROVE ClientInv'
  <1>1. BucketInv'
    BY DEF ClientInv, Expire, bucketVars, BucketInv, BucketTypeOK, Refilled
  <1>2. TypeOK'
    BY <1>1 DEF ClientInv, BucketInv, Expire, TypeOK, serverVars, ghostVars
  <1>3. Placed' /\ AttemptsBounded' /\ EffectsInv' /\ TokensInv'
    BY DEF ClientInv, Expire, Placed, AttemptsBounded, EffectsInv, TokensInv, Busy,
           serverVars, ghostVars, bucketVars
  <1>4. WireInv'
    BY DEF ClientInv, Expire, WireInv, Pending, ghostVars, bucketVars
  <1> QED
    BY <1>1, <1>2, <1>3, <1>4 DEF ClientInv

LEMMA RevokeKeeps == ASSUME ClientInv, Revoke PROVE ClientInv'
  <1>1. BucketInv'
    BY DEF ClientInv, Revoke, bucketVars, BucketInv, BucketTypeOK, Refilled
  <1>2. TypeOK'
    BY <1>1, ClientAssumption
       DEF ClientInv, BucketInv, Revoke, TypeOK, clientVars, ghostVars
  <1>3. Placed' /\ AttemptsBounded' /\ EffectsInv' /\ TokensInv'
    BY DEF ClientInv, Revoke, Placed, AttemptsBounded, EffectsInv, TokensInv, Busy,
           clientVars, ghostVars, bucketVars
  <1>4. WireInv'
    BY DEF ClientInv, Revoke, WireInv, Pending, clientVars, ghostVars, bucketVars
  <1> QED
    BY <1>1, <1>2, <1>3, <1>4 DEF ClientInv

\* Time passes: the wire cools down no faster than the bucket.
LEMMA TickKeeps == ASSUME ClientInv, Tick PROVE ClientInv'
  <1> USE CapacityType
  <1>1. BucketInv'
    BY ElapseKeeps DEF ClientInv, Tick
  <1>2. TypeOK'
    BY <1>1 DEF ClientInv, BucketInv, Tick, TypeOK, clientVars, serverVars
  <1>3. Placed' /\ AttemptsBounded' /\ EffectsInv' /\ TokensInv'
    BY DEF ClientInv, Tick, Elapse, Placed, AttemptsBounded, EffectsInv, TokensInv, Busy,
           clientVars, serverVars
  <1>4. WireInv'
    BY DEF ClientInv, Tick, Elapse, WireInv, Pending, TypeOK, BucketTypeOK, clientVars
  <1> QED
    BY <1>1, <1>2, <1>3, <1>4 DEF ClientInv

LEMMA ClientStep == ClientInv /\ [Next]_vars => ClientInv'
  <1> SUFFICES ASSUME ClientInv, [Next]_vars PROVE ClientInv'
    OBVIOUS
  <1>1. CASE UNCHANGED vars
    BY <1>1 DEF vars, bucketVars, ClientInv, TypeOK, BucketInv, BucketTypeOK, Refilled,
                Placed, AttemptsBounded, EffectsInv, TokensInv, WireInv, Pending, Busy
  <1> QED
    BY <1>1, StartCallKeeps, PaceKeeps, UseTokenKeeps, FetchTokenKeeps, SendKeeps,
       ExpireKeeps, RevokeKeeps, TickKeeps
       DEF Next, Request

LEMMA ClientAlways == Spec => []ClientInv
  BY ClientStarts, ClientStep, PTL DEF Spec

\* The client, its bucket and the server keep their types.
THEOREM TypeCorrect == Spec => []TypeOK
  <1>1. ClientInv => TypeOK
    BY DEF ClientInv
  <1> QED
    BY <1>1, ClientAlways, PTL

\* "A retry can never buy twice": through lost answers, retries and refreshed
\* tokens a POST takes effect at most once.
THEOREM NeverBuysTwice == Spec => []PostsOnce
  <1>1. ClientInv => PostsOnce
    BY DEF ClientInv, EffectsInv, PostsOnce
  <1> QED
    BY <1>1, ClientAlways, PTL

\* request makes at most retry_max_attempts attempts, and one more for a
\* refreshed token.
THEOREM AttemptsAreBounded == Spec => []AttemptsBounded
  <1>1. ClientInv => AttemptsBounded
    BY DEF ClientInv
  <1> QED
    BY <1>1, ClientAlways, PTL

\* A call that goes on after a 401 never repeats the token it got it for.
THEOREM TokenIsReplaced == Spec => []RefreshReplacesToken
  <1>1. ClientInv => RefreshReplacesToken
    BY DEF ClientInv, TokensInv, RefreshReplacesToken
  <1> QED
    BY <1>1, ClientAlways, PTL

\* "So we never hammer either side": over any stretch of time the client sends
\* at most one request more than the bucket's burst and rate allow.
THEOREM WireIsPaced == Spec => [](CeilingHolds /\ WireCeiling)
  <1>1. ClientInv => CeilingHolds /\ WireCeiling
    <2> SUFFICES ASSUME ClientInv PROVE CeilingHolds /\ WireCeiling
      OBVIOUS
    <2>1. CeilingHolds
      BY BucketInvMeans DEF ClientInv
    <2> QED
      BY <2>1, CapacityType
         DEF ClientInv, TypeOK, BucketTypeOK, WireInv, Pending, CeilingHolds, WireCeiling
  <1> QED
    BY <1>1, ClientAlways, PTL
=============================================================================
