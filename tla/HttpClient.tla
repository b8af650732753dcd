----------------------------- MODULE HttpClient -----------------------------
(***************************************************************************)
(* BaseApiClient.request (app/http/client.py) with the token handling of   *)
(* G2AClient (app/stores/g2a.py): one client object makes one call after   *)
(* another, and keeps its bearer token between them.  A step ends at every *)
(* request on the wire, where the server may act and the answer be lost.   *)
(* Every attempt first takes a token from the client's bucket; the request *)
(* for a bearer token does not.                                            *)
(***************************************************************************)
EXTENDS FiniteSets, TokenBucket

CONSTANTS
    Client,       \* the thread that uses this client
    MaxAttempts,  \* retry_max_attempts
    Kinds,        \* the kinds of call that are made
    MaxTokens,    \* bound: tokens the server issues
    MaxCalls      \* bound: calls made

\* How a caller sets method, idempotency_key and allow_retry.
AllKinds == {"get", "post", "keyed_post", "patch"}

ASSUME ClientAssumption ==
    /\ Client \in Threads
    /\ MaxAttempts \in Nat \ {0}
    /\ Kinds \subseteq AllKinds
    /\ MaxTokens \in Nat
    /\ MaxCalls \in Nat

VARIABLES
    step,       \* where request stands
    kind,       \* the kind of the current call
    attempt,    \* attempts made
    refreshed,  \* refreshed_auth
    token,      \* the cached bearer token, 0 for none; tokens are numbered
    expired,    \* the cached token has passed its expiry time
    outcome,    \* how the last call ended
    live,       \* the token the server accepts
    issued,     \* tokens issued so far
    effects,    \* times the server carried the current call out
    rejected,   \* tokens the server answered with 401
    resent,     \* a call was sent again with the token it had a 401 for
    retried,    \* answers of the current call that were followed by a retry
    wire,       \* what the requests sent exceed the rate by, as debt for tokens
    calls

clientVars == <<step, kind, attempt, refreshed, token, expired, outcome>>
serverVars == <<live, issued, effects>>
ghostVars == <<rejected, resent, retried, wire>>
vars == <<step, kind, attempt, refreshed, token, expired, outcome, live, issued,
          effects, rejected, resent, retried, wire, calls, bucketVars>>

\* Status codes that request tells apart, and 0 for a transport exception.
Statuses == {0, 200, 400, 401, 403, 408, 425, 429, 503}
RETRYABLE_STATUS == {408, 425, 429, 503}
Outcomes == {"none", "ok", "api_error", "rate_limited", "auth_error", "raised"}

TypeOK ==
    /\ BucketTypeOK
    /\ step \in {"idle", "pace", "auth", "send"}
    /\ kind \in AllKinds
    /\ attempt \in 0..(MaxAttempts + 1)
    /\ refreshed \in BOOLEAN
    /\ token \in 0..issued
    /\ expired \in BOOLEAN
    /\ outcome \in Outcomes
    /\ live \in 0..issued
    /\ issued \in 0..MaxTokens
    /\ effects \in 0..(MaxAttempts + 1)
    /\ rejected \subseteq 1..issued
    /\ resent \in BOOLEAN
    /\ retried \subseteq Statuses
    /\ wire \in Nat
    /\ calls \in 0..MaxCalls
-----------------------------------------------------------------------------
\* Mutant: every mutating call is repeated.
AllowRetryAlways(k) == TRUE

\* allow_retry: GET, a call with an idempotency key, and PATCH by its caller.
AllowRetry(k) == k # "post"

\* The loop of request goes round: take a token from the bucket first.
Attempt == step' = "pace" /\ Arrive(Client)

\* The call leaves request with this outcome.
Leave(how) ==
    /\ step' = "idle"
    /\ outcome' = how
    /\ UNCHANGED <<attempt, refreshed, retried, bucketVars>>

\* Mutant: the attempt is not counted.
AgainUncounted(status) ==
    /\ Attempt
    /\ attempt' = attempt
    /\ retried' = retried \cup {status}
    /\ UNCHANGED outcome

\* The loop goes round again after this answer.
Again(status) ==
    /\ Attempt
    /\ attempt' = attempt + 1
    /\ retried' = retried \cup {status}
    /\ UNCHANGED outcome

\* A caller makes a call.
StartCall(k) ==
    /\ step = "idle"
    /\ calls < MaxCalls
    /\ calls' = calls + 1
    /\ Attempt
    /\ kind' = k
    /\ attempt' = 1
    /\ refreshed' = FALSE
    /\ outcome' = "none"
    /\ effects' = 0
    /\ retried' = {}
    /\ UNCHANGED <<token, expired, live, issued, rejected, resent, wire>>

\* Mutant: the first attempt is not paced.
PaceRetries ==
    /\ step = "pace"
    /\ IF attempt = 1
       THEN want' = [want EXCEPT ![Client] = FALSE] /\ UNCHANGED <<level, idle, nap, debt>>
       ELSE Acquire(Client)
    /\ step' = IF want'[Client] THEN "pace" ELSE "auth"
    /\ UNCHANGED <<kind, attempt, refreshed, token, expired, outcome, serverVars,
                   ghostVars, calls>>

\* bucket.acquire: a token, or another sleep.
Pace ==
    /\ step = "pace"
    /\ Acquire(Client)
    /\ step' = IF want'[Client] THEN "pace" ELSE "auth"
    /\ UNCHANGED <<kind, attempt, refreshed, token, expired, outcome, serverVars,
                   ghostVars, calls>>

\* auth_headers with a token that is cached and not expired.
UseToken ==
    /\ step = "auth"
    /\ token # 0 /\ ~expired
    /\ step' = "send"
    /\ UNCHANGED <<kind, attempt, refreshed, token, expired, outcome, serverVars,
                   ghostVars, calls, bucketVars>>

\* auth_headers fetches a token.  A refusal is an AuthError; a transport
\* exception is not caught and leaves request as it is.
FetchToken ==
    /\ step = "auth"
    /\ token = 0 \/ expired
    /\ \/ /\ issued < MaxTokens
          /\ issued' = issued + 1
          /\ live' = issued'
          /\ token' = issued'
          /\ expired' = FALSE
          /\ step' = "send"
          /\ UNCHANGED <<attempt, refreshed, outcome, retried, bucketVars>>
       \/ /\ Leave("auth_error") \/ Leave("raised")
          /\ UNCHANGED <<issued, live, token, expired>>
    /\ UNCHANGED <<kind, effects, rejected, resent, wire, calls>>

\* What the server may answer to the cached token.
Answers == IF token = live THEN Statuses ELSE Statuses \ {200, 400}

\* A read has no effect; the server carries a keyed call out once, any other
\* call each time it is asked.
Effect ==
    IF kind = "get" THEN 0 ELSE IF kind = "keyed_post" THEN 1 ELSE effects + 1

\* Whether the server did it: yes on success, perhaps when the answer is lost
\* or a 503, no otherwise.
ServerActs(status) ==
    \/ /\ status = 200 \/ (status \in {0, 503} /\ token = live)
       /\ effects' = Effect
    \/ /\ status # 200
       /\ UNCHANGED effects

\* Mutant: the token is not dropped.
OnAuthFailureKept == UNCHANGED <<token, expired>>

\* on_auth_failure.
OnAuthFailure == token' = 0 /\ expired' = FALSE

\* A 401 is worth one refresh.
MayRefresh == ~refreshed /\ AllowRetry(kind)

\* Mutant: one attempt too many.
MayRetryOneMore(status) ==
    /\ status = 0 \/ status \in RETRYABLE_STATUS
    /\ AllowRetry(kind)
    /\ attempt <= MaxAttempts

\* A transient failure is worth another attempt.
MayRetry(status) ==
    /\ status = 0 \/ status \in RETRYABLE_STATUS
    /\ AllowRetry(kind)
    /\ attempt < MaxAttempts

\* One request on the wire and what request makes of the answer.
Send(status) ==
    /\ step = "send"
    /\ status \in Answers
    /\ ServerActs(status)
    /\ wire' = wire + Unit
    /\ resent' = (resent \/ (401 \in retried /\ token \in rejected))
    /\ rejected' = IF status = 401 THEN rejected \cup {token} ELSE rejected
    /\ \/ /\ status = 200
          /\ Leave("ok") \/ Leave("api_error")        \* or the body is no JSON
          /\ UNCHANGED <<token, expired>>
       \/ /\ status = 401 /\ MayRefresh
          /\ OnAuthFailure
          /\ refreshed' = TRUE
          /\ Again(status)
       \/ /\ status = 403 \/ (status = 401 /\ ~MayRefresh)
          /\ Leave("auth_error")
          /\ UNCHANGED <<token, expired>>
       \/ /\ MayRetry(status)
          /\ Again(status)
          /\ UNCHANGED <<refreshed, token, expired>>
       \/ /\ status \notin {200, 401, 403}
          /\ ~MayRetry(status)
          /\ Leave(IF status = 429 THEN "rate_limited" ELSE "api_error")
          /\ UNCHANGED <<token, expired>>
    /\ UNCHANGED <<kind, live, issued, calls>>

\* The cached token reaches its expiry time, known to the client.
Expire ==
    /\ token # 0 /\ ~expired
    /\ expired' = TRUE
    /\ UNCHANGED <<step, kind, attempt, refreshed, token, outcome, serverVars,
                   ghostVars, calls, bucketVars>>

\* The server stops accepting the token before that.
Revoke ==
    /\ live # 0
    /\ live' = 0
    /\ UNCHANGED <<clientVars, issued, effects, ghostVars, calls, bucketVars>>

\* Time passes: in the bucket, on the wire, between two attempts.
Tick ==
    /\ Elapse
    /\ wire' = IF wire > 0 THEN wire - 1 ELSE 0
    /\ UNCHANGED <<clientVars, serverVars, rejected, resent, retried, calls>>
-----------------------------------------------------------------------------
Init ==
    /\ BucketInit
    /\ step = "idle" /\ kind = "get" /\ attempt = 0 /\ refreshed = FALSE
    /\ token = 0 /\ expired = FALSE /\ outcome = "none"
    /\ live = 0 /\ issued = 0 /\ effects = 0
    /\ rejected = {} /\ resent = FALSE /\ retried = {} /\ wire = 0
    /\ calls = 0

Request == Pace \/ UseToken \/ FetchToken \/ \E status \in Statuses : Send(status)

Next == (\E k \in Kinds : StartCall(k)) \/ Request \/ Expire \/ Revoke \/ Tick

Spec == Init /\ [][Next]_vars

\* A call under way goes on and time passes: sleeps and timeouts are finite.
FairSpec == Spec /\ WF_vars(Request) /\ WF_vars(Tick)
-----------------------------------------------------------------------------
\* "A retry can never buy twice": a POST takes effect at most once, with or
\* without an idempotency key, whatever is lost on the way.
PostsOnce == kind \in {"post", "keyed_post"} => effects <= 1

\* A call makes at most retry_max_attempts attempts, and one more for a token
\* that was refreshed.
AttemptsBounded == attempt <= MaxAttempts + (IF refreshed THEN 1 ELSE 0)

\* After a 401 the call that goes on does so with another token.
RefreshReplacesToken == ~resent

\* "So we never hammer either side": over any stretch of time the requests the
\* client puts on the wire, retries included, are at most one more than the
\* bucket's burst and what the rate earns meanwhile.  The one is a token taken
\* early by an attempt that a slow bearer token then held up.
WireCeiling == wire <= Capacity + Unit

\* Every call returns or raises.
CallsEnd == step # "idle" ~> step = "idle"
=============================================================================
