---------------------------- MODULE Idempotency ----------------------------
(***************************************************************************)
(* The exactly-once guard of app/services/idempotency.py: run_once, called *)
(* by several processes for one (scope, key), each with its own database   *)
(* session.  A step ends where run_once commits or calls out, because that *)
(* is where another process can get in between or the process can die.    *)
(***************************************************************************)
EXTENDS Naturals, FiniteSets

CONSTANTS
    Callers,      \* processes that call run_once with the same key
    Hashes,       \* request_hash values of their payloads
    MaxCrashes,   \* bound: processes killed
    MaxAttempts,  \* bound: calls made by one caller
    NoRecord      \* no idempotency_keys row for the key

\* A way to use it: an on_replay hook is passed, and the operation returns a
\* scalar rather than a dict or a list.
Use == [replay : BOOLEAN, scalar : BOOLEAN]

VARIABLES
    use,       \* how the guard is used in this behaviour
    record,    \* the committed row
    pc,        \* where each call stands
    payload,   \* the hash of each caller's request
    attempts,  \* calls made so far
    mine,      \* the result a caller's own operation returned
    value,     \* the result run_once gave a caller
    landed,    \* side effects: keys bought upstream; each has its number
    lost,      \* those whose answer was lost (properties only)
    together,  \* two callers have owned the key at once (properties only)
    crashes

vars == <<use, record, pc, payload, attempts, mine, value, landed, lost, together,
          crashes>>

InProgress == "in_progress"
Completed == "completed"
Failed == "failed"

\* The number of a purchase (0 for none), bare or as {"value": ...}.
Result == [num : Nat, wrapped : BOOLEAN]

Bare(n) == [num |-> n, wrapped |-> FALSE]

\* What is stored of a fresh result: a scalar is wrapped in a document.
Stored(n) == [num |-> n, wrapped |-> use.scalar]

Record == [hash : Hashes, state : {InProgress, Completed, Failed}, response : Result]

ASSUME ParametersAssumption ==
    /\ MaxCrashes \in Nat
    /\ MaxAttempts \in Nat \ {0}
    /\ NoRecord \notin Record

Points == {"new", "read", "reclaim", "replay", "recover", "operate", "complete",
           "fail", "returned", "raised", "dead"}

\* Points at which a call is under way.
Running == Points \ {"new", "returned", "raised", "dead"}

\* Points at which a call takes the key to be its own.
Owning == {"reclaim", "replay", "recover", "operate", "complete", "fail"}

\* The rows and results keep their types, whatever dies or fails.
TypeOK ==
    /\ use \in Use
    /\ record \in Record \cup {NoRecord}
    /\ pc \in [Callers -> Points]
    /\ payload \in [Callers -> Hashes]
    /\ attempts \in [Callers -> 0..MaxAttempts]
    /\ mine \in [Callers -> Nat]
    /\ value \in [Callers -> Result]
    /\ landed \in Nat
    /\ lost \in 0..landed
    /\ together \in BOOLEAN
    /\ crashes \in 0..MaxCrashes

Goto(c, point) == pc' = [pc EXCEPT ![c] = point]
-----------------------------------------------------------------------------
\* A request arrives, or the client repeats one that raised or whose process
\* died.
MayCall(c) ==
    /\ pc[c] \in {"new", "raised", "dead"}
    /\ attempts[c] < MaxAttempts

\* Mutant: no unique key, the newest claim replaces the row.
ClaimUnguarded(c) ==
    /\ MayCall(c)
    /\ attempts' = [attempts EXCEPT ![c] = @ + 1]
    /\ record' = [hash |-> payload[c], state |-> InProgress, response |-> Bare(0)]
    /\ Goto(c, "operate")
    /\ UNCHANGED <<payload, mine, value, landed, lost, crashes>>

\* run_once inserts the row and commits: the unique key lets one in.
Claim(c) ==
    /\ MayCall(c)
    /\ attempts' = [attempts EXCEPT ![c] = @ + 1]
    /\ \/ /\ record = NoRecord
          /\ record' = [hash |-> payload[c], state |-> InProgress, response |-> Bare(0)]
          /\ Goto(c, "operate")
       \/ /\ record # NoRecord
          /\ Goto(c, "read")
          /\ UNCHANGED record
    /\ UNCHANGED <<payload, mine, value, landed, lost, crashes>>

\* Mutant: the request hash is not compared.
ReadExistingAnyPayload(c) ==
    /\ pc[c] = "read"
    /\ \/ /\ record.state = Completed
          /\ Goto(c, "returned")
          /\ value' = [value EXCEPT ![c] = record.response]
       \/ /\ record.state # Completed
          /\ Goto(c, IF record.state = Failed THEN "reclaim" ELSE "raised")
          /\ UNCHANGED value
    /\ UNCHANGED <<record, payload, attempts, mine, landed, lost, crashes>>

\* Mutant: a completed key is taken up again like a failed one.
ReadExistingRetries(c) ==
    /\ pc[c] = "read"
    /\ Goto(c, IF record.hash # payload[c] \/ record.state = InProgress
               THEN "raised" ELSE "reclaim")
    /\ value' = value
    /\ UNCHANGED <<record, payload, attempts, mine, landed, lost, crashes>>

\* The row exists: decide by its hash and state.
ReadExisting(c) ==
    /\ pc[c] = "read"
    /\ \/ /\ record.hash # payload[c]                  \* IdempotencyConflict
          /\ Goto(c, "raised")
          /\ UNCHANGED value
       \/ /\ record.hash = payload[c]
          /\ record.state = Completed                  \* replay the stored result
          /\ Goto(c, "returned")
          /\ value' = [value EXCEPT ![c] = record.response]
       \/ /\ record.hash = payload[c]
          /\ record.state = Failed
          /\ Goto(c, "reclaim")
          /\ UNCHANGED value
       \/ /\ record.hash = payload[c]
          /\ record.state = InProgress                 \* or OperationInProgress
          /\ Goto(c, IF use.replay THEN "replay" ELSE "raised")
          /\ UNCHANGED value
    /\ UNCHANGED <<record, payload, attempts, mine, landed, lost, crashes>>

\* "A recorded failure is safe to retry": the row goes back to in progress.
Reclaim(c) ==
    /\ pc[c] = "reclaim"
    /\ record' = [record EXCEPT !.state = InProgress]
    /\ Goto(c, "operate")
    /\ UNCHANGED <<payload, attempts, mine, value, landed, lost, crashes>>

\* Mutant: the hook's answer is not used.
OnReplayIgnored(c) ==
    /\ pc[c] = "replay"
    /\ Goto(c, "operate")
    /\ mine' = mine
    /\ UNCHANGED <<record, payload, attempts, value, landed, lost, crashes>>

\* on_replay re-reads the upstream order: found, or nothing there (yet).
OnReplay(c) ==
    /\ pc[c] = "replay"
    /\ \/ /\ landed > 0
          /\ mine' = [mine EXCEPT ![c] = landed]
          /\ Goto(c, "recover")
       \/ /\ landed = 0
          /\ Goto(c, "operate")
          /\ UNCHANGED mine
    /\ UNCHANGED <<record, payload, attempts, value, landed, lost, crashes>>

\* The operation: it buys and returns, raises without buying, or buys and
\* raises because the answer is lost.
Operate(c) ==
    /\ pc[c] = "operate"
    /\ \/ /\ landed' = landed + 1
          /\ mine' = [mine EXCEPT ![c] = landed + 1]
          /\ Goto(c, "complete")
          /\ UNCHANGED lost
       \/ /\ Goto(c, "fail")
          /\ UNCHANGED <<landed, lost, mine>>
       \/ /\ landed' = landed + 1
          /\ lost' = lost + 1
          /\ Goto(c, "fail")
          /\ UNCHANGED mine
    /\ UNCHANGED <<record, payload, attempts, value, crashes>>

\* The exception handler records the failure and raises.
RecordFailure(c) ==
    /\ pc[c] = "fail"
    /\ record' = [record EXCEPT !.state = Failed]
    /\ Goto(c, "raised")
    /\ UNCHANGED <<payload, attempts, mine, value, landed, lost, crashes>>

\* The result is committed and returned: a recovered one is stored as it is, a
\* fresh one as a document.  This caller gets the bare value either way.
RecordResult(c) ==
    /\ pc[c] \in {"recover", "complete"}
    /\ record' = [record EXCEPT
                     !.state = Completed,
                     !.response = IF pc[c] = "recover" THEN Bare(mine[c])
                                                       ELSE Stored(mine[c])]
    /\ value' = [value EXCEPT ![c] = Bare(mine[c])]
    /\ Goto(c, "returned")
    /\ UNCHANGED <<payload, attempts, mine, landed, lost, crashes>>

\* The process is killed; what it committed stays.
Crash(c) ==
    /\ pc[c] \in Running
    /\ crashes < MaxCrashes
    /\ crashes' = crashes + 1
    /\ Goto(c, "dead")
    /\ UNCHANGED <<record, payload, attempts, mine, value, landed, lost>>
-----------------------------------------------------------------------------
Init ==
    /\ use \in Use
    /\ record = NoRecord
    /\ pc = [c \in Callers |-> "new"]
    /\ payload \in [Callers -> Hashes]
    /\ attempts = [c \in Callers |-> 0]
    /\ mine = [c \in Callers |-> 0]
    /\ value = [c \in Callers |-> Bare(0)]
    /\ landed = 0 /\ lost = 0
    /\ together = FALSE
    /\ crashes = 0

Step(c) ==
    \/ ReadExisting(c) \/ Reclaim(c) \/ OnReplay(c) \/ Operate(c)
    \/ RecordFailure(c) \/ RecordResult(c)

Shared == \E c, d \in Callers : c # d /\ pc[c] \in Owning /\ pc[d] \in Owning

Next ==
    /\ \E c \in Callers : Claim(c) \/ Step(c) \/ Crash(c)
    /\ together' = (together \/ Shared')
    /\ UNCHANGED use

Spec == Init /\ [][Next]_vars
-----------------------------------------------------------------------------
\* What run_once promises, seen from outside: ExactlyOnce.
Promise == INSTANCE ExactlyOnce WITH
              bought    <- landed,
              unheard   <- lost,
              result    <- IF record # NoRecord /\ record.state = Completed
                           THEN record.response.num ELSE 0,
              told      <- [c \in Callers |-> IF pc[c] = "returned" THEN value[c].num ELSE 0],
              exclusive <- ~together

\* run_once implements the exactly-once promise ("Execute `operation` at most
\* once for (scope, key)"): through claims, refusals, retries, crashes and
\* replays it buys again only after an answer was lost, settles on one
\* purchase and tells everyone of that one, for as long as no two callers own
\* the key at once.
KeepsPromise == Promise!Spec

\* A second key is bought only after the answer to an earlier purchase was
\* lost; crashes, refusals and retries between them never buy one.  The known
\* exception is a key that two callers own at once: a replay takes an owner
\* that is still at work for a crashed one, or two callers find the same
\* failure and retry it together.
OncePerLostAnswer == together \/ landed <= 1 + lost

\* Every caller that gets a result gets the purchase that is stored for its own
\* request, and it is one that happened; it gets it in the stored form too,
\* unless the operation returns a scalar, which only later callers see wrapped.
ResultsAgree ==
    together \/ \A c \in Callers :
       pc[c] = "returned" =>
          /\ record # NoRecord
          /\ record.state = Completed
          /\ value[c].num = record.response.num
          /\ value[c].num \in 1..landed
          /\ record.hash = payload[c]
          /\ use.scalar \/ value[c] = record.response

\* A stored result is final: no later call replaces it or reopens the key, as
\* long as it has one owner at a time.
ResultIsFinal ==
    [][~together' /\ record # NoRecord /\ record.state = Completed
         => record' = record]_vars
=============================================================================
