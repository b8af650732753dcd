---------------------------- MODULE TokenBucket -----------------------------
(***************************************************************************)
(* TokenBucket of app/http/ratelimit.py: threads that take a token before  *)
(* every request.  Time and tokens are counted in the same unit: in one    *)
(* tick the bucket earns one unit, and a token is worth Unit of them, so   *)
(* that Unit ticks are 1 / rate seconds.                                   *)
(***************************************************************************)
EXTENDS Naturals

CONSTANTS
    Threads,   \* threads that share the bucket
    Unit,      \* units in a token
    Burst      \* tokens the bucket holds: max(1, capacity)

ASSUME BucketAssumption == Unit \in Nat \ {0} /\ Burst \in Nat \ {0}

Capacity == Burst * Unit

VARIABLES
    level,     \* _tokens
    idle,      \* time since _updated, up to what fills the bucket
    want,      \* thread -> it is inside acquire
    nap,       \* thread -> time left of its sleep
    debt       \* what the tokens given out exceed the rate by, over the stretch
               \* of time where that is most (properties only)

bucketVars == <<level, idle, want, nap, debt>>

BucketTypeOK ==
    /\ level \in 0..Capacity
    /\ idle \in 0..Capacity
    /\ want \in [Threads -> BOOLEAN]
    /\ nap \in [Threads -> 0..Unit]
    /\ debt \in Nat

AtMost(n, most) == IF n > most THEN most ELSE n
-----------------------------------------------------------------------------
\* Mutant: what was earned while nobody asked is not capped.
RefilledUncapped == level + idle

\* _refill_locked: the level at this moment.
Refilled == AtMost(level + idle, Capacity)

\* The lock is held: refill, and take a token.
Take ==
    /\ Refilled >= Unit
    /\ level' = Refilled - Unit
    /\ idle' = 0
    /\ debt' = debt + Unit

\* The lock is held: refill, and find too little.
Miss ==
    /\ Refilled < Unit
    /\ level' = Refilled
    /\ idle' = 0
    /\ UNCHANGED debt

\* A thread calls acquire.
Arrive(t) ==
    /\ ~want[t]
    /\ want' = [want EXCEPT ![t] = TRUE]
    /\ UNCHANGED <<level, idle, nap, debt>>

\* acquire returns.
Granted(t) ==
    /\ want[t] /\ nap[t] = 0
    /\ Take
    /\ want' = [want EXCEPT ![t] = FALSE]
    /\ UNCHANGED nap

\* acquire lets the lock go and sleeps for as long as the deficit takes.
Sleep(t) ==
    /\ want[t] /\ nap[t] = 0
    /\ Miss
    /\ nap' = [nap EXCEPT ![t] = Unit - Refilled]
    /\ UNCHANGED want

Acquire(t) == Granted(t) \/ Sleep(t)

\* try_acquire: take a token or do without.
TryAcquire(t) ==
    /\ ~want[t]
    /\ Take \/ Miss
    /\ UNCHANGED <<want, nap>>

\* One tick of the clock.
Elapse ==
    /\ idle' = AtMost(idle + 1, Capacity)
    /\ nap' = [t \in Threads |-> IF nap[t] > 0 THEN nap[t] - 1 ELSE 0]
    /\ debt' = IF debt > 0 THEN debt - 1 ELSE 0
    /\ UNCHANGED <<level, want>>
-----------------------------------------------------------------------------
BucketInit ==
    /\ level = Capacity
    /\ idle = 0
    /\ want = [t \in Threads |-> FALSE]
    /\ nap = [t \in Threads |-> 0]
    /\ debt = 0

BucketNext ==
    \/ \E t \in Threads : Arrive(t) \/ Acquire(t) \/ TryAcquire(t)
    \/ Elapse

BucketSpec == BucketInit /\ [][BucketNext]_bucketVars
-----------------------------------------------------------------------------
\* "An overall requests-per-second ceiling": over any stretch of time, however
\* the threads interleave and however long they sleep, the tokens given out
\* are at most the burst and what the rate earns meanwhile.
CeilingHolds == debt <= Capacity
=============================================================================
