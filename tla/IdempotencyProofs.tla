------------------------- MODULE IdempotencyProofs --------------------------
(***************************************************************************)
(* What must not be done twice, or again too soon: the exactly-once guard  *)
(* keeps its promise for every set of callers and payloads and every       *)
(* number of crashes and attempts, and the worker its fixed delay from     *)
(* completion for every list of jobs, intervals and durations.             *)
(***************************************************************************)
EXTENDS Idempotency, Worker, TLAPS

\* The row is there for every call that found or made it: it is never deleted.
RowStays == \A c \in Callers : pc[c] \in Owning \cup {"read"} => record # NoRecord

\* At most one call takes the key to be its own.
OneOwner == \A c, d \in Callers : pc[c] \in Owning /\ pc[d] \in Owning => c = d

\* Its owner finds the row as it left it.
OwnerHolds ==
    \A c \in Callers : pc[c] \in Owning =>
       /\ record.hash = payload[c]
       /\ record.state = IF pc[c] = "reclaim" THEN Failed ELSE InProgress

\* What was bought and what was lost, by where the owner stands.
Ledger ==
    /\ landed <= lost + 1
    /\ record = NoRecord => landed = 0
    /\ record # NoRecord /\ record.state = Failed => landed = lost
    /\ record # NoRecord /\ record.state = Completed => record.response.num \in 1..landed
    /\ \A c \in Callers :
          /\ pc[c] \in {"operate", "fail"} => landed = lost
          /\ pc[c] = "complete" => landed = lost + 1 /\ mine[c] = landed
          /\ pc[c] = "recover" => landed > 0 /\ mine[c] = landed

Told(c) ==
    /\ record # NoRecord
    /\ record.state = Completed
    /\ value[c].num = record.response.num
    /\ record.hash = payload[c]
    /\ use.scalar \/ value[c] = record.response

Answered == \A c \in Callers : pc[c] = "returned" => Told(c)

Guarded == OneOwner /\ OwnerHolds /\ Ledger /\ Answered

GuardInv == TypeOK /\ RowStays /\ (together \/ Guarded)

LEMMA GuardStarts == Init => GuardInv
  <1> SUFFICES ASSUME Init PROVE GuardInv
    OBVIOUS
  <1>1. TypeOK
    <2>1. Bare(0) \in Result
      BY DEF Bare, Result
    <2>2. pc \in [Callers -> Points]
      BY DEF Init, Points
    <2>3. /\ attempts \in [Callers -> 0..MaxAttempts] /\ crashes \in 0..MaxCrashes
          /\ lost \in 0..landed
      BY ParametersAssumption DEF Init
    <2> QED
      BY <2>1, <2>2, <2>3 DEF Init, TypeOK
  <1>2. RowStays /\ Guarded
    BY DEF Init, RowStays, Guarded, OneOwner, OwnerHolds, Ledger, Answered, Owning
  <1> QED
    BY <1>1, <1>2 DEF GuardInv

\* The row and the results that calls write are well formed.
LEMMA ResultTypes ==
    ASSUME NEW n \in Nat, use \in Use
    PROVE  Bare(n) \in Result /\ Stored(n) \in Result
  BY DEF Bare, Stored, Result, Use

LEMMA RecordTypes ==
    ASSUME NEW r \in Record, NEW s \in {InProgress, Completed, Failed}, NEW v \in Result
    PROVE  /\ [r EXCEPT !.state = s] \in Record
           /\ [r EXCEPT !.state = s, !.response = v] \in Record
           /\ [r EXCEPT !.state = s].state = s
           /\ [r EXCEPT !.state = s].hash = r.hash
           /\ [r EXCEPT !.state = s, !.response = v].state = s
           /\ [r EXCEPT !.state = s, !.response = v].hash = r.hash
           /\ [r EXCEPT !.state = s, !.response = v].response = v
           /\ r # NoRecord
           /\ [r EXCEPT !.state = s] # NoRecord
           /\ [r EXCEPT !.state = s, !.response = v] # NoRecord
  <1>1. [r EXCEPT !.state = s] \in Record /\ [r EXCEPT !.state = s, !.response = v] \in Record
    BY DEF Record
  <1> QED
    BY <1>1, ParametersAssumption DEF Record

\* A step of one call moves that call only.
LEMMA OthersStay ==
    ASSUME TypeOK, NEW c \in Callers, NEW p \in Points, Goto(c, p)
    PROVE  /\ pc' \in [Callers -> Points]
           /\ pc'[c] = p
           /\ \A d \in Callers \ {c} : pc'[d] = pc[d]
  BY DEF TypeOK, Goto

\* When the key still has one owner after a step, it had one before, and the
\* step's own call is the only one that can be it.
LEMMA StillOne ==
    ASSUME GuardInv, Next, ~together'
    PROVE  Guarded /\ OneOwner'
  BY DEF GuardInv, Next, Shared, OneOwner, TypeOK

LEMMA ClaimKeeps ==
    ASSUME GuardInv, NEW c \in Callers, Claim(c), Next
    PROVE  TypeOK' /\ RowStays' /\ (~together' => Guarded')
  <1>1. pc' \in [Callers -> Points] /\ pc'[c] \in {"operate", "read"}
        /\ \A d \in Callers \ {c} : pc'[d] = pc[d]
    BY OthersStay DEF Claim, GuardInv, Points
  <1>2. /\ attempts' \in [Callers -> 0..MaxAttempts]
        /\ UNCHANGED <<payload, mine, value, landed, lost, crashes, use>>
    BY ParametersAssumption DEF Claim, MayCall, GuardInv, TypeOK, Next
  <1>3. \/ /\ record = NoRecord /\ record' \in Record /\ record' # NoRecord
           /\ record'.hash = payload[c] /\ record'.state = InProgress
           /\ pc'[c] = "operate"
        \/ record # NoRecord /\ record' = record /\ pc'[c] = "read"
    <2>1. Bare(0) \in Result
      BY DEF Bare, Result
    <2>2. payload[c] \in Hashes
      BY DEF GuardInv, TypeOK
    <2>3. LET r == [hash |-> payload[c], state |-> InProgress, response |-> Bare(0)]
          IN r \in Record /\ r.hash = payload[c] /\ r.state = InProgress
      BY <2>1, <2>2 DEF Record
    <2> QED
      BY <2>3, OthersStay, ParametersAssumption DEF Claim, GuardInv, Points
  <1>4. together' \in BOOLEAN
    BY DEF Next, Shared, GuardInv, TypeOK
  <1>5. TypeOK' /\ RowStays'
    BY <1>1, <1>2, <1>3, <1>4 DEF GuardInv, TypeOK, RowStays
  <1>6. ASSUME ~together' PROVE Guarded'
    <2>1. Guarded /\ OneOwner'
      BY <1>6, StillOne
    <2>2. lost = landed \/ record # NoRecord
      BY <2>1 DEF Guarded, Ledger, GuardInv, TypeOK
    <2>3. OwnerHolds'
      BY <1>1, <1>2, <1>3, <2>1 DEF GuardInv, RowStays, Guarded, OwnerHolds, Owning
    <2>4. Ledger'
      BY <1>1, <1>2, <1>3, <2>1, <2>2 DEF Guarded, Ledger, InProgress, Failed, Completed
    <2>5. Answered'
      BY <1>1, <1>2, <1>3, <2>1 DEF Guarded, Answered, Told
    <2> QED
      BY <2>1, <2>3, <2>4, <2>5 DEF Guarded
  <1> QED
    BY <1>5, <1>6

\* The row is there: refuse, replay the stored result, or take the key over.
LEMMA ReadKeeps ==
    ASSUME GuardInv, NEW c \in Callers, ReadExisting(c), Next
    PROVE  TypeOK' /\ RowStays' /\ (~together' => Guarded')
  <1>1. UNCHANGED <<record, payload, attempts, mine, landed, lost, crashes, use>>
    BY DEF ReadExisting, Next
  <1>2. /\ pc[c] = "read"
        /\ pc' \in [Callers -> Points]
        /\ \A d \in Callers \ {c} : pc'[d] = pc[d]
        /\ \/ /\ pc'[c] = "raised" /\ value' = value
           \/ /\ record.hash = payload[c] /\ record.state = Completed
              /\ pc'[c] = "returned"
              /\ value' = [value EXCEPT ![c] = record.response]
           \/ /\ record.hash = payload[c] /\ record.state = Failed
              /\ pc'[c] = "reclaim" /\ value' = value
           \/ /\ record.hash = payload[c] /\ record.state = InProgress
              /\ pc'[c] = "replay" /\ value' = value
    BY OthersStay DEF ReadExisting, GuardInv, Points
  <1>3. together' \in BOOLEAN
    BY DEF Next, Shared, GuardInv, TypeOK
  <1>4. record \in Record /\ record # NoRecord /\ record.response \in Result
    BY <1>2 DEF RowStays, GuardInv, TypeOK, Record
  <1>5. TypeOK' /\ RowStays'
    <2>1. value' \in [Callers -> Result]
      BY <1>2, <1>4 DEF GuardInv, TypeOK
    <2> QED
      BY <1>1, <1>2, <1>3, <1>4, <2>1 DEF GuardInv, TypeOK, RowStays
  <1>6. ASSUME ~together' PROVE Guarded'
    <2>1. Guarded /\ OneOwner'
      BY <1>6, StillOne
    <2>2. OwnerHolds'
      BY <1>1, <1>2, <2>1 DEF Guarded, OwnerHolds, Owning
    <2>3. Ledger'
      BY <1>1, <1>2, <2>1 DEF Guarded, Ledger
    <2>4. Answered'
      BY <1>1, <1>2, <1>4, <2>1 DEF Guarded, Answered, Told, GuardInv, TypeOK
    <2> QED
      BY <2>1, <2>2, <2>3, <2>4 DEF Guarded
  <1> QED
    BY <1>5, <1>6

\* A recorded failure is taken up again: nothing was heard of before.
LEMMA ReclaimKeeps ==
    ASSUME GuardInv, NEW c \in Callers, Reclaim(c), Next
    PROVE  TypeOK' /\ RowStays' /\ (~together' => Guarded')
  <1>1. /\ UNCHANGED <<payload, attempts, mine, value, landed, lost, crashes, use>>
        /\ pc[c] = "reclaim" /\ pc'[c] = "operate"
        /\ pc' \in [Callers -> Points]
        /\ \A d \in Callers \ {c} : pc'[d] = pc[d]
    BY OthersStay DEF Reclaim, Next, GuardInv, Points
  <1>2. record \in Record
    BY <1>1 DEF RowStays, GuardInv, TypeOK, Owning
  <1>3. /\ record' \in Record /\ record' # NoRecord
        /\ record'.state = InProgress /\ record'.hash = record.hash
    BY <1>2, ParametersAssumption DEF Reclaim, Record
  <1>4. together' \in BOOLEAN
    BY DEF Next, Shared, GuardInv, TypeOK
  <1>5. TypeOK' /\ RowStays'
    BY <1>1, <1>3, <1>4 DEF GuardInv, TypeOK, RowStays
  <1>6. ASSUME ~together' PROVE Guarded'
    <2>1. Guarded /\ OneOwner'
      BY <1>6, StillOne
    <2>2. /\ record.state = Failed /\ record.hash = payload[c] /\ record # NoRecord
          /\ \A d \in Callers \ {c} : pc'[d] \notin Owning
      BY <1>1, <1>2, <2>1, ParametersAssumption DEF Guarded, OneOwner, OwnerHolds, Owning
    <2>3. OwnerHolds'
      BY <1>1, <1>3, <2>2 DEF OwnerHolds
    <2>4. Ledger'
      BY <1>1, <1>3, <2>1, <2>2
         DEF Guarded, Ledger, Owning, InProgress, Failed, Completed
    <2>5. Answered'
      BY <1>1, <2>1, <2>2 DEF Guarded, Answered, Told, Failed, Completed
    <2> QED
      BY <2>1, <2>3, <2>4, <2>5 DEF Guarded
  <1> QED
    BY <1>5, <1>6

\* on_replay finds the last purchase, or that there was none.
LEMMA ReplayKeeps ==
    ASSUME GuardInv, NEW c \in Callers, OnReplay(c), Next
    PROVE  TypeOK' /\ RowStays' /\ (~together' => Guarded')
  <1>1. /\ UNCHANGED <<record, payload, attempts, value, landed, lost, crashes, use>>
        /\ pc[c] = "replay"
        /\ pc' \in [Callers -> Points]
        /\ \A d \in Callers \ {c} : pc'[d] = pc[d]
        /\ mine' \in [Callers -> Nat]
        /\ \/ pc'[c] = "recover" /\ landed > 0 /\ mine'[c] = landed
           \/ pc'[c] = "operate" /\ landed = 0
    BY OthersStay DEF OnReplay, Next, GuardInv, TypeOK, Points
  <1>2. together' \in BOOLEAN
    BY DEF Next, Shared, GuardInv, TypeOK
  <1>3. TypeOK' /\ RowStays'
    BY <1>1, <1>2 DEF GuardInv, TypeOK, RowStays, Owning
  <1>4. ASSUME ~together' PROVE Guarded'
    <2>1. Guarded /\ OneOwner'
      BY <1>4, StillOne
    <2>2. \A d \in Callers \ {c} : pc'[d] \notin Owning
      BY <1>1, <2>1 DEF Guarded, OneOwner, Owning
    <2>3. OwnerHolds'
      BY <1>1, <2>1, <2>2 DEF Guarded, OwnerHolds, Owning
    <2>4. Ledger'
      BY <1>1, <2>1, <2>2 DEF Guarded, Ledger, Owning, GuardInv, TypeOK
    <2>5. Answered'
      BY <1>1, <2>1 DEF Guarded, Answered, Told
    <2> QED
      BY <2>1, <2>3, <2>4, <2>5 DEF Guarded
  <1> QED
    BY <1>3, <1>4

\* The owner buys, with or without an answer, or fails to.
LEMMA OperateKeeps ==
    ASSUME GuardInv, NEW c \in Callers, Operate(c), Next
    PROVE  TypeOK' /\ RowStays' /\ (~together' => Guarded')
  <1>1. /\ UNCHANGED <<record, payload, attempts, value, crashes, use>>
        /\ pc[c] = "operate"
        /\ pc' \in [Callers -> Points]
        /\ \A d \in Callers \ {c} : pc'[d] = pc[d]
        /\ mine' \in [Callers -> Nat]
        /\ \/ /\ pc'[c] = "complete" /\ mine'[c] = landed + 1
              /\ landed' = landed + 1 /\ lost' = lost
           \/ pc'[c] = "fail" /\ landed' = landed /\ lost' = lost
           \/ pc'[c] = "fail" /\ landed' = landed + 1 /\ lost' = lost + 1
    BY OthersStay DEF Operate, Next, GuardInv, TypeOK, Points
  <1>2. together' \in BOOLEAN
    BY DEF Next, Shared, GuardInv, TypeOK
  <1>3. landed' \in Nat /\ lost' \in 0..landed'
    BY <1>1 DEF GuardInv, TypeOK
  <1>4. TypeOK' /\ RowStays'
    BY <1>1, <1>2, <1>3 DEF GuardInv, TypeOK, RowStays, Owning
  <1>5. ASSUME ~together' PROVE Guarded'
    <2>1. Guarded /\ OneOwner'
      BY <1>5, StillOne
    <2>2. /\ \A d \in Callers \ {c} : pc'[d] \notin Owning
          /\ record # NoRecord /\ record.state = InProgress
          /\ landed = lost /\ landed \in Nat
      BY <1>1, <2>1
         DEF Guarded, OneOwner, OwnerHolds, Ledger, Owning, GuardInv, RowStays, TypeOK
    <2>3. OwnerHolds'
      BY <1>1, <2>1, <2>2 DEF Guarded, OwnerHolds, Owning
    <2>4. Ledger'
      BY <1>1, <2>1, <2>2 DEF Ledger, Owning, InProgress, Failed, Completed
    <2>5. Answered'
      BY <1>1, <2>1 DEF Guarded, Answered, Told
    <2> QED
      BY <2>1, <2>3, <2>4, <2>5 DEF Guarded
  <1> QED
    BY <1>4, <1>5

LEMMA RecordFailureKeeps ==
    ASSUME GuardInv, NEW c \in Callers, RecordFailure(c), Next
    PROVE  TypeOK' /\ RowStays' /\ (~together' => Guarded')
  <1>1. /\ UNCHANGED <<payload, attempts, mine, value, landed, lost, crashes, use>>
        /\ pc[c] = "fail" /\ pc'[c] = "raised"
        /\ pc' \in [Callers -> Points]
        /\ \A d \in Callers \ {c} : pc'[d] = pc[d]
    BY OthersStay DEF RecordFailure, Next, GuardInv, Points
  <1>2. record \in Record
    BY <1>1 DEF RowStays, GuardInv, TypeOK, Owning
  <1>3. /\ record' \in Record /\ record' # NoRecord
        /\ record'.state = Failed
    BY <1>2, ParametersAssumption DEF RecordFailure, Record
  <1>4. together' \in BOOLEAN
    BY DEF Next, Shared, GuardInv, TypeOK
  <1>5. TypeOK' /\ RowStays'
    BY <1>1, <1>3, <1>4 DEF GuardInv, TypeOK, RowStays
  <1>6. ASSUME ~together' PROVE Guarded'
    <2>1. Guarded /\ OneOwner'
      BY <1>6, StillOne
    <2>2. /\ \A d \in Callers : pc'[d] \notin Owning
          /\ record.state = InProgress
      BY <1>1, <2>1 DEF Guarded, OneOwner, OwnerHolds, Owning
    <2>3. OwnerHolds'
      BY <2>2 DEF OwnerHolds
    <2>4. Ledger'
      BY <1>1, <1>3, <2>1, <2>2
         DEF Guarded, Ledger, Owning, InProgress, Failed, Completed
    <2>5. Answered'
      BY <1>1, <2>1, <2>2 DEF Guarded, Answered, Told, InProgress, Completed
    <2> QED
      BY <2>1, <2>3, <2>4, <2>5 DEF Guarded
  <1> QED
    BY <1>5, <1>6

\* The result is stored and returned.
LEMMA RecordResultKeeps ==
    ASSUME GuardInv, NEW c \in Callers, RecordResult(c), Next
    PROVE  TypeOK' /\ RowStays' /\ (~together' => Guarded')
  <1>1. /\ UNCHANGED <<payload, attempts, mine, landed, lost, crashes, use>>
        /\ pc[c] \in {"recover", "complete"} /\ pc'[c] = "returned"
        /\ pc' \in [Callers -> Points]
        /\ \A d \in Callers \ {c} : pc'[d] = pc[d]
    BY OthersStay DEF RecordResult, Next, GuardInv, Points
  <1>2. record \in Record /\ mine[c] \in Nat
    BY <1>1 DEF RowStays, GuardInv, TypeOK, Owning
  <1>3. /\ Bare(mine[c]) \in Result /\ Stored(mine[c]) \in Result
        /\ Bare(mine[c]).num = mine[c] /\ Stored(mine[c]).num = mine[c]
        /\ use.scalar \/ Stored(mine[c]) = Bare(mine[c])
    BY <1>2, ResultTypes DEF GuardInv, TypeOK, Use, Bare, Stored
  <1>4. /\ record' \in Record /\ record' # NoRecord
        /\ record'.state = Completed /\ record'.hash = record.hash
        /\ record'.response.num = mine[c]
        /\ use.scalar \/ record'.response = Bare(mine[c])
    <2>1. PICK v \in Result : /\ record' = [record EXCEPT !.state = Completed, !.response = v]
                              /\ v.num = mine[c]
                              /\ use.scalar \/ v = Bare(mine[c])
      BY <1>3 DEF RecordResult
    <2> QED
      BY <1>2, <2>1, RecordTypes
  <1>5. value' = [value EXCEPT ![c] = Bare(mine[c])] /\ value' \in [Callers -> Result]
    BY <1>3 DEF RecordResult, GuardInv, TypeOK
  <1>6. together' \in BOOLEAN
    BY DEF Next, Shared, GuardInv, TypeOK
  <1>7. TypeOK' /\ RowStays'
    BY <1>1, <1>4, <1>5, <1>6 DEF GuardInv, TypeOK, RowStays
  <1>8. ASSUME ~together' PROVE Guarded'
    <2>1. Guarded /\ OneOwner'
      BY <1>8, StillOne
    <2>2. /\ \A d \in Callers : pc'[d] \notin Owning
          /\ record.state = InProgress /\ record.hash = payload[c]
          /\ mine[c] = landed /\ landed > 0
      BY <1>1, <2>1 DEF Guarded, OneOwner, OwnerHolds, Ledger, Owning, GuardInv, TypeOK
    <2>3. OwnerHolds'
      BY <2>2 DEF OwnerHolds
    <2>4. Ledger'
      BY <1>1, <1>4, <2>1, <2>2
         DEF Guarded, Ledger, Owning, InProgress, Failed, Completed, GuardInv, TypeOK
    <2>5. \A d \in Callers \ {c} : pc[d] # "returned"
      BY <2>1, <2>2 DEF Guarded, Answered, Told, InProgress, Completed
    <2>6. value'[c] = Bare(mine[c])
      BY <1>5 DEF GuardInv, TypeOK
    <2>7. Answered'
      BY <1>1, <1>3, <1>4, <2>2, <2>5, <2>6 DEF Answered, Told
    <2> QED
      BY <2>1, <2>3, <2>4, <2>7 DEF Guarded
  <1> QED
    BY <1>7, <1>8

LEMMA CrashKeeps ==
    ASSUME GuardInv, NEW c \in Callers, Crash(c), Next
    PROVE  TypeOK' /\ RowStays' /\ (~together' => Guarded')
  <1>1. /\ UNCHANGED <<record, payload, attempts, mine, value, landed, lost, use>>
        /\ pc'[c] = "dead"
        /\ pc' \in [Callers -> Points]
        /\ \A d \in Callers \ {c} : pc'[d] = pc[d]
    BY OthersStay DEF Crash, Next, GuardInv, Points
  <1>2. together' \in BOOLEAN
    BY DEF Next, Shared, GuardInv, TypeOK
  <1>3. crashes' \in 0..MaxCrashes
    BY ParametersAssumption DEF Crash, GuardInv, TypeOK
  <1>4. TypeOK' /\ RowStays'
    BY <1>1, <1>2, <1>3 DEF GuardInv, TypeOK, RowStays, Owning
  <1>5. ASSUME ~together' PROVE Guarded'
    <2>1. Guarded /\ OneOwner'
      BY <1>5, StillOne
    <2>2. OwnerHolds' /\ Ledger' /\ Answered'
      BY <1>1, <2>1 DEF Guarded, OwnerHolds, Ledger, Answered, Told, Owning
    <2> QED
      BY <2>1, <2>2 DEF Guarded
  <1> QED
    BY <1>4, <1>5

LEMMA GuardStep == GuardInv /\ [Next]_vars => GuardInv'
  <1> SUFFICES ASSUME GuardInv, [Next]_vars PROVE GuardInv'
    OBVIOUS
  <1>1. CASE UNCHANGED vars
    BY <1>1 DEF vars, GuardInv, TypeOK, RowStays, Guarded, OneOwner, OwnerHolds, Ledger,
                Answered, Told
  <1>2. CASE Next
    <2>1. PICK c \in Callers : Claim(c) \/ Step(c) \/ Crash(c)
      BY <1>2 DEF Next
    <2>2. TypeOK' /\ RowStays' /\ (~together' => Guarded')
      BY <1>2, <2>1, ClaimKeeps, ReadKeeps, ReclaimKeeps, ReplayKeeps, OperateKeeps,
         RecordFailureKeeps, RecordResultKeeps, CrashKeeps
         DEF Step
    <2> QED
      BY <2>2 DEF GuardInv
  <1> QED
    BY <1>1, <1>2

LEMMA GuardAlways == Spec => []GuardInv
  BY GuardStarts, GuardStep, PTL DEF Spec

\* The row, the calls and their results keep their types.
THEOREM TypeCorrect == Spec => []TypeOK
  <1>1. GuardInv => TypeOK
    BY DEF GuardInv
  <1> QED
    BY <1>1, GuardAlways, PTL

\* A second key is bought only after the answer to an earlier purchase was
\* lost, unless two callers own the key at once.
THEOREM BuysOnce == Spec => []OncePerLostAnswer
  <1>1. GuardInv => OncePerLostAnswer
    BY DEF GuardInv, TypeOK, Guarded, Ledger, OncePerLostAnswer
  <1> QED
    BY <1>1, GuardAlways, PTL

\* Everyone who gets a result gets the stored one, and it is a purchase that
\* happened, unless two callers own the key at once.
THEOREM AnswersAgree == Spec => []ResultsAgree
  <1>1. GuardInv => ResultsAgree
    <2> SUFFICES ASSUME GuardInv, ~together, NEW c \in Callers, pc[c] = "returned"
                 PROVE  /\ record # NoRecord
                        /\ record.state = Completed
                        /\ value[c].num = record.response.num
                        /\ value[c].num \in 1..landed
                        /\ record.hash = payload[c]
                        /\ use.scalar \/ value[c] = record.response
      BY DEF ResultsAgree
    <2>1. Told(c) /\ Ledger
      BY DEF GuardInv, Guarded, Answered
    <2> QED
      BY <2>1 DEF Told, Ledger
  <1> QED
    BY <1>1, GuardAlways, PTL

\* With a completed row there is no owner, so only the calls that leave the
\* row alone can take a step.
LEMMA CompletedStays ==
    ASSUME GuardInv, Next, ~together', record # NoRecord, record.state = Completed
    PROVE  record' = record
  <1>1. Guarded
    BY StillOne
  <1>2. \A c \in Callers : pc[c] \notin Owning
    BY <1>1 DEF Guarded, OwnerHolds, InProgress, Completed, Failed
  <1>3. PICK c \in Callers : Claim(c) \/ Step(c) \/ Crash(c)
    BY DEF Next
  <1> QED
    BY <1>2, <1>3 DEF Claim, Step, Crash, ReadExisting, Reclaim, OnReplay, Operate,
                      RecordFailure, RecordResult, Owning

\* A stored result is never replaced and its key never reopened, unless two
\* callers own it at once.
THEOREM ResultStays == Spec => ResultIsFinal
  <1>1. GuardInv /\ [Next]_vars =>
           [~together' /\ record # NoRecord /\ record.state = Completed
              => record' = record]_vars
    BY CompletedStays
  <1> QED
    BY <1>1, GuardAlways, PTL DEF Spec, ResultIsFinal
-----------------------------------------------------------------------------
(* run_once implements ExactlyOnce.                                        *)

\* The abstract state, as Promise maps it.
Settled == IF record # NoRecord /\ record.state = Completed THEN record.response.num ELSE 0
ToldOf == [c \in Callers |-> IF pc[c] = "returned" THEN value[c].num ELSE 0]

LEMMA PromiseStarts == Init => Promise!Init
  BY DEF Init, Promise!Init

\* A call that neither returns nor completes the row leaves the promise's view
\* of it as it was.
LEMMA Unseen ==
    ASSUME TypeOK, TypeOK', NEW c \in Callers,
           pc[c] # "returned", pc'[c] # "returned",
           \A d \in Callers \ {c} : pc'[d] = pc[d], value' = value
    PROVE  ToldOf' = ToldOf
  BY DEF ToldOf, TypeOK

LEMMA ToldTo ==
    ASSUME NEW c \in Callers, pc'[c] = "returned",
           \A d \in Callers \ {c} : pc'[d] = pc[d] /\ value'[d] = value[d]
    PROVE  ToldOf' = [ToldOf EXCEPT ![c] = value'[c].num]
  BY DEF ToldOf

\* A purchase under one owner is a purchase of the promise.
LEMMA OperateBuys ==
    ASSUME GuardInv, GuardInv', Next, ~together', NEW c \in Callers, Operate(c)
    PROVE  Promise!Buy \/ UNCHANGED <<landed, lost, Settled, ToldOf>>
  <1>1. Guarded
    BY StillOne
  <1>2. /\ pc[c] = "operate" /\ pc'[c] # "returned" /\ record' = record /\ value' = value
        /\ \A d \in Callers \ {c} : pc'[d] = pc[d]
    BY OthersStay DEF Operate, GuardInv, Points
  <1>3. ToldOf' = ToldOf /\ Settled' = Settled
    BY <1>2, Unseen DEF GuardInv, Settled
  <1>4. Settled = 0 /\ landed = lost
    BY <1>1, <1>2 DEF Guarded, OwnerHolds, Ledger, Owning, Settled, InProgress, Completed
  <1>5. \/ UNCHANGED <<landed, lost>>
        \/ landed' = landed + 1 /\ lost' \in {lost, lost + 1}
    BY DEF Operate
  <1> QED
    BY <1>3, <1>4, <1>5 DEF Promise!Buy, Settled, ToldOf

\* The owner's result is what the promise settles on.
LEMMA RecordSettles ==
    ASSUME GuardInv, GuardInv', Next, ~together', NEW c \in Callers, RecordResult(c)
    PROVE  Promise!Settle(c)
  <1>1. Guarded /\ Guarded'
    BY StillOne DEF GuardInv
  <1>2. /\ pc[c] \in {"recover", "complete"} /\ pc'[c] = "returned"
        /\ \A d \in Callers \ {c} : pc'[d] = pc[d]
        /\ UNCHANGED <<landed, lost>>
    BY OthersStay DEF RecordResult, GuardInv, Points
  <1>3. \A d \in Callers \ {c} : value'[d] = value[d]
    BY DEF RecordResult, GuardInv, TypeOK
  <1>4. Settled = 0
    BY <1>1, <1>2 DEF Guarded, OwnerHolds, Owning, Settled, InProgress, Completed
  <1>5. /\ record' # NoRecord /\ record'.state = Completed
        /\ value'[c].num = record'.response.num
        /\ record'.response.num \in 1..landed
    BY <1>1, <1>2 DEF Guarded, Answered, Told, Ledger
  <1>6. Settled' \in 1..landed /\ ToldOf' = [ToldOf EXCEPT ![c] = Settled']
    BY <1>2, <1>3, <1>5, ToldTo DEF Settled
  <1> QED
    BY <1>2, <1>4, <1>6 DEF Promise!Settle, Settled, ToldOf

\* A call that finds the row tells its caller of the same purchase, or nothing.
LEMMA ReadTells ==
    ASSUME GuardInv, GuardInv', Next, ~together', NEW c \in Callers, ReadExisting(c)
    PROVE  Promise!Tell(c) \/ UNCHANGED <<landed, lost, Settled, ToldOf>>
  <1>1. Guarded /\ Guarded'
    BY StillOne DEF GuardInv
  <1>2. /\ pc[c] = "read"
        /\ \A d \in Callers \ {c} : pc'[d] = pc[d]
        /\ UNCHANGED <<record, landed, lost>>
        /\ \/ pc'[c] # "returned" /\ value' = value
           \/ /\ pc'[c] = "returned"
              /\ value' = [value EXCEPT ![c] = record.response]
    BY OthersStay DEF ReadExisting, GuardInv, Points
  <1>3. Settled' = Settled
    BY <1>2 DEF Settled
  <1>4. CASE pc'[c] # "returned" /\ value' = value
    BY <1>2, <1>3, <1>4, Unseen DEF GuardInv
  <1>5. CASE pc'[c] = "returned" /\ value' = [value EXCEPT ![c] = record.response]
    <2>1. \A d \in Callers \ {c} : value'[d] = value[d]
      BY <1>5 DEF GuardInv, TypeOK
    <2>2. /\ record # NoRecord /\ record.state = Completed
          /\ value'[c].num = record.response.num
          /\ record.response.num \in 1..landed
      BY <1>1, <1>2, <1>5 DEF Guarded, Answered, Told, Ledger
    <2>3. Settled # 0 /\ ToldOf' = [ToldOf EXCEPT ![c] = Settled]
      BY <1>2, <1>5, <2>1, <2>2, ToldTo DEF Settled
    <2> QED
      BY <1>2, <1>3, <2>3 DEF Promise!Tell, Settled, ToldOf
  <1> QED
    BY <1>2, <1>4, <1>5

\* The other steps are not seen.
LEMMA OthersUnseen ==
    ASSUME GuardInv, GuardInv', Next, ~together', NEW c \in Callers,
           Claim(c) \/ Reclaim(c) \/ OnReplay(c) \/ RecordFailure(c) \/ Crash(c)
    PROVE  UNCHANGED <<landed, lost, Settled, ToldOf>>
  <1>1. Guarded
    BY StillOne
  <1>2. /\ pc[c] # "returned" /\ pc'[c] # "returned" /\ value' = value
        /\ \A d \in Callers \ {c} : pc'[d] = pc[d]
        /\ UNCHANGED <<landed, lost>>
    BY OthersStay DEF Claim, MayCall, Reclaim, OnReplay, RecordFailure, Crash, Running,
                      GuardInv, Points
  <1>3. ToldOf' = ToldOf
    BY <1>2, Unseen DEF GuardInv
  <1>4. CASE record # NoRecord /\ record.state = Completed
    <2>1. record' = record
      BY <1>4, CompletedStays
    <2> QED
      BY <1>2, <1>3, <2>1 DEF Settled
  <1>5. CASE ~(record # NoRecord /\ record.state = Completed)
    <2>1. Settled = 0
      BY <1>5 DEF Settled
    <2>2. record' = record \/ record'.state \in {InProgress, Failed}
      <3>1. CASE Claim(c) \/ OnReplay(c) \/ Crash(c)
        BY <3>1 DEF Claim, OnReplay, Crash
      <3>2. CASE Reclaim(c) \/ RecordFailure(c)
        <4>1. record \in Record
          BY <3>2 DEF Reclaim, RecordFailure, GuardInv, RowStays, TypeOK, Owning
        <4> QED
          BY <3>2, <4>1 DEF Reclaim, RecordFailure, Record
      <3> QED
        BY <3>1, <3>2
    <2>3. Settled' = 0
      BY <1>5, <2>2 DEF Settled, InProgress, Failed, Completed
    <2> QED
      BY <1>2, <1>3, <2>1, <2>3
  <1> QED
    BY <1>4, <1>5

\* Every step of a call is a step of the promise or is not seen by it.
LEMMA PromiseStep == GuardInv /\ GuardInv' /\ [Next]_vars => [Promise!Next]_(Promise!vars)
  <1> SUFFICES ASSUME GuardInv, GuardInv', [Next]_vars
               PROVE  [Promise!Next]_(Promise!vars)
    OBVIOUS
  <1>1. CASE UNCHANGED vars
    BY <1>1 DEF vars, Promise!vars
  <1>2. CASE Next /\ together'
    BY <1>2 DEF Promise!Next
  <1>3. CASE Next /\ ~together'
    <2>1. ~together
      BY <1>3 DEF Next, GuardInv, TypeOK
    <2>2. PICK c \in Callers : Claim(c) \/ Step(c) \/ Crash(c)
      BY <1>3 DEF Next
    <2>3. \/ UNCHANGED <<landed, lost, Settled, ToldOf>>
          \/ Promise!Buy \/ Promise!Settle(c) \/ Promise!Tell(c)
      BY <1>3, <2>2, OperateBuys, RecordSettles, ReadTells, OthersUnseen DEF Step
    <2>4. CASE UNCHANGED <<landed, lost, Settled, ToldOf>>
      BY <1>3, <2>1, <2>4 DEF Promise!vars, Settled, ToldOf
    <2>5. CASE Promise!Buy \/ Promise!Settle(c) \/ Promise!Tell(c)
      BY <1>3, <2>1, <2>5 DEF Promise!Next
    <2> QED
      BY <2>3, <2>4, <2>5
  <1> QED
    BY <1>1, <1>2, <1>3

\* run_once implements the abstract exactly-once guard: every behaviour of its
\* claims, refusals, retries, replays and crashes is one that ExactlyOnce
\* allows.
THEOREM Implements == Spec => KeepsPromise
  BY GuardAlways, PromiseStarts, PromiseStep, PTL DEF Spec, KeepsPromise, Promise!Spec
-----------------------------------------------------------------------------
(* The scheduler's fixed delay (Worker). *)

LEMMA JobsType ==
    /\ Len(Jobs) \in Nat
    /\ \A i \in 1..Len(Jobs) : Jobs[i] \in Names
    /\ \A i, j \in 1..Len(Jobs) : Jobs[i] = Jobs[j] => i = j
    /\ Interval \in [Names -> Nat \ {0}]
    /\ Delay \in [Names -> Nat]
    /\ MaxDuration \in Nat
  BY JobsAssumption DEF Names

\* What a job has rested and what it has still to wait fill its interval.
Rested == \A j \in Names : rest[j] + wait[j] >= Interval[j]

\* A job that this tick found due and has not come to yet has nothing to wait:
\* the list holds every job once.
StillDue ==
    step \in {"tick", "run"} =>
       \A i \in 1..Len(Jobs) : i >= place /\ Jobs[i] \in due => wait[Jobs[i]] = 0

\* The position is inside the list while a job runs, and the job was due.
InList ==
    /\ step = "run" => place <= Len(Jobs)
    /\ step \in {"sleep", "stopped"} => place = 1

WorkerInv == LoopTypeOK /\ Rested /\ StillDue /\ InList

LEMMA WorkerStarts == LoopInit => WorkerInv
  <1> SUFFICES ASSUME LoopInit PROVE WorkerInv
    OBVIOUS
  <1> USE JobsType DEF LoopInit
  <1>1. LoopTypeOK
    <2>1. wait \in [Names -> Nat] /\ rest \in [Names -> Nat] /\ lasted \in 0..MaxDuration
      OBVIOUS
    <2>2. place \in 1..(Len(Jobs) + 1)
      OBVIOUS
    <2> QED
      BY <2>1, <2>2 DEF LoopTypeOK
  <1>2. Rested
    BY DEF Rested
  <1>3. StillDue /\ InList
    BY DEF StillDue, InList
  <1> QED
    BY <1>1, <1>2, <1>3 DEF WorkerInv

\* A unit of time is taken off what a job waits and added to what it rested.
LEMMA PassesKeeps ==
    ASSUME WorkerInv, Passes
    PROVE  /\ wait' \in [Names -> Nat] /\ rest' \in [Names -> Nat]
           /\ Rested'
           /\ \A j \in Names : wait[j] = 0 => wait'[j] = 0
  <1>1. ASSUME NEW j \in Names
        PROVE  /\ wait'[j] \in Nat /\ rest'[j] \in Nat
               /\ rest'[j] + wait'[j] >= Interval[j]
               /\ wait[j] = 0 => wait'[j] = 0
    <2>1. /\ wait[j] \in Nat /\ rest[j] \in Nat /\ Interval[j] \in Nat
          /\ rest[j] + wait[j] >= Interval[j]
      BY JobsType DEF WorkerInv, LoopTypeOK, Rested
    <2>2. /\ wait'[j] = IF wait[j] > 0 THEN wait[j] - 1 ELSE 0
          /\ rest'[j] = IF rest[j] < Interval[j] THEN rest[j] + 1 ELSE rest[j]
      BY DEF Passes
    <2> QED
      BY <2>1, <2>2
  <1>2. wait' = [j \in Names |-> wait'[j]] /\ rest' = [j \in Names |-> rest'[j]]
    BY DEF Passes
  <1> QED
    BY <1>1, <1>2 DEF Rested

LEMMA TickKeeps == ASSUME WorkerInv, Tick PROVE WorkerInv'
  <1>1. LoopTypeOK'
    BY JobsType DEF WorkerInv, LoopTypeOK, Tick
  <1>2. Rested' /\ InList'
    BY DEF WorkerInv, Rested, InList, Tick
  <1>3. StillDue'
    BY DEF StillDue, Tick
  <1> QED
    BY <1>1, <1>2, <1>3 DEF WorkerInv

LEMMA SkipKeeps == ASSUME WorkerInv, Skip PROVE WorkerInv'
  <1>1. LoopTypeOK'
    BY JobsType DEF WorkerInv, LoopTypeOK, Skip
  <1>2. Rested' /\ InList'
    BY DEF WorkerInv, Rested, InList, Skip
  <1>3. StillDue'
    BY JobsType DEF WorkerInv, LoopTypeOK, StillDue, Skip
  <1> QED
    BY <1>1, <1>2, <1>3 DEF WorkerInv

LEMMA StartJobKeeps == ASSUME WorkerInv, StartJob PROVE WorkerInv'
  <1>1. place \in 1..Len(Jobs) /\ Job \in Names
    BY JobsType DEF WorkerInv, LoopTypeOK, StartJob, Job
  <1>2. LoopTypeOK'
    BY <1>1, JobsType DEF WorkerInv, LoopTypeOK, StartJob, Job
  <1>3. Rested' /\ InList' /\ StillDue'
    BY <1>1 DEF WorkerInv, Rested, InList, StillDue, StartJob
  <1> QED
    BY <1>2, <1>3 DEF WorkerInv

LEMMA WorkKeeps == ASSUME WorkerInv, Work PROVE WorkerInv'
  <1>1. /\ wait' \in [Names -> Nat] /\ rest' \in [Names -> Nat] /\ Rested'
        /\ \A j \in Names : wait[j] = 0 => wait'[j] = 0
    BY PassesKeeps DEF Work
  <1>2. LoopTypeOK'
    BY <1>1, JobsType DEF WorkerInv, LoopTypeOK, Work
  <1>3. InList' /\ StillDue'
    BY <1>1, JobsType DEF WorkerInv, InList, StillDue, Work
  <1> QED
    BY <1>1, <1>2, <1>3 DEF WorkerInv

\* The job's interval starts when it ends; the jobs further down are others.
LEMMA EndJobKeeps == ASSUME WorkerInv, NEW ok \in BOOLEAN, EndJob(ok) PROVE WorkerInv'
  <1>1. /\ place \in 1..Len(Jobs) /\ Job \in Names /\ Interval[Job] \in Nat
        /\ place' = place + 1 /\ step' = "tick" /\ due' = due
    <2>1. place \in 1..Len(Jobs) /\ place' = place + 1 /\ step' = "tick" /\ due' = due
      BY JobsType DEF WorkerInv, LoopTypeOK, InList, EndJob
    <2>2. Job \in Names
      BY <2>1, JobsType DEF Job
    <2> QED
      BY <2>1, <2>2, JobsType
  <1>2. wait' \in [Names -> Nat] /\ rest' \in [Names -> Nat]
    BY <1>1 DEF WorkerInv, LoopTypeOK, EndJob, ScheduleNext
  <1>3. running' \in [Names -> BOOLEAN] /\ \A j \in Names : ~running'[j]
    BY <1>1 DEF WorkerInv, LoopTypeOK, EndJob, Release, Job
  <1>4. LoopTypeOK'
    BY <1>1, <1>2, <1>3, JobsType DEF WorkerInv, LoopTypeOK, EndJob
  <1>5. Rested'
    <2> SUFFICES ASSUME NEW j \in Names PROVE rest'[j] + wait'[j] >= Interval[j]
      BY DEF Rested
    <2>1. CASE j = Job
      BY <1>1, <2>1 DEF WorkerInv, LoopTypeOK, EndJob, ScheduleNext
    <2>2. CASE j # Job
      BY <1>1, <2>2 DEF WorkerInv, LoopTypeOK, Rested, EndJob, ScheduleNext
    <2> QED
      BY <2>1, <2>2
  <1>6. StillDue'
    <2> SUFFICES ASSUME NEW i \in 1..Len(Jobs), i >= place', Jobs[i] \in due'
                 PROVE  wait'[Jobs[i]] = 0
      BY DEF StillDue
    <2>1. i > place /\ Jobs[i] # Job /\ Jobs[i] \in Names
      BY <1>1, JobsType DEF Job
    <2>2. wait[Jobs[i]] = 0
      BY <1>1, <2>1 DEF WorkerInv, StillDue, EndJob
    <2> QED
      BY <1>1, <2>1, <2>2 DEF WorkerInv, LoopTypeOK, EndJob, ScheduleNext
  <1>7. InList'
    BY <1>1 DEF InList
  <1> QED
    BY <1>4, <1>5, <1>6, <1>7 DEF WorkerInv

LEMMA SleepKeeps == ASSUME WorkerInv, Sleep PROVE WorkerInv'
  <1>1. wait' \in [Names -> Nat] /\ rest' \in [Names -> Nat] /\ Rested'
    BY PassesKeeps DEF Sleep
  <1>2. LoopTypeOK'
    BY <1>1, JobsType DEF WorkerInv, LoopTypeOK, Sleep
  <1>3. InList' /\ StillDue'
    BY DEF InList, StillDue, Sleep
  <1> QED
    BY <1>1, <1>2, <1>3 DEF WorkerInv

LEMMA StopKeeps == ASSUME WorkerInv, Stop \/ RequestStop PROVE WorkerInv'
  BY DEF WorkerInv, LoopTypeOK, Rested, StillDue, InList, Stop, RequestStop

LEMMA WorkerStep == WorkerInv /\ [LoopNext]_loopVars => WorkerInv'
  <1> SUFFICES ASSUME WorkerInv, [LoopNext]_loopVars PROVE WorkerInv'
    OBVIOUS
  <1>1. CASE UNCHANGED loopVars
    BY <1>1 DEF loopVars, WorkerInv, LoopTypeOK, Rested, StillDue, InList
  <1> QED
    BY <1>1, TickKeeps, SkipKeeps, StartJobKeeps, WorkKeeps, EndJobKeeps, SleepKeeps,
       StopKeeps
       DEF LoopNext, Loop

LEMMA WorkerAlways == LoopSpec => []WorkerInv
  BY WorkerStarts, WorkerStep, PTL DEF LoopSpec

\* The scheduler's state keeps its type, and only the job in progress is marked
\* as running.
THEOREM LoopTypeCorrect == LoopSpec => []LoopTypeOK
  <1>1. WorkerInv => LoopTypeOK
    BY DEF WorkerInv
  <1> QED
    BY <1>1, WorkerAlways, PTL

\* "Fixed delay from completion": a job that starts has rested its whole
\* interval since it last ended, however long the others took.
THEOREM FixedDelay == LoopSpec => RestsBetweenRuns
  <1>1. WorkerInv /\ [LoopNext]_loopVars =>
           [\A j \in Names : ~running[j] /\ running'[j] => rest[j] >= Interval[j]]_loopVars
    <2> SUFFICES ASSUME WorkerInv, LoopNext, NEW j \in Names, ~running[j], running'[j]
                 PROVE  rest[j] >= Interval[j]
      OBVIOUS
    <2>1. StartJob /\ j = Job
      BY DEF WorkerInv, LoopTypeOK, LoopNext, Loop, Tick, Skip, StartJob, Work, EndJob,
             Release, Sleep, Stop, RequestStop
    <2>2. /\ place \in 1..Len(Jobs) /\ Job \in due
      BY <2>1, JobsType DEF WorkerInv, LoopTypeOK, StartJob
    <2>3. wait[j] = 0
      BY <2>1, <2>2 DEF WorkerInv, StillDue, StartJob, Job
    <2>4. rest[j] + wait[j] >= Interval[j] /\ rest[j] \in Nat
      BY DEF WorkerInv, Rested, LoopTypeOK
    <2> QED
      BY <2>3, <2>4, JobsType
  <1> QED
    BY <1>1, WorkerAlways, PTL DEF LoopSpec, RestsBetweenRuns
=============================================================================
