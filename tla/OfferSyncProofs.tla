-------------------------- MODULE OfferSyncProofs --------------------------
(***************************************************************************)
(* Proofs about OfferSync, for every set of products and prices, every     *)
(* budget, window and run length: type correctness and the budget under    *)
(* every set of injected faults, what is pushed and created under those    *)
(* that leave no write in doubt.                                           *)
(***************************************************************************)
EXTENDS OfferSync, FiniteSetTheorems, TLAPS

(* Where the run stands: a step that makes a call has its product, and from *)
(* the start of a run to its end the plan holds a desired offer for each.   *)
Calling == {"get_job", "list", "create", "update"}
Planned == Calling \cup {"loop", "reconcile"}

PointOK ==
    /\ at.step \in Calling => at.prod \in Products
    /\ at.step \in Planned => plan \in [Products -> Offer]

TypeInv == TypeOK /\ PointOK

-----------------------------------------------------------------------------
(* The helpers return what their names promise. *)

\* _desired computes a well-formed offer from any supplier row.
LEMMA DesiredType ==
  ASSUME NEW w \in [price : Prices, stock : Stocks]
  PROVE  Desired(w) \in Offer
<1> DEFINE stock == IF w.stock > InventoryCap THEN InventoryCap ELSE w.stock
           active == stock > 0
<1>1. stock \in Nat
  BY BoundsAssumption, DataAssumption
<1>2. active \in BOOLEAN
  BY <1>1
<1>3. Desired(w) = [price |-> w.price, inv |-> stock, active |-> active]
  BY DEF Desired
<1> HIDE DEF stock, active
<1> QED BY <1>1, <1>2, <1>3 DEF Offer

\* _remember keeps a row a row.
LEMMA RememberType ==
  ASSUME NEW row \in Row, NEW offer \in Offer, NEW keep \in BOOLEAN
  PROVE  Remember(row, offer, keep) \in Row
<1> DEFINE pushed == [price  |-> IF keep THEN row.pushed.price ELSE offer.price,
                      inv    |-> offer.inv,
                      active |-> offer.active]
           state == LiveState(offer.active)
<1>1. pushed \in Pushed
  BY DEF Row, Pushed, Offer
<1>2. state \in States
  BY DEF LiveState, States
<1>3. Remember(row, offer, keep) =
        [row EXCEPT !.pushed = pushed, !.state = state, !.fails = 0]
  BY DEF Remember
<1>4. 0 \in 0..FailLimit
  BY BoundsAssumption
<1> HIDE DEF pushed, state
<1>5. [row EXCEPT !.pushed = pushed, !.state = state, !.fails = 0] \in Row
  BY <1>1, <1>2, <1>4 DEF Row
<1> QED BY <1>3, <1>5, Zenon

\* Forgetting a failed push keeps a row a row.
LEMMA ForgetType ==
  ASSUME NEW row \in Row
  PROVE  Forget(row) \in Row
BY BoundsAssumption DEF Forget, NothingPushed, Row, Pushed, States

\* Counting a failure keeps a row a row.
LEMMA FailedType ==
  ASSUME NEW row \in Row
  PROVE  Failed(row) \in Row
<1> DEFINE n == IF row.fails < FailLimit THEN row.fails + 1 ELSE FailLimit
           state == IF n >= FailLimit THEN "failed" ELSE row.state
<1>1. n \in 0..FailLimit
  BY BoundsAssumption DEF Row
<1>2. state \in States
  BY DEF Row, States
<1>3. Failed(row) = [row EXCEPT !.fails = n, !.state = state]
  BY DEF Failed
<1> HIDE DEF n, state
<1> QED BY <1>1, <1>2, <1>3 DEF Row

\* Aging keeps stamps stamps.
LEMMA OneOlderType ==
  ASSUME NEW stamps \in SUBSET Stamp
  PROVE  OneOlder(stamps) \subseteq Stamp
BY BoundsAssumption DEF OneOlder, Stamp, Ages

\* An accepted write leaves a well-formed job list, one longer.
LEMMA QueueType ==
  ASSUME jobs \in Seq(Job), NEW p \in Products, NEW kind \in {"create", "update"},
         NEW set \in SUBSET Fields, NEW val \in Offer
  PROVE  /\ Queue(p, kind, set, val) \in Seq(Job)
         /\ Len(Queue(p, kind, set, val)) = Len(jobs) + 1
<1> DEFINE job == [prod |-> p, kind |-> kind, set |-> set, val |-> val,
                   status |-> "queued"]
<1>1. job \in Job
  BY DEF Job
<1>2. Queue(p, kind, set, val) = Append(jobs, job)
  BY DEF Queue
<1> HIDE DEF job
<1> QED BY <1>1, <1>2

\* Changing the status of a job leaves a well-formed job list.
LEMMA JobStatusType ==
  ASSUME NEW s \in Seq(Job), NEW j \in DOMAIN s, NEW st \in {"complete", "failed"}
  PROVE  /\ s[j] \in Job
         /\ s[j].prod \in Products
         /\ s[j].val \in Offer
         /\ [s EXCEPT ![j].status = st] \in Seq(Job)
<1>1. s[j] \in Job
  OBVIOUS
<1>2. [s[j] EXCEPT !.status = st] \in Job /\ s[j].prod \in Products /\ s[j].val \in Offer
  BY <1>1 DEF Job
<1> QED BY <1>1, <1>2

\* A price change is recorded as a well-formed row.
LEMMA RecordedType ==
  ASSUME txlog \subseteq Stamp, elapsed \in 0..MaxRun,
         NEW p \in Products, NEW id \in Nat
  PROVE  Recorded(p, id) \subseteq Stamp
BY BoundsAssumption DEF Recorded, Stamp, Ages

-----------------------------------------------------------------------------
(* The pieces that the actions of a run are made of.  RunTyped is what they *)
(* say about the session and the point the run has reached.                 *)

RunTyped ==
    /\ tx \in [Products -> Row]
    /\ txlog \subseteq Stamp
    /\ at \in Point
    /\ todo \subseteq Products
    /\ at.step \in Calling => at.prod \in Products

\* Leaving a product returns to the loop.
LEMMA FinishType ==
  ASSUME TypeInv, NEW p \in Products, NEW row \in Row, Finish(p, row)
  PROVE  /\ tx' \in [Products -> Row]
         /\ todo' \subseteq Products
         /\ at' \in Point
         /\ at'.step = "loop"
BY DEF TypeInv, TypeOK, Finish, Looping, Idle, Point, Steps, Origins

\* Going on with a product names the call and the product.
LEMMA ProceedType ==
  ASSUME TypeInv, NEW p \in Products, NEW row \in Row,
         NEW step \in Calling, NEW origin \in Origins, NEW changed \in SUBSET Fields,
         Proceed(p, row, step, origin, changed)
  PROVE  /\ tx' \in [Products -> Row]
         /\ todo' \subseteq Products
         /\ at' \in Point
         /\ at'.step = step
         /\ at'.prod = p
BY DEF TypeInv, TypeOK, Proceed, Point, Steps, Origins, Calling

\* An injected failure is counted within its bound.
LEMMA InjectType ==
  ASSUME TypeInv, NEW kind, Inject(kind)
  PROVE  faults' \in 0..MaxFaults
BY BoundsAssumption DEF TypeInv, TypeOK, Inject

\* A change by the supplier or the operator is counted within its bound.
LEMMA ChangeType ==
  ASSUME TypeInv, Change
  PROVE  changes' \in 0..MaxChanges
BY BoundsAssumption DEF TypeInv, TypeOK, Change

\* The exception handlers leave the session well-formed.
LEMMA CallFailsType ==
  ASSUME TypeInv, NEW p \in Products, CallFails(p), UNCHANGED txlog
  PROVE  RunTyped' /\ at'.step = "loop" /\ faults' \in 0..MaxFaults
<1>1. tx[p] \in Row /\ txlog \subseteq Stamp
  BY DEF TypeInv, TypeOK
<1>2. Failed(tx[p]) \in Row
  BY <1>1, FailedType
<1>3. faults' \in 0..MaxFaults
  BY InjectType DEF CallFails
<1>4. /\ tx' \in [Products -> Row]
      /\ todo' \subseteq Products
      /\ at' \in Point
      /\ at'.step = "loop"
  BY <1>1, <1>2, FinishType DEF CallFails
<1> QED BY <1>1, <1>3, <1>4 DEF RunTyped, Calling

\* The three callers of _resolve_offer_id leave the session well-formed.
LEMMA AfterResolveType ==
  ASSUME TypeInv, at.step \in Calling, NEW row \in Row, NEW resolved \in BOOLEAN,
         AfterResolve(at.prod, row, resolved)
  PROVE  RunTyped' /\ at'.step \in {"loop", "update"}
<1> DEFINE p == at.prod
<1>1. p \in Products /\ plan[p] \in Offer /\ at.changed \in SUBSET Fields
  BY DEF TypeInv, TypeOK, PointOK, Planned, Point
<1>2. Len(jobs) \in Nat /\ txlog \subseteq Stamp /\ elapsed \in 0..MaxRun
  BY DEF TypeInv, TypeOK
<1>3. Remember(row, plan[p], FALSE) \in Row /\ Failed(row) \in Row
  BY <1>1, RememberType, FailedType
<1>4. Recorded(p, Len(jobs)) \subseteq Stamp
  BY <1>1, <1>2, RecordedType
<1>5. txlog' \subseteq Stamp
  BY <1>2, <1>4 DEF AfterResolve
<1>6. \/ \E r \in Row : Finish(p, r)
      \/ \E o \in Origins, c \in SUBSET Fields : Proceed(p, row, "update", o, c)
  BY <1>1, <1>3 DEF AfterResolve, Origins
<1>7. CASE \E r \in Row : Finish(p, r)
  BY <1>1, <1>5, <1>7, FinishType DEF RunTyped, Calling
<1>8. CASE \E o \in Origins, c \in SUBSET Fields : Proceed(p, row, "update", o, c)
  <2>1. "update" \in Calling
    BY DEF Calling
  <2> QED BY <1>1, <1>5, <1>8, <2>1, ProceedType DEF RunTyped
<1> QED BY <1>6, <1>7, <1>8

-----------------------------------------------------------------------------
(* Type correctness. *)

\* The initial states are well-formed.
LEMMA TypeInit == Init => TypeInv
<1> SUFFICES ASSUME Init PROVE TypeInv
  OBVIOUS
<1>1. BlankRow \in Row
  BY BoundsAssumption DEF BlankRow, NothingPushed, Row, Pushed, States
<1>2. want \in [Products -> [price : Prices, stock : Stocks]]
  BY DEF Init
<1>3. remote \in [Products -> Offer \cup {NoOffer}]
  <2> DEFINE stocks == {0}
             flags == {FALSE}
  <2>0. stocks \subseteq Nat /\ flags \subseteq BOOLEAN
    OBVIOUS
  <2> HIDE DEF stocks, flags
  <2>1. [price : Prices, inv : stocks, active : flags] \subseteq Offer
    BY <2>0 DEF Offer
  <2> USE DEF stocks, flags
  <2> QED BY <2>1 DEF Init
<1>4. at \in Point /\ at.step = "idle"
  BY DEF Init, Idle, Point, Steps, Origins
<1>5. 0 \in 0..MaxRun /\ 0 \in 0..MaxFaults /\ 0 \in 0..MaxChanges
  BY BoundsAssumption
<1>6. db \in [Products -> Row] /\ tx \in [Products -> Row]
  BY <1>1 DEF Init
<1>7. plan \in [Products -> Offer \cup {NoOffer}] /\ jobs \in Seq(Job)
  BY DEF Init
<1> QED
  BY <1>2, <1>3, <1>4, <1>5, <1>6, <1>7
     DEF Init, TypeInv, TypeOK, PointOK, Calling, Planned

\* A step of a run that leaves the session, the store and the ghosts
\* well-formed keeps everything well-formed.
LEMMA RunStepType ==
  ASSUME TypeInv, RunTyped', at.step \in Planned,
         jobs' \in Seq(Job), remote' \in [Products -> Offer \cup {NoOffer}],
         sends' \subseteq Stamp, orphans' \subseteq Nat, faults' \in 0..MaxFaults,
         UNCHANGED <<want, syncable, db, log, plan, elapsed, overtaken, changes>>
  PROVE  TypeInv'
BY DEF TypeInv, TypeOK, PointOK, RunTyped

\* Every step keeps the state well-formed.
LEMMA TypeStep == TypeInv /\ [Next]_vars => TypeInv'
<1> SUFFICES ASSUME TypeInv, [Next]_vars PROVE TypeInv'
  OBVIOUS
<1> USE DEF supplierVars, storeVars, dbVars, runVars, ghostVars, boundVars
<1>0. ASSUME UNCHANGED vars PROVE TypeInv'
  BY <1>0 DEF vars, TypeInv, TypeOK, PointOK
<1>1. ASSUME NEW p \in Products, ChangeWant(p) PROVE TypeInv'
  BY <1>1, ChangeType DEF ChangeWant, TypeInv, TypeOK, PointOK
<1>2. ASSUME NEW p \in Products, ToggleSyncable(p) PROVE TypeInv'
  BY <1>2, ChangeType DEF ToggleSyncable, TypeInv, TypeOK, PointOK
<1>3. ASSUME Tick PROVE TypeInv'
  <2>1. log' \subseteq Stamp /\ txlog' \subseteq Stamp /\ sends' \subseteq Stamp
    BY <1>3, OneOlderType DEF Tick, TypeInv, TypeOK
  <2>2. elapsed' \in 0..MaxRun
    BY <1>3, BoundsAssumption DEF Tick, TypeInv, TypeOK
  <2> QED BY <1>3, <2>1, <2>2 DEF Tick, TypeInv, TypeOK, PointOK
<1>4. ASSUME NEW j \in DOMAIN jobs, JobCompletes(j) PROVE TypeInv'
  <2>1. jobs[j] \in Job /\ jobs[j].prod \in Products /\ jobs[j].val \in Offer
    BY JobStatusType DEF TypeInv, TypeOK
  <2>2. jobs' \in Seq(Job)
    BY <1>4, JobStatusType DEF JobCompletes, TypeInv, TypeOK
  <2>3. remote' \in [Products -> Offer \cup {NoOffer}]
    <3> DEFINE p == jobs[j].prod
    <3>1. remote[p] # NoOffer => Overlay(remote[p], jobs[j]) \in Offer
      BY <2>1 DEF Overlay, Offer, TypeInv, TypeOK
    <3> QED BY <1>4, <2>1, <3>1 DEF JobCompletes, TypeInv, TypeOK
  <2>4. overtaken' \in [Products -> SUBSET Fields]
    <3>1. jobs[j].set \subseteq Fields
      BY <2>1 DEF Job
    <3>2. Late(j) \subseteq Fields
      BY <3>1 DEF Late
    <3>3. overtaken \in [Products -> SUBSET Fields]
      BY DEF TypeInv, TypeOK
    <3>4. overtaken' \in {overtaken, [overtaken EXCEPT ![jobs[j].prod] =
                                         (@ \ jobs[j].set) \cup Late(j)]}
      BY <1>4, Zenon DEF JobCompletes
    <3> QED BY <2>1, <3>2, <3>3, <3>4
  <2> QED BY <1>4, <2>2, <2>3, <2>4 DEF JobCompletes, TypeInv, TypeOK, PointOK
<1>5. ASSUME NEW j \in DOMAIN jobs, JobFails(j) PROVE TypeInv'
  <2>1. jobs' \in Seq(Job)
    BY <1>5, JobStatusType DEF JobFails, TypeInv, TypeOK
  <2> QED BY <1>5, <2>1, InjectType DEF JobFails, TypeInv, TypeOK, PointOK
<1>6. ASSUME StartRun PROVE TypeInv'
  <2>1. plan' \in [Products -> Offer]
    BY <1>6, DesiredType DEF StartRun, TypeInv, TypeOK
  <2>2. at' \in Point /\ at'.step = "loop"
    BY <1>6 DEF StartRun, Looping, Idle, Point, Steps, Origins
  <2> QED
    BY <1>6, <2>1, <2>2 DEF StartRun, TypeInv, TypeOK, PointOK, Calling, Planned
<1>7. ASSUME NEW p \in Products, SkipUnchanged(p) PROVE TypeInv'
  <2>1. tx[p] \in Row /\ at.step \in Planned
    BY <1>7 DEF SkipUnchanged, TypeInv, TypeOK, Planned
  <2>2. RunTyped'
    BY <1>7, <2>1, FinishType DEF SkipUnchanged, RunTyped, Calling, TypeInv, TypeOK
  <2>3. /\ jobs' \in Seq(Job) /\ remote' \in [Products -> Offer \cup {NoOffer}]
        /\ sends' \subseteq Stamp /\ orphans' \subseteq Nat /\ faults' \in 0..MaxFaults
    BY <1>7 DEF SkipUnchanged, TypeInv, TypeOK
  <2> QED BY <1>7, <2>1, <2>2, <2>3, RunStepType DEF SkipUnchanged
<1>8. ASSUME NEW p \in Products, SyncOne(p) PROVE TypeInv'
  <2>1. tx[p] \in Row /\ at.step \in Planned
    BY <1>8 DEF SyncOne, TypeInv, TypeOK, Planned
  <2>2. PICK step \in Calling, c \in SUBSET Fields : Proceed(p, tx[p], step, "sync", c)
    BY <1>8 DEF SyncOne, Calling, Differences
  <2>3. RunTyped'
    BY <1>8, <2>1, <2>2, ProceedType
       DEF SyncOne, RunTyped, Origins, TypeInv, TypeOK
  <2>4. /\ jobs' \in Seq(Job) /\ remote' \in [Products -> Offer \cup {NoOffer}]
        /\ sends' \subseteq Stamp /\ orphans' \subseteq Nat /\ faults' \in 0..MaxFaults
    BY <1>8 DEF SyncOne, TypeInv, TypeOK
  <2> QED BY <1>8, <2>1, <2>3, <2>4, RunStepType DEF SyncOne
<1>9. ASSUME ResolveByJob PROVE TypeInv'
  <2> DEFINE p == at.prod
             row == tx[p]
  <2>1. at.step \in Calling /\ at.step \in Planned /\ p \in Products /\ row \in Row
    BY <1>9 DEF ResolveByJob, TypeInv, TypeOK, PointOK, Calling, Planned
  <2>2. /\ Forget(row) \in Row
        /\ [row EXCEPT !.pending = 0, !.ext = TRUE] \in Row
        /\ [row EXCEPT !.pending = 0] \in Row
    BY <2>1, ForgetType DEF Row
  <2>3. RunTyped'
    <3>1. \/ \E r \in Row, b \in BOOLEAN : AfterResolve(p, r, b)
          \/ /\ Proceed(p, [row EXCEPT !.pending = 0], "list", at.origin, at.changed)
             /\ UNCHANGED txlog
      BY <1>9, <2>1, <2>2 DEF ResolveByJob
    <3>2. CASE \E r \in Row, b \in BOOLEAN : AfterResolve(p, r, b)
      BY <2>1, <3>2, AfterResolveType
    <3>3. CASE /\ Proceed(p, [row EXCEPT !.pending = 0], "list", at.origin, at.changed)
               /\ UNCHANGED txlog
      <4>1. "list" \in Calling /\ at.origin \in Origins /\ at.changed \in SUBSET Fields
        BY DEF Calling, TypeInv, TypeOK, Point
      <4> QED BY <2>1, <2>2, <3>3, <4>1, ProceedType DEF RunTyped, TypeInv, TypeOK
    <3> QED BY <3>1, <3>2, <3>3
  <2>4. faults' \in 0..MaxFaults
    BY <1>9, InjectType DEF ResolveByJob, TypeInv, TypeOK
  <2>5. /\ jobs' \in Seq(Job) /\ remote' \in [Products -> Offer \cup {NoOffer}]
        /\ sends' \subseteq Stamp /\ orphans' \subseteq Nat
    BY <1>9 DEF ResolveByJob, TypeInv, TypeOK
  <2> QED BY <1>9, <2>1, <2>3, <2>4, <2>5, RunStepType DEF ResolveByJob
<1>10. ASSUME ResolveByProduct PROVE TypeInv'
  <2> DEFINE p == at.prod
             row == tx[p]
  <2>1. at.step \in Calling /\ at.step \in Planned /\ p \in Products /\ row \in Row
    BY <1>10 DEF ResolveByProduct, TypeInv, TypeOK, PointOK, Calling, Planned
  <2>2. [row EXCEPT !.ext = TRUE] \in Row
    BY <2>1 DEF Row
  <2>3. \/ CallFails(p) /\ UNCHANGED txlog
        \/ \E r \in Row, b \in BOOLEAN : AfterResolve(p, r, b)
    BY <1>10, <2>1, <2>2 DEF ResolveByProduct
  <2>4. RunTyped'
    BY <2>1, <2>3, AfterResolveType, CallFailsType
  <2>5. faults' \in 0..MaxFaults
    BY <1>10, <2>1, InjectType, CallFailsType DEF ResolveByProduct, TypeInv, TypeOK
  <2>6. /\ jobs' \in Seq(Job) /\ remote' \in [Products -> Offer \cup {NoOffer}]
        /\ sends' \subseteq Stamp /\ orphans' \subseteq Nat
    BY <1>10 DEF ResolveByProduct, TypeInv, TypeOK
  <2> QED BY <1>10, <2>1, <2>4, <2>5, <2>6, RunStepType DEF ResolveByProduct
<1>11. ASSUME Create PROVE TypeInv'
  <2> DEFINE p == at.prod
             row == tx[p]
             id == Len(jobs) + 1
             queue == Queue(p, "create", Fields, plan[p])
  <2>1. at.step \in Calling /\ at.step \in Planned /\ p \in Products /\ row \in Row
    BY <1>11 DEF Create, TypeInv, TypeOK, PointOK, Calling, Planned
  <2>2. plan[p] \in Offer /\ jobs \in Seq(Job) /\ id \in Nat
    BY <2>1 DEF TypeInv, TypeOK, PointOK
  <2>3. queue \in Seq(Job) /\ Len(queue) = id
    BY <2>1, <2>2, QueueType
  <2>4. /\ [row EXCEPT !.pending = id] \in Row
        /\ [row EXCEPT !.pending = 0] \in Row
        /\ [row EXCEPT !.pending = id, !.ext = TRUE] \in Row
    BY <2>1, <2>2 DEF Row
  <2>5. Remember([row EXCEPT !.pending = id, !.ext = TRUE], plan[p], FALSE) \in Row
    BY <2>2, <2>4, RememberType
  <2>6. Failed(row) \in Row /\ Recorded(p, id) \subseteq Stamp
    BY <2>1, <2>2, FailedType, RecordedType DEF TypeInv, TypeOK
  <2>7. jobs' \in Seq(Job)
    <3>1. id \in DOMAIN queue
      BY <2>2, <2>3
    <3>2. [queue EXCEPT ![id].status = "complete"] \in Seq(Job)
      BY <2>3, <3>1, JobStatusType
    <3> QED BY <1>11, <2>2, <2>3, <3>2 DEF Create
  <2>8. remote' \in [Products -> Offer \cup {NoOffer}]
    BY <1>11, <2>1, <2>2 DEF Create, TypeInv, TypeOK
  <2>9. txlog' \subseteq Stamp /\ faults' \in 0..MaxFaults
    BY <1>11, <2>1, <2>6, InjectType, CallFailsType DEF Create, TypeInv, TypeOK
  <2>10. \/ \E r \in Row : Finish(p, r)
         \/ \E r \in Row, s \in Calling, o \in Origins : Proceed(p, r, s, o, Fields)
    BY <1>11, <2>1, <2>4, <2>5, <2>6 DEF Create, CallFails, Calling, Origins
  <2>11. RunTyped'
    BY <2>1, <2>9, <2>10, FinishType, ProceedType DEF RunTyped, Calling
  <2>12. sends' \subseteq Stamp /\ orphans' \subseteq Nat
    BY <1>11 DEF Create, TypeInv, TypeOK
  <2> QED BY <1>11, <2>1, <2>7, <2>8, <2>9, <2>11, <2>12, RunStepType DEF Create
<1>12. ASSUME DeferPrice PROVE TypeInv'
  <2>1. at.step \in Planned /\ at.prod \in Products /\ tx[at.prod] \in Row
    BY <1>12 DEF DeferPrice, TypeInv, TypeOK, PointOK, Calling, Planned
  <2>2. RunTyped'
    BY <1>12, <2>1, FinishType DEF DeferPrice, RunTyped, Calling, TypeInv, TypeOK
  <2>3. /\ jobs' \in Seq(Job) /\ remote' \in [Products -> Offer \cup {NoOffer}]
        /\ sends' \subseteq Stamp /\ orphans' \subseteq Nat /\ faults' \in 0..MaxFaults
    BY <1>12 DEF DeferPrice, TypeInv, TypeOK
  <2> QED BY <1>12, <2>1, <2>2, <2>3, RunStepType DEF DeferPrice
<1>13. ASSUME Update PROVE TypeInv'
  <2> DEFINE p == at.prod
             row == tx[p]
             id == Len(jobs) + 1
             set == ToSend(p)
             priced == "price" \in set
             queue == Queue(p, "update", set, plan[p])
             stamp == [job |-> id, prod |-> p, age |-> 0]
             done == Remember(row, plan[p], ~priced)
  <2>1. /\ at.step \in Calling /\ at.step \in Planned
        /\ p \in Products /\ row \in Row /\ at.changed \in SUBSET Fields
    BY <1>13 DEF Update, TypeInv, TypeOK, PointOK, Calling, Planned, Point
  <2>2. plan[p] \in Offer /\ jobs \in Seq(Job) /\ id \in Nat
    BY <2>1 DEF TypeInv, TypeOK, PointOK
  <2>3. set \in SUBSET Fields
    BY <2>1 DEF ToSend
  <2>4. queue \in Seq(Job)
    BY <2>1, <2>2, <2>3, QueueType
  <2>5. stamp \in Stamp
    BY <2>1, <2>2, BoundsAssumption DEF Stamp, Ages
  <2>6. done \in Row /\ [done EXCEPT !.pending = id] \in Row
    <3>1. done \in Row
      BY <2>1, <2>2, RememberType
    <3> HIDE DEF done, id
    <3> QED BY <2>2, <3>1 DEF Row
  <2>7. Failed(row) \in Row /\ Recorded(p, id) \subseteq Stamp
    BY <2>1, <2>2, FailedType, RecordedType DEF TypeInv, TypeOK
  <2>8. \/ /\ Finish(p, [done EXCEPT !.pending = id])
           /\ jobs' = queue
           /\ txlog' \in {Recorded(p, id), txlog}
           /\ sends' \in {sends \cup {stamp}, sends}
           /\ UNCHANGED <<orphans, faults>>
        \/ CallFails(p) /\ UNCHANGED <<jobs, txlog, sends, orphans>>
        \/ /\ Inject("lost_response")
           /\ jobs' = queue
           /\ sends' \in {sends \cup {stamp}, sends}
           /\ orphans' \in {orphans \cup {id}, orphans}
           /\ at' = [at EXCEPT !.changed = set]
           /\ UNCHANGED <<tx, txlog, todo>>
    BY <1>13 DEF Update
  <2> HIDE DEF done, queue, stamp, set, priced, id
  <2>9. /\ jobs' \in Seq(Job) /\ txlog' \subseteq Stamp
        /\ sends' \subseteq Stamp /\ orphans' \subseteq Nat
    BY <2>2, <2>4, <2>5, <2>7, <2>8 DEF TypeInv, TypeOK
  <2>10. faults' \in 0..MaxFaults
    BY <2>1, <2>8, InjectType, CallFailsType DEF TypeInv, TypeOK
  <2>11. RunTyped'
    <3>1. CASE Finish(p, [done EXCEPT !.pending = id])
      BY <2>1, <2>6, <2>9, <3>1, FinishType DEF RunTyped, Calling
    <3>2. CASE CallFails(p) /\ UNCHANGED txlog
      BY <2>1, <3>2, CallFailsType
    <3>3. CASE at' = [at EXCEPT !.changed = set] /\ UNCHANGED <<tx, txlog, todo>>
      BY <2>1, <2>3, <2>9, <3>3 DEF RunTyped, TypeInv, TypeOK, Point
    <3> QED BY <2>8, <3>1, <3>2, <3>3
  <2>12. remote' \in [Products -> Offer \cup {NoOffer}]
    BY <1>13 DEF Update, TypeInv, TypeOK
  <2> QED BY <1>13, <2>1, <2>9, <2>10, <2>11, <2>12, RunStepType DEF Update
<1>14. ASSUME StartReconcile PROVE TypeInv'
  <2>1. at' \in Point /\ at'.step = "reconcile"
    BY <1>14 DEF StartReconcile, Reconciling, Idle, Point, Steps, Origins
  <2> QED
    BY <1>14, <2>1 DEF StartReconcile, TypeInv, TypeOK, PointOK, Calling, Planned
<1>15. ASSUME NEW p \in Products, Reconcile(p) PROVE TypeInv'
  <2> DEFINE row == tx[p]
  <2>1. row \in Row
    BY DEF TypeInv, TypeOK
  <2>2. /\ [row EXCEPT !.pending = 0, !.ext = TRUE] \in Row
        /\ [row EXCEPT !.pending = 0] \in Row
        /\ Forget(Failed(row)) \in Row
    BY <2>1, ForgetType, FailedType DEF Row
  <2>3. tx' \in [Products -> Row]
    BY <1>15, <2>2 DEF Reconcile, TypeInv, TypeOK
  <2>4. faults' \in 0..MaxFaults
    BY <1>15, InjectType DEF Reconcile, TypeInv, TypeOK
  <2>5. todo' \subseteq Products
    BY <1>15 DEF Reconcile, TypeInv, TypeOK
  <2> QED
    BY <1>15, <2>3, <2>4, <2>5 DEF Reconcile, TypeInv, TypeOK, PointOK
<1>16. ASSUME Commit PROVE TypeInv'
  <2>1. at' \in Point /\ at'.step = "idle" /\ 0 \in 0..MaxRun
    BY <1>16, BoundsAssumption DEF Commit, Idle, Point, Steps, Origins
  <2> QED BY <1>16, <2>1 DEF Commit, TypeInv, TypeOK, PointOK, Calling, Planned
<1>17. ASSUME Abort PROVE TypeInv'
  <2>1. at' \in Point /\ at'.step = "idle" /\ 0 \in 0..MaxRun
    BY <1>17, BoundsAssumption DEF Abort, Idle, Point, Steps, Origins
  <2>2. orphans' \subseteq Nat
    BY <1>17 DEF Abort, TypeInv, TypeOK, Stamp
  <2>3. faults' \in 0..MaxFaults
    BY <1>17, InjectType DEF Abort
  <2> QED
    BY <1>17, <2>1, <2>2, <2>3 DEF Abort, TypeInv, TypeOK, PointOK, Calling, Planned
<1>18. ASSUME AdoptList PROVE TypeInv'
  <2>1. at' \in Point /\ at'.step = "adopt"
    BY <1>18 DEF AdoptList, Adopting, Idle, Point, Steps, Origins
  <2> QED
    BY <1>18, <2>1, ChangeType
       DEF AdoptList, TypeInv, TypeOK, PointOK, Calling, Planned
<1>19. ASSUME AdoptExistingOffers PROVE TypeInv'
  <2>1. at' \in Point /\ at'.step = "idle" /\ 0 \in 0..MaxRun
    <3>1. at' = Idle
      BY <1>19 DEF AdoptExistingOffers
    <3> QED BY <3>1, BoundsAssumption DEF Idle, Point, Steps, Origins
  <2>2. ASSUME NEW p \in Products, plan[p] # NoOffer
        PROVE  [tx[p] EXCEPT !.ext = TRUE, !.pushed = plan[p],
                             !.state = LiveState(plan[p].active)] \in Row
    <3>1. plan[p] \in Pushed
      BY <2>2 DEF TypeInv, TypeOK, Offer, Pushed
    <3>2. LiveState(plan[p].active) \in States
      BY DEF LiveState, States
    <3> QED BY <3>1, <3>2 DEF TypeInv, TypeOK, Row
  <2>3. tx' \in [Products -> Row] /\ db' = tx'
    BY <1>19, <2>2 DEF AdoptExistingOffers, TypeInv, TypeOK
  <2> QED
    BY <1>19, <2>1, <2>3
       DEF AdoptExistingOffers, TypeInv, TypeOK, PointOK, Calling, Planned
<1> QED
  BY <1>0, <1>1, <1>2, <1>3, <1>4, <1>5, <1>6, <1>7, <1>8, <1>9, <1>10, <1>11,
     <1>12, <1>13, <1>14, <1>15, <1>16, <1>17, <1>18, <1>19
     DEF Next, Environment, Store, RunStep

\* The state of the synchroniser is well-formed throughout every behaviour,
\* whatever the store, the clock and the injected failures do.
THEOREM TypeCorrect == Spec => []TypeOK
<1>1. TypeInv => TypeOK
  BY DEF TypeInv
<1> QED BY <1>1, TypeInit, TypeStep, PTL DEF Spec

-----------------------------------------------------------------------------
(* The price-change budget.  Counting rows of the log says something about   *)
(* the calls the store saw only because every recorded call has a row of its *)
(* own, at most one run length older than the call.                          *)

\* Between a create's 202 and its record the newest job has no row yet.
Unrecorded == at.step \in {"get_job", "list"} /\ at.origin = "created"

RowsOnce ==
    /\ IsFiniteSet(txlog)
    /\ log \subseteq txlog
    /\ \A r \in txlog : r.job <= Len(jobs)
    /\ \A r, s \in txlog : r.job = s.job => r = s
    /\ Unrecorded => \A r \in txlog : r.job # Len(jobs)

SendsOnce ==
    /\ IsFiniteSet(sends)
    /\ \A e \in sends : e.job <= Len(jobs)
    /\ \A d, e \in sends : d.job = e.job => d = e

RowOf(e, r) == r.job = e.job /\ r.prod = e.prod /\ r.age <= e.age + MaxRun

SendsRecorded ==
    \A e \in sends : e.job \in orphans \/ \E r \in txlog : RowOf(e, r)

LogInv == RowsOnce /\ SendsOnce /\ SendsRecorded

BudgetInv == TypeInv /\ LogInv /\ BudgetRespected

\* The price changes in the guaranteed part of the hour are no more than the
\* rows that PriceChangeBudget.used counts.
LEMMA RecentIsCounted ==
  ASSUME TypeInv, LogInv, NEW p \in Products
  PROVE  /\ IsFiniteSet(Recent(p))
         /\ Cardinality(Recent(p)) \in Nat
         /\ Used(p) \in Nat
         /\ Cardinality(Recent(p)) <= Used(p)
<1> DEFINE rows == {r \in txlog : r.prod = p /\ r.age <= Window}
           f == [e \in Recent(p) |-> CHOOSE r \in rows : r.job = e.job]
<1>1. IsFiniteSet(rows)
  BY FS_Subset DEF LogInv, RowsOnce
<1>2. ASSUME NEW e \in Recent(p)
      PROVE  \E r \in rows : r.job = e.job
  <2>1. PICK r \in txlog : RowOf(e, r)
    BY <1>2 DEF Recent, LogInv, SendsRecorded
  <2>2. e.age \in Nat /\ r.age \in Nat /\ e.age <= Window - MaxRun /\ e.prod = p
    BY <1>2, BoundsAssumption DEF Recent, TypeInv, TypeOK, Stamp, Ages
  <2>3. r \in rows
    BY <2>1, <2>2, BoundsAssumption DEF RowOf
  <2> QED BY <2>1, <2>3 DEF RowOf
<1>3. f \in Injection(Recent(p), rows)
  <2>1. \A e \in Recent(p) : f[e] \in rows /\ f[e].job = e.job
    BY <1>2
  <2>2. \A d, e \in Recent(p) : d.job = e.job => d = e
    BY DEF Recent, LogInv, SendsOnce
  <2>3. f \in [Recent(p) -> rows]
    BY <2>1
  <2>4. ASSUME NEW d \in Recent(p), NEW e \in Recent(p), f[d] = f[e]
        PROVE  d = e
    BY <2>1, <2>2, <2>4
  <2> HIDE DEF f
  <2> QED BY <2>3, <2>4 DEF Injection, IsInjective
<1>4. /\ IsFiniteSet(Recent(p))
      /\ Cardinality(Recent(p)) <= Cardinality(rows)
  <2> HIDE DEF f, rows
  <2> QED BY <1>1, <1>3, FS_Injection
<1>5. Cardinality(rows) = Used(p)
  BY DEF Used
<1> QED BY <1>1, <1>4, <1>5, FS_CardinalityType

\* Aging a finite set of stamps gives no more of them.
LEMMA OneOlderFinite ==
  ASSUME NEW stamps, IsFiniteSet(stamps)
  PROVE  /\ IsFiniteSet(OneOlder(stamps))
         /\ Cardinality(OneOlder(stamps)) <= Cardinality(stamps)
<1> DEFINE f == [r \in stamps |-> [r EXCEPT !.age = IF @ <= Window THEN @ + 1 ELSE @]]
<1>1. f \in [stamps -> OneOlder(stamps)]
  BY DEF OneOlder
<1>2. \A t \in OneOlder(stamps) : \E r \in stamps : f[r] = t
  BY DEF OneOlder
<1> HIDE DEF f
<1>3. f \in Surjection(stamps, OneOlder(stamps))
  BY <1>1, <1>2 DEF Surjection
<1> QED BY <1>3, FS_Surjection

\* A step that leaves log, sends and the number of jobs alone, and does not
\* enter the gap after a create, keeps the invariant.
LEMMA LogSame ==
  ASSUME LogInv, UNCHANGED <<log, txlog, sends, orphans>>,
         Len(jobs') = Len(jobs), Unrecorded' => Unrecorded
  PROVE  LogInv'
BY DEF LogInv, RowsOnce, SendsOnce, SendsRecorded, RowOf

\* So does a step that only adds a job.
LEMMA LogGrows ==
  ASSUME TypeInv, LogInv, UNCHANGED <<log, txlog, sends, orphans>>,
         Len(jobs') = Len(jobs) + 1
  PROVE  LogInv'
<1>1. Len(jobs) \in Nat /\ \A r \in txlog \cup sends : r.job \in Nat
  BY DEF TypeInv, TypeOK, Stamp
<1>2. RowsOnce'
  BY <1>1 DEF LogInv, RowsOnce
<1>3. SendsOnce'
  BY <1>1 DEF LogInv, SendsOnce
<1>4. SendsRecorded'
  BY DEF LogInv, SendsRecorded, RowOf
<1> QED BY <1>2, <1>3, <1>4 DEF LogInv

\* Recording a create: the newest job gets its row.
LEMMA LogRecordsCreate ==
  ASSUME TypeInv, LogInv, NEW p \in Products, NEW n \in Nat, Len(jobs') = n,
         n >= Len(jobs), \A r \in txlog : r.job # n,
         txlog' = Recorded(p, n), UNCHANGED <<log, sends, orphans>>, ~Unrecorded'
  PROVE  LogInv'
<1> DEFINE row == [job |-> n, prod |-> p, age |-> elapsed]
<1>1. txlog' = txlog \cup {row} /\ row.job = n
  BY DEF Recorded
<1>2. Len(jobs) \in Nat /\ \A r \in txlog \cup sends : r.job \in Nat
  BY DEF TypeInv, TypeOK, Stamp
<1> HIDE DEF row
<1>3. IsFiniteSet(txlog')
  <2>1. IsFiniteSet(txlog)
    BY DEF LogInv, RowsOnce
  <2>2. IsFiniteSet(txlog \cup {row})
    BY <2>1, FS_AddElement
  <2> QED BY <1>1, <2>2
<1>4. RowsOnce'
  BY <1>1, <1>2, <1>3 DEF LogInv, RowsOnce
<1>5. SendsOnce'
  BY <1>2 DEF LogInv, SendsOnce
<1>6. SendsRecorded'
  BY <1>1 DEF LogInv, SendsRecorded, RowOf
<1> QED BY <1>4, <1>5, <1>6 DEF LogInv

\* A PATCH with a price: the call gets its row, or is known to have none.
LEMMA LogRecordsUpdate ==
  ASSUME TypeInv, LogInv, NEW p \in Products, NEW n \in Nat,
         n = Len(jobs) + 1, Len(jobs') = n,
         sends' = sends \cup {[job |-> n, prod |-> p, age |-> 0]},
         UNCHANGED log, ~Unrecorded',
         \/ txlog' = Recorded(p, n) /\ orphans' = orphans
         \/ txlog' = txlog /\ orphans' = orphans \cup {n}
  PROVE  LogInv'
<1> DEFINE row == [job |-> n, prod |-> p, age |-> elapsed]
           send == [job |-> n, prod |-> p, age |-> 0]
<1>1. txlog' = txlog \cup {row} \/ txlog' = txlog
  BY DEF Recorded
<1>2. Len(jobs) \in Nat /\ \A r \in txlog \cup sends : r.job \in Nat
  BY DEF TypeInv, TypeOK, Stamp
<1>3. IsFiniteSet(txlog') /\ IsFiniteSet(sends')
  <2> HIDE DEF row, send
  <2>1. IsFiniteSet(txlog) /\ IsFiniteSet(sends)
    BY DEF LogInv, RowsOnce, SendsOnce
  <2>2. IsFiniteSet(txlog \cup {row}) /\ IsFiniteSet(sends \cup {send})
    BY <2>1, FS_AddElement
  <2>3. sends' = sends \cup {send}
    BY DEF send
  <2> QED BY <1>1, <2>1, <2>2, <2>3
<1>4. RowOf(send, row)
  BY BoundsAssumption DEF RowOf, TypeInv, TypeOK
<1>5. \/ txlog' = txlog \cup {row} /\ orphans' = orphans
      \/ txlog' = txlog /\ orphans' = orphans \cup {n}
  BY DEF Recorded
<1>6. row.job = n /\ send.job = n /\ sends' = sends \cup {send}
  OBVIOUS
<1> HIDE DEF row, send
<1>7. RowsOnce'
  BY <1>1, <1>2, <1>3, <1>6 DEF LogInv, RowsOnce
<1>8. SendsOnce'
  BY <1>2, <1>3, <1>6 DEF LogInv, SendsOnce
<1>9. SendsRecorded'
  BY <1>4, <1>5, <1>6 DEF LogInv, SendsRecorded, RowOf
<1> QED BY <1>7, <1>8, <1>9 DEF LogInv

\* Time passes for calls and rows alike.
LEMMA LogAges ==
  ASSUME TypeInv, LogInv, Tick
  PROVE  LogInv'
<1> DEFINE Older(r) == [r EXCEPT !.age = IF @ <= Window THEN @ + 1 ELSE @]
<1>1. /\ log' = {Older(r) : r \in log}
      /\ txlog' = {Older(r) : r \in txlog}
      /\ sends' = {Older(r) : r \in sends}
  BY DEF Tick, OneOlder
<1>2. \A r \in Stamp : /\ Older(r).job = r.job
                       /\ Older(r).prod = r.prod
                       /\ r.age \in Ages
                       /\ Older(r).age = IF r.age <= Window THEN r.age + 1 ELSE r.age
  BY DEF Stamp
<1>3. log \subseteq Stamp /\ txlog \subseteq Stamp /\ sends \subseteq Stamp
  BY DEF TypeInv, TypeOK
<1>4. UNCHANGED <<jobs, at, orphans>>
  BY DEF Tick, storeVars
<1>5. IsFiniteSet(txlog') /\ IsFiniteSet(sends')
  BY OneOlderFinite DEF Tick, LogInv, RowsOnce, SendsOnce
<1> HIDE DEF Older
<1>6. RowsOnce'
  <2>1. \A r, s \in txlog : Older(r).job = Older(s).job => Older(r) = Older(s)
    BY <1>2, <1>3 DEF LogInv, RowsOnce
  <2>2. log' \subseteq txlog'
    BY <1>1 DEF LogInv, RowsOnce
  <2>3. \A r \in txlog' : \E s \in txlog : r = Older(s) /\ r.job = s.job
    BY <1>1, <1>2, <1>3
  <2> QED BY <1>4, <1>5, <2>1, <2>2, <2>3 DEF LogInv, RowsOnce, Unrecorded
<1>7. SendsOnce'
  <2>1. \A r, s \in sends : Older(r).job = Older(s).job => Older(r) = Older(s)
    BY <1>2, <1>3 DEF LogInv, SendsOnce
  <2>2. \A r \in sends' : \E s \in sends : r = Older(s) /\ r.job = s.job
    BY <1>1, <1>2, <1>3
  <2> QED BY <1>4, <1>5, <2>1, <2>2 DEF LogInv, SendsOnce
<1>8. SendsRecorded'
  <2>1. ASSUME NEW e \in sends, NEW r \in txlog, RowOf(e, r)
        PROVE  RowOf(Older(e), Older(r))
    BY <1>2, <1>3, <2>1, BoundsAssumption DEF RowOf, Ages
  <2>2. \A e \in sends : Older(e).job = e.job
    BY <1>2, <1>3
  <2>3. ASSUME NEW e \in sends
        PROVE  Older(e).job \in orphans' \/ \E r \in txlog' : RowOf(Older(e), r)
    BY <1>1, <1>4, <2>1, <2>2, <2>3 DEF LogInv, SendsRecorded
  <2>4. \A e \in sends' : \E s \in sends : e = Older(s)
    BY <1>1
  <2> QED BY <2>3, <2>4 DEF SendsRecorded, RowOf
<1> QED BY <1>6, <1>7, <1>8 DEF LogInv

\* A rollback loses rows; the calls that lose theirs become orphans.
LEMMA LogRollsBack ==
  ASSUME TypeInv, LogInv, Abort
  PROVE  LogInv'
<1>1. /\ txlog' = log /\ UNCHANGED <<log, jobs, sends>>
      /\ orphans' = orphans \cup ({e.job : e \in sends} \ {r.job : r \in log})
      /\ ~Unrecorded'
  BY DEF Abort, storeVars, dbVars, Unrecorded, Idle
<1>2. RowsOnce'
  <2>1. IsFiniteSet(log)
    BY FS_Subset DEF LogInv, RowsOnce
  <2> QED BY <1>1, <2>1 DEF LogInv, RowsOnce
<1>3. SendsOnce'
  BY <1>1 DEF LogInv, SendsOnce
<1>4. SendsRecorded'
  <2>1. ASSUME NEW e \in sends, e.job \notin orphans'
        PROVE  \E r \in log : RowOf(e, r)
    <3>1. PICK r \in log : r.job = e.job
      BY <1>1, <2>1
    <3>2. PICK s \in txlog : RowOf(e, s)
      BY <1>1, <2>1 DEF LogInv, SendsRecorded
    <3>3. r = s
      BY <3>1, <3>2 DEF LogInv, RowsOnce, RowOf
    <3> QED BY <3>1, <3>2, <3>3
  <2> QED BY <1>1, <2>1 DEF SendsRecorded, RowOf
<1> QED BY <1>2, <1>3, <1>4 DEF LogInv

\* After a lookup either nothing is recorded or the create is.
LEMMA LogAfterResolve ==
  ASSUME TypeInv, LogInv, at.step \in {"get_job", "list"},
         NEW row, NEW resolved, AfterResolve(at.prod, row, resolved),
         UNCHANGED <<jobs, log, sends, orphans>>
  PROVE  LogInv'
<1>1. at'.step \in {"loop", "update"}
  <2>1. \/ \E r : Finish(at.prod, r)
        \/ \E o, c : Proceed(at.prod, row, "update", o, c)
    BY DEF AfterResolve
  <2>2. (\E r : Finish(at.prod, r)) => at'.step = "loop"
    BY DEF Finish, Looping, Idle
  <2>3. (\E o, c : Proceed(at.prod, row, "update", o, c)) => at'.step = "update"
    BY DEF Proceed
  <2> QED BY <2>1, <2>2, <2>3
<1>2. ~Unrecorded'
  BY <1>1 DEF Unrecorded
<1>3. CASE UNCHANGED txlog
  BY <1>2, <1>3, LogSame
<1>4. CASE at.origin = "created" /\ txlog' = Recorded(at.prod, Len(jobs))
  <2>1. at.prod \in Products /\ Len(jobs) \in Nat
    BY DEF TypeInv, TypeOK, PointOK, Calling
  <2>2. \A r \in txlog : r.job # Len(jobs)
    BY <1>4 DEF LogInv, RowsOnce, Unrecorded
  <2> QED BY <1>2, <1>4, <2>1, <2>2, LogRecordsCreate
<1> QED BY <1>3, <1>4 DEF AfterResolve

\* Leaving a product, by whatever way, closes the gap after a create.
LEMMA FinishRecorded ==
  ASSUME NEW p, NEW row, Finish(p, row)
  PROVE  ~Unrecorded'
BY DEF Finish, Looping, Idle, Unrecorded

\* Every step keeps each recorded call at its own row.
LEMMA LogStep == TypeInv /\ LogInv /\ [Next]_vars => LogInv'
<1> SUFFICES ASSUME TypeInv, LogInv, [Next]_vars PROVE LogInv'
  OBVIOUS
<1> USE DEF supplierVars, storeVars, dbVars, runVars, ghostVars, boundVars
<1>0. ASSUME UNCHANGED vars PROVE LogInv'
  BY <1>0, LogSame DEF vars, Unrecorded
<1>1. ASSUME NEW p \in Products, ChangeWant(p) \/ ToggleSyncable(p) PROVE LogInv'
  BY <1>1, LogSame DEF ChangeWant, ToggleSyncable, Unrecorded
<1>2. ASSUME Tick PROVE LogInv'
  BY <1>2, LogAges
<1>3. ASSUME NEW j \in DOMAIN jobs, JobCompletes(j) \/ JobFails(j) PROVE LogInv'
  <2>1. UNCHANGED <<log, txlog, sends, orphans, at>>
    BY <1>3 DEF JobCompletes, JobFails
  <2>2. \E s : jobs' = [jobs EXCEPT ![j].status = s]
    BY <1>3 DEF JobCompletes, JobFails
  <2>3. Len(jobs') = Len(jobs)
    BY <2>2 DEF TypeInv, TypeOK
  <2> QED BY <2>1, <2>3, LogSame DEF Unrecorded
<1>4. ASSUME NEW p \in Products, SkipUnchanged(p) \/ SyncOne(p) \/ Reconcile(p)
      PROVE  LogInv'
  <2>1. UNCHANGED <<log, txlog, sends, orphans, jobs>>
    BY <1>4 DEF SkipUnchanged, SyncOne, Reconcile
  <2>2. ASSUME SkipUnchanged(p) PROVE ~Unrecorded'
    BY <2>2, FinishRecorded DEF SkipUnchanged
  <2>3. ASSUME SyncOne(p) PROVE ~Unrecorded'
    BY <2>3 DEF SyncOne, Proceed, Unrecorded
  <2>4. ASSUME Reconcile(p) PROVE ~Unrecorded'
    BY <2>4 DEF Reconcile, Unrecorded
  <2> QED BY <1>4, <2>1, <2>2, <2>3, <2>4, LogSame
<1>11. ASSUME StartRun \/ DeferPrice \/ StartReconcile \/ AdoptList
                \/ AdoptExistingOffers
       PROVE  LogInv'
  <2>1. UNCHANGED <<log, txlog, sends, orphans, jobs>>
    BY <1>11 DEF StartRun, DeferPrice, StartReconcile, AdoptList, AdoptExistingOffers
  <2>2. at' \in {Idle, Looping, Reconciling, Adopting}
    BY <1>11
       DEF StartRun, DeferPrice, StartReconcile, AdoptList, AdoptExistingOffers, Finish
  <2>3. ~Unrecorded'
    BY <2>2 DEF Unrecorded, Idle, Looping, Reconciling, Adopting
  <2> QED BY <2>1, <2>3, LogSame
<1>5. ASSUME ResolveByJob PROVE LogInv'
  <2>1. UNCHANGED <<jobs, log, sends, orphans>> /\ at.step = "get_job"
    BY <1>5 DEF ResolveByJob
  <2>2. \/ \E row, b : AfterResolve(at.prod, row, b)
        \/ /\ Proceed(at.prod, [tx[at.prod] EXCEPT !.pending = 0], "list",
                      at.origin, at.changed)
           /\ UNCHANGED txlog
    BY <1>5 DEF ResolveByJob
  <2>3. CASE \E row, b : AfterResolve(at.prod, row, b)
    BY <2>1, <2>3, LogAfterResolve
  <2>4. CASE /\ Proceed(at.prod, [tx[at.prod] EXCEPT !.pending = 0], "list",
                        at.origin, at.changed)
             /\ UNCHANGED txlog
    <3>1. Unrecorded' => Unrecorded
      BY <2>1, <2>4 DEF Proceed, Unrecorded
    <3> QED BY <2>1, <2>4, <3>1, LogSame
  <2> QED BY <2>2, <2>3, <2>4
<1>6. ASSUME ResolveByProduct PROVE LogInv'
  <2>1. UNCHANGED <<jobs, log, sends, orphans>> /\ at.step = "list"
    BY <1>6 DEF ResolveByProduct
  <2>2. \/ CallFails(at.prod) /\ UNCHANGED txlog
        \/ \E row, b : AfterResolve(at.prod, row, b)
    BY <1>6 DEF ResolveByProduct
  <2>3. CASE CallFails(at.prod) /\ UNCHANGED txlog
    BY <2>1, <2>3, FinishRecorded, LogSame DEF CallFails
  <2>4. CASE \E row, b : AfterResolve(at.prod, row, b)
    BY <2>1, <2>4, LogAfterResolve
  <2> QED BY <2>2, <2>3, <2>4
<1>7. ASSUME Create PROVE LogInv'
  <2> DEFINE p == at.prod
             id == Len(jobs) + 1
             queue == Queue(p, "create", Fields, plan[p])
  <2>1. p \in Products /\ plan[p] \in Offer /\ jobs \in Seq(Job) /\ id \in Nat
    BY <1>7 DEF Create, TypeInv, TypeOK, PointOK, Calling, Planned
  <2>2. Len(queue) = id /\ queue \in Seq(Job)
    BY <2>1, QueueType
  <2>3. UNCHANGED <<log, sends, orphans>>
    BY <1>7 DEF Create
  <2>4. \/ jobs' = queue /\ UNCHANGED txlog
        \/ /\ jobs' = [queue EXCEPT ![id].status = "complete"]
           /\ \E r : Finish(p, r)
           /\ txlog' = Recorded(p, id)
        \/ \E r : /\ Proceed(p, r, "list", "conflict", Fields)
                  /\ UNCHANGED <<jobs, txlog>>
        \/ CallFails(p) /\ UNCHANGED <<jobs, txlog>>
    BY <1>7 DEF Create
  <2> HIDE DEF queue
  <2>5. CASE jobs' = queue /\ UNCHANGED txlog
    BY <2>2, <2>3, <2>5, LogGrows
  <2>6. CASE /\ jobs' = [queue EXCEPT ![id].status = "complete"]
             /\ \E r : Finish(p, r)
             /\ txlog' = Recorded(p, id)
    <3>1. Len(jobs') = id
      BY <2>2, <2>6
    <3>2. \A r \in txlog : r.job # id
      BY DEF LogInv, RowsOnce, TypeInv, TypeOK, Stamp
    <3>3. ~Unrecorded' /\ id >= Len(jobs)
      BY <2>1, <2>6, FinishRecorded
    <3> HIDE DEF id
    <3> QED BY <2>1, <2>3, <2>6, <3>1, <3>2, <3>3, LogRecordsCreate
  <2>7. CASE \E r : /\ Proceed(p, r, "list", "conflict", Fields)
                    /\ UNCHANGED <<jobs, txlog>>
    BY <2>3, <2>7, LogSame DEF Proceed, Unrecorded
  <2>8. CASE CallFails(p) /\ UNCHANGED <<jobs, txlog>>
    BY <2>3, <2>8, FinishRecorded, LogSame DEF CallFails
  <2> QED BY <2>4, <2>5, <2>6, <2>7, <2>8
<1>8. ASSUME Update PROVE LogInv'
  <2> DEFINE p == at.prod
             id == Len(jobs) + 1
             set == ToSend(p)
             stamp == [job |-> id, prod |-> p, age |-> 0]
             queue == Queue(p, "update", set, plan[p])
  <2>1. /\ p \in Products /\ plan[p] \in Offer /\ jobs \in Seq(Job) /\ id \in Nat
        /\ at.step = "update"
    BY <1>8 DEF Update, TypeInv, TypeOK, PointOK, Calling, Planned
  <2>2. set \in SUBSET Fields
    BY DEF ToSend, TypeInv, TypeOK, Point
  <2>3. Len(queue) = id
    BY <2>1, <2>2, QueueType
  <2>4. UNCHANGED log /\ ~Unrecorded'
    BY <1>8, <2>1, FinishRecorded
       DEF Update, CallFails, Unrecorded, TypeInv, TypeOK, Point
  <2>5. \/ /\ jobs' = queue
           /\ sends' = sends \cup {stamp}
           /\ \/ txlog' = Recorded(p, id) /\ orphans' = orphans
              \/ txlog' = txlog /\ orphans' = orphans \cup {id}
        \/ jobs' = queue /\ UNCHANGED <<txlog, sends, orphans>>
        \/ UNCHANGED <<jobs, txlog, sends, orphans>>
    BY <1>8 DEF Update
  <2> HIDE DEF queue, set
  <2>6. CASE /\ jobs' = queue
             /\ sends' = sends \cup {stamp}
             /\ \/ txlog' = Recorded(p, id) /\ orphans' = orphans
                \/ txlog' = txlog /\ orphans' = orphans \cup {id}
    BY <2>1, <2>3, <2>4, <2>6, LogRecordsUpdate
  <2>7. CASE jobs' = queue /\ UNCHANGED <<txlog, sends, orphans>>
    BY <2>3, <2>4, <2>7, LogGrows
  <2>8. CASE UNCHANGED <<jobs, txlog, sends, orphans>>
    BY <2>4, <2>8, LogSame
  <2> QED BY <2>5, <2>6, <2>7, <2>8
<1>9. ASSUME Commit PROVE LogInv'
  <2>1. /\ log' = txlog /\ UNCHANGED <<txlog, sends, orphans, jobs>>
        /\ ~Unrecorded'
    BY <1>9 DEF Commit, Idle, Unrecorded
  <2> QED BY <2>1 DEF LogInv, RowsOnce, SendsOnce, SendsRecorded, RowOf
<1>10. ASSUME Abort PROVE LogInv'
  BY <1>10, LogRollsBack
<1> QED
  BY <1>0, <1>1, <1>2, <1>3, <1>4, <1>5, <1>6, <1>7, <1>8, <1>9, <1>10, <1>11
     DEF Next, Environment, Store, RunStep

\* Initially nothing was sent and nothing is logged.
LEMMA BudgetInit == Init => BudgetInv
<1> SUFFICES ASSUME Init PROVE BudgetInv
  OBVIOUS
<1>1. log = {} /\ txlog = {} /\ sends = {}
  BY DEF Init
<1>2. IsFiniteSet({}) /\ Cardinality({}) = 0
  BY FS_EmptySet
<1>3. LogInv
  BY <1>1, <1>2 DEF LogInv, RowsOnce, SendsOnce, SendsRecorded
<1>4. \A p \in Products : Recent(p) = {}
  BY <1>1 DEF Recent
<1>5. BudgetRespected
  BY <1>2, <1>4, BoundsAssumption DEF BudgetRespected
<1> QED BY <1>3, <1>5, TypeInit DEF BudgetInv

\* A step that adds no call and frees no orphan leaves the budget respected.
LEMMA BudgetShrinks ==
  ASSUME BudgetInv, sends' \subseteq sends, orphans \subseteq orphans'
  PROVE  BudgetRespected'
<1>1. ASSUME NEW p \in Products
      PROVE  Cardinality(Recent(p)') <= Limit
  <2>1. IsFiniteSet(Recent(p)) /\ Cardinality(Recent(p)) \in Nat
    BY <1>1, RecentIsCounted DEF BudgetInv
  <2>2. Recent(p)' \subseteq Recent(p)
    BY DEF Recent
  <2>3. Cardinality(Recent(p)') <= Cardinality(Recent(p)) /\ IsFiniteSet(Recent(p)')
    BY <2>1, <2>2, FS_Subset
  <2>4. Cardinality(Recent(p)') \in Nat
    BY <2>3, FS_CardinalityType
  <2> QED BY <1>1, <2>1, <2>3, <2>4, BoundsAssumption DEF BudgetInv, BudgetRespected
<1> QED BY <1>1 DEF BudgetRespected

\* Every step keeps the budget respected: the only one that adds a recorded
\* call is an update that carries a price, and it does so below the limit.
LEMMA BudgetStep == BudgetInv /\ [Next]_vars => BudgetInv'
<1> SUFFICES ASSUME BudgetInv, [Next]_vars PROVE BudgetInv'
  OBVIOUS
<1>1. TypeInv /\ LogInv /\ BudgetRespected
  BY DEF BudgetInv
<1>2. TypeInv' /\ LogInv'
  BY <1>1, TypeStep, LogStep
<1> USE DEF supplierVars, storeVars, dbVars, runVars, ghostVars, boundVars
<1>3. ASSUME Update PROVE BudgetRespected'
  <2> DEFINE p == at.prod
             id == Len(jobs) + 1
             stamp == [job |-> id, prod |-> p, age |-> 0]
  <2>1. \/ UNCHANGED <<sends, orphans>>
        \/ sends' = sends \cup {stamp} /\ orphans' = orphans /\ Allows(p)
        \/ sends' = sends \cup {stamp} /\ orphans' = orphans \cup {id}
        \/ sends' = sends /\ orphans' = orphans
    BY <1>3 DEF Update, ToSend
  <2>2. CASE UNCHANGED <<sends, orphans>>
    BY <2>2, BudgetShrinks
  <2>3. CASE sends' = sends \cup {stamp} /\ orphans' = orphans \cup {id}
    <3>1. ASSUME NEW q \in Products PROVE Recent(q)' \subseteq Recent(q)
      BY <2>3 DEF Recent
    <3>2. ASSUME NEW q \in Products
          PROVE  Cardinality(Recent(q)') <= Limit
      <4>1. IsFiniteSet(Recent(q)) /\ Cardinality(Recent(q)) \in Nat
        BY <1>1, <3>2, RecentIsCounted
      <4>2. Cardinality(Recent(q)') <= Cardinality(Recent(q)) /\ IsFiniteSet(Recent(q)')
        BY <3>1, <3>2, <4>1, FS_Subset
      <4>3. Cardinality(Recent(q)') \in Nat
        BY <4>2, FS_CardinalityType
      <4> QED BY <1>1, <3>2, <4>1, <4>2, <4>3, BoundsAssumption DEF BudgetRespected
    <3> QED BY <3>2 DEF BudgetRespected
  <2>4. CASE sends' = sends \cup {stamp} /\ orphans' = orphans /\ Allows(p)
    <3>1. ASSUME NEW q \in Products, q # p
          PROVE  Recent(q)' = Recent(q)
      BY <2>4, <3>1 DEF Recent
    <3>2. ASSUME NEW q \in Products, q = p
          PROVE  Cardinality(Recent(q)') <= Limit
      <4>1. /\ IsFiniteSet(Recent(q)) /\ Cardinality(Recent(q)) \in Nat
            /\ Used(q) \in Nat /\ Cardinality(Recent(q)) <= Used(q)
        BY <1>1, <3>2, RecentIsCounted
      <4>2. Cardinality(Recent(q)) + 1 <= Limit
        BY <2>4, <3>2, <4>1, BoundsAssumption DEF Allows
      <4>3. Recent(q)' \subseteq Recent(q) \cup {stamp}
        BY <2>4, <3>2 DEF Recent
      <4> HIDE DEF stamp
      <4>4. /\ IsFiniteSet(Recent(q) \cup {stamp})
            /\ Cardinality(Recent(q) \cup {stamp}) \in
                 {Cardinality(Recent(q)), Cardinality(Recent(q)) + 1}
        BY <4>1, FS_AddElement
      <4>5. /\ IsFiniteSet(Recent(q)')
            /\ Cardinality(Recent(q)') <= Cardinality(Recent(q) \cup {stamp})
        BY <4>3, <4>4, FS_Subset
      <4>6. Cardinality(Recent(q)') \in Nat
        BY <4>5, FS_CardinalityType
      <4> QED BY <4>1, <4>2, <4>4, <4>5, <4>6, BoundsAssumption
    <3>3. ASSUME NEW q \in Products
          PROVE  Cardinality(Recent(q)') <= Limit
      BY <1>1, <3>1, <3>2, <3>3 DEF BudgetRespected
    <3> QED BY <3>3 DEF BudgetRespected
  <2> QED BY <2>1, <2>2, <2>3, <2>4
<1>4. ASSUME Tick PROVE BudgetRespected'
  <2>1. ASSUME NEW p \in Products
        PROVE  Cardinality(Recent(p)') <= Limit
    <3>1. IsFiniteSet(Recent(p)) /\ Cardinality(Recent(p)) \in Nat
      BY <1>1, <2>1, RecentIsCounted
    <3>2. Recent(p)' \subseteq OneOlder(Recent(p))
      <4>1. ASSUME NEW e \in Recent(p)'
            PROVE  e \in OneOlder(Recent(p))
        <5>1. PICK d \in sends :
                 e = [d EXCEPT !.age = IF @ <= Window THEN @ + 1 ELSE @]
          BY <1>4, <4>1 DEF Tick, OneOlder, Recent
        <5>2. d \in Stamp
          BY <1>1 DEF TypeInv, TypeOK
        <5>3. d.prod = e.prod /\ d.job = e.job /\ d.age <= e.age
              /\ d.age \in Nat /\ e.age \in Nat
          BY <5>1, <5>2, BoundsAssumption DEF Stamp, Ages
        <5>4. e.prod = p /\ e.job \notin orphans /\ e.age <= Window - MaxRun
          BY <1>4, <4>1 DEF Recent, Tick
        <5>5. d \in Recent(p)
          BY <5>3, <5>4, BoundsAssumption DEF Recent
        <5> QED BY <5>1, <5>5 DEF OneOlder
      <4> QED BY <4>1
    <3>3. /\ IsFiniteSet(OneOlder(Recent(p)))
          /\ Cardinality(OneOlder(Recent(p))) <= Cardinality(Recent(p))
      BY <3>1, OneOlderFinite
    <3>4. /\ IsFiniteSet(Recent(p)')
          /\ Cardinality(Recent(p)') <= Cardinality(OneOlder(Recent(p)))
      BY <3>2, <3>3, FS_Subset
    <3>5. /\ Cardinality(Recent(p)') \in Nat
          /\ Cardinality(OneOlder(Recent(p))) \in Nat
      BY <3>3, <3>4, FS_CardinalityType
    <3> QED
      BY <1>1, <2>1, <3>1, <3>3, <3>4, <3>5, BoundsAssumption DEF BudgetRespected
  <2> QED BY <2>1 DEF BudgetRespected
<1>5. ASSUME Abort PROVE BudgetRespected'
  BY <1>5, BudgetShrinks DEF Abort
<1>6. ASSUME UNCHANGED <<sends, orphans>> PROVE BudgetRespected'
  BY <1>6, BudgetShrinks
<1>7. \/ Update \/ Tick \/ Abort \/ UNCHANGED <<sends, orphans>>
  BY DEF Next, Environment, Store, RunStep, vars, ChangeWant, ToggleSyncable,
         AdoptList, JobCompletes, JobFails, StartRun, SkipUnchanged, SyncOne,
         Reconcile, ResolveByJob, ResolveByProduct, Create, DeferPrice,
         StartReconcile, Commit, AdoptExistingOffers
<1> QED BY <1>2, <1>3, <1>4, <1>5, <1>6, <1>7 DEF BudgetInv

\* The hourly price-change budget holds for every set of products, budget,
\* window and run length, and whatever fails: apart from the calls whose record
\* was lost with a rollback or an unanswered PATCH, no product ever gets more
\* than Limit price changes within the hour less the longest run.
THEOREM BudgetHolds == Spec => []BudgetRespected
<1>1. BudgetInv => BudgetRespected
  BY DEF BudgetInv
<1> QED BY <1>1, BudgetInit, BudgetStep, PTL DEF Spec

-----------------------------------------------------------------------------
(* What the store shows of a field is its newest write once that is done,    *)
(* unless an older one landed after it: whatever fails, and in whatever      *)
(* order the jobs of one offer end.                                          *)

\* The jobs of a product and its writes of a field, of any job list.
JobsIn(js, p) == {j \in DOMAIN js : js[j].prod = p}

QueuedIn(js, p) == {j \in JobsIn(js, p) : js[j].status = "queued"}

WritesIn(js, p, f) == {j \in JobsIn(js, p) : f \in js[j].set}

LastIn(js, p, f, m) == m \in WritesIn(js, p, f) /\ \A i \in WritesIn(js, p, f) : i <= m

Landed(js, shown, late, p, f) ==
    \/ f \in late[p]
    \/ \A m \in WritesIn(js, p, f) :
          LastIn(js, p, f, m) /\ js[m].status = "complete" =>
             shown[p] # NoOffer /\ shown[p][f] = js[m].val[f]

StoreInv ==
    \A p \in Products, f \in Fields : Landed(jobs, remote, overtaken, p, f)

\* A nonempty set of positions has a last one.
LEMMA HasLast ==
  ASSUME NEW n \in Nat, NEW S \in SUBSET (1..n), S # {}
  PROVE  \E m \in S : \A i \in S : i <= m
<1> DEFINE less == {ss \in Nat \X Nat : ss[1] < ss[2]}
           T == {n - i : i \in S}
<1>1. IsWellFoundedOn(less, Nat)
  BY NatLessThanWellFounded DEF OpToRel
<1>2. T \subseteq Nat /\ T # {}
  <2>1. \A i \in S : n - i \in Nat
    OBVIOUS
  <2> QED BY <2>1, Zenon
<1>3. PICK x \in T : \A y \in T : ~(<<y, x>> \in less)
  <2> HIDE DEF less, T
  <2> QED BY <1>1, <1>2, WFMin
<1>4. PICK m \in S : x = n - m
  BY <1>3
<1>5. ASSUME NEW i \in S PROVE i <= m
  <2>1. n - i \in T /\ n - i \in Nat /\ x \in Nat
    BY <1>2, <1>3
  <2>2. ~(n - i < x)
    BY <1>3, <2>1
  <2> QED BY <1>4, <2>2
<1> QED BY <1>5

\* What the store has accepted of a field, it has accepted a newest write of.
LEMMA WritesHaveLast ==
  ASSUME NEW js \in Seq(Job), NEW p, NEW f, WritesIn(js, p, f) # {}
  PROVE  \E m \in WritesIn(js, p, f) : LastIn(js, p, f, m)
<1>1. Len(js) \in Nat /\ WritesIn(js, p, f) \in SUBSET (1..Len(js))
  BY DEF WritesIn, JobsIn
<1> QED BY <1>1, HasLast DEF LastIn

Ended(js, j, st, jt) == jt = [js EXCEPT ![j].status = st]

\* Ending a job takes it out of the queue and leaves everything else.
LEMMA EndedQueue ==
  ASSUME NEW js \in Seq(Job), NEW j \in DOMAIN js, NEW st \in {"complete", "failed"},
         NEW jt \in Seq(Job), Ended(js, j, st, jt)
  PROVE  /\ DOMAIN jt = DOMAIN js
         /\ jt[j].status = st
         /\ \A i \in DOMAIN js : /\ jt[i].val = js[i].val /\ jt[i].prod = js[i].prod
                                 /\ jt[i].set = js[i].set /\ jt[i].kind = js[i].kind
                                 /\ i # j => jt[i].status = js[i].status
         /\ \A p : JobsIn(jt, p) = JobsIn(js, p)
         /\ \A p : QueuedIn(jt, p) = QueuedIn(js, p) \ {j}
         /\ \A p, f : WritesIn(jt, p, f) = WritesIn(js, p, f)
<1>1. /\ DOMAIN jt = DOMAIN js
      /\ jt[j] = [js[j] EXCEPT !.status = st]
      /\ \A i \in DOMAIN js : i # j => jt[i] = js[i]
  BY DEF Ended
<1>2. js[j] \in Job
  OBVIOUS
<1>3. /\ jt[j].status = st
      /\ \A i \in DOMAIN js : /\ jt[i].val = js[i].val /\ jt[i].prod = js[i].prod
                              /\ jt[i].set = js[i].set /\ jt[i].kind = js[i].kind
                              /\ i # j => jt[i].status = js[i].status
  BY <1>1, <1>2 DEF Job
<1>4. \A p : JobsIn(jt, p) = JobsIn(js, p) /\ JobsIn(js, p) \subseteq DOMAIN js
  BY <1>1, <1>3 DEF JobsIn
<1>5. \A p : QueuedIn(jt, p) = QueuedIn(js, p) \ {j}
  BY <1>3, <1>4 DEF QueuedIn
<1>6. \A p, f : WritesIn(jt, p, f) = WritesIn(js, p, f)
  BY <1>3, <1>4 DEF WritesIn
<1> QED BY <1>1, <1>3, <1>4, <1>5, <1>6

Longer(js, job, jt) == jt = Append(js, job)

\* An accepted write is the newest of the fields it carries.
LEMMA LongerWrites ==
  ASSUME NEW js \in Seq(Job), NEW job \in Job, NEW jt \in Seq(Job), Longer(js, job, jt),
         NEW p, NEW f
  PROVE  /\ job.prod = p /\ f \in job.set =>
              LastIn(jt, p, f, Len(js) + 1) /\ jt[Len(js) + 1] = job
         /\ ~(job.prod = p /\ f \in job.set) => WritesIn(jt, p, f) = WritesIn(js, p, f)
         /\ \A j \in WritesIn(js, p, f) : j \in DOMAIN js /\ jt[j] = js[j]
<1>0. PICK n \in Nat : n = Len(js) + 1
  OBVIOUS
<1>1. /\ Len(js) \in Nat /\ DOMAIN js = 1..Len(js) /\ DOMAIN jt = 1..n
      /\ jt[n] = job /\ \A j \in DOMAIN js : jt[j] = js[j]
  BY <1>0 DEF Longer
<1>2. CASE job.prod = p /\ f \in job.set
  BY <1>0, <1>1, <1>2 DEF LastIn, WritesIn, JobsIn
<1>3. CASE ~(job.prod = p /\ f \in job.set)
  BY <1>0, <1>1, <1>3 DEF WritesIn, JobsIn
<1>4. \A j \in WritesIn(js, p, f) : j \in DOMAIN js /\ jt[j] = js[j]
  BY <1>1 DEF WritesIn, JobsIn
<1> QED BY <1>0, <1>1, <1>2, <1>3, <1>4

\* What the store carries out of a job: the fields the job sets, and no others.
Carries(j, seen) ==
    LET p == jobs[j].prod
    IN /\ \A q \in Products \ {p} : seen[q] = remote[q]
       /\ seen[p] \in Offer /\ seen[p] # NoOffer
       /\ \A f \in jobs[j].set : seen[p][f] = jobs[j].val[f]
       /\ remote[p] # NoOffer =>
             \A f \in Fields \ jobs[j].set : seen[p][f] = remote[p][f]

LEMMA CompletesOrNot ==
  ASSUME TypeInv, NEW j \in DOMAIN jobs, JobCompletes(j)
  PROVE  \/ /\ Ended(jobs, j, "failed", jobs') /\ UNCHANGED <<remote, overtaken>>
            /\ ~(jobs[j].kind = "create" <=> remote[jobs[j].prod] = NoOffer)
         \/ /\ Ended(jobs, j, "complete", jobs') /\ Carries(j, remote')
            /\ jobs[j].kind = "create" <=> remote[jobs[j].prod] = NoOffer
            /\ overtaken' = [overtaken EXCEPT ![jobs[j].prod] =
                                (@ \ jobs[j].set) \cup Late(j)]
<1> DEFINE p == jobs[j].prod
<1>1. /\ jobs[j] \in Job /\ p \in Products /\ jobs[j].val \in Offer
      /\ jobs[j].set \subseteq Fields
      /\ remote \in [Products -> Offer \cup {NoOffer}]
  BY JobStatusType DEF TypeInv, TypeOK, Job
<1>2. CASE ~(jobs[j].kind = "create" <=> remote[p] = NoOffer)
  BY <1>2, Zenon DEF JobCompletes, Ended
<1>3. CASE (jobs[j].kind = "create") <=> remote[p] = NoOffer
  <2>1. /\ Ended(jobs, j, "complete", jobs')
        /\ remote' = [remote EXCEPT ![p] = IF remote[p] = NoOffer THEN jobs[j].val
                                           ELSE Overlay(remote[p], jobs[j])]
        /\ overtaken' = [overtaken EXCEPT ![p] = (@ \ jobs[j].set) \cup Late(j)]
    BY <1>3, Zenon DEF JobCompletes, Ended
  <2>2. remote[p] # NoOffer =>
           /\ Overlay(remote[p], jobs[j]) \in Offer
           /\ \A f \in Fields : Overlay(remote[p], jobs[j])[f] =
                 IF f \in jobs[j].set THEN jobs[j].val[f] ELSE remote[p][f]
    <3>1. remote[p] # NoOffer => remote[p] \in Offer
      BY <1>1
    <3> QED BY <1>1, <3>1 DEF Overlay, Offer, Fields
  <2>3. Carries(j, remote')
    <3> HIDE DEF p
    <3>1. \A q \in Products \ {p} : remote'[q] = remote[q]
      BY <1>1, <2>1
    <3>2. remote'[p] = IF remote[p] = NoOffer THEN jobs[j].val
                       ELSE Overlay(remote[p], jobs[j])
      BY <1>1, <2>1
    <3> HIDE DEF Fields
    <3>3. remote'[p] \in Offer /\ remote'[p] # NoOffer
      BY <1>1, <2>2, <3>2, NoOfferAssumption
    <3>4. \A f \in jobs[j].set : remote'[p][f] = jobs[j].val[f]
      BY <1>1, <2>2, <3>2
    <3>5. remote[p] # NoOffer =>
             \A f \in Fields \ jobs[j].set : remote'[p][f] = remote[p][f]
      BY <2>2, <3>2
    <3> QED BY <3>1, <3>3, <3>4, <3>5 DEF Carries, p
  <2> QED BY <1>3, <2>1, <2>3
<1> QED BY <1>2, <1>3

\* The store ends a job: the newest write is shown, or an older one lands late.
LEMMA StoreEnds ==
  ASSUME TypeInv, StoreInv, NEW j \in DOMAIN jobs, JobCompletes(j) \/ JobFails(j),
         jobs' \in Seq(Job)
  PROVE  StoreInv'
<1>1. /\ jobs \in Seq(Job) /\ overtaken \in [Products -> SUBSET Fields]
      /\ \A q \in Products, f \in Fields : Landed(jobs, remote, overtaken, q, f)
  BY DEF TypeInv, TypeOK, StoreInv
<1>2. CASE Ended(jobs, j, "failed", jobs') /\ UNCHANGED <<remote, overtaken>>
  <2>1. ASSUME NEW q \in Products, NEW f \in Fields
        PROVE  Landed(jobs', remote', overtaken', q, f)
    <3>1. /\ jobs'[j].status = "failed" /\ WritesIn(jobs', q, f) = WritesIn(jobs, q, f)
          /\ \A i \in DOMAIN jobs : /\ jobs'[i].val = jobs[i].val
                                    /\ i # j => jobs'[i].status = jobs[i].status
      BY <1>1, <1>2, EndedQueue
    <3>2. WritesIn(jobs, q, f) \subseteq DOMAIN jobs
      BY DEF WritesIn, JobsIn
    <3> QED BY <1>1, <1>2, <3>1, <3>2 DEF Landed, LastIn
  <2> QED BY <2>1 DEF StoreInv
<1>3. CASE /\ Ended(jobs, j, "complete", jobs') /\ Carries(j, remote')
           /\ overtaken' = [overtaken EXCEPT ![jobs[j].prod] =
                               (@ \ jobs[j].set) \cup Late(j)]
  <2> DEFINE p == jobs[j].prod
  <2>1. p \in Products
    BY <1>1, JobStatusType
  <2>2. overtaken'[p] = (overtaken[p] \ jobs[j].set) \cup Late(j)
        /\ \A q \in Products \ {p} : overtaken'[q] = overtaken[q]
    BY <1>1, <1>3, <2>1
  <2>3. ASSUME NEW q \in Products, NEW f \in Fields
        PROVE  Landed(jobs', remote', overtaken', q, f)
    <3>1. /\ jobs'[j].status = "complete" /\ WritesIn(jobs', q, f) = WritesIn(jobs, q, f)
          /\ \A i \in DOMAIN jobs : /\ jobs'[i].val = jobs[i].val
                                    /\ i # j => jobs'[i].status = jobs[i].status
      BY <1>1, <1>3, EndedQueue
    <3>2. WritesIn(jobs, q, f) \subseteq DOMAIN jobs /\ Landed(jobs, remote, overtaken, q, f)
      BY <1>1 DEF WritesIn, JobsIn
    <3>3. CASE q # p
      <4>1. remote'[q] = remote[q] /\ overtaken'[q] = overtaken[q]
        BY <1>3, <2>2, <3>3 DEF Carries
      <4>2. j \notin WritesIn(jobs, q, f)
        BY <3>3 DEF WritesIn, JobsIn
      <4> QED BY <3>1, <3>2, <4>1, <4>2 DEF Landed, LastIn
    <3>4. CASE q = p /\ f \notin jobs[j].set
      <4>1. /\ remote'[p] # NoOffer
            /\ remote[p] # NoOffer => remote'[p][f] = remote[p][f]
            /\ f \in overtaken[p] => f \in overtaken'[p]
        BY <1>3, <2>2, <3>4 DEF Carries
      <4>2. j \notin WritesIn(jobs, q, f)
        BY <3>4 DEF WritesIn
      <4> QED BY <3>1, <3>2, <3>4, <4>1, <4>2 DEF Landed, LastIn
    <3>5. CASE q = p /\ f \in jobs[j].set
      <4>1. remote'[p] # NoOffer /\ remote'[p][f] = jobs[j].val[f]
        BY <1>3, <3>5 DEF Carries
      <4>2. j \in WritesIn(jobs, q, f)
        BY <3>5 DEF WritesIn, JobsIn
      <4>3. ASSUME NEW m \in WritesIn(jobs', q, f), LastIn(jobs', q, f, m),
                   jobs'[m].status = "complete", f \notin overtaken'[q]
            PROVE  m = j
        <5>1. m \in Writes(p, f) /\ (m # j => jobs[m].status = "complete")
          BY <3>1, <3>2, <3>5, <4>3 DEF Writes, JobsFor, WritesIn, JobsIn
        <5>2. f \notin Late(j) /\ ~(j < m /\ jobs[m].status = "complete")
          BY <2>2, <3>5, <4>3, <5>1 DEF Late
        <5>3. j <= m
          BY <3>1, <4>2, <4>3 DEF LastIn
        <5>4. j \in Int /\ m \in Int
          BY <1>1, <3>1, <3>2, <4>3
        <5> QED BY <5>1, <5>2, <5>3, <5>4
      <4> QED BY <3>1, <3>5, <4>1, <4>3 DEF Landed
    <3> QED BY <3>3, <3>4, <3>5
  <2> QED BY <2>3 DEF StoreInv
<1>4. CASE JobCompletes(j)
  BY <1>2, <1>3, <1>4, CompletesOrNot
<1>5. CASE JobFails(j)
  BY <1>2, <1>5 DEF JobFails, ghostVars, Ended
<1> QED BY <1>4, <1>5

\* Replacing the job that was just appended.
LEMMA ReplaceLast ==
  ASSUME NEW js \in Seq(Job), NEW a \in Job, NEW b \in Job
  PROVE  /\ Append(js, a)[Len(js) + 1] = a
         /\ [Append(js, a) EXCEPT ![Len(js) + 1] = b] = Append(js, b)
<1>1. /\ Append(js, a) \in Seq(Job) /\ Append(js, b) \in Seq(Job)
      /\ DOMAIN Append(js, a) = 1..(Len(js) + 1)
      /\ DOMAIN Append(js, b) = 1..(Len(js) + 1)
      /\ Len(js) \in Nat /\ Append(js, a)[Len(js) + 1] = a
      /\ Append(js, b)[Len(js) + 1] = b
      /\ \A i \in 1..Len(js) : Append(js, a)[i] = js[i] /\ Append(js, b)[i] = js[i]
  OBVIOUS
<1> DEFINE s == Append(js, a)
           t == Append(js, b)
           n == Len(js) + 1
<1>2. /\ s \in Seq(Job) /\ t \in Seq(Job) /\ DOMAIN s = 1..n /\ DOMAIN t = 1..n
      /\ n \in 1..n /\ t[n] = b /\ \A i \in 1..n : i # n => s[i] = t[i]
  BY <1>1
<1> HIDE DEF s, t, n
<1>5. t = [i \in 1..n |-> t[i]]
  BY <1>2
<1>3. [s EXCEPT ![n] = b] = [i \in 1..n |-> IF i = n THEN b ELSE s[i]]
  BY <1>2, Zenon
<1>4. [i \in 1..n |-> IF i = n THEN b ELSE s[i]] = [i \in 1..n |-> t[i]]
  BY <1>2
<1> QED BY <1>1, <1>3, <1>4, <1>5, Zenon DEF s, t, n

\* A job that is done the moment it is accepted.
LEMMA AppendedThenDone ==
  ASSUME NEW js \in Seq(Job), NEW a \in Job, NEW b \in Job, b.status = "complete",
         b.prod = a.prod, b.kind = a.kind, b.set = a.set, b.val = a.val,
         NEW jt, Ended(Append(js, a), Len(js) + 1, "complete", jt)
  PROVE  Longer(js, b, jt)
<1>1. [a EXCEPT !.status = "complete"] = b
  BY DEF Job
<1>2. jt = [Append(js, a) EXCEPT ![Len(js) + 1] = b]
  BY <1>1, ReplaceLast, Zenon DEF Ended
<1> QED BY <1>2, ReplaceLast, Zenon DEF Longer

\* The job of a write that the store accepts.
Accepted(p, kind, set, val, st) ==
    [prod |-> p, kind |-> kind, set |-> set, val |-> val, status |-> st]

\* Accepting a write makes the job list longer by its job, queued or done at once.
LEMMA QueueLonger ==
  ASSUME jobs \in Seq(Job), NEW p \in Products, NEW kind \in {"create", "update"},
         NEW set \in SUBSET Fields, NEW val \in Offer
  PROVE  /\ \A st \in {"queued", "complete"} : Accepted(p, kind, set, val, st) \in Job
         /\ jobs' = Queue(p, kind, set, val) =>
               Longer(jobs, Accepted(p, kind, set, val, "queued"), jobs')
         /\ jobs' = [Queue(p, kind, set, val)
                       EXCEPT ![Len(jobs) + 1].status = "complete"] =>
               Longer(jobs, Accepted(p, kind, set, val, "complete"), jobs')
<1> DEFINE asked == Accepted(p, kind, set, val, "queued")
           done == Accepted(p, kind, set, val, "complete")
<1>1. \A st \in {"queued", "complete"} : Accepted(p, kind, set, val, st) \in Job
  BY DEF Accepted, Job
<1>2. /\ done.status = "complete" /\ done.prod = asked.prod /\ done.kind = asked.kind
      /\ done.set = asked.set /\ done.val = asked.val
  BY DEF Accepted
<1>3. Queue(p, kind, set, val) = Append(jobs, asked)
  BY DEF Queue, Accepted
<1> HIDE DEF asked, done
<1>4. jobs' = [Append(jobs, asked) EXCEPT ![Len(jobs) + 1].status = "complete"] =>
         Longer(jobs, done, jobs')
  <2>1. asked \in Job /\ done \in Job
    BY <1>1 DEF asked, done
  <2> SUFFICES ASSUME jobs' = [Append(jobs, asked)
                                 EXCEPT ![Len(jobs) + 1].status = "complete"]
               PROVE  Longer(jobs, done, jobs')
    OBVIOUS
  <2>2. Ended(Append(jobs, asked), Len(jobs) + 1, "complete", jobs')
    BY Zenon DEF Ended
  <2> QED BY <1>2, <2>1, <2>2, AppendedThenDone
<1> QED BY <1>1, <1>3, <1>4 DEF Longer, asked, done

\* A write that is accepted is not done yet, or is shown at once.
LEMMA StoreLonger ==
  ASSUME TypeInv, StoreInv, NEW job \in Job, Longer(jobs, job, jobs'),
         jobs' \in Seq(Job), UNCHANGED overtaken,
         \A q \in Products \ {job.prod} : remote'[q] = remote[q],
         \/ remote'[job.prod] = remote[job.prod] /\ job.status = "queued"
         \/ remote'[job.prod] = job.val /\ job.val # NoOffer /\ job.set = Fields
  PROVE  StoreInv'
<1>1. jobs \in Seq(Job) /\ job.set \subseteq Fields
  BY DEF TypeInv, TypeOK, Job
<1>2. ASSUME NEW q \in Products, NEW f \in Fields
      PROVE  Landed(jobs', remote', overtaken', q, f)
  <2>1. Landed(jobs, remote, overtaken, q, f)
    BY DEF StoreInv
  <2>2. CASE job.prod = q /\ f \in job.set
    <3>1. LastIn(jobs', q, f, Len(jobs) + 1) /\ jobs'[Len(jobs) + 1] = job
      BY <1>1, <2>2, LongerWrites
    <3>2. ASSUME NEW m \in WritesIn(jobs', q, f), LastIn(jobs', q, f, m)
          PROVE  jobs'[m] = job
      <4>1. m \in Int /\ Len(jobs) + 1 \in Int
        BY <1>1, <3>2 DEF WritesIn, JobsIn
      <4> QED BY <3>1, <3>2, <4>1 DEF LastIn
    <3> QED BY <2>2, <3>2 DEF Landed
  <2>3. CASE ~(job.prod = q /\ f \in job.set)
    <3>1. /\ WritesIn(jobs', q, f) = WritesIn(jobs, q, f)
          /\ \A i \in WritesIn(jobs, q, f) : jobs'[i] = jobs[i]
      BY <1>1, <2>3, LongerWrites
    <3>2. remote'[q] = remote[q]
      BY <2>3
    <3> QED BY <2>1, <3>1, <3>2 DEF Landed, LastIn
  <2> QED BY <2>2, <2>3
<1> QED BY <1>2 DEF StoreInv

\* Initially the store was sent nothing.
LEMMA StoreInit == Init => StoreInv
BY DEF Init, StoreInv, Landed, WritesIn, JobsIn

\* Every step keeps the newest write of a field shown once it is done.
LEMMA StoreStep == TypeInv /\ StoreInv /\ [Next]_vars => StoreInv'
<1> SUFFICES ASSUME TypeInv, StoreInv, [Next]_vars PROVE StoreInv'
  OBVIOUS
<1> USE DEF supplierVars, storeVars, dbVars, runVars, ghostVars, boundVars
<1>1. jobs' \in Seq(Job) /\ jobs \in Seq(Job)
  BY TypeStep DEF TypeInv, TypeOK
<1>2. ASSUME UNCHANGED <<jobs, remote, overtaken>> PROVE StoreInv'
  BY <1>2 DEF StoreInv
<1>3. CASE Store
  BY <1>1, <1>3, StoreEnds DEF Store
<1>4. CASE Create
  <2> DEFINE p == at.prod
  <2>1. p \in Products /\ plan[p] \in Offer
        /\ remote \in [Products -> Offer \cup {NoOffer}]
    BY <1>4 DEF Create, TypeInv, TypeOK, PointOK, Calling, Planned
  <2>2. /\ UNCHANGED overtaken
        /\ \/ UNCHANGED <<jobs, remote>>
           \/ jobs' = Queue(p, "create", Fields, plan[p]) /\ UNCHANGED remote
           \/ /\ jobs' = [Queue(p, "create", Fields, plan[p])
                            EXCEPT ![Len(jobs) + 1].status = "complete"]
              /\ remote' = [remote EXCEPT ![p] = plan[p]]
    BY <1>4, Zenon DEF Create
  <2>3. ASSUME NEW st \in {"queued", "complete"},
               Longer(jobs, Accepted(p, "create", Fields, plan[p], st), jobs'),
               \/ st = "queued" /\ UNCHANGED remote
               \/ remote' = [remote EXCEPT ![p] = plan[p]]
        PROVE  StoreInv'
    <3> DEFINE job == Accepted(p, "create", Fields, plan[p], st)
    <3>1. job \in Job /\ job.prod = p /\ job.val = plan[p] /\ job.set = Fields
          /\ job.status = st
      BY <1>1, <2>1, QueueLonger DEF Accepted
    <3> HIDE DEF job, p
    <3>2. \A q \in Products \ {p} : remote'[q] = remote[q]
      BY <2>1, <2>3
    <3>3. /\ plan[p] # NoOffer
          /\ \/ st = "queued" /\ UNCHANGED remote
             \/ remote'[p] = plan[p]
      BY <2>1, <2>3, NoOfferAssumption
    <3> QED BY <1>1, <2>2, <2>3, <3>1, <3>2, <3>3, StoreLonger DEF job
  <2> HIDE DEF p
  <2> QED BY <1>1, <1>2, <2>1, <2>2, <2>3, QueueLonger
<1>5. CASE Update
  <2> DEFINE p == at.prod
             set == ToSend(p)
             job == Accepted(p, "update", set, plan[p], "queued")
  <2>1. p \in Products /\ plan[p] \in Offer /\ set \in SUBSET Fields
    BY <1>5 DEF Update, ToSend, TypeInv, TypeOK, PointOK, Calling, Planned, Point
  <2>2. /\ UNCHANGED <<remote, overtaken>>
        /\ \/ UNCHANGED jobs
           \/ jobs' = Queue(p, "update", set, plan[p])
    BY <1>5, Zenon DEF Update
  <2> HIDE DEF p, set
  <2>3. job \in Job /\ job.status = "queued" /\ job.prod = p
        /\ (jobs' = Queue(p, "update", set, plan[p]) => Longer(jobs, job, jobs'))
    BY <1>1, <2>1, QueueLonger DEF Accepted
  <2> HIDE DEF job
  <2> QED BY <1>1, <1>2, <2>1, <2>2, <2>3, StoreLonger
<1>6. Store \/ Create \/ Update \/ UNCHANGED <<jobs, remote, overtaken>>
  BY DEF Next, Environment, RunStep, vars, ChangeWant, ToggleSyncable, AdoptList,
         Tick, Abort, StartRun, SkipUnchanged, SyncOne, Reconcile, ResolveByJob,
         ResolveByProduct, DeferPrice, StartReconcile, Commit, AdoptExistingOffers
<1> QED BY <1>2, <1>3, <1>4, <1>5, <1>6

-----------------------------------------------------------------------------
(* What the row records as pushed is the last the store accepted, and no     *)
(* product has two creates in flight.  Both hold as long as the bridge knows *)
(* every write that was accepted: after a create or an update that the store *)
(* took and never answered, or a run that is rolled back, a row may say less *)
(* than the store knows.  Jobs may fail, and end in any order.               *)

\* The store answers every write it takes, and no run dies.
Certain == Faults \cap {"lost_response", "crash"} = {}

\* What the offer shown says of a field, and Promised, of any job list and any
\* offers shown.
ShownIn(shown, p, f) == IF shown[p] # NoOffer THEN shown[p][f] ELSE None

PromisedIn(js, shown, p, f) ==
    LET writes == WritesIn(js, p, f)
    IN IF writes # {}
       THEN js[CHOOSE j \in writes : \A i \in writes : i <= j].val[f]
       ELSE ShownIn(shown, p, f)

\* On the jobs and offers of the state it is Promised.
LEMMA PromisedIs ==
  ASSUME NEW p, NEW f
  PROVE  Promised(p, f) = PromisedIn(jobs, remote, p, f)
BY DEF Promised, Newest, Writes, JobsFor, PromisedIn, ShownIn, WritesIn, JobsIn

\* There is one last position.
LEMMA OneLast ==
  ASSUME NEW js \in Seq(Job), NEW p, NEW f, NEW m, LastIn(js, p, f, m)
  PROVE  (CHOOSE j \in WritesIn(js, p, f) : \A i \in WritesIn(js, p, f) : i <= j) = m
<1> DEFINE writes == WritesIn(js, p, f)
           last == CHOOSE j \in writes : \A i \in writes : i <= j
<1>1. writes \subseteq Int
  BY DEF WritesIn, JobsIn
<1>2. m \in writes /\ \A i \in writes : i <= m
  BY DEF LastIn
<1> HIDE DEF writes
<1>3. last \in writes /\ \A i \in writes : i <= last
  BY <1>2
<1> HIDE DEF last
<1>4. last = m
  BY <1>1, <1>2, <1>3
<1> QED BY <1>4, Zenon DEF writes, last

\* The last write of a field decides.
LEMMA PromisedLast ==
  ASSUME NEW js \in Seq(Job), NEW shown, NEW p, NEW f, NEW m, LastIn(js, p, f, m)
  PROVE  PromisedIn(js, shown, p, f) = js[m].val[f]
<1>1. WritesIn(js, p, f) # {}
  BY DEF LastIn
<1> QED BY <1>1, OneLast, Zenon DEF PromisedIn

\* With no write accepted, the offer shown decides.
LEMMA PromisedShown ==
  ASSUME NEW js, NEW shown, NEW p, NEW f, WritesIn(js, p, f) = {}
  PROVE  PromisedIn(js, shown, p, f) = ShownIn(shown, p, f)
BY DEF PromisedIn

\* The newest of some writes that stay as they are keeps its promise.
LEMMA PromisedKept ==
  ASSUME NEW js \in Seq(Job), NEW jt \in Seq(Job), NEW shown, NEW seen, NEW p, NEW f,
         WritesIn(jt, p, f) = WritesIn(js, p, f), WritesIn(js, p, f) # {},
         \A j \in WritesIn(js, p, f) : jt[j].val = js[j].val
  PROVE  PromisedIn(jt, seen, p, f) = PromisedIn(js, shown, p, f)
<1>1. PICK m \in WritesIn(js, p, f) : LastIn(js, p, f, m)
  BY WritesHaveLast
<1>2. LastIn(jt, p, f, m)
  BY <1>1 DEF LastIn
<1>3. /\ PromisedIn(js, shown, p, f) = js[m].val[f]
      /\ PromisedIn(jt, seen, p, f) = jt[m].val[f]
  BY <1>1, <1>2, PromisedLast
<1> QED BY <1>1, <1>3

\* What concerns other products or fields changes no promise.
LEMMA PromisedSame ==
  ASSUME NEW js \in Seq(Job), NEW jt \in Seq(Job), NEW shown, NEW seen, NEW p, NEW f,
         WritesIn(jt, p, f) = WritesIn(js, p, f),
         ShownIn(seen, p, f) = ShownIn(shown, p, f),
         \A j \in WritesIn(js, p, f) : jt[j].val = js[j].val
  PROVE  PromisedIn(jt, seen, p, f) = PromisedIn(js, shown, p, f)
<1>1. CASE WritesIn(js, p, f) = {}
  BY <1>1, PromisedShown
<1>2. CASE WritesIn(js, p, f) # {}
  BY <1>2, PromisedKept
<1> QED BY <1>1, <1>2

\* A write that the store accepts promises the fields it carries.
LEMMA PromisedNew ==
  ASSUME NEW js \in Seq(Job), NEW job \in Job, NEW jt \in Seq(Job),
         Longer(js, job, jt), NEW seen
  PROVE  \A f \in job.set : PromisedIn(jt, seen, job.prod, f) = job.val[f]
<1> TAKE f \in job.set
<1>1. LastIn(jt, job.prod, f, Len(js) + 1) /\ jt[Len(js) + 1] = job
  BY LongerWrites
<1>2. PromisedIn(jt, seen, job.prod, f) = jt[Len(js) + 1].val[f]
  BY <1>1, PromisedLast
<1> QED BY <1>1, <1>2

\* It changes no other promise.
LEMMA PromisedOld ==
  ASSUME NEW js \in Seq(Job), NEW job \in Job, NEW shown, NEW seen, NEW p, NEW f,
         NEW jt \in Seq(Job), Longer(js, job, jt), ~(job.prod = p /\ f \in job.set),
         seen[p] = shown[p]
  PROVE  PromisedIn(jt, seen, p, f) = PromisedIn(js, shown, p, f)
<1>1. /\ WritesIn(jt, p, f) = WritesIn(js, p, f)
      /\ \A j \in WritesIn(js, p, f) : jt[j].val = js[j].val
      /\ ShownIn(seen, p, f) = ShownIn(shown, p, f)
  BY LongerWrites DEF ShownIn
<1> QED BY <1>1, PromisedSame

\* A job that ends, by success or failure, changes no promise.
LEMMA PromisedEnded ==
  ASSUME NEW js \in Seq(Job), NEW j \in DOMAIN js, NEW st \in {"complete", "failed"},
         NEW jt \in Seq(Job), Ended(js, j, st, jt), NEW shown, NEW seen, NEW p, NEW f,
         \/ js[j].prod = p /\ f \in js[j].set
         \/ ShownIn(seen, p, f) = ShownIn(shown, p, f)
  PROVE  PromisedIn(jt, seen, p, f) = PromisedIn(js, shown, p, f)
<1>1. /\ WritesIn(jt, p, f) = WritesIn(js, p, f) /\ WritesIn(js, p, f) \subseteq DOMAIN js
      /\ \A i \in DOMAIN js : jt[i].val = js[i].val
  BY EndedQueue DEF WritesIn, JobsIn
<1>2. \A i \in WritesIn(js, p, f) : jt[i].val = js[i].val
  BY <1>1
<1>3. CASE ShownIn(seen, p, f) = ShownIn(shown, p, f)
  BY <1>1, <1>2, <1>3, PromisedSame
<1>4. CASE js[j].prod = p /\ f \in js[j].set
  <2>1. WritesIn(js, p, f) # {}
    BY <1>4 DEF WritesIn, JobsIn
  <2>2. WritesIn(jt, p, f) = WritesIn(js, p, f)
    BY <1>1
  <2> QED BY <1>2, <2>1, <2>2, PromisedKept
<1> QED BY <1>3, <1>4

\* Why the rows stay right.  A create is queued only for a product the store
\* shows no offer of, as its newest job, and its row knows it; an update only
\* for a product whose offer id the row has.  A row without an id records what
\* the create promised, and nothing once that is known to have failed.
Sound(js, shown) ==
    \A j \in DOMAIN js :
       /\ js[j].status = "complete" => shown[js[j].prod] # NoOffer
       /\ js[j].kind = "create" => js[j].set = Fields

Fits(js, shown, p, row) ==
    /\ row.ext => shown[p] # NoOffer
    /\ row.pending # 0 => row.pending \in JobsIn(js, p)
    /\ \A j \in QueuedIn(js, p) :
          IF js[j].kind = "create"
          THEN shown[p] = NoOffer /\ row.pending = j /\ \A i \in JobsIn(js, p) : i <= j
          ELSE row.ext
    /\ \A f \in Fields : row.pushed[f] \in {None, PromisedIn(js, shown, p, f)}
    /\ shown[p] = NoOffer /\ row.pending = 0 => \A f \in Fields : row.pushed[f] = None
    /\ shown[p] # NoOffer /\ ~row.ext =>
          \A f \in Fields : PromisedIn(js, shown, p, f) = shown[p][f]

CoreInv ==
    /\ Sound(jobs, remote)
    /\ \A p \in Products : Fits(jobs, remote, p, tx[p])

\* What the call under way relies on.  A PATCH carries every field in which the
\* row differs from the plan; after a POST the store is bound to the plan, and
\* its job is asked for until it is done.
CallInv ==
    at.step \in Calling =>
       /\ at.step = "update" => tx[at.prod].ext
       /\ at.step = "create" => tx[at.prod].pending = 0 /\ ~tx[at.prod].ext
       /\ at.step = "get_job" => tx[at.prod].pending # 0
       /\ \A f \in Fields \ at.changed : tx[at.prod].pushed[f] = plan[at.prod][f]
       /\ at.origin = "created" /\ at.step \in {"get_job", "list"} =>
             \A f \in Fields : PromisedIn(jobs, remote, at.prod, f) = plan[at.prod][f]
       /\ at.origin = "created" /\ at.step = "list" => remote[at.prod] # NoOffer

\* reconcile_jobs looks at jobs that are pending, and what adopt_existing_offers
\* has listed is still what the store shows of a product without an offer id.
PassInv ==
    /\ at.step = "reconcile" => \A p \in todo : tx[p].pending # 0
    /\ at.step = "adopt" =>
          \A p \in Products : tx[p].ext \/ plan[p] \in {NoOffer, remote[p]}

PushInv == CoreInv /\ CallInv /\ PassInv

\* A row that no other state distinguishes fits as well.
LEMMA FitsLike ==
  ASSUME NEW js, NEW shown, NEW p, NEW row, NEW like, Fits(js, shown, p, row),
         like.ext = row.ext, like.pending = row.pending, like.pushed = row.pushed
  PROVE  Fits(js, shown, p, like)
BY DEF Fits

\* A failed call is counted, no more.
LEMMA FailedLike ==
  ASSUME NEW row \in Row
  PROVE  /\ Failed(row).ext = row.ext
         /\ Failed(row).pending = row.pending
         /\ Failed(row).pushed = row.pushed
BY DEF Failed, Row

\* What _remember leaves in the row.
LEMMA RememberLike ==
  ASSUME NEW row \in Row, NEW offer, NEW keep \in BOOLEAN
  PROVE  /\ Remember(row, offer, keep).ext = row.ext
         /\ Remember(row, offer, keep).pending = row.pending
         /\ Remember(row, offer, keep).pushed.price =
               IF keep THEN row.pushed.price ELSE offer.price
         /\ Remember(row, offer, keep).pushed.inv = offer.inv
         /\ Remember(row, offer, keep).pushed.active = offer.active
BY DEF Remember, Row

\* What a failed job leaves in the row.
LEMMA ForgetLike ==
  ASSUME NEW row \in Row
  PROVE  /\ Forget(row).ext = row.ext
         /\ Forget(row).pending = 0
         /\ Forget(row).state = "failed"
         /\ \A f \in Fields : Forget(row).pushed[f] = None
<1>1. Forget(row).ext = row.ext /\ Forget(row).pending = 0
      /\ Forget(row).state = "failed" /\ Forget(row).pushed = NothingPushed
  BY DEF Forget, Row
<1>2. \A f \in Fields : NothingPushed[f] = None
  BY DEF NothingPushed, Fields
<1> QED BY <1>1, <1>2

\* A row whose job is done, its id found or not, fits.
LEMMA FitsDone ==
  ASSUME NEW js \in Seq(Job), NEW shown, Sound(js, shown),
         NEW p, NEW row \in Row, Fits(js, shown, p, row),
         row.pending # 0, js[row.pending].status = "complete"
  PROVE  /\ shown[p] # NoOffer
         /\ Fits(js, shown, p, [row EXCEPT !.pending = 0])
         /\ Fits(js, shown, p, [row EXCEPT !.pending = 0, !.ext = TRUE])
<1> DEFINE done == [row EXCEPT !.pending = 0]
           found == [row EXCEPT !.pending = 0, !.ext = TRUE]
<1>1. shown[p] # NoOffer
  BY DEF Fits, Sound, JobsIn
<1>2. \A j \in QueuedIn(js, p) : js[j].kind # "create" /\ row.ext
  BY <1>1 DEF Fits
<1>3. /\ done.ext = row.ext /\ done.pending = 0 /\ done.pushed = row.pushed
      /\ found.ext /\ found.pending = 0 /\ found.pushed = row.pushed
  BY DEF Row
<1> HIDE DEF done, found
<1>4. Fits(js, shown, p, done) /\ Fits(js, shown, p, found)
  BY <1>1, <1>2, <1>3 DEF Fits
<1> QED BY <1>1, <1>4 DEF done, found

\* A row whose job failed fits once it has forgotten the push.
LEMMA FitsFailed ==
  ASSUME NEW js \in Seq(Job), NEW shown, NEW p, NEW row \in Row,
         Fits(js, shown, p, row), row.pending # 0, js[row.pending].status = "failed"
  PROVE  Fits(js, shown, p, Forget(row))
<1> DEFINE next == Forget(row)
<1>1. /\ next.ext = row.ext /\ next.pending = 0
      /\ \A f \in Fields : next.pushed[f] = None
  BY ForgetLike
<1> HIDE DEF next
<1>2. \A j \in QueuedIn(js, p) : js[j].kind # "create" /\ row.ext
  BY DEF Fits, QueuedIn
<1>3. Fits(js, shown, p, next)
  BY <1>1, <1>2 DEF Fits
<1> QED BY <1>3 DEF next

\* A row without an id and without a job has nothing in flight.
LEMMA NothingInFlight ==
  ASSUME NEW js \in Seq(Job), NEW shown, NEW p, NEW row, Fits(js, shown, p, row),
         ~row.ext, shown[p] # NoOffer \/ row.pending = 0
  PROVE  QueuedIn(js, p) = {}
<1>1. 0 \notin DOMAIN js
  OBVIOUS
<1> QED BY <1>1 DEF Fits, QueuedIn, JobsIn

\* A write for one product leaves the rows of the others fitting.
LEMMA FitsOther ==
  ASSUME NEW js \in Seq(Job), NEW job \in Job, NEW jt \in Seq(Job),
         Longer(js, job, jt), NEW shown, NEW seen, NEW p, p # job.prod,
         seen[p] = shown[p], NEW row, Fits(js, shown, p, row)
  PROVE  Fits(jt, seen, p, row)
<1>1. /\ DOMAIN js \subseteq DOMAIN jt
      /\ \A j \in DOMAIN js : jt[j] = js[j]
      /\ \A j \in DOMAIN jt \ DOMAIN js : jt[j] = job
  BY DEF Longer
<1>2. JobsIn(jt, p) = JobsIn(js, p) /\ JobsIn(js, p) \subseteq DOMAIN js
  BY <1>1 DEF JobsIn
<1>3. QueuedIn(jt, p) = QueuedIn(js, p) /\ QueuedIn(js, p) \subseteq DOMAIN js
  BY <1>1, <1>2 DEF QueuedIn
<1>4. ASSUME NEW f PROVE PromisedIn(jt, seen, p, f) = PromisedIn(js, shown, p, f)
  BY PromisedOld
<1> QED BY <1>1, <1>2, <1>3, <1>4 DEF Fits

\* The session changes one row to one that fits.
LEMMA CoreRow ==
  ASSUME TypeInv, CoreInv, UNCHANGED <<jobs, remote>>, NEW p \in Products, NEW row,
         Fits(jobs, remote, p, row), tx' = [tx EXCEPT ![p] = row]
  PROVE  CoreInv'
BY DEF CoreInv, TypeInv, TypeOK

\* Leaving a product with a row that fits.
LEMMA FinishPush ==
  ASSUME TypeInv, CoreInv', NEW p \in Products, NEW row, Finish(p, row)
  PROVE  PushInv'
<1>1. at'.step = "loop"
  BY DEF Finish, Looping, Idle
<1> QED BY <1>1 DEF PushInv, CallInv, PassInv, Calling

\* Going on with a product, the row ready for the next call.
LEMMA ProceedPush ==
  ASSUME TypeInv, CoreInv', NEW p \in Products, NEW row, NEW step \in Calling,
         NEW origin, NEW changed, Proceed(p, row, step, origin, changed),
         UNCHANGED plan,
         step = "update" => row.ext,
         step = "create" => row.pending = 0 /\ ~row.ext,
         step = "get_job" => row.pending # 0,
         \A f \in Fields \ changed : row.pushed[f] = plan[p][f],
         origin = "created" /\ step \in {"get_job", "list"} =>
            \A f \in Fields : PromisedIn(jobs', remote', p, f) = plan[p][f],
         origin = "created" /\ step = "list" => remote'[p] # NoOffer
  PROVE  PushInv'
<1>1. /\ at'.step = step /\ at'.prod = p /\ at'.origin = origin
      /\ at'.changed = changed /\ tx'[p] = row
  BY DEF Proceed, TypeInv, TypeOK
<1>2. PassInv'
  BY <1>1 DEF PassInv, Calling
<1>3. CallInv'
  BY <1>1 DEF CallInv
<1> QED BY <1>2, <1>3 DEF PushInv

\* The callers of _resolve_offer_id make of a row that fits a row that fits.
LEMMA AfterResolvePush ==
  ASSUME TypeInv, PushInv, at.step \in {"get_job", "list"},
         UNCHANGED <<jobs, remote, plan>>,
         NEW row \in Row, Fits(jobs, remote, at.prod, row), NEW resolved \in BOOLEAN,
         resolved => row.ext /\ row.pushed = tx[at.prod].pushed,
         \/ row.pending # 0 \/ remote[at.prod] # NoOffer
         \/ at.origin # "created" \/ row.state = "failed",
         AfterResolve(at.prod, row, resolved)
  PROVE  PushInv'
<1> DEFINE p == at.prod
<1>1. /\ p \in Products /\ plan[p] \in Offer /\ at.step \in Calling
      /\ jobs \in Seq(Job) /\ at.origin \in Origins
  BY DEF TypeInv, TypeOK, PointOK, Planned, Calling, Point
<1>2. /\ CoreInv
      /\ resolved => \A f \in Fields \ at.changed : row.pushed[f] = plan[p][f]
      /\ at.origin = "created" =>
            \A f \in Fields : PromisedIn(jobs, remote, p, f) = plan[p][f]
  BY <1>1 DEF PushInv, CallInv
<1>3. Fits(jobs, remote, p, Failed(row))
  BY FailedLike, FitsLike
<1>4. ASSUME at.origin = "created", resolved \/ row.state # "failed"
      PROVE  Fits(jobs, remote, p, Remember(row, plan[p], FALSE))
  <2> DEFINE done == Remember(row, plan[p], FALSE)
  <2>1. /\ done.ext = row.ext /\ done.pending = row.pending
        /\ done.pushed.price = plan[p].price /\ done.pushed.inv = plan[p].inv
        /\ done.pushed.active = plan[p].active
    BY RememberLike
  <2> HIDE DEF done
  <2>2. \A f \in Fields : done.pushed[f] = PromisedIn(jobs, remote, p, f)
    BY <1>2, <1>4, <2>1 DEF Fields
  <2>3. row.pending # 0 \/ remote[p] # NoOffer
    BY <1>4 DEF Fits
  <2>4. Fits(jobs, remote, p, done)
    BY <2>1, <2>2, <2>3 DEF Fits
  <2> QED BY <2>4 DEF done
<1>5. ASSUME NEW r, Fits(jobs, remote, p, r), Finish(p, r) PROVE PushInv'
  <2>1. CoreInv'
    BY <1>1, <1>2, <1>5, CoreRow DEF Finish
  <2> QED BY <1>1, <1>5, <2>1, FinishPush
<1>6. ASSUME NEW o \in {"sync", "conflict"}, NEW c, resolved,
             c \in {at.changed, Fields}, Proceed(p, row, "update", o, c)
      PROVE  PushInv'
  <2>1. CoreInv'
    BY <1>1, <1>2, <1>6, CoreRow DEF Proceed
  <2>2. "update" \in Calling /\ \A f \in Fields \ c : row.pushed[f] = plan[p][f]
    BY <1>2, <1>6 DEF Calling
  <2> QED BY <1>1, <1>6, <2>1, <2>2, ProceedPush
<1>7. CASE at.origin = "sync"
  BY <1>5, <1>6, <1>7 DEF AfterResolve
<1>8. CASE at.origin = "created"
  BY <1>4, <1>5, <1>8 DEF AfterResolve
<1>9. CASE at.origin = "conflict"
  BY <1>3, <1>5, <1>6, <1>9 DEF AfterResolve
<1> QED BY <1>1, <1>7, <1>8, <1>9 DEF Origins

\* The exception handlers of _sync_one touch nothing that matters.
LEMMA CallFailsPush ==
  ASSUME TypeInv, PushInv, NEW p \in Products, CallFails(p), UNCHANGED <<jobs, remote>>
  PROVE  PushInv'
<1>1. tx[p] \in Row /\ CoreInv /\ Fits(jobs, remote, p, tx[p])
  BY DEF TypeInv, TypeOK, PushInv, CoreInv
<1>2. PICK row \in {tx[p], Failed(tx[p])} : Finish(p, row)
  BY DEF CallFails
<1>3. Fits(jobs, remote, p, row)
  BY <1>1, FailedLike, FitsLike
<1>4. CoreInv'
  BY <1>1, <1>2, <1>3, CoreRow DEF Finish
<1> QED BY <1>2, <1>4, FinishPush

\* The store carries out a create only where nothing is shown and an update
\* only where something is, so neither is turned down.
LEMMA NotTurnedDown ==
  ASSUME TypeInv, CoreInv, NEW j \in DOMAIN jobs, jobs[j].status = "queued"
  PROVE  /\ jobs[j].prod \in Products /\ j \in QueuedIn(jobs, jobs[j].prod)
         /\ jobs[j].kind = "create" <=> remote[jobs[j].prod] = NoOffer
<1>1. jobs[j] \in Job
  BY DEF TypeInv, TypeOK
<1>2. jobs[j].prod \in Products /\ jobs[j].kind \in {"create", "update"}
  BY <1>1 DEF Job
<1>3. j \in QueuedIn(jobs, jobs[j].prod)
  BY DEF QueuedIn, JobsIn
<1>4. Fits(jobs, remote, jobs[j].prod, tx[jobs[j].prod])
  BY <1>2 DEF CoreInv
<1>5. jobs[j].kind = "create" <=> remote[jobs[j].prod] = NoOffer
  BY <1>2, <1>3, <1>4 DEF Fits
<1> QED BY <1>2, <1>3, <1>5

\* A job ends: no promise changes, and no row stops fitting.
LEMMA EndedPush ==
  ASSUME TypeInv, PushInv, NEW j \in DOMAIN jobs, jobs[j].status = "queued",
         NEW st \in {"complete", "failed"}, Ended(jobs, j, st, jobs'),
         jobs' \in Seq(Job), UNCHANGED <<tx, at, plan, todo>>,
         \/ st = "failed" /\ UNCHANGED remote
         \/ st = "complete" /\ Carries(j, remote')
  PROVE  PushInv'
<1> DEFINE p == jobs[j].prod
<1>1. /\ jobs \in Seq(Job) /\ CoreInv /\ Sound(jobs, remote)
      /\ \A q \in Products : Fits(jobs, remote, q, tx[q])
      /\ \A i \in DOMAIN jobs : jobs[i].prod \in Products
  <2>1. jobs \in Seq(Job)
    BY DEF TypeInv, TypeOK
  <2>2. \A i \in DOMAIN jobs : jobs[i].prod \in Products
    BY <2>1, JobStatusType
  <2> QED BY <2>1, <2>2 DEF PushInv, CoreInv
<1>2. p \in Products /\ j \in QueuedIn(jobs, p)
      /\ (jobs[j].kind = "create" <=> remote[p] = NoOffer)
  BY <1>1, NotTurnedDown
<1>3. /\ DOMAIN jobs' = DOMAIN jobs
      /\ jobs'[j].status = st
      /\ \A i \in DOMAIN jobs :
            /\ jobs'[i].val = jobs[i].val /\ jobs'[i].prod = jobs[i].prod
            /\ jobs'[i].set = jobs[i].set /\ jobs'[i].kind = jobs[i].kind
            /\ i # j => jobs'[i].status = jobs[i].status
      /\ \A q : JobsIn(jobs', q) = JobsIn(jobs, q)
      /\ \A q : QueuedIn(jobs', q) = QueuedIn(jobs, q) \ {j}
  BY <1>1, EndedQueue
<1> HIDE DEF p
<1>4. /\ \A q \in Products : q # p => remote'[q] = remote[q]
      /\ \A q \in Products : remote[q] # NoOffer => remote'[q] # NoOffer
      /\ st = "complete" => remote'[p] # NoOffer
  BY DEF Carries, p
<1>5. ASSUME NEW q \in Products, NEW f \in Fields
      PROVE  PromisedIn(jobs', remote', q, f) = PromisedIn(jobs, remote, q, f)
  <2>1. CASE q = p /\ f \in jobs[j].set
    BY <1>1, <2>1, PromisedEnded DEF p
  <2>2. CASE q # p
    <3>1. ShownIn(remote', q, f) = ShownIn(remote, q, f)
      BY <1>4, <2>2 DEF ShownIn
    <3> QED BY <1>1, <3>1, PromisedEnded
  <2>3. CASE q = p /\ f \notin jobs[j].set
    <3>1. jobs[j].kind # "create" \/ jobs[j].set = Fields
      BY <1>1 DEF Sound
    <3>2. remote[p] # NoOffer
      BY <1>2, <2>3, <3>1
    <3>3. remote'[p] # NoOffer /\ remote'[p][f] = remote[p][f]
      BY <2>3, <3>2 DEF Carries, p
    <3>4. ShownIn(remote', q, f) = ShownIn(remote, q, f)
      BY <2>3, <3>2, <3>3 DEF ShownIn
    <3> QED BY <1>1, <3>4, PromisedEnded
  <2> QED BY <2>1, <2>2, <2>3
<1>6. Sound(jobs', remote')
  BY <1>1, <1>3, <1>4 DEF Sound, p
<1>7. ASSUME NEW q \in Products PROVE Fits(jobs', remote', q, tx[q])
  <2>1. Fits(jobs, remote, q, tx[q])
    BY <1>1
  <2>2. CASE q # p
    <3>1. remote'[q] = remote[q] /\ j \notin QueuedIn(jobs, q)
      BY <1>4, <2>2 DEF QueuedIn, JobsIn, p
    <3>2. \A i \in QueuedIn(jobs, q) : i \in DOMAIN jobs
      BY DEF QueuedIn, JobsIn
    <3> QED BY <1>3, <1>5, <2>1, <3>1, <3>2 DEF Fits
  <2>3. CASE q = p /\ jobs[j].kind = "create"
    <3>1. /\ remote[p] = NoOffer /\ tx[p].pending = j /\ ~tx[p].ext
          /\ \A i \in JobsIn(jobs, p) : i <= j
      BY <1>2, <2>1, <2>3 DEF Fits
    <3>2. \A i \in QueuedIn(jobs, p) : i = j
      BY <2>1, <2>3, <3>1 DEF Fits
    <3>3. QueuedIn(jobs', p) = {}
      BY <1>3, <3>2
    <3>4. j # 0 /\ j \in JobsIn(jobs', p)
      BY <1>1, <1>2, <1>3 DEF QueuedIn
    <3>5. ASSUME NEW f \in Fields, remote'[p] # NoOffer
          PROVE  PromisedIn(jobs', remote', p, f) = remote'[p][f]
      <4>1. jobs[j].set = Fields /\ remote'[p][f] = jobs[j].val[f]
        BY <1>1, <2>3, <3>1, <3>5 DEF Sound, Carries, p
      <4>2. LastIn(jobs, p, f, j)
        BY <1>2, <3>1, <4>1 DEF LastIn, WritesIn, QueuedIn
      <4>3. PromisedIn(jobs, remote, p, f) = jobs[j].val[f]
        BY <1>1, <4>2, PromisedLast
      <4> QED BY <1>2, <1>5, <4>1, <4>3
    <3> QED BY <1>3, <1>5, <2>1, <2>3, <3>1, <3>3, <3>4, <3>5 DEF Fits
  <2>4. CASE q = p /\ jobs[j].kind # "create"
    <3>1. remote[p] # NoOffer /\ remote'[p] # NoOffer /\ tx[p].ext
      BY <1>2, <1>4, <2>1, <2>4 DEF Fits
    <3>2. \A i \in QueuedIn(jobs, p) : jobs[i].kind # "create" /\ i \in DOMAIN jobs
      BY <2>1, <2>4, <3>1 DEF Fits, QueuedIn, JobsIn
    <3> QED BY <1>3, <1>5, <2>1, <2>4, <3>1, <3>2 DEF Fits
  <2> QED BY <2>2, <2>3, <2>4
<1>8. CoreInv'
  BY <1>6, <1>7 DEF CoreInv
<1>9. CallInv'
  <2>1. at.step \in Calling => at.prod \in Products
    BY DEF TypeInv, PointOK
  <2> QED BY <1>4, <1>5, <2>1 DEF PushInv, CallInv
<1>10. PassInv'
  <2> SUFFICES ASSUME at.step = "adopt", NEW q \in Products, ~tx[q].ext
               PROVE  plan[q] \in {NoOffer, remote'[q]}
    BY DEF PushInv, PassInv
  <2>1. plan[q] \in {NoOffer, remote[q]}
    BY DEF PushInv, PassInv
  <2>2. CASE q = p
    <3>1. remote[p] = NoOffer
      BY <1>1, <1>2, <2>2 DEF Fits
    <3> QED BY <2>1, <2>2, <3>1
  <2> QED BY <1>4, <2>1, <2>2
<1> QED BY <1>8, <1>9, <1>10 DEF PushInv

\* The store finishes a job or rejects it.
LEMMA DonePush ==
  ASSUME TypeInv, PushInv, NEW j \in DOMAIN jobs, JobCompletes(j) \/ JobFails(j),
         jobs' \in Seq(Job)
  PROVE  PushInv'
<1>1. jobs[j].status = "queued" /\ UNCHANGED <<tx, at, plan, todo>>
  BY DEF JobCompletes, JobFails, runVars
<1>2. CASE JobCompletes(j)
  <2>1. jobs[j].kind = "create" <=> remote[jobs[j].prod] = NoOffer
    BY <1>1, NotTurnedDown DEF PushInv
  <2>2. Ended(jobs, j, "complete", jobs') /\ Carries(j, remote')
    BY <1>2, <2>1, CompletesOrNot
  <2> QED BY <1>1, <2>2, EndedPush
<1>3. CASE JobFails(j)
  <2>1. Ended(jobs, j, "failed", jobs') /\ UNCHANGED remote
    BY <1>3 DEF JobFails, Ended
  <2> QED BY <1>1, <2>1, EndedPush
<1> QED BY <1>2, <1>3

\* A product with a write more: its row fits if its own facts do.
LEMMA CoreLonger ==
  ASSUME TypeInv, CoreInv, NEW p \in Products, NEW job \in Job, job.prod = p,
         jobs' \in Seq(Job), Longer(jobs, job, jobs'),
         job.kind = "create" => job.set = Fields,
         \A q \in Products \ {p} : remote'[q] = remote[q],
         remote[p] # NoOffer => remote'[p] # NoOffer,
         job.status = "complete" => remote'[p] # NoOffer,
         NEW row, tx' = [tx EXCEPT ![p] = row], Fits(jobs', remote', p, row)
  PROVE  CoreInv'
<1>1. jobs \in Seq(Job) /\ tx \in [Products -> Row]
  BY DEF TypeInv, TypeOK
<1>2. ASSUME NEW q \in Products PROVE Fits(jobs', remote', q, tx'[q])
  <2>1. CASE q = p
    BY <1>1, <2>1
  <2>2. CASE q # p
    <3>1. Fits(jobs, remote, q, tx[q]) /\ tx'[q] = tx[q] /\ remote'[q] = remote[q]
      BY <1>1, <2>2 DEF CoreInv
    <3> QED BY <1>1, <2>2, <3>1, FitsOther
  <2> QED BY <2>1, <2>2
<1>3. Sound(jobs', remote')
  <2>1. /\ \A j \in DOMAIN jobs : jobs'[j] = jobs[j]
        /\ \A j \in DOMAIN jobs' \ DOMAIN jobs : jobs'[j] = job
    BY <1>1 DEF Longer
  <2>2. \A j \in DOMAIN jobs : jobs[j].prod \in Products
    BY <1>1, JobStatusType
  <2>3. \A q \in Products : remote[q] # NoOffer => remote'[q] # NoOffer
    OBVIOUS
  <2> QED BY <2>1, <2>2, <2>3 DEF Sound, CoreInv
<1> QED BY <1>2, <1>3 DEF CoreInv

\* _create: nothing is in flight for a product without an id and a job.
LEMMA CreatePush ==
  ASSUME Certain, TypeInv, PushInv, Create, jobs' \in Seq(Job)
  PROVE  PushInv'
<1> DEFINE p == at.prod
           row == tx[p]
           id == Len(jobs) + 1
           job(st) == Accepted(p, "create", Fields, plan[p], st)
<1>1. /\ p \in Products /\ row \in Row /\ jobs \in Seq(Job) /\ plan[p] \in Offer
      /\ id \in Nat \ {0} /\ tx \in [Products -> Row]
      /\ remote \in [Products -> Offer \cup {NoOffer}]
  BY DEF Create, TypeInv, TypeOK, PointOK, Calling, Planned
<1>2. row.pending = 0 /\ ~row.ext /\ CoreInv /\ Fits(jobs, remote, p, row)
  BY <1>1 DEF Create, PushInv, CallInv, CoreInv, Calling
<1>3. QueuedIn(jobs, p) = {}
  BY <1>1, <1>2, NothingInFlight
<1>4. UNCHANGED <<plan>>
  BY DEF Create
<1>5. ASSUME NEW st \in {"queued", "complete"}, Longer(jobs, job(st), jobs')
      PROVE  /\ job(st) \in Job /\ job(st).prod = p /\ job(st).status = st
             /\ job(st).kind = "create" /\ job(st).set = Fields
             /\ job(st).val = plan[p]
             /\ jobs'[id] = job(st) /\ id \in JobsIn(jobs', p)
             /\ \A i \in JobsIn(jobs', p) : i <= id
             /\ QueuedIn(jobs', p) = IF st = "queued" THEN {id} ELSE {}
             /\ \A f \in Fields : PromisedIn(jobs', remote', p, f) = plan[p][f]
  <2> DEFINE new == job(st)
  <2>1. /\ new \in Job /\ new.prod = p /\ new.status = st /\ new.kind = "create"
        /\ new.set = Fields /\ new.val = plan[p]
    BY <1>1, QueueLonger DEF Accepted
  <2> HIDE DEF new
  <2>2. jobs' = Append(jobs, new) /\ Longer(jobs, new, jobs')
    BY <1>5 DEF Longer, new
  <2>3. /\ DOMAIN jobs' = 1..id /\ jobs'[id] = new
        /\ \A j \in 1..Len(jobs) : jobs'[j] = jobs[j]
    BY <1>1, <2>1, <2>2
  <2>4. id \in JobsIn(jobs', p) /\ \A i \in JobsIn(jobs', p) : i <= id
    BY <1>1, <2>1, <2>3 DEF JobsIn
  <2>5. QueuedIn(jobs', p) = IF st = "queued" THEN {id} ELSE {}
    BY <1>1, <1>3, <2>1, <2>3 DEF QueuedIn, JobsIn
  <2>6. \A f \in Fields : PromisedIn(jobs', remote', p, f) = plan[p][f]
    <3>1. Longer(jobs, new, jobs') /\ new \in Job /\ jobs \in Seq(Job)
      BY <1>1, <2>1, <2>2
    <3>2. \A f \in new.set : PromisedIn(jobs', remote', new.prod, f) = new.val[f]
      BY <3>1, PromisedNew
    <3> QED BY <2>1, <3>2
  <2> QED BY <2>1, <2>3, <2>4, <2>5, <2>6 DEF new
<1>6. CASE /\ remote[p] = NoOffer
           /\ jobs' = Queue(p, "create", Fields, plan[p])
           /\ Proceed(p, [row EXCEPT !.pending = id], "get_job", "created", Fields)
           /\ UNCHANGED remote
  <2> DEFINE new == job("queued")
             next == [row EXCEPT !.pending = id]
  <2>1. Longer(jobs, new, jobs')
    BY <1>1, <1>6, QueueLonger
  <2>2. /\ new \in Job /\ new.prod = p /\ new.status = "queued"
        /\ new.kind = "create" /\ new.set = Fields
        /\ id \in JobsIn(jobs', p) /\ QueuedIn(jobs', p) = {id}
        /\ \A i \in JobsIn(jobs', p) : i <= id
        /\ \A f \in Fields : PromisedIn(jobs', remote', p, f) = plan[p][f]
    BY <1>5, <2>1
  <2>3. jobs'[id].kind = "create"
    BY <1>5, <2>1
  <2> HIDE DEF new
  <2>4. \A f \in Fields : row.pushed[f] = None
    BY <1>2, <1>6 DEF Fits
  <2>5. ~next.ext /\ next.pending = id /\ next.pushed = row.pushed
    BY <1>1, <1>2 DEF Row
  <2>6. Proceed(p, next, "get_job", "created", Fields) /\ tx' = [tx EXCEPT ![p] = next]
    BY <1>6 DEF Proceed
  <2> HIDE DEF next, id
  <2>7. Fits(jobs', remote', p, next)
    BY <1>1, <1>6, <2>2, <2>3, <2>4, <2>5 DEF Fits
  <2>8. CoreInv'
    BY <1>1, <1>2, <1>6, <2>1, <2>2, <2>6, <2>7, CoreLonger
  <2>9. next.pending # 0 /\ "get_job" \in Calling
    BY <1>1, <2>5 DEF Calling
  <2>10. \A f \in Fields : PromisedIn(jobs', remote', p, f) = plan[p][f]
    BY <2>2
  <2> HIDE DEF p
  <2> QED BY <1>1, <1>4, <2>6, <2>8, <2>9, <2>10, ProceedPush
<1>7. CASE /\ jobs' = [Queue(p, "create", Fields, plan[p])
                         EXCEPT ![id].status = "complete"]
           /\ remote' = [remote EXCEPT ![p] = plan[p]]
           /\ Finish(p, Remember([row EXCEPT !.pending = id, !.ext = TRUE],
                                 plan[p], FALSE))
  <2> DEFINE new == job("complete")
             base == [row EXCEPT !.pending = id, !.ext = TRUE]
             next == Remember(base, plan[p], FALSE)
  <2>1. Longer(jobs, new, jobs')
    BY <1>1, <1>7, QueueLonger
  <2>2. /\ new \in Job /\ new.prod = p /\ new.status = "complete"
        /\ new.kind = "create" /\ new.set = Fields
        /\ id \in JobsIn(jobs', p) /\ QueuedIn(jobs', p) = {}
        /\ \A f \in Fields : PromisedIn(jobs', remote', p, f) = plan[p][f]
    BY <1>5, <2>1
  <2> HIDE DEF new
  <2>3. base \in Row /\ base.ext /\ base.pending = id
    BY <1>1 DEF Row
  <2> HIDE DEF base
  <2>4. /\ next.ext /\ next.pending = id /\ next.pushed.price = plan[p].price
        /\ next.pushed.inv = plan[p].inv /\ next.pushed.active = plan[p].active
    BY <2>3, RememberLike
  <2>5. Finish(p, next) /\ tx' = [tx EXCEPT ![p] = next]
    BY <1>7 DEF Finish, base
  <2> HIDE DEF next, id
  <2>6. remote'[p] # NoOffer /\ \A q \in Products \ {p} : remote'[q] = remote[q]
    BY <1>1, <1>7, NoOfferAssumption
  <2>7. \A f \in Fields : next.pushed[f] = plan[p][f]
    BY <2>4 DEF Fields
  <2>8. Fits(jobs', remote', p, next)
    BY <2>2, <2>4, <2>6, <2>7 DEF Fits
  <2>9. CoreInv'
    BY <1>1, <1>2, <2>1, <2>2, <2>5, <2>6, <2>8, CoreLonger
  <2> HIDE DEF p
  <2> QED BY <1>1, <2>5, <2>9, FinishPush
<1>8. CASE /\ Proceed(p, [row EXCEPT !.pending = 0], "list", "conflict", Fields)
           /\ UNCHANGED <<jobs, remote>>
  <2> DEFINE next == [row EXCEPT !.pending = 0]
  <2>1. next.pushed = row.pushed /\ next.pending = row.pending /\ next.ext = row.ext
    BY <1>1, <1>2 DEF Row
  <2>2. Proceed(p, next, "list", "conflict", Fields)
    BY <1>8
  <2> HIDE DEF next
  <2>3. Fits(jobs, remote, p, next)
    BY <1>2, <2>1, FitsLike
  <2>4. CoreInv'
    BY <1>1, <1>2, <1>8, <2>2, <2>3, CoreRow DEF Proceed
  <2>5. "list" \in Calling
    BY DEF Calling
  <2> HIDE DEF p
  <2> QED BY <1>1, <1>4, <2>2, <2>4, <2>5, ProceedPush
<1>9. CASE CallFails(p) /\ UNCHANGED <<jobs, remote>>
  BY <1>1, <1>9, CallFailsPush
<1>10. ~Inject("lost_response")
  BY DEF Certain, Inject
<1> QED BY <1>6, <1>7, <1>8, <1>9, <1>10 DEF Create, storeVars

\* _update: the fields the PATCH carries are promised, the others were already
\* what the plan wants, and a price that is held back stays as it was.
LEMMA UpdatePush ==
  ASSUME Certain, TypeInv, PushInv, Update, jobs' \in Seq(Job)
  PROVE  PushInv'
<1> DEFINE p == at.prod
           row == tx[p]
           set == ToSend(p)
           priced == "price" \in set
           id == Len(jobs) + 1
           new == Accepted(p, "update", set, plan[p], "queued")
           kept == Remember(row, plan[p], ~priced)
           next == [kept EXCEPT !.pending = id]
<1>1. /\ p \in Products /\ row \in Row /\ jobs \in Seq(Job) /\ plan[p] \in Offer
      /\ id \in Nat \ {0} /\ tx \in [Products -> Row] /\ at.changed \in SUBSET Fields
      /\ at.step \in Calling /\ at.step = "update" /\ priced \in BOOLEAN
  BY DEF Update, TypeInv, TypeOK, PointOK, Calling, Planned, Point
<1>2. /\ row.ext /\ CoreInv /\ Fits(jobs, remote, p, row) /\ remote[p] # NoOffer
      /\ \A f \in Fields \ at.changed : row.pushed[f] = plan[p][f]
  BY <1>1 DEF PushInv, CallInv, CoreInv, Fits
<1>3. /\ set \subseteq at.changed /\ at.changed \ set \subseteq {"price"}
      /\ UNCHANGED remote
  BY DEF ToSend, Update
<1>4. CASE CallFails(p) /\ UNCHANGED jobs
  BY <1>1, <1>3, <1>4, CallFailsPush
<1>5. CASE jobs' = Queue(p, "update", set, plan[p]) /\ Finish(p, next)
  <2>1. Longer(jobs, new, jobs') /\ new \in Job
    BY <1>1, <1>3, <1>5, QueueLonger
  <2>2. /\ new.prod = p /\ new.status = "queued"
        /\ new.kind = "update" /\ new.set = set /\ new.val = plan[p]
    BY DEF Accepted
  <2> HIDE DEF new, set
  <2>3. /\ id \in JobsIn(jobs', p) /\ jobs'[id] = new
        /\ \A j \in DOMAIN jobs' : j # id => j \in DOMAIN jobs /\ jobs'[j] = jobs[j]
    BY <1>1, <2>1, <2>2 DEF Longer, JobsIn
  <2>4. /\ kept.ext = row.ext
        /\ kept.pushed.price = IF priced THEN plan[p].price ELSE row.pushed.price
        /\ kept.pushed.inv = plan[p].inv /\ kept.pushed.active = plan[p].active
    BY <1>1, RememberLike
  <2>5. kept \in Row
    BY <1>1, RememberType
  <2> HIDE DEF kept, id
  <2>6. next.ext /\ next.pending = id /\ next.pushed = kept.pushed
    BY <1>1, <1>2, <2>4, <2>5 DEF Row
  <2> HIDE DEF next
  <2>7. ASSUME NEW f \in Fields
        PROVE  next.pushed[f] \in {None, PromisedIn(jobs', remote', p, f)}
    <3>1. CASE f \in set
      <4>1. Longer(jobs, new, jobs') /\ new \in Job /\ jobs \in Seq(Job)
        BY <1>1, <2>1
      <4>2. \A g \in new.set : PromisedIn(jobs', remote', new.prod, g) = new.val[g]
        BY <4>1, PromisedNew
      <4>3. next.pushed[f] = plan[p][f]
        BY <2>4, <2>6, <2>7, <3>1 DEF Fields
      <4> QED BY <2>2, <3>1, <4>2, <4>3
    <3>2. CASE f \notin set
      <4>1. PromisedIn(jobs', remote', p, f) = PromisedIn(jobs, remote, p, f)
        BY <1>1, <1>3, <2>1, <2>2, <3>2, PromisedOld
      <4>2. next.pushed[f] = row.pushed[f]
        BY <1>2, <1>3, <2>4, <2>6, <2>7, <3>2 DEF Fields
      <4> QED BY <1>2, <4>1, <4>2 DEF Fits
    <3> QED BY <3>1, <3>2
  <2>8. ASSUME NEW j \in QueuedIn(jobs', p)
        PROVE  jobs'[j].kind # "create"
    <3>1. CASE j = id
      BY <2>2, <2>3, <3>1
    <3>2. CASE j # id
      <4>1. j \in QueuedIn(jobs, p) /\ jobs'[j] = jobs[j]
        BY <2>3, <3>2 DEF QueuedIn, JobsIn
      <4> QED BY <1>2, <4>1 DEF Fits
    <3> QED BY <3>1, <3>2
  <2>9. Fits(jobs', remote', p, next)
    BY <1>2, <1>3, <2>3, <2>6, <2>7, <2>8 DEF Fits
  <2>10. Finish(p, next) /\ tx' = [tx EXCEPT ![p] = next]
    BY <1>5 DEF Finish
  <2>11. CoreInv'
    BY <1>1, <1>2, <1>3, <2>1, <2>2, <2>9, <2>10, CoreLonger
  <2> HIDE DEF p
  <2> QED BY <1>1, <2>10, <2>11, FinishPush
<1>6. ~Inject("lost_response")
  BY DEF Certain, Inject
<1> QED BY <1>4, <1>5, <1>6 DEF Update

\* reconcile_jobs: a job that is done is cleared from its row, and a push whose
\* job failed is forgotten.
LEMMA ReconcilePush ==
  ASSUME TypeInv, PushInv, NEW p \in Products, Reconcile(p)
  PROVE  PushInv'
<1> DEFINE row == tx[p]
           done == [row EXCEPT !.pending = 0]
           found == [row EXCEPT !.pending = 0, !.ext = TRUE]
           gone == Forget(Failed(row))
<1> USE DEF storeVars
<1>1. /\ row \in Row /\ jobs \in Seq(Job) /\ tx \in [Products -> Row]
      /\ CoreInv /\ Sound(jobs, remote) /\ Fits(jobs, remote, p, row)
      /\ p \in todo /\ at.step = "reconcile" /\ row.pending # 0
      /\ \A q \in todo : tx[q].pending # 0
  BY DEF TypeInv, TypeOK, PushInv, CoreInv, PassInv, Reconcile
<1>2. Failed(row) \in Row /\ Failed(row).pending = row.pending
      /\ Fits(jobs, remote, p, Failed(row))
  BY <1>1, FailedType, FailedLike, FitsLike
<1>3. UNCHANGED <<jobs, remote, at, plan>> /\ todo' = todo \ {p}
  BY DEF Reconcile
<1>4. ASSUME NEW r, Fits(jobs, remote, p, r), tx' = [tx EXCEPT ![p] = r]
      PROVE  PushInv'
  <2>1. CoreInv'
    BY <1>1, <1>3, <1>4, CoreRow
  <2>2. PassInv'
    BY <1>1, <1>3, <1>4 DEF PassInv
  <2> QED BY <1>1, <1>3, <2>1, <2>2 DEF PushInv, CallInv, Calling
<1>5. \/ UNCHANGED tx
      \/ /\ jobs[row.pending].status = "complete"
         /\ tx' \in {[tx EXCEPT ![p] = done], [tx EXCEPT ![p] = found]}
      \/ /\ jobs[row.pending].status = "failed"
         /\ tx' = [tx EXCEPT ![p] = gone]
  BY Zenon DEF Reconcile
<1>6. CASE UNCHANGED tx
  <2>1. tx' = [tx EXCEPT ![p] = row]
    BY <1>1, <1>6
  <2> QED BY <1>1, <1>4, <2>1
<1>7. CASE /\ jobs[row.pending].status = "complete"
           /\ tx' \in {[tx EXCEPT ![p] = done], [tx EXCEPT ![p] = found]}
  <2>1. Fits(jobs, remote, p, done) /\ Fits(jobs, remote, p, found)
    BY <1>1, <1>7, FitsDone
  <2> HIDE DEF done, found
  <2> QED BY <1>4, <1>7, <2>1
<1>8. CASE /\ jobs[row.pending].status = "failed"
           /\ tx' = [tx EXCEPT ![p] = gone]
  <2>1. Fits(jobs, remote, p, gone)
    BY <1>1, <1>2, <1>8, FitsFailed
  <2> HIDE DEF gone
  <2> QED BY <1>4, <1>8, <2>1
<1> QED BY <1>5, <1>6, <1>7, <1>8

\* _resolve_offer_id, by the job: a row that waits for a job learns the truth.
LEMMA ResolveByJobPush ==
  ASSUME TypeInv, PushInv, ResolveByJob
  PROVE  PushInv'
<1> DEFINE p == at.prod
           row == tx[p]
           done == [row EXCEPT !.pending = 0]
           found == [row EXCEPT !.pending = 0, !.ext = TRUE]
           gone == Forget(row)
<1>1. /\ at.step = "get_job" /\ at.step \in Calling /\ p \in Products
      /\ row \in Row /\ jobs \in Seq(Job) /\ tx \in [Products -> Row]
      /\ at.origin \in Origins /\ at.changed \in SUBSET Fields
  BY DEF ResolveByJob, TypeInv, TypeOK, PointOK, Calling, Point
<1>2. /\ CoreInv /\ Sound(jobs, remote) /\ Fits(jobs, remote, p, row)
      /\ row.pending # 0 /\ UNCHANGED <<jobs, remote, plan>> /\ UNCHANGED plan
      /\ \A f \in Fields \ at.changed : row.pushed[f] = plan[p][f]
      /\ at.origin = "created" =>
            \A f \in Fields : PromisedIn(jobs, remote, p, f) = plan[p][f]
  BY <1>1 DEF PushInv, CoreInv, CallInv, ResolveByJob, storeVars
<1>3. /\ done \in Row /\ found \in Row /\ found.ext
      /\ done.pushed = row.pushed /\ found.pushed = row.pushed
  BY <1>1 DEF Row
<1>4. gone \in Row /\ gone.state = "failed"
  BY <1>1, ForgetType, ForgetLike
<1>5. CASE AfterResolve(p, row, FALSE)
  BY <1>1, <1>2, <1>5, AfterResolvePush
<1>6. CASE jobs[row.pending].status = "complete" /\ AfterResolve(p, found, TRUE)
  <2>1. Fits(jobs, remote, p, found) /\ remote[p] # NoOffer
    <3>1. /\ jobs \in Seq(Job) /\ Sound(jobs, remote) /\ row \in Row
          /\ Fits(jobs, remote, p, row) /\ row.pending # 0
          /\ jobs[row.pending].status = "complete"
      BY <1>1, <1>2, <1>6
    <3> HIDE DEF row, p
    <3>2. /\ remote[p] # NoOffer
          /\ Fits(jobs, remote, p, [row EXCEPT !.pending = 0])
          /\ Fits(jobs, remote, p, [row EXCEPT !.pending = 0, !.ext = TRUE])
      BY <3>1, FitsDone
    <3> QED BY <3>2
  <2> HIDE DEF found
  <2> QED BY <1>1, <1>2, <1>3, <1>6, <2>1, AfterResolvePush
<1>7. CASE jobs[row.pending].status = "failed" /\ AfterResolve(p, gone, FALSE)
  <2>1. Fits(jobs, remote, p, gone)
    BY <1>1, <1>2, <1>7, FitsFailed
  <2> HIDE DEF gone
  <2> QED BY <1>1, <1>2, <1>4, <1>7, <2>1, AfterResolvePush
<1>8. CASE /\ jobs[row.pending].status = "complete"
           /\ Proceed(p, done, "list", at.origin, at.changed)
  <2>1. Fits(jobs, remote, p, done) /\ remote[p] # NoOffer
    <3>1. /\ jobs \in Seq(Job) /\ Sound(jobs, remote) /\ row \in Row
          /\ Fits(jobs, remote, p, row) /\ row.pending # 0
          /\ jobs[row.pending].status = "complete"
      BY <1>1, <1>2, <1>8
    <3> HIDE DEF row, p
    <3>2. /\ remote[p] # NoOffer
          /\ Fits(jobs, remote, p, [row EXCEPT !.pending = 0])
          /\ Fits(jobs, remote, p, [row EXCEPT !.pending = 0, !.ext = TRUE])
      BY <3>1, FitsDone
    <3> QED BY <3>2
  <2> HIDE DEF done
  <2>2. CoreInv'
    BY <1>1, <1>2, <1>8, <2>1, CoreRow DEF Proceed
  <2>3. "list" \in Calling
    BY DEF Calling
  <2>4. /\ at'.step = "list" /\ at'.prod = p /\ at'.origin = at.origin
        /\ at'.changed = at.changed /\ tx'[p] = done
    BY <1>1, <1>8 DEF Proceed
  <2>5. CallInv'
    BY <1>2, <1>3, <2>1, <2>4 DEF CallInv
  <2>6. PassInv'
    BY <2>4 DEF PassInv
  <2> QED BY <2>2, <2>5, <2>6 DEF PushInv
<1> QED BY <1>5, <1>6, <1>7, <1>8, Zenon DEF ResolveByJob

\* _resolve_offer_id, by the product: an offer that is shown is ours.
LEMMA ResolveByProductPush ==
  ASSUME TypeInv, PushInv, ResolveByProduct
  PROVE  PushInv'
<1> DEFINE p == at.prod
           row == tx[p]
           found == [row EXCEPT !.ext = TRUE]
<1>1. /\ at.step = "list" /\ at.step \in Calling /\ p \in Products /\ row \in Row
  BY DEF ResolveByProduct, TypeInv, TypeOK, PointOK, Calling
<1>2. /\ Fits(jobs, remote, p, row) /\ UNCHANGED <<jobs, remote, plan>>
      /\ at.origin = "created" => remote[p] # NoOffer
  BY <1>1 DEF PushInv, CoreInv, CallInv, ResolveByProduct, storeVars
<1>3. CASE CallFails(p)
  BY <1>1, <1>2, <1>3, CallFailsPush
<1>4. CASE AfterResolve(p, row, FALSE)
  BY <1>1, <1>2, <1>4, AfterResolvePush
<1>5. CASE remote[p] # NoOffer /\ AfterResolve(p, found, TRUE)
  <2>1. found \in Row /\ found.ext /\ found.pushed = row.pushed
        /\ found.pending = row.pending
    BY <1>1 DEF Row
  <2> HIDE DEF found
  <2>2. Fits(jobs, remote, p, found)
    BY <1>2, <1>5, <2>1 DEF Fits
  <2> QED BY <1>1, <1>2, <1>5, <2>1, <2>2, AfterResolvePush
<1> QED BY <1>3, <1>4, <1>5, Zenon DEF ResolveByProduct

\* adopt_existing_offers: what is adopted is what the store shows, which is what
\* it last accepted for a product that has an offer and no id.
LEMMA AdoptPush ==
  ASSUME TypeInv, PushInv, AdoptExistingOffers
  PROVE  PushInv'
<1> DEFINE adopted(p) == p \in syncable /\ plan[p] # NoOffer /\ ~tx[p].ext
           own(p) == [tx[p] EXCEPT !.ext = TRUE, !.pushed = plan[p],
                                   !.state = LiveState(plan[p].active)]
<1>1. /\ UNCHANGED <<jobs, remote>> /\ at'.step = "idle"
      /\ tx' = [p \in Products |-> IF adopted(p) THEN own(p) ELSE tx[p]]
  BY DEF AdoptExistingOffers, Idle, storeVars
<1>2. ASSUME NEW p \in Products PROVE Fits(jobs, remote, p, tx'[p])
  <2>1. Fits(jobs, remote, p, tx[p]) /\ tx[p] \in Row /\ jobs \in Seq(Job)
    BY DEF PushInv, CoreInv, TypeInv, TypeOK
  <2>2. CASE ~adopted(p)
    BY <1>1, <2>1, <2>2
  <2>3. CASE adopted(p)
    <3>1. plan[p] = remote[p] /\ remote[p] # NoOffer /\ ~tx[p].ext
      <4>1. at.step = "adopt" /\ plan[p] # NoOffer /\ ~tx[p].ext
        BY <2>3 DEF AdoptExistingOffers
      <4>2. tx[p].ext \/ plan[p] \in {NoOffer, remote[p]}
        BY <4>1 DEF PushInv, PassInv
      <4> QED BY <4>1, <4>2
    <3>2. QueuedIn(jobs, p) = {}
      BY <2>1, <3>1, NothingInFlight
    <3>3. \A f \in Fields : PromisedIn(jobs, remote, p, f) = plan[p][f]
      BY <2>1, <3>1 DEF Fits
    <3>4. tx'[p] = own(p)
      BY <1>1, <2>3
    <3>5. own(p).ext /\ own(p).pending = tx[p].pending /\ own(p).pushed = plan[p]
      BY <2>1 DEF Row
    <3> HIDE DEF own
    <3> QED BY <2>1, <3>1, <3>2, <3>3, <3>4, <3>5 DEF Fits
  <2> QED BY <2>2, <2>3
<1>3. CoreInv'
  BY <1>1, <1>2 DEF PushInv, CoreInv
<1> QED BY <1>1, <1>3 DEF PushInv, CallInv, PassInv, Calling

\* The first offers are the store's own, and nothing is pushed yet.
LEMMA PushInit == Init => PushInv
<1> SUFFICES ASSUME Init PROVE PushInv
  OBVIOUS
<1>1. jobs = <<>> /\ at.step = "idle"
  BY DEF Init, Idle
<1>2. \A p : JobsIn(jobs, p) = {}
  BY <1>1 DEF JobsIn
<1>3. \A p : QueuedIn(jobs, p) = {} /\ \A f : WritesIn(jobs, p, f) = {}
  BY <1>2 DEF QueuedIn, WritesIn
<1>4. \A p \in Products : ~tx[p].ext /\ tx[p].pending = 0 /\ tx[p].pushed = NothingPushed
  BY DEF Init, BlankRow
<1>5. \A f \in Fields : NothingPushed[f] = None
  BY DEF Fields, NothingPushed
<1>6. \A p, f : PromisedIn(jobs, remote, p, f) = ShownIn(remote, p, f)
  BY <1>3, PromisedShown
<1>7. CoreInv
  BY <1>1, <1>2, <1>3, <1>4, <1>5, <1>6 DEF CoreInv, Sound, Fits, ShownIn
<1> QED BY <1>1, <1>7 DEF PushInv, CallInv, PassInv, Calling

\* Every step keeps what is pushed promised.
LEMMA PushStep ==
  ASSUME Certain, TypeInv, PushInv, [Next]_vars
  PROVE  PushInv'
<1> USE DEF supplierVars, storeVars, dbVars, runVars, ghostVars, boundVars
<1>1. jobs' \in Seq(Job) /\ tx \in [Products -> Row]
  BY TypeStep DEF TypeInv, TypeOK
<1>2. CoreInv /\ \A p \in Products : Fits(jobs, remote, p, tx[p])
  BY DEF PushInv, CoreInv
<1>3. ASSUME UNCHANGED <<jobs, remote, tx>> PROVE CoreInv'
  BY <1>2, <1>3 DEF CoreInv
<1>4. ASSUME UNCHANGED <<jobs, remote, tx, at, plan, todo>> PROVE PushInv'
  BY <1>4 DEF PushInv, CoreInv, CallInv, PassInv
<1>5. ASSUME CoreInv', at'.step \in {"idle", "loop"} PROVE PushInv'
  BY <1>5 DEF PushInv, CallInv, PassInv, Calling
<1>6. CASE UNCHANGED vars \/ Tick
  BY <1>4, <1>6 DEF vars, Tick
<1>7. CASE Environment
  <2>1. CASE \E p \in Products : ChangeWant(p) \/ ToggleSyncable(p)
    BY <1>4, <2>1 DEF ChangeWant, ToggleSyncable
  <2>2. CASE AdoptList
    <3>1. /\ UNCHANGED <<jobs, remote, tx>> /\ at'.step = "adopt" /\ plan' = remote
      BY <2>2 DEF AdoptList, Adopting, Idle
    <3> QED BY <1>3, <3>1 DEF PushInv, CallInv, PassInv, Calling
  <2> QED BY <1>7, <2>1, <2>2 DEF Environment
<1>8. CASE Store
  BY <1>1, <1>8, DonePush DEF Store
<1>9. CASE Abort
  BY <1>9 DEF Abort, Inject, Certain
<1>10. ASSUME NEW p \in Products, SkipUnchanged(p) PROVE PushInv'
  <2>1. UNCHANGED <<jobs, remote>> /\ tx' = [tx EXCEPT ![p] = tx[p]]
        /\ at'.step = "loop"
    BY <1>10 DEF SkipUnchanged, Finish, Looping, Idle
  <2>2. tx' = tx
    BY <1>1, <2>1
  <2> QED BY <1>3, <1>5, <2>1, <2>2
<1>11. ASSUME NEW p \in Products, SyncOne(p) PROVE PushInv'
  <2> DEFINE row == tx[p]
             step == IF row.ext THEN "update"
                     ELSE IF row.pending # 0 THEN "get_job" ELSE "create"
             differ == Differences(row, plan[p])
  <2>1. Proceed(p, row, step, "sync", differ) /\ UNCHANGED <<jobs, remote>>
        /\ UNCHANGED plan
    BY <1>11 DEF SyncOne
  <2>2. \A f \in Fields \ differ : row.pushed[f] = plan[p][f]
    BY DEF Differences
  <2>3. /\ step \in Calling
        /\ step = "update" => row.ext
        /\ step = "create" => row.pending = 0 /\ ~row.ext
        /\ step = "get_job" => row.pending # 0
    BY DEF Calling
  <2>4. CoreInv'
    BY <1>2, <2>1, CoreRow DEF Proceed
  <2> HIDE DEF step, differ, row
  <2> QED BY <2>1, <2>2, <2>3, <2>4, ProceedPush
<1>12. ASSUME NEW p \in Products, Reconcile(p) PROVE PushInv'
  BY <1>12, ReconcilePush
<1>13. CASE StartRun
  BY <1>3, <1>5, <1>13 DEF StartRun, Looping, Idle
<1>14. CASE StartReconcile
  <2>1. /\ UNCHANGED <<jobs, remote, tx>> /\ at'.step = "reconcile"
        /\ \A p \in todo' : tx[p].pending # 0
    BY <1>14 DEF StartReconcile, Reconciling, Idle
  <2> QED BY <1>3, <2>1 DEF PushInv, CallInv, PassInv, Calling
<1>15. CASE Commit
  BY <1>3, <1>5, <1>15 DEF Commit, Idle
<1>16. CASE DeferPrice
  <2>1. at.prod \in Products
    BY <1>16 DEF DeferPrice, TypeInv, PointOK, Calling
  <2>2. UNCHANGED <<jobs, remote>> /\ tx' = [tx EXCEPT ![at.prod] = tx[at.prod]]
        /\ at'.step = "loop"
    BY <1>16 DEF DeferPrice, Finish, Looping, Idle
  <2>3. tx' = tx
    BY <1>1, <2>1, <2>2
  <2> QED BY <1>3, <1>5, <2>2, <2>3
<1>17. CASE ResolveByJob
  BY <1>17, ResolveByJobPush
<1>18. CASE ResolveByProduct
  BY <1>18, ResolveByProductPush
<1>19. CASE Create
  BY <1>1, <1>19, CreatePush
<1>20. CASE Update
  BY <1>1, <1>20, UpdatePush
<1>21. CASE AdoptExistingOffers
  BY <1>21, AdoptPush
<1> QED
  BY <1>6, <1>7, <1>8, <1>9, <1>10, <1>11, <1>12, <1>13, <1>14, <1>15, <1>16,
     <1>17, <1>18, <1>19, <1>20, <1>21 DEF Next, RunStep

\* In such a state the row, the store's jobs and the offer shown agree.
LEMMA PushedAgrees ==
  ASSUME TypeInv, PushInv, StoreInv, NEW p \in Products, NEW f \in Fields,
         tx[p].pushed[f] # None
  PROVE  /\ tx[p].pushed[f] = Promised(p, f)
         /\ \/ Writes(p, f) # {} /\ jobs[Newest(p, f)].status # "complete"
            \/ f \in overtaken[p]
            \/ remote[p] # NoOffer /\ remote[p][f] = tx[p].pushed[f]
<1>1. tx[p].pushed[f] = PromisedIn(jobs, remote, p, f) /\ jobs \in Seq(Job)
  BY DEF PushInv, CoreInv, Fits, TypeInv, TypeOK
<1>2. Writes(p, f) = WritesIn(jobs, p, f)
  BY DEF Writes, JobsFor, WritesIn, JobsIn
<1>3. CASE WritesIn(jobs, p, f) = {}
  <2>1. tx[p].pushed[f] = ShownIn(remote, p, f)
    BY <1>1, <1>3, PromisedShown
  <2>2. remote[p] # NoOffer /\ remote[p][f] = tx[p].pushed[f]
    BY <2>1 DEF ShownIn
  <2> QED BY <1>1, <2>2, PromisedIs
<1>4. CASE WritesIn(jobs, p, f) # {}
  <2>1. PICK m \in WritesIn(jobs, p, f) : LastIn(jobs, p, f, m)
    BY <1>1, <1>4, WritesHaveLast
  <2>2. PromisedIn(jobs, remote, p, f) = jobs[m].val[f]
    BY <1>1, <2>1, PromisedLast
  <2>3. Newest(p, f) = m
    <3>1. (CHOOSE j \in WritesIn(jobs, p, f) : \A i \in WritesIn(jobs, p, f) : i <= j) = m
      BY <1>1, <2>1, OneLast
    <3> QED BY <1>2, <3>1, Zenon DEF Newest
  <2>4. f \in overtaken[p] \/ jobs[m].status # "complete"
        \/ (remote[p] # NoOffer /\ remote[p][f] = jobs[m].val[f])
    BY <2>1 DEF StoreInv, Landed
  <2> QED BY <1>1, <1>2, <1>4, <2>2, <2>3, <2>4, PromisedIs
<1> QED BY <1>3, <1>4

\* A deferred price, an adopted offer, a 409, a call that failed or gave no id,
\* a job that failed, two jobs of one offer that end in the other order:
\* whatever the row of _remember, _create, _update, reconcile_jobs and
\* adopt_existing_offers records as pushed is the last the store accepted, and
\* shown once that is done unless an older write landed after it, for every set
\* of products, prices and stocks, as long as no accepted write goes unanswered
\* and no run is rolled back.
THEOREM PushedStaysPromised ==
  ASSUME Certain
  PROVE  Spec => []PushedIsPromised
<1>1. TypeInv /\ PushInv /\ StoreInv => PushedIsPromised
  BY PushedAgrees DEF PushedIsPromised
<1>2. Init => TypeInv /\ PushInv /\ StoreInv
  BY TypeInit, PushInit, StoreInit
<1>3. TypeInv /\ PushInv /\ StoreInv /\ [Next]_vars => (TypeInv /\ PushInv /\ StoreInv)'
  BY TypeStep, PushStep, StoreStep
<1> QED BY <1>1, <1>2, <1>3, PTL DEF Spec

\* _sync_one waits for a create in flight before it sends another: the store
\* never has two creates of one product queued, whatever jobs fail and in
\* whatever order they end, as long as no accepted write goes unanswered and no
\* run is rolled back.
THEOREM CreatesAreWaitedFor ==
  ASSUME Certain
  PROVE  Spec => []OneCreateInFlight
<1>1. ASSUME TypeInv, PushInv, NEW p \in Products
      PROVE  Cardinality({j \in QueuedFor(p) : jobs[j].kind = "create"}) <= 1
  <2> DEFINE creates == {j \in QueuedFor(p) : jobs[j].kind = "create"}
             one == {tx[p].pending}
  <2>1. QueuedFor(p) = QueuedIn(jobs, p)
    BY DEF QueuedFor, JobsFor, QueuedIn, JobsIn
  <2>2. \A j \in creates : j = tx[p].pending
    BY <1>1, <2>1 DEF PushInv, CoreInv, Fits
  <2>3. IsFiniteSet(one) /\ Cardinality(one) = 1
    BY FS_Singleton
  <2>4. creates \subseteq one
    BY <2>2
  <2> HIDE DEF creates, one
  <2> QED BY <2>3, <2>4, FS_Subset DEF creates
<1>2. TypeInv /\ PushInv => OneCreateInFlight
  BY <1>1 DEF OneCreateInFlight
<1>3. Init => TypeInv /\ PushInv
  BY TypeInit, PushInit
<1>4. TypeInv /\ PushInv /\ [Next]_vars => (TypeInv /\ PushInv)'
  BY TypeStep, PushStep
<1> QED BY <1>2, <1>3, <1>4, PTL DEF Spec
=============================================================================
