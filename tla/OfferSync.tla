----------------------------- MODULE OfferSync -----------------------------
(***************************************************************************)
(* The offer synchroniser (app/services/offer_sync.py) against the store's *)
(* asynchronous offer API (app/stores/g2a.py), with the price-change       *)
(* budget of app/http/ratelimit.py.                                        *)
(*                                                                         *)
(* One process runs `_sync_offers` of app/worker.py again and again: one   *)
(* database session that pushes every syncable product, then reconciles    *)
(* the store's jobs, then commits.  A step of the model ends where the     *)
(* process waits for the store, so the store's jobs and the clock move     *)
(* between any two calls of a run.                                         *)
(*                                                                         *)
(* The database is kept twice: db and log are what is committed, tx and    *)
(* txlog what the open session sees.  A run that dies (an exception that   *)
(* _sync_one does not catch, a PricingError, a killed process) rolls the   *)
(* session back while the store keeps everything it was sent.              *)
(***************************************************************************)
EXTENDS Integers, Sequences, FiniteSets

CONSTANTS
    Products,      \* mapped store products (product_ext_id)
    Prices,        \* final prices the pricer can compute
    Stocks,        \* stock levels the supplier can report
    InventoryCap,  \* max_order_quantity * 50
    Limit,         \* effective_price_change_budget
    Window,        \* the budget's rolling hour, in ticks
    MaxRun,        \* the longest a run lasts, in ticks
    FailLimit,     \* consecutive failures that mark an offer FAILED (5)
    Faults,        \* kinds of failure the environment may inject
    MaxFaults,     \* bound: how many failures are injected
    MaxChanges,    \* bound: how often supplier and operator act
    None,          \* SQL NULL in a pushed_* column
    NoOffer,       \* the store has no offer of ours on a product
    NoProduct      \* no product is being processed

AllFaults == {"call_error", "rate_limited", "lost_response", "job_failure",
              "no_id", "hidden", "crash"}

ASSUME BoundsAssumption ==
    /\ Limit \in Nat \ {0}
    /\ Window \in Nat
    /\ MaxRun \in 0..Window
    /\ FailLimit \in Nat \ {0}
    /\ InventoryCap \in Nat
    /\ MaxFaults \in Nat
    /\ MaxChanges \in Nat
    /\ Faults \subseteq AllFaults

ASSUME DataAssumption ==
    /\ Stocks \subseteq Nat
    /\ None \notin Prices \cup Nat \cup BOOLEAN
    /\ NoProduct \notin Products

VARIABLES
    \* The supplier side of the database and the operator's switches.
    want,          \* product -> computed price and supplier stock
    syncable,      \* products that _syncable selects
    \* The store.
    remote,        \* product -> the offer the store shows, or NoOffer
    jobs,          \* every job the store accepted, as accepted; id = position
    \* The bridge's tables, committed and as the open session sees them.
    db, log,
    tx, txlog,
    \* The running process.
    at,            \* where the run stands
    plan,          \* product -> desired offer, from the rows read at the start
    todo,          \* products the current loop has still to visit
    elapsed,       \* ticks since the session's transaction began
    \* What the store saw and did, for the properties only.
    sends,         \* PATCH calls that carried a price: job id, product, age
    orphans,       \* sends whose price_change_log row was lost
    overtaken,     \* product -> fields last set by a write that landed late
    \* Bounds.
    faults, changes

storeVars == <<remote, jobs>>
supplierVars == <<want, syncable>>
dbVars == <<db, log>>
runVars == <<tx, txlog, at, plan, todo, elapsed>>
ghostVars == <<sends, orphans, overtaken>>
boundVars == <<faults, changes>>
vars == <<want, syncable, remote, jobs, db, log, tx, txlog, at, plan, todo,
          elapsed, sends, orphans, overtaken, faults, changes>>

-----------------------------------------------------------------------------
(* Types. *)

Fields == {"price", "inv", "active"}

Offer == [price : Prices, inv : Nat, active : BOOLEAN]

\* Having no offer is not an offer.
ASSUME NoOfferAssumption == NoOffer \notin Offer

States == {"pending", "live", "out_of_stock", "failed"}

\* The pushed_* columns: what was last sent, NULL before anything was.
Pushed == [price : Prices \cup {None}, inv : Nat \cup {None},
           active : BOOLEAN \cup {None}]

\* A store_offers row.  A product without a row is the blank row.
Row == [ext     : BOOLEAN,      \* offer_ext_id is known
        state   : States,
        pushed  : Pushed,
        pending : Nat,          \* pending_job_id, 0 for NULL
        fails   : 0..FailLimit] \* consecutive_failures, saturating

NothingPushed == [price |-> None, inv |-> None, active |-> None]

BlankRow == [ext |-> FALSE, state |-> "pending", pushed |-> NothingPushed,
             pending |-> 0, fails |-> 0]

Job == [prod : Products, kind : {"create", "update"}, set : SUBSET Fields,
        val : Offer, status : {"queued", "complete", "failed"}]

\* Ages saturate one tick past the window, where nothing tells them apart.
Ages == 0..(Window + 1)

Stamp == [job : Nat, prod : Products, age : Ages]

Steps == {"idle", "loop", "get_job", "list", "create", "update",
          "reconcile", "adopt"}

Origins == {"sync", "created", "conflict"}

Point == [step : Steps, prod : Products \cup {NoProduct}, origin : Origins,
          changed : SUBSET Fields]

TypeOK ==
    /\ want \in [Products -> [price : Prices, stock : Stocks]]
    /\ syncable \subseteq Products
    /\ remote \in [Products -> Offer \cup {NoOffer}]
    /\ jobs \in Seq(Job)
    /\ db \in [Products -> Row]
    /\ tx \in [Products -> Row]
    /\ log \subseteq Stamp
    /\ txlog \subseteq Stamp
    /\ at \in Point
    /\ plan \in [Products -> Offer \cup {NoOffer}]
    /\ todo \subseteq Products
    /\ elapsed \in 0..MaxRun
    /\ sends \subseteq Stamp
    /\ orphans \subseteq Nat
    /\ overtaken \in [Products -> SUBSET Fields]
    /\ faults \in 0..MaxFaults
    /\ changes \in 0..MaxChanges
-----------------------------------------------------------------------------
(* Helpers. *)

\* _desired: price as computed, stock capped, active exactly when in stock.
Desired(w) ==
    LET stock == IF w.stock > InventoryCap THEN InventoryCap ELSE w.stock
    IN [price |-> w.price, inv |-> stock, active |-> stock > 0]

Idle == [step |-> "idle", prod |-> NoProduct, origin |-> "sync", changed |-> {}]
Looping == [Idle EXCEPT !.step = "loop"]
Reconciling == [Idle EXCEPT !.step = "reconcile"]
Adopting == [Idle EXCEPT !.step = "adopt"]

LiveState(active) == IF active THEN "live" ELSE "out_of_stock"

\* The fields in which the wanted offer differs from what was last pushed.
Differences(row, desired) == {f \in Fields : row.pushed[f] # desired[f]}

\* Mutant: a deferred price is recorded as sent.
RememberDeferred(row, desired, keepPrice) ==
    [row EXCEPT !.pushed = desired,
                !.state = LiveState(desired.active),
                !.fails = 0]

\* _remember: everything but a price that was held back.
Remember(row, desired, keepPrice) ==
    [row EXCEPT !.pushed = [price  |-> IF keepPrice THEN row.pushed.price
                                                     ELSE desired.price,
                            inv    |-> desired.inv,
                            active |-> desired.active],
                !.state = LiveState(desired.active),
                !.fails = 0]

\* What a failed job does to the row in _resolve_offer_id.
Forget(row) ==
    [row EXCEPT !.pending = 0, !.state = "failed", !.pushed = NothingPushed]

\* The `except ApiError` branch of _sync_one.
Failed(row) ==
    LET n == IF row.fails < FailLimit THEN row.fails + 1 ELSE FailLimit
    IN [row EXCEPT !.fails = n,
                   !.state = IF n >= FailLimit THEN "failed" ELSE @]

\* Mutant: rows never leave the window.
UsedForever(p) == Cardinality({r \in txlog : r.prod = p})

\* PriceChangeBudget.used: rows of the last hour, both ends included.
Used(p) == Cardinality({r \in txlog : r.prod = p /\ r.age <= Window})

\* Mutant: off by one.
AllowsOneMore(p) == Used(p) <= Limit

\* PriceChangeBudget.allows.
Allows(p) == Used(p) < Limit

\* PriceChangeBudget.record: changed_at defaults to the database's now(),
\* which is the time the transaction began.  The job id tells rows apart.
Recorded(p, job) == txlog \cup {[job |-> job, prod |-> p, age |-> elapsed]}

\* create_offer and update_offer: the store accepts the write, with the fields
\* that are given, and queues a job for it.
Queue(p, kind, set, val) ==
    Append(jobs, [prod |-> p, kind |-> kind, set |-> set, val |-> val,
                  status |-> "queued"])

Overlay(offer, job) ==
    [price  |-> IF "price" \in job.set THEN job.val.price ELSE offer.price,
     inv    |-> IF "inv" \in job.set THEN job.val.inv ELSE offer.inv,
     active |-> IF "active" \in job.set THEN job.val.active ELSE offer.active]

JobsFor(p) == {j \in DOMAIN jobs : jobs[j].prod = p}

QueuedFor(p) == {j \in JobsFor(p) : jobs[j].status = "queued"}

\* The writes of one field that the store accepted, and the newest of them.
Writes(p, f) == {j \in JobsFor(p) : f \in jobs[j].set}

Newest(p, f) == CHOOSE j \in Writes(p, f) : \A i \in Writes(p, f) : i <= j

\* The fields of a job that a newer one has already set.
Late(j) ==
    {f \in jobs[j].set : \E i \in Writes(jobs[j].prod, f) :
                            j < i /\ jobs[i].status = "complete"}

\* A failure of this kind may happen now; it is charged to the bound.
Inject(kind) == kind \in Faults /\ faults < MaxFaults /\ faults' = faults + 1

Change == changes < MaxChanges /\ changes' = changes + 1

OneOlder(stamps) ==
    {[r EXCEPT !.age = IF @ <= Window THEN @ + 1 ELSE @] : r \in stamps}
-----------------------------------------------------------------------------
(* The environment: supplier catalogue, operator, clock, store. *)

\* A catalogue pull or a pricing change gives a product a new price or stock.
ChangeWant(p) ==
    /\ Change
    /\ \E w \in [price : Prices, stock : Stocks] :
          /\ w # want[p]
          /\ want' = [want EXCEPT ![p] = w]
    /\ UNCHANGED <<syncable, remote, jobs, db, log, runVars, ghostVars, faults>>

\* The operator pauses or resumes a mapping; the supplier drops or returns it.
ToggleSyncable(p) ==
    /\ Change
    /\ syncable' = IF p \in syncable THEN syncable \ {p} ELSE syncable \cup {p}
    /\ UNCHANGED <<want, remote, jobs, db, log, runVars, ghostVars, faults>>

\* Time passes between runs, and within a run that still has time left.
Tick ==
    /\ \/ at.step = "idle" /\ UNCHANGED elapsed
       \/ at.step # "idle" /\ elapsed < MaxRun /\ elapsed' = elapsed + 1
    /\ log' = OneOlder(log)
    /\ txlog' = OneOlder(txlog)
    /\ sends' = OneOlder(sends)
    /\ UNCHANGED <<supplierVars, storeVars, db, tx, at, plan, todo, orphans,
                   overtaken, boundVars>>

\* The store finishes a job.  Writes are asynchronous, and nothing makes it work
\* off two jobs of one offer in the order they were sent.  A create fails when
\* the product already has an offer.
JobCompletes(j) ==
    /\ jobs[j].status = "queued"
    /\ LET p == jobs[j].prod
           fresh == remote[p] = NoOffer
           ok == (jobs[j].kind = "create") <=> fresh
       IN /\ jobs' = [jobs EXCEPT ![j].status = IF ok THEN "complete" ELSE "failed"]
          /\ remote' = IF ~ok THEN remote
                       ELSE [remote EXCEPT ![p] =
                               IF fresh THEN jobs[j].val ELSE Overlay(@, jobs[j])]
          /\ overtaken' = IF ~ok THEN overtaken
                          ELSE [overtaken EXCEPT ![p] = (@ \ jobs[j].set) \cup Late(j)]
    /\ UNCHANGED <<supplierVars, dbVars, runVars, sends, orphans, boundVars>>

\* The store rejects a job it had accepted: a 202 that silently failed.
JobFails(j) ==
    /\ jobs[j].status = "queued"
    /\ Inject("job_failure")
    /\ jobs' = [jobs EXCEPT ![j].status = "failed"]
    /\ UNCHANGED <<supplierVars, remote, dbVars, runVars, ghostVars, changes>>
-----------------------------------------------------------------------------
(* The run: OfferSync.run, product by product. *)

\* The session opens and _syncable reads every mapping, supplier and store row.
StartRun ==
    /\ at = Idle
    /\ at' = Looping
    /\ plan' = [p \in Products |-> Desired(want[p])]
    /\ todo' = syncable
    /\ UNCHANGED <<supplierVars, storeVars, dbVars, tx, txlog, elapsed, ghostVars,
                   boundVars>>

\* The product is done with, leaving this row in the session.
Finish(p, row) ==
    /\ tx' = [tx EXCEPT ![p] = row]
    /\ todo' = todo \ {p}
    /\ at' = Looping

\* The run goes on to another call for the same product.
Proceed(p, row, step, origin, changed) ==
    /\ tx' = [tx EXCEPT ![p] = row]
    /\ at' = [step |-> step, prod |-> p, origin |-> origin, changed |-> changed]
    /\ UNCHANGED todo

\* The exception handlers of _sync_one, for a call that changed nothing.
CallFails(p) ==
    \/ Inject("rate_limited") /\ Finish(p, tx[p])
    \/ Inject("call_error") /\ Finish(p, Failed(tx[p]))

\* _sync_one: nothing differs, so nothing is sent.
SkipUnchanged(p) ==
    /\ at.step = "loop"
    /\ p \in todo
    /\ Differences(tx[p], plan[p]) = {}
    /\ Finish(p, tx[p])
    /\ UNCHANGED <<supplierVars, storeVars, dbVars, txlog, plan, elapsed,
                   ghostVars, boundVars>>

\* Mutant: a create in flight is not waited for.
SyncOneUnwaited(p) ==
    /\ at.step = "loop"
    /\ p \in todo
    /\ Differences(tx[p], plan[p]) # {}
    /\ Proceed(p, tx[p], IF tx[p].ext THEN "update" ELSE "create", "sync",
               Differences(tx[p], plan[p]))
    /\ UNCHANGED <<supplierVars, storeVars, dbVars, txlog, plan, elapsed,
                   ghostVars, boundVars>>

\* _sync_one: choose between waiting for a create, creating and updating.
SyncOne(p) ==
    /\ at.step = "loop"
    /\ p \in todo
    /\ Differences(tx[p], plan[p]) # {}
    /\ LET row == tx[p]
           step == IF row.ext THEN "update"
                   ELSE IF row.pending # 0 THEN "get_job" ELSE "create"
       IN Proceed(p, row, step, "sync", Differences(row, plan[p]))
    /\ UNCHANGED <<supplierVars, storeVars, dbVars, txlog, plan, elapsed,
                   ghostVars, boundVars>>

\* What the three callers of _resolve_offer_id do with its answer.
AfterResolve(p, row, resolved) ==
    \/ /\ at.origin = "sync"
       /\ IF resolved THEN Proceed(p, row, "update", "sync", at.changed)
                      ELSE Finish(p, row)                    \* awaiting_job
       /\ UNCHANGED txlog
    \/ /\ at.origin = "created" /\ ~resolved /\ row.state = "failed"
       /\ Finish(p, row)                                     \* errors
       /\ UNCHANGED txlog
    \/ /\ at.origin = "created" /\ (resolved \/ row.state # "failed")
       /\ Finish(p, Remember(row, plan[p], FALSE))           \* created
       /\ txlog' = Recorded(p, Len(jobs))
    \/ /\ at.origin = "conflict"
       /\ IF resolved THEN Proceed(p, row, "update", "conflict", Fields)
                      ELSE Finish(p, Failed(row))            \* the 409 again
       /\ UNCHANGED txlog

\* _resolve_offer_id, first half: ask for the job.
ResolveByJob ==
    /\ at.step = "get_job"
    /\ LET p == at.prod
           row == tx[p]
           job == jobs[row.pending]
       IN \/ /\ Inject("call_error")
             /\ AfterResolve(p, row, FALSE)
          \/ /\ job.status = "queued"
             /\ AfterResolve(p, row, FALSE)
             /\ UNCHANGED faults
          \/ /\ job.status = "failed"
             /\ AfterResolve(p, Forget(row), FALSE)
             /\ UNCHANGED faults
          \/ /\ job.status = "complete"
             /\ AfterResolve(p, [row EXCEPT !.pending = 0, !.ext = TRUE], TRUE)
             /\ UNCHANGED faults
          \/ /\ job.status = "complete"
             /\ Inject("no_id")
             /\ Proceed(p, [row EXCEPT !.pending = 0], "list", at.origin, at.changed)
             /\ UNCHANGED txlog
    /\ UNCHANGED <<supplierVars, storeVars, dbVars, plan, elapsed, ghostVars, changes>>

\* _resolve_offer_id, second half: ask which offers the product has.
ResolveByProduct ==
    /\ at.step = "list"
    /\ LET p == at.prod
           row == tx[p]
       IN \/ CallFails(p) /\ UNCHANGED txlog
          \/ /\ remote[p] # NoOffer
             /\ AfterResolve(p, [row EXCEPT !.ext = TRUE], TRUE)
             /\ UNCHANGED faults
          \/ /\ remote[p] = NoOffer
             /\ AfterResolve(p, row, FALSE)
             /\ UNCHANGED faults
          \/ /\ remote[p] # NoOffer
             /\ Inject("hidden")
             /\ AfterResolve(p, row, FALSE)
    /\ UNCHANGED <<supplierVars, storeVars, dbVars, plan, elapsed, ghostVars, changes>>

\* _create: the POST.  It is never retried, so an unanswered one is an error
\* although the store took it.
Create ==
    /\ at.step = "create"
    /\ LET p == at.prod
           row == tx[p]
           id == Len(jobs) + 1
           queue == Queue(p, "create", Fields, plan[p])
       IN \/ /\ remote[p] = NoOffer                          \* 202, job id only
             /\ jobs' = queue
             /\ Proceed(p, [row EXCEPT !.pending = id], "get_job", "created", Fields)
             /\ UNCHANGED <<remote, txlog, faults>>
          \/ /\ remote[p] = NoOffer /\ QueuedFor(p) = {}     \* the id at once
             /\ jobs' = [queue EXCEPT ![id].status = "complete"]
             /\ remote' = [remote EXCEPT ![p] = plan[p]]
             /\ Finish(p, Remember([row EXCEPT !.pending = id, !.ext = TRUE],
                                   plan[p], FALSE))
             /\ txlog' = Recorded(p, id)
             /\ UNCHANGED faults
          \/ /\ remote[p] # NoOffer \/ QueuedFor(p) # {}     \* 409
             /\ Proceed(p, [row EXCEPT !.pending = 0], "list", "conflict", Fields)
             /\ UNCHANGED <<storeVars, txlog, faults>>
          \/ /\ CallFails(p)
             /\ UNCHANGED <<storeVars, txlog>>
          \/ /\ remote[p] = NoOffer                          \* taken, unanswered
             /\ Inject("lost_response")
             /\ jobs' = queue
             /\ Finish(p, Failed(row))
             /\ UNCHANGED <<remote, txlog>>
    /\ UNCHANGED <<supplierVars, dbVars, plan, elapsed, ghostVars, changes>>

\* The fields a PATCH carries: the price only within the hourly budget.
ToSend(p) == IF Allows(p) THEN at.changed ELSE at.changed \ {"price"}

\* _update with only a price to send, and no budget for it.
DeferPrice ==
    /\ at.step = "update"
    /\ ToSend(at.prod) = {}
    /\ Finish(at.prod, tx[at.prod])
    /\ UNCHANGED <<supplierVars, storeVars, dbVars, txlog, plan, elapsed,
                   ghostVars, boundVars>>

\* _update: the PATCH with the changed fields.  An unanswered PATCH is sent
\* again, with the same fields, by the HTTP client until it gives up with a
\* call_error.
Update ==
    /\ at.step = "update"
    /\ ToSend(at.prod) # {}
    /\ LET p == at.prod
           set == ToSend(p)
           priced == "price" \in set
           id == Len(jobs) + 1
           stamp == [job |-> id, prod |-> p, age |-> 0]
       IN \/ /\ jobs' = Queue(p, "update", set, plan[p])
             /\ Finish(p, [Remember(tx[p], plan[p], ~priced) EXCEPT !.pending = id])
             /\ txlog' = IF priced THEN Recorded(p, id) ELSE txlog
             /\ sends' = IF priced THEN sends \cup {stamp} ELSE sends
             /\ UNCHANGED <<orphans, faults>>
          \/ /\ CallFails(p)
             /\ UNCHANGED <<jobs, txlog, sends, orphans>>
          \/ /\ Inject("lost_response")
             /\ jobs' = Queue(p, "update", set, plan[p])
             /\ sends' = IF priced THEN sends \cup {stamp} ELSE sends
             /\ orphans' = IF priced THEN orphans \cup {id} ELSE orphans
             /\ at' = [at EXCEPT !.changed = set]
             /\ UNCHANGED <<tx, txlog, todo>>
    /\ UNCHANGED <<supplierVars, remote, dbVars, plan, elapsed, overtaken, changes>>

\* reconcile_jobs: after the last product, select the rows with a job pending.
StartReconcile ==
    /\ at.step = "loop"
    /\ todo = {}
    /\ at' = Reconciling
    /\ todo' = {p \in Products : tx[p].pending # 0}
    /\ UNCHANGED <<supplierVars, storeVars, dbVars, tx, txlog, plan, elapsed,
                   ghostVars, boundVars>>

\* reconcile_jobs, one row: a failed job makes the bridge forget the push.
Reconcile(p) ==
    /\ at.step = "reconcile"
    /\ p \in todo
    /\ todo' = todo \ {p}
    /\ LET row == tx[p]
           job == jobs[row.pending]
       IN \/ /\ Inject("call_error")
             /\ UNCHANGED tx
          \/ /\ job.status = "queued"
             /\ UNCHANGED <<tx, faults>>
          \/ /\ job.status = "complete"
             /\ tx' = [tx EXCEPT ![p] = [row EXCEPT !.pending = 0, !.ext = TRUE]]
             /\ UNCHANGED faults
          \/ /\ job.status = "complete"
             /\ Inject("no_id")
             /\ tx' = [tx EXCEPT ![p].pending = 0]
          \/ /\ job.status = "failed"
             /\ tx' = [tx EXCEPT ![p] = Forget(Failed(row))]
             /\ UNCHANGED faults
    /\ UNCHANGED <<supplierVars, storeVars, dbVars, txlog, at, plan, elapsed,
                   ghostVars, changes>>

\* session_scope leaves normally: the whole run becomes durable at once.
Commit ==
    /\ at.step = "reconcile"
    /\ todo = {}
    /\ db' = tx
    /\ log' = txlog
    /\ at' = Idle
    /\ plan' = [p \in Products |-> NoOffer]
    /\ elapsed' = 0
    /\ UNCHANGED <<supplierVars, storeVars, tx, txlog, todo, ghostVars, boundVars>>

\* session_scope leaves by an exception, or the process dies: the session is
\* rolled back, the store keeps what it was sent.
Abort ==
    /\ at.step # "idle"
    /\ Inject("crash")
    /\ tx' = db
    /\ txlog' = log
    /\ orphans' = orphans \cup ({e.job : e \in sends} \ {r.job : r \in log})
    /\ at' = Idle
    /\ plan' = [p \in Products |-> NoOffer]
    /\ todo' = {}
    /\ elapsed' = 0
    /\ UNCHANGED <<supplierVars, storeVars, dbVars, sends, overtaken, changes>>

\* adopt_existing_offers, first half: list the account's offers.
AdoptList ==
    /\ at = Idle
    /\ Change
    /\ at' = Adopting
    /\ plan' = remote
    /\ UNCHANGED <<supplierVars, storeVars, dbVars, tx, txlog, todo, elapsed,
                   ghostVars, faults>>

\* adopt_existing_offers, second half: attach them to the mappings that are
\* syncable by now and commit.
AdoptExistingOffers ==
    /\ at.step = "adopt"
    /\ LET adopted(p) == /\ p \in syncable
                         /\ plan[p] # NoOffer
                         /\ ~tx[p].ext
           rows == [p \in Products |->
                      IF adopted(p)
                      THEN [tx[p] EXCEPT !.ext = TRUE, !.pushed = plan[p],
                                         !.state = LiveState(plan[p].active)]
                      ELSE tx[p]]
       IN tx' = rows /\ db' = rows
    /\ at' = Idle
    /\ plan' = [p \in Products |-> NoOffer]
    /\ elapsed' = 0
    /\ UNCHANGED <<supplierVars, storeVars, log, txlog, todo, ghostVars, boundVars>>
-----------------------------------------------------------------------------
(* The specification. *)

Init ==
    /\ want \in [Products -> [price : Prices, stock : Stocks]]
    /\ syncable = Products
    /\ remote \in [Products -> {NoOffer} \cup
                     [price : Prices, inv : {0}, active : {FALSE}]]
    /\ jobs = <<>>
    /\ db = [p \in Products |-> BlankRow] /\ tx = db
    /\ log = {} /\ txlog = {}
    /\ at = Idle
    /\ plan = [p \in Products |-> NoOffer]
    /\ todo = {}
    /\ elapsed = 0
    /\ sends = {} /\ orphans = {}
    /\ overtaken = [p \in Products |-> {}]
    /\ faults = 0 /\ changes = 0

Environment ==
    \/ \E p \in Products : ChangeWant(p) \/ ToggleSyncable(p)
    \/ AdoptList

Store == \E j \in DOMAIN jobs : JobCompletes(j) \/ JobFails(j)

RunStep ==
    \/ StartRun
    \/ \E p \in Products : SkipUnchanged(p) \/ SyncOne(p) \/ Reconcile(p)
    \/ ResolveByJob \/ ResolveByProduct
    \/ Create \/ DeferPrice \/ Update
    \/ StartReconcile \/ Commit
    \/ AdoptExistingOffers

Next == Environment \/ Store \/ RunStep \/ Abort \/ Tick

Spec == Init /\ [][Next]_vars

\* The worker keeps starting runs and a run that is not interrupted goes on;
\* the store works its queue off; time passes between two runs, because the
\* worker sleeps the job's interval after each one.
FairSpec ==
    /\ Spec
    /\ WF_vars(RunStep)
    /\ WF_vars(Store)
    /\ SF_vars(Tick)
-----------------------------------------------------------------------------
(* Properties. *)

\* The last value of a field that the store accepted from the bridge, or what it
\* shows of it if the bridge never wrote it.
Promised(p, f) ==
    IF Writes(p, f) # {} THEN jobs[Newest(p, f)].val[f]
    ELSE IF remote[p] # NoOffer THEN remote[p][f] ELSE None

\* "Every offer remembers what was last pushed": whatever the row records as
\* pushed is the last the store accepted, and once that is done the store shows
\* it, unless an older write landed after it.  A deferred price, an adopted
\* offer, a 409, a call or a job that failed must all leave it true, in whatever
\* order the store's jobs end.
PushedIsPromised ==
    \A p \in Products, f \in Fields :
       LET pushed == tx[p].pushed[f]
       IN pushed # None =>
             /\ pushed = Promised(p, f)
             /\ \/ Writes(p, f) # {} /\ jobs[Newest(p, f)].status # "complete"
                \/ f \in overtaken[p]
                \/ remote[p] # NoOffer /\ remote[p][f] = pushed

\* A create in flight is never followed by a second create: the store never
\* has two creates of one product queued.
OneCreateInFlight ==
    \A p \in Products :
       Cardinality({j \in QueuedFor(p) : jobs[j].kind = "create"}) <= 1

\* The recorded price changes of a product in the guaranteed part of the hour.
Recent(p) == {e \in sends : /\ e.prod = p
                            /\ e.job \notin orphans
                            /\ e.age <= Window - MaxRun}

\* The hourly price-change budget (ratelimit.py): the price changes whose
\* record was not lost stay within the limit.  The rows are stamped with the
\* start of the transaction, so the guarantee covers the hour less the longest
\* run.
BudgetRespected == \A p \in Products : Cardinality(Recent(p)) <= Limit

\* "The bridge tracks the job and clears its pushed state if the job failed":
\* with nothing in flight and no job left to look at, no field is recorded as
\* pushed whose last write failed.
FailedPushIsForgotten ==
    \A p \in Products, f \in Fields :
       (/\ QueuedFor(p) = {}
        /\ tx[p].pending = 0
        /\ Writes(p, f) # {}
        /\ jobs[Newest(p, f)].status = "failed") => tx[p].pushed[f] = None

\* A write that the bridge cannot know to be lost: an older one landed after it,
\* or it failed after a newer job took its place in the row.
Missed(p, f) ==
    \/ f \in overtaken[p]
    \/ /\ Writes(p, f) # {}
       /\ jobs[Newest(p, f)].status = "failed"
       /\ \E j \in JobsFor(p) : Newest(p, f) < j

\* The store ends up showing the price, stock and active flag that the supplier
\* side asks for, deferred prices and failed jobs included, but for the fields
\* whose last write the bridge cannot know to be lost.
Converges ==
    \A p \in Products :
       <>[](p \in syncable =>
               /\ remote[p] # NoOffer
               /\ \A f \in Fields : remote[p][f] = Desired(want[p])[f] \/ Missed(p, f))
=============================================================================
