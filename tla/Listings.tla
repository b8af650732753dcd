------------------------------ MODULE Listings ------------------------------
(***************************************************************************)
(* The life of a listing: the operator's console (app/api/main.py and      *)
(* app/cli.py), the matcher's --all run and the supplier's catalogue edit  *)
(* the rows that offer runs (app/services/offer_sync.py) have already      *)
(* read, and two offer runs - the worker's and a command-line one - may be *)
(* open at the same time.                                                  *)
(*                                                                         *)
(* A run is one session.  It reads its work list once (_syncable), sends   *)
(* one product after the other and commits at the end; a row it wrote      *)
(* stays locked until then, and only columns that differ from the loaded   *)
(* row are sent and written.  The store's calls succeed at once here:      *)
(* lost answers, jobs and budgets are the matter of OfferSync.  An offer   *)
(* is named by the store product it stands on, which can have only one.    *)
(***************************************************************************)
EXTENDS Integers, FiniteSets

CONSTANTS
    Skus,        \* supplier products, each with its mapping
    Goods,       \* store products
    Worker,      \* the scheduled offer run
    Manual,      \* `sync offers` on the command line
    Stocks,      \* stock levels the supplier reports
    Markups,     \* markup overrides; the default markup is None
    Fixed,       \* fixed prices
    MaxEvents,   \* bound: console requests, supplier changes, losses of the
                 \* exchange rate and command-line runs, together
    None         \* NULL

ASSUME ListingsAssumption ==
    /\ MaxEvents \in Nat /\ Worker # Manual
    /\ Stocks \subseteq Nat /\ 0 \in Stocks
    /\ None \notin Skus \cup Goods \cup Stocks \cup Markups \cup Fixed

\* There is something to list, and some of it is in stock.
ASSUME StartAssumption == Goods # {} /\ \E n \in Stocks : n > 0

VARIABLES
    maps,     \* sku -> product_mappings row
    item,     \* sku -> is_active and stock of the supplier product
    fx,       \* a fresh exchange rate can be had
    rows,     \* sku -> committed store_offers row, or None
    live,     \* store product -> our offer on it, or None
    run,      \* runner -> the state of its session
    moved,    \* skus retargeted after something was planned or sent for them
    astray,   \* skus of which the rows may have lost track: two runs had one
              \* between call and write at once, or a write was rolled back
    events

vars == <<maps, item, fx, rows, live, run, moved, astray, events>>
console == <<maps, item, fx>>

Runners == {Worker, Manual}
Statuses == {"unmatched", "pending", "auto", "approved", "rejected"}

Mapping == [status : Statuses, prod : Goods \cup {None}, enabled : BOOLEAN,
            markup : Markups \cup {None}, fixed : Fixed \cup {None}]

\* A price is what it was computed from.
Prices == {"fixed"} \X Fixed \cup {"markup"} \X (Markups \cup {None})
Offer == [price : Prices, stock : Stocks]
NothingPushed == [price |-> None, stock |-> None]

\* A store_offers row: product_ext_id from its creation on, offer_ext_id.
OfferRow == [prod : Goods, ext : Goods \cup {None},
             price : Prices \cup {None}, stock : Stocks \cup {None}]

\* A product on a run's work list, as _syncable read it.
PlanRow == [map : Mapping, stock : Stocks]

\* Having no row is not a row.
ASSUME NoneAssumption == None \notin OfferRow \cup PlanRow

\* A product in a run: the row as it was loaded and as it will be written.
InHand == [sku : Skus, loaded : OfferRow, new : OfferRow]

Session == [open : BOOLEAN, plan : [Skus -> PlanRow \cup {None}], todo : SUBSET Skus,
            wait : Skus \cup {None}, hand : InHand \cup {None},
            own : [Skus -> OfferRow \cup {None}]]

\* An offer of ours in the store, and the product whose run wrote it last.
Shop == [by : Skus, offer : Offer]

Idle == [open |-> FALSE, plan |-> [s \in Skus |-> None], todo |-> {},
         wait |-> None, hand |-> None, own |-> [s \in Skus |-> None]]

\* The rows keep their types, and a session that is closed has left nothing.
TypeOK ==
    /\ maps \in [Skus -> Mapping]
    /\ item \in [Skus -> [active : BOOLEAN, stock : Stocks]]
    /\ fx \in BOOLEAN
    /\ rows \in [Skus -> OfferRow \cup {None}]
    /\ live \in [Goods -> Shop \cup {None}]
    /\ run \in [Runners -> Session]
    /\ \A r \in Runners : ~run[r].open => run[r] = Idle
    /\ moved \subseteq Skus /\ astray \subseteq Skus
-----------------------------------------------------------------------------
(* The offer run.                                                          *)

\* _syncable.
Syncable(s) ==
    /\ maps[s].status \in {"auto", "approved"} /\ maps[s].prod # None
    /\ maps[s].enabled
    /\ item[s].active

\* Pricer.compute: a fixed price needs no exchange rate.
PriceOf(m) == IF m.fixed # None THEN <<"fixed", m.fixed>> ELSE <<"markup", m.markup>>
Priceable(m) == m.fixed # None \/ fx

\* Mutant: one piece is kept back, of an empty stock too.
DesiredLessOne(m, stock) == [price |-> PriceOf(m), stock |-> stock - 1]

\* _desired.
Desired(m, stock) == [price |-> PriceOf(m), stock |-> stock]

Other(r) == IF r = Worker THEN Manual ELSE Worker

\* Something the bridge does not do by itself.
Event == events < MaxEvents /\ events' = events + 1

\* A run begins.  A session that waits for a row goes first: the lock is its
\* own as soon as the other session has ended.
Start(r) ==
    /\ ~run[r].open /\ run[Other(r)].wait = None
    /\ IF r = Manual THEN Event ELSE UNCHANGED events
    /\ LET chosen == {s \in Skus : Syncable(s)}
       IN run' = [run EXCEPT ![r] =
                    [Idle EXCEPT !.open = TRUE, !.todo = chosen,
                     !.plan = [s \in Skus |-> IF s \in chosen
                                              THEN [map |-> maps[s], stock |-> item[s].stock]
                                              ELSE None]]]
    /\ UNCHANGED <<console, rows, live, moved, astray>>

Sent(r, s) == run[r].own[s] # None \/ (run[r].hand # None /\ run[r].hand.sku = s)

\* session_scope rolls the session back; the store keeps what it was sent.
Abort(r) ==
    /\ astray' = astray \cup {s \in Skus : rows[s] # None /\ Sent(r, s)}
    /\ run' = [run EXCEPT ![r] = Idle]
    /\ UNCHANGED <<console, rows, live, moved, events>>

\* A PricingError ends the run.
FailToPrice(r) ==
    /\ run[r].open /\ run[r].hand = None /\ run[r].wait = None
    /\ \E s \in run[r].todo : ~Priceable(run[r].plan[s].map)
    /\ Abort(r)

\* Another session has a row of s that it has not committed.
Locked(r, s) == run[Other(r)].own[s] # None

\* Another session has attached the offer of g to another row.
HeldByOther(r, s, g) ==
    g # None /\ \E t \in Skus \ {s} : run[Other(r)].own[t] # None /\ run[Other(r)].own[t].ext = g

\* Mutant: only the price is compared.
ChangedPrice(row, want) == {f \in {"price"} : row[f] # want[f]}

\* The columns of the loaded row that differ from the wanted values.
Changed(row, want) == {f \in {"price", "stock"} : row[f] # want[f]}

\* What the store shows after a call that carries the fields in set.
Shown(g, s, want, set) ==
    [live EXCEPT ![g] =
       [by |-> s,
        offer |-> [price |-> IF @ = None \/ "price" \in set THEN want.price ELSE @.offer.price,
                   stock |-> IF @ = None \/ "stock" \in set THEN want.stock ELSE @.offer.stock]]]

\* Ghost: the other run is between its call for s and its write.
Cross(r, s) == IF run[Other(r)].hand # None /\ run[Other(r)].hand.sku = s
               THEN astray \cup {s} ELSE astray

\* A call to the store.  A new row is inserted before it, with the offer's id
\* if that was adopted.
Call(r, s, loaded, ext, set, want) ==
    /\ live' = Shown(ext, s, want, set)
    /\ run' = [run EXCEPT
         ![r].wait = None,
         ![r].own[s] = IF rows[s] # None THEN @
                       ELSE [loaded EXCEPT !.ext = IF live[ext] # None THEN ext ELSE @],
         ![r].hand = [sku |-> s, loaded |-> loaded,
                      new |-> [loaded EXCEPT !.ext = ext, !.price = want.price,
                                             !.stock = want.stock]]]
    /\ astray' = Cross(r, s)
    /\ UNCHANGED <<console, rows, moved, events>>

Done(r, s) ==
    /\ run' = [run EXCEPT ![r].todo = @ \ {s}]
    /\ UNCHANGED <<console, rows, live, moved, astray, events>>

\* Mutant: the offer id need not be unique.
FreeToAll(r, s, g) == TRUE

\* Mutant: an offer that is there already is not adopted; the 409 ends the run.
FreeUnadopted(r, s, g) == g = None \/ run[r].hand # None

\* uq_offer_ext_id: no committed row but that of s has the offer of g.
Free(r, s, g) ==
    g = None \/ \A t \in Skus \ {s} : rows[t] # None => rows[t].ext # g

\* The run may take up s: alone, or where it already waits.
Ready(r, s) ==
    /\ run[r].open /\ run[r].hand = None
    /\ s \in run[r].todo /\ run[r].wait \in {None, s}
    /\ Priceable(run[r].plan[s].map)

\* A product with a store_offers row: skip it, or PATCH what changed.
Update(r, s) ==
    /\ Ready(r, s) /\ run[r].wait = None /\ rows[s] # None
    /\ LET want == Desired(run[r].plan[s].map, run[r].plan[s].stock)
           set == Changed(rows[s], want)
       IN IF set = {} THEN Done(r, s)
          ELSE Call(r, s, rows[s], rows[s].ext, set, want)

\* Mutant: the store's list of offers is not filtered by product.
TargetFirst(r, s) ==
    IF \E g \in Goods : live[g] # None THEN CHOOSE g \in Goods : live[g] # None
    ELSE run[r].plan[s].map.prod

\* _offer_row: the new row is bound to the product that the run has read.
Target(r, s) == run[r].plan[s].map.prod

\* The offer whose id the run is about to give to the row of s: the one it
\* created, or the one that the store's 409 pointed it to.
NewExt(r, s) ==
    IF run[r].hand # None
    THEN IF run[r].hand.loaded.ext = None THEN run[r].hand.new.ext ELSE None
    ELSE IF rows[s] = None /\ live[Target(r, s)] # None THEN Target(r, s) ELSE None

\* The database makes the run wait before it writes the row of s: the other
\* session has the same row, or the same offer id, uncommitted.
MustWait(r, s) == Locked(r, s) \/ HeldByOther(r, s, NewExt(r, s))

\* The run is about to write the row of s.
Writing(r, s) == \/ Ready(r, s) /\ rows[s] = None
                 \/ run[r].hand # None /\ run[r].hand.sku = s

Await(r, s) ==
    /\ run[r].wait = None /\ Writing(r, s) /\ MustWait(r, s)
    /\ run' = [run EXCEPT ![r].wait = s]
    /\ UNCHANGED <<console, rows, live, moved, astray, events>>

\* The other session has committed its row: uq_offer_mapping refuses ours.
LoseInsert(r) ==
    /\ run[r].wait # None /\ run[r].hand = None
    /\ rows[run[r].wait] # None
    /\ Abort(r)

\* uq_offer_ext_id refuses the id: the offer belongs to another row.
LoseOffer(r, s) ==
    /\ Writing(r, s) /\ ~MustWait(r, s)
    /\ ~Free(r, s, NewExt(r, s))
    /\ Abort(r)

\* INSERT the row, then create the offer or adopt the one that is there.
Create(r, s) ==
    /\ Ready(r, s) /\ rows[s] = None
    /\ ~MustWait(r, s) /\ Free(r, s, NewExt(r, s))
    /\ LET want == Desired(run[r].plan[s].map, run[r].plan[s].stock)
           fresh == [prod |-> Target(r, s), ext |-> None, price |-> None, stock |-> None]
       IN Call(r, s, fresh, Target(r, s), {"price", "stock"}, want)

\* The UPDATE of a row: only columns that differ from the loaded ones.
Written(stored, hand) ==
    IF stored = None THEN hand.new
    ELSE [hand.new EXCEPT
            !.price = IF hand.new.price # hand.loaded.price THEN @ ELSE stored.price,
            !.stock = IF hand.new.stock # hand.loaded.stock THEN @ ELSE stored.stock]

\* _remember, once no other session holds the row.
Save(r) ==
    /\ run[r].hand # None
    /\ LET s == run[r].hand.sku
       IN /\ ~MustWait(r, s) /\ Free(r, s, NewExt(r, s))
          /\ run' = [run EXCEPT ![r].own[s] = Written(rows[s], run[r].hand),
                                ![r].hand = None, ![r].wait = None,
                                ![r].todo = @ \ {s}]
    /\ UNCHANGED <<console, rows, live, moved, astray, events>>

\* Each run waits for a row that the other holds: the database ends one.
BreakDeadlock(r) ==
    /\ \A q \in Runners : run[q].wait # None /\ MustWait(q, run[q].wait)
    /\ Abort(r)

Commit(r) ==
    /\ run[r].open /\ run[r].todo = {} /\ run[r].hand = None
    /\ rows' = [s \in Skus |-> IF run[r].own[s] # None THEN run[r].own[s] ELSE rows[s]]
    /\ run' = [run EXCEPT ![r] = Idle]
    /\ UNCHANGED <<console, live, moved, astray, events>>
-----------------------------------------------------------------------------
(* The console, the supplier and the exchange rate.                        *)

\* uq_mapping_store_product.
Unclaimed(s, g) == \A t \in Skus \ {s} : maps[t].prod # g

\* Ghost: the mapping leaves a product that a run has read or sent.
Move(s, g) ==
    IF maps[s].prod # g /\ (\/ rows[s] # None
                            \/ \E r \in Runners : run[r].plan[s] # None
                            \/ \E h \in Goods : live[h] # None /\ live[h].by = s)
    THEN moved \cup {s} ELSE moved

\* approve, with or without another target.  A product of another row is
\* refused, by the check or by the unique key.
Approve(s, g) ==
    /\ Event
    /\ g # None /\ (g = maps[s].prod \/ Unclaimed(s, g))
    /\ maps' = [maps EXCEPT ![s].status = "approved", ![s].prod = g]
    /\ moved' = Move(s, g)
    /\ UNCHANGED <<item, fx, rows, live, run, astray>>

Reject(s) ==
    /\ Event
    /\ maps' = [maps EXCEPT ![s].status = "rejected"]
    /\ UNCHANGED <<item, fx, rows, live, run, moved, astray>>

\* `map run --all` on a row that no human has decided on: another product, a
\* suggestion to review, or nothing.
Rematch(s, g) ==
    /\ Event
    /\ maps[s].status \in {"unmatched", "pending", "auto"}
    /\ g # None => g = maps[s].prod \/ Unclaimed(s, g)
    /\ \E status \in (IF g = None THEN {"unmatched"} ELSE {"unmatched", "pending", "auto"}) :
          maps' = [maps EXCEPT ![s].status = status, ![s].prod = g]
    /\ moved' = Move(s, g)
    /\ UNCHANGED <<item, fx, rows, live, run, astray>>

\* set_pricing: a null field changes nothing, a clear flag wins over a value,
\* and the row is committed even when the preview cannot be priced.
SetPricing(s, markup, clearMarkup, fixed, clearFixed, enabled) ==
    /\ Event
    /\ maps' = [maps EXCEPT
         ![s].markup = IF clearMarkup THEN None ELSE IF markup # None THEN markup ELSE @,
         ![s].fixed = IF clearFixed THEN None ELSE IF fixed # None THEN fixed ELSE @,
         ![s].enabled = IF enabled # None THEN enabled ELSE @]
    /\ UNCHANGED <<item, fx, rows, live, run, moved, astray>>

\* `map price`: a value wins over --clear, --resume over --pause, and a row
\* that cannot be priced afterwards is left as it was.
MapPrice(s, clear, markup, fixed, pause, resume) ==
    /\ Event
    /\ LET kept(old) == IF clear THEN None ELSE old
           new == [maps[s] EXCEPT
                     !.markup = IF markup # None THEN markup ELSE kept(@),
                     !.fixed = IF fixed # None THEN fixed ELSE kept(@),
                     !.enabled = (@ /\ ~pause) \/ resume]
       IN maps' = IF Priceable(new) THEN [maps EXCEPT ![s] = new] ELSE maps
    /\ UNCHANGED <<item, fx, rows, live, run, moved, astray>>

\* The supplier's catalogue reports another stock, or drops or returns s.
Pull(s) ==
    /\ Event
    /\ \E active \in BOOLEAN, stock \in Stocks :
          item' = [item EXCEPT ![s] = [active |-> active, stock |-> stock]]
    /\ UNCHANGED <<maps, fx, rows, live, run, moved, astray>>

\* The rate in the table is too old and the provider is down.
LoseRate ==
    /\ Event
    /\ fx /\ fx' = FALSE
    /\ UNCHANGED <<maps, item, rows, live, run, moved, astray>>

RegainRate ==
    /\ ~fx
    /\ fx' = TRUE
    /\ UNCHANGED <<maps, item, rows, live, run, moved, astray, events>>
-----------------------------------------------------------------------------
Init ==
    /\ LET s == CHOOSE s \in Skus : TRUE
           g == CHOOSE g \in Goods : TRUE
       IN maps = [t \in Skus |-> [status |-> IF t = s THEN "auto" ELSE "unmatched",
                                  prod |-> IF t = s THEN g ELSE None,
                                  enabled |-> TRUE, markup |-> None, fixed |-> None]]
    /\ item = [s \in Skus |-> [active |-> TRUE, stock |-> CHOOSE n \in Stocks : n > 0]]
    /\ fx = TRUE
    /\ rows = [s \in Skus |-> None]
    /\ live = [g \in Goods |-> None]
    /\ run = [r \in Runners |-> Idle]
    /\ moved = {} /\ astray = {}
    /\ events = 0

\* A step of an open run.
Step(r) ==
    \/ FailToPrice(r) \/ LoseInsert(r) \/ Save(r) \/ BreakDeadlock(r) \/ Commit(r)
    \/ \E s \in Skus : Update(r, s) \/ Await(r, s) \/ LoseOffer(r, s) \/ Create(r, s)

Console ==
    \E s \in Skus :
       \/ Reject(s)
       \/ \E g \in Goods : Approve(s, g)
       \/ \E g \in Goods \cup {None} : Rematch(s, g)
       \/ \E m \in Markups \cup {None}, f \in Fixed \cup {None}, a, b \in BOOLEAN :
             \/ \E e \in BOOLEAN \cup {None} : SetPricing(s, m, a, f, b, e)
             \/ \E c \in BOOLEAN : MapPrice(s, c, m, f, a, b)

Next ==
    \/ \E r \in Runners : Start(r) \/ Step(r)
    \/ Console
    \/ \E s \in Skus : Pull(s)
    \/ LoseRate \/ RegainRate

Spec == Init /\ [][Next]_vars

\* The worker comes back to its job, and an open run goes on (every call has a
\* time-out).
FairSpec == Spec /\ WF_vars(Start(Worker)) /\ \A r \in Runners : WF_vars(Step(r))
-----------------------------------------------------------------------------
Wants(s) == Desired(maps[s], item[s].stock)

\* Another row holds the offer of the product that s is to be listed on.
Wedged == \E s, t \in Skus : /\ s # t /\ Syncable(s) /\ rows[s] = None
                             /\ rows[t] # None /\ rows[t].ext = maps[s].prod

\* Prices and stock stay attached to the right offer (README, "Mapping has to
\* survive restarts"): what a product's runs wrote stands on the store product
\* of its mapping, whatever the console and the supplier do while a run is
\* open.  The known exception is a mapping that was moved to another store
\* product after a run had read it: _offer_row never looks at the mapping
\* again, so the old product's offer keeps getting the new one's prices.
RightOffer ==
    \A g \in Goods : live[g] # None =>
       maps[live[g].by].prod = g \/ live[g].by \in moved

\* An offer changes hands only when its first product has no row any more
\* (_create's adoption after a 409, under uq_offer_ext_id): no two products
\* ever overwrite each other's prices.
OneWriter ==
    [][\A g \in Goods : live'[g] # live[g] /\ live[g] # None =>
          \A t \in Skus \ {live'[g].by} : rows[t] # None => rows[t].ext # g]_vars

\* With the exchange rate back, every product that is matched, enabled and
\* active ends up in the store as its mapping and its stock say, whatever was
\* edited, paused or resumed before (_sync_one, _remember).  So an offer that
\* stays out of date is one whose product the runs no longer select, or one of
\* four known kinds: a moved mapping, a product that two runs sent at the same
\* time, an offer changed by a run that was then rolled back, so that the row
\* still says what was pushed before, and all of them while the runs are
\* wedged.
ShownInTheEnd ==
    <>[]fx => <>[](Wedged \/ \A s \in Skus : Syncable(s) =>
                     \/ s \in moved \cup astray
                     \/ /\ live[maps[s].prod] # None
                        /\ live[maps[s].prod].offer = Wants(s))

\* Runs go on being committed: deadlocks, lost inserts and pricing failures end
\* a run but never all of them (run, session_scope).  The one exception is a
\* mapping moved away from a product that another mapping then takes over: its
\* row still holds the offer's id, uq_offer_ext_id refuses the adoption, and
\* the error, which _sync_one does not catch, ends every run from then on.
RunsComplete ==
    <>[]fx => \/ []<><<\E r \in Runners : Commit(r)>>_vars
              \/ <>[]Wedged
=============================================================================
