# A TLA+ verification of the FazerCards → G2A bridge

The bridge reads a supplier's catalogue, matches it with a store's catalogue,
prices what matches, and keeps the store's offers at the wanted price and stock.
This directory holds TLA+ modules translated from its Python source
(`src/app/`), TLC configurations that check them on small instances, and proofs
that TLAPS checks for every instance. `PROJECT.json` lists runs, mutants,
findings, hazards and theorems, and maps every definition to the lines it models.

## 1. Inventory

| Component | State | Operations | What must be right |
|---|---|---|---|
| Offer sync (`services/offer_sync.py`) | `store_offers` rows: `offer_ext_id`, `state`, `pushed_*`, `pending_job_id`, `consecutive_failures` | `run`, `_sync_one`, `_create`, `_update`, `_resolve_offer_id`, `reconcile_jobs`, `adopt_existing_offers` | what is recorded as pushed is what the store holds; no second create; wanted offers are reached |
| Token bucket (`http/ratelimit.py`) | tokens, time of the last refill | `acquire`, `try_acquire` | the rate ceiling holds for any threads |
| Price budget (`http/ratelimit.py`) | `price_change_log` | `used`, `allows`, `record` | the store's hourly cap is kept |
| Store client (`stores/g2a.py`) | bearer token and expiry | token, products, offers, jobs | a dead token is replaced |
| HTTP client (`http/client.py`) | attempt count and refresh flag of a call | `request` | a POST takes effect once; every call ends |
| Idempotency guard (`services/idempotency.py`) | `idempotency_keys` row | `run_once` | a side effect happens at most once; replays agree |
| Matching (`services/matching.py`) | `product_mappings`, the claimed-products cache | `run`, `evaluate`, `apply`, `approve`, `reject` | 1:1; human decisions stand; automatic ones are clear |
| Pricing (`services/pricing.py`) | `fx_rates` | `rate`, `compute` | no stale rate; floor and limits hold |
| Supplier pull (`services/catalog_sync.py`) | `supplier_products`, `sync_runs` | `SupplierCatalogSync.run`, `SyncRunRecorder` | a product goes off after N misses in a row, no sooner or later |
| Store mirror (`services/catalog_sync.py`) | `store_products` | `StoreCatalogSync.run`, `iter_catalog` | a pass misses nothing it asked for; the mirror catches up |
| Titles (`services/text.py`, scoring in `matching.py`) | none; columns derived from titles | `parse_title`, `match_key`, `_shortlist`, `score_pair` | face value, region, platform and edition gate; one product is found under two wordings |
| Worker (`worker.py`) | `next_run_at`, `running`, stop flag | `tick`, `run_forever` | every job keeps running; a stop ends it |
| Admin API, CLI | none of their own | reviews, price edits, pauses, `map run --all`, the same syncs by hand | edits reach the right offer, also while runs are open |

**Interaction.** One worker thread runs the jobs in turn; each opens one database
session (`db.session_scope`), calls a service, and commits or rolls back as a
whole. The services meet only in the database: the pull writes
`supplier_products`, matching reads them and writes `product_mappings`, offer
sync reads both through the pricer and writes `store_offers`. Operators work
through the API or the CLI in sessions of their own at the same time. Store and
supplier are remote: offer writes are answered `202` with a job that ends later.

**What is hard.** Calls take effect at once and their records only with the
commit at the end of a run; jobs end in any order, relative to runs and to each
other, and may fail after they were accepted; answers are lost; rows are read before and written
after somebody else's commit; `now()` in the database is the start of the
transaction; limits are counted in rolling windows; a stop signal or an
exception arrives between any two steps. The full list, each at its line, is
under `hazards` in `PROJECT.json`.

## 2. Modules

| Module | Models | Instances |
|---|---|---|
| `OfferSync` | offer sync, price budget, the store's job queue | `MCOfferSync` |
| `Listings` | two offer runs at once under console, matcher and supplier | itself |
| `Matching` | runs and reviews on `product_mappings` | itself |
| `Titles` | title parser, shortlist, gates, score, verdict | `MCTitles` |
| `Idempotency` | `run_once` under racing callers and crashes | itself |
| `ExactlyOnce` | the promise that `Idempotency` implements | through `Idempotency` |
| `TokenBucket` | `acquire`, `try_acquire` | through `HttpClient` |
| `HttpClient` | `request` on top of the bucket: pacing, retries, token refresh | itself |
| `CatalogSync` | the supplier pull and its record | itself |
| `StoreMirror` | the store's catalogue, page by page | itself |
| `Pricing` | exchange rate cache and price arithmetic | `MCPricing` |
| `Worker` | the scheduling loop | `MCWorker` |
| `*Proofs` | the theorems; `HttpClientProofs` has those about `TokenBucket` as well, `CatalogSyncProofs` those about `StoreMirror`, `IdempotencyProofs` those about `Worker` | |

`HttpClient` extends `TokenBucket` and takes its actions as the first step of an
attempt. `Listings` composes, on one database and one store, what `Matching`,
`CatalogSync` and `Pricing` do to a listing with the part of `OfferSync` that
reads it, each cut down to what the others can see of it.

### OfferSync

One process runs `_sync_offers` repeatedly. A step ends where the process waits
for the store, so jobs and clock move between any two calls. `db`/`log` are what
is committed, `tx`/`txlog` what the open session sees; `Commit` copies the second
over the first, `Abort` the first over the second while the store keeps what it
was sent. A row's `ext` says whether `offer_ext_id` is known (a product has one
offer, so the id itself tells nothing more), `pushed` holds the three `pushed_*`
columns, `pending` is the position of the job in `jobs`, the store's queue.

`SyncOne` and `SkipUnchanged` are the branches of `_sync_one`; `Create`,
`DeferPrice` and `Update` are the calls; `ResolveByJob` and `ResolveByProduct`
are the two halves of `_resolve_offer_id`, and `AfterResolve` what each of its
three callers (a waiting create, a fresh one, a `409`) does with the answer.
`Reconcile` is a row of `reconcile_jobs`. `AdoptList` and `AdoptExistingOffers`
are the command that attaches offers made by hand.

`JobCompletes` and `JobFails` end any job that is queued. Offer writes are
asynchronous (`g2a.py:13-15`), `_update` sends a second PATCH while the job of the
first is queued (`offer_sync.py:293`), and nothing in the code makes the store work
them off in the order they were sent. The ghost `overtaken` remembers the fields that an
offer has from a write which landed after a newer one.

Failures are injected by kind (`Faults`), each run choosing the kinds its
question is about: a failing or rate-limited call, a lost answer, a job that
fails, a completed job that does not name its offer, a listing that does not
show it, a crash. A PATCH whose answer is lost stays at the same step and is sent
again with the same fields, as the HTTP client does. A price change is stamped
with the age of its transaction, because `changed_at` defaults to `now()`; the
store's view (`sends`) is stamped when it happens. Ages saturate one past the
window, where the code cannot tell them apart.

### Idempotency, Matching, HttpClient

`Idempotency` follows one key. A step ends where `run_once` commits or calls out.
How the guard is used (`Use`: a replay hook, a scalar result) is chosen in the
initial state; everything else happens in any order. `landed` counts side effects
that really happened; the operation may return, raise without effect, or raise
with it. A caller that raised or died may call again. Results carry whether they
were wrapped for storage. `together` remembers that two callers have owned the key
at once, which the code does not rule out: the guarantees end there.

`ExactlyOnce` says what callers may rely on, in four variables and three actions:
`Buy` only while nothing is settled and every earlier purchase went unheard,
`Settle` once, `Tell` of that one. The refinement mapping (`Promise`) reads the
settled purchase off the completed row and what was told off returned calls.

`Matching` gives every pair a score in percent, zero standing for a pair that a
hard gate or the shortlist rules out; a pull may change scores between runs. A
run reads committed rows and its own writes (`View`) and keeps its row locks; a
review waits for them, and both write only the columns that differ from what
they loaded (`Written`). Reviews fall anywhere into a run; `raced` remembers the
rows whose decision was committed between the run's read and its write of them.

`HttpClient` numbers the tokens. The server may revoke one at any time, act on a
request whose answer is lost, or answer any status the client tells apart. Each
attempt first waits in `TokenBucket`, where time is counted in ticks and a token is
`Unit` ticks' worth, so that a deficit and the sleep that covers it are integers.
`debt` is the ghost that measures the ceiling: tokens given out less what the rate
has earned since. Token fetches are not paced, as in the code.

### Titles

A title is a sequence of words. The tables hold the rows that the products of the
instance touch, in the order of the source, because the first hit wins. The parser
is translated function by function; substring tests of the code are word tests
where the code pads with blanks, and stay substring tests where it does not
(the `LIKE` of `_shortlist`). A product has a true identity, which no code sees;
supplier and store write it down in their own styles and may leave the region out
of the title, and the fields empty. `Evaluate` runs the matcher on one supplier row
against any shelf of store rows. `SequenceMatcher` is exact where one core name
holds the other, and takes each value of `Ratios` elsewhere. `PlainPrices` is no
part of the matcher: it says which catalogues write their prices so that the parser
must understand them, and `MCTitles` asserts it of its products.

### Listings

Two sessions, the worker's and the command line's, are open at once. A run reads
its list once (`plan`), calls the store for one product at a time (`hand` between
the call and the write), and commits at the end. Rows written and not committed
are locked; a session that needs one waits (`wait`), an insert that loses the
unique key ends its run, and of two that wait for each other the database ends
one. `Written` is the ORM's UPDATE of the changed columns. The console's edits
are actions of their own between any two of these steps, with the differences
between the two front ends: the API's clear flags win over a value and the edit
survives a failing preview, the command's values win over `--clear` and the edit
does not. Calls succeed at once here; `OfferSync` has the ways they fail.

### CatalogSync, Pricing, Worker

`CatalogSync` feeds items one at a time, in any order, with repetitions, and may
fail after any. `Contents` stands for the fields in `content_hash`, `Labels` for
the rest, which are refreshed only when the hash changes.

`StoreMirror` keeps the age of each entry's last change, which is all that
`updatedAtFrom` sees, saturated one past what can matter. The listing of a query is
computed again for every page, so products may join or leave it in between. The
worker's pass and the crawl by hand write one table; `Clashes` is the insert that
finds its key taken when the other pass commits. A product is its place in the
store's order, and a page is the entries of the listing with so many before them, so
that an entry which leaves moves up all that follow. `Newcomers` may join later, all
others are mirrored at first. Three ghosts serve the properties: what matched when
a pass began (`base`), whether anything has left its listing since (`shrunk`), and
when the last whole pass began, or an older one that committed after it (`since`).

`Pricing` counts money in 1/10000, the scale of the columns, so every rounding
of the code is a rounding of the model: half-up to the step or up to `.99`, then
floor, minimum, maximum, then half-even to cents. A rate row has the age the
code computes (`age`, from the start of the transaction that fetched it) and the
true one (`since`).

`Worker` keeps times as what is left of them, so no clock grows.

## 3. Runs

| Run | Checks | States | Time |
|---|---|---|---|
| `OfferSync_sync` | `PushedIsPromised`, `OneCreateInFlight`, `Converges` with calls and jobs that fail, jobs in any order | 877 k | 130 s |
| `OfferSync_budget` | `BudgetRespected` with lost answers, failed jobs, crashes | 3.3 M | 65 s |
| `Listings_console` | `RightOffer`, `OneWriter`, `ShownInTheEnd`, `RunsComplete` | 292 k | 50 s |
| `Idempotency_guard` | `KeepsPromise` (refinement), `OncePerLostAnswer`, `ResultsAgree`, `ResultIsFinal` | 7.3 M | 90 s |
| `Matching_runs` | `OneOwner`, `UnracedDecisionStands`, `SuggestedOnce`, `AutoIsClear` | 3.3 M | 65 s |
| `Titles_verdicts` | `FaceIsAGate`, `AutoIsRight`, `SameIsFound` | 524 k | 55 s |
| `HttpClient_calls` | `PostsOnce`, `AttemptsBounded`, `RefreshReplacesToken`, `CeilingHolds`, `WireCeiling`, `CallsEnd` | 666 k | 40 s |
| `CatalogSync_pulls` | `OffAfterGrace`, `RowIsFirstListing` | 52 k | 3 s |
| `StoreMirror_passes` | `NothingSlips`, `PassIsComplete`, `MirrorCatchesUp` | 805 k | 120 s |
| `Worker_loop` | `RestsBetweenRuns`, `EveryJobRuns`, `StopEnds` | 726 | 1 s |
| `Pricing_quotes` | `FreshRate`, `PriceCoversCost`, `FloorHolds`, `LimitsWin` | 94 k | 55 s |

Type correctness is a theorem for every module but `TokenBucket`'s own (section 4);
the runs of `Listings`, `Titles` and `Pricing` check it as well. What they show:

- *Offer sync.* As long as every write is answered and no run dies, what the
  `pushed_*` columns record is the last the store accepted, and what the store shows
  once that is done, unless an older write landed after it. A create is never
  repeated while one is queued. After the last change and failure every syncable
  product's offer becomes the wanted one, deferred prices and failed jobs included,
  but for the fields the bridge cannot know to be wrong (`Missed`): an older write landed
  last, or the write failed after a newer job took its place in the row. Both are behaviours
  of the code (section 5); the jobs themselves may end in any order and fail.
- *Budget.* The count holds through lost answers and rollbacks for the price
  changes whose record survived, over the hour less the longest run.
- *Listings.* Edits made while runs are open end up in the store, on the offer of
  the product they were made for, and runs go on completing. The exceptions are
  named in the properties, and each is a behaviour of the code (section 5): a
  mapping moved after it was read or sent, a product that two runs had between
  call and write at once, an offer changed by a run that was rolled back, and runs
  wedged on `uq_offer_ext_id`.
- *Guard.* In any interleaving of three callers that crash, are refused, lose
  their answer or replay, `run_once` does what `ExactlyOnce` allows, as long as no
  two callers own the key at once.
- *Matching.* The 1:1 rule holds however reviews and runs interleave; decisions
  stand except in the window described below.
- *Titles.* What is mapped without a human is right in everything both rows state,
  a face value with a currency is never matched to another, and a product that the
  mirror holds is put at least before the reviewer. The exceptions are names that
  hold an alias, and another edition in the exact bucket.
- *HTTP and bucket.* Retries do not escape the ceiling: every attempt takes a token.
- *Mirror.* No stop condition of the paging cuts a pass short, unless an entry
  leaves the listing meanwhile; what that pass misses, a later one within the
  window fetches. Whatever the mirror has behind changed since the last *whole* pass
  began: one that committed, with no page cap, with nothing leaving its listing, and
  that asked back to the start of the whole pass before it. So nothing is lost for good
  as long as a whole pass begins in every window. A pass that commits old pages over
  those of a whole one begun after it puts the reckoning back to its own beginning.
  For a whole pass in every window, `Window` must be at least the failed passes and
  one more, times the rest and the length of a pass. The mirror's job runs every
  `4 * catalog_sync_minutes` (`worker.py:105`): the default of four hours leaves
  room for five lost passes in the 26 hours, and from `catalog_sync_minutes = 390`
  on the window is shorter than the interval and changes are missed for good.
- *Pull, worker, pricing*: see the properties' comments.

One run refutes a sentence of the repository (`findings` quotes it):
`OfferSync_jobfail`: only the newest job is tracked, so one that fails after its
id was overwritten is never noticed, against "clears its pushed state if the job
failed": nothing is queued or left to look at, and a field whose last write failed is
still recorded as pushed (`FailedPushIsForgotten`).

**Bounds.** The offer-sync properties concern one product at a time, whose row, job queue
and budget share nothing with another's; one product with two or three changes
and one or two faults reaches every ordering of a create, two updates, their jobs
and a failure. In `OfferSync_sync` the change may come while a run is open: the
PATCH of the old values is then in flight when the next run sends the new ones, and
the two swap. `Limit` 1 is the tightest budget, so that the second change is the one
that must wait. `FailLimit` 2 stands for 5: the count only matters on reaching
it. Two SKUs and two store products are enough for a claim to be contested and
for a tie. The scores sit at the gate, below review and at the automatic
threshold, where a tie still leads to a review. Three callers, called twice each, allow a race for a
key that a third one finishes, and two crashes a recovery that dies as well.
Two SKUs, two store products and three console events reach a swap of two
mappings, an edit during a run and a command-line run across it; four events
(1.4 M states) pass too. The 25 products of `MCTitles` come in families that differ
in one attribute, and two rows on the shelf make a wrong neighbour, a tie and an
occupied bucket. Three products over pages of two give full, short and empty last
pages; `Window` 4 is the least that one lost pass leaves room for.
Two calls of three attempts and three tokens let a call be retried, refreshed and retried
again. Six pulls hold a grace period of three, a return, and part of another.
The price items cover a cost of zero, values around half a cent and half a step,
and limits below, between and above, contradictory ones included.

**Deadlock** is checked for `OfferSync`, `Listings`, `Matching`, `Pricing` and
`HttpClient`, where something can always go on. In the others the
calls, pulls, evaluations or the loop itself come to an end, or, in `StoreMirror`,
the bounds leave nothing but waiting.

**Fairness.** `OfferSync`: `WF(RunStep)`, since the worker starts runs for ever
(`EveryJobRuns`) and each call returns (`CallsEnd`); `WF(Store)`, the assumption
that the store works its queue off; `SF(Tick)`, because the worker sleeps the
job's interval between two runs, so time passes again and again though not in
every state. Faults and changes are bounded, hence finally stop: `Converges` says
that the wanted offer is reached after the last one. Its run has no
lost answers or crashes, after which recovery is not certain (section 5). Jobs fail in
it, and end in any order: `WF(Store)` says that each queue gets worked off, not how. `Listings`: `WF(Start(Worker))`, by `EveryJobRuns`,
and `WF(Step(r))` for each open run, whose calls end; the properties assume that
the exchange rate comes back for good, and nothing of the console. `StoreMirror`:
`WF` of the worker's start, of each pass and of time; failures are bounded.
`HttpClient`: `WF(Request)` and `WF(Tick)`; sleeps and timeouts are finite. `Worker`:
`WF(Loop)`, the thread goes on, and a job ends within `MaxDuration`.

## 4. Proofs

| Theorem | States |
|---|---|
| `TypeCorrect` in each of the eight `*Proofs` modules | `Spec => []TypeOK`; in `CatalogSyncProofs` that of `StoreMirror` |
| `CatalogSyncProofs!PullTypeCorrect` | `PullSpec => []PullTypeOK` |
| `IdempotencyProofs!LoopTypeCorrect` | `LoopSpec => []LoopTypeOK` |
| `OfferSyncProofs!BudgetHolds` | `Spec => []BudgetRespected` |
| `OfferSyncProofs!PushedStaysPromised` | `Certain` implies `Spec => []PushedIsPromised` |
| `OfferSyncProofs!CreatesAreWaitedFor` | `Certain` implies `Spec => []OneCreateInFlight` |
| `ListingsProofs!OffersStayRight` | `Spec => []RightOffer` |
| `ListingsProofs!OneWriterAlways` | `Spec => OneWriter` |
| `MatchingProofs!OneOwnerAlways` | `Spec => []OneOwner` |
| `MatchingProofs!DecisionsStand` | `Spec => []UnracedDecisionStands` |
| `MatchingProofs!NothingProposedTwice` | `Spec => []SuggestedOnce` |
| `MatchingProofs!AutoIsAlwaysClear` | `TieMargin < AutoScore` implies `Spec => []AutoIsClear` |
| `PricingProofs!StaleIsRefused` | `Spec => []FreshRate` |
| `PricingProofs!CostIsCovered` | `WholeCents` implies `Spec => []PriceCoversCost` |
| `PricingProofs!FloorIsKept` | `WholeCents` implies `Spec => []FloorHolds` |
| `PricingProofs!LimitsAlwaysWin` | `WholeCents` implies `Spec => []LimitsWin` |
| `PricingProofs!HalfACentAtMost` | `Spec => []NearlyRight`, the last three to within half a cent |
| `HttpClientProofs!NeverBuysTwice` | `Spec => []PostsOnce` |
| `HttpClientProofs!AttemptsAreBounded` | `Spec => []AttemptsBounded` |
| `HttpClientProofs!TokenIsReplaced` | `Spec => []RefreshReplacesToken` |
| `HttpClientProofs!BucketCeiling` | `BucketSpec => []CeilingHolds`, any number of threads |
| `HttpClientProofs!WireIsPaced` | `Spec => [](CeilingHolds /\ WireCeiling)` |
| `IdempotencyProofs!Implements` | `Spec => KeepsPromise`, the refinement of `ExactlyOnce` |
| `IdempotencyProofs!BuysOnce` | `Spec => []OncePerLostAnswer` |
| `IdempotencyProofs!AnswersAgree` | `Spec => []ResultsAgree` |
| `IdempotencyProofs!ResultStays` | `Spec => ResultIsFinal` |
| `CatalogSyncProofs!GraceIsKept` | `PullSpec => []OffAfterGrace` |
| `CatalogSyncProofs!RowsConverge` | `PullSpec => []RowIsFirstListing` |
| `CatalogSyncProofs!PassesAreComplete` | `Spec => PassIsComplete`, any changes between two pages |
| `CatalogSyncProofs!NothingIsMissed` | `Spec => []NothingSlips` |
| `IdempotencyProofs!FixedDelay` | `LoopSpec => RestsBetweenRuns` |
| `TitlesProofs!FaceGates` | `PlainPrices` implies `Spec => []FaceIsAGate` |

They hold for every value of the constants under the `ASSUME`s of the modules:
bounds are naturals, pages have a size above zero, a run is no longer than the window (`OfferSync`) or shorter
than the rate's maximal age (`Pricing`), intervals and capacities are positive,
and `Listings` has a store product and a stock above zero. `NULL` is no value of
a column, no row and no entry of the store (`NoneAssumption`, `NoOfferAssumption`,
`MirrorAssumption`). A product's region is one of the alias table, or none. The bounds on faults and
changes may be any naturals. Seven theorems have a hypothesis of their own:

- `Certain`: no lost answer and no run that dies. It is what the run `OfferSync_sync`
  checks; every other fault may happen, jobs that fail and jobs that end in the other
  order included. Without it both properties are false: a rolled back run forgets a
  push and a create, and so does an unanswered call (section 5).
- `TieMargin < AutoScore`: a product that scored nothing is no candidate, so a match
  of the margin's own score could have such a rival "within the margin". The code has
  0.02 and 0.92 (`matching.py:302`, `config.py:81`).
- `WholeCents`: the floor and the store's limits are whole cents. The
  columns allow finer limits, and then the last rounding can leave them (section 5).
  The default floor is 0.30 (`config.py:76`) and a store that takes prices in
  cents quotes limits in cents. `HalfACentAtMost` needs no such hypothesis: the same
  three properties hold to within half a cent for a floor and limits of any precision.
- `PlainPrices`: no word of a product but its price speaks of money, its price is a number
  and a currency side by side, and no number comes before a currency code. The
  parser looks for "number code" before "code number", so "Cyberpunk 2077 USD 100"
  reads as 2077 dollars (section 5).

*Type correctness of OfferSync* needs to know that a step that makes a call has
a product in hand, and that from the start of a run to its end the plan holds an
offer for every product: `TypeInv` adds this (`PointOK`).

*The budget* is not inductive. `BudgetInv` adds that rows and sends are told
apart by their job (`RowsOnce`, `SendsOnce`) and that each send whose record was
not lost has a row in the log (`SendsRecorded`) that is older by at most the
longest run. So a send younger than the hour less the
longest run has a row the budget still counts, distinct sends have distinct rows
(`RecentIsCounted`), and a price is sent only while fewer than `Limit` are
counted. A rollback keeps this because it makes orphans of exactly the sends
whose rows it loses.

*What was pushed, and creates in flight.* The two halves of the property have an
invariant each. `StoreInv` is about the store alone and holds under all faults: what the
store shows of a field is what its newest write set, once that write is done, unless
`overtaken` has the field. `PushInv` is about the rows and has three parts. `Fits` ties a row
to the jobs: each pushed field is empty or what the newest write that was accepted says,
done, failed or queued, or else the offer (`PromisedIn`); a row with an id has an
offer; its job is one of its own product; a queued create is the product's newest job
and the one its row waits for; a queued update is for a row with its id. Two more
conjuncts are about a row without an id, which `adopt_existing_offers` may fill in: with no
offer shown and no job to wait for it records nothing, and if an offer is shown, that is
what was promised. `Sound` says that what is complete has its offer and a create carries
every field. `CallInv` carries both across a call: a PATCH names every field in which row
and plan differ, and after an accepted POST the store is bound to the plan while
`_resolve_offer_id` still looks for the id. `PassInv` does it for `reconcile_jobs` and
`adopt_existing_offers`. The order of jobs matters nowhere: the end of a job, whichever it
is, changes its status and the offer shown, and which write is the newest depends on
neither (`PromisedEnded`). Only a create can make a product's offer appear, and it carries what it
promised. One create in flight is then a
corollary: two would both have to be the row's `pending_job_id`.

*Listings.* `RightInv` says of everything that names a store product for a
mapping - the row, the plan a run has read, its uncommitted row, the row in its hand -
that it is the mapping's product unless the mapping was moved (`OnProduct`).
`WriterInv` says that no two mappings, plans, committed or uncommitted rows name
the same offer, within a session or across the two (`MapsApart`, `PlansApart`,
`RowsApart`, `EachApart`), that no row is held by both sessions (`Locks`), and that
a row in hand keeps the id it was loaded with, or has that of the planned product if
it was inserted (`Carries`). The last is what the unique key needs: between two runs it is
checked on write, so ids must not change from then to the commit.

*One owner* rests on the unique key, but the open run and the request hold rows
the table does not: the invariant is stated on the table and on the run's view
of it, with locks keeping a review from taking what the run has written. `TypeInv`
supplies what is in hand and that no row disappears.

*Decisions stand* by `DecisionInv`: a decided row is in the table with a human's
status, the open run has not written it, and if the run has it in hand it read
the decision and will leave it (`Kept`); no version of an undecided row, in the
table, in the run or in the request, has a human's status (`Undecided`), so what
the run takes for a decision is one.

*Suggested once, and clear.* Both are about the cache of claimed products, which is
read once and kept by the run. `RunInv` says that the cache holds all that the run
has written (`CacheKeepsUp`), that a run's rows, cache and hand exist only while it
lasts and each product is taken once (`Within`), and that, unless a review raced for
it, the row in hand is still as it was read (`ReadHolds`), so that the write
stores what `evaluate` came up with. `ClearInv` carries the margin from the evaluation
(`HandIsClear`) to the written row: the cache only grows, so what is free shrinks.

*Prices.* The three properties are lemmas on the arithmetic first, for all naturals
(`MarkupIsRight`): each rounding is off by at most half its step or one cent, floor, minimum and
maximum are applied in the order of the code, and the last rounding changes nothing
of a whole number of cents. `PriceInv` then says that the rate a quote used is well formed.

*Freshness* rests on `Stamped`: a row may look older than it is, never younger, as
the stamp is taken before the provider is asked. A usable row is then truly
younger than the limit.

*The bucket* needs more than its ceiling: `BucketInv` says that what was given out
beyond the earnings, and what the next refill would put into the bucket, are
together at most the capacity. A grant moves one token from the second to the
first, a tick one from the first to the second, and the cap of the refill only
loses tokens. The client adds `WireInv`: the wire is ahead of the bucket by at most
the one token that an attempt holds while it waits for its bearer token.

*Posts and attempts.* `EffectsInv` bounds the effects by the attempts made, and
says of an unkeyed POST that nothing has landed while the call is under way: every
answer, or its loss, ends it. For a keyed POST it is the server that counts once.
`TokensInv` says that a call that was refused once now holds a token that never was.

*The guard.* `GuardInv` is `TypeOK`, the fact that the row exists once anyone has
read or claimed it, and, unless two callers have owned the key at once, `Guarded`:
one owner at a time, the owner's row is in progress under its own hash (or about
to be), the ledger (at most one purchase more than the lost ones, and none more
when the row is failed or the owner is about to buy) and that whoever returned was
told what is stored. The refinement follows action by action: `Operate` is
`Buy`, a first `RecordResult` is `Settle`, a read of the completed row is `Tell`,
the rest are stutters, and a step after which two callers own the key is the
disjunct of `ExactlyOnce` that promises nothing.

*The pull.* `PullInv` ties the counter of each row to the ghost streak of misses, up
to the grace period, and says that it is on exactly while the streak is shorter
(`GraceInv`); what the open session may differ in from the table is what the feed
has named so far, reset and switched on (`OpenPull`).

*A pass misses nothing.* `WalkInv` says of an open pass whose listing nothing has left
that every product of `base` is still listed, in no older version (`InSight`, `Fresh`),
and has been written, is on the page in hand or is still ahead, with at least as many
entries before it as the pages read so far hold (`Walked`). The listing only grows, so
an entry never moves to a page already read; when a stop condition holds, an entry
still ahead would need a place beyond the last one. The
step from "as many entries as places" to "every entry has a place" is a counting
argument: the number of entries before is an injection of the listing into its places,
and an injection between finite sets of one size is onto.

*Nothing slips.* `Recent` says of a pass that what it has read or written of a product
is either the store's last entry or behind a change made since the pass began, and that a product
which was outside its query changed longer ago than the window when it began. So when a
whole pass commits, what it leaves behind is young (changed since it began) or was
outside the query, hence older than the last whole pass, and then `NothingSlips` itself
says that it was not behind. Any other pass can only put back pages it read
after it began, so `since` goes back to that if a whole pass has begun after it.

*Prices in titles.* The parser takes the leftmost position of several sets, so first of all a
set of positions has a least one (`LeftmostIs`, from the well-foundedness of
the naturals). `Priced` says of a title that a price stands at one position and nothing else
in it speaks of money. It holds of name and price put together and survives whatever
packaging, key and region words the two sides append; in such a title the
sets of `extract_denomination` are that one position or empty (`PriceRead`). Two
products of different prices are then gated, and what is gated scores nothing and is no
candidate (`EvaluateIs`).

*The worker.* `Rested`: what a job has rested and what it still has to wait are
together at least its interval, so a job that is due has rested. `StillDue` carries
this from the tick's look at the clock to the start of the job.

Only model-checked:

- liveness, which is outside the prover: `Converges`, `ShownInTheEnd`,
  `RunsComplete`, `MirrorCatchesUp`, `CallsEnd`, `EveryJobRuns`, `StopEnds`;
- `AutoIsRight` and `SameIsFound` of `Titles`, which depend on the rows of the tables
  and on what folds over words leave of a title, whose proof is an induction over data.

## 5. Limits of the code seen while modelling

These follow from the code in a step or two and have no run of their own. The
modules are faithful to them, and the properties above are stated so that they
say what holds in spite of them.

- A run is one transaction (`db.py:65-70`): one that dies after a call forgets a
  push the store has accepted, against "Every offer remembers what was last pushed"
  (`README.md:76`). A create sent in a run that dies is forgotten as well, and the next run creates
  again (`offer_sync.py:241`), although the comment at line 153 wants to avoid it.
  An offer that was changed in such a run stays wrong if the wanted values return
  to what the row says (`ShownInTheEnd`, `astray`).
- Two jobs of one offer may be under way at once (`offer_sync.py:293`) and end in the
  other order. The offer then stays at the older value while the row holds the newer
  one, and no later run sees a difference, against "Record what the store now holds"
  (`offer_sync.py:322`). An older job that fails unseen leaves a difference of this
  kind, too, which is the finding above. `PushedIsPromised` and `Converges` leave out just these fields
  (`overtaken`, `Missed`).
- A mapping that is approved for, or rematched to (`map run --all`, `cli.py:209`),
  another store product keeps its `store_offers` row (`offer_sync.py:102`), so the
  old product's offer goes on getting the new one's prices. If another mapping then
  takes the old product over, its adoption violates `uq_offer_ext_id` at
  `offer_sync.py:215`, the error is not caught, and every run ends there until the
  mapping is changed again (`RunsComplete`, `Wedged`).
- Two runs at once may both send a product; the one that commits last has the row,
  not necessarily the store (`cli.py:176`).
- An offer whose product is paused, rejected or inactive keeps its last price and
  stock: nothing ends it (`offer_sync.py:79`).
- `map price` rolls its edit back, a `--pause` included, when the preview cannot be
  priced (`cli.py:306`); `set_pricing` keeps it.
- `changed_at` is the start of the transaction, so what a slow run sends late
  leaves the window early and one more change fits into the real hour
  (`ratelimit.py:103`): `BudgetRespected` is about the hour less the longest run.
- "A recorded failure is safe to retry: no side effect landed"
  (`idempotency.py:99`) is wrong for a timeout: hence `OncePerLostAnswer`. Two
  callers that read one failed record both execute (line 98), against "at most
  once" (line 64). With a
  replay hook a second caller may run beside a live first one (lines 103-115),
  and a scalar result is replayed wrapped in a dictionary (line 125).
- `apply` reads a row at `matching.py:321` and writes it at the flush with no lock or
  version: a review committed in between is overwritten, against "Never overwrites
  a human decision" (line 318).
- A rejected suggestion is the one stored when the request arrives, not the one
  the reviewer saw (`matching.py:425`). Unmatched rows keep a product that
  `_claimed_store_products` does not count (lines 174-180), so another row may be
  proposed it and clash with the unique key, which ends the run.
- A 401 answering an unkeyed POST does not drop the token (`client.py:302`); 425 is
  retried (line 34) though line 10 says 408 and 429 only.
- The `sync_runs` row of a failed run is rolled back with it
  (`catalog_sync.py:68`, `db.py:68`), against "Even a crash leaves a row".
- Region is a hard gate (`README.md:74`) between the regions the parser reads, and
  "row" is an alias of GLOBAL (`text.py:79`): without region fields the TURKEY and
  INDIA keys of "Saints Row" pass for each other. "Epic Mickey" reads as an Epic
  title. A face value without a currency gates only as the title's first number
  (`text.py:262`): FIFA 23 with 500 and with 1050 points are candidates of each other.
  A number before a currency code is the price (`text.py:254`), also in "Cyberpunk 2077
  USD 100", whose price is then lost.
- A row in the exact bucket, whose key has no edition, hides all others from
  `_shortlist` (`matching.py:227`); the mirror's key is built from the title alone.
- An entry that leaves the store's listing during a pass shifts a later one to a
  page already read (`g2a.py:210`); only a later pass finds it.
- Each client has a bucket of its own (`g2a.py:89`): the worker's job and a command
  together may send at twice the rate. `try_acquire` has no caller.
- After a stop request the tick still starts the due jobs behind the current one
  (`worker.py:137`).
- A fixed price is neither floored nor clamped (`pricing.py:161`), and rounding to
  cents after clamping can leave limits finer than a cent (line 208).

## 6. Not modelled

- `dry_run` and `limit` of a sync, and the 200-row page of `reconcile_jobs`.
- Jobs and failing calls of two overlapping offer runs: `Listings` has two runs whose
  calls succeed, `OfferSync` one run with every failure.
- The alias tables beyond the rows the instance touches, accents and punctuation, and
  `SequenceMatcher` on unrelated names.
- `delete_offer`, `wait_for_job` and the order calls of the store client: no caller.
- Configuration, encryption, logging, the read-only endpoints, the page, the
  schema dump, deployment.
- The order flow of phase 2, of which only tables and the purchase call exist.

## 7. Plan

Done: the offer sync with its budget, the guard against double purchases and its
refinement, matching, titles, the HTTP client with its token bucket, pricing, the
supplier pull, the store mirror, the worker, and listings under two runs and the
console. Next:

1. A register kept equal to the wanted offer as the abstract specification of
   `OfferSync`, with a refinement mapping and its proof on top of `PushInv`.
2. The order flow, once code drives it.

## Running

    tlc -workers 2 -config OfferSync_sync.cfg MCOfferSync
    tlapm OfferSyncProofs.tla
