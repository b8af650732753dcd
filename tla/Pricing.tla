------------------------------ MODULE Pricing -------------------------------
(***************************************************************************)
(* From a supplier's cost to a store price (app/services/pricing.py), with *)
(* the cached exchange rate it depends on.                                 *)
(*                                                                         *)
(* A sync run prices one product after another inside one transaction; a   *)
(* request of the admin API prices in a transaction of its own meanwhile.  *)
(* Whoever finds the cached rate too old asks the provider for a new one,  *)
(* and fails if there is none.                                             *)
(*                                                                         *)
(* Money is counted in units of 1/10000, the scale of the Numeric(12, 4)   *)
(* columns, rates and markups in percent, so that nothing is lost before   *)
(* the code rounds.                                                        *)
(***************************************************************************)
EXTENDS Integers, FiniteSets

CONSTANTS
    Items,      \* what compute may be asked to price
    Rates,      \* rates the provider quotes, in percent
    Pins,       \* what fx_rate_usd_eur may be set to, None for unset
    Roundings,  \* what price_rounding may be: a step, or 9900 for "0.99"
    Floor,      \* min_offer_price
    MaxAge,     \* fx_max_age_hours, in ticks
    MaxRun,     \* the longest a run lasts, in ticks
    None        \* NULL

Cent == 100
Unit == 10000

\* A product to price: cost, overrides and the store's limits, 0 for no limit.
Item == [cost : Nat, fixed : Nat \cup {None}, markup : Nat, min : Nat, max : Nat]

ASSUME PricingAssumption ==
    /\ None \notin Nat
    /\ Items \subseteq Item
    /\ Rates \subseteq Nat \ {0}
    /\ Pins \subseteq Rates \cup {None}
    /\ Roundings \subseteq {Cent, 5 * Cent, 10 * Cent, 99 * Cent}
    /\ Floor \in Nat
    /\ MaxAge \in Nat \ {0}
    /\ MaxRun \in Nat /\ MaxRun < MaxAge

VARIABLES
    settings, \* the two settings above, read from the environment once
    market,   \* the rate the provider quotes now
    fx,       \* the newest committed fx_rates rows
    own,      \* rows the open run has added
    running,  \* a run is under way
    elapsed,  \* ticks since its transaction began
    quote     \* the last product a run priced: item, rate row, price

vars == <<settings, market, fx, own, running, elapsed, quote>>

\* age is now - fetched_at; since is the time since the provider really said so.
FxRate == [rate : Rates, age : 0..MaxAge, since : 0..MaxAge]

\* NULL is not a row.
ASSUME NoneAssumption == None \notin FxRate

Quote == [item : Items, by : FxRate \cup {None}, price : Nat]

Settings == [pinned : Pins, rounding : Roundings]

TypeOK ==
    /\ settings \in Settings
    /\ market \in Rates
    /\ fx \subseteq FxRate
    /\ own \subseteq FxRate
    /\ running \in BOOLEAN
    /\ elapsed \in 0..MaxRun
    /\ quote \in Quote \cup {None}
-----------------------------------------------------------------------------
(* The arithmetic.  A value is the fraction num / den of units. *)

HalfUp(num, den) == (2 * num + den) \div (2 * den)

\* Mutant: rounds down.
RoundDown(num, den) ==
    (num \div (den * settings.rounding)) * settings.rounding

\* _round: to the nearest step, or up to a whole unit less a cent.
Round(num, den) ==
    LET near == HalfUp(num, den * Unit)
        whole == IF near * Unit * den < num THEN near + 1 ELSE near
        less == IF whole = 0 THEN 0 ELSE whole * Unit - Cent
    IN IF settings.rounding = 99 * Cent
       THEN IF less > 99 * Cent THEN less ELSE 99 * Cent
       ELSE HalfUp(num, den * settings.rounding) * settings.rounding

\* Decimal.quantize(0.01), whose default is half to even.
ToCents(n) ==
    LET cents == n \div Cent
        rest == 2 * (n % Cent)
    IN IF rest > Cent \/ (rest = Cent /\ cents % 2 = 1) THEN (cents + 1) * Cent
       ELSE cents * Cent

\* Mutant: there is no floor.
FlooredNever(n) == n

\* min_offer_price is the backstop.
Floored(n) == IF n < Floor THEN Floor ELSE n

\* Mutant: the two limits change places.
ClampedSwapped(n, item) ==
    IF item.max > 0 /\ n < item.max THEN item.max
    ELSE IF item.min > 0 /\ n > item.min THEN item.min ELSE n

\* The store's minimum, then its maximum.
Clamped(n, item) ==
    LET raised == IF item.min > 0 /\ n < item.min THEN item.min ELSE n
    IN IF item.max > 0 /\ raised > item.max THEN item.max ELSE raised

\* supplier_price * rate * (1 + markup / 100), rate in percent.
RawNum(item, rate) == item.cost * rate * (100 + item.markup)
RawDen == 100 * 100

\* compute.
FixedPrice(item) == Round(item.fixed, 1)
MarkupPrice(item, rate) ==
    ToCents(Clamped(Floored(Round(RawNum(item, rate), RawDen)), item))
-----------------------------------------------------------------------------
(* The exchange rate. *)

Newest(rows) == {r \in rows : \A q \in rows : r.age <= q.age}

\* Mutant: a rate of exactly the maximal age is still good.
UsableLonger(row) == row.age <= MaxAge

\* FxProvider.rate: the cached row is younger than fx_max_age_hours.
Usable(row) == row.age < MaxAge

\* Mutant: an answer of zero is taken for a rate.
SaneAny(answer) == TRUE

\* _fetch refuses an answer without a positive rate.
Sane(answer) == answer > 0

\* The provider is asked: today's rate, or nonsense.
Answer == {market, 0}

\* The row of a fetched rate: fetched_at is when the transaction began.
Fetched(rate, age) == [rate |-> rate, age |-> age, since |-> 0]

Older(rows) ==
    {[r EXCEPT !.age = IF @ < MaxAge THEN @ + 1 ELSE @,
               !.since = IF @ < MaxAge THEN @ + 1 ELSE @] : r \in rows}

MarketMoves(rate) ==
    /\ rate # market
    /\ market' = rate
    /\ UNCHANGED <<fx, own, running, elapsed, quote>>

Tick ==
    /\ ~running \/ elapsed < MaxRun
    /\ elapsed' = IF running THEN elapsed + 1 ELSE 0
    /\ fx' = Older(fx)
    /\ own' = Older(own)
    /\ quote' = None
    /\ UNCHANGED <<market, running>>
-----------------------------------------------------------------------------
StartRun ==
    /\ ~running
    /\ running' = TRUE
    /\ UNCHANGED <<market, fx, own, elapsed, quote>>

\* A product with a fixed price: no rate, no floor, no limits.
PriceFixed(item) ==
    /\ running
    /\ item.fixed # None
    /\ quote' = [item |-> item, by |-> None, price |-> FixedPrice(item)]
    /\ UNCHANGED <<market, fx, own, running, elapsed>>

\* A rate the operator pinned wins.
PricePinned(item) ==
    /\ running
    /\ item.fixed = None
    /\ settings.pinned # None
    /\ quote' = [item |-> item, by |-> None,
                 price |-> MarkupPrice(item, settings.pinned)]
    /\ UNCHANGED <<market, fx, own, running, elapsed>>

\* The cached rate is young enough.
PriceCached(item) ==
    /\ running
    /\ item.fixed = None /\ settings.pinned = None
    /\ \E row \in Newest(fx \cup own) :
          /\ Usable(row)
          /\ quote' = [item |-> item, by |-> row,
                       price |-> MarkupPrice(item, row.rate)]
    /\ UNCHANGED <<market, fx, own, running, elapsed>>

\* There is none, or it is too old: fetch one.
PriceFetched(item) ==
    /\ running
    /\ item.fixed = None /\ settings.pinned = None
    /\ \A row \in Newest(fx \cup own) : ~Usable(row)
    /\ \E rate \in Answer :
          /\ Sane(rate)
          /\ LET row == Fetched(rate, elapsed)
             IN /\ own' = own \cup {row}
                /\ quote' = [item |-> item, by |-> row,
                             price |-> MarkupPrice(item, rate)]
    /\ UNCHANGED <<market, fx, running, elapsed>>

\* The run's transaction is undone.
RollBack ==
    /\ running' = FALSE
    /\ own' = {}
    /\ elapsed' = 0
    /\ quote' = None

\* A rate is needed and the provider is down or answers nonsense: PricingError
\* takes the whole run with it.
NoRate(item) ==
    /\ running
    /\ item.fixed = None /\ settings.pinned = None
    /\ \A row \in Newest(fx \cup own) : ~Usable(row)
    /\ RollBack
    /\ UNCHANGED <<market, fx>>

\* The run dies of something else.
Abort ==
    /\ running
    /\ RollBack
    /\ UNCHANGED <<market, fx>>

Commit ==
    /\ running
    /\ fx' = Newest(fx \cup own)
    /\ RollBack
    /\ UNCHANGED market

\* A request of the admin API finds the committed rate too old and fetches.
Preview ==
    /\ settings.pinned = None
    /\ \A row \in fx : ~Usable(row)
    /\ \E rate \in Answer : Sane(rate) /\ fx' = Newest(fx \cup {Fetched(rate, 0)})
    /\ UNCHANGED <<market, own, running, elapsed, quote>>
-----------------------------------------------------------------------------
Init ==
    /\ settings \in Settings
    /\ market \in Rates
    /\ fx = {} /\ own = {}
    /\ running = FALSE /\ elapsed = 0
    /\ quote = None

Step ==
    \/ StartRun \/ Commit \/ Abort \/ Preview \/ Tick
    \/ \E rate \in Rates : MarketMoves(rate)
    \/ \E item \in Items : \/ PriceFixed(item) \/ PricePinned(item)
                           \/ PriceCached(item) \/ PriceFetched(item)
                           \/ NoRate(item)

Next == Step /\ UNCHANGED settings

Spec == Init /\ [][Next]_vars
-----------------------------------------------------------------------------
\* "A stale FX rate is refused, not used": the rate behind a price was really
\* quoted less than fx_max_age_hours ago, whichever transaction fetched it and
\* however long its run has lasted since.
FreshRate == quote # None /\ quote.by # None => quote.by.since < MaxAge

\* How far a price may lie under and over the value it was rounded from.
Under == IF settings.rounding = 99 * Cent THEN Cent ELSE settings.rounding \div 2
Over == IF settings.rounding = 99 * Cent THEN Unit ELSE settings.rounding \div 2

\* The rate the last quote used.
RateUsed == IF quote.by = None THEN settings.pinned ELSE quote.by.rate

\* Cost plus markup is what the price is: off by no more than the rounding,
\* except where the floor or a limit of the store moved it.
PriceCoversCost ==
    quote # None /\ quote.item.fixed = None =>
       LET raw == RawNum(quote.item, RateUsed)
           high == quote.price + Under
           low == quote.price - Over
       IN /\ high * RawDen >= raw \/ quote.price = quote.item.max
          /\ \/ low * RawDen <= raw
             \/ quote.price \in {Floor, quote.item.min, quote.item.max}

\* "Never publish an offer below this, whatever the markup maths says", unless
\* the store allows no more.
FloorHolds ==
    quote # None /\ quote.item.fixed = None =>
       quote.price >= Floor \/ quote.price = quote.item.max

\* "The store's own price limits win", where the limits are whole cents: a
\* price made by markup is one the store accepts.  A price fixed by hand is not
\* held to them.
LimitsWin ==
    quote # None /\ quote.item.fixed = None =>
       LET item == quote.item
       IN /\ item.max > 0 => quote.price <= item.max
          /\ item.min > 0 => quote.price >= item.min \/ quote.price = item.max
=============================================================================
