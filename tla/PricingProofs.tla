--------------------------- MODULE PricingProofs ----------------------------
(***************************************************************************)
(* No price is computed off a stale exchange rate, and every price made by *)
(* markup covers its cost, keeps the floor and the store's limits, for     *)
(* every maximal age, run length, set of rates and set of products.        *)
(***************************************************************************)
EXTENDS Pricing, TLAPS

\* The rows are well formed, and fetched_at is never later than the moment the
\* provider was asked: a row may look older than it is, never younger.
Stamped == \A r \in fx \cup own : r.since <= r.age

FxInv ==
    /\ market \in Rates
    /\ fx \subseteq FxRate
    /\ own \subseteq FxRate
    /\ elapsed \in 0..MaxRun
    /\ Stamped
    /\ FreshRate

\* A row fetched in a transaction that began `age` ticks ago is well formed.
LEMMA FetchedType ==
    ASSUME NEW rate \in Rates, NEW age \in 0..MaxAge
    PROVE  /\ Fetched(rate, age) \in FxRate
           /\ Fetched(rate, age).since = 0
           /\ Fetched(rate, age).age = age
  BY PricingAssumption DEF Fetched, FxRate

\* Rows that grow older by a tick stay well formed, and honest.
LEMMA OlderType ==
    ASSUME NEW rows, rows \subseteq FxRate, \A r \in rows : r.since <= r.age
    PROVE  /\ Older(rows) \subseteq FxRate
           /\ \A r \in Older(rows) : r.since <= r.age
  <1>1. SUFFICES ASSUME NEW r \in rows,
                        NEW s, s = [r EXCEPT !.age = IF @ < MaxAge THEN @ + 1 ELSE @,
                                             !.since = IF @ < MaxAge THEN @ + 1 ELSE @]
                 PROVE  s \in FxRate /\ s.since <= s.age
    BY DEF Older
  <1>2. /\ r \in FxRate
        /\ r.age \in 0..MaxAge /\ r.since \in 0..MaxAge /\ r.since <= r.age
        /\ MaxAge \in Nat
    BY PricingAssumption DEF FxRate
  <1>3. /\ s.age = IF r.age < MaxAge THEN r.age + 1 ELSE r.age
        /\ s.since = IF r.since < MaxAge THEN r.since + 1 ELSE r.since
        /\ s = [rate |-> r.rate, age |-> s.age, since |-> s.since]
    BY <1>1, <1>2 DEF FxRate
  <1>4. r.rate \in Rates /\ s.age \in 0..MaxAge /\ s.since \in 0..MaxAge
    BY <1>2, <1>3 DEF FxRate
  <1> QED
    BY <1>2, <1>3, <1>4 DEF FxRate

\* A sane answer of the provider is the rate of the market.
LEMMA SaneAnswer ==
    ASSUME market \in Rates, NEW rate \in Answer, Sane(rate)
    PROVE  rate \in Rates
  BY DEF Answer, Sane

\* Every step keeps the rows honest and the last price fresh.
LEMMA FxStep == FxInv /\ [Next]_vars => FxInv'
  <1> SUFFICES ASSUME FxInv, [Next]_vars PROVE FxInv'
    OBVIOUS
  <1> USE PricingAssumption
  <1>0. 0 \in 0..MaxRun /\ elapsed \in 0..MaxAge /\ 0 \in 0..MaxAge
    BY DEF FxInv
  <1>1. CASE StartRun
    BY <1>1 DEF StartRun, FxInv, Stamped, FreshRate
  <1>2. CASE Commit
    BY <1>0, <1>2 DEF Commit, RollBack, Newest, FxInv, Stamped, FreshRate
  <1>3. CASE Abort
    BY <1>0, <1>3 DEF Abort, RollBack, FxInv, Stamped, FreshRate
  <1>4. CASE Preview
    <2>1. PICK rate \in Answer :
             Sane(rate) /\ fx' = Newest(fx \cup {Fetched(rate, 0)})
      BY <1>4 DEF Preview
    <2>2. rate \in Rates
      BY <2>1, SaneAnswer DEF FxInv
    <2>3. /\ Fetched(rate, 0) \in FxRate
          /\ Fetched(rate, 0).since <= Fetched(rate, 0).age
      BY <2>2, <1>0, FetchedType
    <2> QED
      BY <1>4, <2>1, <2>3 DEF Preview, Newest, FxInv, Stamped, FreshRate
  <1>5. CASE Tick
    <2>1. /\ Older(fx) \subseteq FxRate
          /\ \A r \in Older(fx) : r.since <= r.age
      BY OlderType DEF FxInv, Stamped
    <2>2. /\ Older(own) \subseteq FxRate
          /\ \A r \in Older(own) : r.since <= r.age
      BY OlderType DEF FxInv, Stamped
    <2> QED
      BY <1>0, <1>5, <2>1, <2>2 DEF Tick, FxInv, Stamped, FreshRate
  <1>6. ASSUME NEW rate \in Rates, MarketMoves(rate) PROVE FxInv'
    BY <1>6 DEF MarketMoves, FxInv, Stamped, FreshRate
  <1>7. ASSUME NEW item \in Items, PriceFixed(item) PROVE FxInv'
    BY <1>7 DEF PriceFixed, FxInv, Stamped, FreshRate
  <1>8. ASSUME NEW item \in Items, PricePinned(item) PROVE FxInv'
    BY <1>8 DEF PricePinned, FxInv, Stamped, FreshRate
  <1>9. ASSUME NEW item \in Items, PriceCached(item) PROVE FxInv'
    <2>1. PICK row \in Newest(fx \cup own) :
             /\ Usable(row)
             /\ quote' = [item |-> item, by |-> row,
                          price |-> MarkupPrice(item, row.rate)]
      BY <1>9 DEF PriceCached
    <2>2. row \in FxRate /\ row.since <= row.age /\ row.age < MaxAge
      BY <2>1 DEF Newest, Usable, FxInv, Stamped
    <2>3. row.since < MaxAge
      BY <2>2 DEF FxRate
    <2>4. quote'.by = row
      BY <2>1
    <2> QED
      BY <1>9, <2>3, <2>4 DEF PriceCached, FxInv, Stamped, FreshRate
  <1>10. ASSUME NEW item \in Items, PriceFetched(item) PROVE FxInv'
    <2>1. PICK rate \in Answer :
             /\ Sane(rate)
             /\ own' = own \cup {Fetched(rate, elapsed)}
             /\ quote' = [item |-> item, by |-> Fetched(rate, elapsed),
                          price |-> MarkupPrice(item, rate)]
      BY <1>10 DEF PriceFetched
    <2>2. rate \in Rates
      BY <2>1, SaneAnswer DEF FxInv
    <2> DEFINE row == Fetched(rate, elapsed)
    <2>3. row \in FxRate /\ row.since = 0 /\ row.age = elapsed
      BY <2>2, <1>0, FetchedType
    <2>4. quote'.by = row
      BY <2>1
    <2> HIDE DEF row
    <2>5. own' = own \cup {row}
      BY <2>1 DEF row
    <2>6. row.since < MaxAge /\ row.since <= row.age
      BY <1>0, <2>3
    <2> QED
      BY <1>10, <2>3, <2>4, <2>5, <2>6 DEF PriceFetched, FxInv, Stamped, FreshRate
  <1>11. ASSUME NEW item \in Items, NoRate(item) PROVE FxInv'
    BY <1>0, <1>11 DEF NoRate, RollBack, FxInv, Stamped, FreshRate
  <1>12. CASE UNCHANGED vars
    BY <1>12 DEF vars, FxInv, Stamped, FreshRate
  <1> QED
    BY <1>1, <1>2, <1>3, <1>4, <1>5, <1>6, <1>7, <1>8, <1>9, <1>10, <1>11, <1>12
       DEF Next, Step

\* A stale rate is refused, not used: FxProvider.rate never returns a rate that
\* the provider quoted fx_max_age_hours ago or earlier, in whatever transaction
\* and by whichever process it was fetched.
THEOREM StaleIsRefused == Spec => []FreshRate
  <1>1. Init => FxInv
    BY PricingAssumption DEF Init, FxInv, Stamped, FreshRate
  <1>2. FxInv => FreshRate
    BY DEF FxInv
  <1> QED
    BY <1>1, <1>2, FxStep, PTL DEF Spec
-----------------------------------------------------------------------------
(* The prices. *)

\* The floor and the limits of the store are whole cents, as min_offer_price
\* and the store's prices are.
WholeCents ==
    /\ Floor % Cent = 0
    /\ \A item \in Items : item.min % Cent = 0 /\ item.max % Cent = 0

\* A half-up quotient is off by half of its divisor at most, here a unit.
LEMMA HalfUpNear ==
    ASSUME NEW n \in Nat, NEW q, q = HalfUp(n, 100000000)
    PROVE  /\ q \in Nat
           /\ 2 * 100000000 * q <= 2 * n + 100000000
           /\ 2 * n < 2 * 100000000 * q + 100000000
  BY SMT DEF HalfUp

LEMMA HalfUpNat ==
    ASSUME NEW n \in Nat, NEW d \in Nat \ {0}
    PROVE  HalfUp(n, d) \in Nat
  BY DEF HalfUp

\* What _round makes of a price of markup: whole cents, at most Under below and
\* Over above the value it rounds.
LEMMA RoundNear ==
    ASSUME settings.rounding \in {Cent, 5 * Cent, 10 * Cent, 99 * Cent},
           NEW n \in Nat, NEW r, r = Round(n, RawDen)
    PROVE  /\ r \in Nat
           /\ r % Cent = 0
           /\ (r + Under) * RawDen >= n
           /\ (r - Over) * RawDen <= n
  <1> USE DEF Cent, Unit, RawDen
  <1>1. CASE settings.rounding = 9900
    <2> DEFINE near == HalfUp(n, 100000000)
               whole == IF near * 100000000 < n THEN near + 1 ELSE near
               less == IF whole = 0 THEN 0 ELSE whole * 10000 - 100
    <2>1. /\ near \in Nat
          /\ 2 * 100000000 * near <= 2 * n + 100000000
          /\ 2 * n < 2 * 100000000 * near + 100000000
      BY HalfUpNear, SMT
    <2> HIDE DEF near
    <2>2. near * 10000 * 10000 = near * 100000000
      BY <2>1, SMT
    <2>3. r = IF less > 9900 THEN less ELSE 9900
      BY <1>1, <2>2, SMT DEF Round, near
    <2>4. /\ whole \in Nat
          /\ whole * 100000000 >= n
          /\ whole * 100000000 <= n + 100000000
      BY <2>1, SMT
    <2> HIDE DEF whole
    <2>5. /\ r \in Nat /\ r % 100 = 0
          /\ (r + 100) * 10000 >= n
          /\ (r - 10000) * 10000 <= n
      BY <2>3, <2>4, SMT
    <2> QED
      BY <1>1, <2>5, SMT DEF Under, Over
  <1>2. ASSUME NEW s \in {100, 500, 1000}, settings.rounding = s
        PROVE  /\ r \in Nat
               /\ r % Cent = 0
               /\ (r + Under) * RawDen >= n
               /\ (r - Over) * RawDen <= n
    <2>1. CASE s = 100
      <3>1. r = HalfUp(n, 1000000) * 100 /\ Under = 50 /\ Over = 50
        BY <1>2, <2>1, SMT DEF Round, Under, Over
      <3> QED
        BY <3>1, SMT DEF HalfUp
    <2>2. CASE s = 500
      <3>1. r = HalfUp(n, 5000000) * 500 /\ Under = 250 /\ Over = 250
        BY <1>2, <2>2, SMT DEF Round, Under, Over
      <3> QED
        BY <3>1, SMT DEF HalfUp
    <2>3. CASE s = 1000
      <3>1. r = HalfUp(n, 10000000) * 1000 /\ Under = 500 /\ Over = 500
        BY <1>2, <2>3, SMT DEF Round, Under, Over
      <3> QED
        BY <3>1, SMT DEF HalfUp
    <2> QED
      BY <2>1, <2>2, <2>3, SMT
  <1> QED
    BY <1>1, <1>2, SMT

\* A price fixed by hand is a number, too.
LEMMA RoundNat ==
    ASSUME settings.rounding \in {Cent, 5 * Cent, 10 * Cent, 99 * Cent}, NEW n \in Nat
    PROVE  Round(n, 1) \in Nat
  <1> USE DEF Cent, Unit, RawDen
  <1>1. /\ HalfUp(n, 1 * Unit) \in Nat
        /\ HalfUp(n, 1 * settings.rounding) \in Nat
    BY HalfUpNat, SMT
  <1> QED
    BY <1>1, SMT DEF Round

\* quantize makes whole cents and leaves whole cents alone.
LEMMA ToCentsExact ==
    ASSUME NEW n \in Nat
    PROVE  /\ ToCents(n) \in Nat
           /\ n % Cent = 0 => ToCents(n) = n
  BY SMT DEF ToCents, Cent

\* Two amounts no more than half a cent apart.
Near(a, b) == 2 * a <= 2 * b + Cent /\ 2 * b <= 2 * a + Cent

LEMMA ToCentsNear ==
    ASSUME NEW n \in Nat
    PROVE  Near(ToCents(n), n)
  BY SMT DEF ToCents, Cent, Near

\* The rates of the market and the pinned one are positive numbers, the
\* settings what the validators accept.
LEMMA Constants ==
    ASSUME settings \in Settings
    PROVE  /\ settings.rounding \in {Cent, 5 * Cent, 10 * Cent, 99 * Cent}
           /\ settings.pinned \in Rates \cup {None}
           /\ Rates \subseteq Nat
  <1>1. settings.rounding \in Roundings /\ settings.pinned \in Pins
    BY DEF Settings
  <1>2. Roundings \subseteq {Cent, 5 * Cent, 10 * Cent, 99 * Cent}
    BY PricingAssumption
  <1>3. Pins \subseteq Rates \cup {None} /\ Rates \subseteq Nat
    BY PricingAssumption
  <1> QED
    BY <1>1, <1>2, <1>3, Zenon

LEMMA ItemType ==
    ASSUME NEW item \in Items
    PROVE  /\ item.cost \in Nat /\ item.markup \in Nat
           /\ item.min \in Nat /\ item.max \in Nat
           /\ item.fixed \in Nat \cup {None}
           /\ Floor \in Nat
  BY PricingAssumption DEF Item

LEMMA RawNat ==
    ASSUME NEW item \in Items, NEW rate \in Nat
    PROVE  RawNum(item, rate) \in Nat
  <1>1. item.cost * rate \in Nat /\ 100 + item.markup \in Nat
    BY ItemType
  <1> QED
    BY <1>1 DEF RawNum

\* The price before the last quantize, and that it is a number.
Bounded(item, rate) == Clamped(Floored(Round(RawNum(item, rate), RawDen)), item)

LEMMA MarkupNat ==
    ASSUME settings \in Settings, NEW item \in Items, NEW rate \in Nat
    PROVE  /\ Bounded(item, rate) \in Nat
           /\ MarkupPrice(item, rate) = ToCents(Bounded(item, rate))
           /\ MarkupPrice(item, rate) \in Nat
  <1> DEFINE r == Round(RawNum(item, rate), RawDen)
  <1>1. r \in Nat
    BY Constants, RawNat, RoundNear, SMT
  <1>2. MarkupPrice(item, rate) = ToCents(Bounded(item, rate))
    BY SMT DEF MarkupPrice, Bounded
  <1> HIDE DEF r
  <1>3. Bounded(item, rate) = Clamped(Floored(r), item)
    BY SMT DEF Bounded, r
  <1>4. Floored(r) \in Nat
    BY <1>1, ItemType, SMT DEF Floored
  <1>5. Bounded(item, rate) \in Nat
    BY <1>3, <1>4, ItemType, SMT DEF Clamped
  <1> QED
    BY <1>2, <1>5, ToCentsExact, SMT

LEMMA FixedNat ==
    ASSUME settings \in Settings, NEW item \in Items, item.fixed # None
    PROVE  FixedPrice(item) \in Nat
  BY Constants, ItemType, RoundNat DEF FixedPrice

\* With a floor and limits of whole cents, a price of markup is the rounded
\* value, raised to the floor, then held to the limits, and nothing else.
LEMMA MarkupPriceIs ==
    ASSUME settings \in Settings, WholeCents, NEW item \in Items,
           NEW rate \in Nat, NEW r, r = Round(RawNum(item, rate), RawDen)
    PROVE  MarkupPrice(item, rate) = Clamped(Floored(r), item)
  <1> USE DEF Cent, Unit, RawDen
  <1>1. r \in Nat /\ r % 100 = 0
    BY Constants, RawNat, RoundNear, SMT
  <1>2. Floored(r) \in Nat /\ Floored(r) % 100 = 0
    BY <1>1, ItemType, SMT DEF Floored, WholeCents
  <1>3. Clamped(Floored(r), item) % 100 = 0
    BY <1>2, ItemType, SMT DEF Clamped, WholeCents
  <1>4. Bounded(item, rate) = Clamped(Floored(r), item)
    BY SMT DEF Bounded
  <1> QED
    BY <1>3, <1>4, MarkupNat, ToCentsExact, SMT

\* What a price of markup must be, for the item, the rate and the settings it
\* was made from: the three properties of Pricing, said of one quote.
Covers(item, rate, price) ==
    /\ (price + Under) * RawDen >= RawNum(item, rate) \/ price = item.max
    /\ \/ (price - Over) * RawDen <= RawNum(item, rate)
       \/ price \in {Floor, item.min, item.max}

InLimits(item, price) ==
    /\ price >= Floor \/ price = item.max
    /\ item.max > 0 => price <= item.max
    /\ item.min > 0 => price >= item.min \/ price = item.max

\* The arithmetic of compute is right: rounding, then the floor, then the
\* minimum, then the maximum leaves a price that satisfies all of them.
LEMMA MarkupIsRight ==
    ASSUME settings \in Settings, WholeCents, NEW item \in Items, NEW rate \in Nat,
           NEW price, price = MarkupPrice(item, rate)
    PROVE  Covers(item, rate, price) /\ InLimits(item, price)
  <1> DEFINE raw == RawNum(item, rate)
             r == Round(raw, RawDen)
             high == (r + Under) * RawDen
             low == (r - Over) * RawDen
  <1>1. raw \in Nat
    BY RawNat
  <1>2. price = Clamped(Floored(r), item)
    BY MarkupPriceIs
  <1> HIDE DEF raw
  <1>3. r \in Nat /\ high >= raw /\ low <= raw
    BY <1>1, Constants, RoundNear
  <1>4. Under \in Nat /\ Over \in Nat
    BY Constants, SMT DEF Under, Over, Cent, Unit
  <1> HIDE DEF r
  <1>5. /\ item.min \in Nat /\ item.max \in Nat /\ Floor \in Nat
    BY ItemType
  <1>6. \/ price = r
        \/ price = Floor /\ r < Floor
        \/ price = item.min /\ r < item.min
        \/ price = item.max
    BY <1>2, <1>3, <1>5 DEF Clamped, Floored
  <1>7. InLimits(item, price)
    BY <1>2, <1>3, <1>5 DEF Clamped, Floored, InLimits
  <1>8. ASSUME price \in Nat, r < price PROVE (price + Under) * RawDen >= raw
    BY <1>1, <1>3, <1>4, <1>8, SMT DEF RawDen
  <1>9. Covers(item, rate, price)
    <2>1. CASE price = r
      BY <1>3, <2>1 DEF Covers, raw
    <2>2. CASE price = Floor /\ r < Floor
      BY <1>5, <1>8, <2>2 DEF Covers, raw
    <2>3. CASE price = item.min /\ r < item.min
      BY <1>5, <1>8, <2>3 DEF Covers, raw
    <2>4. CASE price = item.max
      BY <2>4 DEF Covers
    <2> QED
      BY <1>6, <2>1, <2>2, <2>3, <2>4
  <1> QED
    BY <1>7, <1>9

\* The same where the floor or a limit is not of whole cents: the last quantize
\* moves a price by half a cent at most.
CoversNearly(item, rate, price) ==
    /\ (2 * price + 2 * Under + Cent) * RawDen >= 2 * RawNum(item, rate) \/ Near(price, item.max)
    /\ \/ (2 * price - 2 * Over - Cent) * RawDen <= 2 * RawNum(item, rate)
       \/ \E bound \in {Floor, item.min, item.max} : Near(price, bound)

InLimitsNearly(item, price) ==
    /\ 2 * price + Cent >= 2 * Floor \/ Near(price, item.max)
    /\ item.max > 0 => 2 * price <= 2 * item.max + Cent
    /\ item.min > 0 => 2 * price + Cent >= 2 * item.min \/ Near(price, item.max)

LEMMA MarkupIsNearlyRight ==
    ASSUME settings \in Settings, NEW item \in Items, NEW rate \in Nat,
           NEW price, price = MarkupPrice(item, rate)
    PROVE  CoversNearly(item, rate, price) /\ InLimitsNearly(item, price)
  <1> DEFINE raw == RawNum(item, rate)
             r == Round(raw, RawDen)
             high == (r + Under) * RawDen
             low == (r - Over) * RawDen
             b == Bounded(item, rate)
  <1>1. raw \in Nat
    BY RawNat
  <1>2. b = Clamped(Floored(r), item)
    BY DEF Bounded
  <1>3. b \in Nat /\ price \in Nat /\ Near(price, b)
    BY MarkupNat, ToCentsNear
  <1> HIDE DEF raw, b
  <1>4. r \in Nat /\ high >= raw /\ low <= raw
    BY <1>1, Constants, RoundNear
  <1>5. Under \in Nat /\ Over \in Nat
    BY Constants, SMT DEF Under, Over, Cent, Unit
  <1> HIDE DEF r
  <1>6. item.min \in Nat /\ item.max \in Nat /\ Floor \in Nat
    BY ItemType
  <1>7. \/ b = r
        \/ b = Floor /\ r < Floor
        \/ b = item.min /\ r < item.min
        \/ b = item.max
    BY <1>2, <1>4, <1>6 DEF Clamped, Floored
  <1>8. /\ b >= Floor \/ b = item.max
        /\ item.max > 0 => b <= item.max
        /\ item.min > 0 => b >= item.min \/ b = item.max
    BY <1>2, <1>4, <1>6 DEF Clamped, Floored
  <1>9. InLimitsNearly(item, price)
    BY <1>3, <1>6, <1>8 DEF InLimitsNearly, Near, Cent
  <1>10. (2 * price + 2 * Under + Cent) * RawDen >= 2 * raw \/ Near(price, item.max)
    <2>1. CASE b >= r
      BY <1>1, <1>3, <1>4, <1>5, <2>1, SMT DEF Near, Cent, RawDen
    <2>2. CASE b = item.max
      BY <1>3, <2>2
    <2> QED
      BY <1>3, <1>4, <1>6, <1>7, <2>1, <2>2
  <1>11. \/ (2 * price - 2 * Over - Cent) * RawDen <= 2 * raw
         \/ \E bound \in {Floor, item.min, item.max} : Near(price, bound)
    <2>1. CASE b = r
      BY <1>1, <1>3, <1>4, <1>5, <2>1, SMT DEF Near, Cent, RawDen
    <2> QED
      BY <1>3, <1>7, <2>1
  <1> QED
    BY <1>9, <1>10, <1>11 DEF CoversNearly, raw

\* The last price a run made, if by markup, is what compute makes of the item at
\* the rate it was made with.
QuoteIs ==
    quote # None /\ quote.item.fixed = None =>
       /\ quote.item \in Items /\ RateUsed \in Nat
       /\ quote.price = MarkupPrice(quote.item, RateUsed)

LEMMA QuoteType ==
    ASSUME NEW item \in Items, NEW by \in FxRate \cup {None}, NEW price \in Nat,
           NEW q, q = [item |-> item, by |-> by, price |-> price]
    PROVE  q \in Quote /\ q.item = item /\ q.by = by /\ q.price = price
  BY DEF Quote

\* A step that makes no quote keeps the last one or forgets it.
LEMMA QuoteKept ==
    ASSUME QuoteIs, settings' = settings, quote' \in {quote, None}
    PROVE  QuoteIs'
  <1>1. RateUsed' = RateUsed \/ quote' = None
    BY DEF RateUsed
  <1>2. MarkupPrice(quote.item, RateUsed)' = MarkupPrice(quote.item, RateUsed) \/ quote' = None
    BY <1>1 DEF MarkupPrice, Round
  <1> QED
    BY <1>1, <1>2 DEF QuoteIs

\* A step that prices by markup makes a quote that says so.
LEMMA QuoteMade ==
    ASSUME settings \in Settings, settings' = settings,
           NEW item \in Items, NEW by \in FxRate \cup {None}, NEW rate \in Nat,
           rate = IF by = None THEN settings.pinned ELSE by.rate,
           quote' = [item |-> item, by |-> by, price |-> MarkupPrice(item, rate)]
    PROVE  QuoteIs'
  <1> DEFINE price == MarkupPrice(item, rate)
  <1>1. price \in Nat
    BY MarkupNat
  <1>2. quote'.item = item /\ quote'.by = by /\ quote'.price = price
    BY <1>1, QuoteType
  <1> HIDE DEF price
  <1>3. RateUsed' = rate
    BY <1>2 DEF RateUsed
  <1>4. MarkupPrice(quote.item, RateUsed)' = price
    BY <1>2, <1>3 DEF MarkupPrice, Round, price
  <1> QED
    BY <1>2, <1>3, <1>4 DEF QuoteIs

PriceInv == TypeOK /\ FxInv

\* Every step keeps the types.
LEMMA TypeStep == PriceInv /\ [Next]_vars => TypeOK'
  <1> SUFFICES ASSUME PriceInv, [Next]_vars PROVE TypeOK'
    OBVIOUS
  <1> USE DEF PriceInv
  <1>0. /\ settings' = settings
        /\ fx' \subseteq FxRate /\ own' \subseteq FxRate
        /\ market' \in Rates /\ elapsed' \in 0..MaxRun
    BY FxStep DEF FxInv, Next, vars
  <1>1. ASSUME quote' \in {quote, None}, running' \in BOOLEAN PROVE TypeOK'
    BY <1>0, <1>1 DEF TypeOK
  <1>2. ASSUME NEW item \in Items, NEW by \in FxRate \cup {None}, NEW price \in Nat,
               quote' = [item |-> item, by |-> by, price |-> price],
               running' = running
        PROVE  TypeOK'
    BY <1>0, <1>2, QuoteType DEF TypeOK
  <1>3. CASE StartRun \/ Commit \/ Abort \/ Preview \/ Tick
    BY <1>1, <1>3 DEF StartRun, Commit, Abort, Preview, Tick, RollBack, TypeOK
  <1>4. ASSUME NEW rate \in Rates, MarketMoves(rate) PROVE TypeOK'
    BY <1>1, <1>4 DEF MarketMoves, TypeOK
  <1>5. ASSUME NEW item \in Items, PriceFixed(item) PROVE TypeOK'
    BY <1>2, <1>5, FixedNat DEF PriceFixed, TypeOK
  <1>6. ASSUME NEW item \in Items, PricePinned(item) PROVE TypeOK'
    <2>1. settings.pinned \in Nat
      BY <1>6, Constants DEF PricePinned, TypeOK
    <2> QED
      BY <1>2, <1>6, <2>1, MarkupNat DEF PricePinned, TypeOK
  <1>7. ASSUME NEW item \in Items, PriceCached(item) PROVE TypeOK'
    <2>1. PICK row \in Newest(fx \cup own) :
             quote' = [item |-> item, by |-> row,
                       price |-> MarkupPrice(item, row.rate)]
      BY <1>7 DEF PriceCached
    <2>2. row \in FxRate
      BY <2>1 DEF Newest, TypeOK
    <2>3. row.rate \in Nat
      BY <2>2, Constants DEF FxRate, TypeOK
    <2> QED
      BY <1>2, <1>7, <2>1, <2>2, <2>3, MarkupNat DEF PriceCached, TypeOK
  <1>8. ASSUME NEW item \in Items, PriceFetched(item) PROVE TypeOK'
    <2>1. PICK rate \in Answer :
             /\ Sane(rate)
             /\ quote' = [item |-> item, by |-> Fetched(rate, elapsed),
                          price |-> MarkupPrice(item, rate)]
      BY <1>8 DEF PriceFetched
    <2>2. rate \in Rates /\ rate \in Nat
      BY <2>1, SaneAnswer, Constants DEF TypeOK
    <2>3. Fetched(rate, elapsed) \in FxRate
      BY <2>2, FetchedType, PricingAssumption DEF TypeOK
    <2> QED
      BY <1>2, <1>8, <2>1, <2>2, <2>3, MarkupNat DEF PriceFetched, TypeOK
  <1>9. ASSUME NEW item \in Items, NoRate(item) PROVE TypeOK'
    BY <1>1, <1>9 DEF NoRate, RollBack
  <1>10. CASE UNCHANGED vars
    BY <1>1, <1>10 DEF vars, TypeOK
  <1> QED
    BY <1>3, <1>4, <1>5, <1>6, <1>7, <1>8, <1>9, <1>10 DEF Next, Step

LEMMA PriceStep == PriceInv /\ [Next]_vars => PriceInv'
  BY FxStep, TypeStep DEF PriceInv

LEMMA PriceInit == Init => PriceInv
  <1> SUFFICES ASSUME Init PROVE PriceInv
    OBVIOUS
  <1>1. FxInv
    BY PricingAssumption DEF Init, FxInv, Stamped, FreshRate
  <1>2. TypeOK
    BY <1>1 DEF Init, TypeOK, FxInv
  <1> QED
    BY <1>1, <1>2 DEF PriceInv

\* The rows, the clock of a run and the prices stay what the columns hold: a
\* price is a number of units whatever item, rate and rounding made it.
THEOREM TypeCorrect == Spec => []TypeOK
  <1>1. PriceInv => TypeOK
    BY DEF PriceInv
  <1> QED
    BY <1>1, PriceInit, PriceStep, PTL DEF Spec

\* Whatever prices by markup, prices as compute does.
LEMMA QuoteStep == PriceInv /\ QuoteIs /\ [Next]_vars => QuoteIs'
  <1> SUFFICES ASSUME PriceInv, QuoteIs, [Next]_vars PROVE QuoteIs'
    OBVIOUS
  <1> USE DEF PriceInv
  <1>0. settings \in Settings /\ settings' = settings
    BY DEF TypeOK, Next, vars
  <1>1. CASE quote' \in {quote, None}
    BY <1>0, <1>1, QuoteKept
  <1>2. CASE StartRun \/ Commit \/ Abort \/ Preview \/ Tick
    BY <1>1, <1>2 DEF StartRun, Commit, Abort, Preview, Tick, RollBack
  <1>3. ASSUME NEW rate \in Rates, MarketMoves(rate) PROVE QuoteIs'
    BY <1>1, <1>3 DEF MarketMoves
  <1>4. ASSUME NEW item \in Items, PriceFixed(item) PROVE QuoteIs'
    <2>1. quote'.item = item /\ item.fixed # None
      BY <1>4 DEF PriceFixed
    <2> QED
      BY <2>1 DEF QuoteIs
  <1>5. ASSUME NEW item \in Items, PricePinned(item) PROVE QuoteIs'
    <2>1. /\ settings.pinned \in Nat
          /\ quote' = [item |-> item, by |-> None,
                       price |-> MarkupPrice(item, settings.pinned)]
      BY <1>0, <1>5, Constants DEF PricePinned
    <2> QED
      BY <1>0, <2>1, QuoteMade
  <1>6. ASSUME NEW item \in Items, PriceCached(item) PROVE QuoteIs'
    <2>1. PICK row \in Newest(fx \cup own) :
             quote' = [item |-> item, by |-> row,
                       price |-> MarkupPrice(item, row.rate)]
      BY <1>6 DEF PriceCached
    <2>2. row \in FxRate /\ row # None
      BY <2>1, NoneAssumption DEF Newest, TypeOK
    <2>3. row.rate \in Nat
      BY <1>0, <2>2, Constants DEF FxRate
    <2> QED
      BY <1>0, <2>1, <2>2, <2>3, QuoteMade
  <1>7. ASSUME NEW item \in Items, PriceFetched(item) PROVE QuoteIs'
    <2>1. PICK rate \in Answer :
             /\ Sane(rate)
             /\ quote' = [item |-> item, by |-> Fetched(rate, elapsed),
                          price |-> MarkupPrice(item, rate)]
      BY <1>7 DEF PriceFetched
    <2>2. rate \in Rates /\ rate \in Nat
      BY <1>0, <2>1, SaneAnswer, Constants DEF TypeOK
    <2>3. Fetched(rate, elapsed) \in FxRate /\ Fetched(rate, elapsed) # None
      BY <2>2, FetchedType, PricingAssumption, NoneAssumption DEF TypeOK
    <2>4. Fetched(rate, elapsed).rate = rate
      BY DEF Fetched
    <2> QED
      BY <1>0, <2>1, <2>2, <2>3, <2>4, QuoteMade
  <1>8. ASSUME NEW item \in Items, NoRate(item) PROVE QuoteIs'
    BY <1>1, <1>8 DEF NoRate, RollBack
  <1>9. CASE UNCHANGED vars
    BY <1>1, <1>9 DEF vars
  <1> QED
    BY <1>2, <1>3, <1>4, <1>5, <1>6, <1>7, <1>8, <1>9 DEF Next, Step

LEMMA QuoteAlways == Spec => [](PriceInv /\ QuoteIs)
  <1>1. Init => QuoteIs
    BY DEF Init, QuoteIs
  <1> QED
    BY <1>1, PriceInit, PriceStep, QuoteStep, PTL DEF Spec

LEMMA QuoteIsRight ==
    ASSUME WholeCents, PriceInv, QuoteIs, quote # None, quote.item.fixed = None
    PROVE  /\ Covers(quote.item, RateUsed, quote.price)
           /\ InLimits(quote.item, quote.price)
  <1>1. settings \in Settings
    BY DEF PriceInv, TypeOK
  <1> QED
    BY <1>1, MarkupIsRight DEF QuoteIs

\* Pricer.compute: cost times rate plus markup is what is charged, to
\* within the rounding, for every cost, rate, markup and rounding mode; only the
\* floor or a limit of the store moves a price further.
THEOREM CostIsCovered ==
    ASSUME WholeCents
    PROVE  Spec => []PriceCoversCost
  <1>1. PriceInv /\ QuoteIs => PriceCoversCost
    BY QuoteIsRight DEF Covers, PriceCoversCost
  <1> QED
    BY <1>1, QuoteAlways, PTL

\* min_offer_price is a backstop for every price of markup, unless the store
\* itself allows no more.
THEOREM FloorIsKept ==
    ASSUME WholeCents
    PROVE  Spec => []FloorHolds
  <1>1. PriceInv /\ QuoteIs => FloorHolds
    BY QuoteIsRight DEF InLimits, FloorHolds
  <1> QED
    BY <1>1, QuoteAlways, PTL

\* The store accepts every price of markup: it lies within its limits, and
\* where they contradict each other or the floor, the maximum wins.
THEOREM LimitsAlwaysWin ==
    ASSUME WholeCents
    PROVE  Spec => []LimitsWin
  <1>1. PriceInv /\ QuoteIs => LimitsWin
    BY QuoteIsRight DEF InLimits, LimitsWin
  <1> QED
    BY <1>1, QuoteAlways, PTL

\* The arithmetic, the floor and the limits hold of the last price.
NearlyRight ==
    quote # None /\ quote.item.fixed = None =>
       /\ CoversNearly(quote.item, RateUsed, quote.price)
       /\ InLimitsNearly(quote.item, quote.price)

\* Whatever the operator enters as min_offer_price and the store as its limits,
\* to the last of their four decimals: compute's last quantize moves no price
\* by more than half a cent, so it covers its cost, keeps the floor and lies
\* within the limits to within that.
THEOREM HalfACentAtMost == Spec => []NearlyRight
  <1>1. ASSUME PriceInv, QuoteIs PROVE NearlyRight
    <2>1. settings \in Settings
      BY <1>1 DEF PriceInv, TypeOK
    <2> QED
      BY <1>1, <2>1, MarkupIsNearlyRight DEF QuoteIs, NearlyRight
  <1> QED
    BY <1>1, QuoteAlways, PTL
=============================================================================
