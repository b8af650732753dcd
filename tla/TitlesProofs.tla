---------------------------- MODULE TitlesProofs ----------------------------
(***************************************************************************)
(* What the parser of titles makes of prices, for any catalogue, any       *)
(* titles and any similarity of names: whatever it calls a face value is   *)
(* one, and a product with a plainly written price is never suggested for  *)
(* another price.                                                          *)
(***************************************************************************)
EXTENDS Titles, WellFoundedInduction, TLAPS

\* Positions are natural numbers, so that a set of them has a least one.
LEMMA LeftmostIs ==
  ASSUME NEW S \in SUBSET Nat, S # {}
  PROVE  Leftmost(S) \in S /\ \A j \in S : Leftmost(S) <= j
  <1> DEFINE R == {ss \in Nat \X Nat : ss[1] < ss[2]}
  <1>1. IsWellFoundedOn(R, Nat)
    BY NatLessThanWellFounded DEF OpToRel
  <1>2. \A i, j \in Nat : j < i => <<j, i>> \in R
    OBVIOUS
  <1> HIDE DEF R
  <1>3. PICK i \in S : \A j \in S : ~(<<j, i>> \in R)
    BY <1>1, WFMin
  <1>4. ASSUME NEW j \in S PROVE i <= j
    <2>1. i \in Nat /\ j \in Nat
      OBVIOUS
    <2>2. ~(j < i)
      BY <1>2, <1>3, <2>1
    <2> QED BY <2>1, <2>2
  <1> QED BY <1>4 DEF Leftmost

-----------------------------------------------------------------------------
(* extract_denomination returns an amount and a currency, if anything.     *)

\* The words of titles.  The provers do not know a literal for a member of STRING.
Words == STRING \cup {"global", "usa", "india", "turkey", "hong", "kong",
                      "edition", "pc", "xbox", "live", "key"}

\* A number and a unit make an amount of a currency.
LEMMA FaceType ==
  ASSUME NEW t \in Seq(Words), NEW n, NEW u, t[n] \in Digits, t[u] \in Money
  PROVE  Face(t, n, u) \in Digits \X CurrencyCodes
  BY DEF Face, Money, CurrencySymbols, CurrencyCodes

\* "$ 100", "USD 100".
LEMMA ThenNumberType ==
  ASSUME NEW t \in Seq(Words), NEW units, units \subseteq Money, ThenNumber(t, units) # {}
  PROVE  LET i == Leftmost(ThenNumber(t, units))
         IN  i \in ThenNumber(t, units) /\ Face(t, i + 1, i) \in Digits \X CurrencyCodes
  <1> DEFINE i == Leftmost(ThenNumber(t, units))
  <1>1. ThenNumber(t, units) \in SUBSET Nat
    BY DEF ThenNumber
  <1>2. i \in ThenNumber(t, units)
    BY <1>1, LeftmostIs
  <1>3. t[i] \in Money /\ t[i + 1] \in Digits
    BY <1>2 DEF ThenNumber
  <1> HIDE DEF i
  <1>4. Face(t, i + 1, i) \in Digits \X CurrencyCodes
    BY <1>3, FaceType
  <1> QED BY <1>2, <1>4 DEF i

\* "100 $", "100 USD".
LEMMA NumberThenType ==
  ASSUME NEW t \in Seq(Words), NEW units, units \subseteq Money, NumberThen(t, units) # {}
  PROVE  LET i == Leftmost(NumberThen(t, units))
         IN  i \in NumberThen(t, units) /\ Face(t, i, i + 1) \in Digits \X CurrencyCodes
  <1> DEFINE i == Leftmost(NumberThen(t, units))
  <1>1. NumberThen(t, units) \in SUBSET Nat
    BY DEF NumberThen
  <1>2. i \in NumberThen(t, units)
    BY <1>1, LeftmostIs
  <1>3. t[i] \in Digits /\ t[i + 1] \in Money
    BY <1>2 DEF NumberThen
  <1> HIDE DEF i
  <1>4. Face(t, i, i + 1) \in Digits \X CurrencyCodes
    BY <1>3, FaceType
  <1> QED BY <1>2, <1>4 DEF i

\* Any other title: a number that a word of FaceWords explains, or nothing.
LEMMA DenominationType ==
  ASSUME NEW t \in Seq(Words)
  PROVE  \/ extract_denomination(t) = <<>>
         \/ extract_denomination(t) \in Digits \X (CurrencyCodes \cup {None})
  <1> DEFINE signs == DOMAIN CurrencySymbols
             numbers == {i \in DOMAIN t : t[i] \in Digits /\ Len(t[i]) >= 2}
             first == Leftmost(numbers)
  <1>1. numbers # {} => <<t[first], None>> \in Digits \X (CurrencyCodes \cup {None})
    <2>1. numbers \in SUBSET Nat
      OBVIOUS
    <2>2. numbers # {} => first \in numbers
      BY <2>1, LeftmostIs
    <2> QED BY <2>2
  <1>2. signs \subseteq Money /\ CurrencyCodes \subseteq Money
    BY DEF Money
  <1>3. \A d \in Digits \X CurrencyCodes : d \in Digits \X (CurrencyCodes \cup {None})
    OBVIOUS
  <1> HIDE DEF first, numbers, signs
  <1> QED BY <1>1, <1>2, <1>3, ThenNumberType, NumberThenType
          DEF extract_denomination, first, numbers, signs
-----------------------------------------------------------------------------
(* The titles of both sides are sequences of words.                        *)

\* Words that do not speak of money, and those that are no numbers either.
Mute == Words \ Money
Silent == Words \ (Money \cup Digits)

LEMMA Sequences ==
  ASSUME NEW S
  PROVE  /\ <<>> \in Seq(S)
         /\ \A v \in S : <<v>> \in Seq(S)
         /\ \A v, w \in S : <<v, w>> \in Seq(S)
         /\ \A u, v, w \in S : <<u, v, w>> \in Seq(S)
  OBVIOUS

LEMMA Joined ==
  ASSUME NEW S, NEW a \in Seq(S), NEW b \in Seq(S)
  PROVE  /\ a \o b \in Seq(S)
         /\ Len(a \o b) = Len(a) + Len(b)
         /\ \A i \in 1..Len(a) : (a \o b)[i] = a[i]
         /\ \A i \in (Len(a) + 1)..(Len(a) + Len(b)) : (a \o b)[i] = b[i - Len(a)]
  OBVIOUS

LEMMA Wider ==
  ASSUME NEW S, NEW T, T \subseteq S, NEW t \in Seq(T)
  PROVE  t \in Seq(S)
  OBVIOUS

LongRegions == {<<"global">>, <<"usa">>, <<"india">>, <<"turkey">>, <<"hong", "kong">>}

LEMMA RegionWordsType ==
  ASSUME NEW p \in Product
  PROVE  RegionWords(p.region) \in Seq(Silent)
  <1> DEFINE rows == {i \in DOMAIN RegionAliases : RegionAliases[i][1] = p.region}
  <1>1. DOMAIN RegionAliases = 1..5
    BY DEF RegionAliases
  <1>2. \A i \in 1..5 : RegionAliases[i][2][1] \in LongRegions
    <2>1. /\ RegionAliases[1][2][1] = <<"global">> /\ RegionAliases[2][2][1] = <<"usa">>
          /\ RegionAliases[3][2][1] = <<"india">> /\ RegionAliases[4][2][1] = <<"turkey">>
          /\ RegionAliases[5][2][1] = <<"hong", "kong">>
      BY DEF RegionAliases
    <2>2. \A i \in 1..5 : i \in {1, 2, 3, 4, 5}
      OBVIOUS
    <2> QED BY <2>1, <2>2 DEF LongRegions
  <1>3. CASE p.region = None
    BY <1>3, Sequences DEF RegionWords
  <1>4. CASE p.region # None
    <2>1. rows # {} /\ rows \in SUBSET Nat
      BY <1>1, <1>4 DEF Product
    <2>2. Leftmost(rows) \in 1..5
      BY <1>1, <2>1, LeftmostIs
    <2>3. RegionWords(p.region) \in LongRegions
      BY <1>2, <1>4, <2>2 DEF RegionWords
    <2>4. {"global", "usa", "india", "turkey", "hong", "kong"} \subseteq Silent
      BY DEF Silent, Words, Money, Digits, CurrencySymbols, CurrencyCodes
    <2>5. LongRegions \subseteq Seq(Silent)
      BY <2>4, Sequences DEF LongRegions
    <2> QED BY <2>3, <2>5
  <1> QED BY <1>3, <1>4

\* What a store title says between the name and the face value, and after it.
Edited(p) == IF p.edition = None THEN <<>> ELSE <<p.edition, "edition">>
Packaging(p) == IF p.platform = "steam" THEN <<"pc">> ELSE <<>>

LEMMA PartsType ==
  ASSUME NEW p \in Product
  PROVE  /\ p.name \in Seq(Words) /\ p.face \in Seq(Words)
         /\ Word(p.edition) \in Seq(Words) /\ Edited(p) \in Seq(Words)
         /\ Packaging(p) \in Seq(Silent) /\ KeyWords(p.platform) \in Seq(Words)
         /\ p.platform \in Silent => KeyWords(p.platform) \in Seq(Silent)
  <1>1. /\ p.name \in Seq(STRING) /\ p.face \in Seq(STRING)
        /\ p.edition \in Words /\ p.platform \in Words /\ "edition" \in Words
    BY DEF Product, Words
  <1>7. p.name \in Seq(Words) /\ p.face \in Seq(Words)
    BY <1>1, Wider DEF Words
  <1>2. /\ Word(p.edition) \in Seq(Words) /\ Edited(p) \in Seq(Words)
    BY <1>1, Sequences DEF Word, Edited
  <1>3. {"xbox", "live", "key", "pc"} \subseteq Silent
    BY DEF Silent, Words, Money, Digits, CurrencySymbols, CurrencyCodes
  <1>4. Packaging(p) \in Seq(Silent)
    BY <1>3, Sequences DEF Packaging
  <1>5. KeyWords(p.platform) \in Seq(Words)
    BY <1>1, <1>3, Sequences DEF KeyWords, Silent
  <1>6. p.platform \in Silent => KeyWords(p.platform) \in Seq(Silent)
    BY <1>3, Sequences DEF KeyWords
  <1> QED BY <1>2, <1>4, <1>5, <1>6, <1>7

LEMMA TitlesType ==
  ASSUME NEW p \in Product, NEW region \in {RegionWords(p.region), <<>>}
  PROVE  /\ SupplierTitle(p, region) \in Seq(Words)
         /\ StoreTitle(p, region) \in Seq(Words)
  <1>1. region \in Seq(Words)
    BY RegionWordsType, Sequences, Wider DEF Silent
  <1>2. /\ p.name \in Seq(Words) /\ p.face \in Seq(Words)
        /\ Word(p.edition) \in Seq(Words) /\ Edited(p) \in Seq(Words)
        /\ Packaging(p) \in Seq(Words) /\ KeyWords(p.platform) \in Seq(Words)
    BY PartsType, Wider DEF Silent
  <1>3. SupplierTitle(p, region) \in Seq(Words)
    BY <1>1, <1>2, Joined DEF SupplierTitle
  <1>4. StoreTitle(p, region) \in Seq(Words)
    BY <1>1, <1>2, Joined DEF StoreTitle, Edited, Packaging
  <1> QED BY <1>3, <1>4

\* PreferFields leaves the face value alone: only the title states it.
LEMMA RowIs ==
  ASSUME NEW p, NEW t, NEW region, NEW platform
  PROVE  LET r == Row(p, t, region, platform)
         IN  r.prod = p /\ r.title = t /\ r.parts.denomination = extract_denomination(t)
  BY DEF Row, PreferFields, parse_title

LEMMA SupplierRowIs ==
  ASSUME NEW l \in SupplierRows
  PROVE  \E p, region :
            /\ p \in Products /\ region \in {RegionWords(p.region), <<>>}
            /\ l.prod = p /\ l.title = SupplierTitle(p, region)
            /\ l.parts.denomination = extract_denomination(l.title)
  <1>1. PICK p \in Products, named \in BOOLEAN, filled \in BOOLEAN :
           l = Row(p, SupplierTitle(p, IF named THEN RegionWords(p.region) ELSE <<>>),
                   IF filled THEN RegionWords(p.region) ELSE <<>>,
                   IF filled THEN <<p.platform>> ELSE <<>>)
    BY DEF SupplierRows, Rows
  <1> DEFINE region == IF named THEN RegionWords(p.region) ELSE <<>>
  <1>2. region \in {RegionWords(p.region), <<>>}
    OBVIOUS
  <1>3. /\ l.prod = p /\ l.title = SupplierTitle(p, region)
        /\ l.parts.denomination = extract_denomination(SupplierTitle(p, region))
    BY <1>1, RowIs
  <1> QED BY <1>2, <1>3

LEMMA StoreRowIs ==
  ASSUME NEW l \in StoreRows
  PROVE  \E p, region :
            /\ p \in Products /\ region \in {RegionWords(p.region), <<>>}
            /\ l.prod = p /\ l.title = StoreTitle(p, region)
            /\ l.parts.denomination = extract_denomination(l.title)
  <1>1. PICK p \in Products, named \in BOOLEAN, filled \in BOOLEAN :
           l = Row(p, StoreTitle(p, IF named THEN RegionWords(p.region) ELSE <<>>),
                   IF filled THEN RegionWords(p.region) ELSE <<>>,
                   IF filled THEN <<p.platform>> ELSE <<>>)
    BY DEF StoreRows, Rows
  <1> DEFINE region == IF named THEN RegionWords(p.region) ELSE <<>>
  <1>2. region \in {RegionWords(p.region), <<>>}
    OBVIOUS
  <1>3. /\ l.prod = p /\ l.title = StoreTitle(p, region)
        /\ l.parts.denomination = extract_denomination(StoreTitle(p, region))
    BY <1>1, RowIs
  <1> QED BY <1>2, <1>3
-----------------------------------------------------------------------------
(* A suggestion has passed the gates. *)

\* What is suggested is on the shelf and has passed every gate of score_pair.
VerdictInv ==
  Suggested => /\ verdict.sku \in SupplierRows /\ verdict.best \in shelf
               /\ ~Gated(verdict.sku.parts, verdict.best.parts)

TitleInv == TypeOK /\ VerdictInv

LEMMA RowType ==
  ASSUME NEW s \in StoreRows \cup SupplierRows, s.parts.denomination # <<>>
  PROVE  /\ s.parts.denomination[1] \in Digits
         /\ s.parts.denomination[2] \in CurrencyCodes \cup {None}
  <1>1. \E t \in Seq(Words) : s.parts.denomination = extract_denomination(t)
    <2>1. CASE s \in StoreRows
      BY <2>1, StoreRowIs, TitlesType, ProductAssumption
    <2>2. CASE s \in SupplierRows
      BY <2>2, SupplierRowIs, TitlesType, ProductAssumption
    <2> QED BY <2>1, <2>2
  <1>2. s.parts.denomination \in Digits \X (CurrencyCodes \cup {None})
    BY <1>1, DenominationType
  <1> QED BY <1>2

\* evaluate: score_pair gives a gated pair nothing, and nothing is no candidate.
LEMMA EvaluateIs ==
  ASSUME NEW l \in SupplierRows, Evaluate(l)
  PROVE  /\ shelf' = shelf
         /\ verdict'.sku = l
         /\ verdict'.status \in {"unmatched", "pending", "auto"}
         /\ verdict'.status \in {"pending", "auto"} =>
               verdict'.best \in shelf /\ ~Gated(l.parts, verdict'.best.parts)
  <1>1. PICK ratio \in [shelf -> Ratios], anchors \in Anchors(l.parts.tokens) :
          LET score == [s \in shelf |-> score_pair(l.parts, s.parts, ratio[s])]
              cands == {s \in Shortlist(l.parts, anchors) : score[s] > 0}
          IN IF cands = {}
             THEN verdict' = [sku |-> l, status |-> "unmatched"]
             ELSE \E best \in {s \in cands : \A o \in cands : score[o] <= score[s]} :
                    verdict' = [sku |-> l, best |-> best,
                                status |-> StatusOf(score[best],
                                                {score[o] : o \in cands \ {best}})]
    BY DEF Evaluate
  <1> DEFINE score == [s \in shelf |-> score_pair(l.parts, s.parts, ratio[s])]
             cands == {s \in Shortlist(l.parts, anchors) : score[s] > 0}
  <1>2. \A s \in cands : s \in shelf /\ ~Gated(l.parts, s.parts)
    <2>1. Shortlist(l.parts, anchors) \subseteq shelf
      BY DEF Shortlist
    <2>2. ASSUME NEW s \in shelf, Gated(l.parts, s.parts)
          PROVE  ~(score[s] > 0)
      BY <2>2 DEF score_pair
    <2> QED BY <2>1, <2>2
  <1>3. \A best, others : StatusOf(best, others) \in {"unmatched", "pending", "auto"}
    BY DEF StatusOf
  <1>4. shelf' = shelf
    BY DEF Evaluate
  <1>5. CASE cands = {}
    BY <1>1, <1>4, <1>5
  <1>6. CASE cands # {}
    <2> HIDE DEF score, cands
    <2>1. PICK best \in cands :
             verdict' = [sku |-> l, best |-> best,
                         status |-> StatusOf(score[best], {score[o] : o \in cands \ {best}})]
      BY <1>1, <1>6 DEF score, cands
    <2> QED BY <1>2, <1>3, <1>4, <2>1
  <1> QED BY <1>5, <1>6

LEMMA TitlesStart == Init => TitleInv
  BY DEF Init, TitleInv, TypeOK, VerdictInv, NoVerdict, Suggested

LEMMA TitlesStep == TitleInv /\ [Next]_vars => TitleInv'
  <1> SUFFICES ASSUME TitleInv, [Next]_vars PROVE TitleInv'
    OBVIOUS
  <1> USE DEF TitleInv
  <1>1. ASSUME NEW s \in StoreRows, Mirror(s) PROVE TitleInv'
    <2>1. shelf' = shelf \cup {s} /\ verdict' = verdict /\ verdict = NoVerdict
      BY <1>1 DEF Mirror
    <2>2. TypeOK'
      BY <2>1, RowType DEF TypeOK, NoVerdict
    <2>3. VerdictInv'
      BY <2>1 DEF VerdictInv, Suggested, NoVerdict
    <2> QED BY <2>2, <2>3
  <1>2. ASSUME NEW l \in SupplierRows, Evaluate(l) PROVE TitleInv'
    <2>1. /\ shelf' = shelf /\ verdict'.sku = l
          /\ verdict'.status \in {"unmatched", "pending", "auto"}
          /\ verdict'.status \in {"pending", "auto"} =>
               verdict'.best \in shelf /\ ~Gated(l.parts, verdict'.best.parts)
      BY <1>2, EvaluateIs
    <2>2. TypeOK'
      BY <2>1 DEF TypeOK
    <2>3. VerdictInv'
      BY <2>1 DEF VerdictInv, Suggested
    <2> QED BY <2>2, <2>3
  <1>3. CASE UNCHANGED vars
    BY <1>3 DEF vars, TypeOK, VerdictInv, Suggested
  <1> QED BY <1>1, <1>2, <1>3 DEF Next

LEMMA TitlesAlways == Spec => []TitleInv
  BY TitlesStart, TitlesStep, PTL DEF Spec

\* extract_denomination's return type, and evaluate's: whatever the titles of a
\* catalogue say, a face value that the mirror holds is an amount of a known
\* currency or of none, and a suggestion is a product of the mirror.
THEOREM TypeCorrect == Spec => []TypeOK
  <1>1. TitleInv => TypeOK
    BY DEF TitleInv
  <1> QED BY <1>1, TitlesAlways, PTL
-----------------------------------------------------------------------------
(* How a plainly written price is read. *)

\* f stands in t at k and is the only thing there that speaks of money; nothing
\* behind it is a number, nor what comes before it where it begins with a code.
Priced(t, k, f) ==
  /\ t \in Seq(Words) /\ k \in 1..(Len(t) - 1)
  /\ t[k] = f[1] /\ t[k + 1] = f[2]
  /\ \A i \in 1..(k - 1) : t[i] \notin Money
  /\ \A i \in (k + 2)..Len(t) : t[i] \notin Money /\ t[i] \notin Digits
  /\ f[1] \in CurrencyCodes /\ k > 1 => t[k - 1] \notin Digits

LEMMA PricedStarts ==
  ASSUME NEW a \in Seq(Mute), NEW n \in Words, NEW u \in Words,
         n \in CurrencyCodes /\ a # <<>> => a[Len(a)] \notin Digits
  PROVE  Priced(a \o <<n, u>>, Len(a) + 1, <<n, u>>)
  <1> DEFINE f == <<n, u>>
             t == a \o f
  <1>1. a \in Seq(Words) /\ f \in Seq(Words) /\ Len(f) = 2 /\ Len(a) \in Nat
    BY Sequences, Wider DEF Mute
  <1>2. /\ t \in Seq(Words) /\ Len(t) = Len(a) + 2
        /\ \A i \in 1..Len(a) : t[i] = a[i]
        /\ \A i \in (Len(a) + 1)..(Len(a) + 2) : t[i] = f[i - Len(a)]
    BY <1>1, Joined
  <1>3. \A i \in 1..Len(a) : a[i] \notin Money
    BY DEF Mute
  <1>4. a # <<>> <=> Len(a) + 1 > 1
    BY <1>1
  <1> HIDE DEF f, t
  <1>5. t[Len(a) + 1] = f[1] /\ t[Len(a) + 2] = f[2]
    BY <1>1, <1>2
  <1>6. f[1] \in CurrencyCodes /\ Len(a) + 1 > 1 => t[Len(a)] \notin Digits
    BY <1>1, <1>2, <1>4 DEF f
  <1>7. Priced(t, Len(a) + 1, f)
    BY <1>1, <1>2, <1>3, <1>5, <1>6 DEF Priced
  <1> QED BY <1>7 DEF f, t

LEMMA PricedStays ==
  ASSUME NEW t, NEW k, NEW f, Priced(t, k, f), NEW b \in Seq(Silent)
  PROVE  Priced(t \o b, k, f)
  <1>1. b \in Seq(Words) /\ t \in Seq(Words) /\ Len(b) \in Nat /\ Len(t) \in Nat
    BY Wider DEF Silent, Priced
  <1>2. /\ t \o b \in Seq(Words) /\ Len(t \o b) = Len(t) + Len(b)
        /\ \A i \in 1..Len(t) : (t \o b)[i] = t[i]
        /\ \A i \in (Len(t) + 1)..(Len(t) + Len(b)) : (t \o b)[i] = b[i - Len(t)]
    BY <1>1, Joined
  <1>3. \A i \in 1..Len(b) : b[i] \notin Money /\ b[i] \notin Digits
    BY DEF Silent
  <1>4. \A i \in (Len(t) + 1)..(Len(t) + Len(b)) :
           (t \o b)[i] \notin Money /\ (t \o b)[i] \notin Digits
    BY <1>1, <1>2, <1>3
  <1> QED BY <1>1, <1>2, <1>4 DEF Priced

LEMMA MoneyIs ==
  /\ Money = {"$", "hkd", "usd"} /\ DOMAIN CurrencySymbols = {"$"}
  /\ CurrencySymbols["$"] = "usd" /\ CurrencyCodes = {"hkd", "usd"}
  /\ \A n \in Digits : n \notin Money
  BY DEF Money, CurrencySymbols, CurrencyCodes, Digits

\* Whichever way round, the parser reads the amount and the currency.
LEMMA PriceRead ==
  ASSUME NEW t, NEW k, NEW n \in Digits, NEW u \in Money,
         Priced(t, k, <<n, u>>) \/ Priced(t, k, <<u, n>>)
  PROVE  extract_denomination(t) =
            <<n, IF u \in DOMAIN CurrencySymbols THEN CurrencySymbols[u] ELSE u>>
  <1> DEFINE signs == DOMAIN CurrencySymbols
  <1>1. t \in Seq(Words) /\ Len(t) \in Nat /\ k \in 1..(Len(t) - 1)
    BY DEF Priced
  <1>2. \A S \in SUBSET Nat : S # {} => Leftmost(S) \in S
    BY LeftmostIs
  <1>3. \A units : ThenNumber(t, units) \in SUBSET Nat /\ NumberThen(t, units) \in SUBSET Nat
    BY <1>1 DEF ThenNumber, NumberThen
  <1>6. Leftmost({k}) = k
    <2>1. {k} \in SUBSET Nat /\ {k} # {}
      BY <1>1
    <2> QED BY <1>2, <2>1
  <1>4. CASE Priced(t, k, <<n, u>>)
    <2>1. t[k] = n /\ t[k + 1] = u /\ u \notin Digits /\ n \notin Money
      BY <1>4, MoneyIs DEF Priced
    <2>2. \A i \in 1..Len(t) : t[i] \in Money => i = k + 1
      BY <1>1, <1>4, <2>1 DEF Priced
    <2>3. \A i \in 1..Len(t) : t[i] \in Digits => i <= k
      BY <1>1, <1>4, <2>1 DEF Priced
    <2>4. \A units : units \subseteq Money => ThenNumber(t, units) = {}
      BY <1>1, <2>2, <2>3 DEF ThenNumber
    <2>5. \A units : units \subseteq Money =>
             NumberThen(t, units) = IF u \in units THEN {k} ELSE {}
      BY <1>1, <2>1, <2>2 DEF NumberThen
    <2>7. CASE u \in signs
      <3>1. extract_denomination(t) = Face(t, k, k + 1)
        BY <2>4, <2>5, <1>6, <2>7, MoneyIs DEF extract_denomination
      <3> QED BY <2>1, <3>1 DEF Face
    <2>8. CASE u \in CurrencyCodes
      <3>1. u \notin signs
        BY <2>8, MoneyIs
      <3>2. extract_denomination(t) = Face(t, k, k + 1)
        BY <2>4, <2>5, <1>6, <2>8, <3>1, MoneyIs DEF extract_denomination
      <3> QED BY <2>1, <3>2 DEF Face
    <2> QED BY <2>7, <2>8 DEF Money
  <1>5. CASE Priced(t, k, <<u, n>>)
    <2>1. t[k] = u /\ t[k + 1] = n /\ u \notin Digits /\ n \notin Money
      BY <1>5, MoneyIs DEF Priced
    <2>2. \A i \in 1..Len(t) : t[i] \in Money => i = k
      BY <1>1, <1>5, <2>1 DEF Priced
    <2>4. \A units : units \subseteq Money =>
             ThenNumber(t, units) = IF u \in units THEN {k} ELSE {}
      BY <1>1, <2>1, <2>2 DEF ThenNumber
    <2>7. CASE u \in signs
      <3>1. extract_denomination(t) = Face(t, k + 1, k)
        BY <2>4, <1>6, <2>7, MoneyIs DEF extract_denomination
      <3> QED BY <2>1, <3>1 DEF Face
    <2>8. CASE u \in CurrencyCodes
      <3>1. u \notin signs
        BY <2>8, MoneyIs
      <3>2. k > 1 => t[k - 1] \notin Digits
        BY <1>5, <2>8 DEF Priced
      <3>3. \A units : units \subseteq Money => NumberThen(t, units) = {}
        BY <1>1, <2>2, <3>2 DEF NumberThen
      <3>4. extract_denomination(t) = Face(t, k + 1, k)
        BY <2>4, <1>6, <2>8, <3>1, <3>3, MoneyIs DEF extract_denomination
      <3> QED BY <2>1, <3>1, <3>4 DEF Face
    <2> QED BY <2>7, <2>8 DEF Money
  <1> QED BY <1>4, <1>5

\* A product whose price is plain is read alike in the wording of either side.
LEMMA TitlesRead ==
  ASSUME NEW p \in Product, PlainPrice(p), Worth(p.face) \cap CurrencyCodes # {},
         NEW region \in {RegionWords(p.region), <<>>}
  PROVE  \E d \in Digits \X CurrencyCodes :
            /\ Worth(p.face) = {d[1], d[2]}
            /\ extract_denomination(SupplierTitle(p, region)) = d
            /\ extract_denomination(StoreTitle(p, region)) = d
  <1>1. PICK n \in Digits, u \in Money :
           \/ p.face = <<n, u>>
           \/ p.face = <<u, n>> /\ (u \in CurrencyCodes =>
                 /\ p.edition \notin Digits
                 /\ p.edition = None => p.name # <<>> /\ Last(p.name) \notin Digits)
    BY DEF PlainPrice
  <1> DEFINE d == <<n, IF u \in DOMAIN CurrencySymbols THEN CurrencySymbols[u] ELSE u>>
             before == p.name \o Word(p.edition)
             inStore == p.name \o Edited(p)
  <1>2. d \in Digits \X CurrencyCodes
    BY MoneyIs
  <1>3. Worth(p.face) = {d[1], d[2]}
    <2>1. ToSet(p.face) = {n, u}
      BY <1>1 DEF ToSet
    <2>2. n \notin DOMAIN CurrencySymbols
      BY MoneyIs
    <2> QED BY <2>1, <2>2 DEF Worth
  <1>4. p.name \in Seq(Mute)
    <2>1. p.name \in Seq(STRING) /\ \A i \in 1..Len(p.name) : p.name[i] \notin Money
      BY DEF PlainPrice, Product, ToSet
    <2> QED BY <2>1 DEF Mute, Words
  <1>5. /\ Word(p.edition) \in Seq(Mute) /\ Edited(p) \in Seq(Mute)
        /\ p.platform \in Silent
    <2>1. {p.edition, "edition"} \subseteq Mute
      BY MoneyIs DEF PlainPrice, Product, Mute, Words
    <2>2. p.platform \in Silent
      BY DEF PlainPrice, Product, Silent, Words
    <2> QED BY <2>1, <2>2, Sequences DEF Word, Edited
  <1>6. /\ Packaging(p) \in Seq(Silent) /\ KeyWords(p.platform) \in Seq(Silent)
        /\ region \in Seq(Silent)
    BY <1>5, PartsType, RegionWordsType, Sequences
  <1>7. p.face \in Seq(STRING) /\ n \in Words /\ u \in Words
    <2>1. p.face \in Seq(STRING)
      BY DEF Product
    <2>2. p.face[1] \in STRING /\ p.face[2] \in STRING
      BY <1>1, <2>1
    <2> QED BY <1>1, <2>1, <2>2 DEF Words
  <1>8. /\ before \in Seq(Mute) /\ inStore \in Seq(Mute)
        /\ p.face[1] \in CurrencyCodes =>
              /\ before # <<>> => before[Len(before)] \notin Digits
              /\ inStore # <<>> => inStore[Len(inStore)] \notin Digits
    <2>1. before \in Seq(Mute) /\ inStore \in Seq(Mute)
      BY <1>4, <1>5, Joined
    <2>2. ASSUME p.face[1] \in CurrencyCodes
          PROVE  p.edition \notin Digits /\ (p.edition = None => p.name # <<>> /\ Last(p.name) \notin Digits)
      BY <1>1, <2>2, MoneyIs
    <2>3. CASE p.edition = None
      <3>1. Word(p.edition) = <<>> /\ Edited(p) = <<>>
        BY <2>3 DEF Word, Edited
      <3>2. before = p.name /\ inStore = p.name
        BY <1>4, <3>1
      <3> QED BY <2>1, <2>2, <2>3, <3>2 DEF Last
    <2>4. CASE p.edition # None
      <3>1. Word(p.edition) = <<p.edition>> /\ Edited(p) = <<p.edition, "edition">>
        BY <2>4 DEF Word, Edited
      <3>2. /\ before[Len(before)] = p.edition
            /\ inStore[Len(inStore)] = "edition"
        BY <1>4, <1>5, <3>1, Joined
      <3>3. "edition" \notin Digits
        BY DEF Digits
      <3> QED BY <2>1, <2>2, <3>2, <3>3
    <2> QED BY <2>3, <2>4
  <1>9. /\ Priced(before \o p.face, Len(before) + 1, p.face)
        /\ Priced(inStore \o p.face, Len(inStore) + 1, p.face)
    <2> HIDE DEF before, inStore
    <2>1. CASE p.face = <<n, u>>
      <3>1. n \notin CurrencyCodes
        BY MoneyIs
      <3> QED BY <1>7, <1>8, <2>1, <3>1, PricedStarts
    <2>2. CASE p.face = <<u, n>>
      <3>1. p.face[1] = u
        BY <2>2
      <3> QED BY <1>7, <1>8, <2>2, <3>1, PricedStarts
    <2> QED BY <1>1, <2>1, <2>2
  <1> HIDE DEF before, inStore
  <1>10. Priced(SupplierTitle(p, region), Len(before) + 1, p.face)
    BY <1>6, <1>9, PricedStays DEF SupplierTitle, before
  <1>11. Priced(StoreTitle(p, region), Len(inStore) + 1, p.face)
    BY <1>6, <1>9, PricedStays DEF StoreTitle, Edited, Packaging, inStore
  <1>12. /\ extract_denomination(SupplierTitle(p, region)) = d
         /\ extract_denomination(StoreTitle(p, region)) = d
    <2>1. CASE p.face = <<n, u>>
      BY <1>10, <1>11, <2>1, PriceRead
    <2>2. CASE p.face = <<u, n>>
      BY <1>10, <1>11, <2>2, PriceRead
    <2> QED BY <1>1, <2>1, <2>2
  <1> QED BY <1>2, <1>3, <1>12

\* "Different denominations score zero": no product with a plainly written price
\* is suggested for a product of another amount or currency, for any catalogue,
\* any names and shelves, and whichever way round either side writes the price.
THEOREM FaceGates ==
  ASSUME PlainPrices
  PROVE  Spec => []FaceIsAGate
  <1>1. ASSUME TitleInv PROVE FaceIsAGate
    <2> SUFFICES ASSUME Suggested,
                        Worth(verdict.sku.prod.face) \cap CurrencyCodes # {},
                        Worth(verdict.best.prod.face) \cap CurrencyCodes # {}
                 PROVE  Worth(verdict.sku.prod.face) = Worth(verdict.best.prod.face)
      BY DEF FaceIsAGate
    <2> DEFINE l == verdict.sku
               s == verdict.best
    <2>1. l \in SupplierRows /\ s \in StoreRows /\ ~Gated(l.parts, s.parts)
      BY <1>1 DEF TitleInv, TypeOK, VerdictInv
    <2> HIDE DEF l, s
    <2>2. PICK c \in Digits \X CurrencyCodes :
             Worth(l.prod.face) = {c[1], c[2]} /\ l.parts.denomination = c
      <3>1. PICK p, region :
               /\ p \in Products /\ region \in {RegionWords(p.region), <<>>}
               /\ l.prod = p /\ l.title = SupplierTitle(p, region)
               /\ l.parts.denomination = extract_denomination(l.title)
        BY <2>1, SupplierRowIs
      <3>2. p \in Product /\ PlainPrice(p) /\ Worth(p.face) \cap CurrencyCodes # {}
        BY <3>1, ProductAssumption DEF PlainPrices, l
      <3>3. PICK d \in Digits \X CurrencyCodes :
               Worth(p.face) = {d[1], d[2]} /\ extract_denomination(SupplierTitle(p, region)) = d
        BY <3>1, <3>2, TitlesRead
      <3> QED BY <3>1, <3>3
    <2>3. PICK d \in Digits \X CurrencyCodes :
             Worth(s.prod.face) = {d[1], d[2]} /\ s.parts.denomination = d
      <3>1. PICK p, region :
               /\ p \in Products /\ region \in {RegionWords(p.region), <<>>}
               /\ s.prod = p /\ s.title = StoreTitle(p, region)
               /\ s.parts.denomination = extract_denomination(s.title)
        BY <2>1, StoreRowIs
      <3>2. p \in Product /\ PlainPrice(p) /\ Worth(p.face) \cap CurrencyCodes # {}
        BY <3>1, ProductAssumption DEF PlainPrices, s
      <3>3. PICK d \in Digits \X CurrencyCodes :
               Worth(p.face) = {d[1], d[2]} /\ extract_denomination(StoreTitle(p, region)) = d
        BY <3>1, <3>2, TitlesRead
      <3> QED BY <3>1, <3>3
    <2>4. ~denominations_conflict(c, d)
      BY <2>1, <2>2, <2>3 DEF Gated
    <2>5. \A e \in Digits \X CurrencyCodes : e # <<>> /\ e[2] # None
      <3> SUFFICES ASSUME NEW e \in Digits \X CurrencyCodes PROVE e # <<>> /\ e[2] # None
        OBVIOUS
      <3>1. e[2] \in {"hkd", "usd"}
        BY MoneyIs
      <3>2. e[2] # None
        BY <3>1 DEF None
      <3>3. Len(e) = 2
        OBVIOUS
      <3> QED BY <3>2, <3>3
    <2>6. c[1] = d[1] /\ c[2] = d[2]
      BY <2>4, <2>5 DEF denominations_conflict
    <2> QED BY <2>2, <2>3, <2>6 DEF l, s
  <1> QED BY <1>1, TitlesAlways, PTL
=============================================================================
