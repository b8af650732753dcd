------------------------------- MODULE Titles -------------------------------
(***************************************************************************)
(* What the matcher makes of two titles: the parser of                     *)
(* app/services/text.py, the mirror's key of a store product               *)
(* (catalog_sync.StoreCatalogSync._apply), and the shortlist, the hard     *)
(* gates, the score and the verdict of app/services/matching.py.           *)
(*                                                                         *)
(* A title is a sequence of words, lower-cased, with a currency sign as a  *)
(* word of its own.  The alias tables hold the rows that the products of   *)
(* the instance touch, in the order of the source.  A product has a true   *)
(* identity; supplier and store write titles for it in their own styles,   *)
(* and may or may not fill the region and platform fields of their APIs.   *)
(* Which products are claimed or rejected is the matter of Matching.       *)
(***************************************************************************)
EXTENDS Integers, FiniteSets, SequencesExt

CONSTANTS
    Products,    \* identities: see Product
    MaxShelf,    \* bound: store products in the mirror
    Ratios       \* SequenceMatcher ratios, in units of 0.0001, tried where the two
                 \* cores are neither equal nor one inside the other

None == ""

VARIABLES
    shelf,    \* the mirrored store products: listings, as store_products rows
    verdict   \* the last evaluate: supplier listing, status, best and scores

vars == <<shelf, verdict>>
-----------------------------------------------------------------------------
(* The tables of text.py.                                                  *)

NoisePhrases ==
    << <<"steam", "key">>, <<"xbox", "live", "key">>, <<"pc">> >>

PlatformPatterns ==
    << <<"steam", << <<"steam">> >> >>,
       <<"xbox", << <<"xbox">> >> >>,
       <<"epic", << <<"epic", "games">>, <<"epic">> >> >>,
       <<"roblox", << <<"roblox">> >> >> >>

RegionAliases ==
    << <<"GLOBAL", << <<"global">>, <<"row">> >> >>,
       <<"US", << <<"usa">>, <<"us">> >> >>,
       <<"INDIA", << <<"india">>, <<"in">> >> >>,
       <<"TURKEY", << <<"turkey">>, <<"tr">> >> >>,
       <<"HONG KONG", << <<"hong", "kong">>, <<"hk">> >> >> >>

EditionAliases ==
    << <<"ultimate", << <<"ultimate">> >> >>,
       <<"deluxe", << <<"deluxe">> >> >>,
       <<"standard", << <<"standard">>, <<"base">> >> >> >>

CurrencyCodes == {"hkd", "usd"}
CurrencySymbols == [s \in {"$"} |-> "usd"]
MonthWords == {"month", "months"}
FaceWords == {"card", "credit", "points", "robux", "wallet", "gift"}
RomanNumerals == [w \in {"ii", "v"} |-> IF w = "ii" THEN "2" ELSE "5"]

Digits == {"2", "5", "6", "12", "23", "100", "350", "500", "1050", "2077"}

\* What a seller and a buyer mean by "the same product".
Product == [name : Seq(STRING), platform : STRING,
            region : {None} \cup {RegionAliases[i][1] : i \in DOMAIN RegionAliases},
            face : Seq(STRING), edition : STRING]

ASSUME ProductAssumption == Products \subseteq Product /\ MaxShelf \in Nat
-----------------------------------------------------------------------------
\* The positions at which a phrase stands in a title.
At(phrase, t) ==
    {i \in 1..(Len(t) - Len(phrase) + 1) : SubSeq(t, i, i + Len(phrase) - 1) = phrase}

Says(t, phrase) == At(phrase, t) # {}

\* The words of t at the given positions.
Kept(t, positions) ==
    FoldLeftDomain(LAMBDA kept, i : IF i \in positions THEN Append(kept, t[i]) ELSE kept,
                   <<>>, t)

Without(t, phrase) ==
    Kept(t, DOMAIN t \ UNION {i..(i + Len(phrase) - 1) : i \in At(phrase, t)})

WithoutAll(t, phrases) == FoldLeft(Without, t, phrases)

\* basic_normalize: punctuation and currency signs go.
Normalize(t) == SelectSeq(t, LAMBDA w : w \notin DOMAIN CurrencySymbols)

\* The first row of a table with an alias that the title says.
FirstRow(table, t, Honours(_, _)) ==
    LET hits == {i \in DOMAIN table :
                    \E a \in DOMAIN table[i][2] : Honours(t, table[i][2][a])}
    IN IF hits = {} THEN None
       ELSE table[CHOOSE i \in hits : \A j \in hits : i <= j][1]

extract_platform(t) == FirstRow(PlatformPatterns, Normalize(t), Says)

extract_edition(t) == FirstRow(EditionAliases, Normalize(t), Says)

TwoLetters(phrase) == Len(phrase) = 1 /\ Len(phrase[1]) <= 2

\* A two-letter alias counts only as the last word.
SaysRegion(t, alias) ==
    IF TwoLetters(alias) THEN t # <<>> /\ Last(t) = alias[1] ELSE Says(t, alias)

extract_region(t) == FirstRow(RegionAliases, Normalize(t), SaysRegion)

\* The earliest position in a non-empty set.
Leftmost(s) == CHOOSE i \in s : \A j \in s : i <= j

\* A number and its unit side by side, in this order or the other.
NumberThen(t, units) == {i \in 1..(Len(t) - 1) : t[i] \in Digits /\ t[i + 1] \in units}
ThenNumber(t, units) == {i \in 1..(Len(t) - 1) : t[i] \in units /\ t[i + 1] \in Digits}

\* A duration word within twelve characters of word i.
NearMonths(t, i) ==
    \E j \in DOMAIN t : /\ t[j] \in MonthWords
                        /\ \/ j = i + 1
                           \/ j = i + 2 /\ Len(t[i + 1]) <= 5
                           \/ j = i - 1
                           \/ j = i - 2 /\ Len(t[i - 1]) + Len(t[j]) <= 10

\* Mutant: the unit is taken for the amount.
FaceSwapped(t, n, u) == <<t[u], t[n]>>

\* The amount at n in the unit at u.
Face(t, n, u) ==
    <<t[n], IF t[u] \in DOMAIN CurrencySymbols THEN CurrencySymbols[t[u]] ELSE t[u]>>

\* The face value of a gift card, <<>> for a title that carries none.
extract_denomination(t) ==
    LET signs == DOMAIN CurrencySymbols
        before(units) == Leftmost(NumberThen(t, units))
        after(units) == Leftmost(ThenNumber(t, units))
        numbers == {i \in DOMAIN t : t[i] \in Digits /\ Len(t[i]) >= 2}
        first == Leftmost(numbers)
    IN IF ThenNumber(t, signs) # {} THEN Face(t, after(signs) + 1, after(signs))
       ELSE IF NumberThen(t, signs) # {} THEN Face(t, before(signs), before(signs) + 1)
       ELSE IF NumberThen(t, CurrencyCodes) # {}
       THEN Face(t, before(CurrencyCodes), before(CurrencyCodes) + 1)
       ELSE IF ThenNumber(t, CurrencyCodes) # {}
       THEN Face(t, after(CurrencyCodes) + 1, after(CurrencyCodes))
       ELSE IF /\ numbers # {} /\ ~NearMonths(t, first)
               /\ \E w \in FaceWords : Says(t, <<w>>)
       THEN <<t[first], None>> ELSE <<>>

Aliases(table) == FlattenSeq([i \in DOMAIN table |-> table[i][2]])

\* _strip_noise: packaging, platform, long region names, edition and key words.
StripNoise(t) ==
    LET long == SelectSeq(Aliases(RegionAliases), LAMBDA a : ~TwoLetters(a))
        phrases == NoisePhrases \o Aliases(PlatformPatterns) \o long
                     \o Aliases(EditionAliases) \o << <<"edition">> >>
    IN SelectSeq(WithoutAll(t, phrases), LAMBDA w : w \notin {"key", "keys", "code", "codes"})

\* The core's characters, blanks included.
Width(t) == FoldLeft(LAMBDA n, w : n + Len(w) + 1, 0, t) - 1

\* parse_title.
parse_title(t) ==
    LET region == extract_region(t)
        roman == [i \in DOMAIN Normalize(t) |->
                    LET w == Normalize(t)[i]
                    IN IF w \in DOMAIN RomanNumerals THEN RomanNumerals[w] ELSE w]
        stripped == StripNoise(roman)
        core == IF /\ region # None /\ Width(stripped) > 3
                   /\ Len(Last(stripped)) = 2 /\ Last(stripped) \notin Digits
                THEN Front(stripped) ELSE stripped
    IN [core |-> core,
        platform |-> extract_platform(t),
        region |-> region,
        denomination |-> extract_denomination(t),
        edition |-> extract_edition(t),
        tokens |-> {w \in ToSet(core) : Len(w) > 1 \/ w \in Digits}]

\* parse_title_with: the API's own fields win, in our spelling.
PreferFields(parts, region, platform) ==
    [parts EXCEPT !.region = IF region # <<>> THEN extract_region(region) ELSE @,
                  !.platform = IF extract_platform(platform) # None
                               THEN extract_platform(platform) ELSE @]

\* match_key: the edition is no part of it.
match_key(parts) == <<parts.core, parts.platform, parts.region, parts.denomination>>
-----------------------------------------------------------------------------
(* How the two sides write a product down.                                 *)

RegionWords(region) ==
    IF region = None THEN <<>>
    ELSE LET rows == {i \in DOMAIN RegionAliases : RegionAliases[i][1] = region}
         IN RegionAliases[Leftmost(rows)][2][1]

Word(w) == IF w = None THEN <<>> ELSE <<w>>

KeyWords(platform) == IF platform = "xbox" THEN <<"xbox", "live", "key">>
                      ELSE <<platform, "key">>

\* "Cyberpunk 2077 Deluxe INDIA".
SupplierTitle(p, region) == p.name \o Word(p.edition) \o p.face \o region

\* "Cyberpunk 2077 Deluxe Edition (PC) - Steam Key - INDIA".
StoreTitle(p, region) ==
    p.name \o (IF p.edition = None THEN <<>> ELSE <<p.edition, "edition">>)
      \o p.face \o (IF p.platform = "steam" THEN <<"pc">> ELSE <<>>)
      \o KeyWords(p.platform) \o region

\* A row of either catalogue: the title may name the region, and the two
\* fields are filled or left empty.  The row carries what the parser reads in
\* it: _supplier_parts and _store_parts, with the fields, and the mirror's own
\* columns (StoreCatalogSync._apply), from the title alone.
Row(p, title, region, platform) ==
    LET parts == parse_title(title)
    IN [prod |-> p, title |-> title, region |-> region, platform |-> platform,
        parts |-> PreferFields(parts, region, platform),
        name_normalized |-> parts.core, match_key |-> match_key(parts)]

Rows(p, Title(_, _)) ==
    {Row(p, Title(p, IF named THEN RegionWords(p.region) ELSE <<>>),
            IF filled THEN RegionWords(p.region) ELSE <<>>,
            IF filled THEN <<p.platform>> ELSE <<>>) : named, filled \in BOOLEAN}

SupplierRows == UNION {Rows(p, SupplierTitle) : p \in Products}
StoreRows == UNION {Rows(p, StoreTitle) : p \in Products}
-----------------------------------------------------------------------------
(* matching.py.                                                            *)

\* Mutant: only the amounts are compared.
AmountsConflict(l, r) == l # <<>> /\ r # <<>> /\ l[1] # r[1]

\* Two stated face values that differ; a missing currency is no difference.
denominations_conflict(l, r) ==
    /\ l # <<>> /\ r # <<>>
    /\ l[1] # r[1] \/ (l[2] # None /\ r[2] # None /\ l[2] # r[2])

BothStated(x, y) == x # None /\ y # None

\* Mutant: a Deluxe key passes for a Standard one.
GatedButEdition(a, b) ==
    \/ denominations_conflict(a.denomination, b.denomination)
    \/ BothStated(a.region, b.region) /\ a.region # b.region
         /\ "GLOBAL" \notin {a.region, b.region}
    \/ BothStated(a.platform, b.platform) /\ a.platform # b.platform

\* The hard gates of score_pair.
Gated(a, b) ==
    \/ denominations_conflict(a.denomination, b.denomination)
    \/ BothStated(a.region, b.region) /\ a.region # b.region
         /\ "GLOBAL" \notin {a.region, b.region}
    \/ BothStated(a.platform, b.platform) /\ a.platform # b.platform
    \/ BothStated(a.edition, b.edition) /\ a.edition # b.edition

\* _jaccard, in units of 0.0001.
Jaccard(a, b) == IF a = {} \/ b = {} THEN 0
                 ELSE (10000 * Cardinality(a \cap b)) \div Cardinality(a \cup b)

\* SequenceMatcher.ratio: known where one core holds the other, else r.
Ratio(a, b, r) ==
    IF a = b THEN 10000
    ELSE IF Says(a, b) \/ Says(b, a)
    THEN LET x == Width(a) y == Width(b)
         IN (20000 * (IF x < y THEN x ELSE y)) \div (x + y)
    ELSE r

\* Agreement on an attribute: full, unknown, or one side says GLOBAL.
Agreement(x, y, apart) == IF ~BothStated(x, y) THEN 5000 ELSE IF x = y THEN 10000 ELSE apart

\* score_pair, in millionths.
score_pair(a, b, r) ==
    IF Gated(a, b) THEN 0
    ELSE 55 * Jaccard(a.tokens, b.tokens) + 30 * Ratio(a.core, b.core, r)
           + 10 * Agreement(a.region, b.region, 6000) + 5 * Agreement(a.platform, b.platform, 0)

EditionWords == UNION {ToSet(a) : a \in ToSet(Aliases(EditionAliases))}

\* anchors[:3]: the longest telling tokens.  Words of equal length keep the
\* order of a set, which is anyone's guess: every three that fit are tried.
Anchors(tokens) ==
    LET telling == {w \in tokens : (Len(w) >= 4 \/ w \in Digits) /\ w \notin EditionWords}
    IN {s \in SUBSET telling :
          /\ Cardinality(s) = IF Cardinality(telling) < 3 THEN Cardinality(telling) ELSE 3
          /\ \A w \in s, v \in telling \ s : Len(w) >= Len(v)}

\* Mutant: no fallback when the exact bucket is empty.
ShortlistByBucket(parts, anchors) ==
    {s \in shelf : s.match_key = match_key(parts)}

\* _shortlist: the exact bucket, or else what holds an anchor.  The query is a
\* LIKE over characters: the anchor may be a part of a word, "5" of "350".
Shortlist(parts, anchors) ==
    LET exact == {s \in shelf : s.match_key = match_key(parts)}
    IN IF exact # {} THEN exact
       ELSE {s \in shelf : \E w \in anchors, v \in ToSet(s.name_normalized) : Says(v, w)}

ReviewScore == 700000
AutoScore == 920000
TieMargin == 20000

\* evaluate: the status that the best score earns.
StatusOf(best, others) ==
    IF best < ReviewScore THEN "unmatched"
    ELSE IF best < AutoScore \/ \E o \in others : o >= best - TieMargin THEN "pending"
    ELSE "auto"

NoVerdict == [status |-> "none"]

Init == shelf = {} /\ verdict = NoVerdict

\* A catalogue pass mirrors one more store product.
Mirror(s) ==
    /\ Cardinality(shelf) < MaxShelf
    /\ verdict = NoVerdict
    /\ s \notin shelf
    /\ shelf' = shelf \cup {s}
    /\ UNCHANGED verdict

\* find_candidates and evaluate for one supplier product.
Evaluate(l) ==
    /\ verdict = NoVerdict
    /\ \E ratio \in [shelf -> Ratios], anchors \in Anchors(l.parts.tokens) :
          LET score == [s \in shelf |-> score_pair(l.parts, s.parts, ratio[s])]
              cands == {s \in Shortlist(l.parts, anchors) : score[s] > 0}
          IN IF cands = {}
             THEN verdict' = [sku |-> l, status |-> "unmatched"]
             ELSE \E best \in {s \in cands : \A o \in cands : score[o] <= score[s]} :
                    verdict' = [sku |-> l, best |-> best,
                                status |-> StatusOf(score[best],
                                                {score[o] : o \in cands \ {best}})]
    /\ UNCHANGED shelf

Next == \/ \E s \in StoreRows : Mirror(s)
        \/ \E l \in SupplierRows : Evaluate(l)

Spec == Init /\ [][Next]_vars
-----------------------------------------------------------------------------
\* The rows and the verdict are well formed; a face value is an amount, with
\* a currency or with none (extract_denomination's return type).
TypeOK ==
    /\ shelf \subseteq StoreRows
    /\ \A s \in shelf : s.parts.denomination # <<>> =>
          /\ s.parts.denomination[1] \in Digits
          /\ s.parts.denomination[2] \in CurrencyCodes \cup {None}
    /\ verdict.status \in {"none", "unmatched", "pending", "auto"}
    /\ verdict.status \in {"pending", "auto"} => verdict.best \in shelf

\* What a row lets a reader know of its region: by the field or by the title.
RegionStated(l) == l.region # <<>> \/ Says(l.title, RegionWords(l.prod.region))

\* A face value as the buyer reads it: "$ 100" is "100 USD".
Worth(face) == {IF w \in DOMAIN CurrencySymbols THEN CurrencySymbols[w] ELSE w :
                  w \in ToSet(face)}

\* Prices are plainly written: no other word of a product speaks of money, and
\* a price is a number and its currency side by side, with no number before a
\* currency code ("2077 USD 100" reads as 2077 dollars).
Money == DOMAIN CurrencySymbols \cup CurrencyCodes

PlainPrice(p) ==
    /\ ToSet(p.name) \cap Money = {}
    /\ p.edition \notin Money /\ p.platform \notin Money \cup Digits
    /\ Worth(p.face) \cap CurrencyCodes # {} =>
          \E n \in Digits, u \in Money :
             \/ p.face = <<n, u>>
             \/ p.face = <<u, n>> /\ (u \in CurrencyCodes =>
                   /\ p.edition \notin Digits
                   /\ p.edition = None => p.name # <<>> /\ Last(p.name) \notin Digits)

PlainPrices == \A p \in Products : PlainPrice(p)

\* The name itself holds a word of the alias tables that stands for another
\* region or platform, and no field of the row puts it right: "Saints Row",
\* "Epic Mickey".
AliasIn(table, name, own) ==
    \E i \in DOMAIN table : /\ table[i][1] # own
                            /\ \E a \in ToSet(table[i][2]) : ~TwoLetters(a) /\ Says(name, a)

Misleads(l) ==
    \/ l.region = <<>> /\ AliasIn(RegionAliases, l.prod.name, l.prod.region)
    \/ l.platform = <<>> /\ AliasIn(PlatformPatterns, l.prod.name, l.prod.platform)

Suggested == verdict.status \in {"pending", "auto"}

\* A product whose face value is stated in another currency or amount is not
\* even suggested (README: "Different denominations score zero"): the gate of
\* score_pair reads every way of writing a price.  An amount without a
\* currency is gated only when it is the title's first number, so FIFA 23 with
\* 500 points and with 1050 points meet as candidates.
FaceIsAGate ==
    Suggested =>
       LET a == Worth(verdict.sku.prod.face)  b == Worth(verdict.best.prod.face)
       IN a \cap CurrencyCodes # {} /\ b \cap CurrencyCodes # {} => a = b

\* A product mapped without a human is the right one in everything that both
\* rows state: name, face value, edition, platform and region, GLOBAL apart,
\* which passes for every region.  The known exception is a name that holds a
\* region's alias ("Saints Row" reads as GLOBAL, "row" being one) in a row
\* with no region field: its TURKEY and INDIA keys pass for each other.
AutoIsRight ==
    verdict.status = "auto" =>
       LET a == verdict.sku.prod  b == verdict.best.prod
       IN /\ a.name = b.name
          /\ a.face # <<>> /\ b.face # <<>> => Worth(a.face) = Worth(b.face)
          /\ BothStated(a.edition, b.edition) => a.edition = b.edition
          /\ verdict.sku.platform # <<>> => a.platform = b.platform
          /\ RegionStated(verdict.sku) /\ RegionStated(verdict.best)
               => \/ a.region = b.region \/ "GLOBAL" \in {a.region, b.region}
                  \/ Misleads(verdict.sku) \/ Misleads(verdict.best)

\* The supplier's wording and the store's wording of one product meet: a
\* product that the mirror holds is at least put before the reviewer, whichever
\* of the two rows leaves region or platform unsaid.  Two known exceptions: a
\* misleading name without fields, and another edition of the same name, which
\* may fill the exact bucket (match_key has no edition) and so keep _shortlist
\* from looking further.
SameIsFound ==
    verdict.status = "unmatched" =>
       \A s \in shelf : \/ s.prod # verdict.sku.prod
                        \/ Misleads(s) \/ Misleads(verdict.sku)
                        \/ \E o \in shelf : /\ o.prod.name = s.prod.name
                                            /\ o.prod.edition # s.prod.edition
=============================================================================
