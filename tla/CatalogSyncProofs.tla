------------------------- MODULE CatalogSyncProofs --------------------------
(***************************************************************************)
(* The two synchronisations of app/services/catalog_sync.py.               *)
(*                                                                         *)
(* The supplier rows follow the committed pulls, for every set of keys and *)
(* contents, every grace period and every number of pulls.  A pass over    *)
(* the store's catalogue misses nothing, for every number of products,     *)
(* page size, window and --max-pages: no two entries share a place in the  *)
(* listing, no place is empty, and what joins the listing moves the others *)
(* away from the start, never into what the pass has behind it.            *)
(***************************************************************************)
EXTENDS CatalogSync, StoreMirror, FiniteSetTheorems, TLAPS

\* Pulls that were committed are among those started, the open one excepted,
\* and no key was missed more often.
Counted ==
    /\ runs.success + (IF pulling THEN 1 ELSE 0) <= pulls
    /\ \A k \in Keys : streak[k] <= runs.success

\* A row counts its misses up to the grace period, and is on before.
GraceInv ==
    \A k \in Keys : rows[k] # Absent =>
       /\ rows[k].missing = IF streak[k] < GraceRuns THEN streak[k] ELSE GraceRuns
       /\ rows[k].active <=> streak[k] < GraceRuns

\* What the open pull has listed it has as listed first, and the rest it has as
\* committed.
OpenPull ==
    IF pulling
    THEN \A k \in Keys :
            IF k \in seen
            THEN /\ first[k] # Absent /\ tx[k] # Absent
                 /\ tx[k].content = first[k] /\ tx[k].active = TRUE /\ tx[k].missing = 0
            ELSE first[k] = Absent /\ tx[k] = rows[k]
    ELSE tx = rows

PullInv == PullTypeOK /\ Counted /\ GraceInv /\ OpenPull /\ RowIsFirstListing

LEMMA PullStarts == PullInit => PullInv
  <1> SUFFICES ASSUME PullInit PROVE PullInv
    OBVIOUS
  <1>1. PullTypeOK
    <2>1. /\ runs \in [success : 0..MaxPulls, failed : 0..MaxPulls]
          /\ pulls \in 0..MaxPulls /\ streak \in [Keys -> 0..MaxPulls]
      BY PullAssumption DEF PullInit
    <2> QED
      BY <2>1 DEF PullInit, PullTypeOK
  <1>2. Counted /\ GraceInv /\ OpenPull /\ RowIsFirstListing
    BY DEF PullInit, Counted, GraceInv, OpenPull, RowIsFirstListing
  <1> QED
    BY <1>1, <1>2 DEF PullInv

LEMMA StartKeeps == ASSUME PullInv, StartPull PROVE PullInv'
  <1>1. PullTypeOK'
    <2>1. pulls' \in 0..MaxPulls
      BY PullAssumption DEF PullInv, PullTypeOK, StartPull
    <2>2. first' \in [Keys -> Contents \cup {Absent}]
      BY DEF StartPull
    <2> QED
      BY <2>1, <2>2 DEF PullInv, PullTypeOK, StartPull
  <1>2. Counted'
    BY PullAssumption DEF PullInv, PullTypeOK, Counted, StartPull
  <1>3. GraceInv' /\ RowIsFirstListing'
    BY DEF PullInv, GraceInv, RowIsFirstListing, StartPull
  <1>4. OpenPull'
    BY DEF PullInv, OpenPull, StartPull
  <1> QED
    BY <1>1, <1>2, <1>3, <1>4 DEF PullInv

\* A listed key has the listed content, is on, and has missed no pull.
LEMMA UpsertedType ==
    ASSUME NEW row \in Row \cup {Absent}, NEW item \in Feed
    PROVE  /\ Upserted(row, item) \in Row
           /\ Upserted(row, item) # Absent
           /\ Upserted(row, item).content = item.content
           /\ Upserted(row, item).active = TRUE
           /\ Upserted(row, item).missing = 0
  <1>1. item.content \in Contents /\ item.label \in Labels
    BY DEF Feed
  <1>2. ~Changed(row, item) => row \in Row /\ row.content = item.content
    BY DEF Changed
  <1>3. ~Changed(row, item) => row.label \in Labels
    BY <1>2 DEF Row
  <1>4. Upserted(row, item) \in Row
    BY <1>1, <1>2, <1>3, PullAssumption DEF Upserted, Row
  <1> QED
    BY <1>2, <1>4, PullAssumption DEF Upserted

LEMMA ItemKeeps == ASSUME PullInv, NEW item \in Feed, Item(item) PROVE PullInv'
  <1> DEFINE k == item.key
  <1>1. k \in Keys /\ item.content \in Contents /\ item.content # Absent
    BY PullAssumption DEF Feed
  <1>2. /\ pulling /\ seen' = seen \cup {k}
        /\ UNCHANGED <<rows, runs, pulling, pulls, last, streak>>
        /\ tx' = IF k \in seen THEN tx ELSE [tx EXCEPT ![k] = Upserted(tx[k], item)]
        /\ first' = IF first[k] = Absent THEN [first EXCEPT ![k] = item.content] ELSE first
    BY DEF Item, IsDuplicate, PullInv, PullTypeOK
  <1>3. tx[k] \in Row \cup {Absent}
    BY <1>1 DEF PullInv, PullTypeOK
  <1>4. PullTypeOK'
    <2>1. tx' \in [Keys -> Row \cup {Absent}]
      BY <1>1, <1>2, <1>3, UpsertedType DEF PullInv, PullTypeOK
    <2>2. first' \in [Keys -> Contents \cup {Absent}]
      BY <1>1, <1>2 DEF PullInv, PullTypeOK
    <2> QED
      BY <1>1, <1>2, <2>1, <2>2 DEF PullInv, PullTypeOK
  <1>5. Counted' /\ GraceInv' /\ RowIsFirstListing'
    BY <1>2 DEF PullInv, Counted, GraceInv, RowIsFirstListing
  <1>6. OpenPull'
    <2> SUFFICES ASSUME NEW j \in Keys
                 PROVE  IF j \in seen'
                        THEN /\ first'[j] # Absent /\ tx'[j] # Absent
                             /\ tx'[j].content = first'[j]
                             /\ tx'[j].active = TRUE /\ tx'[j].missing = 0
                        ELSE first'[j] = Absent /\ tx'[j] = rows'[j]
      BY <1>2 DEF OpenPull
    <2>1. IF j \in seen
          THEN /\ first[j] # Absent /\ tx[j] # Absent
               /\ tx[j].content = first[j] /\ tx[j].active = TRUE /\ tx[j].missing = 0
          ELSE first[j] = Absent /\ tx[j] = rows[j]
      BY <1>2 DEF PullInv, OpenPull
    <2>2. CASE j = k /\ k \notin seen
      <3>1. first[k] = Absent
        BY <2>1, <2>2
      <3>2. first'[k] = item.content
        BY <1>1, <1>2, <3>1 DEF PullInv, PullTypeOK
      <3>3. tx'[k] = Upserted(tx[k], item)
        BY <1>1, <1>2, <2>2 DEF PullInv, PullTypeOK
      <3>4. /\ tx'[k] # Absent /\ tx'[k].content = item.content
            /\ tx'[k].active = TRUE /\ tx'[k].missing = 0
        <4>1. Upserted(tx[k], item) # Absent /\ Upserted(tx[k], item).content = item.content
              /\ Upserted(tx[k], item).active = TRUE /\ Upserted(tx[k], item).missing = 0
          BY <1>3, UpsertedType
        <4> QED
          BY <3>3, <4>1
      <3>5. k \in seen'
        BY <1>2
      <3> QED
        BY <1>1, <2>2, <3>2, <3>4, <3>5
    <2>3. CASE j = k /\ k \in seen
      <3>1. tx'[j] = tx[j] /\ first'[j] = first[j]
        BY <1>2, <2>1, <2>3
      <3> QED
        BY <1>2, <2>1, <2>3, <3>1
    <2>4. CASE j # k
      <3>1. tx'[j] = tx[j] /\ first'[j] = first[j]
        BY <1>2, <2>4 DEF PullInv, PullTypeOK
      <3> QED
        BY <1>2, <2>1, <2>4, <3>1
    <2> QED
      BY <2>2, <2>3, <2>4
  <1> QED
    BY <1>4, <1>5, <1>6 DEF PullInv

\* A row that is counted keeps what it says of the product.
LEMMA MissedType ==
    ASSUME NEW row \in Row, row.missing < GraceRuns, row.active = TRUE
    PROVE  /\ Missed(row) \in Row
           /\ Missed(row).missing = row.missing + 1
           /\ Missed(row).active <=> row.missing + 1 < GraceRuns
           /\ Missed(row).content = row.content
  <1>1. row.missing + 1 \in 0..GraceRuns
    BY PullAssumption DEF Row
  <1>2. CASE row.missing + 1 >= GraceRuns
    <2>1. Missed(row) = [row EXCEPT !.missing = row.missing + 1, !.active = FALSE]
      BY <1>2 DEF Missed
    <2>2. Missed(row) \in Row /\ Missed(row).content = row.content
      BY <1>1, <2>1 DEF Row
    <2>3. Missed(row).missing = row.missing + 1
      BY <2>1 DEF Row
    <2>4. Missed(row).active = FALSE
      BY <2>1 DEF Row
    <2>5. ~(row.missing + 1 < GraceRuns)
      BY <1>1, <1>2, PullAssumption DEF Row
    <2> QED
      BY <2>2, <2>3, <2>4, <2>5
  <1>3. CASE ~(row.missing + 1 >= GraceRuns)
    <2>1. Missed(row) = [row EXCEPT !.missing = row.missing + 1, !.active = TRUE]
      BY <1>3 DEF Missed
    <2>2. Missed(row) \in Row /\ Missed(row).content = row.content
      BY <1>1, <2>1 DEF Row
    <2>3. Missed(row).missing = row.missing + 1
      BY <2>1 DEF Row
    <2>4. Missed(row).active = TRUE
      BY <2>1 DEF Row
    <2>5. row.missing + 1 < GraceRuns
      BY <1>1, <1>3, PullAssumption DEF Row
    <2> QED
      BY <2>2, <2>3, <2>4, <2>5
  <1> QED
    BY <1>2, <1>3

\* The feed has ended: what was listed is taken over, what was not is counted.
LEMMA FinishKeeps == ASSUME PullInv, FinishPull PROVE PullInv'
  <1> USE PullAssumption
  <1>1. /\ pulling /\ pulling' = FALSE /\ tx' = rows' /\ UNCHANGED <<seen, pulls, first>>
        /\ rows' = [k \in Keys |-> IF Counts(k) THEN Missed(tx[k]) ELSE tx[k]]
        /\ runs' = [runs EXCEPT !.success = @ + 1]
        /\ last' = [k \in Keys |-> IF k \in seen THEN first[k] ELSE last[k]]
        /\ streak' = [k \in Keys |-> IF k \in seen THEN 0 ELSE streak[k] + 1]
    BY DEF FinishPull
  <1>2. /\ runs.success \in Nat /\ runs.success + 1 <= pulls
        /\ pulls \in Nat /\ pulls <= MaxPulls
        /\ \A k \in Keys : streak[k] \in Nat /\ streak[k] <= runs.success
    BY <1>1 DEF PullInv, PullTypeOK, Counted
  <1>3. /\ runs' \in [success : 0..MaxPulls, failed : 0..MaxPulls]
        /\ runs'.success = runs.success + 1
    BY <1>1, <1>2 DEF PullInv, PullTypeOK
  <1>4. streak' \in [Keys -> 0..MaxPulls] /\ \A k \in Keys : streak'[k] <= runs'.success
    BY <1>1, <1>2, <1>3
  <1>5. ASSUME NEW k \in Keys
        PROVE  /\ rows'[k] \in Row \cup {Absent}
               /\ rows'[k] # Absent =>
                    /\ rows'[k].missing = IF streak'[k] < GraceRuns THEN streak'[k] ELSE GraceRuns
                    /\ rows'[k].active <=> streak'[k] < GraceRuns
               /\ IF last'[k] = Absent THEN rows'[k] = Absent
                  ELSE rows'[k] # Absent /\ rows'[k].content = last'[k]
    <2>1. CASE k \in seen
      <3>1. /\ first[k] # Absent /\ tx[k] # Absent /\ tx[k] \in Row
            /\ tx[k].content = first[k] /\ tx[k].active = TRUE /\ tx[k].missing = 0
        BY <1>1, <2>1 DEF PullInv, PullTypeOK, OpenPull
      <3>2. rows'[k] = tx[k] /\ streak'[k] = 0 /\ last'[k] = first[k]
        BY <1>1, <2>1 DEF Counts
      <3> QED
        BY <3>1, <3>2
    <2>2. CASE k \notin seen
      <3>1. tx[k] = rows[k] /\ rows[k] \in Row \cup {Absent}
        BY <1>1, <2>2 DEF PullInv, PullTypeOK, OpenPull
      <3>2. streak'[k] = streak[k] + 1 /\ last'[k] = last[k] /\ streak[k] \in Nat
        BY <1>1, <1>2, <2>2
      <3>3. IF last[k] = Absent THEN rows[k] = Absent
            ELSE rows[k] # Absent /\ rows[k].content = last[k]
        BY DEF PullInv, RowIsFirstListing
      <3>4. CASE rows[k] = Absent
        BY <1>1, <3>1, <3>2, <3>3, <3>4 DEF Counts
      <3>5. CASE rows[k] # Absent /\ rows[k].active
        <4>1. rows'[k] = Missed(rows[k])
          BY <1>1, <2>2, <3>1, <3>5 DEF Counts
        <4>2. /\ rows[k] \in Row /\ streak[k] < GraceRuns /\ rows[k].missing = streak[k]
              /\ rows[k].active = TRUE
          BY <3>1, <3>5 DEF PullInv, GraceInv
        <4>3. /\ Missed(rows[k]) \in Row
              /\ Missed(rows[k]).missing = streak[k] + 1
              /\ Missed(rows[k]).active <=> streak[k] + 1 < GraceRuns
              /\ Missed(rows[k]).content = rows[k].content
          BY <3>2, <4>2, MissedType
        <4> QED
          BY <3>2, <3>3, <3>5, <4>1, <4>2, <4>3
      <3>6. CASE rows[k] # Absent /\ ~rows[k].active
        <4>1. rows'[k] = rows[k]
          BY <1>1, <3>1, <3>6 DEF Counts
        <4>2. ~(streak[k] < GraceRuns) /\ rows[k].missing = GraceRuns
          BY <3>6 DEF PullInv, GraceInv
        <4> QED
          BY <3>1, <3>2, <3>3, <3>6, <4>1, <4>2
      <3> QED
        BY <3>4, <3>5, <3>6
    <2> QED
      BY <2>1, <2>2
  <1>6. PullTypeOK'
    <2>1. rows' \in [Keys -> Row \cup {Absent}]
      BY <1>1, <1>5
    <2>2. last' \in [Keys -> Contents \cup {Absent}]
      BY <1>1 DEF PullInv, PullTypeOK
    <2> QED
      BY <1>1, <1>3, <1>4, <2>1, <2>2 DEF PullInv, PullTypeOK
  <1>7. Counted'
    BY <1>1, <1>2, <1>3, <1>4 DEF Counted
  <1>8. GraceInv' /\ RowIsFirstListing'
    BY <1>5 DEF GraceInv, RowIsFirstListing
  <1>9. OpenPull'
    BY <1>1 DEF OpenPull
  <1> QED
    BY <1>6, <1>7, <1>8, <1>9 DEF PullInv

\* A failed pull leaves nothing behind.
LEMMA FailKeeps == ASSUME PullInv, FailPull PROVE PullInv'
  <1>1. PullTypeOK'
    BY DEF PullInv, PullTypeOK, FailPull
  <1>2. Counted'
    BY DEF PullInv, PullTypeOK, Counted, FailPull
  <1>3. GraceInv' /\ RowIsFirstListing' /\ OpenPull'
    BY DEF PullInv, GraceInv, RowIsFirstListing, OpenPull, FailPull
  <1> QED
    BY <1>1, <1>2, <1>3 DEF PullInv

LEMMA PullStep == PullInv /\ [PullNext]_pullVars => PullInv'
  <1> SUFFICES ASSUME PullInv, [PullNext]_pullVars PROVE PullInv'
    OBVIOUS
  <1>1. CASE UNCHANGED pullVars
    BY <1>1 DEF pullVars, PullInv, PullTypeOK, Counted, GraceInv, OpenPull, RowIsFirstListing
  <1> QED
    BY <1>1, StartKeeps, ItemKeeps, FinishKeeps, FailKeeps DEF PullNext

LEMMA PullAlways == PullSpec => []PullInv
  BY PullStarts, PullStep, PTL DEF PullSpec

\* The rows, and what a pull has read, keep their types.
THEOREM PullTypeCorrect == PullSpec => []PullTypeOK
  <1>1. PullInv => PullTypeOK
    BY DEF PullInv
  <1> QED
    BY <1>1, PullAlways, PTL

\* "A product missing from the feed is deactivated only after N consecutive
\* misses", and then it is, however the feed repeats, drops or fails.
THEOREM GraceIsKept == PullSpec => []OffAfterGrace
  <1>1. PullInv => OffAfterGrace
    BY DEF PullInv, GraceInv, OffAfterGrace
  <1> QED
    BY <1>1, PullAlways, PTL

\* "Re-running a sync must converge on the same rows": every row holds what the
\* last committed pull that listed it gave first.
THEOREM RowsConverge == PullSpec => []RowIsFirstListing
  <1>1. PullInv => RowIsFirstListing
    BY DEF PullInv
  <1> QED
    BY <1>1, PullAlways, PTL
-----------------------------------------------------------------------------
(* The listing of the store, and its pages. *)

LEMMA ListingFinite ==
  ASSUME NEW w
  PROVE  /\ Listing(w) \subseteq Products
         /\ IsFiniteSet(Listing(w)) /\ Cardinality(Listing(w)) \in Nat
  <1>1. IsFiniteSet(Products)
    BY MirrorAssumption, FS_Interval DEF Products
  <1>2. Listing(w) \in SUBSET Products
    BY DEF Listing
  <1> QED BY <1>1, <1>2, FS_Subset, FS_CardinalityType

\* Places in the listing are counted from 0.
LEMMA BeforeType ==
  ASSUME NEW w, NEW p
  PROVE  /\ Before(w, p) \in Nat
         /\ p \in Listing(w) => Before(w, p) < Cardinality(Listing(w))
  <1> DEFINE L == Listing(w)
             B == {q \in L : q < p}
  <1>1. B \in SUBSET L
    OBVIOUS
  <1>2. IsFiniteSet(L) /\ Cardinality(L) \in Nat /\ L \subseteq Products
    BY ListingFinite
  <1>3. /\ IsFiniteSet(B) /\ Cardinality(B) \in Nat /\ Cardinality(B) <= Cardinality(L)
        /\ Cardinality(L) = Cardinality(B) => L = B
    BY <1>1, <1>2, FS_Subset, FS_CardinalityType
  <1>4. p \in L => B # L
    BY <1>2, MirrorAssumption DEF Products
  <1> QED BY <1>2, <1>3, <1>4 DEF Before

\* Of two entries the later one has the higher place.
LEMMA BeforeOrder ==
  ASSUME NEW w, NEW p \in Listing(w), NEW q \in Listing(w), p < q
  PROVE  Before(w, p) < Before(w, q)
  <1> DEFINE L == Listing(w)
             P == {x \in L : x < p}
             Q == {x \in L : x < q}
  <1>1. IsFiniteSet(L) /\ L \subseteq Products
    BY ListingFinite
  <1>2. \A x \in L : x \in Int
    BY <1>1, MirrorAssumption DEF Products
  <1>3. P \in SUBSET L /\ Q \in SUBSET L /\ P \cup {p} \in SUBSET Q /\ p \notin P
    BY <1>2
  <1>4. IsFiniteSet(P) /\ IsFiniteSet(Q) /\ Cardinality(P) \in Nat /\ Cardinality(Q) \in Nat
    BY <1>1, <1>3, FS_Subset, FS_CardinalityType
  <1>5. Cardinality(P \cup {p}) = Cardinality(P) + 1
    BY <1>3, <1>4, FS_AddElement
  <1>6. Cardinality(P \cup {p}) <= Cardinality(Q)
    BY <1>3, <1>4, FS_Subset
  <1>7. Cardinality(P) < Cardinality(Q)
    BY <1>4, <1>5, <1>6
  <1> QED BY <1>7 DEF Before

\* No place is left out: as many entries as places, and no two on one.
LEMMA PlacesTaken ==
  ASSUME NEW w, NEW i \in 0..(Cardinality(Listing(w)) - 1)
  PROVE  \E p \in Listing(w) : Before(w, p) = i
  <1> DEFINE L == Listing(w)
             N == Cardinality(L)
             f == [p \in L |-> Before(w, p)]
  <1>1. IsFiniteSet(L) /\ L \subseteq Products /\ N \in Nat
    BY ListingFinite
  <1>2. \A p, q \in L : p < q \/ q < p \/ p = q
    BY <1>1, MirrorAssumption DEF Products
  <1>3. f \in [L -> 0..(N - 1)]
    BY <1>1, BeforeType
  <1>4. ASSUME NEW p \in L, NEW q \in L, f[p] = f[q]
        PROVE  p = q
    <2>1. Before(w, p) = Before(w, q) /\ Before(w, p) \in Nat
      BY <1>4, BeforeType
    <2> QED BY <2>1, <1>2, BeforeOrder
  <1>5. f \in Injection(L, 0..(N - 1))
    BY <1>3, <1>4 DEF Injection, IsInjective
  <1>6. IsFiniteSet(0..(N - 1)) /\ Cardinality(0..(N - 1)) = N
    BY <1>1, FS_Interval
  <1>7. f \in Surjection(L, 0..(N - 1))
    BY <1>5, <1>6, FS_Injection
  <1> QED BY <1>7 DEF Surjection

\* A page has as many entries as there are places on it, and no fewer when an
\* entry comes behind it.
LEMMA PageFull ==
  ASSUME NEW w, NEW n \in Nat \ {0}
  PROVE  /\ IsFiniteSet(PageOf(w, n)) /\ Cardinality(PageOf(w, n)) \in 0..PageSize
         /\ n * PageSize = (n - 1) * PageSize + PageSize
         /\ \A p \in Listing(w) :
               Before(w, p) >= n * PageSize => Cardinality(PageOf(w, n)) = PageSize
  <1> DEFINE L == Listing(w)
             D == PageOf(w, n)
             a == (n - 1) * PageSize
             b == n * PageSize
             f == [p \in D |-> Before(w, p)]
  <1>1. PageSize \in Nat \ {0}
    BY MirrorAssumption
  <1>2. a \in Nat /\ b \in Nat /\ b = a + PageSize
    BY <1>1
  <1>3. D = {p \in L : Before(w, p) >= a /\ Before(w, p) < b}
    BY DEF PageOf
  <1> HIDE DEF a, b, D
  <1>4. IsFiniteSet(L) /\ L \subseteq Products /\ Cardinality(L) \in Nat
    BY ListingFinite
  <1>5. \A p, q \in L : p < q \/ q < p \/ p = q
    BY <1>4, MirrorAssumption DEF Products
  <1>6. f \in [D -> a..(b - 1)]
    BY <1>2, <1>3, BeforeType
  <1>7. ASSUME NEW p \in D, NEW q \in D, f[p] = f[q]
        PROVE  p = q
    <2>1. Before(w, p) = Before(w, q) /\ Before(w, p) \in Nat /\ p \in L /\ q \in L
      BY <1>3, <1>7, BeforeType
    <2> QED BY <2>1, <1>5, BeforeOrder
  <1>8. f \in Injection(D, a..(b - 1))
    BY <1>6, <1>7 DEF Injection, IsInjective
  <1>9. IsFiniteSet(a..(b - 1)) /\ Cardinality(a..(b - 1)) = PageSize
    <2>1. a \in Int /\ b - 1 \in Int /\ ~(a > b - 1) /\ (b - 1) - a + 1 = PageSize
      BY <1>1, <1>2
    <2> QED BY <2>1, FS_Interval
  <1>10. IsFiniteSet(D) /\ Cardinality(D) \in Nat /\ Cardinality(D) <= PageSize
         /\ (f \in Surjection(D, a..(b - 1)) => Cardinality(D) = PageSize)
    BY <1>8, <1>9, FS_Injection, FS_CardinalityType
  <1>11. ASSUME NEW p \in L, Before(w, p) >= b
         PROVE  Cardinality(D) = PageSize
    <2>1. b < Cardinality(L)
      BY <1>2, <1>4, <1>11, BeforeType
    <2>2. ASSUME NEW i \in a..(b - 1) PROVE \E q \in D : f[q] = i
      <3>1. i \in 0..(Cardinality(L) - 1)
        BY <1>2, <1>4, <2>1
      <3>2. PICK q \in L : Before(w, q) = i
        BY <3>1, PlacesTaken
      <3>3. q \in D
        BY <1>2, <1>3, <3>2
      <3> QED BY <3>2, <3>3
    <2> QED BY <1>6, <1>10, <2>2 DEF Surjection
  <1> QED BY <1>1, <1>2, <1>10, <1>11 DEF a, b, D

-----------------------------------------------------------------------------
(* What holds of the mirror, the sessions and the passes. *)

LEMMA OffType == Off \in Pass
  BY MirrorAssumption DEF Off, Pass

\* What a pass has in hand is of this catalogue, and an entry without an id or
\* a name is never written.
MirrorTypeInv ==
    /\ TypeOK
    /\ \A w \in Passers : pass[w].page \in Nat \ {0}
    /\ \A w \in Passers, p \in Unnamed : own[w][p] = None
    /\ \A p \in Products : store[p] # None => store[p].ver <= changes

LEMMA MirrorStarts == Init => MirrorTypeInv
  <1> SUFFICES ASSUME Init PROVE MirrorTypeInv
    OBVIOUS
  <1>1. store \in [Products -> [ver : Versions, age : Ages] \cup {None}]
    <2>1. [ver |-> 0, age |-> Window + MaxPass + 1] \in [ver : Versions, age : Ages]
      BY MirrorAssumption DEF Versions, Ages
    <2> QED BY <2>1 DEF Init
  <1>2. \A p \in Products : store[p] # None => store[p].ver <= changes
    BY DEF Init
  <1>3. mirror \in [Products -> Versions \cup {None}] /\ \A p \in Unnamed : mirror[p] = None
    BY MirrorAssumption DEF Init, Versions
  <1>4. /\ own \in [Passers -> [Products -> Versions \cup {None}]]
        /\ base \in [Passers -> [Products -> Versions \cup {None}]]
        /\ \A w \in Passers, p \in Unnamed : own[w][p] = None
    BY MirrorAssumption DEF Init, Unwritten
  <1>5. pass \in [Passers -> Pass] /\ \A w \in Passers : pass[w].page \in Nat \ {0}
    BY OffType DEF Init, Off
  <1>6. /\ elapsed \in [Passers -> 0..MaxPass] /\ rest \in 0..Gap
        /\ shrunk \in [Passers -> BOOLEAN]
        /\ since \in Ages /\ changes \in 0..MaxChanges /\ troubles \in 0..MaxTroubles
    BY MirrorAssumption DEF Init, Ages
  <1> QED BY <1>1, <1>2, <1>3, <1>4, <1>5, <1>6 DEF MirrorTypeInv, TypeOK

LEMMA TouchType ==
  ASSUME MirrorTypeInv, NEW p \in Products, Touch(p) \/ Withdraw(p)
  PROVE  MirrorTypeInv'
  <1> USE DEF MirrorTypeInv, TypeOK
  <1>1. changes' = changes + 1 /\ changes' \in 0..MaxChanges /\ changes' \in Versions
    BY MirrorAssumption DEF Touch, Withdraw, Versions
  <1>2. /\ store' \in [Products -> [ver : Versions, age : Ages] \cup {None}]
        /\ \A q \in Products : store'[q] # None => store'[q].ver <= changes'
    <2>1. CASE Touch(p)
      <3>1. [ver |-> changes', age |-> 0] \in [ver : Versions, age : Ages]
        BY <1>1, MirrorAssumption DEF Ages
      <3>2. \A q \in Products : store[q] # None => store[q].ver \in Nat
        BY MirrorAssumption DEF Versions
      <3> QED BY <2>1, <1>1, <3>1, <3>2 DEF Touch
    <2>2. CASE Withdraw(p)
      <3>1. \A q \in Products : store[q] # None => store[q].ver \in Nat
        BY MirrorAssumption DEF Versions
      <3> QED BY <2>2, <1>1, <3>1 DEF Withdraw
    <2> QED BY <2>1, <2>2
  <1>3. shrunk' \in [Passers -> BOOLEAN]
    BY DEF Touch, Withdraw, ghostVars, Matches
  <1> QED BY <1>1, <1>2, <1>3 DEF Touch, Withdraw, ghostVars

LEMMA TickType ==
  ASSUME MirrorTypeInv, Tick
  PROVE  MirrorTypeInv'
  <1> USE DEF MirrorTypeInv, TypeOK
  <1>1. ASSUME NEW p \in Products
        PROVE  /\ store'[p] \in [ver : Versions, age : Ages] \cup {None}
               /\ store'[p] # None => store[p] # None /\ store'[p].ver = store[p].ver
    <2>1. CASE store[p] = None
      BY <2>1 DEF Tick
    <2>2. CASE store[p] # None
      <3> DEFINE e == store[p]
                 a == Older(e.age)
      <3>1. e \in [ver : Versions, age : Ages]
        BY <2>2
      <3>2. store'[p] = [e EXCEPT !.age = a]
        BY <2>2 DEF Tick
      <3>3. a \in Ages
        BY <3>1, MirrorAssumption DEF Ages, Older
      <3> HIDE DEF a
      <3>4. store'[p] = [ver |-> e.ver, age |-> a]
        BY <3>1, <3>2
      <3> QED BY <2>2, <3>1, <3>3, <3>4
    <2> QED BY <2>1, <2>2
  <1>2. store' = [p \in Products |-> store'[p]]
    BY DEF Tick
  <1>3. store' \in [Products -> [ver : Versions, age : Ages] \cup {None}]
    BY <1>1, <1>2
  <1>4. elapsed' \in [Passers -> 0..MaxPass]
    BY MirrorAssumption DEF Tick
  <1>5. rest' \in 0..Gap
    BY MirrorAssumption DEF Tick, Passers
  <1>6. \A p \in Products : store'[p] # None => store'[p].ver <= changes'
    BY <1>1 DEF Tick, boundVars
  <1>7. since' \in Ages
    BY MirrorAssumption DEF Tick, Older, Ages
  <1> QED BY <1>3, <1>4, <1>5, <1>6, <1>7 DEF Tick, boundVars

LEMMA BeginType ==
  ASSUME MirrorTypeInv, NEW w \in Passers, NEW full \in BOOLEAN, NEW cap \in Caps \cup {0},
         Begin(w, full, cap), troubles' \in 0..MaxTroubles
  PROVE  MirrorTypeInv'
  <1> USE DEF MirrorTypeInv, TypeOK
  <1> DEFINE new == [Off EXCEPT !.step = "fetch", !.full = full, !.cap = cap]
             old == [p \in Products |->
                       IF store[p] # None /\ (full \/ store[p].age <= Window)
                       THEN store[p].ver ELSE None]
  <1>1. new \in Pass /\ new.page = 1
    BY MirrorAssumption DEF Off, Pass
  <1>2. old \in [Products -> Versions \cup {None}]
    OBVIOUS
  <1>3. pass' = [pass EXCEPT ![w] = new] /\ base' = [base EXCEPT ![w] = old]
    BY DEF Begin
  <1> HIDE DEF new, old
  <1>4. pass' \in [Passers -> Pass] /\ \A v \in Passers : pass'[v].page \in Nat \ {0}
    BY <1>1, <1>3
  <1>5. base' \in [Passers -> [Products -> Versions \cup {None}]]
    BY <1>2, <1>3
  <1> QED BY <1>4, <1>5 DEF Begin

\* A fetched page holds entries of the listing, each as the store has it.
LEMMA FetchedType ==
  ASSUME MirrorTypeInv, NEW w \in Passers, NEW n
  PROVE  {[prod |-> p, ver |-> store[p].ver] : p \in PageOf(w, n)} \in SUBSET Entry
  <1> SUFFICES ASSUME NEW p \in PageOf(w, n)
               PROVE  [prod |-> p, ver |-> store[p].ver] \in Entry
    OBVIOUS
  <1>1. p \in Products /\ store[p] # None
    BY DEF PageOf, Listing, Matches
  <1>2. store[p].ver \in Versions
    BY <1>1 DEF MirrorTypeInv, TypeOK
  <1> QED BY <1>1, <1>2 DEF Entry

\* A pass with a page in hand.
Holding(c, n, k, es, f) ==
    [c EXCEPT !.step = "apply", !.seen = n, !.page = k, !.docs = es, !.last = f]

LEMMA HoldingType ==
  ASSUME NEW c \in Pass, NEW n \in Nat, NEW k \in Nat, NEW es \in SUBSET Entry, NEW f \in BOOLEAN
  PROVE  LET d == Holding(c, n, k, es, f)
         IN  /\ d \in Pass
             /\ d.step = "apply" /\ d.full = c.full /\ d.cap = c.cap
             /\ d.page = k /\ d.seen = n /\ d.docs = es /\ d.last = f
  <1> DEFINE d == Holding(c, n, k, es, f)
  <1>1. d \in Pass
    BY DEF Pass, Holding
  <1>2. /\ d.step = "apply" /\ d.full = c.full /\ d.cap = c.cap
        /\ d.page = k /\ d.seen = n /\ d.docs = es /\ d.last = f
    BY DEF Pass, Holding
  <1> QED BY <1>1, <1>2

\* A fetch finds no page, and the walk is over, or one to apply next.
LEMMA FetchIs ==
  ASSUME MirrorTypeInv, NEW w \in Passers, FetchPage(w)
  PROVE  LET docs == PageOf(w, pass[w].page)
             count == pass[w].seen + Cardinality(docs)
         IN /\ pass[w].step = "fetch"
            /\ UNCHANGED <<store, mirror, own, elapsed, rest, base, shrunk, since, changes, troubles>>
            /\ \/ pass' = [pass EXCEPT ![w] = [pass[w] EXCEPT !.step = "commit"]] /\ docs = {}
               \/ \E c \in Pass, total \in {Cardinality(Listing(w)), count + 1} :
                     /\ pass' = [pass EXCEPT ![w] = c]
                     /\ c.step = "apply" /\ c.full = pass[w].full /\ c.cap = pass[w].cap
                     /\ c.page = pass[w].page + 1 /\ c.seen = count
                     /\ c.docs = {[prod |-> p, ver |-> store[p].ver] : p \in docs}
                     /\ c.last = IsLast(w, docs, count, total)
  <1> DEFINE docs == PageOf(w, pass[w].page)
             count == pass[w].seen + Cardinality(docs)
             es == {[prod |-> p, ver |-> store[p].ver] : p \in docs}
             with(total) == Holding(pass[w], count, pass[w].page + 1, es,
                                    IsLast(w, docs, count, total))
  <1>1. /\ pass[w].step = "fetch"
        /\ UNCHANGED <<store, mirror, own, elapsed, rest, base, shrunk, since, changes, troubles>>
        /\ \/ pass' = [pass EXCEPT ![w].step = "commit"] /\ docs = {}
           \/ \E total \in {Cardinality(Listing(w)), count + 1} :
                 pass' = [pass EXCEPT ![w] = with(total)]
    BY DEF FetchPage, Holding, ghostVars, boundVars
  <1>2. pass[w] \in Pass /\ pass[w].page \in Nat \ {0} /\ pass[w].seen \in Nat
    BY DEF MirrorTypeInv, TypeOK, Pass
  <1>3. es \in SUBSET Entry
    BY FetchedType
  <1>4. Cardinality(docs) \in Nat
    BY <1>2, PageFull, MirrorAssumption
  <1> HIDE DEF docs, es
  <1>5. count \in Nat /\ pass[w].page + 1 \in Nat
    BY <1>2, <1>4
  <1> HIDE DEF count
  <1>6. ASSUME NEW total
        PROVE  LET c == with(total)
               IN  /\ c \in Pass
                   /\ c.step = "apply" /\ c.full = pass[w].full /\ c.cap = pass[w].cap
                   /\ c.page = pass[w].page + 1 /\ c.seen = count /\ c.docs = es
                   /\ c.last = IsLast(w, docs, count, total)
    <2>1. IsLast(w, docs, count, total) \in BOOLEAN
      BY DEF IsLast
    <2> QED BY <1>2, <1>3, <1>5, <2>1, HoldingType
  <1> HIDE DEF with
  <1> QED BY <1>1, <1>6 DEF docs, count, es

LEMMA FetchType ==
  ASSUME MirrorTypeInv, NEW w \in Passers, FetchPage(w)
  PROVE  MirrorTypeInv'
  <1>1. pass[w] \in Pass /\ pass[w].page \in Nat \ {0} /\ pass \in [Passers -> Pass]
    BY DEF MirrorTypeInv, TypeOK
  <1>2. /\ [pass[w] EXCEPT !.step = "commit"] \in Pass
        /\ [pass[w] EXCEPT !.step = "commit"].page = pass[w].page
    BY <1>1 DEF Pass
  <1>3. PICK c : /\ pass' = [pass EXCEPT ![w] = c]
                 /\ c \in Pass /\ (c.page = pass[w].page \/ c.page = pass[w].page + 1)
    BY <1>2, FetchIs
  <1>4. UNCHANGED <<store, mirror, own, elapsed, rest, base, shrunk, since, changes, troubles>>
    BY FetchIs
  <1>5. c.page \in Nat \ {0}
    BY <1>1, <1>3
  <1>6. pass' \in [Passers -> Pass] /\ \A v \in Passers : pass'[v].page \in Nat \ {0}
    BY <1>1, <1>3, <1>5 DEF MirrorTypeInv, TypeOK
  <1> QED BY <1>4, <1>6 DEF MirrorTypeInv, TypeOK

\* The version that a page brings of a product.
Brought(w, p) == (CHOOSE e \in Parsed(w) : e.prod = p).ver

LEMMA BroughtIs ==
  ASSUME NEW w, NEW p, \E e \in Parsed(w) : e.prod = p
  PROVE  \E e \in pass[w].docs : e.prod = p /\ p \notin Unnamed /\ Brought(w, p) = e.ver
  BY DEF Brought, Parsed

LEMMA ApplyType ==
  ASSUME MirrorTypeInv, NEW w \in Passers, ApplyPage(w)
  PROVE  MirrorTypeInv'
  <1> USE DEF MirrorTypeInv, TypeOK
  <1> DEFINE next == IF pass[w].last THEN "commit" ELSE "fetch"
             c == [pass[w] EXCEPT !.step = next, !.docs = {}]
             new == [p \in Products |-> IF \E e \in Parsed(w) : e.prod = p
                                        THEN Brought(w, p) ELSE own[w][p]]
  <1>1. pass[w] \in Pass /\ pass[w].page \in Nat \ {0}
    OBVIOUS
  <1>2. c \in Pass /\ c.page = pass[w].page
    BY <1>1 DEF Pass
  <1>3. pass' = [pass EXCEPT ![w] = c] /\ own' = [own EXCEPT ![w] = new]
    BY DEF ApplyPage, Brought
  <1>4. new \in [Products -> Versions \cup {None}] /\ \A p \in Unnamed : new[p] = None
    <2>1. ASSUME NEW p \in Products
          PROVE  new[p] \in Versions \cup {None} /\ (p \in Unnamed => new[p] = None)
      <3>1. CASE \E e \in Parsed(w) : e.prod = p
        BY <3>1, <1>1, BroughtIs DEF Pass, Entry
      <3>2. CASE ~\E e \in Parsed(w) : e.prod = p
        BY <3>2
      <3> QED BY <3>1, <3>2
    <2> QED BY <2>1, MirrorAssumption
  <1> HIDE DEF c, new
  <1>5. pass' \in [Passers -> Pass] /\ \A v \in Passers : pass'[v].page \in Nat \ {0}
    BY <1>1, <1>2, <1>3
  <1>6. /\ own' \in [Passers -> [Products -> Versions \cup {None}]]
        /\ \A v \in Passers, p \in Unnamed : own'[v][p] = None
    BY <1>3, <1>4
  <1> QED BY <1>5, <1>6 DEF ApplyPage, ghostVars, boundVars

LEMMA CloseType ==
  ASSUME MirrorTypeInv, NEW ws, Close(ws), store' = store, changes' = changes, since' \in Ages,
         mirror' \in [Products -> Versions \cup {None}],
         \A p \in Unnamed : mirror'[p] = None, troubles' \in 0..MaxTroubles
  PROVE  MirrorTypeInv'
  <1> USE DEF MirrorTypeInv, TypeOK
  <1>1. pass' \in [Passers -> Pass] /\ \A v \in Passers : pass'[v].page \in Nat \ {0}
    <2>1. Off \in Pass /\ Off.page = 1
      BY OffType DEF Off
    <2> HIDE DEF Off
    <2> QED BY <2>1 DEF Close
  <1>2. /\ own' \in [Passers -> [Products -> Versions \cup {None}]]
        /\ base' \in [Passers -> [Products -> Versions \cup {None}]]
        /\ \A v \in Passers, p \in Unnamed : own'[v][p] = None
    BY MirrorAssumption DEF Close, Unwritten
  <1>3. /\ elapsed' \in [Passers -> 0..MaxPass] /\ shrunk' \in [Passers -> BOOLEAN]
        /\ rest' \in 0..Gap
    BY MirrorAssumption DEF Close
  <1> QED BY <1>1, <1>2, <1>3

LEMMA CommitType ==
  ASSUME MirrorTypeInv, NEW w \in Passers, CommitPass(w)
  PROVE  MirrorTypeInv'
  <1>1. /\ mirror' \in [Products -> Versions \cup {None}]
        /\ \A p \in Unnamed : mirror'[p] = None
    BY MirrorAssumption DEF MirrorTypeInv, TypeOK, CommitPass
  <1>2. since' \in Ages
    BY MirrorAssumption DEF MirrorTypeInv, TypeOK, CommitPass, Ages
  <1> QED BY <1>1, <1>2, CloseType DEF CommitPass, boundVars, MirrorTypeInv, TypeOK

LEMMA TroubleType ==
  ASSUME MirrorTypeInv, Trouble
  PROVE  troubles' \in 0..MaxTroubles
  BY MirrorAssumption DEF MirrorTypeInv, TypeOK, Trouble

LEMMA FailType ==
  ASSUME MirrorTypeInv, NEW w \in Passers, FailPass(w)
  PROVE  MirrorTypeInv'
  BY TroubleType, CloseType DEF FailPass, MirrorTypeInv, TypeOK

LEMMA StartType ==
  ASSUME MirrorTypeInv, StartRoutine \/ StartCrawl
  PROVE  MirrorTypeInv'
  <1>1. CASE StartRoutine
    BY <1>1, BeginType DEF StartRoutine, Passers, MirrorTypeInv, TypeOK
  <1>2. CASE StartCrawl
    BY <1>2, BeginType, TroubleType DEF StartCrawl, Passers
  <1> QED BY <1>1, <1>2

LEMMA MirrorStep == MirrorTypeInv /\ [Next]_vars => MirrorTypeInv'
  <1> SUFFICES ASSUME MirrorTypeInv, [Next]_vars PROVE MirrorTypeInv'
    OBVIOUS
  <1>1. CASE UNCHANGED vars
    BY <1>1 DEF vars, MirrorTypeInv, TypeOK
  <1> QED
    BY <1>1, TouchType, TickType, StartType, FetchType, ApplyType, CommitType, FailType
       DEF Next, PassStep

\* The mirror, the open sessions and the store's entries keep their types, and
\* an entry without an id or a name never has a row.
THEOREM TypeCorrect == Spec => []TypeOK
  <1>1. MirrorTypeInv => TypeOK
    BY DEF MirrorTypeInv
  <1> QED BY <1>1, MirrorStarts, MirrorStep, PTL DEF Spec

-----------------------------------------------------------------------------
(* A pass misses nothing. *)

\* What the pass w matched when it began is in the listing still, no older.
InSight(w) ==
    \A p \in Products : base[w][p] # None =>
       p \in Listing(w) /\ store[p].ver >= base[w][p]

\* No entry that the pass has read or written is older than what it began with.
Fresh(w) ==
    /\ \A e \in pass[w].docs : base[w][e.prod] # None => e.ver >= base[w][e.prod]
    /\ \A p \in Products :
          base[w][p] # None /\ own[w][p] # None => own[w][p] >= base[w][p]

InHand(w, p) == pass[w].step = "apply" /\ \E e \in pass[w].docs : e.prod = p

Ahead(w, p) ==
    /\ pass[w].step = "fetch" \/ (pass[w].step = "apply" /\ ~pass[w].last)
    /\ Before(w, p) >= (pass[w].page - 1) * PageSize

\* The pass has written each of them, holds it, or has it on a page to come;
\* and it has seen no more entries than fit on the pages behind.
Walked(w) ==
    /\ pass[w].seen <= (pass[w].page - 1) * PageSize
    /\ pass[w].cap = 0 =>
          \A p \in Products \ Unnamed : base[w][p] # None =>
             own[w][p] # None \/ InHand(w, p) \/ Ahead(w, p)

Unshrunk(w) == pass[w].step # "off" /\ ~shrunk[w]

Kept(w) ==
    /\ pass[w].step = "off" => own[w] = Unwritten
    /\ Unshrunk(w) => InSight(w) /\ Fresh(w) /\ Walked(w)

WalkInv == \A w \in Passers : Kept(w)

MirrorInv == MirrorTypeInv /\ WalkInv

\* What joins the listing pushes the others back, never forward.
LEMMA BeforeGrows ==
  ASSUME NEW w, Listing(w) \subseteq Listing(w)', NEW p
  PROVE  Before(w, p) \in Nat /\ Before(w, p)' \in Nat /\ Before(w, p) <= Before(w, p)'
  <1> DEFINE B == {q \in Listing(w) : q < p}
             C == {q \in Listing(w)' : q < p}
  <1>1. IsFiniteSet(Products) /\ C \in SUBSET Products /\ B \in SUBSET C
    <2>1. IsFiniteSet(Products)
      BY MirrorAssumption, FS_Interval DEF Products
    <2>2. C \in SUBSET Products
      BY DEF Listing
    <2>3. B \in SUBSET C
      OBVIOUS
    <2> QED BY <2>1, <2>2, <2>3
  <1>2. /\ IsFiniteSet(B) /\ Cardinality(B) \in Nat
        /\ IsFiniteSet(C) /\ Cardinality(C) \in Nat /\ Cardinality(B) <= Cardinality(C)
    BY <1>1, FS_Subset, FS_CardinalityType
  <1> QED BY <1>2 DEF Before

\* A step that leaves the pass w alone, takes nothing from its listing and
\* makes no entry older.
Aside(w) ==
    /\ pass'[w] = pass[w] /\ own'[w] = own[w] /\ base'[w] = base[w]
    /\ Listing(w) \subseteq Listing(w)'
    /\ \A p \in Listing(w) : store'[p].ver >= store[p].ver
    /\ shrunk[w] => shrunk'[w]

LEMMA AsideKeeps ==
  ASSUME MirrorInv, MirrorTypeInv', NEW w \in Passers, Unshrunk(w)' => Aside(w),
         pass'[w] = pass[w], own'[w] = own[w]
  PROVE  Kept(w)'
  <1> SUFFICES ASSUME Unshrunk(w)', Aside(w) PROVE (InSight(w) /\ Fresh(w) /\ Walked(w))'
    BY DEF MirrorInv, WalkInv, Kept, Unwritten
  <1>1. InSight(w) /\ Fresh(w) /\ Walked(w)
    BY DEF MirrorInv, WalkInv, Kept, Aside, Unshrunk
  <1>2. InSight(w)'
    <2> SUFFICES ASSUME NEW p \in Products, base[w][p] # None
                 PROVE  p \in Listing(w)' /\ store'[p].ver >= base[w][p]
      BY DEF Aside, InSight
    <2>1. p \in Listing(w) /\ p \in Listing(w)' /\ store[p].ver >= base[w][p]
          /\ store'[p].ver >= store[p].ver
      BY <1>1 DEF InSight, Aside
    <2>2. store[p] # None /\ store'[p] # None
      BY <2>1 DEF Listing, Matches
    <2>3. store[p].ver \in Nat /\ store'[p].ver \in Nat /\ base[w][p] \in Nat
      BY <2>2, MirrorAssumption DEF MirrorInv, MirrorTypeInv, TypeOK, Versions
    <2> QED BY <2>1, <2>3
  <1>3. Fresh(w)'
    BY <1>1 DEF Fresh, Aside
  <1>4. Walked(w)'
    <2>1. pass'[w].seen <= (pass'[w].page - 1) * PageSize
      BY <1>1 DEF Walked, Aside
    <2>2. ASSUME NEW p \in Products \ Unnamed, base[w][p] # None, pass[w].cap = 0
          PROVE  own'[w][p] # None \/ InHand(w, p)' \/ Ahead(w, p)'
      <3>1. own[w][p] # None \/ InHand(w, p) \/ Ahead(w, p)
        BY <1>1, <2>2 DEF Walked
      <3>2. CASE own[w][p] # None \/ InHand(w, p)
        BY <3>2 DEF InHand, Aside
      <3>3. CASE Ahead(w, p)
        <4>1. Before(w, p) \in Nat /\ Before(w, p)' \in Nat /\ Before(w, p) <= Before(w, p)'
          BY BeforeGrows DEF Aside
        <4>2. pass[w].page \in Nat /\ PageSize \in Nat
          BY MirrorAssumption DEF MirrorInv, MirrorTypeInv
        <4>3. (pass[w].page - 1) * PageSize \in Int
          BY <4>2
        <4>4. Before(w, p)' >= (pass'[w].page - 1) * PageSize
          BY <3>3, <4>1, <4>3 DEF Ahead, Aside
        <4> QED BY <3>3, <4>4 DEF Ahead, Aside
      <3> QED BY <3>1, <3>2, <3>3
    <2> QED BY <2>1, <2>2 DEF Walked, Aside
  <1> QED BY <1>2, <1>3, <1>4

LEMMA WalkStarts == Init => WalkInv
  BY DEF Init, WalkInv, Kept, Unshrunk, Off

LEMMA TouchAside ==
  ASSUME MirrorInv, NEW p \in Products, Touch(p), NEW w \in Passers
  PROVE  Aside(w)
  <1> USE DEF MirrorInv, MirrorTypeInv, TypeOK
  <1>1. /\ pass' = pass /\ own' = own /\ base' = base /\ elapsed' = elapsed /\ shrunk' = shrunk
        /\ store'[p] = [ver |-> changes + 1, age |-> 0]
        /\ \A q \in Products : q # p => store'[q] = store[q]
    BY DEF Touch, ghostVars
  <1>2. changes + 1 \in Nat
    BY MirrorAssumption
  <1>3. store'[p] # None
    <2>1. [ver |-> changes + 1, age |-> 0] \in [ver : Nat, age : Nat]
      BY <1>2
    <2> QED BY <1>1, <2>1, MirrorAssumption
  <1>4. store'[p].ver = changes + 1 /\ store'[p].age = 0
    BY <1>1
  <1>5. elapsed[w] \in Nat /\ Window \in Nat
    BY MirrorAssumption
  <1>6. \A q \in Products : Matches(w, q) => Matches(w, q)'
    BY <1>1, <1>3, <1>4, <1>5 DEF Matches
  <1>7. \A q \in Products : store[q] # None => store'[q].ver >= store[q].ver
    <2>1. \A q \in Products : store[q] # None => store[q].ver \in Nat /\ store[q].ver <= changes
      BY MirrorAssumption DEF Versions
    <2> QED BY <1>1, <1>2, <1>4, <2>1, MirrorAssumption
  <1> QED BY <1>1, <1>6, <1>7 DEF Aside, Listing, Matches

LEMMA WithdrawAside ==
  ASSUME MirrorInv, NEW p \in Products, Withdraw(p), NEW w \in Passers, Unshrunk(w)'
  PROVE  Aside(w)
  <1> USE DEF MirrorInv, MirrorTypeInv, TypeOK
  <1>1. /\ pass' = pass /\ own' = own /\ base' = base /\ elapsed' = elapsed
        /\ shrunk' = [v \in Passers |-> shrunk[v] \/ (pass[v].step # "off" /\ Matches(v, p))]
        /\ \A q \in Products : q # p => store'[q] = store[q]
    BY DEF Withdraw
  <1>2. ~Matches(w, p) /\ ~shrunk[w]
    BY <1>1 DEF Unshrunk
  <1>3. \A q \in Listing(w) : store'[q] = store[q] /\ Matches(w, q)'
    BY <1>1, <1>2 DEF Listing, Matches
  <1>4. \A q \in Listing(w) : store[q].ver \in Nat
    BY MirrorAssumption DEF Listing, Matches, Versions
  <1> QED BY <1>1, <1>2, <1>3, <1>4 DEF Aside, Listing

\* The query of a pass keeps what it matched, though all entries grow older.
LEMMA TickAside ==
  ASSUME MirrorInv, Tick, NEW w \in Passers, Unshrunk(w)'
  PROVE  Aside(w)
  <1> USE DEF MirrorInv, MirrorTypeInv, TypeOK
  <1>1. /\ pass' = pass /\ own' = own /\ base' = base /\ shrunk' = shrunk
    BY DEF Tick
  <1>2. elapsed'[w] = elapsed[w] + 1 /\ elapsed[w] < MaxPass /\ elapsed[w] \in Nat
    BY <1>1, MirrorAssumption DEF Tick, Unshrunk
  <1>3. ASSUME NEW q \in Listing(w)
        PROVE  store'[q].ver = store[q].ver /\ store[q].ver \in Nat /\ Matches(w, q)'
    <2>1. q \in Products /\ store[q] # None /\ (pass[w].full \/ store[q].age <= Window + elapsed[w])
      BY DEF Listing, Matches
    <2> DEFINE a == Older(store[q].age)
    <2>2. store[q] \in [ver : Versions, age : Ages]
      BY <2>1
    <2>3. store'[q] = [store[q] EXCEPT !.age = a]
      BY <2>1 DEF Tick
    <2>4. a \in Nat /\ (pass[w].full \/ a <= Window + elapsed'[w])
      BY <1>2, <2>1, <2>2, MirrorAssumption DEF Ages, Older
    <2> HIDE DEF a
    <2>5. store'[q] = [ver |-> store[q].ver, age |-> a]
      BY <2>2, <2>3
    <2>6. store[q].ver \in Nat
      BY <2>2, MirrorAssumption DEF Versions
    <2>7. store'[q] # None
      <3>1. store'[q] \in [ver : Nat, age : Nat]
        BY <2>4, <2>5, <2>6
      <3> QED BY <3>1, MirrorAssumption
    <2> QED BY <1>1, <2>1, <2>4, <2>5, <2>6, <2>7 DEF Matches
  <1> QED BY <1>1, <1>3 DEF Aside, Listing

LEMMA WorldKeeps ==
  ASSUME MirrorInv, MirrorTypeInv', NEW w \in Passers,
         (\E p \in Products : Touch(p) \/ Withdraw(p)) \/ Tick
  PROVE  Kept(w)'
  <1>1. pass' = pass /\ own' = own
    BY DEF Touch, Withdraw, Tick
  <1> QED BY <1>1, TouchAside, WithdrawAside, TickAside, AsideKeeps

\* Where one pass goes on, the other is left alone.
LEMMA OtherKeeps ==
  ASSUME MirrorInv, MirrorTypeInv', NEW w \in Passers,
         store' = store, elapsed'[w] = elapsed[w], pass'[w] = pass[w], own'[w] = own[w],
         base'[w] = base[w], shrunk'[w] = shrunk[w]
  PROVE  Kept(w)'
  <1>1. Listing(w)' = Listing(w)
    BY DEF Listing, Matches
  <1>2. \A p \in Listing(w) : store[p].ver \in Nat
    BY MirrorAssumption DEF MirrorInv, MirrorTypeInv, TypeOK, Listing, Matches, Versions
  <1>3. Aside(w)
    BY <1>1, <1>2 DEF Aside
  <1> QED BY <1>3, AsideKeeps

LEMMA BeginKeeps ==
  ASSUME MirrorInv, MirrorTypeInv', NEW w \in Passers, NEW full \in BOOLEAN, NEW cap \in Nat,
         Begin(w, full, cap), NEW v \in Passers
  PROVE  Kept(v)'
  <1> USE DEF MirrorInv, MirrorTypeInv, TypeOK
  <1>1. /\ pass[w].step = "off"
        /\ store' = store /\ own' = own /\ elapsed' = elapsed /\ shrunk' = shrunk
    BY DEF Begin
  <1>2. CASE v # w
    <2>1. pass'[v] = pass[v] /\ base'[v] = base[v]
      BY <1>2 DEF Begin
    <2> QED BY <1>1, <2>1, OtherKeeps
  <1>3. CASE v = w
    <2>1. own'[w] = Unwritten
      BY <1>1 DEF WalkInv, Kept
    <2>2. /\ pass'[w].step = "fetch" /\ pass'[w].full = full /\ pass'[w].page = 1
          /\ pass'[w].seen = 0 /\ pass'[w].docs = {}
      BY DEF Begin, Off
    <2>3. \A p \in Products : base'[w][p] # None =>
             /\ store[p] # None /\ (full \/ store[p].age <= Window)
             /\ base'[w][p] = store[p].ver
      BY DEF Begin
    <2>4. InSight(w)'
      <3> SUFFICES ASSUME NEW p \in Products, base'[w][p] # None
                   PROVE  Matches(w, p)' /\ store'[p].ver >= base'[w][p]
        BY DEF InSight, Listing
      <3>1. store[p] \in [ver : Versions, age : Ages] /\ base'[w][p] = store[p].ver
            /\ store[p] # None /\ (full \/ store[p].age <= Window)
        BY <2>3
      <3>2. store[p].ver \in Nat /\ store[p].age \in Nat
        BY <3>1, MirrorAssumption DEF Versions, Ages
      <3>3. elapsed[w] \in Nat /\ Window \in Nat
        BY MirrorAssumption
      <3> QED BY <1>1, <2>2, <3>1, <3>2, <3>3 DEF Matches
    <2>5. Fresh(w)'
      BY <2>1, <2>2 DEF Fresh, Unwritten
    <2>6. Walked(w)'
      <3>1. (1 - 1) * PageSize = 0
        BY MirrorAssumption
      <3>2. \A p : Before(w, p)' \in Nat
        <4>1. Listing(w)' \subseteq Products /\ IsFiniteSet(Products)
          BY MirrorAssumption, FS_Interval DEF Listing, Products
        <4>2. ASSUME NEW p PROVE Cardinality({q \in Listing(w)' : q < p}) \in Nat
          BY <4>1, FS_Subset, FS_CardinalityType
        <4> QED BY <4>2 DEF Before
      <3> QED BY <2>2, <3>1, <3>2 DEF Walked, Ahead
    <2> QED BY <1>3, <2>1, <2>2, <2>4, <2>5, <2>6 DEF Kept
  <1> QED BY <1>2, <1>3

\* What is not behind the page that was fetched is on it or after it; and when
\* something comes after it, the walk goes on.
LEMMA FetchKeeps ==
  ASSUME MirrorInv, MirrorTypeInv', NEW w \in Passers, FetchPage(w), NEW v \in Passers
  PROVE  Kept(v)'
  <1> USE DEF MirrorInv, MirrorTypeInv, TypeOK
  <1> DEFINE docs == PageOf(w, pass[w].page)
             count == pass[w].seen + Cardinality(docs)
             reach == pass[w].page * PageSize
  <1>1. /\ pass[w].step = "fetch"
        /\ store' = store /\ own' = own /\ elapsed' = elapsed /\ shrunk' = shrunk /\ base' = base
    BY FetchIs
  <1>2. CASE v # w
    <2>1. pass'[v] = pass[v]
      BY <1>2, FetchIs
    <2> QED BY <1>1, <2>1, OtherKeeps
  <1>3. CASE v = w
    <2> SUFFICES ASSUME Unshrunk(w)'
                 PROVE  Kept(w)'
      <3>1. [pass[w] EXCEPT !.step = "commit"].step = "commit"
        BY DEF Pass
      <3>2. \E c : pass' = [pass EXCEPT ![w] = c] /\ c.step # "off"
        BY <3>1, FetchIs
      <3>3. pass'[w].step # "off"
        BY <3>2
      <3> QED BY <1>3, <3>3 DEF Kept
    <2>1. pass[w] \in Pass /\ pass[w].page \in Nat \ {0} /\ pass[w].seen \in Nat
      BY DEF Pass
    <2>2. InSight(w) /\ Fresh(w) /\ Walked(w)
      BY <1>1 DEF WalkInv, Kept, Unshrunk
    <2>3. /\ Cardinality(docs) \in 0..PageSize
          /\ reach = (pass[w].page - 1) * PageSize + PageSize /\ reach \in Nat
          /\ \A p \in Listing(w) : Before(w, p) >= reach => Cardinality(docs) = PageSize
      <3>1. reach \in Nat
        BY <2>1, MirrorAssumption
      <3> QED BY <2>1, <3>1, PageFull
    <2>4. \A p : Before(w, p) \in Nat
      BY BeforeType
    <2>5. \A p \in Listing(w) : Before(w, p) >= (pass[w].page - 1) * PageSize =>
             p \in docs \/ Before(w, p) >= reach
      BY <2>3, <2>4 DEF PageOf
    <2>6. PageSize \in Nat \ {0} /\ pass[w].seen <= (pass[w].page - 1) * PageSize
      BY <2>2, MirrorAssumption DEF Walked
    <2>7. \A p \in Products \ Unnamed :
             base[w][p] # None /\ pass[w].cap = 0 /\ own[w][p] = None =>
                p \in Listing(w) /\ (p \in docs \/ Before(w, p) >= reach)
      BY <1>1, <2>2, <2>5 DEF Walked, InSight, InHand, Ahead
    <2>8. CASE docs = {} /\ pass' = [pass EXCEPT ![w] = [pass[w] EXCEPT !.step = "commit"]]
      <3> DEFINE c == [pass[w] EXCEPT !.step = "commit"]
      <3>1. /\ c.step = "commit" /\ c.full = pass[w].full /\ c.cap = pass[w].cap
            /\ c.page = pass[w].page /\ c.seen = pass[w].seen /\ c.docs = pass[w].docs
        BY <2>1 DEF Pass
      <3> HIDE DEF c
      <3>2. pass'[w] = c
        BY <2>8 DEF c
      <3>3. Cardinality(docs) = 0
        BY <2>8, FS_EmptySet
      <3>4. InSight(w)' /\ Fresh(w)'
        BY <1>1, <2>2, <3>1, <3>2 DEF InSight, Fresh, Listing, Matches
      <3>5. Walked(w)'
        BY <1>1, <2>2, <2>3, <2>6, <2>7, <2>8, <3>1, <3>2, <3>3 DEF Walked
      <3> QED BY <3>1, <3>2, <3>4, <3>5 DEF Kept
    <2>9. ASSUME NEW c \in Pass, NEW total \in {Cardinality(Listing(w)), count + 1},
                 pass' = [pass EXCEPT ![w] = c],
                 c.step = "apply", c.full = pass[w].full, c.cap = pass[w].cap,
                 c.page = pass[w].page + 1, c.seen = count,
                 c.docs = {[prod |-> p, ver |-> store[p].ver] : p \in docs},
                 c.last = IsLast(w, docs, count, total)
          PROVE  Kept(w)'
      <3>1. pass'[w] = c
        BY <2>9
      <3>2. Listing(w)' = Listing(w) /\ \A p : Before(w, p)' = Before(w, p)
        BY <1>1, <2>9, <3>1 DEF Listing, Matches, Before
      <3>3. InSight(w)'
        BY <1>1, <2>2, <3>2 DEF InSight
      <3>4. Fresh(w)'
        <4>1. \A e \in c.docs : base[w][e.prod] # None => e.ver >= base[w][e.prod]
          BY <2>2, <2>9 DEF InSight, PageOf, Listing
        <4> QED BY <1>1, <2>2, <3>1, <4>1 DEF Fresh
      <3> HIDE DEF docs, reach
      <3>5. c.seen <= reach /\ (c.page - 1) * PageSize = reach
        <4>1. pass[w].page + 1 - 1 = pass[w].page
          BY <2>1
        <4>2. (c.page - 1) * PageSize = reach
          BY <2>9, <4>1 DEF reach
        <4> QED BY <2>1, <2>3, <2>6, <2>9, <4>2
      <3>6. ASSUME NEW p \in Products \ Unnamed, base[w][p] # None, c.cap = 0, own[w][p] = None
            PROVE  InHand(w, p)' \/ Ahead(w, p)'
        <4>1. CASE p \in docs
          <5>1. [prod |-> p, ver |-> store[p].ver] \in pass'[w].docs
            BY <2>9, <3>1, <4>1
          <5>2. \E e \in pass'[w].docs : e.prod = p
            BY <5>1
          <5> QED BY <2>9, <3>1, <5>2 DEF InHand
        <4>2. CASE p \in Listing(w) /\ Before(w, p) >= reach
          <5>1. Cardinality(docs) = PageSize
            BY <2>3, <4>2
          <5>2. Before(w, p) < Cardinality(Listing(w)) /\ Cardinality(Listing(w)) \in Nat
            BY <4>2, BeforeType, ListingFinite
          <5>3. ~(count >= total)
            BY <2>1, <2>3, <2>4, <2>9, <3>5, <4>2, <5>2
          <5>4. ~c.last
            BY <2>9, <2>6, <3>6, <5>1, <5>3 DEF IsLast
          <5> QED BY <2>9, <3>1, <3>2, <3>5, <4>2, <5>4 DEF Ahead
        <4> QED BY <2>7, <2>9, <3>6, <4>1, <4>2
      <3>7. Walked(w)'
        BY <1>1, <3>1, <3>5, <3>6 DEF Walked
      <3> QED BY <2>9, <3>1, <3>3, <3>4, <3>7 DEF Kept
    <2>10. \/ docs = {} /\ pass' = [pass EXCEPT ![w] = [pass[w] EXCEPT !.step = "commit"]]
           \/ \E c \in Pass, total \in {Cardinality(Listing(w)), count + 1} :
                 /\ pass' = [pass EXCEPT ![w] = c]
                 /\ c.step = "apply" /\ c.full = pass[w].full /\ c.cap = pass[w].cap
                 /\ c.page = pass[w].page + 1 /\ c.seen = count
                 /\ c.docs = {[prod |-> p, ver |-> store[p].ver] : p \in docs}
                 /\ c.last = IsLast(w, docs, count, total)
      BY FetchIs
    <2> HIDE DEF docs, count
    <2> QED BY <2>8, <2>9, <2>10
  <1> QED BY <1>2, <1>3

LEMMA ApplyKeeps ==
  ASSUME MirrorInv, MirrorTypeInv', NEW w \in Passers, ApplyPage(w), NEW v \in Passers
  PROVE  Kept(v)'
  <1> USE DEF MirrorInv, MirrorTypeInv, TypeOK
  <1> DEFINE next == IF pass[w].last THEN "commit" ELSE "fetch"
             c == [pass[w] EXCEPT !.step = next, !.docs = {}]
             new == [p \in Products |-> IF \E e \in Parsed(w) : e.prod = p
                                        THEN Brought(w, p) ELSE own[w][p]]
  <1>1. /\ pass[w].step = "apply"
        /\ store' = store /\ elapsed' = elapsed /\ shrunk' = shrunk /\ base' = base
        /\ pass' = [pass EXCEPT ![w] = c] /\ own' = [own EXCEPT ![w] = new]
    BY DEF ApplyPage, Brought, ghostVars
  <1>2. CASE v # w
    <2>1. pass'[v] = pass[v] /\ own'[v] = own[v]
      BY <1>1, <1>2
    <2> QED BY <1>1, <2>1, OtherKeeps
  <1>3. CASE v = w
    <2>1. /\ c.step = next /\ c.full = pass[w].full /\ c.cap = pass[w].cap /\ c.docs = {}
          /\ c.page = pass[w].page /\ c.seen = pass[w].seen /\ next # "off"
      BY DEF Pass
    <2>2. next = "fetch" \/ (next = "commit" /\ pass[w].last)
      OBVIOUS
    <2>3. \A p \in Products : new[p] = IF \E e \in Parsed(w) : e.prod = p
                                       THEN Brought(w, p) ELSE own[w][p]
      OBVIOUS
    <2> HIDE DEF c, next, new
    <2>4. pass'[w] = c /\ own'[w] = new
      BY <1>1
    <2> SUFFICES ASSUME Unshrunk(w)'
                 PROVE  Kept(w)'
      BY <1>3, <2>1, <2>4 DEF Kept
    <2>5. InSight(w) /\ Fresh(w) /\ Walked(w)
      BY <1>1 DEF WalkInv, Kept, Unshrunk
    <2>6. Listing(w)' = Listing(w) /\ \A p : Before(w, p)' = Before(w, p)
      BY <1>1, <2>1, <2>4 DEF Listing, Matches, Before
    <2>7. InSight(w)'
      BY <1>1, <2>5, <2>6 DEF InSight
    <2>8. ASSUME NEW p, \E e \in Parsed(w) : e.prod = p
           PROVE  \E e \in pass[w].docs : e.prod = p /\ Brought(w, p) = e.ver
      BY <2>8 DEF Brought, Parsed
    <2>9. Fresh(w)'
      <3>1. ASSUME NEW p \in Products, base[w][p] # None, new[p] # None
            PROVE  new[p] >= base[w][p]
        <4>1. CASE \E e \in Parsed(w) : e.prod = p
          <5>1. PICK e \in pass[w].docs : e.prod = p /\ Brought(w, p) = e.ver
            BY <4>1, <2>8
          <5>2. new[p] = e.ver
            BY <2>3, <4>1, <5>1
          <5> QED BY <2>5, <3>1, <5>1, <5>2 DEF Fresh
        <4>2. CASE ~\E e \in Parsed(w) : e.prod = p
          BY <2>3, <2>5, <3>1, <4>2 DEF Fresh
        <4> QED BY <4>1, <4>2
      <3> QED BY <1>1, <2>1, <2>4, <3>1 DEF Fresh
    <2>10. ASSUME NEW p \in Products \ Unnamed, base[w][p] # None, pass[w].cap = 0
          PROVE  new[p] # None \/ Ahead(w, p)'
      <3>1. own[w][p] # None \/ InHand(w, p) \/ Ahead(w, p)
        BY <2>5, <2>10 DEF Walked
      <3>2. CASE \E e \in Parsed(w) : e.prod = p
        <4>1. \E e \in pass[w].docs : new[p] = e.ver
          <5>1. \E e \in pass[w].docs : Brought(w, p) = e.ver
            BY <3>2, <2>8
          <5>2. new[p] = Brought(w, p)
            BY <2>3, <3>2
          <5> QED BY <5>1, <5>2
        <4>2. \A e \in pass[w].docs : e.ver \in Nat
          <5>1. pass[w].docs \in SUBSET Entry
            BY DEF Pass
          <5> QED BY <5>1, MirrorAssumption DEF Entry, Versions
        <4> QED BY <4>1, <4>2, MirrorAssumption
      <3>3. CASE ~\E e \in Parsed(w) : e.prod = p
        <4>1. new[p] = own[w][p] /\ ~InHand(w, p)
          BY <2>3, <3>3 DEF InHand, Parsed
        <4>2. CASE Ahead(w, p)
          <5>1. next = "fetch"
            BY <1>1, <2>2, <4>2 DEF Ahead
          <5>2. Before(w, p)' >= (pass'[w].page - 1) * PageSize
            <6>1. Before(w, p)' = Before(w, p) /\ pass'[w].page = pass[w].page
              BY <2>1, <2>4, <2>6
            <6>2. Before(w, p) >= (pass[w].page - 1) * PageSize
              BY <4>2 DEF Ahead
            <6> QED BY <6>1, <6>2
          <5>3. pass'[w].step = "fetch"
            BY <2>1, <2>4, <5>1
          <5> QED BY <5>2, <5>3 DEF Ahead
        <4> QED BY <3>1, <4>1, <4>2
      <3> QED BY <3>2, <3>3
    <2>11. Walked(w)'
      BY <1>1, <2>1, <2>4, <2>5, <2>10 DEF Walked
    <2> QED BY <2>1, <2>4, <2>7, <2>9, <2>11 DEF Kept
  <1> QED BY <1>2, <1>3

LEMMA CloseKeeps ==
  ASSUME MirrorInv, MirrorTypeInv', NEW ws, Close(ws), store' = store, NEW v \in Passers
  PROVE  Kept(v)'
  <1>1. CASE v \in ws
    <2>1. pass'[v].step = "off" /\ own'[v] = Unwritten
      BY <1>1 DEF Close, Off
    <2> QED BY <2>1 DEF Kept, Unshrunk, Unwritten
  <1>2. CASE v \notin ws
    <2>1. pass'[v] = pass[v] /\ own'[v] = own[v] /\ elapsed'[v] = elapsed[v] /\ base'[v] = base[v]
      BY <1>2 DEF Close
    <2>2. shrunk'[v] = shrunk[v]
      BY <1>2 DEF Close, MirrorInv, MirrorTypeInv, TypeOK
    <2> QED BY <2>1, <2>2, OtherKeeps
  <1> QED BY <1>1, <1>2

LEMMA WalkStep == MirrorInv /\ [Next]_vars => MirrorInv'
  <1> SUFFICES ASSUME MirrorInv, [Next]_vars PROVE MirrorInv'
    OBVIOUS
  <1>1. MirrorTypeInv'
    BY MirrorStep DEF MirrorInv
  <1> SUFFICES ASSUME NEW v \in Passers PROVE Kept(v)'
    BY <1>1 DEF MirrorInv, WalkInv
  <1>2. CASE UNCHANGED vars
    BY <1>1, <1>2, OtherKeeps DEF vars, ghostVars, boundVars
  <1>3. CASE (\E p \in Products : Touch(p) \/ Withdraw(p)) \/ Tick
    BY <1>1, <1>3, WorldKeeps
  <1>4. CASE StartRoutine
    BY <1>1, <1>4, BeginKeeps DEF StartRoutine, Passers
  <1>5. CASE StartCrawl
    <2>1. "cli" \in Passers /\ Caps \subseteq Nat
      BY MirrorAssumption DEF Passers
    <2> QED BY <1>1, <1>5, <2>1, BeginKeeps DEF StartCrawl
  <1>6. ASSUME NEW w \in Passers, FetchPage(w) PROVE Kept(v)'
    BY <1>1, <1>6, FetchKeeps
  <1>7. ASSUME NEW w \in Passers, ApplyPage(w) PROVE Kept(v)'
    BY <1>1, <1>7, ApplyKeeps
  <1>8. ASSUME NEW w \in Passers, CommitPass(w) PROVE Kept(v)'
    BY <1>1, <1>8, CloseKeeps DEF CommitPass
  <1>9. ASSUME NEW w \in Passers, FailPass(w) PROVE Kept(v)'
    BY <1>1, <1>9, CloseKeeps DEF FailPass
  <1> QED BY <1>2, <1>3, <1>4, <1>5, <1>6, <1>7, <1>8, <1>9 DEF Next, PassStep

LEMMA CommitIsComplete ==
  ASSUME MirrorInv, NEW w \in Passers, CommitPass(w), ~shrunk[w], pass[w].cap = 0,
         NEW p \in Products \ Unnamed, base[w][p] # None
  PROVE  mirror'[p] # None /\ mirror'[p] >= base[w][p]
  <1>1. pass[w].step = "commit"
    BY DEF CommitPass
  <1>2. Fresh(w) /\ Walked(w)
    BY <1>1 DEF MirrorInv, WalkInv, Kept, Unshrunk
  <1>3. own[w][p] # None
    BY <1>1, <1>2 DEF Walked, InHand, Ahead
  <1>4. mirror'[p] = own[w][p]
    BY <1>3 DEF CommitPass
  <1> QED BY <1>2, <1>3, <1>4 DEF Fresh

\* A whole pass from which nothing was taken away mirrors, once committed, every
\* named product that it matched when it began: no stop condition of
\* iter_catalog ends the walk early, whatever was added or changed meanwhile.
THEOREM PassesAreComplete == Spec => PassIsComplete
  <1>1. Init => MirrorInv
    BY MirrorStarts, WalkStarts DEF MirrorInv
  <1>2. MirrorInv =>
          [\A w \in Passers :
             (CommitPass(w) /\ ~shrunk[w] /\ pass[w].cap = 0) =>
                \A p \in Products \ Unnamed :
                   base[w][p] # None => mirror'[p] # None /\ mirror'[p] >= base[w][p]]_vars
    BY CommitIsComplete
  <1> QED BY <1>1, <1>2, WalkStep, PTL DEF Spec, PassIsComplete
-----------------------------------------------------------------------------
(* Nothing slips through the window. *)

\* What the pass w holds or wrote is the store's own, or the store's is of a
\* change since the pass began; and what it did not match when it began changed
\* since, or before the window.
Recent(w) ==
    /\ pass[w].step = "off" => elapsed[w] = 0 /\ pass[w].docs = {}
    /\ \A p \in Products : store[p] # None =>
          /\ own[w][p] \in {None, store[p].ver} \/ store[p].age <= elapsed[w]
          /\ \A e \in pass[w].docs :
                e.prod = p => e.ver = store[p].ver \/ store[p].age <= elapsed[w]
          /\ pass[w].step # "off" /\ base[w][p] = None =>
                \/ store[p].age <= elapsed[w]
                \/ ~pass[w].full /\ store[p].age > Window + elapsed[w]

SlipInv == MirrorInv /\ NothingSlips /\ \A w \in Passers : Recent(w)

LEMMA SlipStarts == Init => NothingSlips /\ \A w \in Passers : Recent(w)
  <1> SUFFICES ASSUME Init PROVE NothingSlips /\ \A w \in Passers : Recent(w)
    OBVIOUS
  <1>1. NothingSlips
    <2>1. \A p \in Products : store[p] # None => store[p].ver = 0
      BY DEF Init
    <2> QED BY <2>1 DEF Init, NothingSlips
  <1>2. \A w \in Passers : Recent(w)
    BY DEF Init, Recent, Unwritten, Off
  <1> QED BY <1>1, <1>2

LEMMA TouchRecent ==
  ASSUME SlipInv, NEW p \in Products, Touch(p) \/ Withdraw(p)
  PROVE  NothingSlips' /\ \A w \in Passers : Recent(w)'
  <1>1. /\ pass' = pass /\ own' = own /\ base' = base /\ elapsed' = elapsed
        /\ mirror' = mirror /\ since' = since
        /\ \A q \in Products : q # p => store'[q] = store[q]
        /\ store'[p] # None => store'[p].age = 0
    BY DEF Touch, Withdraw, ghostVars, SlipInv, MirrorInv, MirrorTypeInv, TypeOK
  <1>2. since \in Nat /\ \A w \in Passers : elapsed[w] \in Nat
    BY MirrorAssumption DEF SlipInv, MirrorInv, MirrorTypeInv, TypeOK, Ages
  <1>3. NothingSlips'
    BY <1>1, <1>2 DEF SlipInv, NothingSlips
  <1>4. ASSUME NEW w \in Passers PROVE Recent(w)'
    <2>1. ASSUME NEW q \in Products, store'[q] # None
          PROVE  store'[q] = store[q] \/ store'[q].age <= elapsed[w]
      BY <1>1, <1>2, <2>1
    <2> QED BY <1>1, <2>1 DEF SlipInv, Recent
  <1> QED BY <1>3, <1>4

LEMMA TickRecent ==
  ASSUME SlipInv, Tick
  PROVE  NothingSlips' /\ \A w \in Passers : Recent(w)'
  <1> USE DEF SlipInv, MirrorInv, MirrorTypeInv, TypeOK
  <1>1. /\ pass' = pass /\ own' = own /\ base' = base /\ mirror' = mirror
        /\ since' = Older(since)
    BY DEF Tick
  <1>2. ASSUME NEW p \in Products, store'[p] # None
        PROVE  /\ store[p] # None /\ store'[p].ver = store[p].ver
               /\ store[p].age \in Ages /\ store'[p].age = Older(store[p].age)
    <2>1. store[p] # None
      BY <1>2 DEF Tick
    <2>2. store[p] \in [ver : Versions, age : Ages]
      BY <2>1
    <2>3. store'[p] = [store[p] EXCEPT !.age = Older(store[p].age)]
      BY <2>1 DEF Tick
    <2> QED BY <2>1, <2>2, <2>3
  <1>3. since \in Ages /\ \A w \in Passers : elapsed[w] \in 0..MaxPass
    OBVIOUS
  <1>4. NothingSlips'
    BY <1>1, <1>2, <1>3, MirrorAssumption DEF NothingSlips, Ages, Older
  <1>5. ASSUME NEW w \in Passers PROVE Recent(w)'
    <2>1. CASE pass[w].step = "off"
      <3>1. elapsed'[w] = 0 /\ own[w] = Unwritten /\ pass[w].docs = {}
        BY <2>1 DEF Tick, WalkInv, Kept, Recent
      <3> QED BY <1>1, <2>1, <3>1 DEF Recent, Unwritten
    <2>2. CASE pass[w].step # "off"
      <3>1. elapsed'[w] = elapsed[w] + 1 /\ elapsed[w] < MaxPass /\ elapsed[w] \in Nat
        BY <2>2, MirrorAssumption DEF Tick
      <3>2. ASSUME NEW a \in Ages
            PROVE  /\ a <= elapsed[w] => Older(a) <= elapsed'[w]
                   /\ a > Window + elapsed[w] => Older(a) > Window + elapsed'[w]
        BY <3>1, MirrorAssumption DEF Ages, Older
      <3>3. Recent(w)
        OBVIOUS
      <3>4. ASSUME NEW p \in Products, store'[p] # None
            PROVE  /\ own[w][p] \in {None, store'[p].ver} \/ store'[p].age <= elapsed'[w]
                   /\ \A e \in pass[w].docs :
                         e.prod = p => e.ver = store'[p].ver \/ store'[p].age <= elapsed'[w]
                   /\ pass[w].step # "off" /\ base[w][p] = None =>
                         \/ store'[p].age <= elapsed'[w]
                         \/ ~pass[w].full /\ store'[p].age > Window + elapsed'[w]
        BY <1>2, <3>2, <3>3, <3>4 DEF Recent
      <3> QED BY <1>1, <2>2, <3>4 DEF Recent
    <2> QED BY <2>1, <2>2
  <1> QED BY <1>4, <1>5
\* A step that touches neither the store nor the pass w.
LEMMA OtherRecent ==
  ASSUME NEW w, Recent(w), store' = store, elapsed'[w] = elapsed[w], pass'[w] = pass[w],
         own'[w] = own[w], base'[w] = base[w]
  PROVE  Recent(w)'
  BY DEF Recent

LEMMA BeginRecent ==
  ASSUME SlipInv, NEW w \in Passers, NEW full, NEW cap, Begin(w, full, cap)
  PROVE  NothingSlips' /\ \A v \in Passers : Recent(v)'
  <1> USE DEF SlipInv, MirrorInv, MirrorTypeInv, TypeOK
  <1>1. /\ store' = store /\ mirror' = mirror /\ own' = own /\ elapsed' = elapsed
        /\ since' = since /\ pass[w].step = "off"
    BY DEF Begin
  <1>2. NothingSlips'
    BY <1>1 DEF NothingSlips
  <1>3. ASSUME NEW v \in Passers, v # w PROVE Recent(v)'
    <2>1. pass'[v] = pass[v] /\ base'[v] = base[v]
      BY <1>3 DEF Begin
    <2> QED BY <1>1, <2>1, OtherRecent
  <1>4. Recent(w)'
    <2>1. pass'[w].step = "fetch" /\ pass'[w].full = full /\ pass'[w].docs = {}
      BY DEF Begin, Off
    <2>2. own[w] = Unwritten /\ elapsed[w] = 0
      BY <1>1 DEF WalkInv, Kept, Recent
    <2>3. ASSUME NEW p \in Products, store[p] # None, base'[w][p] = None
          PROVE  ~full /\ store[p].age > Window
      <3>1. store[p] \in [ver : Versions, age : Ages]
        BY <2>3
      <3>2. store[p].ver # None /\ store[p].age \in Nat
        BY <3>1, MirrorAssumption DEF Versions, Ages
      <3>3. base'[w][p] = IF store[p] # None /\ (full \/ store[p].age <= Window)
                          THEN store[p].ver ELSE None
        BY DEF Begin
      <3> QED BY <2>3, <3>2, <3>3, MirrorAssumption
    <2>4. Window + elapsed[w] = Window
      BY <2>2, MirrorAssumption
    <2> QED BY <1>1, <2>1, <2>2, <2>3, <2>4 DEF Recent, Unwritten
  <1> QED BY <1>2, <1>3, <1>4

LEMMA FetchRecent ==
  ASSUME SlipInv, NEW w \in Passers, FetchPage(w)
  PROVE  NothingSlips' /\ \A v \in Passers : Recent(v)'
  <1> USE DEF SlipInv, MirrorInv
  <1>1. /\ store' = store /\ mirror' = mirror /\ own' = own /\ elapsed' = elapsed
        /\ since' = since /\ base' = base /\ pass[w].step = "fetch"
    BY FetchIs
  <1>2. NothingSlips'
    BY <1>1 DEF NothingSlips
  <1>3. pass[w] \in Pass /\ pass \in [Passers -> Pass]
    BY DEF MirrorTypeInv, TypeOK
  <1>4. /\ [pass[w] EXCEPT !.step = "commit"].step = "commit"
        /\ [pass[w] EXCEPT !.step = "commit"].full = pass[w].full
        /\ [pass[w] EXCEPT !.step = "commit"].docs = pass[w].docs
    BY <1>3 DEF Pass
  <1>5. PICK c : /\ pass' = [pass EXCEPT ![w] = c]
                 /\ c.step # "off" /\ c.full = pass[w].full
                 /\ \/ c.docs = pass[w].docs
                    \/ \E n : c.docs = {[prod |-> p, ver |-> store[p].ver] : p \in PageOf(w, n)}
    <2> DEFINE es(n) == {[prod |-> p, ver |-> store[p].ver] : p \in PageOf(w, n)}
    <2>1. \/ pass' = [pass EXCEPT ![w] = [pass[w] EXCEPT !.step = "commit"]]
          \/ \E c \in Pass : /\ pass' = [pass EXCEPT ![w] = c]
                            /\ c.step = "apply" /\ c.full = pass[w].full
                            /\ c.docs = es(pass[w].page)
      BY FetchIs
    <2> HIDE DEF es
    <2>2. CASE pass' = [pass EXCEPT ![w] = [pass[w] EXCEPT !.step = "commit"]]
      BY <1>4, <2>2
    <2>3. CASE \E c \in Pass : /\ pass' = [pass EXCEPT ![w] = c]
                              /\ c.step = "apply" /\ c.full = pass[w].full
                              /\ c.docs = es(pass[w].page)
      <3>1. PICK c \in Pass : /\ pass' = [pass EXCEPT ![w] = c]
                             /\ c.step = "apply" /\ c.full = pass[w].full
                             /\ c.docs = es(pass[w].page)
        BY <2>3
      <3>2. c.step # "off"
        BY <3>1
      <3>3. \E n : c.docs = es(n)
        BY <3>1
      <3> QED BY <3>1, <3>2, <3>3 DEF es
    <2> QED BY <2>1, <2>2, <2>3
  <1>6. ASSUME NEW e \in c.docs
        PROVE  e \in pass[w].docs \/ e.ver = store[e.prod].ver
    <2>1. CASE c.docs = pass[w].docs
      BY <1>6, <2>1
    <2>2. CASE \E n : c.docs = {[prod |-> p, ver |-> store[p].ver] : p \in PageOf(w, n)}
      <3>1. PICK n : c.docs = {[prod |-> p, ver |-> store[p].ver] : p \in PageOf(w, n)}
        BY <2>2
      <3>2. PICK p \in PageOf(w, n) : e = [prod |-> p, ver |-> store[p].ver]
        BY <1>6, <3>1
      <3> QED BY <3>2
    <2> QED BY <1>5, <2>1, <2>2
  <1>7. pass'[w] = c /\ \A v \in Passers : v # w => pass'[v] = pass[v]
    BY <1>3, <1>5
  <1>8. ASSUME NEW v \in Passers, v # w PROVE Recent(v)'
    BY <1>1, <1>7, <1>8, OtherRecent
  <1>9. Recent(w)'
    <2>1. Recent(w)
      OBVIOUS
    <2> QED BY <1>1, <1>5, <1>6, <1>7, <2>1 DEF Recent
  <1> QED BY <1>2, <1>8, <1>9

LEMMA ApplyRecent ==
  ASSUME SlipInv, NEW w \in Passers, ApplyPage(w)
  PROVE  NothingSlips' /\ \A v \in Passers : Recent(v)'
  <1> USE DEF SlipInv, MirrorInv
  <1> DEFINE next == IF pass[w].last THEN "commit" ELSE "fetch"
             c == [pass[w] EXCEPT !.step = next, !.docs = {}]
             new == [p \in Products |-> IF \E e \in Parsed(w) : e.prod = p
                                        THEN Brought(w, p) ELSE own[w][p]]
  <1>1. /\ pass[w].step = "apply"
        /\ store' = store /\ mirror' = mirror /\ elapsed' = elapsed /\ since' = since
        /\ base' = base
        /\ pass' = [pass EXCEPT ![w] = c] /\ own' = [own EXCEPT ![w] = new]
    BY DEF ApplyPage, Brought, ghostVars
  <1>2. NothingSlips'
    BY <1>1 DEF NothingSlips
  <1>3. /\ pass[w] \in Pass /\ pass \in [Passers -> Pass]
        /\ own \in [Passers -> [Products -> Versions \cup {None}]]
    BY DEF MirrorTypeInv, TypeOK
  <1>4. c.step # "off" /\ c.full = pass[w].full /\ c.docs = {}
    BY <1>3 DEF Pass
  <1>5. \A p \in Products : \/ new[p] = own[w][p]
                           \/ \E e \in pass[w].docs : e.prod = p /\ new[p] = e.ver
    <2>1. ASSUME NEW p \in Products, \E e \in Parsed(w) : e.prod = p
          PROVE  \E e \in pass[w].docs : e.prod = p /\ Brought(w, p) = e.ver
      BY <2>1 DEF Brought, Parsed
    <2> QED BY <2>1
  <1> HIDE DEF c, new
  <1>6. /\ pass'[w] = c /\ own'[w] = new
        /\ \A v \in Passers : v # w => pass'[v] = pass[v] /\ own'[v] = own[v]
    BY <1>1, <1>3
  <1>7. ASSUME NEW v \in Passers, v # w PROVE Recent(v)'
    BY <1>1, <1>6, <1>7, OtherRecent
  <1>8. Recent(w)'
    <2>1. Recent(w)
      OBVIOUS
    <2>2. ASSUME NEW p \in Products, store[p] # None
          PROVE  new[p] \in {None, store[p].ver} \/ store[p].age <= elapsed[w]
      BY <1>5, <2>1, <2>2 DEF Recent
    <2> QED BY <1>1, <1>4, <1>6, <2>1, <2>2 DEF Recent
  <1> QED BY <1>2, <1>7, <1>8

LEMMA CloseRecent ==
  ASSUME SlipInv, NEW ws, Close(ws), store' = store, NEW v \in Passers
  PROVE  Recent(v)'
  <1>1. CASE v \in ws
    <2>1. pass'[v].step = "off" /\ pass'[v].docs = {} /\ own'[v] = Unwritten /\ elapsed'[v] = 0
      BY <1>1 DEF Close, Off
    <2> QED BY <2>1 DEF Recent, Unwritten
  <1>2. CASE v \notin ws
    <2>1. pass'[v] = pass[v] /\ own'[v] = own[v] /\ elapsed'[v] = elapsed[v] /\ base'[v] = base[v]
      BY <1>2 DEF Close
    <2> QED BY <2>1, OtherRecent DEF SlipInv
  <1> QED BY <1>1, <1>2

\* What is behind after a commit changed since this pass began, or, where the
\* pass was not whole, since the last whole one did.
LEMMA CommitSlipsNothing ==
  ASSUME SlipInv, NEW w \in Passers, CommitPass(w)
  PROVE  NothingSlips'
  <1> USE DEF SlipInv, MirrorInv, MirrorTypeInv, TypeOK
  <1>1. /\ pass[w].step = "commit" /\ store' = store
        /\ mirror' = [p \in Products |-> IF own[w][p] # None THEN own[w][p] ELSE mirror[p]]
        /\ since' = IF Whole(w) \/ since < elapsed[w] THEN elapsed[w] ELSE since
    BY DEF CommitPass
  <1>2. since \in Nat /\ elapsed[w] \in Nat /\ since' \in Nat /\ elapsed[w] <= since'
    BY <1>1, MirrorAssumption DEF Ages
  <1> SUFFICES ASSUME NEW p \in Products \ Unnamed, store[p] # None, mirror'[p] # store[p].ver
               PROVE  store[p].age <= since'
    BY <1>1 DEF NothingSlips
  <1>3. store[p].age \in Nat
    <2>1. store[p] \in [ver : Versions, age : Ages]
      OBVIOUS
    <2> QED BY <2>1, MirrorAssumption DEF Ages
  <1>4. Recent(w)
    OBVIOUS
  <1>5. CASE own[w][p] # None
    <2>1. mirror'[p] = own[w][p]
      BY <1>1, <1>5
    <2>2. store[p].age <= elapsed[w]
      BY <1>4, <1>5, <2>1 DEF Recent
    <2> QED BY <1>2, <1>3, <2>2
  <1>6. CASE own[w][p] = None
    <2>1. mirror[p] # store[p].ver
      BY <1>1, <1>6
    <2>2. store[p].age <= since
      BY <2>1 DEF NothingSlips
    <2>3. CASE ~Whole(w)
      BY <1>1, <1>2, <1>3, <2>2, <2>3
    <2>4. CASE Whole(w)
      <3>1. Walked(w) /\ pass[w].cap = 0
        BY <1>1, <2>4 DEF WalkInv, Kept, Unshrunk, Whole
      <3>2. base[w][p] = None
        BY <1>1, <1>6, <3>1 DEF Walked, InHand, Ahead
      <3>3. \/ store[p].age <= elapsed[w]
            \/ ~pass[w].full /\ store[p].age > Window + elapsed[w]
        BY <1>1, <1>4, <3>2 DEF Recent
      <3>4. ~(~pass[w].full /\ store[p].age > Window + elapsed[w])
        BY <1>2, <1>3, <2>2, <2>4, MirrorAssumption DEF Whole
      <3> QED BY <1>2, <1>3, <3>3, <3>4
    <2> QED BY <2>3, <2>4
  <1> QED BY <1>5, <1>6

LEMMA SlipStep == SlipInv /\ [Next]_vars => SlipInv'
  <1> SUFFICES ASSUME SlipInv, [Next]_vars PROVE NothingSlips' /\ \A v \in Passers : Recent(v)'
    BY WalkStep DEF SlipInv
  <1>1. CASE UNCHANGED vars
    BY <1>1, OtherRecent DEF vars, ghostVars, boundVars, SlipInv, NothingSlips
  <1>2. ASSUME NEW p \in Products, Touch(p) \/ Withdraw(p)
        PROVE  NothingSlips' /\ \A v \in Passers : Recent(v)'
    BY <1>2, TouchRecent
  <1>3. CASE Tick
    BY <1>3, TickRecent
  <1>4. CASE StartRoutine \/ StartCrawl
    BY <1>4, BeginRecent DEF StartRoutine, StartCrawl, Passers
  <1>5. ASSUME NEW w \in Passers, FetchPage(w) \/ ApplyPage(w)
        PROVE  NothingSlips' /\ \A v \in Passers : Recent(v)'
    BY <1>5, FetchRecent, ApplyRecent
  <1>6. ASSUME NEW w \in Passers, CommitPass(w)
        PROVE  NothingSlips' /\ \A v \in Passers : Recent(v)'
    BY <1>6, CommitSlipsNothing, CloseRecent DEF CommitPass
  <1>7. ASSUME NEW w \in Passers, FailPass(w)
        PROVE  NothingSlips' /\ \A v \in Passers : Recent(v)'
    <2>1. store' = store /\ mirror' = mirror /\ since' = since /\ Close({w})
      BY <1>7 DEF FailPass
    <2> QED BY <2>1, CloseRecent DEF SlipInv, NothingSlips
  <1> QED BY <1>1, <1>2, <1>3, <1>4, <1>5, <1>6, <1>7 DEF Next, PassStep

\* A window is enough: what the mirror has behind changed since the last whole
\* pass began, however passes fail, overlap, or lose entries meanwhile.  A
\* routine pass that begins within 26 hours of it therefore asks for all of it.
THEOREM NothingIsMissed == Spec => []NothingSlips
  <1>1. Init => SlipInv
    BY MirrorStarts, WalkStarts, SlipStarts DEF SlipInv, MirrorInv
  <1>2. SlipInv => NothingSlips
    BY DEF SlipInv
  <1> QED BY <1>1, <1>2, SlipStep, PTL DEF Spec
=============================================================================
