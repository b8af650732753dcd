---------------------------- MODULE CatalogSync -----------------------------
(***************************************************************************)
(* The supplier catalogue pull (app/services/catalog_sync.py) over the     *)
(* paged feed of app/suppliers/fazercards.py, and the sync_runs row that   *)
(* SyncRunRecorder keeps of it.                                            *)
(*                                                                         *)
(* A pull is one transaction that lasts as long as the feed: the supplier  *)
(* may list a key twice, leave one out, change it between two pages, or    *)
(* fail on any page.                                                       *)
(***************************************************************************)
EXTENDS Naturals, FiniteSets

CONSTANTS
    Keys,        \* (kind, category_ext_id, offer_ext_id)
    Contents,    \* the fields that go into content_hash
    Labels,      \* the fields that do not: category name, restriction, raw
    GraceRuns,   \* deactivate_missing_after_runs
    MaxPulls,    \* bound: pulls started
    Absent       \* no row, nothing listed

VARIABLES
    rows,      \* key -> supplier_products row, committed
    runs,      \* sync_runs states, committed, counted by state
    tx,        \* key -> row as the open pull sees it
    pulling,   \* a pull is under way
    seen,      \* keys listed in this pull
    pulls,     \* pulls started
    first,     \* key -> first content listed in this pull (properties only)
    last,      \* key -> content the last committed pull to list it gave first
    streak     \* key -> committed pulls in a row that did not list it

pullVars == <<rows, runs, tx, pulling, seen, pulls, first, last, streak>>

\* A supplier_products row; label stands for the columns outside the hash.
Row == [content : Contents, label : Labels, active : BOOLEAN,
        missing : 0..GraceRuns]

ASSUME PullAssumption ==
    /\ GraceRuns \in Nat \ {0}
    /\ MaxPulls \in Nat
    /\ Absent \notin Contents \cup Row

\* What the adapter's generators may yield: entries that have an id and a price.
Feed == [key : Keys, content : Contents, label : Labels]

PullTypeOK ==
    /\ rows \in [Keys -> Row \cup {Absent}]
    /\ runs \in [success : 0..MaxPulls, failed : 0..MaxPulls]
    /\ tx \in [Keys -> Row \cup {Absent}]
    /\ pulling \in BOOLEAN
    /\ seen \subseteq Keys
    /\ pulls \in 0..MaxPulls
    /\ first \in [Keys -> Contents \cup {Absent}]
    /\ last \in [Keys -> Contents \cup {Absent}]
    /\ streak \in [Keys -> 0..MaxPulls]
-----------------------------------------------------------------------------
\* SupplierCatalogSync.run reads the existing rows and opens its run record.
StartPull ==
    /\ ~pulling
    /\ pulls < MaxPulls
    /\ pulls' = pulls + 1
    /\ pulling' = TRUE
    /\ tx' = rows
    /\ seen' = {}
    /\ first' = [k \in Keys |-> Absent]
    /\ UNCHANGED <<rows, runs, last, streak>>

\* _apply is called for a new row and for one whose hash differs.
Changed(row, item) == row = Absent \/ row.content # item.content

\* A listed key: created or refreshed, its count reset, back on if it was off.
Upserted(row, item) ==
    [content |-> IF Changed(row, item) THEN item.content ELSE row.content,
     label |-> IF Changed(row, item) THEN item.label ELSE row.label,
     active |-> TRUE, missing |-> 0]

\* Mutant: a key listed twice is taken twice.
IsDuplicateNever(k) == FALSE

\* "The supplier listed the same SKU twice in one pull."
IsDuplicate(k) == k \in seen

\* The feed yields an item.
Item(item) ==
    /\ pulling
    /\ LET k == item.key
       IN /\ \/ /\ IsDuplicate(k)
                /\ UNCHANGED tx
             \/ /\ ~IsDuplicate(k)
                /\ tx' = [tx EXCEPT ![k] = Upserted(@, item)]
          /\ seen' = seen \cup {k}
          /\ first' = IF first[k] = Absent THEN [first EXCEPT ![k] = item.content]
                      ELSE first
    /\ UNCHANGED <<rows, runs, pulling, pulls, last, streak>>

\* Mutant: one pull too early.
MissedEarly(row) ==
    [row EXCEPT !.missing = @ + 1, !.active = IF row.missing + 2 >= GraceRuns THEN FALSE ELSE @]

\* A row the feed left out: counted, and off after GraceRuns in a row.
Missed(row) ==
    [row EXCEPT !.missing = @ + 1, !.active = IF row.missing + 1 >= GraceRuns THEN FALSE ELSE @]

\* The rows of the table that this pull did not list and that are still on.
Counts(k) == rows[k] # Absent /\ k \notin seen /\ tx[k].active

\* The feed ends: count the missing rows, close the record, commit.
FinishPull ==
    /\ pulling
    /\ pulling' = FALSE
    /\ rows' = [k \in Keys |-> IF Counts(k) THEN Missed(tx[k]) ELSE tx[k]]
    /\ tx' = rows'
    /\ runs' = [runs EXCEPT !.success = @ + 1]
    /\ last' = [k \in Keys |-> IF k \in seen THEN first[k] ELSE last[k]]
    /\ streak' = [k \in Keys |-> IF k \in seen THEN 0 ELSE streak[k] + 1]
    /\ UNCHANGED <<seen, pulls, first>>

\* A page fails after its retries: SyncRunRecorder marks the row failed and
\* flushes it, then session_scope rolls back what the session wrote.
FailPull ==
    /\ pulling
    /\ pulling' = FALSE
    /\ tx' = rows
    /\ UNCHANGED <<rows, runs, seen, pulls, first, last, streak>>
-----------------------------------------------------------------------------
PullInit ==
    /\ rows = [k \in Keys |-> Absent]
    /\ runs = [success |-> 0, failed |-> 0]
    /\ tx = rows
    /\ pulling = FALSE
    /\ seen = {}
    /\ pulls = 0
    /\ first = [k \in Keys |-> Absent]
    /\ last = [k \in Keys |-> Absent]
    /\ streak = [k \in Keys |-> 0]

PullNext ==
    \/ StartPull \/ FinishPull \/ FailPull
    \/ \E item \in Feed : Item(item)

PullSpec == PullInit /\ [][PullNext]_pullVars
-----------------------------------------------------------------------------
\* "A product missing from the feed is deactivated only after N consecutive
\* misses", and then it is: a row is off exactly when the last GraceRuns
\* committed pulls all left it out.  Failed pulls count for nothing.
OffAfterGrace ==
    \A k \in Keys :
       rows[k] # Absent => (rows[k].active <=> streak[k] < GraceRuns)

\* "Re-running a sync must converge on the same rows": a row holds the price,
\* stock and title that the last committed pull that listed it gave first, and
\* a key no pull listed has no row.
RowIsFirstListing ==
    \A k \in Keys :
       IF last[k] = Absent THEN rows[k] = Absent
       ELSE rows[k] # Absent /\ rows[k].content = last[k]
=============================================================================
