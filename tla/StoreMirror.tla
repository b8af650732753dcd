---------------------------- MODULE StoreMirror -----------------------------
(***************************************************************************)
(* The mirror of the store's catalogue: StoreCatalogSync.run               *)
(* (app/services/catalog_sync.py) over iter_catalog (app/stores/g2a.py).   *)
(*                                                                         *)
(* The worker's job asks for what changed within a fixed window; the       *)
(* command `sync store-catalog` crawls everything, perhaps at the same     *)
(* time.  A pass is one transaction over many pages, and the store goes on *)
(* changing between two pages.                                             *)
(***************************************************************************)
EXTENDS Naturals, FiniteSets

CONSTANTS
    Size,        \* products the store may list
    Unnamed,     \* products whose entries lack an id or a name
    Newcomers,   \* products the store may not list yet
    PageSize,    \* PRODUCTS_PAGE_SIZE
    Window,      \* how far back a routine pass asks (26 hours), in ticks
    Gap,         \* the longest the worker rests between two passes
    MaxPass,     \* the longest a pass lasts
    Caps,        \* --max-pages values, 0 for none
    MaxChanges,  \* bound: changes the store makes
    MaxTroubles, \* bound: passes that fail, and crawls by hand
    None         \* no row, not in the catalogue, not written

\* A product is known by its place in the order of the store's listing.
Products == 1..Size

ASSUME MirrorAssumption ==
    /\ Size \in Nat
    /\ Unnamed \subseteq Products /\ Newcomers \subseteq Products
    /\ PageSize \in Nat \ {0}
    /\ Window \in Nat /\ Gap \in Nat \ {0} /\ MaxPass \in Nat
    /\ Caps \subseteq Nat
    /\ MaxChanges \in Nat /\ MaxTroubles \in Nat
    /\ None \notin Nat /\ None \notin [ver : Nat, age : Nat]

VARIABLES
    store,     \* product -> its version and the age of its last change
    mirror,    \* product -> version in its committed store_products row
    own,       \* passer -> product -> version its open session wrote
    pass,      \* passer -> where its pass stands
    elapsed,   \* passer -> ticks since its pass began
    rest,      \* ticks since the worker's last pass ended
    base,      \* passer -> versions that matched when its pass began
    shrunk,    \* passer -> a product left the listing since (properties only)
    since,     \* ticks since the last whole pass began, or an older pass that
               \* committed after it (properties only)
    changes, troubles

ghostVars == <<base, shrunk, since>>
boundVars == <<changes, troubles>>
vars == <<store, mirror, own, pass, elapsed, rest, base, shrunk, since,
          changes, troubles>>

Passers == {"worker", "cli"}
Versions == 0..MaxChanges
Ages == 0..(Window + MaxPass + 1)

Entry == [prod : Products, ver : Versions]

Pass == [step : {"off", "fetch", "apply", "commit"}, full : BOOLEAN,
         cap : Caps \cup {0}, page : Nat, seen : Nat,
         docs : SUBSET Entry, last : BOOLEAN]

Off == [step |-> "off", full |-> FALSE, cap |-> 0, page |-> 1, seen |-> 0,
        docs |-> {}, last |-> FALSE]

Unwritten == [p \in Products |-> None]

TypeOK ==
    /\ store \in [Products -> [ver : Versions, age : Ages] \cup {None}]
    /\ mirror \in [Products -> Versions \cup {None}]
    \* an entry without an id or a name has no row
    /\ \A p \in Unnamed : mirror[p] = None
    /\ own \in [Passers -> [Products -> Versions \cup {None}]]
    /\ pass \in [Passers -> Pass]
    /\ elapsed \in [Passers -> 0..MaxPass]
    /\ rest \in 0..Gap
    /\ base \in [Passers -> [Products -> Versions \cup {None}]]
    /\ shrunk \in [Passers -> BOOLEAN]
    /\ since \in Ages
    /\ changes \in 0..MaxChanges
    /\ troubles \in 0..MaxTroubles
-----------------------------------------------------------------------------
\* Mutant: the window is measured from the page, and is a tick short.
MatchesLate(w, p) ==
    /\ store[p] # None
    /\ pass[w].full \/ store[p].age < Window

\* The store's side: which products the query of a pass matches.
Matches(w, p) ==
    /\ store[p] # None
    /\ pass[w].full \/ store[p].age <= Window + elapsed[w]

Listing(w) == {p \in Products : Matches(w, p)}

\* How many entries of the listing come before p.
Before(w, p) == Cardinality({q \in Listing(w) : q < p})

\* The entries on page n, counted from 1.
PageOf(w, n) ==
    {p \in Listing(w) : Before(w, p) >= (n - 1) * PageSize /\ Before(w, p) < n * PageSize}

Trouble == troubles < MaxTroubles /\ troubles' = troubles + 1

Other(w) == CHOOSE o \in Passers : o # w
-----------------------------------------------------------------------------
(* The store and the clock. *)

\* A product is added to the store's catalogue, or an entry of it changes.
Touch(p) ==
    /\ changes < MaxChanges
    /\ changes' = changes + 1
    /\ store' = [store EXCEPT ![p] =
                    [ver |-> changes', age |-> 0]]
    /\ UNCHANGED <<mirror, own, pass, elapsed, rest, ghostVars, troubles>>

\* A product leaves the store's catalogue; what follows it moves up a place.
Withdraw(p) ==
    /\ changes < MaxChanges
    /\ changes' = changes + 1
    /\ store[p] # None
    /\ store' = [store EXCEPT ![p] = None]
    /\ shrunk' = [w \in Passers |-> shrunk[w] \/ (pass[w].step # "off" /\ Matches(w, p))]
    /\ UNCHANGED <<mirror, own, pass, elapsed, rest, base, since, troubles>>

\* Ages are counted until no window reaches them.
Older(age) == IF age > Window + MaxPass THEN age ELSE age + 1

\* Time passes: the worker rests at most Gap, a pass lasts at most MaxPass.
Tick ==
    /\ pass["worker"].step = "off" => rest < Gap
    /\ \A w \in Passers : pass[w].step # "off" => elapsed[w] < MaxPass
    /\ elapsed' = [w \in Passers |-> IF pass[w].step = "off" THEN 0 ELSE elapsed[w] + 1]
    /\ rest' = IF pass["worker"].step = "off" THEN rest + 1 ELSE 0
    /\ store' = [p \in Products |->
                   IF store[p] = None THEN None
                   ELSE [store[p] EXCEPT !.age = Older(@)]]
    /\ since' = Older(since)
    /\ UNCHANGED <<mirror, own, pass, base, shrunk, boundVars>>
-----------------------------------------------------------------------------
(* A pass. *)

Begin(w, full, cap) ==
    /\ pass[w].step = "off"
    /\ pass' = [pass EXCEPT ![w] = [Off EXCEPT !.step = "fetch", !.full = full,
                                               !.cap = cap]]
    /\ base' = [base EXCEPT ![w] =
                  [p \in Products |->
                     IF store[p] # None /\ (full \/ store[p].age <= Window)
                     THEN store[p].ver ELSE None]]
    /\ UNCHANGED <<store, mirror, own, elapsed, rest, shrunk, since, changes>>

\* _sync_store_catalogue of the worker: only what changed lately.
StartRoutine ==
    /\ rest > 0
    /\ Begin("worker", FALSE, 0)
    /\ UNCHANGED troubles

\* `sync store-catalog`: everything, the first pages of it, or with
\* --since-hours what changed lately.
StartCrawl ==
    /\ Trouble
    /\ \/ \E cap \in Caps : Begin("cli", TRUE, cap)
       \/ Begin("cli", FALSE, 0)

\* Mutant: the walk stops one product early.
IsLastEarly(w, docs, seen, total) ==
    \/ seen + 1 >= total
    \/ Cardinality(docs) < PageSize
    \/ pass[w].cap # 0 /\ pass[w].page + 1 > pass[w].cap

\* iter_catalog: is this page the last one asked for?  The store may leave the
\* total out.
IsLast(w, docs, seen, total) ==
    \/ seen >= total
    \/ Cardinality(docs) < PageSize
    \/ pass[w].cap # 0 /\ pass[w].page + 1 > pass[w].cap

\* iter_catalog asks for the next page.
FetchPage(w) ==
    /\ pass[w].step = "fetch"
    /\ LET docs == PageOf(w, pass[w].page)
           seen == pass[w].seen + Cardinality(docs)
       IN \/ /\ docs = {}
             /\ pass' = [pass EXCEPT ![w].step = "commit"]
          \/ /\ docs # {}
             /\ \E total \in {Cardinality(Listing(w)), seen + 1} :
                   pass' = [pass EXCEPT ![w] =
                      [pass[w] EXCEPT !.step = "apply", !.seen = seen, !.page = @ + 1,
                         !.docs = {[prod |-> p, ver |-> store[p].ver] : p \in docs},
                         !.last = IsLast(w, docs, seen, total)]]
    /\ UNCHANGED <<store, mirror, own, elapsed, rest, ghostVars, boundVars>>

\* Mutant: an entry whose row exists is not written again.
ParsedNew(w) == {e \in pass[w].docs : e.prod \notin Unnamed /\ mirror[e.prod] = None}

\* The entries of the page in hand that _parse_catalog_item accepts.
Parsed(w) == {e \in pass[w].docs : e.prod \notin Unnamed}

\* Another session holds the row this pass is about to write.
Locked(w) == \E e \in Parsed(w) : own[Other(w)][e.prod] # None

\* StoreCatalogSync.run: select each row, insert or update it.  The update
\* waits for the lock of another session.
ApplyPage(w) ==
    /\ pass[w].step = "apply"
    /\ ~Locked(w)
    /\ own' = [own EXCEPT ![w] =
                 [p \in Products |->
                    IF \E e \in Parsed(w) : e.prod = p
                    THEN (CHOOSE e \in Parsed(w) : e.prod = p).ver ELSE @[p]]]
    /\ pass' = [pass EXCEPT ![w].step = IF pass[w].last THEN "commit" ELSE "fetch",
                            ![w].docs = {}]
    /\ UNCHANGED <<store, mirror, elapsed, rest, ghostVars, boundVars>>

\* The passes in ws are over and their sessions closed.
Close(ws) ==
    /\ pass' = [w \in Passers |-> IF w \in ws THEN Off ELSE pass[w]]
    /\ own' = [w \in Passers |-> IF w \in ws THEN Unwritten ELSE own[w]]
    /\ elapsed' = [w \in Passers |-> IF w \in ws THEN 0 ELSE elapsed[w]]
    /\ base' = [w \in Passers |-> IF w \in ws THEN Unwritten ELSE base[w]]
    /\ shrunk' = [w \in Passers |-> w \notin ws /\ shrunk[w]]
    /\ rest' = IF "worker" \in ws THEN 0 ELSE rest

\* The other pass has found no row for a product that this one inserted: its
\* own insert waits, and clashes when this pass commits.
Clashes(w) ==
    /\ pass[Other(w)].step = "apply"
    /\ \E e \in Parsed(Other(w)) : mirror[e.prod] = None /\ own[w][e.prod] # None

\* A pass that was whole: nothing cut it short or left its listing, and its
\* query reached back to the start of the last whole pass.
Whole(w) ==
    /\ ~shrunk[w] /\ pass[w].cap = 0
    /\ pass[w].full \/ since <= Window + elapsed[w]

\* The pass ends: session_scope commits it whole.
CommitPass(w) ==
    /\ pass[w].step = "commit"
    /\ since' = IF Whole(w) \/ since < elapsed[w] THEN elapsed[w] ELSE since
    /\ mirror' = [p \in Products |-> IF own[w][p] # None THEN own[w][p] ELSE mirror[p]]
    /\ \/ Close({w})
       \/ Clashes(w) /\ Close(Passers)
    /\ UNCHANGED <<store, boundVars>>

\* A page fails after its retries, or the process dies: nothing is kept.
FailPass(w) ==
    /\ pass[w].step # "off"
    /\ Trouble
    /\ Close({w})
    /\ UNCHANGED <<store, mirror, since, changes>>
-----------------------------------------------------------------------------
\* The first crawl has been made; some products join the catalogue later.
Init ==
    /\ store \in [Products -> {None, [ver |-> 0, age |-> Window + MaxPass + 1]}]
    /\ \A p \in Products \ Newcomers : store[p] # None
    /\ mirror = [p \in Products |-> IF store[p] = None \/ p \in Unnamed THEN None ELSE 0]
    /\ own = [w \in Passers |-> Unwritten]
    /\ pass = [w \in Passers |-> Off]
    /\ elapsed = [w \in Passers |-> 0]
    /\ rest = 0
    /\ base = [w \in Passers |-> Unwritten]
    /\ shrunk = [w \in Passers |-> FALSE]
    /\ since = 0
    /\ changes = 0 /\ troubles = 0

PassStep(w) == FetchPage(w) \/ ApplyPage(w) \/ CommitPass(w)

Next ==
    \/ \E p \in Products : Touch(p) \/ Withdraw(p)
    \/ Tick
    \/ StartRoutine \/ StartCrawl
    \/ \E w \in Passers : PassStep(w) \/ FailPass(w)

Spec == Init /\ [][Next]_vars

\* The worker goes on, a command that was started goes on, and so does time.
FairSpec ==
    /\ Spec
    /\ WF_vars(StartRoutine)
    /\ \A w \in Passers : WF_vars(PassStep(w))
    /\ WF_vars(Tick)
-----------------------------------------------------------------------------
\* A pass that is not cut short and during which nothing left the listing has
\* mirrored, once committed, every named product its query matched when it
\* began: no stop condition of iter_catalog ends the walk early, whatever was
\* added or changed between two pages.
PassIsComplete ==
    [][\A w \in Passers :
          (CommitPass(w) /\ ~shrunk[w] /\ pass[w].cap = 0) =>
             \A p \in Products \ Unnamed :
                base[w][p] # None => mirror'[p] # None /\ mirror'[p] >= base[w][p]]_vars

\* Routine passes "only ask for what changed", within a window measured from
\* the moment they ask: whatever the mirror has behind changed since the last
\* whole pass began, or an older pass that committed after it.  So no change is
\* missed for good while a whole pass begins in every window, though others
\* fail, are cut short or lose an entry.
NothingSlips ==
    \A p \in Products \ Unnamed :
       store[p] # None /\ mirror[p] # store[p].ver => store[p].age <= since

\* "After that the worker only asks for what changed": the mirror ends up with
\* the store's last entry of every named product, though a pass sees only what
\* changed within the window, passes fail, and a crawl by hand may write an
\* older page over a newer row.
MirrorCatchesUp ==
    \A p \in Products \ Unnamed :
       <>[](store[p] # None => mirror[p] = store[p].ver)
=============================================================================
