------------------------------ MODULE Matching ------------------------------
(***************************************************************************)
(* The matcher (app/services/matching.py): MatchingEngine.run of the       *)
(* worker and the operator's approve and reject, on the product_mappings   *)
(* table with its two unique keys.                                         *)
(*                                                                         *)
(* A run is one transaction.  It reads committed rows as it goes, sees its *)
(* own writes, and holds the lock of every row it wrote until it ends.  An *)
(* operator's request is one transaction too: it reads the row, and writes *)
(* when no lock is in its way.  Both write only the columns whose value    *)
(* differs from the one they loaded, as the ORM does.                      *)
(***************************************************************************)
EXTENDS Integers, FiniteSets

CONSTANTS
    Skus,        \* supplier products, all active
    Goods,       \* store products
    Scores,      \* similarity values in percent, 0 for a pair that a hard
                 \* gate or the shortlist rules out
    ReviewScore, \* match_review_score
    AutoScore,   \* match_auto_accept_score
    TieMargin,   \* the near-tie margin
    MaxReviews,  \* bound: operator requests
    MaxRescores, \* bound: title changes brought by catalogue pulls
    MaxAborts,   \* bound: runs that die for a reason of their own
    None         \* NULL: no row, no product, nothing in hand

ASSUME ScoreAssumption ==
    /\ Scores \subseteq Nat
    /\ AutoScore \in Nat /\ ReviewScore \in 1..AutoScore /\ TieMargin \in Nat
    /\ MaxReviews \in Nat /\ MaxRescores \in Nat /\ MaxAborts \in Nat
    /\ None \notin Goods \cup Skus

VARIABLES
    score,    \* sku -> store product -> similarity of their titles
    maps,     \* sku -> committed product_mappings row, or None
    own,      \* sku -> row as the open run wrote it, None where it did not
    running,  \* a run is under way
    todo,     \* supplier products the run has still to match
    claimed,  \* the engine's cache of claimed store products, None if unread
    hand,     \* the product between apply's read and its write, or None
    request,  \* the operator's request between read and write, or None
    decided,  \* sku -> the row the last human decision left (properties only)
    raced,    \* skus whose decision fell between apply's read and its write
              \* (properties only)
    reviews, rescores, aborts

vars == <<score, maps, own, running, todo, claimed, hand, request, decided,
          raced, reviews, rescores, aborts>>

Statuses == {"unmatched", "pending", "auto", "approved", "rejected"}
Human == {"approved", "rejected"}
Claiming == {"auto", "approved", "pending"}

Row == [status : Statuses, prod : Goods \cup {None}]

\* NULL is neither a row nor a set of products.
ASSUME NoneAssumption == None \notin Row /\ \A held \in SUBSET Goods : held # None

\* What score_pair can make of the two catalogues.
Similarity == [Skus -> [Goods -> Scores]]

Hand == [sku : Skus, loaded : Row \cup {None}, new : Row]

TypeOK ==
    /\ score \in Similarity
    /\ maps \in [Skus -> Row \cup {None}]
    /\ own \in [Skus -> Row \cup {None}]
    /\ running \in BOOLEAN
    /\ todo \subseteq Skus
    /\ claimed = None \/ claimed \subseteq Goods
    /\ hand \in Hand \cup {None}
    /\ request \in Hand \cup {None}
    /\ decided \in [Skus -> Row \cup {None}]
    /\ raced \subseteq Skus
    /\ reviews \in 0..MaxReviews
    /\ rescores \in 0..MaxRescores
    /\ aborts \in 0..MaxAborts
-----------------------------------------------------------------------------
\* The table as the open run sees it: its own rows, else the committed ones.
View == [s \in Skus |-> IF own[s] # None THEN own[s] ELSE maps[s]]

\* uq_mapping_store_product would refuse product g on the row of s.
Taken(table, s, g) ==
    g # None /\ \E t \in Skus \ {s} : table[t] # None /\ table[t].prod = g

\* An UPDATE: the columns that differ from the loaded row go to the stored one.
Written(stored, loaded, new) ==
    IF loaded = None THEN new
    ELSE [status |-> IF new.status # loaded.status THEN new.status ELSE stored.status,
          prod   |-> IF new.prod # loaded.prod THEN new.prod ELSE stored.prod]

\* _claimed_store_products.
Claims(table) ==
    {g \in Goods : \E s \in Skus : /\ table[s] # None
                                   /\ table[s].prod = g
                                   /\ table[s].status \in Claiming}

\* find_candidates: free products, or the one the row already points at.
Candidates(s, row, held) ==
    {g \in Goods : /\ score[s][g] > 0
                   /\ ~(row # None /\ row.status = "rejected" /\ row.prod = g)
                   /\ g \notin held \/ (row # None /\ row.prod = g)}

\* Mutant: two equally good products are no reason to ask.
StatusIgnoringTies(s, best, cands) ==
    IF score[s][best] < ReviewScore THEN "unmatched"
    ELSE IF score[s][best] < AutoScore THEN "pending" ELSE "auto"

\* evaluate: the status the best candidate earns.
StatusOf(s, best, cands) ==
    LET tie == \E g \in cands \ {best} : score[s][g] >= score[s][best] - TieMargin
    IN IF score[s][best] < ReviewScore THEN "unmatched"
       ELSE IF score[s][best] < AutoScore \/ tie THEN "pending" ELSE "auto"

\* The rows evaluate may come up with; equal scores leave the order open.
Outcomes(s, row, held) ==
    LET cands == Candidates(s, row, held)
        top == {g \in cands : \A h \in cands : score[s][h] <= score[s][g]}
    IN IF cands = {} THEN {[status |-> "unmatched", prod |-> None]}
       ELSE {[status |-> StatusOf(s, g, cands), prod |-> g] : g \in top}
-----------------------------------------------------------------------------
\* run selects its products: those not settled, or all of them with --all.
StartRun ==
    /\ ~running
    /\ running' = TRUE
    /\ \E onlyUnmapped \in BOOLEAN :
          todo' = {s \in Skus : \/ ~onlyUnmapped
                                \/ maps[s] = None
                                \/ maps[s].status \in {"unmatched", "pending"}}
    /\ UNCHANGED <<score, maps, own, claimed, hand, request, decided, raced, reviews,
                   rescores, aborts>>

\* evaluate scores the candidates, then apply reads the row it will decide on.
\* The two reads are one step: a human decision is the only foreign write that
\* can fall between them, and apply's read then finds it and writes nothing.
Evaluate(s) ==
    /\ running /\ hand = None
    /\ s \in todo
    /\ LET held == IF claimed = None THEN Claims(View) ELSE claimed
           row == View[s]
       IN /\ claimed' = held
          /\ \E new \in Outcomes(s, row, held) :
                hand' = [sku |-> s, loaded |-> row, new |-> new]
    /\ UNCHANGED <<score, maps, own, running, todo, request, decided, raced, reviews,
                   rescores, aborts>>

\* session_scope rolls the run back.
RollBack ==
    /\ running' = FALSE
    /\ own' = [s \in Skus |-> None]
    /\ todo' = {}
    /\ claimed' = None
    /\ hand' = None

\* Mutant: a rejected row is matched again.
KeepsApprovedOnly(row) == row # None /\ row.status = "approved"

\* apply leaves a row alone that a human decided on.
KeepsDecision(row) == row # None /\ row.status \in Human

\* Mutant: a product given away in this run stays in the cache as free.
ClaimNothing(new) == claimed

\* apply: the new claim is added to the cache.
ClaimNew(new) == IF new.status \in {"auto", "pending"} THEN claimed \cup {new.prod}
                 ELSE claimed

\* Mutant: the table has no unique key on the store product.
AllowsAny(s, row) == TRUE

\* The unique key accepts the row.
Allows(s, row) == ~Taken(View, s, row.prod)

\* apply after its read: flush the outcome, or nothing over a human decision
\* that the read found.  A clash with the unique key raises and takes the whole
\* run down.
Apply ==
    /\ hand # None
    /\ LET s == hand.sku
           row == Written(View[s], hand.loaded, hand.new)
       IN \/ /\ KeepsDecision(hand.loaded)
             /\ todo' = todo \ {s}
             /\ hand' = None
             /\ UNCHANGED <<own, running, claimed>>
          \/ /\ ~KeepsDecision(hand.loaded)
             /\ Allows(s, row)
             /\ own' = [own EXCEPT ![s] = row]
             /\ claimed' = ClaimNew(hand.new)
             /\ todo' = todo \ {s}
             /\ hand' = None
             /\ UNCHANGED running
          \/ /\ ~KeepsDecision(hand.loaded)
             /\ ~Allows(s, row)
             /\ RollBack
    /\ UNCHANGED <<score, maps, request, decided, raced, reviews, rescores, aborts>>

\* session_scope commits the run.
Commit ==
    /\ running /\ hand = None /\ todo = {}
    /\ maps' = View
    /\ RollBack
    /\ UNCHANGED <<score, request, decided, raced, reviews, rescores, aborts>>

\* The process dies or loses its connection during a run.
Abort ==
    /\ running
    /\ aborts < MaxAborts
    /\ aborts' = aborts + 1
    /\ RollBack
    /\ UNCHANGED <<score, maps, request, decided, raced, reviews, rescores>>
-----------------------------------------------------------------------------
\* approve and reject, first half: load the row and check the request.
Review(s, new) ==
    /\ request = None
    /\ reviews < MaxReviews
    /\ maps[s] # None
    /\ reviews' = reviews + 1
    /\ request' = [sku |-> s, loaded |-> maps[s], new |-> new]
    /\ UNCHANGED <<score, maps, own, running, todo, claimed, hand, decided, raced,
                   rescores, aborts>>

\* approve: the pair shown, or another product no settled row points at.
Approve(s) ==
    /\ maps[s] # None
    /\ \E g \in Goods :
          /\ \/ g = maps[s].prod
             \/ ~\E t \in Skus \ {s} : /\ maps[t] # None
                                       /\ maps[t].prod = g
                                       /\ maps[t].status \in {"auto", "approved"}
          /\ Review(s, [status |-> "approved", prod |-> g])

\* reject: the row keeps the product it was about.
Reject(s) ==
    /\ maps[s] # None
    /\ Review(s, [status |-> "rejected", prod |-> maps[s].prod])

\* The request's flush waits for the run's locks, on its own row and on the
\* key value it takes; then it writes and commits, or clashes and is refused.
WriteReview ==
    /\ request # None
    /\ LET s == request.sku
           row == Written(maps[s], request.loaded, request.new)
       IN /\ own[s] = None
          /\ ~Taken(own, s, row.prod)
          /\ IF Taken(maps, s, row.prod)
             THEN UNCHANGED <<maps, decided, raced>>
             ELSE /\ maps' = [maps EXCEPT ![s] = row]
                  /\ decided' = [decided EXCEPT ![s] = row]
                  /\ raced' = IF hand # None /\ hand.sku = s THEN raced \cup {s}
                              ELSE raced
    /\ request' = None
    /\ UNCHANGED <<score, own, running, todo, claimed, hand, reviews, rescores,
                   aborts>>

\* A catalogue pull between two runs brings a new title.
Rescore(s, g) ==
    /\ ~running
    /\ rescores < MaxRescores
    /\ rescores' = rescores + 1
    /\ \E n \in Scores \ {score[s][g]} : score' = [score EXCEPT ![s][g] = n]
    /\ UNCHANGED <<maps, own, running, todo, claimed, hand, request, decided, raced,
                   reviews, aborts>>
-----------------------------------------------------------------------------
Init ==
    /\ score \in Similarity
    /\ maps = [s \in Skus |-> None]
    /\ own = [s \in Skus |-> None]
    /\ running = FALSE
    /\ todo = {}
    /\ claimed = None
    /\ hand = None
    /\ request = None
    /\ decided = [s \in Skus |-> None] /\ raced = {}
    /\ reviews = 0 /\ rescores = 0 /\ aborts = 0

Next ==
    \/ StartRun \/ Apply \/ Commit \/ Abort \/ WriteReview
    \/ \E s \in Skus : Evaluate(s) \/ Approve(s) \/ Reject(s)
    \/ \E s \in Skus, g \in Goods : Rescore(s, g)

Spec == Init /\ [][Next]_vars
-----------------------------------------------------------------------------
\* product_mappings is 1:1: no two rows claim one store product, neither in
\* the table nor in what an open run is about to commit, whatever the
\* operator does meanwhile.
OneOwner ==
    \A s, t \in Skus, g \in Goods :
       /\ ~(s # t /\ maps[s] # None /\ maps[t] # None
              /\ maps[s].prod = g /\ maps[t].prod = g)
       /\ ~(s # t /\ View[s] # None /\ View[t] # None
              /\ View[s].prod = g /\ View[t].prod = g)

\* A decision of the operator is overwritten at most when it was committed
\* between apply's read of that very row and its write.  Runs that hold other
\* rows, wait, clash or die leave it exactly as the request left it, as apply
\* says ("never overwrites a human decision").
UnracedDecisionStands ==
    \A s \in Skus \ raced : decided[s] # None => maps[s] = decided[s]

\* The cache of claimed products keeps up with the run: no product is proposed
\* that the run has already given to another supplier product.
SuggestedOnce ==
    hand # None /\ ~KeepsDecision(hand.loaded) =>
       \A t \in Skus \ (raced \cup {hand.sku}) :
          own[t] # None /\ own[t].status \in Claiming => own[t].prod # hand.new.prod

\* A mapping made without asking is near-certain: no product that was free in
\* this run comes within the margin of the one chosen.
AutoIsClear ==
    \A s \in Skus \ raced :
       own[s] # None /\ own[s].status = "auto" =>
          \A g \in Goods \ claimed :
             score[s][g] < score[s][own[s].prod] - TieMargin
=============================================================================
