--------------------------- MODULE MatchingProofs ---------------------------
(***************************************************************************)
(* Proofs about the matcher, for any number of supplier and store products *)
(* and for an operator who acts at any time.                               *)
(***************************************************************************)
EXTENDS Matching, TLAPS

\* A suggestion in hand names a product and was made with the cache loaded.
HandOK ==
    hand # None =>
       /\ claimed # None
       /\ hand.new.status \in {"auto", "pending"} => hand.new.prod \in Goods

\* Rows are never deleted, so what was loaded as a row still is one.
RowsStay ==
    /\ hand # None /\ hand.loaded # None => View[hand.sku] # None
    /\ request # None => maps[request.sku] # None

TypeInv == TypeOK /\ HandOK /\ RowsStay

\* evaluate returns a row, and one with a product unless it is unmatched.
LEMMA OutcomesType ==
  ASSUME TypeOK, NEW s \in Skus, NEW row, NEW held,
         NEW new \in Outcomes(s, row, held)
  PROVE  /\ new \in Row
         /\ new.status \in {"auto", "pending"} => new.prod \in Goods
<1> DEFINE cands == Candidates(s, row, held)
<1>1. cands \subseteq Goods
  BY DEF Candidates
<1>2. CASE cands = {}
  BY <1>2 DEF Outcomes, Row, Statuses
<1>3. CASE cands # {}
  <2>1. PICK g \in cands : new = [status |-> StatusOf(s, g, cands), prod |-> g]
    BY <1>3 DEF Outcomes
  <2>2. StatusOf(s, g, cands) \in Statuses
    BY DEF StatusOf, Statuses
  <2> QED BY <1>1, <2>1, <2>2 DEF Row
<1> QED BY <1>2, <1>3

\* The run sees rows.
LEMMA ViewType ==
  ASSUME TypeOK
  PROVE  View \in [Skus -> Row \cup {None}]
BY DEF TypeOK, View

\* An UPDATE of a row leaves a row.
LEMMA WrittenType ==
  ASSUME NEW stored \in Row \cup {None}, NEW loaded \in Row \cup {None},
         NEW new \in Row, loaded # None => stored # None
  PROVE  Written(stored, loaded, new) \in Row
BY DEF Written, Row

-----------------------------------------------------------------------------
LEMMA TypeInit == Init => TypeInv
<1> SUFFICES ASSUME Init PROVE TypeInv
  OBVIOUS
<1>1. TypeOK
  <2>1. running \in BOOLEAN /\ todo \subseteq Skus
    BY DEF Init
  <2>2. /\ reviews \in 0..MaxReviews /\ rescores \in 0..MaxRescores
        /\ aborts \in 0..MaxAborts
    BY ScoreAssumption DEF Init
  <2>3. /\ maps \in [Skus -> Row \cup {None}] /\ own \in [Skus -> Row \cup {None}]
        /\ decided \in [Skus -> Row \cup {None}] /\ raced \subseteq Skus
    BY DEF Init
  <2> QED BY <2>1, <2>2, <2>3 DEF Init, TypeOK
<1>2. HandOK /\ RowsStay
  BY DEF Init, HandOK, RowsStay
<1> QED BY <1>1, <1>2 DEF TypeInv

\* Ending a run forgets everything the run had, and nothing else.
LEMMA RollBackType ==
  ASSUME TypeInv, RollBack, maps' \in [Skus -> Row \cup {None}],
         \A s \in Skus : maps[s] # None => maps'[s] # None,
         UNCHANGED <<score, request, decided, raced, reviews, rescores>>,
         aborts' \in 0..MaxAborts
  PROVE  TypeInv'
<1>1. TypeOK'
  BY DEF TypeInv, TypeOK, RollBack
<1>2. HandOK'
  BY DEF RollBack, HandOK
<1>3. RowsStay'
  <2>1. request' # None => request'.sku \in Skus
    BY DEF TypeInv, TypeOK, Hand
  <2> QED BY <2>1 DEF RollBack, RowsStay, TypeInv
<1> QED BY <1>1, <1>2, <1>3 DEF TypeInv

\* Every step keeps the types.
LEMMA TypeStep == TypeInv /\ [Next]_vars => TypeInv'
<1> SUFFICES ASSUME TypeInv, [Next]_vars PROVE TypeInv'
  OBVIOUS
<1> USE NoneAssumption
<1>0. ASSUME UNCHANGED vars PROVE TypeInv'
  BY <1>0 DEF vars, TypeInv, TypeOK, HandOK, RowsStay, View
<1>1. ASSUME StartRun PROVE TypeInv'
  BY <1>1 DEF StartRun, TypeInv, TypeOK, HandOK, RowsStay, View
<1>2. ASSUME NEW s \in Skus, Evaluate(s) PROVE TypeInv'
  <2> DEFINE held == IF claimed = None THEN Claims(View) ELSE claimed
  <2>1. held # None /\ held \subseteq Goods
    BY DEF Claims, TypeInv, TypeOK
  <2>2. PICK new \in Outcomes(s, View[s], held) :
           hand' = [sku |-> s, loaded |-> View[s], new |-> new]
    BY <1>2 DEF Evaluate
  <2>3. /\ new \in Row
        /\ new.status \in {"auto", "pending"} => new.prod \in Goods
    BY OutcomesType DEF TypeInv
  <2>4. View[s] \in Row \cup {None}
    BY ViewType DEF TypeInv
  <2>5. hand' \in Hand /\ claimed' = held
    BY <1>2, <2>2, <2>3, <2>4 DEF Hand, Evaluate
  <2>6. TypeOK'
    BY <1>2, <2>1, <2>5 DEF Evaluate, TypeInv, TypeOK
  <2>7. HandOK' /\ RowsStay'
    BY <1>2, <2>1, <2>2, <2>3, <2>5 DEF Evaluate, HandOK, RowsStay, TypeInv, View
  <2> QED BY <2>6, <2>7 DEF TypeInv
<1>3. ASSUME Apply PROVE TypeInv'
  <2> DEFINE s == hand.sku
             row == Written(View[s], hand.loaded, hand.new)
  <2>1. s \in Skus /\ hand.loaded \in Row \cup {None} /\ hand.new \in Row
    BY <1>3 DEF Apply, TypeInv, TypeOK, Hand
  <2>2. row \in Row
    BY <1>3, <2>1, ViewType, WrittenType DEF Apply, TypeInv, RowsStay
  <2>3. claimed \subseteq Goods /\ ClaimNew(hand.new) \subseteq Goods
    BY <1>3 DEF Apply, ClaimNew, TypeInv, TypeOK, HandOK
  <2>4. /\ UNCHANGED <<score, maps, request, decided, raced, reviews, rescores, aborts>>
        /\ \/ RollBack
           \/ /\ own' \in {own, [own EXCEPT ![s] = row]}
              /\ claimed' \in {claimed, ClaimNew(hand.new)}
              /\ todo' = todo \ {s} /\ hand' = None /\ UNCHANGED running
    BY <1>3 DEF Apply
  <2> HIDE DEF row
  <2>5. CASE RollBack
    BY <2>4, <2>5, RollBackType DEF TypeInv, TypeOK
  <2>6. CASE hand' = None /\ ~RollBack
    <3>1. TypeOK'
      BY <2>1, <2>2, <2>3, <2>4, <2>6 DEF TypeInv, TypeOK
    <3>2. HandOK' /\ RowsStay'
      BY <2>4, <2>6 DEF HandOK, RowsStay, TypeInv
    <3> QED BY <3>1, <3>2 DEF TypeInv
  <2> QED BY <2>4, <2>5, <2>6
<1>4. ASSUME Commit PROVE TypeInv'
  <2>1. \A s \in Skus : maps[s] # None => View[s] # None
    BY DEF View
  <2> QED BY <1>4, <2>1, ViewType, RollBackType DEF Commit, TypeInv, TypeOK
<1>5. ASSUME Abort PROVE TypeInv'
  <2>1. aborts' \in 0..MaxAborts
    BY <1>5, ScoreAssumption DEF Abort, TypeInv, TypeOK
  <2> QED BY <1>5, <2>1, RollBackType DEF Abort, TypeInv, TypeOK
<1>6. ASSUME NEW s \in Skus, NEW new \in Row, Review(s, new) PROVE TypeInv'
  <2>1. request' \in Hand /\ reviews' \in 0..MaxReviews
    BY <1>6, ScoreAssumption DEF Review, Hand, TypeInv, TypeOK
  <2> QED BY <1>6, <2>1 DEF Review, TypeInv, TypeOK, HandOK, RowsStay, View
<1>7. ASSUME NEW s \in Skus, Approve(s) PROVE TypeInv'
  <2>1. PICK g \in Goods : Review(s, [status |-> "approved", prod |-> g])
    BY <1>7 DEF Approve
  <2> QED BY <1>6, <2>1 DEF Row, Statuses
<1>8. ASSUME NEW s \in Skus, Reject(s) PROVE TypeInv'
  <2>1. [status |-> "rejected", prod |-> maps[s].prod] \in Row
    BY <1>8 DEF Reject, Row, Statuses, TypeInv, TypeOK
  <2> QED BY <1>6, <1>8, <2>1 DEF Reject
<1>9. ASSUME WriteReview PROVE TypeInv'
  <2> DEFINE s == request.sku
             row == Written(maps[s], request.loaded, request.new)
  <2>1. /\ s \in Skus /\ request.loaded \in Row \cup {None}
        /\ request.new \in Row /\ maps[s] \in Row \cup {None} /\ maps[s] # None
    BY <1>9 DEF WriteReview, TypeInv, TypeOK, Hand, RowsStay
  <2>2. row \in Row
    BY <2>1, WrittenType
  <2>3. /\ \/ UNCHANGED <<maps, decided, raced>>
           \/ /\ maps' = [maps EXCEPT ![s] = row]
              /\ decided' = [decided EXCEPT ![s] = row]
              /\ raced' \in {raced, raced \cup {s}}
        /\ request' = None
        /\ UNCHANGED <<score, own, running, todo, claimed, hand, reviews,
                       rescores, aborts>>
    BY <1>9 DEF WriteReview
  <2> HIDE DEF row
  <2>4. TypeOK'
    BY <2>1, <2>2, <2>3 DEF TypeInv, TypeOK
  <2>5. HandOK'
    BY <2>3 DEF TypeInv, HandOK
  <2>6. hand # None => hand.sku \in Skus
    BY DEF TypeInv, TypeOK, Hand
  <2>7. \A t \in Skus : View[t] # None => View'[t] # None
    BY <2>1, <2>2, <2>3 DEF View, TypeInv, TypeOK
  <2>8. RowsStay'
    BY <2>3, <2>6, <2>7 DEF RowsStay, TypeInv
  <2> QED BY <2>4, <2>5, <2>8 DEF TypeInv
<1>10. ASSUME NEW s \in Skus, NEW g \in Goods, Rescore(s, g) PROVE TypeInv'
  <2>1. score' \in Similarity
    BY <1>10 DEF Rescore, TypeInv, TypeOK, Similarity
  <2>2. rescores' \in 0..MaxRescores
    BY <1>10, ScoreAssumption DEF Rescore, TypeInv, TypeOK
  <2> QED
    BY <1>10, <2>1, <2>2 DEF Rescore, TypeInv, TypeOK, HandOK, RowsStay, View
<1> QED
  BY <1>0, <1>1, <1>2, <1>3, <1>4, <1>5, <1>7, <1>8, <1>9, <1>10 DEF Next

\* The matcher's variables keep their types.
THEOREM TypeCorrect == Spec => []TypeOK
<1>1. Spec => []TypeInv
  BY TypeInit, TypeStep, PTL DEF Spec
<1>2. TypeInv => TypeOK
  BY DEF TypeInv
<1> QED BY <1>1, <1>2, PTL
-----------------------------------------------------------------------------
\* A table in which every store product has one owner.
Unique(table) ==
    \A s, t \in Skus, g \in Goods :
       ~(s # t /\ table[s] # None /\ table[t] # None
           /\ table[s].prod = g /\ table[t].prod = g)

\* Giving one row a product that no other row has keeps the owners apart.
LEMMA UniqueUpdate ==
  ASSUME NEW table \in [Skus -> Row \cup {None}], Unique(table),
         NEW s \in Skus, NEW row \in Row, ~Taken(table, s, row.prod)
  PROVE  Unique([table EXCEPT ![s] = row])
BY ScoreAssumption DEF Unique, Taken

\* Every step leaves one owner in the table and in what the run will commit.
LEMMA OwnerStep == TypeInv /\ OneOwner /\ [Next]_vars => OneOwner'
<1> SUFFICES ASSUME TypeInv, OneOwner, [Next]_vars PROVE OneOwner'
  OBVIOUS
<1>0. Unique(maps) /\ Unique(View)
  BY DEF OneOwner, Unique
<1>1. SUFFICES Unique(maps') /\ Unique(View')
  BY DEF OneOwner, Unique
<1>2. ASSUME UNCHANGED <<maps, own>> PROVE Unique(maps') /\ Unique(View')
  BY <1>0, <1>2 DEF View
<1>3. ASSUME RollBack, maps' \in {maps, View} PROVE Unique(maps') /\ Unique(View')
  <2>1. View' = maps'
    BY <1>3, ViewType DEF RollBack, View, TypeInv, TypeOK
  <2> QED BY <1>0, <1>3, <2>1
<1>4. ASSUME Apply PROVE Unique(maps') /\ Unique(View')
  <2> DEFINE s == hand.sku
             row == Written(View[s], hand.loaded, hand.new)
  <2>1. s \in Skus /\ row \in Row
    BY <1>4, ViewType, WrittenType DEF Apply, TypeInv, TypeOK, Hand, RowsStay
  <2>2. UNCHANGED maps
    BY <1>4 DEF Apply
  <2>3. \/ UNCHANGED own
        \/ RollBack
        \/ own' = [own EXCEPT ![s] = row] /\ ~Taken(View, s, row.prod)
    BY <1>4 DEF Apply, Allows
  <2> HIDE DEF row
  <2>4. CASE own' = [own EXCEPT ![s] = row] /\ ~Taken(View, s, row.prod)
    <3>1. View' = [View EXCEPT ![s] = row]
      BY <2>1, <2>2, <2>4, NoneAssumption DEF View, TypeInv, TypeOK
    <3> QED BY <1>0, <2>1, <2>2, <2>4, <3>1, ViewType, UniqueUpdate DEF TypeInv
  <2> QED BY <1>2, <1>3, <2>2, <2>3, <2>4
<1>5. ASSUME WriteReview PROVE Unique(maps') /\ Unique(View')
  <2> DEFINE s == request.sku
             row == Written(maps[s], request.loaded, request.new)
  <2>1. s \in Skus /\ row \in Row
    BY <1>5, WrittenType DEF WriteReview, TypeInv, TypeOK, Hand, RowsStay
  <2>2. /\ UNCHANGED own /\ own[s] = None /\ ~Taken(own, s, row.prod)
        /\ \/ UNCHANGED maps
           \/ ~Taken(maps, s, row.prod) /\ maps' = [maps EXCEPT ![s] = row]
    BY <1>5 DEF WriteReview
  <2> HIDE DEF row
  <2>3. CASE ~Taken(maps, s, row.prod) /\ maps' = [maps EXCEPT ![s] = row]
    <3>1. View' = [View EXCEPT ![s] = row]
      BY <2>1, <2>2, <2>3 DEF View, TypeInv, TypeOK
    <3>2. ~Taken(View, s, row.prod)
      BY <2>2, <2>3 DEF Taken, View
    <3>3. maps \in [Skus -> Row \cup {None}] /\ View \in [Skus -> Row \cup {None}]
      BY ViewType DEF TypeInv, TypeOK
    <3> QED BY <1>0, <2>1, <2>3, <3>1, <3>2, <3>3, UniqueUpdate
  <2> QED BY <1>2, <2>2, <2>3
<1> QED
  BY <1>2, <1>3, <1>4, <1>5
     DEF Next, vars, StartRun, Evaluate, Commit, Abort, Approve, Reject, Review,
         Rescore

\* One store product is never claimed by two supplier products, neither in
\* product_mappings nor in the rows an open matching run holds, whatever the
\* operator approves or rejects while the run is under way.
THEOREM OneOwnerAlways == Spec => []OneOwner
<1>1. Init => OneOwner
  BY DEF Init, OneOwner, View
<1>2. Spec => []TypeInv
  BY TypeInit, TypeStep, PTL DEF Spec
<1> QED BY <1>1, <1>2, OwnerStep, PTL DEF Spec
-----------------------------------------------------------------------------
(* A human decision stands.  Why it does takes three facts more: a run that  *)
(* reads a decided row leaves it alone, a row without a decision never looks *)
(* decided, and a request always carries a decision.                         *)

\* A decided row is in the table and in nobody's hands.
Kept(s) ==
    /\ maps[s] = decided[s]
    /\ decided[s].status \in Human
    /\ own[s] = None
    /\ hand # None /\ hand.sku = s => KeepsDecision(hand.loaded)

\* No version of a row without a decision has the status of one.
Undecided(s) ==
    /\ maps[s] # None => maps[s].status \notin Human
    /\ own[s] # None => own[s].status \notin Human
    /\ request # None /\ request.sku = s => request.loaded.status \notin Human

Asked ==
    /\ hand # None => hand.new.status \notin Human
    /\ request # None => request.loaded # None /\ request.new.status \in Human

DecisionInv ==
    /\ Asked
    /\ \A s \in Skus \ raced : IF decided[s] # None THEN Kept(s) ELSE Undecided(s)

\* What evaluate comes up with is never a human's status.
LEMMA OutcomesOpen ==
  ASSUME NEW s, NEW row, NEW held, NEW new \in Outcomes(s, row, held)
  PROVE  new.status \notin Human
BY DEF Outcomes, StatusOf, Human

\* Every step leaves the decisions alone that it does not race with.
LEMMA DecisionStep == TypeInv /\ DecisionInv /\ [Next]_vars => DecisionInv'
<1> SUFFICES ASSUME TypeInv, DecisionInv, [Next]_vars PROVE DecisionInv'
  OBVIOUS
<1> USE NoneAssumption
<1>0. ASSUME UNCHANGED <<maps, own, hand, request, decided, raced>> PROVE DecisionInv'
  BY <1>0 DEF DecisionInv, Asked, Kept, Undecided, KeepsDecision
<1>1. ASSUME RollBack, UNCHANGED <<request, decided, raced>>, maps' \in {maps, View}
      PROVE  DecisionInv'
  <2>1. Asked'
    BY <1>1 DEF RollBack, DecisionInv, Asked
  <2>2. ASSUME NEW s \in Skus \ raced, decided[s] # None PROVE Kept(s)'
    BY <1>1, <2>2 DEF RollBack, DecisionInv, Kept, View
  <2>3. ASSUME NEW s \in Skus \ raced, decided[s] = None PROVE Undecided(s)'
    BY <1>1, <2>3 DEF RollBack, DecisionInv, Undecided, View
  <2> QED BY <1>1, <2>1, <2>2, <2>3 DEF DecisionInv
<1>2. ASSUME NEW t \in Skus, Evaluate(t) PROVE DecisionInv'
  <2> DEFINE held == IF claimed = None THEN Claims(View) ELSE claimed
  <2>1. PICK new \in Outcomes(t, View[t], held) :
           hand' = [sku |-> t, loaded |-> View[t], new |-> new]
    BY <1>2 DEF Evaluate
  <2>2. new.status \notin Human /\ UNCHANGED <<maps, own, request, decided, raced>>
    BY <1>2, OutcomesOpen DEF Evaluate
  <2>3. Asked'
    BY <2>1, <2>2 DEF DecisionInv, Asked
  <2>4. ASSUME NEW s \in Skus \ raced, decided[s] # None PROVE Kept(s)'
    <3>1. Kept(s) /\ View[s] = decided[s]
      BY <2>4 DEF DecisionInv, Kept, View
    <3>2. hand'.sku = s => KeepsDecision(hand'.loaded)
      BY <2>1, <2>4, <3>1 DEF Kept, KeepsDecision
    <3> QED BY <2>2, <3>1, <3>2 DEF Kept, KeepsDecision
  <2>5. ASSUME NEW s \in Skus \ raced, decided[s] = None PROVE Undecided(s)'
    BY <2>2, <2>5 DEF DecisionInv, Undecided
  <2> QED BY <2>2, <2>3, <2>4, <2>5 DEF DecisionInv
<1>3. ASSUME Apply, ~RollBack PROVE DecisionInv'
  <2> DEFINE t == hand.sku
             row == Written(View[t], hand.loaded, hand.new)
  <2>1. t \in Skus /\ hand.loaded \in Row \cup {None} /\ hand.new \in Row
        /\ hand.new.status \notin Human
    BY <1>3 DEF Apply, TypeInv, TypeOK, Hand, DecisionInv, Asked
  <2>2. /\ hand' = None /\ UNCHANGED <<maps, request, decided, raced>>
        /\ \/ UNCHANGED own
           \/ ~KeepsDecision(hand.loaded) /\ own' = [own EXCEPT ![t] = row]
    BY <1>3 DEF Apply
  <2>3. Asked'
    BY <2>2 DEF DecisionInv, Asked
  <2>4. ASSUME NEW s \in Skus \ raced, decided[s] # None PROVE Kept(s)'
    <3>1. Kept(s)
      BY <2>4 DEF DecisionInv
    <3>2. own'[s] = None
      BY <1>3, <2>1, <2>2, <3>1 DEF Apply, Kept, TypeInv, TypeOK
    <3> QED BY <2>2, <3>1, <3>2 DEF Kept
  <2>5. ASSUME NEW s \in Skus \ raced, decided[s] = None PROVE Undecided(s)'
    <3>1. Undecided(s)
      BY <2>5 DEF DecisionInv
    <3>2. ASSUME s = t PROVE row.status \notin Human
      <4>1. hand.loaded # None => View[s] # None
        BY <1>3, <3>2 DEF Apply, TypeInv, RowsStay
      <4>2. View[s] # None => View[s].status \notin Human
        BY <2>5, <3>1 DEF Undecided, View
      <4> QED BY <2>1, <3>2, <4>1, <4>2 DEF Written
    <3> HIDE DEF row
    <3>3. own'[s] \in {own[s]} \/ (s = t /\ own'[s] = row)
      BY <2>1, <2>2, <2>5 DEF TypeInv, TypeOK
    <3> QED BY <2>2, <3>1, <3>2, <3>3 DEF Undecided
  <2> QED BY <2>2, <2>3, <2>4, <2>5 DEF DecisionInv
<1>4. ASSUME NEW t \in Skus, NEW new \in Row, new.status \in Human, Review(t, new)
      PROVE  DecisionInv'
  <2>1. /\ request' = [sku |-> t, loaded |-> maps[t], new |-> new] /\ maps[t] # None
        /\ UNCHANGED <<maps, own, hand, decided, raced>>
    BY <1>4 DEF Review
  <2>2. Asked'
    BY <1>4, <2>1 DEF DecisionInv, Asked
  <2>3. ASSUME NEW s \in Skus \ raced, decided[s] # None PROVE Kept(s)'
    BY <2>1, <2>3 DEF DecisionInv, Kept, KeepsDecision
  <2>4. ASSUME NEW s \in Skus \ raced, decided[s] = None PROVE Undecided(s)'
    BY <2>1, <2>4 DEF DecisionInv, Undecided
  <2> QED BY <2>1, <2>2, <2>3, <2>4 DEF DecisionInv
<1>5. ASSUME NEW t \in Skus, Approve(t) PROVE DecisionInv'
  <2>1. PICK g \in Goods : Review(t, [status |-> "approved", prod |-> g])
    BY <1>5 DEF Approve
  <2> QED BY <1>4, <2>1 DEF Row, Statuses, Human
<1>6. ASSUME NEW t \in Skus, Reject(t) PROVE DecisionInv'
  <2>1. [status |-> "rejected", prod |-> maps[t].prod] \in Row
    BY <1>6 DEF Reject, Row, Statuses, TypeInv, TypeOK
  <2> QED BY <1>4, <1>6, <2>1 DEF Reject, Human
<1>7. ASSUME WriteReview PROVE DecisionInv'
  <2>0. PICK t \in Skus : t = request.sku
    BY <1>7 DEF WriteReview, TypeInv, TypeOK, Hand
  <2> DEFINE row == Written(maps[t], request.loaded, request.new)
  <2>1. /\ request.loaded \in Row \cup {None} /\ request.loaded # None
        /\ request.new \in Row /\ request.new.status \in Human
        /\ maps[t] \in Row \cup {None} /\ maps[t] # None
    BY <1>7, <2>0 DEF WriteReview, TypeInv, TypeOK, Hand, RowsStay, DecisionInv, Asked
  <2>2. /\ request' = None /\ own[t] = None /\ UNCHANGED <<own, hand>>
        /\ \/ UNCHANGED <<maps, decided, raced>>
           \/ /\ maps' = [maps EXCEPT ![t] = row]
              /\ decided' = [decided EXCEPT ![t] = row]
              /\ raced' = IF hand # None /\ hand.sku = t THEN raced \cup {t} ELSE raced
    BY <1>7, <2>0 DEF WriteReview
  <2>3. Asked'
    BY <2>2 DEF DecisionInv, Asked
  <2>4. row \in Row
    BY <2>1, WrittenType
  <2>5. ASSUME t \notin raced PROVE row.status \in Human
    <3>1. CASE request.new.status # request.loaded.status
      BY <2>1, <3>1 DEF Written
    <3>2. CASE request.new.status = request.loaded.status
      <4>1. decided[t] # None
        BY <1>7, <2>0, <2>5, <3>2, <2>1 DEF WriteReview, DecisionInv, Undecided
      <4>2. maps[t].status \in Human
        BY <2>1, <2>5, <4>1 DEF DecisionInv, Kept
      <4> QED BY <2>1, <3>2, <4>2 DEF Written
    <3> QED BY <3>1, <3>2
  <2> HIDE DEF row
  <2>6. CASE UNCHANGED <<maps, decided, raced>>
    <3>1. ASSUME NEW s \in Skus \ raced, decided[s] # None PROVE Kept(s)'
      BY <2>2, <2>6, <3>1 DEF DecisionInv, Kept, KeepsDecision
    <3>2. ASSUME NEW s \in Skus \ raced, decided[s] = None PROVE Undecided(s)'
      BY <2>2, <2>6, <3>2 DEF DecisionInv, Undecided
    <3> QED BY <2>3, <2>6, <3>1, <3>2 DEF DecisionInv
  <2>7. CASE /\ maps' = [maps EXCEPT ![t] = row]
             /\ decided' = [decided EXCEPT ![t] = row]
             /\ raced' = IF hand # None /\ hand.sku = t THEN raced \cup {t} ELSE raced
    <3>1. ASSUME t \notin raced' PROVE decided'[t] # None /\ Kept(t)'
      <4>1. t \notin raced /\ ~(hand # None /\ hand.sku = t)
        BY <2>7, <3>1
      <4>2. maps'[t] = row /\ decided'[t] = row
        BY <2>1, <2>7 DEF TypeInv, TypeOK
      <4> QED BY <2>2, <2>4, <2>5, <4>1, <4>2 DEF Kept
    <3>2. ASSUME NEW s \in Skus \ raced', s # t
          PROVE  /\ decided'[s] = decided[s]
                 /\ IF decided[s] # None THEN Kept(s)' ELSE Undecided(s)'
      <4>1. s \in Skus \ raced /\ maps'[s] = maps[s] /\ decided'[s] = decided[s]
        BY <2>7, <3>2 DEF TypeInv, TypeOK
      <4>2. CASE decided[s] # None
        BY <2>2, <4>1, <4>2 DEF DecisionInv, Kept, KeepsDecision
      <4>3. CASE decided[s] = None
        BY <2>2, <4>1, <4>3 DEF DecisionInv, Undecided
      <4> QED BY <4>1, <4>2, <4>3
    <3> QED BY <2>3, <3>1, <3>2 DEF DecisionInv
  <2> QED BY <2>2, <2>6, <2>7
<1>8. ASSUME Apply, RollBack PROVE DecisionInv'
  BY <1>1, <1>8 DEF Apply
<1> QED
  BY <1>0, <1>1, <1>2, <1>3, <1>5, <1>6, <1>7, <1>8
     DEF Next, vars, StartRun, Commit, Abort, Rescore

\* apply never overwrites a human decision, unless the decision was committed
\* between its read of that row and its write: for any number of products, runs
\* and reviews, and whatever runs clash or die.
THEOREM DecisionsStand == Spec => []UnracedDecisionStands
<1>1. Init => DecisionInv
  BY DEF Init, DecisionInv, Asked, Undecided
<1>2. DecisionInv => UnracedDecisionStands
  BY DEF DecisionInv, UnracedDecisionStands, Kept
<1>3. Spec => []TypeInv
  BY TypeInit, TypeStep, PTL DEF Spec
<1> QED BY <1>1, <1>2, <1>3, DecisionStep, PTL DEF Spec
-----------------------------------------------------------------------------
(* The engine's cache of claimed products keeps up with the run, and so does  *)
(* its near-tie test.  Both rest on what a run knows of its own rows: it      *)
(* writes a row once, and what it writes to a row nobody raced for is what    *)
(* evaluate came up with.                                                     *)

\* A run's rows, its cache and the row in hand exist only while it lasts, and a
\* product still to match has not been written.
Within ==
    /\ ~running => hand = None /\ \A s \in Skus : own[s] = None
    /\ claimed = None => \A s \in Skus : own[s] = None
    /\ \A s \in todo : own[s] = None
    /\ hand # None => hand.sku \in todo

\* Unless a decision raced for it, the row in hand is as apply read it.
ReadHolds ==
    hand # None /\ hand.sku \notin raced => View[hand.sku] = hand.loaded

\* Whatever the run has claimed is in the cache.
CacheKeepsUp ==
    \A t \in Skus \ raced :
       own[t] # None /\ own[t].status \in Claiming => own[t].prod \in claimed

\* The product in hand, if chosen without asking, is clear of the free ones.
HandIsClear ==
    hand # None /\ ~KeepsDecision(hand.loaded) /\ hand.new.status = "auto" =>
       \A g \in Goods \ (claimed \cup {hand.new.prod}) :
          score[hand.sku][g] < score[hand.sku][hand.new.prod] - TieMargin

RunInv == Within /\ ReadHolds /\ CacheKeepsUp /\ SuggestedOnce

ClearInv == HandIsClear /\ AutoIsClear

\* An UPDATE of the very row that was loaded stores the new one.
LEMMA WrittenNew ==
  ASSUME NEW loaded \in Row \cup {None}, NEW new \in Row
  PROVE  Written(loaded, loaded, new) = new
BY DEF Written, Row

\* The cache a run goes by, loaded at its first product, covers its own claims.
LEMMA HeldCovers ==
  ASSUME TypeInv, RunInv, NEW held,
         held = IF claimed = None THEN Claims(View) ELSE claimed
  PROVE  /\ held # None /\ held \subseteq Goods
         /\ \A t \in Skus \ raced :
               own[t] # None /\ own[t].status \in Claiming => own[t].prod \in held
BY NoneAssumption DEF Claims, TypeInv, TypeOK, RunInv, Within, CacheKeepsUp

\* evaluate proposes no product that the run has given to another row.
LEMMA ProposesFree ==
  ASSUME TypeInv, OneOwner, RunInv, NEW s \in Skus, NEW held,
         held = IF claimed = None THEN Claims(View) ELSE claimed,
         NEW new \in Outcomes(s, View[s], held),
         NEW t \in Skus \ raced, t # s, own[t] # None, own[t].status \in Claiming
  PROVE  own[t].prod # new.prod
<1>1. own[t].prod \in held /\ own[t].prod \in Goods
  BY HeldCovers
<1>2. CASE new.prod = None
  BY <1>1, <1>2, ScoreAssumption
<1>3. CASE new.prod \in Candidates(s, View[s], held)
  <2>1. new.prod \notin held \/ (View[s] # None /\ View[s].prod = new.prod)
    BY <1>3 DEF Candidates
  <2>2. View[t] = own[t]
    BY DEF View
  <2> QED BY <1>1, <2>1, <2>2 DEF OneOwner
<1> QED BY <1>2, <1>3 DEF Outcomes

LEMMA ScoreNat ==
  ASSUME TypeOK, NEW s \in Skus, NEW g \in Goods
  PROVE  score[s][g] \in Nat
<1>1. score[s] \in [Goods -> Scores]
  BY DEF TypeOK, Similarity
<1> QED BY <1>1, ScoreAssumption

\* A match made without asking is clear of every product free in this run.
LEMMA ProposesClear ==
  ASSUME TypeInv, TieMargin < AutoScore, NEW s \in Skus, NEW held,
         NEW new \in Outcomes(s, View[s], held),
         ~KeepsDecision(View[s]), new.status = "auto",
         NEW g \in Goods, g \notin held, g # new.prod
  PROVE  score[s][g] < score[s][new.prod] - TieMargin
<1> DEFINE cands == Candidates(s, View[s], held)
<1>1. new.prod \in cands /\ StatusOf(s, new.prod, cands) = "auto"
  BY DEF Outcomes
<1>2. cands \subseteq Goods
  BY DEF Candidates
<1>3. score[s][g] \in Nat /\ score[s][new.prod] \in Nat
  BY <1>1, <1>2, ScoreNat DEF TypeInv
<1>4. /\ score[s][new.prod] >= AutoScore
      /\ ~\E h \in cands \ {new.prod} :
             score[s][h] >= score[s][new.prod] - TieMargin
  BY <1>1, <1>3, ScoreAssumption DEF StatusOf
<1> HIDE DEF cands
<1>5. CASE g \in cands
  BY <1>3, <1>4, <1>5, ScoreAssumption
<1>6. CASE g \notin cands
  <2>1. score[s][g] = 0
    BY <1>3, <1>6 DEF cands, Candidates, KeepsDecision, Human
  <2> QED BY <1>3, <1>4, <2>1, ScoreAssumption
<1> QED BY <1>5, <1>6

\* Every step keeps the cache and the rows of the run together.
LEMMA RunStep ==
  TypeInv /\ OneOwner /\ DecisionInv /\ RunInv /\ [Next]_vars => RunInv'
<1> SUFFICES ASSUME TypeInv, OneOwner, DecisionInv, RunInv, [Next]_vars
             PROVE  RunInv'
  OBVIOUS
<1> USE NoneAssumption
<1>0. ASSUME UNCHANGED <<maps, own, running, todo, claimed, hand, raced>> PROVE RunInv'
  BY <1>0 DEF RunInv, Within, ReadHolds, CacheKeepsUp, SuggestedOnce, View,
              KeepsDecision
<1>1. ASSUME RollBack PROVE RunInv'
  BY <1>1 DEF RollBack, RunInv, Within, ReadHolds, CacheKeepsUp, SuggestedOnce
<1>2. ASSUME StartRun PROVE RunInv'
  BY <1>2 DEF StartRun, RunInv, Within, ReadHolds, CacheKeepsUp, SuggestedOnce
<1>3. ASSUME NEW s \in Skus, Evaluate(s) PROVE RunInv'
  <2> DEFINE held == IF claimed = None THEN Claims(View) ELSE claimed
  <2>1. PICK new \in Outcomes(s, View[s], held) :
           hand' = [sku |-> s, loaded |-> View[s], new |-> new]
    BY <1>3 DEF Evaluate
  <2>2. /\ running /\ s \in todo /\ claimed' = held
        /\ UNCHANGED <<maps, own, running, todo, raced>>
    BY <1>3 DEF Evaluate
  <2>3. \A t \in Skus \ (raced \cup {s}) :
           own[t] # None /\ own[t].status \in Claiming => own[t].prod # new.prod
    BY <2>1, ProposesFree
  <2>4. /\ held # None
        /\ \A t \in Skus \ raced :
               own[t] # None /\ own[t].status \in Claiming => own[t].prod \in held
    BY HeldCovers
  <2> HIDE DEF held
  <2>5. hand'.sku = s /\ hand'.loaded = View[s] /\ hand'.new = new
    BY <2>1
  <2>6. Within'
    BY <2>2, <2>4, <2>5 DEF RunInv, Within
  <2>7. ReadHolds'
    BY <2>2, <2>5 DEF ReadHolds, View
  <2>8. CacheKeepsUp' /\ SuggestedOnce'
    BY <2>2, <2>3, <2>4, <2>5 DEF CacheKeepsUp, SuggestedOnce
  <2> QED BY <2>6, <2>7, <2>8 DEF RunInv
<1>4. ASSUME Apply, ~RollBack PROVE RunInv'
  <2> DEFINE s == hand.sku
             row == Written(View[s], hand.loaded, hand.new)
  <2>1. /\ s \in Skus /\ hand.loaded \in Row \cup {None} /\ hand.new \in Row
        /\ hand.new.status \notin Human
        /\ claimed # None /\ claimed \subseteq Goods
    BY <1>4 DEF Apply, TypeInv, TypeOK, Hand, HandOK, DecisionInv, Asked
  <2>2. /\ hand' = None /\ todo' = todo \ {s} /\ UNCHANGED <<maps, running, raced>>
        /\ \/ UNCHANGED <<own, claimed>>
           \/ own' = [own EXCEPT ![s] = row] /\ claimed' = ClaimNew(hand.new)
    BY <1>4 DEF Apply
  <2>3. s \notin raced => row = hand.new
    BY <1>4, <2>1, WrittenNew DEF Apply, RunInv, ReadHolds
  <2>4. claimed \subseteq claimed' /\ claimed' # None
    <3>1. ClaimNew(hand.new) \subseteq Goods /\ claimed \subseteq ClaimNew(hand.new)
      BY <1>4, <2>1 DEF Apply, ClaimNew, TypeInv, HandOK
    <3> QED BY <2>1, <2>2, <3>1
  <2> HIDE DEF row
  <2>5. Within'
    BY <1>4, <2>1, <2>2, <2>4 DEF Apply, RunInv, Within, TypeInv, TypeOK
  <2>6. CacheKeepsUp'
    <3> SUFFICES ASSUME NEW t \in Skus \ raced, own'[t] # None,
                        own'[t].status \in Claiming
                 PROVE  own'[t].prod \in claimed'
      BY <2>2 DEF CacheKeepsUp
    <3>1. CASE own'[t] = own[t]
      BY <2>4, <3>1 DEF RunInv, CacheKeepsUp
    <3>2. CASE own'[t] # own[t]
      <4>1. t = s /\ own'[t] = hand.new /\ claimed' = ClaimNew(hand.new)
        BY <2>1, <2>2, <2>3, <3>2 DEF TypeInv, TypeOK
      <4>2. hand.new.status \in {"auto", "pending"}
        BY <2>1, <4>1 DEF Claiming, Human
      <4> QED BY <4>1, <4>2 DEF ClaimNew
    <3> QED BY <3>1, <3>2
  <2> QED BY <2>2, <2>5, <2>6 DEF RunInv, ReadHolds, SuggestedOnce
<1>5. ASSUME WriteReview PROVE RunInv'
  <2> DEFINE s == request.sku
  <2>1. /\ UNCHANGED <<own, running, todo, claimed, hand>>
        /\ raced \subseteq raced'
        /\ \A t \in Skus : maps'[t] = maps[t] \/ t = s
        /\ maps' = maps \/ (hand # None /\ hand.sku = s => s \in raced')
    BY <1>5 DEF WriteReview, TypeInv, TypeOK
  <2>2. Within' /\ CacheKeepsUp'
    BY <2>1 DEF RunInv, Within, CacheKeepsUp
  <2>3. SuggestedOnce'
    BY <2>1 DEF RunInv, SuggestedOnce, KeepsDecision
  <2>4. ReadHolds'
    <3> SUFFICES ASSUME hand # None, hand.sku \notin raced'
                 PROVE  View'[hand.sku] = hand.loaded
      BY <2>1 DEF ReadHolds
    <3>1. hand.sku \in Skus /\ View[hand.sku] = hand.loaded
      BY <2>1 DEF RunInv, ReadHolds, TypeInv, TypeOK, Hand
    <3>2. maps'[hand.sku] = maps[hand.sku]
      BY <2>1, <3>1
    <3> QED BY <2>1, <3>1, <3>2 DEF View
  <2> QED BY <2>2, <2>3, <2>4 DEF RunInv
<1> QED
  BY <1>0, <1>1, <1>2, <1>3, <1>4, <1>5
     DEF Next, vars, Commit, Abort, Approve, Reject, Review, Rescore

MatchInv == TypeInv /\ OneOwner /\ DecisionInv /\ RunInv

LEMMA MatchAlways == Spec => []MatchInv
<1>1. Init => RunInv
  BY DEF Init, RunInv, Within, ReadHolds, CacheKeepsUp, SuggestedOnce
<1>2. Init => DecisionInv
  BY DEF Init, DecisionInv, Asked, Undecided
<1>3. Init => MatchInv
  <2>1. Init => OneOwner
    BY DEF Init, OneOwner, View
  <2> QED BY <1>1, <1>2, <2>1, TypeInit DEF MatchInv
<1>4. MatchInv /\ [Next]_vars => MatchInv'
  BY TypeStep, OwnerStep, DecisionStep, RunStep DEF MatchInv
<1> QED BY <1>3, <1>4, PTL DEF Spec

\* No product is proposed twice in a run: find_candidates leaves out what
\* apply has claimed, for any catalogue, and whatever the operator approves or
\* rejects meanwhile.
THEOREM NothingProposedTwice == Spec => []SuggestedOnce
<1>1. MatchInv => SuggestedOnce
  BY DEF MatchInv, RunInv
<1> QED BY <1>1, MatchAlways, PTL

\* Every step keeps the matches made without asking clear of the free products.
LEMMA ClearStep ==
  ASSUME TieMargin < AutoScore
  PROVE  MatchInv /\ ClearInv /\ [Next]_vars => ClearInv'
<1> SUFFICES ASSUME MatchInv, ClearInv, [Next]_vars PROVE ClearInv'
  OBVIOUS
<1> USE NoneAssumption DEF MatchInv
<1>0. ASSUME UNCHANGED <<score, own, claimed, hand>>, raced \subseteq raced'
      PROVE  ClearInv'
  BY <1>0 DEF ClearInv, HandIsClear, AutoIsClear, KeepsDecision
<1>1. ASSUME hand' = None, \A s \in Skus : own'[s] = None PROVE ClearInv'
  BY <1>1 DEF ClearInv, HandIsClear, AutoIsClear
<1>2. ASSUME NEW s \in Skus, Evaluate(s) PROVE ClearInv'
  <2> DEFINE held == IF claimed = None THEN Claims(View) ELSE claimed
  <2>1. PICK new \in Outcomes(s, View[s], held) :
           hand' = [sku |-> s, loaded |-> View[s], new |-> new]
    BY <1>2 DEF Evaluate
  <2>2. claimed' = held /\ UNCHANGED <<score, own, raced>>
    BY <1>2 DEF Evaluate
  <2>3. ASSUME ~KeepsDecision(View[s]), new.status = "auto",
               NEW g \in Goods, g \notin held, g # new.prod
        PROVE  score[s][g] < score[s][new.prod] - TieMargin
    BY <2>1, <2>3, ProposesClear
  <2>4. \/ \A t \in Skus : own[t] = None
        \/ held = claimed
    BY DEF RunInv, Within
  <2> HIDE DEF held
  <2>5. hand'.sku = s /\ hand'.loaded = View[s] /\ hand'.new = new
    BY <2>1
  <2>6. HandIsClear'
    BY <2>2, <2>3, <2>5 DEF HandIsClear, KeepsDecision
  <2>7. AutoIsClear'
    BY <2>2, <2>4 DEF ClearInv, AutoIsClear
  <2> QED BY <2>6, <2>7 DEF ClearInv
<1>3. ASSUME Apply, ~RollBack PROVE ClearInv'
  <2> DEFINE s == hand.sku
             row == Written(View[s], hand.loaded, hand.new)
  <2>1. /\ s \in Skus /\ hand # None
        /\ hand.loaded \in Row \cup {None} /\ hand.new \in Row
    BY <1>3 DEF Apply, TypeInv, TypeOK, Hand
  <2>2. /\ hand' = None /\ UNCHANGED <<score, raced>>
        /\ \/ UNCHANGED <<own, claimed>>
           \/ /\ ~KeepsDecision(hand.loaded)
              /\ own' = [own EXCEPT ![s] = row] /\ claimed' = ClaimNew(hand.new)
    BY <1>3 DEF Apply
  <2>3. s \notin raced => row = hand.new
    BY <2>1, WrittenNew DEF RunInv, ReadHolds
  <2>4. claimed \subseteq claimed'
    BY <2>2 DEF ClaimNew
  <2> HIDE DEF row
  <2>5. ASSUME NEW t \in Skus \ raced, own'[t] # None, own'[t].status = "auto",
               NEW g \in Goods \ claimed'
        PROVE  score[t][g] < score[t][own'[t].prod] - TieMargin
    <3>1. CASE own'[t] = own[t]
      BY <2>4, <2>5, <3>1 DEF ClearInv, AutoIsClear
    <3>2. CASE own'[t] # own[t]
      <4>1. /\ t = s /\ own'[t] = hand.new /\ claimed' = ClaimNew(hand.new)
            /\ ~KeepsDecision(hand.loaded)
        BY <2>1, <2>2, <2>3, <2>5, <3>2 DEF TypeInv, TypeOK
      <4>2. claimed' = claimed \cup {hand.new.prod}
        BY <2>5, <4>1 DEF ClaimNew
      <4> QED BY <2>1, <2>5, <4>1, <4>2 DEF ClearInv, HandIsClear
    <3> QED BY <3>1, <3>2
  <2> QED BY <2>2, <2>5 DEF ClearInv, HandIsClear, AutoIsClear
<1>4. ASSUME WriteReview PROVE ClearInv'
  BY <1>0, <1>4 DEF WriteReview
<1>5. ASSUME NEW s \in Skus, NEW g \in Goods, Rescore(s, g) PROVE ClearInv'
  BY <1>1, <1>5 DEF Rescore, RunInv, Within
<1>6. ASSUME RollBack PROVE ClearInv'
  BY <1>1, <1>6 DEF RollBack
<1> QED
  BY <1>0, <1>2, <1>3, <1>4, <1>5, <1>6
     DEF Next, vars, StartRun, Commit, Abort, Approve, Reject, Review

\* A mapping that evaluate makes without asking has no rival within the near-tie
\* margin among the products free in its run, for any scores and any order of
\* products, as long as the auto-accept score is above the margin.
THEOREM AutoIsAlwaysClear ==
  ASSUME TieMargin < AutoScore
  PROVE  Spec => []AutoIsClear
<1>1. Init => ClearInv
  BY DEF Init, ClearInv, HandIsClear, AutoIsClear
<1>2. ClearInv => AutoIsClear
  BY DEF ClearInv
<1> QED BY <1>1, <1>2, ClearStep, MatchAlways, PTL DEF Spec
=============================================================================
