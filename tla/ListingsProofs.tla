--------------------------- MODULE ListingsProofs ---------------------------
(***************************************************************************)
(* Proofs about Listings, for every set of supplier and store products,    *)
(* stocks and prices: types, which product an offer belongs to, and who    *)
(* may write it.                                                           *)
(***************************************************************************)
EXTENDS Listings, TLAPS

(* A session has read the mapping of every product it works on, and the     *)
(* mappings it has read name a store product.                               *)
SessionOK(c) ==
    /\ c \in Session
    /\ ~c.open => c = Idle
    /\ \A s \in Skus : c.plan[s] # None => c.plan[s].map.prod # None
    /\ \A s \in c.todo : c.plan[s] # None
    /\ \A s \in Skus : c.own[s] # None => c.plan[s] # None
    /\ c.hand # None => c.plan[c.hand.sku] # None

StoreOK ==
    /\ maps \in [Skus -> Mapping]
    /\ item \in [Skus -> [active : BOOLEAN, stock : Stocks]]
    /\ fx \in BOOLEAN
    /\ rows \in [Skus -> OfferRow \cup {None}]
    /\ live \in [Goods -> Shop \cup {None}]
    /\ moved \subseteq Skus /\ astray \subseteq Skus

TypeInv ==
    /\ StoreOK
    /\ run \in [Runners -> Session]
    /\ \A r \in Runners : SessionOK(run[r])

-----------------------------------------------------------------------------
(* What the steps of a session do to it. *)

\* The idle session is in order.
LEMMA IdleOK == SessionOK(Idle)
<1>1. Idle \in Session
  BY DEF Idle, Session
<1> QED BY <1>1 DEF SessionOK, Idle

\* One session changes, to one that is in order.
LEMMA OneSession ==
  ASSUME TypeInv, NEW r \in Runners, NEW c, SessionOK(c), run' = [run EXCEPT ![r] = c]
  PROVE  /\ run' \in [Runners -> Session] /\ \A q \in Runners : SessionOK(run'[q])
         /\ run'[r] = c /\ \A q \in Runners : q # r => run'[q] = run[q]
<1>1. c \in Session /\ run \in [Runners -> Session]
  BY DEF TypeInv, SessionOK
<1> QED BY <1>1 DEF TypeInv

\* A product that is done leaves the work list.
LEMMA DoneIs ==
  ASSUME TypeInv, NEW r \in Runners, NEW s \in Skus, Done(r, s)
  PROVE  /\ run' = [run EXCEPT ![r] = [run[r] EXCEPT !.todo = @ \ {s}]]
         /\ run[r].open => SessionOK([run[r] EXCEPT !.todo = @ \ {s}])
<1> DEFINE c == run[r]
           next == [c EXCEPT !.todo = @ \ {s}]
<1>1. c \in Session /\ SessionOK(c)
  BY DEF TypeInv
<1>2. next \in Session /\ next.open = c.open /\ next.plan = c.plan /\ next.own = c.own
      /\ next.hand = c.hand /\ next.todo = c.todo \ {s}
  BY <1>1 DEF Session
<1>3. run' = [run EXCEPT ![r] = next]
  BY Zenon DEF Done
<1> HIDE DEF next
<1>4. c.open => SessionOK(next)
  BY <1>1, <1>2 DEF SessionOK
<1> QED BY <1>3, <1>4 DEF next

\* A session that waits for a row is otherwise as it was.
LEMMA AwaitIs ==
  ASSUME TypeInv, NEW r \in Runners, NEW s \in Skus, Await(r, s)
  PROVE  /\ run' = [run EXCEPT ![r] = [run[r] EXCEPT !.wait = s]]
         /\ SessionOK([run[r] EXCEPT !.wait = s])
<1> DEFINE c == run[r]
           next == [c EXCEPT !.wait = s]
<1>1. c \in Session /\ SessionOK(c) /\ c.open
  BY DEF TypeInv, Await, Writing, Ready, SessionOK, Idle
<1>2. next \in Session /\ next.open = c.open /\ next.plan = c.plan /\ next.own = c.own
      /\ next.hand = c.hand /\ next.todo = c.todo
  BY <1>1 DEF Session
<1>3. run' = [run EXCEPT ![r] = next]
  BY Zenon DEF Await
<1> HIDE DEF next
<1>4. SessionOK(next)
  BY <1>1, <1>2 DEF SessionOK
<1> QED BY <1>3, <1>4 DEF next

\* What a call to the store leaves in the session.
Inserted(r, s, loaded, ext) ==
    IF rows[s] # None THEN run[r].own[s]
    ELSE [loaded EXCEPT !.ext = IF live[ext] # None THEN ext ELSE @]

Taken(s, loaded, ext, want) ==
    [sku |-> s, loaded |-> loaded,
     new |-> [loaded EXCEPT !.ext = ext, !.price = want.price, !.stock = want.stock]]

Called(r, s, loaded, ext, want) ==
    [run[r] EXCEPT !.wait = None,
                   !.own = [@ EXCEPT ![s] = Inserted(r, s, loaded, ext)],
                   !.hand = Taken(s, loaded, ext, want)]

LEMMA CallIs ==
  ASSUME TypeInv, NEW r \in Runners, NEW s \in Skus, s \in run[r].todo, run[r].open,
         NEW loaded \in OfferRow, NEW ext \in Goods \cup {None}, NEW set,
         NEW want \in Offer, Call(r, s, loaded, ext, set, want)
  PROVE  /\ run' = [run EXCEPT ![r] = Called(r, s, loaded, ext, want)]
         /\ SessionOK(Called(r, s, loaded, ext, want))
         /\ Inserted(r, s, loaded, ext) \in OfferRow \cup {None}
         /\ Taken(s, loaded, ext, want) \in InHand
         /\ Called(r, s, loaded, ext, want).plan = run[r].plan
         /\ Called(r, s, loaded, ext, want).own
               = [run[r].own EXCEPT ![s] = Inserted(r, s, loaded, ext)]
         /\ Called(r, s, loaded, ext, want).hand = Taken(s, loaded, ext, want)
<1> DEFINE c == run[r]
           row == Inserted(r, s, loaded, ext)
           hand == Taken(s, loaded, ext, want)
           own == [c.own EXCEPT ![s] = row]
           next == [c EXCEPT !.wait = None, !.own = own, !.hand = hand]
<1>1. c \in Session /\ SessionOK(c) /\ run \in [Runners -> Session]
  BY DEF TypeInv
<1>2. row \in OfferRow \cup {None}
  <2>1. c.own[s] \in OfferRow \cup {None}
    BY <1>1 DEF Session
  <2>2. \A e \in Goods \cup {None} : [loaded EXCEPT !.ext = e] \in OfferRow
    BY DEF OfferRow
  <2>3. loaded.ext \in Goods \cup {None}
    BY DEF OfferRow
  <2> QED BY <2>1, <2>2, <2>3 DEF Inserted
<1>3. hand \in InHand /\ hand.sku = s
  <2>1. [loaded EXCEPT !.ext = ext, !.price = want.price, !.stock = want.stock] \in OfferRow
    BY DEF OfferRow, Offer
  <2> QED BY <2>1 DEF Taken, InHand
<1>4. next = Called(r, s, loaded, ext, want)
  BY Zenon DEF Called
<1>5. run' = [run EXCEPT ![r] = next]
  BY Zenon DEF Call, Inserted, Taken
<1> HIDE DEF row, hand
<1>6. own \in [Skus -> OfferRow \cup {None}] /\ \A t \in Skus \ {s} : own[t] = c.own[t]
  BY <1>1, <1>2 DEF Session
<1> HIDE DEF own
<1>7. next \in Session /\ next.open = c.open /\ next.plan = c.plan /\ next.own = own
      /\ next.hand = hand /\ next.todo = c.todo
  BY <1>1, <1>3, <1>6 DEF Session
<1> HIDE DEF next
<1>8. SessionOK(next)
  BY <1>1, <1>3, <1>6, <1>7 DEF SessionOK
<1> QED BY <1>2, <1>3, <1>4, <1>5, <1>7, <1>8 DEF row, hand, own

\* What _remember leaves in the session.
Saved(r) ==
    LET s == run[r].hand.sku
    IN [run[r] EXCEPT !.own = [@ EXCEPT ![s] = Written(rows[s], run[r].hand)],
                      !.hand = None, !.wait = None, !.todo = @ \ {s}]

LEMMA SaveIs ==
  ASSUME TypeInv, NEW r \in Runners, Save(r)
  PROVE  /\ run' = [run EXCEPT ![r] = Saved(r)]
         /\ SessionOK(Saved(r))
         /\ run[r].hand \in InHand
         /\ Written(rows[run[r].hand.sku], run[r].hand) \in OfferRow
         /\ Written(rows[run[r].hand.sku], run[r].hand).ext = run[r].hand.new.ext
         /\ Saved(r).plan = run[r].plan
         /\ Saved(r).own = [run[r].own EXCEPT ![run[r].hand.sku]
                                         = Written(rows[run[r].hand.sku], run[r].hand)]
         /\ Saved(r).hand = None
<1> DEFINE c == run[r]
           s == c.hand.sku
           row == Written(rows[s], c.hand)
           own == [c.own EXCEPT ![s] = row]
           next == [c EXCEPT !.own = own, !.hand = None, !.wait = None, !.todo = @ \ {s}]
<1>1. c \in Session /\ SessionOK(c) /\ run \in [Runners -> Session] /\ c.hand # None
  BY DEF TypeInv, Save
<1>2. /\ c.hand \in InHand /\ s \in Skus /\ c.hand.new \in OfferRow
      /\ c.hand.loaded \in OfferRow /\ rows[s] \in OfferRow \cup {None} /\ c.open
  <2>1. c.hand \in InHand
    BY <1>1 DEF Session
  <2>2. s \in Skus /\ c.hand.new \in OfferRow /\ c.hand.loaded \in OfferRow
    BY <2>1 DEF InHand
  <2> QED BY <1>1, <2>1, <2>2 DEF TypeInv, StoreOK, SessionOK, Idle
<1>3. row \in OfferRow /\ row.ext = c.hand.new.ext
  <2> DEFINE new == c.hand.new
             stored == rows[s]
  <2>1. CASE stored = None
    BY <1>2, <2>1 DEF Written
  <2>2. CASE stored # None
    <3>1. stored \in OfferRow
      BY <1>2, <2>2
    <3>2. \A p \in {new.price, stored.price}, n \in {new.stock, stored.stock} :
             /\ [new EXCEPT !.price = p, !.stock = n] \in OfferRow
             /\ [new EXCEPT !.price = p, !.stock = n].ext = new.ext
      BY <1>2, <3>1 DEF OfferRow
    <3>3. \E p \in {new.price, stored.price}, n \in {new.stock, stored.stock} :
             row = [new EXCEPT !.price = p, !.stock = n]
      BY <2>2, Zenon DEF Written
    <3> QED BY <3>2, <3>3
  <2> QED BY <2>1, <2>2
<1>4. next = Saved(r) /\ run' = [run EXCEPT ![r] = next]
  BY Zenon DEF Saved, Save
<1> HIDE DEF row
<1>5. own \in [Skus -> OfferRow \cup {None}] /\ \A t \in Skus \ {s} : own[t] = c.own[t]
  BY <1>1, <1>2, <1>3 DEF Session
<1> HIDE DEF own
<1>6. next \in Session /\ next.open = c.open /\ next.plan = c.plan /\ next.own = own
      /\ next.hand = None /\ next.todo = c.todo \ {s}
  BY <1>1, <1>2, <1>5 DEF Session
<1>7. c.plan[s] # None
  BY <1>1 DEF SessionOK
<1> HIDE DEF next
<1>8. SessionOK(next)
  BY <1>1, <1>2, <1>5, <1>6, <1>7 DEF SessionOK
<1> QED BY <1>2, <1>3, <1>4, <1>6, <1>8 DEF row, own

\* A session that opens has read the syncable products.
LEMMA StartIs ==
  ASSUME TypeInv, NEW r \in Runners, Start(r)
  PROVE  \E c : /\ run' = [run EXCEPT ![r] = c]
                /\ SessionOK(c)
                /\ c.hand = None /\ \A s \in Skus : c.own[s] = None
                /\ \A s \in Skus : c.plan[s] # None => c.plan[s].map = maps[s]
<1> DEFINE chosen == {s \in Skus : Syncable(s)}
           read(s) == [map |-> maps[s], stock |-> item[s].stock]
           plan == [s \in Skus |-> IF s \in chosen THEN read(s) ELSE None]
           next == [Idle EXCEPT !.open = TRUE, !.todo = chosen, !.plan = plan]
<1>1. ASSUME NEW s \in Skus
      PROVE  /\ read(s) \in PlanRow /\ read(s).map = maps[s] /\ read(s) # None
             /\ s \in chosen => maps[s].prod # None
  <2>1. maps[s] \in Mapping /\ item[s].stock \in Stocks
    BY DEF TypeInv, StoreOK
  <2>2. read(s) \in PlanRow
    BY <2>1 DEF PlanRow
  <2>3. read(s) # None
    BY <2>2, NoneAssumption
  <2> QED BY <2>2, <2>3 DEF Syncable
<1> HIDE DEF read
<1>2. plan \in [Skus -> PlanRow \cup {None}]
  BY <1>1
<1>3. \A s \in Skus : /\ plan[s] # None => plan[s].map = maps[s] /\ maps[s].prod # None
                      /\ s \in chosen => plan[s] # None
  BY <1>1
<1>4. run' = [run EXCEPT ![r] = next]
  BY Zenon DEF Start, read
<1>5. chosen \subseteq Skus
  OBVIOUS
<1> HIDE DEF chosen, plan
<1>6. next \in Session /\ next.open /\ next.plan = plan /\ next.todo = chosen
      /\ next.hand = None /\ next.own = [s \in Skus |-> None]
  BY <1>2, <1>5 DEF Idle, Session
<1> HIDE DEF next
<1>7. SessionOK(next)
  BY <1>3, <1>5, <1>6 DEF SessionOK
<1> QED BY <1>3, <1>4, <1>6, <1>7

\* The price of a mapping and the stock of an item make an offer.
LEMMA DesiredType ==
  ASSUME NEW m \in Mapping, NEW n \in Stocks
  PROVE  Desired(m, n) \in Offer
<1>1. PriceOf(m) \in Prices
  BY DEF PriceOf, Mapping, Prices
<1> QED BY <1>1 DEF Desired, Offer

\* What a session that is ready for a product has read of it.
LEMMA ReadyIs ==
  ASSUME TypeInv, NEW r \in Runners, NEW s \in Skus, Ready(r, s)
  PROVE  /\ run[r].open /\ s \in run[r].todo /\ run[r].hand = None
         /\ run[r].plan[s] # None /\ Target(r, s) \in Goods
         /\ Desired(run[r].plan[s].map, run[r].plan[s].stock) \in Offer
<1>1. run[r] \in Session /\ SessionOK(run[r])
  BY DEF TypeInv
<1>2. run[r].open /\ s \in run[r].todo /\ run[r].hand = None
  BY DEF Ready
<1>3. run[r].plan[s] \in PlanRow /\ run[r].plan[s] # None /\ run[r].plan[s].map.prod # None
  BY <1>1, <1>2 DEF SessionOK, Session
<1>4. run[r].plan[s].map \in Mapping /\ run[r].plan[s].stock \in Stocks
  BY <1>3 DEF PlanRow
<1> QED BY <1>2, <1>3, <1>4, DesiredType DEF Target, Mapping

Fresh(r, s) == [prod |-> Target(r, s), ext |-> None, price |-> None, stock |-> None]

\* The two ways to call the store.
LEMMA UpdateIs ==
  ASSUME TypeInv, NEW r \in Runners, NEW s \in Skus, Update(r, s)
  PROVE  /\ run[r].open /\ s \in run[r].todo /\ rows[s] \in OfferRow /\ rows[s] # None
         /\ run[r].plan[s] # None
         /\ rows[s].ext \in Goods \cup {None}
         /\ \/ Done(r, s)
            \/ \E want \in Offer, set \in SUBSET {"price", "stock"} :
                  Call(r, s, rows[s], rows[s].ext, set, want)
<1>1. rows[s] \in OfferRow /\ rows[s] # None
  BY DEF Update, TypeInv, StoreOK
<1> QED BY <1>1, ReadyIs DEF Update, OfferRow, Changed

LEMMA CreateIs ==
  ASSUME TypeInv, NEW r \in Runners, NEW s \in Skus, Create(r, s)
  PROVE  /\ run[r].open /\ s \in run[r].todo /\ rows[s] = None
         /\ run[r].plan[s] # None
         /\ Fresh(r, s) \in OfferRow /\ Target(r, s) \in Goods
         /\ \E want \in Offer :
               Call(r, s, Fresh(r, s), Target(r, s), {"price", "stock"}, want)
<1>1. Target(r, s) \in Goods
  BY ReadyIs DEF Create
<1>2. Fresh(r, s) \in OfferRow
  BY <1>1 DEF Fresh, OfferRow
<1>3. Call(r, s, Fresh(r, s), Target(r, s), {"price", "stock"},
           Desired(run[r].plan[s].map, run[r].plan[s].stock))
  BY Zenon DEF Create, Fresh
<1> QED BY <1>1, <1>2, <1>3, ReadyIs DEF Create

\* A call changes one offer, and says whose it is.
LEMMA ShownIs ==
  ASSUME TypeInv, NEW s \in Skus, NEW ext \in Goods \cup {None}, NEW set,
         NEW want \in Offer
  PROVE  /\ Shown(ext, s, want, set) \in [Goods -> Shop \cup {None}]
         /\ \A g \in Goods : g # ext => Shown(ext, s, want, set)[g] = live[g]
         /\ ext \in Goods => Shown(ext, s, want, set)[ext].by = s
<1>1. live \in [Goods -> Shop \cup {None}]
  BY DEF TypeInv, StoreOK
<1>2. CASE ext \in Goods
  <2> DEFINE old == live[ext]
             price == IF old = None \/ "price" \in set THEN want.price ELSE old.offer.price
             stock == IF old = None \/ "stock" \in set THEN want.stock ELSE old.offer.stock
             new == [by |-> s, offer |-> [price |-> price, stock |-> stock]]
  <2>1. Shown(ext, s, want, set) = [live EXCEPT ![ext] = new]
    BY <1>1, <1>2 DEF Shown
  <2>2. old # None => old.offer \in Offer
    BY <1>1, <1>2 DEF Shop
  <2>3. price \in Prices /\ stock \in Stocks
    BY <2>2 DEF Offer
  <2> HIDE DEF price, stock
  <2>4. new \in Shop /\ new.by = s
    BY <2>3 DEF Shop, Offer
  <2> HIDE DEF new
  <2> QED BY <1>1, <1>2, <2>1, <2>4
<1>3. CASE ext = None
  <2>1. ext \notin Goods
    BY <1>3, ListingsAssumption
  <2>2. Shown(ext, s, want, set) = live
    BY <1>1, <2>1 DEF Shown
  <2> QED BY <1>1, <2>1, <2>2
<1> QED BY <1>2, <1>3

-----------------------------------------------------------------------------
(* Type correctness. *)

LEMMA TypeInit == Init => TypeInv
<1> SUFFICES ASSUME Init PROVE TypeInv
  OBVIOUS
<1>1. maps \in [Skus -> Mapping]
  <2> DEFINE first == CHOOSE s \in Skus : TRUE
             g == CHOOSE h \in Goods : TRUE
             row(t) == [status |-> IF t = first THEN "auto" ELSE "unmatched",
                        prod |-> IF t = first THEN g ELSE None,
                        enabled |-> TRUE, markup |-> None, fixed |-> None]
  <2>1. maps = [t \in Skus |-> row(t)]
    BY Zenon DEF Init
  <2>2. g \in Goods
    BY StartAssumption
  <2> HIDE DEF g, first
  <2>3. \A t \in Skus : row(t) \in Mapping
    BY <2>2 DEF Mapping, Statuses
  <2> HIDE DEF row
  <2> QED BY <2>1, <2>3
<1>3. item \in [Skus -> [active : BOOLEAN, stock : Stocks]]
  <2> DEFINE n == CHOOSE n \in Stocks : n > 0
  <2>1. n \in Stocks
    BY StartAssumption
  <2>2. item = [s \in Skus |-> [active |-> TRUE, stock |-> n]]
    BY DEF Init
  <2> HIDE DEF n
  <2> QED BY <2>1, <2>2
<1>4. StoreOK
  BY <1>1, <1>3 DEF Init, StoreOK
<1>5. run = [r \in Runners |-> Idle]
  BY DEF Init
<1>6. Idle \in Session
  BY IdleOK DEF SessionOK
<1> QED BY <1>4, <1>5, <1>6, IdleOK DEF TypeInv

\* The console and the matcher edit one mapping, and the store product of it
\* only to one that no other mapping has.
LEMMA ConsoleIs ==
  ASSUME TypeInv, Console
  PROVE  /\ maps' \in [Skus -> Mapping] /\ UNCHANGED <<item, fx, rows, live, run, astray>>
         /\ moved' \subseteq Skus
         /\ \/ UNCHANGED moved /\ \A t \in Skus : maps'[t].prod = maps[t].prod
            \/ \E s \in Skus, g \in Goods \cup {None} :
                  /\ maps'[s].prod = g
                  /\ \A t \in Skus \ {s} : maps'[t].prod = maps[t].prod
                  /\ g # None => g = maps[s].prod \/ Unclaimed(s, g)
                  /\ moved' = Move(s, g)
<1> DEFINE rest == UNCHANGED <<item, fx, rows, live, run, astray>>
<1>0. maps \in [Skus -> Mapping] /\ moved \subseteq Skus
  BY DEF TypeInv, StoreOK
<1>1. ASSUME NEW s \in Skus, NEW m \in Mapping, maps' = [maps EXCEPT ![s] = m]
      PROVE  /\ maps' \in [Skus -> Mapping] /\ maps'[s] = m
             /\ \A t \in Skus \ {s} : maps'[t].prod = maps[t].prod
  BY <1>0, <1>1
<1>2. ASSUME NEW s \in Skus, NEW g PROVE Move(s, g) \subseteq Skus
  BY <1>0 DEF Move
<1>3. ASSUME NEW s \in Skus, Reject(s)
      PROVE  /\ maps' \in [Skus -> Mapping] /\ rest /\ UNCHANGED moved
             /\ \A t \in Skus : maps'[t].prod = maps[t].prod
  <2> DEFINE m == [maps[s] EXCEPT !.status = "rejected"]
  <2>1. m \in Mapping /\ m.prod = maps[s].prod
    BY <1>0 DEF Mapping, Statuses
  <2>2. maps' = [maps EXCEPT ![s] = m]
    BY <1>3, Zenon DEF Reject
  <2> HIDE DEF m
  <2> QED BY <1>1, <1>3, <2>1, <2>2 DEF Reject
<1>4. ASSUME NEW s \in Skus, NEW g \in Goods \cup {None}, NEW status \in Statuses,
             maps' = [maps EXCEPT ![s].status = status, ![s].prod = g]
      PROVE  /\ maps' \in [Skus -> Mapping] /\ maps'[s].prod = g
             /\ \A t \in Skus \ {s} : maps'[t].prod = maps[t].prod
  <2> DEFINE m == [maps[s] EXCEPT !.status = status, !.prod = g]
  <2>1. m \in Mapping /\ m.prod = g
    BY <1>0 DEF Mapping
  <2>2. maps' = [maps EXCEPT ![s] = m]
    BY <1>4, Zenon
  <2> HIDE DEF m
  <2> QED BY <1>1, <2>1, <2>2
<1>5. ASSUME NEW s \in Skus, NEW g \in Goods, Approve(s, g)
      PROVE  /\ maps' \in [Skus -> Mapping] /\ rest /\ moved' = Move(s, g)
             /\ maps'[s].prod = g /\ \A t \in Skus \ {s} : maps'[t].prod = maps[t].prod
             /\ g = maps[s].prod \/ Unclaimed(s, g)
  <2>1. "approved" \in Statuses
    BY DEF Statuses
  <2> QED BY <1>4, <1>5, <2>1 DEF Approve
<1>6. ASSUME NEW s \in Skus, NEW g \in Goods \cup {None}, Rematch(s, g)
      PROVE  /\ maps' \in [Skus -> Mapping] /\ rest /\ moved' = Move(s, g)
             /\ maps'[s].prod = g /\ \A t \in Skus \ {s} : maps'[t].prod = maps[t].prod
             /\ g # None => g = maps[s].prod \/ Unclaimed(s, g)
  <2>1. PICK status \in Statuses : maps' = [maps EXCEPT ![s].status = status, ![s].prod = g]
    BY <1>6, Zenon DEF Rematch, Statuses
  <2> QED BY <1>4, <1>6, <2>1 DEF Rematch
<1>7. ASSUME NEW s \in Skus, NEW mk \in Markups \cup {None}, NEW fp \in Fixed \cup {None},
             NEW cm \in BOOLEAN, NEW cf \in BOOLEAN, NEW en \in BOOLEAN \cup {None},
             SetPricing(s, mk, cm, fp, cf, en)
      PROVE  /\ maps' \in [Skus -> Mapping] /\ rest /\ UNCHANGED moved
             /\ \A t \in Skus : maps'[t].prod = maps[t].prod
  <2> DEFINE old == maps[s]
             a == IF cm THEN None ELSE IF mk # None THEN mk ELSE old.markup
             b == IF cf THEN None ELSE IF fp # None THEN fp ELSE old.fixed
             c == IF en # None THEN en ELSE old.enabled
             m == [old EXCEPT !.markup = a, !.fixed = b, !.enabled = c]
  <2>1. a \in Markups \cup {None} /\ b \in Fixed \cup {None} /\ c \in BOOLEAN
    BY <1>0 DEF Mapping
  <2>2. maps' = [maps EXCEPT ![s] = m]
    BY <1>7, Zenon DEF SetPricing
  <2> HIDE DEF a, b, c
  <2>3. m \in Mapping /\ m.prod = maps[s].prod
    BY <1>0, <2>1 DEF Mapping
  <2> HIDE DEF m
  <2>4. rest /\ UNCHANGED moved
    BY <1>7, Zenon DEF SetPricing
  <2> QED BY <1>1, <2>2, <2>3, <2>4
<1>8. ASSUME NEW s \in Skus, NEW mk \in Markups \cup {None}, NEW fp \in Fixed \cup {None},
             NEW clear \in BOOLEAN, NEW pause \in BOOLEAN, NEW resume \in BOOLEAN,
             MapPrice(s, clear, mk, fp, pause, resume)
      PROVE  /\ maps' \in [Skus -> Mapping] /\ rest /\ UNCHANGED moved
             /\ \A t \in Skus : maps'[t].prod = maps[t].prod
  <2> DEFINE old == maps[s]
             kept(v) == IF clear THEN None ELSE v
             a == IF mk # None THEN mk ELSE kept(old.markup)
             b == IF fp # None THEN fp ELSE kept(old.fixed)
             c == (old.enabled /\ ~pause) \/ resume
             m == [old EXCEPT !.markup = a, !.fixed = b, !.enabled = c]
  <2>1. a \in Markups \cup {None} /\ b \in Fixed \cup {None} /\ c \in BOOLEAN
    BY <1>0 DEF Mapping
  <2>2. maps' = maps \/ maps' = [maps EXCEPT ![s] = m]
    BY <1>8, Zenon DEF MapPrice
  <2> HIDE DEF a, b, c
  <2>3. m \in Mapping /\ m.prod = maps[s].prod
    BY <1>0, <2>1 DEF Mapping
  <2> HIDE DEF m
  <2> QED BY <1>0, <1>1, <1>8, <2>2, <2>3 DEF MapPrice
<1> QED
  BY <1>0, <1>2, <1>3, <1>5, <1>6, <1>7, <1>8 DEF Console

\* The end of a session leaves it idle, and the mappings and offers alone.
LEMMA AbortIs ==
  ASSUME TypeInv, NEW r \in Runners, Abort(r)
  PROVE  /\ run' = [run EXCEPT ![r] = Idle] /\ UNCHANGED <<console, rows, live, moved>>
         /\ astray' \subseteq Skus
BY DEF Abort, TypeInv, StoreOK

LEMMA CommitIs ==
  ASSUME TypeInv, NEW r \in Runners, Commit(r)
  PROVE  /\ run' = [run EXCEPT ![r] = Idle] /\ UNCHANGED <<console, live, moved, astray>>
         /\ rows' = [s \in Skus |-> IF run[r].own[s] # None THEN run[r].own[s] ELSE rows[s]]
         /\ rows' \in [Skus -> OfferRow \cup {None}]
<1>1. run[r].own \in [Skus -> OfferRow \cup {None}] /\ rows \in [Skus -> OfferRow \cup {None}]
  BY DEF TypeInv, StoreOK, Session
<1> QED BY <1>1 DEF Commit

\* The steps by which a session ends with a rollback.
Ending(r) == FailToPrice(r) \/ LoseInsert(r) \/ BreakDeadlock(r)
             \/ \E s \in Skus : LoseOffer(r, s)

LEMMA EndingIs ==
  ASSUME NEW r, Ending(r)
  PROVE  Abort(r)
BY DEF Ending, FailToPrice, LoseInsert, BreakDeadlock, LoseOffer

\* Every step keeps the state well-formed.
LEMMA TypeStep == TypeInv /\ [Next]_vars => TypeInv'
<1> SUFFICES ASSUME TypeInv, [Next]_vars PROVE TypeInv'
  OBVIOUS
<1> USE DEF console
<1>0. ASSUME UNCHANGED vars PROVE TypeInv'
  BY <1>0 DEF vars, TypeInv, StoreOK
<1>1. ASSUME NEW r \in Runners, Start(r) PROVE TypeInv'
  <2>1. run' \in [Runners -> Session] /\ \A q \in Runners : SessionOK(run'[q])
    BY <1>1, StartIs, OneSession
  <2> QED BY <1>1, <2>1 DEF Start, TypeInv, StoreOK
<1>2. ASSUME NEW r \in Runners, Abort(r) PROVE TypeInv'
  <2>1. run' \in [Runners -> Session] /\ \A q \in Runners : SessionOK(run'[q])
    BY <1>2, AbortIs, IdleOK, OneSession
  <2> QED BY <1>2, <2>1, AbortIs DEF TypeInv, StoreOK
<1>3. ASSUME NEW r \in Runners, Commit(r) PROVE TypeInv'
  <2>1. run' \in [Runners -> Session] /\ \A q \in Runners : SessionOK(run'[q])
    BY <1>3, CommitIs, IdleOK, OneSession
  <2> QED BY <1>3, <2>1, CommitIs DEF TypeInv, StoreOK
<1>4. ASSUME NEW r \in Runners, Save(r) PROVE TypeInv'
  <2>1. run' \in [Runners -> Session] /\ \A q \in Runners : SessionOK(run'[q])
    BY <1>4, SaveIs, OneSession
  <2> QED BY <1>4, <2>1 DEF Save, TypeInv, StoreOK
<1>5. ASSUME NEW r \in Runners, NEW s \in Skus, Await(r, s) PROVE TypeInv'
  <2>1. run' \in [Runners -> Session] /\ \A q \in Runners : SessionOK(run'[q])
    BY <1>5, AwaitIs, OneSession
  <2> QED BY <1>5, <2>1 DEF Await, TypeInv, StoreOK
<1>6. ASSUME NEW r \in Runners, NEW s \in Skus, s \in run[r].todo, run[r].open,
             NEW loaded \in OfferRow, NEW ext \in Goods \cup {None}, NEW set,
             NEW want \in Offer, Call(r, s, loaded, ext, set, want)
      PROVE  TypeInv'
  <2>1. run' \in [Runners -> Session] /\ \A q \in Runners : SessionOK(run'[q])
    BY <1>6, CallIs, OneSession
  <2>2. live' \in [Goods -> Shop \cup {None}]
    BY <1>6, ShownIs DEF Call
  <2>3. astray' \subseteq Skus
    BY <1>6 DEF Call, Cross, TypeInv, StoreOK
  <2> QED BY <1>6, <2>1, <2>2, <2>3 DEF Call, TypeInv, StoreOK
<1>7. ASSUME NEW r \in Runners, NEW s \in Skus, Update(r, s) PROVE TypeInv'
  <2>1. CASE Done(r, s)
    <3>1. run' \in [Runners -> Session] /\ \A q \in Runners : SessionOK(run'[q])
      BY <1>7, <2>1, UpdateIs, DoneIs, OneSession
    <3> QED BY <2>1, <3>1 DEF Done, TypeInv, StoreOK
  <2>2. CASE \E want \in Offer, set \in SUBSET {"price", "stock"} :
                Call(r, s, rows[s], rows[s].ext, set, want)
    BY <1>6, <1>7, <2>2, UpdateIs
  <2> QED BY <1>7, <2>1, <2>2, UpdateIs
<1>8. ASSUME NEW r \in Runners, NEW s \in Skus, Create(r, s) PROVE TypeInv'
  BY <1>6, <1>8, CreateIs
<1>9. ASSUME Console PROVE TypeInv'
  BY <1>9, ConsoleIs DEF TypeInv, StoreOK
<1>10. ASSUME NEW s \in Skus, Pull(s) PROVE TypeInv'
  <2>1. PICK active \in BOOLEAN, stock \in Stocks :
           item' = [item EXCEPT ![s] = [active |-> active, stock |-> stock]]
    BY <1>10 DEF Pull
  <2>2. item' \in [Skus -> [active : BOOLEAN, stock : Stocks]]
    BY <2>1 DEF TypeInv, StoreOK
  <2> QED BY <1>10, <2>2 DEF Pull, TypeInv, StoreOK
<1>11. ASSUME LoseRate \/ RegainRate PROVE TypeInv'
  BY <1>11 DEF LoseRate, RegainRate, TypeInv, StoreOK
<1>12. ASSUME NEW r \in Runners, Step(r) PROVE TypeInv'
  BY <1>2, <1>3, <1>4, <1>5, <1>7, <1>8, <1>12, EndingIs DEF Step, Ending
<1> QED BY <1>0, <1>1, <1>9, <1>10, <1>11, <1>12 DEF Next

\* Whatever the console, the supplier and two runs do, the rows keep their
\* types, and a session that has ended has left nothing behind (session_scope).
THEOREM TypeCorrect == Spec => []TypeOK
<1>1. TypeInv => TypeOK
  BY DEF TypeInv, StoreOK, SessionOK, TypeOK
<1> QED BY <1>1, TypeInit, TypeStep, PTL DEF Spec

-----------------------------------------------------------------------------
(* Whose offer it is.  Whatever names a store product for s - the row, the   *)
(* plan that a run has read, its uncommitted row, the row in its hand - names *)
(* the product of the mapping, unless the mapping was moved since.           *)
OnProduct(s, g) == g = None \/ g = maps[s].prod \/ s \in moved

Faithful(c) ==
    /\ \A s \in Skus : c.plan[s] # None => OnProduct(s, c.plan[s].map.prod)
    /\ \A s \in Skus : c.own[s] # None => OnProduct(s, c.own[s].ext)
    /\ c.hand # None => OnProduct(c.hand.sku, c.hand.new.ext)

RowsFaithful == \A s \in Skus : rows[s] # None => OnProduct(s, rows[s].ext)

RightInv ==
    /\ RightOffer
    /\ RowsFaithful
    /\ \A r \in Runners : Faithful(run[r])

LEMMA IdleFaithful == Faithful(Idle)
BY DEF Faithful, Idle

\* A session changes to one that is faithful, and so does an offer with it.
LEMMA RightSession ==
  ASSUME TypeInv, RightInv, UNCHANGED <<maps, moved, rows>>, NEW r \in Runners, NEW c,
         run' = [run EXCEPT ![r] = c], Faithful(c), RightOffer'
  PROVE  RightInv'
<1>1. run \in [Runners -> Session]
  BY DEF TypeInv
<1>2. ASSUME NEW q \in Runners PROVE Faithful(run'[q])
  BY <1>1 DEF RightInv
<1> QED BY <1>2 DEF RightInv, RowsFaithful, Faithful, OnProduct

LEMMA SameOffers ==
  ASSUME RightInv, UNCHANGED <<maps, moved, live>>
  PROVE  RightOffer'
BY DEF RightInv, RightOffer

\* A call writes the offer of its product.
LEMMA RightCall ==
  ASSUME TypeInv, RightInv, NEW r \in Runners, NEW s \in Skus, s \in run[r].todo,
         run[r].open, NEW loaded \in OfferRow, NEW ext \in Goods \cup {None}, NEW set,
         NEW want \in Offer, Call(r, s, loaded, ext, set, want),
         OnProduct(s, loaded.ext), OnProduct(s, ext)
  PROVE  RightInv'
<1> DEFINE next == Called(r, s, loaded, ext, want)
<1>1. /\ run' = [run EXCEPT ![r] = next] /\ next.plan = run[r].plan
      /\ next.own = [run[r].own EXCEPT ![s] = Inserted(r, s, loaded, ext)]
      /\ next.hand = Taken(s, loaded, ext, want)
  BY CallIs
<1> HIDE DEF next
<1>2. Faithful(run[r]) /\ run[r] \in Session /\ run[r].own \in [Skus -> OfferRow \cup {None}]
  BY DEF RightInv, TypeInv, Session
<1>3. UNCHANGED <<maps, moved, rows>> /\ live' = Shown(ext, s, want, set)
  BY DEF Call, console
<1>4. /\ next.own[s] # None => OnProduct(s, next.own[s].ext)
      /\ \A t \in Skus \ {s} : next.own[t] = run[r].own[t]
  <2>1. CASE rows[s] # None
    BY <1>1, <1>2, <2>1 DEF Inserted, Faithful
  <2>2. CASE rows[s] = None
    <3>1. \E e \in {ext, loaded.ext} : Inserted(r, s, loaded, ext) = [loaded EXCEPT !.ext = e]
      BY <2>2, Zenon DEF Inserted
    <3>2. \A e : [loaded EXCEPT !.ext = e].ext = e
      BY DEF OfferRow
    <3>3. Inserted(r, s, loaded, ext).ext \in {ext, loaded.ext}
      BY <3>1, <3>2
    <3> QED BY <1>1, <1>2, <3>3
  <2> QED BY <2>1, <2>2
<1>5. next.hand.sku = s /\ next.hand.new.ext = ext
  <2> DEFINE new == [loaded EXCEPT !.ext = ext, !.price = want.price,
                                   !.stock = want.stock]
  <2>1. new.ext = ext
    BY DEF OfferRow
  <2>2. Taken(s, loaded, ext, want) = [sku |-> s, loaded |-> loaded, new |-> new]
    BY Zenon DEF Taken
  <2> HIDE DEF new
  <2> QED BY <1>1, <2>1, <2>2
<1>6. Faithful(next)
  BY <1>1, <1>2, <1>4, <1>5 DEF Faithful
<1>7. RightOffer'
  <2> SUFFICES ASSUME NEW g \in Goods, live'[g] # None
               PROVE  maps[live'[g].by].prod = g \/ live'[g].by \in moved
    BY <1>3 DEF RightOffer
  <2>1. CASE g = ext
    <3>1. live'[g].by = s
      BY <1>3, <2>1, ShownIs
    <3>2. g # None
      BY ListingsAssumption
    <3> QED BY <2>1, <3>1, <3>2 DEF OnProduct
  <2>2. CASE g # ext
    <3>1. live'[g] = live[g]
      BY <1>3, <2>2, ShownIs
    <3> QED BY <3>1 DEF RightInv, RightOffer
  <2> QED BY <2>1, <2>2
<1> QED BY <1>1, <1>3, <1>6, <1>7, RightSession

\* A mapping is edited: whatever named another product for it, was moved.
LEMMA RightConsole ==
  ASSUME TypeInv, RightInv, Console
  PROVE  RightInv'
<1>0. UNCHANGED <<rows, live, run>> /\ live \in [Goods -> Shop \cup {None}]
  BY ConsoleIs DEF TypeInv, StoreOK
<1>1. CASE UNCHANGED moved /\ \A t \in Skus : maps'[t].prod = maps[t].prod
  <2>1. \A s \in Skus : \A g : OnProduct(s, g) <=> OnProduct(s, g)'
    BY <1>1 DEF OnProduct
  <2>2. \A g \in Goods : live[g] # None => live[g].by \in Skus
    BY <1>0 DEF Shop
  <2>3. RightOffer'
    BY <1>0, <1>1, <2>2 DEF RightInv, RightOffer
  <2>4. ASSUME NEW r \in Runners PROVE Faithful(run[r])'
    <3>1. run[r].hand # None => run[r].hand.sku \in Skus
      BY DEF TypeInv, Session, InHand
    <3> QED BY <1>0, <1>1, <3>1 DEF RightInv, Faithful, OnProduct
  <2> QED BY <1>0, <1>1, <2>3, <2>4 DEF RightInv, RowsFaithful, OnProduct
<1>2. CASE \E s \in Skus, g \in Goods \cup {None} :
              /\ maps'[s].prod = g
              /\ \A t \in Skus \ {s} : maps'[t].prod = maps[t].prod
              /\ g # None => g = maps[s].prod \/ Unclaimed(s, g)
              /\ moved' = Move(s, g)
  <2>1. PICK s \in Skus, g \in Goods \cup {None} :
           /\ maps'[s].prod = g
           /\ \A t \in Skus \ {s} : maps'[t].prod = maps[t].prod
           /\ moved' = Move(s, g)
    BY <1>2
  <2>2. moved \subseteq moved'
    BY <2>1 DEF Move
  <2>3. ASSUME NEW t \in Skus, NEW h, OnProduct(t, h),
               t # s \/ maps'[s].prod = maps[s].prod \/ s \in moved'
        PROVE  h = None \/ h = maps'[t].prod \/ t \in moved'
    BY <2>1, <2>2, <2>3 DEF OnProduct
  <2>4. CASE maps'[s].prod = maps[s].prod \/ s \in moved'
    <3>1. \A t \in Skus : \A h : OnProduct(t, h) => h = None \/ h = maps'[t].prod \/ t \in moved'
      BY <2>3, <2>4
    <3>2. RightOffer'
      <4> SUFFICES ASSUME NEW h \in Goods, live[h] # None
                   PROVE  maps'[live[h].by].prod = h \/ live[h].by \in moved'
        BY <1>0 DEF RightOffer
      <4>1. live[h].by \in Skus
        BY <1>0 DEF Shop
      <4>2. OnProduct(live[h].by, h)
        BY DEF RightInv, RightOffer, OnProduct
      <4> QED BY <3>1, <4>1, <4>2, ListingsAssumption
    <3>3. ASSUME NEW r \in Runners PROVE Faithful(run[r])'
      <4>1. run[r].hand # None => run[r].hand.sku \in Skus
        BY DEF TypeInv, Session, InHand
      <4>2. Faithful(run[r])
        BY DEF RightInv
      <4> QED BY <1>0, <3>1, <4>1, <4>2 DEF Faithful, OnProduct
    <3>4. RowsFaithful'
      BY <1>0, <3>1 DEF RightInv, RowsFaithful, OnProduct
    <3> QED BY <1>0, <3>2, <3>3, <3>4 DEF RightInv
  <2>5. CASE maps'[s].prod # maps[s].prod /\ s \notin moved'
    <3>1. /\ rows[s] = None /\ \A r \in Runners : run[r].plan[s] = None
          /\ \A h \in Goods : live[h] # None => live[h].by # s
      BY <2>1, <2>5 DEF Move
    <3>2. ASSUME NEW r \in Runners
          PROVE  /\ run[r].own[s] = None
                 /\ run[r].hand # None => run[r].hand.sku \in Skus \ {s}
      <4>1. SessionOK(run[r])
        BY DEF TypeInv
      <4>2. run[r].hand # None => run[r].hand.sku \in Skus
        BY DEF TypeInv, Session, InHand
      <4> QED BY <3>1, <4>1, <4>2 DEF SessionOK
    <3>3. \A t \in Skus \ {s} : \A h : OnProduct(t, h) => h = None \/ h = maps'[t].prod \/ t \in moved'
      BY <2>3
    <3>4. RightOffer'
      <4> SUFFICES ASSUME NEW h \in Goods, live[h] # None
                   PROVE  maps'[live[h].by].prod = h \/ live[h].by \in moved'
        BY <1>0 DEF RightOffer
      <4>1. live[h].by \in Skus \ {s}
        BY <1>0, <3>1 DEF Shop
      <4>2. OnProduct(live[h].by, h)
        BY DEF RightInv, RightOffer, OnProduct
      <4> QED BY <3>3, <4>1, <4>2, ListingsAssumption
    <3>5. ASSUME NEW r \in Runners PROVE Faithful(run[r])'
      <4>1. Faithful(run[r])
        BY DEF RightInv
      <4> QED BY <1>0, <3>1, <3>2, <3>3, <4>1 DEF Faithful, OnProduct
    <3>6. RowsFaithful'
      BY <1>0, <3>1, <3>3 DEF RightInv, RowsFaithful, OnProduct
    <3> QED BY <1>0, <3>4, <3>5, <3>6 DEF RightInv
  <2> QED BY <2>4, <2>5
<1> QED BY <1>1, <1>2, ConsoleIs

\* Every step keeps offers with the product of their mapping.
LEMMA RightStep == TypeInv /\ RightInv /\ [Next]_vars => RightInv'
<1> SUFFICES ASSUME TypeInv, RightInv, [Next]_vars PROVE RightInv'
  OBVIOUS
<1> USE DEF console
<1>0. ASSUME UNCHANGED <<maps, moved, rows, live, run>> PROVE RightInv'
  BY <1>0 DEF RightInv, RightOffer, RowsFaithful, Faithful, OnProduct
<1>1. ASSUME NEW r \in Runners, Start(r) PROVE RightInv'
  <2>1. PICK c : /\ run' = [run EXCEPT ![r] = c]
                 /\ c.hand = None /\ \A s \in Skus : c.own[s] = None
                 /\ \A s \in Skus : c.plan[s] # None => c.plan[s].map = maps[s]
    BY <1>1, StartIs
  <2>2. Faithful(c)
    BY <2>1 DEF Faithful, OnProduct
  <2> QED BY <1>1, <2>1, <2>2, SameOffers, RightSession DEF Start
<1>2. ASSUME NEW r \in Runners, Abort(r) PROVE RightInv'
  BY <1>2, AbortIs, IdleFaithful, SameOffers, RightSession
<1>3. ASSUME NEW r \in Runners, Commit(r) PROVE RightInv'
  <2>1. /\ run' = [run EXCEPT ![r] = Idle] /\ UNCHANGED <<maps, moved, live>>
        /\ rows' = [s \in Skus |-> IF run[r].own[s] # None THEN run[r].own[s] ELSE rows[s]]
    BY <1>3, CommitIs
  <2>2. RowsFaithful'
    BY <2>1 DEF RightInv, RowsFaithful, Faithful, OnProduct
  <2>3. ASSUME NEW q \in Runners PROVE Faithful(run'[q])
    BY <2>1, IdleFaithful DEF RightInv, TypeInv
  <2>4. \A q \in Runners : Faithful(run[q])'
    BY <2>1, <2>3 DEF Faithful, OnProduct
  <2> QED BY <2>1, <2>2, <2>4, SameOffers DEF RightInv
<1>4. ASSUME NEW r \in Runners, Save(r) PROVE RightInv'
  <2> DEFINE s == run[r].hand.sku
             row == Written(rows[s], run[r].hand)
             next == Saved(r)
  <2>1. /\ run' = [run EXCEPT ![r] = next] /\ row.ext = run[r].hand.new.ext
        /\ next.plan = run[r].plan /\ next.hand = None
        /\ next.own = [run[r].own EXCEPT ![s] = row]
    BY <1>4, SaveIs
  <2>2. run[r].hand # None /\ UNCHANGED <<maps, moved, rows, live>>
    BY <1>4 DEF Save
  <2> HIDE DEF next, row
  <2>3. Faithful(run[r]) /\ run[r].own \in [Skus -> OfferRow \cup {None}]
    BY DEF RightInv, TypeInv, Session
  <2>4. Faithful(next)
    BY <2>1, <2>2, <2>3 DEF Faithful
  <2> QED BY <2>1, <2>2, <2>4, SameOffers, RightSession
<1>5. ASSUME NEW r \in Runners, NEW s \in Skus, Await(r, s) \/ Done(r, s) PROVE RightInv'
  <2>1. PICK c : /\ run' = [run EXCEPT ![r] = c] /\ c.plan = run[r].plan
                 /\ c.own = run[r].own /\ c.hand = run[r].hand
    <3>1. run[r] \in Session
      BY DEF TypeInv
    <3>2. CASE Await(r, s)
      <4> DEFINE c == [run[r] EXCEPT !.wait = s]
      <4>1. run' = [run EXCEPT ![r] = c]
        BY <3>2, AwaitIs
      <4>2. c.plan = run[r].plan /\ c.own = run[r].own /\ c.hand = run[r].hand
        BY <3>1 DEF Session
      <4> QED BY <4>1, <4>2, Zenon
    <3>3. CASE Done(r, s)
      <4> DEFINE c == [run[r] EXCEPT !.todo = @ \ {s}]
      <4>1. run' = [run EXCEPT ![r] = c]
        BY <3>3, DoneIs
      <4>2. c.plan = run[r].plan /\ c.own = run[r].own /\ c.hand = run[r].hand
        BY <3>1 DEF Session
      <4> QED BY <4>1, <4>2, Zenon
    <3> QED BY <1>5, <3>2, <3>3
  <2>2. UNCHANGED <<maps, moved, rows, live>>
    BY <1>5 DEF Await, Done
  <2>3. Faithful(c)
    BY <2>1 DEF RightInv, Faithful
  <2> QED BY <2>1, <2>2, <2>3, SameOffers, RightSession
<1>6. ASSUME NEW r \in Runners, NEW s \in Skus, Update(r, s) PROVE RightInv'
  <2>1. OnProduct(s, rows[s].ext)
    BY <1>6, UpdateIs DEF RightInv, RowsFaithful
  <2> QED BY <1>5, <1>6, <2>1, UpdateIs, RightCall
<1>7. ASSUME NEW r \in Runners, NEW s \in Skus, Create(r, s) PROVE RightInv'
  <2>1. OnProduct(s, Target(r, s)) /\ OnProduct(s, Fresh(r, s).ext)
    BY <1>7, CreateIs DEF RightInv, Faithful, Target, Fresh, OnProduct
  <2> QED BY <1>7, <2>1, CreateIs, RightCall
<1>8. ASSUME NEW r \in Runners, Step(r) PROVE RightInv'
  BY <1>2, <1>3, <1>4, <1>5, <1>6, <1>7, <1>8, EndingIs DEF Step, Ending
<1>9. ASSUME (\E s \in Skus : Pull(s)) \/ LoseRate \/ RegainRate PROVE RightInv'
  BY <1>0, <1>9 DEF Pull, LoseRate, RegainRate
<1>10. UNCHANGED vars => UNCHANGED <<maps, moved, rows, live, run>>
  BY DEF vars
<1> QED BY <1>0, <1>1, <1>8, <1>9, <1>10, RightConsole DEF Next

\* Prices and stock stay attached to the right offer: the offer that a
\* product's runs wrote stands on the store product of its mapping, unless the
\* mapping was moved after a run had read it (_offer_row, _create, _update).
THEOREM OffersStayRight == Spec => []RightOffer
<1>1. Init => RightInv
  <2> SUFFICES ASSUME Init PROVE RightInv
    OBVIOUS
  <2>1. run = [r \in Runners |-> Idle] /\ rows = [s \in Skus |-> None]
        /\ live = [g \in Goods |-> None]
    BY DEF Init
  <2> QED BY <2>1, IdleFaithful DEF RightInv, RightOffer, RowsFaithful
<1>2. RightInv => RightOffer
  BY DEF RightInv
<1> QED BY <1>1, <1>2, TypeInit, TypeStep, RightStep, PTL DEF Spec

-----------------------------------------------------------------------------
(* Who writes an offer.  No two rows ever hold the id of one offer, committed *)
(* or not: an id is given to a row only when no other row has it, a row that  *)
(* has one keeps it, and two sessions never hold the same row.                *)
Apart(a, b) == a # None /\ b # None /\ a.ext # None => a.ext # b.ext

MapsApart ==
    \A s, t \in Skus : s # t /\ maps[s].prod # None => maps[s].prod # maps[t].prod

PlansApart(c) ==
    \A s, t \in Skus : s # t /\ c.plan[s] # None /\ c.plan[t] # None =>
       c.plan[s].map.prod # c.plan[t].map.prod

RowsApart == \A s, t \in Skus : s # t => Apart(rows[s], rows[t])

OwnApart(c) == \A s, t \in Skus : s # t => Apart(c.own[s], rows[t])

EachApart(c, d) == \A s, t \in Skus : s # t => Apart(c.own[s], d.own[t])

Locks(c, d) == \A s \in Skus : c.own[s] = None \/ d.own[s] = None

\* A row that was inserted has no id yet or that of the planned product; one
\* that was loaded keeps the id it came with.
Carries(c) ==
    /\ \A s \in Skus : c.own[s] # None =>
          IF rows[s] # None THEN c.own[s].ext = rows[s].ext
          ELSE c.own[s].ext \in {None, c.plan[s].map.prod}
    /\ c.hand # None =>
          IF rows[c.hand.sku] # None
          THEN /\ c.hand.loaded.ext = rows[c.hand.sku].ext
               /\ c.hand.new.ext = rows[c.hand.sku].ext
          ELSE /\ c.own[c.hand.sku] # None
               /\ c.hand.loaded.ext = None
               /\ c.hand.new.ext = c.plan[c.hand.sku].map.prod

Alone(c) == PlansApart(c) /\ OwnApart(c) /\ EachApart(c, c) /\ Carries(c)

WriterInv ==
    /\ MapsApart /\ RowsApart
    /\ \A r \in Runners : Alone(run[r])
    /\ \A r, q \in Runners : r # q => EachApart(run[r], run[q]) /\ Locks(run[r], run[q])

LEMMA OtherIs ==
  ASSUME NEW r \in Runners
  PROVE  /\ Other(r) \in Runners /\ Other(r) # r
         /\ \A q \in Runners : q # r => q = Other(r)
BY ListingsAssumption DEF Other, Runners

LEMMA IdleAlone == Alone(Idle)
BY DEF Alone, PlansApart, OwnApart, EachApart, Carries, Apart, Idle

\* One session changes, and gets on with itself and with the other.
LEMMA WriterSession ==
  ASSUME TypeInv, WriterInv, UNCHANGED <<maps, rows>>, NEW r \in Runners, NEW c,
         run' = [run EXCEPT ![r] = c], Alone(c),
         EachApart(c, run[Other(r)]), Locks(c, run[Other(r)])
  PROVE  WriterInv'
<1> DEFINE o == Other(r)
<1>1. run \in [Runners -> Session] /\ o \in Runners /\ \A q \in Runners : q # r => q = o
  BY OtherIs DEF TypeInv
<1>2. ASSUME NEW q \in Runners PROVE Alone(run'[q])
  BY <1>1 DEF WriterInv
<1>3. EachApart(run[o], c) /\ Locks(run[o], c)
  BY DEF EachApart, Locks, Apart
<1> HIDE DEF o
<1>4. ASSUME NEW q \in Runners, NEW p \in Runners, q # p
      PROVE  EachApart(run'[q], run'[p]) /\ Locks(run'[q], run'[p])
  <2>1. CASE q = r
    BY <1>1, <1>4, <2>1 DEF o
  <2>2. CASE p = r
    BY <1>1, <1>3, <1>4, <2>2 DEF o
  <2>3. CASE q # r /\ p # r
    BY <1>1, <1>4, <2>3
  <2> QED BY <2>1, <2>2, <2>3
<1>5. \A q \in Runners : Alone(run[q])'
  BY <1>2 DEF Alone, PlansApart, OwnApart, EachApart, Carries
<1>6. MapsApart' /\ RowsApart'
  BY DEF WriterInv, MapsApart, RowsApart
<1>7. \A q, p \in Runners : q # p => EachApart(run[q], run[p])' /\ Locks(run[q], run[p])'
  BY <1>4 DEF EachApart, Locks
<1> QED BY <1>5, <1>6, <1>7 DEF WriterInv

\* A session whose plan and rows stay, and that has nothing new in its hand.
LEMMA WriterSame ==
  ASSUME TypeInv, WriterInv, UNCHANGED <<maps, rows>>, NEW r \in Runners, NEW c,
         run' = [run EXCEPT ![r] = c], c.plan = run[r].plan, c.own = run[r].own,
         c.hand # None => c.hand = run[r].hand \/
            /\ rows[c.hand.sku] # None
            /\ c.hand.loaded.ext = rows[c.hand.sku].ext
            /\ c.hand.new.ext = rows[c.hand.sku].ext
  PROVE  WriterInv'
<1>1. Alone(run[r]) /\ Other(r) \in Runners /\ Other(r) # r
  BY OtherIs DEF WriterInv
<1>2. EachApart(run[r], run[Other(r)]) /\ Locks(run[r], run[Other(r)])
  BY <1>1 DEF WriterInv
<1>3. Alone(c)
  <2>1. PlansApart(c) /\ OwnApart(c) /\ EachApart(c, c)
    BY <1>1 DEF Alone, PlansApart, OwnApart, EachApart
  <2>2. Carries(c)
    BY <1>1 DEF Alone, Carries
  <2> QED BY <2>1, <2>2 DEF Alone
<1>4. EachApart(c, run[Other(r)]) /\ Locks(c, run[Other(r)])
  BY <1>2 DEF EachApart, Locks
<1> QED BY <1>3, <1>4, WriterSession

\* A session that owns no row.
LEMMA WriterEmpty ==
  ASSUME TypeInv, WriterInv, UNCHANGED <<maps, rows>>, NEW r \in Runners, NEW c,
         run' = [run EXCEPT ![r] = c], PlansApart(c), c.hand = None,
         \A s \in Skus : c.own[s] = None
  PROVE  WriterInv'
<1>1. Alone(c)
  BY DEF Alone, OwnApart, EachApart, Carries, Apart
<1>2. EachApart(c, run[Other(r)]) /\ Locks(c, run[Other(r)])
  BY DEF EachApart, Locks, Apart
<1> QED BY <1>1, <1>2, WriterSession

\* A session writes the row of s under the lock, with no id, with the id the
\* row had, or with that of the planned product when no other row has it.
LEMMA WriterOwn ==
  ASSUME TypeInv, WriterInv, UNCHANGED <<maps, rows>>, NEW r \in Runners, NEW c,
         run' = [run EXCEPT ![r] = c], NEW s \in Skus, NEW row \in OfferRow,
         c.plan = run[r].plan, c.own = [run[r].own EXCEPT ![s] = row],
         run[r].plan[s] # None, ~Locked(r, s),
         IF rows[s] # None THEN row.ext = rows[s].ext
         ELSE row.ext = None \/ /\ row.ext = run[r].plan[s].map.prod
                                /\ Free(r, s, row.ext) /\ ~HeldByOther(r, s, row.ext),
         c.hand # None => /\ c.hand.sku = s /\ rows[s] = None
                          /\ c.hand.loaded.ext = None
                          /\ c.hand.new.ext = run[r].plan[s].map.prod
  PROVE  WriterInv'
<1> DEFINE d == run[Other(r)]
           old == run[r]
<1>1. /\ Alone(old) /\ RowsApart /\ Other(r) \in Runners /\ Other(r) # r
      /\ Alone(d) /\ SessionOK(old)
  BY OtherIs DEF WriterInv, TypeInv
<1>2. EachApart(old, d) /\ Locks(old, d) /\ EachApart(d, old) /\ d.own[s] = None
  BY <1>1 DEF WriterInv, Locked
<1>3. /\ c.own[s] = row /\ row # None
      /\ \A t \in Skus \ {s} : c.own[t] = old.own[t]
  <2>1. old.own \in [Skus -> OfferRow \cup {None}]
    BY DEF TypeInv, Session
  <2> QED BY <2>1, NoneAssumption
<1> HIDE DEF d, old
<1>4. ASSUME NEW t \in Skus \ {s}
      PROVE  Apart(row, rows[t]) /\ Apart(row, d.own[t]) /\ Apart(row, old.own[t])
  <2>1. CASE rows[s] # None
    <3>1. Apart(rows[s], rows[t]) /\ Apart(d.own[t], rows[s]) /\ Apart(old.own[t], rows[s])
      BY <1>1 DEF RowsApart, Alone, OwnApart
    <3> QED BY <2>1, <3>1 DEF Apart
  <2>2. CASE rows[s] = None /\ row.ext # None
    <3>1. /\ row.ext = old.plan[s].map.prod /\ old.plan[s] # None
          /\ rows[t] # None => rows[t].ext # row.ext
          /\ d.own[t] # None => d.own[t].ext # row.ext
      BY <2>2 DEF Free, HeldByOther, d, old
    <3>2. ASSUME old.own[t] # None PROVE old.own[t].ext # row.ext
      <4>1. CASE rows[t] # None
        BY <1>1, <3>1, <3>2, <4>1 DEF Alone, Carries
      <4>2. CASE rows[t] = None
        <5>1. old.plan[t] # None
          BY <1>1, <3>2 DEF SessionOK
        <5>2. old.plan[t].map.prod # old.plan[s].map.prod
          BY <1>1, <3>1, <5>1 DEF Alone, PlansApart
        <5>3. old.own[t].ext \in {None, old.plan[t].map.prod}
          BY <1>1, <3>2, <4>2 DEF Alone, Carries
        <5> QED BY <2>2, <3>1, <5>2, <5>3
      <4> QED BY <4>1, <4>2
    <3> QED BY <3>1, <3>2 DEF Apart
  <2>3. CASE row.ext = None
    BY <2>3 DEF Apart
  <2> QED BY <2>1, <2>2, <2>3
<1>5. ASSUME NEW t \in Skus, NEW u \in Skus, t # u
      PROVE  Apart(c.own[t], rows[u]) /\ Apart(c.own[t], d.own[u]) /\ Apart(c.own[t], c.own[u])
  <2>1. CASE t = s
    BY <1>3, <1>4, <1>5, <2>1
  <2>2. CASE u = s
    <3>1. Apart(row, old.own[t]) /\ c.own[t] = old.own[t] /\ c.own[u] = row
      BY <1>3, <1>4, <1>5, <2>2
    <3>2. Apart(old.own[t], rows[u]) /\ Apart(old.own[t], d.own[u])
      BY <1>1, <1>2, <1>5 DEF Alone, OwnApart, EachApart
    <3> QED BY <3>1, <3>2 DEF Apart
  <2>3. CASE t # s /\ u # s
    BY <1>1, <1>2, <1>3, <1>5, <2>3 DEF Alone, OwnApart, EachApart
  <2> QED BY <2>1, <2>2, <2>3
<1>6. Carries(c)
  <2>1. \A t \in Skus : c.own[t] # None =>
           IF rows[t] # None THEN c.own[t].ext = rows[t].ext
           ELSE c.own[t].ext \in {None, c.plan[t].map.prod}
    BY <1>1, <1>3 DEF Alone, Carries, old
  <2> QED BY <1>3, <2>1 DEF Carries
<1>7. Alone(c)
  <2>1. PlansApart(c)
    BY <1>1 DEF Alone, PlansApart, old
  <2> QED BY <1>5, <1>6, <2>1 DEF Alone, OwnApart, EachApart
<1>8. EachApart(c, d) /\ Locks(c, d)
  BY <1>2, <1>3, <1>5 DEF EachApart, Locks
<1> QED BY <1>7, <1>8, WriterSession DEF d

\* A run that ends well publishes its rows.
LEMMA WriterCommit ==
  ASSUME TypeInv, WriterInv, NEW r \in Runners, Commit(r)
  PROVE  WriterInv'
<1> DEFINE c == run[r]
           o == Other(r)
<1>1. /\ run' = [run EXCEPT ![r] = Idle] /\ UNCHANGED maps
      /\ rows' = [s \in Skus |-> IF c.own[s] # None THEN c.own[s] ELSE rows[s]]
  BY CommitIs DEF console
<1>2. /\ Alone(c) /\ RowsApart /\ o \in Runners /\ o # r /\ Alone(run[o])
      /\ EachApart(run[o], c) /\ Locks(run[o], c) /\ MapsApart
      /\ \A q \in Runners : q # r => q = o
  BY OtherIs DEF WriterInv
<1>3. /\ run'[r] = Idle /\ run'[o] = run[o]
  BY <1>1, <1>2 DEF TypeInv
<1> DEFINE d == run[o]
<1>4. RowsApart'
  <2> SUFFICES ASSUME NEW s \in Skus, NEW t \in Skus, s # t PROVE Apart(rows'[s], rows'[t])
    BY DEF RowsApart, Apart
  <2>1. /\ Apart(rows[s], rows[t]) /\ Apart(c.own[s], c.own[t])
        /\ Apart(c.own[s], rows[t]) /\ Apart(c.own[t], rows[s])
    BY <1>2 DEF RowsApart, Alone, OwnApart, EachApart
  <2> QED BY <1>1, <2>1 DEF Apart
<1>5. \A s, t \in Skus : s # t => Apart(d.own[s], rows'[t])
  <2> SUFFICES ASSUME NEW s \in Skus, NEW t \in Skus, s # t PROVE Apart(d.own[s], rows'[t])
    OBVIOUS
  <2>1. Apart(d.own[s], rows[t]) /\ Apart(d.own[s], c.own[t])
    BY <1>2 DEF Alone, OwnApart, EachApart
  <2> QED BY <1>1, <2>1
<1>6. \A s \in Skus : d.own[s] # None => rows'[s] = rows[s]
  BY <1>1, <1>2 DEF Locks
<1>7. \A s \in Skus : rows[s] # None => rows'[s] # None /\ rows'[s].ext = rows[s].ext
  BY <1>1, <1>2 DEF Alone, Carries
<1>8. d.hand # None => d.hand.sku \in Skus
  BY <1>2 DEF TypeInv, Session, InHand
<1> HIDE DEF d, c
<1>9. Carries(d)
  BY <1>2 DEF Alone, d
<1>10. /\ \A s \in Skus : d.own[s] # None =>
             IF rows'[s] # None THEN d.own[s].ext = rows'[s].ext
             ELSE d.own[s].ext \in {None, d.plan[s].map.prod}
       /\ d.hand # None =>
             IF rows'[d.hand.sku] # None
             THEN /\ d.hand.loaded.ext = rows'[d.hand.sku].ext
                  /\ d.hand.new.ext = rows'[d.hand.sku].ext
             ELSE /\ d.own[d.hand.sku] # None
                  /\ d.hand.loaded.ext = None
                  /\ d.hand.new.ext = d.plan[d.hand.sku].map.prod
  <2>1. \A s \in Skus : d.own[s] # None =>
           IF rows'[s] # None THEN d.own[s].ext = rows'[s].ext
           ELSE d.own[s].ext \in {None, d.plan[s].map.prod}
    BY <1>6, <1>9 DEF Carries
  <2>2. ASSUME d.hand # None
        PROVE  IF rows'[d.hand.sku] # None
               THEN /\ d.hand.loaded.ext = rows'[d.hand.sku].ext
                    /\ d.hand.new.ext = rows'[d.hand.sku].ext
               ELSE /\ d.own[d.hand.sku] # None
                    /\ d.hand.loaded.ext = None
                    /\ d.hand.new.ext = d.plan[d.hand.sku].map.prod
    <3>1. CASE rows[d.hand.sku] # None
      BY <1>7, <1>8, <1>9, <2>2, <3>1 DEF Carries
    <3>2. CASE rows[d.hand.sku] = None
      BY <1>6, <1>8, <1>9, <2>2, <3>2 DEF Carries
    <3> QED BY <3>1, <3>2
  <2> QED BY <2>1, <2>2
<1>11. Alone(run[o])'
  BY <1>2, <1>3, <1>5, <1>10 DEF Alone, PlansApart, OwnApart, EachApart, Carries, d
<1>12. Alone(run[r])'
  BY <1>3 DEF Alone, PlansApart, OwnApart, EachApart, Carries, Apart, Idle
<1>13. MapsApart'
  BY <1>1, <1>2 DEF MapsApart
<1>14. EachApart(run[r], run[o])' /\ EachApart(run[o], run[r])'
       /\ Locks(run[r], run[o])' /\ Locks(run[o], run[r])'
  BY <1>3 DEF EachApart, Locks, Apart, Idle
<1>15. \A q \in Runners : Alone(run[q])'
  BY <1>2, <1>11, <1>12
<1>16. \A q, p \in Runners : q # p => EachApart(run[q], run[p])' /\ Locks(run[q], run[p])'
  BY <1>2, <1>14
<1> QED BY <1>4, <1>13, <1>15, <1>16 DEF WriterInv

\* An insert, and the call after it: the id is nobody else's.
LEMMA WriterCreate ==
  ASSUME TypeInv, WriterInv, NEW r \in Runners, NEW s \in Skus, Create(r, s)
  PROVE  WriterInv'
<1> DEFINE g == Target(r, s)
           loaded == Fresh(r, s)
           row == Inserted(r, s, loaded, g)
<1>1. /\ run[r].open /\ s \in run[r].todo /\ rows[s] = None /\ run[r].plan[s] # None
      /\ loaded \in OfferRow /\ g \in Goods /\ run[r].hand = None
  BY CreateIs, ReadyIs DEF Create
<1>2. PICK want \in Offer : Call(r, s, loaded, g, {"price", "stock"}, want)
  BY CreateIs
<1> DEFINE next == Called(r, s, loaded, g, want)
<1>3. /\ run' = [run EXCEPT ![r] = next] /\ next.plan = run[r].plan
      /\ next.own = [run[r].own EXCEPT ![s] = row]
      /\ next.hand = Taken(s, loaded, g, want) /\ UNCHANGED <<maps, rows>>
  <2>1. UNCHANGED <<maps, rows>>
    BY <1>2 DEF Call, console
  <2> QED BY <1>1, <1>2, <2>1, CallIs
<1>4. row.ext = NewExt(r, s) /\ row \in OfferRow /\ NewExt(r, s) \in {None, g}
  <2>1. NewExt(r, s) = IF live[g] # None THEN g ELSE None
    BY <1>1 DEF NewExt
  <2>2. loaded.ext = None
    BY DEF Fresh
  <2>3. row = [loaded EXCEPT !.ext = IF live[g] # None THEN g ELSE loaded.ext]
    BY <1>1, Zenon DEF Inserted
  <2>4. row = [loaded EXCEPT !.ext = NewExt(r, s)]
    BY <2>1, <2>2, <2>3
  <2> HIDE DEF row, loaded
  <2>5. NewExt(r, s) \in Goods \cup {None}
    BY <1>1, <2>1
  <2> QED BY <1>1, <2>1, <2>4, <2>5 DEF OfferRow
<1>5. /\ next.hand.sku = s /\ next.hand.loaded.ext = None /\ next.hand.new.ext = g
  <2> DEFINE new == [loaded EXCEPT !.ext = g, !.price = want.price, !.stock = want.stock]
  <2>1. next.hand = [sku |-> s, loaded |-> loaded, new |-> new]
    BY <1>3, Zenon DEF Taken
  <2>2. loaded.ext = None
    BY DEF Fresh
  <2> HIDE DEF loaded
  <2>3. new.ext = g
    BY <1>1 DEF OfferRow
  <2> HIDE DEF new, next
  <2> QED BY <2>1, <2>2, <2>3
<1>6. ~Locked(r, s) /\ ~HeldByOther(r, s, NewExt(r, s)) /\ Free(r, s, NewExt(r, s))
  BY DEF Create, MustWait
<1>7. g = run[r].plan[s].map.prod
  BY DEF Target
<1> HIDE DEF g, loaded, row, next
<1>8. IF rows[s] # None THEN row.ext = rows[s].ext
      ELSE row.ext = None \/ /\ row.ext = run[r].plan[s].map.prod
                             /\ Free(r, s, row.ext) /\ ~HeldByOther(r, s, row.ext)
  BY <1>1, <1>4, <1>6, <1>7
<1>9. next.hand # None =>
      /\ next.hand.sku = s /\ rows[s] = None /\ next.hand.loaded.ext = None
      /\ next.hand.new.ext = run[r].plan[s].map.prod
  BY <1>1, <1>5, <1>7
<1> QED BY <1>1, <1>3, <1>4, <1>6, <1>8, <1>9, WriterOwn

\* _remember: the id of the offer that was created is nobody else's.
LEMMA WriterSave ==
  ASSUME TypeInv, WriterInv, NEW r \in Runners, Save(r)
  PROVE  WriterInv'
<1> DEFINE hand == run[r].hand
           s == hand.sku
           row == Written(rows[s], hand)
           next == Saved(r)
<1>1. /\ run' = [run EXCEPT ![r] = next] /\ hand \in InHand /\ hand # None
      /\ row \in OfferRow /\ row.ext = hand.new.ext /\ next.plan = run[r].plan
      /\ next.own = [run[r].own EXCEPT ![s] = row] /\ next.hand = None
      /\ UNCHANGED <<maps, rows>>
  <2>1. hand # None /\ UNCHANGED <<maps, rows>>
    BY DEF Save, console
  <2> QED BY <2>1, SaveIs
<1> HIDE DEF row, next
<1>2. s \in Skus
  BY <1>1 DEF InHand
<1>3. run[r].plan[s] # None /\ Carries(run[r])
  BY <1>1 DEF TypeInv, SessionOK, WriterInv, Alone
<1>4. ~Locked(r, s) /\ ~HeldByOther(r, s, NewExt(r, s)) /\ Free(r, s, NewExt(r, s))
  BY DEF Save, MustWait
<1>5. CASE rows[s] # None
  <2>1. row.ext = rows[s].ext
    BY <1>1, <1>3, <1>5 DEF Carries
  <2> HIDE DEF s
  <2> QED BY <1>1, <1>2, <1>3, <1>4, <1>5, <2>1, WriterOwn
<1>6. CASE rows[s] = None
  <2>1. hand.loaded.ext = None /\ hand.new.ext = run[r].plan[s].map.prod
    BY <1>1, <1>3, <1>6 DEF Carries
  <2>2. NewExt(r, s) = row.ext
    BY <1>1, <2>1 DEF NewExt
  <2> HIDE DEF s, hand
  <2>3. row.ext = run[r].plan[s].map.prod /\ Free(r, s, row.ext) /\ ~HeldByOther(r, s, row.ext)
    BY <1>1, <1>4, <2>1, <2>2
  <2> QED BY <1>1, <1>2, <1>3, <1>4, <1>6, <2>3, WriterOwn
<1> QED BY <1>5, <1>6

\* A PATCH changes no id.
LEMMA WriterUpdate ==
  ASSUME TypeInv, WriterInv, NEW r \in Runners, NEW s \in Skus, Update(r, s)
  PROVE  WriterInv'
<1>1. /\ run[r].open /\ s \in run[r].todo /\ rows[s] \in OfferRow /\ rows[s] # None
      /\ rows[s].ext \in Goods \cup {None} /\ run[r] \in Session
  BY UpdateIs DEF TypeInv
<1>2. CASE Done(r, s)
  <2> DEFINE c == [run[r] EXCEPT !.todo = @ \ {s}]
  <2>1. run' = [run EXCEPT ![r] = c] /\ UNCHANGED <<maps, rows>>
    BY <1>2, DoneIs DEF Done, console
  <2>2. c.plan = run[r].plan /\ c.own = run[r].own /\ c.hand = run[r].hand
    BY <1>1 DEF Session
  <2> HIDE DEF c
  <2> QED BY <2>1, <2>2, WriterSame
<1>3. ASSUME NEW want \in Offer, NEW set, Call(r, s, rows[s], rows[s].ext, set, want)
      PROVE  WriterInv'
  <2> DEFINE next == Called(r, s, rows[s], rows[s].ext, want)
             new == [rows[s] EXCEPT !.ext = rows[s].ext, !.price = want.price,
                                    !.stock = want.stock]
  <2>1. /\ run' = [run EXCEPT ![r] = next] /\ next.plan = run[r].plan
        /\ next.own = [run[r].own EXCEPT ![s] = Inserted(r, s, rows[s], rows[s].ext)]
        /\ next.hand = Taken(s, rows[s], rows[s].ext, want)
    BY <1>1, <1>3, CallIs
  <2>2. UNCHANGED <<maps, rows>>
    BY <1>3 DEF Call, console
  <2>3. next.hand = [sku |-> s, loaded |-> rows[s], new |-> new]
    BY <2>1, Zenon DEF Taken
  <2>4. new.ext = rows[s].ext
    BY <1>1 DEF OfferRow
  <2>5. Inserted(r, s, rows[s], rows[s].ext) = run[r].own[s]
    BY <1>1, Zenon DEF Inserted
  <2> HIDE DEF next, new
  <2>6. next.own = run[r].own
    <3>1. run[r].own \in [Skus -> OfferRow \cup {None}]
      BY <1>1 DEF Session
    <3>2. next.own = [run[r].own EXCEPT ![s] = run[r].own[s]]
      BY <2>1, <2>5
    <3> QED BY <3>1, <3>2
  <2>7. next.hand.sku = s /\ next.hand.loaded.ext = rows[s].ext
        /\ next.hand.new.ext = rows[s].ext
    BY <2>3, <2>4
  <2> QED BY <1>1, <2>1, <2>2, <2>6, <2>7, WriterSame
<1> QED BY <1>2, <1>3, UpdateIs

\* uq_mapping_store_product: a product is given to one mapping only.
LEMMA WriterConsole ==
  ASSUME TypeInv, WriterInv, Console
  PROVE  WriterInv'
<1>1. UNCHANGED <<rows, run>>
  BY ConsoleIs
<1>2. MapsApart'
  <2>1. CASE \A t \in Skus : maps'[t].prod = maps[t].prod
    BY <2>1 DEF WriterInv, MapsApart
  <2>2. CASE \E s \in Skus, g \in Goods \cup {None} :
                /\ maps'[s].prod = g
                /\ \A t \in Skus \ {s} : maps'[t].prod = maps[t].prod
                /\ g # None => g = maps[s].prod \/ Unclaimed(s, g)
    BY <2>2 DEF WriterInv, MapsApart, Unclaimed
  <2> QED BY <2>1, <2>2, ConsoleIs
<1> QED BY <1>1, <1>2 DEF WriterInv, RowsApart, Alone, PlansApart, OwnApart, EachApart,
                           Carries, Locks

\* Every step keeps the offer ids apart.
LEMMA WriterStep == TypeInv /\ WriterInv /\ [Next]_vars => WriterInv'
<1> SUFFICES ASSUME TypeInv, WriterInv, [Next]_vars PROVE WriterInv'
  OBVIOUS
<1> USE DEF console
<1>0. ASSUME UNCHANGED <<maps, rows, run>> PROVE WriterInv'
  BY <1>0 DEF WriterInv, MapsApart, RowsApart, Alone, PlansApart, OwnApart, EachApart,
              Carries, Locks
<1>1. ASSUME NEW r \in Runners, Start(r) PROVE WriterInv'
  <2>1. PICK c : /\ run' = [run EXCEPT ![r] = c] /\ SessionOK(c)
                 /\ c.hand = None /\ \A s \in Skus : c.own[s] = None
                 /\ \A s \in Skus : c.plan[s] # None => c.plan[s].map = maps[s]
    BY <1>1, StartIs
  <2>2. PlansApart(c)
    BY <2>1 DEF PlansApart, SessionOK, WriterInv, MapsApart
  <2> QED BY <1>1, <2>1, <2>2, WriterEmpty DEF Start
<1>2. ASSUME NEW r \in Runners, Abort(r) PROVE WriterInv'
  <2>1. run' = [run EXCEPT ![r] = Idle] /\ UNCHANGED <<maps, rows>>
    BY <1>2, AbortIs
  <2>2. PlansApart(Idle) /\ Idle.hand = None /\ \A s \in Skus : Idle.own[s] = None
    BY DEF PlansApart, Idle
  <2> QED BY <2>1, <2>2, WriterEmpty
<1>3. ASSUME NEW r \in Runners, NEW s \in Skus, Await(r, s) PROVE WriterInv'
  <2> DEFINE c == [run[r] EXCEPT !.wait = s]
  <2>1. run' = [run EXCEPT ![r] = c] /\ UNCHANGED <<maps, rows>>
    BY <1>3, AwaitIs DEF Await
  <2>2. c.plan = run[r].plan /\ c.own = run[r].own /\ c.hand = run[r].hand
    BY DEF TypeInv, Session
  <2> HIDE DEF c
  <2> QED BY <2>1, <2>2, WriterSame
<1>4. ASSUME NEW r \in Runners, Step(r) PROVE WriterInv'
  BY <1>2, <1>3, <1>4, WriterCommit, WriterSave, WriterUpdate, WriterCreate, EndingIs
     DEF Step, Ending
<1>5. ASSUME (\E s \in Skus : Pull(s)) \/ LoseRate \/ RegainRate PROVE WriterInv'
  BY <1>0, <1>5 DEF Pull, LoseRate, RegainRate
<1>6. UNCHANGED vars => UNCHANGED <<maps, rows, run>>
  BY DEF vars
<1> QED BY <1>0, <1>1, <1>4, <1>5, <1>6, WriterConsole DEF Next

\* A call overwrites an offer only if no other row holds its id.
LEMMA OnlyWriter ==
  ASSUME TypeInv, WriterInv, [Next]_vars, NEW g \in Goods, live'[g] # live[g],
         live[g] # None
  PROVE  \A t \in Skus \ {live'[g].by} : rows[t] # None => rows[t].ext # g
<1> USE DEF console
<1>1. g # None
  BY ListingsAssumption
<1>2. ASSUME NEW r \in Runners, NEW s \in Skus, Update(r, s)
      PROVE  \A t \in Skus \ {live'[g].by} : rows[t] # None => rows[t].ext # g
  <2>1. PICK want \in Offer, set \in SUBSET {"price", "stock"} :
           Call(r, s, rows[s], rows[s].ext, set, want)
    BY <1>2, UpdateIs DEF Done
  <2>2. rows[s].ext \in Goods \cup {None} /\ rows[s] # None
        /\ live' = Shown(rows[s].ext, s, want, set)
    BY <1>2, <2>1, UpdateIs DEF Call
  <2>3. rows[s].ext = g /\ live'[g].by = s
    BY <2>2, ShownIs
  <2> QED BY <1>1, <2>2, <2>3 DEF WriterInv, RowsApart, Apart
<1>3. ASSUME NEW r \in Runners, NEW s \in Skus, Create(r, s)
      PROVE  \A t \in Skus \ {live'[g].by} : rows[t] # None => rows[t].ext # g
  <2>1. PICK want \in Offer :
           Call(r, s, Fresh(r, s), Target(r, s), {"price", "stock"}, want)
    BY <1>3, CreateIs
  <2>2. /\ Target(r, s) \in Goods /\ rows[s] = None /\ run[r].hand = None
        /\ live' = Shown(Target(r, s), s, want, {"price", "stock"})
    BY <1>3, <2>1, CreateIs, ReadyIs DEF Call, Create
  <2>3. Target(r, s) = g /\ live'[g].by = s
    BY <2>2, ShownIs
  <2>4. NewExt(r, s) = g
    BY <2>2, <2>3 DEF NewExt
  <2>5. Free(r, s, g)
    BY <1>3, <2>4 DEF Create
  <2> QED BY <1>1, <2>3, <2>5 DEF Free
<1>4. \/ UNCHANGED live
      \/ \E r \in Runners, s \in Skus : Update(r, s) \/ Create(r, s)
  <2>1. Console => UNCHANGED live
    BY ConsoleIs
  <2>2. ASSUME NEW r \in Runners, Step(r)
        PROVE  \/ UNCHANGED live
               \/ \E s \in Skus : Update(r, s) \/ Create(r, s)
    <3>1. Abort(r) => UNCHANGED live
      BY DEF Abort
    <3>2. \A s \in Skus : Await(r, s) => UNCHANGED live
      BY DEF Await
    <3>3. (Save(r) \/ Commit(r)) => UNCHANGED live
      BY DEF Save, Commit
    <3> QED BY <2>2, <3>1, <3>2, <3>3, EndingIs DEF Step, Ending
  <2>3. \A r \in Runners : Start(r) => UNCHANGED live
    BY DEF Start
  <2>4. (\E s \in Skus : Pull(s)) \/ LoseRate \/ RegainRate => UNCHANGED live
    BY DEF Pull, LoseRate, RegainRate
  <2> QED BY <2>1, <2>2, <2>3, <2>4 DEF Next, vars
<1> QED BY <1>2, <1>3, <1>4

\* No two products ever overwrite each other's prices: an offer changes hands
\* only when its first product has no row any more (_create, uq_offer_ext_id).
THEOREM OneWriterAlways == Spec => OneWriter
<1>1. Init => WriterInv
  <2> SUFFICES ASSUME Init PROVE WriterInv
    OBVIOUS
  <2>1. /\ run = [r \in Runners |-> Idle] /\ rows = [s \in Skus |-> None]
    BY DEF Init
  <2>2. \A s, t \in Skus : s # t /\ maps[s].prod # None => maps[s].prod # maps[t].prod
    <3> DEFINE first == CHOOSE s \in Skus : TRUE
               g == CHOOSE h \in Goods : TRUE
    <3>1. \A s \in Skus : maps[s].prod = IF s = first THEN g ELSE None
      BY DEF Init
    <3> HIDE DEF first, g
    <3> QED BY <3>1
  <2> QED BY <2>1, <2>2, IdleAlone
          DEF WriterInv, MapsApart, RowsApart, EachApart, Locks, Apart, Idle
<1>2. TypeInv /\ WriterInv /\ [Next]_vars
         => [\A g \in Goods : live'[g] # live[g] /\ live[g] # None =>
                \A t \in Skus \ {live'[g].by} : rows[t] # None => rows[t].ext # g]_vars
  BY OnlyWriter
<1> QED BY <1>1, <1>2, TypeInit, TypeStep, WriterStep, PTL DEF Spec, OneWriter
=============================================================================
