-------------------------- MODULE Workflow_proofs --------------------------
(*****************************************************************************)
(* Theorems about the running system that hold for every catalogue, set of   *)
(* orders, number of workers, durability and number of failures: its types,  *)
(* its stock (no unit is lost or sold twice) and its decisions (they stay, and *)
(* nothing happens to a line or a risky order that nobody decided).          *)
(*****************************************************************************)
EXTENDS Invariants, Sums_proofs

(***************************************************************************)
(* The policy and the transactions.                                        *)
(***************************************************************************)
\* The discount is never negative and never exceeds the price
\* (policy.offer_price).
LEMMA OfferPriceBounds ==
    ASSUME NEW price \in Nat
    PROVE  OfferPrice(price) \in 0..price
<1>1. DiscountBps \in 0..1000
  BY CatalogAssumption
<1>2. price * DiscountBps \in 0..price * 10000
  BY <1>1
<1>3. (price * DiscountBps) \div 10000 \in 0..price
  BY <1>2
<1> QED
  BY <1>3 DEF OfferPrice

\* What replaces a line is a product of the catalogue, in stock for the whole
\* quantity, at no more than was paid, whatever the model's hint said.
LEMMA AlternativeIsEligible ==
    ASSUME NEW stk, NEW original, NEW quantity, NEW paid, NEW liked, NEW hint,
           NEW p \in Alternative(stk, original, quantity, paid, liked, hint)
    PROVE  p \in Eligible(Products, stk, original, quantity, paid)
BY DEF Alternative, ChooseAlternative, Eligible

-----------------------------------------------------------------------------
\* Sets of lines and their units.

LEMMA UnitsNat ==
    ASSUME NEW S \in SUBSET Lines
    PROVE  Units(S) \in Nat /\ IsFiniteSet({u \in S \X (1..MaxQty) : u[2] <= Qty[u[1]]})
<1>1. IsFiniteSet(Lines) /\ IsFiniteSet(1..MaxQty)
  BY FS_Interval, OrderAssumption DEF Lines
<1>2. IsFiniteSet(Lines \X (1..MaxQty))
  BY <1>1, FS_Product
<1>3. {u \in S \X (1..MaxQty) : u[2] <= Qty[u[1]]} \in SUBSET (Lines \X (1..MaxQty))
  OBVIOUS
<1> QED
  BY <1>2, <1>3, FS_Subset, FS_CardinalityType DEF Units

LEMMA UnitsDisjoint ==
    ASSUME NEW S \in SUBSET Lines, NEW T \in SUBSET Lines, S \cap T = {}
    PROVE  Units(S \cup T) = Units(S) + Units(T)
<1> DEFINE U(R) == {u \in R \X (1..MaxQty) : u[2] <= Qty[u[1]]}
<1>1. IsFiniteSet(U(S)) /\ IsFiniteSet(U(T))
  BY UnitsNat
<1>2. U(S \cup T) = U(S) \cup U(T) /\ U(S) \cap U(T) = {}
  OBVIOUS
<1>3. Cardinality(U(S)) \in Nat /\ Cardinality(U(T)) \in Nat
  BY <1>1, FS_CardinalityType
<1>4. Cardinality(U(S) \cup U(T)) = Cardinality(U(S)) + Cardinality(U(T)) - Cardinality({})
  <2> HIDE DEF U
  <2> QED
    BY <1>1, <1>2, FS_Union
<1>5. Cardinality(U(S) \cup U(T)) = Cardinality(U(S)) + Cardinality(U(T))
  <2> HIDE DEF U
  <2> QED
    BY <1>3, <1>4, FS_EmptySet
<1> QED
  BY <1>2, <1>5 DEF Units

LEMMA UnitsEmpty == Units({}) = 0
<1>1. {u \in {} \X (1..MaxQty) : u[2] <= Qty[u[1]]} = {}
  OBVIOUS
<1> QED
  BY <1>1, FS_EmptySet DEF Units

LEMMA UnitsSingle ==
    ASSUME NEW l \in Lines
    PROVE  Units({l}) = Qty[l]
<1>1. {u \in {l} \X (1..MaxQty) : u[2] <= Qty[u[1]]} = {l} \X (1..Qty[l])
  BY OrderAssumption
<1>2. IsFiniteSet({l}) /\ Cardinality({l}) = 1
  BY FS_Singleton
<1>3. IsFiniteSet(1..Qty[l]) /\ Cardinality(1..Qty[l]) = Qty[l]
  BY FS_Interval, OrderAssumption
<1>4. Cardinality({l} \X (1..Qty[l])) = 1 * Qty[l]
  BY <1>2, <1>3, FS_Product, ZenonT(60)
<1>5. Qty[l] \in Nat
  BY OrderAssumption
<1> QED
  BY <1>1, <1>4, <1>5 DEF Units

\* Every nonempty set of lines has a last one.
LEMMA LastLine ==
    ASSUME NEW S \in SUBSET Lines, S # {}
    PROVE  \E l \in S : \A k \in S : k <= l
<1> DEFINE D == {n \in Nat : NLines - n \in S}
<1>1. D # {} /\ D \subseteq Nat
  <2>1. PICK l \in S : TRUE
    OBVIOUS
  <2>2. NLines - l \in Nat /\ NLines - (NLines - l) = l
    BY OrderAssumption DEF Lines
  <2> QED
    BY <2>1, <2>2
<1>2. PICK n \in D : \A m \in D : <<m, n>> \notin OpToRel(<, Nat)
  BY <1>1, NatLessThanWellFounded, WFMin
<1>3. \A m \in D : n <= m
  <2> SUFFICES ASSUME NEW m \in D, m < n PROVE FALSE
    OBVIOUS
  <2>1. <<m, n>> \in {ss \in Nat \X Nat : ss[1] < ss[2]}
    OBVIOUS
  <2> QED
    BY <1>2, <2>1 DEF OpToRel
<1>4. \A k \in S : NLines - k \in D /\ n <= NLines - k
  <2> TAKE k \in S
  <2>1. k \in 1..NLines /\ NLines \in Nat
    BY OrderAssumption DEF Lines
  <2>2. NLines - k \in Nat /\ NLines - (NLines - k) = k
    BY <2>1
  <2> QED
    BY <1>3, <2>2
<1>5. NLines - n \in S /\ \A k \in S : k <= NLines - n
  <2>1. n \in Nat /\ NLines \in Nat /\ S \subseteq Int
    BY OrderAssumption DEF Lines
  <2> QED
    BY <1>4, <2>1
<1> QED
  BY <1>5

-----------------------------------------------------------------------------
\* Every transaction leaves rows of their types that fit together.
RowsInv == RowsOK /\ RowsFit

\* What the lines of one product take together is in stock: the pass over the
\* lines never oversells (inventory).
LEMMA NeverOversold ==
    ASSUME RowsOK, NEW o, NEW got \in SUBSET Wanted(o),
           FirstComeFirstServed(o, got), NEW p \in Products
    PROVE  Units({l \in got : line[l].product = p}) \in 0..stock[p]
<1> DEFINE S == {l \in got : line[l].product = p}
<1> SUFFICES Units(S) \in 0..stock[p]
  OBVIOUS
<1>1. S \in SUBSET Lines
  BY DEF Wanted, Active, LinesOf
<1>2. Units(S) \in Nat /\ stock[p] \in Nat
  BY <1>1, UnitsNat DEF RowsOK
<1>3. CASE S = {}
  <2>1. Units(S) = 0
    BY <1>3, UnitsEmpty
  <2> QED
    BY <1>2, <2>1
<1>4. CASE S # {}
  <2>1. PICK l \in S : \A k \in S : k <= l
    BY <1>1, <1>4, LastLine
  <2> DEFINE before == {k \in got : k < l /\ line[k].product = line[l].product}
  <2>2. stock[p] >= Units(before) + Qty[l]
    <3>1. l \in Wanted(o) /\ l \in got /\ line[l].product = p
      BY <2>1
    <3> QED
      BY <3>1 DEF FirstComeFirstServed
  <2>3. S = before \cup {l} /\ before \cap {l} = {}
    BY <1>1, <2>1, OrderAssumption DEF Lines
  <2>4. before \in SUBSET Lines /\ {l} \in SUBSET Lines /\ l \in Lines
    BY <1>1, <2>1, <2>3
  <2>5. Units(S) = Units(before) + Qty[l]
    BY <2>3, <2>4, UnitsDisjoint, UnitsSingle
  <2> QED
    BY <1>2, <2>2, <2>5
<1> QED
  BY <1>3, <1>4

LEMMA OriginalNat ==
    ASSUME NEW l \in Lines
    PROVE  Original(l) \in Nat /\ Price[Item[l]] \in Nat /\ Qty[l] \in Nat
<1>1. Item[l] \in Products /\ Qty[l] \in 1..MaxQty /\ MaxQty \in Nat
  BY OrderAssumption
<1>2. Price[Item[l]] \in Nat /\ Qty[l] \in Nat
  <2>1. Price \in [Products -> Nat \ {0}]
    BY CatalogAssumption
  <2>2. Price[Item[l]] \in Nat
    BY <1>1, <2>1
  <2>3. Qty[l] \in Nat
    BY <1>1
  <2> QED
    BY <2>2, <2>3
<1>3. \A a, b \in Nat : a * b \in Nat
  OBVIOUS
<1> QED
  BY <1>2, <1>3 DEF Original

LEMMA EventTypes ==
    /\ \A o \in Orders :
          {<<"confirm", o>>, <<"cancel", o>>, <<"fulfill", o>>,
           <<"adjustment", o>>, <<"customer_cancel", o>>} \subseteq Events
    /\ \A l \in Lines : {<<"offer", l>>, <<"line_drop", l>>} \subseteq Events
BY DEF Events

LEMMA PlaceOrderRows ==
    ASSUME RowsInv, NEW o \in Orders, PlaceOrder(o)
    PROVE  RowsInv'
<1> USE DEF RowsInv, RowsOK, PlaceOrder
<1>1. order' \in [Orders -> OrderRow]
  <2>1. PICK high \in BOOLEAN, method \in {"prepaid", "cod"} :
           order' = [order EXCEPT ![o].status = "received",
                                  ![o].high = high, ![o].method = method]
    OBVIOUS
  <2>2. order[o] \in OrderRow
    BY DEF RowsOK
  <2>3. [order[o] EXCEPT !.status = "received", !.high = high, !.method = method]
           \in OrderRow
    BY <2>2 DEF OrderRow, Statuses
  <2> QED
    BY <2>1, <2>3
<1>2. line' \in [Lines -> LineRow]
  BY CatalogAssumption, OrderAssumption, ZenonT(60) DEF LineRow, NoRow
<1>3. bill' \in [Lines -> Nat]
  BY OriginalNat
<1>4. outbox' \subseteq Events
  BY EventTypes
<1>5. RowsFit'
  BY OrderAssumption DEF RowsFit, Placed, NoRow, LineRow, OrderRow
<1> QED
  BY <1>1, <1>2, <1>3, <1>4, <1>5

LEMMA FlagAuditRows ==
    ASSUME RowsInv, NEW o \in Orders, Placed(o), FlagAudit(o)
    PROVE  RowsInv'
BY DEF RowsInv, RowsOK, RowsFit, Placed, FlagAudit, OrderRow, Statuses

LEMMA InventoryRows ==
    ASSUME RowsInv, NEW o \in Orders, NEW got \in SUBSET Wanted(o),
           Inventory(o, got)
    PROVE  RowsInv'
<1> USE DEF RowsInv, RowsOK, Inventory
<1>1. stock' \in [Products -> Nat]
  BY NeverOversold
<1>2. line' \in [Lines -> LineRow]
  BY DEF LineRow
<1>3. order' \in [Orders -> OrderRow]
  BY ZenonT(60) DEF OrderRow
<1>4. RowsFit'
  BY OrderAssumption DEF RowsFit, Placed, LineRow, OrderRow
<1> QED
  BY <1>1, <1>2, <1>3, <1>4

LEMMA CreateOfferRows ==
    ASSUME RowsInv, NEW o \in Orders, Placed(o), NEW l \in LinesOf(o),
           NEW hint, CreateOffer(o, l, hint)
    PROVE  RowsInv'
<1> USE DEF RowsInv, RowsOK
<1>0. l \in Lines /\ OrderOf[l] = o /\ Qty[l] \in Nat
  BY OriginalNat DEF LinesOf
<1>1. CASE UNCHANGED db
  BY <1>1 DEF db, RowsFit, Placed
<1>2. CASE ~(UNCHANGED db)
  <2>1. PICK p \in Replacement(o, l, hint) :
           offer' = [offer EXCEPT ![l] = NewOffer(p)] /\ Hold(l, p)
    BY <1>2 DEF CreateOffer
  <2>2. p \in Products /\ stock[p] >= Qty[l]
    BY <2>1, AlternativeIsEligible DEF Replacement, Eligible
  <2>3. OfferPrice(Price[p]) \in Nat
    <3>1. Price[p] \in Nat
      BY <2>2, CatalogAssumption
    <3> QED
      BY <3>1, OfferPriceBounds
  <2>4. NewOffer(p) \in OfferRow /\ NewOffer(p).product = p
    BY <2>2, <2>3 DEF NewOffer, NoOffer, OfferRow
  <2>5. stock' \in [Products -> Nat]
    <3>1. stock[p] - Qty[l] \in Nat
      BY <1>0, <2>2
    <3> QED
      BY <2>1, <3>1 DEF Hold
  <2>6. offer' \in [Lines -> OfferRow]
    BY <2>1, <2>4
  <2>7. /\ order' = [order EXCEPT ![o].status = "awaiting_customer", ![o].acted = TRUE]
        /\ outbox' = outbox \cup {<<"offer", l>>}
        /\ UNCHANGED <<line, refund, bill, shipped>>
    BY <1>2 DEF CreateOffer
  <2>8. order' \in [Orders -> OrderRow] /\ \A q \in Orders : Placed(q) => Placed(q)'
    BY <2>7, ZenonT(60) DEF OrderRow, Statuses, Placed
  <2>9. RowsFit'
    <3>1. offer'[l] = NewOffer(p) /\ \A k \in Lines \ {l} : offer'[k] = offer[k]
      BY <1>0, <2>1
    <3>2. \A q \in Orders : Placed(q)' <=> Placed(q)
      BY <2>7 DEF Placed, OrderRow
    <3>3. NewOffer(p).status = "pending"
      BY DEF NewOffer
    <3> QED
      BY <1>0, <2>2, <2>4, <2>7, <3>1, <3>2, <3>3, OrderAssumption DEF RowsFit
  <2> QED
    BY <1>0, <2>5, <2>6, <2>7, <2>8, <2>9, EventTypes
<1> QED
  BY <1>1, <1>2

LEMMA ApplyOfferRows ==
    ASSUME RowsInv, NEW o \in Orders, NEW l \in LinesOf(o), ApplyOffer(o, l)
    PROVE  RowsInv'
<1> USE DEF RowsInv, RowsOK
<1>0. l \in Lines /\ OrderOf[l] = o
  BY DEF LinesOf
<1>1. CASE UNCHANGED db
  BY <1>1 DEF db, RowsFit, Placed
<1>2. CASE ~(UNCHANGED db)
  <2>1. /\ offer[l].held
        /\ line' = [line EXCEPT ![l].product = offer[l].product,
                                ![l].price = offer[l].price,
                                ![l].reserved = TRUE]
        /\ offer' = [offer EXCEPT ![l].held = FALSE, ![l].status = "accepted"]
        /\ bill' = [k \in Lines |-> IF OrderOf[k] = o
                                    THEN Qty[k] * line'[k].price ELSE bill[k]]
        /\ UNCHANGED <<stock, order, outbox, refund, shipped>>
    BY <1>2 DEF ApplyOffer
  <2>2. offer[l].status # "none" /\ offer[l].product \in Products
    BY <1>0, <2>1 DEF RowsFit
  <2>3. line' \in [Lines -> LineRow]
    <3>1. offer[l].product \in Products \cup {NoProduct} /\ offer[l].price \in Nat
      BY <1>0 DEF OfferRow
    <3>2. [line[l] EXCEPT !.product = offer[l].product, !.price = offer[l].price,
                          !.reserved = TRUE] \in LineRow
      BY <1>0, <3>1 DEF LineRow
    <3> QED
      BY <2>1, <3>2
  <2>4. offer' \in [Lines -> OfferRow]
    BY <1>0, <2>1, ZenonT(60) DEF OfferRow
  <2>5. bill' \in [Lines -> Nat]
    <3>1. \A k \in Lines : line'[k].price \in Nat /\ Qty[k] \in Nat
      BY <2>3, OriginalNat DEF LineRow
    <3>2. \A a, b \in Nat : a * b \in Nat
      OBVIOUS
    <3>3. \A k \in Lines : Qty[k] * line'[k].price \in Nat
      BY <3>1, <3>2
    <3> QED
      BY <2>1, <3>3
  <2>6. RowsFit'
    BY <1>0, <2>1, <2>2 DEF RowsFit, Placed, LineRow, OfferRow
  <2> QED
    BY <2>1, <2>3, <2>4, <2>5, <2>6
<1> QED
  BY <1>1, <1>2

LEMMA ClosedType ==
    ASSUME NEW f \in OfferRow
    PROVE  /\ [f EXCEPT !.held = FALSE, !.status = Closed(f)] \in OfferRow
           /\ Closed(f) = "none" <=> f.status = "none"
<1>1. /\ Closed(f) \in {"none", "pending", "accepted", "accept", "reject",
                        "expired", "cancelled"}
      /\ Closed(f) = "none" <=> f.status = "none"
  BY DEF Closed, OfferRow
<1> QED
  BY <1>1 DEF OfferRow

LEMMA DropLineRows ==
    ASSUME RowsInv, NEW o \in Orders, NEW l \in LinesOf(o), DropLine(o, l)
    PROVE  RowsInv'
<1> USE DEF RowsInv, RowsOK
<1>0. l \in Lines /\ OrderOf[l] = o
  BY DEF LinesOf
<1>1. CASE UNCHANGED db
  BY <1>1 DEF db, RowsFit, Placed
<1>2. CASE ~(UNCHANGED db)
  <2>1. /\ CloseOffer(l)
        /\ line' = [line EXCEPT ![l].dropped = TRUE]
        /\ outbox' = outbox \cup {<<"line_drop", l>>}
        /\ PayBack(o, {l}, Original)
        /\ UNCHANGED <<order, bill, shipped>>
    BY <1>2 DEF DropLine
  <2>2. stock' \in [Products -> Nat]
    <3>1. CASE offer[l].held
      <4>1. offer[l].product \in Products
        BY <1>0, <3>1 DEF RowsFit
      <4>2. stock[offer[l].product] + Qty[l] \in Nat
        BY <1>0, <4>1, OriginalNat
      <4> QED
        BY <2>1, <3>1, <4>2 DEF CloseOffer
    <3>2. CASE ~offer[l].held
      BY <2>1, <3>2 DEF CloseOffer
    <3> QED
      BY <3>1, <3>2
  <2>3. offer' = [offer EXCEPT ![l] = [@ EXCEPT !.held = FALSE, !.status = Closed(offer[l])]]
    BY <1>0, <2>1 DEF CloseOffer
  <2>4. offer' \in [Lines -> OfferRow]
    BY <1>0, <2>3, ClosedType
  <2>5. line' \in [Lines -> LineRow]
    BY <2>1 DEF LineRow
  <2>6. refund' \in [Lines -> Int]
    BY <1>0, <2>1, OriginalNat DEF PayBack
  <2>7. RowsFit'
    <3>1. offer'[l].status = Closed(offer[l]) /\ ~offer'[l].held
          /\ offer'[l].product = offer[l].product
      BY <1>0, <2>3 DEF OfferRow
    <3>2. \A k \in Lines \ {l} : offer'[k] = offer[k]
      BY <2>3
    <3>3. \A k \in Lines : line'[k].product = line[k].product
      BY <2>1 DEF LineRow
    <3>4. offer'[l].status = "none" <=> offer[l].status = "none"
      BY <1>0, <3>1, ClosedType
    <3> QED
      BY <2>1, <3>1, <3>2, <3>3, <3>4 DEF RowsFit, Placed
  <2> QED
    BY <1>0, <2>1, <2>2, <2>4, <2>5, <2>6, <2>7, EventTypes
<1> QED
  BY <1>1, <1>2

\* What closes an order keeps its row a row, and it stays placed.
LEMMA ClosingKeepsRow ==
    ASSUME NEW r \in OrderRow, r.status # "absent",
           NEW s \in Settled, NEW recovered \in BOOLEAN
    PROVE  /\ [r EXCEPT !.status = s, !.acted = TRUE] \in OrderRow
           /\ [r EXCEPT !.recovered = recovered, !.status = s, !.acted = TRUE]
                 \in OrderRow
           /\ s # "absent"
BY DEF OrderRow, Statuses, Settled, Refused

LEMMA FulfillRows ==
    ASSUME RowsInv, NEW o \in Orders, Placed(o), Fulfill(o)
    PROVE  RowsInv'
<1> USE DEF RowsInv, RowsOK
<1>1. CASE UNCHANGED db
  BY <1>1 DEF db, RowsFit, Placed
<1>2. CASE ~(UNCHANGED db)
  <2>1. /\ bill' = [l \in Lines |->
                     IF OrderOf[l] # o THEN bill[l]
                     ELSE IF line[l].dropped THEN 0 ELSE Qty[l] * line[l].price]
        /\ order' = [order EXCEPT ![o].recovered = order[o].shortage,
                                 ![o].status = "ready_for_fulfillment",
                                 ![o].acted = TRUE]
        /\ shipped' = shipped \cup Active(o)
        /\ outbox' \subseteq outbox \cup {<<"fulfill", o>>, <<"adjustment", o>>}
        /\ PayBack(o, Active(o), Saving) \/ UNCHANGED refund
        /\ UNCHANGED <<stock, line, offer>>
    BY <1>2 DEF Fulfill
  <2>2. \A l \in Lines : line[l].price \in Nat /\ Qty[l] \in Nat /\ Price[Item[l]] \in Nat
    BY OriginalNat DEF LineRow
  <2>3. bill' \in [Lines -> Nat]
    <3>1. \A a, b \in Nat : a * b \in Nat
      OBVIOUS
    <3>2. \A l \in Lines : Qty[l] * line[l].price \in Nat
      BY <2>2, <3>1
    <3> QED
      BY <2>1, <3>2
  <2>4. order' \in [Orders -> OrderRow] /\ \A q \in Orders : Placed(q)' <=> Placed(q)
    <3>1. order[o].shortage \in BOOLEAN /\ "ready_for_fulfillment" \in Settled
      BY DEF OrderRow, Settled
    <3>2. [order[o] EXCEPT !.recovered = order[o].shortage,
                           !.status = "ready_for_fulfillment", !.acted = TRUE] \in OrderRow
      BY <3>1, ClosingKeepsRow DEF Placed
    <3>3. order' \in [Orders -> OrderRow]
      BY <2>1, <3>2
    <3> QED
      BY <2>1, <3>3 DEF Placed, OrderRow
  <2>5. refund' \in [Lines -> Int]
    <3>1. \A a, b, c \in Nat : (a - b) * c \in Int
      OBVIOUS
    <3>2. \A l \in Lines : Saving(l) \in Int
      BY <2>2, <3>1 DEF Saving
    <3> QED
      BY <2>1, <3>2 DEF PayBack, Active, LinesOf
  <2>6. RowsFit'
    BY <2>1, <2>4, OrderAssumption DEF RowsFit
  <2>7. shipped' \subseteq Lines /\ outbox' \subseteq Events
    BY <2>1, EventTypes DEF Active, LinesOf
  <2> QED
    BY <2>1, <2>3, <2>4, <2>5, <2>6, <2>7
<1> QED
  BY <1>1, <1>2

LEMMA CancelRows ==
    ASSUME RowsInv, NEW o \in Orders, Placed(o), Cancel(o)
    PROVE  RowsInv'
<1> USE DEF RowsInv, RowsOK
<1>1. CASE UNCHANGED db
  BY <1>1 DEF db, RowsFit, Placed
<1>2. CASE ~(UNCHANGED db)
  <2>1. /\ stock' = [p \in Products |-> stock[p] + ReservedUnits(p, LinesOf(o))
                                                 + HeldUnits(p, LinesOf(o))]
        /\ line' = [l \in Lines |-> IF OrderOf[l] = o
                                    THEN [line[l] EXCEPT !.reserved = FALSE]
                                    ELSE line[l]]
        /\ offer' = [l \in Lines |->
                       IF OrderOf[l] = o
                       THEN [offer[l] EXCEPT !.held = FALSE,
                                             !.status = Closed(offer[l])]
                       ELSE offer[l]]
        /\ order' = [order EXCEPT ![o].status = RefusedStatus(o), ![o].acted = TRUE]
        /\ outbox' = outbox \cup {<<"cancel", o>>}
        /\ PayBack(o, Active(o), Original)
        /\ UNCHANGED <<bill, shipped>>
    BY <1>2 DEF Cancel
  <2>2. stock' \in [Products -> Nat]
    <3>1. ASSUME NEW p \in Products
          PROVE  stock[p] + ReservedUnits(p, LinesOf(o)) + HeldUnits(p, LinesOf(o)) \in Nat
      <4>1. ReservedUnits(p, LinesOf(o)) \in Nat /\ HeldUnits(p, LinesOf(o)) \in Nat
        BY UnitsNat DEF ReservedUnits, HeldUnits, LinesOf
      <4> QED
        BY <4>1
    <3> QED
      BY <2>1, <3>1
  <2>3. line' \in [Lines -> LineRow]
    BY <2>1 DEF LineRow
  <2>4. offer' \in [Lines -> OfferRow]
    BY <2>1, ClosedType
  <2>5. order' \in [Orders -> OrderRow]
    <3>1. RefusedStatus(o) \in Settled /\ TRUE \in BOOLEAN
      BY DEF RefusedStatus, Settled, Refused
    <3>2. [order[o] EXCEPT !.status = RefusedStatus(o), !.acted = TRUE] \in OrderRow
      BY <3>1, ClosingKeepsRow DEF Placed
    <3> QED
      BY <2>1, <3>2
  <2>6. refund' \in [Lines -> Int]
    <3>1. \A l \in Lines : refund[l] + Original(l) \in Int
      BY OriginalNat
    <3>2. PayBack(o, Active(o), Original)
      BY <2>1
    <3>3. refund' = [l \in Lines |->
                      IF l \in Active(o) /\ order[o].method = "prepaid"
                      THEN refund[l] + Original(l) ELSE refund[l]]
      BY <3>2 DEF PayBack
    <3> QED
      BY <3>1, <3>3
  <2>7. RowsFit'
    <3>1. \A l \in Lines : /\ line'[l].product = line[l].product
                           /\ offer'[l].product = offer[l].product
                           /\ offer'[l].status = "none" <=> offer[l].status = "none"
                           /\ offer'[l].held => offer[l].held
      <4> TAKE l \in Lines
      <4>1. CASE OrderOf[l] = o
        <5>1. offer'[l].status = Closed(offer[l]) /\ offer'[l].product = offer[l].product
              /\ ~offer'[l].held
          BY <2>1, <4>1 DEF OfferRow
        <5> QED
          BY <2>1, <4>1, <5>1, ClosedType DEF LineRow
      <4>2. CASE OrderOf[l] # o
        BY <2>1, <4>2
      <4> QED
        BY <4>1, <4>2
    <3>2. \A q \in Orders : Placed(q)' <=> Placed(q)
      BY <2>1 DEF Placed, OrderRow, RefusedStatus
    <3> QED
      BY <3>1, <3>2, OrderAssumption DEF RowsFit
  <2> QED
    BY <2>1, <2>2, <2>3, <2>4, <2>5, <2>6, <2>7, EventTypes
<1> QED
  BY <1>1, <1>2

LEMMA CancelBeforeResolutionRows ==
    ASSUME RowsInv, NEW o \in Orders, Placed(o), CancelBeforeResolution(o)
    PROVE  RowsInv'
<1> USE DEF RowsInv, RowsOK, CancelBeforeResolution
<1>1. order' \in [Orders -> OrderRow]
  <2>1. RefusedStatus(o) \in Settled /\ TRUE \in BOOLEAN
    BY DEF RefusedStatus, Settled, Refused
  <2>2. [order[o] EXCEPT !.status = RefusedStatus(o), !.acted = TRUE] \in OrderRow
    BY <2>1, ClosingKeepsRow DEF Placed
  <2> QED
    BY <2>2
<1>2. refund' \in [Lines -> Int]
  BY OriginalNat DEF PayBack, LinesOf
<1>3. RowsFit'
  BY OrderAssumption DEF RowsFit, Placed, OrderRow, RefusedStatus
<1> QED
  BY <1>1, <1>2, <1>3, EventTypes

-----------------------------------------------------------------------------
(***************************************************************************)
(* The graph, its workers and what surrounds them.                         *)
(***************************************************************************)
\* The types of what Workflow adds to the rows.
ControlOK ==
    /\ job \in [Orders -> JobRow]
    /\ lock \in [Orders -> Workers \cup {NoWorker}]
    /\ live \in [Orders -> Checkpoint]
    /\ resume \in [Orders -> Answers]
    /\ stale \in [Orders -> SUBSET Checkpoint]
    /\ cancelling \subseteq Cancellable
    /\ faults \in 0..MaxFaults

LEMMA TypeInvParts ==
    /\ TypeInv <=> RowsInv /\ ControlOK /\ CheckpointsOK /\ JobsOK
    /\ TypeInv' <=> RowsInv' /\ ControlOK' /\ CheckpointsOK' /\ JobsOK'
BY DEF TypeInv, TypeOK, RowsInv, ControlOK

LEMMA InitTypeInv == Init => TypeInv
<1> SUFFICES ASSUME Init PROVE TypeInv
  OBVIOUS
<1> USE DEF Init, ServicesInit
<1>1. RowsOK
  BY OrderAssumption DEF RowsOK, OrderRow, LineRow, OfferRow, NoOrder, NoRow,
                         NoOffer, Statuses
<1>2. RowsFit
  BY OrderAssumption DEF RowsFit, Placed, NoOrder, NoOffer
<1>3. ControlOK
  BY WorkflowAssumption DEF ControlOK, JobRow, Checkpoint, Entry, Nodes, Answers
<1>4. CheckpointsOK
  BY DEF CheckpointsOK, OfOrder, Entry, LineNodes
<1>5. JobsOK
  BY DEF JobsOK, Unlocked
<1> QED
  BY <1>1, <1>2, <1>3, <1>4, <1>5, TypeInvParts DEF RowsInv

\* A drive that saves a fitting checkpoint keeps the control state in order.
LEMMA SaveControl ==
    ASSUME TypeInv, NEW o \in Orders, NEW c \in Checkpoint, OfOrder(o, c),
           Save(o, c), \A q \in Orders : Placed(q) => Placed(q)'
    PROVE  ControlOK' /\ CheckpointsOK' /\ JobsOK'
<1> USE TypeInvParts DEF Save
<1>1. ControlOK'
  BY DEF ControlOK, Answers
<1>2. CheckpointsOK'
  <2>1. live'[o] = c /\ stale'[o] \subseteq stale[o] \cup {live[o]}
    BY DEF ControlOK
  <2>2. \A q \in Orders \ {o} : live'[q] = live[q] /\ stale'[q] = stale[q]
    BY DEF ControlOK
  <2>3. OfOrder(o, live[o]) /\ \A d \in stale[o] : OfOrder(o, d)
    BY DEF CheckpointsOK
  <2> QED
    BY <2>1, <2>2, <2>3 DEF CheckpointsOK, OfOrder, LinesOf
<1>3. JobsOK'
  BY DEF JobsOK, Unlocked
<1> QED
  BY <1>1, <1>2, <1>3

LEMMA GoToControl ==
    ASSUME TypeInv, NEW o \in Orders, NEW n \in Nodes,
           n \in LineNodes => live[o].missing \in LinesOf(o),
           GoTo(o, n), \A q \in Orders : Placed(q) => Placed(q)'
    PROVE  ControlOK' /\ CheckpointsOK' /\ JobsOK'
<1> DEFINE c == [live[o] EXCEPT !.at = n, !.asked = FALSE]
<1>1. live[o] \in Checkpoint
  BY TypeInvParts DEF ControlOK
<1>2. c \in Checkpoint /\ OfOrder(o, c)
  BY <1>1 DEF Checkpoint, OfOrder
<1> QED
  BY <1>2, SaveControl DEF GoTo

LEMMA AskControl ==
    ASSUME TypeInv, NEW o \in Orders, live[o].at \in {"manual", "wait_customer"},
           Ask(o), \A q \in Orders : Placed(q) => Placed(q)'
    PROVE  ControlOK' /\ CheckpointsOK' /\ JobsOK'
<1> DEFINE c == [live[o] EXCEPT !.asked = TRUE]
<1>1. live[o] \in Checkpoint /\ OfOrder(o, live[o])
  BY TypeInvParts DEF ControlOK, CheckpointsOK
<1>2. c \in Checkpoint /\ OfOrder(o, c)
  BY <1>1 DEF Checkpoint, OfOrder
<1> QED
  BY <1>2, SaveControl DEF Ask

\* The order of a locked job exists, and the line its node works on is its own.
LEMMA RunningFits ==
    ASSUME TypeInv, NEW w \in Workers, NEW o \in Orders, lock[o] = w
    PROVE  /\ Placed(o)
           /\ live[o].at \in LineNodes => live[o].missing \in LinesOf(o)
BY WorkflowAssumption, TypeInvParts DEF JobsOK, Unlocked, CheckpointsOK, OfOrder

\* No transaction takes an order away.
LEMMA StillPlaced ==
    ASSUME RowsOK, NEW o \in Orders, Placed(o),
           \/ UNCHANGED db \/ FlagAudit(o) \/ Fulfill(o) \/ Cancel(o)
           \/ \E got : Inventory(o, got)
           \/ \E l, hint : CreateOffer(o, l, hint)
           \/ \E l : ApplyOffer(o, l)
           \/ \E l : DropLine(o, l)
           \/ CancelBeforeResolution(o)
    PROVE  \A q \in Orders : Placed(q) => Placed(q)'
<1>1. CASE UNCHANGED order
  BY <1>1 DEF Placed
<1>2. CASE order'[o].status # "absent" /\ \A q \in Orders \ {o} : order'[q] = order[q]
  BY <1>2 DEF Placed
<1>3. \/ UNCHANGED order
      \/ order'[o].status # "absent" /\ \A q \in Orders \ {o} : order'[q] = order[q]
  <2> USE DEF RowsOK, OrderRow
  <2>1. CASE UNCHANGED db
    BY <2>1 DEF db
  <2>2. CASE FlagAudit(o)
    BY <2>2 DEF FlagAudit
  <2>3. CASE \E got : Inventory(o, got)
    <3>1. PICK got : Inventory(o, got)
      BY <2>3
    <3>2. /\ order'[o] = [order[o] EXCEPT !.shortage = @ \/ got # Wanted(o)]
          /\ \A q \in Orders \ {o} : order'[q] = order[q]
      BY <3>1 DEF Inventory
    <3>3. order'[o].status = order[o].status
      BY <3>2
    <3> QED
      BY <3>2, <3>3 DEF Placed
  <2>4. CASE \E l, hint : CreateOffer(o, l, hint)
    <3>1. PICK l, hint : CreateOffer(o, l, hint)
      BY <2>4
    <3>2. \/ UNCHANGED db
          \/ order' = [order EXCEPT ![o].status = "awaiting_customer", ![o].acted = TRUE]
      BY <3>1 DEF CreateOffer
    <3>3. CASE UNCHANGED db
      BY <3>3 DEF db
    <3>4. CASE order' = [order EXCEPT ![o].status = "awaiting_customer", ![o].acted = TRUE]
      <4>1. order'[o].status = "awaiting_customer"
        BY <3>4
      <4>2. \A q \in Orders \ {o} : order'[q] = order[q]
        BY <3>4
      <4> QED
        BY <4>1, <4>2
    <3> QED
      BY <3>2, <3>3, <3>4
  <2>5. CASE \E l : ApplyOffer(o, l)
    BY <2>5 DEF ApplyOffer, db
  <2>6. CASE \E l : DropLine(o, l)
    BY <2>6 DEF DropLine, db
  <2>7. CASE Fulfill(o)
    BY <2>7 DEF Fulfill, db
  <2>8. CASE Cancel(o)
    <3>1. \/ UNCHANGED db
          \/ order' = [order EXCEPT ![o].status = RefusedStatus(o), ![o].acted = TRUE]
      BY <2>8 DEF Cancel
    <3>2. CASE UNCHANGED db
      BY <3>2 DEF db
    <3>3. CASE order' = [order EXCEPT ![o].status = RefusedStatus(o), ![o].acted = TRUE]
      BY <3>3 DEF RefusedStatus
    <3> QED
      BY <3>1, <3>2, <3>3
  <2>9. CASE CancelBeforeResolution(o)
    BY <2>9 DEF CancelBeforeResolution, RefusedStatus
  <2> QED
    BY <2>1, <2>2, <2>3, <2>4, <2>5, <2>6, <2>7, <2>8, <2>9
<1> QED
  BY <1>1, <1>2, <1>3

-----------------------------------------------------------------------------
\* A node's transaction and its checkpoint.
LEMMA NodeTypeInv ==
    ASSUME TypeInv, NEW w \in Workers, NEW o \in Orders, Node(w, o)
    PROVE  TypeInv'
<1>0. lock[o] = w /\ RowsInv /\ RowsOK
  BY TypeInvParts DEF Node, Fraud, AskAuditor, AuditorAnswered, CheckStock, Offer,
     AskCustomer, CustomerAnswered, Apply, Drop, Ship, Refuse, Running, RowsInv
<1>1. Placed(o) /\ (live[o].at \in LineNodes => live[o].missing \in LinesOf(o))
  BY <1>0, RunningFits
<1>2. UNCHANGED db => RowsInv' /\ \A q \in Orders : Placed(q) => Placed(q)'
  BY <1>0 DEF RowsInv, RowsOK, RowsFit, db, Placed
<1> USE DEF Running, Nodes, LineNodes
<1>3. CASE Fraud(w, o)
  BY <1>2, <1>3, GoToControl, TypeInvParts DEF Fraud
<1>4. CASE AskAuditor(w, o)
  <2>1. FlagAudit(o) /\ Ask(o) /\ live[o].at = "manual"
    BY <1>4 DEF AskAuditor
  <2>2. RowsInv' /\ \A q \in Orders : Placed(q) => Placed(q)'
    BY <1>0, <1>1, <2>1, FlagAuditRows, StillPlaced
  <2> QED
    BY <2>1, <2>2, AskControl, TypeInvParts
<1>5. CASE AuditorAnswered(w, o)
  <2>1. FlagAudit(o) /\ (GoTo(o, "inventory") \/ GoTo(o, "cancel"))
    BY <1>5 DEF AuditorAnswered
  <2>2. RowsInv' /\ \A q \in Orders : Placed(q) => Placed(q)'
    BY <1>0, <1>1, <2>1, FlagAuditRows, StillPlaced
  <2> QED
    BY <2>1, <2>2, GoToControl, TypeInvParts
<1>6. CASE CheckStock(w, o)
  <2>1. PICK got \in SUBSET Wanted(o) :
           /\ Inventory(o, got)
           /\ \/ Save(o, [at |-> IF Active(o) = {} THEN "cancel" ELSE "fulfill",
                          missing |-> NoLine, asked |-> FALSE])
              \/ \E l \in Wanted(o) :
                    Save(o, [at |-> "offer", missing |-> l, asked |-> FALSE])
    BY <1>6 DEF CheckStock
  <2>2. RowsInv' /\ \A q \in Orders : Placed(q) => Placed(q)'
    BY <1>0, <1>1, <2>1, InventoryRows, StillPlaced
  <2>3. CASE Save(o, [at |-> IF Active(o) = {} THEN "cancel" ELSE "fulfill",
                      missing |-> NoLine, asked |-> FALSE])
    <3> DEFINE c == [at |-> IF Active(o) = {} THEN "cancel" ELSE "fulfill",
                     missing |-> NoLine, asked |-> FALSE]
    <3>1. c \in Checkpoint /\ OfOrder(o, c)
      BY DEF Checkpoint, OfOrder
    <3> QED
      BY <2>2, <2>3, <3>1, SaveControl, TypeInvParts
  <2>4. ASSUME NEW l \in Wanted(o),
               Save(o, [at |-> "offer", missing |-> l, asked |-> FALSE])
        PROVE  TypeInv'
    <3> DEFINE c == [at |-> "offer", missing |-> l, asked |-> FALSE]
    <3>1. c \in Checkpoint /\ OfOrder(o, c)
      BY DEF Checkpoint, OfOrder, Wanted, Active, LinesOf
    <3> QED
      BY <2>2, <2>4, <3>1, SaveControl, TypeInvParts
  <2> QED
    BY <2>1, <2>3, <2>4
<1>7. CASE Offer(w, o)
  <2>1. PICK hint : CreateOffer(o, live[o].missing, hint)
    BY <1>7 DEF Offer
  <2>2. live[o].missing \in LinesOf(o)
    BY <1>1, <1>7 DEF Offer
  <2>3. RowsInv' /\ \A q \in Orders : Placed(q) => Placed(q)'
    BY <1>0, <1>1, <2>1, <2>2, CreateOfferRows, StillPlaced
  <2>4. GoTo(o, "wait_customer") \/ GoTo(o, "drop_line")
    BY <1>7 DEF Offer
  <2> QED
    BY <2>2, <2>3, <2>4, GoToControl, TypeInvParts
<1>8. CASE AskCustomer(w, o)
  BY <1>2, <1>8, AskControl, TypeInvParts DEF AskCustomer
<1>9. CASE CustomerAnswered(w, o)
  <2>1. GoTo(o, "apply") \/ GoTo(o, "drop_line")
    BY <1>9 DEF CustomerAnswered
  <2>2. live[o].missing \in LinesOf(o) /\ UNCHANGED db
    BY <1>1, <1>9 DEF CustomerAnswered
  <2> QED
    BY <1>2, <2>1, <2>2, GoToControl, TypeInvParts
<1>10. CASE Apply(w, o)
  <2>1. live[o].missing \in LinesOf(o) /\ ApplyOffer(o, live[o].missing)
        /\ GoTo(o, "inventory")
    BY <1>1, <1>10 DEF Apply
  <2>2. RowsInv' /\ \A q \in Orders : Placed(q) => Placed(q)'
    BY <1>0, <1>1, <2>1, ApplyOfferRows, StillPlaced
  <2> QED
    BY <2>1, <2>2, GoToControl, TypeInvParts
<1>11. CASE Drop(w, o)
  <2>1. live[o].missing \in LinesOf(o) /\ DropLine(o, live[o].missing)
        /\ GoTo(o, "inventory")
    BY <1>1, <1>11 DEF Drop
  <2>2. RowsInv' /\ \A q \in Orders : Placed(q) => Placed(q)'
    BY <1>0, <1>1, <2>1, DropLineRows, StillPlaced
  <2> QED
    BY <2>1, <2>2, GoToControl, TypeInvParts
<1>12. CASE Ship(w, o)
  <2>1. Fulfill(o) /\ GoTo(o, "end")
    BY <1>12 DEF Ship
  <2>2. RowsInv' /\ \A q \in Orders : Placed(q) => Placed(q)'
    BY <1>0, <1>1, <2>1, FulfillRows, StillPlaced
  <2> QED
    BY <2>1, <2>2, GoToControl, TypeInvParts
<1>13. CASE Refuse(w, o)
  <2>1. Cancel(o) /\ GoTo(o, "end")
    BY <1>13 DEF Refuse
  <2>2. RowsInv' /\ \A q \in Orders : Placed(q) => Placed(q)'
    BY <1>0, <1>1, <2>1, CancelRows, StillPlaced
  <2> QED
    BY <2>1, <2>2, GoToControl, TypeInvParts
<1> QED
  BY <1>3, <1>4, <1>5, <1>6, <1>7, <1>8, <1>9, <1>10, <1>11, <1>12, <1>13 DEF Node

\* A new order, or a customer's cancellation of one.
LEMMA PlaceTypeInv ==
    ASSUME TypeInv, NEW o \in Orders, Place(o)
    PROVE  TypeInv'
<1> USE TypeInvParts DEF Place
<1>1. RowsInv'
  BY PlaceOrderRows
<1>2. \A q \in Orders : Placed(q) \/ q = o => Placed(q)'
  <2>1. PICK high \in BOOLEAN, method \in {"prepaid", "cod"} :
           order' = [order EXCEPT ![o].status = "received",
                                  ![o].high = high, ![o].method = method]
    BY DEF PlaceOrder
  <2> QED
    BY <2>1 DEF RowsInv, RowsOK, OrderRow, Placed
<1>3. [pending |-> TRUE, attempts |-> 0] \in JobRow
  BY WorkflowAssumption DEF JobRow
<1>4. CheckpointsOK' /\ ControlOK'
  BY <1>3 DEF CheckpointsOK, OfOrder, LinesOf, graph, ControlOK
<1>5. JobsOK'
  <2>1. job'[o] = [pending |-> TRUE, attempts |-> 0]
    BY DEF ControlOK
  <2>2. \A q \in Orders \ {o} : job'[q] = job[q]
    BY DEF ControlOK
  <2>3. UNCHANGED lock
    OBVIOUS
  <2> QED
    BY <1>2, <2>1, <2>2, <2>3, WorkflowAssumption DEF JobsOK, Unlocked
<1> QED
  BY <1>1, <1>4, <1>5

LEMMA CustomerCancelTypeInv ==
    ASSUME TypeInv, NEW o \in Orders, CustomerCancel(o)
    PROVE  TypeInv'
<1> USE TypeInvParts DEF CustomerCancel, CancelledIfReceived
<1>1. CASE order[o].status = "received"
  <2>1. RowsInv' /\ \A q \in Orders : Placed(q) => Placed(q)'
    BY <1>1, CancelBeforeResolutionRows, StillPlaced DEF Placed, RowsInv
  <2>2. ControlOK' /\ CheckpointsOK'
    <3>1. job' = [job EXCEPT ![o].pending = FALSE] /\ cancelling' = cancelling \ {o}
          /\ UNCHANGED <<lock, live, resume, stale, faults>>
      BY <1>1 DEF graph
    <3>2. job' \in [Orders -> JobRow]
      BY <3>1 DEF ControlOK, JobRow
    <3> QED
      BY <3>1, <3>2 DEF ControlOK, CheckpointsOK, OfOrder, LinesOf
  <2>3. JobsOK'
    BY <1>1, <2>1 DEF JobsOK, Unlocked, ControlOK, JobRow
  <2> QED
    BY <2>1, <2>2, <2>3
<1>2. CASE order[o].status # "received"
  BY <1>2 DEF RowsInv, RowsOK, RowsFit, db, Placed, ControlOK, CheckpointsOK,
              OfOrder, LinesOf, graph, JobsOK, Unlocked
<1> QED
  BY <1>1, <1>2

\* Waking the job of an order that exists, whatever else the handler writes
\* into the order or the offer.
LEMMA WakeControl ==
    ASSUME TypeInv, NEW o \in Orders, Placed(o), Wake(o),
           UNCHANGED <<lock, graph, cancelling, faults>>,
           \A q \in Orders : Placed(q) => Placed(q)'
    PROVE  ControlOK' /\ CheckpointsOK' /\ JobsOK'
<1> USE TypeInvParts, WorkflowAssumption DEF Wake, graph
<1>1. ControlOK'
  BY DEF ControlOK, JobRow
<1>2. CheckpointsOK'
  BY DEF CheckpointsOK, OfOrder, LinesOf
<1>3. JobsOK'
  BY DEF JobsOK, Unlocked, ControlOK, JobRow
<1> QED
  BY <1>1, <1>2, <1>3

\* A decision written into an offer that was made keeps the rows in order.
LEMMA DecideOfferRows ==
    ASSUME RowsInv, NEW l \in Lines, NEW d \in {"accept", "reject", "expired"},
           offer[l].status = "pending",
           offer' = [offer EXCEPT ![l].decision = d],
           UNCHANGED <<stock, order, line, outbox, refund, bill, shipped>>
    PROVE  RowsInv' /\ Placed(OrderOf[l]) /\ \A q \in Orders : Placed(q) => Placed(q)'
BY DEF RowsInv, RowsOK, RowsFit, OfferRow, Placed

\* A drive that ends by a failure: some older checkpoint is the stored one.
LEMMA FailureTypeInv ==
    ASSUME TypeInv, NEW w \in Workers, NEW o \in Orders, Failure(w, o)
    PROVE  TypeInv'
<1> USE TypeInvParts
<1>1. PICK c \in {live[o]} \cup stale[o] : live' = [live EXCEPT ![o] = c]
  BY DEF Failure, Raise, Crash
<1>2. /\ lock[o] = w /\ UNCHANGED <<db, cancelling>>
      /\ lock' = [lock EXCEPT ![o] = NoWorker]
      /\ resume' = [resume EXCEPT ![o] = "none"]
      /\ stale' = [stale EXCEPT ![o] = {}]
  BY DEF Failure, Raise, Crash
<1>3. c \in Checkpoint /\ OfOrder(o, c)
  BY <1>1 DEF ControlOK, CheckpointsOK
<1>4. RowsInv' /\ \A q \in Orders : Placed(q)' <=> Placed(q)
  BY <1>2 DEF RowsInv, RowsOK, RowsFit, Placed, db
<1>5. job[o].pending /\ job[o].attempts \in 0..MaxAttempts - 1
  BY <1>2, WorkflowAssumption DEF JobsOK, Unlocked, ControlOK, JobRow
<1>6. \/ UNCHANGED job
      \/ job' = [job EXCEPT ![o] = [pending |-> job[o].attempts + 1 < MaxAttempts,
                                   attempts |-> job[o].attempts + 1]]
  BY DEF Failure, Raise, Crash
<1>7. faults' \in 0..MaxFaults
  BY WorkflowAssumption DEF Failure, Raise, Crash, ControlOK
<1>8. ControlOK'
  <2>1. job' \in [Orders -> JobRow]
    <3>1. [pending |-> job[o].attempts + 1 < MaxAttempts,
           attempts |-> job[o].attempts + 1] \in JobRow
      BY <1>5, WorkflowAssumption DEF JobRow
    <3> QED
      BY <1>6, <3>1 DEF ControlOK
  <2>2. live' \in [Orders -> Checkpoint] /\ stale' \in [Orders -> SUBSET Checkpoint]
    BY <1>1, <1>2, <1>3 DEF ControlOK
  <2>3. resume' \in [Orders -> Answers]
    BY <1>2 DEF ControlOK, Answers
  <2>4. lock' \in [Orders -> Workers \cup {NoWorker}] /\ cancelling' \subseteq Cancellable
    BY <1>2 DEF ControlOK
  <2> QED
    BY <1>7, <2>1, <2>2, <2>3, <2>4 DEF ControlOK
<1>9. CheckpointsOK'
  BY <1>1, <1>2, <1>3 DEF CheckpointsOK, ControlOK, OfOrder, LinesOf
<1>10. JobsOK'
  <2>1. Placed(o)
    BY <1>5 DEF JobsOK
  <2>2. \A q \in Orders \ {o} : job'[q] = job[q] /\ lock'[q] = lock[q]
    BY <1>2, <1>6 DEF ControlOK
  <2>3. Unlocked(o)'
    BY <1>2 DEF Unlocked, ControlOK
  <2>4. job'[o].pending => job'[o].attempts < MaxAttempts
    <3>1. CASE UNCHANGED job
      BY <1>5, <3>1, WorkflowAssumption
    <3>2. CASE job'[o] = [pending |-> job[o].attempts + 1 < MaxAttempts,
                          attempts |-> job[o].attempts + 1]
      <4> DEFINE left == job[o].attempts + 1 < MaxAttempts
                 n == job[o].attempts + 1
      <4>1. job'[o] = [pending |-> left, attempts |-> n]
        BY <3>2
      <4> HIDE DEF left, n
      <4>2. job'[o].pending = left /\ job'[o].attempts = n
        BY <4>1
      <4>3. left => n < MaxAttempts
        BY DEF left, n
      <4> QED
        BY <4>2, <4>3
    <3>3. \/ UNCHANGED job
          \/ job'[o] = [pending |-> job[o].attempts + 1 < MaxAttempts,
                        attempts |-> job[o].attempts + 1]
      BY <1>6 DEF ControlOK
    <3> QED
      BY <3>1, <3>2, <3>3
  <2> QED
    BY <1>4, <2>1, <2>2, <2>3, <2>4 DEF JobsOK, Unlocked
<1> QED
  BY <1>4, <1>8, <1>9, <1>10

\* What the API, the customers, the clock and the idle workers do.
LEMMA OutsideTypeInv ==
    ASSUME TypeInv, NEW o \in Orders,
           \/ LockForCancel(o) \/ Retry(o)
           \/ \E d \in {"approve", "reject"} : DecideAudit(o, d)
           \/ \E w \in Workers : Claim(w, o) \/ Finish(w, o)
    PROVE  TypeInv'
<1> USE TypeInvParts
<1>1. CASE LockForCancel(o)
  BY <1>1 DEF LockForCancel, RowsInv, RowsOK, RowsFit, Placed, db, ControlOK,
              CheckpointsOK, OfOrder, LinesOf, graph, JobsOK, Unlocked
<1>2. CASE Retry(o)
  <2>1. RowsInv' /\ \A q \in Orders : Placed(q) => Placed(q)'
    BY <1>2 DEF Retry, RowsInv, RowsOK, RowsFit, Placed, db
  <2> QED
    BY <1>2, <2>1, WakeControl DEF Retry
<1>3. ASSUME NEW d \in {"approve", "reject"}, DecideAudit(o, d)
      PROVE  TypeInv'
  <2>1. RowsInv' /\ Placed(o) /\ \A q \in Orders : Placed(q) => Placed(q)'
    BY <1>3 DEF DecideAudit, RowsInv, RowsOK, RowsFit, OrderRow, Placed
  <2> QED
    BY <1>3, <2>1, WakeControl DEF DecideAudit
<1>4. ASSUME NEW w \in Workers, Claim(w, o)
      PROVE  TypeInv'
  <2>1. RowsInv' /\ \A q \in Orders : Placed(q)' <=> Placed(q)
    BY <1>4 DEF Claim, RowsInv, RowsOK, RowsFit, Placed, db
  <2>2. (IF live[o].asked THEN Decision(o) ELSE "none") \in Answers
    <3>1. CASE live[o].at = "manual"
      BY <3>1 DEF Decision, Answers, RowsInv, RowsOK, OrderRow
    <3>2. CASE live[o].at # "manual" /\ live[o].asked
      <4>1. live[o].missing \in Lines
        BY <3>2 DEF CheckpointsOK, OfOrder, LineNodes, LinesOf
      <4> QED
        BY <3>2, <4>1 DEF Decision, Answers, RowsInv, RowsOK, OfferRow
    <3> QED
      BY <3>1, <3>2 DEF Answers
  <2>3. ControlOK' /\ CheckpointsOK'
    BY <1>4, <2>2 DEF Claim, ControlOK, CheckpointsOK, OfOrder, LinesOf
  <2>4. JobsOK'
    BY <1>4, <2>1 DEF Claim, JobsOK, Unlocked, ControlOK
  <2> QED
    BY <2>1, <2>3, <2>4
<1>5. ASSUME NEW w \in Workers, Finish(w, o)
      PROVE  TypeInv'
  <2>1. RowsInv' /\ \A q \in Orders : Placed(q)' <=> Placed(q)
    BY <1>5 DEF Finish, RowsInv, RowsOK, RowsFit, Placed, db
  <2>2. [pending |-> FALSE, attempts |-> 0] \in JobRow
    BY WorkflowAssumption DEF JobRow
  <2>3. ControlOK' /\ CheckpointsOK'
    BY <1>5, <2>2 DEF Finish, ControlOK, CheckpointsOK, OfOrder, LinesOf
  <2>4. JobsOK'
    BY <1>5, <2>1 DEF Finish, JobsOK, Unlocked, ControlOK
  <2> QED
    BY <2>1, <2>3, <2>4
<1> QED
  BY <1>1, <1>2, <1>3, <1>4, <1>5

\* What happens to an offer from outside its order's drive.
LEMMA OfferTypeInv ==
    ASSUME TypeInv, NEW l \in Lines,
           \/ \E d \in {"accept", "reject"} : Reply(l, d)
           \/ Deadline(l) \/ \E w \in Workers : ExpireOffer(w, l)
    PROVE  TypeInv'
<1> USE TypeInvParts
<1>1. OrderOf[l] \in Orders
  BY OrderAssumption
<1>2. ASSUME NEW d \in {"accept", "reject"}, Reply(l, d)
      PROVE  TypeInv'
  <2>1. RowsInv' /\ Placed(OrderOf[l]) /\ \A q \in Orders : Placed(q) => Placed(q)'
    BY <1>2, DecideOfferRows DEF Reply
  <2> QED
    BY <1>1, <1>2, <2>1, WakeControl DEF Reply
<1>3. ASSUME NEW w \in Workers, ExpireOffer(w, l)
      PROVE  TypeInv'
  <2>1. RowsInv' /\ Placed(OrderOf[l]) /\ \A q \in Orders : Placed(q) => Placed(q)'
    BY <1>3, DecideOfferRows DEF ExpireOffer, StillOpen
  <2> QED
    BY <1>1, <1>3, <2>1, WakeControl DEF ExpireOffer
<1>4. CASE Deadline(l)
  <2>1. RowsOK'
    BY <1>4 DEF Deadline, RowsInv, RowsOK, OfferRow
  <2>2. RowsFit'
    <3>1. /\ offer'[l].status = offer[l].status /\ offer'[l].held = offer[l].held
          /\ offer'[l].product = offer[l].product
          /\ \A k \in Lines \ {l} : offer'[k] = offer[k]
      BY <1>4 DEF Deadline, RowsInv, RowsOK, OfferRow
    <3>2. UNCHANGED <<order, line>>
      BY <1>4 DEF Deadline
    <3> QED
      BY <3>1, <3>2 DEF RowsInv, RowsFit, Placed
  <2>3. ControlOK' /\ CheckpointsOK' /\ JobsOK'
    BY <1>4 DEF Deadline, Placed, ControlOK, CheckpointsOK, OfOrder, LinesOf, graph,
                JobsOK, Unlocked
  <2> QED
    BY <2>1, <2>2, <2>3 DEF RowsInv
<1> QED
  BY <1>2, <1>3, <1>4

LEMMA NextTypeInv == TypeInv /\ [Next]_vars => TypeInv'
<1> SUFFICES ASSUME TypeInv, [Next]_vars PROVE TypeInv'
  OBVIOUS
<1>1. CASE UNCHANGED vars
  BY <1>1 DEF vars, db, graph, TypeInv, TypeOK, RowsOK, RowsFit, Placed,
              CheckpointsOK, OfOrder, LinesOf, JobsOK, Unlocked
<1>2. CASE Next
  <2>1. CASE \E o \in Orders :
                Place(o) \/ LockForCancel(o) \/ CustomerCancel(o) \/ Retry(o)
    BY <2>1, PlaceTypeInv, OutsideTypeInv, CustomerCancelTypeInv
  <2>2. CASE \E o \in Orders, d \in {"approve", "reject"} : DecideAudit(o, d)
    BY <2>2, OutsideTypeInv
  <2>3. CASE \E l \in Lines, d \in {"accept", "reject"} : Reply(l, d)
    BY <2>3, OfferTypeInv
  <2>4. CASE \E l \in Lines : Deadline(l)
    BY <2>4, OfferTypeInv
  <2>5. CASE \E w \in Workers, l \in Lines : ExpireOffer(w, l)
    BY <2>5, OfferTypeInv
  <2>6. CASE \E w \in Workers, o \in Orders :
                Claim(w, o) \/ Node(w, o) \/ Finish(w, o) \/ Failure(w, o)
    BY <2>6, OutsideTypeInv, NodeTypeInv, FailureTypeInv
  <2>7. CASE Sleep
    BY <1>1, <2>7 DEF Sleep
  <2> QED
    BY <1>2, <2>1, <2>2, <2>3, <2>4, <2>5, <2>6, <2>7 DEF Next
<1> QED
  BY <1>1, <1>2

\* The rows, checkpoints, locks and jobs fit together in every reachable state.
THEOREM TypeInvariance == Spec => []TypeInv
BY InitTypeInv, NextTypeInv, PTL DEF Spec

\* Every row has its type: whatever orders, workers, crashes and hints there
\* are, inventory and create_offer never take more than the stock there is.
THEOREM TypeCorrect == Spec => []TypeOK
<1>1. TypeInv => TypeOK
  BY DEF TypeInv
<1> QED
  BY <1>1, TypeInvariance, PTL

-----------------------------------------------------------------------------
(*****************************************************************************)
(* The stock.  The transactions balance one by one, provided that apply_offer *)
(* never finds its line reserved already.  That is a fact about the graph and *)
(* its checkpoints (LinesAhead), not about the transaction.                  *)
(*****************************************************************************)

\* Where the units of a product are.
Accounting(p) == stock[p] + ReservedUnits(p, Lines) + HeldUnits(p, Lines)

\* What every transaction of order o but the intake guarantees: no unit is lost,
\* and no line goes back behind what LinesAhead says of it.
Balanced == \A p \in Products : Accounting(p)' = Accounting(p)
Ahead(o) == \A l \in Lines : /\ Through(l) => Through(l)'
                             /\ NotYet(l) => NotYet(l)'
                             /\ line'[l].reserved => line[l].reserved \/ OrderOf[l] = o

LEMMA OneMoreLine ==
    ASSUME NEW S \in SUBSET Lines, NEW T, NEW l \in Lines, l \notin S, T = S \cup {l}
    PROVE  /\ Units(T) = Units(S) + Qty[l]
           /\ Units(T) \in Nat /\ Units(S) \in Nat /\ Qty[l] \in Nat
<1>1. {l} \in SUBSET Lines /\ S \cap {l} = {} /\ T \in SUBSET Lines
  OBVIOUS
<1> QED
  BY <1>1, UnitsDisjoint, UnitsSingle, UnitsNat, OriginalNat

\* Lines, offers and stock as they are: nothing moves.
LEMMA NothingMoves ==
    ASSUME UNCHANGED <<stock, line>>, NEW o,
           \A l \in Lines : /\ offer'[l].held = offer[l].held
                            /\ offer'[l].product = offer[l].product
                            /\ offer'[l].status = offer[l].status
    PROVE  Balanced /\ Ahead(o)
<1>1. Ahead(o)
  BY DEF Ahead, Through, NotYet
<1>2. ASSUME NEW p \in Products
      PROVE  HeldUnits(p, Lines)' = HeldUnits(p, Lines)
  <2>1. {l \in Lines : offer'[l].held /\ offer'[l].product = p}
        = {l \in Lines : offer[l].held /\ offer[l].product = p}
    OBVIOUS
  <2> QED
    BY <2>1 DEF HeldUnits
<1> QED
  BY <1>1, <1>2 DEF Balanced, Accounting, ReservedUnits

\* inventory moves the units of `got' from the stock into reservations.
LEMMA InventoryBalanced ==
    ASSUME RowsInv, NEW o \in Orders, NEW got \in SUBSET Wanted(o), Inventory(o, got)
    PROVE  /\ Balanced
           /\ \A l \in Lines : /\ Through(l) => Through(l)'
                               /\ l \notin got => line'[l] = line[l]
                               /\ l \in got => ~line[l].dropped /\ OrderOf[l] = o
                               /\ offer'[l] = offer[l]
<1> USE DEF Inventory
<1>1. got \in SUBSET Lines /\ \A l \in got : ~line[l].reserved
  BY DEF Wanted, Active, LinesOf
<1>2. \A l \in Lines : /\ line'[l].reserved <=> (line[l].reserved \/ l \in got)
                       /\ line'[l].product = line[l].product
                       /\ line'[l].dropped = line[l].dropped
  BY DEF RowsInv, RowsOK, LineRow
<1>3. ASSUME NEW p \in Products
      PROVE  Accounting(p)' = Accounting(p)
  <2> DEFINE G == {l \in got : line[l].product = p}
             R == {l \in Lines : line[l].reserved /\ line[l].product = p}
             N == {l \in Lines : line'[l].reserved /\ line'[l].product = p}
  <2>1. N = R \cup G /\ R \cap G = {} /\ G \in SUBSET Lines /\ R \in SUBSET Lines
    BY <1>1, <1>2
  <2>2. Units(N) = Units(R) + Units(G) /\ Units(R) \in Nat /\ Units(G) \in Nat
    BY <2>1, UnitsDisjoint, UnitsNat
  <2>3. stock'[p] = stock[p] - Units(G) /\ stock[p] \in Nat
    BY DEF RowsInv, RowsOK
  <2>4. HeldUnits(p, Lines)' = HeldUnits(p, Lines) /\ HeldUnits(p, Lines) \in Nat
    BY UnitsNat DEF HeldUnits
  <2>5. ReservedUnits(p, Lines) = Units(R) /\ ReservedUnits(p, Lines)' = Units(N)
    BY DEF ReservedUnits
  <2> HIDE DEF G, R, N
  <2> QED
    BY <2>2, <2>3, <2>4, <2>5 DEF Accounting
<1> QED
  BY <1>2, <1>3 DEF Balanced, Through, Wanted, Active, LinesOf

\* create_offer moves the units of the line from the stock into the hold.
LEMMA CreateOfferBalanced ==
    ASSUME RowsInv, NEW o \in Orders, NEW l \in LinesOf(o), NEW hint,
           CreateOffer(o, l, hint)
    PROVE  Balanced /\ Ahead(o)
<1>1. CASE UNCHANGED db
  BY <1>1, NothingMoves DEF db
<1>2. CASE ~(UNCHANGED db)
  <2>1. l \in Lines /\ OrderOf[l] = o
    BY DEF LinesOf
  <2>2. PICK q \in Replacement(o, l, hint) :
           /\ offer[l].status = "none"
           /\ offer' = [offer EXCEPT ![l] = NewOffer(q)] /\ Hold(l, q)
           /\ UNCHANGED line
    BY <1>2 DEF CreateOffer
  <2>3. q \in Products
    BY <2>2, AlternativeIsEligible DEF Replacement, Eligible
  <2>4. /\ offer'[l].held /\ offer'[l].product = q /\ offer'[l].status = "pending"
        /\ \A k \in Lines \ {l} : offer'[k] = offer[k]
        /\ ~offer[l].held
    BY <2>1, <2>2 DEF RowsInv, RowsOK, RowsFit, NewOffer, NoOffer
  <2>5. Ahead(o)
    BY <2>1, <2>2, <2>4 DEF Ahead, Through, NotYet
  <2>6. ASSUME NEW p \in Products
        PROVE  Accounting(p)' = Accounting(p)
    <3> DEFINE H == {k \in Lines : offer[k].held /\ offer[k].product = p}
               N == {k \in Lines : offer'[k].held /\ offer'[k].product = p}
    <3>1. /\ HeldUnits(p, Lines) = Units(H) /\ HeldUnits(p, Lines)' = Units(N)
          /\ ReservedUnits(p, Lines)' = ReservedUnits(p, Lines)
          /\ ReservedUnits(p, Lines) \in Nat /\ stock[p] \in Nat
      BY <2>2, UnitsNat DEF HeldUnits, ReservedUnits, RowsInv, RowsOK
    <3>2. CASE p = q
      <4>1. N = H \cup {l} /\ l \notin H /\ H \in SUBSET Lines
        BY <2>1, <2>4, <3>2
      <4>2. Units(N) = Units(H) + Qty[l] /\ Units(H) \in Nat /\ Qty[l] \in Nat
        BY <2>1, <4>1, OneMoreLine
      <4>3. stock'[p] = stock[p] - Qty[l]
        BY <2>2, <3>2 DEF Hold, RowsInv, RowsOK
      <4> HIDE DEF H, N
      <4> QED
        BY <3>1, <4>2, <4>3 DEF Accounting
    <3>3. CASE p # q
      <4>1. N = H
        BY <2>1, <2>4, <3>3
      <4>2. stock'[p] = stock[p]
        BY <2>2, <3>3 DEF Hold, RowsInv, RowsOK
      <4> QED
        BY <3>1, <4>1, <4>2 DEF Accounting
    <3> QED
      BY <3>2, <3>3
  <2> QED
    BY <2>5, <2>6 DEF Balanced
<1> QED
  BY <1>1, <1>2

\* apply_offer turns the hold into the reservation of a line that has none.
LEMMA ApplyOfferBalanced ==
    ASSUME RowsInv, NEW o \in Orders, NEW l \in LinesOf(o), NotYet(l), ApplyOffer(o, l)
    PROVE  Balanced /\ Ahead(o) /\ Through(l)'
<1>0. l \in Lines /\ OrderOf[l] = o
  BY DEF LinesOf
<1>1. CASE offer[l].status = "accepted"
  <2>1. UNCHANGED db
    BY <1>1 DEF ApplyOffer
  <2> QED
    BY <1>1, <2>1, NothingMoves DEF db, Through
<1>2. CASE offer[l].status # "accepted"
  <2>1. /\ offer[l].held /\ ~line[l].reserved
        /\ line' = [line EXCEPT ![l].product = offer[l].product,
                                ![l].price = offer[l].price,
                                ![l].reserved = TRUE]
        /\ offer' = [offer EXCEPT ![l].held = FALSE, ![l].status = "accepted"]
        /\ UNCHANGED stock
    BY <1>2 DEF ApplyOffer, NotYet
  <2>2. /\ line'[l].reserved /\ line'[l].product = offer[l].product
        /\ line'[l].dropped = line[l].dropped
        /\ \A k \in Lines \ {l} : line'[k] = line[k]
    BY <1>0, <2>1 DEF RowsInv, RowsOK, LineRow
  <2>3. /\ ~offer'[l].held /\ offer'[l].status = "accepted"
        /\ \A k \in Lines \ {l} : offer'[k] = offer[k]
    BY <1>0, <2>1 DEF RowsInv, RowsOK, OfferRow
  <2>4. Ahead(o) /\ Through(l)'
    BY <1>0, <2>1, <2>2, <2>3 DEF Ahead, Through, NotYet
  <2>5. ASSUME NEW p \in Products
        PROVE  Accounting(p)' = Accounting(p)
    <3> DEFINE H == {k \in Lines : offer[k].held /\ offer[k].product = p}
               I == {k \in Lines : offer'[k].held /\ offer'[k].product = p}
               R == {k \in Lines : line[k].reserved /\ line[k].product = p}
               S == {k \in Lines : line'[k].reserved /\ line'[k].product = p}
    <3>1. /\ HeldUnits(p, Lines) = Units(H) /\ HeldUnits(p, Lines)' = Units(I)
          /\ ReservedUnits(p, Lines) = Units(R) /\ ReservedUnits(p, Lines)' = Units(S)
          /\ stock'[p] = stock[p] /\ stock[p] \in Nat
      BY <2>1 DEF HeldUnits, ReservedUnits, RowsInv, RowsOK
    <3>2. CASE p = offer[l].product
      <4>1. H = I \cup {l} /\ l \notin I /\ I \in SUBSET Lines
        BY <1>0, <2>1, <2>3, <3>2
      <4>2. S = R \cup {l} /\ l \notin R /\ R \in SUBSET Lines
        BY <1>0, <2>1, <2>2, <3>2
      <4>3. Units(H) = Units(I) + Qty[l] /\ Units(I) \in Nat /\ Qty[l] \in Nat
        BY <1>0, <4>1, OneMoreLine
      <4>4. Units(S) = Units(R) + Qty[l] /\ Units(R) \in Nat
        BY <1>0, <4>2, OneMoreLine
      <4> HIDE DEF H, I, R, S
      <4> QED
        BY <3>1, <4>3, <4>4 DEF Accounting
    <3>3. CASE p # offer[l].product
      <4>1. H = I /\ R = S
        BY <1>0, <2>1, <2>2, <2>3, <3>3
      <4> QED
        BY <3>1, <4>1 DEF Accounting
    <3> QED
      BY <3>2, <3>3
  <2> QED
    BY <2>4, <2>5 DEF Balanced
<1> QED
  BY <1>1, <1>2

\* drop_line returns the units of the line's hold to the stock.
LEMMA DropLineBalanced ==
    ASSUME RowsInv, NEW o \in Orders, NEW l \in LinesOf(o), DropLine(o, l)
    PROVE  Balanced /\ Ahead(o) /\ Through(l)'
<1>0. l \in Lines /\ OrderOf[l] = o
  BY DEF LinesOf
<1>1. CASE line[l].dropped
  <2>1. UNCHANGED db
    BY <1>1 DEF DropLine, DropDone
  <2> QED
    BY <1>1, <2>1, NothingMoves DEF db, Through
<1>2. CASE ~line[l].dropped
  <2>1. CloseOffer(l) /\ line' = [line EXCEPT ![l].dropped = TRUE]
    BY <1>2 DEF DropLine, DropDone
  <2>2. /\ line'[l].dropped
        /\ \A k \in Lines : /\ line'[k].reserved = line[k].reserved
                            /\ line'[k].product = line[k].product
                            /\ line[k].dropped => line'[k].dropped
    BY <1>0, <2>1 DEF RowsInv, RowsOK, LineRow
  <2>3. /\ ~offer'[l].held /\ offer'[l].status = Closed(offer[l])
        /\ \A k \in Lines \ {l} : offer'[k] = offer[k]
    BY <1>0, <2>1 DEF CloseOffer, RowsInv, RowsOK, OfferRow
  <2>4. Ahead(o) /\ Through(l)'
    <3>1. \A k \in Lines : offer[k].status = "accepted" => offer'[k].status = "accepted"
      BY <2>3 DEF Closed
    <3> QED
      BY <1>0, <2>2, <3>1 DEF Ahead, Through, NotYet
  <2>5. ASSUME NEW p \in Products
        PROVE  Accounting(p)' = Accounting(p)
    <3> DEFINE H == {k \in Lines : offer[k].held /\ offer[k].product = p}
               I == {k \in Lines : offer'[k].held /\ offer'[k].product = p}
    <3>1. /\ HeldUnits(p, Lines) = Units(H) /\ HeldUnits(p, Lines)' = Units(I)
          /\ ReservedUnits(p, Lines)' = ReservedUnits(p, Lines)
          /\ ReservedUnits(p, Lines) \in Nat /\ stock[p] \in Nat
      <4>1. {k \in Lines : line'[k].reserved /\ line'[k].product = p}
            = {k \in Lines : line[k].reserved /\ line[k].product = p}
        BY <2>2
      <4> QED
        BY <4>1, UnitsNat DEF HeldUnits, ReservedUnits, RowsInv, RowsOK
    <3>2. CASE offer[l].held /\ p = offer[l].product
      <4>1. H = I \cup {l} /\ l \notin I /\ I \in SUBSET Lines
        BY <1>0, <2>3, <3>2
      <4>2. Units(H) = Units(I) + Qty[l] /\ Units(I) \in Nat /\ Qty[l] \in Nat
        BY <1>0, <4>1, OneMoreLine
      <4>3. stock'[p] = stock[p] + Qty[l]
        BY <2>1, <3>2 DEF CloseOffer, RowsInv, RowsOK
      <4> HIDE DEF H, I
      <4> QED
        BY <3>1, <4>2, <4>3 DEF Accounting
    <3>3. CASE ~(offer[l].held /\ p = offer[l].product)
      <4>1. H = I
        BY <1>0, <2>3, <3>3
      <4>2. stock'[p] = stock[p]
        BY <2>1, <3>3 DEF CloseOffer, RowsInv, RowsOK
      <4> QED
        BY <3>1, <4>1, <4>2 DEF Accounting
    <3> QED
      BY <3>2, <3>3
  <2> QED
    BY <2>4, <2>5 DEF Balanced
<1> QED
  BY <1>1, <1>2

\* cancel returns all reservations and holds of the order to the stock.
LEMMA CancelBalanced ==
    ASSUME RowsInv, NEW o \in Orders, Cancel(o)
    PROVE  Balanced /\ Ahead(o)
<1>1. CASE UNCHANGED db
  BY <1>1, NothingMoves DEF db
<1>2. CASE ~(UNCHANGED db)
  <2>1. /\ stock' = [p \in Products |-> stock[p] + ReservedUnits(p, LinesOf(o))
                                                 + HeldUnits(p, LinesOf(o))]
        /\ line' = [l \in Lines |-> IF OrderOf[l] = o
                                    THEN [line[l] EXCEPT !.reserved = FALSE]
                                    ELSE line[l]]
        /\ offer' = [l \in Lines |->
                       IF OrderOf[l] = o
                       THEN [offer[l] EXCEPT !.held = FALSE,
                                             !.status = Closed(offer[l])]
                       ELSE offer[l]]
    BY <1>2 DEF Cancel
  <2>2. \A l \in Lines : /\ line'[l].reserved <=> (line[l].reserved /\ OrderOf[l] # o)
                         /\ line'[l].product = line[l].product
                         /\ line'[l].dropped = line[l].dropped
    BY <2>1 DEF RowsInv, RowsOK, LineRow
  <2>3. \A l \in Lines : /\ offer'[l].held <=> (offer[l].held /\ OrderOf[l] # o)
                         /\ offer'[l].product = offer[l].product
                         /\ offer[l].status = "accepted" => offer'[l].status = "accepted"
    BY <2>1 DEF RowsInv, RowsOK, OfferRow, Closed
  <2>4. Ahead(o)
    BY <2>2, <2>3 DEF Ahead, Through, NotYet
  <2>5. ASSUME NEW p \in Products
        PROVE  Accounting(p)' = Accounting(p)
    <3> DEFINE H == {k \in Lines : offer[k].held /\ offer[k].product = p}
               I == {k \in Lines : offer'[k].held /\ offer'[k].product = p}
               J == {k \in LinesOf(o) : offer[k].held /\ offer[k].product = p}
               R == {k \in Lines : line[k].reserved /\ line[k].product = p}
               S == {k \in Lines : line'[k].reserved /\ line'[k].product = p}
               T == {k \in LinesOf(o) : line[k].reserved /\ line[k].product = p}
    <3>1. /\ HeldUnits(p, Lines) = Units(H) /\ HeldUnits(p, Lines)' = Units(I)
          /\ ReservedUnits(p, Lines) = Units(R) /\ ReservedUnits(p, Lines)' = Units(S)
          /\ stock'[p] = stock[p] + Units(T) + Units(J) /\ stock[p] \in Nat
      BY <2>1 DEF HeldUnits, ReservedUnits, RowsInv, RowsOK
    <3>2. H = I \cup J /\ I \cap J = {} /\ I \in SUBSET Lines /\ J \in SUBSET Lines
      BY <2>3 DEF LinesOf
    <3>3. R = S \cup T /\ S \cap T = {} /\ S \in SUBSET Lines /\ T \in SUBSET Lines
      BY <2>2 DEF LinesOf
    <3> HIDE DEF H, I, J, R, S, T
    <3>4. Units(H) = Units(I) + Units(J) /\ Units(I) \in Nat /\ Units(J) \in Nat
      BY <3>2, UnitsDisjoint, UnitsNat
    <3>5. Units(R) = Units(S) + Units(T) /\ Units(S) \in Nat /\ Units(T) \in Nat
      BY <3>3, UnitsDisjoint, UnitsNat
    <3> QED
      BY <3>1, <3>4, <3>5 DEF Accounting
  <2> QED
    BY <2>4, <2>5 DEF Balanced
<1> QED
  BY <1>1, <1>2

-----------------------------------------------------------------------------
\* The lines a checkpoint may be about: of other orders, done with, or in work.
Remembered(o) == {l \in Lines : \/ OrderOf[l] # o \/ Through(l)
                                \/ live[o].at \in LineNodes /\ l = live[o].missing}

\* A drive that saves a checkpoint stays ahead of the stored ones, if the node
\* it ran did, and is through with its line or goes on with it.
LEMMA SaveAhead ==
    ASSUME StockInv, NEW w \in Workers, NEW o \in Orders, lock[o] = w,
           NEW c \in Checkpoint, Save(o, c),
           \A l \in Lines : /\ Through(l) => Through(l)'
                            /\ line'[l].reserved => line[l].reserved \/ OrderOf[l] = o,
           \A l \in Remembered(o) : NotYet(l) => NotYet(l)',
           c.at \in LineNodes => NotYet(c.missing)',
           NEW m, m = live[o].missing,
           live[o].at \in LineNodes =>
              Through(m)' \/ (c.at \in LineNodes /\ c.missing = m),
           \A q \in Orders : Placed(q) => Placed(q)'
    PROVE  LinesAhead' /\ OnlyPlacedReserve'
<1> USE TypeInvParts DEF StockInv
<1>0. TypeInv /\ ControlOK /\ LinesAhead /\ Placed(o) /\ w # NoWorker
  BY RunningFits, WorkflowAssumption
<1>1. /\ live'[o] = c /\ stale'[o] \subseteq stale[o] \cup {live[o]}
      /\ \A q \in Orders \ {o} : live'[q] = live[q] /\ stale'[q] = stale[q]
      /\ UNCHANGED lock
  BY <1>0 DEF Save, ControlOK
<1>2. \A q \in Orders : \A d \in stale[q] \cup {live[q]} :
         d.at \in LineNodes => d.missing \in Lines /\ OrderOf[d.missing] = q
  BY <1>0 DEF CheckpointsOK, OfOrder, LinesOf
<1>3. ASSUME NEW d \in stale'[o] \cup {live'[o]}, d.at \in LineNodes
      PROVE  /\ NotYet(d.missing)'
             /\ \/ Through(d.missing)'
                \/ c.at \in LineNodes /\ c.missing = d.missing
  <2>1. CASE d = c
    BY <1>3, <2>1
  <2>2. CASE d \in stale[o] \cup {live[o]}
    <3>1. NotYet(d.missing) /\ d.missing \in Lines
      BY <1>0, <1>2, <1>3, <2>2 DEF LinesAhead
    <3>2. Through(d.missing) \/ (live[o].at \in LineNodes /\ live[o].missing = d.missing)
      BY <1>0, <1>3, <2>2 DEF LinesAhead
    <3>3. d.missing \in Remembered(o)
      BY <3>1, <3>2 DEF Remembered
    <3> QED
      BY <3>1, <3>2, <3>3
  <2> QED
    BY <1>1, <2>1, <2>2
<1>4. ASSUME NEW q \in Orders \ {o}, NEW d \in stale[q] \cup {live[q]}, d.at \in LineNodes
      PROVE  NotYet(d.missing)' /\ (Through(d.missing) => Through(d.missing)')
  <2>1. d.missing \in Remembered(o) /\ NotYet(d.missing)
    BY <1>0, <1>2, <1>4 DEF LinesAhead, Remembered
  <2> QED
    BY <2>1 DEF Remembered
<1>5. LinesAhead'
  <2>1. ~Unlocked(o)'
    BY <1>0, <1>1 DEF Unlocked
  <2> SUFFICES ASSUME NEW q \in Orders
        PROVE  /\ \A d \in stale'[q] \cup {live'[q]} : d.at \in LineNodes => NotYet(d.missing)'
               /\ \A d \in stale'[q] : d.at \in LineNodes =>
                     \/ Through(d.missing)'
                     \/ live'[q].at \in LineNodes /\ live'[q].missing = d.missing
               /\ Unlocked(q)' => stale'[q] = {}
    BY DEF LinesAhead
  <2>2. CASE q = o
    BY <1>1, <1>3, <2>1, <2>2
  <2>3. CASE q # o
    <3>1. live'[q] = live[q] /\ stale'[q] = stale[q] /\ (Unlocked(q)' <=> Unlocked(q))
      BY <1>1, <2>3 DEF Unlocked
    <3>2. /\ \A d \in stale[q] : d.at \in LineNodes =>
                \/ Through(d.missing)
                \/ live[q].at \in LineNodes /\ live[q].missing = d.missing
          /\ Unlocked(q) => stale[q] = {}
      BY <1>0 DEF LinesAhead
    <3> QED
      BY <1>4, <2>3, <3>1, <3>2
  <2> QED
    BY <2>2, <2>3
<1>6. OnlyPlacedReserve'
  BY <1>0, OrderAssumption DEF OnlyPlacedReserve
<1> QED
  BY <1>5, <1>6

LEMMA ConservedAgain ==
    ASSUME StockConserved, Balanced
    PROVE  StockConserved'
BY DEF StockConserved, Balanced, Accounting

\* A node goes on: what it did to the rows, then its checkpoint.
LEMMA GoToStock ==
    ASSUME StockInv, NEW w \in Workers, NEW o \in Orders, lock[o] = w,
           NEW n \in Nodes, GoTo(o, n), Balanced, Ahead(o), TypeInv',
           NEW m, m = live[o].missing,
           \/ live[o].at \notin LineNodes /\ n \notin LineNodes
           \/ live[o].at \in LineNodes /\ n \in LineNodes
           \/ live[o].at \in LineNodes /\ Through(m)' /\ n \notin LineNodes,
           \A q \in Orders : Placed(q) => Placed(q)'
    PROVE  StockInv'
<1> DEFINE c == [live[o] EXCEPT !.at = n, !.asked = FALSE]
<1>1. TypeInv /\ live[o] \in Checkpoint /\ LinesAhead
  BY TypeInvParts DEF ControlOK, StockInv
<1>2. c \in Checkpoint /\ c.at = n /\ c.missing = m
  BY <1>1 DEF Checkpoint
<1>3. Save(o, c)
  BY DEF GoTo
<1>4. live[o].at \in LineNodes => NotYet(m) /\ m \in Lines
  BY <1>1, TypeInvParts DEF LinesAhead, CheckpointsOK, OfOrder, LinesOf
<1>5. live[o].at \in LineNodes => NotYet(m)'
  BY <1>4 DEF Ahead
<1>6. \A l \in Remembered(o) : NotYet(l) => NotYet(l)'
  BY DEF Remembered, Ahead
<1> HIDE DEF c
<1>7. LinesAhead' /\ OnlyPlacedReserve'
  BY <1>2, <1>3, <1>5, <1>6, SaveAhead DEF Ahead
<1> QED
  BY <1>7, ConservedAgain DEF StockInv

LEMMA AskStock ==
    ASSUME StockInv, NEW w \in Workers, NEW o \in Orders, lock[o] = w,
           Ask(o), Balanced, Ahead(o), TypeInv',
           \A q \in Orders : Placed(q) => Placed(q)'
    PROVE  StockInv'
<1> DEFINE c == [live[o] EXCEPT !.asked = TRUE]
           m == live[o].missing
<1>1. TypeInv /\ live[o] \in Checkpoint /\ LinesAhead
  BY TypeInvParts DEF ControlOK, StockInv
<1>2. c \in Checkpoint /\ c.at = live[o].at /\ c.missing = m
  BY <1>1 DEF Checkpoint
<1>3. Save(o, c)
  BY DEF Ask
<1>4. live[o].at \in LineNodes => NotYet(m) /\ m \in Lines
  BY <1>1, TypeInvParts DEF LinesAhead, CheckpointsOK, OfOrder, LinesOf
<1>5. ASSUME NEW k, k = live[o].missing, live[o].at \in LineNodes
      PROVE  NotYet(k)'
  BY <1>4, <1>5 DEF Ahead
<1>6. \A l \in Remembered(o) : NotYet(l) => NotYet(l)'
  BY DEF Remembered, Ahead
<1> HIDE DEF c
<1>7. LinesAhead' /\ OnlyPlacedReserve'
  BY <1>2, <1>3, <1>5, <1>6, SaveAhead DEF Ahead
<1> QED
  BY <1>7, ConservedAgain DEF StockInv

\* inventory reserves no line that a checkpoint works on, or worked on.
LEMMA CheckStockStock ==
    ASSUME StockInv, NEW w \in Workers, NEW o \in Orders, CheckStock(w, o), TypeInv'
    PROVE  StockInv'
<1>0. RowsInv /\ lock[o] = w /\ live[o].at = "inventory" /\ Placed(o) /\ RowsOK
  BY TypeInvParts, RunningFits DEF StockInv, CheckStock, Running, RowsInv
<1>1. PICK got \in SUBSET Wanted(o) :
         /\ Inventory(o, got)
         /\ \/ Save(o, [at |-> IF Active(o) = {} THEN "cancel" ELSE "fulfill",
                        missing |-> NoLine, asked |-> FALSE])
            \/ \E l \in Wanted(o) \ got :
                  Save(o, [at |-> "offer", missing |-> l, asked |-> FALSE])
  BY DEF CheckStock
<1>2. /\ Balanced
      /\ \A l \in Lines : /\ Through(l) => Through(l)'
                          /\ l \notin got => line'[l] = line[l]
                          /\ l \in got => ~line[l].dropped /\ OrderOf[l] = o
                          /\ offer'[l] = offer[l]
  BY <1>0, <1>1, InventoryBalanced
<1>3. \A q \in Orders : Placed(q) => Placed(q)'
  BY <1>0, <1>1, StillPlaced
<1>4. \A l \in Remembered(o) : NotYet(l) => NotYet(l)'
  BY <1>0, <1>2 DEF Remembered, NotYet, Through, LineNodes
<1>5. \A l \in Lines : line'[l].reserved => line[l].reserved \/ OrderOf[l] = o
  BY <1>2
<1>6. ASSUME NEW c \in Checkpoint, Save(o, c), c.at \in LineNodes => NotYet(c.missing)'
      PROVE  StockInv'
  <2>1. LinesAhead' /\ OnlyPlacedReserve'
    BY <1>0, <1>2, <1>3, <1>4, <1>5, <1>6, SaveAhead DEF LineNodes
  <2> QED
    BY <1>2, <2>1, ConservedAgain DEF StockInv
<1>7. CASE Save(o, [at |-> IF Active(o) = {} THEN "cancel" ELSE "fulfill",
                    missing |-> NoLine, asked |-> FALSE])
  <2> DEFINE c == [at |-> IF Active(o) = {} THEN "cancel" ELSE "fulfill",
                   missing |-> NoLine, asked |-> FALSE]
  <2>1. c \in Checkpoint /\ c.at \notin LineNodes
    BY DEF Checkpoint, Nodes, LineNodes
  <2> HIDE DEF c
  <2>2. Save(o, c)
    BY <1>7 DEF c
  <2> QED
    BY <1>6, <2>1, <2>2
<1>8. ASSUME NEW l \in Wanted(o) \ got,
             Save(o, [at |-> "offer", missing |-> l, asked |-> FALSE])
      PROVE  StockInv'
  <2> DEFINE c == [at |-> "offer", missing |-> l, asked |-> FALSE]
  <2>1. l \in Lines /\ ~line[l].reserved
    BY DEF Wanted, Active, LinesOf
  <2>2. NotYet(l)'
    BY <1>2, <2>1 DEF NotYet
  <2>3. c \in Checkpoint /\ c.missing = l
    BY <2>1 DEF Checkpoint, Nodes
  <2> QED
    BY <1>6, <1>8, <2>2, <2>3
<1> QED
  BY <1>1, <1>7, <1>8

LEMMA NodeStock ==
    ASSUME StockInv, NEW w \in Workers, NEW o \in Orders, Node(w, o)
    PROVE  StockInv'
<1>0. lock[o] = w /\ TypeInv /\ RowsInv /\ RowsOK /\ LinesAhead
  BY TypeInvParts DEF StockInv, Node, Fraud, AskAuditor, AuditorAnswered, CheckStock, Offer,
     AskCustomer, CustomerAnswered, Apply, Drop, Ship, Refuse, Running, RowsInv
<1>1. Placed(o) /\ (live[o].at \in LineNodes => live[o].missing \in LinesOf(o))
  BY <1>0, RunningFits
<1>2. TypeInv'
  BY <1>0, NodeTypeInv
<1>3. UNCHANGED <<stock, line, offer>> => Balanced /\ Ahead(o)
  BY NothingMoves
<1> USE DEF Running, Nodes, LineNodes
<1>4. CASE Fraud(w, o) \/ AskAuditor(w, o) \/ AuditorAnswered(w, o)
  <2>1. Balanced /\ Ahead(o)
    BY <1>3, <1>4 DEF Fraud, AskAuditor, AuditorAnswered, FlagAudit, db
  <2>2. \A q \in Orders : Placed(q) => Placed(q)'
    BY <1>0, <1>1, <1>4, StillPlaced DEF Fraud, AskAuditor, AuditorAnswered
  <2>3. Ask(o) \/ GoTo(o, "manual") \/ GoTo(o, "inventory") \/ GoTo(o, "cancel")
    BY <1>4 DEF Fraud, AskAuditor, AuditorAnswered
  <2>4. live[o].at \notin LineNodes
    BY <1>4 DEF Fraud, AskAuditor, AuditorAnswered
  <2> QED
    BY <1>0, <1>2, <2>1, <2>2, <2>3, <2>4, GoToStock, AskStock
<1>5. CASE CheckStock(w, o)
  BY <1>2, <1>5, CheckStockStock
<1>6. CASE Offer(w, o)
  <2>1. PICK hint : CreateOffer(o, live[o].missing, hint)
    BY <1>6 DEF Offer
  <2>2. live[o].at = "offer" /\ live[o].missing \in LinesOf(o)
    BY <1>1, <1>6 DEF Offer
  <2>3. Balanced /\ Ahead(o) /\ \A q \in Orders : Placed(q) => Placed(q)'
    BY <1>0, <1>1, <2>1, <2>2, CreateOfferBalanced, StillPlaced
  <2>4. GoTo(o, "wait_customer") \/ GoTo(o, "drop_line")
    BY <1>6 DEF Offer
  <2> QED
    BY <1>0, <1>2, <2>2, <2>3, <2>4, GoToStock
<1>7. CASE AskCustomer(w, o) \/ CustomerAnswered(w, o)
  <2>1. Balanced /\ Ahead(o) /\ \A q \in Orders : Placed(q) => Placed(q)'
    BY <1>3, <1>7 DEF AskCustomer, CustomerAnswered, db, Placed
  <2>2. live[o].at = "wait_customer"
        /\ (Ask(o) \/ GoTo(o, "apply") \/ GoTo(o, "drop_line"))
    BY <1>7 DEF AskCustomer, CustomerAnswered
  <2> QED
    BY <1>0, <1>2, <2>1, <2>2, GoToStock, AskStock
<1>8. ASSUME NEW m, m = live[o].missing, Apply(w, o) \/ Drop(w, o)
      PROVE  StockInv'
  <2>1. m \in LinesOf(o) /\ live[o].at \in LineNodes /\ GoTo(o, "inventory")
    BY <1>1, <1>8 DEF Apply, Drop
  <2>2. ApplyOffer(o, m) \/ DropLine(o, m)
    BY <1>8 DEF Apply, Drop
  <2>3. NotYet(m)
    BY <1>0, <1>8, <2>1 DEF LinesAhead
  <2>4. Balanced /\ Ahead(o) /\ Through(m)' /\ \A q \in Orders : Placed(q) => Placed(q)'
    BY <1>0, <1>1, <2>1, <2>2, <2>3, ApplyOfferBalanced, DropLineBalanced, StillPlaced
  <2> QED
    BY <1>0, <1>2, <1>8, <2>1, <2>4, GoToStock
<1>9. CASE Ship(w, o) \/ Refuse(w, o)
  <2>1. Fulfill(o) \/ Cancel(o)
    BY <1>9 DEF Ship, Refuse
  <2>2. Fulfill(o) => UNCHANGED <<stock, line, offer>>
    BY DEF Fulfill, db
  <2>3. Balanced /\ Ahead(o) /\ \A q \in Orders : Placed(q) => Placed(q)'
    BY <1>0, <1>1, <1>3, <2>1, <2>2, CancelBalanced, StillPlaced
  <2>4. GoTo(o, "end") /\ live[o].at \notin LineNodes
    BY <1>9 DEF Ship, Refuse
  <2> QED
    BY <1>0, <1>2, <2>3, <2>4, GoToStock
<1> QED
  BY <1>4, <1>5, <1>6, <1>7, <1>8, <1>9 DEF Node

\* Steps that leave lines, stock and checkpoints alone, or forget checkpoints.
LEMMA QuietStock ==
    ASSUME StockInv, TypeInv', UNCHANGED <<stock, line>>,
           \A l \in Lines : /\ offer'[l].held = offer[l].held
                            /\ offer'[l].product = offer[l].product
                            /\ offer'[l].status = offer[l].status,
           \A q \in Orders :
              /\ Placed(q) => Placed(q)'
              /\ \/ /\ live'[q] = live[q] /\ stale'[q] = stale[q]
                    /\ Unlocked(q)' => Unlocked(q)
                 \/ live'[q] \in stale[q] \cup {live[q]} /\ stale'[q] = {}
    PROVE  StockInv'
<1>1. \A q \in Orders : Balanced /\ Ahead(q)
  BY NothingMoves
<1>2. StockConserved'
  <2>1. Balanced
    BY NothingMoves
  <2> QED
    BY <2>1, ConservedAgain DEF StockInv
<1>3. LinesAhead'
  <2>1. \A q \in Orders : \A c \in stale[q] \cup {live[q]} :
           c.at \in LineNodes => c.missing \in Lines
    BY TypeInvParts DEF StockInv, CheckpointsOK, OfOrder, LinesOf
  <2> QED
    BY <1>1, <2>1 DEF LinesAhead, StockInv, Ahead
<1>4. OnlyPlacedReserve'
  BY OrderAssumption DEF OnlyPlacedReserve, StockInv
<1> QED
  BY <1>2, <1>3, <1>4 DEF StockInv

LEMMA PlaceStock ==
    ASSUME StockInv, NEW o \in Orders, Place(o)
    PROVE  StockInv'
<1>0. TypeInv /\ RowsInv /\ ControlOK /\ JobsOK /\ CheckpointsOK /\ LinesAhead
      /\ OnlyPlacedReserve
  BY TypeInvParts DEF StockInv
<1>1. PlaceOrder(o) /\ UNCHANGED <<lock, live, stale>>
  BY DEF Place, graph
<1>2. ~Placed(o) /\ stale[o] = {}
  BY <1>0, <1>1 DEF PlaceOrder, Placed, JobsOK, LinesAhead
<1>3. \A l \in Lines : /\ OrderOf[l] = o => ~line[l].reserved /\ ~line'[l].reserved
                       /\ OrderOf[l] # o => line'[l] = line[l]
                       /\ offer'[l] = offer[l]
  BY <1>0, <1>1, <1>2 DEF OnlyPlacedReserve, PlaceOrder, NoRow
<1>4. StockConserved'
  <2>1. ASSUME NEW p \in Products
        PROVE  ReservedUnits(p, Lines)' = ReservedUnits(p, Lines)
    <3>1. {l \in Lines : line'[l].reserved /\ line'[l].product = p}
          = {l \in Lines : line[l].reserved /\ line[l].product = p}
      BY <1>3
    <3> QED
      BY <3>1 DEF ReservedUnits
  <2> QED
    BY <1>1, <2>1 DEF StockInv, StockConserved, HeldUnits, PlaceOrder
<1>5. LinesAhead'
  <2>1. \A q \in Orders : \A c \in stale[q] \cup {live[q]} :
           c.at \in LineNodes => c.missing \in Lines /\ OrderOf[c.missing] = q
    BY <1>0 DEF CheckpointsOK, OfOrder, LinesOf
  <2>2. \A l \in Lines : NotYet(l) => NotYet(l)'
    BY <1>3 DEF NotYet
  <2>3. \A l \in Lines : OrderOf[l] # o /\ Through(l) => Through(l)'
    BY <1>3 DEF Through
  <2> QED
    BY <1>0, <1>1, <1>2, <2>1, <2>2, <2>3 DEF LinesAhead, Unlocked
<1>6. OnlyPlacedReserve'
  <2>1. \A q \in Orders \ {o} : order'[q] = order[q]
    BY <1>0, <1>1 DEF PlaceOrder, RowsInv, RowsOK
  <2> QED
    BY <1>0, <1>3, <2>1, OrderAssumption DEF OnlyPlacedReserve, Placed
<1> QED
  BY <1>0, <1>4, <1>5, <1>6, PlaceTypeInv DEF StockInv

LEMMA InitStockInv == Init => StockInv
<1> SUFFICES ASSUME Init PROVE StockInv
  OBVIOUS
<1> USE DEF Init, ServicesInit
<1>1. StockConserved
  <2>1. ASSUME NEW p \in Products
        PROVE  stock[p] + ReservedUnits(p, Lines) + HeldUnits(p, Lines) = InitStock[p]
    <3>1. {l \in Lines : line[l].reserved /\ line[l].product = p} = {}
      BY DEF NoRow
    <3>2. {l \in Lines : offer[l].held /\ offer[l].product = p} = {}
      BY DEF NoOffer
    <3>3. InitStock[p] \in Nat /\ stock[p] = InitStock[p]
      BY OrderAssumption
    <3>4. ReservedUnits(p, Lines) = 0
      BY <3>1, UnitsEmpty DEF ReservedUnits
    <3>5. HeldUnits(p, Lines) = 0
      BY <3>2, UnitsEmpty DEF HeldUnits
    <3> QED
      BY <3>3, <3>4, <3>5
  <2> QED
    BY <2>1 DEF StockConserved
<1>2. LinesAhead
  BY DEF LinesAhead, LineNodes, Entry
<1>3. OnlyPlacedReserve
  BY DEF OnlyPlacedReserve, NoRow
<1> QED
  BY <1>1, <1>2, <1>3, InitTypeInv DEF StockInv

LEMMA NextStockInv == StockInv /\ [Next]_vars => StockInv'
<1> SUFFICES ASSUME StockInv, [Next]_vars PROVE StockInv'
  OBVIOUS
<1>0. TypeInv /\ TypeInv' /\ RowsInv /\ ControlOK /\ JobsOK
  BY NextTypeInv, TypeInvParts DEF StockInv
<1>1. CASE UNCHANGED vars
  <2>1. UNCHANGED <<stock, line, offer, order, live, stale, lock>>
    BY <1>1 DEF vars, db, graph
  <2> QED
    BY <1>0, <2>1, QuietStock DEF Placed, Unlocked
<1>2. CASE Next
  <2>1. CASE \E o \in Orders : Place(o)
    BY <2>1, PlaceStock
  <2>2. ASSUME NEW o \in Orders,
               LockForCancel(o) \/ Retry(o) \/ \E w \in Workers : Claim(w, o)
        PROVE  StockInv'
    <3>1. UNCHANGED <<stock, line, offer, order, live, stale>>
      BY <2>2 DEF LockForCancel, Retry, Claim, db, graph
    <3>2. \A q \in Orders : Unlocked(q)' => Unlocked(q)
      BY <1>0, <2>2, WorkflowAssumption
      DEF LockForCancel, Retry, Claim, Unlocked, ControlOK
    <3> QED
      BY <1>0, <3>1, <3>2, QuietStock DEF Placed
  <2>3. ASSUME NEW o \in Orders, CustomerCancel(o)
        PROVE  StockInv'
    <3>1. UNCHANGED <<stock, line, offer, live, stale, lock>>
      BY <2>3 DEF CustomerCancel, CancelledIfReceived, CancelBeforeResolution, db, graph
    <3>2. \A q \in Orders : Placed(q) => Placed(q)'
      <4>1. order[o].status = "received" => Placed(o)
        BY DEF Placed
      <4> QED
        BY <1>0, <2>3, <4>1, StillPlaced
        DEF CustomerCancel, CancelledIfReceived, RowsInv, db, Placed
    <3> QED
      BY <1>0, <3>1, <3>2, QuietStock DEF Unlocked
  <2>4. ASSUME NEW o \in Orders, NEW d \in {"approve", "reject"}, DecideAudit(o, d)
        PROVE  StockInv'
    <3>1. UNCHANGED <<stock, line, offer, live, stale, lock>>
      BY <2>4 DEF DecideAudit, graph
    <3>2. \A q \in Orders : Placed(q) => Placed(q)'
      BY <1>0, <2>4 DEF DecideAudit, Placed, RowsInv, RowsOK, OrderRow
    <3> QED
      BY <1>0, <3>1, <3>2, QuietStock DEF Unlocked
  <2>5. ASSUME NEW l \in Lines,
               \/ \E d \in {"accept", "reject"} : Reply(l, d)
               \/ Deadline(l) \/ \E w \in Workers : ExpireOffer(w, l)
        PROVE  StockInv'
    <3>1. UNCHANGED <<stock, line, order, live, stale, lock>>
      BY <2>5 DEF Reply, Deadline, ExpireOffer, graph
    <3>2. \A k \in Lines : /\ offer'[k].held = offer[k].held
                           /\ offer'[k].product = offer[k].product
                           /\ offer'[k].status = offer[k].status
      BY <1>0, <2>5 DEF Reply, Deadline, ExpireOffer, RowsInv, RowsOK, OfferRow
    <3> QED
      BY <1>0, <3>1, <3>2, QuietStock DEF Placed, Unlocked
  <2>6. ASSUME NEW w \in Workers, NEW o \in Orders, Node(w, o)
        PROVE  StockInv'
    BY <2>6, NodeStock
  <2>7. ASSUME NEW w \in Workers, NEW o \in Orders, Finish(w, o) \/ Failure(w, o)
        PROVE  StockInv'
    <3>1. UNCHANGED <<stock, line, offer, order>>
      BY <2>7 DEF Finish, Failure, Raise, Crash, db
    <3>2. /\ live'[o] \in stale[o] \cup {live[o]} /\ stale'[o] = {}
          /\ \A q \in Orders \ {o} : /\ live'[q] = live[q] /\ stale'[q] = stale[q]
                                     /\ lock'[q] = lock[q]
      BY <1>0, <2>7 DEF Finish, Failure, Raise, Crash, ControlOK
    <3> QED
      BY <1>0, <3>1, <3>2, QuietStock DEF Placed, Unlocked
  <2>8. CASE Sleep
    BY <1>1, <2>8 DEF Sleep
  <2> QED
    BY <1>2, <2>1, <2>2, <2>3, <2>4, <2>5, <2>6, <2>7, <2>8 DEF Next
<1> QED
  BY <1>1, <1>2

\* No unit is lost or sold twice, whatever the interleaving of the orders, and
\* however far behind the checkpoint a failed drive goes on from.
THEOREM StockSafety == Spec => []StockConserved
<1>1. StockInv => StockConserved
  BY DEF StockInv
<1> QED
  BY <1>1, InitStockInv, NextStockInv, PTL DEF Spec

\* The reason for it: a replay meets no line it could take stock for twice.
THEOREM LinesAheadSafety == Spec => []LinesAhead
<1>1. StockInv => LinesAhead
  BY DEF StockInv
<1> QED
  BY <1>1, InitStockInv, NextStockInv, PTL DEF Spec

-----------------------------------------------------------------------------
(*****************************************************************************)
(* The decisions of customers and auditors, and what a line may cost:        *)
(* DecisionFinal, CustomerDecides, ReviewGate and BillNeverIncreases.        *)
(*****************************************************************************)

OffersKept == \A l \in Lines : /\ offer'[l].decision = offer[l].decision
                               /\ offer[l].status # "none" => offer'[l].status # "none"
AuditsKept == \A o \in Orders : order'[o].manual = order[o].manual

\* No transaction of a node or of a handler rewrites a decision.
LEMMA TransactionKeeps ==
    ASSUME RowsInv, Made, NEW o \in Orders,
           \/ UNCHANGED db \/ PlaceOrder(o) \/ FlagAudit(o)
           \/ \E got : Inventory(o, got)
           \/ \E hint : \E l \in Lines : CreateOffer(o, l, hint)
           \/ \E l \in Lines : ApplyOffer(o, l) \/ DropLine(o, l)
           \/ Fulfill(o) \/ Cancel(o) \/ CancelBeforeResolution(o)
    PROVE  OffersKept /\ AuditsKept
<1> USE DEF RowsInv, RowsOK, OffersKept, AuditsKept
<1>1. CASE UNCHANGED db
  BY <1>1 DEF db
<1>2. CASE UNCHANGED offer /\ (PlaceOrder(o) \/ FlagAudit(o)
                               \/ CancelBeforeResolution(o))
  <2>1. CASE PlaceOrder(o)
    <3>1. PICK high \in BOOLEAN, method \in {"prepaid", "cod"} :
             order' = [order EXCEPT ![o].status = "received",
                                    ![o].high = high, ![o].method = method]
      BY <2>1 DEF PlaceOrder
    <3> QED
      BY <1>2, <3>1 DEF OrderRow
  <2>2. CASE FlagAudit(o) \/ CancelBeforeResolution(o)
    <3>1. \/ order' = [order EXCEPT ![o].status = "manual_review"]
          \/ order' = [order EXCEPT ![o].status = RefusedStatus(o), ![o].acted = TRUE]
      BY <2>2 DEF FlagAudit, CancelBeforeResolution
    <3> QED
      BY <1>2, <3>1 DEF OrderRow
  <2> QED
    BY <1>2, <2>1, <2>2
<1>3. CASE \E got : Inventory(o, got)
  <2>1. PICK got : Inventory(o, got)
    BY <1>3
  <2>2. UNCHANGED offer /\ order' = [order EXCEPT ![o].shortage = @ \/ got # Wanted(o)]
    BY <2>1 DEF Inventory
  <2> QED
    BY <2>2 DEF OrderRow
<1>4. CASE \E hint : \E l \in Lines : CreateOffer(o, l, hint)
  <2>1. PICK hint, l : l \in Lines /\ CreateOffer(o, l, hint)
    BY <1>4
  <2>2. CASE offer[l].status = "none" /\ ~UNCHANGED db
    <3>1. PICK p : offer' = [offer EXCEPT ![l] = NewOffer(p)]
      BY <2>1, <2>2 DEF CreateOffer
    <3>2. NewOffer(p).decision = "none" /\ NewOffer(p).status = "pending"
      BY DEF NewOffer, NoOffer
    <3>3. order' = [order EXCEPT ![o].status = "awaiting_customer", ![o].acted = TRUE]
      BY <2>1, <2>2 DEF CreateOffer
    <3>4. OffersKept
      BY <2>2, <3>1, <3>2 DEF Made
    <3>5. AuditsKept
      BY <3>3 DEF OrderRow
    <3> QED
      BY <3>4, <3>5
  <2> QED
    BY <1>1, <2>1, <2>2 DEF CreateOffer
<1>5. ASSUME NEW l \in Lines, ApplyOffer(o, l) \/ DropLine(o, l), ~UNCHANGED db
      PROVE  OffersKept /\ AuditsKept
  <2>1. /\ UNCHANGED order
        /\ \/ offer' = [offer EXCEPT ![l].held = FALSE, ![l].status = "accepted"]
           \/ offer' = [offer EXCEPT ![l].held = FALSE, ![l].status = Closed(offer[l])]
    BY <1>5 DEF ApplyOffer, DropLine, CloseOffer
  <2>2. Closed(offer[l]) = "none" <=> offer[l].status = "none"
    BY ClosedType
  <2> QED
    BY <2>1, <2>2 DEF OfferRow
<1>6. CASE Fulfill(o) /\ ~UNCHANGED db
  <2>1. /\ UNCHANGED offer
        /\ order' = [order EXCEPT ![o].recovered = order[o].shortage,
                                  ![o].status = "ready_for_fulfillment",
                                  ![o].acted = TRUE]
    BY <1>6 DEF Fulfill
  <2> QED
    BY <2>1 DEF OrderRow
<1>7. CASE Cancel(o) /\ ~UNCHANGED db
  <2>1. /\ offer' = [l \in Lines |->
                       IF OrderOf[l] = o
                       THEN [offer[l] EXCEPT !.held = FALSE,
                                             !.status = Closed(offer[l])]
                       ELSE offer[l]]
        /\ order' = [order EXCEPT ![o].status = RefusedStatus(o), ![o].acted = TRUE]
    BY <1>7 DEF Cancel
  <2>2. \A l \in Lines : Closed(offer[l]) = "none" <=> offer[l].status = "none"
    BY ClosedType
  <2>3. OffersKept
    BY <2>1, <2>2, ZenonT(60) DEF OfferRow
  <2>4. AuditsKept
    BY <2>1 DEF OrderRow
  <2> QED
    BY <2>3, <2>4
<1>8. PlaceOrder(o) \/ FlagAudit(o) \/ CancelBeforeResolution(o) => UNCHANGED offer
  BY DEF PlaceOrder, FlagAudit, CancelBeforeResolution
<1> QED
  BY <1>1, <1>2, <1>3, <1>4, <1>5, <1>6, <1>7, <1>8

\* What a node does to the rows: one transaction, on its own order.
LEMMA NodeRuns ==
    ASSUME TypeInv, NEW w \in Workers, NEW o \in Orders, Node(w, o)
    PROVE  /\ lock[o] = w /\ Placed(o) /\ ~Paused(o)
           /\ live[o].at \in LineNodes => live[o].missing \in LinesOf(o)
           /\ \/ UNCHANGED db \/ FlagAudit(o)
              \/ \E got \in SUBSET Wanted(o) : Inventory(o, got)
              \/ \E hint : \E l \in LinesOf(o) : CreateOffer(o, l, hint)
              \/ \E l \in LinesOf(o) : ApplyOffer(o, l) \/ DropLine(o, l)
              \/ Fulfill(o) \/ Cancel(o)
<1>0. lock[o] = w /\ ~Paused(o)
  BY DEF Node, Fraud, AskAuditor, AuditorAnswered, CheckStock, Offer, AskCustomer,
         CustomerAnswered, Apply, Drop, Ship, Refuse, Running
<1>1. Placed(o) /\ (live[o].at \in LineNodes => live[o].missing \in LinesOf(o))
  BY <1>0, RunningFits
<1>2. Offer(w, o) \/ Apply(w, o) \/ Drop(w, o) => live[o].missing \in LinesOf(o)
  BY <1>1 DEF Offer, Apply, Drop, Running, LineNodes
<1>3. Offer(w, o) => \E hint : \E l \in LinesOf(o) : CreateOffer(o, l, hint)
  BY <1>2 DEF Offer
<1>4. Apply(w, o) \/ Drop(w, o) => \E l \in LinesOf(o) : ApplyOffer(o, l) \/ DropLine(o, l)
  BY <1>2 DEF Apply, Drop
<1>5. CheckStock(w, o) => \E got \in SUBSET Wanted(o) : Inventory(o, got)
  BY DEF CheckStock
<1> QED
  BY <1>0, <1>1, <1>3, <1>4, <1>5 DEF Node, Fraud, AskAuditor, AuditorAnswered,
     AskCustomer, CustomerAnswered, Ship, Refuse

\* What each step may do to what was decided.
LEMMA StepKeeps ==
    ASSUME TypeInv, Made, [Next]_vars
    PROVE  /\ Made'
           /\ \A l \in Lines : offer[l].decision # "none"
                                  => offer'[l].decision = offer[l].decision
           /\ \A o \in Orders : order[o].manual # "none"
                                   => order'[o].manual = order[o].manual
<1>0. RowsInv /\ ControlOK /\ CheckpointsOK
  BY TypeInvParts
<1>1. OffersKept /\ AuditsKept =>
         /\ Made'
         /\ \A l \in Lines : offer[l].decision # "none"
                                => offer'[l].decision = offer[l].decision
         /\ \A o \in Orders : order[o].manual # "none"
                                 => order'[o].manual = order[o].manual
  BY DEF OffersKept, AuditsKept, Made
<1>2. CASE \E o \in Orders :
              \/ UNCHANGED db \/ PlaceOrder(o) \/ FlagAudit(o)
              \/ \E got : Inventory(o, got)
              \/ \E hint : \E l \in Lines : CreateOffer(o, l, hint)
              \/ \E l \in Lines : ApplyOffer(o, l) \/ DropLine(o, l)
              \/ Fulfill(o) \/ Cancel(o) \/ CancelBeforeResolution(o)
  <2>1. OffersKept /\ AuditsKept
    BY <1>0, <1>2, TransactionKeeps
  <2> QED
    BY <1>1, <2>1
<1>3. CASE UNCHANGED db
  <2>1. OffersKept /\ AuditsKept
    BY <1>3 DEF OffersKept, AuditsKept, db
  <2> QED
    BY <1>1, <2>1
<1>4. ASSUME NEW l \in Lines,
             \/ \E d \in {"accept", "reject"} : Reply(l, d)
             \/ Deadline(l) \/ \E w \in Workers : ExpireOffer(w, l)
      PROVE  /\ Made' /\ AuditsKept
             /\ \A k \in Lines : offer[k].decision # "none"
                                    => offer'[k].decision = offer[k].decision
  <2>1. /\ UNCHANGED order
        /\ offer[l].status = "pending"
        /\ \/ /\ offer[l].decision = "none"
              /\ \E d : offer' = [offer EXCEPT ![l].decision = d]
           \/ offer' = [offer EXCEPT ![l].due = TRUE]
    BY <1>4 DEF Reply, Deadline, ExpireOffer, StillOpen
  <2>2. /\ offer'[l].status = "pending"
        /\ offer[l].decision = "none" \/ offer'[l].decision = offer[l].decision
        /\ \A k \in Lines \ {l} : offer'[k] = offer[k]
    BY <1>0, <2>1 DEF RowsInv, RowsOK, OfferRow
  <2> QED
    BY <2>1, <2>2 DEF Made, AuditsKept
<1>5. ASSUME NEW o \in Orders, NEW d, DecideAudit(o, d)
      PROVE  /\ OffersKept
             /\ \A q \in Orders : order[q].manual # "none"
                                     => order'[q].manual = order[q].manual
  BY <1>0, <1>5 DEF DecideAudit, OffersKept, RowsInv, RowsOK
<1>6. ASSUME NEW w \in Workers, NEW o \in Orders, Node(w, o)
      PROVE  \/ UNCHANGED db \/ FlagAudit(o) \/ \E got : Inventory(o, got)
             \/ \E hint : \E l \in Lines : CreateOffer(o, l, hint)
             \/ \E l \in Lines : ApplyOffer(o, l) \/ DropLine(o, l)
             \/ Fulfill(o) \/ Cancel(o)
  BY <1>6, NodeRuns DEF LinesOf
<1>7. CASE UNCHANGED vars
  BY <1>3, <1>7 DEF vars
<1>8. CASE Next
  <2>1. CASE \E o \in Orders :
                Place(o) \/ LockForCancel(o) \/ CustomerCancel(o) \/ Retry(o)
    BY <1>2, <1>3, <2>1 DEF Place, LockForCancel, CustomerCancel, CancelledIfReceived, Retry
  <2>2. CASE \E o \in Orders, d \in {"approve", "reject"} : DecideAudit(o, d)
    BY <1>5, <2>2 DEF OffersKept, Made
  <2>3. CASE \/ \E l \in Lines, d \in {"accept", "reject"} : Reply(l, d)
             \/ \E l \in Lines : Deadline(l)
             \/ \E w \in Workers, l \in Lines : ExpireOffer(w, l)
    BY <1>4, <2>3 DEF AuditsKept
  <2>4. CASE \E w \in Workers, o \in Orders :
                Claim(w, o) \/ Node(w, o) \/ Finish(w, o) \/ Failure(w, o)
    <3>1. PICK w \in Workers, o \in Orders :
             Claim(w, o) \/ Node(w, o) \/ Finish(w, o) \/ Failure(w, o)
      BY <2>4
    <3>2. CASE Node(w, o)
      BY <1>2, <1>6, <3>2
    <3>3. Claim(w, o) \/ Finish(w, o) \/ Failure(w, o) => UNCHANGED db
      BY DEF Claim, Finish, Failure, Raise, Crash
    <3> QED
      BY <1>3, <3>1, <3>2, <3>3
  <2>5. CASE Sleep
    BY <1>7, <2>5 DEF Sleep
  <2> QED
    BY <1>8, <2>1, <2>2, <2>3, <2>4, <2>5 DEF Next
<1> QED
  BY <1>7, <1>8

\* A second answer, the deadline, a second worker or a replay never rewrites what
\* a customer or an auditor decided (reply, decide_audit, expire_offers).
THEOREM DecisionStability == Spec => DecisionFinal
<1>1. Init => Made
  BY DEF Init, ServicesInit, Made, NoOffer
<1>2. TypeInv /\ Made /\ [Next]_vars => Made'
  BY StepKeeps
<1>3. TypeInv /\ Made /\ [Next]_vars =>
         [/\ \A l \in Lines : offer[l].decision # "none"
                                 => offer'[l].decision = offer[l].decision
          /\ \A o \in Orders : order[o].manual # "none"
                                 => order'[o].manual = order[o].manual]_vars
  BY StepKeeps
<1> QED
  BY <1>1, <1>2, <1>3, TypeInvariance, PTL DEF Spec, DecisionFinal

-----------------------------------------------------------------------------
(* The customer decides what replaces a line and whether it is dropped, and *)
(* the auditor whether a risky order is worked on at all.                   *)

\* What a node of order o leaves alone.
OnlyItsOwn(o) ==
    /\ \A q \in Orders \ {o} : order'[q] = order[q]
    /\ order'[o].high = order[o].high /\ order'[o].manual = order[o].manual
    /\ \A l \in Lines \ LinesOf(o) : line'[l] = line[l] /\ offer'[l] = offer[l]
    /\ shipped' \subseteq shipped \cup LinesOf(o)

\* What a node does to its lines: it drops or replaces no line but the one it
\* works on.
LinesDecided(o) ==
    /\ \A l \in Lines : line[l].dropped => line'[l].dropped
    /\ \A l \in Lines : line'[l].product # line[l].product =>
          offer[l].decision = "accept" /\ line'[l].product = offer[l].product

LEMMA TransactionOnlyItsOwn ==
    ASSUME RowsInv, NEW o \in Orders,
           \/ UNCHANGED db \/ FlagAudit(o)
           \/ \E got \in SUBSET Wanted(o) : Inventory(o, got)
           \/ \E hint : \E l \in LinesOf(o) : CreateOffer(o, l, hint)
           \/ \E l \in LinesOf(o) : ApplyOffer(o, l) \/ DropLine(o, l)
           \/ Fulfill(o) \/ Cancel(o) \/ CancelBeforeResolution(o)
    PROVE  OnlyItsOwn(o) /\ LinesDecided(o)
<1> USE DEF RowsInv, RowsOK, OnlyItsOwn, LinesDecided
<1>1. CASE UNCHANGED db
  BY <1>1 DEF db
<1>2. CASE FlagAudit(o) \/ CancelBeforeResolution(o)
  <2>1. /\ UNCHANGED <<line, offer, shipped>>
        /\ \/ order' = [order EXCEPT ![o].status = "manual_review"]
           \/ order' = [order EXCEPT ![o].status = RefusedStatus(o), ![o].acted = TRUE]
    BY <1>2 DEF FlagAudit, CancelBeforeResolution
  <2> QED
    BY <2>1 DEF OrderRow
<1>3. ASSUME NEW got \in SUBSET Wanted(o), Inventory(o, got)
      PROVE  OnlyItsOwn(o) /\ LinesDecided(o)
  <2>1. /\ UNCHANGED <<offer, shipped>>
        /\ order' = [order EXCEPT ![o].shortage = @ \/ got # Wanted(o)]
        /\ line' = [l \in Lines |-> IF l \in got
                                    THEN [line[l] EXCEPT !.reserved = TRUE]
                                    ELSE line[l]]
    BY <1>3 DEF Inventory
  <2>2. got \subseteq LinesOf(o)
    BY DEF Wanted, Active
  <2>3. \A l \in Lines : /\ line'[l].dropped = line[l].dropped
                         /\ line'[l].product = line[l].product
                         /\ l \notin LinesOf(o) => line'[l] = line[l]
    BY <2>1, <2>2 DEF LineRow
  <2>4. /\ \A q \in Orders \ {o} : order'[q] = order[q]
        /\ order'[o].high = order[o].high /\ order'[o].manual = order[o].manual
    BY <2>1 DEF OrderRow
  <2> QED
    BY <2>1, <2>3, <2>4
<1>4. ASSUME NEW hint, NEW l \in LinesOf(o), CreateOffer(o, l, hint), ~UNCHANGED db
      PROVE  OnlyItsOwn(o) /\ LinesDecided(o)
  <2>1. PICK f : offer' = [offer EXCEPT ![l] = f]
    BY <1>4 DEF CreateOffer
  <2>2. /\ UNCHANGED <<line, shipped>>
        /\ order' = [order EXCEPT ![o].status = "awaiting_customer", ![o].acted = TRUE]
    BY <1>4 DEF CreateOffer
  <2>3. l \in Lines
    BY DEF LinesOf
  <2> QED
    BY <2>1, <2>2, <2>3 DEF OrderRow
<1>5. ASSUME NEW l \in LinesOf(o), ApplyOffer(o, l), ~UNCHANGED db
      PROVE  OnlyItsOwn(o) /\ LinesDecided(o)
  <2>1. /\ UNCHANGED <<order, shipped>>
        /\ offer[l].decision = "accept"
        /\ offer' = [offer EXCEPT ![l].held = FALSE, ![l].status = "accepted"]
        /\ line' = [line EXCEPT ![l].product = offer[l].product,
                                ![l].price = offer[l].price,
                                ![l].reserved = TRUE]
    BY <1>5 DEF ApplyOffer
  <2>2. l \in Lines
    BY DEF LinesOf
  <2>3. /\ line'[l].dropped = line[l].dropped /\ line'[l].product = offer[l].product
        /\ \A k \in Lines \ {l} : line'[k] = line[k] /\ offer'[k] = offer[k]
    BY <2>1, <2>2 DEF LineRow
  <2> QED
    BY <2>1, <2>2, <2>3
<1>6. ASSUME NEW l \in LinesOf(o), DropLine(o, l), ~UNCHANGED db
      PROVE  OnlyItsOwn(o) /\ LinesDecided(o)
  <2>1. /\ UNCHANGED <<order, shipped>>
        /\ offer' = [offer EXCEPT ![l].held = FALSE, ![l].status = Closed(offer[l])]
        /\ line' = [line EXCEPT ![l].dropped = TRUE]
    BY <1>6 DEF DropLine, CloseOffer
  <2>2. l \in Lines
    BY DEF LinesOf
  <2>3. /\ line'[l].dropped /\ line'[l].product = line[l].product
        /\ \A k \in Lines \ {l} : line'[k] = line[k] /\ offer'[k] = offer[k]
    BY <2>1, <2>2 DEF LineRow
  <2> QED
    BY <2>1, <2>2, <2>3
<1>7. CASE Fulfill(o) /\ ~UNCHANGED db
  <2>1. /\ UNCHANGED <<line, offer>>
        /\ shipped' = shipped \cup Active(o)
        /\ order' = [order EXCEPT ![o].recovered = order[o].shortage,
                                  ![o].status = "ready_for_fulfillment",
                                  ![o].acted = TRUE]
    BY <1>7 DEF Fulfill
  <2> QED
    BY <2>1 DEF OrderRow, Active
<1>8. CASE Cancel(o) /\ ~UNCHANGED db
  <2>1. /\ UNCHANGED shipped
        /\ line' = [l \in Lines |-> IF OrderOf[l] = o
                                    THEN [line[l] EXCEPT !.reserved = FALSE]
                                    ELSE line[l]]
        /\ offer' = [l \in Lines |->
                       IF OrderOf[l] = o
                       THEN [offer[l] EXCEPT !.held = FALSE,
                                             !.status = Closed(offer[l])]
                       ELSE offer[l]]
        /\ order' = [order EXCEPT ![o].status = RefusedStatus(o), ![o].acted = TRUE]
    BY <1>8 DEF Cancel
  <2>2. \A l \in Lines : /\ line'[l].dropped = line[l].dropped
                         /\ line'[l].product = line[l].product
                         /\ l \notin LinesOf(o) => line'[l] = line[l] /\ offer'[l] = offer[l]
    BY <2>1 DEF LineRow, LinesOf
  <2>3. /\ \A q \in Orders \ {o} : order'[q] = order[q]
        /\ order'[o].high = order[o].high /\ order'[o].manual = order[o].manual
    BY <2>1 DEF OrderRow
  <2> QED
    BY <2>1, <2>2, <2>3
<1> QED
  BY <1>1, <1>2, <1>3, <1>4, <1>5, <1>6, <1>7, <1>8

\* A step that leaves an order and its checkpoints alone, or forgets the newer
\* checkpoints and the answer, leaves its part of the invariant alone.
LEMMA ConsentFrame ==
    ASSUME TypeInv, NEW q \in Orders, Consent(q),
           order'[q].high = order[q].high, order'[q].manual = order[q].manual,
           Placed(q)' <=> Placed(q),
           \A l \in LinesOf(q) : line'[l] = line[l] /\ offer'[l].decision = offer[l].decision
                                 /\ offer'[l].status = offer[l].status,
           shipped' \cap LinesOf(q) \subseteq shipped,
           \/ live'[q] = live[q] /\ stale'[q] = stale[q] /\ resume'[q] = resume[q]
           \/ /\ live'[q] \in stale[q] \cup {live[q]} /\ stale'[q] = {}
              /\ resume'[q] = "none"
    PROVE  Consent(q)'
<1>1. \A c \in stale[q] \cup {live[q]} : /\ c.at \in LineNodes => c.missing \in LinesOf(q)
                                         /\ c.asked => c.at \in {"manual", "wait_customer"}
  BY TypeInvParts DEF CheckpointsOK, OfOrder
<1>2. ~Placed(q)' => Untouched(q)'
  BY DEF Consent, Untouched, LinesOf
<1>3. AnswerCurrent(q)'
  BY <1>1 DEF Consent, AnswerCurrent, Decision, LineNodes
<1>4. DropsRefused(q)'
  BY <1>1 DEF Consent, DropsRefused, MayDrop, LineNodes
<1>5. Gated(q)'
  BY DEF Consent, Gated, LinesOf
<1> QED
  BY <1>2, <1>3, <1>4, <1>5 DEF Consent

\* A node goes on to checkpoint c.
LEMMA SaveConsent ==
    ASSUME TypeInv, NEW o \in Orders, Consent(o), Placed(o)', NEW c, Save(o, c),
           OnlyItsOwn(o), LinesDecided(o),
           live[o].at = "drop_line" => line'[live[o].missing].dropped,
           c.at = "drop_line" => MayDrop(c.missing)',
           order[o].high /\ order[o].manual # "approve" =>
              /\ \A l \in LinesOf(o) : ~line'[l].reserved /\ offer'[l].status = "none"
                                       /\ l \notin shipped'
              /\ c.at \in BeforeAuditor
    PROVE  Consent(o)'
<1>1. live'[o] = c /\ stale'[o] \subseteq stale[o] \cup {live[o]} /\ resume'[o] = "none"
  BY TypeInvParts DEF Save, ControlOK
<1>2. AnswerCurrent(o)'
  BY <1>1 DEF AnswerCurrent
<1>3. DropsRefused(o)'
  <2>1. \A d \in stale[o] : d.at = "drop_line" => d.missing \in Lines
    BY TypeInvParts DEF CheckpointsOK, OfOrder, LineNodes, LinesOf
  <2> QED
    BY <1>1, <2>1 DEF Consent, DropsRefused, LinesDecided
<1>4. Gated(o)'
  BY <1>1 DEF Consent, Gated, LinesOf, OnlyItsOwn
<1> QED
  BY <1>2, <1>3, <1>4 DEF Consent

\* A node touches the rows of its own order only, and drops or replaces no line
\* its customer did not give up.
LEMMA NodeTransaction ==
    ASSUME TypeInv, NEW w \in Workers, NEW o \in Orders, Node(w, o)
    PROVE  /\ OnlyItsOwn(o) /\ LinesDecided(o)
           /\ \A q \in Orders : Placed(q) => Placed(q)'
<1>0. RowsInv /\ RowsOK
  BY TypeInvParts DEF RowsInv
<1>1. OnlyItsOwn(o) /\ LinesDecided(o)
  BY <1>0, NodeRuns, TransactionOnlyItsOwn
<1>2. \/ UNCHANGED db \/ FlagAudit(o) \/ Fulfill(o) \/ Cancel(o)
      \/ \E got : Inventory(o, got)
      \/ \E l, hint : CreateOffer(o, l, hint)
      \/ \E l : ApplyOffer(o, l)
      \/ \E l : DropLine(o, l)
      \/ CancelBeforeResolution(o)
  BY NodeRuns
<1>3. \A q \in Orders : Placed(q) => Placed(q)'
  BY <1>0, <1>2, NodeRuns, StillPlaced
<1> QED
  BY <1>1, <1>3

LEMMA NodeConsent ==
    ASSUME TypeInv, NEW w \in Workers, NEW o \in Orders, Node(w, o), Consent(o)
    PROVE  Consent(o)'
<1>1. /\ lock[o] = w /\ Placed(o) /\ ~Paused(o)
      /\ live[o].at \in LineNodes => live[o].missing \in LinesOf(o)
      /\ OnlyItsOwn(o) /\ LinesDecided(o) /\ Placed(o)'
  BY NodeRuns, NodeTransaction
<1>2. live[o] \in Checkpoint /\ OfOrder(o, live[o]) /\ RowsInv /\ RowsOK
  BY TypeInvParts DEF ControlOK, CheckpointsOK, RowsInv
<1>3. order[o].high /\ order[o].manual # "approve" => live[o].at \in BeforeAuditor
  BY DEF Consent, Gated
<1>4. order[o].high /\ order[o].manual # "approve" =>
         \A l \in LinesOf(o) : ~line[l].reserved /\ offer[l].status = "none" /\ l \notin shipped
  BY DEF Consent, Gated
<1>5. ASSUME NEW n \in Nodes, GoTo(o, n), live[o].at # "drop_line", n # "drop_line",
             order[o].high /\ order[o].manual # "approve" =>
                /\ \A l \in LinesOf(o) : ~line'[l].reserved /\ offer'[l].status = "none"
                                         /\ l \notin shipped'
                /\ n \in BeforeAuditor
      PROVE  Consent(o)'
  <2> DEFINE c == [live[o] EXCEPT !.at = n, !.asked = FALSE]
  <2>1. c.at = n /\ Save(o, c)
    BY <1>2, <1>5 DEF Checkpoint, GoTo
  <2> HIDE DEF c
  <2> QED
    BY <1>1, <1>5, <2>1, SaveConsent
<1>6. ASSUME Ask(o), live[o].at # "drop_line",
             order[o].high /\ order[o].manual # "approve" =>
                \A l \in LinesOf(o) : ~line'[l].reserved /\ offer'[l].status = "none"
                                      /\ l \notin shipped'
      PROVE  Consent(o)'
  <2> DEFINE c == [live[o] EXCEPT !.asked = TRUE]
  <2>1. c.at = live[o].at /\ Save(o, c)
    BY <1>2, <1>6 DEF Checkpoint, Ask
  <2> HIDE DEF c
  <2> QED
    BY <1>1, <1>3, <1>6, <2>1, SaveConsent
<1>7. ASSUME UNCHANGED <<line, offer, shipped>>,
             order[o].high /\ order[o].manual # "approve"
      PROVE  \A l \in LinesOf(o) : ~line'[l].reserved /\ offer'[l].status = "none"
                                   /\ l \notin shipped'
  BY <1>4, <1>7
<1> USE DEF Running, Nodes
<1>8. CASE Fraud(w, o)
  <2>1. /\ live[o].at = "fraud" /\ UNCHANGED <<line, offer, shipped>>
        /\ GoTo(o, IF order[o].high THEN "manual" ELSE "inventory")
    BY <1>8 DEF Fraud, db
  <2> QED
    BY <1>5, <1>7, <2>1 DEF BeforeAuditor
<1>9. CASE AskAuditor(w, o)
  <2>1. live[o].at = "manual" /\ UNCHANGED <<line, offer, shipped>> /\ Ask(o)
    BY <1>9 DEF AskAuditor, FlagAudit
  <2> QED
    BY <1>6, <1>7, <2>1
<1>10. CASE AuditorAnswered(w, o)
  <2>1. /\ live[o].at = "manual" /\ UNCHANGED <<line, offer, shipped>>
        /\ GoTo(o, IF resume[o] = "approve" THEN "inventory" ELSE "cancel")
    BY <1>10 DEF AuditorAnswered, FlagAudit
  <2>2. resume[o] = "approve" => order[o].manual = "approve"
    BY <1>10, <2>1 DEF AuditorAnswered, Consent, AnswerCurrent, Decision
  <2> QED
    BY <1>5, <1>7, <2>1, <2>2 DEF BeforeAuditor
<1>11. CASE CheckStock(w, o)
  <2>1. PICK c : /\ Save(o, c) /\ c.at # "drop_line"
    <3>1. \A l : [at |-> "offer", missing |-> l, asked |-> FALSE].at # "drop_line"
      OBVIOUS
    <3>2. [at |-> IF Active(o) = {} THEN "cancel" ELSE "fulfill",
           missing |-> NoLine, asked |-> FALSE].at # "drop_line"
      OBVIOUS
    <3> QED
      BY <1>11, <3>1, <3>2 DEF CheckStock
  <2>2. live[o].at = "inventory"
    BY <1>11 DEF CheckStock
  <2> QED
    BY <1>1, <1>3, <2>1, <2>2, SaveConsent DEF BeforeAuditor
<1>12. CASE Offer(w, o)
  <2>1. live[o].at = "offer" /\ live[o].missing \in LinesOf(o)
    BY <1>1, <1>12 DEF Offer, LineNodes
  <2>2. CASE offer'[live[o].missing].status # "none"
    BY <1>3, <1>5, <1>12, <2>1, <2>2 DEF Offer, BeforeAuditor
  <2>3. CASE offer'[live[o].missing].status = "none"
    <3>0. PICK c : c = [live[o] EXCEPT !.at = "drop_line", !.asked = FALSE]
      OBVIOUS
    <3>1. Save(o, c) /\ c.missing = live[o].missing
      BY <1>2, <1>12, <2>3, <3>0 DEF Offer, GoTo, Checkpoint
    <3>2. ASSUME NEW m, m = live[o].missing PROVE MayDrop(m)'
      BY <2>3, <3>2 DEF MayDrop
    <3>3. MayDrop(c.missing)'
      BY <3>1, <3>2
    <3> QED
      BY <1>1, <1>3, <2>1, <3>1, <3>3, SaveConsent DEF BeforeAuditor
  <2> QED
    BY <2>2, <2>3
<1>13. CASE AskCustomer(w, o)
  <2>1. live[o].at = "wait_customer" /\ UNCHANGED <<line, offer, shipped>> /\ Ask(o)
    BY <1>13 DEF AskCustomer, db
  <2> QED
    BY <1>6, <1>7, <2>1
<1>14. CASE CustomerAnswered(w, o)
  <2>1. live[o].at = "wait_customer" /\ live[o].missing \in LinesOf(o) /\ UNCHANGED db
    BY <1>1, <1>14 DEF CustomerAnswered, LineNodes
  <2>2. CASE resume[o] = "accept"
    BY <1>3, <1>5, <1>14, <2>1, <2>2 DEF CustomerAnswered, BeforeAuditor
  <2>3. CASE resume[o] # "accept"
    <3>1. resume[o] # "none" /\ resume[o] = offer[live[o].missing].decision
      BY <1>1, <1>14, <2>1 DEF CustomerAnswered, Paused, Consent, AnswerCurrent, Decision
    <3>2. offer[live[o].missing].decision \in {"none", "accept", "reject", "expired"}
      BY <1>2, <2>1 DEF RowsOK, OfferRow, LinesOf
    <3>3. offer'[live[o].missing].decision \in {"reject", "expired"}
      BY <2>1, <2>3, <3>1, <3>2 DEF db
    <3>0. PICK c : c = [live[o] EXCEPT !.at = "drop_line", !.asked = FALSE]
      OBVIOUS
    <3>4. Save(o, c) /\ c.missing = live[o].missing
      BY <1>2, <1>14, <2>3, <3>0 DEF CustomerAnswered, GoTo, Checkpoint
    <3>5. ASSUME NEW m, m = live[o].missing PROVE MayDrop(m)'
      BY <2>1, <3>3, <3>5 DEF MayDrop, db
    <3>6. MayDrop(c.missing)'
      BY <3>4, <3>5
    <3> QED
      BY <1>1, <1>3, <2>1, <3>4, <3>6, SaveConsent DEF BeforeAuditor
  <2> QED
    BY <2>2, <2>3
<1>15. CASE Apply(w, o)
  BY <1>3, <1>5, <1>15 DEF Apply, BeforeAuditor
<1>16. CASE Drop(w, o)
  <2>1. live[o].at = "drop_line" /\ live[o].missing \in LinesOf(o)
    BY <1>1, <1>16 DEF Drop, LineNodes
  <2>2. line'[live[o].missing].dropped
    BY <1>2, <1>16, <2>1 DEF Drop, DropLine, DropDone, db, RowsOK, LineRow, LinesOf
  <2> DEFINE c == [live[o] EXCEPT !.at = "inventory", !.asked = FALSE]
  <2>3. Save(o, c) /\ c.at = "inventory"
    BY <1>2, <1>16 DEF Drop, GoTo, Checkpoint
  <2> HIDE DEF c
  <2> QED
    BY <1>1, <1>3, <2>1, <2>2, <2>3, SaveConsent DEF BeforeAuditor
<1>17. CASE Ship(w, o)
  BY <1>3, <1>5, <1>17 DEF Ship, BeforeAuditor
<1>18. CASE Refuse(w, o)
  <2>1. live[o].at = "cancel" /\ Cancel(o) /\ GoTo(o, "end")
    BY <1>18 DEF Refuse
  <2>2. ASSUME order[o].high, order[o].manual # "approve", NEW l \in LinesOf(o)
        PROVE  ~line'[l].reserved /\ offer'[l].status = "none" /\ l \notin shipped'
    <3>1. ~line[l].reserved /\ offer[l].status = "none" /\ l \notin shipped
      BY <1>4, <2>2
    <3>2. CASE UNCHANGED db
      BY <3>1, <3>2 DEF db
    <3>3. CASE ~UNCHANGED db
      <4>1. /\ shipped' = shipped
            /\ line'[l] = [line[l] EXCEPT !.reserved = FALSE]
            /\ offer'[l] = [offer[l] EXCEPT !.held = FALSE, !.status = Closed(offer[l])]
        BY <2>1, <3>3 DEF Cancel, LinesOf
      <4>2. line[l] \in LineRow /\ offer[l] \in OfferRow
        BY <1>2 DEF RowsOK, LinesOf
      <4>3. Closed(offer[l]) = "none"
        BY <3>1 DEF Closed
      <4> QED
        BY <3>1, <4>1, <4>2, <4>3 DEF LineRow, OfferRow
    <3> QED
      BY <3>2, <3>3
  <2> QED
    BY <1>5, <2>1, <2>2 DEF BeforeAuditor
<1> QED
  BY <1>8, <1>9, <1>10, <1>11, <1>12, <1>13, <1>14, <1>15, <1>16, <1>17, <1>18 DEF Node

\* What every step of the system may do to the lines.
Decided == \A l \in Lines :
              /\ Placed(OrderOf[l]) /\ line'[l].product # line[l].product =>
                    /\ offer[l].decision = "accept"
                    /\ line'[l].product = offer[l].product
              /\ line'[l].dropped /\ ~line[l].dropped => MayDrop(l)

\* A node drops only the line of drop_line, whose checkpoint says it may.
LEMMA NodeDecides ==
    ASSUME TypeInv, NEW w \in Workers, NEW o \in Orders, Node(w, o), Consent(o)
    PROVE  Decided
<1>1. /\ live[o].at \in LineNodes => live[o].missing \in LinesOf(o)
      /\ LinesDecided(o)
  BY NodeRuns, NodeTransaction
<1>2. RowsOK
  BY TypeInvParts DEF RowsInv
<1>3. CASE Drop(w, o)
  <2>1. live[o].at = "drop_line" /\ live[o].missing \in Lines
    BY <1>1, <1>3 DEF Drop, Running, LineNodes, LinesOf
  <2>2. MayDrop(live[o].missing)
    BY <2>1 DEF Consent, DropsRefused
  <2>3. \A l \in Lines \ {live[o].missing} : line'[l] = line[l]
    BY <1>2, <1>3 DEF Drop, DropLine, db, RowsOK
  <2> QED
    BY <1>1, <2>2, <2>3 DEF Decided, LinesDecided
<1>4. CASE \E got : Inventory(o, got)
  BY <1>2, <1>4 DEF Inventory, Decided, RowsOK, LineRow
<1>5. CASE Apply(w, o)
  <2>1. live[o].missing \in Lines
    BY <1>1, <1>5 DEF Apply, Running, LineNodes, LinesOf
  <2>2. \A l \in Lines : line'[l].dropped = line[l].dropped
    BY <1>2, <1>5, <2>1 DEF Apply, ApplyOffer, db, RowsOK, LineRow
  <2> QED
    BY <1>1, <2>2 DEF Decided, LinesDecided
<1>6. CASE Refuse(w, o)
  <2>1. \A l \in Lines : /\ line'[l].dropped = line[l].dropped
                         /\ line'[l].product = line[l].product
    <3>1. \/ UNCHANGED line
          \/ line' = [l \in Lines |-> IF OrderOf[l] = o
                                      THEN [line[l] EXCEPT !.reserved = FALSE]
                                      ELSE line[l]]
      BY <1>6 DEF Refuse, Cancel, db
    <3> QED
      BY <1>2, <3>1 DEF RowsOK, LineRow
  <2> QED
    BY <2>1 DEF Decided
<1>7. CASE UNCHANGED line
  BY <1>7 DEF Decided
<1>8. CASE Offer(w, o) \/ Ship(w, o)
  BY <1>7, <1>8 DEF Offer, Ship, CreateOffer, Fulfill, db
<1> QED
  BY <1>3, <1>4, <1>5, <1>6, <1>7, <1>8 DEF Node, Fraud, AskAuditor, AuditorAnswered,
     FlagAudit, CheckStock, AskCustomer, CustomerAnswered, db

LEMMA PlaceConsent ==
    ASSUME ConsentInv, NEW o \in Orders, Place(o)
    PROVE  (\A q \in Orders : Consent(q)') /\ Decided
<1>0. TypeInv /\ RowsInv /\ RowsOK /\ RowsFit /\ \A q \in Orders : Consent(q)
  BY TypeInvParts DEF ConsentInv, RowsInv
<1>1. /\ ~Placed(o) /\ UNCHANGED <<offer, shipped, live, stale, resume>>
      /\ line' = [l \in Lines |-> IF OrderOf[l] = o
                                  THEN [NoRow EXCEPT !.product = Item[l],
                                                     !.price = Price[Item[l]]]
                                  ELSE line[l]]
  BY DEF Place, PlaceOrder, Placed, graph
<1>2. PICK high \in BOOLEAN, method \in {"prepaid", "cod"} :
         order' = [order EXCEPT ![o].status = "received",
                                ![o].high = high, ![o].method = method]
  BY DEF Place, PlaceOrder
<1>3. Placed(o)' /\ \A q \in Orders \ {o} : order'[q] = order[q]
  BY <1>0, <1>2 DEF RowsOK, OrderRow, Placed
<1>4. \A l \in LinesOf(o) : /\ ~line'[l].reserved /\ ~line'[l].dropped
                            /\ offer'[l].status = "none"
                            /\ l \notin shipped'
  BY <1>0, <1>1 DEF NoRow, RowsFit, Consent, Untouched, LinesOf
<1>5. Consent(o)'
  <2>1. live'[o] = Entry /\ stale'[o] = {}
    BY <1>0, <1>1 DEF Consent, Untouched
  <2>2. AnswerCurrent(o)' /\ DropsRefused(o)'
    BY <2>1 DEF AnswerCurrent, DropsRefused, Entry
  <2>3. Gated(o)'
    BY <1>4, <2>1 DEF Gated, Entry, BeforeAuditor, LinesOf
  <2> QED
    BY <1>3, <2>2, <2>3 DEF Consent
<1>6. ASSUME NEW q \in Orders \ {o} PROVE Consent(q)'
  <2>1. \A l \in LinesOf(q) : line'[l] = line[l]
    BY <1>0, <1>1 DEF LinesOf, RowsOK
  <2> QED
    BY <1>0, <1>1, <1>3, <2>1, ConsentFrame DEF Placed
<1>7. Decided
  <2>1. \A l \in Lines : OrderOf[l] = o \/ line'[l] = line[l]
    BY <1>1
  <2> QED
    BY <1>1, <1>4, <2>1 DEF Decided, LinesOf
<1> QED
  BY <1>5, <1>6, <1>7

\* The steps that are no node and place no order: handlers, deadlines, and the
\* beginning and end of a drive.
LEMMA QuietConsent ==
    ASSUME ConsentInv, UNCHANGED <<line, shipped>>,
           \A q \in Orders :
              /\ order'[q].high = order[q].high
              /\ order'[q].manual = order[q].manual \/ order[q].manual = "none"
              /\ Placed(q)' <=> Placed(q)
              /\ \/ live'[q] = live[q] /\ stale'[q] = stale[q] /\ resume'[q] = resume[q]
                 \/ /\ live'[q] \in stale[q] \cup {live[q]} /\ stale'[q] = {}
                    /\ resume'[q] = "none"
                 \/ /\ live'[q] = live[q] /\ stale'[q] = stale[q]
                    /\ resume'[q] = (IF live[q].asked THEN Decision(q) ELSE "none")
                    /\ UNCHANGED <<order, offer>>,
           \A l \in Lines :
              /\ offer'[l].status = offer[l].status
              /\ offer'[l].decision = offer[l].decision \/ offer[l].decision = "none"
    PROVE  (\A q \in Orders : Consent(q)') /\ Decided
<1>0. TypeInv /\ \A q \in Orders : Consent(q)
  BY DEF ConsentInv
<1>1. Decided
  BY DEF Decided
<1>2. ASSUME NEW q \in Orders PROVE Consent(q)'
  <2>1. \A c \in stale[q] \cup {live[q]} :
           /\ c.at \in LineNodes => c.missing \in LinesOf(q)
           /\ c.asked => c.at \in {"manual", "wait_customer"}
    BY <1>0, TypeInvParts DEF CheckpointsOK, OfOrder
  <2>2. ~Placed(q)' => Untouched(q)'
    BY <1>0 DEF Consent, Untouched, LinesOf
  <2>3. AnswerCurrent(q)'
    <3>1. CASE resume'[q] = "none"
      BY <3>1 DEF AnswerCurrent
    <3>2. CASE live'[q] = live[q] /\ resume'[q] = resume[q] /\ resume'[q] # "none"
      <4>1. live[q].asked => resume[q] = Decision(q)
        BY <1>0, <3>2 DEF Consent, AnswerCurrent
      <4>2. live[q].asked => Decision(q)' = Decision(q)
        <5>1. ASSUME NEW c, c = live[q], c.asked, Decision(q) # "none"
              PROVE  Decision(q)' = Decision(q)
          BY <2>1, <3>2, <5>1 DEF Decision, LineNodes, LinesOf
        <5> QED
          BY <3>2, <4>1, <5>1
      <4> QED
        BY <3>2, <4>1, <4>2 DEF AnswerCurrent
    <3>3. CASE /\ live'[q] = live[q] /\ UNCHANGED <<order, offer>>
               /\ resume'[q] = (IF live[q].asked THEN Decision(q) ELSE "none")
      BY <3>3 DEF AnswerCurrent, Decision
    <3> QED
      BY <3>1, <3>2, <3>3
  <2>4. DropsRefused(q)'
    <3>1. \A l \in Lines : MayDrop(l) => MayDrop(l)'
      BY DEF MayDrop
    <3>2. \A c \in stale[q] \cup {live[q]} : c.at = "drop_line" => MayDrop(c.missing)
      BY <1>0 DEF Consent, DropsRefused, MayDrop
    <3>3. \A c \in stale[q] \cup {live[q]} : c.at = "drop_line" => c.missing \in Lines
      BY <2>1 DEF LineNodes, LinesOf
    <3> QED
      BY <1>0, <3>1, <3>2, <3>3 DEF Consent, DropsRefused
  <2>5. Gated(q)'
    BY <1>0 DEF Consent, Gated, LinesOf
  <2> QED
    BY <2>2, <2>3, <2>4, <2>5 DEF Consent
<1> QED
  BY <1>1, <1>2

LEMMA NextConsent == ConsentInv /\ [Next]_vars => ConsentInv' /\ Decided
<1> SUFFICES ASSUME ConsentInv, [Next]_vars PROVE ConsentInv' /\ Decided
  OBVIOUS
<1>0. /\ TypeInv /\ TypeInv' /\ Made' /\ RowsInv /\ RowsOK /\ ControlOK
      /\ \A q \in Orders : Consent(q)
  BY NextTypeInv, StepKeeps, TypeInvParts DEF ConsentInv, RowsInv
<1> SUFFICES (\A q \in Orders : Consent(q)') /\ Decided
  BY <1>0 DEF ConsentInv
<1>1. CASE UNCHANGED vars
  BY <1>1, QuietConsent DEF vars, db, graph, Placed
<1>2. CASE Next
  <2>1. CASE \E o \in Orders : Place(o)
    BY <2>1, PlaceConsent
  <2>2. ASSUME NEW o \in Orders,
               LockForCancel(o) \/ Retry(o) \/ \E w \in Workers : Finish(w, o)
        PROVE  (\A q \in Orders : Consent(q)') /\ Decided
    <3>1. UNCHANGED <<line, offer, order, shipped, live, resume>>
      BY <2>2 DEF LockForCancel, Retry, Finish, db, graph
    <3>2. \A q \in Orders : stale'[q] = stale[q] \/ stale'[q] = {}
      BY <1>0, <2>2 DEF LockForCancel, Retry, Finish, graph, ControlOK
    <3>3. ASSUME NEW q \in Orders PROVE Consent(q)'
      <4>1. AnswerCurrent(q)' /\ (~Placed(q)' => Untouched(q)')
        BY <1>0, <3>1, <3>2 DEF Consent, AnswerCurrent, Decision, Placed, Untouched, LinesOf
      <4>2. DropsRefused(q)' /\ Gated(q)'
        BY <1>0, <3>1, <3>2 DEF Consent, DropsRefused, MayDrop, Gated, LinesOf
      <4> QED
        BY <4>1, <4>2 DEF Consent
    <3> QED
      BY <3>1, <3>3 DEF Decided
  <2>3. ASSUME NEW o \in Orders, \E w \in Workers : Claim(w, o)
        PROVE  (\A q \in Orders : Consent(q)') /\ Decided
    <3>1. /\ UNCHANGED <<line, offer, order, shipped, live, stale>>
          /\ resume' = [resume EXCEPT ![o] = IF live[o].asked THEN Decision(o) ELSE "none"]
      BY <2>3 DEF Claim, db
    <3>2. \A q \in Orders :
             \/ resume'[q] = resume[q]
             \/ resume'[q] = (IF live[q].asked THEN Decision(q) ELSE "none")
      BY <1>0, <3>1 DEF ControlOK
    <3> QED
      BY <3>1, <3>2, QuietConsent DEF Placed
  <2>4. ASSUME NEW o \in Orders, CustomerCancel(o)
        PROVE  (\A q \in Orders : Consent(q)') /\ Decided
    <3>1. UNCHANGED <<line, offer, shipped, live, stale, resume>>
      BY <2>4 DEF CustomerCancel, CancelledIfReceived, CancelBeforeResolution, db, graph
    <3>2. \/ UNCHANGED order
          \/ /\ order[o].status = "received"
             /\ order' = [order EXCEPT ![o].status = RefusedStatus(o), ![o].acted = TRUE]
      BY <2>4 DEF CustomerCancel, CancelledIfReceived, CancelBeforeResolution, db
    <3>3. \A q \in Orders : /\ order'[q].high = order[q].high
                            /\ order'[q].manual = order[q].manual
                            /\ Placed(q)' <=> Placed(q)
      BY <1>0, <3>2 DEF RowsOK, OrderRow, Placed, RefusedStatus
    <3> QED
      BY <3>1, <3>3, QuietConsent
  <2>5. ASSUME NEW o \in Orders, NEW d \in {"approve", "reject"}, DecideAudit(o, d)
        PROVE  (\A q \in Orders : Consent(q)') /\ Decided
    <3>1. /\ UNCHANGED <<line, offer, shipped, live, stale, resume>>
          /\ order[o].manual = "none" /\ order' = [order EXCEPT ![o].manual = d]
      BY <2>5 DEF DecideAudit, graph
    <3>2. \A q \in Orders : /\ order'[q].high = order[q].high
                            /\ order'[q].manual = order[q].manual \/ order[q].manual = "none"
                            /\ Placed(q)' <=> Placed(q)
      BY <1>0, <3>1 DEF RowsOK, OrderRow, Placed
    <3> QED
      BY <3>1, <3>2, QuietConsent
  <2>6. ASSUME NEW l \in Lines,
               \/ \E d \in {"accept", "reject"} : Reply(l, d)
               \/ Deadline(l) \/ \E w \in Workers : ExpireOffer(w, l)
        PROVE  (\A q \in Orders : Consent(q)') /\ Decided
    <3>1. UNCHANGED <<line, order, shipped, live, stale, resume>>
      BY <2>6 DEF Reply, Deadline, ExpireOffer, graph
    <3>2. \/ /\ offer[l].decision = "none"
             /\ \E d : offer' = [offer EXCEPT ![l].decision = d]
          \/ offer' = [offer EXCEPT ![l].due = TRUE]
      BY <2>6 DEF Reply, Deadline, ExpireOffer, StillOpen
    <3>3. \A k \in Lines :
             /\ offer'[k].status = offer[k].status
             /\ offer'[k].decision = offer[k].decision \/ offer[k].decision = "none"
      BY <1>0, <3>2, SMTT(30) DEF RowsOK, OfferRow
    <3> QED
      BY <3>1, <3>3, QuietConsent DEF Placed
  <2>7. ASSUME NEW w \in Workers, NEW o \in Orders, Node(w, o)
        PROVE  (\A q \in Orders : Consent(q)') /\ Decided
    <3>1. OnlyItsOwn(o)
      BY <1>0, <2>7, NodeTransaction
    <3>2. \A q \in Orders \ {o} :
             live'[q] = live[q] /\ stale'[q] = stale[q] /\ resume'[q] = resume[q]
      BY <1>0, <2>7 DEF Node, Fraud, AskAuditor, AuditorAnswered, CheckStock, Offer,
         AskCustomer, CustomerAnswered, Apply, Drop, Ship, Refuse, GoTo, Ask, Save, ControlOK
    <3>3. ASSUME NEW q \in Orders \ {o} PROVE Consent(q)'
      <4>1. \A l \in LinesOf(q) : l \in Lines \ LinesOf(o)
        BY DEF LinesOf
      <4> QED
        BY <1>0, <3>1, <3>2, <4>1, ConsentFrame DEF OnlyItsOwn, Placed
    <3> QED
      BY <1>0, <2>7, <3>3, NodeConsent, NodeDecides
  <2>8. ASSUME NEW w \in Workers, NEW o \in Orders, Failure(w, o)
        PROVE  (\A q \in Orders : Consent(q)') /\ Decided
    <3>1. UNCHANGED <<line, offer, order, shipped>>
      BY <2>8 DEF Failure, Raise, Crash, db
    <3>2. /\ live'[o] \in stale[o] \cup {live[o]} /\ stale'[o] = {} /\ resume'[o] = "none"
          /\ \A q \in Orders \ {o} :
                live'[q] = live[q] /\ stale'[q] = stale[q] /\ resume'[q] = resume[q]
      BY <1>0, <2>8 DEF Failure, Raise, Crash, ControlOK
    <3>3. \A q \in Orders :
             \/ live'[q] = live[q] /\ stale'[q] = stale[q] /\ resume'[q] = resume[q]
             \/ /\ live'[q] \in stale[q] \cup {live[q]} /\ stale'[q] = {}
                /\ resume'[q] = "none"
      BY <3>2
    <3> QED
      BY <3>1, <3>3, QuietConsent DEF Placed
  <2>9. CASE Sleep
    BY <1>1, <2>9 DEF Sleep
  <2> QED
    BY <1>2, <2>1, <2>2, <2>3, <2>4, <2>5, <2>6, <2>7, <2>8, <2>9 DEF Next
<1> QED
  BY <1>1, <1>2

LEMMA InitConsent == Init => ConsentInv
<1> SUFFICES ASSUME Init PROVE ConsentInv
  OBVIOUS
<1>1. Made
  BY DEF Init, ServicesInit, Made, NoOffer
<1>2. ASSUME NEW o \in Orders PROVE Consent(o)
  <2>1. live[o] = Entry /\ stale[o] = {} /\ order[o] = NoOrder
    BY DEF Init, ServicesInit
  <2>2. \A l \in LinesOf(o) : ~line[l].reserved /\ l \notin shipped
    BY DEF Init, ServicesInit, LinesOf, NoRow
  <2> QED
    BY <2>1, <2>2 DEF Consent, Untouched, AnswerCurrent, DropsRefused, Gated, Entry,
                      NoOrder, BeforeAuditor
<1> QED
  BY <1>1, <1>2, InitTypeInv DEF ConsentInv

\* A line gets no replacement its customer did not accept, and loses none he did
\* not give up, whatever replay, deadline or late answer comes between his
\* decision and apply_offer or drop_line.
THEOREM CustomerConsent == Spec => CustomerDecides
<1>1. ConsentInv /\ [Next]_vars =>
         [\A l \in Lines :
             /\ Placed(OrderOf[l]) /\ line'[l].product # line[l].product =>
                   /\ offer[l].decision = "accept"
                   /\ line'[l].product = offer[l].product
             /\ line'[l].dropped /\ ~line[l].dropped =>
                   offer[l].status = "none" \/ offer[l].decision \in {"reject", "expired"}]_vars
  BY NextConsent DEF Decided, MayDrop
<1>2. ConsentInv /\ [Next]_vars => ConsentInv'
  BY NextConsent
<1> QED
  BY <1>1, <1>2, InitConsent, PTL DEF Spec, CustomerDecides

\* No order at or above the threshold takes stock, asks its customer or ships
\* before an auditor approved it, wherever a failed drive goes on from (manual).
THEOREM AuditorDecides == Spec => []ReviewGate
<1>1. ConsentInv => ReviewGate
  BY OrderAssumption DEF ConsentInv, Consent, Gated, ReviewGate, LinesOf
<1>2. ConsentInv /\ [Next]_vars => ConsentInv'
  BY NextConsent
<1> QED
  BY <1>1, <1>2, InitConsent, PTL DEF Spec

-----------------------------------------------------------------------------
(* Nobody pays more than was agreed to at intake.                            *)

LEMMA Monotone ==
    ASSUME NEW a \in Nat, NEW b \in Nat, NEW n \in Nat, a <= b
    PROVE  n * a <= b * n
<1>1. PICK d \in Nat : b = a + d
  <2>1. b - a \in Nat /\ b = a + (b - a)
    OBVIOUS
  <2> QED
    BY <2>1
<1>2. b * n = n * a + n * d /\ n * a \in Nat /\ n * d \in Nat
  BY <1>1
<1> QED
  BY <1>2

\* Every transaction: prices come from the catalogue at intake or from an offer
\* that is no dearer than its line (Eligible), and bills from prices.
LEMMA TransactionPrices ==
    ASSUME RowsInv, RowsInv', PricesBounded, NEW o \in Orders,
           \/ UNCHANGED db \/ PlaceOrder(o) \/ FlagAudit(o)
           \/ \E got : Inventory(o, got)
           \/ \E hint : \E l \in Lines : CreateOffer(o, l, hint)
           \/ \E l \in Lines : ApplyOffer(o, l) \/ DropLine(o, l)
           \/ Fulfill(o) \/ Cancel(o) \/ CancelBeforeResolution(o)
    PROVE  PricesBounded'
<1> USE DEF RowsInv, RowsOK
<1>0. \A l \in Lines :
         /\ line[l].price \in Nat /\ line'[l].price \in Nat
         /\ offer[l].price \in Nat /\ bill[l] \in Nat
         /\ Price[Item[l]] \in Nat /\ Qty[l] \in Nat /\ Original(l) \in Nat
  BY OriginalNat DEF LineRow, OfferRow
<1>1. \A l \in Lines : line'[l].price <= Price[Item[l]] =>
                          Qty[l] * line'[l].price <= Original(l)
  BY <1>0, Monotone DEF Original
<1>2. ASSUME \A l \in Lines : /\ line'[l].price = line[l].price
                              /\ offer'[l].price = offer[l].price
                              /\ bill'[l] = bill[l]
      PROVE  PricesBounded'
  BY <1>2 DEF PricesBounded, Original
<1>3. CASE UNCHANGED db \/ FlagAudit(o) \/ CancelBeforeResolution(o)
  BY <1>2, <1>3 DEF db, FlagAudit, CancelBeforeResolution
<1>4. CASE PlaceOrder(o)
  <2>1. \A l \in Lines :
           /\ line'[l].price = line[l].price \/ line'[l].price = Price[Item[l]]
           /\ offer'[l] = offer[l]
           /\ bill'[l] = bill[l] \/ bill'[l] = Original(l)
    BY <1>4 DEF PlaceOrder, NoRow
  <2> QED
    BY <1>0, <2>1 DEF PricesBounded, Original
<1>5. CASE \E got : Inventory(o, got)
  <2>1. PICK got : Inventory(o, got)
    BY <1>5
  <2>2. \A l \in Lines : line'[l].price = line[l].price
    BY <2>1 DEF Inventory, LineRow
  <2> QED
    BY <1>2, <2>1, <2>2 DEF Inventory
<1>6. ASSUME NEW hint, NEW l \in Lines, CreateOffer(o, l, hint), ~UNCHANGED db
      PROVE  PricesBounded'
  <2>1. PICK p \in Replacement(o, l, hint) : offer' = [offer EXCEPT ![l] = NewOffer(p)]
    BY <1>6 DEF CreateOffer
  <2>2. OfferPrice(Price[p]) <= line[l].price /\ p \in Products
    BY <2>1, AlternativeIsEligible DEF Replacement, Eligible
  <2>3. OfferPrice(Price[p]) \in Nat
    <3>1. Price[p] \in Nat
      BY <2>2, CatalogAssumption
    <3> QED
      BY <3>1, OfferPriceBounds
  <2>4. NewOffer(p).price = OfferPrice(Price[p])
    BY DEF NewOffer, NoOffer
  <2>5. offer'[l].price <= Price[Item[l]] /\ \A k \in Lines \ {l} : offer'[k] = offer[k]
    BY <1>0, <2>1, <2>2, <2>3, <2>4 DEF PricesBounded
  <2>6. UNCHANGED <<line, bill>>
    BY <1>6 DEF CreateOffer
  <2> QED
    BY <2>5, <2>6 DEF PricesBounded, Original
<1>7. ASSUME NEW l \in Lines, ApplyOffer(o, l), ~UNCHANGED db
      PROVE  PricesBounded'
  <2>1. /\ line' = [line EXCEPT ![l].product = offer[l].product,
                                ![l].price = offer[l].price,
                                ![l].reserved = TRUE]
        /\ offer' = [offer EXCEPT ![l].held = FALSE, ![l].status = "accepted"]
        /\ bill' = [k \in Lines |-> IF OrderOf[k] = o
                                    THEN Qty[k] * line'[k].price ELSE bill[k]]
    BY <1>7 DEF ApplyOffer
  <2>2. \A k \in Lines : /\ line'[k].price \in {line[k].price, offer[k].price}
                         /\ offer'[k].price = offer[k].price
    BY <2>1 DEF LineRow, OfferRow
  <2>3. \A k \in Lines : line'[k].price <= Price[Item[k]]
    BY <2>2 DEF PricesBounded
  <2>4. \A k \in Lines : bill'[k] <= Original(k)
    BY <1>1, <2>1, <2>3 DEF PricesBounded
  <2> QED
    BY <2>2, <2>3, <2>4 DEF PricesBounded, Original
<1>8. ASSUME NEW l \in Lines, DropLine(o, l), ~UNCHANGED db
      PROVE  PricesBounded'
  <2>1. /\ UNCHANGED bill
        /\ offer' = [offer EXCEPT ![l].held = FALSE, ![l].status = Closed(offer[l])]
        /\ line' = [line EXCEPT ![l].dropped = TRUE]
    BY <1>8 DEF DropLine, CloseOffer
  <2> QED
    BY <1>2, <2>1 DEF LineRow, OfferRow
<1>9. CASE Fulfill(o) /\ ~UNCHANGED db
  <2>1. /\ UNCHANGED <<line, offer>>
        /\ bill' = [l \in Lines |->
                      IF OrderOf[l] # o THEN bill[l]
                      ELSE IF line[l].dropped THEN 0 ELSE Qty[l] * line[l].price]
    BY <1>9 DEF Fulfill
  <2>2. \A l \in Lines : bill'[l] <= Original(l)
    BY <1>0, <1>1, <2>1 DEF PricesBounded
  <2> QED
    BY <2>1, <2>2 DEF PricesBounded, Original
<1>10. CASE Cancel(o) /\ ~UNCHANGED db
  <2>1. /\ UNCHANGED bill
        /\ line' = [l \in Lines |-> IF OrderOf[l] = o
                                    THEN [line[l] EXCEPT !.reserved = FALSE]
                                    ELSE line[l]]
        /\ offer' = [l \in Lines |->
                       IF OrderOf[l] = o
                       THEN [offer[l] EXCEPT !.held = FALSE,
                                             !.status = Closed(offer[l])]
                       ELSE offer[l]]
    BY <1>10 DEF Cancel
  <2>2. ASSUME NEW l \in Lines
        PROVE  line'[l].price = line[l].price /\ offer'[l].price = offer[l].price
    <3>1. line[l] \in LineRow /\ offer[l] \in OfferRow
      OBVIOUS
    <3>2. line'[l] = line[l] \/ line'[l] = [line[l] EXCEPT !.reserved = FALSE]
      BY <2>1
    <3>3. \/ offer'[l] = offer[l]
          \/ offer'[l] = [offer[l] EXCEPT !.held = FALSE, !.status = Closed(offer[l])]
      BY <2>1
    <3> QED
      BY <3>1, <3>2, <3>3 DEF LineRow, OfferRow
  <2> QED
    BY <1>2, <2>1, <2>2
<1> QED
  BY <1>3, <1>4, <1>5, <1>6, <1>7, <1>8, <1>9, <1>10

LEMMA NextPrices == TypeInv /\ PricesBounded /\ [Next]_vars => PricesBounded'
<1> SUFFICES ASSUME TypeInv, PricesBounded, [Next]_vars PROVE PricesBounded'
  OBVIOUS
<1>0. TypeInv' /\ RowsInv /\ RowsInv' /\ RowsOK
  BY NextTypeInv, TypeInvParts DEF RowsInv
<1>1. ASSUME NEW o \in Orders,
             \/ UNCHANGED db \/ PlaceOrder(o) \/ FlagAudit(o)
             \/ \E got : Inventory(o, got)
             \/ \E hint : \E l \in Lines : CreateOffer(o, l, hint)
             \/ \E l \in Lines : ApplyOffer(o, l) \/ DropLine(o, l)
             \/ Fulfill(o) \/ Cancel(o) \/ CancelBeforeResolution(o)
      PROVE  PricesBounded'
  BY <1>0, <1>1, TransactionPrices
<1>2. CASE UNCHANGED <<line, offer, bill>>
  BY <1>2 DEF PricesBounded, Original
<1>3. CASE UNCHANGED vars
  BY <1>2, <1>3 DEF vars, db
<1>4. CASE Next
  <2>1. CASE \E o \in Orders :
                Place(o) \/ LockForCancel(o) \/ CustomerCancel(o) \/ Retry(o)
    <3>1. PICK o \in Orders : Place(o) \/ LockForCancel(o) \/ CustomerCancel(o) \/ Retry(o)
      BY <2>1
    <3>2. UNCHANGED db \/ PlaceOrder(o) \/ CancelBeforeResolution(o)
      BY <3>1 DEF Place, LockForCancel, CustomerCancel, CancelledIfReceived, Retry, db
    <3> QED
      BY <1>1, <3>2
  <2>2. CASE \E o \in Orders, d \in {"approve", "reject"} : DecideAudit(o, d)
    BY <1>2, <2>2 DEF DecideAudit
  <2>3. ASSUME NEW l \in Lines,
               \/ \E d \in {"accept", "reject"} : Reply(l, d)
               \/ Deadline(l) \/ \E w \in Workers : ExpireOffer(w, l)
        PROVE  PricesBounded'
    <3>1. /\ UNCHANGED <<line, bill>>
          /\ \/ \E d : offer' = [offer EXCEPT ![l].decision = d]
             \/ offer' = [offer EXCEPT ![l].due = TRUE]
      BY <2>3 DEF Reply, Deadline, ExpireOffer
    <3>2. \A k \in Lines : offer'[k].price = offer[k].price
      BY <1>0, <3>1 DEF RowsOK, OfferRow
    <3> QED
      BY <3>1, <3>2 DEF PricesBounded, Original
  <2>4. CASE \E w \in Workers, o \in Orders :
                Claim(w, o) \/ Node(w, o) \/ Finish(w, o) \/ Failure(w, o)
    <3>1. PICK w \in Workers, o \in Orders :
             Claim(w, o) \/ Node(w, o) \/ Finish(w, o) \/ Failure(w, o)
      BY <2>4
    <3>2. CASE Node(w, o)
      <4>1. \/ UNCHANGED db \/ FlagAudit(o) \/ \E got : Inventory(o, got)
            \/ \E hint : \E l \in Lines : CreateOffer(o, l, hint)
            \/ \E l \in Lines : ApplyOffer(o, l) \/ DropLine(o, l)
            \/ Fulfill(o) \/ Cancel(o)
        BY <3>2, NodeRuns DEF LinesOf
      <4> QED
        BY <1>1, <4>1
    <3>3. Claim(w, o) \/ Finish(w, o) \/ Failure(w, o) => UNCHANGED db
      BY DEF Claim, Finish, Failure, Raise, Crash
    <3> QED
      BY <1>2, <3>1, <3>2, <3>3 DEF db
  <2>5. CASE Sleep
    BY <1>3, <2>5 DEF Sleep
  <2> QED
    BY <1>4, <2>1, <2>2, <2>3, <2>4, <2>5 DEF Next
<1> QED
  BY <1>3, <1>4

LEMMA InitPrices == Init => PricesBounded
<1>1. \A l \in Lines : 0 <= Price[Item[l]] /\ 0 <= Original(l)
  BY OriginalNat
<1> QED
  BY <1>1 DEF Init, ServicesInit, PricesBounded, NoRow, NoOffer

\* No replacement, rebate or replay makes an order dearer than at intake
\* (create_offer, apply_offer, fulfill).
THEOREM NeverDearer == Spec => []BillNeverIncreases
<1>1. Init => PricesBounded
  BY InitPrices
<1>2. TypeInv /\ PricesBounded /\ [Next]_vars => PricesBounded'
  BY NextPrices
<1>3. PricesBounded => BillNeverIncreases
  BY DEF PricesBounded, BillNeverIncreases
<1> QED
  BY <1>1, <1>2, <1>3, TypeInvariance, PTL DEF Spec

-----------------------------------------------------------------------------
(***************************************************************************)
(* A drive ends: why a checkpoint is where it is, and what that leaves to  *)
(* be done.                                                                *)
(***************************************************************************)

LEMMA HopelessKept ==
    ASSUME NEW q \in Orders, Hopeless(q), order'[q].high = order[q].high,
           order'[q].manual = order[q].manual \/ order[q].manual = "none",
           \A l \in LinesOf(q) : line[l].dropped => line'[l].dropped
    PROVE  Hopeless(q)'
BY DEF Hopeless, Active, LinesOf

\* A checkpoint that had its reason keeps it.
LEMMA JustifiedKept ==
    ASSUME NEW q \in Orders, NEW at, order'[q].high = order[q].high,
           order'[q].manual = order[q].manual \/ order[q].manual = "none",
           \A l \in LinesOf(q) : line[l].dropped => line'[l].dropped
    PROVE  /\ (at = "manual" => order[q].high) => (at = "manual" => order'[q].high)
           /\ (at = "cancel" => Hopeless(q)) => (at = "cancel" => Hopeless(q)')
BY HopelessKept

LEMMA SaveJustly ==
    ASSUME NEW o \in Orders, TypeInv, Justly(o), NEW c, Save(o, c),
           order'[o].high = order[o].high,
           order'[o].manual = order[o].manual,
           \A l \in LinesOf(o) : line[l].dropped => line'[l].dropped,
           c.at = "manual" => order'[o].high,
           c.at = "cancel" => Hopeless(o)'
    PROVE  Justly(o)'
<1>1. live'[o] = c /\ stale'[o] \subseteq stale[o] \cup {live[o]}
  BY TypeInvParts DEF Save, ControlOK
<1>2. ASSUME NEW d \in stale[o] \cup {live[o]}
      PROVE  /\ d.at = "manual" => order'[o].high
             /\ d.at = "cancel" => Hopeless(o)'
  <2>1. Justified(o, d)
    BY DEF Justly
  <2>2. \E at : at = d.at
    OBVIOUS
  <2> QED
    BY <2>1, <2>2, JustifiedKept DEF Justified
<1>3. \A d \in stale'[o] \cup {live'[o]} : /\ d.at = "manual" => order'[o].high
                                           /\ d.at = "cancel" => Hopeless(o)'
  BY <1>1, <1>2
<1> QED
  BY <1>3 DEF Justly, Justified

LEMMA GoToJustly ==
    ASSUME NEW o \in Orders, TypeInv, Justly(o), NEW n \in Nodes, GoTo(o, n),
           order'[o].high = order[o].high,
           order'[o].manual = order[o].manual,
           \A l \in LinesOf(o) : line[l].dropped => line'[l].dropped,
           n = "manual" => order'[o].high,
           n = "cancel" => Hopeless(o)'
    PROVE  Justly(o)'
<1>1. live[o] \in Checkpoint
  BY TypeInvParts DEF ControlOK
<1>2. PICK c : c = [live[o] EXCEPT !.at = n, !.asked = FALSE]
  OBVIOUS
<1>3. Save(o, c) /\ c.at = n
  BY <1>1, <1>2 DEF GoTo, Checkpoint
<1> QED
  BY <1>3, SaveJustly

LEMMA AskJustly ==
    ASSUME NEW o \in Orders, TypeInv, Justly(o), Ask(o),
           order'[o].high = order[o].high,
           order'[o].manual = order[o].manual,
           \A l \in LinesOf(o) : line[l].dropped => line'[l].dropped
    PROVE  Justly(o)'
<1>1. live[o] \in Checkpoint
  BY TypeInvParts DEF ControlOK
<1>2. PICK c : c = [live[o] EXCEPT !.asked = TRUE]
  OBVIOUS
<1>3. Save(o, c) /\ c.at = live[o].at
  BY <1>1, <1>2 DEF Ask, Checkpoint
<1>4. Justified(o, live[o])
  BY DEF Justly
<1>5. \E at : at = c.at
  OBVIOUS
<1>6. /\ c.at = "manual" => order'[o].high
      /\ c.at = "cancel" => Hopeless(o)'
  BY <1>3, <1>4, <1>5, JustifiedKept DEF Justified
<1> QED
  BY <1>3, <1>6, SaveJustly


\* Review and refusal are reached with a reason only.
LEMMA NodeJustly ==
    ASSUME ConsentInv, NEW w \in Workers, NEW o \in Orders, Node(w, o), Justly(o)
    PROVE  Justly(o)'
<1>0. /\ TypeInv /\ RowsOK /\ ~Paused(o) /\ Consent(o)
      /\ order'[o].high = order[o].high /\ order'[o].manual = order[o].manual
      /\ \A l \in LinesOf(o) : line[l].dropped => line'[l].dropped
  BY NodeRuns, NodeTransaction, TypeInvParts
     DEF ConsentInv, RowsInv, OnlyItsOwn, LinesDecided, LinesOf
<1>1. ASSUME NEW n \in Nodes \ {"manual", "cancel"}, GoTo(o, n)
      PROVE  Justly(o)'
  BY <1>0, <1>1, GoToJustly
<1>2. CASE Fraud(w, o)
  <2>1. PICK n \in {"manual", "inventory"} : GoTo(o, n) /\ (n = "manual" => order[o].high)
    BY <1>2 DEF Fraud
  <2> QED
    BY <1>0, <2>1, GoToJustly DEF Nodes
<1>3. CASE AskAuditor(w, o) \/ AskCustomer(w, o)
  BY <1>0, <1>3, AskJustly DEF AskAuditor, AskCustomer
<1>4. CASE AuditorAnswered(w, o)
  <2>1. live[o].at = "manual" /\ live[o].asked = TRUE
    BY <1>0, <1>4, TypeInvParts DEF AuditorAnswered, Running, ControlOK, Checkpoint
  <2>2. resume[o] = order[o].manual /\ order[o].manual \in {"approve", "reject"}
    BY <1>0, <2>1 DEF Paused, Consent, AnswerCurrent, Decision, RowsOK, OrderRow
  <2>3. order[o].high
    BY <2>1 DEF Justly, Justified
  <2>4. PICK n \in {"inventory", "cancel"} :
           GoTo(o, n) /\ (n = "cancel" => order[o].manual = "reject")
    BY <1>4, <2>2 DEF AuditorAnswered
  <2>5. n = "cancel" => Hopeless(o)'
    BY <1>0, <2>3, <2>4 DEF Hopeless
  <2> QED
    BY <1>0, <2>4, <2>5, GoToJustly DEF Nodes
<1>5. CASE CheckStock(w, o)
  <2> DEFINE done == [at |-> IF Active(o) = {} THEN "cancel" ELSE "fulfill",
                      missing |-> NoLine, asked |-> FALSE]
             short(l) == [at |-> "offer", missing |-> l, asked |-> FALSE]
  <2>1. Save(o, done) \/ \E l \in Wanted(o) : Save(o, short(l))
    BY <1>5 DEF CheckStock
  <2>2. PICK c : Save(o, c) /\ c.at # "manual" /\ (c.at = "cancel" => Active(o) = {})
    <3>1. done.at # "manual" /\ (done.at = "cancel" => Active(o) = {})
      OBVIOUS
    <3>2. \A l : short(l).at = "offer"
      OBVIOUS
    <3> HIDE DEF done, short
    <3> QED
      BY <2>1, <3>1, <3>2
  <2>3. c.at = "cancel" => Hopeless(o)'
    BY <1>0, <2>2, HopelessKept DEF Hopeless
  <2> QED
    BY <1>0, <2>2, <2>3, SaveJustly
<1>6. CASE Offer(w, o) \/ CustomerAnswered(w, o) \/ Apply(w, o) \/ Drop(w, o)
           \/ Ship(w, o) \/ Refuse(w, o)
  <2>1. \E n \in {"wait_customer", "drop_line", "apply", "inventory", "end"} : GoTo(o, n)
    BY <1>6 DEF Offer, CustomerAnswered, Apply, Drop, Ship, Refuse
  <2> QED
    BY <1>1, <2>1 DEF Nodes
<1> QED
  BY <1>2, <1>3, <1>4, <1>5, <1>6 DEF Node

\* An order whose rows say the same keeps the reasons of its checkpoints.
LEMMA JustlyFrame ==
    ASSUME NEW q \in Orders, Justly(q), order'[q].high = order[q].high,
           order'[q].manual = order[q].manual \/ order[q].manual = "none",
           \A l \in LinesOf(q) : line[l].dropped => line'[l].dropped,
           stale'[q] \cup {live'[q]} \subseteq stale[q] \cup {live[q]}
    PROVE  Justly(q)'
<1>1. ASSUME NEW d \in stale[q] \cup {live[q]}
      PROVE  /\ d.at = "manual" => order'[q].high
             /\ d.at = "cancel" => Hopeless(q)'
  <2>1. Justified(q, d)
    BY DEF Justly
  <2>2. \E at : at = d.at
    OBVIOUS
  <2> QED
    BY <2>1, <2>2, JustifiedKept DEF Justified
<1>2. \A d \in stale'[q] \cup {live'[q]} : /\ d.at = "manual" => order'[q].high
                                           /\ d.at = "cancel" => Hopeless(q)'
  BY <1>1
<1> QED
  BY <1>2 DEF Justly, Justified

\* A node takes the stock of an accepted replacement back only from an order of
\* which nothing may ship: nothing is left of it, or it was never offered any.
LEMMA NodeAccepted ==
    ASSUME ConsentInv, AcceptedKept, NEW w \in Workers, NEW o \in Orders, Node(w, o), Justly(o)
    PROVE  AcceptedKept'
<1>0. /\ TypeInv /\ RowsInv /\ RowsOK /\ Consent(o)
      /\ \A l \in Lines : line[l] \in LineRow /\ offer[l] \in OfferRow
  BY TypeInvParts DEF ConsentInv, RowsInv, RowsOK
<1>1. ASSUME \A l \in Lines :
                /\ offer'[l].status = "accepted" => offer[l].status = "accepted"
                /\ line[l].reserved \/ line[l].dropped => line'[l].reserved \/ line'[l].dropped
      PROVE  AcceptedKept'
  BY <1>1 DEF AcceptedKept
<1>2. CASE UNCHANGED db \/ FlagAudit(o) \/ Fulfill(o)
  BY <1>1, <1>2 DEF db, FlagAudit, Fulfill
<1>3. ASSUME NEW got \in SUBSET Wanted(o), Inventory(o, got) PROVE AcceptedKept'
  BY <1>0, <1>1, <1>3 DEF Inventory, LineRow
<1>4. ASSUME NEW hint, NEW l \in LinesOf(o), CreateOffer(o, l, hint), ~UNCHANGED db
      PROVE  AcceptedKept'
  <2>1. /\ UNCHANGED line
        /\ \E p : offer' = [offer EXCEPT ![l] = NewOffer(p)]
    BY <1>4 DEF CreateOffer
  <2>2. \A p : NewOffer(p).status = "pending"
    BY DEF NewOffer, NoOffer
  <2>3. \A k \in Lines : offer'[k] = offer[k] \/ offer'[k].status = "pending"
    BY <1>0, <2>1, <2>2 DEF LinesOf, RowsOK
  <2> QED
    BY <1>1, <2>1, <2>3
<1>5. ASSUME NEW l \in LinesOf(o), ApplyOffer(o, l), ~UNCHANGED db PROVE AcceptedKept'
  <2>1. /\ line' = [line EXCEPT ![l].product = offer[l].product,
                                ![l].price = offer[l].price,
                                ![l].reserved = TRUE]
        /\ offer' = [offer EXCEPT ![l].held = FALSE, ![l].status = "accepted"]
    BY <1>5 DEF ApplyOffer
  <2>2. l \in Lines /\ line'[l].reserved
    BY <1>0, <2>1 DEF LinesOf, RowsOK, LineRow
  <2>3. \A k \in Lines \ {l} : line'[k] = line[k] /\ offer'[k] = offer[k]
    BY <1>0, <2>1 DEF RowsOK
  <2> QED
    BY <2>2, <2>3 DEF AcceptedKept
<1>6. ASSUME NEW l \in LinesOf(o), DropLine(o, l), ~UNCHANGED db PROVE AcceptedKept'
  <2>1. /\ line' = [line EXCEPT ![l].dropped = TRUE]
        /\ offer' = [offer EXCEPT ![l].held = FALSE, ![l].status = Closed(offer[l])]
    BY <1>6 DEF DropLine, CloseOffer
  <2>2. l \in Lines /\ line'[l].dropped
    BY <1>0, <2>1 DEF LinesOf, RowsOK, LineRow
  <2>3. \A k \in Lines \ {l} : line'[k] = line[k] /\ offer'[k] = offer[k]
    BY <1>0, <2>1 DEF RowsOK
  <2> QED
    BY <2>2, <2>3 DEF AcceptedKept
<1>7. CASE Refuse(w, o) /\ ~UNCHANGED db
  <2>1. /\ live[o].at = "cancel"
        /\ line' = [l \in Lines |-> IF OrderOf[l] = o
                                    THEN [line[l] EXCEPT !.reserved = FALSE]
                                    ELSE line[l]]
        /\ offer' = [l \in Lines |->
                       IF OrderOf[l] = o
                       THEN [offer[l] EXCEPT !.held = FALSE,
                                             !.status = Closed(offer[l])]
                       ELSE offer[l]]
    BY <1>7 DEF Refuse, Running, Cancel
  <2>2. Hopeless(o)
    BY <2>1 DEF Justly, Justified
  <2>3. \A l \in LinesOf(o) : line[l].dropped \/ offer[l].status = "none"
    BY <1>0, <2>2 DEF Hopeless, Active, Consent, Gated
  <2>4. ASSUME NEW l \in LinesOf(o), ~line'[l].dropped PROVE offer'[l].status # "accepted"
    <3>1. l \in Lines /\ OrderOf[l] = o
      BY DEF LinesOf
    <3>2. offer[l].status = "none"
      BY <1>0, <2>1, <2>3, <2>4, <3>1 DEF LineRow
    <3>3. Closed(offer[l]) = "none"
      BY <3>2 DEF Closed
    <3>4. offer'[l] = [offer[l] EXCEPT !.held = FALSE, !.status = Closed(offer[l])]
      BY <2>1, <3>1
    <3> QED
      BY <1>0, <3>1, <3>3, <3>4 DEF OfferRow
  <2>5. \A l \in Lines \ LinesOf(o) : line'[l] = line[l] /\ offer'[l] = offer[l]
    BY <2>1 DEF LinesOf
  <2> QED
    BY <2>4, <2>5 DEF AcceptedKept
<1>8. \/ UNCHANGED db \/ FlagAudit(o) \/ Fulfill(o) \/ Refuse(w, o)
      \/ \E got \in SUBSET Wanted(o) : Inventory(o, got)
      \/ \E hint : \E l \in LinesOf(o) : CreateOffer(o, l, hint)
      \/ \E l \in LinesOf(o) : ApplyOffer(o, l) \/ DropLine(o, l)
  BY NodeRuns, <1>0 DEF Node, Fraud, AskAuditor, AuditorAnswered, CheckStock, Offer,
     AskCustomer, CustomerAnswered, Apply, Drop, Ship, Running, LineNodes
<1> QED
  BY <1>2, <1>3, <1>4, <1>5, <1>6, <1>7, <1>8

LEMMA InitReason == Init => ReasonInv
<1>1. Init => AcceptedKept /\ \A o \in Orders : Justly(o)
  BY DEF Init, ServicesInit, AcceptedKept, NoOffer, Justly, Justified, Entry
<1> QED
  BY <1>1, InitConsent DEF ReasonInv

\* Who is no node leaves the lines and the offers' ends alone, but for intake.
LEMMA QuietReason ==
    ASSUME ReasonInv, UNCHANGED line,
           \A l \in Lines : offer'[l].status = offer[l].status,
           \A q \in Orders : /\ order'[q].high = order[q].high
                             /\ order'[q].manual = order[q].manual \/ order[q].manual = "none"
                             /\ stale'[q] \cup {live'[q]} \subseteq stale[q] \cup {live[q]}
    PROVE  AcceptedKept' /\ \A q \in Orders : Justly(q)'
<1>1. AcceptedKept'
  BY DEF ReasonInv, AcceptedKept
<1> QED
  BY <1>1, JustlyFrame DEF ReasonInv

LEMMA NextReason == ReasonInv /\ [Next]_vars => ReasonInv'
<1> SUFFICES ASSUME ReasonInv, [Next]_vars PROVE ReasonInv'
  OBVIOUS
<1>0. /\ ConsentInv /\ ConsentInv' /\ TypeInv /\ RowsInv /\ RowsOK /\ ControlOK /\ AcceptedKept
      /\ \A q \in Orders : Justly(q) /\ Consent(q)
  BY NextConsent, TypeInvParts DEF ReasonInv, ConsentInv, RowsInv
<1> SUFFICES AcceptedKept' /\ \A q \in Orders : Justly(q)'
  BY <1>0 DEF ReasonInv
<1>1. CASE UNCHANGED <<line, offer, order, live, stale>>
  BY <1>1, QuietReason
<1>2. ASSUME NEW o \in Orders, Place(o) PROVE AcceptedKept' /\ \A q \in Orders : Justly(q)'
  <2>1. /\ order[o].status = "absent" /\ UNCHANGED <<offer, live, stale>>
        /\ \A q \in Orders \ {o} : order'[q] = order[q]
        /\ \A l \in Lines : OrderOf[l] # o => line'[l] = line[l]
    BY <1>0, <1>2 DEF Place, PlaceOrder, RowsOK, graph
  <2>2. live[o] = Entry /\ stale[o] = {}
    BY <1>0, <2>1 DEF Consent, Untouched, Placed
  <2>3. \A l \in Lines : OrderOf[l] = o => offer[l].status = "none"
    BY <1>0, <2>1 DEF RowsInv, RowsFit, Placed
  <2>4. Justly(o)'
    BY <2>1, <2>2 DEF Justly, Justified, Entry
  <2>5. \A q \in Orders \ {o} : Justly(q)'
    BY <1>0, <2>1, JustlyFrame DEF LinesOf
  <2>6. AcceptedKept'
    BY <1>0, <2>1, <2>3 DEF AcceptedKept
  <2> QED
    BY <2>4, <2>5, <2>6
<1>3. ASSUME NEW o \in Orders, CustomerCancel(o)
      PROVE  AcceptedKept' /\ \A q \in Orders : Justly(q)'
  <2>1. UNCHANGED <<line, offer, live, stale>>
    BY <1>3 DEF CustomerCancel, CancelledIfReceived, CancelBeforeResolution, db, graph
  <2>2. \A q \in Orders : order'[q].high = order[q].high /\ order'[q].manual = order[q].manual
    BY <1>0, <1>3 DEF CustomerCancel, CancelledIfReceived, CancelBeforeResolution, db,
       RowsOK, OrderRow
  <2> QED
    BY <2>1, <2>2, QuietReason
<1>4. ASSUME NEW o \in Orders, NEW d \in {"approve", "reject"}, DecideAudit(o, d)
      PROVE  AcceptedKept' /\ \A q \in Orders : Justly(q)'
  <2>1. /\ UNCHANGED <<line, offer, live, stale>>
        /\ order[o].manual = "none" /\ order' = [order EXCEPT ![o].manual = d]
    BY <1>4 DEF DecideAudit, graph
  <2>2. \A q \in Orders : /\ order'[q].high = order[q].high
                          /\ order'[q].manual = order[q].manual \/ order[q].manual = "none"
    BY <1>0, <2>1 DEF RowsOK, OrderRow
  <2> QED
    BY <2>1, <2>2, QuietReason
<1>5. ASSUME NEW l \in Lines,
             \/ \E d \in {"accept", "reject"} : Reply(l, d)
             \/ Deadline(l) \/ \E w \in Workers : ExpireOffer(w, l)
      PROVE  AcceptedKept' /\ \A q \in Orders : Justly(q)'
  <2>1. /\ UNCHANGED <<line, order, live, stale>>
        /\ \/ \E d : offer' = [offer EXCEPT ![l].decision = d]
           \/ offer' = [offer EXCEPT ![l].due = TRUE]
    BY <1>5 DEF Reply, Deadline, ExpireOffer, graph
  <2>2. \A k \in Lines : offer'[k].status = offer[k].status
    BY <1>0, <2>1 DEF RowsOK, OfferRow
  <2> QED
    BY <2>1, <2>2, QuietReason
<1>6. ASSUME NEW w \in Workers, NEW o \in Orders, Node(w, o)
      PROVE  AcceptedKept' /\ \A q \in Orders : Justly(q)'
  <2>1. AcceptedKept' /\ Justly(o)'
    BY <1>0, <1>6, NodeAccepted, NodeJustly
  <2>2. OnlyItsOwn(o) /\ LinesDecided(o)
    BY <1>0, <1>6, NodeTransaction
  <2>3. \A q \in Orders \ {o} : live'[q] = live[q] /\ stale'[q] = stale[q]
    BY <1>0, <1>6 DEF Node, Fraud, AskAuditor, AuditorAnswered, CheckStock, Offer,
       AskCustomer, CustomerAnswered, Apply, Drop, Ship, Refuse, GoTo, Ask, Save, ControlOK
  <2>4. \A q \in Orders \ {o} : Justly(q)'
    BY <1>0, <2>2, <2>3, JustlyFrame DEF OnlyItsOwn, LinesDecided, LinesOf
  <2> QED
    BY <2>1, <2>4
<1>7. ASSUME NEW w \in Workers, NEW o \in Orders, Claim(w, o) \/ Finish(w, o) \/ Failure(w, o)
      PROVE  AcceptedKept' /\ \A q \in Orders : Justly(q)'
  <2>1. UNCHANGED <<line, offer, order>>
    BY <1>7 DEF Claim, Finish, Failure, Raise, Crash, db
  <2>2. \A q \in Orders : stale'[q] \cup {live'[q]} \subseteq stale[q] \cup {live[q]}
    BY <1>0, <1>7 DEF Claim, Finish, Failure, Raise, Crash, ControlOK
  <2> QED
    BY <2>1, <2>2, QuietReason
<1>8. CASE UNCHANGED vars \/ Sleep \/ \E o \in Orders : LockForCancel(o) \/ Retry(o)
  BY <1>1, <1>8 DEF vars, db, graph, Sleep, LockForCancel, Retry
<1> QED
  BY <1>2, <1>3, <1>4, <1>5, <1>6, <1>7, <1>8 DEF Next

LEMMA NodesFromIs ==
    ASSUME NEW asked \in BOOLEAN, NEW n \in Nat, NEW r \in Nat
    PROVE  /\ NodesFrom("fraud", asked, n, r) = 3 * n + 3
           /\ NodesFrom("manual", TRUE, n, r) = 3 * n + 3
           /\ NodesFrom("manual", FALSE, n, r) = 1
           /\ NodesFrom("inventory", asked, n, r) = 3 * n + 2
           /\ NodesFrom("offer", asked, n, r) = 3 * r + 4
           /\ NodesFrom("wait_customer", TRUE, n, r) = 3 * r + 4
           /\ NodesFrom("wait_customer", FALSE, n, r) = 1
           /\ \A at \in {"apply", "drop_line"} : NodesFrom(at, asked, n, r) = 3 * r + 3
           /\ \A at \in {"fulfill", "cancel"} : NodesFrom(at, asked, n, r) = 1
           /\ NodesFrom("end", asked, n, r) = 0
BY DEF NodesFrom

\* The lines of an order are finitely many, and those but one are one less.
LEMMA LinesCount ==
    ASSUME NEW o \in Orders, NEW S \in SUBSET LinesOf(o), NEW m
    PROVE  /\ Cardinality(LinesOf(o)) \in Nat
           /\ Cardinality(S) \in 0..Cardinality(LinesOf(o))
           /\ Cardinality(S \ {m}) \in 0..Cardinality(S)
           /\ m \in S => Cardinality(S \ {m}) = Cardinality(S) - 1
           /\ m \in LinesOf(o) => Cardinality(S \ {m}) < Cardinality(LinesOf(o))
           /\ \A T \in SUBSET S : Cardinality(T) \in 0..Cardinality(S)
<1>1. IsFiniteSet(LinesOf(o)) /\ IsFiniteSet(S)
  <2>1. NLines \in Nat
    BY OrderAssumption
  <2>2. IsFiniteSet(Lines) /\ LinesOf(o) \subseteq Lines
    BY <2>1, FS_Interval DEF Lines, LinesOf
  <2> QED
    BY <2>2, FS_Subset
<1>2. \A T \in SUBSET LinesOf(o) : /\ IsFiniteSet(T) /\ Cardinality(T) \in Nat
                                   /\ Cardinality(T) <= Cardinality(LinesOf(o))
  BY <1>1, FS_Subset, FS_CardinalityType
<1>3. \A T \in SUBSET S : Cardinality(T) \in Nat /\ Cardinality(T) <= Cardinality(S)
  BY <1>1, FS_Subset, FS_CardinalityType
<1>4. m \in S => Cardinality(S \ {m}) = Cardinality(S) - 1
  BY <1>1, FS_RemoveElement
<1>5. m \in LinesOf(o) => Cardinality(S \ {m}) < Cardinality(LinesOf(o))
  <2>1. m \in LinesOf(o) => Cardinality(LinesOf(o) \ {m}) = Cardinality(LinesOf(o)) - 1
    BY <1>1, FS_RemoveElement
  <2>2. IsFiniteSet(LinesOf(o) \ {m}) /\ S \ {m} \in SUBSET (LinesOf(o) \ {m})
    BY <1>2
  <2>3. Cardinality(S \ {m}) <= Cardinality(LinesOf(o) \ {m})
    BY <2>2, FS_Subset
  <2> QED
    BY <1>1, <1>2, <2>1, <2>3, FS_CardinalityType
<1> QED
  BY <1>1, <1>2, <1>3, <1>4, <1>5, FS_CardinalityType

\* Wherever a drive is, the bound holds.
LEMMA NodesBounded ==
    ASSUME TypeInv, NEW o \in Orders
    PROVE  NodesLeft(o) \in 0..3 * Cardinality(LinesOf(o)) + 3
<1> DEFINE m == live[o].missing
<1>1. PICK at \in Nodes, asked \in BOOLEAN : at = live[o].at /\ asked = live[o].asked
  BY TypeInvParts DEF ControlOK, Checkpoint
<1> HIDE DEF m
<1>2. PICK S : S = Wanted(o)
  OBVIOUS
<1>3. S \in SUBSET LinesOf(o) /\ (at \in LineNodes => m \in LinesOf(o))
  BY <1>1, <1>2, TypeInvParts DEF Wanted, Active, CheckpointsOK, OfOrder, m
<1>4. PICK k, n, r : k = Cardinality(LinesOf(o)) /\ n = Cardinality(S) /\ r = Cardinality(S \ {m})
  OBVIOUS
<1>5. k \in Nat /\ n \in 0..k /\ r \in 0..n /\ (at \in LineNodes => r < k)
  BY <1>3, <1>4, LinesCount
<1>6. NodesLeft(o) = IF Paused(o) THEN 0 ELSE NodesFrom(at, asked, n, r)
  BY <1>1, <1>2, <1>4 DEF NodesLeft, m
<1>7. NodesFrom(at, asked, n, r) \in 0..3 * k + 3
  <2>0. n \in Nat /\ r \in Nat /\ (asked = TRUE \/ asked = FALSE)
    BY <1>1, <1>5
  <2>1. CASE at \in {"fraud", "manual", "inventory", "fulfill", "cancel", "end"}
    <3>1. NodesFrom(at, asked, n, r) \in {0, 1, 3 * n + 2, 3 * n + 3}
      BY <1>1, <2>0, <2>1 DEF NodesFrom
    <3> QED
      BY <1>5, <3>1
  <2>2. CASE at \in LineNodes
    <3>1. NodesFrom(at, asked, n, r) \in {1, 3 * r + 3, 3 * r + 4}
      BY <1>1, <2>0, <2>2 DEF NodesFrom, LineNodes
    <3> QED
      BY <1>5, <2>2, <3>1
  <2> QED
    BY <1>1, <2>1, <2>2 DEF Nodes, LineNodes
<1> QED
  BY <1>4, <1>5, <1>6, <1>7

\* A line that apply_offer or drop_line was through with is not wanted again.
LEMMA ThroughNotWanted ==
    ASSUME ReasonInv, NEW o \in Orders, NEW m \in LinesOf(o),
           ApplyOffer(o, m) \/ DropLine(o, m)
    PROVE  Wanted(o)' \subseteq Wanted(o) \ {m}
<1>0. /\ \A l \in Lines : line[l] \in LineRow
      /\ line \in [Lines -> LineRow] /\ AcceptedKept /\ m \in Lines /\ OrderOf[m] = o
  BY TypeInvParts DEF ReasonInv, ConsentInv, RowsInv, RowsOK, LinesOf
<1>1. \A l \in LinesOf(o) \ {m} : line'[l] = line[l]
  BY <1>0 DEF ApplyOffer, DropLine, db, LinesOf
<1>2. line'[m].reserved \/ line'[m].dropped
  BY <1>0 DEF ApplyOffer, DropLine, DropDone, db, AcceptedKept, LineRow
<1>3. LinesOf(o)' = LinesOf(o)
  BY DEF LinesOf
<1> QED
  BY <1>1, <1>2, <1>3 DEF Wanted, Active

\* What is left of a drive after its checkpoint moved on to node n.
LEMMA LeftAfterGoTo ==
    ASSUME TypeInv, NEW o \in Orders, NEW n \in Nodes, GoTo(o, n)
    PROVE  /\ live'[o].at = n /\ live'[o].missing = live[o].missing
           /\ NodesLeft(o)' = NodesFrom(n, FALSE, Cardinality(Wanted(o)'),
                                        Cardinality(Wanted(o)' \ {live[o].missing}))
<1>1. live[o] \in Checkpoint /\ live'[o] = [live[o] EXCEPT !.at = n, !.asked = FALSE]
  BY TypeInvParts DEF ControlOK, GoTo, Save
<1>2. live'[o].at = n /\ live'[o].missing = live[o].missing /\ live'[o].asked = FALSE
  BY <1>1 DEF Checkpoint
<1> QED
  BY <1>2 DEF NodesLeft, Paused

\* Every node brings its drive nearer to its end: a line that is short is offered,
\* answered, applied or dropped, and then not looked at again.
LEMMA NodeShortens ==
    ASSUME ReasonInv, NEW w \in Workers, NEW o \in Orders, Node(w, o),
           NEW m, m = live[o].missing
    PROVE  NodesLeft(o)' < NodesLeft(o)
<1> DEFINE N(S) == Cardinality(S)
<1>0. /\ TypeInv /\ ~Paused(o)
      /\ live[o].at \in LineNodes => m \in LinesOf(o)
      /\ \E S \in SUBSET LinesOf(o) : S = Wanted(o)
      /\ \E S \in SUBSET LinesOf(o) : S = Wanted(o)'
  BY NodeRuns DEF ReasonInv, ConsentInv, Wanted, Active, LinesOf
<1>1. PICK S \in SUBSET LinesOf(o), T \in SUBSET LinesOf(o) : S = Wanted(o) /\ T = Wanted(o)'
  BY <1>0
<1>2. PICK at \in Nodes, asked \in BOOLEAN : at = live[o].at /\ asked = live[o].asked
  BY <1>0, TypeInvParts DEF ControlOK, Checkpoint
<1>3. PICK n, r, k, s : n = N(S) /\ r = N(S \ {m}) /\ k = N(T) /\ s = N(T \ {m})
  OBVIOUS
<1>4. n \in Nat /\ r \in 0..n /\ k \in Nat /\ s \in 0..k
  <2>1. Cardinality(LinesOf(o)) \in Nat
    BY LinesCount
  <2>2. n \in 0..Cardinality(LinesOf(o)) /\ r \in 0..n
    BY <1>3, LinesCount
  <2>3. k \in 0..Cardinality(LinesOf(o)) /\ s \in 0..k
    BY <1>3, LinesCount
  <2> QED
    BY <2>1, <2>2, <2>3
<1> HIDE DEF N
<1>5. NodesLeft(o) = NodesFrom(at, asked, n, r)
  BY <1>0, <1>1, <1>2, <1>3 DEF NodesLeft, N
<1>6. ASSUME NEW x \in Nodes, GoTo(o, x) PROVE NodesLeft(o)' = NodesFrom(x, FALSE, k, s)
  BY <1>0, <1>1, <1>3, <1>6, LeftAfterGoTo DEF N
<1>7. line' = line => k = n /\ s = r
  BY <1>1, <1>3 DEF Wanted, Active, LinesOf
<1>8. CASE Fraud(w, o)
  <2>1. at = "fraud" /\ UNCHANGED line /\ (GoTo(o, "manual") \/ GoTo(o, "inventory"))
    BY <1>2, <1>8 DEF Fraud, Running, db
  <2>2. NodesLeft(o)' \in {1, 3 * n + 2} /\ NodesLeft(o) = 3 * n + 3
    BY <1>4, <1>5, <1>6, <1>7, <2>1 DEF NodesFrom, Nodes
  <2> QED
    BY <1>4, <2>2
<1>9. CASE AskAuditor(w, o) \/ AskCustomer(w, o)
  <2>1. at \in {"manual", "wait_customer"} /\ asked = FALSE /\ Ask(o)
    BY <1>2, <1>9 DEF AskAuditor, AskCustomer, Running
  <2>2. live'[o].asked = TRUE /\ resume'[o] = "none"
    BY <1>0, <2>1, TypeInvParts DEF ControlOK, Checkpoint, Ask, Save
  <2>3. NodesLeft(o)' = 0
    BY <2>2 DEF NodesLeft, Paused
  <2>4. NodesLeft(o) = 1
    BY <1>4, <1>5, <2>1 DEF NodesFrom
  <2> QED
    BY <2>3, <2>4
<1>10. CASE AuditorAnswered(w, o)
  <2>1. /\ at = "manual" /\ asked = TRUE /\ UNCHANGED line
        /\ GoTo(o, "cancel") \/ GoTo(o, "inventory")
    BY <1>2, <1>10 DEF AuditorAnswered, Running, FlagAudit
  <2>2. NodesLeft(o)' \in {1, 3 * n + 2} /\ NodesLeft(o) = 3 * n + 3
    BY <1>4, <1>5, <1>6, <1>7, <2>1 DEF NodesFrom, Nodes
  <2> QED
    BY <1>4, <2>2
<1>11. CASE CheckStock(w, o)
  <2>1. NodesLeft(o) = 3 * n + 2
    BY <1>2, <1>4, <1>5, <1>11 DEF NodesFrom, CheckStock, Running
  <2>2. PICK got \in SUBSET Wanted(o) :
           /\ Inventory(o, got)
           /\ LET missing == Wanted(o) \ got IN
              \/ /\ missing = {}
                 /\ Save(o, [at |-> IF Active(o) = {} THEN "cancel" ELSE "fulfill",
                             missing |-> NoLine, asked |-> FALSE])
              \/ \E l \in missing : Save(o, [at |-> "offer", missing |-> l, asked |-> FALSE])
    BY <1>11 DEF CheckStock
  <2>3. T = S \ got
    <3>1. \A l \in LinesOf(o) : /\ l \in got => line'[l].reserved
                                /\ l \notin got => line'[l] = line[l]
      BY <1>0, <2>2, TypeInvParts DEF Inventory, RowsInv, RowsOK, LineRow, LinesOf
    <3> QED
      BY <1>1, <2>2, <3>1 DEF Wanted, Active, LinesOf
  <2>4. CASE Save(o, [at |-> IF Active(o) = {} THEN "cancel" ELSE "fulfill",
                      missing |-> NoLine, asked |-> FALSE])
    <3>1. live'[o].at \in {"cancel", "fulfill"} /\ live'[o].asked = FALSE
      BY <1>0, <2>4, TypeInvParts DEF Save, ControlOK
    <3>2. NodesLeft(o)' = NodesFrom(live'[o].at, FALSE, k, Cardinality(T \ {live'[o].missing}))
      BY <1>1, <1>3, <3>1 DEF NodesLeft, Paused, N
    <3>3. NodesLeft(o)' = 1
      BY <3>1, <3>2 DEF NodesFrom
    <3> QED
      BY <1>4, <2>1, <3>3
  <2>5. ASSUME NEW l \in T, Save(o, [at |-> "offer", missing |-> l, asked |-> FALSE])
        PROVE  NodesLeft(o)' < NodesLeft(o)
    <3>1. live'[o] = [at |-> "offer", missing |-> l, asked |-> FALSE]
      BY <1>0, <2>5, TypeInvParts DEF Save, ControlOK
    <3>2. NodesLeft(o)' = NodesFrom("offer", FALSE, k, N(T \ {l}))
      BY <1>1, <1>3, <3>1 DEF NodesLeft, Paused, N
    <3>3. N(T \ {l}) = k - 1 /\ k <= n /\ k - 1 \in Nat
      <4>1. N(T \ {l}) = N(T) - 1
        BY <2>5, LinesCount DEF N
      <4>2. N(T) \in 0..N(S) /\ N(T \ {l}) \in 0..N(T)
        BY <2>3, LinesCount DEF N
      <4> QED
        BY <1>3, <1>4, <4>1, <4>2
    <3>4. NodesLeft(o)' = 3 * (k - 1) + 4
      BY <1>4, <3>2, <3>3 DEF NodesFrom
    <3> QED
      BY <1>4, <2>1, <3>3, <3>4
  <2> QED
    BY <1>1, <2>2, <2>3, <2>4, <2>5
<1>12. CASE Offer(w, o)
  <2>1. /\ at = "offer" /\ (GoTo(o, "wait_customer") \/ GoTo(o, "drop_line"))
        /\ \E hint : CreateOffer(o, m, hint)
    BY <1>2, <1>12 DEF Offer, Running
  <2>2. UNCHANGED line
    BY <2>1 DEF CreateOffer, db
  <2>3. NodesLeft(o)' \in {1, 3 * r + 3} /\ NodesLeft(o) = 3 * r + 4
    BY <1>2, <1>4, <1>5, <1>6, <1>7, <1>12, <2>1, <2>2 DEF NodesFrom, Nodes, Offer, Running
  <2> QED
    BY <1>4, <2>3
<1>13. CASE CustomerAnswered(w, o)
  <2>1. /\ at = "wait_customer" /\ asked = TRUE /\ UNCHANGED line
        /\ GoTo(o, "apply") \/ GoTo(o, "drop_line")
    BY <1>2, <1>13 DEF CustomerAnswered, Running, db
  <2>2. NodesLeft(o)' = 3 * r + 3 /\ NodesLeft(o) = 3 * r + 4
    BY <1>4, <1>5, <1>6, <1>7, <2>1 DEF NodesFrom, Nodes
  <2> QED
    BY <1>4, <2>2
<1>14. CASE Apply(w, o) \/ Drop(w, o)
  <2>1. /\ at \in {"apply", "drop_line"} /\ GoTo(o, "inventory")
        /\ ApplyOffer(o, m) \/ DropLine(o, m)
    BY <1>2, <1>14 DEF Apply, Drop, Running
  <2>2. T \subseteq S \ {m}
    BY <1>0, <1>1, <1>2, <2>1, ThroughNotWanted DEF LineNodes
  <2>3. k <= r
    <3>1. S \ {m} \in SUBSET LinesOf(o) /\ T \in SUBSET (S \ {m})
      BY <2>2
    <3>2. N(T) \in 0..N(S \ {m})
      BY <3>1, LinesCount DEF N
    <3> QED
      BY <1>3, <1>4, <3>2
  <2>4. NodesLeft(o)' = 3 * k + 2 /\ NodesLeft(o) = 3 * r + 3
    BY <1>4, <1>5, <1>6, <2>1 DEF NodesFrom, Nodes
  <2> QED
    BY <1>4, <2>3, <2>4
<1>15. CASE Ship(w, o) \/ Refuse(w, o)
  <2>1. at \in {"fulfill", "cancel"} /\ GoTo(o, "end")
    BY <1>2, <1>15 DEF Ship, Refuse, Running
  <2>2. NodesLeft(o)' = 0 /\ NodesLeft(o) = 1
    BY <1>4, <1>5, <1>6, <2>1 DEF NodesFrom, Nodes
  <2> QED
    BY <2>2
<1> QED
  BY <1>8, <1>9, <1>10, <1>11, <1>12, <1>13, <1>14, <1>15 DEF Node

LEMMA LeftFrame ==
    ASSUME NEW o \in Orders, live'[o] = live[o], resume'[o] = resume[o],
           \A l \in LinesOf(o) : line'[l] = line[l]
    PROVE  NodesLeft(o)' = NodesLeft(o)
<1>1. Wanted(o)' = Wanted(o)
  BY DEF Wanted, Active, LinesOf
<1> QED
  BY <1>1 DEF NodesLeft, Paused

\* While a worker holds the job, nobody but the node it runs moves its drive.
LEMMA StepShortens ==
    ASSUME ReasonInv, [Next]_vars, NEW o \in Orders, ~Unlocked(o), lock'[o] = lock[o]
    PROVE  \/ live'[o] = live[o] /\ NodesLeft(o)' = NodesLeft(o)
           \/ NodesLeft(o)' < NodesLeft(o)
<1>0. /\ TypeInv /\ RowsOK /\ ControlOK /\ Placed(o) /\ lock[o] # NoWorker
      /\ \A q \in Orders : lock[q] \in Workers \cup {NoWorker}
  BY TypeInvParts DEF ReasonInv, ConsentInv, JobsOK, RowsInv, ControlOK, Unlocked
<1> SUFFICES ASSUME ~(NodesLeft(o)' < NodesLeft(o))
             PROVE  /\ live'[o] = live[o] /\ resume'[o] = resume[o]
                    /\ \A l \in LinesOf(o) : line'[l] = line[l]
  BY LeftFrame
<1>1. CASE UNCHANGED <<line, live, resume>>
  BY <1>1
<1>2. ASSUME NEW q \in Orders, Place(q)
      PROVE  UNCHANGED <<live, resume>> /\ \A l \in LinesOf(o) : line'[l] = line[l]
  BY <1>0, <1>2 DEF Place, PlaceOrder, Placed, graph, LinesOf
<1>3. ASSUME NEW w \in Workers, NEW q \in Orders, Node(w, q)
      PROVE  /\ live'[o] = live[o] /\ resume'[o] = resume[o]
             /\ \A l \in LinesOf(o) : line'[l] = line[l]
  <2>1. q # o
    <3>1. \E m : m = live[o].missing
      OBVIOUS
    <3> QED
      BY <1>3, <3>1, NodeShortens
  <2>2. OnlyItsOwn(q)
    BY <1>0, <1>3, NodeTransaction
  <2>3. live'[o] = live[o] /\ resume'[o] = resume[o]
    BY <1>0, <1>3, <2>1 DEF Node, Fraud, AskAuditor, AuditorAnswered, CheckStock, Offer,
       AskCustomer, CustomerAnswered, Apply, Drop, Ship, Refuse, GoTo, Ask, Save, ControlOK
  <2> QED
    BY <2>1, <2>2, <2>3 DEF OnlyItsOwn, LinesOf
<1>4. ASSUME NEW w \in Workers, NEW q \in Orders, Claim(w, q) \/ Finish(w, q) \/ Failure(w, q)
      PROVE  UNCHANGED line /\ live'[o] = live[o] /\ resume'[o] = resume[o]
  <2>1. q # o
    BY <1>0, <1>4, WorkflowAssumption DEF Claim, Finish, Failure, Raise, Crash, Unlocked, ControlOK
  <2> QED
    BY <1>0, <1>4, <2>1 DEF Claim, Finish, Failure, Raise, Crash, ControlOK, db
<1>5. CASE UNCHANGED vars \/ Sleep \/ \E q \in Orders : LockForCancel(q) \/ Retry(q)
  BY <1>1, <1>5 DEF vars, db, graph, Sleep, LockForCancel, Retry
<1>6. CASE \E q \in Orders : CustomerCancel(q) \/ \E d \in {"approve", "reject"} : DecideAudit(q, d)
  BY <1>1, <1>6 DEF CustomerCancel, CancelledIfReceived, CancelBeforeResolution, DecideAudit,
     db, graph
<1>7. CASE \E l \in Lines : \/ \E d \in {"accept", "reject"} : Reply(l, d)
                            \/ Deadline(l) \/ \E w \in Workers : ExpireOffer(w, l)
  BY <1>1, <1>7 DEF Reply, Deadline, ExpireOffer, graph
<1> QED
  BY <1>2, <1>3, <1>4, <1>5, <1>6, <1>7 DEF Next

\* Every drive ends after three nodes per line and three more, whatever failed
\* before it, whatever others do and whatever the lines run short of (drive, the
\* cycle inventory - offer - wait_customer - apply or drop_line of build_graph).
THEOREM DrivesAreShort == Spec => DriveIsShort
<1> DEFINE Nearer == \A o \in Orders : ~Unlocked(o) /\ lock'[o] = lock[o] =>
                        /\ NodesLeft(o)' <= NodesLeft(o)
                        /\ live'[o] # live[o] => NodesLeft(o)' < NodesLeft(o)
           Bounded == \A o \in Orders : NodesLeft(o) \in 0..3 * Cardinality(LinesOf(o)) + 3
<1>1. ReasonInv => Bounded
  BY NodesBounded DEF ReasonInv, ConsentInv
<1>2. ReasonInv /\ [Next]_vars => [Nearer]_vars
  <2> SUFFICES ASSUME ReasonInv, [Next]_vars, NEW o \in Orders, ~Unlocked(o), lock'[o] = lock[o]
               PROVE  /\ NodesLeft(o)' <= NodesLeft(o)
                      /\ live'[o] # live[o] => NodesLeft(o)' < NodesLeft(o)
    OBVIOUS
  <2>1. \/ live'[o] = live[o] /\ NodesLeft(o)' = NodesLeft(o)
        \/ NodesLeft(o)' < NodesLeft(o)
    BY StepShortens
  <2>2. ReasonInv'
    BY NextReason
  <2>3. NodesLeft(o) \in Nat /\ NodesLeft(o)' \in Nat
    <3>1. Cardinality(LinesOf(o)) \in Nat
      BY LinesCount
    <3>2. NodesLeft(o) \in 0..3 * Cardinality(LinesOf(o)) + 3
      BY NodesBounded DEF ReasonInv, ConsentInv
    <3>3. Bounded'
      BY <1>1, <2>2, PTL
    <3>4. NodesLeft(o)' \in 0..(3 * Cardinality(LinesOf(o)) + 3)'
      BY <3>3
    <3> QED
      BY <3>1, <3>2, <3>4 DEF LinesOf
  <2> QED
    BY <2>1, <2>3
<1>3. Init => ReasonInv
  BY InitReason
<1>4. ReasonInv /\ [Next]_vars => ReasonInv'
  BY NextReason
<1> HIDE DEF Nearer, Bounded
<1>5. Spec => []Bounded /\ [][Nearer]_vars
  BY <1>1, <1>2, <1>3, <1>4, PTL DEF Spec
<1> QED
  BY <1>5 DEF DriveIsShort, Nearer, Bounded

-----------------------------------------------------------------------------
(* Where an order is left that nobody drives.                                *)

\* Only the nodes that settle an order lead to the end of its graph.
LEMMA NodeRests ==
    ASSUME RestInv, NEW w \in Workers, NEW o \in Orders, Node(w, o)
    PROVE  ~Unlocked(o)' /\ Ended(o)'
<1>0. TypeInv /\ RowsOK /\ ControlOK /\ lock[o] = w /\ ~Paused(o) /\ Ended(o)
  BY NodeRuns, TypeInvParts DEF RestInv, RowsInv
<1>1. /\ ~Unlocked(o)' /\ live[o].at # "end"
      /\ stale'[o] \subseteq stale[o] \cup {live[o]}
      /\ lock' = lock
  BY <1>0, WorkflowAssumption DEF Node, Fraud, AskAuditor, AuditorAnswered, CheckStock,
     Offer, AskCustomer, CustomerAnswered, Apply, Drop, Ship, Refuse, GoTo, Ask, Save,
     ControlOK, Running, Unlocked
<1>2. \A c \in stale'[o] : c.at # "end"
  BY <1>0, <1>1 DEF Ended
<1>3. CASE Ship(w, o)
  <2>1. order'[o].status = "ready_for_fulfillment"
    BY <1>0, <1>3 DEF Ship, Fulfill, db, RowsOK, OrderRow
  <2> QED
    BY <1>1, <1>2, <2>1 DEF Ended, Settled
<1>4. CASE Refuse(w, o)
  <2>1. \/ order[o].status \in Refused /\ order' = order
        \/ order' = [order EXCEPT ![o].status = RefusedStatus(o), ![o].acted = TRUE]
    BY <1>4 DEF Refuse, Cancel, db
  <2>2. RefusedStatus(o) \in Refused
    BY DEF RefusedStatus, Refused
  <2>3. order'[o].status \in Refused
    BY <2>1, <2>2, <1>0 DEF RowsOK, OrderRow
  <2> QED
    BY <1>1, <1>2, <2>3 DEF Ended, Settled
<1>5. CASE ~Ship(w, o) /\ ~Refuse(w, o)
  <2>1. live'[o].at # "end"
    <3>1. CASE CheckStock(w, o)
      BY <1>0, <3>1 DEF CheckStock, Save, ControlOK
    <3>2. CASE Ask(o)
      BY <1>0, <1>1, <3>2 DEF Ask, Save, ControlOK, Checkpoint
    <3>3. CASE \E n \in Nodes \ {"end"} : GoTo(o, n)
      BY <1>0, <3>3 DEF GoTo, Save, ControlOK, Checkpoint
    <3> QED
      BY <1>5, <3>1, <3>2, <3>3 DEF Node, Fraud, AskAuditor, AuditorAnswered, Offer,
         AskCustomer, CustomerAnswered, Apply, Drop, Nodes
  <2> QED
    BY <1>1, <1>2, <2>1 DEF Ended
<1> QED
  BY <1>3, <1>4, <1>5

\* Who does not drive an order leaves it where it is, settled if it was.
LEMMA QuietRests ==
    ASSUME RestInv, NEW q \in Orders, live'[q] = live[q], stale'[q] \subseteq stale[q],
           order'[q].status = order[q].status \/ order'[q].status \in Settled,
           Unlocked(q)' => Unlocked(q),
           job'[q] = job[q] \/ job'[q].pending \/ order'[q].status \in Settled
    PROVE  /\ Ended(q)'
           /\ Placed(q)' /\ Unlocked(q)' /\ order'[q].status \notin Settled =>
                 job'[q].pending \/ live'[q].asked \/ job'[q].attempts = MaxAttempts
<1>1. Ended(q)'
  BY DEF RestInv, Ended
<1> QED
  BY <1>1 DEF RestInv, RestsAtInterrupt, Placed

LEMMA NextRests == RestInv /\ [Next]_vars => RestInv'
<1> SUFFICES ASSUME RestInv, [Next]_vars, NEW q \in Orders
             PROVE  /\ Ended(q)'
                    /\ Placed(q)' /\ Unlocked(q)' /\ order'[q].status \notin Settled =>
                          job'[q].pending \/ live'[q].asked \/ job'[q].attempts = MaxAttempts
  BY NextTypeInv DEF RestInv, RestsAtInterrupt
<1>0. TypeInv /\ RowsOK /\ ControlOK /\ JobsOK /\ Ended(q)
  BY TypeInvParts DEF RestInv, RowsInv
<1> USE <1>0
<1>1. CASE UNCHANGED <<order, job, lock, live, stale>>
  BY <1>1, QuietRests DEF Unlocked
<1>2. ASSUME NEW o \in Orders, Place(o)
      PROVE  /\ Ended(q)'
             /\ Placed(q)' /\ Unlocked(q)' /\ order'[q].status \notin Settled =>
                   job'[q].pending \/ live'[q].asked \/ job'[q].attempts = MaxAttempts
  <2>1. UNCHANGED <<lock, live, stale>> /\ order[o].status = "absent"
    BY <1>2 DEF Place, PlaceOrder, graph
  <2>2. q # o => order'[q] = order[q] /\ job'[q] = job[q]
    BY <1>2 DEF Place, PlaceOrder, RowsOK, ControlOK
  <2>3. job'[o].pending
    BY <1>2 DEF Place, ControlOK, JobRow
  <2>4. live[o].at # "end"
    BY <2>1 DEF RestInv, Ended, Settled, Refused
  <2> QED
    BY <2>1, <2>2, <2>3, <2>4, QuietRests DEF Unlocked, Ended
<1>3. ASSUME NEW o \in Orders, CustomerCancel(o)
      PROVE  /\ Ended(q)'
             /\ Placed(q)' /\ Unlocked(q)' /\ order'[q].status \notin Settled =>
                   job'[q].pending \/ live'[q].asked \/ job'[q].attempts = MaxAttempts
  <2>1. UNCHANGED <<lock, live, stale>>
    BY <1>3 DEF CustomerCancel, CancelledIfReceived, CancelBeforeResolution, graph
  <2>2. \/ order'[q] = order[q] /\ job'[q] = job[q]
        \/ order'[q].status \in Settled
    BY <1>3 DEF CustomerCancel, CancelledIfReceived, CancelBeforeResolution, db, RowsOK,
       OrderRow, ControlOK, RefusedStatus, Settled, Refused
  <2> QED
    BY <2>1, <2>2, QuietRests DEF Unlocked
<1>4. ASSUME NEW o \in Orders, Retry(o) \/ \E d \in {"approve", "reject"} : DecideAudit(o, d)
      PROVE  /\ Ended(q)'
             /\ Placed(q)' /\ Unlocked(q)' /\ order'[q].status \notin Settled =>
                   job'[q].pending \/ live'[q].asked \/ job'[q].attempts = MaxAttempts
  <2>1. UNCHANGED <<lock, live, stale>> /\ order'[q].status = order[q].status
    BY <1>4 DEF Retry, DecideAudit, graph, db, RowsOK, OrderRow
  <2>2. job'[q] = job[q] \/ job'[q].pending
    BY <1>4 DEF Retry, DecideAudit, Wake, ControlOK
  <2> QED
    BY <2>1, <2>2, QuietRests DEF Unlocked
<1>5. ASSUME NEW l \in Lines,
             \/ \E d \in {"accept", "reject"} : Reply(l, d)
             \/ Deadline(l) \/ \E w \in Workers : ExpireOffer(w, l)
      PROVE  /\ Ended(q)'
             /\ Placed(q)' /\ Unlocked(q)' /\ order'[q].status \notin Settled =>
                   job'[q].pending \/ live'[q].asked \/ job'[q].attempts = MaxAttempts
  <2>1. UNCHANGED <<lock, live, stale, order>>
    BY <1>5 DEF Reply, Deadline, ExpireOffer, graph
  <2>2. job'[q] = job[q] \/ job'[q].pending
    BY <1>5 DEF Reply, Deadline, ExpireOffer, Wake, ControlOK
  <2> QED
    BY <2>1, <2>2, QuietRests DEF Unlocked
<1>6. ASSUME NEW w \in Workers, NEW o \in Orders, Node(w, o)
      PROVE  /\ Ended(q)'
             /\ Placed(q)' /\ Unlocked(q)' /\ order'[q].status \notin Settled =>
                   job'[q].pending \/ live'[q].asked \/ job'[q].attempts = MaxAttempts
  <2>1. CASE q = o
    BY <1>6, <2>1, NodeRests
  <2>2. CASE q # o
    <3>1. order'[q] = order[q]
      BY <1>6, <2>2, NodeTransaction DEF OnlyItsOwn
    <3>2. live'[q] = live[q] /\ stale'[q] = stale[q] /\ UNCHANGED <<job, lock>>
      BY <1>6, <2>2 DEF Node, Fraud, AskAuditor, AuditorAnswered, CheckStock, Offer,
         AskCustomer, CustomerAnswered, Apply, Drop, Ship, Refuse, GoTo, Ask, Save, ControlOK
    <3> QED
      BY <3>1, <3>2, QuietRests DEF Unlocked
  <2> QED
    BY <2>1, <2>2
<1>7. ASSUME NEW w \in Workers, NEW o \in Orders, Claim(w, o) \/ Finish(w, o) \/ Failure(w, o)
      PROVE  /\ Ended(q)'
             /\ Placed(q)' /\ Unlocked(q)' /\ order'[q].status \notin Settled =>
                   job'[q].pending \/ live'[q].asked \/ job'[q].attempts = MaxAttempts
  <2>1. UNCHANGED order
    BY <1>7 DEF Claim, Finish, Failure, Raise, Crash, db
  <2>2. CASE q # o
    BY <1>7, <2>1, <2>2, QuietRests DEF Claim, Finish, Failure, Raise, Crash, ControlOK, Unlocked
  <2>3. CASE q = o /\ Claim(w, o)
    <3>1. lock'[q] = w /\ UNCHANGED <<live, stale>>
      BY <1>7, <2>3 DEF Claim, ControlOK
    <3> QED
      BY <2>1, <3>1, WorkflowAssumption DEF Unlocked, Ended
  <2>4. CASE q = o /\ Finish(w, o)
    <3>1. live' = live /\ stale'[q] = {} /\ (live[q].at = "end" \/ live[q].asked)
      BY <1>7, <2>4 DEF Finish, DriveOver, Paused, ControlOK
    <3> QED
      BY <2>1, <3>1 DEF Ended
  <2>5. CASE q = o /\ Failure(w, o)
    <3>1. /\ live'[q] \in stale[q] \cup {live[q]} /\ stale'[q] = {}
          /\ ~Unlocked(q)
      BY <1>7, <2>5, WorkflowAssumption DEF Failure, Raise, Crash, ControlOK, Unlocked
    <3>2. job[q].pending
      BY <3>1 DEF JobsOK
    <3>3. job'[q].pending \/ job'[q].attempts = MaxAttempts
      <4>1. CASE Crash(w, o)
        BY <2>5, <3>2, <4>1 DEF Crash
      <4>2. CASE Raise(w, o)
        <5>1. job[q].attempts \in Nat /\ job[q].attempts < MaxAttempts /\ MaxAttempts \in Nat
          BY <3>2, WorkflowAssumption DEF JobsOK, ControlOK, JobRow
        <5>2. CASE job[q].attempts + 1 < MaxAttempts
          BY <2>5, <4>2, <5>1, <5>2 DEF Raise, ControlOK
        <5>3. CASE job[q].attempts + 1 = MaxAttempts
          BY <2>5, <4>2, <5>1, <5>3 DEF Raise, ControlOK
        <5> QED
          BY <5>1, <5>2, <5>3
      <4> QED
        BY <2>5, <4>1, <4>2 DEF Failure
    <3> QED
      BY <2>1, <3>1, <3>3 DEF Ended
  <2> QED
    BY <1>7, <2>2, <2>3, <2>4, <2>5
<1>8. CASE UNCHANGED vars \/ Sleep \/ \E o \in Orders : LockForCancel(o)
  BY <1>1, <1>8 DEF vars, db, graph, Sleep, LockForCancel
<1> QED
  BY <1>2, <1>3, <1>4, <1>5, <1>6, <1>7, <1>8 DEF Next

\* However often drives fail, an order that is not settled and that nobody drives
\* is queued, at its interrupt or out of attempts: if it is overlooked, then by an
\* answer that came before its interrupt was stored (process_one, drive, wake).
THEOREM OrdersRestAtInterrupts == Spec => []RestsAtInterrupt
<1>1. Init => RestInv
  <2>1. Init => \A o \in Orders : ~Placed(o) /\ live[o] = Entry /\ stale[o] = {}
    BY DEF Init, ServicesInit, Placed, NoOrder
  <2>2. Init => RestsAtInterrupt /\ \A o \in Orders : Ended(o)
    BY <2>1 DEF RestsAtInterrupt, Ended, Entry
  <2> QED
    BY <2>2, InitTypeInv DEF RestInv
<1>2. RestInv /\ [Next]_vars => RestInv'
  BY NextRests
<1>3. RestInv => RestsAtInterrupt
  BY DEF RestInv
<1> QED
  BY <1>1, <1>2, <1>3, PTL DEF Spec
=============================================================================
