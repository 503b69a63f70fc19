----------------------------- MODULE Demo_proofs -----------------------------
(***************************************************************************)
(* The sample shop keeps its stock and its money, counts forward only, and  *)
(* keeps the promise of OrderLifecycle: for any number of orders its user   *)
(* adds, of any products and quantities, and clicks in any order.           *)
(***************************************************************************)
EXTENDS DemoGuarantees, Sums_proofs

(***************************************************************************)
(* Rows and stores.                                                        *)
(***************************************************************************)
Statuses == Settled \cup {"absent", "processing", "manual_review", "awaiting_customer"}
Kinds == {"intake", "inventory", "offer_email", "audit", "approved", "approval",
          "refund_request", "cancel_cod", "fulfillment", "partial_refund_request"}
Deals == [status : {"none", "pending", "accepted", "rejected"},
          product : Products \cup {0}, price : Nat, held : BOOLEAN]
Rows == [status : Statuses, product : Products, original : Products,
         quantity : 1..100, price : Nat, reserved : BOOLEAN,
         method : {"prepaid", "cod"}, risky : BOOLEAN, shortage : BOOLEAN,
         recovered : BOOLEAN, total : Nat, final : Nat, offer : Deals,
         log : SUBSET Kinds, refund : Nat]
Stores == [stock : [Products -> Nat], orders : [Ids -> Rows]]

LEMMA CatalogFacts ==
    /\ Products = 1..10 /\ catalog[2].stock = 20 /\ Price[1] = 100000
    /\ \A p \in Products : catalog[p].stock \in Nat /\ Price[p] \in Nat
BY DEF Products, Price, catalog

\* Units of p that the order o has reserved, or its offer holds.
Owns(o, p) == (IF o.reserved /\ o.product = p THEN o.quantity ELSE 0)
              + (IF o.offer.held /\ o.offer.product = p THEN o.quantity ELSE 0)

LEMMA OwnsNat == \A o \in Rows : \A p : Owns(o, p) \in Nat
BY DEF Owns, Rows, Deals

\* From s to t only order i changes, and units move between it and the shelf.
Moved(s, t, i) ==
    /\ t \in Stores
    /\ \A j \in Ids \ {i} : t.orders[j] = s.orders[j]
    /\ \A p \in Products :
          t.stock[p] + Owns(t.orders[i], p) = s.stock[p] + Owns(s.orders[i], p)

LEMMA MovedTwice ==
    ASSUME NEW s \in Stores, NEW i \in Ids, NEW t, NEW u, Moved(s, t, i), Moved(t, u, i)
    PROVE  Moved(s, u, i)
BY DEF Moved

\* The building blocks of transition, as whole stores.
LEMMA WithIs ==
    ASSUME NEW s \in Stores, NEW i \in Ids, NEW n \in Rows
    PROVE  /\ With(s, i, n) = [stock |-> s.stock, orders |-> [s.orders EXCEPT ![i] = n]]
           /\ With(s, i, n) \in Stores
<1>1. s = [stock |-> s.stock, orders |-> s.orders]
  BY DEF Stores
<1>2. With(s, i, n) = [stock |-> s.stock, orders |-> [s.orders EXCEPT ![i] = n]]
  BY <1>1 DEF With
<1> QED
  BY <1>2 DEF Stores

LEMMA ShelfIs ==
    ASSUME NEW s \in Stores, NEW p \in Products, NEW k \in Nat
    PROVE  /\ Return(s, p, k) = [stock |-> [s.stock EXCEPT ![p] = @ + k], orders |-> s.orders]
           /\ Take(s, p, k) = [stock |-> [s.stock EXCEPT ![p] = @ - k], orders |-> s.orders]
           /\ Return(s, p, k) \in Stores
           /\ s.stock[p] >= k => Take(s, p, k) \in Stores
<1>1. s = [stock |-> s.stock, orders |-> s.orders]
  BY DEF Stores
<1>2. Return(s, p, k) = [stock |-> [s.stock EXCEPT ![p] = @ + k], orders |-> s.orders]
  BY <1>1 DEF Return
<1>3. Take(s, p, k) = [stock |-> [s.stock EXCEPT ![p] = @ - k], orders |-> s.orders]
  BY <1>1 DEF Take
<1>4. s.stock \in [Products -> Nat] /\ s.orders \in [Ids -> Rows]
  BY DEF Stores
<1>5. s.stock[p] + k \in Nat /\ (s.stock[p] >= k => s.stock[p] - k \in Nat)
  BY <1>4
<1> QED
  BY <1>2, <1>3, <1>4, <1>5 DEF Stores

\* A row that owns what it owned.
LEMMA WithMoved ==
    ASSUME NEW s \in Stores, NEW i \in Ids, NEW n \in Rows,
           \A p \in Products : Owns(n, p) = Owns(s.orders[i], p)
    PROVE  Moved(s, With(s, i, n), i) /\ With(s, i, n).orders[i] = n
           /\ With(s, i, n).stock = s.stock
BY WithIs DEF Moved, Stores

LEMMA ReturnMoved ==
    ASSUME NEW s \in Stores, NEW i \in Ids, NEW n \in Rows, NEW p \in Products, NEW k \in Nat,
           \A q \in Products : Owns(s.orders[i], q) = Owns(n, q) + (IF q = p THEN k ELSE 0)
    PROVE  Moved(s, With(Return(s, p, k), i, n), i)
           /\ With(Return(s, p, k), i, n).orders[i] = n
<1>1. /\ Return(s, p, k) = [stock |-> [s.stock EXCEPT ![p] = @ + k], orders |-> s.orders]
      /\ Return(s, p, k) \in Stores
  BY ShelfIs
<1> DEFINE t == With(Return(s, p, k), i, n)
<1>2. /\ t.stock = [s.stock EXCEPT ![p] = @ + k]
      /\ t.orders = [s.orders EXCEPT ![i] = n]
      /\ t \in Stores
  BY <1>1, WithIs
<1> HIDE DEF t
<1>3. ASSUME NEW q \in Products
      PROVE  t.stock[q] + Owns(t.orders[i], q) = s.stock[q] + Owns(s.orders[i], q)
  <2>1. t.stock[q] = s.stock[q] + (IF q = p THEN k ELSE 0) /\ s.stock[q] \in Nat
    BY <1>2 DEF Stores
  <2>2. t.orders[i] = n /\ Owns(n, q) \in Nat /\ Owns(s.orders[i], q) \in Nat
    BY <1>2, OwnsNat DEF Stores
  <2> QED
    BY <2>1, <2>2
<1>4. t.orders[i] = n /\ \A j \in Ids \ {i} : t.orders[j] = s.orders[j]
  BY <1>2 DEF Stores
<1> QED
  BY <1>2, <1>3, <1>4 DEF Moved, t

LEMMA TakeMoved ==
    ASSUME NEW s \in Stores, NEW i \in Ids, NEW n \in Rows, NEW p \in Products, NEW k \in Nat,
           s.stock[p] >= k,
           \A q \in Products : Owns(n, q) = Owns(s.orders[i], q) + (IF q = p THEN k ELSE 0)
    PROVE  Moved(s, With(Take(s, p, k), i, n), i)
           /\ With(Take(s, p, k), i, n).orders[i] = n
<1>1. /\ Take(s, p, k) = [stock |-> [s.stock EXCEPT ![p] = @ - k], orders |-> s.orders]
      /\ Take(s, p, k) \in Stores
  BY ShelfIs
<1> DEFINE t == With(Take(s, p, k), i, n)
<1>2. /\ t.stock = [s.stock EXCEPT ![p] = @ - k]
      /\ t.orders = [s.orders EXCEPT ![i] = n]
      /\ t \in Stores
  BY <1>1, WithIs
<1> HIDE DEF t
<1>3. ASSUME NEW q \in Products
      PROVE  t.stock[q] + Owns(t.orders[i], q) = s.stock[q] + Owns(s.orders[i], q)
  <2>1. t.stock[q] = s.stock[q] - (IF q = p THEN k ELSE 0) /\ s.stock[q] \in Nat
    BY <1>2 DEF Stores
  <2>2. t.orders[i] = n /\ Owns(n, q) \in Nat /\ Owns(s.orders[i], q) \in Nat
    BY <1>2, OwnsNat DEF Stores
  <2> QED
    BY <2>1, <2>2
<1>4. t.orders[i] = n /\ \A j \in Ids \ {i} : t.orders[j] = s.orders[j]
  BY <1>2 DEF Stores
<1> QED
  BY <1>2, <1>3, <1>4 DEF Moved, t


-----------------------------------------------------------------------------
(***************************************************************************)
(* What each step of transition makes of the row of its order.             *)
(***************************************************************************)
\* What no step changes of an order.
Terms(o, n) ==
    /\ n.original = o.original /\ n.quantity = o.quantity /\ n.method = o.method
    /\ n.risky = o.risky /\ n.total = o.total

Approved(o) == "approved" \in o.log

\* An offer that is held is of a product.
Dealt(o) == o.offer.held => o.offer.product \in Products

LEMMA RowParts ==
    ASSUME NEW o \in Rows
    PROVE  /\ o.offer \in Deals /\ o.log \in SUBSET Kinds /\ o.quantity \in 1..100
           /\ o.refund \in Nat /\ o.total \in Nat /\ o.price \in Nat /\ o.final \in Nat
           /\ o.price * o.quantity \in Nat /\ o.product \in Products
           /\ o.method \in {"prepaid", "cod"}
           /\ {o.reserved, o.risky, o.shortage, o.recovered, o.offer.held} \subseteq BOOLEAN
           /\ o.offer.status \in {"none", "pending", "accepted", "rejected"}
           /\ o.offer.price \in Nat
BY DEF Rows, Deals

LEMMA LoggedIs ==
    ASSUME NEW o \in Rows, NEW kind \in Kinds
    PROVE  LET n == Logged(o, kind) IN
           /\ n \in Rows /\ Terms(o, n)
           /\ n.status = o.status /\ n.product = o.product /\ n.price = o.price
           /\ n.shortage = o.shortage /\ n.recovered = o.recovered /\ n.final = o.final
           /\ n.reserved = o.reserved /\ n.offer = o.offer /\ n.refund = o.refund
           /\ Approved(n) <=> Approved(o) \/ kind = "approved"
BY DEF Logged, Rows, Terms, Approved

Released(o) == [o EXCEPT !.reserved = FALSE, !.offer.held = FALSE,
                         !.offer.status = IF o.offer.held THEN "rejected" ELSE @]

\* An offer whose hold is over.
Unheld(d, x) == [[d EXCEPT !.held = FALSE] EXCEPT !.status = x]

LEMMA DealIs ==
    ASSUME NEW d \in Deals, NEW x \in {"none", "pending", "accepted", "rejected"}
    PROVE  /\ Unheld(d, x) \in Deals /\ Unheld(d, x).status = x /\ ~Unheld(d, x).held
           /\ Unheld(d, x).product = d.product /\ Unheld(d, x).price = d.price
<1> DEFINE e == Unheld(d, x)
<1>1. d = [status |-> d.status, product |-> d.product, price |-> d.price, held |-> d.held]
      /\ d.product \in Products \cup {0} /\ d.price \in Nat
  BY DEF Deals
<1>2. e = [status |-> x, product |-> d.product, price |-> d.price, held |-> FALSE]
  <2>1. \E c : c = [d EXCEPT !.held = FALSE]
    OBVIOUS
  <2>2. PICK c : c = [d EXCEPT !.held = FALSE]
    BY <2>1
  <2>3. c = [status |-> d.status, product |-> d.product, price |-> d.price, held |-> FALSE]
    BY <1>1, <2>2
  <2>4. e = [c EXCEPT !.status = x]
    BY <2>2 DEF Unheld
  <2> HIDE DEF e
  <2> QED
    BY <2>3, <2>4
<1> HIDE DEF e
<1>3. e \in Deals /\ e.status = x /\ ~e.held /\ e.product = d.product /\ e.price = d.price
  BY <1>1, <1>2 DEF Deals
<1> QED
  BY <1>3 DEF e

LEMMA ReleasedIs ==
    ASSUME NEW o \in Rows
    PROVE  LET n == Released(o) IN
           /\ n \in Rows /\ Terms(o, n)
           /\ n.status = o.status /\ n.product = o.product /\ n.price = o.price
           /\ n.shortage = o.shortage /\ n.recovered = o.recovered /\ n.final = o.final
           /\ n.log = o.log /\ n.refund = o.refund
           /\ ~n.reserved /\ ~n.offer.held
           /\ n.offer.status = IF o.offer.held THEN "rejected" ELSE o.offer.status
           /\ n.offer.product = o.offer.product /\ n.offer.price = o.offer.price
<1> DEFINE x == IF o.offer.held THEN "rejected" ELSE o.offer.status
           d == Unheld(o.offer, x)
<1>1. o.offer \in Deals /\ x \in {"none", "pending", "accepted", "rejected"}
  BY RowParts
<1>2. d \in Deals /\ d.status = x /\ ~d.held
      /\ d.product = o.offer.product /\ d.price = o.offer.price
  BY <1>1, DealIs
<1>3. Released(o) = [o EXCEPT !.reserved = FALSE, !.offer = d]
  BY <1>1 DEF Released, Unheld, Rows, Deals
<1> HIDE DEF d
<1> QED
  BY <1>1, <1>2, <1>3 DEF Rows, Terms

\* Nothing was reserved where an order is cancelled; a hold goes back.
LEMMA ReleaseIs ==
    ASSUME NEW s \in Stores, NEW i \in Ids, ~s.orders[i].reserved, Dealt(s.orders[i])
    PROVE  Moved(s, Release(s, i), i) /\ Release(s, i).orders[i] = Released(s.orders[i])
<1> DEFINE o == s.orders[i]
           n == Released(o)
<1>1. o \in Rows
  BY DEF Stores
<1>2. n \in Rows /\ ~n.reserved /\ ~n.offer.held
  BY <1>1, ReleasedIs
<1>3. CASE o.offer.held
  <2>1. Release(s, i) = With(Return(s, o.offer.product, o.quantity), i, n)
    BY <1>3 DEF Release, Released
  <2>2. o.offer.product \in Products /\ o.quantity \in Nat
    BY <1>1, <1>3, RowParts DEF Dealt
  <2>3. \A q \in Products : Owns(o, q) = Owns(n, q) + (IF q = o.offer.product THEN o.quantity ELSE 0)
    BY <1>2, <1>3, <2>2 DEF Owns
  <2> HIDE DEF n
  <2> QED
    BY <1>2, <2>1, <2>2, <2>3, ReturnMoved DEF n
<1>4. CASE ~o.offer.held
  <2>1. Release(s, i) = With(s, i, n)
    BY <1>4 DEF Release, Released
  <2>2. \A q \in Products : Owns(n, q) = Owns(o, q)
    BY <1>2, <1>4 DEF Owns
  <2> HIDE DEF n
  <2> QED
    BY <1>2, <2>1, <2>2, WithMoved DEF n
<1> QED
  BY <1>3, <1>4

\* cancel: the whole total goes back to who paid it.
Cancelled(o, n) ==
    /\ Terms(o, n)
    /\ n.status = IF o.method = "prepaid" THEN "refund_pending" ELSE "cancelled_cod"
    /\ n.refund = IF o.method = "prepaid" THEN o.refund + o.total ELSE o.refund
    /\ n.product = o.product /\ n.price = o.price
    /\ n.shortage = o.shortage /\ n.recovered = o.recovered /\ n.final = o.final
    /\ ~n.reserved /\ ~n.offer.held
    /\ n.offer.status = IF o.offer.held THEN "rejected" ELSE o.offer.status
    /\ n.offer.product = o.offer.product
    /\ Approved(n) <=> Approved(o)

LEMMA CancelIs ==
    ASSUME NEW s \in Stores, NEW i \in Ids, ~s.orders[i].reserved, Dealt(s.orders[i])
    PROVE  Moved(s, Cancel(s, i), i) /\ Cancelled(s.orders[i], Cancel(s, i).orders[i])
<1> DEFINE o == s.orders[i]
           t == Release(s, i)
           r == t.orders[i]
<1>1. o \in Rows
  BY DEF Stores
<1>2. Moved(s, t, i) /\ r = Released(o) /\ t \in Stores
  BY ReleaseIs DEF Moved
<1>3. r \in Rows
  BY <1>2 DEF Stores
<1> DEFINE back == [r EXCEPT !.status = "refund_pending", !.refund = @ + r.total]
           gone == [r EXCEPT !.status = "cancelled_cod"]
           n == IF r.method = "prepaid" THEN Logged(back, "refund_request")
                ELSE Logged(gone, "cancel_cod")
<1>4. Cancel(s, i) = With(t, i, n)
  BY DEF Cancel
<1>5. back \in Rows /\ gone \in Rows
  <2>1. r.refund + r.total \in Nat /\ {"refund_pending", "cancelled_cod"} \subseteq Statuses
    BY <1>3, RowParts DEF Statuses, Settled
  <2> QED
    BY <1>3, <2>1 DEF Rows
<1>6. /\ n \in Rows /\ Terms(r, n)
      /\ n.status = IF r.method = "prepaid" THEN "refund_pending" ELSE "cancelled_cod"
      /\ n.refund = IF r.method = "prepaid" THEN r.refund + r.total ELSE r.refund
      /\ n.product = r.product /\ n.price = r.price
      /\ n.shortage = r.shortage /\ n.recovered = r.recovered /\ n.final = r.final
      /\ n.reserved = r.reserved /\ n.offer = r.offer
      /\ Approved(n) <=> Approved(r)
  <2>1. CASE r.method = "prepaid"
    <3>1. /\ Terms(r, back) /\ back.status = "refund_pending"
          /\ back.refund = r.refund + r.total
          /\ back.product = r.product /\ back.price = r.price
          /\ back.shortage = r.shortage /\ back.recovered = r.recovered
          /\ back.final = r.final
          /\ back.reserved = r.reserved /\ back.offer = r.offer
          /\ back.log = r.log
      BY <1>3 DEF Rows, Terms
    <3>2. n = Logged(back, "refund_request") /\ "refund_request" \in Kinds
      BY <2>1 DEF Kinds
    <3> HIDE DEF back, n
    <3> QED
      BY <1>5, <2>1, <3>1, <3>2, LoggedIs DEF Terms, Approved
  <2>2. CASE r.method # "prepaid"
    <3>1. /\ Terms(r, gone) /\ gone.status = "cancelled_cod"
          /\ gone.refund = r.refund
          /\ gone.product = r.product /\ gone.price = r.price
          /\ gone.shortage = r.shortage /\ gone.recovered = r.recovered
          /\ gone.final = r.final
          /\ gone.reserved = r.reserved /\ gone.offer = r.offer
          /\ gone.log = r.log
      BY <1>3 DEF Rows, Terms
    <3>2. n = Logged(gone, "cancel_cod") /\ "cancel_cod" \in Kinds
      BY <2>2 DEF Kinds
    <3> HIDE DEF gone, n
    <3> QED
      BY <1>5, <2>2, <3>1, <3>2, LoggedIs DEF Terms, Approved
  <2> QED
    BY <2>1, <2>2
<1>7. \A q \in Products : Owns(n, q) = Owns(r, q)
  BY <1>6 DEF Owns, Terms
<1> HIDE DEF n
<1>8. Moved(t, Cancel(s, i), i) /\ Cancel(s, i).orders[i] = n
  BY <1>2, <1>4, <1>6, <1>7, WithMoved
<1>9. Moved(s, Cancel(s, i), i)
  BY <1>2, <1>8, MovedTwice
<1> HIDE DEF t
<1>10. Cancelled(o, n)
  BY <1>1, <1>2, <1>6, ReleasedIs DEF Cancelled, Terms, Approved
<1> QED
  BY <1>8, <1>9, <1>10

\* fulfill: the order ships, and who prepaid more than that gets the rest back.
Filled(o, n) ==
    /\ Terms(o, n)
    /\ n.status = "ready_for_fulfillment" /\ n.recovered = o.shortage
    /\ n.final = o.price * o.quantity
    /\ n.refund = IF o.method = "prepaid" /\ n.final < o.total
                  THEN o.refund + o.total - n.final ELSE o.refund
    /\ n.product = o.product /\ n.price = o.price /\ n.shortage = o.shortage
    /\ n.reserved = o.reserved /\ n.offer = o.offer
    /\ Approved(n) <=> Approved(o)

LEMMA FulfillIs ==
    ASSUME NEW s \in Stores, NEW i \in Ids
    PROVE  Moved(s, Fulfill(s, i), i) /\ Filled(s.orders[i], Fulfill(s, i).orders[i])
<1> DEFINE o == s.orders[i]
           final == o.price * o.quantity
           base == [o EXCEPT !.status = "ready_for_fulfillment",
                             !.recovered = o.shortage, !.final = final]
           done == Logged(base, "fulfillment")
           rest == [done EXCEPT !.refund = @ + o.total - final]
           n == IF o.method = "prepaid" /\ final < o.total
                THEN Logged(rest, "partial_refund_request") ELSE done
<1>1. Fulfill(s, i) = With(s, i, n)
  BY DEF Fulfill
<1>2. /\ o \in Rows /\ final \in Nat /\ o.shortage \in BOOLEAN
      /\ o.refund \in Nat /\ o.total \in Nat
      /\ "ready_for_fulfillment" \in Statuses
      /\ {"fulfillment", "partial_refund_request"} \subseteq Kinds
  <2>1. o \in Rows
    BY DEF Stores
  <2> QED
    BY <2>1, RowParts DEF Statuses, Settled, Kinds
<1> HIDE DEF final
<1> HIDE DEF o
<1>3. /\ base \in Rows /\ Terms(o, base)
      /\ base.status = "ready_for_fulfillment" /\ base.recovered = o.shortage
      /\ base.final = final /\ base.refund = o.refund /\ base.log = o.log
      /\ base.product = o.product /\ base.price = o.price /\ base.shortage = o.shortage
      /\ base.reserved = o.reserved /\ base.offer = o.offer
  BY <1>2 DEF Rows, Terms
<1> HIDE DEF base
<1>4. /\ done \in Rows /\ Terms(base, done)
      /\ done.status = base.status /\ done.recovered = base.recovered
      /\ done.final = base.final /\ done.refund = base.refund
      /\ done.product = base.product /\ done.price = base.price
      /\ done.shortage = base.shortage
      /\ done.reserved = base.reserved /\ done.offer = base.offer
      /\ Approved(done) <=> Approved(base)
  BY <1>2, <1>3, LoggedIs
<1> HIDE DEF done
<1>5. /\ n \in Rows /\ Terms(done, n)
      /\ n.status = done.status /\ n.recovered = done.recovered
      /\ n.final = done.final
      /\ n.refund = IF o.method = "prepaid" /\ final < o.total
                    THEN done.refund + o.total - final ELSE done.refund
      /\ n.product = done.product /\ n.price = done.price /\ n.shortage = done.shortage
      /\ n.reserved = done.reserved /\ n.offer = done.offer
      /\ Approved(n) <=> Approved(done)
  <2>1. CASE o.method = "prepaid" /\ final < o.total
    <3>1. done.refund + o.total - final \in Nat
      BY <1>2, <1>3, <1>4, <2>1
    <3>2. /\ rest \in Rows /\ Terms(done, rest)
          /\ rest.status = done.status /\ rest.recovered = done.recovered
          /\ rest.final = done.final /\ rest.refund = done.refund + o.total - final
          /\ rest.product = done.product /\ rest.price = done.price
          /\ rest.shortage = done.shortage
          /\ rest.reserved = done.reserved /\ rest.offer = done.offer
          /\ rest.log = done.log
      BY <1>4, <3>1 DEF Rows, Terms
    <3>3. n = Logged(rest, "partial_refund_request")
      BY <2>1
    <3> HIDE DEF rest, n
    <3>4. /\ n \in Rows /\ Terms(rest, n)
          /\ n.status = rest.status /\ n.recovered = rest.recovered
          /\ n.final = rest.final /\ n.refund = rest.refund
          /\ n.product = rest.product /\ n.price = rest.price
          /\ n.shortage = rest.shortage
          /\ n.reserved = rest.reserved /\ n.offer = rest.offer
          /\ Approved(n) <=> Approved(rest)
      BY <1>2, <3>2, <3>3, LoggedIs
    <3> QED
      BY <2>1, <3>2, <3>4 DEF Terms, Approved
  <2>2. CASE ~(o.method = "prepaid" /\ final < o.total)
    BY <1>4, <2>2 DEF Terms
  <2> QED
    BY <2>1, <2>2
<1> HIDE DEF n
<1>6. Terms(o, n) /\ (Approved(n) <=> Approved(o))
  BY <1>3, <1>4, <1>5 DEF Terms, Approved
<1>7. Filled(o, n)
  BY <1>3, <1>4, <1>5, <1>6 DEF Filled, final
<1>8. \A q \in Products : Owns(n, q) = Owns(o, q)
  BY <1>3, <1>4, <1>5, <1>6 DEF Owns, Terms
<1> QED
  BY <1>1, <1>5, <1>7, <1>8, WithMoved DEF o

\* inventory, of an order that owns nothing: it ships from the shelf ...
Stocked(o, n) ==
    /\ Terms(o, n)
    /\ n.status = "ready_for_fulfillment" /\ n.recovered = o.shortage
    /\ n.final = o.price * o.quantity
    /\ n.refund = IF o.method = "prepaid" /\ n.final < o.total
                  THEN o.refund + o.total - n.final ELSE o.refund
    /\ n.product = o.product /\ n.price = o.price /\ n.shortage = o.shortage
    /\ n.offer = o.offer
    /\ Approved(n) <=> Approved(o)

\* ... its customer is offered another product ...
Offered(o, n) ==
    /\ Terms(o, n)
    /\ n.status = "awaiting_customer" /\ n.shortage
    /\ n.recovered = o.recovered /\ n.final = o.final /\ n.refund = o.refund
    /\ n.product = o.product /\ n.price = o.price /\ n.reserved = o.reserved
    /\ n.offer.status = "pending" /\ n.offer.held
    /\ n.offer.product \in Products \ {o.product} /\ n.offer.price <= o.price
    /\ Approved(n) <=> Approved(o)

\* ... or it is cancelled.
Turned(o, n) ==
    /\ Terms(o, n)
    /\ n.status = IF o.method = "prepaid" THEN "refund_pending" ELSE "cancelled_cod"
    /\ n.refund = IF o.method = "prepaid" THEN o.refund + o.total ELSE o.refund
    /\ n.product = o.product /\ n.price = o.price
    /\ n.recovered = o.recovered /\ n.final = o.final
    /\ ~n.reserved /\ ~n.offer.held
    /\ n.offer.status = o.offer.status
    /\ Approved(n) <=> Approved(o)

Deal(p, price) == [status |-> "pending", product |-> p, price |-> price, held |-> TRUE]

LEMMA FoundIs ==
    ASSUME NEW s \in Stores, NEW o \in Rows,
           NEW a \in Rules!DemoAlternative(s.stock, o.product, o.quantity, o.price)
    PROVE  /\ a \in Products \ {o.product} /\ s.stock[a] >= o.quantity
           /\ Rules!DemoPrice(Price[a]) <= o.price
           /\ Deal(a, Rules!DemoPrice(Price[a])) \in Deals
<1>1. /\ a \in Products \ {o.product} /\ s.stock[a] >= o.quantity
      /\ Rules!DemoPrice(Price[a]) <= o.price
  BY DEF Rules!DemoAlternative, Rules!DemoCandidates
<1>2. Price[a] \in Nat
  BY <1>1, CatalogFacts
<1>3. Rules!DemoPrice(Price[a]) \in Nat
  <2>1. \A k \in Nat : k - k \div 20 \in Nat
    OBVIOUS
  <2> QED
    BY <1>2, <2>1 DEF Rules!DemoPrice
<1> QED
  BY <1>1, <1>3 DEF Deal, Deals

LEMMA OfferIs ==
    ASSUME NEW s \in Stores, NEW i \in Ids, NEW o, o = s.orders[i],
           ~o.reserved, ~o.offer.held,
           NEW a \in Rules!DemoAlternative(s.stock, o.product, o.quantity, o.price),
           NEW t, t = With(Take(s, a, o.quantity), i,
                           Logged([[o EXCEPT !.shortage = TRUE] EXCEPT
                                     !.status = "awaiting_customer",
                                     !.offer = Deal(a, Rules!DemoPrice(Price[a]))],
                                  "offer_email"))
    PROVE  Moved(s, t, i) /\ Offered(o, t.orders[i])
<1> DEFINE price == Rules!DemoPrice(Price[a])
           deal == Deal(a, price)
           r == [[o EXCEPT !.shortage = TRUE] EXCEPT
                   !.status = "awaiting_customer", !.offer = deal]
           n == Logged(r, "offer_email")
<1>1. /\ o \in Rows /\ "awaiting_customer" \in Statuses /\ "offer_email" \in Kinds
      /\ o.quantity \in Nat
  <2>1. o \in Rows
    BY DEF Stores
  <2> QED
    BY <2>1, RowParts DEF Statuses, Kinds
<1>2. /\ a \in Products \ {o.product} /\ s.stock[a] >= o.quantity
      /\ price <= o.price /\ deal \in Deals
  BY <1>1, FoundIs
<1>3. deal.status = "pending" /\ deal.held /\ deal.product = a /\ deal.price = price
  BY DEF Deal
<1> HIDE DEF deal, price
<1>4. /\ r \in Rows /\ Terms(o, r) /\ r.status = "awaiting_customer" /\ r.shortage
      /\ r.recovered = o.recovered /\ r.final = o.final /\ r.refund = o.refund
      /\ r.product = o.product /\ r.price = o.price /\ r.reserved = o.reserved
      /\ r.offer = deal /\ r.log = o.log
  BY <1>1, <1>2 DEF Rows, Terms
<1>5. t = With(Take(s, a, o.quantity), i, n)
  BY DEF deal, price
<1> HIDE DEF r
<1>6. /\ n \in Rows /\ Terms(r, n) /\ n.status = r.status /\ n.shortage = r.shortage
      /\ n.recovered = r.recovered /\ n.final = r.final /\ n.refund = r.refund
      /\ n.product = r.product /\ n.price = r.price /\ n.reserved = r.reserved
      /\ n.offer = r.offer /\ (Approved(n) <=> Approved(r))
  BY ONLY <1>1, <1>4, LoggedIs, ZenonT(60)
<1> HIDE DEF n
<1>7. Offered(o, n)
  BY <1>2, <1>3, <1>4, <1>6 DEF Offered, Terms, Approved
<1>8. \A q \in Products : Owns(n, q) = Owns(o, q) + (IF q = a THEN o.quantity ELSE 0)
  BY <1>1, <1>3, <1>4, <1>6 DEF Owns, Terms
<1> QED
  BY <1>1, <1>2, <1>5, <1>6, <1>7, <1>8, TakeMoved

LEMMA TurnedIs ==
    ASSUME NEW s \in Stores, NEW i \in Ids, NEW o, o = s.orders[i],
           ~o.reserved, ~o.offer.held, NEW t,
           t = Cancel(With(s, i, Logged([o EXCEPT !.shortage = TRUE], "inventory")), i)
    PROVE  Moved(s, t, i) /\ Turned(o, t.orders[i])
<1> DEFINE r == [o EXCEPT !.shortage = TRUE]
           n == Logged(r, "inventory")
           u == With(s, i, n)
<1>1. o \in Rows /\ "inventory" \in Kinds
  BY DEF Stores, Kinds
<1>2. /\ r \in Rows /\ Terms(o, r) /\ r.status = o.status
      /\ r.recovered = o.recovered /\ r.final = o.final /\ r.refund = o.refund
      /\ r.product = o.product /\ r.price = o.price /\ r.reserved = o.reserved
      /\ r.offer = o.offer /\ r.log = o.log
  BY <1>1 DEF Rows, Terms
<1> HIDE DEF r
<1>3. /\ n \in Rows /\ Terms(r, n)
      /\ n.recovered = r.recovered /\ n.final = r.final /\ n.refund = r.refund
      /\ n.product = r.product /\ n.price = r.price /\ n.reserved = r.reserved
      /\ n.offer = r.offer /\ (Approved(n) <=> Approved(r))
  BY <1>1, <1>2, LoggedIs
<1>4. t = Cancel(u, i)
  BY DEF r
<1> HIDE DEF n
<1>5. \A q \in Products : Owns(n, q) = Owns(o, q)
  BY <1>2, <1>3 DEF Owns, Terms
<1>6. Moved(s, u, i) /\ u.orders[i] = n /\ u \in Stores
  BY <1>3, <1>5, WithMoved DEF Moved
<1> HIDE DEF u
<1>7. ~n.reserved /\ Dealt(n)
  BY <1>2, <1>3 DEF Dealt
<1>8. Moved(u, t, i) /\ Cancelled(n, t.orders[i])
  BY <1>4, <1>6, <1>7, CancelIs
<1>9. Moved(s, t, i)
  BY <1>6, <1>8, MovedTwice
<1>10. Turned(o, t.orders[i])
  BY <1>2, <1>3, <1>8 DEF Turned, Cancelled, Terms, Approved
<1> QED
  BY <1>9, <1>10

LEMMA InventoryIs ==
    ASSUME NEW s \in Stores, NEW i \in Ids, NEW o, o = s.orders[i],
           ~o.reserved, ~o.offer.held, NEW t, t = Inventory(s, i)
    PROVE  Moved(s, t, i) /\ (\/ Stocked(o, t.orders[i])
                              \/ Offered(o, t.orders[i])
                              \/ Turned(o, t.orders[i]))
<1>1. /\ o \in Rows /\ o.quantity \in Nat /\ o.product \in Products
  <2>1. o \in Rows
    BY DEF Stores
  <2> QED
    BY <2>1, RowParts
<1>2. CASE s.stock[o.product] >= o.quantity
  <2> DEFINE r == [o EXCEPT !.reserved = TRUE]
             u == With(Take(s, o.product, o.quantity), i, r)
  <2>1. t = Fulfill(u, i)
    BY <1>2 DEF Inventory
  <2>2. /\ r \in Rows /\ Terms(o, r) /\ r.reserved /\ r.offer = o.offer
        /\ r.product = o.product /\ r.price = o.price /\ r.shortage = o.shortage
        /\ r.refund = o.refund /\ r.log = o.log
    BY <1>1 DEF Rows, Terms
  <2> HIDE DEF r
  <2>3. \A q \in Products : Owns(r, q) = Owns(o, q) + (IF q = o.product THEN o.quantity ELSE 0)
    BY <1>1, <2>2 DEF Owns, Terms
  <2>4. Moved(s, u, i) /\ u.orders[i] = r /\ u \in Stores
    BY <1>1, <1>2, <2>2, <2>3, TakeMoved DEF Moved
  <2> HIDE DEF u
  <2>5. Moved(u, t, i) /\ Filled(r, t.orders[i])
    BY <2>1, <2>4, FulfillIs
  <2>6. Moved(s, t, i)
    BY <2>4, <2>5, MovedTwice
  <2>7. Stocked(o, t.orders[i])
    BY <2>2, <2>5 DEF Stocked, Filled, Terms, Approved
  <2> QED
    BY <2>6, <2>7
<1>3. CASE ~(s.stock[o.product] >= o.quantity)
  <2> DEFINE found == Rules!DemoAlternative(s.stock, o.product, o.quantity, o.price)
             a == CHOOSE p \in found : TRUE
  <2>1. t = OfferOrCancel(s, i)
    BY <1>3 DEF Inventory
  <2>2. CASE found = {}
    <3>1. t = Cancel(With(s, i, Logged([o EXCEPT !.shortage = TRUE], "inventory")), i)
      BY <2>1, <2>2 DEF OfferOrCancel
    <3> QED
      BY <3>1, TurnedIs
  <2>3. CASE found # {}
    <3>1. a \in found
      BY <2>3
    <3>2. t = With(Take(s, a, o.quantity), i,
                   Logged([[o EXCEPT !.shortage = TRUE] EXCEPT
                             !.status = "awaiting_customer",
                             !.offer = Deal(a, Rules!DemoPrice(Price[a]))],
                          "offer_email"))
      BY <2>1, <2>3 DEF OfferOrCancel, Deal
    <3> HIDE DEF a
    <3> QED
      BY <3>1, <3>2, OfferIs
  <2> QED
    BY <2>2, <2>3
<1> QED
  BY <1>2, <1>3

-----------------------------------------------------------------------------
(***************************************************************************)
(* What the buttons make of an order, and the facts every order keeps.     *)
(***************************************************************************)
\* process, of a risky order, and approve.
Reviewed(o, n) == n = Logged([o EXCEPT !.status = "manual_review"], "audit")
Passed(o, n) == n = Logged(o, "approved")
Inventoried(o, n) == Stocked(o, n) \/ Offered(o, n) \/ Turned(o, n)

\* accept: the order is what was offered, at its price.
Agreed(o, n) ==
    /\ Terms(o, n)
    /\ n.status = "ready_for_fulfillment" /\ n.recovered = o.shortage
    /\ n.product = o.offer.product /\ n.price = o.offer.price
    /\ n.final = o.offer.price * o.quantity
    /\ n.refund = IF o.method = "prepaid" /\ n.final < o.total
                  THEN o.refund + o.total - n.final ELSE o.refund
    /\ ~n.offer.held /\ n.offer.status = "accepted"
    /\ Approved(n) <=> Approved(o)

LEMMA ReviewIs ==
    ASSUME NEW s \in Stores, NEW i \in Ids, NEW o, o = s.orders[i], NEW n, Reviewed(o, n)
    PROVE  /\ Moved(s, With(s, i, n), i) /\ With(s, i, n).orders[i] = n
           /\ n \in Rows /\ Terms(o, n) /\ n.status = "manual_review"
           /\ n.product = o.product /\ n.price = o.price /\ n.recovered = o.recovered
           /\ n.final = o.final /\ n.reserved = o.reserved /\ n.offer = o.offer
           /\ n.refund = o.refund /\ (Approved(n) <=> Approved(o))
<1> DEFINE r == [o EXCEPT !.status = "manual_review"]
<1>1. /\ o \in Rows /\ "manual_review" \in Statuses /\ "audit" \in Kinds
  BY DEF Stores, Statuses, Kinds
<1>2. /\ r \in Rows /\ Terms(o, r) /\ r.status = "manual_review"
      /\ r.product = o.product /\ r.price = o.price /\ r.recovered = o.recovered
      /\ r.final = o.final /\ r.reserved = o.reserved /\ r.offer = o.offer
      /\ r.refund = o.refund /\ r.log = o.log
  BY <1>1 DEF Rows, Terms
<1>3. n = Logged(r, "audit")
  BY DEF Reviewed
<1> HIDE DEF r
<1>4. /\ n \in Rows /\ Terms(r, n) /\ n.status = r.status
      /\ n.product = r.product /\ n.price = r.price /\ n.recovered = r.recovered
      /\ n.final = r.final /\ n.reserved = r.reserved /\ n.offer = r.offer
      /\ n.refund = r.refund /\ (Approved(n) <=> Approved(r))
  BY ONLY <1>1, <1>2, <1>3, LoggedIs
<1>5. \A q \in Products : Owns(n, q) = Owns(o, q)
  BY <1>2, <1>4 DEF Owns, Terms
<1> QED
  BY <1>2, <1>4, <1>5, WithMoved DEF Terms, Approved

LEMMA ApproveIs ==
    ASSUME NEW s \in Stores, NEW i \in Ids, NEW o, o = s.orders[i],
           ~o.reserved, ~o.offer.held, NEW t, t = Approve(s, i)
    PROVE  /\ Moved(s, t, i)
           /\ \E r \in Rows : Passed(o, r) /\ Inventoried(r, t.orders[i])
<1> DEFINE r == Logged(o, "approved")
           u == With(s, i, r)
<1>1. o \in Rows /\ "approved" \in Kinds
  BY DEF Stores, Kinds
<1>2. /\ r \in Rows /\ Terms(o, r) /\ r.product = o.product
      /\ r.reserved = o.reserved /\ r.offer = o.offer
  BY <1>1, LoggedIs
<1>3. t = Inventory(u, i) /\ Passed(o, r)
  BY DEF Approve, Passed
<1> HIDE DEF r
<1>4. \A q \in Products : Owns(r, q) = Owns(o, q)
  BY <1>2 DEF Owns, Terms
<1>5. Moved(s, u, i) /\ u.orders[i] = r /\ u \in Stores
  BY <1>2, <1>4, WithMoved DEF Moved
<1> HIDE DEF u
<1>6. Moved(u, t, i) /\ Inventoried(r, t.orders[i])
  BY <1>2, <1>3, <1>5, InventoryIs DEF Inventoried
<1> QED
  BY <1>2, <1>3, <1>5, <1>6, MovedTwice

LEMMA AcceptIs ==
    ASSUME NEW s \in Stores, NEW i \in Ids, NEW o, o = s.orders[i],
           ~o.reserved, o.offer.held, o.offer.status = "pending",
           o.offer.product \in Products, NEW t, t = Accept(s, i)
    PROVE  Moved(s, t, i) /\ Agreed(o, t.orders[i])
<1> DEFINE d == Unheld(o.offer, "accepted")
           r == [o EXCEPT !.product = o.offer.product, !.price = o.offer.price,
                          !.reserved = TRUE, !.offer = d]
           n == Logged(r, "approval")
           u == With(s, i, n)
<1>1. /\ o \in Rows /\ "approval" \in Kinds /\ o.offer \in Deals
      /\ o.offer.price \in Nat /\ o.quantity \in Nat
  <2>1. o \in Rows
    BY DEF Stores
  <2> QED
    BY <2>1, RowParts DEF Kinds
<1>2. /\ d \in Deals /\ d.status = "accepted" /\ ~d.held
      /\ d.product = o.offer.product /\ d.price = o.offer.price
  BY <1>1, DealIs
<1>3. [o EXCEPT !.product = o.offer.product, !.price = o.offer.price, !.reserved = TRUE,
                !.offer.held = FALSE, !.offer.status = "accepted"] = r
  BY <1>1 DEF Unheld, Rows, Deals
<1>4. t = Fulfill(u, i)
  BY <1>3 DEF Accept
<1> HIDE DEF d
<1>5. /\ r \in Rows /\ Terms(o, r) /\ r.offer = d /\ r.reserved
      /\ r.product = o.offer.product /\ r.price = o.offer.price
      /\ r.shortage = o.shortage /\ r.refund = o.refund /\ r.log = o.log
  BY <1>1, <1>2 DEF Rows, Terms
<1> HIDE DEF r
<1>6. /\ n \in Rows /\ Terms(r, n) /\ n.offer = r.offer /\ n.reserved = r.reserved
      /\ n.product = r.product /\ n.price = r.price
      /\ n.shortage = r.shortage /\ n.refund = r.refund
      /\ (Approved(n) <=> Approved(r))
  BY ONLY <1>1, <1>5, LoggedIs
<1> HIDE DEF n
<1>7. \A q \in Products : Owns(n, q) = Owns(o, q)
  BY <1>1, <1>2, <1>5, <1>6 DEF Owns, Terms
<1>8. Moved(s, u, i) /\ u.orders[i] = n /\ u \in Stores
  BY <1>6, <1>7, WithMoved DEF Moved
<1> HIDE DEF u
<1>9. Moved(u, t, i) /\ Filled(n, t.orders[i])
  BY <1>4, <1>8, FulfillIs
<1>10. Agreed(o, t.orders[i])
  <2> DEFINE m == t.orders[i]
  <2>1. Terms(n, m) /\ Filled(n, m)
    BY <1>9 DEF Filled
  <2> HIDE DEF m
  <2>2. Terms(o, m)
    BY <1>5, <1>6, <2>1 DEF Terms
  <2>3. n.price = o.offer.price /\ n.quantity = o.quantity
    BY <1>5, <1>6 DEF Terms
  <2>4. Agreed(o, m)
    BY <1>2, <1>5, <1>6, <2>1, <2>2, <2>3 DEF Agreed, Filled, Terms, Approved
  <2> QED
    BY <2>4 DEF m
<1> QED
  BY <1>8, <1>9, <1>10, MovedTwice

\* An order nothing was done for yet.
Fresh(o) ==
    /\ ~o.reserved /\ ~o.offer.held /\ o.offer.status = "none" /\ ~o.recovered
    /\ o.product = o.original /\ o.refund = 0 /\ ~Approved(o)

Unpaid(o) == o.total = o.price * o.quantity

\* An order whose customer is asked: the hold is one offer's, of another product that
\* costs no more.
Asking(o) ==
    /\ ~o.reserved /\ ~o.recovered /\ o.product = o.original /\ o.refund = 0
    /\ o.offer.status = "pending" /\ o.offer.held
    /\ o.offer.product \in Products \ {o.product} /\ o.offer.price <= o.price
    /\ o.risky => Approved(o)

Ready(o) ==
    /\ ~o.offer.held /\ o.offer.status \in {"none", "accepted"}
    /\ o.product # o.original <=> o.offer.status = "accepted"
    /\ o.risky => Approved(o)

Refused(o) ==
    /\ ~o.offer.held /\ o.offer.status \in {"none", "rejected"}
    /\ ~o.recovered /\ o.product = o.original
    /\ o.risky /\ ~Approved(o) => o.offer.status = "none"

Balanced(o) ==
    LET kept == IF o.status = "ready_for_fulfillment" THEN o.final ELSE 0
    IN  /\ o.method = "prepaid" /\ o.status \in Settled => kept + o.refund = o.total
        /\ o.method = "cod" \/ o.status \notin Settled => o.refund = 0

\* What every order of the day keeps, whatever was clicked ...
Fit(o) ==
    /\ o.status = "absent" => Fresh(o) /\ ~o.risky
    /\ o.status = "processing" => Fresh(o) /\ Unpaid(o)
    /\ o.status = "manual_review" => Fresh(o) /\ Unpaid(o) /\ o.risky
    /\ o.status = "awaiting_customer" => Asking(o) /\ Unpaid(o)
    /\ o.status = "ready_for_fulfillment" => Ready(o)
    /\ o.status \in Settled \ {"ready_for_fulfillment"} => Refused(o)
    /\ Approved(o) => o.risky
    /\ Balanced(o)

\* ... and what the orders that were over before do.
Past(o) == o.status \in Settled /\ o.offer.status = "none"

LEMMA TimesLess ==
    \A a \in Nat : \A b \in Nat : \A q \in Nat : a <= b => a * q <= b * q
<1> SUFFICES ASSUME NEW a \in Nat, NEW b \in Nat, NEW q \in Nat, a <= b
             PROVE  a * q <= b * q
  OBVIOUS
<1>1. PICK d \in Nat : b = a + d
  <2>1. b - a \in Nat /\ b = a + (b - a)
    OBVIOUS
  <2> QED
    BY <2>1
<1>2. b * q = a * q + d * q
  BY <1>1
<1>3. d * q \in Nat /\ a * q \in Nat
  BY <1>1
<1> QED
  BY <1>2, <1>3

LEMMA StockedFits ==
    ASSUME NEW o \in Rows, NEW n \in Rows,
           ~o.reserved, ~o.offer.held, o.offer.status = "none", ~o.recovered,
           o.product = o.original, o.refund = 0, Unpaid(o), o.risky <=> Approved(o),
           Inventoried(o, n)
    PROVE  Fit(n)
<1>0. /\ o.price * o.quantity \in Nat /\ o.total \in Nat
      /\ o.method \in {"prepaid", "cod"}
  BY RowParts
<1>1. CASE Stocked(o, n)
  <2>1. n.final = o.total /\ n.refund = 0 /\ Terms(o, n)
    BY <1>0, <1>1 DEF Stocked, Unpaid
  <2>2. Ready(n) /\ (Approved(n) => n.risky)
    BY <1>1 DEF Ready, Stocked, Terms
  <2>3. Balanced(n)
    BY <1>0, <1>1, <2>1 DEF Balanced, Stocked, Terms, Settled
  <2> QED
    BY <1>1, <2>2, <2>3 DEF Fit, Stocked, Settled
<1>2. CASE Offered(o, n)
  <2>1. Asking(n) /\ Unpaid(n) /\ (Approved(n) => n.risky)
    BY <1>2 DEF Asking, Unpaid, Offered, Terms
  <2>2. Balanced(n)
    BY <1>2 DEF Balanced, Offered, Settled
  <2> QED
    BY <1>2, <2>1, <2>2 DEF Fit, Offered, Settled
<1>3. CASE Turned(o, n)
  <2>1. Refused(n) /\ (Approved(n) => n.risky)
    BY <1>3 DEF Refused, Turned, Terms
  <2>2. Balanced(n)
    BY <1>0, <1>3 DEF Balanced, Turned, Terms, Settled
  <2>3. n.status \in {"refund_pending", "cancelled_cod"}
    BY <1>3 DEF Turned
  <2> QED
    BY <2>1, <2>2, <2>3 DEF Fit, Settled
<1> QED
  BY <1>1, <1>2, <1>3 DEF Inventoried

LEMMA CancelledFits ==
    ASSUME NEW o \in Rows, NEW n \in Rows, Fit(o), Cancelled(o, n),
           o.status \in {"manual_review", "awaiting_customer"}
    PROVE  Fit(n)
<1>0. o.total \in Nat /\ o.method \in {"prepaid", "cod"}
  BY RowParts
<1>1. ~o.recovered /\ o.product = o.original /\ o.refund = 0 /\ (Approved(o) => o.risky)
  BY DEF Fit, Fresh, Asking
<1>2. Refused(n)
  <2>1. CASE o.status = "manual_review"
    BY <2>1 DEF Fit, Fresh, Refused, Cancelled, Terms
  <2>2. CASE o.status = "awaiting_customer"
    BY <2>2 DEF Fit, Asking, Refused, Cancelled, Terms
  <2> QED
    BY <2>1, <2>2
<1>3. Balanced(n)
  BY <1>0, <1>1 DEF Balanced, Cancelled, Terms, Settled
<1>4. n.status \in {"refund_pending", "cancelled_cod"} /\ (Approved(n) => n.risky)
  BY <1>1 DEF Cancelled, Terms
<1> QED
  BY <1>2, <1>3, <1>4 DEF Fit, Settled

LEMMA AgreedFits ==
    ASSUME NEW o \in Rows, NEW n \in Rows, Fit(o), Agreed(o, n),
           o.status = "awaiting_customer"
    PROVE  Fit(n)
<1>0. /\ o.total \in Nat /\ o.method \in {"prepaid", "cod"} /\ o.quantity \in Nat
      /\ o.price \in Nat /\ o.offer.price \in Nat
  BY RowParts
<1>1. Asking(o) /\ Unpaid(o) /\ (Approved(o) => o.risky)
  BY DEF Fit
<1>2. n.final <= o.total /\ n.final \in Nat
  <2>1. o.offer.price * o.quantity <= o.price * o.quantity
    BY <1>0, <1>1, TimesLess DEF Asking
  <2>2. o.offer.price * o.quantity \in Nat
    BY <1>0
  <2> QED
    BY <1>1, <2>1, <2>2 DEF Agreed, Unpaid
<1>3. Ready(n)
  BY <1>1 DEF Ready, Asking, Agreed, Terms
<1>4. n.refund = IF o.method = "prepaid" THEN o.total - n.final ELSE 0
  BY <1>0, <1>1, <1>2 DEF Agreed, Asking
<1>5. Balanced(n)
  BY <1>0, <1>2, <1>4 DEF Balanced, Agreed, Terms, Settled
<1> QED
  BY <1>1, <1>3, <1>5 DEF Fit, Agreed, Terms, Settled

\* A new order in processing, and what a click may make of an order.
Created(o, n) ==
    /\ o.status = "absent" /\ n.status = "processing"
    /\ Fresh(n) /\ Unpaid(n)

Clicked(o, n) ==
    \/ o.status = "processing" /\ o.risky /\ Reviewed(o, n)
    \/ o.status = "processing" /\ ~o.risky /\ Inventoried(o, n)
    \/ o.status = "manual_review" /\ \E r \in Rows : Passed(o, r) /\ Inventoried(r, n)
    \/ o.status \in {"manual_review", "awaiting_customer"} /\ Cancelled(o, n)
    \/ o.status = "awaiting_customer" /\ Agreed(o, n)

Changed(o, n) == Created(o, n) \/ Clicked(o, n)

LEMMA ChangedFits ==
    ASSUME NEW s \in Stores, NEW i \in Ids, NEW o, o = s.orders[i], NEW n \in Rows,
           Fit(o), Changed(o, n)
    PROVE  Fit(n)
<1>0. o \in Rows
  BY DEF Stores
<1>1. CASE Created(o, n)
  <2>1. Balanced(n)
    BY <1>1 DEF Created, Fresh, Balanced, Settled
  <2> QED
    BY <1>1, <2>1 DEF Created, Fit, Fresh, Settled
<1>2. CASE o.status = "processing" /\ o.risky /\ Reviewed(o, n)
  <2>1. /\ Terms(o, n) /\ n.status = "manual_review"
        /\ n.product = o.product /\ n.price = o.price /\ n.recovered = o.recovered
        /\ n.reserved = o.reserved /\ n.offer = o.offer
        /\ n.refund = o.refund /\ (Approved(n) <=> Approved(o))
    BY <1>2, ReviewIs
  <2>2. Fresh(o) /\ Unpaid(o)
    BY <1>2 DEF Fit
  <2>3. Fresh(n) /\ Unpaid(n) /\ n.risky /\ ~Approved(n)
    BY <1>2, <2>1, <2>2 DEF Fresh, Unpaid, Terms
  <2>4. Balanced(n)
    BY <2>1, <2>3 DEF Balanced, Fresh, Settled
  <2> QED
    BY <2>1, <2>3, <2>4 DEF Fit, Settled
<1>3. CASE o.status = "processing" /\ ~o.risky /\ Inventoried(o, n)
  <2>1. Fresh(o) /\ Unpaid(o)
    BY <1>3 DEF Fit
  <2> QED
    BY <1>0, <1>3, <2>1, StockedFits DEF Fresh
<1>4. CASE o.status = "manual_review" /\ \E r \in Rows : Passed(o, r) /\ Inventoried(r, n)
  <2>1. PICK r \in Rows : Passed(o, r) /\ Inventoried(r, n)
    BY <1>4
  <2>2. Fresh(o) /\ Unpaid(o) /\ o.risky
    BY <1>4 DEF Fit
  <2>3. "approved" \in Kinds /\ r = Logged(o, "approved")
    BY <2>1 DEF Kinds, Passed
  <2>4. /\ Terms(o, r) /\ r.product = o.product /\ r.price = o.price
        /\ r.recovered = o.recovered /\ r.reserved = o.reserved /\ r.offer = o.offer
        /\ r.refund = o.refund /\ Approved(r)
    BY ONLY <1>0, <2>3, LoggedIs
  <2>5. Unpaid(r) /\ r.product = r.original /\ r.refund = 0 /\ r.risky
    BY <2>2, <2>4 DEF Fresh, Unpaid, Terms
  <2> QED
    BY <2>1, <2>2, <2>4, <2>5, StockedFits DEF Fresh
<1>5. CASE o.status \in {"manual_review", "awaiting_customer"} /\ Cancelled(o, n)
  BY <1>0, <1>5, CancelledFits
<1>6. CASE o.status = "awaiting_customer" /\ Agreed(o, n)
  BY <1>0, <1>6, AgreedFits
<1> QED
  BY <1>1, <1>2, <1>3, <1>4, <1>5, <1>6 DEF Changed, Clicked

\* Whatever is clicked on an order of the day ...
LEMMA TransitionIs ==
    ASSUME NEW s \in Stores, NEW i \in Ids, NEW o, o = s.orders[i], Fit(o),
           NEW type, NEW t, t = transition(s, i, type)
    PROVE  t = s \/ (Moved(s, t, i) /\ Clicked(o, t.orders[i]))
<1>0. o \in Rows
  BY DEF Stores
<1>1. CASE type = "process" /\ o.status = "processing"
  <2>1. t = Process(s, i)
    BY <1>1 DEF transition
  <2>2. Fresh(o)
    BY <1>1 DEF Fit
  <2>3. CASE o.risky
    <3>1. PICK n : Reviewed(o, n)
      BY DEF Reviewed
    <3>2. t = With(s, i, n)
      BY <2>1, <2>3, <3>1 DEF Process, Reviewed
    <3> QED
      BY <1>1, <2>3, <3>1, <3>2, ReviewIs DEF Clicked
  <2>4. CASE ~o.risky
    <3>1. t = Inventory(s, i)
      BY <2>1, <2>4 DEF Process
    <3> QED
      BY <1>1, <2>2, <2>4, <3>1, InventoryIs DEF Clicked, Inventoried, Fresh
  <2> QED
    BY <2>3, <2>4
<1>2. CASE type = "approve" /\ o.status = "manual_review"
  <2>1. t = Approve(s, i)
    BY <1>2 DEF transition
  <2>2. Fresh(o)
    BY <1>2 DEF Fit
  <2> QED
    BY <1>2, <2>1, <2>2, ApproveIs DEF Clicked, Fresh
<1>3. CASE type = "reject" /\ o.status \in {"manual_review", "awaiting_customer"}
  <2>1. t = Cancel(s, i)
    BY <1>3 DEF transition
  <2>2. ~o.reserved /\ Dealt(o)
    BY <1>3 DEF Fit, Fresh, Asking, Dealt
  <2> QED
    BY <1>3, <2>1, <2>2, CancelIs DEF Clicked
<1>4. CASE type = "accept" /\ o.status = "awaiting_customer"
  <2>1. t = Accept(s, i)
    BY <1>4 DEF transition
  <2>2. Asking(o)
    BY <1>4 DEF Fit
  <2> QED
    BY <1>4, <2>1, <2>2, AcceptIs DEF Clicked, Asking
<1>5. CASE /\ ~(type = "process" /\ o.status = "processing")
           /\ ~(type = "approve" /\ o.status = "manual_review")
           /\ ~(type = "reject" /\ o.status \in {"manual_review", "awaiting_customer"})
           /\ ~(type = "accept" /\ o.status = "awaiting_customer")
  BY <1>5 DEF transition
<1> QED
  BY <1>1, <1>2, <1>3, <1>4, <1>5

\* ... and nothing comes of a click on one that is over.
LEMMA OverStays ==
    ASSUME NEW s \in Stores, NEW i \in Ids, s.orders[i].status \in Settled, NEW type
    PROVE  transition(s, i, type) = s
BY DEF transition, Settled

-----------------------------------------------------------------------------
(***************************************************************************)
(* The steps of the shop, and its invariant.                               *)
(***************************************************************************)
LEMMA IdsFacts ==
    /\ Ids = Current \cup History /\ New \subseteq Current /\ Current \subseteq Ids
    /\ History \subseteq Ids /\ Current \cap History = {} /\ IsFiniteSet(Current)
<1>1. IsFiniteSet(Sample) /\ IsFiniteSet(New)
  <2>1. 24 + MaxNew \in Int
    BY DemoAssumption
  <2>2. \A a \in Int : \A b \in Int : IsFiniteSet(a..b)
    BY FS_Interval
  <2>3. 0 \in Int /\ 24 \in Int /\ 25 \in Int
    OBVIOUS
  <2>4. IsFiniteSet(0..24)
    BY <2>2, <2>3, Zenon
  <2>5. IsFiniteSet(25..(24 + MaxNew))
    BY <2>1, <2>2, <2>3, Zenon
  <2> QED
    BY <2>4, <2>5 DEF Sample, New
<1>2. IsFiniteSet(Ids)
  BY <1>1, FS_Union DEF Ids
<1>3. New \cap Sample = {}
  BY DEF New, Sample
<1>4. IsFiniteSet(Current)
  BY <1>2, FS_Subset DEF Current
<1> QED
  BY <1>3, <1>4 DEF Current, History, Ids

\* The rows of a store.
Rowwise(s) ==
    /\ s \in Stores
    /\ \A i \in Current : Fit(s.orders[i])
    /\ \A i \in History : Past(s.orders[i])

\* A new row says what was ordered, and nothing was done for it.
Begun(o, status, p, q, method, risky) ==
    /\ o \in Rows /\ o.status = status /\ o.product = p /\ o.original = p
    /\ o.quantity = q /\ o.price = Price[p] /\ o.method = method
    /\ o.risky = risky /\ o.total = Price[p] * q /\ o.final = Price[p] * q
    /\ o.offer = NoOffer /\ o.log = {} /\ Fresh(o) /\ Unpaid(o) /\ ~Approved(o)

LEMMA OrderIs ==
    ASSUME NEW p \in Products, NEW q \in 1..100, NEW method \in {"prepaid", "cod"},
           NEW risky \in BOOLEAN, NEW status \in Statuses
    PROVE  Begun(Order(status, p, q, method, risky), status, p, q, method, risky)
<1> DEFINE o == Order(status, p, q, method, risky)
<1>1. Price[p] \in Nat /\ Price[p] * q \in Nat
  BY CatalogFacts
<1>2. NoOffer \in Deals /\ NoOffer.status = "none" /\ ~NoOffer.held
  BY DEF NoOffer, Deals
<1>3. o \in Rows
  BY <1>1, <1>2 DEF Order, Rows
<1>4. /\ o.status = status /\ o.product = p /\ o.original = p
      /\ o.quantity = q /\ o.price = Price[p] /\ o.method = method
      /\ o.risky = risky /\ o.total = Price[p] * q /\ o.final = Price[p] * q
      /\ o.offer = NoOffer /\ o.log = {}
      /\ o.refund = 0 /\ ~o.reserved /\ ~o.recovered
  BY DEF Order
<1> HIDE DEF o
<1>5. Fresh(o) /\ Unpaid(o) /\ ~Approved(o)
  BY <1>2, <1>4 DEF Fresh, Unpaid, Approved
<1> QED
  BY <1>3, <1>4, <1>5 DEF o, Begun

LEMMA CreateIs ==
    ASSUME Rowwise(store), Create
    PROVE  \E i \in Current : Moved(store, store', i) /\ Changed(orders[i], orders'[i])
<1>1. PICK i \in New, p \in Ordered, q \in Quantities, method \in {"prepaid", "cod"},
           risky \in BOOLEAN : AddOrder(i, Order("processing", p, q, method, risky))
  BY DEF Create
<1> DEFINE r == Order("processing", p, q, method, risky)
           n == Logged(r, "intake")
           t == With(store, i, n)
<1>2. /\ p \in Products /\ q \in 1..100 /\ i \in Current /\ i \in Ids
      /\ "processing" \in Statuses /\ "intake" \in Kinds
  BY DemoAssumption, IdsFacts DEF Statuses, Kinds
<1>3. /\ r \in Rows /\ r.status = "processing" /\ Fresh(r) /\ Unpaid(r) /\ ~Approved(r)
  <2>1. Begun(r, "processing", p, q, method, risky)
    BY <1>2, OrderIs
  <2> QED
    BY <2>1 DEF Begun
<1> HIDE DEF r
<1>4. /\ n \in Rows /\ Terms(r, n) /\ n.status = r.status /\ n.product = r.product
      /\ n.price = r.price /\ n.recovered = r.recovered /\ n.reserved = r.reserved
      /\ n.offer = r.offer /\ n.refund = r.refund /\ (Approved(n) <=> Approved(r))
  BY ONLY <1>2, <1>3, LoggedIs
<1>5. orders[i].status = "absent" /\ stock' = t.stock /\ orders' = t.orders
  BY <1>1 DEF AddOrder, Become, r
<1> HIDE DEF n
<1>6. store \in Stores /\ store.orders = orders /\ Fit(orders[i])
  BY <1>2 DEF Rowwise, store
<1>7. Fresh(n) /\ Unpaid(n) /\ n.status = "processing"
  BY <1>3, <1>4 DEF Fresh, Unpaid, Terms
<1>8. Fresh(orders[i])
  BY <1>5, <1>6 DEF Fit
<1>9. \A x \in Products : Owns(n, x) = Owns(orders[i], x)
  BY <1>7, <1>8 DEF Owns, Fresh
<1>10. Moved(store, t, i) /\ t.orders[i] = n
  BY <1>2, <1>4, <1>6, <1>9, WithMoved
<1>11. t = [stock |-> t.stock, orders |-> t.orders]
  BY <1>10 DEF Moved, Stores
<1>12. t = store'
  BY <1>5, <1>11 DEF store
<1>13. Changed(orders[i], orders'[i])
  BY <1>5, <1>7, <1>10 DEF Changed, Created
<1> QED
  BY <1>2, <1>10, <1>12, <1>13

LEMMA ActIs ==
    ASSUME Rowwise(store), NEW i \in Ids, Act(i), ~UNCHANGED <<stock, orders>>
    PROVE  i \in Current /\ Moved(store, store', i) /\ Clicked(orders[i], orders'[i])
<1>1. PICK type \in Buttons(i) : Become(transition(store, i, type))
  BY DEF Act
<1> DEFINE t == transition(store, i, type)
<1>2. stock' = t.stock /\ orders' = t.orders
  BY <1>1 DEF Become
<1>3. store \in Stores /\ store.orders = orders /\ store.stock = stock
  BY DEF Rowwise, store
<1>4. t # store
  BY <1>2, <1>3
<1>5. i \in Current
  <2>1. CASE i \in History
    BY <1>3, <1>4, <2>1, OverStays DEF Rowwise, Past
  <2> QED
    BY <2>1, IdsFacts
<1>6. Moved(store, t, i) /\ Clicked(orders[i], t.orders[i])
  <2>1. Fit(orders[i])
    BY <1>3, <1>5 DEF Rowwise
  <2> HIDE DEF t
  <2> QED
    BY <1>3, <1>4, <2>1, TransitionIs DEF t
<1> HIDE DEF t
<1>7. t = [stock |-> t.stock, orders |-> t.orders]
  BY <1>6 DEF Moved, Stores
<1>8. t = store'
  BY <1>2, <1>7 DEF store
<1> QED
  BY <1>2, <1>5, <1>6, <1>8

LEMMA NextIs ==
    ASSUME Rowwise(store), DemoNext, ~UNCHANGED <<stock, orders>>
    PROVE  \E i \in Current : Moved(store, store', i) /\ Changed(orders[i], orders'[i])
<1>1. CASE Create
  BY <1>1, CreateIs
<1>2. CASE \E i \in Ids : Act(i)
  BY <1>2, ActIs DEF Changed
<1> QED
  BY <1>1, <1>2 DEF DemoNext

LEMMA MovedRows ==
    ASSUME NEW s, Rowwise(s), NEW t, NEW i \in Current, Moved(s, t, i),
           Changed(s.orders[i], t.orders[i])
    PROVE  Rowwise(t)
<1>1. s \in Stores /\ t \in Stores /\ i \in Ids
  BY IdsFacts DEF Rowwise, Moved
<1>2. t.orders[i] \in Rows
  BY <1>1 DEF Stores
<1>3. Fit(t.orders[i])
  BY <1>1, <1>2, ChangedFits DEF Rowwise
<1>4. \A j \in Ids \ {i} : t.orders[j] = s.orders[j]
  BY DEF Moved
<1> QED
  BY <1>1, <1>3, <1>4, IdsFacts DEF Rowwise

\* Every unit is on the shelf or owned by an order of the day.
Owned(s, p) == [i \in Current |-> Owns(s.orders[i], p)]

Conserved(s) ==
    \A p \in Products : catalog[p].stock = s.stock[p] + Sum(Owned(s, p), Current)

LEMMA MovedConserved ==
    ASSUME NEW s, NEW t, NEW i \in Current, s \in Stores, Moved(s, t, i), Conserved(s)
    PROVE  Conserved(t)
<1> SUFFICES ASSUME NEW p \in Products
             PROVE  catalog[p].stock = t.stock[p] + Sum(Owned(t, p), Current)
  BY DEF Conserved
<1> DEFINE g == Owned(s, p)
           h == Owned(t, p)
<1>1. t \in Stores /\ i \in Ids /\ Current \subseteq Ids
  BY IdsFacts DEF Moved
<1>2. \A j \in Current : g[j] = Owns(s.orders[j], p) /\ h[j] = Owns(t.orders[j], p)
  BY DEF Owned
<1>3. \A j \in Current : s.orders[j] \in Rows /\ t.orders[j] \in Rows
  BY <1>1 DEF Stores
<1> HIDE DEF g, h
<1>4. \A j \in Current : g[j] \in Int /\ h[j] \in Int
  <2>1. \A o \in Rows : Owns(o, p) \in Int
    BY OwnsNat
  <2> QED
    BY <1>2, <1>3, <2>1
<1>5. \A j \in Current \ {i} : h[j] = g[j]
  BY <1>1, <1>2 DEF Moved
<1>6. Sum(h, Current) - h[i] = Sum(g, Current) - g[i]
  BY <1>4, <1>5, IdsFacts, SumChange
<1>7. Sum(h, Current) \in Int /\ Sum(g, Current) \in Int
  BY <1>4, IdsFacts, SumInt
<1>8. t.stock[p] + h[i] = s.stock[p] + g[i]
  BY <1>2 DEF Moved
<1>9. t.stock[p] \in Int /\ s.stock[p] \in Int
  BY <1>1 DEF Stores
<1>10. catalog[p].stock = s.stock[p] + Sum(g, Current)
  BY DEF Conserved, g
<1>11. catalog[p].stock = t.stock[p] + Sum(h, Current)
  <2>1. g[i] \in Int /\ h[i] \in Int
    BY <1>4
  <2>2. \A a, b, x, y, m, n \in Int :
           m - x = n - y /\ a + x = b + y => a + m = b + n
    BY ONLY SMTT(30)
  <2>3. t.stock[p] + Sum(h, Current) = s.stock[p] + Sum(g, Current)
    BY ONLY <2>1, <2>2, <1>6, <1>7, <1>8, <1>9
  <2> QED
    BY ONLY <2>3, <1>10
<1> QED
  BY <1>11 DEF h

\* The day the page opens on: three customers are asked, one order is in review.
LEMMA AwaitingOrder ==
    ASSUME NEW i \in Awaiting
    PROVE  /\ SampleOrder(i) \in Rows /\ Fit(SampleOrder(i))
           /\ \A p : Owns(SampleOrder(i), p) = IF p = 2 THEN (i % 3) + 1 ELSE 0
           /\ SampleStatus(i) = "awaiting_customer"
<1>a. PICK b \in BOOLEAN : b = FALSE
  OBVIOUS
<1>b. PICK tea \in Products : tea = 1
  BY CatalogFacts
<1>c. PICK other \in Products : other = 2
  BY CatalogFacts
<1>d. PICK status \in Statuses : status = "awaiting_customer"
  BY DEF Statuses
<1> DEFINE q == (i % 3) + 1
           r == Order(status, tea, q, "prepaid", b)
           d == [status |-> "pending", product |-> other, price |-> 93100, held |-> TRUE]
           v == [r EXCEPT !.shortage = TRUE]
           o == [v EXCEPT !.offer = d]
<1>1. q \in 1..100
  BY DEF Awaiting
<1>2. i \notin {3, 4, 10} /\ i \notin Recovered
  BY DEF Awaiting, Recovered
<1>3. SampleStatus(i) = "awaiting_customer"
  BY <1>2 DEF SampleStatus
<1>4. SampleOrder(i) = o
  <2> HIDE DEF q, d
  <2>1. (i = 4) = b
    BY <1>a, <1>2
  <2>2. (SampleStatus(i) \in {"awaiting_customer", "refund_pending"}) = TRUE
    BY <1>3
  <2>3. SampleOrder(i) = [[Order(SampleStatus(i), tea, q, "prepaid", i = 4) EXCEPT
                             !.shortage = SampleStatus(i) \in {"awaiting_customer",
                                                               "refund_pending"}]
                           EXCEPT !.offer = d]
    BY <1>b, <1>c, <1>2 DEF SampleOrder, q, d
  <2> QED
    BY <1>d, <1>3, <2>1, <2>2, <2>3
<1> HIDE DEF q
<1>5. /\ r \in Rows /\ r.status = status /\ r.product = tea /\ r.original = tea
      /\ r.quantity = q /\ r.price = Price[tea] /\ r.risky = b /\ Fresh(r) /\ Unpaid(r)
      /\ r.method = "prepaid"
  <2>1. "prepaid" \in {"prepaid", "cod"}
    OBVIOUS
  <2>2. Begun(r, status, tea, q, "prepaid", b)
    BY <1>1, <2>1, OrderIs
  <2> QED
    BY <2>2 DEF Begun
<1> HIDE DEF r
<1>6. d \in Deals /\ d.status = "pending" /\ d.product = other /\ d.price = 93100 /\ d.held
  BY DEF Deals
<1> HIDE DEF d
<1>7. /\ v \in Rows /\ v.status = status /\ v.product = tea /\ v.original = tea
      /\ v.quantity = q /\ v.price = Price[tea] /\ v.risky = b
      /\ v.total = r.total /\ ~v.reserved /\ ~v.recovered /\ v.refund = 0
      /\ v.log = r.log /\ v.method = "prepaid"
  BY <1>5 DEF Rows, Fresh
<1> HIDE DEF v
<1>8. /\ o \in Rows /\ o.status = status /\ o.product = tea /\ o.original = tea
      /\ o.quantity = q /\ o.price = Price[tea] /\ o.risky = b /\ o.offer = d
      /\ o.total = r.total /\ ~o.reserved /\ ~o.recovered /\ o.refund = 0
      /\ o.log = r.log /\ o.method = "prepaid"
  BY <1>6, <1>7 DEF Rows
<1> HIDE DEF o
<1>9. Unpaid(o) /\ ~Approved(o)
  BY <1>5, <1>8 DEF Unpaid, Fresh, Approved
<1>10. Asking(o) /\ Balanced(o)
  <2>1. tea # other /\ d.price <= Price[tea]
    BY <1>b, <1>c, <1>6, CatalogFacts
  <2> QED
    BY <1>a, <1>d, <1>6, <1>8, <2>1 DEF Asking, Balanced, Settled
<1>11. Fit(o)
  BY <1>d, <1>8, <1>9, <1>10 DEF Fit, Settled, Asking
<1>12. \A p : Owns(o, p) = IF p = 2 THEN q ELSE 0
  BY <1>1, <1>c, <1>6, <1>8 DEF Owns
<1> QED
  BY <1>3, <1>4, <1>8, <1>11, <1>12 DEF q

LEMMA OldProduct ==
    ASSUME NEW i \in Sample
    PROVE  <<3, 6, 8, 9, 10>>[(i % 5) + 1] \in Products /\ (i % 3) + 1 \in 1..100
<1>1. (i % 5) + 1 \in 1..5 /\ (i % 3) + 1 \in 1..3
  BY DEF Sample
<1>2. \A k \in 1..5 : <<3, 6, 8, 9, 10>>[k] \in 1..10
  OBVIOUS
<1> QED
  BY <1>1, <1>2, CatalogFacts

\* A sample order that has become the second product.
Replaced(o, tea, other, q) ==
    [[o EXCEPT !.shortage = TRUE, !.recovered = TRUE] EXCEPT
        !.original = tea, !.product = other, !.price = 93100,
        !.total = 100000 * q, !.final = 93100 * q]

LEMMA ReplacedIs ==
    ASSUME NEW o \in Rows, NEW tea \in Products, NEW other \in Products, NEW q \in 1..100
    PROVE  LET w == Replaced(o, tea, other, q) IN
           w \in Rows /\ w.status = o.status /\ w.offer = o.offer /\ w.reserved = o.reserved
<1> DEFINE v == [o EXCEPT !.shortage = TRUE, !.recovered = TRUE]
           w == [v EXCEPT !.original = tea, !.product = other, !.price = 93100,
                          !.total = 100000 * q, !.final = 93100 * q]
<1>1. v \in Rows /\ v.status = o.status /\ v.offer = o.offer /\ v.reserved = o.reserved
  BY DEF Rows
<1>2. /\ \E t \in Nat : t = 100000 * q
      /\ \E f \in Nat : f = 93100 * q
      /\ \E c \in Nat : c = 93100
  OBVIOUS
<1> HIDE DEF v
<1>3. PICK t \in Nat, f \in Nat, c \in Nat : t = 100000 * q /\ f = 93100 * q /\ c = 93100
  BY <1>2
<1> DEFINE x == [v EXCEPT !.original = tea, !.product = other, !.price = c,
                          !.total = t, !.final = f]
<1>4. /\ x \in Rows /\ x.status = v.status /\ x.offer = v.offer
      /\ x.reserved = v.reserved
  BY <1>1 DEF Rows
<1>4a. x = w
  BY <1>3
<1>5. Replaced(o, tea, other, q) = w
  BY DEF Replaced, v
<1> HIDE DEF w, x
<1> QED
  BY <1>1, <1>4, <1>4a, <1>5

LEMMA OlderOrder ==
    ASSUME NEW i \in Sample \ Awaiting
    PROVE  /\ SampleOrder(i) \in Rows /\ SampleOrder(i).status = SampleStatus(i)
           /\ SampleOrder(i).offer = NoOffer /\ ~SampleOrder(i).reserved
           /\ i = 4 => Fit(SampleOrder(i)) /\ SampleStatus(i) \notin Settled
           /\ i # 4 => SampleStatus(i) \in Settled
<1>0. PICK b \in BOOLEAN : b = (i = 4)
  OBVIOUS
<1>a. PICK tea \in Products : tea = 1
  BY CatalogFacts
<1>b. PICK other \in Products : other = 2
  BY CatalogFacts
<1> DEFINE status == SampleStatus(i)
           c == status \in {"awaiting_customer", "refund_pending"}
           q == (i % 3) + 1
           p == <<3, 6, 8, 9, 10>>[(i % 5) + 1]
           r == Order(status, p, q, "prepaid", b)
           o == [r EXCEPT !.shortage = c]
           w == Replaced(o, tea, other, q)
<1>1. p \in Products /\ q \in 1..100
  BY OldProduct
<1>2. /\ status \in Statuses
      /\ i = 4 => status = "manual_review"
      /\ i # 4 => status \in Settled
  BY DEF SampleStatus, Statuses, Settled
<1>3. SampleOrder(i) = IF i \in Recovered THEN w ELSE o
  <2> HIDE DEF q, p, c
  <2>1. SampleOrder(i) =
          IF i \in Recovered
          THEN Replaced([Order(status, p, q, "prepaid", i = 4) EXCEPT !.shortage = c], 1, 2, q)
          ELSE [Order(status, p, q, "prepaid", i = 4) EXCEPT !.shortage = c]
    BY DEF SampleOrder, Replaced, q, p, c
  <2> QED
    BY <1>0, <1>a, <1>b, <2>1
<1> HIDE DEF status, q, p
<1>4. /\ r \in Rows /\ r.status = status /\ r.offer = NoOffer
      /\ r.risky = b /\ Fresh(r) /\ Unpaid(r)
  <2>1. "prepaid" \in {"prepaid", "cod"}
    OBVIOUS
  <2>2. Begun(r, status, p, q, "prepaid", b)
    BY <1>1, <1>2, <2>1, OrderIs
  <2> QED
    BY <2>2 DEF Begun
<1>4a. c \in BOOLEAN
  OBVIOUS
<1> HIDE DEF r, c
<1>5. /\ o \in Rows /\ o.status = r.status /\ o.offer = r.offer /\ o.reserved = r.reserved
      /\ o.recovered = r.recovered /\ o.product = r.product /\ o.original = r.original
      /\ o.refund = r.refund /\ o.log = r.log /\ o.total = r.total /\ o.price = r.price
      /\ o.quantity = r.quantity /\ o.risky = r.risky
  BY <1>4, <1>4a DEF Rows
<1> HIDE DEF o
<1>6. /\ w \in Rows /\ w.status = o.status /\ w.offer = o.offer /\ w.reserved = o.reserved
  BY <1>1, <1>5, ReplacedIs
<1>7. ASSUME i = 4
      PROVE  Fit(o) /\ SampleOrder(i) = o
  <2>1. Fresh(o) /\ Unpaid(o) /\ o.risky /\ o.status = "manual_review" /\ ~Approved(o)
    BY <1>0, <1>2, <1>4, <1>5, <1>7 DEF Fresh, Unpaid, Approved
  <2>2. Balanced(o)
    BY <2>1 DEF Balanced, Fresh, Settled
  <2> QED
    BY <1>3, <1>7, <2>1, <2>2 DEF Fit, Settled, Recovered
<1>8. "manual_review" \notin Settled
  BY DEF Settled
<1> HIDE DEF w
<1> QED
  BY <1>2, <1>3, <1>4, <1>5, <1>6, <1>7, <1>8 DEF Fresh, status

\* The offers that are pending at first hold six units of the second product.
LEMMA HeldAtFirst ==
    /\ MapThenSumSet(LAMBDA i : (i % 3) + 1, Awaiting) = 6
    /\ \A g : (\A i \in Awaiting : g[i] = (i % 3) + 1) => Sum(g, Awaiting) = 6
<1>1. ASSUME NEW g, \A i \in Awaiting : g[i] = (i % 3) + 1
      PROVE  Sum(g, Awaiting) = 6
  <2>1. g[6] = 1 /\ g[11] = 3 /\ g[16] = 2
    BY <1>1 DEF Awaiting
  <2>2. Sum(g, {}) = 0
    BY SumEmpty
  <2>3. Sum(g, {} \cup {6}) = Sum(g, {}) + g[6]
    <3>1. IsFiniteSet({}) /\ 6 \notin {} /\ \A y \in {} \cup {6} : g[y] \in Int
      BY <2>1, FS_EmptySet
    <3> QED
      BY <3>1, SumAdd
  <2>4. Sum(g, {6} \cup {11}) = Sum(g, {6}) + g[11]
    <3>1. IsFiniteSet({6}) /\ 11 \notin {6} /\ \A y \in {6} \cup {11} : g[y] \in Int
      BY <2>1, FS_Singleton
    <3> QED
      BY <3>1, SumAdd
  <2>5. Sum(g, {6, 11} \cup {16}) = Sum(g, {6, 11}) + g[16]
    <3>1. {6, 11} = {6} \cup {11}
      OBVIOUS
    <3>2. IsFiniteSet({6, 11})
      <4>1. IsFiniteSet({6}) /\ IsFiniteSet({11})
        BY FS_Singleton
      <4> QED
        BY <3>1, <4>1, FS_Union
    <3>3. 16 \notin {6, 11} /\ \A y \in {6, 11} \cup {16} : g[y] \in Int
      BY <2>1
    <3> QED
      BY <3>2, <3>3, SumAdd
  <2>6. {} \cup {6} = {6} /\ {6} \cup {11} = {6, 11} /\ {6, 11} \cup {16} = Awaiting
    BY DEF Awaiting
  <2> QED
    BY <2>1, <2>2, <2>3, <2>4, <2>5, <2>6
<1> DEFINE h == [i \in Awaiting |-> (i % 3) + 1]
           D(it) == [s \in SUBSET Awaiting |-> IF s = {} THEN 0
                      ELSE (((CHOOSE x \in s : TRUE) % 3) + 1) + it[s \ {CHOOSE x \in s : TRUE}]]
           E(it) == [s \in SUBSET Awaiting |-> IF s = {} THEN 0
                      ELSE h[CHOOSE x \in s : TRUE] + it[s \ {CHOOSE x \in s : TRUE}]]
<1>2. \A it : D(it) = E(it)
  OBVIOUS
<1>3. /\ MapThenSumSet(LAMBDA i : (i % 3) + 1, Awaiting) = (CHOOSE it : it = D(it))[Awaiting]
      /\ Sum(h, Awaiting) = (CHOOSE it : it = E(it))[Awaiting]
  BY DEF Sum, MapThenSumSet, MapThenFoldSet
<1>4. \A i \in Awaiting : h[i] = (i % 3) + 1
  OBVIOUS
<1> HIDE DEF D, E, h
<1>5. (CHOOSE it : it = D(it)) = (CHOOSE it : it = E(it))
  BY <1>2, Zenon
<1>6. Sum(h, Awaiting) = 6
  BY <1>1, <1>4
<1> QED
  BY <1>1, <1>3, <1>5, <1>6

LEMMA SampleRows ==
    ASSUME NEW i \in Sample
    PROVE  /\ SampleOrder(i) \in Rows
           /\ i \in Awaiting \cup {4} => Fit(SampleOrder(i)) /\ SampleStatus(i) \notin Settled
           /\ i \notin Awaiting \cup {4} => Past(SampleOrder(i)) /\ SampleStatus(i) \in Settled
           /\ \A p : Owns(SampleOrder(i), p) =
                       IF i \in Awaiting /\ p = 2 THEN (i % 3) + 1 ELSE 0
<1>1. CASE i \in Awaiting
  BY <1>1, AwaitingOrder DEF Settled
<1>2. CASE i \notin Awaiting
  <2>1. /\ SampleOrder(i).offer.status = "none" /\ ~SampleOrder(i).offer.held
        /\ ~SampleOrder(i).reserved
    BY <1>2, OlderOrder DEF NoOffer
  <2>2. \A p : Owns(SampleOrder(i), p) = 0
    BY <2>1 DEF Owns
  <2> QED
    BY <1>2, <2>1, <2>2, OlderOrder DEF Past
<1> QED
  BY <1>1, <1>2

LEMMA AbsentRow == Absent \in Rows /\ Fit(Absent) /\ \A p : Owns(Absent, p) = 0
<1>a. PICK b \in BOOLEAN : b = FALSE
  OBVIOUS
<1>b. PICK p \in Products : p = 1
  BY CatalogFacts
<1>c. PICK status \in Statuses : status = "absent"
  BY DEF Statuses
<1>d. PICK q \in 1..100 : q = 1
  OBVIOUS
<1>e. PICK zero \in Nat : zero = 0
  OBVIOUS
<1> DEFINE r == Order(status, p, q, "prepaid", b)
           o == [r EXCEPT !.total = zero, !.final = zero]
<1>1. r \in Rows /\ r.status = status /\ Fresh(r) /\ r.risky = b /\ ~Approved(r)
  <2>1. "prepaid" \in {"prepaid", "cod"}
    OBVIOUS
  <2>2. Begun(r, status, p, q, "prepaid", b)
    BY <2>1, OrderIs
  <2> QED
    BY <2>2 DEF Begun
<1>2. Absent = o
  BY <1>a, <1>b, <1>c, <1>d, <1>e DEF Absent
<1> HIDE DEF r
<1>3. /\ o \in Rows /\ o.status = status /\ o.risky = b /\ o.log = r.log
      /\ o.reserved = r.reserved /\ o.recovered = r.recovered /\ o.offer = r.offer
      /\ o.product = r.product /\ o.original = r.original /\ o.refund = r.refund
  BY <1>1 DEF Rows
<1> HIDE DEF o
<1>4. Fresh(o) /\ ~o.risky /\ ~Approved(o) /\ o.status = "absent"
  BY <1>a, <1>c, <1>1, <1>3 DEF Fresh, Approved
<1>5. Balanced(o)
  BY <1>4 DEF Balanced, Fresh, Settled
<1>6. Fit(o) /\ \A x : Owns(o, x) = 0
  BY <1>4, <1>5 DEF Fit, Fresh, Owns, Settled
<1> QED
  BY <1>2, <1>3, <1>6

LEMMA InitRows == DemoInit => Rowwise(store)
<1> SUFFICES ASSUME DemoInit PROVE Rowwise(store)
  OBVIOUS
<1>1. /\ orders = [i \in Ids |-> IF i \in Sample THEN SampleOrder(i) ELSE Absent]
      /\ stock = [p \in Products |-> catalog[p].stock - IF p = 2 THEN 6 ELSE 0]
  BY HeldAtFirst DEF DemoInit, initialDemo
<1>2. orders \in [Ids -> Rows]
  BY <1>1, SampleRows, AbsentRow
<1>3. stock \in [Products -> Nat]
  <2>1. \A p \in Products : catalog[p].stock - (IF p = 2 THEN 6 ELSE 0) \in Nat
    BY CatalogFacts
  <2> QED
    BY <1>1, <2>1
<1>4. store \in Stores /\ store.orders = orders
  BY <1>2, <1>3 DEF store, Stores
<1>5. ASSUME NEW i \in Current PROVE Fit(orders[i])
  <2>1. i \in Ids /\ i \notin History
    BY IdsFacts
  <2>2. CASE i \in Sample
    BY <1>1, <2>1, <2>2, SampleRows DEF History
  <2>3. CASE i \notin Sample
    BY <1>1, <2>1, <2>3, AbsentRow
  <2> QED
    BY <2>2, <2>3
<1>6. ASSUME NEW i \in History PROVE Past(orders[i])
  BY <1>1, SampleRows, IdsFacts DEF History
<1> QED
  BY <1>4, <1>5, <1>6 DEF Rowwise

LEMMA InitConserved == DemoInit => Conserved(store)
<1> SUFFICES ASSUME DemoInit, NEW p \in Products
             PROVE  catalog[p].stock = store.stock[p] + Sum(Owned(store, p), Current)
  BY DEF Conserved
<1> DEFINE g == Owned(store, p)
<1>1. /\ orders = [i \in Ids |-> IF i \in Sample THEN SampleOrder(i) ELSE Absent]
      /\ stock = [q \in Products |-> catalog[q].stock - IF q = 2 THEN 6 ELSE 0]
      /\ store.orders = orders /\ store.stock = stock
  BY HeldAtFirst DEF DemoInit, initialDemo, store
<1>2. ASSUME NEW i \in Current
      PROVE  g[i] = IF i \in Awaiting /\ p = 2 THEN (i % 3) + 1 ELSE 0
  <2>1. g[i] = Owns(orders[i], p) /\ i \in Ids
    BY <1>1, IdsFacts DEF Owned
  <2>2. Awaiting \subseteq Sample
    BY DEF Awaiting, Sample
  <2> HIDE DEF g
  <2> QED
    BY <1>1, <2>1, <2>2, SampleRows, AbsentRow
<1>3. Awaiting \subseteq Current /\ IsFiniteSet(Awaiting) /\ IsFiniteSet(Current \ Awaiting)
  <2>1. Awaiting \subseteq Current
    BY SampleRows DEF Awaiting, Sample, Ids, Current, History
  <2> QED
    BY <2>1, IdsFacts, FS_Subset
<1>4. \A i \in Awaiting : (i % 3) + 1 \in Int
  BY DEF Awaiting
<1> HIDE DEF g
<1>5. Sum(g, Awaiting) = IF p = 2 THEN 6 ELSE 0
  <2>1. CASE p = 2
    BY <1>2, <1>3, <2>1, HeldAtFirst
  <2>2. CASE p # 2
    <3>1. \A i \in Awaiting : g[i] = 0
      BY <1>2, <1>3, <2>2
    <3>2. Sum(g, {} \cup Awaiting) = Sum(g, {})
      BY <1>3, <3>1, SumZeros, FS_EmptySet
    <3> QED
      BY <2>2, <3>2, SumEmpty
  <2> QED
    BY <2>1, <2>2
<1>6. Sum(g, Awaiting \cup (Current \ Awaiting)) = Sum(g, Awaiting)
  <2>1. \A i \in Awaiting : g[i] \in Int
    BY <1>2, <1>3, <1>4
  <2>2. \A i \in Current \ Awaiting : g[i] = 0
    BY <1>2
  <2> QED
    BY <1>3, <2>1, <2>2, SumZeros
<1>7. Awaiting \cup (Current \ Awaiting) = Current
  BY <1>3
<1>8. catalog[p].stock = store.stock[p] + Sum(g, Current)
  <2>1. PICK k \in Nat : k = catalog[p].stock
    BY CatalogFacts
  <2>2. store.stock[p] = k - IF p = 2 THEN 6 ELSE 0
    BY <1>1, <2>1
  <2>3. Sum(g, Current) = IF p = 2 THEN 6 ELSE 0
    BY <1>5, <1>6, <1>7
  <2>4. k = store.stock[p] + Sum(g, Current)
    BY <2>2, <2>3
  <2> QED
    BY <2>1, <2>4
<1> QED
  BY <1>8 DEF g

-----------------------------------------------------------------------------
(***************************************************************************)
(* The invariant, and what it says.                                        *)
(***************************************************************************)
DemoInv == Rowwise(store) /\ Conserved(store)

\* Whatever is clicked, every order of the day stays Fit and every unit stays on the
\* shelf or with an order that reserved or was offered it.
THEOREM DemoSafety == Demo => []DemoInv
<1>1. DemoInit => DemoInv
  BY InitRows, InitConserved DEF DemoInv
<1>2. DemoInv /\ [DemoNext]_<<stock, orders>> => DemoInv'
  <2> SUFFICES ASSUME DemoInv, [DemoNext]_<<stock, orders>>
               PROVE  DemoInv'
    OBVIOUS
  <2>1. CASE UNCHANGED <<stock, orders>>
    <3>1. store' = store
      BY <2>1 DEF store
    <3> QED
      BY <3>1 DEF DemoInv, Rowwise, Conserved, Owned
  <2>2. CASE ~UNCHANGED <<stock, orders>>
    <3>1. PICK i \in Current : Moved(store, store', i) /\ Changed(orders[i], orders'[i])
      BY <2>2, NextIs DEF DemoInv
    <3>2. store.orders = orders /\ store'.orders = orders' /\ store \in Stores
      BY DEF store, DemoInv, Rowwise
    <3>3. Rowwise(store)'
      <4>1. \E t : t = store'
        OBVIOUS
      <4>2. PICK t : t = store'
        BY <4>1
      <4>3. Rowwise(t)
        BY <3>1, <3>2, <4>2, MovedRows DEF DemoInv
      <4> QED
        BY <4>2, <4>3 DEF Rowwise
    <3>4. Conserved(store)'
      <4>1. \E t : t = store'
        OBVIOUS
      <4>2. PICK t : t = store'
        BY <4>1
      <4>3. Conserved(t)
        BY <3>1, <3>2, <4>2, MovedConserved DEF DemoInv
      <4> QED
        BY <4>2, <4>3 DEF Conserved, Owned
    <3> QED
      BY <3>3, <3>4 DEF DemoInv
  <2> QED
    BY <2>1, <2>2
<1> QED
  BY <1>1, <1>2, PTL DEF Demo

\* Rows and stock have their types; no sample ever runs below zero.
THEOREM DemoTyped == Demo => []DemoType
<1>1. DemoInv => DemoType
  <2> SUFFICES ASSUME DemoInv PROVE DemoType
    OBVIOUS
  <2>1. stock \in [Products -> Nat] /\ orders \in [Ids -> Rows]
    BY DEF DemoInv, Rowwise, store, Stores
  <2>2. ASSUME NEW i \in Ids
        PROVE  LET o == orders[i] IN
               /\ o.status \in Settled \cup {"absent", "processing", "manual_review",
                                             "awaiting_customer"}
               /\ o.product \in Products /\ o.original \in Products
               /\ o.quantity \in 1..100 /\ o.price \in Nat /\ o.refund \in Nat
               /\ o.offer.status \in {"none", "pending", "accepted", "rejected"}
               /\ {o.reserved, o.recovered, o.shortage, o.risky, o.offer.held}
                     \subseteq BOOLEAN
    <3>1. orders[i] \in Rows
      BY <2>1
    <3>2. orders[i].status \in Statuses /\ orders[i].original \in Products
      BY <3>1 DEF Rows
    <3> QED
      BY <3>1, <3>2, RowParts DEF Statuses
  <2> QED
    BY <2>1, <2>2 DEF DemoType
<1> QED
  BY <1>1, DemoSafety, PTL

\* What a prepaid customer of the sample shop pays and gets back adds up.
THEOREM DemoMoney == Demo => []DemoMoneyBalanced
<1>1. DemoInv => DemoMoneyBalanced
  <2> SUFFICES ASSUME DemoInv, NEW i \in Current
               PROVE  LET o == orders[i]
                          kept == IF o.status = "ready_for_fulfillment" THEN o.final ELSE 0
                      IN  /\ o.method = "prepaid" /\ o.status \in Settled => kept + o.refund = o.total
                          /\ o.method = "cod" \/ o.status \notin Settled => o.refund = 0
    BY DEF DemoMoneyBalanced
  <2>1. Fit(orders[i])
    BY DEF DemoInv, Rowwise, store
  <2> QED
    BY <2>1 DEF Fit, Balanced
<1> QED
  BY <1>1, DemoSafety, PTL

LEMMA OwnedIs ==
    ASSUME NEW p
    PROVE  MapThenSumSet(LAMBDA i :
                        (IF orders[i].reserved /\ orders[i].product = p
                         THEN orders[i].quantity ELSE 0)
                      + (IF orders[i].offer.held /\ orders[i].offer.product = p
                         THEN orders[i].quantity ELSE 0), Current)
           = Sum(Owned(store, p), Current)
<1> DEFINE g == Owned(store, p)
           F(i) == (IF orders[i].reserved /\ orders[i].product = p
                    THEN orders[i].quantity ELSE 0)
                   + (IF orders[i].offer.held /\ orders[i].offer.product = p
                      THEN orders[i].quantity ELSE 0)
           D(it) == [s \in SUBSET Current |-> IF s = {} THEN 0
                      ELSE F(CHOOSE x \in s : TRUE) + it[s \ {CHOOSE x \in s : TRUE}]]
           E(it) == [s \in SUBSET Current |-> IF s = {} THEN 0
                      ELSE g[CHOOSE x \in s : TRUE] + it[s \ {CHOOSE x \in s : TRUE}]]
<1>1. \A i \in Current : g[i] = F(i)
  BY DEF Owned, Owns, store
<1>2. /\ MapThenSumSet(LAMBDA i :
                        (IF orders[i].reserved /\ orders[i].product = p
                         THEN orders[i].quantity ELSE 0)
                      + (IF orders[i].offer.held /\ orders[i].offer.product = p
                         THEN orders[i].quantity ELSE 0), Current)
         = (CHOOSE it : it = D(it))[Current]
      /\ Sum(g, Current) = (CHOOSE it : it = E(it))[Current]
  BY DEF Sum, MapThenSumSet, MapThenFoldSet
<1> HIDE DEF F, g
<1>3. \A it : D(it) = E(it)
  BY <1>1
<1> HIDE DEF D, E
<1>4. (CHOOSE it : it = D(it)) = (CHOOSE it : it = E(it))
  BY <1>3, Zenon
<1> QED
  BY <1>2, <1>4 DEF g

\* Every unit of the sample stock is on the shelf, reserved or held by an offer.
THEOREM DemoStock == Demo => []DemoStockConserved
<1>1. DemoInv => DemoStockConserved
  <2> SUFFICES ASSUME DemoInv, NEW p \in Products
               PROVE  catalog[p].stock =
                         stock[p] + MapThenSumSet(LAMBDA i :
                           (IF orders[i].reserved /\ orders[i].product = p
                            THEN orders[i].quantity ELSE 0)
                         + (IF orders[i].offer.held /\ orders[i].offer.product = p
                            THEN orders[i].quantity ELSE 0), Current)
    BY DEF DemoStockConserved
  <2>1. catalog[p].stock = store.stock[p] + Sum(Owned(store, p), Current)
    BY DEF DemoInv, Conserved
  <2>2. store.stock = stock
    BY DEF store
  <2> QED
    BY <2>1, <2>2, OwnedIs
<1> QED
  BY <1>1, DemoSafety, PTL

-----------------------------------------------------------------------------
(***************************************************************************)
(* The cards of the dashboard only count up.                               *)
(***************************************************************************)
InStatus(ord, status) == {i \in Ids : ord[i].status = status}
Counted(ord) == {i \in Ids : ord[i].status # "absent"}
Saved(ord) == {i \in Ids : ord[i].recovered}
Finals(ord) == [i \in Ids |-> ord[i].final]

LEMMA MetricsAre ==
    /\ DOMAIN metrics = {"orders", "ready", "refunds", "recovered"}
    /\ metrics.orders = Cardinality(Counted(orders))
    /\ metrics.ready = Cardinality(InStatus(orders, "ready_for_fulfillment"))
    /\ metrics.refunds = Cardinality(InStatus(orders, "refund_pending"))
    /\ metrics.recovered = Sum(Finals(orders), Saved(orders))
<1> DEFINE S == Saved(orders)
           g == Finals(orders)
           D(it) == [s \in SUBSET S |-> IF s = {} THEN 0
                      ELSE orders[CHOOSE x \in s : TRUE].final + it[s \ {CHOOSE x \in s : TRUE}]]
           E(it) == [s \in SUBSET S |-> IF s = {} THEN 0
                      ELSE g[CHOOSE x \in s : TRUE] + it[s \ {CHOOSE x \in s : TRUE}]]
<1>1. \A i \in S : g[i] = orders[i].final
  BY DEF Finals, Saved
<1>2. Sum(g, S) = (CHOOSE it : it = E(it))[S]
  BY DEF Sum, MapThenSumSet, MapThenFoldSet
<1>3. MapThenSumSet(LAMBDA i : orders[i].final, {i \in Ids : orders[i].recovered})
        = (CHOOSE it : it = D(it))[S]
  BY DEF Saved, MapThenSumSet, MapThenFoldSet
<1>4. \A it : D(it) = E(it)
  <2> HIDE DEF S, g
  <2> QED
    BY <1>1
<1>5. MapThenSumSet(LAMBDA i : orders[i].final, {i \in Ids : orders[i].recovered}) = Sum(g, S)
  <2> HIDE DEF D, E, S, g
  <2>1. (CHOOSE it : it = D(it)) = (CHOOSE it : it = E(it))
    BY <1>4, Zenon
  <2> QED
    BY <1>2, <1>3, <2>1
<1>6. /\ DOMAIN metrics = {"orders", "ready", "refunds", "recovered"}
      /\ metrics.orders = Cardinality(Counted(orders))
      /\ metrics.ready = Cardinality(InStatus(orders, "ready_for_fulfillment"))
      /\ metrics.refunds = Cardinality(InStatus(orders, "refund_pending"))
      /\ metrics.recovered =
           MapThenSumSet(LAMBDA i : orders[i].final, {i \in Ids : orders[i].recovered})
  BY DEF metrics, Count, Counted, InStatus
<1> QED
  BY <1>5, <1>6

LEMMA ChangedCounts ==
    ASSUME NEW s \in Stores, NEW i \in Ids, NEW o, o = s.orders[i], NEW n \in Rows,
           Fit(o), Changed(o, n)
    PROVE  o.status \notin Settled /\ ~o.recovered /\ n.status # "absent"
<1>1. o.status \in {"absent", "processing", "manual_review", "awaiting_customer"}
  BY DEF Changed, Created, Clicked
<1>2. o.status \notin Settled /\ ~o.recovered
  BY <1>1 DEF Fit, Fresh, Asking, Settled
<1>3. n.status # "absent"
  <2>1. CASE Reviewed(o, n)
    BY <2>1, ReviewIs
  <2>2. CASE ~Reviewed(o, n)
    BY <2>2 DEF Changed, Created, Clicked, Inventoried, Stocked, Offered, Turned,
                Cancelled, Agreed
  <2> QED
    BY <2>1, <2>2
<1> QED
  BY <1>2, <1>3

LEMMA SumGrows ==
    ASSUME NEW S, IsFiniteSet(S), NEW x, x \notin S, NEW g, NEW h,
           \A y \in S \cup {x} : g[y] \in Nat /\ h[y] \in Nat, \A y \in S : h[y] = g[y]
    PROVE  Sum(h, S) >= Sum(g, S) /\ Sum(h, S \cup {x}) >= Sum(g, S)
<1>1. Sum(h, S) = Sum(g, S)
  BY SumAlike
<1>2. Sum(g, S) \in Nat
  BY SumNat
<1>3. Sum(h, S \cup {x}) = Sum(h, S) + h[x]
  <2>1. \A y \in S \cup {x} : h[y] \in Int
    OBVIOUS
  <2> QED
    BY <2>1, SumAdd
<1> QED
  BY <1>1, <1>2, <1>3

LEMMA CountsGrow ==
    ASSUME NEW s, Rowwise(s), NEW t, NEW i \in Current, Moved(s, t, i),
           Changed(s.orders[i], t.orders[i])
    PROVE  /\ Cardinality(Counted(t.orders)) >= Cardinality(Counted(s.orders))
           /\ \A status \in Settled :
                 Cardinality(InStatus(t.orders, status)) >= Cardinality(InStatus(s.orders, status))
           /\ Sum(Finals(t.orders), Saved(t.orders)) >= Sum(Finals(s.orders), Saved(s.orders))
<1>1. /\ s \in Stores /\ t \in Stores /\ i \in Ids /\ Fit(s.orders[i])
      /\ s.orders \in [Ids -> Rows] /\ t.orders \in [Ids -> Rows]
      /\ \A j \in Ids \ {i} : t.orders[j] = s.orders[j]
  BY IdsFacts DEF Rowwise, Moved, Stores
<1>2. /\ s.orders[i].status \notin Settled /\ ~s.orders[i].recovered
      /\ t.orders[i].status # "absent"
  BY <1>1, ChangedCounts
<1>3. IsFiniteSet(Ids)
  <2>1. IsFiniteSet(History)
    <3>1. IsFiniteSet(Sample)
      <4>1. 0 \in Int /\ 24 \in Int /\ \A a \in Int : \A b \in Int : IsFiniteSet(a..b)
        BY FS_Interval
      <4> QED
        BY <4>1, Zenon DEF Sample
    <3> QED
      BY <3>1, FS_Subset DEF History
  <2> QED
    BY <2>1, IdsFacts, FS_Union
<1>4. \A A, B : A \subseteq B /\ B \subseteq Ids => Cardinality(B) >= Cardinality(A)
  <2> SUFFICES ASSUME NEW A, NEW B, A \subseteq B, B \subseteq Ids
               PROVE  Cardinality(B) >= Cardinality(A)
    OBVIOUS
  <2>1. IsFiniteSet(B) /\ IsFiniteSet(A)
    BY <1>3, FS_Subset
  <2>2. Cardinality(A) <= Cardinality(B) /\ Cardinality(A) \in Nat /\ Cardinality(B) \in Nat
    BY <2>1, FS_Subset, FS_CardinalityType
  <2> QED
    BY <2>2
<1>5. /\ Counted(s.orders) \subseteq Counted(t.orders) /\ Counted(t.orders) \subseteq Ids
  BY <1>1, <1>2 DEF Counted
<1>6. ASSUME NEW status \in Settled
      PROVE  InStatus(s.orders, status) \subseteq InStatus(t.orders, status)
             /\ InStatus(t.orders, status) \subseteq Ids
  BY <1>1, <1>2 DEF InStatus
<1>7. Sum(Finals(t.orders), Saved(t.orders)) >= Sum(Finals(s.orders), Saved(s.orders))
  <2> DEFINE S == Saved(s.orders)
             g == Finals(s.orders)
             h == Finals(t.orders)
  <2>1. i \notin S /\ IsFiniteSet(S) /\ S \subseteq Ids
    BY <1>2, <1>3, FS_Subset DEF Saved
  <2>2. Saved(t.orders) = S \/ Saved(t.orders) = S \cup {i}
    BY <1>1, <1>2 DEF Saved
  <2>3. \A y \in Ids : g[y] = s.orders[y].final /\ h[y] = t.orders[y].final
    BY DEF Finals
  <2> HIDE DEF S, g, h
  <2>4. \A y \in Ids : g[y] \in Nat /\ h[y] \in Nat
    <3>1. \A o \in Rows : o.final \in Nat
      BY RowParts
    <3> QED
      BY <1>1, <2>3, <3>1
  <2>5. \A y \in S : h[y] = g[y]
    BY <1>1, <2>1, <2>3
  <2>6. Sum(h, S) >= Sum(g, S) /\ Sum(h, S \cup {i}) >= Sum(g, S)
    BY <1>1, <2>1, <2>4, <2>5, SumGrows
  <2>7. Sum(h, Saved(t.orders)) >= Sum(g, S)
    BY <2>2, <2>6
  <2> QED
    BY <2>7 DEF S, g, h
<1> QED
  BY <1>4, <1>5, <1>6, <1>7

\* An order counted as placed, ready, to be refunded or recovered stays counted.
THEOREM DemoCounts == Demo => MetricsNeverFall
<1>1. ASSUME DemoInv, DemoNext, ~UNCHANGED <<stock, orders>>
      PROVE  \A card \in DOMAIN metrics : metrics'[card] >= metrics[card]
  <2>1. PICK i \in Current : Moved(store, store', i) /\ Changed(orders[i], orders'[i])
    BY <1>1, NextIs DEF DemoInv
  <2>2. store.orders = orders /\ store'.orders = orders'
    BY DEF store
  <2>3. PICK s, t : s = store /\ t = store'
    OBVIOUS
  <2>4. /\ Cardinality(Counted(t.orders)) >= Cardinality(Counted(s.orders))
        /\ \A status \in Settled :
              Cardinality(InStatus(t.orders, status)) >= Cardinality(InStatus(s.orders, status))
        /\ Sum(Finals(t.orders), Saved(t.orders)) >= Sum(Finals(s.orders), Saved(s.orders))
    BY <1>1, <2>1, <2>2, <2>3, CountsGrow DEF DemoInv
  <2>5. (/\ metrics.orders = Cardinality(Counted(orders))
         /\ metrics.ready = Cardinality(InStatus(orders, "ready_for_fulfillment"))
         /\ metrics.refunds = Cardinality(InStatus(orders, "refund_pending"))
         /\ metrics.recovered = Sum(Finals(orders), Saved(orders)))'
    BY MetricsAre, PTL
  <2>6. /\ metrics'.orders = Cardinality(Counted(orders'))
        /\ metrics'.ready = Cardinality(InStatus(orders', "ready_for_fulfillment"))
        /\ metrics'.refunds = Cardinality(InStatus(orders', "refund_pending"))
        /\ metrics'.recovered = Sum(Finals(orders'), Saved(orders'))
    BY <2>5 DEF Counted, InStatus, Finals, Saved
  <2>7. "ready_for_fulfillment" \in Settled /\ "refund_pending" \in Settled
    BY DEF Settled
  <2> QED
    BY <2>2, <2>3, <2>4, <2>6, <2>7, MetricsAre
<1>2. DemoInv /\ [DemoNext]_<<stock, orders>> =>
         [\A card \in DOMAIN metrics : metrics'[card] >= metrics[card]]_<<stock, orders>>
  BY <1>1
<1> QED
  BY <1>2, DemoSafety, PTL DEF Demo, MetricsNeverFall

-----------------------------------------------------------------------------
(***************************************************************************)
(* The sample shop keeps the promise of OrderLifecycle.                    *)
(***************************************************************************)
Asked(o) == o.offer.status # "none"
ClearedRow(n) == n.risky => DemoVerdict(n) = "approve"

\* What OrderLifecycle promises of the order that moves, as a relation of its rows.
DemoTurns(o, n) ==
    /\ DemoPhase(o) \notin Promise!Over
    /\ <<DemoPhase(o), DemoPhase(n)>> \in Promise!Turn
    /\ (n.risky <=> o.risky) \/ DemoPhase(o) = "absent"
    /\ DemoVerdict(n) # DemoVerdict(o) => DemoVerdict(o) = "none" /\ DemoPhase(o) = "review"
    /\ DemoPhase(n) = "review" => n.risky
    /\ DemoPhase(n) = "shipped" => /\ ClearedRow(n)
                                   /\ Asked(n) => DemoFate(n) # "open"
                                   /\ DemoFate(n) # "dropped"
    /\ DemoPhase(n) = "refused" => DemoVerdict(n) = "reject" \/ DemoFate(n) = "dropped"
    /\ Asked(o) => Asked(n)
    /\ Asked(n) /\ ~Asked(o) => /\ DemoPhase(n) = "asking" /\ DemoFate(o) = "open"
                                /\ ClearedRow(n)
    /\ DemoAnswer(n) # DemoAnswer(o) => /\ DemoAnswer(o) = "none" /\ Asked(o)
                                        /\ DemoFate(o) = "open"
    /\ DemoFate(n) # DemoFate(o) =>
          /\ DemoFate(o) = "open" /\ ClearedRow(n) /\ DemoPhase(o) # "absent"
          /\ \/ DemoFate(n) = "replaced" /\ DemoAnswer(n) = "accept"
             \/ DemoFate(n) = "dropped" /\ (Asked(n) => DemoAnswer(n) = "reject")

\* An order that is neither over nor answered.
LEMMA OpenRow ==
    ASSUME NEW o \in Rows, o.status \in Statuses \ Settled, o.product = o.original,
           o.offer.status \in {"none", "pending"}
    PROVE  /\ DemoFate(o) = "open" /\ DemoAnswer(o) = "none"
           /\ DemoVerdict(o) = IF Approved(o) THEN "approve" ELSE "none"
           /\ DemoPhase(o) = CASE o.status = "processing" -> "open"
                               [] o.status = "manual_review" -> "review"
                               [] o.status = "awaiting_customer" -> "asking"
                               [] OTHER -> "absent"
<1>1. /\ o.status \in {"absent", "processing", "manual_review", "awaiting_customer"}
      /\ o.status \notin {"refund_pending", "cancelled_cod", "ready_for_fulfillment"}
  BY DEF Statuses, Settled
<1>2. DemoPhase(o) = CASE o.status = "processing" -> "open"
                       [] o.status = "manual_review" -> "review"
                       [] o.status = "awaiting_customer" -> "asking"
                       [] OTHER -> "absent"
  BY <1>1 DEF DemoPhase
<1>3. DemoPhase(o) # "refused"
  BY <1>1, <1>2
<1> QED
  BY <1>2, <1>3 DEF DemoFate, DemoAnswer, DemoVerdict, Approved

LEMMA ReadyRow ==
    ASSUME NEW n \in Rows, n.status = "ready_for_fulfillment", Ready(n)
    PROVE  /\ DemoPhase(n) = "shipped" /\ ClearedRow(n)
           /\ DemoVerdict(n) = IF Approved(n) THEN "approve" ELSE "none"
           /\ n.offer.status = "none" => DemoFate(n) = "open" /\ DemoAnswer(n) = "none"
           /\ n.offer.status = "accepted" => DemoFate(n) = "replaced" /\ DemoAnswer(n) = "accept"
           /\ n.offer.status \in {"none", "accepted"}
<1>1. DemoPhase(n) = "shipped"
  BY DEF DemoPhase
<1> QED
  BY <1>1 DEF Ready, DemoVerdict, ClearedRow, DemoFate, DemoAnswer, Approved

LEMMA RefusedRow ==
    ASSUME NEW n \in Rows, n.status \in {"refund_pending", "cancelled_cod"}, Refused(n)
    PROVE  /\ DemoPhase(n) = "refused"
           /\ DemoVerdict(n) = IF Approved(n) THEN "approve"
                               ELSE IF n.risky THEN "reject" ELSE "none"
           /\ DemoFate(n) = IF DemoVerdict(n) = "reject" THEN "open" ELSE "dropped"
           /\ n.offer.status = "none" => DemoAnswer(n) = "none"
           /\ n.offer.status = "rejected" => DemoAnswer(n) = "reject"
           /\ n.offer.status \in {"none", "rejected"}
<1>1. DemoPhase(n) = "refused"
  BY DEF DemoPhase
<1> QED
  BY <1>1 DEF Refused, DemoVerdict, DemoFate, DemoAnswer, Approved

LEMMA InventoriedTurns ==
    ASSUME NEW o \in Rows, NEW r \in Rows, NEW n \in Rows, Fit(n), Inventoried(r, n),
           o.status \in {"processing", "manual_review"}, Fresh(o),
           r.offer.status = "none", r.risky <=> o.risky, r.risky <=> Approved(r),
           o.status = "processing" => ~r.risky
    PROVE  DemoTurns(o, n)
<1>1. /\ DemoFate(o) = "open" /\ DemoAnswer(o) = "none" /\ DemoVerdict(o) = "none"
      /\ DemoPhase(o) = IF o.status = "processing" THEN "open" ELSE "review"
      /\ ~Asked(o)
  <2>1. o.status \in Statuses \ Settled
    BY DEF Statuses, Settled
  <2> QED
    BY <2>1, OpenRow DEF Fresh, Asked
<1>2. /\ n.risky <=> o.risky
      /\ Approved(n) <=> o.risky
      /\ DemoPhase(o) = "open" => ~o.risky
  BY <1>1 DEF Inventoried, Stocked, Offered, Turned, Terms
<1>3. CASE Stocked(r, n)
  <2>1. n.status = "ready_for_fulfillment" /\ Ready(n) /\ n.offer.status = "none"
    BY <1>3 DEF Stocked, Fit
  <2>2. /\ DemoPhase(n) = "shipped" /\ ClearedRow(n) /\ DemoFate(n) = "open"
        /\ DemoVerdict(n) = (IF Approved(n) THEN "approve" ELSE "none")
        /\ DemoAnswer(n) = "none" /\ ~Asked(n)
    BY <2>1, ReadyRow DEF Asked
  <2> QED
    BY <1>1, <1>2, <2>2 DEF DemoTurns, Promise!Turn, Promise!Over
<1>4. CASE Offered(r, n)
  <2>1. n.status = "awaiting_customer" /\ Asking(n)
    BY <1>4 DEF Offered, Fit
  <2>2. n.status \in Statuses \ Settled /\ n.offer.status = "pending"
        /\ n.product = n.original
    BY <2>1 DEF Statuses, Settled, Asking
  <2>3. /\ DemoPhase(n) = "asking" /\ DemoFate(n) = "open" /\ DemoAnswer(n) = "none"
        /\ DemoVerdict(n) = (IF Approved(n) THEN "approve" ELSE "none") /\ Asked(n)
    BY <2>1, <2>2, OpenRow DEF Asked
  <2>4. ClearedRow(n)
    BY <1>2, <2>3 DEF ClearedRow
  <2> QED
    BY <1>1, <1>2, <2>3, <2>4 DEF DemoTurns, Promise!Turn, Promise!Over
<1>5. CASE Turned(r, n)
  <2>1. n.status \in {"refund_pending", "cancelled_cod"} /\ n.offer.status = "none"
    BY <1>5 DEF Turned
  <2>2. Refused(n)
    BY <2>1 DEF Fit, Settled
  <2>3. /\ DemoPhase(n) = "refused" /\ DemoFate(n) = "dropped" /\ DemoAnswer(n) = "none"
        /\ DemoVerdict(n) = (IF Approved(n) THEN "approve" ELSE "none") /\ ~Asked(n)
    BY <1>2, <2>1, <2>2, RefusedRow DEF Asked
  <2>4. ClearedRow(n)
    BY <1>2, <2>3 DEF ClearedRow
  <2> QED
    BY <1>1, <1>2, <2>3, <2>4 DEF DemoTurns, Promise!Turn, Promise!Over
<1> QED
  BY <1>3, <1>4, <1>5 DEF Inventoried

LEMMA CancelledTurns ==
    ASSUME NEW o \in Rows, NEW n \in Rows, Fit(o), Fit(n), Cancelled(o, n),
           o.status \in {"manual_review", "awaiting_customer"}
    PROVE  DemoTurns(o, n)
<1>1. n.status \in {"refund_pending", "cancelled_cod"} /\ Refused(n)
  <2>1. n.status \in {"refund_pending", "cancelled_cod"}
    BY DEF Cancelled
  <2> QED
    BY <2>1 DEF Fit, Settled
<1>2. o.status \in Statuses \ Settled
  BY DEF Statuses, Settled
<1>3. (n.risky <=> o.risky) /\ (Approved(n) <=> Approved(o))
  BY DEF Cancelled, Terms
<1>4. CASE o.status = "manual_review"
  <2>1. Fresh(o) /\ o.risky
    BY <1>4 DEF Fit
  <2>2. /\ DemoFate(o) = "open" /\ DemoAnswer(o) = "none" /\ DemoVerdict(o) = "none"
        /\ DemoPhase(o) = "review" /\ ~Asked(o)
    BY <1>2, <1>4, <2>1, OpenRow DEF Fresh, Asked
  <2>3. n.offer.status = "none"
    BY <2>1 DEF Cancelled, Fresh
  <2>4. ~Approved(n) /\ n.risky
    BY <1>3, <2>1 DEF Fresh
  <2>5. /\ DemoPhase(n) = "refused" /\ DemoVerdict(n) = "reject" /\ DemoFate(n) = "open"
        /\ DemoAnswer(n) = "none" /\ ~Asked(n)
    BY <1>1, <2>3, <2>4, RefusedRow DEF Asked
  <2> QED
    BY <1>3, <2>2, <2>5 DEF DemoTurns, Promise!Turn, Promise!Over
<1>5. CASE o.status = "awaiting_customer"
  <2>1. Asking(o) /\ (Approved(o) => o.risky)
    BY <1>5 DEF Fit
  <2>2. /\ DemoFate(o) = "open" /\ DemoAnswer(o) = "none" /\ DemoPhase(o) = "asking"
        /\ DemoVerdict(o) = (IF Approved(o) THEN "approve" ELSE "none") /\ Asked(o)
    BY <1>2, <1>5, <2>1, OpenRow DEF Asking, Asked
  <2>3. n.offer.status = "rejected"
    BY <2>1 DEF Cancelled, Asking
  <2>4. o.risky <=> Approved(o)
    BY <2>1 DEF Asking
  <2>5. /\ DemoPhase(n) = "refused" /\ DemoFate(n) = "dropped" /\ DemoAnswer(n) = "reject"
        /\ DemoVerdict(n) = (IF Approved(n) THEN "approve" ELSE "none") /\ Asked(n)
    BY <1>1, <1>3, <2>3, <2>4, RefusedRow DEF Asked
  <2>6. ClearedRow(n)
    BY <1>3, <2>4, <2>5 DEF ClearedRow
  <2> QED
    BY <1>3, <2>2, <2>5, <2>6 DEF DemoTurns, Promise!Turn, Promise!Over
<1> QED
  BY <1>4, <1>5

LEMMA AgreedTurns ==
    ASSUME NEW o \in Rows, NEW n \in Rows, Fit(o), Fit(n), Agreed(o, n),
           o.status = "awaiting_customer"
    PROVE  DemoTurns(o, n)
<1>1. n.status = "ready_for_fulfillment" /\ Ready(n) /\ n.offer.status = "accepted"
  BY DEF Agreed, Fit
<1>2. o.status \in Statuses \ Settled /\ Asking(o)
  BY DEF Statuses, Settled, Fit
<1>3. (n.risky <=> o.risky) /\ (Approved(n) <=> Approved(o))
  BY DEF Agreed, Terms
<1>4. /\ DemoFate(o) = "open" /\ DemoAnswer(o) = "none" /\ DemoPhase(o) = "asking"
      /\ DemoVerdict(o) = (IF Approved(o) THEN "approve" ELSE "none") /\ Asked(o)
  BY <1>2, OpenRow DEF Asking, Asked
<1>5. /\ DemoPhase(n) = "shipped" /\ ClearedRow(n) /\ DemoFate(n) = "replaced"
      /\ DemoVerdict(n) = (IF Approved(n) THEN "approve" ELSE "none")
      /\ DemoAnswer(n) = "accept" /\ Asked(n)
  BY <1>1, ReadyRow DEF Asked
<1> QED
  BY <1>3, <1>4, <1>5 DEF DemoTurns, Promise!Turn, Promise!Over

LEMMA ChangedTurns ==
    ASSUME NEW s \in Stores, NEW i \in Ids, NEW o, o = s.orders[i], NEW n \in Rows,
           Fit(o), Changed(o, n)
    PROVE  DemoTurns(o, n)
<1>0. o \in Rows /\ Fit(n)
  BY ChangedFits DEF Stores
<1>1. CASE Created(o, n)
  <2>1. o.status = "absent" /\ Fresh(o) /\ n.status = "processing" /\ Fresh(n)
    BY <1>1 DEF Created, Fit
  <2>2. o.status \in Statuses \ Settled /\ n.status \in Statuses \ Settled
    BY <2>1 DEF Statuses, Settled
  <2>3. /\ DemoFate(o) = "open" /\ DemoAnswer(o) = "none" /\ DemoPhase(o) = "absent"
        /\ DemoVerdict(o) = "none" /\ ~Asked(o)
    BY <1>0, <2>1, <2>2, OpenRow DEF Fresh, Asked
  <2>4. /\ DemoFate(n) = "open" /\ DemoAnswer(n) = "none" /\ DemoPhase(n) = "open"
        /\ DemoVerdict(n) = "none" /\ ~Asked(n)
    BY <2>1, <2>2, OpenRow DEF Fresh, Asked
  <2> QED
    BY <2>3, <2>4 DEF DemoTurns, Promise!Turn, Promise!Over
<1>2. CASE o.status = "processing" /\ o.risky /\ Reviewed(o, n)
  <2>1. /\ Terms(o, n) /\ n.status = "manual_review" /\ n.offer = o.offer
        /\ (Approved(n) <=> Approved(o)) /\ n.product = o.product
    BY <1>2, ReviewIs
  <2>2. Fresh(o)
    BY <1>2 DEF Fit
  <2>3. o.status \in Statuses \ Settled /\ n.status \in Statuses \ Settled
    BY <1>2, <2>1 DEF Statuses, Settled
  <2>4. /\ DemoFate(o) = "open" /\ DemoAnswer(o) = "none" /\ DemoPhase(o) = "open"
        /\ DemoVerdict(o) = "none" /\ ~Asked(o)
    BY <1>0, <1>2, <2>2, <2>3, OpenRow DEF Fresh, Asked
  <2>5. n.offer.status = "none" /\ n.product = n.original /\ ~Approved(n) /\ n.risky
    BY <1>2, <2>1, <2>2 DEF Fresh, Terms
  <2>6. /\ DemoFate(n) = "open" /\ DemoAnswer(n) = "none" /\ DemoPhase(n) = "review"
        /\ DemoVerdict(n) = "none" /\ ~Asked(n)
    BY <2>1, <2>3, <2>5, OpenRow DEF Asked
  <2> QED
    BY <1>2, <2>4, <2>5, <2>6 DEF DemoTurns, Promise!Turn, Promise!Over
<1>3. CASE o.status = "processing" /\ ~o.risky /\ Inventoried(o, n)
  <2>1. Fresh(o)
    BY <1>3 DEF Fit
  <2> QED
    BY <1>0, <1>3, <2>1, InventoriedTurns DEF Fresh
<1>4. CASE o.status = "manual_review" /\ \E r \in Rows : Passed(o, r) /\ Inventoried(r, n)
  <2>1. PICK r \in Rows : Passed(o, r) /\ Inventoried(r, n)
    BY <1>4
  <2>2. Fresh(o) /\ o.risky
    BY <1>4 DEF Fit
  <2>3. "approved" \in Kinds /\ r = Logged(o, "approved")
    BY <2>1 DEF Kinds, Passed
  <2>4. Terms(o, r) /\ r.offer = o.offer /\ Approved(r)
    BY ONLY <1>0, <2>3, LoggedIs
  <2>5. r.offer.status = "none" /\ r.risky
    BY <2>2, <2>4 DEF Fresh, Terms
  <2> QED
    BY <1>0, <1>4, <2>1, <2>2, <2>4, <2>5, InventoriedTurns
<1>5. CASE o.status \in {"manual_review", "awaiting_customer"} /\ Cancelled(o, n)
  BY <1>0, <1>5, CancelledTurns
<1>6. CASE o.status = "awaiting_customer" /\ Agreed(o, n)
  BY <1>0, <1>6, AgreedTurns
<1> QED
  BY <1>1, <1>2, <1>3, <1>4, <1>5, <1>6 DEF Changed, Clicked

\* What an order shows of its past.
LEMMA FitSound ==
    ASSUME NEW o \in Rows, Fit(o)
    PROVE  /\ DemoPhase(o) \in Promise!Phases /\ DemoVerdict(o) \in Promise!Verdicts
           /\ DemoAnswer(o) \in Promise!DealAnswers /\ DemoFate(o) \in Promise!Fates
           /\ DemoFate(o) = "replaced" => Asked(o) /\ DemoAnswer(o) = "accept"
           /\ DemoFate(o) = "dropped" /\ Asked(o) => DemoAnswer(o) = "reject"
           /\ ~Asked(o) => DemoAnswer(o) = "none"
           /\ Asked(o) => DemoPhase(o) \in {"asking"} \cup Promise!Over
           /\ DemoPhase(o) = "absent" \/ ~ClearedRow(o) => ~Asked(o) /\ DemoFate(o) = "open"
           /\ DemoPhase(o) = "review" \/ DemoVerdict(o) # "none" => o.risky
           /\ DemoPhase(o) = "absent" => DemoVerdict(o) = "none"
           /\ DemoPhase(o) = "shipped" => ClearedRow(o)
           /\ DemoPhase(o) \in Promise!Over /\ Asked(o) => DemoFate(o) # "open"
<1>1. o.status \in Statuses
  BY DEF Rows
<1>2. CASE o.status \in {"absent", "processing", "manual_review", "awaiting_customer"}
  <2>1. o.status \in Statuses \ Settled
    BY <1>2 DEF Statuses, Settled
  <2>2. /\ o.product = o.original /\ o.offer.status \in {"none", "pending"}
        /\ Approved(o) => o.risky
        /\ o.offer.status = "pending" => o.status = "awaiting_customer"
        /\ o.status = "awaiting_customer" => o.offer.status = "pending" /\ (o.risky => Approved(o))
        /\ o.status # "awaiting_customer" => ~Approved(o)
        /\ o.status = "manual_review" => o.risky
    BY <1>2 DEF Fit, Fresh, Asking
  <2>3. /\ DemoFate(o) = "open" /\ DemoAnswer(o) = "none"
        /\ DemoVerdict(o) = IF Approved(o) THEN "approve" ELSE "none"
        /\ DemoPhase(o) = CASE o.status = "processing" -> "open"
                            [] o.status = "manual_review" -> "review"
                            [] o.status = "awaiting_customer" -> "asking"
                            [] OTHER -> "absent"
    BY <2>1, <2>2, OpenRow
  <2> QED
    BY <1>2, <2>2, <2>3 DEF Asked, ClearedRow, Promise!Phases, Promise!Verdicts,
       Promise!DealAnswers, Promise!Fates, Promise!Over
<1>3. CASE o.status = "ready_for_fulfillment"
  <2>1. Ready(o) /\ (Approved(o) => o.risky)
    BY <1>3 DEF Fit
  <2>2. /\ DemoPhase(o) = "shipped" /\ ClearedRow(o)
        /\ DemoVerdict(o) = IF Approved(o) THEN "approve" ELSE "none"
        /\ o.offer.status = "none" => DemoFate(o) = "open" /\ DemoAnswer(o) = "none"
        /\ o.offer.status = "accepted" => DemoFate(o) = "replaced" /\ DemoAnswer(o) = "accept"
        /\ o.offer.status \in {"none", "accepted"}
    BY <1>3, <2>1, ReadyRow
  <2> QED
    BY <2>1, <2>2 DEF Asked, Promise!Phases, Promise!Verdicts,
       Promise!DealAnswers, Promise!Fates, Promise!Over
<1>4. CASE o.status \in {"refund_pending", "cancelled_cod"}
  <2>1. Refused(o) /\ (Approved(o) => o.risky)
    BY <1>4 DEF Fit, Settled
  <2>2. /\ DemoPhase(o) = "refused"
        /\ DemoVerdict(o) = IF Approved(o) THEN "approve"
                            ELSE IF o.risky THEN "reject" ELSE "none"
        /\ DemoFate(o) = IF DemoVerdict(o) = "reject" THEN "open" ELSE "dropped"
        /\ o.offer.status = "none" => DemoAnswer(o) = "none"
        /\ o.offer.status = "rejected" => DemoAnswer(o) = "reject"
        /\ o.offer.status \in {"none", "rejected"}
        /\ o.risky /\ ~Approved(o) => o.offer.status = "none"
    BY <1>4, <2>1, RefusedRow DEF Refused
  <2> QED
    BY <2>1, <2>2 DEF Asked, ClearedRow, Promise!Phases, Promise!Verdicts,
       Promise!DealAnswers, Promise!Fates, Promise!Over
<1> QED
  BY <1>1, <1>2, <1>3, <1>4 DEF Statuses, Settled

LEMMA DemoSound == DemoInv => Promise!Sound
<1> SUFFICES ASSUME DemoInv PROVE Promise!Sound
  OBVIOUS
<1>1. ASSUME NEW i \in Current PROVE orders[i] \in Rows /\ Fit(orders[i])
  BY IdsFacts DEF DemoInv, Rowwise, Stores, store
<1>2. Promise!LifecycleType
  BY <1>1, FitSound DEF Promise!LifecycleType
<1>3. ASSUME NEW i \in Current PROVE Promise!SoundLine(i)
  <2>1. orders[i] \in Rows /\ Fit(orders[i])
    BY <1>1
  <2> QED
    BY <2>1, FitSound DEF Promise!SoundLine, Asked, ClearedRow
<1>4. ASSUME NEW i \in Current PROVE Promise!SoundOrder(i)
  <2>1. orders[i] \in Rows /\ Fit(orders[i])
    BY <1>1
  <2> QED
    BY <2>1, FitSound DEF Promise!SoundOrder, Promise!OfOrder, Asked, ClearedRow
<1> QED
  BY <1>2, <1>3, <1>4 DEF Promise!Sound

LEMMA DemoPromiseStep ==
    ASSUME DemoInv', NEW i \in Current, DemoTurns(orders[i], orders'[i]),
           \A j \in Current \ {i} : orders'[j] = orders[j]
    PROVE  Promise!LifecycleNext
<1> DEFINE o == orders[i]
           n == orders'[i]
<1>1. Promise!LifecycleType'
  <2>1. Promise!Sound'
    BY DemoSound, PTL
  <2> QED
    BY <2>1 DEF Promise!Sound
<1>2. Promise!OfOrder(i) = {i} /\ Current \ Promise!OfOrder(i) = Current \ {i}
  BY DEF Promise!OfOrder
<1>3. Promise!Cleared(i) <=> ClearedRow(n)
  BY DEF Promise!Cleared, ClearedRow
<1>4. Promise!Advances(i)
  <2>1. Promise!AuditorSpeaksOnce(i)
    BY DEF DemoTurns, Promise!AuditorSpeaksOnce
  <2>2. DemoPhase(n) = "shipped" => Promise!ShipsRight(i)
    BY <1>2, <1>3 DEF DemoTurns, Promise!ShipsRight, Asked
  <2>3. DemoPhase(n) = "refused" => Promise!RefusedRight(i)
    BY <1>2 DEF DemoTurns, Promise!RefusedRight
  <2> QED
    BY <2>1, <2>2, <2>3 DEF DemoTurns, Promise!Advances
<1>5. Promise!OfferedOnce(i) /\ Promise!AnsweredOnce(i) /\ Promise!Consent(i)
  BY <1>3 DEF DemoTurns, Promise!OfferedOnce, Promise!AnsweredOnce, Promise!Consent, Asked
<1>6. \A j \in Current \ {i} : Promise!Same(j) /\ Promise!SameLine(j)
  BY DEF Promise!Same, Promise!SameLine
<1>7. DemoPhase(o) \notin Promise!Over
  BY DEF DemoTurns
<1>8. Promise!Step(i)
  BY <1>2, <1>4, <1>5, <1>6, <1>7 DEF Promise!Step
<1> QED
  BY <1>1, <1>8 DEF Promise!LifecycleNext

\* The sample shop reviews before it touches stock, asks before it replaces and takes
\* the first answer, as OrderLifecycle promises of the real one.
THEOREM DemoPromise == Demo => DemoKeepsPromise
<1>1. DemoInit => Promise!Sound
  BY InitRows, InitConserved, DemoSound DEF DemoInv
<1>2. ASSUME DemoInv, DemoInv', [DemoNext]_<<stock, orders>>
      PROVE  [Promise!LifecycleNext]_(Promise!lifecycle)
  <2>1. CASE UNCHANGED <<stock, orders>>
    BY <2>1 DEF Promise!lifecycle, Promise!ofOrders, Promise!ofLines
  <2>2. CASE ~UNCHANGED <<stock, orders>>
    <3>1. PICK i \in Current : Moved(store, store', i) /\ Changed(orders[i], orders'[i])
      BY <1>2, <2>2, NextIs DEF DemoInv
    <3>2. store.orders = orders /\ store'.orders = orders' /\ i \in Ids
      BY IdsFacts DEF store
    <3>3. /\ store \in Stores /\ Fit(orders[i]) /\ orders'[i] \in Rows
      BY <1>2, <3>1, <3>2 DEF DemoInv, Rowwise, Moved, Stores
    <3>4. DemoTurns(orders[i], orders'[i])
      BY <3>1, <3>2, <3>3, ChangedTurns
    <3>5. \A j \in Current \ {i} : orders'[j] = orders[j]
      BY <3>1, <3>2, IdsFacts DEF Moved
    <3> QED
      BY <1>2, <3>4, <3>5, DemoPromiseStep
  <2> QED
    BY <2>1, <2>2
<1> QED
  BY <1>1, <1>2, DemoSafety, PTL DEF Demo, DemoKeepsPromise

=============================================================================
