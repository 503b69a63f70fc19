------------------------------ MODULE DemoStore -------------------------------
(***************************************************************************)
(* The sample shop of the dashboard's demo mode (demo.js and the demo half *)
(* of create and act in App.jsx): an imitation of the workflow that runs   *)
(* in the browser, on 25 sample orders and those its user adds.  As in the *)
(* code, a transition is a function from the store to the next one.        *)
(***************************************************************************)
EXTENDS Integers, FiniteSetsExt

CONSTANTS MaxNew,       \* bound: orders the user adds
          Quantities,   \* bound: quantities the user orders
          Ordered       \* bound: products the user orders

\* [group, price, stock] of every product, in the order of its id.
catalog ==
    LET tea == "tea-450"  oil == "oil-1"  masala == "biryani-50"
        P(group, price, stock) == [group |-> group, price |-> price, stock |-> stock]
    IN  << P(tea, 100000, 0), P(tea, 98000, 20), P(oil, 60000, 18),
           P(oil, 59000, 0), P("rice-1", 35000, 0), P(masala, 15000, 24),
           P(masala, 14500, 0), P("ketchup-500", 32000, 15),
           P("mayo-500", 45000, 12), P("flour-5", 65000, 22) >>

Products == DOMAIN catalog
Price == [p \in Products |-> catalog[p].price]

\* create sends no preferred brand, so brands play no part.
Rules == INSTANCE DemoRules WITH
    Group <- [p \in Products |-> catalog[p].group],
    Brand <- [p \in Products |-> "any"],
    DiscountBps <- 500

ASSUME DemoAssumption ==
    /\ MaxNew \in Nat
    /\ Quantities \subseteq 1..100
    /\ Ordered \subseteq Products

Sample == 0..24
New == 25..(24 + MaxNew)
Ids == Sample \cup New

VARIABLES stock, orders
store == [stock |-> stock, orders |-> orders]

-----------------------------------------------------------------------------
Settled == {"ready_for_fulfillment", "refund_pending", "cancelled_cod"}

NoOffer == [status |-> "none", product |-> 0, price |-> 0, held |-> FALSE]

\* An order has one line; `log' has the kinds of its events ("approved" is the
\* audit event of an approval), `refund' the paisa they promise to pay back.
Order(status, product, quantity, method, risky) ==
    [status |-> status, product |-> product, original |-> product,
     quantity |-> quantity, price |-> Price[product], reserved |-> FALSE,
     method |-> method, risky |-> risky, shortage |-> FALSE, recovered |-> FALSE,
     total |-> Price[product] * quantity, final |-> Price[product] * quantity,
     offer |-> NoOffer, log |-> {}, refund |-> 0]

Absent == [Order("absent", 1, 1, "prepaid", FALSE) EXCEPT !.total = 0, !.final = 0]

\* initialDemo
Awaiting == {6, 11, 16}
Recovered == {1, 8, 14, 19}

SampleStatus(i) == CASE i \in Awaiting -> "awaiting_customer"
                     [] i = 4 -> "manual_review"
                     [] i \in {3, 10} -> "refund_pending"
                     [] OTHER -> "ready_for_fulfillment"

SampleOrder(i) ==
    LET status == SampleStatus(i)
        quantity == (i % 3) + 1
        product == IF i \in Awaiting THEN 1 ELSE <<3, 6, 8, 9, 10>>[(i % 5) + 1]
        o == [Order(status, product, quantity, "prepaid", i = 4) EXCEPT
                !.shortage = status \in {"awaiting_customer", "refund_pending"}]
    IN  CASE i \in Awaiting ->
               [o EXCEPT !.offer = [status |-> "pending", product |-> 2,
                                    price |-> 93100, held |-> TRUE]]
          [] i \in Recovered ->
               [o EXCEPT !.shortage = TRUE, !.recovered = TRUE,
                         !.original = 1, !.product = 2, !.price = 93100,
                         !.total = 100000 * quantity, !.final = 93100 * quantity]
          [] OTHER -> o

initialDemo ==
    [orders |-> [i \in Ids |-> IF i \in Sample THEN SampleOrder(i) ELSE Absent],
     stock |-> [p \in Products |->
                  catalog[p].stock
                  - IF p = 2 THEN MapThenSumSet(LAMBDA i : (i % 3) + 1, Awaiting) ELSE 0]]

DemoInit == stock = initialDemo.stock /\ orders = initialDemo.orders

-----------------------------------------------------------------------------
(* transition: what each action makes of the store s, for the order i. *)

Logged(o, kind) == [o EXCEPT !.log = @ \cup {kind}]
With(s, i, o) == [s EXCEPT !.orders[i] = o]
Return(s, p, n) == [s EXCEPT !.stock[p] = @ + n]
Take(s, p, n) == [s EXCEPT !.stock[p] = @ - n]

\* release: gives back what the order has reserved and what its offer holds.
Release(s, i) ==
    LET o == s.orders[i]
        t == IF o.reserved THEN Return(s, o.product, o.quantity) ELSE s
        u == IF o.offer.held THEN Return(t, o.offer.product, o.quantity) ELSE t
    IN  With(u, i, [o EXCEPT !.reserved = FALSE, !.offer.held = FALSE,
                             !.offer.status = IF o.offer.held THEN "rejected" ELSE @])

Cancel(s, i) ==
    LET t == Release(s, i)
        o == t.orders[i]
        back == [o EXCEPT !.status = "refund_pending", !.refund = @ + o.total]
    IN  With(t, i, IF o.method = "prepaid" THEN Logged(back, "refund_request")
                   ELSE Logged([o EXCEPT !.status = "cancelled_cod"], "cancel_cod"))

\* Mutant: the difference is paid back whatever the payment method.
FulfillPaysCod(s, i) ==
    LET o == s.orders[i]
        final == o.price * o.quantity
    IN  With(s, i, [o EXCEPT !.status = "ready_for_fulfillment",
                             !.recovered = o.shortage, !.final = final,
                             !.refund = @ + o.total - final])

Fulfill(s, i) ==
    LET o == s.orders[i]
        final == o.price * o.quantity
        done == Logged([o EXCEPT !.status = "ready_for_fulfillment",
                                 !.recovered = o.shortage, !.final = final],
                       "fulfillment")
    IN  With(s, i, IF o.method = "prepaid" /\ final < o.total
                   THEN Logged([done EXCEPT !.refund = @ + o.total - final],
                               "partial_refund_request")
                   ELSE done)

\* The first candidate is offered and its stock held; without one the order is
\* cancelled.
OfferOrCancel(s, i) ==
    LET o == s.orders[i]
        short == [o EXCEPT !.shortage = TRUE]
        found == Rules!DemoAlternative(s.stock, o.product, o.quantity, o.price)
        a == CHOOSE p \in found : TRUE
        deal == [status |-> "pending", product |-> a,
                 price |-> Rules!DemoPrice(Price[a]), held |-> TRUE]
    IN  IF found = {} THEN Cancel(With(s, i, Logged(short, "inventory")), i)
        ELSE With(Take(s, a, o.quantity), i,
                  Logged([short EXCEPT !.status = "awaiting_customer",
                                       !.offer = deal], "offer_email"))

\* Mutant: stock is taken without looking.
InventoryUnchecked(s, i) ==
    LET o == s.orders[i]
    IN  Fulfill(With(Take(s, o.product, o.quantity), i,
                     [o EXCEPT !.reserved = TRUE]), i)

Inventory(s, i) ==
    LET o == s.orders[i] IN
    IF s.stock[o.product] >= o.quantity
    THEN Fulfill(With(Take(s, o.product, o.quantity), i,
                      [o EXCEPT !.reserved = TRUE]), i)
    ELSE OfferOrCancel(s, i)

\* Mutant: the risk is not looked at.
ProcessUnreviewed(s, i) == Inventory(s, i)

Process(s, i) ==
    LET o == s.orders[i] IN
    IF o.risky THEN With(s, i, Logged([o EXCEPT !.status = "manual_review"], "audit"))
               ELSE Inventory(s, i)

Approve(s, i) == Inventory(With(s, i, Logged(s.orders[i], "approved")), i)

\* Mutant: the hold of an accepted offer is given back too.
AcceptReleases(s, i) ==
    LET o == s.orders[i]
        agreed == [o EXCEPT !.product = o.offer.product, !.price = o.offer.price,
                            !.reserved = TRUE, !.offer.held = FALSE,
                            !.offer.status = "accepted"]
    IN  Fulfill(With(Return(s, o.offer.product, o.quantity), i,
                     Logged(agreed, "approval")), i)

Accept(s, i) ==
    LET o == s.orders[i]
        agreed == [o EXCEPT !.product = o.offer.product, !.price = o.offer.price,
                            !.reserved = TRUE, !.offer.held = FALSE,
                            !.offer.status = "accepted"]
    IN  IF o.offer.status # "pending" THEN s
        ELSE Fulfill(With(s, i, Logged(agreed, "approval")), i)

transition(s, i, type) ==
    LET is(status) == s.orders[i].status = status IN
    CASE type = "process" /\ is("processing") -> Process(s, i)
      [] type = "approve" /\ is("manual_review") -> Approve(s, i)
      [] type = "reject" /\ (is("manual_review") \/ is("awaiting_customer")) -> Cancel(s, i)
      [] type = "accept" /\ is("awaiting_customer") -> Accept(s, i)
      [] OTHER -> s

-----------------------------------------------------------------------------
Count(status) == Cardinality({i \in Ids : orders[i].status = status})
\* Mutant: every order that was short counts as recovered.
metricsOfShortages ==
    [orders |-> Cardinality({i \in Ids : orders[i].status # "absent"}),
     ready |-> Count("ready_for_fulfillment"),
     refunds |-> Count("refund_pending"),
     recovered |-> MapThenSumSet(LAMBDA i : orders[i].final,
                                 {i \in Ids : orders[i].shortage})]

\* metricsFor, of the four cards.
metrics ==
    [orders |-> Cardinality({i \in Ids : orders[i].status # "absent"}),
     ready |-> Count("ready_for_fulfillment"),
     refunds |-> Count("refund_pending"),
     recovered |-> MapThenSumSet(LAMBDA i : orders[i].final,
                                 {i \in Ids : orders[i].recovered})]

Become(s) == stock' = s.stock /\ orders' = s.orders

\* create in demo mode adds an order in front; its timer processes it later.
AddOrder(i, o) ==
    /\ \A j \in New : orders[j].status = "absent" => i <= j
    /\ orders[i].status = "absent"
    /\ Become(With(store, i, Logged(o, "intake")))

Create ==
    \E i \in New, p \in Ordered, n \in Quantities, method \in {"prepaid", "cod"},
       risky \in BOOLEAN : AddOrder(i, Order("processing", p, n, method, risky))

\* The timer of create, and the buttons of the order's dialog: accept and reject
\* while an offer is pending, approve and reject in review.
Buttons(i) == CASE orders[i].status = "processing" -> {"process"}
                [] orders[i].offer.status = "pending" -> {"accept", "reject"}
                [] orders[i].status = "manual_review" -> {"approve", "reject"}
                [] OTHER -> {}

Act(i) == \E type \in Buttons(i) : Become(transition(store, i, type))

DemoNext == Create \/ \E i \in Ids : Act(i)

Demo == DemoInit /\ [][DemoNext]_<<stock, orders>>
=============================================================================
