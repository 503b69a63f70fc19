------------------------------ MODULE Services ------------------------------
(***************************************************************************)
(* The database rows of OrderOps and the transactions of app/services.py.  *)
(* Every operator with primed variables is one `with SessionLocal.begin()` *)
(* block: it holds the order row (and the catalogue, where it touches      *)
(* stock) for its whole duration, so it is one step.                       *)
(*                                                                         *)
(* A line has at most one offer (offers.line_id is unique), so offers are  *)
(* keyed by line and the graph's offer_id is its missing_line.  Sums of    *)
(* money the code stores per order are kept per line: final_total_paisa of *)
(* an order is the sum of `bill' over its lines, the amounts of its refund *)
(* events add up to the sum of `refund' over its lines.                    *)
(***************************************************************************)
EXTENDS Policy, FiniteSetsExt

CONSTANTS Orders,
          NLines,       \* how many order lines the orders have together
          OrderOf,      \* the order a line belongs to
          Item,         \* original_product_id of a line
          Qty,          \* quantity of a line
          MaxQty,       \* the largest quantity (LineInput allows 100)
          Liked,        \* preferred_brands of an order
          InitStock,    \* the stock when the first order arrives
          AgentMode     \* settings.agent_mode: "rules" or "ollama"

Lines == 1..NLines      \* order_lines.id, an autoincremented key
NoLine == 0

ASSUME OrderAssumption ==
    /\ NLines \in Nat
    /\ OrderOf \in [Lines -> Orders]
    /\ Item \in [Lines -> Products]
    /\ MaxQty \in Nat /\ Qty \in [Lines -> 1..MaxQty]
    /\ DOMAIN Liked = Orders
    /\ InitStock \in [Products -> Nat]
    /\ AgentMode \in {"rules", "ollama"}

\* OrderInput.unique_products, and by_product in the webhook: no order has
\* two lines with one product.
ASSUME UniqueProducts ==
    \A k, l \in Lines : OrderOf[k] = OrderOf[l] /\ Item[k] = Item[l] => k = l

VARIABLES stock,     \* products.stock
          order,     \* rows of orders
          line,      \* rows of order_lines
          offer,     \* rows of offers, by line
          outbox,    \* the event_keys in outbox
          refund,    \* per line: paisa that outbox events promise to pay back
          bill,      \* per line: its share of final_total_paisa
          shipped    \* lines in the payload of a fulfillment event

db == <<stock, order, line, offer, outbox, refund, bill, shipped>>

-----------------------------------------------------------------------------
Statuses == {"absent", "received", "manual_review", "awaiting_customer",
             "ready_for_fulfillment", "refund_pending", "cancelled_cod"}
Refused == {"refund_pending", "cancelled_cod"}
Settled == Refused \cup {"ready_for_fulfillment"}

OrderRow == [status : Statuses, high : BOOLEAN, method : {"prepaid", "cod"},
             manual : {"none", "approve", "reject"}, shortage : BOOLEAN,
             recovered : BOOLEAN, acted : BOOLEAN]
LineRow == [product : Products \cup {NoProduct}, price : Nat,
            reserved : BOOLEAN, dropped : BOOLEAN]
OfferRow == [status : {"none", "pending", "accepted", "accept", "reject",
                       "expired", "cancelled"},
             product : Products \cup {NoProduct}, price : Nat,
             decision : {"none", "accept", "reject", "expired"},
             held : BOOLEAN, due : BOOLEAN]
Events == ({"confirm", "cancel", "fulfill", "adjustment", "customer_cancel"}
              \X Orders)
          \cup ({"offer", "line_drop"} \X Lines)

NoOrder == [status |-> "absent", high |-> FALSE, method |-> "cod",
            manual |-> "none", shortage |-> FALSE, recovered |-> FALSE,
            acted |-> FALSE]
NoRow == [product |-> NoProduct, price |-> 0,
          reserved |-> FALSE, dropped |-> FALSE]
NoOffer == [status |-> "none", product |-> NoProduct, price |-> 0,
            decision |-> "none", held |-> FALSE, due |-> FALSE]

ServicesInit ==
    /\ stock = InitStock
    /\ order = [o \in Orders |-> NoOrder]
    /\ line = [l \in Lines |-> NoRow]
    /\ offer = [l \in Lines |-> NoOffer]
    /\ outbox = {}
    /\ refund = [l \in Lines |-> 0]
    /\ bill = [l \in Lines |-> 0]
    /\ shipped = {}

-----------------------------------------------------------------------------
Placed(o) == order[o].status # "absent"
LinesOf(o) == {l \in Lines : OrderOf[l] = o}
Active(o) == {l \in LinesOf(o) : ~line[l].dropped}

\* Mutant: inventory does not skip the lines that were dropped.
WantedDropped(o) == {l \in LinesOf(o) : ~line[l].reserved}

\* The lines inventory takes stock for.
Wanted(o) == {l \in Active(o) : ~line[l].reserved}

Original(l) == Price[Item[l]] * Qty[l]

\* The units of a set of lines: the sum of their quantities.
Units(S) == Cardinality({u \in S \X (1..MaxQty) : u[2] <= Qty[u[1]]})

ReservedUnits(p, S) == Units({l \in S : line[l].reserved /\ line[l].product = p})
HeldUnits(p, S) == Units({l \in S : offer[l].held /\ offer[l].product = p})

\* The status a refused order ends in.
RefusedStatus(o) == IF order[o].method = "prepaid" THEN "refund_pending"
                                                   ELSE "cancelled_cod"

\* Adds amount(l) to what is paid back for the lines S of a prepaid order;
\* events of a cash-on-delivery order carry no amount.
PayBack(o, S, amount(_)) ==
    refund' = [l \in Lines |-> IF l \in S /\ order[o].method = "prepaid"
                               THEN refund[l] + amount(l) ELSE refund[l]]

-----------------------------------------------------------------------------
\* _place_order on a new external_id: the order row, its lines with the
\* catalogue's prices, the confirmation event (the job row is in Workflow).
PlaceOrder(o) ==
    /\ order[o].status = "absent"
    /\ \E high \in BOOLEAN, method \in {"prepaid", "cod"} :
          order' = [order EXCEPT ![o].status = "received",
                                 ![o].high = high, ![o].method = method]
    /\ line' = [l \in Lines |->
                  IF OrderOf[l] = o
                  THEN [NoRow EXCEPT !.product = Item[l],
                                     !.price = Price[Item[l]]]
                  ELSE line[l]]
    /\ bill' = [l \in Lines |-> IF OrderOf[l] = o THEN Original(l) ELSE bill[l]]
    /\ outbox' = outbox \cup {<<"confirm", o>>}
    /\ UNCHANGED <<stock, offer, refund, shipped>>

FlagAudit(o) ==
    /\ order' = [order EXCEPT ![o].status = "manual_review"]
    /\ UNCHANGED <<stock, line, offer, outbox, refund, bill, shipped>>

\* Mutant: inventory reserves without comparing the stock.
TakesUnchecked(o, got) == got = Wanted(o)

\* The loop of inventory takes the lines in the order of their ids, and each
\* sees the stock the ones before it left: `got' are those that found enough.
FirstComeFirstServed(o, got) ==
    \A l \in Wanted(o) :
       LET before == {k \in got : k < l /\ line[k].product = line[l].product}
       IN  l \in got <=> stock[line[l].product] >= Units(before) + Qty[l]

Inventory(o, got) ==
    /\ FirstComeFirstServed(o, got)
    /\ stock' = [p \in Products |->
                   stock[p] - Units({l \in got : line[l].product = p})]
    /\ line' = [l \in Lines |-> IF l \in got
                                THEN [line[l] EXCEPT !.reserved = TRUE]
                                ELSE line[l]]
    /\ order' = [order EXCEPT ![o].shortage = @ \/ got # Wanted(o)]
    /\ UNCHANGED <<offer, outbox, refund, bill, shipped>>

\* The hint was computed before the locks were taken, from stock that may be
\* stale by now: it is any answer the model can give.
Hints == IF AgentMode = "ollama" THEN Products \cup {NoProduct} ELSE {NoProduct}

Replacement(o, l, hint) ==
    Alternative(stock, Item[l], Qty[l], line[l].price, Liked[o], hint)

\* Mutant: the offer is written at the list price.
NewOfferAtListPrice(p) ==
    [NoOffer EXCEPT !.status = "pending", !.product = p, !.held = TRUE,
                    !.price = Price[p]]

NewOffer(p) ==
    [NoOffer EXCEPT !.status = "pending", !.product = p, !.held = TRUE,
                    !.price = OfferPrice(Price[p])]

\* Mutant: the offer is written without taking its stock.
HoldNothing(l, p) == stock' = stock

Hold(l, p) == stock' = [stock EXCEPT ![p] = @ - Qty[l]]

\* create_offer: an existing offer is returned as it is, no alternative is no
\* offer, otherwise stock is held and the customer is asked.
CreateOffer(o, l, hint) ==
    \/ /\ offer[l].status # "none" \/ Replacement(o, l, hint) = {}
       /\ UNCHANGED db
    \/ /\ offer[l].status = "none"
       /\ \E p \in Replacement(o, l, hint) :
             /\ offer' = [offer EXCEPT ![l] = NewOffer(p)]
             /\ Hold(l, p)
       /\ order' = [order EXCEPT ![o].status = "awaiting_customer",
                                 ![o].acted = TRUE]
       /\ outbox' = outbox \cup {<<"offer", l>>}
       /\ UNCHANGED <<line, refund, bill, shipped>>

\* apply_offer raises unless the offer was applied already or may be now.
CanApply(l) == offer[l].status = "accepted"
               \/ (offer[l].decision = "accept" /\ offer[l].held)

ApplyOffer(o, l) ==
    \/ /\ offer[l].status = "accepted"
       /\ UNCHANGED db
    \/ /\ offer[l].status # "accepted"
       /\ offer[l].decision = "accept" /\ offer[l].held
       /\ line' = [line EXCEPT ![l].product = offer[l].product,
                               ![l].price = offer[l].price,
                               ![l].reserved = TRUE]
       /\ offer' = [offer EXCEPT ![l].held = FALSE, ![l].status = "accepted"]
       /\ bill' = [k \in Lines |-> IF OrderOf[k] = o
                                   THEN Qty[k] * line'[k].price ELSE bill[k]]
       /\ UNCHANGED <<stock, order, outbox, refund, shipped>>

\* What closing a pending offer makes of its status.
Closed(f) == IF f.status # "pending" THEN f.status
             ELSE IF f.decision = "none" THEN "cancelled" ELSE f.decision

\* Mutant: drop_line without its guard, run a second time by a replay.
DropUnguarded(l) == FALSE

DropDone(l) == line[l].dropped

\* Mutant: the offer is closed and its hold forgotten.
CloseKeepsHold(l) ==
    /\ offer' = [offer EXCEPT ![l].status = Closed(offer[l])]
    /\ UNCHANGED stock

CloseOffer(l) ==
    /\ offer' = [offer EXCEPT ![l].held = FALSE, ![l].status = Closed(offer[l])]
    /\ stock' = IF offer[l].held
                THEN [stock EXCEPT ![offer[l].product] = @ + Qty[l]]
                ELSE stock

DropLine(o, l) ==
    \/ /\ DropDone(l)
       /\ UNCHANGED db
    \/ /\ ~DropDone(l)
       /\ CloseOffer(l)
       /\ line' = [line EXCEPT ![l].dropped = TRUE]
       /\ outbox' = outbox \cup {<<"line_drop", l>>}
       /\ PayBack(o, {l}, Original)
       /\ UNCHANGED <<order, bill, shipped>>

\* What the customer overpaid for a line whose replacement is cheaper.
Saving(l) == (Price[Item[l]] - line[l].price) * Qty[l]
Owed(o) == /\ order[o].method = "prepaid"
           /\ MapThenSumSet(Saving, Active(o)) > 0

\* Mutant: a replayed fulfill does not notice that it is done.
CanFulfillOnce(o) == /\ Active(o) # {} /\ Wanted(o) = {}
                     /\ <<"fulfill", o>> \notin outbox

\* fulfill raises while a line to ship has no stock, and on a second event
\* with a key the outbox has.
CanFulfill(o) ==
    \/ order[o].status = "ready_for_fulfillment"
    \/ /\ Active(o) # {} /\ Wanted(o) = {}
       /\ <<"fulfill", o>> \notin outbox
       /\ Owed(o) => <<"adjustment", o>> \notin outbox

Fulfill(o) ==
    \/ /\ order[o].status = "ready_for_fulfillment"
       /\ UNCHANGED db
    \/ /\ order[o].status # "ready_for_fulfillment"
       /\ CanFulfill(o)
       /\ bill' = [l \in Lines |->
                     IF OrderOf[l] # o THEN bill[l]
                     ELSE IF line[l].dropped THEN 0 ELSE Qty[l] * line[l].price]
       /\ order' = [order EXCEPT ![o].recovered = order[o].shortage,
                                 ![o].status = "ready_for_fulfillment",
                                 ![o].acted = TRUE]
       /\ shipped' = shipped \cup Active(o)
       /\ IF Owed(o)
          THEN /\ outbox' = outbox \cup {<<"fulfill", o>>, <<"adjustment", o>>}
               /\ PayBack(o, Active(o), Saving)
          ELSE /\ outbox' = outbox \cup {<<"fulfill", o>>}
               /\ UNCHANGED refund
       /\ UNCHANGED <<stock, line, offer>>

\* cancel raises on a second event with its key.
CanCancel(o) == order[o].status \in Refused \/ <<"cancel", o>> \notin outbox

Cancel(o) ==
    \/ /\ order[o].status \in Refused
       /\ UNCHANGED db
    \/ /\ order[o].status \notin Refused
       /\ CanCancel(o)
       /\ stock' = [p \in Products |-> stock[p] + ReservedUnits(p, LinesOf(o))
                                                + HeldUnits(p, LinesOf(o))]
       /\ line' = [l \in Lines |-> IF OrderOf[l] = o
                                   THEN [line[l] EXCEPT !.reserved = FALSE]
                                   ELSE line[l]]
       /\ offer' = [l \in Lines |->
                      IF OrderOf[l] = o
                      THEN [offer[l] EXCEPT !.held = FALSE,
                                            !.status = Closed(offer[l])]
                      ELSE offer[l]]
       /\ order' = [order EXCEPT ![o].status = RefusedStatus(o),
                                 ![o].acted = TRUE]
       /\ outbox' = outbox \cup {<<"cancel", o>>}
       /\ PayBack(o, Active(o), Original)
       /\ UNCHANGED <<bill, shipped>>

\* What cancel_before_resolution does to an order that is still `received' (the
\* locks, the test and the job row are in Workflow).
CancelBeforeResolution(o) ==
    /\ order' = [order EXCEPT ![o].status = RefusedStatus(o), ![o].acted = TRUE]
    /\ outbox' = outbox \cup {<<"customer_cancel", o>>}
    /\ PayBack(o, LinesOf(o), Original)
    /\ UNCHANGED <<stock, line, offer, bill, shipped>>

-----------------------------------------------------------------------------
\* The type of the rows.
RowsOK ==
    /\ stock \in [Products -> Nat]
    /\ order \in [Orders -> OrderRow]
    /\ line \in [Lines -> LineRow]
    /\ offer \in [Lines -> OfferRow]
    /\ outbox \subseteq Events
    /\ refund \in [Lines -> Int]
    /\ bill \in [Lines -> Nat]
    /\ shipped \subseteq Lines

\* Placed orders have lines of products, offers are of lines of placed orders,
\* and only an offer that was made has a hold.
RowsFit ==
    \A l \in Lines :
       /\ Placed(OrderOf[l]) => line[l].product \in Products
       /\ offer[l].status # "none" =>
             Placed(OrderOf[l]) /\ offer[l].product \in Products
       /\ offer[l].status = "none" => ~offer[l].held
=============================================================================
