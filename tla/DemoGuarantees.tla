---------------------------- MODULE DemoGuarantees ----------------------------
(***************************************************************************)
(* What the sample shop has to get right to be a fair picture of the real  *)
(* one, above all that it keeps the same promise to its customers.         *)
(***************************************************************************)
EXTENDS DemoStore

\* Rows and stock have their types; in particular no sample runs below zero.
DemoType ==
    /\ stock \in [Products -> Nat]
    /\ \A i \in Ids :
          LET o == orders[i] IN
          /\ o.status \in Settled \cup {"absent", "processing", "manual_review",
                                        "awaiting_customer"}
          /\ o.product \in Products /\ o.original \in Products
          /\ o.quantity \in 1..100 /\ o.price \in Nat /\ o.refund \in Nat
          /\ o.offer.status \in {"none", "pending", "accepted", "rejected"}
          /\ {o.reserved, o.recovered, o.shortage, o.risky, o.offer.held} \subseteq BOOLEAN

\* The sample orders that were over before the page was opened: they are history,
\* and took nothing from the stock that is shown.
History == {i \in Sample : SampleStatus(i) \in Settled}
Current == Ids \ History

\* Every unit of the sample stock is on the shelf, in a reservation or in the hold
\* of an offer, whatever is clicked in whatever order (inventory, release, accept).
DemoStockConserved ==
    \A p \in Products :
       catalog[p].stock =
          stock[p] + MapThenSumSet(LAMBDA i :
                        (IF orders[i].reserved /\ orders[i].product = p
                         THEN orders[i].quantity ELSE 0)
                      + (IF orders[i].offer.held /\ orders[i].offer.product = p
                         THEN orders[i].quantity ELSE 0), Current)

\* What a prepaid customer of the sample shop is charged and what its refund events
\* pay back add up to what was paid, over cancel and fulfill together.
DemoMoneyBalanced ==
    \A i \in Current :
       LET o == orders[i]
           kept == IF o.status = "ready_for_fulfillment" THEN o.final ELSE 0
       IN  /\ o.method = "prepaid" /\ o.status \in Settled => kept + o.refund = o.total
           /\ o.method = "cod" \/ o.status \notin Settled => o.refund = 0

\* The numbers on the dashboard's cards only grow: an order that was counted as
\* ready, recovered or to be refunded is never taken back by a later click.
MetricsNeverFall ==
    [][\A card \in DOMAIN metrics : metrics'[card] >= metrics[card]]_<<stock, orders>>

-----------------------------------------------------------------------------
DemoPhase(o) == CASE o.status = "processing" -> "open"
                  [] o.status = "manual_review" -> "review"
                  [] o.status = "awaiting_customer" -> "asking"
                  [] o.status = "ready_for_fulfillment" -> "shipped"
                  [] o.status \in {"refund_pending", "cancelled_cod"} -> "refused"
                  [] o.status = "absent" -> "absent"

\* The sample shop writes no event for an auditor's rejection; it shows in a risky
\* order that is refused and was never approved.
DemoVerdict(o) == IF "approved" \in o.log THEN "approve"
                  ELSE IF o.risky /\ DemoPhase(o) = "refused" THEN "reject" ELSE "none"

DemoAnswer(o) == CASE o.offer.status = "accepted" -> "accept"
                   [] o.offer.status = "rejected" -> "reject"
                   [] OTHER -> "none"

DemoFate(o) == IF o.product # o.original THEN "replaced"
               ELSE IF DemoPhase(o) = "refused" /\ DemoVerdict(o) # "reject"
                    THEN "dropped" ELSE "open"

\* An order of the sample shop is its own only line.
Promise == INSTANCE OrderLifecycle WITH
    Orders <- Current, Lines <- Current, OrderOf <- [i \in Current |-> i],
    phase <- [i \in Current |-> DemoPhase(orders[i])],
    risky <- {i \in Current : orders[i].risky},
    verdict <- [i \in Current |-> DemoVerdict(orders[i])],
    withdrawn <- {},
    asked <- {i \in Current : orders[i].offer.status # "none"},
    answer <- [i \in Current |-> DemoAnswer(orders[i])],
    fate <- [i \in Current |-> DemoFate(orders[i])]

\* The sample shop starts in the middle of a day and goes on as OrderLifecycle
\* promises of the real one: review before stock, consent before a replacement.
DemoKeepsPromise ==
    Promise!Sound /\ [][Promise!LifecycleNext]_(Promise!lifecycle)
=============================================================================
