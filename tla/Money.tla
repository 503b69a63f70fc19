------------------------------- MODULE Money -------------------------------
(***************************************************************************)
(* What was paid back for a line and what is kept of it, while its order    *)
(* is anywhere in its graph: the invariant behind MoneyBalanced.  It needs  *)
(* no checkpoint to be near its rows: it holds for every durability and any *)
(* number of failures, because an order ends with one event at most.        *)
(***************************************************************************)
EXTENDS Progress

Fulfilled(o) == <<"fulfill", o>> \in outbox
Cancelled(o) == <<"cancel", o>> \in outbox
Withdrawn(o) == <<"customer_cancel", o>> \in outbox

\* Nobody wrote anything about o yet.
Blank(o) == /\ ~Fulfilled(o) /\ ~Cancelled(o) /\ ~Withdrawn(o)
            /\ \A l \in LinesOf(o) :
                  ~line[l].dropped /\ refund[l] = 0 /\ offer[l].status = "none"

Prepaid(o) == order[o].method = "prepaid"

\* The whole line was paid back, or nothing of it.
PaidBack(l) == Prepaid(OrderOf[l]) => refund[l] = Original(l)
NothingBack(l) == Prepaid(OrderOf[l]) => refund[l] = 0

\* What ships is in stock for it, and billed and paid back add up to its price.
Billed(o) ==
    /\ Active(o) # {}
    /\ \A l \in Active(o) :
          /\ line[l].reserved /\ bill[l] = Qty[l] * line[l].price
          /\ Prepaid(o) => refund[l] + bill[l] = Original(l)

\* Dropped lines are paid back at once, the others when their order ends, and it
\* ends once.
Ledger(o) ==
    /\ ~Placed(o) => Blank(o)
    /\ shipped \cap LinesOf(o) = IF Fulfilled(o) THEN Active(o) ELSE {}
    /\ \A l \in LinesOf(o) :
          /\ line[l].dropped => PaidBack(l)
          /\ ~line[l].dropped /\ ~Fulfilled(o) /\ ~Cancelled(o) /\ ~Withdrawn(o)
                => NothingBack(l)
          /\ offer[l].status = "accepted" => offer[l].decision = "accept"
    /\ Fulfilled(o) => Billed(o) /\ ~Cancelled(o) /\ ~Withdrawn(o)
    /\ Cancelled(o) => /\ Hopeless(o) /\ ~Withdrawn(o)
                       /\ \A l \in LinesOf(o) : PaidBack(l)
    /\ Withdrawn(o) => /\ o \in Cancellable /\ order[o].status \in Refused
                       /\ \A l \in LinesOf(o) : PaidBack(l)
    /\ order[o].status \in Settled => Fulfilled(o) \/ Cancelled(o) \/ Withdrawn(o)

\* What a customer cancelled has not begun.
Unbegun(o) == Withdrawn(o) => live[o].at = "fraud"

\* Inductive under CancelsInTime, with StockInv (nothing is taken twice),
\* PricesBounded (no saving is negative) and ReasonInv (nobody ships unasked);
\* where customers cancel, ProgressInv keeps what they cancelled from being driven.
MoneyInv == \A o \in Orders : Ledger(o) /\ Unbegun(o)
=============================================================================
