----------------------------- MODULE Guarantees -----------------------------
(***************************************************************************)
(* What the running system promises its shop, its customers and its        *)
(* operators.                                                              *)
(***************************************************************************)
EXTENDS Workflow

\* Every row, checkpoint and lock has its type; in particular no product's
\* stock is ever negative (inventory, create_offer: overselling).
TypeOK ==
    /\ RowsOK
    /\ job \in [Orders -> JobRow]
    /\ lock \in [Orders -> Workers \cup {NoWorker}]
    /\ live \in [Orders -> Checkpoint]
    /\ resume \in [Orders -> Answers]
    /\ stale \in [Orders -> SUBSET Checkpoint]
    /\ cancelling \subseteq Cancellable
    /\ faults \in 0..MaxFaults

\* Every unit the shop had is in stock, in a line's reservation (shipped ones
\* included) or in an offer's hold: no interleaving of orders and no replay of
\* a node loses a unit or sells one twice.
StockConserved ==
    \A p \in Products :
       stock[p] + ReservedUnits(p, Lines) + HeldUnits(p, Lines) = InitStock[p]

\* What the shop keeps of a line and what it pays back.
Kept(l) == IF l \in shipped THEN bill[l] ELSE 0

\* A prepaid customer never gets back and is billed more than was paid, and
\* once the order is settled the two add up to it, line by line, over the
\* events of drop_line, fulfill, cancel and cancel_before_resolution.
MoneyBalanced ==
    \A l \in Lines :
       LET o == OrderOf[l] IN
       order[o].method = "prepaid" =>
          /\ refund[l] + Kept(l) <= Original(l)
          /\ order[o].status \in Settled => refund[l] + Kept(l) = Original(l)

\* Nothing of a settled order is held or reserved for a customer who does not
\* get it, and nothing ships that is not reserved.
SettledHoldsNothing ==
    \A l \in Lines :
       LET o == OrderOf[l] IN
       order[o].status \in Settled =>
          /\ ~offer[l].held /\ offer[l].status # "pending"
          /\ line[l].reserved <=> l \in shipped

\* An order at or above the risk threshold takes no stock, asks no customer
\* and ships nothing before an auditor approved it.
ReviewGate ==
    \A l \in Lines :
       LET o == OrderOf[l] IN
       order[o].high /\ order[o].manual # "approve" =>
          ~line[l].reserved /\ offer[l].status = "none" /\ l \notin shipped

\* A line never costs more than the customer agreed to at intake.
BillNeverIncreases == \A l \in Lines : bill[l] <= Original(l)

\* A node that is run again after a failure finds its work done or still
\* possible: none must raise, so no order burns its attempts by itself.
ReplayNeverRaises == \A o \in Orders : ~Unlocked(o) => ~MustRaise(o)

\* Every order that is not settled is queued, waits for an answer somebody can
\* still give, or is on the list of failed jobs: none is forgotten.
NeverForgotten ==
    \A o \in Orders :
       Placed(o) /\ Unlocked(o) /\ order[o].status \notin Settled =>
          \/ job[o].pending
          \/ live[o].asked /\ Decision(o) = "none"
          \/ job[o].attempts = MaxAttempts

\* Whatever fails, an order that is not settled is driven, queued, at an interrupt
\* or on the list of failed jobs: all that can be overlooked is an answer that
\* came before its interrupt was stored, and a retry makes up for that.
RestsAtInterrupt ==
    \A o \in Orders :
       Placed(o) /\ Unlocked(o) /\ order[o].status \notin Settled =>
          job[o].pending \/ live[o].asked \/ job[o].attempts = MaxAttempts

\* What a customer or an auditor decided stays decided, whatever arrives later
\* (a second answer, the deadline, another worker).
DecisionFinal ==
    [][/\ \A l \in Lines : offer[l].decision # "none"
                              => offer'[l].decision = offer[l].decision
       /\ \A o \in Orders : order[o].manual # "none"
                              => order'[o].manual = order[o].manual]_vars

\* A line's product changes only to the replacement its customer accepted, and
\* a line that was offered a replacement is dropped only if its customer
\* refused or let the offer lapse (apply_offer, drop_line, and every crash,
\* retry and late answer between the decision and them).
CustomerDecides ==
    [][\A l \in Lines :
          /\ Placed(OrderOf[l]) /\ line'[l].product # line[l].product =>
                /\ offer[l].decision = "accept"
                /\ line'[l].product = offer[l].product
          /\ line'[l].dropped /\ ~line[l].dropped =>
                offer[l].status = "none" \/ offer[l].decision \in {"reject", "expired"}]_vars

\* An order ends with one event, that of fulfill, of cancel or of its customer's
\* cancellation, and from then on nothing of it is paid back, billed or shipped,
\* whatever checkpoint a later drive goes on from (the guards of fulfill, cancel,
\* drop_line and apply_offer, and the unique event keys of the outbox).
MoneyFinal ==
    [][\A o \in Orders :
          (\E e \in {"fulfill", "cancel", "customer_cancel"} : <<e, o>> \in outbox) =>
             /\ \A e \in {"fulfill", "adjustment", "cancel", "customer_cancel"} :
                   <<e, o>> \in outbox' => <<e, o>> \in outbox
             /\ \A l \in LinesOf(o) : refund'[l] = refund[l] /\ Kept(l)' = Kept(l)]_vars

\* A settled order stays settled the way it is, and ships nothing more.
SettledFinal ==
    [][\A o \in Orders : order[o].status \in Settled =>
          /\ order'[o].status = order[o].status
          /\ shipped' \cap LinesOf(o) = shipped \cap LinesOf(o)]_vars

\* The answer to an offer, the deadline's included, is always acted upon: the
\* offer ends with it, its line replaced or dropped (reply, expire_offers,
\* drive, apply_offer, drop_line).
AnswersTakeEffect ==
    \A l \in Lines : \A d \in {"accept", "reject", "expired"} :
       offer[l].decision = d ~>
          offer[l].status = (IF d = "accept" THEN "accepted" ELSE d)

\* Every order is settled in the end, unless it waits for its auditor, whom
\* nothing obliges to decide.
OrdersSettle ==
    \A o \in Orders :
       Placed(o) ~> \/ order[o].status \in Settled
                    \/ order[o].status = "manual_review" /\ order[o].manual = "none"

\* The nodes a drive can still run from a checkpoint, if every line inventory
\* wants is found short and no offer is made for it: three per line, and the
\* first and the last.  `others' is without the line that is worked on.
NodesFrom(at, asked, wanted, others) ==
    CASE at = "fraud" -> 3 * wanted + 3
      [] at = "manual" -> IF asked THEN 3 * wanted + 3 ELSE 1
      [] at = "inventory" -> 3 * wanted + 2
      [] at = "offer" -> 3 * others + 4
      [] at = "wait_customer" -> IF asked THEN 3 * others + 4 ELSE 1
      [] at \in {"apply", "drop_line"} -> 3 * others + 3
      [] at \in {"fulfill", "cancel"} -> 1
      [] at = "end" -> 0

NodesLeft(o) ==
    IF Paused(o) THEN 0
    ELSE NodesFrom(live[o].at, live[o].asked, Cardinality(Wanted(o)),
                   Cardinality(Wanted(o) \ {live[o].missing}))

\* No drive goes round the loop of the graph for ever: every node brings it
\* nearer to its end, nobody else takes it back, and wherever it starts it runs
\* three nodes per line of its order and three more at most.  (The
\* recursion_limit of drive, 350, is above that for the 50 lines of OrderInput.)
DriveIsShort ==
    /\ [](\A o \in Orders : NodesLeft(o) \in 0..3 * Cardinality(LinesOf(o)) + 3)
    /\ [][\A o \in Orders : ~Unlocked(o) /\ lock'[o] = lock[o] =>
             /\ NodesLeft(o)' <= NodesLeft(o)
             /\ live'[o] # live[o] => NodesLeft(o)' < NodesLeft(o)]_vars

\* A worker that took an order lets go of it.
DrivesEnd == \A o \in Orders : ~Unlocked(o) ~> Unlocked(o)
=============================================================================
