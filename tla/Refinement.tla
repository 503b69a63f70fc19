------------------------------ MODULE Refinement ------------------------------
(***************************************************************************)
(* The running system keeps the promise of OrderLifecycle: how an order's  *)
(* rows are read as its lifecycle.                                         *)
(***************************************************************************)
EXTENDS Invariants

PhaseOf(o) ==
    CASE order[o].status = "received" -> "open"
      [] order[o].status = "manual_review" -> "review"
      [] order[o].status = "awaiting_customer" -> "asking"
      [] order[o].status = "ready_for_fulfillment" -> "shipped"
      [] order[o].status \in Refused -> "refused"
      [] order[o].status = "absent" -> "absent"

FateOf(l) == IF line[l].dropped THEN "dropped"
             ELSE IF line[l].product \in {NoProduct, Item[l]} THEN "open" ELSE "replaced"

Promise == INSTANCE OrderLifecycle WITH
    phase <- [o \in Orders |-> PhaseOf(o)],
    risky <- {o \in Orders : order[o].high},
    verdict <- [o \in Orders |-> order[o].manual],
    withdrawn <- {o \in Orders : <<"customer_cancel", o>> \in outbox},
    asked <- {l \in Lines : offer[l].status # "none"},
    answer <- [l \in Lines |-> offer[l].decision],
    fate <- [l \in Lines |-> FateOf(l)]

\* Whatever nodes are replayed and whoever answers when, an order is reviewed,
\* offered, answered, replaced, shipped and refused as OrderLifecycle promises.
KeepsPromise == Promise!Lifecycle
=============================================================================
