----------------------------- MODULE Documented -----------------------------
(***************************************************************************)
(* Sentences of the repository's documents and comments that the code does *)
(* not keep.  Each is the property of a run that ends in a counterexample. *)
(***************************************************************************)
EXTENDS Guarantees

\* services.py:223-224, cancel_before_resolution runs while "fraud/inventory has
\* not started, nothing is reserved": a self-cancelled order owns no stock.
CancelledOwnsNothing ==
    \A o \in Orders : <<"customer_cancel", o>> \in outbox =>
       \A l \in LinesOf(o) : ~line[l].reserved /\ ~offer[l].held

\* services.py:224-225 "Disables the job so the worker never picks it up."
CancelledNeverPickedUp ==
    \A o \in Orders : <<"customer_cancel", o>> \in outbox => Unlocked(o)
=============================================================================
