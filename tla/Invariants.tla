----------------------------- MODULE Invariants -----------------------------
(***************************************************************************)
(* What else is true whenever TypeOK is: the facts that make it inductive. *)
(***************************************************************************)
EXTENDS Documented

\* Nodes that work on the missing line.
LineNodes == {"offer", "wait_customer", "apply", "drop_line"}

\* A checkpoint of order o: the line it is about is one of the order's, and only
\* the two nodes with an interrupt have one pending.
OfOrder(o, c) == /\ c.at \in LineNodes => c.missing \in LinesOf(o)
                 /\ c.asked => c.at \in {"manual", "wait_customer"}

CheckpointsOK ==
    \A o \in Orders : OfOrder(o, live[o]) /\ \A c \in stale[o] : OfOrder(o, c)

\* A job waits only with attempts left, a locked job is one that waits, and
\* there is no job without an order.
JobsOK ==
    \A o \in Orders :
       /\ job[o].pending => Placed(o) /\ job[o].attempts < MaxAttempts
       /\ ~Unlocked(o) => job[o].pending

\* The rows, checkpoints, locks and jobs fit together: every step finds what it
\* reads.  Inductive, and stronger than TypeOK.
TypeInv == TypeOK /\ CheckpointsOK /\ JobsOK /\ RowsFit

-----------------------------------------------------------------------------
\* A line some checkpoint works on is not reserved, unless with its accepted
\* replacement: running that checkpoint's node again takes no stock twice.
NotYet(l) == line[l].reserved => offer[l].status = "accepted"

\* A line inventory never takes stock for again.
Through(l) == offer[l].status = "accepted" \/ line[l].dropped

\* However far the stored checkpoint is behind: a drive is through with every
\* line it worked on, but for the one it is working on.
LinesAhead ==
    \A o \in Orders :
       /\ \A c \in stale[o] \cup {live[o]} : c.at \in LineNodes => NotYet(c.missing)
       /\ \A c \in stale[o] : c.at \in LineNodes =>
             \/ Through(c.missing)
             \/ live[o].at \in LineNodes /\ live[o].missing = c.missing
       /\ Unlocked(o) => stale[o] = {}

OnlyPlacedReserve == \A l \in Lines : line[l].reserved => Placed(OrderOf[l])

\* Inductive, and stronger than StockConserved.
StockInv == TypeInv /\ StockConserved /\ LinesAhead /\ OnlyPlacedReserve

-----------------------------------------------------------------------------
\* Only an offer that was made has been decided.
Made == \A l \in Lines : offer[l].decision # "none" => offer[l].status # "none"

\* No worker has looked at an order that was not placed.
Untouched(o) == /\ live[o] = Entry /\ stale[o] = {}
                /\ \A l \in LinesOf(o) : ~line[l].reserved /\ l \notin shipped

\* A drive resumes with the answer the rows hold, never with an older one.
AnswerCurrent(o) == live[o].asked /\ resume[o] # "none" => resume[o] = Decision(o)

MayDrop(l) == \/ line[l].dropped \/ offer[l].status = "none"
              \/ offer[l].decision \in {"reject", "expired"}

\* Whatever checkpoint is the stored one, drop_line meets a line its customer
\* gave up, or one that is dropped already.
DropsRefused(o) ==
    /\ live[o].at = "drop_line" => MayDrop(live[o].missing)
    /\ \A c \in stale[o] : c.at = "drop_line" => line[c.missing].dropped

\* No checkpoint of a risky order is past the auditor before he approved it.
BeforeAuditor == {"fraud", "manual", "cancel", "end"}
Gated(o) ==
    order[o].high /\ order[o].manual # "approve" =>
       /\ \A l \in LinesOf(o) :
             ~line[l].reserved /\ offer[l].status = "none" /\ l \notin shipped
       /\ \A c \in stale[o] \cup {live[o]} : c.at \in BeforeAuditor

Consent(o) == /\ ~Placed(o) => Untouched(o)
              /\ AnswerCurrent(o) /\ DropsRefused(o) /\ Gated(o)

\* Inductive: it implies ReviewGate and each step's CustomerDecides.
ConsentInv == TypeInv /\ Made /\ \A o \in Orders : Consent(o)

\* Nothing of o may ship: nothing is left of it, or its auditor refused it.
Hopeless(o) == Active(o) = {} \/ (order[o].high /\ order[o].manual = "reject")

\* No checkpoint is anywhere without a reason: only a risky order is in review,
\* and only one of which nothing may ship is about to be refused.
Justified(o, c) == /\ c.at = "manual" => order[o].high
                   /\ c.at = "cancel" => Hopeless(o)

Justly(o) == \A c \in stale[o] \cup {live[o]} : Justified(o, c)

\* A replacement that was accepted keeps its stock: only an order of which
\* nothing may ship gives it back.
AcceptedKept ==
    \A l \in Lines : offer[l].status = "accepted" => line[l].reserved \/ line[l].dropped

\* Inductive: inventory never wants a line again that apply_offer or drop_line
\* was through with, so that a drive ends.
ReasonInv == ConsentInv /\ AcceptedKept /\ \A o \in Orders : Justly(o)

\* The graph is at its end only when the order is settled, and no older checkpoint
\* is at the end.
Ended(o) == /\ live[o].at = "end" => order[o].status \in Settled
            /\ \A c \in stale[o] : c.at # "end"

\* Inductive, and stronger than RestsAtInterrupt.
RestInv == TypeInv /\ RestsAtInterrupt /\ \A o \in Orders : Ended(o)

\* No price on a line, an offer or a bill is above the one agreed at intake.
\* Inductive with TypeInv: an offer is made at most at the line's price.
PricesBounded ==
    \A l \in Lines : /\ line[l].price <= Price[Item[l]]
                     /\ offer[l].price <= Price[Item[l]]
                     /\ bill[l] <= Original(l)
=============================================================================
