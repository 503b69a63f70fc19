------------------------------ MODULE Progress ------------------------------
(***************************************************************************)
(* Where an order's rows are while its graph is somewhere, if no checkpoint *)
(* is ever more than one node behind its rows: the invariants of the runs   *)
(* whose drives store every checkpoint, or never fail.                      *)
(***************************************************************************)
EXTENDS Invariants

\* A drive that fails is resumed with the node it was about to run, or with the
\* one before.  (With the default durability a failure may bring any earlier node
\* back, the database being past it: then an order that was refused is put back
\* in review, and its cancel raises until the attempts are used up.)
OneNodeBehind == Durability = "sync" \/ MaxFaults = 0

\* No order that its customer cancelled is driven again: nobody cancels, or drives
\* do not fail and no admin retries what a customer cancelled.
CancelsInTime == Cancellable = {} \/ (MaxFaults = 0 /\ Cancellable \cap Retriable = {})

\* The checkpoints a drive of o can go on from.
Stored(o) == {live[o]} \cup (IF MaxFaults = 0 THEN {} ELSE stale[o])

\* A line and its offer tell one story: held while it is pending, reserved once
\* it is accepted, closed with the decision it was given, for a dropped line.
LineSound(l) ==
    /\ offer[l].status \in {"none", "pending", "accepted", "reject", "expired"}
    /\ offer[l].status = "none" => offer[l].decision = "none"
    /\ offer[l].status # "none" => offer[l].product # Item[l]
    /\ offer[l].status = "pending" =>
          offer[l].held /\ ~line[l].dropped /\ ~line[l].reserved
    /\ offer[l].status = "accepted" =>
          /\ offer[l].decision = "accept" /\ ~offer[l].held
          /\ line[l].reserved /\ ~line[l].dropped
          /\ line[l].product = offer[l].product
    /\ offer[l].status \in {"reject", "expired"} =>
          offer[l].decision = offer[l].status /\ ~offer[l].held /\ line[l].dropped
    /\ line[l].dropped => ~line[l].reserved /\ offer[l].status # "accepted"
    /\ offer[l].status # "accepted" => line[l].product \in {NoProduct, Item[l]}

\* No offer of o waits to be answered or acted upon, or none but that of line m.
NonePending(o) == \A l \in LinesOf(o) : offer[l].status # "pending"
NonePendingBut(o, m) == \A l \in LinesOf(o) : offer[l].status = "pending" => l = m

\* Nothing was taken, offered or dropped for o yet.
Untaken(o) == \A l \in LinesOf(o) :
                 offer[l].status = "none" /\ ~line[l].reserved /\ ~line[l].dropped

\* The auditor has no say in o, or let it pass.
Passed(o) == order[o].high => order[o].manual = "approve"

Open(o) == Placed(o) /\ order[o].status \notin Settled

\* The events an order ends with.
Ends == {"fulfill", "adjustment", "cancel", "customer_cancel"}

\* An order ends with the event that says so, and holds nothing afterwards but
\* what it ships; while an offer waits, the order says so, and only a risky
\* order is in review.
OrderSound(o) ==
    /\ order[o].status \notin Settled =>
          /\ \A e \in Ends : <<e, o>> \notin outbox
          /\ \A l \in LinesOf(o) : l \notin shipped
    /\ order[o].status \in Settled =>
          \A l \in LinesOf(o) : line[l].reserved <=> l \in shipped
    /\ order[o].status # "awaiting_customer" => NonePending(o)
    /\ order[o].status = "manual_review" => order[o].high

\* The rows a node finds, whether it runs for the first time or once more.
FitsNode(o, at, m, asked) ==
    /\ at = "fraud" =>
          Untaken(o) /\ order[o].status \in {"absent", "received"} \cup Refused
    /\ at = "manual" =>
          /\ Untaken(o) /\ order[o].high
          /\ order[o].status \in {"received", "manual_review"}
          /\ asked => order[o].status = "manual_review"
    /\ at \in {"inventory"} \cup LineNodes => Open(o) /\ Passed(o) /\ NonePendingBut(o, m)
    /\ at = "inventory" => NonePending(o)
    /\ at = "offer" => /\ ~line[m].dropped /\ ~line[m].reserved
                       /\ offer[m].status \in {"none", "pending"}
    /\ at = "wait_customer" => offer[m].status = "pending"
    /\ at = "apply" => \/ offer[m].status = "accepted"
                       \/ offer[m].status = "pending" /\ offer[m].decision = "accept"
    /\ at = "drop_line" =>
          \/ line[m].dropped
          \/ ~line[m].reserved /\ offer[m].status = "none"
          \/ offer[m].status = "pending" /\ offer[m].decision \in {"reject", "expired"}
    /\ at = "fulfill" =>
          \/ order[o].status = "ready_for_fulfillment"
          \/ /\ Open(o) /\ Passed(o) /\ NonePending(o)
             /\ Active(o) # {} /\ Wanted(o) = {}
    /\ at = "cancel" =>
          \/ order[o].status \in Refused
          \/ /\ Open(o) /\ order[o].high /\ order[o].manual = "reject" /\ Untaken(o)
          \/ /\ Open(o) /\ Passed(o) /\ Active(o) = {}
    /\ at = "end" => order[o].status \in Settled

Fits(o, c) == FitsNode(o, c.at, c.missing, c.asked)

\* An order its customer cancelled before its drive began is never driven.
WithdrawnRests(o) ==
    order[o].status \in Refused /\ (\E c \in Stored(o) : c.at = "fraud") =>
       o \in Cancellable /\ Unlocked(o) /\ ~job[o].pending

\* Without failures a graph that is not being driven is at its start, at an
\* interrupt or at its end.
Rested(o) == MaxFaults = 0 /\ Unlocked(o) => live[o].at \in {"fraud", "end"} \/ live[o].asked

Steady(o) == /\ OrderSound(o) /\ \A c \in Stored(o) : Fits(o, c)
             /\ WithdrawnRests(o) /\ Rested(o)

\* Inductive under OneNodeBehind and CancelsInTime, and stronger than
\* SettledHoldsNothing and ReplayNeverRaises; KeepsPromise follows step by step.
ProgressInv == /\ ConsentInv
               /\ \A l \in Lines : LineSound(l)
               /\ \A o \in Orders : Steady(o)

-----------------------------------------------------------------------------
\* Without failures: a node that asks finds nothing decided yet, a drive that
\* stops is not owed an answer, and an order that is neither driven nor queued
\* waits for one.
Attended(o) ==
    /\ order[o].status \in {"absent", "received"} => order[o].manual = "none"
    /\ live[o].at = "manual" /\ ~live[o].asked => order[o].manual = "none"
    /\ live[o].at = "offer" => offer[live[o].missing].status = "none"
    /\ live[o].at = "wait_customer" /\ ~live[o].asked =>
          offer[live[o].missing].decision = "none"
    /\ ~Unlocked(o) /\ Paused(o) => Decision(o) = "none"
    /\ Unlocked(o) /\ Open(o) /\ ~job[o].pending => live[o].asked /\ Decision(o) = "none"

\* No drive fails, and no admin retries what a customer cancelled.
NeverFails == MaxFaults = 0 /\ Cancellable \cap Retriable = {}

\* Inductive, with NeverFails, and stronger than NeverForgotten.
AttendedInv == ProgressInv /\ \A o \in Orders : Attended(o)
=============================================================================
