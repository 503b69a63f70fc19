--------------------------- MODULE Progress_proofs ---------------------------
(***************************************************************************)
(* If no checkpoint is ever more than one node behind the rows, and no     *)
(* order its customer cancelled is driven again, then a node that is run   *)
(* again finds its work done or still possible, a settled order stays      *)
(* settled and holds nothing it does not ship, and every order keeps the   *)
(* promise of OrderLifecycle: for every shop and every number of workers.  *)
(* Its money adds up at whatever distance the checkpoints are.             *)
(***************************************************************************)
EXTENDS Money, Refinement, Workflow_proofs

(***************************************************************************)
(* What each transaction does to the rows of its order, field by field.    *)
(***************************************************************************)

\* The lines but those of S, and their offers, are as before.
LinesKeptBut(S) == \A l \in Lines \ S : line'[l] = line[l] /\ offer'[l] = offer[l]

\* Every order is as before but o, whose status may have become s.
OrdersKeptBut(o, s) ==
    /\ \A q \in Orders \ {o} : order'[q] = order[q]
    /\ order'[o].status = s /\ order'[o].high = order[o].high
    /\ order'[o].manual = order[o].manual /\ order'[o].method = order[o].method

LEMMA FlagEffect ==
    ASSUME RowsInv, NEW o \in Orders, FlagAudit(o)
    PROVE  /\ OrdersKeptBut(o, "manual_review")
           /\ UNCHANGED <<stock, line, offer, outbox, refund, bill, shipped>>
BY DEF RowsInv, RowsOK, OrderRow, FlagAudit, OrdersKeptBut

LEMMA InventoryEffect ==
    ASSUME RowsInv, NEW o \in Orders, NEW got \in SUBSET Wanted(o), Inventory(o, got)
    PROVE  /\ OrdersKeptBut(o, order[o].status)
           /\ UNCHANGED <<offer, outbox, refund, bill, shipped>>
           /\ LinesKeptBut(got) /\ got \subseteq LinesOf(o)
           /\ \A l \in got : line'[l] = [line[l] EXCEPT !.reserved = TRUE]
<1>1. order' = [order EXCEPT ![o].shortage = @ \/ got # Wanted(o)]
  BY DEF Inventory
<1>2. OrdersKeptBut(o, order[o].status)
  BY <1>1 DEF RowsInv, RowsOK, OrderRow, OrdersKeptBut
<1>3. got \subseteq LinesOf(o) /\ got \subseteq Lines
  BY DEF Wanted, Active, LinesOf
<1> QED
  BY <1>2, <1>3 DEF RowsInv, RowsOK, Inventory, LinesKeptBut

LEMMA CreateOfferEffect ==
    ASSUME RowsInv, NEW o \in Orders, NEW l \in LinesOf(o), NEW hint, CreateOffer(o, l, hint)
    PROVE  \/ UNCHANGED db /\ (offer[l].status = "none" => Replacement(o, l, hint) = {})
           \/ /\ offer[l].status = "none"
              /\ OrdersKeptBut(o, "awaiting_customer")
              /\ UNCHANGED <<line, refund, bill, shipped>>
              /\ outbox' = outbox \cup {<<"offer", l>>}
              /\ LinesKeptBut({l})
              /\ \E p \in Products \ {Item[l]} : offer'[l] = NewOffer(p)
<1>1. CASE UNCHANGED db /\ (offer[l].status = "none" => Replacement(o, l, hint) = {})
  BY <1>1
<1>2. CASE ~(UNCHANGED db /\ (offer[l].status = "none" => Replacement(o, l, hint) = {}))
  <2>1. PICK p \in Replacement(o, l, hint) :
           offer[l].status = "none" /\ offer' = [offer EXCEPT ![l] = NewOffer(p)]
    BY <1>2 DEF CreateOffer
  <2>2. /\ order' = [order EXCEPT ![o].status = "awaiting_customer", ![o].acted = TRUE]
        /\ UNCHANGED <<line, refund, bill, shipped>>
        /\ outbox' = outbox \cup {<<"offer", l>>}
    BY <1>2, <2>1 DEF CreateOffer
  <2>3. OrdersKeptBut(o, "awaiting_customer")
    BY <2>2 DEF RowsInv, RowsOK, OrderRow, OrdersKeptBut
  <2>4. p \in Products \ {Item[l]}
    BY <2>1, AlternativeIsEligible DEF Replacement, Eligible
  <2>5. l \in Lines
    BY DEF LinesOf
  <2>6. LinesKeptBut({l}) /\ offer'[l] = NewOffer(p)
    BY <2>1, <2>2, <2>5 DEF RowsInv, RowsOK, LinesKeptBut
  <2> QED
    BY <2>1, <2>2, <2>3, <2>4, <2>6
<1> QED
  BY <1>1, <1>2

LEMMA ApplyEffect ==
    ASSUME RowsInv, NEW o \in Orders, NEW l \in LinesOf(o), ApplyOffer(o, l)
    PROVE  \/ UNCHANGED db /\ offer[l].status = "accepted"
           \/ /\ offer[l].status # "accepted" /\ offer[l].decision = "accept"
              /\ UNCHANGED <<stock, order, outbox, refund, shipped>>
              /\ LinesKeptBut({l})
              /\ line'[l] = [line[l] EXCEPT !.product = offer[l].product,
                                            !.price = offer[l].price, !.reserved = TRUE]
              /\ offer'[l] = [offer[l] EXCEPT !.held = FALSE, !.status = "accepted"]
              /\ bill' = [k \in Lines |-> IF OrderOf[k] = o
                                          THEN Qty[k] * line'[k].price ELSE bill[k]]
BY DEF RowsInv, RowsOK, ApplyOffer, LinesKeptBut, LinesOf

LEMMA DropEffect ==
    ASSUME RowsInv, NEW o \in Orders, NEW l \in LinesOf(o), DropLine(o, l)
    PROVE  \/ UNCHANGED db /\ line[l].dropped
           \/ /\ ~line[l].dropped
              /\ UNCHANGED <<order, bill, shipped>>
              /\ outbox' = outbox \cup {<<"line_drop", l>>}
              /\ PayBack(o, {l}, Original)
              /\ LinesKeptBut({l})
              /\ line'[l] = [line[l] EXCEPT !.dropped = TRUE]
              /\ offer'[l] = [offer[l] EXCEPT !.held = FALSE, !.status = Closed(offer[l])]
<1>1. l \in Lines
  BY DEF LinesOf
<1>2. CASE line[l].dropped
  BY <1>2 DEF DropLine, DropDone
<1>3. CASE ~line[l].dropped
  <2>1. /\ UNCHANGED <<order, bill, shipped>>
        /\ outbox' = outbox \cup {<<"line_drop", l>>}
        /\ PayBack(o, {l}, Original)
        /\ line' = [line EXCEPT ![l].dropped = TRUE]
        /\ offer' = [offer EXCEPT ![l].held = FALSE, ![l].status = Closed(offer[l])]
    BY <1>3 DEF DropLine, DropDone, CloseOffer
  <2>2. LinesKeptBut({l})
    BY <2>1 DEF LinesKeptBut, RowsInv, RowsOK
  <2>3. line'[l] = [line[l] EXCEPT !.dropped = TRUE]
    BY <1>1, <2>1 DEF RowsInv, RowsOK
  <2>4. offer'[l] = [offer[l] EXCEPT !.held = FALSE, !.status = Closed(offer[l])]
    BY <1>1, <2>1 DEF RowsInv, RowsOK
  <2> QED
    BY <1>3, <2>1, <2>2, <2>3, <2>4
<1> QED
  BY <1>2, <1>3

LEMMA FulfillEffect ==
    ASSUME RowsInv, NEW o \in Orders, Fulfill(o)
    PROVE  \/ UNCHANGED db /\ order[o].status = "ready_for_fulfillment"
           \/ /\ order[o].status # "ready_for_fulfillment" /\ CanFulfill(o)
              /\ OrdersKeptBut(o, "ready_for_fulfillment")
              /\ UNCHANGED <<stock, line, offer>>
              /\ shipped' = shipped \cup Active(o)
              /\ outbox' = outbox \cup {<<"fulfill", o>>}
                              \cup (IF Owed(o) THEN {<<"adjustment", o>>} ELSE {})
              /\ bill' = [l \in Lines |->
                            IF OrderOf[l] # o THEN bill[l]
                            ELSE IF line[l].dropped THEN 0 ELSE Qty[l] * line[l].price]
              /\ IF Owed(o) THEN PayBack(o, Active(o), Saving) ELSE UNCHANGED refund
<1>1. CASE order[o].status = "ready_for_fulfillment"
  BY <1>1 DEF Fulfill
<1>2. CASE order[o].status # "ready_for_fulfillment"
  <2>1. /\ CanFulfill(o) /\ UNCHANGED <<stock, line, offer>>
        /\ shipped' = shipped \cup Active(o)
        /\ order' = [order EXCEPT ![o].recovered = order[o].shortage,
                                  ![o].status = "ready_for_fulfillment",
                                  ![o].acted = TRUE]
        /\ IF Owed(o) THEN outbox' = outbox \cup {<<"fulfill", o>>, <<"adjustment", o>>}
                      ELSE outbox' = outbox \cup {<<"fulfill", o>>}
        /\ IF Owed(o) THEN PayBack(o, Active(o), Saving) ELSE UNCHANGED refund
        /\ bill' = [l \in Lines |->
                      IF OrderOf[l] # o THEN bill[l]
                      ELSE IF line[l].dropped THEN 0 ELSE Qty[l] * line[l].price]
    BY <1>2 DEF Fulfill
  <2>2. OrdersKeptBut(o, "ready_for_fulfillment")
    BY <2>1 DEF RowsInv, RowsOK, OrderRow, OrdersKeptBut
  <2>3. outbox' = outbox \cup {<<"fulfill", o>>}
                     \cup (IF Owed(o) THEN {<<"adjustment", o>>} ELSE {})
    <3>1. CASE Owed(o)
      BY <2>1, <3>1
    <3>2. CASE ~Owed(o)
      BY <2>1, <3>2
    <3> QED
      BY <3>1, <3>2
  <2> QED
    BY <1>2, <2>1, <2>2, <2>3
<1> QED
  BY <1>1, <1>2

LEMMA CancelEffect ==
    ASSUME RowsInv, NEW o \in Orders, Cancel(o)
    PROVE  \/ UNCHANGED db /\ order[o].status \in Refused
           \/ /\ order[o].status \notin Refused /\ CanCancel(o)
              /\ OrdersKeptBut(o, RefusedStatus(o)) /\ RefusedStatus(o) \in Refused
              /\ UNCHANGED <<bill, shipped>>
              /\ outbox' = outbox \cup {<<"cancel", o>>}
              /\ PayBack(o, Active(o), Original)
              /\ LinesKeptBut(LinesOf(o))
              /\ \A l \in LinesOf(o) :
                    /\ line'[l] = [line[l] EXCEPT !.reserved = FALSE]
                    /\ offer'[l] = [offer[l] EXCEPT !.held = FALSE,
                                                    !.status = Closed(offer[l])]
<1>1. CASE order[o].status \in Refused
  BY <1>1 DEF Cancel
<1>2. CASE order[o].status \notin Refused
  <2>1. /\ CanCancel(o) /\ UNCHANGED <<bill, shipped>>
        /\ outbox' = outbox \cup {<<"cancel", o>>}
        /\ PayBack(o, Active(o), Original)
        /\ order' = [order EXCEPT ![o].status = RefusedStatus(o), ![o].acted = TRUE]
        /\ line' = [l \in Lines |-> IF OrderOf[l] = o
                                    THEN [line[l] EXCEPT !.reserved = FALSE]
                                    ELSE line[l]]
        /\ offer' = [l \in Lines |->
                       IF OrderOf[l] = o
                       THEN [offer[l] EXCEPT !.held = FALSE,
                                             !.status = Closed(offer[l])]
                       ELSE offer[l]]
    BY <1>2 DEF Cancel
  <2>2. OrdersKeptBut(o, RefusedStatus(o)) /\ RefusedStatus(o) \in Refused
    BY <2>1 DEF RowsInv, RowsOK, OrderRow, OrdersKeptBut, RefusedStatus, Refused
  <2>3. LinesKeptBut(LinesOf(o))
    BY <2>1 DEF LinesKeptBut, LinesOf
  <2>4. \A l \in LinesOf(o) : l \in Lines /\ OrderOf[l] = o
    BY DEF LinesOf
  <2>5. \A l \in LinesOf(o) : line'[l] = [line[l] EXCEPT !.reserved = FALSE]
    BY <2>1, <2>4
  <2>6. \A l \in LinesOf(o) :
           offer'[l] = [offer[l] EXCEPT !.held = FALSE, !.status = Closed(offer[l])]
    BY <2>1, <2>4
  <2> QED
    BY <1>2, <2>1, <2>2, <2>3, <2>5, <2>6
<1> QED
  BY <1>1, <1>2

LEMMA CustomerCancelEffect ==
    ASSUME RowsInv, NEW o \in Orders, CancelBeforeResolution(o)
    PROVE  /\ OrdersKeptBut(o, RefusedStatus(o)) /\ RefusedStatus(o) \in Refused
           /\ UNCHANGED <<stock, line, offer, bill, shipped>>
           /\ outbox' = outbox \cup {<<"customer_cancel", o>>}
           /\ PayBack(o, LinesOf(o), Original)
BY DEF RowsInv, RowsOK, OrderRow, CancelBeforeResolution, OrdersKeptBut, RefusedStatus,
       Refused

-----------------------------------------------------------------------------
(***************************************************************************)
(* What is not touched stays as it is.                                     *)
(***************************************************************************)

LEMMA LineSoundKept ==
    ASSUME NEW l \in Lines, line'[l] = line[l], offer'[l] = offer[l], LineSound(l)
    PROVE  LineSound(l)'
BY DEF LineSound

\* A step that leaves the rows of order q alone.
RowsKept(q) ==
    /\ order'[q] = order[q]
    /\ \A l \in LinesOf(q) : /\ line'[l] = line[l] /\ offer'[l] = offer[l]
                             /\ l \in shipped' <=> l \in shipped
    /\ \A e \in Ends : <<e, q>> \in outbox' <=> <<e, q>> \in outbox

LEMMA OrderSoundKept ==
    ASSUME NEW q \in Orders, RowsKept(q), OrderSound(q)
    PROVE  OrderSound(q)'
BY DEF RowsKept, OrderSound, NonePending, LinesOf

LEMMA FitsKept ==
    ASSUME NEW q \in Orders, NEW c \in Checkpoint, OfOrder(q, c), RowsKept(q), Fits(q, c)
    PROVE  Fits(q, c)'
<1> DEFINE at == c.at
           m == c.missing
           asked == c.asked
<1>1. at \in LineNodes => m \in LinesOf(q)
  BY DEF OfOrder
<1>2. LinesOf(q)' = LinesOf(q) /\ Active(q)' = Active(q) /\ Wanted(q)' = Wanted(q)
  BY DEF RowsKept, LinesOf, Active, Wanted
<1>3. FitsNode(q, at, m, asked)
  BY DEF Fits
<1> HIDE DEF at, m, asked
<1>4. FitsNode(q, at, m, asked)'
  <2>1. /\ Untaken(q)' <=> Untaken(q)
        /\ Open(q)' <=> Open(q)
        /\ Passed(q)' <=> Passed(q)
        /\ NonePending(q)' <=> NonePending(q)
        /\ NonePendingBut(q, m)' <=> NonePendingBut(q, m)
    BY <1>2 DEF RowsKept, Untaken, Open, Passed, NonePending, NonePendingBut, Placed
  <2>2. at \in LineNodes => line'[m] = line[m] /\ offer'[m] = offer[m]
    BY <1>1 DEF RowsKept
  <2> QED
    BY <1>2, <1>3, <2>1, <2>2 DEF FitsNode, RowsKept, LineNodes
<1> QED
  BY <1>4 DEF Fits, at, m, asked

LEMMA SteadyKept ==
    ASSUME TypeInv, NEW q \in Orders, RowsKept(q), Steady(q),
           live'[q] = live[q], stale'[q] = stale[q], lock'[q] = lock[q], job'[q] = job[q]
    PROVE  Steady(q)'
<1>1. Stored(q)' = Stored(q)
  BY DEF Stored
<1>2. ASSUME NEW c \in Stored(q) PROVE Fits(q, c)'
  <2>1. c \in Checkpoint /\ OfOrder(q, c)
    BY TypeInvParts DEF Stored, ControlOK, CheckpointsOK
  <2>2. Fits(q, c)
    BY DEF Steady
  <2> QED
    BY <2>1, <2>2, FitsKept
<1>3. OrderSound(q)'
  BY OrderSoundKept DEF Steady
<1>4. WithdrawnRests(q)' /\ Rested(q)'
  BY <1>1 DEF Steady, WithdrawnRests, Rested, RowsKept, Unlocked
<1> QED
  BY <1>1, <1>2, <1>3, <1>4 DEF Steady

\* The rows of the orders a transaction is not about.
LEMMA OthersKept ==
    ASSUME NEW o \in Orders, NEW q \in Orders \ {o}, order'[q] = order[q],
           LinesKeptBut(LinesOf(o)), shipped \subseteq shipped',
           shipped' \subseteq shipped \cup LinesOf(o),
           outbox \subseteq outbox',
           outbox' \subseteq outbox \cup {<<e, o>> : e \in Ends}
                                    \cup ({"confirm", "offer", "line_drop"} \X (Orders \cup Lines))
    PROVE  RowsKept(q)
<1>1. \A l \in LinesOf(q) : l \in Lines \ LinesOf(o)
  BY DEF LinesOf
<1>2. ASSUME NEW e \in Ends, <<e, q>> \in outbox' PROVE <<e, q>> \in outbox
  BY <1>2 DEF Ends
<1> QED
  BY <1>1, <1>2 DEF RowsKept, LinesKeptBut

-----------------------------------------------------------------------------
(***************************************************************************)
(* A node that ran leaves rows that fit the checkpoint it started from and *)
(* the one it goes to.                                                     *)
(***************************************************************************)

LEMMA NodeSteady ==
    ASSUME TypeInv, OneNodeBehind, NEW o \in Orders, ~Unlocked(o),
           NEW old, old = live[o], NEW c \in Checkpoint, Save(o, c),
           OrderSound(o)', Fits(o, old)', Fits(o, c)', c.at # "fraud",
           old.at = "fraud" => order'[o].status \notin Refused
    PROVE  Steady(o)'
<1>1. live'[o] = c /\ (MaxFaults = 0 \/ stale'[o] = {old}) /\ lock' = lock
  BY TypeInvParts DEF Save, OneNodeBehind, ControlOK
<1>2. Stored(o)' \subseteq {c, old}
  BY <1>1 DEF Stored
<1>3. \A d \in Stored(o)' : Fits(o, d)'
  BY <1>2
<1>4. WithdrawnRests(o)' /\ Rested(o)'
  BY <1>1, <1>2 DEF WithdrawnRests, Rested, Unlocked
<1> QED
  BY <1>3, <1>4 DEF Steady

\* Rows of the order that is being worked on.
Sound(o) == (\A l \in Lines : LineSound(l)) /\ OrderSound(o)

LEMMA FlagFits ==
    ASSUME RowsInv, NEW o \in Orders, FlagAudit(o), Sound(o), NEW m, NEW asked,
           FitsNode(o, "manual", m, asked)
    PROVE  /\ Sound(o)' /\ FitsNode(o, "manual", m, TRUE)' /\ FitsNode(o, "manual", m, FALSE)'
           /\ order[o].manual = "approve" => FitsNode(o, "inventory", m, FALSE)'
           /\ order[o].manual = "reject" => FitsNode(o, "cancel", m, FALSE)'
<1>1. OrdersKeptBut(o, "manual_review") /\ UNCHANGED <<line, offer, outbox, shipped>>
  BY FlagEffect
<1>2. Untaken(o) /\ order[o].high /\ order[o].status \in {"received", "manual_review"}
  BY DEF FitsNode
<1>3. Untaken(o)' /\ NonePending(o)' /\ NonePendingBut(o, m)'
  BY <1>1, <1>2 DEF Untaken, NonePending, NonePendingBut, LinesOf
<1>4. \A l \in Lines : LineSound(l)'
  BY <1>1, LineSoundKept DEF Sound
<1>5. OrderSound(o)'
  BY <1>1, <1>2, <1>3 DEF Sound, OrderSound, OrdersKeptBut, Settled, Refused, LinesOf
<1>6. Open(o)' /\ (order[o].manual = "approve" => Passed(o)')
  BY <1>1 DEF Open, Placed, Passed, OrdersKeptBut, Settled, Refused
<1> QED
  BY <1>1, <1>2, <1>3, <1>4, <1>5, <1>6 DEF Sound, FitsNode, OrdersKeptBut, LineNodes

LEMMA InventoryFits ==
    ASSUME RowsInv, NEW o \in Orders, NEW got \in SUBSET Wanted(o), Inventory(o, got),
           Sound(o), NEW m, NEW asked, FitsNode(o, "inventory", m, asked)
    PROVE  /\ Sound(o)' /\ FitsNode(o, "inventory", m, asked)'
           /\ \A l \in Wanted(o) \ got : FitsNode(o, "offer", l, FALSE)'
           /\ got = Wanted(o) /\ Active(o) = {} => FitsNode(o, "cancel", NoLine, FALSE)'
           /\ got = Wanted(o) /\ Active(o) # {} => FitsNode(o, "fulfill", NoLine, FALSE)'
<1>0. /\ OrdersKeptBut(o, order[o].status)
      /\ UNCHANGED <<offer, outbox, shipped>>
      /\ LinesKeptBut(got) /\ got \subseteq LinesOf(o)
      /\ \A l \in got : line'[l] = [line[l] EXCEPT !.reserved = TRUE]
  BY InventoryEffect
<1>1. ASSUME NEW l \in Lines
      PROVE  /\ line'[l].dropped = line[l].dropped
             /\ line'[l].product = line[l].product
             /\ line'[l].reserved <=> line[l].reserved \/ l \in got
  <2>1. line[l] \in LineRow
    BY DEF RowsInv, RowsOK
  <2> QED
    BY <1>0, <2>1 DEF LineRow, LinesKeptBut
<1>2. Open(o) /\ Passed(o) /\ NonePending(o)
  BY DEF FitsNode
<1>3. /\ Open(o)' /\ Passed(o)' /\ NonePending(o)'
      /\ \A k : NonePendingBut(o, k)'
  BY <1>0, <1>2 DEF OrdersKeptBut, Open, Passed, NonePending, NonePendingBut, Placed, LinesOf
<1>4. ASSUME NEW l \in Lines PROVE LineSound(l)'
  <2>1. CASE l \notin got
    BY <1>0, <2>1, LineSoundKept DEF LinesKeptBut, Sound
  <2>2. CASE l \in got
    <3>1. LineSound(l) /\ ~line[l].reserved /\ ~line[l].dropped /\ offer[l].status # "pending"
      BY <1>0, <1>2, <2>2 DEF Sound, Wanted, Active, NonePending
    <3>2. offer[l].status = "none"
      BY <3>1 DEF LineSound
    <3> QED
      BY <1>0, <1>1, <3>1, <3>2 DEF LineSound
  <2> QED
    BY <2>1, <2>2
<1>5. OrderSound(o)'
  BY <1>0, <1>2, <1>3 DEF Sound, OrderSound, OrdersKeptBut, Open, LinesOf
<1>6. ASSUME NEW l \in Wanted(o) \ got PROVE FitsNode(o, "offer", l, FALSE)'
  <2>1. /\ l \in LinesOf(o) /\ l \in Lines /\ ~line[l].reserved /\ ~line[l].dropped
        /\ line'[l] = line[l] /\ offer'[l] = offer[l]
    BY <1>0 DEF Wanted, Active, LinesOf, LinesKeptBut
  <2>2. offer[l].status \in {"none", "pending"}
    BY <2>1 DEF Sound, LineSound
  <2> QED
    BY <1>3, <2>1, <2>2 DEF FitsNode, LineNodes
<1>7. Active(o)' = Active(o) /\ (got = Wanted(o) => Wanted(o)' = {})
  BY <1>1 DEF Active, Wanted, LinesOf
<1>8. got = Wanted(o) /\ Active(o) = {} => FitsNode(o, "cancel", NoLine, FALSE)'
  BY <1>3, <1>7 DEF FitsNode, LineNodes
<1>9. got = Wanted(o) /\ Active(o) # {} => FitsNode(o, "fulfill", NoLine, FALSE)'
  BY <1>3, <1>7 DEF FitsNode, LineNodes
<1>10. FitsNode(o, "inventory", m, asked)'
  BY <1>3 DEF FitsNode, LineNodes
<1> QED
  BY <1>4, <1>5, <1>6, <1>8, <1>9, <1>10 DEF Sound

LEMMA OfferFits ==
    ASSUME RowsInv, NEW o \in Orders, NEW m \in LinesOf(o), NEW hint,
           CreateOffer(o, m, hint), Sound(o), NEW asked, FitsNode(o, "offer", m, asked)
    PROVE  /\ Sound(o)' /\ FitsNode(o, "offer", m, asked)'
           /\ offer'[m].status # "none" => FitsNode(o, "wait_customer", m, FALSE)'
           /\ offer'[m].status = "none" => FitsNode(o, "drop_line", m, FALSE)'
<1>0. m \in Lines
  BY DEF LinesOf
<1>1. /\ Open(o) /\ Passed(o) /\ NonePendingBut(o, m)
      /\ ~line[m].dropped /\ ~line[m].reserved /\ offer[m].status \in {"none", "pending"}
  BY DEF FitsNode, LineNodes
<1>2. CASE UNCHANGED db
  <2>1. /\ Sound(o)' /\ Open(o)' /\ Passed(o)' /\ NonePendingBut(o, m)'
        /\ line'[m] = line[m] /\ offer'[m] = offer[m]
    BY <1>1, <1>2 DEF db, Sound, LineSound, OrderSound, NonePending, NonePendingBut, Open,
                      Placed, Passed, LinesOf
  <2> QED
    BY <1>1, <2>1 DEF FitsNode, LineNodes
<1>3. CASE ~UNCHANGED db
  <2>1. /\ offer[m].status = "none"
        /\ OrdersKeptBut(o, "awaiting_customer")
        /\ UNCHANGED <<line, shipped>>
        /\ outbox' = outbox \cup {<<"offer", m>>}
        /\ LinesKeptBut({m})
    BY <1>3, CreateOfferEffect
  <2>2. PICK p \in Products \ {Item[m]} : offer'[m] = NewOffer(p)
    BY <1>3, CreateOfferEffect
  <2>3. /\ offer'[m].status = "pending" /\ offer'[m].held /\ offer'[m].product = p
        /\ offer'[m].decision = "none"
    BY <2>2 DEF NewOffer, NoOffer
  <2>4. /\ Open(o)' /\ Passed(o)'
        /\ order'[o].status = "awaiting_customer"
    BY <1>1, <2>1 DEF OrdersKeptBut, Open, Passed, Placed, Settled, Refused
  <2>5. NonePendingBut(o, m)'
    BY <1>1, <2>1 DEF NonePendingBut, LinesKeptBut, LinesOf
  <2>6. \A l \in Lines : LineSound(l)'
    <3>1. LineSound(m)'
      BY <1>0, <1>1, <2>1, <2>2, <2>3 DEF Sound, LineSound
    <3> QED
      BY <2>1, <3>1, LineSoundKept DEF LinesKeptBut, Sound
  <2>7. OrderSound(o)'
    BY <1>1, <2>1, <2>4 DEF Sound, OrderSound, Ends, Open, LinesOf
  <2> QED
    BY <1>1, <2>1, <2>3, <2>4, <2>5, <2>6, <2>7 DEF Sound, FitsNode, LineNodes
<1> QED
  BY <1>2, <1>3

LEMMA ApplyFits ==
    ASSUME RowsInv, NEW o \in Orders, NEW m \in LinesOf(o), ApplyOffer(o, m),
           Sound(o), NEW asked, FitsNode(o, "apply", m, asked)
    PROVE  Sound(o)' /\ FitsNode(o, "apply", m, asked)' /\ FitsNode(o, "inventory", m, FALSE)'
<1>0. m \in Lines
  BY DEF LinesOf
<1>1. /\ Open(o) /\ Passed(o) /\ NonePendingBut(o, m) /\ LineSound(m)
      /\ \/ offer[m].status = "accepted"
         \/ offer[m].status = "pending" /\ offer[m].decision = "accept"
  BY <1>0 DEF FitsNode, LineNodes, Sound
<1>2. /\ order' = order /\ UNCHANGED <<outbox, shipped>> /\ LinesKeptBut({m})
      /\ offer'[m].status = "accepted"
      /\ LineSound(m)'
  <2>1. CASE UNCHANGED db /\ offer[m].status = "accepted"
    BY <1>1, <2>1 DEF db, LinesKeptBut, LineSound
  <2>2. CASE offer[m].status # "accepted"
    <3>1. /\ UNCHANGED <<order, outbox, shipped>>
          /\ LinesKeptBut({m})
          /\ line'[m] = [line[m] EXCEPT !.product = offer[m].product,
                                        !.price = offer[m].price, !.reserved = TRUE]
          /\ offer'[m] = [offer[m] EXCEPT !.held = FALSE, !.status = "accepted"]
      BY <2>2, ApplyEffect
    <3>2. line[m] \in LineRow /\ offer[m] \in OfferRow
      BY <1>0 DEF RowsInv, RowsOK
    <3>3. /\ line'[m].product = offer[m].product /\ line'[m].reserved
          /\ line'[m].dropped = line[m].dropped
          /\ offer'[m].product = offer[m].product /\ ~offer'[m].held
          /\ offer'[m].status = "accepted" /\ offer'[m].decision = offer[m].decision
      BY <3>1, <3>2 DEF LineRow, OfferRow
    <3>4. LineSound(m)'
      BY <1>1, <2>2, <3>3 DEF LineSound
    <3> QED
      BY <3>1, <3>3, <3>4
  <2> QED
    BY <2>1, <2>2, ApplyEffect
<1>3. \A l \in Lines : LineSound(l)'
  BY <1>2, LineSoundKept DEF LinesKeptBut, Sound
<1>4. NonePending(o)' /\ NonePendingBut(o, m)' /\ Open(o)' /\ Passed(o)'
  BY <1>1, <1>2 DEF NonePending, NonePendingBut, LinesKeptBut, LinesOf, Open, Placed, Passed
<1>5. OrderSound(o)'
  BY <1>1, <1>2, <1>4 DEF Sound, OrderSound, Open, LinesOf
<1> QED
  BY <1>2, <1>3, <1>4, <1>5 DEF Sound, FitsNode, LineNodes

LEMMA DropFits ==
    ASSUME RowsInv, NEW o \in Orders, NEW m \in LinesOf(o), DropLine(o, m),
           Sound(o), NEW asked, FitsNode(o, "drop_line", m, asked)
    PROVE  Sound(o)' /\ FitsNode(o, "drop_line", m, asked)' /\ FitsNode(o, "inventory", m, FALSE)'
<1>0. m \in Lines /\ line[m] \in LineRow /\ offer[m] \in OfferRow
  BY DEF LinesOf, RowsInv, RowsOK
<1>1. /\ Open(o) /\ Passed(o) /\ NonePendingBut(o, m) /\ LineSound(m)
      /\ \/ line[m].dropped
         \/ ~line[m].reserved /\ offer[m].status = "none"
         \/ offer[m].status = "pending" /\ offer[m].decision \in {"reject", "expired"}
  BY <1>0 DEF FitsNode, LineNodes, Sound
<1>2. /\ order' = order /\ shipped' = shipped /\ LinesKeptBut({m})
      /\ outbox' \in {outbox, outbox \cup {<<"line_drop", m>>}}
      /\ line'[m].dropped /\ offer'[m].status # "pending"
      /\ LineSound(m)'
  <2>1. CASE UNCHANGED db /\ line[m].dropped
    BY <1>1, <2>1 DEF db, LinesKeptBut, LineSound
  <2>2. CASE ~line[m].dropped
    <3>1. /\ UNCHANGED <<order, shipped>>
          /\ outbox' = outbox \cup {<<"line_drop", m>>}
          /\ LinesKeptBut({m})
          /\ line'[m] = [line[m] EXCEPT !.dropped = TRUE]
          /\ offer'[m] = [offer[m] EXCEPT !.held = FALSE, !.status = Closed(offer[m])]
      BY <2>2, DropEffect
    <3>2. /\ line'[m].product = line[m].product /\ line'[m].reserved = line[m].reserved
          /\ line'[m].dropped
          /\ offer'[m].product = offer[m].product /\ ~offer'[m].held
          /\ offer'[m].status = Closed(offer[m]) /\ offer'[m].decision = offer[m].decision
      BY <1>0, <3>1 DEF LineRow, OfferRow
    <3>3. /\ offer[m].status = "none" => Closed(offer[m]) = "none"
          /\ offer[m].status = "pending" => Closed(offer[m]) = offer[m].decision
      BY <1>1, <2>2 DEF Closed
    <3>4. LineSound(m)' /\ offer'[m].status # "pending"
      BY <1>1, <2>2, <3>2, <3>3 DEF LineSound
    <3> QED
      BY <3>1, <3>2, <3>4
  <2> QED
    BY <2>1, <2>2, DropEffect
<1>3. \A l \in Lines : LineSound(l)'
  BY <1>2, LineSoundKept DEF LinesKeptBut, Sound
<1>4. NonePending(o)' /\ NonePendingBut(o, m)' /\ Open(o)' /\ Passed(o)'
  BY <1>1, <1>2 DEF NonePending, NonePendingBut, LinesKeptBut, LinesOf, Open, Placed, Passed
<1>5. OrderSound(o)'
  BY <1>1, <1>2, <1>4 DEF Sound, OrderSound, Ends, Open, LinesOf
<1> QED
  BY <1>2, <1>3, <1>4, <1>5 DEF Sound, FitsNode, LineNodes

LEMMA FulfillFits ==
    ASSUME RowsInv, NEW o \in Orders, Fulfill(o), Sound(o),
           NEW m, NEW asked, FitsNode(o, "fulfill", m, asked)
    PROVE  Sound(o)' /\ FitsNode(o, "fulfill", m, asked)' /\ FitsNode(o, "end", m, FALSE)'
<1>1. order'[o].status = "ready_for_fulfillment"
  BY FulfillEffect DEF OrdersKeptBut, db
<1>2. UNCHANGED <<line, offer>>
  BY FulfillEffect DEF db
<1>3. \A l \in Lines : LineSound(l)'
  BY <1>2, LineSoundKept DEF Sound
<1>4. NonePending(o)
  BY DEF FitsNode, Sound, OrderSound
<1>5. \A l \in LinesOf(o) : line[l].reserved <=> l \in shipped'
  <2>1. CASE order[o].status = "ready_for_fulfillment"
    BY <2>1, FulfillEffect DEF db, Sound, OrderSound, Settled
  <2>2. CASE order[o].status # "ready_for_fulfillment"
    <3>1. Open(o) /\ Wanted(o) = {} /\ shipped' = shipped \cup Active(o)
      BY <2>2, FulfillEffect DEF FitsNode
    <3>2. ASSUME NEW l \in LinesOf(o) PROVE line[l].reserved <=> l \in Active(o)
      <4>1. LineSound(l)
        BY DEF Sound, LinesOf
      <4> QED
        BY <3>1, <4>1 DEF LineSound, Wanted, Active
    <3>3. \A l \in LinesOf(o) : l \notin shipped
      BY <3>1 DEF Sound, OrderSound, Open
    <3> QED
      BY <3>1, <3>2, <3>3
  <2> QED
    BY <2>1, <2>2
<1>6. OrderSound(o)'
  BY <1>1, <1>2, <1>4, <1>5 DEF OrderSound, NonePending, Settled, LinesOf
<1> QED
  BY <1>1, <1>3, <1>6 DEF Sound, FitsNode, LineNodes, Settled

LEMMA CancelFits ==
    ASSUME RowsInv, NEW o \in Orders, Cancel(o), Sound(o),
           NEW m, NEW asked, FitsNode(o, "cancel", m, asked)
    PROVE  Sound(o)' /\ FitsNode(o, "cancel", m, asked)' /\ FitsNode(o, "end", m, FALSE)'
<1>1. order'[o].status \in Refused
  BY CancelEffect DEF OrdersKeptBut, db
<1>2. CASE UNCHANGED db
  BY <1>1, <1>2 DEF db, Sound, LineSound, OrderSound, NonePending, LinesOf, FitsNode,
                    LineNodes, Settled, Refused
<1>3. CASE ~UNCHANGED db
  <2>1. /\ order[o].status \notin Refused
        /\ shipped' = shipped /\ outbox' = outbox \cup {<<"cancel", o>>}
        /\ LinesKeptBut(LinesOf(o))
        /\ \A l \in LinesOf(o) :
              /\ line'[l] = [line[l] EXCEPT !.reserved = FALSE]
              /\ offer'[l] = [offer[l] EXCEPT !.held = FALSE,
                                              !.status = Closed(offer[l])]
    BY <1>3, CancelEffect
  <2>2. Open(o) /\ (Untaken(o) \/ Active(o) = {})
    BY <2>1 DEF FitsNode
  <2>3. ASSUME NEW l \in LinesOf(o)
        PROVE  /\ LineSound(l)' /\ ~line'[l].reserved /\ l \notin shipped'
               /\ offer'[l].status # "pending"
    <3>1. l \in Lines /\ line[l] \in LineRow /\ offer[l] \in OfferRow
      BY DEF LinesOf, RowsInv, RowsOK
    <3>2. LineSound(l)
      BY <3>1 DEF Sound
    <3>3. line[l].dropped \/ (offer[l].status = "none" /\ ~line[l].reserved)
      BY <2>2 DEF Untaken, Active
    <3>4. offer[l].status \in {"none", "reject", "expired"} /\ ~line[l].reserved
      BY <3>2, <3>3 DEF LineSound
    <3>5. Closed(offer[l]) = offer[l].status
      BY <3>4 DEF Closed
    <3>6. /\ line'[l].product = line[l].product /\ ~line'[l].reserved
          /\ line'[l].dropped = line[l].dropped
          /\ offer'[l].product = offer[l].product /\ ~offer'[l].held
          /\ offer'[l].status = offer[l].status /\ offer'[l].decision = offer[l].decision
      BY <2>1, <3>1, <3>5 DEF LineRow, OfferRow
    <3>7. l \notin shipped'
      BY <2>1, <2>2 DEF Sound, OrderSound, Open
    <3> QED
      BY <3>2, <3>4, <3>6, <3>7 DEF LineSound
  <2>4. \A l \in Lines : LineSound(l)'
    BY <2>1, <2>3, LineSoundKept DEF LinesKeptBut, Sound
  <2>5. OrderSound(o)'
    BY <1>1, <2>3 DEF OrderSound, NonePending, Settled, Refused, LinesOf
  <2> QED
    BY <1>1, <2>4, <2>5 DEF Sound, FitsNode, LineNodes, Settled, Refused
<1> QED
  BY <1>2, <1>3

-----------------------------------------------------------------------------
(***************************************************************************)
(* The nodes, one by one.                                                  *)
(***************************************************************************)

LEMMA NothingWritten ==
    ASSUME UNCHANGED db, NEW o \in Orders, NEW at, NEW m, NEW asked
    PROVE  Sound(o)' = Sound(o) /\ FitsNode(o, at, m, asked)' = FitsNode(o, at, m, asked)
<1>1. \A l \in Lines : LineSound(l)' = LineSound(l)
  BY DEF db, LineSound
<1>2. OrderSound(o)' = OrderSound(o)
  BY DEF db, OrderSound, NonePending, LinesOf
<1>3. FitsNode(o, at, m, asked)' = FitsNode(o, at, m, asked)
  BY DEF db, FitsNode, Untaken, Open, Placed, Passed, NonePending, NonePendingBut,
         LinesOf, Active, Wanted
<1> QED
  BY <1>1, <1>2, <1>3 DEF Sound

LEMMA GoToSteady ==
    ASSUME TypeInv, OneNodeBehind, NEW o \in Orders, ~Unlocked(o),
           NEW at, at = live[o].at, NEW m, m = live[o].missing,
           NEW asked, asked = live[o].asked,
           NEW n \in Nodes \ {"fraud"}, GoTo(o, n), OrderSound(o)',
           FitsNode(o, at, m, asked)', FitsNode(o, n, m, FALSE)',
           at = "fraud" => order'[o].status \notin Refused
    PROVE  Steady(o)'
<1>1. live[o] \in Checkpoint
  BY TypeInvParts DEF ControlOK
<1>2. PICK old \in Checkpoint : old = live[o]
  BY <1>1
<1>3. PICK c \in Checkpoint : c = [live[o] EXCEPT !.at = n, !.asked = FALSE]
  BY <1>1 DEF Checkpoint
<1>4. Save(o, c) /\ c.at = n /\ c.missing = m /\ c.asked = FALSE
  BY <1>1, <1>3 DEF GoTo, Checkpoint
<1>5. old.at = at /\ old.missing = m /\ old.asked = asked
  BY <1>2
<1>6. Fits(o, c)' /\ Fits(o, old)'
  BY <1>4, <1>5 DEF Fits
<1> QED
  BY <1>2, <1>4, <1>5, <1>6, NodeSteady

LEMMA AskSteady ==
    ASSUME TypeInv, OneNodeBehind, NEW o \in Orders, ~Unlocked(o),
           NEW at, at = live[o].at, NEW m, m = live[o].missing,
           NEW asked, asked = live[o].asked, at # "fraud",
           Ask(o), OrderSound(o)',
           FitsNode(o, at, m, asked)', FitsNode(o, at, m, TRUE)'
    PROVE  Steady(o)'
<1>1. live[o] \in Checkpoint
  BY TypeInvParts DEF ControlOK
<1>2. PICK old \in Checkpoint : old = live[o]
  BY <1>1
<1>3. PICK c \in Checkpoint : c = [live[o] EXCEPT !.asked = TRUE]
  BY <1>1 DEF Checkpoint
<1>4. Save(o, c) /\ c.at = at /\ c.missing = m /\ c.asked = TRUE
  BY <1>1, <1>3 DEF Ask, Checkpoint
<1>5. old.at = at /\ old.missing = m /\ old.asked = asked
  BY <1>2
<1>6. Fits(o, c)' /\ Fits(o, old)'
  BY <1>4, <1>5 DEF Fits
<1> QED
  BY <1>2, <1>4, <1>5, <1>6, NodeSteady

\* A node leaves its order the way its next node and a second run expect it.
LEMMA NodeOwn ==
    ASSUME ConsentInv, OneNodeBehind, NEW w \in Workers, NEW o \in Orders, Node(w, o),
           Sound(o), Steady(o),
           NEW at, at = live[o].at, NEW m, m = live[o].missing,
           NEW asked, asked = live[o].asked
    PROVE  Sound(o)' /\ Steady(o)'
<1>0. /\ TypeInv /\ RowsInv /\ lock[o] = w /\ ~Unlocked(o) /\ ~Paused(o) /\ Placed(o)
      /\ at \in LineNodes => m \in LinesOf(o)
  BY NodeRuns, TypeInvParts, WorkflowAssumption DEF ConsentInv, Unlocked
<1>1. FitsNode(o, at, m, asked)
  BY DEF Steady, Stored, Fits
<1>2. CASE Fraud(w, o)
  <2>1. at = "fraud" /\ UNCHANGED db
    BY <1>2 DEF Fraud, Running
  <2>2. Untaken(o) /\ order[o].status = "received" /\ order'[o].status \notin Refused
    BY <1>0, <1>1, <2>1 DEF FitsNode, Placed, Steady, WithdrawnRests, Stored, db, Refused
  <2>3. /\ order[o].high => FitsNode(o, "manual", m, FALSE)
        /\ ~order[o].high => FitsNode(o, "inventory", m, FALSE)
    BY <2>2 DEF FitsNode, Untaken, NonePending, NonePendingBut, Open, Placed, Passed,
                Settled, Refused, LineNodes
  <2>4. Sound(o)' /\ FitsNode(o, at, m, asked)'
    BY <1>1, <2>1, NothingWritten
  <2>5. PICK n \in {"manual", "inventory"} : GoTo(o, n) /\ FitsNode(o, n, m, FALSE)
    BY <1>2, <2>3 DEF Fraud
  <2>6. FitsNode(o, n, m, FALSE)'
    BY <2>1, <2>5, NothingWritten
  <2> QED
    BY <1>0, <2>1, <2>2, <2>4, <2>5, <2>6, GoToSteady DEF Sound, Nodes
<1>3. CASE AskAuditor(w, o)
  <2>1. at = "manual" /\ asked = FALSE /\ FlagAudit(o) /\ Ask(o)
    BY <1>0, <1>3, TypeInvParts DEF AskAuditor, Running, ControlOK, Checkpoint
  <2> QED
    BY <1>0, <1>1, <2>1, FlagFits, AskSteady DEF Sound
<1>4. CASE AuditorAnswered(w, o)
  <2>1. at = "manual" /\ asked = TRUE /\ FlagAudit(o)
    BY <1>0, <1>4, TypeInvParts DEF AuditorAnswered, Running, ControlOK, Checkpoint
  <2>2. resume[o] = order[o].manual /\ order[o].manual \in {"approve", "reject"}
    BY <1>0, <2>1 DEF Paused, ConsentInv, Consent, AnswerCurrent, Decision, RowsInv, RowsOK,
                      OrderRow
  <2>3. Sound(o)' /\ FitsNode(o, at, m, asked)'
    BY <1>0, <1>1, <2>1, FlagFits
  <2>4. PICK n \in {"inventory", "cancel"} : GoTo(o, n) /\ FitsNode(o, n, m, FALSE)'
    BY <1>0, <1>1, <1>4, <2>1, <2>2, FlagFits DEF AuditorAnswered
  <2> QED
    BY <1>0, <2>1, <2>3, <2>4, GoToSteady DEF Sound, Nodes
<1>5. CASE CheckStock(w, o)
  <2>1. at = "inventory"
    BY <1>5 DEF CheckStock, Running
  <2> DEFINE done == [at |-> IF Active(o) = {} THEN "cancel" ELSE "fulfill",
                      missing |-> NoLine, asked |-> FALSE]
             short(l) == [at |-> "offer", missing |-> l, asked |-> FALSE]
  <2>2. PICK got \in SUBSET Wanted(o) :
           /\ Inventory(o, got)
           /\ \/ got = Wanted(o) /\ Save(o, done)
              \/ \E l \in Wanted(o) \ got : Save(o, short(l))
    <3>1. PICK got \in SUBSET Wanted(o) :
             /\ Inventory(o, got)
             /\ \/ Wanted(o) \ got = {} /\ Save(o, done)
                \/ \E l \in Wanted(o) \ got : Save(o, short(l))
      BY <1>5 DEF CheckStock
    <3>2. Wanted(o) \ got = {} => got = Wanted(o)
      OBVIOUS
    <3> QED
      BY <3>1, <3>2
  <2>3. Sound(o)' /\ FitsNode(o, at, m, asked)'
    BY <1>0, <1>1, <2>1, <2>2, InventoryFits
  <2>4. PICK old \in Checkpoint : old = live[o]
    BY <1>0, TypeInvParts DEF ControlOK
  <2>5. PICK c \in Checkpoint : Save(o, c) /\ Fits(o, c)' /\ c.at # "fraud"
    <3>1. CASE got = Wanted(o) /\ Active(o) = {}
      <4> DEFINE c == [at |-> "cancel", missing |-> NoLine, asked |-> FALSE]
      <4>1. Save(o, c)
        BY <2>2, <3>1
      <4>2. FitsNode(o, "cancel", NoLine, FALSE)'
        BY <1>0, <1>1, <2>1, <2>2, <3>1, InventoryFits
      <4>3. c \in Checkpoint /\ Fits(o, c)' /\ c.at # "fraud"
        BY <4>2 DEF Checkpoint, Nodes, Fits
      <4> QED
        BY <4>1, <4>3
    <3>2. CASE got = Wanted(o) /\ Active(o) # {}
      <4> DEFINE c == [at |-> "fulfill", missing |-> NoLine, asked |-> FALSE]
      <4>1. Save(o, c)
        BY <2>2, <3>2
      <4>2. FitsNode(o, "fulfill", NoLine, FALSE)'
        BY <1>0, <1>1, <2>1, <2>2, <3>2, InventoryFits
      <4>3. c \in Checkpoint /\ Fits(o, c)' /\ c.at # "fraud"
        BY <4>2 DEF Checkpoint, Nodes, Fits
      <4> QED
        BY <4>1, <4>3
    <3>3. CASE got # Wanted(o)
      <4>1. PICK l \in Wanted(o) \ got :
               Save(o, [at |-> "offer", missing |-> l, asked |-> FALSE])
        BY <2>2, <3>3
      <4> DEFINE c == [at |-> "offer", missing |-> l, asked |-> FALSE]
      <4>2. FitsNode(o, "offer", l, FALSE)'
        BY <1>0, <1>1, <2>1, <2>2, InventoryFits
      <4>3. c \in Checkpoint /\ Fits(o, c)' /\ c.at # "fraud"
        BY <4>2 DEF Checkpoint, Nodes, Fits, Wanted, Active, LinesOf
      <4> QED
        BY <4>1, <4>3
    <3> QED
      BY <3>1, <3>2, <3>3
  <2>6. Fits(o, old)'
    BY <2>3, <2>4 DEF Fits
  <2> QED
    BY <1>0, <2>1, <2>3, <2>4, <2>5, <2>6, NodeSteady DEF Sound
<1>6. CASE Offer(w, o)
  <2>1. at = "offer" /\ m \in LinesOf(o)
    BY <1>0, <1>6 DEF Offer, Running, LineNodes
  <2>2. PICK hint \in Hints : CreateOffer(o, m, hint)
    BY <1>6 DEF Offer
  <2>3. Sound(o)' /\ FitsNode(o, at, m, asked)'
    BY <1>0, <1>1, <2>1, <2>2, OfferFits
  <2>4. PICK n \in {"wait_customer", "drop_line"} : GoTo(o, n) /\ FitsNode(o, n, m, FALSE)'
    BY <1>0, <1>1, <1>6, <2>1, <2>2, OfferFits DEF Offer
  <2> QED
    BY <1>0, <2>1, <2>3, <2>4, GoToSteady DEF Sound, Nodes
<1>7. CASE AskCustomer(w, o)
  <2>1. at = "wait_customer" /\ UNCHANGED db /\ Ask(o)
    BY <1>7 DEF AskCustomer, Running
  <2>2. FitsNode(o, at, m, TRUE)
    BY <1>1, <2>1 DEF FitsNode, LineNodes
  <2>3. Sound(o)' /\ FitsNode(o, at, m, asked)' /\ FitsNode(o, at, m, TRUE)'
    BY <1>1, <2>1, <2>2, NothingWritten
  <2> QED
    BY <1>0, <2>1, <2>3, AskSteady DEF Sound
<1>8. CASE CustomerAnswered(w, o)
  <2>1. at = "wait_customer" /\ asked = TRUE /\ m \in LinesOf(o) /\ UNCHANGED db
    BY <1>0, <1>8, TypeInvParts DEF CustomerAnswered, Running, LineNodes, ControlOK, Checkpoint
  <2>2. /\ resume[o] = offer[m].decision
        /\ offer[m].decision \in {"accept", "reject", "expired"}
    BY <1>0, <2>1 DEF Paused, ConsentInv, Consent, AnswerCurrent, Decision, RowsInv, RowsOK,
                      OfferRow, LinesOf
  <2>3. Sound(o)' /\ FitsNode(o, at, m, asked)'
    BY <1>1, <2>1, NothingWritten
  <2>4. /\ resume[o] = "accept" => FitsNode(o, "apply", m, FALSE)
        /\ resume[o] # "accept" => FitsNode(o, "drop_line", m, FALSE)
    BY <1>1, <2>1, <2>2 DEF FitsNode, LineNodes
  <2>5. PICK n \in {"apply", "drop_line"} : GoTo(o, n) /\ FitsNode(o, n, m, FALSE)
    BY <1>8, <2>4 DEF CustomerAnswered
  <2>6. FitsNode(o, n, m, FALSE)'
    BY <2>1, <2>5, NothingWritten
  <2> QED
    BY <1>0, <2>1, <2>3, <2>5, <2>6, GoToSteady DEF Sound, Nodes
<1>9. CASE Apply(w, o)
  <2>1. at = "apply" /\ m \in LinesOf(o) /\ ApplyOffer(o, m) /\ GoTo(o, "inventory")
    BY <1>0, <1>9 DEF Apply, Running, LineNodes
  <2> QED
    BY <1>0, <1>1, <2>1, ApplyFits, GoToSteady DEF Sound, Nodes
<1>10. CASE Drop(w, o)
  <2>1. at = "drop_line" /\ m \in LinesOf(o) /\ DropLine(o, m) /\ GoTo(o, "inventory")
    BY <1>0, <1>10 DEF Drop, Running, LineNodes
  <2> QED
    BY <1>0, <1>1, <2>1, DropFits, GoToSteady DEF Sound, Nodes
<1>11. CASE Ship(w, o)
  <2>1. at = "fulfill" /\ Fulfill(o) /\ GoTo(o, "end")
    BY <1>11 DEF Ship, Running
  <2> QED
    BY <1>0, <1>1, <2>1, FulfillFits, GoToSteady DEF Sound, Nodes
<1>12. CASE Refuse(w, o)
  <2>1. at = "cancel" /\ Cancel(o) /\ GoTo(o, "end")
    BY <1>12 DEF Refuse, Running
  <2> QED
    BY <1>0, <1>1, <2>1, CancelFits, GoToSteady DEF Sound, Nodes
<1> QED
  BY <1>2, <1>3, <1>4, <1>5, <1>6, <1>7, <1>8, <1>9, <1>10, <1>11, <1>12 DEF Node

\* A transaction writes no row of another order.
LEMMA NodeOthers ==
    ASSUME TypeInv, NEW w \in Workers, NEW o \in Orders, Node(w, o),
           NEW q \in Orders \ {o}
    PROVE  RowsKept(q)
<1>0. RowsInv
  BY TypeInvParts
<1>1. CASE UNCHANGED db
  BY <1>1 DEF db, RowsKept
<1>2. CASE FlagAudit(o)
  BY <1>0, <1>2, FlagEffect DEF OrdersKeptBut, RowsKept
<1>3. ASSUME NEW got \in SUBSET Wanted(o), Inventory(o, got) PROVE RowsKept(q)
  BY <1>0, <1>3, InventoryEffect, OthersKept DEF OrdersKeptBut, LinesKeptBut
<1>4. ASSUME NEW hint, NEW l \in LinesOf(o), CreateOffer(o, l, hint), ~UNCHANGED db
      PROVE  RowsKept(q)
  BY <1>0, <1>4, CreateOfferEffect, OthersKept DEF OrdersKeptBut, LinesKeptBut, LinesOf
<1>5. ASSUME NEW l \in LinesOf(o), ApplyOffer(o, l), ~UNCHANGED db PROVE RowsKept(q)
  <2>1. UNCHANGED <<order, outbox, shipped>> /\ LinesKeptBut({l})
    BY <1>0, <1>5, ApplyEffect
  <2>2. LinesKeptBut(LinesOf(o))
    BY <2>1 DEF LinesKeptBut
  <2> QED
    BY <2>1, <2>2, OthersKept
<1>6. ASSUME NEW l \in LinesOf(o), DropLine(o, l), ~UNCHANGED db PROVE RowsKept(q)
  <2>1. /\ UNCHANGED <<order, shipped>> /\ LinesKeptBut({l})
        /\ outbox' = outbox \cup {<<"line_drop", l>>}
    BY <1>0, <1>6, DropEffect
  <2>2. LinesKeptBut(LinesOf(o))
    BY <2>1 DEF LinesKeptBut
  <2> QED
    BY <2>1, <2>2, OthersKept DEF LinesOf
<1>7. ASSUME Fulfill(o), ~UNCHANGED db PROVE RowsKept(q)
  <2>1. /\ order'[q] = order[q] /\ LinesKeptBut(LinesOf(o))
        /\ shipped' = shipped \cup Active(o)
        /\ outbox' = outbox \cup {<<"fulfill", o>>}
                        \cup (IF Owed(o) THEN {<<"adjustment", o>>} ELSE {})
    BY <1>0, <1>7, FulfillEffect DEF OrdersKeptBut, LinesKeptBut
  <2> QED
    BY <2>1, OthersKept DEF Ends, Active
<1>8. ASSUME Cancel(o), ~UNCHANGED db PROVE RowsKept(q)
  BY <1>0, <1>8, CancelEffect, OthersKept DEF OrdersKeptBut, Ends
<1> QED
  BY <1>1, <1>2, <1>3, <1>4, <1>5, <1>6, <1>7, <1>8, NodeRuns

-----------------------------------------------------------------------------
(***************************************************************************)
(* What goes on around the drives.                                         *)
(***************************************************************************)

\* No node of a locked order must raise.
LEMMA NoneMustRaise ==
    ASSUME TypeInv, NEW o \in Orders, Sound(o), Steady(o)
    PROVE  ~MustRaise(o)
<1>1. Fits(o, live[o])
  BY DEF Steady, Stored
<1>2. live[o].at = "apply" => CanApply(live[o].missing)
  <2>1. live[o].at = "apply" => live[o].missing \in Lines
    BY TypeInvParts DEF CheckpointsOK, OfOrder, LineNodes, LinesOf
  <2> QED
    BY <1>1, <2>1 DEF Fits, FitsNode, Sound, LineSound, CanApply
<1>3. live[o].at = "fulfill" => CanFulfill(o)
  BY <1>1 DEF Fits, FitsNode, Open, Sound, OrderSound, Ends, CanFulfill
<1>4. live[o].at = "cancel" => CanCancel(o)
  BY <1>1 DEF Fits, FitsNode, Open, Sound, OrderSound, Ends, CanCancel
<1> QED
  BY <1>2, <1>3, <1>4 DEF MustRaise

\* An order that goes on from a checkpoint it had stored, its rows untouched.
LEMMA SteadyAgain ==
    ASSUME TypeInv, NEW q \in Orders, RowsKept(q), Steady(q),
           Stored(q)' \subseteq Stored(q), WithdrawnRests(q)', Rested(q)'
    PROVE  Steady(q)'
<1>1. ASSUME NEW c \in Stored(q) PROVE Fits(q, c)'
  <2>1. c \in Checkpoint /\ OfOrder(q, c)
    BY TypeInvParts DEF Stored, ControlOK, CheckpointsOK
  <2>2. Fits(q, c)
    BY DEF Steady
  <2> QED
    BY <2>1, <2>2, FitsKept
<1>2. OrderSound(q)'
  BY OrderSoundKept DEF Steady
<1> QED
  BY <1>1, <1>2 DEF Steady

\* An answer, or the deadline, of a pending offer: nothing its order waits for
\* was decided otherwise.
LEMMA AnswerFits ==
    ASSUME NEW l \in Lines, NEW o \in Orders, OrderOf[l] = o, offer[l].status = "pending",
           UNCHANGED <<order, line, outbox, shipped>>,
           \A k \in Lines \ {l} : offer'[k] = offer[k],
           offer'[l].status = offer[l].status, offer'[l].product = offer[l].product,
           offer'[l].held = offer[l].held,
           offer'[l].decision = offer[l].decision \/ offer[l].decision = "none"
    PROVE  /\ \A k \in Lines : LineSound(k) => LineSound(k)'
           /\ OrderSound(o) => OrderSound(o)'
           /\ \A c \in Checkpoint : OfOrder(o, c) /\ Fits(o, c) => Fits(o, c)'
<1>1. ASSUME NEW k \in Lines, LineSound(k) PROVE LineSound(k)'
  <2>1. CASE k = l
    BY <1>1, <2>1 DEF LineSound
  <2>2. CASE k # l
    BY <1>1, <2>2, LineSoundKept
  <2> QED
    BY <2>1, <2>2
<1>2. \A k \in Lines : offer'[k].status = offer[k].status
  OBVIOUS
<1>3. OrderSound(o) => OrderSound(o)'
  BY <1>2 DEF OrderSound, NonePending, LinesOf
<1>4. ASSUME NEW c \in Checkpoint, OfOrder(o, c), Fits(o, c) PROVE Fits(o, c)'
  <2> DEFINE at == c.at
             m == c.missing
             asked == c.asked
  <2>1. at \in LineNodes => m \in Lines
    BY <1>4 DEF OfOrder, LinesOf
  <2>2. FitsNode(o, at, m, asked)
    BY <1>4 DEF Fits
  <2> HIDE DEF at, m, asked
  <2>3. /\ Untaken(o)' <=> Untaken(o)
        /\ Open(o)' <=> Open(o)
        /\ Passed(o)' <=> Passed(o)
        /\ NonePending(o)' <=> NonePending(o)
        /\ NonePendingBut(o, m)' <=> NonePendingBut(o, m)
        /\ Active(o)' = Active(o) /\ Wanted(o)' = Wanted(o)
    BY <1>2 DEF Untaken, Open, Passed, NonePending, NonePendingBut, Placed, Active, Wanted,
                LinesOf
  <2>4. at \in LineNodes =>
           /\ offer'[m].status = offer[m].status
           /\ offer'[m].decision = offer[m].decision \/ offer[m].decision = "none"
    BY <2>1
  <2>5. FitsNode(o, at, m, asked)'
    BY <2>2, <2>3, <2>4 DEF FitsNode, LineNodes
  <2> QED
    BY <2>5 DEF Fits, at, m, asked
<1> QED
  BY <1>1, <1>3, <1>4

LEMMA OfferProgress ==
    ASSUME ProgressInv, NEW l \in Lines,
           \/ \E d \in {"accept", "reject"} : Reply(l, d)
           \/ Deadline(l) \/ \E w \in Workers : ExpireOffer(w, l)
    PROVE  (\A k \in Lines : LineSound(k)') /\ \A q \in Orders : Steady(q)'
<1>0. TypeInv /\ RowsInv /\ RowsOK /\ ControlOK
  BY TypeInvParts DEF ProgressInv, ConsentInv, RowsInv
<1>1. PICK o \in Orders : OrderOf[l] = o
  BY OrderAssumption
<1>2. /\ UNCHANGED <<order, line, outbox, shipped, live, stale, lock>>
      /\ offer[l].status = "pending"
      /\ \A q \in Orders \ {o} : job'[q] = job[q]
  BY <1>0, <1>1 DEF Reply, Deadline, ExpireOffer, StillOpen, Wake, graph, ControlOK
<1>3. \/ /\ offer[l].decision = "none"
         /\ \E d : offer' = [offer EXCEPT ![l].decision = d]
      \/ offer' = [offer EXCEPT ![l].due = TRUE]
  BY DEF Reply, Deadline, ExpireOffer, StillOpen
<1>4. /\ \A k \in Lines \ {l} : offer'[k] = offer[k]
      /\ offer'[l].status = offer[l].status /\ offer'[l].product = offer[l].product
      /\ offer'[l].held = offer[l].held
      /\ offer'[l].decision = offer[l].decision \/ offer[l].decision = "none"
  BY <1>0, <1>3 DEF RowsOK, OfferRow
<1>5. \A k \in Lines : LineSound(k)'
  BY <1>1, <1>2, <1>4, AnswerFits DEF ProgressInv
<1>6. Steady(o)'
  <2>1. Steady(o)
    BY DEF ProgressInv
  <2>2. Stored(o)' = Stored(o)
    BY <1>2 DEF Stored
  <2>3. \A c \in Stored(o) : c \in Checkpoint /\ OfOrder(o, c)
    BY <1>0, TypeInvParts DEF Stored, ControlOK, CheckpointsOK
  <2>4. \A c \in Stored(o) : Fits(o, c)'
    BY <1>1, <1>2, <1>4, <2>1, <2>3, AnswerFits DEF Steady
  <2>5. OrderSound(o)'
    BY <1>1, <1>2, <1>4, <2>1, AnswerFits DEF Steady
  <2>6. order[o].status = "awaiting_customer"
    BY <1>1, <1>2, <2>1 DEF Steady, OrderSound, NonePending, LinesOf
  <2>7. WithdrawnRests(o)' /\ Rested(o)'
    BY <1>2, <2>1, <2>6 DEF Steady, WithdrawnRests, Rested, Unlocked, Refused
  <2> QED
    BY <2>2, <2>4, <2>5, <2>7 DEF Steady
<1>7. ASSUME NEW q \in Orders \ {o} PROVE Steady(q)'
  <2>1. RowsKept(q)
    BY <1>1, <1>2, <1>4 DEF RowsKept, LinesOf
  <2> QED
    BY <1>0, <1>2, <2>1, SteadyKept DEF ProgressInv
<1> QED
  BY <1>5, <1>6, <1>7

LEMMA PlaceProgress ==
    ASSUME ProgressInv, NEW o \in Orders, Place(o)
    PROVE  (\A k \in Lines : LineSound(k)') /\ \A q \in Orders : Steady(q)'
<1>0. TypeInv /\ RowsInv /\ RowsOK /\ RowsFit /\ ControlOK /\ Untouched(o)
  BY TypeInvParts DEF ProgressInv, ConsentInv, Consent, RowsInv, Place, PlaceOrder, Placed
<1>1. /\ ~Placed(o) /\ UNCHANGED <<offer, shipped, live, stale, lock>>
      /\ line' = [l \in Lines |-> IF OrderOf[l] = o
                                  THEN [NoRow EXCEPT !.product = Item[l],
                                                     !.price = Price[Item[l]]]
                                  ELSE line[l]]
      /\ outbox' = outbox \cup {<<"confirm", o>>}
      /\ \A q \in Orders \ {o} : job'[q] = job[q]
  BY <1>0 DEF Place, PlaceOrder, Placed, graph, ControlOK
<1>2. order'[o].status = "received" /\ \A q \in Orders \ {o} : order'[q] = order[q]
  <2>1. PICK high \in BOOLEAN, method \in {"prepaid", "cod"} :
           order' = [order EXCEPT ![o].status = "received",
                                  ![o].high = high, ![o].method = method]
    BY DEF Place, PlaceOrder
  <2> QED
    BY <1>0, <2>1 DEF RowsOK, OrderRow
<1>3. ASSUME NEW l \in LinesOf(o)
      PROVE  /\ line'[l].product = Item[l] /\ ~line'[l].reserved /\ ~line'[l].dropped
             /\ offer'[l].status = "none" /\ l \notin shipped'
  BY <1>0, <1>1 DEF NoRow, RowsFit, Untouched, LinesOf
<1>4. ASSUME NEW l \in Lines PROVE LineSound(l)'
  <2>1. CASE l \in LinesOf(o)
    BY <1>1, <1>3, <2>1 DEF ProgressInv, LineSound
  <2>2. CASE l \notin LinesOf(o)
    BY <1>1, <2>2, LineSoundKept DEF ProgressInv, LinesOf
  <2> QED
    BY <2>1, <2>2
<1>5. Steady(o)'
  <2>1. live'[o] = Entry /\ Stored(o)' = {Entry}
    BY <1>0, <1>1 DEF Untouched, Stored
  <2>2. Untaken(o)' /\ NonePending(o)'
    BY <1>3 DEF Untaken, NonePending, LinesOf
  <2>3. Fits(o, Entry)'
    BY <1>2, <2>2 DEF Fits, FitsNode, Entry, LineNodes
  <2>4. \A e \in Ends : <<e, o>> \notin outbox'
    BY <1>1 DEF ProgressInv, Steady, OrderSound, Placed, Ends, Settled, Refused
  <2>5. OrderSound(o)'
    BY <1>2, <1>3, <2>2, <2>4 DEF OrderSound, Settled, Refused, LinesOf
  <2>6. WithdrawnRests(o)' /\ Rested(o)'
    BY <1>2, <2>1 DEF WithdrawnRests, Rested, Refused, Entry
  <2> QED
    BY <2>1, <2>3, <2>5, <2>6 DEF Steady
<1>6. ASSUME NEW q \in Orders \ {o} PROVE Steady(q)'
  <2>1. LinesKeptBut(LinesOf(o))
    BY <1>1 DEF LinesKeptBut, LinesOf
  <2>2. outbox' \subseteq outbox \cup ({"confirm", "offer", "line_drop"} \X (Orders \cup Lines))
    <3>1. <<"confirm", o>> \in {"confirm", "offer", "line_drop"} \X (Orders \cup Lines)
      OBVIOUS
    <3> QED
      BY <1>1, <3>1
  <2>3. RowsKept(q)
    BY <1>1, <1>2, <2>1, <2>2, OthersKept
  <2> QED
    BY <1>0, <1>1, <2>3, SteadyKept DEF ProgressInv
<1> QED
  BY <1>4, <1>5, <1>6

LEMMA CustomerCancelProgress ==
    ASSUME ProgressInv, CancelsInTime, NEW o \in Orders, CustomerCancel(o)
    PROVE  (\A k \in Lines : LineSound(k)') /\ \A q \in Orders : Steady(q)'
<1>0. TypeInv /\ RowsInv /\ ControlOK /\ Steady(o) /\ UNCHANGED <<lock, live, stale>>
  BY TypeInvParts DEF ProgressInv, ConsentInv, CustomerCancel, graph
<1>1. CASE order[o].status # "received"
  <2>1. UNCHANGED <<db, job>>
    BY <1>1 DEF CustomerCancel, CancelledIfReceived
  <2>2. \A q \in Orders : RowsKept(q)
    BY <2>1 DEF db, RowsKept
  <2>3. \A l \in Lines : LineSound(l)'
    BY <2>1, LineSoundKept DEF ProgressInv, db
  <2> QED
    BY <1>0, <2>1, <2>2, <2>3, SteadyKept DEF ProgressInv
<1>2. CASE order[o].status = "received"
  <2>1. /\ CancelBeforeResolution(o) /\ job' = [job EXCEPT ![o].pending = FALSE]
        /\ Unlocked(o) /\ o \in Cancellable
    BY <1>0, <1>2 DEF CustomerCancel, CancelledIfReceived, ControlOK
  <2>2. MaxFaults = 0
    BY <2>1 DEF CancelsInTime
  <2>3. live[o].at = "fraud"
    <3>1. live[o].at \in {"fraud", "end"} \/ live[o].asked
      BY <1>0, <2>1, <2>2 DEF Steady, Rested
    <3>2. Fits(o, live[o]) /\ OfOrder(o, live[o])
      BY <1>0, TypeInvParts DEF Steady, Stored, CheckpointsOK
    <3>3. NonePending(o)
      BY <1>0, <1>2 DEF Steady, OrderSound
    <3> QED
      BY <1>2, <3>1, <3>2, <3>3 DEF Fits, FitsNode, OfOrder, LineNodes, NonePending, Settled,
                                    Refused
  <2>4. Untaken(o) /\ Stored(o) = {live[o]} /\ Stored(o)' = {live[o]}
    BY <1>0, <2>2, <2>3 DEF Steady, Stored, Fits, FitsNode
  <2>5. /\ OrdersKeptBut(o, RefusedStatus(o)) /\ RefusedStatus(o) \in Refused
        /\ UNCHANGED <<line, offer, shipped>>
        /\ outbox' = outbox \cup {<<"customer_cancel", o>>}
    BY <1>0, <2>1, CustomerCancelEffect
  <2>6. order'[o].status \in Refused
    BY <2>5 DEF OrdersKeptBut
  <2>7. Untaken(o)' /\ NonePending(o)'
    BY <2>4, <2>5 DEF Untaken, NonePending, LinesOf
  <2>8. OrderSound(o)'
    BY <1>0, <1>2, <2>5, <2>6, <2>7 DEF Steady, OrderSound, Untaken, Settled, Refused, LinesOf
  <2>9. PICK c \in Checkpoint : c = live[o]
    BY <1>0 DEF ControlOK
  <2>10. Fits(o, c)'
    BY <2>3, <2>6, <2>7, <2>9 DEF Fits, FitsNode, LineNodes
  <2>11. WithdrawnRests(o)' /\ Rested(o)'
    BY <1>0, <2>1, <2>3 DEF WithdrawnRests, Rested, Unlocked, ControlOK, JobRow
  <2>12. Steady(o)'
    BY <2>4, <2>8, <2>9, <2>10, <2>11 DEF Steady
  <2>13. ASSUME NEW q \in Orders \ {o} PROVE Steady(q)'
    <3>1. RowsKept(q)
      BY <2>5 DEF OrdersKeptBut, RowsKept
    <3>2. job'[q] = job[q]
      BY <1>0, <2>1 DEF ControlOK
    <3> QED
      BY <1>0, <3>1, <3>2, SteadyKept DEF ProgressInv
  <2>14. \A l \in Lines : LineSound(l)'
    BY <2>5, LineSoundKept DEF ProgressInv
  <2> QED
    BY <2>12, <2>13, <2>14
<1> QED
  BY <1>1, <1>2

LEMMA AuditProgress ==
    ASSUME ProgressInv, NEW o \in Orders, NEW d \in {"approve", "reject"}, DecideAudit(o, d)
    PROVE  (\A k \in Lines : LineSound(k)') /\ \A q \in Orders : Steady(q)'
<1>0. TypeInv /\ RowsInv /\ RowsOK /\ ControlOK /\ Steady(o)
  BY TypeInvParts DEF ProgressInv, ConsentInv, RowsInv
<1>1. /\ UNCHANGED <<line, offer, outbox, shipped, live, stale, lock>>
      /\ order[o].status = "manual_review" /\ order[o].manual = "none"
      /\ order' = [order EXCEPT ![o].manual = d]
      /\ \A q \in Orders \ {o} : job'[q] = job[q]
  BY <1>0 DEF DecideAudit, Wake, graph, ControlOK
<1>2. /\ order'[o].status = order[o].status /\ order'[o].high = order[o].high
      /\ \A q \in Orders \ {o} : order'[q] = order[q]
  BY <1>0, <1>1 DEF RowsOK, OrderRow
<1>3. \A l \in Lines : LineSound(l)'
  BY <1>1, LineSoundKept DEF ProgressInv
<1>4. Steady(o)'
  <2>1. Stored(o)' = Stored(o)
    BY <1>1 DEF Stored
  <2>2. OrderSound(o)'
    BY <1>0, <1>1, <1>2 DEF Steady, OrderSound, NonePending, LinesOf
  <2>3. ASSUME NEW c \in Stored(o) PROVE Fits(o, c)'
    <3> DEFINE at == c.at
               m == c.missing
               asked == c.asked
    <3>1. FitsNode(o, at, m, asked)
      BY <1>0 DEF Steady, Fits
    <3> HIDE DEF at, m, asked
    <3>2. /\ Untaken(o)' <=> Untaken(o)
          /\ Open(o)' <=> Open(o)
          /\ Passed(o) => Passed(o)'
          /\ NonePending(o)' <=> NonePending(o)
          /\ NonePendingBut(o, m)' <=> NonePendingBut(o, m)
          /\ Active(o)' = Active(o) /\ Wanted(o)' = Wanted(o)
      BY <1>1, <1>2 DEF Untaken, Open, Passed, NonePending, NonePendingBut, Placed, Active,
                        Wanted, LinesOf
    <3>3. FitsNode(o, at, m, asked)'
      BY <1>1, <1>2, <3>1, <3>2 DEF FitsNode, LineNodes
    <3> QED
      BY <3>3 DEF Fits, at, m, asked
  <2>4. WithdrawnRests(o)' /\ Rested(o)'
    BY <1>0, <1>1, <1>2 DEF Steady, WithdrawnRests, Rested, Unlocked, Refused
  <2> QED
    BY <2>1, <2>2, <2>3, <2>4 DEF Steady
<1>5. ASSUME NEW q \in Orders \ {o} PROVE Steady(q)'
  <2>1. RowsKept(q)
    BY <1>1, <1>2 DEF RowsKept
  <2> QED
    BY <1>0, <1>1, <2>1, SteadyKept DEF ProgressInv
<1> QED
  BY <1>3, <1>4, <1>5

\* A drive begins, ends or fails, an admin retries, or a cancel handler waits.
LEMMA DriveProgress ==
    ASSUME ProgressInv, CancelsInTime, NEW o \in Orders,
           \/ LockForCancel(o) \/ Retry(o)
           \/ \E w \in Workers : Claim(w, o) \/ Finish(w, o) \/ Failure(w, o)
    PROVE  (\A k \in Lines : LineSound(k)') /\ \A q \in Orders : Steady(q)'
<1>0. TypeInv /\ ControlOK /\ Steady(o) /\ Sound(o)
  BY TypeInvParts DEF ProgressInv, ConsentInv, Sound, Steady
<1>1. UNCHANGED db
  BY DEF LockForCancel, Retry, Claim, Finish, Failure, Raise, Crash
<1>2. (\A l \in Lines : LineSound(l)') /\ \A q \in Orders : RowsKept(q)
  BY <1>1, LineSoundKept DEF ProgressInv, db, RowsKept
<1>3. ASSUME NEW q \in Orders \ {o} PROVE Steady(q)'
  <2>1. live'[q] = live[q] /\ stale'[q] = stale[q] /\ lock'[q] = lock[q] /\ job'[q] = job[q]
    BY <1>0 DEF LockForCancel, Retry, Wake, Claim, Finish, Failure, Raise, Crash, graph,
                ControlOK
  <2> QED
    BY <1>0, <1>2, <2>1, SteadyKept DEF ProgressInv
<1>4. ASSUME LockForCancel(o) PROVE Steady(o)'
  BY <1>0, <1>2, <1>4, SteadyKept DEF LockForCancel, graph
<1>5. ASSUME Retry(o) PROVE Steady(o)'
  <2>1. Stored(o)' = Stored(o) /\ lock' = lock /\ live' = live /\ order' = order
    BY <1>1, <1>5 DEF Retry, graph, Stored, db
  <2>2. ~(o \in Cancellable)
    \/ ~(order[o].status \in Refused /\ \E c \in Stored(o) : c.at = "fraud")
    BY <1>5 DEF Retry, CancelsInTime
  <2>3. WithdrawnRests(o)' /\ Rested(o)'
    BY <1>0, <2>1, <2>2 DEF Steady, WithdrawnRests, Rested, Unlocked
  <2> QED
    BY <1>0, <1>2, <2>1, <2>3, SteadyAgain
<1>6. ASSUME NEW w \in Workers, Claim(w, o) PROVE Steady(o)'
  <2>1. /\ Stored(o)' = Stored(o) /\ order' = order
        /\ job[o].pending /\ lock'[o] = w
    BY <1>0, <1>6 DEF Claim, Stored, ControlOK, db
  <2>2. WithdrawnRests(o)' /\ Rested(o)'
    BY <1>0, <2>1, WorkflowAssumption DEF Steady, WithdrawnRests, Rested, Unlocked
  <2> QED
    BY <1>0, <1>2, <2>1, <2>2, SteadyAgain
<1>7. ASSUME NEW w \in Workers, Finish(w, o) PROVE Steady(o)'
  <2>1. /\ Stored(o)' \subseteq Stored(o) /\ order' = order /\ live' = live
        /\ ~Unlocked(o) /\ DriveOver(o)
    BY <1>0, <1>7, WorkflowAssumption DEF Finish, Stored, ControlOK, db, Unlocked
  <2>2. WithdrawnRests(o)' /\ Rested(o)'
    BY <1>0, <2>1 DEF Steady, WithdrawnRests, Rested, DriveOver, Paused
  <2> QED
    BY <1>0, <1>2, <2>1, <2>2, SteadyAgain
<1>8. ASSUME NEW w \in Workers, Failure(w, o) PROVE Steady(o)'
  <2>1. ~MustRaise(o)
    BY <1>0, NoneMustRaise
  <2>2. MaxFaults # 0
    BY <1>0, <1>8, <2>1, WorkflowAssumption DEF Failure, Raise, Crash, ControlOK
  <2>3. /\ Stored(o)' \subseteq Stored(o) /\ order' = order /\ ~Unlocked(o)
    BY <1>0, <1>1, <1>8, <2>2, WorkflowAssumption DEF Failure, Raise, Crash, Stored,
                                                 ControlOK, db, Unlocked
  <2>4. WithdrawnRests(o)' /\ Rested(o)'
    BY <1>0, <2>2, <2>3 DEF Steady, WithdrawnRests, Rested
  <2> QED
    BY <1>0, <1>2, <2>3, <2>4, SteadyAgain
<1> QED
  BY <1>2, <1>3, <1>4, <1>5, <1>6, <1>7, <1>8

LEMMA NextProgress ==
    ASSUME OneNodeBehind, CancelsInTime
    PROVE  ProgressInv /\ [Next]_vars => ProgressInv'
<1> SUFFICES ASSUME ProgressInv, [Next]_vars
             PROVE  (\A k \in Lines : LineSound(k)') /\ \A q \in Orders : Steady(q)'
  BY NextConsent DEF ProgressInv
<1>0. ConsentInv /\ TypeInv
  BY DEF ProgressInv, ConsentInv
<1>1. CASE UNCHANGED vars
  <2>1. \A q \in Orders : RowsKept(q)
    BY <1>1 DEF vars, db, RowsKept
  <2> QED
    BY <1>0, <1>1, <2>1, SteadyKept, LineSoundKept DEF ProgressInv, vars, db, graph
<1>2. CASE \E o \in Orders : Place(o) \/ LockForCancel(o) \/ CustomerCancel(o) \/ Retry(o)
  BY <1>2, PlaceProgress, DriveProgress, CustomerCancelProgress
<1>3. CASE \E o \in Orders, d \in {"approve", "reject"} : DecideAudit(o, d)
  BY <1>3, AuditProgress
<1>4. CASE \/ \E l \in Lines, d \in {"accept", "reject"} : Reply(l, d)
           \/ \E l \in Lines : Deadline(l)
           \/ \E w \in Workers, l \in Lines : ExpireOffer(w, l)
  BY <1>4, OfferProgress
<1>5. ASSUME NEW w \in Workers, NEW o \in Orders, Node(w, o)
      PROVE  (\A k \in Lines : LineSound(k)') /\ \A q \in Orders : Steady(q)'
  <2>1. Sound(o) /\ Steady(o)
    BY DEF ProgressInv, Sound, Steady
  <2>2. \E at, m, asked : at = live[o].at /\ m = live[o].missing /\ asked = live[o].asked
    OBVIOUS
  <2>3. Sound(o)' /\ Steady(o)'
    BY <1>0, <1>5, <2>1, <2>2, NodeOwn
  <2>4. ASSUME NEW q \in Orders \ {o} PROVE Steady(q)'
    <3>1. RowsKept(q)
      BY <1>0, <1>5, NodeOthers
    <3>2. live'[q] = live[q] /\ stale'[q] = stale[q] /\ lock'[q] = lock[q] /\ job'[q] = job[q]
      BY <1>0, <1>5, TypeInvParts DEF Node, Fraud, AskAuditor, AuditorAnswered, CheckStock,
         Offer, AskCustomer, CustomerAnswered, Apply, Drop, Ship, Refuse, GoTo, Ask, Save,
         ControlOK
    <3> QED
      BY <1>0, <3>1, <3>2, SteadyKept DEF ProgressInv
  <2> QED
    BY <2>3, <2>4 DEF Sound
<1>6. CASE \E w \in Workers, o \in Orders :
              Claim(w, o) \/ Node(w, o) \/ Finish(w, o) \/ Failure(w, o)
  BY <1>5, <1>6, DriveProgress
<1>7. CASE Sleep
  BY <1>1, <1>7 DEF Sleep
<1> QED
  BY <1>1, <1>2, <1>3, <1>4, <1>6, <1>7 DEF Next

LEMMA InitProgress == Init => ProgressInv
<1> SUFFICES ASSUME Init PROVE ProgressInv
  OBVIOUS
<1> USE DEF Init, ServicesInit
<1>1. \A l \in Lines : LineSound(l)
  BY DEF LineSound, NoOffer, NoRow
<1>2. ASSUME NEW o \in Orders PROVE Steady(o)
  <2>1. Stored(o) = {Entry} /\ live[o] = Entry
    BY DEF Stored
  <2>2. Untaken(o) /\ NonePending(o) /\ order[o].status = "absent"
    BY DEF Untaken, NonePending, NoOffer, NoRow, NoOrder, LinesOf
  <2>3. Fits(o, Entry)
    BY <2>2 DEF Fits, FitsNode, Entry, LineNodes
  <2>4. OrderSound(o) /\ WithdrawnRests(o) /\ Rested(o)
    BY <2>1, <2>2 DEF OrderSound, WithdrawnRests, Rested, Entry, Settled, Refused
  <2> QED
    BY <2>1, <2>3, <2>4 DEF Steady
<1> QED
  BY <1>1, <1>2, InitConsent DEF ProgressInv

\* The rows an order's nodes find, and what its next step may be, in every
\* reachable state of the runs whose drives store every checkpoint or never fail.
THEOREM ProgressSafety == OneNodeBehind /\ CancelsInTime /\ Spec => []ProgressInv
<1> SUFFICES ASSUME OneNodeBehind, CancelsInTime PROVE Spec => []ProgressInv
  OBVIOUS
<1>1. ProgressInv /\ [Next]_vars => ProgressInv'
  BY NextProgress
<1>2. Init => ProgressInv
  BY InitProgress
<1> QED
  BY <1>1, <1>2, PTL DEF Spec

\* Nothing of a settled order is held or reserved for a customer who does not get
\* it, and nothing ships that is not reserved (drop_line, fulfill, cancel).
THEOREM SettledFrees == OneNodeBehind /\ CancelsInTime /\ Spec => []SettledHoldsNothing
<1>1. ProgressInv => SettledHoldsNothing
  <2> SUFFICES ASSUME ProgressInv, NEW l \in Lines, order[OrderOf[l]].status \in Settled
               PROVE  /\ ~offer[l].held /\ offer[l].status # "pending"
                      /\ line[l].reserved <=> l \in shipped
    BY DEF SettledHoldsNothing
  <2>1. PICK o \in Orders : o = OrderOf[l] /\ l \in LinesOf(o)
    BY OrderAssumption DEF LinesOf
  <2>2. OrderSound(o) /\ LineSound(l) /\ order[o].status \in Settled
    BY <2>1 DEF ProgressInv, Steady
  <2>3. order[o].status # "awaiting_customer"
    BY <2>2 DEF Settled, Refused
  <2>4. offer[l].status # "pending" /\ (line[l].reserved <=> l \in shipped)
    BY <2>1, <2>2, <2>3 DEF OrderSound, NonePending
  <2>5. ~offer[l].held
    BY <2>2, <2>4 DEF ProgressInv, ConsentInv, TypeInv, RowsFit, LineSound
  <2> QED
    BY <2>4, <2>5
<1> QED
  BY <1>1, ProgressSafety, PTL

\* A node that is run again after a failure finds its work done or still possible:
\* no order burns its attempts by itself (apply_offer, fulfill, cancel).
THEOREM NodesRepeat == OneNodeBehind /\ CancelsInTime /\ Spec => []ReplayNeverRaises
<1>1. ProgressInv => ReplayNeverRaises
  BY NoneMustRaise DEF ProgressInv, ConsentInv, ReplayNeverRaises, Sound, Steady
<1> QED
  BY <1>1, ProgressSafety, PTL

-----------------------------------------------------------------------------
(***************************************************************************)
(* An order that is over stays as it is.                                   *)
(***************************************************************************)

LEMMA SettledNode ==
    ASSUME ProgressInv, NEW w \in Workers, NEW o \in Orders, Node(w, o),
           order[o].status \in Settled
    PROVE  UNCHANGED db
<1>0. /\ TypeInv /\ RowsInv /\ Steady(o) /\ ~Unlocked(o)
  BY NodeRuns, TypeInvParts, WorkflowAssumption DEF ProgressInv, ConsentInv, Unlocked
<1>1. Fits(o, live[o])
  BY <1>0 DEF Steady, Stored
<1>2. live[o].at # "fraud"
  BY <1>0, <1>1 DEF Steady, WithdrawnRests, Stored, Fits, FitsNode, Settled
<1>3. live[o].at \notin {"manual", "inventory"} \cup LineNodes
  BY <1>1 DEF Fits, FitsNode, Open, Settled, Refused
<1>4. /\ live[o].at = "fulfill" => order[o].status = "ready_for_fulfillment"
      /\ live[o].at = "cancel" => order[o].status \in Refused
  BY <1>1 DEF Fits, FitsNode, Open, Settled
<1>5. Ship(w, o) \/ Refuse(w, o)
  BY <1>2, <1>3 DEF Node, Fraud, AskAuditor, AuditorAnswered, CheckStock, Offer, AskCustomer,
                    CustomerAnswered, Apply, Drop, Running, LineNodes
<1> QED
  BY <1>4, <1>5 DEF Ship, Refuse, Running, Fulfill, Cancel

\* A step writes the rows of one order at most, and which step it is.
LEMMA SettledKept ==
    ASSUME ProgressInv, [Next]_vars, NEW q \in Orders, order[q].status \in Settled
    PROVE  order'[q].status = order[q].status /\ shipped' \cap LinesOf(q) = shipped \cap LinesOf(q)
<1>0. TypeInv /\ RowsInv /\ RowsOK
  BY TypeInvParts DEF ProgressInv, ConsentInv, RowsInv
<1>1. CASE UNCHANGED <<order, shipped>>
  BY <1>1
<1>2. ASSUME NEW o \in Orders, Place(o)
      PROVE  order'[q] = order[q] /\ shipped' = shipped
  BY <1>0, <1>2 DEF Place, PlaceOrder, Settled, Refused, RowsOK
<1>3. ASSUME NEW o \in Orders, CustomerCancel(o)
      PROVE  order'[q] = order[q] /\ shipped' = shipped
  BY <1>0, <1>3 DEF CustomerCancel, CancelledIfReceived, CancelBeforeResolution, Settled,
                    Refused, RowsOK, db
<1>4. ASSUME NEW o \in Orders, NEW d, DecideAudit(o, d)
      PROVE  order'[q] = order[q] /\ shipped' = shipped
  BY <1>0, <1>4 DEF DecideAudit, Settled, Refused, RowsOK
<1>5. ASSUME NEW w \in Workers, NEW o \in Orders, Node(w, o)
      PROVE  order'[q] = order[q] /\ shipped' \cap LinesOf(q) = shipped \cap LinesOf(q)
  <2>1. CASE q = o
    BY <1>5, <2>1, SettledNode DEF db
  <2>2. CASE q # o
    BY <1>0, <1>5, <2>2, NodeOthers DEF RowsKept
  <2> QED
    BY <2>1, <2>2
<1>6. CASE UNCHANGED vars
  BY <1>6 DEF vars, db
<1>7. CASE Next
  <2>1. ASSUME NEW o \in Orders, LockForCancel(o) \/ Retry(o) PROVE UNCHANGED <<order, shipped>>
    BY <2>1 DEF LockForCancel, Retry, db
  <2>2. ASSUME NEW l \in Lines,
               \/ \E d \in {"accept", "reject"} : Reply(l, d)
               \/ Deadline(l) \/ \E w \in Workers : ExpireOffer(w, l)
        PROVE  UNCHANGED <<order, shipped>>
    BY <2>2 DEF Reply, Deadline, ExpireOffer
  <2>3. ASSUME NEW w \in Workers, NEW o \in Orders, Claim(w, o) \/ Finish(w, o) \/ Failure(w, o)
        PROVE  UNCHANGED <<order, shipped>>
    BY <2>3 DEF Claim, Finish, Failure, Raise, Crash, db
  <2> QED
    BY <1>1, <1>2, <1>3, <1>4, <1>5, <1>6, <1>7, <2>1, <2>2, <2>3 DEF Next, Sleep
<1> QED
  BY <1>6, <1>7

\* A settled order stays settled the way it is and ships nothing more, whatever
\* crash or retry has a node of it run again (fulfill, cancel, CancelledIfReceived).
THEOREM SettledStays == OneNodeBehind /\ CancelsInTime /\ Spec => SettledFinal
<1>1. ProgressInv /\ [Next]_vars =>
         [\A o \in Orders : order[o].status \in Settled =>
             /\ order'[o].status = order[o].status
             /\ shipped' \cap LinesOf(o) = shipped \cap LinesOf(o)]_vars
  BY SettledKept
<1> QED
  BY <1>1, ProgressSafety, PTL DEF Spec, SettledFinal

-----------------------------------------------------------------------------
(***************************************************************************)
(* The promise of OrderLifecycle, kept step by step.                       *)
(***************************************************************************)

\* What the promise asks of the rows of the order a step is about ...
OrderTurns(o) ==
    /\ order[o].status \notin Settled
    /\ \/ order'[o].status = order[o].status
       \/ <<PhaseOf(o), PhaseOf(o)'>> \in Promise!Turn
    /\ order'[o].high = order[o].high \/ ~Placed(o)
    /\ <<"customer_cancel", o>> \in outbox => <<"customer_cancel", o>> \in outbox'
    /\ <<"customer_cancel", o>> \in outbox' \ outbox => order'[o].status \in Refused
    /\ \/ order'[o].manual = order[o].manual
       \/ order[o].manual = "none" /\ order[o].status = "manual_review"
    /\ order'[o].status = "manual_review" => order'[o].high
    /\ order'[o].status = "ready_for_fulfillment" =>
          /\ Passed(o)'
          /\ \A l \in LinesOf(o) : offer'[l].status # "none" => FateOf(l)' # "open"
          /\ \E l \in LinesOf(o) : ~line'[l].dropped
    /\ order'[o].status \in Refused =>
          \/ order'[o].manual = "reject"
          \/ \A l \in LinesOf(o) : line'[l].dropped
          \/ order[o].status = "received" /\ <<"customer_cancel", o>> \in outbox'

\* ... and of each of its lines.
LineTurns(o, l) ==
    /\ offer[l].status # "none" => offer'[l].status # "none"
    /\ offer[l].status = "none" /\ offer'[l].status # "none" =>
          order'[o].status = "awaiting_customer" /\ FateOf(l) = "open" /\ Passed(o)'
    /\ offer'[l].decision # offer[l].decision =>
          offer[l].decision = "none" /\ offer[l].status # "none" /\ FateOf(l) = "open"
    /\ FateOf(l)' # FateOf(l) =>
          /\ FateOf(l) = "open" /\ Passed(o)' /\ Placed(o)
          /\ \/ FateOf(l)' = "replaced" /\ offer'[l].decision = "accept"
             \/ /\ FateOf(l)' = "dropped"
                /\ offer'[l].status # "none" => offer'[l].decision \in {"reject", "expired"}

PhasesRight ==
    \A o \in Orders :
       /\ PhaseOf(o) \in Promise!Phases
       /\ PhaseOf(o) \in Promise!Over <=> order[o].status \in Settled
       /\ PhaseOf(o) = "absent" <=> ~Placed(o)
       /\ PhaseOf(o) = "open" <=> order[o].status = "received"
       /\ PhaseOf(o) = "review" <=> order[o].status = "manual_review"
       /\ PhaseOf(o) = "asking" <=> order[o].status = "awaiting_customer"
       /\ PhaseOf(o) = "shipped" <=> order[o].status = "ready_for_fulfillment"
       /\ PhaseOf(o) = "refused" <=> order[o].status \in Refused

LEMMA Phases == RowsInv => PhasesRight
<1>1. RowsInv => \A o \in Orders : order[o].status \in Statuses
  BY DEF RowsInv, RowsOK, OrderRow
<1> QED
  BY <1>1 DEF PhasesRight, PhaseOf, Promise!Phases, Promise!Over, Placed, Settled, Refused,
              Statuses

LEMMA PhasesNext == RowsInv' => PhasesRight'
BY Phases, PTL

LEMMA PromiseType == RowsInv => Promise!LifecycleType
<1> SUFFICES ASSUME RowsInv PROVE Promise!LifecycleType
  OBVIOUS
<1>1. \A o \in Orders : PhaseOf(o) \in Promise!Phases /\ order[o].manual \in Promise!Verdicts
  BY Phases DEF PhasesRight, RowsInv, RowsOK, OrderRow, Promise!Verdicts
<1>2. \A l \in Lines : FateOf(l) \in Promise!Fates /\ offer[l].decision \in Promise!DealAnswers
  BY DEF RowsInv, RowsOK, OfferRow, FateOf, Promise!Fates, Promise!DealAnswers
<1> QED
  BY <1>1, <1>2 DEF Promise!LifecycleType

LEMMA PromiseTypeNext == RowsInv' => Promise!LifecycleType'
BY PromiseType, PTL

LEMMA PromiseStep ==
    ASSUME RowsInv, RowsInv', NEW o \in Orders, \A q \in Orders \ {o} : RowsKept(q),
           OrderTurns(o), \A l \in LinesOf(o) : LineTurns(o, l)
    PROVE  Promise!LifecycleNext
<1>1. Promise!OfOrder(o) = LinesOf(o)
  BY DEF Promise!OfOrder, LinesOf
<1>2. Promise!LifecycleType'
  BY PromiseTypeNext
<1>3. PhasesRight /\ PhasesRight'
  BY Phases, PhasesNext
<1>4. Promise!Advances(o)
  <2>1. PhaseOf(o)' = PhaseOf(o) \/ <<PhaseOf(o), PhaseOf(o)'>> \in Promise!Turn
    BY DEF OrderTurns, PhaseOf
  <2>2. /\ order'[o].high = order[o].high \/ PhaseOf(o) = "absent"
        /\ PhaseOf(o)' = "review" => order'[o].high
    BY <1>3 DEF OrderTurns, PhasesRight
  <2>3. <<"customer_cancel", o>> \in outbox' \ outbox =>
           PhaseOf(o) # PhaseOf(o)' /\ PhaseOf(o)' = "refused"
    BY <1>3 DEF OrderTurns, PhasesRight, Settled
  <2>4. Promise!AuditorSpeaksOnce(o)
    BY <1>3 DEF OrderTurns, PhasesRight, Promise!AuditorSpeaksOnce
  <2>5. PhaseOf(o)' = "shipped" => Promise!ShipsRight(o)
    <3>1. (\A l \in Lines : FateOf(l)' = "dropped" <=> line'[l].dropped) /\ LinesOf(o) \subseteq Lines
      BY DEF FateOf, LinesOf
    <3> QED
      BY <1>1, <1>3, <3>1 DEF OrderTurns, PhasesRight, Passed, Promise!ShipsRight, Promise!Cleared
  <2>6. PhaseOf(o)' = "refused" => Promise!RefusedRight(o)
    <3>1. (\A l \in Lines : line'[l].dropped => FateOf(l)' = "dropped") /\ LinesOf(o) \subseteq Lines
      BY DEF FateOf, LinesOf
    <3> QED
      BY <1>1, <1>3, <3>1 DEF OrderTurns, PhasesRight, Promise!RefusedRight
  <2> QED
    BY <2>1, <2>2, <2>3, <2>4, <2>5, <2>6 DEF Promise!Advances
<1>5. ASSUME NEW l \in LinesOf(o)
      PROVE  Promise!OfferedOnce(l) /\ Promise!AnsweredOnce(l) /\ Promise!Consent(l)
  <2>1. l \in Lines /\ OrderOf[l] = o /\ LineTurns(o, l)
    BY DEF LinesOf
  <2>2. Passed(o)' => Promise!Cleared(OrderOf[l])
    BY <2>1 DEF Passed, Promise!Cleared
  <2>3. Promise!OfferedOnce(l)
    BY <1>3, <2>1, <2>2 DEF LineTurns, PhasesRight, Promise!OfferedOnce
  <2>4. Promise!AnsweredOnce(l)
    BY <2>1 DEF LineTurns, Promise!AnsweredOnce
  <2>5. Promise!Consent(l)
    BY <1>3, <2>1, <2>2 DEF LineTurns, PhasesRight, Promise!Consent
  <2> QED
    BY <2>3, <2>4, <2>5
<1>6. ASSUME NEW q \in Orders \ {o} PROVE Promise!Same(q)
  <2>1. PhaseOf(q)' = PhaseOf(q)
    BY DEF RowsKept, PhaseOf
  <2>2. /\ order'[q] = order[q]
        /\ <<"customer_cancel", q>> \in outbox' <=> <<"customer_cancel", q>> \in outbox
    BY DEF RowsKept, Ends
  <2> QED
    BY <2>1, <2>2 DEF Promise!Same
<1>7. ASSUME NEW l \in Lines \ LinesOf(o) PROVE Promise!SameLine(l)
  <2>1. OrderOf[l] \in Orders \ {o} /\ l \in LinesOf(OrderOf[l])
    BY OrderAssumption DEF LinesOf
  <2>2. line'[l] = line[l] /\ offer'[l] = offer[l]
    BY <2>1 DEF RowsKept
  <2>3. FateOf(l)' = FateOf(l)
    BY <2>2 DEF FateOf
  <2> QED
    BY <2>2, <2>3 DEF Promise!SameLine
<1> QED
  BY <1>1, <1>2, <1>3, <1>4, <1>5, <1>6, <1>7 DEF OrderTurns, PhasesRight,
     Promise!LifecycleNext, Promise!Step

LEMMA FateOpen ==
    ASSUME NEW l \in Lines, LineSound(l), offer[l].status \in {"none", "pending"},
           ~line[l].dropped
    PROVE  FateOf(l) = "open"
BY DEF LineSound, FateOf

LEMMA FateClosed ==
    ASSUME RowsFit, NEW l \in Lines, LineSound(l), offer[l].status \notin {"none", "pending"}
    PROVE  FateOf(l) # "open"
BY CatalogAssumption DEF RowsFit, LineSound, FateOf

LEMMA LineStays ==
    ASSUME NEW o \in Orders, NEW l \in LinesOf(o),
           line'[l].product = line[l].product, line'[l].dropped = line[l].dropped,
           offer'[l].status # "none" <=> offer[l].status # "none",
           offer'[l].decision = offer[l].decision
    PROVE  LineTurns(o, l)
<1>1. FateOf(l)' = FateOf(l)
  BY DEF FateOf
<1> QED
  BY <1>1 DEF LineTurns

\* Every transaction of a node is a turn the promise allows.
LEMMA NodeTurns ==
    ASSUME ProgressInv, NEW w \in Workers, NEW o \in Orders, Node(w, o), ~UNCHANGED db,
           NEW at, at = live[o].at, NEW m, m = live[o].missing,
           NEW asked, asked = live[o].asked
    PROVE  OrderTurns(o) /\ \A l \in LinesOf(o) : LineTurns(o, l)
<1>0. /\ TypeInv /\ RowsInv /\ RowsOK /\ RowsFit /\ Placed(o) /\ Sound(o) /\ Steady(o)
      /\ at \in LineNodes => m \in LinesOf(o)
  BY NodeRuns, TypeInvParts DEF ProgressInv, ConsentInv, RowsInv, Sound, Steady
<1>1. FitsNode(o, at, m, asked)
  BY <1>0 DEF Steady, Stored, Fits
<1>2. order[o].status \notin Settled
  BY SettledNode
<1>3. \A l \in LinesOf(o) : l \in Lines /\ OrderOf[l] = o /\ LineSound(l)
                           /\ line[l] \in LineRow /\ offer[l] \in OfferRow
  BY <1>0 DEF LinesOf, Sound, RowsOK
<1>4. PhasesRight
  BY <1>0, Phases
<1>5. ASSUME FlagAudit(o), at = "manual"
      PROVE  OrderTurns(o) /\ \A l \in LinesOf(o) : LineTurns(o, l)
  <2>1. OrdersKeptBut(o, "manual_review") /\ UNCHANGED <<line, offer, outbox>>
    BY <1>0, <1>5, FlagEffect
  <2>2. order[o].high /\ order[o].status \in {"received", "manual_review"}
    BY <1>1, <1>5 DEF FitsNode
  <2>3. PhaseOf(o) \in {"open", "review"} /\ PhaseOf(o)' = "review"
    BY <2>1, <2>2 DEF PhaseOf, Refused, OrdersKeptBut
  <2>4. order'[o].status = order[o].status \/ <<PhaseOf(o), PhaseOf(o)'>> \in Promise!Turn
    BY <2>1, <2>2, <2>3, <1>4 DEF OrdersKeptBut, PhasesRight, Promise!Turn
  <2>5. OrderTurns(o)
    BY <1>2, <2>1, <2>2, <2>4 DEF OrderTurns, OrdersKeptBut, Refused
  <2> QED
    BY <2>1, <2>5, LineStays
<1>6. ASSUME NEW got \in SUBSET Wanted(o), Inventory(o, got), at = "inventory"
      PROVE  OrderTurns(o) /\ \A l \in LinesOf(o) : LineTurns(o, l)
  <2>1. /\ OrdersKeptBut(o, order[o].status)
        /\ UNCHANGED <<offer, outbox>>
        /\ LinesKeptBut(got)
        /\ \A l \in got : line'[l] = [line[l] EXCEPT !.reserved = TRUE]
    BY <1>0, <1>6, InventoryEffect
  <2>2. ASSUME NEW l \in LinesOf(o) PROVE LineTurns(o, l)
    <3>1. line'[l].product = line[l].product /\ line'[l].dropped = line[l].dropped
      <4>1. CASE l \in got
        BY <1>3, <2>1, <4>1 DEF LineRow
      <4>2. CASE l \notin got
        BY <1>3, <2>1, <4>2 DEF LinesKeptBut
      <4> QED
        BY <4>1, <4>2
    <3> QED
      BY <2>1, <3>1, LineStays
  <2>3. order[o].status = "manual_review" => order[o].high
    BY <1>0 DEF Steady, OrderSound
  <2> QED
    BY <1>2, <2>1, <2>2, <2>3 DEF OrderTurns, OrdersKeptBut, Settled, Refused

<1>7. ASSUME NEW hint, CreateOffer(o, m, hint), at = "offer"
      PROVE  OrderTurns(o) /\ \A l \in LinesOf(o) : LineTurns(o, l)
  <2>0. m \in LinesOf(o) /\ ~line[m].dropped /\ Open(o) /\ Passed(o)
    BY <1>0, <1>1, <1>7 DEF FitsNode, LineNodes
  <2>1. /\ offer[m].status = "none"
        /\ OrdersKeptBut(o, "awaiting_customer")
        /\ line' = line /\ outbox' = outbox \cup {<<"offer", m>>}
        /\ LinesKeptBut({m})
    BY <1>0, <1>7, <2>0, CreateOfferEffect
  <2>2. PICK p \in Products : offer'[m] = NewOffer(p)
    BY <1>0, <1>7, <2>0, CreateOfferEffect
  <2>3. offer'[m].decision = "none" /\ offer'[m].status = "pending" /\ offer[m].decision = "none"
    BY <1>3, <2>0, <2>1, <2>2 DEF NewOffer, NoOffer, LineSound
  <2>4. Passed(o)' /\ order'[o].status = "awaiting_customer"
    BY <2>0, <2>1 DEF OrdersKeptBut, Passed
  <2>5. \A l \in LinesOf(o) : FateOf(l)' = FateOf(l)
    BY <2>1 DEF FateOf
  <2>6. ASSUME NEW l \in LinesOf(o) PROVE LineTurns(o, l)
    <3>1. CASE l = m
      <4>1. FateOf(m) = "open"
        BY <1>3, <2>0, <2>1, FateOpen
      <4> QED
        BY <2>1, <2>3, <2>4, <2>5, <3>1, <4>1 DEF LineTurns
    <3>2. CASE l # m
      <4>1. offer'[l] = offer[l]
        BY <1>3, <2>1, <3>2 DEF LinesKeptBut
      <4> QED
        BY <2>1, <4>1, LineStays
    <3> QED
      BY <3>1, <3>2
  <2>7. PhaseOf(o) \in {"open", "review", "asking"} /\ PhaseOf(o)' = "asking"
    <3>1. PhaseOf(o)' = "asking"
      BY <2>4 DEF PhaseOf, Refused
    <3>2. PhaseOf(o) \in {"open", "review", "asking"}
      BY <1>0, <1>2, <1>4 DEF PhasesRight, Promise!Phases, Settled
    <3> QED
      BY <3>1, <3>2
  <2>8. order'[o].status = order[o].status \/ <<PhaseOf(o), PhaseOf(o)'>> \in Promise!Turn
    BY <1>4, <2>4, <2>7 DEF PhasesRight, Promise!Turn
  <2>9. OrderTurns(o)
    BY <1>2, <2>1, <2>4, <2>8 DEF OrderTurns, OrdersKeptBut, Refused
  <2> QED
    BY <2>6, <2>9
<1>8. ASSUME order' = order,
             <<"customer_cancel", o>> \in outbox' <=> <<"customer_cancel", o>> \in outbox
      PROVE  OrderTurns(o)
  BY <1>0, <1>2, <1>8 DEF OrderTurns, Settled, Refused, Steady, OrderSound
<1>9. ASSUME ApplyOffer(o, m), at = "apply"
      PROVE  OrderTurns(o) /\ \A l \in LinesOf(o) : LineTurns(o, l)
  <2>0. /\ m \in LinesOf(o) /\ Open(o) /\ Passed(o)
        /\ \/ offer[m].status = "accepted"
           \/ offer[m].status = "pending" /\ offer[m].decision = "accept"
    BY <1>0, <1>1, <1>9 DEF FitsNode, LineNodes
  <2>1. /\ offer[m].status # "accepted"
        /\ UNCHANGED <<order, outbox>>
        /\ LinesKeptBut({m})
        /\ line'[m] = [line[m] EXCEPT !.product = offer[m].product,
                                      !.price = offer[m].price, !.reserved = TRUE]
        /\ offer'[m] = [offer[m] EXCEPT !.held = FALSE, !.status = "accepted"]
    BY <1>0, <1>9, <2>0, ApplyEffect
  <2>2. /\ line'[m].product = offer[m].product /\ line'[m].dropped = line[m].dropped
        /\ offer'[m].status = "accepted" /\ offer'[m].decision = offer[m].decision
    BY <1>3, <2>0, <2>1 DEF LineRow, OfferRow
  <2>3. FateOf(m) = "open"
    BY <1>3, <2>0, <2>1, FateOpen DEF LineSound
  <2>4. FateOf(m)' = "replaced"
    <3>1. ~line[m].dropped /\ offer[m].product # Item[m]
      BY <1>3, <2>0, <2>1 DEF LineSound
    <3>2. offer[m].product # NoProduct
      BY <1>0, <1>3, <2>0, CatalogAssumption DEF RowsFit
    <3> QED
      BY <2>2, <3>1, <3>2 DEF FateOf
  <2>5. Passed(o)'
    BY <2>0, <2>1 DEF Passed
  <2>6. ASSUME NEW l \in LinesOf(o) PROVE LineTurns(o, l)
    <3>1. CASE l = m
      BY <1>0, <2>0, <2>1, <2>2, <2>3, <2>4, <2>5, <3>1 DEF LineTurns
    <3>2. CASE l # m
      <4>1. line'[l] = line[l] /\ offer'[l] = offer[l]
        BY <1>3, <2>1, <3>2 DEF LinesKeptBut
      <4> QED
        BY <4>1, LineStays
    <3> QED
      BY <3>1, <3>2
  <2> QED
    BY <1>8, <2>1, <2>6
<1>10. ASSUME DropLine(o, m), at = "drop_line"
       PROVE  OrderTurns(o) /\ \A l \in LinesOf(o) : LineTurns(o, l)
  <2>0. /\ m \in LinesOf(o) /\ Open(o) /\ Passed(o)
        /\ \/ line[m].dropped
           \/ ~line[m].reserved /\ offer[m].status = "none"
           \/ offer[m].status = "pending" /\ offer[m].decision \in {"reject", "expired"}
    BY <1>0, <1>1, <1>10 DEF FitsNode, LineNodes
  <2>1. /\ ~line[m].dropped
        /\ order' = order /\ outbox' = outbox \cup {<<"line_drop", m>>}
        /\ LinesKeptBut({m})
        /\ line'[m] = [line[m] EXCEPT !.dropped = TRUE]
        /\ offer'[m] = [offer[m] EXCEPT !.held = FALSE, !.status = Closed(offer[m])]
    BY <1>0, <1>10, <2>0, DropEffect
  <2>2. /\ line'[m].dropped
        /\ offer'[m].status = Closed(offer[m]) /\ offer'[m].decision = offer[m].decision
    BY <1>3, <2>0, <2>1 DEF LineRow, OfferRow
  <2>3. /\ offer[m].status = "none" => offer'[m].status = "none"
        /\ offer[m].status # "none" =>
              offer'[m].status # "none" /\ offer[m].decision \in {"reject", "expired"}
    BY <2>0, <2>1, <2>2 DEF Closed
  <2>4. FateOf(m) = "open" /\ FateOf(m)' = "dropped"
    BY <1>3, <2>0, <2>1, <2>2, FateOpen DEF FateOf
  <2>5. Passed(o)'
    BY <2>0, <2>1 DEF Passed
  <2>6. ASSUME NEW l \in LinesOf(o) PROVE LineTurns(o, l)
    <3>1. CASE l = m
      BY <1>0, <2>2, <2>3, <2>4, <2>5, <3>1 DEF LineTurns
    <3>2. CASE l # m
      <4>1. line'[l] = line[l] /\ offer'[l] = offer[l]
        BY <1>3, <2>1, <3>2 DEF LinesKeptBut
      <4> QED
        BY <4>1, LineStays
    <3> QED
      BY <3>1, <3>2
  <2> QED
    BY <1>8, <2>1, <2>6
<1>11. ASSUME Fulfill(o), at = "fulfill"
       PROVE  OrderTurns(o) /\ \A l \in LinesOf(o) : LineTurns(o, l)
  <2>0. Passed(o) /\ NonePending(o) /\ Active(o) # {} /\ Wanted(o) = {}
    BY <1>1, <1>2, <1>11 DEF FitsNode, Settled
  <2>1. /\ OrdersKeptBut(o, "ready_for_fulfillment") /\ UNCHANGED <<line, offer>>
        /\ <<"customer_cancel", o>> \in outbox' <=> <<"customer_cancel", o>> \in outbox
    <3>1. /\ OrdersKeptBut(o, "ready_for_fulfillment") /\ UNCHANGED <<line, offer>>
          /\ outbox' = outbox \cup {<<"fulfill", o>>}
                         \cup (IF Owed(o) THEN {<<"adjustment", o>>} ELSE {})
      BY <1>0, <1>2, <1>11, FulfillEffect DEF Settled
    <3> QED
      BY <3>1
  <2>2. \A l \in LinesOf(o) : LineTurns(o, l)
    BY <2>1, LineStays
  <2>3. Passed(o)'
    BY <2>0, <2>1 DEF Passed, OrdersKeptBut
  <2>4. ASSUME NEW l \in LinesOf(o), offer'[l].status # "none" PROVE FateOf(l)' # "open"
    <3>1. FateOf(l) # "open"
      BY <1>0, <1>3, <2>0, <2>1, <2>4, FateClosed DEF NonePending
    <3>2. FateOf(l)' = FateOf(l)
      BY <2>1 DEF FateOf
    <3> QED
      BY <3>1, <3>2
  <2>5. \E l \in LinesOf(o) : ~line'[l].dropped
    BY <2>0, <2>1 DEF Active
  <2>6. PhaseOf(o) \in {"open", "review", "asking"} /\ PhaseOf(o)' = "shipped"
    <3>1. PhaseOf(o)' = "shipped"
      BY <2>1 DEF PhaseOf, Refused, OrdersKeptBut
    <3>2. PhaseOf(o) \in {"open", "review", "asking"}
      BY <1>0, <1>2, <1>4 DEF PhasesRight, Promise!Phases, Settled
    <3> QED
      BY <3>1, <3>2
  <2>7. <<PhaseOf(o), PhaseOf(o)'>> \in Promise!Turn
    BY <2>6 DEF Promise!Turn
  <2>8. OrderTurns(o)
    BY <1>2, <2>1, <2>3, <2>4, <2>5, <2>7 DEF OrderTurns, OrdersKeptBut, Refused
  <2> QED
    BY <2>2, <2>8
<1>12. ASSUME Cancel(o), at = "cancel"
       PROVE  OrderTurns(o) /\ \A l \in LinesOf(o) : LineTurns(o, l)
  <2>0. order[o].manual = "reject" \/ Active(o) = {}
    BY <1>1, <1>2, <1>12 DEF FitsNode, Settled
  <2>1. /\ OrdersKeptBut(o, RefusedStatus(o)) /\ RefusedStatus(o) \in Refused
        /\ outbox' = outbox \cup {<<"cancel", o>>}
        /\ \A l \in LinesOf(o) :
              /\ line'[l] = [line[l] EXCEPT !.reserved = FALSE]
              /\ offer'[l] = [offer[l] EXCEPT !.held = FALSE, !.status = Closed(offer[l])]
    BY <1>0, <1>2, <1>12, CancelEffect DEF Settled
  <2>2. ASSUME NEW l \in LinesOf(o)
        PROVE  line'[l].dropped = line[l].dropped /\ LineTurns(o, l)
    <3>1. /\ line'[l].product = line[l].product /\ line'[l].dropped = line[l].dropped
          /\ offer'[l].decision = offer[l].decision
          /\ offer'[l].status = Closed(offer[l])
      BY <1>3, <2>1 DEF LineRow, OfferRow
    <3>2. Closed(offer[l]) # "none" <=> offer[l].status # "none"
      BY DEF Closed
    <3> QED
      BY <3>1, <3>2, LineStays
  <2>3. order'[o].status \in Refused
    BY <2>1 DEF OrdersKeptBut
  <2>4. order'[o].manual = "reject" \/ \A l \in LinesOf(o) : line'[l].dropped
    BY <2>0, <2>1, <2>2 DEF OrdersKeptBut, Active
  <2>5. PhaseOf(o) \in {"open", "review", "asking"} /\ PhaseOf(o)' = "refused"
    <3>1. PhaseOf(o)' = "refused"
      BY <2>3 DEF PhaseOf, Refused
    <3>2. PhaseOf(o) \in {"open", "review", "asking"}
      BY <1>0, <1>2, <1>4 DEF PhasesRight, Promise!Phases, Settled
    <3> QED
      BY <3>1, <3>2
  <2>6. <<PhaseOf(o), PhaseOf(o)'>> \in Promise!Turn
    BY <2>5 DEF Promise!Turn
  <2>7. OrderTurns(o)
    BY <1>2, <2>1, <2>3, <2>4, <2>6 DEF OrderTurns, OrdersKeptBut, Refused
  <2> QED
    BY <2>2, <2>7
<1>13. CASE Fraud(w, o) \/ AskCustomer(w, o) \/ CustomerAnswered(w, o)
  BY <1>13 DEF Fraud, AskCustomer, CustomerAnswered
<1>14. CASE AskAuditor(w, o) \/ AuditorAnswered(w, o)
  BY <1>5, <1>14 DEF AskAuditor, AuditorAnswered, Running
<1>15. CASE CheckStock(w, o)
  BY <1>6, <1>15 DEF CheckStock, Running
<1>16. CASE Offer(w, o)
  BY <1>7, <1>16 DEF Offer, Running
<1>17. CASE Apply(w, o) \/ Drop(w, o)
  BY <1>9, <1>10, <1>17 DEF Apply, Drop, Running
<1>18. CASE Ship(w, o) \/ Refuse(w, o)
  BY <1>11, <1>12, <1>18 DEF Ship, Refuse, Running
<1> QED
  BY <1>13, <1>14, <1>15, <1>16, <1>17, <1>18 DEF Node

LEMMA PlaceTurns ==
    ASSUME ProgressInv, NEW o \in Orders, Place(o)
    PROVE  /\ OrderTurns(o) /\ \A l \in LinesOf(o) : LineTurns(o, l)
           /\ \A q \in Orders \ {o} : RowsKept(q)
<1>0. TypeInv /\ RowsInv /\ RowsOK /\ RowsFit /\ Untouched(o) /\ ~Placed(o) /\ Steady(o)
  BY TypeInvParts DEF ProgressInv, ConsentInv, Consent, RowsInv, Place, PlaceOrder, Placed
<1>1. /\ UNCHANGED <<offer, shipped>> /\ outbox' = outbox \cup {<<"confirm", o>>}
      /\ line' = [l \in Lines |-> IF OrderOf[l] = o
                                  THEN [NoRow EXCEPT !.product = Item[l],
                                                     !.price = Price[Item[l]]]
                                  ELSE line[l]]
  BY DEF Place, PlaceOrder
<1>2. /\ order'[o].status = "received" /\ order'[o].manual = order[o].manual
      /\ \A q \in Orders \ {o} : order'[q] = order[q]
  <2>1. PICK high \in BOOLEAN, method \in {"prepaid", "cod"} :
           order' = [order EXCEPT ![o].status = "received",
                                  ![o].high = high, ![o].method = method]
    BY DEF Place, PlaceOrder
  <2> QED
    BY <1>0, <2>1 DEF RowsOK, OrderRow
<1>3. ASSUME NEW l \in LinesOf(o) PROVE LineTurns(o, l)
  <2>1. line'[l].product = Item[l] /\ ~line'[l].dropped
    BY <1>1 DEF NoRow, LinesOf
  <2>2. FateOf(l)' = "open"
    BY <2>1 DEF FateOf
  <2>3. Fits(o, Entry)
    BY <1>0 DEF Steady, Stored, Untouched
  <2>4. l \in Lines /\ LineSound(l) /\ offer[l].status = "none" /\ ~line[l].dropped
    BY <2>3 DEF Fits, FitsNode, Entry, Untaken, ProgressInv, LinesOf
  <2>5. FateOf(l) = "open"
    BY <2>4, FateOpen
  <2> QED
    BY <1>1, <2>2, <2>5 DEF LineTurns
<1>4. OrderTurns(o)
  <2>1. order[o].status = "absent" /\ PhaseOf(o) = "absent" /\ PhaseOf(o)' = "open"
    BY <1>0, <1>2 DEF Placed, PhaseOf, Refused
  <2>2. <<PhaseOf(o), PhaseOf(o)'>> \in Promise!Turn
    BY <2>1 DEF Promise!Turn
  <2> QED
    BY <1>0, <1>1, <1>2, <2>1, <2>2 DEF OrderTurns, Settled, Refused
<1>5. ASSUME NEW q \in Orders \ {o} PROVE RowsKept(q)
  <2>1. outbox' \subseteq outbox \cup ({"confirm", "offer", "line_drop"} \X (Orders \cup Lines))
    <3>1. <<"confirm", o>> \in {"confirm", "offer", "line_drop"} \X (Orders \cup Lines)
      OBVIOUS
    <3> QED
      BY <1>1, <3>1
  <2>2. LinesKeptBut(LinesOf(o))
    BY <1>1 DEF LinesKeptBut, LinesOf
  <2> QED
    BY <1>1, <1>2, <2>1, <2>2, OthersKept
<1> QED
  BY <1>3, <1>4, <1>5

LEMMA CustomerCancelTurns ==
    ASSUME ProgressInv, NEW o \in Orders, CustomerCancel(o), order[o].status = "received"
    PROVE  /\ OrderTurns(o) /\ \A l \in LinesOf(o) : LineTurns(o, l)
           /\ \A q \in Orders \ {o} : RowsKept(q)
<1>0. RowsInv /\ CancelBeforeResolution(o)
  BY TypeInvParts DEF ProgressInv, ConsentInv, CustomerCancel, CancelledIfReceived
<1>1. /\ OrdersKeptBut(o, RefusedStatus(o)) /\ RefusedStatus(o) \in Refused
      /\ UNCHANGED <<line, offer, shipped>>
      /\ outbox' = outbox \cup {<<"customer_cancel", o>>}
  BY <1>0, CustomerCancelEffect
<1>2. PhaseOf(o) = "open" /\ PhaseOf(o)' = "refused"
  BY <1>1 DEF OrdersKeptBut, PhaseOf, Refused
<1>3. <<PhaseOf(o), PhaseOf(o)'>> \in Promise!Turn
  BY <1>2 DEF Promise!Turn
<1>4. OrderTurns(o)
  BY <1>1, <1>3 DEF OrderTurns, OrdersKeptBut, Settled, Refused
<1>5. \A q \in Orders \ {o} : RowsKept(q)
  BY <1>1 DEF OrdersKeptBut, RowsKept
<1> QED
  BY <1>1, <1>4, <1>5, LineStays

LEMMA AuditTurns ==
    ASSUME ProgressInv, NEW o \in Orders, NEW d \in {"approve", "reject"}, DecideAudit(o, d)
    PROVE  /\ OrderTurns(o) /\ \A l \in LinesOf(o) : LineTurns(o, l)
           /\ \A q \in Orders \ {o} : RowsKept(q)
<1>0. RowsOK /\ Steady(o)
  BY DEF ProgressInv, ConsentInv, TypeInv, TypeOK
<1>1. /\ UNCHANGED <<line, offer, outbox, shipped>>
      /\ order[o].status = "manual_review" /\ order[o].manual = "none"
      /\ order'[o].status = order[o].status /\ order'[o].high = order[o].high
      /\ \A q \in Orders \ {o} : order'[q] = order[q]
  BY <1>0 DEF DecideAudit, RowsOK, OrderRow
<1>2. OrderTurns(o)
  BY <1>0, <1>1 DEF OrderTurns, Steady, OrderSound, Settled, Refused
<1>3. \A q \in Orders \ {o} : RowsKept(q)
  BY <1>1 DEF RowsKept
<1> QED
  BY <1>1, <1>2, <1>3, LineStays

\* Somebody answers an offer, or its deadline does.
LEMMA AnswerTurns ==
    ASSUME ProgressInv, NEW l \in Lines, NEW o \in Orders, o = OrderOf[l],
           \/ \E d \in {"accept", "reject"} : Reply(l, d)
           \/ \E w \in Workers : ExpireOffer(w, l)
    PROVE  /\ OrderTurns(o) /\ \A k \in LinesOf(o) : LineTurns(o, k)
           /\ \A q \in Orders \ {o} : RowsKept(q)
<1>0. RowsOK /\ Steady(o) /\ LineSound(l)
  BY DEF ProgressInv, ConsentInv, TypeInv, TypeOK
<1>1. /\ UNCHANGED <<order, line, outbox, shipped>>
      /\ offer[l].status = "pending" /\ offer[l].decision = "none"
      /\ \E d : offer' = [offer EXCEPT ![l].decision = d]
  BY DEF Reply, ExpireOffer, StillOpen
<1>2. offer'[l].status = "pending" /\ \A k \in Lines \ {l} : offer'[k] = offer[k]
  BY <1>0, <1>1 DEF RowsOK, OfferRow
<1>3. order[o].status = "awaiting_customer"
  BY <1>0, <1>1 DEF Steady, OrderSound, NonePending, LinesOf
<1>4. OrderTurns(o)
  BY <1>1, <1>3 DEF OrderTurns, Settled, Refused
<1>5. ASSUME NEW k \in LinesOf(o) PROVE LineTurns(o, k)
  <2>1. CASE k = l
    <3>1. FateOf(l) = "open" /\ FateOf(l)' = FateOf(l)
      <4>1. FateOf(l) = "open"
        BY <1>0, <1>1, FateOpen DEF LineSound
      <4>2. FateOf(l)' = FateOf(l)
        BY <1>1 DEF FateOf
      <4> QED
        BY <4>1, <4>2
    <3> QED
      BY <1>1, <1>2, <2>1, <3>1 DEF LineTurns
  <2>2. CASE k # l
    BY <1>1, <1>2, <2>2, LineStays DEF LinesOf
  <2> QED
    BY <2>1, <2>2
<1>6. \A q \in Orders \ {o} : RowsKept(q)
  BY <1>1, <1>2 DEF RowsKept, LinesOf
<1> QED
  BY <1>4, <1>5, <1>6

\* A step that changes nothing the promise is about.
LEMMA PromiseStutter ==
    ASSUME RowsOK, UNCHANGED <<order, line, outbox>>,
           \A l \in Lines : /\ offer'[l].status = offer[l].status
                            /\ offer'[l].decision = offer[l].decision
    PROVE  UNCHANGED Promise!lifecycle
<1>1. \A o \in Orders : PhaseOf(o)' = PhaseOf(o)
  BY DEF PhaseOf
<1>2. \A l \in Lines : FateOf(l)' = FateOf(l)
  BY DEF FateOf
<1> QED
  BY <1>1, <1>2 DEF Promise!lifecycle, Promise!ofOrders, Promise!ofLines

LEMMA PromiseKept ==
    ASSUME ProgressInv, [Next]_vars
    PROVE  [Promise!LifecycleNext]_(Promise!lifecycle)
<1>0. RowsOK /\ RowsInv /\ RowsInv'
  BY NextTypeInv, TypeInvParts DEF ProgressInv, ConsentInv, RowsInv
<1>1. ASSUME NEW o \in Orders,
             OrderTurns(o) /\ (\A l \in LinesOf(o) : LineTurns(o, l))
                /\ \A q \in Orders \ {o} : RowsKept(q)
      PROVE  Promise!LifecycleNext
  BY <1>0, <1>1, PromiseStep
<1>2. CASE UNCHANGED db
  <2>1. UNCHANGED Promise!lifecycle
    BY <1>0, <1>2, PromiseStutter DEF db
  <2> QED
    BY <2>1
<1>3. CASE \E o \in Orders : Place(o)
  BY <1>1, <1>3, PlaceTurns
<1>4. ASSUME NEW o \in Orders, CustomerCancel(o), ~UNCHANGED db
      PROVE  Promise!LifecycleNext
  <2>1. order[o].status = "received"
    BY <1>4 DEF CustomerCancel, CancelledIfReceived
  <2> QED
    BY <1>1, <1>4, <2>1, CustomerCancelTurns
<1>5. CASE \E o \in Orders, d \in {"approve", "reject"} : DecideAudit(o, d)
  BY <1>1, <1>5, AuditTurns
<1>6. CASE \/ \E l \in Lines, d \in {"accept", "reject"} : Reply(l, d)
           \/ \E w \in Workers, l \in Lines : ExpireOffer(w, l)
  <2>1. PICK l \in Lines : \/ \E d \in {"accept", "reject"} : Reply(l, d)
                           \/ \E w \in Workers : ExpireOffer(w, l)
    BY <1>6
  <2>2. PICK o \in Orders : o = OrderOf[l]
    BY OrderAssumption
  <2> QED
    BY <1>1, <2>1, <2>2, AnswerTurns
<1>7. ASSUME NEW l \in Lines, Deadline(l) PROVE UNCHANGED Promise!lifecycle
  <2>1. \A k \in Lines : /\ offer'[k].status = offer[k].status
                         /\ offer'[k].decision = offer[k].decision
    BY <1>0, <1>7 DEF Deadline, RowsOK, OfferRow
  <2> QED
    BY <1>0, <1>7, <2>1, PromiseStutter DEF Deadline
<1>8. ASSUME NEW w \in Workers, NEW o \in Orders, Node(w, o), ~UNCHANGED db
      PROVE  Promise!LifecycleNext
  <2>1. \E at, m, asked : at = live[o].at /\ m = live[o].missing /\ asked = live[o].asked
    OBVIOUS
  <2>2. OrderTurns(o) /\ \A l \in LinesOf(o) : LineTurns(o, l)
    BY <1>8, <2>1, NodeTurns
  <2>3. \A q \in Orders \ {o} : RowsKept(q)
    BY <1>8, NodeOthers DEF ProgressInv, ConsentInv
  <2> QED
    BY <1>1, <2>2, <2>3
<1>9. ASSUME NEW w \in Workers, NEW o \in Orders, Claim(w, o) \/ Finish(w, o) \/ Failure(w, o)
      PROVE  UNCHANGED db
  BY <1>9 DEF Claim, Finish, Failure, Raise, Crash
<1>10. ASSUME NEW o \in Orders, LockForCancel(o) \/ Retry(o) PROVE UNCHANGED db
  BY <1>10 DEF LockForCancel, Retry
<1>11. CASE UNCHANGED vars
  BY <1>2, <1>11 DEF vars
<1> QED
  BY <1>2, <1>3, <1>4, <1>5, <1>6, <1>7, <1>8, <1>9, <1>10, <1>11 DEF Next, Sleep

LEMMA PromiseInit == Init => Promise!LifecycleInit
<1> SUFFICES ASSUME Init PROVE Promise!LifecycleInit
  OBVIOUS
<1>1. \A o \in Orders : PhaseOf(o) = "absent" /\ ~order[o].high /\ order[o].manual = "none"
  BY DEF Init, ServicesInit, NoOrder, PhaseOf, Refused
<1>2. \A l \in Lines : FateOf(l) = "open" /\ offer[l].status = "none" /\ offer[l].decision = "none"
  BY DEF Init, ServicesInit, NoRow, NoOffer, FateOf
<1>3. outbox = {}
  BY DEF Init, ServicesInit
<1> QED
  BY <1>1, <1>2, <1>3 DEF Promise!LifecycleInit

\* The running system implements the promise of OrderLifecycle: every order is
\* reviewed, offered, answered, replaced, shipped and refused as it says, whatever
\* nodes are run again and whoever answers when.
THEOREM PromiseHolds == OneNodeBehind /\ CancelsInTime /\ Spec => KeepsPromise
<1>1. ProgressInv /\ [Next]_vars => [Promise!LifecycleNext]_(Promise!lifecycle)
  BY PromiseKept
<1> QED
  BY <1>1, PromiseInit, ProgressSafety, PTL DEF Spec, KeepsPromise, Promise!Lifecycle

-----------------------------------------------------------------------------
(***************************************************************************)
(* Nobody is forgotten while no drive fails.                               *)
(***************************************************************************)

LEMMA NeverFailsSuffices == NeverFails => OneNodeBehind /\ CancelsInTime
BY DEF NeverFails, OneNodeBehind, CancelsInTime

LEMMA NoFailure ==
    ASSUME ProgressInv, MaxFaults = 0, NEW w \in Workers, NEW o \in Orders, Failure(w, o)
    PROVE  FALSE
<1>1. ~MustRaise(o)
  BY NoneMustRaise DEF ProgressInv, ConsentInv, Sound, Steady
<1>2. faults = 0
  BY WorkflowAssumption DEF ProgressInv, ConsentInv, TypeInv, TypeOK
<1> QED
  BY <1>1, <1>2 DEF Failure, Raise, Crash

\* A step that leaves an order, its checkpoint, its lock and its job alone.
LEMMA AttendedKept ==
    ASSUME TypeInv, NEW q \in Orders, Attended(q), RowsKept(q), live'[q] = live[q],
           resume'[q] = resume[q], lock'[q] = lock[q], job'[q] = job[q]
    PROVE  Attended(q)'
<1>1. /\ live[q].at \in LineNodes => live[q].missing \in LinesOf(q)
      /\ live[q].asked => live[q].at \in {"manual", "wait_customer"}
  BY TypeInvParts DEF CheckpointsOK, OfOrder
<1>2. live[q].at \in LineNodes => offer'[live[q].missing] = offer[live[q].missing]
  BY <1>1 DEF RowsKept
<1>3. live[q].asked => Decision(q)' = Decision(q)
  BY <1>1, <1>2 DEF Decision, RowsKept, LineNodes
<1> QED
  BY <1>2, <1>3 DEF Attended, RowsKept, Open, Placed, Unlocked, Paused, LineNodes

\* A node of o goes on to checkpoint c.
LEMMA SaveAttended ==
    ASSUME TypeInv, NEW o \in Orders, ~Unlocked(o), NEW c \in Checkpoint, Save(o, c),
           order'[o].status \in {"absent", "received"} => order'[o].manual = "none",
           c.at = "manual" => order'[o].manual = "none",
           c.at = "offer" => offer'[c.missing].status = "none",
           c.at = "wait_customer" => offer'[c.missing].decision = "none",
           c.asked => c.at \in {"manual", "wait_customer"}
    PROVE  Attended(o)'
<1>1. live'[o] = c /\ lock' = lock
  BY TypeInvParts DEF Save, ControlOK
<1>2. c.asked => Decision(o)' = "none"
  BY <1>1 DEF Decision
<1> QED
  BY <1>1, <1>2 DEF Attended, Unlocked, Paused

LEMMA GoToAttended ==
    ASSUME TypeInv, NEW o \in Orders, ~Unlocked(o), NEW m, m = live[o].missing,
           NEW n \in Nodes, GoTo(o, n),
           order'[o].status \in {"absent", "received"} => order'[o].manual = "none",
           n = "manual" => order'[o].manual = "none",
           n = "offer" => offer'[m].status = "none",
           n = "wait_customer" => offer'[m].decision = "none"
    PROVE  Attended(o)'
<1>1. PICK c \in Checkpoint : c = [live[o] EXCEPT !.at = n, !.asked = FALSE]
  BY TypeInvParts DEF ControlOK, Checkpoint
<1>2. Save(o, c) /\ c.at = n /\ c.missing = m /\ c.asked = FALSE
  BY <1>1, TypeInvParts DEF GoTo, ControlOK, Checkpoint
<1> QED
  BY <1>2, SaveAttended

LEMMA AskAttended ==
    ASSUME TypeInv, NEW o \in Orders, ~Unlocked(o), NEW m, m = live[o].missing,
           NEW at, at = live[o].at, at \in {"manual", "wait_customer"}, Ask(o),
           order'[o].status \in {"absent", "received"} => order'[o].manual = "none",
           at = "manual" => order'[o].manual = "none",
           at = "wait_customer" => offer'[m].decision = "none"
    PROVE  Attended(o)'
<1>1. PICK c \in Checkpoint : c = [live[o] EXCEPT !.asked = TRUE]
  BY TypeInvParts DEF ControlOK, Checkpoint
<1>2. Save(o, c) /\ c.at = at /\ c.missing = m
  BY <1>1, TypeInvParts DEF Ask, ControlOK, Checkpoint
<1> QED
  BY <1>2, SaveAttended

LEMMA NodeAttended ==
    ASSUME ProgressInv, NEW w \in Workers, NEW o \in Orders, Node(w, o), Attended(o),
           NEW at, at = live[o].at, NEW m, m = live[o].missing,
           NEW asked, asked = live[o].asked
    PROVE  Attended(o)'
<1>0. /\ TypeInv /\ RowsInv /\ RowsOK /\ ~Unlocked(o) /\ ~Paused(o) /\ Steady(o) /\ Sound(o)
      /\ at \in LineNodes => m \in LinesOf(o)
  BY NodeRuns, TypeInvParts, WorkflowAssumption
     DEF ProgressInv, ConsentInv, RowsInv, Unlocked, Sound, Steady
<1>1. FitsNode(o, at, m, asked)
  BY <1>0 DEF Steady, Stored, Fits
<1>2. /\ order'[o].manual = order[o].manual
      /\ order'[o].status \in {"absent", "received"} => order'[o].manual = "none"
  <2>1. order'[o].manual = order[o].manual
    BY <1>0, NodeTransaction DEF OnlyItsOwn
  <2>2. order'[o].status \in {"absent", "received"} => order[o].status \in {"absent", "received"}
    <3>1. CASE UNCHANGED db
      BY <3>1 DEF db
    <3>2. CASE ~UNCHANGED db
      <4>1. order'[o].status = order[o].status \/ <<PhaseOf(o), PhaseOf(o)'>> \in Promise!Turn
        BY <3>2, NodeTurns DEF OrderTurns
      <4>2. PhasesRight /\ PhasesRight'
        BY <1>0, Phases, PhasesNext, NextTypeInv, NodeTypeInv, TypeInvParts
      <4> QED
        BY <4>1, <4>2 DEF PhasesRight, Promise!Turn, Placed
    <3> QED
      BY <3>1, <3>2
  <2> QED
    BY <2>1, <2>2 DEF Attended
<1>3. CASE Fraud(w, o)
  <2>1. order'[o].manual = "none" /\ at = "fraud"
    <3>1. order[o].status \in {"absent", "received"}
      BY <1>0, <1>1, <1>3 DEF Fraud, Running, FitsNode, Steady, WithdrawnRests, Stored
    <3> QED
      BY <1>2, <1>3, <3>1 DEF Attended, Fraud, Running
  <2>2. PICK n \in {"manual", "inventory"} : GoTo(o, n)
    BY <1>3 DEF Fraud
  <2> QED
    BY <1>0, <2>1, <2>2, GoToAttended DEF Nodes
<1>4. CASE AskAuditor(w, o)
  <2>1. at = "manual" /\ Ask(o) /\ order'[o].manual = "none"
    BY <1>2, <1>4 DEF AskAuditor, Running, Attended
  <2> QED
    BY <1>0, <2>1, AskAttended
<1>5. CASE AuditorAnswered(w, o)
  <2>1. PICK n \in {"inventory", "cancel"} : GoTo(o, n)
    BY <1>5 DEF AuditorAnswered
  <2> QED
    BY <1>0, <1>2, <2>1, GoToAttended DEF Nodes
<1>6. CASE CheckStock(w, o)
  <2>1. at = "inventory" /\ NonePending(o)
    BY <1>1, <1>6 DEF CheckStock, Running, FitsNode
  <2>2. offer' = offer
    BY <1>6 DEF CheckStock, Inventory
  <2> DEFINE done == [at |-> IF Active(o) = {} THEN "cancel" ELSE "fulfill",
                      missing |-> NoLine, asked |-> FALSE]
             short(l) == [at |-> "offer", missing |-> l, asked |-> FALSE]
  <2>3. Save(o, done) \/ \E l \in Wanted(o) : Save(o, short(l))
    BY <1>6 DEF CheckStock
  <2>4. CASE Save(o, done)
    <3>0. done.at \in {"cancel", "fulfill"} /\ {"cancel", "fulfill"} \subseteq Nodes
      BY DEF Nodes
    <3>1. PICK c \in Checkpoint : c = done
      BY <3>0 DEF Checkpoint
    <3>2. Save(o, c) /\ c.at \in {"cancel", "fulfill"} /\ c.asked = FALSE
      BY <2>4, <3>0, <3>1
    <3> QED
      BY <1>0, <1>2, <3>2, SaveAttended
  <2>5. ASSUME NEW l \in Wanted(o), Save(o, short(l)) PROVE Attended(o)'
    <3>1. l \in LinesOf(o) /\ l \in Lines /\ ~line[l].reserved /\ ~line[l].dropped
      BY DEF Wanted, Active, LinesOf
    <3>2. offer'[l].status = "none"
      BY <1>0, <2>1, <2>2, <3>1 DEF Sound, LineSound, NonePending
    <3>3. PICK c \in Checkpoint : c = short(l)
      BY <3>1 DEF Checkpoint, Nodes
    <3>4. Save(o, c) /\ c.at = "offer" /\ c.missing = l /\ c.asked = FALSE
      BY <2>5, <3>3
    <3> QED
      BY <1>0, <1>2, <3>2, <3>4, SaveAttended
  <2> QED
    BY <2>3, <2>4, <2>5
<1>7. CASE Offer(w, o)
  <2>1. at = "offer" /\ m \in LinesOf(o) /\ m \in Lines /\ offer[m].status = "none"
    BY <1>0, <1>7 DEF Offer, Running, LineNodes, Attended, LinesOf
  <2>2. PICK hint \in Hints : CreateOffer(o, m, hint)
    BY <1>7 DEF Offer
  <2>3. offer[m].decision = "none"
    BY <1>0, <2>1 DEF Sound, LineSound
  <2>4. offer'[m].decision = "none"
    BY <1>0, <2>1, <2>2, <2>3, CreateOfferEffect, ZenonT(60) DEF NewOffer, NoOffer, db
  <2>5. PICK n \in {"wait_customer", "drop_line"} : GoTo(o, n)
    BY <1>7 DEF Offer
  <2> QED
    BY <1>0, <1>2, <2>4, <2>5, GoToAttended DEF Nodes
<1>8. CASE AskCustomer(w, o)
  <2>1. at = "wait_customer" /\ Ask(o) /\ offer'[m].decision = "none"
    BY <1>8 DEF AskCustomer, Running, Attended, db
  <2> QED
    BY <1>0, <1>2, <2>1, AskAttended
<1>9. CASE \/ CustomerAnswered(w, o) \/ Apply(w, o) \/ Drop(w, o) \/ Ship(w, o)
           \/ Refuse(w, o)
  <2>1. PICK n \in {"apply", "drop_line", "inventory", "end"} : GoTo(o, n)
    BY <1>9 DEF CustomerAnswered, Apply, Drop, Ship, Refuse
  <2> QED
    BY <1>0, <1>2, <2>1, GoToAttended DEF Nodes
<1> QED
  BY <1>3, <1>4, <1>5, <1>6, <1>7, <1>8, <1>9 DEF Node

\* What an answer, a retry or a cancellation does to its own order.
LEMMA OutsideAttended ==
    ASSUME ProgressInv, MaxFaults = 0, NEW o \in Orders, Attended(o),
           \/ Place(o) \/ CustomerCancel(o) \/ Retry(o)
           \/ \E d \in {"approve", "reject"} : DecideAudit(o, d)
           \/ \E l \in LinesOf(o) : \/ \E d \in {"accept", "reject"} : Reply(l, d)
                                    \/ \E w \in Workers : ExpireOffer(w, l)
    PROVE  Attended(o)'
<1>1. TypeInv /\ RowsInv /\ RowsOK /\ ControlOK /\ JobsOK /\ Steady(o)
  BY TypeInvParts DEF ProgressInv, ConsentInv, RowsInv
<1>2. live'[o] = live[o] /\ lock'[o] = lock[o] /\ Unlocked(o)
  <2>1. Place(o) => Unlocked(o)
    BY <1>1 DEF Place, PlaceOrder, JobsOK, Placed
  <2> QED
    BY <2>1 DEF Place, CustomerCancel, Retry, DecideAudit, Reply, ExpireOffer, graph, LinesOf
<1>3. live[o].at \in {"fraud", "end"} \/ live[o].asked
  BY <1>1, <1>2 DEF Steady, Rested
<1>4. live[o].at = "offer" => FALSE
  BY <1>1, <1>3, TypeInvParts DEF CheckpointsOK, OfOrder
<1>5. CASE Place(o)
  <2>1. live[o] = Entry /\ job'[o].pending /\ order[o].status = "absent"
    BY <1>1, <1>5 DEF Place, PlaceOrder, ProgressInv, ConsentInv, Consent, Untouched, Placed,
                      ControlOK
  <2>2. order'[o].manual = order[o].manual
    <3>1. PICK high \in BOOLEAN, method \in {"prepaid", "cod"} :
             order' = [order EXCEPT ![o].status = "received",
                                    ![o].high = high, ![o].method = method]
      BY <1>5 DEF Place, PlaceOrder
    <3> QED
      BY <1>1, <3>1 DEF RowsOK, OrderRow
  <2> QED
    BY <1>2, <2>1, <2>2 DEF Attended, Entry, Unlocked
<1>6. CASE CustomerCancel(o)
  <2>1. CASE order[o].status # "received"
    <3>1. UNCHANGED <<db, job, resume>>
      BY <1>6, <2>1 DEF CustomerCancel, CancelledIfReceived, graph
    <3>2. RowsKept(o)
      BY <3>1 DEF db, RowsKept
    <3> QED
      BY <1>1, <1>2, <3>1, <3>2, AttendedKept
  <2>2. CASE order[o].status = "received"
    <3>1. /\ OrdersKeptBut(o, RefusedStatus(o)) /\ RefusedStatus(o) \in Refused
          /\ UNCHANGED <<line, offer>>
      BY <1>1, <1>6, <2>2, CustomerCancelEffect DEF CustomerCancel, CancelledIfReceived
    <3>2. order'[o].status \in Refused /\ order'[o].manual = order[o].manual
      BY <3>1 DEF OrdersKeptBut
    <3> QED
      BY <1>2, <3>1, <3>2 DEF Attended, Unlocked, Open, Settled, Refused
  <2> QED
    BY <2>1, <2>2
<1>7. CASE Retry(o)
  <2>1. job'[o].pending /\ UNCHANGED <<order, offer>>
    BY <1>1, <1>7 DEF Retry, Wake, ControlOK, db
  <2> QED
    BY <1>2, <2>1 DEF Attended, Unlocked
<1>8. ASSUME NEW d \in {"approve", "reject"}, DecideAudit(o, d) PROVE Attended(o)'
  <2>1. /\ job'[o].pending /\ order'[o].status = "manual_review" /\ UNCHANGED offer
    BY <1>1, <1>8 DEF DecideAudit, Wake, ControlOK, RowsOK, OrderRow
  <2> QED
    BY <1>2, <1>3, <2>1 DEF Attended, Unlocked
<1>9. ASSUME NEW l \in LinesOf(o),
             \/ \E d \in {"accept", "reject"} : Reply(l, d)
             \/ \E w \in Workers : ExpireOffer(w, l)
      PROVE  Attended(o)'
  <2>1. job'[o].pending /\ UNCHANGED order
    BY <1>1, <1>9 DEF Reply, ExpireOffer, Wake, ControlOK, LinesOf
  <2> QED
    BY <1>2, <1>3, <1>4, <2>1 DEF Attended, Unlocked
<1> QED
  BY <1>5, <1>6, <1>7, <1>8, <1>9

\* A drive begins or ends.
LEMMA DriveAttended ==
    ASSUME ProgressInv, NEW o \in Orders, Attended(o), NEW w \in Workers,
           Claim(w, o) \/ Finish(w, o)
    PROVE  Attended(o)'
<1>1. TypeInv /\ ControlOK /\ Steady(o)
  BY TypeInvParts DEF ProgressInv, ConsentInv
<1>2. UNCHANGED <<order, offer, live>>
  BY DEF Claim, Finish, db
<1>3. Decision(o)' = Decision(o)
  BY <1>2 DEF Decision
<1>4. CASE Claim(w, o)
  <2>1. /\ ~Unlocked(o)'
        /\ resume'[o] = IF live[o].asked THEN Decision(o) ELSE "none"
    BY <1>1, <1>4, WorkflowAssumption DEF Claim, ControlOK, Unlocked
  <2> QED
    BY <1>2, <1>3, <2>1 DEF Attended, Paused
<1>5. CASE Finish(w, o)
  <2>1. Unlocked(o)' /\ ~Unlocked(o) /\ DriveOver(o)
    BY <1>1, <1>5, WorkflowAssumption DEF Finish, ControlOK, Unlocked
  <2>2. live[o].at = "end" => ~Open(o)'
    BY <1>1, <1>2 DEF Steady, Stored, Fits, FitsNode, Open
  <2> QED
    BY <1>2, <1>3, <2>1, <2>2 DEF Attended, DriveOver, Paused
<1> QED
  BY <1>4, <1>5

LEMMA NextAttended ==
    ASSUME NeverFails
    PROVE  AttendedInv /\ [Next]_vars => AttendedInv'
<1> SUFFICES ASSUME AttendedInv, [Next]_vars, NEW q \in Orders PROVE Attended(q)'
  BY NeverFailsSuffices, NextProgress DEF AttendedInv
<1>0. /\ ProgressInv /\ TypeInv /\ RowsOK /\ ControlOK /\ MaxFaults = 0
      /\ \A o \in Orders : Attended(o)
  BY TypeInvParts DEF AttendedInv, ProgressInv, ConsentInv, NeverFails, TypeInv, TypeOK
<1>1. CASE UNCHANGED <<db, job, lock, graph>>
  <2>1. RowsKept(q)
    BY <1>1 DEF db, RowsKept
  <2> QED
    BY <1>0, <1>1, <2>1, AttendedKept DEF graph
<1>2. ASSUME NEW o \in Orders, q # o,
             RowsKept(q), live'[q] = live[q], resume'[q] = resume[q], lock'[q] = lock[q],
             job'[q] = job[q]
      PROVE  Attended(q)'
  BY <1>0, <1>2, AttendedKept
<1>3. ASSUME NEW o \in Orders,
             \/ Place(o) \/ CustomerCancel(o) \/ Retry(o)
             \/ \E d \in {"approve", "reject"} : DecideAudit(o, d)
             \/ \E l \in LinesOf(o) : \/ \E d \in {"accept", "reject"} : Reply(l, d)
                                      \/ \E w \in Workers : ExpireOffer(w, l)
      PROVE  Attended(q)'
  <2>1. CASE q = o
    BY <1>0, <1>3, <2>1, OutsideAttended
  <2>2. CASE q # o
    <3>1. live'[q] = live[q] /\ resume'[q] = resume[q] /\ lock'[q] = lock[q] /\ job'[q] = job[q]
      BY <1>0, <1>3, <2>2 DEF Place, CustomerCancel, CancelledIfReceived, Retry, DecideAudit,
         Reply, ExpireOffer, Wake, graph, ControlOK, LinesOf
    <3>2. CustomerCancel(o) \/ Retry(o) => RowsKept(q)
      <4>1. Retry(o) => UNCHANGED db
        BY DEF Retry
      <4>2. CustomerCancel(o) /\ order[o].status = "received" => RowsKept(q)
        BY <1>0, <2>2, CustomerCancelTurns
      <4>3. CustomerCancel(o) /\ order[o].status # "received" => UNCHANGED db
        BY DEF CustomerCancel, CancelledIfReceived
      <4>4. UNCHANGED db => RowsKept(q)
        BY DEF db, RowsKept
      <4> QED
        BY <4>1, <4>2, <4>3, <4>4
    <3>3. ASSUME NEW l \in LinesOf(o),
                 \/ \E d \in {"accept", "reject"} : Reply(l, d)
                 \/ \E w \in Workers : ExpireOffer(w, l)
          PROVE  RowsKept(q)
      BY <1>0, <2>2, <3>3, AnswerTurns DEF LinesOf
    <3>4. RowsKept(q)
      BY <1>0, <1>3, <2>2, <3>2, <3>3, PlaceTurns, AuditTurns
    <3> QED
      BY <1>2, <2>2, <3>1, <3>4
  <2> QED
    BY <2>1, <2>2
<1>4. ASSUME NEW l \in Lines,
             \/ \E d \in {"accept", "reject"} : Reply(l, d)
             \/ \E w \in Workers : ExpireOffer(w, l)
      PROVE  Attended(q)'
  <2>1. OrderOf[l] \in Orders /\ l \in LinesOf(OrderOf[l])
    BY OrderAssumption DEF LinesOf
  <2> QED
    BY <1>3, <1>4, <2>1
<1>5. ASSUME NEW l \in Lines, Deadline(l) PROVE Attended(q)'
  <2>1. /\ UNCHANGED <<order, live, resume, lock, job>>
        /\ \A k \in Lines : /\ offer'[k].status = offer[k].status
                            /\ offer'[k].decision = offer[k].decision
    BY <1>0, <1>5 DEF Deadline, RowsOK, OfferRow, graph
  <2>2. /\ live[q].at \in LineNodes => live[q].missing \in Lines
        /\ live[q].asked => live[q].at \in {"manual", "wait_customer"}
    BY <1>0, TypeInvParts DEF CheckpointsOK, OfOrder, LinesOf
  <2>3. live[q].asked => Decision(q)' = Decision(q)
    BY <2>1, <2>2 DEF Decision, LineNodes
  <2> QED
    BY <1>0, <2>1, <2>2, <2>3 DEF Attended, Open, Placed, Unlocked, Paused, LineNodes
<1>6. ASSUME NEW w \in Workers, NEW o \in Orders, Node(w, o) PROVE Attended(q)'
  <2>1. CASE q = o
    <3>1. \E at, m, asked : at = live[o].at /\ m = live[o].missing /\ asked = live[o].asked
      OBVIOUS
    <3> QED
      BY <1>0, <1>6, <2>1, <3>1, NodeAttended
  <2>2. CASE q # o
    <3>1. RowsKept(q)
      BY <1>0, <1>6, <2>2, NodeOthers
    <3>2. live'[q] = live[q] /\ resume'[q] = resume[q] /\ lock'[q] = lock[q] /\ job'[q] = job[q]
      BY <1>0, <1>6, <2>2 DEF Node, Fraud, AskAuditor, AuditorAnswered, CheckStock, Offer,
         AskCustomer, CustomerAnswered, Apply, Drop, Ship, Refuse, GoTo, Ask, Save, ControlOK
    <3> QED
      BY <1>2, <2>2, <3>1, <3>2
  <2> QED
    BY <2>1, <2>2
<1>7. ASSUME NEW w \in Workers, NEW o \in Orders, Claim(w, o) \/ Finish(w, o)
      PROVE  Attended(q)'
  <2>1. CASE q = o
    BY <1>0, <1>7, <2>1, DriveAttended
  <2>2. CASE q # o
    <3>1. UNCHANGED db
      BY <1>7 DEF Claim, Finish
    <3>2. RowsKept(q)
      BY <3>1 DEF db, RowsKept
    <3>3. live'[q] = live[q] /\ resume'[q] = resume[q] /\ lock'[q] = lock[q] /\ job'[q] = job[q]
      BY <1>0, <1>7, <2>2 DEF Claim, Finish, ControlOK
    <3> QED
      BY <1>2, <2>2, <3>2, <3>3
  <2> QED
    BY <2>1, <2>2
<1>8. ASSUME NEW o \in Orders, LockForCancel(o) PROVE Attended(q)'
  BY <1>1, <1>8 DEF LockForCancel
<1>9. ASSUME NEW w \in Workers, NEW o \in Orders PROVE ~Failure(w, o)
  BY <1>0, NoFailure
<1>10. CASE UNCHANGED vars
  BY <1>1, <1>10 DEF vars
<1> QED
  BY <1>3, <1>4, <1>5, <1>6, <1>7, <1>8, <1>9, <1>10 DEF Next, Sleep

\* Every order that is not settled is queued or waits for an answer somebody can
\* still give, if no drive fails (drive, process_one, reply, decide_audit).
THEOREM NobodyForgotten == NeverFails /\ Spec => []NeverForgotten
<1> SUFFICES ASSUME NeverFails PROVE Spec => []NeverForgotten
  OBVIOUS
<1>1. AttendedInv /\ [Next]_vars => AttendedInv'
  BY NextAttended
<1>2. Init => AttendedInv
  <2> SUFFICES ASSUME Init, NEW o \in Orders PROVE Attended(o)
    BY InitProgress DEF AttendedInv
  <2>1. live[o] = Entry /\ order[o] = NoOrder /\ Unlocked(o)
    BY DEF Init, ServicesInit, Unlocked
  <2> QED
    BY <2>1 DEF Attended, Entry, NoOrder, Open, Placed
<1>3. AttendedInv => NeverForgotten
  BY DEF AttendedInv, Attended, NeverForgotten, Open
<1> QED
  BY <1>1, <1>2, <1>3, PTL DEF Spec

-----------------------------------------------------------------------------
(***************************************************************************)
(* Money.  What a prepaid customer pays and gets back adds up, whatever    *)
(* fails and however often a node is run again: an order ends with one     *)
(* event, and the lines that do not ship are paid back once, in full.      *)
(***************************************************************************)
\* Savings that add up to nothing are nothing each.
LEMMA SavingsSum ==
    ASSUME NEW S, IsFiniteSet(S), \A x \in S : Saving(x) \in Nat
    PROVE  /\ MapThenSumSet(Saving, S) \in Nat
           /\ MapThenSumSet(Saving, S) = 0 => \A x \in S : Saving(x) = 0
<1> DEFINE g == [x \in S |-> Saving(x)]
           D(i) == [s \in SUBSET S |-> IF s = {} THEN 0
                      ELSE Saving(CHOOSE x \in s : TRUE) + i[s \ {CHOOSE x \in s : TRUE}]]
           E(i) == [s \in SUBSET S |-> IF s = {} THEN 0
                      ELSE g[CHOOSE x \in s : TRUE] + i[s \ {CHOOSE x \in s : TRUE}]]
<1>1. \A i : D(i) = E(i)
  OBVIOUS
<1>2. /\ MapThenSumSet(Saving, S) = (CHOOSE i : i = D(i))[S]
      /\ Sum(g, S) = (CHOOSE i : i = E(i))[S]
  BY DEF Sum, MapThenSumSet, MapThenFoldSet
<1> HIDE DEF D, E
<1>3. (CHOOSE i : i = D(i)) = (CHOOSE i : i = E(i))
  BY <1>1, Zenon
<1>4. \A x \in S : g[x] = Saving(x)
  OBVIOUS
<1> HIDE DEF g
<1>5. Sum(g, S) \in Nat /\ (Sum(g, S) = 0 => \A x \in S : g[x] = 0)
  BY <1>4, SumNat
<1> QED
  BY <1>2, <1>3, <1>4, <1>5

-----------------------------------------------------------------------------
(***************************************************************************)
(* What each transaction writes into an order's ledger.                    *)
(***************************************************************************)

\* A step that pays, bills, ships and ends nothing of order q, and leaves its
\* lines alone; it may be decided upon.
LedgerKept(q) ==
    /\ order'[q].status = order[q].status /\ order'[q].high = order[q].high
    /\ order'[q].method = order[q].method
    /\ order'[q].manual = order[q].manual \/ order[q].manual = "none"
    /\ \A l \in LinesOf(q) :
          /\ line'[l] = line[l] /\ refund'[l] = refund[l] /\ bill'[l] = bill[l]
          /\ offer'[l].status = offer[l].status
          /\ offer'[l].decision = offer[l].decision \/ offer[l].decision = "none"
          /\ l \in shipped' <=> l \in shipped
    /\ \A e \in Ends : <<e, q>> \in outbox' <=> <<e, q>> \in outbox

LEMMA LedgerFrame ==
    ASSUME NEW q \in Orders, Ledger(q), LedgerKept(q)
    PROVE  Ledger(q)'
<1>1. LinesOf(q)' = LinesOf(q) /\ Active(q)' = Active(q) /\ Active(q) \subseteq LinesOf(q)
  BY DEF LedgerKept, LinesOf, Active
<1>2. /\ Fulfilled(q)' <=> Fulfilled(q)
      /\ Cancelled(q)' <=> Cancelled(q)
      /\ Withdrawn(q)' <=> Withdrawn(q)
      /\ Placed(q)' <=> Placed(q)
      /\ Prepaid(q)' <=> Prepaid(q)
  BY DEF LedgerKept, Fulfilled, Cancelled, Withdrawn, Placed, Prepaid, Ends
<1>3. \A l \in LinesOf(q) : /\ PaidBack(l)' <=> PaidBack(l)
                            /\ NothingBack(l)' <=> NothingBack(l)
  BY <1>2 DEF LedgerKept, PaidBack, NothingBack, LinesOf, Original
<1>4. Blank(q) => Blank(q)'
  BY <1>1, <1>2 DEF Blank, LedgerKept
<1>5. Billed(q) => Billed(q)'
  BY <1>1, <1>2 DEF Billed, LedgerKept, Original
<1>6. Hopeless(q) => Hopeless(q)'
  BY HopelessKept DEF LedgerKept
<1>7. shipped' \cap LinesOf(q) = shipped \cap LinesOf(q)
  BY DEF LedgerKept
<1>8. \A l \in LinesOf(q) : offer'[l].status = "accepted" => offer'[l].decision = "accept"
  BY DEF Ledger, LedgerKept
<1> QED
  BY <1>1, <1>2, <1>3, <1>4, <1>5, <1>6, <1>7, <1>8 DEF Ledger, LedgerKept

\* A transaction that pays nothing, ships nothing and ends nothing.
LEMMA LedgerOpen ==
    ASSUME NEW o \in Orders, Placed(o), ~Withdrawn(o), Ledger(o),
           Placed(o)', order'[o].status \in Settled => order[o].status \in Settled,
           order'[o].high = order[o].high, order'[o].manual = order[o].manual,
           order'[o].method = order[o].method, refund' = refund, shipped' = shipped,
           \A e \in Ends : <<e, o>> \in outbox' <=> <<e, o>> \in outbox,
           \A l \in LinesOf(o) :
              /\ line'[l].dropped = line[l].dropped
              /\ offer'[l].status = "accepted" => offer'[l].decision = "accept"
              /\ Fulfilled(o) /\ ~line[l].dropped =>
                    /\ line'[l].price = line[l].price /\ bill'[l] = bill[l]
                    /\ line[l].reserved => line'[l].reserved
    PROVE  Ledger(o)'
<1>1. LinesOf(o)' = LinesOf(o) /\ Active(o)' = Active(o)
      /\ Active(o) = {l \in LinesOf(o) : ~line[l].dropped}
  BY DEF LinesOf, Active
<1>2. /\ Fulfilled(o)' <=> Fulfilled(o)
      /\ Cancelled(o)' <=> Cancelled(o)
      /\ Withdrawn(o)' <=> Withdrawn(o)
      /\ Prepaid(o)' <=> Prepaid(o)
  BY DEF Fulfilled, Cancelled, Withdrawn, Prepaid, Ends
<1>3. \A l \in LinesOf(o) : /\ PaidBack(l)' <=> PaidBack(l)
                            /\ NothingBack(l)' <=> NothingBack(l)
  BY <1>2 DEF PaidBack, NothingBack, LinesOf, Original
<1>4. Fulfilled(o) /\ Billed(o) => Billed(o)'
  BY <1>1, <1>2 DEF Billed, Original
<1>5. Hopeless(o) => Hopeless(o)'
  BY HopelessKept
<1> QED
  BY <1>1, <1>2, <1>3, <1>4, <1>5 DEF Ledger

LEMMA QuietLedger ==
    ASSUME RowsInv, NEW o \in Orders, Placed(o), ~Withdrawn(o), Ledger(o),
           \/ FlagAudit(o)
           \/ \E got \in SUBSET Wanted(o) : Inventory(o, got)
           \/ \E hint : \E m \in LinesOf(o) : CreateOffer(o, m, hint)
    PROVE  Ledger(o)' /\ \A l \in LinesOf(o) : line'[l].dropped = line[l].dropped
<1>0. \A l \in LinesOf(o) : l \in Lines /\ line[l] \in LineRow /\ offer[l] \in OfferRow
  BY DEF RowsInv, RowsOK, LinesOf
<1>1. CASE FlagAudit(o)
  <2>1. OrdersKeptBut(o, "manual_review") /\ UNCHANGED <<line, offer, outbox, refund, bill, shipped>>
    BY <1>1, FlagEffect
  <2>2. Placed(o)' /\ order'[o].status \notin Settled
    BY <2>1 DEF OrdersKeptBut, Placed, Settled, Refused
  <2>3. \A l \in LinesOf(o) : offer[l].status = "accepted" => offer[l].decision = "accept"
    BY DEF Ledger
  <2> QED
    BY <2>1, <2>2, <2>3, LedgerOpen DEF OrdersKeptBut
<1>2. ASSUME NEW got \in SUBSET Wanted(o), Inventory(o, got)
      PROVE  Ledger(o)' /\ \A l \in LinesOf(o) : line'[l].dropped = line[l].dropped
  <2>1. /\ OrdersKeptBut(o, order[o].status)
        /\ UNCHANGED <<offer, outbox, refund, bill, shipped>>
        /\ LinesKeptBut(got)
        /\ \A l \in got : line'[l] = [line[l] EXCEPT !.reserved = TRUE]
    BY <1>2, InventoryEffect
  <2>2. Placed(o)' /\ order'[o].status = order[o].status
    BY <2>1 DEF OrdersKeptBut, Placed
  <2>3. ASSUME NEW l \in LinesOf(o)
        PROVE  /\ line'[l].dropped = line[l].dropped /\ line'[l].price = line[l].price
               /\ line[l].reserved => line'[l].reserved
               /\ offer'[l].status = "accepted" => offer'[l].decision = "accept"
    <3>1. CASE l \in got
      BY <1>0, <2>1, <3>1 DEF LineRow, Ledger
    <3>2. CASE l \notin got
      BY <1>0, <2>1, <3>2 DEF LinesKeptBut, Ledger
    <3> QED
      BY <3>1, <3>2
  <2> QED
    BY <2>1, <2>2, <2>3, LedgerOpen DEF OrdersKeptBut
<1>3. ASSUME NEW hint, NEW m \in LinesOf(o), CreateOffer(o, m, hint)
      PROVE  Ledger(o)' /\ \A l \in LinesOf(o) : line'[l].dropped = line[l].dropped
  <2>1. CASE UNCHANGED db
    <3>1. \A l \in LinesOf(o) : offer'[l].status = "accepted" => offer'[l].decision = "accept"
      BY <2>1 DEF Ledger, db
    <3> QED
      BY <2>1, <3>1, LedgerOpen DEF db, Placed
  <2>2. CASE ~UNCHANGED db
    <3>1. /\ OrdersKeptBut(o, "awaiting_customer")
          /\ UNCHANGED <<line, refund, bill, shipped>>
          /\ outbox' = outbox \cup {<<"offer", m>>}
          /\ LinesKeptBut({m})
      BY <1>3, <2>2, CreateOfferEffect
    <3>2. PICK p \in Products : offer'[m] = NewOffer(p)
      BY <1>3, <2>2, CreateOfferEffect
    <3>3. ASSUME NEW l \in LinesOf(o)
          PROVE  offer'[l].status = "accepted" => offer'[l].decision = "accept"
      <4>1. CASE l = m
        BY <3>2, <4>1 DEF NewOffer, NoOffer
      <4>2. CASE l # m
        BY <1>0, <3>1, <4>2 DEF LinesKeptBut, Ledger
      <4> QED
        BY <4>1, <4>2
    <3>4. Placed(o)' /\ order'[o].status \notin Settled
      BY <3>1 DEF OrdersKeptBut, Placed, Settled, Refused
    <3>5. \A e \in Ends : <<e, o>> \in outbox' <=> <<e, o>> \in outbox
      BY <3>1 DEF Ends
    <3> QED
      BY <3>1, <3>3, <3>4, <3>5, LedgerOpen DEF OrdersKeptBut
  <2> QED
    BY <2>1, <2>2
<1> QED
  BY <1>1, <1>2, <1>3

\* A line that is shipped already has accepted its replacement, or never had one.
LEMMA ApplyLedger ==
    ASSUME RowsInv, NEW o \in Orders, Placed(o), ~Withdrawn(o), Ledger(o),
           NEW m \in LinesOf(o), NotYet(m), ApplyOffer(o, m)
    PROVE  Ledger(o)' /\ \A l \in LinesOf(o) : line'[l].dropped = line[l].dropped
<1>0. \A l \in LinesOf(o) : l \in Lines /\ OrderOf[l] = o /\ line[l] \in LineRow
                            /\ offer[l] \in OfferRow
  BY DEF RowsInv, RowsOK, LinesOf
<1>1. CASE UNCHANGED db
  <2>1. \A l \in LinesOf(o) : offer'[l].status = "accepted" => offer'[l].decision = "accept"
    BY <1>1 DEF Ledger, db
  <2> QED
    BY <1>1, <2>1, LedgerOpen DEF db, Placed
<1>2. CASE ~UNCHANGED db
  <2>1. /\ offer[m].status # "accepted" /\ offer[m].decision = "accept"
        /\ UNCHANGED <<order, outbox, refund, shipped>>
        /\ LinesKeptBut({m})
        /\ line'[m] = [line[m] EXCEPT !.product = offer[m].product,
                                      !.price = offer[m].price, !.reserved = TRUE]
        /\ offer'[m] = [offer[m] EXCEPT !.held = FALSE, !.status = "accepted"]
        /\ bill' = [k \in Lines |-> IF OrderOf[k] = o
                                    THEN Qty[k] * line'[k].price ELSE bill[k]]
    BY <1>2, ApplyEffect
  <2>2. ~line[m].reserved
    BY <2>1 DEF NotYet
  <2>3. line'[m].dropped = line[m].dropped /\ offer'[m].decision = "accept"
    BY <1>0, <2>1 DEF LineRow, OfferRow
  <2>4. \A l \in LinesOf(o) \ {m} : line'[l] = line[l] /\ offer'[l] = offer[l]
    BY <1>0, <2>1 DEF LinesKeptBut
  <2>5. ASSUME NEW l \in LinesOf(o)
        PROVE  /\ line'[l].dropped = line[l].dropped
               /\ offer'[l].status = "accepted" => offer'[l].decision = "accept"
    BY <2>3, <2>4 DEF Ledger
  <2>6. ASSUME NEW l \in LinesOf(o), Fulfilled(o), ~line[l].dropped
        PROVE  line'[l] = line[l] /\ bill'[l] = bill[l]
    <3>1. line[l].reserved /\ bill[l] = Qty[l] * line[l].price
      BY <2>6 DEF Ledger, Billed, Active
    <3>2. line'[l] = line[l]
      BY <2>2, <2>4, <3>1
    <3> QED
      BY <1>0, <2>1, <3>1, <3>2
  <2>7. Placed(o)'
    BY <2>1 DEF Placed
  <2> QED
    BY <2>1, <2>5, <2>6, <2>7, LedgerOpen
<1> QED
  BY <1>1, <1>2

\* An offer that is closed was not accepted, nor is it by closing it.
LEMMA ClosedNotAccepted ==
    ASSUME NEW f \in OfferRow, f.status = "accepted" => f.decision = "accept",
           NEW g, g = [f EXCEPT !.held = FALSE, !.status = Closed(f)]
    PROVE  g.status = "accepted" => g.decision = "accept"
BY DEF OfferRow, Closed

\* A line whose customer gave up is not one that ships, and of an order that is
\* refused nothing is left to give up.
LEMMA DropLedger ==
    ASSUME RowsInv, NEW o \in Orders, Placed(o), ~Withdrawn(o), Ledger(o),
           ~(order[o].high /\ order[o].manual = "reject"),
           NEW m \in LinesOf(o), NotYet(m), MayDrop(m), DropLine(o, m)
    PROVE  Ledger(o)' /\ \A l \in LinesOf(o) : line[l].dropped => line'[l].dropped
<1>0. \A l \in LinesOf(o) : l \in Lines /\ OrderOf[l] = o /\ line[l] \in LineRow
                            /\ offer[l] \in OfferRow /\ refund[l] \in Int
                            /\ Original(l) \in Nat
  BY OriginalNat DEF RowsInv, RowsOK, LinesOf
<1>1. CASE UNCHANGED db
  <2>1. \A l \in LinesOf(o) : offer'[l].status = "accepted" => offer'[l].decision = "accept"
    BY <1>1 DEF Ledger, db
  <2> QED
    BY <1>1, <2>1, LedgerOpen DEF db, Placed
<1>2. CASE ~UNCHANGED db
  <2>1. /\ ~line[m].dropped
        /\ UNCHANGED <<order, bill, shipped>>
        /\ outbox' = outbox \cup {<<"line_drop", m>>}
        /\ PayBack(o, {m}, Original)
        /\ LinesKeptBut({m})
        /\ line'[m] = [line[m] EXCEPT !.dropped = TRUE]
        /\ offer'[m] = [offer[m] EXCEPT !.held = FALSE, !.status = Closed(offer[m])]
    BY <1>2, DropEffect
  <2>2. m \in Active(o)
    BY <2>1 DEF Active
  <2>3. ~Fulfilled(o)
    BY <2>1, <2>2 DEF Ledger, Billed, NotYet, MayDrop
  <2>4. ~Cancelled(o)
    BY <2>2 DEF Ledger, Hopeless
  <2>5. \A l \in LinesOf(o) \ {m} : /\ line'[l] = line[l] /\ offer'[l] = offer[l]
                                    /\ refund'[l] = refund[l]
    BY <1>0, <2>1 DEF LinesKeptBut, PayBack
  <2>6. /\ line'[m].dropped
        /\ Prepaid(o) => refund'[m] = refund[m] + Original(m)
    BY <1>0, <2>1 DEF LineRow, PayBack, Prepaid
  <2>7. Prepaid(o) => refund[m] = 0
    BY <1>0, <2>1, <2>3, <2>4 DEF Ledger, NothingBack
  <2>8. /\ ~Fulfilled(o)' /\ ~Cancelled(o)' /\ ~Withdrawn(o)'
        /\ Prepaid(o)' <=> Prepaid(o)
        /\ LinesOf(o)' = LinesOf(o)
    BY <2>1, <2>3, <2>4 DEF Fulfilled, Cancelled, Withdrawn, Prepaid, LinesOf
  <2>9. ASSUME NEW l \in LinesOf(o)
        PROVE  /\ line'[l].dropped => PaidBack(l)'
               /\ ~line'[l].dropped => NothingBack(l)'
               /\ offer'[l].status = "accepted" => offer'[l].decision = "accept"
    <3>1. CASE l = m
      <4>1. Prepaid(o)' => refund'[m] = Original(m)
        BY <1>0, <2>6, <2>7, <2>8
      <4>2. PaidBack(m)'
        BY <1>0, <4>1 DEF PaidBack, Original
      <4>3. offer'[m].status = "accepted" => offer'[m].decision = "accept"
        <5>1. /\ offer[m] \in OfferRow
              /\ offer[m].status = "accepted" => offer[m].decision = "accept"
          BY <1>0 DEF Ledger
        <5>2. \E g : g = offer'[m]
          OBVIOUS
        <5> QED
          BY <2>1, <5>1, <5>2, ClosedNotAccepted
      <4> QED
        BY <2>6, <3>1, <4>2, <4>3
    <3>2. CASE l # m
      <4>1. /\ line'[l] = line[l] /\ offer'[l] = offer[l] /\ refund'[l] = refund[l]
            /\ OrderOf[l] = o
        BY <1>0, <2>5, <3>2
      <4>2. /\ PaidBack(l)' <=> PaidBack(l)
            /\ NothingBack(l)' <=> NothingBack(l)
        BY <2>8, <4>1 DEF PaidBack, NothingBack, Original
      <4> QED
        BY <2>3, <2>4, <4>1, <4>2 DEF Ledger
    <3> QED
      BY <3>1, <3>2
  <2>10. shipped \cap LinesOf(o) = {} /\ shipped' = shipped
    BY <2>1, <2>3 DEF Ledger
  <2>11. Placed(o)' /\ order'[o].status \notin Settled
    BY <2>1, <2>3, <2>4 DEF Ledger, Placed
  <2>12. Ledger(o)'
    BY <2>8, <2>9, <2>10, <2>11 DEF Ledger
  <2> QED
    BY <2>5, <2>6, <2>12
<1> QED
  BY <1>1, <1>2

\* Times a non-negative number of pieces a non-negative difference is one.
LEMMA SavingNat ==
    ASSUME RowsInv, PricesBounded, NEW l \in Lines
    PROVE  /\ Saving(l) \in Nat
           /\ Saving(l) + Qty[l] * line[l].price = Original(l)
<1>1. /\ Price[Item[l]] \in Nat /\ Qty[l] \in Nat /\ line[l].price \in Nat
      /\ line[l].price <= Price[Item[l]]
  BY OriginalNat DEF RowsInv, RowsOK, LineRow, PricesBounded
<1> DEFINE a == Price[Item[l]]
           p == line[l].price
           q == Qty[l]
<1>2. a \in Nat /\ p \in Nat /\ q \in Nat /\ p <= a
  BY <1>1
<1> HIDE DEF a, p, q
<1>3. PICK d \in Nat : a = p + d
  <2>1. a - p \in Nat /\ a = p + (a - p)
    BY <1>2
  <2> QED
    BY <2>1
<1>4. (a - p) * q = d * q /\ d * q \in Nat
  <2>1. a - p = d
    BY <1>2, <1>3
  <2> QED
    BY <1>2, <1>3, <2>1
<1>5. d * q + q * p = a * q
  BY <1>2, <1>3
<1> QED
  BY <1>4, <1>5 DEF Saving, Original, a, p, q

\* What ships is billed at its price and the saving is paid back, once.
LEMMA FulfillLedger ==
    ASSUME RowsInv, PricesBounded, NEW o \in Orders, Placed(o), ~Withdrawn(o), Ledger(o),
           ~(order[o].high /\ order[o].manual = "reject"), Fulfill(o)
    PROVE  Ledger(o)' /\ line' = line
<1>0. \A l \in LinesOf(o) : l \in Lines /\ OrderOf[l] = o /\ refund[l] \in Int
                            /\ Original(l) \in Nat
  BY OriginalNat DEF RowsInv, RowsOK, LinesOf
<1>1. CASE UNCHANGED db
  <2>1. \A l \in LinesOf(o) : offer'[l].status = "accepted" => offer'[l].decision = "accept"
    BY <1>1 DEF Ledger, db
  <2> QED
    BY <1>1, <2>1, LedgerOpen DEF db, Placed
<1>2. CASE ~UNCHANGED db
  <2>1. /\ CanFulfill(o) /\ order[o].status # "ready_for_fulfillment"
        /\ OrdersKeptBut(o, "ready_for_fulfillment")
        /\ UNCHANGED <<stock, line, offer>>
        /\ shipped' = shipped \cup Active(o)
        /\ outbox' = outbox \cup {<<"fulfill", o>>}
                        \cup (IF Owed(o) THEN {<<"adjustment", o>>} ELSE {})
        /\ bill' = [l \in Lines |->
                      IF OrderOf[l] # o THEN bill[l]
                      ELSE IF line[l].dropped THEN 0 ELSE Qty[l] * line[l].price]
        /\ IF Owed(o) THEN PayBack(o, Active(o), Saving) ELSE UNCHANGED refund
    BY <1>2, FulfillEffect
  <2>2. /\ Active(o) # {} /\ Wanted(o) = {} /\ ~Fulfilled(o)
        /\ Active(o) \subseteq LinesOf(o)
    BY <2>1 DEF CanFulfill, Fulfilled, Active
  <2>3. ~Cancelled(o)
    BY <2>2 DEF Ledger, Hopeless
  <2>4. /\ Fulfilled(o)' /\ ~Cancelled(o)' /\ ~Withdrawn(o)'
        /\ Prepaid(o)' <=> Prepaid(o)
        /\ LinesOf(o)' = LinesOf(o) /\ Active(o)' = Active(o)
    BY <2>1, <2>3 DEF Fulfilled, Cancelled, Withdrawn, Prepaid, LinesOf, Active, OrdersKeptBut
  <2>5. ASSUME NEW l \in Active(o)
        PROVE  /\ line'[l].reserved /\ bill'[l] = Qty[l] * line'[l].price
               /\ Prepaid(o) => refund'[l] + bill'[l] = Original(l)
    <3>1. l \in LinesOf(o) /\ l \in Lines /\ OrderOf[l] = o /\ ~line[l].dropped
      BY <1>0 DEF Active
    <3>2. line'[l].reserved /\ bill'[l] = Qty[l] * line'[l].price
      BY <2>1, <2>2, <3>1 DEF Wanted
    <3>3. ASSUME Prepaid(o) PROVE refund'[l] = Saving(l)
      <4>1. refund[l] = 0
        BY <2>2, <2>3, <3>1, <3>3 DEF Ledger, NothingBack
      <4>2. Saving(l) \in Nat
        BY <3>1, SavingNat
      <4>3. CASE Owed(o)
        <5>1. refund'[l] = refund[l] + Saving(l)
          BY <2>1, <3>1, <3>3, <4>3 DEF PayBack, Prepaid
        <5> QED
          BY <4>1, <4>2, <5>1
      <4>4. CASE ~Owed(o)
        <5>1. Active(o) \subseteq Lines /\ IsFiniteSet(Active(o))
          <6>1. Active(o) \subseteq Lines
            BY <1>0, <2>2
          <6>2. IsFiniteSet(Lines)
            BY OrderAssumption, FS_Interval DEF Lines
          <6> QED
            BY <6>1, <6>2, FS_Subset
        <5>2. PICK sum \in Nat : /\ sum = MapThenSumSet(Saving, Active(o))
                                 /\ sum = 0 => \A x \in Active(o) : Saving(x) = 0
          <6>1. \A x \in Active(o) : Saving(x) \in Nat
            BY <5>1, SavingNat
          <6> QED
            BY <5>1, <6>1, SavingsSum
        <5>3. ~(sum > 0)
          BY <3>3, <4>4, <5>2 DEF Owed, Prepaid
        <5>4. sum = 0 => Saving(l) = 0
          BY <5>2
        <5>5. sum = 0
          BY <5>3
        <5> QED
          BY <2>1, <4>1, <4>4, <5>4, <5>5
      <4> QED
        BY <4>3, <4>4
    <3>4. Prepaid(o) => refund'[l] + bill'[l] = Original(l)
      <4>1. Saving(l) \in Nat /\ Saving(l) + Qty[l] * line[l].price = Original(l)
        BY <3>1, SavingNat
      <4>2. bill'[l] = Qty[l] * line[l].price
        BY <2>1, <3>2
      <4> QED
        BY <3>3, <4>1, <4>2
    <3> QED
      BY <3>2, <3>4
  <2>6. Billed(o)'
    BY <2>2, <2>4, <2>5 DEF Billed, Original
  <2>7. ASSUME NEW l \in LinesOf(o)
        PROVE  /\ line'[l].dropped => PaidBack(l)'
               /\ offer'[l].status = "accepted" => offer'[l].decision = "accept"
    <3>1. offer'[l].status = "accepted" => offer'[l].decision = "accept"
      BY <2>1 DEF Ledger
    <3>2. ASSUME line'[l].dropped PROVE PaidBack(l)'
      <4>1. line[l].dropped /\ l \notin Active(o) /\ PaidBack(l)
        BY <2>1, <3>2 DEF Ledger, Active
      <4>2. refund'[l] = refund[l]
        BY <1>0, <2>1, <4>1 DEF PayBack
      <4> QED
        BY <1>0, <2>4, <4>1, <4>2 DEF PaidBack, Original
    <3> QED
      BY <3>1, <3>2
  <2>8. shipped' \cap LinesOf(o) = Active(o)
    BY <2>1, <2>2 DEF Ledger
  <2>9. Placed(o)'
    BY <2>1 DEF OrdersKeptBut, Placed
  <2>10. Ledger(o)'
    BY <2>4, <2>6, <2>7, <2>8, <2>9 DEF Ledger
  <2> QED
    BY <2>1, <2>10
<1> QED
  BY <1>1, <1>2 DEF db

\* What is left of a refused order is paid back; none of it has shipped.
LEMMA CancelLedger ==
    ASSUME RowsInv, NEW o \in Orders, Placed(o), ~Withdrawn(o), Ledger(o), Hopeless(o),
           order[o].high /\ order[o].manual = "reject" => \A l \in LinesOf(o) : l \notin shipped,
           Cancel(o)
    PROVE  Ledger(o)' /\ \A l \in LinesOf(o) : line'[l].dropped = line[l].dropped
<1>0. \A l \in LinesOf(o) : l \in Lines /\ OrderOf[l] = o /\ line[l] \in LineRow
                            /\ offer[l] \in OfferRow /\ refund[l] \in Int
                            /\ Original(l) \in Nat
  BY OriginalNat DEF RowsInv, RowsOK, LinesOf
<1>1. CASE UNCHANGED db
  <2>1. \A l \in LinesOf(o) : offer'[l].status = "accepted" => offer'[l].decision = "accept"
    BY <1>1 DEF Ledger, db
  <2> QED
    BY <1>1, <2>1, LedgerOpen DEF db, Placed
<1>2. CASE ~UNCHANGED db
  <2>1. /\ order[o].status \notin Refused /\ CanCancel(o)
        /\ OrdersKeptBut(o, RefusedStatus(o)) /\ RefusedStatus(o) \in Refused
        /\ UNCHANGED <<bill, shipped>>
        /\ outbox' = outbox \cup {<<"cancel", o>>}
        /\ PayBack(o, Active(o), Original)
        /\ \A l \in LinesOf(o) :
              /\ line'[l] = [line[l] EXCEPT !.reserved = FALSE]
              /\ offer'[l] = [offer[l] EXCEPT !.held = FALSE, !.status = Closed(offer[l])]
    BY <1>2, CancelEffect
  <2>2. ~Cancelled(o)
    BY <2>1 DEF CanCancel, Cancelled
  <2>3. ~Fulfilled(o)
    BY DEF Ledger, Billed, Hopeless, Active
  <2>4. \A l \in LinesOf(o) : line'[l].dropped = line[l].dropped
    BY <1>0, <2>1 DEF LineRow
  <2>5. /\ ~Fulfilled(o)' /\ Cancelled(o)' /\ ~Withdrawn(o)'
        /\ Prepaid(o)' <=> Prepaid(o)
        /\ LinesOf(o)' = LinesOf(o)
    BY <2>1, <2>3 DEF Fulfilled, Cancelled, Withdrawn, Prepaid, LinesOf, OrdersKeptBut
  <2>6. ASSUME NEW l \in LinesOf(o) PROVE PaidBack(l)'
    <3>1. ASSUME Prepaid(o) PROVE refund'[l] = Original(l)
      <4>1. CASE line[l].dropped
        <5>1. refund[l] = Original(l)
          BY <1>0, <3>1, <4>1 DEF Ledger, PaidBack
        <5>2. l \notin Active(o)
          BY <4>1 DEF Active
        <5> QED
          BY <1>0, <2>1, <5>1, <5>2 DEF PayBack
      <4>2. CASE ~line[l].dropped
        <5>1. refund[l] = 0
          BY <1>0, <2>2, <2>3, <3>1, <4>2 DEF Ledger, NothingBack
        <5>2. refund'[l] = refund[l] + Original(l)
          BY <1>0, <2>1, <3>1, <4>2 DEF PayBack, Prepaid, Active
        <5> QED
          BY <1>0, <5>1, <5>2
      <4> QED
        BY <4>1, <4>2
    <3> QED
      BY <1>0, <2>5, <3>1 DEF PaidBack, Original
  <2>7. ASSUME NEW l \in LinesOf(o)
        PROVE  offer'[l].status = "accepted" => offer'[l].decision = "accept"
    <3>1. /\ offer[l] \in OfferRow
          /\ offer[l].status = "accepted" => offer[l].decision = "accept"
      BY <1>0 DEF Ledger
    <3>2. \E g : g = offer'[l]
      OBVIOUS
    <3> QED
      BY <2>1, <3>1, <3>2, ClosedNotAccepted
  <2>8. Hopeless(o)'
    BY <2>1, <2>4, HopelessKept DEF OrdersKeptBut
  <2>9. shipped' = shipped /\ shipped \cap LinesOf(o) = {}
    BY <2>1, <2>3 DEF Ledger
  <2>10. Placed(o)'
    BY <2>1 DEF OrdersKeptBut, Placed, Refused
  <2>11. Ledger(o)'
    BY <2>5, <2>6, <2>7, <2>8, <2>9, <2>10 DEF Ledger
  <2> QED
    BY <2>4, <2>11
<1> QED
  BY <1>1, <1>2

\* An order that is cancelled before anything happened to it is paid back whole.
LEMMA CustomerCancelLedger ==
    ASSUME RowsInv, NEW o \in Orders, o \in Cancellable, Placed(o), Ledger(o),
           \A e \in Ends : <<e, o>> \notin outbox,
           \A l \in LinesOf(o) : ~line[l].dropped,
           CancelBeforeResolution(o)
    PROVE  Ledger(o)' /\ UNCHANGED line
<1>0. \A l \in LinesOf(o) : l \in Lines /\ OrderOf[l] = o /\ refund[l] \in Int
                            /\ Original(l) \in Nat
  BY OriginalNat DEF RowsInv, RowsOK, LinesOf
<1>1. /\ OrdersKeptBut(o, RefusedStatus(o)) /\ RefusedStatus(o) \in Refused
      /\ UNCHANGED <<line, offer, bill, shipped>>
      /\ outbox' = outbox \cup {<<"customer_cancel", o>>}
      /\ PayBack(o, LinesOf(o), Original)
  BY CustomerCancelEffect
<1>2. ~Fulfilled(o) /\ ~Cancelled(o) /\ ~Withdrawn(o)
  BY DEF Fulfilled, Cancelled, Withdrawn, Ends
<1>3. /\ ~Fulfilled(o)' /\ ~Cancelled(o)' /\ Withdrawn(o)'
      /\ Prepaid(o)' <=> Prepaid(o)
      /\ LinesOf(o)' = LinesOf(o)
  BY <1>1, <1>2 DEF Fulfilled, Cancelled, Withdrawn, Prepaid, LinesOf, OrdersKeptBut
<1>4. ASSUME NEW l \in LinesOf(o) PROVE PaidBack(l)'
  <2>1. Prepaid(o) => refund[l] = 0
    BY <1>0, <1>2 DEF Ledger, NothingBack
  <2>2. Prepaid(o) => refund'[l] = refund[l] + Original(l)
    BY <1>0, <1>1 DEF PayBack, Prepaid
  <2>3. Prepaid(o)' => refund'[l] = Original(l)
    BY <1>0, <1>3, <2>1, <2>2
  <2> QED
    BY <1>0, <2>3 DEF PaidBack, Original
<1>5. \A l \in LinesOf(o) : offer'[l].status = "accepted" => offer'[l].decision = "accept"
  BY <1>1 DEF Ledger
<1>6. shipped' \cap LinesOf(o) = {}
  BY <1>1, <1>2 DEF Ledger
<1>7. Placed(o)' /\ order'[o].status \in Refused
  BY <1>1 DEF OrdersKeptBut, Placed, Refused
<1> QED
  BY <1>1, <1>3, <1>4, <1>5, <1>6, <1>7 DEF Ledger

LEMMA PlaceLedger ==
    ASSUME RowsInv, NEW o \in Orders, Ledger(o), PlaceOrder(o)
    PROVE  Ledger(o)'
<1>0. ~Placed(o) /\ Blank(o)
  BY DEF PlaceOrder, Placed, Ledger
<1>1. /\ line' = [l \in Lines |-> IF OrderOf[l] = o
                                  THEN [NoRow EXCEPT !.product = Item[l],
                                                     !.price = Price[Item[l]]]
                                  ELSE line[l]]
      /\ outbox' = outbox \cup {<<"confirm", o>>}
      /\ UNCHANGED <<offer, refund, shipped>>
  BY DEF PlaceOrder
<1>2. order'[o].status = "received"
  <2>1. PICK high \in BOOLEAN, method \in {"prepaid", "cod"} :
           order' = [order EXCEPT ![o].status = "received",
                                  ![o].high = high, ![o].method = method]
    BY DEF PlaceOrder
  <2> QED
    BY <2>1 DEF RowsInv, RowsOK, OrderRow
<1>3. /\ ~Fulfilled(o)' /\ ~Cancelled(o)' /\ ~Withdrawn(o)' /\ LinesOf(o)' = LinesOf(o)
  BY <1>0, <1>1 DEF Blank, Fulfilled, Cancelled, Withdrawn, LinesOf
<1>4. ASSUME NEW l \in LinesOf(o)
      PROVE  ~line'[l].dropped /\ refund'[l] = 0 /\ offer'[l].status = "none"
  BY <1>0, <1>1 DEF Blank, NoRow, LinesOf
<1>5. \A l \in LinesOf(o) : NothingBack(l)'
  BY <1>4 DEF NothingBack
<1>6. shipped' \cap LinesOf(o) = {}
  BY <1>0, <1>1 DEF Ledger, Blank
<1>7. Placed(o)' /\ order'[o].status \notin Settled
  BY <1>2 DEF Placed, Settled, Refused
<1> QED
  BY <1>3, <1>4, <1>5, <1>6, <1>7 DEF Ledger

\* A node pays and bills nothing of another order's lines.
LEMMA NodeLedgerOthers ==
    ASSUME TypeInv, NEW w \in Workers, NEW o \in Orders, Node(w, o),
           NEW q \in Orders \ {o}
    PROVE  LedgerKept(q)
<1>0. RowsInv /\ RowsOK
  BY TypeInvParts DEF RowsInv
<1>1. RowsKept(q)
  BY NodeOthers
<1>2. \A l \in LinesOf(q) : l \in Lines /\ OrderOf[l] # o /\ l \notin LinesOf(o)
  BY DEF LinesOf
<1>3. \A l \in LinesOf(q) : refund'[l] = refund[l] /\ bill'[l] = bill[l]
  <2>1. CASE UNCHANGED db \/ FlagAudit(o) \/ \E got \in SUBSET Wanted(o) : Inventory(o, got)
    BY <2>1 DEF db, FlagAudit, Inventory
  <2>2. CASE \E hint : \E l \in LinesOf(o) : CreateOffer(o, l, hint)
    BY <2>2 DEF CreateOffer, db
  <2>3. ASSUME NEW m \in LinesOf(o), ApplyOffer(o, m)
        PROVE  \A l \in LinesOf(q) : refund'[l] = refund[l] /\ bill'[l] = bill[l]
    BY <1>0, <1>2, <2>3 DEF ApplyOffer, db
  <2>4. ASSUME NEW m \in LinesOf(o), DropLine(o, m)
        PROVE  \A l \in LinesOf(q) : refund'[l] = refund[l] /\ bill'[l] = bill[l]
    BY <1>0, <1>2, <2>4 DEF DropLine, PayBack, db
  <2>5. CASE Fulfill(o)
    BY <1>0, <1>2, <2>5 DEF Fulfill, PayBack, db, Active
  <2>6. CASE Cancel(o)
    BY <1>0, <1>2, <2>6 DEF Cancel, PayBack, db, Active
  <2> QED
    BY <2>1, <2>2, <2>3, <2>4, <2>5, <2>6, NodeRuns
<1> QED
  BY <1>1, <1>3 DEF LedgerKept, RowsKept

-----------------------------------------------------------------------------
(***************************************************************************)
(* The steps of the system.                                                *)
(***************************************************************************)

\* One node, of an order that its customer did not cancel.
LEMMA NodeMoney ==
    ASSUME StockInv, ReasonInv, PricesBounded, NEW w \in Workers, NEW o \in Orders, Node(w, o),
           ~Withdrawn(o), Ledger(o),
           NEW at, at = live[o].at, NEW m, m = live[o].missing
    PROVE  Ledger(o)'
<1>0. /\ TypeInv /\ RowsInv /\ RowsOK /\ Placed(o)
      /\ at \in LineNodes => m \in LinesOf(o) /\ NotYet(m)
      /\ Consent(o)
  BY NodeRuns, TypeInvParts DEF ReasonInv, ConsentInv, RowsInv, StockInv, LinesAhead
<1>1. order[o].high /\ order[o].manual # "approve" =>
         at \in BeforeAuditor /\ \A l \in LinesOf(o) : l \notin shipped
  BY <1>0 DEF Consent, Gated
<1>2. CASE Fraud(w, o) \/ AskCustomer(w, o) \/ CustomerAnswered(w, o)
  <2>1. UNCHANGED db
    BY <1>2 DEF Fraud, AskCustomer, CustomerAnswered
  <2>2. LedgerKept(o)
    BY <2>1 DEF LedgerKept, db
  <2> QED
    BY <2>2, LedgerFrame
<1>3. CASE AskAuditor(w, o) \/ AuditorAnswered(w, o)
  BY <1>0, <1>3, QuietLedger DEF AskAuditor, AuditorAnswered
<1>4. CASE CheckStock(w, o)
  BY <1>0, <1>4, QuietLedger DEF CheckStock
<1>5. CASE Offer(w, o)
  <2>1. m \in LinesOf(o) /\ \E hint \in Hints : CreateOffer(o, m, hint)
    BY <1>0, <1>5 DEF Offer, Running, LineNodes
  <2> QED
    BY <1>0, <2>1, QuietLedger
<1>6. CASE Apply(w, o)
  <2>1. at = "apply" /\ m \in LinesOf(o) /\ ApplyOffer(o, m)
    BY <1>0, <1>6 DEF Apply, Running, LineNodes
  <2> QED
    BY <1>0, <2>1, ApplyLedger DEF LineNodes
<1>7. CASE Drop(w, o)
  <2>1. at = "drop_line" /\ m \in LinesOf(o) /\ DropLine(o, m)
    BY <1>0, <1>7 DEF Drop, Running, LineNodes
  <2>2. MayDrop(m)
    BY <1>0, <2>1 DEF Consent, DropsRefused
  <2>3. ~(order[o].high /\ order[o].manual = "reject")
    BY <1>1, <2>1 DEF BeforeAuditor
  <2> QED
    BY <1>0, <2>1, <2>2, <2>3, DropLedger DEF LineNodes
<1>8. CASE Ship(w, o)
  <2>1. at = "fulfill" /\ Fulfill(o)
    BY <1>8 DEF Ship, Running
  <2>2. ~(order[o].high /\ order[o].manual = "reject")
    BY <1>1, <2>1 DEF BeforeAuditor
  <2> QED
    BY <1>0, <2>1, <2>2, FulfillLedger
<1>9. CASE Refuse(w, o)
  <2>1. at = "cancel" /\ Cancel(o)
    BY <1>9 DEF Refuse, Running
  <2>2. Hopeless(o)
    BY <2>1 DEF ReasonInv, Justly, Justified
  <2> QED
    BY <1>0, <1>1, <2>1, <2>2, CancelLedger
<1> QED
  BY <1>2, <1>3, <1>4, <1>5, <1>6, <1>7, <1>8, <1>9 DEF Node

\* What goes on around the nodes leaves the ledgers and the checkpoints as they are.
LEMMA MoneyFrame ==
    ASSUME NEW q \in Orders, Ledger(q), Unbegun(q), LedgerKept(q),
           Withdrawn(q) => live'[q] = live[q]
    PROVE  Ledger(q)' /\ Unbegun(q)'
<1>1. Ledger(q)'
  BY LedgerFrame
<1>2. Withdrawn(q)' <=> Withdrawn(q)
  BY DEF LedgerKept, Withdrawn, Ends
<1> QED
  BY <1>1, <1>2 DEF Unbegun

\* An order its customer cancelled is not being driven.
LEMMA WithdrawnUndriven ==
    ASSUME CancelsInTime, Cancellable # {} => ProgressInv, NEW o \in Orders,
           Ledger(o), Unbegun(o), Withdrawn(o)
    PROVE  Unlocked(o)
<1>1. o \in Cancellable /\ order[o].status \in Refused /\ live[o].at = "fraud"
  BY DEF Ledger, Unbegun
<1>2. WithdrawnRests(o)
  BY <1>1 DEF ProgressInv, Steady
<1> QED
  BY <1>1, <1>2 DEF WithdrawnRests, Stored

LEMMA CustomerCancelMoney ==
    ASSUME TypeInv, MoneyInv, CancelsInTime, Cancellable # {} => ProgressInv,
           NEW o \in Orders, CustomerCancel(o)
    PROVE  MoneyInv'
<1>0. /\ RowsInv /\ ControlOK /\ UNCHANGED <<live, stale>>
      /\ o \in Cancellable /\ Unlocked(o) /\ ProgressInv
  BY TypeInvParts DEF CustomerCancel, graph, ControlOK
<1>1. CASE order[o].status # "received"
  <2>1. UNCHANGED db
    BY <1>1 DEF CustomerCancel, CancelledIfReceived
  <2>2. \A q \in Orders : LedgerKept(q)
    BY <2>1 DEF db, LedgerKept
  <2> QED
    BY <1>0, <2>2, MoneyFrame DEF MoneyInv
<1>2. CASE order[o].status = "received"
  <2>1. CancelBeforeResolution(o)
    BY <1>2 DEF CustomerCancel, CancelledIfReceived
  <2>2. MaxFaults = 0 /\ Steady(o)
    BY <1>0 DEF CancelsInTime, ProgressInv
  <2>3. live[o].at = "fraud" /\ Untaken(o)
    <3>1. live[o].at \in {"fraud", "end"} \/ live[o].asked
      BY <1>0, <2>2 DEF Steady, Rested
    <3>2. Fits(o, live[o]) /\ OfOrder(o, live[o])
      BY <2>2, TypeInvParts DEF Steady, Stored, CheckpointsOK
    <3>3. NonePending(o)
      BY <1>2, <2>2 DEF Steady, OrderSound
    <3> QED
      BY <1>2, <3>1, <3>2, <3>3 DEF Fits, FitsNode, OfOrder, LineNodes, NonePending, Settled,
                                    Refused
  <2>4. \A e \in Ends : <<e, o>> \notin outbox
    BY <1>2, <2>2 DEF Steady, OrderSound, Settled, Refused
  <2>5. Ledger(o)' /\ UNCHANGED line
    BY <1>0, <1>2, <2>1, <2>3, <2>4, CustomerCancelLedger DEF MoneyInv, Untaken, Placed
  <2>6. Unbegun(o)'
    BY <1>0, <2>3 DEF Unbegun
  <2>7. ASSUME NEW q \in Orders \ {o} PROVE Ledger(q)' /\ Unbegun(q)'
    <3>1. /\ OrdersKeptBut(o, RefusedStatus(o))
          /\ UNCHANGED <<line, offer, bill, shipped>>
          /\ outbox' = outbox \cup {<<"customer_cancel", o>>}
          /\ PayBack(o, LinesOf(o), Original)
      BY <1>0, <2>1, CustomerCancelEffect
    <3>2. \A l \in LinesOf(q) : refund'[l] = refund[l]
      BY <3>1 DEF PayBack, LinesOf
    <3>3. LedgerKept(q)
      BY <3>1, <3>2 DEF LedgerKept, OrdersKeptBut
    <3> QED
      BY <1>0, <3>3, MoneyFrame DEF MoneyInv
  <2> QED
    BY <2>5, <2>6, <2>7 DEF MoneyInv
<1> QED
  BY <1>1, <1>2

LEMMA PlaceMoney ==
    ASSUME ConsentInv, MoneyInv, NEW o \in Orders, Place(o)
    PROVE  MoneyInv'
<1>0. /\ RowsInv /\ RowsOK /\ UNCHANGED <<live, stale>> /\ ~Placed(o) /\ PlaceOrder(o)
      /\ live[o] = Entry /\ stale[o] = {}
  BY TypeInvParts DEF ConsentInv, Consent, Untouched, RowsInv, Place, PlaceOrder, graph, Placed
<1>1. Ledger(o)'
  BY <1>0, PlaceLedger DEF MoneyInv
<1>2. Unbegun(o)'
  BY <1>0 DEF Unbegun, Entry
<1>3. ASSUME NEW q \in Orders \ {o} PROVE Ledger(q)' /\ Unbegun(q)'
  <2>1. order'[q] = order[q]
    BY <1>0 DEF PlaceOrder, RowsOK
  <2>2. \A l \in LinesOf(q) : line'[l] = line[l] /\ bill'[l] = bill[l]
    BY <1>0 DEF PlaceOrder, LinesOf
  <2>3. LedgerKept(q)
    BY <1>0, <2>1, <2>2 DEF PlaceOrder, LedgerKept, Ends
  <2> QED
    BY <1>0, <2>3, MoneyFrame DEF MoneyInv
<1> QED
  BY <1>1, <1>2, <1>3 DEF MoneyInv

\* Only its customer cancels an order before it is worked on.
LEMMA NodeNotWithdrawn ==
    ASSUME TypeInv, NEW w \in Workers, NEW o \in Orders, Node(w, o), ~Withdrawn(o)
    PROVE  ~Withdrawn(o)'
<1>0. RowsInv
  BY TypeInvParts
<1>1. CASE UNCHANGED db \/ FlagAudit(o) \/ \E got \in SUBSET Wanted(o) : Inventory(o, got)
  BY <1>1 DEF db, FlagAudit, Inventory, Withdrawn
<1>2. CASE \E hint : \E l \in LinesOf(o) : CreateOffer(o, l, hint)
  BY <1>2 DEF CreateOffer, db, Withdrawn
<1>3. CASE \E l \in LinesOf(o) : ApplyOffer(o, l) \/ DropLine(o, l)
  BY <1>3 DEF ApplyOffer, DropLine, db, Withdrawn
<1>4. CASE Fulfill(o)
  BY <1>4 DEF Fulfill, db, Withdrawn
<1>5. CASE Cancel(o)
  <2>1. UNCHANGED db \/ outbox' = outbox \cup {<<"cancel", o>>}
    BY <1>0, <1>5, CancelEffect
  <2>2. UNCHANGED db => outbox' = outbox
    BY DEF db
  <2> QED
    BY <2>1, <2>2 DEF Withdrawn
<1> QED
  BY <1>1, <1>2, <1>3, <1>4, <1>5, NodeRuns

\* The rows that are not money, and what customers cancelled where they can.
Around == /\ StockInv /\ ReasonInv /\ PricesBounded
          /\ Cancellable # {} => ProgressInv

LEMMA NextMoney ==
    ASSUME CancelsInTime
    PROVE  Around /\ MoneyInv /\ [Next]_vars => Around' /\ MoneyInv'
<1> SUFFICES ASSUME Around, MoneyInv, [Next]_vars PROVE Around' /\ MoneyInv'
  OBVIOUS
<1>0. /\ StockInv /\ ReasonInv /\ ConsentInv /\ PricesBounded
      /\ TypeInv /\ RowsInv /\ RowsOK /\ ControlOK
      /\ Cancellable # {} => ProgressInv
  BY TypeInvParts DEF Around, ReasonInv, ConsentInv, RowsInv
<1>1. Around'
  <2>1. StockInv' /\ ReasonInv' /\ PricesBounded'
    BY <1>0, NextStockInv, NextReason, NextPrices
  <2>2. ASSUME Cancellable # {} PROVE ProgressInv'
    <3>1. OneNodeBehind
      BY <2>2 DEF CancelsInTime, OneNodeBehind
    <3> QED
      BY <1>0, <2>2, <3>1, NextProgress
  <2> QED
    BY <2>1, <2>2 DEF Around
<1>2. ASSUME \A q \in Orders : LedgerKept(q),
             \A q \in Orders : Withdrawn(q) => live'[q] = live[q]
      PROVE  MoneyInv'
  BY <1>2, MoneyFrame DEF MoneyInv
<1>3. CASE UNCHANGED <<db, live>>
  <2>1. \A q \in Orders : LedgerKept(q)
    BY <1>3 DEF db, LedgerKept
  <2>2. live' = live
    BY <1>3
  <2> QED
    BY <1>1, <1>2, <2>1, <2>2
<1>4. CASE \E o \in Orders : Place(o) \/ LockForCancel(o) \/ CustomerCancel(o) \/ Retry(o)
  <2>1. ASSUME NEW o \in Orders, LockForCancel(o) \/ Retry(o) PROVE UNCHANGED <<db, live>>
    BY <2>1 DEF LockForCancel, Retry, graph
  <2>2. ASSUME NEW o \in Orders, CustomerCancel(o) PROVE MoneyInv'
    BY <1>0, <2>2, CustomerCancelMoney
  <2>3. ASSUME NEW o \in Orders, Place(o) PROVE MoneyInv'
    BY <1>0, <2>3, PlaceMoney
  <2> QED
    BY <1>1, <1>3, <1>4, <2>1, <2>2, <2>3
<1>5. ASSUME NEW o \in Orders, NEW d \in {"approve", "reject"}, DecideAudit(o, d)
      PROVE  MoneyInv'
  <2>1. /\ UNCHANGED <<line, offer, outbox, refund, bill, shipped, live>>
        /\ order' = [order EXCEPT ![o].manual = d] /\ order[o].manual = "none"
    BY <1>5 DEF DecideAudit, graph
  <2>2. \A q \in Orders : LedgerKept(q)
    BY <1>0, <2>1 DEF LedgerKept, RowsOK, OrderRow
  <2> QED
    BY <1>2, <2>1, <2>2
<1>6. ASSUME NEW l \in Lines,
             \/ \E d \in {"accept", "reject"} : Reply(l, d)
             \/ Deadline(l) \/ \E w \in Workers : ExpireOffer(w, l)
      PROVE  MoneyInv'
  <2>1. UNCHANGED <<order, line, outbox, refund, bill, shipped, live>>
    BY <1>6 DEF Reply, Deadline, ExpireOffer, graph
  <2>2. \/ /\ offer[l].decision = "none"
           /\ \E d : offer' = [offer EXCEPT ![l].decision = d]
        \/ offer' = [offer EXCEPT ![l].due = TRUE]
    BY <1>6 DEF Reply, Deadline, ExpireOffer, StillOpen
  <2>3. \A k \in Lines : /\ offer'[k].status = offer[k].status
                         /\ offer'[k].decision = offer[k].decision \/ offer[k].decision = "none"
    <3>1. CASE offer' = [offer EXCEPT ![l].due = TRUE]
      BY <1>0, <3>1 DEF RowsOK, OfferRow
    <3>2. ASSUME NEW d, offer[l].decision = "none", offer' = [offer EXCEPT ![l].decision = d]
          PROVE  \A k \in Lines : /\ offer'[k].status = offer[k].status
                                  /\ \/ offer'[k].decision = offer[k].decision
                                     \/ offer[k].decision = "none"
      BY <1>0, <3>2 DEF RowsOK, OfferRow
    <3> QED
      BY <2>2, <3>1, <3>2
  <2>4. \A q \in Orders : LedgerKept(q)
    BY <2>1, <2>3 DEF LedgerKept, LinesOf
  <2> QED
    BY <1>2, <2>1, <2>4
<1>7. ASSUME NEW w \in Workers, NEW o \in Orders, Node(w, o) PROVE MoneyInv'
  <2>1. lock[o] = w /\ ~Unlocked(o)
    BY <1>0, <1>7, NodeRuns, WorkflowAssumption DEF Unlocked
  <2>2. Ledger(o) /\ Unbegun(o)
    BY DEF MoneyInv
  <2>3. ~Withdrawn(o)
    BY <1>0, <2>1, <2>2, WithdrawnUndriven
  <2>4. \E at, m : at = live[o].at /\ m = live[o].missing
    OBVIOUS
  <2>5. Ledger(o)'
    BY <1>0, <1>7, <2>2, <2>3, <2>4, NodeMoney
  <2>6. ~Withdrawn(o)'
    BY <1>0, <1>7, <2>3, NodeNotWithdrawn
  <2>7. ASSUME NEW q \in Orders \ {o} PROVE Ledger(q)' /\ Unbegun(q)'
    <3>1. LedgerKept(q)
      BY <1>0, <1>7, NodeLedgerOthers
    <3>2. live'[q] = live[q]
      BY <1>0, <1>7 DEF Node, Fraud, AskAuditor, AuditorAnswered, CheckStock,
         Offer, AskCustomer, CustomerAnswered, Apply, Drop, Ship, Refuse, GoTo, Ask, Save,
         ControlOK
    <3> QED
      BY <3>1, <3>2, MoneyFrame DEF MoneyInv
  <2> QED
    BY <2>5, <2>6, <2>7 DEF MoneyInv, Unbegun
<1>8. ASSUME NEW w \in Workers, NEW o \in Orders,
             Claim(w, o) \/ Finish(w, o) \/ Failure(w, o)
      PROVE  MoneyInv'
  <2>1. UNCHANGED db
    BY <1>8 DEF Claim, Finish, Failure, Raise, Crash
  <2>2. \A q \in Orders : LedgerKept(q)
    BY <2>1 DEF db, LedgerKept
  <2>3. ASSUME NEW q \in Orders, Withdrawn(q) PROVE live'[q] = live[q]
    <3>1. Unlocked(q)
      BY <1>0, <2>3, WithdrawnUndriven DEF MoneyInv
    <3>2. q # o \/ Claim(w, o)
      BY <1>8, <3>1, WorkflowAssumption DEF Unlocked, Finish, Failure, Raise, Crash
    <3> QED
      BY <1>0, <1>8, <3>2 DEF Claim, Finish, Failure, Raise, Crash, ControlOK
  <2> QED
    BY <1>2, <2>2, <2>3
<1> QED
  BY <1>1, <1>3, <1>4, <1>5, <1>6, <1>7, <1>8 DEF Next, Sleep, vars, graph

LEMMA InitMoney == Init => MoneyInv
<1> SUFFICES ASSUME Init, NEW o \in Orders PROVE Ledger(o) /\ Unbegun(o)
  BY DEF MoneyInv
<1> USE DEF Init, ServicesInit
<1>1. ~Fulfilled(o) /\ ~Cancelled(o) /\ ~Withdrawn(o) /\ ~Placed(o)
  BY DEF Fulfilled, Cancelled, Withdrawn, Placed, NoOrder
<1>2. \A l \in LinesOf(o) : ~line[l].dropped /\ refund[l] = 0 /\ offer[l].status = "none"
  BY DEF NoRow, NoOffer, LinesOf
<1>3. \A l \in LinesOf(o) : NothingBack(l)
  BY <1>2 DEF NothingBack
<1>4. Ledger(o)
  BY <1>1, <1>2, <1>3 DEF Ledger, Blank, Settled, Refused, Placed
<1>5. Unbegun(o)
  BY <1>1 DEF Unbegun
<1> QED
  BY <1>4, <1>5

\* In every state the two sides of every prepaid order add up as far as it got.
THEOREM MoneySafety == CancelsInTime /\ Spec => [](Around /\ MoneyInv)
<1> SUFFICES ASSUME CancelsInTime PROVE Spec => [](Around /\ MoneyInv)
  OBVIOUS
<1>1. Init => Around /\ MoneyInv
  BY InitStockInv, InitReason, InitPrices, InitProgress, InitMoney DEF Around
<1>2. Around /\ MoneyInv /\ [Next]_vars => Around' /\ MoneyInv'
  BY NextMoney
<1> QED
  BY <1>1, <1>2, PTL DEF Spec

\* A prepaid customer never gets back and is billed more than was paid, and in a
\* settled order the two add up to it, line by line, whatever failed and was run
\* again (drop_line, fulfill, cancel, cancel_before_resolution, apply_offer).
THEOREM MoneyAddsUp == CancelsInTime /\ Spec => []MoneyBalanced
<1> SUFFICES ASSUME CancelsInTime PROVE Spec => []MoneyBalanced
  OBVIOUS
<1>1. Around /\ MoneyInv => MoneyBalanced
  <2> SUFFICES ASSUME Around, MoneyInv, NEW l \in Lines, NEW o \in Orders, o = OrderOf[l],
                      Prepaid(o)
               PROVE  /\ refund[l] + Kept(l) <= Original(l)
                      /\ order[o].status \in Settled => refund[l] + Kept(l) = Original(l)
    BY OrderAssumption DEF MoneyBalanced, Prepaid
  <2>0. l \in LinesOf(o) /\ Ledger(o) /\ Original(l) \in Nat
    BY OriginalNat DEF LinesOf, MoneyInv
  <2>1. l \in shipped <=> Fulfilled(o) /\ ~line[l].dropped
    BY <2>0 DEF Ledger, Active
  <2>2. CASE l \in shipped
    <3>1. refund[l] + bill[l] = Original(l)
      BY <2>0, <2>1, <2>2 DEF Ledger, Billed, Active
    <3> QED
      BY <2>0, <2>2, <3>1 DEF Kept
  <2>3. CASE l \notin shipped
    <3>1. /\ refund[l] \in {0, Original(l)}
          /\ order[o].status \in Settled => refund[l] = Original(l)
      BY <2>0, <2>1, <2>3 DEF Ledger, PaidBack, NothingBack
    <3> QED
      BY <2>0, <2>3, <3>1 DEF Kept
  <2> QED
    BY <2>2, <2>3
<1>2. Spec => [](Around /\ MoneyInv)
  BY MoneySafety
<1> QED
  BY <1>1, <1>2, PTL

-----------------------------------------------------------------------------
(* An order ends once.                                                       *)

\* A step that ends nothing of order q, pays nothing back and keeps no less.
Frozen(q) ==
    /\ \A e \in Ends : <<e, q>> \in outbox' => <<e, q>> \in outbox
    /\ \A l \in LinesOf(q) : refund'[l] = refund[l] /\ Kept(l)' = Kept(l)

LEMMA FrozenFrame ==
    ASSUME NEW q \in Orders, LedgerKept(q)
    PROVE  Frozen(q)
BY DEF LedgerKept, Frozen, Kept

\* A replacement that is applied once more changes no price that was billed.
LEMMA ApplyFrozen ==
    ASSUME RowsInv, NEW o \in Orders, Ledger(o), Fulfilled(o) \/ Cancelled(o),
           NEW m \in LinesOf(o), NotYet(m), ApplyOffer(o, m)
    PROVE  Frozen(o)
<1>1. CASE UNCHANGED db
  BY <1>1, FrozenFrame DEF db, LedgerKept
<1>2. CASE ~UNCHANGED db
  <2>1. /\ offer[m].status # "accepted" /\ UNCHANGED <<outbox, refund, shipped>>
        /\ bill' = [k \in Lines |-> IF OrderOf[k] = o
                                    THEN Qty[k] * line'[k].price ELSE bill[k]]
        /\ \A k \in Lines \ {m} : line'[k] = line[k]
    BY <1>2 DEF ApplyOffer, RowsInv, RowsOK
  <2>2. ASSUME NEW l \in LinesOf(o), l \in shipped PROVE bill'[l] = bill[l]
    <3>1. Fulfilled(o) /\ l \in Active(o)
      BY <2>2 DEF Ledger
    <3>2. line[l].reserved /\ bill[l] = Qty[l] * line[l].price
      BY <3>1 DEF Ledger, Billed
    <3>3. l # m
      BY <2>1, <3>2 DEF NotYet
    <3> QED
      BY <2>1, <3>2, <3>3 DEF LinesOf
  <2> QED
    BY <2>1, <2>2 DEF Frozen, Kept
<1> QED
  BY <1>1, <1>2

\* No node of an order that ended writes into its ledger once more.
LEMMA NodeFrozen ==
    ASSUME StockInv, ReasonInv, NEW w \in Workers, NEW o \in Orders, Node(w, o),
           ~Withdrawn(o), Ledger(o), Fulfilled(o) \/ Cancelled(o),
           NEW at, at = live[o].at, NEW m, m = live[o].missing
    PROVE  Frozen(o)
<1>0. /\ TypeInv /\ RowsInv /\ RowsOK /\ Consent(o)
      /\ at \in LineNodes => m \in LinesOf(o) /\ NotYet(m)
  BY NodeRuns, TypeInvParts DEF ReasonInv, ConsentInv, RowsInv, StockInv, LinesAhead
<1>1. order[o].high /\ order[o].manual # "approve" =>
         at \in BeforeAuditor /\ \A l \in LinesOf(o) : l \notin shipped
  BY <1>0 DEF Consent, Gated
<1>2. Fulfilled(o) => \E l \in LinesOf(o) : ~line[l].dropped /\ l \in shipped
  BY DEF Ledger, Billed, Active
<1>3. CASE UNCHANGED db
  BY <1>3, FrozenFrame DEF db, LedgerKept
<1>4. CASE \/ AskAuditor(w, o) \/ AuditorAnswered(w, o) \/ CheckStock(w, o)
  <2>1. UNCHANGED <<outbox, refund, bill, shipped>>
    BY <1>4 DEF AskAuditor, AuditorAnswered, FlagAudit, CheckStock, Inventory
  <2> QED
    BY <2>1 DEF Frozen, Kept
<1>5. CASE Offer(w, o) /\ ~UNCHANGED db
  <2>1. UNCHANGED <<refund, bill, shipped>> /\ outbox' = outbox \cup {<<"offer", live[o].missing>>}
    BY <1>5 DEF Offer, CreateOffer
  <2> QED
    BY <2>1 DEF Frozen, Kept, Ends
<1>6. CASE Apply(w, o)
  <2>1. at = "apply" /\ m \in LinesOf(o) /\ NotYet(m) /\ ApplyOffer(o, m)
    BY <1>0, <1>6 DEF Apply, Running, LineNodes
  <2> QED
    BY <1>0, <2>1, ApplyFrozen
<1>7. CASE Drop(w, o) /\ ~UNCHANGED db
  <2>1. at = "drop_line" /\ m \in LinesOf(o) /\ NotYet(m) /\ MayDrop(m) /\ ~line[m].dropped
    BY <1>0, <1>7 DEF Drop, Running, LineNodes, DropLine, DropDone, Consent, DropsRefused
  <2>2. ~(order[o].high /\ order[o].manual = "reject")
    BY <1>1, <2>1 DEF BeforeAuditor
  <2>3. Fulfilled(o)
    BY <2>1, <2>2 DEF Ledger, Hopeless, Active
  <2>4. line[m].reserved
    BY <2>1, <2>3 DEF Ledger, Billed, Active
  <2>5. offer[m].status = "accepted" /\ offer[m].decision = "accept"
    BY <2>1, <2>4 DEF NotYet, Ledger
  <2> QED
    BY <2>1, <2>5 DEF MayDrop
<1>8. CASE Ship(w, o) /\ ~UNCHANGED db
  <2>1. at = "fulfill" /\ CanFulfill(o) /\ order[o].status # "ready_for_fulfillment"
    BY <1>8 DEF Ship, Running, Fulfill
  <2>2. ~Fulfilled(o) /\ Active(o) # {}
    BY <2>1 DEF CanFulfill, Fulfilled
  <2>3. ~(order[o].high /\ order[o].manual = "reject")
    BY <1>1, <2>1 DEF BeforeAuditor
  <2> QED
    BY <2>2, <2>3 DEF Ledger, Hopeless
<1>9. CASE Refuse(w, o) /\ ~UNCHANGED db
  <2>1. at = "cancel" /\ CanCancel(o) /\ order[o].status \notin Refused
    BY <1>9 DEF Refuse, Running, Cancel
  <2>2. Fulfilled(o)
    BY <2>1 DEF CanCancel, Cancelled
  <2>3. Hopeless(o)
    BY <2>1 DEF ReasonInv, Justly, Justified
  <2> QED
    BY <1>1, <1>2, <2>2, <2>3 DEF Hopeless, Active
<1> QED
  BY <1>3, <1>4, <1>5, <1>6, <1>7, <1>8, <1>9 DEF Node, Fraud, AskCustomer, CustomerAnswered

\* Every step leaves what an ended order paid back and keeps as it is.
LEMMA NextFrozen ==
    ASSUME CancelsInTime, Around, MoneyInv, [Next]_vars, NEW q \in Orders,
           Fulfilled(q) \/ Cancelled(q) \/ Withdrawn(q)
    PROVE  Frozen(q)
<1>0. /\ StockInv /\ ReasonInv /\ ConsentInv /\ TypeInv /\ RowsInv /\ RowsOK /\ ControlOK
      /\ Cancellable # {} => ProgressInv
      /\ Ledger(q) /\ Unbegun(q) /\ Placed(q)
  BY TypeInvParts DEF Around, ReasonInv, ConsentInv, RowsInv, MoneyInv, Ledger, Blank
<1>1. CASE UNCHANGED db
  BY <1>1, FrozenFrame DEF db, LedgerKept
<1>2. ASSUME NEW o \in Orders, Place(o) PROVE Frozen(q)
  <2>1. PlaceOrder(o) /\ q # o
    BY <1>0, <1>2 DEF Place, PlaceOrder, Placed
  <2>2. \A l \in LinesOf(q) : bill'[l] = bill[l]
    BY <2>1 DEF PlaceOrder, LinesOf
  <2> QED
    BY <2>1, <2>2 DEF PlaceOrder, Frozen, Kept, Ends
<1>3. ASSUME NEW o \in Orders, CustomerCancel(o), ~UNCHANGED db PROVE Frozen(q)
  <2>1. CancelBeforeResolution(o) /\ order[o].status = "received" /\ o \in Cancellable
    BY <1>0, <1>3 DEF CustomerCancel, CancelledIfReceived, ControlOK
  <2>2. \A e \in Ends : <<e, o>> \notin outbox
    BY <1>0, <2>1 DEF ProgressInv, Steady, OrderSound, Settled, Refused
  <2>3. q # o
    BY <2>2 DEF Fulfilled, Cancelled, Withdrawn, Ends
  <2>4. /\ UNCHANGED <<bill, shipped>>
        /\ outbox' = outbox \cup {<<"customer_cancel", o>>}
        /\ PayBack(o, LinesOf(o), Original)
    BY <2>1 DEF CancelBeforeResolution
  <2>5. \A l \in LinesOf(q) : refund'[l] = refund[l]
    BY <2>3, <2>4 DEF PayBack, LinesOf
  <2> QED
    BY <2>3, <2>4, <2>5 DEF Frozen, Kept
<1>4. CASE \/ \E o \in Orders, d \in {"approve", "reject"} : DecideAudit(o, d)
           \/ \E l \in Lines : \/ \E d \in {"accept", "reject"} : Reply(l, d)
                               \/ Deadline(l) \/ \E w \in Workers : ExpireOffer(w, l)
  <2>1. UNCHANGED <<outbox, refund, bill, shipped>>
    BY <1>4 DEF DecideAudit, Reply, Deadline, ExpireOffer
  <2> QED
    BY <2>1 DEF Frozen, Kept
<1>5. ASSUME NEW w \in Workers, NEW o \in Orders, Node(w, o) PROVE Frozen(q)
  <2>1. CASE q = o
    <3>1. ~Unlocked(o)
      BY <1>0, <1>5, NodeRuns, WorkflowAssumption DEF Unlocked
    <3>2. ~Withdrawn(q)
      BY <1>0, <2>1, <3>1, WithdrawnUndriven
    <3>3. \E at, m : at = live[o].at /\ m = live[o].missing
      OBVIOUS
    <3> QED
      BY <1>0, <1>5, <2>1, <3>2, <3>3, NodeFrozen
  <2>2. CASE q # o
    BY <1>0, <1>5, <2>2, NodeLedgerOthers, FrozenFrame
  <2> QED
    BY <2>1, <2>2
<1>6. CASE \/ UNCHANGED vars \/ Sleep
           \/ \E o \in Orders : LockForCancel(o) \/ Retry(o)
           \/ \E w \in Workers, o \in Orders : Claim(w, o) \/ Finish(w, o) \/ Failure(w, o)
  BY <1>1, <1>6 DEF vars, Sleep, LockForCancel, Retry, Claim, Finish, Failure, Raise, Crash
<1> QED
  BY <1>1, <1>2, <1>3, <1>4, <1>5, <1>6 DEF Next

\* What was paid back for an order and what is kept of it is final with the event
\* it ends with, and there is one such event, however often its nodes are run
\* again (fulfill, cancel, cancel_before_resolution, drop_line, apply_offer).
THEOREM MoneyIsFinal == CancelsInTime /\ Spec => MoneyFinal
<1> SUFFICES ASSUME CancelsInTime PROVE Spec => MoneyFinal
  OBVIOUS
<1>1. Around /\ MoneyInv /\ [Next]_vars =>
         [\A o \in Orders :
             (\E e \in {"fulfill", "cancel", "customer_cancel"} : <<e, o>> \in outbox) =>
                /\ \A e \in {"fulfill", "adjustment", "cancel", "customer_cancel"} :
                      <<e, o>> \in outbox' => <<e, o>> \in outbox
                /\ \A l \in LinesOf(o) : refund'[l] = refund[l] /\ Kept(l)' = Kept(l)]_vars
  BY NextFrozen DEF Frozen, Ends, Fulfilled, Cancelled, Withdrawn
<1>2. Spec => [](Around /\ MoneyInv)
  BY MoneySafety
<1> QED
  BY <1>1, <1>2, PTL DEF Spec, MoneyFinal
=============================================================================
