---------------------------- MODULE OrderLifecycle ----------------------------
(***************************************************************************)
(* What the shop promises about one order, whoever keeps the promise: the  *)
(* nine-node graph with its database (Workflow) or the sample data in the  *)
(* browser (DemoStore).  An order is a small state machine; a step of its  *)
(* keeper may take several of its turns at once (the browser accepts,      *)
(* replaces and ships in one call), so the promise is a relation between   *)
(* an order before and after a step and not a list of operations.          *)
(***************************************************************************)
CONSTANTS Orders, Lines, OrderOf

ASSUME LifecycleAssumption == OrderOf \in [Lines -> Orders]

VARIABLES phase,      \* per order: how far it is
          risky,      \* orders at or above the risk threshold
          verdict,    \* per order: what its auditor said
          withdrawn,  \* orders their customer cancelled before anything happened
          asked,      \* lines whose customer was offered a replacement
          answer,     \* per line: what became of the offer
          fate        \* per line: what is shipped for it

ofOrders == <<phase, risky, verdict, withdrawn>>
ofLines == <<asked, answer, fate>>
lifecycle == <<ofOrders, ofLines>>

Phases == {"absent", "open", "review", "asking", "shipped", "refused"}
Verdicts == {"none", "approve", "reject"}
DealAnswers == {"none", "accept", "reject", "expired"}
Fates == {"open", "replaced", "dropped"}

Over == {"shipped", "refused"}
OfOrder(o) == {l \in Lines : OrderOf[l] = o}

LifecycleInit ==
    /\ phase = [o \in Orders |-> "absent"]
    /\ risky = {} /\ withdrawn = {} /\ asked = {}
    /\ verdict = [o \in Orders |-> "none"]
    /\ answer = [l \in Lines |-> "none"]
    /\ fate = [l \in Lines |-> "open"]

-----------------------------------------------------------------------------
\* The turns of the state machine.  There is no way back to the review, none out
\* of an order that is over, and a new order takes its first turn alone.
Turn == {<<"absent", "open">>}
        \cup {"open"} \X {"review", "asking", "shipped", "refused"}
        \cup {"review"} \X {"asking", "shipped", "refused"}
        \cup {"asking"} \X {"shipped", "refused"}

\* The auditor has no say in the order, or let it pass.
Cleared(o) == o \in risky' => verdict'[o] = "approve"

\* An auditor speaks once, while the order is in review.
AuditorSpeaksOnce(o) ==
    verdict'[o] # verdict[o] => verdict[o] = "none" /\ phase[o] = "review"

\* An offer is made once, of an order that is cleared.
OfferedOnce(l) ==
    /\ l \in asked => l \in asked'
    /\ l \in asked' \ asked => /\ phase'[OrderOf[l]] = "asking"
                               /\ fate[l] = "open"
                               /\ Cleared(OrderOf[l])

\* The first answer to an offer is the only one.
AnsweredOnce(l) ==
    answer'[l] # answer[l] => answer[l] = "none" /\ l \in asked /\ fate[l] = "open"

\* A line is replaced with its customer's consent, and is given up only if there
\* was nothing to offer or the offer was turned down; never of an unplaced order.
Consent(l) ==
    fate'[l] # fate[l] =>
       /\ fate[l] = "open" /\ Cleared(OrderOf[l])
       /\ phase[OrderOf[l]] # "absent"
       /\ \/ fate'[l] = "replaced" /\ answer'[l] = "accept"
          \/ fate'[l] = "dropped" /\ (l \in asked' => answer'[l] \in {"reject", "expired"})

\* An order ships cleared, with at least a line, and with no offer in the air.
ShipsRight(o) ==
    /\ Cleared(o)
    /\ \A l \in OfOrder(o) \cap asked' : fate'[l] # "open"
    /\ \E l \in OfOrder(o) : fate'[l] # "dropped"

\* An order is refused by its auditor, for want of anything to ship, or by its
\* customer while nothing has happened yet.
RefusedRight(o) ==
    \/ verdict'[o] = "reject"
    \/ \A l \in OfOrder(o) : fate'[l] = "dropped"
    \/ phase[o] = "open" /\ o \in withdrawn'

\* Only a new order learns its risk, and only a refused one was withdrawn.
Advances(o) ==
    /\ phase'[o] = phase[o] \/ <<phase[o], phase'[o]>> \in Turn
    /\ (o \in risky' <=> o \in risky) \/ phase[o] = "absent"
    /\ o \in withdrawn' \ withdrawn => phase[o] # phase'[o] /\ phase'[o] = "refused"
    /\ AuditorSpeaksOnce(o)
    /\ phase'[o] = "review" => o \in risky'
    /\ phase[o] # "shipped" /\ phase'[o] = "shipped" => ShipsRight(o)
    /\ phase[o] # "refused" /\ phase'[o] = "refused" => RefusedRight(o)

Same(o) ==
    /\ phase'[o] = phase[o] /\ verdict'[o] = verdict[o]
    /\ o \in risky' <=> o \in risky
    /\ o \in withdrawn' <=> o \in withdrawn

SameLine(l) ==
    /\ l \in asked' <=> l \in asked
    /\ answer'[l] = answer[l] /\ fate'[l] = fate[l]

\* One order moves on, the others and every order that is over stay as they are.
Step(o) ==
    /\ phase[o] \notin Over
    /\ Advances(o)
    /\ \A l \in OfOrder(o) : OfferedOnce(l) /\ AnsweredOnce(l) /\ Consent(l)
    /\ \A p \in Orders \ {o} : Same(p)
    /\ \A l \in Lines \ OfOrder(o) : SameLine(l)

LifecycleType ==
    /\ phase \in [Orders -> Phases]
    /\ verdict \in [Orders -> Verdicts]
    /\ risky \subseteq Orders /\ withdrawn \subseteq Orders
    /\ asked \subseteq Lines
    /\ answer \in [Lines -> DealAnswers]
    /\ fate \in [Lines -> Fates]

LifecycleNext == LifecycleType' /\ \E o \in Orders : Step(o)

Lifecycle == LifecycleInit /\ [][LifecycleNext]_lifecycle

-----------------------------------------------------------------------------
\* What an order shows of its past, and its lifecycle implies: a replaced line was
\* agreed to, a dropped one was not, a risky order that got anywhere was approved.
SoundLine(l) ==
    /\ fate[l] = "replaced" => l \in asked /\ answer[l] = "accept"
    /\ fate[l] = "dropped" /\ l \in asked => answer[l] \in {"reject", "expired"}
    /\ l \notin asked => answer[l] = "none"
    /\ l \in asked => phase[OrderOf[l]] \in {"asking"} \cup Over
    /\ \/ phase[OrderOf[l]] = "absent"
       \/ OrderOf[l] \in risky /\ verdict[OrderOf[l]] # "approve"
       => l \notin asked /\ fate[l] = "open"

SoundOrder(o) ==
    /\ o \in withdrawn => phase[o] = "refused"
    /\ phase[o] = "review" \/ verdict[o] # "none" => o \in risky
    /\ phase[o] = "absent" => verdict[o] = "none"
    /\ phase[o] = "shipped" => (o \in risky => verdict[o] = "approve")
    /\ phase[o] \in Over => \A l \in OfOrder(o) \cap asked : fate[l] # "open"

Sound == /\ LifecycleType
         /\ \A l \in Lines : SoundLine(l)
         /\ \A o \in Orders : SoundOrder(o)
=============================================================================
