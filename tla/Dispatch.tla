------------------------------- MODULE Dispatch -------------------------------
(***************************************************************************)
(* Who sends orders to the intake: the dashboard's form (create and        *)
(* resetField in App.jsx), whose user tries again when no answer came, and *)
(* the web shop, which delivers its webhooks again.                        *)
(***************************************************************************)
EXTENDS Intake

CONSTANTS Forms,          \* contents the form can be filled in with
          FirstProduct,   \* a form with its product set to the first one
          Uids,           \* bound: ids the form can draw
          NoId,
          ShopRequests,   \* webhook requests
          MaxDeliveries   \* bound: requests that reach the intake

ASSUME DispatchAssumption ==
    /\ Forms \subseteq Contents /\ Uids \subseteq Ids /\ NoId \notin Ids
    /\ FirstProduct \in [Forms -> Forms] /\ \E f \in Forms : FirstProduct[f] = f
    /\ ShopRequests \subseteq {r \in Requests : r.id \notin Uids}
    /\ "sent" \in Raws
    /\ {"nothing", "timer"} \cap Handlers = {}
    /\ MaxDeliveries \in Nat

VARIABLES mode, form,
          pendingRequest,   \* the id of the order that is being placed
          doing,            \* nothing, the demo's timer, or the handler asked
          used, sent,       \* ids drawn, requests sent
          mine,             \* ids tried since the user last changed anything
          switched          \* the mode has been changed since the last id was drawn

page == <<mode, form, pendingRequest, doing, used, mine, switched>>
vars == <<intake, page, sent>>

DefaultForm == CHOOSE f \in Forms : FirstProduct[f] = f

DispatchInit ==
    /\ IntakeInit
    /\ mode = "demo" /\ form = DefaultForm /\ pendingRequest = NoId
    /\ doing = "nothing" /\ used = {} /\ sent = 0
    /\ mine = {} /\ switched = FALSE

-----------------------------------------------------------------------------
\* Mutant: the id survives the change.
ResetFieldKeepsId(f) == form' = f /\ mine' = {} /\ UNCHANGED pendingRequest

\* A change of the form makes it another order.
ResetField(f) == form' = f /\ mine' = {} /\ pendingRequest' = NoId

\* Every field of the form is set through resetField, while an order is on its way too.
Edit(f) ==
    /\ f # form /\ ResetField(f)
    /\ UNCHANGED <<intake, mode, doing, used, sent, switched>>

\* Connecting and going back to the demo both set the product, and only it.
SwitchMode ==
    /\ mode' = IF mode = "demo" THEN "live" ELSE "demo"
    /\ form' = FirstProduct[form]
    /\ mine' = {} /\ switched' = TRUE
    /\ UNCHANGED <<intake, pendingRequest, doing, used, sent>>

\* The id of this try: the one of the last try, or a new one.
TryWith(id) ==
    /\ doing = "nothing"
    /\ IF pendingRequest # NoId THEN id = pendingRequest ELSE id \in Uids \ used
    /\ pendingRequest' = id /\ used' = used \cup {id}
    /\ switched' = (switched /\ pendingRequest # NoId)

CreateLive(h, id) ==
    /\ mode = "live" /\ sent < MaxDeliveries
    /\ TryWith(id)
    /\ Receive(h, [via |-> "api", id |-> id, content |-> form, raw |-> "sent"])
    /\ doing' = h /\ mine' = mine \cup {id} /\ sent' = sent + 1
    /\ UNCHANGED <<mode, form>>

\* The request does not get through; the error is shown.
CreateUnreached(id) ==
    /\ mode = "live"
    /\ TryWith(id)
    /\ mine' = mine \cup {id}
    /\ UNCHANGED <<intake, mode, form, doing, sent>>

CreateDemo(id) ==
    /\ mode = "demo"
    /\ TryWith(id)
    /\ doing' = "timer"
    /\ UNCHANGED <<intake, mode, form, sent, mine>>

\* The timer ends the demo order, whatever mode it finds.
DemoDone ==
    /\ doing = "timer"
    /\ doing' = "nothing" /\ pendingRequest' = NoId
    /\ UNCHANGED <<intake, mode, form, used, sent, mine, switched>>

Accepted(h) ==
    /\ doing = h /\ At(h, "answered") /\ handler[h].code # "conflict" /\ Respond(h)
    /\ doing' = "nothing" /\ pendingRequest' = NoId
    /\ mine' = {}
    /\ UNCHANGED <<mode, form, used, sent, switched>>

Refused(h) == At(h, "answered") /\ handler[h].code = "conflict"
Failed(h) == (At(h, "died") \/ Refused(h)) /\ Respond(h)

\* Mutant: the id is given up with the try.
NotAcceptedForgets(h) ==
    /\ doing = h
    /\ Failed(h) \/ UNCHANGED intake
    /\ doing' = "nothing" /\ pendingRequest' = NoId
    /\ UNCHANGED <<mode, form, used, sent, mine, switched>>

\* A refusal, or no answer at all: the handler may still be at work.
NotAccepted(h) ==
    /\ doing = h
    /\ Failed(h) \/ UNCHANGED intake
    /\ doing' = "nothing"
    /\ UNCHANGED <<mode, form, pendingRequest, used, sent, mine, switched>>

\* A new page knows nothing of the old one's tries.
Reload ==
    /\ mode' = "demo" /\ form' = DefaultForm /\ pendingRequest' = NoId
    /\ doing' = "nothing" /\ mine' = {}
    /\ UNCHANGED <<intake, used, sent, switched>>

ShopDelivers(h, r) ==
    /\ sent < MaxDeliveries
    /\ Receive(h, r) /\ sent' = sent + 1
    /\ UNCHANGED page

\* An answer the page is not waiting for, or no longer.
AnswerElsewhere(h) == doing # h /\ Respond(h) /\ UNCHANGED <<page, sent>>

Server ==
    /\ WindowPasses \/ \E h \in Handlers : Serve(h) \/ Die(h)
    /\ UNCHANGED <<page, sent>>

DispatchNext ==
    \/ \E f \in Forms : Edit(f)
    \/ SwitchMode \/ Reload \/ DemoDone \/ Server
    \/ \E id \in Uids : CreateUnreached(id) \/ CreateDemo(id)
    \/ \E h \in Handlers :
          \/ \E id \in Uids : CreateLive(h, id)
          \/ Accepted(h) \/ NotAccepted(h) \/ AnswerElsewhere(h)
          \/ \E r \in ShopRequests : ShopDelivers(h, r)

DispatchSpec == DispatchInit /\ [][DispatchNext]_vars

-----------------------------------------------------------------------------
DispatchType ==
    /\ placed \in Seq([id : Ids, digest : {Digest(r) : r \in Requests},
                       content : Contents, risk : 0..10, recent : BOOLEAN])
    /\ \A h \in Handlers : ~At(h, "idle") => handler[h].request \in Requests
    /\ mode \in {"demo", "live"} /\ form \in Forms
    /\ pendingRequest \in Uids \cup {NoId}
    /\ doing \in {"nothing", "timer"} \cup Handlers
    /\ mine \subseteq used /\ used \subseteq Uids
    /\ sent \in 0..MaxDeliveries /\ switched \in BOOLEAN

\* A user who tries again after an error, without changing anything, places one
\* order however many of the earlier tries got through after all.
NoDoublePlacing == Cardinality({i \in DOMAIN placed : placed[i].id \in mine}) <= 1

\* The form never has its own order refused as somebody else's data, unless the
\* mode was changed meanwhile, which sets the product and keeps the id.
ConflictOnlyAfterSwitch ==
    \A h \in Handlers : doing = h /\ Refused(h) => switched
=============================================================================
