------------------------------ MODULE Dashboard ------------------------------
(***************************************************************************)
(* The page an operator works with (App.jsx), connected to a shop that     *)
(* goes on working: what it polls, what it shows, and what it sends when a *)
(* button is clicked.  The shop itself is whatever keeps the promise of    *)
(* OrderLifecycle; orders have one line each.  Placing orders and the      *)
(* sample shop are in Dispatch and DemoStore; here they only keep the page *)
(* busy.                                                                   *)
(***************************************************************************)
EXTENDS OrderLifecycle, Integers, FiniteSets

CONSTANTS Hosts,       \* who serves the page: "fastapi" or the static "site"
          Polls,       \* polls that could be on their way at once
          HighRisk,    \* bound: orders that come in above the risk threshold
          MaxWire      \* bound: requests given up by the page and still to arrive

ASSUME DashboardAssumption ==
    /\ Lines = Orders /\ \A o \in Orders : OrderOf[o] = o
    /\ Hosts \subseteq {"fastapi", "site"}
    /\ HighRisk \subseteq Orders
    /\ Polls \subseteq Nat \ {0} /\ MaxWire \in Nat

VARIABLES host,
          mode,       \* "demo" or "live"
          live,       \* the last snapshot: per order, its status and its offer
          dialog,     \* the dialog that is open: none, connect, or an order's
          polling,    \* polling.current
          fetch,      \* per poll, and for the connection: how far /dashboard is
          command,    \* what the page is busy with
          wire        \* requests nobody waits for any more

browser == <<mode, live, dialog, polling, fetch, command>>
server == lifecycle
dashboard == <<lifecycle, host, browser, wire>>

Connection == 0
Fetches == Polls \cup {Connection}
Idle == [stage |-> "idle"]
Nothing == [o \in Orders |-> [phase |-> "absent", offer |-> FALSE]]

\* The mounted page: no snapshot, no key, the sample orders.
Mounted ==
    /\ mode = "demo" /\ live = Nothing /\ dialog = "none"
    /\ polling = FALSE /\ command = Idle
    /\ fetch = [f \in Fetches |-> Idle]

DashboardInit ==
    /\ LifecycleInit
    /\ host \in Hosts /\ Mounted
    /\ wire = {}

-----------------------------------------------------------------------------
(* The shop.                                                               *)

\* An offer's row is pending until its answer has been acted upon.
Offered(o) == o \in asked /\ fate[o] = "open"

\* The worker and the clock, at any time.
Work(o) ==
    /\ \E p \in Phases, f \in Fates, offers \in BOOLEAN, late \in BOOLEAN :
          /\ phase' = [phase EXCEPT ![o] = p]
          /\ fate' = [fate EXCEPT ![o] = f]
          /\ asked' = IF offers THEN asked \cup {o} ELSE asked
          /\ answer' = IF late THEN [answer EXCEPT ![o] = "expired"] ELSE answer
    /\ risky' = IF o \in HighRisk THEN risky \cup {o} ELSE risky
    /\ UNCHANGED <<verdict, withdrawn>>
    /\ Step(o)
    /\ UNCHANGED <<host, browser, wire>>

\* The customer cancels an order nothing has happened to yet.
Withdraw(o) ==
    /\ phase[o] = "open" /\ phase' = [phase EXCEPT ![o] = "refused"]
    /\ withdrawn' = withdrawn \cup {o}
    /\ UNCHANGED <<risky, verdict, ofLines, host, browser, wire>>

\* What decide_audit and reply make of a decision: TRUE if it is accepted, now or
\* because it was taken before.
\* Mutant: the last decision wins.
AuditAlways(o, d, ok) == ok /\ verdict' = [verdict EXCEPT ![o] = d]

Audit(o, d, ok) ==
    \/ ok /\ verdict[o] = d /\ UNCHANGED verdict
    \/ ok /\ verdict[o] = "none" /\ phase[o] = "review"
          /\ verdict' = [verdict EXCEPT ![o] = d]
    \/ ~ok /\ verdict[o] # d /\ (verdict[o] = "none" => phase[o] # "review")
           /\ UNCHANGED verdict

\* Mutant: any answer to an offer that was answered is a duplicate.
ReplyAnyDuplicate(o, d, ok) ==
    \/ ok /\ answer[o] # "none" /\ UNCHANGED answer
    \/ ok /\ Offered(o) /\ answer[o] = "none" /\ answer' = [answer EXCEPT ![o] = d]
    \/ ~ok /\ answer[o] = "none" /\ UNCHANGED answer

\* A pending offer is refused as well once its deadline has passed.
Reply(o, d, ok) ==
    \/ ok /\ answer[o] = d /\ UNCHANGED answer
    \/ ok /\ Offered(o) /\ answer[o] = "none" /\ answer' = [answer EXCEPT ![o] = d]
    \/ ~ok /\ answer[o] # d /\ UNCHANGED answer

\* The handler a request calls.
Handle(r, ok) ==
    /\ \/ r.kind = "audit" /\ Audit(r.order, r.decision, ok) /\ UNCHANGED answer
       \/ r.kind = "reply" /\ Reply(r.order, r.decision, ok) /\ UNCHANGED verdict
    /\ UNCHANGED <<phase, risky, withdrawn, asked, fate>>

\* Other operators decide, and customers answer their mail.
DecidedElsewhere(o) ==
    /\ \/ \E d \in {"approve", "reject"} : Audit(o, d, TRUE) /\ UNCHANGED answer
       \/ \E d \in {"accept", "reject"} : Reply(o, d, TRUE) /\ UNCHANGED verdict
    /\ UNCHANGED <<phase, risky, withdrawn, asked, fate, host, browser, wire>>

\* A request the page has given up arrives after all, or never.
LateArrival(r) ==
    /\ wire' = wire \ {r}
    /\ \/ \E ok \in BOOLEAN : Handle(r, ok)
       \/ UNCHANGED server
    /\ UNCHANGED <<host, browser>>

-----------------------------------------------------------------------------
(* GET /dashboard and who asks for it.                                     *)

\* call: the site has no api, and whatever it answers is no JSON.
HasApi == host # "site"

\* The snapshot is not one: the orders are read first, their offers when the
\* answer is made up.
Snapshot(f) ==
    [o \in Orders |-> [phase |-> fetch[f].seen[o],
                       offer |-> fetch[f].seen[o] # "absent" /\ Offered(o)]]

\* Mutant: an answer on its way does not keep the next poll back.
MayPollAnytime == mode = "live"
MayPoll == mode = "live" /\ ~polling

\* A call that is on its way, and has read the orders.
Asked == [stage |-> "read", seen |-> phase, overtaken |-> FALSE]

\* Polls are numbered; with `polling' to keep them apart there is only poll 1.
NextPoll(f) == fetch[f] = Idle /\ \A g \in Polls : fetch[g] = Idle => f <= g

\* refresh, called when the mode becomes live and every 3 seconds.
Poll(f) ==
    /\ MayPoll /\ NextPoll(f)
    /\ polling' = TRUE /\ fetch' = [fetch EXCEPT ![f] = Asked]
    /\ UNCHANGED <<server, host, mode, live, dialog, command, wire>>

\* A command that waits for this refresh is over with it, and the dialog closes.
Finished(f) == command.stage = "refreshing" /\ command.poll = f
AfterRefresh(f) ==
    /\ command' = IF Finished(f) THEN Idle ELSE command
    /\ dialog' = IF Finished(f) /\ command.closes THEN "none" ELSE dialog

Polled(f) ==
    /\ fetch[f] # Idle
    /\ fetch' = [fetch EXCEPT ![f] = Idle] /\ polling' = FALSE
    /\ live' = IF mode = "live" THEN Snapshot(f) ELSE live
    /\ AfterRefresh(f)
    /\ UNCHANGED <<server, host, mode, wire>>

\* Mutant: only a poll that succeeds lets the next one start.
PollFailsForGood(f) ==
    /\ fetch[f] # Idle
    /\ fetch' = [fetch EXCEPT ![f] = Idle]
    /\ AfterRefresh(f)
    /\ UNCHANGED <<server, host, mode, live, polling, wire>>

PollFails(f) ==
    /\ fetch[f] # Idle
    /\ fetch' = [fetch EXCEPT ![f] = Idle] /\ polling' = FALSE
    /\ AfterRefresh(f)
    /\ UNCHANGED <<server, host, mode, live, wire>>

Connect ==
    /\ dialog = "connect" /\ fetch[Connection] = Idle
    /\ fetch' = [fetch EXCEPT ![Connection] = Asked]
    /\ UNCHANGED <<server, host, mode, live, dialog, polling, command, wire>>

\* `overtaken' marks polls that were on their way when the page connected anew.
Connected ==
    /\ fetch[Connection] # Idle /\ HasApi
    /\ mode' = "live" /\ live' = Snapshot(Connection)
    /\ dialog' = "none"
    /\ fetch' = [f \in Fetches |->
                   CASE f = Connection -> Idle
                     [] fetch[f] = Idle -> Idle
                     [] OTHER -> [fetch[f] EXCEPT !.overtaken = TRUE]]
    /\ UNCHANGED <<server, host, polling, command, wire>>

ConnectFails ==
    /\ fetch[Connection] # Idle
    /\ fetch' = [fetch EXCEPT ![Connection] = Idle]
    /\ UNCHANGED <<server, host, mode, live, dialog, polling, command, wire>>

-----------------------------------------------------------------------------
(* What the user does.                                                     *)

Shown(o) == mode = "live" /\ live[o].phase # "absent"

\* A dialog covers the page; it is closed before another one is opened.
OpenConnect ==
    /\ dialog = "none" /\ dialog' = "connect"
    /\ UNCHANGED <<server, host, mode, live, polling, fetch, command, wire>>

OpenOrder(o) ==
    /\ dialog = "none" /\ Shown(o) /\ dialog' = o
    /\ UNCHANGED <<server, host, mode, live, polling, fetch, command, wire>>

Close ==
    /\ dialog # "none" /\ dialog' = "none"
    /\ UNCHANGED <<server, host, mode, live, polling, fetch, command, wire>>

\* Mutant: polls on their way are forgotten, but not that there are some.
ChooseDemoAborts ==
    /\ dialog = "connect"
    /\ mode' = "demo" /\ dialog' = "none" /\ live' = Nothing
    /\ fetch' = [f \in Fetches |-> Idle]
    /\ UNCHANGED <<server, host, polling, command, wire>>

\* The page keeps the snapshot but shows the sample orders, until it is connected
\* anew and has another one.
ChooseDemo ==
    /\ dialog = "connect"
    /\ mode' = "demo" /\ dialog' = "none" /\ live' = Nothing
    /\ UNCHANGED <<server, host, polling, fetch, command, wire>>

\* A pending offer has its buttons, whatever the row's status; a row in review
\* without an offer has the auditor's.
Buttons(o) ==
    IF live[o].offer THEN {"Simulate accept", "Simulate reject"}
    ELSE IF live[o].phase = "review" THEN {"Approve order", "Reject order"} ELSE {}

Meaning(label) == CASE label = "Simulate accept" -> <<"reply", "accept">>
                    [] label = "Simulate reject" -> <<"reply", "reject">>
                    [] label = "Approve order" -> <<"audit", "approve">>
                    [] label = "Reject order" -> <<"audit", "reject">>

Request(o, label, kind, decision) ==
    [order |-> o, label |-> label, kind |-> kind, decision |-> decision]

\* act: an order in review gets an audit.  Any other gets a reply to its offer,
\* after a look into the outbox for the offer's token, which changes nothing.
Click(o, label) ==
    /\ dialog = o /\ Shown(o) /\ label \in Buttons(o) /\ command = Idle
    /\ command' = [stage |-> "sent", request |->
          IF live[o].phase = "review"
          THEN Request(o, label, "audit",
                       IF label = "Approve order" THEN "approve" ELSE "reject")
          ELSE Request(o, label, "reply", Meaning(label)[2])]
    /\ UNCHANGED <<server, host, mode, live, dialog, polling, fetch, wire>>

Arrives ==
    /\ command.stage = "sent"
    /\ \E ok \in BOOLEAN :
          /\ Handle(command.request, ok)
          /\ command' = [stage |-> "answered", ok |-> ok, request |-> command.request]
    /\ UNCHANGED <<host, mode, live, dialog, polling, fetch, wire>>

\* The dispatch form and the demo's timer keep the page busy too.
CreateLive ==
    /\ mode = "live" /\ command = Idle
    /\ command' = [stage |-> "placing"]
    /\ UNCHANGED <<server, host, mode, live, dialog, polling, fetch, wire>>

CreateDemo ==
    /\ mode = "demo" /\ command = Idle
    /\ command' = [stage |-> "timer"]
    /\ UNCHANGED <<server, host, mode, live, dialog, polling, fetch, wire>>

\* After success act and create refresh: they wait for a poll of their own, or
\* for none if the page is polling already or has left the live mode.
Refresh(closes) ==
    \/ /\ MayPoll /\ polling' = TRUE
       /\ \E f \in Polls :
             /\ NextPoll(f)
             /\ fetch' = [fetch EXCEPT ![f] = Asked]
             /\ command' = [stage |-> "refreshing", poll |-> f, closes |-> closes]
       /\ UNCHANGED dialog
    \/ /\ ~MayPoll
       /\ command' = Idle /\ dialog' = IF closes THEN "none" ELSE dialog
       /\ UNCHANGED <<polling, fetch>>

Succeeds ==
    /\ \/ command.stage = "answered" /\ command.ok /\ Refresh(TRUE)
       \/ command.stage = "placing" /\ Refresh(FALSE)
    /\ UNCHANGED <<server, host, mode, live, wire>>

TimerEnds ==
    /\ command.stage = "timer"
    /\ command' = Idle
    /\ UNCHANGED <<server, host, mode, live, dialog, polling, fetch, wire>>

\* An error ends a command: a refusal, or a connection that fails, in which case
\* the request may still be on its way.
Fails ==
    /\ \/ command.stage \in {"answered", "placing"} /\ UNCHANGED wire
       \/ command.stage = "sent" /\ wire' = wire \cup {command.request}
    /\ command' = Idle
    /\ Cardinality(wire') <= MaxWire
    /\ UNCHANGED <<server, host, mode, live, dialog, polling, fetch>>

\* Any path of the site that is no file is answered with the page if a browser
\* navigates to it.
SiteAnswer(method, html, isFile) ==
    IF ~isFile /\ html /\ method \in {"GET", "HEAD"} THEN "page"
    ELSE IF isFile THEN "file" ELSE "not found"

\* The page is opened again, at any path: what it knew is gone, what it sent is not.
Served(isFile) ==
    IF host = "site" THEN SiteAnswer("GET", TRUE, isFile) # "not found" ELSE isFile

Reload ==
    /\ \E isFile \in BOOLEAN : Served(isFile)
    /\ mode' = "demo" /\ live' = Nothing /\ dialog' = "none"
    /\ polling' = FALSE /\ command' = Idle
    /\ fetch' = [f \in Fetches |-> Idle]
    /\ wire' = IF command.stage = "sent" THEN wire \cup {command.request} ELSE wire
    /\ Cardinality(wire') <= MaxWire
    /\ UNCHANGED <<server, host>>

-----------------------------------------------------------------------------
DashboardNext ==
    \/ \E o \in Orders : Work(o) \/ Withdraw(o) \/ DecidedElsewhere(o)
    \/ \E r \in wire : LateArrival(r)
    \/ \E f \in Polls : Poll(f) \/ Polled(f) \/ PollFails(f)
    \/ Connect \/ Connected \/ ConnectFails
    \/ OpenConnect \/ Close \/ ChooseDemo
    \/ \E o \in Orders : OpenOrder(o) \/ \E label \in Buttons(o) : Click(o, label)
    \/ Arrives \/ CreateLive \/ CreateDemo \/ Succeeds \/ TimerEnds \/ Fails
    \/ Reload

\* The interval keeps polling, and a network that is tried for ever works now and
\* then.
DashboardFairness ==
    \A f \in Polls : WF_dashboard(Poll(f)) /\ SF_dashboard(Polled(f))

DashboardSpec ==
    DashboardInit /\ [][DashboardNext]_dashboard /\ DashboardFairness
=============================================================================
