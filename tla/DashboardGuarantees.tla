------------------------- MODULE DashboardGuarantees -------------------------
(***************************************************************************)
(* What an operator may rely on in front of the page.                      *)
(***************************************************************************)
EXTENDS Dashboard

\* The page and the shop behind it have their types; no more requests are on
\* their way than the bound allows.
DashboardType ==
    /\ LifecycleType
    /\ mode \in {"demo", "live"} /\ polling \in BOOLEAN
    /\ live \in [Orders -> [phase : Phases, offer : BOOLEAN]]
    /\ dialog \in {"none", "connect"} \cup Orders
    /\ mode = "live" => host = "fastapi"
    /\ polling <=> \E f \in Polls : fetch[f] # Idle
    /\ Cardinality(wire) <= MaxWire

\* Whatever the row showed that was clicked, a torn snapshot included, and however
\* late the request arrived: the decision the shop recorded is the one on the button.
Taken(r) == \/ r \in wire /\ r \notin wire'
            \/ command.stage = "sent" /\ command.request = r /\ command'.stage = "answered"

ClickMeansWhatItSays ==
    [][\A r \in wire \cup (IF command.stage = "sent" THEN {command.request} ELSE {}) :
          Taken(r) /\ <<verdict, answer>>' # <<verdict, answer>> =>
             <<r.kind, r.decision>> = Meaning(r.label)]_dashboard

\* When the page says that a decision is recorded, it is, whoever took it first:
\* a different one by somebody else shows as an error.
AcknowledgedIsRecorded ==
    command.stage = "answered" /\ command.ok =>
       LET r == command.request IN
       Meaning(r.label) = IF r.kind = "audit" THEN <<"audit", verdict[r.order]>>
                                              ELSE <<"reply", answer[r.order]>>

Rank(p) == CASE p = "absent" -> 0 [] p = "open" -> 1 [] p = "review" -> 2
             [] p = "asking" -> 3 [] p \in Over -> 4

\* What the page shows of an order never goes back to an earlier time, unless its
\* user connects anew while a poll is on its way: polls do not overtake each other.
ConnectingAnew ==
    \/ fetch[Connection] # Idle
    \/ \E f \in Polls : fetch[f] # Idle /\ fetch[f].overtaken

ViewNeverGoesBack ==
    [][mode = "live" /\ mode' = "live" /\ ~ConnectingAnew =>
          \A o \in Orders : Rank(live'[o].phase) >= Rank(live[o].phase)]_dashboard

\* A page that stays connected shows in the end how things are, failed polls and
\* commands that refresh in between notwithstanding.
ViewCatchesUp ==
    <>[](mode = "live") =>
       <>[](\A o \in Orders : live[o] = [phase |-> phase[o], offer |-> Offered(o)])
=============================================================================
