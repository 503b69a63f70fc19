--------------------------- MODULE Dashboard_proofs ---------------------------
(***************************************************************************)
(* The page in front of any shop that keeps the promise of OrderLifecycle, *)
(* with any number of orders and any number of requests that arrive late.  *)
(* First what the promise comes to: in every order that keeps it, the past *)
(* can be told from the present.  The argument about the page is then      *)
(* about the torn row, an order read in review whose offer was read later: *)
(* the offer proves that its auditor had approved it.                      *)
(***************************************************************************)
EXTENDS DashboardGuarantees, TLAPS, FiniteSetTheorems

\* An order that moves on keeps its lines sound.
LEMMA OwnLine ==
    ASSUME LifecycleType, LifecycleType', NEW o \in Orders, Step(o),
           NEW l \in Lines, OrderOf[l] = o, SoundLine(l)
    PROVE  SoundLine(l)'
<1>1. l \in OfOrder(o)
  BY DEF OfOrder
<1>2. OfferedOnce(l) /\ AnsweredOnce(l) /\ Consent(l) /\ Advances(o)
  BY <1>1 DEF Step
<1>3. fate[l] \in Fates /\ fate'[l] \in Fates /\ phase[o] \in Phases
  BY DEF LifecycleType
<1>4. fate'[l] = "replaced" => l \in asked' /\ answer'[l] = "accept"
  BY <1>2, <1>3 DEF SoundLine, OfferedOnce, AnsweredOnce, Consent, Fates
<1>5. fate'[l] = "dropped" /\ l \in asked' => answer'[l] \in {"reject", "expired"}
  BY <1>2, <1>3 DEF SoundLine, OfferedOnce, AnsweredOnce, Consent, Fates
<1>6. l \notin asked' => answer'[l] = "none"
  BY <1>2 DEF SoundLine, OfferedOnce, AnsweredOnce
<1>7. phase'[o] = "absent" => phase[o] = "absent"
  BY <1>2 DEF Advances, Turn
<1>8. phase[o] = "absent" => phase'[o] # "asking"
  BY <1>2 DEF Advances, Turn
<1>9. phase[o] = "absent" => l \notin asked' /\ fate'[l] = "open"
  BY <1>2, <1>8 DEF SoundLine, OfferedOnce, Consent
<1>10. l \in asked' => phase'[o] \in {"asking"} \cup Over
  <2>1. CASE l \in asked
    <3>1. phase[o] = "asking"
      BY <2>1 DEF SoundLine, Step
    <3> QED
      BY <1>2, <3>1 DEF Advances, Turn, Over
  <2>2. CASE l \notin asked
    BY <1>2, <2>2 DEF OfferedOnce
  <2> QED
    BY <2>1, <2>2
<1>11. o \in risky' /\ verdict'[o] # "approve" => l \notin asked' /\ fate'[l] = "open"
  <2>1. CASE phase[o] = "absent"
    BY <1>9, <2>1
  <2>2. CASE phase[o] # "absent"
    <3>1. o \in risky' <=> o \in risky
      BY <1>2, <2>2 DEF Advances
    <3>2. verdict[o] = "approve" => verdict'[o] = "approve"
      BY <1>2 DEF Advances, AuditorSpeaksOnce
    <3> QED
      BY <1>2, <3>1, <3>2 DEF SoundLine, OfferedOnce, Consent, Cleared
  <2> QED
    BY <2>1, <2>2
<1> QED
  BY <1>4, <1>5, <1>6, <1>7, <1>9, <1>10, <1>11 DEF SoundLine

LEMMA OwnOrder ==
    ASSUME LifecycleType, LifecycleType', NEW o \in Orders, Step(o), SoundOrder(o),
           \A l \in Lines : SoundLine(l) /\ SoundLine(l)'
    PROVE  SoundOrder(o)'
<1>1. Advances(o) /\ phase[o] \notin Over
  BY DEF Step
<1>2. o \in withdrawn' => phase'[o] = "refused"
  BY <1>1 DEF Advances, SoundOrder, Over
<1>3. phase'[o] = "shipped" => ShipsRight(o)
  BY <1>1 DEF Advances, Over
<1>4. phase'[o] = "refused" => RefusedRight(o)
  BY <1>1 DEF Advances, Over
<1>5. phase[o] # "absent" => (o \in risky' <=> o \in risky)
  BY <1>1 DEF Advances
<1>6. verdict'[o] # "none" => o \in risky /\ phase[o] # "absent"
  BY <1>1 DEF Advances, AuditorSpeaksOnce, SoundOrder
<1>7. phase'[o] = "review" \/ verdict'[o] # "none" => o \in risky'
  BY <1>1, <1>5, <1>6 DEF Advances
<1>8. phase'[o] = "absent" => phase[o] = "absent"
  BY <1>1 DEF Advances, Turn
<1>9. phase'[o] = "shipped" => \A l \in OfOrder(o) \cap asked' : fate'[l] # "open"
  BY <1>3 DEF ShipsRight
<1>10. phase'[o] = "refused" => \A l \in OfOrder(o) \cap asked' : fate'[l] # "open"
  <2> SUFFICES ASSUME phase'[o] = "refused", NEW l \in OfOrder(o) \cap asked',
                      fate'[l] = "open"
               PROVE  FALSE
    OBVIOUS
  <2>1. l \in Lines /\ OrderOf[l] = o
    BY DEF OfOrder
  <2>2. CASE verdict'[o] = "reject"
    <3>1. o \in risky'
      BY <1>7, <2>2
    <3> QED
      BY <2>1, <2>2, <3>1 DEF SoundLine
  <2>3. CASE \A k \in OfOrder(o) : fate'[k] = "dropped"
    BY <2>1, <2>3 DEF OfOrder
  <2>4. CASE phase[o] = "open"
    <3>1. l \notin asked
      BY <2>1, <2>4 DEF SoundLine, Over
    <3>2. OfferedOnce(l)
      BY DEF Step
    <3> QED
      BY <2>1, <3>1, <3>2 DEF OfferedOnce
  <2> QED
    BY <1>4, <2>2, <2>3, <2>4 DEF RefusedRight
<1> QED
  BY <1>2, <1>3, <1>6, <1>7, <1>8, <1>9, <1>10 DEF SoundOrder, ShipsRight, Cleared,
     OfOrder, Over

LEMMA LifecycleStep == Sound /\ [LifecycleNext]_lifecycle => Sound'
<1> SUFFICES ASSUME Sound, [LifecycleNext]_lifecycle PROVE Sound'
  OBVIOUS
<1>1. LifecycleType /\ (\A l \in Lines : SoundLine(l)) /\ \A o \in Orders : SoundOrder(o)
  BY DEF Sound
<1>2. CASE UNCHANGED lifecycle
  BY <1>2 DEF lifecycle, ofOrders, ofLines, Sound, SoundLine, SoundOrder,
     LifecycleType, OfOrder, Over
<1>3. CASE LifecycleNext
  <2>1. PICK o \in Orders : Step(o)
    BY <1>3 DEF LifecycleNext
  <2>2. LifecycleType'
    BY <1>3 DEF LifecycleNext
  <2>3. ASSUME NEW l \in Lines PROVE SoundLine(l)'
    <3>1. CASE OrderOf[l] = o
      BY <1>1, <2>1, <2>2, <3>1, OwnLine
    <3>2. CASE OrderOf[l] # o
      <4>1. SameLine(l) /\ Same(OrderOf[l])
        BY <2>1, <3>2, LifecycleAssumption DEF Step, OfOrder
      <4> QED
        BY <1>1, <4>1 DEF SameLine, Same, SoundLine
    <3> QED
      BY <3>1, <3>2
  <2>4. ASSUME NEW p \in Orders PROVE SoundOrder(p)'
    <3>1. CASE p = o
      BY <1>1, <2>1, <2>2, <2>3, <3>1, OwnOrder
    <3>2. CASE p # o
      <4>1. Same(p) /\ \A l \in OfOrder(p) : SameLine(l)
        BY <2>1, <3>2 DEF Step, OfOrder
      <4> QED
        BY <1>1, <4>1 DEF SameLine, Same, SoundOrder, OfOrder
    <3> QED
      BY <3>1, <3>2
  <2>5. (\A l \in Lines : SoundLine(l)') /\ (\A p \in Orders : SoundOrder(p)')
    BY <2>3, <2>4
  <2> QED
    BY <2>2, <2>5 DEF Sound
<1> QED
  BY <1>2, <1>3

LEMMA LifecycleInitially == LifecycleInit => Sound
BY DEF LifecycleInit, Sound, SoundLine, SoundOrder, LifecycleType, Phases,
   Verdicts, DealAnswers, Fates, OfOrder, Over

\* A shop that is sound, as the sample shop is when its page is opened, and takes
\* only steps of the lifecycle stays sound.
THEOREM StaysSound == Sound /\ [][LifecycleNext]_lifecycle => []Sound
BY LifecycleStep, PTL

\* Whoever keeps the promise of OrderLifecycle replaces with consent, drops what
\* was turned down, and gets nowhere with a risky order nobody approved.
THEOREM LifecycleSound == Lifecycle => []Sound
BY LifecycleInitially, StaysSound, PTL DEF Lifecycle

-----------------------------------------------------------------------------
Labels == {"Simulate accept", "Simulate reject", "Approve order", "Reject order"}
Asks == [order : Orders, label : Labels, kind : {"audit"}, decision : {"approve", "reject"}]
        \cup [order : Orders, label : Labels, kind : {"reply"}, decision : {"accept", "reject"}]

\* A request says what its button said, or is too late to say anything.
Harmless(r) ==
    /\ r \in Asks
    /\ \/ <<r.kind, r.decision>> = Meaning(r.label)
       \/ r.kind = "audit" /\ r.decision = "reject" /\ verdict[r.order] = "approve"

Recorded(r) ==
    Meaning(r.label) = IF r.kind = "audit" THEN <<"audit", verdict[r.order]>>
                                           ELSE <<"reply", answer[r.order]>>

RequestsOK ==
    /\ \A r \in wire : Harmless(r)
    /\ command.stage \in {"sent", "answered"} => Harmless(command.request)
    /\ command.stage = "answered" =>
          command.ok \in BOOLEAN /\ (command.ok => Recorded(command.request))

Reading == [stage : {"read"}, seen : [Orders -> Phases], overtaken : BOOLEAN]
Busy(f) == fetch[f] # Idle

\* What is on its way is no newer than the shop, and of a risky order if it says
\* that it is in review.
FetchOK ==
    /\ fetch \in [Fetches -> {Idle} \cup Reading]
    /\ polling \in BOOLEAN /\ (polling <=> \E f \in Polls : Busy(f))
    /\ \A f, g \in Polls : Busy(f) /\ Busy(g) => f = g
    /\ \A f \in Fetches : Busy(f) => \A o \in Orders :
          /\ Rank(fetch[f].seen[o]) <= Rank(phase[o])
          /\ fetch[f].seen[o] = "review" => o \in risky /\ phase[o] # "absent"

ViewOK ==
    /\ live \in [Orders -> [phase : Phases, offer : BOOLEAN]]
    /\ mode \in {"demo", "live"} /\ (mode = "demo" => live = Nothing)
    /\ \A o \in Orders :
          /\ Rank(live[o].phase) <= Rank(phase[o])
          /\ live[o].phase = "review" /\ live[o].offer => verdict[o] = "approve"
    /\ \A f \in Polls : Busy(f) /\ ~fetch[f].overtaken =>
          \A o \in Orders : Rank(live[o].phase) <= Rank(fetch[f].seen[o])

RestOK ==
    /\ host \in Hosts /\ (mode = "live" => host = "fastapi")
    /\ dialog \in {"none", "connect"} \cup Orders
    /\ IsFiniteSet(wire) /\ Cardinality(wire) <= MaxWire

\* Inductive, and stronger than everything the page promises.
DashboardInv == Sound /\ RequestsOK /\ FetchOK /\ ViewOK /\ RestOK

-----------------------------------------------------------------------------
(* The shop behind the page keeps the promise, and never goes back on it. *)

LEMMA OneLine == \A o \in Orders : o \in Lines /\ OrderOf[o] = o /\ OfOrder(o) = {o}
BY DashboardAssumption DEF OfOrder

LEMMA SoundHere ==
    ASSUME Sound, NEW o \in Orders
    PROVE  /\ phase[o] \in Phases /\ verdict[o] \in Verdicts
           /\ answer[o] \in DealAnswers /\ fate[o] \in Fates
           /\ SoundLine(o) /\ SoundOrder(o) /\ OrderOf[o] = o
           /\ o \in asked /\ o \in risky => verdict[o] = "approve"
           /\ Offered(o) => phase[o] = "asking"
BY OneLine DEF Sound, LifecycleType, SoundLine, SoundOrder, Offered

LEMMA AuditStep ==
    ASSUME Sound, NEW o \in Orders, NEW d \in {"approve", "reject"}, NEW ok \in BOOLEAN,
           Audit(o, d, ok), UNCHANGED <<answer, phase, risky, withdrawn, asked, fate>>
    PROVE  /\ [LifecycleNext]_lifecycle
           /\ ok => verdict'[o] = d
           /\ verdict[o] = "approve" /\ d = "reject" => ~ok /\ UNCHANGED verdict
<1>0. phase[o] \in Phases /\ SoundOrder(o) /\ LifecycleType
  BY SoundHere DEF Sound
<1>1. CASE UNCHANGED verdict
  <2>1. UNCHANGED lifecycle
    BY <1>1 DEF lifecycle, ofOrders, ofLines
  <2>2. verdict' # [verdict EXCEPT ![o] = d] \/ verdict[o] = d
    BY <1>0, <1>1 DEF LifecycleType
  <2>3. verdict[o] = d <=> ok
    BY <1>1, <2>2 DEF Audit
  <2> QED
    BY <1>1, <2>1, <2>3
<1>2. CASE ~UNCHANGED verdict
  <2>1. /\ ok /\ verdict[o] = "none" /\ phase[o] = "review"
        /\ verdict' = [verdict EXCEPT ![o] = d]
    BY <1>2 DEF Audit
  <2>2. LifecycleType'
    BY <1>0, <2>1 DEF LifecycleType, Verdicts
  <2>3. Advances(o)
    BY <1>0, <2>1 DEF Advances, AuditorSpeaksOnce, SoundOrder
  <2>4. \A l \in OfOrder(o) : OfferedOnce(l) /\ AnsweredOnce(l) /\ Consent(l)
    BY DEF OfferedOnce, AnsweredOnce, Consent
  <2>5. (\A p \in Orders \ {o} : Same(p)) /\ \A l \in Lines : SameLine(l)
    BY <1>0, <2>1 DEF Same, SameLine, LifecycleType
  <2>6. phase[o] \notin Over
    BY <2>1 DEF Over
  <2>7. Step(o)
    BY <2>3, <2>4, <2>5, <2>6 DEF Step
  <2>8. verdict'[o] = d
    BY <1>0, <2>1 DEF LifecycleType
  <2> QED
    BY <2>1, <2>2, <2>7, <2>8 DEF LifecycleNext
<1> QED
  BY <1>1, <1>2

LEMMA ReplyStep ==
    ASSUME Sound, NEW o \in Orders, NEW d \in {"accept", "reject"}, NEW ok \in BOOLEAN,
           Reply(o, d, ok), UNCHANGED <<verdict, phase, risky, withdrawn, asked, fate>>
    PROVE  [LifecycleNext]_lifecycle /\ (ok => answer'[o] = d)
<1>0. /\ LifecycleType /\ SoundOrder(o) /\ o \in Lines /\ OfOrder(o) = {o}
      /\ Offered(o) => phase[o] = "asking"
  BY SoundHere, OneLine DEF Sound
<1>1. CASE UNCHANGED answer
  <2>1. UNCHANGED lifecycle
    BY <1>1 DEF lifecycle, ofOrders, ofLines
  <2>2. answer' # [answer EXCEPT ![o] = d] \/ answer[o] = d
    BY <1>0, <1>1 DEF LifecycleType
  <2>3. ok => answer[o] = d
    BY <2>2 DEF Reply
  <2> QED
    BY <1>1, <2>1, <2>3
<1>2. CASE ~UNCHANGED answer
  <2>1. /\ ok /\ Offered(o) /\ answer[o] = "none"
        /\ answer' = [answer EXCEPT ![o] = d]
    BY <1>2 DEF Reply
  <2>2. LifecycleType' /\ answer'[o] = d
    BY <1>0, <2>1 DEF LifecycleType, DealAnswers
  <2>3. Advances(o) /\ phase[o] \notin Over
    BY <1>0, <2>1 DEF Advances, AuditorSpeaksOnce, Over
  <2>4. OfferedOnce(o) /\ AnsweredOnce(o) /\ Consent(o)
    BY <2>1 DEF OfferedOnce, AnsweredOnce, Consent, Offered
  <2>5. (\A p \in Orders \ {o} : Same(p)) /\ \A l \in Lines \ {o} : SameLine(l)
    BY <1>0, <2>1 DEF Same, SameLine, LifecycleType
  <2>6. Step(o)
    BY <1>0, <2>3, <2>4, <2>5 DEF Step
  <2> QED
    BY <2>2, <2>6 DEF LifecycleNext
<1> QED
  BY <1>1, <1>2

LEMMA HandleStep ==
    ASSUME Sound, NEW r, Harmless(r), NEW ok \in BOOLEAN, Handle(r, ok)
    PROVE  /\ [LifecycleNext]_lifecycle
           /\ r.kind = "audit" /\ ok => verdict'[r.order] = r.decision
           /\ r.kind = "reply" /\ ok => answer'[r.order] = r.decision
           /\ \/ <<r.kind, r.decision>> = Meaning(r.label)
              \/ ~ok /\ UNCHANGED <<verdict, answer>>
<1>1. CASE r.kind = "audit"
  <2>1. r.order \in Orders /\ r.decision \in {"approve", "reject"}
    BY <1>1 DEF Harmless, Asks
  <2>2. Audit(r.order, r.decision, ok)
        /\ UNCHANGED <<answer, phase, risky, withdrawn, asked, fate>>
    BY <1>1 DEF Handle
  <2> QED
    BY <1>1, <2>1, <2>2, AuditStep DEF Harmless
<1>2. CASE r.kind = "reply"
  <2>1. r.order \in Orders /\ r.decision \in {"accept", "reject"}
    BY <1>2 DEF Harmless, Asks
  <2>2. Reply(r.order, r.decision, ok)
        /\ UNCHANGED <<verdict, phase, risky, withdrawn, asked, fate>>
    BY <1>2 DEF Handle
  <2> QED
    BY <1>2, <2>1, <2>2, ReplyStep DEF Harmless
<1> QED
  BY <1>1, <1>2 DEF Handle

LEMMA RankTurn ==
    ASSUME NEW p \in Phases, NEW q \in Phases, p = q \/ <<p, q>> \in Turn
    PROVE  /\ Rank(p) \in 0..4 /\ Rank(q) \in 0..4 /\ Rank(p) <= Rank(q)
           /\ p # "absent" => q # "absent"
BY DEF Rank, Turn, Phases, Over

LEMMA RankRange == \A p \in Phases : Rank(p) \in 0..4
BY RankTurn

\* An order only ever moves on, and what was said of it stays said.
MovedOn(o) ==
    /\ Rank(phase[o]) \in 0..4 /\ Rank(phase'[o]) \in 0..4
    /\ Rank(phase[o]) <= Rank(phase'[o])
    /\ phase[o] # "absent" => phase'[o] # "absent" /\ (o \in risky => o \in risky')
    /\ verdict[o] # "none" => verdict'[o] = verdict[o]
    /\ answer[o] # "none" => answer'[o] = answer[o]

LEMMA ServerStep ==
    ASSUME Sound, [LifecycleNext]_lifecycle
    PROVE  Sound' /\ \A o \in Orders : MovedOn(o)
<1>1. Sound'
  BY LifecycleStep
<1>2. ASSUME NEW o \in Orders PROVE MovedOn(o)
  <2>1. phase[o] \in Phases /\ phase'[o] \in Phases
    BY <1>1 DEF Sound, LifecycleType
  <2>2. CASE UNCHANGED lifecycle
    BY <2>1, <2>2, RankTurn DEF lifecycle, ofOrders, ofLines, MovedOn
  <2>3. CASE LifecycleNext
    <3>1. PICK p \in Orders : Step(p)
      BY <2>3 DEF LifecycleNext
    <3>2. CASE p = o
      <4>1. Advances(o) /\ AnsweredOnce(o)
        BY <3>1, <3>2, OneLine DEF Step
      <4>2. phase'[o] = phase[o] \/ <<phase[o], phase'[o]>> \in Turn
        BY <4>1 DEF Advances
      <4> QED
        BY <2>1, <4>1, <4>2, RankTurn DEF Advances, AnsweredOnce, AuditorSpeaksOnce, MovedOn
    <3>3. CASE p # o
      <4>1. Same(o) /\ SameLine(o)
        BY <3>1, <3>3, OneLine DEF Step
      <4> QED
        BY <2>1, <4>1, RankTurn DEF Same, SameLine, MovedOn
    <3> QED
      BY <3>2, <3>3
  <2> QED
    BY <2>2, <2>3
<1> QED
  BY <1>1, <1>2

LEMMA HarmlessLater ==
    ASSUME \A o \in Orders : MovedOn(o), NEW r, Harmless(r)
    PROVE  Harmless(r)' /\ (Recorded(r) => Recorded(r)')
<1>1. r.order \in Orders /\ MovedOn(r.order)
  BY DEF Harmless, Asks
<1>2. r.label \in Labels
  BY DEF Harmless, Asks
<1>3. Harmless(r)'
  BY <1>1 DEF Harmless, MovedOn, Meaning
<1>4. ASSUME Recorded(r) PROVE Recorded(r)'
  <2>1. Meaning(r.label) \in {<<"reply", "accept">>, <<"reply", "reject">>,
                              <<"audit", "approve">>, <<"audit", "reject">>}
    BY <1>2 DEF Meaning, Labels
  <2>2. CASE r.kind = "audit"
    <3>1. Meaning(r.label) = <<"audit", verdict[r.order]>>
      BY <1>4, <2>2 DEF Recorded
    <3>2. verdict'[r.order] = verdict[r.order]
      BY <1>1, <2>1, <3>1 DEF MovedOn
    <3> QED
      BY <2>2, <3>1, <3>2 DEF Recorded, Meaning
  <2>3. CASE r.kind # "audit"
    <3>1. Meaning(r.label) = <<"reply", answer[r.order]>>
      BY <1>4, <2>3 DEF Recorded
    <3>2. answer'[r.order] = answer[r.order]
      BY <1>1, <2>1, <3>1 DEF MovedOn
    <3> QED
      BY <2>3, <3>1, <3>2 DEF Recorded, Meaning
  <2> QED
    BY <2>2, <2>3
<1> QED
  BY <1>3, <1>4

\* Whatever the shop does, what the page knows and has asked for stays true.
LEMMA PageLater ==
    ASSUME DashboardInv, [LifecycleNext]_lifecycle,
           UNCHANGED <<host, mode, live, dialog, polling, fetch>>, wire' \subseteq wire
    PROVE  /\ Sound' /\ FetchOK' /\ ViewOK' /\ RestOK'
           /\ \A r \in wire' : Harmless(r)'
           /\ \A r : Harmless(r) => Harmless(r)' /\ (Recorded(r) => Recorded(r)')
<1>1. Sound' /\ \A o \in Orders : MovedOn(o)
  BY ServerStep DEF DashboardInv
<1>2. \A r : Harmless(r) => Harmless(r)' /\ (Recorded(r) => Recorded(r)')
  BY <1>1, HarmlessLater
<1>3. \A r \in wire' : Harmless(r)'
  BY <1>2 DEF DashboardInv, RequestsOK
<1>4. FetchOK'
  <2>1. ASSUME NEW f \in Fetches, Busy(f), NEW o \in Orders
        PROVE  /\ Rank(fetch[f].seen[o]) <= Rank(phase'[o])
               /\ fetch[f].seen[o] = "review" => o \in risky' /\ phase'[o] # "absent"
    <3>1. fetch[f] \in Reading
      BY <2>1 DEF DashboardInv, FetchOK, Busy
    <3>2. fetch[f].seen[o] \in Phases
      BY <3>1 DEF Reading
    <3>3. Rank(fetch[f].seen[o]) \in 0..4 /\ MovedOn(o)
      BY <1>1, <3>2, RankRange
    <3>4. /\ Rank(fetch[f].seen[o]) <= Rank(phase[o])
          /\ fetch[f].seen[o] = "review" => o \in risky /\ phase[o] # "absent"
      BY <2>1 DEF DashboardInv, FetchOK
    <3> QED
      BY <3>3, <3>4 DEF MovedOn
  <2> QED
    BY <2>1 DEF DashboardInv, FetchOK, Busy
<1>5. ViewOK'
  <2>1. ASSUME NEW o \in Orders
        PROVE  /\ Rank(live[o].phase) <= Rank(phase'[o])
               /\ live[o].phase = "review" /\ live[o].offer => verdict'[o] = "approve"
    <3>1. live[o].phase \in Phases
      BY DEF DashboardInv, ViewOK
    <3>2. Rank(live[o].phase) \in 0..4 /\ MovedOn(o)
      BY <1>1, <3>1, RankRange
    <3>3. /\ Rank(live[o].phase) <= Rank(phase[o])
          /\ live[o].phase = "review" /\ live[o].offer => verdict[o] = "approve"
      BY DEF DashboardInv, ViewOK
    <3> QED
      BY <3>2, <3>3 DEF MovedOn
  <2> QED
    BY <2>1 DEF DashboardInv, ViewOK, Busy
<1>6. RestOK'
  <2>1. IsFiniteSet(wire') /\ Cardinality(wire') <= MaxWire
    BY FS_Subset, FS_CardinalityType, DashboardAssumption DEF DashboardInv, RestOK
  <2> QED
    BY <2>1 DEF DashboardInv, RestOK
<1> QED
  BY <1>1, <1>2, <1>3, <1>4, <1>5, <1>6

LEMMA WorkKeeps == ASSUME DashboardInv, NEW o \in Orders, Work(o) PROVE DashboardInv'
<1>1. [LifecycleNext]_lifecycle
  <2>1. LifecycleType'
    BY DashboardAssumption DEF Work, DashboardInv, Sound, LifecycleType, DealAnswers
  <2> QED
    BY <2>1 DEF Work, LifecycleNext
<1>2. UNCHANGED <<host, mode, live, dialog, polling, fetch, command, wire>>
  BY DEF Work, browser
<1> QED
  BY <1>1, <1>2, PageLater DEF DashboardInv, RequestsOK

\* A cancellation is a turn of the lifecycle: the order was open and is refused.
LEMMA WithdrawStep ==
    ASSUME Sound, NEW o \in Orders, Withdraw(o) PROVE [LifecycleNext]_lifecycle
<1>1. phase \in [Orders -> Phases] /\ withdrawn \subseteq Orders
  BY DEF Sound, LifecycleType
<1>2. LifecycleType'
  BY <1>1 DEF Withdraw, Sound, LifecycleType, Phases, ofLines
<1>3. Advances(o)
  BY <1>1 DEF Withdraw, Advances, AuditorSpeaksOnce, RefusedRight, Turn
<1>4. \A l \in Lines : OfferedOnce(l) /\ AnsweredOnce(l) /\ Consent(l) /\ SameLine(l)
  BY DEF Withdraw, ofLines, OfferedOnce, AnsweredOnce, Consent, SameLine
<1>5. \A p \in Orders \ {o} : Same(p)
  BY <1>1 DEF Withdraw, Same
<1> QED
  BY <1>2, <1>3, <1>4, <1>5 DEF LifecycleNext, Step, OfOrder, Over, Withdraw

LEMMA WithdrawKeeps == ASSUME DashboardInv, NEW o \in Orders, Withdraw(o) PROVE DashboardInv'
<1>1. [LifecycleNext]_lifecycle
  BY WithdrawStep DEF DashboardInv
<1>2. UNCHANGED <<host, mode, live, dialog, polling, fetch, command, wire>>
  BY DEF Withdraw, browser
<1> QED
  BY <1>1, <1>2, PageLater DEF DashboardInv, RequestsOK

LEMMA DecidedElsewhereKeeps ==
    ASSUME DashboardInv, NEW o \in Orders, DecidedElsewhere(o) PROVE DashboardInv'
<1>1. [LifecycleNext]_lifecycle
  BY AuditStep, ReplyStep DEF DecidedElsewhere, DashboardInv
<1>2. UNCHANGED <<host, mode, live, dialog, polling, fetch, command, wire>>
  BY DEF DecidedElsewhere, browser
<1> QED
  BY <1>1, <1>2, PageLater DEF DashboardInv, RequestsOK

LEMMA LateArrivalKeeps ==
    ASSUME DashboardInv, NEW r \in wire, LateArrival(r) PROVE DashboardInv'
<1>1. [LifecycleNext]_lifecycle
  BY HandleStep DEF LateArrival, server, DashboardInv, RequestsOK
<1>2. UNCHANGED <<host, mode, live, dialog, polling, fetch, command>> /\ wire' \subseteq wire
  BY DEF LateArrival, browser
<1> QED
  BY <1>1, <1>2, PageLater DEF DashboardInv, RequestsOK

\* The torn row's request is harmless: it is refused, and any other that is
\* accepted is recorded as its button says.
LEMMA ArrivesKeeps == ASSUME DashboardInv, Arrives PROVE DashboardInv'
<1>1. PICK ok \in BOOLEAN, r \in {command.request} :
         /\ Handle(r, ok)
         /\ command' = [stage |-> "answered", ok |-> ok, request |-> r]
  BY DEF Arrives
<1>2. Harmless(r) /\ Sound
  BY DEF Arrives, DashboardInv, RequestsOK
<1>3. [LifecycleNext]_lifecycle /\ (ok => Recorded(r)')
  <2>1. r.kind \in {"audit", "reply"}
    BY <1>2 DEF Harmless, Asks
  <2>2. /\ [LifecycleNext]_lifecycle
        /\ ok => /\ <<r.kind, r.decision>> = Meaning(r.label)
                 /\ r.kind = "audit" => verdict'[r.order] = r.decision
                 /\ r.kind = "reply" => answer'[r.order] = r.decision
    BY <1>1, <1>2, HandleStep
  <2> QED
    BY <2>1, <2>2 DEF Recorded, Meaning
<1>4. UNCHANGED <<host, mode, live, dialog, polling, fetch, wire>>
  BY DEF Arrives
<1>5. Harmless(r)'
  BY <1>2, <1>3, <1>4, PageLater
<1>6. RequestsOK'
  BY <1>1, <1>3, <1>4, <1>5, PageLater DEF RequestsOK
<1> QED
  BY <1>3, <1>4, <1>6, PageLater DEF DashboardInv

-----------------------------------------------------------------------------
(* What the page does by itself. *)

LEMMA AskedNow ==
    ASSUME Sound
    PROVE  /\ Asked \in Reading /\ Asked # Idle /\ ~Asked.overtaken /\ Idle \notin Reading
           /\ \A o \in Orders : /\ Asked.seen[o] = phase[o] /\ phase[o] \in Phases
                                /\ phase[o] = "review" => o \in risky
BY DEF Sound, LifecycleType, SoundOrder, Asked, Reading, Idle

\* Nobody but the page moves.
Alone == UNCHANGED <<server, host>>

LEMMA AloneSound ==
    ASSUME DashboardInv, Alone
    PROVE  Sound' /\ \A r : (Harmless(r)' <=> Harmless(r)) /\ (Recorded(r)' <=> Recorded(r))
<1>1. Sound'
  BY LifecycleStep DEF Alone, server, DashboardInv
<1>2. UNCHANGED <<verdict, answer>>
  BY DEF Alone, server, lifecycle, ofOrders, ofLines
<1> QED
  BY <1>1, <1>2 DEF Harmless, Recorded

\* A command that is not of a click, or the same as before, asks for nothing.
LEMMA QuietKeeps ==
    ASSUME DashboardInv, Alone, wire' \subseteq wire,
           UNCHANGED command \/ command'.stage \notin {"sent", "answered"}
    PROVE  RequestsOK'
BY AloneSound DEF DashboardInv, RequestsOK

LEMMA WireKeeps ==
    ASSUME DashboardInv, Alone, UNCHANGED <<mode, dialog>>, UNCHANGED wire
    PROVE  RestOK'
BY DEF DashboardInv, RestOK, Alone

\* A call that starts reads the shop as it is.
LEMMA StartKeeps ==
    ASSUME DashboardInv, Alone, NEW f \in Fetches, fetch[f] = Idle,
           fetch' = [fetch EXCEPT ![f] = Asked], UNCHANGED <<mode, live>>,
           \/ f \in Polls /\ ~polling /\ polling' = TRUE
           \/ f = Connection /\ UNCHANGED polling
    PROVE  FetchOK' /\ ViewOK'
<1>1. UNCHANGED <<phase, risky, verdict>>
  BY DEF Alone, server, lifecycle, ofOrders, ofLines
<1>2. /\ fetch'[f] = Asked
      /\ \A g \in Fetches \ {f} : fetch'[g] = fetch[g]
      /\ fetch' \in [Fetches -> {Idle} \cup Reading]
  BY AskedNow DEF DashboardInv, FetchOK
<1>3. Busy(f)' /\ \A g \in Fetches \ {f} : Busy(g)' <=> Busy(g)
  BY <1>2, AskedNow DEF DashboardInv, Busy
<1>4. Connection \notin Polls /\ Polls \subseteq Fetches
  BY DashboardAssumption DEF Connection, Fetches
<1>5. /\ polling' \in BOOLEAN /\ (polling' <=> \E g \in Polls : Busy(g)')
      /\ \A g, h \in Polls : Busy(g)' /\ Busy(h)' => g = h
  <2>1. CASE f \in Polls /\ ~polling /\ polling' = TRUE
    <3>1. \A g \in Polls : ~Busy(g)
      BY <2>1 DEF DashboardInv, FetchOK
    <3>2. \A g \in Polls : Busy(g)' <=> g = f
      BY <1>3, <1>4, <2>1, <3>1
    <3> QED
      BY <2>1, <3>2
  <2>2. CASE f = Connection /\ UNCHANGED polling
    <3>1. \A g \in Polls : Busy(g)' <=> Busy(g)
      BY <1>3, <1>4, <2>2
    <3>2. /\ polling \in BOOLEAN /\ (polling <=> \E g \in Polls : Busy(g))
          /\ \A g, h \in Polls : Busy(g) /\ Busy(h) => g = h
      BY DEF DashboardInv, FetchOK
    <3>3. \A g, h \in Polls : Busy(g)' /\ Busy(h)' => g = h
      BY <3>1, <3>2
    <3>4. (\E g \in Polls : Busy(g)') <=> \E g \in Polls : Busy(g)
      BY <3>1
    <3> QED
      BY <2>2, <3>2, <3>3, <3>4
  <2> QED
    BY <2>1, <2>2
<1>6. ASSUME NEW g \in Fetches, Busy(g)', NEW o \in Orders
      PROVE  /\ Rank(fetch'[g].seen[o]) <= Rank(phase[o])
             /\ fetch'[g].seen[o] = "review" => o \in risky /\ phase[o] # "absent"
  <2>1. CASE g = f
    <3>1. fetch'[g].seen[o] = phase[o] /\ phase[o] \in Phases
      BY <1>2, <2>1, AskedNow DEF DashboardInv
    <3>2. Rank(phase[o]) <= Rank(phase[o])
      BY <3>1, RankRange
    <3> QED
      BY <3>1, <3>2, AskedNow DEF DashboardInv
  <2>2. CASE g # f
    BY <1>2, <1>3, <1>6, <2>2 DEF DashboardInv, FetchOK
  <2> QED
    BY <2>1, <2>2
<1>7. ASSUME NEW g \in Polls, Busy(g)', ~fetch'[g].overtaken, NEW o \in Orders
      PROVE  Rank(live[o].phase) <= Rank(fetch'[g].seen[o])
  <2>1. CASE g = f
    <3>1. fetch'[g].seen[o] = phase[o]
      BY <1>2, <2>1, AskedNow DEF DashboardInv
    <3> QED
      BY <3>1 DEF DashboardInv, ViewOK
  <2>2. CASE g # f
    BY <1>2, <1>3, <1>4, <1>7, <2>2 DEF DashboardInv, ViewOK
  <2> QED
    BY <2>1, <2>2
<1>8. FetchOK'
  BY <1>1, <1>2, <1>5, <1>6 DEF FetchOK
<1>9. ViewOK'
  BY <1>1, <1>7 DEF DashboardInv, ViewOK
<1> QED
  BY <1>8, <1>9

\* Fetches that end leave the others as they are.
LEMMA EndKeeps ==
    ASSUME DashboardInv, Alone, NEW F \in SUBSET Fetches,
           fetch' = [f \in Fetches |-> IF f \in F THEN Idle ELSE fetch[f]],
           polling' \in BOOLEAN,
           polling' <=> \E f \in Polls \ F : Busy(f)
    PROVE  FetchOK' /\ \A f \in Fetches : /\ Busy(f)' <=> f \notin F /\ Busy(f)
                                          /\ Busy(f)' => fetch'[f] = fetch[f]
<1>1. UNCHANGED <<phase, risky>>
  BY DEF Alone, server, lifecycle, ofOrders, ofLines
<1>2. /\ fetch' \in [Fetches -> {Idle} \cup Reading]
      /\ \A f \in Fetches : fetch'[f] = IF f \in F THEN Idle ELSE fetch[f]
  BY DEF DashboardInv, FetchOK
<1>3. \A f \in Fetches : /\ Busy(f)' <=> f \notin F /\ Busy(f)
                         /\ Busy(f)' => fetch'[f] = fetch[f]
  BY <1>2 DEF Busy
<1>4. Polls \subseteq Fetches
  BY DEF Fetches
<1>5. polling' <=> \E f \in Polls : Busy(f)'
  BY <1>3, <1>4
<1>6. \A f, g \in Polls : Busy(f)' /\ Busy(g)' => f = g
  BY <1>3, <1>4 DEF DashboardInv, FetchOK
<1>7. \A f \in Fetches : Busy(f)' => \A o \in Orders :
          /\ Rank(fetch'[f].seen[o]) <= Rank(phase'[o])
          /\ fetch'[f].seen[o] = "review" => o \in risky' /\ phase'[o] # "absent"
  BY <1>1, <1>3 DEF DashboardInv, FetchOK
<1> QED
  BY <1>2, <1>3, <1>5, <1>6, <1>7 DEF FetchOK

\* A poll that ends is the only one.
LEMMA PollEnds ==
    ASSUME DashboardInv, Alone, NEW f \in Polls, fetch[f] # Idle,
           fetch' = [fetch EXCEPT ![f] = Idle], polling' = FALSE
    PROVE  FetchOK' /\ \A g \in Polls : ~Busy(g)'
<1>1. f \in Fetches /\ Polls \subseteq Fetches
  BY DEF Fetches
<1>2. fetch' = [g \in Fetches |-> IF g \in {f} THEN Idle ELSE fetch[g]]
  BY <1>1 DEF DashboardInv, FetchOK
<1>3. \A g \in Polls \ {f} : ~Busy(g)
  BY DEF DashboardInv, FetchOK, Busy
<1> QED
  BY <1>1, <1>2, <1>3, EndKeeps

\* A snapshot of a call that is on its way is no newer than the shop, and torn only
\* where the auditor has approved.
LEMMA SnapshotOK ==
    ASSUME DashboardInv, NEW f \in Fetches, Busy(f)
    PROVE  /\ Snapshot(f) \in [Orders -> [phase : Phases, offer : BOOLEAN]]
           /\ \A o \in Orders :
                 /\ Snapshot(f)[o].phase = fetch[f].seen[o]
                 /\ Rank(Snapshot(f)[o].phase) <= Rank(phase[o])
                 /\ Snapshot(f)[o].phase = "review" /\ Snapshot(f)[o].offer =>
                       verdict[o] = "approve"
<1>1. fetch[f] \in Reading
  BY DEF DashboardInv, FetchOK, Busy
<1>2. fetch[f].seen \in [Orders -> Phases]
  BY <1>1 DEF Reading
<1>3. ASSUME NEW o \in Orders
      PROVE  /\ Rank(fetch[f].seen[o]) <= Rank(phase[o])
             /\ fetch[f].seen[o] = "review" /\ Offered(o) => verdict[o] = "approve"
  BY SoundHere DEF DashboardInv, FetchOK, Offered
<1>4. \A o \in Orders : Offered(o) \in BOOLEAN
  BY DEF Offered
<1> QED
  BY <1>2, <1>3, <1>4 DEF Snapshot

LEMMA PollKeeps == ASSUME DashboardInv, NEW f \in Polls, Poll(f) PROVE DashboardInv'
<1>1. /\ Alone /\ fetch[f] = Idle /\ fetch' = [fetch EXCEPT ![f] = Asked] /\ f \in Fetches
      /\ ~polling /\ polling' = TRUE /\ UNCHANGED <<mode, live, dialog, command, wire>>
  BY DEF Poll, MayPoll, NextPoll, Alone, Fetches
<1> QED
  BY <1>1, AloneSound, QuietKeeps, StartKeeps, WireKeeps DEF DashboardInv

LEMMA ConnectKeeps == ASSUME DashboardInv, Connect PROVE DashboardInv'
<1>1. /\ Alone /\ fetch[Connection] = Idle /\ fetch' = [fetch EXCEPT ![Connection] = Asked]
      /\ Connection \in Fetches /\ UNCHANGED <<mode, live, dialog, polling, command, wire>>
  BY DEF Connect, Alone, Fetches
<1> QED
  BY <1>1, AloneSound, QuietKeeps, StartKeeps, WireKeeps DEF DashboardInv

\* A refresh leaves the dialog open or closes it.
LEMMA AfterRefreshKeeps ==
    ASSUME DashboardInv, Alone, NEW f \in Polls, AfterRefresh(f), UNCHANGED <<mode, wire>>
    PROVE  RequestsOK' /\ RestOK'
<1>1. UNCHANGED command \/ command'.stage \notin {"sent", "answered"}
  BY DEF AfterRefresh, Idle
<1>2. dialog' \in {"none", "connect"} \cup Orders
  BY DEF AfterRefresh, DashboardInv, RestOK
<1>3. RestOK'
  BY <1>2 DEF DashboardInv, RestOK, Alone
<1> QED
  BY <1>1, <1>3, QuietKeeps

LEMMA PolledKeeps == ASSUME DashboardInv, NEW f \in Polls, Polled(f) PROVE DashboardInv'
<1>1. /\ Alone /\ fetch[f] # Idle /\ fetch' = [fetch EXCEPT ![f] = Idle]
      /\ polling' = FALSE /\ UNCHANGED <<mode, wire>> /\ AfterRefresh(f)
      /\ live' = IF mode = "live" THEN Snapshot(f) ELSE live
  BY DEF Polled, Alone
<1>2. FetchOK' /\ \A g \in Polls : ~Busy(g)'
  BY <1>1, PollEnds
<1>3. UNCHANGED <<phase, verdict>>
  BY <1>1 DEF Alone, server, lifecycle, ofOrders, ofLines
<1>4. f \in Fetches /\ Busy(f)
  BY <1>1 DEF Fetches, Busy
<1>5. ViewOK'
  <2>1. CASE mode = "live"
    BY <1>1, <1>2, <1>3, <1>4, <2>1, SnapshotOK DEF ViewOK
  <2>2. CASE mode # "live"
    BY <1>1, <1>2, <1>3, <2>2 DEF DashboardInv, ViewOK
  <2> QED
    BY <2>1, <2>2
<1> QED
  BY <1>1, <1>2, <1>5, AloneSound, AfterRefreshKeeps DEF DashboardInv

LEMMA PollFailsKeeps ==
    ASSUME DashboardInv, NEW f \in Polls, PollFails(f) PROVE DashboardInv'
<1>1. /\ Alone /\ fetch[f] # Idle /\ fetch' = [fetch EXCEPT ![f] = Idle]
      /\ polling' = FALSE /\ UNCHANGED <<mode, live, wire>> /\ AfterRefresh(f)
  BY DEF PollFails, Alone
<1>2. FetchOK' /\ \A g \in Polls : ~Busy(g)'
  BY <1>1, PollEnds
<1>3. UNCHANGED <<phase, verdict>>
  BY <1>1 DEF Alone, server, lifecycle, ofOrders, ofLines
<1>4. ViewOK'
  BY <1>1, <1>2, <1>3 DEF DashboardInv, ViewOK
<1> QED
  BY <1>1, <1>2, <1>4, AloneSound, AfterRefreshKeeps DEF DashboardInv

LEMMA ConnectFailsKeeps == ASSUME DashboardInv, ConnectFails PROVE DashboardInv'
<1>1. /\ Alone /\ UNCHANGED <<mode, live, dialog, polling, command, wire>>
      /\ fetch' = [fetch EXCEPT ![Connection] = Idle]
  BY DEF ConnectFails, Alone
<1>2. fetch' = [f \in Fetches |-> IF f \in {Connection} THEN Idle ELSE fetch[f]]
  BY <1>1 DEF DashboardInv, FetchOK
<1>3. Connection \notin Polls /\ Connection \in Fetches /\ Polls \subseteq Fetches
  BY DashboardAssumption DEF Connection, Fetches
<1>4. Polls \ {Connection} = Polls /\ polling' \in BOOLEAN
      /\ (polling' <=> \E f \in Polls : Busy(f))
  BY <1>1, <1>3 DEF DashboardInv, FetchOK
<1>5. FetchOK' /\ \A f \in Fetches : Busy(f)' => Busy(f) /\ fetch'[f] = fetch[f]
  BY <1>1, <1>2, <1>3, <1>4, EndKeeps
<1>6. UNCHANGED <<phase, verdict>>
  BY <1>1 DEF Alone, server, lifecycle, ofOrders, ofLines
<1>7. ViewOK'
  BY <1>1, <1>3, <1>5, <1>6 DEF DashboardInv, ViewOK
<1> QED
  BY <1>1, <1>5, <1>7, AloneSound, QuietKeeps, WireKeeps DEF DashboardInv

\* A page that connects marks the poll that was on its way.
LEMMA ConnectedKeeps == ASSUME DashboardInv, Connected PROVE DashboardInv'
<1>1. /\ Alone /\ Busy(Connection) /\ HasApi /\ mode' = "live" /\ dialog' = "none"
      /\ live' = Snapshot(Connection) /\ UNCHANGED <<polling, command, wire>>
  BY DEF Connected, Alone, Busy
<1>2. UNCHANGED <<phase, risky, verdict>>
  BY <1>1 DEF Alone, server, lifecycle, ofOrders, ofLines
<1>3. Connection \notin Polls /\ Connection \in Fetches /\ Polls \subseteq Fetches
  BY DashboardAssumption DEF Connection, Fetches
<1>4. ASSUME NEW f \in Fetches
      PROVE  /\ fetch'[f] \in {Idle} \cup Reading
             /\ Busy(f)' <=> f # Connection /\ Busy(f)
             /\ Busy(f)' => fetch'[f].seen = fetch[f].seen /\ fetch'[f].overtaken
  <2>1. fetch[f] \in {Idle} \cup Reading
    BY DEF DashboardInv, FetchOK
  <2>2. fetch'[f] = CASE f = Connection -> Idle
                      [] fetch[f] = Idle -> Idle
                      [] OTHER -> [fetch[f] EXCEPT !.overtaken = TRUE]
    BY DEF Connected
  <2>3. CASE f = Connection \/ fetch[f] = Idle
    BY <2>2, <2>3 DEF Busy
  <2>4. CASE f # Connection /\ fetch[f] # Idle
    <3>1. fetch[f] \in Reading /\ fetch'[f] = [fetch[f] EXCEPT !.overtaken = TRUE]
      BY <2>1, <2>2, <2>4
    <3>2. fetch'[f] \in Reading /\ fetch'[f].seen = fetch[f].seen /\ fetch'[f].overtaken
      BY <3>1 DEF Reading
    <3> QED
      BY <2>4, <3>2, AskedNow DEF Busy, DashboardInv
  <2> QED
    BY <2>3, <2>4
<1>5. fetch' \in [Fetches -> {Idle} \cup Reading]
  BY <1>4 DEF Connected
<1>6. \A f \in Polls : Busy(f)' <=> Busy(f)
  BY <1>3, <1>4
<1>7. /\ polling' \in BOOLEAN /\ (polling' <=> \E f \in Polls : Busy(f)')
      /\ \A f, g \in Polls : Busy(f)' /\ Busy(g)' => f = g
  BY <1>1, <1>6 DEF DashboardInv, FetchOK
<1>8. \A f \in Fetches : Busy(f)' => \A o \in Orders :
          /\ Rank(fetch'[f].seen[o]) <= Rank(phase'[o])
          /\ fetch'[f].seen[o] = "review" => o \in risky' /\ phase'[o] # "absent"
  BY <1>2, <1>4 DEF DashboardInv, FetchOK
<1>9. FetchOK'
  BY <1>5, <1>7, <1>8 DEF FetchOK
<1>10. ViewOK'
  BY <1>1, <1>2, <1>3, <1>4, SnapshotOK DEF ViewOK
<1>11. RestOK'
  BY <1>1, DashboardAssumption DEF DashboardInv, RestOK, Alone, HasApi
<1> QED
  BY <1>1, <1>9, <1>10, <1>11, AloneSound, QuietKeeps DEF DashboardInv

\* What the page shows, and what is on its way, is left alone.
LEMMA StillKeeps ==
    ASSUME DashboardInv, Alone, UNCHANGED <<mode, live, polling, fetch>>
    PROVE  FetchOK' /\ ViewOK'
<1>1. UNCHANGED <<phase, risky, verdict>>
  BY DEF Alone, server, lifecycle, ofOrders, ofLines
<1> QED
  BY <1>1 DEF DashboardInv, FetchOK, ViewOK, Busy

\* A page without rows is never ahead of anything.
LEMMA EmptyView ==
    ASSUME DashboardInv, Alone, FetchOK', live' = Nothing, mode' \in {"demo", "live"}
    PROVE  ViewOK'
<1>1. UNCHANGED <<phase, verdict>>
  BY DEF Alone, server, lifecycle, ofOrders, ofLines
<1>2. Nothing \in [Orders -> [phase : Phases, offer : BOOLEAN]]
  BY DEF Nothing, Phases
<1>3. Rank("absent") = 0 /\ \A o \in Orders : Nothing[o].phase = "absent"
  BY DEF Rank, Nothing, Over
<1>4. \A o \in Orders : phase[o] \in Phases
  BY DEF DashboardInv, Sound, LifecycleType
<1>5. \A o \in Orders : Rank(live'[o].phase) <= Rank(phase'[o])
  BY <1>1, <1>3, <1>4, RankRange
<1>6. ASSUME NEW f \in Polls, Busy(f)', NEW o \in Orders
      PROVE  Rank(live'[o].phase) <= Rank(fetch'[f].seen[o])
  <2>1. fetch'[f] \in Reading
    BY <1>6 DEF FetchOK, Busy, Fetches
  <2>2. fetch'[f].seen[o] \in Phases
    BY <2>1 DEF Reading
  <2> QED
    BY <1>3, <2>2, RankRange
<1> QED
  BY <1>2, <1>3, <1>5, <1>6 DEF ViewOK

LEMMA OpenKeeps ==
    ASSUME DashboardInv, OpenConnect \/ \E o \in Orders : OpenOrder(o)
    PROVE  DashboardInv'
<1>1. /\ Alone /\ UNCHANGED <<mode, live, polling, fetch, command, wire>>
      /\ dialog' \in {"none", "connect"} \cup Orders
  BY DEF OpenConnect, OpenOrder, Alone
<1>2. RestOK'
  BY <1>1 DEF DashboardInv, RestOK, Alone
<1> QED
  BY <1>1, <1>2, AloneSound, QuietKeeps, StillKeeps DEF DashboardInv

LEMMA CloseKeeps == ASSUME DashboardInv, Close PROVE DashboardInv'
<1>1. /\ Alone /\ UNCHANGED <<mode, live, polling, fetch, command, wire>>
      /\ dialog' = "none"
  BY DEF Close, Alone
<1>2. RestOK'
  BY <1>1 DEF DashboardInv, RestOK, Alone
<1> QED
  BY <1>1, <1>2, AloneSound, QuietKeeps, StillKeeps DEF DashboardInv

LEMMA ChooseDemoKeeps == ASSUME DashboardInv, ChooseDemo PROVE DashboardInv'
<1>1. /\ Alone /\ UNCHANGED <<polling, fetch, command, wire>>
      /\ mode' = "demo" /\ dialog' = "none" /\ live' = Nothing
  BY DEF ChooseDemo, Alone
<1>2. UNCHANGED <<phase, risky>>
  BY <1>1 DEF Alone, server, lifecycle, ofOrders, ofLines
<1>3. FetchOK'
  BY <1>1, <1>2 DEF DashboardInv, FetchOK, Busy
<1>4. ViewOK'
  BY <1>1, <1>3, EmptyView
<1>5. RestOK'
  BY <1>1 DEF DashboardInv, RestOK, Alone
<1> QED
  BY <1>1, <1>3, <1>4, <1>5, AloneSound, QuietKeeps DEF DashboardInv

\* A torn row shows a reply's buttons and sends the auditor's "reject"; every other
\* row sends what its buttons say.
LEMMA ClickKeeps ==
    ASSUME DashboardInv, NEW o \in Orders, NEW label \in Buttons(o), Click(o, label)
    PROVE  DashboardInv'
<1>1. /\ Alone /\ UNCHANGED <<mode, live, dialog, polling, fetch, wire>>
  BY DEF Click, Alone
<1>2. PICK r : /\ command' = [stage |-> "sent", request |-> r]
               /\ r = IF live[o].phase = "review"
                      THEN Request(o, label, "audit",
                                   IF label = "Approve order" THEN "approve" ELSE "reject")
                      ELSE Request(o, label, "reply", Meaning(label)[2])
  BY DEF Click
<1>3. Harmless(r)
  <2>1. CASE live[o].phase = "review" /\ live[o].offer
    <3>1. verdict[o] = "approve"
      BY <2>1 DEF DashboardInv, ViewOK
    <3>2. label \in {"Simulate accept", "Simulate reject"}
      BY <2>1 DEF Buttons
    <3>3. r = [order |-> o, label |-> label, kind |-> "audit", decision |-> "reject"]
      BY <1>2, <2>1, <3>2 DEF Request
    <3> QED
      BY <3>1, <3>2, <3>3 DEF Harmless, Asks, Labels
  <2>2. CASE live[o].phase = "review" /\ ~live[o].offer
    <3>1. label \in {"Approve order", "Reject order"}
      BY <2>2 DEF Buttons
    <3>2. r = [order |-> o, label |-> label, kind |-> "audit",
               decision |-> IF label = "Approve order" THEN "approve" ELSE "reject"]
      BY <1>2, <2>2 DEF Request
    <3>3. r \in Asks
      BY <3>1, <3>2 DEF Asks, Labels
    <3>4. <<r.kind, r.decision>> = Meaning(r.label)
      BY <3>1, <3>2 DEF Meaning
    <3> QED
      BY <3>3, <3>4 DEF Harmless
  <2>3. CASE live[o].phase # "review"
    <3>1. label \in {"Simulate accept", "Simulate reject"}
      BY <2>3 DEF Buttons
    <3>2. Meaning(label) = <<"reply", Meaning(label)[2]>>
          /\ Meaning(label)[2] \in {"accept", "reject"}
      BY <3>1 DEF Meaning
    <3>3. r = [order |-> o, label |-> label, kind |-> "reply", decision |-> Meaning(label)[2]]
      BY <1>2, <2>3 DEF Request
    <3>4. r \in Asks
      BY <3>1, <3>2, <3>3 DEF Asks, Labels
    <3>5. <<r.kind, r.decision>> = Meaning(r.label)
      BY <3>2, <3>3
    <3> QED
      BY <3>4, <3>5 DEF Harmless
  <2> QED
    BY <2>1, <2>2, <2>3
<1>4. RequestsOK'
  BY <1>1, <1>2, <1>3, AloneSound DEF DashboardInv, RequestsOK
<1> QED
  BY <1>1, <1>4, AloneSound, StillKeeps, WireKeeps DEF DashboardInv

\* The dispatch form and the demo's timer ask nothing of an order.
LEMMA BusyKeeps ==
    ASSUME DashboardInv, CreateLive \/ CreateDemo \/ TimerEnds PROVE DashboardInv'
<1>1. /\ Alone /\ UNCHANGED <<mode, live, dialog, polling, fetch, wire>>
      /\ command'.stage \notin {"sent", "answered"}
  BY DEF CreateLive, CreateDemo, TimerEnds, Alone, Idle
<1> QED
  BY <1>1, AloneSound, QuietKeeps, StillKeeps, WireKeeps DEF DashboardInv

LEMMA SucceedsKeeps == ASSUME DashboardInv, Succeeds PROVE DashboardInv'
<1>1. Alone /\ UNCHANGED <<mode, live, wire>> /\ (Refresh(TRUE) \/ Refresh(FALSE))
  BY DEF Succeeds, Alone
<1>2. PICK closes \in BOOLEAN : Refresh(closes)
  BY <1>1
<1>3. CASE MayPoll /\ UNCHANGED dialog /\ polling' = TRUE /\ \E f \in Polls :
             /\ NextPoll(f) /\ fetch' = [fetch EXCEPT ![f] = Asked]
             /\ command' = [stage |-> "refreshing", poll |-> f, closes |-> closes]
  <2>1. PICK f \in Polls :
             /\ NextPoll(f) /\ fetch' = [fetch EXCEPT ![f] = Asked]
             /\ command' = [stage |-> "refreshing", poll |-> f, closes |-> closes]
    BY <1>3
  <2>2. f \in Fetches /\ fetch[f] = Idle /\ ~polling
    BY <1>3, <2>1 DEF NextPoll, MayPoll, Fetches
  <2>3. FetchOK' /\ ViewOK'
    BY <1>1, <1>3, <2>1, <2>2, StartKeeps
  <2>4. RequestsOK'
    BY <1>1, <2>1, QuietKeeps
  <2> QED
    BY <1>1, <1>3, <2>3, <2>4, AloneSound, WireKeeps DEF DashboardInv
<1>4. CASE /\ command' = Idle /\ dialog' = IF closes THEN "none" ELSE dialog
           /\ UNCHANGED <<polling, fetch>>
  <2>1. RestOK'
    BY <1>1, <1>4 DEF DashboardInv, RestOK, Alone
  <2>2. RequestsOK'
    BY <1>1, <1>4, QuietKeeps DEF Idle
  <2> QED
    BY <1>1, <1>4, <2>1, <2>2, AloneSound, StillKeeps DEF DashboardInv
<1> QED
  BY <1>2, <1>3, <1>4 DEF Refresh

\* A request that is given up stays harmless.
LEMMA GivenUp ==
    ASSUME DashboardInv, Alone, command' = Idle, Cardinality(wire') <= MaxWire,
           \/ UNCHANGED wire
           \/ command.stage = "sent" /\ wire' = wire \cup {command.request}
    PROVE  RequestsOK' /\ IsFiniteSet(wire')
<1>1. \A r \in wire' : Harmless(r)
  BY DEF DashboardInv, RequestsOK
<1>2. \A r \in wire' : Harmless(r)'
  BY <1>1, AloneSound
<1>3. IsFiniteSet(wire')
  BY FS_AddElement DEF DashboardInv, RestOK
<1> QED
  BY <1>2, <1>3 DEF RequestsOK, Idle

LEMMA FailsKeeps == ASSUME DashboardInv, Fails PROVE DashboardInv'
<1>1. /\ Alone /\ UNCHANGED <<mode, live, dialog, polling, fetch>> /\ command' = Idle
      /\ Cardinality(wire') <= MaxWire
      /\ \/ UNCHANGED wire
         \/ command.stage = "sent" /\ wire' = wire \cup {command.request}
  BY DEF Fails, Alone
<1>2. RequestsOK' /\ IsFiniteSet(wire')
  BY <1>1, GivenUp
<1>3. RestOK'
  BY <1>1, <1>2 DEF DashboardInv, RestOK, Alone
<1> QED
  BY <1>1, <1>2, <1>3, AloneSound, StillKeeps DEF DashboardInv

LEMMA ReloadKeeps == ASSUME DashboardInv, Reload PROVE DashboardInv'
<1>1. /\ Alone /\ mode' = "demo" /\ live' = Nothing /\ dialog' = "none"
      /\ polling' = FALSE /\ command' = Idle /\ Cardinality(wire') <= MaxWire
      /\ fetch' = [f \in Fetches |-> Idle]
      /\ \/ UNCHANGED wire
         \/ command.stage = "sent" /\ wire' = wire \cup {command.request}
  BY DEF Reload, Alone
<1>2. RequestsOK' /\ IsFiniteSet(wire')
  BY <1>1, GivenUp
<1>3. FetchOK'
  BY <1>1 DEF FetchOK, Busy, Fetches
<1>4. ViewOK'
  BY <1>1, <1>3, EmptyView
<1>5. RestOK'
  BY <1>1, <1>2 DEF DashboardInv, RestOK, Alone
<1> QED
  BY <1>2, <1>1, <1>3, <1>4, <1>5, AloneSound DEF DashboardInv

-----------------------------------------------------------------------------
LEMMA DashboardStarts == DashboardInit => DashboardInv
<1> SUFFICES ASSUME DashboardInit PROVE DashboardInv
  OBVIOUS
<1>1. Sound /\ phase = [o \in Orders |-> "absent"]
  BY LifecycleInitially DEF DashboardInit, LifecycleInit
<1>2. Mounted /\ host \in Hosts /\ wire = {}
  BY DEF DashboardInit
<1>3. RequestsOK
  BY <1>2 DEF RequestsOK, Mounted, Idle
<1>4. FetchOK
  BY <1>2 DEF FetchOK, Mounted, Busy, Fetches
<1>5. ViewOK
  <2>1. Nothing \in [Orders -> [phase : Phases, offer : BOOLEAN]]
    BY DEF Nothing, Phases
  <2>2. \A o \in Orders : Rank(Nothing[o].phase) = Rank(phase[o])
                          /\ Nothing[o].phase = "absent" /\ phase[o] \in Phases
    BY <1>1 DEF Nothing, Phases
  <2>3. ASSUME NEW o \in Orders PROVE Rank(Nothing[o].phase) <= Rank(phase[o])
    <3>1. Rank(phase[o]) \in 0..4 /\ Rank(Nothing[o].phase) = Rank(phase[o])
      BY <2>2, RankRange
    <3> QED
      BY <3>1
  <2> QED
    BY <1>2, <2>1, <2>2, <2>3 DEF ViewOK, Mounted, Busy, Fetches
<1>6. RestOK
  BY <1>2, FS_EmptySet, DashboardAssumption DEF RestOK, Mounted
<1> QED
  BY <1>1, <1>3, <1>4, <1>5, <1>6 DEF DashboardInv

LEMMA DashboardStep == DashboardInv /\ [DashboardNext]_dashboard => DashboardInv'
<1> SUFFICES ASSUME DashboardInv, [DashboardNext]_dashboard PROVE DashboardInv'
  OBVIOUS
<1>1. CASE UNCHANGED dashboard
  <2>1. Alone /\ UNCHANGED <<mode, live, dialog, polling, fetch, command, wire>>
    BY <1>1 DEF dashboard, browser, server, Alone
  <2> QED
    BY <2>1, AloneSound, QuietKeeps, StillKeeps, WireKeeps DEF DashboardInv
<1>2. ASSUME NEW o \in Orders, Work(o) \/ Withdraw(o) PROVE DashboardInv'
  BY <1>2, WorkKeeps, WithdrawKeeps
<1>3. ASSUME NEW o \in Orders, DecidedElsewhere(o) PROVE DashboardInv'
  BY <1>3, DecidedElsewhereKeeps
<1>4. ASSUME NEW r \in wire, LateArrival(r) PROVE DashboardInv'
  BY <1>4, LateArrivalKeeps
<1>5. ASSUME NEW f \in Polls, Poll(f) \/ Polled(f) \/ PollFails(f) PROVE DashboardInv'
  BY <1>5, PollKeeps, PolledKeeps, PollFailsKeeps
<1>6. CASE Connect \/ Connected \/ ConnectFails
  BY <1>6, ConnectKeeps, ConnectedKeeps, ConnectFailsKeeps
<1>7. CASE OpenConnect \/ \E o \in Orders : OpenOrder(o)
  BY <1>7, OpenKeeps
<1>8. CASE Close \/ ChooseDemo
  BY <1>8, CloseKeeps, ChooseDemoKeeps
<1>9. ASSUME NEW o \in Orders, NEW label \in Buttons(o), Click(o, label)
      PROVE  DashboardInv'
  BY <1>9, ClickKeeps
<1>10. CASE CreateLive \/ CreateDemo \/ TimerEnds
  BY <1>10, BusyKeeps
<1>11. CASE Arrives \/ Succeeds \/ Fails \/ Reload
  BY <1>11, ArrivesKeeps, SucceedsKeeps, FailsKeeps, ReloadKeeps
<1> QED
  BY <1>1, <1>2, <1>3, <1>4, <1>5, <1>6, <1>7, <1>8, <1>9, <1>10, <1>11
     DEF DashboardNext

LEMMA DashboardInvariant == DashboardSpec => []DashboardInv
BY DashboardStarts, DashboardStep, PTL DEF DashboardSpec

\* Whatever is clicked, polled, lost or late: the page and the shop keep their types.
THEOREM DashboardTyped == DashboardSpec => []DashboardType
<1>1. DashboardInv => DashboardType
  BY DEF DashboardInv, DashboardType, Sound, FetchOK, ViewOK, RestOK, Busy
<1> QED
  BY <1>1, DashboardInvariant, PTL

\* A decision the page says is recorded is the one its shop recorded.
THEOREM AcknowledgedRecorded == DashboardSpec => []AcknowledgedIsRecorded
<1>1. DashboardInv => AcknowledgedIsRecorded
  BY DEF DashboardInv, RequestsOK, AcknowledgedIsRecorded, Recorded
<1> QED
  BY <1>1, DashboardInvariant, PTL

-----------------------------------------------------------------------------
(* What no step does. *)

\* The steps that the page takes without its shop.
OnThePage ==
    \/ \E f \in Polls : Poll(f) \/ Polled(f) \/ PollFails(f)
    \/ Connect \/ Connected \/ ConnectFails
    \/ OpenConnect \/ Close \/ ChooseDemo
    \/ \E o \in Orders : OpenOrder(o) \/ \E label \in Buttons(o) : Click(o, label)
    \/ CreateLive \/ CreateDemo \/ Succeeds \/ TimerEnds \/ Fails \/ Reload

LEMMA PageIsAlone == OnThePage => Alone
BY DEF OnThePage, Poll, Polled, PollFails, Connect, Connected, ConnectFails, OpenConnect, OpenOrder, Close,
   ChooseDemo, Click, CreateLive, CreateDemo, Succeeds, TimerEnds, Fails, Reload, Alone

LEMMA StepKinds ==
    DashboardNext => \/ \E o \in Orders : Work(o) \/ Withdraw(o) \/ DecidedElsewhere(o)
                     \/ \E r \in wire : LateArrival(r)
                     \/ Arrives \/ OnThePage
BY DEF DashboardNext, OnThePage

\* What is recorded when a request arrives is what its button said, on time or late,
\* and from whatever row it was sent.
THEOREM ClicksMeanWhatTheySay == DashboardSpec => ClickMeansWhatItSays
<1> DEFINE Pending == wire \cup IF command.stage = "sent" THEN {command.request} ELSE {}
           Means == \A r \in Pending :
                       Taken(r) /\ <<verdict, answer>>' # <<verdict, answer>> =>
                          <<r.kind, r.decision>> = Meaning(r.label)
<1>1. DashboardInv /\ [DashboardNext]_dashboard => [Means]_dashboard
  <2> SUFFICES ASSUME DashboardInv, DashboardNext, NEW r \in Pending, Taken(r),
                      <<verdict, answer>>' # <<verdict, answer>>
               PROVE  <<r.kind, r.decision>> = Meaning(r.label)
    OBVIOUS
  <2>1. Harmless(r) /\ Sound
    BY DEF DashboardInv, RequestsOK
  <2>2. \/ r \in wire /\ r \notin wire'
        \/ command.stage = "sent" /\ command.request = r /\ command'.stage = "answered"
    BY DEF Taken
  <2> HIDE DEF Pending
  <2>3. ASSUME NEW o \in Orders, Work(o) \/ Withdraw(o) \/ DecidedElsewhere(o) PROVE FALSE
    BY <2>2, <2>3 DEF Work, Withdraw, DecidedElsewhere, browser
  <2>4. ASSUME NEW s \in wire, LateArrival(s)
        PROVE  <<r.kind, r.decision>> = Meaning(r.label)
    <3>1. s = r
      BY <2>2, <2>4 DEF LateArrival, browser
    <3>2. PICK ok \in BOOLEAN : Handle(r, ok)
      BY <2>4, <3>1 DEF LateArrival, server, lifecycle, ofOrders, ofLines
    <3> QED
      BY <2>1, <3>2, HandleStep
  <2>5. CASE Arrives
    <3>1. r = command.request
      BY <2>2, <2>5 DEF Arrives
    <3>2. PICK ok \in BOOLEAN : Handle(r, ok)
      BY <2>5, <3>1 DEF Arrives
    <3> QED
      BY <2>1, <3>2, HandleStep
  <2>6. CASE OnThePage
    BY <2>6, PageIsAlone DEF Alone, server, lifecycle, ofOrders, ofLines
  <2> QED
    BY <2>3, <2>4, <2>5, <2>6, StepKinds
<1>2. DashboardSpec => [][Means]_dashboard
  <2> HIDE DEF Means
  <2> QED
    BY <1>1, DashboardInvariant, PTL DEF DashboardSpec
<1> QED
  BY <1>2 DEF ClickMeansWhatItSays

\* An order's row on a page that stays connected never goes back.
THEOREM ViewsNeverGoBack == DashboardSpec => ViewNeverGoesBack
<1> DEFINE Forward == mode = "live" /\ mode' = "live" /\ ~ConnectingAnew =>
                         \A o \in Orders : Rank(live'[o].phase) >= Rank(live[o].phase)
<1>1. DashboardInv /\ [DashboardNext]_dashboard => [Forward]_dashboard
  <2> SUFFICES ASSUME DashboardInv, DashboardNext, mode = "live", mode' = "live",
                      ~ConnectingAnew, NEW o \in Orders
               PROVE  Rank(live'[o].phase) >= Rank(live[o].phase)
    OBVIOUS
  <2>1. Rank(live[o].phase) \in 0..4
    BY RankRange DEF DashboardInv, ViewOK
  <2>2. ASSUME NEW f \in Polls, Polled(f)
        PROVE  Rank(live'[o].phase) >= Rank(live[o].phase)
    <3>1. Busy(f) /\ f \in Fetches /\ live' = Snapshot(f)
      BY <2>2 DEF Polled, Busy, Fetches
    <3>2. ~fetch[f].overtaken
      BY <3>1 DEF ConnectingAnew, Busy
    <3>3. Rank(live[o].phase) <= Rank(fetch[f].seen[o])
      BY <3>1, <3>2 DEF DashboardInv, ViewOK
    <3>4. live'[o].phase = fetch[f].seen[o] /\ fetch[f].seen[o] \in Phases
      BY <3>1, SnapshotOK DEF Snapshot
    <3> QED
      BY <2>1, <3>3, <3>4, RankRange
  <2>3. ~Connected /\ ~ChooseDemo /\ ~Reload
    BY DEF Connected, ConnectingAnew, ChooseDemo, Reload
  <2>4. (\E f \in Polls : Polled(f)) \/ UNCHANGED live
    BY <2>3 DEF DashboardNext, Work, Withdraw, DecidedElsewhere, LateArrival, Poll, PollFails,
       Connect, ConnectFails, OpenConnect, OpenOrder, Close, Click, Arrives, CreateLive, CreateDemo,
       Succeeds, TimerEnds, Fails, browser
  <2> QED
    BY <2>1, <2>2, <2>4
<1>2. DashboardSpec => [][Forward]_dashboard
  <2> HIDE DEF Forward
  <2> QED
    BY <1>1, DashboardInvariant, PTL DEF DashboardSpec
<1> QED
  BY <1>2 DEF ViewNeverGoesBack

\* The shop keeps its promise whatever the page and its requests do to it.
THEOREM ShopKeepsPromise == DashboardSpec => Lifecycle
<1>1. DashboardInit => LifecycleInit
  BY DEF DashboardInit
<1>2. DashboardInv /\ [DashboardNext]_dashboard => [LifecycleNext]_lifecycle
  <2> SUFFICES ASSUME DashboardInv, [DashboardNext]_dashboard
               PROVE  [LifecycleNext]_lifecycle
    OBVIOUS
  <2>1. ASSUME NEW o \in Orders, Work(o) PROVE [LifecycleNext]_lifecycle
    BY <2>1, DashboardAssumption
       DEF Work, LifecycleNext, DashboardInv, Sound, LifecycleType, DealAnswers
  <2>7. ASSUME NEW o \in Orders, Withdraw(o) PROVE [LifecycleNext]_lifecycle
    BY <2>7, WithdrawStep DEF DashboardInv
  <2>2. ASSUME NEW o \in Orders, DecidedElsewhere(o) PROVE [LifecycleNext]_lifecycle
    BY <2>2, AuditStep, ReplyStep DEF DecidedElsewhere, DashboardInv
  <2>3. ASSUME NEW r \in wire, LateArrival(r) PROVE [LifecycleNext]_lifecycle
    BY <2>3, HandleStep DEF LateArrival, server, DashboardInv, RequestsOK
  <2>4. CASE Arrives
    BY <2>4, HandleStep DEF Arrives, DashboardInv, RequestsOK
  <2>5. CASE OnThePage
    BY <2>5, PageIsAlone DEF Alone, server
  <2>6. CASE UNCHANGED dashboard
    BY <2>6 DEF dashboard
  <2> QED
    BY <2>1, <2>2, <2>3, <2>4, <2>5, <2>6, <2>7, StepKinds
<1> QED
  BY <1>1, <1>2, DashboardInvariant, PTL DEF DashboardSpec, Lifecycle

=============================================================================
