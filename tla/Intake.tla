-------------------------------- MODULE Intake --------------------------------
(***************************************************************************)
(* How an order gets in (_place_order in main.py, called by POST /orders   *)
(* and by the WooCommerce webhook): concurrent handlers look for its       *)
(* external id, score it against its customer's history, insert it and let *)
(* the unique key decide who was first.                                    *)
(***************************************************************************)
EXTENDS Integers, Sequences, FiniteSetsExt

CONSTANTS Handlers,         \* requests that are served at the same time
          Ids,              \* external ids
          Contents,         \* what an order may say
          Raws,             \* byte forms of one and the same webhook payload
          Email, Person,    \* a content's address, the address in lower case
          Total,            \* a content's total at the catalogue's prices
          Mismatch,         \* contents whose two addresses differ
          Trusted, Given,   \* contents that bring a risk score, and which
          ValueMultiple, NewCustomerFrom, VelocityMax, RiskThreshold

ASSUME IntakeAssumption ==
    /\ Total \in [Contents -> Nat]
    /\ Mismatch \subseteq Contents /\ Trusted \subseteq Contents
    /\ Given \in [Trusted -> 0..10]
    /\ ValueMultiple \in Nat /\ NewCustomerFrom \in Nat
    /\ VelocityMax \in Nat \ {0} /\ RiskThreshold \in 0..10

Requests == [via : {"api", "webhook"}, id : Ids, content : Contents, raw : Raws]

\* The api hashes the parsed body with sorted keys, the webhook the raw bytes.
Form(r) == IF r.via = "webhook" THEN r.raw ELSE "sorted"
Digest(r) == <<r.id, r.content, Form(r)>>

VARIABLES placed,   \* the orders, in the order of their commits
          handler   \* what each handler is doing

intake == <<placed, handler>>

Idle == [stage |-> "idle"]
Row(r, risk) == [id |-> r.id, digest |-> Digest(r), content |-> r.content,
                 risk |-> risk, recent |-> TRUE]

IntakeInit == placed = <<>> /\ handler = [h \in Handlers |-> Idle]

At(h, stage) == handler[h].stage = stage
Existing(id) == {i \in DOMAIN placed : placed[i].id = id}

-----------------------------------------------------------------------------
(* fraud.score, in tenths.                                                 *)

\* Mutant: addresses are compared as they are written.
HistoryAsWritten(c) == {i \in DOMAIN placed : Email[placed[i].content] = Email[c]}

History(c) == {i \in DOMAIN placed : Person[Email[placed[i].content]] = Person[Email[c]]}

\* More than ValueMultiple times (in tenths) the customer's average, which is
\* above zero.
FarAboveAverage(c) ==
    LET paid == MapThenSumSet(LAMBDA i : Total[placed[i].content], History(c))
    IN  paid > 0 /\ 10 * Total[c] * Cardinality(History(c)) > ValueMultiple * paid

\* This order would be the VelocityMax-th of the window.
TooFast(c) == Cardinality({i \in History(c) : placed[i].recent}) >= VelocityMax - 1

Weight(signal, weight) == IF signal THEN weight ELSE 0

\* Mutant: the sum is not capped.
RiskUncapped(c) ==
    IF c \in Trusted THEN Given[c]
    ELSE Weight(FarAboveAverage(c), 4) + Weight(c \in Mismatch, 3)
         + Weight(History(c) = {} /\ Total[c] >= NewCustomerFrom, 4)
         + Weight(TooFast(c), 4)

RiskOf(c) ==
    LET sum == Weight(FarAboveAverage(c), 4) + Weight(c \in Mismatch, 3)
               + Weight(History(c) = {} /\ Total[c] >= NewCustomerFrom, 4)
               + Weight(TooFast(c), 4)
    IN  IF c \in Trusted THEN Given[c] ELSE IF sum > 10 THEN 10 ELSE sum

-----------------------------------------------------------------------------
\* What a handler answers with when the order of that id is there.
Verdict(r, i) == [stage |-> "answered", request |-> r,
                  code |-> IF placed[i].digest = Digest(r) THEN "duplicate" ELSE "conflict"]

\* The first look: an order with this id is answered for at once.
Receive(h, r) ==
    /\ At(h, "idle")
    /\ handler' = [handler EXCEPT ![h] =
          IF Existing(r.id) = {} THEN [stage |-> "looked", request |-> r]
          ELSE Verdict(r, CHOOSE i \in Existing(r.id) : TRUE)]
    /\ UNCHANGED placed

\* The history is another statement; `overtaken' marks a score that has been
\* computed from a history that has changed since.
Score(h) ==
    /\ At(h, "looked")
    /\ LET r == handler[h].request IN
       handler' = [handler EXCEPT ![h] =
          [stage |-> "scored", request |-> r, risk |-> RiskOf(r.content),
           overtaken |-> FALSE]]
    /\ UNCHANGED placed

\* The unique key: an insert waits for the handler that has inserted the same
\* id and not yet committed, and fails if the id is taken.
KeyFree(h) == \A g \in Handlers \ {h} :
                 At(g, "inserted") => handler[g].request.id # handler[h].request.id

\* Mutant: no unique key.
InsertAnyway(h) ==
    /\ At(h, "scored")
    /\ handler' = [handler EXCEPT ![h].stage = "inserted"]
    /\ UNCHANGED placed

Insert(h) ==
    /\ At(h, "scored") /\ KeyFree(h)
    /\ handler' = [handler EXCEPT ![h] =
          IF Existing(@.request.id) = {} THEN [@ EXCEPT !.stage = "inserted"]
          ELSE [stage |-> "clashed", request |-> @.request]]
    /\ UNCHANGED placed

\* Mutant: the loser of the race does not look again.
SecondLookSkipped(h) ==
    /\ At(h, "clashed")
    /\ handler' = [handler EXCEPT ![h] =
          [stage |-> "answered", request |-> @.request, code |-> "conflict"]]
    /\ UNCHANGED placed

\* Mutant: the loser takes any order of that id for its own.
SecondLookTrusts(h) ==
    /\ At(h, "clashed")
    /\ handler' = [handler EXCEPT ![h] =
          [stage |-> "answered", request |-> @.request, code |-> "duplicate"]]
    /\ UNCHANGED placed

\* After the rollback the loser looks again, in a session of its own.
SecondLook(h) ==
    /\ At(h, "clashed")
    /\ LET r == handler[h].request
           found == {i \in Existing(r.id) : placed[i].digest = Digest(r)}
       IN  handler' = [handler EXCEPT ![h] =
              [stage |-> "answered", request |-> r,
               code |-> IF found # {} THEN "duplicate" ELSE "conflict"]]
    /\ UNCHANGED placed

\* Handlers that scored an order of this customer have been overtaken.
Overtaken(c) ==
    [g \in Handlers |->
       IF /\ handler[g].stage \in {"scored", "inserted"}
          /\ Person[Email[handler[g].request.content]] = Person[Email[c]]
       THEN [handler[g] EXCEPT !.overtaken = TRUE] ELSE handler[g]]

Commit(h) ==
    /\ At(h, "inserted")
    /\ LET r == handler[h].request IN
       /\ placed' = Append(placed, Row(r, handler[h].risk))
       /\ handler' = [Overtaken(r.content) EXCEPT ![h] =
                        [stage |-> "answered", request |-> r, code |-> "placed"]]

\* The handler or its connection dies: the transaction is rolled back, and
\* nobody is answered.
Die(h) ==
    /\ handler[h].stage \in {"looked", "scored", "inserted", "clashed"}
    /\ handler' = [handler EXCEPT ![h] =
                     [stage |-> "died", request |-> @.request]]
    /\ UNCHANGED placed

\* The velocity window moves past every order placed so far.
WindowPasses ==
    /\ \E i \in DOMAIN placed : placed[i].recent
    /\ placed' = [i \in DOMAIN placed |-> [placed[i] EXCEPT !.recent = FALSE]]
    /\ handler' = [g \in Handlers |->
          IF handler[g].stage \in {"scored", "inserted"}
          THEN [handler[g] EXCEPT !.overtaken = TRUE] ELSE handler[g]]

\* The answer, or the end of the connection, reaches the client or nobody.
Respond(h) ==
    /\ At(h, "answered") \/ At(h, "died")
    /\ handler' = [handler EXCEPT ![h] = Idle]
    /\ UNCHANGED placed

Serve(h) == Score(h) \/ Insert(h) \/ SecondLook(h) \/ Commit(h)

IntakeNext ==
    \/ \E h \in Handlers :
          \/ \E r \in Requests : Receive(h, r)
          \/ Serve(h) \/ Die(h) \/ Respond(h)
    \/ WindowPasses

IntakeSpec == IntakeInit /\ [][IntakeNext]_intake

-----------------------------------------------------------------------------
(* What the intake guarantees.                                             *)

\* The unique key and the code around it: however many deliveries of one
\* external id are served at once, it is one order.
OneOrderPerId == \A i, j \in DOMAIN placed : placed[i].id = placed[j].id => i = j

\* Who is told that the order is in finds its own order under this id, in the form
\* it was sent in, bodies of another request having been refused (first look,
\* insert, second look).
SuccessIsMine ==
    \A h \in Handlers : At(h, "answered") /\ handler[h].code # "conflict" =>
       \E i \in Existing(handler[h].request.id) : placed[i].digest = Digest(handler[h].request)

\* Nobody is refused for an order that says the same, not even the loser of a
\* race between equal requests, unless the two have another form, as those of the
\* api never have: a webhook delivery that repeats its order in other bytes is
\* refused (main.py:138 and :202), although docs/WOOCOMMERCE_SETUP.md:82-86 says
\* that a retried delivery of the same order returns the existing one.
ConflictIsReal ==
    \A h \in Handlers : At(h, "answered") /\ handler[h].code = "conflict" =>
       LET r == handler[h].request
       IN  \E i \in Existing(r.id) :
              placed[i].content = r.content => placed[i].digest[3] # Form(r)

\* Without a score of its own an order goes to review exactly when its customer,
\* however the address is written, is fast and far above the own average: no other
\* two signals reach the threshold.  Only an order of the same customer that is
\* placed at the same time escapes it.
ReviewMeansBurst ==
    \A h \in Handlers :
       handler[h].stage \in {"scored", "inserted"} =>
          LET c == handler[h].request.content
              own == {i \in DOMAIN placed :
                        Person[Email[placed[i].content]] = Person[Email[c]]}
              paid == MapThenSumSet(LAMBDA i : Total[placed[i].content], own)
          IN  c \notin Trusted /\ ~handler[h].overtaken =>
                 (handler[h].risk >= RiskThreshold
                    <=> /\ Cardinality({i \in own : placed[i].recent}) >= VelocityMax - 1
                        /\ paid > 0 /\ 10 * Total[c] * Cardinality(own) > ValueMultiple * paid)
=============================================================================
