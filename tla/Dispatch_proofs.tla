--------------------------- MODULE Dispatch_proofs ---------------------------
(***************************************************************************)
(* What the form and the intake together promise, for every number of      *)
(* handlers, products, ids and deliveries, and whichever handlers die: an  *)
(* external id is one order and every answer is right; a user who tries    *)
(* again orders once, and is refused only after the mode was switched      *)
(* under an id.                                                            *)
(***************************************************************************)
EXTENDS Dispatch, Sums_proofs

(***************************************************************************)
(* The intake.  An id is held by at most one handler whose insert is not   *)
(* committed, and then no order has it.                                    *)
(***************************************************************************)
Rows == {row \in [id : Ids, digest : {Digest(r) : r \in Requests}, content : Contents,
                  risk : 0..10, recent : BOOLEAN] :
            row.digest[1] = row.id /\ row.digest[2] = row.content}

\* The rows of orders p that have the id x.
Found(p, x) == {i \in DOMAIN p : p[i].id = x}

\* What a handler can be doing.
Doings == {Idle}
          \cup [stage : {"looked", "clashed", "died"}, request : Requests]
          \cup [stage : {"scored", "inserted"}, request : Requests,
                risk : 0..10, overtaken : BOOLEAN]
          \cup [stage : {"answered"}, request : Requests,
                code : {"placed", "duplicate", "conflict"}]

IntakeType == placed \in Seq(Rows) /\ handler \in [Handlers -> Doings]

\* An id that is being inserted is nobody else's, one that clashed is taken.
KeysHeld ==
    \A h \in Handlers :
       /\ At(h, "inserted") => Existing(handler[h].request.id) = {} /\ KeyFree(h)
       /\ At(h, "clashed") => Existing(handler[h].request.id) # {}

\* What a refusal comes from: an order of its id with another digest.
OtherDigest ==
    \A h \in Handlers : At(h, "answered") /\ handler[h].code = "conflict" =>
       \E i \in Existing(handler[h].request.id) :
          placed[i].digest # Digest(handler[h].request)

Right == SuccessIsMine /\ OtherDigest

\* Inductive, and stronger than the three promises of the intake.
IntakeInv == IntakeType /\ OneOrderPerId /\ KeysHeld /\ Right

-----------------------------------------------------------------------------
\* A score is a number of tenths between nothing and one.
LEMMA RiskType ==
    ASSUME NEW c \in Contents
    PROVE  RiskOf(c) \in 0..10
<1> DEFINE Small(w) == w \in 0..4
<1>1. \A s : Small(Weight(s, 4)) /\ Small(Weight(s, 3))
  BY DEF Weight
<1>2. c \in Trusted => Given[c] \in 0..10
  BY IntakeAssumption
<1> DEFINE a == Weight(FarAboveAverage(c), 4)
           b == Weight(c \in Mismatch, 3)
           d == Weight(History(c) = {} /\ Total[c] >= NewCustomerFrom, 4)
           e == Weight(TooFast(c), 4)
<1>3. a \in Nat /\ b \in Nat /\ d \in Nat /\ e \in Nat
  BY <1>1
<1>4. RiskOf(c) = IF c \in Trusted THEN Given[c]
                  ELSE IF a + b + d + e > 10 THEN 10 ELSE a + b + d + e
  BY DEF RiskOf
<1> HIDE DEF a, b, d, e
<1> QED
  BY <1>2, <1>3, <1>4

LEMMA RequestParts == \A r \in Requests : r.id \in Ids /\ r.content \in Contents
BY DEF Requests

\* The row of a request says what the request said.
LEMMA RowType ==
    ASSUME NEW r \in Requests, NEW risk \in 0..10
    PROVE  /\ Row(r, risk) \in Rows
           /\ Row(r, risk).id = r.id /\ Row(r, risk).digest = Digest(r)
           /\ Row(r, risk).content = r.content
<1> DEFINE row == Row(r, risk)
<1>1. row = [id |-> r.id, digest |-> Digest(r), content |-> r.content,
             risk |-> risk, recent |-> TRUE]
  BY DEF Row
<1>2. Digest(r)[1] = r.id /\ Digest(r)[2] = r.content
  BY DEF Digest
<1>3. row.id = r.id /\ row.digest = Digest(r) /\ row.content = r.content
  BY <1>1
<1>4. row \in [id : Ids, digest : {Digest(q) : q \in Requests}, content : Contents,
              risk : 0..10, recent : BOOLEAN]
  BY <1>1, RequestParts
<1> HIDE DEF row
<1>5. row \in Rows
  BY <1>2, <1>3, <1>4 DEF Rows
<1> QED
  BY <1>3, <1>5 DEF row

\* Who is doing something has a request, and what else its stage needs.
LEMMA DoingParts ==
    ASSUME NEW d \in Doings
    PROVE  /\ d.stage \in {"idle", "looked", "clashed", "died", "scored",
                           "inserted", "answered"}
           /\ d.stage # "idle" => d.request \in Requests
           /\ d.stage \in {"scored", "inserted"} =>
                 /\ d \in [stage : {"scored", "inserted"}, request : Requests,
                           risk : 0..10, overtaken : BOOLEAN]
                 /\ d.risk \in 0..10
           /\ d.stage = "answered" => d.code \in {"placed", "duplicate", "conflict"}
BY DEF Doings, Idle

\* A handler that works alone: the others and the orders are left as they are.
LEMMA AloneStep ==
    ASSUME IntakeInv, NEW h \in Handlers, NEW d \in Doings,
           handler' = [handler EXCEPT ![h] = d], UNCHANGED placed,
           d.stage = "inserted" => /\ Existing(d.request.id) = {}
                                   /\ \A g \in Handlers \ {h} : At(g, "inserted") =>
                                         handler[g].request.id # d.request.id,
           d.stage = "clashed" => Existing(d.request.id) # {},
           d.stage = "answered" /\ d.code # "conflict" =>
              \E i \in Existing(d.request.id) : placed[i].digest = Digest(d.request),
           d.stage = "answered" /\ d.code = "conflict" =>
              \E i \in Existing(d.request.id) : placed[i].digest # Digest(d.request)
    PROVE  IntakeInv'
<1>1. IntakeType'
  BY DEF IntakeInv, IntakeType
<1>2. OneOrderPerId'
  BY DEF IntakeInv, OneOrderPerId
<1>3. \A g \in Handlers : handler'[g] = IF g = h THEN d ELSE handler[g]
  BY DEF IntakeInv, IntakeType
<1>4. \A x : Existing(x)' = Existing(x)
  BY DEF Existing
<1>5. KeysHeld'
  BY <1>3, <1>4 DEF IntakeInv, KeysHeld, At, KeyFree
<1>6. Right'
  BY <1>3, <1>4 DEF IntakeInv, Right, SuccessIsMine, OtherDigest, At
<1> QED
  BY <1>1, <1>2, <1>5, <1>6 DEF IntakeInv

LEMMA ReceiveStep ==
    ASSUME IntakeInv, NEW h \in Handlers, NEW r \in Requests, Receive(h, r)
    PROVE  IntakeInv'
<1>1. CASE Existing(r.id) = {}
  <2> DEFINE d == [stage |-> "looked", request |-> r]
  <2>1. d \in Doings /\ d.stage = "looked"
    BY DEF Doings
  <2>2. handler' = [handler EXCEPT ![h] = d] /\ UNCHANGED placed
    BY <1>1 DEF Receive
  <2> HIDE DEF d
  <2> QED
    BY <2>1, <2>2, AloneStep
<1>2. CASE Existing(r.id) # {}
  <2> DEFINE i == CHOOSE i \in Existing(r.id) : TRUE
             d == Verdict(r, i)
  <2>1. i \in Existing(r.id)
    BY <1>2
  <2> HIDE DEF i
  <2>2. /\ d \in Doings /\ d.stage = "answered" /\ d.request = r
        /\ d.code = IF placed[i].digest = Digest(r) THEN "duplicate" ELSE "conflict"
    BY DEF Doings, Verdict
  <2>3. handler' = [handler EXCEPT ![h] = d] /\ UNCHANGED placed
    BY <1>2 DEF Receive, i
  <2> HIDE DEF d
  <2>4. d.code # "conflict" => placed[i].digest = Digest(r)
    BY <2>2
  <2>5. d.code = "conflict" => placed[i].digest # Digest(r)
    BY <2>2
  <2> QED
    BY <2>1, <2>2, <2>3, <2>4, <2>5, AloneStep
<1> QED
  BY <1>1, <1>2

LEMMA ScoreStep ==
    ASSUME IntakeInv, NEW h \in Handlers, Score(h)
    PROVE  IntakeInv'
<1>1. handler[h] \in Doings /\ At(h, "looked")
  BY DEF IntakeInv, IntakeType, Score
<1> DEFINE r == handler[h].request
           d == [stage |-> "scored", request |-> r, risk |-> RiskOf(r.content),
                 overtaken |-> FALSE]
<1>2. r \in Requests
  BY <1>1, DoingParts DEF At
<1>3. RiskOf(r.content) \in 0..10
  BY <1>2, RequestParts, RiskType
<1>4. d \in Doings /\ d.stage = "scored"
  BY <1>2, <1>3 DEF Doings
<1>5. handler' = [handler EXCEPT ![h] = d] /\ UNCHANGED placed
  BY DEF Score
<1> HIDE DEF d
<1> QED
  BY <1>4, <1>5, AloneStep

LEMMA InsertStep ==
    ASSUME IntakeInv, NEW h \in Handlers, Insert(h)
    PROVE  IntakeInv'
<1>1. handler[h] \in Doings /\ At(h, "scored") /\ KeyFree(h)
  BY DEF IntakeInv, IntakeType, Insert
<1> DEFINE r == handler[h].request
<1>2. r \in Requests
  BY <1>1, DoingParts DEF At
<1>3. CASE Existing(r.id) = {}
  <2> DEFINE d == [handler[h] EXCEPT !.stage = "inserted"]
  <2>1. d \in Doings /\ d.stage = "inserted" /\ d.request = r
    BY <1>1, DoingParts DEF At, Doings
  <2>2. handler' = [handler EXCEPT ![h] = d] /\ UNCHANGED placed
    BY <1>3 DEF Insert, IntakeInv, IntakeType
  <2> HIDE DEF d
  <2> QED
    BY <1>1, <1>3, <2>1, <2>2, AloneStep DEF KeyFree
<1>4. CASE Existing(r.id) # {}
  <2> DEFINE d == [stage |-> "clashed", request |-> r]
  <2>1. d \in Doings /\ d.stage = "clashed" /\ d.request = r
    BY <1>2 DEF Doings
  <2>2. handler' = [handler EXCEPT ![h] = d] /\ UNCHANGED placed
    BY <1>4 DEF Insert, IntakeInv, IntakeType
  <2> HIDE DEF d
  <2> QED
    BY <1>4, <2>1, <2>2, AloneStep
<1> QED
  BY <1>3, <1>4

LEMMA SecondLookStep ==
    ASSUME IntakeInv, NEW h \in Handlers, SecondLook(h)
    PROVE  IntakeInv'
<1>1. handler[h] \in Doings /\ At(h, "clashed")
  BY DEF IntakeInv, IntakeType, SecondLook
<1> DEFINE r == handler[h].request
           found == {i \in Existing(r.id) : placed[i].digest = Digest(r)}
           d == [stage |-> "answered", request |-> r,
                 code |-> IF found # {} THEN "duplicate" ELSE "conflict"]
<1>2. r \in Requests /\ Existing(r.id) # {}
  BY <1>1, DoingParts DEF At, IntakeInv, KeysHeld
<1>3. d \in Doings /\ d.stage = "answered" /\ d.request = r
  BY <1>2 DEF Doings
<1>4. handler' = [handler EXCEPT ![h] = d] /\ UNCHANGED placed
  BY DEF SecondLook
<1>5. d.code # "conflict" =>
         \E i \in Existing(d.request.id) : placed[i].digest = Digest(d.request)
  BY <1>3
<1>6. d.code = "conflict" =>
         \E i \in Existing(d.request.id) : placed[i].digest # Digest(d.request)
  BY <1>2, <1>3
<1> HIDE DEF d
<1> QED
  BY <1>3, <1>4, <1>5, <1>6, AloneStep

LEMMA EndStep ==
    ASSUME IntakeInv, NEW h \in Handlers, Die(h) \/ Respond(h)
    PROVE  IntakeInv'
<1>1. handler[h] \in Doings
  BY DEF IntakeInv, IntakeType
<1>2. CASE Die(h)
  <2> DEFINE d == [stage |-> "died", request |-> handler[h].request]
  <2>1. handler[h].request \in Requests
    BY <1>1, <1>2, DoingParts DEF Die
  <2>2. d \in Doings /\ d.stage = "died"
    BY <2>1 DEF Doings
  <2>3. handler' = [handler EXCEPT ![h] = d] /\ UNCHANGED placed
    BY <1>2 DEF Die, IntakeInv, IntakeType
  <2> HIDE DEF d
  <2> QED
    BY <2>2, <2>3, AloneStep
<1>3. CASE Respond(h)
  <2>1. Idle \in Doings /\ Idle.stage = "idle"
    BY DEF Doings, Idle
  <2>2. handler' = [handler EXCEPT ![h] = Idle] /\ UNCHANGED placed
    BY <1>3 DEF Respond
  <2> QED
    BY <2>1, <2>2, AloneStep
<1> QED
  BY <1>2, <1>3

-----------------------------------------------------------------------------
\* Marking the handlers that have been overtaken changes nothing else of them.
LEMMA OvertakenKeeps ==
    ASSUME IntakeType, NEW c, NEW g \in Handlers
    PROVE  /\ Overtaken(c)[g] \in Doings
           /\ Overtaken(c)[g].stage = handler[g].stage
           /\ handler[g].stage # "idle" => Overtaken(c)[g].request = handler[g].request
           /\ handler[g].stage = "answered" => Overtaken(c)[g].code = handler[g].code
<1>1. handler[g] \in Doings
  BY DEF IntakeType
<1> DEFINE marked == [handler[g] EXCEPT !.overtaken = TRUE]
<1>2. Overtaken(c)[g] \in {handler[g]} \cup
         (IF handler[g].stage \in {"scored", "inserted"} THEN {marked} ELSE {})
  BY DEF Overtaken
<1>3. handler[g].stage \in {"scored", "inserted"} =>
         marked \in Doings /\ marked.stage = handler[g].stage
         /\ marked.request = handler[g].request
  BY <1>1, DoingParts DEF Doings
<1> HIDE DEF marked
<1> QED
  BY <1>1, <1>2, <1>3

\* A commit: the id was held by this handler alone, and no order had it.
LEMMA CommitStep ==
    ASSUME IntakeInv, NEW h \in Handlers, Commit(h)
    PROVE  IntakeInv'
<1>0. IntakeType /\ handler[h] \in Doings /\ At(h, "inserted")
  BY DEF IntakeInv, IntakeType, Commit
<1> DEFINE r == handler[h].request
           row == Row(r, handler[h].risk)
           d == [stage |-> "answered", request |-> r, code |-> "placed"]
           n == Len(placed) + 1
<1>1. r \in Requests /\ handler[h].risk \in 0..10
  BY <1>0, DoingParts DEF At
<1>2. row \in Rows /\ row.id = r.id /\ row.digest = Digest(r)
  BY <1>1, RowType
<1>3. d \in Doings /\ d.stage = "answered" /\ d.request = r /\ d.code = "placed"
  BY <1>1 DEF Doings
<1>4. /\ placed' = Append(placed, row)
      /\ handler' = [Overtaken(r.content) EXCEPT ![h] = d]
  BY DEF Commit
<1> HIDE DEF d, row
<1>5. /\ placed' \in Seq(Rows) /\ DOMAIN placed' = DOMAIN placed \cup {n}
      /\ n \notin DOMAIN placed /\ placed'[n] = row
      /\ \A i \in DOMAIN placed : placed'[i] = placed[i]
  BY <1>0, <1>2, <1>4 DEF IntakeType
<1>6. /\ handler'[h] = d
      /\ \A g \in Handlers \ {h} : handler'[g] = Overtaken(r.content)[g]
      /\ DOMAIN handler' = Handlers
  BY <1>4 DEF Overtaken
<1>7. handler' \in [Handlers -> Doings]
  <2>1. \A g \in Handlers : handler'[g] \in Doings
    BY <1>0, <1>3, <1>6, OvertakenKeeps
  <2>2. handler' = [g \in Handlers |-> handler'[g]]
    BY <1>4 DEF Overtaken
  <2> QED
    BY <2>1, <2>2
<1>8. \A x : /\ Existing(x) = Found(placed, x)
             /\ Found(placed', x) = Existing(x) \cup (IF x = r.id THEN {n} ELSE {})
  BY <1>2, <1>5 DEF Existing, Found
<1>9. Existing(r.id) = {} /\ KeyFree(h)
  BY <1>0 DEF IntakeInv, KeysHeld
<1>10. OneOrderPerId'
  BY <1>2, <1>5, <1>9 DEF IntakeInv, OneOrderPerId, Existing
<1>11. \A g \in Handlers \ {h} :
          /\ handler'[g].stage = handler[g].stage
          /\ handler[g].stage # "idle" => handler'[g].request = handler[g].request
          /\ handler[g].stage = "answered" => handler'[g].code = handler[g].code
  BY <1>0, <1>6, OvertakenKeeps
<1>12. KeysHeld'
  <2> SUFFICES ASSUME NEW g \in Handlers
      PROVE  /\ At(g, "inserted")' => Found(placed', handler'[g].request.id) = {}
                                      /\ KeyFree(g)'
             /\ At(g, "clashed")' => Found(placed', handler'[g].request.id) # {}
    BY DEF KeysHeld, Existing, Found
  <2>1. CASE g = h
    BY <1>3, <1>6, <2>1 DEF At
  <2>2. CASE g # h
    <3>1. At(g, "inserted")' => At(g, "inserted") /\ handler'[g].request = handler[g].request
      BY <1>11, <2>2 DEF At
    <3>2. At(g, "inserted") => handler[g].request.id # r.id
      BY <1>9, <2>2 DEF KeyFree
    <3>3. At(g, "inserted")' => Found(placed', handler'[g].request.id) = {}
      BY <1>8, <3>1, <3>2 DEF IntakeInv, KeysHeld
    <3>4. At(g, "inserted")' => KeyFree(g)'
      <4> SUFFICES ASSUME At(g, "inserted")', NEW k \in Handlers \ {g}, At(k, "inserted")'
                   PROVE  handler'[k].request.id # handler'[g].request.id
        BY DEF KeyFree
      <4>1. k # h
        BY <1>3, <1>6 DEF At
      <4>2. At(k, "inserted") /\ handler'[k].request = handler[k].request
        BY <1>11, <4>1 DEF At
      <4> QED
        BY <3>1, <4>2 DEF IntakeInv, KeysHeld, KeyFree
    <3>5. At(g, "clashed")' => Found(placed', handler'[g].request.id) # {}
      BY <1>8, <1>11, <2>2 DEF At, IntakeInv, KeysHeld
    <3> QED
      BY <3>3, <3>4, <3>5
  <2> QED
    BY <2>1, <2>2
<1>13. Right'
  <2> SUFFICES ASSUME NEW g \in Handlers, At(g, "answered")'
      PROVE  LET q == handler'[g].request IN
             /\ handler'[g].code # "conflict" =>
                   \E i \in Found(placed', q.id) : placed'[i].digest = Digest(q)
             /\ handler'[g].code = "conflict" =>
                   \E i \in Found(placed', q.id) : placed'[i].digest # Digest(q)
    BY DEF Right, SuccessIsMine, OtherDigest, Existing, Found
  <2>1. CASE g = h
    BY <1>2, <1>3, <1>5, <1>6, <1>8, <2>1
  <2>2. CASE g # h
    <3>1. /\ At(g, "answered") /\ handler'[g].request = handler[g].request
          /\ handler'[g].code = handler[g].code
      BY <1>11, <2>2 DEF At
    <3>2. \A x : \A i \in Existing(x) : i \in Found(placed', x) /\ placed'[i] = placed[i]
      BY <1>5, <1>8 DEF Existing
    <3> QED
      BY <3>1, <3>2 DEF IntakeInv, Right, SuccessIsMine, OtherDigest
  <2> QED
    BY <2>1, <2>2
<1> QED
  BY <1>5, <1>7, <1>10, <1>12, <1>13 DEF IntakeInv, IntakeType

\* Time passes: no order changes its id or its digest, no handler its request.
LEMMA WindowStep ==
    ASSUME IntakeInv, WindowPasses
    PROVE  IntakeInv'
<1>0. IntakeType
  BY DEF IntakeInv
<1>1. /\ placed' \in Seq(Rows) /\ DOMAIN placed' = DOMAIN placed
      /\ \A i \in DOMAIN placed : /\ placed'[i].id = placed[i].id
                                  /\ placed'[i].digest = placed[i].digest
  <2>1. placed' = [i \in DOMAIN placed |-> [placed[i] EXCEPT !.recent = FALSE]]
    BY DEF WindowPasses
  <2>2. \A i \in DOMAIN placed : placed[i] \in Rows
    BY <1>0 DEF IntakeType
  <2>3. \A i \in DOMAIN placed :
           /\ placed'[i] \in Rows /\ placed'[i].id = placed[i].id
           /\ placed'[i].digest = placed[i].digest
    BY <2>1, <2>2 DEF Rows
  <2>4. DOMAIN placed = 1..Len(placed) /\ Len(placed) \in Nat
    BY <1>0 DEF IntakeType
  <2> QED
    BY <2>1, <2>3, <2>4
<1>2. \A x : /\ Existing(x) = Found(placed, x) /\ Existing(x) = Found(placed', x)
  BY <1>1 DEF Existing, Found
<1>3. \A g \in Handlers :
         /\ handler'[g] \in Doings /\ handler'[g].stage = handler[g].stage
         /\ handler[g].stage # "idle" => handler'[g].request = handler[g].request
         /\ handler[g].stage = "answered" => handler'[g].code = handler[g].code
  <2> TAKE g \in Handlers
  <2> DEFINE marked == [handler[g] EXCEPT !.overtaken = TRUE]
  <2>1. handler[g] \in Doings
    BY <1>0 DEF IntakeType
  <2>2. handler'[g] = IF handler[g].stage \in {"scored", "inserted"}
                      THEN marked ELSE handler[g]
    BY DEF WindowPasses
  <2>3. handler[g].stage \in {"scored", "inserted"} =>
           marked \in Doings /\ marked.stage = handler[g].stage
           /\ marked.request = handler[g].request
    BY <2>1, DoingParts DEF Doings
  <2> HIDE DEF marked
  <2> QED
    BY <2>1, <2>2, <2>3
<1>4. handler' \in [Handlers -> Doings]
  <2>1. handler' = [g \in Handlers |-> handler'[g]]
    BY DEF WindowPasses
  <2> QED
    BY <1>3, <2>1
<1>5. OneOrderPerId'
  BY <1>1 DEF IntakeInv, OneOrderPerId
<1>6. KeysHeld'
  <2>1. \A g \in Handlers : /\ At(g, "inserted")' <=> At(g, "inserted")
                            /\ At(g, "clashed")' <=> At(g, "clashed")
    BY <1>3 DEF At
  <2>2. \A g \in Handlers : At(g, "inserted") \/ At(g, "clashed") =>
           handler'[g].request = handler[g].request
    BY <1>3 DEF At
  <2>3. \A g \in Handlers :
           /\ At(g, "inserted") =>
                 /\ Found(placed', handler'[g].request.id) = {}
                 /\ \A k \in Handlers \ {g} : At(k, "inserted") =>
                       handler'[k].request.id # handler'[g].request.id
           /\ At(g, "clashed") => Found(placed', handler'[g].request.id) # {}
    BY <1>2, <2>2 DEF IntakeInv, KeysHeld, KeyFree
  <2> QED
    BY <2>1, <2>3 DEF KeysHeld, KeyFree, Existing, Found
<1>7. Right'
  <2> SUFFICES ASSUME NEW g \in Handlers, At(g, "answered")'
      PROVE  LET q == handler'[g].request IN
             /\ handler'[g].code # "conflict" =>
                   \E i \in Found(placed', q.id) : placed'[i].digest = Digest(q)
             /\ handler'[g].code = "conflict" =>
                   \E i \in Found(placed', q.id) : placed'[i].digest # Digest(q)
    BY DEF Right, SuccessIsMine, OtherDigest, Existing, Found
  <2>1. /\ At(g, "answered") /\ handler'[g].request = handler[g].request
        /\ handler'[g].code = handler[g].code
    BY <1>3 DEF At
  <2>2. \A x : \A i \in Existing(x) : i \in Found(placed', x)
                                      /\ placed'[i].digest = placed[i].digest
    BY <1>1, <1>2 DEF Existing
  <2> QED
    BY <2>1, <2>2 DEF IntakeInv, Right, SuccessIsMine, OtherDigest
<1> QED
  BY <1>1, <1>4, <1>5, <1>6, <1>7 DEF IntakeInv, IntakeType

-----------------------------------------------------------------------------
LEMMA IntakeInitially == IntakeInit => IntakeInv
<1> SUFFICES ASSUME IntakeInit PROVE IntakeInv
  OBVIOUS
<1>1. placed = <<>> /\ \A h \in Handlers : handler[h] = Idle
  BY DEF IntakeInit
<1>2. \A h \in Handlers : handler[h].stage = "idle"
  BY <1>1 DEF Idle
<1>3. IntakeType
  BY DEF IntakeType, IntakeInit, Doings
<1>4. OneOrderPerId
  BY <1>1 DEF OneOrderPerId
<1>5. KeysHeld /\ Right
  BY <1>2 DEF KeysHeld, Right, SuccessIsMine, OtherDigest, At
<1> QED
  BY <1>3, <1>4, <1>5 DEF IntakeInv

\* Every step of the intake keeps its invariant, whoever sends the requests.
LEMMA IntakeStep == IntakeInv /\ [IntakeNext]_intake => IntakeInv'
<1> SUFFICES ASSUME IntakeInv, [IntakeNext]_intake PROVE IntakeInv'
  OBVIOUS
<1>1. CASE UNCHANGED intake
  BY <1>1 DEF intake, IntakeInv, IntakeType, OneOrderPerId, KeysHeld, Right,
     SuccessIsMine, OtherDigest, Existing, At, KeyFree
<1>2. CASE WindowPasses
  BY <1>2, WindowStep
<1>3. ASSUME NEW h \in Handlers, NEW r \in Requests, Receive(h, r) PROVE IntakeInv'
  BY <1>3, ReceiveStep
<1>4. ASSUME NEW h \in Handlers, Serve(h) PROVE IntakeInv'
  BY <1>4, ScoreStep, InsertStep, SecondLookStep, CommitStep DEF Serve
<1>5. ASSUME NEW h \in Handlers, Die(h) \/ Respond(h) PROVE IntakeInv'
  BY <1>5, EndStep
<1> QED
  BY <1>1, <1>2, <1>3, <1>4, <1>5 DEF IntakeNext

\* A row's digest is of its own id and content, so that another digest under the
\* same id is of other content or of another form.
LEMMA RefusalsReal == IntakeInv => ConflictIsReal
<1> SUFFICES ASSUME IntakeInv, NEW h \in Handlers, At(h, "answered"),
                    handler[h].code = "conflict"
             PROVE  LET r == handler[h].request
                    IN  \E i \in Existing(r.id) :
                           placed[i].content = r.content => placed[i].digest[3] # Form(r)
  BY DEF ConflictIsReal
<1> DEFINE r == handler[h].request
<1>1. PICK i \in Existing(r.id) : placed[i].digest # Digest(r)
  BY DEF IntakeInv, Right, OtherDigest
<1>2. i \in DOMAIN placed /\ placed[i].id = r.id
  BY <1>1 DEF Existing
<1>3. placed[i] \in Rows
  BY <1>2 DEF IntakeInv, IntakeType
<1>4. PICK q \in Requests : placed[i].digest = Digest(q)
  BY <1>3 DEF Rows
<1>5. q.id = r.id /\ q.content = placed[i].content /\ placed[i].digest[3] = Form(q)
  BY <1>2, <1>3, <1>4 DEF Rows, Digest
<1>6. placed[i].content = r.content => placed[i].digest[3] # Form(r)
  BY <1>1, <1>4, <1>5 DEF Digest
<1> QED
  BY <1>1, <1>6

\* Whoever sends what to the intake, and however many handlers serve it: an
\* external id is one order, who is told of success finds the order that was sent,
\* and who is refused finds one of other content or, where bytes are hashed, of
\* other bytes (_place_order and the unique key).
THEOREM IntakeSafety == IntakeSpec => [](OneOrderPerId /\ SuccessIsMine /\ ConflictIsReal)
<1>1. IntakeInv => OneOrderPerId /\ SuccessIsMine /\ ConflictIsReal
  BY RefusalsReal DEF IntakeInv, Right
<1> QED
  BY <1>1, IntakeInitially, IntakeStep, PTL DEF IntakeSpec

-----------------------------------------------------------------------------
(***************************************************************************)
(* The form in front of it.                                                *)
(***************************************************************************)
\* The page's request for the id x, and what it says.
FormRequest(x) == [via |-> "api", id |-> x, content |-> form, raw |-> "sent"]

\* Every use of the id x says what D is the digest of.
AllSay(x, D) ==
    /\ \A i \in DOMAIN placed : placed[i].id = x => placed[i].digest = D
    /\ \A g \in Handlers :
          ~At(g, "idle") /\ handler[g].request.id = x => Digest(handler[g].request) = D

PageType ==
    /\ mode \in {"demo", "live"} /\ form \in Forms /\ switched \in BOOLEAN
    /\ used \subseteq Uids /\ pendingRequest \in used \cup {NoId}
    /\ doing \in {"nothing", "timer"} \cup Handlers
    /\ sent \in 0..MaxDeliveries

\* An id of the form that is in use was drawn before.
Drawn ==
    /\ \A i \in DOMAIN placed : placed[i].id \in Uids => placed[i].id \in used
    /\ \A g \in Handlers :
          ~At(g, "idle") /\ handler[g].request.id \in Uids => handler[g].request.id \in used

\* What was tried since the last change is the pending id, if anything.
OneTried ==
    /\ mine = {} \/ (pendingRequest # NoId /\ mine = {pendingRequest})
    /\ mode = "demo" \/ doing = "timer" => mine = {}

\* Unless the mode was switched, everything sent with the pending id is the form,
\* and everything sent with the id that is being answered is what was sent.
OneMeaning ==
    /\ ~switched /\ pendingRequest # NoId =>
          AllSay(pendingRequest, Digest(FormRequest(pendingRequest)))
    /\ doing \in Handlers =>
          /\ ~At(doing, "idle") /\ handler[doing].request.id \in Uids
          /\ ~switched => AllSay(handler[doing].request.id, Digest(handler[doing].request))

\* Inductive, together with the intake's own invariant.
PageInv == PageType /\ Drawn /\ OneTried /\ OneMeaning

-----------------------------------------------------------------------------
\* The server alone: requests stay what they are, and a new order is a handler's.
Traced ==
    /\ \A g \in Handlers : ~At(g, "idle")' =>
          ~At(g, "idle") /\ handler'[g].request = handler[g].request
    /\ \A i \in DOMAIN placed' :
          \/ /\ i \in DOMAIN placed
             /\ placed'[i].id = placed[i].id /\ placed'[i].digest = placed[i].digest
          \/ \E g \in Handlers :
                /\ ~At(g, "idle") /\ placed'[i].id = handler[g].request.id
                /\ placed'[i].digest = Digest(handler[g].request)

LEMMA ServerTraced ==
    ASSUME IntakeInv,
           \/ WindowPasses
           \/ \E h \in Handlers : Serve(h) \/ Die(h) \/ Respond(h)
    PROVE  Traced
<1>0. IntakeType
  BY DEF IntakeInv
<1>1. ASSUME NEW h \in Handlers, NEW d, handler' = [handler EXCEPT ![h] = d],
             UNCHANGED placed, d.stage # "idle" =>
                ~At(h, "idle") /\ d.request = handler[h].request
      PROVE  Traced
  BY <1>0, <1>1 DEF Traced, At, IntakeType
<1>2. CASE WindowPasses
  <2>1. \A g \in Handlers : handler'[g].stage = handler[g].stage
           /\ (handler[g].stage # "idle" => handler'[g].request = handler[g].request)
    <3> TAKE g \in Handlers
    <3> DEFINE marked == [handler[g] EXCEPT !.overtaken = TRUE]
    <3>1. handler[g] \in Doings
      BY <1>0 DEF IntakeType
    <3>2. handler'[g] = IF handler[g].stage \in {"scored", "inserted"}
                        THEN marked ELSE handler[g]
      BY <1>2 DEF WindowPasses
    <3>3. handler[g].stage \in {"scored", "inserted"} =>
             marked.stage = handler[g].stage /\ marked.request = handler[g].request
      BY <3>1, DoingParts
    <3> HIDE DEF marked
    <3> QED
      BY <3>2, <3>3
  <2>2. /\ DOMAIN placed' = DOMAIN placed
        /\ \A i \in DOMAIN placed : /\ placed'[i].id = placed[i].id
                                    /\ placed'[i].digest = placed[i].digest
    <3>1. placed' = [i \in DOMAIN placed |-> [placed[i] EXCEPT !.recent = FALSE]]
      BY <1>2 DEF WindowPasses
    <3>2. \A i \in DOMAIN placed : placed[i] \in Rows
      BY <1>0 DEF IntakeType
    <3> QED
      BY <3>1, <3>2 DEF Rows
  <2> QED
    BY <2>1, <2>2 DEF Traced, At
<1>3. ASSUME NEW h \in Handlers, Score(h) \/ Insert(h) \/ SecondLook(h) \/ Die(h) \/ Respond(h)
      PROVE  Traced
  <2>0. handler[h] \in Doings
    BY <1>0 DEF IntakeType
  <2>1. CASE Score(h)
    <3> DEFINE d == [stage |-> "scored", request |-> handler[h].request,
                     risk |-> RiskOf(handler[h].request.content), overtaken |-> FALSE]
    <3>1. handler' = [handler EXCEPT ![h] = d] /\ UNCHANGED placed /\ At(h, "looked")
      BY <2>1 DEF Score
    <3>2. d.request = handler[h].request
      OBVIOUS
    <3> HIDE DEF d
    <3> QED
      BY <1>1, <3>1, <3>2 DEF At
  <2>2. CASE Insert(h)
    <3> DEFINE d == IF Existing(handler[h].request.id) = {}
                    THEN [handler[h] EXCEPT !.stage = "inserted"]
                    ELSE [stage |-> "clashed", request |-> handler[h].request]
    <3>1. handler' = [handler EXCEPT ![h] = d] /\ UNCHANGED placed /\ At(h, "scored")
      BY <1>0, <2>2 DEF Insert, IntakeType
    <3>2. d.request = handler[h].request
      BY <2>0, <3>1, DoingParts DEF At
    <3> HIDE DEF d
    <3> QED
      BY <1>1, <3>1, <3>2 DEF At
  <2>3. CASE SecondLook(h)
    <3> DEFINE d == [stage |-> "answered", request |-> handler[h].request,
                     code |-> IF {i \in Existing(handler[h].request.id) :
                                    placed[i].digest = Digest(handler[h].request)} # {}
                              THEN "duplicate" ELSE "conflict"]
    <3>1. handler' = [handler EXCEPT ![h] = d] /\ UNCHANGED placed /\ At(h, "clashed")
      BY <2>3 DEF SecondLook
    <3>2. d.request = handler[h].request
      OBVIOUS
    <3> HIDE DEF d
    <3> QED
      BY <1>1, <3>1, <3>2 DEF At
  <2>4. CASE Die(h)
    <3> DEFINE d == [stage |-> "died", request |-> handler[h].request]
    <3>1. handler' = [handler EXCEPT ![h] = d] /\ UNCHANGED placed
      BY <1>0, <2>4 DEF Die, IntakeType
    <3>2. d.request = handler[h].request /\ ~At(h, "idle")
      BY <2>4 DEF Die, At
    <3> HIDE DEF d
    <3> QED
      BY <1>1, <3>1, <3>2
  <2>5. CASE Respond(h)
    BY <1>1, <2>5 DEF Respond, Idle
  <2> QED
    BY <1>3, <2>1, <2>2, <2>3, <2>4, <2>5
<1>4. ASSUME NEW h \in Handlers, Commit(h)
      PROVE  Traced
  <2> DEFINE r == handler[h].request
             row == Row(r, handler[h].risk)
             d == [stage |-> "answered", request |-> r, code |-> "placed"]
  <2>1. /\ placed' = Append(placed, row) /\ At(h, "inserted")
        /\ handler' = [Overtaken(r.content) EXCEPT ![h] = d]
    BY <1>4 DEF Commit
  <2>2. row.id = r.id /\ row.digest = Digest(r) /\ d.request = r
    BY DEF Row
  <2> HIDE DEF row, d
  <2>3. \A g \in Handlers : handler'[g] = IF g = h THEN d ELSE Overtaken(r.content)[g]
    BY <2>1 DEF Overtaken
  <2>4. \A g \in Handlers : ~At(g, "idle")' =>
           ~At(g, "idle") /\ handler'[g].request = handler[g].request
    BY <1>0, <2>1, <2>2, <2>3, OvertakenKeeps DEF At
  <2>5. /\ DOMAIN placed' = DOMAIN placed \cup {Len(placed) + 1}
        /\ placed'[Len(placed) + 1] = row
        /\ \A i \in DOMAIN placed : placed'[i] = placed[i]
    BY <1>0, <2>1 DEF IntakeType
  <2> QED
    BY <2>1, <2>2, <2>4, <2>5 DEF Traced, At
<1> QED
  BY <1>2, <1>3, <1>4 DEF Serve

\* A traced step brings no new use of any id.
LEMMA TracedSays ==
    ASSUME Traced, NEW x, NEW D, AllSay(x, D)
    PROVE  /\ \A i \in DOMAIN placed' : placed'[i].id = x => placed'[i].digest = D
           /\ \A g \in Handlers : ~At(g, "idle")' /\ handler'[g].request.id = x =>
                 Digest(handler'[g].request) = D
BY DEF Traced, AllSay

\* No use of any id but its own is new when a handler receives a request.
LEMMA ReceiveSays ==
    ASSUME IntakeType, NEW h \in Handlers, NEW r \in Requests, Receive(h, r)
    PROVE  /\ UNCHANGED placed /\ At(h, "idle")
           /\ ~At(h, "idle")' /\ handler'[h].request = r
           /\ \A g \in Handlers \ {h} : handler'[g] = handler[g]
<1> DEFINE d == IF Existing(r.id) = {} THEN [stage |-> "looked", request |-> r]
                ELSE Verdict(r, CHOOSE i \in Existing(r.id) : TRUE)
<1>1. handler' = [handler EXCEPT ![h] = d] /\ UNCHANGED placed /\ At(h, "idle")
  BY DEF Receive
<1>2. d.stage # "idle" /\ d.request = r
  BY DEF Verdict
<1> HIDE DEF d
<1> QED
  BY <1>1, <1>2 DEF At, IntakeType

\* The invariant where the page does nothing but wait, or forget.
LEMMA TracedStep ==
    ASSUME PageInv, Traced, UNCHANGED <<mode, form, used, sent, switched>>,
           \/ UNCHANGED pendingRequest
           \/ pendingRequest' = NoId /\ (mine = {} \/ mine' = {}),
           UNCHANGED mine \/ mine' = {},
           \/ UNCHANGED doing /\ (doing \in Handlers => ~At(doing, "idle")')
           \/ doing' = "nothing"
    PROVE  PageInv'
<1>1. PageType'
  BY DEF PageInv, PageType
<1>2. Drawn'
  BY DEF PageInv, Drawn, Traced, At
<1>3. OneTried'
  BY DEF PageInv, OneTried
<1>4. ~switched /\ pendingRequest' # NoId =>
         AllSay(pendingRequest, Digest(FormRequest(pendingRequest)))'
  <2> SUFFICES ASSUME ~switched, pendingRequest' # NoId
               PROVE  AllSay(pendingRequest, Digest(FormRequest(pendingRequest)))'
    OBVIOUS
  <2>1. /\ pendingRequest' = pendingRequest
        /\ AllSay(pendingRequest, Digest(FormRequest(pendingRequest)))
    BY DEF PageInv, OneMeaning
  <2>2. Digest(FormRequest(pendingRequest))' = Digest(FormRequest(pendingRequest))
    BY <2>1 DEF Digest, FormRequest
  <2> QED
    BY <2>1, <2>2, TracedSays DEF AllSay, At
<1>5. ASSUME doing' \in Handlers
      PROVE  /\ ~At(doing, "idle")' /\ handler'[doing'].request.id \in Uids
             /\ ~switched => AllSay(handler[doing].request.id,
                                    Digest(handler[doing].request))'
  <2>1. doing' = doing /\ ~At(doing, "idle")'
    BY <1>5, DispatchAssumption
  <2>2. ~At(doing, "idle") /\ handler'[doing].request = handler[doing].request
    BY <1>5, <2>1 DEF Traced, At
  <2>3. /\ handler[doing].request.id \in Uids
        /\ ~switched => AllSay(handler[doing].request.id, Digest(handler[doing].request))
    BY <1>5, <2>1 DEF PageInv, OneMeaning
  <2>4. ~switched => AllSay(handler[doing].request.id, Digest(handler[doing].request))'
    <3> DEFINE x == handler[doing].request.id
               D == Digest(handler[doing].request)
    <3>1. x' = x /\ D' = D
      BY <2>1, <2>2 DEF Digest
    <3>2. ~switched => AllSay(x, D)
      BY <2>3
    <3> HIDE DEF x, D
    <3>3. ASSUME ~switched PROVE AllSay(x, D)'
      <4>1. /\ \A i \in DOMAIN placed' : placed'[i].id = x => placed'[i].digest = D
            /\ \A g \in Handlers : ~At(g, "idle")' /\ handler'[g].request.id = x =>
                  Digest(handler'[g].request) = D
        BY <3>2, <3>3, TracedSays
      <4> QED
        BY <3>1, <4>1 DEF AllSay
    <3> QED
      BY <3>3 DEF x, D
  <2> QED
    BY <2>1, <2>2, <2>3, <2>4
<1> QED
  BY <1>1, <1>2, <1>3, <1>4, <1>5 DEF PageInv, OneMeaning

\* The invariant where a request for an order of the web shop comes in.
LEMMA ShopStep ==
    ASSUME IntakeInv, PageInv, NEW h \in Handlers, NEW r \in ShopRequests, ShopDelivers(h, r)
    PROVE  PageInv'
<1>1. r \in Requests /\ r.id \notin Uids
  BY DispatchAssumption
<1>2. Receive(h, r) /\ UNCHANGED page /\ sent < MaxDeliveries /\ sent' = sent + 1
  BY DEF ShopDelivers
<1>3. /\ UNCHANGED placed /\ At(h, "idle")
      /\ ~At(h, "idle")' /\ handler'[h].request = r
      /\ \A g \in Handlers \ {h} : handler'[g] = handler[g]
  BY <1>1, <1>2, ReceiveSays DEF IntakeInv
<1>4. \A x \in Uids : \A D : AllSay(x, D) =>
         /\ \A i \in DOMAIN placed' : placed'[i].id = x => placed'[i].digest = D
         /\ \A g \in Handlers : ~At(g, "idle")' /\ handler'[g].request.id = x =>
               Digest(handler'[g].request) = D
  BY <1>1, <1>3 DEF AllSay, At
<1>5. PageType'
  BY <1>2, DispatchAssumption DEF PageInv, PageType, page
<1>6. Drawn' /\ OneTried'
  BY <1>1, <1>2, <1>3 DEF PageInv, Drawn, OneTried, page, At
<1>7. ~switched /\ pendingRequest # NoId =>
         AllSay(pendingRequest, Digest(FormRequest(pendingRequest)))'
  <2>1. pendingRequest # NoId => pendingRequest \in Uids
    BY DEF PageInv, PageType
  <2>2. pendingRequest' = pendingRequest
        /\ Digest(FormRequest(pendingRequest))' = Digest(FormRequest(pendingRequest))
    BY <1>2 DEF page, Digest, FormRequest
  <2>3. ~switched /\ pendingRequest # NoId =>
           AllSay(pendingRequest, Digest(FormRequest(pendingRequest)))
    BY DEF PageInv, OneMeaning
  <2> QED
    BY <1>4, <2>1, <2>2, <2>3 DEF AllSay, At
<1>8. ASSUME doing \in Handlers
      PROVE  /\ ~At(doing, "idle")' /\ handler'[doing].request.id \in Uids
             /\ ~switched => AllSay(handler[doing].request.id,
                                    Digest(handler[doing].request))'
  <2>1. doing # h /\ doing' = doing
    BY <1>2, <1>3, <1>8 DEF PageInv, OneMeaning, page
  <2>2. handler'[doing] = handler[doing]
    BY <1>3, <1>8, <2>1
  <2>3. /\ ~At(doing, "idle") /\ handler[doing].request.id \in Uids
        /\ ~switched => AllSay(handler[doing].request.id, Digest(handler[doing].request))
    BY <1>8 DEF PageInv, OneMeaning
  <2> DEFINE x == handler[doing].request.id
             D == Digest(handler[doing].request)
  <2>4. x' = x /\ D' = D
    BY <2>1, <2>2 DEF Digest
  <2>5. x \in Uids /\ (~switched => AllSay(x, D))
    BY <2>3
  <2> HIDE DEF x, D
  <2>6. ~switched => AllSay(x, D)'
    BY <1>4, <2>4, <2>5 DEF AllSay, At
  <2>7. ~At(doing, "idle")'
    BY <2>1, <2>2, <2>3 DEF At
  <2> QED
    BY <2>2, <2>3, <2>6, <2>7 DEF x, D
<1> QED
  BY <1>2, <1>5, <1>6, <1>7, <1>8 DEF PageInv, OneMeaning, page

\* The invariant where only the page changes, and gives up its id or its mode.
LEMMA PageAlone ==
    ASSUME PageInv, UNCHANGED intake, PageType', OneTried',
           UNCHANGED doing \/ doing' = "nothing", used \subseteq used',
           switched' \/ (pendingRequest' = NoId /\ UNCHANGED switched)
    PROVE  PageInv'
<1>1. UNCHANGED <<placed, handler>> /\ \A x, D : AllSay(x, D) => AllSay(x, D)'
  BY DEF intake, AllSay, At
<1>2. Drawn'
  BY <1>1 DEF PageInv, Drawn, At
<1>3. \A r : Digest(r)' = Digest(r)
  BY DEF Digest
<1>4. OneMeaning'
  <2>1. doing' \in Handlers => doing' = doing
    BY DispatchAssumption
  <2>2. doing \in Handlers =>
           /\ ~At(doing, "idle") /\ handler[doing].request.id \in Uids
           /\ ~switched => AllSay(handler[doing].request.id, Digest(handler[doing].request))
    BY DEF PageInv, OneMeaning
  <2>3. ASSUME doing' \in Handlers
        PROVE  /\ ~At(doing, "idle")' /\ handler'[doing'].request.id \in Uids
               /\ ~switched' => AllSay(handler[doing].request.id,
                                       Digest(handler[doing].request))'
    BY <1>1, <2>1, <2>2, <2>3 DEF AllSay, At, Digest
  <2> QED
    BY <2>3 DEF OneMeaning
<1> QED
  BY <1>2, <1>4 DEF PageInv

LEMMA DefaultFormOK == DefaultForm \in Forms
BY DispatchAssumption DEF DefaultForm

LEMMA UserStep ==
    ASSUME PageInv,
           (\E f \in Forms : Edit(f)) \/ SwitchMode \/ Reload
    PROVE  PageInv'
<1>1. CASE \E f \in Forms : Edit(f)
  <2>1. PICK f \in Forms : Edit(f)
    BY <1>1
  <2>2. PageType' /\ OneTried' /\ UNCHANGED <<intake, doing, used, switched>>
        /\ pendingRequest' = NoId
    BY <2>1 DEF Edit, ResetField, PageInv, PageType, OneTried
  <2> QED
    BY <2>2, PageAlone
<1>2. CASE SwitchMode
  <2>1. PageType' /\ OneTried' /\ UNCHANGED <<intake, doing, used>> /\ switched'
    BY <1>2, DispatchAssumption DEF SwitchMode, PageInv, PageType, OneTried
  <2> QED
    BY <2>1, PageAlone
<1>3. CASE Reload
  <2>1. PageType' /\ OneTried' /\ UNCHANGED <<intake, used, switched>>
        /\ doing' = "nothing" /\ pendingRequest' = NoId
    BY <1>3, DefaultFormOK DEF Reload, PageInv, PageType, OneTried
  <2> QED
    BY <2>1, PageAlone
<1> QED
  BY <1>1, <1>2, <1>3

-----------------------------------------------------------------------------
\* The id of a try means the form: because it is new, or because nothing was
\* changed since it was drawn.
LEMMA TryMeans ==
    ASSUME PageInv, NEW id \in Uids, TryWith(id)
    PROVE  /\ doing = "nothing" /\ id # NoId
           /\ pendingRequest' = id /\ used' = used \cup {id}
           /\ switched' \in BOOLEAN
           /\ mine = {} \/ mine = {id}
           /\ ~switched' => AllSay(id, Digest(FormRequest(id)))
<1>1. /\ doing = "nothing" /\ pendingRequest' = id /\ used' = used \cup {id}
      /\ switched' = (switched /\ pendingRequest # NoId)
      /\ IF pendingRequest # NoId THEN id = pendingRequest ELSE id \in Uids \ used
  BY DEF TryWith
<1>2. CASE pendingRequest # NoId
  BY <1>1, <1>2, DispatchAssumption DEF PageInv, PageType, OneTried, OneMeaning
<1>3. CASE pendingRequest = NoId
  <2>1. id \notin used
    BY <1>1, <1>3
  <2>2. AllSay(id, Digest(FormRequest(id)))
    BY <2>1 DEF PageInv, Drawn, AllSay
  <2> QED
    BY <1>1, <1>3, <2>2, DispatchAssumption DEF PageInv, PageType, OneTried
<1> QED
  BY <1>2, <1>3

\* The invariant where a try reaches nobody: on the way, or in the demo.
LEMMA UnreachedStep ==
    ASSUME PageInv, NEW id \in Uids, CreateUnreached(id) \/ CreateDemo(id)
    PROVE  PageInv'
<1>1. TryWith(id) /\ UNCHANGED <<intake, mode, form, sent>>
  BY DEF CreateUnreached, CreateDemo
<1>2. /\ doing = "nothing" /\ id # NoId
      /\ pendingRequest' = id /\ used' = used \cup {id}
      /\ switched' \in BOOLEAN
      /\ mine = {} \/ mine = {id}
      /\ ~switched' => AllSay(id, Digest(FormRequest(id)))
  BY <1>1, TryMeans
<1>3. \/ mode = "live" /\ doing' = "nothing" /\ mine' = mine \cup {id}
      \/ mode = "demo" /\ doing' = "timer" /\ UNCHANGED mine
  BY <1>2 DEF CreateUnreached, CreateDemo
<1>4. PageType'
  BY <1>1, <1>2, <1>3 DEF PageInv, PageType
<1>5. Drawn'
  BY <1>1, <1>2 DEF PageInv, Drawn, intake, At
<1>6. OneTried'
  BY <1>1, <1>2, <1>3 DEF PageInv, OneTried
<1>7. OneMeaning'
  <2>1. doing' \notin Handlers
    BY <1>3, DispatchAssumption
  <2>2. Digest(FormRequest(pendingRequest))' = Digest(FormRequest(id))
    BY <1>1, <1>2 DEF Digest, FormRequest
  <2>3. ~switched' => AllSay(pendingRequest, Digest(FormRequest(pendingRequest)))'
    BY <1>1, <1>2, <2>2 DEF AllSay, intake, At
  <2> QED
    BY <2>1, <2>3 DEF OneMeaning
<1> QED
  BY <1>4, <1>5, <1>6, <1>7 DEF PageInv

\* The invariant where a try reaches a handler.
LEMMA CreateStep ==
    ASSUME IntakeInv, PageInv, NEW id \in Uids, NEW h \in Handlers, CreateLive(h, id)
    PROVE  PageInv'
<1>1. /\ TryWith(id) /\ Receive(h, FormRequest(id)) /\ UNCHANGED <<mode, form>>
      /\ mode = "live" /\ sent < MaxDeliveries /\ sent' = sent + 1
      /\ doing' = h /\ mine' = mine \cup {id}
  BY DEF CreateLive, FormRequest
<1>2. FormRequest(id) \in Requests /\ FormRequest(id).id = id
  BY DispatchAssumption DEF PageInv, PageType, FormRequest, Requests
<1>3. /\ doing = "nothing" /\ id # NoId
      /\ pendingRequest' = id /\ used' = used \cup {id}
      /\ switched' \in BOOLEAN
      /\ mine = {} \/ mine = {id}
      /\ ~switched' => AllSay(id, Digest(FormRequest(id)))
  BY <1>1, TryMeans
<1>4. /\ UNCHANGED placed
      /\ ~At(h, "idle")' /\ handler'[h].request = FormRequest(id)
      /\ \A g \in Handlers \ {h} : handler'[g] = handler[g]
  BY <1>1, <1>2, ReceiveSays DEF IntakeInv
<1>5. PageType'
  BY <1>1, <1>3, DispatchAssumption DEF PageInv, PageType
<1>6. Drawn'
  BY <1>2, <1>3, <1>4 DEF PageInv, Drawn, At
<1>7. OneTried'
  BY <1>1, <1>3, DispatchAssumption DEF PageInv, OneTried
<1>8. ~switched' =>
         /\ \A i \in DOMAIN placed' :
               placed'[i].id = id => placed'[i].digest = Digest(FormRequest(id))
         /\ \A g \in Handlers : ~At(g, "idle")' /\ handler'[g].request.id = id =>
               Digest(handler'[g].request) = Digest(FormRequest(id))
  BY <1>3, <1>4 DEF AllSay, At
<1>9. OneMeaning'
  <2>1. Digest(FormRequest(pendingRequest))' = Digest(FormRequest(id))
    BY <1>1, <1>3 DEF Digest, FormRequest
  <2>2. Digest(handler[doing].request)' = Digest(FormRequest(id))
    BY <1>1, <1>4 DEF Digest
  <2>3. /\ ~At(doing, "idle")' /\ handler'[doing'].request.id = id
    BY <1>1, <1>2, <1>4 DEF At
  <2> QED
    BY <1>3, <1>8, <2>1, <2>2, <2>3 DEF OneMeaning, AllSay
<1> QED
  BY <1>5, <1>6, <1>7, <1>9 DEF PageInv

\* An answer, or the end of a connection, and the demo's timer.
LEMMA AnswerStep ==
    ASSUME IntakeInv, PageInv, NEW h \in Handlers,
           Accepted(h) \/ NotAccepted(h) \/ AnswerElsewhere(h)
    PROVE  PageInv'
<1>1. CASE Accepted(h)
  <2>1. Traced
    BY <1>1, ServerTraced DEF Accepted
  <2> QED
    BY <1>1, <2>1, TracedStep DEF Accepted
<1>2. CASE NotAccepted(h)
  <2>1. UNCHANGED intake \/ Respond(h)
    BY <1>2 DEF NotAccepted, Failed
  <2>2. UNCHANGED intake => Traced
    BY DEF intake, Traced, At
  <2>3. Traced
    BY <2>1, <2>2, ServerTraced
  <2> QED
    BY <1>2, <2>3, TracedStep DEF NotAccepted
<1>3. CASE AnswerElsewhere(h)
  <2>1. Traced /\ UNCHANGED <<page, sent>> /\ Respond(h) /\ doing # h
    BY <1>3, ServerTraced DEF AnswerElsewhere
  <2>2. doing \in Handlers => ~At(doing, "idle")'
    BY <2>1 DEF Respond, PageInv, OneMeaning, At, page, IntakeInv, IntakeType
  <2> QED
    BY <2>1, <2>2, TracedStep DEF page
<1> QED
  BY <1>1, <1>2, <1>3

LEMMA DemoDoneStep ==
    ASSUME PageInv, DemoDone
    PROVE  PageInv'
<1>1. Traced
  BY DEF DemoDone, intake, Traced, At
<1>2. mine = {}
  BY DEF DemoDone, PageInv, OneTried
<1> QED
  BY <1>1, <1>2, TracedStep DEF DemoDone

LEMMA ServerStep ==
    ASSUME IntakeInv, PageInv, Server
    PROVE  PageInv'
<1>1. Traced /\ UNCHANGED <<page, sent>>
  BY ServerTraced DEF Server
<1>2. doing \in Handlers => ~At(doing, "idle")'
  <2>1. doing \in Handlers => ~At(doing, "idle")
    BY DEF PageInv, OneMeaning
  <2>2. \A g \in Handlers : ~At(g, "idle") => ~At(g, "idle")'
    <3> SUFFICES ASSUME NEW g \in Handlers, ~At(g, "idle") PROVE ~At(g, "idle")'
      OBVIOUS
    <3>0. IntakeType /\ handler[g] \in Doings
      BY DEF IntakeInv, IntakeType
    <3>1. CASE WindowPasses
      <4>1. handler'[g] = IF handler[g].stage \in {"scored", "inserted"}
                          THEN [handler[g] EXCEPT !.overtaken = TRUE] ELSE handler[g]
        BY <3>1 DEF WindowPasses
      <4> QED
        BY <3>0, <4>1, DoingParts DEF At
    <3>2. ASSUME NEW h \in Handlers, Score(h) \/ SecondLook(h) \/ Die(h)
          PROVE  ~At(g, "idle")'
      BY <3>0, <3>2 DEF Score, SecondLook, Die, At, IntakeType
    <3>3. ASSUME NEW h \in Handlers, Insert(h)
          PROVE  ~At(g, "idle")'
      <4>1. handler'[h].stage \in {"inserted", "clashed"}
        BY <3>0, <3>3, DoingParts DEF Insert, At, IntakeType
      <4>2. g # h => handler'[g] = handler[g]
        BY <3>3 DEF Insert, IntakeType
      <4> QED
        BY <4>1, <4>2 DEF At
    <3>4. ASSUME NEW h \in Handlers, Commit(h)
          PROVE  ~At(g, "idle")'
      <4>1. handler' = [Overtaken(handler[h].request.content) EXCEPT ![h] =
               [stage |-> "answered", request |-> handler[h].request, code |-> "placed"]]
        BY <3>4 DEF Commit
      <4>2. handler'[g].stage = IF g = h THEN "answered" ELSE handler[g].stage
        BY <3>0, <4>1, OvertakenKeeps DEF Overtaken
      <4> QED
        BY <4>2 DEF At
    <3> QED
      BY <3>1, <3>2, <3>3, <3>4 DEF Server, Serve
  <2> QED
    BY <1>1, <2>1, <2>2 DEF page, At
<1> QED
  BY <1>1, <1>2, TracedStep DEF page

-----------------------------------------------------------------------------
\* Whatever page and shop do, the intake sees one of its own steps.
LEMMA DispatchServes ==
    ASSUME [DispatchNext]_vars, form \in Forms
    PROVE  [IntakeNext]_intake
<1>1. CASE UNCHANGED vars
  BY <1>1 DEF vars
<1>2. ASSUME NEW f \in Forms, Edit(f) PROVE UNCHANGED intake
  BY <1>2 DEF Edit
<1>3. SwitchMode \/ Reload \/ DemoDone => UNCHANGED intake
  BY DEF SwitchMode, Reload, DemoDone
<1>4. Server => IntakeNext
  BY DEF Server, IntakeNext
<1>5. ASSUME NEW id \in Uids, CreateUnreached(id) \/ CreateDemo(id) PROVE UNCHANGED intake
  BY <1>5 DEF CreateUnreached, CreateDemo
<1>6. ASSUME NEW h \in Handlers, Accepted(h) \/ NotAccepted(h) \/ AnswerElsewhere(h)
      PROVE  Respond(h) \/ UNCHANGED intake
  BY <1>6 DEF Accepted, NotAccepted, Failed, AnswerElsewhere
<1>7. ASSUME NEW h \in Handlers, NEW r \in ShopRequests, ShopDelivers(h, r)
      PROVE  IntakeNext
  BY <1>7, DispatchAssumption DEF ShopDelivers, IntakeNext
<1>8. ASSUME NEW h \in Handlers, NEW id \in Uids, CreateLive(h, id)
      PROVE  IntakeNext
  <2>1. FormRequest(id) \in Requests /\ Receive(h, FormRequest(id))
    BY <1>8, DispatchAssumption DEF CreateLive, FormRequest, Requests
  <2> QED
    BY <2>1 DEF IntakeNext
<1> QED
  BY <1>1, <1>2, <1>3, <1>4, <1>5, <1>6, <1>7, <1>8 DEF DispatchNext, IntakeNext
LEMMA PageStep ==
    ASSUME IntakeInv, PageInv, [DispatchNext]_vars
    PROVE  PageInv'
<1>1. CASE UNCHANGED vars
  <2>1. Traced /\ UNCHANGED <<page, sent, handler>>
    BY <1>1 DEF vars, intake, Traced, At
  <2>2. doing \in Handlers => ~At(doing, "idle")'
    BY <2>1 DEF PageInv, OneMeaning, At, page
  <2> QED
    BY <2>1, <2>2, TracedStep DEF page
<1>2. ASSUME NEW f \in Forms, Edit(f) PROVE PageInv'
  BY <1>2, UserStep
<1>3. CASE SwitchMode \/ Reload
  BY <1>3, UserStep
<1>4. CASE DemoDone
  BY <1>4, DemoDoneStep
<1>5. CASE Server
  BY <1>5, ServerStep
<1>6. ASSUME NEW id \in Uids, CreateUnreached(id) \/ CreateDemo(id) PROVE PageInv'
  BY <1>6, UnreachedStep
<1>7. ASSUME NEW h \in Handlers, NEW id \in Uids, CreateLive(h, id) PROVE PageInv'
  BY <1>7, CreateStep
<1>8. ASSUME NEW h \in Handlers, Accepted(h) \/ NotAccepted(h) \/ AnswerElsewhere(h)
      PROVE  PageInv'
  BY <1>8, AnswerStep
<1>9. ASSUME NEW h \in Handlers, NEW r \in ShopRequests, ShopDelivers(h, r)
      PROVE  PageInv'
  BY <1>9, ShopStep
<1> QED
  BY <1>1, <1>2, <1>3, <1>4, <1>5, <1>6, <1>7, <1>8, <1>9 DEF DispatchNext

LEMMA PageInitially == ASSUME DispatchInit PROVE IntakeInv /\ PageInv
<1>1. IntakeInv
  BY IntakeInitially DEF DispatchInit
<1>2. placed = <<>> /\ \A h \in Handlers : At(h, "idle")
  BY DEF DispatchInit, IntakeInit, At, Idle
<1>3. PageType /\ OneTried
  <2>1. 0 \in 0..MaxDeliveries
    BY DispatchAssumption
  <2> QED
    BY <2>1, DefaultFormOK DEF DispatchInit, PageType, OneTried
<1>4. Drawn
  BY <1>2 DEF Drawn
<1>5. OneMeaning
  BY DispatchAssumption DEF DispatchInit, OneMeaning
<1> QED
  BY <1>1, <1>3, <1>4, <1>5 DEF PageInv

\* What the invariants say of the user in front of the form.
LEMMA OneTriedOnePlaced ==
    ASSUME IntakeInv, PageInv
    PROVE  NoDoublePlacing
<1> DEFINE S == {i \in DOMAIN placed : placed[i].id \in mine}
<1>1. CASE S = {}
  BY <1>1, FS_EmptySet DEF NoDoublePlacing
<1>2. CASE S # {}
  <2>1. PICK i \in S : TRUE
    BY <1>2
  <2>2. S = {i}
    BY <2>1 DEF PageInv, OneTried, IntakeInv, OneOrderPerId
  <2>3. Cardinality(S) = 1
    BY <2>2, FS_Singleton
  <2> QED
    BY <2>3 DEF NoDoublePlacing
<1> QED
  BY <1>1, <1>2

LEMMA NotMineNotSaid ==
    ASSUME IntakeInv, PageInv
    PROVE  ConflictOnlyAfterSwitch
<1> SUFFICES ASSUME NEW h \in Handlers, doing = h, Refused(h), ~switched PROVE FALSE
  BY DEF ConflictOnlyAfterSwitch, PageInv, PageType
<1>1. AllSay(handler[h].request.id, Digest(handler[h].request))
  BY DEF PageInv, OneMeaning
<1>2. PICK i \in Existing(handler[h].request.id) :
             placed[i].digest # Digest(handler[h].request)
  BY DEF IntakeInv, Right, OtherDigest, Refused
<1> QED
  BY <1>1, <1>2 DEF AllSay, Existing

LEMMA Invariance == DispatchSpec => [](IntakeInv /\ PageInv)
<1>1. DispatchInit => IntakeInv /\ PageInv
  BY PageInitially
<1>2. IntakeInv /\ PageInv /\ [DispatchNext]_vars => (IntakeInv /\ PageInv)'
  <2>1. PageInv => form \in Forms
    BY DEF PageInv, PageType
  <2> QED
    BY <2>1, PageStep, DispatchServes, IntakeStep
<1> QED
  BY <1>1, <1>2, PTL DEF DispatchSpec

\* The composition of form, shop and intake keeps every promise of the intake.
THEOREM DispatchIntake == DispatchSpec => [](OneOrderPerId /\ SuccessIsMine /\ ConflictIsReal)
<1>1. IntakeInv => OneOrderPerId /\ SuccessIsMine /\ ConflictIsReal
  BY RefusalsReal DEF IntakeInv, Right
<1> QED
  BY <1>1, Invariance, PTL

\* Behind them nobody is refused but for an order of other content or, where one of
\* the two came from the web shop, of other bytes (the second look of _place_order,
\* which the loser of a race between equal deliveries needs).
THEOREM RefusedRightly == DispatchSpec => []ConflictIsReal
<1>1. OneOrderPerId /\ SuccessIsMine /\ ConflictIsReal => ConflictIsReal
  OBVIOUS
<1> QED
  BY <1>1, DispatchIntake, PTL

\* A user who tries again after an error, without changing anything, orders once,
\* whichever of the tries got through and however many handlers served them
\* (create, resetField, _place_order).
THEOREM OrderedOnce == DispatchSpec => []NoDoublePlacing
<1>1. IntakeInv /\ PageInv => NoDoublePlacing
  BY OneTriedOnePlaced
<1> QED
  BY <1>1, Invariance, PTL

\* The page's own order is refused as somebody else's data only if the mode was
\* switched while its id was in use (the product is set, the id is kept).
THEOREM RefusedOnlyAfterSwitch == DispatchSpec => []ConflictOnlyAfterSwitch
<1>1. IntakeInv /\ PageInv => ConflictOnlyAfterSwitch
  BY NotMineNotSaid
<1> QED
  BY <1>1, Invariance, PTL

\* Rows, requests and the page's own state have their types, and no more is sent
\* than the bound allows.
THEOREM DispatchTyped == DispatchSpec => []DispatchType
<1>1. ASSUME IntakeInv, PageInv PROVE DispatchType
  <2>1. placed \in Seq([id : Ids, digest : {Digest(r) : r \in Requests},
                        content : Contents, risk : 0..10, recent : BOOLEAN])
    <3> DEFINE Any == [id : Ids, digest : {Digest(r) : r \in Requests},
                       content : Contents, risk : 0..10, recent : BOOLEAN]
    <3>1. Rows \subseteq Any
      BY DEF Rows
    <3>2. placed \in Seq(Rows)
      BY <1>1 DEF IntakeInv, IntakeType
    <3> HIDE DEF Any
    <3>3. \A i \in 1..Len(placed) : placed[i] \in Any
      BY <3>1, <3>2
    <3>4. Len(placed) \in Nat /\ placed = [i \in 1..Len(placed) |-> placed[i]]
      BY <3>2
    <3>5. placed \in Seq(Any)
      BY <3>3, <3>4
    <3> QED
      BY <3>5 DEF Any
  <2>2. \A h \in Handlers : ~At(h, "idle") => handler[h].request \in Requests
    BY <1>1, DoingParts DEF IntakeInv, IntakeType, At
  <2>3. mine \subseteq used
    BY <1>1 DEF PageInv, PageType, OneTried
  <2> QED
    BY <1>1, <2>1, <2>2, <2>3 DEF PageInv, PageType, DispatchType
<1> QED
  BY <1>1, Invariance, PTL

-----------------------------------------------------------------------------
(***************************************************************************)
(* The score.  Until its customer's history changes, a score that was       *)
(* computed is the one that would be computed now.                          *)
(***************************************************************************)
\* The settings of config.py: a threshold of 0.8 (two signals, the address
\* mismatch aside, reach it), and no velocity limit that every order exceeds.
UsualSettings == RiskThreshold = 8 /\ VelocityMax > 1

\* The totals of the orders S among p.
Paid(p, S) == MapThenSumSet(LAMBDA i : Total[p[i].content], S)

LEMMA PaidIsSum == \A p, S : Paid(p, S) = Sum([i \in S |-> Total[p[i].content]], S)
<1> SUFFICES ASSUME NEW p, NEW S
             PROVE  Paid(p, S) = Sum([i \in S |-> Total[p[i].content]], S)
  OBVIOUS
<1> DEFINE g == [i \in S |-> Total[p[i].content]]
           D(it) == [s \in SUBSET S |-> IF s = {} THEN 0
                       ELSE Total[p[CHOOSE x \in s : TRUE].content]
                            + it[s \ {CHOOSE x \in s : TRUE}]]
           E(it) == [s \in SUBSET S |-> IF s = {} THEN 0
                       ELSE g[CHOOSE x \in s : TRUE] + it[s \ {CHOOSE x \in s : TRUE}]]
<1>1. \A it : D(it) = E(it)
  OBVIOUS
<1>2. /\ Paid(p, S) = (CHOOSE it : it = D(it))[S]
      /\ Sum(g, S) = (CHOOSE it : it = E(it))[S]
  BY DEF Paid, Sum, MapThenSumSet, MapThenFoldSet
<1> HIDE DEF D, E
<1>3. (CHOOSE it : it = D(it)) = (CHOOSE it : it = E(it))
  BY <1>1, Zenon
<1> QED
  BY <1>2, <1>3

LEMMA RiskKept ==
    ASSUME NEW c, History(c)' = History(c),
           \A i \in History(c) : /\ placed'[i].content = placed[i].content
                                 /\ placed'[i].recent = placed[i].recent
    PROVE  RiskOf(c)' = RiskOf(c)
<1>1. Paid(placed', History(c)) = Paid(placed, History(c))
  <2>1. [i \in History(c) |-> Total[placed'[i].content]]
        = [i \in History(c) |-> Total[placed[i].content]]
    OBVIOUS
  <2> QED
    BY <2>1, PaidIsSum
<1>2. FarAboveAverage(c)' <=> FarAboveAverage(c)
  <2>1. FarAboveAverage(c) <=>
           /\ Paid(placed, History(c)) > 0
           /\ 10 * Total[c] * Cardinality(History(c)) > ValueMultiple * Paid(placed, History(c))
    BY DEF FarAboveAverage, Paid
  <2>2. FarAboveAverage(c)' <=>
           /\ Paid(placed', History(c)') > 0
           /\ 10 * Total[c] * Cardinality(History(c)')
                 > ValueMultiple * Paid(placed', History(c)')
    BY DEF FarAboveAverage, Paid, MapThenSumSet, MapThenFoldSet
  <2> QED
    BY <1>1, <2>1, <2>2
<1>3. {i \in History(c) : placed'[i].recent} = {i \in History(c) : placed[i].recent}
  OBVIOUS
<1>4. TooFast(c)' <=> TooFast(c)
  BY <1>3 DEF TooFast
<1>5. /\ Weight(FarAboveAverage(c), 4)' = Weight(FarAboveAverage(c), 4)
      /\ Weight(TooFast(c), 4)' = Weight(TooFast(c), 4)
  BY <1>2, <1>4 DEF Weight
<1> QED
  BY <1>5 DEF RiskOf

Scored(d) == d.stage \in {"scored", "inserted"} /\ ~d.overtaken

\* A score nobody overtook is the one the history gives.
ScoresCurrent ==
    \A h \in Handlers : Scored(handler[h]) =>
       handler[h].risk = RiskOf(handler[h].request.content)

LEMMA AloneScored ==
    ASSUME IntakeInv, ScoresCurrent, NEW h \in Handlers, NEW d,
           handler' = [handler EXCEPT ![h] = d], UNCHANGED placed,
           Scored(d) => d.risk = RiskOf(d.request.content)
    PROVE  ScoresCurrent'
<1>1. \A g \in Handlers : handler'[g] = IF g = h THEN d ELSE handler[g]
  BY DEF IntakeInv, IntakeType
<1>2. ASSUME NEW c PROVE RiskOf(c)' = RiskOf(c)
  <2>1. History(c)' = History(c)
    BY DEF History
  <2> QED
    BY <2>1, RiskKept
<1> QED
  BY <1>1, <1>2 DEF ScoresCurrent

\* A commit overtakes the handlers that scored an order of the same customer,
\* and changes nobody else's history.
LEMMA CommitScored ==
    ASSUME IntakeInv, ScoresCurrent, NEW h \in Handlers, Commit(h)
    PROVE  ScoresCurrent'
<1> DEFINE k == handler[h].request.content
           row == Row(handler[h].request, handler[h].risk)
           n == Len(placed) + 1
<1>1. IntakeType /\ handler[h] \in Doings /\ handler[h].stage = "inserted"
  BY DEF IntakeInv, IntakeType, Commit, At
<1>2. row \in Rows /\ row.content = k
  BY <1>1, DoingParts, RowType
<1>3. placed' = Append(placed, row)
  BY DEF Commit
<1>4. handler' = [Overtaken(k) EXCEPT ![h] =
                    [stage |-> "answered", request |-> handler[h].request, code |-> "placed"]]
  BY DEF Commit
<1>5. /\ DOMAIN placed' = DOMAIN placed \cup {n} /\ n \notin DOMAIN placed
      /\ placed'[n] = row /\ \A i \in DOMAIN placed : placed'[i] = placed[i]
  BY <1>1, <1>2, <1>3 DEF IntakeType
<1> HIDE DEF row, n
<1> SUFFICES ASSUME NEW g \in Handlers, Scored(handler'[g]),
                    NEW c, c = handler'[g].request.content
             PROVE  handler'[g].risk = RiskOf(c)'
  BY DEF ScoresCurrent, Scored
<1>6. g # h
  BY <1>4 DEF Scored, Overtaken
<1>7. handler'[g] = Overtaken(k)[g] /\ handler[g] \in Doings
  BY <1>1, <1>4, <1>6 DEF Overtaken, IntakeType
<1>8. /\ handler'[g] = handler[g] /\ handler[g].stage \in {"scored", "inserted"}
      /\ Person[Email[handler[g].request.content]] # Person[Email[k]]
  <2>1. CASE /\ handler[g].stage \in {"scored", "inserted"}
             /\ Person[Email[handler[g].request.content]] = Person[Email[k]]
    <3>1. handler'[g] = [handler[g] EXCEPT !.overtaken = TRUE]
      BY <1>7, <2>1 DEF Overtaken
    <3>2. handler'[g].overtaken
      BY <1>7, <2>1, <3>1, DoingParts
    <3> QED
      BY <3>2 DEF Scored
  <2>2. CASE ~(/\ handler[g].stage \in {"scored", "inserted"}
               /\ Person[Email[handler[g].request.content]] = Person[Email[k]])
    BY <1>7, <2>2 DEF Overtaken, Scored
  <2> QED
    BY <2>1, <2>2
<1>9. History(c)' = History(c) /\ \A i \in History(c) : placed'[i] = placed[i]
  BY <1>2, <1>5, <1>8 DEF History
<1>10. RiskOf(c)' = RiskOf(c)
  BY <1>9, RiskKept
<1> QED
  BY <1>8, <1>10 DEF ScoresCurrent

LEMMA ScoresStep == IntakeInv /\ ScoresCurrent /\ [IntakeNext]_intake => ScoresCurrent'
<1> SUFFICES ASSUME IntakeInv, ScoresCurrent, [IntakeNext]_intake PROVE ScoresCurrent'
  OBVIOUS
<1>0. \A h \in Handlers : handler[h] \in Doings
  BY DEF IntakeInv, IntakeType
<1>1. CASE UNCHANGED intake
  <2>1. UNCHANGED placed /\ UNCHANGED handler
    BY <1>1 DEF intake
  <2>2. ASSUME NEW c PROVE RiskOf(c)' = RiskOf(c)
    <3>1. History(c)' = History(c)
      BY <2>1 DEF History
    <3> QED
      BY <2>1, <3>1, RiskKept
  <2> QED
    BY <2>1, <2>2 DEF ScoresCurrent
<1>2. CASE WindowPasses
  <2>1. ASSUME NEW g \in Handlers, handler'[g].stage \in {"scored", "inserted"}
        PROVE  handler'[g].overtaken
    <3>1. handler'[g] = IF handler[g].stage \in {"scored", "inserted"}
                        THEN [handler[g] EXCEPT !.overtaken = TRUE] ELSE handler[g]
      BY <1>2 DEF WindowPasses
    <3>2. handler[g].stage \in {"scored", "inserted"}
      BY <2>1, <3>1
    <3> QED
      BY <1>0, <3>1, <3>2, DoingParts
  <2> QED
    BY <2>1 DEF ScoresCurrent, Scored
<1>3. ASSUME NEW h \in Handlers, NEW r \in Requests, Receive(h, r) PROVE ScoresCurrent'
  <2> DEFINE d == IF Existing(r.id) = {} THEN [stage |-> "looked", request |-> r]
                  ELSE Verdict(r, CHOOSE i \in Existing(r.id) : TRUE)
  <2>1. handler' = [handler EXCEPT ![h] = d] /\ UNCHANGED placed
    BY <1>3 DEF Receive
  <2>2. ~Scored(d)
    BY DEF Scored, Verdict
  <2> HIDE DEF d
  <2> QED
    BY <2>1, <2>2, AloneScored
<1>4. ASSUME NEW h \in Handlers, Score(h) PROVE ScoresCurrent'
  <2> DEFINE d == [stage |-> "scored", request |-> handler[h].request,
                   risk |-> RiskOf(handler[h].request.content), overtaken |-> FALSE]
  <2>1. handler' = [handler EXCEPT ![h] = d] /\ UNCHANGED placed
    BY <1>4 DEF Score
  <2>2. d.risk = RiskOf(d.request.content)
    OBVIOUS
  <2> HIDE DEF d
  <2> QED
    BY <2>1, <2>2, AloneScored
<1>5. ASSUME NEW h \in Handlers, Insert(h) PROVE ScoresCurrent'
  <2> DEFINE d == IF Existing(handler[h].request.id) = {}
                  THEN [handler[h] EXCEPT !.stage = "inserted"]
                  ELSE [stage |-> "clashed", request |-> handler[h].request]
  <2>1. handler' = [handler EXCEPT ![h] = d] /\ UNCHANGED placed
    BY <1>0, <1>5 DEF Insert, IntakeInv, IntakeType
  <2>2. handler[h].stage = "scored"
    BY <1>5 DEF Insert, At
  <2>3. Scored(d) => /\ Scored(handler[h]) /\ d.risk = handler[h].risk
                     /\ d.request = handler[h].request
    BY <1>0, <2>2, DoingParts DEF Scored
  <2> HIDE DEF d
  <2>4. Scored(d) => d.risk = RiskOf(d.request.content)
    BY <2>3 DEF ScoresCurrent
  <2> QED
    BY <2>1, <2>4, AloneScored
<1>6. ASSUME NEW h \in Handlers, SecondLook(h) \/ Die(h) \/ Respond(h) PROVE ScoresCurrent'
  <2>1. ASSUME NEW d, handler' = [handler EXCEPT ![h] = d], UNCHANGED placed,
               d.stage \in {"answered", "died", "idle"}
        PROVE  ScoresCurrent'
    BY <2>1, AloneScored DEF Scored
  <2>2. CASE SecondLook(h)
    <3> DEFINE d == [stage |-> "answered", request |-> handler[h].request,
                     code |-> IF {i \in Existing(handler[h].request.id) :
                                    placed[i].digest = Digest(handler[h].request)} # {}
                              THEN "duplicate" ELSE "conflict"]
    <3>1. /\ handler' = [handler EXCEPT ![h] = d] /\ UNCHANGED placed
          /\ d.stage = "answered"
      BY <2>2 DEF SecondLook
    <3> HIDE DEF d
    <3> QED
      BY <2>1, <3>1
  <2>3. CASE Die(h)
    <3> DEFINE d == [stage |-> "died", request |-> handler[h].request]
    <3>1. /\ handler' = [handler EXCEPT ![h] = d] /\ UNCHANGED placed
          /\ d.stage = "died"
      BY <1>0, <2>3 DEF Die, IntakeInv, IntakeType
    <3> HIDE DEF d
    <3> QED
      BY <2>1, <3>1
  <2>4. CASE Respond(h)
    BY <2>1, <2>4 DEF Respond, Idle
  <2> QED
    BY <1>6, <2>2, <2>3, <2>4
<1>7. ASSUME NEW h \in Handlers, Commit(h) PROVE ScoresCurrent'
  BY <1>7, CommitScored
<1> QED
  BY <1>1, <1>2, <1>3, <1>4, <1>5, <1>6, <1>7 DEF IntakeNext, Serve

\* What the weights add up to, without a score of the request's own: a customer
\* without history is neither fast nor far above an average.
LEMMA TwoSignals ==
    ASSUME UsualSettings, NEW c \in Contents, c \notin Trusted
    PROVE  RiskOf(c) >= RiskThreshold <=> FarAboveAverage(c) /\ TooFast(c)
<1> DEFINE new == History(c) = {} /\ Total[c] >= NewCustomerFrom
<1>1. new => ~FarAboveAverage(c)
  <2> SUFFICES ASSUME History(c) = {} PROVE ~FarAboveAverage(c)
    OBVIOUS
  <2>1. Paid(placed, History(c)) = 0
    BY PaidIsSum, SumEmpty
  <2> QED
    BY <2>1 DEF FarAboveAverage, Paid
<1>2. new => ~TooFast(c)
  <2> SUFFICES ASSUME History(c) = {} PROVE ~TooFast(c)
    OBVIOUS
  <2>1. Cardinality({i \in History(c) : placed[i].recent}) = 0
    BY FS_EmptySet
  <2> QED
    BY <2>1, IntakeAssumption DEF TooFast, UsualSettings
<1>3. /\ Weight(FarAboveAverage(c), 4) = IF FarAboveAverage(c) THEN 4 ELSE 0
      /\ Weight(c \in Mismatch, 3) = IF c \in Mismatch THEN 3 ELSE 0
      /\ Weight(new, 4) = IF new THEN 4 ELSE 0
      /\ Weight(TooFast(c), 4) = IF TooFast(c) THEN 4 ELSE 0
  BY DEF Weight
<1> DEFINE a == Weight(FarAboveAverage(c), 4)
           b == Weight(c \in Mismatch, 3)
           d == Weight(new, 4)
           e == Weight(TooFast(c), 4)
<1>4. RiskOf(c) = IF a + b + d + e > 10 THEN 10 ELSE a + b + d + e
  BY DEF RiskOf
<1> HIDE DEF a, b, d, e, new
<1>5. RiskThreshold = 8
  BY DEF UsualSettings
<1> QED
  BY <1>1, <1>2, <1>3, <1>4, <1>5 DEF a, b, d, e

LEMMA CurrentMeansBurst ==
    ASSUME UsualSettings, IntakeInv, ScoresCurrent
    PROVE  ReviewMeansBurst
<1> SUFFICES ASSUME NEW h \in Handlers, handler[h].stage \in {"scored", "inserted"},
                    handler[h].request.content \notin Trusted, ~handler[h].overtaken
             PROVE  handler[h].risk >= RiskThreshold
                       <=> /\ TooFast(handler[h].request.content)
                           /\ FarAboveAverage(handler[h].request.content)
  BY DEF ReviewMeansBurst, TooFast, FarAboveAverage, History
<1>1. handler[h].request.content \in Contents
  BY DoingParts, RequestParts DEF IntakeInv, IntakeType
<1>2. handler[h].risk = RiskOf(handler[h].request.content)
  BY DEF ScoresCurrent, Scored
<1> QED
  BY <1>1, <1>2, TwoSignals

\* With the settings of config.py, and unless its customer's history changed under
\* it: an order is scored for review exactly if its customer is fast and far above
\* the own average (score in fraud.py, through every interleaving of handlers).
THEOREM BurstsReviewed == UsualSettings /\ DispatchSpec => []ReviewMeansBurst
<1> SUFFICES ASSUME UsualSettings PROVE DispatchSpec => []ReviewMeansBurst
  OBVIOUS
<1>1. DispatchInit => ScoresCurrent
  BY DEF DispatchInit, IntakeInit, ScoresCurrent, Scored, Idle
<1>2. IntakeInv /\ PageInv /\ ScoresCurrent /\ [DispatchNext]_vars => ScoresCurrent'
  <2>1. PageInv => form \in Forms
    BY DEF PageInv, PageType
  <2> QED
    BY <2>1, DispatchServes, ScoresStep
<1>3. IntakeInv /\ ScoresCurrent => ReviewMeansBurst
  BY CurrentMeansBurst
<1> QED
  BY <1>1, <1>2, <1>3, Invariance, PTL DEF DispatchSpec
=============================================================================
