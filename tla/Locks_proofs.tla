----------------------------- MODULE Locks_proofs -----------------------------
(***************************************************************************)
(* No order has two writers, and no circle of waits is without its cause,  *)
(* with any number of workers, handlers, orders and products.              *)
(*                                                                         *)
(* The rows of an order cannot be ranked: reply takes the offer before the *)
(* order, apply_offer the order before the offer.  What rules a circle out *)
(* is that whoever wants such a row has the job row, so that nobody but a  *)
(* cancel handler is in its way; who waits for a job row has nothing yet;  *)
(* and the products are taken in the order of their ids.                   *)
(***************************************************************************)
EXTENDS Locks, TLAPS, WellFoundedInduction

HasJob(a, o) ==
    \/ ForUpdate(Job(o)) \in held[a]
    \/ a \in Workers /\ driving[a] = o

OneJob == \A a, b \in Agents, o \in Orders : HasJob(a, o) /\ HasJob(b, o) => a = b

\* Who asks for a job row asks for it first, and is a handler.
JobFirst(a) ==
    \A i \in 1..Len(todo[a]), o \in Orders :
       todo[a][i].row = Job(o) => i = 1 /\ held[a] = {} /\ a \in Handlers

\* An order's rows are locked and asked for under its job row.
UnderJob(a) ==
    \A o \in Orders :
       /\ \A q \in held[a] : q.row \in OwnRows(o) => HasJob(a, o)
       /\ \A i \in 1..Len(todo[a]) :
             todo[a][i].row \in OwnRows(o)
                => HasJob(a, o) \/ (i # 1 /\ todo[a][1] = ForUpdate(Job(o)))

IsProduct(q) == q.row[1] = "product"

\* Products are locked in the order of their ids.
InOrder(a) ==
    \A j \in 1..Len(todo[a]) : IsProduct(todo[a][j]) =>
       /\ \A i \in 1..(j - 1) : IsProduct(todo[a][i]) => todo[a][i].row[2] < todo[a][j].row[2]
       /\ \A q \in held[a] : IsProduct(q) => q.row[2] < todo[a][j].row[2]

\* The cancel handler: the order, then the job.
Cancelling(a) ==
    /\ a \in Handlers
    /\ \E o \in Orders :
          \/ todo[a] = CancelBeforeResolution(o) /\ held[a] = {}
          \/ todo[a] = <<ForUpdate(Job(o))>> /\ held[a] = {ForUpdate(Row(o))}
          \/ todo[a] = <<>> /\ held[a] = {ForUpdate(Row(o)), ForUpdate(Job(o))}

Disciplined(a) ==
    /\ op[a] = "cancel" => Cancelling(a)
    /\ op[a] # "cancel" => JobFirst(a) /\ UnderJob(a)
    /\ op[a] \notin {"cancel", "place_order"} => InOrder(a)

LocksInv == LocksType /\ OneJob /\ \A a \in Agents : Disciplined(a)
-----------------------------------------------------------------------------
LEMMA LessIsRelation == \A m, n \in Nat : m < n <=> <<m, n>> \in OpToRel(<, Nat)
  BY DEF OpToRel

\* There is no ascending chain of products.
LEMMA Greatest ==
    ASSUME NEW N \in Nat, NEW T \in SUBSET (1..N), T # {}
    PROVE  \E x \in T : \A y \in T : y <= x
<1> DEFINE U == {n \in 0..N : N - n \in T}
<1>1. U \subseteq Nat
  OBVIOUS
<1>2. PICK t \in T : t \in 1..N
  OBVIOUS
<1>3. N - t \in U
  BY <1>2
<1> HIDE DEF U
<1>4. \E m \in U : \A k \in U : ~(<<k, m>> \in OpToRel(<, Nat))
  BY <1>1, <1>3, NatLessThanWellFounded, WFMin
<1>5. PICK m \in U : \A k \in U : ~(k < m)
  BY <1>1, <1>4, LessIsRelation
<1>6. m \in 0..N /\ N - m \in T
  BY DEF U
<1>7. ASSUME NEW y \in T PROVE y <= N - m
  <2>1. y \in 1..N /\ N - y \in U
    BY DEF U
  <2> QED
    BY <2>1, <1>5, <1>6
<1> QED
  BY <1>6, <1>7

LEMMA LockTypes ==
    /\ \A r \in Rows : ForUpdate(r) \in Locks /\ Update(r) \in Locks /\ Refer(r) \in Locks
    /\ \A o \in Orders : Job(o) \in Rows /\ Row(o) \in Rows
    /\ \A l \in Lines : Line(l) \in Rows /\ OfferRow(l) \in Rows
    /\ \A p \in 1..Catalog : Product(p) \in Rows
BY DEF Locks, Modes, Rows, ForUpdate, Update, Refer, Job, Row, Line, OfferRow, Product

LEMMA RowKinds ==
    /\ \A o \in Orders : Job(o)[1] = "job" /\ Job(o)[2] = o
    /\ \A o \in Orders : Row(o) \in OwnRows(o)
    /\ \A l \in Lines : Line(l) \in OwnRows(OrderOf[l]) /\ OfferRow(l) \in OwnRows(OrderOf[l])
    /\ \A p \in 1..Catalog : Product(p)[1] = "product" /\ Product(p)[2] = p
    /\ \A o \in Orders : \A r \in OwnRows(o) : r[1] \in {"order", "line", "offer"}
    /\ \A o, u \in Orders : \A r \in OwnRows(o) : r \in OwnRows(u) => o = u
BY LocksAssumption DEF OwnRows, Job, Row, Line, OfferRow, Product

\* What a node asks for: its order's rows, and products in the order of their ids.
NodePlan(s, o) ==
    /\ s \in Seq(Locks)
    /\ \A i \in 1..Len(s) : s[i].row \in OwnRows(o) \/ IsProduct(s[i])
    /\ \A j \in 1..Len(s) : IsProduct(s[j]) =>
          \A i \in 1..(j - 1) : IsProduct(s[i]) => s[i].row[2] < s[j].row[2]

LEMMA CatalogPlan ==
    /\ LockCatalog \in Seq(Locks) /\ Len(LockCatalog) = Catalog
    /\ \A p \in 1..Catalog : LockCatalog[p] = ForUpdate(Product(p))
BY LocksAssumption, LockTypes DEF LockCatalog

LEMMA RowsThenCatalog ==
    ASSUME NEW o \in Orders, NEW rows \in Seq(Locks),
           \A i \in 1..Len(rows) : rows[i].row \in OwnRows(o)
    PROVE  NodePlan(rows \o LockCatalog, o)
<1> DEFINE s == rows \o LockCatalog
<1>1. s \in Seq(Locks) /\ Len(s) = Len(rows) + Catalog /\ Len(rows) \in Nat
  BY CatalogPlan, LocksAssumption
<1>2. \A i \in 1..Len(rows) : s[i] = rows[i]
  BY <1>1, CatalogPlan, LocksAssumption
<1>3. \A i \in (Len(rows) + 1)..Len(s) :
         s[i] = ForUpdate(Product(i - Len(rows))) /\ i - Len(rows) \in 1..Catalog
  BY <1>1, CatalogPlan, LocksAssumption
<1> HIDE DEF s
<1>4. \A i \in 1..Len(rows) : s[i].row \in OwnRows(o) /\ ~IsProduct(s[i])
  BY <1>2, RowKinds DEF IsProduct
<1>5. \A p \in 1..Catalog : IsProduct(ForUpdate(Product(p))) /\ ForUpdate(Product(p)).row[2] = p
  BY RowKinds DEF IsProduct, ForUpdate
<1>6. \A i \in (Len(rows) + 1)..Len(s) : IsProduct(s[i]) /\ s[i].row[2] = i - Len(rows)
  BY <1>3, <1>5
<1>7. \A i \in 1..Len(s) : i \in 1..Len(rows) \/ i \in (Len(rows) + 1)..Len(s)
  BY <1>1, LocksAssumption
<1>8. ASSUME NEW j \in 1..Len(s), NEW i \in 1..(j - 1), IsProduct(s[i]), IsProduct(s[j])
      PROVE  s[i].row[2] < s[j].row[2]
  <2>1. i \in 1..Len(s)
    BY <1>1, LocksAssumption
  <2>2. i \in (Len(rows) + 1)..Len(s) /\ j \in (Len(rows) + 1)..Len(s)
    BY <1>4, <1>7, <1>8, <2>1
  <2> QED
    BY <1>1, <1>6, <2>2, LocksAssumption
<1>9. NodePlan(s, o)
  <2>1. \A i \in 1..Len(s) : s[i].row \in OwnRows(o) \/ IsProduct(s[i])
    BY <1>4, <1>6, <1>7
  <2> QED
    BY <1>1, <1>8, <2>1 DEF NodePlan
<1> QED
  BY <1>9 DEF s

\* One more row of the order at the end changes nothing.
LEMMA PlanAppend ==
    ASSUME NEW o \in Orders, NEW s, NodePlan(s, o), NEW q \in Locks, q.row \in OwnRows(o)
    PROVE  NodePlan(s \o <<q>>, o)
<1> DEFINE t == s \o <<q>>
<1>1. ~IsProduct(q)
  BY RowKinds DEF IsProduct
<1>2. s \in Seq(Locks) /\ t \in Seq(Locks) /\ Len(t) = Len(s) + 1
  BY DEF NodePlan
<1>3. (\A i \in 1..Len(s) : t[i] = s[i]) /\ t[Len(s) + 1] = q
  BY <1>2
<1> HIDE DEF t
<1>4. NodePlan(t, o)
  BY <1>1, <1>2, <1>3, SMTT(30) DEF NodePlan
<1> QED
  BY <1>4 DEF t

\* Few locks need no induction to be looked through.
LEMMA ShortPlan ==
    ASSUME NEW o \in Orders, NEW p \in Locks, p.row \in OwnRows(o)
    PROVE  /\ NodePlan(<<p>>, o)
           /\ \A q \in Locks : q.row \in OwnRows(o) => NodePlan(<<p, q>>, o)
           /\ \A q \in Locks, r \in Locks :
                 q.row \in OwnRows(o) /\ IsProduct(r) => NodePlan(<<p, q, r>>, o)
BY RowKinds DEF NodePlan, IsProduct

LEMMA NodePlans ==
    ASSUME NEW o \in Orders, NEW s \in NodeTransactions(o)
    PROVE  NodePlan(s, o)
<1>1. ForUpdate(Row(o)) \in Locks /\ ForUpdate(Row(o)).row \in OwnRows(o)
  BY LockTypes, RowKinds DEF ForUpdate
<1>2. NodePlan(<<ForUpdate(Row(o))>>, o)
  BY <1>1, ShortPlan
<1>3. NodePlan(<<ForUpdate(Row(o))>> \o LockCatalog, o)
  <2> DEFINE rows == <<ForUpdate(Row(o))>>
  <2>1. rows \in Seq(Locks) /\ \A i \in 1..Len(rows) : rows[i].row \in OwnRows(o)
    BY <1>1
  <2> QED
    BY <2>1, RowsThenCatalog
<1>4. CASE s \in {FlagAudit(o), Fulfill(o), Inventory(o), CreateOffer(o), Cancel(o)}
  BY <1>2, <1>3, <1>4 DEF FlagAudit, Fulfill, Inventory, CreateOffer, Cancel
<1>5. ASSUME NEW l \in Lines, OrderOf[l] = o
      PROVE  /\ NodePlan(DropLine(l), o) /\ NodePlan(DropOffered(l), o)
             /\ NodePlan(CancelOffered(l), o)
             /\ \A p \in 1..Catalog : NodePlan(ApplyOffer(l, p), o)
  <2>1. /\ Update(OfferRow(l)) \in Locks /\ Update(OfferRow(l)).row \in OwnRows(o)
        /\ ForUpdate(OfferRow(l)) \in Locks /\ ForUpdate(OfferRow(l)).row \in OwnRows(o)
        /\ ForUpdate(Line(l)) \in Locks /\ ForUpdate(Line(l)).row \in OwnRows(o)
    BY <1>5, LockTypes, RowKinds DEF ForUpdate, Update
  <2>2. NodePlan(DropLine(l), o)
    BY <1>1, <1>5, <2>1, ShortPlan DEF DropLine
  <2>3. DropLine(l) \in Seq(Locks)
        /\ \A i \in 1..Len(DropLine(l)) : DropLine(l)[i].row \in OwnRows(o)
    BY <1>1, <1>5, <2>1 DEF DropLine
  <2>4. NodePlan(DropLine(l) \o LockCatalog, o)
    BY <2>3, RowsThenCatalog
  <2>5. NodePlan(DropOffered(l), o)
    BY <2>1, <2>4, PlanAppend DEF DropOffered
  <2>6. NodePlan(CancelOffered(l), o)
    BY <1>3, <1>5, <2>1, PlanAppend DEF CancelOffered, Cancel
  <2>7. \A p \in 1..Catalog : NodePlan(ApplyOffer(l, p), o)
    <3>1. \A p \in 1..Catalog : Refer(Product(p)) \in Locks /\ IsProduct(Refer(Product(p)))
      BY LockTypes, RowKinds DEF Refer, IsProduct
    <3> QED
      BY <1>1, <1>5, <2>1, <3>1, ShortPlan DEF ApplyOffer
  <2> QED
    BY <2>2, <2>5, <2>6, <2>7
<1> QED
  BY <1>4, <1>5 DEF NodeTransactions

-----------------------------------------------------------------------------
\* What the handlers and expire_offers ask for.
LEMMA HandlerPlans ==
    /\ \A l \in Lines : Reply(l) \in Seq(Locks) /\ ExpireOffer(l) \in Seq(Locks)
    /\ \A o \in Orders :
          DecideAudit(o) \in Seq(Locks) /\ Retry(o) \in Seq(Locks)
             /\ CancelBeforeResolution(o) \in Seq(Locks)
    /\ \A cart \in Carts : PlaceOrder(cart) \in Seq(Locks)
<1>1. \A l \in Lines : OrderOf[l] \in Orders
  BY LocksAssumption
<1>2. \A cart \in Carts : PlaceOrder(cart) \in Seq(Locks)
  <2> TAKE cart \in Carts
  <2>1. cart \in Seq(1..Catalog) /\ DOMAIN cart = 1..Len(cart) /\ Len(cart) \in Nat
    BY LocksAssumption
  <2>2. \A i \in 1..Len(cart) : Refer(Product(cart[i])) \in Locks
    <3>1. \A i \in 1..Len(cart) : cart[i] \in 1..Catalog
      <4> DEFINE P == 1..Catalog
      <4>1. cart \in Seq(P) /\ Len(cart) \in Nat
        BY <2>1
      <4> HIDE DEF P
      <4>2. \A i \in 1..Len(cart) : cart[i] \in P
        BY <4>1
      <4> QED
        BY <4>2 DEF P
    <3> QED
      BY <3>1, LockTypes
  <2> QED
    BY <2>1, <2>2 DEF PlaceOrder
<1> QED
  BY <1>1, <1>2, LockTypes
     DEF Reply, ExpireOffer, DecideAudit, Retry, CancelBeforeResolution

LEMMA InitSafe == Init => LocksInv
<1> SUFFICES ASSUME Init PROVE LocksInv
  OBVIOUS
<1>1. LocksType
  BY DEF Init, LocksType, Ops
<1>2. OneJob
  BY LocksAssumption DEF Init, OneJob, HasJob
<1>3. \A a \in Agents : Disciplined(a)
  BY DEF Init, Disciplined, JobFirst, UnderJob, InOrder
<1> QED
  BY <1>1, <1>2, <1>3 DEF LocksInv

\* Asking for the next lock.
LEMMA NextOf ==
    ASSUME LocksType, NEW a \in Agents, todo[a] # <<>>
    PROVE  /\ NextLock(a) = todo[a][1] /\ NextLock(a) \in Locks /\ 1 \in 1..Len(todo[a])
           /\ Tail(todo[a]) \in Seq(Locks) /\ Len(Tail(todo[a])) = Len(todo[a]) - 1
           /\ \A i \in 1..Len(Tail(todo[a])) :
                 Tail(todo[a])[i] = todo[a][i + 1] /\ i + 1 \in 2..Len(todo[a])
<1>1. todo[a] \in Seq(Locks)
  BY DEF LocksType
<1> QED
  BY <1>1 DEF NextLock

LEMMA TypeStep ==
    ASSUME LocksType, [Next]_vars
    PROVE  LocksType'
<1> USE DEF LocksType
<1>1. ASSUME NEW h \in Handlers, Handle(h) PROVE LocksType'
  <2>1. PICK name \in Ops \ {"idle"}, locks \in Seq(Locks) : Begin(h, name, locks)
    BY <1>1, HandlerPlans, LocksAssumption DEF Handle, Ops
  <2> QED
    BY <1>1, <2>1 DEF Handle, Begin, Agents
<1>2. ASSUME NEW w \in Workers, RunNode(w) PROVE LocksType'
  <2>1. PICK locks \in NodeTransactions(driving[w]) : Begin(w, "node", locks)
    BY <1>2 DEF RunNode
  <2>2. locks \in Seq(Locks)
    BY <1>2, NodePlans DEF RunNode, NodePlan
  <2> QED
    BY <1>2, <2>1, <2>2 DEF RunNode, Begin, Agents, Ops
<1>3. ASSUME NEW w \in Workers, EndDrive(w) PROVE LocksType'
  BY <1>3 DEF EndDrive
<1>4. ASSUME NEW w \in Workers, Die(w) PROVE LocksType'
  BY <1>4 DEF Die, Ended, Agents, Ops
<1>5. ASSUME NEW w \in Workers, NEW l \in Lines, Expire(w, l) PROVE LocksType'
  <2>1. ExpireOffer(l) \in Seq(Locks) /\ ForUpdate(Job(OrderOf[l])) \in Locks
    BY HandlerPlans, LockTypes, LocksAssumption
  <2> QED
    BY <1>5, <2>1 DEF Expire, Begin, Agents, Ops
<1>6. ASSUME NEW w \in Workers, NEW o \in Orders, Claim(w, o) PROVE LocksType'
  BY <1>6 DEF Claim, JobLocked
<1>7. ASSUME NEW a \in Agents, Lock(a) PROVE LocksType'
  BY <1>7, NextOf DEF Lock
<1>8. ASSUME NEW a \in Agents, Commit(a) PROVE LocksType'
  BY <1>8 DEF Commit, Ended, Ops
<1>9. ASSUME NEW a \in Agents, Victim(a) PROVE LocksType'
  BY <1>9 DEF Victim, Ended, Ops
<1>10. CASE UNCHANGED vars
  BY <1>10 DEF vars
<1> QED
  BY <1>1, <1>2, <1>3, <1>4, <1>5, <1>6, <1>7, <1>8, <1>9, <1>10 DEF Next

-----------------------------------------------------------------------------
\* The job row of an order has one owner.
LEMMA OneJobStep ==
    ASSUME LocksInv, [Next]_vars
    PROVE  OneJob'
<1> USE DEF LocksInv, LocksType
<1>1. ASSUME \A a \in Agents, o \in Orders : HasJob(a, o)' => HasJob(a, o)
      PROVE  OneJob'
  BY <1>1 DEF OneJob
<1>2. ASSUME NEW b \in Agents, NEW u \in Orders, \A a \in Agents : ~HasJob(a, u) \/ a = b,
             \A a \in Agents, o \in Orders : HasJob(a, o)' => HasJob(a, o) \/ (a = b /\ o = u)
      PROVE  OneJob'
  BY <1>2 DEF OneJob
<1>3. ASSUME NEW o \in Orders, ~JobLocked(o) PROVE \A a \in Agents : ~HasJob(a, o)
  BY <1>3 DEF JobLocked, HasJob
<1>4. \A o, u \in Orders : ForUpdate(Job(o)) = ForUpdate(Job(u)) => o = u
  BY DEF ForUpdate, Job
<1>5. ASSUME NEW h \in Handlers, Handle(h) PROVE OneJob'
  BY <1>1, <1>5 DEF Handle, HasJob
<1>6. ASSUME NEW w \in Workers, RunNode(w) PROVE OneJob'
  BY <1>1, <1>6 DEF RunNode, HasJob
<1>7. ASSUME NEW w \in Workers, EndDrive(w) PROVE OneJob'
  BY <1>1, <1>7, LocksAssumption DEF EndDrive, HasJob
<1>8. ASSUME NEW w \in Workers, Die(w) PROVE OneJob'
  BY <1>1, <1>8, LocksAssumption DEF Die, Ended, HasJob
<1>9. ASSUME NEW w \in Workers, NEW l \in Lines, Expire(w, l) PROVE OneJob'
  <2>1. w \in Agents /\ OrderOf[l] \in Orders
    BY LocksAssumption DEF Agents
  <2>2. \A a \in Agents, o \in Orders :
           HasJob(a, o)' => HasJob(a, o) \/ (a = w /\ o = OrderOf[l])
    BY <1>4, <1>9, <2>1 DEF Expire, HasJob
  <2> QED
    BY <1>2, <1>3, <1>9, <2>1, <2>2 DEF Expire
<1>10. ASSUME NEW w \in Workers, NEW o \in Orders, Claim(w, o) PROVE OneJob'
  <2>1. w \in Agents
    BY DEF Agents
  <2>2. \A a \in Agents, u \in Orders : HasJob(a, u)' => HasJob(a, u) \/ (a = w /\ u = o)
    BY <1>10 DEF Claim, HasJob
  <2> QED
    BY <1>2, <1>3, <1>10, <2>1, <2>2 DEF Claim
<1>11. ASSUME NEW b \in Agents, Lock(b) PROVE OneJob'
  <2>1. \A a \in Agents, o \in Orders :
           HasJob(a, o)' => HasJob(a, o) \/ (a = b /\ NextLock(b) = ForUpdate(Job(o)))
    BY <1>11 DEF Lock, HasJob
  <2>2. ASSUME NEW u \in Orders, NextLock(b) = ForUpdate(Job(u)), NEW a \in Agents, HasJob(a, u)
        PROVE  a = b
    <3>1. ~Waits(b, a) /\ todo[b] # <<>>
      BY <1>11 DEF Lock
    <3>2. CASE ForUpdate(Job(u)) \in held[a]
      BY <2>2, <3>1, <3>2 DEF Waits, Blocks, Clash, ForUpdate
    <3>3. CASE a \in Workers /\ driving[a] = u
      <4>1. NextLock(b).row = Job(driving[a]) /\ driving[a] # NoOrder
        <5>1. ForUpdate(Job(u)).row = Job(u)
          BY DEF ForUpdate
        <5> HIDE DEF LocksInv, LocksType
        <5> QED
          BY <2>2, <3>3, <5>1, LocksAssumption
      <4> QED
        BY <3>1, <3>3, <4>1 DEF Waits, AwaitsDrive
    <3> QED
      BY <2>2, <3>2, <3>3 DEF HasJob
  <2>3. CASE \E u \in Orders : NextLock(b) = ForUpdate(Job(u))
    BY <1>2, <1>4, <2>1, <2>2, <2>3
  <2> QED
    BY <1>1, <2>1, <2>3
<1>12. ASSUME NEW a \in Agents, Commit(a) PROVE OneJob'
  BY <1>1, <1>12 DEF Commit, Ended, HasJob
<1>13. ASSUME NEW a \in Agents, Victim(a) PROVE OneJob'
  BY <1>1, <1>13, LocksAssumption DEF Victim, Ended, HasJob
<1>14. CASE UNCHANGED vars
  BY <1>1, <1>14 DEF vars, HasJob
<1> QED
  BY <1>5, <1>6, <1>7, <1>8, <1>9, <1>10, <1>11, <1>12, <1>13, <1>14 DEF Next

-----------------------------------------------------------------------------
\* Who does nothing stays as it is.
LEMMA Bystander ==
    ASSUME NEW a \in Agents, Disciplined(a),
           op'[a] = op[a], todo'[a] = todo[a], held'[a] = held[a],
           a \in Workers => driving'[a] = driving[a]
    PROVE  Disciplined(a)'
<1>1. \A o : HasJob(a, o)' <=> HasJob(a, o)
  BY DEF HasJob
<1> QED
  BY <1>1 DEF Disciplined, Cancelling, JobFirst, UnderJob, InOrder

LEMMA Finished ==
    ASSUME NEW a \in Agents, op'[a] = "idle", todo'[a] = <<>>, held'[a] = {}
    PROVE  Disciplined(a)'
BY DEF Disciplined, JobFirst, UnderJob, InOrder

\* A lock more.
LEMMA LockStep ==
    ASSUME LocksInv, NEW a \in Agents, Lock(a)
    PROVE  Disciplined(a)'
<1> DEFINE q == NextLock(a)
           rest == Tail(todo[a])
<1>1. LocksType /\ Disciplined(a) /\ todo[a] # <<>> /\ todo[a] \in Seq(Locks)
  BY DEF LocksInv, LocksType, Lock
<1>2. /\ q = todo[a][1] /\ q \in Locks /\ 1 \in 1..Len(todo[a])
      /\ rest \in Seq(Locks) /\ Len(rest) = Len(todo[a]) - 1
      /\ \A i \in 1..Len(rest) : rest[i] = todo[a][i + 1] /\ i + 1 \in 2..Len(todo[a])
  BY <1>1, NextOf
<1>3. op'[a] = op[a] /\ held'[a] = held[a] \cup {q} /\ todo'[a] = rest
  BY <1>1 DEF Lock, LocksType
<1>4. \A o : HasJob(a, o) => HasJob(a, o)'
  BY <1>3 DEF HasJob, Lock
<1>5. ASSUME op[a] = "cancel" PROVE Cancelling(a)'
  <2>1. Cancelling(a)
    BY <1>1, <1>5 DEF Disciplined
  <2>2. PICK o \in Orders :
           \/ todo[a] = CancelBeforeResolution(o) /\ held[a] = {}
           \/ todo[a] = <<ForUpdate(Job(o))>> /\ held[a] = {ForUpdate(Row(o))}
           \/ todo[a] = <<>> /\ held[a] = {ForUpdate(Row(o)), ForUpdate(Job(o))}
    BY <2>1 DEF Cancelling
  <2>3. CASE todo[a] = CancelBeforeResolution(o) /\ held[a] = {}
    <3>1. q = ForUpdate(Row(o)) /\ rest = <<ForUpdate(Job(o))>>
      BY <1>2, <2>3 DEF CancelBeforeResolution
    <3> QED
      BY <1>3, <2>1, <2>3, <3>1 DEF Cancelling
  <2>4. CASE todo[a] = <<ForUpdate(Job(o))>> /\ held[a] = {ForUpdate(Row(o))}
    <3>1. q = ForUpdate(Job(o)) /\ rest = <<>>
      BY <1>2, <2>4
    <3> QED
      BY <1>3, <2>1, <2>4, <3>1 DEF Cancelling
  <2> QED
    BY <1>1, <2>2, <2>3, <2>4
<1>6. ASSUME op[a] # "cancel" PROVE JobFirst(a)' /\ UnderJob(a)'
  <2>1. JobFirst(a) /\ UnderJob(a)
    BY <1>1, <1>6 DEF Disciplined
  <2>2. \A i \in 1..Len(rest), o \in Orders : rest[i].row # Job(o)
    BY <1>2, <2>1 DEF JobFirst
  <2>3. ASSUME NEW o \in Orders, q.row \in OwnRows(o) PROVE HasJob(a, o)
    BY <1>2, <2>1, <2>3 DEF UnderJob
  <2>4. ASSUME NEW o \in Orders, NEW i \in 1..Len(rest), rest[i].row \in OwnRows(o)
        PROVE  HasJob(a, o)'
    <3>1. HasJob(a, o) \/ q = ForUpdate(Job(o))
      BY <1>2, <2>1, <2>4 DEF UnderJob
    <3> QED
      BY <1>3, <1>4, <3>1 DEF HasJob
  <2>5. JobFirst(a)'
    BY <1>3, <2>2 DEF JobFirst
  <2>6. ASSUME NEW o \in Orders, NEW p \in held'[a], p.row \in OwnRows(o) PROVE HasJob(a, o)'
    BY <1>3, <1>4, <2>1, <2>3, <2>6 DEF UnderJob
  <2> QED
    BY <1>3, <2>4, <2>5, <2>6 DEF UnderJob
<1>7. ASSUME op[a] \notin {"cancel", "place_order"} PROVE InOrder(a)'
  <2>1. InOrder(a)
    BY <1>1, <1>7 DEF Disciplined
  <2>2. ASSUME NEW j \in 1..Len(rest), IsProduct(rest[j])
        PROVE  /\ \A i \in 1..(j - 1) : IsProduct(rest[i]) => rest[i].row[2] < rest[j].row[2]
               /\ \A p \in held[a] \cup {q} : IsProduct(p) => p.row[2] < rest[j].row[2]
    <3>1. rest[j] = todo[a][j + 1] /\ j + 1 \in 1..Len(todo[a])
      BY <1>2
    <3>2. \A i \in 1..(j + 1 - 1) :
             IsProduct(todo[a][i]) => todo[a][i].row[2] < rest[j].row[2]
      BY <2>1, <2>2, <3>1 DEF InOrder
    <3>3. \A p \in held[a] : IsProduct(p) => p.row[2] < rest[j].row[2]
      BY <2>1, <2>2, <3>1 DEF InOrder
    <3>4. ASSUME NEW i \in 1..(j - 1) PROVE rest[i] = todo[a][i + 1] /\ i + 1 \in 1..(j + 1 - 1)
      BY <1>2
    <3>5. \A i \in 1..(j - 1) : IsProduct(rest[i]) => rest[i].row[2] < rest[j].row[2]
      BY <3>2, <3>4
    <3>6. IsProduct(q) => q.row[2] < rest[j].row[2]
      BY <1>2, <3>2
    <3> QED
      BY <3>3, <3>5, <3>6
  <2> QED
    BY <1>3, <2>2 DEF InOrder, IsProduct
<1> QED
  BY <1>3, <1>5, <1>6, <1>7 DEF Disciplined

\* A transaction begins.
LEMMA BeginStep ==
    ASSUME LocksInv, NEW a \in Agents, NEW name \in Ops, NEW locks \in Seq(Locks),
           Begin(a, name, locks)
    PROVE  held[a] = {} /\ op'[a] = name /\ todo'[a] = locks
BY DEF LocksInv, LocksType, Begin, Idle

LEMMA HandleStep ==
    ASSUME LocksInv, NEW h \in Handlers, Handle(h)
    PROVE  Disciplined(h)'
<1> USE DEF Agents
<1>1. held' = held /\ driving' = driving
  BY DEF Handle
<1>2. ASSUME NEW o \in Orders, NEW s, s \in {Retry(o), DecideAudit(o)} \cup {Reply(l) : l \in {k \in Lines : OrderOf[k] = o}},
             NEW name \in {"reply", "decide_audit", "retry"}, Begin(h, name, s)
      PROVE  Disciplined(h)'
  <2>1. s \in Seq(Locks)
    BY <1>2, HandlerPlans
  <2>2. held[h] = {} /\ op'[h] = name /\ todo'[h] = s /\ held'[h] = {}
    BY <1>1, <1>2, <2>1, BeginStep DEF Ops
  <2>3. /\ s[1] = ForUpdate(Job(o))
        /\ \A i \in 2..Len(s) : s[i].row \in OwnRows(o)
    <3>1. CASE s = Retry(o)
      BY <3>1 DEF Retry
    <3>2. CASE s = DecideAudit(o)
      <4>1. Update(Row(o)).row \in OwnRows(o)
        BY RowKinds DEF Update
      <4> QED
        BY <3>2, <4>1 DEF DecideAudit
    <3>3. ASSUME NEW l \in Lines, OrderOf[l] = o, s = Reply(l)
          PROVE  s[1] = ForUpdate(Job(o)) /\ \A i \in 2..Len(s) : s[i].row \in OwnRows(o)
      <4>1. ForUpdate(OfferRow(l)).row \in OwnRows(o) /\ Refer(Row(o)).row \in OwnRows(o)
        BY <3>3, RowKinds DEF ForUpdate, Refer
      <4> QED
        BY <3>3, <4>1 DEF Reply
    <3> QED
      BY <1>2, <3>1, <3>2, <3>3
  <2>4. ForUpdate(Job(o)).row = Job(o)
    BY DEF ForUpdate
  <2>5. \A i \in 1..Len(s) : i = 1 \/ i \in 2..Len(s)
    BY <2>1
  <2>6. JobFirst(h)'
    BY <2>2, <2>3, <2>5, RowKinds DEF JobFirst
  <2>7. UnderJob(h)'
    BY <2>2, <2>3, <2>4, <2>5, RowKinds DEF UnderJob
  <2>8. InOrder(h)'
    BY <2>2, <2>3, <2>4, <2>5, RowKinds DEF InOrder, IsProduct
  <2> QED
    BY <1>2, <2>2, <2>6, <2>7, <2>8 DEF Disciplined
<1>3. ASSUME NEW o \in Orders, Begin(h, "cancel", CancelBeforeResolution(o))
      PROVE  Disciplined(h)'
  BY <1>1, <1>3, HandlerPlans, BeginStep DEF Ops, Disciplined, Cancelling
<1>4. ASSUME NEW cart \in Carts, Begin(h, "place_order", PlaceOrder(cart))
      PROVE  Disciplined(h)'
  <2> DEFINE s == PlaceOrder(cart)
  <2>1. s \in Seq(Locks)
    BY HandlerPlans
  <2>2. op'[h] = "place_order" /\ todo'[h] = s /\ held'[h] = {}
    BY <1>1, <1>4, <2>1, BeginStep DEF Ops
  <2>3. \A i \in 1..Len(s) : s[i].row[1] = "product"
    <3>1. \A p : Refer(Product(p)).row[1] = "product"
      BY DEF Refer, Product
    <3>2. DOMAIN cart = 1..Len(s)
      BY <2>1 DEF PlaceOrder
    <3> QED
      BY <3>1, <3>2 DEF PlaceOrder
  <2> HIDE DEF s
  <2>4. JobFirst(h)' /\ UnderJob(h)'
    BY <2>2, <2>3, RowKinds DEF JobFirst, UnderJob
  <2> QED
    BY <2>2, <2>4 DEF Disciplined
<1> QED
  BY <1>2, <1>3, <1>4, LocksAssumption DEF Handle

LEMMA WorkerSteps ==
    ASSUME LocksInv, NEW w \in Workers
    PROVE  /\ RunNode(w) => Disciplined(w)'
           /\ \A l \in Lines : Expire(w, l) => Disciplined(w)'
           /\ EndDrive(w) \/ (\E o \in Orders : Claim(w, o)) => Disciplined(w)'
<1> USE DEF Agents
<1>1. ASSUME RunNode(w) PROVE Disciplined(w)'
  <2>0. PICK o \in Orders : driving[w] = o
    BY <1>1 DEF RunNode, LocksInv, LocksType
  <2>1. PICK s \in NodeTransactions(o) : Begin(w, "node", s)
    BY <1>1, <2>0 DEF RunNode
  <2>2. NodePlan(s, o)
    BY NodePlans
  <2>3. held'[w] = {} /\ op'[w] = "node" /\ todo'[w] = s
    BY <1>1, <2>1, <2>2, BeginStep DEF Ops, RunNode, NodePlan
  <2>4. HasJob(w, o)'
    BY <1>1, <2>0 DEF RunNode, HasJob
  <2>5. JobFirst(w)' /\ UnderJob(w)'
    <3>1. \A i \in 1..Len(s) : s[i].row \in OwnRows(o) \/ s[i].row[1] = "product"
      BY <2>2 DEF NodePlan, IsProduct
    <3>2. \A i \in 1..Len(s), u \in Orders : s[i].row # Job(u)
      BY <2>2, <3>1, RowKinds
    <3>3. \A i \in 1..Len(s), u \in Orders : s[i].row \in OwnRows(u) => u = o
      BY <2>2, <3>1, RowKinds
    <3>4. JobFirst(w)'
      BY <2>3, <3>2 DEF JobFirst
    <3>5. \A i \in 1..Len(s), u \in Orders : s[i].row \in OwnRows(u) => HasJob(w, u)'
      BY <2>4, <3>3
    <3> QED
      BY <2>3, <3>4, <3>5 DEF UnderJob
  <2>6. InOrder(w)'
    BY <2>2, <2>3 DEF InOrder, NodePlan, IsProduct
  <2> QED
    BY <2>3, <2>5, <2>6 DEF Disciplined
<1>2. ASSUME NEW l \in Lines, Expire(w, l) PROVE Disciplined(w)'
  <2> DEFINE o == OrderOf[l]
             s == ExpireOffer(l)
  <2>1. s \in Seq(Locks) /\ o \in Orders
    BY HandlerPlans, LocksAssumption
  <2>2. op'[w] = "expire_offers" /\ todo'[w] = s /\ held'[w] = {ForUpdate(Job(o))}
    BY <1>2, <2>1, BeginStep DEF Ops, Expire, LocksInv, LocksType
  <2>3. \A i \in 1..Len(s) : s[i].row \in OwnRows(o)
    <3>1. ForUpdate(OfferRow(l)).row \in OwnRows(o) /\ Refer(Row(o)).row \in OwnRows(o)
      BY <2>1, RowKinds DEF ForUpdate, Refer
    <3> QED
      BY <3>1 DEF ExpireOffer
  <2>4. ForUpdate(Job(o)).row = Job(o)
    BY DEF ForUpdate
  <2>5. HasJob(w, o)'
    BY <2>2 DEF HasJob
  <2> HIDE DEF o, s
  <2>6. JobFirst(w)'
    BY <2>1, <2>2, <2>3, RowKinds DEF JobFirst
  <2>7. UnderJob(w)'
    BY <2>1, <2>2, <2>3, <2>4, <2>5, RowKinds DEF UnderJob
  <2>8. InOrder(w)'
    BY <2>1, <2>2, <2>3, RowKinds DEF InOrder, IsProduct
  <2> QED
    BY <2>2, <2>6, <2>7, <2>8 DEF Disciplined
<1>3. ASSUME EndDrive(w) \/ \E o \in Orders : Claim(w, o) PROVE Disciplined(w)'
  BY <1>3, Finished DEF EndDrive, Claim, Idle, LocksInv, LocksType
<1> QED
  BY <1>1, <1>2, <1>3

LEMMA DisciplineStep ==
    ASSUME LocksInv, [Next]_vars, NEW a \in Agents
    PROVE  Disciplined(a)'
<1> USE DEF Agents
<1>1. /\ LocksType /\ Disciplined(a)
      /\ op \in [Agents -> Ops] /\ todo \in [Agents -> Seq(Locks)]
      /\ held \in [Agents -> SUBSET Locks] /\ driving \in [Workers -> Orders \cup {NoOrder}]
  BY DEF LocksInv, LocksType
<1>2. ASSUME NEW h \in Handlers, Handle(h) PROVE Disciplined(a)'
  BY <1>1, <1>2, HandleStep, Bystander DEF Handle, Begin
<1>3. ASSUME NEW w \in Workers, RunNode(w) PROVE Disciplined(a)'
  BY <1>1, <1>3, WorkerSteps, Bystander DEF RunNode, Begin
<1>4. ASSUME NEW w \in Workers, EndDrive(w) PROVE Disciplined(a)'
  BY <1>1, <1>4, WorkerSteps, Bystander DEF EndDrive
<1>5. ASSUME NEW w \in Workers, Die(w) PROVE Disciplined(a)'
  BY <1>1, <1>5, Finished, Bystander DEF Die, Ended
<1>6. ASSUME NEW w \in Workers, NEW l \in Lines, Expire(w, l) PROVE Disciplined(a)'
  BY <1>1, <1>6, WorkerSteps, Bystander DEF Expire, Begin
<1>7. ASSUME NEW w \in Workers, NEW o \in Orders, Claim(w, o) PROVE Disciplined(a)'
  BY <1>1, <1>7, WorkerSteps, Bystander DEF Claim
<1>8. ASSUME NEW b \in Agents, Lock(b) PROVE Disciplined(a)'
  BY <1>1, <1>8, LockStep, Bystander DEF Lock
<1>9. ASSUME NEW b \in Agents, Commit(b) PROVE Disciplined(a)'
  BY <1>1, <1>9, Finished, Bystander DEF Commit, Ended
<1>10. ASSUME NEW b \in Agents, Victim(b) PROVE Disciplined(a)'
  BY <1>1, <1>10, Finished, Bystander DEF Victim, Ended
<1>11. CASE UNCHANGED vars
  BY <1>1, <1>11, Bystander DEF vars
<1> QED
  BY <1>2, <1>3, <1>4, <1>5, <1>6, <1>7, <1>8, <1>9, <1>10, <1>11 DEF Next

\* Types, one owner per job row, and every transaction keeps its discipline.
THEOREM LocksInvariance == Spec => []LocksInv
<1>1. LocksInv /\ [Next]_vars => LocksInv'
  BY TypeStep, OneJobStep, DisciplineStep DEF LocksInv
<1> QED
  BY InitSafe, <1>1, PTL DEF Spec

\* A transaction asks for and has only locks there are, and a worker drives one
\* order at most (process_one and the sessions of services.py and main.py).
THEOREM LocksTyped == Spec => []LocksType
BY LocksInvariance, PTL DEF LocksInv

-----------------------------------------------------------------------------
\* A waits for b: either may be anything but what the discipline forbids.
LEMMA OwnRowsApart ==
    ASSUME LocksInv, NEW a \in Agents, NEW b \in Agents, Blocks(b, a),
           op[a] # "cancel", op[b] # "cancel", NEW o \in Orders
    PROVE  NextLock(a).row \notin OwnRows(o)
<1> SUFFICES ASSUME NextLock(a).row \in OwnRows(o) PROVE FALSE
  OBVIOUS
<1>1. LocksType /\ OneJob /\ UnderJob(a) /\ UnderJob(b) /\ a # b
  BY DEF LocksInv, Disciplined, Blocks
<1>2. NextLock(a) = todo[a][1] /\ 1 \in 1..Len(todo[a])
  BY <1>1, NextOf DEF Blocks
<1>3. HasJob(a, o)
  BY <1>1, <1>2 DEF UnderJob
<1>4. PICK q \in held[b] : q.row = NextLock(a).row
  BY DEF Blocks, Clash
<1>5. HasJob(b, o)
  BY <1>1, <1>4 DEF UnderJob
<1> QED
  BY <1>1, <1>3, <1>5 DEF OneJob

\* Whoever is in somebody's way and waits for a job row is a cancel handler.
LEMMA JobWaiterHoldsNothing ==
    ASSUME LocksInv, NEW a \in Agents, NEW b \in Agents, Waits(a, b),
           todo[b] # <<>>, NEW o \in Orders, NextLock(b).row = Job(o)
    PROVE  op[b] = "cancel" /\ Blocks(b, a)
<1>1. LocksType /\ Disciplined(b)
  BY DEF LocksInv
<1>2. NextLock(b) = todo[b][1] /\ 1 \in 1..Len(todo[b])
  BY <1>1, NextOf
<1>3. b \in Handlers
  BY <1>1, <1>2 DEF Disciplined, Cancelling, JobFirst
<1>4. Blocks(b, a)
  BY <1>3, LocksAssumption DEF Waits, AwaitsDrive
<1>5. held[b] # {}
  BY <1>4 DEF Blocks
<1> QED
  BY <1>1, <1>2, <1>4, <1>5 DEF Disciplined, JobFirst

LEMMA OneWriter == LocksInv => OneWriterPerOrder
<1> SUFFICES ASSUME LocksInv, NEW o \in Orders, NEW a \in Agents, NEW b \in Agents,
                    a # b, Writing(a, o), Writing(b, o),
                    op[a] = "cancel" => todo[a] = <<>>, op[b] = "cancel" => todo[b] = <<>>
             PROVE  FALSE
  BY DEF OneWriterPerOrder
<1>1. OneJob /\ Disciplined(a) /\ Disciplined(b)
  BY DEF LocksInv
<1>2. ASSUME NEW c \in Agents, Writing(c, o), Disciplined(c),
             op[c] = "cancel" => todo[c] = <<>>
      PROVE  HasJob(c, o)
  <2>1. PICK q \in held[c] : q.row \in OwnRows(o)
    BY <1>2 DEF Writing
  <2>2. CASE op[c] # "cancel"
    BY <1>2, <2>1, <2>2 DEF Disciplined, UnderJob
  <2>3. CASE op[c] = "cancel"
    <3>1. Cancelling(c) /\ todo[c] = <<>>
      BY <1>2, <2>3 DEF Disciplined
    <3>2. PICK u \in Orders : held[c] = {ForUpdate(Row(u)), ForUpdate(Job(u))}
      BY <3>1 DEF Cancelling, CancelBeforeResolution
    <3>3. ForUpdate(Row(u)).row = Row(u) /\ ForUpdate(Job(u)).row = Job(u)
      BY DEF ForUpdate
    <3>4. u = o
      BY <2>1, <3>2, <3>3, RowKinds
    <3> QED
      BY <3>2, <3>4 DEF HasJob
  <2> QED
    BY <2>2, <2>3
<1> QED
  BY <1>1, <1>2 DEF OneJob

LEMMA HiddenCause == LocksInv => HiddenHasCause
<1> SUFFICES ASSUME LocksInv, NEW S \in SUBSET Agents, Deadlocked(S),
                    \A T \in SUBSET S : ~Visible(T)
             PROVE  \E a \in S, w \in S \cap Workers :
                       /\ op[a] = "cancel" /\ driving[w] # NoOrder
                       /\ ForUpdate(Row(driving[w])) \in held[a]
  BY DEF HiddenHasCause
<1> DEFINE T == {b \in S : \E a \in S : Waits(a, b)}
<1>1. T # {}
  BY DEF Deadlocked
<1>2. \A b \in T : \E c \in T : Waits(b, c)
  BY DEF Deadlocked
<1>3. PICK b \in T : \A c \in T : ~Blocks(c, b)
  BY <1>1 DEF Visible
<1>4. PICK w \in T : AwaitsDrive(b, w)
  BY <1>2, <1>3 DEF Waits
<1>5. PICK a \in S : Waits(a, b)
  OBVIOUS
<1>6. LocksType /\ Disciplined(b) /\ todo[b] # <<>> /\ w \in Workers /\ driving[w] # NoOrder
  BY <1>4 DEF LocksInv, AwaitsDrive
<1>7. driving[w] \in Orders /\ NextLock(b).row = Job(driving[w])
  BY <1>4, <1>6 DEF LocksType, AwaitsDrive
<1>8. op[b] = "cancel" /\ held[b] # {}
  BY <1>5, <1>6, <1>7, JobWaiterHoldsNothing DEF Blocks
<1>9. PICK o \in Orders : todo[b] = <<ForUpdate(Job(o))>> /\ held[b] = {ForUpdate(Row(o))}
  BY <1>6, <1>8 DEF Disciplined, Cancelling
<1>10. o = driving[w]
  <2>1. NextLock(b) = ForUpdate(Job(o))
    BY <1>9 DEF NextLock
  <2>2. ForUpdate(Job(o)).row = Job(o)
    BY DEF ForUpdate
  <2> QED
    BY <1>7, <2>1, <2>2 DEF Job
<1> QED
  BY <1>6, <1>8, <1>9, <1>10

LEMMA DeadlockCause == LocksInv => DeadlockHasCause
<1> SUFFICES ASSUME LocksInv, NEW S \in SUBSET Agents, Deadlocked(S),
                    \A a \in S : op[a] # "cancel" /\ ~OutOfOrder(a)
             PROVE  FALSE
  BY DEF DeadlockHasCause
<1> DEFINE T == {b \in S : \E a \in S : Waits(a, b)}
           wanted == {p \in 1..Catalog : \E b \in T : todo[b] # <<>> /\ NextLock(b).row = Product(p)}
<1>1. T # {} /\ \A b \in T : \E c \in T : Waits(b, c)
  BY DEF Deadlocked
<1>2. ASSUME NEW b \in T
      PROVE  \E p \in 1..Catalog, c \in T :
                /\ todo[b] # <<>> /\ NextLock(b).row = Product(p)
                /\ \E q \in held[c] : q.row = Product(p)
  <2>1. PICK a \in S : Waits(a, b)
    BY <1>2
  <2>2. PICK c \in T : Waits(b, c)
    BY <1>1, <1>2
  <2>3. LocksType /\ todo[b] # <<>> /\ NextLock(b) \in Locks
    BY <2>2, NextOf DEF LocksInv, Waits, Blocks, AwaitsDrive
  <2>4. \A o \in Orders : NextLock(b).row # Job(o)
    BY <2>1, <2>3, JobWaiterHoldsNothing
  <2>5. Blocks(c, b)
    BY <2>2, <2>3, <2>4 DEF Waits, AwaitsDrive, LocksType
  <2>6. \A o \in Orders : NextLock(b).row \notin OwnRows(o)
    BY <2>5, OwnRowsApart
  <2>7. \A r \in Rows : \/ \E o \in Orders : r = Job(o)
                        \/ \E o \in Orders : r \in OwnRows(o)
                        \/ \E p \in 1..Catalog : r = Product(p)
    BY LocksAssumption DEF Rows, Job, OwnRows, Row, Product
  <2>8. NextLock(b).row \in Rows
    BY <2>3 DEF Locks
  <2> QED
    BY <2>3, <2>4, <2>5, <2>6, <2>7, <2>8 DEF Blocks, Clash
<1>3. wanted # {}
  BY <1>1, <1>2
<1>4. PICK m \in wanted : \A p \in wanted : p <= m
  BY <1>3, Greatest, LocksAssumption
<1>5. PICK b \in T : todo[b] # <<>> /\ NextLock(b).row = Product(m)
  OBVIOUS
<1>6. PICK c \in T : \E q \in held[c] : q.row = Product(m)
  <2>1. \A p \in 1..Catalog : Product(p) = Product(m) => p = m
    BY DEF Product
  <2> QED
    BY <1>2, <1>5, <2>1
<1>7. PICK p \in 1..Catalog : todo[c] # <<>> /\ NextLock(c).row = Product(p)
  BY <1>2
<1>8. p \in wanted
  BY <1>7
<1>9. m < p
  <2>1. LocksType /\ Disciplined(c)
    BY DEF LocksInv
  <2>2. NextLock(c) = todo[c][1] /\ 1 \in 1..Len(todo[c])
    BY <1>7, <2>1, NextOf
  <2>3. PICK q \in held[c] : q.row = Product(m)
    BY <1>6
  <2>4. q.row[2] = m /\ NextLock(c).row[2] = p /\ IsProduct(q) /\ IsProduct(NextLock(c))
    BY <1>7, <2>3, RowKinds DEF IsProduct
  <2>5. CASE op[c] = "place_order"
    BY <1>7, <2>3, <2>4, <2>5 DEF OutOfOrder
  <2>6. CASE op[c] # "place_order"
    BY <2>1, <2>2, <2>3, <2>4, <2>6 DEF Disciplined, InOrder
  <2> QED
    BY <2>5, <2>6
<1> QED
  BY <1>4, <1>8, <1>9

\* models.py:111: an order's rows have one writer at a time, cancel handlers that
\* are still waiting for the job row aside.
THEOREM OrderHasOneWriter == Spec => []OneWriterPerOrder
BY LocksInvariance, OneWriter, PTL

\* services.py:27: the only deadlocks are those of a cancel handler, or of an
\* intake whose items are not in the order of their ids.
THEOREM DeadlocksHaveCause == Spec => []DeadlockHasCause
BY LocksInvariance, DeadlockCause, PTL

\* The database sees every deadlock but that of a cancel handler and the worker
\* that drives its order.
THEOREM HiddenDeadlocksHaveCause == Spec => []HiddenHasCause
BY LocksInvariance, HiddenCause, PTL
=============================================================================
