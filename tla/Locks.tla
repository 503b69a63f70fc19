-------------------------------- MODULE Locks --------------------------------
(***************************************************************************)
(* The row locks of PostgreSQL that the transactions of services.py,       *)
(* main.py and worker.py take one after another, and hold until they end.  *)
(* What a transaction reads and writes is in Workflow, where each is one   *)
(* step; here it is only the sequence of the locks it asks for, and any    *)
(* transaction of a component may come at any time.                        *)
(*                                                                         *)
(* A worker has two transactions: the one of process_one, which holds the  *)
(* job row, and inside it, on another connection, the one of the node that *)
(* runs.  The first waits for the second in Python, where the database's   *)
(* deadlock detection does not see it.                                     *)
(***************************************************************************)
EXTENDS Naturals, Sequences

CONSTANTS Orders, Lines, OrderOf,
          Catalog,      \* the products are 1..Catalog, their ids
          Carts,        \* sequences of products that orders are placed for
          Cancellable,  \* orders whose customer may call POST cancel
          Workers, Handlers,
          NoOrder

ASSUME LocksAssumption ==
    /\ OrderOf \in [Lines -> Orders]
    /\ Catalog \in Nat
    /\ Carts \subseteq Seq(1..Catalog)
    /\ Cancellable \subseteq Orders
    /\ NoOrder \notin Orders
    /\ Workers \cap Handlers = {}

VARIABLES op,      \* what an agent's transaction is for
          todo,    \* the locks it has still to ask for
          held,    \* the locks it has
          driving  \* the order whose job row a worker's process_one holds

vars == <<op, todo, held, driving>>

Agents == Workers \cup Handlers

Job(o) == <<"job", o>>
Row(o) == <<"order", o>>
Line(l) == <<"line", l>>
OfferRow(l) == <<"offer", l>>
Product(p) == <<"product", p>>

OwnRows(o) == {Row(o)} \cup {r \in {"line", "offer"} \X Lines : OrderOf[r[2]] = o}
Rows == ({"job", "order"} \X Orders) \cup ({"line", "offer"} \X Lines)
            \cup ({"product"} \X (1..Catalog))

\* SELECT ... FOR UPDATE, UPDATE of other columns than the key, and the check
\* of a foreign key (FOR KEY SHARE).
Modes == {"for update", "update", "reference"}
Locks == [row : Rows, mode : Modes]
ForUpdate(r) == [row |-> r, mode |-> "for update"]
Update(r) == [row |-> r, mode |-> "update"]
Refer(r) == [row |-> r, mode |-> "reference"]

Clash(p, q) ==
    /\ p.row = q.row
    /\ \/ "for update" \in {p.mode, q.mode}
       \/ p.mode = "update" /\ q.mode = "update"

-----------------------------------------------------------------------------
(* The locks of each transaction, in its order.  New rows are nobody's      *)
(* business, and updates of lines follow the lock of their order.          *)

\* Mutant: the catalog is locked from the other end.
LockCatalogBackwards == [i \in 1..Catalog |-> ForUpdate(Product(Catalog + 1 - i))]

LockCatalog == [p \in 1..Catalog |-> ForUpdate(Product(p))]

\* Mutant: the node makes sure of the job row itself.
FlagAuditLocksJob(o) == <<ForUpdate(Job(o)), ForUpdate(Row(o))>>

FlagAudit(o) == <<ForUpdate(Row(o))>>
Fulfill(o) == <<ForUpdate(Row(o))>>
Inventory(o) == <<ForUpdate(Row(o))>> \o LockCatalog
CreateOffer(o) == <<ForUpdate(Row(o))>> \o LockCatalog
ApplyOffer(l, p) == <<ForUpdate(Row(OrderOf[l])), ForUpdate(OfferRow(l)), Refer(Product(p))>>

\* Without an open offer, and with one to close.
DropLine(l) == <<ForUpdate(Row(OrderOf[l])), ForUpdate(Line(l))>>
DropOffered(l) == DropLine(l) \o LockCatalog \o <<Update(OfferRow(l))>>

Cancel(o) == <<ForUpdate(Row(o))>> \o LockCatalog
CancelOffered(l) == Cancel(OrderOf[l]) \o <<Update(OfferRow(l))>>

NodeTransactions(o) ==
    {FlagAudit(o), Fulfill(o), Inventory(o), CreateOffer(o), Cancel(o)} \cup
    UNION {{DropLine(l), DropOffered(l), CancelOffered(l)} \cup
           {ApplyOffer(l, p) : p \in 1..Catalog} : l \in {k \in Lines : OrderOf[k] = o}}

\* Mutant: the reply locks what it writes and no more.
ReplyWithoutJob(l) == <<ForUpdate(OfferRow(l)), Refer(Row(OrderOf[l]))>>

\* The last lock is the foreign key of the audit row.
Reply(l) == <<ForUpdate(Job(OrderOf[l])), ForUpdate(OfferRow(l)), Refer(Row(OrderOf[l]))>>

DecideAudit(o) == <<ForUpdate(Job(o)), Update(Row(o))>>
Retry(o) == <<ForUpdate(Job(o))>>
CancelBeforeResolution(o) == <<ForUpdate(Row(o)), ForUpdate(Job(o))>>

\* The foreign keys of the new lines, in the order of the request's items.
PlaceOrder(cart) == [i \in DOMAIN cart |-> Refer(Product(cart[i]))]

ExpireOffer(l) == <<ForUpdate(OfferRow(l)), Refer(Row(OrderOf[l]))>>

-----------------------------------------------------------------------------
Idle(a) == op[a] = "idle"
NextLock(a) == Head(todo[a])

Init ==
    /\ op = [a \in Agents |-> "idle"]
    /\ todo = [a \in Agents |-> <<>>]
    /\ held = [a \in Agents |-> {}]
    /\ driving = [w \in Workers |-> NoOrder]

JobLocked(o) ==
    \/ \E w \in Workers : driving[w] = o
    \/ \E a \in Agents : ForUpdate(Job(o)) \in held[a]

\* b's transaction has a lock that a's next one would clash with.
Blocks(b, a) == a # b /\ todo[a] # <<>> /\ \E q \in held[b] : Clash(q, NextLock(a))

\* a's next lock is the job row that worker b keeps while its node runs.
AwaitsDrive(a, b) ==
    todo[a] # <<>> /\ b \in Workers /\ driving[b] # NoOrder /\ NextLock(a).row = Job(driving[b])

Waits(a, b) == Blocks(b, a) \/ AwaitsDrive(a, b)

Begin(a, name, locks) ==
    /\ Idle(a)
    /\ op' = [op EXCEPT ![a] = name]
    /\ todo' = [todo EXCEPT ![a] = locks]

Handle(h) ==
    /\ \/ \E l \in Lines : Begin(h, "reply", Reply(l))
       \/ \E o \in Orders : Begin(h, "decide_audit", DecideAudit(o)) \/ Begin(h, "retry", Retry(o))
       \/ \E o \in Cancellable : Begin(h, "cancel", CancelBeforeResolution(o))
       \/ \E cart \in Carts : Begin(h, "place_order", PlaceOrder(cart))
    /\ UNCHANGED <<held, driving>>

\* expire_offers skips a job row that is locked.
Expire(w, l) ==
    /\ driving[w] = NoOrder /\ ~JobLocked(OrderOf[l])
    /\ Begin(w, "expire_offers", ExpireOffer(l))
    /\ held' = [held EXCEPT ![w] = {ForUpdate(Job(OrderOf[l]))}]
    /\ UNCHANGED driving

\* process_one skips locked rows, too.
Claim(w, o) ==
    /\ Idle(w) /\ driving[w] = NoOrder /\ ~JobLocked(o)
    /\ driving' = [driving EXCEPT ![w] = o]
    /\ UNCHANGED <<op, todo, held>>

RunNode(w) ==
    /\ driving[w] # NoOrder
    /\ \E locks \in NodeTransactions(driving[w]) : Begin(w, "node", locks)
    /\ UNCHANGED <<held, driving>>

EndDrive(w) ==
    /\ Idle(w) /\ driving[w] # NoOrder
    /\ driving' = [driving EXCEPT ![w] = NoOrder]
    /\ UNCHANGED <<op, todo, held>>

Lock(a) ==
    /\ todo[a] # <<>>
    /\ \A b \in Agents : ~Waits(a, b)
    /\ held' = [held EXCEPT ![a] = @ \cup {NextLock(a)}]
    /\ todo' = [todo EXCEPT ![a] = Tail(@)]
    /\ UNCHANGED <<op, driving>>

\* Mutant: the transaction is left open.
EndedOpen(a) ==
    /\ op' = [op EXCEPT ![a] = "idle"]
    /\ todo' = [todo EXCEPT ![a] = <<>>]
    /\ UNCHANGED held

Ended(a) ==
    /\ op' = [op EXCEPT ![a] = "idle"]
    /\ todo' = [todo EXCEPT ![a] = <<>>]
    /\ held' = [held EXCEPT ![a] = {}]

Commit(a) ==
    /\ ~Idle(a) /\ todo[a] = <<>>
    /\ Ended(a)
    /\ UNCHANGED driving

\* Agents none of which goes on before another of them.
Deadlocked(S) == S # {} /\ \A a \in S : \E b \in S : Waits(a, b)

\* The same as far as the database can see.
Visible(S) == S # {} /\ \A a \in S : \E b \in S : Blocks(b, a)

\* The database breaks a cycle by an error in one of its transactions; the
\* drive of a node ends with its exception, too (or goes on to another node in
\* the next drive).
Victim(a) ==
    /\ \E S \in SUBSET Agents : a \in S /\ Visible(S) /\ \A T \in SUBSET S : Visible(T) => T = S
    /\ Ended(a)
    /\ driving' = [w \in Workers |-> IF w = a THEN NoOrder ELSE driving[w]]

\* A worker's process dies and its connections with it.
Die(w) ==
    /\ Ended(w)
    /\ driving' = [driving EXCEPT ![w] = NoOrder]

Next ==
    \/ \E h \in Handlers : Handle(h)
    \/ \E w \in Workers : RunNode(w) \/ EndDrive(w) \/ Die(w)
    \/ \E w \in Workers, l \in Lines : Expire(w, l)
    \/ \E w \in Workers, o \in Orders : Claim(w, o)
    \/ \E a \in Agents : Lock(a) \/ Commit(a) \/ Victim(a)

Spec == Init /\ [][Next]_vars

-----------------------------------------------------------------------------
Ops == {"idle", "reply", "decide_audit", "retry", "cancel", "place_order",
        "expire_offers", "node"}

\* Types; who has no transaction has no locks, and no job row is held twice.
LocksType ==
    /\ op \in [Agents -> Ops]
    /\ todo \in [Agents -> Seq(Locks)]
    /\ held \in [Agents -> SUBSET Locks]
    /\ driving \in [Workers -> Orders \cup {NoOrder}]
    /\ \A a \in Agents : op[a] = "idle" => todo[a] = <<>> /\ held[a] = {}
    /\ \A v, w \in Workers : driving[v] = driving[w] => v = w \/ driving[v] = NoOrder

\* models.py:111, "One row per order serializes that order's graph and callback
\* writes": while one transaction has a row of an order locked to write it, so
\* has no other, unless one of them is the customer's cancel and has not got
\* the job row yet.  This is what lets Workflow take a transaction for a step
\* although decide_audit and drop_line read rows that they have not locked.
Writing(a, o) == \E q \in held[a] : q.row \in OwnRows(o) /\ q.mode # "reference"
OneWriterPerOrder ==
    \A o \in Orders : \A a, b \in Agents :
       a # b /\ Writing(a, o) /\ Writing(b, o)
          => \E c \in {a, b} : op[c] = "cancel" /\ todo[c] # <<>>

\* services.py:27, the catalog is locked "in a stable order to prevent [...]
\* deadlocks": whenever agents wait for each other in a circle, one of them is
\* the cancel handler, which locks job and order the wrong way round, or an
\* intake whose items are not in the order of their ids.
OutOfOrder(a) ==
    /\ op[a] = "place_order" /\ todo[a] # <<>>
    /\ \E q \in held[a] : q.row[2] >= NextLock(a).row[2]
DeadlockHasCause ==
    \A S \in SUBSET Agents :
       Deadlocked(S) => \E a \in S : op[a] = "cancel" \/ OutOfOrder(a)

\* The database breaks every deadlock but one kind: a cancel handler that has
\* locked the order row, and a worker that drives that order.
HiddenHasCause ==
    \A S \in SUBSET Agents :
       Deadlocked(S) /\ (\A T \in SUBSET S : ~Visible(T))
          => \E a \in S, w \in S \cap Workers :
                /\ op[a] = "cancel" /\ driving[w] # NoOrder
                /\ ForUpdate(Row(driving[w])) \in held[a]
=============================================================================
