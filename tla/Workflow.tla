------------------------------ MODULE Workflow ------------------------------
(***************************************************************************)
(* The running system: the nine-node graph of app/graph.py, the polling    *)
(* workers of app/worker.py that drive it, the handlers of app/main.py     *)
(* that wake it, the customers' deadlines, and the failures of a worker.   *)
(*                                                                         *)
(* A worker keeps the job row of an order locked while it drives the       *)
(* order's graph; each node commits its own transaction (Services) and     *)
(* then its checkpoint.  The checkpoint writes of a drive are not awaited  *)
(* one by one (Durability = "async", the default of invoke): only when a   *)
(* drive ends is its last checkpoint known to be stored, and a worker that *)
(* dies may leave any earlier one.  With "sync" at most the last is lost.  *)
(***************************************************************************)
EXTENDS Services

CONSTANTS Workers,
          NoWorker,
          MaxAttempts,   \* 5 in process_one
          Durability,    \* of graph.invoke: "async" or "sync"
          Cancellable,   \* orders whose customer may call POST cancel
          Retriable,     \* orders an admin may call POST retry on
          MaxFaults      \* bound: failures of workers in a behaviour

ASSUME WorkflowAssumption ==
    /\ NoWorker \notin Workers
    /\ MaxAttempts \in Nat \ {0}
    /\ Durability \in {"async", "sync"}
    /\ Cancellable \subseteq Orders /\ Retriable \subseteq Orders
    /\ MaxFaults \in Nat

VARIABLES job,         \* rows of jobs
          lock,        \* the worker that holds the job row of an order
          live,        \* per order: the graph's checkpoint
          resume,      \* per order: the value this drive resumes with
          stale,       \* per order: older checkpoints that may be the stored one
          cancelling,  \* orders locked by a cancel handler waiting for the job
          faults       \* how often a worker failed

graph == <<live, resume, stale>>
vars == <<db, job, lock, graph, cancelling, faults>>

Nodes == {"fraud", "manual", "inventory", "offer", "wait_customer", "apply",
          "drop_line", "fulfill", "cancel", "end"}
\* `at' is the node to run next, `asked' that its interrupt is pending.
Checkpoint == [at : Nodes, missing : Lines \cup {NoLine}, asked : BOOLEAN]
Answers == {"none", "approve", "reject", "accept", "expired"}
JobRow == [pending : BOOLEAN, attempts : 0..MaxAttempts]

\* No checkpoint yet: invoke enters the graph from START, at `fraud'.
Entry == [at |-> "fraud", missing |-> NoLine, asked |-> FALSE]

Init ==
    /\ ServicesInit
    /\ job = [o \in Orders |-> [pending |-> FALSE, attempts |-> 0]]
    /\ lock = [o \in Orders |-> NoWorker]
    /\ live = [o \in Orders |-> Entry]
    /\ resume = [o \in Orders |-> "none"]
    /\ stale = [o \in Orders |-> {}]
    /\ cancelling = {}
    /\ faults = 0

-----------------------------------------------------------------------------
Unlocked(o) == lock[o] = NoWorker
Idle(w) == \A o \in Orders : lock[o] # w

\* wake, and the same three assignments in expire_offers: due at once, with
\* all attempts.
Wake(o) == job' = [job EXCEPT ![o] = [pending |-> TRUE, attempts |-> 0]]

\* The answer the checkpoint's pending interrupt is waiting for.
Decision(o) == IF live[o].at = "manual" THEN order[o].manual
                                        ELSE offer[live[o].missing].decision

\* The drive stands at an interrupt it did not come to resume.
Paused(o) == live[o].asked /\ resume[o] = "none"

DriveOver(o) == live[o].at = "end" \/ Paused(o)

\* Worker w is about to run node n of order o.
Running(w, o, n) == lock[o] = w /\ live[o].at = n /\ ~Paused(o)

\* The node's transaction needs the row of o, which a cancel handler that
\* waits for the job row keeps locked.
RowFree(o) == o \notin cancelling

\* The checkpoint after a node; older ones may outlive it in the store.
Save(o, c) ==
    /\ live' = [live EXCEPT ![o] = c]
    /\ stale' = [stale EXCEPT ![o] = IF Durability = "sync" THEN {live[o]}
                                     ELSE @ \cup {live[o]}]
    /\ resume' = [resume EXCEPT ![o] = "none"]
    /\ UNCHANGED <<job, lock, cancelling, faults>>

GoTo(o, n) == Save(o, [live[o] EXCEPT !.at = n, !.asked = FALSE])
Ask(o) == Save(o, [live[o] EXCEPT !.asked = TRUE])

-----------------------------------------------------------------------------
(* The API and the customers. *)

Place(o) ==
    /\ PlaceOrder(o)
    /\ job' = [job EXCEPT ![o] = [pending |-> TRUE, attempts |-> 0]]
    /\ UNCHANGED <<lock, graph, cancelling, faults>>

\* cancel_before_resolution locks the order row first ...
LockForCancel(o) ==
    /\ o \in Cancellable /\ Placed(o) /\ RowFree(o)
    /\ cancelling' = cancelling \cup {o}
    /\ UNCHANGED <<db, job, lock, graph, faults>>

\* Mutant: any order can be cancelled this way, however far it got.
CancelledAnyTime(o) ==
    /\ CancelBeforeResolution(o)
    /\ job' = [job EXCEPT ![o].pending = FALSE]

\* Mutant: the job is disabled before the status is looked at.
CancelledJobFirst(o) ==
    /\ IF order[o].status = "received" THEN CancelBeforeResolution(o) ELSE UNCHANGED db
    /\ job' = [job EXCEPT ![o].pending = FALSE]

CancelledIfReceived(o) ==
    IF order[o].status = "received"
    THEN /\ CancelBeforeResolution(o)
         /\ job' = [job EXCEPT ![o].pending = FALSE]
    ELSE UNCHANGED <<db, job>>

\* ... then waits for the job row, and cancels only an order still received.
CustomerCancel(o) ==
    /\ o \in cancelling /\ Unlocked(o)
    /\ CancelledIfReceived(o)
    /\ cancelling' = cancelling \ {o}
    /\ UNCHANGED <<lock, graph, faults>>

\* decide_audit; a repeated or a contrary decision changes nothing.
DecideAudit(o, d) ==
    /\ Unlocked(o) /\ RowFree(o)
    /\ order[o].status = "manual_review" /\ order[o].manual = "none"
    /\ order' = [order EXCEPT ![o].manual = d]
    /\ Wake(o)
    /\ UNCHANGED <<stock, line, offer, outbox, refund, bill, shipped,
                   lock, graph, cancelling, faults>>

\* reply; its audit row references the order row, which must not be locked.
Reply(l, d) ==
    LET o == OrderOf[l] IN
    /\ Unlocked(o) /\ RowFree(o)
    /\ offer[l].status = "pending" /\ offer[l].decision = "none" /\ ~offer[l].due
    /\ offer' = [offer EXCEPT ![l].decision = d]
    /\ Wake(o)
    /\ UNCHANGED <<stock, order, line, outbox, refund, bill, shipped,
                   lock, graph, cancelling, faults>>

Retry(o) ==
    /\ o \in Retriable /\ Placed(o) /\ Unlocked(o)
    /\ Wake(o)
    /\ UNCHANGED <<db, lock, graph, cancelling, faults>>

\* The clock passes expires_at of an offer, answered or not; nobody looks at it
\* once the offer is closed.
Deadline(l) ==
    /\ offer[l].status = "pending" /\ ~offer[l].due
    /\ offer' = [offer EXCEPT ![l].due = TRUE]
    /\ UNCHANGED <<stock, order, line, outbox, refund, bill, shipped,
                   job, lock, graph, cancelling, faults>>

-----------------------------------------------------------------------------
(* The worker loop. *)

\* Mutant: expire_offers trusts the list it read before it had the lock.
StillOpenUnchecked(l) == offer[l].status = "pending"

StillOpen(l) == offer[l].status = "pending" /\ offer[l].decision = "none"

\* expire_offers: re-checked under the job row's lock, skipped if it is held.
ExpireOffer(w, l) ==
    LET o == OrderOf[l] IN
    /\ Idle(w) /\ Unlocked(o) /\ RowFree(o)
    /\ StillOpen(l) /\ offer[l].due
    /\ offer' = [offer EXCEPT ![l].decision = "expired"]
    /\ Wake(o)
    /\ UNCHANGED <<stock, order, line, outbox, refund, bill, shipped,
                   lock, graph, cancelling, faults>>

\* Mutant: drive starts a completed graph over again.
ClaimRestarts(w, o) ==
    /\ Idle(w) /\ Unlocked(o) /\ job[o].pending
    /\ lock' = [lock EXCEPT ![o] = w]
    /\ resume' = [resume EXCEPT ![o] = IF live[o].asked THEN Decision(o) ELSE "none"]
    /\ live' = [live EXCEPT ![o] = IF live[o].at = "end" THEN Entry ELSE @]
    /\ UNCHANGED <<db, job, stale, cancelling, faults>>

\* Mutant: drive never resumes an interrupt.
ClaimNeverResumes(w, o) ==
    /\ Idle(w) /\ Unlocked(o) /\ job[o].pending
    /\ lock' = [lock EXCEPT ![o] = w]
    /\ UNCHANGED <<db, job, live, resume, stale, cancelling, faults>>

\* process_one takes a pending job (available_at is left to chance), and drive
\* reads the stored checkpoint and the decision its interrupt waits for.
Claim(w, o) ==
    /\ Idle(w) /\ Unlocked(o) /\ job[o].pending
    /\ lock' = [lock EXCEPT ![o] = w]
    /\ resume' = [resume EXCEPT ![o] = IF live[o].asked THEN Decision(o) ELSE "none"]
    /\ UNCHANGED <<db, job, live, stale, cancelling, faults>>

\* The drive returned: the job row is committed, every checkpoint is stored.
Finish(w, o) ==
    /\ lock[o] = w /\ DriveOver(o)
    /\ job' = [job EXCEPT ![o] = [pending |-> FALSE, attempts |-> 0]]
    /\ lock' = [lock EXCEPT ![o] = NoWorker]
    /\ stale' = [stale EXCEPT ![o] = {}]
    /\ UNCHANGED <<db, live, resume, cancelling, faults>>

Fraud(w, o) ==
    /\ Running(w, o, "fraud")
    /\ GoTo(o, IF order[o].high THEN "manual" ELSE "inventory")
    /\ UNCHANGED db

\* manual runs from its start again when it is resumed.
AskAuditor(w, o) ==
    /\ Running(w, o, "manual") /\ ~live[o].asked /\ RowFree(o)
    /\ FlagAudit(o)
    /\ Ask(o)

\* Mutant: a rejected order goes on like an approved one.
AuditorIgnored(w, o) ==
    /\ Running(w, o, "manual") /\ live[o].asked /\ RowFree(o)
    /\ FlagAudit(o)
    /\ GoTo(o, "inventory")

AuditorAnswered(w, o) ==
    /\ Running(w, o, "manual") /\ live[o].asked /\ RowFree(o)
    /\ FlagAudit(o)
    /\ GoTo(o, IF resume[o] = "approve" THEN "inventory" ELSE "cancel")

CheckStock(w, o) ==
    /\ Running(w, o, "inventory") /\ RowFree(o)
    /\ \E got \in SUBSET Wanted(o) :
          /\ Inventory(o, got)
          /\ LET missing == Wanted(o) \ got IN
             \/ /\ missing = {}
                /\ Save(o, [at |-> IF Active(o) = {} THEN "cancel" ELSE "fulfill",
                            missing |-> NoLine, asked |-> FALSE])
             \/ \E l \in missing :
                   /\ \A k \in missing : l <= k
                   /\ Save(o, [at |-> "offer", missing |-> l, asked |-> FALSE])

Offer(w, o) ==
    /\ Running(w, o, "offer") /\ RowFree(o)
    /\ \E hint \in Hints : CreateOffer(o, live[o].missing, hint)
    /\ GoTo(o, IF offer'[live[o].missing].status # "none"
               THEN "wait_customer" ELSE "drop_line")

AskCustomer(w, o) ==
    /\ Running(w, o, "wait_customer") /\ ~live[o].asked
    /\ Ask(o)
    /\ UNCHANGED db

\* Mutant: an accepted replacement takes the branch of a refused one.
CustomerMisread(w, o) ==
    /\ Running(w, o, "wait_customer") /\ live[o].asked
    /\ GoTo(o, IF resume[o] = "expired" THEN "apply" ELSE "drop_line")
    /\ UNCHANGED db

CustomerAnswered(w, o) ==
    /\ Running(w, o, "wait_customer") /\ live[o].asked
    /\ GoTo(o, IF resume[o] = "accept" THEN "apply" ELSE "drop_line")
    /\ UNCHANGED db

Apply(w, o) ==
    /\ Running(w, o, "apply") /\ RowFree(o)
    /\ ApplyOffer(o, live[o].missing)
    /\ GoTo(o, "inventory")

Drop(w, o) ==
    /\ Running(w, o, "drop_line") /\ RowFree(o)
    /\ DropLine(o, live[o].missing)
    /\ GoTo(o, "inventory")

Ship(w, o) ==
    /\ Running(w, o, "fulfill") /\ RowFree(o)
    /\ Fulfill(o)
    /\ GoTo(o, "end")

Refuse(w, o) ==
    /\ Running(w, o, "cancel") /\ RowFree(o)
    /\ Cancel(o)
    /\ GoTo(o, "end")

\* The node to run cannot commit: its own guard or a unique key raises.
MustRaise(o) ==
    /\ RowFree(o)
    /\ \/ live[o].at = "apply" /\ ~CanApply(live[o].missing)
       \/ live[o].at = "fulfill" /\ ~CanFulfill(o)
       \/ live[o].at = "cancel" /\ ~CanCancel(o)

\* An exception leaves the drive: from a node that must raise, or, as a fault,
\* from a lost connection at any point of it, the store's included.
Raise(w, o) ==
    /\ lock[o] = w
    /\ MustRaise(o) \/ faults < MaxFaults
    /\ faults' = IF MustRaise(o) THEN faults ELSE faults + 1
    /\ \E c \in {live[o]} \cup (IF MustRaise(o) THEN {} ELSE stale[o]) :
          live' = [live EXCEPT ![o] = c]
    /\ stale' = [stale EXCEPT ![o] = {}]
    /\ resume' = [resume EXCEPT ![o] = "none"]
    /\ lock' = [lock EXCEPT ![o] = NoWorker]
    /\ LET n == job[o].attempts + 1 IN
       job' = [job EXCEPT ![o] = [pending |-> n < MaxAttempts, attempts |-> n]]
    /\ UNCHANGED <<db, cancelling>>

\* The worker's process dies: the job row is unlocked and still pending.
Crash(w, o) ==
    /\ lock[o] = w /\ faults < MaxFaults
    /\ faults' = faults + 1
    /\ \E c \in {live[o]} \cup stale[o] : live' = [live EXCEPT ![o] = c]
    /\ stale' = [stale EXCEPT ![o] = {}]
    /\ resume' = [resume EXCEPT ![o] = "none"]
    /\ lock' = [lock EXCEPT ![o] = NoWorker]
    /\ UNCHANGED <<db, job, cancelling>>

-----------------------------------------------------------------------------
Node(w, o) ==
    \/ Fraud(w, o) \/ AskAuditor(w, o) \/ AuditorAnswered(w, o)
    \/ CheckStock(w, o) \/ Offer(w, o)
    \/ AskCustomer(w, o) \/ CustomerAnswered(w, o)
    \/ Apply(w, o) \/ Drop(w, o) \/ Ship(w, o) \/ Refuse(w, o)

Failure(w, o) == Raise(w, o) \/ Crash(w, o)

\* Every worker sleeps: nothing to claim, nothing to expire.
Sleep ==
    /\ cancelling = {}
    /\ \A o \in Orders : Unlocked(o) /\ ~job[o].pending
    /\ \A l \in Lines : offer[l].due => offer[l].decision # "none"
    /\ UNCHANGED vars

Next ==
    \/ \E o \in Orders : Place(o) \/ LockForCancel(o) \/ CustomerCancel(o) \/ Retry(o)
    \/ \E o \in Orders, d \in {"approve", "reject"} : DecideAudit(o, d)
    \/ \E l \in Lines, d \in {"accept", "reject"} : Reply(l, d)
    \/ \E l \in Lines : Deadline(l)
    \/ \E w \in Workers, l \in Lines : ExpireOffer(w, l)
    \/ \E w \in Workers, o \in Orders :
          Claim(w, o) \/ Node(w, o) \/ Finish(w, o) \/ Failure(w, o)
    \/ Sleep

Spec == Init /\ [][Next]_vars

\* What the code's scheduling guarantees.  The loop of main never ends, so a
\* worker that drives an order goes on; jobs are claimed in the order of
\* available_at and every due offer is looked at before every claim, so no
\* order and no offer is passed over for ever (a worker that is busy with
\* another order disables the step now and then: strong fairness).  Time
\* passes.  Nobody has to answer, cancel or retry.
Fairness ==
    /\ \A w \in Workers, o \in Orders : WF_vars(Node(w, o) \/ Finish(w, o))
    /\ \A o \in Orders : SF_vars(\E w \in Workers : Claim(w, o))
    /\ \A l \in Lines : SF_vars(\E w \in Workers : ExpireOffer(w, l))
    /\ \A l \in Lines : WF_vars(Deadline(l))
    /\ \A o \in Orders : WF_vars(CustomerCancel(o))

FairSpec == Spec /\ Fairness

\* An order that nobody works on and nobody is asked about, although it is not
\* settled: its attempts are used up, or an answer to it was never looked at.
NeedsPush(o) ==
    /\ Placed(o) /\ order[o].status \notin Settled
    /\ Unlocked(o) /\ ~job[o].pending
    /\ ~(live[o].asked /\ Decision(o) = "none")

\* An admin who works through such orders with POST retry.
DiligentSpec == FairSpec /\ \A o \in Retriable : SF_vars(Retry(o) /\ NeedsPush(o))
=============================================================================
