# A verification project for OrderOps AI

OrderOps AI takes grocery orders after checkout, reserves their stock, offers a
discounted replacement for every line that is sold out, waits for the customer
(and, for risky orders, for an auditor), and ships or cancels.  The modules here
model the whole way of an order: concurrent handlers that take it in and score it,
the database transactions, the workflow graph, the worker processes with their job
queue and checkpoints, the handlers that wake them, and the operator's page, both
in front of a real shop and with the sample shop it carries.

Paths below are relative to the repository; `services.py` and the like are
`app/services.py`, `App.jsx` and `demo.js` are in `frontend/src/`.

## The system

| Component | State it keeps | Operations | Talks to |
|---|---|---|---|
| Replacement policy, `policy.py` | none | `offer_price`, `choose_alternative` | called by services and agent |
| Local model, `agent.py` | none | `recommend`: a hint, outside any lock | HTTP to Ollama, 10 s timeout |
| Order services, `services.py`, `models.py` | `products`, `orders`, `order_lines`, `offers`, `outbox` | `flag_audit`, `inventory`, `create_offer`, `apply_offer`, `drop_line`, `fulfill`, `cancel`, `cancel_before_resolution`, each one transaction | called by graph nodes and by the cancel handler |
| Workflow graph, `graph.py` | langgraph's checkpoint of an order | nine nodes, conditional edges, two interrupts | services |
| Worker, `worker.py` | `jobs` (and the lock on a job row) | `drive`, `process_one`, `expire_offers`, `main` | graph; competes with the handlers for job rows |
| API callbacks, `main.py` | decisions in `orders` and `offers`, `jobs` | `reply`, `decide_audit`, `retry`, `cancel_order` | wake jobs |
| Order intake, `main.py`, `schemas.py` | `orders`, `order_lines`, `jobs`, the unique `external_id` | `create_order`, the webhook, `_place_order` | fraud scoring |
| Fraud scoring, `fraud.py` | none; reads a customer's orders | `score` | called by intake |
| WooCommerce webhook, `integrations/woocommerce.py` | none | `verify_signature`, `parse_order` | intake |
| Authentication, `auth.py` | `users` | tokens and roles | every admin route |
| Dashboard API, `main.py` | none | `dashboard`, `outbox`, metrics | read-only queries |
| Page, `App.jsx`, `main.jsx`, `worker/index.js` | snapshot, dialog, polling flag, the id of the order it is placing | connect, poll, decide, place an order | the API |
| Sample shop, `demo.js` | 25 orders and a stock in the browser | `transition`, `metricsFor` | the page in demo mode; shares no code with the services |

What is hard in it:

* **Two stores that are not committed together.** A node commits its own
  transaction; the checkpoint follows in another, and with langgraph's default
  durability (`async`; `worker.py` passes none to `invoke`) it is not even
  awaited before the next node runs.  A crash makes a worker replay one node or
  several, on rows that have moved on.
* **Answers race with drives.** `reply`, `decide_audit`, `expire_offers`,
  `retry` and the customer's cancel arrive between any two steps; the job row's
  lock orders most of them, but the cancel handler locks in the other order.
* **Several orders compete for stock**, with a hint computed outside the locks.
* **Refunds come from four transactions**, keyed by unique outbox events that
  raise when they are written twice.
* **Deadlines**: an offer lapses, but an answer in time stays valid.
* **Bounded retries**: five failures and the job stops until somebody retries.
* **Requests are delivered again.** A web shop repeats its webhooks, a user repeats
  a form whose answer was lost, while the first try may still be served; the
  score reads a history that concurrent orders are changing.
* **The page acts on what it saw.** A row is up to three seconds old and is read in
  two statements; polls, reconnections and commands overlap; a request that failed
  may arrive later.
* **The workflow exists twice**, and the second one (the sample shop) must not
  promise what the first does not do.

What makes each component correct: the policy chooses the head of its sort and a
hint cannot widen it; the services lose no unit and no paisa; the graph asks
before it replaces or ships a risky order; the worker forgets no order and no
answer; a decision is final; an external id is one order, and everybody is told
the truth about it; a click is recorded as what its button said; both shops take an
order through the same lifecycle.

## The modules

| Module | What it is | Code |
|---|---|---|
| `Policy` | pure operators, with the assumptions on a catalogue | `policy.py`, the choice in `create_offer` |
| `Services` (extends Policy) | the rows and one operator with primed variables per transaction | `services.py`, `models.py`, `_place_order` |
| `Workflow` (extends Services) | checkpoints, jobs, locks, handlers, faults; `Spec`, `FairSpec`, `DiligentSpec` | `graph.py`, `worker.py`, `main.py` |
| `Guarantees` | the properties of the running system | |
| `Documented` | sentences of the repository that the code does not keep | |
| `Invariants` | the strengthenings that are inductive for every durability | |
| `Progress` (extends Invariants) | where an order's rows are while its graph is somewhere, and under which conditions | |
| `Money` (extends Progress) | the ledger of an order | |
| `OrderLifecycle` | the abstract specification: what a shop promises about an order | |
| `Refinement` | how the rows of Workflow are read as an `OrderLifecycle` | |
| `Locks` | the row locks of every transaction, one after another | `services.py`, `worker.py`, `main.py` |
| `Intake` | concurrent handlers, `fraud.score`, the unique key | `_place_order`, `fraud.py` |
| `Dispatch` (extends Intake) | the form with its retries, and the web shop | `create` and `resetField` in `App.jsx`, the webhook route |
| `Dashboard` (extends OrderLifecycle) | the page in front of a shop that goes on working | `App.jsx`, `main.jsx`, `worker/index.js`, `dashboard` |
| `DashboardGuarantees` | what its operator may rely on | |
| `DemoRules` (extends Policy) | the browser's own replacement rule | `demo.js` |
| `SellOut` (extends DemoRules) | both rules in a shop that sells out, and the sort they are compared with | `policy.py`, `create_offer` |
| `DemoStore` | the sample shop | `demo.js`, the demo half of `App.jsx` |
| `DemoGuarantees` | its properties, and how it is read as an `OrderLifecycle` | |
| `MCWorkflow`, `MCPolicy`, `MCLocks`, `MCDispatch`, `MCDashboard`, `MCDemo` | the instances TLC checks | |
| `Policy_proofs`, `Workflow_proofs` (transactions, types, stock, decisions, drives), `Progress_proofs` (with the refinement and the money), `Dispatch_proofs` (with the intake), `Dashboard_proofs` (with what `OrderLifecycle` implies), `Locks_proofs`, `Demo_proofs`, and `Sums_proofs` (lemmas about sums, least elements and sorted lists) | the proofs | |

They meet in `OrderLifecycle`.  Workflow is checked and proved to implement it, under
the conditions named below (`PromiseHolds`); Dashboard *assumes* nothing more of the
shop behind it, so what is shown of the page holds in front of every shop that keeps
the promise; the sample shop is proved to implement it too (`DemoPromise`).  Intake and Services meet at `PlaceOrder`: what Intake calls a committed row is
there the first step of an order.  `Locks` has the same transactions as Workflow and
Services, seen from the other side: not what they read and write, but what they wait
for.  It is what entitles Workflow to take each of them for one step.

### The running system: state and actions

* `order`, `line`, `offer`, `stock`, `job` are the rows.  An offer is keyed by its
  line (`offers.line_id` is unique), so the graph's `offer_id` is its
  `missing_line`.  `high` is `risk_score >= risk_threshold`, chosen at intake.
* `outbox` is the set of event keys.  Amounts are kept per line: `refund[l]` is
  what the events promise to pay back for `l`, `bill[l]` its share of
  `final_total_paisa`, `shipped` the lines of fulfillment events.  Refund events of
  cash-on-delivery orders carry no amount or zero.
* `live[o]` is the checkpoint the running drive is at (the node to run next, its
  missing line, whether its interrupt is pending), `stale[o]` the older checkpoints
  of which one may be the stored one if the worker dies now.  With
  `Durability = "sync"` that is only the last; with `"async"` all of the drive.
* `resume[o]` is the decision `drive` read and passes to the interrupted node;
  `lock[o]` the worker that holds the job row; `cancelling` the orders whose row a
  cancel handler holds while it waits for the job row.

A node is one action: its transaction and the checkpoint after it (`Save`,
`GoTo`, `Ask`).  A crash *between* the two is a crash after the action that keeps
an older checkpoint.  `manual` and `wait_customer` are two actions each,
before and after their interrupt, and the code before the interrupt runs again
when it is resumed, as in langgraph.  `Claim` is the start of `process_one` and of
`drive`, `Finish` its normal end, `Raise` its `except` branch (a node that must
raise, or a lost connection), `Crash` the death of the process.  Handlers are one
action, except the cancel handler, whose two row locks are two steps
(`LockForCancel`, `CustomerCancel`).  A transaction that would wait for a row is
disabled (`RowFree`, `Unlocked`); one that skips locked rows cannot claim them.

Time is only "the deadline of an offer has passed" (`Deadline`); `available_at`
and the back-off are left to chance.  Audit rows, messages, tokens, names and
addresses are left out: no step depends on them, apart from the token checks, which
a caller of the modelled handlers has passed.  `recursion_limit` is not modelled:
by `DrivesAreShort` a drive runs three nodes per line of its order and three more at most,
so 153 for the 50 lines `OrderInput` allows, and 350 are allowed.  (The webhook has no limit
on lines: beyond 115 a drive could exceed 350, raise, and go on from its checkpoint with
the next attempt.)  A catalogue's prices, groups and
brands are constant because nothing in `app/` writes them.  Numbers are unbounded:
the amounts fit PostgreSQL's 32-bit `Integer` for the shops the program is meant
for.

### The row locks: state and actions

* A transaction is the sequence of row locks it asks for (`Reply`, `Inventory`,
  `CancelBeforeResolution`, ...), each with its mode: `FOR UPDATE`, an update of
  other columns, or the key-share lock with which PostgreSQL checks a foreign key.
  `Clash` is the part of PostgreSQL's table of lock conflicts these modes need.
* `op[a]` says what an agent's transaction is for, `todo[a]` which locks it has
  still to ask for, `held[a]` which it has.  `driving[w]` is the order whose job row
  the transaction of `process_one` holds while the nodes run in transactions of
  their own; `Blocks` is a wait the database sees, `AwaitsDrive` one it does not.
* `Handle` begins any request, `Claim`, `RunNode` and `EndDrive` are a drive,
  `Expire` is `expire_offers`.  `Lock` grants the next lock, `Commit` gives all of
  them back, `Victim` is the error with which the database breaks a circle it sees,
  `Die` the death of a worker.
* Any transaction of a component may come at any time, whatever the rows say, so what
  is shown of Locks holds for every run of the program.

`OneWriterPerOrder` is the justification of Workflow's atomic steps: `decide_audit`
and `drop_line` read rows they have not locked, and are safe because nobody else has
the job row.

### The intake: state and actions

* `placed` is the sequence of committed orders, with the digest that is kept with
  each, its content and its score; `recent` says whether it is in the velocity window.
* `handler[h]` is what a request being served has done so far: `looked` (no order
  with this id yet), `scored`, `inserted` (flushed, not committed), `clashed` (the
  unique key was taken), `answered`, or `died`.  Each stage is a statement of
  `_place_order`, so any two handlers interleave between any two statements.
  PostgreSQL's unique index makes the second insert wait (`KeyFree`) and then fail.
* `overtaken` is a history variable: since this handler read the history, it has
  changed (by an order of the same customer, or because the window moved).
* The form (`Dispatch`) keeps `pendingRequest`, the id of the try that has not been
  confirmed (`requestRef`), and `doing`, the handler it waits for.  `mine` and
  `switched` are history variables: the ids tried for the order as it stands now,
  and whether the mode changed while an id was pending.  `NotAccepted` is a refusal,
  or an answer that is lost while the handler is still at work.

Contents stand for everything an order says; two contents of one customer may write
its address differently (`Email`, `Person`).  Weights are in tenths.  Unknown
products are refused before anything changes and left out, as is a WooCommerce
payload that does not parse.  `create` computes its score from the form; it is a
constant of the content (`Trusted`, `Given`).

### The page: state and actions

`live`, `polling`, `dialog`, `mode` are the page's variables of these names;
`fetch` has a call of `/dashboard` per poll and one for the connection; `command` is
what `busy` stands for: the request sent, answered, or waiting for its refresh.
`wire` has the requests whose connection failed under the page, or that were on
their way when it was reloaded: they arrive later, or never.

A snapshot is *torn* as in the code: the orders are what they were when the query
ran (`Asked` stores them), an order's offer is looked up when the row is made
(`Snapshot`).  So a row may be in review and have an offer's buttons, and then `act`
sends an audit (`Click`).  `Work` is any step of the worker or the clock that
`OrderLifecycle` allows, `Withdraw` the customer's own cancellation,
`DecidedElsewhere` another operator or the customer's mail.  `MayPoll` is the guard
of `refresh`.  `ChooseDemo` forgets the snapshot, which the code keeps but shows
again only after another connection has replaced it.  `Served` says which host
answers a path with the page.  An order here has one line; the dialog of an order
with several shows one decision at a time in the same way.

### The sample shop

`DemoStore` follows `demo.js` function by function: `transition` is a function from
the store to the next store, composed of `Release`, `Cancel`, `Fulfill`, `Inventory`,
as in the code.  All 25 sample orders, with their quantities, statuses and holds,
and the ten products are the code's.  An order's log is the set of its kinds of
events.  `metrics` is `metricsFor` without the cards that are rates.

### What OrderLifecycle promises

An order is open, reviewed, asked about, shipped or refused, and never goes back.
`Step(o)` relates an order before and after any step of its keeper: one order moves,
and an order that is over stays as it is; the auditor speaks once, while it is in
review; an offer is made once, for a line that is still open, of an order that is
cleared; the first answer is the only one; a line is replaced with consent, and given
up only if the offer was turned down or there was none; only cleared orders ship, with
at least one line and no offer in the air; and an order is refused by its auditor,
for want of anything to ship, or by its customer before anything happened.  It is a
relation and not a list of operations because the browser takes several turns in one
call (it accepts, replaces and ships).

## The runs

Workflow's instances use a discount of 500 bps.  `OneOrder` is one order of three
lines and five products: one line sold out, its replacement's price only just low
enough after the discount; one in stock; one whose two units are one too many.
`TwoOrders` is two orders of two lines each and four products with at most one
unit each: each order's lines compete with the other's and with its replacements.
`MaxAttempts` is 2 instead of 5, so that both "retried" and "used up" occur.

| Run | Specification | What it shows |
|---|---|---|
| `one_order_async` | `Spec`, asynchronous checkpoints, 2 faults, retry any time | `TypeOK`, `MoneyFinal`, `ReviewGate`, `CustomerDecides`, `DecisionFinal` survive any replay, and no drive goes round its loop for ever (`DriveIsShort`) |
| `one_order_sync` | `DiligentSpec`, synchronous checkpoints, 2 faults, retry | `KeepsPromise` (Workflow implements OrderLifecycle), `SettledHoldsNothing`, `ReplayNeverRaises`, `SettledFinal`, and the liveness `OrdersSettle`, `AnswersTakeEffect` |
| `two_orders` | `Spec`, 2 workers, hints of a model, both customers may cancel, no fault | `StockConserved`, `BillNeverIncreases`, `MoneyBalanced`, `NeverForgotten`, `KeepsPromise` |
| `policy` | a shop that sells out | `HintOnlyRanks` (an offer is the hint or the head of the sorted list), and that the browser's rule offers at the shop's price (`DemoOffersSamePrice`) |
| `demo` | the sample shop, all buttons in any order | `DemoType`, `DemoStockConserved`, `DemoMoneyBalanced`, `MetricsNeverFall`, `DemoKeepsPromise` |
| `dispatch` | form, web shop and two concurrent handlers that may die | `DispatchType`, `OneOrderPerId`, `SuccessIsMine`, `ConflictIsReal`, `ReviewMeansBurst`, `NoDoublePlacing`, `ConflictOnlyAfterSwitch` |
| `dashboard` | `DashboardSpec` | `DashboardType`, `AcknowledgedIsRecorded`, `ClickMeansWhatItSays`, `ViewNeverGoesBack`, `ViewCatchesUp` |
| `locks` | two orders and products, two workers that may die, two handlers | `LocksType`, `OneWriterPerOrder`, `DeadlockHasCause`, `HiddenHasCause` |
| `cancel_after_crash`, `cancel_then_retry`, `lost_wakeup`, `cancel_blocks` | see *Disagreements found* | violated |

### Bounds, and why they are enough

* Workflow: three lines are enough for every branch of one order to be taken and for
  a replay to go back over a line that is finished to one that is not; two orders and
  two workers for every race about a unit; two faults for a failure during recovery
  from another.
* Locks: two orders, so that a handler of one can meet a worker of the other at the
  catalog; four agents for a circle of up to four; two products (`Catalog`) and the carts of
  both orders of their ids; one of the two customers may cancel.
* Dispatch: two handlers for every race about an id (a third would wait for the
  first two), three deliveries so that one can repeat an earlier one while another
  order of the customer is placed; two ids for the form (`Uids`), so that one can be
  given up; two contents for the form and two orders of one shop customer, the
  second of which is large, quick, and written from another spelling of the address.
  One of them is delivered again in the same bytes and in others (`Raws`).  Scores and
  `ValueMultiple`, a float in config.py, are counted in tenths.
* Dashboard: one order, because rows do not influence each other (the proofs are for
  any number); a second poll (`Polls = {1, 2}`) that a missing guard would start;
  one request (`MaxWire`) that is late.
* Demo: two orders of the user (`MaxNew`) for 14 units each of the sold-out tea or of
  its replacement, which has room for one of them: reserved, held, offered and
  refused orders all occur.

Handlers, and workers in safety runs with two of them, are interchangeable
(`SYMMETRY`).  Deadlock is checked except where a customer may cancel (the deadlock
found below is real), in `policy`, where the shop ends sold out, and in `demo`, where
every order ends settled and no more can be added.  A Workflow in which everything is
settled is not deadlocked: its workers sleep (`Sleep`).

### What holds only under a condition, and is run only under it

The conditions of the workflow are definitions of `Progress`, and hypotheses of the
theorems; each is one of the configurations the runs cover, and each is needed.

* `OneNodeBehind` (`Durability = "sync"` or no failures) for `KeepsPromise`,
  `SettledHoldsNothing`, `ReplayNeverRaises` and `SettledFinal`.  They fail with
  asynchronous checkpoints and a crash.  An old checkpoint at `manual`,
  `inventory` or `offer` acts on an order that has moved on: it is reviewed again, a
  settled order is changed, a line that was dropped and refunded is offered again;
  and an order that was refused can be put back in review and its `cancel` raise on
  the unique event until the attempts are used up.  They hold with
  `Durability = "sync"`, which is one argument of `invoke` away.
* `CancelsInTime` (nobody cancels; or no drive fails and what a customer may cancel no
  admin retries) for the same four, `MoneyBalanced` and `MoneyFinal`.  Without it a cancelled order
  is refunded and shipped (`cancel_then_retry`), or loses stock a failed drive had
  reserved (`cancel_after_crash`).  The two about money need nothing else: they survive
  asynchronous checkpoints and any number of failures (`MoneyAddsUp`, `MoneyIsFinal`).
* `NeverFails` (no failures, no such retry) for `NeverForgotten`, which fails after a
  fault (`lost_wakeup`).  What is left of it then is `RestsAtInterrupt`, which needs no
  condition: an answer can be overlooked, an order cannot.
* `ViewNeverGoesBack` excludes a connection made while a poll is under way: that poll
  may bring older rows than the connection did.
* `ConflictOnlyAfterSwitch` excludes a change of mode while an id is pending.
* `ConflictIsReal` allows a refusal for an order that says the same if the two have
  another form, which only webhook deliveries have (see *Disagreements found*).
* `ReviewMeansBurst` excludes scores that were overtaken by a concurrent order of the
  same customer, which `score` cannot see.

### Fairness

`main` loops for ever, so a worker that drives an order goes on (weak fairness of
its nodes and of `Finish`).  Jobs are claimed in the order of `available_at`, and
every due offer is looked at before every claim, so neither is passed over for
ever; a worker busy with another order disables these steps now and then, hence
strong fairness.  Time passes (`Deadline`), and a lock that is free is granted
(`CustomerCancel`).  Nobody is obliged to answer, cancel or retry.  `DiligentSpec`
adds an admin who keeps retrying, but only orders that need it (`NeedsPush`):
unsettled, unattended, and not waiting for an answer somebody can still give.

Locks is about safety alone: its `Spec` states no fairness, and `Workflow` has that of the
locks (a lock that is free is granted).

`DashboardFairness`: the interval of `App.jsx` keeps polling (weak fairness of
`Poll`), and a network that is tried for ever works now and then (strong fairness of
`Polled`).  That a call *ends* is an assumption on the browser; `call` sets no timeout.

## Disagreements found

| Run | Sentence | What the code does |
|---|---|---|
| `cancel_after_crash` | services.py:223-224, "nothing is reserved" | after a failed drive a `received` order may own stock, and cancelling leaks it |
| `cancel_then_retry` | services.py:224-225, "the worker never picks it up" | `POST retry` wakes it; it is refunded and shipped |
| `lost_wakeup` | docs/CONCURRENCY_HARDENING.md:12-14, replay "is safe" | an answer stored before its interrupt is checkpointed is never acted upon |
| `cancel_blocks` | main.py:280, "All callback/retry handlers lock Job" first | the cancel handler locks the order first and can block with a worker for ever |

The deadlock of `cancel_blocks` runs through a worker's process (its job
transaction waits, in Python, for a node that waits for the order row), so the
database sees no cycle; `db.py` sets no lock timeout.

Without a run:

* services.py:27 locks the catalog "in a stable order to prevent overselling/deadlocks."
  An intake does not keep that order: it refers to its products in the order of the
  request's items (main.py:165-167, the foreign keys of models.py:61-62), and can be in a
  circle with a node that locks the catalog; without `OutOfOrder`, `DeadlockHasCause` is
  violated in `locks`.  The database breaks this circle: the node runs again, or the
  intake answers with a server error and its sender has to repeat it.  By
  `DeadlocksHaveCause` there is no other kind but those of a cancel handler.
* graph.py:21 calls the review node "Idempotent if node is replayed."  It is with
  synchronous checkpoints (`KeepsPromise`); with asynchronous ones a crash can bring
  `flag_audit` back to an order that has moved on.
* docs/CONCURRENCY_HARDENING.md:12-14 again: with asynchronous checkpoints a drive may
  go on from before `create_offer` of a line that was dropped and refunded since.
  `create_offer` does not look at `dropped`; if another order's refusal has freed a
  replacement meanwhile, the line is offered, held and, if accepted, reserved for an
  order that will never ship it.
* In the same situation the stored checkpoint can be at `inventory` while the line's
  offer is already held; if stock has come back, the replay reserves the original too
  (services.py:55 looks at `reserved`, not at holds) and the line owns its units twice;
  nothing in `fulfill` gives the hold back.
* README.md:12-13, docs/STEP_BY_STEP_GUIDE.md:22-23 and the page (App.jsx:50,
  "Rejection cancels the entire order.") say that a rejected or lapsed offer cancels the
  full order; since partial fulfillment `drop_line` drops the line only, as
  tests/test_workflow.py:67-69 expects, and so does the model.
* docs/WOOCOMMERCE_SETUP.md:82-86 says that a retried delivery "of the same order returns
  the existing order".  It does if it is the same bytes; main.py:202 hashes the raw body
  and main.py:138 answers 409 to any other digest, so that the same order put together
  anew by the web shop is refused.  Hence the last clause of `ConflictIsReal`; without it,
  when a refusal always means other content, `dispatch` violates it: "woo-1" delivered
  as "sent" and then as "again".  `OneOrderPerId`, the other half of the sentence (no
  second order), holds.
* fraud.py:8-9 says two co-occurring signals are enough for review.  With the weights
  0.4, 0.3, 0.4, 0.4 and the threshold 0.8 no pair with the address mismatch is (0.7),
  and of the others only a burst far above the average can occur, since a new customer
  has neither history nor velocity: `ReviewMeansBurst`.
* fraud.py:44-46 promises that the velocity check "sees a consistent view"; two orders of one
  customer that are served together do not see each other, and each is scored as if
  it were alone (`overtaken`).
* Connecting and leaving the live mode set the form's product and keep the pending id,
  so a retry after it can be refused as a conflict with the user's own order; a demo
  order between two live tries loses the id, and the user may place the order twice.
* A connection that was given up by choosing the demo comes back and switches the page
  to live.

## What is proved

TLAPS proves these for every catalogue, set of orders, number of lines, set of
workers, handlers and requests, number of faults and both durabilities, from the named
assumptions of the modules (`CatalogAssumption`, `OrderAssumption`, `UniqueProducts`,
`WorkflowAssumption`, `SellOutAssumption`, `IntakeAssumption`, `DispatchAssumption`, `LifecycleAssumption`,
`DashboardAssumption`, `LocksAssumption`, `DemoAssumption`), which TLC evaluates on the
instances; where a condition on the settings is needed it is a hypothesis of the theorem.

**Policy** (`Policy_proofs`).  `OneReplacement`: `choose_alternative` answers with the
one eligible product that comes first by its sort key (the key orders a catalogue
completely, and a finite set has a least element), with none only if none is eligible.
`HintsOnlyRank` (`HintOnlyRanks`): the model's hint is taken exactly if it is eligible,
otherwise the head of the list the code sorts.  The model's rule picks a minimum; that
the list is its sort needs that a finite set can be listed in any total order
(`OrderedList`) and that Python's comparison of the key tuples is that order
(`KeysCompare`).  `SampleOffersSamePrice` (`DemoOffersSamePrice`) compares the browser's
rule, which sorts by list price, with `policy.py`'s, which sorts by the discounted one, at
5%: a product dearer by list is never cheaper after the discount, so the two offer at
the same price, though where rounding makes two prices equal they may name different
products.

**Types, stock and decisions** (`Workflow_proofs`).

* `TypeCorrect`: `Spec => []TypeOK`.  `TypeOK` alone is not
  inductive: a node reads the row of its missing line, so one must know that the
  line is the order's (`CheckpointsOK`); adding an attempt must stay within
  `MaxAttempts` (`JobsOK`); a replacement must be a product and a reservation
  must be of a placed order (`RowsFit`).  Their conjunction `TypeInv` is, and is
  the theorem `TypeInvariance`.  The part that is arithmetic, that `inventory`
  takes no more than there is although each line sees what the earlier ones left,
  is the lemma `NeverOversold`.
* `StockSafety`: `Spec => []StockConserved`.  The hard case
  is a replay: if `apply_offer`, `drop_line` or `inventory` ran again on a line
  that had already been reserved, units would be counted twice.
  `LinesAhead` says why this does not happen, for *all* the checkpoints that may be
  stored: the line such a checkpoint works on is not reserved unless its
  replacement was accepted, and the drive is through with every line an older
  checkpoint names, except the one it is still working on.  `StockInv`, which adds
  it and `OnlyPlacedReserve` to `TypeInv` and `StockConserved`, is inductive.
  Each transaction has a lemma that it moves units and creates none
  (`InventoryBalanced`, ..., `CancelBalanced`).  `LinesAheadSafety` is the
  invariant on its own.
* `DrivesAreShort` (`DriveIsShort`).  The graph has a loop, from `drop_line` and
  `apply` back to `inventory`, and a drive may enter it from any old checkpoint.
  `NodesLeft` is a measure that every node of a drive lowers and nobody else raises while
  the job row is locked.  It counts the lines inventory still wants, without the line the
  drive is working on; that this line is no longer wanted when the loop closes (`ThroughNotWanted`) needs `AcceptedKept`, of
  the inductive `ReasonInv`: a replacement that was accepted keeps its stock or its line is
  dropped, so an `apply_offer` that finds its work done may skip it.
  The bound is tight: an order of three lines that are all short takes 12 nodes.
* `OrdersRestAtInterrupts` (`RestsAtInterrupt`): only `fulfill` and `cancel` lead to the
  end of a graph, and both settle the order (`Ended`), so a drive of an open order stops
  at an interrupt, with an exception, or not at all.
* `DecisionStability` is `Spec => DecisionFinal`, from the
  types and the fact that an offer that was not made has no decision (`Made`).
  `CustomerConsent` (`CustomerDecides`) and `AuditorDecides` (`ReviewGate`) share the
  inductive `ConsentInv`: the answer a drive resumes with is the one in the rows
  (`AnswerCurrent`, which needs that decisions are final); wherever a drive goes on
  from, `drop_line` meets a line its customer gave up or one that is dropped already
  (`DropsRefused`); and no checkpoint of a risky order is past the auditor before he
  approved (`Gated`).  `NeverDearer` (`BillNeverIncreases`) needs a bound on every
  price a bill can come from, those of pending offers included (`PricesBounded`).

**Progress** (`Progress_proofs`, under `OneNodeBehind` and `CancelsInTime`).
`ProgressInv` says, for each node, what the rows look like when it runs, for the first
time or once more (`FitsNode`): at `manual` nothing is taken yet and the order is
risky; at `apply` the offer is accepted or about to be; at `cancel` the auditor refused or
nothing is left to ship; and so on, for every checkpoint that may be stored.  It is
what "replay is safe" means here, and it is inductive only because a stored checkpoint
is at most one node behind: the rows then are those before the node, or those after it,
and each formula covers both.  `WithdrawnRests` keeps what a customer cancelled from
being driven.  From it follow

* `SettledFrees` (`SettledHoldsNothing`) and `NodesRepeat` (`ReplayNeverRaises`), at once;
* `SettledStays` (`SettledFinal`): no node but `end` has a settled order before it,
  unless it is about to do again what settled it;
* `PromiseHolds` (`KeepsPromise`, that is `Spec => Promise!Lifecycle`): the refinement.
  One lemma per action shows that it moves one order as `OrderLifecycle` allows, or
  stutters: a replayed node finds its rows done and changes nothing an order shows.
* `NobodyForgotten` (`NeverForgotten`, under `NeverFails`) needs more: `Attended` says
  that a drive stops only where nothing has been decided yet, so that whoever decides
  afterwards finds the job at rest and queues it.

**Money** (`Progress_proofs`, under `CancelsInTime`, for both durabilities and any number
of failures).  `MoneyAddsUp` (`MoneyBalanced`) and `MoneyIsFinal` (`MoneyFinal`).  A line
can be paid back by `drop_line`, `fulfill`, `cancel` and `cancel_before_resolution`, and no
lock relates the four; the unique events do.  `Ledger` says that an order has one of
`fulfill`, `cancel` and `customer_cancel` at most, and what was paid back before and after
it.  `Justified`, of `ReasonInv` as well, says that a checkpoint is at `cancel` only
if nothing may ship any more, however old it is, so that a replay never cancels what was
shipped.
It uses `StockInv` (what ships is reserved once), `PricesBounded` (a saving is not
negative), and `ProgressInv` only where customers cancel, which `CancelsInTime` then
allows.  For `MoneyFinal` one shows of each node that after the event it writes no amount
of that order (`NodeFrozen`): its event is there, its lines are dropped or accepted
already, or its guard fails.

**Intake and the form** (`Dispatch_proofs`).

* `IntakeSafety`: the unique key and the two looks around it give
  `OneOrderPerId`, `SuccessIsMine` and `ConflictIsReal`.  Inductive is that
  only one handler is between insert and commit of an id that is not placed, that a
  handler that clashed finds an order of its id when it looks again, and that a row's
  digest is of its own id and content: so a refusal is for other content or, if a
  webhook's bytes were hashed, other bytes (`RefusalsReal`).
* `OrderedOnce`, `RefusedOnlyAfterSwitch`, `DispatchIntake`, `RefusedRightly`,
  `DispatchTyped`: the same behind the form.  `PageInv` says which ids
  the form's earlier tries may still be placed under: `mine` has one id at most while
  an id is pending, every request with that id that is on its way carries the form's
  content unless the mode was switched.
* `BurstsReviewed` (`ReviewMeansBurst`) assumes `UsualSettings`: a threshold of 0.8 and a
  velocity limit above one, as config.py has them (with a lower threshold more pairs
  of signals suffice).  `ScoresCurrent` is inductive: a score that nobody overtook is the
  one the history would give now; the rest is that an average of a customer without
  orders is of no account, and arithmetic on the weights.

**The page** (`Dashboard_proofs`).

* `LifecycleSound`: `Lifecycle => []Sound`.  A promise
  about steps implies what an order shows of its past: replaced lines were agreed to,
  dropped ones were not, a risky order that got anywhere was approved.
* `DashboardTyped`, `AcknowledgedRecorded`,
  `ClicksMeanWhatTheySay`, `ViewsNeverGoBack`, and `ShopKeepsPromise`
  (`DashboardSpec => Lifecycle`: no decision the page or a late request sends can make
  the shop break its promise).  The crux of `DashboardInv` is the torn row: a row in
  review with an offer's buttons can only be one whose auditor has approved since (an
  offer needs a cleared order), so the audit a "reject" becomes is refused by
  `decide_audit`, and an "accept", which is sent as a rejection, is refused likewise.

**The row locks** (`Locks_proofs`): `LocksTyped`, `OrderHasOneWriter`,
`DeadlocksHaveCause`, `HiddenDeadlocksHaveCause`.
The rows of an order have no common order in which they are locked (`reply` takes the
offer before the order, `apply_offer` the order before the offer), so the usual ranking
does not work.  `LocksInv` says instead that a transaction, the cancel handler's aside,
has the job row before it asks for any row of the order (`UnderJob`), that a job row is
the first lock of who asks for it (`JobFirst`), and that products are taken by
increasing id (`InOrder`).  So in a circle without a cause nobody waits for a job row
or a row of an order, all wait for products, and whoever holds the greatest product
that is waited for waits for a greater one.

**The sample shop** (`Demo_proofs`), for any orders added and any click, those included
whose button is not shown.  `DemoSafety`: `DemoInv` is inductive.  `Fit` says what a row of
each status holds; its hard part is `Asking`, since `transition` does several things in
one call: an order that asks has one hold, on another product that costs no more, and was
approved if it is risky.  A click changes one order and moves units between
the shelf and that order, so the sum over all orders of the day is the same (`SumChange`).
From it follow `DemoTyped`, `DemoMoney`, `DemoStock`, `DemoCounts` (`MetricsNeverFall`) and
`DemoPromise` (`DemoKeepsPromise`).

**Sums** (`Sums_proofs`).  Stock, metrics and averages are sums that a recursive function
computes.  That there is such a function and that the order of its summands does not matter is
shown by induction over the size of a set.  The library's induction theorems need an
operator as a parameter, so the induction is over a *set* of sizes instead (`NatStep`),
from the well-foundedness of the naturals.  By the same induction a finite set has a least
element in any total order (`LeastIs`) and a list in that order (`OrderedList`).

Only model-checked: the liveness properties (`OrdersSettle`, `AnswersTakeEffect`,
`ViewCatchesUp`), which are out of the prover's reach; every safety invariant and action
property of a run is a theorem.  Of `OrdersSettle` the parts that are about states are
proved: a drive ends after a bounded number of nodes (`DrivesAreShort`), what it leaves
behind is settled, queued, asked about or used up (`OrdersRestAtInterrupts`), and a node
that runs again does not raise (`NodesRepeat`).  That workers and time go on is fairness.

## What is not modelled

The parsing and the signature of a webhook, authentication and the rates on the
dashboard keep no state.  The snapshot's limit of 100 orders, its outbox and products
are left out, and so are notices, animation and layout.  Of the local model only its
answer is there, which may be anything.  The checkpoint store's single connection, once
lost, is only in the model as a drive that raises; the connection that holds a job row
is not lost while its worker lives, and there is always one free in the pool.  The frontend's build scripts
(`prepare-sites-build.mjs`, `vite.config.mjs`) copy files before anything runs;
migrations, scripts and settings are run or read once; the vendored environment is
third-party, and what the worker relies on in langgraph is modelled as external.
`PROJECT.json` lists every component and hazard with its reason.

## Plan

Done: the policy, the services, the workflow, its lifecycle and refinement; the intake
with fraud scoring and redelivery; the form, the page and the sample shop; the row
locks; a theorem for every safety invariant and action property of the components.
Left:

1. Asynchronous checkpoints: what is left of `FitsNode` when a drive may go on from any
   earlier node, and with it the exact extent of the four disagreements above that need
   one.
2. The step between `Locks` and `Workflow`: `OneWriterPerOrder` is why a transaction may
   be one step; a refinement would need the rows in `Locks`.
