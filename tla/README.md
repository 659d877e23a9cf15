# Formal model of twpay-payment-lifecycle

TLA+ modules of the payment lifecycle in `src/src/twpay_checkout`, the TLC
configurations that check them on small instances, and TLAPS proofs of what
holds for every instance. Paths below are relative to `src/twpay_checkout/`
in the repository unless they say otherwise.

## The system

A FastAPI application on one SQLite file sells a product through ECPay or
NewebPay. Its state is the tables of `models.py`; its code is a set of request
handlers that each open a session, read, perhaps wait for a gateway, and commit.

| part | state | operations | talks to |
|---|---|---|---|
| order state machine (`services/transitions.py`) | `orders.status` | `can_transition_order`, `apply_order_transition` | called by callbacks and queries |
| payment callbacks (`routes/callbacks.py`, `process_notification`) | orders, subscription, `payment_notification` with its partial unique index | verify, look for a duplicate, compare the amount, apply or ignore, answer | gateways call it, any number of times |
| order query (`query_and_recover_order`) | orders, subscription, `gateway_query_log` | ask ECPay, compare, recover a missed payment | an operator calls it; waits up to 30 s for ECPay |
| refund simulation (`simulate_refund`) | `refund_request`, SQLite's write lock | take the session over with BEGIN IMMEDIATE, decide, record | an operator calls it; reads orders |
| recurring plans (`process_recurring_notification`, `cancel_subscription`, `query_and_sync_subscription`) | subscription, `subscription_charge`, two logs | book a period, cancel at ECPay, synchronise | gateway and operator |
| checkout (`routes/shop.py`) | orders, subscription | place an order, attach a plan, render the payment form | customer, who submits the form to a gateway |
| reconciliation (`reconcile_csv`) | run and item tables, SQLite's write lock | import ECPay's list of a period, report differences | operator or a daily script; reads orders |
| start (`db.py`) | product table | create the tables, seed the products | every process on the database |
| gateway adapters (`gateways/`) | none | signatures, parsing, request fields, answers | all of the above |
| order pages, dashboard | none | show; `effective_status` derives EXPIRED | reads everything |

How they run matters as much as what they do. The callback routes are
`async def` and reach no `await` after the form is parsed: one event loop
handles one notification at a time, and only other *processes* on the database
file interleave with it. The operator routes are plain `def`: they run in
threads beside the loop and interleave with everything. Outside a write
transaction every SELECT is autocommitted and an object keeps the values it
read until its session commits or rolls back; at commit SQLAlchemy writes only
the attributes that changed, in one write transaction under SQLite's lock.

What makes each part correct:

* callbacks: a trade is booked once whatever is delivered; an order is PAID only
  for real money of its amount; order, plan and audit row are one commit; an
  acknowledgement is never given for a payment that is not settled, and is
  eventually given;
* queries: a missed payment is settled in the end; a query changes only what it
  has verified, and nothing that was settled meanwhile;
* refunds: calls behave as if one ran after another, refunds never exceed the
  order, a key books once, the lock is always given back, the caller's work is
  never touched;
* recurring plans: an end is shown only once ECPay has come to it, counters and
  ledger never claim more than ECPay charged, no charge that ECPay lists is lost, and
  none is booked twice (which fails for a period notified without its trade number,
  see the findings);
* checkout: whatever crashes or is rendered between its two commits and whichever page
  is submitted when, whoever is charged every month asked for it and has a plan here
  that starts with the payment (the converse fails, see the findings);
* reconciliation: a report is all there or not at all, is true of the orders at one
  moment, and one without differences has missed no payment; the lock that is held
  while a file is compared is given back on every way out.

`PROJECT.json` lists every hazard at its line with the properties that cover it.

## Modules

| module | models |
|---|---|
| `Transitions` | the order matrix and `apply_order_transition`, as pure operators |
| `OrderBook` | the tables, column-wise write-back, the gateways' events and messages, the clock |
| `Callbacks` | `process_notification`, one action per exit and per database access |
| `QueryRecovery` | `query_and_recover_order`, one action per exit and per database access |
| `OrderLifecycle` | abstract: a notification is one step of an order and its plan, on a gateway's report; `OrderSystem` implements it |
| `OrderSystem` | composes `Callbacks` and `QueryRecovery` on one `OrderBook`; properties and fairness |
| `MCOrderSystem` | small instances of it |
| `PlanTransitions` | the plan matrix and `apply_subscription_recurring_transition`, as pure operators |
| `Recurring` | one plan: ECPay's charges, the two callbacks, recovery, cancellation and synchronisation |
| `RefundPolicy` | what one call of `simulate_refund` decides on the rows it finds |
| `AtomicRefunds` | abstract: a call decides and inserts in one step |
| `Refunds` | `simulate_refund` step by step with the write lock and the caller's session |
| `MCRefunds` | small instances of it |
| `ShopBook` | orders, plans, days and the write lock as checkout and reconciliation meet them; payments arrive atomically |
| `Checkout` | `init_db`, the two commits of `place_order`, the payment form and its submission |
| `Reconciliation` | `reconcile_csv` step by step under the write lock, the comparison, the two sources of a file |
| `AtomicReports` | abstract: a report appears in one step and is true of the orders in that step |
| `Shop` | composes `Checkout` and `Reconciliation` on one `ShopBook`; properties |
| `MCShop` | small instances of it |
| `OrderSystemProofs`, `OneWorkerProofs` | theorems about `OrderSystem` |
| `AtomicRefundsProofs`, `RefundsProofs` | theorems about atomic refunds, and about `Refunds` |
| `RecurringProofs`, `RecurringCountersProofs` | theorems about `Recurring`: its ledger and ends, its counters |
| `ShopProofs` | theorems about `Shop` |

### From code to state

*Orders.* `orders[o]` is the record of the columns that change: `status`,
`trade` (`gateway_trade_no`), `account` (the three ATM columns, named by the
trade they came with) and `paid` (`paid_at` is set). Amount, gateway and method
never change after `create_order`; what a message says of the amount is reduced
to whether it is the order's (`amountOk`). `plans[o]` is the plan's status, as
far as payments drive it.

*Messages.* A charge is a transaction at a gateway. The gateways are external;
`history` is the set of events that happened to each charge. A genuine
notification can be delivered, any number of times and in any order, once its
event happened (`Deliverable`); one that is not genuine can say anything at any
time. A genuine query reply is true when ECPay gives it (`Truthful`). An order
number is paid at most once at its gateway, because `MerchantTradeNo` is
accepted once. What two different charges may still share is the trade number:
the code does not trust it to be unique, and its tests send such messages.

*Callbacks.* A worker is an event loop. `BeginNotification` is the SELECT of
the applied row, `StageTransition` the SELECT of the order with the decisions
made on it, `ApplyNotification` the write transaction from the UPDATE that the
SELECT of the subscription flushes to COMMIT. Between these any other session
may commit. `WriteBack` keeps the stored value of each column the session did
not change. The unique index is the guard of `ApplyNotification`; meeting it is
`DuplicateOnCommit`. The audit row of a notification that changes nothing is
its own transaction and depends on nothing, so it belongs to the step that
decides it. `AbortCallback` is every exception and crash. `notifications` is a
set: identical rows of repeated deliveries are one element.

*Queries.* An asker is a thread of the pool. It keeps the order as read before
the wait; `Outcome` is decided on that, and `RecoverOrder` writes over whatever
is stored by then. The status check is inside `Outcome`, as in the code, and is
not repeated at the write. `queryLog` keeps the RECOVERED rows alone: the other
outcomes write nothing else and are read by nobody.

*Recurring plans.* `plan` is the subscription row (status and the two counters;
`success_amount` runs with `success`), `charges` the ledger, `applied` the trade
numbers of APPLIED notifications, `remote` the plan at ECPay: its status and the
results of its periods in order. `job[s]` is what a session has read and not yet
written. A period goes through `BeginPeriod` (SELECT of the applied row),
`StagePeriod` or `IgnorePeriod` (SELECT of the plan and the decisions),
`BookPeriod` or `DuplicatePeriod` (commit, or IntegrityError). A sync goes through
`BeginSync` (the route loads the plan), `RemoteReply` (the answer, true when it is
given), `SelectCharges`, `SaveSync` or `SyncCollides`. A cancellation takes effect
at ECPay in `RemoteCancel` and here in `SaveCancel`. Each of them may end with
`CallFails` instead. The first payment's plan is read inside its write
transaction, so `ApplyFirst` and `ApplyRecovery` are written on the stored plan.
Notifications of `remote.log` may be delivered late, again, or never. The trade
number of period p is `<<p>>`, the empty one `<< >>`, and the one the code makes up
for it `<<total, ok>>`; `recovered` says which of the two ways a row came, and
`period` which period it is for, so that booking one twice can be seen. What a message
says of a period is up to ECPay and chosen per period: `Numbered` are the periods whose
notification has a trade number, `Counted` those whose notification has a count,
`Logged` those whose entry in the reply to a sync has a trade number. The three are
independent, as in the code: a sync knows an entry by the entry's own number alone.

*Refunds.* `Call` reads the order, `TakeOver` is `_acquire_refund_transaction`,
`Decide` the reads and the policy, the `Commit...` actions, `RollbackUnstorable`
and `AbortRefund` the ends of the transaction. `work` is what a caller left in
its session; `RefuseTakeover` is the RuntimeError for it. A conflict row gets a
fresh random key in the code; here it is the row with `conflict`.

*Checkout.* An order number is `Absent` until `CreateOrder` draws it; its row is
reduced to status and day. `placing[s]` is the order whose `create_subscription` a
thread has still to commit, and `PlacingFails` is the crash between the two.
`forms` holds every payment page that was rendered: a browser keeps it, so
`SubmitForm` may come at any later time and again, and the gateway accepts an order
number once. `RenderForm` asks only for a PENDING order, as the code does: the product
page lists the newest orders, so a page may be rendered between the two commits, without
the recurring fields that the plan would bring. `trades[o]` is what the gateway
made of the form. `NotifyOrder` is one atomic step for what `Callbacks` and
`QueryRecovery` do step by step. That is right where no finding says otherwise, in one
server process and with no query over a callback: there `OrderSystem` implements
`OrderLifecycle`, in which a notification is one step of order and plan. That lifecycle
takes an order with its plan, if any, from the start; that the plan may come later, even
after the payment, is told under the findings.

*Start.* `StartUp` is the SELECT that finds no product, `Seed` the commit,
`StartFails` a process that dies in between. The server and the reconciliation script
are both starters (`Starters`); two that start on an empty database together both seed.
In `ShopDays` one starter is a bound: how often a product is listed matters to nothing
else there.

*Reconciliation.* A file is its header and its rows; a row has the order number,
whether its amount is the order's, and PAID, OTHER or BLANK for what
`_gateway_is_paid` makes of its status. `Download` takes ECPay's list of the trades
paid in a period as it is then (DateType 2), `Upload` any file of an operator's.
`complete` is knowledge of the model alone: the period had ended when the list was
taken. An importer goes through `BeginImport` (the flush of the run row takes the
write lock), `Compare` (the SELECT of the orders, the items) and `SaveRun` (COMMIT),
or `ImportFails` (ROLLBACK) and `SaveFailure` (the failed run in a transaction of its
own), or `AbortImport` (a crash, or no lock in time). While `writer` is an importer,
every other commit waits.

## Runs

| run | shows | bounds |
|---|---|---|
| `OneWorker` | types, money, audit, plan and acknowledgements in every interleaving of one process with one query thread; forged messages, a wrong amount and a number nobody placed pay nothing; operators who keep asking settle what was paid if no notification arrives | one order, four charges: an account that may be paid or fail, a card payment, a wrong amount, nobody's |
| `TwoWorkers` | two processes race for one trade number: one books it; what is sent again is acknowledged in the end | two orders with plans, one trade number |
| `CallbacksAlone` | one process without queries implements `OrderLifecycle`: a callback is as good as one step; the APPLIED rows explain the orders | two orders, three charges, two sharing a trade number |
| `RefundCalls` | calls are atomic; sums, keys and decisions hold; the lock is given back, the caller's work is untouched, only PAID card orders are refunded, every call returns | two sessions with callers, two orders of 2, three keys, five requests |
| `PlanRaces` | ledger, counters and final states of a plan never claim more than ECPay did | two processes, an operator thread, three periods |
| `PlanSync` | a second row is there only for a period notified without its number, though the code must guess trade number and count; syncs bring everything into step | one process, an operator thread, three periods, the third notified without a number but listed with one, the first listed without, none counted |
| `ShopDays` | whoever is charged every month asked for it and has a plan that follows the order; reports are atomic and true, a clean one missed nothing, the lock is given back | two orders, one monthly and one by ATM, two days, one shopper, one starter, two importers, a downloaded list of the first day and two odd files, one run |
| `StaleQuery`, `CommitCollision`, `ExpiredFails`, `LateWebhook`, `PaymentDay` | the findings below | |

Every safety argument in these parts is about one row, one key or one pair of
writers: an order has at most one applied result and one issued account, two
writers make every race, and a third charge makes the wrong one distinguishable
from the right one. Three periods let one be notified out of order between the
first and the last, and the last complete the plan. `PlanRaces` also passes with
two operator threads (10 million states, five minutes), which adds sync against
sync. In `ShopDays` two days tell a payment of the period from a later one and a
complete list from one that still grows; the two importers race for the lock, which is
all they share, so they are declared symmetric, and one run is stored; the odd files list a number twice, no number, a
stranger's number and a blank status, or have no header. The proofs below remove the
bounds for the safety properties they cover. The set of requests, orders and charges is finite in a
run, so the tables are finite and no counter needs a cap. Deadlock is checked in
every run.

Each property of a passing run is broken by a mutant of the code, named
`\* Mutant: ...` beside the definition it replaces.

### Findings

* `StaleQuery`: `query_and_recover_order` decides on the order it read before
  waiting for ECPay. A payment that was applied meanwhile is applied again, as
  RECOVERED; in the same way a FAILED order is overwritten with PAID.
  `docs/gateway-notes.md` 8.2 lets a query change only a pending or awaiting order.
* `CommitCollision`: a notification that loses the race at the unique index is
  acknowledged as a duplicate even when the winner was about another order. The
  SELECT path refuses it, as `tests/test_hardening.py` asks. One process alone
  is safe (`CallbacksAlone`).
* `ExpiredFails`: the matrix lets EXPIRED become only PAID, but EXPIRED is never
  stored, so the check sees AWAITING_PAYMENT and lets a late failure through.
* `LateWebhook`: the first payment makes its plan ACTIVE without asking the
  matrix. After a sync has found the plan stopped or completed, or after period
  notifications that overtook it, its late notification reactivates an ended plan.
* `PaymentDay`: the daily script asks ECPay for the trades *paid* on a day and
  `reconcile_csv` looks them up among the orders *created* on that day. An order of one
  day that is paid on the next is reported missing here, though both sides agree;
  `docs/gateway-notes.md` 8.4 compares order numbers with the order table. A clean
  report is not affected (`CleanReportsMissNothing`): the divergence gives false alarms,
  never false comfort.

`CountersNeverOverstate` is checked for notifications with trade number and count,
as `docs/gateway-notes.md` 8.1 describes them, and proved when none has a count as
well. Two cases are really excluded. Without a trade number a failed
period that a sync has counted is counted once more when its notification comes
late, because nothing connects the two. And when only some notifications have a
count, one that has it already counts the earlier periods, whose own late
notifications then add to it. The next sync corrects either (`EndsInStep` in
`PlanSync`).

One sequence is by design and worth knowing: a failed first attempt makes an
order FAILED for good, and the payment of a second attempt is then ignored *and*
acknowledged. `AcknowledgedPaymentsAreSettled` says "settled", not "PAID".

Three more disagreements with the documentation follow from the model; no run is
devoted to them. Of the first two, what holds instead is checked and proved:

* A period whose notification has no trade number is booked under one that the code
  makes up (`services/payments.py:331`). A sync does not find the number that ECPay
  lists for the period and inserts a second row (`services/operations.py:286`), though
  it is to recover the missing ones: `PeriodsBookOnce`, added to `PlanSync`, is
  violated. When every listed period is notified with its number, the ledger has each
  once (`PeriodsBookOnce` in `PlanRaces`, `PeriodsAreBookedOnce`); in any case there are
  at most two rows, one from each side (`SecondRowsAreUnnumbered`).
* The page of a monthly order that is rendered before its plan's commit
  (`routes/shop.py:58`) asks for a single payment. If that is paid first, the plan is
  attached to a PAID order, not to "a newly created pending order", and stays
  PENDING; if the plan's commit comes first, the plan becomes ACTIVE and ECPay never
  charges again. What holds is the other direction: nobody is charged every month
  without a plan (`MonthlyChargesFollowPlans`).
* `init_db` is called idempotent, but it looks for a product and seeds in a later
  commit. The server and `scripts/reconcile_ecpay.py` (at the repository's root) both
  run it: started together on an empty database they seed twice, and the shop lists
  each product twice.

### Fairness

* `QuerySpec`: operators keep asking about every ECPay order, ECPay sometimes
  answers a question with the truth about a payment, and the write transaction
  does not fail every time: strong fairness of these three, each for itself,
  since other questions, errors and aborts come in between. Nothing is assumed of
  notifications. `docs/gateway-notes.md` 8.2 makes the query the remedy for lost
  notifications; nothing in the code asks by itself, so this is an assumption
  about the operators.
* `ResendSpec`: a gateway sends a notification again until it is acknowledged
  (what `failure_response` counts on; the real gateways give up after a few
  attempts, so this is the best case), and a worker does not abort every time.
* `SyncSpec` of `Recurring`: a call that was made goes on or fails (the requests
  have a timeout of 30 s), and operators synchronise again and again, with strong
  fairness of the four steps because other calls, collisions and failures come in
  between. Nothing is assumed of notifications or of ECPay's charges. As for
  queries, `docs/gateway-notes.md` 8.1 names this remedy and no code calls it.
* `FairSpec` of `Refunds`: a call that was made goes on. BEGIN IMMEDIATE waits
  for a bounded time and then fails, so nobody waits for ever.

## Proofs

For every set of orders, charges, workers, threads, sessions and requests, from
the assumptions named in the modules (fields of a charge, plan orders are ECPay
orders, amounts are positive, the types of requests and files):

* `OrderSystemProofs`. `TypeCorrect`; then `PaymentsAreReal` and
  `PlansFollowPayments` from the inductive invariant `PaymentInv`. `PaidIsReal`
  alone is not inductive: a worker or asker that is about to commit carries its
  right to do so in its own state. `Heard` says a worker's message is genuine and
  its event happened, `Checked` that the amount was compared before the commit,
  `Told` that a query about to recover was told of a full payment of its own
  order. Because `history` only grows (`LogsGrow`), these survive every step of
  everybody else, which is why no stale read can make money up.
  `PaidOrdersAreExplained` and `TradesBookOnce` are inductive with types alone.
* `OneWorkerProofs`, for any worker `w` with `Workers = {w}`. `Fresh`: the key of
  what the worker handles has no APPLIED row, because nobody else inserts one; so the
  IntegrityError of `CommitCollision` cannot be met (`DuplicatesConcernOneOrder`).
  `Staged`: what is about to be committed applied to the order as it was read, and no
  payment result of that order was answered since; so a late account number cannot
  reopen what was acknowledged, even where a query wrote in between
  (`AcknowledgedPaymentsStaySettled`). With `Askers = {}` too, what was read is what is
  stored (`Current`), from which `LedgerAccountsForOrders` and the refinement
  `CallbacksImplementLifecycle` follow: only the commit moves order and plan
  (`OnlyCommitsWrite`), it moves both as `OrderLifecycle` does, and `Heard` and
  `Checked` of `PaymentInv` say that the gateway reports what it books
  (`CommitIsNotify`).
* `RefundsProofs`. `TypeCorrect`; `LockInv` says who holds the write lock and
  that no caller's work is beside an open call, from which `LockIsOwned` and
  `CallerWorkSafe`. `RefundInv` adds that a decision is current and that an order
  read as PAID is PAID: two sessions are never inside together (`OneInside`), so
  no row appears between a decision and its commit. From it `DecisionsAreCurrent`,
  `KeysBookOnce`, `RefundsOnlyPaidOrders` and `CallsAreAtomic`, the refinement of
  `AtomicRefunds`.
* `AtomicRefundsProofs`. The sum of a set of rows is a fold, and a fold says by
  itself only that it takes out one chosen element. That the choice does not matter,
  so that a row adds its amount (`TotalAdds`), is an induction over finite sets; it is
  carried out on a minimal counterexample (`MinimalSubset`), which exists because
  strict inclusion is well founded on finite sets, so no theorem with an operator
  parameter is needed. With it, an accepted row is one that the policy found room for
  (`SuccessfulDecision`), which gives `AtomicCallsStayWithinAmount`; through the
  refinement `CallsAreAtomic` it is `RefundsStayWithinAmount` of the concurrent calls.
* `RecurringProofs`. `LedgerInv` adds to the types that ECPay's status agrees with
  its log, and `Carried`: between its read and its commit a session holds stale
  facts, but they are about entries of ECPay's log, which only grows (`LogGrows`),
  so they are still true at the commit. `Booked` says a row is stored under its period's
  number if its notification had it or a sync inserted it, and that all notifications
  without a number share one APPLIED row; the unique indexes do the rest. From it
  `TypeCorrect` and `LedgerIsReal`, and `SecondRowsHaveNoNumber`: whichever numbers are
  missing, only a period that is notified without its number and listed with it
  has a second row. `PeriodsAreBookedOnce` follows where there is no such period
  (`Logged \subseteq Numbered`). All are for any number of periods and sessions; assumed are
  `NumberedAssumption` (the numbered periods are periods, the first among them),
  `LoggedAssumption`, `ExecTimesAssumption` and `SessionsAssumption`.
  `EndsAreNeverInvented` adds what a session intends to write as the plan's status
  (`Intended`): an end is intended only once ECPay has come to it, and ECPay's ends are
  for good. It assumes that every notification carries its count.
* `RecurringCountersProofs`. To compare the counters with ECPay's log is not
  inductive: a session adds one to the counter it read, and the plan may have been
  synchronised since. `CounterInv` compares them with the periods that are *booked*
  (`Covered`). A session carries that what it read was covered (`Backed`) and that its
  decision follows from it (`Staged`); its commit is accepted only if its period is not
  booked yet, and then one more is booked than when it read (`BookingIsCovered`). A sync
  books every period it counts (`SyncIsCovered`), which again is the unique index: what
  it does not insert was there. So `CountersAreNeverAhead`, when every later period has its
  trade number, in its notification and in ECPay's log, and all notifications or none
  have a count. When none has, a guessed count is at most
  the number of booked successes, and `GuessedEndsAreReal` follows: a stale guess can
  complete a plan too late, never too early. There the last period may lack its
  trade number, and the first its entry's, as in `PlanSync`.
* `ShopProofs`. `TypeCorrect`; `MonthlyChargesAreFollowed` from `CheckoutInv`. Between
  its two commits an order may already have pages, a trade and a payment
  (`HalfPlacedOrder`), so the pages of one order may differ. What holds is one-sided: a
  page that asks for monthly charges was rendered after the plan's commit
  (`MonthlyFormsHavePlans`), a plan is never taken away, and it starts with the
  payment of such a trade, because it was there when the payment came
  (`MonthlyTradesHavePlans`, `PlansWaitForPayment`).
  `LockIsImporters`; from it `ImportInv`: the report an importer holds is that of
  the orders as they still are, because nobody commits under the lock. With
  `ReportIsTrue` (the comparison of one file, items against counts) it gives
  `ReportsAreAtomic`, the refinement of `AtomicReports`. `CleanReportsStayTrue` carries
  `TruthInv` on: a list says what was paid, PAID is final, and the list of a period
  that has ended cannot grow. Assumed are `ShopAssumption` and
  `ReconciliationAssumption`.

Only model-checked is liveness (`MissedPaymentRecovered`,
`NotificationsAreAcknowledged`, `EveryCallReturns`, `EndsInStep`,
`EveryChargeIsBooked`), which the prover cannot reach. Every invariant and every
action property of a passing run is a theorem.

## Plan

What is modelled covers every operation that changes an order, a plan, a refund or a
report, and every safety property of a passing run is proved. What would add to it:
the adapters, with the parsers' mapping from gateway fields to messages as pure
operators against a table of documented replies.

## Not modelled

Hashing, encryption, HTML and logging; the settings (a page without credentials or
`BASE_URL` renders no form, a reconciliation without them asks nothing); the column
names and encodings a CSV may have, beyond whether it has a header line; the
amount of money of an order beyond "the order's or not" in
`OrderSystem` and `Shop` (`Refunds` counts it); times other than "the deadline has
passed" and days. The two logs of a plan's actions and queries are written and never
read. A trade number that is empty is a trade number like any other for payments. The
order page, the dashboard and the browser redirects only read.
