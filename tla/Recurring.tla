----------------------------- MODULE Recurring -----------------------------
(***************************************************************************)
(* One recurring plan: the charges ECPay makes for it period by period,    *)
(* and the four things that write it here.                                 *)
(*   handlers   event loops that book the first payment (ReturnURL,        *)
(*              process_notification) and the later periods                *)
(*              (PeriodReturnURL, process_recurring_notification)          *)
(*   operators  threads that recover the first payment                     *)
(*              (query_and_recover_order), cancel the plan                 *)
(*              (cancel_subscription) and synchronise it with ECPay        *)
(*              (query_and_sync_subscription)                              *)
(*                                                                         *)
(* As in OrderBook, SELECTs are autocommitted, a session decides on the    *)
(* plan as it read it and writes back, in one transaction, the columns     *)
(* whose value it changed. Whatever else may be committed between the read *)
(* and the write - the two requests to ECPay wait up to 30 seconds.        *)
(*                                                                         *)
(* A notification that fails a check (signature, order, plan, amount), a   *)
(* duplicate, a refused cancellation and a rejected reply leave a log row  *)
(* and nothing else; the logs are not modelled, but the table of APPLIED   *)
(* rows that the next notification is compared with is.                    *)
(***************************************************************************)
EXTENDS PlanTransitions, Sequences, FiniteSets

CONSTANTS
  Handlers, Operators,    \* event loops, and threads of operator requests
  Numbered,               \* the periods whose notification has a TradeNo
  Counted,                \* ... those whose notification has TotalSuccessTimes
  Logged                  \* ... those whose entry in ECPay's log has a TradeNo

ASSUME SessionsAssumption == Handlers \cap Operators = {}

ASSUME NumberedAssumption == 1 \in Numbered /\ Numbered \subseteq 1..ExecTimes

ASSUME LoggedAssumption == Logged \subseteq 1..ExecTimes

VARIABLES
  remote,     \* external: [status, log] of the plan at ECPay, log in order
  paid,       \* orders.status is PAID
  plan,       \* the row of table subscription
  charges,    \* table subscription_charge
  applied,    \* the trade numbers of the APPLIED notifications
  job         \* the call each handler and operator runs

vars == <<remote, paid, plan, charges, applied, job>>

-----------------------------------------------------------------------------
(* ECPay's side and its messages *)

Sessions == Handlers \cup Operators

Periods == 1..ExecTimes

RemoteStatuses == {"none", "running", "stopped", "done"}

Remotes == [status : RemoteStatuses, log : Seq(BOOLEAN)]

\* The successful periods among the first p.
SuccessesUpTo(r, p) == Cardinality({i \in DOMAIN r.log : i <= p /\ r.log[i]})

Successes(r) == SuccessesUpTo(r, Len(r.log))

Failures(r) == Cardinality({i \in DOMAIN r.log : ~r.log[i]})

\* Trade numbers: <<p>> is the one of period p, << >> the empty string, and
\* <<total, ok>> the one process_recurring_notification makes up.
NumberOf(p) == IF p \in Numbered THEN <<p>> ELSE << >>

TradeNumbers == {NumberOf(p) : p \in Periods}

ChargeTrades == {<<p>> : p \in Periods} \cup (Nat \X BOOLEAN)

\* A row of subscription_charge: which period it is for is our knowledge.
Charges == [trade : ChargeTrades, period : Periods, ok : BOOLEAN,
            recovered : BOOLEAN]

TradesOf(rows) == {c.trade : c \in rows}

\* The first charge is successful, or there is no plan; each further one is
\* or is not; after ExecTimes of them the plan is done.
RemoteCharge(ok) ==
  /\ \/ remote.status = "none" /\ ok
     \/ remote.status = "running"
  /\ remote' = [status |-> IF Len(remote.log) + 1 = ExecTimes THEN "done"
                           ELSE "running",
                log    |-> Append(remote.log, ok)]
  /\ UNCHANGED <<paid, plan, charges, applied, job>>

\* The merchant can also stop the plan in ECPay's back office.
RemoteStop ==
  /\ remote.status = "running"
  /\ remote' = [remote EXCEPT !.status = "stopped"]
  /\ UNCHANGED <<paid, plan, charges, applied, job>>

-----------------------------------------------------------------------------
(* Sessions *)

Idle == [call |-> "idle"]

Jobs ==
  {Idle} \cup [call : {"first", "recover"}]
         \cup [call : {"lookup"}, period : Periods]
         \cup [call : {"book"}, period : Periods, read : Plans,
               assigned : Plans, row : Charges]
         \cup [call : {"cancel", "canceled"}, read : Plans]
         \cup [call : {"sync"}, read : Plans]
         \cup [call : {"synced"}, read : Plans, reply : Remotes]
         \cup [call : {"save"}, read : Plans, reply : Remotes,
               missing : SUBSET Charges]

Continue(s, next) == job' = [job EXCEPT ![s] = next]

Return(s) == job' = [job EXCEPT ![s] = Idle]

\* A session read `read`, assigned `assigned` and commits over `plan`.
WriteBack(read, assigned) ==
  LET Column(r, a, stored) == IF a # r THEN a ELSE stored
  IN  [status   |-> Column(read.status, assigned.status, plan.status),
       success  |-> Column(read.success, assigned.success, plan.success),
       failures |-> Column(read.failures, assigned.failures, plan.failures)]

\* The first payment of a plan.
FirstPayment(p) == [p EXCEPT !.status = "ACTIVE", !.success = Larger(@, 1)]

\* A call that ends with at most a log row: an HTTP error, a refusal or a
\* reply that does not match, a failing commit, a crash.
CallFails(s) ==
  /\ job[s] # Idle
  /\ Return(s)
  /\ UNCHANGED <<remote, paid, plan, charges, applied>>

Init ==
  /\ remote = [status |-> "none", log |-> << >>]
  /\ paid = FALSE
  /\ plan = [status |-> "PENDING", success |-> 0, failures |-> 0]
  /\ charges = {}
  /\ applied = {}
  /\ job = [s \in Sessions |-> Idle]

-----------------------------------------------------------------------------
(* Handlers: the first payment *)

\* The ReturnURL notification: no APPLIED row, and the order is read unpaid.
BeginFirst(h) ==
  /\ job[h] = Idle
  /\ remote.log # << >>
  /\ ~paid
  /\ Continue(h, [call |-> "first"])
  /\ UNCHANGED <<remote, paid, plan, charges, applied>>

\* Order, plan and APPLIED row in one transaction. The plan is read inside it.
ApplyFirst(h) ==
  /\ job[h].call = "first"
  /\ <<1>> \notin applied
  /\ paid' = TRUE
  /\ plan' = FirstPayment(plan)
  /\ applied' = applied \cup {<<1>>}
  /\ Return(h)
  /\ UNCHANGED <<remote, charges>>

\* IntegrityError: another handler applied it meanwhile.
DuplicateFirst(h) ==
  /\ job[h].call = "first"
  /\ <<1>> \in applied
  /\ Return(h)
  /\ UNCHANGED <<remote, paid, plan, charges, applied>>

-----------------------------------------------------------------------------
(* Handlers: a later period *)

\* The SELECT of the APPLIED row. A notification comes late, again or never.
BeginPeriod(h, p) ==
  /\ job[h] = Idle
  /\ p \in 2..Len(remote.log)
  /\ NumberOf(p) \notin applied
  /\ Continue(h, [call |-> "lookup", period |-> p])
  /\ UNCHANGED <<remote, paid, plan, charges, applied>>

LookingUp(h, p) ==
  /\ job[h].call = "lookup"
  /\ p = job[h].period

\* TotalSuccessTimes, or a guess from the plan.
TotalTimes(p) ==
  IF p \in Counted THEN SuccessesUpTo(remote, p)
  ELSE IF remote.log[p] THEN plan.success + 1
  ELSE plan.success

Applies(p) == RecurringApplies(plan, remote.log[p], TotalTimes(p))

NotifiedCharge(p) ==
  [trade |-> IF p \in Numbered THEN <<p>> ELSE <<TotalTimes(p), remote.log[p]>>,
   period |-> p, ok |-> remote.log[p], recovered |-> FALSE]

\* IGNORED_TRANSITION
IgnorePeriod(h) ==
  \E p \in Periods :
    /\ LookingUp(h, p)
    /\ ~Applies(p)
    /\ Return(h)
    /\ UNCHANGED <<remote, paid, plan, charges, applied>>

\* The SELECT of the plan, and the decisions on it.
StagePeriod(h) ==
  \E p \in Periods :
    /\ LookingUp(h, p)
    /\ Applies(p)
    /\ Continue(h, [call |-> "book", period |-> p, read |-> plan,
                    assigned |-> ApplyRecurringTransition(
                                   plan, remote.log[p], TotalTimes(p)),
                    row |-> NotifiedCharge(p)])
    /\ UNCHANGED <<remote, paid, plan, charges, applied>>

\* Mutant: the trade number of a charge is not unique.
BookableOnceApplied(h) == NumberOf(job[h].period) \notin applied

\* Both unique indexes accept the transaction of a notification.
Bookable(h) ==
  /\ NumberOf(job[h].period) \notin applied
  /\ job[h].row.trade \notin TradesOf(charges)

BookPeriod(h) ==
  /\ job[h].call = "book"
  /\ Bookable(h)
  /\ plan' = WriteBack(job[h].read, job[h].assigned)
  /\ charges' = charges \cup {job[h].row}
  /\ applied' = applied \cup {NumberOf(job[h].period)}
  /\ Return(h)
  /\ UNCHANGED <<remote, paid>>

\* IntegrityError: rolled back and recorded as DUPLICATE.
DuplicatePeriod(h) ==
  /\ job[h].call = "book"
  /\ ~Bookable(h)
  /\ Return(h)
  /\ UNCHANGED <<remote, paid, plan, charges, applied>>

-----------------------------------------------------------------------------
(* Operators: recovery of the first payment, and cancellation *)

BeginRecovery(t) ==
  /\ job[t] = Idle
  /\ ~paid
  /\ Continue(t, [call |-> "recover"])
  /\ UNCHANGED <<remote, paid, plan, charges, applied>>

\* ECPay answered that the order is paid.
ApplyRecovery(t) ==
  /\ job[t].call = "recover"
  /\ remote.log # << >>
  /\ paid' = TRUE
  /\ plan' = IF plan.status = "PENDING" THEN FirstPayment(plan) ELSE plan
  /\ Return(t)
  /\ UNCHANGED <<remote, charges, applied>>

BeginCancel(t) ==
  /\ job[t] = Idle
  /\ plan.status \in {"ACTIVE", "PAST_DUE"}
  /\ Continue(t, [call |-> "cancel", read |-> plan])
  /\ UNCHANGED <<remote, paid, plan, charges, applied>>

\* Mutant: an answer that is not 1 is taken for a cancellation.
CancelWithoutAnswer(t) ==
  /\ job[t].call = "cancel"
  /\ Continue(t, [call |-> "canceled", read |-> job[t].read])
  /\ UNCHANGED <<remote, paid, plan, charges, applied>>

\* ECPay stops the plan and answers 1 under its signature.
RemoteCancel(t) ==
  /\ job[t].call = "cancel"
  /\ remote.status = "running"
  /\ remote' = [remote EXCEPT !.status = "stopped"]
  /\ Continue(t, [call |-> "canceled", read |-> job[t].read])
  /\ UNCHANGED <<paid, plan, charges, applied>>

SaveCancel(t) ==
  /\ job[t].call = "canceled"
  /\ plan' = WriteBack(job[t].read, [job[t].read EXCEPT !.status = "CANCELED"])
  /\ Return(t)
  /\ UNCHANGED <<remote, paid, charges, applied>>

-----------------------------------------------------------------------------
(* Operators: synchronisation *)

\* Mutant: a plan that has ended here is not synchronised.
BeginSyncOfOpenPlan(t) ==
  /\ job[t] = Idle
  /\ plan.status \notin TerminalPlans
  /\ Continue(t, [call |-> "sync", read |-> plan])
  /\ UNCHANGED <<remote, paid, plan, charges, applied>>

BeginSync(t) ==
  /\ job[t] = Idle
  /\ Continue(t, [call |-> "sync", read |-> plan])
  /\ UNCHANGED <<remote, paid, plan, charges, applied>>

\* ECPay describes the plan as it is; a reply that matches it is accepted.
RemoteReply(t) ==
  /\ job[t].call = "sync"
  /\ remote.status # "none"
  /\ Continue(t, [call |-> "synced", read |-> job[t].read, reply |-> remote])
  /\ UNCHANGED <<remote, paid, plan, charges, applied>>

\* Mutant: only the successful entries of the log are inserted.
MissingSuccesses(reply, stored) ==
  {[trade |-> <<p>>, period |-> p, ok |-> reply.log[p], recovered |-> TRUE] :
     p \in {q \in Logged \cap DOMAIN reply.log :
             reply.log[q] /\ <<q>> \notin TradesOf(stored)}}

\* Mutant: every entry of an accepted reply is taken for a success.
MissingAsSuccesses(reply, stored) ==
  {[trade |-> <<p>>, period |-> p, ok |-> TRUE, recovered |-> TRUE] :
     p \in {q \in Logged \cap DOMAIN reply.log : <<q>> \notin TradesOf(stored)}}

\* The entries of the log that are to be inserted beside the rows `stored`. An
\* entry is known by its own trade number alone: the row of a notification that
\* had none does not keep it out.
MissingCharges(reply, stored) ==
  {[trade |-> <<p>>, period |-> p, ok |-> reply.log[p], recovered |-> TRUE] :
     p \in {q \in Logged \cap DOMAIN reply.log : <<q>> \notin TradesOf(stored)}}

\* The SELECT of the plan's charges.
SelectCharges(t) ==
  /\ job[t].call = "synced"
  /\ Continue(t, [call |-> "save", read |-> job[t].read, reply |-> job[t].reply,
                  missing |-> MissingCharges(job[t].reply, charges)])
  /\ UNCHANGED <<remote, paid, plan, charges, applied>>

\* Mutant: the status is stored as ECPay names it.
SynchronizedRaw(reply) ==
  [status   |-> reply.status,
   success  |-> Successes(reply),
   failures |-> Failures(reply)]

\* The attributes a sync assigns. ExecStatus is 0, 1 or 2.
Synchronized(reply) ==
  [status   |-> CASE reply.status = "stopped" -> "CANCELED"
                  [] reply.status = "running" -> "ACTIVE"
                  [] reply.status = "done"    -> "COMPLETED",
   success  |-> Successes(reply),
   failures |-> Failures(reply)]

\* The unique trade number of a charge accepts the rows of a sync.
Insertable(t) == TradesOf(job[t].missing) \cap TradesOf(charges) = {}

\* Mutant: the counters are taken over, the missing rows are not.
SaveSyncOfCounters(t) ==
  /\ job[t].call = "save"
  /\ Insertable(t)
  /\ plan' = WriteBack(job[t].read, Synchronized(job[t].reply))
  /\ Return(t)
  /\ UNCHANGED <<remote, paid, charges, applied>>

SaveSync(t) ==
  /\ job[t].call = "save"
  /\ Insertable(t)
  /\ plan' = WriteBack(job[t].read, Synchronized(job[t].reply))
  /\ charges' = charges \cup job[t].missing
  /\ Return(t)
  /\ UNCHANGED <<remote, paid, applied>>

\* IntegrityError, which nobody catches: status 500, nothing is written.
SyncCollides(t) ==
  /\ job[t].call = "save"
  /\ ~Insertable(t)
  /\ Return(t)
  /\ UNCHANGED <<remote, paid, plan, charges, applied>>

-----------------------------------------------------------------------------

Handle(h) ==
  \/ BeginFirst(h)
  \/ ApplyFirst(h)
  \/ DuplicateFirst(h)
  \/ \E p \in Periods : BeginPeriod(h, p)
  \/ IgnorePeriod(h)
  \/ StagePeriod(h)
  \/ BookPeriod(h)
  \/ DuplicatePeriod(h)

Operate(t) ==
  \/ BeginRecovery(t)
  \/ ApplyRecovery(t)
  \/ BeginCancel(t)
  \/ RemoteCancel(t)
  \/ SaveCancel(t)
  \/ BeginSync(t)
  \/ RemoteReply(t)
  \/ SelectCharges(t)
  \/ SaveSync(t)
  \/ SyncCollides(t)

Next ==
  \/ \E ok \in BOOLEAN : RemoteCharge(ok)
  \/ RemoteStop
  \/ \E h \in Handlers : Handle(h)
  \/ \E t \in Operators : Operate(t)
  \/ \E s \in Sessions : CallFails(s)

Spec == Init /\ [][Next]_vars

\* A call that was made goes on (its request to ECPay has a timeout), and
\* operators synchronise again and again, which does not fail every time.
GoesOn(s) == job[s] # Idle /\ (Handle(s) \/ Operate(s) \/ CallFails(s))

SyncSpec ==
  /\ Spec
  /\ \A s \in Sessions : WF_vars(GoesOn(s))
  /\ \A t \in Operators : /\ SF_vars(BeginSync(t))
                          /\ SF_vars(RemoteReply(t))
                          /\ SF_vars(SelectCharges(t))
                          /\ SF_vars(SaveSync(t))

-----------------------------------------------------------------------------
(* Properties *)

TypeOK ==
  /\ remote \in Remotes
  /\ paid \in BOOLEAN
  /\ plan \in Plans
  /\ charges \subseteq Charges
  /\ applied \subseteq TradeNumbers
  /\ job \in [Sessions -> Jobs]

\* A row of the ledger is a period ECPay ran, with the result it had,
\* whichever of the two ways it came.
ChargesAreReal ==
  \A c \in charges :
    /\ c.period \in DOMAIN remote.log
    /\ c.ok = remote.log[c.period]

\* A period has a second row only when its notification had no trade number
\* while its entry in ECPay's log has one: then one row came by notification and
\* one by synchronisation. Whatever has its number both ways is booked once, in
\* whichever order repeated notifications and stale syncs come to the commit.
SecondRowsAreUnnumbered ==
  \A c, d \in charges :
    c.period = d.period /\ c # d
      => c.period \in Logged \ Numbered /\ c.recovered # d.recovered

\* A period is in the ledger at most once: a row is one authorization attempt
\* (models.py), and a sync recovers only the missing ones (operations.py). So
\* it is when what ECPay lists under a number is notified with that number.
PeriodsBookOnce ==
  \A c, d \in charges : c.period = d.period => c = d

\* The counters never run ahead of ECPay: nothing is counted twice, be it
\* notified and synchronised, in any order and from any stale read.
CountersNeverOverstate ==
  /\ plan.success <= Successes(remote)
  /\ plan.failures <= Failures(remote)

\* A plan shown as ended has ended at ECPay: no further charge will come.
EndsAreReal ==
  /\ plan.status = "CANCELED" => remote.status = "stopped"
  /\ plan.status = "COMPLETED" => remote.status = "done"

\* Period notifications are sent once and may be lost, late or ignored, a
\* cancellation's reply may be lost, and stale answers overwrite newer ones.
\* Operators who synchronise bring the plan into step for good once ECPay
\* has ended it.
InStep ==
  /\ remote.status = "stopped" => plan.status = "CANCELED"
  /\ remote.status = "done" => plan.status = "COMPLETED"
  /\ plan.success = Successes(remote)
  /\ plan.failures = Failures(remote)

EndsInStep == <>[](remote.status \in {"stopped", "done"} => InStep)

\* Every charge ECPay lists under a trade number comes into the ledger,
\* whatever becomes of its notification and of the plan.
EveryChargeIsBooked ==
  \A p \in Logged :
    p \in DOMAIN remote.log ~> \E c \in charges : c.period = p

\* transitions.py: COMPLETED and CANCELED are terminal, late webhooks must
\* not reactivate or demote such a plan.
WebhooksKeepTerminalPlans ==
  [][\A h \in Handlers :
       job'[h] # job[h] /\ plan.status \in TerminalPlans
         => plan'.status = plan.status]_vars
=============================================================================
