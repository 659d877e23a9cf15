-------------------------- MODULE RecurringProofs --------------------------
(***************************************************************************)
(* Proofs about Recurring for any number of periods, handlers and          *)
(* operators, and any periods whose notification lacks a trade number or   *)
(* whose entry in ECPay's log does.                                        *)
(*                                                                         *)
(* What a session carries from its reads to its commit is stale, but it    *)
(* is about ECPay's log, and that only grows: what was true of an entry    *)
(* when it was read is true of it at the commit (Carried). The two unique  *)
(* indexes then see to it that a period is booked once by each of the two  *)
(* ways, and only once if both ways know its number.                       *)
(***************************************************************************)
EXTENDS Recurring, FiniteSetTheorems, TLAPS

-----------------------------------------------------------------------------
(* ECPay's log *)

\* What is counted in a log is at most its length.
LEMMA CountLog ==
  ASSUME NEW r \in Remotes, NEW p
  PROVE  /\ SuccessesUpTo(r, p) \in 0..Len(r.log)
         /\ Failures(r) \in 0..Len(r.log)
<1>1. Len(r.log) \in Nat /\ DOMAIN r.log = 1..Len(r.log)
  BY DEF Remotes
<1>2. IsFiniteSet(DOMAIN r.log) /\ Cardinality(DOMAIN r.log) = Len(r.log)
  BY <1>1, FS_Interval, 0 \in Int
<1>3. ASSUME NEW S, S \subseteq DOMAIN r.log
      PROVE  Cardinality(S) \in 0..Len(r.log)
  BY <1>1, <1>2, <1>3, FS_Subset, FS_CardinalityType
<1> QED
  BY <1>3 DEF SuccessesUpTo, Failures

\* ECPay's plan: never more than ExecTimes periods, done exactly with the last.
RemoteInv ==
  /\ remote \in Remotes
  /\ Len(remote.log) <= ExecTimes
  /\ remote.status = "done" <=> Len(remote.log) = ExecTimes
  /\ remote.status = "none" <=> remote.log = << >>

\* The row a sync inserts for an entry of the log.
SyncedRow(p) ==
  [trade |-> <<p>>, period |-> p, ok |-> remote.log[p], recovered |-> TRUE]

\* What sessions carry about ECPay's log is still so.
Carried(s) ==
  /\ job[s].call \in {"lookup", "book"} => job[s].period \in 2..Len(remote.log)
  /\ job[s].call = "book" => job[s].row.period = job[s].period
  /\ job[s].call = "book" => job[s].row.ok = remote.log[job[s].period]
  /\ job[s].call = "book" => ~job[s].row.recovered
  /\ job[s].call = "book" /\ job[s].period \in Numbered
       => job[s].row.trade = <<job[s].period>>
  /\ job[s].call \in {"synced", "save"} =>
       /\ job[s].reply.status # "none"
       /\ Len(job[s].reply.log) <= Len(remote.log)
       /\ \A p \in 1..Len(job[s].reply.log) : job[s].reply.log[p] = remote.log[p]
  /\ job[s].call = "save" =>
       \A c \in job[s].missing : /\ c.period \in Logged \cap (1..Len(remote.log))
                                 /\ c = SyncedRow(c.period)

\* A period is booked under its number, by a notification that has it and by
\* every sync. Notifications without one share one APPLIED row, and so the
\* first of them to come is the only one that is booked.
Booked ==
  \A c \in charges :
    /\ c.period \in 1..Len(remote.log)
    /\ c.ok = remote.log[c.period]
    /\ c.period \in Numbered \/ c.recovered => c.trade = <<c.period>>
    /\ c.recovered => c.period \in Logged
    /\ c.period \in Numbered \/ c.recovered \/ << >> \in applied

LedgerInv ==
  /\ TypeOK
  /\ RemoteInv
  /\ \A s \in Sessions : Carried(s)
  /\ Booked
  /\ SecondRowsAreUnnumbered

-----------------------------------------------------------------------------
(* Types *)

\* The fields a session carries at each stage of its call, with their types.
LEMMA JobFields ==
  ASSUME TypeOK, NEW s \in Sessions
  PROVE  /\ job[s] \in Jobs
         /\ job[s].call = "lookup" => job[s].period \in Periods
         /\ job[s].call = "book" => /\ job[s].period \in Periods
                                    /\ job[s].read \in Plans
                                    /\ job[s].assigned \in Plans
                                    /\ job[s].row \in Charges
         /\ job[s].call \in {"cancel", "canceled", "sync", "synced", "save"}
              => job[s].read \in Plans
         /\ job[s].call \in {"synced", "save"} => job[s].reply \in Remotes
         /\ job[s].call = "save" => job[s].missing \subseteq Charges
<1>1. job[s] \in Jobs
  BY DEF TypeOK
<1> QED
  BY <1>1 DEF Jobs, Idle

\* Writing back the changed columns over the stored row gives a plan.
LEMMA WriteBackType ==
  ASSUME plan \in Plans, NEW read \in Plans, NEW assigned \in Plans
  PROVE  WriteBack(read, assigned) \in Plans
<1> DEFINE Column(r, a, stored) == IF a # r THEN a ELSE stored
<1>1. /\ Column(read.status, assigned.status, plan.status) \in SubscriptionStatuses
      /\ Column(read.success, assigned.success, plan.success) \in Nat
      /\ Column(read.failures, assigned.failures, plan.failures) \in Nat
  BY DEF Plans
<1> QED
  BY <1>1 DEF WriteBack, Plans

\* The first payment leaves a plan.
LEMMA FirstPaymentType ==
  ASSUME plan \in Plans
  PROVE  FirstPayment(plan) \in Plans
BY DEF FirstPayment, Plans, Larger, SubscriptionStatuses

\* A period transition leaves a plan.
LEMMA ApplyType ==
  ASSUME plan \in Plans, NEW ok \in BOOLEAN, NEW total \in Nat
  PROVE  ApplyRecurringTransition(plan, ok, total) \in Plans
<1>1. RecurringTarget(ok, total) \in SubscriptionStatuses
  BY DEF RecurringTarget, SubscriptionStatuses
<1>2. /\ (IF ok THEN Larger(plan.success, total) ELSE plan.success) \in Nat
      /\ (IF ok THEN plan.failures ELSE plan.failures + 1) \in Nat
  BY DEF Plans, Larger
<1> QED
  BY <1>1, <1>2 DEF ApplyRecurringTransition, Plans

\* A notified period of the log makes a typed row and a count.
LEMMA NotifiedType ==
  ASSUME TypeOK, RemoteInv, NEW p \in 2..Len(remote.log)
  PROVE  /\ p \in Periods /\ remote.log[p] \in BOOLEAN
         /\ TotalTimes(p) \in Nat
         /\ NotifiedCharge(p) \in Charges
<1>1. p \in Periods /\ remote.log[p] \in BOOLEAN
  BY ExecTimesAssumption DEF RemoteInv, Remotes, Periods
<1>2. SuccessesUpTo(remote, p) \in Nat
  BY CountLog DEF RemoteInv, Remotes
<1>3. TotalTimes(p) \in Nat
  BY <1>1, <1>2 DEF TotalTimes, TypeOK, Plans
<1>4. <<p>> \in ChargeTrades /\ <<TotalTimes(p), remote.log[p]>> \in ChargeTrades
  BY <1>1, <1>3 DEF ChargeTrades
<1> QED
  BY <1>1, <1>3, <1>4 DEF NotifiedCharge, Charges

\* A sync computes a plan from any reply that is not empty.
LEMMA SynchronizedType ==
  ASSUME NEW r \in Remotes, r.status # "none"
  PROVE  Synchronized(r) \in Plans
<1>1. Successes(r) \in Nat /\ Failures(r) \in Nat
  BY CountLog DEF Successes, Remotes
<1>2. r.status \in {"stopped", "running", "done"}
  BY DEF Remotes, RemoteStatuses
<1> QED
  BY <1>1, <1>2 DEF Synchronized, Plans, SubscriptionStatuses

-----------------------------------------------------------------------------
(* The inductive step: where the log grows *)

\* ECPay only appends to its log and keeps its status in step with it.
LEMMA LogGrows ==
  ASSUME RemoteInv, TypeOK, [Next]_vars
  PROVE  /\ RemoteInv'
         /\ Len(remote.log) <= Len(remote'.log)
         /\ \A p \in 1..Len(remote.log) : remote'.log[p] = remote.log[p]
<1> USE DEF RemoteInv
<1>1. ASSUME NEW ok \in BOOLEAN, RemoteCharge(ok)
      PROVE  /\ RemoteInv'
             /\ Len(remote.log) <= Len(remote'.log)
             /\ \A p \in 1..Len(remote.log) : remote'.log[p] = remote.log[p]
  <2>1. /\ remote.log \in Seq(BOOLEAN)
        /\ remote'.log = Append(remote.log, ok)
        /\ remote'.status = IF Len(remote.log) + 1 = ExecTimes THEN "done" ELSE "running"
        /\ remote' = [status |-> remote'.status, log |-> remote'.log]
    BY <1>1 DEF RemoteCharge, Remotes
  <2>2. /\ remote'.log \in Seq(BOOLEAN) /\ Len(remote'.log) = Len(remote.log) + 1
        /\ \A p \in 1..Len(remote.log) : remote'.log[p] = remote.log[p]
    BY <2>1
  <2>3. remote'.log # << >>
    BY <2>1
  <2>4. Len(remote.log) # ExecTimes
    BY <1>1 DEF RemoteCharge
  <2>5. remote' \in Remotes
    BY <2>1, <2>2 DEF Remotes, RemoteStatuses
  <2>6. Len(remote.log) \in Nat
    BY <2>1
  <2> QED
    BY <2>1, <2>2, <2>3, <2>4, <2>5, <2>6, ExecTimesAssumption
<1>2. ASSUME remote.status = "running", remote' = [remote EXCEPT !.status = "stopped"]
      PROVE  /\ RemoteInv'
             /\ Len(remote.log) <= Len(remote'.log)
             /\ \A p \in 1..Len(remote.log) : remote'.log[p] = remote.log[p]
  BY <1>2 DEF Remotes, RemoteStatuses
<1>3. ASSUME UNCHANGED remote
      PROVE  /\ RemoteInv'
             /\ Len(remote.log) <= Len(remote'.log)
             /\ \A p \in 1..Len(remote.log) : remote'.log[p] = remote.log[p]
  BY <1>3 DEF Remotes
<1>4. CASE RemoteStop
  BY <1>2, <1>4 DEF RemoteStop
<1>5. ASSUME NEW h \in Handlers, Handle(h)
      PROVE  UNCHANGED remote
  BY <1>5
  DEF Handle, BeginFirst, ApplyFirst, DuplicateFirst, BeginPeriod, IgnorePeriod,
      StagePeriod, BookPeriod, DuplicatePeriod
<1>6. ASSUME NEW t \in Operators, RemoteCancel(t)
      PROVE  remote.status = "running" /\ remote' = [remote EXCEPT !.status = "stopped"]
  BY <1>6 DEF RemoteCancel
<1>7. ASSUME NEW t \in Operators, Operate(t), ~RemoteCancel(t)
      PROVE  UNCHANGED remote
  BY <1>7
  DEF Operate, BeginRecovery, ApplyRecovery, BeginCancel, SaveCancel, BeginSync,
      RemoteReply, SelectCharges, SaveSync, SyncCollides
<1>8. ASSUME NEW s \in Sessions, CallFails(s)
      PROVE  UNCHANGED remote
  BY <1>8 DEF CallFails
<1>9. CASE UNCHANGED vars
  BY <1>3, <1>9 DEF vars
<1> QED
  BY <1>1, <1>2, <1>3, <1>4, <1>5, <1>6, <1>7, <1>8, <1>9 DEF Next

-----------------------------------------------------------------------------
(* The inductive step: the sessions *)

\* A step gives one session a job that it may carry, or none at all.
LEMMA NewJob ==
  ASSUME LedgerInv, NEW s \in Sessions, NEW next \in Jobs, Continue(s, next)
  PROVE  /\ job' \in [Sessions -> Jobs]
         /\ job'[s] = next
         /\ \A r \in Sessions \ {s} : job'[r] = job[r]
BY DEF LedgerInv, TypeOK, Continue

\* What the other sessions carry survives whatever happens to the log.
LEMMA CarriedStays ==
  ASSUME LedgerInv, RemoteInv', NEW s \in Sessions, job'[s] = job[s],
         Len(remote.log) <= Len(remote'.log),
         \A p \in 1..Len(remote.log) : remote'.log[p] = remote.log[p]
  PROVE  Carried(s)'
<1>1. Carried(s) /\ job[s] \in Jobs
  BY JobFields DEF LedgerInv
<1>2. Len(remote.log) \in Nat /\ Len(remote'.log) \in Nat
  BY DEF LedgerInv, RemoteInv, Remotes
<1>3. 1..Len(remote.log) \subseteq 1..Len(remote'.log) /\ 2..Len(remote.log) \subseteq 2..Len(remote'.log)
  BY <1>2
<1>4. /\ job'[s].call \in {"lookup", "book"} => job'[s].period \in 2..Len(remote'.log)
      /\ job'[s].call = "book" => job'[s].row.period = job'[s].period
      /\ job'[s].call = "book" => job'[s].row.ok = remote'.log[job'[s].period]
      /\ job'[s].call = "book" => ~job'[s].row.recovered
      /\ job'[s].call = "book" /\ job'[s].period \in Numbered
           => job'[s].row.trade = <<job'[s].period>>
  BY <1>1, <1>2, <1>3 DEF Carried
<1>5. ASSUME job[s].call \in {"synced", "save"}
      PROVE  /\ job[s].reply.status # "none"
             /\ Len(job[s].reply.log) <= Len(remote'.log)
             /\ \A p \in 1..Len(job[s].reply.log) : job[s].reply.log[p] = remote'.log[p]
  <2>1. Len(job[s].reply.log) \in Nat
    BY <1>5, JobFields DEF LedgerInv, Remotes
  <2> QED
    BY <1>1, <1>2, <1>5, <2>1 DEF Carried
<1>6. ASSUME job[s].call = "save", NEW c \in job[s].missing
      PROVE  /\ c.period \in Logged \cap (1..Len(remote'.log))
             /\ c = SyncedRow(c.period)'
  BY <1>1, <1>3, <1>6 DEF Carried, SyncedRow
<1> QED
  BY <1>4, <1>5, <1>6 DEF Carried

Grows ==
  /\ Len(remote.log) <= Len(remote'.log)
  /\ \A p \in 1..Len(remote.log) : remote'.log[p] = remote.log[p]

\* A step that gives one session a job it may carry leaves all sessions so.
LEMMA OneJob ==
  ASSUME LedgerInv, RemoteInv', Grows, NEW s \in Sessions, NEW next \in Jobs,
         Continue(s, next), Carried(s)'
  PROVE  job' \in [Sessions -> Jobs] /\ \A r \in Sessions : Carried(r)'
<1>1. job' \in [Sessions -> Jobs] /\ \A r \in Sessions \ {s} : job'[r] = job[r]
  BY NewJob
<1>2. ASSUME NEW r \in Sessions, r # s
      PROVE  Carried(r)'
  BY <1>1, <1>2, CarriedStays DEF Grows
<1> QED
  BY <1>1, <1>2

\* A step that ends one session's call leaves the other sessions as they were.
LEMMA NoJob ==
  ASSUME LedgerInv, RemoteInv', Grows, NEW s \in Sessions, Return(s)
  PROVE  job' \in [Sessions -> Jobs] /\ \A r \in Sessions : Carried(r)'
<1>1. Continue(s, Idle) /\ Idle \in Jobs
  BY DEF Return, Continue, Jobs
<1>2. job'[s] = Idle
  BY <1>1, NewJob
<1>3. Carried(s)'
  BY <1>2 DEF Carried, Idle
<1> QED
  BY <1>1, <1>3, OneJob

\* The ledger is not touched by a step that inserts nothing.
LEMMA BookedStays ==
  ASSUME LedgerInv, RemoteInv', Grows, charges' = charges, applied \subseteq applied'
  PROVE  Booked' /\ SecondRowsAreUnnumbered'
<1>1. Len(remote.log) \in Nat /\ Len(remote'.log) \in Nat
  BY DEF LedgerInv, RemoteInv, Remotes
<1>2. 1..Len(remote.log) \subseteq 1..Len(remote'.log)
  BY <1>1 DEF Grows
<1>3. Booked'
  BY <1>2 DEF LedgerInv, Booked, Grows
<1> QED
  BY <1>3 DEF LedgerInv, SecondRowsAreUnnumbered

\* ECPay's own steps preserve the invariant.
LEMMA RemoteSteps ==
  ASSUME LedgerInv, [Next]_vars, RemoteStop \/ \E ok \in BOOLEAN : RemoteCharge(ok)
  PROVE  LedgerInv'
<1>1. RemoteInv' /\ Grows
  BY LogGrows DEF LedgerInv, Grows
<1>2. UNCHANGED <<paid, plan, charges, applied, job>>
  BY DEF RemoteStop, RemoteCharge
<1>3. \A s \in Sessions : Carried(s)'
  BY <1>1, <1>2, CarriedStays DEF Grows
<1>4. Booked' /\ SecondRowsAreUnnumbered'
  BY <1>1, <1>2, BookedStays
<1> QED
  BY <1>1, <1>2, <1>3, <1>4 DEF LedgerInv, TypeOK, RemoteInv

\* Every step of a notification handler preserves the invariant.
LEMMA HandlerSteps ==
  ASSUME LedgerInv, [Next]_vars, NEW h \in Handlers, Handle(h)
  PROVE  LedgerInv'
<1>1. RemoteInv' /\ Grows
  BY LogGrows DEF LedgerInv, Grows
<1>2. h \in Sessions
  BY DEF Sessions
<1>3. ASSUME UNCHANGED <<remote, paid, plan, charges, applied>>, NEW next \in Jobs,
             Continue(h, next), Carried(h)'
      PROVE  LedgerInv'
  <2>1. job' \in [Sessions -> Jobs] /\ \A r \in Sessions : Carried(r)'
    BY <1>1, <1>2, <1>3, OneJob
  <2>2. Booked' /\ SecondRowsAreUnnumbered'
    BY <1>1, <1>3, BookedStays
  <2> QED
    BY <1>1, <1>3, <2>1, <2>2 DEF LedgerInv, TypeOK, RemoteInv
<1>4. ASSUME UNCHANGED <<remote, paid, plan, charges, applied>>, Return(h)
      PROVE  LedgerInv'
  <2>1. Booked' /\ SecondRowsAreUnnumbered'
    BY <1>1, <1>4, BookedStays
  <2> QED
    BY <1>1, <1>2, <1>4, <2>1, NoJob DEF LedgerInv, TypeOK, RemoteInv
<1>5. CASE BeginFirst(h)
  <2>1. [call |-> "first"] \in Jobs
    BY DEF Jobs
  <2>2. Carried(h)'
    BY <1>2, <1>5, <2>1, NewJob DEF BeginFirst, Carried
  <2> QED
    BY <1>3, <1>5, <2>1, <2>2 DEF BeginFirst
<1>6. CASE ApplyFirst(h)
  <2>1. /\ UNCHANGED <<remote, charges>> /\ Return(h)
        /\ paid' = TRUE /\ plan' = FirstPayment(plan) /\ applied' = applied \cup {<<1>>}
    BY <1>6 DEF ApplyFirst
  <2>2. FirstPayment(plan) \in Plans
    BY FirstPaymentType DEF LedgerInv, TypeOK
  <2>3. <<1>> \in TradeNumbers
    <3>1. 1 \in Periods /\ NumberOf(1) = <<1>>
      BY NumberedAssumption, ExecTimesAssumption DEF Periods, NumberOf
    <3> QED
      BY <3>1 DEF TradeNumbers
  <2>4. Booked' /\ SecondRowsAreUnnumbered'
    BY <1>1, <2>1, BookedStays
  <2> QED
    BY <1>1, <1>2, <2>1, <2>2, <2>3, <2>4, NoJob DEF LedgerInv, TypeOK, RemoteInv
<1>7. CASE DuplicateFirst(h) \/ IgnorePeriod(h) \/ DuplicatePeriod(h)
  BY <1>4, <1>7 DEF DuplicateFirst, IgnorePeriod, DuplicatePeriod
<1>8. ASSUME NEW p \in Periods, BeginPeriod(h, p)
      PROVE  LedgerInv'
  <2> DEFINE next == [call |-> "lookup", period |-> p]
  <2>1. next \in Jobs /\ Continue(h, next)
    BY <1>8 DEF Jobs, BeginPeriod
  <2>2. job'[h] = next
    BY <1>2, <2>1, NewJob
  <2>3. Carried(h)'
    BY <1>8, <2>2 DEF BeginPeriod, Carried
  <2> QED
    BY <1>3, <1>8, <2>1, <2>3 DEF BeginPeriod
<1>9. CASE StagePeriod(h)
  <2>1. PICK p \in Periods :
          /\ LookingUp(h, p)
          /\ Continue(h, [call |-> "book", period |-> p, read |-> plan,
                          assigned |-> ApplyRecurringTransition(
                                         plan, remote.log[p], TotalTimes(p)),
                          row |-> NotifiedCharge(p)])
    BY <1>9 DEF StagePeriod
  <2>2. UNCHANGED <<remote, paid, plan, charges, applied>>
    BY <1>9 DEF StagePeriod
  <2>3. p \in 2..Len(remote.log)
    BY <1>2, <2>1 DEF LookingUp, LedgerInv, Carried
  <2>4. /\ remote.log[p] \in BOOLEAN /\ TotalTimes(p) \in Nat
        /\ NotifiedCharge(p) \in Charges
    BY <2>3, NotifiedType DEF LedgerInv
  <2>5. plan \in Plans /\ ApplyRecurringTransition(plan, remote.log[p], TotalTimes(p)) \in Plans
    BY <2>4, ApplyType DEF LedgerInv, TypeOK
  <2> DEFINE next == [call |-> "book", period |-> p, read |-> plan,
                      assigned |-> ApplyRecurringTransition(
                                     plan, remote.log[p], TotalTimes(p)),
                      row |-> NotifiedCharge(p)]
  <2>6. next \in Jobs
    BY <2>4, <2>5 DEF Jobs
  <2>7. job'[h] = next
    BY <1>2, <2>1, <2>6, NewJob
  <2>8. /\ NotifiedCharge(p).period = p /\ NotifiedCharge(p).ok = remote.log[p]
        /\ ~NotifiedCharge(p).recovered
        /\ p \in Numbered => NotifiedCharge(p).trade = <<p>>
    BY DEF NotifiedCharge
  <2>9. Carried(h)'
    BY <2>2, <2>3, <2>7, <2>8 DEF Carried
  <2> QED
    BY <1>3, <2>1, <2>2, <2>6, <2>9
<1>10. CASE BookPeriod(h)
  <2> DEFINE p == job[h].period
             row == job[h].row
  <2>1. /\ UNCHANGED <<remote, paid>> /\ Return(h)
        /\ plan' = WriteBack(job[h].read, job[h].assigned)
        /\ charges' = charges \cup {row} /\ applied' = applied \cup {NumberOf(p)}
        /\ NumberOf(p) \notin applied /\ row.trade \notin TradesOf(charges)
        /\ job[h].call = "book"
    BY <1>10 DEF BookPeriod, Bookable
  <2>2. /\ p \in Periods /\ row \in Charges
        /\ job[h].read \in Plans /\ job[h].assigned \in Plans
    BY <1>2, <2>1, JobFields DEF LedgerInv
  <2>3. plan' \in Plans
    BY <2>1, <2>2, WriteBackType DEF LedgerInv, TypeOK
  <2>4. NumberOf(p) \in TradeNumbers
    BY <2>2 DEF TradeNumbers
  <2>5. /\ p \in 2..Len(remote.log) /\ row.period = p /\ row.ok = remote.log[p]
        /\ ~row.recovered
        /\ p \in Numbered => row.trade = <<p>>
    BY <1>2, <2>1 DEF LedgerInv, Carried
  <2>6. p \notin Numbered => << >> \in applied'
    BY <2>1 DEF NumberOf
  <2>7. Len(remote.log) \in Nat
    BY DEF LedgerInv, RemoteInv, Remotes
  <2>8. Booked'
    BY <2>1, <2>5, <2>6, <2>7 DEF Booked, LedgerInv
  <2>9. ASSUME NEW c \in charges, c.period = p
        PROVE  p \in Logged \ Numbered /\ c.recovered
    <3>1. c.trade # row.trade
      BY <2>1, <2>9 DEF TradesOf
    <3>2. p \notin Numbered
      BY <2>5, <2>9, <3>1 DEF LedgerInv, Booked
    <3>3. << >> \notin applied
      BY <2>1, <3>2 DEF NumberOf
    <3> QED
      BY <2>9, <3>2, <3>3 DEF LedgerInv, Booked
  <2>10. SecondRowsAreUnnumbered'
    BY <2>1, <2>5, <2>9 DEF LedgerInv, SecondRowsAreUnnumbered
  <2> QED
    BY <1>1, <1>2, <2>1, <2>2, <2>3, <2>4, <2>8, <2>10, NoJob
    DEF LedgerInv, TypeOK, RemoteInv
<1> QED
  BY <1>5, <1>6, <1>7, <1>8, <1>9, <1>10 DEF Handle

\* The rows a sync is to insert are rows of the log, typed and numbered.
LEMMA MissingRows ==
  ASSUME LedgerInv, NEW s \in Sessions, job[s].call = "synced",
         NEW c \in MissingCharges(job[s].reply, charges)
  PROVE  /\ c \in Charges
         /\ c.period \in Logged \cap (1..Len(remote.log))
         /\ c = SyncedRow(c.period)
<1> DEFINE log == job[s].reply.log
<1>1. /\ log \in Seq(BOOLEAN) /\ Len(log) \in Nat /\ DOMAIN log = 1..Len(log)
      /\ Len(log) <= Len(remote.log)
      /\ \A q \in 1..Len(log) : log[q] = remote.log[q]
  BY JobFields DEF LedgerInv, Remotes, Carried
<1>2. PICK p \in Logged \cap DOMAIN log :
        c = [trade |-> <<p>>, period |-> p, ok |-> log[p], recovered |-> TRUE]
  BY DEF MissingCharges
<1>3. /\ Len(remote.log) \in Nat /\ Len(remote.log) <= ExecTimes
      /\ remote.log \in Seq(BOOLEAN)
  BY DEF LedgerInv, RemoteInv, Remotes
<1>4. p \in 1..Len(remote.log) /\ p \in Periods /\ log[p] \in BOOLEAN
  BY <1>1, <1>2, <1>3, ExecTimesAssumption DEF Periods
<1>5. c.period = p /\ c = SyncedRow(p)
  BY <1>1, <1>2 DEF SyncedRow
<1>6. <<p>> \in ChargeTrades
  BY <1>4 DEF ChargeTrades
<1> QED
  BY <1>2, <1>4, <1>5, <1>6 DEF Charges

\* Every step of a cancel or of a sync preserves the invariant.
LEMMA OperatorSteps ==
  ASSUME LedgerInv, [Next]_vars, NEW t \in Operators, Operate(t)
  PROVE  LedgerInv'
<1>1. RemoteInv' /\ Grows
  BY LogGrows DEF LedgerInv, Grows
<1>2. t \in Sessions
  BY DEF Sessions
<1>3. ASSUME UNCHANGED <<paid, plan, charges, applied>>, NEW next \in Jobs,
             Continue(t, next), Carried(t)'
      PROVE  LedgerInv'
  <2>1. job' \in [Sessions -> Jobs] /\ \A r \in Sessions : Carried(r)'
    BY <1>1, <1>2, <1>3, OneJob
  <2>2. Booked' /\ SecondRowsAreUnnumbered'
    BY <1>1, <1>3, BookedStays
  <2> QED
    BY <1>1, <1>3, <2>1, <2>2 DEF LedgerInv, TypeOK, RemoteInv
<1>4. ASSUME UNCHANGED <<charges, applied>>, Return(t), paid' \in BOOLEAN, plan' \in Plans
      PROVE  LedgerInv'
  <2>1. Booked' /\ SecondRowsAreUnnumbered'
    BY <1>1, <1>4, BookedStays
  <2> QED
    BY <1>1, <1>2, <1>4, <2>1, NoJob DEF LedgerInv, TypeOK, RemoteInv
<1>5. plan \in Plans /\ paid \in BOOLEAN
  BY DEF LedgerInv, TypeOK
<1>6. CASE BeginRecovery(t)
  <2>1. [call |-> "recover"] \in Jobs
    BY DEF Jobs
  <2>2. Carried(t)'
    BY <1>2, <1>6, <2>1, NewJob DEF BeginRecovery, Carried
  <2> QED
    BY <1>3, <1>6, <2>1, <2>2 DEF BeginRecovery
<1>7. CASE ApplyRecovery(t)
  BY <1>4, <1>5, <1>7, FirstPaymentType DEF ApplyRecovery
<1>8. ASSUME NEW call \in {"cancel", "canceled", "sync"}, NEW read \in Plans,
             Continue(t, [call |-> call, read |-> read]),
             UNCHANGED <<paid, plan, charges, applied>>
      PROVE  LedgerInv'
  <2>1. [call |-> call, read |-> read] \in Jobs
    BY <1>8 DEF Jobs
  <2>2. Carried(t)'
    BY <1>2, <1>8, <2>1, NewJob DEF Carried
  <2> QED
    BY <1>3, <1>8, <2>1, <2>2
<1>9. CASE BeginCancel(t) \/ BeginSync(t)
  BY <1>5, <1>8, <1>9 DEF BeginCancel, BeginSync
<1>10. CASE RemoteCancel(t)
  <2>1. job[t].read \in Plans
    BY <1>2, <1>10, JobFields DEF RemoteCancel, LedgerInv
  <2> QED
    BY <1>8, <1>10, <2>1 DEF RemoteCancel
<1>11. CASE SaveCancel(t)
  <2>1. job[t].read \in Plans
    BY <1>2, <1>11, JobFields DEF SaveCancel, LedgerInv
  <2>2. [job[t].read EXCEPT !.status = "CANCELED"] \in Plans
    BY <2>1 DEF Plans, SubscriptionStatuses
  <2>3. WriteBack(job[t].read, [job[t].read EXCEPT !.status = "CANCELED"]) \in Plans
    BY <1>5, <2>1, <2>2, WriteBackType
  <2> QED
    BY <1>4, <1>5, <1>11, <2>3 DEF SaveCancel
<1>12. CASE RemoteReply(t)
  <2> DEFINE next == [call |-> "synced", read |-> job[t].read, reply |-> remote]
  <2>1. job[t].read \in Plans
    BY <1>2, <1>12, JobFields DEF RemoteReply, LedgerInv
  <2>2. remote \in Remotes /\ Len(remote.log) \in Nat
    BY DEF LedgerInv, RemoteInv, Remotes
  <2>3. next \in Jobs /\ Continue(t, next)
    BY <1>12, <2>1, <2>2 DEF Jobs, RemoteReply
  <2>4. job'[t] = next
    BY <1>2, <2>3, NewJob
  <2>5. UNCHANGED remote /\ remote.status # "none"
    BY <1>12 DEF RemoteReply
  <2>6. Carried(t)'
    BY <2>2, <2>4, <2>5 DEF Carried
  <2> QED
    BY <1>3, <1>12, <2>3, <2>6 DEF RemoteReply
<1>13. CASE SelectCharges(t)
  <2> DEFINE missing == MissingCharges(job[t].reply, charges)
             next == [call |-> "save", read |-> job[t].read, reply |-> job[t].reply,
                      missing |-> missing]
  <2>1. job[t].call = "synced" /\ UNCHANGED remote
    BY <1>13 DEF SelectCharges
  <2>2. job[t].read \in Plans /\ job[t].reply \in Remotes
    BY <1>2, <2>1, JobFields DEF LedgerInv
  <2>3. \A c \in missing : /\ c \in Charges
                           /\ c.period \in Logged \cap (1..Len(remote.log))
                           /\ c = SyncedRow(c.period)
    BY <1>2, <2>1, MissingRows
  <2>4. next \in Jobs
    <3> HIDE DEF missing
    <3> QED
      BY <2>2, <2>3 DEF Jobs
  <2>5. Continue(t, next)
    BY <1>13 DEF SelectCharges
  <2>6. job'[t] = next
    BY <1>2, <2>4, <2>5, NewJob
  <2>7. Carried(t)
    BY <1>2 DEF LedgerInv
  <2>8. Carried(t)'
    <3> HIDE DEF missing
    <3> QED
      BY <2>1, <2>3, <2>6, <2>7 DEF Carried, SyncedRow
  <2> QED
    BY <1>3, <1>13, <2>4, <2>5, <2>8 DEF SelectCharges
<1>14. CASE SaveSync(t)
  <2> DEFINE missing == job[t].missing
  <2>1. /\ job[t].call = "save" /\ UNCHANGED <<remote, paid, applied>> /\ Return(t)
        /\ plan' = WriteBack(job[t].read, Synchronized(job[t].reply))
        /\ charges' = charges \cup missing
        /\ TradesOf(missing) \cap TradesOf(charges) = {}
    BY <1>14 DEF SaveSync, Insertable
  <2>2. /\ job[t].read \in Plans /\ job[t].reply \in Remotes /\ missing \subseteq Charges
    BY <1>2, <2>1, JobFields DEF LedgerInv
  <2>3. /\ job[t].reply.status # "none"
        /\ \A c \in missing : /\ c.period \in Logged \cap (1..Len(remote.log))
                              /\ c = SyncedRow(c.period)
    BY <1>2, <2>1 DEF LedgerInv, Carried
  <2>4. plan' \in Plans
    BY <1>5, <2>1, <2>2, <2>3, SynchronizedType, WriteBackType
  <2>5. ASSUME NEW c \in missing
        PROVE  /\ c.period \in Logged /\ c.period \in 1..Len(remote.log) /\ c.recovered
               /\ c.trade = <<c.period>> /\ c.ok = remote.log[c.period]
    BY <2>3, <2>5 DEF SyncedRow
  <2>6. Booked'
    BY <2>1, <2>5 DEF LedgerInv, Booked
  <2>7. ASSUME NEW c \in charges, NEW d \in missing, c.period = d.period
        PROVE  c.period \in Logged \ Numbered /\ ~c.recovered /\ d.recovered
    <3>1. c.trade # d.trade
      BY <2>1, <2>7 DEF TradesOf
    <3> QED
      BY <2>5, <2>7, <3>1 DEF LedgerInv, Booked
  <2>8. ASSUME NEW c \in missing, NEW d \in missing, c.period = d.period
        PROVE  c = d
    BY <2>3, <2>8
  <2>9. SecondRowsAreUnnumbered'
    BY <2>1, <2>7, <2>8 DEF LedgerInv, SecondRowsAreUnnumbered
  <2> QED
    BY <1>1, <1>2, <1>5, <2>1, <2>2, <2>4, <2>6, <2>9, NoJob DEF LedgerInv, TypeOK, RemoteInv
<1>15. CASE SyncCollides(t)
  BY <1>4, <1>5, <1>15 DEF SyncCollides
<1> QED
  BY <1>6, <1>7, <1>9, <1>10, <1>11, <1>12, <1>13, <1>14, <1>15 DEF Operate

\* The empty ledger satisfies the invariant.
LEMMA LedgerInit == Init => LedgerInv
<1> SUFFICES ASSUME Init
             PROVE  LedgerInv
  OBVIOUS
<1>1. remote \in Remotes /\ remote.status = "none" /\ remote.log = << >> /\ Len(remote.log) = 0
  BY DEF Init, Remotes, RemoteStatuses
<1>2. RemoteInv
  BY <1>1, ExecTimesAssumption DEF RemoteInv
<1>3. TypeOK
  BY <1>1 DEF Init, TypeOK, Plans, SubscriptionStatuses, Jobs
<1>4. \A s \in Sessions : Carried(s)
  BY DEF Init, Carried, Idle
<1> QED
  BY <1>2, <1>3, <1>4 DEF Init, LedgerInv, Booked, SecondRowsAreUnnumbered

\* Every step preserves the invariant.
LEMMA LedgerNext == LedgerInv /\ [Next]_vars => LedgerInv'
<1> SUFFICES ASSUME LedgerInv, [Next]_vars
             PROVE  LedgerInv'
  OBVIOUS
<1>1. ASSUME NEW s \in Sessions, CallFails(s)
      PROVE  LedgerInv'
  <2>1. RemoteInv' /\ Grows
    BY LogGrows DEF LedgerInv, Grows
  <2>2. Return(s) /\ UNCHANGED <<remote, paid, plan, charges, applied>>
    BY <1>1 DEF CallFails
  <2>3. Booked' /\ SecondRowsAreUnnumbered'
    BY <2>1, <2>2, BookedStays
  <2> QED
    BY <2>1, <2>2, <2>3, NoJob DEF LedgerInv, TypeOK, RemoteInv
<1>2. CASE UNCHANGED vars
  BY <1>2 DEF vars, LedgerInv, TypeOK, RemoteInv, Carried, Booked, SecondRowsAreUnnumbered, SyncedRow
<1> QED
  BY <1>1, <1>2, RemoteSteps, HandlerSteps, OperatorSteps DEF Next

\* The invariant holds in every behaviour.
LEMMA LedgerHolds == Spec => []LedgerInv
BY LedgerInit, LedgerNext, PTL DEF Spec

\* Plan, ledger and every session keep their types, for any number of periods,
\* event loops and operator threads.
THEOREM TypeCorrect == Spec => []TypeOK
<1>1. LedgerInv => TypeOK
  BY DEF LedgerInv
<1> QED
  BY <1>1, LedgerHolds, PTL

\* The ledger holds only what ECPay charged, with the result it had, although
\* notifications and syncs write what they read before.
THEOREM LedgerIsReal == Spec => []ChargesAreReal
<1>1. LedgerInv => ChargesAreReal
  BY DEF LedgerInv, Booked, ChargesAreReal, RemoteInv, Remotes
<1> QED
  BY <1>1, LedgerHolds, PTL

\* A period has two rows only if its notification had no trade number while
\* its entry in ECPay's log has: one notified, one synchronised, never more -
\* whichever numbers are missing and however many sessions race to book it.
THEOREM SecondRowsHaveNoNumber == Spec => []SecondRowsAreUnnumbered
<1>1. LedgerInv => SecondRowsAreUnnumbered
  BY DEF LedgerInv
<1> QED
  BY <1>1, LedgerHolds, PTL

\* No period is booked twice, by whichever of notifications, repeated
\* notifications and syncs, when the notification of every period that ECPay
\* lists under a trade number has that number too.
THEOREM PeriodsAreBookedOnce ==
  ASSUME Logged \subseteq Numbered
  PROVE  Spec => []PeriodsBookOnce
<1>1. LedgerInv => PeriodsBookOnce
  BY DEF LedgerInv, SecondRowsAreUnnumbered, PeriodsBookOnce
<1> QED
  BY <1>1, LedgerHolds, PTL

-----------------------------------------------------------------------------
(* A plan ends here only after it has ended at ECPay *)

\* The end a row or a reply states is the end ECPay's plan has come to.
TrueEnd(status) ==
  /\ status = "CANCELED" => remote.status = "stopped"
  /\ status = "COMPLETED" => remote.status = "done"

\* What a cancellation or a synchronisation will write as the plan's status.
Meant(s) ==
  IF job[s].call = "canceled" THEN "CANCELED"
  ELSE IF job[s].call \in {"synced", "save"} THEN Synchronized(job[s].reply).status
  ELSE "PENDING"

\* What any session will write.
Intended(s) == IF job[s].call = "book" THEN job[s].assigned.status ELSE Meant(s)

EndInv == EndsAreReal /\ \A s \in Sessions : TrueEnd(Intended(s))

\* What has ended at ECPay stays ended in that way.
LEMMA EndsStay ==
  ASSUME [Next]_vars, NEW status, TrueEnd(status)
  PROVE  TrueEnd(status)'
<1>1. remote.status \in {"stopped", "done"} => remote'.status = remote.status
  BY DEF Next, vars, RemoteCharge, RemoteStop, CallFails,
         Handle, BeginFirst, ApplyFirst, DuplicateFirst, BeginPeriod, IgnorePeriod,
         StagePeriod, BookPeriod, DuplicatePeriod,
         Operate, BeginRecovery, ApplyRecovery, BeginCancel, RemoteCancel, SaveCancel,
         BeginSync, RemoteReply, SelectCharges, SaveSync, SyncCollides
<1> QED
  BY <1>1 DEF TrueEnd

\* The plan gets the status a session intended, one that is no end, or keeps
\* the one it has. A period's status is written with its booking.
LEMMA PlanWrites ==
  ASSUME LedgerInv, [Next]_vars
  PROVE  \/ plan'.status = plan.status
         \/ plan'.status = "ACTIVE"
         \/ \E s \in Sessions :
              /\ plan'.status = Intended(s)
              /\ job[s].call = "book" => s \in Handlers /\ BookPeriod(s)
<1> USE DEF Sessions
<1>1. ASSUME NEW h \in Handlers, Handle(h)
      PROVE  \/ plan'.status \in {plan.status, "ACTIVE"}
             \/ plan'.status = Intended(h) /\ BookPeriod(h)
  <2>1. CASE ApplyFirst(h)
    BY <2>1 DEF ApplyFirst, FirstPayment, LedgerInv, TypeOK, Plans
  <2>2. CASE BookPeriod(h)
    BY <2>2 DEF BookPeriod, WriteBack, Intended
  <2> QED
    BY <1>1, <2>1, <2>2
    DEF Handle, BeginFirst, DuplicateFirst, BeginPeriod, IgnorePeriod, StagePeriod,
        DuplicatePeriod
<1>2. ASSUME NEW t \in Operators, Operate(t)
      PROVE  \/ plan'.status \in {plan.status, "ACTIVE"}
             \/ plan'.status = Intended(t) /\ job[t].call # "book"
  <2>1. CASE ApplyRecovery(t)
    BY <2>1 DEF ApplyRecovery, FirstPayment, LedgerInv, TypeOK, Plans
  <2>2. CASE SaveCancel(t)
    <3>1. job[t].read \in Plans
      BY <2>2, JobFields DEF SaveCancel, LedgerInv
    <3>2. [job[t].read EXCEPT !.status = "CANCELED"].status = "CANCELED"
      BY <3>1 DEF Plans
    <3> QED
      BY <2>2, <3>2 DEF SaveCancel, WriteBack, Intended, Meant
  <2>3. CASE SaveSync(t)
    BY <2>3 DEF SaveSync, WriteBack, Intended, Meant
  <2> QED
    BY <1>2, <2>1, <2>2, <2>3
    DEF Operate, BeginRecovery, BeginCancel, RemoteCancel, BeginSync, RemoteReply,
        SelectCharges, SyncCollides
<1>3. ASSUME NEW s \in Sessions, CallFails(s)
      PROVE  plan' = plan
  BY <1>3 DEF CallFails
<1> QED
  BY <1>1, <1>2, <1>3 DEF Next, RemoteCharge, RemoteStop, vars

\* A counted period completes the plan only as the last of its log.
LEMMA CompletesLast ==
  ASSUME LedgerInv, NEW p \in Periods \cap Counted
  PROVE  TrueEnd(ApplyRecurringTransition(plan, remote.log[p], TotalTimes(p)).status)
<1>1. TotalTimes(p) \in 0..Len(remote.log)
  BY CountLog DEF TotalTimes, LedgerInv, RemoteInv
<1>2. Len(remote.log) \in Nat /\ Len(remote.log) <= ExecTimes
  BY DEF LedgerInv, RemoteInv, Remotes
<1>3. TotalTimes(p) >= ExecTimes => remote.status = "done"
  BY <1>1, <1>2, ExecTimesAssumption DEF LedgerInv, RemoteInv
<1>4. ApplyRecurringTransition(plan, remote.log[p], TotalTimes(p)).status
        = RecurringTarget(remote.log[p], TotalTimes(p))
  BY DEF ApplyRecurringTransition
<1> QED
  BY <1>3, <1>4 DEF RecurringTarget, TrueEnd

\* An operator comes to mean an end when ECPay has said so.
LEMMA MeantIsTrue ==
  ASSUME LedgerInv, [Next]_vars, NEW s \in Sessions, TrueEnd(Meant(s))
  PROVE  TrueEnd(Meant(s))'
<1>1. job \in [Sessions -> Jobs]
  BY DEF LedgerInv, TypeOK
<1>2. TrueEnd(Meant(s))
  OBVIOUS
<1>3. CASE job'[s] = job[s]
  <2>1. Meant(s)' = Meant(s)
    BY <1>3 DEF Meant
  <2> QED
    BY <1>2, <2>1, EndsStay
<1>4. ASSUME NEW next, Continue(s, next),
             next.call \in {"idle", "first", "lookup", "book", "recover", "cancel", "sync"}
      PROVE  TrueEnd(Meant(s))'
  BY <1>1, <1>4 DEF Continue, Meant, TrueEnd
<1>5. Return(s) => Continue(s, Idle) /\ Idle.call = "idle"
  BY DEF Return, Continue, Idle
<1>6. CASE s \in Handlers /\ StagePeriod(s)
  BY <1>4, <1>6 DEF StagePeriod
<1>7. CASE s \in Operators /\ RemoteCancel(s)
  <2>1. job'[s].call = "canceled" /\ remote'.status = "stopped"
    BY <1>1, <1>7 DEF RemoteCancel, Continue, LedgerInv, TypeOK, Remotes
  <2> QED
    BY <2>1 DEF Meant, TrueEnd
<1>8. CASE s \in Operators /\ RemoteReply(s)
  <2>1. /\ job'[s].call = "synced" /\ job'[s].reply = remote
        /\ remote' = remote /\ remote.status # "none"
    BY <1>1, <1>8 DEF RemoteReply, Continue
  <2>2. remote.status \in {"running", "stopped", "done"}
    BY <2>1 DEF LedgerInv, TypeOK, Remotes, RemoteStatuses
  <2> QED
    BY <2>1, <2>2 DEF Meant, TrueEnd, Synchronized
<1>9. CASE s \in Operators /\ SelectCharges(s)
  <2>1. /\ job[s].call = "synced" /\ job'[s].call = "save"
        /\ job'[s].reply = job[s].reply /\ remote' = remote
    BY <1>1, <1>9 DEF SelectCharges, Continue
  <2>2. Meant(s)' = Meant(s)
    BY <2>1 DEF Meant
  <2> QED
    BY <1>2, <2>2, EndsStay
<1>10. ASSUME s \in Handlers, Handle(s)
       PROVE  TrueEnd(Meant(s))'
  BY <1>3, <1>4, <1>5, <1>6, <1>10
  DEF Handle, BeginFirst, ApplyFirst, DuplicateFirst, BeginPeriod, IgnorePeriod,
      BookPeriod, DuplicatePeriod
<1>11. ASSUME s \in Operators, Operate(s)
       PROVE  TrueEnd(Meant(s))'
  BY <1>3, <1>4, <1>5, <1>7, <1>8, <1>9, <1>11
  DEF Operate, BeginRecovery, ApplyRecovery, BeginCancel, SaveCancel, BeginSync,
      SaveSync, SyncCollides
<1>12. CASE CallFails(s)
  BY <1>4, <1>5, <1>12 DEF CallFails
<1>13. ASSUME NEW r \in Sessions, r # s, NEW next, Continue(r, next)
       PROVE  TrueEnd(Meant(s))'
  BY <1>1, <1>3, <1>13 DEF Continue
<1>14. ASSUME NEW r \in Sessions, r # s,
              \/ r \in Handlers /\ Handle(r)
              \/ r \in Operators /\ Operate(r)
              \/ CallFails(r)
       PROVE  TrueEnd(Meant(s))'
  <2>1. CASE job' = job
    BY <1>3, <2>1
  <2>2. Return(r) => Continue(r, Idle)
    BY DEF Return, Continue
  <2> QED
    BY <1>13, <1>14, <2>1, <2>2
    DEF Handle, BeginFirst, ApplyFirst, DuplicateFirst, BeginPeriod, IgnorePeriod,
        StagePeriod, BookPeriod, DuplicatePeriod,
        Operate, BeginRecovery, ApplyRecovery, BeginCancel, RemoteCancel, SaveCancel,
        BeginSync, RemoteReply, SelectCharges, SaveSync, SyncCollides, CallFails
<1> QED
  BY <1>3, <1>10, <1>11, <1>12, <1>14
  DEF Next, RemoteCharge, RemoteStop, vars, Sessions

\* A handler comes to book a period in StagePeriod alone.
LEMMA BookingsAreStaged ==
  ASSUME LedgerInv, [Next]_vars, NEW s \in Sessions, job'[s].call = "book",
         job'[s] # job[s]
  PROVE  s \in Handlers /\ StagePeriod(s)
<1>1. job \in [Sessions -> Jobs]
  BY DEF LedgerInv, TypeOK
<1>2. ASSUME NEW r \in Sessions, NEW next, Continue(r, next), next.call # "book"
      PROVE  FALSE
  BY <1>1, <1>2 DEF Continue
<1>3. ASSUME NEW r \in Sessions, Return(r)
      PROVE  FALSE
  <2>1. Continue(r, Idle) /\ Idle.call # "book"
    BY <1>3 DEF Return, Continue, Idle
  <2> QED
    BY <1>2, <2>1
<1>4. ASSUME NEW h \in Handlers, Handle(h)
      PROVE  StagePeriod(h)
  BY <1>2, <1>3, <1>4
  DEF Handle, BeginFirst, ApplyFirst, DuplicateFirst, BeginPeriod, IgnorePeriod,
      BookPeriod, DuplicatePeriod, Sessions
<1>5. ASSUME NEW t \in Operators, Operate(t)
      PROVE  FALSE
  BY <1>2, <1>3, <1>5
  DEF Operate, BeginRecovery, ApplyRecovery, BeginCancel, RemoteCancel, SaveCancel,
      BeginSync, RemoteReply, SelectCharges, SaveSync, SyncCollides, Sessions
<1>6. ASSUME NEW r \in Sessions, r # s, StagePeriod(r)
      PROVE  FALSE
  BY <1>1, <1>6 DEF StagePeriod, Continue
<1> QED
  BY <1>3, <1>4, <1>5, <1>6 DEF Next, RemoteCharge, RemoteStop, CallFails, vars, Sessions

\* A session comes to intend an end when it has seen it at ECPay.
LEMMA IntentionsAreTrue ==
  ASSUME Periods \subseteq Counted, LedgerInv, EndInv, [Next]_vars, NEW s \in Sessions
  PROVE  TrueEnd(Intended(s))'
<1>1. job \in [Sessions -> Jobs]
  BY DEF LedgerInv, TypeOK
<1>2. TrueEnd(Intended(s))
  BY DEF EndInv
<1>3. CASE job'[s] = job[s]
  <2>1. Intended(s)' = Intended(s)
    BY <1>3 DEF Intended, Meant
  <2> QED
    BY <1>2, <2>1, EndsStay
<1>4. CASE job'[s].call # "book"
  <2>1. TrueEnd(Meant(s))
    BY <1>2 DEF Intended, Meant, TrueEnd
  <2>2. TrueEnd(Meant(s))'
    BY <2>1, MeantIsTrue
  <2> QED
    BY <1>4, <2>2 DEF Intended
<1>5. CASE s \in Handlers /\ StagePeriod(s)
  <2>1. PICK p \in Periods :
          Continue(s, [call |-> "book", period |-> p, read |-> plan,
                       assigned |-> ApplyRecurringTransition(
                                      plan, remote.log[p], TotalTimes(p)),
                       row |-> NotifiedCharge(p)])
    BY <1>5 DEF StagePeriod
  <2> DEFINE assigned == ApplyRecurringTransition(plan, remote.log[p], TotalTimes(p))
  <2>2. TrueEnd(assigned.status) /\ remote' = remote
    BY <1>5, CompletesLast DEF StagePeriod
  <2> HIDE DEF assigned
  <2>3. job'[s].call = "book" /\ job'[s].assigned = assigned
    BY <1>1, <2>1 DEF Continue, assigned
  <2> QED
    BY <2>2, <2>3 DEF Intended, TrueEnd
<1> QED
  BY <1>3, <1>4, <1>5, BookingsAreStaged

\* When every period notification carries its count, a plan is shown as
\* canceled or completed only once ECPay has stopped it or made its last
\* charge, whatever stale reads, replies and notifications are written over.
THEOREM EndsAreNeverInvented ==
  ASSUME Periods \subseteq Counted
  PROVE  Spec => []EndsAreReal
<1>1. Init => EndInv
  BY DEF Init, EndInv, EndsAreReal, TrueEnd, Intended, Meant, Idle
<1>2. LedgerInv /\ EndInv /\ [Next]_vars => EndInv'
  <2> SUFFICES ASSUME LedgerInv, EndInv, [Next]_vars
               PROVE  EndInv'
    OBVIOUS
  <2>1. TrueEnd(plan.status)
    BY DEF EndInv, EndsAreReal, TrueEnd
  <2>2. \A s \in Sessions : TrueEnd(Intended(s))
    BY DEF EndInv
  <2>3. \A status : TrueEnd(status) =>
          /\ status = "CANCELED" => remote'.status = "stopped"
          /\ status = "COMPLETED" => remote'.status = "done"
    BY EndsStay DEF TrueEnd
  <2>4. EndsAreReal'
    BY <2>1, <2>2, <2>3, PlanWrites DEF EndsAreReal
  <2> QED
    BY <2>4, IntentionsAreTrue DEF EndInv
<1>3. EndInv => EndsAreReal
  BY DEF EndInv
<1> QED
  BY <1>1, <1>2, <1>3, LedgerHolds, PTL DEF Spec
=============================================================================
