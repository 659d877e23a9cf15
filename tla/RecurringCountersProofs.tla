---------------------- MODULE RecurringCountersProofs ----------------------
(***************************************************************************)
(* The counters of a plan never run ahead of ECPay, and a plan whose       *)
(* notifications carry no count is still shown as completed only after its *)
(* last charge.                                                            *)
(*                                                                         *)
(* The counters are compared with what has been booked, not with ECPay's   *)
(* log: a session adds one to the counter it has read, which may be stale, *)
(* but it commits only if its period is not booked yet, and then there is  *)
(* one booked period more than when it read. A synchronisation books every *)
(* later period it counts. All of this needs a trade number on each later  *)
(* notification so far, and on its entry in ECPay's log (LogNumbered).     *)
(***************************************************************************)
EXTENDS RecurringProofs

\* The first payment is notified under the order, and needs no entry.
LogNumbered == DOMAIN remote.log \ {1} \subseteq Numbered \cap Logged

\* No notification has a count, and the code guesses it from the plan.
Guessed == Periods \cap Counted = {}

\* The periods of the log that are booked, by result. The first payment is
\* counted with the order and needs no row.
Seen == {p \in DOMAIN remote.log : \E c \in charges : c.period = p}

FailedSeen == {p \in Seen : ~remote.log[p]}

PaidSeen == {p \in DOMAIN remote.log : remote.log[p] /\ (p = 1 \/ p \in Seen)}

\* How far the count of successes may have come.
Reached == IF Guessed THEN Cardinality(PaidSeen) ELSE Successes(remote)

FirstIsPaid == remote.log # << >> => remote.log[1]

Covered ==
  /\ plan.failures <= Cardinality(FailedSeen)
  /\ plan.success <= Reached

\* What a session has decided, of the plan as it read it.
Staged(s) ==
  /\ job[s].call = "first" => remote.log # << >>
  /\ job[s].call = "book" =>
       LET ok == remote.log[job[s].period]
           read == job[s].read
           assigned == job[s].assigned
       IN  /\ assigned.failures = IF ok THEN read.failures ELSE read.failures + 1
           /\ Guessed => /\ assigned.success = IF ok THEN read.success + 1 ELSE read.success
                         /\ assigned.status = RecurringTarget(ok, assigned.success)

\* What it read was covered, and what a synchronisation counts it will book.
Backed(s) ==
  /\ job[s].call = "book" =>
       /\ job[s].read.failures <= Cardinality(FailedSeen)
       /\ IF Guessed THEN job[s].read.success <= Reached
          ELSE job[s].assigned.success <= Reached
  /\ job[s].call = "save" =>
       \A p \in DOMAIN job[s].reply.log \ {1} :
         \E c \in charges \cup job[s].missing : c.period = p

CounterInv ==
  /\ FirstIsPaid
  /\ \A s \in Sessions : Staged(s)
  /\ LogNumbered => Covered /\ \A s \in Sessions : Backed(s)

-----------------------------------------------------------------------------
(* Counting *)

\* The log is a finite sequence of results.
LEMMA LogFinite ==
  ASSUME RemoteInv
  PROVE  /\ remote.log \in Seq(BOOLEAN) /\ Len(remote.log) \in Nat
         /\ DOMAIN remote.log = 1..Len(remote.log)
         /\ IsFiniteSet(DOMAIN remote.log)
         /\ Cardinality(DOMAIN remote.log) = Len(remote.log)
<1>1. /\ remote.log \in Seq(BOOLEAN) /\ Len(remote.log) \in Nat
      /\ DOMAIN remote.log = 1..Len(remote.log)
  BY DEF RemoteInv, Remotes
<1> QED
  BY <1>1, FS_Interval, 0 \in Int

\* Among periods of the log more periods are no fewer.
LEMMA CountGrows ==
  ASSUME RemoteInv, NEW S, NEW T, S \subseteq T, T \subseteq DOMAIN remote.log
  PROVE  /\ Cardinality(S) \in Nat /\ Cardinality(T) \in Nat
         /\ Cardinality(S) <= Cardinality(T)
<1>1. IsFiniteSet(T)
  BY LogFinite, FS_Subset
<1> QED
  BY <1>1, FS_Subset, FS_CardinalityType

SuccessSet == {p \in DOMAIN remote.log : remote.log[p]}

FailureSet == {p \in DOMAIN remote.log : ~remote.log[p]}

\* What ECPay's log holds, as sets of periods.
LEMMA LogCounts ==
  ASSUME RemoteInv
  PROVE  /\ Successes(remote) = Cardinality(SuccessSet)
         /\ Failures(remote) = Cardinality(FailureSet)
<1>1. {i \in DOMAIN remote.log : i <= Len(remote.log) /\ remote.log[i]} = SuccessSet
  BY LogFinite DEF SuccessSet
<1> QED
  BY <1>1 DEF Successes, SuccessesUpTo, Failures, FailureSet

\* What is booked is no more than what is in the log.
LEMMA SeenInLog ==
  ASSUME RemoteInv
  PROVE  /\ FailedSeen \subseteq FailureSet /\ PaidSeen \subseteq SuccessSet
         /\ SuccessSet \subseteq DOMAIN remote.log /\ FailureSet \subseteq DOMAIN remote.log
         /\ Cardinality(FailedSeen) \in Nat /\ Cardinality(FailedSeen) <= Failures(remote)
         /\ Reached \in Nat /\ Reached <= Successes(remote)
<1>1. /\ FailedSeen \subseteq FailureSet /\ PaidSeen \subseteq SuccessSet
      /\ SuccessSet \subseteq DOMAIN remote.log /\ FailureSet \subseteq DOMAIN remote.log
  BY DEF FailedSeen, FailureSet, PaidSeen, SuccessSet, Seen
<1>2. /\ Cardinality(FailedSeen) \in Nat
      /\ Cardinality(FailedSeen) <= Cardinality(FailureSet)
  BY <1>1, CountGrows
<1>3. /\ Cardinality(PaidSeen) \in Nat /\ Cardinality(SuccessSet) \in Nat
      /\ Cardinality(PaidSeen) <= Cardinality(SuccessSet)
  BY <1>1, CountGrows
<1> QED
  BY <1>1, <1>2, <1>3, LogCounts DEF Reached

\* Log and ledger grow, and with them what is covered.
LEMMA CoverGrows ==
  ASSUME RemoteInv, RemoteInv', Grows, charges \subseteq charges'
  PROVE  /\ FailedSeen \subseteq FailedSeen' /\ PaidSeen \subseteq PaidSeen'
         /\ Cardinality(FailedSeen) <= Cardinality(FailedSeen')
         /\ Cardinality(FailedSeen') \in Nat
         /\ Reached <= Reached' /\ Reached' \in Nat
         /\ LogNumbered' => LogNumbered
<1>1. /\ DOMAIN remote.log = 1..Len(remote.log) /\ Len(remote.log) \in Nat
      /\ DOMAIN remote'.log = 1..Len(remote'.log) /\ Len(remote'.log) \in Nat
  BY DEF RemoteInv, Remotes
<1>2. /\ DOMAIN remote.log \subseteq DOMAIN remote'.log
      /\ \A p \in DOMAIN remote.log : remote'.log[p] = remote.log[p]
  BY <1>1 DEF Grows
<1>3. FailedSeen \subseteq FailedSeen' /\ PaidSeen \subseteq PaidSeen'
  BY <1>2 DEF FailedSeen, PaidSeen, Seen
<1>4. SuccessSet \subseteq SuccessSet'
  BY <1>2 DEF SuccessSet
<1>5. ASSUME NEW S, NEW T, S \subseteq T, T \subseteq DOMAIN remote'.log
      PROVE  Cardinality(S) <= Cardinality(T) /\ Cardinality(T) \in Nat
  <2>1. IsFiniteSet(DOMAIN remote'.log)
    BY <1>1, FS_Interval, 0 \in Int
  <2> QED
    BY <1>5, <2>1, FS_Subset, FS_CardinalityType
<1>6. FailedSeen' \subseteq DOMAIN remote'.log /\ PaidSeen' \subseteq DOMAIN remote'.log
      /\ SuccessSet' \subseteq DOMAIN remote'.log
  BY DEF FailedSeen, PaidSeen, Seen, SuccessSet
<1>7. /\ Cardinality(FailedSeen) <= Cardinality(FailedSeen')
      /\ Cardinality(PaidSeen) <= Cardinality(PaidSeen')
      /\ Cardinality(SuccessSet) <= Cardinality(SuccessSet')
      /\ Cardinality(FailedSeen') \in Nat /\ Cardinality(PaidSeen') \in Nat
      /\ Cardinality(SuccessSet') \in Nat
  BY <1>3, <1>4, <1>5, <1>6
<1>8. /\ Successes(remote) = Cardinality(SuccessSet)
      /\ Successes(remote)' = Cardinality(SuccessSet')
  <2>1. {i \in DOMAIN remote'.log : i <= Len(remote'.log) /\ remote'.log[i]} = SuccessSet'
    BY <1>1 DEF SuccessSet
  <2> QED
    BY <2>1, LogCounts DEF Successes, SuccessesUpTo
<1>9. Reached <= Reached' /\ Reached' \in Nat
  BY <1>7, <1>8 DEF Reached
<1> QED
  BY <1>2, <1>3, <1>7, <1>9 DEF LogNumbered

-----------------------------------------------------------------------------
(* What every step leaves so *)

\* A step that moves on leaves the log and the ledger no smaller.
LEMMA StepGrows ==
  ASSUME LedgerInv, [Next]_vars
  PROVE  LedgerInv' /\ RemoteInv /\ RemoteInv' /\ Grows /\ charges \subseteq charges'
<1>1. charges \subseteq charges'
  BY DEF Next, vars, RemoteCharge, RemoteStop, CallFails,
         Handle, BeginFirst, ApplyFirst, DuplicateFirst, BeginPeriod, IgnorePeriod,
         StagePeriod, BookPeriod, DuplicatePeriod,
         Operate, BeginRecovery, ApplyRecovery, BeginCancel, RemoteCancel, SaveCancel,
         BeginSync, RemoteReply, SelectCharges, SaveSync, SyncCollides
<1> QED
  BY <1>1, LedgerNext, LogGrows DEF LedgerInv, Grows

\* A plan begins with a successful charge.
LEMMA FirstStaysPaid ==
  ASSUME LedgerInv, [Next]_vars, FirstIsPaid
  PROVE  FirstIsPaid'
<1>1. /\ Len(remote.log) \in Nat /\ Len(remote'.log) \in Nat
      /\ remote.log \in Seq(BOOLEAN) /\ remote'.log \in Seq(BOOLEAN)
  BY StepGrows DEF RemoteInv, Remotes
<1>2. CASE remote.log # << >>
  <2>1. 1 \in 1..Len(remote.log)
    BY <1>1, <1>2
  <2> QED
    BY <1>2, <2>1, StepGrows DEF Grows, FirstIsPaid
<1>3. ASSUME remote.log = << >>, NEW ok \in BOOLEAN, RemoteCharge(ok)
      PROVE  FirstIsPaid'
  <2>1. ok /\ remote'.log = Append(remote.log, ok)
    BY <1>3 DEF RemoteCharge, LedgerInv, RemoteInv
  <2> QED
    BY <1>3, <2>1 DEF FirstIsPaid
<1>4. ASSUME remote.log = << >>, \A ok \in BOOLEAN : ~RemoteCharge(ok)
      PROVE  remote'.log = remote.log
  <2>1. remote.status = "none"
    BY <1>4 DEF LedgerInv, RemoteInv
  <2> QED
    BY <1>4, <2>1
    DEF Next, vars, RemoteStop, CallFails,
        Handle, BeginFirst, ApplyFirst, DuplicateFirst, BeginPeriod, IgnorePeriod,
        StagePeriod, BookPeriod, DuplicatePeriod,
        Operate, BeginRecovery, ApplyRecovery, BeginCancel, RemoteCancel, SaveCancel,
        BeginSync, RemoteReply, SelectCharges, SaveSync, SyncCollides
<1> QED
  BY <1>2, <1>3, <1>4 DEF FirstIsPaid

\* The three steps in which a session comes to a decision on a plan's counters.
LEMMA DecisionsAreMade ==
  ASSUME LedgerInv, [Next]_vars, NEW s \in Sessions, job'[s] # job[s],
         job'[s].call \in {"first", "book", "save"}
  PROVE  \/ s \in Handlers /\ (BeginFirst(s) \/ StagePeriod(s))
         \/ s \in Operators /\ SelectCharges(s)
<1>1. job \in [Sessions -> Jobs]
  BY DEF LedgerInv, TypeOK
<1>2. ASSUME NEW r \in Sessions, NEW next, Continue(r, next),
             next.call \notin {"first", "book", "save"}
      PROVE  FALSE
  BY <1>1, <1>2 DEF Continue
<1>3. ASSUME NEW r \in Sessions, Return(r)
      PROVE  FALSE
  <2>1. Continue(r, Idle) /\ Idle.call \notin {"first", "book", "save"}
    BY <1>3 DEF Return, Continue, Idle
  <2> QED
    BY <1>2, <2>1
<1>4. ASSUME NEW h \in Handlers, Handle(h)
      PROVE  BeginFirst(h) \/ StagePeriod(h)
  BY <1>2, <1>3, <1>4
  DEF Handle, ApplyFirst, DuplicateFirst, BeginPeriod, IgnorePeriod, BookPeriod,
      DuplicatePeriod, Sessions
<1>5. ASSUME NEW t \in Operators, Operate(t)
      PROVE  SelectCharges(t)
  BY <1>2, <1>3, <1>5
  DEF Operate, BeginRecovery, ApplyRecovery, BeginCancel, RemoteCancel, SaveCancel,
      BeginSync, RemoteReply, SaveSync, SyncCollides, Sessions
<1>6. ASSUME NEW r \in Sessions, r # s, BeginFirst(r) \/ StagePeriod(r) \/ SelectCharges(r)
      PROVE  FALSE
  BY <1>1, <1>6 DEF BeginFirst, StagePeriod, SelectCharges, Continue
<1> QED
  BY <1>3, <1>4, <1>5, <1>6 DEF Next, RemoteCharge, RemoteStop, CallFails, vars, Sessions

-----------------------------------------------------------------------------
(* The sessions' decisions *)

\* What a handler stages for a period it looks up.
LEMMA WhatIsStaged ==
  ASSUME LedgerInv, NEW s \in Handlers, StagePeriod(s)
  PROVE  \E p \in Periods :
           LET total == TotalTimes(p)
               assigned == ApplyRecurringTransition(plan, remote.log[p], total)
           IN  /\ p \in 2..Len(remote.log)
               /\ job'[s] = [call |-> "book", period |-> p, read |-> plan,
                             assigned |-> assigned, row |-> NotifiedCharge(p)]
               /\ UNCHANGED <<remote, plan, charges, applied>>
<1>1. s \in Sessions /\ job \in [Sessions -> Jobs]
  BY DEF Sessions, LedgerInv, TypeOK
<1>2. PICK p \in Periods :
        /\ LookingUp(s, p)
        /\ Continue(s, [call |-> "book", period |-> p, read |-> plan,
                        assigned |-> ApplyRecurringTransition(
                                       plan, remote.log[p], TotalTimes(p)),
                        row |-> NotifiedCharge(p)])
        /\ UNCHANGED <<remote, paid, plan, charges, applied>>
  BY DEF StagePeriod
<1>3. p \in 2..Len(remote.log)
  BY <1>1, <1>2 DEF LookingUp, LedgerInv, Carried
<1>4. job'[s] = [call |-> "book", period |-> p, read |-> plan,
                 assigned |-> ApplyRecurringTransition(
                                plan, remote.log[p], TotalTimes(p)),
                 row |-> NotifiedCharge(p)]
  BY <1>1, <1>2 DEF Continue
<1> QED
  BY <1>2, <1>3, <1>4

\* A decision follows from the plan as it was read.
LEMMA DecisionsFollow ==
  ASSUME LedgerInv, [Next]_vars, NEW s \in Sessions, Staged(s)
  PROVE  Staged(s)'
<1>1. /\ DOMAIN remote.log = 1..Len(remote.log) /\ Len(remote.log) \in Nat
      /\ Len(remote'.log) \in Nat
      /\ remote.log \in Seq(BOOLEAN) /\ remote'.log \in Seq(BOOLEAN)
  BY StepGrows DEF RemoteInv, Remotes
<1>2. CASE job'[s] = job[s]
  <2>1. remote.log # << >> => remote'.log # << >>
    BY <1>1, StepGrows DEF Grows
  <2>2. job[s].call = "book" => remote'.log[job[s].period] = remote.log[job[s].period]
    BY <1>1, StepGrows DEF Grows, LedgerInv, Carried
  <2> QED
    BY <1>2, <2>1, <2>2 DEF Staged, Guessed
<1>3. CASE job'[s].call \notin {"first", "book", "save"}
  BY <1>3 DEF Staged
<1>4. CASE s \in Handlers /\ BeginFirst(s)
  <2>1. job'[s] = [call |-> "first"] /\ remote'.log # << >>
    BY <1>4 DEF BeginFirst, Continue, LedgerInv, TypeOK
  <2> QED
    BY <2>1 DEF Staged
<1>5. CASE s \in Handlers /\ StagePeriod(s)
  <2>1. PICK p \in Periods :
          /\ p \in 2..Len(remote.log)
          /\ job'[s] = [call |-> "book", period |-> p, read |-> plan,
                        assigned |-> ApplyRecurringTransition(
                                       plan, remote.log[p], TotalTimes(p)),
                        row |-> NotifiedCharge(p)]
          /\ UNCHANGED <<remote, plan, charges, applied>>
    BY <1>5, WhatIsStaged
  <2> DEFINE total == TotalTimes(p)
             assigned == ApplyRecurringTransition(plan, remote.log[p], total)
  <2>2. /\ remote.log[p] \in BOOLEAN /\ plan.success \in Nat
        /\ total \in Nat
    BY <2>1, NotifiedType DEF LedgerInv, TypeOK, Plans
  <2>3. /\ assigned.failures = IF remote.log[p] THEN plan.failures ELSE plan.failures + 1
        /\ assigned.success = IF remote.log[p] THEN Larger(plan.success, total)
                              ELSE plan.success
        /\ assigned.status = RecurringTarget(remote.log[p], total)
    BY DEF ApplyRecurringTransition
  <2>4. Guessed => total = IF remote.log[p] THEN plan.success + 1 ELSE plan.success
    BY <2>1 DEF Guessed, TotalTimes
  <2>5. Guessed => /\ assigned.success = IF remote.log[p] THEN plan.success + 1
                                         ELSE plan.success
                   /\ assigned.status = RecurringTarget(remote.log[p], assigned.success)
    <3> HIDE DEF total, assigned
    <3> QED
      BY <2>2, <2>3, <2>4 DEF Larger
  <2>6. /\ job'[s].call = "book" /\ job'[s].period = p /\ job'[s].read = plan
        /\ job'[s].assigned = assigned /\ remote' = remote
    BY <2>1
  <2> HIDE DEF total, assigned
  <2> QED
    BY <2>3, <2>5, <2>6 DEF Staged, Guessed
<1>6. CASE s \in Operators /\ SelectCharges(s)
  <2>1. job'[s].call = "save"
    BY <1>6 DEF SelectCharges, Continue, LedgerInv, TypeOK
  <2> QED
    BY <2>1 DEF Staged
<1> QED
  BY <1>2, <1>3, <1>4, <1>5, <1>6, DecisionsAreMade

\* Every notification has a count, or none has.
OneKind == Periods \subseteq Counted \/ Guessed

\* What a decision rests on is covered: it was when it was read, and the log
\* and the ledger have only grown since.
LEMMA DecisionsAreBacked ==
  ASSUME OneKind, LedgerInv, [Next]_vars, NEW s \in Sessions,
         LogNumbered', Covered, Backed(s)
  PROVE  Backed(s)'
<1>1. /\ Cardinality(FailedSeen) <= Cardinality(FailedSeen') /\ Reached <= Reached'
      /\ LogNumbered
  BY StepGrows, CoverGrows
<1>2. /\ Cardinality(FailedSeen) \in Nat /\ Reached \in Nat
  BY StepGrows, SeenInLog
<1>3. /\ Cardinality(FailedSeen') \in Nat /\ Reached' \in Nat
  BY StepGrows, CoverGrows
<1>4. CASE job'[s] = job[s]
  <2>1. job[s].call = "book" => /\ job[s].read.failures \in Nat
                                /\ job[s].read.success \in Nat
                                /\ job[s].assigned.success \in Nat
    BY JobFields DEF LedgerInv, Plans
  <2>2. charges \subseteq charges'
    BY StepGrows
  <2> QED
    BY <1>1, <1>2, <1>3, <1>4, <2>1, <2>2 DEF Backed, Guessed
<1>5. CASE job'[s].call \notin {"first", "book", "save"}
  BY <1>5 DEF Backed
<1>6. CASE s \in Handlers /\ BeginFirst(s)
  <2>1. job'[s] = [call |-> "first"]
    BY <1>6 DEF BeginFirst, Continue, LedgerInv, TypeOK
  <2> QED
    BY <2>1 DEF Backed
<1>7. CASE s \in Handlers /\ StagePeriod(s)
  <2>1. PICK p \in Periods :
          /\ p \in 2..Len(remote.log)
          /\ job'[s] = [call |-> "book", period |-> p, read |-> plan,
                        assigned |-> ApplyRecurringTransition(
                                       plan, remote.log[p], TotalTimes(p)),
                        row |-> NotifiedCharge(p)]
          /\ UNCHANGED <<remote, plan, charges, applied>>
    BY <1>7, WhatIsStaged
  <2> DEFINE assigned == ApplyRecurringTransition(plan, remote.log[p], TotalTimes(p))
  <2>2. /\ job'[s].call = "book" /\ job'[s].read = plan /\ job'[s].assigned = assigned
        /\ FailedSeen' = FailedSeen /\ Reached' = Reached /\ Guessed' = Guessed
    BY <2>1 DEF FailedSeen, Reached, PaidSeen, Seen, Successes, SuccessesUpTo, Guessed
  <2>3. ~Guessed => assigned.success <= Reached
    <3>1. SUFFICES ASSUME ~Guessed
                   PROVE  assigned.success <= Reached
      OBVIOUS
    <3>2. p \in Counted
      BY <3>1 DEF OneKind
    <3>3. TotalTimes(p) = SuccessesUpTo(remote, p)
      BY <3>2 DEF TotalTimes
    <3>4. /\ SuccessesUpTo(remote, p) = Cardinality({i \in SuccessSet : i <= p})
          /\ SuccessSet \subseteq DOMAIN remote.log
      <4>1. {i \in DOMAIN remote.log : i <= p /\ remote.log[i]} = {i \in SuccessSet : i <= p}
        BY DEF SuccessSet
      <4> QED
        BY <4>1 DEF SuccessesUpTo, SuccessSet
    <3>5. TotalTimes(p) <= Successes(remote) /\ TotalTimes(p) \in Nat
      BY <3>3, <3>4, StepGrows, CountGrows, LogCounts
    <3>6. assigned.success \in {plan.success, TotalTimes(p)}
      BY DEF ApplyRecurringTransition, Larger
    <3> QED
      BY <3>1, <3>5, <3>6 DEF Covered, Reached
  <2> HIDE DEF assigned
  <2> QED
    BY <2>2, <2>3 DEF Backed, Covered
<1>8. CASE s \in Operators /\ SelectCharges(s)
  <2> DEFINE missing == MissingCharges(job[s].reply, charges)
  <2>1. /\ job[s].call = "synced" /\ job'[s].call = "save"
        /\ job'[s].reply = job[s].reply /\ job'[s].missing = missing
        /\ charges' = charges
    BY <1>8 DEF SelectCharges, Continue, LedgerInv, TypeOK
  <2>2. ASSUME NEW p \in DOMAIN job[s].reply.log \ {1}
        PROVE  \E c \in charges \cup missing : c.period = p
    <3>1. /\ DOMAIN job[s].reply.log = 1..Len(job[s].reply.log)
          /\ Len(job[s].reply.log) \in Nat
          /\ Len(job[s].reply.log) <= Len(remote.log)
      BY <2>1, JobFields DEF LedgerInv, Carried, Remotes
    <3>2. p \in Logged
      BY <1>1, <2>2, <3>1, StepGrows, LogFinite DEF LogNumbered
    <3>3. CASE <<p>> \in TradesOf(charges)
      <4>1. PICK c \in charges : c.trade = <<p>>
        BY <3>3 DEF TradesOf
      <4>2. c.period \in Numbered
        BY <1>1, <4>1, StepGrows, LogFinite, NumberedAssumption
        DEF LedgerInv, Booked, LogNumbered
      <4>3. c.trade = <<c.period>>
        BY <4>1, <4>2 DEF LedgerInv, Booked
      <4> QED
        BY <4>1, <4>3
    <3>4. CASE <<p>> \notin TradesOf(charges)
      <4> DEFINE c == [trade |-> <<p>>, period |-> p, ok |-> job[s].reply.log[p],
                       recovered |-> TRUE]
      <4>1. c \in missing /\ c.period = p
        BY <2>2, <3>2, <3>4 DEF MissingCharges
      <4> QED
        BY <4>1
    <3> QED
      BY <3>3, <3>4
  <2> HIDE DEF missing
  <2> QED
    BY <2>1, <2>2 DEF Backed
<1> QED
  BY <1>4, <1>5, <1>6, <1>7, <1>8, DecisionsAreMade

-----------------------------------------------------------------------------
(* The plan *)

\* The first payment counts as soon as the log has it.
LEMMA FirstCounts ==
  ASSUME RemoteInv, FirstIsPaid, remote.log # << >>
  PROVE  1 <= Reached
<1>1. 1 \in DOMAIN remote.log /\ remote.log[1]
  BY LogFinite DEF FirstIsPaid
<1>2. {1} \subseteq PaidSeen /\ {1} \subseteq SuccessSet
  BY <1>1 DEF PaidSeen, SuccessSet
<1>3. Cardinality({1}) = 1
  BY FS_Singleton
<1>4. 1 <= Cardinality(PaidSeen) /\ 1 <= Cardinality(SuccessSet)
  <2>1. PaidSeen \subseteq DOMAIN remote.log /\ SuccessSet \subseteq DOMAIN remote.log
    BY DEF PaidSeen, SuccessSet
  <2> QED
    BY <1>2, <1>3, <2>1, CountGrows
<1> QED
  BY <1>4, LogCounts DEF Reached

\* A stored counter is the one a session assigned or the one it had.
LEMMA CountersWritten ==
  ASSUME NEW read, NEW assigned, plan' = WriteBack(read, assigned)
  PROVE  /\ plan'.success = IF assigned.success # read.success
                            THEN assigned.success ELSE plan.success
         /\ plan'.failures = IF assigned.failures # read.failures
                             THEN assigned.failures ELSE plan.failures
BY DEF WriteBack

\* A period that is booked is one more than was covered when it was read.
LEMMA BookingIsCovered ==
  ASSUME LedgerInv, [Next]_vars, NEW h \in Handlers, BookPeriod(h),
         LogNumbered, Covered, Staged(h), Backed(h)
  PROVE  Covered'
<1> DEFINE p == job[h].period
           ok == remote.log[p]
<1>1. /\ job[h].call = "book" /\ h \in Sessions /\ UNCHANGED remote
      /\ charges' = charges \cup {job[h].row}
      /\ NumberOf(p) \notin applied /\ job[h].row.trade \notin TradesOf(charges)
      /\ plan' = WriteBack(job[h].read, job[h].assigned)
  BY DEF BookPeriod, Bookable, Sessions
<1>2. /\ p \in 2..Len(remote.log) /\ job[h].row.period = p
      /\ p \in Numbered => job[h].row.trade = <<p>>
  BY <1>1 DEF LedgerInv, Carried
<1>3. /\ DOMAIN remote.log = 1..Len(remote.log) /\ Len(remote.log) \in Nat
      /\ p \in DOMAIN remote.log /\ p # 1 /\ p \in Numbered /\ ok \in BOOLEAN
  <2>1. /\ DOMAIN remote.log = 1..Len(remote.log) /\ Len(remote.log) \in Nat
        /\ remote.log \in Seq(BOOLEAN)
    BY LogFinite DEF LedgerInv
  <2>2. p \in DOMAIN remote.log /\ p # 1
    BY <1>2, <2>1
  <2> QED
    BY <2>1, <2>2 DEF LogNumbered
<1>4. p \notin Seen
  <2>1. ASSUME NEW c \in charges, c.period = p
        PROVE  FALSE
    BY <1>1, <1>2, <1>3, <2>1 DEF LedgerInv, Booked, TradesOf
  <2> QED
    BY <2>1 DEF Seen
<1>5. Seen' = Seen \cup {p}
  BY <1>1, <1>2, <1>3 DEF Seen
<1>6. /\ FailedSeen' = IF ok THEN FailedSeen ELSE FailedSeen \cup {p}
      /\ PaidSeen' = IF ok THEN PaidSeen \cup {p} ELSE PaidSeen
      /\ p \notin FailedSeen /\ p \notin PaidSeen
  BY <1>1, <1>3, <1>4, <1>5 DEF FailedSeen, PaidSeen
<1>7. /\ Cardinality(FailedSeen') = IF ok THEN Cardinality(FailedSeen)
                                    ELSE Cardinality(FailedSeen) + 1
      /\ Cardinality(PaidSeen') = IF ok THEN Cardinality(PaidSeen) + 1
                                  ELSE Cardinality(PaidSeen)
      /\ Cardinality(FailedSeen) \in Nat /\ Cardinality(PaidSeen) \in Nat
  <2>1. IsFiniteSet(FailedSeen) /\ IsFiniteSet(PaidSeen)
    <3>1. FailedSeen \subseteq DOMAIN remote.log /\ PaidSeen \subseteq DOMAIN remote.log
      BY DEF FailedSeen, PaidSeen, Seen
    <3> QED
      BY <3>1, LogFinite, FS_Subset DEF LedgerInv
  <2> QED
    BY <1>6, <2>1, FS_AddElement, FS_CardinalityType
<1>8. /\ job[h].read.failures \in Nat /\ job[h].read.success \in Nat
      /\ job[h].assigned.success \in Nat /\ plan.success \in Nat /\ plan.failures \in Nat
  BY <1>1, JobFields DEF LedgerInv, TypeOK, Plans
<1>9. plan'.failures <= Cardinality(FailedSeen')
  <2>1. /\ job[h].assigned.failures = IF ok THEN job[h].read.failures
                                      ELSE job[h].read.failures + 1
        /\ job[h].read.failures <= Cardinality(FailedSeen)
        /\ plan.failures <= Cardinality(FailedSeen)
    BY <1>1 DEF Staged, Backed, Covered
  <2>2. plan'.failures = IF job[h].assigned.failures # job[h].read.failures
                         THEN job[h].assigned.failures ELSE plan.failures
    BY <1>1, CountersWritten
  <2> QED
    BY <1>3, <1>7, <1>8, <2>1, <2>2
<1>10. plan'.success \in {plan.success, job[h].assigned.success}
  BY <1>1, CountersWritten
<1>11. CASE Guessed
  <2>1. /\ job[h].assigned.success = IF ok THEN job[h].read.success + 1
                                     ELSE job[h].read.success
        /\ job[h].read.success <= Cardinality(PaidSeen)
        /\ plan.success <= Cardinality(PaidSeen)
    BY <1>1, <1>11 DEF Staged, Backed, Covered, Reached
  <2>2. plan'.success <= Cardinality(PaidSeen')
    BY <1>3, <1>7, <1>8, <1>10, <2>1
  <2> QED
    BY <1>9, <1>11, <2>2 DEF Covered, Reached, Guessed
<1>12. CASE ~Guessed
  <2>1. plan.success <= Successes(remote) /\ job[h].assigned.success <= Successes(remote)
    BY <1>1, <1>12 DEF Backed, Covered, Reached
  <2>2. Successes(remote)' = Successes(remote)
    BY <1>1 DEF Successes, SuccessesUpTo
  <2>3. plan'.success <= Successes(remote)'
    BY <1>10, <2>1, <2>2
  <2> QED
    BY <1>9, <1>12, <2>3 DEF Covered, Reached, Guessed
<1> QED
  BY <1>11, <1>12

\* A synchronisation books every later period it counts.
LEMMA SyncIsCovered ==
  ASSUME LedgerInv, [Next]_vars, NEW t \in Operators, SaveSync(t),
         LogNumbered', FirstIsPaid, Covered, Backed(t)
  PROVE  Covered'
<1> DEFINE reply == job[t].reply
           counted == Synchronized(reply)
<1>1. /\ job[t].call = "save" /\ t \in Sessions /\ UNCHANGED remote
      /\ charges' = charges \cup job[t].missing
      /\ plan' = WriteBack(job[t].read, counted)
  BY DEF SaveSync, Sessions
<1>2. /\ reply \in Remotes /\ DOMAIN reply.log = 1..Len(reply.log)
      /\ Len(reply.log) \in Nat /\ Len(reply.log) <= Len(remote.log)
      /\ \A q \in 1..Len(reply.log) : reply.log[q] = remote.log[q]
      /\ DOMAIN remote.log = 1..Len(remote.log) /\ Len(remote.log) \in Nat
  BY <1>1, JobFields, LogFinite DEF LedgerInv, Carried, Remotes
<1>3. DOMAIN reply.log \ {1} \subseteq Seen' /\ DOMAIN reply.log \subseteq DOMAIN remote.log
  <2>1. DOMAIN reply.log \subseteq DOMAIN remote.log
    BY <1>2
  <2>2. \A q \in DOMAIN reply.log \ {1} : \E c \in charges' : c.period = q
    BY <1>1 DEF Backed
  <2> QED
    BY <1>1, <2>1, <2>2 DEF Seen
<1> DEFINE Failed == {i \in DOMAIN reply.log : ~reply.log[i]}
           Paid == {i \in DOMAIN reply.log : reply.log[i]}
<1>4. /\ Failed \subseteq FailedSeen' /\ Paid \subseteq PaidSeen'
      /\ Paid \subseteq SuccessSet'
  <2>1. \A i \in DOMAIN reply.log : /\ reply.log[i] = remote'.log[i]
                                    /\ i # 1 => i \in Seen'
                                    /\ i \in DOMAIN remote'.log
    BY <1>1, <1>2, <1>3
  <2>2. 1 \in DOMAIN reply.log => reply.log[1]
    BY <1>2 DEF FirstIsPaid
  <2> QED
    BY <2>1, <2>2 DEF FailedSeen, PaidSeen, SuccessSet
<1>5. Successes(reply) = Cardinality(Paid) /\ Failures(reply) = Cardinality(Failed)
  <2>1. {i \in DOMAIN reply.log : i <= Len(reply.log) /\ reply.log[i]} = Paid
    BY <1>2
  <2> QED
    BY <2>1 DEF Successes, SuccessesUpTo, Failures
<1>6. /\ Cardinality(Failed) <= Cardinality(FailedSeen')
      /\ Cardinality(Paid) <= Cardinality(PaidSeen')
      /\ Cardinality(Paid) <= Cardinality(SuccessSet')
  <2>1. /\ FailedSeen' \subseteq DOMAIN remote.log /\ PaidSeen' \subseteq DOMAIN remote.log
        /\ SuccessSet' \subseteq DOMAIN remote.log
    BY <1>1 DEF FailedSeen, PaidSeen, SuccessSet, Seen
  <2>2. RemoteInv
    BY DEF LedgerInv
  <2> QED
    BY <1>4, <2>1, <2>2, CountGrows
<1>7. Successes(remote)' = Cardinality(SuccessSet')
  <2>1. SuccessSet' = SuccessSet /\ Successes(remote)' = Successes(remote)
    BY <1>1 DEF SuccessSet, Successes, SuccessesUpTo
  <2> QED
    BY <2>1, LogCounts DEF LedgerInv
<1>8. counted.success <= Reached' /\ counted.failures <= Cardinality(FailedSeen')
  BY <1>5, <1>6, <1>7 DEF Synchronized, Reached
<1>9. plan'.success \in {plan.success, counted.success}
      /\ plan'.failures \in {plan.failures, counted.failures}
  BY <1>1, CountersWritten
<1>10. /\ Cardinality(FailedSeen) <= Cardinality(FailedSeen') /\ Reached <= Reached'
       /\ Cardinality(FailedSeen') \in Nat /\ Reached' \in Nat /\ LogNumbered
  BY StepGrows, CoverGrows
<1>11. /\ Cardinality(FailedSeen) \in Nat /\ Reached \in Nat
       /\ plan.success \in Nat /\ plan.failures \in Nat
  BY StepGrows, SeenInLog DEF LedgerInv, TypeOK, Plans
<1>12. plan.success <= Reached' /\ plan.failures <= Cardinality(FailedSeen')
  BY <1>10, <1>11 DEF Covered
<1> HIDE DEF counted
<1> QED
  BY <1>8, <1>9, <1>12 DEF Covered

\* Counters that are not written stay covered, and so does the first payment.
LEMMA CoverStays ==
  ASSUME LedgerInv, [Next]_vars, LogNumbered', Covered,
         plan'.failures = plan.failures,
         plan'.success # plan.success => plan'.success = 1 /\ 1 <= Reached'
  PROVE  Covered'
<1>1. /\ Cardinality(FailedSeen) <= Cardinality(FailedSeen') /\ Reached <= Reached'
      /\ Cardinality(FailedSeen') \in Nat /\ Reached' \in Nat /\ LogNumbered
  BY StepGrows, CoverGrows
<1>2. /\ Cardinality(FailedSeen) \in Nat /\ Reached \in Nat
      /\ plan.success \in Nat /\ plan.failures \in Nat
  BY StepGrows, SeenInLog DEF LedgerInv, TypeOK, Plans
<1> QED
  BY <1>1, <1>2 DEF Covered

\* Every step leaves the counters covered by what is booked.
LEMMA CountersStayCovered ==
  ASSUME LedgerInv, [Next]_vars, CounterInv, LogNumbered'
  PROVE  Covered'
<1>1. LogNumbered
  BY StepGrows, CoverGrows
<1>2. FirstIsPaid /\ Covered /\ \A s \in Sessions : Staged(s) /\ Backed(s)
  BY <1>1 DEF CounterInv
<1>3. plan.success \in Nat /\ plan \in Plans
  BY DEF LedgerInv, TypeOK, Plans
<1>4. ASSUME remote.log # << >>
      PROVE  1 <= Reached'
  <2>1. 1 <= Reached /\ Reached \in Nat
    BY <1>2, <1>4, FirstCounts, StepGrows, SeenInLog
  <2> QED
    BY <2>1, StepGrows, CoverGrows
<1>5. ASSUME remote.log # << >>, plan' = FirstPayment(plan)
      PROVE  Covered'
  <2>1. plan'.success = Larger(plan.success, 1) /\ plan'.failures = plan.failures
    BY <1>3, <1>5 DEF FirstPayment, Plans
  <2> QED
    BY <1>2, <1>4, <1>5, <2>1, CoverStays DEF Larger
<1>6. ASSUME plan' = plan
      PROVE  Covered'
  BY <1>2, <1>6, CoverStays
<1>7. ASSUME NEW h \in Handlers, ApplyFirst(h)
      PROVE  Covered'
  BY <1>2, <1>5, <1>7 DEF ApplyFirst, Staged, Sessions
<1>8. ASSUME NEW h \in Handlers, BookPeriod(h)
      PROVE  Covered'
  BY <1>1, <1>2, <1>8, BookingIsCovered DEF Sessions
<1>9. ASSUME NEW h \in Handlers, Handle(h), ~ApplyFirst(h), ~BookPeriod(h)
      PROVE  plan' = plan
  BY <1>9
  DEF Handle, BeginFirst, DuplicateFirst, BeginPeriod, IgnorePeriod, StagePeriod,
      DuplicatePeriod
<1>10. ASSUME NEW t \in Operators, ApplyRecovery(t)
       PROVE  Covered'
  BY <1>5, <1>6, <1>10 DEF ApplyRecovery
<1>11. ASSUME NEW t \in Operators, SaveCancel(t)
       PROVE  Covered'
  <2>1. job[t].read \in Plans
    BY <1>11, JobFields DEF SaveCancel, Sessions, LedgerInv
  <2> DEFINE assigned == [job[t].read EXCEPT !.status = "CANCELED"]
  <2>2. /\ assigned.success = job[t].read.success
        /\ assigned.failures = job[t].read.failures
    BY <2>1 DEF Plans
  <2>3. plan' = WriteBack(job[t].read, assigned)
    BY <1>11 DEF SaveCancel
  <2> HIDE DEF assigned
  <2>4. plan'.success = plan.success /\ plan'.failures = plan.failures
    BY <2>2, <2>3, CountersWritten
  <2> QED
    BY <1>2, <2>4, CoverStays
<1>12. ASSUME NEW t \in Operators, SaveSync(t)
       PROVE  Covered'
  BY <1>2, <1>12, SyncIsCovered DEF Sessions
<1>13. ASSUME NEW t \in Operators, Operate(t), ~ApplyRecovery(t), ~SaveCancel(t),
              ~SaveSync(t)
       PROVE  plan' = plan
  BY <1>13
  DEF Operate, BeginRecovery, BeginCancel, RemoteCancel, BeginSync, RemoteReply,
      SelectCharges, SyncCollides
<1> QED
  BY <1>6, <1>7, <1>8, <1>9, <1>10, <1>11, <1>12, <1>13
  DEF Next, vars, RemoteCharge, RemoteStop, CallFails

\* The invariant of the counters is inductive, whatever numbers are missing.
LEMMA CountersHold ==
  ASSUME OneKind
  PROVE  Spec => []CounterInv
<1>1. Init => CounterInv
  <2> SUFFICES ASSUME Init
               PROVE  CounterInv
    OBVIOUS
  <2>1. remote.log = << >> /\ plan.success = 0 /\ plan.failures = 0
    BY DEF Init
  <2>2. \A s \in Sessions : Staged(s) /\ Backed(s)
    BY DEF Init, Idle, Staged, Backed
  <2>3. RemoteInv
    BY LedgerInit DEF LedgerInv
  <2> QED
    BY <2>1, <2>2, <2>3, SeenInLog DEF CounterInv, FirstIsPaid, Covered
<1>2. LedgerInv /\ CounterInv /\ [Next]_vars => CounterInv'
  <2> SUFFICES ASSUME LedgerInv, CounterInv, [Next]_vars
               PROVE  CounterInv'
    OBVIOUS
  <2>1. FirstIsPaid' /\ \A s \in Sessions : Staged(s)'
    BY FirstStaysPaid, DecisionsFollow DEF CounterInv
  <2>2. ASSUME LogNumbered'
        PROVE  Covered' /\ \A s \in Sessions : Backed(s)'
    <3>1. LogNumbered
      BY <2>2, StepGrows, CoverGrows
    <3> QED
      BY <2>2, <3>1, CountersStayCovered, DecisionsAreBacked DEF CounterInv
  <2> QED
    BY <2>1, <2>2 DEF CounterInv
<1> QED
  BY <1>1, <1>2, LedgerHolds, PTL DEF Spec

\* The two counters of a plan never run ahead of ECPay's log, for any number
\* of handlers and operators and whatever stale plans they write back - when
\* every later period has its trade number, in its notification and in ECPay's
\* log, and all notifications have a count or none has.
THEOREM CountersAreNeverAhead ==
  ASSUME 2..ExecTimes \subseteq Numbered \cap Logged,
         Periods \subseteq Counted \/ Periods \cap Counted = {}
  PROVE  Spec => []CountersNeverOverstate
<1>1. OneKind
  BY DEF OneKind, Guessed
<1>2. LedgerInv /\ CounterInv => CountersNeverOverstate
  <2> SUFFICES ASSUME LedgerInv, CounterInv
               PROVE  CountersNeverOverstate
    OBVIOUS
  <2>1. DOMAIN remote.log \ {1} \subseteq 2..ExecTimes
    BY LogFinite, ExecTimesAssumption DEF LedgerInv, RemoteInv
  <2>2. Covered
    BY <2>1 DEF CounterInv, LogNumbered
  <2>3. /\ Cardinality(FailedSeen) \in Nat /\ Cardinality(FailedSeen) <= Failures(remote)
        /\ Reached \in Nat /\ Reached <= Successes(remote)
    BY SeenInLog DEF LedgerInv
  <2>4. /\ plan.success \in Nat /\ plan.failures \in Nat
        /\ Successes(remote) \in Nat /\ Failures(remote) \in Nat
    BY CountLog DEF LedgerInv, TypeOK, Plans, RemoteInv, Successes
  <2> QED
    BY <2>2, <2>3, <2>4 DEF Covered, CountersNeverOverstate
<1> QED
  BY <1>1, <1>2, CountersHold, LedgerHolds, PTL

-----------------------------------------------------------------------------
(* The last period, by a guessed count *)

\* A guess that reaches the number of periods is made at the last of them.
LEMMA GuessIsLast ==
  ASSUME Guessed, 2..(ExecTimes - 1) \subseteq Numbered \cap Logged,
         LedgerInv, CounterInv, [Next]_vars, NEW h \in Handlers, BookPeriod(h),
         job[h].assigned.status = "COMPLETED"
  PROVE  remote.status = "done"
<1>1. /\ DOMAIN remote.log = 1..Len(remote.log) /\ Len(remote.log) \in Nat
      /\ Len(remote.log) <= ExecTimes /\ Numbered \subseteq 1..ExecTimes
  BY LogFinite, NumberedAssumption DEF LedgerInv, RemoteInv
<1>2. SUFFICES Len(remote.log) >= ExecTimes
  BY <1>1, ExecTimesAssumption DEF LedgerInv, RemoteInv
<1>3. CASE ~LogNumbered
  <2>1. PICK p \in DOMAIN remote.log \ {1} : p \notin Numbered \cap Logged
    BY <1>3 DEF LogNumbered
  <2>2. p \notin 2..(ExecTimes - 1) /\ p \in 2..Len(remote.log)
    BY <1>1, <2>1
  <2> QED
    BY <1>1, <2>2, ExecTimesAssumption
<1>4. CASE LogNumbered
  <2>1. /\ h \in Sessions /\ job[h].call = "book" /\ UNCHANGED remote
        /\ plan' = WriteBack(job[h].read, job[h].assigned)
    BY DEF BookPeriod, Sessions
  <2>2. Covered'
    BY <1>4, <2>1, BookingIsCovered DEF CounterInv
  <2>3. /\ job[h].read.success \in Nat /\ job[h].assigned.success \in Nat
    BY <2>1, JobFields DEF LedgerInv, Plans
  <2>4. /\ job[h].assigned.success = job[h].read.success + 1
        /\ job[h].assigned.success >= ExecTimes
    <3> DEFINE ok == remote.log[job[h].period]
    <3>1. /\ job[h].assigned.success = IF ok THEN job[h].read.success + 1
                                       ELSE job[h].read.success
          /\ RecurringTarget(ok, job[h].assigned.success) = "COMPLETED"
      BY <2>1 DEF CounterInv, Staged
    <3> HIDE DEF ok
    <3> QED
      BY <3>1 DEF RecurringTarget
  <2>5. plan'.success = job[h].assigned.success
    BY <2>1, <2>3, <2>4, CountersWritten
  <2>6. plan'.success <= Cardinality(PaidSeen')
    BY <2>2 DEF Covered, Reached, Guessed
  <2>7. Cardinality(PaidSeen') \in Nat /\ Cardinality(PaidSeen') <= Len(remote.log)
    <3>1. PaidSeen' \subseteq DOMAIN remote.log /\ RemoteInv
      BY <2>1 DEF PaidSeen, LedgerInv
    <3> QED
      BY <3>1, CountGrows, LogFinite
  <2> QED
    BY <1>1, <2>3, <2>4, <2>5, <2>6, <2>7, ExecTimesAssumption
<1> QED
  BY <1>3, <1>4

\* Without any count in the notifications a plan is still shown as canceled or
\* completed only once ECPay has stopped it or made its last charge, although
\* the code guesses the count from a plan that may be stale: a stale guess is
\* too low. Only the last period may lack its trade number, and the first
\* period its entry's.
THEOREM GuessedEndsAreReal ==
  ASSUME Periods \cap Counted = {}, 2..(ExecTimes - 1) \subseteq Numbered \cap Logged
  PROVE  Spec => []EndsAreReal
<1> DEFINE Ends == EndsAreReal /\ \A s \in Sessions : TrueEnd(Meant(s))
<1>1. Guessed /\ OneKind
  BY DEF OneKind, Guessed
<1>2. Init => Ends
  BY DEF Init, EndsAreReal, TrueEnd, Meant, Idle
<1>3. LedgerInv /\ CounterInv /\ Ends /\ [Next]_vars => Ends'
  <2> SUFFICES ASSUME LedgerInv, CounterInv, Ends, [Next]_vars
               PROVE  Ends'
    OBVIOUS
  <2>1. TrueEnd(plan.status)
    BY DEF EndsAreReal, TrueEnd
  <2>2. TrueEnd(plan'.status)
    <3>1. ASSUME NEW h \in Handlers, BookPeriod(h)
          PROVE  TrueEnd(job[h].assigned.status)
      <4>1. job[h].call = "book" /\ h \in Sessions
        BY <3>1 DEF BookPeriod, Sessions
      <4>2. job[h].assigned.status # "CANCELED"
        BY <1>1, <4>1 DEF CounterInv, Staged, RecurringTarget
      <4> QED
        BY <1>1, <3>1, <4>2, GuessIsLast DEF TrueEnd
    <3> QED
      BY <2>1, <3>1, PlanWrites DEF Intended, TrueEnd
  <2>3. \A status : TrueEnd(status) =>
          /\ status = "CANCELED" => remote'.status = "stopped"
          /\ status = "COMPLETED" => remote'.status = "done"
    BY EndsStay DEF TrueEnd
  <2>4. EndsAreReal'
    BY <2>2, <2>3 DEF EndsAreReal
  <2> QED
    BY <2>4, MeantIsTrue
<1>4. Ends => EndsAreReal
  OBVIOUS
<1> QED
  BY <1>1, <1>2, <1>3, <1>4, CountersHold, LedgerHolds, PTL DEF Spec
=============================================================================
