----------------------------- MODULE Callbacks -----------------------------
(***************************************************************************)
(* process_notification (services/payments.py) as the callback routes run  *)
(* it (routes/callbacks.py).                                               *)
(*                                                                         *)
(* The routes are `async def` and reach no await once the form is parsed,  *)
(* so one event loop handles one notification at a time. A worker is such  *)
(* an event loop: one per server process on the database file. Between the *)
(* worker's database accesses any other session may commit:                *)
(*   1. the SELECT of the applied row (Receive...),                        *)
(*   2. the SELECT of the order and the decisions on it (LookUp...),       *)
(*   3. the write transaction, from the UPDATE the autoflush sends to      *)
(*      COMMIT, atomic under SQLite's write lock (Commit...).              *)
(* A worker is Idle, [phase |-> "lookup", msg], or                         *)
(* [phase |-> "commit", msg, read] with the order as it was read.          *)
(* The audit row of a notification that changes nothing is inserted in a   *)
(* transaction of its own and depends on nothing: it is part of the step   *)
(* that decides the result.                                                *)
(***************************************************************************)
EXTENDS OrderBook

CONSTANT Workers

VARIABLE worker

Idle == [phase |-> "idle"]

Record(msg, result) ==
  notifications' = notifications \cup {[msg |-> msg, result |-> result]}

Finish(w) == worker' = [worker EXCEPT ![w] = Idle]

CallbacksInit == worker = [w \in Workers |-> Idle]

CallbacksTypeOK ==
  worker \in [Workers -> {Idle} \cup [phase : {"lookup"}, msg : Messages]
                         \cup [phase : {"commit"}, msg : Messages,
                               read : OrderRows]]

-----------------------------------------------------------------------------
(* 1. The signature and the applied row *)

RejectSignature(w, m) ==
  /\ worker[w] = Idle
  /\ ~m.genuine
  /\ Record(Null, "REJECTED_SIGNATURE")
  /\ UNCHANGED <<worker, orders, plans, overdue, history>>

RejectOrderMismatch(w, m) ==
  /\ worker[w] = Idle
  /\ m.genuine /\ Deliverable(m)
  /\ \E r \in AlreadyApplied(m) : r.msg.charge.order # m.charge.order
  /\ Record(m, "UNKNOWN_ORDER")
  /\ UNCHANGED <<worker, orders, plans, overdue, history>>

\* Mutant: an applied trade number is a duplicate whatever the order.
AcknowledgeAnyOrder(w, m) ==
  /\ worker[w] = Idle
  /\ m.genuine /\ Deliverable(m)
  /\ AlreadyApplied(m) # {}
  /\ Record(m, "DUPLICATE")
  /\ UNCHANGED <<worker, orders, plans, overdue, history>>

AcknowledgeDuplicate(w, m) ==
  /\ worker[w] = Idle
  /\ m.genuine /\ Deliverable(m)
  /\ AlreadyApplied(m) # {}
  /\ \A r \in AlreadyApplied(m) : r.msg.charge.order = m.charge.order
  /\ Record(m, "DUPLICATE")
  /\ UNCHANGED <<worker, orders, plans, overdue, history>>

\* Mutant: the signature is not verified.
BeginUnverified(w, m) ==
  /\ worker[w] = Idle
  /\ Deliverable(m)
  /\ AlreadyApplied(m) = {}
  /\ worker' = [worker EXCEPT ![w] = [phase |-> "lookup", msg |-> m]]
  /\ UNCHANGED bookVars

BeginNotification(w, m) ==
  /\ worker[w] = Idle
  /\ m.genuine /\ Deliverable(m)
  /\ AlreadyApplied(m) = {}
  /\ worker' = [worker EXCEPT ![w] = [phase |-> "lookup", msg |-> m]]
  /\ UNCHANGED bookVars

-----------------------------------------------------------------------------
(* 2. The order *)

LookingUp(w, m) ==
  /\ worker[w].phase = "lookup"
  /\ m = worker[w].msg

RejectUnknownOrder(w) ==
  \E m \in Messages :
    /\ LookingUp(w, m)
    /\ m.charge.order \notin Orders
    /\ Record(m, "UNKNOWN_ORDER")
    /\ Finish(w)
    /\ UNCHANGED <<orders, plans, overdue, history>>

RejectAmount(w) ==
  \E m \in Messages :
    /\ LookingUp(w, m)
    /\ m.charge.order \in Orders
    /\ ~m.charge.amountOk
    /\ Record(m, "REJECTED_AMOUNT")
    /\ Finish(w)
    /\ UNCHANGED <<orders, plans, overdue, history>>

Applies(m) == TransitionApplies(orders[m.charge.order].status, Kind(m), Success(m))

\* Mutant: a transition that does not apply is refused like a wrong amount.
RefuseTransition(w) ==
  \E m \in Messages :
    /\ LookingUp(w, m)
    /\ m.charge.order \in Orders
    /\ m.charge.amountOk
    /\ ~Applies(m)
    /\ Record(m, "REJECTED_AMOUNT")
    /\ Finish(w)
    /\ UNCHANGED <<orders, plans, overdue, history>>

IgnoreTransition(w) ==
  \E m \in Messages :
    /\ LookingUp(w, m)
    /\ m.charge.order \in Orders
    /\ m.charge.amountOk
    /\ ~Applies(m)
    /\ Record(m, "IGNORED_TRANSITION")
    /\ Finish(w)
    /\ UNCHANGED <<orders, plans, overdue, history>>

\* Mutant: the amount is not compared with the order's.
StageAnyAmount(w) ==
  \E m \in Messages :
    /\ LookingUp(w, m)
    /\ m.charge.order \in Orders
    /\ Applies(m)
    /\ worker' = [worker EXCEPT ![w] = [phase |-> "commit", msg |-> m,
                                        read |-> orders[m.charge.order]]]
    /\ UNCHANGED bookVars

StageTransition(w) ==
  \E m \in Messages :
    /\ LookingUp(w, m)
    /\ m.charge.order \in Orders
    /\ m.charge.amountOk
    /\ Applies(m)
    /\ worker' = [worker EXCEPT ![w] = [phase |-> "commit", msg |-> m,
                                        read |-> orders[m.charge.order]]]
    /\ UNCHANGED bookVars

-----------------------------------------------------------------------------
(* 3. The write transaction *)

Committing(w, m) ==
  /\ worker[w].phase = "commit"
  /\ m = worker[w].msg

\* The columns the transaction writes over the stored order.
Applied(read, m, stored) ==
  WriteBack(read,
            ApplyOrderTransition(read, Kind(m), Success(m), m.charge.trade),
            stored)

\* Mutant: the plan is left as it is.
ActivateNothing(m) == plans

\* A paid first charge activates the order's plan, if it has one.
PlansActivatedBy(m) ==
  IF m.event = "PAID" /\ plans[m.charge.order] # "NONE"
  THEN [plans EXCEPT ![m.charge.order] = "ACTIVE"]
  ELSE plans

\* Mutant: the APPLIED row is not written with the order.
CommitWithoutRow(w) ==
  \E m \in Messages :
    /\ Committing(w, m)
    /\ AlreadyApplied(m) = {}
    /\ orders' = [orders EXCEPT ![m.charge.order] = Applied(worker[w].read, m, @)]
    /\ plans' = PlansActivatedBy(m)
    /\ Record(m, "IGNORED_TRANSITION")
    /\ Finish(w)
    /\ UNCHANGED <<overdue, history>>

\* Mutant: no unique index on the APPLIED rows.
CommitWithoutIndex(w) ==
  \E m \in Messages :
    /\ Committing(w, m)
    /\ orders' = [orders EXCEPT ![m.charge.order] = Applied(worker[w].read, m, @)]
    /\ plans' = PlansActivatedBy(m)
    /\ Record(m, "APPLIED")
    /\ Finish(w)
    /\ UNCHANGED <<overdue, history>>

ApplyNotification(w) ==
  \E m \in Messages :
    /\ Committing(w, m)
    /\ AlreadyApplied(m) = {}
    /\ orders' = [orders EXCEPT ![m.charge.order] = Applied(worker[w].read, m, @)]
    /\ plans' = PlansActivatedBy(m)
    /\ Record(m, "APPLIED")
    /\ Finish(w)
    /\ UNCHANGED <<overdue, history>>

\* The INSERT meets the unique index: IntegrityError, rollback, DUPLICATE.
DuplicateOnCommit(w) ==
  \E m \in Messages :
    /\ Committing(w, m)
    /\ AlreadyApplied(m) # {}
    /\ Record(m, "DUPLICATE")
    /\ Finish(w)
    /\ UNCHANGED <<orders, plans, overdue, history>>

\* Mutant: every exception is answered like the IntegrityError.
SwallowException(w) ==
  /\ worker[w] # Idle
  /\ Record(worker[w].msg, "DUPLICATE")
  /\ Finish(w)
  /\ UNCHANGED <<orders, plans, overdue, history>>

\* The process dies, the lock times out or the database fails at any point
\* before COMMIT: everything is rolled back and nothing is answered.
AbortCallback(w) ==
  /\ worker[w] # Idle
  /\ Finish(w)
  /\ UNCHANGED bookVars

-----------------------------------------------------------------------------

HandleNotification(w) ==
  \/ \E m \in Messages : \/ RejectSignature(w, m)
                         \/ RejectOrderMismatch(w, m)
                         \/ AcknowledgeDuplicate(w, m)
                         \/ BeginNotification(w, m)
  \/ RejectUnknownOrder(w)
  \/ RejectAmount(w)
  \/ IgnoreTransition(w)
  \/ StageTransition(w)
  \/ ApplyNotification(w)
  \/ DuplicateOnCommit(w)
  \/ AbortCallback(w)
=============================================================================
