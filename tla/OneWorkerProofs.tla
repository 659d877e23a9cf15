-------------------------- MODULE OneWorkerProofs --------------------------
(***************************************************************************)
(* Proofs about OrderSystem with one event loop on the database file, for  *)
(* every set of orders and charges: first beside any number of query       *)
(* threads, then without queries.                                          *)
(***************************************************************************)
EXTENDS OrderSystemProofs

-----------------------------------------------------------------------------
(* What the only worker does to the notification table *)

\* The key of what the worker is handling has no APPLIED row: it had none
\* when it was looked up, and nobody else inserts one.
Fresh(w) == worker[w] # Idle => AlreadyApplied(worker[w].msg) = {}

\* The other sessions leave the notifications and the worker alone.
LEMMA OthersAbstain ==
  ASSUME NEW w, Workers = {w}, [Next]_vars, ~HandleNotification(w)
  PROVE  UNCHANGED <<worker, notifications>>
<1>1. CASE Environment /\ UNCHANGED <<worker, queryVars>>
  BY <1>1 DEF Environment, GatewayEvent, DeadlinePasses
<1>2. CASE (\E t \in Askers : QueryOrder(t)) /\ UNCHANGED worker
  BY <1>2
  DEF QueryOrder, AskGateway, QueryFails, LogAnswer, BeginRecovery, RecoverOrder,
      AbortQuery, bookVars
<1> QED
  BY <1>1, <1>2 DEF Next, vars, bookVars

\* A step of the worker begins a notification nobody applied, goes on with
\* it, or ends Idle.
LEMMA WorkerSteps ==
  ASSUME TypeOK, NEW w \in Workers, HandleNotification(w)
  PROVE  \/ worker'[w] = Idle
         \/ /\ notifications' = notifications
            /\ \E m \in Messages : /\ BeginNotification(w, m)
                                   /\ worker'[w].msg = m
         \/ /\ notifications' = notifications
            /\ StageTransition(w)
            /\ worker[w] # Idle /\ worker'[w].msg = worker[w].msg
<1>1. worker \in [Workers -> WorkerStates]
  BY DEF TypeOK, CallbacksTypeOK, WorkerStates
<1>2. ASSUME NEW m \in Messages,
             RejectSignature(w, m) \/ RejectOrderMismatch(w, m) \/ AcknowledgeDuplicate(w, m)
      PROVE  worker'[w] = Idle
  BY <1>2 DEF RejectSignature, RejectOrderMismatch, AcknowledgeDuplicate
<1>3. ASSUME NEW m \in Messages, BeginNotification(w, m)
      PROVE  notifications' = notifications /\ worker'[w].msg = m
  BY <1>1, <1>3 DEF BeginNotification, bookVars
<1>4. CASE StageTransition(w)
  <2>1. PICK m \in Messages :
          /\ worker[w].phase = "lookup" /\ m = worker[w].msg
          /\ worker' = [worker EXCEPT ![w] = [phase |-> "commit", msg |-> m,
                                              read |-> orders[m.charge.order]]]
          /\ UNCHANGED bookVars
    BY <1>4 DEF StageTransition, LookingUp
  <2>2. worker[w] # Idle
    BY <2>1, WorkerFields DEF TypeOK
  <2> QED
    BY <1>1, <1>4, <2>1, <2>2 DEF bookVars
<1>5. CASE Finish(w)
  BY <1>1, <1>5 DEF Finish
<1> QED
  BY <1>2, <1>3, <1>4, <1>5
  DEF HandleNotification, RejectUnknownOrder, RejectAmount, IgnoreTransition,
      ApplyNotification, DuplicateOnCommit, AbortCallback

LEMMA FreshNext ==
  ASSUME NEW w, Workers = {w}, TypeOK, Fresh(w), [Next]_vars
  PROVE  Fresh(w)'
<1> USE DEF Fresh, AlreadyApplied, Rows
<1>1. CASE ~HandleNotification(w)
  BY <1>1, OthersAbstain
<1>2. CASE HandleNotification(w)
  BY <1>2, WorkerSteps DEF BeginNotification
<1> QED
  BY <1>1, <1>2

\* The rows the only worker adds: DUPLICATE needs an APPLIED row of its key,
\* and every such row to be of its order.
LEMMA RowsCompared ==
  ASSUME NEW w, Workers = {w}, TypeOK, Fresh(w), [Next]_vars
  PROVE  \/ UNCHANGED notifications
         \/ \E m \in Messages \cup {Null}, result \in Results :
              /\ Record(m, result)
              /\ result = "APPLIED" => AlreadyApplied(m) = {}
              /\ result = "DUPLICATE" =>
                   /\ AlreadyApplied(m) # {}
                   /\ \A r \in AlreadyApplied(m) : r.msg.charge.order = m.charge.order
<1> DEFINE Added ==
      \E m \in Messages \cup {Null}, result \in Results :
        /\ Record(m, result)
        /\ result = "APPLIED" => AlreadyApplied(m) = {}
        /\ result = "DUPLICATE" =>
             /\ AlreadyApplied(m) # {}
             /\ \A r \in AlreadyApplied(m) : r.msg.charge.order = m.charge.order
<1>1. CASE ~HandleNotification(w)
  BY <1>1, OthersAbstain
<1>2. ASSUME NEW m \in Messages,
             RejectSignature(w, m) \/ RejectOrderMismatch(w, m) \/ AcknowledgeDuplicate(w, m)
      PROVE  Added
  BY <1>2 DEF RejectSignature, RejectOrderMismatch, AcknowledgeDuplicate, Results
<1>3. CASE RejectUnknownOrder(w) \/ RejectAmount(w) \/ IgnoreTransition(w)
           \/ ApplyNotification(w)
  BY <1>3
  DEF RejectUnknownOrder, RejectAmount, IgnoreTransition, ApplyNotification, Results
<1>4. CASE DuplicateOnCommit(w)
  BY <1>4, WorkerFields DEF DuplicateOnCommit, Committing, Fresh, TypeOK
<1>5. CASE UNCHANGED notifications
  BY <1>5
<1> QED
  BY <1>1, <1>2, <1>3, <1>4, <1>5
  DEF HandleNotification, BeginNotification, StageTransition, AbortCallback, bookVars

\* With one server process a DUPLICATE answer is never given for another
\* order that happens to carry the same trade number: the IntegrityError that
\* does not compare the orders cannot be met.
THEOREM DuplicatesConcernOneOrder ==
  ASSUME NEW w, Workers = {w}
  PROVE  Spec => []DuplicatesAreOfOneOrder
<1> DEFINE Inv == Fresh(w) /\ DuplicatesAreOfOneOrder
<1>1. Init => Inv
  BY DEF Init, BookInit, CallbacksInit, Fresh, DuplicatesAreOfOneOrder, Rows
<1>2. TypeOK /\ DuplicatesHaveOneOriginal /\ Inv /\ [Next]_vars => Inv'
  <2> SUFFICES ASSUME TypeOK, DuplicatesHaveOneOriginal, Inv, [Next]_vars
               PROVE  DuplicatesAreOfOneOrder'
    BY FreshNext
  <2> USE DEF DuplicatesAreOfOneOrder, DuplicatesHaveOneOriginal, AlreadyApplied, Rows
  <2>1. CASE UNCHANGED notifications
    BY <2>1
  <2>2. ASSUME NEW m \in Messages \cup {Null}, NEW result \in Results, Record(m, result),
               result = "APPLIED" => AlreadyApplied(m) = {},
               result = "DUPLICATE" =>
                 \A r \in AlreadyApplied(m) : r.msg.charge.order = m.charge.order
        PROVE  DuplicatesAreOfOneOrder'
    BY <2>2 DEF Record
  <2> QED
    BY <2>1, <2>2, RowsCompared
<1> QED
  BY <1>1, <1>2, TypeCorrect, TradesBookOnce, PTL DEF Spec

-----------------------------------------------------------------------------
(* What was acknowledged is settled *)

\* The rows of payment results that were answered with success.
PaymentRows ==
  {r \in notifications : /\ r.result \in {"APPLIED", "DUPLICATE", "IGNORED_TRANSITION"}
                         /\ Kind(r.msg) = "PAYMENT_RESULT"}

AnsweredSettled ==
  \A r \in PaymentRows : /\ r.msg.charge.order \in Orders
                         /\ Settled(r.msg.charge.order)

\* What the worker is about to commit applied to the order as it was read,
\* and no payment result of that order was answered since.
Staged(w) ==
  worker[w].phase = "commit" =>
    LET m == worker[w].msg
    IN  /\ m.charge.order \in Orders
        /\ TransitionApplies(worker[w].read.status, Kind(m), Success(m))
        /\ \A r \in PaymentRows : r.msg.charge.order # m.charge.order

AnswerInv(w) == TypeOK /\ Fresh(w) /\ Staged(w) /\ AnsweredSettled

LEMMA Matrix ==
  ASSUME NEW current, NEW kind, NEW success, TransitionApplies(current, kind, success)
  PROVE  /\ current \in {"PENDING", "AWAITING_PAYMENT", "EXPIRED"}
         /\ current # OrderTarget(kind, success)
         /\ OrderTarget(kind, success) = "AWAITING_PAYMENT" => current = "PENDING"
BY DEF TransitionApplies, CanTransitionOrder, ValidOrderTransitions, OrderTarget

\* A query writes PAID or leaves the status alone.
LEMMA RecoverySettles ==
  ASSUME TypeOK, NEW t \in Askers, RecoverOrder(t), NEW o \in Orders, Settled(o)
  PROVE  Settled(o)'
<1>1. CASE o = asker[t].order
  <2>1. orders'[o] = Recovered(asker[t].read, asker[t].charge, orders[o])
    BY <1>1 DEF RecoverOrder, TypeOK, BookTypeOK
  <2>2. orders'[o].status \in {"PAID", orders[o].status}
    BY <2>1 DEF Recovered, WriteBack
  <2> QED
    BY <2>2 DEF Settled, TerminalStatuses
<1>2. CASE o # asker[t].order
  BY <1>2, RecoveryPays DEF Settled
<1> QED
  BY <1>1, <1>2

\* The commit stores the status the message asks for, and only in its order.
LEMMA CommitStores ==
  ASSUME TypeOK, NEW w \in Workers, NEW m \in Messages, Commits(w, m),
         TransitionApplies(worker[w].read.status, Kind(m), Success(m)),
         NEW o \in Orders
  PROVE  /\ o = m.charge.order => orders'[o].status = OrderTarget(Kind(m), Success(m))
         /\ o # m.charge.order => orders'[o] = orders[o]
<1>1. worker[w].read.status # OrderTarget(Kind(m), Success(m))
  BY Matrix
<1>2. o = m.charge.order => orders'[o] = Applied(worker[w].read, m, orders[o])
  BY DEF Commits, TypeOK, BookTypeOK
<1>3. o = m.charge.order => orders'[o].status = OrderTarget(Kind(m), Success(m))
  BY <1>1, <1>2 DEF Applied, WriteBack, ApplyOrderTransition
<1> QED
  BY <1>3 DEF Commits, TypeOK, BookTypeOK

\* Every step of the worker that does not commit leaves the orders alone and
\* answers a payment result only of an order that is settled.
LEMMA AnswersSettled ==
  ASSUME NEW w \in Workers, AnswerInv(w), HandleNotification(w), ~ApplyNotification(w)
  PROVE  AnsweredSettled' /\ orders' = orders
<1> USE DEF AnswerInv, AnsweredSettled, PaymentRows, Settled
<1>1. ASSUME NEW m \in Messages, RejectSignature(w, m) \/ RejectOrderMismatch(w, m)
      PROVE  AnsweredSettled' /\ orders' = orders
  BY <1>1 DEF RejectSignature, RejectOrderMismatch, Record
<1>2. ASSUME NEW m \in Messages, AcknowledgeDuplicate(w, m)
      PROVE  AnsweredSettled' /\ orders' = orders
  <2>1. PICK r \in AlreadyApplied(m) : r.msg.charge.order = m.charge.order
    BY <1>2 DEF AcknowledgeDuplicate
  <2>2. Kind(m) = "PAYMENT_RESULT" => r \in PaymentRows
    BY <2>1 DEF AlreadyApplied, Rows, AppliedKey
  <2> QED
    BY <1>2, <2>1, <2>2 DEF AcknowledgeDuplicate, Record
<1>3. CASE RejectUnknownOrder(w) \/ RejectAmount(w)
  BY <1>3 DEF RejectUnknownOrder, RejectAmount, Record
<1>4. CASE IgnoreTransition(w)
  <2>1. PICK m \in Messages : /\ m.charge.order \in Orders
                              /\ ~Applies(m)
                              /\ Record(m, "IGNORED_TRANSITION")
                              /\ orders' = orders
    BY <1>4 DEF IgnoreTransition
  <2>2. orders[m.charge.order].status \in StoredStatuses
    BY <2>1 DEF TypeOK, BookTypeOK, OrderRows
  <2>3. Kind(m) = "PAYMENT_RESULT" => Settled(m.charge.order)
    BY <2>1, <2>2
    DEF Applies, TransitionApplies, CanTransitionOrder, ValidOrderTransitions, OrderTarget,
        StoredStatuses, OrderStatuses, TerminalStatuses
  <2> QED
    BY <2>1, <2>3 DEF Record
<1>5. ~DuplicateOnCommit(w)
  BY WorkerFields DEF DuplicateOnCommit, Committing, Fresh, TypeOK
<1>6. CASE UNCHANGED <<orders, notifications>>
  BY <1>6
<1> QED
  BY <1>1, <1>2, <1>3, <1>4, <1>5, <1>6
  DEF HandleNotification, BeginNotification, StageTransition, AbortCallback, bookVars

\* The commit answers a payment result by settling its order, and issues an
\* account only for an order of which no payment result was answered.
LEMMA CommitAnswers ==
  ASSUME NEW w \in Workers, AnswerInv(w), ApplyNotification(w)
  PROVE  AnsweredSettled'
<1>1. PICK m \in Messages : Commits(w, m)
  BY DEF ApplyNotification, Commits
<1>2. /\ m.charge.order \in Orders
      /\ TransitionApplies(worker[w].read.status, Kind(m), Success(m))
      /\ \A r \in PaymentRows : r.msg.charge.order # m.charge.order
  BY <1>1 DEF AnswerInv, Staged, Commits, Committing
<1>3. Kind(m) = "PAYMENT_RESULT" => Settled(m.charge.order)'
  <2>1. orders'[m.charge.order].status = OrderTarget(Kind(m), Success(m))
    BY <1>1, <1>2, CommitStores DEF AnswerInv
  <2> QED
    BY <2>1 DEF OrderTarget, Settled, TerminalStatuses
<1>4. ASSUME NEW r \in PaymentRows
      PROVE  r.msg.charge.order \in Orders /\ Settled(r.msg.charge.order)'
  <2>1. r.msg.charge.order \in Orders /\ Settled(r.msg.charge.order)
    BY DEF AnswerInv, AnsweredSettled
  <2> QED
    BY <1>1, <1>2, <2>1, CommitStores DEF AnswerInv, Settled
<1> QED
  BY <1>1, <1>2, <1>3, <1>4 DEF AnsweredSettled, PaymentRows, Commits, Record

LEMMA StagedNext ==
  ASSUME NEW w, Workers = {w}, AnswerInv(w), [Next]_vars
  PROVE  Staged(w)'
<1>1. CASE ~HandleNotification(w)
  BY <1>1, OthersAbstain DEF AnswerInv, Staged, PaymentRows
<1>2. CASE HandleNotification(w)
  <2>1. CASE worker'[w] = Idle
    BY <2>1 DEF Staged, Idle
  <2>2. ASSUME NEW m \in Messages, BeginNotification(w, m)
        PROVE  Staged(w)'
    BY <2>2 DEF BeginNotification, Staged, AnswerInv, TypeOK, CallbacksTypeOK
  <2>3. CASE StageTransition(w)
    <3>1. PICK m \in Messages :
            /\ m.charge.order \in Orders
            /\ Applies(m)
            /\ worker' = [worker EXCEPT ![w] = [phase |-> "commit", msg |-> m,
                                                read |-> orders[m.charge.order]]]
            /\ notifications' = notifications
      BY <2>3 DEF StageTransition, bookVars
    <3>2. worker'[w] = [phase |-> "commit", msg |-> m, read |-> orders[m.charge.order]]
      BY <3>1 DEF AnswerInv, TypeOK, CallbacksTypeOK
    <3>3. ~Settled(m.charge.order)
      BY <3>1, Matrix DEF Applies, Settled, TerminalStatuses
    <3>4. \A r \in PaymentRows : r.msg.charge.order # m.charge.order
      BY <3>3 DEF AnswerInv, AnsweredSettled
    <3> QED
      BY <3>1, <3>2, <3>4 DEF Staged, PaymentRows, Applies
  <2> QED
    BY <1>2, <2>1, <2>2, <2>3, WorkerSteps DEF AnswerInv
<1> QED
  BY <1>1, <1>2

LEMMA AnswerInvNext ==
  ASSUME NEW w, Workers = {w}, AnswerInv(w), [Next]_vars
  PROVE  AnswerInv(w)'
<1>1. CASE ~HandleNotification(w)
  <2>1. UNCHANGED <<worker, notifications>>
    BY <1>1, OthersAbstain
  <2>2. ASSUME NEW o \in Orders, Settled(o)
        PROVE  Settled(o)'
    <3>1. CASE orders' = orders
      BY <2>2, <3>1 DEF Settled
    <3>2. ASSUME NEW t \in Askers, QueryOrder(t)
          PROVE  orders' = orders \/ RecoverOrder(t)
      BY <3>2
      DEF QueryOrder, AskGateway, QueryFails, LogAnswer, BeginRecovery, AbortQuery,
          bookVars
    <3> QED
      BY <1>1, <2>2, <3>1, <3>2, RecoverySettles
      DEF Next, Environment, GatewayEvent, DeadlinePasses, vars, bookVars, AnswerInv
  <2> QED
    BY <2>1, <2>2, FreshNext, StagedNext, TypesNext
    DEF AnswerInv, AnsweredSettled, PaymentRows
<1>2. CASE HandleNotification(w)
  BY <1>2, AnswersSettled, CommitAnswers, FreshNext, StagedNext, TypesNext DEF AnswerInv
<1> QED
  BY <1>1, <1>2

\* With one server process the gateway stops sending a payment only when its
\* order is settled: no success is answered for a payment that was then lost,
\* and no late account number or query reopens an order that was settled.
THEOREM AcknowledgedPaymentsStaySettled ==
  ASSUME NEW w, Workers = {w}
  PROVE  Spec => []AcknowledgedPaymentsAreSettled
<1>1. Init => AnswerInv(w)
  BY PaymentInvInit
  DEF Init, BookInit, CallbacksInit, PaymentInv, AnswerInv, Fresh, Staged,
      AnsweredSettled, PaymentRows, Idle
<1>2. AnswerInv(w) => AcknowledgedPaymentsAreSettled
  BY DEF AnswerInv, AnsweredSettled, PaymentRows, AcknowledgedPaymentsAreSettled,
         Acknowledged, Kind
<1>3. AnswerInv(w) /\ [Next]_vars => AnswerInv(w)'
  BY AnswerInvNext
<1> QED
  BY <1>1, <1>2, <1>3, PTL DEF Spec

-----------------------------------------------------------------------------
(* Without queries: nobody else writes an order *)

\* What the worker is about to commit was read from the order as it still is,
\* and applies to it.
Current(w) ==
  worker[w].phase = "commit" =>
    LET m == worker[w].msg
    IN  /\ m.charge.order \in Orders
        /\ worker[w].read = orders[m.charge.order]
        /\ Applies(m)

\* Either the worker commits or orders and plans stay as they are.
LEMMA OnlyCommitsWrite ==
  ASSUME NEW w, Workers = {w}, Askers = {}, [Next]_vars
  PROVE  UNCHANGED <<orders, plans>> \/ ApplyNotification(w)
<1>1. CASE UNCHANGED <<orders, plans>>
  BY <1>1
<1>2. CASE HandleNotification(w)
  BY <1>2
  DEF HandleNotification, RejectSignature, RejectOrderMismatch, AcknowledgeDuplicate,
      BeginNotification, RejectUnknownOrder, RejectAmount, IgnoreTransition,
      StageTransition, DuplicateOnCommit, AbortCallback, bookVars
<1> QED
  BY <1>1, <1>2
  DEF Next, Environment, GatewayEvent, DeadlinePasses, vars, bookVars

LEMMA CurrentNext ==
  ASSUME NEW w, Workers = {w}, Askers = {}, TypeOK, Current(w), [Next]_vars
  PROVE  Current(w)'
<1>1. CASE worker' = worker /\ orders' = orders
  BY <1>1 DEF Current, Applies
<1>2. CASE worker'[w] = Idle
  BY <1>2 DEF Current, Idle
<1>3. ASSUME NEW m \in Messages, BeginNotification(w, m)
      PROVE  Current(w)'
  BY <1>3 DEF BeginNotification, Current, TypeOK, CallbacksTypeOK
<1>4. CASE StageTransition(w)
  <2>1. PICK m \in Messages :
          /\ m.charge.order \in Orders
          /\ Applies(m)
          /\ worker' = [worker EXCEPT ![w] = [phase |-> "commit", msg |-> m,
                                              read |-> orders[m.charge.order]]]
          /\ orders' = orders
    BY <1>4 DEF StageTransition, bookVars
  <2>2. worker'[w] = [phase |-> "commit", msg |-> m, read |-> orders[m.charge.order]]
    BY <2>1 DEF TypeOK, CallbacksTypeOK
  <2> QED
    BY <2>1, <2>2 DEF Current, Applies
<1>5. ApplyNotification(w) => worker'[w] = Idle
  BY DEF ApplyNotification, Finish, TypeOK, CallbacksTypeOK
<1>6. CASE HandleNotification(w)
  BY <1>2, <1>3, <1>4, <1>6, WorkerSteps
<1>7. CASE ~HandleNotification(w)
  BY <1>1, <1>2, <1>5, <1>7, OthersAbstain, OnlyCommitsWrite
<1> QED
  BY <1>6, <1>7

\* What a commit makes of an order it has just read.
Fulfilled(m) ==
  ApplyOrderTransition(orders[m.charge.order], Kind(m), Success(m), m.charge.trade)

Fulfils(w, m) ==
  /\ Commits(w, m)
  /\ m.charge.order \in Orders
  /\ Applies(m)
  /\ orders' = [orders EXCEPT ![m.charge.order] = Fulfilled(m)]

LEMMA CommitFresh ==
  ASSUME NEW w, Workers = {w}, Current(w), ApplyNotification(w)
  PROVE  \E m \in Messages : Fulfils(w, m)
<1>1. PICK m \in Messages : Commits(w, m)
  BY DEF ApplyNotification, Commits
<1> DEFINE o == m.charge.order
<1>2. o \in Orders /\ worker[w].read = orders[o] /\ Applies(m)
  BY <1>1 DEF Commits, Committing, Current
<1>3. Fulfilled(m) = [status |-> Fulfilled(m).status, trade |-> Fulfilled(m).trade,
                      account |-> Fulfilled(m).account, paid |-> Fulfilled(m).paid]
  BY DEF Fulfilled, ApplyOrderTransition
<1>4. Applied(orders[o], m, orders[o]) = Fulfilled(m)
  <2>1. \A a : WriteBack(orders[o], a, orders[o]) =
                 [status |-> a.status, trade |-> a.trade, account |-> a.account,
                  paid |-> a.paid]
    BY DEF WriteBack
  <2>2. Applied(orders[o], m, orders[o]) = WriteBack(orders[o], Fulfilled(m), orders[o])
    BY DEF Applied, Fulfilled
  <2> QED
    BY <1>3, <2>1, <2>2
<1> QED
  BY <1>1, <1>2, <1>4 DEF Commits, Fulfils

\* The APPLIED messages of an order.
AppliedTo(o) == {r.msg : r \in {s \in Rows("APPLIED") : s.msg.charge.order = o}}

Final(m) == Kind(m) = "PAYMENT_RESULT"

\* LedgerExplainsOrders for one order with these applied messages.
Explained(o, msgs) ==
  /\ \A m, n \in msgs : (Final(m) <=> Final(n)) => m = n
  /\ \A m \in msgs : Final(m) =>
       /\ orders[o].status = OrderTarget(Kind(m), Success(m))
       /\ orders[o].trade = m.charge.trade
  /\ \A m \in msgs : ~Final(m) => orders[o].account = m.charge.trade
  /\ (\A m \in msgs : Final(m)) => orders[o].account = Null
  /\ (\A m \in msgs : ~Final(m)) => orders[o].trade = orders[o].account
  /\ msgs = {} => orders[o].status = "PENDING"
  /\ msgs # {} /\ (\A m \in msgs : ~Final(m)) => orders[o].status = "AWAITING_PAYMENT"
  /\ orders[o].paid <=> orders[o].status = "PAID"

LEMMA LedgerByOrder ==
  LedgerExplainsOrders <=> \A o \in Orders : Explained(o, AppliedTo(o))
<1> SUFFICES ASSUME NEW o \in Orders
             PROVE  LET msgs == AppliedTo(o)
                        final == {m \in msgs : Kind(m) = "PAYMENT_RESULT"}
                        issued == msgs \ final
                    IN  Explained(o, msgs) <=>
                          /\ \A m, n \in final : m = n
                          /\ \A m, n \in issued : m = n
                          /\ \A m \in final :
                               /\ orders[o].status = OrderTarget(Kind(m), Success(m))
                               /\ orders[o].trade = m.charge.trade
                          /\ \A m \in issued : orders[o].account = m.charge.trade
                          /\ issued = {} => orders[o].account = Null
                          /\ final = {} => orders[o].trade = orders[o].account
                          /\ final = {} => orders[o].status =
                               IF issued = {} THEN "PENDING" ELSE "AWAITING_PAYMENT"
                          /\ orders[o].paid <=> orders[o].status = "PAID"
  BY DEF LedgerExplainsOrders, AppliedTo
<1> QED
  BY DEF Explained, Final

\* The APPLIED rows change only with the orders.
LEMMA OnlyCommitsApply ==
  ASSUME NEW w, Workers = {w}, [Next]_vars, ~ApplyNotification(w)
  PROVE  Rows("APPLIED")' = Rows("APPLIED")
<1>1. CASE ~HandleNotification(w)
  BY <1>1, OthersAbstain DEF Rows
<1>2. CASE HandleNotification(w)
  BY <1>2
  DEF HandleNotification, RejectSignature, RejectOrderMismatch, AcknowledgeDuplicate,
      BeginNotification, RejectUnknownOrder, RejectAmount, IgnoreTransition,
      StageTransition, DuplicateOnCommit, AbortCallback, bookVars, Record, Rows
<1> QED
  BY <1>1, <1>2

LEMMA LedgerNext ==
  ASSUME NEW w, Workers = {w}, Askers = {}, TypeOK, Current(w), LedgerExplainsOrders,
         [Next]_vars
  PROVE  LedgerExplainsOrders'
<1>1. CASE ~ApplyNotification(w)
  BY <1>1, OnlyCommitsApply, OnlyCommitsWrite DEF LedgerExplainsOrders
<1>2. CASE ApplyNotification(w)
  <2>1. PICK m \in Messages : Fulfils(w, m)
    BY <1>2, CommitFresh
  <2>2. \A o : AppliedTo(o)' = IF o = m.charge.order THEN AppliedTo(o) \cup {m}
                               ELSE AppliedTo(o)
    <3> DEFINE row == [msg |-> m, result |-> "APPLIED"]
    <3>1. notifications' = notifications \cup {row}
      BY <2>1 DEF Fulfils, Commits, Record
    <3>2. row.result = "APPLIED" /\ row.msg = m
      OBVIOUS
    <3> HIDE DEF row
    <3>3. Rows("APPLIED")' = Rows("APPLIED") \cup {row}
      BY <3>1, <3>2 DEF Rows
    <3> QED
      BY <3>2, <3>3 DEF AppliedTo
  <2>3. ASSUME NEW o \in Orders
        PROVE  Explained(o, AppliedTo(o))'
    <3>1. Explained(o, AppliedTo(o))
      BY LedgerByOrder
    <3>2. CASE o # m.charge.order
      BY <2>1, <2>2, <3>1, <3>2 DEF Fulfils, Explained, TypeOK, BookTypeOK
    <3>3. CASE o = m.charge.order
      <4> DEFINE target == OrderTarget(Kind(m), Success(m))
      <4>1. /\ orders'[o].status = target
            /\ orders'[o].trade = m.charge.trade
            /\ orders'[o].account = IF target = "AWAITING_PAYMENT" THEN m.charge.trade
                                    ELSE orders[o].account
            /\ orders'[o].paid <=> orders[o].paid \/ target = "PAID"
        BY <2>1, <3>3 DEF Fulfils, Fulfilled, ApplyOrderTransition, TypeOK, BookTypeOK
      <4>2. /\ orders[o].status \in {"PENDING", "AWAITING_PAYMENT"}
            /\ target = "AWAITING_PAYMENT" => orders[o].status = "PENDING"
        BY <2>1, <3>3, Matrix
        DEF Fulfils, Applies, TypeOK, BookTypeOK, OrderRows, StoredStatuses
      <4>3. \A n \in AppliedTo(o) : ~Final(n)
        BY <3>1, <4>2 DEF Explained, Final, OrderTarget
      <4>4. target = "AWAITING_PAYMENT" => AppliedTo(o) = {}
        BY <3>1, <4>2, <4>3 DEF Explained
      <4>5. ~orders[o].paid
        BY <3>1, <4>2 DEF Explained
      <4>6. /\ target = "AWAITING_PAYMENT" <=> Kind(m) # "PAYMENT_RESULT"
            /\ Kind(m) # "PAYMENT_RESULT" => Kind(m) = "ATM_ACCOUNT_ISSUED"
        BY DEF OrderTarget, Kind
      <4>7. AppliedTo(o)' = AppliedTo(o) \cup {m}
        BY <2>2, <3>3
      <4>8. CASE Kind(m) = "PAYMENT_RESULT"
        <5>1. /\ orders'[o].status = target /\ orders'[o].trade = m.charge.trade
              /\ orders'[o].account = orders[o].account
              /\ orders'[o].paid <=> target = "PAID"
          BY <4>1, <4>5, <4>6, <4>8
        <5>2. Final(m) /\ m \notin AppliedTo(o)
          BY <4>3, <4>8 DEF Final
        <5> QED
          BY <3>1, <4>3, <4>6, <4>7, <4>8, <5>1, <5>2 DEF Explained
      <4>9. CASE Kind(m) # "PAYMENT_RESULT"
        <5>1. /\ AppliedTo(o)' = {m}
              /\ orders'[o].status = "AWAITING_PAYMENT"
              /\ orders'[o].account = m.charge.trade
              /\ orders'[o].trade = m.charge.trade
              /\ ~orders'[o].paid
          BY <4>1, <4>4, <4>5, <4>6, <4>7, <4>9
        <5> QED
          BY <4>9, <5>1 DEF Explained, Final
      <4> QED
        BY <4>8, <4>9
    <3> QED
      BY <3>2, <3>3
  <2>4. (\A o \in Orders : Explained(o, AppliedTo(o)))' => LedgerExplainsOrders'
    BY LedgerByOrder, PTL
  <2> QED
    BY <2>3, <2>4
<1> QED
  BY <1>1, <1>2

LEMMA CurrentInit == Init => \A w \in Workers : Current(w)
BY DEF Init, CallbacksInit, Current, Idle

\* When one server process alone writes, the audit table accounts for every
\* order: its status, trade number, account and paid_at are those of its one
\* applied result and its one applied account, or as create_order left them.
THEOREM LedgerAccountsForOrders ==
  ASSUME NEW w, Workers = {w}, Askers = {}
  PROVE  Spec => []LedgerExplainsOrders
<1> DEFINE Inv == Current(w) /\ LedgerExplainsOrders
<1>1. Init => Inv
  BY CurrentInit DEF Init, BookInit, NewOrder, LedgerExplainsOrders, Rows
<1>2. TypeOK /\ Inv /\ [Next]_vars => Inv'
  BY CurrentNext, LedgerNext
<1> QED
  BY <1>1, <1>2, TypeCorrect, PTL DEF Spec

-----------------------------------------------------------------------------
(* One callback is one step of the lifecycle *)

\* OrderLifecycle decides on a notification as the code does.
LEMMA SameDecisions ==
  ASSUME NEW current, NEW kind, NEW success
  PROVE  /\ Lifecycle!NotificationKinds = NotificationKinds
         /\ Lifecycle!OrderTarget(kind, success) = OrderTarget(kind, success)
         /\ TransitionApplies(current, kind, success)
              <=> /\ kind = "ATM_ACCOUNT_ISSUED" => success
                  /\ Lifecycle!CanTransitionOrder(current, OrderTarget(kind, success))
BY DEF Lifecycle!NotificationKinds, Lifecycle!OrderTarget, Lifecycle!CanTransitionOrder,
       Lifecycle!ValidOrderTransitions, NotificationKinds, OrderTarget, TransitionApplies,
       CanTransitionOrder, ValidOrderTransitions

LEMMA ReportsType == [o \in Orders |-> ReportsOf(o)] \in Lifecycle!Reports
<1>1. \A m \in Messages : Kind(m) \in NotificationKinds /\ Success(m) \in BOOLEAN
  BY DEF Kind, Success, NotificationKinds
<1>2. ASSUME NEW o \in Orders, NEW report \in ReportsOf(o)
      PROVE  report \in NotificationKinds \X BOOLEAN
  <2>1. PICK m \in Messages : report = <<Kind(m), Success(m)>>
    BY DEF ReportsOf
  <2> QED
    BY <1>1, <2>1
<1> QED
  BY <1>2, SameDecisions DEF Lifecycle!Reports

\* The commit books what the gateway said, on an order and a plan as they
\* still are.
LEMMA CommitIsNotify ==
  ASSUME NEW w, Workers = {w}, PaymentInv, Current(w), ApplyNotification(w)
  PROVE  \E o \in Orders, kind \in NotificationKinds, success \in BOOLEAN :
           Lifecycle!Notify(o, kind, success)
<1> DEFINE status == [o \in Orders |-> orders[o].status]
           reported == [o \in Orders |-> ReportsOf(o)]
<1>1. PICK m \in Messages : Fulfils(w, m)
  BY CommitFresh
<1> DEFINE o == m.charge.order
           target == OrderTarget(Kind(m), Success(m))
<1>2. o \in Orders /\ TransitionApplies(status[o], Kind(m), Success(m))
  BY <1>1 DEF Fulfils, Applies
<1>3. status' = [status EXCEPT ![o] = target]
  <2>1. Fulfilled(m).status = target
    BY DEF Fulfilled, ApplyOrderTransition
  <2> HIDE DEF target
  <2> QED
    BY <1>1, <2>1 DEF Fulfils, PaymentInv, TypeOK, BookTypeOK
<1>4. <<Kind(m), Success(m)>> \in ReportsOf(o)
  <2>1. worker[w] # Idle /\ worker[w].phase = "commit" /\ worker[w].msg = m
    BY <1>1, WorkerFields DEF Fulfils, Commits, Committing, PaymentInv, TypeOK
  <2>2. m.genuine /\ m.event \in history[m.charge] /\ m.charge.amountOk
    BY <2>1 DEF PaymentInv, Heard, Checked
  <2> QED
    BY <2>2 DEF ReportsOf, Deliverable
<1>5. Kind(m) \in NotificationKinds /\ Success(m) \in BOOLEAN
  BY DEF Kind, Success, NotificationKinds
<1>6. plans' = IF target = "PAID" /\ plans[o] # "NONE" THEN [plans EXCEPT ![o] = "ACTIVE"]
               ELSE plans
  <2>1. target = "PAID" <=> m.event = "PAID"
    BY DEF OrderTarget, Kind, Success, Messages, Events
  <2> QED
    BY <1>1, <2>1 DEF Fulfils, Commits, PlansActivatedBy
<1>7. reported' = reported
  BY DEF ApplyNotification, ReportsOf, Deliverable
<1> HIDE DEF target
<1>8. Lifecycle!Notify(o, Kind(m), Success(m))
  BY <1>2, <1>3, <1>4, <1>6, <1>7, SameDecisions DEF Lifecycle!Notify, target
<1> QED
  BY <1>2, <1>5, <1>8

\* When one server process alone writes, a callback is as good as one step,
\* whatever is delivered in whatever order and wherever it dies: each takes one
\* order along the transition matrix, with its plan, on a report of a gateway.
THEOREM CallbacksImplementLifecycle ==
  ASSUME NEW w, Workers = {w}, Askers = {}
  PROVE  Spec => ImplementsLifecycle
<1>1. Init => Lifecycle!Init
  <2> SUFFICES ASSUME Init
               PROVE  Lifecycle!Init
    OBVIOUS
  <2>1. /\ orders = [o \in Orders |-> NewOrder]
        /\ plans = [o \in Orders |-> IF o \in PlanOrders THEN "PENDING" ELSE "NONE"]
    BY DEF Init, BookInit
  <2>2. \A o \in Orders : orders[o].status = "PENDING"
    BY <2>1 DEF NewOrder
  <2> QED
    BY <2>1, <2>2, ReportsType DEF Lifecycle!Init
<1>2. ASSUME PaymentInv, Current(w), [Next]_vars
      PROVE  [Lifecycle!Next]_(Lifecycle!lifecycleVars)
  <2>1. CASE UNCHANGED <<orders, plans>>
    <3>1. ([o \in Orders |-> ReportsOf(o)] \in Lifecycle!Reports)'
      BY ReportsType, PTL
    <3>2. Lifecycle!GatewayReports
      BY <2>1, <3>1 DEF Lifecycle!GatewayReports
    <3> QED
      BY <3>2 DEF Lifecycle!Next
  <2>2. CASE ApplyNotification(w)
    BY <1>2, <2>2, CommitIsNotify, SameDecisions DEF Lifecycle!Next
  <2> QED
    BY <1>2, <2>1, <2>2, OnlyCommitsWrite
<1>3. PaymentInv /\ Current(w) /\ [Next]_vars => Current(w)'
  BY CurrentNext DEF PaymentInv
<1>4. Init => Current(w)
  BY CurrentInit
<1> QED
  BY <1>1, <1>2, <1>3, <1>4, PaymentInvInit, PaymentInvNext, PTL
  DEF Spec, ImplementsLifecycle, Lifecycle!Spec
=============================================================================
