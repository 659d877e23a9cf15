------------------------- MODULE OrderSystemProofs -------------------------
(***************************************************************************)
(* Proofs about OrderSystem for every set of orders, charges, workers and  *)
(* query threads, and whatever the gateways let happen.                    *)
(***************************************************************************)
EXTENDS OrderSystem, TLAPS

-----------------------------------------------------------------------------
(* Types *)

LEMMA ChargeFields ==
  ASSUME NEW c \in Charges
  PROVE  /\ c.trade \in Trades /\ c.trade # Null
         /\ c.amountOk \in BOOLEAN
         /\ c.gateway \in Gateways
BY ChargesAssumption DEF Trades

\* What a commit stores is a row, whatever was read and whatever is stored.
LEMMA WriteBackType ==
  ASSUME NEW read \in OrderRows, NEW assigned \in OrderRows, NEW stored \in OrderRows
  PROVE  WriteBack(read, assigned, stored) \in OrderRows
<1> DEFINE Column(r, a, s) == IF a # r THEN a ELSE s
<1>1. /\ Column(read.status, assigned.status, stored.status) \in StoredStatuses
      /\ Column(read.trade, assigned.trade, stored.trade) \in Trades \cup {Null}
      /\ Column(read.account, assigned.account, stored.account) \in Trades \cup {Null}
      /\ Column(read.paid, assigned.paid, stored.paid) \in BOOLEAN
  BY DEF OrderRows
<1> QED
  BY <1>1 DEF WriteBack, OrderRows

\* The status a notification asks for can be stored.
LEMMA TargetType ==
  ASSUME NEW kind, NEW success
  PROVE  OrderTarget(kind, success) \in StoredStatuses \ {"PENDING"}
BY DEF OrderTarget, StoredStatuses, OrderStatuses

LEMMA AppliedType ==
  ASSUME NEW read \in OrderRows, NEW m \in Messages, NEW stored \in OrderRows
  PROVE  Applied(read, m, stored) \in OrderRows
<1> DEFINE target == OrderTarget(Kind(m), Success(m))
           wasPaid == read.paid \/ target = "PAID"
           account == IF target = "AWAITING_PAYMENT" THEN m.charge.trade
                      ELSE read.account
<1>1. target \in StoredStatuses
  BY TargetType
<1>2. m.charge.trade \in Trades
  BY ChargeFields DEF Messages
<1>3. account \in Trades \cup {Null}
  BY <1>2 DEF OrderRows
<1>4. wasPaid \in BOOLEAN
  OBVIOUS
<1> DEFINE row == ApplyOrderTransition(read, Kind(m), Success(m), m.charge.trade)
<1>5. row = [status |-> target, trade |-> m.charge.trade, account |-> account,
             paid |-> wasPaid]
  BY DEF ApplyOrderTransition
<1>6. row \in OrderRows
  <2> HIDE DEF target, account, wasPaid, row
  <2> QED
    BY <1>1, <1>2, <1>3, <1>4, <1>5 DEF OrderRows
<1> QED
  BY <1>6, WriteBackType DEF Applied

LEMMA RecoveredType ==
  ASSUME NEW read \in OrderRows, NEW c \in Charges, NEW stored \in OrderRows
  PROVE  Recovered(read, c, stored) \in OrderRows
<1>1. c.trade \in Trades
  BY ChargeFields
<1>2. [read EXCEPT !.status = "PAID", !.trade = c.trade, !.paid = TRUE] \in OrderRows
  BY <1>1 DEF OrderRows, StoredStatuses, OrderStatuses
<1> QED
  BY <1>2, WriteBackType DEF Recovered

WorkerStates ==
  {Idle} \cup [phase : {"lookup"}, msg : Messages]
         \cup [phase : {"commit"}, msg : Messages, read : OrderRows]

AskerStates ==
  {NotAsking} \cup [phase : {"asking"}, order : EcpayOrders, read : OrderRows]
              \cup [phase : {"recovering"}, order : EcpayOrders, read : OrderRows,
                    charge : Charges]

LEMMA WorkerFields ==
  ASSUME CallbacksTypeOK, NEW w \in Workers
  PROVE  /\ worker[w] # Idle => worker[w].msg \in Messages
         /\ worker[w].phase = "commit" => worker[w].read \in OrderRows
         /\ worker[w].phase \in {"lookup", "commit"} => worker[w] # Idle
BY DEF CallbacksTypeOK, Idle

LEMMA AskerFields ==
  ASSUME QueryTypeOK, NEW t \in Askers
  PROVE  /\ asker[t] # NotAsking => /\ asker[t].order \in EcpayOrders
                                   /\ asker[t].read \in OrderRows
         /\ asker[t].phase = "recovering" => asker[t].charge \in Charges
         /\ asker[t].phase \in {"asking", "recovering"} => asker[t] # NotAsking
BY DEF QueryTypeOK, NotAsking

LEMMA EnvironmentTypes == TypeOK /\ Environment => BookTypeOK'
<1> SUFFICES ASSUME TypeOK, Environment
             PROVE  BookTypeOK'
  OBVIOUS
<1> USE DEF TypeOK, BookTypeOK
<1>1. ASSUME NEW c \in Charges, NEW e \in Events, GatewayEvent(c, e)
      PROVE  BookTypeOK'
  BY <1>1 DEF GatewayEvent
<1>2. ASSUME NEW o \in Orders, DeadlinePasses(o)
      PROVE  BookTypeOK'
  BY <1>2 DEF DeadlinePasses
<1> QED
  BY <1>1, <1>2 DEF Environment

LEMMA CallbackTypes ==
  ASSUME TypeOK, NEW w \in Workers, HandleNotification(w)
  PROVE  BookTypeOK' /\ CallbacksTypeOK'
<1> USE DEF TypeOK
<1>1. ASSUME NEW m \in Messages \cup {Null}, NEW result \in Results, Record(m, result)
      PROVE  notifications' \subseteq [msg : Messages \cup {Null}, result : Results]
  BY <1>1 DEF Record, BookTypeOK
<1>2. Finish(w) => CallbacksTypeOK'
  BY DEF Finish, CallbacksTypeOK
<1>3. ASSUME NEW m \in Messages,
             RejectSignature(w, m) \/ RejectOrderMismatch(w, m) \/ AcknowledgeDuplicate(w, m)
      PROVE  BookTypeOK' /\ CallbacksTypeOK'
  BY <1>1, <1>3
  DEF RejectSignature, RejectOrderMismatch, AcknowledgeDuplicate, BookTypeOK,
      CallbacksTypeOK, Results
<1>4. ASSUME NEW m \in Messages, BeginNotification(w, m)
      PROVE  BookTypeOK' /\ CallbacksTypeOK'
  BY <1>4 DEF BeginNotification, bookVars, BookTypeOK, CallbacksTypeOK
<1>5. CASE RejectUnknownOrder(w) \/ RejectAmount(w) \/ IgnoreTransition(w)
           \/ DuplicateOnCommit(w)
  BY <1>1, <1>2, <1>5
  DEF RejectUnknownOrder, RejectAmount, IgnoreTransition, DuplicateOnCommit, BookTypeOK,
      Results
<1>6. CASE StageTransition(w)
  <2>1. PICK m \in Messages :
          /\ m.charge.order \in Orders
          /\ worker' = [worker EXCEPT ![w] = [phase |-> "commit", msg |-> m,
                                              read |-> orders[m.charge.order]]]
          /\ UNCHANGED bookVars
    BY <1>6 DEF StageTransition
  <2>2. orders[m.charge.order] \in OrderRows
    BY <2>1 DEF BookTypeOK
  <2> QED
    BY <2>1, <2>2 DEF bookVars, BookTypeOK, CallbacksTypeOK
<1>7. CASE ApplyNotification(w)
  <2>1. PICK m \in Messages :
          /\ Committing(w, m)
          /\ orders' = [orders EXCEPT ![m.charge.order] = Applied(worker[w].read, m, @)]
          /\ plans' = PlansActivatedBy(m)
          /\ Record(m, "APPLIED")
          /\ Finish(w)
          /\ UNCHANGED <<overdue, history>>
    BY <1>7 DEF ApplyNotification
  <2>2. worker[w].read \in OrderRows
    BY <2>1, WorkerFields DEF Committing
  <2>3. m.charge.order \in Orders =>
          Applied(worker[w].read, m, orders[m.charge.order]) \in OrderRows
    BY <2>2, AppliedType DEF BookTypeOK
  <2>4. orders' \in [Orders -> OrderRows]
    BY <2>1, <2>3 DEF BookTypeOK
  <2>5. plans' \in [Orders -> PlanStatuses]
    BY <2>1 DEF BookTypeOK, PlansActivatedBy, PlanStatuses
  <2> QED
    BY <1>1, <1>2, <2>1, <2>4, <2>5 DEF BookTypeOK, Results
<1>8. CASE AbortCallback(w)
  BY <1>2, <1>8 DEF AbortCallback, bookVars, BookTypeOK
<1> QED
  BY <1>3, <1>4, <1>5, <1>6, <1>7, <1>8 DEF HandleNotification

LEMMA QueryTypes ==
  ASSUME TypeOK, NEW t \in Askers, QueryOrder(t)
  PROVE  BookTypeOK' /\ QueryTypeOK'
<1> USE DEF TypeOK
<1>1. StopAsking(t) => asker' \in [Askers -> AskerStates]
  BY DEF StopAsking, QueryTypeOK, AskerStates
<1>2. ASSUME NEW o \in EcpayOrders, AskGateway(t, o)
      PROVE  BookTypeOK' /\ QueryTypeOK'
  <2>1. orders[o] \in OrderRows
    BY OrdersAssumption DEF BookTypeOK
  <2> QED
    BY <1>2, <2>1 DEF AskGateway, bookVars, BookTypeOK, QueryTypeOK
<1>3. ASSUME asker[t].phase = "asking", NEW outcome \in Outcomes,
             Log(asker[t].order, outcome), StopAsking(t), UNCHANGED bookVars
      PROVE  BookTypeOK' /\ QueryTypeOK'
  BY <1>1, <1>3, AskerFields DEF Log, bookVars, BookTypeOK, QueryTypeOK, AskerStates
<1>4. ASSUME NEW a \in Answers, LogAnswer(t, a)
      PROVE  BookTypeOK' /\ QueryTypeOK'
  <2>1. Outcome(a, asker[t].order, asker[t].read) \in Outcomes
    BY DEF Outcome, Outcomes
  <2> QED
    BY <1>3, <1>4, <2>1 DEF LogAnswer
<1>5. ASSUME NEW a \in Answers, BeginRecovery(t, a)
      PROVE  BookTypeOK' /\ QueryTypeOK'
  <2>1. a.charge \in Charges
    BY DEF Answers
  <2> QED
    BY <1>5, <2>1, AskerFields DEF BeginRecovery, bookVars, BookTypeOK, QueryTypeOK
<1>6. CASE RecoverOrder(t)
  <2> DEFINE o == asker[t].order
  <2>1. o \in EcpayOrders /\ o \in Orders
    BY <1>6, AskerFields, OrdersAssumption DEF RecoverOrder
  <2>2. Recovered(asker[t].read, asker[t].charge, orders[o]) \in OrderRows
    BY <1>6, <2>1, AskerFields, RecoveredType DEF RecoverOrder, BookTypeOK
  <2>3. orders' \in [Orders -> OrderRows]
    BY <1>6, <2>1, <2>2 DEF RecoverOrder, BookTypeOK
  <2>4. plans' \in [Orders -> PlanStatuses]
    BY <1>6 DEF RecoverOrder, BookTypeOK, PlanStatuses
  <2>5. queryLog' \subseteq EcpayOrders \X Outcomes
    BY <1>6, <2>1 DEF RecoverOrder, Log, QueryTypeOK, Outcomes
  <2> QED
    BY <1>1, <1>6, <2>3, <2>4, <2>5 DEF RecoverOrder, BookTypeOK, QueryTypeOK, AskerStates
<1>7. CASE AbortQuery(t)
  BY <1>1, <1>7 DEF AbortQuery, bookVars, BookTypeOK, QueryTypeOK, AskerStates
<1>8. CASE QueryFails(t)
  BY <1>3, <1>8 DEF QueryFails, Outcomes
<1> QED
  BY <1>2, <1>4, <1>5, <1>6, <1>7, <1>8 DEF QueryOrder

LEMMA TypesNext == TypeOK /\ [Next]_vars => TypeOK'
<1> SUFFICES ASSUME TypeOK, [Next]_vars
             PROVE  TypeOK'
  OBVIOUS
<1>1. CASE Environment /\ UNCHANGED <<worker, queryVars>>
  BY <1>1, EnvironmentTypes DEF TypeOK, CallbacksTypeOK, QueryTypeOK, queryVars
<1>2. CASE (\E w \in Workers : HandleNotification(w)) /\ UNCHANGED queryVars
  BY <1>2, CallbackTypes DEF TypeOK, QueryTypeOK, queryVars
<1>3. CASE (\E t \in Askers : QueryOrder(t)) /\ UNCHANGED worker
  BY <1>3, QueryTypes DEF TypeOK, CallbacksTypeOK
<1>4. CASE UNCHANGED vars
  BY <1>4 DEF vars, bookVars, queryVars, TypeOK, BookTypeOK, CallbacksTypeOK, QueryTypeOK
<1> QED
  BY <1>1, <1>2, <1>3, <1>4 DEF Next

\* Every column of every table holds a value of its type, and every worker and
\* query thread is in a state its handler has, whatever the order of their
\* steps: the derived status EXPIRED is never stored.
THEOREM TypeCorrect == Spec => []TypeOK
<1>1. Init => TypeOK
  BY OrdersAssumption
  DEF Init, BookInit, CallbacksInit, QueryInit, TypeOK, BookTypeOK, CallbacksTypeOK,
      QueryTypeOK, NewOrder, OrderRows, StoredStatuses, OrderStatuses, PlanStatuses
<1> QED
  BY <1>1, TypesNext, PTL DEF Spec

-----------------------------------------------------------------------------
(* Which steps write orders and plans *)

\* The write transaction of ApplyNotification, for its message.
Commits(w, m) ==
  /\ Committing(w, m)
  /\ AlreadyApplied(m) = {}
  /\ orders' = [orders EXCEPT ![m.charge.order] = Applied(worker[w].read, m, @)]
  /\ plans' = PlansActivatedBy(m)
  /\ Record(m, "APPLIED")

LEMMA Writers ==
  Next => \/ UNCHANGED <<orders, plans>>
          \/ \E w \in Workers, m \in Messages : Commits(w, m)
          \/ \E t \in Askers : RecoverOrder(t)
<1> SUFFICES ASSUME Next
             PROVE  \/ UNCHANGED <<orders, plans>>
                    \/ \E w \in Workers, m \in Messages : Commits(w, m)
                    \/ \E t \in Askers : RecoverOrder(t)
  OBVIOUS
<1>1. CASE Environment
  BY <1>1 DEF Environment, GatewayEvent, DeadlinePasses
<1>2. ASSUME NEW w \in Workers, HandleNotification(w)
      PROVE  UNCHANGED <<orders, plans>> \/ \E m \in Messages : Commits(w, m)
  <2>1. CASE ApplyNotification(w)
    BY <2>1 DEF ApplyNotification, Commits
  <2>2. CASE UNCHANGED <<orders, plans>>
    BY <2>2
  <2> QED
    BY <1>2, <2>1, <2>2
    DEF HandleNotification, RejectSignature, RejectOrderMismatch, AcknowledgeDuplicate,
        BeginNotification, RejectUnknownOrder, RejectAmount, IgnoreTransition,
        StageTransition, DuplicateOnCommit, AbortCallback, bookVars
<1>3. ASSUME NEW t \in Askers, QueryOrder(t)
      PROVE  UNCHANGED <<orders, plans>> \/ RecoverOrder(t)
  BY <1>3
  DEF QueryOrder, AskGateway, QueryFails, LogAnswer, BeginRecovery, AbortQuery, bookVars
<1> QED
  BY <1>1, <1>2, <1>3 DEF Next

\* The logs and what happened at the gateways only grow.
LEMMA LogsGrow ==
  TypeOK /\ [Next]_vars => /\ notifications \subseteq notifications'
                          /\ queryLog \subseteq queryLog'
                          /\ \A c \in Charges : history[c] \subseteq history'[c]
<1> SUFFICES ASSUME TypeOK, [Next]_vars
             PROVE  /\ notifications \subseteq notifications'
                    /\ queryLog \subseteq queryLog'
                    /\ \A c \in Charges : history[c] \subseteq history'[c]
  OBVIOUS
<1>1. CASE Environment /\ UNCHANGED <<worker, queryVars>>
  BY <1>1
  DEF Environment, GatewayEvent, DeadlinePasses, queryVars, TypeOK, BookTypeOK
<1>2. ASSUME NEW w \in Workers, HandleNotification(w), UNCHANGED queryVars
      PROVE  /\ notifications \subseteq notifications'
             /\ UNCHANGED <<queryLog, history>>
  BY <1>2
  DEF HandleNotification, RejectSignature, RejectOrderMismatch, AcknowledgeDuplicate,
      BeginNotification, RejectUnknownOrder, RejectAmount, IgnoreTransition,
      StageTransition, ApplyNotification, DuplicateOnCommit, AbortCallback, Record,
      bookVars, queryVars
<1>3. ASSUME NEW t \in Askers, QueryOrder(t)
      PROVE  /\ queryLog \subseteq queryLog'
             /\ UNCHANGED <<notifications, history>>
  BY <1>3
  DEF QueryOrder, AskGateway, QueryFails, LogAnswer, BeginRecovery, RecoverOrder,
      AbortQuery, Log, bookVars
<1> QED
  BY <1>1, <1>2, <1>3 DEF Next, vars, bookVars, queryVars

\* A commit makes an order PAID only for a PAID event of it.
LEMMA CommitPays ==
  ASSUME TypeOK, NEW w \in Workers, NEW m \in Messages, Commits(w, m),
         NEW o \in Orders, orders'[o].status = "PAID"
  PROVE  orders[o].status = "PAID" \/ (m.charge.order = o /\ m.event = "PAID")
<1>1. CASE m.charge.order = o
  <2> DEFINE target == OrderTarget(Kind(m), Success(m))
             read == worker[w].read
  <2>1. orders'[o] = Applied(read, m, orders[o])
    BY <1>1 DEF Commits, TypeOK, BookTypeOK
  <2>2. orders'[o].status = IF target # read.status THEN target ELSE orders[o].status
    BY <2>1 DEF Applied, WriteBack, ApplyOrderTransition
  <2>3. target = "PAID" => m.event = "PAID"
    BY DEF OrderTarget, Kind, Success, Messages, Events
  <2> QED
    BY <1>1, <2>2, <2>3
<1>2. CASE m.charge.order # o
  BY <1>2 DEF Commits, TypeOK, BookTypeOK
<1> QED
  BY <1>1, <1>2

\* A recovery makes PAID only the order it is about, and pays it.
LEMMA RecoveryPays ==
  ASSUME TypeOK, NEW t \in Askers, RecoverOrder(t), NEW o \in Orders
  PROVE  /\ o # asker[t].order => orders'[o] = orders[o] /\ plans'[o] = plans[o]
         /\ o = asker[t].order => plans'[o] # "PENDING"
BY DEF RecoverOrder, TypeOK, BookTypeOK

-----------------------------------------------------------------------------
(* Money *)

\* What a worker holds was said by a gateway of something that happened.
Heard ==
  \A w \in Workers : worker[w] # Idle =>
    worker[w].msg.genuine /\ worker[w].msg.event \in history[worker[w].msg.charge]

\* What a worker is about to commit has the amount of its order.
Checked ==
  \A w \in Workers : worker[w].phase = "commit" => worker[w].msg.charge.amountOk

\* What a query is about to recover was paid, in full, for that order.
Told ==
  \A t \in Askers : asker[t].phase = "recovering" =>
    /\ asker[t].charge.order = asker[t].order
    /\ "PAID" \in history[asker[t].charge]
    /\ asker[t].charge.amountOk

PaymentInv == TypeOK /\ Heard /\ Checked /\ Told /\ PaidIsReal /\ PlanFollowsPayment

LEMMA HeardNext == PaymentInv /\ [Next]_vars => Heard' /\ Checked'
<1> SUFFICES ASSUME PaymentInv, [Next]_vars
             PROVE  Heard' /\ Checked'
  OBVIOUS
<1>1. \A c \in Charges : history[c] \subseteq history'[c]
  BY LogsGrow DEF PaymentInv
<1>2. \A w \in Workers : worker[w] # Idle => worker[w].msg.charge \in Charges
  BY WorkerFields DEF PaymentInv, TypeOK, Messages
<1> USE DEF Heard, Checked, PaymentInv
<1>3. CASE worker' = worker
  BY <1>1, <1>2, <1>3
<1>4. ASSUME NEW w \in Workers, HandleNotification(w)
      PROVE  Heard' /\ Checked'
  <2>1. worker \in [Workers -> WorkerStates] /\ history' = history
    BY <1>4
    DEF TypeOK, CallbacksTypeOK, WorkerStates, HandleNotification, RejectSignature,
        RejectOrderMismatch, AcknowledgeDuplicate, BeginNotification,
        RejectUnknownOrder, RejectAmount, IgnoreTransition, StageTransition,
        ApplyNotification, DuplicateOnCommit, AbortCallback, bookVars
  <2>2. ASSUME NEW m \in Messages, BeginNotification(w, m)
        PROVE  Heard' /\ Checked'
    <3>1. /\ worker'[w] = [phase |-> "lookup", msg |-> m]
          /\ \A v \in Workers : v # w => worker'[v] = worker[v]
      BY <2>1, <2>2 DEF BeginNotification
    <3> QED
      BY <2>1, <2>2, <3>1 DEF BeginNotification, Deliverable
  <2>3. CASE StageTransition(w)
    <3>1. PICK m \in Messages :
            /\ worker[w].phase = "lookup" /\ m = worker[w].msg
            /\ m.charge.amountOk
            /\ worker' = [worker EXCEPT ![w] = [phase |-> "commit", msg |-> m,
                                                read |-> orders[m.charge.order]]]
      BY <2>3 DEF StageTransition, LookingUp
    <3>2. /\ worker'[w].msg = m
          /\ \A v \in Workers : v # w => worker'[v] = worker[v]
      BY <2>1, <3>1
    <3>3. worker[w] # Idle
      BY <3>1, WorkerFields DEF TypeOK
    <3> QED
      BY <2>1, <3>1, <3>2, <3>3
  <2>4. CASE Finish(w)
    <3>1. /\ worker'[w] = Idle
          /\ \A v \in Workers : v # w => worker'[v] = worker[v]
      BY <2>1, <2>4 DEF Finish
    <3> QED
      BY <2>1, <3>1 DEF Idle
  <2> QED
    BY <1>3, <1>4, <2>2, <2>3, <2>4
    DEF HandleNotification, RejectSignature, RejectOrderMismatch, AcknowledgeDuplicate,
        RejectUnknownOrder, RejectAmount, IgnoreTransition, ApplyNotification,
        DuplicateOnCommit, AbortCallback
<1> QED
  BY <1>3, <1>4 DEF Next, Environment, vars

LEMMA ToldNext == PaymentInv /\ [Next]_vars => Told'
<1> SUFFICES ASSUME PaymentInv, [Next]_vars
             PROVE  Told'
  OBVIOUS
<1>1. \A c \in Charges : history[c] \subseteq history'[c]
  BY LogsGrow DEF PaymentInv
<1>2. \A t \in Askers : asker[t].phase = "recovering" => asker[t].charge \in Charges
  BY AskerFields DEF PaymentInv, TypeOK
<1> USE DEF Told, PaymentInv
<1>3. CASE asker' = asker
  BY <1>1, <1>2, <1>3
<1>4. ASSUME NEW t \in Askers, QueryOrder(t)
      PROVE  Told'
  <2>1. asker \in [Askers -> AskerStates] /\ history' = history
    BY <1>4
    DEF TypeOK, QueryTypeOK, AskerStates, QueryOrder, AskGateway, QueryFails, LogAnswer,
        BeginRecovery, RecoverOrder, AbortQuery, bookVars
  <2>2. ASSUME NEW o \in EcpayOrders, AskGateway(t, o)
        PROVE  Told'
    <3>1. /\ asker'[t].phase = "asking"
          /\ \A u \in Askers : u # t => asker'[u] = asker[u]
      BY <2>1, <2>2 DEF AskGateway
    <3> QED
      BY <2>1, <3>1
  <2>3. ASSUME NEW a \in Answers, BeginRecovery(t, a)
        PROVE  Told'
    <3>1. /\ asker'[t].charge = a.charge /\ asker'[t].order = asker[t].order
          /\ \A u \in Askers : u # t => asker'[u] = asker[u]
      BY <2>1, <2>3 DEF BeginRecovery
    <3>2. /\ a.charge.order = asker[t].order /\ a.charge.amountOk
          /\ a.genuine /\ a.status = "1"
      BY <2>3 DEF BeginRecovery, Outcome, Answers
    <3>3. "PAID" \in history[a.charge]
      BY <2>3, <3>2 DEF BeginRecovery, Truthful
    <3> QED
      BY <2>1, <3>1, <3>2, <3>3
  <2>4. CASE StopAsking(t)
    <3>1. /\ asker'[t] = NotAsking
          /\ \A u \in Askers : u # t => asker'[u] = asker[u]
      BY <2>1, <2>4 DEF StopAsking
    <3> QED
      BY <2>1, <3>1 DEF NotAsking
  <2> QED
    BY <1>4, <2>2, <2>3, <2>4 DEF QueryOrder, QueryFails, LogAnswer, RecoverOrder, AbortQuery
<1> QED
  BY <1>3, <1>4 DEF Next, queryVars, vars

\* A payment in full stays one.
RealPayment(o) == \E c \in PaidCharges(o) : c.amountOk

LEMMA PaymentsStay ==
  TypeOK /\ [Next]_vars => \A o : RealPayment(o) => RealPayment(o)'
BY LogsGrow DEF RealPayment, PaidCharges

LEMMA MoneyNext ==
  PaymentInv /\ [Next]_vars => PaidIsReal' /\ PlanFollowsPayment'
<1> SUFFICES ASSUME PaymentInv, [Next]_vars, NEW o \in Orders
             PROVE  /\ orders'[o].status = "PAID" => RealPayment(o)'
                    /\ orders'[o].status = "PAID" => plans'[o] # "PENDING"
                    /\ plans'[o] = "ACTIVE" => RealPayment(o)'
  BY DEF PaidIsReal, PlanFollowsPayment, RealPayment
<1>1. TypeOK
  BY DEF PaymentInv
<1>2. RealPayment(o) => RealPayment(o)'
  BY <1>1, PaymentsStay
<1>3. /\ orders[o].status = "PAID" => RealPayment(o) /\ plans[o] # "PENDING"
      /\ plans[o] = "ACTIVE" => RealPayment(o)
  BY DEF PaymentInv, PaidIsReal, PlanFollowsPayment, RealPayment
<1>4. CASE UNCHANGED <<orders, plans>>
  BY <1>2, <1>3, <1>4
<1>5. ASSUME NEW w \in Workers, NEW m \in Messages, Commits(w, m)
      PROVE  /\ orders'[o].status = "PAID" => RealPayment(o)'
             /\ orders'[o].status = "PAID" => plans'[o] # "PENDING"
             /\ plans'[o] = "ACTIVE" => RealPayment(o)'
  <2>1. /\ worker[w] # Idle /\ worker[w].msg = m
        /\ m.event \in history[m.charge] /\ m.charge.amountOk
        /\ m.charge \in Charges
    BY <1>1, <1>5, WorkerFields
    DEF Commits, Committing, PaymentInv, Heard, Checked, TypeOK, Messages
  <2>2. m.event = "PAID" /\ m.charge.order = o => RealPayment(o)
    BY <2>1 DEF RealPayment, PaidCharges
  <2>3. /\ m.event = "PAID" /\ m.charge.order = o => plans'[o] # "PENDING"
        /\ ~(m.event = "PAID" /\ m.charge.order = o) => plans'[o] = plans[o]
    BY <1>1, <1>5 DEF Commits, PlansActivatedBy, TypeOK, BookTypeOK
  <2>4. orders'[o].status = "PAID" =>
          orders[o].status = "PAID" \/ (m.charge.order = o /\ m.event = "PAID")
    BY <1>1, <1>5, CommitPays
  <2> QED
    BY <1>2, <1>3, <2>2, <2>3, <2>4
<1>6. ASSUME NEW t \in Askers, RecoverOrder(t)
      PROVE  /\ orders'[o].status = "PAID" => RealPayment(o)'
             /\ orders'[o].status = "PAID" => plans'[o] # "PENDING"
             /\ plans'[o] = "ACTIVE" => RealPayment(o)'
  <2>1. o = asker[t].order => RealPayment(o)
    BY <1>1, <1>6, AskerFields
    DEF RecoverOrder, PaymentInv, Told, TypeOK, RealPayment, PaidCharges
  <2> QED
    BY <1>1, <1>2, <1>3, <1>6, <2>1, RecoveryPays
<1> QED
  BY <1>4, <1>5, <1>6, Writers DEF vars, bookVars

LEMMA PaymentInvNext == PaymentInv /\ [Next]_vars => PaymentInv'
BY TypesNext, HeardNext, ToldNext, MoneyNext DEF PaymentInv

LEMMA PaymentInvInit == Init => PaymentInv
<1> SUFFICES ASSUME Init
             PROVE  PaymentInv
  OBVIOUS
<1>1. TypeOK
  BY OrdersAssumption
  DEF Init, BookInit, CallbacksInit, QueryInit, TypeOK, BookTypeOK, CallbacksTypeOK,
      QueryTypeOK, NewOrder, OrderRows, StoredStatuses, OrderStatuses, PlanStatuses
<1>2. Heard /\ Checked /\ Told
  BY DEF Init, CallbacksInit, QueryInit, Heard, Checked, Told, Idle, NotAsking
<1>3. PaidIsReal /\ PlanFollowsPayment
  BY DEF Init, BookInit, NewOrder, PaidIsReal, PlanFollowsPayment
<1> QED
  BY <1>1, <1>2, <1>3 DEF PaymentInv

\* An order is PAID only if a gateway holds a payment of its amount for its
\* order number: no message, reply, race, crash or repetition makes one up.
THEOREM PaymentsAreReal == Spec => []PaidIsReal
<1>1. PaymentInv => PaidIsReal
  BY DEF PaymentInv
<1> QED
  BY <1>1, PaymentInvInit, PaymentInvNext, PTL DEF Spec

\* The order and its plan are paid and started by one commit, for real money,
\* by callbacks and by queries alike.
THEOREM PlansFollowPayments == Spec => []PlanFollowsPayment
<1>1. PaymentInv => PlanFollowsPayment
  BY DEF PaymentInv
<1> QED
  BY <1>1, PaymentInvInit, PaymentInvNext, PTL DEF Spec

-----------------------------------------------------------------------------
(* The audit trail *)

LEMMA EvidenceNext == TypeOK /\ PaidHasEvidence /\ [Next]_vars => PaidHasEvidence'
<1> DEFINE Evidence(o) ==
             \/ \E r \in Rows("APPLIED") : r.msg.charge.order = o /\ r.msg.event = "PAID"
             \/ <<o, "RECOVERED">> \in queryLog
<1> SUFFICES ASSUME TypeOK, PaidHasEvidence, [Next]_vars, NEW o \in Orders,
                    orders'[o].status = "PAID"
             PROVE  Evidence(o)'
  BY DEF PaidHasEvidence
<1>1. Evidence(o) => Evidence(o)'
  BY LogsGrow DEF Rows
<1>2. orders[o].status = "PAID" => Evidence(o)
  BY DEF PaidHasEvidence
<1>3. CASE UNCHANGED <<orders, plans>>
  BY <1>1, <1>2, <1>3
<1>4. ASSUME NEW w \in Workers, NEW m \in Messages, Commits(w, m)
      PROVE  Evidence(o)'
  <2>1. [msg |-> m, result |-> "APPLIED"] \in notifications'
    BY <1>4 DEF Commits, Record
  <2>2. m.charge.order = o /\ m.event = "PAID" => Evidence(o)'
    BY <2>1 DEF Rows
  <2> QED
    BY <1>1, <1>2, <1>4, <2>2, CommitPays
<1>5. ASSUME NEW t \in Askers, RecoverOrder(t)
      PROVE  Evidence(o)'
  <2>1. asker[t].order = o => Evidence(o)'
    BY <1>5 DEF RecoverOrder, Log
  <2> QED
    BY <1>1, <1>2, <1>5, <2>1, RecoveryPays
<1> QED
  BY <1>3, <1>4, <1>5, Writers DEF vars, bookVars

\* No crash or race leaves a PAID order without the audit row that explains it.
THEOREM PaidOrdersAreExplained == Spec => []PaidHasEvidence
<1>1. Init => PaidHasEvidence
  BY DEF Init, BookInit, NewOrder, PaidHasEvidence
<1> QED
  BY <1>1, EvidenceNext, TypeCorrect, PTL DEF Spec

\* A row is APPLIED only while its key has none, DUPLICATE only once it has.
LEMMA RowsAdded ==
  [Next]_vars =>
    \/ UNCHANGED notifications
    \/ \E m \in Messages \cup {Null}, result \in Results :
         /\ Record(m, result)
         /\ result = "APPLIED" => AlreadyApplied(m) = {}
         /\ result = "DUPLICATE" => AlreadyApplied(m) # {}
<1> DEFINE Added == \E m \in Messages \cup {Null}, result \in Results :
                      /\ Record(m, result)
                      /\ result = "APPLIED" => AlreadyApplied(m) = {}
                      /\ result = "DUPLICATE" => AlreadyApplied(m) # {}
<1> SUFFICES ASSUME [Next]_vars
             PROVE  UNCHANGED notifications \/ Added
  OBVIOUS
<1>1. ASSUME NEW w \in Workers, NEW m \in Messages,
             RejectSignature(w, m) \/ RejectOrderMismatch(w, m) \/ AcknowledgeDuplicate(w, m)
      PROVE  Added
  BY <1>1 DEF RejectSignature, RejectOrderMismatch, AcknowledgeDuplicate, Results
<1>2. ASSUME NEW w \in Workers,
             \/ RejectUnknownOrder(w) \/ RejectAmount(w) \/ IgnoreTransition(w)
             \/ ApplyNotification(w) \/ DuplicateOnCommit(w)
      PROVE  Added
  BY <1>2
  DEF RejectUnknownOrder, RejectAmount, IgnoreTransition, ApplyNotification,
      DuplicateOnCommit, Results
<1>3. CASE UNCHANGED notifications
  BY <1>3
<1> QED
  BY <1>1, <1>2, <1>3
  DEF Next, vars, bookVars, Environment, GatewayEvent, DeadlinePasses,
      HandleNotification, BeginNotification, StageTransition, AbortCallback, QueryOrder,
      AskGateway, QueryFails, LogAnswer, BeginRecovery, RecoverOrder, AbortQuery

\* A trade is booked once, by whichever of its deliveries commits first, and
\* only then are others answered as duplicates: for any number of workers.
THEOREM TradesBookOnce == Spec => []DuplicatesHaveOneOriginal
<1>1. Init => DuplicatesHaveOneOriginal
  BY DEF Init, BookInit, DuplicatesHaveOneOriginal, Rows
<1>2. DuplicatesHaveOneOriginal /\ [Next]_vars => DuplicatesHaveOneOriginal'
  <2> SUFFICES ASSUME DuplicatesHaveOneOriginal, [Next]_vars
               PROVE  DuplicatesHaveOneOriginal'
    OBVIOUS
  <2> USE DEF DuplicatesHaveOneOriginal, AlreadyApplied, Rows
  <2>1. CASE UNCHANGED notifications
    BY <2>1
  <2>2. ASSUME NEW m \in Messages \cup {Null}, NEW result \in Results, Record(m, result),
               result = "APPLIED" => AlreadyApplied(m) = {},
               result = "DUPLICATE" => AlreadyApplied(m) # {}
        PROVE  DuplicatesHaveOneOriginal'
    BY <2>2 DEF Record
  <2> QED
    BY <2>1, <2>2, RowsAdded
<1> QED
  BY <1>1, <1>2, PTL DEF Spec
=============================================================================
