--------------------------- MODULE RefundsProofs ---------------------------
(***************************************************************************)
(* Proofs about Refunds for every set of sessions, orders and requests.    *)
(* Types come first, then who holds the lock, then what holding it buys:   *)
(* the rows a call has read cannot change before its commit.               *)
(***************************************************************************)
EXTENDS Refunds, AtomicRefundsProofs

Calling(s) == session[s].phase \in {"called", "locked", "decided"}

\* What the session states say of a call under way.
LEMMA CallFields ==
  ASSUME TypeOK, NEW s \in Sessions
  PROVE  /\ session[s] = Idle \/ Calling(s)
         /\ Calling(s) => /\ session[s] # Idle
                          /\ session[s].req \in Requests
                          /\ session[s].paid \in BOOLEAN
         /\ session[s].phase = "decided" => session[s].row \in Rows \cup {Nobody}
         /\ session[s] = Idle => session[s].phase = "idle"
BY DEF TypeOK, SessionStates, Calling, Idle

\* Every column holds a value of its type and every session is in a state
\* simulate_refund has, for any number of sessions and requests.
THEOREM TypeCorrect == Spec => []TypeOK
<1>1. Init => TypeOK
  BY DEF Init, TypeOK, SessionStates
<1>2. ASSUME TypeOK, [Next]_vars
      PROVE  TypeOK'
  <2> USE <1>2 DEF TypeOK
  <2>1. ASSUME NEW s \in Sessions, NEW req \in Requests, Call(s, req)
        PROVE  TypeOK'
    BY <2>1 DEF Call, SessionStates
  <2>2. ASSUME NEW s \in Sessions, RefuseTakeover(s) \/ LockTimeout(s)
        PROVE  TypeOK'
    BY <2>2 DEF RefuseTakeover, LockTimeout, SessionStates
  <2>3. ASSUME NEW s \in Sessions, TakeOver(s)
        PROVE  TypeOK'
    <3>1. session[s] \in [phase : {"called", "locked"}, req : Requests, paid : BOOLEAN]
      BY <2>3 DEF TakeOver, SessionStates, Idle
    <3>2. [session[s] EXCEPT !.phase = "locked"] \in SessionStates
      BY <3>1 DEF SessionStates
    <3> QED
      BY <2>3, <3>2 DEF TakeOver
  <2>4. ASSUME NEW s \in Sessions, Decide(s)
        PROVE  TypeOK'
    <3>1. session[s].req \in Requests /\ session[s].paid \in BOOLEAN
      BY <2>4, CallFields DEF Decide, Calling
    <3>2. Decision(session[s].req, session[s].paid) \in Rows \cup {Nobody}
      BY <3>1, DecisionType
    <3> QED
      BY <2>4, <3>1, <3>2 DEF Decide, SessionStates
  <2>5. ASSUME NEW s \in Sessions, EndTransaction(s)
        PROVE  /\ writer' \in Sessions \cup {Nobody}
               /\ session' \in [Sessions -> SessionStates]
               /\ work' \in [Sessions -> {"none", "unflushed", "flushed"}]
    BY <2>5 DEF EndTransaction, SessionStates
  <2>6. ASSUME NEW s \in Sessions,
               CommitReplay(s) \/ RollbackUnstorable(s) \/ AbortRefund(s)
        PROVE  TypeOK'
    BY <2>5, <2>6 DEF CommitReplay, RollbackUnstorable, AbortRefund
  <2>7. ASSUME NEW s \in Sessions, CommitRow(s)
        PROVE  TypeOK'
    <3>1. session[s].row \in Rows
      BY <2>7, CallFields DEF CommitRow
    <3> QED
      BY <2>5, <2>7, <3>1 DEF CommitRow
  <2>8. ASSUME NEW s \in Callers, Caller(s)
        PROVE  TypeOK'
    BY <2>8, SessionsAssumption DEF Caller, CallerAdds, CallerFlushes, CallerEnds
  <2>9. ASSUME NEW o \in Orders, OrderIsPaid(o)
        PROVE  TypeOK'
    BY <2>9 DEF OrderIsPaid
  <2>10. CASE UNCHANGED vars
    BY <2>10 DEF vars
  <2> QED
    BY <2>1, <2>2, <2>3, <2>4, <2>6, <2>7, <2>8, <2>9, <2>10 DEF Next, Step
<1> QED
  BY <1>1, <1>2, PTL DEF Spec

-----------------------------------------------------------------------------
(* The lock *)

\* A call that took over has no caller's work beside it.
NoWorkInside ==
  \A s \in Sessions : session[s].phase \in {"locked", "decided"} => work[s] = "none"

LockInv == TypeOK /\ LockHasOwner /\ NoWorkInside

LEMMA LockInvInit == Init => LockInv
BY SessionsAssumption DEF Init, LockInv, TypeOK, SessionStates, LockHasOwner,
   NoWorkInside, Idle

LEMMA LockInvNext == LockInv /\ TypeOK' /\ [Next]_vars => LockInv'
<1> SUFFICES ASSUME LockInv, TypeOK', [Next]_vars
             PROVE  LockHasOwner' /\ NoWorkInside'
  BY DEF LockInv
<1> USE SessionsAssumption DEF LockInv, TypeOK, LockHasOwner, NoWorkInside
<1>1. ASSUME NEW s \in Sessions, NEW req \in Requests, Call(s, req)
      PROVE  LockHasOwner' /\ NoWorkInside'
  BY <1>1 DEF Call, Idle
<1>2. ASSUME NEW s \in Sessions, RefuseTakeover(s) \/ LockTimeout(s)
      PROVE  LockHasOwner' /\ NoWorkInside'
  BY <1>2 DEF RefuseTakeover, LockTimeout, Idle
<1>3. ASSUME NEW s \in Sessions, TakeOver(s)
      PROVE  LockHasOwner' /\ NoWorkInside'
  <2>1. session'[s].phase = "locked"
    BY <1>3 DEF TakeOver, SessionStates, Idle
  <2>2. \A q \in Sessions : q # s => session'[q] = session[q]
    BY <1>3 DEF TakeOver
  <2> QED
    BY <1>3, <2>1, <2>2 DEF TakeOver
<1>4. ASSUME NEW s \in Sessions, Decide(s)
      PROVE  LockHasOwner' /\ NoWorkInside'
  BY <1>4 DEF Decide
<1>5. ASSUME NEW s \in Sessions, session[s].phase \in {"locked", "decided"},
             EndTransaction(s)
      PROVE  LockHasOwner' /\ NoWorkInside'
  BY <1>5 DEF EndTransaction, Idle
<1>6. ASSUME NEW s \in Callers, Caller(s)
      PROVE  LockHasOwner' /\ NoWorkInside'
  BY <1>6 DEF Caller, CallerAdds, CallerFlushes, CallerEnds, Idle
<1>7. ASSUME NEW o \in Orders, OrderIsPaid(o)
      PROVE  LockHasOwner' /\ NoWorkInside'
  BY <1>7 DEF OrderIsPaid
<1>8. CASE UNCHANGED vars
  BY <1>8 DEF vars
<1> QED
  BY <1>1, <1>2, <1>3, <1>4, <1>5, <1>6, <1>7, <1>8
  DEF Next, Step, CommitReplay, CommitRow, RollbackUnstorable, AbortRefund

\* The write lock belongs to the one session whose transaction is open, and
\* every path out of simulate_refund gives it back.
THEOREM LockIsOwned == Spec => []LockHasOwner
<1>1. LockInv => LockHasOwner
  BY DEF LockInv
<1> QED
  BY <1>1, LockInvInit, LockInvNext, TypeCorrect, PTL DEF Spec

\* simulate_refund neither commits nor rolls back what its caller left in
\* the session.
THEOREM CallerWorkSafe == Spec => CallerWorkIsUntouched
<1>1. LockInv /\ [Next]_vars =>
        [\A s \in Sessions : session[s] # Idle => work'[s] = work[s]]_vars
  <2> SUFFICES ASSUME LockInv, Next, NEW q \in Sessions, session[q] # Idle
               PROVE  work'[q] = work[q]
    OBVIOUS
  <2> USE DEF LockInv, TypeOK, NoWorkInside
  <2>1. ASSUME NEW s \in Sessions, session[s].phase \in {"locked", "decided"},
               EndTransaction(s)
        PROVE  work'[q] = work[q]
    BY <2>1 DEF EndTransaction
  <2>2. ASSUME NEW s \in Callers, Caller(s)
        PROVE  work'[q] = work[q]
    BY <2>2, SessionsAssumption DEF Caller, CallerAdds, CallerFlushes, CallerEnds
  <2>3. CASE UNCHANGED work
    BY <2>3
  <2> QED
    BY <2>1, <2>2, <2>3
    DEF Next, Step, Call, RefuseTakeover, LockTimeout, TakeOver, Decide, CommitReplay,
        CommitRow, RollbackUnstorable, AbortRefund, OrderIsPaid
<1> QED
  BY <1>1, LockInvInit, LockInvNext, TypeCorrect, PTL DEF Spec, CallerWorkIsUntouched

-----------------------------------------------------------------------------
(* What the lock buys *)

\* An order that a call has read as PAID is PAID.
ReadPaid ==
  \A s \in Sessions : Calling(s) /\ session[s].paid => session[s].req.order \in paid

RefundInv == LockInv /\ DecisionIsCurrent /\ ReadPaid

\* Two sessions are never inside their transactions together.
LEMMA OneInside ==
  ASSUME LockInv, NEW s \in Sessions, NEW q \in Sessions,
         session[s].phase \in {"locked", "decided"},
         session[q].phase \in {"locked", "decided"}
  PROVE  s = q
BY DEF LockInv, LockHasOwner

\* A decision is a function of the table.
LEMMA DecisionOfTable ==
  refunds' = refunds =>
    \A req, wasPaid : Decision(req, wasPaid)' = Decision(req, wasPaid)
BY DEF Decision, Existing, Accepts, Refunded, Succeeded, Row, SameParameters

LEMMA RefundInvInit == Init => RefundInv
BY LockInvInit DEF RefundInv, Init, DecisionIsCurrent, ReadPaid, Calling, Idle

LEMMA RefundInvNext == RefundInv /\ LockInv' /\ [Next]_vars => RefundInv'
<1> SUFFICES ASSUME RefundInv, LockInv', [Next]_vars
             PROVE  DecisionIsCurrent' /\ ReadPaid'
  BY DEF RefundInv
<1>t. TypeOK /\ session \in [Sessions -> SessionStates]
  BY DEF RefundInv, LockInv, TypeOK
<1>1. ASSUME NEW s \in Sessions, session' = [session EXCEPT ![s] = Idle],
             UNCHANGED paid,
             \A q \in Sessions \ {s} :
                session[q].phase = "decided" => refunds' = refunds
      PROVE  DecisionIsCurrent' /\ ReadPaid'
  <2>1. session'[s].phase = "idle"
    BY <1>1, <1>t DEF Idle
  <2>2. \A q \in Sessions : q # s => session'[q] = session[q]
    BY <1>1, <1>t
  <2>3. ReadPaid'
    BY <1>1, <2>1, <2>2 DEF RefundInv, ReadPaid, Calling
  <2>4. DecisionIsCurrent'
    BY <1>1, <2>1, <2>2, DecisionOfTable DEF RefundInv, DecisionIsCurrent
  <2> QED
    BY <2>3, <2>4
<1>2. ASSUME NEW s \in Sessions, NEW req \in Requests, Call(s, req)
      PROVE  DecisionIsCurrent' /\ ReadPaid'
  <2>1. /\ session'[s] = [phase |-> "called", req |-> req, paid |-> req.order \in paid]
        /\ \A q \in Sessions : q # s => session'[q] = session[q]
    BY <1>2, <1>t DEF Call
  <2>2. /\ session'[s].req = req
        /\ session'[s].paid <=> req.order \in paid
    <3> DEFINE known == req.order \in paid
    <3>1. known \in BOOLEAN /\ (known <=> req.order \in paid)
      OBVIOUS
    <3>2. session'[s] = [phase |-> "called", req |-> req, paid |-> known]
      BY <2>1
    <3> HIDE DEF known
    <3>3. session'[s].req = req /\ session'[s].paid = known
      BY <3>2
    <3> QED
      BY <3>1, <3>3
  <2>3. ReadPaid'
    BY <1>2, <2>1, <2>2 DEF Call, RefundInv, ReadPaid, Calling
  <2>4. DecisionIsCurrent'
    BY <1>2, <2>1, DecisionOfTable DEF Call, RefundInv, DecisionIsCurrent
  <2> QED
    BY <2>3, <2>4
<1>3. ASSUME NEW s \in Sessions, TakeOver(s)
      PROVE  DecisionIsCurrent' /\ ReadPaid'
  <2>1. session[s] \in [phase : {"called", "locked"}, req : Requests, paid : BOOLEAN]
    BY <1>3, <1>t DEF TakeOver, SessionStates, Idle
  <2>2. /\ session'[s].phase = "locked"
        /\ session'[s].req = session[s].req
        /\ session'[s].paid = session[s].paid
        /\ \A q \in Sessions : q # s => session'[q] = session[q]
    BY <1>3, <1>t, <2>1 DEF TakeOver
  <2>3. ReadPaid'
    BY <1>3, <2>2 DEF TakeOver, RefundInv, ReadPaid, Calling
  <2>4. DecisionIsCurrent'
    BY <1>3, <2>2, DecisionOfTable DEF TakeOver, RefundInv, DecisionIsCurrent
  <2> QED
    BY <2>3, <2>4
<1>4. ASSUME NEW s \in Sessions, Decide(s)
      PROVE  DecisionIsCurrent' /\ ReadPaid'
  <2>1. /\ session'[s].phase = "decided"
        /\ session'[s].req = session[s].req
        /\ session'[s].paid = session[s].paid
        /\ session'[s].row = Decision(session[s].req, session[s].paid)
        /\ \A q \in Sessions : q # s => session'[q] = session[q]
    BY <1>4, <1>t DEF Decide
  <2>2. ReadPaid'
    BY <1>4, <2>1 DEF Decide, RefundInv, ReadPaid, Calling
  <2>3. DecisionIsCurrent'
    BY <1>4, <2>1, DecisionOfTable DEF Decide, RefundInv, DecisionIsCurrent
  <2> QED
    BY <2>2, <2>3
<1>5. ASSUME NEW s \in Sessions,
             \/ RefuseTakeover(s) \/ LockTimeout(s) \/ CommitReplay(s)
             \/ RollbackUnstorable(s) \/ AbortRefund(s)
      PROVE  DecisionIsCurrent' /\ ReadPaid'
  BY <1>1, <1>5 DEF RefuseTakeover, LockTimeout, CommitReplay, RollbackUnstorable,
     AbortRefund, EndTransaction
<1>6. ASSUME NEW s \in Sessions, CommitRow(s)
      PROVE  DecisionIsCurrent' /\ ReadPaid'
  <2>1. \A q \in Sessions \ {s} : session[q].phase # "decided"
    BY <1>6, OneInside DEF CommitRow, RefundInv
  <2> QED
    BY <1>1, <1>6, <2>1 DEF CommitRow, EndTransaction
<1>7. ASSUME NEW o \in Orders, OrderIsPaid(o)
      PROVE  DecisionIsCurrent' /\ ReadPaid'
  BY <1>7, DecisionOfTable
  DEF OrderIsPaid, RefundInv, DecisionIsCurrent, ReadPaid, Calling
<1>8. CASE UNCHANGED <<session, refunds, paid>>
  BY <1>8, DecisionOfTable DEF RefundInv, DecisionIsCurrent, ReadPaid, Calling
<1> QED
  BY <1>2, <1>3, <1>4, <1>5, <1>6, <1>7, <1>8
  DEF Next, Step, Caller, CallerAdds, CallerFlushes, CallerEnds, vars

\* Nothing is booked between the reads of a call and its commit, so what it
\* commits is the policy's answer on the rows it is added to.
THEOREM DecisionsAreCurrent == Spec => []DecisionIsCurrent
<1>1. RefundInv => DecisionIsCurrent
  BY DEF RefundInv
<1> QED
  BY <1>1, LockInvInit, LockInvNext, RefundInvInit, RefundInvNext, TypeCorrect, PTL
  DEF Spec

-----------------------------------------------------------------------------
(* What is in the table *)

\* The row a commit inserts is the one Decision names, for a request whose
\* order is known to be paid if the call read it so.
LEMMA InsertedRow ==
  ASSUME RefundInv, NEW s \in Sessions, CommitRow(s)
  PROVE  /\ session[s].req \in Requests /\ session[s].paid \in BOOLEAN
         /\ session[s].paid => session[s].req.order \in paid
         /\ Decision(session[s].req, session[s].paid) # Nobody
         /\ Decision(session[s].req, session[s].paid).amount > 0
         /\ refunds' = refunds \cup {Decision(session[s].req, session[s].paid)}
         /\ UNCHANGED paid
<1>1. TypeOK /\ session[s].phase = "decided"
  BY DEF RefundInv, LockInv, CommitRow
<1>2. Calling(s)
  BY <1>1 DEF Calling
<1> QED
  BY <1>1, <1>2, CallFields
  DEF CommitRow, RefundInv, DecisionIsCurrent, ReadPaid

TableInv == OneRowPerKey /\ RefundsAreOfPaidOrders

LEMMA TableInvNext == RefundInv /\ TableInv /\ [Next]_vars => TableInv'
<1> SUFFICES ASSUME RefundInv, TableInv, [Next]_vars
             PROVE  TableInv'
  OBVIOUS
<1> USE DEF TableInv, OneRowPerKey, RefundsAreOfPaidOrders
<1>1. ASSUME NEW s \in Sessions, CommitRow(s)
      PROVE  TableInv'
  <2> DEFINE req == session[s].req
             wasPaid == session[s].paid
             row == Decision(req, wasPaid)
  <2>1. /\ req \in Requests /\ wasPaid \in BOOLEAN
        /\ wasPaid => req.order \in paid
        /\ row # Nobody
        /\ refunds' = refunds \cup {row}
        /\ paid' = paid
    BY <1>1, InsertedRow
  <2>2. ~row.conflict => /\ row.key = req.key
                         /\ Existing(req.key) = {}
    BY <2>1 DEF Decision, Row
  <2>3. row.status = "SIMULATED_SUCCEEDED" =>
          row.order = req.order /\ wasPaid /\ req.order \in CardOrders
    BY <2>1 DEF Decision, Row, Accepts
  <2>4. OneRowPerKey'
    BY <2>1, <2>2 DEF Existing
  <2>5. RefundsAreOfPaidOrders'
    BY <2>1, <2>3
  <2> QED
    BY <2>4, <2>5
<1>2. CASE refunds' = refunds /\ paid \subseteq paid'
  BY <1>2
<1> QED
  BY <1>1, <1>2
  DEF Next, Step, Call, RefuseTakeover, LockTimeout, TakeOver, Decide, CommitReplay,
      RollbackUnstorable, AbortRefund, OrderIsPaid, Caller, CallerAdds, CallerFlushes,
      CallerEnds, vars

\* A key books one row at most: the lock alone ensures it, before the unique
\* index on the column has to.
THEOREM KeysBookOnce == Spec => []OneRowPerKey
<1>1. Init => TableInv
  BY DEF Init, TableInv, OneRowPerKey, RefundsAreOfPaidOrders
<1>2. TableInv => OneRowPerKey
  BY DEF TableInv
<1> QED
  BY <1>1, <1>2, LockInvInit, LockInvNext, RefundInvInit, RefundInvNext, TableInvNext,
     TypeCorrect, PTL
  DEF Spec

\* Every simulated refund is of an order that is PAID, by card, at ECPay.
THEOREM RefundsOnlyPaidOrders == Spec => []RefundsAreOfPaidOrders
<1>1. Init => TableInv
  BY DEF Init, TableInv, OneRowPerKey, RefundsAreOfPaidOrders
<1>2. TableInv => RefundsAreOfPaidOrders
  BY DEF TableInv
<1> QED
  BY <1>1, <1>2, LockInvInit, LockInvNext, RefundInvInit, RefundInvNext, TableInvNext,
     TypeCorrect, PTL
  DEF Spec

-----------------------------------------------------------------------------
(* The implementation of AtomicRefunds *)

LEMMA StepRefines == RefundInv /\ [Next]_vars => [AtomicNext]_<<paid, refunds>>
<1> SUFFICES ASSUME RefundInv, [Next]_vars, ~UNCHANGED <<paid, refunds>>
             PROVE  AtomicNext
  OBVIOUS
<1>1. ASSUME NEW s \in Sessions, CommitRow(s)
      PROVE  AtomicNext
  BY <1>1, InsertedRow DEF AtomicNext, Book
<1>2. ASSUME NEW o \in Orders, OrderIsPaid(o)
      PROVE  AtomicNext
  BY <1>2 DEF OrderIsPaid, AtomicNext, Pay
<1> QED
  BY <1>1, <1>2
  DEF Next, Step, Call, RefuseTakeover, LockTimeout, TakeOver, Decide, CommitReplay,
      RollbackUnstorable, AbortRefund, Caller, CallerAdds, CallerFlushes, CallerEnds, vars

\* Any number of concurrent, failing and repeated calls of simulate_refund
\* leave a table that calls run one after another could have left.
THEOREM CallsAreAtomic == Spec => ImplementsAtomicRefunds
<1>1. Init => AtomicInit
  BY DEF Init, AtomicInit
<1> QED
  BY <1>1, StepRefines, LockInvInit, LockInvNext, RefundInvInit, RefundInvNext,
     TypeCorrect, PTL
  DEF Spec, ImplementsAtomicRefunds, AtomicRefundsSpec

\* Any number of sessions that race for an order, fail half way and are called
\* again refund it up to its amount and no further, and nothing after a void:
\* the calls are atomic, and atomic calls stay within the amount.
THEOREM RefundsStayWithinAmount == Spec => []RefundsWithinAmount
BY CallsAreAtomic, AtomicCallsStayWithinAmount, PTL DEF ImplementsAtomicRefunds
=============================================================================
