---------------------------- MODULE OrderSystem ----------------------------
(***************************************************************************)
(* The callback workers and the query threads on one database, with the    *)
(* gateways as environment.                                                *)
(***************************************************************************)
EXTENDS Callbacks, QueryRecovery

vars == <<bookVars, worker, queryVars>>

Init == BookInit /\ CallbacksInit /\ QueryInit

Environment ==
  \/ \E c \in Charges, e \in Events : GatewayEvent(c, e)
  \/ \E o \in Orders : DeadlinePasses(o)

Next ==
  \/ Environment /\ UNCHANGED <<worker, queryVars>>
  \/ (\E w \in Workers : HandleNotification(w)) /\ UNCHANGED queryVars
  \/ (\E t \in Askers : QueryOrder(t)) /\ UNCHANGED worker

Spec == Init /\ [][Next]_vars

TypeOK == BookTypeOK /\ CallbacksTypeOK /\ QueryTypeOK

-----------------------------------------------------------------------------
(* Safety under every interleaving *)

Settled(o) == orders[o].status \in TerminalStatuses

\* No order is PAID unless a gateway really holds a payment of the order's
\* amount for that order number, whatever forged, wrong or late messages and
\* replies arrive and whoever else writes in between.
PaidIsReal ==
  \A o \in Orders : orders[o].status = "PAID" =>
    \E c \in PaidCharges(o) : c.amountOk

\* Every PAID order has, committed with it, the APPLIED row of a payment
\* notification or the RECOVERED row of a query: no crash leaves one without
\* the other.
PaidHasEvidence ==
  \A o \in Orders : orders[o].status = "PAID" =>
    \/ \E r \in Rows("APPLIED") : r.msg.charge.order = o /\ r.msg.event = "PAID"
    \/ <<o, "RECOVERED">> \in queryLog

\* The first payment and the plan it starts are one commit on both paths: an
\* order that is PAID never has a plan still waiting for it, and no plan runs
\* that the gateway was not paid for.
PlanFollowsPayment ==
  \A o \in Orders :
    /\ orders[o].status = "PAID" => plans[o] # "PENDING"
    /\ plans[o] = "ACTIVE" => \E c \in PaidCharges(o) : c.amountOk

\* A notification is answered as a duplicate only when its trade and kind
\* have an APPLIED row; there is one such row at most, so no repetition or
\* race of deliveries books a trade twice.
DuplicatesHaveOneOriginal ==
  /\ \A r \in Rows("DUPLICATE") : AlreadyApplied(r.msg) # {}
  /\ \A r, s \in Rows("APPLIED") :
       AppliedKey(r.msg) = AppliedKey(s.msg) => r = s

-----------------------------------------------------------------------------
(* Safety with one server process *)

\* With one event loop, a payment notification that was answered with success
\* (and so will not be sent again) is of an order that is settled.
AcknowledgedPaymentsAreSettled ==
  \A m \in Messages :
    (m.event = "PAID" /\ Acknowledged(m)) => Settled(m.charge.order)

\* A DUPLICATE answer is given for the order whose notification was applied,
\* never for another order with the same trade number (the test
\* test_duplicate_trade_no_with_different_order_no_is_rejected).
DuplicatesAreOfOneOrder ==
  \A r \in Rows("DUPLICATE"), s \in Rows("APPLIED") :
    AppliedKey(r.msg) = AppliedKey(s.msg)
      => r.msg.charge.order = s.msg.charge.order

\* The APPLIED rows of an order, when callbacks alone write: its status, its
\* trade number and paid_at are those of its one final row, or before there is
\* one those of the issued account; the account is that of its one issued row.
\* What no row has set is as create_order left it.
LedgerExplainsOrders ==
  \A o \in Orders :
    LET msgs == {r.msg : r \in {s \in Rows("APPLIED") : s.msg.charge.order = o}}
        final == {m \in msgs : Kind(m) = "PAYMENT_RESULT"}
        issued == msgs \ final
    IN  /\ \A m, n \in final : m = n
        /\ \A m, n \in issued : m = n
        /\ \A m \in final : /\ orders[o].status = OrderTarget(Kind(m), Success(m))
                            /\ orders[o].trade = m.charge.trade
        /\ \A m \in issued : orders[o].account = m.charge.trade
        /\ issued = {} => orders[o].account = Null
        /\ final = {} => orders[o].trade = orders[o].account
        /\ final = {} => orders[o].status =
                           IF issued = {} THEN "PENDING" ELSE "AWAITING_PAYMENT"
        /\ orders[o].paid <=> orders[o].status = "PAID"

\* What genuine notifications with the order's amount say of it.
ReportsOf(o) ==
  {<<Kind(m), Success(m)>> :
     m \in {n \in Messages : /\ n.genuine /\ Deliverable(n)
                            /\ n.charge.order = o /\ n.charge.amountOk}}

\* With one worker and no queries a callback is as good as one step, although
\* it reads twice and then commits: no order is moved off the matrix, without
\* a report of its gateway, or without its plan.
Lifecycle == INSTANCE OrderLifecycle
               WITH status <- [o \in Orders |-> orders[o].status],
                    plan <- plans,
                    reported <- [o \in Orders |-> ReportsOf(o)]

ImplementsLifecycle == Lifecycle!Spec

\* An order that was shown as EXPIRED is only ever shown as that or as PAID
\* afterwards (VALID_ORDER_TRANSITIONS and the parametrised test of it).
ExpiredOnlyGetsPaid ==
  [][\A o \in Orders : EffectiveStatus(o) = "EXPIRED"
        => EffectiveStatus(o)' \in {"EXPIRED", "PAID"}]_vars

\* A query makes PAID only an order that is pending or awaiting payment when it
\* writes: it neither applies a payment twice nor moves an order off a final
\* status (docs/gateway-notes.md 8.2).
RecoversOnlyOpenOrders ==
  [][\A t \in Askers : RecoverOrder(t) => ~Settled(asker[t].order)]_vars

-----------------------------------------------------------------------------
(* Liveness *)

PaidAtEcpay(o) == \E c \in PaidCharges(o) : c.gateway = "ECPAY" /\ c.amountOk

PaidReply(o) ==
  [charge : {c \in PaidCharges(o) : c.gateway = "ECPAY"}, status : {"1"},
   genuine : {TRUE}]

\* Operators keep asking about every ECPay order, the gateway now and then
\* answers, and a write transaction does not fail for ever. Nothing is
\* assumed of notifications.
OperatorsQuery ==
  \A o \in EcpayOrders, t \in Askers :
    /\ SF_vars(AskGateway(t, o) /\ UNCHANGED worker)
    /\ SF_vars(/\ asker[t].phase = "asking" /\ asker[t].order = o
               /\ \E a \in PaidReply(o) : LogAnswer(t, a) \/ BeginRecovery(t, a)
               /\ UNCHANGED worker)
    /\ SF_vars(/\ asker[t].phase = "recovering" /\ asker[t].order = o
               /\ RecoverOrder(t) /\ UNCHANGED worker)

QuerySpec == Spec /\ OperatorsQuery

\* A payment at ECPay whose notification may be lost, late, or abandoned half
\* way leaves its order settled for good.
MissedPaymentRecovered ==
  \A o \in EcpayOrders : [](PaidAtEcpay(o) => <>[]Settled(o))

\* The gateway sends a genuine notification again until it is acknowledged,
\* and a worker that has begun does not abort every time.
Sent == {m \in Messages : m.genuine /\ <<m.charge, m.event>> \in Happening}

GatewaysResend ==
  \A w \in Workers :
    /\ \A m \in Sent :
         SF_vars(/\ ~Acknowledged(m)
                 /\ AcknowledgeDuplicate(w, m) \/ BeginNotification(w, m)
                 /\ UNCHANGED queryVars)
    /\ SF_vars(/\ \/ RejectUnknownOrder(w) \/ RejectAmount(w)
                  \/ IgnoreTransition(w) \/ StageTransition(w)
               /\ UNCHANGED queryVars)
    /\ SF_vars(/\ ApplyNotification(w) \/ DuplicateOnCommit(w)
               /\ UNCHANGED queryVars)

ResendSpec == Spec /\ GatewaysResend

\* A resent notification of a placed order with the right amount is answered
\* with success in the end unless its trade number was booked for another
\* order: no combination of refusals and aborts goes round for ever.
NotificationsAreAcknowledged ==
  \A m \in Sent :
    [](Deliverable(m) /\ m.charge.order \in Orders /\ m.charge.amountOk
       => <>(\/ Acknowledged(m)
             \/ \E r \in AlreadyApplied(m) : r.msg.charge.order # m.charge.order))
=============================================================================
