--------------------------- MODULE QueryRecovery ---------------------------
(***************************************************************************)
(* query_and_recover_order (services/operations.py): an operator asks      *)
(* ECPay about an order and a missed payment is recovered.                 *)
(*                                                                         *)
(* The route is `def`, so each query runs in a thread of the pool beside   *)
(* the event loops. It reads the order, waits up to 30 seconds for the     *)
(* gateway, and decides on the order as it was read before the wait:       *)
(* an asker is Idle, [phase |-> "asking", order, read], or                 *)
(* [phase |-> "recovering", order, read, charge] with the attributes       *)
(* assigned and the write transaction still to come.                       *)
(***************************************************************************)
EXTENDS OrderBook

CONSTANT Askers         \* threads of the pool that may query at the same time

VARIABLES
  asker,
  queryLog      \* table gateway_query_log: rows <<order, outcome>> (see Log)

queryVars == <<asker, queryLog>>

NotAsking == [phase |-> "idle"]

Outcomes == {"RECOVERED", "CONFIRMED_PAID", "UNPAID", "REJECTED_SIGNATURE",
             "REJECTED_ORDER", "REJECTED_AMOUNT", "GATEWAY_ERROR"}

\* A reply as parse_query_response returns it; TradeStatus is "1" (paid),
\* "0" (unpaid) or another code.
Answers == [charge : Charges, status : {"1", "0", "OTHER"}, genuine : BOOLEAN]

\* What ECPay says under its signature is true when it says it.
Truthful(a) ==
  a.genuine =>
    /\ a.charge.gateway = "ECPAY"
    /\ a.status = "1" => "PAID" \in history[a.charge]
    /\ a.status = "0" => PaidCharges(a.charge.order) = {}
    /\ a.status = "OTHER" => "FAILED" \in history[a.charge]

\* Mutant: the order number of the reply is not compared.
OutcomeOfAnyOrder(a, o, read) ==
  IF ~a.genuine THEN "REJECTED_SIGNATURE"
  ELSE IF ~a.charge.amountOk THEN "REJECTED_AMOUNT"
  ELSE IF a.status = "0" THEN "UNPAID"
  ELSE IF a.status = "OTHER" THEN "GATEWAY_ERROR"
  ELSE IF read.status = "PAID" THEN "CONFIRMED_PAID"
  ELSE IF CanTransitionOrder(read.status, "PAID") THEN "RECOVERED"
  ELSE "GATEWAY_ERROR"

\* Mutant: an order with an issued account is not recovered.
OutcomeOfPendingOnly(a, o, read) ==
  IF ~a.genuine THEN "REJECTED_SIGNATURE"
  ELSE IF a.charge.order # o THEN "REJECTED_ORDER"
  ELSE IF ~a.charge.amountOk THEN "REJECTED_AMOUNT"
  ELSE IF a.status = "0" THEN "UNPAID"
  ELSE IF a.status = "OTHER" THEN "GATEWAY_ERROR"
  ELSE IF read.status = "PAID" THEN "CONFIRMED_PAID"
  ELSE IF read.status = "PENDING" THEN "RECOVERED"
  ELSE "GATEWAY_ERROR"

\* The outcome for order o, with the order as it was read before the wait.
Outcome(a, o, read) ==
  IF ~a.genuine THEN "REJECTED_SIGNATURE"
  ELSE IF a.charge.order # o THEN "REJECTED_ORDER"
  ELSE IF ~a.charge.amountOk THEN "REJECTED_AMOUNT"
  ELSE IF a.status = "0" THEN "UNPAID"
  ELSE IF a.status = "OTHER" THEN "GATEWAY_ERROR"
  ELSE IF read.status = "PAID" THEN "CONFIRMED_PAID"
  ELSE IF CanTransitionOrder(read.status, "PAID") THEN "RECOVERED"
  ELSE "GATEWAY_ERROR"

QueryInit ==
  /\ asker = [t \in Askers |-> NotAsking]
  /\ queryLog = {}

QueryTypeOK ==
  /\ asker \in [Askers -> {NotAsking}
                 \cup [phase : {"asking"}, order : EcpayOrders, read : OrderRows]
                 \cup [phase : {"recovering"}, order : EcpayOrders,
                       read : OrderRows, charge : Charges]]
  /\ queryLog \subseteq EcpayOrders \X Outcomes

-----------------------------------------------------------------------------

\* Every outcome is logged; the model keeps the rows of RECOVERED, the one
\* outcome that writes an order. The others are told apart by nothing.
Log(o, outcome) ==
  queryLog' = IF outcome = "RECOVERED" THEN queryLog \cup {<<o, outcome>>}
              ELSE queryLog

StopAsking(t) == asker' = [asker EXCEPT ![t] = NotAsking]

AskGateway(t, o) ==
  /\ asker[t] = NotAsking
  /\ asker' = [asker EXCEPT ![t] = [phase |-> "asking", order |-> o,
                                    read |-> orders[o]]]
  /\ UNCHANGED <<queryLog, bookVars>>

\* HTTP error, timeout, or a body that does not parse.
QueryFails(t) ==
  /\ asker[t].phase = "asking"
  /\ Log(asker[t].order, "GATEWAY_ERROR")
  /\ StopAsking(t)
  /\ UNCHANGED bookVars

\* A reply that changes nothing is logged.
LogAnswer(t, a) ==
  /\ asker[t].phase = "asking"
  /\ Truthful(a)
  /\ LET outcome == Outcome(a, asker[t].order, asker[t].read)
     IN  /\ outcome # "RECOVERED"
         /\ Log(asker[t].order, outcome)
  /\ StopAsking(t)
  /\ UNCHANGED bookVars

\* A verified payment of an order that was read unpaid.
BeginRecovery(t, a) ==
  /\ asker[t].phase = "asking"
  /\ Truthful(a)
  /\ Outcome(a, asker[t].order, asker[t].read) = "RECOVERED"
  /\ asker' = [asker EXCEPT ![t] = [phase |-> "recovering",
                                    order |-> asker[t].order,
                                    read |-> asker[t].read,
                                    charge |-> a.charge]]
  /\ UNCHANGED <<queryLog, bookVars>>

Recovered(read, c, stored) ==
  WriteBack(read,
            [read EXCEPT !.status = "PAID", !.trade = c.trade, !.paid = TRUE],
            stored)

\* Mutant: recovery forgets the plan.
RecoverOrderOnly(t) ==
  /\ asker[t].phase = "recovering"
  /\ LET o == asker[t].order
     IN  /\ orders' = [orders EXCEPT ![o] = Recovered(asker[t].read, asker[t].charge, @)]
         /\ plans' = plans
         /\ Log(o, "RECOVERED")
  /\ StopAsking(t)
  /\ UNCHANGED <<notifications, overdue, history>>

\* The write transaction: the order, its plan if still pending, the log row.
RecoverOrder(t) ==
  /\ asker[t].phase = "recovering"
  /\ LET o == asker[t].order
     IN  /\ orders' = [orders EXCEPT ![o] = Recovered(asker[t].read, asker[t].charge, @)]
         /\ plans' = IF plans[o] = "PENDING" THEN [plans EXCEPT ![o] = "ACTIVE"]
                     ELSE plans
         /\ Log(o, "RECOVERED")
  /\ StopAsking(t)
  /\ UNCHANGED <<notifications, overdue, history>>

\* The process dies or the database fails: the session is rolled back.
AbortQuery(t) ==
  /\ asker[t] # NotAsking
  /\ StopAsking(t)
  /\ UNCHANGED <<queryLog, bookVars>>

QueryOrder(t) ==
  \/ \E o \in EcpayOrders : AskGateway(t, o)
  \/ QueryFails(t)
  \/ \E a \in Answers : LogAnswer(t, a) \/ BeginRecovery(t, a)
  \/ RecoverOrder(t)
  \/ AbortQuery(t)
=============================================================================
