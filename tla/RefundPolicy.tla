---------------------------- MODULE RefundPolicy ----------------------------
(***************************************************************************)
(* The refund policy of services/operations.py: what one call of           *)
(* simulate_refund decides on the rows it finds.                           *)
(***************************************************************************)
EXTENDS Integers, FiniteSetsExt

CONSTANTS
  Orders,        \* the orders
  CardOrders,    \* those of them paid by credit card through ECPay
  Amount,        \* the amount of each order
  Requests,      \* the calls that may be made: [key, order, amount, action]
  Nobody         \* no row, no session

Actions == {"VOID", "REFUND"}

Keys == {req.key : req \in Requests}

ASSUME PolicyAssumption ==
  /\ CardOrders \subseteq Orders
  /\ Amount \in [Orders -> Nat \ {0}]
  /\ Requests \subseteq [key : Keys, order : Orders, amount : Int, action : Actions]

VARIABLES
  paid,       \* the orders whose status is PAID
  refunds     \* table refund_request

\* A conflict row is stored under a fresh key made from the one asked for.
Rows == [key : Keys, conflict : BOOLEAN, order : Orders, amount : Int,
         action : Actions, status : {"SIMULATED_SUCCEEDED", "REJECTED"}]

Existing(key) == {r \in refunds : r.key = key /\ ~r.conflict}

Succeeded(o) == {r \in refunds : r.order = o /\ r.status = "SIMULATED_SUCCEEDED"}

RowAmount(r) == r.amount

\* sum(item.amount for item in previous)
Refunded(o) == MapThenSumSet(RowAmount, Succeeded(o))

\* Mutant: the amount is compared with the order's and not with the rest.
AcceptsWholeAmount(req, wasPaid) ==
  /\ req.order \in CardOrders
  /\ wasPaid
  /\ req.amount > 0
  /\ req.amount <= Amount[req.order]
  /\ req.action = "VOID" => req.amount = Amount[req.order] - Refunded(req.order)

\* Mutant: the status of the order is not looked at.
AcceptsUnpaid(req, wasPaid) ==
  LET remaining == Amount[req.order] - Refunded(req.order)
  IN  /\ req.order \in CardOrders
      /\ req.amount > 0
      /\ req.amount <= remaining
      /\ req.action = "VOID" => req.amount = remaining

\* No rejection applies: gateway and method, status, amount, void.
Accepts(req, wasPaid) ==
  LET remaining == Amount[req.order] - Refunded(req.order)
  IN  /\ req.order \in CardOrders
      /\ wasPaid
      /\ req.amount > 0
      /\ req.amount <= remaining
      /\ req.action = "VOID" => req.amount = remaining

Row(req, conflict, status) ==
  [key |-> req.key, conflict |-> conflict, order |-> req.order,
   amount |-> req.amount, action |-> req.action, status |-> status]

SameParameters(r, req) ==
  r.order = req.order /\ r.amount = req.amount /\ r.action = req.action

\* Mutant: the key is not looked up.
DecisionWithoutKey(req, wasPaid) ==
  Row(req, FALSE, IF Accepts(req, wasPaid) THEN "SIMULATED_SUCCEEDED" ELSE "REJECTED")

\* The row to insert: none for a replay, a conflict row for a key that was
\* used with other parameters, else the policy's answer.
Decision(req, wasPaid) ==
  IF Existing(req.key) # {}
  THEN IF \A r \in Existing(req.key) : SameParameters(r, req)
       THEN Nobody
       ELSE Row(req, TRUE, "REJECTED")
  ELSE Row(req, FALSE, IF Accepts(req, wasPaid) THEN "SIMULATED_SUCCEEDED"
                       ELSE "REJECTED")

=============================================================================
