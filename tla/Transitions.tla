---------------------------- MODULE Transitions ----------------------------
(***************************************************************************)
(* services/transitions.py: the transition matrix of an order and the      *)
(* mutation a verified notification makes on one.                          *)
(*                                                                         *)
(* An order is the record of the columns a notification or a query writes: *)
(*   status   the stored OrderStatus                                       *)
(*   trade    gateway_trade_no                                             *)
(*   account  bank_code, virtual_account and pay_deadline, named by the    *)
(*            trade they were issued for                                   *)
(*   paid     whether paid_at is set                                       *)
(* The other columns (amount, gateway, method ...) never change.           *)
(***************************************************************************)
EXTENDS FiniteSets

CONSTANT Null           \* NULL in a nullable column

OrderStatuses == {"PENDING", "AWAITING_PAYMENT", "PAID", "FAILED", "EXPIRED"}

TerminalStatuses == {"PAID", "FAILED"}

ValidOrderTransitions ==
  ({"PENDING"} \X {"AWAITING_PAYMENT", "PAID", "FAILED"})
    \cup ({"AWAITING_PAYMENT"} \X {"PAID", "FAILED"})
    \cup {<<"EXPIRED", "PAID">>}

\* Mutant: the check only refuses to rewrite the status an order already has.
CanTransitionAnywhere(current, target) == current # target

CanTransitionOrder(current, target) ==
  <<current, target>> \in ValidOrderTransitions

NotificationKinds == {"PAYMENT_RESULT", "ATM_ACCOUNT_ISSUED"}

\* The status a verified notification asks for.
OrderTarget(kind, success) ==
  IF kind = "ATM_ACCOUNT_ISSUED" THEN "AWAITING_PAYMENT"
  ELSE IF success THEN "PAID"
  ELSE "FAILED"

\* Mutant: any status but the order's own can be asked for.
TransitionUnchecked(status, kind, success) ==
  /\ kind = "ATM_ACCOUNT_ISSUED" => success
  /\ status # OrderTarget(kind, success)

\* apply_order_transition returns True. atm_info is there exactly when an
\* ATM_ACCOUNT_ISSUED notification is a success (both gateways' parsers).
TransitionApplies(status, kind, success) ==
  /\ kind = "ATM_ACCOUNT_ISSUED" => success
  /\ CanTransitionOrder(status, OrderTarget(kind, success))

\* The attributes apply_order_transition assigns when it does.
ApplyOrderTransition(order, kind, success, trade) ==
  LET target == OrderTarget(kind, success)
  IN  [status  |-> target,
       trade   |-> trade,
       account |-> IF target = "AWAITING_PAYMENT" THEN trade ELSE order.account,
       paid    |-> order.paid \/ target = "PAID"]
=============================================================================
