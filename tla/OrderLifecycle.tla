--------------------------- MODULE OrderLifecycle ---------------------------
(***************************************************************************)
(* What is promised of an order and its plan to whoever does not look into *)
(* a callback: a notification is one step. It is taken for something the   *)
(* gateway reports, moves the status along VALID_ORDER_TRANSITIONS, in     *)
(* which PAID and FAILED are final, and starts the plan in the same step.  *)
(* An order has its plan, or none, before the first notification comes.    *)
(*                                                                         *)
(* OrderSystem takes that step apart.                                      *)
(***************************************************************************)
EXTENDS Transitions

CONSTANT Orders

VARIABLES
  status,     \* orders.status
  plan,       \* status of the order's subscription, or NONE
  reported    \* external: the <<kind, success>> its gateway reports of it

lifecycleVars == <<status, plan, reported>>

Reports == [Orders -> SUBSET (NotificationKinds \X BOOLEAN)]

Init ==
  /\ status = [o \in Orders |-> "PENDING"]
  /\ plan \in [Orders -> {"NONE", "PENDING"}]
  /\ reported \in Reports

Notify(o, kind, success) ==
  /\ <<kind, success>> \in reported[o]
  /\ kind = "ATM_ACCOUNT_ISSUED" => success
  /\ CanTransitionOrder(status[o], OrderTarget(kind, success))
  /\ status' = [status EXCEPT ![o] = OrderTarget(kind, success)]
  /\ plan' = IF OrderTarget(kind, success) = "PAID" /\ plan[o] # "NONE"
             THEN [plan EXCEPT ![o] = "ACTIVE"]
             ELSE plan
  /\ UNCHANGED reported

\* The gateways are free in what they report, and when.
GatewayReports ==
  /\ UNCHANGED <<status, plan>>
  /\ reported' \in Reports

Next ==
  \/ GatewayReports
  \/ \E o \in Orders, kind \in NotificationKinds, success \in BOOLEAN :
       Notify(o, kind, success)

Spec == Init /\ [][Next]_lifecycleVars
=============================================================================
