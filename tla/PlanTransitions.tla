-------------------------- MODULE PlanTransitions --------------------------
(***************************************************************************)
(* services/transitions.py: the transition matrix of a recurring plan and  *)
(* the mutation a period notification makes on one.                        *)
(*                                                                         *)
(* A plan is the record of the columns that decide something: status,      *)
(* success (success_times) and failures (failure_times). success_amount    *)
(* runs with success; the last_... columns are only shown.                 *)
(***************************************************************************)
EXTENDS Naturals

CONSTANT ExecTimes      \* the number of periods agreed

ASSUME ExecTimesAssumption == ExecTimes \in Nat \ {0}

SubscriptionStatuses == {"PENDING", "ACTIVE", "PAST_DUE", "COMPLETED", "CANCELED"}

TerminalPlans == {"COMPLETED", "CANCELED"}

Plans == [status : SubscriptionStatuses, success : Nat, failures : Nat]

ValidSubscriptionTransitions ==
  ({"PENDING"} \X {"ACTIVE", "CANCELED"})
    \cup ({"ACTIVE", "PAST_DUE"} \X {"ACTIVE", "COMPLETED", "PAST_DUE", "CANCELED"})

CanTransitionSubscription(current, target) ==
  <<current, target>> \in ValidSubscriptionTransitions

Larger(a, b) == IF a > b THEN a ELSE b

\* Mutant: the plan is complete one period early.
RecurringTargetEarly(success, total) ==
  IF ~success THEN "PAST_DUE"
  ELSE IF total + 1 >= ExecTimes THEN "COMPLETED"
  ELSE "ACTIVE"

\* The status a period asks for that leaves `total` successful ones.
RecurringTarget(success, total) ==
  IF ~success THEN "PAST_DUE"
  ELSE IF total >= ExecTimes THEN "COMPLETED"
  ELSE "ACTIVE"

\* apply_subscription_recurring_transition returns True.
RecurringApplies(plan, success, total) ==
  CanTransitionSubscription(plan.status, RecurringTarget(success, total))

\* The attributes it assigns when it does.
ApplyRecurringTransition(plan, success, total) ==
  [status   |-> RecurringTarget(success, total),
   success  |-> IF success THEN Larger(plan.success, total) ELSE plan.success,
   failures |-> IF success THEN plan.failures ELSE plan.failures + 1]
=============================================================================
