------------------------------ MODULE ShopBook ------------------------------
(***************************************************************************)
(* The tables that checkout fills and reconciliation reads, while payments *)
(* arrive. A callback is one atomic commit here; OrderSystem shows what it *)
(* does step by step.                                                      *)
(*                                                                         *)
(* An order number of Orders is one that create_order may still draw; its  *)
(* row is Absent until then. A trade is what the gateway makes of an       *)
(* accepted payment form; it is external. Days are the granularity of the  *)
(* reconciliation's period. A writer that does more than one commit at     *)
(* once holds SQLite's write lock in between: that is reconcile_csv alone. *)
(***************************************************************************)
EXTENDS Transitions, Naturals

CONSTANTS
  Orders,           \* the order numbers the shop may draw
  EcpayOrders,      \* those of them placed for ECPay
  AtmOrders,        \* those of them paid into a virtual account
  MonthlyOrders,    \* those of them placed with plan = monthly_3
  LastDay,          \* bound: the days of an instance are 1 .. LastDay
  Importers,        \* processes that import a reconciliation file
  Nobody

\* place_order refuses a plan for anything but a credit card at ECPay.
ASSUME ShopAssumption ==
  /\ IsFiniteSet(Orders)
  /\ EcpayOrders \subseteq Orders
  /\ AtmOrders \subseteq Orders
  /\ MonthlyOrders \subseteq EcpayOrders \ AtmOrders
  /\ LastDay \in Nat \ {0}
  /\ Nobody \notin Importers
  /\ Nobody \notin Orders

VARIABLES
  orders,     \* table orders: [Orders -> OrderRows]
  plans,      \* table subscription: the status of each order's plan
  trades,     \* external: [Orders -> Trades], the gateway's side
  today,      \* the day
  writer      \* who holds SQLite's write lock between two steps

shopVars == <<orders, plans, trades, today, writer>>

Days == 1 .. LastDay

Absent == [status |-> "ABSENT", created |-> 0]

NewOrder == [status |-> "PENDING", created |-> today]

OrderRows ==
  {Absent} \cup [status : OrderStatuses \ {"EXPIRED"}, created : Days]

PlanStatuses == {"NONE", "PENDING", "ACTIVE"}

NoTrade == [state |-> "NONE", monthly |-> FALSE, day |-> 0]

Trades ==
  [state : {"NONE", "OPEN", "ISSUED", "PAID", "FAILED"}, monthly : BOOLEAN,
   day : 0 .. LastDay]

Placed(o) == orders[o] # Absent

BookInit ==
  /\ orders = [o \in Orders |-> Absent]
  /\ plans = [o \in Orders |-> "NONE"]
  /\ trades = [o \in Orders |-> NoTrade]
  /\ today = 1
  /\ writer = Nobody

BookTypeOK ==
  /\ orders \in [Orders -> OrderRows]
  /\ plans \in [Orders -> PlanStatuses]
  /\ trades \in [Orders -> Trades]
  /\ today \in Days
  /\ writer \in Importers \cup {Nobody}

-----------------------------------------------------------------------------
(* The gateway and the clock *)

NextDay ==
  /\ today < LastDay
  /\ today' = today + 1
  /\ UNCHANGED <<orders, plans, trades, writer>>

\* An account is issued before it is paid; a trade is paid or fails once.
TradeMoves(o, state) ==
  LET from == trades[o].state
  IN  \/ state = "ISSUED" /\ o \in AtmOrders /\ from = "OPEN"
      \/ state = "PAID" /\ from = (IF o \in AtmOrders THEN "ISSUED" ELSE "OPEN")
      \/ state = "FAILED" /\ from \in {"OPEN", "ISSUED"}

GatewayEvent(o, state) ==
  /\ TradeMoves(o, state)
  /\ trades' = [trades EXCEPT ![o] =
                  [state |-> state, monthly |-> trades[o].monthly,
                   day |-> IF state = "PAID" THEN today ELSE 0]]
  /\ UNCHANGED <<orders, plans, today, writer>>

\* What genuine notifications the state of a trade gives rise to.
Reported(o, kind, success) ==
  IF kind = "ATM_ACCOUNT_ISSUED"
  THEN success /\ o \in AtmOrders /\ trades[o].state \in {"ISSUED", "PAID"}
  ELSE trades[o].state = (IF success THEN "PAID" ELSE "FAILED")

\* Mutant: the first payment leaves the plan as it is.
NotifyOrderOnly(o, kind, success) ==
  /\ writer = Nobody
  /\ Placed(o)
  /\ Reported(o, kind, success)
  /\ TransitionApplies(orders[o].status, kind, success)
  /\ orders' = [orders EXCEPT ![o].status = OrderTarget(kind, success)]
  /\ UNCHANGED <<plans, trades, today, writer>>

\* The commit of a notification (or of a query that recovers a payment) that
\* changes an order; it waits for the write lock. Any number may be lost.
NotifyOrder(o, kind, success) ==
  /\ writer = Nobody
  /\ Placed(o)
  /\ Reported(o, kind, success)
  /\ TransitionApplies(orders[o].status, kind, success)
  /\ orders' = [orders EXCEPT ![o].status = OrderTarget(kind, success)]
  /\ plans' = IF OrderTarget(kind, success) = "PAID" /\ plans[o] # "NONE"
              THEN [plans EXCEPT ![o] = "ACTIVE"]
              ELSE plans
  /\ UNCHANGED <<trades, today, writer>>

Payments ==
  \/ NextDay
  \/ \E o \in Orders, state \in {"ISSUED", "PAID", "FAILED"} : GatewayEvent(o, state)
  \/ \E o \in Orders, kind \in NotificationKinds, success \in BOOLEAN :
       NotifyOrder(o, kind, success)
=============================================================================
