----------------------------- MODULE OrderBook -----------------------------
(***************************************************************************)
(* The tables of the payment lifecycle (models.py) and the gateways that   *)
(* write to them through notifications.                                    *)
(*                                                                         *)
(* Every session reads with autocommitted SELECTs and keeps what it read   *)
(* as attributes of its Order object until it commits or rolls back. A     *)
(* commit writes, in one SQLite write transaction, only the columns whose  *)
(* value differs from the one that was read (WriteBack).                   *)
(*                                                                         *)
(* A charge is a transaction at a gateway: the gateway, the merchant's     *)
(* order number it carries, its trade number, and whether its amount is    *)
(* the order's. The gateways are external; their state is the set of       *)
(* events that happened to each charge.                                    *)
(***************************************************************************)
EXTENDS Transitions

CONSTANTS
  Orders,         \* the order numbers placed in the shop
  EcpayOrders,    \* those of them to be paid through ECPay
  PlanOrders,     \* those of them with a recurring plan attached
  Charges,        \* records [gateway, order, trade, amountOk]
  Happening       \* the <<charge, event>> pairs an instance lets happen

Gateways == {"ECPAY", "NEWEBPAY"}

ASSUME ChargesAssumption ==
  /\ \A c \in Charges : DOMAIN c = {"gateway", "order", "trade", "amountOk"}
  /\ \A c \in Charges : c.gateway \in Gateways
  /\ \A c \in Charges : c.amountOk \in BOOLEAN
  /\ \A c \in Charges : c.trade # Null

ASSUME OrdersAssumption ==
  /\ EcpayOrders \subseteq Orders
  /\ PlanOrders \subseteq EcpayOrders

VARIABLES
  orders,          \* table orders: [Orders -> OrderRows]
  plans,           \* table subscription: status of the plan of each order
  notifications,   \* table payment_notification: rows [msg, result]
  overdue,         \* the orders whose pay_deadline has passed
  history          \* external: the events of each charge at its gateway

bookVars == <<orders, plans, notifications, overdue, history>>

-----------------------------------------------------------------------------
(* Rows *)

Trades == {c.trade : c \in Charges}

\* EXPIRED is derived when an order is shown and never stored.
StoredStatuses == OrderStatuses \ {"EXPIRED"}

OrderRows == [status : StoredStatuses, trade : Trades \cup {Null},
              account : Trades \cup {Null}, paid : BOOLEAN]

NewOrder == [status |-> "PENDING", trade |-> Null, account |-> Null,
             paid |-> FALSE]

PlanStatuses == {"NONE", "PENDING", "ACTIVE"}

Results == {"APPLIED", "DUPLICATE", "REJECTED_SIGNATURE", "REJECTED_AMOUNT",
            "UNKNOWN_ORDER", "IGNORED_TRANSITION"}

\* A session read `read`, assigned `assigned` and commits over `stored`.
WriteBack(read, assigned, stored) ==
  LET Column(r, a, s) == IF a # r THEN a ELSE s
  IN  [status  |-> Column(read.status, assigned.status, stored.status),
       trade   |-> Column(read.trade, assigned.trade, stored.trade),
       account |-> Column(read.account, assigned.account, stored.account),
       paid    |-> Column(read.paid, assigned.paid, stored.paid)]

-----------------------------------------------------------------------------
(* The gateways and their messages *)

Events == {"ISSUED", "ISSUE_FAILED", "PAID", "FAILED"}

\* A notification as verify_and_parse_notification returns it. One that is
\* not genuine carries a signature the shop's keys do not verify.
Messages == [charge : Charges, event : Events, genuine : BOOLEAN]

Kind(m) == IF m.event \in {"ISSUED", "ISSUE_FAILED"} THEN "ATM_ACCOUNT_ISSUED"
           ELSE "PAYMENT_RESULT"

Success(m) == m.event \in {"ISSUED", "PAID"}

\* The unique index uq_applied_notification.
AppliedKey(m) == <<m.charge.gateway, m.charge.trade, Kind(m)>>

\* A genuine notification is sent for an event that happened, any number of
\* times, early, late or never; a forged one can say anything at any time.
Deliverable(m) == m.genuine => m.event \in history[m.charge]

PaidCharges(o) == {c \in Charges : c.order = o /\ "PAID" \in history[c]}

\* An ATM account is issued before anything else; a charge is paid or fails
\* once, and at most one charge of an order is paid.
MayHappen(c, e) ==
  /\ <<c, e>> \in Happening
  /\ e \notin history[c]
  /\ history[c] \cap {"ISSUE_FAILED", "PAID", "FAILED"} = {}
  /\ e \in {"ISSUED", "ISSUE_FAILED"} => history[c] = {}
  /\ e = "PAID" => PaidCharges(c.order) = {}

GatewayEvent(c, e) ==
  /\ MayHappen(c, e)
  /\ history' = [history EXCEPT ![c] = @ \cup {e}]
  /\ UNCHANGED <<orders, plans, notifications, overdue>>

-----------------------------------------------------------------------------
(* Reading the book *)

Rows(result) == {r \in notifications : r.result = result}

AlreadyApplied(m) == {r \in Rows("APPLIED") : AppliedKey(r.msg) = AppliedKey(m)}

\* The results that are answered with success_response.
Acknowledged(m) ==
  \E r \in notifications :
    /\ r.msg = m
    /\ r.result \in {"APPLIED", "DUPLICATE", "IGNORED_TRANSITION"}

EffectiveStatus(o) ==
  IF orders[o].status = "AWAITING_PAYMENT" /\ o \in overdue
  THEN "EXPIRED"
  ELSE orders[o].status

\* Mutant: the derived status is stored.
PersistExpiry(o) ==
  /\ orders[o].account # Null
  /\ o \notin overdue
  /\ overdue' = overdue \cup {o}
  /\ orders' = [orders EXCEPT ![o].status = "EXPIRED"]
  /\ UNCHANGED <<plans, notifications, history>>

\* The clock passes the pay_deadline of an issued account.
DeadlinePasses(o) ==
  /\ orders[o].account # Null
  /\ o \notin overdue
  /\ overdue' = overdue \cup {o}
  /\ UNCHANGED <<orders, plans, notifications, history>>

BookInit ==
  /\ orders = [o \in Orders |-> NewOrder]
  /\ plans = [o \in Orders |-> IF o \in PlanOrders THEN "PENDING" ELSE "NONE"]
  /\ notifications = {}
  /\ overdue = {}
  /\ history = [c \in Charges |-> {}]

BookTypeOK ==
  /\ orders \in [Orders -> OrderRows]
  /\ plans \in [Orders -> PlanStatuses]
  /\ notifications \subseteq [msg : Messages \cup {Null}, result : Results]
  /\ overdue \subseteq Orders
  /\ history \in [Charges -> SUBSET Events]
=============================================================================
