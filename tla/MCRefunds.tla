----------------------------- MODULE MCRefunds -----------------------------
(***************************************************************************)
(* Small instances of Refunds: orders of amount 2, of which o1 is a card   *)
(* order at ECPay, and a handful of requests that meet at every clause of  *)
(* the policy.                                                             *)
(***************************************************************************)
EXTENDS Refunds

CONSTANTS o1, o2, k1, k2, k3

AmountOf == [o \in Orders |-> 2]

Ask(k, o, n, action) == [key |-> k, order |-> o, amount |-> n, action |-> action]

\* A partial refund, one in full and a void that meet on o1, a key used again
\* with other parameters, an amount nothing can be refunded of, and an order
\* that is not covered.
MixedRequests ==
  {Ask(k1, o1, 1, "REFUND"), Ask(k1, o1, 2, "VOID"), Ask(k2, o1, 2, "REFUND"),
   Ask(k3, o1, 0, "REFUND"), Ask(k3, o2, 2, "VOID")}
=============================================================================
