--------------------------- MODULE AtomicRefunds ---------------------------
(***************************************************************************)
(* What simulate_refund promises its callers: a call decides on the table  *)
(* as it is and inserts its row in one step. A call may know an order as   *)
(* unpaid that has been paid since, never the other way round; a row       *)
(* without a positive amount is not stored.                                *)
(***************************************************************************)
EXTENDS RefundPolicy

AtomicInit == paid = {} /\ refunds = {}

Book(req, wasPaid) ==
  /\ wasPaid => req.order \in paid
  /\ Decision(req, wasPaid) # Nobody
  /\ Decision(req, wasPaid).amount > 0
  /\ refunds' = refunds \cup {Decision(req, wasPaid)}
  /\ UNCHANGED paid

Pay(o) ==
  /\ paid' = paid \cup {o}
  /\ UNCHANGED refunds

AtomicNext ==
  \/ \E req \in Requests, wasPaid \in BOOLEAN : Book(req, wasPaid)
  \/ \E o \in Orders : Pay(o)

AtomicRefundsSpec == AtomicInit /\ [][AtomicNext]_<<paid, refunds>>

\* The successful refunds of an order never exceed its amount, and a void
\* takes all of it that was left: after one nothing can be refunded.
RefundsWithinAmount ==
  \A o \in Orders :
    /\ Refunded(o) <= Amount[o]
    /\ \A r \in Succeeded(o) : r.action = "VOID" => Refunded(o) = Amount[o]
=============================================================================
