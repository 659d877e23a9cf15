--------------------------- MODULE MCOrderSystem ---------------------------
(***************************************************************************)
(* Small instances of OrderSystem. Orders o1 and o2 are placed, o1 at      *)
(* ECPay with a recurring plan and o2 at NewebPay unless a cfg says        *)
(* otherwise; o9 is an order number nobody placed.                         *)
(***************************************************************************)
EXTENDS OrderSystem

CONSTANTS o1, o2, o9, t1, t2

Charge(g, o, t, ok) == [gateway |-> g, order |-> o, trade |-> t, amountOk |-> ok]

\* Two attempts to pay o1: the first is an ATM account and may fail, the
\* second is a card.
TwoAttempts == {Charge("ECPAY", o1, t1, TRUE), Charge("ECPAY", o1, t2, TRUE)}

FailThenPay ==
  {<<c, e>> \in TwoAttempts \X Events : e # "ISSUE_FAILED" /\ (c.trade = t2 => e = "PAID")}

\* One attempt on o1 and a charge of o2 that reuses its trade number.
ReusedTrade == {Charge("ECPAY", o1, t1, TRUE), Charge("ECPAY", o2, t1, TRUE)}

\* The same and a second attempt on o1.
ReusedTrade3 == ReusedTrade \cup {Charge("ECPAY", o1, t2, TRUE)}

\* What happens to the charges of ReusedTrade3: an account that may be paid or
\* fail, another that may fail to be issued, and a card payment of o2.
OneEach ==
  {<<c, e>> \in ReusedTrade3 \X Events :
     IF c.order = o2 THEN e \in {"PAID", "FAILED"}
     ELSE IF c.trade = t1 THEN e # "ISSUE_FAILED"
     ELSE e \in {"ISSUE_FAILED", "PAID"}}

PaidOrFailed == Charges \X {"PAID", "FAILED"}

\* TwoAttempts, a charge of o1 with another amount, and one for nobody.
MixedAttempts ==
  TwoAttempts \cup {Charge("ECPAY", o1, t2, FALSE), Charge("ECPAY", o9, t2, TRUE)}

MixedEvents ==
  FailThenPay \cup ((MixedAttempts \ TwoAttempts) \X {"PAID"})

\* Payments of o1 and o2 under one trade number, after an account was issued
\* for o1.
IssuedAndPaid ==
  {<<c, e>> \in ReusedTrade \X Events :
     e = "PAID" \/ (e = "ISSUED" /\ c.order = o1)}
=============================================================================
