------------------------------ MODULE Checkout ------------------------------
(***************************************************************************)
(* routes/shop.py and the start of the application: init_db seeds the      *)
(* products, place_order writes an order and then, in a second commit, its *)
(* plan, and checkout renders the form that opens a trade at the gateway.  *)
(*                                                                         *)
(* forms holds every page that was rendered: a browser may submit one      *)
(* late, or again. The product page lists the newest orders, so a page may *)
(* be asked for as soon as an order is committed, before its plan is.      *)
(***************************************************************************)
EXTENDS ShopBook

CONSTANTS
  Starters,     \* processes that run init_db: the server, the scripts
  Shoppers      \* threads of the pool that may place orders at the same time

VARIABLES
  products,     \* table product: the number of times the seed list is in it
  starting,     \* the starters that found no product and are about to seed
  placing,      \* the order each shopper's second commit is for, or Nobody
  forms         \* the payment forms that were rendered

checkoutVars == <<products, starting, placing, forms>>

\* What of create_payment's fields tells two forms of the shop apart.
Forms == [order : Orders, monthly : BOOLEAN]

CheckoutInit ==
  /\ products = 0
  /\ starting = {}
  /\ placing = [s \in Shoppers |-> Nobody]
  /\ forms = {}

CheckoutTypeOK ==
  /\ products \in Nat
  /\ starting \subseteq Starters
  /\ placing \in [Shoppers -> Orders \cup {Nobody}]
  /\ forms \subseteq Forms

-----------------------------------------------------------------------------
(* init_db *)

\* The SELECT finds no product. A start that finds one changes nothing.
StartUp(p) ==
  /\ p \notin starting
  /\ products = 0
  /\ starting' = starting \cup {p}
  /\ UNCHANGED <<products, placing, forms, shopVars>>

Seed(p) ==
  /\ p \in starting
  /\ writer = Nobody
  /\ products' = products + 1
  /\ starting' = starting \ {p}
  /\ UNCHANGED <<placing, forms, shopVars>>

\* The process dies, or the write lock is not to be had in time.
StartFails(p) ==
  /\ p \in starting
  /\ starting' = starting \ {p}
  /\ UNCHANGED <<products, placing, forms, shopVars>>

-----------------------------------------------------------------------------
(* place_order *)

\* create_order: a number nobody has drawn yet, the price of a product.
CreateOrder(s, o) ==
  /\ placing[s] = Nobody
  /\ products > 0
  /\ writer = Nobody
  /\ ~Placed(o)
  /\ orders' = [orders EXCEPT ![o] = NewOrder]
  /\ placing' = [placing EXCEPT ![s] = IF o \in MonthlyOrders THEN o ELSE Nobody]
  /\ UNCHANGED <<plans, trades, today, writer, products, starting, forms>>

\* create_subscription, which does not look at the order again.
CreateSubscription(s) ==
  /\ placing[s] # Nobody
  /\ writer = Nobody
  /\ plans' = [plans EXCEPT ![placing[s]] = "PENDING"]
  /\ placing' = [placing EXCEPT ![s] = Nobody]
  /\ UNCHANGED <<orders, trades, today, writer, products, starting, forms>>

\* The process dies or the second commit fails: the order stays, without plan.
PlacingFails(s) ==
  /\ placing[s] # Nobody
  /\ placing' = [placing EXCEPT ![s] = Nobody]
  /\ UNCHANGED <<products, starting, forms, shopVars>>

-----------------------------------------------------------------------------
(* checkout *)

\* Mutant: the form asks for what the buyer asked for.
CreatePaymentAsAsked(o) == [order |-> o, monthly |-> o \in MonthlyOrders]

\* The form carries the recurring fields when the order has a plan.
CreatePayment(o) == [order |-> o, monthly |-> plans[o] # "NONE"]

\* An order that is no longer PENDING is redirected to its page; without
\* BASE_URL or credentials the page says so, and no form is rendered.
RenderForm(o) ==
  /\ orders[o].status = "PENDING"
  /\ forms' = forms \cup {CreatePayment(o)}
  /\ UNCHANGED <<products, starting, placing, shopVars>>

\* A gateway accepts an order number once.
SubmitForm(form) ==
  /\ form \in forms
  /\ trades[form.order] = NoTrade
  /\ trades' = [trades EXCEPT ![form.order] =
                  [state |-> "OPEN", monthly |-> form.monthly, day |-> 0]]
  /\ UNCHANGED <<orders, plans, today, writer, checkoutVars>>

Shopping ==
  \/ \E p \in Starters : StartUp(p) \/ Seed(p) \/ StartFails(p)
  \/ \E s \in Shoppers, o \in Orders : CreateOrder(s, o)
  \/ \E s \in Shoppers : CreateSubscription(s) \/ PlacingFails(s)
  \/ \E o \in Orders : RenderForm(o)
  \/ \E form \in Forms : SubmitForm(form)
=============================================================================
