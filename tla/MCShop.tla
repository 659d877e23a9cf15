------------------------------- MODULE MCShop -------------------------------
(***************************************************************************)
(* Small instances of Shop. o1 and o2 are numbers the shop may draw, o9 is *)
(* a number of somebody else's shop.                                       *)
(***************************************************************************)
EXTENDS Shop, TLC

CONSTANTS o1, o2, o9

Period(b, e) == [begin |-> b, end |-> e]

\* Two imports differ in nothing but their name.
ImporterSymmetry == Permutations(Importers)

EachDay == {Period(d, d) : d \in Days}

FirstDay == {Period(1, 1)}

Row(n, o, ok, status) == [line |-> n, order |-> o, amountOk |-> ok, status |-> status]

\* A file without header, and one that lists o1 twice, a blank order number,
\* a number of nobody's, and o2 without a status.
TwoFiles ==
  {[header |-> FALSE, rows |-> {}],
   [header |-> TRUE, rows |-> {Row(1, o1, FALSE, "OTHER"), Row(2, o1, TRUE, "PAID"),
                               Row(3, Nobody, TRUE, "PAID"), Row(4, o9, TRUE, "PAID"),
                               Row(5, o2, TRUE, "BLANK")}]}
=============================================================================
