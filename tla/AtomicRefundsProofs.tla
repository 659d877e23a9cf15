------------------------ MODULE AtomicRefundsProofs ------------------------
(***************************************************************************)
(* Refunds that are called one after another stay within the amount of     *)
(* their order. (RefundsProofs shows that concurrent calls are like that.) *)
(*                                                                         *)
(* The amount refunded so far is a fold over a set of rows in an order     *)
(* that CHOOSE picks. The fold is a recursive function on the subsets of   *)
(* the set, and every fact about it is shown for a subset of which no      *)
(* smaller one is a counterexample (MinimalSubset): that the function      *)
(* exists, that it does not depend on the set it was folded over, and that *)
(* one more row adds its amount, whatever the order of the picks.          *)
(***************************************************************************)
EXTENDS AtomicRefunds, FiniteSetTheorems, TLAPS

Total(S) == MapThenSumSet(RowAmount, S)

Pick(s) == CHOOSE x \in s : TRUE

\* g is the fold over S: the total of each of its subsets.
Sums(g, S) ==
  g = [s \in SUBSET S |-> IF s = {} THEN 0
                          ELSE RowAmount(Pick(s)) + g[s \ {Pick(s)}]]

-----------------------------------------------------------------------------
(* Finite sets *)

\* Among some subsets of a finite set there is one that contains no other.
LEMMA MinimalSubset ==
  ASSUME NEW S, IsFiniteSet(S), NEW F, F \subseteq SUBSET S, F # {}
  PROVE  \E m \in F : \A t \in F : t \subseteq m => t = m
<1>1. IsWellFoundedOn(StrictSubsetOrdering(S), SUBSET S)
  BY FS_StrictSubsetOrderingWellFounded, FS_FiniteSubsetsOfFinite
<1>2. PICK m \in F : \A t \in F : <<t, m>> \notin StrictSubsetOrdering(S)
  BY <1>1, WFMin
<1> QED
  BY <1>2 DEF StrictSubsetOrdering

LEMMA PickIn ==
  ASSUME NEW s, s # {}
  PROVE  Pick(s) \in s
BY DEF Pick

-----------------------------------------------------------------------------
(* The fold *)

\* The community operator, unfolded.
LEMMA TotalIsFold ==
  ASSUME NEW S
  PROVE  Total(S) = (CHOOSE g : Sums(g, S))[S]
BY DEF Total, MapThenSumSet, MapThenFoldSet, Sums, Pick

\* One step of the fold.
LEMMA SumsStep ==
  ASSUME NEW S, NEW g, Sums(g, S), NEW s \in SUBSET S
  PROVE  g[s] = IF s = {} THEN 0 ELSE RowAmount(Pick(s)) + g[s \ {Pick(s)}]
BY DEF Sums

\* Folds over two sets agree on the subsets they have in common.
LEMMA SumsAgree ==
  ASSUME NEW S, IsFiniteSet(S), NEW T, NEW g, NEW h, Sums(g, S), Sums(h, T),
         NEW s \in SUBSET S, s \subseteq T
  PROVE  g[s] = h[s]
<1> DEFINE F == {t \in SUBSET (S \cap T) : g[t] # h[t]}
<1>1. SUFFICES ASSUME F # {}
               PROVE  FALSE
  OBVIOUS
<1>2. PICK m \in F : \A t \in F : t \subseteq m => t = m
  <2>1. F \subseteq SUBSET S
    OBVIOUS
  <2> HIDE DEF F
  <2> QED
    BY <1>1, <2>1, MinimalSubset
<1>3. /\ g[m] = IF m = {} THEN 0 ELSE RowAmount(Pick(m)) + g[m \ {Pick(m)}]
      /\ h[m] = IF m = {} THEN 0 ELSE RowAmount(Pick(m)) + h[m \ {Pick(m)}]
  BY SumsStep
<1>4. m # {}
  BY <1>3
<1>5. m \ {Pick(m)} \notin F
  BY <1>2, <1>4, PickIn
<1>6. g[m \ {Pick(m)}] = h[m \ {Pick(m)}]
  BY <1>5
<1> QED
  BY <1>3, <1>4, <1>6

\* A fold over a set is one over each of its subsets.
LEMMA SumsRestrict ==
  ASSUME NEW S, NEW g, Sums(g, S), NEW T \in SUBSET S
  PROVE  Sums([s \in SUBSET T |-> g[s]], T)
<1> DEFINE h == [s \in SUBSET T |-> g[s]]
<1>1. ASSUME NEW s \in SUBSET T
      PROVE  h[s] = IF s = {} THEN 0 ELSE RowAmount(Pick(s)) + h[s \ {Pick(s)}]
  <2>1. s \in SUBSET S /\ s \ {Pick(s)} \in SUBSET T
    OBVIOUS
  <2>2. h[s] = g[s] /\ h[s \ {Pick(s)}] = g[s \ {Pick(s)}]
    BY <2>1
  <2> HIDE DEF h
  <2> QED
    BY <2>1, <2>2, SumsStep
<1>2. h = [s \in SUBSET T |-> h[s]]
  OBVIOUS
<1> HIDE DEF h
<1>3. Sums(h, T)
  BY <1>1, <1>2 DEF Sums
<1> QED
  BY <1>3 DEF h

\* A finite set has a fold: a smallest one without would get it from the folds
\* over its proper subsets.
LEMMA SumsExist ==
  ASSUME NEW S, IsFiniteSet(S)
  PROVE  \E g : Sums(g, S)
<1> DEFINE F == {T \in SUBSET S : ~ \E g : Sums(g, T)}
<1>1. SUFFICES ASSUME F # {}
               PROVE  FALSE
  OBVIOUS
<1>2. PICK m \in F : \A t \in F : t \subseteq m => t = m
  <2>1. F \subseteq SUBSET S
    OBVIOUS
  <2> HIDE DEF F
  <2> QED
    BY <1>1, <2>1, MinimalSubset
<1> DEFINE fold(t) == CHOOSE g : Sums(g, t)
<1>3. ASSUME NEW t, t \subseteq m, t # m
      PROVE  Sums(fold(t), t) /\ IsFiniteSet(t)
  <2>1. \E g : Sums(g, t)
    BY <1>2, <1>3
  <2> QED
    BY <1>3, <2>1, FS_Subset
<1> DEFINE G == [s \in SUBSET m |->
                   IF s = {} THEN 0
                   ELSE RowAmount(Pick(s)) + fold(s \ {Pick(s)})[s \ {Pick(s)}]]
<1>4. ASSUME NEW s \in SUBSET m, s # m
      PROVE  G[s] = fold(s)[s]
  <2>1. Sums(fold(s), s) /\ IsFiniteSet(s)
    BY <1>3, <1>4
  <2>2. CASE s = {}
    <3>1. fold(s)[s] = 0
      <4> HIDE DEF fold
      <4> QED
        BY <2>1, <2>2, SumsStep
    <3> QED
      BY <2>2, <3>1
  <2>3. CASE s # {}
    <3> DEFINE r == s \ {Pick(s)}
    <3>1. r \in SUBSET s /\ r \subseteq m /\ r # m
      BY <1>4, <2>3, PickIn
    <3>2. Sums(fold(r), r) /\ IsFiniteSet(r)
      BY <1>3, <3>1
    <3> HIDE DEF fold, G
    <3>3. fold(s)[r] = fold(r)[r]
      BY <2>1, <3>1, <3>2, SumsAgree
    <3>4. fold(s)[s] = RowAmount(Pick(s)) + fold(s)[r]
      BY <2>1, <2>3, SumsStep
    <3>5. G[s] = RowAmount(Pick(s)) + fold(r)[r]
      BY <2>3 DEF G
    <3> QED
      BY <3>3, <3>4, <3>5
  <2> QED
    BY <2>2, <2>3
<1>5. ASSUME NEW s \in SUBSET m
      PROVE  G[s] = IF s = {} THEN 0 ELSE RowAmount(Pick(s)) + G[s \ {Pick(s)}]
  <2>1. CASE s = {}
    BY <2>1
  <2>2. CASE s # {}
    <3> DEFINE r == s \ {Pick(s)}
    <3>1. r \in SUBSET m /\ r # m
      BY <2>2, PickIn
    <3>2. G[r] = fold(r)[r]
      BY <1>4, <3>1
    <3>3. G[s] = RowAmount(Pick(s)) + fold(r)[r]
      BY <2>2
    <3> HIDE DEF G, fold
    <3> QED
      BY <2>2, <3>2, <3>3
  <2> QED
    BY <2>1, <2>2
<1>6. G = [s \in SUBSET m |-> G[s]]
  OBVIOUS
<1> HIDE DEF G
<1>7. Sums(G, m)
  BY <1>5, <1>6 DEF Sums
<1> QED
  BY <1>2, <1>7

-----------------------------------------------------------------------------
(* The total *)

\* The total of some rows is that of all but the picked one, and its amount.
LEMMA TotalStep ==
  ASSUME NEW S, IsFiniteSet(S)
  PROVE  Total(S) = IF S = {} THEN 0 ELSE RowAmount(Pick(S)) + Total(S \ {Pick(S)})
<1> DEFINE T == S \ {Pick(S)}
           g == CHOOSE g : Sums(g, S)
           h == CHOOSE h : Sums(h, T)
<1>1. IsFiniteSet(T)
  BY FS_RemoveElement
<1>2. Sums(g, S) /\ Sums(h, T)
  <2> HIDE DEF T
  <2> QED
    BY <1>1, SumsExist
<1>3. Total(S) = g[S] /\ Total(T) = h[T]
  BY TotalIsFold
<1> HIDE DEF g, h
<1>4. g[S] = IF S = {} THEN 0 ELSE RowAmount(Pick(S)) + g[T]
  BY <1>2, SumsStep
<1>5. g[T] = h[T]
  BY <1>1, <1>2, SumsAgree
<1> QED
  BY <1>3, <1>4, <1>5

\* Rows that hold an integer amount.
Amounts(S) == \A x \in S : RowAmount(x) \in Int

\* A total of integers is an integer.
LEMMA TotalType ==
  ASSUME NEW S, IsFiniteSet(S), Amounts(S)
  PROVE  Total(S) \in Int
<1> DEFINE F == {t \in SUBSET S : Total(t) \notin Int}
<1>1. SUFFICES ASSUME F # {}
               PROVE  FALSE
  OBVIOUS
<1>2. PICK m \in F : \A t \in F : t \subseteq m => t = m
  <2>1. F \subseteq SUBSET S
    OBVIOUS
  <2> HIDE DEF F
  <2> QED
    BY <1>1, <2>1, MinimalSubset
<1>3. Total(m) = IF m = {} THEN 0 ELSE RowAmount(Pick(m)) + Total(m \ {Pick(m)})
  BY TotalStep, FS_Subset
<1>4. m # {}
  BY <1>3
<1>5. Pick(m) \in m
  BY <1>4, PickIn
<1>6. m \ {Pick(m)} \notin F
  BY <1>2, <1>5
<1>7. Total(m \ {Pick(m)}) \in Int /\ RowAmount(Pick(m)) \in Int
  BY <1>5, <1>6 DEF Amounts
<1>8. Total(m) \notin Int
  OBVIOUS
<1> HIDE DEF F
<1> QED
  BY <1>3, <1>4, <1>7, <1>8

\* Any row may be taken off first: the total does not depend on the picks.
LEMMA TotalOfAny ==
  ASSUME NEW S, IsFiniteSet(S), Amounts(S), NEW y \in S
  PROVE  Total(S) = RowAmount(y) + Total(S \ {y})
<1> DEFINE F == {t \in SUBSET S : \E z \in t : Total(t) # RowAmount(z) + Total(t \ {z})}
<1>1. SUFFICES ASSUME F # {}
               PROVE  FALSE
  OBVIOUS
<1>2. PICK m \in F : \A t \in F : t \subseteq m => t = m
  <2>1. F \subseteq SUBSET S
    OBVIOUS
  <2> HIDE DEF F
  <2> QED
    BY <1>1, <2>1, MinimalSubset
<1>3. PICK z \in m : Total(m) # RowAmount(z) + Total(m \ {z})
  OBVIOUS
<1> DEFINE p == Pick(m)
           r == m \ {p, z}
<1>4. p \in m
  BY <1>3, PickIn
<1> HIDE DEF p
<1>5. m \subseteq S /\ IsFiniteSet(m)
  BY FS_Subset
<1>6. Total(m) = RowAmount(p) + Total(m \ {p})
  BY <1>3, <1>5, TotalStep DEF p
<1>7. p # z
  BY <1>3, <1>6
<1>8. m \ {p} \notin F /\ m \ {z} \notin F
  BY <1>2, <1>3, <1>4
<1>9. Total(m \ {p}) = RowAmount(z) + Total(r)
  <2>1. z \in m \ {p} /\ (m \ {p}) \ {z} = r /\ m \ {p} \in SUBSET S
    BY <1>5, <1>7
  <2> QED
    BY <1>8, <2>1
<1>10. Total(m \ {z}) = RowAmount(p) + Total(r)
  <2>1. p \in m \ {z} /\ (m \ {z}) \ {p} = r /\ m \ {z} \in SUBSET S
    BY <1>4, <1>5, <1>7
  <2> QED
    BY <1>8, <2>1
<1>11. Total(r) \in Int /\ RowAmount(p) \in Int /\ RowAmount(z) \in Int
  <2>1. r \in SUBSET S
    BY <1>5
  <2>2. IsFiniteSet(r) /\ Amounts(r)
    BY <2>1, FS_Subset DEF Amounts
  <2> HIDE DEF r
  <2> QED
    BY <1>4, <1>5, <2>2, TotalType DEF Amounts
<1> HIDE DEF F, r
<1> QED
  BY <1>3, <1>6, <1>9, <1>10, <1>11

\* One more row adds its amount.
LEMMA TotalAdds ==
  ASSUME NEW S, IsFiniteSet(S), Amounts(S), NEW y, y \notin S, RowAmount(y) \in Int
  PROVE  Total(S \cup {y}) = Total(S) + RowAmount(y)
<1> DEFINE T == S \cup {y}
<1>1. IsFiniteSet(T) /\ Amounts(T) /\ y \in T /\ T \ {y} = S
  BY FS_AddElement DEF Amounts
<1>2. Total(S) \in Int
  BY TotalType
<1> HIDE DEF T
<1>3. Total(T) = RowAmount(y) + Total(S)
  BY <1>1, TotalOfAny
<1> QED
  BY <1>2, <1>3 DEF T

\* No rows, nothing refunded.
LEMMA TotalOfNone == Total({}) = 0
BY TotalStep, FS_EmptySet

-----------------------------------------------------------------------------
(* The policy *)

\* The row of a decision is a row of the table or none.
LEMMA DecisionType ==
  ASSUME NEW req \in Requests, NEW wasPaid \in BOOLEAN
  PROVE  Decision(req, wasPaid) \in Rows \cup {Nobody}
<1>1. /\ req.key \in Keys /\ req.order \in Orders
      /\ req.amount \in Int /\ req.action \in Actions
  BY PolicyAssumption DEF Keys
<1>2. ASSUME NEW conflict \in BOOLEAN,
             NEW status \in {"SIMULATED_SUCCEEDED", "REJECTED"}
      PROVE  Row(req, conflict, status) \in Rows
  BY <1>1 DEF Row, Rows
<1> QED
  BY <1>2 DEF Decision

\* The table is finite and holds rows.
TableOK == refunds \subseteq Rows /\ IsFiniteSet(refunds)

\* The successful rows of an order can be added up.
LEMMA SucceededFinite ==
  ASSUME TableOK, NEW o
  PROVE  /\ IsFiniteSet(Succeeded(o)) /\ Amounts(Succeeded(o))
         /\ Refunded(o) = Total(Succeeded(o)) /\ Refunded(o) \in Int
<1>1. Succeeded(o) \in SUBSET refunds
  BY DEF Succeeded
<1>2. IsFiniteSet(Succeeded(o))
  BY <1>1, FS_Subset DEF TableOK
<1>3. Amounts(Succeeded(o))
  BY <1>1 DEF TableOK, Amounts, RowAmount, Rows
<1>4. Refunded(o) = Total(Succeeded(o))
  BY DEF Refunded, Total
<1> QED
  BY <1>2, <1>3, <1>4, TotalType

\* What a decision that succeeds says of the table it was made on: its key is
\* new, its amount was left, and a void takes all that was left.
LEMMA SuccessfulDecision ==
  ASSUME TableOK, NEW req \in Requests, NEW wasPaid \in BOOLEAN,
         Decision(req, wasPaid) # Nobody,
         Decision(req, wasPaid).status = "SIMULATED_SUCCEEDED"
  PROVE  LET row == Decision(req, wasPaid)
         IN  /\ row \in Rows /\ row \notin refunds
             /\ row.order \in Orders /\ row.amount > 0
             /\ row.amount <= Amount[row.order] - Refunded(row.order)
             /\ row.action = "VOID" =>
                  row.amount = Amount[row.order] - Refunded(row.order)
<1> DEFINE row == Decision(req, wasPaid)
<1>1. row \in Rows
  BY DecisionType
<1>2. /\ Existing(req.key) = {} /\ Accepts(req, wasPaid)
      /\ row = Row(req, FALSE, "SIMULATED_SUCCEEDED")
  BY DEF Decision, Row
<1>3. row.key = req.key /\ ~row.conflict
  BY <1>2 DEF Row
<1>4. row \notin refunds
  BY <1>2, <1>3 DEF Existing
<1>5. row.order = req.order /\ row.amount = req.amount /\ row.action = req.action
  BY <1>2 DEF Row
<1>6. row.order \in Orders
  BY <1>1 DEF Rows
<1> HIDE DEF row
<1>7. /\ row.amount > 0
      /\ row.amount <= Amount[row.order] - Refunded(row.order)
      /\ row.action = "VOID" => row.amount = Amount[row.order] - Refunded(row.order)
  BY <1>2, <1>5 DEF Accepts
<1> QED
  BY <1>1, <1>4, <1>6, <1>7 DEF row

\* Storing the row of a decision keeps every order within its amount: another
\* order's total is what it was, its own grows by what was left at most, and
\* not at all after a void.
LEMMA BookedWithinAmount ==
  ASSUME TableOK, RefundsWithinAmount, NEW req \in Requests, NEW wasPaid \in BOOLEAN,
         Book(req, wasPaid)
  PROVE  RefundsWithinAmount'
<1> DEFINE row == Decision(req, wasPaid)
<1>1. row \in Rows /\ refunds' = refunds \cup {row}
  BY DecisionType DEF Book
<1>2. ASSUME NEW o \in Orders, row.order # o \/ row.status # "SIMULATED_SUCCEEDED"
      PROVE  Succeeded(o)' = Succeeded(o)
  <2> HIDE DEF row
  <2> QED
    BY <1>1, <1>2 DEF Succeeded
<1>3. ASSUME NEW o \in Orders, Succeeded(o)' = Succeeded(o)
      PROVE  /\ Refunded(o)' <= Amount[o]
             /\ \A r \in Succeeded(o)' : r.action = "VOID" => Refunded(o)' = Amount[o]
  <2>1. Refunded(o)' = Refunded(o)
    BY <1>3 DEF Refunded
  <2> QED
    BY <1>3, <2>1 DEF RefundsWithinAmount
<1>4. ASSUME NEW o \in Orders, row.order = o, row.status = "SIMULATED_SUCCEEDED"
      PROVE  /\ Refunded(o)' <= Amount[o]
             /\ \A r \in Succeeded(o)' : r.action = "VOID" => Refunded(o)' = Amount[o]
  <2>1. row # Nobody
    BY DEF Book
  <2>2. /\ row \notin refunds /\ row.amount > 0
        /\ row.amount <= Amount[o] - Refunded(o)
        /\ row.action = "VOID" => row.amount = Amount[o] - Refunded(o)
    BY <1>4, <2>1, SuccessfulDecision
  <2> HIDE DEF row
  <2>3. Succeeded(o)' = Succeeded(o) \cup {row} /\ row \notin Succeeded(o)
    BY <1>1, <1>4, <2>2 DEF Succeeded
  <2>4. /\ IsFiniteSet(Succeeded(o)) /\ Amounts(Succeeded(o))
        /\ Refunded(o) = Total(Succeeded(o)) /\ Refunded(o) \in Int
    BY SucceededFinite
  <2>5. RowAmount(row) = row.amount /\ row.amount \in Int
    BY <1>1 DEF RowAmount, Rows
  <2>6. Total(Succeeded(o) \cup {row}) = Refunded(o) + row.amount
    BY <2>3, <2>4, <2>5, TotalAdds
  <2>7. Refunded(o)' = Total(Succeeded(o) \cup {row})
    BY <2>3 DEF Refunded, Total
  <2>8. Amount[o] \in Nat
    BY PolicyAssumption
  <2>9. \A r \in Succeeded(o) : r.action # "VOID"
    BY <2>2, <2>4, <2>5, <2>8 DEF RefundsWithinAmount
  <2>10. /\ Refunded(o)' = Refunded(o) + row.amount /\ Refunded(o)' <= Amount[o]
         /\ row.action = "VOID" => Refunded(o)' = Amount[o]
    <3>1. Refunded(o)' = Refunded(o) + row.amount
      BY <2>6, <2>7
    <3> QED
      BY <2>2, <2>4, <2>5, <2>8, <3>1
  <2>11. ASSUME NEW r \in Succeeded(o)', r.action = "VOID"
         PROVE  Refunded(o)' = Amount[o]
    BY <2>3, <2>9, <2>10, <2>11
  <2> QED
    BY <2>10, <2>11
<1> QED
  BY <1>2, <1>3, <1>4 DEF RefundsWithinAmount

\* Whatever calls are made one after another, with whatever keys, amounts and
\* actions, the refunds of an order never exceed its amount and a void is the
\* last of them.
THEOREM AtomicCallsStayWithinAmount == AtomicRefundsSpec => []RefundsWithinAmount
<1> DEFINE Inv == TableOK /\ RefundsWithinAmount
<1>1. AtomicInit => Inv
  <2> SUFFICES ASSUME AtomicInit
               PROVE  Inv
    OBVIOUS
  <2>1. TableOK
    BY FS_EmptySet DEF AtomicInit, TableOK
  <2>2. ASSUME NEW o \in Orders
        PROVE  Succeeded(o) = {} /\ Refunded(o) = 0 /\ Amount[o] \in Nat
    <3>1. Succeeded(o) = {}
      BY DEF AtomicInit, Succeeded
    <3> QED
      BY <2>1, <3>1, SucceededFinite, TotalOfNone, PolicyAssumption
  <2> QED
    BY <2>1, <2>2 DEF RefundsWithinAmount
<1>2. Inv /\ [AtomicNext]_<<paid, refunds>> => Inv'
  <2> SUFFICES ASSUME Inv, [AtomicNext]_<<paid, refunds>>
               PROVE  Inv'
    OBVIOUS
  <2>1. ASSUME NEW req \in Requests, NEW wasPaid \in BOOLEAN, Book(req, wasPaid)
        PROVE  Inv'
    <3>1. TableOK'
      BY <2>1, DecisionType, FS_AddElement DEF Book, TableOK
    <3> QED
      BY <2>1, <3>1, BookedWithinAmount
  <2>2. ASSUME refunds' = refunds
        PROVE  Inv'
    BY <2>2 DEF TableOK, RefundsWithinAmount, Refunded, Succeeded
  <2> QED
    BY <2>1, <2>2 DEF AtomicNext, Pay
<1>3. Inv => RefundsWithinAmount
  OBVIOUS
<1> QED
  BY <1>1, <1>2, <1>3, PTL DEF AtomicRefundsSpec
=============================================================================
