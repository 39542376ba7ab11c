---------------------------- MODULE StockProofs ----------------------------
(***************************************************************************)
(* What holds of a collection, for any printings, any number of rows and   *)
(* copies and any number of imports; and, in the last part, what holds of  *)
(* its audits, for any number of them and any batch a page can post.       *)
(***************************************************************************)
EXTENDS Audit, Intake, FiniteSetTheorems, SequenceTheorems, WellFoundedInduction, TLAPS

----------------------------------------------------------------------------
(* Total and Quantity, the sums the inventory is counted with, when the    *)
(* rows they count change.  They are recursive functions; what is said of  *)
(* them for every number of rows is proved by the smallest counterexample  *)
(* (Smallest).                                                             *)

\* A set of naturals that is not empty has a smallest member.
LEMMA Smallest ==
  ASSUME NEW S, S \subseteq Nat, S # {}
  PROVE  \E m \in S : \A k \in S : m <= k
<1>1. \E m \in S : \A k \in S : <<k, m>> \notin OpToRel(<, Nat)
  BY NatLessThanWellFounded, WFMin, Zenon
<1>2. PICK m \in S : \A k \in S : <<k, m>> \notin OpToRel(<, Nat)
  BY <1>1, Zenon
<1>3. ASSUME NEW k \in S PROVE m <= k
  <2>1. <<k, m>> \in Nat \X Nat
    OBVIOUS
  <2>2. <<k, m>> \in OpToRel(<, Nat) <=> k < m
    BY <2>1, Zenon DEF OpToRel
  <2>3. ~(k < m)
    BY <1>2, <2>2, Zenon
  <2> QED
    BY <2>3
<1> QED
  BY <1>3

----------------------------------------------------------------------------
(* Total *)

\* u holds the partial sums g[1] + ... + g[k] for k up to n.
Sums(n, g, u) == u = [k \in 0 .. n |-> IF k = 0 THEN 0 ELSE u[k - 1] + g[k]]

\* There are such partial sums.
LEMMA SumsExist ==
  ASSUME NEW g, NEW n \in Nat
  PROVE  \E u : Sums(n, g, u)
<1> DEFINE Bad == {k \in Nat : ~ \E u : Sums(k, g, u)}
<1>1. SUFFICES ASSUME Bad # {} PROVE FALSE
  OBVIOUS
<1>2. PICK m \in Bad : \A k \in Bad : m <= k
  <2>1. Bad \subseteq Nat
    OBVIOUS
  <2> QED
    BY <1>1, <2>1, Smallest
<1>3. CASE m = 0
  <2>1. Sums(0, g, [k \in 0 .. 0 |-> 0])
    BY DEF Sums
  <2> QED
    BY <1>2, <1>3, <2>1
<1>4. CASE m # 0
  <2>1. m - 1 \in Nat /\ m - 1 \notin Bad
    BY <1>2, <1>4
  <2>2. PICK u : Sums(m - 1, g, u)
    BY <2>1
  <2> DEFINE v == [k \in 0 .. m |-> IF k = m THEN u[m - 1] + g[m] ELSE u[k]]
  <2>3. ASSUME NEW k \in 0 .. m
        PROVE  v[k] = IF k = 0 THEN 0 ELSE v[k - 1] + g[k]
    <3>1. CASE k = m
      BY <1>4, <3>1
    <3>2. CASE k # m
      <4>1. k \in 0 .. (m - 1) /\ (k # 0 => k - 1 \in 0 .. (m - 1))
        BY <3>2
      <4>2. u[k] = IF k = 0 THEN 0 ELSE u[k - 1] + g[k]
        BY <2>2, <4>1 DEF Sums
      <4> QED
        BY <3>2, <4>1, <4>2
    <3> QED
      BY <3>1, <3>2
  <2>4. Sums(m, g, v)
    BY <2>3 DEF Sums
  <2> QED
    BY <1>2, <2>4
<1> QED
  BY <1>3, <1>4

\* Total is the last of its partial sums.
LEMMA TotalIsASum ==
  ASSUME NEW g, NEW n \in Nat
  PROVE  \E u : Sums(n, g, u) /\ Total(n, g) = u[n]
<1> DEFINE U == CHOOSE u : Sums(n, g, u)
<1>1. Sums(n, g, U)
  BY SumsExist
<1>2. Total(n, g) = U[n]
  BY DEF Total, Sums
<1> QED
  BY <1>1, <1>2

\* The partial sums are determined as far as the terms are.
LEMMA SumsAgree ==
  ASSUME NEW n \in Nat, NEW m \in Nat, m <= n, NEW f, NEW g, NEW u, NEW v,
         Sums(n, f, u), Sums(m, g, v),
         \A k \in 1 .. m : f[k] = g[k]
  PROVE  u[m] = v[m]
<1> DEFINE Bad == {k \in 0 .. m : u[k] # v[k]}
<1>1. SUFFICES ASSUME Bad # {} PROVE FALSE
  OBVIOUS
<1>2. PICK k \in Bad : \A j \in Bad : k <= j
  <2>1. Bad \subseteq Nat
    OBVIOUS
  <2> QED
    BY <1>1, <2>1, Smallest
<1>3. CASE k = 0
  BY <1>2, <1>3 DEF Sums
<1>4. CASE k # 0
  <2>1. k - 1 \in 0 .. m /\ k - 1 \notin Bad /\ k \in 1 .. m
    BY <1>2, <1>4
  <2>2. u[k] = u[k - 1] + f[k] /\ v[k] = v[k - 1] + g[k]
    BY <1>4, <2>1 DEF Sums
  <2> QED
    BY <1>2, <2>1, <2>2
<1> QED
  BY <1>3, <1>4

\* The recursion, without the function that stands for it.
LEMMA TotalStep ==
  ASSUME NEW g
  PROVE  /\ Total(0, g) = 0
         /\ \A n \in Nat \ {0} : Total(n, g) = Total(n - 1, g) + g[n]
<1>1. Total(0, g) = 0
  <2>1. PICK u : Sums(0, g, u) /\ Total(0, g) = u[0]
    BY TotalIsASum
  <2> QED
    BY <2>1 DEF Sums
<1>2. ASSUME NEW n \in Nat \ {0}
      PROVE  Total(n, g) = Total(n - 1, g) + g[n]
  <2>1. PICK u : Sums(n, g, u) /\ Total(n, g) = u[n]
    BY TotalIsASum
  <2>2. PICK v : Sums(n - 1, g, v) /\ Total(n - 1, g) = v[n - 1]
    BY TotalIsASum
  <2>3. u[n] = u[n - 1] + g[n]
    BY <2>1 DEF Sums
  <2>4. u[n - 1] = v[n - 1]
    BY <2>1, <2>2, SumsAgree
  <2> QED
    BY <2>1, <2>2, <2>3, <2>4
<1> QED
  BY <1>1, <1>2

\* A total of naturals is a natural, one of integers an integer.
LEMMA TotalType ==
  ASSUME NEW n \in Nat, NEW g
  PROVE  /\ (\A k \in 1 .. n : g[k] \in Int) => Total(n, g) \in Int
         /\ (\A k \in 1 .. n : g[k] \in Nat) => Total(n, g) \in Nat
<1>1. ASSUME NEW D, D = Int \/ D = Nat, \A k \in 1 .. n : g[k] \in D
      PROVE  Total(n, g) \in D
  <2> DEFINE Bad == {k \in 0 .. n : Total(k, g) \notin D}
  <2>1. SUFFICES ASSUME Bad # {} PROVE FALSE
    OBVIOUS
  <2>2. PICK k \in Bad : \A j \in Bad : k <= j
    <3>1. Bad \subseteq Nat
      OBVIOUS
    <3> QED
      BY <2>1, <3>1, Smallest
  <2>3. CASE k = 0
    BY <1>1, <2>2, <2>3, TotalStep
  <2>4. CASE k # 0
    <3>1. k - 1 \in 0 .. n /\ k - 1 \notin Bad /\ k \in 1 .. n
      BY <2>2, <2>4
    <3>2. Total(k, g) = Total(k - 1, g) + g[k]
      BY <3>1, TotalStep
    <3>3. Total(k - 1, g) \in D /\ g[k] \in D
      BY <1>1, <3>1
    <3> QED
      BY <1>1, <2>2, <3>2, <3>3
  <2> QED
    BY <2>3, <2>4
<1> QED
  BY <1>1

\* The totals of f, g and h, where each term of h is the sum of those of f and g.
LEMMA TotalAdds ==
  ASSUME NEW n \in Nat, NEW f, NEW g, NEW h,
         \A k \in 1 .. n : f[k] \in Int /\ g[k] \in Int /\ h[k] = f[k] + g[k]
  PROVE  Total(n, h) = Total(n, f) + Total(n, g)
<1> DEFINE Bad == {k \in 0 .. n : Total(k, h) # Total(k, f) + Total(k, g)}
<1>1. SUFFICES ASSUME Bad # {} PROVE FALSE
  OBVIOUS
<1>2. PICK k \in Bad : \A j \in Bad : k <= j
  <2>1. Bad \subseteq Nat
    OBVIOUS
  <2> QED
    BY <1>1, <2>1, Smallest
<1>3. CASE k = 0
  BY <1>2, <1>3, TotalStep
<1>4. CASE k # 0
  <2>1. k - 1 \in 0 .. n /\ k - 1 \notin Bad /\ k \in 1 .. n
    BY <1>2, <1>4
  <2>2. /\ Total(k, f) = Total(k - 1, f) + f[k]
        /\ Total(k, g) = Total(k - 1, g) + g[k]
        /\ Total(k, h) = Total(k - 1, h) + h[k]
    BY <2>1, TotalStep
  <2>3. Total(k - 1, f) \in Int /\ Total(k - 1, g) \in Int
    BY <2>1, TotalType
  <2> QED
    BY <1>2, <2>1, <2>2, <2>3
<1> QED
  BY <1>3, <1>4

\* Totals of the same terms.
LEMMA TotalSame ==
  ASSUME NEW n \in Nat, NEW f, NEW g, \A k \in 1 .. n : f[k] = g[k]
  PROVE  Total(n, f) = Total(n, g)
<1>1. PICK u : Sums(n, f, u) /\ Total(n, f) = u[n]
  BY TotalIsASum
<1>2. PICK v : Sums(n, g, v) /\ Total(n, g) = v[n]
  BY TotalIsASum
<1> QED
  BY <1>1, <1>2, SumsAgree

\* One term.
LEMMA TotalOfOne ==
  ASSUME NEW n \in Nat, NEW i \in 1 .. n, NEW x \in Int, NEW g,
         \A k \in 1 .. n : g[k] = IF k = i THEN x ELSE 0
  PROVE  Total(n, g) = x
<1> DEFINE Bad == {k \in 0 .. n : Total(k, g) # IF k >= i THEN x ELSE 0}
<1>1. SUFFICES ASSUME Bad # {} PROVE FALSE
  OBVIOUS
<1>2. PICK k \in Bad : \A j \in Bad : k <= j
  <2>1. Bad \subseteq Nat
    OBVIOUS
  <2> QED
    BY <1>1, <2>1, Smallest
<1>3. CASE k = 0
  BY <1>2, <1>3, TotalStep
<1>4. CASE k # 0
  <2>1. k - 1 \in 0 .. n /\ k - 1 \notin Bad /\ k \in 1 .. n
    BY <1>2, <1>4
  <2>2. Total(k, g) = Total(k - 1, g) + g[k]
    BY <2>1, TotalStep
  <2> QED
    BY <1>2, <2>1, <2>2
<1> QED
  BY <1>3, <1>4

\* Totals without terms.
LEMMA TotalOfNone ==
  ASSUME NEW n \in Nat, NEW g, \A k \in 1 .. n : g[k] = 0
  PROVE  Total(n, g) = 0
<1>1. CASE n = 0
  BY <1>1, TotalStep
<1>2. CASE n # 0
  <2>1. 1 \in 1 .. n /\ \A k \in 1 .. n : g[k] = IF k = 1 THEN 0 ELSE 0
    BY <1>2
  <2> QED
    BY <2>1, TotalOfOne
<1> QED
  BY <1>1, <1>2

\* Rows of terms added up row by row, or column by column.
LEMMA TotalOfTotals ==
  ASSUME NEW n \in Nat, NEW m \in Nat, NEW a,
         \A i \in 1 .. n, e \in 1 .. m : a[i][e] \in Int
  PROVE  Total(n, [i \in 1 .. n |-> Total(m, a[i])])
           = Total(m, [e \in 1 .. m |-> Total(n, [i \in 1 .. n |-> a[i][e]])])
<1> DEFINE col(e) == [i \in 1 .. n |-> a[i][e]]
           h == [e \in 1 .. m |-> Total(n, col(e))]
           f(k) == [i \in 1 .. n |-> Total(k, a[i])]
           Bad == {k \in 0 .. m : Total(n, f(k)) # Total(k, h)}
<1>1. \A k \in 0 .. m, i \in 1 .. n : f(k)[i] = Total(k, a[i]) /\ Total(k, a[i]) \in Int
  BY TotalType
<1>2. \A e \in 1 .. m : h[e] = Total(n, col(e)) /\ \A i \in 1 .. n : col(e)[i] = a[i][e]
  OBVIOUS
<1>3. SUFFICES ASSUME Bad # {} PROVE FALSE
  <2>1. m \in 0 .. m
    OBVIOUS
  <2>2. Bad = {} => Total(n, f(m)) = Total(m, h)
    BY <2>1
  <2> QED
    BY <2>2
<1> HIDE DEF f, h, col
<1>4. PICK k \in Bad : \A j \in Bad : k <= j
  <2>1. Bad \subseteq Nat
    OBVIOUS
  <2> HIDE DEF Bad
  <2> QED
    BY <1>3, <2>1, Smallest
<1>5. CASE k = 0
  <2>1. \A i \in 1 .. n : f(k)[i] = 0
    BY <1>1, <1>4, <1>5, TotalStep
  <2>2. Total(n, f(k)) = 0
    BY <2>1, TotalOfNone
  <2>3. Total(k, h) = 0
    BY <1>5, TotalStep
  <2> QED
    BY <1>4, <2>2, <2>3
<1>6. CASE k # 0
  <2>1. k - 1 \in 0 .. m /\ k - 1 \notin Bad /\ k \in 1 .. m /\ k \in Nat \ {0}
    BY <1>4, <1>6
  <2>2. \A i \in 1 .. n : /\ f(k)[i] = f(k - 1)[i] + col(k)[i]
                         /\ f(k - 1)[i] \in Int /\ col(k)[i] \in Int
    <3> TAKE i \in 1 .. n
    <3>1. Total(k, a[i]) = Total(k - 1, a[i]) + a[i][k]
      BY <2>1, TotalStep
    <3> QED
      BY <1>1, <1>2, <2>1, <3>1
  <2>3. Total(n, f(k)) = Total(n, f(k - 1)) + Total(n, col(k))
    <3> DEFINE F == f(k - 1)
               G == col(k)
               H == f(k)
    <3>1. \A i \in 1 .. n : F[i] \in Int /\ G[i] \in Int /\ H[i] = F[i] + G[i]
      BY <2>2
    <3> HIDE DEF F, G, H
    <3>2. Total(n, H) = Total(n, F) + Total(n, G)
      BY <3>1, TotalAdds
    <3> QED
      BY <3>2 DEF F, G, H
  <2>4. Total(k, h) = Total(k - 1, h) + Total(n, col(k))
    BY <1>2, <2>1, TotalStep
  <2> QED
    BY <1>4, <2>1, <2>3, <2>4
<1> QED
  BY <1>5, <1>6

----------------------------------------------------------------------------
(* Copies *)

\* What one row counts for among the copies of printing p.
Value(r, p) == IF r # NoRow /\ r.card = p /\ r.kind = "real" THEN r.qty ELSE 0

\* A row has a natural number of real copies of a printing.
LEMMA ValueType ==
  ASSUME NEW r \in Row \cup {NoRow}, NEW p
  PROVE  Value(r, p) \in Nat
BY DEF Value, Row

\* The real copies in a table are the sum of what its rows hold.
LEMMA CopiesAreValues ==
  ASSUME NEW T \in Tables, NEW p
  PROVE  Copies(T, p) = Total(MaxRows, [i \in Ids |-> Value(T[i], p)])
<1> DEFINE f == [i \in Ids |-> IF i \in RealRows(T, p) THEN T[i].qty ELSE 0]
           g == [i \in Ids |-> Value(T[i], p)]
<1>1. \A i \in 1 .. MaxRows : f[i] = g[i]
  BY DEF Ids, RealRows, Rows, Value
<1>2. Total(MaxRows, f) = Total(MaxRows, g)
  <2> HIDE DEF f, g
  <2> QED
    BY <1>1, InventoryAssumption, TotalSame
<1> QED
  BY <1>2 DEF Copies, Quantity

\* The copies change as the values of the rows do.
LEMMA CopiesChange ==
  ASSUME NEW T \in Tables, NEW U \in Tables, NEW p, NEW d,
         \A i \in Ids : d[i] \in Int /\ Value(U[i], p) = Value(T[i], p) + d[i]
  PROVE  Copies(U, p) = Copies(T, p) + Total(MaxRows, d)
<1> DEFINE f == [i \in Ids |-> Value(T[i], p)]
           g == [i \in Ids |-> Value(U[i], p)]
<1>1. \A i \in 1 .. MaxRows : f[i] \in Int /\ d[i] \in Int /\ g[i] = f[i] + d[i]
  BY ValueType DEF Ids, Tables
<1>2. Total(MaxRows, g) = Total(MaxRows, f) + Total(MaxRows, d)
  <2> HIDE DEF f, g
  <2> QED
    BY <1>1, InventoryAssumption, TotalAdds
<1> QED
  BY <1>2, CopiesAreValues

\* A table holds a natural number of real copies.
LEMMA CopiesType ==
  ASSUME NEW T \in Tables, NEW p
  PROVE  Copies(T, p) \in Nat
<1> DEFINE f == [i \in Ids |-> Value(T[i], p)]
<1>1. \A i \in 1 .. MaxRows : f[i] \in Nat
  BY ValueType DEF Ids, Tables
<1>2. Total(MaxRows, f) \in Nat
  <2> HIDE DEF f
  <2> QED
    BY <1>1, InventoryAssumption, TotalType
<1> QED
  BY <1>2, CopiesAreValues

\* Tables whose rows hold the same copies hold as many.
LEMMA CopiesSame ==
  ASSUME NEW T \in Tables, NEW U \in Tables, NEW p,
         \A i \in Ids : Value(U[i], p) = Value(T[i], p)
  PROVE  Copies(U, p) = Copies(T, p)
<1> DEFINE d == [i \in Ids |-> 0]
<1>1. \A i \in Ids : d[i] = 0 /\ Value(T[i], p) \in Int
  BY ValueType DEF Tables
<1> HIDE DEF d
<1>2. Total(MaxRows, d) = 0
  BY <1>1, InventoryAssumption, TotalOfNone DEF Ids
<1>3. Copies(U, p) = Copies(T, p) + Total(MaxRows, d)
  BY <1>1, CopiesChange
<1> QED
  BY <1>2, <1>3, CopiesType

\* One row changes.
LEMMA CopiesOne ==
  ASSUME NEW T \in Tables, NEW U \in Tables, NEW p, NEW i \in Ids,
         \A j \in Ids \ {i} : Value(U[j], p) = Value(T[j], p)
  PROVE  Copies(U, p) = Copies(T, p) + (Value(U[i], p) - Value(T[i], p))
<1> DEFINE x == Value(U[i], p) - Value(T[i], p)
           d == [j \in Ids |-> IF j = i THEN x ELSE 0]
<1>1. \A j \in Ids : Value(T[j], p) \in Int /\ Value(U[j], p) \in Int
  BY ValueType DEF Tables
<1>2. x \in Int
  BY <1>1
<1>3. \A j \in Ids : d[j] \in Int /\ Value(U[j], p) = Value(T[j], p) + d[j]
  BY <1>1
<1>4. \A j \in Ids : d[j] = IF j = i THEN x ELSE 0
  OBVIOUS
<1>5. Total(MaxRows, d) = x
  <2> HIDE DEF x, d
  <2> QED
    BY <1>2, <1>4, InventoryAssumption, TotalOfOne DEF Ids
<1>6. Copies(U, p) = Copies(T, p) + Total(MaxRows, d)
  <2> HIDE DEF x, d
  <2> QED
    BY <1>3, CopiesChange
<1> QED
  BY <1>5, <1>6

\* Two rows change.
LEMMA CopiesTwo ==
  ASSUME NEW T \in Tables, NEW U \in Tables, NEW p, NEW i \in Ids, NEW j \in Ids, i # j,
         \A k \in Ids \ {i, j} : Value(U[k], p) = Value(T[k], p)
  PROVE  Copies(U, p) = Copies(T, p) + (Value(U[i], p) - Value(T[i], p))
                                     + (Value(U[j], p) - Value(T[j], p))
<1> DEFINE V == [T EXCEPT ![i] = U[i]]
<1>1. /\ V \in Tables
      /\ V[i] = U[i] /\ V[j] = T[j]
      /\ \A k \in Ids \ {i} : V[k] = T[k]
  BY DEF Tables
<1> HIDE DEF V
<1>2. Copies(V, p) = Copies(T, p) + (Value(U[i], p) - Value(T[i], p))
  <2>1. Copies(V, p) = Copies(T, p) + (Value(V[i], p) - Value(T[i], p))
    BY <1>1, CopiesOne
  <2> QED
    BY <1>1, <2>1
<1>3. Copies(U, p) = Copies(V, p) + (Value(U[j], p) - Value(V[j], p))
  <2>1. \A k \in Ids \ {j} : Value(U[k], p) = Value(V[k], p)
    BY <1>1
  <2> QED
    BY <1>1, <2>1, CopiesOne
<1> QED
  BY <1>1, <1>2, <1>3

----------------------------------------------------------------------------
(* Changing the table *)

\* a is the row b with other copies.
Alike(a, b) == a \in Row /\ b \in Row /\ a.card = b.card /\ a.at = b.at /\ a.kind = b.kind

\* The copies taken out of every row are there.
Takeable(T, take) ==
  \A i \in Ids : take[i] \in Nat /\ (take[i] # 0 => T[i] \in Row /\ take[i] <= T[i].qty)

\* Taking k copies from a row takes k from its printing and from no other.
LEMMA LessRow ==
  ASSUME NEW r \in Row, NEW k \in Nat, k <= r.qty
  PROVE  /\ Less(r, k) = NoRow \/ Alike(Less(r, k), r)
         /\ \A p : Value(Less(r, k), p) = Value(r, p) - (IF r.card = p /\ r.kind = "real" THEN k ELSE 0)
<1>1. CASE r.qty = k
  BY <1>1, InventoryAssumption DEF Less, Value, Row
<1>2. CASE r.qty # k
  <2>1. Less(r, k) = [r EXCEPT !.qty = r.qty - k] /\ r.qty - k \in Nat \ {0}
    BY <1>2 DEF Less, Row
  <2>2. Alike(Less(r, k), r) /\ Less(r, k).qty = r.qty - k
    BY <2>1 DEF Alike, Row
  <2> QED
    BY <2>2, InventoryAssumption DEF Alike, Value
<1> QED
  BY <1>1, <1>2

\* Taking copies out.
LEMMA DrainedEffect ==
  ASSUME NEW T \in Tables, NEW take, Takeable(T, take)
  PROVE  /\ Drained(T, take) \in Tables
         /\ \A i \in Ids : \/ Drained(T, take)[i] = NoRow
                           \/ Alike(Drained(T, take)[i], T[i])
         /\ \A i \in Ids : take[i] = 0 => Drained(T, take)[i] = T[i]
         /\ \A i \in Ids, p \in Printings :
              Value(Drained(T, take)[i], p)
                = Value(T[i], p) - (IF i \in RealRows(T, p) THEN take[i] ELSE 0)
<1> DEFINE U == Drained(T, take)
<1>1. U = [i \in Ids |-> IF take[i] = 0 THEN T[i] ELSE Less(T[i], take[i])]
  BY DEF Drained
<1>2. ASSUME NEW i \in Ids
      PROVE  /\ U[i] \in Row \cup {NoRow}
             /\ U[i] = NoRow \/ Alike(U[i], T[i])
             /\ take[i] = 0 => U[i] = T[i]
             /\ \A p \in Printings :
                  Value(U[i], p) = Value(T[i], p) - (IF i \in RealRows(T, p) THEN take[i] ELSE 0)
  <2>1. T[i] \in Row \cup {NoRow}
    BY DEF Tables
  <2>2. CASE take[i] = 0
    BY <1>1, <2>1, <2>2, ValueType DEF Alike
  <2>3. CASE take[i] # 0
    <3>1. T[i] \in Row /\ take[i] \in Nat /\ take[i] <= T[i].qty /\ U[i] = Less(T[i], take[i])
      BY <1>1, <2>3 DEF Takeable
    <3>2. \A p : i \in RealRows(T, p) <=> T[i].card = p /\ T[i].kind = "real"
      BY <3>1, InventoryAssumption DEF RealRows, Rows
    <3> QED
      BY <2>3, <3>1, <3>2, LessRow DEF Alike
  <2> QED
    BY <2>2, <2>3
<1>3. U \in Tables
  BY <1>1, <1>2 DEF Tables
<1> QED
  BY <1>2, <1>3

\* Draining a table takes from a printing what is taken from its real rows.
LEMMA DrainedCopies ==
  ASSUME NEW T \in Tables, NEW take, Takeable(T, take), NEW p \in Printings
  PROVE  Copies(Drained(T, take), p) =
           Copies(T, p) - Total(MaxRows, [i \in Ids |-> IF i \in RealRows(T, p) THEN take[i] ELSE 0])
<1> DEFINE t == [i \in Ids |-> IF i \in RealRows(T, p) THEN take[i] ELSE 0]
           U == Drained(T, take)
<1>1. U \in Tables /\ \A i \in Ids : Value(U[i], p) = Value(T[i], p) - t[i]
  BY DrainedEffect
<1>2. \A i \in Ids : t[i] \in Nat /\ Value(U[i], p) \in Nat /\ Value(T[i], p) \in Nat
  BY <1>1, ValueType DEF Takeable, Tables
<1>3. \A i \in Ids : Value(T[i], p) = Value(U[i], p) + t[i]
  BY <1>1, <1>2
<1>4. Copies(T, p) = Copies(U, p) + Total(MaxRows, t)
  <2> HIDE DEF t, U
  <2> QED
    BY <1>1, <1>2, <1>3, CopiesChange
<1>5. Total(MaxRows, t) \in Nat
  <2> HIDE DEF t
  <2> QED
    BY <1>2, TotalType, InventoryAssumption DEF Ids
<1> QED
  BY <1>1, <1>4, <1>5, CopiesType

\* Copies of one row.
LEMMA TakeFromOne ==
  ASSUME NEW T \in Tables, NEW i \in Rows(T), NEW k \in Nat, k <= T[i].qty
  PROVE  /\ Takeable(T, TakeFrom(i, k))
         /\ \A p \in Printings :
              Copies(Drained(T, TakeFrom(i, k)), p) =
                Copies(T, p) - (IF T[i].card = p /\ T[i].kind = "real" THEN k ELSE 0)
<1>1. i \in Ids /\ T[i] \in Row /\ \A j \in Ids : TakeFrom(i, k)[j] = IF j = i THEN k ELSE 0
  BY DEF Rows, Tables, TakeFrom
<1>2. Takeable(T, TakeFrom(i, k))
  BY <1>1 DEF Takeable
<1>3. ASSUME NEW p \in Printings
      PROVE  Copies(Drained(T, TakeFrom(i, k)), p) =
               Copies(T, p) - (IF T[i].card = p /\ T[i].kind = "real" THEN k ELSE 0)
  <2> DEFINE x == IF T[i].card = p /\ T[i].kind = "real" THEN k ELSE 0
             t == [j \in Ids |-> IF j \in RealRows(T, p) THEN TakeFrom(i, k)[j] ELSE 0]
  <2>1. \A j \in Ids : t[j] = IF j = i THEN x ELSE 0
    BY <1>1 DEF RealRows
  <2>2. Total(MaxRows, t) = x
    <3>1. x \in Int
      OBVIOUS
    <3> HIDE DEF t, x
    <3> QED
      BY <1>1, <2>1, <3>1, TotalOfOne, InventoryAssumption DEF Ids
  <2>3. Copies(Drained(T, TakeFrom(i, k)), p) = Copies(T, p) - Total(MaxRows, t)
    BY <1>2, DrainedCopies
  <2> QED
    BY <2>2, <2>3
<1> QED
  BY <1>2, <1>3

\* What Drains chooses can be taken, out of the rows in S, k copies in all.
LEMMA DrainsEffect ==
  ASSUME NEW T \in Tables, NEW S \in SUBSET Rows(T), NEW k \in Nat, NEW rank,
         NEW take \in Drains(T, S, k, rank)
  PROVE  /\ Takeable(T, take)
         /\ take \in [Ids -> Nat]
         /\ \A i \in Ids : take[i] # 0 => i \in S
         /\ Total(MaxRows, take) = k
<1>1. PICK u \in [S -> 0 .. k] :
        /\ \A i \in S : u[i] <= T[i].qty
        /\ Total(MaxRows, [i \in Ids |-> IF i \in S THEN u[i] ELSE 0]) = k
        /\ take = [i \in Ids |-> IF i \in S THEN u[i] ELSE 0]
  BY DEF Drains
<1>2. \A i \in S : T[i] \in Row
  BY DEF Rows, Tables
<1> QED
  BY <1>1, <1>2 DEF Takeable

\* A new row is at an identifier that is free and not in B.
LEMMA InsertionEffect ==
  ASSUME NEW T \in Tables, NEW B, NEW r \in Row, NEW U \in Insertions(B, T, r)
  PROVE  /\ U \in Tables
         /\ \E i \in Ids \ (B \cup Rows(T)) : U[i] = r /\ \A j \in Ids \ {i} : U[j] = T[j]
         /\ \A p : Copies(U, p) = Copies(T, p) + Value(r, p)
<1>1. PICK i \in Ids \ (B \cup Rows(T)) : U = [j \in Ids |-> IF j = i THEN r ELSE T[j]]
  BY DEF Insertions, Fresh
<1>2. U \in Tables /\ U[i] = r /\ \A j \in Ids \ {i} : U[j] = T[j]
  BY <1>1 DEF Tables
<1>3. ASSUME NEW p
      PROVE  Copies(U, p) = Copies(T, p) + Value(r, p)
  <2>1. Copies(U, p) = Copies(T, p) + (Value(U[i], p) - Value(T[i], p))
    BY <1>2, CopiesOne
  <2>2. Value(T[i], p) = 0
    BY <1>1 DEF Value, Rows
  <2> QED
    BY <1>2, <2>1, <2>2, ValueType
<1> QED
  BY <1>1, <1>2, <1>3

\* Copies put into a row with the merge key.
Merged(T, r, i) == [T EXCEPT ![i].qty = @ + r.qty]

\* Merging a row into one that matches it adds its copies there and touches no other row.
LEMMA MergeEffect ==
  ASSUME NEW T \in Tables, NEW r \in Row, NEW i \in Matches(T, r),
         NEW U, U = Merged(T, r, i)
  PROVE  /\ U \in Tables
         /\ i \in Ids /\ T[i] \in Row /\ Mergeable(T[i], r)
         /\ Alike(U[i], T[i])
         /\ \A j \in Ids \ {i} : U[j] = T[j]
         /\ \A p : Value(U[i], p) = Value(T[i], p) + Value(r, p)
<1>1. i \in Ids /\ T[i] \in Row /\ Mergeable(T[i], r)
  BY DEF Matches, Rows, Tables
<1>2. T[i].qty + r.qty \in Nat \ {0}
  BY <1>1 DEF Row
<1>3. U[i] = [T[i] EXCEPT !.qty = T[i].qty + r.qty]
  BY <1>1 DEF Tables, Merged
<1>4. U[i].qty = T[i].qty + r.qty /\ Alike(U[i], T[i])
  BY <1>1, <1>2, <1>3 DEF Row, Alike
<1>5. \A j \in Ids \ {i} : U[j] = T[j]
  BY DEF Tables, Merged
<1>6. U \in Tables
  BY <1>4, <1>5 DEF Tables, Alike, Merged
<1>7. \A p : Value(U[i], p) = Value(T[i], p) + Value(r, p)
  BY <1>1, <1>4, InventoryAssumption DEF Value, Mergeable, IsProxy, Alike, Row
<1> QED
  BY <1>1, <1>4, <1>5, <1>6, <1>7

\* Copies put where they belong: added to a row like them, or a new row.
LEMMA DepositEffect ==
  ASSUME NEW T \in Tables, NEW B, NEW r \in Row, NEW U \in Deposits(B, T, r)
  PROVE  /\ U \in Tables
         /\ \E i \in Ids :
              /\ \A j \in Ids \ {i} : U[j] = T[j]
              /\ \/ i \notin B \cup Rows(T) /\ U[i] = r
                 \/ T[i] \in Row /\ Mergeable(T[i], r) /\ Alike(U[i], T[i])
         /\ \A p : Copies(U, p) = Copies(T, p) + Value(r, p)
<1>1. CASE Matches(T, r) = {}
  <2>1. U \in Insertions(B, T, r)
    BY <1>1 DEF Deposits
  <2> QED
    BY <2>1, InsertionEffect
<1>2. CASE Matches(T, r) # {}
  <2>1. PICK i \in Matches(T, r) : U = Merged(T, r, i)
    BY <1>2 DEF Deposits, Merged
  <2>2. /\ U \in Tables
        /\ i \in Ids /\ T[i] \in Row /\ Mergeable(T[i], r)
        /\ Alike(U[i], T[i])
        /\ \A j \in Ids \ {i} : U[j] = T[j]
        /\ \A p : Value(U[i], p) = Value(T[i], p) + Value(r, p)
    BY <2>1, MergeEffect
  <2>3. ASSUME NEW p
        PROVE  Copies(U, p) = Copies(T, p) + Value(r, p)
    <3>1. Copies(U, p) = Copies(T, p) + (Value(U[i], p) - Value(T[i], p))
      BY <2>2, CopiesOne
    <3> QED
      BY <2>2, <3>1, ValueType
  <2> QED
    BY <2>2, <2>3
<1> QED
  BY <1>1, <1>2

\* A row put elsewhere: it moves, or goes into one that is like it there.
Relocated(T, i, at, U) ==
  \/ /\ U[i] = [T[i] EXCEPT !.at = at]
     /\ \A k \in Ids \ {i} : U[k] = T[k]
  \/ \E j \in Ids \ {i} :
       /\ U[i] = NoRow
       /\ T[j] \in Row /\ Alike(U[j], T[j])
       /\ \A k \in Ids \ {i, j} : U[k] = T[k]

\* Moving a row to another place changes no total, whether or not it merges there.
LEMMA MoveEffect ==
  ASSUME NEW T \in Tables, NEW i \in Rows(T), NEW at \in Spots, NEW U \in Moves(T, i, at)
  PROVE  /\ U \in Tables
         /\ Relocated(T, i, at, U)
         /\ \A p : Copies(U, p) = Copies(T, p)
<1> DEFINE r == [T[i] EXCEPT !.at = at]
           M == Matches(T, r) \ {i}
<1>1. i \in Ids /\ T[i] \in Row
  BY DEF Rows, Tables
<1>2. r \in Row /\ r.card = T[i].card /\ r.kind = T[i].kind /\ r.qty = T[i].qty
  BY <1>1 DEF Row
<1>3. \A p : Value(r, p) = Value(T[i], p)
  BY <1>1, <1>2, InventoryAssumption DEF Value
<1>4. CASE M = {}
  <2>1. U = [T EXCEPT ![i] = r]
    BY <1>4 DEF Moves
  <2>2. U \in Tables /\ U[i] = r /\ \A k \in Ids \ {i} : U[k] = T[k]
    BY <1>1, <1>2, <2>1 DEF Tables
  <2>3. \A p : Copies(U, p) = Copies(T, p)
    BY <1>1, <1>3, <2>2, CopiesSame
  <2> QED
    BY <2>2, <2>3 DEF Relocated
<1>5. CASE M # {}
  <2>1. PICK j \in M : U = [T EXCEPT ![j].qty = @ + r.qty, ![i] = NoRow]
    BY <1>5 DEF Moves
  <2> DEFINE V == Merged(T, r, j)
  <2>2. /\ V \in Tables
        /\ j \in Ids /\ T[j] \in Row
        /\ Alike(V[j], T[j])
        /\ \A k \in Ids \ {j} : V[k] = T[k]
        /\ \A p : Value(V[j], p) = Value(T[j], p) + Value(r, p)
    <3>1. j \in Matches(T, r)
      BY <2>1
    <3> HIDE DEF r
    <3> QED
      BY <1>2, <3>1, MergeEffect
  <2>3. U = [V EXCEPT ![i] = NoRow] /\ i # j
    BY <2>1 DEF Merged
  <2>4. U \in Tables /\ U[i] = NoRow /\ U[j] = V[j] /\ \A k \in Ids \ {i, j} : U[k] = T[k]
    BY <1>1, <2>2, <2>3 DEF Tables
  <2>5. ASSUME NEW p
        PROVE  Copies(U, p) = Copies(T, p)
    <3>1. Copies(U, p) = Copies(T, p) + (Value(U[i], p) - Value(T[i], p))
                                      + (Value(U[j], p) - Value(T[j], p))
      <4>1. \A k \in Ids \ {i, j} : Value(U[k], p) = Value(T[k], p)
        BY <2>4
      <4> QED
        <5>1. i \in Ids /\ j \in Ids /\ i # j /\ U \in Tables
          BY <1>1, <2>2, <2>3, <2>4
        <5> QED
          BY <4>1, <5>1, CopiesTwo
    <3>2. Value(NoRow, p) = 0
      BY DEF Value
    <3>3. Value(U[j], p) - Value(T[j], p) = Value(T[i], p)
      <4>1. Value(T[j], p) \in Nat /\ Value(T[i], p) \in Nat
        BY <1>1, <2>2, ValueType
      <4>2. Value(U[j], p) = Value(T[j], p) + Value(T[i], p)
        BY <1>3, <2>2, <2>4
      <4> QED
        BY <4>1, <4>2
    <3> QED
      BY <1>1, <2>4, <3>1, <3>2, <3>3, ValueType, CopiesType
  <2>6. Relocated(T, i, at, U)
    BY <2>2, <2>3, <2>4 DEF Relocated
  <2> QED
    BY <2>4, <2>5, <2>6
<1> QED
  BY <1>4, <1>5

----------------------------------------------------------------------------
(* Where rows may be, and the log *)

\* Where a row may be while the deck is d: placeholders in a brew deck, and nothing
\* in a deck that is not there.
Fits(r, d) ==
  r # NoRow =>
    /\ r.kind = "placeholder" => d = "brew" /\ r.at \in DeckSpots
    /\ d = "none" => r.at \notin DeckSpots

Placed(T, d) == \A i \in Ids : Fits(T[i], d)

\* No row that table U has of table T has become real, or a proxy.
Follows(T, U) ==
  \A i \in Ids : T[i] # NoRow /\ U[i] # NoRow => IsProxy(U[i]) = IsProxy(T[i])

\* The entries of log L that count say of their rows in T whether they are real.
Told(T, L) ==
  \A e \in DOMAIN L :
    L[e].row \in Rows(T) /\ ~L[e].reversed => (L[e].real <=> ~IsProxy(T[L[e].row]))

\* An entry that can still be undone refers to a row that is there, and is real as
\* that row is: undoing it takes real copies for real ones.
LogIsSound ==
  /\ Told(rows, log)
  /\ \A e \in DOMAIN log : log[e].row # 0 => log[e].row \in Rows(rows) /\ ~log[e].reversed

StockInv == TypeOK /\ Conserved /\ Placed(rows, deck) /\ LogIsSound

\* What Placed says of the table is what the two placement properties say.
LEMMA PlacedMeans == Placed(rows, deck) => PlaceholdersStayHome /\ NoneStranded
BY DEF Placed, Fits, PlaceholdersStayHome, NoneStranded, Rows

----------------------------------------------------------------------------
(* The log *)

\* What a log has imported of a printing is a natural number.
LEMMA ImportedType ==
  ASSUME NEW L \in Seq(Entry), NEW p
  PROVE  Imported(L, p) \in Nat
<1> DEFINE f == [e \in DOMAIN L |->
                   IF L[e].card = p /\ L[e].real /\ ~L[e].reversed THEN L[e].qty ELSE 0]
<1>1. Len(L) \in Nat /\ DOMAIN L = 1 .. Len(L) /\ \A e \in 1 .. Len(L) : L[e] \in Entry
  OBVIOUS
<1>2. \A e \in 1 .. Len(L) : f[e] \in Nat
  BY <1>1 DEF Entry
<1>3. Total(Len(L), f) \in Nat
  <2> HIDE DEF f
  <2> QED
    BY <1>1, <1>2, TotalType
<1> QED
  BY <1>3 DEF Imported

\* The balance does not depend on the rows the entries refer to.
LEMMA ImportedSame ==
  ASSUME NEW L \in Seq(Entry), NEW M \in Seq(Entry), NEW p,
         Len(M) = Len(L),
         \A e \in 1 .. Len(L) : /\ M[e].card = L[e].card /\ M[e].real = L[e].real
                                /\ M[e].reversed = L[e].reversed /\ M[e].qty = L[e].qty
  PROVE  Imported(M, p) = Imported(L, p)
<1> DEFINE f == [e \in DOMAIN L |->
                   IF L[e].card = p /\ L[e].real /\ ~L[e].reversed THEN L[e].qty ELSE 0]
           g == [e \in DOMAIN M |->
                   IF M[e].card = p /\ M[e].real /\ ~M[e].reversed THEN M[e].qty ELSE 0]
<1>1. Len(L) \in Nat /\ DOMAIN L = 1 .. Len(L) /\ DOMAIN M = 1 .. Len(L)
  OBVIOUS
<1>2. \A e \in 1 .. Len(L) : f[e] = g[e]
  BY <1>1
<1>3. Total(Len(L), f) = Total(Len(L), g)
  <2> HIDE DEF f, g
  <2> QED
    BY <1>1, <1>2, TotalSame
<1> QED
  BY <1>3 DEF Imported

\* What a commit does to the log: the references to rows that are gone go.
LEMMA CommittedLog ==
  ASSUME NEW U, NEW L \in Seq(Entry), Commit(U, L)
  PROVE  /\ log' \in Seq(Entry) /\ Len(log') = Len(L)
         /\ \A e \in 1 .. Len(L) :
              /\ log'[e].card = L[e].card /\ log'[e].real = L[e].real
              /\ log'[e].reversed = L[e].reversed /\ log'[e].qty = L[e].qty
              /\ log'[e].batch = L[e].batch
              /\ log'[e].row = IF L[e].row \in Rows(U) /\ ~L[e].reversed THEN L[e].row ELSE 0
         /\ \A p : Imported(log', p) = Imported(L, p)
<1> DEFINE M == [e \in DOMAIN L |->
                   IF L[e].row \in Rows(U) /\ ~L[e].reversed THEN L[e] ELSE [L[e] EXCEPT !.row = 0]]
<1>1. log' = M
  BY DEF Commit
<1>2. Len(L) \in Nat /\ DOMAIN L = 1 .. Len(L) /\ \A e \in 1 .. Len(L) : L[e] \in Entry
  OBVIOUS
<1>3. ASSUME NEW e \in 1 .. Len(L)
      PROVE  /\ M[e] \in Entry
             /\ M[e].card = L[e].card /\ M[e].real = L[e].real
             /\ M[e].reversed = L[e].reversed /\ M[e].qty = L[e].qty
             /\ M[e].batch = L[e].batch
             /\ M[e].row = IF L[e].row \in Rows(U) /\ ~L[e].reversed THEN L[e].row ELSE 0
  BY <1>2 DEF Entry
<1>4. M \in Seq(Entry) /\ Len(M) = Len(L)
  <2>1. M \in [1 .. Len(L) -> Entry]
    BY <1>2, <1>3
  <2> HIDE DEF M
  <2> QED
    BY <1>2, <2>1, SeqDef, LenProperties
<1> HIDE DEF M
<1>5. \A p : Imported(M, p) = Imported(L, p)
  BY <1>3, <1>4, ImportedSame
<1> QED
  BY <1>1, <1>3, <1>4, <1>5

\* A transaction that leaves a sound table, whose log agrees with it, and that
\* balances, keeps the invariant.
LEMMA CommitKeeps ==
  ASSUME StockInv, NEW U \in Tables, NEW L \in Seq(Entry), Commit(U, L),
         deck' \in {"none", "plain", "brew"}, owned' \in [Printings -> Int],
         Placed(U, deck'), Told(U, L),
         \A p \in Printings : Copies(U, p) = owned'[p] + Imported(L, p)
  PROVE  StockInv'
<1>1. rows' = U
  BY DEF Commit
<1>2. DOMAIN L = 1 .. Len(L) /\ DOMAIN log' = 1 .. Len(L)
  <2>1. log' \in Seq(Entry) /\ Len(log') = Len(L)
    BY CommittedLog
  <2> QED
    BY <2>1
<1>3. TypeOK'
  BY <1>1, CommittedLog DEF TypeOK
<1>4. Conserved'
  BY <1>1, CommittedLog DEF Conserved
<1>5. LogIsSound'
  <2>1. ASSUME NEW e \in DOMAIN log', log'[e].row # 0
        PROVE  /\ log'[e].row \in Rows(U) /\ ~log'[e].reversed
               /\ log'[e].real <=> ~IsProxy(U[log'[e].row])
    BY <1>2, <2>1, CommittedLog DEF Told
  <2>2. 0 \notin Rows(U)
    BY DEF Rows, Ids
  <2> QED
    BY <1>1, <2>1, <2>2 DEF LogIsSound, Told
<1> QED
  BY <1>1, <1>3, <1>4, <1>5 DEF StockInv

\* The same for a transaction that logs nothing.
LEMMA ChangeKeeps ==
  ASSUME StockInv, NEW U \in Tables, Change(U),
         deck' \in {"none", "plain", "brew"}, owned' \in [Printings -> Int],
         Placed(U, deck'), Follows(rows, U),
         \A p \in Printings : Copies(U, p) - Copies(rows, p) = owned'[p] - owned[p]
  PROVE  StockInv'
<1>1. log \in Seq(Entry) /\ Commit(U, log) /\ owned \in [Printings -> Int]
  BY DEF StockInv, TypeOK, Change
<1>2. Told(U, log)
  <2>1. ASSUME NEW e \in DOMAIN log, log[e].row \in Rows(U)
        PROVE  log[e].real <=> ~IsProxy(U[log[e].row])
    <3>1. log[e].row \in Ids /\ U[log[e].row] # NoRow /\ log[e].row # 0
      BY <2>1 DEF Rows, Ids
    <3>2. log[e].row \in Rows(rows) /\ ~log[e].reversed
      BY <3>1 DEF StockInv, LogIsSound
    <3>3. log[e].real <=> ~IsProxy(rows[log[e].row])
      BY <3>2 DEF StockInv, LogIsSound, Told
    <3>4. IsProxy(U[log[e].row]) = IsProxy(rows[log[e].row])
      BY <3>1, <3>2 DEF Follows, Rows
    <3> QED
      BY <3>3, <3>4
  <2> QED
    BY <2>1 DEF Told
<1>3. ASSUME NEW p \in Printings
      PROVE  Copies(U, p) = owned'[p] + Imported(log, p)
  <2>1. Copies(rows, p) = owned[p] + Imported(log, p)
    BY DEF StockInv, Conserved
  <2>2. /\ Copies(U, p) \in Int /\ Copies(rows, p) \in Int /\ Imported(log, p) \in Int
        /\ owned[p] \in Int /\ owned'[p] \in Int
    BY <1>1, CopiesType, ImportedType DEF StockInv, TypeOK
  <2> QED
    BY <2>1, <2>2
<1> QED
  BY <1>1, <1>2, <1>3, CommitKeeps

----------------------------------------------------------------------------
(* What the changes of the table keep *)

\* Fits looks at the place and the kind alone, and so does IsProxy.
LEMMA AlikeFits ==
  ASSUME NEW a, NEW b, Alike(a, b)
  PROVE  /\ IsProxy(a) = IsProxy(b)
         /\ \A d : Fits(b, d) => Fits(a, d)
BY InventoryAssumption DEF Alike, Fits, IsProxy

\* Draining rows moves none, makes none real and creates none.
LEMMA DrainKeeps ==
  ASSUME NEW T \in Tables, NEW take, Takeable(T, take), NEW U, U = Drained(T, take)
  PROVE  /\ U \in Tables
         /\ \A d : Placed(T, d) => Placed(U, d)
         /\ \A R : Follows(R, T) => Follows(R, U)
         /\ \A i \in Ids : U[i] # NoRow => T[i] # NoRow
<1>1. U \in Tables /\ \A i \in Ids : U[i] = NoRow \/ Alike(U[i], T[i])
  BY DrainedEffect
<1>2. ASSUME NEW i \in Ids, U[i] # NoRow
      PROVE  /\ T[i] # NoRow
             /\ IsProxy(U[i]) = IsProxy(T[i])
             /\ \A d : Fits(T[i], d) => Fits(U[i], d)
  <2>1. Alike(U[i], T[i])
    BY <1>1, <1>2
  <2> QED
    BY <2>1, AlikeFits, InventoryAssumption DEF Alike
<1>3. ASSUME NEW d, Placed(T, d)
      PROVE  Placed(U, d)
  <2>1. \A i \in Ids : U[i] = NoRow => Fits(U[i], d)
    BY DEF Fits
  <2> QED
    BY <1>2, <1>3, <2>1 DEF Placed
<1>4. ASSUME NEW R, Follows(R, T)
      PROVE  Follows(R, U)
  BY <1>2, <1>4 DEF Follows
<1> QED
  BY <1>1, <1>2, <1>3, <1>4

\* A deposit leaves every row in its place; only a free number gets a new row.
LEMMA DepositKeeps ==
  ASSUME NEW T \in Tables, NEW B, NEW r \in Row, NEW U \in Deposits(B, T, r)
  PROVE  /\ U \in Tables
         /\ \A d : Placed(T, d) /\ Fits(r, d) => Placed(U, d)
         /\ \A R : Rows(R) \subseteq B /\ Follows(R, T) => Follows(R, U)
<1>1. U \in Tables
  BY DepositEffect
<1>2. PICK i \in Ids :
        /\ \A j \in Ids \ {i} : U[j] = T[j]
        /\ \/ i \notin B \cup Rows(T) /\ U[i] = r
           \/ T[i] \in Row /\ Mergeable(T[i], r) /\ Alike(U[i], T[i])
  BY DepositEffect
<1>3. ASSUME NEW d, Placed(T, d), Fits(r, d)
      PROVE  Placed(U, d)
  <2>1. Fits(U[i], d)
    BY <1>2, <1>3, AlikeFits DEF Placed
  <2> QED
    BY <1>2, <1>3, <2>1 DEF Placed
<1>4. ASSUME NEW R, Rows(R) \subseteq B, Follows(R, T)
      PROVE  Follows(R, U)
  <2>1. R[i] # NoRow => IsProxy(U[i]) = IsProxy(R[i])
    BY <1>2, <1>4, AlikeFits, InventoryAssumption DEF Follows, Rows
  <2> QED
    BY <1>2, <1>4, <2>1 DEF Follows
<1> QED
  BY <1>1, <1>3, <1>4

\* So does an insertion, merged or not, and it deletes nothing.
LEMMA InsertionKeeps ==
  ASSUME NEW T \in Tables, NEW B, NEW r \in Row, NEW U \in Insertions(B, T, r)
  PROVE  /\ U \in Tables
         /\ \A d : Placed(T, d) /\ Fits(r, d) => Placed(U, d)
         /\ \A R : Rows(R) \subseteq B /\ Follows(R, T) => Follows(R, U)
         /\ \A j \in Ids : /\ U[j] # NoRow => T[j] # NoRow \/ j \notin B
                           /\ T[j] # NoRow => U[j] # NoRow
<1>1. U \in Tables
  BY InsertionEffect
<1>2. PICK i \in Ids \ (B \cup Rows(T)) : U[i] = r /\ \A j \in Ids \ {i} : U[j] = T[j]
  BY InsertionEffect
<1>3. ASSUME NEW d, Placed(T, d), Fits(r, d)
      PROVE  Placed(U, d)
  BY <1>2, <1>3 DEF Placed
<1>4. ASSUME NEW R, Rows(R) \subseteq B, Follows(R, T)
      PROVE  Follows(R, U)
  BY <1>2, <1>4 DEF Follows, Rows
<1>5. \A j \in Ids : (U[j] # NoRow => T[j] # NoRow \/ j \notin B) /\ (T[j] # NoRow => U[j] # NoRow)
  BY <1>2, InventoryAssumption
<1> QED
  BY <1>1, <1>3, <1>4, <1>5

\* The row that moves fits where it goes.
LEMMA MoveKeeps ==
  ASSUME NEW T \in Tables, NEW i \in Rows(T), NEW at \in Spots, NEW U \in Moves(T, i, at)
  PROVE  /\ U \in Tables
         /\ \A d : (\A j \in Ids \ {i} : Fits(T[j], d)) /\ Fits([T[i] EXCEPT !.at = at], d)
                     => Placed(U, d)
         /\ \A R : Follows(R, T) => Follows(R, U)
         /\ \A p : Copies(U, p) = Copies(T, p)
<1>1. U \in Tables /\ \A p : Copies(U, p) = Copies(T, p)
  BY MoveEffect
<1>2. i \in Ids /\ T[i] \in Row
  BY DEF Rows, Tables
<1>3. CASE U[i] = [T[i] EXCEPT !.at = at] /\ \A k \in Ids \ {i} : U[k] = T[k]
  <2>1. T[i] # NoRow /\ IsProxy(U[i]) = IsProxy(T[i])
    BY <1>2, <1>3, InventoryAssumption DEF IsProxy, Row
  <2>2. ASSUME NEW R, Follows(R, T)
        PROVE  Follows(R, U)
    BY <1>3, <2>1, <2>2 DEF Follows
  <2> QED
    BY <1>1, <1>3, <2>2 DEF Placed
<1>4. ASSUME NEW j \in Ids \ {i}, U[i] = NoRow, T[j] \in Row, Alike(U[j], T[j]),
             \A k \in Ids \ {i, j} : U[k] = T[k]
      PROVE  /\ \A d : (\A k \in Ids \ {i} : Fits(T[k], d)) => Placed(U, d)
             /\ \A R : Follows(R, T) => Follows(R, U)
  <2>1. /\ T[j] # NoRow /\ IsProxy(U[j]) = IsProxy(T[j])
        /\ \A d : Fits(T[j], d) => Fits(U[j], d)
    BY <1>4, InventoryAssumption, AlikeFits
  <2>2. \A d : Fits(NoRow, d)
    BY DEF Fits
  <2>3. ASSUME NEW d, \A k \in Ids \ {i} : Fits(T[k], d)
        PROVE  Placed(U, d)
    BY <1>4, <2>1, <2>2, <2>3 DEF Placed
  <2>4. ASSUME NEW R, Follows(R, T)
        PROVE  Follows(R, U)
    BY <1>4, <2>1, <2>4 DEF Follows
  <2> QED
    BY <2>3, <2>4
<1>5. Relocated(T, i, at, U)
  BY MoveEffect
<1> QED
  BY <1>1, <1>3, <1>4, <1>5 DEF Relocated

\* Row by row: a row stays, elsewhere maybe, or it was a proxy and goes.
Reworked(a, b) ==
  \/ b = a
  \/ b = NoRow /\ a \in Row /\ IsProxy(a)
  \/ a \in Row /\ b \in Row /\ b.card = a.card /\ b.qty = a.qty /\ IsProxy(b) = IsProxy(a)

\* A rework of rows that changes no copy changes no total.
LEMMA ReworkKeeps ==
  ASSUME NEW T \in Tables, NEW U \in Tables, \A i \in Ids : Reworked(T[i], U[i])
  PROVE  /\ \A R : Follows(R, T) /\ (\A i \in Ids : R[i] # NoRow => T[i] # NoRow \/ U[i] = NoRow)
                     => Follows(R, U)
         /\ \A p : Copies(U, p) = Copies(T, p)
<1>1. ASSUME NEW R, Follows(R, T), \A i \in Ids : R[i] # NoRow => T[i] # NoRow \/ U[i] = NoRow
      PROVE  Follows(R, U)
  BY <1>1 DEF Follows, Reworked
<1>2. ASSUME NEW p
      PROVE  Copies(U, p) = Copies(T, p)
  <2>1. \A i \in Ids : Value(U[i], p) = Value(T[i], p)
    BY InventoryAssumption DEF Reworked, Value, IsProxy
  <2> QED
    BY <2>1, CopiesSame
<1> QED
  BY <1>1, <1>2

\* The sorter, on a table it may look at.
LEMMA ResortKeeps ==
  ASSUME NEW T \in Tables, NEW U \in Resorts(T)
  PROVE  /\ U \in Tables
         /\ \A i \in Ids : Reworked(T[i], U[i]) /\ (U[i] # NoRow => T[i] # NoRow)
         /\ \A d : Placed(T, d) => Placed(U, d)
         /\ \A R : Follows(R, T) => Follows(R, U)
         /\ \A p : Copies(U, p) = Copies(T, p)
<1>1. ASSUME NEW i \in Ids
      PROVE  \/ U[i] = T[i]
             \/ T[i] \in Row /\ T[i].at \in {"pending", "box"} /\ U[i] = [T[i] EXCEPT !.at = "assigned"]
  BY DEF Resorts, Rows, Tables
<1>2. ASSUME NEW i \in Ids
      PROVE  /\ U[i] \in Row \cup {NoRow}
             /\ Reworked(T[i], U[i])
             /\ U[i] # NoRow => T[i] # NoRow
             /\ T[i] # NoRow /\ U[i] # NoRow => IsProxy(U[i]) = IsProxy(T[i])
             /\ \A d : Fits(T[i], d) => Fits(U[i], d)
  <2>1. CASE U[i] = T[i]
    BY <2>1 DEF Tables, Reworked
  <2>2. CASE T[i] \in Row /\ T[i].at \in {"pending", "box"} /\ U[i] = [T[i] EXCEPT !.at = "assigned"]
    <3>1. /\ U[i] \in Row /\ U[i].at = "assigned" /\ U[i].kind = T[i].kind
          /\ U[i].card = T[i].card /\ U[i].qty = T[i].qty
      BY <2>2 DEF Row, Spots
    <3>2. IsProxy(U[i]) = IsProxy(T[i])
      BY <3>1 DEF IsProxy
    <3>3. \A d : Fits(T[i], d) => Fits(U[i], d)
      BY <2>2, <3>1, InventoryAssumption DEF Fits, DeckSpots
    <3> QED
      BY <2>2, <3>1, <3>2, <3>3, InventoryAssumption DEF Reworked
  <2> QED
    BY <1>1, <2>1, <2>2
<1>3. U \in Tables
  <2>1. U = T \/ \E S : U = [i \in Ids |-> IF i \in Rows(T) /\ (T[i].at = "pending" \/ i \in S)
                                           THEN [T[i] EXCEPT !.at = "assigned"] ELSE T[i]]
    BY DEF Resorts
  <2> QED
    BY <1>2, <2>1 DEF Tables
<1>4. \A d : Placed(T, d) => Placed(U, d)
  BY <1>2 DEF Placed
<1>5. \A R : Follows(R, T) => Follows(R, U)
  BY <1>2 DEF Follows
<1>6. \A p : Copies(U, p) = Copies(T, p)
  BY <1>2, <1>3, ReworkKeeps
<1> QED
  BY <1>2, <1>3, <1>4, <1>5, <1>6

\* A table follows itself.
LEMMA FollowsItself == \A T : Follows(T, T)
BY DEF Follows

----------------------------------------------------------------------------
(* The balance *)

\* Gains moves the balance of each printing by what it says.
LEMMA GainsBalance ==
  ASSUME StockInv, NEW f, \A p \in Printings : f[p] \in Int, Gains(f)
  PROVE  /\ owned' \in [Printings -> Int]
         /\ \A p \in Printings : owned'[p] - owned[p] = f[p]
BY DEF StockInv, TypeOK, Gains

\* Gain moves the balance of one printing.
LEMMA GainBalance ==
  ASSUME StockInv, NEW p, NEW k \in Int, Gain(p, k)
  PROVE  /\ owned' \in [Printings -> Int]
         /\ \A o \in Printings : owned'[o] - owned[o] = IF o = p THEN k ELSE 0
<1> DEFINE f == [o \in Printings |-> IF o = p THEN k ELSE 0]
<1>1. Gains(f) /\ \A o \in Printings : f[o] \in Int /\ f[o] = IF o = p THEN k ELSE 0
  BY DEF Gain
<1> HIDE DEF f
<1> QED
  BY <1>1, GainsBalance

\* A transaction that neither acquires nor disposes of anything.
LEMMA QuietChange ==
  ASSUME StockInv, NEW U \in Tables, Change(U),
         deck' \in {"none", "plain", "brew"}, UNCHANGED owned,
         Placed(U, deck'), Follows(rows, U),
         \A p \in Printings : Copies(U, p) = Copies(rows, p)
  PROVE  StockInv'
<1>1. owned' \in [Printings -> Int] /\ rows \in Tables
  BY DEF StockInv, TypeOK
<1>2. \A p \in Printings : Copies(U, p) - Copies(rows, p) = owned'[p] - owned[p]
  BY <1>1, CopiesType
<1> QED
  BY <1>1, <1>2, ChangeKeeps

\* A row of the collection.
LEMMA RowOf ==
  ASSUME StockInv, NEW i \in Rows(rows)
  PROVE  /\ rows \in Tables /\ i \in Ids /\ rows[i] \in Row
         /\ Fits(rows[i], deck)
         /\ rows[i].qty \in Nat \ {0}
BY DEF StockInv, TypeOK, Rows, Tables, Placed, Row

----------------------------------------------------------------------------
(* The collection *)

\* A new row is a row, is in its place, and holds its copies and no others.
LEMMA NewRowFits ==
  ASSUME NEW p \in Printings, NEW at \in Spots, NEW kind \in {"real", "proxy"},
         NEW k \in Nat \ {0}, deck = "none" => at \notin DeckSpots
  PROVE  /\ NewRow(p, at, kind, k) \in Row
         /\ Fits(NewRow(p, at, kind, k), deck)
         /\ \A o : Value(NewRow(p, at, kind, k), o) = IF o = p /\ kind = "real" THEN k ELSE 0
<1>1. /\ NewRow(p, at, kind, k) \in Row
      /\ NewRow(p, at, kind, k).card = p /\ NewRow(p, at, kind, k).qty = k
      /\ NewRow(p, at, kind, k).at = at /\ NewRow(p, at, kind, k).kind = Arriving(kind, at)
  BY DEF NewRow, Arriving, Row, Kinds
<1>2. /\ Arriving(kind, at) = "real" <=> kind = "real"
      /\ Arriving(kind, at) = "placeholder" => deck = "brew" /\ at \in DeckSpots
  BY DEF Arriving
<1> QED
  BY <1>1, <1>2, InventoryAssumption DEF Fits, Value

\* The invariant survives add_card_to_location.
LEMMA AddCardKeeps ==
  ASSUME StockInv, MaxCopies \in Nat, NEW p \in Printings, NEW at \in Spots,
         NEW kind \in {"real", "proxy"}, NEW k \in 1 .. MaxCopies, AddCard(p, at, kind, k)
  PROVE  StockInv'
<1> DEFINE r == NewRow(p, at, kind, k)
<1>1. /\ r \in Row /\ Fits(r, deck)
      /\ \A o : Value(r, o) = IF o = p /\ kind = "real" THEN k ELSE 0
  BY NewRowFits DEF AddCard, Spot, DeckSpots
<1>2. PICK U \in Deposits(Rows(rows), rows, r) : Change(U)
  BY DEF AddCard
<1>3. Gain(p, Worth(r, k)) /\ deck' = deck
  BY DEF AddCard
<1>4. Worth(r, k) = IF kind = "real" THEN k ELSE 0
  BY DEF NewRow, Arriving, Worth, IsProxy
<1>5. rows \in Tables /\ Placed(rows, deck) /\ deck \in {"none", "plain", "brew"}
  BY DEF StockInv, TypeOK
<1> HIDE DEF r
<1>6. /\ U \in Tables /\ Placed(U, deck) /\ Follows(rows, U)
      /\ \A o : Copies(U, o) = Copies(rows, o) + Value(r, o)
  BY <1>1, <1>2, <1>5, DepositKeeps, DepositEffect, FollowsItself
<1>7. /\ owned' \in [Printings -> Int]
      /\ \A o \in Printings : owned'[o] - owned[o] = IF o = p THEN Worth(r, k) ELSE 0
  BY <1>3, <1>4, GainBalance
<1>8. \A o \in Printings : Copies(U, o) - Copies(rows, o) = owned'[o] - owned[o]
  BY <1>1, <1>4, <1>5, <1>6, <1>7, CopiesType
<1> QED
  BY <1>2, <1>3, <1>5, <1>6, <1>7, <1>8, ChangeKeeps

\* The invariant survives move_inventory_row_to_location.
LEMMA MoveRowKeeps ==
  ASSUME StockInv, NEW i \in Ids, NEW at \in Spots, MoveRow(i, at)
  PROVE  StockInv'
<1> DEFINE T == [rows EXCEPT ![i].kind = Arriving(@, at)]
<1>1. i \in Rows(rows) /\ at \in Spot /\ ~BrewPlaceholder(rows[i]) /\ UNCHANGED <<deck, owned>>
  BY DEF MoveRow
<1>2. PICK U \in Moves(T, i, at) : Change(U)
  BY DEF MoveRow
<1>3. rows \in Tables /\ rows[i] \in Row /\ Fits(rows[i], deck)
  BY <1>1, RowOf
<1>4. rows[i].kind \in {"real", "proxy"}
  BY <1>1, <1>3, InventoryAssumption DEF Fits, BrewPlaceholder, IsProxy, Row, Kinds
<1>5. /\ T[i] \in Row /\ \A j \in Ids \ {i} : T[j] = rows[j]
      /\ T[i].card = rows[i].card /\ T[i].qty = rows[i].qty
      /\ T[i].kind = Arriving(rows[i].kind, at)
  <2>1. T[i] = [rows[i] EXCEPT !.kind = Arriving(rows[i].kind, at)]
    BY <1>3 DEF Tables
  <2>2. Arriving(rows[i].kind, at) \in Kinds
    BY <1>4 DEF Arriving, Kinds
  <2> QED
    BY <1>3, <2>1, <2>2 DEF Row, Tables
<1>6. IsProxy(T[i]) = IsProxy(rows[i])
  BY <1>4, <1>5 DEF IsProxy, Arriving
<1>7. T \in Tables /\ i \in Rows(T) /\ \A j \in Ids : Reworked(rows[j], T[j])
  BY <1>1, <1>3, <1>5, <1>6, InventoryAssumption DEF Tables, Rows, Reworked
<1>8. Fits([T[i] EXCEPT !.at = at], deck)
  <2>1. [T[i] EXCEPT !.at = at].at = at /\ [T[i] EXCEPT !.at = at].kind = T[i].kind
    BY <1>5 DEF Row
  <2>2. T[i].kind = "placeholder" => deck = "brew" /\ at \in DeckSpots
    BY <1>4, <1>5 DEF Arriving
  <2>3. deck = "none" => at \notin DeckSpots
    BY <1>1 DEF Spot, DeckSpots
  <2> QED
    BY <2>1, <2>2, <2>3 DEF Fits
<1>9. \A j \in Ids \ {i} : Fits(T[j], deck)
  BY <1>5 DEF StockInv, Placed
<1>10. Follows(rows, T) /\ \A p : Copies(T, p) = Copies(rows, p)
  <2>1. \A j \in Ids : rows[j] # NoRow => T[j] # NoRow
    BY <1>5, InventoryAssumption
  <2> HIDE DEF T
  <2> QED
    BY <1>3, <1>7, <2>1, ReworkKeeps, FollowsItself
<1> HIDE DEF T
<1>11. /\ U \in Tables /\ Placed(U, deck) /\ Follows(rows, U)
       /\ \A p : Copies(U, p) = Copies(rows, p)
  BY <1>2, <1>7, <1>8, <1>9, <1>10, MoveKeeps
<1>12. deck' = deck /\ owned' = owned /\ deck \in {"none", "plain", "brew"}
  BY <1>1 DEF StockInv, TypeOK
<1> QED
  BY <1>2, <1>11, <1>12, QuietChange

\* All but one of the copies of a row that is in no deck go to the box.
LEMMA SurplusKeeps ==
  ASSUME NEW T \in Tables, NEW B, NEW i \in Rows(T), T[i].qty > 1, T[i].at \notin DeckSpots,
         NEW V \in Surplus(B, T, i)
  PROVE  /\ V \in Tables
         /\ \A d : Placed(T, d) => Placed(V, d)
         /\ \A R : Rows(R) \subseteq B /\ Follows(R, T) => Follows(R, V)
         /\ \A j \in Ids : V[j] # NoRow => T[j] # NoRow \/ j \notin B
         /\ \A j \in Ids \ {i} : T[j] # NoRow => V[j] # NoRow
         /\ \A p \in Printings : Copies(V, p) = Copies(T, p)
<1> DEFINE k == T[i].qty - 1
           r == [T[i] EXCEPT !.at = "box", !.qty = k]
           U == Drained(T, TakeFrom(i, k))
<1>1. i \in Ids /\ T[i] \in Row /\ k \in Nat \ {0} /\ k <= T[i].qty
  BY DEF Rows, Tables, Row
<1>2. /\ r \in Row /\ r.card = T[i].card /\ r.kind = T[i].kind /\ r.qty = k /\ r.at = "box"
  BY <1>1 DEF Row, Spots
<1>3. /\ Takeable(T, TakeFrom(i, k))
      /\ \A p \in Printings :
           Copies(U, p) = Copies(T, p) - (IF T[i].card = p /\ T[i].kind = "real" THEN k ELSE 0)
  BY <1>1, TakeFromOne
<1>4. /\ U \in Tables
      /\ \A d : Placed(T, d) => Placed(U, d)
      /\ \A R : Follows(R, T) => Follows(R, U)
      /\ \A j \in Ids \ {i} : U[j] = T[j]
      /\ T[i] # NoRow
  BY <1>1, <1>3, DrainKeeps, DrainedEffect, InventoryAssumption DEF TakeFrom
<1>5. \A d : Placed(T, d) => Fits(r, d)
  BY <1>1, <1>2, InventoryAssumption DEF Placed, Fits, DeckSpots
<1>6. \A p : Value(r, p) = IF T[i].card = p /\ T[i].kind = "real" THEN k ELSE 0
  BY <1>2, InventoryAssumption DEF Value
<1>7. V \in Insertions(B, U, r) \/ \E j \in Matches(T, r) \ {i} : V = Merged(U, r, j)
  BY <1>2 DEF Surplus, Merged
<1> HIDE DEF k, r, U
<1>8. ASSUME V \in Insertions(B, U, r)
      PROVE  /\ V \in Tables
             /\ \A d : Placed(U, d) /\ Fits(r, d) => Placed(V, d)
             /\ \A R : Rows(R) \subseteq B /\ Follows(R, U) => Follows(R, V)
             /\ \A j \in Ids : /\ V[j] # NoRow => U[j] # NoRow \/ j \notin B
                               /\ U[j] # NoRow => V[j] # NoRow
             /\ \A p : Copies(V, p) = Copies(U, p) + Value(r, p)
  BY <1>2, <1>4, <1>8, InsertionKeeps, InsertionEffect
<1>9. ASSUME NEW j \in Matches(T, r) \ {i}, V = Merged(U, r, j)
      PROVE  /\ V \in Tables
             /\ \A d : Placed(U, d) => Placed(V, d)
             /\ \A R : Follows(R, U) => Follows(R, V)
             /\ \A m \in Ids : V[m] # NoRow <=> U[m] # NoRow
             /\ \A p : Copies(V, p) = Copies(U, p) + Value(r, p)
  <2>1. j \in Matches(U, r)
    BY <1>4 DEF Matches, Rows
  <2>2. /\ V \in Tables
        /\ j \in Ids /\ U[j] \in Row
        /\ Alike(V[j], U[j])
        /\ \A m \in Ids \ {j} : V[m] = U[m]
        /\ \A p : Value(V[j], p) = Value(U[j], p) + Value(r, p)
    BY <1>2, <1>4, <1>9, <2>1, MergeEffect
  <2>3. IsProxy(V[j]) = IsProxy(U[j]) /\ U[j] # NoRow /\ \A d : Fits(U[j], d) => Fits(V[j], d)
    BY <2>2, AlikeFits, InventoryAssumption
  <2>4. \A p : Copies(V, p) = Copies(U, p) + (Value(V[j], p) - Value(U[j], p))
    BY <1>4, <2>2, CopiesOne
  <2>5. \A p : Value(U[j], p) \in Nat /\ Value(r, p) \in Nat
    BY <1>2, <2>2, ValueType
  <2>6. \A p : Copies(V, p) = Copies(U, p) + Value(r, p)
    BY <2>2, <2>4, <2>5
  <2>7. \A d : Placed(U, d) => Placed(V, d)
    BY <2>2, <2>3 DEF Placed
  <2>8. \A R : Follows(R, U) => Follows(R, V)
    BY <2>2, <2>3 DEF Follows
  <2>9. \A m \in Ids : V[m] # NoRow <=> U[m] # NoRow
    BY <2>2, InventoryAssumption DEF Alike
  <2> QED
    BY <2>2, <2>6, <2>7, <2>8, <2>9
<1>10. ASSUME NEW p \in Printings
       PROVE  Copies(U, p) + Value(r, p) = Copies(T, p)
  <2>1. Copies(T, p) \in Nat
    BY CopiesType
  <2> QED
    BY <1>1, <1>3, <1>6, <2>1
<1>11. /\ \A j \in Ids : V[j] # NoRow => T[j] # NoRow \/ j \notin B
       /\ \A j \in Ids \ {i} : T[j] # NoRow => V[j] # NoRow
  BY <1>4, <1>7, <1>8, <1>9
<1> QED
  BY <1>4, <1>5, <1>7, <1>8, <1>9, <1>10, <1>11

\* The invariant survives move_surplus_to_location.
LEMMA MoveSurplusKeeps ==
  ASSUME StockInv, NEW i \in Ids, MoveSurplus(i)
  PROVE  StockInv'
<1>1. i \in Rows(rows) /\ rows[i].at = "box" /\ rows[i].qty > 1
  BY DEF MoveSurplus
<1>2. PICK U \in Surplus(Rows(rows), rows, i) : Change(U)
  BY DEF MoveSurplus
<1>3. rows \in Tables /\ Placed(rows, deck) /\ deck \in {"none", "plain", "brew"}
  BY DEF StockInv, TypeOK
<1>4. /\ U \in Tables /\ Placed(U, deck) /\ Follows(rows, U)
      /\ \A p \in Printings : Copies(U, p) = Copies(rows, p)
  BY <1>1, <1>2, <1>3, SurplusKeeps, FollowsItself DEF DeckSpots
<1>5. deck' = deck /\ owned' = owned
  BY DEF MoveSurplus
<1> QED
  BY <1>2, <1>3, <1>4, <1>5, QuietChange

\* Row by row, and nothing acquired or disposed of.
LEMMA ReworkQuiet ==
  ASSUME StockInv, NEW U, U = [i \in Ids |-> U[i]], Change(U),
         deck' \in {"none", "plain", "brew"}, UNCHANGED owned,
         \A i \in Ids : /\ U[i] \in Row \cup {NoRow}
                        /\ Reworked(rows[i], U[i]) /\ Fits(U[i], deck')
  PROVE  StockInv'
<1>1. U \in Tables /\ rows \in Tables
  BY DEF Tables, StockInv, TypeOK
<1>2. Follows(rows, U) /\ \A p : Copies(U, p) = Copies(rows, p)
  BY <1>1, ReworkKeeps, FollowsItself
<1>3. Placed(U, deck')
  BY DEF Placed
<1> QED
  BY <1>1, <1>2, <1>3, QuietChange

\* The invariant survives confirm_pending_row.
LEMMA ConfirmPendingKeeps ==
  ASSUME StockInv, NEW i \in Ids, NEW at \in Spots, ConfirmPending(i, at)
  PROVE  StockInv'
<1> DEFINE new == [rows[i] EXCEPT !.at = at, !.kind = Arriving(rows[i].kind, at)]
           U == [rows EXCEPT ![i] = new]
<1>1. /\ i \in Rows(rows) /\ at \in Spot /\ rows[i].at \in {"pending", "assigned"}
      /\ Change(U) /\ UNCHANGED <<deck, owned>>
  BY DEF ConfirmPending
<1>2. rows \in Tables /\ rows[i] \in Row /\ Fits(rows[i], deck)
  BY <1>1, RowOf
<1>3. rows[i].kind \in {"real", "proxy"}
  BY <1>1, <1>2, InventoryAssumption DEF Fits, DeckSpots, Row, Kinds
<1>4. /\ new \in Row /\ new.card = rows[i].card /\ new.qty = rows[i].qty
      /\ new.at = at /\ new.kind = Arriving(rows[i].kind, at)
  <2>1. Arriving(rows[i].kind, at) \in Kinds
    BY <1>3 DEF Arriving, Kinds
  <2> QED
    BY <1>2, <2>1 DEF Row
<1> HIDE DEF new
<1>5. IsProxy(new) = IsProxy(rows[i])
  BY <1>3, <1>4 DEF IsProxy, Arriving
<1>6. Fits(new, deck)
  <2>1. new.kind = "placeholder" => deck = "brew" /\ at \in DeckSpots
    BY <1>3, <1>4 DEF Arriving
  <2>2. deck = "none" => at \notin DeckSpots
    BY <1>1 DEF Spot, DeckSpots
  <2> QED
    BY <1>4, <2>1, <2>2 DEF Fits
<1>7. ASSUME NEW j \in Ids
      PROVE  U[j] \in Row \cup {NoRow} /\ Reworked(rows[j], U[j]) /\ Fits(U[j], deck)
  <2>1. CASE j = i
    BY <1>2, <1>4, <1>5, <1>6, <2>1, InventoryAssumption DEF Tables, Reworked
  <2>2. CASE j # i
    BY <1>2, <2>2 DEF Reworked, Tables, StockInv, Placed
  <2> QED
    BY <2>1, <2>2
<1>8. deck \in {"none", "plain", "brew"} /\ U = [j \in Ids |-> U[j]]
  BY <1>2 DEF StockInv, TypeOK, Tables
<1> HIDE DEF U
<1> QED
  BY <1>1, <1>7, <1>8, ReworkQuiet

\* The invariant survives confirm_all_pending.
LEMMA ConfirmKeeps ==
  ASSUME StockInv, ConfirmAll
  PROVE  StockInv'
<1> DEFINE S == {i \in Rows(rows) : rows[i].at = "assigned"}
           U == [i \in Ids |-> IF i \in S THEN [rows[i] EXCEPT !.at = "box"] ELSE rows[i]]
<1>1. /\ \A i \in S : rows[i].at \in {"pending", "assigned"}
      /\ Change(U)
      /\ UNCHANGED <<deck, owned>>
  <2>1. [i \in Ids |-> IF i \in Rows(rows) /\ rows[i].at = "assigned"
                       THEN [rows[i] EXCEPT !.at = "box"] ELSE rows[i]] = U
    OBVIOUS
  <2> HIDE DEF U
  <2> QED
    BY <2>1 DEF ConfirmAll
<1>2. ASSUME NEW i \in Ids
      PROVE  U[i] \in Row \cup {NoRow} /\ Reworked(rows[i], U[i]) /\ Fits(U[i], deck)
  <2>1. CASE i \in S
    <3>1. rows[i] \in Row /\ Fits(rows[i], deck) /\ rows[i] # NoRow
      BY <2>1, RowOf, InventoryAssumption
    <3>2. /\ U[i] \in Row /\ U[i].card = rows[i].card /\ U[i].qty = rows[i].qty
          /\ U[i].kind = rows[i].kind /\ U[i].at = "box"
      BY <2>1, <3>1 DEF Row, Spots
    <3>3. rows[i].kind # "placeholder"
      BY <1>1, <2>1, <3>1 DEF Fits, DeckSpots
    <3> HIDE DEF U
    <3> QED
      BY <3>1, <3>2, <3>3 DEF Reworked, Fits, IsProxy, DeckSpots
  <2>2. CASE i \notin S
    BY <2>2 DEF Reworked, StockInv, TypeOK, Tables, Placed
  <2> QED
    BY <2>1, <2>2
<1>3. deck \in {"none", "plain", "brew"} /\ U = [i \in Ids |-> U[i]] /\ Change(U)
  BY <1>1 DEF StockInv, TypeOK
<1>4. UNCHANGED <<deck, owned>>
  BY <1>1
<1> HIDE DEF U
<1> QED
  BY <1>2, <1>3, <1>4, ReworkQuiet

\* The invariant survives resort_collection.
LEMMA ResortActionKeeps ==
  ASSUME StockInv, Resort
  PROVE  StockInv'
<1>1. PICK U \in Resorts(rows) : Change(U)
  BY DEF Resort
<1>2. rows \in Tables /\ Placed(rows, deck) /\ deck \in {"none", "plain", "brew"}
  BY DEF StockInv, TypeOK
<1>3. /\ U \in Tables /\ Placed(U, deck) /\ Follows(rows, U)
      /\ \A p : Copies(U, p) = Copies(rows, p)
  BY <1>2, ResortKeeps, FollowsItself
<1>4. deck' = deck /\ owned' = owned
  BY DEF Resort
<1> QED
  BY <1>1, <1>2, <1>3, <1>4, QuietChange

\* The invariant survives adjust_inventory_row_quantity.
LEMMA AdjustKeeps ==
  ASSUME StockInv, NEW i \in Ids, NEW k \in Nat, AdjustQuantity(i, k)
  PROVE  StockInv'
<1> DEFINE U == Drained(rows, TakeFrom(i, k))
<1>1. /\ i \in Rows(rows) /\ k <= rows[i].qty /\ Change(U)
      /\ Gain(rows[i].card, 0 - Worth(rows[i], k)) /\ deck' = deck
  BY DEF AdjustQuantity
<1>2. rows \in Tables /\ rows[i] \in Row /\ Placed(rows, deck) /\ deck \in {"none", "plain", "brew"}
  BY <1>1, RowOf DEF StockInv, TypeOK
<1>3. /\ Takeable(rows, TakeFrom(i, k))
      /\ \A p \in Printings :
           Copies(U, p) = Copies(rows, p) - (IF rows[i].card = p /\ rows[i].kind = "real" THEN k ELSE 0)
  BY <1>1, <1>2, TakeFromOne
<1>4. U \in Tables /\ Placed(U, deck) /\ Follows(rows, U)
  BY <1>2, <1>3, DrainKeeps, FollowsItself
<1>5. Worth(rows[i], k) = IF rows[i].kind = "real" THEN k ELSE 0
  BY DEF Worth, IsProxy
<1>6. 0 - Worth(rows[i], k) \in Int
  BY <1>5
<1>7. /\ owned' \in [Printings -> Int]
      /\ \A o \in Printings : owned'[o] - owned[o] = IF o = rows[i].card THEN 0 - Worth(rows[i], k) ELSE 0
  BY <1>1, <1>6, GainBalance
<1> HIDE DEF U
<1>8. \A o \in Printings : Copies(U, o) - Copies(rows, o) = owned'[o] - owned[o]
  BY <1>2, <1>3, <1>5, <1>7, CopiesType
<1> QED
  BY <1>1, <1>2, <1>4, <1>7, <1>8, ChangeKeeps

\* The invariant survives delete_inventory_row, bulk_delete_inventory_rows.
LEMMA BulkDeleteKeeps ==
  ASSUME StockInv, NEW S \in SUBSET Ids, BulkDelete(S)
  PROVE  StockInv'
<1> DEFINE U == [i \in Ids |-> IF i \in S THEN NoRow ELSE rows[i]]
           gone(p) == Quantity(rows, S \cap RealRows(rows, p))
           g == [p \in Printings |-> 0 - gone(p)]
<1>1. S \subseteq Rows(rows) /\ Change(U) /\ Gains(g) /\ deck' = deck
  BY DEF BulkDelete
<1>2. rows \in Tables /\ Placed(rows, deck) /\ deck \in {"none", "plain", "brew"}
  BY DEF StockInv, TypeOK
<1>3. U \in Tables
  BY <1>2 DEF Tables
<1>4. Placed(U, deck) /\ Follows(rows, U)
  BY <1>2 DEF Placed, Follows, Fits
<1>5. ASSUME NEW p \in Printings
      PROVE  gone(p) \in Nat /\ Copies(rows, p) = Copies(U, p) + gone(p)
  <2> DEFINE d == [i \in Ids |-> IF i \in S \cap RealRows(rows, p) THEN rows[i].qty ELSE 0]
  <2>1. ASSUME NEW i \in Ids
        PROVE  d[i] \in Nat /\ Value(rows[i], p) = Value(U[i], p) + d[i]
    <3>1. CASE i \in S
      <4>1. rows[i] \in Row /\ rows[i] # NoRow
        BY <1>1, <3>1, RowOf, InventoryAssumption
      <4>2. d[i] = Value(rows[i], p) /\ Value(U[i], p) = 0
        BY <3>1, <4>1 DEF Value, RealRows, Rows
      <4> QED
        BY <4>1, <4>2, ValueType
    <3>2. CASE i \notin S
      <4>1. d[i] = 0 /\ U[i] = rows[i] /\ rows[i] \in Row \cup {NoRow}
        BY <1>2, <3>2 DEF Tables
      <4> QED
        BY <4>1, ValueType
    <3> QED
      BY <3>1, <3>2
  <2>2. gone(p) = Total(MaxRows, d)
    BY DEF Quantity
  <2> HIDE DEF U, gone, d
  <2>3. Copies(rows, p) = Copies(U, p) + Total(MaxRows, d)
    BY <1>2, <1>3, <2>1, CopiesChange
  <2>4. Total(MaxRows, d) \in Nat
    BY <2>1, TotalType, InventoryAssumption DEF Ids
  <2> QED
    BY <2>2, <2>3, <2>4
<1>6. ASSUME NEW p \in Printings
      PROVE  g[p] \in Int /\ g[p] = 0 - gone(p)
  <2>1. gone(p) \in Nat
    BY <1>5
  <2>2. g[p] = 0 - gone(p)
    OBVIOUS
  <2> HIDE DEF gone, g
  <2> QED
    BY <2>1, <2>2
<1> HIDE DEF U, gone, g
<1>7. /\ owned' \in [Printings -> Int]
      /\ \A p \in Printings : owned'[p] - owned[p] = g[p]
  BY <1>1, <1>6, GainsBalance
<1>8. \A p \in Printings : Copies(U, p) - Copies(rows, p) = owned'[p] - owned[p]
  BY <1>2, <1>3, <1>5, <1>6, <1>7, CopiesType
<1> QED
  BY <1>1, <1>2, <1>3, <1>4, <1>7, <1>8, ChangeKeeps

\* The invariant survives split_inventory_row.
LEMMA SplitKeeps ==
  ASSUME StockInv, NEW i \in Ids, NEW k \in Nat \ {0}, SplitRow(i, k)
  PROVE  StockInv'
<1> DEFINE T == Drained(rows, TakeFrom(i, k))
           r == [rows[i] EXCEPT !.qty = k]
<1>1. i \in Rows(rows) /\ k < rows[i].qty /\ UNCHANGED <<deck, owned>>
  BY DEF SplitRow
<1>2. PICK U \in Insertions(Rows(rows), T, r) : Change(U)
  BY DEF SplitRow
<1>3. /\ rows \in Tables /\ rows[i] \in Row /\ rows[i].qty \in Nat /\ Fits(rows[i], deck)
      /\ Placed(rows, deck) /\ deck \in {"none", "plain", "brew"}
  BY <1>1, RowOf DEF StockInv, TypeOK
<1>4. /\ Takeable(rows, TakeFrom(i, k))
      /\ \A p \in Printings :
           Copies(T, p) = Copies(rows, p) - (IF rows[i].card = p /\ rows[i].kind = "real" THEN k ELSE 0)
  BY <1>1, <1>3, TakeFromOne
<1>5. T \in Tables /\ Placed(T, deck) /\ Follows(rows, T)
  BY <1>3, <1>4, DrainKeeps, FollowsItself
<1>6. Alike(r, rows[i]) /\ r.qty = k
  BY <1>3 DEF Alike, Row
<1>7. r \in Row /\ Fits(r, deck)
  BY <1>3, <1>6, AlikeFits DEF Alike
<1>8. \A p : Value(r, p) = IF rows[i].card = p /\ rows[i].kind = "real" THEN k ELSE 0
  BY <1>6, InventoryAssumption DEF Alike, Value
<1> HIDE DEF T, r
<1>9. /\ U \in Tables /\ Placed(U, deck) /\ Follows(rows, U)
      /\ \A p : Copies(U, p) = Copies(T, p) + Value(r, p)
  BY <1>2, <1>5, <1>7, InsertionKeeps, InsertionEffect
<1>10. ASSUME NEW p \in Printings
       PROVE  Copies(U, p) = Copies(rows, p)
  <2>1. Copies(rows, p) \in Nat
    BY <1>3, CopiesType
  <2> QED
    BY <1>4, <1>8, <1>9, <2>1
<1>11. deck' = deck /\ owned' = owned
  BY <1>1
<1> QED
  BY <1>2, <1>3, <1>9, <1>10, <1>11, QuietChange

\* The invariant survives repoint_inventory_row_printing.
LEMMA RepointKeeps ==
  ASSUME StockInv, NEW i \in Ids, NEW p \in Printings, Repoint(i, p)
  PROVE  StockInv'
<1> DEFINE U == [rows EXCEPT ![i].card = p]
           k == Worth(rows[i], rows[i].qty)
           g == [o \in Printings |-> IF o = p THEN k ELSE IF o = rows[i].card THEN 0 - k ELSE 0]
<1>1. i \in Rows(rows) /\ p # rows[i].card /\ Change(U) /\ Gains(g) /\ deck' = deck
  BY DEF Repoint
<1>2. /\ rows \in Tables /\ rows[i] \in Row /\ rows[i].qty \in Nat /\ Fits(rows[i], deck)
      /\ Placed(rows, deck) /\ deck \in {"none", "plain", "brew"}
  BY <1>1, RowOf DEF StockInv, TypeOK
<1>3. /\ U[i] \in Row /\ U[i].card = p /\ U[i].kind = rows[i].kind
      /\ U[i].qty = rows[i].qty /\ U[i].at = rows[i].at
      /\ \A j \in Ids \ {i} : U[j] = rows[j]
  BY <1>2 DEF Tables, Row
<1>4. U \in Tables
  BY <1>2, <1>3 DEF Tables
<1>5. Placed(U, deck) /\ Follows(rows, U)
  BY <1>2, <1>3, InventoryAssumption DEF Placed, Fits, Follows, IsProxy
<1>6. k \in Int /\ k = IF rows[i].kind = "real" THEN rows[i].qty ELSE 0
  BY <1>2 DEF Worth, IsProxy
<1>7. \A o \in Printings : g[o] \in Int /\ g[o] = IF o = p THEN k ELSE IF o = rows[i].card THEN 0 - k ELSE 0
  BY <1>6
<1>8. \A o : /\ Value(U[i], o) = IF o = p THEN k ELSE 0
             /\ Value(rows[i], o) = IF o = rows[i].card THEN k ELSE 0
  BY <1>2, <1>3, <1>6, InventoryAssumption DEF Value
<1> HIDE DEF U, k, g
<1>9. /\ owned' \in [Printings -> Int]
      /\ \A o \in Printings : owned'[o] - owned[o] = g[o]
  BY <1>1, <1>7, GainsBalance
<1>10. ASSUME NEW o \in Printings
       PROVE  Copies(U, o) - Copies(rows, o) = owned'[o] - owned[o]
  <2>1. Copies(U, o) = Copies(rows, o) + (Value(U[i], o) - Value(rows[i], o))
    BY <1>1, <1>2, <1>3, <1>4, CopiesOne
  <2> QED
    BY <1>1, <1>2, <1>6, <1>7, <1>8, <1>9, <2>1, CopiesType
<1> QED
  BY <1>1, <1>2, <1>4, <1>5, <1>9, <1>10, ChangeKeeps

----------------------------------------------------------------------------
(* The deck *)

\* A transaction that deletes no row and leaves the log alone.
LEMMA KeepLog ==
  ASSUME StockInv, NEW U \in Tables, rows' = U, UNCHANGED <<log, owned>>,
         deck' \in {"none", "plain", "brew"}, Placed(U, deck'),
         \A i \in Ids : Reworked(rows[i], U[i]) /\ (rows[i] # NoRow => U[i] # NoRow)
  PROVE  StockInv'
<1>1. rows \in Tables
  BY DEF StockInv, TypeOK
<1>2. Follows(rows, U) /\ \A p : Copies(U, p) = Copies(rows, p)
  BY <1>1, ReworkKeeps, FollowsItself
<1>3. Rows(U) = Rows(rows)
  BY InventoryAssumption DEF Rows, Reworked
<1>4. LogIsSound'
  BY <1>2, <1>3 DEF StockInv, LogIsSound, Told, Follows, Rows
<1>5. TypeOK' /\ Conserved'
  BY <1>2 DEF StockInv, TypeOK, Conserved
<1> QED
  BY <1>4, <1>5 DEF StockInv

\* The invariant survives create_deck.
LEMMA CreateDeckKeeps ==
  ASSUME StockInv, NEW kind \in {"plain", "brew"}, CreateDeck(kind)
  PROVE  StockInv'
<1>1. rows \in Tables /\ rows' = rows /\ UNCHANGED <<log, owned>> /\ deck' = kind
  BY DEF StockInv, TypeOK, CreateDeck
<1>2. Placed(rows, kind)
  BY DEF StockInv, CreateDeck, Placed, Fits
<1>3. \A i \in Ids : Reworked(rows[i], rows[i])
  BY DEF Reworked
<1> QED
  BY <1>1, <1>2, <1>3, KeepLog

\* Relabelling proxies as placeholders, or back, changes no copy and no place.
LEMMA RelabelKeeps ==
  ASSUME NEW T \in Tables, NEW from \in {"proxy", "placeholder"}, NEW to \in {"proxy", "placeholder"}
  PROVE  /\ Relabelled(T, from, to) \in Tables
         /\ \A i \in Ids : /\ Reworked(T[i], Relabelled(T, from, to)[i])
                           /\ T[i] # NoRow <=> Relabelled(T, from, to)[i] # NoRow
         /\ from = "placeholder" /\ to = "proxy" /\ Placed(T, "brew")
              => Placed(Relabelled(T, from, to), "plain")
         /\ from = "proxy" /\ to = "placeholder" /\ Placed(T, "plain")
              => Placed(Relabelled(T, from, to), "brew")
<1> DEFINE U == Relabelled(T, from, to)
<1>1. ASSUME NEW i \in Ids
      PROVE  /\ U[i] \in Row \cup {NoRow}
             /\ T[i] # NoRow <=> U[i] # NoRow
             /\ Reworked(T[i], U[i])
             /\ from = "placeholder" /\ to = "proxy" /\ Fits(T[i], "brew") => Fits(U[i], "plain")
             /\ from = "proxy" /\ to = "placeholder" /\ Fits(T[i], "plain") => Fits(U[i], "brew")
  <2>1. CASE T[i] = NoRow
    BY <2>1 DEF Relabelled, Rows, Reworked, Fits
  <2>2. CASE T[i] # NoRow /\ T[i].at \in DeckSpots /\ T[i].kind = from
    <3>1. T[i] \in Row /\ U[i] = [T[i] EXCEPT !.kind = to]
      BY <2>2 DEF Relabelled, Rows, Tables
    <3>2. /\ U[i] \in Row /\ U[i].card = T[i].card /\ U[i].qty = T[i].qty
          /\ U[i].at = T[i].at /\ U[i].kind = to
      BY <3>1 DEF Row, Kinds
    <3> HIDE DEF U
    <3> QED
      BY <2>2, <3>1, <3>2, InventoryAssumption DEF Reworked, Fits, IsProxy
  <2>3. CASE T[i] # NoRow /\ ~(T[i].at \in DeckSpots /\ T[i].kind = from)
    <3>1. T[i] \in Row /\ U[i] = T[i]
      BY <2>3 DEF Relabelled, Rows, Tables
    <3> HIDE DEF U
    <3> QED
      BY <2>3, <3>1 DEF Reworked, Fits
  <2> QED
    BY <2>1, <2>2, <2>3
<1>2. U \in Tables
  <2>1. U = [i \in Ids |-> IF i \in Rows(T) /\ T[i].at \in DeckSpots /\ T[i].kind = from
                           THEN [T[i] EXCEPT !.kind = to] ELSE T[i]]
    BY DEF Relabelled
  <2> QED
    BY <1>1, <2>1 DEF Tables
<1> QED
  BY <1>1, <1>2 DEF Placed

\* The invariant survives update_deck.
LEMMA EditDeckKeeps ==
  ASSUME StockInv, EditDeck
  PROVE  StockInv'
<1>1. rows \in Tables /\ Placed(rows, deck) /\ deck \in {"plain", "brew"} /\ UNCHANGED <<log, owned>>
  BY DEF StockInv, TypeOK, EditDeck
<1>2. CASE deck = "brew"
  BY <1>1, <1>2, RelabelKeeps, KeepLog DEF EditDeck
<1>3. CASE deck = "plain"
  BY <1>1, <1>3, RelabelKeeps, KeepLog DEF EditDeck
<1> QED
  BY <1>1, <1>2, <1>3

\* A row of the Considering area that is emptied.
LEMMA DisbandedIs ==
  ASSUME NEW r \in Row, Fits(r, deck)
  PROVE  /\ Disbanded(r) \in Row \cup {NoRow}
         /\ Reworked(r, Disbanded(r))
         /\ \A d : Fits(Disbanded(r), d)
<1>1. CASE IsProxy(r) /\ deck = "brew"
  BY <1>1 DEF Disbanded, Reworked, Fits
<1>2. CASE ~(IsProxy(r) /\ deck = "brew")
  <2>1. Disbanded(r) = [r EXCEPT !.at = "pending"]
    BY <1>2 DEF Disbanded
  <2>2. /\ Disbanded(r) \in Row /\ Disbanded(r).card = r.card /\ Disbanded(r).qty = r.qty
        /\ Disbanded(r).kind = r.kind /\ Disbanded(r).at = "pending"
    BY <2>1 DEF Row, Spots
  <2>3. r.kind # "placeholder"
    BY <1>2, InventoryAssumption DEF Fits, IsProxy
  <2> QED
    BY <2>2, <2>3 DEF Reworked, Fits, IsProxy, DeckSpots
<1> QED
  BY <1>1, <1>2

\* The invariant survives delete_deck.
LEMMA DeleteDeckKeeps ==
  ASSUME StockInv, DeleteDeck
  PROVE  StockInv'
<1> DEFINE T == [i \in Ids |->
                   IF i \notin Rows(rows) THEN NoRow
                   ELSE IF rows[i].at = "considering" THEN Disbanded(rows[i])
                   ELSE IF rows[i].at # "deck" THEN rows[i]
                   ELSE IF IsProxy(rows[i]) THEN NoRow
                   ELSE [rows[i] EXCEPT !.at = "pending"]]
<1>1. PICK U \in Resorts(T) : Change(U)
  BY DEF DeleteDeck
<1>2. rows \in Tables /\ Placed(rows, deck) /\ deck' = "none" /\ UNCHANGED owned
  BY DEF StockInv, TypeOK, DeleteDeck
<1>3. ASSUME NEW i \in Ids
      PROVE  T[i] \in Row \cup {NoRow} /\ Reworked(rows[i], T[i]) /\ Fits(T[i], "none")
  <2>1. CASE rows[i] = NoRow
    BY <2>1 DEF Rows, Reworked, Fits
  <2>2. CASE rows[i] # NoRow
    <3>1. i \in Rows(rows) /\ rows[i] \in Row /\ Fits(rows[i], deck)
      BY <1>2, <2>2, RowOf DEF Rows
    <3>2. CASE rows[i].at = "considering"
      BY <3>1, <3>2, DisbandedIs
    <3>3. CASE rows[i].at \notin DeckSpots
      BY <2>2, <3>1, <3>3 DEF Reworked, Fits, DeckSpots
    <3>4. CASE rows[i].at = "deck" /\ IsProxy(rows[i])
      BY <3>1, <3>4 DEF Reworked, Fits
    <3>5. CASE rows[i].at = "deck" /\ ~IsProxy(rows[i])
      <4>1. T[i] = [rows[i] EXCEPT !.at = "pending"]
        BY <3>1, <3>5
      <4>2. /\ T[i] \in Row /\ T[i].card = rows[i].card /\ T[i].qty = rows[i].qty
            /\ T[i].kind = rows[i].kind /\ T[i].at = "pending"
        BY <3>1, <4>1 DEF Row, Spots
      <4> HIDE DEF T
      <4> QED
        BY <3>1, <3>5, <4>2 DEF Reworked, Fits, IsProxy, DeckSpots
    <3> QED
      BY <3>2, <3>3, <3>4, <3>5 DEF DeckSpots
  <2> QED
    BY <2>1, <2>2
<1>4. T \in Tables
  BY <1>3 DEF Tables
<1> HIDE DEF T
<1>5. Follows(rows, T) /\ Placed(T, "none") /\ \A p : Copies(T, p) = Copies(rows, p)
  BY <1>2, <1>3, <1>4, ReworkKeeps, FollowsItself DEF Placed
<1>6. /\ U \in Tables /\ Placed(U, "none") /\ Follows(rows, U)
      /\ \A p : Copies(U, p) = Copies(rows, p)
  BY <1>1, <1>4, <1>5, ResortKeeps
<1> QED
  BY <1>1, <1>2, <1>6, QuietChange

\* The rows of a set hold a natural number of copies.
LEMMA QuantityType ==
  ASSUME NEW T \in Tables, NEW S \in SUBSET Rows(T)
  PROVE  Quantity(T, S) \in Nat
<1> DEFINE f == [i \in Ids |-> IF i \in S THEN T[i].qty ELSE 0]
<1>1. \A i \in 1 .. MaxRows : f[i] \in Nat
  BY DEF Ids, Rows, Tables, Row
<1>2. Total(MaxRows, f) \in Nat
  <2> HIDE DEF f
  <2> QED
    BY <1>1, TotalType, InventoryAssumption
<1> QED
  BY <1>2 DEF Quantity

\* Proxies taken out are no copies.
LEMMA DrainProxies ==
  ASSUME NEW T \in Tables, NEW S \in SUBSET Rows(T), \A i \in S : IsProxy(T[i]),
         NEW k \in Nat, NEW rank, NEW take \in Drains(T, S, k, rank), NEW p \in Printings
  PROVE  Copies(Drained(T, take), p) = Copies(T, p)
<1> DEFINE t == [i \in Ids |-> IF i \in RealRows(T, p) THEN take[i] ELSE 0]
<1>1. Takeable(T, take) /\ \A i \in Ids : take[i] # 0 => i \in S
  BY DrainsEffect
<1>2. \A i \in Ids : t[i] = 0
  BY <1>1 DEF RealRows, IsProxy
<1>3. Total(MaxRows, t) = 0
  <2> HIDE DEF t
  <2> QED
    BY <1>2, TotalOfNone, InventoryAssumption DEF Ids
<1>4. Copies(Drained(T, take), p) = Copies(T, p) - Total(MaxRows, t)
  BY <1>1, DrainedCopies
<1> QED
  BY <1>3, <1>4, CopiesType

\* Replacing proxies touches the proxies of the list alone.
LEMMA ReplacedEffect ==
  ASSUME NEW T \in Tables, NEW p, NEW k \in Nat, NEW U \in Replaced(T, p, k)
  PROVE  \A i \in Ids : i \notin DeckProxies(T) => U[i] = T[i]
<1> DEFINE S == DeckProxies(T)
           n == Lower(k, Quantity(T, S))
<1>1. S \in SUBSET Rows(T)
  BY DEF DeckProxies
<1>2. n \in Nat
  BY <1>1, QuantityType DEF Lower
<1>3. PICK take \in Drains(T, S, n, Closest(T, p)) : U = Drained(T, take)
  BY DEF Replaced, Replaceable
<1> HIDE DEF S, n
<1>4. Takeable(T, take) /\ \A i \in Ids : i \notin S => take[i] = 0
  BY <1>1, <1>2, DrainsEffect
<1> QED
  BY <1>3, <1>4, DrainedEffect DEF S

\* Replacing proxies and placeholders by real copies takes no real copy.
LEMMA ReplacedKeeps ==
  ASSUME NEW T \in Tables, NEW p, NEW k \in Nat, NEW U \in Replaced(T, p, k)
  PROVE  /\ U \in Tables
         /\ \A d : Placed(T, d) => Placed(U, d)
         /\ \A R : Follows(R, T) => Follows(R, U)
         /\ \A o \in Printings : Copies(U, o) = Copies(T, o)
<1> DEFINE S == DeckProxies(T)
           n == Lower(k, Quantity(T, S))
<1>1. S \in SUBSET Rows(T) /\ \A i \in S : IsProxy(T[i])
  BY DEF DeckProxies
<1>2. n \in Nat
  BY <1>1, QuantityType DEF Lower
<1>3. PICK take \in Drains(T, S, n, Closest(T, p)) : U = Drained(T, take)
  BY DEF Replaced, Replaceable
<1> HIDE DEF S, n
<1>4. Takeable(T, take)
  BY <1>1, <1>2, DrainsEffect
<1>5. \A o \in Printings : Copies(U, o) = Copies(T, o)
  BY <1>1, <1>2, <1>3, DrainProxies
<1> QED
  BY <1>3, <1>4, <1>5, DrainKeeps

\* What a pull does to a table that comes of the collection: it loses and makes up no
\* copy, and touches no other loose row.
LEMMA PullKeeps ==
  ASSUME deck # "none", NEW T \in Tables, Placed(T, deck), Follows(rows, T),
         NEW i \in Rows(T), Loose(T[i]), NEW k \in Nat \ {0}, k <= T[i].qty,
         NEW U \in Pulls(T, i, k)
  PROVE  /\ U \in Tables /\ Placed(U, deck) /\ Follows(rows, U)
         /\ \A o \in Printings : Copies(U, o) = Copies(T, o)
         /\ \A j \in Rows(rows) \ {i} : T[j] # NoRow /\ Loose(T[j]) => U[j] = T[j]
<1> DEFINE p == T[i].card
           D == Drained(T, TakeFrom(i, k))
           r == NewRow(p, "deck", T[i].kind, k)
<1>1. i \in Ids /\ T[i] \in Row /\ T[i] # NoRow /\ Fits(T[i], deck)
  BY DEF Rows, Tables, Placed
<1>2. p \in Printings /\ T[i].kind \in {"real", "proxy"}
  BY <1>1 DEF Fits, Loose, Row, Kinds
<1>3. /\ Takeable(T, TakeFrom(i, k))
      /\ \A o \in Printings :
           Copies(D, o) = Copies(T, o) - (IF p = o /\ T[i].kind = "real" THEN k ELSE 0)
  BY TakeFromOne
<1>4. D \in Tables /\ Placed(D, deck) /\ Follows(rows, D)
  BY <1>3, DrainKeeps
<1>5. \A j \in Ids \ {i} : D[j] = T[j]
  BY <1>3, DrainedEffect DEF TakeFrom
<1>6. /\ r \in Row /\ Fits(r, deck)
      /\ \A o : Value(r, o) = IF o = p /\ T[i].kind = "real" THEN k ELSE 0
  BY <1>2, NewRowFits DEF Spots
<1>7. r.at = "deck"
  BY DEF NewRow
<1>8. PICK V \in Deposits(Rows(rows), D, r) : U = V \/ U \in Replaced(V, p, k)
  BY DEF Pulls
<1> HIDE DEF p, D, r
<1>9. /\ V \in Tables /\ Placed(V, deck) /\ Follows(rows, V)
      /\ \A o : Copies(V, o) = Copies(D, o) + Value(r, o)
  BY <1>4, <1>6, <1>8, DepositKeeps, DepositEffect
<1>10. ASSUME NEW o \in Printings
       PROVE  Copies(V, o) = Copies(T, o)
  <2>1. Copies(T, o) \in Nat
    BY CopiesType
  <2> QED
    BY <1>3, <1>6, <1>9, <2>1
<1>11. ASSUME NEW j \in Rows(rows) \ {i}, T[j] # NoRow, Loose(T[j])
       PROVE  V[j] = T[j]
  <2>1. j \in Ids /\ D[j] = T[j]
    BY <1>5, <1>11 DEF Rows
  <2>2. PICK x \in Ids :
          /\ \A y \in Ids \ {x} : V[y] = D[y]
          /\ \/ x \notin Rows(rows) \cup Rows(D) /\ V[x] = r
             \/ D[x] \in Row /\ Mergeable(D[x], r) /\ Alike(V[x], D[x])
    BY <1>4, <1>6, <1>8, DepositEffect
  <2>3. x # j
    BY <1>7, <1>11, <2>1, <2>2 DEF Mergeable, Loose, DeckSpots
  <2> QED
    BY <2>1, <2>2, <2>3
<1>12. ASSUME U \in Replaced(V, p, k)
       PROVE  \A j \in Ids : V[j] # NoRow /\ Loose(V[j]) => U[j] = V[j]
  BY <1>9, <1>12, ReplacedEffect DEF Loose, DeckSpots, DeckProxies
<1>13. CASE U = V
  BY <1>9, <1>10, <1>11, <1>13
<1>14. CASE U \in Replaced(V, p, k)
  <2>1. \A j \in Rows(rows) \ {i} : T[j] # NoRow /\ Loose(T[j]) => U[j] = T[j]
    BY <1>11, <1>12, <1>14 DEF Rows
  <2>2. /\ U \in Tables /\ Placed(U, deck) /\ Follows(rows, U)
        /\ \A o \in Printings : Copies(U, o) = Copies(V, o)
    BY <1>9, <1>14, ReplacedKeeps
  <2> QED
    BY <1>10, <2>1, <2>2
<1> QED
  BY <1>8, <1>13, <1>14

\* The invariant survives pull_card_to_deck.
LEMMA PullCardKeeps ==
  ASSUME StockInv, NEW i \in Ids, NEW k \in Nat \ {0}, PullCard(i, k)
  PROVE  StockInv'
<1>1. /\ deck # "none" /\ i \in Rows(rows) /\ Loose(rows[i]) /\ k <= rows[i].qty
      /\ UNCHANGED <<deck, owned>>
  BY DEF PullCard
<1>2. PICK U \in Pulls(rows, i, k) : Change(U)
  BY DEF PullCard
<1>3. rows \in Tables /\ Placed(rows, deck) /\ deck \in {"none", "plain", "brew"}
  BY DEF StockInv, TypeOK
<1>4. /\ U \in Tables /\ Placed(U, deck) /\ Follows(rows, U)
      /\ \A o \in Printings : Copies(U, o) = Copies(rows, o)
  BY <1>1, <1>2, <1>3, FollowsItself, PullKeeps
<1>5. deck' = deck /\ owned' = owned
  BY <1>1
<1> QED
  BY <1>2, <1>3, <1>4, <1>5, QuietChange

\* The invariant survives return_card_from_deck.
LEMMA ReturnCardKeeps ==
  ASSUME StockInv, NEW i \in Ids, ReturnCard(i)
  PROVE  StockInv'
<1> DEFINE T == [rows EXCEPT ![i] = NoRow]
           r == [rows[i] EXCEPT !.at = "pending"]
<1>1. i \in Rows(rows) /\ rows[i].at = "deck" /\ UNCHANGED <<deck, owned>>
  BY DEF ReturnCard
<1>2. PICK V \in IF IsProxy(rows[i]) /\ deck = "brew" THEN {T} ELSE Deposits(Rows(rows), T, r) :
        \E W \in Resorts(V) : Change(W)
  BY DEF ReturnCard
<1>3. PICK U \in Resorts(V) : Change(U)
  BY <1>2
<1>4. /\ rows \in Tables /\ rows[i] \in Row /\ Fits(rows[i], deck) /\ rows[i] # NoRow
      /\ Placed(rows, deck) /\ deck \in {"none", "plain", "brew"}
  BY <1>1, RowOf DEF StockInv, TypeOK, Rows
<1>5. T \in Tables /\ T[i] = NoRow /\ \A j \in Ids \ {i} : T[j] = rows[j]
  BY <1>4 DEF Tables
<1>6. /\ r \in Row /\ r.card = rows[i].card /\ r.qty = rows[i].qty /\ r.kind = rows[i].kind
      /\ r.at = "pending"
  BY <1>4 DEF Row, Spots
<1> HIDE DEF T, r
<1>7. Placed(T, deck) /\ Follows(rows, T)
  BY <1>4, <1>5 DEF Placed, Fits, Follows
<1>8. ASSUME NEW o
      PROVE  Copies(T, o) = Copies(rows, o) - Value(rows[i], o)
  <2>1. Copies(T, o) = Copies(rows, o) + (Value(T[i], o) - Value(rows[i], o))
    BY <1>4, <1>5, CopiesOne
  <2>2. Value(T[i], o) = 0
    BY <1>5 DEF Value
  <2>3. Copies(rows, o) \in Nat /\ Value(rows[i], o) \in Nat
    BY <1>4, CopiesType, ValueType
  <2> QED
    BY <2>1, <2>2, <2>3
<1>9. CASE IsProxy(rows[i]) /\ deck = "brew"
  <2>1. V = T
    BY <1>2, <1>9
  <2>2. \A o : Value(rows[i], o) = 0
    BY <1>9 DEF Value, IsProxy
  <2>3. ASSUME NEW o
        PROVE  Copies(T, o) = Copies(rows, o)
    BY <1>4, <1>8, <2>2, CopiesType
  <2>4. V \in Tables /\ Placed(V, deck) /\ Follows(rows, V) /\ \A o : Copies(V, o) = Copies(rows, o)
    BY <1>5, <1>7, <2>1, <2>3
  <2>5. /\ U \in Tables /\ Placed(U, deck) /\ Follows(rows, U)
        /\ \A o : Copies(U, o) = Copies(rows, o)
    BY <1>3, <2>4, ResortKeeps
  <2> QED
    BY <1>1, <1>3, <1>4, <2>5, QuietChange
<1>10. CASE ~(IsProxy(rows[i]) /\ deck = "brew")
  <2>1. V \in Deposits(Rows(rows), T, r)
    BY <1>2, <1>10
  <2>2. Fits(r, deck)
    BY <1>4, <1>6, <1>10 DEF Fits, IsProxy, DeckSpots
  <2>3. /\ V \in Tables /\ Placed(V, deck) /\ Follows(rows, V)
        /\ \A o : Copies(V, o) = Copies(T, o) + Value(r, o)
    BY <1>5, <1>6, <1>7, <2>1, <2>2, DepositKeeps, DepositEffect
  <2>4. \A o : Value(r, o) = Value(rows[i], o)
    BY <1>4, <1>6, InventoryAssumption DEF Value
  <2>5. ASSUME NEW o
        PROVE  Copies(V, o) = Copies(rows, o)
    <3>1. Copies(rows, o) \in Nat /\ Value(rows[i], o) \in Nat
      BY <1>4, CopiesType, ValueType
    <3> QED
      BY <1>8, <2>3, <2>4, <3>1
  <2>6. /\ U \in Tables /\ Placed(U, deck) /\ Follows(rows, U)
        /\ \A o : Copies(U, o) = Copies(rows, o)
    BY <1>3, <2>3, <2>5, ResortKeeps
  <2> QED
    BY <1>1, <1>3, <1>4, <2>6, QuietChange
<1> QED
  BY <1>9, <1>10

\* The invariant survives set_deck_row_quantity.
LEMMA SetQuantityKeeps ==
  ASSUME StockInv, NEW i \in Ids, NEW k \in Nat, SetQuantity(i, k)
  PROVE  StockInv'
<1> DEFINE U == [rows EXCEPT ![i] = IF k = 0 THEN NoRow ELSE [rows[i] EXCEPT !.qty = k]]
           w == Worth(rows[i], k - rows[i].qty)
<1>1. i \in Rows(rows) /\ Change(U) /\ Gain(rows[i].card, w) /\ deck' = deck
  BY DEF SetQuantity
<1>2. /\ rows \in Tables /\ rows[i] \in Row /\ Fits(rows[i], deck) /\ rows[i] # NoRow
      /\ Placed(rows, deck) /\ deck \in {"none", "plain", "brew"} /\ rows[i].qty \in Nat
  BY <1>1, RowOf DEF StockInv, TypeOK, Rows
<1>3. /\ k = 0 => U[i] = NoRow
      /\ k # 0 => Alike(U[i], rows[i]) /\ U[i].qty = k
      /\ \A j \in Ids \ {i} : U[j] = rows[j]
  BY <1>2 DEF Tables, Row, Alike
<1>4. U \in Tables
  BY <1>2, <1>3 DEF Tables, Alike
<1>5. w \in Int /\ w = IF rows[i].kind = "real" THEN k - rows[i].qty ELSE 0
  BY <1>2 DEF Worth, IsProxy
<1> HIDE DEF U, w
<1>6. Placed(U, deck) /\ Follows(rows, U)
  <2>1. Fits(U[i], deck) /\ (U[i] # NoRow => IsProxy(U[i]) = IsProxy(rows[i]))
    BY <1>2, <1>3, AlikeFits DEF Fits
  <2> QED
    BY <1>2, <1>3, <2>1 DEF Placed, Follows
<1>7. /\ owned' \in [Printings -> Int]
      /\ \A o \in Printings : owned'[o] - owned[o] = IF o = rows[i].card THEN w ELSE 0
  BY <1>1, <1>5, GainBalance
<1>8. \A o : Value(U[i], o) - Value(rows[i], o) = IF o = rows[i].card THEN w ELSE 0
  BY <1>2, <1>3, <1>5, InventoryAssumption DEF Value, Alike, Row
<1>9. ASSUME NEW o \in Printings
      PROVE  Copies(U, o) - Copies(rows, o) = owned'[o] - owned[o]
  <2>1. Copies(U, o) = Copies(rows, o) + (Value(U[i], o) - Value(rows[i], o))
    BY <1>1, <1>2, <1>3, <1>4, CopiesOne DEF Rows
  <2> QED
    BY <1>2, <1>5, <1>7, <1>8, <2>1, CopiesType
<1> QED
  BY <1>1, <1>2, <1>4, <1>6, <1>7, <1>9, ChangeKeeps

\* Copies of printing p, taken out of rows of that printing.
LEMMA TakenIs ==
  ASSUME StockInv, NEW take, Takeable(rows, take), NEW p \in Printings
  PROVE  /\ Taken(take, p) \in Nat
         /\ Copies(Drained(rows, take), p) = Copies(rows, p) - Taken(take, p)
         /\ (\A i \in RealRows(rows, p) : take[i] = 0) => Taken(take, p) = 0
<1> DEFINE t == [i \in Ids |-> IF i \in RealRows(rows, p) THEN take[i] ELSE 0]
<1>1. rows \in Tables
  BY DEF StockInv, TypeOK
<1>2. Taken(take, p) = Total(MaxRows, t)
  BY DEF Taken
<1>3. \A i \in 1 .. MaxRows : t[i] \in Nat
  BY DEF Takeable, Ids
<1>4. Total(MaxRows, t) \in Nat
  <2> HIDE DEF t
  <2> QED
    BY <1>3, TotalType, InventoryAssumption
<1>5. Copies(Drained(rows, take), p) = Copies(rows, p) - Total(MaxRows, t)
  BY <1>1, DrainedCopies
<1>6. ASSUME \A i \in RealRows(rows, p) : take[i] = 0
      PROVE  Total(MaxRows, t) = 0
  <2>1. \A i \in 1 .. MaxRows : t[i] = 0
    BY <1>6 DEF Ids
  <2> HIDE DEF t
  <2> QED
    BY <2>1, TotalOfNone, InventoryAssumption
<1> QED
  BY <1>2, <1>4, <1>5, <1>6

\* The invariant survives switch_deck_row_printing.
LEMMA SwitchKeeps ==
  ASSUME StockInv, NEW i \in Ids, NEW p \in Printings, SwitchPrinting(i, p)
  PROVE  StockInv'
<1> DEFINE q == rows[i].qty
           S == {j \in Rows(rows) : Loose(rows[j]) /\ rows[j].card = p}
           M == {j \in RealRows(rows, p) : rows[j].at = "deck"}
           r == [rows[i] EXCEPT !.at = "pending"]
<1>1. /\ i \in Rows(rows) /\ rows[i].at = "deck" /\ ~IsProxy(rows[i]) /\ p # rows[i].card
      /\ deck' = deck
  BY DEF SwitchPrinting
<1>2. PICK take \in Drains(rows, S, q, Tier(rows)) :
        /\ \E T \in Deposits(Rows(rows), Drained(rows, take), r) :
           \E U \in IF M = {} THEN {[T EXCEPT ![i].card = p]}
                    ELSE {[T EXCEPT ![j].qty = @ + q, ![i] = NoRow] : j \in M} :
             Change(U)
        /\ Gain(p, q - Taken(take, p))
  BY DEF SwitchPrinting
<1>3. PICK T \in Deposits(Rows(rows), Drained(rows, take), r) :
        \E U \in IF M = {} THEN {[T EXCEPT ![i].card = p]}
                 ELSE {[T EXCEPT ![j].qty = @ + q, ![i] = NoRow] : j \in M} :
          Change(U)
  BY <1>2
<1>4. PICK U \in IF M = {} THEN {[T EXCEPT ![i].card = p]}
                 ELSE {[T EXCEPT ![j].qty = @ + q, ![i] = NoRow] : j \in M} :
        Change(U)
  BY <1>3
<1>5. /\ rows \in Tables /\ rows[i] \in Row /\ rows[i] # NoRow /\ Fits(rows[i], deck)
      /\ Placed(rows, deck) /\ deck \in {"none", "plain", "brew"} /\ q \in Nat \ {0}
      /\ rows[i].kind = "real"
  BY <1>1, RowOf DEF StockInv, TypeOK, Rows, IsProxy
<1>6. /\ r \in Row /\ r.card = rows[i].card /\ r.qty = q /\ r.kind = "real" /\ r.at = "pending"
  BY <1>5 DEF Row, Spots
<1>7. S \in SUBSET Rows(rows)
  OBVIOUS
<1>8. Takeable(rows, take) /\ \A j \in Ids : take[j] # 0 => j \in S
  <2> HIDE DEF S, q
  <2> QED
    BY <1>5, <1>7, DrainsEffect
<1> DEFINE D == Drained(rows, take)
<1>9. /\ D \in Tables /\ Placed(D, deck) /\ Follows(rows, D)
      /\ \A j \in Ids : D[j] = NoRow \/ Alike(D[j], rows[j])
      /\ \A j \in Ids : take[j] = 0 => D[j] = rows[j]
  BY <1>5, <1>8, DrainKeeps, DrainedEffect, FollowsItself
<1>10. /\ Taken(take, p) \in Nat
       /\ \A o \in Printings :
            Copies(D, o) = Copies(rows, o) - (IF o = p THEN Taken(take, p) ELSE 0)
  <2>1. \A o \in Printings : /\ Taken(take, o) \in Nat
                             /\ Copies(D, o) = Copies(rows, o) - Taken(take, o)
    BY <1>8, TakenIs
  <2>2. ASSUME NEW o \in Printings, o # p
        PROVE  Taken(take, o) = 0
    <3>1. \A j \in RealRows(rows, o) : take[j] = 0
      BY <1>8, <2>2 DEF RealRows, Rows
    <3> QED
      BY <1>8, <3>1, TakenIs
  <2>3. \A o \in Printings : Copies(rows, o) \in Nat
    BY <1>5, CopiesType
  <2> HIDE DEF D, S, q
  <2> QED
    BY <2>1, <2>2, <2>3
<1>11. Fits(r, deck)
  BY <1>6 DEF Fits, DeckSpots
<1>12. \A o : Value(r, o) = IF o = rows[i].card THEN q ELSE 0
  BY <1>6, InventoryAssumption DEF Value
<1>13. PICK m \in Ids :
         /\ \A j \in Ids \ {m} : T[j] = D[j]
         /\ \/ m \notin Rows(rows) \cup Rows(D) /\ T[m] = r
            \/ D[m] \in Row /\ Mergeable(D[m], r) /\ Alike(T[m], D[m])
  <2> HIDE DEF r, D
  <2> QED
    BY <1>3, <1>6, <1>9, DepositEffect DEF D
<1>14. /\ T \in Tables /\ Placed(T, deck) /\ Follows(rows, T)
       /\ \A o : Copies(T, o) = Copies(D, o) + Value(r, o)
  <2>1. T \in Deposits(Rows(rows), D, r)
    BY <1>3
  <2> HIDE DEF r, D
  <2> QED
    BY <1>6, <1>9, <1>11, <2>1, DepositKeeps, DepositEffect
<1>15. \A j \in Rows(rows) : rows[j].at = "deck" => T[j] = rows[j]
  <2> SUFFICES ASSUME NEW j \in Rows(rows), rows[j].at = "deck"
               PROVE  T[j] = rows[j]
    OBVIOUS
  <2>1. j \in Ids /\ take[j] = 0
    BY <1>8 DEF Rows, Loose, DeckSpots
  <2>2. D[j] = rows[j]
    BY <1>9, <2>1
  <2>3. j # m
    BY <1>6, <1>13, <2>2 DEF Mergeable
  <2> QED
    BY <1>13, <2>1, <2>2, <2>3
<1>16. T[i] = rows[i]
  BY <1>1, <1>15
<1>17. /\ U \in Tables /\ Placed(U, deck) /\ Follows(rows, U)
       /\ \A o : Copies(U, o) = Copies(T, o) + (IF o = p THEN q ELSE 0)
                                             - (IF o = rows[i].card THEN q ELSE 0)
  <2>1. \A o : Value(T[i], o) = IF o = rows[i].card THEN q ELSE 0
    BY <1>5, <1>16 DEF Value
  <2>2. CASE M = {}
    <3>1. U = [T EXCEPT ![i].card = p]
      BY <1>4, <2>2
    <3>2. /\ U[i] \in Row /\ U[i].card = p /\ U[i].kind = rows[i].kind
          /\ U[i].at = rows[i].at /\ U[i].qty = q
          /\ \A j \in Ids \ {i} : U[j] = T[j]
      BY <1>5, <1>14, <1>16, <3>1 DEF Tables, Row
    <3>3. U \in Tables
      BY <1>14, <3>1, <3>2 DEF Tables
    <3>4. Placed(U, deck) /\ Follows(rows, U)
      BY <1>5, <1>14, <3>2, InventoryAssumption DEF Placed, Fits, Follows, IsProxy
    <3>5. \A o : Value(U[i], o) = IF o = p THEN q ELSE 0
      BY <1>5, <3>2, InventoryAssumption DEF Value
    <3>6. ASSUME NEW o
          PROVE  Copies(U, o) = Copies(T, o) + (IF o = p THEN q ELSE 0)
                                             - (IF o = rows[i].card THEN q ELSE 0)
      <4>1. Copies(U, o) = Copies(T, o) + (Value(U[i], o) - Value(T[i], o))
        BY <1>14, <3>2, <3>3, CopiesOne
      <4>2. Copies(T, o) \in Nat
        BY <1>14, CopiesType
      <4> HIDE DEF q
      <4> QED
        BY <1>5, <2>1, <3>5, <4>1, <4>2
    <3> QED
      BY <3>3, <3>4, <3>6
  <2>3. CASE M # {}
    <3>1. PICK j \in M : U = [T EXCEPT ![j].qty = @ + q, ![i] = NoRow]
      BY <1>4, <2>3
    <3>2. /\ j \in Rows(rows) /\ j \in Ids /\ rows[j] \in Row /\ rows[j] # NoRow
          /\ rows[j].card = p /\ rows[j].kind = "real" /\ T[j] = rows[j] /\ j # i
          /\ rows[j].qty \in Nat
      BY <1>1, <1>5, <1>15 DEF RealRows, Rows, Tables, Row
    <3>3. U[j] = [T[j] EXCEPT !.qty = T[j].qty + q]
      BY <1>14, <3>1, <3>2 DEF Tables
    <3>4. /\ U[i] = NoRow /\ Alike(U[j], rows[j]) /\ U[j].qty = rows[j].qty + q
          /\ \A k \in Ids \ {i, j} : U[k] = T[k]
      BY <1>5, <1>14, <3>1, <3>2, <3>3 DEF Tables, Row, Alike
    <3>5. U \in Tables
      BY <1>14, <3>1, <3>4 DEF Tables, Alike
    <3>6. Placed(U, deck) /\ Follows(rows, U)
      <4>1. Fits(U[j], deck) /\ IsProxy(U[j]) = IsProxy(rows[j]) /\ Fits(U[i], deck)
        BY <1>5, <3>2, <3>4, AlikeFits DEF Fits, Placed
      <4> QED
        BY <1>14, <3>4, <4>1 DEF Placed, Follows
    <3>7. \A o : /\ Value(U[j], o) - Value(T[j], o) = IF o = p THEN q ELSE 0
                 /\ Value(U[i], o) = 0
      BY <1>5, <3>2, <3>4, InventoryAssumption DEF Value, Alike
    <3>8. ASSUME NEW o
          PROVE  Copies(U, o) = Copies(T, o) + (IF o = p THEN q ELSE 0)
                                             - (IF o = rows[i].card THEN q ELSE 0)
      <4>1. \A k \in Ids \ {i, j} : Value(U[k], o) = Value(T[k], o)
        BY <3>4
      <4>2. Copies(U, o) = Copies(T, o) + (Value(U[i], o) - Value(T[i], o))
                                        + (Value(U[j], o) - Value(T[j], o))
        BY <1>14, <3>2, <3>5, <4>1, CopiesTwo
      <4>3. Copies(T, o) \in Nat
        BY <1>14, CopiesType
      <4> HIDE DEF q
      <4> QED
        BY <1>5, <2>1, <3>7, <4>2, <4>3
    <3> QED
      BY <3>5, <3>6, <3>8
  <2> QED
    BY <2>2, <2>3
<1> HIDE DEF q, S, M, r, D
<1>18. q - Taken(take, p) \in Int
  BY <1>5, <1>10
<1>19. /\ owned' \in [Printings -> Int]
       /\ \A o \in Printings : owned'[o] - owned[o] = IF o = p THEN q - Taken(take, p) ELSE 0
  BY <1>2, <1>18, GainBalance
<1>20. ASSUME NEW o \in Printings
       PROVE  Copies(U, o) - Copies(rows, o) = owned'[o] - owned[o]
  <2>1. Copies(rows, o) \in Nat
    BY <1>5, CopiesType
  <2> QED
    BY <1>1, <1>5, <1>10, <1>12, <1>14, <1>17, <1>19, <2>1
<1> QED
  BY <1>1, <1>4, <1>5, <1>17, <1>19, <1>20, ChangeKeeps

----------------------------------------------------------------------------
(* Claiming cards for a brew deck *)

\* A deck that stops being a brew keeps its rows, and what stood for a card nobody
\* owns is a proxy like others.
LEMMA FinishKeeps ==
  ASSUME StockInv, deck = "brew", NEW U \in Tables, Placed(U, "brew"), Follows(rows, U),
         \A p \in Printings : Copies(U, p) = Copies(rows, p),
         FinishClaim(U), UNCHANGED owned
  PROVE  StockInv'
<1> DEFINE V == Relabelled(U, "placeholder", "proxy")
<1>1. CASE DeckProxies(U) = {}
  <2>1. deck' = "plain" /\ Change(V)
    BY <1>1 DEF FinishClaim
  <2>2. /\ V \in Tables /\ Placed(V, "plain")
        /\ \A i \in Ids : Reworked(U[i], V[i]) /\ (U[i] # NoRow <=> V[i] # NoRow)
    BY RelabelKeeps
  <2> HIDE DEF V
  <2>3. Follows(rows, V) /\ \A p : Copies(V, p) = Copies(U, p)
    BY <2>2, ReworkKeeps
  <2> QED
    BY <2>1, <2>2, <2>3, QuietChange
<1>2. CASE DeckProxies(U) # {}
  <2>1. deck' = deck /\ Change(U)
    BY <1>2 DEF FinishClaim
  <2> QED
    BY <2>1, QuietChange
<1> QED
  BY <1>1, <1>2

\* The row a printing lands on: no copies are taken from it, and it is a real row of
\* the list, or was not there.
LEMMA LandingIs ==
  ASSUME StockInv, NEW take, Takeable(rows, take),
         \A i \in Ids : take[i] # 0 => i \in LooseReal(rows),
         NEW to \in Landings(take), NEW p \in Printings, Taken(take, p) > 0
  PROVE  /\ to[p] \in Ids
         /\ \/ /\ rows[to[p]] \in Row /\ rows[to[p]] # NoRow
               /\ rows[to[p]].card = p /\ rows[to[p]].at = "deck" /\ rows[to[p]].kind = "real"
            \/ rows[to[p]] = NoRow
         /\ take[to[p]] = 0
         /\ \A o \in Printings : Taken(take, o) > 0 /\ to[o] = to[p] => o = p
<1>1. rows \in Tables /\ to \in [Printings -> Ids]
  BY DEF StockInv, TypeOK, Landings
<1>2. IF Listed(p) # {} THEN to[p] \in Listed(p)
      ELSE /\ to[p] \notin Rows(rows)
           /\ \A o \in Printings : Taken(take, o) > 0 /\ to[o] = to[p] => o = p
  BY DEF Landings
<1>3. CASE Listed(p) # {}
  <2>1. /\ rows[to[p]] \in Row /\ rows[to[p]] # NoRow
        /\ rows[to[p]].card = p /\ rows[to[p]].at = "deck" /\ rows[to[p]].kind = "real"
    BY <1>1, <1>2, <1>3 DEF Listed, RealRows, Rows, Tables
  <2>2. take[to[p]] = 0
    BY <1>1, <2>1 DEF LooseReal, Loose, DeckSpots
  <2>3. ASSUME NEW o \in Printings, Taken(take, o) > 0, to[o] = to[p]
        PROVE  o = p
    <3>1. to[o] \in Listed(o) \/ to[o] \notin Rows(rows)
      BY <2>3 DEF Landings
    <3> QED
      BY <1>1, <2>1, <2>3, <3>1 DEF Listed, RealRows, Rows
  <2> QED
    BY <1>1, <2>1, <2>2, <2>3
<1>4. CASE Listed(p) = {}
  <2>1. rows[to[p]] = NoRow
    BY <1>1, <1>2, <1>4 DEF Rows
  <2>2. take[to[p]] = 0
    BY <1>1, <1>2, <1>4 DEF LooseReal
  <2> QED
    BY <1>1, <1>2, <1>4, <2>1, <2>2
<1> QED
  BY <1>3, <1>4

\* The copies of printing p that row i receives.
Landed(take, to, p, i) == IF Taken(take, p) > 0 /\ to[p] = i THEN Taken(take, p) ELSE 0

\* What a claim makes of row i.
LEMMA ClaimedRow ==
  ASSUME StockInv, deck = "brew", NEW take, Takeable(rows, take), NEW drop, Takeable(rows, drop),
         \A i \in Ids : take[i] # 0 => i \in LooseReal(rows),
         \A i \in Ids : drop[i] # 0 => i \in DeckProxies(rows),
         NEW to \in Landings(take), NEW i \in Ids, NEW r, r = Claimed(take, drop, to)[i]
  PROVE  /\ r \in Row \cup {NoRow}
         /\ Fits(r, "brew")
         /\ rows[i] # NoRow /\ r # NoRow => IsProxy(r) = IsProxy(rows[i])
         /\ \A p \in Printings :
              Value(r, p) = Value(rows[i], p) - (IF i \in RealRows(rows, p) THEN take[i] ELSE 0)
                                              + Landed(take, to, p, i)
<1>1. /\ rows \in Tables /\ rows[i] \in Row \cup {NoRow} /\ Fits(rows[i], "brew")
      /\ take[i] \in Nat /\ drop[i] \in Nat
  BY DEF StockInv, TypeOK, Tables, Placed, Takeable
<1>2. \A p \in Printings : Value(rows[i], p) \in Nat /\ Taken(take, p) \in Nat
  BY <1>1, ValueType, TakenIs
<1>3. ASSUME take[i] > 0 \/ drop[i] > 0
      PROVE  \A p \in Printings : Landed(take, to, p, i) = 0
  <2> SUFFICES ASSUME NEW p \in Printings, Taken(take, p) > 0, to[p] = i PROVE FALSE
    BY DEF Landed
  <2> QED
    BY <1>1, <1>3, LandingIs DEF DeckProxies, Rows, IsProxy
<1>4. CASE take[i] > 0
  <2>1. /\ i \in LooseReal(rows) /\ rows[i] \in Row /\ rows[i] # NoRow /\ take[i] <= rows[i].qty
        /\ r = Less(rows[i], take[i])
    BY <1>1, <1>4, InventoryAssumption DEF Takeable, Claimed
  <2>2. /\ r = NoRow \/ Alike(r, rows[i])
        /\ \A p : Value(r, p) = Value(rows[i], p)
                    - (IF rows[i].card = p /\ rows[i].kind = "real" THEN take[i] ELSE 0)
    BY <1>1, <2>1, LessRow
  <2>3. \A p : i \in RealRows(rows, p) <=> rows[i].card = p /\ rows[i].kind = "real"
    BY <2>1 DEF RealRows, Rows
  <2>4. \A p \in Printings :
          Value(r, p) = Value(rows[i], p) - (IF i \in RealRows(rows, p) THEN take[i] ELSE 0)
                                          + Landed(take, to, p, i)
    <3>1. \A p \in Printings : Landed(take, to, p, i) = 0
      BY <1>3, <1>4
    <3> QED
      <4> TAKE p \in Printings
      <4> DEFINE x == IF i \in RealRows(rows, p) THEN take[i] ELSE 0
      <4>1. x = IF rows[i].card = p /\ rows[i].kind = "real" THEN take[i] ELSE 0
        BY <2>3
      <4>2. x \in Nat
        BY <1>1
      <4>3. Value(r, p) = Value(rows[i], p) - x
        BY <2>2, <4>1
      <4> HIDE DEF x
      <4>4. Value(rows[i], p) - x = Value(rows[i], p) - x + Landed(take, to, p, i)
        BY <1>2, <3>1, <4>2
      <4>5. Value(r, p) = Value(rows[i], p) - x + Landed(take, to, p, i)
        BY <4>3, <4>4
      <4> QED
        BY <4>5 DEF x
  <2>5. /\ r \in Row \cup {NoRow} /\ Fits(r, "brew")
        /\ r # NoRow => IsProxy(r) = IsProxy(rows[i])
    BY <1>1, <2>2, AlikeFits DEF Fits, Alike
  <2> QED
    BY <2>4, <2>5
<1>5. CASE take[i] = 0 /\ drop[i] > 0
  <2>1. /\ i \in DeckProxies(rows) /\ rows[i] \in Row /\ rows[i] # NoRow /\ drop[i] <= rows[i].qty
        /\ r = Less(rows[i], drop[i])
    BY <1>1, <1>5, InventoryAssumption DEF Takeable, Claimed
  <2>2. /\ r = NoRow \/ Alike(r, rows[i])
        /\ rows[i].kind # "real"
        /\ \A p : Value(r, p) = Value(rows[i], p)
    <3>1. rows[i].kind # "real"
      BY <2>1 DEF DeckProxies, IsProxy
    <3>2. r = NoRow \/ Alike(r, rows[i])
      BY <1>1, <2>1, LessRow
    <3>3. \A p : Value(rows[i], p) = 0 /\ Value(r, p) = 0
      BY <3>1, <3>2 DEF Value, Alike
    <3> QED
      BY <3>1, <3>2, <3>3
  <2>3. \A p \in Printings :
          Value(r, p) = Value(rows[i], p) - (IF i \in RealRows(rows, p) THEN take[i] ELSE 0)
                                          + Landed(take, to, p, i)
    <3>1. \A p \in Printings : i \notin RealRows(rows, p)
      BY <2>2 DEF RealRows
    <3>2. \A p \in Printings : Landed(take, to, p, i) = 0
      BY <1>3, <1>5
    <3> QED
      <4> TAKE p \in Printings
      <4>1. /\ Value(rows[i], p) \in Nat /\ Landed(take, to, p, i) = 0
            /\ (IF i \in RealRows(rows, p) THEN take[i] ELSE 0) = 0
            /\ Value(r, p) = Value(rows[i], p)
        BY <1>2, <2>2, <3>1, <3>2
      <4> QED
        BY <4>1
  <2>4. /\ r \in Row \cup {NoRow} /\ Fits(r, "brew")
        /\ r # NoRow => IsProxy(r) = IsProxy(rows[i])
    BY <1>1, <2>2, AlikeFits DEF Fits, Alike
  <2> QED
    BY <2>3, <2>4
<1>6. ASSUME take[i] = 0, drop[i] = 0, NEW o \in Printings, Taken(take, o) > 0, to[o] = i
      PROVE  /\ r \in Row \cup {NoRow} /\ Fits(r, "brew")
             /\ rows[i] # NoRow => IsProxy(r) = IsProxy(rows[i])
             /\ \A p \in Printings : Value(r, p) = Value(rows[i], p) + Landed(take, to, p, i)
  <2> DEFINE n == Taken(take, o)
  <2>1. /\ \/ rows[i] \in Row /\ rows[i] # NoRow /\ rows[i].card = o
              /\ rows[i].at = "deck" /\ rows[i].kind = "real"
           \/ rows[i] = NoRow
        /\ \A p \in Printings : Taken(take, p) > 0 /\ to[p] = i => p = o
    BY <1>6, LandingIs
  <2>2. (CHOOSE p \in Printings : Taken(take, p) > 0 /\ to[p] = i) = o
    BY <1>6, <2>1
  <2>3. r = IF i \in Rows(rows) THEN [rows[i] EXCEPT !.qty = @ + n]
            ELSE [card |-> o, at |-> "deck", kind |-> "real", qty |-> n]
    <3>1. ~(take[i] > 0) /\ ~(drop[i] > 0)
      BY <1>6
    <3>2. \E p \in Printings : Taken(take, p) > 0 /\ to[p] = i
      BY <1>6
    <3> QED
      BY <2>2, <3>1, <3>2 DEF Claimed
  <2>4. n \in Nat \ {0}
    BY <1>2, <1>6
  <2> HIDE DEF n
  <2>5. /\ r \in Row /\ r.card = o /\ r.at = "deck" /\ r.kind = "real"
        /\ r.qty = (IF rows[i] # NoRow THEN rows[i].qty ELSE 0) + n
    <3>1. CASE rows[i] = NoRow
      <4>1. r = [card |-> o, at |-> "deck", kind |-> "real", qty |-> n]
        BY <2>3, <3>1 DEF Rows
      <4> QED
        BY <2>4, <3>1, <4>1 DEF Row, Spots, Kinds
    <3>2. CASE rows[i] # NoRow
      <4>1. r = [rows[i] EXCEPT !.qty = @ + n]
        BY <2>3, <3>2 DEF Rows
      <4> QED
        BY <2>1, <2>4, <3>2, <4>1 DEF Row
    <3> QED
      BY <3>1, <3>2
  <2>6. Fits(r, "brew") /\ (rows[i] # NoRow => IsProxy(r) = IsProxy(rows[i]))
    BY <2>1, <2>5 DEF Fits, IsProxy
  <2>7. ASSUME NEW p \in Printings
        PROVE  Value(r, p) = Value(rows[i], p) + Landed(take, to, p, i)
    <3>1. Landed(take, to, p, i) = IF p = o THEN n ELSE 0
      BY <1>6, <2>1 DEF Landed, n
    <3>2. Value(r, p) = IF p = o THEN r.qty ELSE 0
      BY <2>5, InventoryAssumption DEF Value
    <3>3. Value(rows[i], p) = IF p = o /\ rows[i] # NoRow THEN rows[i].qty ELSE 0
      BY <2>1 DEF Value
    <3>4. rows[i] # NoRow => rows[i].qty \in Nat
      BY <1>1 DEF Row
    <3> QED
      BY <2>4, <2>5, <3>1, <3>2, <3>3, <3>4
  <2> QED
    BY <2>5, <2>6, <2>7
<1>7. CASE take[i] = 0 /\ drop[i] = 0 /\ ~ \E p \in Printings : Taken(take, p) > 0 /\ to[p] = i
  <2>1. r = rows[i]
    BY <1>7 DEF Claimed
  <2>2. \A p \in Printings : Landed(take, to, p, i) = 0
    BY <1>7 DEF Landed
  <2> QED
    BY <1>1, <1>2, <1>7, <2>1, <2>2
<1>8. CASE take[i] = 0 /\ drop[i] = 0 /\ \E p \in Printings : Taken(take, p) > 0 /\ to[p] = i
  <2>1. \A p \in Printings : Landed(take, to, p, i) \in Nat
    BY <1>2 DEF Landed
  <2>2. PICK o \in Printings : Taken(take, o) > 0 /\ to[o] = i
    BY <1>8
  <2>3. /\ r \in Row \cup {NoRow} /\ Fits(r, "brew")
        /\ rows[i] # NoRow => IsProxy(r) = IsProxy(rows[i])
        /\ \A p \in Printings : Value(r, p) = Value(rows[i], p) + Landed(take, to, p, i)
    BY <1>6, <1>8, <2>2
  <2> QED
    BY <1>2, <1>8, <2>1, <2>3
<1> QED
  BY <1>1, <1>4, <1>5, <1>7, <1>8

\* A claim: what leaves the loose rows arrives in the list.
LEMMA ClaimedKeeps ==
  ASSUME StockInv, deck = "brew", NEW take, Takeable(rows, take), NEW drop, Takeable(rows, drop),
         \A i \in Ids : take[i] # 0 => i \in LooseReal(rows),
         \A i \in Ids : drop[i] # 0 => i \in DeckProxies(rows),
         NEW to \in Landings(take), FinishClaim(Claimed(take, drop, to)), UNCHANGED owned
  PROVE  StockInv'
<1> DEFINE U == Claimed(take, drop, to)
<1>1. ASSUME NEW i \in Ids
      PROVE  /\ U[i] \in Row \cup {NoRow}
             /\ Fits(U[i], "brew")
             /\ rows[i] # NoRow /\ U[i] # NoRow => IsProxy(U[i]) = IsProxy(rows[i])
             /\ \A p \in Printings :
                  Value(U[i], p) = Value(rows[i], p) - (IF i \in RealRows(rows, p) THEN take[i] ELSE 0)
                                                     + Landed(take, to, p, i)
  BY ClaimedRow
<1>2. U \in Tables
  <2>1. \E f : U = [i \in Ids |-> f[i]]
    <3> DEFINE f == [i \in Ids |-> U[i]]
    <3>1. U = [i \in Ids |-> f[i]]
      BY DEF Claimed
    <3> QED
      BY <3>1
  <2> HIDE DEF U
  <2> QED
    BY <1>1, <2>1 DEF Tables
<1>3. Placed(U, "brew") /\ Follows(rows, U)
  BY <1>1 DEF Placed, Follows
<1>4. rows \in Tables /\ to \in [Printings -> Ids]
  BY DEF StockInv, TypeOK, Landings
<1>5. ASSUME NEW p \in Printings
      PROVE  Copies(U, p) = Copies(rows, p)
  <2> DEFINE n == Taken(take, p)
             t == [i \in Ids |-> IF i \in RealRows(rows, p) THEN take[i] ELSE 0]
             a == [i \in Ids |-> Landed(take, to, p, i)]
             d == [i \in Ids |-> a[i] - t[i]]
  <2>1. n \in Nat /\ n = Total(MaxRows, t)
    BY TakenIs DEF Taken
  <2>2. \A i \in Ids : a[i] = IF n > 0 /\ to[p] = i THEN n ELSE 0
    BY DEF Landed
  <2>3. \A i \in Ids : t[i] \in Int /\ Value(rows[i], p) \in Int
                       /\ Value(U[i], p) = Value(rows[i], p) - t[i] + a[i]
    BY <1>1, <1>4, ValueType DEF Takeable, Tables
  <2>4. \A i \in Ids : d[i] = a[i] - t[i]
    OBVIOUS
  <2> HIDE DEF n, t, a, d, U
  <2>5. \A i \in Ids : d[i] \in Int /\ a[i] \in Int /\ a[i] = d[i] + t[i]
                       /\ Value(U[i], p) = Value(rows[i], p) + d[i]
    BY <2>1, <2>2, <2>3, <2>4
  <2>6. Total(MaxRows, a) = n
    <3>1. CASE n > 0
      <4>1. \A i \in Ids : a[i] = IF i = to[p] THEN n ELSE 0
        BY <2>2, <3>1
      <4>2. to[p] \in Ids
        BY <1>4
      <4> QED
        <5>1. MaxRows \in Nat /\ to[p] \in 1 .. MaxRows /\ n \in Int
          BY <2>1, <4>2, InventoryAssumption DEF Ids
        <5>2. \A i \in 1 .. MaxRows : a[i] = IF i = to[p] THEN n ELSE 0
          BY <4>1 DEF Ids
        <5> QED
          BY <5>1, <5>2, TotalOfOne
    <3>2. CASE n = 0
      BY <2>2, <3>2, TotalOfNone, InventoryAssumption DEF Ids
    <3> QED
      BY <2>1, <3>1, <3>2
  <2>7. Total(MaxRows, a) = Total(MaxRows, d) + Total(MaxRows, t)
    BY <2>3, <2>5, TotalAdds, InventoryAssumption DEF Ids
  <2>8. Total(MaxRows, d) \in Int
    BY <2>5, TotalType, InventoryAssumption DEF Ids
  <2>9. Copies(U, p) = Copies(rows, p) + Total(MaxRows, d)
    BY <1>2, <1>4, <2>5, CopiesChange
  <2> QED
    BY <1>4, <2>1, <2>6, <2>7, <2>8, <2>9, CopiesType
<1> HIDE DEF U
<1>6. FinishClaim(U)
  BY DEF U
<1> QED
  BY <1>2, <1>3, <1>5, <1>6, FinishKeeps

\* The invariant survives materialize_brew.
LEMMA MaterializeKeeps ==
  ASSUME StockInv, MaterializeBrew
  PROVE  StockInv'
<1> DEFINE n == Lower(Quantity(rows, LooseReal(rows)), Quantity(rows, DeckProxies(rows)))
           any == [i \in Ids |-> 0]
<1>1. deck = "brew" /\ UNCHANGED owned /\ rows \in Tables
  BY DEF MaterializeBrew, StockInv, TypeOK
<1>2. PICK take \in Drains(rows, LooseReal(rows), n, any),
           drop \in Drains(rows, DeckProxies(rows), n, any) :
        \E to \in Landings(take) : FinishClaim(Claimed(take, drop, to))
  BY DEF MaterializeBrew
<1>3. LooseReal(rows) \in SUBSET Rows(rows) /\ DeckProxies(rows) \in SUBSET Rows(rows)
  BY DEF LooseReal, DeckProxies
<1>4. n \in Nat
  BY <1>1, <1>3, QuantityType DEF Lower
<1> HIDE DEF n, any
<1>5. /\ Takeable(rows, take) /\ \A i \in Ids : take[i] # 0 => i \in LooseReal(rows)
      /\ Takeable(rows, drop) /\ \A i \in Ids : drop[i] # 0 => i \in DeckProxies(rows)
  BY <1>1, <1>3, <1>4, DrainsEffect
<1> QED
  BY <1>1, <1>2, <1>5, ClaimedKeeps

\* The invariant survives confirm_deck_assembly.
LEMMA AssembleKeeps ==
  ASSUME StockInv, NEW i \in Ids, NEW j \in Ids, NEW k \in Nat, ConfirmAssembly(i, j, k)
  PROVE  StockInv'
<1>1. /\ deck = "brew" /\ i \in DeckProxies(rows) /\ j \in LooseReal(rows)
      /\ k <= Lower(rows[i].qty, rows[j].qty) /\ UNCHANGED owned
  BY DEF ConfirmAssembly
<1>2. PICK to \in Landings(TakeFrom(j, k)) :
        FinishClaim(Claimed(TakeFrom(j, k), TakeFrom(i, k), to))
  BY DEF ConfirmAssembly
<1>3. i \in Rows(rows) /\ j \in Rows(rows)
  BY <1>1 DEF DeckProxies, LooseReal
<1>4. rows \in Tables /\ rows[i].qty \in Nat /\ rows[j].qty \in Nat
  BY <1>3, RowOf
<1>5. k <= rows[i].qty /\ k <= rows[j].qty
  BY <1>1, <1>4 DEF Lower
<1>6. Takeable(rows, TakeFrom(j, k)) /\ Takeable(rows, TakeFrom(i, k))
  BY <1>3, <1>4, <1>5, TakeFromOne
<1>7. /\ \A m \in Ids : TakeFrom(j, k)[m] # 0 => m \in LooseReal(rows)
      /\ \A m \in Ids : TakeFrom(i, k)[m] # 0 => m \in DeckProxies(rows)
  BY <1>1 DEF TakeFrom
<1> QED
  BY <1>1, <1>2, <1>6, <1>7, ClaimedKeeps

----------------------------------------------------------------------------
(* The Considering area *)

\* Adding a card to the considering pile adds its copies there.
LEMMA ConsideredKeeps ==
  ASSUME NEW T \in Tables, deck # "none", NEW p \in Printings, NEW kind \in {"real", "proxy"},
         NEW k \in Nat, NEW U \in Considered(T, p, kind, k)
  PROVE  /\ U \in Tables
         /\ Placed(T, deck) => Placed(U, deck)
         /\ Follows(rows, T) => Follows(rows, U)
         /\ \A o : Copies(U, o) = Copies(T, o) + IF o = p /\ kind = "real" THEN k ELSE 0
<1>1. CASE k = 0
  <2>1. U = T
    BY <1>1 DEF Considered
  <2>2. \A o : Copies(T, o) \in Nat
    BY CopiesType
  <2> QED
    BY <1>1, <2>1, <2>2
<1>2. CASE k # 0
  <2> DEFINE r == NewRow(p, "considering", kind, k)
  <2>1. U \in Deposits(Rows(rows), T, r)
    BY <1>2 DEF Considered
  <2>2. /\ r \in Row /\ Fits(r, deck)
        /\ \A o : Value(r, o) = IF o = p /\ kind = "real" THEN k ELSE 0
    BY <1>2, NewRowFits DEF Spots
  <2> HIDE DEF r
  <2> QED
    BY <2>1, <2>2, DepositKeeps, DepositEffect
<1> QED
  BY <1>1, <1>2

\* The invariant survives add_card_to_considering.
LEMMA AddToConsideringKeeps ==
  ASSUME StockInv, NEW p \in Printings, NEW k \in Nat, AddToConsidering(p, k)
  PROVE  StockInv'
<1> DEFINE S == {i \in LooseReal(rows) : rows[i].card = p}
           n == Lower(k, Quantity(rows, S))
           rest == IF deck = "brew" THEN k - n ELSE 0
<1>1. deck # "none" /\ UNCHANGED <<deck, owned>>
  BY DEF AddToConsidering
<1>2. PICK take \in Drains(rows, S, n, Tier(rows)) :
        \E T \in Considered(Drained(rows, take), p, "real", n) :
        \E U \in Considered(T, p, "proxy", rest) : Change(U)
  BY DEF AddToConsidering
<1>3. PICK T \in Considered(Drained(rows, take), p, "real", n) :
        \E U \in Considered(T, p, "proxy", rest) : Change(U)
  BY <1>2
<1>4. PICK U \in Considered(T, p, "proxy", rest) : Change(U)
  BY <1>3
<1>5. rows \in Tables /\ Placed(rows, deck) /\ deck \in {"none", "plain", "brew"}
  BY DEF StockInv, TypeOK
<1>6. S \in SUBSET Rows(rows) /\ \A i \in S : i \in RealRows(rows, p)
  BY <1>5 DEF LooseReal, Rows, Tables, RealRows, IsProxy
<1>7. n \in Nat /\ rest \in Nat
  <2>1. Quantity(rows, S) \in Nat
    BY <1>5, <1>6, QuantityType
  <2> QED
    BY <2>1 DEF Lower
<1> HIDE DEF S, n, rest
<1>8. /\ Takeable(rows, take) /\ \A i \in Ids : take[i] # 0 => i \in S
      /\ take \in [Ids -> Nat] /\ Total(MaxRows, take) = n
  BY <1>5, <1>6, <1>7, DrainsEffect
<1> DEFINE D == Drained(rows, take)
<1>9. D \in Tables /\ Placed(D, deck) /\ Follows(rows, D)
  BY <1>5, <1>8, DrainKeeps, FollowsItself
<1>10. ASSUME NEW o \in Printings
       PROVE  Copies(D, o) = Copies(rows, o) - IF o = p THEN n ELSE 0
  <2> DEFINE t == [i \in Ids |-> IF i \in RealRows(rows, o) THEN take[i] ELSE 0]
  <2>1. CASE o = p
    <3>1. \A i \in Ids : t[i] = take[i]
      BY <1>6, <1>8, <2>1
    <3>2. Taken(take, o) = Total(MaxRows, t)
      BY DEF Taken
    <3>3. Total(MaxRows, t) = Total(MaxRows, take)
      <4> HIDE DEF t
      <4> QED
        BY <3>1, TotalSame, InventoryAssumption DEF Ids
    <3> HIDE DEF D
    <3>4. Copies(D, o) = Copies(rows, o) - Taken(take, o)
      BY <1>8, TakenIs DEF D
    <3> QED
      BY <1>8, <2>1, <3>2, <3>3, <3>4
  <2>2. CASE o # p
    <3>1. \A i \in RealRows(rows, o) : take[i] = 0
      BY <1>6, <1>8, <2>2 DEF RealRows, Rows
    <3>2. Taken(take, o) = 0
      BY <1>8, <3>1, TakenIs
    <3>3. Copies(D, o) = Copies(rows, o) - Taken(take, o)
      BY <1>8, TakenIs
    <3> HIDE DEF D
    <3> QED
      BY <1>5, <2>2, <3>2, <3>3, CopiesType
  <2> QED
    BY <2>1, <2>2
<1>11. T \in Considered(D, p, "real", n)
  BY <1>3
<1> HIDE DEF D
<1>12. /\ T \in Tables /\ Placed(T, deck) /\ Follows(rows, T)
       /\ \A o : Copies(T, o) = Copies(D, o) + IF o = p THEN n ELSE 0
  <2>1. /\ T \in Tables /\ Placed(T, deck) /\ Follows(rows, T)
        /\ \A o : Copies(T, o) = Copies(D, o) + IF o = p /\ "real" = "real" THEN n ELSE 0
    BY <1>1, <1>7, <1>9, <1>11, ConsideredKeeps
  <2> QED
    BY <2>1
<1>13. /\ U \in Tables /\ Placed(U, deck) /\ Follows(rows, U)
       /\ \A o : Copies(U, o) = Copies(T, o)
  <2>1. /\ U \in Tables /\ Placed(U, deck) /\ Follows(rows, U)
        /\ \A o : Copies(U, o) = Copies(T, o) + IF o = p /\ "proxy" = "real" THEN rest ELSE 0
    BY <1>1, <1>4, <1>7, <1>12, ConsideredKeeps
  <2>2. \A o : Copies(T, o) \in Nat
    BY <1>12, CopiesType
  <2> QED
    BY <2>1, <2>2
<1>14. ASSUME NEW o \in Printings
       PROVE  Copies(U, o) = Copies(rows, o)
  <2>1. Copies(rows, o) \in Nat
    BY <1>5, CopiesType
  <2> QED
    BY <1>7, <1>10, <1>12, <1>13, <2>1
<1> QED
  BY <1>1, <1>4, <1>5, <1>13, <1>14, QuietChange

\* The invariant survives a promotion from the considering pile and a demotion to it.
LEMMA ConsideringMoveKeeps ==
  ASSUME StockInv, NEW i \in Ids, Promote(i) \/ Demote(i)
  PROVE  StockInv'
<1>1. PICK at \in {"deck", "considering"}, old \in {"deck", "considering"} :
        /\ i \in Rows(rows) /\ rows[i].at = old
        /\ \E U \in Moves(rows, i, at) : Change(U)
        /\ UNCHANGED <<deck, owned>>
  BY DEF Promote, Demote
<1>2. PICK U \in Moves(rows, i, at) : Change(U)
  BY <1>1
<1>3. /\ rows \in Tables /\ rows[i] \in Row /\ rows[i] # NoRow /\ Fits(rows[i], deck)
      /\ Placed(rows, deck) /\ deck \in {"none", "plain", "brew"}
  BY <1>1, RowOf DEF StockInv, TypeOK, Rows
<1>4. Fits([rows[i] EXCEPT !.at = at], deck)
  <2>1. [rows[i] EXCEPT !.at = at].at = at /\ [rows[i] EXCEPT !.at = at].kind = rows[i].kind
    BY <1>3 DEF Row
  <2> QED
    BY <1>1, <1>3, <2>1 DEF Fits, DeckSpots
<1>5. /\ U \in Tables /\ Placed(U, deck) /\ Follows(rows, U)
      /\ \A p : Copies(U, p) = Copies(rows, p)
  <2>1. \A j \in Ids \ {i} : Fits(rows[j], deck)
    BY <1>3 DEF Placed
  <2>2. at \in Spots
    BY DEF Spots
  <2> QED
    BY <1>1, <1>2, <1>3, <1>4, <2>1, <2>2, MoveKeeps, FollowsItself
<1> QED
  BY <1>1, <1>2, <1>3, <1>5, QuietChange

\* The invariant survives remove_from_considering.
LEMMA RemoveFromConsideringKeeps ==
  ASSUME StockInv, NEW i \in Ids, RemoveFromConsidering(i)
  PROVE  StockInv'
<1> DEFINE U == [rows EXCEPT ![i] = Disbanded(rows[i])]
<1>1. i \in Rows(rows) /\ Change(U) /\ UNCHANGED <<deck, owned>>
  BY DEF RemoveFromConsidering
<1>2. /\ rows \in Tables /\ rows[i] \in Row /\ Fits(rows[i], deck)
      /\ Placed(rows, deck) /\ deck \in {"none", "plain", "brew"}
  BY <1>1, RowOf DEF StockInv, TypeOK
<1>3. U[i] = Disbanded(rows[i]) /\ \A j \in Ids \ {i} : U[j] = rows[j]
  BY <1>2 DEF Tables
<1>4. U = [j \in Ids |-> U[j]]
  BY <1>2 DEF Tables
<1> HIDE DEF U
<1>5. ASSUME NEW j \in Ids
      PROVE  /\ U[j] \in Row \cup {NoRow}
             /\ Reworked(rows[j], U[j]) /\ Fits(U[j], deck)
  <2>1. CASE j = i
    BY <1>2, <1>3, <2>1, DisbandedIs
  <2>2. CASE j # i
    BY <1>2, <1>3, <2>2 DEF Tables, Placed, Reworked
  <2> QED
    BY <2>1, <2>2
<1> QED
  BY <1>1, <1>2, <1>4, <1>5, ReworkQuiet

----------------------------------------------------------------------------
(* Importing *)

\* What holds of an import in progress S, of which the entries after the first m are
\* its own: their rows are still there.
Sound(S) ==
  /\ S \in [table : Tables, log : Seq(Entry)]
  /\ Placed(S.table, deck)
  /\ Told(S.table, S.log)
  /\ \A p \in Printings : Copies(S.table, p) = owned[p] + Imported(S.log, p)

Present(S, I) == \A i \in I : i \in Rows(S.table)

\* The identifiers that entries of a log refer to are not given to new rows, so
\* what the log says stays true.
LEMMA ToldKeeps ==
  ASSUME NEW T, NEW U, NEW L, NEW B, Told(T, L),
         \A e \in DOMAIN L : L[e].row \in B,
         \A R : Rows(R) \subseteq B /\ Follows(R, T) => Follows(R, U),
         \A j \in Ids : U[j] # NoRow => T[j] # NoRow \/ j \notin B
  PROVE  Told(U, L)
<1> DEFINE R == [i \in Ids |-> IF i \in B THEN T[i] ELSE NoRow]
<1>1. Rows(R) \subseteq B /\ Follows(R, T)
  BY DEF Rows, Follows
<1>2. Follows(R, U)
  BY <1>1
<1>3. ASSUME NEW e \in DOMAIN L, L[e].row \in Rows(U), ~L[e].reversed
      PROVE  L[e].real <=> ~IsProxy(U[L[e].row])
  <2> DEFINE i == L[e].row
  <2>1. i \in Ids /\ U[i] # NoRow /\ i \in B
    BY <1>3 DEF Rows
  <2>2. T[i] # NoRow /\ R[i] = T[i]
    BY <2>1
  <2>3. IsProxy(U[i]) = IsProxy(T[i])
    BY <1>2, <2>1, <2>2 DEF Follows
  <2>4. L[e].real <=> ~IsProxy(T[i])
    BY <1>3, <2>1, <2>2 DEF Told, Rows
  <2> QED
    BY <2>3, <2>4
<1> QED
  BY <1>3 DEF Told

\* What one more entry adds.
LEMMA ImportedAppend ==
  ASSUME NEW L \in Seq(Entry), NEW x \in Entry, NEW p, x.reversed = FALSE
  PROVE  Imported(Append(L, x), p) = Imported(L, p) + IF x.card = p /\ x.real THEN x.qty ELSE 0
<1> DEFINE M == Append(L, x)
           n == Len(L)
           f == [e \in DOMAIN L |->
                   IF L[e].card = p /\ L[e].real /\ ~L[e].reversed THEN L[e].qty ELSE 0]
           g == [e \in DOMAIN M |->
                   IF M[e].card = p /\ M[e].real /\ ~M[e].reversed THEN M[e].qty ELSE 0]
<1>1. /\ n \in Nat /\ Len(M) = n + 1 /\ DOMAIN L = 1 .. n /\ DOMAIN M = 1 .. (n + 1)
      /\ M[n + 1] = x /\ \A e \in 1 .. n : M[e] = L[e]
  BY AppendProperties
<1>2. g[n + 1] = IF x.card = p /\ x.real THEN x.qty ELSE 0
  BY <1>1
<1>3. \A e \in 1 .. n : g[e] = f[e]
  BY <1>1
<1>4. Total(n + 1, g) = Total(n, g) + g[n + 1] /\ Total(n, g) = Total(n, f)
  <2> HIDE DEF f, g, M, n
  <2>1. n + 1 \in Nat \ {0} /\ (n + 1) - 1 = n
    BY <1>1
  <2>2. Total(n + 1, g) = Total((n + 1) - 1, g) + g[n + 1]
    BY <2>1, TotalStep
  <2>3. Total(n, g) = Total(n, f)
    BY <1>1, <1>3, TotalSame
  <2> QED
    BY <2>1, <2>2, <2>3
<1>5. Imported(L, p) = Total(n, f)
  BY DEF Imported
<1>6. Imported(M, p) = Total(n + 1, g)
  BY <1>1 DEF Imported
<1> HIDE DEF f, g, M, n
<1>7. Imported(M, p) = Imported(L, p) + IF x.card = p /\ x.real THEN x.qty ELSE 0
  BY <1>2, <1>4, <1>5, <1>6
<1> QED
  BY <1>7 DEF M

\* A line credited to a row, as what the row is.
LEMMA CreditKeeps ==
  ASSUME StockInv, NEW S, Sound(S), NEW l \in Line, NEW b \in Nat, NEW U \in Tables, NEW i \in Ids,
         U[i] \in Row, Placed(U, deck), Told(U, S.log),
         \A p : Copies(U, p) =
                  Copies(S.table, p) + IF p = l.card /\ U[i].kind = "real" THEN l.qty ELSE 0,
         NEW X, X = Credited(S, U, i, l, b)
  PROVE  /\ Sound(X)
         /\ X.table = U /\ Len(X.log) = Len(S.log) + 1 /\ X.log[Len(S.log) + 1].row = i
         /\ \A e \in 1 .. Len(S.log) : X.log[e] = S.log[e]
<1> DEFINE x == [row |-> i, card |-> l.card, real |-> U[i].kind = "real",
                 qty |-> l.qty, batch |-> b, reversed |-> FALSE]
           L == S.log
<1>1. l.card \in Printings /\ l.qty \in Nat \ {0}
  BY DEF Line
<1>2. /\ x \in Entry /\ x.reversed = FALSE /\ x.row = i /\ x.card = l.card /\ x.qty = l.qty
      /\ x.real = (U[i].kind = "real")
  BY <1>1 DEF Entry
<1>3. S.table \in Tables /\ L \in Seq(Entry) /\ Told(S.table, L)
  BY DEF Sound
<1> HIDE DEF x, L
<1>4. X = [table |-> U, log |-> Append(L, x)]
  BY DEF Credited, x, L
<1>5. X \in [table : Tables, log : Seq(Entry)]
  BY <1>2, <1>3, <1>4, AppendProperties
<1>6. /\ Len(L) \in Nat /\ Len(Append(L, x)) = Len(L) + 1
      /\ DOMAIN L = 1 .. Len(L) /\ DOMAIN Append(L, x) = 1 .. (Len(L) + 1)
      /\ Append(L, x)[Len(L) + 1] = x /\ \A e \in 1 .. Len(L) : Append(L, x)[e] = L[e]
  BY <1>2, <1>3, AppendProperties
<1>7. Told(U, Append(L, x))
  <2>1. ASSUME NEW e \in 1 .. (Len(L) + 1), Append(L, x)[e].row \in Rows(U),
               ~Append(L, x)[e].reversed
        PROVE  Append(L, x)[e].real <=> ~IsProxy(U[Append(L, x)[e].row])
    <3>1. CASE e = Len(L) + 1
      BY <1>2, <1>6, <3>1 DEF IsProxy
    <3>2. CASE e \in 1 .. Len(L)
      BY <1>6, <2>1, <3>2 DEF Told, L
    <3> QED
      BY <1>6, <3>1, <3>2
  <2> QED
    BY <1>6, <2>1 DEF Told
<1>8. ASSUME NEW p \in Printings
      PROVE  Copies(U, p) = owned[p] + Imported(Append(L, x), p)
  <2>1. Copies(S.table, p) = owned[p] + Imported(L, p)
    BY DEF Sound, L
  <2>2. Imported(Append(L, x), p) = Imported(L, p) + IF x.card = p /\ x.real THEN x.qty ELSE 0
    BY <1>2, <1>3, ImportedAppend
  <2>3. owned[p] \in Int /\ Imported(L, p) \in Nat
    BY <1>3, ImportedType DEF StockInv, TypeOK
  <2> QED
    <3>1. U[i].kind = "real" <=> x.real
      BY <1>2
    <3>2. p = l.card <=> x.card = p
      BY <1>2
    <3> QED
      BY <1>1, <1>2, <2>1, <2>2, <2>3, <3>1, <3>2
<1>9. Sound(X)
  BY <1>4, <1>5, <1>7, <1>8 DEF Sound
<1> QED
  BY <1>2, <1>4, <1>6, <1>9 DEF L

\* Persisting a line of an import adds its copies to the table and to one new entry.
LEMMA PersistKeeps ==
  ASSUME StockInv, MaxCopies \in Nat, NEW S, Sound(S), NEW l \in Line, NEW b \in Nat,
         l.to = "deck" => deck = "plain", NEW X \in Persist(S, l, b)
  PROVE  /\ Sound(X) /\ Len(X.log) = Len(S.log) + 1
         /\ \A e \in 1 .. Len(S.log) : X.log[e] = S.log[e]
         /\ X.log[Len(S.log) + 1].row \in Rows(X.table)
         /\ \A i \in Ids : S.table[i] # NoRow => X.table[i] # NoRow
<1> DEFINE r == [card |-> l.card, at |-> l.to, kind |-> l.kind, qty |-> l.qty]
           M == IF l.to = "pending" THEN Creditable(S.table, l) ELSE {}
<1>1. /\ S.table \in Tables /\ S.log \in Seq(Entry) /\ Placed(S.table, deck) /\ Told(S.table, S.log)
  BY DEF Sound
<1>2. /\ r \in Row /\ r.card = l.card /\ r.kind = l.kind /\ r.qty = l.qty /\ r.at = l.to
      /\ l.qty \in Nat \ {0} /\ l.card \in Printings /\ l.kind \in {"real", "proxy"}
  BY DEF Line, Row, Spots, Kinds
<1>3. Fits(r, deck)
  BY <1>2 DEF Fits, DeckSpots, Line
<1>4. \A p : Value(r, p) = IF p = l.card /\ l.kind = "real" THEN l.qty ELSE 0
  BY <1>2, InventoryAssumption DEF Value
<1>5. CASE M = {}
  <2>1. PICK i \in Fresh(InUse(S), S.table) : X = Credited(S, [S.table EXCEPT ![i] = r], i, l, b)
    BY <1>5 DEF Persist
  <2> DEFINE U == [S.table EXCEPT ![i] = r]
  <2>2. i \in Ids /\ i \notin Rows(S.table) /\ i \notin InUse(S)
    BY <2>1 DEF Fresh
  <2>3. /\ U \in Tables /\ U[i] = r /\ \A j \in Ids \ {i} : U[j] = S.table[j]
    BY <1>1, <1>2, <2>2 DEF Tables
  <2> HIDE DEF r, M, U
  <2>4. X = Credited(S, U, i, l, b)
    BY <2>1 DEF U
  <2>5. Placed(U, deck)
    BY <1>1, <1>3, <2>3 DEF Placed
  <2>6. Told(U, S.log)
    <3>1. \A e \in DOMAIN S.log : S.log[e].row # i
      BY <2>2 DEF InUse
    <3> QED
      BY <1>1, <2>3, <3>1 DEF Told, Rows
  <2>7. ASSUME NEW p
        PROVE  Copies(U, p) =
                 Copies(S.table, p) + IF p = l.card /\ U[i].kind = "real" THEN l.qty ELSE 0
    <3>1. Copies(U, p) = Copies(S.table, p) + (Value(U[i], p) - Value(S.table[i], p))
      BY <1>1, <2>2, <2>3, CopiesOne
    <3>2. Value(S.table[i], p) = 0
      BY <2>2 DEF Value, Rows
    <3>3. Value(U[i], p) = IF p = l.card /\ U[i].kind = "real" THEN l.qty ELSE 0
      BY <1>2, <1>4, <2>3
    <3>4. Copies(S.table, p) \in Nat
      BY <1>1, CopiesType
    <3> QED
      BY <1>2, <3>1, <3>2, <3>3, <3>4
  <2>8. /\ Sound(X)
        /\ X.table = U /\ Len(X.log) = Len(S.log) + 1 /\ X.log[Len(S.log) + 1].row = i
        /\ \A e \in 1 .. Len(S.log) : X.log[e] = S.log[e]
    BY <1>2, <2>2, <2>3, <2>4, <2>5, <2>6, <2>7, CreditKeeps
  <2>9. i \in Rows(U) /\ \A j \in Ids : S.table[j] # NoRow => U[j] # NoRow
    BY <1>2, <2>2, <2>3, InventoryAssumption DEF Rows
  <2> QED
    BY <2>8, <2>9
<1>6. CASE M # {}
  <2>1. PICK i \in M : X = Credited(S, [S.table EXCEPT ![i].qty = @ + l.qty], i, l, b)
    BY <1>6 DEF Persist
  <2> DEFINE U == [S.table EXCEPT ![i].qty = @ + l.qty]
             t == S.table[i]
  <2>2. i \in Ids /\ t \in Row /\ t # NoRow /\ t.card = l.card /\ t.qty \in Nat
    BY <1>1, <2>1 DEF Creditable, Rows, Tables, Row
  <2>3. U[i] = [t EXCEPT !.qty = t.qty + l.qty] /\ \A j \in Ids \ {i} : U[j] = S.table[j]
    BY <1>1, <2>2 DEF Tables
  <2>4. Alike(U[i], t) /\ U[i].qty = t.qty + l.qty
    BY <1>2, <2>2, <2>3 DEF Row, Alike
  <2>5. U \in Tables /\ U[i] \in Row
    BY <1>1, <2>3, <2>4 DEF Tables, Alike
  <2> HIDE DEF r, M, U
  <2>6. X = Credited(S, U, i, l, b)
    BY <2>1 DEF U
  <2>7. IsProxy(U[i]) = IsProxy(t) /\ Fits(U[i], deck)
    BY <1>1, <2>2, <2>4, AlikeFits DEF Placed
  <2>8. Placed(U, deck)
    BY <1>1, <2>3, <2>7 DEF Placed
  <2>9. Told(U, S.log)
    BY <1>1, <2>2, <2>3, <2>7 DEF Told, Rows
  <2>10. ASSUME NEW p
         PROVE  Copies(U, p) =
                  Copies(S.table, p) + IF p = l.card /\ U[i].kind = "real" THEN l.qty ELSE 0
    <3>1. Copies(U, p) = Copies(S.table, p) + (Value(U[i], p) - Value(t, p))
      <4>1. \A j \in Ids \ {i} : Value(U[j], p) = Value(S.table[j], p)
        BY <2>3
      <4> HIDE DEF t
      <4>2. Copies(U, p) = Copies(S.table, p) + (Value(U[i], p) - Value(S.table[i], p))
        BY <1>1, <2>2, <2>5, <4>1, CopiesOne
      <4> QED
        BY <4>2 DEF t
    <3>2. Value(U[i], p) = Value(t, p) + IF p = l.card /\ U[i].kind = "real" THEN l.qty ELSE 0
      BY <1>2, <2>2, <2>4, InventoryAssumption DEF Value, Alike
    <3>3. Copies(S.table, p) \in Nat /\ Value(t, p) \in Nat
      BY <1>1, <2>2, CopiesType, ValueType
    <3> QED
      BY <1>2, <3>1, <3>2, <3>3
  <2>11. /\ Sound(X)
         /\ X.table = U /\ Len(X.log) = Len(S.log) + 1 /\ X.log[Len(S.log) + 1].row = i
         /\ \A e \in 1 .. Len(S.log) : X.log[e] = S.log[e]
    BY <2>2, <2>5, <2>6, <2>8, <2>9, <2>10, CreditKeeps
  <2>12. i \in Rows(U) /\ \A j \in Ids : S.table[j] # NoRow => U[j] # NoRow
    BY <2>2, <2>3, <2>5, InventoryAssumption DEF Rows
  <2> QED
    BY <2>11, <2>12
<1> QED
  BY <1>5, <1>6

\* A step of an import on the table alone.
LEMMA TableStepKeeps ==
  ASSUME NEW S, Sound(S), NEW U \in Tables, Placed(U, deck), Told(U, S.log),
         \A p \in Printings : Copies(U, p) = Copies(S.table, p),
         NEW X, X = [S EXCEPT !.table = U]
  PROVE  Sound(X) /\ X.table = U /\ X.log = S.log
<1>1. S \in [table : Tables, log : Seq(Entry)]
  BY DEF Sound
<1>2. X \in [table : Tables, log : Seq(Entry)] /\ X.table = U /\ X.log = S.log
  BY <1>1
<1>3. \A p \in Printings : Copies(X.table, p) = owned[p] + Imported(X.log, p)
  BY <1>2 DEF Sound
<1> QED
  BY <1>2, <1>3 DEF Sound

\* The entries of a row that moved or was merged stay true of the rows they have.
LEMMA MovedRows ==
  ASSUME NEW T \in Tables, NEW i \in Rows(T), NEW at \in Spots, NEW U \in Moves(T, i, at)
  PROVE  \A k \in Ids : /\ U[k] # NoRow => T[k] # NoRow /\ IsProxy(U[k]) = IsProxy(T[k])
                        /\ k # i /\ T[k] # NoRow => U[k] # NoRow
<1>1. i \in Ids /\ T[i] \in Row /\ T[i] # NoRow
  BY DEF Rows, Tables
<1>2. Relocated(T, i, at, U)
  BY MoveEffect
<1>3. CASE U[i] = [T[i] EXCEPT !.at = at] /\ \A k \in Ids \ {i} : U[k] = T[k]
  <2>1. U[i].kind = T[i].kind
    BY <1>1, <1>3 DEF Row
  <2> QED
    BY <1>1, <1>3, <2>1 DEF IsProxy
<1>4. ASSUME NEW j \in Ids \ {i}, U[i] = NoRow, T[j] \in Row, Alike(U[j], T[j]),
             \A k \in Ids \ {i, j} : U[k] = T[k]
      PROVE  \A k \in Ids : /\ U[k] # NoRow => T[k] # NoRow /\ IsProxy(U[k]) = IsProxy(T[k])
                            /\ k # i /\ T[k] # NoRow => U[k] # NoRow
  <2>1. /\ U[j] # NoRow /\ T[j] # NoRow /\ IsProxy(U[j]) = IsProxy(T[j])
    BY <1>4, AlikeFits, InventoryAssumption DEF Alike
  <2> QED
    BY <1>4, <2>1
<1> QED
  BY <1>2, <1>3, <1>4 DEF Relocated

\* A row that is moved fits where it goes: to the box if it was pending, or nowhere.
LEMMA ImportMoveKeeps ==
  ASSUME NEW S, Sound(S), NEW i \in Rows(S.table), NEW at \in Spots,
         at = S.table[i].at \/ (at = "box" /\ S.table[i].at = "pending"),
         NEW U \in Moves(S.table, i, at)
  PROVE  /\ U \in Tables /\ Placed(U, deck) /\ Told(U, S.log)
         /\ \A p \in Printings : Copies(U, p) = Copies(S.table, p)
         /\ \A k \in Ids \ {i} : S.table[k] # NoRow => U[k] # NoRow
<1> DEFINE T == S.table
<1>1. T \in Tables /\ Placed(T, deck) /\ Told(T, S.log) /\ i \in Ids /\ T[i] \in Row /\ T[i] # NoRow
  BY DEF Sound, Rows, Tables
<1>2. Fits([T[i] EXCEPT !.at = at], deck)
  <2>1. [T[i] EXCEPT !.at = at].at = at /\ [T[i] EXCEPT !.at = at].kind = T[i].kind
    BY <1>1 DEF Row
  <2>2. Fits(T[i], deck)
    BY <1>1 DEF Placed
  <2> QED
    BY <1>1, <2>1, <2>2 DEF Fits, DeckSpots
<1>3. \A j \in Ids \ {i} : Fits(T[j], deck)
  BY <1>1 DEF Placed
<1> HIDE DEF T
<1>4. i \in Rows(T) /\ U \in Moves(T, i, at)
  BY DEF T
<1>5. U \in Tables /\ Placed(U, deck) /\ \A p : Copies(U, p) = Copies(T, p)
  BY <1>1, <1>2, <1>3, <1>4, MoveKeeps
<1>6. \A k \in Ids : /\ U[k] # NoRow => T[k] # NoRow /\ IsProxy(U[k]) = IsProxy(T[k])
                     /\ k # i /\ T[k] # NoRow => U[k] # NoRow
  BY <1>1, <1>4, MovedRows
<1>7. Told(U, S.log)
  BY <1>1, <1>6 DEF Told, Rows
<1> QED
  BY <1>5, <1>6, <1>7 DEF T

\* Redirecting entries to the surviving row changes no balance.
LEMMA RedirectedLog ==
  ASSUME NEW L \in Seq(Entry), NEW i, NEW j \in Ids
  PROVE  /\ Redirected(L, i, j) \in Seq(Entry) /\ Len(Redirected(L, i, j)) = Len(L)
         /\ \A p : Imported(Redirected(L, i, j), p) = Imported(L, p)
         /\ \A e \in 1 .. Len(L) :
              /\ Redirected(L, i, j)[e].real = L[e].real
              /\ Redirected(L, i, j)[e].reversed = L[e].reversed
              /\ Redirected(L, i, j)[e].row = IF L[e].row = i /\ ~L[e].reversed THEN j ELSE L[e].row
<1> DEFINE M == Redirected(L, i, j)
<1>1. Len(L) \in Nat /\ DOMAIN L = 1 .. Len(L) /\ \A e \in 1 .. Len(L) : L[e] \in Entry
  OBVIOUS
<1>2. M = [e \in 1 .. Len(L) |->
             IF L[e].row = i /\ ~L[e].reversed THEN [L[e] EXCEPT !.row = j] ELSE L[e]]
  BY <1>1 DEF Redirected
<1>3. ASSUME NEW e \in 1 .. Len(L)
      PROVE  /\ M[e] \in Entry
             /\ M[e].card = L[e].card /\ M[e].real = L[e].real
             /\ M[e].reversed = L[e].reversed /\ M[e].qty = L[e].qty
             /\ M[e].row = IF L[e].row = i /\ ~L[e].reversed THEN j ELSE L[e].row
  <2>1. L[e] \in Entry /\ M[e] = IF L[e].row = i /\ ~L[e].reversed THEN [L[e] EXCEPT !.row = j] ELSE L[e]
    BY <1>1, <1>2
  <2> HIDE DEF M
  <2> QED
    BY <2>1 DEF Entry
<1>4. M \in Seq(Entry) /\ Len(M) = Len(L)
  <2>1. M \in [1 .. Len(L) -> Entry]
    BY <1>2, <1>3
  <2> HIDE DEF M
  <2> QED
    BY <1>1, <2>1, SeqDef, LenProperties
<1> HIDE DEF M
<1>5. \A p : Imported(M, p) = Imported(L, p)
  BY <1>3, <1>4, ImportedSame
<1> QED
  BY <1>3, <1>4, <1>5 DEF M

\* place_imported_rows: the imports of a row that is merged away are those of the
\* row that has its copies.
LEMMA PlaceKeeps ==
  ASSUME StockInv, NEW S, Sound(S), NEW i \in Rows(S.table), NEW at \in Spots,
         at = S.table[i].at \/ (at = "box" /\ S.table[i].at = "pending"),
         NEW X \in Place(S, i, at)
  PROVE  /\ Sound(X)
         /\ \A k \in Ids \ {i} : S.table[k] # NoRow => X.table[k] # NoRow
<1> DEFINE T == S.table
           r == [T[i] EXCEPT !.at = at]
           M == Matches(T, r) \ {i}
<1>1. /\ S \in [table : Tables, log : Seq(Entry)] /\ T \in Tables /\ S.log \in Seq(Entry)
      /\ Told(T, S.log) /\ i \in Ids /\ T[i] \in Row
  BY DEF Sound, Rows, Tables
<1>2. CASE M = {}
  <2> DEFINE U == [T EXCEPT ![i] = r]
  <2>1. X = [S EXCEPT !.table = U]
    BY <1>2 DEF Place
  <2>2. U \in Moves(T, i, at)
    BY <1>2 DEF Moves
  <2> HIDE DEF U, M, r
  <2>3. /\ U \in Tables /\ Placed(U, deck) /\ Told(U, S.log)
        /\ \A p \in Printings : Copies(U, p) = Copies(T, p)
        /\ \A k \in Ids \ {i} : T[k] # NoRow => U[k] # NoRow
    BY <2>2, ImportMoveKeeps
  <2>4. Sound(X) /\ X.table = U
    BY <2>1, <2>3, TableStepKeeps
  <2> QED
    BY <2>3, <2>4
<1>3. CASE M # {}
  <2>1. PICK j \in M :
          X = [table |-> [T EXCEPT ![j].qty = @ + r.qty, ![i] = NoRow],
               log |-> Redirected(S.log, i, j)]
    BY <1>3 DEF Place
  <2> DEFINE U == [T EXCEPT ![j].qty = @ + r.qty, ![i] = NoRow]
             L == Redirected(S.log, i, j)
  <2>2. X = [table |-> U, log |-> L]
    BY <2>1
  <2>3. U \in Moves(T, i, at)
    BY <1>3, <2>1 DEF Moves
  <2>4. j \in Ids /\ j # i /\ T[j] # NoRow /\ IsProxy(T[j]) = IsProxy(r)
    BY <2>1 DEF Matches, Rows, Mergeable
  <2>5. IsProxy(r) = IsProxy(T[i])
    BY <1>1 DEF IsProxy, Row
  <2>6. U[i] = NoRow
    BY <1>1 DEF Tables
  <2> HIDE DEF U, L, M, r
  <2>7. /\ U \in Tables /\ Placed(U, deck) /\ Told(U, S.log)
        /\ \A p \in Printings : Copies(U, p) = Copies(T, p)
        /\ \A k \in Ids \ {i} : T[k] # NoRow => U[k] # NoRow
    BY <2>3, ImportMoveKeeps
  <2>8. /\ L \in Seq(Entry) /\ Len(L) = Len(S.log)
        /\ \A p : Imported(L, p) = Imported(S.log, p)
        /\ \A e \in 1 .. Len(S.log) :
             /\ L[e].real = S.log[e].real
             /\ L[e].reversed = S.log[e].reversed
             /\ L[e].row = IF S.log[e].row = i /\ ~S.log[e].reversed THEN j ELSE S.log[e].row
    BY <1>1, <2>4, RedirectedLog DEF L
  <2>9. U[j] # NoRow /\ IsProxy(U[j]) = IsProxy(T[i])
    <3>1. U[j] # NoRow => IsProxy(U[j]) = IsProxy(T[j])
      BY <1>1, <2>3, <2>4, MovedRows
    <3> QED
      BY <2>4, <2>5, <2>7, <3>1
  <2>10. Told(U, L)
    <3>1. DOMAIN L = 1 .. Len(S.log) /\ DOMAIN S.log = 1 .. Len(S.log)
      BY <1>1, <2>8
    <3>2. ASSUME NEW e \in 1 .. Len(S.log), L[e].row \in Rows(U), ~L[e].reversed
          PROVE  L[e].real <=> ~IsProxy(U[L[e].row])
      <4>1. CASE S.log[e].row = i
        <5>1. L[e].row = j /\ ~S.log[e].reversed /\ S.log[e].row \in Rows(T)
          BY <2>8, <3>2, <4>1
        <5>2. S.log[e].real <=> ~IsProxy(T[i])
          BY <1>1, <3>1, <4>1, <5>1 DEF Told
        <5> QED
          BY <2>8, <2>9, <5>1, <5>2
      <4>2. CASE S.log[e].row # i
        BY <2>7, <2>8, <3>1, <3>2, <4>2 DEF Told
      <4> QED
        BY <4>1, <4>2
    <3> QED
      BY <3>1, <3>2 DEF Told
  <2>11. \A p \in Printings : Copies(U, p) = owned[p] + Imported(L, p)
    BY <2>7, <2>8 DEF Sound
  <2>12. Sound(X) /\ X.table = U
    BY <2>2, <2>7, <2>8, <2>10, <2>11 DEF Sound
  <2> QED
    BY <2>7, <2>12
<1> QED
  BY <1>2, <1>3

\* route_intake_to_bulk, for a pending row.
LEMMA RouteKeeps ==
  ASSUME StockInv, NEW S, Sound(S), NEW i \in Rows(S.table), S.table[i].at = "pending",
         NEW X \in Route(S, i)
  PROVE  /\ Sound(X)
         /\ \A k \in Ids \ {i} : S.table[k] # NoRow => X.table[k] # NoRow
<1> DEFINE T == S.table
           B == InUse(S)
<1>1. /\ S \in [table : Tables, log : Seq(Entry)] /\ T \in Tables /\ S.log \in Seq(Entry)
      /\ Told(T, S.log) /\ Placed(T, deck)
  BY DEF Sound
<1>2. PICK U : X = [S EXCEPT !.table = U]
               /\ (U = T \/ U \in Moves(T, i, "box") \/ (T[i].qty > 1 /\ U \in Surplus(B, T, i)))
  BY DEF Route
<1> HIDE DEF B
<1>3. /\ U \in Tables /\ Placed(U, deck) /\ Told(U, S.log)
      /\ \A p \in Printings : Copies(U, p) = Copies(T, p)
      /\ \A k \in Ids \ {i} : T[k] # NoRow => U[k] # NoRow
  <2>1. CASE U = T
    BY <1>1, <2>1
  <2>2. CASE U \in Moves(T, i, "box")
    <3>1. "box" \in Spots
      BY DEF Spots
    <3> QED
      BY <2>2, <3>1, ImportMoveKeeps
  <2>3. CASE T[i].qty > 1 /\ U \in Surplus(B, T, i)
    <3>1. T[i].at \notin DeckSpots /\ i \in Rows(T)
      BY DEF DeckSpots
    <3> HIDE DEF T
    <3>2. /\ U \in Tables /\ Placed(U, deck)
          /\ \A R : Rows(R) \subseteq B /\ Follows(R, T) => Follows(R, U)
          /\ \A j \in Ids : U[j] # NoRow => T[j] # NoRow \/ j \notin B
          /\ \A j \in Ids \ {i} : T[j] # NoRow => U[j] # NoRow
          /\ \A p \in Printings : Copies(U, p) = Copies(T, p)
      BY <1>1, <2>3, <3>1, SurplusKeeps
    <3>3. \A e \in DOMAIN S.log : S.log[e].row \in B
      BY DEF B, InUse
    <3>4. Told(U, S.log)
      BY <1>1, <3>2, <3>3, ToldKeeps
    <3> QED
      BY <3>2, <3>4
  <2> QED
    BY <1>2, <2>1, <2>2, <2>3
<1>4. Sound(X) /\ X.table = U
  BY <1>2, <1>3, TableStepKeeps
<1> QED
  BY <1>3, <1>4

\* Placing an imported row, merged or not, keeps the import in progress sound.
LEMMA SettleKeeps ==
  ASSUME StockInv, NEW S, Sound(S), NEW i \in Rows(S.table),
         NEW dest \in {"pending", "box", "sorter"}, NEW X \in Settle(S, i, dest)
  PROVE  /\ Sound(X)
         /\ \A k \in Ids \ {i} : S.table[k] # NoRow => X.table[k] # NoRow
<1>1. S.table[i] \in Row /\ S.table[i].at \in Spots /\ "box" \in Spots
  BY DEF Sound, Rows, Tables, Row, Spots
<1>2. CASE S.table[i].at # "pending"
  <2>1. X \in Place(S, i, S.table[i].at)
    BY <1>2 DEF Settle
  <2> QED
    BY <1>1, <2>1, PlaceKeeps
<1>3. CASE S.table[i].at = "pending" /\ dest = "pending"
  <2>1. X = S
    BY <1>3 DEF Settle
  <2> QED
    BY <2>1
<1>4. CASE S.table[i].at = "pending" /\ dest = "box"
  <2>1. X \in Place(S, i, "box")
    BY <1>4 DEF Settle
  <2> QED
    BY <1>1, <1>4, <2>1, PlaceKeeps
<1>5. CASE S.table[i].at = "pending" /\ dest = "sorter"
  <2>1. X \in Route(S, i)
    BY <1>5 DEF Settle
  <2> QED
    BY <1>5, <2>1, RouteKeeps
<1> QED
  BY <1>2, <1>3, <1>4, <1>5

\* And so does placing all of them, one after the other.
LEMMA SettledKeeps ==
  ASSUME StockInv, NEW S, Sound(S), NEW I, \A i \in I : i \in Rows(S.table),
         NEW dest \in {"pending", "box", "sorter"}, NEW X \in Settled(S, I, dest)
  PROVE  Sound(X)
<1>1. PICK i \in I : \E T \in Settle(S, i, dest) :
        X \in IF I = {i} THEN {T} ELSE UNION {Settle(T, j, dest) : j \in I \ {i}}
  BY DEF Settled
<1>2. PICK T \in Settle(S, i, dest) :
        X \in IF I = {i} THEN {T} ELSE UNION {Settle(T, j, dest) : j \in I \ {i}}
  BY <1>1
<1>3. Sound(T) /\ \A k \in Ids \ {i} : S.table[k] # NoRow => T.table[k] # NoRow
  BY <1>2, SettleKeeps
<1>4. X = T \/ \E j \in I \ {i} : X \in Settle(T, j, dest)
  BY <1>2
<1>5. ASSUME NEW j \in I \ {i}, X \in Settle(T, j, dest)
      PROVE  Sound(X)
  <2>1. j \in Rows(T.table)
    BY <1>3 DEF Rows
  <2> QED
    BY <1>3, <1>5, <2>1, SettleKeeps
<1> QED
  BY <1>3, <1>4, <1>5

\* An import that begins is sound when the collection is.
LEMMA BegunSound == StockInv => Sound(Begun)
<1> SUFFICES ASSUME StockInv PROVE Sound(Begun)
  OBVIOUS
<1>1. Begun = [table |-> rows, log |-> log]
  BY DEF Begun
<1>2. Begun \in [table : Tables, log : Seq(Entry)] /\ Begun.table = rows /\ Begun.log = log
  BY <1>1 DEF StockInv, TypeOK
<1> QED
  BY <1>2 DEF Sound, StockInv, Conserved, LogIsSound

\* The end of an import: the sorter, if the file was sent to it, and the commit.
LEMMA ImportEnds ==
  ASSUME StockInv, NEW S, Sound(S), NEW dest,
         NEW U \in IF dest = "sorter" THEN Resorts(S.table) ELSE {S.table},
         Commit(U, S.log), UNCHANGED <<deck, owned>>
  PROVE  StockInv'
<1> DEFINE T == S.table
           L == S.log
<1>1. /\ T \in Tables /\ L \in Seq(Entry) /\ Placed(T, deck) /\ Told(T, L)
      /\ \A p \in Printings : Copies(T, p) = owned[p] + Imported(L, p)
  BY DEF Sound
<1>2. U = T \/ U \in Resorts(T)
  OBVIOUS
<1>3. Commit(U, L)
  OBVIOUS
<1>4. /\ deck \in {"none", "plain", "brew"} /\ deck' = deck
      /\ owned \in [Printings -> Int] /\ owned' = owned
  BY DEF StockInv, TypeOK
<1> HIDE DEF T, L
<1>5. /\ U \in Tables /\ Placed(U, deck) /\ Told(U, L)
      /\ \A p \in Printings : Copies(U, p) = Copies(T, p)
  <2>1. CASE U = T
    BY <1>1, <2>1
  <2>2. CASE U \in Resorts(T)
    <3>1. /\ U \in Tables /\ Placed(U, deck) /\ Follows(T, U)
          /\ \A i \in Ids : U[i] # NoRow => T[i] # NoRow
          /\ \A p : Copies(U, p) = Copies(T, p)
      BY <1>1, <2>2, ResortKeeps, FollowsItself
    <3>2. Told(U, L)
      BY <1>1, <3>1 DEF Told, Rows, Follows
    <3> QED
      BY <3>1, <3>2
  <2> QED
    BY <1>2, <2>1, <2>2
<1> QED
  BY <1>1, <1>3, <1>4, <1>5, CommitKeeps

\* One line and two.
LEMMA ImportKeeps ==
  ASSUME StockInv, MaxCopies \in Nat, NEW l \in Line, NEW m \in Line,
         NEW dest \in {"pending", "box", "sorter"},
         Import(<<l>>, dest) \/ Import(<<l, m>>, dest)
  PROVE  StockInv'
<1> DEFINE n == Len(log)
           b == IF n = 0 THEN 1 ELSE log[n].batch + 1
<1>1. log \in Seq(Entry) /\ n \in Nat /\ b \in Nat
  <2>1. log \in Seq(Entry) /\ n \in Nat /\ (n # 0 => log[n] \in Entry)
    BY DEF StockInv, TypeOK
  <2> QED
    BY <2>1 DEF Entry
<1>2. Sound(Begun) /\ Begun.log = log
  BY BegunSound DEF Begun
<1>3. UNCHANGED <<deck, owned>>
  BY DEF Import
<1>4. CASE Import(<<l>>, dest)
  <2> DEFINE lines == <<l>>
  <2>1. /\ Len(lines) = 1 /\ lines[1] = l /\ DOMAIN lines = {1}
    OBVIOUS
  <2>2. l.to = "deck" => deck = "plain"
    BY <1>4, <2>1 DEF Import
  <2> HIDE DEF lines
  <2>3. PICK S1 \in Persist(Begun, l, b) :
          \E S2 \in IF Len(lines) = 1 THEN {S1} ELSE Persist(S1, lines[2], b) :
          \E S3 \in Settled(S2, {S2.log[e].row : e \in (n + 1) .. (n + Len(lines))}, dest) :
          \E U \in IF dest = "sorter" THEN Resorts(S3.table) ELSE {S3.table} :
            Commit(U, S3.log)
    BY <1>4, <2>1 DEF Import, lines
  <2>4. \E S3 \in Settled(S1, {S1.log[e].row : e \in (n + 1) .. (n + 1)}, dest) :
        \E U \in IF dest = "sorter" THEN Resorts(S3.table) ELSE {S3.table} :
          Commit(U, S3.log)
    BY <2>1, <2>3
  <2> DEFINE I == {S1.log[e].row : e \in (n + 1) .. (n + 1)}
  <2>5. PICK S3 \in Settled(S1, I, dest) :
          \E U \in IF dest = "sorter" THEN Resorts(S3.table) ELSE {S3.table} :
            Commit(U, S3.log)
    BY <2>4
  <2> HIDE DEF n, b
  <2>6. Sound(S1) /\ S1.log[n + 1].row \in Rows(S1.table)
    <3>1. Sound(S1) /\ S1.log[Len(Begun.log) + 1].row \in Rows(S1.table)
      BY <1>1, <1>2, <2>2, <2>3, PersistKeeps
    <3> QED
      BY <1>2, <3>1 DEF n
  <2>7. \A i \in I : i \in Rows(S1.table)
    BY <1>1, <2>6
  <2> HIDE DEF I
  <2>8. Sound(S3)
    BY <2>5, <2>6, <2>7, SettledKeeps
  <2> QED
    BY <1>3, <2>5, <2>8, ImportEnds
<1>5. CASE Import(<<l, m>>, dest)
  <2> DEFINE lines == <<l, m>>
  <2>1. /\ Len(lines) = 2 /\ lines[1] = l /\ lines[2] = m /\ DOMAIN lines = 1 .. 2
    OBVIOUS
  <2>2. (l.to = "deck" => deck = "plain") /\ (m.to = "deck" => deck = "plain")
    <3>1. \A k \in DOMAIN lines : lines[k].to = "deck" => deck = "plain"
      BY <1>5 DEF Import
    <3>2. 1 \in DOMAIN lines /\ 2 \in DOMAIN lines
      BY <2>1
    <3> HIDE DEF lines
    <3> QED
      BY <2>1, <3>1, <3>2
  <2> HIDE DEF lines
  <2>3. PICK S1 \in Persist(Begun, l, b) :
          \E S2 \in IF Len(lines) = 1 THEN {S1} ELSE Persist(S1, lines[2], b) :
          \E S3 \in Settled(S2, {S2.log[e].row : e \in (n + 1) .. (n + Len(lines))}, dest) :
          \E U \in IF dest = "sorter" THEN Resorts(S3.table) ELSE {S3.table} :
            Commit(U, S3.log)
    BY <1>5, <2>1 DEF Import, lines
  <2>4. PICK S2 \in Persist(S1, m, b) :
          \E S3 \in Settled(S2, {S2.log[e].row : e \in (n + 1) .. (n + 2)}, dest) :
          \E U \in IF dest = "sorter" THEN Resorts(S3.table) ELSE {S3.table} :
            Commit(U, S3.log)
    <3> HIDE DEF b
    <3>1. PICK S2 \in Persist(S1, m, b) :
            \E S3 \in Settled(S2, {S2.log[e].row : e \in (n + 1) .. (n + Len(lines))}, dest) :
            \E U \in IF dest = "sorter" THEN Resorts(S3.table) ELSE {S3.table} :
              Commit(U, S3.log)
      <4>1. (IF Len(lines) = 1 THEN {S1} ELSE Persist(S1, lines[2], b)) = Persist(S1, m, b)
        BY <2>1
      <4> HIDE DEF n
      <4> QED
        BY <2>3, <4>1
    <3>2. n + Len(lines) = n + 2
      BY <2>1
    <3> HIDE DEF n
    <3> QED
      BY <3>1, <3>2
  <2> DEFINE I == {S2.log[e].row : e \in (n + 1) .. (n + 2)}
  <2>5. PICK S3 \in Settled(S2, I, dest) :
          \E U \in IF dest = "sorter" THEN Resorts(S3.table) ELSE {S3.table} :
            Commit(U, S3.log)
    BY <2>4
  <2> HIDE DEF n, b
  <2>6. Sound(S1) /\ Len(S1.log) = n + 1 /\ S1.log[n + 1].row \in Rows(S1.table)
    <3>1. /\ Sound(S1) /\ Len(S1.log) = Len(Begun.log) + 1
          /\ S1.log[Len(Begun.log) + 1].row \in Rows(S1.table)
      BY <1>1, <1>2, <2>2, <2>3, PersistKeeps
    <3> QED
      BY <1>2, <3>1 DEF n
  <2>7. /\ Sound(S2)
        /\ \A e \in 1 .. Len(S1.log) : S2.log[e] = S1.log[e]
        /\ S2.log[Len(S1.log) + 1].row \in Rows(S2.table)
        /\ \A i \in Ids : S1.table[i] # NoRow => S2.table[i] # NoRow
    BY <1>1, <2>2, <2>4, <2>6, PersistKeeps
  <2>8. S2.log[n + 1].row \in Rows(S2.table) /\ S2.log[n + 2].row \in Rows(S2.table)
    <3>1. n + 1 \in 1 .. Len(S1.log) /\ Len(S1.log) + 1 = n + 2
      BY <1>1, <2>6
    <3>2. S2.log[n + 1] = S1.log[n + 1]
      BY <2>7, <3>1
    <3> QED
      BY <2>6, <2>7, <3>1, <3>2 DEF Rows
  <2>9. \A i \in I : i \in Rows(S2.table)
    <3>1. \A e \in (n + 1) .. (n + 2) : e = n + 1 \/ e = n + 2
      BY <1>1
    <3> QED
      BY <2>8, <3>1
  <2> HIDE DEF I
  <2>10. Sound(S3)
    BY <2>5, <2>7, <2>9, SettledKeeps
  <2> QED
    BY <1>3, <2>5, <2>10, ImportEnds
<1> QED
  BY <1>4, <1>5

----------------------------------------------------------------------------
(* Undoing *)

\* An entry of the log.
LEMMA EntryOf ==
  ASSUME StockInv
  PROVE  /\ log \in Seq(Entry) /\ Len(log) \in Nat /\ DOMAIN log = 1 .. Len(log)
         /\ \A e \in 1 .. Len(log) : log[e] \in Entry /\ log[e].qty \in Nat
<1>1. log \in Seq(Entry) /\ Len(log) \in Nat /\ DOMAIN log = 1 .. Len(log)
  BY DEF StockInv, TypeOK
<1>2. \A e \in 1 .. Len(log) : log[e] \in Entry
  BY <1>1
<1>3. \A x \in Entry : x.qty \in Nat
  BY DEF Entry
<1> QED
  BY <1>1, <1>2, <1>3

\* Only a row that some entry refers to has to give copies back.
LEMMA RequiredIs ==
  ASSUME StockInv, NEW E \in SUBSET DOMAIN log, NEW i
  PROVE  /\ Required(E, i) \in Nat
         /\ (\A e \in E : log[e].row # i) => Required(E, i) = 0
<1> DEFINE f == [e \in DOMAIN log |-> IF e \in E /\ log[e].row = i THEN log[e].qty ELSE 0]
<1>1. /\ Len(log) \in Nat /\ DOMAIN log = 1 .. Len(log)
      /\ \A e \in 1 .. Len(log) : log[e] \in Entry
  BY DEF StockInv, TypeOK
<1>2. \A e \in 1 .. Len(log) : f[e] \in Nat
  BY <1>1 DEF Entry
<1>3. (\A e \in E : log[e].row # i) => \A e \in 1 .. Len(log) : f[e] = 0
  BY <1>1
<1>4. Required(E, i) = Total(Len(log), f)
  BY DEF Required
<1> HIDE DEF f
<1> QED
  BY <1>1, <1>2, <1>3, <1>4, TotalType, TotalOfNone

\* The entries of E, which are undone: their rows are there, and are what they say.
Undoable(E) ==
  /\ E \in SUBSET DOMAIN log
  /\ \A e \in E : /\ ~log[e].reversed
                  /\ log[e].row \in Rows(rows)
                  /\ rows[log[e].row].card = log[e].card

\* Row by row or entry by entry, as many real copies of a printing are given back.
LEMMA RequiredInAll ==
  ASSUME StockInv, NEW E, Undoable(E), NEW p \in Printings
  PROVE  Total(MaxRows, [i \in Ids |-> IF i \in RealRows(rows, p) THEN Required(E, i) ELSE 0])
           = Total(Len(log), [e \in DOMAIN log |->
                                IF e \in E /\ log[e].card = p /\ log[e].real THEN log[e].qty ELSE 0])
<1> DEFINE n == MaxRows
           m == Len(log)
           a == [i \in 1 .. n |-> [e \in 1 .. m |->
                   IF i \in RealRows(rows, p) /\ e \in E /\ log[e].row = i THEN log[e].qty ELSE 0]]
           f == [i \in Ids |-> IF i \in RealRows(rows, p) THEN Required(E, i) ELSE 0]
           g == [e \in DOMAIN log |->
                   IF e \in E /\ log[e].card = p /\ log[e].real THEN log[e].qty ELSE 0]
           F == [i \in 1 .. n |-> Total(m, a[i])]
           G == [e \in 1 .. m |-> Total(n, [i \in 1 .. n |-> a[i][e]])]
<1>1. /\ n \in Nat /\ Ids = 1 .. n /\ m \in Nat /\ DOMAIN log = 1 .. m
      /\ \A e \in 1 .. m : log[e] \in Entry /\ log[e].qty \in Nat
  BY EntryOf, InventoryAssumption DEF Ids
<1>2. \A i \in 1 .. n, e \in 1 .. m :
        a[i][e] = IF i \in RealRows(rows, p) /\ e \in E /\ log[e].row = i THEN log[e].qty ELSE 0
  OBVIOUS
<1>3. \A i \in 1 .. n, e \in 1 .. m : a[i][e] \in Int
  BY <1>1, <1>2
<1>4. ASSUME NEW i \in 1 .. n
      PROVE  f[i] = F[i]
  <2> DEFINE r == [e \in DOMAIN log |-> IF e \in E /\ log[e].row = i THEN log[e].qty ELSE 0]
  <2>1. F[i] = Total(m, a[i])
    OBVIOUS
  <2>2. Required(E, i) = Total(m, r)
    BY DEF Required
  <2>3. f[i] = IF i \in RealRows(rows, p) THEN Required(E, i) ELSE 0
    BY <1>1
  <2>4. \A e \in 1 .. m : r[e] = IF e \in E /\ log[e].row = i THEN log[e].qty ELSE 0
    BY <1>1
  <2> HIDE DEF r, a, f, F, n, m
  <2>5. CASE i \in RealRows(rows, p)
    <3>1. \A e \in 1 .. m : a[i][e] = r[e]
      BY <1>2, <2>4, <2>5
    <3>2. Total(m, a[i]) = Total(m, r)
      BY <1>1, <3>1, TotalSame
    <3> QED
      BY <2>1, <2>2, <2>3, <2>5, <3>2
  <2>6. CASE i \notin RealRows(rows, p)
    <3>1. \A e \in 1 .. m : a[i][e] = 0
      BY <1>2, <2>6
    <3>2. Total(m, a[i]) = 0
      BY <1>1, <3>1, TotalOfNone
    <3> QED
      BY <2>1, <2>3, <2>6, <3>2
  <2> QED
    BY <2>5, <2>6
<1>5. ASSUME NEW e \in 1 .. m
      PROVE  g[e] = G[e]
  <2> DEFINE c == [i \in 1 .. n |-> a[i][e]]
             x == log[e].row
  <2>1. G[e] = Total(n, c)
    OBVIOUS
  <2>2. g[e] = IF e \in E /\ log[e].card = p /\ log[e].real THEN log[e].qty ELSE 0
    BY <1>1
  <2>3. \A i \in 1 .. n :
          c[i] = IF i \in RealRows(rows, p) /\ e \in E /\ x = i THEN log[e].qty ELSE 0
    BY <1>2
  <2>4. e \in E => /\ x \in 1 .. n
                   /\ (log[e].card = p /\ log[e].real) <=> x \in RealRows(rows, p)
    <3> SUFFICES ASSUME e \in E
                 PROVE  /\ x \in 1 .. n
                        /\ (log[e].card = p /\ log[e].real) <=> x \in RealRows(rows, p)
      OBVIOUS
    <3>1. x \in Rows(rows) /\ ~log[e].reversed /\ rows[x].card = log[e].card
      BY DEF Undoable
    <3>2. log[e].real <=> ~IsProxy(rows[x])
      BY <1>1, <3>1 DEF StockInv, LogIsSound, Told
    <3>3. log[e].real <=> rows[x].kind = "real"
      BY <3>2 DEF IsProxy
    <3> QED
      BY <1>1, <3>1, <3>3 DEF RealRows, Rows
  <2> HIDE DEF c, a, g, G, n, m
  <2>5. CASE e \in E /\ log[e].card = p /\ log[e].real
    <3>1. \A i \in 1 .. n : c[i] = IF i = x THEN log[e].qty ELSE 0
      BY <2>3, <2>4, <2>5
    <3>2. x \in 1 .. n /\ log[e].qty \in Int
      BY <1>1, <2>4, <2>5
    <3> HIDE DEF x
    <3>3. Total(n, c) = log[e].qty
      BY <1>1, <3>1, <3>2, TotalOfOne
    <3> QED
      BY <2>1, <2>2, <2>5, <3>3
  <2>6. CASE ~(e \in E /\ log[e].card = p /\ log[e].real)
    <3>1. \A i \in 1 .. n : c[i] = 0
      BY <2>3, <2>4, <2>6
    <3>2. Total(n, c) = 0
      BY <1>1, <3>1, TotalOfNone
    <3> QED
      BY <2>1, <2>2, <2>6, <3>2
  <2> QED
    BY <2>5, <2>6
<1>6. Total(n, F) = Total(m, G)
  <2> HIDE DEF a, n, m
  <2> QED
    BY <1>1, <1>3, TotalOfTotals
<1> HIDE DEF f, F, g, G, a, n, m
<1>7. Total(n, f) = Total(n, F) /\ Total(m, g) = Total(m, G)
  BY <1>1, <1>4, <1>5, TotalSame
<1>8. Total(n, f) = Total(m, g)
  BY <1>6, <1>7
<1> QED
  BY <1>8 DEF f, g, n, m

\* The log with the entries of E reversed.
Reversed(E) == [e \in DOMAIN log |-> IF e \in E THEN [log[e] EXCEPT !.reversed = TRUE] ELSE log[e]]

\* Reversing entries changes nothing but whether they count.
LEMMA ReversedLog ==
  ASSUME StockInv, NEW E \in SUBSET DOMAIN log, NEW L, L = Reversed(E)
  PROVE  /\ L \in Seq(Entry) /\ Len(L) = Len(log)
         /\ \A e \in 1 .. Len(log) :
              /\ L[e].card = log[e].card /\ L[e].real = log[e].real
              /\ L[e].qty = log[e].qty /\ L[e].row = log[e].row
              /\ L[e].reversed <=> log[e].reversed \/ e \in E
<1>1. /\ Len(log) \in Nat /\ DOMAIN log = 1 .. Len(log)
      /\ \A e \in 1 .. Len(log) : log[e] \in Entry
  BY DEF StockInv, TypeOK
<1>2. L = [e \in 1 .. Len(log) |-> IF e \in E THEN [log[e] EXCEPT !.reversed = TRUE] ELSE log[e]]
  BY <1>1 DEF Reversed
<1>3. ASSUME NEW e \in 1 .. Len(log)
      PROVE  /\ L[e] \in Entry
             /\ L[e].card = log[e].card /\ L[e].real = log[e].real
             /\ L[e].qty = log[e].qty /\ L[e].row = log[e].row
             /\ L[e].reversed <=> log[e].reversed \/ e \in E
  <2>1. log[e] \in Entry
    BY <1>1
  <2>2. CASE e \in E
    <3>1. L[e] = [log[e] EXCEPT !.reversed = TRUE]
      BY <1>2, <2>2
    <3> QED
      BY <2>1, <2>2, <3>1 DEF Entry
  <2>3. CASE e \notin E
    BY <1>2, <2>1, <2>3
  <2> QED
    BY <2>2, <2>3
<1>4. L \in Seq(Entry) /\ Len(L) = Len(log)
  <2>1. L \in [1 .. Len(log) -> Entry]
    BY <1>2, <1>3
  <2> QED
    BY <1>1, <2>1, SeqDef, LenProperties
<1> QED
  BY <1>3, <1>4

\* What is reversed no longer counts.
LEMMA ImportedReversed ==
  ASSUME StockInv, NEW E, Undoable(E), NEW p
  PROVE  Imported(log, p) = Imported(Reversed(E), p)
           + Total(Len(log), [e \in DOMAIN log |->
                                IF e \in E /\ log[e].card = p /\ log[e].real THEN log[e].qty ELSE 0])
<1> DEFINE n == Len(log)
           L == Reversed(E)
           f == [e \in DOMAIN log |->
                   IF log[e].card = p /\ log[e].real /\ ~log[e].reversed THEN log[e].qty ELSE 0]
           h == [e \in DOMAIN L |->
                   IF L[e].card = p /\ L[e].real /\ ~L[e].reversed THEN L[e].qty ELSE 0]
           g == [e \in DOMAIN log |->
                   IF e \in E /\ log[e].card = p /\ log[e].real THEN log[e].qty ELSE 0]
<1>1. /\ n \in Nat /\ DOMAIN log = 1 .. n
      /\ \A e \in 1 .. n : log[e] \in Entry /\ log[e].qty \in Nat
  BY EntryOf
<1>2. /\ L \in Seq(Entry) /\ Len(L) = n
      /\ \A e \in 1 .. n :
           /\ L[e].card = log[e].card /\ L[e].real = log[e].real /\ L[e].qty = log[e].qty
           /\ L[e].reversed <=> log[e].reversed \/ e \in E
  BY ReversedLog DEF Undoable
<1>3. DOMAIN L = 1 .. n
  <2> HIDE DEF L, n
  <2> QED
    BY <1>2
<1> HIDE DEF L
<1>4. ASSUME NEW e \in 1 .. n
      PROVE  f[e] = h[e] + g[e] /\ h[e] \in Int /\ g[e] \in Int
  <2>1. e \in E => ~log[e].reversed
    BY DEF Undoable
  <2>2. /\ f[e] = IF log[e].card = p /\ log[e].real /\ ~log[e].reversed THEN log[e].qty ELSE 0
        /\ h[e] = IF L[e].card = p /\ L[e].real /\ ~L[e].reversed THEN L[e].qty ELSE 0
        /\ g[e] = IF e \in E /\ log[e].card = p /\ log[e].real THEN log[e].qty ELSE 0
    BY <1>1, <1>3
  <2>3. h[e] = IF log[e].card = p /\ log[e].real /\ ~(log[e].reversed \/ e \in E)
               THEN log[e].qty ELSE 0
    BY <1>2, <2>2
  <2> HIDE DEF f, g, h, n
  <2>4. log[e].qty \in Nat
    BY <1>1
  <2> QED
    BY <2>1, <2>2, <2>3, <2>4
<1>5. Total(n, f) = Total(n, h) + Total(n, g)
  <2> HIDE DEF f, g, h, n
  <2> QED
    BY <1>1, <1>4, TotalAdds
<1>6. Imported(log, p) = Total(n, f) /\ Imported(L, p) = Total(n, h)
  BY <1>2 DEF Imported
<1> HIDE DEF f, h, n, g
<1>7. Imported(log, p) = Imported(L, p) + Total(n, g)
  BY <1>5, <1>6
<1> QED
  BY <1>7 DEF L, n, g

\* The invariant survives _undo_import_logs.
LEMMA UndoKeeps ==
  ASSUME StockInv, NEW E \in SUBSET DOMAIN log, \A e \in E : ~log[e].reversed, Undo(E)
  PROVE  StockInv'
<1> DEFINE take == [i \in Ids |-> Required(E, i)]
           U == Drained(rows, take)
           L == Reversed(E)
<1>1. /\ Undoable(E) /\ AllPresent(E) /\ Commit(U, L) /\ UNCHANGED <<deck, owned>>
  BY DEF Undo, Undoable, Reversed
<1>2. /\ rows \in Tables /\ Placed(rows, deck) /\ deck \in {"none", "plain", "brew"}
      /\ owned \in [Printings -> Int] /\ log \in Seq(Entry)
  BY DEF StockInv, TypeOK
<1>3. Takeable(rows, take)
  <2>1. ASSUME NEW i \in Ids
        PROVE  take[i] \in Nat /\ (take[i] # 0 => rows[i] \in Row /\ take[i] <= rows[i].qty)
    <3>1. take[i] = Required(E, i)
      OBVIOUS
    <3>2. Required(E, i) \in Nat /\ (Required(E, i) # 0 => \E e \in E : log[e].row = i)
      BY RequiredIs
    <3>3. \A e \in E : log[e].row = i => i \in Rows(rows) /\ Required(E, i) <= rows[i].qty
      BY <1>1 DEF Undoable, AllPresent
    <3>4. i \in Rows(rows) => rows[i] \in Row
      BY <1>2 DEF Rows, Tables
    <3> QED
      BY <3>1, <3>2, <3>3, <3>4
  <2> QED
    BY <2>1 DEF Takeable
<1>4. /\ U \in Tables /\ Placed(U, deck) /\ Follows(rows, U)
      /\ \A i \in Ids : U[i] # NoRow => rows[i] # NoRow
  <2> HIDE DEF take
  <2> QED
    BY <1>2, <1>3, DrainKeeps, FollowsItself
<1>5. /\ L \in Seq(Entry) /\ Len(L) = Len(log)
      /\ \A e \in 1 .. Len(log) :
           /\ L[e].real = log[e].real /\ L[e].row = log[e].row
           /\ L[e].reversed <=> log[e].reversed \/ e \in E
  BY ReversedLog
<1>6. ASSUME NEW p \in Printings
      PROVE  Copies(U, p) = owned[p] + Imported(L, p)
  <2> DEFINE t == [i \in Ids |-> IF i \in RealRows(rows, p) THEN take[i] ELSE 0]
             s == [i \in Ids |-> IF i \in RealRows(rows, p) THEN Required(E, i) ELSE 0]
             g == [e \in DOMAIN log |->
                     IF e \in E /\ log[e].card = p /\ log[e].real THEN log[e].qty ELSE 0]
  <2>1. Copies(U, p) = Copies(rows, p) - Total(MaxRows, t)
    <3> HIDE DEF take
    <3> QED
      BY <1>2, <1>3, DrainedCopies
  <2>2. t = s
    OBVIOUS
  <2>3. Total(MaxRows, s) = Total(Len(log), g)
    BY <1>1, RequiredInAll
  <2>4. Imported(log, p) = Imported(L, p) + Total(Len(log), g)
    BY <1>1, ImportedReversed
  <2>5. Copies(rows, p) = owned[p] + Imported(log, p)
    BY DEF StockInv, Conserved
  <2> HIDE DEF U, L, t, s, g
  <2>6. owned[p] \in Int /\ Imported(L, p) \in Nat /\ Imported(log, p) \in Nat /\ Copies(U, p) \in Nat
    BY <1>2, <1>4, <1>5, ImportedType, CopiesType
  <2>7. Total(Len(log), g) \in Int
    <3>1. Total(Len(log), g) \in Nat
      <4>1. Len(log) \in Nat /\ \A e \in 1 .. Len(log) : g[e] \in Nat
        BY EntryOf DEF g
      <4> QED
        BY <4>1, TotalType
    <3> QED
      BY <3>1
  <2> QED
    BY <2>1, <2>2, <2>3, <2>4, <2>5, <2>6, <2>7
<1> HIDE DEF U, L, take
<1>7. Told(U, L)
  <2>1. DOMAIN L = 1 .. Len(log) /\ DOMAIN log = 1 .. Len(log)
    BY <1>2, <1>5
  <2>2. ASSUME NEW e \in 1 .. Len(log), L[e].row \in Rows(U), ~L[e].reversed
        PROVE  L[e].real <=> ~IsProxy(U[L[e].row])
    <3>1. log[e].row \in Rows(U) /\ ~log[e].reversed /\ log[e].row \in Rows(rows)
      BY <1>4, <1>5, <2>2 DEF Rows
    <3>2. log[e].real <=> ~IsProxy(rows[log[e].row])
      BY <2>1, <3>1 DEF StockInv, LogIsSound, Told
    <3>3. IsProxy(U[log[e].row]) = IsProxy(rows[log[e].row])
      BY <1>4, <3>1 DEF Follows, Rows
    <3> QED
      BY <1>5, <3>2, <3>3
  <2> QED
    BY <2>1, <2>2 DEF Told
<1> QED
  BY <1>1, <1>2, <1>4, <1>5, <1>6, <1>7, CommitKeeps

----------------------------------------------------------------------------
(* The collection and the deck *)

\* The invariant holds of an empty collection.
LEMMA StockInit == Init => StockInv
<1> SUFFICES ASSUME Init PROVE StockInv
  OBVIOUS
<1>1. /\ rows = [i \in Ids |-> NoRow] /\ deck = "none" /\ log = <<>>
      /\ owned = [p \in Printings |-> 0]
  BY DEF Init
<1>2. TypeOK
  BY <1>1 DEF TypeOK, Tables
<1>3. ASSUME NEW p \in Printings
      PROVE  Copies(rows, p) = owned[p] + Imported(log, p)
  <2> DEFINE g == [i \in Ids |-> Value(rows[i], p)]
  <2>1. \A i \in 1 .. MaxRows : g[i] = 0
    BY <1>1 DEF Value, Ids
  <2>2. Copies(rows, p) = Total(MaxRows, g)
    BY <1>2, CopiesAreValues DEF TypeOK
  <2>3. Total(MaxRows, g) = 0
    <3> HIDE DEF g
    <3> QED
      BY <2>1, TotalOfNone, InventoryAssumption
  <2> DEFINE h == [e \in DOMAIN log |->
                     IF log[e].card = p /\ log[e].real /\ ~log[e].reversed THEN log[e].qty ELSE 0]
  <2>4. Imported(log, p) = Total(0, h)
    BY <1>1 DEF Imported
  <2>5. Total(0, h) = 0
    <3> HIDE DEF h
    <3> QED
      BY TotalStep
  <2> HIDE DEF g, h
  <2>6. owned[p] = 0
    BY <1>1
  <2> QED
    BY <2>2, <2>3, <2>4, <2>5, <2>6
<1>4. Placed(rows, deck) /\ LogIsSound
  BY <1>1 DEF Placed, Fits, LogIsSound, Told
<1> QED
  BY <1>2, <1>3, <1>4 DEF StockInv, Conserved

\* The invariant survives a step that changes nothing.
LEMMA StockUnchanged == StockInv /\ UNCHANGED vars => StockInv'
<1> SUFFICES ASSUME StockInv, UNCHANGED vars PROVE StockInv'
  OBVIOUS
<1>1. rows' = rows /\ deck' = deck /\ log' = log /\ owned' = owned
  BY DEF vars
<1>2. TypeOK' /\ Conserved' /\ LogIsSound'
  BY <1>1 DEF StockInv, TypeOK, Conserved, LogIsSound
<1> QED
  BY <1>1, <1>2 DEF StockInv

\* The invariant survives every way to acquire or move cards.
LEMMA AcquireKeeps == StockInv /\ Acquire => StockInv'
<1> SUFFICES ASSUME StockInv, Acquire PROVE StockInv'
  OBVIOUS
<1>1. MaxCopies \in Nat
  BY StockAssumption
<1>2. ASSUME NEW p \in Printings, NEW at \in Spots, NEW kind \in {"real", "proxy"},
             NEW k \in 1 .. MaxCopies, AddCard(p, at, kind, k)
      PROVE  StockInv'
  BY <1>1, <1>2, AddCardKeeps
<1>3. ASSUME NEW l \in Line, NEW dest \in {"pending", "box", "sorter"}, Import(<<l>>, dest)
      PROVE  StockInv'
  BY <1>1, <1>3, ImportKeeps
<1>4. ASSUME NEW l \in Line, NEW m \in Line, NEW dest \in {"pending", "box", "sorter"},
             Import(<<l, m>>, dest)
      PROVE  StockInv'
  BY <1>1, <1>4, ImportKeeps
<1>5. CASE UndoLast
  <2> DEFINE E == {e \in DOMAIN log : e = Len(log) /\ ~log[e].reversed}
  <2>1. E \in SUBSET DOMAIN log /\ \A e \in E : ~log[e].reversed
    OBVIOUS
  <2>2. Undo(E)
    BY <1>5 DEF UndoLast
  <2> HIDE DEF E
  <2> QED
    BY <2>1, <2>2, UndoKeeps
<1>6. ASSUME NEW b, UndoBatch(b)
      PROVE  StockInv'
  <2> DEFINE E == {e \in DOMAIN log : log[e].batch = b /\ ~log[e].reversed}
  <2>1. E \in SUBSET DOMAIN log /\ \A e \in E : ~log[e].reversed
    OBVIOUS
  <2>2. Undo(E)
    BY <1>6 DEF UndoBatch
  <2> HIDE DEF E
  <2> QED
    BY <2>1, <2>2, UndoKeeps
<1> QED
  BY <1>2, <1>3, <1>4, <1>5, <1>6 DEF Acquire

\* The invariant survives every way to rearrange the collection.
LEMMA ArrangeKeeps == StockInv /\ Arrange => StockInv'
<1> SUFFICES ASSUME StockInv, Arrange PROVE StockInv'
  OBVIOUS
<1>1. ASSUME NEW i \in Ids, NEW at \in Spots, MoveRow(i, at) \/ ConfirmPending(i, at)
      PROVE  StockInv'
  BY <1>1, MoveRowKeeps, ConfirmPendingKeeps
<1>2. ASSUME NEW i \in Ids, MoveSurplus(i)
      PROVE  StockInv'
  BY <1>2, MoveSurplusKeeps
<1>3. CASE ConfirmAll
  BY <1>3, ConfirmKeeps
<1>4. CASE Resort
  BY <1>4, ResortActionKeeps
<1>5. ASSUME NEW i \in Ids, NEW k \in 1 .. MaxCopies, AdjustQuantity(i, k) \/ SplitRow(i, k)
      PROVE  StockInv'
  <2>1. k \in Nat /\ k \in Nat \ {0}
    BY StockAssumption
  <2> QED
    BY <1>5, <2>1, AdjustKeeps, SplitKeeps
<1>6. ASSUME NEW S \in SUBSET Ids, BulkDelete(S)
      PROVE  StockInv'
  BY <1>6, BulkDeleteKeeps
<1>7. ASSUME NEW i \in Ids, NEW p \in Printings, Repoint(i, p)
      PROVE  StockInv'
  BY <1>7, RepointKeeps
<1> QED
  BY <1>1, <1>2, <1>3, <1>4, <1>5, <1>6, <1>7 DEF Arrange

\* The invariant survives every way to build a deck.
LEMMA BuildKeeps == StockInv /\ Build => StockInv'
<1> SUFFICES ASSUME StockInv, Build PROVE StockInv'
  OBVIOUS
<1>1. ASSUME NEW kind \in {"plain", "brew"}, CreateDeck(kind)
      PROVE  StockInv'
  BY <1>1, CreateDeckKeeps
<1>2. CASE EditDeck
  BY <1>2, EditDeckKeeps
<1>3. CASE DeleteDeck
  BY <1>3, DeleteDeckKeeps
<1>4. ASSUME NEW i \in Ids, NEW k \in 1 .. MaxCopies, PullCard(i, k)
      PROVE  StockInv'
  <2>1. k \in Nat \ {0}
    BY StockAssumption
  <2> QED
    BY <1>4, <2>1, PullCardKeeps
<1>5. ASSUME NEW i \in Ids, ReturnCard(i)
      PROVE  StockInv'
  BY <1>5, ReturnCardKeeps
<1>6. ASSUME NEW i \in Ids, NEW p \in Printings, SwitchPrinting(i, p)
      PROVE  StockInv'
  BY <1>6, SwitchKeeps
<1>7. ASSUME NEW i \in Ids, NEW k \in 0 .. MaxCopies, SetQuantity(i, k)
      PROVE  StockInv'
  <2>1. k \in Nat
    BY StockAssumption
  <2> QED
    BY <1>7, <2>1, SetQuantityKeeps
<1> QED
  BY <1>1, <1>2, <1>3, <1>4, <1>5, <1>6, <1>7 DEF Build

\* The invariant survives brewing and considering.
LEMMA BrewKeeps == StockInv /\ (Brew \/ Consider) => StockInv'
<1> SUFFICES ASSUME StockInv, Brew \/ Consider PROVE StockInv'
  OBVIOUS
<1>1. CASE MaterializeBrew
  BY <1>1, MaterializeKeeps
<1>2. ASSUME NEW i \in Ids, NEW j \in Ids, NEW k \in 1 .. MaxCopies, ConfirmAssembly(i, j, k)
      PROVE  StockInv'
  <2>1. k \in Nat
    BY StockAssumption
  <2> QED
    BY <1>2, <2>1, AssembleKeeps
<1>3. ASSUME NEW p \in Printings, NEW k \in 1 .. MaxCopies, AddToConsidering(p, k)
      PROVE  StockInv'
  <2>1. k \in Nat
    BY StockAssumption
  <2> QED
    BY <1>3, <2>1, AddToConsideringKeeps
<1>4. ASSUME NEW i \in Ids, Promote(i) \/ Demote(i) \/ RemoveFromConsidering(i)
      PROVE  StockInv'
  BY <1>4, ConsideringMoveKeeps, RemoveFromConsideringKeeps
<1> QED
  BY <1>1, <1>2, <1>3, <1>4 DEF Brew, Consider

\* Every step of a collection keeps the invariant.
LEMMA StockStep == StockInv /\ [Next]_vars => StockInv'
BY AcquireKeeps, ArrangeKeeps, BuildKeeps, BrewKeeps, StockUnchanged DEF Next

\* The inductive invariant of the collection, whatever its size.
THEOREM StockInvariant == Spec => []StockInv
<1>1. Init => StockInv
  BY StockInit
<1>2. StockInv /\ [Next]_vars => StockInv'
  BY StockStep
<1> QED
  BY <1>1, <1>2, PTL DEF Spec

\* Every row, the deck, every entry of the log and the balance are what the tables
\* of the models say, after any number of the owner's operations.
THEOREM StockTypeOK == Spec => []TypeOK
<1>1. StockInv => TypeOK
  BY DEF StockInv
<1> QED
  BY <1>1, StockInvariant, PTL

\* No card is lost or made up: whatever is moved, merged, split, imported, undone,
\* pulled, returned, switched, claimed or disbanded, the real copies of a printing
\* are those acquired and not disposed of, and those of the imports not undone.
THEOREM CardsAreConserved == Spec => []Conserved
<1>1. StockInv => Conserved
  BY DEF StockInv
<1> QED
  BY <1>1, StockInvariant, PTL

\* A placeholder never gets to the collection, nor outlives its brew deck
\* (is_brew_placeholder_row, delete_deck, _finish_brew_claim).
THEOREM PlaceholdersAreHome == Spec => []PlaceholdersStayHome
<1>1. StockInv => PlaceholdersStayHome
  BY PlacedMeans DEF StockInv
<1> QED
  BY <1>1, StockInvariant, PTL

\* No row is left in a deck that has been retired (delete_deck).
THEOREM NoRowIsStranded == Spec => []NoneStranded
<1>1. StockInv => NoneStranded
  BY PlacedMeans DEF StockInv
<1> QED
  BY <1>1, StockInvariant, PTL

----------------------------------------------------------------------------
(* Audits *)

\* What is left to find is what there was, and a completed audit expected it.
HeldAsFound(A) ==
  \A a \in DOMAIN A :
    /\ ~A[a].gone => Total(MaxRows, A[a].held) = A[a].start
    /\ A[a].status = "completed" => A[a].expected = A[a].start

AuditInv == StockInv /\ audits \in Seq(AuditSession) /\ HeldAsFound(audits)

\* An element of a sequence of audits.
LEMMA AuditOf ==
  ASSUME NEW A \in Seq(AuditSession)
  PROVE  /\ Len(A) \in Nat /\ DOMAIN A = 1 .. Len(A)
         /\ A = [a \in 1 .. Len(A) |-> A[a]]
         /\ \A a \in DOMAIN A : A[a] \in AuditSession
OBVIOUS

\* One audit changes, and its snapshot does not.
LEMMA OneAuditKeeps ==
  ASSUME NEW A \in Seq(AuditSession), HeldAsFound(A), NEW a \in DOMAIN A,
         NEW r \in AuditSession,
         r.held = A[a].held, r.gone = A[a].gone, r.start = A[a].start,
         r.status = "completed" => r.expected = r.start,
         NEW B, B = [A EXCEPT ![a] = r]
  PROVE  B \in Seq(AuditSession) /\ HeldAsFound(B)
<1>1. DOMAIN B = DOMAIN A /\ B[a] = r /\ \A b \in DOMAIN A \ {a} : B[b] = A[b]
  OBVIOUS
<1>2. B \in Seq(AuditSession)
  OBVIOUS
<1>3. HeldAsFound(B)
  BY <1>1 DEF HeldAsFound
<1> QED
  BY <1>2, <1>3

\* Audit a has the same snapshot in B as in A.
Same(A, B, a) == B[a].held = A[a].held /\ B[a].gone = A[a].gone /\ B[a].scope = A[a].scope

\* No scans.
LEMMA NoScansType == NoScans \in Scans
BY DEF NoScans, Scans

\* An audit is abandoned.
LEMMA DiscardedKeeps ==
  ASSUME NEW A \in Seq(AuditSession), HeldAsFound(A), NEW a \in DOMAIN A
  PROVE  /\ Discarded(A, a) \in Seq(AuditSession) /\ HeldAsFound(Discarded(A, a))
         /\ Len(Discarded(A, a)) = Len(A)
         /\ \A b \in DOMAIN A :
              /\ Discarded(A, a)[b].held = A[b].held /\ Discarded(A, a)[b].gone = A[b].gone
              /\ Discarded(A, a)[b].scope = A[b].scope
<1> DEFINE r == [A[a] EXCEPT !.status = "abandoned", !.scans = NoScans]
<1>1. A[a] \in AuditSession
  BY AuditOf
<1>2. /\ r \in AuditSession
      /\ r.held = A[a].held /\ r.gone = A[a].gone /\ r.start = A[a].start
      /\ r.scope = A[a].scope /\ r.status # "completed"
  BY <1>1, NoScansType DEF AuditSession
<1>3. Discarded(A, a) = [A EXCEPT ![a] = r]
  BY DEF Discarded
<1> HIDE DEF r
<1>4. Discarded(A, a) \in Seq(AuditSession) /\ HeldAsFound(Discarded(A, a))
  BY <1>2, <1>3, OneAuditKeeps
<1> QED
  BY <1>2, <1>3, <1>4

\* An audit goes on, is paused, or is scanned for.
LEMMA StatusKeeps ==
  ASSUME NEW A \in Seq(AuditSession), HeldAsFound(A), NEW a \in DOMAIN A,
         NEW s \in {"active", "paused"}
  PROVE  /\ [A EXCEPT ![a].status = s] \in Seq(AuditSession)
         /\ HeldAsFound([A EXCEPT ![a].status = s])
<1> DEFINE r == [A[a] EXCEPT !.status = s]
<1>1. A[a] \in AuditSession
  BY AuditOf
<1>2. /\ r \in AuditSession
      /\ r.held = A[a].held /\ r.gone = A[a].gone /\ r.start = A[a].start
      /\ r.status # "completed"
  BY <1>1 DEF AuditSession
<1> HIDE DEF r
<1>3. [A EXCEPT ![a].status = s] = [A EXCEPT ![a] = r]
  BY DEF r
<1> QED
  BY <1>2, <1>3, OneAuditKeeps

\* The scans of an audit change.
LEMMA ScansKeep ==
  ASSUME NEW A \in Seq(AuditSession), HeldAsFound(A), NEW a \in DOMAIN A,
         NEW r, NEW q \in Scans, r = [A[a] EXCEPT !.scans = q],
         NEW B, B = [A EXCEPT ![a] = r]
  PROVE  B \in Seq(AuditSession) /\ HeldAsFound(B)
<1>1. A[a] \in AuditSession
  BY AuditOf
<1>2. /\ r \in AuditSession
      /\ r.held = A[a].held /\ r.gone = A[a].gone /\ r.start = A[a].start
      /\ r.status = A[a].status /\ r.expected = A[a].expected
  BY <1>1 DEF AuditSession
<1>3. r.status = "completed" => r.expected = r.start
  BY <1>2 DEF HeldAsFound
<1> QED
  BY <1>2, <1>3, OneAuditKeeps

\* What a snapshot has of the rows in U, and whether it loses any.
Kept(h, U) == [i \in Ids |-> IF i \in Rows(U) THEN h[i] ELSE 0]
Lost(h, U) == \E i \in Ids \ Rows(U) : h[i] > 0

\* An audit after a change of the table (the rows of a snapshot that go).
LEMMA RebasedIs ==
  ASSUME NEW A \in Seq(AuditSession), NEW U, NEW a \in DOMAIN A
  PROVE  /\ Rebased(A, U)[a] \in AuditSession
         /\ Rebased(A, U)[a].status = A[a].status /\ Rebased(A, U)[a].start = A[a].start
         /\ Rebased(A, U)[a].expected = A[a].expected /\ Rebased(A, U)[a].scope = A[a].scope
         /\ Rebased(A, U)[a].gone = (A[a].gone \/ Lost(A[a].held, U))
         /\ Rebased(A, U)[a].held = Kept(A[a].held, U)
<1> DEFINE g == A[a].gone \/ \E i \in Ids \ Rows(U) : A[a].held[i] > 0
           h == [i \in Ids |-> IF i \in Rows(U) THEN A[a].held[i] ELSE 0]
           m == [i \in Ids |-> IF i \in Rows(U) THEN A[a].scans.match[i] ELSE 0]
           q == [i \in Ids |-> IF i \in Rows(U) THEN A[a].scans.partial[i]
                               ELSE [p \in Printings |-> 0]]
           r == A[a]
<1>1. r \in AuditSession
  BY AuditOf
<1>2. Rebased(A, U)[a] = [r EXCEPT !.gone = g, !.held = h, !.scans.match = m, !.scans.partial = q]
  BY DEF Rebased
<1>3. r.held \in [Ids -> Nat] /\ r.scans \in Scans /\ r.gone \in BOOLEAN
  BY <1>1 DEF AuditSession
<1>4. h \in [Ids -> Nat] /\ m \in [Ids -> Nat] /\ g \in BOOLEAN
  BY <1>3 DEF Scans
<1>5. q \in [Ids -> [Printings -> Nat]]
  <2>1. ASSUME NEW i \in Ids
        PROVE  (IF i \in Rows(U) THEN r.scans.partial[i] ELSE [p \in Printings |-> 0])
                 \in [Printings -> Nat]
    BY <1>3 DEF Scans
  <2> QED
    BY <2>1
<1> HIDE DEF g, h, m, q
<1>6. [r.scans EXCEPT !.match = m, !.partial = q] \in Scans
  BY <1>3, <1>4, <1>5 DEF Scans
<1> HIDE DEF r
<1>7. Rebased(A, U)[a] = [r EXCEPT !.gone = g, !.held = h,
                       !.scans = [r.scans EXCEPT !.match = m, !.partial = q]]
  BY <1>1, <1>2 DEF AuditSession
<1>8. /\ Rebased(A, U)[a] \in AuditSession
      /\ Rebased(A, U)[a].status = r.status /\ Rebased(A, U)[a].start = r.start
      /\ Rebased(A, U)[a].expected = r.expected /\ Rebased(A, U)[a].scope = r.scope
      /\ Rebased(A, U)[a].gone = g /\ Rebased(A, U)[a].held = h
  BY <1>1, <1>4, <1>6, <1>7 DEF AuditSession
<1> QED
  BY <1>8 DEF r, g, h, Kept, Lost

\* A change of the table does not make a snapshot count otherwise.
LEMMA RebasedKeeps ==
  ASSUME NEW A \in Seq(AuditSession), HeldAsFound(A), NEW U
  PROVE  Rebased(A, U) \in Seq(AuditSession) /\ HeldAsFound(Rebased(A, U))
<1> DEFINE B == Rebased(A, U)
<1>1. ASSUME NEW a \in DOMAIN A
      PROVE  /\ B[a] \in AuditSession
             /\ B[a].status = A[a].status /\ B[a].start = A[a].start
             /\ B[a].expected = A[a].expected
             /\ B[a].gone = (A[a].gone \/ Lost(A[a].held, U))
             /\ B[a].held = Kept(A[a].held, U)
  BY RebasedIs
<1>2. DOMAIN B = DOMAIN A /\ B = [a \in DOMAIN A |-> B[a]]
  BY DEF Rebased
<1> HIDE DEF B
<1>3. B \in Seq(AuditSession)
  <2>1. Len(A) \in Nat /\ DOMAIN A = 1 .. Len(A)
    BY AuditOf
  <2>2. B \in [1 .. Len(A) -> AuditSession]
    BY <1>1, <1>2, <2>1
  <2> QED
    BY <2>1, <2>2, SeqDef
<1>4. ASSUME NEW a \in DOMAIN B, ~B[a].gone
      PROVE  Total(MaxRows, B[a].held) = B[a].start
  <2>1. ~A[a].gone /\ \A i \in Ids \ Rows(U) : ~(A[a].held[i] > 0)
    BY <1>1, <1>2, <1>4 DEF Lost
  <2>2. A[a].held \in [Ids -> Nat]
    BY <1>2, AuditOf DEF AuditSession
  <2>3. B[a].held = A[a].held
    <3>1. \A i \in Ids : i \notin Rows(U) => A[a].held[i] = 0
      BY <2>1, <2>2
    <3> QED
      BY <1>1, <1>2, <2>2, <3>1 DEF Kept
  <2> QED
    BY <1>1, <1>2, <2>1, <2>3 DEF HeldAsFound
<1>5. \A a \in DOMAIN B : B[a].status = "completed" => B[a].expected = B[a].start
  BY <1>1, <1>2 DEF HeldAsFound
<1> QED
  BY <1>3, <1>4, <1>5 DEF HeldAsFound, B

\* The life of an audit (start_audit, resume_audit, pause_audit, abandon_audit).
LEMMA LifeKeeps ==
  ASSUME AuditInv,
         \/ \E scope \in SUBSET Printings \ {{}} : Start(scope)
         \/ \E a \in 1 .. MaxAudits : Visit(a) \/ Pause(a) \/ Abandon(a)
  PROVE  AuditInv'
<1>1. audits \in Seq(AuditSession) /\ HeldAsFound(audits) /\ UNCHANGED vars
  BY DEF AuditInv, Start, Visit, Pause, Abandon
<1>2. StockInv'
  BY <1>1, StockUnchanged DEF AuditInv
<1>3. ASSUME NEW scope \in SUBSET Printings, Start(scope)
      PROVE  audits' \in Seq(AuditSession) /\ HeldAsFound(audits')
  <2> DEFINE r == [status |-> "active", scope |-> scope, held |-> Snapshot(rows, scope),
                   gone |-> FALSE, start |-> Quantity(rows, Expected(rows, scope)),
                   scans |-> NoScans, expected |-> 0, seen |-> 0]
  <2>1. rows \in Tables
    BY DEF AuditInv, StockInv, TypeOK
  <2>2. Expected(rows, scope) \in SUBSET Rows(rows)
    BY DEF Expected
  <2>3. Snapshot(rows, scope) \in [Ids -> Nat]
    <3>1. \A i \in Expected(rows, scope) : rows[i].qty \in Nat
      BY <2>1, <2>2 DEF Rows, Tables, Row
    <3> QED
      BY <3>1 DEF Snapshot
  <2>4. Quantity(rows, Expected(rows, scope)) \in Nat
    BY <2>1, <2>2, QuantityType
  <2>5. Total(MaxRows, Snapshot(rows, scope)) = Quantity(rows, Expected(rows, scope))
    BY DEF Snapshot, Quantity
  <2>6. /\ r \in AuditSession /\ r.status # "completed"
        /\ Total(MaxRows, r.held) = r.start
    BY <2>3, <2>4, <2>5, NoScansType DEF AuditSession
  <2>7. PICK A \in IF Open = {} THEN {audits} ELSE {Discarded(audits, a) : a \in Newest} :
          audits' = Append(A, r)
    BY <1>3 DEF Start
  <2>8. A \in Seq(AuditSession) /\ HeldAsFound(A)
    <3>1. CASE A = audits
      BY <1>1, <3>1
    <3>2. ASSUME NEW a \in Newest, A = Discarded(audits, a)
          PROVE  A \in Seq(AuditSession) /\ HeldAsFound(A)
      <4>1. a \in DOMAIN audits
        BY DEF Newest, Open
      <4> QED
        BY <1>1, <3>2, <4>1, DiscardedKeeps
    <3> QED
      BY <2>7, <3>1, <3>2
  <2> HIDE DEF r
  <2>9. audits' \in Seq(AuditSession)
    BY <2>6, <2>7, <2>8
  <2>10. /\ DOMAIN audits' = 1 .. (Len(A) + 1) /\ audits'[Len(A) + 1] = r
         /\ \A b \in 1 .. Len(A) : b \in DOMAIN A /\ audits'[b] = A[b]
    BY <2>6, <2>7, <2>8
  <2>11. ASSUME NEW b \in DOMAIN audits'
         PROVE  /\ ~audits'[b].gone => Total(MaxRows, audits'[b].held) = audits'[b].start
                /\ audits'[b].status = "completed" => audits'[b].expected = audits'[b].start
    <3>1. Len(A) \in Nat
      BY <2>8
    <3>2. CASE b = Len(A) + 1
      BY <2>6, <2>10, <3>2
    <3>3. CASE b \in 1 .. Len(A)
      BY <2>8, <2>10, <3>3 DEF HeldAsFound
    <3> QED
      BY <2>10, <3>1, <3>2, <3>3
  <2> QED
    BY <2>9, <2>11 DEF HeldAsFound
<1>4. ASSUME NEW a, Visit(a) \/ Pause(a) \/ Abandon(a)
      PROVE  audits' \in Seq(AuditSession) /\ HeldAsFound(audits')
  <2>1. a \in DOMAIN audits
    BY <1>4 DEF Visit, Pause, Abandon, Newest, Open
  <2>2. \/ audits' = Discarded(audits, a)
        \/ \E s \in {"active", "paused"} : audits' = [audits EXCEPT ![a].status = s]
    BY <1>4 DEF Visit, Pause, Abandon
  <2>3. CASE audits' = Discarded(audits, a)
    BY <1>1, <2>1, <2>3, DiscardedKeeps
  <2>4. ASSUME NEW s \in {"active", "paused"}, audits' = [audits EXCEPT ![a].status = s]
        PROVE  audits' \in Seq(AuditSession) /\ HeldAsFound(audits')
    BY <1>1, <2>1, <2>4, StatusKeeps
  <2> QED
    BY <2>2, <2>3, <2>4
<1> QED
  BY <1>2, <1>3, <1>4 DEF AuditInv

\* A scan (record_scan).
LEMMA ScanKeeps ==
  ASSUME AuditInv, NEW a, NEW p \in Printings, NEW k \in 1 .. MaxScans, Scan(a, p, k)
  PROVE  AuditInv'
<1>1. /\ audits \in Seq(AuditSession) /\ HeldAsFound(audits) /\ UNCHANGED vars
      /\ a \in DOMAIN audits
  BY DEF AuditInv, Scan
<1>2. StockInv'
  BY <1>1, StockUnchanged DEF AuditInv
<1> DEFINE r == audits[a]
           s == r.scans
<1>3. k \in Nat
  BY AuditAssumption
<1>4. /\ r \in AuditSession
      /\ s = [match |-> s.match, partial |-> s.partial, extra |-> s.extra]
      /\ s.match \in [Ids -> Nat] /\ s.partial \in [Ids -> [Printings -> Nat]]
      /\ s.extra \in [Printings -> Nat]
  BY <1>1, AuditOf DEF AuditSession, Scans
<1>5. \E q \in Scans : audits' = [audits EXCEPT ![a] = [audits[a] EXCEPT !.scans = q]]
  <2>1. ASSUME NEW i \in Ids, audits' = [audits EXCEPT ![a].scans.match[i] = @ + k]
        PROVE  \E q \in Scans : audits' = [audits EXCEPT ![a] = [audits[a] EXCEPT !.scans = q]]
    <3> DEFINE m == [s.match EXCEPT ![i] = s.match[i] + k]
               q == [s EXCEPT !.match = m]
    <3>1. s.match[i] + k \in Nat
      BY <1>3, <1>4
    <3>2. m \in [Ids -> Nat]
      BY <1>4, <3>1
    <3>3. q \in Scans
      BY <1>4, <3>2 DEF Scans
    <3>4. audits' = [audits EXCEPT ![a] = [audits[a] EXCEPT !.scans = q]]
      BY <2>1
    <3> QED
      BY <3>3, <3>4
  <2>2. ASSUME NEW i \in Ids, audits' = [audits EXCEPT ![a].scans.partial[i][p] = @ + k]
        PROVE  \E q \in Scans : audits' = [audits EXCEPT ![a] = [audits[a] EXCEPT !.scans = q]]
    <3> DEFINE o == [s.partial[i] EXCEPT ![p] = s.partial[i][p] + k]
               m == [s.partial EXCEPT ![i] = o]
               q == [s EXCEPT !.partial = m]
    <3>1. s.partial[i] \in [Printings -> Nat] /\ s.partial[i][p] + k \in Nat
      BY <1>3, <1>4
    <3>2. o \in [Printings -> Nat]
      BY <3>1
    <3>3. m \in [Ids -> [Printings -> Nat]]
      BY <1>4, <3>2
    <3>4. q \in Scans
      BY <1>4, <3>3 DEF Scans
    <3>5. audits' = [audits EXCEPT ![a] = [audits[a] EXCEPT !.scans = q]]
      BY <2>2
    <3> QED
      BY <3>4, <3>5
  <2>3. ASSUME audits' = [audits EXCEPT ![a].scans.extra[p] = @ + k]
        PROVE  \E q \in Scans : audits' = [audits EXCEPT ![a] = [audits[a] EXCEPT !.scans = q]]
    <3> DEFINE m == [s.extra EXCEPT ![p] = s.extra[p] + k]
               q == [s EXCEPT !.extra = m]
    <3>1. s.extra[p] + k \in Nat
      BY <1>3, <1>4
    <3>2. m \in [Printings -> Nat]
      BY <1>4, <3>1
    <3>3. q \in Scans
      BY <1>4, <3>2 DEF Scans
    <3>4. audits' = [audits EXCEPT ![a] = [audits[a] EXCEPT !.scans = q]]
      BY <2>3
    <3> QED
      BY <3>3, <3>4
  <2>4. Unseen(a) \subseteq Ids
    BY DEF Unseen, Expected, Rows
  <2> QED
    BY <2>1, <2>2, <2>3, <2>4 DEF Scan
<1>6. PICK q \in Scans : audits' = [audits EXCEPT ![a] = [audits[a] EXCEPT !.scans = q]]
  BY <1>5
<1> QED
  BY <1>1, <1>2, <1>6, ScansKeep DEF AuditInv

\* The owner's other operations.
LEMMA AuditEditKeeps ==
  ASSUME AuditInv, Edit
  PROVE  AuditInv'
<1>1. StockInv
  BY DEF AuditInv
<1>2. MaxCopies \in Nat
  BY StockAssumption
<1>3. ASSUME NEW p \in Printings, NEW at \in Spots, NEW kind \in {"real", "proxy"},
             NEW k \in 1 .. MaxCopies, AddCard(p, at, kind, k)
      PROVE  StockInv'
  BY <1>1, <1>2, <1>3, AddCardKeeps
<1>4. ASSUME NEW i \in Ids, NEW at \in Spots, MoveRow(i, at) \/ ConfirmPending(i, at)
      PROVE  StockInv'
  BY <1>1, <1>4, MoveRowKeeps, ConfirmPendingKeeps
<1>5. ASSUME NEW i \in Ids, NEW k \in 1 .. MaxCopies, AdjustQuantity(i, k) \/ SplitRow(i, k)
      PROVE  StockInv'
  <2>1. k \in Nat \ {0}
    BY <1>2
  <2> QED
    BY <1>1, <1>5, <2>1, AdjustKeeps, SplitKeeps
<1>6. ASSUME NEW i \in Ids, NEW p \in Printings, Repoint(i, p)
      PROVE  StockInv'
  BY <1>1, <1>6, RepointKeeps
<1>7. ASSUME NEW kind \in {"plain", "brew"}, CreateDeck(kind)
      PROVE  StockInv'
  BY <1>1, <1>7, CreateDeckKeeps
<1>8. ASSUME EditDeck \/ Resort PROVE StockInv'
  BY <1>1, <1>8, EditDeckKeeps, ResortActionKeeps
<1>9. StockInv' /\ audits' = Rebased(audits, rows')
  BY <1>3, <1>4, <1>5, <1>6, <1>7, <1>8 DEF Edit
<1>10. audits' \in Seq(AuditSession) /\ HeldAsFound(audits')
  BY <1>9, RebasedKeeps DEF AuditInv
<1> QED
  BY <1>9, <1>10 DEF AuditInv

----------------------------------------------------------------------------
(* A batch *)

\* The gains g account for what table T has and the collection has not.
Accounted(T, g) ==
  /\ Placed(T, deck)
  /\ Follows(rows, T)
  /\ \A p \in Printings : Copies(T, p) = Copies(rows, p) + g[p]

BatchState ==
  [table : Tables, gained : [Printings -> Int],
   saved : [table : Tables, gained : [Printings -> Int]], failed : BOOLEAN]

\* Neither what a batch has done so far, nor what it would leave if it failed now,
\* is without an account.
BatchSound(S) ==
  /\ S \in BatchState
  /\ Accounted(S.table, S.gained)
  /\ Accounted(S.saved.table, S.saved.gained)

\* The rows of the printings in P outside the box have not been touched.
Elsewhere(S, P) ==
  \A j \in Rows(rows) : rows[j].at # "box" /\ rows[j].card \in P => S.table[j] = rows[j]

\* The parts of a state.
LEMMA BatchStateIs ==
  ASSUME NEW S \in BatchState
  PROVE  /\ S.table \in Tables /\ S.gained \in [Printings -> Int]
         /\ S.saved.table \in Tables /\ S.saved.gained \in [Printings -> Int]
BY DEF BatchState

\* A new table with its gains.
LEMMA BatchGains ==
  ASSUME NEW S, BatchSound(S), NEW U \in Tables, NEW g \in [Printings -> Int],
         Accounted(U, g)
  PROVE  BatchSound([S EXCEPT !.table = U, !.gained = g])
BY DEF BatchSound, BatchState

\* A row that is not where another one is moved to stays as it is.
LEMMA MovesTouch ==
  ASSUME NEW T \in Tables, NEW i \in Rows(T), NEW at \in Spots, NEW U \in Moves(T, i, at),
         NEW k \in Rows(T) \ {i}, T[k].at # at
  PROVE  U[k] = T[k]
<1> DEFINE r == [T[i] EXCEPT !.at = at]
           M == Matches(T, r) \ {i}
<1>1. i \in Ids /\ k \in Ids /\ T[i] \in Row
  BY DEF Rows, Tables
<1>2. r.at = at
  BY <1>1 DEF Row
<1>3. k \notin M
  BY <1>2 DEF Matches, Mergeable
<1>4. CASE M = {}
  <2>1. U = [T EXCEPT ![i] = r]
    BY <1>4 DEF Moves
  <2> QED
    BY <1>1, <2>1 DEF Tables
<1>5. CASE M # {}
  <2>1. PICK j \in M : U = [T EXCEPT ![j].qty = @ + r.qty, ![i] = NoRow]
    BY <1>5 DEF Moves
  <2> QED
    BY <1>1, <1>3, <2>1 DEF Tables
<1> QED
  BY <1>4, <1>5

\* A found copy is added (_apply_add_extra).
LEMMA AddExtraKeeps ==
  ASSUME StockInv, NEW S, BatchSound(S), NEW p \in Printings, NEW k \in Nat \ {0},
         NEW V \in AddExtra(S, p, k)
  PROVE  BatchSound(V) /\ \A P : Elsewhere(S, P) => Elsewhere(V, P)
<1> DEFINE r == [card |-> p, at |-> "box", kind |-> "real", qty |-> k]
           g == [S.gained EXCEPT ![p] = @ + k]
<1>1. /\ S \in BatchState /\ S.table \in Tables /\ S.gained \in [Printings -> Int]
      /\ Accounted(S.table, S.gained)
  BY BatchStateIs DEF BatchSound
<1>2. PICK U \in Deposits(Rows(rows), S.table, r) : V = [S EXCEPT !.table = U, !.gained[p] = @ + k]
  BY DEF AddExtra
<1>3. V = [S EXCEPT !.table = U, !.gained = g]
  BY <1>2
<1>4. /\ r \in Row /\ r.at = "box" /\ \A d : Fits(r, d)
      /\ \A o : Value(r, o) = IF o = p THEN k ELSE 0
  BY InventoryAssumption DEF Row, Spots, Kinds, Fits, DeckSpots, Value
<1>5. /\ g \in [Printings -> Int]
      /\ \A o \in Printings : g[o] = S.gained[o] + (IF o = p THEN k ELSE 0)
  BY <1>1
<1> HIDE DEF r, g
<1>6. /\ U \in Tables
      /\ \A d : Placed(S.table, d) /\ Fits(r, d) => Placed(U, d)
      /\ \A R : Rows(R) \subseteq Rows(rows) /\ Follows(R, S.table) => Follows(R, U)
  BY <1>1, <1>2, <1>4, DepositKeeps
<1>7. /\ \A o : Copies(U, o) = Copies(S.table, o) + Value(r, o)
      /\ \E i \in Ids :
           /\ \A j \in Ids \ {i} : U[j] = S.table[j]
           /\ \/ i \notin Rows(rows) \cup Rows(S.table) /\ U[i] = r
              \/ S.table[i] \in Row /\ Mergeable(S.table[i], r) /\ Alike(U[i], S.table[i])
  BY <1>1, <1>2, <1>4, DepositEffect
<1>8. Accounted(U, g)
  <2>1. Placed(U, deck) /\ Follows(rows, U)
    BY <1>1, <1>4, <1>6 DEF Accounted
  <2>2. ASSUME NEW o \in Printings
        PROVE  Copies(U, o) = Copies(rows, o) + g[o]
    <3>1. /\ Copies(U, o) = Copies(S.table, o) + Value(r, o)
          /\ Copies(S.table, o) = Copies(rows, o) + S.gained[o]
          /\ Value(r, o) = IF o = p THEN k ELSE 0
          /\ g[o] = S.gained[o] + (IF o = p THEN k ELSE 0)
      BY <1>1, <1>4, <1>5, <1>7 DEF Accounted
    <3>2. rows \in Tables
      BY DEF StockInv, TypeOK
    <3>3. Copies(rows, o) \in Nat /\ S.gained[o] \in Int
      BY <1>1, <3>2, CopiesType
    <3> QED
      BY <3>1, <3>3
  <2> QED
    BY <2>1, <2>2 DEF Accounted
<1>9. BatchSound(V)
  BY <1>3, <1>5, <1>6, <1>8, BatchGains
<1>10. V.table = U
  BY <1>1, <1>3 DEF BatchState
<1>11. ASSUME NEW P, Elsewhere(S, P)
       PROVE  Elsewhere(V, P)
  <2>1. ASSUME NEW j \in Rows(rows), rows[j].at # "box", rows[j].card \in P
        PROVE  U[j] = rows[j]
    <3>1. j \in Ids /\ S.table[j] = rows[j] /\ j \in Rows(S.table)
      BY <1>11, <2>1 DEF Elsewhere, Rows
    <3>2. ~Mergeable(S.table[j], r)
      BY <1>4, <2>1, <3>1 DEF Mergeable
    <3> QED
      BY <1>7, <3>1, <3>2
  <2> QED
    BY <1>10, <2>1 DEF Elsewhere
<1> QED
  BY <1>9, <1>11

\* A found copy comes from another row (_apply_move_extra).
LEMMA MoveExtraKeeps ==
  ASSUME StockInv, NEW S, BatchSound(S), NEW j \in Rows(rows), S.table[j] = rows[j],
         NEW V \in MoveExtra(S, j)
  PROVE  /\ BatchSound(V)
         /\ \A P : Elsewhere(S, P) /\ rows[j].card \notin P => Elsewhere(V, P)
<1>1. /\ S \in BatchState /\ S.table \in Tables /\ S.gained \in [Printings -> Int]
      /\ Accounted(S.table, S.gained)
  BY BatchStateIs DEF BatchSound
<1>2. j \in Ids /\ j \in Rows(S.table) /\ S.table[j] \in Row
  BY <1>1 DEF Rows, Tables
<1>3. CASE BrewPlaceholder(S.table[j])
  <2>1. V = [S EXCEPT !.failed = TRUE]
    BY <1>3 DEF MoveExtra
  <2>2. /\ V \in BatchState /\ V.table = S.table /\ V.gained = S.gained /\ V.saved = S.saved
    BY <1>1, <2>1 DEF BatchState
  <2> QED
    BY <2>2 DEF BatchSound, Elsewhere
<1>4. CASE ~BrewPlaceholder(S.table[j])
  <2>1. PICK U \in Moves(S.table, j, "box") :
          V = [S EXCEPT !.table = U, !.saved = [table |-> U, gained |-> S.gained]]
    BY <1>4 DEF MoveExtra
  <2>2. "box" \in Spots /\ "box" \notin DeckSpots
    BY DEF Spots, DeckSpots
  <2>3. /\ U \in Tables
        /\ \A d : (\A k \in Ids \ {j} : Fits(S.table[k], d)) /\ Fits([S.table[j] EXCEPT !.at = "box"], d)
                    => Placed(U, d)
        /\ \A R : Follows(R, S.table) => Follows(R, U)
        /\ \A p : Copies(U, p) = Copies(S.table, p)
    BY <1>1, <1>2, <2>1, <2>2, MoveKeeps
  <2>4. Fits([S.table[j] EXCEPT !.at = "box"], deck)
    <3>1. Fits(S.table[j], deck) /\ S.table[j] # NoRow
      BY <1>1, <1>2 DEF Accounted, Placed, Rows
    <3>2. S.table[j].kind # "placeholder"
      BY <1>4, <3>1 DEF Fits, BrewPlaceholder, IsProxy
    <3> QED
      BY <1>2, <2>2, <3>2 DEF Fits, Row
  <2>5. Accounted(U, S.gained)
    BY <1>1, <2>3, <2>4 DEF Accounted, Placed
  <2>6. /\ V \in BatchState /\ V.table = U /\ V.gained = S.gained
        /\ V.saved.table = U /\ V.saved.gained = S.gained
    BY <1>1, <2>1, <2>3 DEF BatchState
  <2>7. BatchSound(V)
    BY <2>5, <2>6 DEF BatchSound
  <2>8. ASSUME NEW P, Elsewhere(S, P), rows[j].card \notin P
        PROVE  Elsewhere(V, P)
    <3>1. ASSUME NEW k \in Rows(rows), rows[k].at # "box", rows[k].card \in P
          PROVE  U[k] = rows[k]
      <4>1. k # j /\ S.table[k] = rows[k] /\ k \in Rows(S.table)
        BY <2>8, <3>1 DEF Elsewhere, Rows
      <4>2. U[k] = S.table[k]
        BY <1>1, <1>2, <2>1, <2>2, <3>1, <4>1, MovesTouch
      <4> QED
        BY <4>1, <4>2
    <3> QED
      BY <2>6, <3>1 DEF Elsewhere
  <2> QED
    BY <2>7, <2>8
<1> QED
  BY <1>3, <1>4

\* A row is corrected to the printing that was found (_apply_update_printing).
LEMMA UpdatePrintingKeeps ==
  ASSUME StockInv, NEW S, BatchSound(S), NEW i \in Ids, NEW p \in Printings,
         NEW V \in UpdatePrinting(S, i, p)
  PROVE  BatchSound(V)
<1> DEFINE T == S.table
           r == T[i]
           k == Worth(r, r.qty)
           U == [T EXCEPT ![i] = [r EXCEPT !.card = p]]
           g == [o \in Printings |-> S.gained[o] + (IF o = p THEN k ELSE 0)
                                                 - (IF o = r.card THEN k ELSE 0)]
<1>1. /\ S \in BatchState /\ T \in Tables /\ S.gained \in [Printings -> Int]
      /\ Accounted(T, S.gained)
  BY BatchStateIs DEF BatchSound
<1>2. CASE r = NoRow
  BY <1>2 DEF UpdatePrinting
<1>3. CASE r # NoRow
  <2>1. V = [S EXCEPT !.table[i].card = p,
                      !.gained = [o \in Printings |->
                         @[o] + (IF o = p THEN Worth(r, r.qty) ELSE 0)
                              - (IF o = r.card THEN Worth(r, r.qty) ELSE 0)]]
    BY <1>3 DEF UpdatePrinting
  <2>2. V = [S EXCEPT !.table = U, !.gained = g]
    BY <2>1
  <2>3. r \in Row
    BY <1>1, <1>3 DEF Tables
  <2>4. /\ U[i] \in Row /\ U[i].card = p /\ U[i].kind = r.kind
        /\ U[i].qty = r.qty /\ U[i].at = r.at
        /\ \A j \in Ids \ {i} : U[j] = T[j]
    BY <1>1, <2>3 DEF Tables, Row
  <2>5. U \in Tables
    BY <1>1, <2>4 DEF Tables
  <2>6. Placed(U, deck)
    BY <1>1, <1>3, <2>4 DEF Accounted, Placed, Fits
  <2>7. Follows(rows, U)
    BY <1>1, <1>3, <2>4 DEF Accounted, Follows, IsProxy
  <2>8. k \in Int /\ k = IF r.kind = "real" THEN r.qty ELSE 0
    BY <2>3 DEF Worth, IsProxy, Row
  <2>9. \A o : /\ Value(U[i], o) = IF o = p THEN k ELSE 0
               /\ Value(T[i], o) = IF o = r.card THEN k ELSE 0
    BY <1>3, <2>4, <2>8, InventoryAssumption DEF Value
  <2>10. \A o \in Printings : S.gained[o] \in Int
    BY <1>1
  <2> HIDE DEF U, k
  <2>11. /\ g \in [Printings -> Int]
         /\ \A o \in Printings : g[o] = S.gained[o] + (IF o = p THEN k ELSE 0)
                                                    - (IF o = r.card THEN k ELSE 0)
    BY <2>8, <2>10
  <2> HIDE DEF g
  <2>12. ASSUME NEW o \in Printings
         PROVE  Copies(U, o) = Copies(rows, o) + g[o]
    <3>1. Copies(U, o) = Copies(T, o) + (Value(U[i], o) - Value(T[i], o))
      BY <1>1, <2>4, <2>5, CopiesOne
    <3>2. Copies(T, o) = Copies(rows, o) + S.gained[o]
      BY <1>1 DEF Accounted
    <3>3. Copies(rows, o) \in Nat
      BY CopiesType DEF StockInv, TypeOK
    <3> HIDE DEF T, r
    <3> QED
      BY <2>8, <2>9, <2>10, <2>11, <3>1, <3>2, <3>3
  <2>13. Accounted(U, g)
    BY <2>6, <2>7, <2>12 DEF Accounted
  <2> QED
    BY <2>2, <2>5, <2>11, <2>13, BatchGains
<1> QED
  BY <1>2, <1>3

\* v has the states after each of the first n actions of a batch.
Courses(a, c, u, order, n, v) ==
  v = [k \in 0 .. n |->
         IF k = 0 THEN {Under(rows, [p \in Printings |-> 0])}
         ELSE UNION {Apply(a, c, u, order, k, S) : S \in v[k - 1]}]

\* There are such states.
LEMMA CoursesExist ==
  ASSUME NEW a, NEW c, NEW u, NEW order, NEW n \in Nat
  PROVE  \E v : Courses(a, c, u, order, n, v)
<1> DEFINE Bad == {k \in Nat : ~ \E v : Courses(a, c, u, order, k, v)}
           step(k, X) == UNION {Apply(a, c, u, order, k, S) : S \in X}
           first == {Under(rows, [p \in Printings |-> 0])}
<1>1. SUFFICES ASSUME Bad # {} PROVE FALSE
  OBVIOUS
<1>2. PICK m \in Bad : \A k \in Bad : m <= k
  <2>1. Bad \subseteq Nat
    OBVIOUS
  <2> QED
    BY <1>1, <2>1, Smallest
<1>3. \A k, v : Courses(a, c, u, order, k, v) <=>
                v = [l \in 0 .. k |-> IF l = 0 THEN first ELSE step(l, v[l - 1])]
  BY DEF Courses
<1>4. m \in Nat
  BY <1>2
<1>5. CASE m = 0
  <2> HIDE DEF first, step
  <2> DEFINE v == [l \in 0 .. 0 |-> first]
  <2>1. v = [l \in 0 .. 0 |-> IF l = 0 THEN first ELSE step(l, v[l - 1])]
    OBVIOUS
  <2> QED
    BY <1>2, <1>3, <1>5, <2>1
<1>6. CASE m # 0
  <2>1. m - 1 \in Nat /\ m - 1 \notin Bad
    BY <1>2, <1>6
  <2>2. PICK v : Courses(a, c, u, order, m - 1, v)
    BY <2>1
  <2> HIDE DEF first, step
  <2>3. v = [l \in 0 .. m - 1 |-> IF l = 0 THEN first ELSE step(l, v[l - 1])]
    BY <1>3, <2>2
  <2> DEFINE w == [l \in 0 .. m |-> IF l = m THEN step(m, v[m - 1]) ELSE v[l]]
  <2>4. ASSUME NEW l \in 0 .. m
        PROVE  w[l] = IF l = 0 THEN first ELSE step(l, w[l - 1])
    <3>1. CASE l = m
      <4>1. m - 1 \in 0 .. m /\ m - 1 # m /\ w[m - 1] = v[m - 1]
        BY <1>4, <1>6
      <4> QED
        BY <1>6, <3>1, <4>1
    <3>2. CASE l # m
      <4>1. l \in 0 .. m - 1 /\ (l # 0 => l - 1 \in 0 .. m /\ l - 1 # m)
        BY <1>4, <3>2
      <4>2. v[l] = IF l = 0 THEN first ELSE step(l, v[l - 1])
        BY <2>3, <4>1
      <4>3. w[l] = v[l] /\ (l # 0 => w[l - 1] = v[l - 1])
        BY <3>2, <4>1
      <4> QED
        BY <4>2, <4>3
    <3> QED
      BY <3>1, <3>2
  <2>5. w = [l \in 0 .. m |-> IF l = 0 THEN first ELSE step(l, w[l - 1])]
    <3>1. w = [l \in 0 .. m |-> w[l]]
      OBVIOUS
    <3> HIDE DEF w
    <3> QED
      BY <2>4, <3>1
  <2> QED
    BY <1>2, <1>3, <2>5
<1> QED
  BY <1>5, <1>6

\* The printings of the extras that are left at the k-th action.
Left(order, k, n) == {order[i] : i \in k .. n}

\* One action of a batch, whatever is chosen for it; the rows it may still move
\* are as the page showed them.
LEMMA ApplyKeeps ==
  ASSUME AuditInv, NEW a \in DOMAIN audits, NEW c \in Choice(a), NEW u \in Corrections(a),
         NEW n \in Nat, n = Cardinality(Printings),
         NEW order \in [1 .. n -> Printings],
         \A i, j \in 1 .. n : i # j => order[i] # order[j],
         NEW k \in 1 .. (n + MaxRows), NEW S, BatchSound(S),
         Elsewhere(S, Left(order, k, n)),
         NEW V \in Apply(a, c, u, order, k, S)
  PROVE  BatchSound(V) /\ Elsewhere(V, Left(order, k + 1, n))
<1>1. StockInv /\ MaxRows \in Nat
  BY InventoryAssumption DEF AuditInv
<1>2. CASE k <= n
  <2> DEFINE p == order[k]
             P == Left(order, k + 1, n)
  <2>1. k \in 1 .. n /\ p \in Printings /\ p \notin P
    BY <1>2 DEF Left
  <2>2. P \subseteq Left(order, k, n) /\ p \in Left(order, k, n)
    BY <1>2 DEF Left
  <2>3. Elsewhere(S, P)
    BY <2>2 DEF Elsewhere
  <2>4. V \in Extra(a, S, p, c[p])
    BY <1>2 DEF Apply
  <2>5. \/ c[p] = Ignore
        \/ audits[a].scans.extra[p] > 0 /\ c[p] \in Sources(p) \cup {Add}
    BY <2>1 DEF Choice
  <2>6. \A j \in Rows(rows) : rows[j].at # "box" /\ rows[j].card = p => S.table[j] = rows[j]
    BY <2>2 DEF Elsewhere
  <2>7. audits[a].scans.extra[p] \in Nat
    <3>1. audits[a] \in AuditSession
      BY AuditOf DEF AuditInv
    <3> QED
      BY <2>1, <3>1 DEF AuditSession, Scans
  <2> HIDE DEF p, P
  <2>8. CASE S.failed \/ c[p] = Ignore
    BY <2>3, <2>4, <2>8 DEF Extra, P
  <2>9. CASE ~(S.failed \/ c[p] = Ignore) /\ c[p] = Add
    <3>1. V \in AddExtra(S, p, audits[a].scans.extra[p])
      BY <2>4, <2>9 DEF Extra
    <3>2. audits[a].scans.extra[p] \in Nat \ {0}
      BY <2>5, <2>7, <2>9
    <3> HIDE DEF Add, Ignore
    <3> QED
      BY <1>1, <2>1, <2>3, <3>1, <3>2, AddExtraKeeps DEF P
  <2>10. CASE ~(S.failed \/ c[p] = Ignore) /\ c[p] # Add
    <3>1. V \in MoveExtra(S, c[p])
      BY <2>4, <2>10 DEF Extra
    <3>2. c[p] \in Rows(rows) /\ rows[c[p]].at # "box" /\ rows[c[p]].card = p
      BY <2>5, <2>10 DEF Sources
    <3>3. S.table[c[p]] = rows[c[p]]
      BY <2>6, <3>2
    <3> QED
      BY <1>1, <2>1, <2>3, <3>1, <3>2, <3>3, MoveExtraKeeps DEF P
  <2> QED
    BY <2>8, <2>9, <2>10
<1>3. CASE k > n
  <2>1. Elsewhere(V, Left(order, k + 1, n))
    BY <1>3 DEF Elsewhere, Left
  <2> DEFINE i == k - n
  <2>2. i \in Ids /\ ~(k <= n)
    BY <1>1, <1>3 DEF Ids
  <2>3. V \in Corrected(S, i, u[i])
    BY <2>2 DEF Apply
  <2>4. u[i] \in SUBSET Printings
    BY <2>2 DEF Corrections
  <2> HIDE DEF i
  <2>5. CASE S.failed \/ u[i] = {}
    BY <2>1, <2>3, <2>5 DEF Corrected
  <2>6. CASE ~(S.failed \/ u[i] = {})
    <3>1. PICK p \in u[i] : V \in UpdatePrinting(S, i, p)
      BY <2>3, <2>6 DEF Corrected
    <3> QED
      BY <1>1, <2>1, <2>2, <2>4, <3>1, UpdatePrintingKeeps
  <2> QED
    BY <2>5, <2>6
<1> QED
  BY <1>2, <1>3

\* A batch, to its end.
LEMMA BatchKeeps ==
  ASSUME AuditInv, NEW a \in DOMAIN audits, NEW c \in Choice(a), NEW u \in Corrections(a),
         NEW S \in Batch(a, c, u)
  PROVE  BatchSound(S)
<1> DEFINE n == Cardinality(Printings)
           last == n + MaxRows
<1>1. n \in Nat /\ MaxRows \in Nat /\ last \in Nat
  BY AuditAssumption, InventoryAssumption, FS_CardinalityType
<1>2. PICK order \in SetToSeqs(Printings) : S \in Batched(a, c, u, order)
  BY DEF Batch
<1>3. order \in [1 .. n -> Printings] /\ \A i, j \in 1 .. n : i # j => order[i] # order[j]
  BY <1>2 DEF SetToSeqs
<1> DEFINE v == CHOOSE v : Courses(a, c, u, order, last, v)
<1>4. Batched(a, c, u, order) = v[last]
  BY DEF Batched, Courses
<1>5. Courses(a, c, u, order, last, v)
  <2> HIDE DEF last
  <2> QED
    BY <1>1, CoursesExist
<1> HIDE DEF v
<1> DEFINE Good(k) == \A s \in v[k] : BatchSound(s) /\ Elsewhere(s, Left(order, k + 1, n))
           Bad == {k \in 0 .. last : ~Good(k)}
<1> HIDE DEF n
<1>6. Good(0)
  <2>1. v[0] = {Under(rows, [p \in Printings |-> 0])}
    <3>1. 0 \in 0 .. last
      BY <1>1
    <3> HIDE DEF last
    <3> QED
      BY <1>5, <3>1 DEF Courses
  <2> DEFINE z == [p \in Printings |-> 0]
             s == Under(rows, z)
  <2>2. z \in [Printings -> Int] /\ \A p \in Printings : z[p] = 0
    OBVIOUS
  <2>3. rows \in Tables /\ Placed(rows, deck)
    BY DEF AuditInv, StockInv, TypeOK
  <2>4. /\ s.table = rows /\ s.gained = z /\ s.saved.table = rows /\ s.saved.gained = z
        /\ s.failed = FALSE
        /\ s = [table |-> s.table, gained |-> s.gained, saved |-> s.saved, failed |-> s.failed]
        /\ s.saved = [table |-> s.saved.table, gained |-> s.saved.gained]
    BY DEF Under
  <2> HIDE DEF z, s
  <2>5. s \in BatchState
    BY <2>2, <2>3, <2>4 DEF BatchState
  <2>6. Accounted(rows, z)
    BY <2>2, <2>3, FollowsItself, CopiesType DEF Accounted
  <2>7. BatchSound(s)
    BY <2>4, <2>5, <2>6 DEF BatchSound
  <2>8. \A P : Elsewhere(s, P)
    BY <2>4 DEF Elsewhere
  <2> QED
    BY <2>1, <2>7, <2>8 DEF s, z
<1>7. ASSUME NEW k \in 1 .. last, Good(k - 1)
      PROVE  Good(k)
  <2>1. v[k] = UNION {Apply(a, c, u, order, k, s) : s \in v[k - 1]}
    <3>1. k \in 0 .. last /\ k # 0
      BY <1>1
    <3> QED
      BY <1>5, <3>1 DEF Courses
  <2>2. ASSUME NEW V \in v[k]
        PROVE  BatchSound(V) /\ Elsewhere(V, Left(order, k + 1, n))
    <3>1. PICK s \in v[k - 1] : V \in Apply(a, c, u, order, k, s)
      BY <2>1
    <3>2. (k - 1) + 1 = k
      BY <1>1
    <3>3. BatchSound(s) /\ Elsewhere(s, Left(order, k, n))
      BY <1>7, <3>2
    <3>4. k \in 1 .. (n + MaxRows) /\ n = Cardinality(Printings)
      BY DEF n
    <3> HIDE DEF Good, Bad, last
    <3>5. \A i, j \in 1 .. n : i # j => order[i] # order[j]
      BY <1>3
    <3> QED
      BY <1>1, <1>3, <3>1, <3>3, <3>4, <3>5, ApplyKeeps
  <2> QED
    BY <2>2
<1>8. Bad = {}
  <2> SUFFICES ASSUME Bad # {} PROVE FALSE
    OBVIOUS
  <2>1. Bad \subseteq Nat
    BY <1>1
  <2>2. PICK k \in Bad : \A j \in Bad : k <= j
    BY <2>1, Smallest
  <2>3. k # 0 /\ k \in 0 .. last /\ ~Good(k)
    BY <1>6, <2>2
  <2>4. k \in 1 .. last /\ k - 1 \in 0 .. last /\ ~(k <= k - 1)
    BY <1>1, <2>3
  <2>5. k - 1 \notin Bad
    BY <2>2, <2>4
  <2>6. Good(k - 1)
    BY <2>4, <2>5
  <2> HIDE DEF Good
  <2> QED
    BY <1>7, <2>3, <2>4, <2>6
<1>9. last \in 0 .. last
  BY <1>1
<1>10. Good(last)
  BY <1>8, <1>9
<1> QED
  BY <1>2, <1>4, <1>10

----------------------------------------------------------------------------
(* Reconciling *)

\* A member of set s, the one that FoldFunction takes.
One(s) == CHOOSE x \in s : TRUE

\* The sets of at most n arguments of g.
Sizes(g, n) == {t \in SUBSET DOMAIN g : Cardinality(t) <= n}

\* v adds up g over every set in X.
Adds(g, X, v) ==
  v = [s \in X |-> IF s = {} THEN 0 ELSE g[One(s)] + v[s \ {One(s)}]]

\* There is such a v.
LEMMA AddsExist ==
  ASSUME NEW g, IsFiniteSet(DOMAIN g), NEW n \in Nat
  PROVE  \E v : Adds(g, Sizes(g, n), v)
<1> DEFINE Bad == {k \in Nat : ~ \E v : Adds(g, Sizes(g, k), v)}
<1>1. SUFFICES ASSUME Bad # {} PROVE FALSE
  OBVIOUS
<1>2. PICK m \in Bad : \A k \in Bad : m <= k
  <2>1. Bad \subseteq Nat
    OBVIOUS
  <2> QED
    BY <1>1, <2>1, Smallest
<1>3. ASSUME NEW s \in SUBSET DOMAIN g
      PROVE  /\ IsFiniteSet(s) /\ Cardinality(s) \in Nat /\ (Cardinality(s) = 0 <=> s = {})
             /\ s # {} => /\ One(s) \in s /\ s \ {One(s)} \in SUBSET DOMAIN g
                          /\ Cardinality(s \ {One(s)}) = Cardinality(s) - 1
  <2>1. IsFiniteSet(s) /\ Cardinality(s) \in Nat /\ (Cardinality(s) = 0 <=> s = {})
    BY FS_Subset, FS_CardinalityType, FS_EmptySet
  <2>2. ASSUME s # {} PROVE One(s) \in s
    BY <2>2 DEF One
  <2>3. ASSUME s # {} PROVE Cardinality(s \ {One(s)}) = Cardinality(s) - 1
    BY <2>1, <2>2, <2>3, FS_RemoveElement
  <2> QED
    BY <2>1, <2>2, <2>3
<1>4. CASE m = 0
  <2> DEFINE v == [s \in Sizes(g, 0) |-> 0]
  <2>1. ASSUME NEW s \in Sizes(g, 0) PROVE s = {}
    <3>1. s \in SUBSET DOMAIN g /\ Cardinality(s) <= 0
      BY DEF Sizes
    <3>2. Cardinality(s) \in Nat /\ (Cardinality(s) = 0 <=> s = {})
      BY <1>3, <3>1
    <3> QED
      BY <3>1, <3>2
  <2>2. Adds(g, Sizes(g, 0), v)
    BY <2>1 DEF Adds
  <2> QED
    BY <1>2, <1>4, <2>2
<1>5. CASE m # 0
  <2>1. m \in Nat /\ m - 1 \in Nat /\ m - 1 \notin Bad
    BY <1>2, <1>5
  <2>2. PICK u : Adds(g, Sizes(g, m - 1), u)
    BY <2>1
  <2> DEFINE v == [s \in Sizes(g, m) |-> IF s \in Sizes(g, m - 1) THEN u[s]
                                         ELSE g[One(s)] + u[s \ {One(s)}]]
  <2>3. \A s \in Sizes(g, m - 1) : u[s] = IF s = {} THEN 0 ELSE g[One(s)] + u[s \ {One(s)}]
    BY <2>2 DEF Adds
  <2>4. ASSUME NEW s \in Sizes(g, m)
        PROVE  v[s] = IF s = {} THEN 0 ELSE g[One(s)] + v[s \ {One(s)}]
    <3>1. s \in SUBSET DOMAIN g /\ Cardinality(s) <= m
      BY DEF Sizes
    <3>2. CASE s = {}
      <4>1. s \in Sizes(g, m - 1)
        <5>1. Cardinality(s) = 0
          BY <1>3, <3>1, <3>2
        <5> QED
          BY <2>1, <3>1, <5>1 DEF Sizes
      <4> QED
        BY <2>3, <3>2, <4>1
    <3>3. CASE s # {}
      <4> DEFINE t == s \ {One(s)}
      <4>1. t \in SUBSET DOMAIN g /\ Cardinality(t) = Cardinality(s) - 1 /\ Cardinality(s) \in Nat
        BY <1>3, <3>1, <3>3
      <4> HIDE DEF t
      <4>2. t \in Sizes(g, m - 1) /\ t \in Sizes(g, m)
        BY <2>1, <3>1, <4>1 DEF Sizes
      <4>3. v[t] = u[t]
        BY <4>2
      <4>4. v[s] = g[One(s)] + u[t]
        BY <2>3, <3>3 DEF t
      <4> QED
        BY <3>3, <4>3, <4>4 DEF t
    <3> QED
      BY <3>2, <3>3
  <2>5. v = [s \in Sizes(g, m) |-> v[s]]
    OBVIOUS
  <2> HIDE DEF v
  <2>6. Adds(g, Sizes(g, m), v)
    BY <2>4, <2>5 DEF Adds
  <2> QED
    BY <1>2, <2>6
<1> QED
  BY <1>4, <1>5

\* A sum of naturals over the printings is a natural.
LEMMA OverType ==
  ASSUME NEW g \in [Printings -> Nat]
  PROVE  Over(g) \in Nat
<1> DEFINE n == Cardinality(Printings)
           X == SUBSET DOMAIN g
           v == CHOOSE v : Adds(g, X, v)
<1>1. IsFiniteSet(Printings) /\ DOMAIN g = Printings /\ n \in Nat
  BY AuditAssumption, FS_CardinalityType
<1>2. Over(g) = v[DOMAIN g]
  BY Zenon DEF Over, FoldFunction, FoldFunctionOnSet, MapThenFoldSet, Adds, One
<1>3. Sizes(g, n) = X
  BY <1>1, FS_Subset DEF Sizes
<1>4. Adds(g, X, v)
  <2>1. \E w : Adds(g, Sizes(g, n), w)
    BY <1>1, AddsExist
  <2> HIDE DEF X, n
  <2> QED
    BY <1>3, <2>1
<1> HIDE DEF v
<1> DEFINE Bad == {k \in Nat : \E s \in X : Cardinality(s) = k /\ v[s] \notin Nat}
<1>5. Bad = {}
  <2> SUFFICES ASSUME Bad # {} PROVE FALSE
    OBVIOUS
  <2>1. PICK k \in Bad : \A j \in Bad : k <= j
    <3>1. Bad \subseteq Nat
      OBVIOUS
    <3> QED
      BY <3>1, Smallest
  <2>2. PICK s \in X : Cardinality(s) = k /\ v[s] \notin Nat
    BY <2>1
  <2>3. v[s] = IF s = {} THEN 0 ELSE g[One(s)] + v[s \ {One(s)}]
    BY <1>4 DEF Adds
  <2>4. s # {}
    BY <2>2, <2>3
  <2>5. One(s) \in s
    BY <2>4 DEF One
  <2> DEFINE t == s \ {One(s)}
  <2>6. t \in X /\ Cardinality(t) = k - 1 /\ k - 1 \in Nat
    <3>1. IsFiniteSet(s)
      BY <1>1, FS_Subset
    <3>2. Cardinality(t) = Cardinality(s) - 1 /\ IsFiniteSet(t)
      BY <2>5, <3>1, FS_RemoveElement
    <3> QED
      BY <2>2, <3>2, FS_CardinalityType
  <2> HIDE DEF t
  <2>7. v[t] \in Nat
    BY <2>1, <2>6
  <2>8. g[One(s)] \in Nat
    BY <1>1, <2>5
  <2> QED
    BY <2>2, <2>3, <2>4, <2>7, <2>8 DEF t
<1>6. DOMAIN g \in X /\ Cardinality(DOMAIN g) \in Nat
  BY <1>1
<1> HIDE DEF n, X
<1> QED
  BY <1>2, <1>5, <1>6

\* What becomes of the state S of a batch.
Outcome(a, S) ==
  LET E == IF S.failed THEN S.saved ELSE S
      A == IF S.failed THEN audits
           ELSE [audits EXCEPT ![a].status = "completed",
                               ![a].expected = Counts(a, S).expected,
                               ![a].seen = Counts(a, S).seen]
  IN  Change(E.table) /\ Gains(E.gained) /\ audits' = Rebased(A, E.table)

\* A batch is applied, or the moves it made before it failed (apply_reconciliation).
LEMMA ReconcileIs ==
  ASSUME AuditInv, NEW a, Reconcile(a)
  PROVE  /\ StockInv'
         /\ \E A \in Seq(AuditSession) :
              /\ HeldAsFound(A) /\ DOMAIN A = DOMAIN audits
              /\ \A b \in DOMAIN audits : Same(audits, A, b)
              /\ audits' = Rebased(A, rows')
<1>1. /\ a \in DOMAIN audits /\ Valid(a) /\ deck' = deck
      /\ StockInv /\ audits \in Seq(AuditSession) /\ HeldAsFound(audits)
  BY DEF Reconcile, AuditInv
<1>2. audits[a] \in AuditSession /\ rows \in Tables /\ deck \in {"none", "plain", "brew"}
  BY <1>1, AuditOf DEF StockInv, TypeOK
<1>3. PICK c \in Choice(a), u \in Corrections(a) :
        \E S \in Batch(a, c, u) : Outcome(a, S)
  BY DEF Reconcile, Outcome
<1>3a. PICK S \in Batch(a, c, u) : Outcome(a, S)
  BY <1>3
<1> DEFINE E == IF S.failed THEN S.saved ELSE S
           C == Counts(a, S)
           r == [audits[a] EXCEPT !.status = "completed", !.expected = C.expected, !.seen = C.seen]
           A == IF S.failed THEN audits ELSE [audits EXCEPT ![a] = r]
<1>4. Change(E.table) /\ Gains(E.gained) /\ audits' = Rebased(A, E.table)
  BY <1>3a DEF Outcome
<1>5. BatchSound(S)
  BY <1>1, BatchKeeps
<1>6. /\ E.table \in Tables /\ E.gained \in [Printings -> Int]
      /\ Accounted(E.table, E.gained)
  BY <1>5, BatchStateIs DEF BatchSound
<1> HIDE DEF E
<1>7. StockInv'
  <2>1. \A p \in Printings : E.gained[p] \in Int
    BY <1>6
  <2>2. /\ owned' \in [Printings -> Int]
        /\ \A p \in Printings : owned'[p] - owned[p] = E.gained[p]
    BY <1>1, <1>4, <2>1, GainsBalance
  <2>3. ASSUME NEW p \in Printings
        PROVE  Copies(E.table, p) - Copies(rows, p) = owned'[p] - owned[p]
    <3>1. Copies(E.table, p) = Copies(rows, p) + E.gained[p]
      BY <1>6 DEF Accounted
    <3>2. Copies(rows, p) \in Nat
      BY <1>2, CopiesType
    <3> QED
      BY <2>1, <2>2, <3>1, <3>2
  <2>4. Placed(E.table, deck') /\ Follows(rows, E.table)
    BY <1>1, <1>6 DEF Accounted
  <2> QED
    BY <1>1, <1>2, <1>4, <1>6, <2>2, <2>3, <2>4, ChangeKeeps
<1> DEFINE X == Expected(rows, audits[a].scope)
           f == [i \in Ids |-> IF i \in X THEN Seen(a, i) ELSE 0]
<1>8. C.expected = audits[a].start /\ C.expected \in Nat /\ C.seen = Total(MaxRows, f)
  <2>1. C.expected = Quantity(rows, X) /\ C.seen = Total(MaxRows, f)
    BY DEF Counts
  <2>2. Quantity(rows, X) = Total(MaxRows, audits[a].held) /\ ~audits[a].gone
    BY <1>1 DEF Valid, Quantity
  <2>3. Total(MaxRows, audits[a].held) = audits[a].start
    BY <1>1, <2>2 DEF HeldAsFound
  <2>4. audits[a].start \in Nat
    BY <1>2 DEF AuditSession
  <2> QED
    BY <2>1, <2>2, <2>3, <2>4
<1>9. C.seen \in Nat
  <2>1. ASSUME NEW i \in Ids
        PROVE  Seen(a, i) \in Nat
    <3>1. /\ audits[a].scans.match[i] \in Nat
          /\ audits[a].scans.partial[i] \in [Printings -> Nat]
      BY <1>2 DEF AuditSession, Scans
    <3>2. Over(audits[a].scans.partial[i]) \in Nat
      BY <3>1, OverType
    <3> QED
      BY <3>1, <3>2 DEF Seen
  <2>2. \A i \in 1 .. MaxRows : f[i] \in Nat
    BY <2>1 DEF Ids
  <2>3. Total(MaxRows, f) \in Nat
    <3> HIDE DEF f
    <3> QED
      BY <2>2, TotalType, InventoryAssumption
  <2> QED
    BY <1>8, <2>3
<1> HIDE DEF C, X, f
<1>10. /\ A \in Seq(AuditSession) /\ HeldAsFound(A) /\ DOMAIN A = DOMAIN audits
       /\ \A b \in DOMAIN audits : Same(audits, A, b)
  <2>1. CASE S.failed
    BY <1>1, <2>1 DEF Same
  <2>2. CASE ~S.failed
    <3>1. /\ r \in AuditSession /\ r.held = audits[a].held /\ r.gone = audits[a].gone
          /\ r.start = audits[a].start /\ r.expected = C.expected /\ r.scope = audits[a].scope
      BY <1>2, <1>8, <1>9 DEF AuditSession
    <3>2. A = [audits EXCEPT ![a] = r]
      BY <2>2
    <3> HIDE DEF r, A
    <3>3. A \in Seq(AuditSession) /\ HeldAsFound(A)
      BY <1>1, <1>8, <3>1, <3>2, OneAuditKeeps
    <3>4. DOMAIN A = DOMAIN audits /\ \A b \in DOMAIN audits : Same(audits, A, b)
      BY <3>1, <3>2 DEF Same
    <3> QED
      BY <3>3, <3>4
  <2> QED
    BY <2>1, <2>2
<1> HIDE DEF A
<1>11. audits' = Rebased(A, rows')
  BY <1>4 DEF Change, Commit
<1> QED
  BY <1>7, <1>10, <1>11

\* Reconciling.
LEMMA ReconcileKeeps ==
  ASSUME AuditInv, NEW a, Reconcile(a)
  PROVE  AuditInv'
BY ReconcileIs, RebasedKeeps DEF AuditInv

\* The initial states.
LEMMA AuditInit == InitAudit => AuditInv
BY StockInit DEF InitAudit, AuditInv, HeldAsFound

\* Every step.
LEMMA AuditStep == AuditInv /\ [NextAudit]_auditVars => AuditInv'
<1> SUFFICES ASSUME AuditInv, [NextAudit]_auditVars PROVE AuditInv'
  OBVIOUS
<1>1. ASSUME NEW scope \in SUBSET Printings \ {{}}, Start(scope)
      PROVE  AuditInv'
  BY <1>1, LifeKeeps
<1>2. ASSUME NEW a \in 1 .. MaxAudits, Visit(a) \/ Pause(a) \/ Abandon(a)
      PROVE  AuditInv'
  BY <1>2, LifeKeeps
<1>3. ASSUME NEW a \in 1 .. MaxAudits, NEW p \in Printings, NEW k \in 1 .. MaxScans, Scan(a, p, k)
      PROVE  AuditInv'
  BY <1>3, ScanKeeps
<1>4. ASSUME NEW a \in 1 .. MaxAudits, Reconcile(a)
      PROVE  AuditInv'
  BY <1>4, ReconcileKeeps
<1>5. CASE Edit
  BY <1>5, AuditEditKeeps
<1>6. CASE UNCHANGED auditVars
  <2>1. StockInv' /\ audits' = audits
    BY <1>6, StockUnchanged DEF AuditInv, auditVars
  <2> QED
    BY <2>1 DEF AuditInv
<1> QED
  BY <1>1, <1>2, <1>3, <1>4, <1>5, <1>6 DEF NextAudit

\* The inductive invariant of a collection that is audited.
THEOREM AuditInvariant == SpecAudit => []AuditInv
<1>1. InitAudit => AuditInv
  BY AuditInit
<1>2. AuditInv /\ [NextAudit]_auditVars => AuditInv'
  BY AuditStep
<1> QED
  BY <1>1, <1>2, PTL DEF SpecAudit

\* The collection and the audit sessions are what the models say they are.
THEOREM AuditsAreTyped == SpecAudit => []AuditTypeOK
<1>1. AuditInv => AuditTypeOK
  BY DEF AuditInv, StockInv, AuditTypeOK
<1> QED
  BY <1>1, AuditInvariant, PTL

\* Reconciling neither loses a card nor makes one up, whatever is chosen for the
\* extras, in whatever order they were scanned, and where the batch fails.
THEOREM AuditsConserve == SpecAudit => []Conserved
<1>1. AuditInv => Conserved
  BY DEF AuditInv, StockInv
<1> QED
  BY <1>1, AuditInvariant, PTL

\* The log of a completed audit says what the box held when the audit started
\* (get_scan_progress is called before the batch, apply_reconciliation).
THEOREM AuditsCountAsFound == SpecAudit => []CountsAreAsFound
<1>1. AuditInv => CountsAreAsFound
  BY DEF AuditInv, HeldAsFound, CountsAreAsFound
<1> QED
  BY <1>1, AuditInvariant, PTL

----------------------------------------------------------------------------
(* Scopes *)

\* Nothing changes in the collection.
LEMMA ValidStays ==
  ASSUME NEW a, Valid(a), rows' = rows, Same(audits, audits', a)
  PROVE  Valid(a)'
BY DEF Valid, Same, Expected, Rows

\* Nothing changes among the rows in scope.
LEMMA ValidRebased ==
  ASSUME NEW A \in Seq(AuditSession), NEW a \in DOMAIN A, Same(audits, A, a),
         audits' = Rebased(A, rows'), Valid(a),
         Expected(rows', audits[a].scope) = Expected(rows, audits[a].scope),
         \A i \in Expected(rows, audits[a].scope) : rows'[i] = rows[i]
  PROVE  Valid(a)'
<1> DEFINE X == Expected(rows, audits[a].scope)
           h == audits[a].held
<1>1. /\ audits'[a].scope = audits[a].scope
      /\ audits'[a].gone = (audits[a].gone \/ Lost(h, rows'))
      /\ audits'[a].held = Kept(h, rows')
  BY RebasedIs DEF Same
<1>2. ~audits[a].gone /\ h = [i \in Ids |-> IF i \in X THEN rows[i].qty ELSE 0]
  BY DEF Valid
<1>3. X \subseteq Rows(rows')
  BY DEF Expected
<1>4. \A i \in Ids : i \notin Rows(rows') => h[i] = 0
  BY <1>2, <1>3
<1> HIDE DEF X, h
<1>5. ~audits'[a].gone
  <2>1. ~Lost(h, rows')
    BY <1>4 DEF Lost
  <2> QED
    BY <1>1, <1>2, <2>1
<1>6. audits'[a].held = h
  <2>1. h = [i \in Ids |-> h[i]]
    BY <1>2
  <2> QED
    BY <1>1, <1>4, <2>1 DEF Kept
<1>7. Expected(rows', audits'[a].scope) = X
  BY <1>1 DEF X
<1>8. [i \in Ids |-> IF i \in X THEN rows'[i].qty ELSE 0] = h
  BY <1>2 DEF X
<1> QED
  BY <1>5, <1>6, <1>7, <1>8 DEF Valid

\* One step.
Isolates ==
  \A a \in DOMAIN audits' :
    (a \in DOMAIN audits =>
       /\ Valid(a)
       /\ Expected(rows', audits[a].scope) = Expected(rows, audits[a].scope)
       /\ \A i \in Expected(rows, audits[a].scope) : rows'[i] = rows[i])
    => Valid(a)'

\* A snapshot is valid when it is taken (start_audit).
LEMMA StartIsolates ==
  ASSUME AuditInv, NEW scope \in SUBSET Printings, Start(scope)
  PROVE  Isolates
<1>1. audits \in Seq(AuditSession) /\ HeldAsFound(audits) /\ rows' = rows
  BY DEF AuditInv, Start, vars
<1> DEFINE r == [status |-> "active", scope |-> scope, held |-> Snapshot(rows, scope),
                 gone |-> FALSE, start |-> Quantity(rows, Expected(rows, scope)),
                 scans |-> NoScans, expected |-> 0, seen |-> 0]
<1>2. PICK A \in IF Open = {} THEN {audits} ELSE {Discarded(audits, a) : a \in Newest} :
        audits' = Append(A, r)
  BY DEF Start
<1>3. /\ A \in Seq(AuditSession) /\ Len(A) = Len(audits)
      /\ \A b \in DOMAIN audits : Same(audits, A, b)
  <2>1. CASE A = audits
    BY <1>1, <2>1 DEF Same
  <2>2. ASSUME NEW a \in Newest, A = Discarded(audits, a)
        PROVE  /\ A \in Seq(AuditSession) /\ Len(A) = Len(audits)
               /\ \A b \in DOMAIN audits : Same(audits, A, b)
    <3>1. a \in DOMAIN audits
      BY DEF Newest, Open
    <3> QED
      BY <1>1, <2>2, <3>1, DiscardedKeeps DEF Same
  <2> QED
    BY <1>2, <2>1, <2>2
<1>4. r.held = Snapshot(rows, scope) /\ r.gone = FALSE /\ r.scope = scope
  OBVIOUS
<1> HIDE DEF r
<1>5. /\ DOMAIN audits' = 1 .. (Len(A) + 1) /\ audits'[Len(A) + 1] = r
      /\ \A b \in 1 .. Len(A) : audits'[b] = A[b]
  BY <1>2, <1>3
<1>6. DOMAIN audits = 1 .. Len(A) /\ Len(A) \in Nat
  BY <1>1, <1>3
<1>7. ASSUME NEW a \in DOMAIN audits', a \in DOMAIN audits => Valid(a)
      PROVE  Valid(a)'
  <2>1. CASE a \in 1 .. Len(A)
    <3>1. Same(audits, audits', a)
      BY <1>3, <1>5, <1>6, <2>1 DEF Same
    <3>2. Valid(a)
      BY <1>6, <1>7, <2>1
    <3> QED
      BY <1>1, <3>1, <3>2, ValidStays
  <2>2. CASE a = Len(A) + 1
    BY <1>1, <1>4, <1>5, <2>2 DEF Valid, Snapshot
  <2> QED
    BY <1>5, <1>6, <2>1, <2>2
<1> QED
  BY <1>7 DEF Isolates

\* Nothing that happens to audits otherwise changes their snapshots.
LEMMA LifeIsolates ==
  ASSUME AuditInv, rows' = rows, DOMAIN audits' = DOMAIN audits,
         \A a \in DOMAIN audits : Same(audits, audits', a)
  PROVE  Isolates
BY ValidStays DEF Isolates

\* A change of the table.
LEMMA RebaseIsolates ==
  ASSUME AuditInv, NEW A \in Seq(AuditSession), DOMAIN A = DOMAIN audits,
         \A a \in DOMAIN audits : Same(audits, A, a), audits' = Rebased(A, rows')
  PROVE  Isolates
<1>1. DOMAIN audits' = DOMAIN audits
  BY DEF Rebased
<1> QED
  BY <1>1, ValidRebased DEF Isolates

\* An audit can be reconciled as long as nothing in its scope has changed, whatever
\* happens to the rest of the box and to other audits (start_audit, validate_snapshot).
THEOREM ScopesIsolate == SpecAudit => ScopeIsolates
<1>1. AuditInv /\ [NextAudit]_auditVars => [Isolates]_auditVars
  <2> SUFFICES ASSUME AuditInv, NextAudit PROVE Isolates
    OBVIOUS
  <2>1. audits \in Seq(AuditSession) /\ HeldAsFound(audits)
    BY DEF AuditInv
  <2>2. ASSUME NEW scope \in SUBSET Printings \ {{}}, Start(scope)
        PROVE  Isolates
    BY <2>2, StartIsolates
  <2>3. ASSUME NEW a, Visit(a) \/ Pause(a) \/ Abandon(a)
        PROVE  Isolates
    <3>1. a \in DOMAIN audits /\ rows' = rows
      BY <2>3 DEF Visit, Pause, Abandon, Newest, Open, vars
    <3>2. \/ audits' = Discarded(audits, a)
          \/ \E s \in {"active", "paused"} : audits' = [audits EXCEPT ![a].status = s]
      BY <2>3 DEF Visit, Pause, Abandon
    <3>3. ASSUME audits' = Discarded(audits, a) PROVE Isolates
      <4>1. DOMAIN audits' = DOMAIN audits
        BY <3>3 DEF Discarded
      <4>2. \A b \in DOMAIN audits : Same(audits, audits', b)
        BY <2>1, <3>1, <3>3, DiscardedKeeps DEF Same
      <4> QED
        BY <3>1, <4>1, <4>2, LifeIsolates
    <3>4. ASSUME NEW s, audits' = [audits EXCEPT ![a].status = s] PROVE Isolates
      <4>1. \A b \in DOMAIN audits : audits[b] \in AuditSession
        BY <2>1, AuditOf
      <4>2. DOMAIN audits' = DOMAIN audits /\ \A b \in DOMAIN audits : Same(audits, audits', b)
        BY <3>1, <3>4, <4>1 DEF Same, AuditSession
      <4> QED
        BY <3>1, <4>2, LifeIsolates
    <3> QED
      BY <3>2, <3>3, <3>4
  <2>4. ASSUME NEW a, NEW p \in Printings, NEW k, Scan(a, p, k)
        PROVE  Isolates
    <3>1. a \in DOMAIN audits /\ rows' = rows
      BY <2>4 DEF Scan, vars
    <3>2. \E q : audits' = [audits EXCEPT ![a].scans = q]
      <4>1. \A b \in DOMAIN audits : audits[b] \in AuditSession
        BY <2>1, AuditOf
      <4>2. \/ \E i : audits' = [audits EXCEPT ![a].scans.match[i] = @ + k]
            \/ \E i : audits' = [audits EXCEPT ![a].scans.partial[i][p] = @ + k]
            \/ audits' = [audits EXCEPT ![a].scans.extra[p] = @ + k]
        BY <2>4 DEF Scan
      <4>3. ASSUME NEW i, audits' = [audits EXCEPT ![a].scans.match[i] = @ + k]
            PROVE  \E q : audits' = [audits EXCEPT ![a].scans = q]
        <5>1. audits' = [audits EXCEPT ![a].scans = [audits[a].scans EXCEPT !.match[i] = @ + k]]
          BY <4>3
        <5> QED
          BY <5>1
      <4>4. ASSUME NEW i, audits' = [audits EXCEPT ![a].scans.partial[i][p] = @ + k]
            PROVE  \E q : audits' = [audits EXCEPT ![a].scans = q]
        <5>1. audits' = [audits EXCEPT ![a].scans = [audits[a].scans EXCEPT !.partial[i][p] = @ + k]]
          BY <4>4
        <5> QED
          BY <5>1
      <4>5. ASSUME audits' = [audits EXCEPT ![a].scans.extra[p] = @ + k]
            PROVE  \E q : audits' = [audits EXCEPT ![a].scans = q]
        <5>1. audits' = [audits EXCEPT ![a].scans = [audits[a].scans EXCEPT !.extra[p] = @ + k]]
          BY <4>5
        <5> QED
          BY <5>1
      <4> QED
        BY <4>2, <4>3, <4>4, <4>5
    <3>3. PICK q : audits' = [audits EXCEPT ![a].scans = q]
      BY <3>2
    <3>4. \A b \in DOMAIN audits : audits[b] \in AuditSession
      BY <2>1, AuditOf
    <3>5. DOMAIN audits' = DOMAIN audits /\ \A b \in DOMAIN audits : Same(audits, audits', b)
      BY <3>1, <3>3, <3>4 DEF Same, AuditSession
    <3> QED
      BY <3>1, <3>5, LifeIsolates
  <2>5. ASSUME NEW a, Reconcile(a)
        PROVE  Isolates
    BY <2>5, ReconcileIs, RebaseIsolates
  <2>6. ASSUME Edit
        PROVE  Isolates
    <3>1. audits' = Rebased(audits, rows') /\ \A a \in DOMAIN audits : Same(audits, audits, a)
      BY <2>6 DEF Edit, Same
    <3> QED
      BY <2>1, <3>1, RebaseIsolates
  <2> QED
    BY <2>2, <2>3, <2>4, <2>5, <2>6 DEF NextAudit
<1> QED
  BY <1>1, AuditInvariant, PTL DEF SpecAudit, ScopeIsolates, Isolates

----------------------------------------------------------------------------
(* Imports into the deck *)

\* A table that pulls have made of the collection.
Pulled(T) ==
  /\ T \in Tables /\ Placed(T, deck) /\ Follows(rows, T)
  /\ \A p \in Printings : Copies(T, p) = Copies(rows, p)

\* The loop of pulls, part of the way: the rows copies are still due from are as the
\* collection has them.
PullState(s) ==
  /\ Pulled(s.table)
  /\ s.take \in [Ids -> Nat]
  /\ \A i \in Ids :
       s.take[i] # 0 => /\ i \in Rows(rows) /\ s.table[i] = rows[i]
                        /\ Loose(rows[i]) /\ s.take[i] <= rows[i].qty

\* Of the rows copies are due from, one comes first.
LEMMA FirstIs ==
  ASSUME NEW p, NEW due \in SUBSET Ids, due # {}
  PROVE  \E j \in due : \A o \in due : Preference(p)[j] <= Preference(p)[o]
<1> DEFINE S == {Preference(p)[j] : j \in due}
<1>1. ASSUME NEW j \in Ids PROVE Preference(p)[j] \in Nat
  BY DEF Preference
<1>2. S \subseteq Nat /\ S # {}
  BY <1>1
<1>3. PICK m \in S : \A k \in S : m <= k
  BY <1>2, Smallest
<1> QED
  BY <1>3

\* One pull of the loop keeps them so.
LEMMA PullNextKeeps ==
  ASSUME StockInv, deck # "none", NEW p, NEW s, PullState(s), NEW t \in PullNext(s, p)
  PROVE  PullState(t)
<1> DEFINE due == {i \in Ids : s.take[i] > 0}
           i == CHOOSE j \in due : \A o \in due : Preference(p)[j] <= Preference(p)[o]
           k == s.take[i]
<1>1. CASE due = {}
  BY <1>1 DEF PullNext
<1>2. CASE due # {}
  <2>1. i \in due
    <3>1. \E j \in due : \A o \in due : Preference(p)[j] <= Preference(p)[o]
      BY <1>2, FirstIs
    <3> QED
      BY <3>1, Zenon
  <2>2. PICK U \in Pulls(s.table, i, k) : t = [table |-> U, take |-> [s.take EXCEPT ![i] = 0]]
    BY <1>2 DEF PullNext
  <2> HIDE DEF i
  <2>3. i \in Ids /\ k \in Nat \ {0}
    BY <2>1 DEF PullState
  <2> HIDE DEF due
  <2>4. /\ i \in Rows(rows) /\ s.table[i] = rows[i] /\ Loose(rows[i]) /\ k <= rows[i].qty
        /\ s.table \in Tables /\ Placed(s.table, deck) /\ Follows(rows, s.table)
        /\ \A o \in Printings : Copies(s.table, o) = Copies(rows, o)
    BY <2>3 DEF PullState, Pulled
  <2>5. i \in Rows(s.table)
    BY <2>4 DEF Rows
  <2>6. /\ U \in Tables /\ Placed(U, deck) /\ Follows(rows, U)
        /\ \A o \in Printings : Copies(U, o) = Copies(s.table, o)
        /\ \A j \in Rows(rows) \ {i} : s.table[j] # NoRow /\ Loose(s.table[j]) => U[j] = s.table[j]
    BY <2>2, <2>3, <2>4, <2>5, PullKeeps
  <2>7. t.table = U /\ t.take = [s.take EXCEPT ![i] = 0] /\ s.take \in [Ids -> Nat]
    BY <2>2 DEF PullState
  <2>8. ASSUME NEW j \in Ids, t.take[j] # 0
        PROVE  /\ j \in Rows(rows) /\ U[j] = rows[j]
               /\ Loose(rows[j]) /\ t.take[j] <= rows[j].qty
    <3>1. j # i /\ t.take[j] = s.take[j]
      BY <2>3, <2>7, <2>8
    <3>2. /\ j \in Rows(rows) /\ s.table[j] = rows[j] /\ Loose(rows[j])
          /\ s.take[j] <= rows[j].qty
      BY <2>8, <3>1 DEF PullState
    <3> QED
      BY <2>6, <3>1, <3>2 DEF Rows
  <2>9. \A o \in Printings : Copies(U, o) = Copies(rows, o)
    BY <2>4, <2>6
  <2>10. t.take \in [Ids -> Nat]
    <3>1. s.take \in [Ids -> Nat]
      BY <2>7
    <3>2. [s.take EXCEPT ![i] = 0] \in [Ids -> Nat]
      BY <3>1
    <3> QED
      BY <2>7, <3>2, Zenon
  <2> QED
    BY <2>6, <2>7, <2>8, <2>9, <2>10 DEF PullState, Pulled
<1> QED
  BY <1>1, <1>2

\* v has the states after each of the first n pulls.
PullsOf(T, take, p, n, v) ==
  v = [k \in 0 .. n |->
         IF k = 0 THEN {[table |-> T, take |-> take]}
         ELSE UNION {PullNext(s, p) : s \in v[k - 1]}]

\* There are such states.
LEMMA PullsExist ==
  ASSUME NEW T, NEW take, NEW p, NEW n \in Nat
  PROVE  \E v : PullsOf(T, take, p, n, v)
<1> DEFINE Bad == {k \in Nat : ~ \E v : PullsOf(T, take, p, k, v)}
           step(X) == UNION {PullNext(s, p) : s \in X}
           first == {[table |-> T, take |-> take]}
<1>1. SUFFICES ASSUME Bad # {} PROVE FALSE
  OBVIOUS
<1>2. PICK m \in Bad : \A k \in Bad : m <= k
  <2>1. Bad \subseteq Nat
    OBVIOUS
  <2> QED
    BY <1>1, <2>1, Smallest
<1>3. \A k, v : PullsOf(T, take, p, k, v) <=>
                v = [l \in 0 .. k |-> IF l = 0 THEN first ELSE step(v[l - 1])]
  BY DEF PullsOf
<1>4. m \in Nat
  BY <1>2
<1>5. CASE m = 0
  <2> HIDE DEF first, step
  <2> DEFINE v == [l \in 0 .. 0 |-> first]
  <2>1. v = [l \in 0 .. 0 |-> IF l = 0 THEN first ELSE step(v[l - 1])]
    OBVIOUS
  <2> QED
    BY <1>2, <1>3, <1>5, <2>1
<1>6. CASE m # 0
  <2>1. m - 1 \in Nat /\ m - 1 \notin Bad
    BY <1>2, <1>6
  <2>2. PICK v : PullsOf(T, take, p, m - 1, v)
    BY <2>1
  <2> HIDE DEF first, step
  <2>3. v = [l \in 0 .. m - 1 |-> IF l = 0 THEN first ELSE step(v[l - 1])]
    BY <1>3, <2>2
  <2> DEFINE w == [l \in 0 .. m |-> IF l = m THEN step(v[m - 1]) ELSE v[l]]
  <2>4. ASSUME NEW l \in 0 .. m
        PROVE  w[l] = IF l = 0 THEN first ELSE step(w[l - 1])
    <3>1. CASE l = m
      <4>1. m - 1 \in 0 .. m /\ m - 1 # m /\ w[m - 1] = v[m - 1]
        BY <1>4, <1>6
      <4> QED
        BY <1>6, <3>1, <4>1
    <3>2. CASE l # m
      <4>1. l \in 0 .. m - 1 /\ (l # 0 => l - 1 \in 0 .. m /\ l - 1 # m)
        BY <1>4, <3>2
      <4>2. v[l] = IF l = 0 THEN first ELSE step(v[l - 1])
        BY <2>3, <4>1
      <4>3. w[l] = v[l] /\ (l # 0 => w[l - 1] = v[l - 1])
        BY <3>2, <4>1
      <4> QED
        BY <4>2, <4>3
    <3> QED
      BY <3>1, <3>2
  <2>5. w = [l \in 0 .. m |-> IF l = 0 THEN first ELSE step(w[l - 1])]
    <3>1. w = [l \in 0 .. m |-> w[l]]
      OBVIOUS
    <3> HIDE DEF w
    <3> QED
      BY <2>4, <3>1
  <2> QED
    BY <1>2, <1>3, <2>5
<1> QED
  BY <1>5, <1>6

\* The commit of an import in progress.
LEMMA SoundEnds ==
  ASSUME StockInv, NEW S, Sound(S), Commit(S.table, S.log), UNCHANGED <<deck, owned>>
  PROVE  StockInv'
<1>1. S.table \in Tables /\ S.log \in Seq(Entry)
  BY DEF Sound
<1>2. /\ deck' \in {"none", "plain", "brew"} /\ deck' = deck
      /\ owned' \in [Printings -> Int] /\ owned' = owned
  BY DEF StockInv, TypeOK
<1> QED
  BY <1>1, <1>2, CommitKeeps DEF Sound

\* The whole loop leaves a table that pulls have made.
LEMMA PulledAllKeeps ==
  ASSUME StockInv, deck # "none", NEW p, NEW take \in [Ids -> Nat],
         \A i \in Ids : take[i] # 0 => /\ i \in Rows(rows) /\ Loose(rows[i])
                                       /\ take[i] <= rows[i].qty,
         NEW T \in PulledAll(rows, take, p)
  PROVE  Pulled(T)
<1> DEFINE v == CHOOSE v : PullsOf(rows, take, p, MaxRows, v)
           Good(k) == \A s \in v[k] : PullState(s)
           Bad == {k \in 0 .. MaxRows : ~Good(k)}
<1>1. MaxRows \in Nat
  BY InventoryAssumption
<1>2. PulledAll(rows, take, p) = {s.table : s \in v[MaxRows]}
  BY DEF PulledAll, PullsOf
<1>3. PullsOf(rows, take, p, MaxRows, v)
  BY <1>1, PullsExist
<1> HIDE DEF v
<1>4. Good(0)
  <2> DEFINE s == [table |-> rows, take |-> take]
  <2>1. v[0] = {s}
    <3>1. 0 \in 0 .. MaxRows
      BY <1>1
    <3> QED
      BY <1>3, <3>1 DEF PullsOf
  <2>2. rows \in Tables /\ Placed(rows, deck) /\ Follows(rows, rows)
    BY FollowsItself DEF StockInv, TypeOK
  <2>3. s.table = rows /\ s.take = take
    OBVIOUS
  <2> HIDE DEF s
  <2>4. PullState(s)
    BY <2>2, <2>3 DEF PullState, Pulled
  <2> QED
    BY <2>1, <2>4
<1>5. ASSUME NEW k \in 1 .. MaxRows, Good(k - 1)
      PROVE  Good(k)
  <2>1. v[k] = UNION {PullNext(s, p) : s \in v[k - 1]}
    <3>1. k \in 0 .. MaxRows /\ k # 0
      BY <1>1
    <3> QED
      BY <1>3, <3>1 DEF PullsOf
  <2> QED
    BY <1>5, <2>1, PullNextKeeps
<1>6. Bad = {}
  <2> SUFFICES ASSUME Bad # {} PROVE FALSE
    OBVIOUS
  <2>1. Bad \subseteq Nat
    BY <1>1
  <2>2. PICK k \in Bad : \A j \in Bad : k <= j
    BY <2>1, Smallest
  <2>3. k # 0 /\ k \in 0 .. MaxRows /\ ~Good(k)
    BY <1>4, <2>2
  <2>4. k \in 1 .. MaxRows /\ k - 1 \in 0 .. MaxRows /\ ~(k <= k - 1)
    BY <1>1, <2>3
  <2>5. k - 1 \notin Bad
    BY <2>2, <2>4
  <2>6. Good(k - 1)
    BY <2>4, <2>5
  <2> HIDE DEF Good
  <2> QED
    BY <1>5, <2>3, <2>4, <2>6
<1>7. MaxRows \in 0 .. MaxRows
  BY <1>1
<1>8. Good(MaxRows)
  BY <1>6, <1>7
<1> QED
  BY <1>2, <1>8 DEF PullState

\* So do the copies moved for a line, as many as there are.
LEMMA MovedKeeps ==
  ASSUME StockInv, deck # "none", NEW p, NEW m \in Nat, NEW T \in Moved(p, m)
  PROVE  Pulled(T)
<1> DEFINE loose == {i \in Available(p) : Loose(rows[i])}
           due == Lower(m, Quantity(rows, Available(p)))
           n == Lower(due, Quantity(rows, loose))
<1>1. rows \in Tables
  BY DEF StockInv, TypeOK
<1>2. Available(p) \in SUBSET Rows(rows) /\ loose \in SUBSET Rows(rows)
  BY DEF Available
<1>3. n \in Nat
  <2>1. Quantity(rows, Available(p)) \in Nat /\ Quantity(rows, loose) \in Nat
    BY <1>1, <1>2, QuantityType
  <2> HIDE DEF loose
  <2> QED
    BY <2>1 DEF Lower
<1>4. PICK take \in Drains(rows, loose, n, Preference(p)) : T \in PulledAll(rows, take, p)
  BY DEF Moved
<1>5. \A i \in loose : Loose(rows[i])
  OBVIOUS
<1> HIDE DEF loose, n
<1>6. /\ Takeable(rows, take) /\ take \in [Ids -> Nat]
      /\ \A i \in Ids : take[i] # 0 => i \in loose
  BY <1>1, <1>2, <1>3, <1>4, DrainsEffect
<1>7. \A i \in Ids : take[i] # 0 => /\ i \in Rows(rows) /\ Loose(rows[i])
                                    /\ take[i] <= rows[i].qty
  BY <1>2, <1>5, <1>6 DEF Takeable
<1> QED
  BY <1>4, <1>6, <1>7, PulledAllKeeps

\* What the log says of the collection is true of a table pulls have made of it.
LEMMA PulledSound ==
  ASSUME StockInv, NEW T, Pulled(T), NEW S, S = [table |-> T, log |-> log]
  PROVE  Sound(S)
<1>1. /\ log \in Seq(Entry) /\ T \in Tables /\ Placed(T, deck) /\ Follows(rows, T)
      /\ \A p \in Printings : Copies(T, p) = Copies(rows, p)
  BY DEF StockInv, TypeOK, Pulled
<1>2. S \in [table : Tables, log : Seq(Entry)] /\ S.table = T /\ S.log = log
  BY <1>1
<1>3. Told(T, log)
  <2>1. ASSUME NEW e \in DOMAIN log, log[e].row \in Rows(T)
        PROVE  log[e].real <=> ~IsProxy(T[log[e].row])
    <3>1. log[e].row \in Ids /\ T[log[e].row] # NoRow /\ log[e].row # 0
      BY <2>1 DEF Rows, Ids
    <3>2. log[e].row \in Rows(rows) /\ ~log[e].reversed
      BY <3>1 DEF StockInv, LogIsSound
    <3>3. log[e].real <=> ~IsProxy(rows[log[e].row])
      BY <3>2 DEF StockInv, LogIsSound, Told
    <3>4. IsProxy(T[log[e].row]) = IsProxy(rows[log[e].row])
      BY <1>1, <3>1, <3>2 DEF Follows, Rows
    <3> QED
      BY <3>3, <3>4
  <2> QED
    BY <2>1 DEF Told
<1> QED
  BY <1>1, <1>2, <1>3 DEF Sound, StockInv, Conserved

\* The row credited with new copies joins the list.
LEMMA JoinedKeeps ==
  ASSUME StockInv, deck # "none", NEW S, Sound(S), NEW i \in Rows(S.table), NEW X \in Joined(S, i)
  PROVE  Sound(X)
<1> DEFINE T == S.table
           V == [T EXCEPT ![i].kind = Arriving(@, "deck")]
<1>1. /\ T \in Tables /\ Placed(T, deck) /\ Told(T, S.log) /\ i \in Ids
      /\ T[i] \in Row /\ T[i] # NoRow /\ Fits(T[i], deck)
  BY DEF Sound, Rows, Tables, Placed
<1>2. PICK U \in Moves(V, i, "deck") : X = [S EXCEPT !.table = U]
  BY DEF Joined
<1> HIDE DEF T
<1>3. /\ V[i] \in Row /\ \A j \in Ids \ {i} : V[j] = T[j]
      /\ V[i].card = T[i].card /\ V[i].qty = T[i].qty
      /\ V[i].kind = Arriving(T[i].kind, "deck")
  <2>1. V[i] = [T[i] EXCEPT !.kind = Arriving(T[i].kind, "deck")]
    BY <1>1 DEF Tables
  <2>2. Arriving(T[i].kind, "deck") \in Kinds
    BY <1>1 DEF Arriving, Kinds, Row
  <2> QED
    BY <1>1, <2>1, <2>2 DEF Row, Tables
<1>4. IsProxy(V[i]) = IsProxy(T[i])
  BY <1>1, <1>3 DEF IsProxy, Arriving, Row, Kinds
<1>5. V \in Tables /\ i \in Rows(V) /\ \A j \in Ids : Reworked(T[j], V[j])
  BY <1>1, <1>3, <1>4, InventoryAssumption DEF Tables, Rows, Reworked
<1>6. Fits([V[i] EXCEPT !.at = "deck"], deck)
  <2>1. [V[i] EXCEPT !.at = "deck"].at = "deck" /\ [V[i] EXCEPT !.at = "deck"].kind = V[i].kind
    BY <1>3 DEF Row
  <2>2. V[i].kind = "placeholder" => deck = "brew"
    BY <1>1, <1>3 DEF Arriving, Fits
  <2> QED
    BY <2>1, <2>2 DEF Fits, DeckSpots
<1>7. \A j \in Ids \ {i} : Fits(V[j], deck)
  BY <1>1, <1>3 DEF Placed
<1>8. \A p : Copies(V, p) = Copies(T, p)
  <2>1. \A j \in Ids : T[j] # NoRow => V[j] # NoRow
    BY <1>3, InventoryAssumption
  <2> HIDE DEF V
  <2> QED
    BY <1>1, <1>5, <2>1, ReworkKeeps, FollowsItself
<1>9. \A j \in Ids : V[j] # NoRow => T[j] # NoRow /\ IsProxy(V[j]) = IsProxy(T[j])
  BY <1>1, <1>3, <1>4
<1> HIDE DEF V
<1>10. "deck" \in Spots
  BY DEF Spots
<1>11. U \in Tables /\ Placed(U, deck) /\ \A p : Copies(U, p) = Copies(V, p)
  BY <1>2, <1>5, <1>6, <1>7, <1>10, MoveKeeps
<1>12. \A j \in Ids : U[j] # NoRow => V[j] # NoRow /\ IsProxy(U[j]) = IsProxy(V[j])
  BY <1>2, <1>5, <1>10, MovedRows
<1>13. Told(U, S.log)
  BY <1>1, <1>9, <1>12 DEF Told, Rows
<1>14. \A p \in Printings : Copies(U, p) = Copies(S.table, p)
  BY <1>8, <1>11 DEF T
<1> QED
  BY <1>2, <1>11, <1>13, <1>14, TableStepKeeps

\* So do new copies, if there are any.
LEMMA AcquiredKeeps ==
  ASSUME StockInv, deck # "none", NEW T, Pulled(T), NEW p \in Printings,
         NEW kind \in {"real", "proxy"}, NEW k \in Nat, k <= MaxCopies,
         NEW X \in Acquired(T, p, kind, k)
  PROVE  Sound(X)
<1> DEFINE S == [table |-> T, log |-> log]
           b == IF log = <<>> THEN 1 ELSE log[Len(log)].batch + 1
           l == [card |-> p, kind |-> kind, qty |-> k, to |-> "pending"]
<1>1. Sound(S) /\ MaxCopies \in Nat
  BY PulledSound, StockAssumption
<1>2. b \in Nat
  <2>1. log \in Seq(Entry)
    BY DEF StockInv, TypeOK
  <2>2. log # <<>> => Len(log) \in 1 .. Len(log)
    BY <2>1, EmptySeq, LenProperties
  <2>3. log # <<>> => log[Len(log)] \in Entry
    BY <2>1, <2>2, ElementOfSeq
  <2> QED
    BY <2>3 DEF Entry
<1>3. CASE k = 0
  <2>1. X = S
    BY <1>3 DEF Acquired
  <2> QED
    BY <1>1, <2>1
<1>4. CASE k # 0
  <2>1. l \in Line /\ l.to = "pending"
    BY <1>1, <1>4 DEF Line
  <2>2. PICK U \in Persist(S, l, b) : X \in Joined(U, U.log[Len(U.log)].row)
    BY <1>4 DEF Acquired
  <2> HIDE DEF S, b, l
  <2>3. /\ Sound(U) /\ Len(U.log) = Len(S.log) + 1
        /\ U.log[Len(S.log) + 1].row \in Rows(U.table)
    BY <1>1, <1>2, <2>1, <2>2, PersistKeeps
  <2> QED
    BY <2>2, <2>3, JoinedKeeps
<1> QED
  BY <1>3, <1>4

\* New copies find room, so they are no more than there may be.
LEMMA RoomBounds ==
  ASSUME StockInv, NEW k \in Nat, Room(k)
  PROVE  k <= MaxCopies
<1>1. Quantity(rows, Rows(rows)) \in Nat
  BY QuantityType DEF StockInv, TypeOK
<1> QED
  BY <1>1, StockAssumption DEF Room

\* The invariant survives the import of a line into the deck.
LEMMA ImportToDeckKeeps ==
  ASSUME StockInv, NEW p \in Printings, NEW kind \in {"real", "proxy"},
         NEW m \in Nat, NEW n \in Nat, ImportToDeck(p, kind, m, n)
  PROVE  StockInv'
<1> DEFINE k == m - Lower(m, Quantity(rows, Available(p))) + n
<1>1. k \in Nat
  <2>1. Available(p) \in SUBSET Rows(rows)
    BY DEF Available
  <2>2. Quantity(rows, Available(p)) \in Nat
    BY <2>1, QuantityType DEF StockInv, TypeOK
  <2> QED
    BY <2>2 DEF Lower
<1>2. /\ deck # "none" /\ Room(k) /\ UNCHANGED <<deck, owned>>
  BY DEF ImportToDeck
<1>3. PICK T \in Moved(p, m) : \E S \in Acquired(T, p, NewKind(kind), k) : Commit(S.table, S.log)
  BY DEF ImportToDeck
<1>4. PICK S \in Acquired(T, p, NewKind(kind), k) : Commit(S.table, S.log)
  BY <1>3
<1> HIDE DEF k
<1>5. NewKind(kind) \in {"real", "proxy"}
  BY DEF NewKind
<1>6. Pulled(T) /\ k <= MaxCopies
  BY <1>1, <1>2, <1>3, MovedKeeps, RoomBounds
<1>7. Sound(S)
  BY <1>1, <1>2, <1>4, <1>5, <1>6, AcquiredKeeps
<1> QED
  BY <1>2, <1>4, <1>7, SoundEnds

\* The invariant survives a plan for the assembly page.
LEMMA PlanAssemblyKeeps ==
  ASSUME StockInv, NEW p \in Printings, NEW n \in Nat, PlanAssembly(p, n)
  PROVE  StockInv'
<1>1. deck = "brew" /\ Room(n) /\ UNCHANGED <<deck, owned>>
  BY DEF PlanAssembly
<1>2. PICK S \in Acquired(rows, p, "proxy", n) : Commit(S.table, S.log)
  BY DEF PlanAssembly
<1>3. Pulled(rows)
  BY FollowsItself DEF Pulled, StockInv, TypeOK
<1>4. n <= MaxCopies
  BY <1>1, RoomBounds
<1>5. Sound(S)
  BY <1>1, <1>2, <1>3, <1>4, AcquiredKeeps
<1> QED
  BY <1>1, <1>2, <1>5, SoundEnds

\* Every step of a collection with imports into the deck keeps the invariant.
LEMMA IntakeStep == StockInv /\ [NextIntake]_vars => StockInv'
<1> SUFFICES ASSUME StockInv, [NextIntake]_vars PROVE StockInv'
  OBVIOUS
<1>1. CASE [Next]_vars
  BY <1>1, StockStep
<1>2. 0 .. MaxCopies \subseteq Nat /\ 1 .. MaxCopies \subseteq Nat
  BY StockAssumption
<1>3. ASSUME NEW p \in Printings, NEW kind \in {"real", "proxy"},
             NEW m \in 0 .. MaxCopies, NEW n \in 0 .. MaxCopies, ImportToDeck(p, kind, m, n)
      PROVE  StockInv'
  BY <1>2, <1>3, ImportToDeckKeeps
<1>4. ASSUME NEW p \in Printings, NEW n \in 1 .. MaxCopies, PlanAssembly(p, n)
      PROVE  StockInv'
  BY <1>2, <1>4, PlanAssemblyKeeps
<1> QED
  BY <1>1, <1>3, <1>4 DEF NextIntake, ImportList

\* The inductive invariant of a collection that decks are imported into as well.
THEOREM IntakeInvariant == SpecIntake => []StockInv
<1>1. Init => StockInv
  BY StockInit
<1>2. StockInv /\ [NextIntake]_vars => StockInv'
  BY IntakeStep
<1> QED
  BY <1>1, <1>2, PTL DEF SpecIntake

\* Importing lists into the deck keeps every row, the deck, every entry of the log
\* and the balance what the tables say (_commit_deck_import_with_reconciliation).
THEOREM IntakeTypeOK == SpecIntake => []TypeOK
<1>1. StockInv => TypeOK
  BY DEF StockInv
<1> QED
  BY <1>1, IntakeInvariant, PTL

\* No card is lost or made up by an import into the deck either: however the loop of
\* pulls covers a line, in the order of find_inventory_matches_for_deck_import, and
\* whatever it acquires for the rest, the real copies of a printing are those
\* acquired and not disposed of, and those of the imports not undone.
THEOREM IntakeConserves == SpecIntake => []Conserved
<1>1. StockInv => Conserved
  BY DEF StockInv
<1> QED
  BY <1>1, IntakeInvariant, PTL

\* A placeholder that an import makes, or that its pulls replace, never gets to the
\* collection, nor outlives its brew deck.
THEOREM IntakeKeepsPlaceholdersHome == SpecIntake => []PlaceholdersStayHome
<1>1. StockInv => PlaceholdersStayHome
  BY PlacedMeans DEF StockInv
<1> QED
  BY <1>1, IntakeInvariant, PTL

\* No import leaves a row in a deck that has been retired.
THEOREM IntakeStrandsNothing == SpecIntake => []NoneStranded
<1>1. StockInv => NoneStranded
  BY PlacedMeans DEF StockInv
<1> QED
  BY <1>1, IntakeInvariant, PTL

----------------------------------------------------------------------------
(* Imports that can be undone *)

\* Entry e of an import in progress can be undone as things stand.
Current(X, e) ==
  /\ X.log[e].row \in Rows(X.table)
  /\ X.table[X.log[e].row].card = X.log[e].card
  /\ X.log[e].qty <= X.table[X.log[e].row].qty
  /\ ~X.log[e].reversed

\* The entry of a line that has just been persisted.
LEMMA PersistCurrent ==
  ASSUME MaxCopies \in Nat, NEW S, Sound(S), NEW l \in Line, NEW b, NEW X \in Persist(S, l, b)
  PROVE  Current(X, Len(S.log) + 1)
<1> DEFINE n == Len(S.log) + 1
<1> SUFFICES Current(X, n)
  OBVIOUS
<1>1. S.table \in Tables /\ S.log \in Seq(Entry) /\ n \in Nat
  BY DEF Sound
<1>2. l.qty \in Nat \ {0} /\ l.card \in Printings /\ l.to \in Spots /\ l.kind \in Kinds
  BY DEF Line, Spots, Kinds
<1>3. ASSUME NEW U, NEW i \in Ids, X = Credited(S, U, i, l, b)
      PROVE  X.table = U /\ X.log[n].row = i /\ X.log[n].card = l.card
             /\ X.log[n].qty = l.qty /\ X.log[n].reversed = FALSE
  <2> DEFINE x == [row |-> i, card |-> l.card, real |-> U[i].kind = "real",
                   qty |-> l.qty, batch |-> b, reversed |-> FALSE]
             L == S.log
  <2>1. X.table = U /\ X.log = Append(L, x)
    BY <1>3 DEF Credited
  <2>2. /\ x.row = i /\ x.card = l.card /\ x.qty = l.qty /\ x.reversed = FALSE
    OBVIOUS
  <2> HIDE DEF x
  <2>3. Append(L, x)[Len(L) + 1] = x
    BY <1>1
  <2> QED
    BY <2>1, <2>2, <2>3
<1> HIDE DEF n
<1>4. CASE \E i \in Fresh(InUse(S), S.table) :
             X = Credited(S, [S.table EXCEPT ![i] =
                   [card |-> l.card, at |-> l.to, kind |-> l.kind, qty |-> l.qty]], i, l, b)
  <2> DEFINE r == [card |-> l.card, at |-> l.to, kind |-> l.kind, qty |-> l.qty]
  <2>1. PICK i \in Fresh(InUse(S), S.table) : X = Credited(S, [S.table EXCEPT ![i] = r], i, l, b)
    BY <1>4
  <2>2. r \in Row /\ r # NoRow /\ r.card = l.card /\ r.qty = l.qty /\ i \in Ids
    BY <1>2, InventoryAssumption DEF Row, Fresh
  <2> DEFINE U == [S.table EXCEPT ![i] = r]
  <2>3. U[i] = r
    BY <1>1, <2>2 DEF Tables
  <2> HIDE DEF r, U
  <2>4. X = Credited(S, U, i, l, b)
    BY <2>1 DEF U
  <2>5. X.table = U /\ X.log[n].row = i /\ X.log[n].card = l.card
        /\ X.log[n].qty = l.qty /\ X.log[n].reversed = FALSE
    BY <1>3, <2>2, <2>4
  <2> QED
    BY <1>2, <2>2, <2>3, <2>5, InventoryAssumption DEF Current, Rows
<1>5. CASE \E i \in Creditable(S.table, l) :
             X = Credited(S, [S.table EXCEPT ![i].qty = @ + l.qty], i, l, b)
  <2>1. PICK i \in Creditable(S.table, l) :
          X = Credited(S, [S.table EXCEPT ![i].qty = @ + l.qty], i, l, b)
    BY <1>5
  <2> DEFINE U == [S.table EXCEPT ![i].qty = @ + l.qty]
             t == S.table[i]
  <2>2. i \in Ids /\ t \in Row /\ t.card = l.card /\ t.qty \in Nat
    BY <1>1, <2>1 DEF Creditable, Rows, Tables, Row
  <2>3. U[i] = [t EXCEPT !.qty = t.qty + l.qty]
    BY <1>1, <2>2 DEF Tables
  <2>4. U[i] \in Row /\ U[i].card = l.card /\ U[i].qty = t.qty + l.qty
    BY <1>2, <2>2, <2>3 DEF Row
  <2> HIDE DEF t, U
  <2>5. X = Credited(S, U, i, l, b)
    BY <2>1 DEF U
  <2>6. X.table = U /\ X.log[n].row = i /\ X.log[n].card = l.card
        /\ X.log[n].qty = l.qty /\ X.log[n].reversed = FALSE
    BY <1>3, <2>2, <2>5
  <2>7. U[i] # NoRow /\ l.qty <= U[i].qty
    BY <1>2, <2>2, <2>4, InventoryAssumption
  <2> QED
    BY <2>2, <2>4, <2>6, <2>7 DEF Current, Rows
<1> QED
  BY <1>4, <1>5 DEF Persist, n

\* An entry follows its copies when place_imported_rows merges the row away.
LEMMA PlaceCurrent ==
  ASSUME NEW S, Sound(S), NEW i \in Rows(S.table), NEW at \in Spots,
         NEW e \in 1 .. Len(S.log), S.log[e].row = i, Current(S, e), NEW X \in Place(S, i, at)
  PROVE  Current(X, e)
<1> DEFINE T == S.table
           r == [T[i] EXCEPT !.at = at]
           M == Matches(T, r) \ {i}
           x == S.log[e]
<1>1. /\ S \in [table : Tables, log : Seq(Entry)] /\ T \in Tables /\ S.log \in Seq(Entry)
      /\ i \in Ids /\ T[i] \in Row /\ T[i] # NoRow /\ x \in Entry /\ T[i].qty \in Nat
  BY DEF Sound, Rows, Tables, Row
<1>2. /\ r \in Row /\ r # NoRow /\ r.card = T[i].card /\ r.qty = T[i].qty
      /\ x.row = i /\ T[i].card = x.card /\ x.qty <= T[i].qty /\ ~x.reversed /\ x.qty \in Nat
  BY <1>1, InventoryAssumption DEF Row, Current, Entry
<1>3. CASE M = {}
  <2>1. X = [S EXCEPT !.table = [T EXCEPT ![i] = r]]
    BY <1>3 DEF Place
  <2>2. X.log = S.log /\ X.table = [T EXCEPT ![i] = r]
    BY <1>1, <2>1
  <2>3. X.table[i] = r
    BY <1>1, <2>2 DEF Tables
  <2> QED
    BY <1>1, <1>2, <2>2, <2>3 DEF Current, Rows
<1>4. CASE M # {}
  <2>1. PICK j \in M :
          X = [table |-> [T EXCEPT ![j].qty = @ + r.qty, ![i] = NoRow],
               log |-> Redirected(S.log, i, j)]
    BY <1>4 DEF Place
  <2>2. /\ j \in Ids /\ j # i /\ T[j] \in Row /\ T[j].card = r.card /\ T[j].qty \in Nat
    BY <1>1, <2>1 DEF Matches, Rows, Mergeable, Tables, Row
  <2>3. X.table[j] = [T[j] EXCEPT !.qty = T[j].qty + r.qty]
    BY <1>1, <2>1, <2>2 DEF Tables
  <2>4. X.table[j] \in Row /\ X.table[j].card = T[j].card /\ X.table[j].qty = T[j].qty + r.qty
    BY <1>1, <1>2, <2>2, <2>3 DEF Row
  <2>5. X.log = Redirected(S.log, i, j) /\ DOMAIN S.log = 1 .. Len(S.log)
    BY <1>1, <2>1
  <2>6. X.log[e] = [x EXCEPT !.row = j]
    BY <1>2, <2>5 DEF Redirected
  <2>7. X.log[e].row = j /\ X.log[e].card = x.card /\ X.log[e].qty = x.qty /\ ~X.log[e].reversed
    BY <1>1, <1>2, <2>6 DEF Entry
  <2>8. X.table[j] # NoRow
    BY <2>4, InventoryAssumption
  <2> HIDE DEF T, r, M, x
  <2> QED
    BY <1>1, <1>2, <2>2, <2>4, <2>7, <2>8 DEF Current, Rows
<1> QED
  BY <1>3, <1>4

\* The commit leaves it so.
LEMMA CommitCurrent ==
  ASSUME NEW S, Sound(S), NEW e \in 1 .. Len(S.log), Current(S, e), Commit(S.table, S.log)
  PROVE  CanBeUndone(e)'
<1>1. rows' = S.table /\ S.log \in Seq(Entry)
  BY DEF Commit, Sound
<1> DEFINE L == S.log
<1>2. /\ log'[e].card = L[e].card /\ log'[e].qty = L[e].qty
      /\ log'[e].row = IF L[e].row \in Rows(S.table) /\ ~L[e].reversed THEN L[e].row ELSE 0
  BY <1>1, CommittedLog
<1> QED
  BY <1>1, <1>2 DEF Current, CanBeUndone

\* An import of one line, filed as pending or in the box.
LEMMA ImportCurrent ==
  ASSUME StockInv, NEW l \in Line, NEW dest \in {"pending", "box"}, Import(<<l>>, dest)
  PROVE  /\ Len(log') = Len(log) + 1
         /\ \A e : e = Len(log) + 1 => CanBeUndone(e)'
<1> DEFINE n == Len(log)
           b == IF n = 0 THEN 1 ELSE log[n].batch + 1
           lines == <<l>>
<1>1. log \in Seq(Entry) /\ n \in Nat /\ b \in Nat /\ MaxCopies \in Nat
  <2>1. log \in Seq(Entry) /\ n \in Nat /\ (n # 0 => log[n] \in Entry)
    BY DEF StockInv, TypeOK
  <2> QED
    BY <2>1, StockAssumption DEF Entry
<1>2. Sound(Begun) /\ Begun.log = log
  BY BegunSound DEF Begun
<1>3. Len(lines) = 1 /\ lines[1] = l /\ DOMAIN lines = {1}
  OBVIOUS
<1>4. l.to = "deck" => deck = "plain"
  BY <1>3 DEF Import
<1> HIDE DEF lines
<1>5. PICK S1 \in Persist(Begun, l, b) :
        \E S2 \in IF Len(lines) = 1 THEN {S1} ELSE Persist(S1, lines[2], b) :
        \E S3 \in Settled(S2, {S2.log[e].row : e \in (n + 1) .. (n + Len(lines))}, dest) :
        \E U \in IF dest = "sorter" THEN Resorts(S3.table) ELSE {S3.table} :
          Commit(U, S3.log)
  BY <1>3 DEF Import, lines
<1>6. PICK S3 \in Settled(S1, {S1.log[e].row : e \in (n + 1) .. (n + 1)}, dest) :
        Commit(S3.table, S3.log)
  BY <1>3, <1>5
<1> HIDE DEF b
<1>7. /\ Sound(S1) /\ Len(S1.log) = n + 1 /\ S1.log[n + 1].row \in Rows(S1.table)
      /\ Current(S1, n + 1)
  <2>1. /\ Sound(S1) /\ Len(S1.log) = Len(Begun.log) + 1
        /\ S1.log[Len(Begun.log) + 1].row \in Rows(S1.table)
    BY <1>1, <1>2, <1>4, <1>5, PersistKeeps
  <2>2. Current(S1, Len(Begun.log) + 1)
    BY <1>1, <1>2, <1>5, PersistCurrent
  <2> QED
    BY <1>2, <2>1, <2>2
<1> HIDE DEF n
<1> DEFINE i == S1.log[n + 1].row
<1>8. S3 \in Settle(S1, i, dest)
  <2>1. {S1.log[e].row : e \in (n + 1) .. (n + 1)} = {i}
    BY <1>1
  <2> HIDE DEF i
  <2>2. S3 \in Settled(S1, {i}, dest)
    BY <1>6, <2>1
  <2> QED
    BY <2>2 DEF Settled
<1>9. Sound(S3)
  BY <1>7, <1>8, SettleKeeps
<1>10. n + 1 \in 1 .. Len(S1.log)
  BY <1>1, <1>7
<1>11. S3 = S1 \/ \E at \in Spots : S3 \in Place(S1, i, at)
  <2>1. S1.table[i].at \in Spots /\ "box" \in Spots
    BY <1>7 DEF Sound, Rows, Tables, Row, Spots
  <2> HIDE DEF i
  <2> QED
    BY <1>8, <2>1 DEF Settle
<1>12. Current(S3, n + 1) /\ Len(S3.log) = Len(S1.log)
  <2>1. ASSUME NEW at \in Spots, S3 \in Place(S1, i, at)
        PROVE  Current(S3, n + 1) /\ Len(S3.log) = Len(S1.log)
    <3>1. Current(S3, n + 1)
      BY <1>7, <1>10, <2>1, PlaceCurrent
    <3>2. S1 \in [table : Tables, log : Seq(Entry)]
      BY <1>7 DEF Sound
    <3>3. S3.log = S1.log \/ \E j : S3.log = Redirected(S1.log, i, j)
      <4> HIDE DEF i
      <4> QED
        BY <2>1, <3>2 DEF Place
    <3>4. \A j : Len(Redirected(S1.log, i, j)) = Len(S1.log)
      <4>1. DOMAIN S1.log = 1 .. Len(S1.log) /\ Len(S1.log) \in Nat
        BY <3>2
      <4> QED
        BY <4>1 DEF Redirected
    <3> QED
      BY <3>1, <3>3, <3>4
  <2> QED
    BY <1>7, <1>11, <2>1
<1>13. n + 1 \in 1 .. Len(S3.log)
  BY <1>10, <1>12
<1>14. ASSUME NEW e, e = n + 1
       PROVE  CanBeUndone(e)'
  <2>1. e \in 1 .. Len(S3.log) /\ Current(S3, e)
    BY <1>12, <1>13, <1>14
  <2> QED
    BY <1>6, <1>9, <2>1, CommitCurrent
<1>15. Len(log') = Len(S3.log)
  <2>1. S3.log \in Seq(Entry)
    BY <1>9 DEF Sound
  <2> QED
    BY <1>6, <2>1, CommittedLog
<1> QED
  BY <1>7, <1>12, <1>14, <1>15 DEF n

\* What a step must do for ImportsCanBeUndone.
NewlyUndoable ==
  \A e \in (Len(log) + 1) .. Len(log') :
    (\E l \in Line, dest \in {"pending", "box"} : Import(<<l>>, dest)) => CanBeUndone(e)'

\* An import can be undone when it has just been made: its entry refers to the row
\* that has its copies, as many of them and of that card, wherever they were placed
\* and whatever row they were merged into (persist_import_rows, place_imported_rows).
THEOREM ImportsAreUndoable == SpecIntake => ImportsCanBeUndone
<1>1. StockInv /\ [NextIntake]_vars => [NewlyUndoable]_vars
  <2> SUFFICES ASSUME StockInv, NEW e \in (Len(log) + 1) .. Len(log'),
                      NEW l \in Line, NEW dest \in {"pending", "box"}, Import(<<l>>, dest)
               PROVE  CanBeUndone(e)'
    BY DEF NewlyUndoable
  <2>1. Len(log') = Len(log) + 1 /\ \A k : k = Len(log) + 1 => CanBeUndone(k)'
    BY ImportCurrent
  <2>2. Len(log) \in Nat
    BY DEF StockInv, TypeOK
  <2>3. e = Len(log) + 1
    BY <2>1, <2>2
  <2> QED
    BY <2>1, <2>3
<1> QED
  BY <1>1, IntakeInvariant, PTL DEF SpecIntake, ImportsCanBeUndone, NewlyUndoable

----------------------------------------------------------------------------
(* Pulls that replace proxies *)

\* The two tallies: "proxies", those of the list, and "loose", real copies outside
\* the deck.
Counted(c, r) ==
  /\ r # NoRow
  /\ IF c = "proxies" THEN r.at = "deck" /\ IsProxy(r) ELSE Loose(r) /\ ~IsProxy(r)

Count(c, r) == IF Counted(c, r) THEN r.qty ELSE 0

Tally(c, T) == Total(MaxRows, [i \in Ids |-> Count(c, T[i])])

\* A row counts for a natural number.
LEMMA CountType ==
  ASSUME NEW c, NEW r \in Row \cup {NoRow}
  PROVE  Count(c, r) \in Nat
BY DEF Count, Counted, Row

\* The tallies are the quantities the property compares.
LEMMA TalliesAre ==
  ASSUME NEW T \in Tables
  PROVE  /\ Quantity(T, DeckProxies(T)) = Tally("proxies", T)
         /\ Quantity(T, LooseReal(T)) = Tally("loose", T)
<1>1. ASSUME NEW c, NEW S, \A i \in Ids : i \in S <=> Counted(c, T[i])
      PROVE  Quantity(T, S) = Tally(c, T)
  <2> DEFINE f == [i \in Ids |-> IF i \in S THEN T[i].qty ELSE 0]
             g == [i \in Ids |-> Count(c, T[i])]
  <2>1. \A i \in 1 .. MaxRows : f[i] = g[i]
    BY <1>1 DEF Ids, Count
  <2>2. Total(MaxRows, f) = Total(MaxRows, g)
    <3> HIDE DEF f, g
    <3> QED
      BY <2>1, InventoryAssumption, TotalSame
  <2> QED
    BY <2>2 DEF Quantity, Tally
<1>2. \A i \in Ids : /\ i \in DeckProxies(T) <=> Counted("proxies", T[i])
                     /\ i \in LooseReal(T) <=> Counted("loose", T[i])
  BY DEF DeckProxies, LooseReal, Rows, Counted
<1> QED
  BY <1>1, <1>2

\* A tally is a natural number.
LEMMA TallyType ==
  ASSUME NEW T \in Tables, NEW c
  PROVE  Tally(c, T) \in Nat
<1> DEFINE f == [i \in Ids |-> Count(c, T[i])]
<1>1. \A i \in 1 .. MaxRows : f[i] \in Nat
  BY CountType DEF Ids, Tables
<1>2. Total(MaxRows, f) \in Nat
  <2> HIDE DEF f
  <2> QED
    BY <1>1, InventoryAssumption, TotalType
<1> QED
  BY <1>2 DEF Tally

\* A tally falls as the rows' counts do.
LEMMA TallyFalls ==
  ASSUME NEW T \in Tables, NEW U \in Tables, NEW c, NEW t,
         \A i \in Ids : t[i] \in Nat /\ Count(c, U[i]) = Count(c, T[i]) - t[i]
  PROVE  Tally(c, U) = Tally(c, T) - Total(MaxRows, t)
<1> DEFINE f == [i \in Ids |-> Count(c, T[i])]
           g == [i \in Ids |-> Count(c, U[i])]
<1>1. ASSUME NEW i \in 1 .. MaxRows
      PROVE  g[i] \in Int /\ t[i] \in Int /\ f[i] = g[i] + t[i]
  <2>1. i \in Ids /\ T[i] \in Row \cup {NoRow}
    BY DEF Ids, Tables
  <2>2. Count(c, T[i]) \in Nat
    BY <2>1, CountType
  <2>3. t[i] \in Nat /\ Count(c, U[i]) = Count(c, T[i]) - t[i]
    BY <2>1
  <2>4. f[i] = Count(c, T[i]) /\ g[i] = Count(c, U[i])
    BY <2>1
  <2> HIDE DEF f, g
  <2> QED
    BY <2>2, <2>3, <2>4
<1>2. Total(MaxRows, f) = Total(MaxRows, g) + Total(MaxRows, t)
  <2> HIDE DEF f, g
  <2> QED
    BY <1>1, InventoryAssumption, TotalAdds
<1>3. Total(MaxRows, t) \in Nat
  BY TotalType, InventoryAssumption DEF Ids
<1>4. Tally(c, T) = Total(MaxRows, f) /\ Tally(c, U) = Total(MaxRows, g)
  BY DEF Tally
<1>5. Tally(c, T) \in Nat /\ Tally(c, U) \in Nat
  BY TallyType
<1> HIDE DEF f, g
<1> QED
  BY <1>2, <1>3, <1>4, <1>5

\* Tables whose rows count alike have the same tally.
LEMMA TallySame ==
  ASSUME NEW T, NEW U, NEW c, \A i \in Ids : Count(c, U[i]) = Count(c, T[i])
  PROVE  Tally(c, U) = Tally(c, T)
<1> DEFINE f == [i \in Ids |-> Count(c, T[i])]
           g == [i \in Ids |-> Count(c, U[i])]
<1>1. \A i \in 1 .. MaxRows : g[i] = f[i]
  BY DEF Ids
<1>2. Total(MaxRows, g) = Total(MaxRows, f)
  <2> HIDE DEF f, g
  <2> QED
    BY <1>1, InventoryAssumption, TotalSame
<1> QED
  BY <1>2 DEF Tally

\* What a row counts for without k of its copies.
LEMMA LessCount ==
  ASSUME NEW r \in Row, NEW k \in Nat, k <= r.qty, NEW c
  PROVE  Count(c, Less(r, k)) = Count(c, r) - (IF Counted(c, r) THEN k ELSE 0)
<1>1. r.qty \in Nat
  BY DEF Row
<1>2. CASE r.qty = k
  BY <1>1, <1>2 DEF Less, Count, Counted
<1>3. CASE r.qty # k
  <2>1. Less(r, k) = [r EXCEPT !.qty = r.qty - k] /\ r.qty - k \in Nat \ {0}
    BY <1>1, <1>3 DEF Less
  <2>2. Alike(Less(r, k), r) /\ Less(r, k).qty = r.qty - k
    BY <2>1 DEF Alike, Row
  <2>3. Counted(c, Less(r, k)) <=> Counted(c, r)
    BY <2>2, InventoryAssumption DEF Alike, Counted, Loose, IsProxy
  <2> QED
    BY <1>1, <2>2, <2>3 DEF Count
<1> QED
  BY <1>2, <1>3

\* Draining rows that are counted, or rows that are not.
LEMMA DrainedTally ==
  ASSUME NEW T \in Tables, NEW take, Takeable(T, take), NEW c
  PROVE  /\ (\A i \in Ids : take[i] # 0 => Counted(c, T[i]))
              => Tally(c, Drained(T, take)) = Tally(c, T) - Total(MaxRows, take)
         /\ (\A i \in Ids : take[i] # 0 => ~Counted(c, T[i]))
              => Tally(c, Drained(T, take)) = Tally(c, T)
<1> DEFINE U == Drained(T, take)
<1>1. U \in Tables /\ \A i \in Ids : take[i] \in Nat
  BY DrainedEffect DEF Takeable
<1>2. ASSUME NEW i \in Ids
      PROVE  Count(c, U[i]) = Count(c, T[i]) - (IF Counted(c, T[i]) THEN take[i] ELSE 0)
  <2>1. U[i] = IF take[i] = 0 THEN T[i] ELSE Less(T[i], take[i])
    BY DEF Drained
  <2>2. Count(c, T[i]) \in Nat
    BY CountType DEF Tables
  <2>3. CASE take[i] = 0
    BY <2>1, <2>2, <2>3
  <2>4. CASE take[i] # 0
    BY <1>1, <2>1, <2>4, LessCount DEF Takeable
  <2> QED
    BY <2>3, <2>4
<1>3. ASSUME \A i \in Ids : take[i] # 0 => Counted(c, T[i])
      PROVE  Tally(c, U) = Tally(c, T) - Total(MaxRows, take)
  <2>1. ASSUME NEW i \in Ids
        PROVE  Count(c, U[i]) = Count(c, T[i]) - take[i]
    <3>1. (IF Counted(c, T[i]) THEN take[i] ELSE 0) = take[i]
      BY <1>3
    <3> HIDE DEF U
    <3> QED
      BY <1>2, <3>1
  <2> HIDE DEF U
  <2> QED
    BY <1>1, <2>1, TallyFalls
<1>4. ASSUME \A i \in Ids : take[i] # 0 => ~Counted(c, T[i])
      PROVE  Tally(c, U) = Tally(c, T)
  <2>1. ASSUME NEW i \in Ids
        PROVE  Count(c, U[i]) = Count(c, T[i])
    <3>1. (IF Counted(c, T[i]) THEN take[i] ELSE 0) = 0
      BY <1>4
    <3>2. Count(c, T[i]) \in Nat
      BY CountType DEF Tables
    <3> HIDE DEF U
    <3> QED
      BY <1>2, <3>1, <3>2
  <2> HIDE DEF U
  <2> QED
    BY <2>1, TallySame
<1> QED
  BY <1>3, <1>4

\* Of k proxies asked to give way, as many go as there are.
LEMMA ReplacedTally ==
  ASSUME NEW T \in Tables, NEW p, NEW k \in Nat, NEW U \in Replaced(T, p, k)
  PROVE  Tally("proxies", U) = Tally("proxies", T) - Lower(Tally("proxies", T), k)
<1> DEFINE S == DeckProxies(T)
           n == Lower(k, Quantity(T, S))
<1>1. S \in SUBSET Rows(T) /\ \A i \in S : Counted("proxies", T[i])
  BY DEF DeckProxies, Counted, Rows
<1>2. n \in Nat /\ Quantity(T, S) = Tally("proxies", T) /\ Quantity(T, S) \in Nat
  BY <1>1, QuantityType, TalliesAre DEF Lower
<1>3. PICK take \in Drains(T, S, n, Closest(T, p)) : U = Drained(T, take)
  BY DEF Replaced, Replaceable
<1>4. n = Lower(Tally("proxies", T), k)
  BY <1>2 DEF Lower
<1> HIDE DEF S, n
<1>5. Takeable(T, take) /\ Total(MaxRows, take) = n /\ \A i \in Ids : take[i] # 0 => i \in S
  BY <1>1, <1>2, DrainsEffect
<1>6. Tally("proxies", U) = Tally("proxies", T) - n
  BY <1>1, <1>3, <1>5, DrainedTally
<1> QED
  BY <1>4, <1>6

\* pull_card_to_deck: as many proxies of the list go as copies come, or all of them.
LEMMA PullReplaces ==
  ASSUME StockInv, NEW j \in LooseReal(rows), NEW k \in Nat \ {0}, PullCard(j, k)
  PROVE  Tally("proxies", rows') = Tally("proxies", rows) - Lower(Tally("proxies", rows), k)
<1> DEFINE p == rows[j].card
           D == Drained(rows, TakeFrom(j, k))
           r == NewRow(p, "deck", rows[j].kind, k)
<1>1. /\ j \in Ids /\ rows \in Tables /\ j \in Rows(rows) /\ rows[j] \in Row
      /\ Loose(rows[j]) /\ ~IsProxy(rows[j]) /\ k <= rows[j].qty
  BY DEF StockInv, TypeOK, LooseReal, Rows, Tables, PullCard
<1>2. PICK U \in Pulls(rows, j, k) : rows' = U
  BY DEF PullCard, Change, Commit
<1>3. PICK V \in Deposits(Rows(rows), D, r) : U \in Replaced(V, p, k)
  BY <1>1, <1>2 DEF Pulls
<1>4. r \in Row /\ ~IsProxy(r)
  BY <1>1 DEF NewRow, Arriving, IsProxy, Row, Spots, Kinds
<1>5. Takeable(rows, TakeFrom(j, k))
  BY <1>1, TakeFromOne
<1>6. D \in Tables /\ Tally("proxies", D) = Tally("proxies", rows)
  <2>1. \A i \in Ids : TakeFrom(j, k)[i] # 0 => ~Counted("proxies", rows[i])
    BY <1>1 DEF TakeFrom, Counted
  <2> QED
    BY <1>1, <1>5, <2>1, DrainedEffect, DrainedTally
<1> HIDE DEF p, D, r
<1>7. V \in Tables /\ Tally("proxies", V) = Tally("proxies", D)
  <2>1. V \in Tables
    BY <1>3, <1>4, <1>6, DepositEffect
  <2>2. PICK x \in Ids :
          /\ \A y \in Ids \ {x} : V[y] = D[y]
          /\ \/ x \notin Rows(rows) \cup Rows(D) /\ V[x] = r
             \/ D[x] \in Row /\ Mergeable(D[x], r) /\ Alike(V[x], D[x])
    BY <1>3, <1>4, <1>6, DepositEffect
  <2>3. ~Counted("proxies", V[x]) /\ ~Counted("proxies", D[x])
    BY <1>4, <2>2 DEF Counted, Mergeable, Alike, IsProxy, Rows
  <2>4. \A i \in Ids : Count("proxies", V[i]) = Count("proxies", D[i])
    BY <2>2, <2>3 DEF Count
  <2> QED
    BY <2>1, <2>4, TallySame
<1>8. Tally("proxies", U) = Tally("proxies", V) - Lower(Tally("proxies", V), k)
  BY <1>3, <1>7, ReplacedTally
<1> QED
  BY <1>2, <1>6, <1>7, <1>8

\* What a claim makes of a row's counts.
LEMMA ClaimedCount ==
  ASSUME StockInv, NEW take, Takeable(rows, take), NEW drop, Takeable(rows, drop),
         \A i \in Ids : take[i] # 0 => i \in LooseReal(rows),
         \A i \in Ids : drop[i] # 0 => i \in DeckProxies(rows),
         NEW to \in Landings(take), NEW i \in Ids, NEW r, r = Claimed(take, drop, to)[i]
  PROVE  /\ Count("proxies", r) = Count("proxies", rows[i]) - drop[i]
         /\ Count("loose", r) = Count("loose", rows[i]) - take[i]
<1>1. /\ rows \in Tables /\ rows[i] \in Row \cup {NoRow} /\ take[i] \in Nat /\ drop[i] \in Nat
  BY DEF StockInv, TypeOK, Tables, Takeable
<1>2. Count("proxies", rows[i]) \in Nat /\ Count("loose", rows[i]) \in Nat
  BY <1>1, CountType
<1>3. /\ take[i] # 0 => Counted("loose", rows[i]) /\ ~Counted("proxies", rows[i])
      /\ drop[i] # 0 => Counted("proxies", rows[i]) /\ ~Counted("loose", rows[i])
  BY DEF LooseReal, DeckProxies, Counted, Rows
<1>4. CASE take[i] > 0
  <2>1. r = Less(rows[i], take[i]) /\ rows[i] \in Row /\ take[i] <= rows[i].qty /\ drop[i] = 0
    BY <1>1, <1>3, <1>4 DEF Claimed, Takeable
  <2>2. /\ Count("proxies", r) = Count("proxies", rows[i])
                                   - (IF Counted("proxies", rows[i]) THEN take[i] ELSE 0)
        /\ Count("loose", r) = Count("loose", rows[i])
                                 - (IF Counted("loose", rows[i]) THEN take[i] ELSE 0)
    BY <1>1, <2>1, LessCount
  <2> QED
    BY <1>1, <1>2, <1>3, <1>4, <2>1, <2>2
<1>5. CASE take[i] = 0 /\ drop[i] > 0
  <2>1. r = Less(rows[i], drop[i]) /\ rows[i] \in Row /\ drop[i] <= rows[i].qty
    BY <1>1, <1>5 DEF Claimed, Takeable
  <2>2. /\ Count("proxies", r) = Count("proxies", rows[i])
                                   - (IF Counted("proxies", rows[i]) THEN drop[i] ELSE 0)
        /\ Count("loose", r) = Count("loose", rows[i])
                                 - (IF Counted("loose", rows[i]) THEN drop[i] ELSE 0)
    BY <1>1, <2>1, LessCount
  <2> QED
    BY <1>1, <1>2, <1>3, <1>5, <2>1, <2>2
<1>6. CASE take[i] = 0 /\ drop[i] = 0 /\ \E p \in Printings : Taken(take, p) > 0 /\ to[p] = i
  <2>1. PICK p \in Printings : Taken(take, p) > 0 /\ to[p] = i
    BY <1>6
  <2> DEFINE q == CHOOSE o \in Printings : Taken(take, o) > 0 /\ to[o] = i
  <2>2. r = IF i \in Rows(rows) THEN [rows[i] EXCEPT !.qty = @ + Taken(take, q)]
            ELSE [card |-> q, at |-> "deck", kind |-> "real", qty |-> Taken(take, q)]
    BY <1>6, <2>1 DEF Claimed
  <2> HIDE DEF q
  <2>3. \/ rows[i] \in Row /\ rows[i] # NoRow /\ rows[i].at = "deck" /\ rows[i].kind = "real"
        \/ rows[i] = NoRow
    BY <2>1, LandingIs
  <2>4. r.at = "deck" /\ r.kind = "real"
    <3>1. CASE rows[i] = NoRow
      BY <2>2, <3>1 DEF Rows
    <3>2. CASE rows[i] # NoRow
      <4>1. r = [rows[i] EXCEPT !.qty = @ + Taken(take, q)]
        BY <2>2, <3>2 DEF Rows
      <4> QED
        BY <2>3, <3>2, <4>1 DEF Row
    <3> QED
      BY <3>1, <3>2
  <2>5. /\ Count("proxies", r) = 0 /\ Count("loose", r) = 0
        /\ Count("proxies", rows[i]) = 0 /\ Count("loose", rows[i]) = 0
    BY <2>3, <2>4 DEF Count, Counted, Loose, IsProxy, DeckSpots
  <2> QED
    BY <1>6, <2>5
<1>7. CASE take[i] = 0 /\ drop[i] = 0 /\ ~ \E p \in Printings : Taken(take, p) > 0 /\ to[p] = i
  <2>1. r = rows[i]
    BY <1>7 DEF Claimed
  <2> QED
    BY <1>2, <1>7, <2>1
<1> QED
  BY <1>1, <1>4, <1>5, <1>6, <1>7

\* A claim takes from the loose copies and from the proxies what it says, whatever
\* the end of the claim makes of the deck.
LEMMA ClaimReplaces ==
  ASSUME StockInv, deck = "brew", NEW take, Takeable(rows, take), NEW drop, Takeable(rows, drop),
         \A i \in Ids : take[i] # 0 => i \in LooseReal(rows),
         \A i \in Ids : drop[i] # 0 => i \in DeckProxies(rows),
         NEW to \in Landings(take), FinishClaim(Claimed(take, drop, to))
  PROVE  /\ rows' \in Tables
         /\ Tally("proxies", rows') = Tally("proxies", rows) - Total(MaxRows, drop)
         /\ Tally("loose", rows') = Tally("loose", rows) - Total(MaxRows, take)
<1> DEFINE U == Claimed(take, drop, to)
<1>1. \A i \in Ids : U[i] \in Row \cup {NoRow}
  BY ClaimedRow
<1>2. \A i \in Ids : /\ Count("proxies", U[i]) = Count("proxies", rows[i]) - drop[i]
                     /\ Count("loose", U[i]) = Count("loose", rows[i]) - take[i]
  BY ClaimedCount
<1>3. U \in Tables
  <2>1. \E f : U = [i \in Ids |-> f[i]]
    <3> DEFINE f == [i \in Ids |-> U[i]]
    <3>1. U = [i \in Ids |-> f[i]]
      BY DEF Claimed
    <3> QED
      BY <3>1
  <2> HIDE DEF U
  <2> QED
    BY <1>1, <2>1 DEF Tables
<1>4. rows \in Tables /\ \A i \in Ids : take[i] \in Nat /\ drop[i] \in Nat
  BY DEF StockInv, TypeOK, Takeable
<1>5. rows' = U \/ rows' = Relabelled(U, "placeholder", "proxy")
  BY DEF FinishClaim, Change, Commit
<1> HIDE DEF U
<1>6. /\ Tally("proxies", U) = Tally("proxies", rows) - Total(MaxRows, drop)
      /\ Tally("loose", U) = Tally("loose", rows) - Total(MaxRows, take)
  BY <1>2, <1>3, <1>4, TallyFalls
<1> DEFINE W == Relabelled(U, "placeholder", "proxy")
<1>7. /\ W \in Tables
      /\ \A i \in Ids : Reworked(U[i], W[i]) /\ (U[i] # NoRow <=> W[i] # NoRow)
  BY <1>3, RelabelKeeps
<1>8. ASSUME NEW i \in Ids, U[i] # NoRow
      PROVE  W[i].at = U[i].at /\ W[i].qty = U[i].qty /\ IsProxy(W[i]) = IsProxy(U[i])
  <2>1. U[i] \in Row
    BY <1>3, <1>8 DEF Tables
  <2>2. \/ W[i] = U[i]
        \/ U[i].kind = "placeholder" /\ W[i] = [U[i] EXCEPT !.kind = "proxy"]
    BY <1>8 DEF Relabelled
  <2>3. CASE W[i] = U[i]
    BY <2>3
  <2>4. CASE U[i].kind = "placeholder" /\ W[i] = [U[i] EXCEPT !.kind = "proxy"]
    <3>1. W[i].at = U[i].at /\ W[i].qty = U[i].qty /\ W[i].kind = "proxy"
      BY <2>1, <2>4 DEF Row
    <3> HIDE DEF W
    <3> QED
      BY <2>4, <3>1 DEF IsProxy
  <2> QED
    BY <2>2, <2>3, <2>4
<1> HIDE DEF W
<1>9. \A i \in Ids, c \in {"proxies", "loose"} : Count(c, W[i]) = Count(c, U[i])
  BY <1>7, <1>8 DEF Count, Counted, Loose
<1>10. Tally("proxies", W) = Tally("proxies", U) /\ Tally("loose", W) = Tally("loose", U)
  BY <1>9, TallySame
<1> QED
  BY <1>3, <1>5, <1>6, <1>7, <1>10 DEF W

\* confirm_deck_assembly: k placeholders of the list go for the k copies that come.
LEMMA AssemblyReplaces ==
  ASSUME StockInv, NEW i \in DeckProxies(rows), NEW j \in LooseReal(rows), NEW k \in Nat,
         ConfirmAssembly(i, j, k)
  PROVE  Tally("proxies", rows') = Tally("proxies", rows) - Lower(Tally("proxies", rows), k)
<1>1. /\ deck = "brew" /\ k <= Lower(rows[i].qty, rows[j].qty)
  BY DEF ConfirmAssembly
<1>2. PICK to \in Landings(TakeFrom(j, k)) :
        FinishClaim(Claimed(TakeFrom(j, k), TakeFrom(i, k), to))
  BY DEF ConfirmAssembly
<1>3. i \in Rows(rows) /\ j \in Rows(rows) /\ i \in Ids
  BY DEF DeckProxies, LooseReal, Rows
<1>4. rows \in Tables /\ rows[i].qty \in Nat /\ rows[j].qty \in Nat
  BY <1>3, RowOf
<1>5. k <= rows[i].qty /\ k <= rows[j].qty
  BY <1>1, <1>4 DEF Lower
<1>6. Takeable(rows, TakeFrom(j, k)) /\ Takeable(rows, TakeFrom(i, k))
  BY <1>3, <1>4, <1>5, TakeFromOne
<1>7. /\ \A m \in Ids : TakeFrom(j, k)[m] # 0 => m \in LooseReal(rows)
      /\ \A m \in Ids : TakeFrom(i, k)[m] # 0 => m \in DeckProxies(rows)
  BY DEF TakeFrom
<1>8. Total(MaxRows, TakeFrom(i, k)) = k
  <2>1. \A m \in 1 .. MaxRows : TakeFrom(i, k)[m] = IF m = i THEN k ELSE 0
    BY DEF TakeFrom, Ids
  <2>2. i \in 1 .. MaxRows /\ k \in Int
    BY <1>3 DEF Ids
  <2> QED
    BY <2>1, <2>2, TotalOfOne, InventoryAssumption
<1>9. /\ rows' \in Tables
      /\ Tally("proxies", rows') = Tally("proxies", rows) - Total(MaxRows, TakeFrom(i, k))
  BY <1>1, <1>2, <1>6, <1>7, ClaimReplaces
<1>10. Tally("proxies", rows) \in Nat /\ Tally("proxies", rows') \in Nat
  BY <1>4, <1>9, TallyType
<1> QED
  BY <1>8, <1>9, <1>10 DEF Lower

\* materialize_brew: as many placeholders go as loose real copies come.
LEMMA MaterializeReplaces ==
  ASSUME StockInv, MaterializeBrew
  PROVE  LET d == Tally("loose", rows) - Tally("loose", rows')
         IN  Tally("proxies", rows') = Tally("proxies", rows) - Lower(Tally("proxies", rows), d)
<1> DEFINE n == Lower(Quantity(rows, LooseReal(rows)), Quantity(rows, DeckProxies(rows)))
           any == [i \in Ids |-> 0]
<1>1. deck = "brew" /\ rows \in Tables
  BY DEF MaterializeBrew, StockInv, TypeOK
<1>2. PICK take \in Drains(rows, LooseReal(rows), n, any),
           drop \in Drains(rows, DeckProxies(rows), n, any) :
        \E to \in Landings(take) : FinishClaim(Claimed(take, drop, to))
  BY DEF MaterializeBrew
<1>3. LooseReal(rows) \in SUBSET Rows(rows) /\ DeckProxies(rows) \in SUBSET Rows(rows)
  BY DEF LooseReal, DeckProxies
<1>4. n \in Nat
  BY <1>1, <1>3, QuantityType DEF Lower
<1> HIDE DEF n, any
<1>5. /\ Takeable(rows, take) /\ \A i \in Ids : take[i] # 0 => i \in LooseReal(rows)
      /\ Takeable(rows, drop) /\ \A i \in Ids : drop[i] # 0 => i \in DeckProxies(rows)
      /\ Total(MaxRows, take) = n /\ Total(MaxRows, drop) = n
  BY <1>1, <1>2, <1>3, <1>4, DrainsEffect
<1>6. /\ rows' \in Tables
      /\ Tally("proxies", rows') = Tally("proxies", rows) - n
      /\ Tally("loose", rows') = Tally("loose", rows) - n
  BY <1>1, <1>2, <1>5, ClaimReplaces
<1>7. /\ Tally("proxies", rows) \in Nat /\ Tally("proxies", rows') \in Nat
      /\ Tally("loose", rows) \in Nat /\ Tally("loose", rows') \in Nat
  BY <1>1, <1>6, TallyType
<1> QED
  BY <1>4, <1>6, <1>7 DEF Lower

\* What a step must do for PullsReplaceProxies.
Replaces ==
  LET d == Quantity(rows, LooseReal(rows)) - Quantity(rows', LooseReal(rows'))
      n == Quantity(rows, DeckProxies(rows))
  IN  /\ DeckProxies(rows) # {}
      /\ d > 0
      /\ \/ \E j \in LooseReal(rows) :
                PullCard(j, d) \/ \E i \in DeckProxies(rows) : ConfirmAssembly(i, j, d)
         \/ MaterializeBrew
      => Quantity(rows', DeckProxies(rows')) = n - Lower(n, d)

\* Real copies that come to the list from the loose cards take the place of as many
\* proxies, or of all that there are, whether they are pulled one by one, confirmed
\* on the assembly page or claimed all at once: the list does not hold a card and its
\* stand-in (pull_card_to_deck, confirm_deck_assembly, materialize_brew).
THEOREM ProxiesAreReplaced == SpecIntake => PullsReplaceProxies
<1>1. StockInv /\ [NextIntake]_vars => StockInv'
  BY IntakeStep
<1>2. StockInv /\ StockInv' => [Replaces]_vars
  <2> SUFFICES ASSUME StockInv, StockInv' PROVE Replaces
    OBVIOUS
  <2> DEFINE d == Quantity(rows, LooseReal(rows)) - Quantity(rows', LooseReal(rows'))
             n == Quantity(rows, DeckProxies(rows))
  <2>1. rows \in Tables /\ rows' \in Tables
    BY DEF StockInv, TypeOK
  <2>2. /\ n = Tally("proxies", rows) /\ Quantity(rows', DeckProxies(rows')) = Tally("proxies", rows')
        /\ d = Tally("loose", rows) - Tally("loose", rows')
    BY <2>1, TalliesAre
  <2>3. d \in Int
    BY <2>1, <2>2, TallyType
  <2> HIDE DEF d, n
  <2>4. ASSUME d > 0, NEW j \in LooseReal(rows), PullCard(j, d)
        PROVE  Tally("proxies", rows') = n - Lower(n, d)
    BY <2>2, <2>3, <2>4, PullReplaces
  <2>5. ASSUME d > 0, NEW j \in LooseReal(rows), NEW i \in DeckProxies(rows), ConfirmAssembly(i, j, d)
        PROVE  Tally("proxies", rows') = n - Lower(n, d)
    BY <2>2, <2>3, <2>5, AssemblyReplaces
  <2>6. ASSUME MaterializeBrew
        PROVE  Tally("proxies", rows') = n - Lower(n, d)
    BY <2>2, <2>6, MaterializeReplaces
  <2>7. ASSUME d > 0,
               \/ \E j \in LooseReal(rows) :
                     PullCard(j, d) \/ \E i \in DeckProxies(rows) : ConfirmAssembly(i, j, d)
               \/ MaterializeBrew
        PROVE  Quantity(rows', DeckProxies(rows')) = n - Lower(n, d)
    BY <2>2, <2>4, <2>5, <2>6, <2>7
  <2> QED
    BY <2>7 DEF Replaces, d, n
<1> QED
  BY <1>1, <1>2, IntakeInvariant, PTL DEF SpecIntake, PullsReplaceProxies, Replaces

=============================================================================
