---------------------------- MODULE ClaimsProofs ----------------------------
(***************************************************************************)
(* Theorems about Claims: an instruction of the assembly page is carried   *)
(* out once, and requests that lock what they write lose no copy, for any  *)
(* decks, any table to start from and any number of requests.              *)
(***************************************************************************)
EXTENDS Claims, FiniteSetTheorems, WellFoundedInduction, TLAPS

----------------------------------------------------------------------------
(* Sums over a finite set, as MapThenSumSet takes them. *)

\* The member of set s that is taken next.
One(s) == CHOOSE x \in s : TRUE

\* The sets of at most n arguments of g.
Sizes(g, n) == {t \in SUBSET DOMAIN g : Cardinality(t) <= n}

\* v adds up g over every set in X.
Adds(g, X, v) ==
  v = [s \in X |-> IF s = {} THEN 0 ELSE g[One(s)] + v[s \ {One(s)}]]

\* The sums of g over the sets of its arguments.
SumsOf(g) == CHOOSE v : Adds(g, SUBSET DOMAIN g, v)

Sum(g) == SumsOf(g)[DOMAIN g]

\* The copies in the rows S of table T, as Copies adds them up, and the equation of
\* its recursive function.
CopiesIn(T, S) == MapThenSumSet(LAMBDA i : T[i].qty, S)

CountsUp(T, S, v) ==
  v = [s \in SUBSET S |-> IF s = {} THEN 0 ELSE T[One(s)].qty + v[s \ {One(s)}]]

\* Among sets of numbers there is a least number.
LEMMA LeastNumber ==
  ASSUME NEW S \in SUBSET Nat, S # {}
  PROVE  \E m \in S : \A k \in S : m <= k
<1>1. PICK m \in S : \A k \in S : <<k, m>> \notin OpToRel(<, Nat)
  BY NatLessThanWellFounded, WFMin, Zenon
<1>2. ASSUME NEW k \in S PROVE m <= k
  <2>1. <<k, m>> \in Nat \X Nat
    OBVIOUS
  <2>2. <<k, m>> \in OpToRel(<, Nat) <=> k < m
    BY <2>1, Zenon DEF OpToRel
  <2>3. ~(k < m)
    BY <1>1, <2>2, Zenon
  <2> QED
    BY <2>3
<1> QED
  BY <1>2

\* A set that is taken apart.
LEMMA TakeOne ==
  ASSUME NEW D, IsFiniteSet(D), NEW s \in SUBSET D
  PROVE  /\ IsFiniteSet(s) /\ Cardinality(s) \in Nat /\ (Cardinality(s) = 0 <=> s = {})
         /\ s # {} => One(s) \in s
         /\ \A x \in s : s \ {x} \in SUBSET D /\ Cardinality(s \ {x}) = Cardinality(s) - 1
<1>1. IsFiniteSet(s) /\ Cardinality(s) \in Nat /\ (Cardinality(s) = 0 <=> s = {})
  BY FS_Subset, FS_CardinalityType, FS_EmptySet
<1>2. s # {} => One(s) \in s
  BY DEF One
<1>3. \A x \in s : Cardinality(s \ {x}) = Cardinality(s) - 1
  BY <1>1, FS_RemoveElement
<1> QED
  BY <1>1, <1>2, <1>3

\* Among sets of parts of a finite set there is one from which nothing can be taken.
LEMMA LeastPart ==
  ASSUME NEW D, IsFiniteSet(D), NEW B \in SUBSET (SUBSET D), B # {}
  PROVE  \E s \in B : \A x \in s : s \ {x} \notin B
<1> DEFINE C == {Cardinality(s) : s \in B}
<1>1. C \in SUBSET Nat /\ C # {}
  BY TakeOne
<1> HIDE DEF C
<1>2. PICK n \in C : \A k \in C : n <= k
  BY <1>1, LeastNumber
<1>3. PICK s \in B : Cardinality(s) = n
  BY <1>2 DEF C
<1>4. ASSUME NEW x \in s, s \ {x} \in B PROVE FALSE
  <2>1. Cardinality(s \ {x}) = Cardinality(s) - 1 /\ Cardinality(s) \in Nat
    BY <1>4, TakeOne
  <2>2. Cardinality(s \ {x}) \in C
    BY <1>4 DEF C
  <2> QED
    BY <1>2, <1>3, <2>1, <2>2
<1> QED
  BY <1>4

\* There are such sums over sets of any size.
LEMMA SumsExist ==
  ASSUME NEW g, IsFiniteSet(DOMAIN g), NEW n \in Nat
  PROVE  \E v : Adds(g, Sizes(g, n), v)
<1> DEFINE Bad == {k \in Nat : ~ \E v : Adds(g, Sizes(g, k), v)}
<1>1. SUFFICES ASSUME Bad # {} PROVE FALSE
  OBVIOUS
<1>2. PICK m \in Bad : \A k \in Bad : m <= k
  <2>1. Bad \in SUBSET Nat
    OBVIOUS
  <2> QED
    BY <1>1, <2>1, LeastNumber
<1>3. CASE m = 0
  <2> DEFINE v == [s \in Sizes(g, 0) |-> 0]
  <2>1. ASSUME NEW s \in Sizes(g, 0) PROVE s = {}
    <3>1. s \in SUBSET DOMAIN g /\ Cardinality(s) <= 0
      BY DEF Sizes
    <3> QED
      BY <3>1, TakeOne
  <2>2. Adds(g, Sizes(g, 0), v)
    BY <2>1 DEF Adds
  <2> QED
    BY <1>2, <1>3, <2>2
<1>4. CASE m # 0
  <2>1. m \in Nat /\ m - 1 \in Nat /\ m - 1 \notin Bad
    BY <1>2, <1>4
  <2>2. PICK u : Adds(g, Sizes(g, m - 1), u)
    BY <2>1
  <2> DEFINE next(s) == IF s = {} THEN 0 ELSE g[One(s)] + u[s \ {One(s)}]
             v == [s \in Sizes(g, m) |-> next(s)]
  <2>3. ASSUME NEW s \in Sizes(g, m), s # {}
        PROVE  s \ {One(s)} \in Sizes(g, m - 1)
    <3>1. s \in SUBSET DOMAIN g /\ Cardinality(s) <= m
      BY DEF Sizes
    <3>2. /\ One(s) \in s /\ s \ {One(s)} \in SUBSET DOMAIN g /\ Cardinality(s) \in Nat
          /\ Cardinality(s \ {One(s)}) = Cardinality(s) - 1
      BY <2>3, <3>1, TakeOne
    <3> QED
      BY <2>1, <3>1, <3>2 DEF Sizes
  <2>4. ASSUME NEW s \in Sizes(g, m - 1)
        PROVE  s \in Sizes(g, m) /\ u[s] = next(s)
    <3>1. s \in SUBSET DOMAIN g /\ Cardinality(s) <= m - 1
      BY DEF Sizes
    <3>2. Cardinality(s) \in Nat
      BY <3>1, TakeOne
    <3>3. s \in Sizes(g, m)
      BY <2>1, <3>1, <3>2 DEF Sizes
    <3> QED
      BY <2>2, <3>3 DEF Adds
  <2> HIDE DEF next
  <2>5. ASSUME NEW s \in Sizes(g, m), s # {}
        PROVE  v[s \ {One(s)}] = u[s \ {One(s)}]
    BY <2>3, <2>4, <2>5
  <2>6. Adds(g, Sizes(g, m), v)
    BY <2>5 DEF Adds, next
  <2> QED
    BY <1>2, <2>6
<1> QED
  BY <1>3, <1>4

\* SumsOf gives these sums.
LEMMA SumsAddUp ==
  ASSUME NEW D, IsFiniteSet(D), NEW g \in [D -> Int]
  PROVE  \A s \in SUBSET D :
           SumsOf(g)[s] = IF s = {} THEN 0 ELSE g[One(s)] + SumsOf(g)[s \ {One(s)}]
<1> DEFINE n == Cardinality(DOMAIN g)
<1>1. DOMAIN g = D /\ n \in Nat
  BY FS_CardinalityType
<1>2. IsFiniteSet(DOMAIN g) /\ Sizes(g, n) = SUBSET DOMAIN g
  BY <1>1, FS_Subset DEF Sizes
<1> HIDE DEF n
<1>3. \E v : Adds(g, SUBSET DOMAIN g, v)
  <2>1. \E v : Adds(g, Sizes(g, n), v)
    BY <1>1, <1>2, SumsExist, Zenon
  <2> QED
    BY <1>2, <2>1, Zenon
<1>4. Adds(g, SUBSET DOMAIN g, SumsOf(g))
  BY <1>3 DEF SumsOf
<1> QED
  BY <1>1, <1>4 DEF Adds

\* A sum of integers is one.
LEMMA SumType ==
  ASSUME NEW D, IsFiniteSet(D), NEW g \in [D -> Int], NEW s \in SUBSET D
  PROVE  SumsOf(g)[s] \in Int
<1> DEFINE B == {t \in SUBSET D : SumsOf(g)[t] \notin Int}
<1>1. SUFFICES ASSUME B # {} PROVE FALSE
  OBVIOUS
<1>2. PICK t \in B : \A x \in t : t \ {x} \notin B
  BY <1>1, LeastPart
<1>3. SumsOf(g)[t] = IF t = {} THEN 0 ELSE g[One(t)] + SumsOf(g)[t \ {One(t)}]
  BY SumsAddUp
<1>4. t # {}
  BY <1>3
<1>5. One(t) \in t /\ t \ {One(t)} \in SUBSET D
  BY <1>4, TakeOne
<1>6. SumsOf(g)[t \ {One(t)}] \in Int /\ g[One(t)] \in Int
  BY <1>2, <1>5
<1> QED
  BY <1>3, <1>4, <1>6

\* Any member may be taken first.
LEMMA SumOrder ==
  ASSUME NEW D, IsFiniteSet(D), NEW g \in [D -> Int], NEW s \in SUBSET D, NEW y \in s
  PROVE  SumsOf(g)[s] = g[y] + SumsOf(g)[s \ {y}]
<1> DEFINE v == SumsOf(g)
           B == {t \in SUBSET D : \E z \in t : v[t] # g[z] + v[t \ {z}]}
<1>1. SUFFICES ASSUME B # {} PROVE FALSE
  OBVIOUS
<1>2. /\ \A t \in SUBSET D : v[t] \in Int
      /\ \A t \in SUBSET D : v[t] = IF t = {} THEN 0 ELSE g[One(t)] + v[t \ {One(t)}]
  BY SumType, SumsAddUp
<1> HIDE DEF v
<1>3. PICK t \in B : \A x \in t : t \ {x} \notin B
  BY <1>1, LeastPart
<1>4. PICK z \in t : v[t] # g[z] + v[t \ {z}]
  OBVIOUS
<1> DEFINE x == One(t)
<1>5. x \in t /\ x # z /\ v[t] = g[x] + v[t \ {x}]
  BY <1>2, <1>4, TakeOne
<1> HIDE DEF x
<1>6. t \ {x} \in SUBSET D /\ t \ {z} \in SUBSET D /\ (t \ {x}) \ {z} = (t \ {z}) \ {x}
  OBVIOUS
<1>7. v[t \ {x}] = g[z] + v[(t \ {x}) \ {z}]
  BY <1>3, <1>5, <1>6
<1>8. v[t \ {z}] = g[x] + v[(t \ {z}) \ {x}]
  BY <1>3, <1>5, <1>6
<1> DEFINE w == v[(t \ {z}) \ {x}]
<1>9. g[x] \in Int /\ g[z] \in Int /\ w \in Int
  BY <1>2, <1>5
<1>10. v[t \ {x}] = g[z] + w /\ v[t \ {z}] = g[x] + w
  BY <1>6, <1>7, <1>8
<1> HIDE DEF w
<1>11. v[t] = g[z] + v[t \ {z}]
  BY <1>5, <1>9, <1>10
<1> QED
  BY <1>4, <1>11

\* The sum over a set depends on the values there only.
LEMMA SumAlike ==
  ASSUME NEW D, IsFiniteSet(D), NEW E, IsFiniteSet(E), NEW g \in [D -> Int], NEW h \in [E -> Int],
         NEW s \in SUBSET D, s \in SUBSET E, \A x \in s : g[x] = h[x]
  PROVE  SumsOf(g)[s] = SumsOf(h)[s]
<1> DEFINE B == {t \in SUBSET s : SumsOf(g)[t] # SumsOf(h)[t]}
<1>1. SUFFICES ASSUME B # {} PROVE FALSE
  OBVIOUS
<1>2. B \in SUBSET (SUBSET D)
  OBVIOUS
<1>3. PICK t \in B : \A x \in t : t \ {x} \notin B
  BY <1>1, <1>2, LeastPart
<1>4. /\ SumsOf(g)[t] = IF t = {} THEN 0 ELSE g[One(t)] + SumsOf(g)[t \ {One(t)}]
      /\ SumsOf(h)[t] = IF t = {} THEN 0 ELSE h[One(t)] + SumsOf(h)[t \ {One(t)}]
  <2>1. t \in SUBSET D /\ t \in SUBSET E
    OBVIOUS
  <2> QED
    BY <2>1, SumsAddUp
<1>5. t # {}
  BY <1>4
<1>6. One(t) \in t /\ t \ {One(t)} \in SUBSET s
  BY <1>5 DEF One
<1>7. SumsOf(g)[t \ {One(t)}] = SumsOf(h)[t \ {One(t)}]
  BY <1>3, <1>6
<1> QED
  BY <1>4, <1>5, <1>6, <1>7

\* What is zero outside a set adds up over that set.
LEMMA SumSupport ==
  ASSUME NEW D, IsFiniteSet(D), NEW g \in [D -> Int], NEW s \in SUBSET D,
         \A x \in D \ s : g[x] = 0
  PROVE  SumsOf(g)[D] = SumsOf(g)[s]
<1> DEFINE v == SumsOf(g)
           B == {t \in SUBSET D : s \subseteq t /\ v[t] # v[s]}
<1>1. SUFFICES ASSUME B # {} PROVE FALSE
  <2>1. D \in SUBSET D /\ s \subseteq D
    OBVIOUS
  <2> QED
    BY <2>1
<1>0. B \in SUBSET (SUBSET D)
  OBVIOUS
<1>2. PICK t \in B : \A x \in t : t \ {x} \notin B
  <2> HIDE DEF B
  <2> QED
    BY <1>1, <1>0, LeastPart
<1>3. t # s
  OBVIOUS
<1>4. PICK x \in t : x \notin s
  BY <1>3
<1>5. v[t] = g[x] + v[t \ {x}]
  BY SumOrder
<1>6. g[x] = 0 /\ v[t \ {x}] \in Int
  BY <1>4, SumType
<1>7. t \ {x} \in SUBSET D /\ s \subseteq t \ {x}
  BY <1>4
<1> HIDE DEF v
<1>8. v[t \ {x}] = v[s]
  BY <1>2, <1>7
<1> QED
  BY <1>5, <1>6, <1>8

\* The sum of a function that is zero but at one place.
LEMMA SumPoint ==
  ASSUME NEW D, IsFiniteSet(D), NEW k \in D, NEW n \in Int
  PROVE  Sum([x \in D |-> IF x = k THEN n ELSE 0]) = n
<1> DEFINE g == [x \in D |-> IF x = k THEN n ELSE 0]
<1>1. g \in [D -> Int] /\ DOMAIN g = D /\ g[k] = n /\ \A x \in D \ {k} : g[x] = 0
  OBVIOUS
<1> HIDE DEF g
<1>2. SumsOf(g)[D] = SumsOf(g)[{k}]
  BY <1>1, SumSupport
<1>3. SumsOf(g)[{k}] = g[k] + SumsOf(g)[{k} \ {k}]
  <2>1. {k} \in SUBSET D /\ k \in {k}
    OBVIOUS
  <2>2. \A h \in [D -> Int] : \A s \in SUBSET D : \A y \in s :
          SumsOf(h)[s] = h[y] + SumsOf(h)[s \ {y}]
    BY SumOrder
  <2> QED
    BY <1>1, <2>1, <2>2
<1>4. SumsOf(g)[{k} \ {k}] = 0
  BY <1>1, SumsAddUp
<1> QED
  BY <1>1, <1>2, <1>3, <1>4 DEF g, Sum

\* The sum of nothing but zeros.
LEMMA SumOfNothing ==
  ASSUME NEW D, IsFiniteSet(D), NEW g \in [D -> Int], \A x \in D : g[x] = 0
  PROVE  Sum(g) = 0
<1>1. SumsOf(g)[D] = SumsOf(g)[{}]
  BY SumSupport
<1>2. SumsOf(g)[{}] = 0
  BY SumsAddUp
<1> QED
  BY <1>1, <1>2 DEF Sum

\* Sums add.
LEMMA SumOfSums ==
  ASSUME NEW D, IsFiniteSet(D), NEW f \in [D -> Int], NEW g \in [D -> Int],
         NEW h \in [D -> Int], \A x \in D : h[x] = f[x] + g[x]
  PROVE  /\ Sum(h) = Sum(f) + Sum(g)
         /\ Sum(f) \in Int /\ Sum(g) \in Int
<1> DEFINE u == SumsOf(f)  v == SumsOf(g)  w == SumsOf(h)
           B == {t \in SUBSET D : w[t] # u[t] + v[t]}
<1>1. /\ \A t \in SUBSET D : u[t] \in Int /\ v[t] \in Int /\ w[t] \in Int
      /\ \A t \in SUBSET D : u[t] = IF t = {} THEN 0 ELSE f[One(t)] + u[t \ {One(t)}]
      /\ \A t \in SUBSET D : v[t] = IF t = {} THEN 0 ELSE g[One(t)] + v[t \ {One(t)}]
      /\ \A t \in SUBSET D : w[t] = IF t = {} THEN 0 ELSE h[One(t)] + w[t \ {One(t)}]
  BY SumType, SumsAddUp
<1> HIDE DEF u, v, w
<1>2. ASSUME B # {} PROVE FALSE
  <2>1. PICK t \in B : \A x \in t : t \ {x} \notin B
    BY <1>2, LeastPart
  <2>2. t # {}
    <3>1. t \in SUBSET D /\ w[t] # u[t] + v[t]
      OBVIOUS
    <3>2. ASSUME t = {} PROVE w[t] = 0 /\ u[t] = 0 /\ v[t] = 0
      BY <1>1, <3>1, <3>2
    <3> QED
      BY <3>1, <3>2
  <2> DEFINE x == One(t)
  <2>3. x \in t /\ t \ {x} \in SUBSET D
    BY <2>2, TakeOne
  <2>4. u[t] = f[x] + u[t \ {x}] /\ v[t] = g[x] + v[t \ {x}] /\ w[t] = h[x] + w[t \ {x}]
    BY <1>1, <2>2
  <2> HIDE DEF x
  <2>5. w[t \ {x}] = u[t \ {x}] + v[t \ {x}]
    BY <2>1, <2>3
  <2>6. f[x] \in Int /\ g[x] \in Int /\ h[x] = f[x] + g[x] /\ u[t \ {x}] \in Int /\ v[t \ {x}] \in Int
    BY <1>1, <2>3
  <2>7. w[t] = u[t] + v[t]
    BY <2>4, <2>5, <2>6
  <2> QED
    BY <2>7
<1>3. w[D] = u[D] + v[D] /\ u[D] \in Int /\ v[D] \in Int
  BY <1>1, <1>2
<1> QED
  BY <1>3 DEF Sum, u, v, w

\* MapThenSumSet adds copies up in this way.
LEMMA CopiesAreASum ==
  ASSUME NEW D, IsFiniteSet(D), NEW T, NEW S \in SUBSET D, \A i \in S : T[i].qty \in Int
  PROVE  CopiesIn(T, S) = Sum([i \in D |-> IF i \in S THEN T[i].qty ELSE 0])
<1> DEFINE g == [i \in S |-> T[i].qty]
           G == [i \in D |-> IF i \in S THEN T[i].qty ELSE 0]
           v == CHOOSE v : CountsUp(T, S, v)
<1>1. IsFiniteSet(S)
  BY FS_Subset
<1>2. /\ g \in [S -> Int] /\ DOMAIN g = S /\ \A i \in S : g[i] = T[i].qty
      /\ G \in [D -> Int] /\ DOMAIN G = D /\ \A i \in S : G[i] = g[i]
      /\ \A i \in D \ S : G[i] = 0
  OBVIOUS
<1>3. CopiesIn(T, S) = v[S]
  BY Zenon DEF CopiesIn, MapThenSumSet, MapThenFoldSet, CountsUp, One
<1> HIDE DEF g, G
<1>4. \A s \in SUBSET S : s # {} => One(s) \in s /\ s \ {One(s)} \in SUBSET S
  BY DEF One
<1>5. CountsUp(T, S, v)
  <2> DEFINE u == [s \in SUBSET S |-> SumsOf(g)[s]]
  <2>1. ASSUME NEW s \in SUBSET S
        PROVE  u[s] = IF s = {} THEN 0 ELSE T[One(s)].qty + u[s \ {One(s)}]
    <3>1. SumsOf(g)[s] = IF s = {} THEN 0 ELSE g[One(s)] + SumsOf(g)[s \ {One(s)}]
      BY <1>1, <1>2, SumsAddUp
    <3>2. CASE s = {}
      BY <3>1, <3>2
    <3>3. CASE s # {}
      BY <1>2, <1>4, <3>1, <3>3
    <3> QED
      BY <3>2, <3>3
  <2>2. u = [s \in SUBSET S |-> u[s]]
    OBVIOUS
  <2> HIDE DEF u
  <2>3. CountsUp(T, S, u)
    BY <2>1, <2>2 DEF CountsUp
  <2> QED
    BY <2>3
<1> HIDE DEF v
<1>6. v[S] = SumsOf(g)[S]
  <2> DEFINE B == {t \in SUBSET S : v[t] # SumsOf(g)[t]}
  <2>1. SUFFICES ASSUME B # {} PROVE FALSE
    OBVIOUS
  <2>2. PICK t \in B : \A x \in t : t \ {x} \notin B
    BY <1>1, <2>1, LeastPart
  <2>3. v[t] = IF t = {} THEN 0 ELSE T[One(t)].qty + v[t \ {One(t)}]
    BY <1>5 DEF CountsUp
  <2>4. SumsOf(g)[t] = IF t = {} THEN 0 ELSE g[One(t)] + SumsOf(g)[t \ {One(t)}]
    <3>1. t \in SUBSET S
      OBVIOUS
    <3> QED
      BY <1>1, <1>2, <3>1, SumsAddUp
  <2>5. t # {}
    BY <2>3, <2>4
  <2>6. One(t) \in t /\ t \ {One(t)} \in SUBSET S
    BY <1>4, <2>5
  <2>7. v[t \ {One(t)}] = SumsOf(g)[t \ {One(t)}] /\ g[One(t)] = T[One(t)].qty
    BY <1>2, <2>2, <2>6
  <2> QED
    BY <2>3, <2>4, <2>5, <2>7
<1>7. SumsOf(G)[D] = SumsOf(G)[S]
  BY <1>2, SumSupport
<1>8. SumsOf(G)[S] = SumsOf(g)[S]
  BY <1>1, <1>2, SumAlike
<1> QED
  BY <1>2, <1>3, <1>6, <1>7, <1>8 DEF Sum, G

----------------------------------------------------------------------------
(* The invariant *)

\* What a request has planned for the rows it writes.
Plans == UNION {[S -> Nat] : S \in SUBSET Ids}

Request ==
  [kind : Kinds \cup {"none"},
   stage : {"none", "posted", "deck", "rows", "write", "answered", "closed"},
   deck : Decks \cup {NoOne}, row : Ids \cup {0}, proxy : Ids \cup {0}, qty : Nat,
   shown : {<<>>} \cup (Nat \X Nat), want : SUBSET (Ids \cup Decks), plan : Plans,
   add : Row \cup {NoRow}, done : BOOLEAN]

ClaimKinds == {"materialize", "confirm"}

ClaimsTypeOK ==
  /\ rows \in [Ids -> Row \cup {NoRow}]
  /\ brew \in [Decks -> BOOLEAN]
  /\ lock \in [Ids \cup Decks -> Slots \cup {NoOne}]
  /\ loop \in Slots \cup {NoOne}
  /\ request \in [Slots -> Request]
  /\ owned \in Int
  /\ overlapped \in BOOLEAN

\* A row that has been inserted.  It may have been deleted since.
There(i) == i \in Ids /\ rows[i] # NoRow

\* What the page put into form q.
Filled(q) ==
  /\ q.kind = "none" <=> q.stage = "none"
  /\ q.kind \in {"materialize", "confirm", "pull", "return"} => q.deck \in Decks
  /\ q.kind \in {"confirm", "split", "adjust", "pull", "return"} => There(q.row)
  /\ q.kind \in {"confirm", "split", "pull"} => q.qty > 0
  /\ q.kind = "confirm" => There(q.proxy) /\ q.shown \in Nat \X Nat
  /\ q.kind = "return" => rows[q.row].at = q.deck

\* How far q has come.
Staged(q) ==
  /\ q.stage = "deck" => q.kind \in ClaimKinds
  /\ q.stage = "rows" => q.kind \in ClaimKinds \cup {"split"}
  /\ q.stage # "write" => q.plan = <<>> /\ q.add = NoRow
  /\ q.done => q.stage \in {"answered", "closed"}
  /\ \A i \in DOMAIN q.plan : There(i)

\* The rows whose state a request decides on, besides those it finds itself.
Named(q) ==
  IF q.kind = "confirm" THEN {q.proxy, q.row}
  ELSE IF q.kind = "split" THEN {q.row} ELSE {}

\* What request s, when it is as q and the locks are L, does not want any more it
\* has locked, or it is not there to lock.
Locked(s, q, L) ==
  /\ /\ q.kind \in ClaimKinds
     /\ q.stage \in {"rows", "write"} \/ (q.stage = "deck" /\ q.want = {})
     => L[q.deck] = s
  /\ q.stage = "rows" => \A i \in Named(q) \ q.want : i \in Rows => L[i] = s
  /\ q.stage = "write" => \A i \in DOMAIN q.plan \ q.want : i \in Rows => L[i] = s

\* A confirm that is about to write holds its placeholders, as they were displayed.
Fresh(s, q, L) ==
  q.kind = "confirm" /\ q.stage = "write" =>
    /\ q.proxy \in DOMAIN q.plan /\ q.proxy \in Rows /\ L[q.proxy] = s
    /\ q.shown[1] = rows[q.proxy].version

\* One that is done has changed their version.
Settled(q) == q.kind = "confirm" /\ q.done => q.shown[1] < rows[q.proxy].version

\* No two are done of the same placeholders as they were displayed.
DoneOnce ==
  \A s, t \in Slots :
    /\ s # t
    /\ request[s].kind = "confirm" /\ request[s].done
    /\ request[t].kind = "confirm" /\ request[t].done
    => request[s].proxy # request[t].proxy \/ request[s].shown[1] # request[t].shown[1]

LocksInv ==
  /\ ClaimsTypeOK
  /\ \A s \in Slots :
       /\ Filled(request[s]) /\ Staged(request[s]) /\ Settled(request[s])
       /\ Locked(s, request[s], lock) /\ Fresh(s, request[s], lock)
  /\ DoneOnce

\* The real copies in row r, as it is or if it is there.
Real(r) == IF r # NoRow /\ ~r.proxy THEN r.qty ELSE 0

\* What the plan of q makes of the real copies in row i.
Change(q, i) ==
  IF i \in DOMAIN q.plan /\ i \in Rows /\ ~rows[i].proxy THEN q.plan[i] - rows[i].qty ELSE 0

\* What q disposes of.
Disposed(q) == IF q.kind = "adjust" /\ ~rows[q.row].proxy THEN q.qty ELSE 0

\* A plan comes out even.
Balanced(q) ==
  q.stage = "write" => Sum([i \in Ids |-> Change(q, i)]) + Real(q.add) = -Disposed(q)

\* Row i is in the deck q claims for.
InClaimed(q, i) == q.kind \in ClaimKinds /\ rows[i].at = q.deck

\* A request that is about to write has planned for rows that are there; one that
\* locks what it writes has them locked, or is claiming for their deck, and leaves
\* the rows of other decks alone.
Secure(s, q, L) ==
  q.stage = "write" =>
    \A i \in DOMAIN q.plan :
      /\ i \in Rows
      /\ Guarded(q) =>
           /\ rows[i].at \in LoosePlaces \/ InClaimed(q, i)
           /\ L[i] = s \/ InClaimed(q, i)

\* As long as nothing overlapped that should not.
Exclusive ==
  ~overlapped =>
    /\ \A s, t \in Slots :
         s # t /\ Open(s) /\ Open(t) => Guarded(request[s]) /\ Guarded(request[t])
    /\ \A s \in Slots : Secure(s, request[s], lock) /\ Balanced(request[s])

ClaimsInv == LocksInv /\ Exclusive /\ Conserved

----------------------------------------------------------------------------
(* Copies, and what is drained *)

\* Identifiers are finitely many numbers.
LEMMA IdsAre == IsFiniteSet(Ids) /\ Ids \subseteq Nat \ {0} /\ MaxRows \in Nat
BY ClaimsAssumption, FS_Interval DEF Ids

\* Sums over the identifiers.
LEMMA IdSums ==
  /\ \A f, g, h \in [Ids -> Int] :
       (\A i \in Ids : h[i] = f[i] + g[i]) => Sum(h) = Sum(f) + Sum(g)
  /\ \A f \in [Ids -> Int] : Sum(f) \in Int /\ ((\A i \in Ids : f[i] = 0) => Sum(f) = 0)
  /\ \A k \in Ids, n \in Int : Sum([i \in Ids |-> IF i = k THEN n ELSE 0]) = n
<1>1. IsFiniteSet(Ids)
  BY IdsAre
<1>2. ASSUME NEW f \in [Ids -> Int], NEW g \in [Ids -> Int], NEW h \in [Ids -> Int],
             \A i \in Ids : h[i] = f[i] + g[i]
      PROVE  Sum(h) = Sum(f) + Sum(g)
  BY <1>1, <1>2, SumOfSums, Zenon
<1>3. ASSUME NEW f \in [Ids -> Int] PROVE Sum(f) \in Int
  BY <1>1, SumType DEF Sum
<1>4. ASSUME NEW f \in [Ids -> Int], \A i \in Ids : f[i] = 0 PROVE Sum(f) = 0
  BY <1>1, <1>4, SumOfNothing, Zenon
<1>5. ASSUME NEW k \in Ids, NEW n \in Int
      PROVE  Sum([i \in Ids |-> IF i = k THEN n ELSE 0]) = n
  BY <1>1, SumPoint, Zenon
<1> QED
  BY <1>2, <1>3, <1>4, <1>5

\* Rows are rows.
LEMMA RowsAre ==
  ASSUME ClaimsTypeOK
  PROVE  /\ Rows \subseteq Ids
         /\ \A i \in Rows : /\ There(i) /\ rows[i] \in Row /\ rows[i].qty \in Nat \ {0}
                            /\ rows[i].version \in Nat /\ rows[i].proxy \in BOOLEAN
                            /\ rows[i].at \in LoosePlaces \cup Decks
         /\ \A i : There(i) => i \in Ids /\ rows[i] \in Row
<1>1. Rows \subseteq Ids
  BY DEF Rows
<1>2. \A i : There(i) => i \in Ids /\ rows[i] \in Row
  BY DEF There, ClaimsTypeOK
<1>3. ASSUME NEW i \in Rows
      PROVE  There(i) /\ rows[i] \in Row /\ rows[i].qty > 0
  BY <1>2 DEF Rows, There
<1> QED
  BY <1>1, <1>2, <1>3 DEF Row

\* The copies in a set of rows are a sum over the identifiers.
LEMMA CopiesSum ==
  ASSUME ClaimsTypeOK, NEW S \in SUBSET Rows
  PROVE  Copies(S) = Sum([i \in Ids |-> IF i \in S THEN rows[i].qty ELSE 0])
<1>1. Copies(S) = CopiesIn(rows, S)
  BY DEF Copies, CopiesIn
<1>2. S \in SUBSET Ids /\ \A i \in S : rows[i].qty \in Int
  BY RowsAre
<1>3. IsFiniteSet(Ids)
  BY IdsAre
<1>4. CopiesIn(rows, S) = Sum([i \in Ids |-> IF i \in S THEN rows[i].qty ELSE 0])
  BY <1>2, <1>3, CopiesAreASum, SMTT(20)
<1> QED
  BY <1>1, <1>4, Zenon

\* The copies in a set of rows, row by row.
LEMMA CopiesStep ==
  ASSUME ClaimsTypeOK, NEW S \in SUBSET Rows, NEW x \in S
  PROVE  Copies(S) = rows[x].qty + Copies(S \ {x})
<1> DEFINE f == [i \in Ids |-> IF i = x THEN rows[x].qty ELSE 0]
           g == [i \in Ids |-> IF i \in S \ {x} THEN rows[i].qty ELSE 0]
           h == [i \in Ids |-> IF i \in S THEN rows[i].qty ELSE 0]
<1>1. x \in Ids /\ \A i \in S : i \in Ids /\ rows[i].qty \in Int
  BY RowsAre
<1>2. /\ f \in [Ids -> Int] /\ g \in [Ids -> Int] /\ h \in [Ids -> Int]
      /\ \A i \in Ids : h[i] = f[i] + g[i]
  BY <1>1
<1>3. Copies(S) = Sum(h)
  BY CopiesSum
<1>4. Copies(S \ {x}) = Sum(g)
  <2>1. S \ {x} \in SUBSET Rows
    OBVIOUS
  <2> QED
    BY <2>1, CopiesSum
<1>5. Sum(f) = rows[x].qty
  BY <1>1, IdSums
<1> HIDE DEF f, g, h
<1>6. Sum(h) = Sum(f) + Sum(g)
  BY <1>2, IdSums
<1> QED
  BY <1>3, <1>4, <1>5, <1>6

\* A set of rows holds a natural number of copies, and no row none.
LEMMA CopiesType ==
  ASSUME ClaimsTypeOK
  PROVE  /\ Copies({}) = 0
         /\ \A S \in SUBSET Rows : Copies(S) \in Nat
<1> DEFINE zero == [i \in Ids |-> IF i \in {} THEN rows[i].qty ELSE 0]
<1>1. Copies({}) = 0
  <2>1. Copies({}) = Sum(zero)
    BY CopiesSum
  <2>2. zero \in [Ids -> Int] /\ \A i \in Ids : zero[i] = 0
    OBVIOUS
  <2> HIDE DEF zero
  <2> QED
    BY <2>1, <2>2, IdSums
<1> DEFINE B == {S \in SUBSET Rows : Copies(S) \notin Nat}
<1>2. ASSUME B # {} PROVE FALSE
  <2>1. IsFiniteSet(Rows) /\ B \in SUBSET (SUBSET Rows)
    BY IdsAre, RowsAre, FS_Subset
  <2>2. PICK t \in B : \A x \in t : t \ {x} \notin B
    BY <1>2, <2>1, LeastPart
  <2>3. t \in SUBSET Rows /\ Copies(t) \notin Nat
    OBVIOUS
  <2>4. PICK x \in t : TRUE
    BY <1>1, <2>3
  <2>5. Copies(t) = rows[x].qty + Copies(t \ {x})
    BY <2>3, CopiesStep
  <2>6. Copies(t \ {x}) \in Nat
    BY <2>2, <2>3
  <2>7. rows[x].qty \in Nat
    BY <2>3, RowsAre
  <2> QED
    BY <2>3, <2>5, <2>6, <2>7
<1> QED
  BY <1>1, <1>2

\* What a row contributes is some of its copies.
LEMMA ShareType ==
  ASSUME ClaimsTypeOK, NEW S \in SUBSET Rows, NEW n \in Nat, NEW i \in Rows
  PROVE  Share(S, n, i) \in Nat /\ Share(S, n, i) <= rows[i].qty
<1> DEFINE c == Copies({j \in S : Before(j, i)})
<1>1. c \in Nat
  <2>1. {j \in S : Before(j, i)} \in SUBSET Rows
    OBVIOUS
  <2> QED
    BY <2>1, CopiesType
<1>2. Share(S, n, i) = Lower(rows[i].qty, n - Lower(n, c))
  BY DEF Share
<1>3. rows[i].qty \in Nat
  BY RowsAre
<1> HIDE DEF c
<1> QED
  BY <1>1, <1>2, <1>3 DEF Lower

\* The plan of a drain.
LEMMA DrainIs ==
  ASSUME ClaimsTypeOK, NEW S \in SUBSET Rows, NEW n \in Nat
  PROVE  /\ Drain(S, n) \in Plans /\ DOMAIN Drain(S, n) \subseteq S
         /\ \A i \in S : i \in DOMAIN Drain(S, n) <=> Share(S, n, i) > 0
         /\ \A i \in DOMAIN Drain(S, n) : Drain(S, n)[i] = rows[i].qty - Share(S, n, i)
<1> DEFINE used == {i \in S : Share(S, n, i) > 0}
           f == [i \in used |-> rows[i].qty - Share(S, n, i)]
<1>1. Drain(S, n) = f
  BY DEF Drain
<1>2. ASSUME NEW i \in used PROVE rows[i].qty - Share(S, n, i) \in Nat
  <2>1. i \in Rows
    OBVIOUS
  <2>2. rows[i].qty \in Nat /\ Share(S, n, i) \in Nat /\ Share(S, n, i) <= rows[i].qty
    BY <2>1, RowsAre, ShareType
  <2> QED
    BY <2>2
<1>3. f \in [used -> Nat] /\ used \in SUBSET Ids
  BY <1>2, RowsAre
<1> QED
  BY <1>1, <1>3 DEF Plans

\* One row alone gives what is asked of it.
LEMMA ShareAlone ==
  ASSUME ClaimsTypeOK, NEW i \in Rows, NEW n \in Nat
  PROVE  Share({i}, n, i) = Lower(rows[i].qty, n)
<1>1. {j \in {i} : Before(j, i)} = {}
  <2>1. ~Before(i, i)
    <3>1. i \in Nat
      BY RowsAre, IdsAre
    <3>2. ~(rows[i].at = "box" /\ rows[i].at = "pending")
      OBVIOUS
    <3> QED
      BY <3>1, <3>2 DEF Before
  <2> QED
    BY <2>1
<1>2. Share({i}, n, i) = Lower(rows[i].qty, n - Lower(n, 0))
  BY <1>1, CopiesType DEF Share
<1> QED
  BY <1>2 DEF Lower

\* Loose rows in the order they are used in.
Rank(i) == IF rows[i].at = "box" THEN i ELSE MaxRows + i

\* The order is one.
LEMMA RankIs ==
  ASSUME ClaimsTypeOK, NEW S \in SUBSET Rows, \A i \in S : rows[i].at \in LoosePlaces
  PROVE  /\ \A i \in S : Rank(i) \in Nat /\ Rank(i) <= 2 * MaxRows
         /\ \A i, j \in S : Before(i, j) <=> Rank(i) < Rank(j)
         /\ \A i, j \in S : i # j => Rank(i) # Rank(j)
<1>1. \A i \in S : i \in Nat /\ 1 <= i /\ i <= MaxRows /\ rows[i].at \in {"box", "pending"}
  BY RowsAre, IdsAre DEF LoosePlaces, Ids
<1>2. MaxRows \in Nat
  BY IdsAre
<1> QED
  BY <1>1, <1>2 DEF Rank, Before

\* The last of some loose rows.
LEMMA LastLoose ==
  ASSUME ClaimsTypeOK, NEW S \in SUBSET Rows, \A i \in S : rows[i].at \in LoosePlaces,
         S # {}
  PROVE  \E m \in S : ~Before(m, m) /\ \A i \in S \ {m} : Before(i, m) /\ ~Before(m, i)
<1> DEFINE C == {2 * MaxRows - Rank(i) : i \in S}
<1>1. /\ \A i \in S : Rank(i) \in Nat /\ Rank(i) <= 2 * MaxRows
      /\ \A i, j \in S : Before(i, j) <=> Rank(i) < Rank(j)
      /\ \A i, j \in S : i # j => Rank(i) # Rank(j)
  BY RankIs
<1>2. C \in SUBSET Nat /\ C # {}
  BY <1>1, IdsAre
<1>3. PICK c \in C : \A d \in C : c <= d
  <2> HIDE DEF C
  <2> QED
    BY <1>2, LeastNumber
<1>4. PICK m \in S : c = 2 * MaxRows - Rank(m)
  OBVIOUS
<1>5. ASSUME NEW i \in S \ {m} PROVE Rank(i) < Rank(m)
  <2>1. 2 * MaxRows - Rank(m) <= 2 * MaxRows - Rank(i)
    BY <1>3, <1>4
  <2> QED
    BY <1>1, <2>1, IdsAre
<1>6. ~Before(m, m)
  BY <1>1
<1>7. ASSUME NEW i \in S \ {m} PROVE Before(i, m) /\ ~Before(m, i)
  BY <1>1, <1>5
<1> QED
  BY <1>6, <1>7

\* Loose rows give what is asked of them, as far as they hold it: no copy is counted
\* twice, and none is left while one is missing (_claim_brew_row over its sources).
LEMMA SharesAddUp ==
  ASSUME ClaimsTypeOK, NEW S \in SUBSET Rows, \A i \in S : rows[i].at \in LoosePlaces,
         NEW n \in Nat
  PROVE  Sum([i \in Ids |-> IF i \in S THEN Share(S, n, i) ELSE 0]) = Lower(n, Copies(S))
<1> DEFINE F(t) == [i \in Ids |-> IF i \in t THEN Share(t, n, i) ELSE 0]
           B == {t \in SUBSET S : Sum(F(t)) # Lower(n, Copies(t))}
<1>1. SUFFICES ASSUME B # {} PROVE FALSE
  <2>1. S \in SUBSET S
    OBVIOUS
  <2> QED
    BY <2>1
<1>2. IsFiniteSet(S) /\ B \in SUBSET (SUBSET S)
  BY IdsAre, RowsAre, FS_Subset
<1>3. PICK t \in B : \A x \in t : t \ {x} \notin B
  BY <1>1, <1>2, LeastPart
<1>4. t \in SUBSET Rows /\ \A i \in t : rows[i].at \in LoosePlaces /\ i \in Ids
  BY RowsAre
<1>5. ASSUME NEW u \in SUBSET t, NEW i \in t
      PROVE  Share(u, n, i) \in Int
  BY <1>4, ShareType
<1>6. \A u \in SUBSET t : F(u) \in [Ids -> Int]
  BY <1>5
<1>7. t # {}
  <2>1. SUFFICES ASSUME t = {} PROVE FALSE
    OBVIOUS
  <2>2. Sum(F({})) = 0
    <3>1. F({}) \in [Ids -> Int] /\ \A i \in Ids : F({})[i] = 0
      OBVIOUS
    <3> HIDE DEF F
    <3> QED
      BY <3>1, IdSums
  <2>3. Lower(n, Copies({})) = 0
    BY CopiesType DEF Lower
  <2> QED
    BY <2>1, <2>2, <2>3
<1>8. PICK m \in t : ~Before(m, m) /\ \A i \in t \ {m} : Before(i, m) /\ ~Before(m, i)
  BY <1>4, <1>7, LastLoose
<1> DEFINE u == t \ {m}
           g == [i \in Ids |-> IF i = m THEN Share(t, n, m) ELSE 0]
<1>9. Sum(F(u)) = Lower(n, Copies(u))
  BY <1>3, <1>8
<1>10. ASSUME NEW i \in u PROVE Share(t, n, i) = Share(u, n, i)
  <2>1. {j \in t : Before(j, i)} = {j \in u : Before(j, i)}
    BY <1>8
  <2> QED
    BY <2>1 DEF Share
<1>11. Share(t, n, m) = Lower(rows[m].qty, n - Lower(n, Copies(u)))
  <2>1. {j \in t : Before(j, m)} = u
    BY <1>8
  <2> QED
    BY <2>1 DEF Share
<1>12. Sum(F(t)) = Sum(F(u)) + Sum(g)
  <2>1. F(t) \in [Ids -> Int] /\ F(u) \in [Ids -> Int] /\ g \in [Ids -> Int]
    BY <1>5, <1>6
  <2>2. ASSUME NEW i \in Ids PROVE F(t)[i] = F(u)[i] + g[i]
    <3>1. CASE i = m
      <4>1. Share(t, n, m) \in Int
        BY <1>5
      <4> QED
        BY <3>1, <4>1
    <3>2. CASE i \in u
      <4>1. Share(t, n, i) = Share(u, n, i) /\ Share(t, n, i) \in Int
        BY <1>5, <1>10, <3>2
      <4> QED
        BY <3>2, <4>1
    <3>3. CASE i \notin t
      BY <1>8, <3>3
    <3> QED
      BY <3>1, <3>2, <3>3
  <2> HIDE DEF F, g, u
  <2> QED
    BY <2>1, <2>2, IdSums
<1>13. Sum(g) = Share(t, n, m)
  BY <1>4, <1>5, IdSums
<1>14. Copies(t) = rows[m].qty + Copies(u)
  BY <1>4, CopiesStep
<1>15. Copies(u) \in Nat /\ rows[m].qty \in Nat
  BY <1>4, CopiesType, RowsAre
<1> HIDE DEF u, g, F
<1>16. Lower(n, Copies(u)) + Lower(rows[m].qty, n - Lower(n, Copies(u))) = Lower(n, Copies(t))
  BY <1>14, <1>15 DEF Lower
<1> QED
  BY <1>3, <1>9, <1>11, <1>12, <1>13, <1>16

\* Two plans together.
LEMMA AndIs ==
  ASSUME NEW f \in Plans, NEW g \in Plans
  PROVE  /\ And(f, g) \in Plans /\ DOMAIN And(f, g) = DOMAIN f \cup DOMAIN g
         /\ \A i \in DOMAIN f : And(f, g)[i] = f[i]
         /\ \A i \in DOMAIN g \ DOMAIN f : And(f, g)[i] = g[i]
<1>1. PICK S \in SUBSET Ids : f \in [S -> Nat]
  BY DEF Plans
<1>2. PICK T \in SUBSET Ids : g \in [T -> Nat]
  BY DEF Plans
<1>3. DOMAIN f = S /\ DOMAIN g = T
  BY <1>1, <1>2
<1>4. And(f, g) \in [S \cup T -> Nat] /\ S \cup T \in SUBSET Ids
  BY <1>1, <1>2, <1>3 DEF And
<1> QED
  BY <1>3, <1>4 DEF Plans, And

\* A plan for one row, and none.
LEMMA SmallPlans ==
  /\ <<>> \in Plans /\ DOMAIN <<>> = {}
  /\ \A i \in Ids, n \in Nat : [j \in {i} |-> n] \in Plans
<1>1. <<>> \in [{} -> Nat] /\ DOMAIN <<>> = {}
  OBVIOUS
<1>2. ASSUME NEW i \in Ids, NEW n \in Nat PROVE [j \in {i} |-> n] \in Plans
  <2>1. [j \in {i} |-> n] \in [{i} -> Nat] /\ {i} \in SUBSET Ids
    OBVIOUS
  <2> QED
    BY <2>1 DEF Plans
<1> QED
  BY <1>1, <1>2 DEF Plans

\* r is request q with k copies put at a place: with a plan that does what f did and
\* adds them to a row there that is like them, or with f and a row of its own.
Landed(q, f, at, proxy, k, r) ==
  /\ r \in Request /\ r = [q EXCEPT !.plan = r.plan, !.add = r.add]
  /\ DOMAIN f \subseteq DOMAIN r.plan /\ DOMAIN r.plan \subseteq Rows
  /\ \A i \in DOMAIN f : r.plan[i] = f[i]
  /\ \/ DOMAIN r.plan = DOMAIN f /\ Real(r.add) = IF proxy THEN 0 ELSE k
     \/ /\ r.add = NoRow
        /\ \E h \in Standing({at}, proxy) :
             /\ DOMAIN r.plan = DOMAIN f \cup {h}
             /\ h \notin DOMAIN f => r.plan[h] = rows[h].qty + k

\* So Landing has it.
LEMMA LandingIs ==
  ASSUME ClaimsTypeOK, NEW q \in Request, NEW f \in Plans, DOMAIN f \subseteq Rows,
         q.add = NoRow, NEW at \in LoosePlaces \cup Decks, NEW proxy \in BOOLEAN, NEW k \in Nat,
         NEW r \in Landing(q, f, at, proxy, k)
  PROVE  Landed(q, f, at, proxy, k, r)
<1>1. CASE k = 0
  <2>1. r = [q EXCEPT !.plan = f]
    BY <1>1 DEF Landing
  <2>2. r \in Request /\ r.plan = f /\ r.add = NoRow
    BY <2>1 DEF Request
  <2> QED
    BY <1>1, <2>1, <2>2 DEF Real, Request, Landed
<1>2. CASE k # 0 /\ Standing({at}, proxy) = {}
  <2> DEFINE a == [at |-> at, proxy |-> proxy, qty |-> k, version |-> 0]
  <2>1. r = [q EXCEPT !.plan = f, !.add = a]
    BY <1>2 DEF Landing
  <2>2. a \in Row /\ a # NoRow
    BY ClaimsAssumption DEF Row
  <2>3. Real(a) = IF proxy THEN 0 ELSE k
    BY <2>2 DEF Real
  <2> HIDE DEF a
  <2>4. r \in Request /\ r.plan = f /\ r.add = a
    BY <2>1, <2>2 DEF Request
  <2> QED
    BY <2>1, <2>3, <2>4 DEF Landed
<1>3. CASE k # 0 /\ Standing({at}, proxy) # {}
  <2>1. PICK h \in Standing({at}, proxy) : r = [q EXCEPT !.plan = And(f, [j \in {h} |-> rows[h].qty + k])]
    BY <1>3 DEF Landing
  <2>2. h \in Rows /\ h \in Ids /\ rows[h].qty + k \in Nat
    BY RowsAre DEF Standing
  <2> DEFINE g == [j \in {h} |-> rows[h].qty + k]
  <2>3. g \in Plans /\ DOMAIN g = {h} /\ g[h] = rows[h].qty + k
    BY <2>2, SmallPlans
  <2> HIDE DEF g
  <2>4. /\ And(f, g) \in Plans /\ DOMAIN And(f, g) = DOMAIN f \cup {h}
        /\ \A i \in DOMAIN f : And(f, g)[i] = f[i]
        /\ h \notin DOMAIN f => And(f, g)[h] = rows[h].qty + k
    <3>1. /\ And(f, g) \in Plans /\ DOMAIN And(f, g) = DOMAIN f \cup DOMAIN g
          /\ \A i \in DOMAIN f : And(f, g)[i] = f[i]
          /\ \A i \in DOMAIN g \ DOMAIN f : And(f, g)[i] = g[i]
      BY <2>3, AndIs, Zenon
    <3> QED
      BY <2>3, <3>1
  <2>5. r = [q EXCEPT !.plan = And(f, g)]
    BY <2>1 DEF g
  <2> DEFINE p == And(f, g)
  <2>6. p \in Plans /\ r = [q EXCEPT !.plan = p]
    BY <2>4, <2>5
  <2> HIDE DEF p
  <2>7. r \in Request /\ r.plan = p /\ r.add = NoRow /\ r = [q EXCEPT !.plan = r.plan, !.add = r.add]
    BY <2>6 DEF Request
  <2> QED
    BY <2>2, <2>4, <2>7 DEF p, Landed
<1> QED
  BY <1>1, <1>2, <1>3

----------------------------------------------------------------------------
(* Steps that write no row *)

\* What the invariant says of a request depends on the rows, and on nothing else
\* that is not named.
LEMMA SameRows ==
  ASSUME rows' = rows
  PROVE  /\ Rows' = Rows
         /\ \A q : /\ Filled(q)' <=> Filled(q)
                   /\ Staged(q)' <=> Staged(q)
                   /\ Settled(q)' <=> Settled(q)
                   /\ Balanced(q)' <=> Balanced(q)
                   /\ Guarded(q)' <=> Guarded(q)
         /\ \A s, q, L : /\ Locked(s, q, L)' <=> Locked(s, q, L)
                         /\ Fresh(s, q, L)' <=> Fresh(s, q, L)
                         /\ Secure(s, q, L)' <=> Secure(s, q, L)
<1>1. Rows' = Rows
  BY DEF Rows
<1>2. ASSUME NEW q
      PROVE  /\ Filled(q)' <=> Filled(q)
             /\ Staged(q)' <=> Staged(q)
             /\ Settled(q)' <=> Settled(q)
             /\ Guarded(q)' <=> Guarded(q)
  BY DEF Filled, Staged, Settled, Guarded, There
<1>3. ASSUME NEW q PROVE Balanced(q)' <=> Balanced(q)
  BY <1>1 DEF Balanced, Change, Disposed
<1>4. ASSUME NEW s, NEW q, NEW L
      PROVE  /\ Locked(s, q, L)' <=> Locked(s, q, L)
             /\ Fresh(s, q, L)' <=> Fresh(s, q, L)
             /\ Secure(s, q, L)' <=> Secure(s, q, L)
  BY <1>1 DEF Locked, Fresh, Secure, Guarded, InClaimed
<1> QED
  BY <1>1, <1>2, <1>3, <1>4

\* Request q has begun and not ended.
Going(q) == q.stage \in {"deck", "rows", "write"}

\* A step of request s that makes it q, takes or gives back locks of its own and
\* writes no row keeps the invariant, if q is as the invariant has it.
LEMMA QuietStep ==
  ASSUME ClaimsInv, NEW s \in Slots, NEW q \in Request,
         request' = [request EXCEPT ![s] = q],
         UNCHANGED <<rows, brew, owned>>,
         lock' \in [Ids \cup Decks -> Slots \cup {NoOne}],
         loop' \in Slots \cup {NoOne}, overlapped' \in BOOLEAN, overlapped => overlapped',
         \A x \in Ids \cup Decks : lock'[x] # lock[x] => lock[x] \in {NoOne, s},
         Filled(q), Staged(q), Locked(s, q, lock'), Fresh(s, q, lock'),
         q.kind = "confirm" /\ q.done =>
           /\ request[s].kind = "confirm" /\ request[s].done
           /\ q.proxy = request[s].proxy /\ q.shown = request[s].shown,
         ~overlapped' =>
           /\ Secure(s, q, lock') /\ Balanced(q)
           /\ Going(q) => \A t \in Slots \ {s} : Open(t) => Guarded(q) /\ Guarded(request[t])
  PROVE  ClaimsInv'
<1>1. ClaimsTypeOK /\ LocksInv /\ Exclusive /\ Conserved
  BY DEF ClaimsInv, LocksInv
<1>2. NoOne \notin Slots /\ NoOne \notin Decks
  BY ClaimsAssumption
<1>3. ClaimsTypeOK'
  BY <1>1 DEF ClaimsTypeOK
<1>4. /\ request'[s] = q
      /\ \A t \in Slots \ {s} : request'[t] = request[t]
  BY <1>1 DEF ClaimsTypeOK
<1>5. rows' = rows
  OBVIOUS
<1>6. ASSUME NEW t \in Slots \ {s}
      PROVE  /\ Locked(t, request[t], lock')
             /\ Fresh(t, request[t], lock')
             /\ ~overlapped' => Secure(t, request[t], lock')
  <2>1. \A x \in Ids \cup Decks : lock[x] = t => lock'[x] = t
    BY <1>2
  <2>2. /\ Filled(request[t]) /\ Staged(request[t])
        /\ Locked(t, request[t], lock) /\ Fresh(t, request[t], lock)
    BY <1>1 DEF LocksInv
  <2>3. request[t] \in Request /\ DOMAIN request[t].plan \subseteq Ids
    BY <1>1, <2>2 DEF ClaimsTypeOK, Staged, There
  <2>4. request[t].kind \in ClaimKinds => request[t].deck \in Decks
    BY <2>2 DEF Filled, ClaimKinds
  <2>5. \A i \in Named(request[t]) : i \in Rows => i \in Ids
    BY DEF Rows
  <2>6. Locked(t, request[t], lock')
    BY <2>1, <2>2, <2>3, <2>4, <2>5 DEF Locked
  <2>7. Fresh(t, request[t], lock')
    BY <2>1, <2>2, <2>3 DEF Fresh
  <2>8. ASSUME ~overlapped' PROVE Secure(t, request[t], lock')
    <3>1. Secure(t, request[t], lock)
      BY <1>1, <2>8 DEF Exclusive
    <3> QED
      BY <2>1, <2>3, <3>1 DEF Secure
  <2> QED
    BY <2>6, <2>7, <2>8
<1>7. Settled(q)
  <2>1. Settled(request[s])
    BY <1>1 DEF LocksInv
  <2> QED
    BY <2>1 DEF Settled
<1>8. ASSUME NEW t \in Slots
      PROVE  /\ Filled(request[t])' /\ Staged(request[t])' /\ Settled(request[t])'
             /\ Locked(t, request[t], lock)' /\ Fresh(t, request[t], lock)'
  <2>1. /\ Filled(request'[t]) /\ Staged(request'[t]) /\ Settled(request'[t])
        /\ Locked(t, request'[t], lock') /\ Fresh(t, request'[t], lock')
    <3>1. CASE t = s
      BY <1>4, <1>7, <3>1
    <3>2. CASE t # s
      BY <1>1, <1>4, <1>6, <3>2 DEF LocksInv
    <3> QED
      BY <3>1, <3>2
  <2> QED
    BY <1>5, <2>1, SameRows
<1>9. DoneOnce'
  <2>1. DoneOnce
    BY <1>1 DEF LocksInv
  <2>2. \A t \in Slots :
          request'[t].kind = "confirm" /\ request'[t].done =>
            /\ request[t].kind = "confirm" /\ request[t].done
            /\ request'[t].proxy = request[t].proxy /\ request'[t].shown = request[t].shown
    BY <1>4
  <2> QED
    BY <2>1, <2>2 DEF DoneOnce
<1>10. LocksInv'
  BY <1>3, <1>8, <1>9 DEF LocksInv
<1>11. Exclusive'
  <2>1. SUFFICES ASSUME ~overlapped'
                 PROVE  /\ \A a, b \in Slots :
                             a # b /\ Open(a)' /\ Open(b)'
                               => Guarded(request[a])' /\ Guarded(request[b])'
                        /\ \A t \in Slots : Secure(t, request[t], lock)' /\ Balanced(request[t])'
    BY DEF Exclusive
  <2>2. ~overlapped
    BY <2>1
  <2>3. ASSUME NEW t \in Slots PROVE Secure(t, request[t], lock)' /\ Balanced(request[t])'
    <3>1. Secure(t, request'[t], lock') /\ Balanced(request'[t])
      <4>1. CASE t = s
        BY <1>4, <2>1, <4>1
      <4>2. CASE t # s
        BY <1>1, <1>4, <1>6, <2>1, <2>2, <4>2 DEF Exclusive
      <4> QED
        BY <4>1, <4>2
    <3> QED
      BY <1>5, <3>1, SameRows
  <2>4. \A t \in Slots : Open(t)' <=> Going(request'[t])
    BY DEF Open, Going
  <2>5. ASSUME NEW a \in Slots, NEW b \in Slots, a # b, Open(a)', Open(b)'
        PROVE  Guarded(request[a])' /\ Guarded(request[b])'
    <3>1. Guarded(request'[a]) /\ Guarded(request'[b])
      <4>1. \A t \in Slots \ {s} : Open(t)' => Open(t)
        BY <1>4 DEF Open
      <4>2. CASE a = s
        BY <1>4, <2>1, <2>4, <2>5, <4>1, <4>2
      <4>3. CASE b = s
        BY <1>4, <2>1, <2>4, <2>5, <4>1, <4>3
      <4>4. CASE a # s /\ b # s
        BY <1>1, <1>4, <2>2, <2>5, <4>1, <4>4 DEF Exclusive
      <4> QED
        BY <4>2, <4>3, <4>4
    <3> QED
      BY <1>5, <3>1, SameRows
  <2> QED
    BY <2>3, <2>5
<1>12. Conserved'
  <2>1. Copies(Standing(LoosePlaces \cup Decks, FALSE))' = Copies(Standing(LoosePlaces \cup Decks, FALSE))
    <3> DEFINE S == Standing(LoosePlaces \cup Decks, FALSE)
    <3>1. S' = S
      BY <1>5, SameRows DEF Standing
    <3>2. Copies(S)' = CopiesIn(rows', S') /\ Copies(S) = CopiesIn(rows, S)
      BY Zenon DEF Copies, CopiesIn, MapThenSumSet, MapThenFoldSet
    <3> HIDE DEF S
    <3>3. Copies(S)' = Copies(S)
      BY <1>5, <3>1, <3>2
    <3> QED
      BY <3>3 DEF S
  <2> QED
    BY <1>1, <2>1 DEF Conserved
<1> QED
  BY <1>10, <1>11, <1>12 DEF ClaimsInv

\* A request keeps its form: q is p further on.
Further(p, q) ==
  /\ q.kind = p.kind /\ q.deck = p.deck /\ q.row = p.row /\ q.proxy = p.proxy
  /\ q.qty = p.qty /\ q.shown = p.shown

\* What the page put in is there still.
LEMMA FurtherFilled ==
  ASSUME NEW p, NEW q, Filled(p), Further(p, q), p.stage # "none", q.stage # "none"
  PROVE  Filled(q) /\ (Guarded(q) <=> Guarded(p)) /\ Named(q) = Named(p)
BY DEF Filled, Further, Guarded, Named

\* What the invariant says of one request.
LEMMA OneRequest ==
  ASSUME ClaimsInv, NEW s \in Slots
  PROVE  /\ ClaimsTypeOK /\ request[s] \in Request
         /\ Filled(request[s]) /\ Staged(request[s]) /\ Settled(request[s])
         /\ Locked(s, request[s], lock) /\ Fresh(s, request[s], lock)
         /\ ~overlapped => Secure(s, request[s], lock) /\ Balanced(request[s])
         /\ Open(s) <=> Going(request[s])
BY DEF ClaimsInv, LocksInv, ClaimsTypeOK, Exclusive, Open, Going

\* A handler starts.
LEMMA StartsKeeps ==
  ASSUME ClaimsInv, NEW s \in Slots, NEW q \in Request, Starts(s, q), Further(request[s], q),
         q.stage \notin {"none", "posted"}, ~q.done,
         Staged(q), Locked(s, q, lock), Fresh(s, q, lock), Secure(s, q, lock), Balanced(q)
  PROVE  ClaimsInv'
<1>1. /\ ClaimsTypeOK /\ Filled(request[s]) /\ request[s].stage = "posted"
  BY OneRequest DEF Starts
<1>2. Filled(q)
  BY <1>1, FurtherFilled
<1>3. /\ request' = [request EXCEPT ![s] = q] /\ UNCHANGED <<rows, brew, lock, owned>>
      /\ loop' \in Slots \cup {NoOne}
      /\ overlapped' = (overlapped \/ \E t \in Slots \ {s} :
                                         Open(t) /\ ~(Guarded(q) /\ Guarded(request[t])))
  BY DEF Starts
<1>4. overlapped' \in BOOLEAN /\ (overlapped => overlapped')
  BY <1>1, <1>3 DEF ClaimsTypeOK
<1>5. lock' \in [Ids \cup Decks -> Slots \cup {NoOne}] /\ lock' = lock
  BY <1>1, <1>3 DEF ClaimsTypeOK
<1>6. ~overlapped' => \A t \in Slots \ {s} : Open(t) => Guarded(q) /\ Guarded(request[t])
  BY <1>3
<1> QED
  BY <1>2, <1>3, <1>4, <1>5, <1>6, QuietStep

\* A handler goes on.
LEMMA ContinuesKeeps ==
  ASSUME ClaimsInv, NEW s \in Slots, NEW q \in Request, Open(s), Continues(s, q),
         Further(request[s], q), Going(q), ~q.done,
         Staged(q), Locked(s, q, lock), Fresh(s, q, lock),
         ~overlapped => Secure(s, q, lock) /\ Balanced(q)
  PROVE  ClaimsInv'
<1>1. ClaimsTypeOK /\ Filled(request[s]) /\ Going(request[s])
  BY OneRequest
<1>2. Filled(q) /\ (Guarded(q) <=> Guarded(request[s]))
  BY <1>1, FurtherFilled DEF Going
<1>3. /\ request' = [request EXCEPT ![s] = q]
      /\ UNCHANGED <<rows, brew, owned>> /\ lock' = lock /\ loop' = loop /\ overlapped' = overlapped
  BY DEF Continues
<1>4. /\ lock' \in [Ids \cup Decks -> Slots \cup {NoOne}] /\ loop' \in Slots \cup {NoOne}
      /\ overlapped' \in BOOLEAN
  BY <1>1, <1>3 DEF ClaimsTypeOK
<1>5. ~overlapped => \A t \in Slots \ {s} : Open(t) => Guarded(q) /\ Guarded(request[t])
  BY <1>2 DEF ClaimsInv, Exclusive
<1> QED
  BY <1>2, <1>3, <1>4, <1>5, QuietStep

\* The locks a request gives back are its own.
LEMMA ReleasedIs ==
  ASSUME ClaimsTypeOK, NEW s \in Slots
  PROVE  /\ Released(s) \in [Ids \cup Decks -> Slots \cup {NoOne}]
         /\ \A x \in Ids \cup Decks : Released(s)[x] # lock[x] => lock[x] \in {NoOne, s}
BY DEF ClaimsTypeOK, Released

\* A request ends, without having written.
LEMMA EndsKeeps ==
  ASSUME ClaimsInv, NEW s \in Slots, Open(s), Ends(s, FALSE), lock' \in {lock, Released(s)},
         UNCHANGED <<rows, brew, owned, overlapped>>
  PROVE  ClaimsInv'
<1> DEFINE q == [request[s] EXCEPT !.stage = "answered", !.want = {}, !.plan = <<>>, !.add = NoRow,
                                   !.done = FALSE]
<1>1. ClaimsTypeOK /\ Filled(request[s]) /\ Going(request[s]) /\ request[s] \in Request
  BY OneRequest
<1>2. /\ request' = [request EXCEPT ![s] = q] /\ loop' \in Slots \cup {NoOne}
  BY <1>1 DEF Ends, ClaimsTypeOK
<1>3. /\ q \in Request /\ q.stage = "answered" /\ q.plan = <<>> /\ q.add = NoRow /\ ~q.done
      /\ Further(request[s], q)
  BY <1>1, SmallPlans DEF Request, Further
<1> HIDE DEF q
<1>4. Filled(q)
  BY <1>1, <1>3, FurtherFilled DEF Going
<1>5. /\ Staged(q) /\ Locked(s, q, lock') /\ Fresh(s, q, lock')
      /\ Secure(s, q, lock') /\ Balanced(q) /\ ~Going(q)
  BY <1>3 DEF Staged, Locked, Fresh, Secure, Balanced, Going
<1>6. /\ lock' \in [Ids \cup Decks -> Slots \cup {NoOne}]
      /\ \A x \in Ids \cup Decks : lock'[x] # lock[x] => lock[x] \in {NoOne, s}
      /\ overlapped' \in BOOLEAN
  BY <1>1, ReleasedIs DEF ClaimsTypeOK
<1> QED
  BY <1>2, <1>3, <1>4, <1>5, <1>6, QuietStep

\* A refusal keeps the locks, or gives them back (decks_assemble_confirm).
LEMMA RefuseKeeps ==
  ASSUME ClaimsInv, NEW s \in Slots, Open(s), Refuse(s)
  PROVE  ClaimsInv'
BY EndsKeeps DEF Refuse, AfterRefusal

\* The invariant survives the database breaking up a circle.
LEMMA AbortKeeps ==
  ASSUME ClaimsInv, NEW s \in Slots, Abort(s)
  PROVE  ClaimsInv'
<1>1. Open(s)
  BY DEF Abort, WaitsFor
<1> QED
  BY <1>1, EndsKeeps DEF Abort

\* The invariant survives an answer and the end of its session.
LEMMA CloseKeeps ==
  ASSUME ClaimsInv, NEW s \in Slots, Close(s)
  PROVE  ClaimsInv'
<1> DEFINE q == [request[s] EXCEPT !.stage = "closed"]
<1>1. /\ ClaimsTypeOK /\ Filled(request[s]) /\ Staged(request[s]) /\ request[s] \in Request
      /\ request[s].stage = "answered"
  BY OneRequest DEF Close, Answered
<1>2. /\ request' = [request EXCEPT ![s] = q]
      /\ UNCHANGED <<rows, brew, owned>> /\ loop' = loop /\ overlapped' = overlapped
      /\ lock' = Released(s)
  BY DEF Close
<1>3. /\ q \in Request /\ q.stage = "closed" /\ q.plan = <<>> /\ q.add = NoRow
      /\ q.done = request[s].done /\ Further(request[s], q)
  BY <1>1 DEF Request, Further, Staged
<1> HIDE DEF q
<1>4. Filled(q)
  BY <1>1, <1>3, FurtherFilled
<1>5. /\ Staged(q) /\ Locked(s, q, lock') /\ Fresh(s, q, lock')
      /\ Secure(s, q, lock') /\ Balanced(q) /\ ~Going(q)
  BY <1>3 DEF Staged, Locked, Fresh, Secure, Balanced, Going
<1>6. /\ lock' \in [Ids \cup Decks -> Slots \cup {NoOne}]
      /\ \A x \in Ids \cup Decks : lock'[x] # lock[x] => lock[x] \in {NoOne, s}
      /\ overlapped' \in BOOLEAN /\ loop' \in Slots \cup {NoOne}
  BY <1>1, <1>2, ReleasedIs DEF ClaimsTypeOK
<1>7. q.kind = "confirm" /\ q.done =>
        /\ request[s].kind = "confirm" /\ request[s].done
        /\ q.proxy = request[s].proxy /\ q.shown = request[s].shown
  BY <1>3 DEF Further
<1> QED
  BY <1>2, <1>3, <1>4, <1>5, <1>6, <1>7, QuietStep

\* A form is a request that can be posted.
LEMMA FormIs ==
  ASSUME ClaimsTypeOK, NEW q \in Forms
  PROVE  /\ q \in Request /\ Filled(q) /\ q.stage = "posted"
         /\ q.plan = <<>> /\ q.add = NoRow /\ ~q.done
<1>1. ASSUME NEW kind \in Kinds, NEW d \in Decks \cup {NoOne}, NEW i \in Ids \cup {0}, NEW k \in Nat,
             NEW p \in Ids \cup {0}, NEW v \in {<<>>} \cup (Nat \X Nat),
             q = [Form(kind, d, i, k) EXCEPT !.proxy = p, !.shown = v]
      PROVE  /\ q \in Request /\ q.stage = "posted" /\ q.plan = <<>> /\ q.add = NoRow /\ ~q.done
             /\ q.kind = kind /\ q.deck = d /\ q.row = i /\ q.qty = k /\ q.proxy = p /\ q.shown = v
  BY <1>1, SmallPlans DEF Form, Unposted, Request
<1>2. ASSUME NEW kind \in Kinds, NEW d \in Decks \cup {NoOne}, NEW i \in Ids \cup {0}, NEW k \in Nat,
             q = Form(kind, d, i, k)
      PROVE  /\ q \in Request /\ q.stage = "posted" /\ q.plan = <<>> /\ q.add = NoRow /\ ~q.done
             /\ q.kind = kind /\ q.deck = d /\ q.row = i /\ q.qty = k
  BY <1>2, SmallPlans DEF Form, Unposted, Request
<1>3. CASE \E d \in Decks : q = Form("materialize", d, 0, 0)
  <2>1. PICK d \in Decks : q = Form("materialize", d, 0, 0)
    BY <1>3
  <2>2. /\ q \in Request /\ q.stage = "posted" /\ q.plan = <<>> /\ q.add = NoRow /\ ~q.done
        /\ q.kind = "materialize" /\ q.deck = d
    BY <1>2, <2>1 DEF Kinds
  <2> QED
    BY <2>2 DEF Filled
<1>4. CASE \E d \in Decks : q \in Instructions(d)
  <2>0. PICK d \in Decks : q \in Instructions(d)
    BY <1>4
  <2> DEFINE I(p, i) == {[Form("confirm", d, i, k) EXCEPT !.proxy = p,
                              !.shown = <<rows[p].version, rows[i].version>>]
                           : k \in 1 .. Lower(rows[p].qty, rows[i].qty)}
  <2>10. q \in UNION {UNION {I(p, i) : p \in Standing({d}, TRUE)} : i \in Standing(LoosePlaces, FALSE)}
    BY <2>0, Zenon DEF Instructions
  <2> HIDE DEF I
  <2>1. PICK p \in Standing({d}, TRUE), i \in Standing(LoosePlaces, FALSE) : q \in I(p, i)
    <3>1. PICK i \in Standing(LoosePlaces, FALSE) : q \in UNION {I(p, i) : p \in Standing({d}, TRUE)}
      BY <2>10
    <3> QED
      BY <3>1
  <2>2. PICK k \in 1 .. Lower(rows[p].qty, rows[i].qty) :
          q = [Form("confirm", d, i, k) EXCEPT !.proxy = p, !.shown = <<rows[p].version, rows[i].version>>]
    BY <2>1 DEF I
  <2>3. There(p) /\ There(i) /\ p \in Ids /\ i \in Ids /\ rows[p].version \in Nat /\ rows[i].version \in Nat
        /\ rows[p].qty \in Nat /\ rows[i].qty \in Nat
    BY RowsAre DEF Standing
  <2>4. k \in Nat /\ k > 0
    BY <2>3 DEF Lower
  <2> DEFINE v == <<rows[p].version, rows[i].version>>
  <2>5. v \in Nat \X Nat
    BY <2>3
  <2>6. q = [Form("confirm", d, i, k) EXCEPT !.proxy = p, !.shown = v]
    BY <2>2
  <2> HIDE DEF v
  <2>7. /\ q \in Request /\ q.stage = "posted" /\ q.plan = <<>> /\ q.add = NoRow /\ ~q.done
        /\ q.kind = "confirm" /\ q.deck = d /\ q.row = i /\ q.qty = k /\ q.proxy = p /\ q.shown = v
    BY <1>1, <2>3, <2>4, <2>5, <2>6 DEF Kinds
  <2> QED
    BY <2>3, <2>4, <2>5, <2>7 DEF Filled
<1>5. CASE \E i \in Rows : q \in {Form("split", NoOne, i, 1), Form("adjust", NoOne, i, 1)}
  <2>1. PICK i \in Rows : q \in {Form("split", NoOne, i, 1), Form("adjust", NoOne, i, 1)}
    BY <1>5
  <2>2. There(i) /\ i \in Ids
    BY RowsAre
  <2>3. /\ q \in Request /\ q.stage = "posted" /\ q.plan = <<>> /\ q.add = NoRow /\ ~q.done
        /\ q.kind \in {"split", "adjust"} /\ q.row = i /\ q.qty = 1
    BY <1>2, <2>1, <2>2 DEF Kinds
  <2> QED
    BY <2>2, <2>3 DEF Filled
<1>6. CASE \E d \in Decks, i \in Standing(LoosePlaces, FALSE) : q = Form("pull", d, i, 1)
  <2>1. PICK d \in Decks, i \in Standing(LoosePlaces, FALSE) : q = Form("pull", d, i, 1)
    BY <1>6
  <2>2. There(i) /\ i \in Ids
    BY RowsAre DEF Standing
  <2>3. /\ q \in Request /\ q.stage = "posted" /\ q.plan = <<>> /\ q.add = NoRow /\ ~q.done
        /\ q.kind = "pull" /\ q.deck = d /\ q.row = i /\ q.qty = 1
    BY <1>2, <2>1, <2>2 DEF Kinds
  <2> QED
    BY <2>2, <2>3 DEF Filled
<1>7. CASE \E i \in {j \in Rows : rows[j].at \in Decks} : q = Form("return", rows[i].at, i, 0)
  <2>1. PICK i \in {j \in Rows : rows[j].at \in Decks} : q = Form("return", rows[i].at, i, 0)
    BY <1>7
  <2>2. There(i) /\ i \in Ids /\ rows[i].at \in Decks
    BY RowsAre
  <2>3. /\ q \in Request /\ q.stage = "posted" /\ q.plan = <<>> /\ q.add = NoRow /\ ~q.done
        /\ q.kind = "return" /\ q.deck = rows[i].at /\ q.row = i
    BY <1>2, <2>1, <2>2 DEF Kinds
  <2> QED
    BY <2>2, <2>3 DEF Filled
<1> QED
  <2> DEFINE A(d) == {Form("materialize", d, 0, 0)} \cup Instructions(d)
             B == {Form("split", NoOne, i, 1) : i \in {j \in Rows : rows[j].qty > 1}}
             C == {Form("adjust", NoOne, i, 1) : i \in Rows}
             D == UNION {{Form("pull", d, i, 1) : i \in Standing(LoosePlaces, FALSE)} : d \in Decks}
             E == {Form("return", rows[i].at, i, 0) : i \in {j \in Rows : rows[j].at \in Decks}}
  <2>1. q \in (UNION {A(d) : d \in {e \in Decks : brew[e]}}) \cup B \cup C \cup D \cup E
    BY Zenon DEF Forms
  <2>2. ASSUME NEW d \in {e \in Decks : brew[e]}, q \in A(d)
        PROVE  (\E e \in Decks : q = Form("materialize", e, 0, 0)) \/ \E e \in Decks : q \in Instructions(e)
    BY <2>2
  <2>3. q \in B \cup C => \E i \in Rows : q \in {Form("split", NoOne, i, 1), Form("adjust", NoOne, i, 1)}
    OBVIOUS
  <2>4. q \in D => \E d \in Decks, i \in Standing(LoosePlaces, FALSE) : q = Form("pull", d, i, 1)
    OBVIOUS
  <2>5. q \in E => \E i \in {j \in Rows : rows[j].at \in Decks} : q = Form("return", rows[i].at, i, 0)
    OBVIOUS
  <2>6. q \in UNION {A(d) : d \in {e \in Decks : brew[e]}} => \E d \in {e \in Decks : brew[e]} : q \in A(d)
    <3> HIDE DEF A
    <3> QED
      OBVIOUS
  <2> HIDE DEF A, B, C, D, E
  <2> QED
    BY <1>3, <1>4, <1>5, <1>6, <1>7, <2>1, <2>2, <2>3, <2>4, <2>5, <2>6

\* The invariant survives a form being posted.
LEMMA PostKeeps ==
  ASSUME ClaimsInv, NEW s \in Slots, Post(s)
  PROVE  ClaimsInv'
<1>1. ClaimsTypeOK
  BY OneRequest
<1>2. PICK q \in Forms : request' = [request EXCEPT ![s] = q]
  BY DEF Post
<1>3. /\ q \in Request /\ Filled(q) /\ q.stage = "posted"
      /\ q.plan = <<>> /\ q.add = NoRow /\ ~q.done
  BY <1>1, FormIs
<1>4. /\ Staged(q) /\ Locked(s, q, lock') /\ Fresh(s, q, lock')
      /\ Secure(s, q, lock') /\ Balanced(q) /\ ~Going(q)
  BY <1>3 DEF Staged, Locked, Fresh, Secure, Balanced, Going
<1>5. UNCHANGED <<rows, brew, owned>> /\ lock' = lock /\ loop' = loop /\ overlapped' = overlapped
  BY DEF Post
<1>6. /\ lock' \in [Ids \cup Decks -> Slots \cup {NoOne}] /\ loop' \in Slots \cup {NoOne}
      /\ overlapped' \in BOOLEAN
  BY <1>1, <1>5 DEF ClaimsTypeOK
<1> QED
  BY <1>2, <1>3, <1>4, <1>5, <1>6, QuietStep

\* The invariant survives a request getting its next lock.
LEMMA AcquireKeeps ==
  ASSUME ClaimsInv, NEW s \in Slots, Acquire(s)
  PROVE  ClaimsInv'
<1> DEFINE p == request[s]
           x == NextLock(s)
           q == [p EXCEPT !.want = @ \ {x}]
<1>1. /\ ClaimsTypeOK /\ p \in Request /\ Filled(p) /\ Staged(p)
      /\ Locked(s, p, lock) /\ Fresh(s, p, lock)
      /\ ~overlapped => Secure(s, p, lock) /\ Balanced(p)
      /\ Open(s) /\ Going(p)
  BY OneRequest DEF Acquire
<1>2. /\ request' = [request EXCEPT ![s] = q] /\ lock[x] \in {NoOne, s}
      /\ lock' = IF x \in Decks \cup Rows THEN [lock EXCEPT ![x] = s] ELSE lock
      /\ UNCHANGED <<rows, brew, owned>> /\ loop' = loop /\ overlapped' = overlapped
  BY <1>1 DEF Acquire, ClaimsTypeOK
<1>3. /\ q \in Request /\ Further(p, q) /\ q.want = p.want \ {x}
      /\ q.stage = p.stage /\ q.plan = p.plan /\ q.add = p.add /\ q.done = p.done
  BY <1>1 DEF Request, Further
<1>4. p.stage = "deck" => x = p.deck
  BY DEF NextLock
<1> HIDE DEF p, x, q
<1>5. Filled(q) /\ (Guarded(q) <=> Guarded(p)) /\ Named(q) = Named(p)
  BY <1>1, <1>3, FurtherFilled DEF Going
<1>6. /\ lock' \in [Ids \cup Decks -> Slots \cup {NoOne}]
      /\ \A y \in Ids \cup Decks : lock'[y] # lock[y] => lock[y] \in {NoOne, s}
      /\ \A y \in Ids \cup Decks : lock[y] = s => lock'[y] = s
      /\ x \in Decks \cup Rows => lock'[x] = s
      /\ loop' \in Slots \cup {NoOne} /\ overlapped' \in BOOLEAN
  BY <1>1, <1>2, RowsAre DEF ClaimsTypeOK
<1>7. Staged(q)
  BY <1>1, <1>3 DEF Staged, Further
<1>8. p.kind \in ClaimKinds => p.deck \in Decks
  BY <1>1 DEF Filled, ClaimKinds
<1>9. Locked(s, q, lock')
  <2>1. ASSUME p.kind \in ClaimKinds, p.stage \in {"rows", "write"} \/ (p.stage = "deck" /\ q.want = {})
        PROVE  lock'[p.deck] = s
    <3>1. CASE p.stage \in {"rows", "write"}
      BY <1>1, <1>6, <1>8, <2>1, <3>1 DEF Locked
    <3>2. CASE p.stage = "deck"
      BY <1>4, <1>6, <1>8, <2>1, <3>2
    <3> QED
      BY <2>1, <3>1, <3>2
  <2>2. ASSUME p.stage = "rows", NEW i \in Named(p) \ q.want, i \in Rows PROVE lock'[i] = s
    BY <1>1, <1>3, <1>6, <2>2, RowsAre DEF Locked
  <2>3. ASSUME p.stage = "write", NEW i \in DOMAIN p.plan \ q.want, i \in Rows PROVE lock'[i] = s
    BY <1>1, <1>3, <1>6, <2>3, RowsAre DEF Locked
  <2> QED
    BY <1>3, <1>5, <2>1, <2>2, <2>3 DEF Locked, Further
<1>10. Fresh(s, q, lock')
  BY <1>1, <1>3, <1>6, RowsAre DEF Fresh, Further
<1>11. ~overlapped => Secure(s, q, lock') /\ Balanced(q)
  <2>1. ASSUME ~overlapped PROVE Secure(s, q, lock')
    BY <1>1, <1>3, <1>5, <1>6, <2>1, RowsAre DEF Secure, InClaimed, Further
  <2>2. ASSUME ~overlapped PROVE Balanced(q)
    BY <1>1, <1>3, <2>2 DEF Balanced, Change, Disposed, Further
  <2> QED
    BY <2>1, <2>2
<1>12. ~overlapped => \A t \in Slots \ {s} : Open(t) => Guarded(q) /\ Guarded(request[t])
  BY <1>1, <1>5 DEF ClaimsInv, Exclusive, p
<1>13. q.kind = "confirm" /\ q.done =>
         /\ p.kind = "confirm" /\ p.done /\ q.proxy = p.proxy /\ q.shown = p.shown
  BY <1>3 DEF Further
<1> QED
  BY <1>2, <1>3, <1>5, <1>6, <1>7, <1>9, <1>10, <1>11, <1>12, <1>13, QuietStep DEF p

\* A request that has been posted and not begun.
LEMMA PostedIs ==
  ASSUME ClaimsInv, NEW s \in Slots, request[s].stage = "posted"
  PROVE  /\ ClaimsTypeOK /\ request[s] \in Request /\ Filled(request[s])
         /\ request[s].plan = <<>> /\ request[s].add = NoRow /\ ~request[s].done
BY OneRequest DEF Staged

\* The invariant survives the start of a claim.
LEMMA StartClaimKeeps ==
  ASSUME ClaimsInv, NEW s \in Slots, StartClaim(s)
  PROVE  ClaimsInv'
<1> DEFINE p == request[s]
           q == [p EXCEPT !.stage = "deck", !.want = {p.deck}]
<1>1. p.kind \in ClaimKinds /\ Starts(s, q) /\ p.stage = "posted"
  BY DEF StartClaim, Starts, ClaimKinds
<1>2. p \in Request /\ Filled(p) /\ p.plan = <<>> /\ p.add = NoRow /\ ~p.done
  BY <1>1, PostedIs
<1>3. p.deck \in Decks
  BY <1>1, <1>2 DEF Filled, ClaimKinds
<1>4. /\ q \in Request /\ Further(p, q) /\ q.stage = "deck" /\ q.want # {}
      /\ q.plan = <<>> /\ q.add = NoRow /\ ~q.done /\ q.kind \in ClaimKinds
  BY <1>1, <1>2, <1>3 DEF Request, Further
<1> HIDE DEF q
<1>5. /\ Staged(q) /\ Locked(s, q, lock) /\ Fresh(s, q, lock)
      /\ Secure(s, q, lock) /\ Balanced(q)
  BY <1>4 DEF Staged, Locked, Fresh, Secure, Balanced
<1> QED
  BY <1>1, <1>4, <1>5, StartsKeeps

\* The invariant survives the start of a split.
LEMMA StartSplitKeeps ==
  ASSUME ClaimsInv, NEW s \in Slots, StartSplit(s)
  PROVE  ClaimsInv'
<1> DEFINE p == request[s]
           q == [p EXCEPT !.stage = "rows", !.want = {p.row}]
<1>1. p.kind = "split" /\ Starts(s, q) /\ p.stage = "posted"
  BY DEF StartSplit, Starts
<1>2. p \in Request /\ Filled(p) /\ p.plan = <<>> /\ p.add = NoRow /\ ~p.done
  BY <1>1, PostedIs
<1>3. p.row \in Ids
  BY <1>1, <1>2 DEF Filled, There
<1>4. /\ q \in Request /\ Further(p, q) /\ q.stage = "rows" /\ q.want = {q.row}
      /\ q.plan = <<>> /\ q.add = NoRow /\ ~q.done /\ q.kind = "split"
  BY <1>1, <1>2, <1>3 DEF Request, Further
<1> HIDE DEF q
<1>5. /\ Staged(q) /\ Locked(s, q, lock) /\ Fresh(s, q, lock)
      /\ Secure(s, q, lock) /\ Balanced(q)
  BY <1>4 DEF Staged, Locked, Fresh, Secure, Balanced, Named, ClaimKinds
<1> QED
  BY <1>1, <1>4, <1>5, StartsKeeps

\* The invariant survives a claim's look at its deck, if it wants every row it will
\* decide on.
LEMMA CheckDeckKeeps ==
  ASSUME ClaimsInv, NEW s \in Slots, NEW kind \in ClaimKinds, NEW want \in SUBSET Ids,
         kind = "confirm" => want = {request[s].proxy, request[s].row},
         CheckDeck(s, kind, want)
  PROVE  ClaimsInv'
<1> DEFINE p == request[s]
           q == [p EXCEPT !.stage = "rows", !.want = want]
<1>1. /\ p.kind = kind /\ p.stage = "deck" /\ p.want = {} /\ Open(s)
      /\ Continues(s, q) \/ Refuse(s)
  BY DEF CheckDeck, At, Open
<1>2. CASE Continues(s, q)
  <2>1. /\ p \in Request /\ Filled(p) /\ Staged(p) /\ Locked(s, p, lock)
    BY OneRequest
  <2>2. /\ q \in Request /\ Further(p, q) /\ q.stage = "rows" /\ q.want = want
        /\ q.plan = p.plan /\ q.add = p.add /\ q.done = p.done
    BY <2>1 DEF Request, Further
  <2>3. Named(q) \subseteq q.want
    BY <1>1, <2>2 DEF Named, Further, ClaimKinds
  <2>4. q.kind \in ClaimKinds /\ lock[q.deck] = s
    BY <1>1, <2>1, <2>2 DEF Locked, Further
  <2>5. Going(q) /\ ~q.done /\ Staged(q)
    BY <1>1, <2>1, <2>2, <2>4 DEF Going, Staged
  <2>6. Locked(s, q, lock) /\ Fresh(s, q, lock) /\ Secure(s, q, lock) /\ Balanced(q)
    BY <2>2, <2>3, <2>4 DEF Locked, Fresh, Secure, Balanced
  <2> HIDE DEF q
  <2> QED
    BY <1>1, <1>2, <2>2, <2>5, <2>6, ContinuesKeeps
<1>3. CASE Refuse(s)
  BY <1>1, <1>3, RefuseKeeps
<1> QED
  BY <1>1, <1>2, <1>3

\* The invariant survives a materialize's look at its deck.
LEMMA MaterializeLooksKeeps ==
  ASSUME ClaimsInv, NEW s \in Slots, MaterializeLooks(s)
  PROVE  ClaimsInv'
<1> DEFINE list == Standing({request[s].deck}, TRUE)
           want == IF list = {} THEN {} ELSE list \cup Standing(LoosePlaces \cup Decks, FALSE)
<1>1. CheckDeck(s, "materialize", want)
  BY DEF MaterializeLooks
<1>2. want \in SUBSET Ids
  BY DEF Standing, Rows
<1> HIDE DEF want
<1> QED
  BY <1>1, <1>2, CheckDeckKeeps DEF ClaimKinds

\* The invariant survives a confirm's look at its deck.
LEMMA ConfirmLooksKeeps ==
  ASSUME ClaimsInv, NEW s \in Slots, ConfirmLooks(s)
  PROVE  ClaimsInv'
<1>1. CheckDeck(s, "confirm", {request[s].proxy, request[s].row})
  BY DEF ConfirmLooks
<1>2. request[s].kind = "confirm" /\ Filled(request[s])
  BY <1>1, OneRequest DEF CheckDeck, At
<1>3. {request[s].proxy, request[s].row} \in SUBSET Ids
  BY <1>2 DEF Filled, There
<1> QED
  BY <1>1, <1>3, CheckDeckKeeps DEF ClaimKinds

----------------------------------------------------------------------------
(* Steps that plan *)

\* What a plan changes is a number.
LEMMA ChangeType ==
  ASSUME ClaimsTypeOK, NEW q \in Request
  PROVE  /\ [i \in Ids |-> Change(q, i)] \in [Ids -> Int]
         /\ \A i \in Ids : i \notin DOMAIN q.plan => Change(q, i) = 0
         /\ \A i \in DOMAIN q.plan : i \in Ids /\ q.plan[i] \in Nat
<1>1. \A i \in DOMAIN q.plan : i \in Ids /\ q.plan[i] \in Nat
  BY DEF Request, Plans
<1>2. \A i \in Rows : rows[i].qty \in Int
  BY RowsAre
<1> QED
  BY <1>1, <1>2 DEF Change

\* A plan for one row changes that row.
LEMMA OneRowChanges ==
  ASSUME ClaimsTypeOK, NEW q \in Request, NEW i \in Rows, DOMAIN q.plan = {i}
  PROVE  Sum([j \in Ids |-> Change(q, j)]) = IF rows[i].proxy THEN 0 ELSE q.plan[i] - rows[i].qty
<1> DEFINE n == IF rows[i].proxy THEN 0 ELSE q.plan[i] - rows[i].qty
<1>1. i \in Ids /\ n \in Int
  BY RowsAre, ChangeType
<1>2. Change(q, i) = n
  BY DEF Change
<1>3. \A j \in Ids : Change(q, j) = IF j = i THEN n ELSE 0
  BY <1>2, ChangeType
<1> HIDE DEF n
<1>4. [j \in Ids |-> Change(q, j)] = [j \in Ids |-> IF j = i THEN n ELSE 0]
  BY <1>3
<1>5. Sum([j \in Ids |-> IF j = i THEN n ELSE 0]) = n
  BY <1>1, IdSums
<1> QED
  BY <1>4, <1>5 DEF n

\* The invariant survives a split that has its row.
LEMMA SplitKeeps ==
  ASSUME ClaimsInv, NEW s \in Slots, Split(s)
  PROVE  ClaimsInv'
<1> DEFINE p == request[s]
           q == SplitOff(p)
<1>1. /\ p.kind = "split" /\ p.stage = "rows" /\ p.want = {} /\ Open(s)
      /\ (p.row \in Rows /\ p.qty < rows[p.row].qty /\ Continues(s, q)) \/ Refuse(s)
  BY DEF Split, At, Open
<1>2. CASE p.row \in Rows /\ p.qty < rows[p.row].qty /\ Continues(s, q)
  <2>1. /\ p \in Request /\ Filled(p) /\ Staged(p) /\ Locked(s, p, lock) /\ ClaimsTypeOK
    BY OneRequest
  <2> DEFINE i == p.row
             f == Drain({i}, p.qty)
             a == [rows[i] EXCEPT !.qty = p.qty, !.version = 0]
  <2>2. p.qty \in Nat /\ p.qty > 0
    BY <1>1, <2>1 DEF Filled, Request
  <2>3. i \in Rows /\ i \in Ids /\ rows[i] \in Row /\ p.qty < rows[i].qty /\ rows[i].qty \in Nat
    BY <1>2, <2>1, RowsAre
  <2>4. Share({i}, p.qty, i) = p.qty
    <3>1. Share({i}, p.qty, i) = Lower(rows[i].qty, p.qty)
      BY <2>1, <2>2, <2>3, ShareAlone
    <3> QED
      BY <2>2, <2>3, <3>1 DEF Lower
  <2>5. f \in Plans /\ DOMAIN f = {i} /\ f[i] = rows[i].qty - p.qty
    <3>1. {i} \in SUBSET Rows
      BY <2>3
    <3>2. /\ Drain({i}, p.qty) \in Plans /\ DOMAIN Drain({i}, p.qty) \subseteq {i}
          /\ \A j \in {i} : j \in DOMAIN Drain({i}, p.qty) <=> Share({i}, p.qty, j) > 0
          /\ \A j \in DOMAIN Drain({i}, p.qty) : Drain({i}, p.qty)[j] = rows[j].qty - Share({i}, p.qty, j)
      BY <2>1, <2>2, <3>1, DrainIs
    <3> HIDE DEF i
    <3> QED
      BY <2>2, <2>4, <3>2
  <2>6. /\ a \in Row /\ a # NoRow /\ a.proxy = rows[i].proxy /\ a.qty = p.qty
    <3>1. NoRow \notin Row
      BY ClaimsAssumption
    <3>2. a \in Row /\ a.proxy = rows[i].proxy /\ a.qty = p.qty
      BY <2>2, <2>3 DEF Row
    <3> QED
      BY <3>1, <3>2
  <2>7. q = [p EXCEPT !.stage = "write", !.plan = f, !.add = a]
    BY DEF SplitOff
  <2> HIDE DEF f, a, q
  <2>8. /\ q \in Request /\ Further(p, q) /\ q.stage = "write" /\ q.want = {} /\ q.plan = f
        /\ q.add = a /\ q.done = p.done
    BY <1>1, <2>1, <2>5, <2>6, <2>7 DEF Request, Further
  <2>9. Going(q) /\ ~q.done
    BY <1>1, <2>1, <2>8 DEF Going, Staged
  <2>10. Staged(q)
    BY <2>1, <2>3, <2>5, <2>8, <2>9, RowsAre DEF Staged
  <2>11. lock[i] = s
    BY <1>1, <2>1, <2>3 DEF Locked, Named
  <2>12. Locked(s, q, lock) /\ Fresh(s, q, lock)
    BY <1>1, <2>5, <2>8, <2>11 DEF Locked, Fresh, Further, ClaimKinds
  <2>13. Secure(s, q, lock)
    BY <1>1, <2>3, <2>5, <2>8, <2>11 DEF Secure, Guarded, Further
  <2>14. Balanced(q)
    <3>1. Sum([j \in Ids |-> Change(q, j)]) = IF rows[i].proxy THEN 0 ELSE q.plan[i] - rows[i].qty
      BY <2>1, <2>3, <2>5, <2>8, OneRowChanges
    <3>2. Real(q.add) = IF rows[i].proxy THEN 0 ELSE p.qty
      BY <2>6, <2>8 DEF Real
    <3>3. Disposed(q) = 0
      BY <1>1, <2>8 DEF Disposed, Further
    <3> QED
      BY <2>2, <2>3, <2>5, <2>8, <3>1, <3>2, <3>3 DEF Balanced
  <2> QED
    BY <1>1, <1>2, <2>8, <2>9, <2>10, <2>12, <2>13, <2>14, ContinuesKeeps DEF q
<1>3. CASE Refuse(s)
  BY <1>1, <1>3, RefuseKeeps
<1> QED
  BY <1>1, <1>2, <1>3

\* A handler that starts and answers at once keeps the invariant.
LEMMA AnsweredKeeps ==
  ASSUME ClaimsInv, NEW s \in Slots, Starts(s, [request[s] EXCEPT !.stage = "answered"])
  PROVE  ClaimsInv'
<1> DEFINE p == request[s]
           q == [p EXCEPT !.stage = "answered"]
<1>1. p.stage = "posted"
  BY DEF Starts
<1>2. p \in Request /\ Filled(p) /\ p.plan = <<>> /\ p.add = NoRow /\ ~p.done
  BY <1>1, PostedIs
<1>3. /\ q \in Request /\ Further(p, q) /\ q.stage = "answered"
      /\ q.plan = <<>> /\ q.add = NoRow /\ ~q.done
  BY <1>2 DEF Request, Further
<1>4. Starts(s, q)
  OBVIOUS
<1> HIDE DEF q
<1>5. /\ Staged(q) /\ Locked(s, q, lock) /\ Fresh(s, q, lock)
      /\ Secure(s, q, lock) /\ Balanced(q)
  BY <1>3 DEF Staged, Locked, Fresh, Secure, Balanced
<1> QED
  BY <1>3, <1>4, <1>5, StartsKeeps

\* The invariant survives an adjustment that has read its row.
LEMMA StartAdjustKeeps ==
  ASSUME ClaimsInv, NEW s \in Slots, StartAdjust(s)
  PROVE  ClaimsInv'
<1> DEFINE p == request[s]
           i == p.row
           f == [j \in {i} |-> rows[j].qty - p.qty]
           q == [p EXCEPT !.stage = "write", !.want = {i}, !.plan = f]
<1>1. /\ p.kind = "adjust" /\ p.stage = "posted"
      /\ \/ i \in Rows /\ p.qty <= rows[i].qty /\ Starts(s, q)
         \/ Starts(s, [p EXCEPT !.stage = "answered"])
  BY DEF StartAdjust, Starts
<1>2. CASE i \in Rows /\ p.qty <= rows[i].qty /\ Starts(s, q)
  <2>1. /\ p \in Request /\ Filled(p) /\ p.plan = <<>> /\ p.add = NoRow /\ ~p.done /\ ClaimsTypeOK
    BY <1>1, PostedIs
  <2>2. i \in Ids /\ There(i) /\ rows[i].qty \in Nat /\ p.qty \in Nat /\ rows[i].qty - p.qty \in Nat
    BY <1>2, <2>1, RowsAre DEF Request
  <2>3. f \in Plans /\ DOMAIN f = {i} /\ f[i] = rows[i].qty - p.qty
    <3>1. f = [j \in {i} |-> rows[i].qty - p.qty]
      OBVIOUS
    <3> QED
      BY <2>2, <3>1, SmallPlans
  <2> HIDE DEF f
  <2>4. /\ q \in Request /\ Further(p, q) /\ q.stage = "write" /\ q.want = {i} /\ q.plan = f
        /\ q.add = NoRow /\ ~q.done /\ q.kind = "adjust" /\ q.row = i /\ q.qty = p.qty
    BY <1>1, <2>1, <2>2, <2>3 DEF Request, Further
  <2> HIDE DEF q, i
  <2>5. Staged(q) /\ Locked(s, q, lock) /\ Fresh(s, q, lock)
    BY <2>2, <2>3, <2>4 DEF Staged, Locked, Fresh, ClaimKinds
  <2>6. Secure(s, q, lock)
    BY <1>2, <2>3, <2>4 DEF Secure, Guarded
  <2>7. Balanced(q)
    <3>1. Sum([j \in Ids |-> Change(q, j)]) = IF rows[i].proxy THEN 0 ELSE q.plan[i] - rows[i].qty
      BY <1>2, <2>1, <2>3, <2>4, OneRowChanges
    <3>2. Real(q.add) = 0 /\ Disposed(q) = IF rows[i].proxy THEN 0 ELSE p.qty
      BY <2>4 DEF Real, Disposed
    <3> QED
      BY <2>2, <2>3, <2>4, <3>1, <3>2 DEF Balanced
  <2> QED
    BY <1>2, <2>4, <2>5, <2>6, <2>7, StartsKeeps
<1>3. CASE Starts(s, [p EXCEPT !.stage = "answered"])
  BY <1>3, AnsweredKeeps
<1> QED
  BY <1>1, <1>2, <1>3

\* r is request q with a plan that moves copies of the rows S to deck d, and takes l
\* of the placeholders P away.
Evened(q, S, P, l, d, r) ==
  /\ r \in Request /\ r = [q EXCEPT !.plan = r.plan, !.add = r.add]
  /\ DOMAIN r.plan \subseteq Rows
  /\ \A i \in DOMAIN r.plan : i \in S \cup P \/ rows[i].at = d
  /\ \A i \in P : Share(P, l, i) > 0 => i \in DOMAIN r.plan
  /\ Sum([i \in Ids |-> Change(r, i)]) + Real(r.add) = 0

\* Copies taken from loose rows and put into a deck, for placeholders or not, are as
\* many there as were taken.
LEMMA LandingBalances ==
  ASSUME ClaimsTypeOK, NEW q \in Request, q.add = NoRow, NEW S \in SUBSET Rows, NEW P \in SUBSET Rows,
         \A i \in S : rows[i].at \in LoosePlaces /\ ~rows[i].proxy,
         \A i \in P : rows[i].proxy,
         NEW k \in Nat, k <= Copies(S), NEW l \in Nat, NEW d \in Decks,
         NEW r \in Landing(q, And(Drain(S, k), Drain(P, l)), d, FALSE, k)
  PROVE  Evened(q, S, P, l, d, r)
<1> DEFINE f == And(Drain(S, k), Drain(P, l))
           n == [i \in Ids |-> Change(r, i)]
           g == [i \in Ids |-> IF i \in S THEN Share(S, k, i) ELSE 0]
           no == FALSE
<1>1. /\ Drain(S, k) \in Plans /\ DOMAIN Drain(S, k) \subseteq S
      /\ \A i \in S : i \in DOMAIN Drain(S, k) <=> Share(S, k, i) > 0
      /\ \A i \in DOMAIN Drain(S, k) : Drain(S, k)[i] = rows[i].qty - Share(S, k, i)
  BY DrainIs
<1>2. /\ Drain(P, l) \in Plans /\ DOMAIN Drain(P, l) \subseteq P
      /\ \A i \in P : i \in DOMAIN Drain(P, l) <=> Share(P, l, i) > 0
  BY DrainIs
<1>3. /\ f \in Plans /\ DOMAIN f = DOMAIN Drain(S, k) \cup DOMAIN Drain(P, l)
      /\ \A i \in DOMAIN Drain(S, k) : f[i] = Drain(S, k)[i]
  BY <1>1, <1>2, AndIs
<1> HIDE DEF f
<1>4. DOMAIN f \subseteq S \cup P /\ DOMAIN f \subseteq Rows
  BY <1>1, <1>2, <1>3
<1>5. r \in Landing(q, f, d, no, k) /\ d \in LoosePlaces \cup Decks /\ no \in BOOLEAN /\ ~no
  BY DEF f
<1> HIDE DEF no
<1>6. /\ r \in Request /\ r = [q EXCEPT !.plan = r.plan, !.add = r.add]
      /\ DOMAIN f \subseteq DOMAIN r.plan /\ DOMAIN r.plan \subseteq Rows
      /\ \A i \in DOMAIN f : r.plan[i] = f[i]
      /\ \/ DOMAIN r.plan = DOMAIN f /\ Real(r.add) = k
         \/ /\ r.add = NoRow
            /\ \E h \in Standing({d}, no) :
                 /\ DOMAIN r.plan = DOMAIN f \cup {h}
                 /\ h \notin DOMAIN f => r.plan[h] = rows[h].qty + k
  <2>1. Landed(q, f, d, no, k, r)
    BY <1>3, <1>4, <1>5, LandingIs
  <2> QED
    BY <1>5, <2>1 DEF Landed
<1>7. \A i \in S : Share(S, k, i) \in Nat /\ rows[i].qty \in Nat /\ i \in Ids
  BY ShareType, RowsAre
<1>8. n \in [Ids -> Int] /\ g \in [Ids -> Int]
  BY <1>6, <1>7, ChangeType
<1>9. Sum(g) = k
  <2>1. Sum(g) = Lower(k, Copies(S))
    BY SharesAddUp
  <2>2. Copies(S) \in Nat
    BY CopiesType
  <2> QED
    BY <2>1, <2>2 DEF Lower
<1>10. \A i \in Ids : i \in DOMAIN f \/ i \notin DOMAIN r.plan => n[i] + g[i] = 0
  <2> SUFFICES ASSUME NEW i \in Ids, i \in DOMAIN f \/ i \notin DOMAIN r.plan PROVE n[i] + g[i] = 0
    OBVIOUS
  <2>1. CASE i \in S /\ i \in DOMAIN f
    <3>1. i \in DOMAIN Drain(S, k)
      BY <1>2, <1>3, <2>1
    <3>2. r.plan[i] = rows[i].qty - Share(S, k, i)
      BY <1>1, <1>3, <1>6, <2>1, <3>1
    <3>3. Change(r, i) = r.plan[i] - rows[i].qty
      BY <1>6, <2>1 DEF Change
    <3> QED
      BY <1>7, <2>1, <3>2, <3>3
  <2>2. CASE i \in S /\ i \notin DOMAIN f
    <3>1. Share(S, k, i) = 0
      BY <1>1, <1>3, <1>7, <2>2
    <3>2. Change(r, i) = 0
      BY <2>2 DEF Change
    <3> QED
      BY <2>2, <3>1, <3>2
  <2>3. CASE i \notin S
    <3>1. Change(r, i) = 0
      BY <1>4, <2>3 DEF Change
    <3> QED
      BY <2>3, <3>1
  <2> QED
    BY <2>1, <2>2, <2>3
<1>11. CASE DOMAIN r.plan = DOMAIN f /\ Real(r.add) = k
  <2> DEFINE z == [i \in Ids |-> 0]
  <2>1. z \in [Ids -> Int] /\ \A i \in Ids : z[i] = 0
    OBVIOUS
  <2>2. z \in [Ids -> Int] /\ \A i \in Ids : z[i] = n[i] + g[i]
    BY <1>10, <1>11
  <2>3. Sum(z) = 0
    <3> HIDE DEF z
    <3> QED
      BY <2>1, IdSums
  <2> HIDE DEF z, n, g
  <2>4. Sum(z) = Sum(n) + Sum(g) /\ Sum(n) \in Int
    BY <1>8, <2>2, IdSums
  <2>5. Sum(n) + k = 0
    BY <1>9, <2>3, <2>4
  <2> QED
    BY <1>1, <1>2, <1>3, <1>4, <1>6, <1>11, <2>5 DEF n, Evened
<1>12. CASE r.add = NoRow /\ \E h \in Standing({d}, no) :
                                /\ DOMAIN r.plan = DOMAIN f \cup {h}
                                /\ h \notin DOMAIN f => r.plan[h] = rows[h].qty + k
  <2>1. PICK h \in Standing({d}, no) :
          /\ DOMAIN r.plan = DOMAIN f \cup {h}
          /\ h \notin DOMAIN f => r.plan[h] = rows[h].qty + k
    BY <1>12
  <2>2. h \in Rows /\ h \in Ids /\ rows[h].at = d /\ ~rows[h].proxy /\ rows[h].qty \in Nat
    BY <1>5, RowsAre DEF Standing
  <2>3. h \notin S /\ h \notin P /\ h \notin DOMAIN f
    BY <1>4, <2>2, ClaimsAssumption
  <2> DEFINE z == [i \in Ids |-> IF i = h THEN k ELSE 0]
  <2>4. n[h] + g[h] = k
    <3>1. Change(r, h) = k
      BY <2>1, <2>2, <2>3 DEF Change
    <3> QED
      BY <2>2, <2>3, <3>1
  <2>5. z \in [Ids -> Int] /\ \A i \in Ids : z[i] = n[i] + g[i]
    BY <1>10, <2>1, <2>4
  <2>6. Sum(z) = k
    BY <2>2, IdSums
  <2> HIDE DEF z, n, g
  <2>7. Sum(z) = Sum(n) + Sum(g) /\ Sum(n) \in Int
    BY <1>8, <2>5, IdSums
  <2>8. Sum(n) + Real(r.add) = 0
    BY <1>9, <1>12, <2>6, <2>7 DEF Real
  <2> QED
    BY <1>1, <1>2, <1>3, <1>4, <1>6, <2>1, <2>2, <2>8 DEF n, Evened
<1> QED
  BY <1>6, <1>11, <1>12

\* One row holds its copies.
LEMMA CopiesOfOne ==
  ASSUME ClaimsTypeOK, NEW i \in Rows
  PROVE  Copies({i}) = rows[i].qty
<1>1. Copies({i}) = rows[i].qty + Copies({i} \ {i})
  BY CopiesStep
<1>2. {i} \ {i} = {} /\ rows[i].qty \in Nat
  BY RowsAre
<1> QED
  BY <1>1, <1>2, CopiesType

\* A pull or a return that has planned.
LEMMA UnguardedKeeps ==
  ASSUME ClaimsInv, NEW s \in Slots, request[s].kind \in {"pull", "return"},
         NEW r \in Request, r = [request[s] EXCEPT !.plan = r.plan, !.add = r.add],
         DOMAIN r.plan \subseteq Rows,
         Sum([i \in Ids |-> Change(r, i)]) + Real(r.add) = 0,
         Starts(s, Writing(r))
  PROVE  ClaimsInv'
<1> DEFINE p == request[s]
           q == Writing(r)
<1>1. p \in Request /\ ~p.done /\ ClaimsTypeOK
  <2>1. p.stage = "posted"
    BY DEF Starts
  <2> QED
    BY <2>1, PostedIs
<1>2. r.kind = p.kind /\ r.deck = p.deck /\ r.row = p.row /\ r.proxy = p.proxy
      /\ r.qty = p.qty /\ r.shown = p.shown /\ r.done = p.done
  BY <1>1 DEF Request
<1>3. DOMAIN r.plan \subseteq Ids
  BY <1>1, RowsAre
<1>4. /\ q \in Request /\ q.stage = "write" /\ q.want = DOMAIN r.plan /\ q.plan = r.plan
      /\ q.add = r.add /\ q.done = r.done
      /\ q.kind = r.kind /\ q.deck = r.deck /\ q.row = r.row /\ q.proxy = r.proxy
      /\ q.qty = r.qty /\ q.shown = r.shown
  BY <1>3 DEF Request, Writing
<1>5. Starts(s, q)
  OBVIOUS
<1> HIDE DEF q
<1>6. Further(p, q) /\ ~q.done
  BY <1>1, <1>2, <1>4 DEF Further
<1>7. Staged(q)
  BY <1>1, <1>4, <1>6, RowsAre DEF Staged
<1>8. Locked(s, q, lock) /\ Fresh(s, q, lock) /\ Secure(s, q, lock)
  BY <1>2, <1>4 DEF Locked, Fresh, Secure, Guarded, ClaimKinds
<1>9. Balanced(q)
  <2>1. \A i \in Ids : Change(q, i) = Change(r, i)
    BY <1>4 DEF Change
  <2>2. [i \in Ids |-> Change(q, i)] = [i \in Ids |-> Change(r, i)]
    BY <2>1
  <2>3. Disposed(q) = 0
    BY <1>2, <1>4 DEF Disposed
  <2> QED
    BY <1>4, <2>2, <2>3 DEF Balanced
<1> QED
  BY <1>4, <1>5, <1>6, <1>7, <1>8, <1>9, StartsKeeps

\* The invariant survives a pull that has read its rows.
LEMMA StartPullKeeps ==
  ASSUME ClaimsInv, NEW s \in Slots, StartPull(s)
  PROVE  ClaimsInv'
<1> DEFINE p == request[s]
           list == Standing({p.deck}, TRUE)
           l == Lower(p.qty, Copies(list))
<1>1. /\ p.kind = "pull" /\ p.stage = "posted"
      /\ \/ /\ p.row \in Standing(LoosePlaces, FALSE) /\ p.qty <= rows[p.row].qty
            /\ \E r \in Landing(p, And(Drain({p.row}, p.qty), Drain(list, l)), p.deck, FALSE, p.qty) :
                 Starts(s, Writing(r))
         \/ Starts(s, [p EXCEPT !.stage = "answered"])
  BY DEF StartPull, Starts
<1>2. /\ p \in Request /\ Filled(p) /\ p.add = NoRow /\ ClaimsTypeOK
  BY <1>1, PostedIs
<1>3. ASSUME p.row \in Standing(LoosePlaces, FALSE), p.qty <= rows[p.row].qty,
             NEW r \in Landing(p, And(Drain({p.row}, p.qty), Drain(list, l)), p.deck, FALSE, p.qty),
             Starts(s, Writing(r))
      PROVE  ClaimsInv'
  <2>1. p.deck \in Decks /\ p.qty \in Nat
    BY <1>1, <1>2 DEF Filled, Request
  <2>2. {p.row} \in SUBSET Rows /\ list \in SUBSET Rows
    BY <1>3 DEF Standing
  <2>3. /\ \A i \in {p.row} : rows[i].at \in LoosePlaces /\ ~rows[i].proxy
        /\ \A i \in list : rows[i].proxy
    BY <1>3 DEF Standing
  <2>4. p.qty <= Copies({p.row})
    BY <1>2, <1>3, <2>2, CopiesOfOne
  <2>5. l \in Nat
    <3>1. Copies(list) \in Nat
      BY <1>2, <2>2, CopiesType
    <3> QED
      BY <2>1, <3>1 DEF Lower
  <2> HIDE DEF list, l, p
  <2>6. /\ r \in Request /\ r = [p EXCEPT !.plan = r.plan, !.add = r.add]
        /\ DOMAIN r.plan \subseteq Rows
        /\ Sum([i \in Ids |-> Change(r, i)]) + Real(r.add) = 0
    <3>1. Evened(p, {p.row}, list, l, p.deck, r)
      BY <1>2, <1>3, <2>1, <2>2, <2>3, <2>4, <2>5, LandingBalances
    <3> QED
      BY <3>1 DEF Evened
  <2> QED
    BY <1>1, <1>3, <2>6, UnguardedKeeps DEF p
<1> QED
  BY <1>1, <1>3, AnsweredKeeps

\* The invariant survives a return that has read its row.
LEMMA StartReturnKeeps ==
  ASSUME ClaimsInv, NEW s \in Slots, StartReturn(s)
  PROVE  ClaimsInv'
<1> DEFINE p == request[s]
           w == p.row
           out == [i \in {w} |-> 0]
<1>1. /\ p.kind = "return" /\ p.stage = "posted"
      /\ \/ w \in Rows /\ rows[w].proxy /\ Starts(s, Writing([p EXCEPT !.plan = out]))
         \/ /\ w \in Rows
            /\ \E r \in Landing(p, out, "pending", rows[w].proxy, rows[w].qty) : Starts(s, Writing(r))
         \/ Starts(s, [p EXCEPT !.stage = "answered"])
  BY DEF StartReturn, Starts
<1>2. /\ p \in Request /\ Filled(p) /\ p.add = NoRow /\ ClaimsTypeOK
  BY <1>1, PostedIs
<1>3. ASSUME w \in Rows
      PROVE  /\ w \in Ids /\ out \in Plans /\ DOMAIN out = {w} /\ out[w] = 0 /\ rows[w].qty \in Nat
             /\ rows[w].at \in Decks /\ rows[w].proxy \in BOOLEAN
  <2>1. rows[w].at = p.deck /\ p.deck \in Decks
    BY <1>1, <1>2 DEF Filled
  <2>2. w \in Ids /\ rows[w].qty \in Nat /\ rows[w].proxy \in BOOLEAN
    BY <1>2, <1>3, RowsAre
  <2> QED
    BY <2>1, <2>2, SmallPlans
<1>4. ASSUME w \in Rows, rows[w].proxy, Starts(s, Writing([p EXCEPT !.plan = out]))
      PROVE  ClaimsInv'
  <2> DEFINE r == [p EXCEPT !.plan = out]
  <2> HIDE DEF w, out
  <2>1. /\ r \in Request /\ r = [p EXCEPT !.plan = r.plan, !.add = r.add]
        /\ r.plan = out /\ r.add = NoRow
    BY <1>2, <1>3, <1>4 DEF Request
  <2>2. Starts(s, Writing(r))
    BY <1>4
  <2> HIDE DEF r
  <2>3. Sum([i \in Ids |-> Change(r, i)]) + Real(r.add) = 0
    <3>1. r \in Request /\ DOMAIN r.plan = {w} /\ Real(r.add) = 0
      BY <1>3, <1>4, <2>1 DEF Real
    <3>2. Sum([i \in Ids |-> Change(r, i)]) = 0
      BY <1>2, <1>4, <3>1, OneRowChanges
    <3> QED
      BY <3>1, <3>2
  <2> QED
    BY <1>1, <1>3, <1>4, <2>1, <2>2, <2>3, UnguardedKeeps
<1>5. ASSUME w \in Rows, NEW r \in Landing(p, out, "pending", rows[w].proxy, rows[w].qty),
             Starts(s, Writing(r))
      PROVE  ClaimsInv'
  <2> DEFINE y == rows[w].proxy
             k == rows[w].qty
  <2>1. "pending" \in LoosePlaces \cup Decks /\ "pending" \notin Decks
    BY ClaimsAssumption DEF LoosePlaces
  <2> HIDE DEF w, out
  <2>2. Landed(p, out, "pending", y, k, r)
    BY <1>2, <1>3, <1>5, <2>1, LandingIs
  <2>3. /\ r \in Request /\ r = [p EXCEPT !.plan = r.plan, !.add = r.add]
        /\ DOMAIN r.plan \subseteq Rows /\ r.plan[w] = 0 /\ w \in DOMAIN r.plan
    BY <1>3, <1>5, <2>2 DEF Landed
  <2>4. Sum([i \in Ids |-> Change(r, i)]) + Real(r.add) = 0
    <3>1. CASE DOMAIN r.plan = {w} /\ Real(r.add) = IF y THEN 0 ELSE k
      BY <1>2, <1>3, <1>5, <2>3, <3>1, OneRowChanges
    <3>2. ASSUME r.add = NoRow, NEW h \in Standing({"pending"}, y),
                 DOMAIN r.plan = {w} \cup {h}, h \notin {w} => r.plan[h] = rows[h].qty + k
          PROVE  Sum([i \in Ids |-> Change(r, i)]) + Real(r.add) = 0
      <4> DEFINE n == [i \in Ids |-> Change(r, i)]
                 m == IF y THEN 0 ELSE k
                 f == [i \in Ids |-> IF i = w THEN -m ELSE 0]
                 g == [i \in Ids |-> IF i = h THEN m ELSE 0]
      <4>1. h \in Rows /\ h \in Ids /\ rows[h].at = "pending" /\ rows[h].proxy = y /\ rows[h].qty \in Nat
        BY <1>2, RowsAre DEF Standing
      <4>2. h # w
        BY <1>3, <1>5, <2>1, <4>1
      <4>3. m \in Int /\ w \in Ids /\ k \in Nat
        BY <1>3, <1>5
      <4>4. Change(r, w) = -m
        BY <1>3, <1>5, <2>3 DEF Change
      <4>5. Change(r, h) = m
        BY <3>2, <4>1, <4>2, <4>3 DEF Change
      <4>6. \A i \in Ids \ {w, h} : Change(r, i) = 0
        BY <3>2 DEF Change
      <4>7. n \in [Ids -> Int] /\ f \in [Ids -> Int] /\ g \in [Ids -> Int]
        BY <1>2, <2>3, <4>3, ChangeType
      <4>8. Sum(f) = -m /\ Sum(g) = m
        BY <4>1, <4>3, IdSums
      <4> HIDE DEF m
      <4>9. \A i \in Ids : n[i] = f[i] + g[i]
        BY <4>1, <4>2, <4>3, <4>4, <4>5, <4>6
      <4> HIDE DEF n, f, g
      <4>10. Sum(n) = Sum(f) + Sum(g)
        BY <4>7, <4>9, IdSums
      <4>11. Sum(n) = 0
        BY <4>3, <4>8, <4>10
      <4> QED
        BY <3>2, <4>11 DEF n, Real
    <3> QED
      BY <1>3, <1>5, <2>2, <3>1, <3>2 DEF Landed
  <2> QED
    BY <1>1, <1>5, <2>3, <2>4, UnguardedKeeps
<1> QED
  BY <1>1, <1>4, <1>5, AnsweredKeeps

\* A request that wants other locks is the same but for that.
LEMMA WantsOnly ==
  ASSUME NEW r \in Request, NEW want \in SUBSET (Ids \cup Decks),
         NEW q, q = [r EXCEPT !.want = want]
  PROVE  /\ q \in Request /\ q.stage = r.stage /\ q.want = want /\ q.plan = r.plan
         /\ q.add = r.add /\ q.done = r.done
         /\ q.kind = r.kind /\ q.deck = r.deck /\ q.row = r.row /\ q.proxy = r.proxy
         /\ q.qty = r.qty /\ q.shown = r.shown
BY DEF Request

\* A claim that has its locks keeps the invariant when it plans.
LEMMA ClaimPlans ==
  ASSUME ClaimsInv, NEW s \in Slots, request[s].kind \in ClaimKinds, request[s].stage = "rows",
         NEW S \in SUBSET Standing(LoosePlaces, FALSE), \A i \in S : lock[i] = s,
         NEW P \in SUBSET Standing({request[s].deck}, TRUE), NEW k \in Nat, k <= Copies(S),
         request[s].kind = "confirm" =>
           /\ request[s].proxy \in P /\ Share(P, k, request[s].proxy) > 0
           /\ lock[request[s].proxy] = s
           /\ request[s].shown[1] = rows[request[s].proxy].version,
         Claim(s, S, P, k)
  PROVE  ClaimsInv'
<1> DEFINE p == request[s]
           w == [p EXCEPT !.stage = "write"]
<1>1. /\ p \in Request /\ Filled(p) /\ Staged(p) /\ Locked(s, p, lock) /\ ClaimsTypeOK
      /\ Open(s)
  BY OneRequest DEF Open
<1>2. p.deck \in Decks /\ p.add = NoRow /\ ~p.done /\ p.plan = <<>>
  BY <1>1 DEF Filled, Staged, ClaimKinds
<1>3. /\ w \in Request /\ w.add = NoRow /\ w.stage = "write" /\ w.done = p.done
      /\ w.kind = p.kind /\ w.deck = p.deck /\ w.row = p.row /\ w.proxy = p.proxy
      /\ w.qty = p.qty /\ w.shown = p.shown
  BY <1>1, <1>2 DEF Request
<1>4. PICK r \in Landing(w, And(Drain(S, k), Drain(P, k)), p.deck, FALSE, k) :
        Continues(s, [r EXCEPT !.want = DOMAIN r.plan \ Held(s)])
  BY Zenon DEF Claim
<1> HIDE DEF w
<1>5. /\ S \in SUBSET Rows /\ \A i \in S : rows[i].at \in LoosePlaces /\ ~rows[i].proxy
      /\ P \in SUBSET Rows /\ \A i \in P : rows[i].at = p.deck /\ rows[i].proxy
  BY DEF Standing
<1>6. Evened(w, S, P, k, p.deck, r)
  BY <1>1, <1>2, <1>3, <1>4, <1>5, LandingBalances
<1>7. /\ r \in Request /\ r = [w EXCEPT !.plan = r.plan, !.add = r.add]
      /\ DOMAIN r.plan \subseteq Rows
      /\ \A i \in DOMAIN r.plan : i \in S \cup P \/ rows[i].at = p.deck
      /\ \A i \in P : Share(P, k, i) > 0 => i \in DOMAIN r.plan
      /\ Sum([i \in Ids |-> Change(r, i)]) + Real(r.add) = 0
  BY <1>6 DEF Evened
<1>8. /\ r.stage = "write" /\ r.done = p.done
      /\ r.kind = p.kind /\ r.deck = p.deck /\ r.row = p.row /\ r.proxy = p.proxy
      /\ r.qty = p.qty /\ r.shown = p.shown
  BY <1>3, <1>7 DEF Request
<1> DEFINE want == DOMAIN r.plan \ Held(s)
           q == [r EXCEPT !.want = want]
<1>9. DOMAIN r.plan \subseteq Ids
  BY <1>1, <1>7, RowsAre
<1>10. /\ q \in Request /\ q.stage = "write" /\ q.want = want /\ q.plan = r.plan
       /\ q.add = r.add /\ q.done = r.done
       /\ q.kind = r.kind /\ q.deck = r.deck /\ q.row = r.row /\ q.proxy = r.proxy
       /\ q.qty = r.qty /\ q.shown = r.shown
  <2>1. r \in Request
    BY <1>7
  <2>2. want \in SUBSET (Ids \cup Decks)
    BY <1>9
  <2> HIDE DEF want
  <2> QED
    BY <1>8, <2>1, <2>2, WantsOnly
<1>11. Continues(s, q)
  BY <1>4
<1> HIDE DEF q
<1>12. Further(p, q) /\ Going(q) /\ ~q.done
  BY <1>2, <1>8, <1>10 DEF Further, Going
<1>13. Staged(q)
  BY <1>1, <1>7, <1>10, <1>12, RowsAre DEF Staged
<1>14. lock[p.deck] = s
  BY <1>1 DEF Locked
<1>15. Locked(s, q, lock)
  <2>1. \A i \in DOMAIN q.plan \ q.want : lock[i] = s
    BY <1>9, <1>10 DEF Held
  <2> QED
    BY <1>8, <1>10, <1>14, <2>1 DEF Locked
<1>16. Fresh(s, q, lock)
  BY <1>5, <1>7, <1>8, <1>10 DEF Fresh
<1>17. Secure(s, q, lock)
  <2>1. ASSUME NEW i \in DOMAIN q.plan
        PROVE  /\ i \in Rows
               /\ rows[i].at \in LoosePlaces \/ InClaimed(q, i)
               /\ lock[i] = s \/ InClaimed(q, i)
    <3>1. i \in Rows /\ (i \in S \cup P \/ rows[i].at = p.deck)
      BY <1>7, <1>10, <2>1
    <3>2. q.kind \in ClaimKinds /\ q.deck = p.deck
      BY <1>8, <1>10
    <3> QED
      BY <1>5, <3>1, <3>2 DEF InClaimed
  <2> QED
    BY <2>1 DEF Secure
<1>18. Balanced(q)
  <2>1. \A i \in Ids : Change(q, i) = Change(r, i)
    BY <1>10 DEF Change
  <2>2. [i \in Ids |-> Change(q, i)] = [i \in Ids |-> Change(r, i)]
    BY <2>1
  <2>3. Disposed(q) = 0
    BY <1>8, <1>10 DEF Disposed, ClaimKinds
  <2> QED
    BY <1>7, <1>10, <2>2, <2>3 DEF Balanced
<1> QED
  BY <1>1, <1>10, <1>11, <1>12, <1>13, <1>15, <1>16, <1>17, <1>18, ContinuesKeeps

\* The invariant survives a materialize that has its rows.
LEMMA MaterializeKeeps ==
  ASSUME ClaimsInv, NEW s \in Slots, Materialize(s)
  PROVE  ClaimsInv'
<1> DEFINE S == Standing(LoosePlaces, FALSE) \cap Held(s)
           P == Standing({request[s].deck}, TRUE) \cap Held(s)
           k == Lower(Copies(S), Copies(P))
<1>1. request[s].kind = "materialize" /\ request[s].stage = "rows" /\ Claim(s, S, P, k)
  BY DEF Materialize, At
<1>2. S \in SUBSET Standing(LoosePlaces, FALSE) /\ P \in SUBSET Standing({request[s].deck}, TRUE)
  OBVIOUS
<1>3. \A i \in S : lock[i] = s
  BY DEF Held
<1>4. k \in Nat /\ k <= Copies(S)
  <2>1. S \in SUBSET Rows /\ P \in SUBSET Rows /\ ClaimsTypeOK
    BY OneRequest DEF Standing
  <2>2. Copies(S) \in Nat /\ Copies(P) \in Nat
    BY <2>1, CopiesType
  <2> QED
    BY <2>2 DEF Lower
<1> HIDE DEF S, P, k
<1> QED
  BY <1>1, <1>2, <1>3, <1>4, ClaimPlans DEF ClaimKinds

\* The invariant survives a confirm that has its rows.
LEMMA ConfirmKeeps ==
  ASSUME ClaimsInv, NEW s \in Slots, Confirm(s)
  PROVE  ClaimsInv'
<1> DEFINE p == request[s]
<1>1. /\ p.kind = "confirm" /\ p.stage = "rows" /\ p.want = {} /\ Open(s)
      /\ (AsDisplayed(p) /\ Claim(s, {p.row}, {p.proxy}, p.qty)) \/ Refuse(s)
  BY DEF Confirm, At, Open
<1>2. CASE AsDisplayed(p) /\ Claim(s, {p.row}, {p.proxy}, p.qty)
  <2>1. /\ p \in Request /\ Filled(p) /\ Locked(s, p, lock) /\ ClaimsTypeOK
    BY OneRequest
  <2>2. p.qty \in Nat /\ p.qty > 0
    BY <1>1, <2>1 DEF Filled, Request
  <2>3. /\ p.row \in Standing(LoosePlaces, FALSE) /\ p.proxy \in Standing({p.deck}, TRUE)
        /\ p.qty <= Lower(rows[p.proxy].qty, rows[p.row].qty)
        /\ p.shown = <<rows[p.proxy].version, rows[p.row].version>>
    BY <1>2 DEF AsDisplayed
  <2>11. p.shown[1] = rows[p.proxy].version
    BY <2>3
  <2>4. p.row \in Rows /\ p.proxy \in Rows
    BY <2>3 DEF Standing
  <2>5. rows[p.row].qty \in Nat /\ rows[p.proxy].qty \in Nat
    BY <2>1, <2>4, RowsAre
  <2>6. p.qty <= rows[p.row].qty /\ p.qty <= rows[p.proxy].qty
    BY <2>2, <2>3, <2>5 DEF Lower
  <2>7. lock[p.row] = s /\ lock[p.proxy] = s
    BY <1>1, <2>1, <2>4 DEF Locked, Named
  <2>8. p.qty <= Copies({p.row})
    BY <2>1, <2>4, <2>6, CopiesOfOne
  <2>9. Share({p.proxy}, p.qty, p.proxy) > 0
    <3>1. Share({p.proxy}, p.qty, p.proxy) = Lower(rows[p.proxy].qty, p.qty)
      BY <2>1, <2>2, <2>4, ShareAlone
    <3> QED
      BY <2>2, <2>5, <2>6, <3>1 DEF Lower
  <2> DEFINE S == {p.row}  P == {p.proxy}
  <2>10. /\ S \in SUBSET Standing(LoosePlaces, FALSE) /\ P \in SUBSET Standing({p.deck}, TRUE)
         /\ (\A i \in S : lock[i] = s) /\ p.proxy \in P /\ Share(P, p.qty, p.proxy) > 0
         /\ p.qty <= Copies(S) /\ Claim(s, S, P, p.qty)
    BY <1>2, <2>3, <2>7, <2>8, <2>9
  <2> HIDE DEF S, P
  <2> QED
    BY <1>1, <2>2, <2>7, <2>10, <2>11, ClaimPlans DEF ClaimKinds
<1>3. CASE Refuse(s)
  BY <1>1, <1>3, RefuseKeeps
<1> QED
  BY <1>1, <1>2, <1>3

----------------------------------------------------------------------------
(* The step that writes *)

\* T is the table when q has written what it planned.
Wrote(q, T) ==
  /\ T \in [Ids -> Row \cup {NoRow}]
  /\ \A i : There(i) => /\ T[i] # NoRow /\ T[i].at = rows[i].at /\ T[i].proxy = rows[i].proxy
                        /\ rows[i].version <= T[i].version
  /\ \A i : There(i) /\ ~(i \in DOMAIN q.plan /\ i \in Rows) => T[i] = rows[i]
  /\ \A i \in DOMAIN q.plan : i \in Rows => T[i].qty = q.plan[i] /\ T[i].version = rows[i].version + 1
  /\ \E new :
       /\ \A i \in Ids \ {new} : ~There(i) => T[i] = NoRow
       /\ IF q.add = NoRow THEN new \notin Ids
          ELSE new \in Ids /\ ~There(new) /\ T[new] = q.add

\* So a commit writes it, into a table that has room.
LEMMA WrittenIs ==
  ASSUME ClaimsTypeOK, NEW s \in Slots,
         request[s].add # NoRow => \E i \in Ids : rows[i] = NoRow
  PROVE  Wrote(request[s], Written(s))
<1> DEFINE q == request[s]
           new == Min({i \in Ids : rows[i] = NoRow})
           row(i) == IF i \in DOMAIN q.plan /\ i \in Rows
                     THEN [rows[i] EXCEPT !.qty = q.plan[i], !.version = @ + 1]
                     ELSE IF q.add # NoRow /\ i = new THEN q.add ELSE rows[i]
           T == [i \in Ids |-> row(i)]
<1>1. Written(s) = T
  BY DEF Written
<1>2. q \in Request /\ rows \in [Ids -> Row \cup {NoRow}]
  BY DEF ClaimsTypeOK
<1>3. q.add \in Row \cup {NoRow} /\ \A i \in DOMAIN q.plan : q.plan[i] \in Nat
  BY <1>2 DEF Request, Plans
<1>4. ASSUME q.add # NoRow PROVE new \in Ids /\ rows[new] = NoRow
  <2> DEFINE S == {i \in Ids : rows[i] = NoRow}
  <2>1. S \in SUBSET Nat /\ S # {}
    BY <1>4, IdsAre
  <2> HIDE DEF S
  <2>2. \E m \in S : \A k \in S : m <= k
    BY <2>1, LeastNumber
  <2>3. Min(S) \in S
    BY <2>2, Zenon DEF Min
  <2> QED
    BY <2>3 DEF S
<1> HIDE DEF q, new
<1>5. ASSUME NEW i \in DOMAIN q.plan, i \in Rows
      PROVE  /\ i \in Ids /\ row(i) \in Row /\ row(i) # NoRow
             /\ row(i).at = rows[i].at /\ row(i).proxy = rows[i].proxy /\ row(i).qty = q.plan[i]
             /\ row(i).version = rows[i].version + 1 /\ rows[i].version <= row(i).version
  <2> DEFINE w == [rows[i] EXCEPT !.qty = q.plan[i], !.version = @ + 1]
  <2>1. rows[i] \in Row /\ rows[i].version \in Nat /\ i \in Ids /\ q.plan[i] \in Nat
    BY <1>3, <1>5, RowsAre
  <2>2. /\ w \in Row /\ w.at = rows[i].at /\ w.proxy = rows[i].proxy /\ w.qty = q.plan[i]
        /\ w.version = rows[i].version + 1
    <3> DEFINE r == rows[i]
    <3>1. w = [at |-> r.at, proxy |-> r.proxy, qty |-> q.plan[i], version |-> r.version + 1]
      <4>1. r = [at |-> r.at, proxy |-> r.proxy, qty |-> r.qty, version |-> r.version]
        BY <2>1, Zenon DEF Row
      <4>2. w = [r EXCEPT !.qty = q.plan[i], !.version = @ + 1]
        OBVIOUS
      <4> HIDE DEF w, r
      <4> QED
        BY <4>1, <4>2
    <3>2. r.at \in LoosePlaces \cup Decks /\ r.proxy \in BOOLEAN /\ r.version + 1 \in Nat
      BY <1>5, <2>1, RowsAre
    <3> HIDE DEF w, r
    <3>3. /\ w \in Row /\ w.at = r.at /\ w.proxy = r.proxy /\ w.qty = q.plan[i]
          /\ w.version = r.version + 1
      BY <2>1, <3>1, <3>2 DEF Row
    <3> QED
      BY <3>3 DEF r
  <2>3. row(i) = w
    BY <1>5
  <2>4. NoRow \notin Row
    BY ClaimsAssumption
  <2> HIDE DEF w, row
  <2> QED
    BY <2>1, <2>2, <2>3, <2>4
<1>6. ASSUME NEW i, There(i), ~(i \in DOMAIN q.plan /\ i \in Rows)
      PROVE  i \in Ids /\ row(i) = rows[i] /\ rows[i] # NoRow /\ rows[i] \in Row
  BY <1>2, <1>4, <1>6 DEF There
<1>7. ASSUME NEW i \in Ids, ~There(i)
      PROVE  row(i) = IF q.add # NoRow /\ i = new THEN q.add ELSE NoRow
  BY <1>7 DEF There, Rows
<1> HIDE DEF row
<1>8. T \in [Ids -> Row \cup {NoRow}]
  <2>1. ASSUME NEW i \in Ids PROVE row(i) \in Row \cup {NoRow}
    BY <1>3, <1>5, <1>6, <1>7
  <2> QED
    BY <2>1
<1>9. ASSUME NEW i, There(i)
      PROVE  /\ T[i] # NoRow /\ T[i].at = rows[i].at /\ T[i].proxy = rows[i].proxy
             /\ rows[i].version <= T[i].version
  <2>1. i \in Ids /\ T[i] = row(i)
    BY <1>9 DEF There
  <2>2. CASE i \in DOMAIN q.plan /\ i \in Rows
    BY <1>5, <2>1, <2>2
  <2>3. CASE ~(i \in DOMAIN q.plan /\ i \in Rows)
    <3>1. rows[i].version \in Nat
      BY <1>6, <1>9, <2>3 DEF Row
    <3> QED
      BY <1>6, <1>9, <2>1, <2>3, <3>1
  <2> QED
    BY <2>2, <2>3
<1>10. \A i : There(i) /\ ~(i \in DOMAIN q.plan /\ i \in Rows) => T[i] = rows[i]
  BY <1>6
<1>11. \A i \in DOMAIN q.plan : i \in Rows => T[i].qty = q.plan[i] /\ T[i].version = rows[i].version + 1
  BY <1>5
<1>12. \E n : /\ \A i \in Ids \ {n} : ~There(i) => T[i] = NoRow
              /\ IF q.add = NoRow THEN n \notin Ids ELSE n \in Ids /\ ~There(n) /\ T[n] = q.add
  <2>1. CASE q.add = NoRow
    <3>1. 0 \notin Ids
      BY IdsAre
    <3>2. \A i \in Ids : ~There(i) => T[i] = NoRow
      BY <1>7, <2>1
    <3> QED
      BY <2>1, <3>1, <3>2
  <2>2. CASE q.add # NoRow
    <3>1. new \in Ids /\ ~There(new)
      BY <1>4, <2>2 DEF There
    <3>2. T[new] = q.add /\ \A i \in Ids \ {new} : ~There(i) => T[i] = NoRow
      BY <1>7, <2>2, <3>1
    <3> QED
      BY <2>2, <3>1, <3>2
  <2> QED
    BY <2>1, <2>2
<1> HIDE DEF T
<1> QED
  BY <1>1, <1>8, <1>9, <1>10, <1>11, <1>12 DEF Wrote, q

\* What is there stays there, where it is and what it is; what is not planned for
\* stays as it is.
LEMMA AfterWriting ==
  ASSUME NEW q, Wrote(q, rows')
  PROVE  /\ \A i : There(i) => /\ There(i)' /\ rows'[i].at = rows[i].at
                               /\ rows'[i].proxy = rows[i].proxy
                               /\ rows[i].version <= rows'[i].version
         /\ \A i : There(i) /\ i \in Rows' => i \in Rows
         /\ \A i \in Rows : i \notin DOMAIN q.plan => i \in Rows' /\ rows'[i] = rows[i]
<1>1. ASSUME NEW i, There(i)
      PROVE  /\ There(i)' /\ rows'[i].at = rows[i].at /\ rows'[i].proxy = rows[i].proxy
             /\ rows[i].version <= rows'[i].version
  BY <1>1 DEF There, Wrote
<1>2. ASSUME NEW i, There(i), i \in Rows' PROVE i \in Rows
  <2>1. SUFFICES ASSUME i \notin Rows PROVE FALSE
    OBVIOUS
  <2>2. rows'[i] = rows[i]
    BY <1>2, <2>1 DEF Wrote
  <2> QED
    BY <1>2, <2>1, <2>2 DEF Rows
<1>3. ASSUME NEW i \in Rows, i \notin DOMAIN q.plan PROVE i \in Rows' /\ rows'[i] = rows[i]
  <2>1. There(i)
    BY DEF There, Rows
  <2>2. rows'[i] = rows[i]
    BY <1>3, <2>1 DEF Wrote
  <2> QED
    BY <2>2 DEF Rows
<1> QED
  BY <1>1, <1>2, <1>3

\* No two requests that lock what they write have planned for the same row, once one
\* of them has all it wants.
LEMMA PlansApart ==
  ASSUME ClaimsInv, ~overlapped, NEW s \in Slots, NEW t \in Slots, s # t,
         request[s].stage = "write", request[s].want = {}, request[t].stage = "write"
  PROVE  DOMAIN request[s].plan \cap DOMAIN request[t].plan = {}
<1> SUFFICES ASSUME NEW i \in DOMAIN request[s].plan, i \in DOMAIN request[t].plan PROVE FALSE
  OBVIOUS
<1> DEFINE p == request[s]
           q == request[t]
<1>1. /\ Locked(s, p, lock) /\ Secure(s, p, lock) /\ Locked(t, q, lock) /\ Secure(t, q, lock)
      /\ Filled(q)
  BY OneRequest
<1>2. Guarded(p) /\ Guarded(q)
  BY DEF ClaimsInv, Exclusive, Open
<1>3. i \in Rows /\ lock[i] = s
  BY <1>1 DEF Locked, Secure
<1>4. InClaimed(q, i)
  BY <1>1, <1>2, <1>3 DEF Secure
<1>5. q.kind \in ClaimKinds /\ rows[i].at = q.deck /\ q.deck \in Decks /\ lock[q.deck] = t
  BY <1>1, <1>4 DEF InClaimed, Locked, Filled, ClaimKinds
<1>6. InClaimed(p, i)
  BY <1>1, <1>2, <1>5, ClaimsAssumption DEF Secure
<1>7. p.deck = q.deck /\ lock[p.deck] = s
  BY <1>1, <1>5, <1>6 DEF InClaimed, Locked
<1> QED
  BY <1>5, <1>7

\* What one request has written leaves what the invariant says of another, q, and of
\* its locks.
LEMMA OthersLocked ==
  ASSUME ClaimsInv, NEW s \in Slots, NEW t \in Slots, s # t,
         request[s].stage = "write", request[s].want = {},
         Wrote(request[s], rows'), NEW q, q = request[t], NEW L, L = Released(s)
  PROVE  /\ Filled(q)' /\ Staged(q)' /\ Settled(q)' /\ (Guarded(q)' <=> Guarded(q))
         /\ Locked(t, q, L)' /\ Fresh(t, q, L)'
<1>1. /\ Filled(q) /\ Staged(q) /\ Settled(q) /\ Locked(t, q, lock) /\ Fresh(t, q, lock)
      /\ q \in Request /\ ClaimsTypeOK
  BY OneRequest
<1>2. /\ \A i : There(i) => /\ There(i)' /\ rows'[i].at = rows[i].at
                            /\ rows'[i].proxy = rows[i].proxy
                            /\ rows[i].version <= rows'[i].version
      /\ \A i : There(i) /\ i \in Rows' => i \in Rows
      /\ \A i \in Rows : i \notin DOMAIN request[s].plan => i \in Rows' /\ rows'[i] = rows[i]
  BY AfterWriting
<1>3. \A x \in Ids \cup Decks : lock[x] = t => L[x] = t
  BY DEF Released
<1>4. Filled(q)'
  BY <1>1, <1>2 DEF Filled
<1>5. Staged(q)'
  BY <1>1, <1>2 DEF Staged
<1>6. Settled(q)'
  <2>1. SUFFICES ASSUME q.kind = "confirm", q.done PROVE q.shown[1] < rows'[q.proxy].version
    BY DEF Settled
  <2>2. There(q.proxy) /\ q.shown \in Nat \X Nat
    BY <1>1, <2>1 DEF Filled
  <2>3. q.shown[1] < rows[q.proxy].version
    BY <1>1, <2>1 DEF Settled
  <2>4. rows[q.proxy].version \in Nat /\ rows'[q.proxy].version \in Nat /\ q.shown[1] \in Nat
    <3>1. rows[q.proxy] \in Row /\ rows'[q.proxy] \in Row
      BY <1>1, <1>2, <2>2, RowsAre DEF There, Wrote
    <3> QED
      BY <2>2, <3>1 DEF Row
  <2> QED
    BY <1>2, <2>2, <2>3, <2>4
<1>7. Guarded(q)' <=> Guarded(q)
  <2>1. q.kind = "split" => There(q.row)
    BY <1>1 DEF Filled
  <2> QED
    BY <1>2, <2>1 DEF Guarded
<1>8. Locked(t, q, L)'
  <2>1. q.kind \in ClaimKinds => q.deck \in Decks
    BY <1>1 DEF Filled, ClaimKinds
  <2>2. \A i \in Named(q) : There(i)
    BY <1>1 DEF Named, Filled
  <2>3. \A i \in DOMAIN q.plan : There(i)
    BY <1>1 DEF Staged
  <2>4. ASSUME q.kind \in ClaimKinds,
               q.stage \in {"rows", "write"} \/ (q.stage = "deck" /\ q.want = {})
        PROVE  L[q.deck] = t
    BY <1>1, <1>3, <2>1, <2>4 DEF Locked
  <2>5. ASSUME q.stage = "rows", NEW i \in Named(q) \ q.want, i \in Rows' PROVE L[i] = t
    BY <1>1, <1>2, <1>3, <2>2, <2>5, RowsAre DEF Locked
  <2>6. ASSUME q.stage = "write", NEW i \in DOMAIN q.plan \ q.want, i \in Rows' PROVE L[i] = t
    BY <1>1, <1>2, <1>3, <2>3, <2>6, RowsAre DEF Locked
  <2> QED
    BY <2>4, <2>5, <2>6 DEF Locked, Named
<1>9. Fresh(t, q, L)'
  <2>1. SUFFICES ASSUME q.kind = "confirm", q.stage = "write"
                 PROVE  /\ q.proxy \in DOMAIN q.plan /\ q.proxy \in Rows' /\ L[q.proxy] = t
                        /\ q.shown[1] = rows'[q.proxy].version
    BY DEF Fresh
  <2>2. /\ q.proxy \in DOMAIN q.plan /\ q.proxy \in Rows /\ lock[q.proxy] = t
        /\ q.shown[1] = rows[q.proxy].version
    BY <1>1, <2>1 DEF Fresh
  <2>3. q.proxy \notin DOMAIN request[s].plan
    <3>1. Locked(s, request[s], lock)
      BY OneRequest
    <3> QED
      BY <2>2, <3>1 DEF Locked
  <2> QED
    BY <1>1, <1>2, <1>3, <2>2, <2>3, RowsAre
<1> QED
  BY <1>4, <1>5, <1>6, <1>7, <1>8, <1>9

\* And, as long as nothing overlapped that should not, of what it has planned.
LEMMA OthersSecure ==
  ASSUME ClaimsInv, ~overlapped, NEW s \in Slots, NEW t \in Slots, s # t,
         request[s].stage = "write", request[s].want = {},
         Wrote(request[s], rows'), NEW q, q = request[t], NEW L, L = Released(s)
  PROVE  Secure(t, q, L)' /\ Balanced(q)'
<1>1. /\ Filled(q) /\ Staged(q) /\ Secure(t, q, lock) /\ Balanced(q)
      /\ q \in Request /\ ClaimsTypeOK
  BY OneRequest
<1>2. /\ \A i : There(i) => /\ There(i)' /\ rows'[i].at = rows[i].at
                            /\ rows'[i].proxy = rows[i].proxy
                            /\ rows[i].version <= rows'[i].version
      /\ \A i : There(i) /\ i \in Rows' => i \in Rows
      /\ \A i \in Rows : i \notin DOMAIN request[s].plan => i \in Rows' /\ rows'[i] = rows[i]
  BY AfterWriting
<1>3. \A x \in Ids \cup Decks : lock[x] = t => L[x] = t
  BY DEF Released
<1>4. Guarded(q)' <=> Guarded(q)
  BY OthersLocked
<1>5. CASE q.stage # "write"
  BY <1>5 DEF Secure, Balanced
<1>6. CASE q.stage = "write"
  <2>1. \A i \in DOMAIN q.plan : i \in Rows /\ i \in Ids /\ i \in Rows' /\ rows'[i] = rows[i]
    BY <1>1, <1>2, <1>6, PlansApart, RowsAre DEF Secure
  <2>2. Secure(t, q, L)'
    BY <1>1, <1>3, <1>4, <1>6, <2>1 DEF Secure, InClaimed
  <2>3. Balanced(q)'
    <3>1. \A i \in Ids : Change(q, i)' = Change(q, i)
      BY <2>1 DEF Change
    <3>2. [i \in Ids |-> Change(q, i)'] = [i \in Ids |-> Change(q, i)]
      BY <3>1
    <3>3. Disposed(q)' = Disposed(q)
      <4>1. q.kind = "adjust" => There(q.row)
        BY <1>1 DEF Filled
      <4> QED
        BY <1>2, <4>1 DEF Disposed
    <3>4. Sum([i \in Ids |-> Change(q, i)]) + Real(q.add) = -Disposed(q)
      BY <1>1, <1>6 DEF Balanced
    <3>5. Sum([i \in Ids |-> Change(q, i)'])+ Real(q.add) = -(Disposed(q)')
      BY <3>2, <3>3, <3>4
    <3> QED
      BY <1>6, <3>5 DEF Balanced
  <2> QED
    BY <2>2, <2>3
<1> QED
  BY <1>5, <1>6

\* The real copies after a plan that comes out even has been written.
LEMMA CopiesWritten ==
  ASSUME ClaimsInv, ~overlapped, NEW s \in Slots, request[s].stage = "write",
         Wrote(request[s], rows')
  PROVE  Copies(Standing(LoosePlaces \cup Decks, FALSE))'
           = Copies(Standing(LoosePlaces \cup Decks, FALSE)) - Disposed(request[s])
<1> DEFINE p == request[s]
           S == Standing(LoosePlaces \cup Decks, FALSE)
           S1 == {i \in Rows' : rows'[i].at \in LoosePlaces \cup Decks /\ rows'[i].proxy = FALSE}
           f == [i \in Ids |-> IF i \in S THEN rows[i].qty ELSE 0]
           g == [i \in Ids |-> IF i \in S1 THEN rows'[i].qty ELSE 0]
           n == [i \in Ids |-> Change(p, i)]
<1>1. /\ p \in Request /\ Staged(p) /\ Secure(s, p, lock) /\ Balanced(p) /\ ClaimsTypeOK
  BY OneRequest
<1>2. /\ \A i : There(i) /\ i \in Rows' => i \in Rows
      /\ \A i \in Rows : i \notin DOMAIN p.plan => i \in Rows' /\ rows'[i] = rows[i]
      /\ \A i : There(i) => rows'[i].at = rows[i].at /\ rows'[i].proxy = rows[i].proxy
  BY AfterWriting
<1>3. /\ rows' \in [Ids -> Row \cup {NoRow}]
      /\ \A i \in DOMAIN p.plan : i \in Rows => rows'[i].qty = p.plan[i]
  BY DEF Wrote
<1>4. PICK new :
        /\ \A i \in Ids \ {new} : ~There(i) => rows'[i] = NoRow
        /\ IF p.add = NoRow THEN new \notin Ids
           ELSE new \in Ids /\ ~There(new) /\ rows'[new] = p.add
  BY DEF Wrote
<1>5. \A i \in Rows' : /\ i \in Ids /\ rows'[i] # NoRow /\ rows'[i] \in Row /\ rows'[i].qty > 0
                       /\ rows'[i].qty \in Nat /\ rows'[i].at \in LoosePlaces \cup Decks
                       /\ rows'[i].proxy \in BOOLEAN
  BY <1>3 DEF Rows, Row
<1>6. \A i \in Rows : /\ i \in Ids /\ There(i) /\ rows[i].qty \in Nat
                      /\ rows[i].at \in LoosePlaces \cup Decks /\ rows[i].proxy \in BOOLEAN
  BY <1>1, RowsAre
<1>7. \A i \in DOMAIN p.plan : i \in Rows /\ p.plan[i] \in Nat
  BY <1>1, ChangeType DEF Secure
<1>8. \A i : i \in S <=> i \in Rows /\ ~rows[i].proxy
  BY <1>6 DEF Standing
<1>9. \A i : i \in S1 <=> i \in Rows' /\ ~rows'[i].proxy
  BY <1>5
<1> HIDE DEF S, S1
<1>10. /\ f \in [Ids -> Int] /\ g \in [Ids -> Int] /\ n \in [Ids -> Int]
       /\ S \in SUBSET Rows /\ S1 \in SUBSET Ids /\ \A i \in S1 : rows'[i].qty \in Int
  BY <1>1, <1>5, <1>6, <1>8, <1>9, ChangeType
<1>11. Copies(S) = Sum(f)
  BY <1>1, <1>10, CopiesSum
<1>12. Copies(S)' = Sum(g)
  <2>1. S' = S1
    BY DEF S, S1, Standing
  <2>2. Copies(S)' = CopiesIn(rows', S')
    BY Zenon DEF Copies, CopiesIn, MapThenSumSet, MapThenFoldSet
  <2>3. CopiesIn(rows', S1) = Sum(g)
    <3>1. IsFiniteSet(Ids)
      BY IdsAre
    <3> QED
      BY <1>10, <3>1, CopiesAreASum, SMTT(20)
  <2> QED
    BY <2>1, <2>2, <2>3, Zenon
<1>13. ASSUME NEW i \in Ids, i # new PROVE g[i] = f[i] + n[i]
  <2>1. CASE i \in DOMAIN p.plan
    <3>1. i \in Rows /\ rows'[i].qty = p.plan[i] /\ rows'[i].proxy = rows[i].proxy /\ p.plan[i] \in Nat
          /\ There(i) /\ rows[i].qty \in Nat
      BY <1>2, <1>3, <1>6, <1>7, <2>1
    <3>2. CASE rows[i].proxy
      <4>1. i \notin S /\ i \notin S1 /\ Change(p, i) = 0
        BY <1>8, <1>9, <3>1, <3>2 DEF Change
      <4> QED
        BY <4>1
    <3>3. CASE ~rows[i].proxy
      <4>1. i \in S /\ Change(p, i) = p.plan[i] - rows[i].qty
        BY <1>8, <2>1, <3>1, <3>3 DEF Change
      <4>2. g[i] = p.plan[i]
        <5>1. CASE i \in S1
          BY <3>1, <5>1
        <5>2. CASE i \notin S1
          <6>1. i \notin Rows'
            BY <1>9, <3>1, <3>3, <5>2
          <6>2. rows'[i] # NoRow
            BY <3>1 DEF Wrote
          <6>3. ~(p.plan[i] > 0)
            BY <3>1, <6>1, <6>2 DEF Rows
          <6> QED
            BY <3>1, <5>2, <6>3
        <5> QED
          BY <5>1, <5>2
      <4> QED
        BY <3>1, <4>1, <4>2
    <3> QED
      BY <3>2, <3>3
  <2>2. CASE i \notin DOMAIN p.plan
    <3>1. Change(p, i) = 0
      BY <2>2 DEF Change
    <3>2. CASE There(i)
      <4>1. i \in Rows' <=> i \in Rows
        BY <1>2, <2>2, <3>2
      <4>2. i \in Rows => rows'[i] = rows[i]
        BY <1>2, <2>2
      <4>3. i \in S1 <=> i \in S
        BY <1>8, <1>9, <4>1, <4>2
      <4>4. i \in S => rows'[i].qty = rows[i].qty /\ rows[i].qty \in Nat
        BY <1>6, <1>8, <4>2
      <4> QED
        BY <3>1, <4>3, <4>4
    <3>3. CASE ~There(i)
      <4>1. i \notin Rows /\ i \notin Rows'
        BY <1>4, <1>5, <1>6, <1>13, <3>3
      <4> QED
        BY <1>8, <1>9, <3>1, <4>1
    <3> QED
      BY <3>2, <3>3
  <2> QED
    BY <2>1, <2>2
<1>14. Sum(g) = Sum(f) + Sum(n) + Real(p.add)
  <2> HIDE DEF f, g, n
  <2>1. CASE p.add = NoRow
    <3>1. \A i \in Ids : g[i] = f[i] + n[i]
      BY <1>4, <1>13, <2>1
    <3>2. Sum(g) = Sum(f) + Sum(n) /\ Sum(f) \in Int /\ Sum(n) \in Int
      BY <1>10, <3>1, IdSums
    <3>3. Real(p.add) = 0
      BY <2>1 DEF Real
    <3> QED
      BY <3>2, <3>3
  <2>2. CASE p.add # NoRow
    <3> DEFINE a == Real(p.add)
               z == [i \in Ids |-> IF i = new THEN a ELSE 0]
               h == [i \in Ids |-> f[i] + n[i]]
    <3>1. new \in Ids /\ ~There(new) /\ rows'[new] = p.add /\ p.add \in Row
      BY <1>1, <1>4, <2>2 DEF Request
    <3>2. p.add.qty \in Nat /\ p.add.proxy \in BOOLEAN
      BY <3>1 DEF Row
    <3>3. a \in Int
      BY <3>2 DEF Real
    <3>4. f[new] = 0 /\ n[new] = 0
      <4>1. new \notin Rows /\ new \notin DOMAIN p.plan
        BY <1>6, <1>7, <3>1
      <4>2. new \notin S /\ Change(p, new) = 0
        BY <1>8, <4>1 DEF Change
      <4> QED
        BY <3>1, <4>2 DEF f, n
    <3>5. g[new] = a
      <4>1. new \in Rows' <=> p.add.qty > 0
        BY <2>2, <3>1 DEF Rows
      <4>2. CASE new \in S1
        BY <1>9, <2>2, <3>1, <4>2 DEF g, Real
      <4>3. CASE new \notin S1
        <5>1. p.add.proxy \/ ~(p.add.qty > 0)
          BY <1>9, <3>1, <4>1, <4>3
        <5>2. a = 0
          BY <3>2, <5>1 DEF Real
        <5> QED
          BY <3>1, <4>3, <5>2 DEF g
      <4> QED
        BY <4>2, <4>3
    <3> HIDE DEF a
    <3>6. z \in [Ids -> Int] /\ h \in [Ids -> Int]
      BY <1>10, <3>3
    <3>7. Sum(z) = a
      BY <3>1, <3>3, IdSums
    <3>8. \A i \in Ids : h[i] = f[i] + n[i]
      OBVIOUS
    <3>9. \A i \in Ids : g[i] = h[i] + z[i]
      BY <1>10, <1>13, <3>3, <3>4, <3>5
    <3> HIDE DEF z, h
    <3>10. Sum(h) = Sum(f) + Sum(n)
      BY <1>10, <3>6, <3>8, IdSums
    <3>11. Sum(g) = Sum(h) + Sum(z)
      BY <1>10, <3>6, <3>9, IdSums
    <3> QED
      BY <3>7, <3>10, <3>11 DEF a
  <2> QED
    BY <2>1, <2>2
<1>15. Sum(n) + Real(p.add) = -Disposed(p)
  BY <1>1 DEF Balanced
<1>16. Sum(f) \in Int /\ Sum(n) \in Int /\ Real(p.add) \in Int
  <2>1. Sum(f) \in Int /\ Sum(n) \in Int
    <3> HIDE DEF f, n
    <3> QED
      BY <1>10, IdSums
  <2>2. Real(p.add) \in Int
    BY <1>1 DEF Real, Request, Row
  <2> QED
    BY <2>1, <2>2
<1>17. Disposed(p) \in Int
  BY <1>1 DEF Disposed, Request
<1> HIDE DEF f, g, n
<1>18. Sum(g) = Sum(f) - Disposed(p)
  BY <1>14, <1>15, <1>16, <1>17
<1> QED
  BY <1>11, <1>12, <1>18 DEF S

\* The invariant survives a commit that finds the rows it updates.
LEMMA WritingKeeps ==
  ASSUME ClaimsInv, NEW s \in Slots, request[s].stage = "write", request[s].want = {},
         Ends(s, TRUE), lock' = Released(s), Wrote(request[s], rows'),
         brew' \in [Decks -> BOOLEAN], overlapped' = overlapped,
         owned' = owned - Disposed(request[s])
  PROVE  ClaimsInv'
<1> DEFINE p == request[s]
           p1 == [p EXCEPT !.stage = "answered", !.want = {}, !.plan = <<>>, !.add = NoRow,
                           !.done = TRUE]
<1>1. /\ p \in Request /\ Filled(p) /\ Staged(p) /\ Fresh(s, p, lock) /\ ClaimsTypeOK
  BY OneRequest
<1>2. request' = [request EXCEPT ![s] = p1] /\ loop' \in Slots \cup {NoOne}
  BY <1>1 DEF Ends, ClaimsTypeOK
<1>3. /\ p1 \in Request /\ p1.stage = "answered" /\ p1.plan = <<>> /\ p1.add = NoRow
      /\ Further(p, p1)
  BY <1>1, SmallPlans DEF Request, Further
<1> HIDE DEF p1
<1>4. request'[s] = p1 /\ \A t \in Slots \ {s} : request'[t] = request[t]
  BY <1>1, <1>2 DEF ClaimsTypeOK
<1>5. /\ \A i : There(i) => /\ There(i)' /\ rows'[i].at = rows[i].at
                            /\ rows'[i].proxy = rows[i].proxy
                            /\ rows[i].version <= rows'[i].version
  BY AfterWriting
<1>6. ClaimsTypeOK'
  <2>1. owned' \in Int
    BY <1>1 DEF ClaimsTypeOK, Disposed, Request
  <2>2. lock' \in [Ids \cup Decks -> Slots \cup {NoOne}]
    BY <1>1, ReleasedIs
  <2>3. rows' \in [Ids -> Row \cup {NoRow}]
    BY DEF Wrote
  <2>4. request' \in [Slots -> Request]
    BY <1>1, <1>2, <1>3 DEF ClaimsTypeOK
  <2>5. overlapped' \in BOOLEAN
    BY <1>1 DEF ClaimsTypeOK
  <2> QED
    BY <1>2, <2>1, <2>2, <2>3, <2>4, <2>5 DEF ClaimsTypeOK
<1>7. PICK L : L = Released(s)
  OBVIOUS
<1>8. ASSUME NEW t \in Slots \ {s}
      PROVE  /\ Filled(request[t])' /\ Staged(request[t])' /\ Settled(request[t])'
             /\ Locked(t, request[t], lock)' /\ Fresh(t, request[t], lock)'
             /\ (Guarded(request[t])' <=> Guarded(request[t]))
             /\ ~overlapped => Secure(t, request[t], lock)' /\ Balanced(request[t])'
  <2>1. PICK q : q = request[t]
    OBVIOUS
  <2>2. /\ Filled(q)' /\ Staged(q)' /\ Settled(q)' /\ (Guarded(q)' <=> Guarded(q))
        /\ Locked(t, q, L)' /\ Fresh(t, q, L)'
    BY <1>7, <2>1, OthersLocked
  <2>3. ~overlapped => Secure(t, q, L)' /\ Balanced(q)'
    BY <1>7, <2>1, OthersSecure
  <2>4. q = request'[t] /\ L = lock'
    BY <1>4, <1>7, <2>1
  <2> QED
    BY <2>1, <2>2, <2>3, <2>4
<1>9. p.kind = "confirm" => p.shown[1] = rows[p.proxy].version
                            /\ rows'[p.proxy].version = rows[p.proxy].version + 1
                            /\ rows[p.proxy].version \in Nat
  BY <1>1, RowsAre DEF Fresh, Wrote
<1>10. /\ Filled(request[s])' /\ Staged(request[s])' /\ Settled(request[s])'
       /\ Locked(s, request[s], lock)' /\ Fresh(s, request[s], lock)'
       /\ Secure(s, request[s], lock)' /\ Balanced(request[s])'
  <2>1. PICK r : r = p1
    OBVIOUS
  <2>2. /\ r \in Request /\ r.stage = "answered" /\ r.plan = <<>> /\ r.add = NoRow
        /\ Further(p, r)
    BY <1>3, <2>1
  <2>3. Filled(r)'
    BY <1>1, <1>5, <2>2 DEF Filled, Further
  <2>4. Staged(r)' /\ Balanced(r)'
    BY <2>2 DEF Staged, Balanced
  <2>5. Settled(r)'
    BY <1>9, <2>2 DEF Settled, Further
  <2>6. Locked(s, r, L)' /\ Fresh(s, r, L)' /\ Secure(s, r, L)'
    BY <2>2 DEF Locked, Fresh, Secure
  <2>7. r = request'[s] /\ L = lock'
    BY <1>4, <1>7, <2>1
  <2> QED
    BY <2>3, <2>4, <2>5, <2>6, <2>7
<1>11. DoneOnce'
  <2>1. ASSUME NEW t \in Slots \ {s}, p.kind = "confirm", request[t].kind = "confirm", request[t].done,
               p.proxy = request[t].proxy
        PROVE  p.shown[1] # request[t].shown[1]
    <3>1. Settled(request[t]) /\ Filled(request[t])
      BY OneRequest
    <3>2. request[t].shown[1] < rows[p.proxy].version /\ request[t].shown[1] \in Nat
      BY <2>1, <3>1 DEF Settled, Filled
    <3> QED
      BY <1>9, <2>1, <3>2
  <2>2. p1.kind = p.kind /\ p1.proxy = p.proxy /\ p1.shown = p.shown
    BY <1>3 DEF Further
  <2>3. DoneOnce
    BY DEF ClaimsInv, LocksInv
  <2> SUFFICES ASSUME NEW a \in Slots, NEW b \in Slots, a # b,
                      request'[a].kind = "confirm", request'[a].done,
                      request'[b].kind = "confirm", request'[b].done
               PROVE  request'[a].proxy # request'[b].proxy \/ request'[a].shown[1] # request'[b].shown[1]
    BY DEF DoneOnce
  <2>4. CASE a = s
    BY <1>4, <2>1, <2>2, <2>4
  <2>5. CASE b = s
    BY <1>4, <2>1, <2>2, <2>5
  <2>6. CASE a # s /\ b # s
    BY <1>4, <2>3, <2>6 DEF DoneOnce
  <2> QED
    BY <2>4, <2>5, <2>6
<1>12. LocksInv'
  <2>1. \A t \in Slots :
          /\ Filled(request[t])' /\ Staged(request[t])' /\ Settled(request[t])'
          /\ Locked(t, request[t], lock)' /\ Fresh(t, request[t], lock)'
    BY <1>8, <1>10
  <2> QED
    BY <1>6, <1>11, <2>1 DEF LocksInv
<1>13. Exclusive'
  <2>1. SUFFICES ASSUME ~overlapped'
                 PROVE  /\ \A a, b \in Slots :
                             a # b /\ Open(a)' /\ Open(b)'
                               => Guarded(request[a])' /\ Guarded(request[b])'
                        /\ \A t \in Slots : Secure(t, request[t], lock)' /\ Balanced(request[t])'
    BY DEF Exclusive
  <2>2. \A t \in Slots : Secure(t, request[t], lock)' /\ Balanced(request[t])'
    BY <1>8, <1>10, <2>1
  <2>3. \A t \in Slots : Open(t)' => t # s /\ Open(t)
    BY <1>3, <1>4 DEF Open
  <2>4. ASSUME NEW a \in Slots, NEW b \in Slots, a # b, Open(a)', Open(b)'
        PROVE  Guarded(request[a])' /\ Guarded(request[b])'
    <3>1. a # s /\ b # s /\ Guarded(request[a]) /\ Guarded(request[b])
      BY <2>1, <2>3, <2>4 DEF ClaimsInv, Exclusive
    <3> QED
      BY <1>8, <3>1
  <2> QED
    BY <2>2, <2>4
<1>14. Conserved'
  <2> SUFFICES ASSUME ~overlapped'
               PROVE  Copies(Standing(LoosePlaces \cup Decks, FALSE))' = owned'
    BY DEF Conserved
  <2>1. Copies(Standing(LoosePlaces \cup Decks, FALSE)) = owned
    BY DEF ClaimsInv, Conserved
  <2>2. Copies(Standing(LoosePlaces \cup Decks, FALSE))'
          = Copies(Standing(LoosePlaces \cup Decks, FALSE)) - Disposed(request[s])
    BY CopiesWritten
  <2> QED
    BY <2>1, <2>2
<1> QED
  BY <1>12, <1>13, <1>14 DEF ClaimsInv

\* The invariant survives a commit.
LEMMA CommitKeeps ==
  ASSUME ClaimsInv, NEW s \in Slots, Commit(s)
  PROVE  ClaimsInv'
<1> DEFINE p == request[s]
           stale == \E i \in DOMAIN p.plan : p.plan[i] > 0 /\ i \notin Rows
<1>1. /\ p.stage = "write" /\ p.want = {} /\ Open(s)
      /\ p.add # NoRow => \E i \in Ids : rows[i] = NoRow
      /\ Ends(s, ~stale) /\ lock' = Released(s) /\ overlapped' = overlapped
      /\ rows' = IF stale THEN rows ELSE Written(s)
      /\ owned' = IF ~stale /\ p.kind = "adjust" /\ ~rows[p.row].proxy THEN owned - p.qty ELSE owned
  BY DEF Commit, Open
<1>2. brew' = brew \/ \E b \in BOOLEAN : brew' = [brew EXCEPT ![p.deck] = b]
  <2> DEFINE b == \E i \in Ids : rows'[i] # NoRow /\ rows'[i].qty > 0
                                 /\ rows'[i].at = p.deck /\ rows'[i].proxy
  <2>1. brew' = IF stale \/ ~Guarded(p) \/ p.kind = "split" THEN brew
                ELSE [brew EXCEPT ![p.deck] = b]
    BY DEF Commit
  <2>2. b \in BOOLEAN
    OBVIOUS
  <2> HIDE DEF b, stale
  <2> QED
    BY <2>1, <2>2
<1> HIDE DEF stale
<1>3. ClaimsTypeOK /\ p \in Request
  BY OneRequest
<1>4. CASE stale
  <2>1. Ends(s, FALSE)
    BY <1>1, <1>4
  <2>2. brew' = brew
    BY <1>4 DEF Commit, stale
  <2> QED
    BY <1>1, <1>4, <2>1, <2>2, EndsKeeps
<1>5. CASE ~stale
  <2>1. Ends(s, TRUE)
    BY <1>1, <1>5
  <2>2. Wrote(p, rows')
    BY <1>1, <1>3, <1>5, WrittenIs
  <2>3. brew' \in [Decks -> BOOLEAN]
    BY <1>2, <1>3 DEF ClaimsTypeOK
  <2>4. owned' = owned - Disposed(p)
    BY <1>1, <1>3, <1>5 DEF Disposed, ClaimsTypeOK
  <2> QED
    BY <1>1, <2>1, <2>2, <2>3, <2>4, WritingKeeps
<1> QED
  BY <1>4, <1>5

----------------------------------------------------------------------------
(* Theorems *)

\* The program starts in the invariant.
LEMMA ClaimsStart == Init => ClaimsInv
<1> SUFFICES ASSUME Init PROVE ClaimsInv
  OBVIOUS
<1>1. /\ rows \in [Ids -> Row \cup {NoRow}] /\ brew = [d \in Decks |-> TRUE]
      /\ lock = [x \in Ids \cup Decks |-> NoOne] /\ loop = NoOne
      /\ request = [s \in Slots |-> Unposted]
      /\ owned = Copies(Standing(LoosePlaces \cup Decks, FALSE))
      /\ overlapped = FALSE
  BY ClaimsAssumption DEF Init
<1>2. /\ Unposted \in Request /\ Unposted.kind = "none" /\ Unposted.stage = "none"
      /\ Unposted.plan = <<>> /\ Unposted.add = NoRow /\ Unposted.done = FALSE
  BY SmallPlans DEF Unposted, Request
<1>3. owned \in Int
  <2> DEFINE S == Standing(LoosePlaces \cup Decks, FALSE)
             f == [i \in Ids |-> IF i \in S THEN rows[i].qty ELSE 0]
  <2>1. S \in SUBSET Ids /\ \A i \in S : rows[i].qty \in Int
    BY <1>1 DEF Standing, Rows, Row
  <2>2. Copies(S) = CopiesIn(rows, S)
    BY DEF Copies, CopiesIn
  <2> HIDE DEF S
  <2>3. IsFiniteSet(Ids)
    BY IdsAre
  <2>4. CopiesIn(rows, S) = Sum(f)
    BY <2>1, <2>3, CopiesAreASum, SMTT(20)
  <2>5. f \in [Ids -> Int]
    BY <2>1
  <2> HIDE DEF f
  <2>6. Sum(f) \in Int
    BY <2>5, IdSums
  <2> QED
    BY <1>1, <2>2, <2>4, <2>6 DEF S
<1>4. ClaimsTypeOK
  BY <1>1, <1>2, <1>3 DEF ClaimsTypeOK
<1>5. ASSUME NEW s \in Slots
      PROVE  /\ Filled(request[s]) /\ Staged(request[s]) /\ Settled(request[s])
             /\ Locked(s, request[s], lock) /\ Fresh(s, request[s], lock)
             /\ Secure(s, request[s], lock) /\ Balanced(request[s]) /\ ~Open(s)
             /\ ~request[s].done
  BY <1>1, <1>2 DEF Filled, Staged, Settled, Locked, Fresh, Secure, Balanced, Open
<1>6. LocksInv
  BY <1>4, <1>5 DEF LocksInv, DoneOnce
<1>7. Exclusive /\ Conserved
  BY <1>1, <1>5 DEF Exclusive, Conserved
<1> QED
  BY <1>6, <1>7 DEF ClaimsInv

\* Every step keeps the invariant.
LEMMA ClaimsStep == ClaimsInv /\ [Next]_vars => ClaimsInv'
<1> SUFFICES ASSUME ClaimsInv, [Next]_vars PROVE ClaimsInv'
  OBVIOUS
<1>1. CASE UNCHANGED vars
  <2>1. /\ rows' = rows /\ brew' = brew /\ lock' = lock /\ loop' = loop /\ request' = request
        /\ owned' = owned /\ overlapped' = overlapped
    BY <1>1 DEF vars
  <2>2. LocksInv'
    BY <2>1, SameRows DEF ClaimsInv, LocksInv, ClaimsTypeOK, DoneOnce
  <2>3. Exclusive'
    BY <2>1, SameRows DEF ClaimsInv, Exclusive, Open
  <2>4. Copies(Standing(LoosePlaces \cup Decks, FALSE))' = Copies(Standing(LoosePlaces \cup Decks, FALSE))
    <3> DEFINE S == Standing(LoosePlaces \cup Decks, FALSE)
    <3>1. S' = S
      BY <2>1, SameRows DEF Standing
    <3>2. Copies(S)' = CopiesIn(rows', S') /\ Copies(S) = CopiesIn(rows, S)
      BY Zenon DEF Copies, CopiesIn, MapThenSumSet, MapThenFoldSet
    <3> HIDE DEF S
    <3>3. Copies(S)' = Copies(S)
      BY <2>1, <3>1, <3>2
    <3> QED
      BY <3>3 DEF S
  <2>5. Conserved'
    BY <2>1, <2>4 DEF ClaimsInv, Conserved
  <2> QED
    BY <2>2, <2>3, <2>5 DEF ClaimsInv
<1>2. CASE Next
  <2>1. PICK s \in Slots : Post(s) \/ Step(s)
    BY <1>2 DEF Next
  <2>2. CASE Post(s)
    BY <2>2, PostKeeps
  <2>3. CASE StartClaim(s) \/ StartSplit(s) \/ StartAdjust(s) \/ StartPull(s) \/ StartReturn(s)
    BY <2>3, StartClaimKeeps, StartSplitKeeps, StartAdjustKeeps, StartPullKeeps, StartReturnKeeps
  <2>4. CASE Acquire(s)
    BY <2>4, AcquireKeeps
  <2>5. CASE MaterializeLooks(s) \/ ConfirmLooks(s) \/ Materialize(s) \/ Confirm(s) \/ Split(s)
    BY <2>5, MaterializeLooksKeeps, ConfirmLooksKeeps, MaterializeKeeps, ConfirmKeeps, SplitKeeps
  <2>6. CASE Commit(s)
    BY <2>6, CommitKeeps
  <2>7. CASE Abort(s)
    BY <2>7, AbortKeeps
  <2>8. CASE Close(s)
    BY <2>8, CloseKeeps
  <2> QED
    BY <2>1, <2>2, <2>3, <2>4, <2>5, <2>6, <2>7, <2>8 DEF Step
<1> QED
  BY <1>1, <1>2

\* The invariant holds of every behaviour.
THEOREM ClaimsInvariant == Spec => []ClaimsInv
<1>1. Init => ClaimsInv
  BY ClaimsStart
<1>2. ClaimsInv /\ [Next]_vars => ClaimsInv'
  BY ClaimsStep
<1> QED
  BY <1>1, <1>2, PTL DEF Spec

\* An instruction of the assembly page (decks_assemble_confirm,
\* confirm_deck_assembly) is carried out once, however often it is posted and
\* whatever runs beside it: the versions of the rows displayed, checked under their
\* locks, refuse the second.
THEOREM InstructionsApplyOnce == Spec => []AppliedOnce
<1>1. ClaimsInv => AppliedOnce
  <2> SUFFICES ASSUME ClaimsInv, NEW s \in Slots, NEW t \in Slots, s # t,
                      request[s].kind = "confirm", request[s].done,
                      [request[s] EXCEPT !.stage = "none"] = [request[t] EXCEPT !.stage = "none"]
               PROVE  FALSE
    BY DEF AppliedOnce
  <2>1. request[s] \in Request /\ request[t] \in Request
    BY OneRequest
  <2>2. /\ request[t].kind = request[s].kind /\ request[t].done = request[s].done
        /\ request[t].proxy = request[s].proxy /\ request[t].shown = request[s].shown
    BY <2>1 DEF Request
  <2> QED
    BY <2>2 DEF ClaimsInv, LocksInv, DoneOnce
<1> QED
  BY <1>1, ClaimsInvariant, PTL

\* No copy is lost or made up, however requests that lock what they write overlap,
\* if the others run one at a time: what each plans comes out even, and nobody writes
\* a row that another has planned for.
THEOREM ClaimsConserve == Spec => []Conserved
<1>1. ClaimsInv => Conserved
  BY DEF ClaimsInv
<1> QED
  BY <1>1, ClaimsInvariant, PTL

=============================================================================
