--------------------------- MODULE VariantsProofs ---------------------------
(***************************************************************************)
(* What holds of the variants of a live game: the planar deck of Overlay,  *)
(* for any catalog of planes, and the board of Momir, for any number of    *)
(* seats, catalog of creatures and sequence of actions.                    *)
(***************************************************************************)
EXTENDS Momir, FiniteSetTheorems, SequenceTheorems, WellFoundedInduction, TLAPS

(* The planar deck. *)

\* The catalog, as OverlayAssumption has it.
LEMMA Catalog ==
  /\ IsFiniteSet(Planes) /\ Cardinality(Planes) \in Nat /\ Planes # {}
  /\ NoCard \notin Planes
BY OverlayAssumption, FS_CardinalityType DEF OverlayAssumption

\* A shuffle has every card once.
LEMMA ShuffleIs ==
  ASSUME NEW S, IsFiniteSet(S), NEW d \in Shuffles(S)
  PROVE  d \in Seq(S) /\ Len(d) = Cardinality(S) /\ Cards(d) = S
<1> DEFINE n == Cardinality(S)
<1>1. n \in Nat
  BY FS_CardinalityType
<1>2. d \in [1 .. n -> S] /\ \A i, j \in 1 .. n : i # j => d[i] # d[j]
  BY DEF Shuffles, SetToSeqs
<1> HIDE DEF n
<1>3. d \in Seq(S) /\ Len(d) = n /\ DOMAIN d = 1 .. n
  BY <1>1, <1>2, IsASeq
<1>4. d \in Injection(1 .. n, S)
  BY <1>2 DEF Injection, IsInjective
<1>5. Cardinality(1 .. n) = n
  BY <1>1, FS_Interval
<1>6. d \in Surjection(1 .. n, S)
  BY <1>4, <1>5, FS_Injection DEF n
<1>7. Cards(d) = S
  BY <1>2, <1>3, <1>6 DEF Cards, ToSet, Surjection
<1> QED
  BY <1>3, <1>7 DEF n

\* The top card and those below it make up the deck.
LEMMA DeckParts ==
  ASSUME NEW S, NEW d \in Seq(S), d # <<>>
  PROVE  /\ Top(d) \in S /\ Below(d) \in Seq(S) /\ Len(Below(d)) + 1 = Len(d)
         /\ Cards(d) = Cards(Below(d)) \cup {Top(d)}
<1>1. /\ Top(d) = d[1] /\ d[1] \in S /\ Len(d) \in Nat \ {0}
      /\ Below(d) \in Seq(S) /\ Len(Below(d)) = Len(d) - 1
      /\ DOMAIN d = 1 .. Len(d) /\ DOMAIN Below(d) = 1 .. Len(d) - 1
      /\ \A i \in 1 .. Len(d) - 1 : Below(d)[i] = d[i + 1]
  <2>1. Top(d) = Head(d) /\ Below(d) = Tail(d)
    BY DEF Top, Below
  <2>2. /\ Head(d) \in S /\ Tail(d) \in Seq(S) /\ Len(Tail(d)) = Len(d) - 1
        /\ \A i \in 1 .. Len(Tail(d)) : Tail(d)[i] = d[i + 1]
    BY HeadTailProperties
  <2>3. Head(d) = d[1] /\ Len(d) \in Nat \ {0} /\ DOMAIN d = 1 .. Len(d)
    BY EmptySeq, LenProperties
  <2>4. DOMAIN Tail(d) = 1 .. Len(Tail(d))
    BY <2>2, LenProperties
  <2> QED
    BY <2>1, <2>2, <2>3, <2>4
<1>2. Cards(Below(d)) \cup {d[1]} \subseteq Cards(d)
  BY <1>1 DEF Cards, ToSet
<1>3. ASSUME NEW i \in 1 .. Len(d) PROVE d[i] \in Cards(Below(d)) \cup {d[1]}
  <2>1. CASE i = 1
    BY <2>1
  <2>2. CASE i # 1
    <3>1. i - 1 \in 1 .. Len(d) - 1 /\ (i - 1) + 1 = i
      BY <1>1, <2>2
    <3>2. Below(d)[i - 1] = d[i]
      BY <1>1, <3>1
    <3> QED
      BY <1>1, <3>1, <3>2 DEF Cards, ToSet
  <2> QED
    BY <2>1, <2>2
<1>4. Cards(d) \subseteq Cards(Below(d)) \cup {d[1]}
  BY <1>1, <1>3 DEF Cards, ToSet
<1> QED
  BY <1>1, <1>2, <1>4

\* A card put on a pile is in it.
LEMMA PileGrows ==
  ASSUME NEW S, NEW pile \in Seq(S), NEW c \in S
  PROVE  /\ Append(pile, c) \in Seq(S) /\ Len(Append(pile, c)) = Len(pile) + 1
         /\ Cards(Append(pile, c)) = Cards(pile) \cup {c}
<1> DEFINE p == Append(pile, c)
<1>1. /\ p \in Seq(S) /\ Len(p) = Len(pile) + 1 /\ p[Len(pile) + 1] = c
      /\ \A i \in 1 .. Len(pile) : p[i] = pile[i]
      /\ Len(pile) \in Nat /\ DOMAIN pile = 1 .. Len(pile) /\ DOMAIN p = 1 .. (Len(pile) + 1)
  OBVIOUS
<1> HIDE DEF p
<1>2. Cards(p) \subseteq Cards(pile) \cup {c}
  <2>1. ASSUME NEW i \in 1 .. (Len(pile) + 1) PROVE p[i] \in Cards(pile) \cup {c}
    <3>1. i \in 1 .. Len(pile) \/ i = Len(pile) + 1
      BY <1>1
    <3> QED
      BY <1>1, <3>1 DEF Cards, ToSet
  <2> QED
    BY <1>1, <2>1 DEF Cards, ToSet
<1>3. Cards(pile) \cup {c} \subseteq Cards(p)
  <2>1. ASSUME NEW i \in 1 .. Len(pile) PROVE pile[i] \in Cards(p)
    BY <1>1 DEF Cards, ToSet
  <2>2. c \in Cards(p)
    BY <1>1 DEF Cards, ToSet
  <2> QED
    BY <1>1, <2>1, <2>2 DEF Cards, ToSet
<1> QED
  BY <1>1, <1>2, <1>3 DEF p

\* The planar deck while it is on, perhaps before the first plane is up.
Deck == [on : {TRUE}, deck : Seq(Planes), discard : Seq(Planes), current : Planes \cup {NoCard}]

\* All planes are in the piles or up, none twice.
Whole(s) ==
  /\ Len(s.deck) + Len(s.discard) + (IF s.current = NoCard THEN 0 ELSE 1) = Cardinality(Planes)
  /\ Cards(s.deck) \cup Cards(s.discard) \cup ({s.current} \ {NoCard}) = Planes

PlanesInv ==
  planes # Off => planes \in Deck /\ Whole(planes) /\ planes.current # NoCard

\* Sums of the sizes of piles.
LEMMA Regrouped ==
  \A a, b \in Int : a + b + 0 = a + b /\ a + b + 1 = a + (b + 1) /\ a + b + 1 = (a + 1) + b
OBVIOUS

\* Moving on keeps the planes together, and turns one up.
LEMMA AdvancedIsWhole ==
  ASSUME NEW s \in Deck, Whole(s), NEW r \in Advanced(s)
  PROVE  r \in Deck /\ Whole(r) /\ r.current # NoCard
<1> DEFINE put == IF s.current = NoCard THEN s.discard ELSE Append(s.discard, s.current)
<1>1. /\ s.deck \in Seq(Planes) /\ s.discard \in Seq(Planes)
      /\ s.current \in Planes \cup {NoCard}
      /\ Len(s.deck) \in Nat /\ Len(s.discard) \in Nat
  BY DEF Deck
<1>2. /\ put \in Seq(Planes)
      /\ Len(s.deck) + Len(put) = Cardinality(Planes)
      /\ Cards(s.deck) \cup Cards(put) = Planes
  <2>0. Len(s.deck) \in Int /\ Len(s.discard) \in Int
    BY <1>1
  <2>1. CASE s.current = NoCard
    <3>1. put = s.discard
      BY <2>1
    <3> HIDE DEF put
    <3>2. Len(s.deck) + Len(s.discard) + 0 = Cardinality(Planes)
      BY <2>1 DEF Whole
    <3>3. Cards(s.deck) \cup Cards(s.discard) = Planes
      BY <2>1 DEF Whole
    <3>4. put \in Seq(Planes)
      BY <1>1, <3>1
    <3>5. Len(s.deck) + Len(put) = Cardinality(Planes)
      BY <2>0, <3>1, <3>2, Regrouped
    <3>6. Cards(s.deck) \cup Cards(put) = Planes
      BY <3>1, <3>3
    <3> QED
      BY <3>4, <3>5, <3>6
  <2>2. CASE s.current # NoCard
    <3>1. put = Append(s.discard, s.current) /\ s.current \in Planes
      BY <1>1, <2>2
    <3> HIDE DEF put
    <3>2. /\ put \in Seq(Planes) /\ Len(put) = Len(s.discard) + 1
          /\ Cards(put) = Cards(s.discard) \cup {s.current}
      BY <1>1, <3>1, PileGrows
    <3>3. Len(s.deck) + Len(s.discard) + 1 = Cardinality(Planes)
      BY <2>2 DEF Whole
    <3>4. Cards(s.deck) \cup Cards(s.discard) \cup {s.current} = Planes
      BY <2>2 DEF Whole
    <3>5. Len(s.deck) + Len(put) = Cardinality(Planes)
      BY <2>0, <3>2, <3>3, Regrouped
    <3> QED
      BY <3>2, <3>4, <3>5
  <2> QED
    BY <2>1, <2>2
<1>3. PICK d \in Drawable(s.deck, put) :
        r = [s EXCEPT !.deck = Below(d.deck), !.discard = d.discard, !.current = Top(d.deck)]
  BY Zenon DEF Advanced
<1> HIDE DEF put
<1>4. /\ d.deck \in Seq(Planes) /\ d.deck # <<>> /\ d.discard \in Seq(Planes)
      /\ Len(d.deck) + Len(d.discard) = Cardinality(Planes)
      /\ Cards(d.deck) \cup Cards(d.discard) = Planes
  <2>1. CASE s.deck # <<>>
    <3>1. d = [deck |-> s.deck, discard |-> put]
      BY <2>1 DEF Drawable
    <3> QED
      BY <1>1, <1>2, <2>1, <3>1
  <2>2. CASE s.deck = <<>>
    <3>1. Cards(s.deck) = {} /\ Len(s.deck) = 0
      BY <2>2 DEF Cards, ToSet
    <3>2. Cards(put) = Planes
      BY <1>2, <3>1
    <3>3. PICK e \in Shuffles(Planes) : d = [deck |-> e, discard |-> <<>>]
      <4>1. Drawable(s.deck, put) = {[deck |-> e, discard |-> <<>>] : e \in Shuffles(Planes)}
        BY <2>2, <3>2 DEF Drawable
      <4> QED
        BY <4>1
    <3>4. e \in Seq(Planes) /\ Len(e) = Cardinality(Planes) /\ Cards(e) = Planes
      BY ShuffleIs, Catalog
    <3>5. e # <<>>
      BY <3>4, Catalog DEF Cards, ToSet
    <3>6. <<>> \in Seq(Planes) /\ Len(<<>>) = 0 /\ Cards(<<>>) = {}
      BY DEF Cards, ToSet
    <3> QED
      BY <3>3, <3>4, <3>5, <3>6, Catalog
  <2> QED
    BY <2>1, <2>2
<1>5. /\ Top(d.deck) \in Planes /\ Below(d.deck) \in Seq(Planes)
      /\ Len(Below(d.deck)) + 1 = Len(d.deck) /\ Len(Below(d.deck)) \in Nat
      /\ Cards(d.deck) = Cards(Below(d.deck)) \cup {Top(d.deck)}
  BY <1>4, DeckParts
<1>6. /\ r.on = TRUE /\ r.deck = Below(d.deck) /\ r.discard = d.discard
      /\ r.current = Top(d.deck) /\ r \in Deck
  BY <1>3, <1>4, <1>5 DEF Deck
<1>7. r.current # NoCard
  BY <1>5, <1>6, Catalog
<1>8. Len(r.deck) + Len(r.discard) + 1 = Cardinality(Planes)
  <2>1. Len(d.discard) \in Int /\ Len(Below(d.deck)) \in Int
    BY <1>4, <1>5, LenProperties
  <2>2. Len(r.deck) = Len(Below(d.deck)) /\ Len(r.discard) = Len(d.discard)
    BY <1>6
  <2>3. Len(Below(d.deck)) + 1 + Len(d.discard) = Cardinality(Planes)
    BY <1>4, <1>5
  <2> QED
    BY <2>1, <2>2, <2>3, Regrouped
<1>9. Cards(r.deck) \cup Cards(r.discard) \cup {r.current} = Planes
  BY <1>4, <1>5, <1>6
<1> QED
  BY <1>6, <1>7, <1>8, <1>9 DEF Whole

\* A step of the table keeps them together.
LEMMA PlanesStep == PlanesInv /\ [Next]_vars => PlanesInv'
<1> SUFFICES ASSUME PlanesInv, [Next]_vars PROVE PlanesInv'
  OBVIOUS
<1>1. CASE EnablePlanechase
  <2>1. PICK d \in Shuffles(Planes) :
          planes' \in Advanced([on |-> TRUE, deck |-> d, discard |-> <<>>, current |-> NoCard])
    BY <1>1 DEF EnablePlanechase
  <2> DEFINE s == [on |-> TRUE, deck |-> d, discard |-> <<>>, current |-> NoCard]
  <2>2. d \in Seq(Planes) /\ Len(d) = Cardinality(Planes) /\ Cards(d) = Planes
    BY ShuffleIs, Catalog
  <2>3. <<>> \in Seq(Planes) /\ Len(<<>>) = 0 /\ Cards(<<>>) = {}
    BY DEF Cards, ToSet
  <2>4. s \in Deck /\ Whole(s)
    BY <2>2, <2>3, Catalog DEF Deck, Whole
  <2> QED
    BY <2>1, <2>4, AdvancedIsWhole DEF PlanesInv
<1>2. CASE Planeswalk
  <2>1. planes \in Deck /\ Whole(planes)
    BY <1>2 DEF Planeswalk, PlanesInv, Off
  <2> QED
    BY <1>2, <2>1, AdvancedIsWhole DEF PlanesInv, Planeswalk
<1>3. CASE DisablePlanechase
  BY <1>3 DEF DisablePlanechase, PlanesInv
<1>4. CASE UNCHANGED planes
  BY <1>4 DEF PlanesInv
<1>5. CASE EnableArchenemy \/ DisableArchenemy \/ SetInMotion
           \/ (\E c \in Schemes : AbandonNamed(c)) \/ AbandonCurrent
  <2>1. UNCHANGED planes
    BY <1>5, Zenon
    DEF EnableArchenemy, DisableArchenemy, SetInMotion, AbandonNamed, AbandonCurrent
  <2> QED
    BY <2>1, <1>4
<1> QED
  BY <1>1, <1>2, <1>3, <1>4, <1>5 DEF Next, vars

\* At the start no game plays with planes.
LEMMA PlanesInit == Init => PlanesInv
BY DEF Init, PlanesInv

\* What the decks promise follows from what is kept of them.
LEMMA PlanesMeans == PlanesInv => PlanesInOnePile
<1> SUFFICES ASSUME PlanesInv, planes.on PROVE PlanesInOnePile
  BY DEF PlanesInOnePile
<1>1. planes \in Deck /\ Whole(planes) /\ planes.current # NoCard
  BY DEF PlanesInv, Off
<1>2. Cards(planes.deck) \cup Cards(planes.discard) \cup {planes.current} = Planes
  BY <1>1 DEF Whole
<1>3. Len(planes.deck) + Len(planes.discard) + 1 = Cardinality(Planes)
  BY <1>1 DEF Whole
<1> QED
  BY <1>1, <1>2, <1>3 DEF PlanesInOnePile

\* Whatever order planechase is turned on, rolled, walked and turned off in, every plane
\* is in one pile, once, and one is up: _advance_plane loses and doubles none, through
\* any number of shuffles.
THEOREM PlanesStayTogether == Spec => []PlanesInOnePile
<1>1. PlanesInv /\ [Next]_vars => PlanesInv'
  BY PlanesStep
<1> QED
  BY <1>1, PlanesInit, PlanesMeans, PTL DEF Spec

\* So it is when the table plays Momir besides: no action on the board touches the decks.
THEOREM MomirKeepsPlanesTogether == SpecMomir => []PlanesInOnePile
<1>1. InitMomir => PlanesInv
  BY PlanesInit DEF InitMomir
<1>2. PlanesInv /\ [NextMomir]_<<vars, momirVars>> => PlanesInv'
  <2>1. [NextMomir]_<<vars, momirVars>> => [Next]_vars
    BY DEF NextMomir
  <2> QED
    BY <2>1, PlanesStep
<1> QED
  BY <1>1, <1>2, PlanesMeans, PTL DEF SpecMomir

----------------------------------------------------------------------------
(* Sums over a finite set, as FoldFunction takes them. *)

\* The member of set s that FoldFunction takes next.
One(s) == CHOOSE x \in s : TRUE

\* The sets of at most n arguments of g.
Sizes(g, n) == {t \in SUBSET DOMAIN g : Cardinality(t) <= n}

\* v adds up g over every set in X.
Adds(g, X, v) ==
  v = [s \in X |-> IF s = {} THEN 0 ELSE g[One(s)] + v[s \ {One(s)}]]

\* The sums of g over the sets of its arguments.
SumsOf(g) == CHOOSE v : Adds(g, SUBSET DOMAIN g, v)

\* Among sets of numbers there is a least number.
LEMMA LeastNumber ==
  ASSUME NEW S \in SUBSET Nat, S # {}
  PROVE  \E m \in S : \A k \in S : m <= k
<1>1. PICK m \in S : \A k \in S : <<k, m>> \notin OpToRel(<, Nat)
  BY NatLessThanWellFounded, WFMin, Zenon
<1>2. ASSUME NEW k \in S PROVE m <= k
  <2>1. <<k, m>> \in Nat \X Nat
    OBVIOUS
  <2>2. <<k, m>> \in OpToRel(<, Nat) <=> k < m
    BY <2>1, Zenon DEF OpToRel
  <2>3. ~(k < m)
    BY <1>1, <2>2, Zenon
  <2> QED
    BY <2>3
<1> QED
  BY <1>2

\* A set that is taken apart.
LEMMA TakeOne ==
  ASSUME NEW D, IsFiniteSet(D), NEW s \in SUBSET D
  PROVE  /\ IsFiniteSet(s) /\ Cardinality(s) \in Nat /\ (Cardinality(s) = 0 <=> s = {})
         /\ s # {} => One(s) \in s
         /\ \A x \in s : s \ {x} \in SUBSET D /\ Cardinality(s \ {x}) = Cardinality(s) - 1
<1>1. IsFiniteSet(s) /\ Cardinality(s) \in Nat /\ (Cardinality(s) = 0 <=> s = {})
  BY FS_Subset, FS_CardinalityType, FS_EmptySet
<1>2. s # {} => One(s) \in s
  BY DEF One
<1>3. \A x \in s : Cardinality(s \ {x}) = Cardinality(s) - 1
  BY <1>1, FS_RemoveElement
<1> QED
  BY <1>1, <1>2, <1>3

\* Among sets of parts of a finite set there is one from which nothing can be taken.
LEMMA LeastPart ==
  ASSUME NEW D, IsFiniteSet(D), NEW B \in SUBSET (SUBSET D), B # {}
  PROVE  \E s \in B : \A x \in s : s \ {x} \notin B
<1> DEFINE C == {Cardinality(s) : s \in B}
<1>1. C \in SUBSET Nat /\ C # {}
  BY TakeOne
<1> HIDE DEF C
<1>2. PICK n \in C : \A k \in C : n <= k
  BY <1>1, LeastNumber
<1>3. PICK s \in B : Cardinality(s) = n
  BY <1>2 DEF C
<1>4. ASSUME NEW x \in s, s \ {x} \in B PROVE FALSE
  <2>1. Cardinality(s \ {x}) = Cardinality(s) - 1 /\ Cardinality(s) \in Nat
    BY <1>4, TakeOne
  <2>2. Cardinality(s \ {x}) \in C
    BY <1>4 DEF C
  <2> QED
    BY <1>2, <1>3, <2>1, <2>2
<1> QED
  BY <1>4

\* There are such sums over sets of any size.
LEMMA SumsExist ==
  ASSUME NEW g, IsFiniteSet(DOMAIN g), NEW n \in Nat
  PROVE  \E v : Adds(g, Sizes(g, n), v)
<1> DEFINE Bad == {k \in Nat : ~ \E v : Adds(g, Sizes(g, k), v)}
<1>1. SUFFICES ASSUME Bad # {} PROVE FALSE
  OBVIOUS
<1>2. PICK m \in Bad : \A k \in Bad : m <= k
  <2>1. Bad \in SUBSET Nat
    OBVIOUS
  <2> QED
    BY <1>1, <2>1, LeastNumber
<1>3. CASE m = 0
  <2> DEFINE v == [s \in Sizes(g, 0) |-> 0]
  <2>1. ASSUME NEW s \in Sizes(g, 0) PROVE s = {}
    <3>1. s \in SUBSET DOMAIN g /\ Cardinality(s) <= 0
      BY DEF Sizes
    <3> QED
      BY <3>1, TakeOne
  <2>2. Adds(g, Sizes(g, 0), v)
    BY <2>1 DEF Adds
  <2> QED
    BY <1>2, <1>3, <2>2
<1>4. CASE m # 0
  <2>1. m \in Nat /\ m - 1 \in Nat /\ m - 1 \notin Bad
    BY <1>2, <1>4
  <2>2. PICK u : Adds(g, Sizes(g, m - 1), u)
    BY <2>1
  <2> DEFINE next(s) == IF s = {} THEN 0 ELSE g[One(s)] + u[s \ {One(s)}]
             v == [s \in Sizes(g, m) |-> next(s)]
  <2>3. ASSUME NEW s \in Sizes(g, m), s # {}
        PROVE  s \ {One(s)} \in Sizes(g, m - 1)
    <3>1. s \in SUBSET DOMAIN g /\ Cardinality(s) <= m
      BY DEF Sizes
    <3>2. /\ One(s) \in s /\ s \ {One(s)} \in SUBSET DOMAIN g /\ Cardinality(s) \in Nat
          /\ Cardinality(s \ {One(s)}) = Cardinality(s) - 1
      BY <2>3, <3>1, TakeOne
    <3> QED
      BY <2>1, <3>1, <3>2 DEF Sizes
  <2>4. ASSUME NEW s \in Sizes(g, m - 1)
        PROVE  s \in Sizes(g, m) /\ u[s] = next(s)
    <3>1. s \in SUBSET DOMAIN g /\ Cardinality(s) <= m - 1
      BY DEF Sizes
    <3>2. Cardinality(s) \in Nat
      BY <3>1, TakeOne
    <3>3. s \in Sizes(g, m)
      BY <2>1, <3>1, <3>2 DEF Sizes
    <3> QED
      BY <2>2, <3>3 DEF Adds
  <2> HIDE DEF next
  <2>5. ASSUME NEW s \in Sizes(g, m), s # {}
        PROVE  v[s \ {One(s)}] = u[s \ {One(s)}]
    BY <2>3, <2>4, <2>5
  <2>6. Adds(g, Sizes(g, m), v)
    BY <2>5 DEF Adds, next
  <2> QED
    BY <1>2, <2>6
<1> QED
  BY <1>3, <1>4

\* What FoldFunction gives are these sums.
LEMMA TotalIsSum ==
  ASSUME NEW g, IsFiniteSet(DOMAIN g)
  PROVE  /\ Total(g) = SumsOf(g)[DOMAIN g]
         /\ \A s \in SUBSET DOMAIN g :
              SumsOf(g)[s] = IF s = {} THEN 0 ELSE g[One(s)] + SumsOf(g)[s \ {One(s)}]
<1> DEFINE n == Cardinality(DOMAIN g)
<1>1. Total(g) = SumsOf(g)[DOMAIN g]
  BY Zenon DEF Total, SumsOf, FoldFunction, FoldFunctionOnSet, MapThenFoldSet, Adds, One
<1>2. n \in Nat
  BY FS_CardinalityType
<1>3. Sizes(g, n) = SUBSET DOMAIN g
  BY FS_Subset DEF Sizes
<1> HIDE DEF n
<1>4. \E v : Adds(g, SUBSET DOMAIN g, v)
  BY <1>2, <1>3, SumsExist
<1>5. Adds(g, SUBSET DOMAIN g, SumsOf(g))
  BY <1>4 DEF SumsOf
<1> QED
  BY <1>1, <1>5 DEF Adds

\* A sum of natural numbers is one.
LEMMA TotalType ==
  ASSUME NEW D, IsFiniteSet(D), NEW g \in [D -> Nat]
  PROVE  Total(g) \in Nat
<1> DEFINE B == {t \in SUBSET D : SumsOf(g)[t] \notin Nat}
<1>1. DOMAIN g = D
  OBVIOUS
<1>2. ASSUME B # {} PROVE FALSE
  <2>1. PICK t \in B : \A x \in t : t \ {x} \notin B
    BY <1>1, <1>2, LeastPart
  <2>2. SumsOf(g)[t] = IF t = {} THEN 0 ELSE g[One(t)] + SumsOf(g)[t \ {One(t)}]
    BY <1>1, TotalIsSum
  <2>3. t # {}
    BY <2>2
  <2>4. One(t) \in t /\ t \ {One(t)} \in SUBSET D
    BY <1>1, <2>3, TakeOne
  <2>5. SumsOf(g)[t \ {One(t)}] \in Nat /\ g[One(t)] \in Nat
    BY <2>1, <2>4
  <2> QED
    BY <2>2, <2>3, <2>5
<1>3. Total(g) = SumsOf(g)[D]
  BY <1>1, TotalIsSum
<1> QED
  BY <1>2, <1>3

----------------------------------------------------------------------------
(* The creatures of Momir. *)

\* A creature on the table.
Tok == [card : Creatures, alive : BOOLEAN, tapped : BOOLEAN, damage : Nat, plus : Nat,
        minus : Nat, created : Nat, spared : BOOLEAN]

\* What the rules read of a creature.
LEMMA TokIs ==
  ASSUME NEW t \in Tok
  PROVE  /\ t.card.mv \in Nat /\ t.card.pow \in Nat /\ t.card.tou \in Nat
         /\ t.card.numeric \in BOOLEAN
         /\ Power(t) \in Nat /\ Toughness(t) \in Int
<1>1. t.card \in Creatures /\ t.plus \in Nat /\ t.minus \in Nat
  BY DEF Tok
<1>2. /\ t.card.mv \in Nat /\ {t.card.pow, t.card.tou} \subseteq Nat
      /\ t.card.numeric \in BOOLEAN
  BY <1>1, MomirAssumption DEF MomirAssumption
<1>3. t.card.pow \in Nat /\ t.card.tou \in Nat
  BY <1>2
<1> QED
  BY <1>1, <1>2, <1>3 DEF Power, Toughness

\* Wounds leave no creature alive that should be dead.
LEMMA WoundedKeeps ==
  ASSUME NEW t \in Tok, NEW d \in Nat, NEW venom \in BOOLEAN
  PROVE  /\ Wounded(t, d, venom) \in Tok
         /\ LethalIsDead(t) => LethalIsDead(Wounded(t, d, venom))
<1> DEFINE w == Wounded(t, d, venom)
           survives == \/ Has(t, "indestructible")
                       \/ ~venom /\ (Toughness(t) <= 0 \/ t.damage + d < Toughness(t))
<1>1. /\ t.card \in Creatures /\ t.alive \in BOOLEAN /\ t.tapped \in BOOLEAN
      /\ t.damage \in Nat /\ t.plus \in Nat /\ t.minus \in Nat /\ t.created \in Nat
      /\ t.spared \in BOOLEAN /\ t.damage + d \in Nat
  BY DEF Tok
<1>2. w = [t EXCEPT !.damage = t.damage + d, !.alive = t.alive /\ survives]
  BY DEF Wounded, Tok
<1> HIDE DEF w
<1>3. /\ w \in Tok /\ w.card = t.card /\ w.plus = t.plus /\ w.minus = t.minus
      /\ w.spared = t.spared /\ w.damage = t.damage + d
      /\ w.alive <=> t.alive /\ survives
  BY <1>1, <1>2 DEF Tok
<1>4. Toughness(w) = Toughness(t) /\ (Has(w, "indestructible") <=> Has(t, "indestructible"))
  BY <1>3 DEF Toughness, Has
<1>5. LethalIsDead(t) => LethalIsDead(w)
  BY <1>1, <1>3, <1>4, TokIs DEF LethalIsDead
<1> QED
  BY <1>3, <1>5 DEF w

\* What the attacker has left is a number, and so is what it assigns.
LEMMA AssignedType ==
  ASSUME NEW a \in Tok, NEW n \in Nat, NEW bs \in [1 .. n -> Tok]
  PROVE  /\ \A k \in 1 .. n + 1 : LeftFor(a, bs, k) \in Nat
         /\ \A k \in 1 .. n : Assigned(a, bs, k) \in Nat
<1>1. ASSUME NEW k \in 1 .. n PROVE Lethal(a, bs[k]) \in Nat
  BY <1>1, TokIs DEF Lethal, Tok
<1>2. ASSUME NEW k \in 1 .. n + 1 PROVE LeftFor(a, bs, k) \in Nat
  <2> DEFINE g == [j \in 1 .. k - 1 |-> IF bs[j].alive THEN Lethal(a, bs[j]) ELSE 0]
  <2>1. g \in [1 .. k - 1 -> Nat]
    <3>1. ASSUME NEW j \in 1 .. k - 1
          PROVE  (IF bs[j].alive THEN Lethal(a, bs[j]) ELSE 0) \in Nat
      <4>1. j \in 1 .. n
        OBVIOUS
      <4> QED
        BY <4>1, <1>1
    <3> QED
      BY <3>1
  <2>2. IsFiniteSet(1 .. k - 1)
    BY FS_Interval
  <2> HIDE DEF g
  <2>3. Total(g) \in Nat
    BY <2>1, <2>2, TotalType
  <2>4. LeftFor(a, bs, k) = IF Power(a) > Total(g) THEN Power(a) - Total(g) ELSE 0
    BY DEF LeftFor, g
  <2> QED
    BY <2>3, <2>4, TokIs
<1>3. ASSUME NEW k \in 1 .. n PROVE Assigned(a, bs, k) \in Nat
  <2>1. LeftFor(a, bs, k) \in Nat /\ Lethal(a, bs[k]) \in Nat
    BY <1>1, <1>2
  <2> QED
    BY <2>1 DEF Assigned
<1> QED
  BY <1>2, <1>3

\* A fight in progress, with n blockers.
Fray(n) == [a : Tok, bs : [1 .. n -> Tok], toPlayer : Nat, gainA : Nat, gainD : Nat]

\* Nobody in it is alive who should be dead.
Settled(c) == LethalIsDead(c.a) /\ \A k \in DOMAIN c.bs : LethalIsDead(c.bs[k])

\* A damage step settles what it does.
LEMMA FightKeeps ==
  ASSUME NEW n \in Nat, NEW c \in Fray(n), NEW step
  PROVE  Fight(c, step) \in Fray(n) /\ (Settled(c) => Settled(Fight(c, step)))
<1> DEFINE a == c.a
           bs == c.bs
           hits == a.alive /\ DealsIn(a, step)
           dealt == [k \in DOMAIN bs |-> IF hits THEN Assigned(a, bs, k) ELSE 0]
           through == IF ~hits \/ (bs # <<>> /\ ~Has(a, "trample")) THEN 0
                      ELSE LeftFor(a, bs, Len(bs) + 1)
           back == [k \in DOMAIN bs |->
                      IF a.alive /\ bs[k].alive /\ DealsIn(bs[k], step)
                      THEN Power(bs[k]) ELSE 0]
           venomous == {k \in DOMAIN bs : back[k] > 0 /\ Has(bs[k], "deathtouch")}
           links == [k \in DOMAIN bs |-> IF Has(bs[k], "lifelink") THEN back[k] ELSE 0]
           w == Wounded(a, Total(back), venomous # {})
           ws == [k \in DOMAIN bs |->
                    Wounded(bs[k], dealt[k], dealt[k] > 0 /\ Has(a, "deathtouch"))]
           gA == c.gainA + IF Has(a, "lifelink") THEN Total(dealt) + through ELSE 0
           gD == c.gainD + Total(links)
<1>1. /\ a \in Tok /\ bs \in [1 .. n -> Tok] /\ DOMAIN bs = 1 .. n
      /\ c.toPlayer \in Nat /\ c.gainA \in Nat /\ c.gainD \in Nat
  BY DEF Fray
<1>2. Len(bs) = n
  BY <1>1, IsASeq
<1>3. Fight(c, step) = [a |-> w, bs |-> ws, toPlayer |-> c.toPlayer + through,
                        gainA |-> gA, gainD |-> gD]
  BY Zenon DEF Fight
<1>4. IsFiniteSet(1 .. n)
  BY FS_Interval
<1>5. dealt \in [1 .. n -> Nat]
  BY <1>1, AssignedType
<1>6. back \in [1 .. n -> Nat]
  BY <1>1, TokIs
<1>7. through \in Nat
  <2>1. n + 1 \in 1 .. n + 1
    OBVIOUS
  <2>2. LeftFor(a, bs, n + 1) \in Nat
    BY <1>1, <2>1, AssignedType
  <2> HIDE DEF a, bs, hits
  <2> QED
    BY <1>2, <2>2
<1>8. links \in [1 .. n -> Nat]
  BY <1>1, <1>6
<1> HIDE DEF a, bs, dealt, back, through, links
<1>9. Total(dealt) \in Nat /\ Total(back) \in Nat /\ Total(links) \in Nat
  BY <1>4, <1>5, <1>6, <1>8, TotalType
<1>10. w \in Tok /\ (LethalIsDead(a) => LethalIsDead(w))
  BY <1>1, <1>9, WoundedKeeps
<1>11. ASSUME NEW k \in 1 .. n
       PROVE  ws[k] \in Tok /\ (LethalIsDead(bs[k]) => LethalIsDead(ws[k]))
  <2>1. bs[k] \in Tok /\ dealt[k] \in Nat
    BY <1>1, <1>5
  <2>2. (dealt[k] > 0 /\ Has(a, "deathtouch")) \in BOOLEAN
    OBVIOUS
  <2> QED
    BY <1>1, <2>1, <2>2, WoundedKeeps
<1>12. ws \in [1 .. n -> Tok] /\ DOMAIN ws = 1 .. n
  BY <1>1, <1>11
<1>13. c.toPlayer + through \in Nat /\ gA \in Nat /\ gD \in Nat
  BY <1>1, <1>7, <1>9
<1> HIDE DEF w, ws, gA, gD
<1>14. Fight(c, step) \in Fray(n)
  BY <1>3, <1>10, <1>12, <1>13 DEF Fray
<1>15. Settled(c) => Settled(Fight(c, step))
  <2>1. /\ Fight(c, step).a = w /\ Fight(c, step).bs = ws
        /\ c.a = a /\ c.bs = bs
    BY <1>3 DEF a, bs
  <2> QED
    BY <2>1, <1>1, <1>10, <1>11, <1>12 DEF Settled
<1> QED
  BY <1>14, <1>15

\* So does a whole fight.
LEMMA CombatKeeps ==
  ASSUME NEW a \in Tok, NEW n \in Nat, NEW bs \in [1 .. n -> Tok],
         LethalIsDead(a), \A k \in 1 .. n : LethalIsDead(bs[k])
  PROVE  Combat(a, bs) \in Fray(n) /\ Settled(Combat(a, bs))
<1> DEFINE c == [a |-> a, bs |-> bs, toPlayer |-> 0, gainA |-> 0, gainD |-> 0]
<1>1. c \in Fray(n) /\ Settled(c)
  BY DEF Fray, Settled
<1>2. Combat(a, bs) = Fight(Fight(c, "first"), "normal")
  BY DEF Combat
<1> HIDE DEF c
<1>3. Fight(c, "first") \in Fray(n) /\ Settled(Fight(c, "first"))
  BY <1>1, FightKeeps
<1> QED
  BY <1>2, <1>3, FightKeeps

----------------------------------------------------------------------------
(* The board of Momir. *)

\* A creature that is dead if it should be.
Sound == {t \in Tok : LethalIsDead(t)}

\* What the actions keep of the board.
MomirInv ==
  /\ lives \in [Seats -> Int]
  /\ out \in [Seats -> {"in", "life", "manual", "deck"}]
  /\ turn \in Nat
  /\ tokens \in [Seats -> Seq(Sound)]
  /\ attacks \subseteq [from : Seats, index : Nat, target : Seats]
  /\ \A x \in attacks : x.from # x.target /\ x.index \in DOMAIN tokens[x.from]

\* A sequence with one entry replaced.
LEMMA Replaced ==
  ASSUME NEW S, NEW q \in Seq(S), NEW i \in DOMAIN q, NEW e \in S
  PROVE  [q EXCEPT ![i] = e] \in Seq(S) /\ DOMAIN [q EXCEPT ![i] = e] = DOMAIN q
<1>1. i \in 1 .. Len(q)
  BY LenProperties
<1> QED
  BY <1>1, ExceptSeq

\* What is known of a creature of a seat.
LEMMA OfSeat ==
  ASSUME MomirInv, NEW s \in Seats, NEW i \in DOMAIN tokens[s]
  PROVE  /\ tokens[s] \in Seq(Sound) /\ tokens[s][i] \in Tok
         /\ tokens[s][i] \in Sound /\ LethalIsDead(tokens[s][i])
<1>1. tokens[s] \in Seq(Sound)
  BY DEF MomirInv
<1>2. tokens[s][i] \in Sound
  BY <1>1, LenProperties
<1> QED
  BY <1>1, <1>2 DEF Sound

\* While no life changes, no loss is left open.
LEMMA NoLoss ==
  ASSUME MomirInv, lives' = lives, NEW s \in Seats
  PROVE  out' = out => LossIsSettled(s)
BY DEF MomirInv, LossIsSettled

\* Looking at a seat again settles its loss, if no other seat has lost life.
LEMMA SettleKeeps ==
  ASSUME MomirInv, NEW s \in Seats, NEW l \in [Seats -> Int], Settle(s, l),
         \A r \in Seats \ {s} : l[r] >= lives[r]
  PROVE  /\ lives' \in [Seats -> Int]
         /\ out' \in [Seats -> {"in", "life", "manual", "deck"}]
         /\ \A r \in Seats : LossIsSettled(r)
<1>1. /\ lives \in [Seats -> Int] /\ out \in [Seats -> {"in", "life", "manual", "deck"}]
      /\ lives' = l /\ out' = [out EXCEPT ![s] = AfterCheck(out[s], l[s])]
  BY DEF MomirInv, Settle
<1>2. AfterCheck(out[s], l[s]) \in {"in", "life", "manual", "deck"}
  BY <1>1 DEF AfterCheck
<1>3. out'[s] = AfterCheck(out[s], l[s]) /\ \A r \in Seats \ {s} : out'[r] = out[r]
  BY <1>1
<1>4. LossIsSettled(s)
  BY <1>1, <1>3 DEF LossIsSettled, AfterCheck
<1>5. ASSUME NEW r \in Seats \ {s} PROVE LossIsSettled(r)
  BY <1>1, <1>3, <1>5 DEF LossIsSettled
<1> QED
  BY <1>1, <1>2, <1>4, <1>5

\* What every action shows.
BoardKept == MomirInv' /\ \A s \in Seats : LossIsSettled(s)

\* An action that leaves the creatures and the lives alone.
LEMMA CardsKeep ==
  ASSUME MomirInv, UNCHANGED <<seatVars, turnVars, tokens, attacks>>
  PROVE  BoardKept
BY NoLoss DEF MomirInv, BoardKept, seatVars, turnVars

\* A creature that becomes another sound one.
LEMMA BecomesKeeps ==
  ASSUME MomirInv, NEW s \in Seats, NEW i \in DOMAIN tokens[s], NEW t \in Sound,
         Becomes(s, i, t)
  PROVE  BoardKept
<1>1. /\ tokens' = [tokens EXCEPT ![s][i] = t]
      /\ lives' = lives /\ out' = out /\ turn' = turn /\ attacks' = attacks
  BY DEF Becomes, seatVars, turnVars
<1>2. /\ [tokens[s] EXCEPT ![i] = t] \in Seq(Sound)
      /\ DOMAIN [tokens[s] EXCEPT ![i] = t] = DOMAIN tokens[s]
  BY OfSeat, Replaced
<1>3. tokens \in [Seats -> Seq(Sound)]
  BY DEF MomirInv
<1>4. tokens' \in [Seats -> Seq(Sound)] /\ \A r \in Seats : DOMAIN tokens'[r] = DOMAIN tokens[r]
  BY <1>1, <1>2, <1>3
<1> QED
  BY <1>1, <1>4, NoLoss DEF MomirInv, BoardKept

\* The recheck leaves a sound creature of any.
LEMMA RecheckedIsSound ==
  ASSUME NEW t \in Tok
  PROVE  Rechecked(t) \in Sound
<1> DEFINE r == Rechecked(t)
<1>1. r = [t EXCEPT !.alive = t.alive /\ ~Dies(t)]
  BY DEF Rechecked, Tok
<1>2. /\ r \in Tok /\ r.card = t.card /\ r.damage = t.damage /\ r.plus = t.plus
      /\ r.minus = t.minus /\ r.spared = t.spared /\ (r.alive <=> t.alive /\ ~Dies(t))
  BY <1>1 DEF Tok
<1> HIDE DEF r
<1>3. Toughness(r) = Toughness(t) /\ (Has(r, "indestructible") <=> Has(t, "indestructible"))
  BY <1>2 DEF Toughness, Has
<1>4. Toughness(t) \in Int /\ t.damage \in Nat
  BY TokIs DEF Tok
<1>5. LethalIsDead(r)
  BY <1>2, <1>3, <1>4 DEF LethalIsDead, Dies
<1> QED
  BY <1>2, <1>5 DEF Sound, r

\* A summoned creature is untouched.
LEMMA ActivateKeeps ==
  ASSUME MomirInv, NEW s \in Seats, NEW c \in Creatures, Activate(s, c)
  PROVE  BoardKept
<1>1. /\ tokens' = [tokens EXCEPT ![s] = Append(tokens[s], Token(c))]
      /\ lives' = lives /\ out' = out /\ turn' = turn /\ attacks' = attacks
  BY DEF Activate, seatVars, turnVars
<1>2. tokens \in [Seats -> Seq(Sound)] /\ turn \in Nat
  BY DEF MomirInv
<1>3. Token(c) \in Sound
  <2>1. Token(c) \in Tok /\ Token(c).plus = 0 /\ Token(c).minus = 0 /\ Token(c).damage = 0
    BY <1>2 DEF Token, Tok
  <2>2. Toughness(Token(c)) \in Int
    BY <2>1, TokIs
  <2>3. LethalIsDead(Token(c))
    BY <2>1, <2>2 DEF LethalIsDead
  <2> QED
    BY <2>1, <2>3 DEF Sound
<1>4. /\ Append(tokens[s], Token(c)) \in Seq(Sound)
      /\ DOMAIN tokens[s] \subseteq DOMAIN Append(tokens[s], Token(c))
  <2>1. tokens[s] \in Seq(Sound)
    BY <1>2
  <2>2. /\ Append(tokens[s], Token(c)) \in Seq(Sound)
        /\ Len(Append(tokens[s], Token(c))) = Len(tokens[s]) + 1
    BY <1>3, <2>1, AppendProperties
  <2>3. /\ DOMAIN tokens[s] = 1 .. Len(tokens[s]) /\ Len(tokens[s]) \in Nat
        /\ DOMAIN Append(tokens[s], Token(c)) = 1 .. Len(tokens[s]) + 1
    BY <2>1, <2>2, LenProperties
  <2> QED
    BY <2>2, <2>3
<1>5. /\ tokens' \in [Seats -> Seq(Sound)]
      /\ \A r \in Seats : DOMAIN tokens[r] \subseteq DOMAIN tokens'[r]
  BY <1>1, <1>2, <1>4
<1> QED
  BY <1>1, <1>5, NoLoss DEF MomirInv, BoardKept

\* A creature killed by hand is dead.
LEMMA KillKeeps ==
  ASSUME MomirInv, NEW s \in Seats, NEW i, Kill(s, i)
  PROVE  BoardKept
<1> DEFINE t == [tokens[s][i] EXCEPT !.alive = FALSE]
<1>1. i \in DOMAIN tokens[s] /\ Becomes(s, i, t)
  BY DEF Kill
<1>2. t \in Tok /\ ~t.alive
  BY <1>1, OfSeat DEF Tok
<1> HIDE DEF t
<1>3. t \in Sound
  BY <1>2 DEF Sound, LethalIsDead
<1> QED
  BY <1>1, <1>3, BecomesKeeps

\* A creature revived by hand is spared.
LEMMA ReviveKeeps ==
  ASSUME MomirInv, NEW s \in Seats, NEW i, Revive(s, i)
  PROVE  BoardKept
<1> DEFINE u == tokens[s][i]
           t == [u EXCEPT !.alive = TRUE, !.spared = u.spared \/ ~u.alive]
<1>1. i \in DOMAIN tokens[s] /\ Becomes(s, i, t)
  BY DEF Revive
<1>2. u \in Tok /\ LethalIsDead(u)
  BY <1>1, OfSeat
<1> HIDE DEF u
<1>3. /\ t \in Tok /\ t.card = u.card /\ t.damage = u.damage /\ t.plus = u.plus
      /\ t.minus = u.minus /\ (t.spared <=> u.spared \/ ~u.alive)
  BY <1>2 DEF Tok
<1> HIDE DEF t
<1>4. LethalIsDead(t)
  BY <1>2, <1>3 DEF LethalIsDead, Toughness, Has
<1> QED
  BY <1>1, <1>3, <1>4, BecomesKeeps DEF Sound

\* Damage dealt to a creature is followed by the recheck.
LEMMA DamageTokenKeeps ==
  ASSUME MomirInv, NEW s \in Seats, NEW i, NEW n \in Nat, DamageToken(s, i, n)
  PROVE  BoardKept
<1> DEFINE u == tokens[s][i]
           t == [u EXCEPT !.damage = u.damage + n]
<1>1. i \in DOMAIN tokens[s]
  BY DEF DamageToken, Live
<1>2. u \in Tok
  BY <1>1, OfSeat
<1>3. Becomes(s, i, Rechecked(t))
  BY <1>2 DEF DamageToken, Tok
<1>4. t \in Tok
  BY <1>2 DEF Tok
<1> HIDE DEF t
<1> QED
  BY <1>1, <1>3, <1>4, RecheckedIsSound, BecomesKeeps

\* So are counters put on a creature or taken from it.
LEMMA CounterKeeps ==
  ASSUME MomirInv, NEW s \in Seats, NEW i, NEW kind \in {"plus", "minus"}, NEW d \in Int,
         Counter(s, i, kind, d)
  PROVE  BoardKept
<1> DEFINE u == tokens[s][i]
           new(n) == IF n + d > 0 THEN n + d ELSE 0
<1>1. i \in DOMAIN tokens[s]
  BY DEF Counter, Live
<1>2. u \in Tok /\ u.plus \in Nat /\ u.minus \in Nat
  BY <1>1, OfSeat DEF Tok
<1>3. PICK t \in Tok : Becomes(s, i, Rechecked(t))
  <2>1. CASE kind = "plus"
    <3>1. [u EXCEPT !.plus = new(u.plus)] \in Tok
      BY <1>2 DEF Tok
    <3>2. Becomes(s, i, Rechecked([u EXCEPT !.plus = new(u.plus)]))
      BY <1>2, <2>1 DEF Counter, Tok
    <3> QED
      BY <3>1, <3>2
  <2>2. CASE kind = "minus"
    <3>1. [u EXCEPT !.minus = new(u.minus)] \in Tok
      BY <1>2 DEF Tok
    <3>2. Becomes(s, i, Rechecked([u EXCEPT !.minus = new(u.minus)]))
      BY <1>2, <2>2 DEF Counter, Tok
    <3> QED
      BY <3>1, <3>2
  <2> QED
    BY <2>1, <2>2
<1> QED
  BY <1>1, <1>3, RecheckedIsSound, BecomesKeeps

\* Tapping and untapping change nothing the rules of death read.
LEMMA TappedIsSound ==
  ASSUME NEW t \in Sound, NEW b \in BOOLEAN
  PROVE  [t EXCEPT !.tapped = b] \in Sound
<1> DEFINE r == [t EXCEPT !.tapped = b]
<1>1. t \in Tok /\ LethalIsDead(t)
  BY DEF Sound
<1>2. /\ r \in Tok /\ r.card = t.card /\ r.damage = t.damage /\ r.plus = t.plus
      /\ r.minus = t.minus /\ r.spared = t.spared /\ r.alive = t.alive
  BY <1>1 DEF Tok
<1> HIDE DEF r
<1>3. LethalIsDead(r)
  BY <1>1, <1>2 DEF LethalIsDead, Toughness, Has
<1> QED
  BY <1>2, <1>3 DEF Sound, r

\* A creature tapped by hand.
LEMMA TapKeeps ==
  ASSUME MomirInv, NEW s \in Seats, NEW i, Tap(s, i)
  PROVE  BoardKept
<1> DEFINE u == tokens[s][i]
<1>1. i \in DOMAIN tokens[s]
  BY DEF Tap, Live
<1>2. u \in Sound /\ u \in Tok
  BY <1>1, OfSeat
<1>3. Becomes(s, i, [u EXCEPT !.tapped = ~u.tapped])
  BY <1>2 DEF Tap, Tok
<1>4. [u EXCEPT !.tapped = ~u.tapped] \in Sound
  BY <1>2, TappedIsSound
<1> HIDE DEF u
<1> QED
  BY <1>1, <1>3, <1>4, BecomesKeeps

\* An attack names a creature of its seat.
LEMMA AttackKeeps ==
  ASSUME MomirInv, NEW s \in Seats, NEW d \in Seats, NEW i, Attack(s, i, d)
  PROVE  BoardKept
<1> DEFINE u == tokens[s][i]
           t == [u EXCEPT !.tapped = ~Has(u, "vigilance")]
<1>1. i \in DOMAIN tokens[s] /\ s # d
  BY DEF Attack, Live
<1>2. u \in Sound /\ i \in Nat
  <2>1. DOMAIN tokens[s] = 1 .. Len(tokens[s]) /\ Len(tokens[s]) \in Nat
    BY <1>1, OfSeat, LenProperties
  <2> QED
    BY <1>1, <2>1, OfSeat
<1>3. /\ tokens' = [tokens EXCEPT ![s][i] = t]
      /\ attacks' = attacks \cup {[from |-> s, index |-> i, target |-> d]}
      /\ lives' = lives /\ out' = out /\ turn' = turn
  BY DEF Attack, seatVars, turnVars
<1>4. t \in Sound
  BY <1>2, TappedIsSound
<1> HIDE DEF t
<1>5. /\ [tokens[s] EXCEPT ![i] = t] \in Seq(Sound)
      /\ DOMAIN [tokens[s] EXCEPT ![i] = t] = DOMAIN tokens[s]
  BY <1>1, <1>4, OfSeat, Replaced
<1>6. tokens \in [Seats -> Seq(Sound)]
  BY DEF MomirInv
<1>7. tokens' \in [Seats -> Seq(Sound)] /\ \A r \in Seats : DOMAIN tokens'[r] = DOMAIN tokens[r]
  BY <1>3, <1>5, <1>6
<1>8. attacks' \subseteq [from : Seats, index : Nat, target : Seats]
  BY <1>2, <1>3 DEF MomirInv
<1>9. ASSUME NEW x \in attacks'
      PROVE  x.from # x.target /\ x.index \in DOMAIN tokens'[x.from]
  <2>1. CASE x \in attacks
    BY <1>7, <2>1 DEF MomirInv
  <2>2. CASE x = [from |-> s, index |-> i, target |-> d]
    BY <1>1, <1>7, <2>2
  <2> QED
    BY <1>3, <1>9, <2>1, <2>2
<1> QED
  BY <1>3, <1>7, <1>8, <1>9, NoLoss DEF MomirInv, BoardKept

\* An attack that is called off or fizzles leaves only the list.
LEMMA DismissKeeps ==
  ASSUME MomirInv, NEW x \in attacks, Dismiss(x)
  PROVE  BoardKept
<1>1. /\ x.target \in Seats /\ lives \in [Seats -> Int]
      /\ Settle(x.target, lives)
      /\ attacks' = attacks \ {x} /\ tokens' = tokens /\ turn' = turn
  BY DEF Dismiss, MomirInv, turnVars
<1>2. \A r \in Seats \ {x.target} : lives[r] >= lives[r]
  BY <1>1
<1>3. /\ lives' \in [Seats -> Int]
      /\ out' \in [Seats -> {"in", "life", "manual", "deck"}]
      /\ \A r \in Seats : LossIsSettled(r)
  BY <1>1, <1>2, SettleKeeps
<1> QED
  BY <1>1, <1>3 DEF MomirInv, BoardKept

\* A fight that is blocked: both sides are as the combat leaves them, and the seat whose
\* life falls is looked at again.
LEMMA ResolveKeeps ==
  ASSUME MomirInv, NEW x \in attacks, NEW bs \in Blocks(x.target), Resolve(x, bs)
  PROVE  BoardKept
<1> DEFINE s == x.from
           d == x.target
           a == tokens[s][x.index]
           blockers == [k \in DOMAIN bs |-> tokens[d][bs[k]]]
           c == Combat(a, blockers)
           at(i) == CHOOSE k \in DOMAIN bs : bs[k] = i
           q == [tokens[s] EXCEPT ![x.index] = c.a]
           p == [i \in DOMAIN tokens[d] |->
                   IF i \in Range(bs) THEN c.bs[at(i)] ELSE tokens[d][i]]
           l == [lives EXCEPT ![d] = lives[d] - c.toPlayer + c.gainD, ![s] = lives[s] + c.gainA]
<1>1. /\ s \in Seats /\ d \in Seats /\ s # d /\ x.index \in DOMAIN tokens[s]
      /\ tokens \in [Seats -> Seq(Sound)] /\ lives \in [Seats -> Int]
  BY DEF MomirInv
<1>2. PICK n \in Nat : bs \in [1 .. n -> DOMAIN tokens[d]]
  <2>1. tokens[d] \in Seq(Sound)
    BY <1>1
  <2>2. Len(tokens[d]) \in Nat
    BY <2>1, LenProperties
  <2> QED
    BY <2>2 DEF Blocks
<1>3. a \in Tok /\ LethalIsDead(a)
  BY <1>1, OfSeat
<1>4. ASSUME NEW i \in DOMAIN tokens[d] PROVE tokens[d][i] \in Tok /\ LethalIsDead(tokens[d][i])
  BY <1>1, OfSeat
<1>5. blockers \in [1 .. n -> Tok] /\ \A k \in 1 .. n : LethalIsDead(blockers[k])
  BY <1>2, <1>4
<1>6. /\ attacks' = attacks \ {x} /\ turn' = turn
      /\ tokens' = [tokens EXCEPT ![s] = q, ![d] = p]
      /\ Settle(d, l)
  BY <1>1, Zenon DEF Resolve, turnVars
<1> HIDE DEF a, blockers
<1>7. c \in Fray(n) /\ Settled(c)
  BY <1>3, <1>5, CombatKeeps
<1> HIDE DEF c
<1>8. /\ c.a \in Sound /\ DOMAIN c.bs = 1 .. n /\ (\A k \in 1 .. n : c.bs[k] \in Sound)
      /\ c.toPlayer \in Nat /\ c.gainA \in Nat /\ c.gainD \in Nat
  BY <1>7 DEF Fray, Settled, Sound
<1>9. q \in Seq(Sound) /\ DOMAIN q = DOMAIN tokens[s]
  BY <1>1, <1>8, Replaced
<1>10. p \in Seq(Sound) /\ DOMAIN p = DOMAIN tokens[d]
  <2>1. tokens[d] \in Seq(Sound)
    BY <1>1
  <2>2. DOMAIN tokens[d] = 1 .. Len(tokens[d]) /\ Len(tokens[d]) \in Nat
    BY <2>1, LenProperties
  <2>3. ASSUME NEW i \in DOMAIN tokens[d] PROVE p[i] \in Sound
    <3>1. CASE i \in Range(bs)
      <4>1. \E k \in DOMAIN bs : bs[k] = i
        BY <3>1 DEF Range
      <4>2. at(i) \in DOMAIN bs
        BY <4>1
      <4>3. at(i) \in 1 .. n
        BY <1>2, <4>2
      <4> HIDE DEF at
      <4>4. p[i] = c.bs[at(i)]
        BY <2>3, <3>1
      <4> QED
        BY <4>3, <4>4, <1>8
    <3>2. CASE i \notin Range(bs)
      BY <3>2, <1>4 DEF Sound
    <3> QED
      BY <3>1, <3>2
  <2>4. p \in [1 .. Len(tokens[d]) -> Sound]
    BY <2>2, <2>3
  <2> HIDE DEF p
  <2>5. p \in Seq(Sound)
    BY <2>2, <2>4, IsASeq
  <2> QED
    BY <2>2, <2>4, <2>5
<1> HIDE DEF p, q
<1>11. /\ tokens' \in [Seats -> Seq(Sound)]
       /\ \A r \in Seats : DOMAIN tokens'[r] = DOMAIN tokens[r]
  BY <1>1, <1>6, <1>9, <1>10
<1>12. l \in [Seats -> Int] /\ \A r \in Seats \ {d} : l[r] >= lives[r]
  BY <1>1, <1>8
<1> HIDE DEF l
<1>13. /\ lives' \in [Seats -> Int]
       /\ out' \in [Seats -> {"in", "life", "manual", "deck"}]
       /\ \A r \in Seats : LossIsSettled(r)
  BY <1>1, <1>6, <1>12, SettleKeeps
<1>14. /\ attacks' \subseteq [from : Seats, index : Nat, target : Seats]
       /\ \A y \in attacks' : y.from # y.target /\ y.index \in DOMAIN tokens'[y.from]
  BY <1>6, <1>11 DEF MomirInv
<1>15. turn' \in Nat
  BY <1>6 DEF MomirInv
<1> QED
  BY <1>11, <1>13, <1>14, <1>15 DEF MomirInv, BoardKept

\* A seat whose life changes is looked at again.
LEMMA LifeKeeps ==
  ASSUME MomirInv, NEW s \in Seats, NEW d \in Int, Life(s, d)
  PROVE  BoardKept
<1> DEFINE l == [lives EXCEPT ![s] = lives[s] + d]
<1>1. /\ lives \in [Seats -> Int] /\ Settle(s, l)
      /\ tokens' = tokens /\ attacks' = attacks /\ turn' = turn
  BY DEF Life, MomirInv, turnVars
<1>2. l \in [Seats -> Int] /\ \A r \in Seats \ {s} : l[r] >= lives[r]
  BY <1>1
<1> HIDE DEF l
<1>3. /\ lives' \in [Seats -> Int]
      /\ out' \in [Seats -> {"in", "life", "manual", "deck"}]
      /\ \A r \in Seats : LossIsSettled(r)
  BY <1>1, <1>2, SettleKeeps
<1> QED
  BY <1>1, <1>3 DEF MomirInv, BoardKept

\* An elimination by hand, or its undoing, moves no life.
LEMMA EliminateKeeps ==
  ASSUME MomirInv, NEW s \in Seats, NEW b \in BOOLEAN, Eliminate(s, b)
  PROVE  BoardKept
<1>1. /\ lives \in [Seats -> Int] /\ lives' = lives /\ turn' = turn
      /\ tokens' = tokens /\ attacks' = attacks
      /\ out' = [out EXCEPT ![s] = IF b THEN "manual" ELSE "in"]
  BY DEF Eliminate, MomirInv, turnVars
<1>2. \A r \in Seats : LossIsSettled(r)
  BY <1>1 DEF LossIsSettled
<1>3. out' \in [Seats -> {"in", "life", "manual", "deck"}]
  BY <1>1 DEF MomirInv
<1> QED
  BY <1>1, <1>2, <1>3 DEF MomirInv, BoardKept

\* The end of a turn heals, and leaves nobody alive who should be dead.
LEMMA RestedIsSound ==
  ASSUME NEW t \in Sound, NEW begins \in BOOLEAN
  PROVE  Rested(t, begins) \in Sound
<1>1. t \in Tok /\ LethalIsDead(t)
  BY DEF Sound
<1>2. PICK r : r = Rested(t, begins)
  OBVIOUS
<1>3. PICK tap \in BOOLEAN, sp \in BOOLEAN :
        /\ r = [t EXCEPT !.damage = 0, !.tapped = tap, !.spared = sp]
        /\ sp <=> t.spared /\ Toughness(t) <= 0
  <2> DEFINE tap == t.tapped /\ ~begins
             sp == t.spared /\ Toughness(t) <= 0
  <2>1. r = [t EXCEPT !.damage = 0, !.tapped = tap, !.spared = sp]
    BY <1>1, <1>2 DEF Rested, Tok
  <2>2. tap \in BOOLEAN /\ sp \in BOOLEAN
    OBVIOUS
  <2> QED
    BY <2>1, <2>2, Zenon
<1>4. /\ r \in Tok /\ r.card = t.card /\ r.damage = 0 /\ r.plus = t.plus
      /\ r.minus = t.minus /\ r.spared = sp /\ r.alive = t.alive
  <2>1. r = [t EXCEPT !.damage = 0, !.tapped = tap, !.spared = sp]
    BY <1>3
  <2> QED
    BY <1>1, <2>1 DEF Tok
<1>5. Toughness(r) = Toughness(t) /\ (Has(r, "indestructible") <=> Has(t, "indestructible"))
  BY <1>4 DEF Toughness, Has
<1>6. Toughness(t) \in Int /\ t.damage \in Nat
  BY <1>1, TokIs DEF Tok
<1>7. r.spared <=> t.spared /\ Toughness(t) <= 0
  BY <1>3, <1>4
<1>8. LethalIsDead(r)
  BY <1>1, <1>4, <1>5, <1>6, <1>7 DEF LethalIsDead
<1> QED
  BY <1>2, <1>4, <1>8 DEF Sound

\* The turn passes.
LEMMA TurnKeeps ==
  ASSUME MomirInv, Turn
  PROVE  BoardKept
<1> DEFINE next == {j \in Seats : out[j] = "in" /\
                      \A k \in Seats : out[k] = "in" => Steps(current, j) <= Steps(current, k)}
           draws(j) == j \in next /\ ~physical
<1>1. tokens' = [s \in Seats |-> [i \in DOMAIN tokens[s] |-> Rested(tokens[s][i], s \in next)]]
  BY DEF Turn
<1>2. out' = [s \in Seats |-> IF draws(s) /\ res[s].library = 0 THEN "deck" ELSE out[s]]
  BY DEF Turn
<1>3. IF next = {} THEN UNCHANGED turnVars
      ELSE \E j \in next : current' = j /\ turn' = IF j <= current THEN turn + 1 ELSE turn
  BY DEF Turn
<1>4. lives' = lives /\ attacks' = {}
  BY DEF Turn
<1> HIDE DEF next
<1>5. turn' \in Nat
  BY <1>3 DEF MomirInv, turnVars
<1>6. out' \in [Seats -> {"in", "life", "manual", "deck"}]
  BY <1>2 DEF MomirInv
<1>7. tokens' \in [Seats -> Seq(Sound)]
  <2>1. ASSUME NEW s \in Seats
        PROVE  [i \in DOMAIN tokens[s] |-> Rested(tokens[s][i], s \in next)] \in Seq(Sound)
    <3>1. tokens[s] \in Seq(Sound)
      BY DEF MomirInv
    <3>2. DOMAIN tokens[s] = 1 .. Len(tokens[s]) /\ Len(tokens[s]) \in Nat
      BY <3>1, LenProperties
    <3>3. ASSUME NEW i \in DOMAIN tokens[s] PROVE Rested(tokens[s][i], s \in next) \in Sound
      <4>1. tokens[s][i] \in Sound /\ (s \in next) \in BOOLEAN
        BY OfSeat
      <4> QED
        BY <4>1, RestedIsSound
    <3> QED
      BY <3>2, <3>3, IsASeq
  <2> QED
    BY <1>1, <2>1
<1>8. \A s \in Seats : LossIsSettled(s)
  BY <1>4 DEF LossIsSettled, MomirInv
<1> QED
  BY <1>4, <1>5, <1>6, <1>7, <1>8 DEF MomirInv, BoardKept

\* So does every action on the board.
LEMMA BoardStep == MomirInv /\ [NextMomir]_<<vars, momirVars>> => BoardKept
<1> SUFFICES ASSUME MomirInv, [NextMomir]_<<vars, momirVars>> PROVE BoardKept
  OBVIOUS
<1>1. CASE Board
  <2> USE <1>1
  <2>1. CASE \E s \in Seats, c \in Creatures : Activate(s, c)
    BY <2>1, ActivateKeeps
  <2>2. CASE \/ \E s \in Seats : PlayLand(s)
             \/ \E s \in Seats, count \in {"library", "hand", "lands", "untapped"}, n \in Counts :
                  Adjust(s, count, n)
    <3>1. UNCHANGED <<seatVars, turnVars, tokens, attacks>>
      BY <2>2, Zenon DEF PlayLand, Adjust
    <3> QED
      BY <3>1, CardsKeep
  <2>3. CASE \E s \in Seats, i \in 1 .. MaxTokens : Kill(s, i) \/ Revive(s, i) \/ Tap(s, i)
    BY <2>3, KillKeeps, ReviveKeeps, TapKeeps
  <2>4. CASE \E s \in Seats, i \in 1 .. MaxTokens, n \in Amounts : DamageToken(s, i, n)
    <3>1. Amounts \subseteq Nat
      BY MomirAssumption DEF MomirAssumption
    <3> QED
      BY <2>4, <3>1, DamageTokenKeeps
  <2>5. CASE \E s \in Seats, i \in 1 .. MaxTokens, kind \in {"plus", "minus"}, d \in Deltas :
               Counter(s, i, kind, d)
    <3>1. Deltas \subseteq Int
      BY MomirAssumption DEF MomirAssumption
    <3> QED
      BY <2>5, <3>1, CounterKeeps
  <2>6. CASE \E s, d \in Seats, i \in 1 .. MaxTokens : Attack(s, i, d)
    BY <2>6, AttackKeeps
  <2>7. CASE \E x \in attacks : Dismiss(x)
    BY <2>7, DismissKeeps
  <2>8. CASE \E x \in attacks : \E bs \in Blocks(x.target) : Resolve(x, bs)
    BY <2>8, ResolveKeeps
  <2>9. CASE \E s \in Seats, d \in Deltas : Life(s, d)
    <3>1. Deltas \subseteq Int
      BY MomirAssumption DEF MomirAssumption
    <3> QED
      BY <2>9, <3>1, LifeKeeps
  <2>10. CASE \E s \in Seats, b \in BOOLEAN : Eliminate(s, b)
    BY <2>10, EliminateKeeps
  <2>11. CASE Turn
    BY <2>11, TurnKeeps
  <2> QED
    BY <2>1, <2>2, <2>3, <2>4, <2>5, <2>6, <2>7, <2>8, <2>9, <2>10, <2>11 DEF Board
<1>2. CASE UNCHANGED momirVars
  BY <1>2, CardsKeep DEF momirVars
<1> QED
  BY <1>1, <1>2 DEF NextMomir

\* At the start the table has no creature.
LEMMA BoardInit == InitMomir => MomirInv
<1> SUFFICES ASSUME InitMomir PROVE MomirInv
  OBVIOUS
<1>1. PICK onPaper \in BOOLEAN : InitBoard(onPaper)
  BY DEF InitMomir
<1>2. /\ lives = [s \in Seats |-> StartingLife] /\ turn = 1 /\ attacks = {}
      /\ tokens = [s \in Seats |-> <<>>]
      /\ out = [s \in Seats |-> IF s = 0 /\ ~onPaper /\ StartLibrary = 0 THEN "deck" ELSE "in"]
  BY <1>1, Zenon DEF InitBoard
<1>3. <<>> \in Seq(Sound) /\ StartingLife \in Int
  BY MomirAssumption DEF MomirAssumption
<1> QED
  BY <1>2, <1>3 DEF MomirInv

\* Whatever order taps, fights, counters, turns and corrections come in: a creature that
\* has taken lethal damage is dead, a seat whose life falls to nothing is out, and one
\* that is out by its library or by hand stays out (_token_dies, _run_combat,
\* _auto_eliminate, _deck_out).
THEOREM WhatHasLostIsOut == SpecMomir => StateBasedActions
<1> DEFINE Step == /\ \A s \in Seats : LossIsSettled(s)
                   /\ \A s \in Seats : \A i \in DOMAIN tokens'[s] : LethalIsDead(tokens'[s][i])
<1>1. MomirInv /\ [NextMomir]_<<vars, momirVars>> => MomirInv' /\ Step
  <2> SUFFICES ASSUME MomirInv, [NextMomir]_<<vars, momirVars>> PROVE MomirInv' /\ Step
    OBVIOUS
  <2>1. MomirInv' /\ \A s \in Seats : LossIsSettled(s)
    BY BoardStep DEF BoardKept
  <2>2. ASSUME NEW s \in Seats, NEW i \in DOMAIN tokens'[s] PROVE LethalIsDead(tokens'[s][i])
    <3>1. tokens'[s] \in Seq(Sound)
      BY <2>1 DEF MomirInv
    <3>2. tokens'[s][i] \in Sound
      BY <3>1, LenProperties
    <3> QED
      BY <3>2 DEF Sound
  <2> QED
    BY <2>1, <2>2
<1>2. MomirInv /\ [NextMomir]_<<vars, momirVars>> => MomirInv' /\ [Step]_<<vars, momirVars>>
  BY <1>1
<1> HIDE DEF Step
<1>3. SpecMomir => [][Step]_<<vars, momirVars>>
  BY <1>2, BoardInit, PTL DEF SpecMomir
<1> QED
  BY <1>3 DEF StateBasedActions, Step

=============================================================================
