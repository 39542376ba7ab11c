----------------------------- MODULE Inventory -----------------------------
(***************************************************************************)
(* The inventory table of one user (InventoryRow in app/models.py) and the *)
(* ways its rows are counted, merged, drained and deleted by the services  *)
(* that share it (app/inventory_service.py, app/deck_service.py,           *)
(* app/import_service.py).                                                 *)
(*                                                                         *)
(* The rows are those of one card in several printings; a finish counts as *)
(* a printing, and language, tags, roles, notes and slots are left out.    *)
(* Identifiers are never reused within a transaction, and a reference to a *)
(* deleted row is dropped when it commits (see Stock), so a free           *)
(* identifier stands for a new one.                                        *)
(***************************************************************************)
EXTENDS Integers

CONSTANTS
  Printings,   \* the printings (and finishes) of the card
  MaxRows,     \* bound: rows that exist at a time
  NoRow        \* no row with this identifier

Ids == 1 .. MaxRows

\* is_proxy is kind # "real".  That a proxy stands for a card of a brew deck
\* that nobody owns ("placeholder") is not stored: the code infers it from where
\* the row is.
Kinds == {"real", "proxy", "placeholder"}

\* Where a row is: without a location and pending; given a drawer by the sorter
\* and still pending; placed in the box; in the deck's list; in its Considering
\* area.
Spots == {"pending", "assigned", "box", "deck", "considering"}

DeckSpots == {"deck", "considering"}

Row == [card : Printings, at : Spots, kind : Kinds, qty : Nat \ {0}]

Tables == [Ids -> Row \cup {NoRow}]

ASSUME InventoryAssumption ==
  /\ MaxRows \in Nat
  /\ NoRow \notin Row

\* The rows of table T that satisfy the conditions of a query.
Rows(T) == {i \in Ids : T[i] # NoRow}
IsProxy(r) == r.kind # "real"
Loose(r) == r.at \notin DeckSpots
LooseReal(T) == {i \in Rows(T) : Loose(T[i]) /\ ~IsProxy(T[i])}
DeckProxies(T) == {i \in Rows(T) : T[i].at = "deck" /\ IsProxy(T[i])}

----------------------------------------------------------------------------
(* Counting *)

\* g[1] + ... + g[n]
Total(n, g) ==
  LET upTo[k \in 0 .. n] == IF k = 0 THEN 0 ELSE upTo[k - 1] + g[k]
  IN  upTo[n]

\* The copies of the rows in S.
Quantity(T, S) == Total(MaxRows, [i \in Ids |-> IF i \in S THEN T[i].qty ELSE 0])

\* The real copies of printing p, wherever they are.
RealRows(T, p) == {i \in Rows(T) : T[i].card = p /\ T[i].kind = "real"}
Copies(T, p) == Quantity(T, RealRows(T, p))

----------------------------------------------------------------------------
(* Changing the table *)

Lower(a, b) == IF a <= b THEN a ELSE b

\* Variant: a row without copies stays.
Reduced(r, k) == [r EXCEPT !.qty = @ - k]

\* Row i without k of its copies, and without the row when none is left.
Less(r, k) == IF r.qty = k THEN NoRow ELSE [r EXCEPT !.qty = @ - k]

\* take[i] copies taken out of every row i.
Drained(T, take) ==
  [i \in Ids |-> IF take[i] = 0 THEN T[i] ELSE Less(T[i], take[i])]

\* The ways to take k copies out of the rows in S, of two rows the one with the
\* lower rank first.
Drains(T, S, k, rank) ==
  {[i \in Ids |-> IF i \in S THEN t[i] ELSE 0] :
     t \in {u \in [S -> 0 .. k] :
             /\ \A i \in S : u[i] <= T[i].qty
             /\ Total(MaxRows, [i \in Ids |-> IF i \in S THEN u[i] ELSE 0]) = k
             /\ \A i, j \in S :
                  rank[i] < rank[j] /\ u[j] > 0 => u[i] = T[i].qty}}

TakeFrom(i, k) == [j \in Ids |-> IF j = i THEN k ELSE 0]

\* The merge key: printing, proxy or not, and place.
Mergeable(a, b) == a.card = b.card /\ IsProxy(a) = IsProxy(b) /\ a.at = b.at

Matches(T, r) == {i \in Rows(T) : Mergeable(T[i], r)}

\* The next identifier: not used by T, nor one of those in B, in use when the
\* transaction started.
Fresh(B, T) ==
  {i \in Ids \ (B \cup Rows(T)) : \A j \in Ids \ (B \cup Rows(T)) : i <= j}

Insertions(B, T, r) == {[j \in Ids |-> IF j = i THEN r ELSE T[j]] : i \in Fresh(B, T)}

\* The copies of r added to a row with its merge key, if there is one, and as a
\* new row otherwise.
Deposits(B, T, r) ==
  IF Matches(T, r) = {}
  THEN Insertions(B, T, r)
  ELSE {[T EXCEPT ![i].qty = @ + r.qty] : i \in Matches(T, r)}

\* Row i put at `at', merged into the row it finds there.
Moves(T, i, at) ==
  LET r == [T[i] EXCEPT !.at = at]
      M == Matches(T, r) \ {i}
  IN  IF M = {}
      THEN {[T EXCEPT ![i] = r]}
      ELSE {[T EXCEPT ![j].qty = @ + r.qty, ![i] = NoRow] : j \in M}

=============================================================================
