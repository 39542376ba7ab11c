------------------------------- MODULE Stock -------------------------------
(***************************************************************************)
(* The cards of one user and one deck (app/inventory_service.py,           *)
(* app/deck_service.py, app/import_service.py): acquiring, moving,         *)
(* splitting and removing rows, importing and undoing an import, building  *)
(* the deck from the collection, a brew deck whose placeholders are        *)
(* claimed as cards arrive, its Considering area, and disbanding it.       *)
(*                                                                         *)
(* Every operation is one database transaction and one action here;        *)
(* requests that overlap on a row are in Claims.  The deck's Considering   *)
(* location is created on first use in the code and there from the start   *)
(* here.  Showcases, trades and shares of a row are left out: Trade has    *)
(* what the deletion of a row does to them.                                *)
(***************************************************************************)
EXTENDS Inventory, Sequences

CONSTANTS
  MaxCopies,   \* bound: copies that exist at a time
  MaxImports   \* bound: import lines logged

VARIABLES
  rows,     \* the InventoryRow table
  deck,     \* "none" (never created, or retired), "plain" or "brew" (is_brew)
  log,      \* the TransactionLog entries of type "import", in order
  owned     \* history: copies acquired less copies disposed of, apart from the
            \* imports that have not been undone

vars == <<rows, deck, log, owned>>

Entry == [row : Ids \cup {0}, card : Printings, real : BOOLEAN,
          qty : Nat \ {0}, batch : Nat, reversed : BOOLEAN]

ASSUME StockAssumption ==
  /\ MaxCopies \in Nat
  /\ MaxImports \in Nat

Init ==
  /\ rows = [i \in Ids |-> NoRow]
  /\ deck = "none"
  /\ log = <<>>
  /\ owned = [p \in Printings |-> 0]

\* Where the forms can send a card: every location but a Considering area
\* (list_locations).
Spot == {"box"} \cup IF deck = "none" THEN {} ELSE {"deck"}

\* A proxy that comes to a brew deck is one of its placeholders from then on.
Arriving(kind, at) ==
  IF kind = "proxy" /\ at \in DeckSpots /\ deck = "brew" THEN "placeholder" ELSE kind

NewRow(p, at, kind, k) ==
  [card |-> p, at |-> at, kind |-> Arriving(kind, at), qty |-> k]

\* The transaction commits table U.  References to the rows it deleted go, as do
\* those of reversed entries, which are not read again.
Commit(U, L) ==
  /\ rows' = U
  /\ log' = [e \in DOMAIN L |->
               IF L[e].row \in Rows(U) /\ ~L[e].reversed THEN L[e] ELSE [L[e] EXCEPT !.row = 0]]

Change(U) == Commit(U, log)

Room(k) == Quantity(rows, Rows(rows)) + k <= MaxCopies

Gains(f) == owned' = [p \in Printings |-> owned[p] + f[p]]

Gain(p, k) == Gains([o \in Printings |-> IF o = p THEN k ELSE 0])

\* What k copies of row r count for: nothing when it is a proxy.
Worth(r, k) == IF IsProxy(r) THEN 0 ELSE k

----------------------------------------------------------------------------
(* The collection *)

\* add_card_to_location
AddCard(p, at, kind, k) ==
  /\ at \in Spot
  /\ Room(k)
  /\ LET r == NewRow(p, at, kind, k) IN
       /\ \E U \in Deposits(Rows(rows), rows, r) : Change(U)
       /\ Gain(p, Worth(r, k))
  /\ UNCHANGED deck

\* Variant: only the deck's own list counts, not its Considering area.
BrewListPlaceholder(r) == IsProxy(r) /\ r.at = "deck" /\ deck = "brew"

\* is_brew_placeholder_row
BrewPlaceholder(r) == IsProxy(r) /\ r.at \in DeckSpots /\ deck = "brew"

\* move_inventory_row_to_location
MoveRow(i, at) ==
  /\ i \in Rows(rows)
  /\ at \in Spot
  /\ ~BrewPlaceholder(rows[i])
  /\ \E U \in Moves([rows EXCEPT ![i].kind = Arriving(@, at)], i, at) : Change(U)
  /\ UNCHANGED <<deck, owned>>

\* All but one of the copies of row i put into the box, another than its own.
Surplus(B, T, i) ==
  LET k == T[i].qty - 1
      r == [T[i] EXCEPT !.at = "box", !.qty = k]
      U == Drained(T, TakeFrom(i, k))
  IN  IF Matches(T, r) \ {i} = {} THEN Insertions(B, U, r)
      ELSE {[U EXCEPT ![j].qty = @ + k] : j \in Matches(T, r) \ {i}}

\* move_surplus_to_location, for a row of a drawer (the cull of the drawers).
MoveSurplus(i) ==
  /\ i \in Rows(rows)
  /\ rows[i].at = "box"
  /\ rows[i].qty > 1
  /\ \E U \in Surplus(Rows(rows), rows, i) : Change(U)
  /\ UNCHANGED <<deck, owned>>

\* confirm_pending_row, to where the row was assigned or to a location picked on the
\* page: no merge.
ConfirmPending(i, at) ==
  /\ i \in Rows(rows)
  /\ at \in Spot
  /\ rows[i].at \in {"pending", "assigned"}
  /\ LET r == [rows[i] EXCEPT !.at = at, !.kind = Arriving(@, at)]
     IN  Change([rows EXCEPT ![i] = r])
  /\ UNCHANGED <<deck, owned>>

\* confirm_all_pending: the rows that know where they go.
ConfirmAll ==
  /\ \E i \in Rows(rows) : rows[i].at = "assigned"
  /\ Change([i \in Ids |->
               IF i \in Rows(rows) /\ rows[i].at = "assigned"
               THEN [rows[i] EXCEPT !.at = "box"] ELSE rows[i]])
  /\ UNCHANGED <<deck, owned>>

\* resort_collection: pending rows are given a drawer, and the placed rows in S
\* another one (a deck is not offered as the target of a rule).  A user without drawers
\* and rules has no sorter.
Resorts(T) ==
  {T} \cup
  {[i \in Ids |-> IF i \in Rows(T) /\ (T[i].at = "pending" \/ i \in S)
                  THEN [T[i] EXCEPT !.at = "assigned"] ELSE T[i]] :
     S \in SUBSET {i \in Rows(T) : T[i].at = "box"}}

Resort ==
  /\ \E U \in Resorts(rows) \ {rows} : Change(U)
  /\ UNCHANGED <<deck, owned>>

\* adjust_inventory_row_quantity, and delete_inventory_row for all the copies.
AdjustQuantity(i, k) ==
  /\ i \in Rows(rows)
  /\ k <= rows[i].qty
  /\ Change(Drained(rows, TakeFrom(i, k)))
  /\ Gain(rows[i].card, 0 - Worth(rows[i], k))
  /\ UNCHANGED deck

\* bulk_delete_inventory_rows
BulkDelete(S) ==
  /\ S \subseteq Rows(rows)
  /\ S # {}
  /\ Change([i \in Ids |-> IF i \in S THEN NoRow ELSE rows[i]])
  /\ Gains([p \in Printings |-> 0 - Quantity(rows, S \cap RealRows(rows, p))])
  /\ UNCHANGED deck

\* split_inventory_row
SplitRow(i, k) ==
  /\ i \in Rows(rows)
  /\ k < rows[i].qty
  /\ \E U \in Insertions(Rows(rows), Drained(rows, TakeFrom(i, k)),
                         [rows[i] EXCEPT !.qty = k]) : Change(U)
  /\ UNCHANGED <<deck, owned>>

\* repoint_inventory_row_printing and correct_inventory_row_finish: the same
\* cardboard, recorded as what it is; no merge.
Repoint(i, p) ==
  /\ i \in Rows(rows)
  /\ p # rows[i].card
  /\ Change([rows EXCEPT ![i].card = p])
  /\ LET k == Worth(rows[i], rows[i].qty) IN
     Gains([o \in Printings |-> IF o = p THEN k ELSE IF o = rows[i].card THEN 0 - k ELSE 0])
  /\ UNCHANGED deck

----------------------------------------------------------------------------
(* The deck *)

\* create_deck
CreateDeck(kind) ==
  /\ deck = "none"
  /\ deck' = kind
  /\ UNCHANGED <<rows, log, owned>>

\* The deck's proxies are those of one kind from now on.
Relabelled(T, from, to) ==
  [i \in Ids |-> IF i \in Rows(T) /\ T[i].at \in DeckSpots /\ T[i].kind = from
                 THEN [T[i] EXCEPT !.kind = to] ELSE T[i]]

\* update_deck: the form always sets is_brew, and with it what the deck's proxies
\* stand for.
EditDeck ==
  /\ deck # "none"
  /\ IF deck = "brew"
     THEN deck' = "plain" /\ rows' = Relabelled(rows, "placeholder", "proxy")
     ELSE deck' = "brew" /\ rows' = Relabelled(rows, "proxy", "placeholder")
  /\ UNCHANGED <<log, owned>>

\* Variant: the real cards are forgotten there.
DisbandedProxies(r) == IF IsProxy(r) THEN NoRow ELSE r

\* A row of the Considering area when it is emptied (_disband_considering_rows).
Disbanded(r) ==
  IF IsProxy(r) /\ deck = "brew" THEN NoRow ELSE [r EXCEPT !.at = "pending"]

\* delete_deck: proxies of the list are discarded, real cards go back.  The
\* route sorts the collection afterwards.
DeleteDeck ==
  /\ deck # "none"
  /\ LET T == [i \in Ids |->
                 IF i \notin Rows(rows) THEN NoRow
                 ELSE IF rows[i].at = "considering" THEN Disbanded(rows[i])
                 ELSE IF rows[i].at # "deck" THEN rows[i]
                 ELSE IF IsProxy(rows[i]) THEN NoRow
                 ELSE [rows[i] EXCEPT !.at = "pending"]]
     IN  \E U \in Resorts(T) : Change(U)
  /\ deck' = "none"
  /\ UNCHANGED owned

\* _RECONCILE_TIER_PRIORITY: a row with a location comes before a pending one.
Tier(T) == [i \in Ids |-> IF i \in Rows(T) /\ T[i].at = "pending" THEN 1 ELSE 0]

\* The placeholder of the very printing comes first.
Closest(T, p) == [i \in Ids |-> IF i \in Rows(T) /\ T[i].card = p THEN 0 ELSE 1]

\* Variant: only the placeholder of the very printing is consumed.
SamePrinting(T, p) == {i \in DeckProxies(T) : T[i].card = p}

\* The proxies a real copy of printing p replaces in the deck's list.
Replaceable(T, p) == DeckProxies(T)

\* k proxies of the list, or all of them if there are fewer, give way.
Replaced(T, p, k) ==
  LET S == Replaceable(T, p) IN
  {Drained(T, take) : take \in Drains(T, S, Lower(k, Quantity(T, S)), Closest(T, p))}

\* pull_card_to_deck: k copies of the loose row i.
Pulls(T, i, k) ==
  LET p == T[i].card
      Put == Deposits(Rows(rows), Drained(T, TakeFrom(i, k)), NewRow(p, "deck", T[i].kind, k))
  IN  IF IsProxy(T[i]) THEN Put ELSE UNION {Replaced(U, p, k) : U \in Put}

PullCard(i, k) ==
  /\ deck # "none"
  /\ i \in Rows(rows)
  /\ Loose(rows[i])
  /\ k <= rows[i].qty
  /\ \E U \in Pulls(rows, i, k) : Change(U)
  /\ UNCHANGED <<deck, owned>>

\* return_card_from_deck, with the sort the route ends with.
ReturnCard(i) ==
  /\ i \in Rows(rows)
  /\ rows[i].at = "deck"
  /\ LET T == [rows EXCEPT ![i] = NoRow]
         Back == IF IsProxy(rows[i]) /\ deck = "brew" THEN {T}
                 ELSE Deposits(Rows(rows), T, [rows[i] EXCEPT !.at = "pending"])
     IN  \E U \in UNION {Resorts(V) : V \in Back} : Change(U)
  /\ UNCHANGED <<deck, owned>>

\* The copies of printing p among the copies taken: real ones.
Taken(take, p) ==
  Total(MaxRows, [i \in Ids |-> IF i \in RealRows(rows, p) THEN take[i] ELSE 0])

\* switch_deck_row_printing: loose copies of printing p come in for the copies of
\* a real row of the list, which go back as pending.  Proxies among them count as
\* copies from then on: `owned' says so.
SwitchPrinting(i, p) ==
  /\ i \in Rows(rows)
  /\ rows[i].at = "deck"
  /\ ~IsProxy(rows[i])
  /\ p # rows[i].card
  /\ LET q == rows[i].qty
         S == {j \in Rows(rows) : Loose(rows[j]) /\ rows[j].card = p}
         M == {j \in RealRows(rows, p) : rows[j].at = "deck"}
     IN  /\ q <= Quantity(rows, S)
         /\ \E take \in Drains(rows, S, q, Tier(rows)) :
              /\ \E T \in Deposits(Rows(rows), Drained(rows, take), [rows[i] EXCEPT !.at = "pending"]) :
                 \E U \in IF M = {} THEN {[T EXCEPT ![i].card = p]}
                          ELSE {[T EXCEPT ![j].qty = @ + q, ![i] = NoRow] : j \in M} :
                   Change(U)
              /\ Gain(p, q - Taken(take, p))
  /\ UNCHANGED deck

\* set_deck_row_quantity: copies appear or go as the user says (basic lands).
SetQuantity(i, k) ==
  /\ i \in Rows(rows)
  /\ rows[i].at = "deck"
  /\ k <= rows[i].qty \/ Room(k - rows[i].qty)
  /\ Change([rows EXCEPT ![i] = IF k = 0 THEN NoRow ELSE [@ EXCEPT !.qty = k]])
  /\ Gain(rows[i].card, Worth(rows[i], k - rows[i].qty))
  /\ UNCHANGED deck

----------------------------------------------------------------------------
(* Claiming cards for a brew deck *)

\* The rows of the list that may receive them.
Listed(p) == {i \in RealRows(rows, p) : rows[i].at = "deck"}

\* The row each printing claimed lands on: one that is there, or the next new one.
Landings(take) ==
  {to \in [Printings -> Ids] :
     \A p \in Printings : Taken(take, p) > 0 =>
       IF Listed(p) # {} THEN to[p] \in Listed(p)
       ELSE /\ to[p] \notin Rows(rows)
            /\ \A i \in Ids \ Rows(rows) :
                 i < to[p] => \E o \in Printings : Taken(take, o) > 0 /\ to[o] = i
            /\ \A o \in Printings : Taken(take, o) > 0 /\ to[o] = to[p] => o = p}

\* _claim_brew_row, for every row claimed from: the copies in `take' are added to
\* the list and the placeholders in `drop' go.
Claimed(take, drop, to) ==
  [i \in Ids |->
     IF take[i] > 0 THEN Less(rows[i], take[i])
     ELSE IF drop[i] > 0 THEN Less(rows[i], drop[i])
     ELSE IF \E p \in Printings : Taken(take, p) > 0 /\ to[p] = i
     THEN LET p == CHOOSE o \in Printings : Taken(take, o) > 0 /\ to[o] = i IN
          IF i \in Rows(rows) THEN [rows[i] EXCEPT !.qty = @ + Taken(take, p)]
          ELSE [card |-> p, at |-> "deck", kind |-> "real", qty |-> Taken(take, p)]
     ELSE rows[i]]

\* _finish_brew_claim: a deck without proxies in its list is no brew, whatever
\* its Considering area holds.
FinishClaim(U) ==
  IF DeckProxies(U) = {}
  THEN deck' = "plain" /\ Change(Relabelled(U, "placeholder", "proxy"))
  ELSE UNCHANGED deck /\ Change(U)

\* materialize_brew: as many placeholders as there are loose real copies.  Which
\* of several copies are preferred is left open.
MaterializeBrew ==
  /\ deck = "brew"
  /\ LET n == Lower(Quantity(rows, LooseReal(rows)), Quantity(rows, DeckProxies(rows)))
         any == [i \in Ids |-> 0]
     IN  \E take \in Drains(rows, LooseReal(rows), n, any) :
         \E drop \in Drains(rows, DeckProxies(rows), n, any) :
         \E to \in Landings(take) : FinishClaim(Claimed(take, drop, to))
  /\ UNCHANGED owned

\* confirm_deck_assembly, for an instruction of the page that still holds
\* (build_deck_assembly): k copies of row j take the place of placeholders of row
\* i.  Claims has what becomes of one that does not.
ConfirmAssembly(i, j, k) ==
  /\ deck = "brew"
  /\ i \in DeckProxies(rows)
  /\ j \in LooseReal(rows)
  /\ k <= Lower(rows[i].qty, rows[j].qty)
  /\ \E to \in Landings(TakeFrom(j, k)) :
       FinishClaim(Claimed(TakeFrom(j, k), TakeFrom(i, k), to))
  /\ UNCHANGED owned

----------------------------------------------------------------------------
(* The Considering area *)

\* U with k copies of a kind put into the Considering area, if there are any.
Considered(U, p, kind, k) ==
  IF k = 0 THEN {U} ELSE Deposits(Rows(rows), U, NewRow(p, "considering", kind, k))

\* add_card_to_considering: owned loose copies first, and placeholders for the
\* rest on a brew.
AddToConsidering(p, k) ==
  /\ deck # "none"
  /\ LET S == {i \in LooseReal(rows) : rows[i].card = p}
         n == Lower(k, Quantity(rows, S))
         rest == IF deck = "brew" THEN k - n ELSE 0
     IN  /\ n > 0 \/ rest > 0
         /\ Room(rest)
         /\ \E take \in Drains(rows, S, n, Tier(rows)) :
            \E T \in Considered(Drained(rows, take), p, "real", n) :
            \E U \in Considered(T, p, "proxy", rest) : Change(U)
  /\ UNCHANGED <<deck, owned>>

\* promote_from_considering and demote_to_considering
Promote(i) ==
  /\ i \in Rows(rows)
  /\ rows[i].at = "considering"
  /\ \E U \in Moves(rows, i, "deck") : Change(U)
  /\ UNCHANGED <<deck, owned>>

Demote(i) ==
  /\ i \in Rows(rows)
  /\ rows[i].at = "deck"
  /\ \E U \in Moves(rows, i, "considering") : Change(U)
  /\ UNCHANGED <<deck, owned>>

\* remove_from_considering
RemoveFromConsidering(i) ==
  /\ i \in Rows(rows)
  /\ rows[i].at = "considering"
  /\ Change([rows EXCEPT ![i] = Disbanded(rows[i])])
  /\ UNCHANGED <<deck, owned>>

----------------------------------------------------------------------------
(* Importing and undoing *)

\* A line of the file, and the place its Location column was resolved to: a box or
\* a deck that is no brew (the lines for a brew deck are the subject of Intake).
Line == [card : Printings, kind : {"real", "proxy"}, qty : 1 .. MaxCopies,
         to : {"pending", "box", "deck"}]

\* An import in progress: the table and the log so far.
Begun == [table |-> rows, log |-> log]

InUse(S) == Rows(rows) \cup {S.log[e].row : e \in DOMAIN S.log}

\* The key of the merge holds is_proxy = FALSE, whatever the row found or created
\* under it is.  A row the sorter filed in a drawer is not found.
Creditable(T, l) ==
  {i \in Rows(T) : T[i].at = "pending" /\ T[i].card = l.card
                   /\ (T[i].kind = "real" \/ i \notin Rows(rows))}

\* Line l of batch b, credited to row i of table T, and counting as what the row is.
Credited(S, T, i, l, b) ==
  [table |-> T,
   log |-> Append(S.log, [row |-> i, card |-> l.card, real |-> T[i].kind = "real",
                          qty |-> l.qty, batch |-> b, reversed |-> FALSE])]

\* persist_import_rows, for one line.
Persist(S, l, b) ==
  LET r == [card |-> l.card, at |-> l.to, kind |-> l.kind, qty |-> l.qty]
      M == IF l.to = "pending" THEN Creditable(S.table, l) ELSE {}
  IN  IF M = {}
      THEN {Credited(S, [S.table EXCEPT ![i] = r], i, l, b) : i \in Fresh(InUse(S), S.table)}
      ELSE {Credited(S, [S.table EXCEPT ![i].qty = @ + l.qty], i, l, b) : i \in M}

\* Variant: the imports of a row merged away are forgotten.
PlaceUnlogged(S, i, at) ==
  {[S EXCEPT !.table = U] : U \in Moves(S.table, i, at)}

\* The entries of log L that count, and that refer to row i, refer to row j.
Redirected(L, i, j) ==
  [e \in DOMAIN L |-> IF L[e].row = i /\ ~L[e].reversed THEN [L[e] EXCEPT !.row = j] ELSE L[e]]

\* place_imported_rows, for one row: the imports of a row merged away are those of
\* the row that has its copies.
Place(S, i, at) ==
  LET r == [S.table[i] EXCEPT !.at = at]
      M == Matches(S.table, r) \ {i}
  IN  IF M = {}
      THEN {[S EXCEPT !.table = [S.table EXCEPT ![i] = r]]}
      ELSE {[table |-> [S.table EXCEPT ![j].qty = @ + r.qty, ![i] = NoRow],
             log |-> Redirected(S.log, i, j)] : j \in M}

\* route_intake_to_bulk, for one row: kept, moved to the box, or all but one of
\* its copies moved.  The prices and the decks that decide are left open.
Route(S, i) ==
  {[S EXCEPT !.table = U] :
     U \in {S.table} \cup Moves(S.table, i, "box")
           \cup IF S.table[i].qty > 1 THEN Surplus(InUse(S), S.table, i) ELSE {}}

\* What becomes of a row after its line was persisted: it stays where the line put
\* it, merged into a row that was there; a pending row goes to the destination
\* chosen for the file.
Settle(S, i, dest) ==
  IF S.table[i].at # "pending" THEN Place(S, i, S.table[i].at)
  ELSE CASE dest = "pending" -> {S}
         [] dest = "box" -> Place(S, i, "box")
         [] dest = "sorter" -> Route(S, i)

\* Every row of I, of which there are one or two.
Settled(S, I, dest) ==
  UNION {UNION {IF I = {i} THEN {T} ELSE UNION {Settle(T, j, dest) : j \in I \ {i}} :
                  T \in Settle(S, i, dest)} : i \in I}

\* The routes' commit of a file of one or two lines (import_commit and
\* _commit_single_destination_import): one transaction.
Import(lines, dest) ==
  LET m == Len(log)
      n == m + Len(lines)
      b == IF m = 0 THEN 1 ELSE log[m].batch + 1
  IN  /\ Room(Total(Len(lines), [k \in DOMAIN lines |-> lines[k].qty]))
      /\ \A k \in DOMAIN lines : lines[k].to = "deck" => deck = "plain"
      /\ \E S1 \in Persist(Begun, lines[1], b) :
         \E S2 \in IF Len(lines) = 1 THEN {S1} ELSE Persist(S1, lines[2], b) :
         \E S3 \in Settled(S2, {S2.log[e].row : e \in (m + 1) .. n}, dest) :
         \E U \in IF dest = "sorter" THEN Resorts(S3.table) ELSE {S3.table} :
           Commit(U, S3.log)
      /\ UNCHANGED <<deck, owned>>

\* Variant: of several entries only the last is counted.
RequiredLast(E, i) ==
  Total(Len(log), [e \in DOMAIN log |->
                     IF /\ e \in E /\ log[e].row = i
                        /\ \A d \in E : log[d].row = i => d <= e
                     THEN log[e].qty ELSE 0])

\* The copies of row i that the entries in E acquired.
Required(E, i) ==
  Total(Len(log), [e \in DOMAIN log |-> IF e \in E /\ log[e].row = i THEN log[e].qty ELSE 0])

\* Every entry's row is there and is that card, with the copies of all of them.
AllPresent(E) == \A e \in E : Required(E, log[e].row) <= rows[log[e].row].qty

\* _undo_import_logs, for the entries in E that have not been reversed.
Undo(E) ==
  /\ E # {}
  /\ \A e \in E : log[e].row \in Rows(rows) /\ rows[log[e].row].card = log[e].card
  /\ AllPresent(E)
  /\ Commit(Drained(rows, [i \in Ids |-> Required(E, i)]),
            [e \in DOMAIN log |-> IF e \in E THEN [log[e] EXCEPT !.reversed = TRUE]
                                  ELSE log[e]])
  /\ UNCHANGED <<deck, owned>>

\* undo_last_import: the last one, or none if it has been undone.
UndoLast == Undo({e \in DOMAIN log : e = Len(log) /\ ~log[e].reversed})

\* undo_last_batch
UndoBatch(b) == Undo({e \in DOMAIN log : log[e].batch = b /\ ~log[e].reversed})

----------------------------------------------------------------------------
(* The collection's and the deck's operations *)

Acquire ==
  \/ \E p \in Printings, at \in Spots, kind \in {"real", "proxy"}, k \in 1 .. MaxCopies :
       AddCard(p, at, kind, k)
  \/ /\ Len(log) + 1 <= MaxImports
     /\ \E l \in Line, dest \in {"pending", "box", "sorter"} : Import(<<l>>, dest)
  \/ /\ Len(log) + 2 <= MaxImports
     /\ \E l, m \in Line, dest \in {"pending", "box", "sorter"} : Import(<<l, m>>, dest)
  \/ UndoLast
  \/ \E b \in 1 .. MaxImports : UndoBatch(b)

Arrange ==
  \/ \E i \in Ids, at \in Spots : MoveRow(i, at) \/ ConfirmPending(i, at)
  \/ \E i \in Ids : MoveSurplus(i)
  \/ ConfirmAll
  \/ Resort
  \/ \E i \in Ids, k \in 1 .. MaxCopies : AdjustQuantity(i, k) \/ SplitRow(i, k)
  \/ \E S \in SUBSET Ids : BulkDelete(S)
  \/ \E i \in Ids, p \in Printings : Repoint(i, p)

Build ==
  \/ \E kind \in {"plain", "brew"} : CreateDeck(kind)
  \/ EditDeck
  \/ DeleteDeck
  \/ \E i \in Ids, k \in 1 .. MaxCopies : PullCard(i, k)
  \/ \E i \in Ids : ReturnCard(i)
  \/ \E i \in Ids, p \in Printings : SwitchPrinting(i, p)
  \/ \E i \in Ids, k \in 0 .. MaxCopies : SetQuantity(i, k)

Brew ==
  \/ MaterializeBrew
  \/ \E i, j \in Ids, k \in 1 .. MaxCopies : ConfirmAssembly(i, j, k)

Consider ==
  \/ \E p \in Printings, k \in 1 .. MaxCopies : AddToConsidering(p, k)
  \/ \E i \in Ids : Promote(i) \/ Demote(i) \/ RemoveFromConsidering(i)

Next == Acquire \/ Arrange \/ Build \/ Brew \/ Consider

Spec == Init /\ [][Next]_vars

----------------------------------------------------------------------------
(* Properties *)

TypeOK ==
  /\ rows \in Tables
  /\ deck \in {"none", "plain", "brew"}
  /\ log \in Seq(Entry)
  /\ owned \in [Printings -> Int]

\* The copies of printing p that the imports not undone acquired.
Imported(L, p) ==
  Total(Len(L), [e \in DOMAIN L |->
                   IF L[e].card = p /\ L[e].real /\ ~L[e].reversed THEN L[e].qty ELSE 0])

\* No card is lost or made up: the real copies of a printing are those acquired
\* and not disposed of, and those of the imports not undone, however they were
\* moved, merged, split, pulled into the deck and back, switched, claimed or
\* disbanded.
Conserved == \A p \in Printings : Copies(rows, p) = owned[p] + Imported(log, p)

\* A placeholder, a card nobody owns, stays in the brew deck it stands in: it never
\* gets to the collection, nor outlives its deck.
PlaceholdersStayHome ==
  \A i \in Rows(rows) :
    rows[i].kind = "placeholder" => deck = "brew" /\ rows[i].at \in DeckSpots

\* No row is left in a deck that has been retired.
NoneStranded ==
  deck = "none" => \A i \in Rows(rows) : rows[i].at \notin DeckSpots

\* Real copies that come to the list from the loose cards, by a pull or by a
\* claim, take the place of as many proxies (issue 134): the list does not hold
\* a card and its stand-in.
PullsReplaceProxies == [][
  LET d == Quantity(rows, LooseReal(rows)) - Quantity(rows', LooseReal(rows'))
      n == Quantity(rows, DeckProxies(rows))
  IN  /\ DeckProxies(rows) # {}
      /\ d > 0
      /\ \/ \E j \in LooseReal(rows) :
                PullCard(j, d) \/ \E i \in DeckProxies(rows) : ConfirmAssembly(i, j, d)
         \/ MaterializeBrew
      => Quantity(rows', DeckProxies(rows')) = n - Lower(n, d)]_vars

\* switch_deck_row_printing promises a "quantity-conserving two-leg swap" with "an
\* owned loose copy" (deck_service.py:4247-4255).  It does not hold: loose proxies
\* of the printing are taken too, and count as real copies afterwards.
SwitchConserves == [][
  \A i \in Ids, p \in Printings :
    SwitchPrinting(i, p) => \A o \in Printings : Copies(rows', o) = Copies(rows, o)]_vars

=============================================================================
