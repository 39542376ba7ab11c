------------------------------- MODULE Intake -------------------------------
(***************************************************************************)
(* Importing a list into the deck, reconciled with the collection          *)
(* (_commit_deck_import_with_reconciliation, app/routes/imports.py): each  *)
(* line is planned for the assembly page, covered by copies already owned, *)
(* or acquired.  A list of one line, on top of everything in Stock.        *)
(***************************************************************************)
EXTENDS Stock

\* find_inventory_matches_for_deck_import: the rows counted as available.  A brew
\* takes real copies of any printing.  Rows that a Considering area holds are not
\* left out.
Available(p) ==
  {i \in Rows(rows) : /\ rows[i].at # "deck"
                      /\ IF deck = "brew" THEN ~IsProxy(rows[i]) ELSE rows[i].card = p}

\* The order of the matches: the very printing first, for a brew; then the tier of
\* the location, the Considering area's last.
Preference(p) ==
  [i \in Ids |->
     IF i \notin Rows(rows) THEN 0
     ELSE (IF rows[i].card = p THEN 0 ELSE 3)
          + CASE rows[i].at = "considering" -> 2
              [] rows[i].at = "pending" -> 1
              [] OTHER -> 0]

\* One pull: of the rows that copies are still due from, the first of the matches.
PullNext(s, p) ==
  LET due == {i \in Ids : s.take[i] > 0}
      i == CHOOSE j \in due : \A o \in due : Preference(p)[j] <= Preference(p)[o]
  IN  IF due = {} THEN {s}
      ELSE {[table |-> U, take |-> [s.take EXCEPT ![i] = 0]] : U \in Pulls(s.table, i, s.take[i])}

\* The loop of pulls: take[i] copies of every row i, in the order of preference.
PulledAll(T, take, p) ==
  LET upTo[n \in 0 .. MaxRows] ==
        IF n = 0 THEN {[table |-> T, take |-> take]}
        ELSE UNION {PullNext(s, p) : s \in upTo[n - 1]}
  IN  {s.table : s \in upTo[MaxRows]}

\* m copies to be moved, as far as there are matches.  pull_card_to_deck refuses
\* the rows of the Considering area, and the loop goes on to the next match.
Moved(p, m) ==
  LET loose == {i \in Available(p) : Loose(rows[i])}
      due == Lower(m, Quantity(rows, Available(p)))
  IN  UNION {PulledAll(rows, take, p) :
               take \in Drains(rows, loose, Lower(due, Quantity(rows, loose)), Preference(p))}

\* The row credited with new copies joins a row of the list, or becomes one.  It
\* is deleted without its import following the copies.
Joined(S, i) ==
  {[S EXCEPT !.table = U] :
     U \in Moves([S.table EXCEPT ![i].kind = Arriving(@, "deck")], i, "deck")}

\* k new copies of kind, persisted as a pending row, go to the list.
Acquired(T, p, kind, k) ==
  LET S == [table |-> T, log |-> log]
      b == IF log = <<>> THEN 1 ELSE log[Len(log)].batch + 1
  IN  IF k = 0 THEN {S}
      ELSE UNION {Joined(U, U.log[Len(U.log)].row) :
                    U \in Persist(S, [card |-> p, kind |-> kind, qty |-> k, to |-> "pending"], b)}

NewKind(kind) == IF deck = "brew" THEN "proxy" ELSE kind

\* The line asks to move m copies and to acquire n: the copies that are not
\* available any more are acquired too.
ImportToDeck(p, kind, m, n) ==
  /\ deck # "none"
  /\ LET k == m - Lower(m, Quantity(rows, Available(p))) + n IN
       /\ k > 0 => Len(log) + 1 <= MaxImports
       /\ Room(k)
       /\ \E T \in Moved(p, m) : \E S \in Acquired(T, p, NewKind(kind), k) :
            Commit(S.table, S.log)
  /\ UNCHANGED <<deck, owned>>

\* plan_assembly: nothing is pulled before the assembly page says so.
PlanAssembly(p, n) ==
  /\ deck = "brew"
  /\ Len(log) + 1 <= MaxImports
  /\ Room(n)
  /\ \E S \in Acquired(rows, p, "proxy", n) : Commit(S.table, S.log)
  /\ UNCHANGED <<deck, owned>>

ImportList ==
  \/ \E p \in Printings, kind \in {"real", "proxy"}, m, n \in 0 .. MaxCopies :
       m + n > 0 /\ ImportToDeck(p, kind, m, n)
  \/ \E p \in Printings, n \in 1 .. MaxCopies : PlanAssembly(p, n)

NextIntake == ImportList \/ Next

SpecIntake == Init /\ [][NextIntake]_vars

----------------------------------------------------------------------------
(* Properties *)

\* An import can be undone when it has just been made, wherever its copies were
\* placed and whatever they were merged with: the entry follows the copies to the
\* row that has them.  (A file sent through the sorter is the exception: copies
\* diverted to Bulk are merged without their entry.)
CanBeUndone(e) ==
  /\ log[e].row \in Rows(rows)
  /\ rows[log[e].row].card = log[e].card
  /\ log[e].qty <= rows[log[e].row].qty
ImportsCanBeUndone == [][
  \A e \in (Len(log) + 1) .. Len(log') :
    (\E l \in Line, dest \in {"pending", "box"} : Import(<<l>>, dest)) => CanBeUndone(e)']_vars

\* Where there are no proxies, a line's copies all come to the list of a plain deck:
\* of those that cannot be moved the code says "we promised the user N moves but only
\* delivered some. Cover the rest as new imports" (imports.py:921-923).  It does not
\* hold: a copy of a Considering area counts as available, its pull is refused, and
\* it is not made up for.
LinesAreDelivered == [][
  \A p \in Printings, m, n \in 0 .. MaxCopies :
    ImportToDeck(p, "real", m, n) /\ deck = "plain" /\ (\A i \in Rows(rows) : ~IsProxy(rows[i]))
      => Quantity(rows, Listed(p))' = Quantity(rows, Listed(p)) + m + n]_vars

=============================================================================
