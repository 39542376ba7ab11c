------------------------------- MODULE Audit -------------------------------
(***************************************************************************)
(* Physical audits of the box (app/audit_service.py, app/routes/audit.py): *)
(* an audit remembers what the box held, or the part of it in scope,       *)
(* classifies each card scanned, and reconciles the collection with what   *)
(* was found, unless the box has changed meanwhile.  The owner's other     *)
(* operations are Stock's; pages stay open, so a form of any audit can     *)
(* still be posted.                                                        *)
(*                                                                         *)
(* All rows are printings of one card, so any two of them have the same    *)
(* name; a scope is a set of printings where the code has sets of cards.   *)
(* Scans out of scope are only displayed, and left out.                    *)
(***************************************************************************)
EXTENDS Stock, SequencesExt

CONSTANTS
  MaxAudits,   \* bound: audits ever started
  MaxScans     \* bound: copies scanned in one audit

ASSUME AuditAssumption == IsFiniteSet(Printings) /\ MaxScans \in Nat

VARIABLE audits   \* the audit sessions of the user, in the order of their ids

auditVars == <<vars, audits>>

NoScans == [match |-> [i \in Ids |-> 0],
            partial |-> [i \in Ids |-> [p \in Printings |-> 0]],
            extra |-> [p \in Printings |-> 0]]

\* g summed over the printings.
Over(g) == FoldFunction(+, 0, g)

Scans == [match : [Ids -> Nat], partial : [Ids -> [Printings -> Nat]],
          extra : [Printings -> Nat]]

\* held: row by row, what was there at the start (snapshot_hash), of which a row
\* may be gone for good; found and seen: the counts of the log.
AuditSession ==
  [status : {"active", "paused", "completed", "abandoned"}, scope : SUBSET Printings,
   held : [Ids -> Nat], gone : BOOLEAN, start : Nat, scans : Scans,
   expected : Nat, seen : Nat]

Open == {a \in DOMAIN audits : audits[a].status \in {"active", "paused"}}

\* get_active_audit looks at the newest only.
Newest == {a \in Open : \A b \in Open : b <= a}

----------------------------------------------------------------------------
(* The snapshot *)

\* _audit_expected_rows, of table T.
Expected(T, scope) == {i \in Rows(T) : T[i].at = "box" /\ T[i].card \in scope}

\* Variant: the snapshot ignores the scope.
Unscoped(T, scope) == [i \in Ids |-> IF i \in Expected(T, Printings) THEN T[i].qty ELSE 0]

\* _snapshot_hash: identifiers and quantities, nothing else.
Snapshot(T, scope) == [i \in Ids |-> IF i \in Expected(T, scope) THEN T[i].qty ELSE 0]

\* validate_snapshot
Valid(a) ==
  /\ ~audits[a].gone
  /\ [i \in Ids |-> IF i \in Expected(rows, audits[a].scope) THEN rows[i].qty ELSE 0]
       = audits[a].held

\* After a change of the table to U.  A deleted row does not come back, so the
\* audits that held it stay in conflict, and what was scanned for it is not read.
Rebased(A, U) ==
  [a \in DOMAIN A |->
     [A[a] EXCEPT
        !.gone = @ \/ \E i \in Ids \ Rows(U) : A[a].held[i] > 0,
        !.held = [i \in Ids |-> IF i \in Rows(U) THEN @[i] ELSE 0],
        !.scans.match = [i \in Ids |-> IF i \in Rows(U) THEN @[i] ELSE 0],
        !.scans.partial = [i \in Ids |-> IF i \in Rows(U) THEN @[i]
                                         ELSE [p \in Printings |-> 0]]]]

----------------------------------------------------------------------------
(* The life of an audit *)

InitAudit == Init /\ audits = <<>>

Discarded(A, a) == [A EXCEPT ![a].status = "abandoned", ![a].scans = NoScans]

\* start_audit: nothing is open, or the newest is, but more than a day old: it is
\* abandoned on the way, and older ones are not looked at.  An empty audit is
\* possible, but not with a scope that matches nothing.
Start(scope) ==
  /\ Len(audits) < MaxAudits
  /\ Expected(rows, scope) # {} \/ scope = Printings
  /\ \E A \in IF Open = {} THEN {audits} ELSE {Discarded(audits, a) : a \in Newest} :
       audits' = Append(A,
         [status |-> "active", scope |-> scope, held |-> Snapshot(rows, scope),
          gone |-> FALSE, start |-> Quantity(rows, Expected(rows, scope)),
          scans |-> NoScans, expected |-> 0, seen |-> 0])
  /\ UNCHANGED vars

\* A page of the audits is opened: a paused audit goes on (resume_audit), one that
\* is too old ends.
Visit(a) ==
  /\ a \in Newest
  /\ \/ audits[a].status = "paused" /\ audits' = [audits EXCEPT ![a].status = "active"]
     \/ audits' = Discarded(audits, a)
  /\ UNCHANGED vars

\* pause_audit and abandon_audit look at the owner, not at the status.
Pause(a) ==
  /\ a \in DOMAIN audits
  /\ audits' = [audits EXCEPT ![a].status = "paused"]
  /\ UNCHANGED vars

Abandon(a) ==
  /\ a \in DOMAIN audits
  /\ audits' = Discarded(audits, a)
  /\ UNCHANGED vars

----------------------------------------------------------------------------
(* Scanning *)

\* _seen_by_row
Seen(a, i) == audits[a].scans.match[i] + Over(audits[a].scans.partial[i])

\* The rows with copies not seen yet.
Unseen(a) == {i \in Expected(rows, audits[a].scope) : Seen(a, i) < rows[i].qty}

Scanned(a) ==
  Total(MaxRows, [i \in Ids |-> Seen(a, i)]) + Over(audits[a].scans.extra)

\* record_scan: k copies of printing p, all to one row, or none to any.
Scan(a, p, k) ==
  /\ a \in DOMAIN audits
  /\ p \in audits[a].scope
  /\ Scanned(a) + k <= MaxScans
  /\ LET Exact == {i \in Unseen(a) : rows[i].card = p} IN
     IF Exact # {}
     THEN \E i \in Exact : audits' = [audits EXCEPT ![a].scans.match[i] = @ + k]
     ELSE IF Unseen(a) # {}
     THEN \E i \in Unseen(a) : audits' = [audits EXCEPT ![a].scans.partial[i][p] = @ + k]
     ELSE audits' = [audits EXCEPT ![a].scans.extra[p] = @ + k]
  /\ UNCHANGED vars

----------------------------------------------------------------------------
(* Reconciling *)

\* A batch under way: the table, what it added or corrected, the same when a move
\* last committed, and whether an action has failed.
Under(T, g) == [table |-> T, gained |-> g, saved |-> [table |-> rows,
                gained |-> [p \in Printings |-> 0]], failed |-> FALSE]

\* Variant: a proxy of the box will do.
AddExtraAnywhere(S, p, k) ==
  LET M == {i \in Rows(S.table) : S.table[i].at = "box" /\ S.table[i].card = p}
      r == [card |-> p, at |-> "box", kind |-> "real", qty |-> k]
  IN  {[S EXCEPT !.table = U, !.gained[p] = @ + k] :
         U \in IF M = {} THEN Insertions(Rows(rows), S.table, r)
               ELSE {[S.table EXCEPT ![i].qty = @ + k] : i \in M}}

\* _apply_add_extra
AddExtra(S, p, k) ==
  {[S EXCEPT !.table = U, !.gained[p] = @ + k] :
     U \in Deposits(Rows(rows), S.table, [card |-> p, at |-> "box", kind |-> "real", qty |-> k])}

\* _apply_move_extra: the whole row j.  move_inventory_row_to_location commits,
\* and refuses a brew placeholder.
MoveExtra(S, j) ==
  IF BrewPlaceholder(S.table[j]) THEN {[S EXCEPT !.failed = TRUE]}
  ELSE {[S EXCEPT !.table = U, !.saved = [table |-> U, gained |-> S.gained]] :
          U \in Moves(S.table, j, "box")}

\* _apply_update_printing: all the copies of row i, wherever it is by now.
UpdatePrinting(S, i, p) ==
  LET r == S.table[i] IN
  IF r = NoRow THEN {S}
  ELSE {[S EXCEPT !.table[i].card = p,
                  !.gained = [o \in Printings |->
                     @[o] + (IF o = p THEN Worth(r, r.qty) ELSE 0)
                          - (IF o = r.card THEN Worth(r, r.qty) ELSE 0)]]}

\* Where the user may say that an extra of printing p comes from.
Sources(p) == {j \in Rows(rows) : rows[j].at # "box" /\ rows[j].card = p}

\* What is chosen for each extra: the row to move, to add it, or nothing.
Add == 0
Ignore == 0 - 1

Choice(a) ==
  {c \in [Printings -> Ids \cup {Add, Ignore}] :
     \A p \in Printings : \/ c[p] = Ignore
                          \/ audits[a].scans.extra[p] > 0 /\ c[p] \in Sources(p) \cup {Add}}

\* The printing, if any, that each row is corrected to: one of those scanned for it.
Corrections(a) ==
  {u \in [Ids -> SUBSET Printings] :
     \A i \in Ids : /\ Cardinality(u[i]) <= 1
                    /\ \A p \in u[i] : audits[a].scans.partial[i][p] > 0}

Extra(a, S, p, c) ==
  IF S.failed \/ c = Ignore THEN {S}
  ELSE IF c = Add THEN AddExtra(S, p, audits[a].scans.extra[p])
  ELSE MoveExtra(S, c)

Corrected(S, i, P) ==
  IF S.failed \/ P = {} THEN {S} ELSE UNION {UpdatePrinting(S, i, p) : p \in P}

\* The k-th action of the batch: the extras in the order they were scanned, then
\* the corrections.  Missing copies are only noted.
Apply(a, c, u, order, k, S) ==
  IF k <= Cardinality(Printings)
  THEN Extra(a, S, order[k], c[order[k]])
  ELSE Corrected(S, k - Cardinality(Printings), u[k - Cardinality(Printings)])

Batched(a, c, u, order) ==
  LET last == Cardinality(Printings) + MaxRows
      after[k \in 0 .. last] ==
        IF k = 0 THEN {Under(rows, [p \in Printings |-> 0])}
        ELSE UNION {Apply(a, c, u, order, k, S) : S \in after[k - 1]}
  IN  after[last]

Batch(a, c, u) == UNION {Batched(a, c, u, order) : order \in SetToSeqs(Printings)}

\* Variant: the counts are taken after the batch.
CountsAfter(a, S) ==
  [expected |-> Quantity(S.table, Expected(S.table, audits[a].scope)),
   seen |-> Total(MaxRows, [i \in Ids |-> IF i \in Expected(S.table, audits[a].scope)
                                         THEN Seen(a, i) ELSE 0])]

\* get_scan_progress, before the batch.
Counts(a, S) ==
  [expected |-> Quantity(rows, Expected(rows, audits[a].scope)),
   seen |-> Total(MaxRows, [i \in Ids |-> IF i \in Expected(rows, audits[a].scope)
                                         THEN Seen(a, i) ELSE 0])]

\* apply_reconciliation, on the form of the reconcile page.  A failing action is an
\* error page: what the last move committed stays, and the audit stays open.
Reconcile(a) ==
  /\ a \in DOMAIN audits
  /\ audits[a].status # "completed"
  /\ Valid(a)
  /\ \E c \in Choice(a), u \in Corrections(a) :
     \E S \in Batch(a, c, u) :
       LET E == IF S.failed THEN S.saved ELSE S
           A == IF S.failed THEN audits
                ELSE [audits EXCEPT ![a].status = "completed",
                                    ![a].expected = Counts(a, S).expected,
                                    ![a].seen = Counts(a, S).seen]
       IN  /\ Quantity(E.table, Rows(E.table)) <= MaxCopies
           /\ Change(E.table)
           /\ Gains(E.gained)
           /\ audits' = Rebased(A, E.table)
  /\ UNCHANGED deck

----------------------------------------------------------------------------
\* The owner's other operations that reach the box, or a row a batch may move.
Edit ==
  /\ \/ \E p \in Printings, at \in Spots, kind \in {"real", "proxy"}, k \in 1 .. MaxCopies :
          AddCard(p, at, kind, k)
     \/ \E i \in Ids, at \in Spots : MoveRow(i, at) \/ ConfirmPending(i, at)
     \/ \E i \in Ids, k \in 1 .. MaxCopies : AdjustQuantity(i, k) \/ SplitRow(i, k)
     \/ Resort
     \/ \E i \in Ids, p \in Printings : Repoint(i, p)
     \/ \E kind \in {"plain", "brew"} : CreateDeck(kind)
     \/ EditDeck
  /\ audits' = Rebased(audits, rows')

NextAudit ==
  \/ \E scope \in SUBSET Printings \ {{}} : Start(scope)
  \/ \E a \in 1 .. MaxAudits :
       \/ Visit(a)
       \/ Pause(a)
       \/ Abandon(a)
       \/ \E p \in Printings, k \in 1 .. MaxScans : Scan(a, p, k)
       \/ Reconcile(a)
  \/ Edit

SpecAudit == InitAudit /\ [][NextAudit]_auditVars

----------------------------------------------------------------------------
(* Properties *)

AuditTypeOK ==
  /\ TypeOK
  /\ audits \in Seq(AuditSession)

\* The log of a completed audit counts what the audit found, not what its own batch
\* made of it: it expected what the box held when it started.
CountsAreAsFound ==
  \A a \in DOMAIN audits :
    audits[a].status = "completed" => audits[a].expected = audits[a].start

\* An audit can be applied as long as nothing in its scope has changed: changes to
\* other cards of the box do not invalidate it (start_audit).
ScopeIsolates == [][
  \A a \in DOMAIN audits' :
    (a \in DOMAIN audits =>
       /\ Valid(a)
       /\ Expected(rows', audits[a].scope) = Expected(rows, audits[a].scope)
       /\ \A i \in Expected(rows, audits[a].scope) : rows'[i] = rows[i])
    => Valid(a)']_auditVars

\* "At most one active/paused session per user is enforced in the service layer"
\* (models.py:2114).  It is not: an old page can pause an audit that has ended.
OneOpen == Cardinality(Open) <= 1

=============================================================================
