------------------------------- MODULE Claims -------------------------------
(***************************************************************************)
(* Requests that overlap on the rows of one card (app/deck_service.py,     *)
(* app/inventory_service.py, app/routes/decks.py,                          *)
(* app/routes/collections.py): which rows each locks, where its handler    *)
(* runs, and when it gives the locks back.                                 *)
(*                                                                         *)
(* A `def' route runs in a thread, an `async def' route on the event loop  *)
(* itself, which does nothing else until the handler returns.  Row locks   *)
(* last until the transaction ends; a handler that returns without ending  *)
(* it keeps them until the loop has the session closed (get_db_session).   *)
(*                                                                         *)
(* One printing of one card of one user; his decks are brews to begin      *)
(* with, each with one row of placeholders, as like rows merge.  Requests  *)
(* that move whole rows, the sort after a return, and locks on the rows of *)
(* other tables than decks and inventory are left out.                     *)
(***************************************************************************)
EXTENDS Integers, FiniteSetsExt

CONSTANTS
  N,         \* bound: requests
  Offered,   \* bound: the kinds of each
  Decks,     \* the decks
  MaxRows,   \* bound: rows there ever are
  Tables,    \* the tables to start from
  NoRow,     \* an identifier not used yet, and no row to insert
  NoOne      \* no request, and no deck

Slots == 1 .. N
Ids == 1 .. MaxRows
LoosePlaces == {"box", "pending"}
Kinds == {"materialize", "confirm", "split", "adjust", "pull", "return"}

\* A row that is deleted keeps its identifier, and no copies.  version stands for
\* assembly_row_version: every write changes updated_at.
Row == [at : LoosePlaces \cup Decks, proxy : BOOLEAN, qty : Nat, version : Nat]

ASSUME ClaimsAssumption ==
  /\ N \in Nat /\ MaxRows \in Nat
  /\ Offered \in [Slots -> SUBSET Kinds]
  /\ LoosePlaces \cap Decks = {}
  /\ Ids \cap Decks = {}
  /\ NoRow \notin Row
  /\ NoOne \notin Slots \cup Decks
  /\ Tables \subseteq [Ids -> Row \cup {NoRow}]

VARIABLES
  rows,        \* the InventoryRow table
  brew,        \* is_brew of each deck
  lock,        \* the request whose transaction holds the lock of a row or deck
  loop,        \* the request whose handler occupies the event loop
  request,     \* the requests, by the order they are posted in
  owned,       \* history: the real copies there are by the owner's account
  overlapped   \* history: two transactions overlapped that were not both guarded

vars == <<rows, brew, lock, loop, request, owned, overlapped>>

\* A request not posted yet.  deck, row, proxy, qty and shown are the form's;
\* want is what is still to be locked, plan the quantities to write, add the row
\* to insert.
Unposted ==
  [kind |-> "none", stage |-> "none", deck |-> NoOne, row |-> 0, proxy |-> 0, qty |-> 0,
   shown |-> <<>>, want |-> {}, plan |-> <<>>, add |-> NoRow, done |-> FALSE]

----------------------------------------------------------------------------
(* The table *)

Rows == {i \in Ids : rows[i] # NoRow /\ rows[i].qty > 0}

Standing(places, proxy) == {i \in Rows : rows[i].at \in places /\ rows[i].proxy = proxy}

Copies(S) == MapThenSumSet(LAMBDA i : rows[i].qty, S)

Lower(a, b) == IF a <= b THEN a ELSE b

\* The order sources are used in: placed rows, then pending ones
\* (_RECONCILE_TIER_PRIORITY), each by identifier.
Before(i, j) ==
  \/ rows[i].at = "box" /\ rows[j].at = "pending"
  \/ rows[i].at = rows[j].at /\ i < j

\* What row i contributes to the first n copies of the rows in S.
Share(S, n, i) ==
  Lower(rows[i].qty, n - Lower(n, Copies({j \in S : Before(j, i)})))

\* The quantities f says, and those g says of the other rows.
And(f, g) == [i \in DOMAIN f \cup DOMAIN g |-> IF i \in DOMAIN f THEN f[i] ELSE g[i]]

\* The first n copies of the rows in S taken out.
Drain(S, n) ==
  LET used == {i \in S : Share(S, n, i) > 0}
  IN  [i \in used |-> rows[i].qty - Share(S, n, i)]

\* Request q with the plan f, and with k copies put at a place: added to a row
\* that is like them, if there is one, as the request reads it now.
Landing(q, f, at, proxy, k) ==
  IF k = 0 THEN {[q EXCEPT !.plan = f]}
  ELSE IF Standing({at}, proxy) = {}
  THEN {[q EXCEPT !.plan = f,
                  !.add = [at |-> at, proxy |-> proxy, qty |-> k, version |-> 0]]}
  ELSE {[q EXCEPT !.plan = And(f, [j \in {h} |-> rows[h].qty + k])] : h \in Standing({at}, proxy)}

Init ==
  /\ rows \in Tables
  /\ brew = [d \in Decks |-> TRUE]
  /\ lock = [x \in Ids \cup Decks |-> NoOne]
  /\ loop = NoOne
  /\ request = [s \in Slots |-> Unposted]
  /\ owned = Copies(Standing(LoosePlaces \cup Decks, FALSE))
  /\ overlapped = FALSE

----------------------------------------------------------------------------
(* Locks, threads and the event loop *)

OnLoop(q) == q.kind \in {"materialize", "pull", "return"}

\* Those that lock what they write before they read it.
Guarded(q) ==
  \/ q.kind \in {"materialize", "confirm"}
  \/ q.kind = "split" /\ rows[q.row].at \in LoosePlaces

Open(s) == request[s].stage \in {"deck", "rows", "write"}
Answered(s) == request[s].stage = "answered"

Held(s) == {x \in Ids \cup Decks : lock[x] = s}
Released(s) == [x \in Ids \cup Decks |-> IF lock[x] = s THEN NoOne ELSE lock[x]]

\* What s locks next: rows in the order of their identifiers, but a flush writes
\* its updates before its deletions.
NextLock(s) ==
  LET q == request[s]
      updates == {i \in q.want : q.plan[i] > 0}
  IN  IF q.stage = "deck" THEN q.deck
      ELSE IF q.stage = "write" /\ updates # {} THEN Min(updates)
      ELSE Min(q.want)

WaitsFor(s, t) ==
  Open(s) /\ request[s].want # {} /\ lock[NextLock(s)] = t /\ t # s

\* The transaction of s ends, and with it the handler.
Ends(s, done) ==
  /\ request' = [request EXCEPT ![s] =
                   [@ EXCEPT !.stage = "answered", !.want = {}, !.plan = <<>>, !.add = NoRow,
                             !.done = done]]
  /\ loop' = IF loop = s THEN NoOne ELSE loop

\* Variant: that route does not roll back either.
KeepsLocks(s) == lock

\* The locks when request s was refused: only the route of the assembly page rolls
\* back (decks_assemble_confirm).
AfterRefusal(s) == IF request[s].kind = "confirm" THEN Released(s) ELSE lock

Refuse(s) ==
  /\ Ends(s, FALSE)
  /\ lock' = AfterRefusal(s)
  /\ UNCHANGED <<rows, brew, owned, overlapped>>

\* The handler of s goes on as q.
Continues(s, q) ==
  /\ request' = [request EXCEPT ![s] = q]
  /\ UNCHANGED <<rows, brew, lock, loop, owned, overlapped>>

\* The handler of s starts as q: the loop calls it or gives it to a thread.
Starts(s, q) ==
  /\ request[s].stage = "posted"
  /\ loop = NoOne
  /\ loop' = IF OnLoop(q) /\ q.stage # "answered" THEN s ELSE NoOne
  /\ request' = [request EXCEPT ![s] = q]
  /\ overlapped' = (overlapped \/ \E t \in Slots \ {s} :
                                    Open(t) /\ ~(Guarded(q) /\ Guarded(request[t])))
  /\ UNCHANGED <<rows, brew, lock, owned>>

----------------------------------------------------------------------------
(* What the pages offer *)

Form(kind, d, i, k) ==
  [Unposted EXCEPT !.kind = kind, !.stage = "posted", !.deck = d, !.row = i, !.qty = k]

\* The instructions of the assembly page (build_deck_assembly), with the versions
\* of the rows displayed.
Instructions(d) ==
  UNION {UNION {{[Form("confirm", d, i, k) EXCEPT
                    !.proxy = p, !.shown = <<rows[p].version, rows[i].version>>]
                   : k \in 1 .. Lower(rows[p].qty, rows[i].qty)}
                : p \in Standing({d}, TRUE)}
         : i \in Standing(LoosePlaces, FALSE)}

Forms ==
  (UNION {{Form("materialize", d, 0, 0)} \cup Instructions(d) : d \in {e \in Decks : brew[e]}})
  \cup {Form("split", NoOne, i, 1) : i \in {j \in Rows : rows[j].qty > 1}}
  \cup {Form("adjust", NoOne, i, 1) : i \in Rows}
  \cup (UNION {{Form("pull", d, i, 1) : i \in Standing(LoosePlaces, FALSE)} : d \in Decks})
  \cup {Form("return", rows[i].at, i, 0) : i \in {j \in Rows : rows[j].at \in Decks}}

Post(s) ==
  /\ request[s].stage = "none"
  /\ \A t \in 1 .. (s - 1) : request[t].stage # "none"
  /\ \E q \in Forms : q.kind \in Offered[s] /\ request' = [request EXCEPT ![s] = q]
  /\ UNCHANGED <<rows, brew, lock, loop, owned, overlapped>>

----------------------------------------------------------------------------
(* The handlers *)

\* materialize_brew and confirm_deck_assembly lock their deck first.
StartClaim(s) ==
  LET q == request[s] IN
  /\ q.kind \in {"materialize", "confirm"}
  /\ Starts(s, [q EXCEPT !.stage = "deck", !.want = {q.deck}])

\* q with a row of its own for the copies split off.
SplitOff(q) ==
  [q EXCEPT !.stage = "write", !.plan = Drain({q.row}, q.qty),
            !.add = [rows[q.row] EXCEPT !.qty = q.qty, !.version = 0]]

\* Variant: the row is read before it is locked.
StartSplitUnlocked(s) ==
  LET q == request[s] IN
  /\ q.kind = "split"
  /\ q.row \in Rows /\ q.qty < rows[q.row].qty
  /\ Starts(s, [SplitOff(q) EXCEPT !.want = {q.row}])

\* split_inventory_row
StartSplit(s) ==
  LET q == request[s] IN
  /\ q.kind = "split"
  /\ Starts(s, [q EXCEPT !.stage = "rows", !.want = {q.row}])

\* adjust_inventory_row_quantity: what it read decides what it writes.
StartAdjust(s) ==
  LET q == request[s] IN
  /\ q.kind = "adjust"
  /\ Starts(s, IF q.row \in Rows /\ q.qty <= rows[q.row].qty
               THEN [q EXCEPT !.stage = "write", !.want = {q.row},
                              !.plan = [i \in {q.row} |-> rows[i].qty - q.qty]]
               ELSE [q EXCEPT !.stage = "answered"])

Writing(q) == [q EXCEPT !.stage = "write", !.want = DOMAIN q.plan]

\* pull_card_to_deck, which replaces the deck's proxies.
StartPull(s) ==
  LET q == request[s]
      list == Standing({q.deck}, TRUE)
  IN  /\ q.kind = "pull"
      /\ IF q.row \in Standing(LoosePlaces, FALSE) /\ q.qty <= rows[q.row].qty
         THEN \E r \in Landing(q, And(Drain({q.row}, q.qty), Drain(list, Lower(q.qty, Copies(list)))),
                               q.deck, FALSE, q.qty) :
                Starts(s, Writing(r))
         ELSE Starts(s, [q EXCEPT !.stage = "answered"])

\* return_card_from_deck
StartReturn(s) ==
  LET q == request[s]
      out == [i \in {q.row} |-> 0]
  IN  /\ q.kind = "return"
      /\ IF q.row \in Rows
         THEN \E r \in IF brew[q.deck] /\ rows[q.row].proxy THEN {[q EXCEPT !.plan = out]}
                       ELSE Landing(q, out, "pending", rows[q.row].proxy, rows[q.row].qty) :
                Starts(s, Writing(r))
         ELSE Starts(s, [q EXCEPT !.stage = "answered"])

\* The next lock, once it is free.  A row that went meanwhile is not there to lock.
Acquire(s) ==
  LET x == NextLock(s) IN
  /\ Open(s)
  /\ request[s].want # {}
  /\ lock[x] \in {NoOne, s}
  /\ request' = [request EXCEPT ![s].want = @ \ {x}]
  /\ lock' = IF x \in Decks \cup Rows THEN [lock EXCEPT ![x] = s] ELSE lock
  /\ UNCHANGED <<rows, brew, loop, owned, overlapped>>

At(s, kind, stage) ==
  request[s].kind = kind /\ request[s].stage = stage /\ request[s].want = {}

\* Refused unless the deck is (still) a brew.
CheckDeck(s, kind, want) ==
  /\ At(s, kind, "deck")
  /\ IF brew[request[s].deck]
     THEN Continues(s, [request[s] EXCEPT !.stage = "rows", !.want = want])
     ELSE Refuse(s)

\* materialize_brew locks its placeholders and every real row of the card, in
\* whichever deck (_brew_same_name_rows).
MaterializeLooks(s) ==
  CheckDeck(s, "materialize",
            LET list == Standing({request[s].deck}, TRUE)
            IN  IF list = {} THEN {}
                ELSE list \cup Standing(LoosePlaces \cup Decks, FALSE))

ConfirmLooks(s) == CheckDeck(s, "confirm", {request[s].proxy, request[s].row})

\* k copies of the sources come to the deck's list (_claim_brew_row).  The row they
\* are added to has been locked by a materialize, not by a confirm.
Claim(s, sources, proxies, k) ==
  LET q == request[s] IN
  \E r \in Landing([q EXCEPT !.stage = "write"], And(Drain(sources, k), Drain(proxies, k)),
                   q.deck, FALSE, k) :
    Continues(s, [r EXCEPT !.want = DOMAIN r.plan \ Held(s)])

\* As many as there are, re-read under the locks.
Materialize(s) ==
  LET sources == Standing(LoosePlaces, FALSE) \cap Held(s)
      proxies == Standing({request[s].deck}, TRUE) \cap Held(s)
  IN  /\ At(s, "materialize", "rows")
      /\ Claim(s, sources, proxies, Lower(Copies(sources), Copies(proxies)))

\* Variant: the quantities are checked, the versions are not.
AsDisplayedLoosely(q) ==
  /\ q.proxy \in Standing({q.deck}, TRUE)
  /\ q.row \in Standing(LoosePlaces, FALSE)
  /\ q.qty <= Lower(rows[q.proxy].qty, rows[q.row].qty)

\* The rows are as they were displayed, in their places, with enough copies.
AsDisplayed(q) ==
  /\ q.proxy \in Standing({q.deck}, TRUE)
  /\ q.row \in Standing(LoosePlaces, FALSE)
  /\ q.qty <= Lower(rows[q.proxy].qty, rows[q.row].qty)
  /\ q.shown = <<rows[q.proxy].version, rows[q.row].version>>

Confirm(s) ==
  LET q == request[s] IN
  /\ At(s, "confirm", "rows")
  /\ IF AsDisplayed(q) THEN Claim(s, {q.row}, {q.proxy}, q.qty) ELSE Refuse(s)

Split(s) ==
  LET q == request[s] IN
  /\ At(s, "split", "rows")
  /\ IF q.row \in Rows /\ q.qty < rows[q.row].qty
     THEN Continues(s, SplitOff(q))
     ELSE Refuse(s)

\* The table when s has written what it planned: quantities, whatever they are by
\* now.
Written(s) ==
  LET q == request[s]
      new == Min({i \in Ids : rows[i] = NoRow})
  IN  [i \in Ids |->
         IF i \in DOMAIN q.plan /\ i \in Rows
         THEN [rows[i] EXCEPT !.qty = q.plan[i], !.version = @ + 1]
         ELSE IF q.add # NoRow /\ i = new THEN q.add ELSE rows[i]]

\* The commit: an update of a row that has gone fails (StaleDataError), a deletion
\* does not.  A brew without placeholders is one no more (_finish_brew_claim).
\* MaxRows bounds the rows inserted.
Commit(s) ==
  LET q == request[s]
      stale == \E i \in DOMAIN q.plan : q.plan[i] > 0 /\ i \notin Rows
  IN  /\ q.stage = "write"
      /\ q.want = {}
      /\ q.add # NoRow => \E i \in Ids : rows[i] = NoRow
      /\ Ends(s, ~stale)
      /\ lock' = Released(s)
      /\ rows' = IF stale THEN rows ELSE Written(s)
      /\ brew' = IF stale \/ ~Guarded(q) \/ q.kind = "split" THEN brew
                 ELSE [brew EXCEPT ![q.deck] =
                         \E i \in Ids : rows'[i] # NoRow /\ rows'[i].qty > 0
                                        /\ rows'[i].at = q.deck /\ rows'[i].proxy]
      /\ owned' = IF ~stale /\ q.kind = "adjust" /\ ~rows[q.row].proxy THEN owned - q.qty
                  ELSE owned
      /\ UNCHANGED overlapped

\* PostgreSQL ends a transaction that is in a circle of waiting ones.
Abort(s) ==
  /\ \E C \in SUBSET Slots :
       /\ s \in C
       /\ \A t \in C : (\E u \in C : WaitsFor(t, u)) /\ (\E u \in C : WaitsFor(u, t))
  /\ Ends(s, FALSE)
  /\ lock' = Released(s)
  /\ UNCHANGED <<rows, brew, owned, overlapped>>

\* The loop sends the answer and has the session closed.
Close(s) ==
  /\ Answered(s)
  /\ loop = NoOne
  /\ request' = [request EXCEPT ![s].stage = "closed"]
  /\ lock' = Released(s)
  /\ UNCHANGED <<rows, brew, loop, owned, overlapped>>

Step(s) ==
  \/ StartClaim(s) \/ StartSplit(s) \/ StartAdjust(s) \/ StartPull(s) \/ StartReturn(s)
  \/ Acquire(s)
  \/ MaterializeLooks(s) \/ ConfirmLooks(s)
  \/ Materialize(s) \/ Confirm(s) \/ Split(s)
  \/ Commit(s) \/ Abort(s) \/ Close(s)

Next == \E s \in Slots : Post(s) \/ Step(s)

\* Threads, the loop and the database go on; nobody has to post a form.
Fairness == \A s \in Slots : WF_vars(Step(s))

Spec == Init /\ [][Next]_vars /\ Fairness

----------------------------------------------------------------------------
(* Properties *)

\* However requests that lock what they write overlap, and if the others run one at
\* a time, no copy is lost or made up (tests/test_deck_assembly.py:287: two decks
\* cannot claim the same copy).
Conserved ==
  ~overlapped => Copies(Standing(LoosePlaces \cup Decks, FALSE)) = owned

\* An instruction of the assembly page is carried out once, however often and from
\* however many pages it is posted, whatever runs beside it.
AppliedOnce ==
  \A s, t \in Slots :
    /\ s # t
    /\ request[s].kind = "confirm" /\ request[s].done
    => [request[s] EXCEPT !.stage = "none"] # [request[t] EXCEPT !.stage = "none"]

\* The loop waits for the locks of a request that was answered and waits for the
\* loop: a split or a materialize that was refused.
Stalled ==
  /\ loop # NoOne
  /\ \E t \in Slots :
       WaitsFor(loop, t) /\ Answered(t) /\ request[t].kind \in {"materialize", "split"}

\* Every request is answered, whatever overlaps, deadlocks of the database included:
\* nobody waits for a claim that was refused.  Only a stall of the loop prevents it.
EveryRequestEnds ==
  \A s \in Slots : (request[s].stage = "posted") ~> (request[s].stage = "closed" \/ Stalled)

=============================================================================
