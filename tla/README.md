# Cartarch: formal models of games, trades and collections

Cartarch is a web application (FastAPI, SQLAlchemy, PostgreSQL or SQLite) in
which groups of players keep their card collections and decks, play tracked
games and trade. This directory holds TLA+ models of the parts of it in which
several people or jobs act on the same data at once, or in which a long sequence
of small operations must not lose a card; the TLC configurations that check them
on small instances; and TLAPS proofs of what holds for every instance.

To check a model: `tlc -config MCLiveSync.cfg MCLiveSync`; to check the proofs:
`tlapm LiveSyncProofs.tla`. `PROJECT.json` relates every definition to the lines
it models, and lists the runs, mutants, hazards, findings and theorems.

## How the program executes

Route handlers open one database session per request (`autoflush` off,
`expire_on_commit` off) and call synchronous service functions. A `def` route runs
in a thread pool, so requests of one process overlap; about 45 `async def` routes
call the same synchronous functions on the event loop itself, one at a time, and
nothing else is dispatched until they return. A service function is normally one
transaction under READ COMMITTED: it loads rows into the session's identity map,
decides on the loaded copy, and writes the changed columns at `commit()`. Only
some functions take row locks (`with_for_update`): live actions, trades once they
exist, and of the operations on cards the claims for a brew, splitting, repointing,
switching a printing and undoing an import. Pulls, returns, moves and adjustments
do not. A lock lasts until the transaction ends, at the latest when the session is
closed after the answer (`get_db_session`). Production runs on PostgreSQL (`src/README.md:297`),
so unique indexes and foreign keys are enforced. There is one replica; the only state outside the
database is in the memory of that process (the queues of the live streams, the
overlap instrumentation, login throttling), and a redeploy loses it.

The hard behaviours are therefore: decisions taken on copies that are stale at
commit, locks held across threads and the event loop, work done after a lock is released (publication, instrumentation),
streams that break and reopen, jobs that are killed between two commits, and long
legal sequences of small edits.

## Inventory

| component | state | operations | what makes it correct |
|---|---|---|---|
| live scoreboard (`live_game_service`) | JSON blob of `GameLiveState`: lives, counters, commander damage by source, eliminations with round and cause, round and active seat; append-only `game_events` | life, counter, cmd, eliminate, turn (and Momir, Planechase, Archenemy actions) | the log reproduces the board; a loss never goes unnoticed and a correction undoes it; manual eliminations stay; the rotation skips nobody |
| live requests and streams (`live_game_service`, `live_game_events`, `routes/live_games`) | the row and its version, in-process queues, SSE generators, `_last_written_version` | `apply_live_action`, `publish`, `subscribe`, `live_stream`, `end_game` | no tap is lost; screens never go back and catch up |
| game lifecycle (`game_service`) | `Game`, `GameSeat`, existence of the live row, bookend events | create, claim a seat, pick a deck, choose the first seat, edit seats, start, end, correct the result | one holder per seat; the live row exists exactly while the game runs; every board is booked |
| analytics (`game_analytics_service`) | none (reads events) | folds over the log, consistency check | same result as the board |
| trading (`trade_service`, `routes/trades`) | `Trade`, `TradeRevision`, `TradeItem` | propose, counter, decline a counter, accept, decline, cancel, abandonment by cleanup | closed is final, the record is what was agreed, pending trades are among members and over rows that exist |
| playgroups (`playgroup_service`), shares (`share_service`, `watchlist_service`) | members with a role, the creator, shares, Showcases | create, join, leave, remove, hand over, delete, share, revoke | one owner per playgroup; who leaves takes his shares along |
| game sessions (`session_service`) | evenings of a playgroup, the game's link to one | link, unlink, open, close | one open evening, no dangling link |
| account deletion (`routes/admin`) | everything a user owns | hand-over of playgroups, cascade | it succeeds, and leaves nothing behind |
| inventory (`inventory_service`) | `InventoryRow`: printing, finish, proxy flag, quantity, place, pending flag | add, move, surplus, confirm, resort, adjust, split, repoint, delete | copies are conserved; like rows merge, unlike ones do not |
| decks (`deck_service`) | `Deck` with its list and Considering location, brew flag | create, edit, delete, pull, return, switch, claim, consider | copies are conserved; placeholders stay in their brew; no row in a retired deck |
| imports (`import_service`, `routes/imports`) | `TransactionLog` | file and list imports, routing to boxes, undo | an import follows its copies and can be undone |
| inventory audits (`audit_service`) | snapshot, scans, status | start, visit, pause, abandon, scan, reconcile | a reconciliation applies to what was audited |
| watchlists (`watchlist_service`), price job (`jobs/price_ingest`, `jobs/price_alerts`) | targets, alert marks, `CardPrice`, overrides | watch, target, override, ingest, alert | a crossing is told once, and told; an override shows |
| storage locations | one user's tree of places | create, rename, reorder, delete | - |
| accounts (`auth`, `token_service`, `password_reset_service`, `login_throttle`) | users, tokens, throttle counters | login, reset | tokens are used once |
| card data (`scryfall`, `combo_refresh_service`) | card tables | periodic idempotent refreshes | - |
| presentation, recommendation, dashboards, templates | none | read-side computation | - |

Interactions: `start_live_game` and `end_game` create and delete the row the
scoreboard lives in; analytics reads the events it writes; playgroup and inventory
functions call trade cleanup (`abandon_pending_trades_*`) inside their own
transactions; a trade reads memberships and shares when it is proposed or
countered; imports, decks, audits and the sorter all write the same inventory
rows; an import into a deck runs the deck's pulls; a game is linked to an evening
of a playgroup, which is opened for it; account deletion hands over playgroups.

## Modules

| module | what it is |
|---|---|
| `LiveBoard` | the scoreboard and the event log, one locked action at a time |
| `LiveFeed` | abstract: what companion mode promises its screens |
| `LiveSync` | requests, lock, instrumentation, fan-out, streams, end and restart; implements `LiveFeed` |
| `GameLifecycle` | the game around live mode, with overlapping requests |
| `Trade` | one trade, its two parties, their playgroup and rows |
| `Overlay` | the Planechase and Archenemy decks of a live game |
| `Momir` | the board of a Momir game: creatures, combat, card counts; extends `Overlay` |
| `Inventory` | the table of rows and the operators that merge, drain and move them; no state |
| `Stock` | one user's collection and one deck: every operation on the rows |
| `Intake` | `Stock` with list imports that are reconciled with the collection |
| `Claims` | requests that overlap on the rows of a card: row locks, threads, the event loop |
| `Audit` | `Stock`'s edits with physical audits of the box |
| `Playgroup` | members, owners, shares, evenings and account deletion, with overlapping requests |
| `Alerts` | the daily price job against the users who edit what it reads |
| `...Proofs` | the theorems about the module of that name; in `StockProofs` also those of `Audit` and `Intake`, in `PlaygroupProofs` of `Alerts`, in `VariantsProofs` of `Overlay` and `Momir` |
| `MC...` | the instance TLC checks |

`LiveSync` and `LiveBoard` split one function: `LiveSync` shows that what happens
inside the row lock is atomic and nothing is lost, which is what allows
`LiveBoard` to take one action at a time. In `LiveSync` the blob is the set of
actions it reflects; in `LiveBoard` it has its content. `Intake` and `Audit` compose
their operations with those of `Stock`, over the same rows.

### LiveBoard

State: the fields of the blob (`lives`, `poison`, `cmd`, `eliminated`, `atTurn`,
`cause`, `turn`, `current`), the row's `version`, and `replay`, the value of the
folds of `game_analytics_service` over the events so far. `Folded` is the reader's
side (`life_delta_for_event`, `_segment_owners`, `_final_elimination_events`), the
actions are the writer's. The reader derives the owner of each turn by replaying
the rotation; it does not use the seat stamped in the payload, which is the
derivation used for games without the stamp and the one that can drift.

Actions: `Life`, `Counter`, `Cmd`, `Eliminate`, `PassTurn`, `StayTurn`: mutation,
event, automatic elimination or revival with its own event (`Settle`), and version
bump, as `_apply_live_action_inner` does under the lock. Counters other than
poison are one name, `other`, with no value. Authorization is left out: it decides
who may act, and every action here may come at any time. Seats are named by their
place in `turn_rotation`, fixed once the game is live. A partner seat is a source
of damage under three keys, its bare one (excluded from the loss check) and one
for each commander.

### LiveSync and LiveFeed

A request goes through `Enter` (unlocked load), `Lock` (locking read with
`populate_existing`), `Reject` or `Commit`, `Record` (instrumentation),
`Publish` (the list of subscribers is taken) and `Put` for each queue. Publication
comes after the commit, so two requests interleave there. An action refused under
the lock does not roll back: it keeps the lock until the event loop closes its
session (`Close`). A screen goes through `Open` (the first, authorizing snapshot),
`Subscribe`, `Load` (the second snapshot, read by a thread), `SendInitial` and
`Deliver`; it ends in `LoseRow`, `Drop` or `Restart`, after which the
browser's `EventSource` opens it again; a 404 closes it for good. `end_game` is
`EndRead` and `EndCommit`. Its route runs on the event loop and does not await
between the two, and its DELETE waits for the row lock: until then no stream and no
`Close` moves (`LoopFree`), while the threads go on. If one of them has been refused
under the lock, that wait never ends (`Stalled`). `written` is a history variable:
the values the row has had. The order in which `call_soon_threadsafe` runs the
callbacks is the order of the `Put` steps.

The screens are those of the stream. A page whose own tap fails puts back the state
it had before the tap (`game_companion.html:846-857`), which may be older than what
the stream has shown since; that is not modelled.

`LiveFeed` has a board to which actions are only added, the set of states it has
had, and screens that move to any state that contains what they show. The
refinement maps `board` to the committed blob, `past` to the blobs of `written`.

### GameLifecycle

None of these functions locks, so each is a `Read` step, which checks what the code
checks and keeps what the session loaded, and a `Commit` step, which writes.
`Written` is the unit of work of SQLAlchemy: an attribute is written only if its
new value differs from the one loaded, so a stale request may leave a column alone
although it means to set it. The unique key on `game_live_states.game_id` makes the
second of two starts fail (`FailStart`). `OwnerSlots` and `PlayerSlots` say how many
requests may be open at once. `granted` records what clients were told, and
`overlapped` that the owner had two requests open at once.

Ending a game takes three steps. The route loads the game (`ReadEnd`), and `end_game`
loads the live row when it first uses it (`LoadLive`), so a start may commit in
between: an end that holds a finalized game then deletes the board of the running one,
and leaves the status alone because it holds it as finalized already. It takes two ends,
one after the other, and a start, in a thread, that overlaps both. `overtaken` is a
history variable with the boards that were loaded so; `InProgressHasBoard` excuses
those. The route of `end_game` runs on the event loop and does not await between its load
and its commit, so two ends do not overlap in one process; the model lets them. The
other reads of a request are taken as one snapshot.

### Trade

Everything that touches an existing trade locks its row first and re-reads it, so
`Counter`, `DeclineCounter`, `Answer`, `Cancel` and the abandonment inside `Leave`,
`DeletePlaygroup` and `DeleteRow` are single actions. Two windows are not covered
by the lock and take two steps: `CheckProposal` / `CommitProposal` (no row to lock
yet) and `FindLinks` / `DeleteRow` (the trades are looked up before they are
locked). `raced` is a history variable: something ran through one of the windows.
Not every deletion of a row calls the hook: a row pulled or returned whole, a deck
row set to zero and a pending row removed by hand go without it (`DropRow`;
`deck_service.py:4570`, `:5118`, `:4459`, `routes/collections.py:1871`), and the
trades over it stay as they are. `dropped` remembers these rows.
What a person may post is what the page open on their screen offers, so `seen`
holds the version each page shows.

Abstractions: items are sets of rows (a line's quantity and finish belong to the
row's identity, so a counter that only changes a quantity is not a step of its
own); membership and share changes are atomic; the owner of the playgroup is a
third person; every row of the proposer may be offered; the recipient's rows are
those listed in one Showcase, and a row no longer listed may or may not refuse the
insert (a card picked through a mirrored location has no `ShowcaseItem` to miss).
Deleting an account is not part of it.

### Overlay

The piles of the planar deck and of the scheme deck, as sequences; a shuffle is
any order. Both are keys of the blob that exist only while the variant is on, and
no action touches them and the lives, so they are a module of their own and, like
`LiveBoard`'s, their actions are atomic under the row lock. `Drawable` is the
rebuilding of an empty deck from the discard, which for the planes already holds
the one just left.

### Momir

In a Momir game each seat summons creatures, which attack other seats. `Momir` has its
own lives and eliminations, with the rules of `LiveBoard` (poison and commander damage,
the same there, are left out) and two more: a seat that must draw from an empty library
is out for good, and a fight changes lives. An attack is only declared (`Attack`); it
waits in `attacks` until the defender resolves it (`Resolve`, `Dismiss`) or the turn
ends, and everything else may happen to its creatures meanwhile. `Fight` is one of the
two damage steps of `_run_combat`: what each side deals is read from the creatures as the
step finds them, and the dead are found after both have dealt. In a physical game the
cards are real, and `res` does not move. A creature's card is a record of what the rules
read; `spared` is a history variable: somebody revived it by hand this turn.

### Inventory and Stock

A row has a printing, a place, a kind and a quantity. `Spots` are the places the
code treats differently: pending without a drawer, pending with one, the box, the
deck's list, its Considering area. A *placeholder*, a card of a brew deck that
nobody owns, is not stored as such: the code infers it from `is_proxy` and the
deck the row is in (`is_brew_placeholder_row`). The model keeps it as a kind of
its own, given when a proxy comes to a brew and when the brew flag changes, so
that `PlaceholdersStayHome` can say what becomes of one after it moves.

Every operation is one transaction and one action; what the code does before its
commit (merge, drain over several rows, consumption of placeholders, re-sorting)
is inside it. An operation that picks among rows by an order picks by that order
here (`Drains` with a rank); where the order depends on names or prices it is left
open. A sorter rule may name any of the owner's locations, but the pages do not offer a
deck as its target (`rule_target_locations`, `routes/collections.py:1897`), and
`Resorts` sends rows to drawers only. A pending row is confirmed to where it was
assigned, or to any place picked on the page (`ConfirmPending`). `owned` is the balance a user would keep by hand, what he says he acquired
less what he says he removed, and `Conserved` compares it with the table.
`log` is the import log with the rows its entries point at; `Place` repoints the
entries of a row merged away, as `place_imported_rows` does.

An action of `Stock` is a request that nothing overlaps; those that do are the
subject of `Claims`.

### Intake

`_commit_deck_import_with_reconciliation` for one line: `Available` counts the
copies the page offers, `Moved` runs the loop of pulls (`PulledAll`, a recursive
function of the number of pulls: each merges into what the one before left), the
rest is acquired as a new row which then joins the list. `plan_assembly` acquires placeholders.
`NextIntake` is everything of `Stock` and these imports.

### Claims

What `Stock` takes as one step, taken apart. A request is posted with what the page
showed (`Post`), started on the loop or in a thread (`Start...`), waits for its
locks one by one (`Acquire`), decides on what it reads then (`Materialize`,
`Confirm`, `Split`; the others decided when they started, without a lock), waits
for the rows its flush writes, and commits (`Commit`) what it planned, whatever the
rows hold by then. `materialize_brew` locks its deck, its placeholders and every
real row of the card, `confirm_deck_assembly` its deck and two rows,
`split_inventory_row` one row; `adjust_inventory_row_quantity`, `pull_card_to_deck`
and `return_card_from_deck` nothing before the flush. A version is a counter where
`assembly_row_version` hashes the row with its `updated_at`, which each of these
writes sets.

`loop` is the request whose handler runs on the event loop. While it is there
nothing starts, and nothing that was answered is closed. `Refuse` ends a handler
without ending its transaction: only the route of the assembly page rolls back
(`AfterRefusal`). `Abort` is PostgreSQL resolving a circle of waiting transactions;
a circle through the event loop is not one it sees. `overlapped` is a history
variable: two transactions overlapped of which one does not lock what it reads.
A split of a deck's own row counts as such a one, because a claim adds copies to
that row without having locked it.

### Audit

An audit keeps the identifiers and quantities of the rows in scope (`held`, the
hash of `_snapshot_hash`), the scans with the row each was counted for, and the
counts of its log. `Valid` is `validate_snapshot`. `Reconcile` runs a batch:
extras in the order they were scanned, then corrections, on a table that is
threaded through; `move_inventory_row_to_location` commits in the middle, so a
batch that fails keeps what was saved at the last move. Between any two steps the
owner edits the box with `Stock`'s operations (`Edit`).

### Playgroup

Nothing locks before it decides, so leaving, removing, handing over, sharing and
deleting an account are a `Read`, which checks and keeps what it relies on (`basis`)
and the rows it will write (`held`), and a `Commit`, which writes them without looking
again; an UPDATE of a row that has gone fails, a DELETE does not mind. Departures have
a third step in the middle, `ClearShares`: the DELETE of the shares of the one who
goes finds those that are there when it runs (`drops`), not those there at the
commit, and what it has deleted stays locked until then (`Locked`), for a revocation,
the deletion of the playgroup, another departure or the unique index of a new share. A join and the
deletion of a playgroup are single steps: a late commit of one is not told from
an earlier request. `raced` is a history variable: a decision about owners
(`"roles"`) or a share (`"shares"`) was committed on rows that had changed, or a share
written after the DELETE outlived its sharer's departure (`Overtaken`). One thing to
share is followed for each user, one Showcase or the wishlist.
`CommitAccount` is the part of `delete_user` about playgroups: those the user owns
alone go, others are handed to the longest-standing member, and the foreign key
of `playgroups.created_by` may refuse the deletion, as may those of a share written
after the DELETE.

### Alerts

One printing, and the users who may watch it. The job reads the prices and the
overrides, commits the prices (`IngestCommit`), then evaluates the users one after
the other, sending each a digest (`Send`) or re-arming (`Skip`), and stores all
marks in one commit at the end (`AlertCommit`). `Die` may hit between any two
steps; a mark for a watch removed meanwhile fails the whole commit
(`StaleDataError`). `told` counts the digests for the present crossing, `unsaved`
holds those whose mark was lost.

## Runs

| run | question | states |
|---|---|---|
| `live_board` | any five taps: do log, causes, damage and rotation stay right? | 438 thousand |
| `live_sync` | overlapping actions, refusals, screens and failures: is anything lost, shown out of order or, unless the loop stalls, never shown? | 904 thousand |
| `lifecycle` | overlapping requests without locks: does a running game keep its board, is every board booked? | 5.1 million |
| `trade` | negotiation with departures and deletions, with the hook and without: is closed final and recorded right, is pending sound? | 1.9 million |
| `variants` | any number of turns of the shared decks: is every plane in one pile? Any five actions on a Momir board: is whatever has lost out? | 1.6 million |
| `stock` | any sequence of collection and deck operations and imports: are copies conserved, placeholders kept, proxies replaced; can an import be undone? | 39 thousand |
| `claims` | three requests that overlap on the rows of a card: is a copy lost or claimed twice, is every request answered? | 172 thousand |
| `audit` | an audit while its owner edits: does reconciling apply to what was audited? | 366 thousand |
| `playgroup` | overlapping departures, hand-overs, shares, account deletions: one owner, sharers are members? | 2.2 million |
| `alerts` | the price job against edits, failed e-mails and kills: told once, told at all, override wins? | 17 thousand |
| `lifecycle_claims` | does a granted seat stay granted? no | - |
| `account_blocked` | does an account deletion that nothing overtakes succeed? no | - |

Bounds.

* `live_board`: three seats is the least number at which the rotation can skip one
  and still turn; thresholds (life 3, poison 2, damage 2) and deltas are scaled so
  that each is crossed, undone and crossed again in five actions (`Versions`);
  seat 2 plays partners, and the supplied keys include an unknown one.
* `live_sync`: two requests are enough for every pairwise interleaving around the
  lock and the fan-out; two screens for a fan-out that reaches one and not yet the
  other; one failure (`MaxFailures`) may hit any point.
* `lifecycle`: two seats, two players, two owner requests and one player request
  open at once, each as often as it likes: the state space is finite without a
  bound on the length of a behaviour. `lifecycle_claims` opens two player requests
  instead. `SYMMETRY` over slots and players; no liveness is checked there.
* `trade`: one row a side and three revisions (`MaxRevisions`): a counter on a
  counter, declined once or twice. Four revisions hold as well (14 million
  states) and are not run routinely.
* `variants`: three planes and three schemes, one of them ongoing, are the least with
  a deck, a discard of more than one and a rebuilt deck. A scheme abandoned twice is
  twice in the discard, so its length is bounded (`MaxDiscard`). The Momir board has two
  seats and starts with no creature, with and without card counts, or in the second
  round with one creature a seat (`MidGame`, which four actions reach). Five actions
  from there are two attacks by two creatures, their blocks and one correction, or a
  damaged creature in a fight, or a deck-out and its correction. The decks and the board
  share nothing, so either moves, not both (`OneAtATime`).
* `stock`: two printings (so that a placeholder of another printing exists), four rows
  (two to drain, one to merge into, one proxy), three copies (a partial drain of
  two rows); two import lines, in one file or in two, and two copies from the first
  of them on (`FewImported`), enough for two entries on one row. `VIEW` leaves out
  what cannot matter: the identifiers of rows apart from what refers to them, and
  undone or orphaned imports apart from their share of the balance.
* `claims`: two brews and two tables to start from, so that the rows a claim locks lie in
  either order. Three requests, the least for a request that makes a second obsolete,
  whose locks a third waits for: any of the six kinds, then one that can be refused
  with locks, then a claim on the event loop (`Offered`). They may start in any order.
  Seven rows (`MaxRows`) are the four there are and one more a request, so no commit
  is held up for want of an identifier.
  Two of the three kinds that lock nothing do not meet; nothing would be claimed of
  them but that they end.
* `audit`: three rows, two copies, one audit, two copies scanned.
* `playgroup`: one playgroup, three people (two with a role to exchange and a
  bystander who may inherit), two requests at a time, one evening. Exploration stops
  once a decision about owners was overtaken (`OwnersAreSettled`): `OneOwner` says
  nothing from there on. Evenings, which only the deletion of the playgroup touches
  from outside, go on next to one open request (`QuietEvenings`). The proofs have
  neither bound.
* `alerts`: one user, prices 0 to 3 with 0 for none. The users only meet in the common
  commit, and a killed run has the same effect on the marks of each as another
  user's failing row.

`SYMMETRY` is over what the module does not order: slots, players, printings and the
people who are not the host. No run with symmetry checks liveness.

Deadlock is checked wherever something can always be done: the lifecycle runs,
`stock`, `audit` and `alerts`. The other instances really stop: at the last version of
the bound, when all requests are answered or the event loop is stalled, when all actions
are published and all screens current, when a trade is closed and nobody is left to act,
or when every account is deleted.

Fairness is used by four properties. `ScreensCatchUp` needs the weak fairness of
the steps that some thread, the event loop or the browser will take: a request in a
thread waits only for the row lock, and a session is closed once the loop is free; an
`end_game` that has read goes on once it has the lock (`EndCommit`); the generator
serves its queue while the loop is free; an `EventSource` reconnects by itself. What
none of this resolves is an `end_game` waiting for the lock of a refused action; the
property excuses that state (`Stalled`) and no other. Nobody is obliged to tap, to end the game, or
to drop a connection. `EveryRequestEnds` needs the weak fairness of each request's
next step: threads and the loop go on, and the database grants a lock that is free;
a step that waits is not enabled. Nobody is obliged to post. `CrossingIsTold` and `OverrideShows` assume strong fairness of
the steps of the price job: it is scheduled daily, is not killed each time at the
same point, the provider lists the printing again and again, and the e-mail goes
out once in a while. Strong, because a run may be killed before any of these steps
infinitely often. Users are free: no fairness for them.

## Disagreements between code and documentation

Two runs refute a sentence of the repository; `PROJECT.json` quotes them under
`findings`.

1. *Claims* (`lifecycle_claims`). Two phones may both be told that they have the same
   seat.
2. *Account deletion* (`account_blocked`). A playgroup's creator who has handed it over
   cannot be deleted: `playgroups.created_by` is a NOT NULL foreign key
   (`models.py:1586`) that the hand-over leaves alone, where `admin.py:250-258`
   explains that the hand-over exists because blocking would be unactionable.

Some modules define a further statement that the documentation suggests and the
code does not keep. They are in no run; add one to a `.cfg` and TLC refutes it.

* `Trade.AcceptedWasSeen`: the accept form names no version; the author of the current
  one may counter it while the other's page is open.
* `Stock.SwitchConserves`: switching a deck row to another printing also takes loose
  proxies of that printing, which count as real afterwards.
* `Audit.OneOpen` (with `MaxAudits = 2`): an old page can pause an audit that has
  ended, next to one that is open.
* `Playgroup.SessionIsOfPlaygroup` (with two groups and two sessions): linking a game to
  another playgroup keeps the old evening (`game_service.py:696-705`).
* `Momir.RecoveredIsBackIn`: a fight looks at the defender's seat again, not at the
  attacker's, whose life its lifelink may have raised above zero while it was out
  (`live_game_service.py:1479` says that automatic eliminations revive).
* `Intake.LinesAreDelivered` (on `SpecIntake`, with one printing and two copies): copies
  in a Considering area count as available to a list import (`deck_service.py:3894`),
  whose pull then refuses them; the refusal is ignored (`imports.py:911`) and nothing
  makes up for them, where `imports.py:921-923` says that the rest is acquired and
  reported.
* `LiveSync.NeverStalled`: `routes/live_games.py:88` says that an action runs in the
  threadpool so that it never stalls open streams. A refused one does, when the game is
  ended at that moment (see `Stalled`).
* `GameLifecycle.RunningHasBoard`: the docstring of `GameLiveState`
  (`models.py:1253-1255`) has the row deleted on finalize or with its game. Two ends
  and a start that overlap delete it under a running game.
* `Trade.EveryDeletionIsCleaned`: `inventory_service.py:2974` calls the hook the cleanup
  shared by every path that deletes a row. Four paths do without (`DropRow`).
* `Playgroup.NothingSharedAfterwards`: `playgroup_service.py:686` has the shares of the
  one who leaves cleaned up. A share committed after the DELETE and before the commit
  stays, as does one checked before the departure and written after.
* `Alerts.TargetIsTold`: `update_target_price` keeps `last_alerted_at`, so a price that
  meets the new target is not told if it had met the old one.

Other things the models show, which no documentation contradicts:

* `_record_live_action` runs after the lock is released; two serialised actions may be
  recorded in the opposite order, and the later is logged as a LOST UPDATE that did
  not happen. `end_game` copies the blob without the lock; an action that commits
  before the delete is in the log and missing from the payload.
* A start and an end that overlap leave a finalized game with a live row.
* A proposal checked before a member leaves is inserted after, and stays pending.
  So does a share, and one written between the DELETE of the shares and the commit of
  the departure. If it is an account that is deleted, the foreign key of that share
  refuses the deletion instead.
* The leave of a sole member that overlaps with a join, or a removal with a
  hand-over, leaves a playgroup without an owner; two hand-overs at once leave two.
* An import whose copies the sorter sent to a box, or which joined a row of a deck,
  cannot be undone.
* `_apply_update_printing` corrects a row of an audit wherever it is by then, and a
  scan larger than what is left of a row is counted for that row in full.
  `move_extra` commits in the middle of a batch, so a batch that fails after a move is
  half applied, and its audit in conflict with itself.
* A scheme that is up, not ongoing, and abandoned by name goes to no pile; an ongoing
  one that is up, abandoned without its name, goes to the discard and stays in play.
* A Momir creature with variable toughness (`1+*`) dies in combat, where `_token_dies`
  leaves it to the players; one with vigilance may attack again once its attack is
  resolved. A creature that enters with no toughness lives until something touches it.
* One watch removed between its e-mail and the commit loses the alert marks of every
  user of that run, who are told again.
* `adjust_inventory_row_quantity` reads the quantity without a lock and writes the
  result: of two that overlap, one is lost, and one beside a claim may bring back the
  copies it took. So may a pull or a return (`Conserved` of `Claims` without
  `~overlapped`).
* A claim or a split that is refused is answered with its transaction open. If a handler
  on the event loop waits for one of its locks by then, neither goes on: the loop waits
  for the lock, and the lock for the loop to close the session. No lock timeout ends
  it (`app/db.py`), and the whole process stops answering. `Stalled` is this state;
  `EveryRequestEnds` says that nothing else keeps a request from being answered.
  The assembly page is safe, as its route rolls back.

## Proofs

All proofs are of the modules as checked, for every value of the constants that
satisfies the module's `ASSUME` (which TLC evaluates in every run). None of them
bounds the number of seats, requests, screens, failures, revisions or actions.

**LiveBoardProofs** (`BoardInvariant`). The inductive invariant is `TypeOK`,
`ReplayMatchesBoard`, `CauseIsCurrent` and `SegmentsBehind` (the turns already
taken lie behind the current round and seat), each preserved by each kind of tap.
`CauseIsCurrent` must be part of it: whether a tap revives a seat depends on the
cause recorded earlier. `SettleEffect` states once what the automatic elimination
leaves behind; `RotationIsUnique` that the seat `next_seat_in_rotation` finds is
determined. From it follow `NoUnnoticedLoss`, `ManualIsPermanent` and
`OneTurnPerRound` step by step.

**LiveSyncProofs** (`SyncInvariant`). The central conjuncts are `Chain` (the values
of the row are totally ordered: a higher version contains the lower ones),
`LockProtects` (who holds the lock holds the row's present value) and that every
value held, queued, loaded or shown was written. The lock includes that of a refused
request that is not closed yet. `ImplementsFeed` maps each step to a step
of `LiveFeed` or a stutter; the interesting case is `Deliver`, where a higher version
means, by `Chain`, a superset.

**GameLifecycleProofs** (`LifecycleInvariant`). `LoadsAreBehind` says what a stale
`end_game` may still believe of the game; in particular, a request that loaded a
finalized game cannot drop the row of a running one, unless it loaded that row as one
of `overtaken`.
`OwnerIsCurrent` says that the owner's only open request is up to date.
`FinalizedIsStamped` (every path that finalizes a game sets its end) is a conjunct that
no run lists: it is proved.

**TradeProofs** (`TradeInvariant`). Declining marks revisions in place, and what
becomes current is a maximum over those left. The invariant `Stacked` says that the
revisions not declined form a stack: each was written over the one just below it
that is not declined, and there is a top. So a decline uncovers exactly the version
below, with no induction over the history. `WindowsClosed` says what the two
unlocked windows rely on while `raced` is false, for the rows that are there or were
`dropped`.

**LiveBoardProofs**, second part (`DamageIsPaidInLife`). The board adds its damage
with a fold over a set of sources. `DamageIsSum` relates that fold to partial sums
along an enumeration of the set (`Adds`), by the least part of the set for which it
fails; `DamageMoves` then says what one tap does to the sum.

**StockProofs** (`StockInvariant`, and `AuditInvariant` for `Audit`). The invariant is
`TypeOK`, `Conserved`, `Placed` (both placement properties, for the table and the
deck) and `LogIsSound`: an entry of the import log that can still be undone is about
a row that is there, and real exactly when that row is. Without it an undo could
take proxies and book real copies. Its second half is why `Redirected` matters: the
row an import merged away is gone, and the entry must have followed its copies.
Every operation is shown to give a table that `Follows` the old one (no row that
stays becomes real, or a proxy) with the copies it books; `ChangeKeeps` draws the
conclusion once. An import or an undo threads a table, a log and a balance through
its lines; `Sound` is the invariant of that state, kept by each line. For audits the
invariant adds `HeldAsFound` (what an open audit holds adds up to what was there when
it started); a batch is a composition of steps that each keep `BatchSound`, which
accounts both for what the batch has done and for what it would leave if it failed
now, in whatever order the extras come.
The first part is what `Inventory`'s operators do to the number of real copies of a
printing. `Total` is a recursive function, so its lemmas (it is a sum, it adds, it
moves by what one member moves) are proved by the smallest number at which they would
fail (`Smallest`). On them rest the effects of a merge, an insertion, a drain and a
move on any table.

**StockProofs**, last parts: `SpecIntake`, which adds the imports of `Intake` and is what
the run checks. `IntakeInvariant` is the same invariant. Its loop of pulls threads a
table, and `PullState` says of it after any number of pulls that the rows still to be
drawn from are as they were; a row is due to a pull because it is the first in the order
of the matches that is (`FirstIs`). `ImportsAreUndoable` is a property of steps: what is
credited to a row lands on the row the entry names, and each later placement of the
file repoints the entry with it (`Current`). `ProxiesAreReplaced` compares two tallies
of the table before and after a pull or a claim, of loose real copies and of proxies in
the list: each operation is shown to lower both by the shares it drains (`PullReplaces`,
`ClaimReplaces`).

**VariantsProofs** (`PlanesStayTogether`, `MomirKeepsPlanesTogether`,
`WhatHasLostIsOut`) is about `Overlay` and `Momir`. `PlanesInv` is the inductive form of
`PlanesInOnePile`: it also covers a deck that is on and has not turned up a plane, and a
rebuilding shuffle, which is any order, is shown to keep each card once (`ShuffleIs`).
`MomirInv` says of the board that no creature lives that should be dead, that attacks are
by creatures that are there on somebody else, and that lives, wounds and counters are
numbers, which a fight adds up; what an action does to lives and eliminations is settled
step by step (`BoardKept`). A fight is a composition of two damage steps, each of
which settles what it does (`FightKeeps`), whatever was blocked by whom; what a creature
is dealt is a fold over its opponents, related to partial sums as in `LiveBoardProofs`.

**PlaygroupProofs** (`PlaygroupInvariant`). The invariant says of each playgroup that
its rows, creator and shares fit (`Fits`: one row per user, one owner unless a
decision about owners raced, sharers among the members unless a share did), and of
each request in flight what its checks established about the rows it read (`Reads`)
and that the rows it holds still have their users (`Sound`). Of the shares a
departure leaves behind, those it had deleted are gone and one it had not marks the
race (`Overtaken`), so neither case needs to know when the DELETE ran. Commits compare nothing,
so the case to show is the one the history variable does not excuse: if what was read
is what is there, a hand-over moves the role between two rows, a departure of an
owner with others left is refused, and the deletion of an account hands each
playgroup to one of those left. The theorems also cover the states after a race over
roles, which the constraint of the run does not explore.

**PlaygroupProofs**, last part (`CrossingsAreToldOnce`). It is about `Alerts`, which
shares nothing with `Playgroup`. `ToldOnce` is not inductive. A digest that was
sent is remembered in one of three places: in the marks of the run that sent it, in
the watch once that run has committed, or in `unsaved` (`ToldIsMarked`). `ToldIsMet`
and `MarksAreSound` add that it is counted only while the target is met, and what a
run may hold for a user at each point of its loop.

**ClaimsProofs** (`ClaimsInvariant`). Neither property is inductive. `LocksInv` says
what a request has established by the point it has reached: which locks it holds
(`Locked`), and that a confirm about to write still has its placeholders under lock as
they were displayed (`Fresh`), while one that is done has raised their version
(`Settled`). Two done with the same placeholders as displayed are impossible
(`DoneOnce`), because the second would need the version the first has raised.
`Exclusive` is for the copies, as long as nothing overlapped that should not: whoever
is about to write has planned for rows that are there and that nobody else has planned
for, by the lock of the row or of the deck it claims for (`Secure`, `PlansApart`), and
what it planned comes out even (`Balanced`). That a drain takes what it was asked for
(`SharesAddUp`) is proved by the last row in the order of use; sums are those of the
community module's fold, related to partial sums by the least set at which a law would
fail (`CopiesAreASum`).

**LiveSyncProofs**, last part (`SyncTypeOK`): the parts of `TypeOK` about streams and
failures, which the safety proof does not need.

Assumptions on constants: those named `...Assumption` in the modules, that is finite
sets, positive bounds, and that the model values for "none" are not among the values
they stand beside (`NoSession` is not an evening, `NoRow` not a row, a deck not the identifier of
a row).

Only model-checked:

* Liveness: `ScreensCatchUp`, `EveryRequestEnds`, `CrossingIsTold`, `OverrideShows`.
  Fairness is outside the prover.
* The runs that expect a violation.

Every invariant and every action property of the other runs is stated by a theorem
about the specification its run checks; that of `variants` also starts in the middle
of a game (`MidGame`), which is a reachable state.

## Not modelled, and plan

Built so far, in order: `LiveBoard`, `LiveSync` with `LiveFeed`, `GameLifecycle`,
`Trade`, each with its proofs; then `Inventory`, `Stock`, `Intake`, `Audit`,
`Overlay`, `Playgroup`, `Alerts`, `Claims` and `Momir`. Next:

1. The other operations that lock rows (switch, repoint, undo) and the moves that do
   not, in `Claims`.
2. Composition of `GameLifecycle` with `LiveBoard`: damage sources captured at the
   start against deck picks that commit later, and authorization against seat edits.
3. Account deletion as an actor of `Trade`; password reset and tokens; the tree of
   storage locations with the deletion of one that holds rows; Showcases as mirrors of
   locations.

Left out within the modelled parts: slots and their renumbering, tags and notes of
rows, turning a row into a proxy by hand (undoing its import then removes proxies where
the log has real copies), `skip_already_owned`, variant groups and deck goals, name watches, the
valuation and price history snapshots of the price job, join codes, the statistics
over sessions, the answers a companion page renders.

Left out for good: presentation, recommendation, analytics charts and card data
(read-side computation or I/O: they make up most of the implementation's lines),
templates and scripts except where a page decides what may be posted, and database
migrations.
