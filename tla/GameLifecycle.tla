--------------------------- MODULE GameLifecycle ---------------------------
(***************************************************************************)
(* The life of one game around its live mode (app/game_service.py,         *)
(* start_live_game of app/live_game_service.py): phones claim seats and    *)
(* pick decks, the owner chooses who starts, edits seats, starts live mode *)
(* and ends the game, once or again to correct the result.                 *)
(*                                                                         *)
(* None of these functions locks a row.  Each loads the game (the          *)
(* session's copy), decides on the copy, and writes the columns it changed *)
(* at its commit, so a request is two steps, Read and Commit, and other    *)
(* requests may commit in between.  Ending a game is three: the game is    *)
(* loaded by the route, its live row by end_game when it comes to it.  The *)
(* other reads of one request are a single snapshot here.                  *)
(***************************************************************************)
EXTENDS Integers

CONSTANTS
  N,            \* number of seats; seat 1 is first clockwise
  Players,      \* users other than the owner who hold the join code
  Decks,        \* the decks a player may bring
  OwnerSlots,   \* requests of the owner that may be open at once
  PlayerSlots,  \* requests of players that may be open at once
  NoValue       \* NULL

Seats == 1 .. N
Slots == OwnerSlots \cup PlayerSlots

\* A live row: its id and the seat its rotation starts at.
LiveRows == [id : Nat \ {0}, start : Seats]

\* An open request: the operation, and what its commit uses of the game it loaded.
Operations ==
  [kind : {"claim"}, player : Players, seat : Seats, deck : Decks \cup {NoValue},
   was : Decks \cup {NoValue}]
    \cup [kind : {"deck"}, seat : Seats, deck : Decks \cup {NoValue},
          was : Decks \cup {NoValue}]
    \cup [kind : {"first"}, seat : Seats \cup {NoValue},
          was : Seats \cup {NoValue}]
    \cup [kind : {"edit"}, seat : Seats, player : Players \cup {NoValue},
          was : Players \cup {NoValue}]
    \cup [kind : {"start"}, first : Seats \cup {NoValue}]
    \cup [kind : {"ending"}, status : {"created", "in_progress", "finalized"},
          ended : BOOLEAN]
    \cup [kind : {"end"}, status : {"created", "in_progress", "finalized"},
          live : LiveRows \cup {NoValue}, ended : BOOLEAN]

ASSUME LifecycleAssumption ==
  /\ N \in Nat \ {0}
  /\ OwnerSlots \cap PlayerSlots = {}
  /\ NoValue \notin Seats \cup Players \cup Decks \cup LiveRows \cup Operations

VARIABLES
  status,    \* Game.status
  first,     \* Game.first_seat_number
  holder,    \* GameSeat.user_id
  deck,      \* GameSeat.deck_id
  live,      \* the GameLiveState row, or NoValue
  ended,     \* Game.ended_at is set
  books,     \* live_started and finalized events so far
  granted,   \* <<player, seat>> of the claims answered with success and not
             \* since edited by the owner
  request,   \* request[o]: the operation open in slot o, or NoValue
  overlapped,\* history: two requests of the owner were open at once
  overtaken  \* history: the live rows (ids) that an end_game loaded although it
             \* had loaded the game, as finalized, before it was running

game == <<status, first, holder, deck, live, ended>>
vars == <<game, books, granted, request, overlapped, overtaken>>

Init ==
  /\ status = "created"
  /\ first \in Seats \cup {NoValue}
  /\ holder = [s \in Seats |-> NoValue]
  /\ deck = [s \in Seats |-> NoValue]
  /\ live = NoValue
  /\ ended = FALSE
  /\ books = [started |-> 0, finalized |-> 0]
  /\ granted = {}
  /\ request = [o \in Slots |-> NoValue]
  /\ overlapped = FALSE
  /\ overtaken = {}

\* _first_seat_id: the seat the rotation starts at.
StartingSeat(f) == IF f = NoValue THEN 1 ELSE f

\* An attribute is written only when it differs from what was loaded.
Written(loaded, new, stored) == IF new = loaded THEN stored ELSE new

Open(o, op) ==
  /\ request[o] = NoValue
  /\ request' = [request EXCEPT ![o] = op]
  /\ overlapped' = (\/ overlapped
                    \/ /\ o \in OwnerSlots
                       /\ \E q \in OwnerSlots : request[q] # NoValue)
  /\ UNCHANGED <<game, books, granted, overtaken>>

Answer(o) ==
  /\ request' = [request EXCEPT ![o] = NoValue]
  /\ UNCHANGED <<overlapped, overtaken>>

Running(o, kind) == request[o] # NoValue /\ request[o].kind = kind

----------------------------------------------------------------------------
(* claim_seat *)

\* Created only, one seat per person, and the seat is free.
MayClaim(p, s) ==
  /\ status = "created"
  /\ \A t \in Seats : holder[t] # p
  /\ holder[s] = NoValue

\* d is the deck the commander typed in resolves to, if any.
ReadClaim(o, p, s, d) ==
  /\ MayClaim(p, s)
  /\ Open(o, [kind |-> "claim", player |-> p, seat |-> s, deck |-> d,
              was |-> deck[s]])

CommitClaim(o) ==
  /\ Running(o, "claim")
  /\ LET p == request[o].player
         s == request[o].seat
         d == request[o].deck
     IN /\ holder' = [holder EXCEPT ![s] = p]
        /\ deck' = [deck EXCEPT ![s] =
                      IF d = NoValue THEN @ ELSE Written(request[o].was, d, @)]
        /\ granted' = granted \cup {<<p, s>>}
  /\ Answer(o)
  /\ UNCHANGED <<status, first, live, ended, books>>

----------------------------------------------------------------------------
(* set_own_seat_deck *)

ReadDeck(o, p, s, d) ==
  /\ status = "created"
  /\ holder[s] = p
  /\ \A t \in Seats : t < s => holder[t] # p   \* the first seat of the player
  /\ Open(o, [kind |-> "deck", seat |-> s, deck |-> d, was |-> deck[s]])

CommitDeck(o) ==
  /\ Running(o, "deck")
  /\ LET s == request[o].seat IN
       deck' = [deck EXCEPT ![s] =
                  Written(request[o].was, request[o].deck, @)]
  /\ Answer(o)
  /\ UNCHANGED <<status, first, holder, live, ended, books, granted>>

----------------------------------------------------------------------------
(* set_first_seat *)

\* Variant: the starting player may be changed at any time.
AnyStatus == status \in {"created", "in_progress", "finalized"}

MayChooseFirst == status = "created"

ReadFirst(o, f) ==
  /\ MayChooseFirst
  /\ Open(o, [kind |-> "first", seat |-> f, was |-> first])

CommitFirst(o) ==
  /\ Running(o, "first")
  /\ first' = Written(request[o].was, request[o].seat, first)
  /\ Answer(o)
  /\ UNCHANGED <<status, holder, deck, live, ended, books, granted>>

----------------------------------------------------------------------------
(* update_seat: the owner edits who sits where, in any status *)

ReadSeatEdit(o, s, p) ==
  Open(o, [kind |-> "edit", seat |-> s, player |-> p, was |-> holder[s]])

CommitSeatEdit(o) ==
  /\ Running(o, "edit")
  /\ LET s == request[o].seat IN
       /\ holder' = [holder EXCEPT ![s] =
                       Written(request[o].was, request[o].player, @)]
       /\ granted' = {c \in granted : c[2] # s}
  /\ Answer(o)
  /\ UNCHANGED <<status, first, deck, live, ended, books>>

----------------------------------------------------------------------------
(* start_live_game *)

\* Re-entry on a running game returns its row; any other status is refused.
MayStart == status = "created"

ReadStart(o) ==
  /\ MayStart
  /\ Open(o, [kind |-> "start", first |-> first])

\* Variant: the flip to in_progress is committed before the row is inserted.
FlipOnly(f) ==
  /\ status' = "in_progress"
  /\ UNCHANGED <<live, books>>

\* Variant: the live_started bookend is left out.
Unannounced(f) ==
  /\ status' = "in_progress"
  /\ live' = [id |-> books.started + 1, start |-> StartingSeat(f)]
  /\ UNCHANGED books

\* The flip, the live row and the live_started bookend share one transaction.
GoLive(f) ==
  /\ status' = "in_progress"
  /\ live' = [id |-> books.started + 1, start |-> StartingSeat(f)]
  /\ books' = [books EXCEPT !.started = @ + 1]

CommitStart(o) ==
  /\ Running(o, "start")
  /\ live = NoValue
  /\ GoLive(request[o].first)
  /\ Answer(o)
  /\ UNCHANGED <<first, holder, deck, ended, granted>>

\* game_live_states.game_id is UNIQUE: the insert fails, nothing is written.
FailStart(o) ==
  /\ Running(o, "start")
  /\ live # NoValue
  /\ Answer(o)
  /\ UNCHANGED <<game, books, granted>>

----------------------------------------------------------------------------
(* end_game *)

\* The route's get_game; end_game's own query returns the same object.
ReadEnd(o) == Open(o, [kind |-> "ending", status |-> status, ended |-> ended])

Overtake(o) ==
  overtaken' = IF /\ request[o].status = "finalized"
                  /\ status = "in_progress"
                  /\ live # NoValue
               THEN overtaken \cup {live.id} ELSE overtaken

\* game.live_state is loaded where end_game first uses it.
LoadLive(o) ==
  /\ Running(o, "ending")
  /\ request' = [request EXCEPT ![o] =
                   [kind |-> "end", status |-> @.status, live |-> live,
                    ended |-> @.ended]]
  /\ Overtake(o)
  /\ UNCHANGED <<game, books, granted, overlapped>>

\* Variant: the live row is dropped without its bookend.
DropSilently(row) ==
  /\ live' = IF live = row THEN NoValue ELSE live
  /\ UNCHANGED books

\* The bookend, and the DELETE of the row that was loaded, which may be gone.
BookAndDrop(row) ==
  /\ books' = [books EXCEPT !.finalized = @ + 1]
  /\ live' = IF live = row THEN NoValue ELSE live

\* Variant: only a game that leaves live mode is stamped.
StampsLive(loaded) == IF loaded.live # NoValue THEN TRUE ELSE ended

Stamped(loaded) == Written(loaded.ended, TRUE, ended)

CommitEnd(o) ==
  /\ Running(o, "end")
  /\ LET loaded == request[o] IN
       /\ IF loaded.live # NoValue THEN BookAndDrop(loaded.live)
                                  ELSE UNCHANGED <<live, books>>
       /\ status' = Written(loaded.status, "finalized", status)
       /\ ended' = Stamped(loaded)
  /\ Answer(o)
  /\ UNCHANGED <<first, holder, deck, granted>>

----------------------------------------------------------------------------

Player(o) ==
  \/ \E p \in Players, s \in Seats, d \in Decks \cup {NoValue} :
       ReadClaim(o, p, s, d) \/ ReadDeck(o, p, s, d)
  \/ CommitClaim(o)
  \/ CommitDeck(o)

Owner(o) ==
  \/ \E f \in Seats \cup {NoValue} : ReadFirst(o, f)
  \/ \E s \in Seats, p \in Players \cup {NoValue} : ReadSeatEdit(o, s, p)
  \/ ReadStart(o)
  \/ ReadEnd(o)
  \/ LoadLive(o)
  \/ CommitFirst(o)
  \/ CommitSeatEdit(o)
  \/ CommitStart(o)
  \/ FailStart(o)
  \/ CommitEnd(o)

Next ==
  \/ \E o \in PlayerSlots : Player(o)
  \/ \E o \in OwnerSlots : Owner(o)

Spec == Init /\ [][Next]_vars

----------------------------------------------------------------------------
(* Properties *)

\* The shape of the rows and of the open requests; a live row is the one its
\* live_started event announced.
TypeOK ==
  /\ status \in {"created", "in_progress", "finalized"}
  /\ first \in Seats \cup {NoValue}
  /\ holder \in [Seats -> Players \cup {NoValue}]
  /\ deck \in [Seats -> Decks \cup {NoValue}]
  /\ live \in LiveRows \cup {NoValue}
  /\ ended \in BOOLEAN
  /\ books \in [started : Nat, finalized : Nat]
  /\ granted \subseteq Players \X Seats
  /\ request \in [Slots -> Operations \cup {NoValue}]
  /\ overlapped \in BOOLEAN
  /\ overtaken \subseteq Nat
  /\ live # NoValue => live.id = books.started

\* A game in progress has its live row, whichever stale requests start and end it,
\* with one exception: a board that an end_game loaded although the game it had
\* loaded before was already over.
InProgressHasBoard ==
  status = "in_progress" /\ live = NoValue => books.started \in overtaken

\* What the docstring of GameLiveState says (models.py:1253-1255, `deleted on
\* finalize (end_game) or game delete'): a running game has its board.  It is in
\* no run: two ends and a start that overlap refute it.
RunningHasBoard == status = "in_progress" => live # NoValue

\* A board never disappears without the finalized event that keeps its last state,
\* also when several end_game requests race: as many bookends as boards gone.
NoBoardUnbooked ==
  books.finalized >= IF live = NoValue THEN books.started ELSE books.started - 1

\* A finalized game has its end time, on every path that can finalize it.
FinalizedIsStamped == status = "finalized" => ended

\* As long as the owner's own requests do not overlap, whatever the players do
\* meanwhile: the board exists exactly while the game is in progress, it is opened
\* and closed once, and its rotation starts where first_seat_number says.
BoardFollowsStatus ==
  ~overlapped =>
    /\ live # NoValue <=> status = "in_progress"
    /\ books.finalized <= books.started
    /\ books.started <= 1
    /\ live # NoValue => live.start = StartingSeat(first)

\* A phone that was told it has a seat keeps it until the owner edits the seat:
\* "Taking someone else's seat is a PermissionError, not a silent overwrite."
GrantsHold == \A c \in granted : holder[c[2]] = c[1]

=============================================================================
