------------------------- MODULE GameLifecycleProofs -------------------------
(***************************************************************************)
(* What holds of a game for any number of seats, players and overlapping   *)
(* requests, and what holds while the owner's requests do not overlap.     *)
(*                                                                         *)
(* The argument: a request that loaded the game earlier may only be behind *)
(* in ways that do not matter.  A live row that an end_game loaded is      *)
(* either the one there is or gone for good, for rows are numbered by the  *)
(* live_started events; and one that had loaded a finalized game can only  *)
(* drop the row of a finalized game, or of one it was overtaken by.        *)
(***************************************************************************)
EXTENDS GameLifecycle, TLAPS

\* What an end_game loaded against what there is now.
LoadsAreBehind ==
  \A o \in Slots :
    /\ Running(o, "ending") => (request[o].ended => ended)
    /\ Running(o, "end") =>
         /\ request[o].live # NoValue => request[o].live.id <= books.started
         /\ request[o].ended => ended
         /\ request[o].status = "finalized" /\ request[o].live # NoValue
              /\ live = request[o].live
            => status # "in_progress" \/ books.started \in overtaken

\* While the owner's requests have not overlapped, the open one is up to date.
OwnerIsCurrent ==
  ~overlapped =>
    /\ \A o, q \in OwnerSlots :
         request[o] # NoValue /\ request[q] # NoValue => o = q
    /\ \A o \in OwnerSlots :
         /\ Running(o, "ending") => /\ request[o].status = status
                                    /\ request[o].ended = ended
         /\ Running(o, "end") => /\ request[o].live = live
                                 /\ request[o].status = status
                                 /\ request[o].ended = ended
         /\ Running(o, "start") => status = "created" /\ request[o].first = first
         /\ Running(o, "first") => status = "created" /\ request[o].was = first
    /\ status = "created" => books.started = 0
    /\ live # NoValue => books.started = 1 /\ books.finalized = 0

LifecycleInv ==
  /\ TypeOK
  /\ InProgressHasBoard
  /\ NoBoardUnbooked
  /\ FinalizedIsStamped
  /\ BoardFollowsStatus
  /\ LoadsAreBehind
  /\ OwnerIsCurrent

\* What is in a slot is an operation with the fields of its kind.
LEMMA OperationFields ==
  ASSUME TypeOK, NEW o \in Slots, request[o] # NoValue
  PROVE  /\ request[o] \in Operations
         /\ Running(o, "claim") => /\ request[o].player \in Players
                                   /\ request[o].seat \in Seats
                                   /\ request[o].deck \in Decks \cup {NoValue}
         /\ Running(o, "deck") => /\ request[o].seat \in Seats
                                  /\ request[o].deck \in Decks \cup {NoValue}
         /\ Running(o, "first") => request[o].seat \in Seats \cup {NoValue}
         /\ Running(o, "edit") => /\ request[o].seat \in Seats
                                  /\ request[o].player \in Players \cup {NoValue}
         /\ Running(o, "start") => request[o].first \in Seats \cup {NoValue}
         /\ Running(o, "ending") =>
              /\ request[o].status \in {"created", "in_progress", "finalized"}
              /\ request[o].ended \in BOOLEAN
         /\ Running(o, "end") =>
              /\ request[o].status \in {"created", "in_progress", "finalized"}
              /\ request[o].live \in LiveRows \cup {NoValue}
              /\ request[o].ended \in BOOLEAN
<1>1. request[o] \in Operations
  BY DEF TypeOK
<1> QED
  BY <1>1 DEF Operations, Running

\* The invariant holds of a setup nobody has opened yet.
LEMMA LifecycleInit == Init => LifecycleInv
<1> SUFFICES ASSUME Init PROVE LifecycleInv
  OBVIOUS
<1>1. TypeOK
  BY DEF Init, TypeOK
<1>2. InProgressHasBoard /\ NoBoardUnbooked /\ FinalizedIsStamped /\ BoardFollowsStatus
  BY DEF Init, InProgressHasBoard, NoBoardUnbooked, FinalizedIsStamped,
         BoardFollowsStatus
<1>3. LoadsAreBehind /\ OwnerIsCurrent
  BY DEF Init, LoadsAreBehind, OwnerIsCurrent, Running, Slots
<1> QED
  BY <1>1, <1>2, <1>3 DEF LifecycleInv

\* Opening a request changes nothing but its slot; what it loaded is what is there.
LEMMA OpenKeeps ==
  ASSUME LifecycleInv, NEW o \in Slots, NEW op \in Operations, Open(o, op),
         op.kind # "end",
         op.kind = "ending" => op.status = status /\ op.ended = ended,
         op.kind = "start" => status = "created" /\ op.first = first,
         op.kind = "first" => status = "created" /\ op.was = first
  PROVE  LifecycleInv'
<1>1. /\ request[o] = NoValue
      /\ request' = [request EXCEPT ![o] = op]
      /\ UNCHANGED <<status, first, holder, deck, live, ended, books, granted,
                     overtaken>>
      /\ overlapped' = (overlapped \/ (o \in OwnerSlots
                          /\ \E q \in OwnerSlots : request[q] # NoValue))
  BY DEF Open, game
<1>2. op # NoValue
  BY LifecycleAssumption
<1>3. TypeOK'
  BY <1>1 DEF LifecycleInv, TypeOK
<1>4. InProgressHasBoard' /\ NoBoardUnbooked' /\ FinalizedIsStamped'
  BY <1>1 DEF LifecycleInv, InProgressHasBoard, NoBoardUnbooked, FinalizedIsStamped
<1>5. ~overlapped' => ~overlapped
  BY <1>1
<1>6. BoardFollowsStatus'
  BY <1>1, <1>5 DEF LifecycleInv, BoardFollowsStatus
<1>7. \A q \in Slots : request'[q] = IF q = o THEN op ELSE request[q]
  BY <1>1 DEF LifecycleInv, TypeOK
<1>8. LoadsAreBehind'
  <2>1. ASSUME NEW q \in Slots, q # o PROVE request'[q] = request[q]
    BY <1>7, <2>1
  <2>2. request'[o] = op
    BY <1>7
  <2> QED
    BY <1>1, <2>1, <2>2 DEF Running, LifecycleInv, LoadsAreBehind
<1>9. OwnerIsCurrent'
  <2> SUFFICES ASSUME ~overlapped' PROVE OwnerIsCurrent'
    BY DEF OwnerIsCurrent
  <2>1. \A q \in OwnerSlots : o \in OwnerSlots => request[q] = NoValue
    BY <1>1
  <2>2. \A p, q \in OwnerSlots :
          request'[p] # NoValue /\ request'[q] # NoValue => p = q
    BY <1>5, <1>7, <2>1 DEF LifecycleInv, OwnerIsCurrent, Slots
  <2>3. \A q \in OwnerSlots : Running(q, "end")' =>
          request'[q].live = live /\ request'[q].status = status
            /\ request'[q].ended = ended
    BY <1>5, <1>7 DEF LifecycleInv, OwnerIsCurrent, Running, Slots
  <2>7. \A q \in OwnerSlots : Running(q, "ending")' =>
          request'[q].status = status /\ request'[q].ended = ended
    BY <1>5, <1>7 DEF LifecycleInv, OwnerIsCurrent, Running, Slots
  <2>4. \A q \in OwnerSlots : Running(q, "start")' =>
          status = "created" /\ request'[q].first = first
    BY <1>5, <1>7 DEF LifecycleInv, OwnerIsCurrent, Running, Slots
  <2>5. \A q \in OwnerSlots : Running(q, "first")' =>
          status = "created" /\ request'[q].was = first
    BY <1>5, <1>7 DEF LifecycleInv, OwnerIsCurrent, Running, Slots
  <2>6. /\ status = "created" => books.started = 0
        /\ live # NoValue => books.started = 1 /\ books.finalized = 0
    BY <1>5 DEF LifecycleInv, OwnerIsCurrent
  <2> QED
    BY <1>1, <2>2, <2>3, <2>4, <2>5, <2>6, <2>7 DEF OwnerIsCurrent
<1> QED
  BY <1>3, <1>4, <1>6, <1>8, <1>9 DEF LifecycleInv

\* Answering a player's or a first-seat or seat-edit request: what it wrote leaves
\* the status, the row and the books alone.
LEMMA QuietCommit ==
  ASSUME LifecycleInv, NEW o \in Slots, Answer(o), TypeOK',
         UNCHANGED <<status, live, ended, books>>,
         UNCHANGED first \/ (Running(o, "first") /\ o \in OwnerSlots)
  PROVE  LifecycleInv'
<1>1. /\ request' = [request EXCEPT ![o] = NoValue]
      /\ overlapped' = overlapped /\ overtaken' = overtaken
  BY DEF Answer
<1>2. \A q \in Slots : request'[q] = IF q = o THEN NoValue ELSE request[q]
  BY <1>1 DEF LifecycleInv, TypeOK
<1>3. InProgressHasBoard' /\ NoBoardUnbooked' /\ FinalizedIsStamped'
  BY <1>1 DEF LifecycleInv, InProgressHasBoard, NoBoardUnbooked, FinalizedIsStamped
<1>4. LoadsAreBehind'
  BY <1>1, <1>2 DEF LifecycleInv, LoadsAreBehind, Running
<1>5. CASE UNCHANGED first
  <2>1. BoardFollowsStatus'
    BY <1>1, <1>5 DEF LifecycleInv, BoardFollowsStatus
  <2>2. OwnerIsCurrent'
    BY <1>1, <1>2, <1>5 DEF LifecycleInv, OwnerIsCurrent, Running, Slots
  <2> QED
    BY <1>3, <1>4, <2>1, <2>2 DEF LifecycleInv
<1>6. CASE Running(o, "first") /\ o \in OwnerSlots
  <2>1. ~overlapped => status = "created" /\ live = NoValue
    BY <1>6 DEF LifecycleInv, OwnerIsCurrent, BoardFollowsStatus
  <2>2. BoardFollowsStatus'
    BY <1>1, <2>1 DEF LifecycleInv, BoardFollowsStatus
  <2>3. ~overlapped => \A q \in OwnerSlots : request'[q] = NoValue
    BY <1>2, <1>6 DEF LifecycleInv, OwnerIsCurrent, Running, Slots
  <2>4. OwnerIsCurrent'
    BY <1>1, <2>3 DEF LifecycleInv, OwnerIsCurrent, Running
  <2> QED
    BY <1>3, <1>4, <2>2, <2>4 DEF LifecycleInv
<1> QED
  BY <1>5, <1>6

\* The invariant survives a player's claim or deck choice (claim_guest_seat, set_own_seat_deck).
LEMMA PlayerKeeps ==
  ASSUME LifecycleInv, NEW o \in PlayerSlots, Player(o) PROVE LifecycleInv'
<1> o \in Slots
  BY DEF Slots
<1>1. ASSUME NEW p \in Players, NEW s \in Seats, NEW d \in Decks \cup {NoValue},
             ReadClaim(o, p, s, d)
      PROVE  LifecycleInv'
  <2> DEFINE op == [kind |-> "claim", player |-> p, seat |-> s, deck |-> d,
                    was |-> deck[s]]
  <2>1. op \in Operations /\ op.kind = "claim"
    BY DEF Operations, LifecycleInv, TypeOK
  <2>2. Open(o, op)
    BY <1>1 DEF ReadClaim
  <2> HIDE DEF op
  <2> QED
    BY <2>1, <2>2, OpenKeeps
<1>2. ASSUME NEW p \in Players, NEW s \in Seats, NEW d \in Decks \cup {NoValue},
             ReadDeck(o, p, s, d)
      PROVE  LifecycleInv'
  <2> DEFINE op == [kind |-> "deck", seat |-> s, deck |-> d, was |-> deck[s]]
  <2>1. op \in Operations /\ op.kind = "deck"
    BY DEF Operations, LifecycleInv, TypeOK
  <2>2. Open(o, op)
    BY <1>2 DEF ReadDeck
  <2> HIDE DEF op
  <2> QED
    BY <2>1, <2>2, OpenKeeps
<1>3. ASSUME CommitClaim(o) PROVE LifecycleInv'
  <2>1. /\ request[o].player \in Players
        /\ request[o].seat \in Seats
        /\ request[o].deck \in Decks \cup {NoValue}
    BY <1>3, OperationFields DEF CommitClaim, LifecycleInv, Running
  <2>2. TypeOK'
    BY <1>3, <2>1 DEF CommitClaim, Written, Answer, LifecycleInv, TypeOK
  <2> QED
    BY <1>3, <2>2, QuietCommit DEF CommitClaim
<1>4. ASSUME CommitDeck(o) PROVE LifecycleInv'
  <2>1. request[o].seat \in Seats /\ request[o].deck \in Decks \cup {NoValue}
    BY <1>4, OperationFields DEF CommitDeck, LifecycleInv, Running
  <2>2. TypeOK'
    BY <1>4, <2>1 DEF CommitDeck, Written, Answer, LifecycleInv, TypeOK
  <2> QED
    BY <1>4, <2>2, QuietCommit DEF CommitDeck
<1> QED
  BY <1>1, <1>2, <1>3, <1>4 DEF Player

\* The owner's requests load the game as it is.
LEMMA OwnerReads ==
  ASSUME LifecycleInv, NEW o \in OwnerSlots,
         \/ \E f \in Seats \cup {NoValue} : ReadFirst(o, f)
         \/ \E s \in Seats, p \in Players \cup {NoValue} : ReadSeatEdit(o, s, p)
         \/ ReadStart(o)
         \/ ReadEnd(o)
  PROVE  LifecycleInv'
<1> o \in Slots
  BY DEF Slots
<1>1. ASSUME NEW f \in Seats \cup {NoValue}, ReadFirst(o, f) PROVE LifecycleInv'
  <2> DEFINE op == [kind |-> "first", seat |-> f, was |-> first]
  <2>1. op \in Operations /\ op.kind = "first" /\ op.was = first
    BY DEF Operations, LifecycleInv, TypeOK
  <2>2. Open(o, op) /\ status = "created"
    BY <1>1 DEF ReadFirst, MayChooseFirst
  <2> HIDE DEF op
  <2> QED
    BY <2>1, <2>2, OpenKeeps
<1>2. ASSUME NEW s \in Seats, NEW p \in Players \cup {NoValue}, ReadSeatEdit(o, s, p)
      PROVE  LifecycleInv'
  <2> DEFINE op == [kind |-> "edit", seat |-> s, player |-> p, was |-> holder[s]]
  <2>1. op \in Operations /\ op.kind = "edit"
    BY DEF Operations, LifecycleInv, TypeOK
  <2>2. Open(o, op)
    BY <1>2 DEF ReadSeatEdit
  <2> HIDE DEF op
  <2> QED
    BY <2>1, <2>2, OpenKeeps
<1>3. ASSUME ReadStart(o) PROVE LifecycleInv'
  <2> DEFINE op == [kind |-> "start", first |-> first]
  <2>1. op \in Operations /\ op.kind = "start" /\ op.first = first
    BY DEF Operations, LifecycleInv, TypeOK
  <2>2. Open(o, op) /\ status = "created"
    BY <1>3 DEF ReadStart, MayStart
  <2> HIDE DEF op
  <2> QED
    BY <2>1, <2>2, OpenKeeps
<1>4. ASSUME ReadEnd(o) PROVE LifecycleInv'
  <2> DEFINE op == [kind |-> "ending", status |-> status, ended |-> ended]
  <2>1. /\ op \in Operations
        /\ op.kind = "ending" /\ op.status = status /\ op.ended = ended
    BY DEF Operations, LifecycleInv, TypeOK
  <2>2. Open(o, op)
    BY <1>4 DEF ReadEnd
  <2> HIDE DEF op
  <2> QED
    BY <2>1, <2>2, OpenKeeps
<1> QED
  BY <1>1, <1>2, <1>3, <1>4

\* The invariant survives the owner's choice of the starting seat (set_first_player).
LEMMA FirstKeeps ==
  ASSUME LifecycleInv, NEW o \in OwnerSlots, CommitFirst(o) PROVE LifecycleInv'
<1> o \in Slots
  BY DEF Slots
<1>1. request[o].seat \in Seats \cup {NoValue}
  BY OperationFields DEF CommitFirst, LifecycleInv, Running
<1>2. TypeOK'
  BY <1>1 DEF CommitFirst, Written, Answer, LifecycleInv, TypeOK
<1> QED
  BY <1>2, QuietCommit DEF CommitFirst

\* The invariant survives the owner's seat edits.
LEMMA EditKeeps ==
  ASSUME LifecycleInv, NEW o \in OwnerSlots, CommitSeatEdit(o) PROVE LifecycleInv'
<1> o \in Slots
  BY DEF Slots
<1>1. request[o].seat \in Seats /\ request[o].player \in Players \cup {NoValue}
  BY OperationFields DEF CommitSeatEdit, LifecycleInv, Running
<1>2. TypeOK'
  BY <1>1 DEF CommitSeatEdit, Written, Answer, LifecycleInv, TypeOK
<1> QED
  BY <1>2, QuietCommit DEF CommitSeatEdit

\* The invariant survives a start that is refused.
LEMMA FailStartKeeps ==
  ASSUME LifecycleInv, NEW o \in OwnerSlots, FailStart(o) PROVE LifecycleInv'
<1> o \in Slots
  BY DEF Slots
<1>1. TypeOK'
  BY DEF FailStart, Answer, game, LifecycleInv, TypeOK
<1> QED
  BY <1>1, QuietCommit DEF FailStart, game

\* The invariant survives start_live_game.
LEMMA StartKeeps ==
  ASSUME LifecycleInv, NEW o \in OwnerSlots, CommitStart(o) PROVE LifecycleInv'
<1> DEFINE row == [id |-> books.started + 1, start |-> StartingSeat(request[o].first)]
<1> o \in Slots
  BY DEF Slots
<1>1. /\ Running(o, "start")
      /\ live = NoValue
      /\ status' = "in_progress"
      /\ live' = row
      /\ books' = [books EXCEPT !.started = @ + 1]
      /\ request' = [request EXCEPT ![o] = NoValue]
      /\ UNCHANGED <<first, holder, deck, ended, granted, overlapped, overtaken>>
  BY DEF CommitStart, GoLive, Answer
<1>2. books.started \in Nat /\ books.finalized \in Nat
  BY DEF LifecycleInv, TypeOK
<1>3. /\ books'.started = books.started + 1
      /\ books'.finalized = books.finalized
      /\ books' \in [started : Nat, finalized : Nat]
  BY <1>1, <1>2 DEF LifecycleInv, TypeOK
<1>4. row \in LiveRows /\ row.id = books.started + 1
      /\ row.start = StartingSeat(request[o].first)
  <2>1. request[o].first \in Seats \cup {NoValue}
    BY <1>1, OperationFields DEF LifecycleInv, Running
  <2>2. 1 \in Seats
    BY LifecycleAssumption DEF Seats
  <2>3. StartingSeat(request[o].first) \in Seats
    BY <2>1, <2>2 DEF StartingSeat
  <2> QED
    BY <1>2, <2>3 DEF LiveRows
<1> HIDE DEF row
<1>5. row # NoValue
  BY <1>4, LifecycleAssumption
<1>6. \A q \in Slots : request'[q] = IF q = o THEN NoValue ELSE request[q]
  BY <1>1 DEF LifecycleInv, TypeOK
<1>7. TypeOK'
  BY <1>1, <1>3, <1>4, <1>6 DEF LifecycleInv, TypeOK
<1>8. InProgressHasBoard' /\ NoBoardUnbooked' /\ FinalizedIsStamped'
  BY <1>1, <1>2, <1>3, <1>5 DEF LifecycleInv, InProgressHasBoard, NoBoardUnbooked,
                                FinalizedIsStamped
<1>9. LoadsAreBehind'
  <2>1. ASSUME NEW q \in Slots, Running(q, "end")'
        PROVE  /\ request[q].live # NoValue => request[q].live.id <= books.started
                                               /\ request[q].live.id \in Nat
               /\ request[q].ended => ended
               /\ request'[q] = request[q]
    <3>1. request'[q] = request[q] /\ Running(q, "end")
      BY <1>6, <2>1 DEF Running
    <3>2. request[q].live \in LiveRows \cup {NoValue}
      BY <3>1, OperationFields DEF LifecycleInv, Running
    <3> QED
      BY <3>1, <3>2 DEF LifecycleInv, LoadsAreBehind, LiveRows
  <2>2. ASSUME NEW q \in Slots, Running(q, "end")', request[q].live # NoValue
        PROVE  request[q].live # row /\ request[q].live.id <= books'.started
    BY <1>2, <1>3, <1>4, <2>1, <2>2
  <2>3. ASSUME NEW q \in Slots, Running(q, "ending")'
        PROVE  request'[q].ended => ended
    BY <1>6, <2>3 DEF Running, LifecycleInv, LoadsAreBehind
  <2> QED
    BY <1>1, <2>1, <2>2, <2>3 DEF LoadsAreBehind
<1>10. CASE overlapped
  BY <1>1, <1>7, <1>8, <1>9, <1>10 DEF LifecycleInv, BoardFollowsStatus, OwnerIsCurrent
<1>11. CASE ~overlapped
  <2>1. /\ status = "created" /\ request[o].first = first
        /\ books.started = 0 /\ books.finalized <= books.started
    BY <1>1, <1>11 DEF LifecycleInv, OwnerIsCurrent, BoardFollowsStatus
  <2>2. \A q \in OwnerSlots : request'[q] = NoValue
    BY <1>1, <1>6, <1>11 DEF LifecycleInv, OwnerIsCurrent, Running, Slots
  <2>3. books'.started = 1 /\ books'.finalized = 0
    BY <1>2, <1>3, <2>1
  <2>4. BoardFollowsStatus'
    BY <1>1, <1>4, <1>5, <2>1, <2>3 DEF BoardFollowsStatus
  <2>5. OwnerIsCurrent'
    BY <1>1, <2>2, <2>3 DEF OwnerIsCurrent, Running
  <2> QED
    BY <1>7, <1>8, <1>9, <2>4, <2>5 DEF LifecycleInv
<1> QED
  BY <1>10, <1>11

\* The invariant survives the late loading of the live row: it is the row there is,
\* and if that of a running game taken to be over, it is noted.
LEMMA LoadLiveKeeps ==
  ASSUME LifecycleInv, NEW o \in OwnerSlots, LoadLive(o) PROVE LifecycleInv'
<1> DEFINE was == request[o]
           op == [kind |-> "end", status |-> was.status, live |-> live,
                  ended |-> was.ended]
<1> o \in Slots
  BY DEF Slots
<1>1. /\ Running(o, "ending")
      /\ request' = [request EXCEPT ![o] = op]
      /\ UNCHANGED <<status, first, holder, deck, live, ended, books, granted,
                     overlapped>>
      /\ overtaken \subseteq overtaken'
      /\ was.status = "finalized" /\ live # NoValue /\ status = "in_progress"
           => live.id \in overtaken'
      /\ overtaken' \subseteq overtaken \cup (IF live = NoValue THEN {} ELSE {live.id})
  BY DEF LoadLive, Overtake, game
<1>2. /\ was.status \in {"created", "in_progress", "finalized"}
      /\ was.ended \in BOOLEAN
  BY <1>1, OperationFields DEF LifecycleInv, Running
<1>3. op \in Operations /\ op # NoValue /\ op.kind = "end" /\ op.live = live
      /\ op.status = was.status /\ op.ended = was.ended
  <2>1. op \in Operations
    BY <1>2 DEF Operations, LifecycleInv, TypeOK
  <2> QED
    BY <2>1, LifecycleAssumption
<1>4. live # NoValue => live.id = books.started /\ live.id \in Nat
  BY DEF LifecycleInv, TypeOK, LiveRows
<1> HIDE DEF op
<1>5. \A q \in Slots : request'[q] = IF q = o THEN op ELSE request[q]
  BY <1>1 DEF LifecycleInv, TypeOK
<1>6. TypeOK'
  <2>1. overtaken' \subseteq Nat
    BY <1>1, <1>4 DEF LifecycleInv, TypeOK
  <2> QED
    BY <1>1, <1>3, <2>1 DEF LifecycleInv, TypeOK
<1>7. /\ InProgressHasBoard' /\ NoBoardUnbooked' /\ FinalizedIsStamped'
      /\ BoardFollowsStatus'
  BY <1>1 DEF LifecycleInv, InProgressHasBoard, NoBoardUnbooked, FinalizedIsStamped,
              BoardFollowsStatus
<1>8. LoadsAreBehind'
  <2>1. /\ op.live # NoValue => op.live.id <= books.started
        /\ op.ended => ended
        /\ op.status = "finalized" /\ op.live # NoValue /\ live = op.live
             => status # "in_progress" \/ books.started \in overtaken'
    <3>1. was.ended => ended
      BY <1>1 DEF LifecycleInv, LoadsAreBehind
    <3> QED
      BY <1>1, <1>3, <1>4, <3>1 DEF LifecycleInv, TypeOK
  <2>2. \A q \in Slots \ {o} : request'[q] = request[q]
    BY <1>5
  <2>3. request'[o] = op /\ op.kind = "end"
    BY <1>3, <1>5
  <2> QED
    BY <1>1, <2>1, <2>2, <2>3 DEF Running, LifecycleInv, LoadsAreBehind
<1>9. OwnerIsCurrent'
  <2> SUFFICES ASSUME ~overlapped PROVE OwnerIsCurrent'
    BY <1>1 DEF OwnerIsCurrent
  <2>1. was.status = status /\ was.ended = ended
    BY <1>1 DEF LifecycleInv, OwnerIsCurrent
  <2>2. \A q \in OwnerSlots : request'[q] = IF q = o THEN op ELSE request[q]
    BY <1>5 DEF Slots
  <2>3. request[o] # NoValue
    BY <1>1 DEF Running
  <2>4. \A q \in OwnerSlots : q # o => request'[q] = NoValue
    BY <2>2, <2>3 DEF LifecycleInv, OwnerIsCurrent
  <2>5. request'[o] = op
    BY <2>2
  <2>6. /\ status = "created" => books.started = 0
        /\ live # NoValue => books.started = 1 /\ books.finalized = 0
    BY DEF LifecycleInv, OwnerIsCurrent
  <2> QED
    BY <1>1, <1>3, <2>1, <2>4, <2>5, <2>6 DEF OwnerIsCurrent, Running
<1> QED
  BY <1>6, <1>7, <1>8, <1>9 DEF LifecycleInv

\* The invariant survives end_game.
LEMMA EndKeeps ==
  ASSUME LifecycleInv, NEW o \in OwnerSlots, CommitEnd(o) PROVE LifecycleInv'
<1> DEFINE loaded == request[o]
           dropped == loaded.live # NoValue /\ live = loaded.live
<1> o \in Slots
  BY DEF Slots
<1>1. /\ Running(o, "end")
      /\ live' = IF dropped THEN NoValue ELSE live
      /\ books' = IF loaded.live # NoValue
                  THEN [books EXCEPT !.finalized = @ + 1] ELSE books
      /\ status' = IF loaded.status = "finalized" THEN status ELSE "finalized"
      /\ ended' = IF loaded.ended = TRUE THEN ended ELSE TRUE
      /\ request' = [request EXCEPT ![o] = NoValue]
      /\ UNCHANGED <<first, holder, deck, granted, overlapped, overtaken>>
  BY DEF CommitEnd, BookAndDrop, Written, Stamped, Answer
<1>2. /\ loaded.status \in {"created", "in_progress", "finalized"}
      /\ loaded.live \in LiveRows \cup {NoValue}
      /\ loaded.ended \in BOOLEAN
  BY <1>1, OperationFields DEF LifecycleInv, Running
<1>3. /\ loaded.ended => ended
      /\ loaded.status = "finalized" /\ dropped
           => status # "in_progress" \/ books.started \in overtaken
  BY <1>1 DEF LifecycleInv, LoadsAreBehind
<1>4. \A q \in Slots : request'[q] = IF q = o THEN NoValue ELSE request[q]
  BY <1>1 DEF LifecycleInv, TypeOK
<1>5. books.started \in Nat /\ books.finalized \in Nat
  BY DEF LifecycleInv, TypeOK
<1>6. /\ books'.started = books.started
      /\ books'.finalized = IF loaded.live # NoValue THEN books.finalized + 1
                                                     ELSE books.finalized
      /\ books' \in [started : Nat, finalized : Nat]
  BY <1>1, <1>5 DEF LifecycleInv, TypeOK
<1>7. ended' \in BOOLEAN /\ (ended => ended') /\ ended'
  BY <1>1, <1>2, <1>3 DEF LifecycleInv, TypeOK
<1> HIDE DEF loaded, dropped
<1>8. TypeOK'
  BY <1>1, <1>4, <1>6, <1>7 DEF LifecycleInv, TypeOK
<1>9. InProgressHasBoard'
  BY <1>1, <1>3, <1>6 DEF LifecycleInv, InProgressHasBoard
<1>10. NoBoardUnbooked'
  <2>1. CASE dropped
    BY <1>1, <1>5, <1>6, <2>1 DEF LifecycleInv, NoBoardUnbooked, dropped
  <2>2. CASE ~dropped
    BY <1>1, <1>5, <1>6, <2>2 DEF LifecycleInv, NoBoardUnbooked
  <2> QED
    BY <2>1, <2>2
<1>11. FinalizedIsStamped'
  BY <1>7 DEF FinalizedIsStamped
<1>12. LoadsAreBehind'
  <2>1. ASSUME NEW q \in Slots, Running(q, "end")'
        PROVE  request'[q] = request[q] /\ Running(q, "end")
    BY <1>4, <2>1 DEF Running
  <2>4. ASSUME NEW q \in Slots, Running(q, "ending")'
        PROVE  request'[q] = request[q] /\ Running(q, "ending")
    BY <1>4, <2>4 DEF Running
  <2>2. live' # NoValue => live' = live
    BY <1>1
  <2>3. status' = "in_progress" => status = "in_progress"
    BY <1>1
  <2> QED
    BY <1>1, <1>6, <1>7, <2>1, <2>2, <2>3, <2>4 DEF LifecycleInv, LoadsAreBehind
<1>13. CASE overlapped
  BY <1>1, <1>8, <1>9, <1>10, <1>11, <1>12, <1>13
     DEF LifecycleInv, BoardFollowsStatus, OwnerIsCurrent
<1>14. CASE ~overlapped
  <2>1. loaded.live = live /\ loaded.status = status
    BY <1>1, <1>14 DEF LifecycleInv, OwnerIsCurrent, loaded
  <2>2. live' = NoValue /\ status' = "finalized"
    BY <1>1, <2>1 DEF dropped
  <2>3. /\ live # NoValue => books.started = 1 /\ books.finalized = 0
        /\ books.finalized <= books.started /\ books.started <= 1
    BY <1>14 DEF LifecycleInv, OwnerIsCurrent, BoardFollowsStatus
  <2>4. books'.finalized <= books'.started /\ books'.started <= 1
    BY <1>5, <1>6, <2>1, <2>3
  <2>5. \A q \in OwnerSlots : request'[q] = NoValue
    BY <1>1, <1>4, <1>14 DEF LifecycleInv, OwnerIsCurrent, Running, Slots
  <2>6. BoardFollowsStatus'
    BY <2>2, <2>4 DEF BoardFollowsStatus
  <2>7. OwnerIsCurrent'
    BY <2>2, <2>5 DEF OwnerIsCurrent, Running
  <2> QED
    BY <1>8, <1>9, <1>10, <1>11, <1>12, <2>6, <2>7 DEF LifecycleInv
<1> QED
  BY <1>13, <1>14

\* Every step of a game keeps the invariant.
LEMMA LifecycleNext == LifecycleInv /\ [Next]_vars => LifecycleInv'
<1> SUFFICES ASSUME LifecycleInv, [Next]_vars PROVE LifecycleInv'
  OBVIOUS
<1>1. ASSUME NEW o \in PlayerSlots, Player(o) PROVE LifecycleInv'
  BY <1>1, PlayerKeeps
<1>2. ASSUME NEW o \in OwnerSlots, Owner(o) PROVE LifecycleInv'
  BY <1>2, OwnerReads, LoadLiveKeeps, FirstKeeps, EditKeeps, StartKeeps,
     FailStartKeeps, EndKeeps DEF Owner
<1>3. CASE UNCHANGED vars
  BY <1>3 DEF vars, game, LifecycleInv, TypeOK, InProgressHasBoard, NoBoardUnbooked,
              FinalizedIsStamped, BoardFollowsStatus, LoadsAreBehind, OwnerIsCurrent,
              Running
<1> QED
  BY <1>1, <1>2, <1>3 DEF Next

\* The invariant behind what follows.
THEOREM LifecycleInvariant == Spec => []LifecycleInv
  BY LifecycleInit, LifecycleNext, PTL DEF Spec

\* The rows and the open requests keep their shape, and the live row is the one its
\* live_started event announced.
THEOREM TypeCorrect == Spec => []TypeOK
<1>1. LifecycleInv => TypeOK
  BY DEF LifecycleInv
<1> QED
  BY <1>1, LifecycleInvariant, PTL

\* A game in progress has its board, however many requests start and end it, unless
\* an end_game that had loaded the game as finalized loaded that very board.
THEOREM RunningGamesKeepTheirBoard == Spec => []InProgressHasBoard
<1>1. LifecycleInv => InProgressHasBoard
  BY DEF LifecycleInv
<1> QED
  BY <1>1, LifecycleInvariant, PTL

\* No board disappears without its finalized event.
THEOREM EveryBoardIsBooked == Spec => []NoBoardUnbooked
<1>1. LifecycleInv => NoBoardUnbooked
  BY DEF LifecycleInv
<1> QED
  BY <1>1, LifecycleInvariant, PTL

\* A finalized game has its end time.
THEOREM FinalizedGamesHaveAnEnd == Spec => []FinalizedIsStamped
<1>1. LifecycleInv => FinalizedIsStamped
  BY DEF LifecycleInv
<1> QED
  BY <1>1, LifecycleInvariant, PTL

\* While the owner's requests do not overlap, the board follows the status and its
\* rotation starts at the first seat, whatever any number of players does.
THEOREM OneOwnerIsEnough == Spec => []BoardFollowsStatus
<1>1. LifecycleInv => BoardFollowsStatus
  BY DEF LifecycleInv
<1> QED
  BY <1>1, LifecycleInvariant, PTL

=============================================================================
