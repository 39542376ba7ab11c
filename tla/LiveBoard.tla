----------------------------- MODULE LiveBoard -----------------------------
(***************************************************************************)
(* The scoreboard of one live Commander game: the JSON blob of a           *)
(* GameLiveState row (app/live_game_service.py) and the rows of game_events *)
(* that every applied action appends in the same transaction.              *)
(*                                                                         *)
(* apply_live_action takes the row lock before it reads the blob, so the   *)
(* board sees one action at a time: each action below is the whole locked  *)
(* section, the mutation, the event, the automatic elimination that        *)
(* follows it and the version bump.  LiveSync models the requests around   *)
(* the lock.                                                               *)
(*                                                                         *)
(* The events are append-only and are read by folding them in order        *)
(* (app/game_analytics_service.py).  The model keeps the value of that     *)
(* fold, `replay', advanced by one event at a time, in place of the log.   *)
(*                                                                         *)
(* A seat is named by its place in turn_rotation(game), which is fixed     *)
(* once the game is live: seat 0 is the starting seat.                     *)
(***************************************************************************)
EXTENDS Integers, Functions

CONSTANTS
  N,             \* number of seats
  StartingLife,  \* GameSeat.starting_life, one value for the table
  PoisonLethal,  \* 10 in the code
  CmdLethal,     \* 21 in the code
  PartnerSeats,  \* seats whose deck has two commanders
  LifeDeltas,    \* the deltas a client may send for each kind of action
  PoisonDeltas,
  CmdDeltas,
  SuppliedKeys,  \* the commander-damage source keys a client may name
  Versions       \* bound: the versions explored (Nat for the unbounded board)

Seats == 0 .. N - 1

ASSUME BoardAssumption ==
  /\ N \in Nat \ {0}
  /\ StartingLife \in Int
  /\ PoisonLethal \in Nat \ {0}
  /\ CmdLethal \in Nat \ {0}
  /\ PartnerSeats \subseteq Seats
  /\ LifeDeltas \subseteq Int
  /\ PoisonDeltas \subseteq Int
  /\ CmdDeltas \subseteq Int
  /\ SuppliedKeys \subseteq Seats \X (0 .. 2)
  /\ Versions \subseteq Nat

VARIABLES
  lives,       \* blob.lives
  poison,      \* blob.extraCounters, the entry of type "poison" (0: no entry)
  cmd,         \* blob.cmd[receiver][source key] (0: no entry)
  eliminated,  \* blob.eliminated
  atTurn,      \* blob.eliminatedAtTurn (0: no entry)
  cause,       \* blob.eliminationCause ("none": no entry)
  turn,        \* blob.turn, the round
  current,     \* blob.currentTurnId
  version,     \* GameLiveState.version
  replay       \* what replaying game_events gives so far

counters == <<lives, poison, cmd>>
standing == <<eliminated, atTurn, cause>>
vars == <<lives, poison, cmd, eliminated, atTurn, cause, turn, current,
          version, replay>>

----------------------------------------------------------------------------
(* Commander damage sources. "<seat>" is <<seat, 0>>, "<seat>:<card>" is   *)
(* <<seat, 1>> or <<seat, 2>>.                                             *)

Sources == Seats \X (0 .. 2)

\* The keys of blob.cmdSources: a seat with two commanders deals damage from
\* each of them, any other seat from its bare key.
KnownSources ==
  { k \in Sources : IF k[1] \in PartnerSeats THEN k[2] # 0 ELSE k[2] = 0 }

\* An action may name a source key; an unknown one degrades to the bare seat.
ResolveSource(attacker, supplied) ==
  IF supplied \in KnownSources THEN supplied ELSE <<attacker, 0>>

----------------------------------------------------------------------------
(* Turn order *)

\* j is the first seat still in after seat i, going round the table (seat i
\* itself comes last).
FollowsInRotation(i, out, j) ==
  /\ ~out[j]
  /\ IF j > i THEN \A k \in Seats : i < k /\ k < j => out[k]
              ELSE \A k \in Seats : k > i \/ k < j => out[k]

\* Variant: a round ends only when the starting seat itself gets the turn.
BackToStart(i, j) == j = 0

\* The turn returned to, or passed through, the starting seat.
Wrapped(i, j) == j <= i

----------------------------------------------------------------------------
(* The events, and the fold analytics makes of them *)

LifeEvent(s, d)       == [type |-> "life", seat |-> s, delta |-> d]
CounterEvent(s)       == [type |-> "counter", seat |-> s]
CmdEvent(s, actual)   == [type |-> "cmd", seat |-> s, actual |-> actual]
EliminateEvent(s, b)  == [type |-> "eliminate", seat |-> s, out |-> b,
                          turn |-> turn]
TurnEvent(seat, round) == [type |-> "turn", active |-> seat, turn |-> round]

\* life_delta_for_event: how one event moves the life totals.
LivesAfter(l, e) ==
  CASE e.type = "life" -> [l EXCEPT ![e.seat] = @ + e.delta]
    [] e.type = "cmd"  -> [l EXCEPT ![e.seat] = @ - e.actual]
    [] OTHER -> l

\* The taps that were not commander damage.
TapsAfter(l, e) ==
  IF e.type = "life" THEN [l EXCEPT ![e.seat] = @ + e.delta] ELSE l

\* The last eliminate event of a seat decides whether it is out, and since when.
OutAfter(out, e) ==
  IF e.type = "eliminate" THEN [out EXCEPT ![e.seat] = e.out] ELSE out

RoundOutAfter(rounds, e) ==
  IF e.type = "eliminate"
  THEN [rounds EXCEPT ![e.seat] = IF e.out THEN e.turn ELSE 0] ELSE rounds

\* Who owns the next pace segment when the rotation is replayed, the stamp of the
\* event left aside.
OwnerAfter(owner, out, e) ==
  IF e.type = "turn" /\ \E j \in Seats : FollowsInRotation(owner, out, j)
  THEN CHOOSE j \in Seats : FollowsInRotation(owner, out, j)
  ELSE owner

\* The pace segments, each the round and the seat stamped on a turn event.
SegmentsAfter(segments, e) ==
  IF e.type = "turn" THEN segments \cup {<<e.turn, e.active>>} ELSE segments

Folded(r, e) ==
  [lives    |-> LivesAfter(r.lives, e),
   taps     |-> TapsAfter(r.taps, e),
   out      |-> OutAfter(r.out, e),
   roundOut |-> RoundOutAfter(r.roundOut, e),
   owner    |-> OwnerAfter(r.owner, r.out, e),
   segments |-> SegmentsAfter(r.segments, e)]

\* The blob start_live_game writes and the live_started event that carries it.
Init ==
  /\ lives = [s \in Seats |-> StartingLife]
  /\ poison = [s \in Seats |-> 0]
  /\ cmd = [s \in Seats |-> [k \in Sources |-> 0]]
  /\ eliminated = [s \in Seats |-> FALSE]
  /\ atTurn = [s \in Seats |-> 0]
  /\ cause = [s \in Seats |-> "none"]
  /\ turn = 1
  /\ current = 0
  /\ version = 1
  /\ replay = [lives    |-> [s \in Seats |-> StartingLife],
               taps     |-> [s \in Seats |-> 0],
               out      |-> [s \in Seats |-> FALSE],
               roundOut |-> [s \in Seats |-> 0],
               owner    |-> 0,
               segments |-> {<<1, 0>>}]

Bump == version' = version + 1 /\ version' \in Versions

----------------------------------------------------------------------------
(* Automatic elimination *)

\* The first loss condition seat s meets, in the tracker's order. A bare key of
\* a partner seat sums two commanders and is not evidence of 21 from one.
LossCause(s) ==
  IF lives[s] <= 0 THEN "life"
  ELSE IF poison[s] >= PoisonLethal THEN "poison"
  ELSE IF \E k \in Sources : /\ ~(k[1] \in PartnerSeats /\ k[2] = 0)
                             /\ cmd[s][k] >= CmdLethal
       THEN "cmd"
  ELSE "none"

\* Variant: a hand-made elimination is treated like any other.
NeverPermanent(s) == FALSE

Permanent(s) == eliminated[s] /\ cause[s] = "manual"

LeaveAlone(e) == UNCHANGED standing /\ replay' = Folded(replay, e)

GoOut(s, loss, e) ==
  /\ eliminated' = [eliminated EXCEPT ![s] = TRUE]
  /\ atTurn' = [atTurn EXCEPT ![s] = turn]
  /\ cause' = [cause EXCEPT ![s] = loss]
  /\ replay' = Folded(Folded(replay, e), EliminateEvent(s, TRUE))

\* Variant: a seat that is down already keeps the cause it went out with.
KeepFirstCause(s, loss, e) == LeaveAlone(e)

\* Still down, perhaps for another reason: no event.
RefreshCause(s, loss, e) ==
  /\ cause' = [cause EXCEPT ![s] = loss]
  /\ UNCHANGED <<eliminated, atTurn>>
  /\ replay' = Folded(replay, e)

\* Variant: the automatic revival is not logged.
ReviveSilently(s, e) ==
  /\ eliminated' = [eliminated EXCEPT ![s] = FALSE]
  /\ atTurn' = [atTurn EXCEPT ![s] = 0]
  /\ cause' = [cause EXCEPT ![s] = "none"]
  /\ replay' = Folded(replay, e)

Revive(s, e) ==
  /\ eliminated' = [eliminated EXCEPT ![s] = FALSE]
  /\ atTurn' = [atTurn EXCEPT ![s] = 0]
  /\ cause' = [cause EXCEPT ![s] = "none"]
  /\ replay' = Folded(Folded(replay, e), EliminateEvent(s, FALSE))

\* _auto_eliminate on the seat a mutation affected, after its own event e: the
\* counters are already primed by the caller.
Settle(s, e) ==
  LET loss == LossCause(s)' IN
  \/ Permanent(s) /\ LeaveAlone(e)
  \/ ~eliminated[s] /\ loss = "none" /\ LeaveAlone(e)
  \/ ~eliminated[s] /\ loss # "none" /\ GoOut(s, loss, e)
  \/ eliminated[s] /\ ~Permanent(s) /\ loss # "none" /\ RefreshCause(s, loss, e)
  \/ eliminated[s] /\ ~Permanent(s) /\ loss = "none" /\ Revive(s, e)

----------------------------------------------------------------------------
(* Actions: one per mutating action type of a Commander game *)

Life(s, d) ==
  /\ Bump
  /\ lives' = [lives EXCEPT ![s] = @ + d]
  /\ UNCHANGED <<poison, cmd, turn, current>>
  /\ Settle(s, LifeEvent(s, d))

\* Only poison can lose the game, but a counter of any name settles the seat.
Counter(s, name, d) ==
  /\ Bump
  /\ poison' = IF name = "poison" THEN [poison EXCEPT ![s] = @ + d] ELSE poison
  /\ UNCHANGED <<lives, cmd, turn, current>>
  /\ Settle(s, CounterEvent(s))

\* Variant: a correction may take the mark below zero.
Unfloored(marked, d) == marked + d

\* Commander damage marked from one source is floored at 0.
Floored(marked, d) == IF marked + d > 0 THEN marked + d ELSE 0

\* Variant: life moves by what was asked, not by what the floor let through.
RawDelta(marked, d) == d

ActualDelta(marked, d) == Floored(marked, d) - marked

\* Variant: the attacker is looked at instead of the seat that was hit.
SettlesAttacker(receiver, attacker) == attacker

SettledByCmd(receiver, attacker) == receiver

Cmd(s, attacker, supplied, d) ==
  LET k == ResolveSource(attacker, supplied)
      actual == ActualDelta(cmd[s][k], d)
  IN /\ Bump
     /\ cmd' = [cmd EXCEPT ![s][k] = Floored(@, d)]
     /\ lives' = [lives EXCEPT ![s] = @ - actual]
     /\ UNCHANGED <<poison, turn, current>>
     /\ Settle(SettledByCmd(s, attacker), CmdEvent(s, actual))

\* The manual toggle does not look at the loss conditions.
Eliminate(s, b) ==
  /\ Bump
  /\ eliminated' = [eliminated EXCEPT ![s] = b]
  /\ atTurn' = [atTurn EXCEPT ![s] = IF b THEN turn ELSE 0]
  /\ cause' = [cause EXCEPT ![s] = IF b THEN "manual" ELSE "none"]
  /\ UNCHANGED <<lives, poison, cmd, turn, current>>
  /\ replay' = Folded(replay, EliminateEvent(s, b))

PassTurn(j) ==
  /\ Bump
  /\ FollowsInRotation(current, eliminated, j)
  /\ current' = j
  /\ turn' = IF Wrapped(current, j) THEN turn + 1 ELSE turn
  /\ UNCHANGED <<counters, standing>>
  /\ replay' = Folded(replay, TurnEvent(j, turn'))

\* Everyone is out: the turn stays where it is, and the event is still written.
StayTurn ==
  /\ Bump
  /\ \A j \in Seats : eliminated[j]
  /\ UNCHANGED <<counters, standing, turn, current>>
  /\ replay' = Folded(replay, TurnEvent(current, turn))

Next ==
  \/ \E s \in Seats, d \in LifeDeltas : Life(s, d)
  \/ \E s \in Seats, name \in {"poison", "other"}, d \in PoisonDeltas :
        Counter(s, name, d)
  \/ \E s, a \in Seats, k \in SuppliedKeys, d \in CmdDeltas : Cmd(s, a, k, d)
  \/ \E s \in Seats, b \in BOOLEAN : Eliminate(s, b)
  \/ \E j \in Seats : PassTurn(j)
  \/ StayTurn

Spec == Init /\ [][Next]_vars

----------------------------------------------------------------------------
(* Properties *)

Causes == {"life", "poison", "cmd", "manual", "none"}

ReplayType ==
  [lives : [Seats -> Int], taps : [Seats -> Int], out : [Seats -> BOOLEAN],
   roundOut : [Seats -> Nat], owner : Seats, segments : SUBSET (Nat \X Seats)]

\* The shape of the blob and of the replay.  Commander damage never goes below
\* zero (the floor in the cmd branch of _apply_mutation).
TypeOK ==
  /\ lives \in [Seats -> Int]
  /\ poison \in [Seats -> Int]
  /\ cmd \in [Seats -> [Sources -> Nat]]
  /\ eliminated \in [Seats -> BOOLEAN]
  /\ atTurn \in [Seats -> Nat]
  /\ cause \in [Seats -> Causes]
  /\ turn \in Nat \ {0}
  /\ current \in Seats
  /\ version \in Nat \ {0}
  /\ replay \in ReplayType

\* Replaying game_events gives the blob: the life totals check_life_consistency
\* compares, the seats out and the round each went out that the elimination
\* timeline is built from, and the owner _segment_owners derives by rotation for
\* the seat that has the turn.  It fails as soon as one write to the blob has no
\* event, or an event records a change the floor swallowed.
ReplayMatchesBoard ==
  /\ replay.lives = lives
  /\ replay.out = eliminated
  /\ replay.roundOut = atTurn
  /\ replay.owner = current

\* The cause shown beside a seat is true now, not only when it went out: a seat
\* out automatically meets the very condition named, however its counters moved
\* since, and a seat still in carries no cause or round of elimination left over
\* from an elimination that was undone.
CauseIsCurrent ==
  \A s \in Seats :
    IF eliminated[s] THEN cause[s] \in {"manual", LossCause(s)} \ {"none"}
                     ELSE cause[s] = "none" /\ atTurn[s] = 0

\* Commander damage and life stay coupled through floors, corrections and source
\* keys: a seat's life is what it started with, plus its life taps, minus the
\* commander damage marked against it from every source.
CommanderDamageIsPaidInLife ==
  \A s \in Seats :
    lives[s] = StartingLife + replay.taps[s]
                 - FoldFunction(LAMBDA x, y : x + y, 0, cmd[s])

\* A step that moves any counter of a seat never leaves the seat in play on a
\* lost position.  (A seat revived by hand may stay in play on one until its next
\* tap, so this is not a state invariant of the code.)
NoUnnoticedLoss ==
  [][\A s \in Seats :
       LossCause(s)' # "none" /\ ~eliminated'[s]
         => lives'[s] = lives[s] /\ poison'[s] = poison[s] /\ cmd'[s] = cmd[s]]_vars

\* A seat put out by hand comes back by hand only: no tap on any counter and no
\* turn change brings it back, even one that lifts the seat out of a lost
\* position.
ManualIsPermanent ==
  [][\A s \in Seats :
       eliminated[s] /\ cause[s] = "manual" /\ ~eliminated'[s]
         => UNCHANGED <<counters, turn, current>>]_vars

\* Whoever is put out or brought back meanwhile, a seat starts at most one turn
\* in a round: the (round, seat) that a turn change opens has not been opened
\* before.  The once-per-turn rules of Momir and the pace strip rest on it.
OneTurnPerRound ==
  [][<<turn, current>>' # <<turn, current>>
       => <<turn', current'>> \notin replay.segments]_vars

=============================================================================
