-------------------------- MODULE LiveBoardProofs --------------------------
(***************************************************************************)
(* What holds of the scoreboard for every table size, threshold, set of    *)
(* deltas and number of actions.                                           *)
(***************************************************************************)
EXTENDS LiveBoard, FiniteSetTheorems, WellFoundedInduction, TLAPS

(* What one event does to the replay. *)

\* Folding a life event moves one life total and nothing else.
LEMMA FoldLife ==
  ASSUME NEW r \in ReplayType, NEW s \in Seats, NEW d \in Int
  PROVE  LET f == Folded(r, LifeEvent(s, d))
         IN  /\ f \in ReplayType
             /\ f.lives = [r.lives EXCEPT ![s] = @ + d]
             /\ f.out = r.out
             /\ f.roundOut = r.roundOut
             /\ f.owner = r.owner
             /\ f.segments = r.segments
  BY DEF Folded, LifeEvent, LivesAfter, TapsAfter, OutAfter, RoundOutAfter,
         OwnerAfter, SegmentsAfter, ReplayType

\* Folding a counter event changes nothing the fold computes.
LEMMA FoldCounter ==
  ASSUME NEW r \in ReplayType, NEW s \in Seats
  PROVE  Folded(r, CounterEvent(s)) = r
  BY DEF Folded, CounterEvent, LivesAfter, TapsAfter, OutAfter, RoundOutAfter,
         OwnerAfter, SegmentsAfter, ReplayType

\* Folding a commander damage event takes the damage from the life of its target.
LEMMA FoldCmd ==
  ASSUME NEW r \in ReplayType, NEW s \in Seats, NEW d \in Int
  PROVE  LET f == Folded(r, CmdEvent(s, d))
         IN  /\ f \in ReplayType
             /\ f.lives = [r.lives EXCEPT ![s] = @ - d]
             /\ f.out = r.out
             /\ f.roundOut = r.roundOut
             /\ f.owner = r.owner
             /\ f.segments = r.segments
  BY DEF Folded, CmdEvent, LivesAfter, TapsAfter, OutAfter, RoundOutAfter,
         OwnerAfter, SegmentsAfter, ReplayType

\* Folding an elimination sets the seat out, or brings it back.
LEMMA FoldEliminate ==
  ASSUME NEW r \in ReplayType, NEW s \in Seats, NEW b \in BOOLEAN, turn \in Nat
  PROVE  LET f == Folded(r, EliminateEvent(s, b))
         IN  /\ f \in ReplayType
             /\ f.lives = r.lives
             /\ f.out = [r.out EXCEPT ![s] = b]
             /\ f.roundOut = [r.roundOut EXCEPT ![s] = IF b THEN turn ELSE 0]
             /\ f.owner = r.owner
             /\ f.segments = r.segments
  BY DEF Folded, EliminateEvent, LivesAfter, TapsAfter, OutAfter, RoundOutAfter,
         OwnerAfter, SegmentsAfter, ReplayType

\* Folding a turn moves the owner of the turn and the round.
LEMMA FoldTurn ==
  ASSUME NEW r \in ReplayType, NEW j \in Seats, NEW n \in Nat
  PROVE  LET f == Folded(r, TurnEvent(j, n))
         IN  /\ f \in ReplayType
             /\ f.lives = r.lives
             /\ f.out = r.out
             /\ f.roundOut = r.roundOut
             /\ f.owner = OwnerAfter(r.owner, r.out, TurnEvent(j, n))
             /\ f.segments = r.segments \cup {<<n, j>>}
<1>1. OwnerAfter(r.owner, r.out, TurnEvent(j, n)) \in Seats
  BY DEF OwnerAfter, ReplayType
<1> QED
  BY <1>1 DEF Folded, TurnEvent, LivesAfter, TapsAfter, OutAfter, RoundOutAfter,
              SegmentsAfter, ReplayType

----------------------------------------------------------------------------
(* Automatic elimination. *)

\* The standing of seat s, as its row of the blob shows it.
Shown(s) ==
  IF eliminated[s] THEN cause[s] \in {"manual", LossCause(s)} \ {"none"}
                   ELSE cause[s] = "none" /\ atTurn[s] = 0

LossCauses == {"life", "poison", "cmd", "none"}

\* The cause of a loss is one of the causes, or none.
LEMMA LossCauseType == \A s : LossCause(s) \in LossCauses
  BY DEF LossCause, LossCauses

\* And so it is after a step.
LEMMA LossCauseTypeNext == \A s : LossCause(s)' \in LossCauses
  BY DEF LossCause, LossCauses

\* _auto_eliminate keeps the blob and the replay well typed and in step, touches
\* no other seat, and leaves seat s with a standing its counters justify.
LEMMA SettleEffect ==
  ASSUME TypeOK, NEW s \in Seats, NEW e,
         Settle(s, e), Folded(replay, e) \in ReplayType
  PROVE  /\ eliminated' \in [Seats -> BOOLEAN]
         /\ atTurn' \in [Seats -> Nat]
         /\ cause' \in [Seats -> Causes]
         /\ replay' \in ReplayType
         /\ Folded(replay, e).out = eliminated => replay'.out = eliminated'
         /\ Folded(replay, e).roundOut = atTurn => replay'.roundOut = atTurn'
         /\ replay'.lives = Folded(replay, e).lives
         /\ replay'.owner = Folded(replay, e).owner
         /\ replay'.segments = Folded(replay, e).segments
         /\ \A k \in Seats \ {s} : /\ eliminated'[k] = eliminated[k]
                                 /\ atTurn'[k] = atTurn[k]
                                 /\ cause'[k] = cause[k]
         /\ LossCause(s)' # "none" => eliminated'[s]
         /\ eliminated[s] /\ cause[s] = "manual" => eliminated'[s]
         /\ Shown(s) => Shown(s)'
<1> DEFINE r == Folded(replay, e)
           loss == LossCause(s)'
<1>0. /\ eliminated \in [Seats -> BOOLEAN] /\ atTurn \in [Seats -> Nat]
      /\ cause \in [Seats -> Causes] /\ turn \in Nat /\ loss \in LossCauses
      /\ loss \in Causes /\ "none" \in Causes
  BY LossCauseTypeNext DEF TypeOK, Causes, LossCauses
<1>1. CASE Permanent(s) /\ LeaveAlone(e)
  BY <1>0, <1>1 DEF Permanent, LeaveAlone, standing, Shown
<1>2. CASE ~eliminated[s] /\ loss = "none" /\ LeaveAlone(e)
  BY <1>0, <1>2 DEF LeaveAlone, standing, Shown
<1>3. CASE ~eliminated[s] /\ loss # "none" /\ GoOut(s, loss, e)
  <2>1. /\ replay' \in ReplayType
        /\ replay'.out = [r.out EXCEPT ![s] = TRUE]
        /\ replay'.roundOut = [r.roundOut EXCEPT ![s] = turn]
        /\ replay'.lives = r.lives
        /\ replay'.owner = r.owner
        /\ replay'.segments = r.segments
    <3>1. replay' = Folded(r, EliminateEvent(s, TRUE))
      BY <1>3 DEF GoOut
    <3> QED BY <1>0, <3>1, FoldEliminate
  <2>2. /\ eliminated' = [eliminated EXCEPT ![s] = TRUE]
        /\ atTurn' = [atTurn EXCEPT ![s] = turn]
        /\ cause' = [cause EXCEPT ![s] = loss]
    BY <1>3 DEF GoOut
  <2> HIDE DEF loss
  <2> QED BY <1>0, <1>3, <2>1, <2>2 DEF Shown, loss
<1>4. CASE eliminated[s] /\ ~Permanent(s) /\ loss # "none" /\ RefreshCause(s, loss, e)
  <2> HIDE DEF loss
  <2> QED BY <1>0, <1>4 DEF RefreshCause, Permanent, Shown, loss
<1>5. CASE eliminated[s] /\ ~Permanent(s) /\ loss = "none" /\ Revive(s, e)
  <2>1. /\ replay' \in ReplayType
        /\ replay'.out = [r.out EXCEPT ![s] = FALSE]
        /\ replay'.roundOut = [r.roundOut EXCEPT ![s] = 0]
        /\ replay'.lives = r.lives
        /\ replay'.owner = r.owner
        /\ replay'.segments = r.segments
    <3>1. replay' = Folded(r, EliminateEvent(s, FALSE))
      BY <1>5 DEF Revive
    <3> QED BY <1>0, <3>1, FoldEliminate
  <2>2. /\ eliminated' = [eliminated EXCEPT ![s] = FALSE]
        /\ atTurn' = [atTurn EXCEPT ![s] = 0]
        /\ cause' = [cause EXCEPT ![s] = "none"]
    BY <1>5 DEF Revive
  <2> HIDE DEF loss
  <2> QED BY <1>0, <1>5, <2>1, <2>2 DEF Shown, Permanent, loss
<1> QED
  BY <1>1, <1>2, <1>3, <1>4, <1>5 DEF Settle

----------------------------------------------------------------------------
(* The inductive invariant: the replay agrees with the board, every standing *)
(* is justified, and the turns started so far lie behind the current one in  *)
(* the order (round, place in the rotation).                                 *)

SegmentsBehind ==
  \A p \in replay.segments : p[1] < turn \/ (p[1] = turn /\ p[2] <= current)

BoardInv == TypeOK /\ ReplayMatchesBoard /\ CauseIsCurrent /\ SegmentsBehind

\* A seat whose counters do not change has the cause it had.
LEMMA SameCounters ==
  ASSUME NEW k, lives'[k] = lives[k], poison'[k] = poison[k], cmd'[k] = cmd[k]
  PROVE  LossCause(k)' = LossCause(k)
  BY DEF LossCause

\* A tap on the counters of seat s, whatever it does to them, followed by Settle.
LEMMA TapStep ==
  ASSUME BoardInv, NEW s \in Seats, NEW e,
         Bump, turn' = turn, current' = current,
         lives' \in [Seats -> Int], poison' \in [Seats -> Int],
         cmd' \in [Seats -> [Sources -> Nat]],
         \A k \in Seats \ {s} : /\ lives'[k] = lives[k]
                              /\ poison'[k] = poison[k]
                              /\ cmd'[k] = cmd[k],
         Folded(replay, e) \in ReplayType,
         Folded(replay, e).lives = lives',
         Folded(replay, e).out = replay.out,
         Folded(replay, e).roundOut = replay.roundOut,
         Folded(replay, e).owner = replay.owner,
         Folded(replay, e).segments = replay.segments,
         Settle(s, e)
  PROVE  /\ BoardInv'
         /\ \A k \in Seats :
              LossCause(k)' # "none" /\ ~eliminated'[k]
                => lives'[k] = lives[k] /\ poison'[k] = poison[k] /\ cmd'[k] = cmd[k]
         /\ \A k \in Seats :
              eliminated[k] /\ cause[k] = "manual" => eliminated'[k]
<1>1. TypeOK
  BY DEF BoardInv
<1>2. /\ eliminated' \in [Seats -> BOOLEAN]
      /\ atTurn' \in [Seats -> Nat]
      /\ cause' \in [Seats -> Causes]
      /\ replay' \in ReplayType
      /\ Folded(replay, e).out = eliminated => replay'.out = eliminated'
      /\ Folded(replay, e).roundOut = atTurn => replay'.roundOut = atTurn'
      /\ replay'.lives = Folded(replay, e).lives
      /\ replay'.owner = Folded(replay, e).owner
      /\ replay'.segments = Folded(replay, e).segments
      /\ \A k \in Seats \ {s} : /\ eliminated'[k] = eliminated[k]
                              /\ atTurn'[k] = atTurn[k]
                              /\ cause'[k] = cause[k]
      /\ LossCause(s)' # "none" => eliminated'[s]
      /\ eliminated[s] /\ cause[s] = "manual" => eliminated'[s]
      /\ Shown(s) => Shown(s)'
  BY <1>1, SettleEffect
<1>3. TypeOK'
  BY <1>1, <1>2 DEF TypeOK, Bump
<1>4. ReplayMatchesBoard'
  BY <1>2 DEF BoardInv, ReplayMatchesBoard
<1>5. CauseIsCurrent'
  <2>1. Shown(s)'
    BY <1>2 DEF BoardInv, CauseIsCurrent, Shown
  <2>2. ASSUME NEW k \in Seats \ {s} PROVE Shown(k)'
    <3>1. LossCause(k)' = LossCause(k)
      BY SameCounters
    <3>2. eliminated'[k] = eliminated[k] /\ atTurn'[k] = atTurn[k] /\ cause'[k] = cause[k]
      BY <1>2
    <3>3. Shown(k)
      BY DEF BoardInv, CauseIsCurrent, Shown
    <3> QED
      BY <3>1, <3>2, <3>3 DEF Shown
  <2> QED
    BY <2>1, <2>2 DEF CauseIsCurrent, Shown
<1>6. SegmentsBehind'
  BY <1>2 DEF BoardInv, SegmentsBehind
<1> QED
  BY <1>2, <1>3, <1>4, <1>5, <1>6 DEF BoardInv

\* A life tap keeps the invariant, takes notice of every loss and leaves manual exits alone.
LEMMA LifeStep ==
  ASSUME BoardInv, NEW s \in Seats, NEW d \in LifeDeltas, Life(s, d)
  PROVE  /\ BoardInv'
         /\ \A k \in Seats :
              LossCause(k)' # "none" /\ ~eliminated'[k]
                => lives'[k] = lives[k] /\ poison'[k] = poison[k] /\ cmd'[k] = cmd[k]
         /\ \A k \in Seats :
              eliminated[k] /\ cause[k] = "manual" => eliminated'[k]
<1> DEFINE e == LifeEvent(s, d)
<1>1. TypeOK /\ replay \in ReplayType /\ replay.lives = lives /\ d \in Int
  BY BoardAssumption DEF BoardInv, TypeOK, ReplayMatchesBoard
<1>2. /\ lives' = [lives EXCEPT ![s] = @ + d]
      /\ poison' = poison /\ cmd' = cmd /\ turn' = turn /\ current' = current
      /\ Bump /\ Settle(s, e)
  BY DEF Life
<1>3. /\ lives' \in [Seats -> Int]
      /\ lives' = [replay.lives EXCEPT ![s] = @ + d]
  BY <1>1, <1>2 DEF TypeOK
<1>4. /\ Folded(replay, e) \in ReplayType
      /\ Folded(replay, e).lives = lives'
      /\ Folded(replay, e).out = replay.out
      /\ Folded(replay, e).roundOut = replay.roundOut
      /\ Folded(replay, e).owner = replay.owner
      /\ Folded(replay, e).segments = replay.segments
  <2>1. Folded(replay, e).lives = [replay.lives EXCEPT ![s] = @ + d]
    BY <1>1, FoldLife
  <2>2. /\ Folded(replay, e) \in ReplayType
        /\ Folded(replay, e).out = replay.out
        /\ Folded(replay, e).roundOut = replay.roundOut
        /\ Folded(replay, e).owner = replay.owner
        /\ Folded(replay, e).segments = replay.segments
    BY <1>1, FoldLife
  <2> QED BY <1>3, <2>1, <2>2
<1>5. poison' \in [Seats -> Int] /\ cmd' \in [Seats -> [Sources -> Nat]]
  BY <1>1, <1>2 DEF TypeOK
<1>6. \A k \in Seats \ {s} :
        lives'[k] = lives[k] /\ poison'[k] = poison[k] /\ cmd'[k] = cmd[k]
  BY <1>1, <1>2 DEF TypeOK
<1> HIDE DEF e
<1> QED
  BY <1>2, <1>3, <1>4, <1>5, <1>6, TapStep

\* So does a poison tap.
LEMMA CounterStep ==
  ASSUME BoardInv, NEW s \in Seats, NEW name, NEW d \in PoisonDeltas,
         Counter(s, name, d)
  PROVE  /\ BoardInv'
         /\ \A k \in Seats :
              LossCause(k)' # "none" /\ ~eliminated'[k]
                => lives'[k] = lives[k] /\ poison'[k] = poison[k] /\ cmd'[k] = cmd[k]
         /\ \A k \in Seats :
              eliminated[k] /\ cause[k] = "manual" => eliminated'[k]
<1> DEFINE e == CounterEvent(s)
<1>1. TypeOK /\ replay \in ReplayType /\ replay.lives = lives /\ d \in Int
  BY BoardAssumption DEF BoardInv, TypeOK, ReplayMatchesBoard
<1>2. /\ poison' = IF name = "poison" THEN [poison EXCEPT ![s] = @ + d] ELSE poison
      /\ lives' = lives /\ cmd' = cmd /\ turn' = turn /\ current' = current
      /\ Bump /\ Settle(s, e)
  BY DEF Counter
<1>3. Folded(replay, e) = replay
  BY <1>1, FoldCounter
<1>4. /\ lives' \in [Seats -> Int] /\ poison' \in [Seats -> Int]
      /\ cmd' \in [Seats -> [Sources -> Nat]]
  BY <1>1, <1>2 DEF TypeOK
<1>5. \A k \in Seats \ {s} :
        lives'[k] = lives[k] /\ poison'[k] = poison[k] /\ cmd'[k] = cmd[k]
  BY <1>1, <1>2 DEF TypeOK
<1> HIDE DEF e
<1> QED
  BY <1>1, <1>2, <1>3, <1>4, <1>5, TapStep

\* So does commander damage, with the life it takes.
LEMMA CmdStep ==
  ASSUME BoardInv, NEW s \in Seats, NEW a \in Seats, NEW key \in SuppliedKeys,
         NEW d \in CmdDeltas, Cmd(s, a, key, d)
  PROVE  /\ BoardInv'
         /\ \A k \in Seats :
              LossCause(k)' # "none" /\ ~eliminated'[k]
                => lives'[k] = lives[k] /\ poison'[k] = poison[k] /\ cmd'[k] = cmd[k]
         /\ \A k \in Seats :
              eliminated[k] /\ cause[k] = "manual" => eliminated'[k]
<1> DEFINE src == ResolveSource(a, key)
           marked == cmd[s][src]
           actual == ActualDelta(marked, d)
           e == CmdEvent(s, actual)
<1>1. TypeOK /\ replay \in ReplayType /\ replay.lives = lives /\ d \in Int
  BY BoardAssumption DEF BoardInv, TypeOK, ReplayMatchesBoard
<1>2. src \in Sources
  BY BoardAssumption DEF ResolveSource, KnownSources, Sources
<1>3. marked \in Nat
  BY <1>1, <1>2 DEF TypeOK
<1>4. Floored(marked, d) \in Nat /\ actual \in Int
  BY <1>1, <1>3 DEF ActualDelta, Floored
<1>5. /\ cmd' = [cmd EXCEPT ![s] = [cmd[s] EXCEPT ![src] = Floored(marked, d)]]
      /\ lives' = [lives EXCEPT ![s] = @ - actual]
      /\ poison' = poison /\ turn' = turn /\ current' = current
      /\ Bump /\ Settle(s, e)
  BY DEF Cmd, SettledByCmd
<1> HIDE DEF src, marked, actual
<1>6. /\ lives' \in [Seats -> Int]
      /\ lives' = [replay.lives EXCEPT ![s] = @ - actual]
  BY <1>1, <1>4, <1>5 DEF TypeOK
<1>7. /\ Folded(replay, e) \in ReplayType
      /\ Folded(replay, e).lives = lives'
      /\ Folded(replay, e).out = replay.out
      /\ Folded(replay, e).roundOut = replay.roundOut
      /\ Folded(replay, e).owner = replay.owner
      /\ Folded(replay, e).segments = replay.segments
  <2>1. Folded(replay, e).lives = [replay.lives EXCEPT ![s] = @ - actual]
    BY <1>1, <1>4, FoldCmd
  <2>2. /\ Folded(replay, e) \in ReplayType
        /\ Folded(replay, e).out = replay.out
        /\ Folded(replay, e).roundOut = replay.roundOut
        /\ Folded(replay, e).owner = replay.owner
        /\ Folded(replay, e).segments = replay.segments
    BY <1>1, <1>4, FoldCmd
  <2> QED BY <1>6, <2>1, <2>2
<1>8. poison' \in [Seats -> Int] /\ cmd' \in [Seats -> [Sources -> Nat]]
  BY <1>1, <1>2, <1>4, <1>5 DEF TypeOK
<1>9. \A k \in Seats \ {s} :
        lives'[k] = lives[k] /\ poison'[k] = poison[k] /\ cmd'[k] = cmd[k]
  BY <1>1, <1>5 DEF TypeOK
<1> HIDE DEF e
<1> QED
  BY <1>5, <1>6, <1>7, <1>8, <1>9, TapStep

\* The elimination toggle keeps the invariant and takes no life.
LEMMA EliminateStep ==
  ASSUME BoardInv, NEW s \in Seats, NEW b \in BOOLEAN, Eliminate(s, b)
  PROVE  BoardInv'
<1> DEFINE e == EliminateEvent(s, b)
           O == [eliminated EXCEPT ![s] = b]
           R == [atTurn EXCEPT ![s] = IF b THEN turn ELSE 0]
<1>1. /\ TypeOK /\ replay \in ReplayType /\ turn \in Nat
      /\ replay.out = eliminated /\ replay.roundOut = atTurn
  BY DEF BoardInv, TypeOK, ReplayMatchesBoard
<1>2. /\ eliminated' = O /\ atTurn' = R
      /\ cause' = [cause EXCEPT ![s] = IF b THEN "manual" ELSE "none"]
      /\ lives' = lives /\ poison' = poison /\ cmd' = cmd
      /\ turn' = turn /\ current' = current
      /\ Bump /\ replay' = Folded(replay, e)
  BY DEF Eliminate
<1>3. /\ replay' \in ReplayType
      /\ replay'.out = O /\ replay'.roundOut = R
      /\ replay'.lives = replay.lives
      /\ replay'.owner = replay.owner
      /\ replay'.segments = replay.segments
  <2>1. replay' = Folded(replay, e)
    BY <1>2
  <2>2. Folded(replay, e).out = O /\ Folded(replay, e).roundOut = R
    BY <1>1, FoldEliminate
  <2> QED BY <1>1, <2>1, <2>2, FoldEliminate
<1>5. TypeOK'
  BY <1>1, <1>2, <1>3 DEF TypeOK, Bump, Causes
<1>6. ReplayMatchesBoard'
  BY <1>2, <1>3 DEF BoardInv, ReplayMatchesBoard
<1>7. CauseIsCurrent'
  <2>1. \A k \in Seats : LossCause(k)' = LossCause(k)
    BY <1>2, SameCounters
  <2>2. Shown(s)'
    BY <1>1, <1>2 DEF Shown, TypeOK
  <2>3. \A k \in Seats \ {s} : Shown(k)'
    BY <1>1, <1>2, <2>1 DEF BoardInv, CauseIsCurrent, Shown, TypeOK
  <2> QED
    BY <2>2, <2>3 DEF CauseIsCurrent, Shown
<1>8. SegmentsBehind'
  BY <1>2, <1>3 DEF BoardInv, SegmentsBehind
<1> QED
  BY <1>5, <1>6, <1>7, <1>8 DEF BoardInv

\* The rotation gives the turn to one seat only.
LEMMA RotationIsUnique ==
  ASSUME NEW i \in Seats, NEW out \in [Seats -> BOOLEAN],
         NEW j \in Seats, NEW k \in Seats,
         FollowsInRotation(i, out, j), FollowsInRotation(i, out, k)
  PROVE  j = k
<1>1. i \in Int /\ j \in Int /\ k \in Int
  BY BoardAssumption DEF Seats
<1> QED
  BY <1>1 DEF FollowsInRotation

\* Passing the turn keeps the invariant and never gives a seat two turns in a round.
LEMMA PassTurnStep ==
  ASSUME BoardInv, NEW j \in Seats, PassTurn(j)
  PROVE  /\ BoardInv'
         /\ <<turn', j>> \notin replay.segments
<1>1. /\ TypeOK /\ replay \in ReplayType /\ turn \in Nat \ {0} /\ current \in Seats
      /\ eliminated \in [Seats -> BOOLEAN]
      /\ replay.out = eliminated /\ replay.owner = current
  BY DEF BoardInv, TypeOK, ReplayMatchesBoard
<1>2. /\ FollowsInRotation(current, eliminated, j)
      /\ current' = j
      /\ turn' = IF j <= current THEN turn + 1 ELSE turn
      /\ lives' = lives /\ poison' = poison /\ cmd' = cmd
      /\ eliminated' = eliminated /\ atTurn' = atTurn /\ cause' = cause
      /\ Bump /\ replay' = Folded(replay, TurnEvent(j, turn'))
  BY DEF PassTurn, counters, standing, Wrapped
<1>3. turn' \in Nat \ {0} /\ j \in Int /\ current \in Int
  BY <1>1, <1>2, BoardAssumption DEF Seats
<1>4. OwnerAfter(replay.owner, replay.out, TurnEvent(j, turn')) = j
  BY <1>1, <1>2, RotationIsUnique DEF OwnerAfter, TurnEvent
<1>5. replay' = Folded(replay, TurnEvent(j, turn'))
  BY <1>2
<1>6. /\ replay' \in ReplayType
      /\ replay'.owner = j
      /\ replay'.segments = replay.segments \cup {<<turn', j>>}
      /\ replay'.lives = replay.lives
      /\ replay'.out = replay.out
      /\ replay'.roundOut = replay.roundOut
  <2> DEFINE f == Folded(replay, TurnEvent(j, turn'))
  <2>1. /\ f \in ReplayType
        /\ f.lives = replay.lives
        /\ f.out = replay.out
        /\ f.roundOut = replay.roundOut
        /\ f.owner = OwnerAfter(replay.owner, replay.out, TurnEvent(j, turn'))
        /\ f.segments = replay.segments \cup {<<turn', j>>}
    <3>1. replay \in ReplayType /\ turn' \in Nat
      BY <1>1, <1>3
    <3> QED
      BY <3>1, FoldTurn
  <2>2. replay' = f
    BY <1>5
  <2> HIDE DEF f
  <2> QED
    BY <1>4, <2>1, <2>2
<1>7. TypeOK'
  BY <1>1, <1>2, <1>3, <1>6 DEF TypeOK, Bump
<1>8. ReplayMatchesBoard'
  BY <1>2, <1>6 DEF BoardInv, ReplayMatchesBoard
<1>9. CauseIsCurrent'
  <2>1. \A k \in Seats : LossCause(k)' = LossCause(k)
    BY <1>2, SameCounters
  <2> QED
    BY <1>2, <2>1 DEF BoardInv, CauseIsCurrent
<1>10. \A p \in replay.segments : p[1] \in Nat /\ p[2] \in Int
  <2>1. replay.segments \subseteq Nat \X Seats
    BY <1>1 DEF ReplayType
  <2>2. Seats \subseteq Int
    BY BoardAssumption DEF Seats
  <2> QED
    BY <2>1, <2>2
<1>11. \A p \in replay.segments :
         p[1] < turn' \/ (p[1] = turn' /\ p[2] < j)
  BY <1>1, <1>2, <1>3, <1>10 DEF BoardInv, SegmentsBehind
<1>12. SegmentsBehind'
  BY <1>2, <1>3, <1>6, <1>10, <1>11 DEF SegmentsBehind
<1>13. <<turn', j>> \notin replay.segments
  BY <1>3, <1>11
<1> QED
  BY <1>7, <1>8, <1>9, <1>12, <1>13 DEF BoardInv

\* A pass with nobody left to take the turn keeps the invariant.
LEMMA StayTurnStep ==
  ASSUME BoardInv, StayTurn
  PROVE  BoardInv'
<1>1. /\ TypeOK /\ replay \in ReplayType /\ turn \in Nat \ {0} /\ current \in Seats
      /\ replay.out = eliminated /\ replay.owner = current
  BY DEF BoardInv, TypeOK, ReplayMatchesBoard
<1>2. /\ \A j \in Seats : eliminated[j]
      /\ current' = current /\ turn' = turn
      /\ lives' = lives /\ poison' = poison /\ cmd' = cmd
      /\ eliminated' = eliminated /\ atTurn' = atTurn /\ cause' = cause
      /\ Bump /\ replay' = Folded(replay, TurnEvent(current, turn))
  BY DEF StayTurn, counters, standing
<1>3. OwnerAfter(replay.owner, replay.out, TurnEvent(current, turn)) = current
  BY <1>1, <1>2 DEF OwnerAfter, FollowsInRotation
<1>4. replay' = Folded(replay, TurnEvent(current, turn))
  BY <1>2
<1>5. /\ replay' \in ReplayType
      /\ replay'.owner = current
      /\ replay'.segments = replay.segments \cup {<<turn, current>>}
      /\ replay'.lives = replay.lives
      /\ replay'.out = replay.out
      /\ replay'.roundOut = replay.roundOut
  BY <1>1, <1>3, <1>4, FoldTurn
<1>6. TypeOK'
  BY <1>1, <1>2, <1>5 DEF TypeOK, Bump
<1>7. ReplayMatchesBoard'
  BY <1>2, <1>5 DEF BoardInv, ReplayMatchesBoard
<1>8. CauseIsCurrent'
  <2>1. \A k \in Seats : LossCause(k)' = LossCause(k)
    BY <1>2, SameCounters
  <2> QED
    BY <1>2, <2>1 DEF BoardInv, CauseIsCurrent
<1>9. current \in Int
  BY <1>1, BoardAssumption DEF Seats
<1>10. SegmentsBehind'
  BY <1>1, <1>2, <1>5, <1>9 DEF BoardInv, SegmentsBehind
<1> QED
  BY <1>6, <1>7, <1>8, <1>10 DEF BoardInv

----------------------------------------------------------------------------
(* The invariant holds. *)

\* The invariant holds of a board that has just started.
LEMMA InitBoardInv == Init => BoardInv
<1> SUFFICES ASSUME Init PROVE BoardInv
  OBVIOUS
<1>1. 0 \in Seats /\ 0 \in Nat
  BY BoardAssumption DEF Seats
<1>2. TypeOK
  BY <1>1, BoardAssumption DEF Init, TypeOK, ReplayType, Causes
<1>3. ReplayMatchesBoard
  BY DEF Init, ReplayMatchesBoard
<1>4. CauseIsCurrent
  BY DEF Init, CauseIsCurrent
<1>5. SegmentsBehind
  BY DEF Init, SegmentsBehind
<1> QED
  BY <1>2, <1>3, <1>4, <1>5 DEF BoardInv

\* The invariant survives a step that changes nothing.
LEMMA StutterBoardInv == BoardInv /\ UNCHANGED vars => BoardInv'
  BY DEF BoardInv, vars, TypeOK, ReplayMatchesBoard, CauseIsCurrent, LossCause,
         SegmentsBehind

\* Every action on the board keeps the invariant.
LEMMA NextBoardInv == BoardInv /\ [Next]_vars => BoardInv'
<1> SUFFICES ASSUME BoardInv, Next PROVE BoardInv'
  BY StutterBoardInv
<1>1. ASSUME NEW s \in Seats, NEW d \in LifeDeltas, Life(s, d) PROVE BoardInv'
  BY <1>1, LifeStep
<1>2. ASSUME NEW s \in Seats, NEW name \in {"poison", "other"},
             NEW d \in PoisonDeltas, Counter(s, name, d)
      PROVE  BoardInv'
  BY <1>2, CounterStep
<1>3. ASSUME NEW s \in Seats, NEW a \in Seats, NEW k \in SuppliedKeys,
             NEW d \in CmdDeltas, Cmd(s, a, k, d)
      PROVE  BoardInv'
  BY <1>3, CmdStep
<1>4. ASSUME NEW s \in Seats, NEW b \in BOOLEAN, Eliminate(s, b) PROVE BoardInv'
  BY <1>4, EliminateStep
<1>5. ASSUME NEW j \in Seats, PassTurn(j) PROVE BoardInv'
  BY <1>5, PassTurnStep
<1>6. ASSUME StayTurn PROVE BoardInv'
  BY <1>6, StayTurnStep
<1> QED
  BY <1>1, <1>2, <1>3, <1>4, <1>5, <1>6 DEF Next

\* BoardInv holds in every state of a board, for any table and any taps.
THEOREM BoardInvariant == Spec => []BoardInv
  BY InitBoardInv, NextBoardInv, PTL DEF Spec

\* The blob keeps its shape, and commander damage never goes below zero,
\* whatever the order and the size of the taps.
THEOREM TypeCorrect == Spec => []TypeOK
<1>1. BoardInv => TypeOK
  BY DEF BoardInv
<1> QED
  BY <1>1, BoardInvariant, PTL

\* Replaying the events of a game gives its life totals, its eliminations with
\* their rounds, and the seat that has the turn, after any number of actions.
THEOREM ReplayIsExact == Spec => []ReplayMatchesBoard
<1>1. BoardInv => ReplayMatchesBoard
  BY DEF BoardInv
<1> QED
  BY <1>1, BoardInvariant, PTL

\* The cause shown for a seat is the one its counters give now.
THEOREM CausesStayCurrent == Spec => []CauseIsCurrent
<1>1. BoardInv => CauseIsCurrent
  BY DEF BoardInv
<1> QED
  BY <1>1, BoardInvariant, PTL

----------------------------------------------------------------------------
(* What a step may not do. *)

\* No tap leaves the seat it moved in play on a lost position.
THEOREM NoLossGoesUnnoticed == Spec => NoUnnoticedLoss
<1> DEFINE P == \A s \in Seats :
       LossCause(s)' # "none" /\ ~eliminated'[s]
         => lives'[s] = lives[s] /\ poison'[s] = poison[s] /\ cmd'[s] = cmd[s]
<1>1. BoardInv /\ [Next]_vars => P \/ UNCHANGED vars
  <2> SUFFICES ASSUME BoardInv, Next PROVE P
    OBVIOUS
  <2>1. ASSUME NEW s \in Seats, NEW d \in LifeDeltas, Life(s, d) PROVE P
    BY <2>1, LifeStep
  <2>2. ASSUME NEW s \in Seats, NEW name \in {"poison", "other"},
               NEW d \in PoisonDeltas, Counter(s, name, d)
        PROVE  P
    BY <2>2, CounterStep
  <2>3. ASSUME NEW s \in Seats, NEW a \in Seats, NEW k \in SuppliedKeys,
               NEW d \in CmdDeltas, Cmd(s, a, k, d)
        PROVE  P
    BY <2>3, CmdStep
  <2>4. ASSUME NEW s \in Seats, NEW b \in BOOLEAN, Eliminate(s, b) PROVE P
    BY <2>4 DEF Eliminate
  <2>5. ASSUME NEW j \in Seats, PassTurn(j) PROVE P
    BY <2>5 DEF PassTurn, counters
  <2>6. ASSUME StayTurn PROVE P
    BY <2>6 DEF StayTurn, counters
  <2> QED
    BY <2>1, <2>2, <2>3, <2>4, <2>5, <2>6 DEF Next
<1> QED
  BY <1>1, BoardInvariant, PTL DEF Spec, NoUnnoticedLoss

\* A seat put out by hand is brought back by hand only.
THEOREM ManualStaysOut == Spec => ManualIsPermanent
<1> DEFINE P == \A s \in Seats :
       eliminated[s] /\ cause[s] = "manual" /\ ~eliminated'[s]
         => UNCHANGED <<counters, turn, current>>
<1>1. BoardInv /\ [Next]_vars => P \/ UNCHANGED vars
  <2> SUFFICES ASSUME BoardInv, Next PROVE P
    OBVIOUS
  <2>1. ASSUME NEW s \in Seats, NEW d \in LifeDeltas, Life(s, d) PROVE P
    BY <2>1, LifeStep
  <2>2. ASSUME NEW s \in Seats, NEW name \in {"poison", "other"},
               NEW d \in PoisonDeltas, Counter(s, name, d)
        PROVE  P
    BY <2>2, CounterStep
  <2>3. ASSUME NEW s \in Seats, NEW a \in Seats, NEW k \in SuppliedKeys,
               NEW d \in CmdDeltas, Cmd(s, a, k, d)
        PROVE  P
    BY <2>3, CmdStep
  <2>4. ASSUME NEW s \in Seats, NEW b \in BOOLEAN, Eliminate(s, b) PROVE P
    BY <2>4 DEF Eliminate, counters
  <2>5. ASSUME NEW j \in Seats, PassTurn(j) PROVE P
    BY <2>5 DEF PassTurn, standing
  <2>6. ASSUME StayTurn PROVE P
    BY <2>6 DEF StayTurn, standing
  <2> QED
    BY <2>1, <2>2, <2>3, <2>4, <2>5, <2>6 DEF Next
<1> QED
  BY <1>1, BoardInvariant, PTL DEF Spec, ManualIsPermanent

\* A seat starts at most one turn in a round, whoever goes out or comes back.
THEOREM TurnsComeOncePerRound == Spec => OneTurnPerRound
<1> DEFINE P == <<turn, current>>' # <<turn, current>>
                  => <<turn', current'>> \notin replay.segments
<1>1. BoardInv /\ [Next]_vars => P \/ UNCHANGED vars
  <2> SUFFICES ASSUME BoardInv, Next PROVE P
    OBVIOUS
  <2>1. ASSUME NEW s \in Seats, NEW d \in LifeDeltas, Life(s, d) PROVE P
    BY <2>1 DEF Life
  <2>2. ASSUME NEW s \in Seats, NEW name \in {"poison", "other"},
               NEW d \in PoisonDeltas, Counter(s, name, d)
        PROVE  P
    BY <2>2 DEF Counter
  <2>3. ASSUME NEW s \in Seats, NEW a \in Seats, NEW k \in SuppliedKeys,
               NEW d \in CmdDeltas, Cmd(s, a, k, d)
        PROVE  P
    BY <2>3 DEF Cmd
  <2>4. ASSUME NEW s \in Seats, NEW b \in BOOLEAN, Eliminate(s, b) PROVE P
    BY <2>4 DEF Eliminate
  <2>5. ASSUME NEW j \in Seats, PassTurn(j) PROVE P
    BY <2>5, PassTurnStep DEF PassTurn
  <2>6. ASSUME StayTurn PROVE P
    BY <2>6 DEF StayTurn
  <2> QED
    BY <2>1, <2>2, <2>3, <2>4, <2>5, <2>6 DEF Next
<1> QED
  BY <1>1, BoardInvariant, PTL DEF Spec, OneTurnPerRound

----------------------------------------------------------------------------
(* Sums over a finite set, as FoldFunction takes them. *)

\* The member of set s that FoldFunction takes next.
One(s) == CHOOSE x \in s : TRUE

\* The sets of at most n arguments of g.
Sizes(g, n) == {t \in SUBSET DOMAIN g : Cardinality(t) <= n}

\* v adds up g over every set in X.
Adds(g, X, v) ==
  v = [s \in X |-> IF s = {} THEN 0 ELSE g[One(s)] + v[s \ {One(s)}]]

\* The sums of g over the sets of its arguments.
SumsOf(g) == CHOOSE v : Adds(g, SUBSET DOMAIN g, v)

\* All the commander damage marked against a seat, as the property adds it up.
Damage(g) == FoldFunction(LAMBDA x, y : x + y, 0, g)

\* Among sets of numbers there is a least number.
LEMMA LeastNumber ==
  ASSUME NEW S \in SUBSET Nat, S # {}
  PROVE  \E m \in S : \A k \in S : m <= k
<1>1. PICK m \in S : \A k \in S : <<k, m>> \notin OpToRel(<, Nat)
  BY NatLessThanWellFounded, WFMin, Zenon
<1>2. ASSUME NEW k \in S PROVE m <= k
  <2>1. <<k, m>> \in Nat \X Nat
    OBVIOUS
  <2>2. <<k, m>> \in OpToRel(<, Nat) <=> k < m
    BY <2>1, Zenon DEF OpToRel
  <2>3. ~(k < m)
    BY <1>1, <2>2, Zenon
  <2> QED
    BY <2>3
<1> QED
  BY <1>2

\* A set that is taken apart.
LEMMA TakeOne ==
  ASSUME NEW D, IsFiniteSet(D), NEW s \in SUBSET D
  PROVE  /\ IsFiniteSet(s) /\ Cardinality(s) \in Nat /\ (Cardinality(s) = 0 <=> s = {})
         /\ s # {} => One(s) \in s
         /\ \A x \in s : s \ {x} \in SUBSET D /\ Cardinality(s \ {x}) = Cardinality(s) - 1
<1>1. IsFiniteSet(s) /\ Cardinality(s) \in Nat /\ (Cardinality(s) = 0 <=> s = {})
  BY FS_Subset, FS_CardinalityType, FS_EmptySet
<1>2. s # {} => One(s) \in s
  BY DEF One
<1>3. \A x \in s : Cardinality(s \ {x}) = Cardinality(s) - 1
  BY <1>1, FS_RemoveElement
<1> QED
  BY <1>1, <1>2, <1>3

\* Among sets of parts of a finite set there is one from which nothing can be taken.
LEMMA LeastPart ==
  ASSUME NEW D, IsFiniteSet(D), NEW B \in SUBSET (SUBSET D), B # {}
  PROVE  \E s \in B : \A x \in s : s \ {x} \notin B
<1> DEFINE C == {Cardinality(s) : s \in B}
<1>1. C \in SUBSET Nat /\ C # {}
  BY TakeOne
<1> HIDE DEF C
<1>2. PICK n \in C : \A k \in C : n <= k
  BY <1>1, LeastNumber
<1>3. PICK s \in B : Cardinality(s) = n
  BY <1>2 DEF C
<1>4. ASSUME NEW x \in s, s \ {x} \in B PROVE FALSE
  <2>1. Cardinality(s \ {x}) = Cardinality(s) - 1 /\ Cardinality(s) \in Nat
    BY <1>4, TakeOne
  <2>2. Cardinality(s \ {x}) \in C
    BY <1>4 DEF C
  <2> QED
    BY <1>2, <1>3, <2>1, <2>2
<1> QED
  BY <1>4

\* There are such sums over sets of any size.
LEMMA SumsExist ==
  ASSUME NEW g, IsFiniteSet(DOMAIN g), NEW n \in Nat
  PROVE  \E v : Adds(g, Sizes(g, n), v)
<1> DEFINE Bad == {k \in Nat : ~ \E v : Adds(g, Sizes(g, k), v)}
<1>1. SUFFICES ASSUME Bad # {} PROVE FALSE
  OBVIOUS
<1>2. PICK m \in Bad : \A k \in Bad : m <= k
  <2>1. Bad \in SUBSET Nat
    OBVIOUS
  <2> QED
    BY <1>1, <2>1, LeastNumber
<1>3. CASE m = 0
  <2> DEFINE v == [s \in Sizes(g, 0) |-> 0]
  <2>1. ASSUME NEW s \in Sizes(g, 0) PROVE s = {}
    <3>1. s \in SUBSET DOMAIN g /\ Cardinality(s) <= 0
      BY DEF Sizes
    <3> QED
      BY <3>1, TakeOne
  <2>2. Adds(g, Sizes(g, 0), v)
    BY <2>1 DEF Adds
  <2> QED
    BY <1>2, <1>3, <2>2
<1>4. CASE m # 0
  <2>1. m \in Nat /\ m - 1 \in Nat /\ m - 1 \notin Bad
    BY <1>2, <1>4
  <2>2. PICK u : Adds(g, Sizes(g, m - 1), u)
    BY <2>1
  <2> DEFINE next(s) == IF s = {} THEN 0 ELSE g[One(s)] + u[s \ {One(s)}]
             v == [s \in Sizes(g, m) |-> next(s)]
  <2>3. ASSUME NEW s \in Sizes(g, m), s # {}
        PROVE  s \ {One(s)} \in Sizes(g, m - 1)
    <3>1. s \in SUBSET DOMAIN g /\ Cardinality(s) <= m
      BY DEF Sizes
    <3>2. /\ One(s) \in s /\ s \ {One(s)} \in SUBSET DOMAIN g /\ Cardinality(s) \in Nat
          /\ Cardinality(s \ {One(s)}) = Cardinality(s) - 1
      BY <2>3, <3>1, TakeOne
    <3> QED
      BY <2>1, <3>1, <3>2 DEF Sizes
  <2>4. ASSUME NEW s \in Sizes(g, m - 1)
        PROVE  s \in Sizes(g, m) /\ u[s] = next(s)
    <3>1. s \in SUBSET DOMAIN g /\ Cardinality(s) <= m - 1
      BY DEF Sizes
    <3>2. Cardinality(s) \in Nat
      BY <3>1, TakeOne
    <3>3. s \in Sizes(g, m)
      BY <2>1, <3>1, <3>2 DEF Sizes
    <3> QED
      BY <2>2, <3>3 DEF Adds
  <2> HIDE DEF next
  <2>5. ASSUME NEW s \in Sizes(g, m), s # {}
        PROVE  v[s \ {One(s)}] = u[s \ {One(s)}]
    BY <2>3, <2>4, <2>5
  <2>6. Adds(g, Sizes(g, m), v)
    BY <2>5 DEF Adds, next
  <2> QED
    BY <1>2, <2>6
<1> QED
  BY <1>3, <1>4

\* What FoldFunction gives are these sums.
LEMMA DamageIsSum ==
  ASSUME NEW g, IsFiniteSet(DOMAIN g)
  PROVE  /\ Damage(g) = SumsOf(g)[DOMAIN g]
         /\ \A s \in SUBSET DOMAIN g :
              SumsOf(g)[s] = IF s = {} THEN 0 ELSE g[One(s)] + SumsOf(g)[s \ {One(s)}]
<1> DEFINE n == Cardinality(DOMAIN g)
<1>1. Damage(g) = SumsOf(g)[DOMAIN g]
  BY Zenon DEF Damage, SumsOf, FoldFunction, FoldFunctionOnSet, MapThenFoldSet, Adds, One
<1>2. n \in Nat
  BY FS_CardinalityType
<1>3. Sizes(g, n) = SUBSET DOMAIN g
  BY FS_Subset DEF Sizes
<1> HIDE DEF n
<1>4. \E v : Adds(g, SUBSET DOMAIN g, v)
  BY <1>2, <1>3, SumsExist
<1>5. Adds(g, SUBSET DOMAIN g, SumsOf(g))
  BY <1>4 DEF SumsOf
<1> QED
  BY <1>1, <1>5 DEF Adds

\* A sum of integers is one.
LEMMA SumType ==
  ASSUME NEW D, IsFiniteSet(D), NEW g \in [D -> Int], NEW s \in SUBSET D
  PROVE  SumsOf(g)[s] \in Int
<1> DEFINE B == {t \in SUBSET D : SumsOf(g)[t] \notin Int}
<1>1. SUFFICES ASSUME B # {} PROVE FALSE
  OBVIOUS
<1>2. PICK t \in B : \A x \in t : t \ {x} \notin B
  BY <1>1, LeastPart
<1>3. SumsOf(g)[t] = IF t = {} THEN 0 ELSE g[One(t)] + SumsOf(g)[t \ {One(t)}]
  BY DamageIsSum
<1>4. t # {}
  BY <1>3
<1>5. One(t) \in t /\ t \ {One(t)} \in SUBSET D
  BY <1>4, TakeOne
<1>6. SumsOf(g)[t \ {One(t)}] \in Int /\ g[One(t)] \in Int
  BY <1>2, <1>5
<1> QED
  BY <1>3, <1>4, <1>6

\* Any member may be taken first.
LEMMA SumOrder ==
  ASSUME NEW D, IsFiniteSet(D), NEW g \in [D -> Int], NEW s \in SUBSET D, NEW y \in s
  PROVE  SumsOf(g)[s] = g[y] + SumsOf(g)[s \ {y}]
<1> DEFINE v == SumsOf(g)
           B == {t \in SUBSET D : \E z \in t : v[t] # g[z] + v[t \ {z}]}
<1>1. SUFFICES ASSUME B # {} PROVE FALSE
  OBVIOUS
<1>2. /\ \A t \in SUBSET D : v[t] \in Int
      /\ \A t \in SUBSET D : v[t] = IF t = {} THEN 0 ELSE g[One(t)] + v[t \ {One(t)}]
  BY SumType, DamageIsSum
<1> HIDE DEF v
<1>3. PICK t \in B : \A x \in t : t \ {x} \notin B
  BY <1>1, LeastPart
<1>4. PICK z \in t : v[t] # g[z] + v[t \ {z}]
  OBVIOUS
<1> DEFINE x == One(t)
<1>5. x \in t /\ x # z /\ v[t] = g[x] + v[t \ {x}]
  BY <1>2, <1>4, TakeOne
<1> HIDE DEF x
<1>6. t \ {x} \in SUBSET D /\ t \ {z} \in SUBSET D /\ (t \ {x}) \ {z} = (t \ {z}) \ {x}
  OBVIOUS
<1>7. v[t \ {x}] = g[z] + v[(t \ {x}) \ {z}]
  BY <1>3, <1>5, <1>6
<1>8. v[t \ {z}] = g[x] + v[(t \ {z}) \ {x}]
  BY <1>3, <1>5, <1>6
<1> DEFINE w == v[(t \ {z}) \ {x}]
<1>9. g[x] \in Int /\ g[z] \in Int /\ w \in Int
  BY <1>2, <1>5
<1>10. v[t \ {x}] = g[z] + w /\ v[t \ {z}] = g[x] + w
  BY <1>6, <1>7, <1>8
<1> HIDE DEF w
<1>11. v[t] = g[z] + v[t \ {z}]
  BY <1>5, <1>9, <1>10
<1> QED
  BY <1>4, <1>11

\* The sum over a set depends on what is marked there only.
LEMMA SumAlike ==
  ASSUME NEW D, IsFiniteSet(D), NEW g \in [D -> Int], NEW h \in [D -> Int],
         NEW s \in SUBSET D, \A x \in s : g[x] = h[x]
  PROVE  SumsOf(g)[s] = SumsOf(h)[s]
<1> DEFINE B == {t \in SUBSET D : (\A x \in t : g[x] = h[x]) /\ SumsOf(g)[t] # SumsOf(h)[t]}
<1>1. SUFFICES ASSUME B # {} PROVE FALSE
  OBVIOUS
<1>2. PICK t \in B : \A x \in t : t \ {x} \notin B
  BY <1>1, LeastPart
<1>3. /\ SumsOf(g)[t] = IF t = {} THEN 0 ELSE g[One(t)] + SumsOf(g)[t \ {One(t)}]
      /\ SumsOf(h)[t] = IF t = {} THEN 0 ELSE h[One(t)] + SumsOf(h)[t \ {One(t)}]
  BY DamageIsSum
<1>4. t # {}
  BY <1>3
<1>5. One(t) \in t /\ t \ {One(t)} \in SUBSET D
  BY <1>4, TakeOne
<1>6. SumsOf(g)[t \ {One(t)}] = SumsOf(h)[t \ {One(t)}]
  BY <1>2, <1>5
<1> QED
  BY <1>3, <1>4, <1>5, <1>6

\* Nothing marked adds up to nothing.
LEMMA SumOfNothing ==
  ASSUME NEW D, IsFiniteSet(D)
  PROVE  Damage([x \in D |-> 0]) = 0
<1> DEFINE g == [x \in D |-> 0]
           B == {t \in SUBSET D : SumsOf(g)[t] # 0}
<1>1. DOMAIN g = D /\ g \in [D -> Int] /\ \A x \in D : g[x] = 0
  OBVIOUS
<1> HIDE DEF g
<1>2. ASSUME B # {} PROVE FALSE
  <2>1. PICK t \in B : \A x \in t : t \ {x} \notin B
    BY <1>2, LeastPart
  <2>2. SumsOf(g)[t] = IF t = {} THEN 0 ELSE g[One(t)] + SumsOf(g)[t \ {One(t)}]
    BY <1>1, DamageIsSum
  <2>3. t # {}
    BY <2>2
  <2>4. One(t) \in t /\ t \ {One(t)} \in SUBSET D
    BY <2>3, TakeOne
  <2>5. SumsOf(g)[t \ {One(t)}] = 0
    BY <2>1, <2>4
  <2> QED
    BY <1>1, <2>2, <2>3, <2>4, <2>5
<1>3. Damage(g) = SumsOf(g)[D]
  BY <1>1, DamageIsSum
<1>4. SumsOf(g)[D] = 0
  BY <1>2
<1> QED
  BY <1>3, <1>4 DEF g

\* Marking damage from one source moves the sum by what was marked.
LEMMA DamageMoves ==
  ASSUME NEW D, IsFiniteSet(D), NEW g \in [D -> Int], NEW k \in D, NEW n \in Int
  PROVE  /\ Damage(g) \in Int
         /\ Damage([g EXCEPT ![k] = n]) = Damage(g) - g[k] + n
<1> DEFINE h == [g EXCEPT ![k] = n]
<1>1. h \in [D -> Int] /\ h[k] = n /\ \A x \in D \ {k} : g[x] = h[x]
  OBVIOUS
<1> HIDE DEF h
<1>2. Damage(g) = SumsOf(g)[D] /\ Damage(h) = SumsOf(h)[D]
  BY <1>1, DamageIsSum
<1>3. SumsOf(g)[D] = g[k] + SumsOf(g)[D \ {k}] /\ SumsOf(h)[D] = h[k] + SumsOf(h)[D \ {k}]
  BY <1>1, SumOrder
<1>4. SumsOf(g)[D \ {k}] = SumsOf(h)[D \ {k}]
  <2>1. D \ {k} \in SUBSET D
    OBVIOUS
  <2> QED
    BY <1>1, <2>1, SumAlike
<1>5. SumsOf(g)[D \ {k}] \in Int /\ g[k] \in Int
  BY SumType
<1> QED
  BY <1>1, <1>2, <1>3, <1>4, <1>5 DEF h

----------------------------------------------------------------------------
(* Commander damage and life. *)

Paid ==
  \A s \in Seats : lives[s] = StartingLife + replay.taps[s] - Damage(cmd[s])

\* Paid is the property.
LEMMA PaidInLife == CommanderDamageIsPaidInLife <=> Paid
BY DEF CommanderDamageIsPaidInLife, Paid, Damage

\* There are finitely many sources of commander damage.
LEMMA FiniteSources == IsFiniteSet(Sources)
<1>1. 0 \in Int /\ 2 \in Int /\ N - 1 \in Int
  BY BoardAssumption
<1>2. IsFiniteSet(0 .. N - 1) /\ IsFiniteSet(0 .. 2)
  BY <1>1, FS_Interval
<1> QED
  BY <1>2, FS_Product DEF Sources, Seats

\* _auto_eliminate writes at most an eliminate event, which is no tap.
LEMMA SettleKeepsTaps ==
  ASSUME NEW s, NEW e, Settle(s, e)
  PROVE  replay'.taps = Folded(replay, e).taps
<1>1. ASSUME NEW r, NEW b PROVE Folded(r, EliminateEvent(s, b)).taps = r.taps
  BY DEF Folded, TapsAfter, EliminateEvent
<1>2. \/ replay' = Folded(replay, e)
      \/ replay' = Folded(Folded(replay, e), EliminateEvent(s, TRUE))
      \/ replay' = Folded(Folded(replay, e), EliminateEvent(s, FALSE))
  BY DEF Settle, LeaveAlone, GoOut, RefreshCause, Revive
<1> QED
  BY <1>1, <1>2

\* Every step keeps lives, life taps and commander damage coupled.
LEMMA PaidStep == BoardInv /\ Paid /\ [Next]_vars => Paid'
<1> SUFFICES ASSUME BoardInv, Paid, [Next]_vars PROVE Paid'
  OBVIOUS
<1>1. /\ lives \in [Seats -> Int] /\ cmd \in [Seats -> [Sources -> Nat]]
      /\ replay \in ReplayType /\ replay.taps \in [Seats -> Int] /\ StartingLife \in Int
  BY BoardAssumption DEF BoardInv, TypeOK, ReplayType
<1>2. CASE UNCHANGED vars
  BY <1>2 DEF vars, Paid
<1>3. ASSUME NEW s \in Seats, NEW d \in LifeDeltas, Life(s, d) PROVE Paid'
  <2>1. d \in Int /\ lives' = [lives EXCEPT ![s] = @ + d] /\ cmd' = cmd
    BY <1>3, BoardAssumption DEF Life
  <2>2. replay'.taps = [replay.taps EXCEPT ![s] = @ + d]
    <3>1. Folded(replay, LifeEvent(s, d)).taps = [replay.taps EXCEPT ![s] = @ + d]
      BY DEF Folded, TapsAfter, LifeEvent
    <3> QED
      BY <1>3, <3>1, SettleKeepsTaps DEF Life
  <2>3. ASSUME NEW k \in Seats
        PROVE  lives'[k] = StartingLife + replay'.taps[k] - Damage(cmd'[k])
    <3>1. Damage(cmd[k]) \in Int
      <4>1. cmd[k] \in [Sources -> Int]
        BY <1>1
      <4>2. <<s, 0>> \in Sources
        BY DEF Sources
      <4> QED
        BY <4>1, <4>2, FiniteSources, DamageMoves
    <3>2. lives[k] = StartingLife + replay.taps[k] - Damage(cmd[k])
      BY DEF Paid
    <3>3. replay.taps[k] \in Int /\ lives[k] \in Int
      BY <1>1
    <3>4. CASE k = s
      <4>1. lives'[k] = lives[k] + d /\ replay'.taps[k] = replay.taps[k] + d /\ cmd'[k] = cmd[k]
        BY <1>1, <2>1, <2>2, <3>4
      <4> QED
        BY <1>1, <2>1, <3>1, <3>2, <3>3, <4>1
    <3>5. CASE k # s
      <4>1. lives'[k] = lives[k] /\ replay'.taps[k] = replay.taps[k] /\ cmd'[k] = cmd[k]
        BY <1>1, <2>1, <2>2, <3>5
      <4> QED
        BY <3>2, <4>1
    <3> QED
      BY <3>4, <3>5
  <2> QED
    BY <2>3 DEF Paid
<1>4. ASSUME NEW s \in Seats, NEW name \in {"poison", "other"}, NEW d \in PoisonDeltas,
             Counter(s, name, d)
      PROVE  Paid'
  <2>1. lives' = lives /\ cmd' = cmd
    BY <1>4 DEF Counter
  <2>2. replay'.taps = replay.taps
    <3>1. Folded(replay, CounterEvent(s)).taps = replay.taps
      BY DEF Folded, TapsAfter, CounterEvent
    <3> QED
      BY <1>4, <3>1, SettleKeepsTaps DEF Counter
  <2> QED
    BY <2>1, <2>2 DEF Paid
<1>5. ASSUME NEW s \in Seats, NEW a \in Seats, NEW key \in SuppliedKeys, NEW d \in CmdDeltas,
             Cmd(s, a, key, d)
      PROVE  Paid'
  <2> DEFINE src == ResolveSource(a, key)
             marked == cmd[s][src]
             left == Floored(marked, d)
             actual == ActualDelta(marked, d)
             new == [cmd[s] EXCEPT ![src] = left]
  <2>1. /\ cmd' = [cmd EXCEPT ![s] = new] /\ lives' = [lives EXCEPT ![s] = @ - actual]
        /\ Settle(s, CmdEvent(s, actual))
    BY <1>5 DEF Cmd, SettledByCmd
  <2>2. src \in Sources
    BY BoardAssumption DEF ResolveSource, KnownSources, Sources
  <2> HIDE DEF src
  <2>3. marked \in Nat /\ d \in Int
    BY <1>1, <2>2, BoardAssumption
  <2>4. left \in Nat /\ actual \in Int /\ left = marked + actual
    BY <2>3 DEF Floored, ActualDelta
  <2> HIDE DEF left, actual
  <2>5. replay'.taps = replay.taps
    <3>1. Folded(replay, CmdEvent(s, actual)).taps = replay.taps
      BY DEF Folded, TapsAfter, CmdEvent
    <3> QED
      BY <2>1, <3>1, SettleKeepsTaps
  <2>6. Damage(cmd[s]) \in Int /\ Damage(new) = Damage(cmd[s]) - marked + left
    <3>1. cmd[s] \in [Sources -> Int] /\ left \in Int
      BY <1>1, <2>4
    <3> QED
      BY <2>2, <3>1, FiniteSources, DamageMoves
  <2> HIDE DEF new, marked
  <2>7. ASSUME NEW k \in Seats
        PROVE  lives'[k] = StartingLife + replay'.taps[k] - Damage(cmd'[k])
    <3>1. lives[k] = StartingLife + replay.taps[k] - Damage(cmd[k])
      BY DEF Paid
    <3>2. replay.taps[k] \in Int /\ lives[k] \in Int
      BY <1>1
    <3>3. CASE k = s
      <4>1. lives'[k] = lives[k] - actual /\ cmd'[k] = new
        BY <1>1, <2>1, <3>3
      <4>2. Damage(cmd'[k]) = Damage(cmd[s]) + actual
        BY <2>3, <2>4, <2>6, <4>1
      <4>3. lives'[k] = StartingLife + replay.taps[s] - (Damage(cmd[s]) + actual)
        BY <1>1, <2>4, <2>6, <3>1, <3>2, <3>3, <4>1
      <4> QED
        BY <2>5, <3>3, <4>2, <4>3
    <3>4. CASE k # s
      <4>1. lives'[k] = lives[k] /\ cmd'[k] = cmd[k]
        BY <1>1, <2>1, <3>4
      <4> QED
        BY <2>5, <3>1, <4>1
    <3> QED
      BY <3>3, <3>4
  <2> QED
    BY <2>7 DEF Paid
<1>6. ASSUME NEW s \in Seats, NEW b \in BOOLEAN, Eliminate(s, b) PROVE Paid'
  <2>1. lives' = lives /\ cmd' = cmd /\ replay'.taps = replay.taps
    BY <1>6 DEF Eliminate, Folded, TapsAfter, EliminateEvent
  <2> QED
    BY <2>1 DEF Paid
<1>7. ASSUME (\E j \in Seats : PassTurn(j)) \/ StayTurn PROVE Paid'
  <2>1. lives' = lives /\ cmd' = cmd
    BY <1>7 DEF PassTurn, StayTurn, counters
  <2>2. replay'.taps = replay.taps
    <3>1. ASSUME NEW j, NEW n PROVE Folded(replay, TurnEvent(j, n)).taps = replay.taps
      BY DEF Folded, TapsAfter, TurnEvent
    <3>2. \E j, n : replay' = Folded(replay, TurnEvent(j, n))
      BY <1>7 DEF PassTurn, StayTurn
    <3> QED
      BY <3>1, <3>2
  <2> QED
    BY <2>1, <2>2 DEF Paid
<1> QED
  BY <1>2, <1>3, <1>4, <1>5, <1>6, <1>7 DEF Next

\* Nothing is marked and tapped yet.
LEMMA PaidInit == Init => Paid
<1> SUFFICES ASSUME Init PROVE Paid
  OBVIOUS
<1>1. ASSUME NEW s \in Seats PROVE lives[s] = StartingLife + replay.taps[s] - Damage(cmd[s])
  <2>1. Damage(cmd[s]) = 0
    <3>1. cmd[s] = [k \in Sources |-> 0]
      BY DEF Init
    <3> QED
      BY <3>1, FiniteSources, SumOfNothing
  <2>2. lives[s] = StartingLife /\ replay.taps[s] = 0
    BY DEF Init
  <2> QED
    BY <2>1, <2>2, BoardAssumption
<1> QED
  BY <1>1 DEF Paid

\* A seat's life is what it started with, plus its life taps, minus the commander
\* damage marked against it, whatever floors, corrections and source keys the taps
\* met (the cmd branch of _apply_mutation).
THEOREM DamageIsPaidInLife == Spec => []CommanderDamageIsPaidInLife
<1>1. Spec => [](BoardInv /\ Paid)
  <2>1. BoardInv /\ Paid /\ [Next]_vars => (BoardInv /\ Paid)'
    BY NextBoardInv, PaidStep
  <2>2. Init => BoardInv /\ Paid
    BY InitBoardInv, PaidInit
  <2> QED
    BY <2>1, <2>2, PTL DEF Spec
<1> QED
  BY <1>1, PaidInLife, PTL

=============================================================================
