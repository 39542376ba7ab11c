------------------------------- MODULE Momir -------------------------------
(***************************************************************************)
(* A live game of the format Momir (app/live_game_service.py): the board   *)
(* of LiveBoard, on which each seat also has creature tokens, attacks that *)
(* wait for the defender to block them, and, unless the table plays with   *)
(* real lands, the counts of its cards.  Every action runs under the row   *)
(* lock.  Any game may turn on the decks of Overlay besides.               *)
(*                                                                         *)
(* Left out: poison and commander damage, whose losses LiveBoard has and   *)
(* which are the same here; who may post what; a summon that finds no      *)
(* creature, which changes nothing.  An attack is named by its sequence    *)
(* number in the code, by its creature here: a creature is in one at most. *)
(***************************************************************************)
EXTENDS Overlay

CONSTANTS
  N,             \* number of seats, in the order of turn_rotation(game)
  StartingLife,
  Creatures,     \* the catalog: mana value, power, toughness, keywords
  StartLibrary,  \* 60 in the code
  StartHand,     \* 7 in the code
  Deltas,        \* changes of life or of counters a client may post
  Amounts,       \* damage a client may post
  Counts,        \* the counts the table may set
  MaxTokens,     \* bound: tokens of a seat
  MaxActions     \* bound: actions on the board

Seats == 0 .. N - 1

ASSUME MomirAssumption ==
  /\ N \in Nat \ {0} /\ StartingLife \in Nat \ {0}
  /\ \A c \in Creatures : c.mv \in Nat /\ {c.pow, c.tou} \subseteq Nat /\ c.numeric \in BOOLEAN
  /\ {StartLibrary, StartHand} \cup Amounts \cup Counts \subseteq Nat
  /\ Deltas \subseteq Int
  /\ {MaxTokens, MaxActions} \subseteq Nat

VARIABLES
  lives,     \* blob.lives
  out,       \* blob.eliminated and blob.eliminationCause ("in": not eliminated)
  turn,      \* blob.turn, the round
  current,   \* blob.currentTurnId
  tokens,    \* blob.tokens, with the history `spared': revived by hand this turn
  attacks,   \* blob.attacks
  used,      \* blob.momirTurnUsed (0: no entry)
  physical,  \* blob.momirPhysical
  res,       \* blob.library, .hand, .lands, .untapped and .landPlayed
  version    \* counts the actions on the board

seatVars == <<lives, out>>
turnVars == <<turn, current>>
cardVars == <<used, physical, res>>
momirVars == <<seatVars, turnVars, tokens, attacks, cardVars, version>>

\* _begin_momir_turn for the counts: untap, then draw from a library that has a card.
Begun(r) ==
  [r EXCEPT !.untapped = r.lands, !.landPlayed = FALSE,
            !.library = IF @ > 0 THEN @ - 1 ELSE 0, !.hand = IF r.library > 0 THEN @ + 1 ELSE @]

NewRes == [library |-> StartLibrary, hand |-> StartHand, lands |-> 0, untapped |-> 0,
           landPlayed |-> FALSE]

\* _initial_state, and the first draw of the seat that starts (start_live_game).
InitBoard(onPaper) ==
  /\ lives = [s \in Seats |-> StartingLife]
  /\ out = [s \in Seats |-> IF s = 0 /\ ~onPaper /\ StartLibrary = 0 THEN "deck" ELSE "in"]
  /\ turn = 1 /\ current = 0
  /\ tokens = [s \in Seats |-> <<>>]
  /\ attacks = {}
  /\ used = [s \in Seats |-> 0]
  /\ physical = onPaper
  /\ res = [s \in Seats |-> IF s = 0 /\ ~onPaper THEN Begun(NewRes) ELSE NewRes]
  /\ version = 0

InitMomir == Init /\ \E onPaper \in BOOLEAN : InitBoard(onPaper)

----------------------------------------------------------------------------
(* Creatures *)

Has(t, keyword) == keyword \in t.card.keywords
Power(t) == LET p == t.card.pow + t.plus - t.minus IN IF p > 0 THEN p ELSE 0
Toughness(t) == t.card.tou + t.plus - t.minus

\* A live creature of seat s at place i (_live_token).
Live(s, i) == i \in DOMAIN tokens[s] /\ tokens[s][i].alive

\* _token_dies
Dies(t) ==
  /\ ~Has(t, "indestructible") /\ t.card.numeric
  /\ Toughness(t) <= 0 \/ t.damage >= Toughness(t)

\* The recheck after a primitive.
Rechecked(t) == [t EXCEPT !.alive = @ /\ ~Dies(t)]

\* _auto_eliminate, for what a seat's life does to it.
\* Variant: only an elimination by hand is permanent.
AfterCheckOnce(cause, life) ==
  IF cause = "manual" THEN cause ELSE IF life <= 0 THEN "life" ELSE "in"
AfterCheck(cause, life) ==
  IF cause \in {"manual", "deck"} THEN cause ELSE IF life <= 0 THEN "life" ELSE "in"

\* The lives are l; the affected seat is looked at again.
Settle(s, l) == lives' = l /\ out' = [out EXCEPT ![s] = AfterCheck(@, l[s])]

----------------------------------------------------------------------------
(* Combat *)

DealsIn(t, step) ==
  IF step = "first" THEN Has(t, "first strike") \/ Has(t, "double strike")
  ELSE Has(t, "double strike") \/ ~Has(t, "first strike")

\* What attacker a needs to kill blocker b.
Lethal(a, b) ==
  IF Has(a, "deathtouch") THEN 1
  ELSE LET left == Toughness(b) - b.damage IN IF left > 1 THEN left ELSE 1

Total(f) == FoldFunction(+, 0, f)

\* What is left of the attacker's power for the blockers from place k on: those in
\* front of it take what kills them.
LeftFor(a, bs, k) ==
  LET spent == Total([j \in 1 .. k - 1 |-> IF bs[j].alive THEN Lethal(a, bs[j]) ELSE 0])
  IN  IF Power(a) > spent THEN Power(a) - spent ELSE 0

Assigned(a, bs, k) ==
  LET left == LeftFor(a, bs, k) IN
  IF ~bs[k].alive THEN 0 ELSE IF left < Lethal(a, bs[k]) THEN left ELSE Lethal(a, bs[k])

\* Variant: the damage marked before does not count.
WoundedAfresh(t, d, venom) ==
  [t EXCEPT !.damage = @ + d,
            !.alive = @ /\ (\/ Has(t, "indestructible")
                            \/ ~venom /\ (Toughness(t) <= 0 \/ d < Toughness(t)))]

\* t took d damage in this step, of which some by deathtouch if `venom'.
Wounded(t, d, venom) ==
  LET hurt == [t EXCEPT !.damage = @ + d] IN
  [hurt EXCEPT !.alive =
     @ /\ (\/ Has(t, "indestructible")
           \/ ~venom /\ (Toughness(t) <= 0 \/ hurt.damage < Toughness(t)))]

\* One step of _run_combat: both sides deal their damage, then the dead are found.
Fight(c, step) ==
  LET a == c.a  bs == c.bs
      hits == a.alive /\ DealsIn(a, step)
      dealt == [k \in DOMAIN bs |-> IF hits THEN Assigned(a, bs, k) ELSE 0]
      through == IF ~hits \/ (bs # <<>> /\ ~Has(a, "trample")) THEN 0
                 ELSE LeftFor(a, bs, Len(bs) + 1)
      back == [k \in DOMAIN bs |->
                 IF a.alive /\ bs[k].alive /\ DealsIn(bs[k], step) THEN Power(bs[k]) ELSE 0]
      venomous == {k \in DOMAIN bs : back[k] > 0 /\ Has(bs[k], "deathtouch")}
  IN  [a |-> Wounded(a, Total(back), venomous # {}),
       bs |-> [k \in DOMAIN bs |->
                 Wounded(bs[k], dealt[k], dealt[k] > 0 /\ Has(a, "deathtouch"))],
       toPlayer |-> c.toPlayer + through,
       gainA |-> c.gainA + IF Has(a, "lifelink") THEN Total(dealt) + through ELSE 0,
       gainD |-> c.gainD + Total([k \in DOMAIN bs |->
                                   IF Has(bs[k], "lifelink") THEN back[k] ELSE 0])]

\* _run_combat
Combat(a, bs) ==
  Fight(Fight([a |-> a, bs |-> bs, toPlayer |-> 0, gainA |-> 0, gainD |-> 0], "first"), "normal")

\* The blocks _apply_momir_resolve takes: no creature twice, each one untapped.
Blocks(d) ==
  {bs \in UNION {[1 .. n -> DOMAIN tokens[d]] : n \in 0 .. Len(tokens[d])} :
     /\ IsInjective(bs)
     /\ \A k \in DOMAIN bs : tokens[d][bs[k]].alive /\ ~tokens[d][bs[k]].tapped}

CanBlock(a, bs) ==
  /\ Has(a, "flying") => \A k \in DOMAIN bs : Has(bs[k], "flying") \/ Has(bs[k], "reach")
  /\ Has(a, "menace") => Len(bs) # 1

----------------------------------------------------------------------------
(* Actions *)

Applied == version < MaxActions /\ version' = version + 1

Token(c) ==
  [card |-> c, alive |-> TRUE, tapped |-> FALSE, damage |-> 0, plus |-> 0, minus |-> 0,
   created |-> turn, spared |-> FALSE]

\* _apply_momir_activate: once a round, for its mana value in lands and a card.
Activate(s, c) ==
  /\ used[s] # turn
  /\ physical \/ (res[s].untapped >= c.mv /\ res[s].hand >= 1)
  /\ Len(tokens[s]) < MaxTokens
  /\ tokens' = [tokens EXCEPT ![s] = Append(@, Token(c))]
  /\ used' = [used EXCEPT ![s] = turn]
  /\ res' = IF physical THEN res
            ELSE [res EXCEPT ![s].untapped = @ - c.mv, ![s].hand = @ - 1]
  /\ Applied
  /\ UNCHANGED <<seatVars, turnVars, attacks, physical>>

\* _apply_momir_play_land
PlayLand(s) ==
  /\ ~physical
  /\ res[s].hand >= 1 /\ ~res[s].landPlayed
  /\ res' = [res EXCEPT ![s].hand = @ - 1, ![s].lands = @ + 1, ![s].untapped = @ + 1,
                        ![s].landPlayed = TRUE]
  /\ Applied
  /\ UNCHANGED <<seatVars, turnVars, tokens, attacks, used, physical>>

\* _apply_momir_adjust, for one of the counts it is given.
Adjust(s, count, n) ==
  /\ ~physical
  /\ res' = [res EXCEPT ![s][count] = n]
  /\ Applied
  /\ UNCHANGED <<seatVars, turnVars, tokens, attacks, used, physical>>

\* One token of seat s becomes t, and no seat's life changes.
Becomes(s, i, t) ==
  /\ tokens' = [tokens EXCEPT ![s][i] = t]
  /\ Applied
  /\ UNCHANGED <<seatVars, turnVars, attacks, cardVars>>

\* _apply_momir_kill, for momir_kill_token and momir_sacrifice
Kill(s, i) ==
  /\ i \in DOMAIN tokens[s]
  /\ Becomes(s, i, [tokens[s][i] EXCEPT !.alive = FALSE])

\* _apply_momir_revive: the damage stays.
Revive(s, i) ==
  /\ i \in DOMAIN tokens[s]
  /\ Becomes(s, i, [tokens[s][i] EXCEPT !.alive = TRUE, !.spared = @ \/ ~tokens[s][i].alive])

\* _apply_momir_damage to a creature
DamageToken(s, i, n) ==
  /\ Live(s, i)
  /\ Becomes(s, i, Rechecked([tokens[s][i] EXCEPT !.damage = @ + n]))

\* _apply_momir_counter: a kind of counter, "plus" or "minus", is not negative.
Counter(s, i, kind, d) ==
  /\ Live(s, i)
  /\ Becomes(s, i, Rechecked([tokens[s][i] EXCEPT
                                ![kind] = IF @ + d > 0 THEN @ + d ELSE 0]))

\* _apply_momir_tap
Tap(s, i) ==
  /\ Live(s, i)
  /\ Becomes(s, i, [tokens[s][i] EXCEPT !.tapped = ~@])

\* _apply_momir_attack: the attack waits for the defender.
Attack(s, i, d) ==
  /\ s # d /\ Live(s, i)
  /\ LET t == tokens[s][i] IN
       /\ ~t.tapped /\ ~Has(t, "defender")
       /\ t.created < turn \/ Has(t, "haste")
       /\ \A x \in attacks : <<x.from, x.index>> # <<s, i>>
       /\ tokens' = [tokens EXCEPT ![s][i].tapped = ~Has(t, "vigilance")]
  /\ attacks' = attacks \cup {[from |-> s, index |-> i, target |-> d]}
  /\ Applied
  /\ UNCHANGED <<seatVars, turnVars, cardVars>>

\* _apply_momir_resolve: called off, or fizzled when the attacker has died meanwhile.
\* The defender is looked at again all the same.
Dismiss(x) ==
  /\ attacks' = attacks \ {x}
  /\ Settle(x.target, lives)
  /\ Applied
  /\ UNCHANGED <<turnVars, tokens, cardVars>>

\* _apply_momir_resolve: the defender of x takes it, or blocks with the creatures bs.
Resolve(x, bs) ==
  LET d == x.target
      a == tokens[x.from][x.index]
      blockers == [k \in DOMAIN bs |-> tokens[d][bs[k]]]
      c == Combat(a, blockers)
      Fought(i) == CHOOSE k \in DOMAIN bs : bs[k] = i
  IN  /\ a.alive
      /\ CanBlock(a, blockers)
      /\ attacks' = attacks \ {x}
      /\ tokens' = [tokens EXCEPT
                      ![x.from][x.index] = c.a,
                      ![d] = [i \in DOMAIN @ |-> IF i \in Range(bs) THEN c.bs[Fought(i)] ELSE @[i]]]
      /\ Settle(d, [lives EXCEPT ![d] = @ - c.toPlayer + c.gainD, ![x.from] = @ + c.gainA])
      /\ Applied
      /\ UNCHANGED <<turnVars, cardVars>>

\* The life of seat s changes: a life action, or _apply_momir_damage without an index.
Life(s, d) ==
  /\ Settle(s, [lives EXCEPT ![s] = @ + d])
  /\ Applied
  /\ UNCHANGED <<turnVars, tokens, attacks, cardVars>>

Eliminate(s, b) ==
  /\ out' = [out EXCEPT ![s] = IF b THEN "manual" ELSE "in"]
  /\ Applied
  /\ UNCHANGED <<lives, turnVars, tokens, attacks, cardVars>>

\* The steps round the table from seat i to seat j.
Steps(i, j) == IF j > i THEN j - i ELSE j - i + N

\* What the end of the turn leaves of a token; the one of the seat that begins untaps.
Rested(t, begins) ==
  [t EXCEPT !.damage = 0, !.tapped = @ /\ ~begins, !.spared = @ /\ Toughness(t) <= 0]

\* _advance_turn: combat ends; the next seat still in begins its turn, and is out if
\* it has no card to draw.
Turn ==
  /\ attacks' = {}
  /\ LET next == {j \in Seats : out[j] = "in" /\
                    \A k \in Seats : out[k] = "in" => Steps(current, j) <= Steps(current, k)}
         draws(j) == j \in next /\ ~physical
     IN  /\ tokens' = [s \in Seats |-> [i \in DOMAIN tokens[s] |->
                                          Rested(tokens[s][i], s \in next)]]
         /\ res' = [s \in Seats |-> IF draws(s) THEN Begun(res[s]) ELSE res[s]]
         /\ out' = [s \in Seats |-> IF draws(s) /\ res[s].library = 0 THEN "deck" ELSE out[s]]
         /\ IF next = {} THEN UNCHANGED turnVars
            ELSE \E j \in next : current' = j /\ turn' = IF j <= current THEN turn + 1 ELSE turn
  /\ Applied
  /\ UNCHANGED <<lives, used, physical>>

Board ==
  \/ \E s \in Seats, c \in Creatures : Activate(s, c)
  \/ \E s \in Seats : PlayLand(s)
  \/ \E s \in Seats, count \in {"library", "hand", "lands", "untapped"}, n \in Counts :
       Adjust(s, count, n)
  \/ \E s \in Seats, i \in 1 .. MaxTokens : Kill(s, i) \/ Revive(s, i) \/ Tap(s, i)
  \/ \E s \in Seats, i \in 1 .. MaxTokens, n \in Amounts : DamageToken(s, i, n)
  \/ \E s \in Seats, i \in 1 .. MaxTokens, kind \in {"plus", "minus"}, d \in Deltas :
       Counter(s, i, kind, d)
  \/ \E s, d \in Seats, i \in 1 .. MaxTokens : Attack(s, i, d)
  \/ \E x \in attacks : Dismiss(x)
  \/ \E x \in attacks : \E bs \in Blocks(x.target) : Resolve(x, bs)
  \/ \E s \in Seats, d \in Deltas : Life(s, d)
  \/ \E s \in Seats, b \in BOOLEAN : Eliminate(s, b)
  \/ Turn

NextMomir ==
  \/ Board /\ UNCHANGED vars
  \/ Next /\ UNCHANGED momirVars

SpecMomir == InitMomir /\ [][NextMomir]_<<vars, momirVars>>

----------------------------------------------------------------------------
(* Properties *)

\* A creature that was dealt lethal damage, or whose counters leave it no toughness, is
\* dead, whichever of the primitives and the fights that share it came last; one
\* that nothing has touched may have no toughness to begin with.
LethalIsDead(t) ==
  t.alive /\ t.card.numeric /\ ~Has(t, "indestructible") /\ ~t.spared =>
    \/ Toughness(t) > t.damage
    \/ Toughness(t) <= 0 /\ t.plus = 0 /\ t.minus = 0

\* A seat whose life falls to nothing is out at once, and one that is out by its library
\* or by hand stays out whatever its life becomes.
LossIsSettled(s) ==
  /\ lives'[s] < lives[s] /\ lives'[s] <= 0 => out'[s] # "in"
  /\ lives'[s] # lives[s] /\ out[s] \in {"deck", "manual"} => out'[s] = out[s]

\* State-based actions (_token_dies, _run_combat, _auto_eliminate, _deck_out): whatever
\* order taps, fights, counters, turns and corrections come in, what has lost is out.
StateBasedActions ==
  [][/\ \A s \in Seats : LossIsSettled(s)
     /\ \A s \in Seats : \A i \in DOMAIN tokens'[s] : LethalIsDead(tokens'[s][i])
    ]_<<vars, momirVars>>

\* A seat that is out for want of life is back as soon as it has some (the comment above
\* _loss_cause: automatic eliminations revive when their own condition un-triggers).
RecoveredIsBackIn == \A s \in Seats : out[s] = "life" => lives[s] <= 0

=============================================================================
