----------------------------- MODULE MCVariants ----------------------------
(* The decks of Overlay and the board of Momir share nothing but the table:  *)
(* the instance looks at one of them at a time.                              *)
EXTENDS Momir

CONSTANT MaxDiscard
DiscardIsBounded == schemes.on => Len(schemes.discard) + Len(schemes.ongoing) <= MaxDiscard

Creature(mv, pow, tou, numeric, keywords) ==
  [mv |-> mv, pow |-> pow, tou |-> tou, numeric |-> numeric, keywords |-> keywords]

\* A creature with haste that strikes first, one whose touch kills and that others
\* cannot afford to fight, and one that enters with no toughness.
Striker == Creature(0, 1, 1, TRUE, {"haste", "first strike", "lifelink"})
Trampler == Creature(1, 2, 2, TRUE, {"trample", "deathtouch"})
Hydra == Creature(0, 1, 0, TRUE, {"flying", "vigilance"})
MCDeltas == {-1, 1}
MCCreatures == {Striker, Trampler, Hydra}

\* A table in its second round, each seat with one creature.
MidGame ==
  /\ Init
  /\ lives = [s \in Seats |-> StartingLife]
  /\ out = [s \in Seats |-> "in"]
  /\ turn = 2 /\ current = 0
  /\ \E f \in {f \in [Seats -> MCCreatures] : IsInjective(f)} :
       tokens = [s \in Seats |-> <<[Token(f[s]) EXCEPT !.created = 1]>>]
  /\ attacks = {}
  /\ used = [s \in Seats |-> 1]
  /\ physical = TRUE
  /\ res = [s \in Seats |-> NewRes]
  /\ version = 0

OneAtATime ==
  \/ vars = <<Off, Off>> /\ Board /\ UNCHANGED vars
  \/ version = 0 /\ Next /\ UNCHANGED momirVars

MCSpec == (InitMomir \/ MidGame) /\ [][OneAtATime]_<<vars, momirVars>>

=============================================================================
