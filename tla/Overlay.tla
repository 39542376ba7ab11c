------------------------------ MODULE Overlay ------------------------------
(***************************************************************************)
(* The shared decks a live game may turn on besides its board: Planechase  *)
(* and Archenemy (app/live_game_service.py).  They are keys of the blob of *)
(* their own, absent while they are off, and every action on them runs     *)
(* under the row lock like those of LiveBoard.  The seat that is the       *)
(* archenemy, and who may post what, are left out; so is the last roll of  *)
(* the planar die, whose one face of six that moves on is Planeswalk.      *)
(***************************************************************************)
EXTENDS Integers, SequencesExt

CONSTANTS
  Planes,    \* the planes and phenomena of the catalog
  Schemes,   \* its schemes
  Ongoing,   \* those that stay in play
  NoCard     \* none face up

ASSUME OverlayAssumption ==
  /\ IsFiniteSet(Planes) /\ IsFiniteSet(Schemes)
  /\ Planes # {} /\ Schemes # {}
  /\ Ongoing \subseteq Schemes
  /\ NoCard \notin Planes \cup Schemes

VARIABLES
  planes,    \* planeDeck, planeDiscard and currentPlane, or Off
  schemes    \* schemeDeck, schemeDiscard, schemeCurrent and ongoingSchemes, or Off

vars == <<planes, schemes>>

Off == [on |-> FALSE]

Init == planes = Off /\ schemes = Off

\* The cards of a pile: an identifier listed twice is found once in the catalog.
Cards(pile) == ToSet(pile)

\* Cards in random order.
Shuffles(S) == SetToSeqs(S)

\* Variant: the cards shuffled are not taken off the discard.
DrawableAgain(deck, discard) ==
  IF deck # <<>> THEN {[deck |-> deck, discard |-> discard]}
  ELSE {[deck |-> d, discard |-> discard] : d \in Shuffles(Cards(discard))}

\* The deck to draw from: when it is out, the discard is shuffled into a new one.
Drawable(deck, discard) ==
  IF deck # <<>> THEN {[deck |-> deck, discard |-> discard]}
  ELSE {[deck |-> d, discard |-> <<>>] : d \in Shuffles(Cards(discard))}

Top(deck) == IF deck = <<>> THEN NoCard ELSE Head(deck)
Below(deck) == IF deck = <<>> THEN <<>> ELSE Tail(deck)

----------------------------------------------------------------------------
(* Planechase *)

\* _advance_plane: the current plane is put away first, so it may come back at once.
Advanced(s) ==
  LET put == IF s.current = NoCard THEN s.discard ELSE Append(s.discard, s.current) IN
  {[s EXCEPT !.deck = Below(d.deck), !.discard = d.discard, !.current = Top(d.deck)]
     : d \in Drawable(s.deck, put)}

\* _apply_planechase_enable, also when it is on already: a new deck and its top.
EnablePlanechase ==
  /\ \E d \in Shuffles(Planes) :
       planes' \in Advanced([on |-> TRUE, deck |-> d, discard |-> <<>>, current |-> NoCard])
  /\ UNCHANGED schemes

DisablePlanechase == planes' = Off /\ UNCHANGED schemes

\* _apply_planeswalk, or _apply_planar_roll when the face says so.
Planeswalk ==
  /\ planes.on
  /\ planes' \in Advanced(planes)
  /\ UNCHANGED schemes

----------------------------------------------------------------------------
(* Archenemy *)

\* _apply_archenemy_enable: naming another seat later shuffles nothing.
EnableArchenemy ==
  /\ ~schemes.on
  /\ \E d \in Shuffles(Schemes) :
       schemes' = [on |-> TRUE, deck |-> d, discard |-> <<>>, current |-> NoCard, ongoing |-> <<>>]
  /\ UNCHANGED planes

DisableArchenemy == schemes' = Off /\ UNCHANGED planes

\* An ongoing scheme stays in play.
Kept(ongoing, c) == IF c \in Ongoing THEN Append(ongoing, c) ELSE ongoing

\* _apply_scheme_set_in_motion: the scheme that was up goes to the discard unless
\* it is ongoing; the next one stays in play if it is.
SetInMotion ==
  /\ schemes.on
  /\ LET s == schemes
         put == IF s.current = NoCard \/ s.current \in Ongoing THEN s.discard
                ELSE Append(s.discard, s.current)
     IN  \E d \in Drawable(s.deck, put) :
           schemes' = [s EXCEPT !.deck = Below(d.deck), !.discard = d.discard,
                                !.current = Top(d.deck),
                                !.ongoing = Kept(@, Top(d.deck))]
  /\ UNCHANGED planes

\* _apply_scheme_abandon.  The scheme named leaves play, and the view if it is up,
\* but only one that was in play goes to the discard.
AbandonNamed(c) ==
  /\ schemes.on
  /\ schemes' = [schemes EXCEPT
                   !.ongoing = SelectSeq(@, LAMBDA o : o # c),
                   !.discard = IF c \in Cards(schemes.ongoing) THEN Append(@, c) ELSE @,
                   !.current = IF @ = c THEN NoCard ELSE @]
  /\ UNCHANGED planes

\* Without a name, the scheme that is up: it goes to the discard, and stays in play
\* if it is ongoing.
AbandonCurrent ==
  /\ schemes.on
  /\ schemes.current # NoCard
  /\ schemes' = [schemes EXCEPT !.discard = Append(@, schemes.current), !.current = NoCard]
  /\ UNCHANGED planes

Next ==
  \/ EnablePlanechase
  \/ DisablePlanechase
  \/ Planeswalk
  \/ EnableArchenemy
  \/ DisableArchenemy
  \/ SetInMotion
  \/ \E c \in Schemes : AbandonNamed(c)
  \/ AbandonCurrent

Spec == Init /\ [][Next]_vars

----------------------------------------------------------------------------
(* Properties *)

\* Every plane is in one pile, once, through any number of shuffles: the one that is
\* up is not in the deck or the discard as well, and none drops out of the game
\* (_advance_plane; tests/test_planechase.py:98).  There is always one up.
PlanesInOnePile ==
  planes.on =>
    /\ planes.current # NoCard
    /\ Len(planes.deck) + Len(planes.discard) + 1 = Cardinality(Planes)
    /\ Cards(planes.deck) \cup Cards(planes.discard) \cup {planes.current} = Planes

=============================================================================
