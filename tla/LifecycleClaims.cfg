\* Two phones claim the same seat at once.
CONSTANTS
  N = 1
  Players = {p1, p2}
  Decks = {d1}
  OwnerSlots = {o1}
  PlayerSlots = {q1, q2}
  NoValue = NoValue

SPECIFICATION Spec

INVARIANT GrantsHold
