\* Two requests of the owner and one of a player open at once.
CONSTANTS
  N = 2
  Players = {p1, p2}
  Decks = {d1}
  OwnerSlots = {o1, o2}
  PlayerSlots = {q1}
  NoValue = NoValue

SPECIFICATION Spec

SYMMETRY Interchangeable

INVARIANTS
  TypeOK
  InProgressHasBoard
  NoBoardUnbooked
  BoardFollowsStatus
