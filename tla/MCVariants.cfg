\* Decks of three, one scheme ongoing; a board of two seats and five actions.
CONSTANTS
  Planes = {p1, p2, p3}
  Schemes = {s1, s2, s3}
  Ongoing = {s3}
  NoCard = NoCard
  MaxDiscard = 4
  N = 2
  StartingLife = 2
  Creatures <- MCCreatures
  StartLibrary = 1
  StartHand = 1
  Deltas <- MCDeltas
  Amounts = {1}
  Counts = {0, 1}
  MaxTokens = 2
  MaxActions = 5
SPECIFICATION MCSpec
\* A board ends with its last action.
CHECK_DEADLOCK FALSE
CONSTRAINTS
  DiscardIsBounded
INVARIANTS
  PlanesInOnePile
PROPERTIES
  StateBasedActions
