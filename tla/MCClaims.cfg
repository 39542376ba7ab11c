\* The loop may stall, and nobody has to post: the requests end.
CONSTANTS
  N = 3
  d1 = d1
  d2 = d2
  Decks = {d1, d2}
  Offered <- MCOffered
  MaxRows = 7
  Tables <- MCTables
  NoRow = NoRow
  NoOne = NoOne
SPECIFICATION Spec
CHECK_DEADLOCK FALSE
INVARIANTS
  Conserved
  AppliedOnce
PROPERTY EveryRequestEnds
