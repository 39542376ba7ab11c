\* Two overlapping requests, two screens, and one dropped connection or restart.
CONSTANTS
  Requests = {r1, r2}
  Clients = {c1, c2}
  MaxFailures = 1

SPECIFICATION Spec

INVARIANTS
  TypeOK
  NoLostUpdate

PROPERTIES
  FeedSpec
  ScreensCatchUp

\* Once every request is answered and every screen is current, nothing moves.
CHECK_DEADLOCK FALSE
