\* One playgroup, the owner of the game and two others, two requests at a time.
CONSTANTS
  host = host
  u2 = u2
  u3 = u3
  Users = {host, u2, u3}
  Host = host
  Guests = {u2, u3}
  Groups = {g1}
  Slots = {r1, r2}
  MaxSessions = 1
  NoGroup = NoGroup
  NoSession = NoSession
  Idle = Idle
SPECIFICATION Spec
\* Once every account is deleted nothing happens any more.
CHECK_DEADLOCK FALSE
SYMMETRY Interchangeable
CONSTRAINTS OwnersAreSettled QuietEvenings
INVARIANTS
  TypeOK
  OneOwner
  SharersAreMembers
