\* One playgroup with two members, one request at a time.
CONSTANTS
  host = host
  u2 = u2
  Users = {host, u2}
  Host = host
  Guests = {u2}
  Groups = {g1}
  Slots = {r1}
  MaxSessions = 1
  NoGroup = NoGroup
  NoSession = NoSession
  Idle = Idle
SPECIFICATION Spec
\* Once every account is deleted nothing happens any more.
CHECK_DEADLOCK FALSE
PROPERTY DeletionIsNotBlocked
