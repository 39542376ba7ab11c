\* One user and three prices.
CONSTANTS
  Watchers = {u1}
  MaxPrice = 3
  Gone = Gone
  Off = Off
SPECIFICATION SpecAlerts
INVARIANTS
  ToldOnce
PROPERTIES
  CrossingIsTold
  OverrideShows
