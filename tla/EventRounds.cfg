SPECIFICATION MCSpec
CONSTANTS
  Run = {r1}
  Event = {e1, e2, e3}
  Tcp = {e1, e2}
  Limit = 1
  MaxStops = 1
  MaxErrors = 2
  LastCid = 4
  Guests = {1, 2, 4}
  MaxCrashes = 2
  MaxLost = 1
CHECK_DEADLOCK FALSE
INVARIANTS CountedAndWarned NothingSkipped
PROPERTIES EventsHandled NetStops EventsWarned
