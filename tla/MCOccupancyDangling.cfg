CONSTANTS
  Rooms = {r1}
  Days = {d1}
  Periods = 1
  Clients = {c1, c2}
  Bookings = {b1}
  Sessions = {s1}
  None = None
  Unborn = Unborn
  Gone = Gone
SPECIFICATION Spec
CHECK_DEADLOCK FALSE
INVARIANTS NoDanglingRoom
