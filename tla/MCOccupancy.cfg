CONSTANTS
  Rooms = {r1, r2}
  Days = {d1}
  Periods = 2
  Clients = {c1, c2}
  Bookings = {b1, b2}
  Sessions = {s1}
  None = None
  Unborn = Unborn
  Gone = Gone
  Searches = {"", "a"}
  FilterValues = {q1, q2}
  NoSearch = ""
  MaxFound = 2
  MaxActs = 3
  People = {v1, v2}
  Nobody = Nobody
  MaxTurns = 3
  MaxResets = 3
SPECIFICATION MCSpec
CHECK_DEADLOCK FALSE
SYMMETRY Symmetry
INVARIANTS NoOverlap ShownIsAsked InputFollowsTurn SentIsShown
PROPERTIES RefinesReservations
