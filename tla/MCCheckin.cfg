CONSTANTS
  Checkins = {k1}
  Students = {s1, s2}
  Scans = {p1, p2}
  Unmarked = Unmarked
  None = None
  Tickets = {t1, t2}
  Rooms = {r1}
  Users = {u1, u2}
  Clients = {c1, c2}
  Nobody = Nobody
  MaxRounds = 2
  ChannelSize = 2
  MaxItems = 2
  MaxParallel = 2
  Tables <- BellTimes
  Slots <- AskedSlots
  NoTable = NoTable
  NoSlot = NoSlot
SPECIFICATION MCSpec
INVARIANTS SlotsMatchPrompt
PROPERTIES CorrectionStands PresentBeforeLate RefinesAttendance ScanAnswered ConfirmedFromCompleted TurnEnds
CHECK_DEADLOCK FALSE
