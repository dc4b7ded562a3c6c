CONSTANTS
  Rooms = {r1}
  Days = {d1}
  Periods = 1
  Clients = {c1, c2}
  Bookings = {b1, b2}
  Sessions = {s1}
  None = None
  Unborn = Unborn
  Gone = Gone
  Imports = {i1}
  MaxRows = 2
  RowStatus = {"approved", "rejected"}
  Checkins = {k1, k2}
  Students = {u1, u2}
  Unmarked = Unmarked
  WrittenMarks = {"present", "absent"}
  MaxWrites = 1
  Admins = {a1, a2}
  Bodies <- SettingBodies
  Blank = ""
  Spaces = " "
  Odd = "odd"
  Long = "long"
  Preset = "preset"
  NoPut = NoPut
SPECIFICATION MCSpec
CHECK_DEADLOCK FALSE
SYMMETRY Symmetry
INVARIANTS OverlapOnlyFromImport ViewsAgree
PROPERTIES ImportAloneIsSafe SettingsStand
