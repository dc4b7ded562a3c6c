CONSTANTS
  Classes = {c1, c2}
  Names = {n1, n2}
  AdminClasses = {a1}
  Offerings = {o1}
  Clients = {p1, p2}
  MaxGroups = 2
  None = None
  ImportJobs = {j1, j2}
  Operators = {r1, r2}
  Workers = {w1, w2}
  Slots = 1
  MaxOutages = 1
  MaxLost = 0
  NoWork = NoWork
SPECIFICATION MCSpec
PROPERTIES Answered EventuallyAnswered
CHECK_DEADLOCK FALSE
