CONSTANTS
  Classes = {c1, c2}
  Names = {n1, n2}
  AdminClasses = {a1, a2}
  Offerings = {o1, o2}
  Clients = {p1, p2}
  MaxGroups = 2
  None = None
  Sheets <- SmallSheets
  Regimens <- RegimenSets
  Calendar <- Term
  MaxParts = 1
  NoSeq = 0
  NoSpot = ""
  Suspended = "halted"
  Empty = ""
  YearOf <- Years
SPECIFICATION MCSpec
SYMMETRY Symmetry
INVARIANTS SplitsTheSheet FilesFitTogether
PROPERTIES MembersFrozen RefinesRosters
CHECK_DEADLOCK FALSE
