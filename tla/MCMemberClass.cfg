CONSTANTS
  RowIds = {1, 2}
  Keys = {"a", "b"}
  Students = {s1}
  Clerks = {d1, d2}
  MaxRows = 2
  BlankCell = ""
  NoKey = NoKey
  Erased = Erased
  NoClass = NoClass
SPECIFICATION RecordsSpec
PROPERTIES MembersKeepTheirClass
CHECK_DEADLOCK FALSE
