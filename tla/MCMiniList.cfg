CONSTANTS
  Searches = {"", "a"}
  FilterValues = {f1, f2}
  NoSearch = ""
  MaxFound = 2
  MaxActs = 3
SPECIFICATION ListSpec
INVARIANTS PagesFollow
CHECK_DEADLOCK FALSE
