CONSTANTS
  Sheets <- SmallSheets
  Regimens <- RegimenSets
  Calendar <- Term
  MaxParts = 1
  NoSeq = 0
  NoSpot = ""
  Suspended = "halted"
  Empty = ""
  YearOf <- Years
SPECIFICATION SplitSpec
INVARIANTS OfferingsNameATeachingClass
CHECK_DEADLOCK FALSE
