SPECIFICATION FairSpec
CONSTANTS
  Null = Null
  StaleAfter = 0
  c1 = c1
  a1 = a1
  d1 = d1
  p1 = p1
  p2 = p2
  e1 = e1
  n1 = n1
  Conns = {c1}
  Accts = {a1, d1}
  Passes = {p1, p2}
  Editors = {e1}
  Names = {n1}
  ConnOf <- MCConnOf
  KindAtBank <- MCKindAtBank
  SavesAtBank <- MCSavesAtBank
  Reports <- MCReports
  Offsets <- MCOffsets
  MaxBalance = 1
  MaxMoves = 2
INVARIANTS TypeOK CreditNotSavings ChoicesStand GoneMeansGone PositionMatchesGroups
PROPERTIES EventuallyInStep
CHECK_DEADLOCK FALSE
