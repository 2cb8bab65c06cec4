SPECIFICATION Spec
CONSTANTS
  everyday = everyday
  other = other
  food = food
  fun = fun
  MonthLengths <- JanuaryFebruary
  NoDate = NoDate
  Categories = {food, fun}
  NoCategory = NoCategory
  Txns = {1, 2}
  Accounts = {everyday, other}
  Reports <- TwoReports
  Ledgers <- TwoLedgers
  SavedBudgets <- OneBudget
  Absent = Absent
  Nothing = Nothing
  Addresses <- FewPages
  Instants = {61, 63}
  Targets <- Plans
  Amounts = {0, 4}
  RecentLimit = 1
  Slots = {s1, s2}
  MaxMoves = 3
INVARIANTS
  TypeOK
  StaleOnlyIfMissed
  PartsSumToTotal
  DrillsReconcile
SYMMETRY SlotSymmetry
CHECK_DEADLOCK FALSE
