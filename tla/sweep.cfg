SPECIFICATION Spec
CONSTANTS
  job = job
  user = user
  Null = Null
  NoDate = NoDate
  StaleAfter = 200
  MonthLengths <- SixMonths
  ZoneShift <- West
  Runs = {job, user}
  Job = job
  JobDay = 30
  Accounts = {1, 2}
  Rows <- TwoAccounts
  Items = {3, 4}
  Declarations <- TwoItems
  Instants <- Afternoons
  Margins <- Submitted
  MaxRuns = 2
  MaxMoves = 2
INVARIANTS
  TypeOK
  RequirementIsLeast
  UnpaidStaysReserved
  UnknownNeverLowers
  PageShowsAsked
  OverdueIsReserved
CHECK_DEADLOCK FALSE
