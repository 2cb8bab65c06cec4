SPECIFICATION Spec
CONSTANTS
  t1 = t1
  t2 = t2
  t3 = t3
  checking = checking
  saving = saving
  shop = shop
  payee = payee
  broad = broad
  narrow = narrow
  food = food
  p1 = p1
  p2 = p2
  NoTxn = NoTxn
  NoRule = NoRule
  Absent = Absent
  Gone = Gone
  NoCategory = NoCategory
  NoAccount = NoAccount
  Merchants = {shop, payee}
  FoundIn <- MCFoundIn
  Length <- MCLength
  Accounts = {checking, saving}
  WindowDays = 1
  DefaultSavings = {saving}
  MaxEdits = 1
  Patterns = {broad}
  RuleIds = {1}
  Categories = {food}
  Txns = {t1}
  Reports <- OneOutflow
  Actors = {p1, p2}
  MaxEvents = 2
INVARIANTS
  OverrideSticks
