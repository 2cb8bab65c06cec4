SPECIFICATION Spec
CONSTANTS
  t1 = t1
  t2 = t2
  t3 = t3
  checking = checking
  saving = saving
  shop = shop
  payee = payee
  broad = broad
  narrow = narrow
  food = food
  p1 = p1
  p2 = p2
  NoTxn = NoTxn
  NoRule = NoRule
  Absent = Absent
  Gone = Gone
  NoCategory = NoCategory
  NoAccount = NoAccount
  Merchants = {shop, payee}
  Patterns = {broad, narrow}
  FoundIn <- MCFoundIn
  Length <- MCLength
  Accounts = {checking, saving}
  WindowDays = 1
  DefaultSavings = {saving}
  RuleIds = {1, 2}
  MaxEdits = 1
  Categories = {food}
  Txns = {t1}
  Reports <- OneOutflow
  Actors = {p1}
  MaxEvents = 5
INVARIANTS
  TypeOK
  RulesApplied
  OverrideSticks
  MarkSticks
