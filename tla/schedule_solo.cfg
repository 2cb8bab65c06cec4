SPECIFICATION FairSpec
CONSTANTS
  t1 = t1
  t2 = t2
  store = store
  p1 = p1
  p2 = p2
  Items = {1, 2}
  Declarations <- TwoItems
  Undeclared = Undeclared
  Deleted = Deleted
  Txns = {t1, t2}
  NoTxn = NoTxn
  Forms <- NearForms
  Absent = Absent
  Gone = Gone
  Merchants = {store}
  NoMerchant = NoMerchant
  NoHolder = NoHolder
  Today = 20
  Tolerance = 5
  TrailingDays = {11, 12}
  Actors = {p1}
  MaxEvents = 5
INVARIANTS
  ManualStands
  MatchesHaveItem
PROPERTIES
  PassesSettle
