SPECIFICATION FairSpec
CONSTANTS
  c1 = c1
  c2 = c2
  a1 = a1
  a2 = a2
  b1 = b1
  t1 = t1
  t2 = t2
  u1 = u1
  NoConn = NoConn
  p1 = p1
  p2 = p2
  Conns = {c1, c2}
  Accts = {a1, b1}
  Txns = {t1, u1}
  ConnOf <- MCConnOf
  AcctOf <- MCAcctOf
  MaxEvents = 2
  Passes = {p1}
  Flaky = {c2}
  Undecryptable = {}
  MaxInterruptions = 1
INVARIANTS
  TypeOK
  LostOnlyIfSkipped
PROPERTIES
  ImplementsMirror
  HealthyLoginCatchesUp
