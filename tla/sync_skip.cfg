SPECIFICATION Spec
CONSTANTS
  c1 = c1
  c2 = c2
  a1 = a1
  a2 = a2
  b1 = b1
  t1 = t1
  t2 = t2
  u1 = u1
  NoConn = NoConn
  p1 = p1
  p2 = p2
  Conns = {c1}
  Accts = {a1, a2}
  Txns = {t1, t2}
  ConnOf <- MCConnOf
  AcctOf <- MCAcctOf
  MaxEvents = 2
  Passes = {p1}
  Flaky = {}
  Undecryptable = {}
  MaxInterruptions = 0
INVARIANTS CursorNeverAheadOfData
