CONSTANTS
  c1 = c1
  c2 = c2
  p1 = p1
  p2 = p2
  a1 = a1
  k1 = k1
  k2 = k2
  t1 = t1
  Calls = {c1, c2}
  Tasks = {p1, p2}
  CallOf <- TwoCallOf
  Agents = {a1}
  Customers = {k1}
  Txns = {t1}
  Owner <- OneOwner
  HighValue = {}
  InitStatus = {"failed", "completed"}
  NoCustomer = NoCustomer
  NoTxn = NoTxn
  MaxHolds = 2
  MaxDisputes = 2
  MaxReseeds = 0
SPECIFICATION Spec
PROPERTIES FrozenStaysFrozen
