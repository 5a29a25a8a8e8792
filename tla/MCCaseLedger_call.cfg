CONSTANTS
  c1 = c1
  c2 = c2
  p1 = p1
  p2 = p2
  a1 = a1
  k1 = k1
  k2 = k2
  t1 = t1
  Calls = {c1}
  Tasks = {p1}
  CallOf <- CallCallOf
  Agents = {}
  Customers = {k1, k2}
  Txns = {t1}
  Owner <- OneOwner
  HighValue = {}
  InitStatus = {"failed"}
  NoCustomer = NoCustomer
  NoTxn = NoTxn
  MaxHolds = 1
  MaxDisputes = 2
  MaxReseeds = 1
SPECIFICATION Spec
INVARIANT StatusBacked
PROPERTY WritesAuthorised
