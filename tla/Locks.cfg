SPECIFICATION Spec
CONSTANTS
  o1 = o1
  o2 = o2
  w1 = w1
  w2 = w2
  h1 = h1
  h2 = h2
  NoOrder = NoOrder
  Orders = {o1, o2}
  Lines <- TwoLines
  OrderOf <- TwoOrderOf
  Catalog = 2
  Carts <- MCCarts
  Cancellable = {o1}
  Workers = {w1, w2}
  Handlers = {h1, h2}
INVARIANTS LocksType OneWriterPerOrder DeadlockHasCause HiddenHasCause
SYMMETRY SymAgents
