SPECIFICATION Spec
CONSTANTS
  o1 = o1
  o2 = o2
  w1 = w1
  w2 = w2
  NoWorker = NoWorker
  Products <- TwoProducts
  Price <- TwoPrice
  Group <- TwoGroup
  Brand <- TwoBrand
  DiscountBps = 500
  InitStock <- TwoStock
  AgentMode = "ollama"
  Orders <- TwoOrders
  NLines = 4
  OrderOf <- TwoOrderOf
  Item <- TwoItem
  Qty <- TwoQty
  MaxQty = 2
  Liked <- TwoLiked
  Workers = {w1, w2}
  MaxAttempts = 2
  Durability = "async"
  Cancellable <- TwoOrders
  Retriable = {}
  MaxFaults = 0
SYMMETRY SymWorkers
INVARIANTS StockConserved BillNeverIncreases MoneyBalanced NeverForgotten
PROPERTY KeepsPromise
CHECK_DEADLOCK FALSE
