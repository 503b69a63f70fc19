SPECIFICATION Spec
CONSTANTS
  o1 = o1
  o2 = o2
  w1 = w1
  w2 = w2
  NoWorker = NoWorker
  Products <- OneProducts
  Price <- OnePrice
  Group <- OneGroup
  Brand <- OneBrand
  DiscountBps = 500
  InitStock <- OneStock
  AgentMode = "rules"
  Orders <- OneOrder
  NLines = 3
  OrderOf <- OneOrderOf
  Item <- OneItem
  Qty <- OneQty
  MaxQty = 2
  Liked <- OneLiked
  Workers = {w1}
  MaxAttempts = 2
  Durability = "async"
  Cancellable <- OneOrder
  Retriable <- OneOrder
  MaxFaults = 0
INVARIANT CancelledNeverPickedUp
CHECK_DEADLOCK FALSE
