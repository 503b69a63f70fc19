SPECIFICATION DispatchSpec
CONSTANTS
  h1 = h1
  h2 = h2
  Handlers = {h1, h2}
  Ids = {"d1", "d2", "woo-1", "woo-2"}
  Contents <- MCContents
  Raws = {"sent", "again"}
  Email <- MCEmail
  Person <- MCPerson
  Total <- MCTotal
  Mismatch = {"large"}
  Trusted <- MCForms
  Given <- MCGiven
  ValueMultiple = 30
  NewCustomerFrom = 30
  VelocityMax = 2
  RiskThreshold = 8
  Forms <- MCForms
  FirstProduct <- MCFirstProduct
  Uids = {"d1", "d2"}
  NoId = NoId
  ShopRequests <- MCShop
  MaxDeliveries = 3
INVARIANTS DispatchType OneOrderPerId SuccessIsMine ConflictIsReal ReviewMeansBurst NoDoublePlacing ConflictOnlyAfterSwitch
SYMMETRY SymHandlers
