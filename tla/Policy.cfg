SPECIFICATION Spec
CONSTANTS
  Products <- ShopProducts
  Price <- ShopPrice
  Group <- ShopGroup
  Brand <- ShopBrand
  DiscountBps = 500
  MaxUnits = 2
  Likings <- ShopLikings
INVARIANTS HintOnlyRanks DemoOffersSamePrice
CHECK_DEADLOCK FALSE
