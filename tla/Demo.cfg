SPECIFICATION Demo
CONSTANTS
  MaxNew = 2
  Quantities = {14}
  Ordered = {1, 2}
INVARIANTS DemoType DemoStockConserved DemoMoneyBalanced
PROPERTIES MetricsNeverFall DemoKeepsPromise
CHECK_DEADLOCK FALSE
