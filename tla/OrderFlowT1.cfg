\* Buy, sell the next day, and buy again.
SPECIFICATION Spec
CONSTANTS
  Symbol = {"300346"}
  InitialCash = 5
  SlotsPerDay = 2
  LotSize = 1
  OrderId = {i1, i2, i3}
  Quantity = {0, 1, 2}
  Price = {2, 3}
  Fee = {0, 1}
  MaxFee = 1
  Volume = {0, 1}
  Caller = {"serial"}
INVARIANT BoughtTodayIsNotSellable
