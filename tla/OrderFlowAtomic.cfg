\* A purchase whose fee overdraws the cash, then a small sale.
SPECIFICATION Spec
CONSTANTS
  Symbol = {"300346"}
  InitialCash = 4
  SlotsPerDay = 2
  LotSize = 1
  OrderId = {i1, i2, i3}
  Quantity = {0, 1, 2}
  Price = {1, 2}
  Fee = {0, 1}
  MaxFee = 1
  Volume = {0, 1}
  Caller = {"serial"}
PROPERTY FillsAreAtomic
