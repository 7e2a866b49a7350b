--------------------------- MODULE MarketRules ---------------------------
(***************************************************************************)
(* MarketRulesEngine.validate of execution/market_rules.py: which order     *)
(* intents it accepts, given the bar and the state of the portfolio.  Which *)
(* of several reasons a rejection names is left out: nothing reads it.      *)
(***************************************************************************)
EXTENDS Integers

CONSTANT LotSize  \* lot_size, 100 shares

ASSUME RulesAssumption == LotSize \in Nat \ {0}

TradingStatus == {"TRADING", "HALTED", "LIMIT_UP", "LIMIT_DOWN", "CLOSED", "UNKNOWN"}

WholeLots(quantity) == quantity > 0 /\ quantity % LotSize = 0

StatusAllows(side, status) ==
  /\ status \notin {"HALTED", "UNKNOWN"}
  /\ ~(status = "LIMIT_UP" /\ side = "BUY")
  /\ ~(status = "LIMIT_DOWN" /\ side = "SELL")

\* A bar without volume, or with volume 0, does not limit the order.
VolumeAllows(quantity, volume) == volume > 0 => quantity <= volume

\* Mutant of Accepts: the sellable quantity is not looked at.
AcceptsAnySale(side, quantity, price, status, volume, cash, sellable, position) ==
  /\ WholeLots(quantity)
  /\ StatusAllows(side, status)
  /\ VolumeAllows(quantity, volume)
  /\ side = "BUY" => cash >= price * quantity

\* sellable and position are those of the intent's symbol at the bar's time.
Accepts(side, quantity, price, status, volume, cash, sellable, position) ==
  /\ WholeLots(quantity)
  /\ StatusAllows(side, status)
  /\ VolumeAllows(quantity, volume)
  /\ side = "BUY" => cash >= price * quantity
  /\ side = "SELL" => quantity <= sellable /\ quantity <= position
==========================================================================
