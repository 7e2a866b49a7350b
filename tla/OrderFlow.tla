---------------------------- MODULE OrderFlow ----------------------------
(***************************************************************************)
(* Orders on their way through the backtest: an OrderIntent is validated    *)
(* by MarketRulesEngine against the bar of the decision and the ledger of   *)
(* that moment, and the PaperFill that answers it is applied to the ledger  *)
(* later, at another bar's price.  Fills may be delivered again.            *)
(*                                                                         *)
(* The order in which validations and fills interleave is the caller's: a   *)
(* serial caller has an accepted order filled before it validates the next, *)
(* an overlapping one may have several on their way.                        *)
(***************************************************************************)
EXTENDS PortfolioLedger, MarketRules, FiniteSets, FiniteSetsExt

CONSTANTS
  OrderId,    \* orders; the fill of an order has the id of its order
  Quantity,   \* quantities that an intent may ask for
  Price,      \* prices of the bars
  Fee,        \* fees of the fills
  MaxFee,     \* the largest of them
  Volume,     \* volumes of the bars
  Caller      \* the kinds of caller looked at

ASSUME FlowAssumption == /\ Symbol # {}
                         /\ Quantity \subseteq Nat
                         /\ Price \subseteq Nat
                         /\ Volume \subseteq Nat
                         /\ MaxFee \in Nat
                         /\ Fee \subseteq 0..MaxFee
                         /\ Caller \subseteq {"serial", "overlapping"}

\* Fees are small: the proceeds of any sale pay for two of them.
FeesAreSmall == \A p \in Price : p * LotSize >= 2 * MaxFee

VARIABLES
  order,   \* each order: its intent, its stage and the fill applied for it
  slot,    \* the slot of the trading day
  today,   \* quantity of each symbol bought since the day began
  caller   \* the kind of caller, which never changes

vars == <<ledger, order, slot, today, caller>>

-----------------------------------------------------------------------------
(* Orders *)

\* The stages of an order: not sent, accepted, its fill booked, its fill
\* recorded in _fills (apply_fill does that first) although apply_fill raised.
Stage == {"none", "accepted", "booked", "raised"}

Side == {"BUY", "SELL"}

Order == [stage : Stage, side : Side, symbol : Symbol, quantity : Nat,
          price : Nat, fee : 0..MaxFee]

Unsent == [stage |-> "none", side |-> "BUY", symbol |-> CHOOSE s \in Symbol : TRUE,
           quantity |-> 0, price |-> 0, fee |-> 0]

InStage(stage) == {i \in OrderId : order[i].stage = stage}

-----------------------------------------------------------------------------
(* Steps *)

Init == /\ LedgerInit
        /\ order = [i \in OrderId |-> Unsent]
        /\ slot = 0
        /\ today = [s \in Symbol |-> 0]
        /\ caller \in Caller

\* An intent that the rules accept; one that they reject changes nothing.
Validate(i, side, s, q, p) ==
  /\ order[i].stage = "none"
  /\ caller = "serial" => InStage("accepted") = {}
  /\ \E status \in TradingStatus, v \in Volume :
       Accepts(side, q, p, status, v, cash, Sellable(s), position[s])
  /\ order' = [order EXCEPT ![i] = [stage |-> "accepted", side |-> side,
                                    symbol |-> s, quantity |-> q,
                                    price |-> 0, fee |-> 0]]
  /\ UNCHANGED <<ledger, slot, today, caller>>

Record(i, stage, p, f) ==
  order' = [order EXCEPT ![i].stage = stage, ![i].price = p, ![i].fee = f]

BookBuy(i, p, f) ==
  LET o == order[i] IN
  /\ o.side = "BUY" /\ BuyIsCovered(p * o.quantity)
  /\ Bought(o.symbol, o.quantity, p * o.quantity, f)
  /\ Record(i, "booked", p, f)
  /\ today' = [today EXCEPT ![o.symbol] = @ + o.quantity]

BookSell(i, p, f) ==
  LET o == order[i] IN
  /\ o.side = "SELL"
  /\ SellFeeIsCovered(p * o.quantity, f) /\ SharesAreHeld(o.symbol, o.quantity)
  /\ Sold(o.symbol, o.quantity, p * o.quantity, f)
  /\ Record(i, "booked", p, f)
  /\ UNCHANGED today

FillRaises(i, p, f) ==
  LET o == order[i] IN
  /\ \/ o.side = "BUY" /\ BuyRaises(p * o.quantity)
     \/ o.side = "SELL" /\ SellRaises(o.symbol, o.quantity, p * o.quantity, f)
  /\ Record(i, "raised", p, f)
  /\ UNCHANGED today

\* Mutant of IsNewFill: "if fill.paper_fill_id in self._fills" is missing.
AnyFill(i) == order[i].stage # "none"

\* The fill of an order that was accepted and whose id is not in _fills.
IsNewFill(i) == order[i].stage = "accepted"

\* apply_fill; a fill that is delivered again raises and changes nothing.
ApplyFill(i, p, f) ==
  /\ IsNewFill(i)
  /\ BookBuy(i, p, f) \/ BookSell(i, p, f) \/ FillRaises(i, p, f)
  /\ UNCHANGED <<slot, caller>>

\* Time passes, and the trading day ends after its last slot.
Tick ==
  /\ slot' = (slot + 1) % SlotsPerDay
  /\ today' = IF slot' = 0 THEN [s \in Symbol |-> 0] ELSE today
  /\ SettleOneSlot
  /\ UNCHANGED <<cash, position, order, caller>>

Next ==
  \/ \E i \in OrderId, side \in Side, s \in Symbol, q \in Quantity, p \in Price :
       Validate(i, side, s, q, p)
  \/ \E i \in OrderId, p \in Price, f \in Fee : ApplyFill(i, p, f)
  \/ Tick

Spec == Init /\ [][Next]_vars

-----------------------------------------------------------------------------
(* Properties *)

\* The ledger, the orders and the clock are of their types.
TypeOK == /\ LedgerTypeOK
          /\ order \in [OrderId -> Order]
          /\ slot \in 0..(SlotsPerDay - 1)
          /\ today \in [Symbol -> Nat]
          /\ caller \in Caller

Amount(i) == order[i].price * order[i].quantity

CashOf(i) == IF order[i].side = "BUY" THEN - Amount(i) - order[i].fee
                                      ELSE Amount(i) - order[i].fee

\* The cash equation of docs/architecture/backtest-phase4-design.md:74 over a
\* set of fills: initial cash, plus sales, less purchases, less fees.
CashEquation(fills) == cash = InitialCash + MapThenSumSet(CashOf, fills)

SharesOf(s, fills) ==
  MapThenSumSet(LAMBDA i : IF order[i].symbol # s THEN 0
                           ELSE IF order[i].side = "BUY" THEN order[i].quantity
                           ELSE - order[i].quantity, fills)

\* The positions are what the booked fills make of nothing.  So is the cash of the
\* initial cash for a serial caller and small fees: else a sale may raise half-way.
BookedFillsAddUp ==
  /\ caller = "serial" /\ FeesAreSmall => CashEquation(InStage("booked"))
  /\ \A s \in Symbol : position[s] = SharesOf(s, InStage("booked"))

\* The sales for which apply_fill raised.
RaisedSales == {i \in InStage("raised") : order[i].side = "SELL"}

\* Whoever calls, and whatever the fees, the cash is what the booked fills make
\* of the initial cash plus what each sale for which apply_fill raised half-way
\* has left, its proceeds or these less the fee.  A purchase that raised, a
\* rejected order and a fill delivered twice leave nothing.
CashIsAccountedFor ==
  \E charged \in SUBSET RaisedSales :
    cash = InitialCash + MapThenSumSet(CashOf, InStage("booked") \cup charged)
                       + MapThenSumSet(Amount, RaisedSales \ charged)

\* The cash and the positions are exactly what the fills make of the initial
\* cash, each applied once, and what is left of those that raised is known.
LedgerMatchesBookedFills == BookedFillsAddUp /\ CashIsAccountedFor

\* Cash, position and settlement are updated atomically
\* (src/quant_signal_system/portfolio/ledger.py:21): a fill for which
\* apply_fill raises leaves the ledger as it was.
FillsAreAtomic ==
  [][\A i \in OrderId : order[i].stage # "raised" /\ order'[i].stage = "raised"
       => UNCHANGED ledger]_vars

\* A sale that a serial caller had accepted and that is still on its way is
\* covered by the shares held: apply_fill cannot run out of shares half-way.
AcceptedSalesAreCovered ==
  caller = "serial" => \A i \in InStage("accepted") :
    order[i].side = "SELL" => SharesAreHeld(order[i].symbol, order[i].quantity)

\* docs/architecture/backtest-testing-strategy.md:339 asks for cash >= 0 after any
\* sequence of orders, which the code does not keep: apply_fill takes the fee of
\* a purchase without looking.  What it keeps is that nothing else overdraws the
\* cash: IF it is below zero THEN by no more than the fee of one booked purchase.
OverdraftIsOneFee ==
  cash < 0 => \E i \in InStage("booked") :
                order[i].side = "BUY" /\ cash >= -order[i].fee

\* Shares held are sellable once nothing bought is waiting for settlement:
\* no sale uses up the records of shares that are still held.
NoSharesStayLocked ==
  \A s \in Symbol :
    (\A k \in 1..SlotsPerDay : pending[s][k] = 0) => Sellable(s) = position[s]

\* T+1: what was bought today is not sellable today
\* (docs/architecture/backtest-testing-strategy.md:149).
BoughtTodayIsNotSellable ==
  \A s \in Symbol : Sellable(s) <= position[s] - today[s]
==========================================================================
