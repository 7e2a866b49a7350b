------------------------- MODULE OrderFlow_proofs -------------------------
(***************************************************************************)
(* Proofs about OrderFlow, for any symbols, prices, fees, lot size, length  *)
(* of day and number of orders.                                            *)
(***************************************************************************)
EXTENDS OrderFlow, SumLemmas

USE LedgerAssumption, RulesAssumption, FlowAssumption

\* A step of apply_fill that does not raise, or one that does, seen from the
\* ledger: what the order was, and what became of cash and position.
LEMMA FillEffect ==
  ASSUME TypeOK, NEW i \in OrderId, NEW p \in Price, NEW f \in Fee,
         ApplyFill(i, p, f)
  PROVE  /\ order[i].stage = "accepted"
         /\ p * order[i].quantity \in Nat /\ f \in 0..MaxFee
         /\ \/ /\ cash >= p * order[i].quantity
               /\ cash' = cash - p * order[i].quantity - f
            \/ /\ cash + p * order[i].quantity >= f
               /\ cash' = cash + p * order[i].quantity - f
            \/ cash' = cash + p * order[i].quantity
            \/ cash' = cash
<1> DEFINE amount == p * order[i].quantity
<1>1. order[i].quantity \in Nat /\ p \in Nat /\ f \in 0..MaxFee
  BY DEF TypeOK, Order
<1>2. amount \in Nat
  BY <1>1
<1>3. order[i].stage = "accepted"
  BY DEF ApplyFill, IsNewFill
<1>4. CASE BookBuy(i, p, f)
  BY <1>1, <1>2, <1>3, <1>4 DEF BookBuy, Bought, BuyIsCovered
<1>5. CASE BookSell(i, p, f)
  BY <1>1, <1>2, <1>3, <1>5 DEF BookSell, Sold, SellFeeIsCovered
<1>6. CASE FillRaises(i, p, f)
  BY <1>1, <1>2, <1>3, <1>6 DEF FillRaises, BuyRaises, SellRaises, SellFeeIsCovered, ledger
<1> QED
  BY <1>4, <1>5, <1>6 DEF ApplyFill

-----------------------------------------------------------------------------
(* Type correctness *)

\* A new ledger without orders is of its types.
LEMMA InitTypeOK == Init => TypeOK
<1> SUFFICES ASSUME Init PROVE TypeOK
  OBVIOUS
<1>1. Unsent \in Order
  BY DEF Unsent, Order, Stage, Side
<1> QED
  BY <1>1 DEF Init, LedgerInit, TypeOK, LedgerTypeOK

\* Settlement only moves quantities from pending to settled.
LEMMA SettlementTypes ==
  ASSUME LedgerTypeOK, SettleOneSlot
  PROVE  /\ settled' \in [Symbol -> Nat]
         /\ pending' \in [Symbol -> [1..SlotsPerDay -> Nat]]
<1>1. ASSUME NEW s \in Symbol
      PROVE  settled[s] + pending[s][1] \in Nat
  BY DEF LedgerTypeOK
<1>2. ASSUME NEW s \in Symbol, NEW k \in 1..SlotsPerDay
      PROVE  (IF k < SlotsPerDay THEN pending[s][k + 1] ELSE 0) \in Nat
  BY DEF LedgerTypeOK
<1> QED
  BY <1>1, <1>2 DEF SettleOneSlot

\* No order, fill or slot of time breaks the types; a sale takes no more shares
\* than are held.
LEMMA NextTypeOK == TypeOK /\ [Next]_vars => TypeOK'
<1> SUFFICES ASSUME TypeOK, [Next]_vars PROVE TypeOK'
  OBVIOUS
<1>1. ASSUME NEW i \in OrderId, NEW side \in Side, NEW s \in Symbol,
             NEW q \in Quantity, NEW p \in Price, Validate(i, side, s, q, p)
      PROVE  TypeOK'
  <2>1. [stage |-> "accepted", side |-> side, symbol |-> s, quantity |-> q,
         price |-> 0, fee |-> 0] \in Order
    BY DEF Order, Stage
  <2>2. order' \in [OrderId -> Order]
    BY <1>1, <2>1 DEF Validate, TypeOK
  <2> QED
    BY <1>1, <2>2 DEF Validate, TypeOK, LedgerTypeOK, ledger
<1>2. ASSUME NEW i \in OrderId, NEW p \in Price, NEW f \in Fee, ApplyFill(i, p, f)
      PROVE  TypeOK'
  <2>1. /\ order[i] \in Order /\ order[i].quantity \in Nat /\ order[i].symbol \in Symbol
        /\ p \in Nat /\ f \in Nat
    BY DEF TypeOK, Order
  <2>2. ASSUME NEW stage \in Stage, Record(i, stage, p, f)
        PROVE  order' \in [OrderId -> Order]
    BY <2>1, <2>2 DEF Record, TypeOK, Order
  <2>3. cash' \in Int
    <3> DEFINE amount == p * order[i].quantity
    <3>1. amount \in Nat /\ f \in Nat /\ cash \in Int
      BY <2>1 DEF TypeOK, LedgerTypeOK
    <3>2. \/ cash' = cash - amount - f \/ cash' = cash + amount - f
          \/ cash' = cash + amount \/ cash' = cash
      BY <1>2, FillEffect
    <3> HIDE DEF amount
    <3> QED
      BY <3>1, <3>2
  <2>4. CASE BookBuy(i, p, f)
    <3> DEFINE s == order[i].symbol
               q == order[i].quantity
    <3>0. /\ Record(i, "booked", p, f)
          /\ today' = [today EXCEPT ![s] = @ + q]
          /\ position' = [position EXCEPT ![s] = @ + q]
          /\ pending' = [pending EXCEPT ![s][SlotsPerDay] = @ + q]
          /\ settled' = settled
      BY <2>4 DEF BookBuy, Bought
    <3>1. order' \in [OrderId -> Order] /\ settled' \in [Symbol -> Nat]
      BY <2>2, <3>0 DEF Stage, TypeOK, LedgerTypeOK
    <3> s \in Symbol /\ q \in Nat
      BY <2>1
    <3> HIDE DEF s, q
    <3>2. today' \in [Symbol -> Nat] /\ position' \in [Symbol -> Nat]
      BY <3>0, SMTT(30) DEF TypeOK, LedgerTypeOK
    <3>3. pending' \in [Symbol -> [1..SlotsPerDay -> Nat]]
      <4>1. pending[s] \in [1..SlotsPerDay -> Nat]
        BY DEF TypeOK, LedgerTypeOK
      <4>2. [pending[s] EXCEPT ![SlotsPerDay] = @ + q] \in [1..SlotsPerDay -> Nat]
        BY <4>1
      <4>3. pending' = [pending EXCEPT ![s] = [pending[s] EXCEPT ![SlotsPerDay] = @ + q]]
        BY <3>0
      <4> QED
        BY <4>2, <4>3 DEF TypeOK, LedgerTypeOK
    <3> QED
      BY <1>2, <2>3, <3>1, <3>2, <3>3 DEF ApplyFill, TypeOK, LedgerTypeOK
  <2>5. CASE BookSell(i, p, f)
    <3> DEFINE s == order[i].symbol
               q == order[i].quantity
    <3>0. /\ Record(i, "booked", p, f)
          /\ position[s] >= q
          /\ position' = [position EXCEPT ![s] = @ - q]
      BY <2>5 DEF BookSell, Sold, SharesAreHeld
    <3>1. order' \in [OrderId -> Order]
      BY <2>2, <3>0 DEF Stage
    <3> s \in Symbol /\ q \in Nat
      BY <2>1
    <3> HIDE DEF s, q
    <3>2. position' \in [Symbol -> Nat]
      BY <3>0 DEF TypeOK, LedgerTypeOK
    <3> QED
      BY <1>2, <2>3, <2>5, <3>1, <3>2
         DEF ApplyFill, BookSell, Sold, TypeOK, LedgerTypeOK
  <2>6. CASE FillRaises(i, p, f)
    <3>0. Record(i, "raised", p, f)
      BY <2>6 DEF FillRaises
    <3>1. order' \in [OrderId -> Order]
      BY <2>2, <3>0 DEF Stage
    <3>2. UNCHANGED <<position, settled, pending, today>>
      BY <2>6 DEF FillRaises, BuyRaises, SellRaises, ledger
    <3> QED
      BY <1>2, <2>3, <3>1, <3>2 DEF ApplyFill, TypeOK, LedgerTypeOK
  <2> QED
    BY <1>2, <2>4, <2>5, <2>6 DEF ApplyFill
<1>3. CASE Tick
  <2>1. slot' \in 0..(SlotsPerDay - 1)
    BY <1>3 DEF Tick, TypeOK
  <2>2. today' \in [Symbol -> Nat]
    BY <1>3 DEF Tick, TypeOK
  <2> QED
    BY <1>3, <2>1, <2>2, SettlementTypes DEF Tick, TypeOK, LedgerTypeOK
<1>4. CASE UNCHANGED vars
  BY <1>4 DEF vars, ledger, TypeOK, LedgerTypeOK
<1> QED
  BY <1>1, <1>2, <1>3, <1>4 DEF Next

\* No sequence of accepted orders and fills makes a position negative or
\* leaves the types: the ledger never goes short.
THEOREM TypeCorrect == Spec => []TypeOK
BY InitTypeOK, NextTypeOK, PTL DEF Spec

-----------------------------------------------------------------------------
(* Cash *)

\* The overdraft bound is inductive: a purchase needs cash for its amount and
\* then takes its fee, every other fill leaves at least what there was, or 0.
LEMMA FillKeepsOverdraft ==
  ASSUME TypeOK, OverdraftIsOneFee, NEW i \in OrderId, NEW p \in Price,
         NEW f \in Fee, ApplyFill(i, p, f)
  PROVE  OverdraftIsOneFee'
<1> DEFINE amount == p * order[i].quantity
<1>1. /\ amount \in Nat /\ f \in 0..MaxFee /\ cash \in Int /\ MaxFee \in Nat
      /\ order[i].stage = "accepted"
  BY FillEffect DEF TypeOK, LedgerTypeOK
<1>2. \A j \in InStage("booked") : order'[j] = order[j] /\ j \in InStage("booked")'
  BY <1>1 DEF ApplyFill, BookBuy, BookSell, FillRaises, Record, InStage, TypeOK
<1>3. CASE BookBuy(i, p, f)
  <2>1. cash >= amount /\ cash' = cash - amount - f
    BY <1>3 DEF BookBuy, Bought, BuyIsCovered
  <2>2. /\ order'[i].side = "BUY" /\ order'[i].fee = f
        /\ i \in InStage("booked")'
    BY <1>3 DEF BookBuy, Record, InStage, TypeOK, Order
  <2> HIDE DEF amount
  <2>3. cash' >= -f
    BY <1>1, <2>1
  <2> QED
    BY <2>2, <2>3 DEF OverdraftIsOneFee
<1>4. CASE BookSell(i, p, f) \/ FillRaises(i, p, f)
  <2>1. \/ cash + amount >= f /\ cash' = cash + amount - f
        \/ cash' = cash + amount
        \/ cash' = cash
        \/ cash + amount >= f /\ cash' = cash + amount - f
    BY <1>4 DEF BookSell, Sold, SellFeeIsCovered, FillRaises, BuyRaises, SellRaises, ledger
  <2> HIDE DEF amount
  <2>2. cash' \in Int /\ (cash' >= 0 \/ cash' >= cash)
    BY <1>1, <2>1
  <2>3. CASE cash' >= 0
    BY <2>2, <2>3 DEF OverdraftIsOneFee
  <2>4. CASE cash' < 0 /\ cash' >= cash
    <3>1. PICK j \in InStage("booked") : order[j].side = "BUY" /\ cash >= -order[j].fee
      BY <1>1, <2>2, <2>4 DEF OverdraftIsOneFee
    <3>2. order[j].fee \in Nat
      BY <3>1, <1>1 DEF TypeOK, Order, InStage
    <3>3. cash' >= -order[j].fee
      BY <3>1, <3>2, <2>2, <2>4, <1>1
    <3> QED
      BY <3>1, <3>3, <1>2 DEF OverdraftIsOneFee
  <2> QED
    BY <2>2, <2>3, <2>4
<1> QED
  BY <1>3, <1>4 DEF ApplyFill

\* The bound in terms of the largest fee.
LEMMA OverdraftAtMostMaxFee ==
  ASSUME TypeOK, OverdraftIsOneFee
  PROVE  cash \in Int /\ cash >= -MaxFee
<1>1. cash \in Int /\ MaxFee \in Nat
  BY DEF TypeOK, LedgerTypeOK
<1>2. ASSUME NEW i \in InStage("booked"), cash >= -order[i].fee
      PROVE  cash >= -MaxFee
  <2>1. order[i].fee \in 0..MaxFee
    BY DEF TypeOK, Order, InStage
  <2> QED
    BY <1>1, <1>2, <2>1
<1> QED
  BY <1>1, <1>2 DEF OverdraftIsOneFee

\* Whatever the interleaving of validations and fills, and although the fee of
\* a purchase is not checked, the cash is overdrawn by no more than the fee of
\* one booked purchase.
THEOREM OverdraftIsBounded == Spec => []OverdraftIsOneFee
<1>1. Init => OverdraftIsOneFee
  BY DEF Init, LedgerInit, OverdraftIsOneFee
<1>2. TypeOK /\ OverdraftIsOneFee /\ [Next]_vars => OverdraftIsOneFee'
  <2> SUFFICES ASSUME TypeOK, OverdraftIsOneFee, [Next]_vars
               PROVE  OverdraftIsOneFee'
    OBVIOUS
  <2>1. CASE \E i \in OrderId, p \in Price, f \in Fee : ApplyFill(i, p, f)
    BY <2>1, FillKeepsOverdraft
  <2>2. ASSUME cash' = cash,
               \A i \in InStage("booked") : order'[i] = order[i]
        PROVE  OverdraftIsOneFee'
    BY <2>2 DEF OverdraftIsOneFee, InStage
  <2>3. ASSUME NEW i \in OrderId, NEW side \in Side, NEW s \in Symbol,
               NEW q \in Quantity, NEW p \in Price, Validate(i, side, s, q, p)
        PROVE  OverdraftIsOneFee'
    BY <2>3, <2>2 DEF Validate, InStage, TypeOK, ledger
  <2>4. CASE Tick \/ UNCHANGED vars
    BY <2>4, <2>2 DEF Tick, vars, ledger
  <2> QED
    BY <2>1, <2>2, <2>3, <2>4 DEF Next
<1> QED
  BY <1>1, <1>2, TypeCorrect, PTL DEF Spec

-----------------------------------------------------------------------------
(* Sales of a serial caller *)

\* A serial caller has at most one accepted order on its way.
OneOnItsWay ==
  caller = "serial" =>
    \A i, j \in InStage("accepted") : i = j

SerialInv == OneOnItsWay /\ AcceptedSalesAreCovered

\* Validation accepts a sale only of shares that are held.
LEMMA ValidateKeepsSerialInv ==
  ASSUME TypeOK, SerialInv, NEW i \in OrderId, NEW side \in Side,
         NEW s \in Symbol, NEW q \in Quantity, NEW p \in Price,
         Validate(i, side, s, q, p)
  PROVE  SerialInv'
<1>1. /\ caller' = caller /\ position' = position
      /\ order' = [order EXCEPT ![i] = [stage |-> "accepted", side |-> side,
                     symbol |-> s, quantity |-> q, price |-> 0, fee |-> 0]]
      /\ side = "SELL" => q <= position[s]
      /\ caller = "serial" => InStage("accepted") = {}
  BY DEF Validate, Accepts, ledger
<1>2. caller = "serial" => InStage("accepted")' = {i}
  BY <1>1 DEF InStage, TypeOK
<1>3. /\ order'[i].side = side /\ order'[i].symbol = s
      /\ order'[i].quantity = q
  BY <1>1 DEF TypeOK
<1>4. OneOnItsWay'
  BY <1>1, <1>2 DEF OneOnItsWay
<1>5. AcceptedSalesAreCovered'
  <2> SUFFICES ASSUME caller' = "serial", side = "SELL"
               PROVE  position'[s] >= q
    BY <1>1, <1>2, <1>3 DEF AcceptedSalesAreCovered, SharesAreHeld
  <2> QED
    BY <1>1 DEF TypeOK, LedgerTypeOK
<1> QED
  BY <1>4, <1>5 DEF SerialInv

\* A fill settles the one order on its way.
LEMMA FillKeepsSerialInv ==
  ASSUME TypeOK, SerialInv, NEW i \in OrderId, NEW p \in Price, NEW f \in Fee,
         ApplyFill(i, p, f)
  PROVE  SerialInv'
<1>1. i \in InStage("accepted") /\ caller' = caller
  BY DEF ApplyFill, IsNewFill, InStage
<1>2. Record(i, "booked", p, f) \/ Record(i, "raised", p, f)
  BY DEF ApplyFill, BookBuy, BookSell, FillRaises
<1>3. InStage("accepted")' = InStage("accepted") \ {i}
  BY <1>2 DEF Record, InStage, TypeOK, Order
<1>4. caller = "serial" => InStage("accepted")' = {}
  BY <1>1, <1>3 DEF SerialInv, OneOnItsWay
<1> QED
  BY <1>1, <1>4 DEF SerialInv, OneOnItsWay, AcceptedSalesAreCovered

\* For a caller that fills each accepted order before it validates the next,
\* a sale that was accepted is still covered when its fill arrives.
THEOREM SerialSalesAreCovered == Spec => []AcceptedSalesAreCovered
<1>1. Init => SerialInv
  BY DEF Init, InStage, Unsent, SerialInv, OneOnItsWay, AcceptedSalesAreCovered
<1>2. TypeOK /\ SerialInv /\ [Next]_vars => SerialInv'
  <2> SUFFICES ASSUME TypeOK, SerialInv, [Next]_vars
               PROVE  SerialInv'
    OBVIOUS
  <2>1. CASE \E i \in OrderId, p \in Price, f \in Fee : ApplyFill(i, p, f)
    BY <2>1, FillKeepsSerialInv
  <2>2. CASE \E i \in OrderId, side \in Side, s \in Symbol, q \in Quantity,
               p \in Price : Validate(i, side, s, q, p)
    BY <2>2, ValidateKeepsSerialInv
  <2>3. CASE UNCHANGED <<position, order, caller>>
    BY <2>3 DEF SerialInv, OneOnItsWay, AcceptedSalesAreCovered, InStage, SharesAreHeld
  <2>4. CASE Tick \/ UNCHANGED vars
    BY <2>4, <2>3 DEF Tick, vars, ledger
  <2> QED
    BY <2>1, <2>2, <2>4 DEF Next
<1>3. SerialInv => AcceptedSalesAreCovered
  BY DEF SerialInv
<1> QED
  BY <1>1, <1>2, <1>3, TypeCorrect, PTL DEF Spec

-----------------------------------------------------------------------------
(* The books *)

\* What the fill of each order brings in, and of each symbol.
CashBy == [i \in OrderId |-> CashOf(i)]

SharesBy(s) == [i \in OrderId |->
  IF order[i].symbol # s THEN 0
  ELSE IF order[i].side = "BUY" THEN order[i].quantity
  ELSE - order[i].quantity]

Booked == InStage("booked")

\* Orders that were accepted are of a whole lot at least, finitely many are
\* booked, and cash and positions are the sums over these.
BooksInv ==
  /\ \A i \in OrderId : order[i].stage # "none" => order[i].quantity >= LotSize
  /\ IsFiniteSet(Booked)
  /\ caller = "serial" /\ FeesAreSmall => cash = InitialCash + Total(CashBy, Booked)
  /\ \A s \in Symbol : position[s] = Total(SharesBy(s), Booked)

\* The fields of an order, and what its fill brings in, are integers.
LEMMA OrderNumbers ==
  ASSUME TypeOK, NEW i \in OrderId
  PROVE  /\ order[i].quantity \in Nat /\ order[i].symbol \in Symbol
         /\ order[i].side \in {"BUY", "SELL"}
         /\ CashBy[i] \in Int /\ \A s \in Symbol : SharesBy(s)[i] \in Int
<1>1. /\ order[i].quantity \in Nat /\ order[i].symbol \in Symbol
      /\ order[i].side \in {"BUY", "SELL"} /\ order[i].price \in Nat /\ order[i].fee \in Nat
  BY DEF TypeOK, Order, Side
<1>2. Amount(i) \in Nat
  BY <1>1 DEF Amount
<1>3. CashOf(i) \in Int
  BY <1>1, <1>2 DEF CashOf
<1> QED
  BY <1>1, <1>3 DEF CashBy, SharesBy

\* Orders whose record does not change bring in what they did.
LEMMA SameBooks ==
  ASSUME TypeOK, BooksInv, Booked' = Booked, \A i \in Booked : order'[i] = order[i]
  PROVE  /\ IsFiniteSet(Booked')
         /\ Total(CashBy, Booked)' = Total(CashBy, Booked)
         /\ \A s \in Symbol : Total(SharesBy(s), Booked)' = Total(SharesBy(s), Booked)
<1>1. Booked \subseteq OrderId /\ IsFiniteSet(Booked)
  BY DEF Booked, InStage, BooksInv
<1>2. \A i \in Booked : CashBy[i] \in Int /\ CashBy'[i] = CashBy[i]
  BY <1>1, OrderNumbers DEF CashBy, CashOf, Amount
<1>3. \A s \in Symbol : \A i \in Booked : SharesBy(s)[i] \in Int /\ SharesBy(s)'[i] = SharesBy(s)[i]
  BY <1>1, OrderNumbers DEF SharesBy
<1>4. Total(CashBy', Booked) = Total(CashBy, Booked)
  BY <1>1, <1>2, SameTotal
<1>5. ASSUME NEW s \in Symbol PROVE Total(SharesBy(s)', Booked) = Total(SharesBy(s), Booked)
  BY <1>1, <1>3, SameTotal
<1> QED
  BY <1>1, <1>4, <1>5

\* A fill that is booked adds what its order brings in to the books.
LEMMA BookedFill ==
  ASSUME TypeOK, TypeOK', BooksInv, NEW i \in OrderId, NEW p \in Price, NEW f \in Fee,
         order[i].stage = "accepted", Record(i, "booked", p, f)
  PROVE  /\ IsFiniteSet(Booked')
         /\ Total(CashBy, Booked)' = Total(CashBy, Booked) + CashBy'[i]
         /\ \A s \in Symbol :
              Total(SharesBy(s), Booked)' = Total(SharesBy(s), Booked) + SharesBy(s)'[i]
<1>1. /\ Booked' = Booked \cup {i} /\ i \notin Booked
      /\ \A j \in Booked : order'[j] = order[j]
  BY DEF Booked, InStage, Record, TypeOK, Order
<1>2. Booked \subseteq OrderId /\ IsFiniteSet(Booked) /\ IsFiniteSet(Booked \cup {i})
  BY FS_AddElement DEF Booked, InStage, BooksInv
<1>3. \A j \in Booked : CashBy[j] \in Int /\ CashBy'[j] = CashBy[j]
  BY <1>1, <1>2, OrderNumbers DEF CashBy, CashOf, Amount
<1>4. \A s \in Symbol : \A j \in Booked : SharesBy(s)[j] \in Int /\ SharesBy(s)'[j] = SharesBy(s)[j]
  BY <1>1, <1>2, OrderNumbers DEF SharesBy
<1>5. CashBy'[i] \in Int /\ \A s \in Symbol : SharesBy(s)'[i] \in Int
  <2>1. /\ order'[i].quantity \in Nat
        /\ order'[i].side \in {"BUY", "SELL"} /\ order'[i].price \in Nat /\ order'[i].fee \in Nat
    BY DEF TypeOK, Order, Side
  <2>2. Amount(i)' \in Nat
    BY <2>1 DEF Amount
  <2>3. CashOf(i)' \in Int
    BY <2>1, <2>2 DEF CashOf
  <2> QED
    BY <2>1, <2>3 DEF CashBy, SharesBy
<1>6. Total(CashBy', Booked \cup {i}) = Total(CashBy, Booked) + CashBy'[i]
  BY <1>1, <1>2, <1>3, <1>5, TotalGrows
<1>7. ASSUME NEW s \in Symbol
      PROVE  Total(SharesBy(s)', Booked \cup {i}) = Total(SharesBy(s), Booked) + SharesBy(s)'[i]
  <2> DEFINE old == SharesBy(s)
             new == SharesBy(s)'
  <2>1. new[i] \in Int /\ \A j \in Booked : old[j] \in Int /\ new[j] = old[j]
    BY <1>4, <1>5
  <2> HIDE DEF old, new
  <2>2. Total(new, Booked \cup {i}) = Total(old, Booked) + new[i]
    BY <1>1, <1>2, <2>1, TotalGrows
  <2> QED
    BY <2>2 DEF old, new
<1> QED
  BY <1>1, <1>2, <1>6, <1>7

\* A purchase costs its amount and fee, and brings its shares.
LEMMA PurchaseKeepsBooks ==
  ASSUME TypeOK, TypeOK', BooksInv, NEW i \in OrderId, NEW p \in Price, NEW f \in Fee,
         order[i].stage = "accepted", BookBuy(i, p, f), UNCHANGED caller
  PROVE  BooksInv'
<1> DEFINE amount == p * order[i].quantity
<1>1. /\ order[i].side = "BUY" /\ Record(i, "booked", p, f)
      /\ cash' = cash - amount - f
      /\ position' = [position EXCEPT ![order[i].symbol] = @ + order[i].quantity]
  BY DEF BookBuy, Bought
<1>2. /\ order'[i].side = "BUY" /\ order'[i].price = p /\ order'[i].fee = f
      /\ order'[i].quantity = order[i].quantity /\ order'[i].symbol = order[i].symbol
      /\ \A j \in OrderId \ {i} : order'[j] = order[j]
  BY <1>1 DEF Record, TypeOK, Order
<1>3. CashBy'[i] = - amount - f
  BY <1>2 DEF CashBy, CashOf, Amount
<1>4. \A s \in Symbol : SharesBy(s)'[i] = IF order[i].symbol = s THEN order[i].quantity ELSE 0
  BY <1>2 DEF SharesBy
<1>5. order[i].quantity \in Nat /\ order[i].symbol \in Symbol /\ amount \in Nat /\ f \in Nat
  BY OrderNumbers
<1>6. \A j \in OrderId : order'[j].stage # "none" => order'[j].quantity >= LotSize
  BY <1>2 DEF BooksInv
<1> HIDE DEF amount
<1>7. caller' = "serial" /\ FeesAreSmall => cash' = InitialCash + Total(CashBy, Booked)'
  <2>1. Total(CashBy, Booked) \in Int
    <3>1. Booked \in SUBSET Booked /\ IsFiniteSet(Booked) /\ \A j \in Booked : CashBy[j] \in Int
      BY OrderNumbers DEF BooksInv, Booked, InStage
    <3> QED
      BY <3>1, TotalProperties
  <2>2. Total(CashBy, Booked)' = Total(CashBy, Booked) + (- amount - f)
    BY <1>1, <1>3, BookedFill
  <2>3. cash \in Int /\ InitialCash \in Int
    BY LedgerAssumption DEF TypeOK, LedgerTypeOK
  <2>4. cash' = cash - amount - f
    BY <1>1
  <2>5. caller' = "serial" /\ FeesAreSmall => cash = InitialCash + Total(CashBy, Booked)
    BY DEF BooksInv
  <2> QED
    BY <1>5, <2>1, <2>2, <2>3, <2>4, <2>5
<1>8. ASSUME NEW s \in Symbol PROVE position'[s] = Total(SharesBy(s), Booked)'
  <2>1. position[s] = Total(SharesBy(s), Booked) /\ position[s] \in Nat
    BY DEF BooksInv, TypeOK, LedgerTypeOK
  <2>2. Total(SharesBy(s), Booked)' = Total(SharesBy(s), Booked) + SharesBy(s)'[i]
    BY <1>1, BookedFill
  <2>3. position'[s] = IF order[i].symbol = s THEN position[s] + order[i].quantity ELSE position[s]
    BY <1>1 DEF TypeOK, LedgerTypeOK
  <2> QED
    BY <1>4, <1>5, <2>1, <2>2, <2>3
<1> QED
  BY <1>1, <1>6, <1>7, <1>8, BookedFill DEF BooksInv

\* A sale brings its amount less the fee, and costs its shares.
LEMMA SaleKeepsBooks ==
  ASSUME TypeOK, TypeOK', BooksInv, NEW i \in OrderId, NEW p \in Price, NEW f \in Fee,
         order[i].stage = "accepted", BookSell(i, p, f), UNCHANGED caller
  PROVE  BooksInv'
<1> DEFINE amount == p * order[i].quantity
<1>1. /\ order[i].side = "SELL" /\ Record(i, "booked", p, f)
      /\ cash' = cash + amount - f
      /\ position' = [position EXCEPT ![order[i].symbol] = @ - order[i].quantity]
  BY DEF BookSell, Sold
<1>2. /\ order'[i].side = "SELL" /\ order'[i].price = p /\ order'[i].fee = f
      /\ order'[i].quantity = order[i].quantity /\ order'[i].symbol = order[i].symbol
      /\ \A j \in OrderId \ {i} : order'[j] = order[j]
  BY <1>1 DEF Record, TypeOK, Order
<1>3. CashBy'[i] = amount - f
  BY <1>2 DEF CashBy, CashOf, Amount
<1>4. \A s \in Symbol : SharesBy(s)'[i] = IF order[i].symbol = s THEN - order[i].quantity ELSE 0
  BY <1>2 DEF SharesBy
<1>5. order[i].quantity \in Nat /\ order[i].symbol \in Symbol /\ amount \in Nat /\ f \in Nat
  BY OrderNumbers
<1>6. \A j \in OrderId : order'[j].stage # "none" => order'[j].quantity >= LotSize
  BY <1>2 DEF BooksInv
<1> HIDE DEF amount
<1>7. caller' = "serial" /\ FeesAreSmall => cash' = InitialCash + Total(CashBy, Booked)'
  <2>1. Total(CashBy, Booked) \in Int
    <3>1. Booked \in SUBSET Booked /\ IsFiniteSet(Booked) /\ \A j \in Booked : CashBy[j] \in Int
      BY OrderNumbers DEF BooksInv, Booked, InStage
    <3> QED
      BY <3>1, TotalProperties
  <2> QED
    BY <1>1, <1>3, <1>5, <2>1, BookedFill DEF BooksInv
<1>8. ASSUME NEW s \in Symbol PROVE position'[s] = Total(SharesBy(s), Booked)'
  <2>1. position[s] = Total(SharesBy(s), Booked) /\ position[s] \in Nat
    BY DEF BooksInv, TypeOK, LedgerTypeOK
  <2>2. Total(SharesBy(s), Booked)' = Total(SharesBy(s), Booked) + SharesBy(s)'[i]
    BY <1>1, BookedFill
  <2>3. position'[s] = IF order[i].symbol = s THEN position[s] - order[i].quantity ELSE position[s]
    BY <1>1 DEF TypeOK, LedgerTypeOK
  <2> QED
    BY <1>4, <1>5, <2>1, <2>2, <2>3
<1> QED
  BY <1>1, <1>6, <1>7, <1>8, BookedFill DEF BooksInv

\* With small fees, the fill of a serial caller that raises leaves the cash: its
\* sale is covered, and the proceeds of a lot pay for the fee.
LEMMA RaisingFillKeepsBooks ==
  ASSUME TypeOK, TypeOK', BooksInv, OverdraftIsOneFee, AcceptedSalesAreCovered,
         NEW i \in OrderId, NEW p \in Price, NEW f \in Fee,
         order[i].stage = "accepted", FillRaises(i, p, f), UNCHANGED caller
  PROVE  BooksInv'
<1> DEFINE amount == p * order[i].quantity
<1>1. Record(i, "raised", p, f) /\ position' = position
  BY DEF FillRaises, BuyRaises, SellRaises, ledger
<1>2. /\ Booked' = Booked /\ \A j \in Booked : order'[j] = order[j]
      /\ \A j \in OrderId : order'[j].quantity = order[j].quantity
      /\ \A j \in OrderId : order'[j].stage # "none" => order[j].stage # "none"
  BY <1>1 DEF Booked, InStage, Record, TypeOK, Order
<1>3. ASSUME caller = "serial", FeesAreSmall PROVE cash' = cash
  <2>1. CASE order[i].side = "BUY"
    BY <2>1 DEF FillRaises, BuyRaises, ledger
  <2>2. CASE order[i].side = "SELL"
    <3>1. SharesAreHeld(order[i].symbol, order[i].quantity)
      BY <1>3, <2>2 DEF AcceptedSalesAreCovered, InStage
    <3>2. /\ p \in Nat /\ f \in 0..MaxFee /\ cash \in Int /\ cash >= -MaxFee /\ MaxFee \in Nat
          /\ order[i].quantity \in Nat /\ order[i].quantity >= LotSize /\ LotSize \in Nat
      BY OrderNumbers, OverdraftAtMostMaxFee DEF BooksInv
    <3>3. p * LotSize <= amount /\ amount \in Nat /\ p * LotSize \in Nat
      <4>1. \A a, b, c \in Nat : b <= c => a * b <= a * c
        OBVIOUS
      <4> QED
        BY <3>2, <4>1
    <3>4. p * LotSize >= 2 * MaxFee
      BY <1>3 DEF FeesAreSmall
    <3> HIDE DEF amount
    <3>5. cash + amount >= f
      BY <3>2, <3>3, <3>4
    <3>6. SellFeeIsCovered(amount, f)
      BY <3>5 DEF SellFeeIsCovered
    <3> QED
      BY <2>2, <3>1, <3>6 DEF FillRaises, SellRaises, amount
  <2> QED
    BY <2>1, <2>2, OrderNumbers
<1> QED
  BY <1>1, <1>2, <1>3, SameBooks DEF BooksInv

\* Steps that book nothing leave the books.
LEMMA OtherStepsKeepBooks ==
  ASSUME TypeOK, BooksInv, UNCHANGED <<cash, position, caller>>,
         Booked' = Booked, \A i \in Booked : order'[i] = order[i],
         \A i \in OrderId : order'[i].stage # "none" => order'[i].quantity >= LotSize
  PROVE  BooksInv'
BY SameBooks DEF BooksInv

\* A validation accepts whole lots only, and books nothing.
LEMMA ValidateKeepsBooks ==
  ASSUME TypeOK, BooksInv, NEW i \in OrderId, NEW side \in Side, NEW s \in Symbol,
         NEW q \in Quantity, NEW p \in Price, Validate(i, side, s, q, p)
  PROVE  BooksInv'
<1>1. /\ order[i].stage = "none" /\ UNCHANGED <<cash, position, caller>>
      /\ order' = [order EXCEPT ![i] = [stage |-> "accepted", side |-> side, symbol |-> s,
                     quantity |-> q, price |-> 0, fee |-> 0]]
      /\ WholeLots(q)
  BY DEF Validate, Accepts, ledger
<1>2. q >= LotSize
  BY <1>1 DEF WholeLots
<1>3. Booked' = Booked /\ \A j \in Booked : order'[j] = order[j]
  BY <1>1 DEF Booked, InStage, TypeOK
<1>4. \A j \in OrderId : order'[j].stage # "none" => order'[j].quantity >= LotSize
  BY <1>1, <1>2 DEF TypeOK, BooksInv
<1> QED
  BY <1>1, <1>3, <1>4, OtherStepsKeepBooks

\* No step loses or invents cash or shares.
LEMMA StepKeepsBooks ==
  ASSUME TypeOK, TypeOK', BooksInv, OverdraftIsOneFee, AcceptedSalesAreCovered, [Next]_vars
  PROVE  BooksInv'
<1>1. ASSUME NEW i \in OrderId, NEW p \in Price, NEW f \in Fee, ApplyFill(i, p, f)
      PROVE  BooksInv'
  <2>1. order[i].stage = "accepted" /\ UNCHANGED caller
    BY <1>1 DEF ApplyFill, IsNewFill
  <2> QED
    BY <1>1, <2>1, PurchaseKeepsBooks, SaleKeepsBooks, RaisingFillKeepsBooks DEF ApplyFill
<1>2. CASE Tick \/ UNCHANGED vars
  <2>1. UNCHANGED <<cash, position, caller, order>>
    BY <1>2 DEF Tick, vars, ledger
  <2> QED
    BY <2>1, OtherStepsKeepBooks DEF Booked, InStage, BooksInv
<1> QED
  BY <1>1, <1>2, ValidateKeepsBooks DEF Next

\* In the beginning nothing is booked.
LEMMA InitBooks == ASSUME Init PROVE BooksInv
<1>1. Booked = {} /\ \A i \in OrderId : order[i].stage = "none"
  BY DEF Init, Unsent, Booked, InStage
<1>2. IsFiniteSet({})
  BY FS_EmptySet
<1>3. \A f : Total(f, {}) = 0
  BY <1>2, TotalProperties
<1> QED
  BY <1>1, <1>2, <1>3 DEF Init, LedgerInit, BooksInv

\* The sum of the cash equation is the total of CashBy.
LEMMA CashSum ==
  ASSUME TypeOK, NEW fills \in SUBSET OrderId, IsFiniteSet(fills)
  PROVE  MapThenSumSet(CashOf, fills) = Total(CashBy, fills)
<1> DEFINE Sums(h) == h = [s \in SUBSET fills |->
             IF s = {} THEN 0 ELSE CashOf(Taken(s)) + h[s \ {Taken(s)}]]
           sums == CHOOSE h : Sums(h)
<1>1. MapThenSumSet(CashOf, fills) = sums[fills]
  BY Zenon DEF MapThenSumSet, MapThenFoldSet, Taken
<1>2. \A i \in fills : CashBy[i] \in Int /\ CashBy[i] = CashOf(i)
  BY OrderNumbers DEF CashBy
<1>3. ASSUME NEW h PROVE SumsUp(h, CashBy, fills) <=> Sums(h)
  <2>1. \A s \in SUBSET fills : s # {} => CashBy[Taken(s)] = CashOf(Taken(s))
    BY <1>2 DEF Taken
  <2> QED
    BY <2>1 DEF SumsUp
<1>4. \E h : SumsUp(h, CashBy, fills)
  BY <1>2, SumsExist
<1> HIDE DEF Sums
<1>5. SumsUp(sums, CashBy, fills)
  BY <1>3, <1>4
<1> QED
  BY <1>1, <1>5, TotalIsSum

\* The shares of the booked fills are the total of SharesBy.
LEMMA SharesSum ==
  ASSUME TypeOK, NEW fills \in SUBSET OrderId, IsFiniteSet(fills), NEW s \in Symbol
  PROVE  SharesOf(s, fills) = Total(SharesBy(s), fills)
<1> DEFINE Shares(i) == IF order[i].symbol # s THEN 0
                        ELSE IF order[i].side = "BUY" THEN order[i].quantity
                        ELSE - order[i].quantity
           Sums(h) == h = [t \in SUBSET fills |->
             IF t = {} THEN 0 ELSE Shares(Taken(t)) + h[t \ {Taken(t)}]]
           sums == CHOOSE h : Sums(h)
<1>1. SharesOf(s, fills) = sums[fills]
  BY Zenon DEF SharesOf, MapThenSumSet, MapThenFoldSet, Taken
<1>2. \A i \in fills : SharesBy(s)[i] \in Int /\ SharesBy(s)[i] = Shares(i)
  BY OrderNumbers DEF SharesBy
<1> HIDE DEF Shares
<1>3. ASSUME NEW h PROVE SumsUp(h, SharesBy(s), fills) <=> Sums(h)
  <2>1. \A t \in SUBSET fills : t # {} => SharesBy(s)[Taken(t)] = Shares(Taken(t))
    BY <1>2 DEF Taken
  <2> QED
    BY <2>1 DEF SumsUp
<1>4. \E h : SumsUp(h, SharesBy(s), fills)
  BY <1>2, SumsExist
<1> HIDE DEF Sums
<1>5. SumsUp(sums, SharesBy(s), fills)
  BY <1>3, <1>4
<1> QED
  BY <1>1, <1>5, TotalIsSum

\* Whatever a caller sends, the positions are what the booked fills make of
\* nothing; and those of a serial caller with small fees make the cash of the
\* initial cash, to the last fee: nothing is booked twice or half.
LEMMA BookedFillsAlwaysAddUp == Spec => []BookedFillsAddUp
<1>1. TypeOK /\ BooksInv => BookedFillsAddUp
  <2> SUFFICES ASSUME TypeOK, BooksInv PROVE BookedFillsAddUp
    OBVIOUS
  <2>1. Booked \in SUBSET OrderId /\ IsFiniteSet(Booked)
    BY DEF Booked, InStage, BooksInv
  <2> QED
    BY <2>1, CashSum, SharesSum DEF BookedFillsAddUp, CashEquation, BooksInv, Booked
<1> QED
  BY <1>1, InitBooks, StepKeepsBooks, TypeCorrect, OverdraftIsBounded, SerialSalesAreCovered,
     PTL DEF Spec

-----------------------------------------------------------------------------
(* What sales that raised have left *)

\* The proceeds of each order.
AmountBy == [i \in OrderId |-> Amount(i)]

\* The cash, if the orders of one set have brought their amount less the fee (or
\* cost it), and those of another their amount.
Accounts(full, kept) == cash = InitialCash + Total(CashBy, full) + Total(AmountBy, kept)

CashInv ==
  /\ IsFiniteSet(Booked) /\ IsFiniteSet(RaisedSales)
  /\ \E charged \in SUBSET RaisedSales : Accounts(Booked \cup charged, RaisedSales \ charged)

\* A step that touches one order changes the sums by what this one brings in.
LEMMA OneOrderAccounts ==
  ASSUME TypeOK, TypeOK', NEW i \in OrderId, \A j \in OrderId \ {i} : order'[j] = order[j],
         NEW full \in SUBSET OrderId, NEW kept \in SUBSET OrderId,
         IsFiniteSet(full), IsFiniteSet(kept), i \notin full, i \notin kept
  PROVE  /\ Total(CashBy, full) \in Int /\ Total(AmountBy, kept) \in Int
         /\ Total(CashBy', full) = Total(CashBy, full)
         /\ Total(AmountBy', kept) = Total(AmountBy, kept)
         /\ Total(CashBy', full \cup {i}) = Total(CashBy, full) + CashBy'[i]
         /\ Total(AmountBy', kept \cup {i}) = Total(AmountBy, kept) + AmountBy'[i]
<1>1. \A j \in OrderId : /\ order[j].quantity \in Nat /\ order[j].price \in Nat
                         /\ order'[j].quantity \in Nat /\ order'[j].price \in Nat
                         /\ order'[j].fee \in Nat
  BY DEF TypeOK, Order
<1>2. \A j \in OrderId : Amount(j) \in Int /\ Amount(j)' \in Int
  BY <1>1 DEF Amount
<1>3. \A j \in full : CashBy[j] \in Int /\ CashBy'[j] = CashBy[j]
  BY OrderNumbers DEF CashBy, CashOf, Amount
<1>4. \A j \in kept : AmountBy[j] \in Int /\ AmountBy'[j] = AmountBy[j]
  BY <1>2 DEF AmountBy, Amount
<1>5. CashBy'[i] \in Int /\ AmountBy'[i] \in Int
  <2>1. CashOf(i)' \in Int
    BY <1>1, <1>2 DEF CashOf
  <2> QED
    BY <1>2, <2>1 DEF CashBy, AmountBy
<1>6. Total(CashBy, full) \in Int /\ Total(AmountBy, kept) \in Int
  <2>1. full \in SUBSET full /\ kept \in SUBSET kept
    OBVIOUS
  <2>2. Total(CashBy, full) \in Int
    BY <1>3, <2>1, TotalProperties
  <2>3. Total(AmountBy, kept) \in Int
    BY <1>4, <2>1, TotalProperties
  <2> QED
    BY <2>2, <2>3
<1>7. Total(CashBy', full) = Total(CashBy, full)
  BY <1>3, SameTotal
<1>8. Total(AmountBy', kept) = Total(AmountBy, kept)
  BY <1>4, SameTotal
<1>9. Total(CashBy', full \cup {i}) = Total(CashBy, full) + CashBy'[i]
  <2>1. PICK old, new : old = CashBy /\ new = CashBy'
    OBVIOUS
  <2>2. new[i] \in Int /\ \A j \in full : old[j] \in Int /\ new[j] = old[j]
    BY <1>3, <1>5, <2>1
  <2>3. Total(new, full \cup {i}) = Total(old, full) + new[i]
    BY <2>2, TotalGrows
  <2> QED
    BY <2>1, <2>3
<1>10. Total(AmountBy', kept \cup {i}) = Total(AmountBy, kept) + AmountBy'[i]
  BY <1>4, <1>5, TotalGrows
<1> QED
  BY <1>6, <1>7, <1>8, <1>9, <1>10

\* What a fill has done when it is booked or raises.
LEMMA FillAccounts ==
  ASSUME TypeOK, NEW i \in OrderId, NEW p \in Price, NEW f \in Fee, ApplyFill(i, p, f)
  PROVE  /\ i \notin Booked /\ i \notin RaisedSales
         /\ \A j \in OrderId \ {i} : order'[j] = order[j]
         /\ \/ /\ cash' = cash + CashBy'[i]
               /\ Booked' = Booked \cup {i} /\ RaisedSales' = RaisedSales
            \/ /\ cash' = cash
               /\ Booked' = Booked /\ RaisedSales' = RaisedSales
            \/ /\ cash' = cash + CashBy'[i] \/ cash' = cash + AmountBy'[i]
               /\ Booked' = Booked /\ RaisedSales' = RaisedSales \cup {i}
<1> DEFINE amount == p * order[i].quantity
<1>1. order[i].stage = "accepted"
  BY DEF ApplyFill, IsNewFill
<1>2. PICK stage \in {"booked", "raised"} :
        /\ Record(i, stage, p, f)
        /\ \/ stage = "booked" /\ order[i].side = "BUY" /\ cash' = cash - amount - f
           \/ stage = "booked" /\ order[i].side = "SELL" /\ cash' = cash + amount - f
           \/ stage = "raised" /\ order[i].side = "BUY" /\ cash' = cash
           \/ /\ stage = "raised" /\ order[i].side = "SELL"
              /\ cash' = cash + amount \/ cash' = cash + amount - f
  BY DEF ApplyFill, BookBuy, BookSell, FillRaises, Bought, Sold, BuyRaises, SellRaises, ledger
<1>3. /\ order'[i].stage = stage /\ order'[i].price = p /\ order'[i].fee = f
      /\ order'[i].side = order[i].side /\ order'[i].quantity = order[i].quantity
      /\ \A j \in OrderId \ {i} : order'[j] = order[j]
  BY <1>2 DEF Record, TypeOK, Order
<1>4. /\ AmountBy'[i] = amount
      /\ CashBy'[i] = IF order[i].side = "BUY" THEN - amount - f ELSE amount - f
  BY <1>3 DEF AmountBy, CashBy, CashOf, Amount
<1>5. amount \in Nat /\ f \in Nat /\ cash \in Int
  <2>1. order[i].quantity \in Nat /\ cash \in Int
    BY DEF TypeOK, LedgerTypeOK, Order
  <2>2. p \in Nat /\ f \in Nat
    BY FlowAssumption
  <2> QED
    BY <2>1, <2>2
<1>6. i \notin Booked /\ i \notin RaisedSales
  BY <1>1 DEF Booked, RaisedSales, InStage
<1>7. \A j \in OrderId : /\ j \in Booked' <=> order'[j].stage = "booked"
                         /\ j \in Booked <=> order[j].stage = "booked"
                         /\ j \in RaisedSales' <=> order'[j].stage = "raised" /\ order'[j].side = "SELL"
                         /\ j \in RaisedSales <=> order[j].stage = "raised" /\ order[j].side = "SELL"
  BY DEF Booked, RaisedSales, InStage
<1>8. /\ Booked \subseteq OrderId /\ RaisedSales \subseteq OrderId
      /\ Booked' \subseteq OrderId /\ RaisedSales' \subseteq OrderId
  BY DEF Booked, RaisedSales, InStage
<1>9. /\ Booked' = IF stage = "booked" THEN Booked \cup {i} ELSE Booked
      /\ RaisedSales' = IF stage = "raised" /\ order[i].side = "SELL" THEN RaisedSales \cup {i}
                        ELSE RaisedSales
  <2>1. \A j \in OrderId : j \in Booked' <=> j \in Booked \/ (j = i /\ stage = "booked")
    BY <1>3, <1>6, <1>7
  <2>2. \A j \in OrderId :
          j \in RaisedSales' <=> (j \in RaisedSales
                                    \/ (j = i /\ stage = "raised" /\ order[i].side = "SELL"))
    BY <1>3, <1>6, <1>7
  <2>3. Booked' = IF stage = "booked" THEN Booked \cup {i} ELSE Booked
    BY <1>8, <2>1
  <2>4. RaisedSales' = IF stage = "raised" /\ order[i].side = "SELL" THEN RaisedSales \cup {i}
                       ELSE RaisedSales
    BY <1>8, <2>2
  <2> QED
    BY <2>3, <2>4
<1> HIDE DEF amount
<1>10. CASE stage = "booked"
  <2>1. cash' = cash + CashBy'[i]
    BY <1>2, <1>4, <1>5, <1>10
  <2> QED
    BY <1>3, <1>6, <1>9, <1>10, <2>1
<1>11. CASE stage = "raised" /\ order[i].side = "BUY"
  BY <1>2, <1>3, <1>6, <1>9, <1>11
<1>12. CASE stage = "raised" /\ order[i].side = "SELL"
  <2>1. cash' = cash + CashBy'[i] \/ cash' = cash + AmountBy'[i]
    BY <1>2, <1>4, <1>5, <1>12
  <2> QED
    BY <1>3, <1>6, <1>9, <1>12, <2>1
<1> QED
  BY <1>2, <1>10, <1>11, <1>12, OrderNumbers

\* A fill that is booked, or raises, is accounted for.
LEMMA FillKeepsAccounts ==
  ASSUME TypeOK, TypeOK', CashInv, NEW i \in OrderId, NEW p \in Price, NEW f \in Fee,
         ApplyFill(i, p, f)
  PROVE  CashInv'
<1>1. PICK charged \in SUBSET RaisedSales : Accounts(Booked \cup charged, RaisedSales \ charged)
  BY DEF CashInv
<1>2. PICK full, kept : full = Booked \cup charged /\ kept = RaisedSales \ charged
  OBVIOUS
<1>3. /\ full \in SUBSET OrderId /\ kept \in SUBSET OrderId /\ i \notin full /\ i \notin kept
      /\ \A j \in OrderId \ {i} : order'[j] = order[j]
  BY <1>2, FillAccounts DEF Booked, RaisedSales, InStage
<1>4. IsFiniteSet(full) /\ IsFiniteSet(kept)
  <2>1. IsFiniteSet(charged) /\ IsFiniteSet(kept)
    BY <1>2, FS_Subset DEF CashInv
  <2> QED
    BY <1>2, <2>1, FS_Union DEF CashInv
<1>5. /\ Total(CashBy, full) \in Int /\ Total(AmountBy, kept) \in Int
      /\ Total(CashBy', full) = Total(CashBy, full)
      /\ Total(AmountBy', kept) = Total(AmountBy, kept)
      /\ Total(CashBy', full \cup {i}) = Total(CashBy, full) + CashBy'[i]
      /\ Total(AmountBy', kept \cup {i}) = Total(AmountBy, kept) + AmountBy'[i]
  BY <1>3, <1>4, OneOrderAccounts
<1>6. /\ cash = InitialCash + Total(CashBy, full) + Total(AmountBy, kept)
      /\ cash \in Int /\ InitialCash \in Int
  BY <1>1, <1>2, LedgerAssumption DEF Accounts, TypeOK, LedgerTypeOK
<1>7. \A c, d : cash' = InitialCash + Total(CashBy', c) + Total(AmountBy', d) => Accounts(c, d)'
  BY DEF Accounts
<1>8. CashBy'[i] \in Int /\ AmountBy'[i] \in Int
  <2>1. /\ order'[i].quantity \in Nat /\ order'[i].price \in Nat /\ order'[i].fee \in Nat
    BY DEF TypeOK, Order
  <2>2. Amount(i)' \in Int
    BY <2>1 DEF Amount
  <2>3. CashOf(i)' \in Int
    BY <2>1, <2>2 DEF CashOf
  <2> QED
    BY <2>2, <2>3 DEF CashBy, AmountBy
<1>9. CASE cash' = cash + CashBy'[i] /\ Booked' = Booked \cup {i} /\ RaisedSales' = RaisedSales
  <2>1. Accounts(full \cup {i}, kept)'
    BY <1>5, <1>6, <1>7, <1>8, <1>9
  <2>2. Booked' \cup charged = full \cup {i} /\ RaisedSales' \ charged = kept
    BY <1>2, <1>9
  <2>3. IsFiniteSet(Booked')
    BY <1>9, FS_AddElement DEF CashInv
  <2> QED
    BY <1>9, <2>1, <2>2, <2>3 DEF CashInv
<1>10. CASE cash' = cash /\ Booked' = Booked /\ RaisedSales' = RaisedSales
  <2>1. Accounts(full, kept)'
    BY <1>5, <1>6, <1>7, <1>10
  <2> QED
    BY <1>2, <1>10, <2>1 DEF CashInv
<1>11. CASE /\ cash' = cash + CashBy'[i] \/ cash' = cash + AmountBy'[i]
            /\ Booked' = Booked /\ RaisedSales' = RaisedSales \cup {i}
  <2>1. IsFiniteSet(RaisedSales')
    BY <1>11, FS_AddElement DEF CashInv
  <2>2. CASE cash' = cash + CashBy'[i]
    <3>1. Accounts(full \cup {i}, kept)'
      BY <1>5, <1>6, <1>7, <1>8, <2>2
    <3>2. PICK more : more = charged \cup {i}
      OBVIOUS
    <3>3. /\ Booked' \cup more = full \cup {i} /\ RaisedSales' \ more = kept
          /\ more \in SUBSET RaisedSales'
      BY <1>2, <1>3, <1>11, <3>2
    <3> QED
      BY <1>11, <2>1, <3>1, <3>3 DEF CashInv
  <2>3. CASE cash' = cash + AmountBy'[i]
    <3>1. Accounts(full, kept \cup {i})'
      BY <1>5, <1>6, <1>7, <1>8, <2>3
    <3>2. i \notin charged
      BY FillAccounts
    <3>3. /\ Booked' \cup charged = full /\ RaisedSales' \ charged = kept \cup {i}
          /\ charged \in SUBSET RaisedSales'
      BY <1>2, <1>11, <3>2
    <3> QED
      BY <1>11, <2>1, <3>1, <3>3 DEF CashInv
  <2> QED
    BY <1>11, <2>2, <2>3
<1> QED
  BY <1>9, <1>10, <1>11, FillAccounts

\* Validations and time account for nothing.
LEMMA StepKeepsAccounts ==
  ASSUME TypeOK, TypeOK', CashInv, [Next]_vars
  PROVE  CashInv'
<1>1. CASE Tick \/ UNCHANGED vars
  <2>1. UNCHANGED <<cash, order>>
    BY <1>1 DEF Tick, vars, ledger
  <2>2. UNCHANGED <<Booked, RaisedSales, CashBy, AmountBy>>
    BY <2>1 DEF Booked, RaisedSales, InStage, CashBy, CashOf, AmountBy, Amount
  <2> QED
    BY <2>1, <2>2 DEF CashInv, Accounts
<1>2. ASSUME NEW i \in OrderId, NEW side \in Side, NEW s \in Symbol,
             NEW q \in Quantity, NEW p \in Price, Validate(i, side, s, q, p)
      PROVE  CashInv'
  <2>1. /\ order[i].stage = "none" /\ order'[i].stage = "accepted" /\ UNCHANGED cash
        /\ \A j \in OrderId \ {i} : order'[j] = order[j]
    BY <1>2 DEF Validate, ledger, TypeOK
  <2>2. /\ Booked' = Booked /\ RaisedSales' = RaisedSales
        /\ i \notin Booked /\ i \notin RaisedSales
        /\ Booked \subseteq OrderId /\ RaisedSales \subseteq OrderId
    BY <2>1 DEF Booked, RaisedSales, InStage
  <2>3. PICK charged \in SUBSET RaisedSales : Accounts(Booked \cup charged, RaisedSales \ charged)
    BY DEF CashInv
  <2>4. PICK full, kept : full = Booked \cup charged /\ kept = RaisedSales \ charged
    OBVIOUS
  <2>5. full \in SUBSET OrderId /\ kept \in SUBSET OrderId /\ i \notin full /\ i \notin kept
    BY <2>2, <2>4
  <2>6. IsFiniteSet(full) /\ IsFiniteSet(kept)
    <3>1. IsFiniteSet(charged) /\ IsFiniteSet(kept)
      BY <2>4, FS_Subset DEF CashInv
    <3> QED
      BY <2>4, <3>1, FS_Union DEF CashInv
  <2>7. Total(CashBy', full) = Total(CashBy, full) /\ Total(AmountBy', kept) = Total(AmountBy, kept)
    BY <2>1, <2>5, <2>6, OneOrderAccounts
  <2>8. Accounts(full, kept)'
    BY <2>1, <2>3, <2>4, <2>7 DEF Accounts
  <2> QED
    BY <2>2, <2>4, <2>8 DEF CashInv
<1> QED
  BY <1>1, <1>2, FillKeepsAccounts DEF Next

\* The proceeds that a set of orders has left are the total of AmountBy.
LEMMA AmountSum ==
  ASSUME TypeOK, NEW fills \in SUBSET OrderId, IsFiniteSet(fills)
  PROVE  MapThenSumSet(Amount, fills) = Total(AmountBy, fills)
<1> DEFINE Sums(h) == h = [s \in SUBSET fills |->
             IF s = {} THEN 0 ELSE Amount(Taken(s)) + h[s \ {Taken(s)}]]
           sums == CHOOSE h : Sums(h)
<1>1. MapThenSumSet(Amount, fills) = sums[fills]
  BY Zenon DEF MapThenSumSet, MapThenFoldSet, Taken
<1>2. \A i \in fills : AmountBy[i] \in Int /\ AmountBy[i] = Amount(i)
  <2>1. \A i \in fills : order[i].quantity \in Nat /\ order[i].price \in Nat
    BY DEF TypeOK, Order
  <2> QED
    BY <2>1 DEF AmountBy, Amount
<1>3. ASSUME NEW h PROVE SumsUp(h, AmountBy, fills) <=> Sums(h)
  <2>1. \A s \in SUBSET fills : s # {} => AmountBy[Taken(s)] = Amount(Taken(s))
    BY <1>2 DEF Taken
  <2> QED
    BY <2>1 DEF SumsUp
<1>4. \E h : SumsUp(h, AmountBy, fills)
  BY <1>2, SumsExist
<1> HIDE DEF Sums
<1>5. SumsUp(sums, AmountBy, fills)
  BY <1>3, <1>4
<1> QED
  BY <1>1, <1>5, TotalIsSum

\* For every caller, with any number of orders on their way, and for every fee,
\* the cash is what the booked fills make of the initial cash, plus for each sale
\* that raised its proceeds, with or without the fee taken: the half of a fill
\* that apply_fill leaves is all that can go wrong with the cash.
THEOREM CashIsAlwaysAccountedFor == Spec => []CashIsAccountedFor
<1>1. Init => CashInv
  <2> SUFFICES ASSUME Init PROVE CashInv
    OBVIOUS
  <2>1. Booked = {} /\ RaisedSales = {} /\ IsFiniteSet({})
    BY FS_EmptySet DEF Init, Unsent, Booked, RaisedSales, InStage
  <2>2. \A f : Total(f, {}) = 0
    BY <2>1, TotalProperties
  <2>3. Accounts({}, {})
    BY <2>2, LedgerAssumption DEF Accounts, Init, LedgerInit
  <2> QED
    BY <2>1, <2>3 DEF CashInv
<1>2. TypeOK /\ TypeOK' /\ CashInv /\ [Next]_vars => CashInv'
  BY StepKeepsAccounts
<1>3. TypeOK /\ CashInv => CashIsAccountedFor
  <2> SUFFICES ASSUME TypeOK, CashInv PROVE CashIsAccountedFor
    OBVIOUS
  <2>1. PICK charged \in SUBSET RaisedSales : Accounts(Booked \cup charged, RaisedSales \ charged)
    BY DEF CashInv
  <2>2. PICK full, kept : full = Booked \cup charged /\ kept = RaisedSales \ charged
    OBVIOUS
  <2>3. full \in SUBSET OrderId /\ kept \in SUBSET OrderId
    BY <2>2 DEF Booked, RaisedSales, InStage
  <2>4. IsFiniteSet(full) /\ IsFiniteSet(kept)
    <3>1. IsFiniteSet(charged) /\ IsFiniteSet(kept)
      BY <2>2, FS_Subset DEF CashInv
    <3> QED
      BY <2>2, <3>1, FS_Union DEF CashInv
  <2>5. MapThenSumSet(CashOf, full) = Total(CashBy, full)
    BY <2>3, <2>4, CashSum
  <2>6. MapThenSumSet(Amount, kept) = Total(AmountBy, kept)
    BY <2>3, <2>4, AmountSum
  <2> QED
    BY <2>1, <2>2, <2>5, <2>6 DEF CashIsAccountedFor, Accounts, Booked
<1> QED
  BY <1>1, <1>2, <1>3, TypeCorrect, PTL DEF Spec

\* The books balance for every caller and every sequence of orders, fills and days:
\* shares to the last one, the cash of a serial caller with small fees to the
\* last fee, and that of any caller but for what known sales have left.
THEOREM BooksBalance == Spec => []LedgerMatchesBookedFills
BY BookedFillsAlwaysAddUp, CashIsAlwaysAccountedFor, PTL DEF LedgerMatchesBookedFills

-----------------------------------------------------------------------------
(* Settlement *)

Waiting(s) == Total(pending[s], 1..SlotsPerDay)

\* Every share held has a settlement record, due or waiting: records are
\* never used up, so there may be more of them than shares.
HeldSharesHaveRecords ==
  \A s \in Symbol : position[s] <= settled[s] + Waiting(s)

\* What waits for settlement is a number of shares.
LEMMA WaitingIsNumber ==
  ASSUME TypeOK, NEW s \in Symbol
  PROVE  /\ Waiting(s) \in Nat
         /\ (\A k \in 1..SlotsPerDay : pending[s][k] = 0) => Waiting(s) = 0
<1>1. IsFiniteSet(1..SlotsPerDay) /\ \A k \in 1..SlotsPerDay : pending[s][k] \in Nat
  BY FS_Interval, SMTT(30) DEF TypeOK, LedgerTypeOK
<1> QED
  BY <1>1, TotalOfNaturals DEF Waiting

\* A purchase adds as many shares to the last slot of its symbol as to the
\* position.
LEMMA PurchaseHasRecord ==
  ASSUME TypeOK, HeldSharesHaveRecords, NEW s \in Symbol, NEW q \in Nat,
         position' = [position EXCEPT ![s] = @ + q],
         pending' = [pending EXCEPT ![s][SlotsPerDay] = @ + q],
         UNCHANGED settled
  PROVE  HeldSharesHaveRecords'
<1> DEFINE old == pending[s]
           new == pending'[s]
           slots == 1..SlotsPerDay
<1>1. /\ IsFiniteSet(slots) /\ SlotsPerDay \in slots
      /\ \A k \in slots : old[k] \in Int /\ new[k] \in Int
      /\ \A k \in slots \ {SlotsPerDay} : new[k] = old[k]
      /\ new[SlotsPerDay] - old[SlotsPerDay] = q
  <2>1. old \in [slots -> Nat] /\ SlotsPerDay \in slots
    BY DEF TypeOK, LedgerTypeOK
  <2>2. new = [old EXCEPT ![SlotsPerDay] = @ + q]
    BY DEF TypeOK, LedgerTypeOK
  <2>3. IsFiniteSet(slots)
    <3>1. 1 \in Int /\ SlotsPerDay \in Int
      OBVIOUS
    <3> QED
      BY <3>1, FS_Interval
  <2> HIDE DEF old, new, slots
  <2>4. \A k \in slots : old[k] \in Nat /\ new[k] = IF k = SlotsPerDay THEN old[k] + q ELSE old[k]
    BY <2>1, <2>2
  <2> QED
    BY <2>1, <2>3, <2>4
<1> HIDE DEF old, new, slots
<1>2. Total(new, slots) = Total(old, slots) + (new[SlotsPerDay] - old[SlotsPerDay])
  BY <1>1, TotalChangesBy
<1>3. Waiting(s)' = Waiting(s) + q
  BY <1>1, <1>2 DEF Waiting, old, new, slots
<1>4. \A t \in Symbol \ {s} : pending'[t] = pending[t] /\ position'[t] = position[t]
  BY DEF TypeOK, LedgerTypeOK
<1>5. \A t \in Symbol \ {s} : Waiting(t)' = Waiting(t)
  BY <1>4 DEF Waiting
<1>6. position'[s] = position[s] + q /\ position[s] \in Nat /\ settled[s] \in Nat
  BY DEF TypeOK, LedgerTypeOK
<1>7. position'[s] <= settled'[s] + Waiting(s)'
  BY <1>3, <1>6, WaitingIsNumber DEF HeldSharesHaveRecords
<1> HIDE DEF Waiting
<1> QED
  BY <1>4, <1>5, <1>7 DEF HeldSharesHaveRecords

\* When a slot passes its records are settled, and the others wait for one
\* slot less: none is lost.
LEMMA SettlingKeepsRecords ==
  ASSUME TypeOK, HeldSharesHaveRecords, SettleOneSlot, UNCHANGED position
  PROVE  HeldSharesHaveRecords'
<1> SUFFICES ASSUME NEW s \in Symbol
             PROVE  position[s] <= settled'[s] + Waiting(s)'
  BY DEF HeldSharesHaveRecords
<1> DEFINE old == pending[s]
           new == pending'[s]
           n == SlotsPerDay - 1
<1>1. n \in Nat /\ n + 1 = SlotsPerDay
  OBVIOUS
<1>2. /\ \A k \in 1..(n + 1) : old[k] \in Int /\ new[k] \in Int
      /\ \A k \in 1..n : new[k] = old[k + 1]
      /\ new[n + 1] = 0
  BY DEF SettleOneSlot, TypeOK, LedgerTypeOK
<1>3. Waiting(s) = Total(old, 1..(n + 1)) /\ Waiting(s)' = Total(new, 1..(n + 1))
  BY <1>1 DEF Waiting
<1> HIDE DEF n, old, new
<1>4. Total(old, 1..(n + 1)) = old[1] + Total(new, 1..n)
  BY <1>1, <1>2, TotalShifts
<1>5. Total(new, 1..(n + 1)) = Total(new, 1..n) + new[n + 1]
  BY <1>1, <1>2, TotalToNext
<1>6. Total(new, 1..n) \in Int
  <2>1. IsFiniteSet(1..n) /\ 1..n \in SUBSET (1..n) /\ \A k \in 1..n : new[k] \in Int
    <3>1. n \in Int /\ 1 \in Int /\ 1..n \subseteq 1..(n + 1)
      BY <1>1
    <3> QED
      BY <1>2, <3>1, FS_Interval
  <2> QED
    BY <2>1, TotalProperties
<1>7. settled'[s] = settled[s] + old[1] /\ old[1] \in Int
      /\ settled[s] \in Nat /\ position[s] \in Nat
  BY <1>1, <1>2 DEF SettleOneSlot, TypeOK, LedgerTypeOK, old
<1>8. position[s] <= settled[s] + Waiting(s)
  BY DEF HeldSharesHaveRecords
<1> QED
  BY <1>2, <1>3, <1>4, <1>5, <1>6, <1>7, <1>8

\* A sale takes shares, and no record.
LEMMA SaleKeepsRecords ==
  ASSUME TypeOK, HeldSharesHaveRecords, NEW s \in Symbol, NEW q \in Nat,
         position' = [position EXCEPT ![s] = @ - q], UNCHANGED <<settled, pending>>
  PROVE  HeldSharesHaveRecords'
<1>1. \A t \in Symbol : position'[t] \in Int /\ position'[t] <= position[t]
  <2>1. position \in [Symbol -> Nat]
    BY DEF TypeOK, LedgerTypeOK
  <2>2. \A t \in Symbol : /\ position[t] \in Nat
                          /\ position'[t] = IF t = s THEN position[t] - q ELSE position[t]
    BY <2>1
  <2> QED
    BY <2>2
<1>2. \A t \in Symbol : Waiting(t)' = Waiting(t) /\ Waiting(t) \in Nat
  BY WaitingIsNumber DEF Waiting
<1>3. \A t \in Symbol : settled[t] \in Nat /\ position[t] \in Nat
  BY DEF TypeOK, LedgerTypeOK
<1> HIDE DEF Waiting
<1>4. ASSUME NEW t \in Symbol PROVE position'[t] <= settled'[t] + Waiting(t)'
  BY <1>1, <1>2, <1>3 DEF HeldSharesHaveRecords
<1> QED
  BY <1>4 DEF HeldSharesHaveRecords

\* No step leaves a share without a record.
LEMMA StepKeepsRecords ==
  ASSUME TypeOK, HeldSharesHaveRecords, [Next]_vars
  PROVE  HeldSharesHaveRecords'
<1>1. CASE UNCHANGED <<position, settled, pending>>
  BY <1>1 DEF HeldSharesHaveRecords, Waiting
<1>2. ASSUME NEW i \in OrderId, NEW p \in Price, NEW f \in Fee, ApplyFill(i, p, f)
      PROVE  HeldSharesHaveRecords'
  <2>1. order[i].symbol \in Symbol /\ order[i].quantity \in Nat
    BY OrderNumbers
  <2>2. CASE BookBuy(i, p, f)
    BY <2>1, <2>2, PurchaseHasRecord DEF BookBuy, Bought
  <2>3. CASE BookSell(i, p, f)
    BY <2>1, <2>3, SaleKeepsRecords DEF BookSell, Sold
  <2>4. CASE FillRaises(i, p, f)
    BY <1>1, <2>4 DEF FillRaises, BuyRaises, SellRaises, ledger
  <2> QED
    BY <1>2, <2>2, <2>3, <2>4 DEF ApplyFill
<1>3. CASE Tick
  BY <1>3, SettlingKeepsRecords DEF Tick
<1>4. ASSUME NEW i \in OrderId, NEW side \in Side, NEW s \in Symbol,
             NEW q \in Quantity, NEW p \in Price, Validate(i, side, s, q, p)
      PROVE  HeldSharesHaveRecords'
  BY <1>1, <1>4 DEF Validate, ledger
<1>5. CASE UNCHANGED vars
  BY <1>1, <1>5 DEF vars, ledger
<1> QED
  BY <1>2, <1>3, <1>4, <1>5 DEF Next

\* Shares held are sellable once nothing bought waits for settlement, after
\* any purchases, sales and days: a sale never locks the shares that stay.
THEOREM SharesUnlock == Spec => []NoSharesStayLocked
<1>1. ASSUME Init PROVE HeldSharesHaveRecords
  <2> SUFFICES ASSUME NEW s \in Symbol PROVE position[s] <= settled[s] + Waiting(s)
    BY DEF HeldSharesHaveRecords
  <2>1. TypeOK /\ position[s] = 0 /\ settled[s] = 0
    BY <1>1, InitTypeOK DEF Init, LedgerInit
  <2>2. Waiting(s) \in Nat
    BY <2>1, WaitingIsNumber
  <2> QED
    BY <2>1, <2>2
<1>2. ASSUME TypeOK, HeldSharesHaveRecords PROVE NoSharesStayLocked
  <2> SUFFICES ASSUME NEW s \in Symbol, \A k \in 1..SlotsPerDay : pending[s][k] = 0
               PROVE  Sellable(s) = position[s]
    BY DEF NoSharesStayLocked
  <2>1. Waiting(s) = 0 /\ settled[s] \in Nat /\ position[s] \in Nat
    BY <1>2, WaitingIsNumber DEF TypeOK, LedgerTypeOK
  <2>2. position[s] <= settled[s]
    BY <1>2, <2>1 DEF HeldSharesHaveRecords
  <2> QED
    BY <2>1, <2>2 DEF Sellable
<1> QED
  BY <1>1, <1>2, StepKeepsRecords, TypeCorrect, PTL DEF Spec
==========================================================================
