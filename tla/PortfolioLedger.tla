------------------------- MODULE PortfolioLedger -------------------------
(***************************************************************************)
(* The A-share ledger of portfolio/ledger.py with its cash, positions and   *)
(* T+1 settlement records: its state and what apply_fill does to it.  The   *)
(* modules that feed it with fills extend this one.                         *)
(*                                                                         *)
(* A settlement record (symbol, settle_date = as_of + 1 day, quantity) is   *)
(* kept by the time that is left until settle_date, in slots of which a     *)
(* day has SlotsPerDay: what is due later in pending, what is due now or    *)
(* was due before in settled.  Records are never removed.                   *)
(***************************************************************************)
EXTENDS Integers

CONSTANTS
  Symbol,       \* the symbols traded
  InitialCash,  \* the initial_cash of the ledger
  SlotsPerDay   \* slots of time in 24 hours

ASSUME LedgerAssumption == /\ InitialCash \in Nat
                           /\ SlotsPerDay \in Nat \ {0}

VARIABLES
  cash,     \* _cash
  position, \* _positions, 0 for a symbol that has none
  settled,  \* quantities of the records with settle_date <= now
  pending   \* quantities of the later ones, by the slots left

ledger == <<cash, position, settled, pending>>

LedgerTypeOK == /\ cash \in Int
                /\ position \in [Symbol -> Nat]
                /\ settled \in [Symbol -> Nat]
                /\ pending \in [Symbol -> [1..SlotsPerDay -> Nat]]

LedgerInit == /\ cash = InitialCash
              /\ position = [s \in Symbol |-> 0]
              /\ settled = [s \in Symbol |-> 0]
              /\ pending = [s \in Symbol |-> [k \in 1..SlotsPerDay |-> 0]]

\* get_sellable_quantity: sales do not use settlement records up.
Sellable(s) == IF settled[s] <= position[s] THEN settled[s] ELSE position[s]

\* Mutant of BuyIsCovered: debit does not look at the cash.
BuyIsNotChecked(amount) == amount >= 0

\* Mutant of SharesAreHeld: subtract does not look at the position.
SharesAreNotChecked(s, q) == q >= 0

\* The debits of apply_fill refuse to go below zero, and so does subtract.
BuyIsCovered(amount) == cash >= amount

SellFeeIsCovered(amount, fee) == cash + amount >= fee

SharesAreHeld(s, q) == position[s] >= q

\* The BUY branch when it does not raise.  The fee goes through credit, which
\* checks nothing.
Bought(s, q, amount, fee) ==
  /\ cash' = cash - amount - fee
  /\ position' = [position EXCEPT ![s] = @ + q]
  /\ pending' = [pending EXCEPT ![s][SlotsPerDay] = @ + q]
  /\ UNCHANGED settled

\* The SELL branch when it does not raise.
Sold(s, q, amount, fee) ==
  /\ cash' = cash + amount - fee
  /\ position' = [position EXCEPT ![s] = @ - q]
  /\ UNCHANGED <<settled, pending>>

\* The BUY branch raises before it changes anything.
BuyRaises(amount) ==
  /\ ~BuyIsCovered(amount)
  /\ UNCHANGED ledger

\* The SELL branch credits the proceeds first: if the fee is not covered the
\* proceeds stay, if the shares are not held proceeds less fee stay.
SellRaises(s, q, amount, fee) ==
  /\ \/ /\ ~SellFeeIsCovered(amount, fee)
        /\ cash' = cash + amount
     \/ /\ SellFeeIsCovered(amount, fee) /\ ~SharesAreHeld(s, q)
        /\ cash' = cash + amount - fee
  /\ UNCHANGED <<position, settled, pending>>

\* Mutant of SettleOneSlot: records are removed when their settle_date comes.
SettleAndForget ==
  /\ UNCHANGED settled
  /\ pending' = [s \in Symbol |-> [k \in 1..SlotsPerDay |->
       IF k < SlotsPerDay THEN pending[s][k + 1] ELSE 0]]

\* A slot of time passes for the settlement records.
SettleOneSlot ==
  /\ settled' = [s \in Symbol |-> settled[s] + pending[s][1]]
  /\ pending' = [s \in Symbol |-> [k \in 1..SlotsPerDay |->
       IF k < SlotsPerDay THEN pending[s][k + 1] ELSE 0]]
==========================================================================
