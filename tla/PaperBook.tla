----------------------------- MODULE PaperBook -----------------------------
(***************************************************************************)
(* PaperPortfolio.apply_signal for one symbol: its signals are applied in   *)
(* any order, and any number of times.  A call that returns [] changes      *)
(* nothing and is no step; a signal that found nothing to sell may still    *)
(* get a fill when it is applied again.                                     *)
(***************************************************************************)
EXTENDS Integers, FiniteSetsExt

CONSTANTS
  PaperSignal,     \* signals of the symbol
  ActionOf,        \* signal_action of each signal
  DefaultQuantity  \* default_quantity

ASSUME PaperAssumption ==
  /\ IsFiniteSet(PaperSignal)
  /\ DefaultQuantity \in Nat \ {0}
  /\ ActionOf \in [PaperSignal -> {"BUY", "REDUCE_LONG", "CLEAR_LONG", "RISK_AVOID", "HOLD"}]

VARIABLES
  position,  \* _positions of the symbol
  fills      \* _fills: the quantity of the fill of each signal, 0 for none

paperVars == <<position, fills>>

PaperInit ==
  /\ position = 0
  /\ fills = [s \in PaperSignal |-> 0]

\* min(current_qty, default_quantity)
Lesser(a, b) == IF a <= b THEN a ELSE b

\* Every action but BUY sells, at most what is held.
Quantity(s) ==
  IF ActionOf[s] = "BUY" THEN DefaultQuantity ELSE Lesser(position, DefaultQuantity)

\* Mutant of AlreadyFilled: the fill of the signal is not looked for.
NeverFilled(s) == FALSE

\* fill_id in self._fills
AlreadyFilled(s) == fills[s] # 0

\* What a fill of a signal does to the position.
Change(s, quantity) == IF ActionOf[s] = "BUY" THEN quantity ELSE -quantity

\* apply_signal: nothing for HOLD, with nothing to sell, and for a signal that
\* has its fill.
Apply(s) ==
  /\ ActionOf[s] # "HOLD" /\ Quantity(s) > 0 /\ ~AlreadyFilled(s)
  /\ position' = position + Change(s, Quantity(s))
  /\ fills' = [fills EXCEPT ![s] = Quantity(s)]

PaperNext == \E s \in PaperSignal : Apply(s)

PaperSpec == PaperInit /\ [][PaperNext]_paperVars

-----------------------------------------------------------------------------

\* A paper position is what its fills add up to, one fill for a signal however
\* often and in whatever order signals are applied; it is never short.
PositionIsItsFills ==
  /\ position >= 0
  /\ position = MapThenSumSet(LAMBDA s : Change(s, fills[s]), PaperSignal)
============================================================================
