--------------------------- MODULE MCOrderFlow ---------------------------
(* Small instances of OrderFlow for TLC. *)
EXTENDS OrderFlow, TLC

\* Orders are interchangeable.
OrderSymmetry == Permutations(OrderId)
==========================================================================
