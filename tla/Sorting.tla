------------------------------ MODULE Sorting ------------------------------
(***************************************************************************)
(* What sorted and ORDER BY return.                                         *)
(***************************************************************************)
EXTENDS Integers, SequencesExt

\* The elements of a finite set by a strict order on them, given as the pairs in which
\* the first comes before the second: at each place the element with one less before it.
Ranked(S, before) ==
  [k \in 1..Cardinality(S) |->
     CHOOSE x \in S : Cardinality({y \in S : <<y, x>> \in before}) = k - 1]

\* The numbers of a finite set, from the smallest to the largest.
Ascending(S) == Ranked(S, {pair \in S \X S : pair[1] < pair[2]})

\* The bars of a finite set, no two of which have the same time, by their times.
ByTime(bars) ==
  LET times == Ascending({b.time : b \in bars}) IN
  [k \in DOMAIN times |-> CHOOSE b \in bars : b.time = times[k]]

\* The elements of a sequence at some places, in order.
Picked(s, places) == [k \in DOMAIN Ascending(places) |-> s[Ascending(places)[k]]]
=============================================================================
