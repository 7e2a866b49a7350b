-------------------------- MODULE MCShadowRuns --------------------------
(* Small instances of ShadowRuns for TLC. *)
EXTENDS ShadowRuns, TLC

\* A rule on the bars of a window: BUY if the last of them is as first
\* published, SELL if it is a revised one, nothing if all of them are revised.
MCDecide(window) ==
  LET last == CHOOSE b \in DOMAIN window : \A c \in DOMAIN window : c <= b IN
  IF \A b \in DOMAIN window : window[b] = "revised" THEN "NONE"
  ELSE IF window[last] = "first" THEN "BUY" ELSE "SELL"

\* Runs are interchangeable.
RunSymmetry == Permutations(Run)
==========================================================================
