--------------------------- MODULE MCBacktestRun ---------------------------
(* Small instances of BacktestRun for TLC. *)
EXTENDS BacktestRun

\* Binding 1 follows universe "u", binding 2 universe "v".
MCUniverseOf == <<"u", "v">>

\* The bindings have the same strategy, or not.
MCAssignments == {<<"rules", "rules">>, <<"rules", "momentum">>}

\* Snapshots published before, at and after FromTime, some ahead of their
\* effective_time.
MCSnapshot ==
  {[available |-> p[1], effective |-> p[2], symbols |-> s] :
     p \in {<<0, 0>>, <<2, 3>>, <<3, 3>>, <<0, 4>>}, s \in {{1}, {2}, {1, 2}}}

MCSteady == [available |-> 0, effective |-> 0, symbols |-> {1}]

\* None, one or two versions of "u"; one version of "v", with symbol 1.
MCPublications ==
  [u \in UniverseId |->
     IF u = "v" THEN {<<MCSteady>>}
     ELSE {<<>>} \cup {<<a>> : a \in MCSnapshot}
                 \cup {<<a, b>> : a \in MCSnapshot, b \in MCSnapshot}]

\* One bar for each time from FromTime and symbol ...
MCAllBars == [k \in Key |-> IF k[1] < FromTime THEN <<>> ELSE <<"first">>]

\* ... but for one that is missing, repeated, revised, or too early.
MCInputs ==
  {MCAllBars} \cup {[MCAllBars EXCEPT ![k] = c] :
     k \in Key,
     c \in {<<>>, <<"first", "first">>, <<"first", "revised">>}}

\* A SELL when the window has a gap and symbol 2, else a BUY.
MCDecide(s, window) ==
  IF s = 2 /\ window[1] + 1 < window[2] THEN "SELL" ELSE "BUY"
============================================================================
