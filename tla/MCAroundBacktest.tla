------------------------- MODULE MCAroundBacktest -------------------------
(***************************************************************************)
(* Small instances for TLC of what is around a backtest: the bars that it   *)
(* may be fed with (MarketIngest), the orders that its signals may become   *)
(* (OrderFlow), the command that starts it (RunCommand), the trace of its   *)
(* events (EventChain), and its metrics and alerts (AlertFlow).  They share *)
(* no state, and each behaviour is one of one of them.                     *)
(***************************************************************************)
EXTENDS RunCommand, EventChain, AlertFlow, MarketIngest, OrderFlow, TLC

VARIABLE part  \* the component that moves

MCInit ==
  /\ part \in {"command", "chain", "metrics", "routing", "ingest", "orders"}
  /\ CommandInit /\ ChainInit /\ AlertInit /\ IngestInit /\ Init
  /\ part # "ingest" => duplicatePolicy = "RAISE"
  /\ part # "orders" => caller = "serial"

\* Metrics are counted without routing, and alerts are routed with the collector
\* that there is at first: neither looks at the other.
MCNext ==
  \/ /\ part = "command" /\ CommandNext
     /\ UNCHANGED <<chainVars, alertVars, ingestVars, vars, part>>
  \/ /\ part = "chain" /\ ChainNext
     /\ UNCHANGED <<commandVars, alertVars, ingestVars, vars, part>>
  \/ /\ part = "metrics" /\ AlertNext
     /\ UNCHANGED <<added, handlers, routed, commandVars, chainVars, ingestVars, vars, part>>
  \/ /\ part = "routing" /\ AlertNext
     /\ UNCHANGED <<gauges, registered, commandVars, chainVars, ingestVars, vars, part>>
  \/ /\ part = "ingest" /\ IngestNext
     /\ UNCHANGED <<commandVars, chainVars, alertVars, vars, part>>
  \/ /\ part = "orders" /\ Next
     /\ UNCHANGED <<commandVars, chainVars, alertVars, ingestVars, part>>

MCVars == <<commandVars, chainVars, alertVars, ingestVars, vars, part>>

MCSpec == MCInit /\ [][MCNext]_MCVars

-----------------------------------------------------------------------------
(* RunCommand *)

MCBound(weight, from, to) ==
  [id |-> "b", strategy |-> "rules", version |-> "v1", params |-> "p", universe |-> "u",
   universeVersion |-> "v1", feature |-> "f1", weight |-> weight, from |-> from, to |-> to,
   cost |-> "c1"]

MCText == [runId |-> "r", mode |-> "backtest", from |-> 0, to |-> 1,
           source |-> "s1", asOf |-> "a1", paths |-> "p1", cost |-> "c1",
           bindings |-> <<MCBound(1, NoTime, NoTime)>>, outputDir |-> "artifacts"]

MCRequest(text, dir, debug, resume) ==
  [text |-> text, outputDir |-> dir, debug |-> debug, resume |-> resume]

\* The spec; with another run_id and other market data; without a data source;
\* without as_of_version; one that the loader refuses; another directory.
MCRequests ==
  <<MCRequest(MCText, Empty, TRUE, TRUE),
    MCRequest([MCText EXCEPT !.runId = Empty, !.paths = "p2"], Empty, FALSE, TRUE),
    MCRequest([MCText EXCEPT !.source = Empty], Empty, FALSE, TRUE),
    MCRequest([MCText EXCEPT !.asOf = Empty], Empty, FALSE, FALSE),
    MCRequest([MCText EXCEPT !.bindings = <<MCBound(1, 1, 0)>>], Empty, FALSE, TRUE),
    MCRequest(MCText, "elsewhere", FALSE, TRUE)>>
-----------------------------------------------------------------------------
(* AlertFlow *)

MCRules == <<[metric |-> "persist_failure", threshold |-> 0, severity |-> "P1"],
             [metric |-> "persist_failure", threshold |-> 1, severity |-> "P2"]>>
-----------------------------------------------------------------------------
(* MarketIngest *)

MCRow(time, close, volume, trading) ==
  [symbol |-> NoColumn, time |-> time, open |-> 10, high |-> 12, low |-> 9, close |-> close,
   volume |-> volume, status |-> trading]

\* A row, its revision, a bar that may still be open, another status, a price
\* above the high, a volume that is no number or not there, no time, and a bar
\* that another symbol's answer brings.
MCAnswers ==
  LET plain == MCRow(1, 10, 5, NoColumn) IN
  [s |-> {<<plain, MCRow(2, 11, 5, NoColumn)>>, <<MCRow(1, 11, 5, NoColumn)>>,
          <<plain, MCRow(1, 10, 5, "HALTED")>>, <<MCRow(1, 13, 5, "TRADING"), plain>>,
          <<MCRow(1, 10, Word, NoValue), MCRow(NoColumn, 10, 5, NoColumn),
            MCRow(2, 11, NoColumn, "UNKNOWN")>>},
   t |-> {<<>>, <<plain>>, <<[plain EXCEPT !.symbol = "s", !.volume = 6]>>}]

MCCalls == {[what |-> "read", symbols |-> <<"s", "t">>, from |-> 1, to |-> 2],
            [what |-> "read", symbols |-> <<"s">>, from |-> 1, to |-> 1],
            [what |-> "validate", symbols |-> <<"t", "s">>, from |-> 1, to |-> 1]}
-----------------------------------------------------------------------------
(* OrderFlow *)

\* Orders are interchangeable.  All of them but one are permuted: every permutation
\* is tried on the states of the other parts, too.
OrderSymmetry == Permutations(OrderId \ {CHOOSE i \in OrderId : TRUE})
==========================================================================
