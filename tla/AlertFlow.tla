---------------------------- MODULE AlertFlow ----------------------------
(***************************************************************************)
(* From a counted failure to the handler of an alert: MetricsRegistry with  *)
(* its collectors, an AlertEvaluator that keeps the collector it was made   *)
(* with, and an AlertRouter.                                               *)
(*                                                                         *)
(* A sample belongs to a metric and a set of labels.  The evaluator reads   *)
(* the gauge and then the counter without labels, and adds up the counter   *)
(* over all labels only if there is no sample without.  reset_metrics()     *)
(* forgets the collectors: an evaluator made before goes on reading its own.*)
(* Thresholds that are not calibrated (TBD) and conditions other than ">",  *)
(* which no default rule with a metric of the collector has, are left out.  *)
(***************************************************************************)
EXTENDS Naturals, FiniteSetsExt, SequencesExt

CONSTANTS
  Metric,        \* names of metrics
  Label,         \* sets of labels
  Unlabelled,    \* the set that is empty
  NoSample,      \* no sample
  Rules,         \* the rules, in order: [metric, threshold, severity]
  Severity,      \* severities
  Handler,       \* alert handlers
  Every,         \* a handler that is added without a severity
  MaxCount,      \* bound on what is counted
  MaxCollectors, \* bound on the collectors made
  MaxFired,      \* bound on the alerts that an evaluator fires
  MaxHandlers    \* bound on the calls of add_handler

ASSUME AlertAssumption ==
  /\ Unlabelled \in Label /\ IsFiniteSet(Label) /\ NoSample \notin Nat
  /\ Rules \in Seq([metric : Metric, threshold : Nat, severity : Severity])
  /\ Every \notin Severity
  /\ MaxCount \in Nat /\ MaxCollectors \in Nat \ {0} /\ MaxFired \in Nat

VARIABLES
  counters,   \* samples of the counters of each collector
  gauges,     \* the unlabelled samples of the gauges; no one reads the others
  registered, \* the collector that get_metrics returns
  held,       \* the collector of the evaluator
  added,      \* _all_handlers, in the order of the calls of add_handler: a handler,
              \* and the severity that it was added with, or Every
  handlers,   \* _handlers: those of each severity
  fired,      \* alerts fired and not routed yet
  routed,     \* history: the last alert routed, with the handlers called
  counted     \* history: what was counted since the reset of the counter

alertVars == <<counters, gauges, registered, held, added, handlers, fired, routed, counted>>
metrics == <<counters, gauges, registered, counted>>
alerts == <<held, added, handlers, fired, routed>>

Collector == 1..MaxCollectors
Blank == [m \in Metric |-> [l \in Label |-> NoSample]]
NoGauges == [m \in Metric |-> NoSample]

AlertInit ==
  /\ counters = [c \in Collector |-> Blank]
  /\ gauges = [c \in Collector |-> NoGauges]
  /\ registered = 1 /\ held = 1
  /\ added = <<>> /\ handlers = [s \in Severity |-> <<>>] /\ fired = <<>>
  /\ routed = [severity |-> Every, to |-> <<>>, calls |-> <<>>, raised |-> FALSE]
  /\ counted = [c \in Collector |-> [m \in Metric |-> 0]]

-----------------------------------------------------------------------------
(* MetricsCollector *)

OrZero(sample) == IF sample = NoSample THEN 0 ELSE sample

\* Mutant of Incremented: the value takes the place of the sample.
Overwritten(sample, n) == n

\* Counter.inc, of a value that is not negative.
Incremented(sample, n) == OrZero(sample) + n

Count(m, l, n) ==
  /\ counted[registered][m] + n <= MaxCount
  /\ counters' = [counters EXCEPT ![registered][m][l] = Incremented(@, n)]
  /\ counted' = [counted EXCEPT ![registered][m] = @ + n]
  /\ UNCHANGED <<gauges, registered, alerts>>

\* Gauge.set
SetGauge(m, n) ==
  /\ gauges' = [gauges EXCEPT ![registered][m] = n]
  /\ UNCHANGED <<counters, registered, counted, alerts>>

\* register: a counter of that name begins anew, a gauge of the name stays.
RegisterCounter(m) ==
  /\ counters' = [counters EXCEPT ![registered][m] = Blank[m]]
  /\ counted' = [counted EXCEPT ![registered][m] = 0]
  /\ UNCHANGED <<gauges, registered, alerts>>

\* reset_metrics("default") empties the collector.
ResetCollector ==
  /\ counters' = [counters EXCEPT ![registered] = Blank]
  /\ gauges' = [gauges EXCEPT ![registered] = NoGauges]
  /\ counted' = [counted EXCEPT ![registered] = [m \in Metric |-> 0]]
  /\ UNCHANGED <<registered, alerts>>

\* reset_metrics() forgets it: the next get_metrics makes another one.
ForgetCollectors ==
  /\ registered < MaxCollectors
  /\ registered' = registered + 1
  /\ UNCHANGED <<counters, gauges, counted, alerts>>

-----------------------------------------------------------------------------
(* AlertEvaluator and AlertRouter *)

\* A new evaluator takes the collector that is registered.
NewEvaluator ==
  /\ held # registered
  /\ held' = registered /\ fired' = <<>>
  /\ UNCHANGED <<metrics, added, handlers, routed>>

\* _read_metric, of a collector's metric that has a counter.
ReadMetric(c, m) ==
  IF gauges[c][m] # NoSample THEN gauges[c][m]
  ELSE IF counters[c][m][Unlabelled] # NoSample THEN counters[c][m][Unlabelled]
  ELSE MapThenSumSet(LAMBDA l : OrZero(counters[c][m][l]), Label)

\* The rules that fire, with the condition ">".
Breached ==
  {i \in DOMAIN Rules : ReadMetric(held, Rules[i].metric) > Rules[i].threshold}

\* evaluate: the rules in turn.
Evaluate ==
  LET n == Cardinality(Breached) IN
  /\ n > 0 /\ Len(fired) + n <= MaxFired
  /\ \E rule \in [1..n -> Breached] :
       /\ \A i, j \in 1..n : i < j => rule[i] < rule[j]
       /\ fired' = fired \o [i \in 1..n |-> Rules[rule[i]].severity]
  /\ UNCHANGED <<metrics, held, added, handlers, routed>>

AddHandler(h, s) ==
  LET entry == [handler |-> h, severity |-> s] IN
  /\ Len(added) < MaxHandlers
  /\ handlers' = IF s = Every THEN handlers ELSE [handlers EXCEPT ![s] = Append(@, entry)]
  /\ added' = Append(added, entry)
  /\ UNCHANGED <<metrics, held, fired, routed>>

\* Mutant of Called: the list of all handlers is left out.
CalledForSeverity(severity) == handlers[severity]

\* The calls of route: the handlers of the severity, and then the list of all,
\* to which add_handler adds those with a severity too.
Called(severity) == handlers[severity] \o added

\* route, of the alert that was fired first: a handler that raises ends it.
Route ==
  LET severity == Head(fired)
      called == Called(severity) IN
  /\ fired # <<>>
  /\ fired' = Tail(fired)
  /\ \E n \in 0..Len(called) :
       routed' = [severity |-> severity, to |-> added, raised |-> n < Len(called),
                  calls |-> SubSeq(called, 1, n)]
  /\ UNCHANGED <<metrics, held, added, handlers>>

AlertNext ==
  \/ \E m \in Metric, l \in Label, n \in 0..MaxCount : Count(m, l, n)
  \/ \E m \in Metric, n \in 0..MaxCount : SetGauge(m, n)
  \/ \E m \in Metric : RegisterCounter(m)
  \/ ResetCollector \/ ForgetCollectors \/ NewEvaluator
  \/ Evaluate \/ Route
  \/ \E h \in Handler, s \in Severity \cup {Every} : AddHandler(h, s)

AlertSpec == AlertInit /\ [][AlertNext]_alertVars

-----------------------------------------------------------------------------
(* Properties *)

\* Collectors, alerts and handlers are of their types.
AlertTypeOK ==
  /\ counters \in [Collector -> [Metric -> [Label -> Nat \cup {NoSample}]]]
  /\ gauges \in [Collector -> [Metric -> Nat \cup {NoSample}]]
  /\ registered \in Collector /\ held \in 1..registered
  /\ fired \in Seq(Severity)
  /\ counted \in [Collector -> [Metric -> Nat]]

\* What the evaluator reads of a metric without unlabelled samples is all that
\* was counted of it, under whatever labels, since the counter was reset; an
\* unlabelled sample of the counter can only hide counts, never add to them.
ReadingsAddUp ==
  \A c \in Collector, m \in Metric :
    gauges[c][m] = NoSample =>
      /\ ReadMetric(c, m) <= counted[c][m]
      /\ counters[c][m][Unlabelled] = NoSample => ReadMetric(c, m) = counted[c][m]

\* How often a handler is in a list.
Times(a, calls) == Cardinality({i \in DOMAIN calls : calls[i] = a})

\* IF no handler raises THEN an alert reaches every handler that was added for
\* its severity, and a general handler as often as it was added; IF one does
\* THEN no general handler has been called before one of the severity.
AlertsReachTheirHandlers ==
  /\ ~routed.raised => \A i \in DOMAIN routed.to :
       LET a == routed.to[i] IN
       /\ a.severity = routed.severity => Times(a, routed.calls) > 0
       /\ a.severity = Every => Times(a, routed.calls) = Times(a, routed.to)
  /\ \A i, j \in DOMAIN routed.to :
       LET a == routed.to[i]
           b == routed.to[j] IN
       a.severity = routed.severity /\ b.severity = Every /\ Times(b, routed.calls) > 0
         => Times(a, routed.calls) > 0
==========================================================================
