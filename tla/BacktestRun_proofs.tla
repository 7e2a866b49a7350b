------------------------ MODULE BacktestRun_proofs ------------------------
(***************************************************************************)
(* What TLAPS proves of BacktestRun, for any bars, universes, bindings and   *)
(* strategies:                                                               *)
(* - nothing but the past is looked at, because the bars are taken in order  *)
(*   and each is stored before it is offered to a binding;                   *)
(* - different strategies never make the same signal, because no binding     *)
(*   sees a bar twice;                                                       *)
(* - an engine holds exactly what its binding should have followed, whatever *)
(*   versions of the universe came and went, and a run that finishes has     *)
(*   made, stored and counted all that its input calls for.                  *)
(*                                                                           *)
(* The last is an invariant of the loop, RunInv: what an engine holds, with  *)
(* the bar that its binding has yet to take, is the concatenation of the     *)
(* bars taken at each time at which the universe has the symbol.             *)
(***************************************************************************)
EXTENDS BacktestRun, SequenceTheorems, SumLemmas

-----------------------------------------------------------------------------
(* Operators *)

\* resolve finds a version of every universe that has one.
LEMMA ResolvesToVersion ==
  ASSUME NEW p \in Seq(Snapshot), p # <<>>, NEW t \in Time
  PROVE  Resolve(p, t) \in 1..Len(p)
<1>1. /\ DOMAIN p = 1..Len(p) /\ Len(p) \in Nat
      /\ \A v \in DOMAIN p : p[v].effective \in Time
  <2>1. \A v \in DOMAIN p : p[v] \in Snapshot
    OBVIOUS
  <2> QED
    BY <2>1 DEF Snapshot
<1>2. ASSUME NEW V \in SUBSET (DOMAIN p), V # {}
      PROVE  Latest(p, V) \in SUBSET V /\ Latest(p, V) # {}
  <2> DEFINE E == {LastTime - p[v].effective : v \in V}
  <2>1. E \in SUBSET Nat /\ E # {}
    BY <1>1, <1>2, RunAssumption DEF Time
  <2>2. PICK m \in E : \A n \in E : m <= n
    BY <2>1, LeastNatural
  <2>3. PICK v \in V : m = LastTime - p[v].effective
    OBVIOUS
  <2>4. ASSUME NEW w \in V PROVE p[w].effective <= p[v].effective
    <3>1. LastTime - p[v].effective <= LastTime - p[w].effective
      BY <2>2, <2>3
    <3>2. /\ p[v].effective \in Int /\ p[w].effective \in Int /\ LastTime \in Int
      BY <1>1, RunAssumption DEF Time
    <3> QED
      BY <3>1, <3>2
  <2> QED
    BY <2>3, <2>4 DEF Latest
<1>3. CASE Visible(p, t) # {}
  <2>1. Latest(p, Visible(p, t)) \in SUBSET (1..Len(p)) /\ Latest(p, Visible(p, t)) # {}
    BY <1>1, <1>2, <1>3 DEF Visible
  <2>2. \E m \in Latest(p, Visible(p, t)) : \A n \in Latest(p, Visible(p, t)) : m <= n
    BY <1>1, <2>1, LeastNatural
  <2>3. Min(Latest(p, Visible(p, t))) \in Latest(p, Visible(p, t))
    BY <2>2 DEF Min
  <2> QED
    BY <1>3, <2>1, <2>3 DEF Resolve
<1>4. CASE Visible(p, t) = {}
  <2> DEFINE L == Latest(p, DOMAIN p)
             E == {Len(p) - v : v \in L}
  <2>1. L \in SUBSET (1..Len(p)) /\ L # {}
    <3>1. DOMAIN p \in SUBSET (DOMAIN p) /\ DOMAIN p # {}
      BY <1>1
    <3> QED
      BY <1>1, <1>2, <3>1
  <2>2. E \in SUBSET Nat /\ E # {}
    BY <1>1, <2>1
  <2>3. PICK m \in E : \A n \in E : m <= n
    BY <2>2, LeastNatural
  <2>4. PICK v \in L : m = Len(p) - v
    OBVIOUS
  <2>5. ASSUME NEW w \in L PROVE v >= w
    <3>1. Len(p) - v <= Len(p) - w
      BY <2>3, <2>4
    <3> QED
      BY <1>1, <2>1, <3>1
  <2>6. Max(L) \in L
    BY <2>4, <2>5 DEF Max
  <2> QED
    BY <1>4, <2>1, <2>6 DEF Resolve
<1> QED
  BY <1>3, <1>4

\* An engine that observes a bar holds the bars it had and that one.
LEMMA ObservedHolds ==
  ASSUME NEW h \in Seq(Time), NEW t \in Time
  PROVE  /\ Observed(h, t) \in Seq(Time)
         /\ \A i \in DOMAIN Observed(h, t) :
              Observed(h, t)[i] = t \/ \E j \in DOMAIN h : Observed(h, t)[i] = h[j]
<1> DEFINE S == {i \in DOMAIN h : h[i] <= t}
           n == Cardinality(S)
<1>1. Len(h) \in Nat /\ DOMAIN h = 1..Len(h)
  OBVIOUS
<1>2. IsFiniteSet(1..Len(h)) /\ Cardinality(1..Len(h)) = Len(h)
  BY <1>1, FS_Interval
<1>3. n \in 0..Len(h)
  BY <1>1, <1>2, FS_Subset, FS_CardinalityType
<1> HIDE DEF n
<1> DEFINE before == SubSeq(h, 1, n)
           after == SubSeq(h, n + 1, Len(h))
<1>4. /\ before \in Seq(Time) /\ Len(before) = n
      /\ \A i \in 1..n : before[i] = h[i]
  BY <1>1, <1>3
<1>5. /\ after \in Seq(Time) /\ Len(after) = Len(h) - n
      /\ \A i \in 1..(Len(h) - n) : after[i] = h[n + i]
  BY <1>1, <1>3
<1>6. Observed(h, t) = before \o <<t>> \o after
  BY DEF Observed, n, S
<1> HIDE DEF before, after
<1> DEFINE all == before \o <<t>> \o after
<1>7. /\ all \in Seq(Time) /\ Len(all) = Len(h) + 1
      /\ all[n + 1] = t
  <2> DEFINE first == before \o <<t>>
  <2>1. first \in Seq(Time) /\ Len(first) = n + 1 /\ first[n + 1] = t
    BY <1>3, <1>4
  <2> HIDE DEF first
  <2>2. /\ first \o after \in Seq(Time) /\ Len(first \o after) = Len(h) + 1
        /\ (first \o after)[n + 1] = t
    BY <1>1, <1>3, <1>5, <2>1
  <2> QED
    BY <2>2 DEF first
<1>8. ASSUME NEW i \in DOMAIN all
      PROVE  all[i] = t \/ \E j \in DOMAIN h : all[i] = h[j]
  <2>1. i \in 1..(Len(h) + 1)
    BY <1>1, <1>7
  <2>2. CASE i <= n
    <3>1. all[i] = before[i] /\ i \in 1..n /\ i \in DOMAIN h
      BY <1>1, <1>3, <1>4, <1>5, <2>1, <2>2
    <3> QED
      BY <1>4, <3>1
  <2>3. CASE i > n + 1
    <3>1. i - (n + 1) \in 1..(Len(h) - n) /\ n + (i - (n + 1)) = i - 1 /\ i - 1 \in DOMAIN h
      BY <1>1, <1>3, <2>1, <2>3
    <3>2. all[i] = after[i - (n + 1)]
      BY <1>1, <1>3, <1>4, <1>5, <2>1, <2>3
    <3>3. after[i - (n + 1)] = h[n + (i - (n + 1))]
      BY <1>5, <3>1
    <3> QED
      BY <3>1, <3>2, <3>3
  <2>4. CASE i = n + 1
    BY <1>7, <2>4
  <2> QED
    BY <1>3, <2>1, <2>2, <2>3, <2>4
<1> QED
  BY <1>6, <1>7, <1>8

\* A window of full length is a part of the bars of its engine.
LEMMA WindowIsPart ==
  ASSUME NEW h \in Seq(Time), Len(h) >= Lookback
  PROVE  /\ Window(h) \in Seq(Time)
         /\ \A i \in DOMAIN Window(h) : \E j \in DOMAIN h : Window(h)[i] = h[j]
<1> DEFINE m == Len(h) - Lookback + 1
<1>1. Len(h) \in Nat /\ DOMAIN h = 1..Len(h) /\ m \in 1..Len(h) /\ Len(h) - m + 1 = Lookback
  BY RunAssumption
<1> HIDE DEF m
<1>2. /\ SubSeq(h, m, Len(h)) \in Seq(Time)
      /\ Len(SubSeq(h, m, Len(h))) = Len(h) - m + 1
      /\ \A i \in 1..(Len(h) - m + 1) : SubSeq(h, m, Len(h))[i] = h[m + i - 1]
  BY <1>1
<1>3. \A i \in 1..(Len(h) - m + 1) : m + i - 1 \in DOMAIN h
  BY <1>1
<1> QED
  BY <1>2, <1>3 DEF Window, m

-----------------------------------------------------------------------------
(* Types *)

\* The input is one that the run may be given, and stays.
InputsInv == /\ \A u \in UniverseId : published[u] \in Seq(Snapshot)
             /\ given \in Inputs
             /\ strategyOf \in Assignments

\* A run that has begun has found all of its universes, unless it says so.
UniversesAreKnown ==
  status \notin {"new", "unknown"} => \A b \in Binding : ~Unknown(b)

\* The bar that is worked on is one of those taken; a binding is at it.
LoopInv ==
  /\ status \in {"saving", "switching", "counting", "binding"} =>
       bar \in Key /\ clock = bar[1] /\ taken[bar] \in 1..Len(given[bar])
  /\ status = "binding" => todo \in Binding

\* What the next bar is compared with is not after any bar that is left.
BarsComeInOrder ==
  /\ lastTime <= clock
  /\ \A k \in Waiting : lastTime <= k[1]

TypeInv == InputsInv /\ TypeOK /\ UniversesAreKnown /\ LoopInv /\ BarsComeInOrder

-----------------------------------------------------------------------------
(* The invariants *)

\* No bar reaches the scheduler out of order: the branch of advance_to_bar that
\* leaves the clock behind is never taken.
NoBarIsOutOfOrder == outOfOrder = 0

\* A bar is offered to the bindings after it is stored.
BarIsStored == status \in {"switching", "counting", "binding"} => stored[bar] # NoBar

\* What an engine holds is stored, and not after the clock.
EnginesHoldThePast ==
  \A b \in Binding, s \in Symbol : \A i \in DOMAIN history[<<b, s>>] :
    /\ history[<<b, s>>][i] <= clock
    /\ stored[<<history[<<b, s>>][i], s>>] # NoBar

PastInv == BarIsStored /\ EnginesHoldThePast /\ DecisionsUseThePastOnly

\* Has binding b been offered the bar of key k, if its strategy made a signal of it?
Offered(b, k) ==
  /\ taken[k] > 0
  /\ status \in {"saving", "switching", "counting"} => k # bar
  /\ status = "binding" /\ k = bar => b < todo

Distinct == /\ \A b, c \in Binding : strategyOf[b] = strategyOf[c] => b = c
            /\ \A k \in Key : Len(given[k]) <= 1

SignalsAreOfOfferedBars ==
  \A e \in signals : \E b \in Binding :
    e.id.strategy = strategyOf[b] /\ Offered(b, <<e.id.time, e.id.symbol>>)

DistinctInv ==
  Distinct => /\ status # "refused"
              /\ IsFiniteSet(signals)
              /\ generated = Cardinality(signals)
              /\ SignalsAreOfOfferedBars

-----------------------------------------------------------------------------
(* Types are kept *)

\* The orchestrator starts with what is typed.
LEMMA InitTypes == ASSUME Init PROVE TypeInv
<1>1. InputsInv
  BY InputAssumption DEF Init, InputsInv
<1>2. ASSUME NEW k \in Key PROVE Len(given[k]) \in Nat
  BY InputAssumption DEF Init
<1>3. TypeOK
  BY <1>1, <1>2, RunAssumption DEF Init, TypeOK, Status, Key, Time, InputsInv, SignalEvent
<1>4. UniversesAreKnown /\ LoopInv
  BY DEF Init, UniversesAreKnown, LoopInv
<1>5. BarsComeInOrder
  BY RunAssumption DEF Init, BarsComeInOrder, Waiting, Key, Time
<1> QED
  BY <1>1, <1>3, <1>4, <1>5 DEF TypeInv

\* The slots of known universes are of bindings and symbols.
LEMMA SlotsAreOfSymbols ==
  ASSUME InputsInv, NEW B \in SUBSET Binding, \A b \in B : ~Unknown(b),
         NEW t \in Time
  PROVE  SlotsOf(B, t) \subseteq Binding \X Symbol
<1>1. ASSUME NEW b \in B PROVE SymbolsAt(b, t) \subseteq Symbol
  <2> DEFINE p == Snapshots(b)
  <2>1. p \in Seq(Snapshot) /\ p # <<>>
    BY RunAssumption DEF InputsInv, Snapshots, Unknown
  <2> HIDE DEF p
  <2>2. Resolve(p, t) \in 1..Len(p)
    BY <2>1, ResolvesToVersion
  <2>3. p[Resolve(p, t)] \in Snapshot
    BY <2>1, <2>2
  <2> QED
    BY <2>3 DEF SymbolsAt, Snapshot, p
<1> QED
  BY <1>1 DEF SlotsOf, Slot

\* Slots and history are made for every binding and symbol.
LEMMA InitializeTypes ==
  ASSUME TypeInv, Initialize
  PROVE  TypeInv'
<1> DEFINE reached == {b \in Binding : \A c \in 1..b : ~Unknown(c)}
<1> USE DEF TypeInv
<1>1. FromTime \in Time /\ InputsInv'
  BY RunAssumption DEF Initialize, inputs, InputsInv
<1>2. \A b \in reached : ~Unknown(b)
  BY RunAssumption DEF Binding
<1>3. slots' \subseteq Binding \X Symbol
  BY <1>1, <1>2, SlotsAreOfSymbols DEF Initialize
<1>4. ASSUME NEW b \in Binding PROVE versions'[b] \in 0..Len(Snapshots(b))
  <2>1. Snapshots(b) \in Seq(Snapshot)
    BY RunAssumption DEF InputsInv, Snapshots
  <2>2. b \in reached => Resolve(Snapshots(b), FromTime) \in 1..Len(Snapshots(b))
    BY <1>1, <1>2, <2>1, ResolvesToVersion DEF Unknown
  <2> QED
    BY <2>1, <2>2 DEF Initialize
<1>5. status' \in {"sorted", "unknown"}
  BY DEF Initialize
<1>6. TypeOK'
  BY <1>3, <1>4, <1>5 DEF Initialize, TypeOK, Snapshots, Status, inputs, scheduler
<1>7. UniversesAreKnown'
  BY <1>2 DEF Initialize, inputs, UniversesAreKnown, Unknown, Snapshots
<1>8. LoopInv' /\ BarsComeInOrder'
  BY <1>5 DEF Initialize, inputs, scheduler, LoopInv, BarsComeInOrder, Waiting
<1> QED
  BY <1>1, <1>6, <1>7, <1>8

\* The next bar is not before the clock of the scheduler; if it is before the
\* virtual clock, the run ends.
LEMMA TakeBarTypes ==
  ASSUME TypeInv, NEW k \in Key, TakeBar(k)
  PROVE  TypeInv' /\ outOfOrder' = outOfOrder
<1> USE DEF TypeInv
<1>1. /\ k[1] \in Time /\ lastTime \in Time /\ clock \in FromTime..LastTime
      /\ FromTime \in Time /\ lastTime <= k[1]
  BY RunAssumption DEF TakeBar, IsNext, BarsComeInOrder, TypeOK, Key
<1>2. taken[k] \in 0..Len(given[k]) /\ taken[k] < Len(given[k]) /\ Len(given[k]) \in Nat
  BY InputAssumption DEF TakeBar, IsNext, Waiting, TypeOK, InputsInv
<1>3. \/ status' = "early" /\ UNCHANGED scheduler
      \/ /\ status' = "saving" /\ clock <= k[1]
         /\ clock' = k[1] /\ lastTime' = k[1] /\ UNCHANGED outOfOrder
  BY <1>1 DEF TakeBar, AdvanceToBar, MovesBack, Time
<1>4. \A l \in Key : taken'[l] = IF l = k THEN taken[k] + 1 ELSE taken[l]
  BY DEF TakeBar, TypeOK
<1>5. taken' \in [Key -> Nat] /\ \A l \in Key : taken'[l] <= Len(given[l])
  <2>1. taken' \in [Key -> Nat]
    BY DEF TakeBar, TypeOK
  <2>2. ASSUME NEW l \in Key PROVE taken'[l] <= Len(given[l])
    BY <1>2, <1>4 DEF TypeOK
  <2> QED
    BY <2>1, <2>2
<1>6. InputsInv'
  BY DEF TakeBar, inputs, InputsInv
<1>7. TypeOK'
  <2>1. /\ status' \in Status /\ bar' \in Key /\ lastTime' \in Time /\ outOfOrder' \in Nat
        /\ clock' \in FromTime..LastTime
    BY <1>1, <1>3, RunAssumption DEF TakeBar, TypeOK, Status, scheduler, Time
  <2>2. UNCHANGED <<given, published, todo, stored, versions, slots, history, counts, changes,
                    signals, generated>>
    BY DEF TakeBar, inputs, state
  <2> QED
    BY <1>5, <2>1, <2>2 DEF TypeOK, Snapshots
<1>8. UniversesAreKnown' /\ LoopInv'
  BY <1>2, <1>3, <1>4 DEF TakeBar, UniversesAreKnown, Unknown, Snapshots, LoopInv, inputs
<1>9. Waiting' \subseteq Waiting
  BY <1>2, <1>4 DEF TakeBar, Waiting, inputs, TypeOK
<1>10. BarsComeInOrder'
  <2>1. \A l \in Waiting : k[1] <= l[1]
    BY <1>1 DEF TakeBar, IsNext, Waiting, Key, Time
  <2> QED
    BY <1>1, <1>3, <1>9, <2>1 DEF BarsComeInOrder, scheduler, Time
<1> QED
  BY <1>3, <1>6, <1>7, <1>8, <1>10 DEF scheduler

\* save_bar stores the bar, or ends the run; what is stored stays.
LEMMA SaveBarTypes ==
  ASSUME TypeInv, SaveBar
  PROVE  /\ TypeInv'
         /\ status' = "switching" => stored'[bar] # NoBar
         /\ \A k \in Key : stored[k] # NoBar => stored'[k] # NoBar
<1> USE DEF TypeInv
<1> DEFINE content == given[bar][taken[bar]]
<1>1. /\ bar \in Key /\ clock = bar[1] /\ taken[bar] \in 1..Len(given[bar])
      /\ DOMAIN given[bar] = 1..Len(given[bar]) /\ content # NoBar
  <2>1. bar \in Key /\ clock = bar[1] /\ taken[bar] \in 1..Len(given[bar]) /\ given \in Inputs
    BY DEF SaveBar, LoopInv, InputsInv
  <2>2. DOMAIN given[bar] = 1..Len(given[bar]) /\ \A i \in DOMAIN given[bar] : given[bar][i] # NoBar
    <3>1. given[bar] = [i \in 1..Len(given[bar]) |-> given[bar][i]]
      BY <2>1, InputAssumption, Zenon
    <3>2. DOMAIN [i \in 1..Len(given[bar]) |-> given[bar][i]] = 1..Len(given[bar])
      OBVIOUS
    <3> QED
      BY <2>1, <3>1, <3>2, InputAssumption, Zenon
  <2> QED
    BY <2>1, <2>2
<1>2. \A k \in Key : stored'[k] = IF k = bar /\ status' = "switching" THEN content ELSE stored[k]
  BY <1>1 DEF SaveBar, TypeOK
<1>3. status' \in {"switching", "revised"}
  BY DEF SaveBar
<1>4. TypeOK'
  <2>1. \A k \in Key : stored'[k] = NoBar \/ \E i \in DOMAIN given[k] : stored'[k] = given[k][i]
    BY <1>1, <1>2 DEF TypeOK
  <2> QED
    BY <1>3, <2>1 DEF SaveBar, TypeOK, Snapshots, Status, inputs, scheduler, state
<1>5. InputsInv' /\ UniversesAreKnown' /\ LoopInv' /\ BarsComeInOrder'
  BY <1>1, <1>3 DEF SaveBar, inputs, scheduler, InputsInv, UniversesAreKnown, Unknown, Snapshots, LoopInv,
                    BarsComeInOrder, Waiting
<1> QED
  BY <1>1, <1>2, <1>4, <1>5

\* Finding the universes touches the program counter only.
LEMMA CheckUniversesTypes ==
  ASSUME TypeInv, CheckUniverses
  PROVE  TypeInv'
<1> USE DEF TypeInv
<1> DEFINE changed == {b \in Binding : Resolve(Snapshots(b), clock) # versions[b]}
<1>1. /\ clock \in Time
      /\ \A b \in Binding : ~Unknown(b) /\ Snapshots(b) \in Seq(Snapshot)
  BY RunAssumption DEF CheckUniverses, TypeOK, Snapshots, UniversesAreKnown, InputsInv, Time
<1>2. slots' \subseteq Binding \X Symbol
  BY <1>1, SlotsAreOfSymbols DEF CheckUniverses, NewSlots, TypeOK
<1>3. \A b \in Binding : versions'[b] \in 0..Len(Snapshots(b))
  BY <1>1, ResolvesToVersion DEF CheckUniverses, Unknown
<1>4. Cardinality(changed) \in Nat
  <2>1. IsFiniteSet(Binding)
    BY RunAssumption, FS_Interval DEF Binding
  <2> QED
    BY <2>1, FS_Subset, FS_CardinalityType
<1>5. changes' \in Nat
  BY <1>4 DEF CheckUniverses, TypeOK
<1>6. TypeOK'
  BY <1>2, <1>3, <1>5 DEF CheckUniverses, TypeOK, Snapshots, Status, inputs, scheduler
<1>7. InputsInv' /\ UniversesAreKnown' /\ LoopInv' /\ BarsComeInOrder'
  BY DEF CheckUniverses, inputs, scheduler, InputsInv, UniversesAreKnown, Unknown, Snapshots, LoopInv,
         BarsComeInOrder, Waiting
<1> QED
  BY <1>6, <1>7

\* The counting of a bar leaves what was read and stored.
LEMMA CountBarTypes ==
  ASSUME TypeInv, CountBar
  PROVE  TypeInv'
<1> USE DEF TypeInv
<1>1. bar[2] \in Symbol
  BY DEF CountBar, LoopInv, Key
<1>2. counts' \in [Symbol -> Nat]
  BY <1>1 DEF CountBar, TypeOK
<1>3. TypeOK'
  BY <1>2, RunAssumption DEF CountBar, TypeOK, Snapshots, Status, inputs, scheduler
<1>4. InputsInv' /\ UniversesAreKnown' /\ LoopInv' /\ BarsComeInOrder'
  BY RunAssumption DEF CountBar, inputs, scheduler, InputsInv, UniversesAreKnown, Unknown, Snapshots, LoopInv,
         BarsComeInOrder, Waiting, Binding
<1> QED
  BY <1>3, <1>4

\* The next binding has the same bar; after the last one the loop goes on.
LEMMA GoOnGoesOn ==
  ASSUME TypeInv, status = "binding", GoOn
  PROVE  /\ todo \in Binding /\ todo' \in 0..Bindings
         /\ \/ status' = "binding" /\ todo' = todo + 1 /\ todo' \in Binding
            \/ status' = "sorted"
BY RunAssumption DEF TypeInv, LoopInv, GoOn, Binding

\* A binding that does not take the bar is passed over.
LEMMA SkipBindingTypes ==
  ASSUME TypeInv, SkipBinding
  PROVE  TypeInv'
<1> USE DEF TypeInv
<1>1. /\ status = "binding" /\ todo' \in 0..Bindings
      /\ (status' = "binding" /\ todo' \in Binding) \/ status' = "sorted"
  BY GoOnGoesOn DEF SkipBinding
<1>2. TypeOK'
  BY <1>1 DEF SkipBinding, TypeOK, Snapshots, Status, inputs, scheduler, state
<1>3. InputsInv' /\ UniversesAreKnown' /\ LoopInv' /\ BarsComeInOrder'
  BY <1>1 DEF SkipBinding, inputs, scheduler, InputsInv, UniversesAreKnown, Unknown, Snapshots, LoopInv,
         BarsComeInOrder, Waiting
<1> QED
  BY <1>2, <1>3

\* What process_binding leaves: the window, the event if there is one, and where
\* the run goes on.
LEMMA ProcessBindingEffect ==
  ASSUME TypeInv, ProcessBinding
  PROVE  LET seen == Observed(history[Slot(todo, bar[2])], bar[1])
             event == [id |-> IdOf(todo, bar, Decide(bar[2], Window(seen))),
                       window |-> Window(seen)] IN
         /\ todo \in Binding /\ bar \in Key /\ seen \in Seq(Time)
         /\ \A c \in Binding \X Symbol :
              history'[c] = IF c = Slot(todo, bar[2]) THEN seen ELSE history[c]
         /\ \/ /\ ~HasCandidate(seen, bar[2])
               /\ UNCHANGED <<signals, generated>> /\ GoOn
            \/ /\ \E e \in signals : e.id = event.id /\ e # event
               /\ status' = "refused" /\ UNCHANGED <<todo, signals, generated>>
            \/ /\ HasCandidate(seen, bar[2])
               /\ ~ \E e \in signals : e.id = event.id /\ e # event
               /\ event \in SignalEvent
               /\ signals' = signals \cup {event} /\ generated' = generated + 1
               /\ GoOn
<1> USE DEF TypeInv
<1> DEFINE slot == Slot(todo, bar[2])
           seen == Observed(history[slot], bar[1])
           event == [id |-> IdOf(todo, bar, Decide(bar[2], Window(seen))),
                     window |-> Window(seen)]
<1>1. todo \in Binding /\ bar \in Key /\ bar[1] \in Time /\ bar[2] \in Symbol
  BY DEF ProcessBinding, LoopInv, Key
<1>2. slot \in Binding \X Symbol /\ history[slot] \in Seq(Time)
  BY <1>1 DEF Slot, TypeOK
<1>3. seen \in Seq(Time)
  BY <1>1, <1>2, ObservedHolds
<1>4. \A c \in Binding \X Symbol :
        history'[c] = IF c = slot THEN seen ELSE history[c]
  BY <1>2 DEF ProcessBinding, TypeOK
<1>5. ASSUME HasCandidate(seen, bar[2]) PROVE event \in SignalEvent
  <2>1. Window(seen) \in Seq(Time) /\ Decide(bar[2], Window(seen)) \in Direction
    BY <1>3, <1>5, WindowIsPart DEF HasCandidate
  <2>2. strategyOf[todo] \in UNION {{a[b] : b \in Binding} : a \in Assignments}
    BY <1>1 DEF InputsInv
  <2>3. event.id \in SignalId
    BY <1>1, <2>1, <2>2 DEF IdOf, SignalId
  <2> QED
    BY <2>1, <2>3 DEF SignalEvent
<1> HIDE DEF seen, slot
<1>6. IF HasCandidate(seen, bar[2]) THEN AppendSignal(event)
      ELSE GoOn /\ UNCHANGED <<signals, generated>>
  BY DEF ProcessBinding, seen, slot
<1> HIDE DEF event
<1>7. \/ ~HasCandidate(seen, bar[2]) /\ UNCHANGED <<signals, generated>> /\ GoOn
      \/ /\ \E e \in signals : e.id = event.id /\ e # event
         /\ status' = "refused" /\ UNCHANGED <<todo, signals, generated>>
      \/ /\ HasCandidate(seen, bar[2])
         /\ ~ \E e \in signals : e.id = event.id /\ e # event
         /\ event \in SignalEvent
         /\ signals' = signals \cup {event} /\ generated' = generated + 1
         /\ GoOn
  BY <1>5, <1>6 DEF AppendSignal
<1> QED
  BY <1>1, <1>3, <1>4, <1>7 DEF event, seen, slot

\* The slot of a bar that is in order grows at its end, or in the middle.
LEMMA ProcessBindingTypes ==
  ASSUME TypeInv, ProcessBinding
  PROVE  TypeInv'
<1> DEFINE seen == Observed(history[Slot(todo, bar[2])], bar[1])
           event == [id |-> IdOf(todo, bar, Decide(bar[2], Window(seen))),
                     window |-> Window(seen)]
<1>1. /\ todo \in Binding /\ bar \in Key /\ seen \in Seq(Time)
      /\ \A c \in Binding \X Symbol :
           history'[c] = IF c = Slot(todo, bar[2]) THEN seen ELSE history[c]
      /\ \/ UNCHANGED <<signals, generated>> /\ GoOn
         \/ status' = "refused" /\ UNCHANGED <<todo, signals, generated>>
         \/ /\ event \in SignalEvent
            /\ signals' = signals \cup {event} /\ generated' = generated + 1
            /\ GoOn
  BY ProcessBindingEffect
<1> HIDE DEF seen, event
<1>2. /\ todo' \in 0..Bindings
      /\ \/ status' = "binding" /\ todo' \in Binding
         \/ status' \in {"sorted", "refused"}
  <2>1. CASE GoOn
    BY <2>1, GoOnGoesOn DEF ProcessBinding
  <2>2. CASE ~GoOn
    BY <1>1, <2>2 DEF TypeInv, TypeOK
  <2> QED
    BY <2>1, <2>2
<1> USE DEF TypeInv
<1>3. signals' \subseteq SignalEvent /\ generated' \in Nat
  BY <1>1 DEF TypeOK
<1>4. history' \in [Binding \X Symbol -> Seq(Time)]
  <2>1. DOMAIN history' = Binding \X Symbol
    BY DEF ProcessBinding, TypeOK
  <2>2. \A c \in Binding \X Symbol : history'[c] \in Seq(Time)
    BY <1>1 DEF TypeOK
  <2>3. history' = [c \in DOMAIN history' |-> history'[c]]
    BY DEF ProcessBinding
  <2> QED
    BY <2>1, <2>2, <2>3
<1>5. slots' \subseteq Binding \X Symbol
  BY <1>1 DEF ProcessBinding, TypeOK, Slot, Key
<1>6. TypeOK'
  BY <1>2, <1>3, <1>4, <1>5 DEF ProcessBinding, TypeOK, Snapshots, Status, inputs, scheduler
<1>7. InputsInv' /\ UniversesAreKnown' /\ LoopInv' /\ BarsComeInOrder'
  BY <1>2 DEF ProcessBinding, inputs, scheduler, InputsInv, UniversesAreKnown, Unknown, Snapshots, LoopInv,
         BarsComeInOrder, Waiting
<1> QED
  BY <1>6, <1>7

\* What is returned has been read.
LEMMA FinishTypes ==
  ASSUME TypeInv, Finish
  PROVE  TypeInv'
BY DEF TypeInv, Finish, inputs, scheduler, state, InputsInv, TypeOK, Status, UniversesAreKnown,
       Unknown, Snapshots, LoopInv, BarsComeInOrder, Waiting

\* Nothing changes.
LEMMA StutterTypes ==
  ASSUME TypeInv, UNCHANGED vars
  PROVE  TypeInv'
BY DEF TypeInv, vars, loop, inputs, scheduler, state, InputsInv, TypeOK, UniversesAreKnown,
       Unknown, Snapshots, LoopInv, BarsComeInOrder, Waiting

\* Every step keeps the types, what is known of the loop, and the order of the bars.
LEMMA NextTypes ==
  ASSUME TypeInv, [Next]_vars
  PROVE  TypeInv'
BY InitializeTypes, TakeBarTypes, SaveBarTypes, CheckUniversesTypes, CountBarTypes,
   SkipBindingTypes, ProcessBindingTypes, FinishTypes, StutterTypes DEF Next

\* The run, its stores and its counters are of their types, for any bars,
\* universes and bindings; and the scheduler never meets a bar that is out of
\* order, because the orchestrator sorts them.
THEOREM TypeCorrect == Spec => [](TypeOK /\ NoBarIsOutOfOrder)
<1>1. Init => TypeInv /\ NoBarIsOutOfOrder
  BY InitTypes DEF Init, NoBarIsOutOfOrder
<1>2. TypeInv /\ NoBarIsOutOfOrder /\ [Next]_vars => (TypeInv /\ NoBarIsOutOfOrder)'
  <2> SUFFICES ASSUME TypeInv, NoBarIsOutOfOrder, [Next]_vars
               PROVE  TypeInv' /\ outOfOrder' = outOfOrder
    BY DEF NoBarIsOutOfOrder
  <2>1. outOfOrder' = outOfOrder
    BY TakeBarTypes DEF Next, Initialize, SaveBar, CheckUniverses, CountBar, SkipBinding,
                        ProcessBinding, Finish, scheduler, vars
  <2> QED
    BY <2>1, NextTypes
<1>3. TypeInv => TypeOK
  BY DEF TypeInv
<1> QED
  BY <1>1, <1>2, <1>3, PTL DEF Spec

-----------------------------------------------------------------------------
(* Only the past is looked at *)

\* Nothing has been decided yet.
LEMMA InitPast == ASSUME Init PROVE PastInv
BY RunAssumption DEF Init, PastInv, BarIsStored, EnginesHoldThePast, DecisionsUseThePastOnly

\* What an engine and a stored signal hold stays good when time goes on and
\* more bars are stored.
LEMMA PastStays ==
  ASSUME TypeInv, PastInv, TypeInv', clock <= clock', UNCHANGED <<history, signals>>,
         \A k \in Key : stored[k] # NoBar => stored'[k] # NoBar
  PROVE  EnginesHoldThePast' /\ DecisionsUseThePastOnly'
<1> USE DEF TypeInv, PastInv
<1>1. ASSUME NEW b \in Binding, NEW s \in Symbol, NEW i \in DOMAIN history[<<b, s>>]
      PROVE  history[<<b, s>>][i] <= clock' /\ stored'[<<history[<<b, s>>][i], s>>] # NoBar
  <2>1. history[<<b, s>>][i] \in Time
    BY DEF TypeOK
  <2>2. history[<<b, s>>][i] <= clock /\ stored[<<history[<<b, s>>][i], s>>] # NoBar
    BY DEF EnginesHoldThePast
  <2>3. clock \in Int /\ clock' \in Int /\ history[<<b, s>>][i] \in Int
    BY <2>1, RunAssumption DEF TypeOK, Time
  <2> QED
    BY <2>1, <2>2, <2>3 DEF Key
<1>2. ASSUME NEW e \in signals, NEW i \in DOMAIN e.window
      PROVE  e.window[i] <= e.id.time /\ stored'[<<e.window[i], e.id.symbol>>] # NoBar
  <2>1. e.window[i] \in Time /\ e.id.symbol \in Symbol
    BY DEF TypeOK, SignalEvent, SignalId
  <2>2. e.window[i] <= e.id.time /\ stored[<<e.window[i], e.id.symbol>>] # NoBar
    BY DEF DecisionsUseThePastOnly
  <2> QED
    BY <2>1, <2>2 DEF Key
<1> QED
  BY <1>1, <1>2 DEF EnginesHoldThePast, DecisionsUseThePastOnly

\* The bar that is taken has been offered to no binding.
LEMMA TakeBarPast ==
  ASSUME TypeInv, PastInv, NEW k \in Key, TakeBar(k), TypeInv'
  PROVE  PastInv'
<1>1. clock <= clock' /\ status' \in {"early", "saving"}
  <2>1. /\ k[1] \in Time /\ lastTime \in Time /\ clock \in Nat
    BY RunAssumption DEF TypeInv, TypeOK, Key, Time
  <2>2. lastTime <= k[1]
    BY DEF TakeBar, IsNext, TypeInv, BarsComeInOrder
  <2> QED
    BY <2>1, <2>2 DEF TakeBar, AdvanceToBar, MovesBack, scheduler, Time
<1>2. UNCHANGED <<history, signals, stored>>
  BY DEF TakeBar, state
<1> QED
  BY <1>1, <1>2, PastStays DEF PastInv, BarIsStored

\* A bar is stored before it is offered.
LEMMA SaveBarPast ==
  ASSUME TypeInv, PastInv, SaveBar, TypeInv'
  PROVE  PastInv'
<1>1. clock <= clock' /\ UNCHANGED <<bar, history, signals>> /\ status' \in {"switching", "revised"}
  BY RunAssumption DEF SaveBar, scheduler, state, TypeInv, TypeOK, Time
<1> QED
  BY <1>1, SaveBarTypes, PastStays DEF PastInv, BarIsStored

\* A step that changes neither bars, engines, signals nor the clock.
LEMMA OtherPast ==
  ASSUME TypeInv, PastInv, TypeInv', UNCHANGED <<bar, clock, stored, history, signals>>,
         status' \in {"switching", "counting", "binding"} =>
           status \in {"switching", "counting", "binding"}
  PROVE  PastInv'
<1>1. clock <= clock'
  BY RunAssumption DEF TypeInv, TypeOK, Time
<1> QED
  BY <1>1, PastStays DEF PastInv, BarIsStored

\* A binding looks at the bars its engine had and at the bar it is offered,
\* which is stored.
LEMMA ProcessBindingPast ==
  ASSUME TypeInv, PastInv, ProcessBinding, TypeInv'
  PROVE  PastInv'
<1> DEFINE slot == Slot(todo, bar[2])
           seen == Observed(history[slot], bar[1])
           event == [id |-> IdOf(todo, bar, Decide(bar[2], Window(seen))),
                     window |-> Window(seen)]
<1>1. /\ todo \in Binding /\ bar \in Key /\ seen \in Seq(Time)
      /\ \A c \in Binding \X Symbol : history'[c] = IF c = slot THEN seen ELSE history[c]
      /\ \/ signals' = signals
         \/ HasCandidate(seen, bar[2]) /\ signals' = signals \cup {event}
  <2>1. /\ todo \in Binding /\ bar \in Key /\ seen \in Seq(Time)
        /\ \A c \in Binding \X Symbol : history'[c] = IF c = slot THEN seen ELSE history[c]
        /\ \/ UNCHANGED <<signals, generated>>
           \/ HasCandidate(seen, bar[2]) /\ signals' = signals \cup {event}
    BY ProcessBindingEffect
  <2> HIDE DEF seen, event
  <2> QED
    BY <2>1
<1>2. /\ clock = bar[1] /\ stored[bar] # NoBar /\ status = "binding"
      /\ bar[1] \in Time /\ bar[2] \in Symbol /\ bar = <<bar[1], bar[2]>>
  BY <1>1 DEF ProcessBinding, TypeInv, LoopInv, PastInv, BarIsStored, Key
<1>3. slot \in Binding \X Symbol /\ history[slot] \in Seq(Time)
  BY <1>1, <1>2 DEF Slot, TypeInv, TypeOK
<1>4. ASSUME NEW i \in DOMAIN seen
      PROVE  seen[i] <= clock /\ stored[<<seen[i], bar[2]>>] # NoBar
  <2>1. CASE seen[i] = bar[1]
    BY <1>2, <2>1 DEF Time
  <2>2. CASE \E j \in DOMAIN history[slot] : seen[i] = history[slot][j]
    BY <1>1, <1>2, <2>2 DEF PastInv, EnginesHoldThePast, Slot
  <2> HIDE DEF slot
  <2>3. seen[i] = bar[1] \/ \E j \in DOMAIN history[slot] : seen[i] = history[slot][j]
    BY <1>2, <1>3, ObservedHolds
  <2> QED
    BY <2>1, <2>2, <2>3
<1>5. UNCHANGED <<bar, clock, stored>>
  BY DEF ProcessBinding, scheduler
<1> HIDE DEF seen
<1>6. EnginesHoldThePast'
  <2>1. ASSUME NEW b \in Binding, NEW s \in Symbol, NEW i \in DOMAIN history'[<<b, s>>]
        PROVE  history'[<<b, s>>][i] <= clock /\ stored[<<history'[<<b, s>>][i], s>>] # NoBar
    <3>1. CASE <<b, s>> = slot
      <4>1. s = bar[2] /\ history'[<<b, s>>] = seen
        BY <1>1, <3>1 DEF Slot
      <4> QED
        BY <1>4, <2>1, <4>1
    <3>2. CASE <<b, s>> # slot
      BY <1>1, <3>2 DEF PastInv, EnginesHoldThePast
    <3> QED
      BY <3>1, <3>2
  <2> QED
    BY <1>5, <2>1 DEF EnginesHoldThePast
<1>7. ASSUME HasCandidate(seen, bar[2]), NEW i \in DOMAIN event.window
      PROVE  event.window[i] <= event.id.time /\ stored[<<event.window[i], event.id.symbol>>] # NoBar
  <2>1. PICK j \in DOMAIN seen : Window(seen)[i] = seen[j]
    BY <1>1, <1>7, WindowIsPart DEF HasCandidate
  <2> QED
    BY <1>2, <1>4, <2>1 DEF IdOf
<1> HIDE DEF event
<1>8. DecisionsUseThePastOnly'
  BY <1>1, <1>5, <1>7 DEF PastInv, DecisionsUseThePastOnly
<1>9. BarIsStored'
  BY <1>2, <1>5 DEF BarIsStored
<1> QED
  BY <1>6, <1>8, <1>9 DEF PastInv

\* Nothing but the past stays looked at.
LEMMA PastKept ==
  ASSUME TypeInv, PastInv, [Next]_vars
  PROVE  PastInv'
<1>1. TypeInv'
  BY NextTypes
<1>2. CASE Initialize
  BY <1>1, <1>2, OtherPast DEF Initialize, scheduler
<1>3. ASSUME NEW k \in Key, TakeBar(k) PROVE PastInv'
  BY <1>1, <1>3, TakeBarPast
<1>4. CASE SaveBar
  BY <1>1, <1>4, SaveBarPast
<1>5. CASE CheckUniverses
  BY <1>1, <1>5, OtherPast DEF CheckUniverses, scheduler
<1>6. CASE CountBar
  BY <1>1, <1>6, OtherPast DEF CountBar, scheduler
<1>7. CASE SkipBinding
  BY <1>1, <1>7, OtherPast DEF SkipBinding, scheduler, state
<1>8. CASE ProcessBinding
  BY <1>1, <1>8, ProcessBindingPast
<1>9. CASE Finish
  BY <1>1, <1>9, OtherPast DEF Finish, scheduler, state
<1>10. CASE UNCHANGED vars
  BY <1>1, <1>10, OtherPast DEF vars, loop, scheduler, state
<1> QED
  BY <1>2, <1>3, <1>4, <1>5, <1>6, <1>7, <1>8, <1>9, <1>10 DEF Next

\* IF a signal is stored THEN its window is of bars up to its own time, each of
\* them stored, whatever the list of bars and the universes were: nothing later
\* can have been looked at.
THEOREM DecisionsUseThePast == Spec => []DecisionsUseThePastOnly
<1>1. Init => TypeInv /\ PastInv
  BY InitTypes, InitPast
<1>2. TypeInv /\ PastInv /\ [Next]_vars => (TypeInv /\ PastInv)'
  BY NextTypes, PastKept
<1>3. PastInv => DecisionsUseThePastOnly
  BY DEF PastInv
<1> QED
  BY <1>1, <1>2, <1>3, PTL DEF Spec

-----------------------------------------------------------------------------
(* Different strategies do not meet *)

\* No signal has an identity yet.
LEMMA InitDistinct == ASSUME Init PROVE DistinctInv
BY FS_EmptySet DEF Init, DistinctInv, SignalsAreOfOfferedBars

\* A step that makes no signal, and after which every bar is offered as before.
LEMMA OtherDistinct ==
  ASSUME TypeInv, DistinctInv, UNCHANGED <<given, strategyOf, signals, generated>>,
         status' # "refused",
         \A b \in Binding, k \in Key : Distinct /\ Offered(b, k) => Offered(b, k)'
  PROVE  DistinctInv'
<1>1. Distinct' => Distinct
  BY DEF Distinct
<1>2. ASSUME Distinct, SignalsAreOfOfferedBars
      PROVE  SignalsAreOfOfferedBars'
  <2>1. ASSUME NEW e \in signals
        PROVE  \E b \in Binding :
                 e.id.strategy = strategyOf[b] /\ Offered(b, <<e.id.time, e.id.symbol>>)'
    <3>1. <<e.id.time, e.id.symbol>> \in Key
      BY DEF TypeInv, TypeOK, SignalEvent, SignalId, Key
    <3> QED
      BY <1>2, <3>1 DEF SignalsAreOfOfferedBars
  <2> QED
    BY <2>1 DEF SignalsAreOfOfferedBars, Offered
<1> QED
  BY <1>1, <1>2 DEF DistinctInv

\* A step that takes no bar and offers none to a binding.
LEMMA QuietDistinct ==
  ASSUME TypeInv, DistinctInv, UNCHANGED <<given, strategyOf, signals, generated, taken, bar>>,
         status' # "refused",
         status' \in {"saving", "switching", "counting", "binding"} =>
           status \in {"saving", "switching", "counting"}
  PROVE  DistinctInv'
<1>1. \A b \in Binding, k \in Key : Distinct /\ Offered(b, k) => Offered(b, k)'
  BY DEF Offered
<1> QED
  BY <1>1, OtherDistinct

\* A bar that is taken has not been taken before: no key has two.
LEMMA TakeBarDistinct ==
  ASSUME TypeInv, DistinctInv, NEW k \in Key, TakeBar(k)
  PROVE  DistinctInv'
<1>1. taken[k] \in Nat /\ taken[k] < Len(given[k]) /\ Len(given[k]) \in Nat
  BY InputAssumption DEF TakeBar, IsNext, Waiting, TypeInv, TypeOK, InputsInv
<1>2. Distinct => taken[k] = 0
  BY <1>1 DEF Distinct
<1>3. \A l \in Key : taken'[l] = IF l = k THEN taken[k] + 1 ELSE taken[l]
  BY DEF TakeBar, TypeInv, TypeOK
<1>4. status' \in {"early", "saving"} /\ bar' = k
  BY DEF TakeBar
<1>5. \A b \in Binding, l \in Key : Distinct /\ Offered(b, l) => Offered(b, l)'
  BY <1>2, <1>3, <1>4 DEF Offered
<1> QED
  BY <1>4, <1>5, OtherDistinct DEF TakeBar, inputs

\* The binding has made no signal of the bar, no other has its strategy: the
\* signal is a new one.
LEMMA ProcessBindingDistinct ==
  ASSUME TypeInv, DistinctInv, ProcessBinding
  PROVE  DistinctInv'
<1> DEFINE seen == Observed(history[Slot(todo, bar[2])], bar[1])
           event == [id |-> IdOf(todo, bar, Decide(bar[2], Window(seen))),
                     window |-> Window(seen)]
<1>1. /\ todo \in Binding /\ bar \in Key
      /\ \/ UNCHANGED <<signals, generated>> /\ GoOn
         \/ \E e \in signals : e.id = event.id
         \/ signals' = signals \cup {event} /\ generated' = generated + 1 /\ GoOn
  BY ProcessBindingEffect
<1>2. /\ event.id.strategy = strategyOf[todo]
      /\ event.id.time = bar[1] /\ event.id.symbol = bar[2] /\ bar = <<bar[1], bar[2]>>
  BY <1>1 DEF IdOf, Key
<1> HIDE DEF event
<1>3. status = "binding" /\ UNCHANGED <<given, strategyOf, taken, bar>>
  BY DEF ProcessBinding, inputs
<1>4. ASSUME Distinct, NEW e \in signals
      PROVE  e.id # event.id
  <2>1. SUFFICES ASSUME e.id = event.id PROVE FALSE
    OBVIOUS
  <2>2. PICK b \in Binding : e.id.strategy = strategyOf[b] /\ Offered(b, <<e.id.time, e.id.symbol>>)
    BY <1>4 DEF DistinctInv, SignalsAreOfOfferedBars
  <2>3. b = todo
    BY <1>1, <1>2, <1>4, <2>1, <2>2 DEF Distinct
  <2>4. b < todo
    BY <1>2, <1>3, <2>1, <2>2 DEF Offered
  <2> QED
    BY <2>3, <2>4, <1>1 DEF Binding
<1>5. Distinct' = Distinct
  BY <1>3 DEF Distinct
<1>6. ASSUME Distinct PROVE DistinctInv'
  <2>1. GoOn
    BY <1>1, <1>4, <1>6
  <2>2. /\ status' # "refused"
        /\ \A b \in Binding, k \in Key :
             Offered(b, k) \/ (b = todo /\ k = bar) => Offered(b, k)'
    <3>1. \/ status' = "binding" /\ todo' = todo + 1
          \/ status' = "sorted"
      BY <1>3, <2>1, GoOnGoesOn
    <3>2. taken[bar] > 0
      BY <1>3, InputAssumption DEF TypeInv, LoopInv, InputsInv
    <3> QED
      BY <1>1, <1>3, <3>1, <3>2 DEF Offered, Binding
  <2>3. CASE UNCHANGED <<signals, generated>>
    BY <1>3, <2>2, <2>3, OtherDistinct
  <2>4. CASE signals' = signals \cup {event} /\ generated' = generated + 1
    <3>1. IsFiniteSet(signals') /\ generated' = Cardinality(signals')
      BY <1>4, <1>6, <2>4, FS_AddElement DEF DistinctInv
    <3>2. ASSUME NEW e \in signals'
          PROVE  \E b \in Binding :
                   e.id.strategy = strategyOf[b] /\ Offered(b, <<e.id.time, e.id.symbol>>)'
      <4>1. CASE e = event
        BY <1>1, <1>2, <2>2, <4>1 DEF Offered
      <4>2. CASE e \in signals
        <5>1. <<e.id.time, e.id.symbol>> \in Key
          BY <4>2 DEF TypeInv, TypeOK, SignalEvent, SignalId, Key
        <5> QED
          BY <1>6, <2>2, <4>2, <5>1 DEF DistinctInv, SignalsAreOfOfferedBars
      <4> QED
        BY <2>4, <4>1, <4>2
    <3>3. SignalsAreOfOfferedBars'
      BY <1>3, <3>2 DEF SignalsAreOfOfferedBars, Offered
    <3> QED
      BY <2>2, <3>1, <3>3 DEF DistinctInv
  <2> QED
    BY <1>1, <1>4, <1>6, <2>3, <2>4
<1> QED
  BY <1>5, <1>6 DEF DistinctInv

\* IF no two bindings have the same strategy identity and no bar comes twice
\* THEN no signal is refused and every signal_id returned is another signal,
\* for any number of bindings and whatever their universes share.
THEOREM DistinctStrategiesStayApart == Spec => []DistinctStrategiesDoNotMeet
<1>1. Init => TypeInv /\ DistinctInv
  BY InitTypes, InitDistinct
<1>2. TypeInv /\ DistinctInv /\ [Next]_vars => (TypeInv /\ DistinctInv)'
  <2> SUFFICES ASSUME TypeInv, DistinctInv, [Next]_vars
               PROVE  TypeInv' /\ DistinctInv'
    OBVIOUS
  <2>1. TypeInv'
    BY NextTypes
  <2>2. CASE Initialize
    BY <2>1, <2>2, QuietDistinct DEF Initialize, inputs
  <2>3. ASSUME NEW k \in Key, TakeBar(k) PROVE DistinctInv'
    BY <2>3, TakeBarDistinct
  <2>4. CASE SaveBar
    BY <2>1, <2>4, QuietDistinct DEF SaveBar, inputs
  <2>5. CASE CheckUniverses
    BY <2>1, <2>5, QuietDistinct DEF CheckUniverses, inputs
  <2>6. CASE CountBar
    BY <2>1, <2>6, QuietDistinct DEF CountBar, inputs
  <2>7. CASE SkipBinding
    <3>1. /\ status = "binding" /\ todo \in Binding
          /\ \/ status' = "binding" /\ todo' = todo + 1
             \/ status' = "sorted"
      BY <2>7, GoOnGoesOn DEF SkipBinding
    <3>2. \A b \in Binding, k \in Key : Offered(b, k) => Offered(b, k)'
      BY <2>7, <3>1 DEF SkipBinding, Offered, Binding
    <3>3. status' # "refused" /\ UNCHANGED <<given, strategyOf, signals, generated>>
      BY <2>7, <3>1 DEF SkipBinding, inputs
    <3> QED
      BY <2>1, <3>2, <3>3, OtherDistinct
  <2>8. CASE ProcessBinding
    BY <2>1, <2>8, ProcessBindingDistinct
  <2>9. CASE Finish
    BY <2>1, <2>9, QuietDistinct DEF Finish, inputs
  <2>10. CASE UNCHANGED vars
    BY <2>1, <2>10 DEF vars, inputs, loop, DistinctInv, Distinct, SignalsAreOfOfferedBars, Offered
  <2> QED
    BY <2>1, <2>2, <2>3, <2>4, <2>5, <2>6, <2>7, <2>8, <2>9, <2>10 DEF Next
<1>3. DistinctInv => DistinctStrategiesDoNotMeet
  BY DEF DistinctInv, Distinct, DistinctStrategiesDoNotMeet
<1> QED
  BY <1>1, <1>2, <1>3, PTL DEF Spec

-----------------------------------------------------------------------------
(* Bars put one after another, by their times *)

\* The sequences for the times from FromTime to t.
Concat(segments, t) == FlattenSeq([i \in 1..(t + 1 - FromTime) |-> segments[FromTime + i - 1]])

\* Up to FromTime there is the first of them.
LEMMA ConcatFirst ==
  ASSUME NEW f \in [Time -> Seq(Time)]
  PROVE  Concat(f, FromTime) = f[FromTime]
<1> DEFINE s == [i \in 1..(FromTime + 1 - FromTime) |-> f[FromTime + i - 1]]
<1>1. FromTime \in Nat /\ FromTime \in Time
  BY RunAssumption DEF Time
<1>2. s \in [1..1 -> Seq(Time)] /\ s[1] = f[FromTime]
  <2>1. FromTime + 1 - FromTime = 1 /\ FromTime + 1 - 1 = FromTime
    BY <1>1
  <2>2. \A i \in 1..1 : FromTime + i - 1 = FromTime
    BY <1>1
  <2> QED
    BY <1>1, <2>1, <2>2
<1> HIDE DEF s
<1> QED
  BY <1>2, FlattenOne DEF Concat, s

\* A time later there is one more.
LEMMA ConcatNext ==
  ASSUME NEW f \in [Time -> Seq(Time)], NEW t \in FromTime..LastTime, t + 1 \in Time
  PROVE  Concat(f, t + 1) = Concat(f, t) \o f[t + 1]
<1> DEFINE n == t + 1 - FromTime
           s == [i \in 1..n |-> f[FromTime + i - 1]]
           r == [i \in 1..(t + 1 + 1 - FromTime) |-> f[FromTime + i - 1]]
<1>1. FromTime \in Nat /\ LastTime \in Nat /\ t \in Nat /\ n \in Nat \ {0}
      /\ t + 1 + 1 - FromTime = n + 1 /\ FromTime + (n + 1) - 1 = t + 1
  BY RunAssumption DEF Time
<1>2. \A i \in 1..(n + 1) : FromTime + i - 1 \in Time
  BY <1>1 DEF Time
<1>6. Concat(f, t) = FlattenSeq(s) /\ Concat(f, t + 1) = FlattenSeq(r)
  BY DEF Concat
<1> HIDE DEF n
<1>3. s \in [1..n -> Seq(Time)]
  <2>1. \A i \in 1..n : FromTime + i - 1 \in Time
    <3>1. \A i \in 1..n : i \in 1..(n + 1)
      BY <1>1
    <3> QED
      BY <1>2, <3>1
  <2> QED
    BY <2>1
<1>7. r = [i \in 1..(n + 1) |-> f[FromTime + i - 1]]
  BY <1>1
<1> HIDE DEF r
<1>4. r \in [1..(n + 1) -> Seq(Time)] /\ r[n + 1] = f[t + 1]
  <2>1. n + 1 \in 1..(n + 1)
    BY <1>1
  <2>2. \A i \in 1..(n + 1) : f[FromTime + i - 1] \in Seq(Time)
    BY <1>2
  <2> QED
    BY <1>1, <1>7, <2>1, <2>2
<1>5. \A i \in 1..n : s[i] = r[i]
  <2>1. \A i \in 1..n : i \in 1..(n + 1)
    BY <1>1
  <2> QED
    BY <1>7, <2>1
<1> HIDE DEF s
<1>8. n \in Nat \ {0}
  BY <1>1
<1>9. FlattenSeq(r) = FlattenSeq(s) \o r[n + 1]
  BY <1>3, <1>4, <1>5, <1>8, FlattenMore
<1> QED
  BY <1>4, <1>6, <1>9

\* They are sequences of times again.
LEMMA ConcatType ==
  ASSUME NEW f \in [Time -> Seq(Time)], NEW t \in FromTime..LastTime
  PROVE  Concat(f, t) \in Seq(Time)
<1> DEFINE S == {u \in FromTime..LastTime : Concat(f, u) \notin Seq(Time)}
<1>0. FromTime \in Nat /\ LastTime \in Nat
  BY RunAssumption DEF Time
<1> SUFFICES ASSUME S # {} PROVE FALSE
  OBVIOUS
<1>1. PICK u \in S : \A v \in S : u <= v
  <2>1. S \in SUBSET Nat
    BY <1>0
  <2> QED
    BY <2>1, LeastNatural
<1>2. CASE u = FromTime
  BY <1>2, ConcatFirst, RunAssumption
<1>3. CASE u # FromTime
  <2>1. u - 1 \in FromTime..LastTime /\ u - 1 \notin S /\ (u - 1) + 1 = u /\ u \in Time
    BY <1>0, <1>1, <1>3 DEF Time
  <2>2. Concat(f, u) = Concat(f, u - 1) \o f[u]
    BY <2>1, ConcatNext
  <2>3. Concat(f, u - 1) \in Seq(Time) /\ f[u] \in Seq(Time)
    BY <2>1
  <2> QED
    BY <2>2, <2>3, ConcatProperties
<1> QED
  BY <1>2, <1>3

\* Only the sequences up to the time count.
LEMMA ConcatSame ==
  ASSUME NEW f \in [Time -> Seq(Time)], NEW g \in [Time -> Seq(Time)],
         NEW t \in FromTime..LastTime, \A u \in FromTime..t : f[u] = g[u]
  PROVE  Concat(f, t) = Concat(g, t)
<1>1. \A i \in 1..(t + 1 - FromTime) : FromTime + i - 1 \in FromTime..t
  BY RunAssumption DEF Time
<1>2. \A i \in 1..(t + 1 - FromTime) : f[FromTime + i - 1] = g[FromTime + i - 1]
  BY <1>1
<1> QED
  BY <1>2 DEF Concat

\* Sequences that are empty add nothing.
LEMMA ConcatEmpty ==
  ASSUME NEW f \in [Time -> Seq(Time)], NEW t \in FromTime..LastTime, NEW u \in t..LastTime,
         \A v \in (t + 1)..u : f[v] = <<>>
  PROVE  Concat(f, u) = Concat(f, t)
<1> DEFINE S == {v \in t..u : Concat(f, v) # Concat(f, t)}
<1>0. FromTime \in Nat /\ LastTime \in Nat
  BY RunAssumption DEF Time
<1> SUFFICES ASSUME S # {} PROVE FALSE
  BY <1>0
<1>1. PICK v \in S : \A w \in S : v <= w
  <2>1. S \in SUBSET Nat
    BY <1>0
  <2> QED
    BY <2>1, LeastNatural
<1>2. v - 1 \in FromTime..LastTime /\ v - 1 \in t..u /\ v - 1 \notin S /\ (v - 1) + 1 = v
      /\ v \in Time /\ v \in (t + 1)..u
  <2>1. v \in t..u /\ v # t /\ v \in Nat /\ t \in Nat /\ u \in Nat
    BY <1>0
  <2>2. v - 1 \notin S
    BY <1>1, <2>1
  <2> HIDE DEF S
  <2> QED
    BY <1>0, <2>1, <2>2 DEF Time
<1>3. Concat(f, v) = Concat(f, v - 1) \o f[v]
  BY <1>2, ConcatNext
<1>4. Concat(f, v - 1) \in Seq(Time) /\ f[v] = <<>> /\ Concat(f, v - 1) = Concat(f, t)
  BY <1>2, ConcatType
<1> QED
  BY <1>3, <1>4, ConcatEmptySeq

\* What is appended to the last is appended to all.
LEMMA AppendTime ==
  \A c, d \in Seq(Time), x \in Time : c \o Append(d, x) = Append(c \o d, x)
BY AppendAfterConcat

\* A sequence that grows at its end makes the last grow.
LEMMA ConcatLonger ==
  ASSUME NEW f \in [Time -> Seq(Time)], NEW g \in [Time -> Seq(Time)],
         NEW t \in FromTime..LastTime, NEW x \in Time,
         \A u \in FromTime..(t - 1) : f[u] = g[u],
         g[t] = Append(f[t], x)
  PROVE  Concat(g, t) = Append(Concat(f, t), x)
<1>0. FromTime \in Nat /\ LastTime \in Nat
  BY RunAssumption DEF Time
<1>1. CASE t = FromTime
  BY <1>1, ConcatFirst
<1>2. CASE t # FromTime
  <2>1. t - 1 \in FromTime..LastTime /\ (t - 1) + 1 = t /\ t \in Time
    BY <1>0, <1>2 DEF Time
  <2>2. Concat(f, t) = Concat(f, t - 1) \o f[t] /\ Concat(g, t) = Concat(g, t - 1) \o g[t]
    BY <2>1, ConcatNext
  <2>3. Concat(f, t - 1) = Concat(g, t - 1)
    BY <2>1, ConcatSame
  <2>4. PICK c \in Seq(Time) : c = Concat(f, t - 1)
    BY <2>1, ConcatType
  <2>5. PICK d \in Seq(Time) : d = f[t]
    BY <2>1
  <2>6. c \o Append(d, x) = Append(c \o d, x)
    BY AppendTime, Zenon
  <2> QED
    BY <2>2, <2>3, <2>4, <2>5, <2>6
<1> QED
  BY <1>1, <1>2

-----------------------------------------------------------------------------
(* What a run that goes on has done *)

Going == {"sorted", "saving", "switching", "counting", "binding", "finished"}

\* At first there is nothing.
Fresh ==
  status = "new" =>
    /\ clock = FromTime /\ changes = 0 /\ signals = {} /\ generated = 0
    /\ \A k \in Key : taken[k] = 0
    /\ \A b \in Binding, s \in Symbol : history[<<b, s>>] = <<>>
    /\ \A s \in Symbol : counts[s] = 0

\* The bars that were taken are not before FromTime, not after the clock, and
\* stored; the clock is at one of them, or at FromTime.
LoopFacts ==
  status \in Going =>
    /\ \A k \in Key : taken[k] > 0 => k[1] \in FromTime..clock
    /\ clock \in BarTimes \cup {FromTime}
    /\ \A k \in Key : taken[k] > 0 /\ ~(status = "saving" /\ k = bar) => stored[k] # NoBar
    /\ status = "finished" => Waiting = {}

SwitchesUpTo(t) == {c \in Switches : c[2] \in FromTime..t}

\* The bindings have the versions of the time, or still those of the bar before.
Settled ==
  /\ \A b \in Binding : versions[b] = Resolve(Snapshots(b), clock)
  /\ changes = Cardinality(SwitchesUpTo(clock))

Unsettled ==
  /\ status \in {"saving", "switching"}
  /\ clock \in BarTimes /\ clock > FromTime
  /\ \A b \in Binding : versions[b] = Resolve(Snapshots(b), PreviousTime(clock))
  /\ changes = Cardinality(SwitchesUpTo(clock - 1))

VersionsAreCounted == status \in Going => Settled \/ Unsettled

\* The symbols of these versions have slots.
SlotsAreMade ==
  status \in Going => \A b \in Binding :
    /\ versions[b] \in DOMAIN Snapshots(b)
    /\ \A s \in Snapshots(b)[versions[b]].symbols : Slot(b, s) \in slots

\* Has binding b yet to take the bar, of symbol s?
Waits(b, s) ==
  /\ status \in {"saving", "switching", "counting", "binding"}
  /\ s = bar[2] /\ s \in SymbolsAt(b, clock)
  /\ status = "binding" => b >= todo

\* The bars of symbol s that binding b follows, by their times.
Segments(b, s) ==
  [u \in Time |-> IF s \in SymbolsAt(b, u) THEN [j \in 1..taken[<<u, s>>] |-> u] ELSE <<>>]

\* What an engine holds, with the bar that it has yet to take, is what its
\* binding follows.
EnginesFollow ==
  status \in Going => \A b \in Binding, s \in Symbol :
    Concat(Segments(b, s), clock) = IF Waits(b, s) THEN Append(history[<<b, s>>], clock)
                                    ELSE history[<<b, s>>]

\* A bar is counted before it is taken.
CountsSuffice ==
  status \in Going => \A b \in Binding, s \in Symbol :
    IF status = "binding" /\ Waits(b, s) THEN Len(history[<<b, s>>]) < counts[s]
    ELSE Len(history[<<b, s>>]) <= counts[s]

\* The signals that the bars of an engine call for.
CallFor(b, s, h, n) ==
  [binding |-> b, length |-> n,
   event |-> [id |-> IdOf(b, <<h[n], s>>, Decide(s, Window(SubSeq(h, 1, n)))),
              window |-> Window(SubSeq(h, 1, n))]]

CallsFor(b, s, h) ==
  {CallFor(b, s, h, n) : n \in {m \in 1..Len(h) : HasCandidate(SubSeq(h, 1, m), s)}}

Calls == UNION {CallsFor(b, s, history[<<b, s>>]) : b \in Binding, s \in Symbol}

SignalsAreCalledFor ==
  status \in Going =>
    /\ IsFiniteSet(Calls)
    /\ signals = {c.event : c \in Calls}
    /\ generated = Cardinality(Calls)

-----------------------------------------------------------------------------
(* The loop *)

\* What the clock and the times are.
LEMMA Times ==
  /\ LastTime \in Nat /\ FromTime \in Nat /\ FromTime \in Time /\ FromTime \in FromTime..LastTime
  /\ TypeInv => clock \in Nat /\ clock \in Time /\ clock \in FromTime..LastTime
BY RunAssumption DEF Time, TypeInv, TypeOK

\* A bar is taken at its own time, and stored before anything else happens.
LEMMA LoopFactsKept ==
  ASSUME TypeInv, Fresh, LoopFacts, [Next]_vars
  PROVE  LoopFacts'
<1>1. CASE Initialize
  BY <1>1 DEF Initialize, Fresh, LoopFacts, inputs, scheduler, TypeInv, TypeOK, BarTimes
<1>2. ASSUME NEW k \in Key, TakeBar(k) PROVE LoopFacts'
  <2>1. status' = "early" \/ (status' = "saving" /\ clock' = k[1] /\ clock <= k[1])
    BY <1>2, Times DEF TakeBar, AdvanceToBar, MovesBack, TypeInv, BarsComeInOrder, IsNext, Key,
                       Time, TypeOK
  <2>2. SUFFICES ASSUME status' = "saving", clock' = k[1], clock <= k[1] PROVE LoopFacts'
    BY <2>1 DEF LoopFacts, Going
  <2>3. /\ status = "sorted" /\ bar' = k /\ UNCHANGED <<given, stored>>
        /\ \A l \in Key : l # k => taken'[l] = taken[l]
        /\ k \in Waiting
    BY <1>2 DEF TakeBar, IsNext, inputs, TypeInv, TypeOK
  <2>4. given[k] # <<>> /\ k[1] \in BarTimes'
    BY <2>3 DEF Waiting, BarTimes, TypeInv, TypeOK
  <2>5. ASSUME NEW l \in Key, taken'[l] > 0
        PROVE  l[1] \in FromTime..clock'
    <3>1. k[1] \in FromTime..k[1] /\ k[1] \in Nat
      BY <2>2, Times DEF Key, Time
    <3>2. CASE l = k
      BY <2>2, <3>1, <3>2
    <3>3. CASE l # k
      BY <2>2, <2>3, <2>5, <3>1, <3>3, Times DEF LoopFacts, Going
    <3> QED
      BY <3>2, <3>3
  <2>6. ASSUME NEW l \in Key, taken'[l] > 0, l # k PROVE stored'[l] # NoBar
    BY <2>3, <2>6 DEF LoopFacts, Going
  <2> QED
    BY <2>2, <2>3, <2>4, <2>5, <2>6 DEF LoopFacts
<1>3. CASE SaveBar
  <2>1. /\ UNCHANGED <<given, taken, clock, bar>> /\ status = "saving"
        /\ status' \in {"switching", "revised"}
    BY <1>3 DEF SaveBar, inputs, scheduler
  <2>2. /\ status' = "switching" => stored'[bar] # NoBar
        /\ \A k \in Key : stored[k] # NoBar => stored'[k] # NoBar
    BY <1>3, SaveBarTypes
  <2> QED
    BY <2>1, <2>2 DEF LoopFacts, Going, BarTimes
<1>4. CASE Finish
  BY <1>4 DEF Finish, LoopFacts, Going, BarTimes, Waiting, inputs, scheduler
<1>5. ASSUME UNCHANGED <<given, taken, clock, bar, stored>>,
             status' \in Going => status \in Going /\ (status' # status => status' # "finished")
                                  /\ (status = "saving" => status' = "saving")
      PROVE  LoopFacts'
  BY <1>5 DEF LoopFacts, BarTimes, Waiting
<1>6. CASE CheckUniverses
  BY <1>5, <1>6 DEF CheckUniverses, Going, inputs, scheduler
<1>7. CASE CountBar
  BY <1>5, <1>7 DEF CountBar, Going, inputs, scheduler
<1>8. CASE SkipBinding
  <2>1. status = "binding" /\ status' \in {"binding", "sorted"}
    BY <1>8, GoOnGoesOn DEF SkipBinding
  <2> QED
    BY <1>5, <1>8, <2>1 DEF SkipBinding, Going, inputs, scheduler
<1>9. CASE ProcessBinding
  <2>1. status = "binding" /\ status' \in {"binding", "sorted", "refused"}
    BY <1>9, GoOnGoesOn DEF ProcessBinding, AppendSignal
  <2> QED
    BY <1>5, <1>9, <2>1 DEF ProcessBinding, Going, inputs, scheduler
<1>10. CASE UNCHANGED vars
  BY <1>5, <1>10 DEF vars, inputs, loop, scheduler
<1> QED
  BY <1>1, <1>2, <1>3, <1>4, <1>6, <1>7, <1>8, <1>9, <1>10 DEF Next

-----------------------------------------------------------------------------
(* The versions of the universes *)

\* The input stays, and what is made of it.
LEMMA InputsStay ==
  ASSUME [Next]_vars
  PROVE  UNCHANGED <<given, published, strategyOf>>
BY DEF Next, vars, inputs, Initialize, TakeBar, SaveBar, CheckUniverses, CountBar, SkipBinding,
       ProcessBinding, Finish

\* What is made of the input stays.
LEMMA UniversesStay ==
  ASSUME UNCHANGED <<given, published>>
  PROVE  /\ UNCHANGED <<BarTimes, Switches>>
         /\ \A t : PreviousTime(t)' = PreviousTime(t) /\ SwitchesUpTo(t)' = SwitchesUpTo(t)
         /\ \A b : Snapshots(b)' = Snapshots(b)
         /\ \A b, t : SymbolsAt(b, t)' = SymbolsAt(b, t)
<1>1. UNCHANGED BarTimes /\ \A b : Snapshots(b)' = Snapshots(b)
  BY DEF BarTimes, Snapshots
<1>2. \A t : PreviousTime(t)' = PreviousTime(t)
  BY <1>1 DEF PreviousTime
<1>3. UNCHANGED Switches
  BY <1>1, <1>2 DEF Switches
<1> QED
  BY <1>1, <1>2, <1>3 DEF SwitchesUpTo, SymbolsAt

\* The previous time is the greatest of those it is one of.
LEMMA PreviousTimeIs ==
  ASSUME NEW t \in Time, NEW p \in BarTimes \cup {FromTime}, p < t \/ p = FromTime,
         FromTime <= p, \A u \in BarTimes : u < t => u <= p
  PROVE  PreviousTime(t) = p
<1> DEFINE S == {FromTime} \cup {u \in BarTimes : u < t}
<1>1. BarTimes \subseteq Nat /\ FromTime \in Nat
  BY RunAssumption DEF BarTimes, Key, Time
<1>2. S \in SUBSET Nat /\ p \in S /\ \A u \in S : u <= p
  BY <1>1
<1>3. \A x \in S : (\A y \in S : x >= y) => x = p
  BY <1>2
<1>4. \A y \in S : p >= y
  BY <1>2
<1> HIDE DEF S
<1>5. Max(S) = p
  BY <1>2, <1>3, <1>4 DEF Max
<1> QED
  BY <1>5 DEF PreviousTime, S

\* Bars come at times; there are finitely many switches.
LEMMA SwitchesAreFinite ==
  ASSUME NEW t
  PROVE  /\ BarTimes \subseteq Time /\ BarTimes \subseteq Nat
         /\ SwitchesUpTo(t) \subseteq Binding \X BarTimes
         /\ IsFiniteSet(SwitchesUpTo(t)) /\ Cardinality(SwitchesUpTo(t)) \in Nat
<1>1. BarTimes \subseteq Time /\ BarTimes \subseteq Nat
  BY RunAssumption DEF BarTimes, Key, Time
<1>2. SwitchesUpTo(t) \subseteq Binding \X BarTimes
  BY DEF SwitchesUpTo, Switches
<1>3. IsFiniteSet(Binding) /\ IsFiniteSet(Time)
  BY RunAssumption, FS_Interval DEF Binding, Time
<1>4. IsFiniteSet(Binding \X Time)
  BY <1>3, FS_Product
<1>5. SwitchesUpTo(t) \subseteq Binding \X Time
  BY <1>1, <1>2
<1> QED
  BY <1>1, <1>2, <1>4, <1>5, FS_Subset, FS_CardinalityType

\* At the beginning no bar has been met.
LEMMA NoSwitchAtFirst ==
  SwitchesUpTo(FromTime) = {}
<1>1. BarTimes \subseteq Nat /\ FromTime \in Nat /\ FromTime \in Time
  BY Times, SwitchesAreFinite
<1>2. PreviousTime(FromTime) = FromTime
  BY <1>1, PreviousTimeIs
<1>3. ASSUME NEW c \in SwitchesUpTo(FromTime) PROVE FALSE
  <2>1. c[2] = FromTime
    BY <1>1 DEF SwitchesUpTo
  <2> QED
    BY <1>2, <2>1 DEF SwitchesUpTo, Switches
<1> QED
  BY <1>3

\* The bindings that have another version at time t are the switches there.
LEMMA SwitchesAt ==
  ASSUME NEW t \in BarTimes, t > FromTime, NEW changed \in SUBSET Binding,
         \A b \in Binding : b \in changed <=>
           Resolve(Snapshots(b), t) # Resolve(Snapshots(b), PreviousTime(t))
  PROVE  Cardinality(SwitchesUpTo(t)) = Cardinality(SwitchesUpTo(t - 1)) + Cardinality(changed)
<1> DEFINE new == changed \X {t}
<1>0. BarTimes \subseteq Nat /\ FromTime \in Nat /\ t \in Nat
  BY Times, SwitchesAreFinite
<1>1. IsFiniteSet(changed) /\ Cardinality(changed) \in Nat
  <2>1. IsFiniteSet(Binding)
    BY RunAssumption, FS_Interval DEF Binding
  <2> QED
    BY <2>1, FS_Subset, FS_CardinalityType
<1>2. IsFiniteSet(new) /\ Cardinality(new) = Cardinality(changed)
  <2>1. IsFiniteSet({t}) /\ Cardinality({t}) = 1
    BY FS_Singleton
  <2>2. /\ IsFiniteSet(changed \X {t})
        /\ Cardinality(changed \X {t}) = Cardinality(changed) * Cardinality({t})
    BY <1>1, <2>1, FS_Product, Zenon
  <2>3. PICK m \in Nat : m = Cardinality(changed)
    BY <1>1
  <2>4. Cardinality(changed \X {t}) = m * 1
    BY <2>1, <2>2, <2>3, Zenon
  <2> HIDE DEF new
  <2>5. m * 1 = m
    BY <2>3
  <2> QED
    BY <2>2, <2>3, <2>4, <2>5, Zenon DEF new
<1>3. SwitchesUpTo(t) = SwitchesUpTo(t - 1) \cup new
  <2>1. ASSUME NEW c \in SwitchesUpTo(t) PROVE c \in SwitchesUpTo(t - 1) \cup new
    <3>1. c \in Switches /\ c \in Binding \X BarTimes /\ c[2] \in FromTime..t
      BY DEF SwitchesUpTo, Switches
    <3>2. CASE c[2] = t
      BY <3>1, <3>2 DEF Switches
    <3>3. CASE c[2] # t
      BY <1>0, <3>1, <3>3 DEF SwitchesUpTo
    <3> QED
      BY <3>2, <3>3
  <2>2. ASSUME NEW c \in new PROVE c \in SwitchesUpTo(t)
    <3>1. c \in Binding \X BarTimes /\ c[2] = t /\ c[1] \in changed /\ t \in FromTime..t
      BY <1>0
    <3> QED
      BY <3>1 DEF SwitchesUpTo, Switches
  <2>3. ASSUME NEW c \in SwitchesUpTo(t - 1) PROVE c \in SwitchesUpTo(t)
    BY <1>0 DEF SwitchesUpTo
  <2> QED
    BY <2>1, <2>2, <2>3
<1>4. SwitchesUpTo(t - 1) \cap new = {}
  BY <1>0 DEF SwitchesUpTo
<1> HIDE DEF new
<1>5. IsFiniteSet(SwitchesUpTo(t - 1)) /\ Cardinality(SwitchesUpTo(t - 1)) \in Nat
  BY SwitchesAreFinite
<1>6. Cardinality({}) = 0
  BY FS_EmptySet
<1>7. Cardinality(SwitchesUpTo(t)) =
        Cardinality(SwitchesUpTo(t - 1)) + Cardinality(new) - Cardinality(SwitchesUpTo(t - 1) \cap new)
  BY <1>1, <1>2, <1>3, <1>5, FS_Union, Zenon
<1>8. Cardinality(SwitchesUpTo(t)) =
        Cardinality(SwitchesUpTo(t - 1)) + Cardinality(changed) - 0
  BY <1>2, <1>4, <1>6, <1>7, Zenon
<1> QED
  BY <1>1, <1>5, <1>8

\* What a step leaves that touches neither the clock nor the versions.
LEMMA VersionsStay ==
  ASSUME VersionsAreCounted, UNCHANGED <<given, published, versions, clock, changes>>,
         status' \in Going => status \in Going /\
           (status \in {"saving", "switching"} => status' \in {"saving", "switching"})
  PROVE  VersionsAreCounted'
<1>1. /\ UNCHANGED BarTimes /\ \A t : SwitchesUpTo(t)' = SwitchesUpTo(t)
      /\ \A t : PreviousTime(t)' = PreviousTime(t)
      /\ \A b : Snapshots(b)' = Snapshots(b)
  BY UniversesStay
<1>2. Settled => Settled'
  BY <1>1 DEF Settled
<1>3. Unsettled /\ status' \in Going => Unsettled'
  BY <1>1 DEF Unsettled
<1> QED
  BY <1>2, <1>3 DEF VersionsAreCounted

\* The bars before the next one are those up to the clock.
LEMMA TakeBarTimes ==
  ASSUME TypeInv, LoopFacts, NEW k \in Key, TakeBar(k), k[1] > clock
  PROVE  /\ k[1] \in BarTimes
         /\ \A u \in BarTimes : u < k[1] => u <= clock
         /\ PreviousTime(k[1]) = clock
         /\ SwitchesUpTo(k[1] - 1) = SwitchesUpTo(clock)
<1>0. /\ BarTimes \subseteq Nat /\ FromTime \in Nat /\ clock \in Nat /\ k[1] \in Nat
      /\ FromTime <= clock /\ k[1] \in Time
  BY Times, SwitchesAreFinite DEF Key, Time
<1>1. status = "sorted" /\ k \in Waiting /\ \A l \in Waiting : k[1] <= l[1]
  <2>1. \A l \in Waiting : l[1] \in Nat
    BY Times DEF Waiting, Key, Time
  <2> QED
    BY <1>0, <2>1 DEF TakeBar, IsNext
<1>2. k[1] \in BarTimes
  BY <1>1, InputAssumption DEF BarTimes, Waiting, TypeInv, TypeOK, InputsInv
<1>3. ASSUME NEW u \in BarTimes, u < k[1] PROVE u <= clock
  <2>1. PICK l \in Key : given[l] # <<>> /\ u = l[1]
    BY DEF BarTimes
  <2>2. l \notin Waiting
    BY <1>0, <1>1, <1>3, <2>1
  <2>3. taken[l] > 0
    <3>1. Len(given[l]) \in Nat /\ taken[l] \in Nat /\ taken[l] >= Len(given[l])
      BY <2>2, InputAssumption DEF Waiting, TypeInv, TypeOK, InputsInv
    <3>2. Len(given[l]) # 0
      BY <2>1
    <3> QED
      BY <3>1, <3>2
  <2> QED
    BY <1>1, <2>1, <2>3, <1>0 DEF LoopFacts, Going
<1>4. PreviousTime(k[1]) = clock
  <2>1. clock \in BarTimes \cup {FromTime}
    BY <1>1 DEF LoopFacts, Going
  <2> QED
    BY <1>0, <1>3, <2>1, PreviousTimeIs
<1>5. SwitchesUpTo(k[1] - 1) = SwitchesUpTo(clock)
  <2>1. ASSUME NEW c \in Switches PROVE c[2] \in FromTime..(k[1] - 1) <=> c[2] \in FromTime..clock
    <3>1. c[2] \in BarTimes
      BY DEF Switches
    <3> QED
      BY <1>0, <1>3, <3>1
  <2> QED
    BY <2>1 DEF SwitchesUpTo
<1> QED
  BY <1>2, <1>3, <1>4, <1>5

\* A bar of a later time leaves the versions behind, until the next step but
\* one; every version found then is counted.
LEMMA VersionsAreCountedKept ==
  ASSUME TypeInv, Fresh, LoopFacts, VersionsAreCounted, [Next]_vars
  PROVE  VersionsAreCounted'
<1>0. /\ UNCHANGED <<given, published, strategyOf>> /\ UNCHANGED BarTimes
      /\ \A t : SwitchesUpTo(t)' = SwitchesUpTo(t)
      /\ \A t : PreviousTime(t)' = PreviousTime(t)
      /\ \A b : Snapshots(b)' = Snapshots(b)
  <2>1. UNCHANGED <<given, published, strategyOf>>
    BY InputsStay
  <2> QED
    BY <2>1, UniversesStay
<1>1. CASE Initialize
  <2>1. CASE status' = "unknown"
    BY <2>1 DEF VersionsAreCounted, Going
  <2>2. CASE status' = "sorted"
    <3>1. /\ clock' = FromTime /\ changes' = 0
          /\ \A b \in Binding : versions'[b] = Resolve(Snapshots(b), FromTime)
      BY <1>1, <2>2 DEF Initialize, scheduler, Fresh
    <3>2. Cardinality(SwitchesUpTo(FromTime)) = 0
      BY NoSwitchAtFirst, FS_EmptySet
    <3>3. Settled'
      BY <1>0, <3>1, <3>2 DEF Settled
    <3> QED
      BY <3>3 DEF VersionsAreCounted
  <2> QED
    BY <1>1, <2>1, <2>2 DEF Initialize
<1>2. ASSUME NEW k \in Key, TakeBar(k) PROVE VersionsAreCounted'
  <2>1. status' = "early" \/ (status' = "saving" /\ clock' = k[1] /\ clock <= k[1])
    BY <1>2, Times DEF TakeBar, AdvanceToBar, MovesBack, TypeInv, BarsComeInOrder, IsNext, Key,
                       Time, TypeOK
  <2>2. CASE status' = "early"
    BY <2>2 DEF VersionsAreCounted, Going
  <2>3. ASSUME status' = "saving", clock' = k[1], clock <= k[1] PROVE VersionsAreCounted'
    <3>1. Settled /\ UNCHANGED <<versions, changes>>
      BY <1>2 DEF TakeBar, state, VersionsAreCounted, Unsettled, Going
    <3>2. CASE k[1] = clock
      BY <1>0, <2>3, <3>1, <3>2 DEF Settled, VersionsAreCounted
    <3>3. CASE k[1] # clock
      <4>1. clock < k[1] /\ clock >= FromTime /\ k[1] > FromTime
        BY <2>3, <3>3, Times DEF Key, Time
      <4>2. /\ k[1] \in BarTimes /\ PreviousTime(k[1]) = clock
            /\ SwitchesUpTo(k[1] - 1) = SwitchesUpTo(clock)
        BY <1>2, <4>1, TakeBarTimes
      <4>3. Unsettled'
        <5>1. status' \in {"saving", "switching"} /\ clock' \in BarTimes' /\ clock' > FromTime
          BY <1>0, <2>3, <4>1, <4>2
        <5>2. \A b \in Binding : versions'[b] = Resolve(Snapshots(b)', PreviousTime(k[1])')
          BY <1>0, <3>1, <4>2 DEF Settled
        <5>3. changes' = Cardinality(SwitchesUpTo(k[1] - 1)')
          BY <1>0, <3>1, <4>2 DEF Settled
        <5> QED
          BY <2>3, <5>1, <5>2, <5>3 DEF Unsettled
      <4> QED
        BY <4>3 DEF VersionsAreCounted
    <3> QED
      BY <3>2, <3>3
  <2> QED
    BY <2>1, <2>2, <2>3
<1>3. CASE SaveBar
  BY <1>0, <1>3, VersionsStay DEF SaveBar, scheduler, state, Going
<1>4. CASE CheckUniverses
  <2> DEFINE changed == {b \in Binding : Resolve(Snapshots(b), clock) # versions[b]}
  <2>1. /\ status = "switching" /\ UNCHANGED clock
        /\ \A b \in Binding : versions'[b] = Resolve(Snapshots(b), clock)
        /\ changes' = changes + Cardinality(changed)
    BY <1>4 DEF CheckUniverses, scheduler
  <2>2. changes' = Cardinality(SwitchesUpTo(clock))
    <3>1. CASE Settled
      <4>1. changed = {}
        BY <3>1 DEF Settled
      <4> HIDE DEF changed
      <4>2. Cardinality(changed) = 0
        BY <4>1, FS_EmptySet
      <4> QED
        BY <2>1, <3>1, <4>2, SwitchesAreFinite DEF Settled
    <3>2. CASE Unsettled
      <4>1. clock \in BarTimes /\ clock > FromTime /\ changed \in SUBSET Binding
            /\ changes = Cardinality(SwitchesUpTo(clock - 1))
            /\ \A b \in Binding : b \in changed <=>
                 Resolve(Snapshots(b), clock) # Resolve(Snapshots(b), PreviousTime(clock))
        BY <3>2 DEF Unsettled
      <4> HIDE DEF changed
      <4>2. Cardinality(SwitchesUpTo(clock)) = Cardinality(SwitchesUpTo(clock - 1)) + Cardinality(changed)
        BY <4>1, SwitchesAt
      <4> QED
        BY <2>1, <4>1, <4>2
    <3> QED
      BY <2>1, <3>1, <3>2 DEF VersionsAreCounted, Going
  <2>3. Settled'
    BY <1>0, <2>1, <2>2 DEF Settled
  <2> QED
    BY <2>3 DEF VersionsAreCounted
<1>5. CASE CountBar
  BY <1>0, <1>5, VersionsStay DEF CountBar, scheduler, Going
<1>6. CASE SkipBinding
  <2>1. status = "binding" /\ status' \in {"binding", "sorted"}
    BY <1>6, GoOnGoesOn DEF SkipBinding
  <2> QED
    BY <1>0, <1>6, <2>1, VersionsStay DEF SkipBinding, scheduler, state, Going
<1>7. CASE ProcessBinding
  <2>1. status = "binding" /\ status' \in {"binding", "sorted", "refused"}
    BY <1>7, GoOnGoesOn DEF ProcessBinding, AppendSignal
  <2> QED
    BY <1>0, <1>7, <2>1, VersionsStay DEF ProcessBinding, scheduler, Going
<1>8. CASE Finish
  BY <1>0, <1>8, VersionsStay DEF Finish, scheduler, state, Going
<1>9. CASE UNCHANGED vars
  BY <1>0, <1>9, VersionsStay DEF vars, loop, scheduler, state, Going
<1> QED
  BY <1>1, <1>2, <1>3, <1>4, <1>5, <1>6, <1>7, <1>8, <1>9 DEF Next

-----------------------------------------------------------------------------
(* Slots *)

\* A step that keeps the versions, and the slots there are.
LEMMA SlotsStay ==
  ASSUME SlotsAreMade, UNCHANGED <<published, versions>>, slots \subseteq slots',
         status' \in Going => status \in Going
  PROVE  SlotsAreMade'
BY DEF SlotsAreMade, Snapshots

\* The version that is resolved is one of those there are.
LEMMA ResolvesHere ==
  ASSUME InputsInv, NEW b \in Binding, ~Unknown(b), NEW t \in Time
  PROVE  Resolve(Snapshots(b), t) \in DOMAIN Snapshots(b)
<1>1. Snapshots(b) \in Seq(Snapshot) /\ Snapshots(b) # <<>>
  BY RunAssumption DEF InputsInv, Snapshots, Unknown
<1>2. Resolve(Snapshots(b), t) \in 1..Len(Snapshots(b))
  BY <1>1, ResolvesToVersion
<1> QED
  BY <1>1, <1>2

\* A version that is found gets the slots of its symbols.
LEMMA SlotsAreMadeKept ==
  ASSUME TypeInv, SlotsAreMade, [Next]_vars
  PROVE  SlotsAreMade'
<1>0. UNCHANGED <<given, published, strategyOf>> /\ \A b : Snapshots(b)' = Snapshots(b)
  <2>1. UNCHANGED <<given, published, strategyOf>>
    BY InputsStay
  <2> QED
    BY <2>1, UniversesStay
<1>1. CASE Initialize
  <2>1. CASE status' = "unknown"
    BY <2>1 DEF SlotsAreMade, Going
  <2>2. CASE status' = "sorted"
    <3>1. /\ \A b \in Binding : ~Unknown(b)
          /\ \A b \in Binding : versions'[b] = Resolve(Snapshots(b), FromTime)
          /\ slots' = SlotsOf(Binding, FromTime)
      <4>1. \A b \in Binding : b \in 1..b
        BY RunAssumption DEF Binding
      <4> QED
        BY <1>1, <2>2, <4>1 DEF Initialize
    <3>2. \A b \in Binding : versions'[b] \in DOMAIN Snapshots(b)
      BY <3>1, ResolvesHere, Times DEF TypeInv
    <3>3. \A b \in Binding : \A s \in Snapshots(b)[versions'[b]].symbols : Slot(b, s) \in slots'
      BY <3>1 DEF SlotsOf, SymbolsAt
    <3> QED
      BY <1>0, <3>2, <3>3 DEF SlotsAreMade
  <2> QED
    BY <1>1, <2>1, <2>2 DEF Initialize
<1>2. ASSUME NEW k \in Key, TakeBar(k) PROVE SlotsAreMade'
  BY <1>0, <1>2, SlotsStay DEF TakeBar, state, Going
<1>3. CASE SaveBar
  BY <1>0, <1>3, SlotsStay DEF SaveBar, state, Going
<1>4. CASE CheckUniverses
  <2> DEFINE changed == {b \in Binding : Resolve(Snapshots(b), clock) # versions[b]}
  <2>1. /\ status = "switching" /\ slots' = slots \cup SlotsOf(changed, clock)
        /\ \A b \in Binding : versions'[b] = Resolve(Snapshots(b), clock)
    BY <1>4 DEF CheckUniverses, NewSlots
  <2>2. \A b \in Binding : versions'[b] \in DOMAIN Snapshots(b)
    BY <2>1, ResolvesHere, Times DEF TypeInv, UniversesAreKnown
  <2>3. ASSUME NEW b \in Binding, NEW s \in Snapshots(b)[versions'[b]].symbols
        PROVE  Slot(b, s) \in slots'
    <3>1. CASE b \in changed
      BY <2>1, <2>3, <3>1 DEF SlotsOf, SymbolsAt
    <3>2. CASE b \notin changed
      <4>1. versions'[b] = versions[b]
        BY <2>1, <3>2
      <4> QED
        BY <2>1, <2>3, <4>1 DEF SlotsAreMade, Going
    <3> QED
      BY <3>1, <3>2
  <2> QED
    BY <1>0, <2>2, <2>3 DEF SlotsAreMade
<1>5. CASE CountBar
  BY <1>0, <1>5, SlotsStay DEF CountBar, Going
<1>6. CASE SkipBinding
  BY <1>0, <1>6, SlotsStay DEF SkipBinding, state, Going
<1>7. CASE ProcessBinding
  BY <1>0, <1>7, SlotsStay DEF ProcessBinding, Going
<1>8. CASE Finish
  BY <1>0, <1>8, SlotsStay DEF Finish, state, Going
<1>9. CASE UNCHANGED vars
  BY <1>0, <1>9, SlotsStay DEF vars, loop, state, Going
<1> QED
  BY <1>1, <1>2, <1>3, <1>4, <1>5, <1>6, <1>7, <1>8, <1>9 DEF Next
-----------------------------------------------------------------------------
(* Engines *)

\* A bar that is not before those an engine holds comes at the end.
LEMMA ObservedAppends ==
  ASSUME NEW h \in Seq(Time), NEW t \in Time, \A i \in DOMAIN h : h[i] <= t
  PROVE  Observed(h, t) = Append(h, t)
<1> DEFINE S == {i \in DOMAIN h : h[i] <= t}
<1>1. Len(h) \in Nat /\ DOMAIN h = 1..Len(h)
  OBVIOUS
<1>2. Cardinality(1..Len(h)) = Len(h)
  BY <1>1, FS_Interval
<1>3. S = 1..Len(h)
  BY <1>1
<1>4. Cardinality(S) = Len(h)
  BY <1>2, <1>3
<1>5. Observed(h, t) = SubSeq(h, 1, Len(h)) \o <<t>> \o SubSeq(h, Len(h) + 1, Len(h))
  <2> HIDE DEF S
  <2> QED
    BY <1>4 DEF Observed, S
<1>6. SubSeq(h, 1, Len(h)) = h /\ SubSeq(h, Len(h) + 1, Len(h)) = <<>>
  BY <1>1
<1>7. h \o <<t>> \o <<>> = h \o <<t>>
  OBVIOUS
<1>8. h \o <<t>> = Append(h, t)
  OBVIOUS
<1> QED
  BY <1>5, <1>6, <1>7, <1>8

\* A binding takes the bar when its universe has the symbol.
LEMMA TakesWhenItHas ==
  ASSUME TypeInv, VersionsAreCounted, status = "binding"
  PROVE  /\ todo \in Binding
         /\ Takes(todo) <=> bar[2] \in SymbolsAt(todo, clock)
<1>1. Settled /\ todo \in Binding
  BY DEF VersionsAreCounted, Unsettled, Going, TypeInv, LoopInv
<1> QED
  BY <1>1 DEF Settled, Takes

\* After a binding only the others have yet to take the bar.
LEMMA GoOnWaits ==
  ASSUME TypeInv, status = "binding", GoOn, UNCHANGED <<published, bar, clock>>,
         NEW b \in Binding, NEW s
  PROVE  Waits(b, s)' <=> Waits(b, s) /\ b # todo
<1>1. /\ \A c, t : SymbolsAt(c, t)' = SymbolsAt(c, t)
  BY DEF SymbolsAt, Snapshots
<1>2. todo \in Nat /\ Bindings \in Nat /\ b \in Nat /\ b <= Bindings /\ todo <= Bindings
  BY RunAssumption DEF TypeInv, LoopInv, Binding
<1>3. CASE todo < Bindings
  <2>1. todo' = todo + 1 /\ status' = "binding"
    BY <1>3 DEF GoOn
  <2> QED
    BY <1>1, <1>2, <2>1 DEF Waits
<1>4. CASE ~(todo < Bindings)
  <2>1. status' = "sorted" /\ todo = Bindings
    BY <1>2, <1>4 DEF GoOn
  <2> QED
    BY <1>1, <1>2, <2>1 DEF Waits
<1> QED
  BY <1>3, <1>4

\* The segments are sequences of times, empty where no bar was taken.
LEMMA SegmentsType ==
  ASSUME TypeInv, NEW b \in Binding, NEW s \in Symbol
  PROVE  /\ Segments(b, s) \in [Time -> Seq(Time)]
         /\ \A u \in Time : taken[<<u, s>>] \in Nat
         /\ \A u \in Time : taken[<<u, s>>] = 0 => Segments(b, s)[u] = <<>>
<1>1. \A u \in Time : taken[<<u, s>>] \in Nat
  BY DEF TypeInv, TypeOK, Key
<1>2. ASSUME NEW u \in Time PROVE [j \in 1..taken[<<u, s>>] |-> u] \in Seq(Time)
  BY <1>1
<1>3. ASSUME NEW u \in Time PROVE (IF s \in SymbolsAt(b, u) THEN [j \in 1..taken[<<u, s>>] |-> u] ELSE <<>>) \in Seq(Time)
  BY <1>2
<1>4. ASSUME NEW u \in Time, taken[<<u, s>>] = 0
      PROVE  [j \in 1..taken[<<u, s>>] |-> u] = <<>>
  <2>1. 1..taken[<<u, s>>] = {}
    BY <1>4
  <2> QED
    BY <2>1
<1> QED
  BY <1>1, <1>3, <1>4 DEF Segments

\* One more bar makes its segment longer.
LEMMA OneMore ==
  ASSUME NEW u \in Time, NEW n \in Nat
  PROVE  [j \in 1..(n + 1) |-> u] = Append([j \in 1..n |-> u], u)
<1>1. PICK f : f = [j \in 1..n |-> u]
  OBVIOUS
<1>2. PICK g : g = [j \in 1..(n + 1) |-> u]
  OBVIOUS
<1>3. f \in Seq(Time) /\ Len(f) = n /\ g \in Seq(Time) /\ Len(g) = n + 1
  BY <1>1, <1>2
<1>4. Append(f, u) \in Seq(Time) /\ Len(Append(f, u)) = n + 1
  BY <1>3
<1>5. ASSUME NEW j \in 1..(n + 1) PROVE g[j] = Append(f, u)[j]
  BY <1>1, <1>2, <1>3
<1>6. g = Append(f, u)
  BY <1>3, <1>4, <1>5, SeqEqual
<1> QED
  BY <1>1, <1>2, <1>6

\* A step that takes no bar and offers none.
LEMMA EnginesStay ==
  ASSUME EnginesFollow, UNCHANGED <<published, taken, clock, history>>,
         status' \in Going => status \in Going,
         status' \in Going => \A b \in Binding, s \in Symbol : Waits(b, s)' <=> Waits(b, s)
  PROVE  EnginesFollow'
<1>1. \A b, s : Segments(b, s)' = Segments(b, s)
  BY DEF Segments, SymbolsAt, Snapshots
<1>2. \A b, s, t : Concat(Segments(b, s), t)' = Concat(Segments(b, s), t')
  BY <1>1 DEF Concat
<1> QED
  BY <1>1, <1>2 DEF EnginesFollow

\* The next bar is added to what is followed where the universe has its symbol.
LEMMA TakeBarFollows ==
  ASSUME TypeInv, TypeInv', LoopFacts, EnginesFollow, NEW k \in Key, TakeBar(k),
         status' = "saving", clock' = k[1], clock <= k[1], UNCHANGED published
  PROVE  EnginesFollow'
<1> SUFFICES ASSUME NEW b \in Binding, NEW s \in Symbol
             PROVE  Concat(Segments(b, s)', k[1]) =
                      IF Waits(b, s)' THEN Append(history[<<b, s>>], k[1]) ELSE history[<<b, s>>]
  BY DEF EnginesFollow, Concat, TakeBar, state
<1>1. /\ status = "sorted" /\ bar' = k /\ k[1] \in Time /\ k[2] \in Symbol /\ k = <<k[1], k[2]>>
      /\ \A l \in Key : taken'[l] = IF l = k THEN taken[k] + 1 ELSE taken[l]
  BY DEF TakeBar, TypeInv, TypeOK, Key
<1>2. /\ clock \in FromTime..LastTime /\ k[1] \in FromTime..LastTime /\ k[1] \in clock..LastTime
      /\ clock \in Nat
  BY <1>1, Times DEF Time
<1>3. PICK f : f = Segments(b, s)
  OBVIOUS
<1>4. PICK g : g = Segments(b, s)'
  OBVIOUS
<1>5. f \in [Time -> Seq(Time)] /\ g \in [Time -> Seq(Time)]
  <2>1. Segments(b, s)' \in [Time -> Seq(Time)]
    <3>1. ASSUME NEW u \in Time PROVE [j \in 1..taken'[<<u, s>>] |-> u] \in Seq(Time)
      <4>1. taken'[<<u, s>>] \in Nat
        BY DEF TypeInv, TypeOK, Key
      <4> QED
        BY <4>1
    <3>2. ASSUME NEW u \in Time
          PROVE  (IF s \in SymbolsAt(b, u)' THEN [j \in 1..taken'[<<u, s>>] |-> u] ELSE <<>>) \in Seq(Time)
      BY <3>1
    <3> QED
      BY <3>2 DEF Segments
  <2> QED
    BY <1>3, <1>4, <2>1, SegmentsType
<1>6. Concat(f, k[1]) = history[<<b, s>>]
  <2>1. ASSUME NEW v \in (clock + 1)..k[1] PROVE f[v] = <<>>
    <3>1. v \in Time /\ <<v, s>> \in Key /\ ~(v \in FromTime..clock)
      BY <1>2, Times DEF Time, Key
    <3>2. ~(taken[<<v, s>>] > 0)
      BY <1>1, <3>1 DEF LoopFacts, Going
    <3>3. taken[<<v, s>>] = 0
      BY <3>1, <3>2, SegmentsType
    <3> QED
      BY <1>3, <3>1, <3>3, SegmentsType
  <2>2. Concat(f, k[1]) = Concat(f, clock)
    BY <1>2, <1>5, <2>1, ConcatEmpty
  <2> QED
    BY <1>1, <1>3, <2>2 DEF EnginesFollow, Going, Waits
<1>7. \A u : SymbolsAt(b, u)' = SymbolsAt(b, u)
  BY DEF SymbolsAt, Snapshots
<1>8. Waits(b, s)' <=> s = k[2] /\ s \in SymbolsAt(b, k[1])
  BY <1>1, <1>7 DEF Waits
<1>9. \A u \in Time :
        /\ f[u] = IF s \in SymbolsAt(b, u) THEN [j \in 1..taken[<<u, s>>] |-> u] ELSE <<>>
        /\ g[u] = IF s \in SymbolsAt(b, u) THEN [j \in 1..taken'[<<u, s>>] |-> u] ELSE <<>>
  BY <1>3, <1>4, <1>7 DEF Segments
<1>10. CASE s = k[2] /\ s \in SymbolsAt(b, k[1])
  <2>1. taken[k] \in Nat /\ taken'[k] = taken[k] + 1 /\ <<k[1], s>> = k
    BY <1>1, <1>10 DEF TypeInv, TypeOK
  <2>2. /\ f[k[1]] = [j \in 1..taken[k] |-> k[1]]
        /\ g[k[1]] = [j \in 1..(taken[k] + 1) |-> k[1]]
    BY <1>1, <1>9, <1>10, <2>1, Zenon
  <2>5. [j \in 1..(taken[k] + 1) |-> k[1]] = Append([j \in 1..taken[k] |-> k[1]], k[1])
    BY <1>1, <2>1, OneMore, Zenon
  <2>6. g[k[1]] = Append(f[k[1]], k[1])
    BY <2>2, <2>5, Zenon
  <2>3. ASSUME NEW u \in FromTime..(k[1] - 1) PROVE f[u] = g[u]
    <3>1. u \in Time /\ u # k[1]
      BY <1>1, Times DEF Time
    <3>2. <<u, s>> \in Key /\ <<u, s>> # k
      BY <1>1, <3>1 DEF Key
    <3> QED
      BY <1>1, <1>9, <3>1, <3>2
  <2>4. Concat(g, k[1]) = Append(Concat(f, k[1]), k[1])
    BY <1>1, <1>2, <1>5, <2>6, <2>3, ConcatLonger
  <2> QED
    BY <1>4, <1>6, <1>8, <1>10, <2>4
<1>11. CASE ~(s = k[2] /\ s \in SymbolsAt(b, k[1]))
  <2>1. ASSUME NEW u \in FromTime..k[1] PROVE f[u] = g[u]
    <3>1. u \in Time /\ <<u, s>> \in Key
      BY <1>1, Times DEF Time, Key
    <3>2. CASE <<u, s>> = k
      <4>1. u = k[1] /\ s = k[2]
        BY <1>1, <3>2
      <4> QED
        BY <1>9, <1>11, <3>1, <4>1
    <3>3. CASE <<u, s>> # k
      BY <1>1, <1>9, <3>1, <3>3
    <3> QED
      BY <3>2, <3>3
  <2>2. Concat(f, k[1]) = Concat(g, k[1])
    BY <1>2, <1>5, <2>1, ConcatSame
  <2> QED
    BY <1>4, <1>6, <1>8, <1>11, <2>2
<1> QED
  BY <1>10, <1>11

\* What process_binding makes of the engines: the bar is added at the end of one.
LEMMA ProcessBindingAppends ==
  ASSUME TypeInv, PastInv, ProcessBinding
  PROVE  /\ todo \in Binding /\ bar[2] \in Symbol /\ clock = bar[1] /\ clock \in Time
         /\ Observed(history[<<todo, bar[2]>>], bar[1]) = Append(history[<<todo, bar[2]>>], clock)
         /\ \A b \in Binding, s \in Symbol :
              /\ history[<<b, s>>] \in Seq(Time)
              /\ history'[<<b, s>>] = IF b = todo /\ s = bar[2] THEN Append(history[<<b, s>>], clock)
                                      ELSE history[<<b, s>>]
<1> DEFINE seen == Observed(history[Slot(todo, bar[2])], bar[1])
<1>1. /\ todo \in Binding /\ bar \in Key
      /\ \A c \in Binding \X Symbol :
           history'[c] = IF c = Slot(todo, bar[2]) THEN seen ELSE history[c]
  BY ProcessBindingEffect
<1>2. bar[2] \in Symbol /\ clock = bar[1] /\ clock \in Time
  BY <1>1 DEF ProcessBinding, TypeInv, LoopInv, Key
<1>3. \A b \in Binding, s \in Symbol : history[<<b, s>>] \in Seq(Time)
  BY DEF TypeInv, TypeOK
<1>4. \A i \in DOMAIN history[<<todo, bar[2]>>] : history[<<todo, bar[2]>>][i] <= clock
  BY <1>1, <1>2 DEF PastInv, EnginesHoldThePast
<1>5. seen = Append(history[<<todo, bar[2]>>], clock)
  <2>1. history[<<todo, bar[2]>>] \in Seq(Time)
    BY <1>1, <1>2, <1>3
  <2> QED
    BY <1>2, <1>4, <2>1, ObservedAppends DEF Slot
<1>6. Observed(history[<<todo, bar[2]>>], bar[1]) = seen
  BY DEF Slot
<1> HIDE DEF seen
<1>7. ASSUME NEW b \in Binding, NEW s \in Symbol
      PROVE  history'[<<b, s>>] = IF b = todo /\ s = bar[2] THEN Append(history[<<b, s>>], clock)
                                  ELSE history[<<b, s>>]
  BY <1>1, <1>5 DEF Slot
<1> QED
  BY <1>1, <1>2, <1>3, <1>5, <1>6, <1>7

\* An engine gets a bar when its binding takes it, and each bar only once.
LEMMA EnginesFollowKept ==
  ASSUME TypeInv, TypeInv', PastInv, Fresh, LoopFacts, VersionsAreCounted, EnginesFollow, [Next]_vars
  PROVE  EnginesFollow'
<1>0. /\ UNCHANGED <<given, published, strategyOf>>
      /\ \A b, t : SymbolsAt(b, t)' = SymbolsAt(b, t)
  <2>1. UNCHANGED <<given, published, strategyOf>>
    BY InputsStay
  <2> QED
    BY <2>1, UniversesStay
<1>1. CASE Initialize
  <2>1. CASE status' = "unknown"
    BY <2>1 DEF EnginesFollow, Going
  <2>2. CASE status' = "sorted"
    <3>1. /\ clock' = FromTime /\ taken' = taken /\ \A k \in Key : taken[k] = 0
          /\ \A b \in Binding, s \in Symbol : history'[<<b, s>>] = <<>>
      BY <1>1, <2>2 DEF Initialize, scheduler, Fresh
    <3>2. ASSUME NEW b \in Binding, NEW s \in Symbol
          PROVE  Concat(Segments(b, s), FromTime) = <<>>
      <4>1. Segments(b, s) \in [Time -> Seq(Time)] /\ Segments(b, s)[FromTime] = <<>>
        <5>1. <<FromTime, s>> \in Key /\ FromTime \in Time
          BY Times DEF Key
        <5> QED
          BY <3>1, <5>1, SegmentsType
      <4> QED
        BY <4>1, ConcatFirst
    <3>3. ASSUME NEW b \in Binding, NEW s \in Symbol
          PROVE  Segments(b, s)' = Segments(b, s) /\ ~Waits(b, s)'
      BY <1>0, <2>2, <3>1 DEF Segments, Waits
    <3> QED
      BY <3>1, <3>2, <3>3 DEF EnginesFollow, Concat
  <2> QED
    BY <1>1, <2>1, <2>2 DEF Initialize
<1>2. ASSUME NEW k \in Key, TakeBar(k) PROVE EnginesFollow'
  <2>1. status' = "early" \/ (status' = "saving" /\ clock' = k[1] /\ clock <= k[1])
    BY <1>2, Times DEF TakeBar, AdvanceToBar, MovesBack, TypeInv, BarsComeInOrder, IsNext, Key,
                       Time, TypeOK
  <2>2. CASE status' = "early"
    BY <2>2 DEF EnginesFollow, Going
  <2> QED
    BY <1>0, <1>2, <2>1, <2>2, TakeBarFollows
<1>3. CASE SaveBar
  <2>1. status' \in Going => \A b \in Binding, s \in Symbol : Waits(b, s)' <=> Waits(b, s)
    BY <1>0, <1>3 DEF SaveBar, Waits, Going, scheduler
  <2> QED
    BY <1>0, <1>3, <2>1, EnginesStay DEF SaveBar, state, scheduler, Going
<1>4. CASE CheckUniverses
  <2>1. status' \in Going => \A b \in Binding, s \in Symbol : Waits(b, s)' <=> Waits(b, s)
    BY <1>0, <1>4 DEF CheckUniverses, Waits, Going, scheduler
  <2> QED
    BY <1>0, <1>4, <2>1, EnginesStay DEF CheckUniverses, scheduler, Going
<1>5. CASE CountBar
  <2>1. \A b \in Binding : b >= 1
    BY RunAssumption DEF Binding
  <2>2. \A b \in Binding, s \in Symbol : Waits(b, s)' <=> Waits(b, s)
    BY <1>0, <1>5, <2>1 DEF CountBar, Waits, scheduler
  <2> QED
    BY <1>0, <1>5, <2>2, EnginesStay DEF CountBar, scheduler, Going
<1>6. CASE SkipBinding
  <2>1. status = "binding" /\ status' \in {"binding", "sorted"} /\ ~Takes(todo) /\ GoOn
        /\ UNCHANGED <<taken, bar, clock, history>>
    BY <1>6, GoOnGoesOn DEF SkipBinding, scheduler, state
  <2>2. \A s : ~Waits(todo, s)
    BY <2>1, TakesWhenItHas DEF Waits
  <2>3. \A b \in Binding, s \in Symbol : Waits(b, s)' <=> Waits(b, s)
    BY <1>0, <2>1, <2>2, GoOnWaits
  <2> QED
    BY <1>0, <2>1, <2>3, EnginesStay DEF Going
<1>7. CASE ProcessBinding
  <2>0. CASE status' = "refused"
    BY <2>0 DEF EnginesFollow, Going
  <2>1. CASE status' # "refused"
    <3>1. GoOn /\ status = "binding" /\ Takes(todo) /\ UNCHANGED <<taken, bar, clock>>
      BY <1>7, <2>1 DEF ProcessBinding, AppendSignal, scheduler
    <3>2. /\ todo \in Binding /\ bar[2] \in Symbol
          /\ \A b \in Binding, s \in Symbol :
               history'[<<b, s>>] = IF b = todo /\ s = bar[2] THEN Append(history[<<b, s>>], clock)
                                    ELSE history[<<b, s>>]
      BY <1>7, ProcessBindingAppends
    <3>3. bar[2] \in SymbolsAt(todo, clock)
      BY <3>1, TakesWhenItHas
    <3>4. \A s : Waits(todo, s) <=> s = bar[2]
      <4>1. todo >= todo
        BY <3>2 DEF Binding
      <4> QED
        BY <3>1, <3>3, <4>1 DEF Waits
    <3>5. \A b \in Binding, s \in Symbol : Waits(b, s)' <=> Waits(b, s) /\ b # todo
      BY <1>0, <3>1, GoOnWaits
    <3>6. ASSUME NEW b \in Binding, NEW s \in Symbol
          PROVE  Concat(Segments(b, s)', clock) =
                   IF Waits(b, s)' THEN Append(history'[<<b, s>>], clock) ELSE history'[<<b, s>>]
      <4>1. Segments(b, s)' = Segments(b, s)
        BY <1>0, <3>1 DEF Segments
      <4>2. Concat(Segments(b, s), clock) = IF Waits(b, s) THEN Append(history[<<b, s>>], clock)
                                            ELSE history[<<b, s>>]
        BY <3>1 DEF EnginesFollow, Going
      <4> QED
        BY <3>2, <3>4, <3>5, <4>1, <4>2
    <3> QED
      BY <3>1, <3>6 DEF EnginesFollow, Concat
  <2> QED
    BY <2>0, <2>1
<1>8. CASE Finish
  <2>1. \A b \in Binding, s \in Symbol : Waits(b, s)' <=> Waits(b, s)
    BY <1>8 DEF Finish, Waits
  <2> QED
    BY <1>0, <1>8, <2>1, EnginesStay DEF Finish, scheduler, state, Going
<1>9. CASE UNCHANGED vars
  <2>1. \A b \in Binding, s \in Symbol : Waits(b, s)' <=> Waits(b, s)
    BY <1>0, <1>9 DEF vars, loop, scheduler, Waits
  <2> QED
    BY <1>0, <1>9, <2>1, EnginesStay DEF vars, loop, scheduler, state, Going
<1> QED
  BY <1>1, <1>2, <1>3, <1>4, <1>5, <1>6, <1>7, <1>8, <1>9 DEF Next

-----------------------------------------------------------------------------
(* Counts *)

\* A step that counts nothing, makes no engine longer, and offers nothing.
LEMMA CountsStay ==
  ASSUME TypeInv, CountsSuffice, UNCHANGED <<history, counts>>,
         status' \in Going => status \in Going,
         status' = "binding" => status = "binding",
         status' = "binding" => \A b \in Binding, s \in Symbol : Waits(b, s)' => Waits(b, s)
  PROVE  CountsSuffice'
<1>1. ASSUME NEW b \in Binding, NEW s \in Symbol
      PROVE  Len(history[<<b, s>>]) \in Nat /\ counts[s] \in Nat
  <2>1. history[<<b, s>>] \in Seq(Time)
    BY DEF TypeInv, TypeOK
  <2> QED
    BY <2>1 DEF TypeInv, TypeOK
<1>2. ASSUME status' \in Going, NEW b \in Binding, NEW s \in Symbol
      PROVE  IF status' = "binding" /\ Waits(b, s)' THEN Len(history[<<b, s>>]) < counts[s]
             ELSE Len(history[<<b, s>>]) <= counts[s]
  <2>1. Len(history[<<b, s>>]) \in Nat /\ counts[s] \in Nat
    BY <1>1
  <2>2. IF status = "binding" /\ Waits(b, s) THEN Len(history[<<b, s>>]) < counts[s]
        ELSE Len(history[<<b, s>>]) <= counts[s]
    BY <1>2 DEF CountsSuffice
  <2> QED
    BY <1>2, <2>1, <2>2
<1> QED
  BY <1>2 DEF CountsSuffice

\* The bar that a binding has yet to take has a slot, and is counted.
LEMMA CountBarCounts ==
  ASSUME TypeInv, VersionsAreCounted, SlotsAreMade, CountsSuffice, CountBar
  PROVE  CountsSuffice'
<1>1. /\ status = "counting" /\ status' = "binding" /\ UNCHANGED <<published, bar, clock, history>>
      /\ bar[2] \in Symbol
  BY DEF CountBar, inputs, scheduler, TypeInv, LoopInv, Key
<1>2. Settled
  BY <1>1 DEF VersionsAreCounted, Unsettled, Going
<1>3. ASSUME NEW b \in Binding, NEW s \in Symbol
      PROVE  IF Waits(b, s)' THEN Len(history[<<b, s>>]) < counts'[s]
             ELSE Len(history[<<b, s>>]) <= counts'[s]
  <2>1. Len(history[<<b, s>>]) \in Nat /\ counts[s] \in Nat
    <3>1. history[<<b, s>>] \in Seq(Time)
      BY DEF TypeInv, TypeOK
    <3> QED
      BY <3>1 DEF TypeInv, TypeOK
  <2>2. Len(history[<<b, s>>]) <= counts[s]
    BY <1>1 DEF CountsSuffice, Going
  <2>3. counts'[s] \in {counts[s], counts[s] + 1}
    BY <1>1 DEF CountBar, TypeInv, TypeOK
  <2>4. CASE Waits(b, s)'
    <3>1. s = bar[2] /\ s \in SymbolsAt(b, clock)
      BY <1>1, <2>4 DEF Waits, SymbolsAt, Snapshots
    <3>2. versions[b] \in DOMAIN Snapshots(b) /\ Slot(b, s) \in slots
      BY <1>1, <1>2, <3>1 DEF SlotsAreMade, Going, Settled, SymbolsAt
    <3>3. versions[b] # 0
      <4>1. Snapshots(b) \in Seq(Snapshot)
        BY RunAssumption DEF TypeInv, InputsInv, Snapshots
      <4> QED
        BY <3>2, <4>1
    <3>4. counts'[s] = counts[s] + 1
      BY <1>1, <3>1, <3>2, <3>3 DEF CountBar, TypeInv, TypeOK
    <3> QED
      BY <2>1, <2>2, <2>4, <3>4
  <2> QED
    BY <2>1, <2>2, <2>3, <2>4
<1> QED
  BY <1>1, <1>3 DEF CountsSuffice

\* A bar that a binding takes has been counted.
LEMMA CountsSufficeKept ==
  ASSUME TypeInv, PastInv, Fresh, VersionsAreCounted, SlotsAreMade, CountsSuffice, [Next]_vars
  PROVE  CountsSuffice'
<1>0. UNCHANGED <<given, published, strategyOf>>
  BY InputsStay
<1>1. CASE Initialize
  <2>1. /\ status' \in {"sorted", "unknown"} /\ UNCHANGED <<history, counts>>
        /\ \A b \in Binding, s \in Symbol : history[<<b, s>>] = <<>>
        /\ \A s \in Symbol : counts[s] = 0
    BY <1>1 DEF Initialize, Fresh
  <2>2. ASSUME NEW b \in Binding, NEW s \in Symbol
        PROVE  Len(history[<<b, s>>]) <= counts[s]
    <3>1. Len(history[<<b, s>>]) = Len(<<>>) /\ counts[s] = 0
      BY <2>1
    <3>2. Len(<<>>) = 0
      OBVIOUS
    <3> QED
      BY <3>1, <3>2
  <2> QED
    BY <2>1, <2>2 DEF CountsSuffice, Going
<1>2. ASSUME NEW k \in Key, TakeBar(k) PROVE CountsSuffice'
  BY <1>2, CountsStay DEF TakeBar, state, Going
<1>3. CASE SaveBar
  BY <1>3, CountsStay DEF SaveBar, state, Going
<1>4. CASE CheckUniverses
  BY <1>4, CountsStay DEF CheckUniverses, Going
<1>5. CASE CountBar
  BY <1>5, CountBarCounts
<1>6. CASE SkipBinding
  <2>1. status = "binding" /\ status' \in {"binding", "sorted"} /\ GoOn
        /\ UNCHANGED <<published, bar, clock, history, counts>>
    BY <1>0, <1>6, GoOnGoesOn DEF SkipBinding, scheduler, state
  <2>2. \A b \in Binding, s \in Symbol : Waits(b, s)' => Waits(b, s)
    BY <2>1, GoOnWaits
  <2> QED
    BY <2>1, <2>2, CountsStay DEF Going
<1>7. CASE ProcessBinding
  <2>0. CASE status' = "refused"
    BY <2>0 DEF CountsSuffice, Going
  <2>1. CASE status' # "refused"
    <3>1. GoOn /\ status = "binding" /\ Takes(todo) /\ UNCHANGED <<published, bar, clock, counts>>
      BY <1>0, <1>7, <2>1 DEF ProcessBinding, AppendSignal, scheduler
    <3>2. /\ todo \in Binding /\ bar[2] \in Symbol /\ clock \in Time
          /\ \A b \in Binding, s \in Symbol :
               /\ history[<<b, s>>] \in Seq(Time)
               /\ history'[<<b, s>>] = IF b = todo /\ s = bar[2] THEN Append(history[<<b, s>>], clock)
                                       ELSE history[<<b, s>>]
      BY <1>7, ProcessBindingAppends
    <3>3. Waits(todo, bar[2])
      <4>1. bar[2] \in SymbolsAt(todo, clock)
        BY <3>1, TakesWhenItHas
      <4>2. todo >= todo
        BY <3>2 DEF Binding
      <4> QED
        BY <3>1, <4>1, <4>2 DEF Waits
    <3>4. ASSUME NEW b \in Binding, NEW s \in Symbol
          PROVE  IF status' = "binding" /\ Waits(b, s)' THEN Len(history'[<<b, s>>]) < counts[s]
                 ELSE Len(history'[<<b, s>>]) <= counts[s]
      <4>1. Len(history[<<b, s>>]) \in Nat /\ counts[s] \in Nat
        BY <3>2 DEF TypeInv, TypeOK
      <4>2. IF Waits(b, s) THEN Len(history[<<b, s>>]) < counts[s]
            ELSE Len(history[<<b, s>>]) <= counts[s]
        BY <3>1 DEF CountsSuffice, Going
      <4>3. Waits(b, s)' <=> Waits(b, s) /\ b # todo
        BY <3>1, GoOnWaits
      <4>4. CASE b = todo /\ s = bar[2]
        <5>1. Len(history'[<<b, s>>]) = Len(history[<<b, s>>]) + 1
          <6>1. history'[<<b, s>>] = Append(history[<<b, s>>], clock) /\ history[<<b, s>>] \in Seq(Time)
            BY <3>2, <4>4
          <6> QED
            BY <3>2, <6>1
        <5> QED
          BY <3>3, <4>1, <4>2, <4>3, <4>4, <5>1
      <4>5. CASE ~(b = todo /\ s = bar[2])
        <5>1. history'[<<b, s>>] = history[<<b, s>>]
          BY <3>2, <4>5
        <5> QED
          BY <4>1, <4>2, <4>3, <5>1
      <4> QED
        BY <4>4, <4>5
    <3> QED
      BY <3>1, <3>4 DEF CountsSuffice
  <2> QED
    BY <2>0, <2>1
<1>8. CASE Finish
  BY <1>8, CountsStay DEF Finish, state, Going
<1>9. CASE UNCHANGED vars
  <2>1. \A b \in Binding, s \in Symbol : Waits(b, s)' <=> Waits(b, s)
    BY <1>0, <1>9 DEF vars, loop, scheduler, Waits, SymbolsAt, Snapshots
  <2> QED
    BY <1>9, <2>1, CountsStay DEF vars, loop, state, Going
<1> QED
  BY <1>1, <1>2, <1>3, <1>4, <1>5, <1>6, <1>7, <1>8, <1>9 DEF Next

-----------------------------------------------------------------------------
(* Signals *)

\* All of a sequence is its longest prefix.
LEMMA PrefixesStay ==
  ASSUME NEW h \in Seq(Time), NEW t \in Time
  PROVE  /\ Append(h, t) \in Seq(Time) /\ Len(h) \in Nat
         /\ Len(Append(h, t)) = Len(h) + 1
         /\ Append(h, t)[Len(h) + 1] = t
         /\ SubSeq(Append(h, t), 1, Len(h) + 1) = Append(h, t)
         /\ \A n \in 1..Len(h) : /\ Append(h, t)[n] = h[n]
                                 /\ SubSeq(Append(h, t), 1, n) = SubSeq(h, 1, n)
<1>1. PICK g : g = Append(h, t)
  OBVIOUS
<1>2. /\ Len(h) \in Nat /\ g \in Seq(Time) /\ Len(g) = Len(h) + 1 /\ g[Len(h) + 1] = t
      /\ \A n \in 1..Len(h) : g[n] = h[n]
  BY <1>1
<1>3. SubSeq(g, 1, Len(h) + 1) = g
  BY <1>2
<1>4. ASSUME NEW n \in 1..Len(h) PROVE SubSeq(g, 1, n) = SubSeq(h, 1, n)
  <2>1. /\ SubSeq(g, 1, n) \in Seq(Time) /\ SubSeq(h, 1, n) \in Seq(Time)
        /\ Len(SubSeq(g, 1, n)) = n /\ Len(SubSeq(h, 1, n)) = n
        /\ \A i \in 1..n : SubSeq(g, 1, n)[i] = g[i] /\ SubSeq(h, 1, n)[i] = h[i]
    BY <1>2
  <2>2. \A i \in 1..n : i \in 1..Len(h)
    BY <1>2
  <2>3. \A i \in 1..n : SubSeq(g, 1, n)[i] = SubSeq(h, 1, n)[i]
    BY <1>2, <2>1, <2>2
  <2> QED
    BY <2>1, <2>3, SeqEqual
<1> QED
  BY <1>1, <1>2, <1>3, <1>4

\* The signal that the last of a sequence of bars calls for, if it does.
LastCall(b, s, h) == IF HasCandidate(h, s) THEN {CallFor(b, s, h, Len(h))} ELSE {}

\* One more bar may call for one more signal.
LEMMA CallsOfOneMore ==
  ASSUME NEW b, NEW s, NEW h \in Seq(Time), NEW t \in Time
  PROVE  CallsFor(b, s, Append(h, t)) = CallsFor(b, s, h) \cup LastCall(b, s, Append(h, t))
<1>1. PICK g : g = Append(h, t)
  OBVIOUS
<1>2. /\ Len(h) \in Nat /\ Len(g) = Len(h) + 1
      /\ SubSeq(g, 1, Len(g)) = g
      /\ \A n \in 1..Len(h) : g[n] = h[n] /\ SubSeq(g, 1, n) = SubSeq(h, 1, n)
  BY <1>1, PrefixesStay
<1>3. \A n \in 1..Len(h) : CallFor(b, s, g, n) = CallFor(b, s, h, n)
  BY <1>2 DEF CallFor
<1>4. 1..Len(g) = 1..Len(h) \cup {Len(g)}
  BY <1>2
<1>5. \A n \in 1..Len(h) : HasCandidate(SubSeq(g, 1, n), s) <=> HasCandidate(SubSeq(h, 1, n), s)
  BY <1>2
<1>6. HasCandidate(SubSeq(g, 1, Len(g)), s) <=> HasCandidate(g, s)
  BY <1>2
<1>7. CallsFor(b, s, g) = CallsFor(b, s, h) \cup LastCall(b, s, g)
  BY <1>3, <1>4, <1>5, <1>6, Zenon DEF CallsFor, LastCall
<1> QED
  BY <1>1, <1>7, Zenon

\* What a call is one of.
LEMMA InCalls ==
  ASSUME NEW e
  PROVE  /\ e \in Calls <=> \E b \in Binding, s \in Symbol : e \in CallsFor(b, s, history[<<b, s>>])
         /\ e \in Calls' <=> \E b \in Binding, s \in Symbol : e \in CallsFor(b, s, history[<<b, s>>])'
<1>1. e \in Calls => \E b \in Binding, s \in Symbol : e \in CallsFor(b, s, history[<<b, s>>])
  BY SMT DEF Calls
<1>2. ASSUME NEW b \in Binding, NEW s \in Symbol, e \in CallsFor(b, s, history[<<b, s>>])
      PROVE  e \in Calls
  BY <1>2 DEF Calls
<1>3. e \in Calls' => \E b \in Binding, s \in Symbol : e \in CallsFor(b, s, history[<<b, s>>])'
  BY SMT DEF Calls
<1>4. ASSUME NEW b \in Binding, NEW s \in Symbol, e \in CallsFor(b, s, history[<<b, s>>])'
      PROVE  e \in Calls'
  BY <1>4 DEF Calls
<1> QED
  BY <1>1, <1>2, <1>3, <1>4, Zenon

\* The calls of all engines, when one has one more bar.
LEMMA CallsGrow ==
  ASSUME strategyOf' = strategyOf, NEW c \in Binding, NEW x \in Symbol, NEW t \in Time,
         \A b \in Binding, s \in Symbol :
           /\ history[<<b, s>>] \in Seq(Time)
           /\ history'[<<b, s>>] = IF b = c /\ s = x THEN Append(history[<<b, s>>], t)
                                   ELSE history[<<b, s>>]
  PROVE  Calls' = Calls \cup LastCall(c, x, Append(history[<<c, x>>], t))
<1>0. PICK d \in Seq(Time) : d = history[<<c, x>>]
  OBVIOUS
<1> DEFINE h == Append(d, t)
           new == LastCall(c, x, h)
<1>1. CallsFor(c, x, h) = CallsFor(c, x, d) \cup new
  BY CallsOfOneMore
<1>2. ASSUME NEW b \in Binding, NEW s \in Symbol
      PROVE  CallsFor(b, s, history[<<b, s>>])' = CallsFor(b, s, history'[<<b, s>>])
  BY DEF CallsFor, CallFor, IdOf
<1>3. history'[<<c, x>>] = h
  BY <1>0
<1>4. ASSUME NEW b \in Binding, NEW s \in Symbol, ~(b = c /\ s = x)
      PROVE  history'[<<b, s>>] = history[<<b, s>>]
  BY <1>4
<1> HIDE DEF new, h
<1>5. CallsFor(c, x, history[<<c, x>>])' = CallsFor(c, x, history[<<c, x>>]) \cup new
  <2>1. CallsFor(c, x, history[<<c, x>>])' = CallsFor(c, x, history'[<<c, x>>])
    BY <1>2
  <2> QED
    BY <1>0, <1>1, <1>3, <2>1, Zenon
<1>6. ASSUME NEW b \in Binding, NEW s \in Symbol, ~(b = c /\ s = x)
      PROVE  CallsFor(b, s, history[<<b, s>>])' = CallsFor(b, s, history[<<b, s>>])
  BY <1>2, <1>4, <1>6, Zenon
<1>8. ASSUME NEW e PROVE e \in Calls' <=> e \in Calls \/ e \in new
  BY <1>5, <1>6, InCalls, Zenon
<1>9. Calls' = Calls \cup new
  BY <1>8
<1> QED
  BY <1>0, <1>9 DEF new, h

\* Engines that stay call for the same.
LEMMA CallsStay ==
  ASSUME UNCHANGED <<strategyOf, history>>
  PROVE  Calls' = Calls
<1>1. \A b, s : CallsFor(b, s, history[<<b, s>>])' = CallsFor(b, s, history[<<b, s>>])
  BY DEF CallsFor, CallFor, IdOf
<1>2. \A e : e \in Calls' <=> e \in Calls
  BY <1>1, InCalls, Zenon
<1> QED
  BY <1>2

\* A step that leaves the engines and the signals.
LEMMA SignalsStay ==
  ASSUME SignalsAreCalledFor, UNCHANGED <<strategyOf, history, signals, generated>>,
         status' \in Going => status \in Going
  PROVE  SignalsAreCalledFor'
<1>1. Calls' = Calls
  BY CallsStay
<1> QED
  BY <1>1 DEF SignalsAreCalledFor

\* Engines without bars call for no signal.
LEMMA NoCallsAtFirst ==
  ASSUME \A b \in Binding, s \in Symbol : history[<<b, s>>] = <<>>
  PROVE  Calls = {}
<1>1. ASSUME NEW b \in Binding, NEW s \in Symbol PROVE CallsFor(b, s, history[<<b, s>>]) = {}
  <2>1. 1..Len(<<>>) = {}
    OBVIOUS
  <2>2. {m \in 1..Len(<<>>) : HasCandidate(SubSeq(<<>>, 1, m), s)} = {}
    BY <2>1, Zenon
  <2>3. CallsFor(b, s, <<>>) = {}
    BY <2>2, Zenon DEF CallsFor
  <2> QED
    BY <2>3, Zenon
<1>2. ASSUME NEW e \in Calls PROVE FALSE
  <2>1. PICK b \in Binding, s \in Symbol : e \in CallsFor(b, s, history[<<b, s>>])
    BY InCalls
  <2> QED
    BY <1>1, <2>1
<1> QED
  BY <1>2

\* The call of a longer sequence of bars is not one of those there are.
LEMMA CallIsNew ==
  ASSUME NEW b \in Binding, NEW s \in Symbol, NEW h, NEW t \in Time,
         h = history[<<b, s>>], h \in Seq(Time)
  PROVE  CallFor(b, s, Append(h, t), Len(Append(h, t))) \notin Calls
<1> DEFINE new == CallFor(b, s, Append(h, t), Len(Append(h, t)))
<1>1. /\ new.binding = b /\ new.length = Len(h) + 1 /\ new.event.id.symbol = s
      /\ Len(h) \in Nat
  BY DEF CallFor, IdOf
<1> HIDE DEF new
<1> SUFFICES ASSUME new \in Calls PROVE FALSE
  BY DEF new
<1>2. PICK c \in Binding, x \in Symbol : new \in CallsFor(c, x, history[<<c, x>>])
  BY InCalls
<1>3. PICK n \in 1..Len(history[<<c, x>>]) : new = CallFor(c, x, history[<<c, x>>], n)
  BY <1>2 DEF CallsFor
<1>4. new.binding = c /\ new.length = n /\ new.event.id.symbol = x
  BY <1>3 DEF CallFor, IdOf
<1>5. n \in 1..Len(h) /\ n = Len(h) + 1
  BY <1>1, <1>3, <1>4
<1> QED
  BY <1>1, <1>5

\* A binding that takes a bar makes the signal that its engine calls for, and no other.
LEMMA ProcessBindingSignals ==
  ASSUME TypeInv, PastInv, SignalsAreCalledFor, ProcessBinding
  PROVE  SignalsAreCalledFor'
<1> DEFINE h == history[<<todo, bar[2]>>]
           seen == Observed(h, bar[1])
           event == [id |-> IdOf(todo, bar, Decide(bar[2], Window(seen))), window |-> Window(seen)]
<1>1. /\ todo \in Binding /\ bar[2] \in Symbol /\ clock = bar[1] /\ clock \in Time
      /\ h \in Seq(Time) /\ seen = Append(h, clock)
      /\ \A b \in Binding, s \in Symbol :
           /\ history[<<b, s>>] \in Seq(Time)
           /\ history'[<<b, s>>] = IF b = todo /\ s = bar[2] THEN Append(history[<<b, s>>], clock)
                                   ELSE history[<<b, s>>]
  BY ProcessBindingAppends
<1>2. \/ ~HasCandidate(seen, bar[2]) /\ UNCHANGED <<signals, generated>>
      \/ status' = "refused"
      \/ /\ HasCandidate(seen, bar[2])
         /\ signals' = signals \cup {event} /\ generated' = generated + 1
  BY ProcessBindingEffect DEF Slot
<1>3. status = "binding" /\ strategyOf' = strategyOf /\ bar \in Key
  BY ProcessBindingEffect DEF ProcessBinding, inputs
<1>4. Calls' = Calls \cup LastCall(todo, bar[2], seen)
  BY <1>1, <1>3, CallsGrow
<1>5. /\ IsFiniteSet(Calls) /\ signals = {c.event : c \in Calls} /\ generated = Cardinality(Calls)
  BY <1>3 DEF SignalsAreCalledFor, Going
<1>6. CallFor(todo, bar[2], seen, Len(seen)).event = event
  <2>1. PICK g \in Seq(Time) : g = h
    BY <1>1
  <2>2. Append(g, clock)[Len(g) + 1] = clock /\ Len(Append(g, clock)) = Len(g) + 1
        /\ SubSeq(Append(g, clock), 1, Len(g) + 1) = Append(g, clock)
    BY <1>1, PrefixesStay
  <2>3. seen[Len(seen)] = bar[1] /\ SubSeq(seen, 1, Len(seen)) = seen
    BY <1>1, <2>1, <2>2, Zenon
  <2> HIDE DEF seen
  <2> QED
    BY <2>3 DEF CallFor, IdOf
<1>7. CallFor(todo, bar[2], seen, Len(seen)) \notin Calls
  <2>1. PICK g : g = h
    OBVIOUS
  <2>2. CallFor(todo, bar[2], Append(g, clock), Len(Append(g, clock))) \notin Calls
    BY <1>1, <2>1, CallIsNew
  <2> QED
    BY <1>1, <2>1, <2>2, Zenon
<1> HIDE DEF event, seen
<1>8. CASE ~HasCandidate(seen, bar[2]) /\ UNCHANGED <<signals, generated>>
  <2>1. Calls' = Calls
    BY <1>4, <1>8 DEF LastCall
  <2> QED
    BY <1>5, <1>8, <2>1 DEF SignalsAreCalledFor
<1>9. CASE status' = "refused"
  BY <1>9 DEF SignalsAreCalledFor, Going
<1>10. CASE HasCandidate(seen, bar[2]) /\ signals' = signals \cup {event} /\ generated' = generated + 1
  <2>1. PICK new : new = CallFor(todo, bar[2], seen, Len(seen))
    OBVIOUS
  <2>2. Calls' = Calls \cup {new} /\ new \notin Calls /\ new.event = event
    BY <1>4, <1>6, <1>7, <1>10, <2>1 DEF LastCall
  <2>3. IsFiniteSet(Calls') /\ Cardinality(Calls') = Cardinality(Calls) + 1
    BY <1>5, <2>2, FS_AddElement
  <2>4. signals' = {c.event : c \in Calls'}
    BY <1>5, <1>10, <2>2
  <2> QED
    BY <1>5, <1>10, <2>3, <2>4 DEF SignalsAreCalledFor
<1> QED
  BY <1>2, <1>8, <1>9, <1>10

\* Signals are made when a binding takes a bar.
LEMMA SignalsAreCalledForKept ==
  ASSUME TypeInv, PastInv, Fresh, SignalsAreCalledFor, [Next]_vars
  PROVE  SignalsAreCalledFor'
<1>0. UNCHANGED strategyOf
  BY InputsStay
<1>1. CASE Initialize
  <2>1. /\ UNCHANGED <<history, signals, generated>> /\ signals = {} /\ generated = 0
        /\ \A b \in Binding, s \in Symbol : history[<<b, s>>] = <<>>
    BY <1>1 DEF Initialize, Fresh
  <2>2. Calls = {}
    BY <2>1, NoCallsAtFirst
  <2>3. Calls' = Calls
    BY <1>0, <2>1, CallsStay
  <2>4. IsFiniteSet(Calls') /\ Cardinality(Calls') = 0
    BY <2>2, <2>3, FS_EmptySet
  <2> QED
    BY <2>1, <2>2, <2>3, <2>4 DEF SignalsAreCalledFor
<1>2. ASSUME NEW k \in Key, TakeBar(k) PROVE SignalsAreCalledFor'
  BY <1>0, <1>2, SignalsStay DEF TakeBar, state, Going
<1>3. CASE SaveBar
  BY <1>0, <1>3, SignalsStay DEF SaveBar, state, Going
<1>4. CASE CheckUniverses
  BY <1>0, <1>4, SignalsStay DEF CheckUniverses, Going
<1>5. CASE CountBar
  BY <1>0, <1>5, SignalsStay DEF CountBar, Going
<1>6. CASE SkipBinding
  BY <1>0, <1>6, SignalsStay DEF SkipBinding, state, Going
<1>7. CASE ProcessBinding
  BY <1>7, ProcessBindingSignals
<1>8. CASE Finish
  BY <1>0, <1>8, SignalsStay DEF Finish, state, Going
<1>9. CASE UNCHANGED vars
  BY <1>0, <1>9, SignalsStay DEF vars, loop, state, Going
<1> QED
  BY <1>1, <1>2, <1>3, <1>4, <1>5, <1>6, <1>7, <1>8, <1>9 DEF Next

-----------------------------------------------------------------------------
(* Runs that follow their universes, and that finish *)

RunInv == /\ TypeInv /\ PastInv /\ Fresh /\ LoopFacts /\ VersionsAreCounted /\ SlotsAreMade
          /\ EnginesFollow /\ CountsSuffice /\ SignalsAreCalledFor

\* What a binding follows is made of the bars that were taken.
LEMMA FollowedIsConcat ==
  ASSUME NEW b, NEW s, NEW t \in FromTime..LastTime
  PROVE  Followed(b, s, t) = Concat(Segments(b, s), t)
<1>1. \A i \in 1..(t + 1 - FromTime) : FromTime + i - 1 \in Time
  BY Times DEF Time
<1>2. \A i \in 1..(t + 1 - FromTime) :
        Segments(b, s)[FromTime + i - 1] =
          IF s \in SymbolsAt(b, FromTime + i - 1)
            THEN [j \in 1..taken[<<FromTime + i - 1, s>>] |-> FromTime + i - 1] ELSE <<>>
  BY <1>1 DEF Segments
<1> QED
  BY <1>2 DEF Followed, FollowedOf, Concat

\* Between two bars, and at the end, the engines hold what their bindings follow.
LEMMA EnginesHoldFollowed ==
  ASSUME RunInv, status \in {"sorted", "finished"}
  PROVE  \A b \in Binding, s \in Symbol :
           /\ history[<<b, s>>] = Followed(b, s, clock)
           /\ history[<<b, s>>] = Followed(b, s, LastTime)
<1> SUFFICES ASSUME NEW b \in Binding, NEW s \in Symbol
             PROVE  history[<<b, s>>] = Followed(b, s, clock) /\ history[<<b, s>>] = Followed(b, s, LastTime)
  OBVIOUS
<1>1. /\ clock \in FromTime..LastTime /\ LastTime \in FromTime..LastTime /\ LastTime \in clock..LastTime
      /\ clock \in Nat
  BY Times DEF RunInv
<1>2. Concat(Segments(b, s), clock) = history[<<b, s>>]
  BY DEF RunInv, EnginesFollow, Going, Waits
<1>3. Segments(b, s) \in [Time -> Seq(Time)]
  BY SegmentsType DEF RunInv
<1>4. ASSUME NEW v \in (clock + 1)..LastTime PROVE Segments(b, s)[v] = <<>>
  <2>1. v \in Time /\ <<v, s>> \in Key /\ ~(v \in FromTime..clock)
    BY <1>1, Times DEF Time, Key
  <2>2. ~(taken[<<v, s>>] > 0)
    BY <2>1 DEF RunInv, LoopFacts, Going
  <2>3. taken[<<v, s>>] = 0
    BY <2>1, <2>2, SegmentsType DEF RunInv
  <2> QED
    BY <2>1, <2>3, SegmentsType DEF RunInv
<1>5. Concat(Segments(b, s), LastTime) = Concat(Segments(b, s), clock)
  BY <1>1, <1>3, <1>4, ConcatEmpty
<1> QED
  BY <1>1, <1>2, <1>5, FollowedIsConcat

\* A run that finishes has taken every bar.
LEMMA FinishedTakesAll ==
  ASSUME RunInv, status = "finished"
  PROVE  /\ \A k \in Key : given[k] # <<>> => taken[k] > 0
         /\ BarTimes \subseteq FromTime..clock
<1>1. Waiting = {}
  BY DEF RunInv, LoopFacts, Going
<1>2. ASSUME NEW k \in Key, given[k] # <<>> PROVE taken[k] > 0
  <2>1. taken[k] \in Nat /\ Len(given[k]) \in Nat /\ ~(taken[k] < Len(given[k]))
    BY <1>1, InputAssumption DEF Waiting, RunInv, TypeInv, TypeOK, InputsInv
  <2>2. Len(given[k]) # 0
    BY <1>2
  <2> QED
    BY <2>1, <2>2
<1>3. \A k \in Key : given[k] # <<>> => k[1] \in FromTime..clock
  BY <1>2 DEF RunInv, LoopFacts, Going
<1> QED
  BY <1>2, <1>3 DEF BarTimes

\* The signals of a sequence of bars are its calls, by their lengths.
LEMMA SignalsInAreCalls ==
  ASSUME NEW b, NEW s, NEW f \in Seq(Time)
  PROVE  SignalsIn(b, s, f) = CallsFor(b, s, f)
<1> DEFINE Call(h) == [binding |-> b, length |-> Len(h),
                       event |-> [id |-> IdOf(b, <<Last(h), s>>, Decide(s, Window(h))),
                                  window |-> Window(h)]]
<1>1. \A n \in 1..Len(f) : Len(SubSeq(f, 1, n)) = n /\ SubSeq(f, 1, n)[n] = f[n]
  OBVIOUS
<1>2. \A n \in 1..Len(f) : Call(SubSeq(f, 1, n)) = CallFor(b, s, f, n)
  BY <1>1 DEF CallFor, Last
<1>3. ~HasCandidate(SubSeq(f, 1, 0), s)
  <2>1. Len(SubSeq(f, 1, 0)) = 0
    OBVIOUS
  <2> QED
    BY <2>1, RunAssumption DEF HasCandidate
<1>4. SignalsIn(b, s, f) = {Call(h) : h \in {p \in Prefixes(f) : HasCandidate(p, s)}}
  BY DEF SignalsIn
<1> HIDE DEF Call
<1>5. \A h : h \in Prefixes(f) /\ HasCandidate(h, s)
               <=> \E n \in 1..Len(f) : h = SubSeq(f, 1, n) /\ HasCandidate(h, s)
  <2>1. Len(f) \in Nat
    OBVIOUS
  <2>2. \A n : n \in 0..Len(f) <=> n = 0 \/ n \in 1..Len(f)
    BY <2>1
  <2> QED
    BY <1>3, <2>2, Zenon DEF Prefixes
<1>6. ASSUME NEW x \in SignalsIn(b, s, f) PROVE x \in CallsFor(b, s, f)
  <2>1. PICK h : h \in Prefixes(f) /\ HasCandidate(h, s) /\ x = Call(h)
    BY <1>4
  <2>2. PICK n \in 1..Len(f) : h = SubSeq(f, 1, n)
    BY <1>5, <2>1
  <2> QED
    BY <1>2, <2>1, <2>2 DEF CallsFor
<1>7. ASSUME NEW x \in CallsFor(b, s, f) PROVE x \in SignalsIn(b, s, f)
  <2>1. PICK n \in 1..Len(f) : HasCandidate(SubSeq(f, 1, n), s) /\ x = CallFor(b, s, f, n)
    BY DEF CallsFor
  <2>2. SubSeq(f, 1, n) \in Prefixes(f)
    BY <1>5, <2>1
  <2> QED
    BY <1>2, <1>4, <2>1, <2>2
<1> QED
  BY <1>6, <1>7

\* What the bars and the universes call for is what the engines do.
LEMMA FinishedSignals ==
  ASSUME RunInv, status = "finished"
  PROVE  AllSignals = Calls
<1>1. ASSUME NEW b \in Binding, NEW s \in Symbol
      PROVE  SignalsOf(b, s) = CallsFor(b, s, history[<<b, s>>])
  <2>1. PICK f : f = Followed(b, s, LastTime)
    OBVIOUS
  <2>2. f = history[<<b, s>>] /\ f \in Seq(Time)
    BY <2>1, EnginesHoldFollowed DEF RunInv, TypeInv, TypeOK
  <2>3. SignalsOf(b, s) = CallsFor(b, s, f)
    BY <2>1, <2>2, SignalsInAreCalls DEF SignalsOf
  <2> QED
    BY <2>2, <2>3
<1>2. \A e : e \in AllSignals => \E b \in Binding, s \in Symbol : e \in SignalsOf(b, s)
  BY DEF AllSignals
<1>3. ASSUME NEW b \in Binding, NEW s \in Symbol, NEW e \in SignalsOf(b, s)
      PROVE  e \in AllSignals
  BY DEF AllSignals
<1>4. ASSUME NEW e \in AllSignals PROVE e \in Calls
  BY <1>1, <1>2, InCalls
<1>5. ASSUME NEW e \in Calls PROVE e \in AllSignals
  <2>1. PICK b \in Binding, s \in Symbol : e \in CallsFor(b, s, history[<<b, s>>])
    BY InCalls
  <2> QED
    BY <1>1, <1>3, <2>1
<1> QED
  BY <1>4, <1>5

\* A run that is right is complete when it finishes.
LEMMA FinishedIsComplete ==
  ASSUME RunInv
  PROVE  FinishedRunIsComplete
<1> SUFFICES ASSUME status = "finished"
             PROVE  /\ \A k \in Key : given[k] # <<>> => stored[k] # NoBar
                    /\ signals = {s.event : s \in AllSignals}
                    /\ generated = Cardinality(AllSignals)
                    /\ changes = Cardinality(Switches)
                    /\ \A b \in Binding, s \in Symbol : Len(history[<<b, s>>]) <= counts[s]
  BY DEF FinishedRunIsComplete
<1>1. \A k \in Key : given[k] # <<>> => stored[k] # NoBar
  BY FinishedTakesAll DEF RunInv, LoopFacts, Going
<1>2. signals = {s.event : s \in AllSignals} /\ generated = Cardinality(AllSignals)
  <2>1. AllSignals = Calls
    BY FinishedSignals
  <2>2. signals = {c.event : c \in Calls} /\ generated = Cardinality(Calls)
    BY DEF RunInv, SignalsAreCalledFor, Going
  <2> QED
    BY <2>1, <2>2
<1>3. changes = Cardinality(Switches)
  <2>1. SwitchesUpTo(clock) = Switches
    BY FinishedTakesAll DEF SwitchesUpTo, Switches
  <2>2. changes = Cardinality(SwitchesUpTo(clock))
    BY DEF RunInv, VersionsAreCounted, Settled, Unsettled, Going
  <2> QED
    BY <2>1, <2>2
<1>4. \A b \in Binding, s \in Symbol : Len(history[<<b, s>>]) <= counts[s]
  BY DEF RunInv, CountsSuffice, Going
<1> QED
  BY <1>1, <1>2, <1>3, <1>4

\* The run begins right, with nothing done.
LEMMA InitRun == ASSUME Init PROVE RunInv
<1>1. TypeInv /\ PastInv
  BY InitTypes, InitPast
<1>2. Fresh
  BY DEF Init, Fresh
<1>3. status = "new"
  BY DEF Init
<1> QED
  BY <1>1, <1>2, <1>3 DEF RunInv, Going, LoopFacts, VersionsAreCounted, SlotsAreMade, EnginesFollow,
                          CountsSuffice, SignalsAreCalledFor

\* The run begins only once.
LEMMA FreshKept == ASSUME Fresh, [Next]_vars PROVE Fresh'
<1>1. \/ UNCHANGED vars
      \/ status' # "new"
  BY DEF Next, Initialize, TakeBar, SaveBar, CheckUniverses, CountBar, SkipBinding,
         ProcessBinding, AppendSignal, GoOn, Finish
<1> QED
  BY <1>1 DEF Fresh, vars, loop, scheduler, state

\* Every step keeps the run right.
LEMMA RunKept == ASSUME RunInv, [Next]_vars PROVE RunInv'
<1>1. TypeInv' /\ PastInv'
  BY NextTypes, PastKept DEF RunInv
<1> QED
  BY <1>1, FreshKept, LoopFactsKept, VersionsAreCountedKept, SlotsAreMadeKept, EnginesFollowKept,
     CountsSufficeKept, SignalsAreCalledForKept DEF RunInv

\* Between two bars every feature engine holds exactly the bars that its binding
\* should have followed, whatever versions of its universe came and went.
THEOREM EnginesFollowUniverses == Spec => []SlotsFollowTheirUniverse
<1>1. RunInv => SlotsFollowTheirUniverse
  BY EnginesHoldFollowed DEF SlotsFollowTheirUniverse
<1> QED
  BY <1>1, InitRun, RunKept, PTL DEF Spec

\* A run that finishes has stored every bar and exactly the signals that the
\* bars and the published universes call for, and has counted these, every
\* change of a universe, and at least the bars that a binding has taken.
THEOREM FinishedRunsAreComplete == Spec => []FinishedRunIsComplete
BY InitRun, RunKept, FinishedIsComplete, PTL DEF Spec

-----------------------------------------------------------------------------
(* The contract: the bars that are stored *)

\* How many of the bars of a key save_bar has accepted.
Saved(k) == IF status = "saving" /\ k = bar THEN taken[k] - 1 ELSE taken[k]

\* A run that goes on was given the same content again for every bar it has saved.
ContentsAgree ==
  status \in Going \cup {"new"} => \A k \in Key :
    /\ Saved(k) = 0 => stored[k] = NoBar
    /\ \A i \in 1..Saved(k) : stored[k] = given[k][i]

\* No bar from FromTime on is left behind.
NothingIsSkipped ==
  status \in Going \cup {"new"} => \A k \in Waiting : k[1] >= FromTime => clock <= k[1]

StoreInv == ContentsAgree /\ NothingIsSkipped

\* The contents given for a key are a list of bars.
LEMMA GivenBarsAreListed ==
  ASSUME InputsInv, NEW k \in Key
  PROVE  /\ DOMAIN given[k] = 1..Len(given[k]) /\ Len(given[k]) \in Nat
         /\ \A i \in 1..Len(given[k]) : given[k][i] # NoBar
<1>1. PICK g \in Inputs : g = given
  BY DEF InputsInv
<1>2. PICK contents : contents = g[k]
  OBVIOUS
<1>3. /\ Len(contents) \in Nat
      /\ contents = [i \in 1..Len(contents) |-> contents[i]]
      /\ \A i \in DOMAIN contents : contents[i] # NoBar
  BY <1>1, <1>2, InputAssumption
<1>4. DOMAIN contents = 1..Len(contents)
  BY <1>3
<1>5. contents = given[k]
  BY <1>1, <1>2
<1> QED
  BY <1>3, <1>4, <1>5

\* The next bar is the first of those that are left.
LEMMA TakeBarStore ==
  ASSUME TypeInv, StoreInv, NEW k \in Key, TakeBar(k)
  PROVE  StoreInv'
<1>1. /\ status = "sorted" /\ bar' = k /\ UNCHANGED <<given, stored>>
      /\ \A l \in Key : taken'[l] = IF l = k THEN taken[l] + 1 ELSE taken[l]
      /\ \A l \in Waiting : k[1] < l[1] \/ k[1] = l[1]
      /\ \A l \in Key : taken[l] \in Nat /\ l[1] \in Nat
  BY DEF TakeBar, IsNext, inputs, TypeInv, TypeOK, Key, Time
<1>2. status' = "early" \/ (status' = "saving" /\ clock' = k[1])
  BY <1>1, Times DEF TakeBar, AdvanceToBar, TypeInv, BarsComeInOrder, IsNext, TypeOK, Time
<1>3. CASE status' = "saving" /\ clock' = k[1]
  <2>1. \A l \in Key : Saved(l)' = Saved(l)
    BY <1>1, <1>3 DEF Saved
  <2>2. ContentsAgree'
    BY <1>1, <2>1 DEF StoreInv, ContentsAgree, Going
  <2>3. \A l \in Waiting' : l \in Waiting
    BY <1>1, InputAssumption DEF Waiting, TypeInv, InputsInv
  <2>4. \A l \in Waiting' : clock' <= l[1]
    BY <1>1, <1>3, <2>3 DEF Waiting
  <2> QED
    BY <2>2, <2>4 DEF StoreInv, NothingIsSkipped
<1> QED
  BY <1>2, <1>3 DEF StoreInv, ContentsAgree, NothingIsSkipped, Going

\* A bar is saved when it is the first of its key, or has the content of the first.
LEMMA SaveBarStore ==
  ASSUME TypeInv, StoreInv, SaveBar
  PROVE  StoreInv'
<1>1. /\ status = "saving" /\ bar \in Key /\ taken[bar] \in 1..Len(given[bar])
      /\ UNCHANGED <<given, taken, bar, clock>>
      /\ \A k \in Key : taken[k] \in Nat
      /\ DOMAIN stored = Key
  BY DEF SaveBar, inputs, scheduler, TypeInv, LoopInv, TypeOK
<1>2. CASE status' = "revised"
  BY <1>2 DEF StoreInv, ContentsAgree, NothingIsSkipped, Going
<1>3. CASE status' # "revised"
  <2> DEFINE content == given[bar][taken[bar]]
  <2>1. /\ stored[bar] \in {NoBar, content} /\ stored' = [stored EXCEPT ![bar] = content]
        /\ status' = "switching"
    BY <1>3 DEF SaveBar
  <2>2. /\ \A i \in 1..Len(given[bar]) : given[bar][i] # NoBar
        /\ Len(given[bar]) \in Nat
    BY <1>1, GivenBarsAreListed DEF TypeInv
  <2>3. \A i \in 1..taken[bar] : given[bar][i] = content
    <3>1. SUFFICES ASSUME NEW i \in 1..taken[bar], i # taken[bar] PROVE given[bar][i] = content
      OBVIOUS
    <3>2. i \in 1..Saved(bar) /\ i \in 1..Len(given[bar])
      BY <1>1, <2>2, <3>1 DEF Saved
    <3>3. stored[bar] = given[bar][i]
      BY <1>1, <3>2 DEF StoreInv, ContentsAgree, Going
    <3> QED
      BY <2>1, <2>2, <3>2, <3>3
  <2> HIDE DEF content
  <2>4. \A k \in Key : /\ Saved(k)' = taken[k]
                       /\ k # bar => Saved(k) = taken[k] /\ stored'[k] = stored[k]
                       /\ k = bar => stored'[k] = content
    BY <1>1, <2>1 DEF Saved
  <2>5. ContentsAgree'
    BY <1>1, <2>3, <2>4 DEF StoreInv, ContentsAgree, Going
  <2>6. Waiting' = Waiting
    BY <1>1 DEF Waiting
  <2> QED
    BY <1>1, <2>5, <2>6 DEF StoreInv, NothingIsSkipped, Going
<1> QED
  BY <1>2, <1>3

\* A step that takes and saves no bar.
LEMMA OtherStore ==
  ASSUME StoreInv, UNCHANGED <<given, stored, taken, clock>>,
         status' \in Going \cup {"new"} => /\ status \in (Going \cup {"new"}) \ {"saving"}
                                           /\ status' # "saving"
  PROVE  StoreInv'
<1>1. status' \in Going \cup {"new"} => \A k \in Key : Saved(k)' = Saved(k)
  BY DEF Saved
<1>2. Waiting' = Waiting
  BY DEF Waiting
<1> QED
  BY <1>1, <1>2 DEF StoreInv, ContentsAgree, NothingIsSkipped

\* In every step.
LEMMA StoreKept ==
  ASSUME TypeInv, StoreInv, [Next]_vars
  PROVE  StoreInv'
<1>1. CASE Initialize
  BY <1>1, OtherStore DEF Initialize, inputs, scheduler, Going
<1>2. CASE CheckUniverses \/ CountBar
  BY <1>2, OtherStore DEF CheckUniverses, CountBar, inputs, scheduler, Going
<1>3. CASE SkipBinding
  <2>1. status = "binding" /\ status' \in {"binding", "sorted"}
    BY <1>3, GoOnGoesOn DEF SkipBinding
  <2> QED
    BY <1>3, <2>1, OtherStore DEF SkipBinding, Going, inputs, scheduler
<1>4. CASE ProcessBinding
  <2>1. status = "binding" /\ status' \in {"binding", "sorted", "refused"}
    BY <1>4, GoOnGoesOn DEF ProcessBinding, AppendSignal
  <2> QED
    BY <1>4, <2>1, OtherStore DEF ProcessBinding, Going, inputs, scheduler
<1>5. CASE Finish
  BY <1>5, OtherStore DEF Finish, inputs, scheduler, Going
<1>6. CASE UNCHANGED vars
  <2>1. UNCHANGED <<given, stored, taken, clock, status, bar>>
    BY <1>6 DEF vars, inputs, loop, scheduler
  <2> QED
    BY <2>1 DEF StoreInv, ContentsAgree, NothingIsSkipped, Saved, Waiting
<1> QED
  BY <1>1, <1>2, <1>3, <1>4, <1>5, <1>6, TakeBarStore, SaveBarStore DEF Next

\* Before the first bar nothing is stored.
LEMMA InitStore == ASSUME Init PROVE StoreInv
BY DEF Init, StoreInv, ContentsAgree, NothingIsSkipped, Saved

\* The readers of the stores rely on these invariants.
BacktestInv == RunInv /\ StoreInv

LEMMA BacktestInvHolds == Spec => []BacktestInv
<1>1. Init => BacktestInv
  BY InitRun, InitStore DEF BacktestInv
<1>2. BacktestInv /\ [Next]_vars => BacktestInv'
  BY RunKept, StoreKept DEF BacktestInv, RunInv
<1> QED
  BY <1>1, <1>2, PTL DEF Spec

-----------------------------------------------------------------------------
(* The contract: what an engine holds is the beginning of what is planned *)

\* Does sequence g begin with h?
Begins(h, g) == Len(h) <= Len(g) /\ \A i \in 1..Len(h) : g[i] = h[i]

\* A sequence is the beginning of what it is continued with.
LEMMA BeginsItsConcat ==
  ASSUME NEW c \in Seq(Time), NEW d \in Seq(Time), NEW e \in Seq(Time), Begins(d, e)
  PROVE  Begins(c, c \o d) /\ Begins(c \o d, c \o e)
<1>1. /\ Len(c \o d) = Len(c) + Len(d) /\ Len(c \o e) = Len(c) + Len(e)
      /\ \A i \in 1..Len(c) : (c \o d)[i] = c[i] /\ (c \o e)[i] = c[i]
      /\ \A i \in 1..Len(d) : (c \o d)[Len(c) + i] = d[i]
      /\ \A i \in 1..Len(e) : (c \o e)[Len(c) + i] = e[i]
  BY ConcatProperties
<1>2. Len(c) \in Nat /\ Len(d) \in Nat /\ Len(e) \in Nat
  OBVIOUS
<1>3. PICK cd, ce : cd = c \o d /\ ce = c \o e
  OBVIOUS
<1>4. ASSUME NEW i \in 1..(Len(c) + Len(d)) PROVE cd[i] = ce[i]
  <2>1. CASE i <= Len(c)
    BY <1>1, <1>2, <1>3, <2>1
  <2>2. CASE i > Len(c)
    <3>1. PICK j \in 1..Len(d) : i = Len(c) + j
      <4>1. i - Len(c) \in 1..Len(d) /\ i = Len(c) + (i - Len(c))
        BY <1>2, <2>2
      <4> QED
        BY <4>1
    <3>2. j \in 1..Len(e) /\ d[j] = e[j]
      BY <1>2 DEF Begins
    <3>3. cd[Len(c) + j] = d[j] /\ ce[Len(c) + j] = e[j]
      BY <1>1, <1>3, <3>2
    <3> QED
      BY <3>1, <3>2, <3>3
  <2> QED
    BY <1>2, <2>1, <2>2
<1>5. Len(cd) = Len(c) + Len(d) /\ Len(ce) = Len(c) + Len(e) /\ Len(d) <= Len(e)
  BY <1>1, <1>3 DEF Begins
<1>6. Begins(cd, ce)
  BY <1>2, <1>4, <1>5 DEF Begins
<1>7. Begins(c, cd)
  BY <1>1, <1>2, <1>3, <1>5 DEF Begins
<1> QED
  BY <1>3, <1>6, <1>7

LEMMA BeginsTransitively ==
  ASSUME NEW c \in Seq(Time), NEW d \in Seq(Time), NEW e \in Seq(Time), Begins(c, d), Begins(d, e)
  PROVE  Begins(c, e)
BY DEF Begins

\* What is put together up to a time is the beginning of what is put together
\* later.
LEMMA ConcatGrows ==
  ASSUME NEW f \in [Time -> Seq(Time)], NEW t \in FromTime..LastTime, NEW u \in t..LastTime
  PROVE  Begins(Concat(f, t), Concat(f, u))
<1> DEFINE S == {v \in t..u : ~Begins(Concat(f, t), Concat(f, v))}
<1>0. FromTime \in Nat /\ LastTime \in Nat
  BY RunAssumption DEF Time
<1> SUFFICES ASSUME S # {} PROVE FALSE
  BY <1>0
<1>1. PICK v \in S : \A w \in S : v <= w
  <2>1. S \in SUBSET Nat
    BY <1>0
  <2> QED
    BY <2>1, LeastNatural
<1>2. Concat(f, t) \in Seq(Time)
  BY ConcatType
<1>3. v # t
  BY <1>2 DEF Begins
<1>4. v - 1 \in FromTime..LastTime /\ v - 1 \in t..u /\ v - 1 \notin S /\ (v - 1) + 1 = v /\ v \in Time
  <2>1. v \in t..u /\ v \in Nat /\ t \in Nat /\ u \in Nat
    BY <1>0
  <2>2. v - 1 \notin S
    BY <1>1, <2>1
  <2> HIDE DEF S
  <2> QED
    BY <1>0, <1>3, <2>1, <2>2 DEF Time
<1>5. Begins(Concat(f, t), Concat(f, v - 1))
  BY <1>4
<1>6. PICK c \in Seq(Time) : c = Concat(f, v - 1)
  BY <1>4, ConcatType
<1>7. PICK d \in Seq(Time) : d = f[v]
  BY <1>4
<1>8. Concat(f, v) = c \o d
  BY <1>4, <1>6, <1>7, ConcatNext
<1>9. Begins(c, c \o d) /\ c \o d \in Seq(Time)
  <2>1. Begins(d, d)
    BY DEF Begins
  <2> QED
    BY <2>1, BeginsItsConcat, ConcatProperties
<1>10. Begins(Concat(f, t), Concat(f, v))
  BY <1>2, <1>5, <1>6, <1>8, <1>9, BeginsTransitively
<1> QED
  BY <1>10

\* The last of the sequences may be the beginning of a longer one.
LEMMA ConcatBegins ==
  ASSUME NEW f \in [Time -> Seq(Time)], NEW g \in [Time -> Seq(Time)],
         NEW t \in FromTime..LastTime, \A u \in FromTime..(t - 1) : f[u] = g[u],
         Begins(f[t], g[t])
  PROVE  Begins(Concat(f, t), Concat(g, t))
<1>0. FromTime \in Nat /\ LastTime \in Nat
  BY RunAssumption DEF Time
<1>1. CASE t = FromTime
  BY <1>1, ConcatFirst
<1>2. CASE t # FromTime
  <2>1. t - 1 \in FromTime..LastTime /\ (t - 1) + 1 = t /\ t \in Time
    BY <1>0, <1>2 DEF Time
  <2>2. Concat(f, t) = Concat(f, t - 1) \o f[t] /\ Concat(g, t) = Concat(g, t - 1) \o g[t]
    BY <2>1, ConcatNext
  <2>3. Concat(f, t - 1) = Concat(g, t - 1)
    BY <2>1, ConcatSame
  <2>4. PICK c \in Seq(Time) : c = Concat(f, t - 1)
    BY <2>1, ConcatType
  <2>5. f[t] \in Seq(Time) /\ g[t] \in Seq(Time)
    BY <2>1
  <2>6. Begins(c \o f[t], c \o g[t])
    BY <2>5, BeginsItsConcat
  <2> QED
    BY <2>2, <2>3, <2>4, <2>6
<1> QED
  BY <1>1, <1>2

\* Sequences of elements of U are put together to one of elements of U.
LEMMA ConcatOf ==
  ASSUME NEW U \in SUBSET Time, NEW f \in [Time -> Seq(U)], NEW t \in FromTime..LastTime
  PROVE  Concat(f, t) \in Seq(U)
<1> DEFINE S == {u \in FromTime..LastTime : Concat(f, u) \notin Seq(U)}
<1>0. FromTime \in Nat /\ LastTime \in Nat
  BY RunAssumption DEF Time
<1> SUFFICES ASSUME S # {} PROVE FALSE
  OBVIOUS
<1>1. f \in [Time -> Seq(Time)]
  <2>1. \A h \in Seq(U) : h \in Seq(Time)
    OBVIOUS
  <2> QED
    BY <2>1
<1>2. PICK u \in S : \A v \in S : u <= v
  <2>1. S \in SUBSET Nat
    BY <1>0
  <2> QED
    BY <2>1, LeastNatural
<1>3. CASE u = FromTime
  BY <1>1, <1>3, ConcatFirst, RunAssumption
<1>4. CASE u # FromTime
  <2>1. u - 1 \in FromTime..LastTime /\ u - 1 \notin S /\ (u - 1) + 1 = u /\ u \in Time
    BY <1>0, <1>2, <1>4 DEF Time
  <2>2. Concat(f, u) = Concat(f, u - 1) \o f[u]
    BY <1>1, <2>1, ConcatNext
  <2>3. Concat(f, u - 1) \in Seq(U) /\ f[u] \in Seq(U)
    BY <2>1
  <2>4. Concat(f, u - 1) \o f[u] \in Seq(U)
    BY <2>3, ConcatProperties
  <2>5. Concat(f, u) \notin Seq(U)
    BY <1>2
  <2> QED
    BY <2>2, <2>4, <2>5
<1> QED
  BY <1>3, <1>4

-----------------------------------------------------------------------------
(* The contract: what is planned *)

\* The bars of symbol s that binding b follows when all are taken, by their times.
PlannedSegments(b, s) ==
  [u \in Time |-> IF s \in SymbolsAt(b, u) THEN [j \in 1..Len(given[<<u, s>>]) |-> u] ELSE <<>>]

PlannedBars(b, s) == Concat(PlannedSegments(b, s), LastTime)

GivenTimes(s) == {u \in Time : given[<<u, s>>] # <<>>}

\* They are times at which there is a bar.
LEMMA PlannedBarsAreGiven ==
  ASSUME TypeInv, NEW b \in Binding, NEW s \in Symbol
  PROVE  /\ PlannedSegments(b, s) \in [Time -> Seq(Time)]
         /\ PlannedBars(b, s) \in Seq(GivenTimes(s))
         /\ PlannedBars(b, s) \in Seq(Time)
<1>1. ASSUME NEW u \in Time
      PROVE  /\ Len(given[<<u, s>>]) \in Nat
             /\ [j \in 1..Len(given[<<u, s>>]) |-> u] \in Seq(GivenTimes(s))
  <2>1. /\ <<u, s>> \in Key /\ Len(given[<<u, s>>]) \in Nat
        /\ given[<<u, s>>] = [i \in 1..Len(given[<<u, s>>]) |-> given[<<u, s>>][i]]
    BY InputAssumption DEF TypeInv, InputsInv, Key
  <2>2. PICK n \in Nat : n = Len(given[<<u, s>>])
    BY <2>1
  <2>3. CASE n = 0
    <3>1. 1..n = {}
      BY <2>3
    <3>2. [j \in 1..n |-> u] = <<>>
      BY <3>1
    <3> QED
      BY <2>2, <3>2
  <2>4. CASE n # 0
    <3>1. given[<<u, s>>] # <<>>
      BY <2>2, <2>4
    <3>2. u \in GivenTimes(s)
      BY <3>1 DEF GivenTimes
    <3>3. [j \in 1..n |-> u] \in Seq(GivenTimes(s))
      BY <3>2
    <3> QED
      BY <2>2, <3>3
  <2> QED
    BY <2>2, <2>3, <2>4
<1>2. PlannedSegments(b, s) \in [Time -> Seq(GivenTimes(s))]
  <2>1. \A u \in Time : (IF s \in SymbolsAt(b, u) THEN [j \in 1..Len(given[<<u, s>>]) |-> u]
                         ELSE <<>>) \in Seq(GivenTimes(s))
    BY <1>1
  <2> QED
    BY <2>1 DEF PlannedSegments
<1>3. GivenTimes(s) \in SUBSET Time /\ LastTime \in FromTime..LastTime
  BY Times DEF GivenTimes
<1>4. \A h \in Seq(GivenTimes(s)) : h \in Seq(Time)
  BY <1>3
<1>5. PlannedBars(b, s) \in Seq(GivenTimes(s))
  BY <1>2, <1>3, ConcatOf DEF PlannedBars
<1> QED
  BY <1>2, <1>4, <1>5

\* What the plan of the run is made of.
LEMMA PlannedSignalsAre ==
  ASSUME TypeInv, NEW x
  PROVE  x \in PlannedSignals
           <=> \E b \in Binding, s \in Symbol : x \in CallsFor(b, s, PlannedBars(b, s))
<1> DEFINE all == [k \in Key |-> Len(given[k])]
<1>1. ASSUME NEW b \in Binding, NEW s \in Symbol
      PROVE  FollowedOf(all, b, s, LastTime) = PlannedBars(b, s)
  <2>1. \A i \in 1..(LastTime + 1 - FromTime) : FromTime + i - 1 \in Time
    BY Times DEF Time
  <2>2. \A u \in Time : all[<<u, s>>] = Len(given[<<u, s>>])
    BY DEF Key
  <2> HIDE DEF all
  <2>3. \A i \in 1..(LastTime + 1 - FromTime) :
          PlannedSegments(b, s)[FromTime + i - 1] =
            IF s \in SymbolsAt(b, FromTime + i - 1)
              THEN [j \in 1..all[<<FromTime + i - 1, s>>] |-> FromTime + i - 1] ELSE <<>>
    BY <2>1, <2>2 DEF PlannedSegments
  <2> QED
    BY <2>3 DEF FollowedOf, PlannedBars, Concat
<1>2. ASSUME NEW b \in Binding, NEW s \in Symbol
      PROVE  SignalsIn(b, s, FollowedOf(all, b, s, LastTime)) = CallsFor(b, s, PlannedBars(b, s))
  BY <1>1, PlannedBarsAreGiven, SignalsInAreCalls
<1>3. Followings = {<<b, s, FollowedOf(all, b, s, LastTime)>> : b \in Binding, s \in Symbol}
  BY DEF Followings
<1> HIDE DEF all
<1>4. ASSUME x \in PlannedSignals
      PROVE  \E b \in Binding, s \in Symbol : x \in CallsFor(b, s, PlannedBars(b, s))
  <2>1. PICK f \in Followings : x \in SignalsIn(f[1], f[2], f[3])
    BY <1>4 DEF PlannedSignals
  <2>2. PICK b \in Binding, s \in Symbol : f = <<b, s, FollowedOf(all, b, s, LastTime)>>
    BY <1>3, <2>1
  <2>3. x \in SignalsIn(b, s, FollowedOf(all, b, s, LastTime))
    BY <2>1, <2>2
  <2> QED
    BY <1>2, <2>3
<1>5. ASSUME NEW b \in Binding, NEW s \in Symbol, x \in CallsFor(b, s, PlannedBars(b, s))
      PROVE  x \in PlannedSignals
  <2>1. PICK f : f = <<b, s, FollowedOf(all, b, s, LastTime)>>
    OBVIOUS
  <2>2. f \in Followings
    BY <1>3, <2>1
  <2>3. x \in SignalsIn(f[1], f[2], f[3])
    BY <1>2, <1>5, <2>1
  <2> QED
    BY <2>2, <2>3 DEF PlannedSignals
<1> QED
  BY <1>4, <1>5

\* The signals that are planned are made of bars that were given.
LEMMA PlannedSignalsAreOfGivenBars ==
  ASSUME TypeInv, NEW c \in PlannedSignals
  PROVE  BarsOf(c.event) \subseteq GivenBars
<1>1. PICK b \in Binding, s \in Symbol : c \in CallsFor(b, s, PlannedBars(b, s))
  BY PlannedSignalsAre
<1>2. PICK f : f = PlannedBars(b, s)
  OBVIOUS
<1>3. f \in Seq(GivenTimes(s)) /\ f \in Seq(Time)
  BY <1>2, PlannedBarsAreGiven
<1>4. PICK n \in 1..Len(f) : HasCandidate(SubSeq(f, 1, n), s) /\ c = CallFor(b, s, f, n)
  BY <1>1, <1>2 DEF CallsFor
<1>5. PICK h : h = SubSeq(f, 1, n)
  OBVIOUS
<1>6. h \in Seq(GivenTimes(s)) /\ h \in Seq(Time) /\ Len(h) >= Lookback
  BY <1>3, <1>4, <1>5 DEF HasCandidate
<1>7. c.event.window = Window(h) /\ c.event.id.symbol = s
  BY <1>4, <1>5 DEF CallFor, IdOf
<1>8. ASSUME NEW i \in DOMAIN Window(h)
      PROVE  <<<<Window(h)[i], s>>, given[<<Window(h)[i], s>>][1]>> \in GivenBars
  <2>1. PICK j \in DOMAIN h : Window(h)[i] = h[j]
    BY <1>6, WindowIsPart
  <2>2. Window(h)[i] \in GivenTimes(s)
    BY <1>6, <2>1
  <2>3. PICK k \in Key : k = <<Window(h)[i], s>> /\ given[k] # <<>>
    BY <2>2 DEF GivenTimes, Key
  <2>4. 1 \in DOMAIN given[k]
    <3>1. /\ Len(given[k]) \in Nat
          /\ given[k] = [x \in 1..Len(given[k]) |-> given[k][x]]
      BY InputAssumption DEF TypeInv, InputsInv
    <3>2. Len(given[k]) # 0
      BY <2>3, <3>1
    <3> QED
      BY <3>1, <3>2
  <2> QED
    BY <2>3, <2>4 DEF GivenBars
<1> QED
  BY <1>7, <1>8 DEF BarsOf

\* What a sequence calls for at its end every sequence that begins with it calls
\* for.
LEMMA CallIsOfLonger ==
  ASSUME NEW b, NEW s, NEW h \in Seq(Time), NEW g \in Seq(Time), Begins(h, g), h # <<>>,
         HasCandidate(h, s)
  PROVE  CallFor(b, s, h, Len(h)) \in CallsFor(b, s, g)
<1>1. PICK n : n = Len(h)
  OBVIOUS
<1>2. n \in 1..Len(g) /\ n \in 1..Len(h) /\ g[n] = h[n]
  BY <1>1 DEF Begins
<1>3. SubSeq(h, 1, n) = h
  BY <1>1
<1>4. SubSeq(g, 1, n) = h
  <2>1. /\ SubSeq(g, 1, n) \in Seq(Time) /\ Len(SubSeq(g, 1, n)) = n
        /\ \A i \in 1..n : SubSeq(g, 1, n)[i] = g[i]
    BY <1>2
  <2> QED
    BY <1>1, <2>1, SeqEqual DEF Begins
<1>5. CallFor(b, s, h, n) = CallFor(b, s, g, n)
  BY <1>2, <1>3, <1>4 DEF CallFor
<1> QED
  BY <1>1, <1>2, <1>4, <1>5 DEF CallsFor

\* Fewer bars of a time are the beginning of more.
LEMMA FewerBegin ==
  ASSUME NEW u, NEW m \in Nat, NEW n \in Nat, m <= n
  PROVE  Begins([j \in 1..m |-> u], [j \in 1..n |-> u])
<1>1. PICK f, g : f = [j \in 1..m |-> u] /\ g = [j \in 1..n |-> u]
  OBVIOUS
<1>2. Len(f) = m /\ Len(g) = n
  BY <1>1
<1>3. \A i \in 1..m : g[i] = f[i]
  BY <1>1
<1>4. Begins(f, g)
  BY <1>2, <1>3 DEF Begins
<1> QED
  BY <1>1, <1>4

\* What an engine holds when its binding takes a bar is the beginning of what is
\* planned, because no bar was skipped.
LEMMA SeenIsPlanned ==
  ASSUME RunInv, StoreInv, ProcessBinding
  PROVE  Begins(Append(history[<<todo, bar[2]>>], clock), PlannedBars(todo, bar[2]))
<1> DEFINE s == bar[2]
<1>1. /\ status = "binding" /\ todo \in Binding /\ s \in Symbol /\ clock \in FromTime..LastTime
      /\ s \in SymbolsAt(todo, clock) /\ clock \in Time /\ LastTime \in clock..LastTime
  <2>1. status = "binding" /\ Takes(todo)
    BY DEF ProcessBinding
  <2>2. todo \in Binding /\ s \in SymbolsAt(todo, clock)
    BY <2>1, TakesWhenItHas DEF RunInv
  <2>3. bar \in Key /\ clock \in FromTime..LastTime /\ clock \in Time
    BY <2>1, Times DEF RunInv, TypeInv, LoopInv
  <2> QED
    BY <2>1, <2>2, <2>3, Times DEF Key
<1> HIDE DEF s
<1>2. Concat(Segments(todo, s), clock) = Append(history[<<todo, s>>], clock)
  <2>1. Waits(todo, s)
    <3>1. todo \in Nat
      BY <1>1, RunAssumption DEF Binding
    <3> QED
      BY <1>1, <3>1 DEF Waits, s
  <2> QED
    BY <1>1, <2>1 DEF RunInv, EnginesFollow, Going
<1>3. /\ Segments(todo, s) \in [Time -> Seq(Time)] /\ PlannedSegments(todo, s) \in [Time -> Seq(Time)]
      /\ PlannedBars(todo, s) \in Seq(Time)
  BY <1>1, SegmentsType, PlannedBarsAreGiven DEF RunInv
<1>4. ASSUME NEW u \in Time
      PROVE  /\ taken[<<u, s>>] \in Nat /\ Len(given[<<u, s>>]) \in Nat
             /\ taken[<<u, s>>] <= Len(given[<<u, s>>])
             /\ <<u, s>> \in Key /\ u \in Nat
  BY <1>1, InputAssumption, Times DEF RunInv, TypeInv, TypeOK, InputsInv, Key, Time
<1>5. ASSUME NEW u \in FromTime..(clock - 1) PROVE Segments(todo, s)[u] = PlannedSegments(todo, s)[u]
  <2>1. u \in Time /\ u >= FromTime /\ ~(clock <= u)
    BY <1>1, Times DEF Time
  <2>2. <<u, s>> \notin Waiting
    BY <1>1, <2>1 DEF StoreInv, NothingIsSkipped, Going
  <2>3. taken[<<u, s>>] = Len(given[<<u, s>>])
    BY <1>4, <2>1, <2>2 DEF Waiting
  <2> QED
    BY <2>1, <2>3 DEF Segments, PlannedSegments
<1>6. Begins(Segments(todo, s)[clock], PlannedSegments(todo, s)[clock])
  <2>1. PICK m, n \in Nat : m = taken[<<clock, s>>] /\ n = Len(given[<<clock, s>>]) /\ m <= n
    BY <1>1, <1>4
  <2>2. Begins([j \in 1..m |-> clock], [j \in 1..n |-> clock])
    BY <2>1, FewerBegin
  <2>3. /\ Segments(todo, s)[clock] = [j \in 1..m |-> clock]
        /\ PlannedSegments(todo, s)[clock] = [j \in 1..n |-> clock]
    BY <1>1, <2>1 DEF Segments, PlannedSegments
  <2> QED
    BY <2>2, <2>3
<1>7. Begins(Concat(Segments(todo, s), clock), Concat(PlannedSegments(todo, s), clock))
  BY <1>1, <1>3, <1>5, <1>6, ConcatBegins
<1>8. Begins(Concat(PlannedSegments(todo, s), clock), PlannedBars(todo, s))
  BY <1>1, <1>3, ConcatGrows DEF PlannedBars
<1>9. Begins(Concat(Segments(todo, s), clock), PlannedBars(todo, s))
  <2>1. Concat(Segments(todo, s), clock) \in Seq(Time) /\ Concat(PlannedSegments(todo, s), clock) \in Seq(Time)
    BY <1>1, <1>3, ConcatType
  <2> QED
    BY <1>3, <1>7, <1>8, <2>1, BeginsTransitively
<1> QED
  BY <1>2, <1>9 DEF s

-----------------------------------------------------------------------------
(* The contract is kept *)

\* What is made of the input alone stays.
LEMMA PlansOfInputsStay ==
  ASSUME UNCHANGED <<given, published, strategyOf>>
  PROVE  /\ UNCHANGED <<GivenBars, PlannedSignals>>
         /\ \A e : Recorded(e)' = Recorded(e)
<1>1. UNCHANGED GivenBars
  BY DEF GivenBars
<1>2. \A e : Recorded(e)' = Recorded(e)
  BY DEF Recorded, BarsOf
<1>3. \A n, b, s, t : FollowedOf(n, b, s, t)' = FollowedOf(n, b, s, t)
  BY DEF FollowedOf, SymbolsAt, Snapshots
<1>4. UNCHANGED PlannedSignals
  BY <1>3 DEF PlannedSignals, Followings, SignalsIn, IdOf, FollowedOf, SymbolsAt, Snapshots
<1> QED
  BY <1>1, <1>2, <1>4

\* A run that has found its universes keeps its plan.
LEMMA PlanStays ==
  ASSUME UNCHANGED <<given, published, strategyOf>>,
         status \notin {"new", "unknown"}, status' \notin {"new", "unknown"}
  PROVE  Plan' = Plan
<1>1. /\ Plan = [bars |-> GivenBars, signals |-> {Recorded(c.event) : c \in PlannedSignals}]
      /\ Plan' = [bars |-> GivenBars', signals |-> {Recorded(c.event)' : c \in PlannedSignals'}]
  BY DEF Plan
<1> QED
  BY <1>1, PlansOfInputsStay

\* The bars that are stored are the pairs of a key and its content.
LEMMA StoredBarsAre ==
  ASSUME NEW x
  PROVE  x \in StoredBars <=> \E k \in Key : stored[k] # NoBar /\ x = <<k, stored[k]>>
BY DEF StoredBars

LEMMA StoresAsTheyAre ==
  ASSUME UNCHANGED <<given, published, strategyOf>>
  PROVE  /\ stored' = stored => StoredBars' = StoredBars
         /\ signals' = signals => StoredSignals' = StoredSignals
BY PlansOfInputsStay DEF StoredBars, StoredSignals

\* A step that stores nothing and at most ends in an exception.
LEMMA QuietStepIsOfContract ==
  ASSUME UNCHANGED <<given, published, strategyOf, stored, signals>>,
         status \in Going \ {"finished"},
         status' \in (Going \ {"finished"}) \cup {"early", "revised", "refused"}
  PROVE  [Contract!Next]_(Contract!vars)
<1>1. UNCHANGED <<Plan, StoredBars, StoredSignals>>
  BY PlanStays, StoresAsTheyAre DEF Going
<1>2. Phase = "running" /\ (Phase' = "running" \/ Phase' = "FAILED")
  BY DEF Phase, Going
<1>3. CASE Phase' = "running"
  BY <1>1, <1>2, <1>3 DEF Contract!vars
<1>4. CASE Phase' = "FAILED"
  <2>1. Contract!Fail("backtest")
    BY <1>1, <1>2, <1>4 DEF Contract!Fail, Contract!Moves, TheRun
  <2> QED
    BY <2>1 DEF Contract!Next, TheRun
<1> QED
  BY <1>2, <1>3, <1>4

\* Nothing is stored, and nothing planned, before the run begins.
LEMMA InitIsOfContract == Init => Contract!Init
<1> SUFFICES ASSUME Init PROVE Contract!Init
  OBVIOUS
<1>1. Phase = "idle" /\ Plan = Contract!NoPlan
  BY DEF Init, Phase, Plan, Contract!NoPlan
<1>2. StoredBars = {}
  BY StoredBarsAre DEF Init
<1>3. StoredSignals = {}
  BY DEF Init, StoredSignals
<1> QED
  BY <1>1, <1>2, <1>3 DEF Contract!Init

\* The plan is made of the bars that are given and the universes published.
LEMMA InitializeIsOfContract ==
  ASSUME BacktestInv, Initialize
  PROVE  [Contract!Next]_(Contract!vars)
<1>1. /\ status = "new" /\ status' \in {"sorted", "unknown"}
      /\ UNCHANGED <<given, published, strategyOf, stored, signals>>
  BY DEF Initialize, inputs
<1>2. UNCHANGED <<StoredBars, StoredSignals, GivenBars, PlannedSignals>>
      /\ \A e : Recorded(e)' = Recorded(e)
  BY <1>1, PlansOfInputsStay, StoresAsTheyAre
<1>3. Phase = "idle" /\ Plan = Contract!NoPlan
  BY <1>1 DEF Phase, Plan, Contract!NoPlan
<1>4. CASE status' = "sorted"
  <2>1. Phase' = "running"
    BY <1>4 DEF Phase
  <2>2. Plan' = [bars |-> GivenBars, signals |-> {Recorded(c.event) : c \in PlannedSignals}]
    <3>1. Plan' = [bars |-> GivenBars', signals |-> {Recorded(c.event)' : c \in PlannedSignals'}]
      BY <1>4 DEF Plan
    <3> QED
      BY <1>2, <3>1
  <2>3. \A c \in PlannedSignals : Recorded(c.event).bars \subseteq GivenBars
    BY PlannedSignalsAreOfGivenBars DEF BacktestInv, RunInv, Recorded
  <2>4. Contract!IsPlan(Plan')
    BY <2>2, <2>3 DEF Contract!IsPlan
  <2>5. Contract!Learns("backtest")
    BY <1>3, <2>4 DEF Contract!Learns, TheRun
  <2>6. Contract!Begin("backtest")
    BY <1>2, <1>3, <2>1, <2>5 DEF Contract!Begin, Contract!Moves, TheRun
  <2> QED
    BY <2>6 DEF Contract!Next, TheRun
<1>5. CASE status' = "unknown"
  <2>1. Phase' = "FAILED" /\ Plan' = Plan
    BY <1>1, <1>5 DEF Phase, Plan
  <2>2. Contract!Fail("backtest")
    BY <1>2, <1>3, <2>1 DEF Contract!Fail, Contract!Moves, TheRun
  <2> QED
    BY <2>2 DEF Contract!Next, TheRun
<1> QED
  BY <1>1, <1>4, <1>5

\* A bar that is stored is one of those given, under a key that had none.
LEMMA SaveBarIsOfContract ==
  ASSUME BacktestInv, SaveBar
  PROVE  [Contract!Next]_(Contract!vars)
<1>1. /\ status = "saving" /\ status' \in {"switching", "revised"}
      /\ UNCHANGED <<given, published, strategyOf, signals>>
      /\ bar \in Key /\ taken[bar] \in 1..Len(given[bar]) /\ DOMAIN stored = Key
  BY DEF SaveBar, inputs, BacktestInv, RunInv, TypeInv, LoopInv, TypeOK
<1>2. CASE stored' = stored
  BY <1>1, <1>2, QuietStepIsOfContract DEF Going
<1>3. CASE stored' # stored
  <2>1. PICK content : content = given[bar][taken[bar]]
    OBVIOUS
  <2>2. /\ stored' = [stored EXCEPT ![bar] = content] /\ status' = "switching"
        /\ stored[bar] \in {NoBar, content}
    BY <1>3, <2>1 DEF SaveBar
  <2>3. \A k \in Key : stored'[k] = IF k = bar THEN content ELSE stored[k]
    BY <1>1, <2>2
  <2>4. /\ DOMAIN given[bar] = 1..Len(given[bar])
        /\ content # NoBar
    <3>1. DOMAIN given[bar] = 1..Len(given[bar])
      BY <1>1, InputAssumption DEF BacktestInv, RunInv, TypeInv, InputsInv
    <3>2. \A i \in DOMAIN given[bar] : given[bar][i] # NoBar
      BY <1>1, InputAssumption DEF BacktestInv, RunInv, TypeInv, InputsInv
    <3> QED
      BY <1>1, <2>1, <3>1, <3>2
  <2>5. \A x : x \in StoredBars' <=> \E k \in Key : stored'[k] # NoBar /\ x = <<k, stored'[k]>>
    BY DEF StoredBars
  <2>6. StoredBars' = StoredBars \cup {<<bar, content>>}
    BY <1>1, <2>2, <2>3, <2>4, <2>5, StoredBarsAre
  <2>7. UNCHANGED <<Plan, StoredSignals>> /\ Phase = "running" /\ Phase' = "running"
    BY <1>1, <2>2, PlanStays, StoresAsTheyAre DEF Phase
  <2>8. CASE stored[bar] = content
    <3>1. <<bar, content>> \in StoredBars
      BY <1>1, <2>4, <2>8, StoredBarsAre
    <3> QED
      BY <2>6, <2>7, <3>1 DEF Contract!vars
  <2>9. CASE stored[bar] = NoBar
    <3>1. \A x \in StoredBars : x[1] # bar
      BY <2>9, StoredBarsAre
    <3>2. <<bar, content>> \in Plan.bars
      BY <1>1, <2>1, <2>4 DEF Plan, GivenBars
    <3>3. <<bar, content>> \in StoredBars' \ StoredBars
      BY <2>6, <3>1
    <3>4. Contract!StoreBar("backtest")
      BY <2>6, <2>7, <3>1, <3>2, <3>3 DEF Contract!StoreBar, TheRun
    <3> QED
      BY <3>4 DEF Contract!Next, TheRun
  <2> QED
    BY <2>2, <2>8, <2>9
<1> QED
  BY <1>2, <1>3

\* The signal that a binding makes is the call of what its engine then holds,
\* which the plan has.
LEMMA SignalMadeIsPlanned ==
  ASSUME BacktestInv, ProcessBinding, NEW seen, seen = Observed(history[Slot(todo, bar[2])], bar[1]),
         HasCandidate(seen, bar[2])
  PROVE  \E c \in PlannedSignals :
           c.event = [id |-> IdOf(todo, bar, Decide(bar[2], Window(seen))), window |-> Window(seen)]
<1>1. /\ todo \in Binding /\ bar[2] \in Symbol /\ clock = bar[1] /\ clock \in Time
      /\ history[<<todo, bar[2]>>] \in Seq(Time)
      /\ seen = Append(history[<<todo, bar[2]>>], clock)
  BY ProcessBindingAppends DEF BacktestInv, RunInv, Slot
<1>2. PICK g \in Seq(Time) : g = history[<<todo, bar[2]>>]
  BY <1>1
<1>3. /\ seen[Len(seen)] = bar[1] /\ SubSeq(seen, 1, Len(seen)) = seen
      /\ seen \in Seq(Time) /\ seen # <<>>
  <2>1. /\ Append(g, clock)[Len(g) + 1] = clock /\ Len(Append(g, clock)) = Len(g) + 1
        /\ SubSeq(Append(g, clock), 1, Len(g) + 1) = Append(g, clock)
    BY <1>1, PrefixesStay
  <2>2. Append(g, clock) \in Seq(Time) /\ Append(g, clock) # <<>>
    BY <1>1
  <2>3. seen = Append(g, clock)
    BY <1>1, <1>2
  <2> QED
    BY <1>1, <2>1, <2>2, <2>3, Zenon
<1>4. CallFor(todo, bar[2], seen, Len(seen)).event =
        [id |-> IdOf(todo, bar, Decide(bar[2], Window(seen))), window |-> Window(seen)]
  BY <1>3 DEF CallFor, IdOf
<1>5. Begins(seen, PlannedBars(todo, bar[2])) /\ PlannedBars(todo, bar[2]) \in Seq(Time)
  BY <1>1, SeenIsPlanned, PlannedBarsAreGiven DEF BacktestInv, RunInv
<1>6. CallFor(todo, bar[2], seen, Len(seen)) \in CallsFor(todo, bar[2], PlannedBars(todo, bar[2]))
  BY <1>3, <1>5, CallIsOfLonger
<1>7. CallFor(todo, bar[2], seen, Len(seen)) \in PlannedSignals
  BY <1>1, <1>6, PlannedSignalsAre DEF BacktestInv, RunInv
<1> QED
  BY <1>4, <1>7

\* The bars of a signal are stored, with the content that came first.
LEMMA BarsOfSignalAreStored ==
  ASSUME BacktestInv, status \in Going \ {"saving"}, NEW e \in SignalEvent,
         \A i \in DOMAIN e.window : stored[<<e.window[i], e.id.symbol>>] # NoBar
  PROVE  BarsOf(e) \subseteq StoredBars
<1>1. ASSUME NEW i \in DOMAIN e.window
      PROVE  <<<<e.window[i], e.id.symbol>>, given[<<e.window[i], e.id.symbol>>][1]>> \in StoredBars
  <2>1. PICK k : k = <<e.window[i], e.id.symbol>>
    OBVIOUS
  <2>2. e.window[i] \in Time /\ e.id.symbol \in Symbol
    BY DEF SignalEvent, SignalId
  <2>3. k \in Key /\ stored[k] # NoBar
    BY <2>1, <2>2 DEF Key
  <2>4. taken[k] \in Nat /\ taken[k] # 0
    BY <2>3 DEF BacktestInv, RunInv, TypeInv, TypeOK, StoreInv, ContentsAgree, Saved
  <2>5. stored[k] = given[k][1]
    BY <2>3, <2>4 DEF BacktestInv, StoreInv, ContentsAgree, Saved
  <2> QED
    BY <2>1, <2>3, <2>5, StoredBarsAre
<1> QED
  BY <1>1 DEF BarsOf

\* A binding stores a signal under an id that is free, or none.
LEMMA ProcessBindingIsOfContract ==
  ASSUME BacktestInv, BacktestInv', ProcessBinding
  PROVE  [Contract!Next]_(Contract!vars)
<1>1. PICK seen : seen = Observed(history[Slot(todo, bar[2])], bar[1])
  OBVIOUS
<1>2. PICK event : event = [id |-> IdOf(todo, bar, Decide(bar[2], Window(seen))),
                            window |-> Window(seen)]
  OBVIOUS
<1>3. /\ status = "binding"
      /\ UNCHANGED <<given, published, strategyOf, stored>>
  BY DEF ProcessBinding, inputs
<1>4. \/ UNCHANGED signals /\ status' \in {"binding", "sorted", "refused"}
      \/ /\ HasCandidate(seen, bar[2])
         /\ ~ \E e \in signals : e.id = event.id /\ e # event
         /\ event \in SignalEvent
         /\ signals' = signals \cup {event}
         /\ status' \in {"binding", "sorted"}
  <2>1. \/ UNCHANGED signals /\ GoOn
        \/ UNCHANGED signals /\ status' = "refused"
        \/ /\ HasCandidate(seen, bar[2])
           /\ ~ \E e \in signals : e.id = event.id /\ e # event
           /\ event \in SignalEvent
           /\ signals' = signals \cup {event}
           /\ GoOn
    BY <1>1, <1>2, ProcessBindingEffect DEF BacktestInv, RunInv
  <2>2. GoOn => status' \in {"binding", "sorted"}
    BY <1>3, GoOnGoesOn DEF BacktestInv, RunInv
  <2> QED
    BY <2>1, <2>2
<1>5. CASE UNCHANGED signals
  <2>1. status' \in {"binding", "sorted", "refused"}
    BY <1>4
  <2> QED
    BY <1>3, <1>5, <2>1, QuietStepIsOfContract DEF Going
<1>6. CASE signals' # signals
  <2>1. /\ HasCandidate(seen, bar[2])
        /\ \A e \in signals : e.id # event.id
        /\ event \in SignalEvent /\ event \in signals'
        /\ signals' = signals \cup {event}
        /\ status' \in {"binding", "sorted"}
    BY <1>4, <1>6
  <2>2. UNCHANGED <<Plan, StoredBars>> /\ Phase = "running" /\ Phase' = "running"
    BY <1>3, <2>1, PlanStays, StoresAsTheyAre DEF Phase
  <2>3. StoredSignals' = StoredSignals \cup {Recorded(event)}
    <3>1. StoredSignals' = {Recorded(e)' : e \in signals'}
      BY DEF StoredSignals
    <3> QED
      BY <1>3, <2>1, <3>1, PlansOfInputsStay DEF StoredSignals
  <2>4. \A x \in StoredSignals : x.id # Recorded(event).id
    BY <2>1 DEF StoredSignals, Recorded
  <2>5. Recorded(event) \in StoredSignals' \ StoredSignals
    BY <2>3, <2>4
  <2>6. Recorded(event).bars \subseteq StoredBars
    <3>1. \A i \in DOMAIN event.window : stored[<<event.window[i], event.id.symbol>>] # NoBar
      BY <1>3, <2>1 DEF BacktestInv, RunInv, PastInv, DecisionsUseThePastOnly
    <3>2. BarsOf(event) \subseteq StoredBars
      BY <1>3, <2>1, <3>1, BarsOfSignalAreStored DEF Going
    <3> QED
      BY <3>2 DEF Recorded
  <2>7. Recorded(event) \in Plan.signals
    <3>1. PICK c \in PlannedSignals : c.event = event
      BY <1>1, <1>2, <2>1, SignalMadeIsPlanned
    <3> QED
      BY <1>3, <3>1 DEF Plan
  <2>8. Contract!StoreSignal("backtest")
    BY <2>2, <2>3, <2>4, <2>5, <2>6, <2>7 DEF Contract!StoreSignal, TheRun
  <2> QED
    BY <2>8 DEF Contract!Next, TheRun
<1> QED
  BY <1>5, <1>6

\* When every bar is taken the engines hold all that is planned.
LEMMA EnginesHoldThePlan ==
  ASSUME BacktestInv, status = "sorted", Waiting = {}
  PROVE  PlannedSignals \subseteq Calls
<1>1. \A k \in Key : taken[k] = Len(given[k])
  BY InputAssumption DEF Waiting, BacktestInv, RunInv, TypeInv, TypeOK, InputsInv
<1>2. ASSUME NEW b \in Binding, NEW s \in Symbol
      PROVE  PlannedBars(b, s) = history[<<b, s>>]
  <2>1. \A u \in Time : <<u, s>> \in Key
    BY DEF Key
  <2>2. PlannedSegments(b, s) = Segments(b, s)
    BY <1>1, <2>1 DEF PlannedSegments, Segments
  <2>3. Followed(b, s, LastTime) = PlannedBars(b, s)
    BY <2>2, Times, FollowedIsConcat DEF PlannedBars
  <2> QED
    BY <2>3, EnginesHoldFollowed DEF BacktestInv
<1>3. ASSUME NEW c \in PlannedSignals PROVE c \in Calls
  <2>1. PICK b \in Binding, s \in Symbol : c \in CallsFor(b, s, PlannedBars(b, s))
    BY PlannedSignalsAre DEF BacktestInv, RunInv
  <2> QED
    BY <1>2, <2>1, InCalls
<1> QED
  BY <1>3

\* A run that finishes has stored every bar it was given, and the plan.
LEMMA FinishIsOfContract ==
  ASSUME BacktestInv, Finish
  PROVE  [Contract!Next]_(Contract!vars)
<1>1. /\ status = "sorted" /\ status' = "finished" /\ Waiting = {}
      /\ UNCHANGED <<given, published, strategyOf, stored, signals>>
  BY DEF Finish, inputs
<1>2. UNCHANGED <<Plan, StoredBars, StoredSignals>> /\ Phase = "running" /\ Phase' = "COMPLETED"
  BY <1>1, PlanStays, StoresAsTheyAre DEF Phase
<1>3. ASSUME NEW k \in Key, NEW i \in DOMAIN given[k] PROVE <<k, given[k][i]>> \in StoredBars
  <2>1. /\ DOMAIN given[k] = 1..Len(given[k]) /\ Len(given[k]) \in Nat
        /\ taken[k] \in Nat /\ taken[k] <= Len(given[k])
    BY InputAssumption DEF BacktestInv, RunInv, TypeInv, TypeOK, InputsInv
  <2>2. taken[k] = Len(given[k])
    BY <1>1, <2>1 DEF Waiting
  <2>3. stored[k] = given[k][i]
    BY <1>1, <2>1, <2>2 DEF BacktestInv, StoreInv, ContentsAgree, Saved, Going
  <2>4. given[k][i] # NoBar
    BY InputAssumption DEF BacktestInv, RunInv, TypeInv, InputsInv
  <2> QED
    BY <2>3, <2>4, StoredBarsAre
<1>4. Plan.bars \subseteq StoredBars
  BY <1>1, <1>3 DEF Plan, GivenBars
<1>5. Plan.signals \subseteq StoredSignals
  <2>1. PlannedSignals \subseteq Calls /\ signals = {c.event : c \in Calls}
    BY <1>1, EnginesHoldThePlan DEF BacktestInv, RunInv, SignalsAreCalledFor, Going
  <2> QED
    BY <1>1, <2>1 DEF Plan, StoredSignals
<1>6. Contract!Complete("backtest")
  BY <1>2, <1>4, <1>5 DEF Contract!Complete, Contract!Moves, TheRun
<1> QED
  BY <1>6 DEF Contract!Next, TheRun

\* Every step of a backtest is one that the contract allows, or one that readers
\* of the stores do not see.
LEMMA NextIsOfContract ==
  BacktestInv /\ BacktestInv' /\ [Next]_vars => [Contract!Next]_(Contract!vars)
<1> SUFFICES ASSUME BacktestInv, BacktestInv', [Next]_vars
             PROVE  [Contract!Next]_(Contract!vars)
  OBVIOUS
<1>1. UNCHANGED <<given, published, strategyOf>>
  BY InputsStay
<1>2. CASE \/ \E k \in Key : TakeBar(k)
           \/ CheckUniverses \/ CountBar \/ SkipBinding
  <2>1. /\ UNCHANGED <<stored, signals>>
        /\ status \in Going \ {"finished"}
    BY <1>2 DEF TakeBar, CheckUniverses, CountBar, SkipBinding, Going
  <2>2. status' \in (Going \ {"finished"}) \cup {"early"}
    BY <1>2, GoOnGoesOn DEF TakeBar, CheckUniverses, CountBar, SkipBinding, Going, BacktestInv, RunInv
  <2> QED
    BY <1>1, <2>1, <2>2, QuietStepIsOfContract
<1>3. CASE UNCHANGED vars
  <2>1. UNCHANGED <<stored, signals, status>>
    BY <1>3 DEF vars, loop
  <2>2. UNCHANGED <<StoredBars, StoredSignals, Phase, Plan>>
    BY <1>1, <2>1, StoresAsTheyAre, PlansOfInputsStay DEF Phase, Plan
  <2> QED
    BY <2>2 DEF Contract!vars
<1> QED
  BY <1>2, <1>3, InitializeIsOfContract, SaveBarIsOfContract, ProcessBindingIsOfContract,
     FinishIsOfContract DEF Next

\* A backtest keeps the contract of RecordedRuns with whoever reads its stores,
\* for every list of bars in every order, repeated, revised or too early, and
\* whatever versions of its universes are published: what it stores is of the
\* plan that its input makes, a signal after the bars it is made of and once, and
\* it completes the plan or fails.
THEOREM BacktestsKeepTheContract == Spec => ImplementsContract
<1>1. Spec => Contract!Spec
  BY InitIsOfContract, NextIsOfContract, BacktestInvHolds, PTL DEF Spec, Contract!Spec
<1> QED
  BY <1>1 DEF ImplementsContract
===========================================================================
