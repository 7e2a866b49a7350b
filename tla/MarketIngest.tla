---------------------------- MODULE MarketIngest ----------------------------
(***************************************************************************)
(* Rows of a provider on their way into the market data repository:         *)
(* AKShareMarketDataSource.read makes them canonical, BarNormalizer turns    *)
(* them into MarketBars or quarantine records, and a loop saves each bar as  *)
(* the generator yields it.  read_with_quarantine yields the records, too:   *)
(* AKShareValidator only counts what it yields.                             *)
(*                                                                         *)
(* One thread reads.  The wall clock moves between two rows, the provider    *)
(* may answer a later call differently, and a call to it may fail.  One      *)
(* profile is used: timeframe and versions are the same for all bars.        *)
(* Prices and volumes are integers.                                         *)
(***************************************************************************)
EXTENDS Sorting

CONSTANTS
  LastNow,       \* the wall clock shows 0..LastNow
  Period,        \* length of a bar
  Answers,       \* rows that the provider may return, for each symbol
  Calls,         \* calls of read and validate_window: what, symbols, window
  MaxCalls,
  NoColumn,      \* the row does not have the column
  NoValue,       \* None
  Word           \* a text that is no number and no time

ASSUME IngestAssumption == LastNow \in Nat

VARIABLES
  duplicatePolicy,  \* of the repository: "RAISE" or "CONFLICT_TO_QUARANTINE"
  wall,             \* datetime.now()
  reading,          \* the call that runs or ran last
  asked,            \* symbols that are still to be asked for
  rows,             \* rows of the latest answer that are not taken yet
  progress,         \* how the call goes: idle, reading, done, failed, conflict
  repository,       \* _bars
  quarantined,      \* _quarantine
  tally,            \* what validate_window has collected
  read,             \* history: the bars that were given to save_bar
  callsMade         \* calls so far, at most MaxCalls

ingestVars == <<duplicatePolicy, wall, reading, asked, rows, progress, repository, quarantined,
                tally, read, callsMade>>

NoTally == [bars |-> <<>>, refused |-> 0]

IngestInit ==
  /\ duplicatePolicy \in {"RAISE", "CONFLICT_TO_QUARANTINE"}
  /\ wall = 0
  /\ reading = NoValue /\ asked = <<>> /\ rows = <<>>
  /\ progress = "idle"
  /\ repository = {} /\ quarantined = <<>>
  /\ tally = NoTally
  /\ read = <<>> /\ callsMade = 0

-----------------------------------------------------------------------------
(* From a row to a bar *)

KnownStatus == {"TRADING", "HALTED", "LIMIT_UP", "LIMIT_DOWN", "CLOSED", "UNKNOWN"}

\* _canonical_row does not raise: time and prices have their columns.
HasColumns(row) ==
  /\ row.time \notin {NoColumn, Word}
  /\ NoColumn \notin {row.open, row.high, row.low, row.close}

\* _canonical_row: what the other columns default to.
Canonical(row, symbol) ==
  [row EXCEPT !.symbol = IF @ = NoColumn THEN symbol ELSE @,
              !.volume = IF @ = NoColumn THEN NoValue ELSE @,
              !.status = IF @ = NoColumn THEN "TRADING" ELSE @]

\* _decimal and _optional_decimal do not raise.
IsDecimal(value) == value \notin {NoValue, Word}
IsOptionalDecimal(value) == value # Word

\* The MarketBar of a row, ended at row.time and ingested at a time.
BarOf(row, now) ==
  [symbol |-> row.symbol, start |-> row.time - Period, time |-> row.time, ingested |-> now,
   content |-> [open |-> row.open, high |-> row.high, low |-> row.low, close |-> row.close,
                volume |-> row.volume,
                status |-> IF row.status \in KnownStatus THEN row.status ELSE "UNKNOWN"]]

\* MarketBar.validate of a bar that is said to be closed.
ValidBar(bar) ==
  LET c == bar.content IN
  /\ bar.start < bar.time
  /\ bar.time <= bar.ingested
  /\ \A price \in {c.open, c.high, c.low, c.close} : price >= 0 /\ c.low <= price /\ price <= c.high
  /\ c.volume # NoValue => c.volume >= 0

\* quarantine_raw_bar returns a bar.
Normalizes(row, now) ==
  /\ \A value \in {row.open, row.high, row.low, row.close} : IsDecimal(value)
  /\ IsOptionalDecimal(row.volume)
  /\ ValidBar(BarOf(row, now))

\* The row becomes a bar: otherwise read drops it, and read_with_quarantine
\* yields a record of it.
Accepted(row) == HasColumns(row) /\ Normalizes(Canonical(row, reading.symbol), wall)

BarRead(row) == BarOf(Canonical(row, reading.symbol), wall)

InWindow(bar) == bar.time \in reading.from..reading.to

-----------------------------------------------------------------------------
(* The repository *)

Stored(symbol, time) == {b \in repository : b.symbol = symbol /\ b.time = time}

\* Mutant of Saved: the latest content is kept.
SavedOver(bar) == (repository \ Stored(bar.symbol, bar.time)) \cup {bar}

\* save_bar: only what has a new key goes into the repository.
Saved(bar) == IF Stored(bar.symbol, bar.time) = {} THEN repository \cup {bar} ELSE repository

\* The same key has other content.
Conflicts(bar) == \E b \in Stored(bar.symbol, bar.time) : b.content # bar.content

SaveRead(bar) ==
  /\ repository' = Saved(bar)
  /\ read' = Append(read, bar)
  /\ \/ /\ ~Conflicts(bar)
        /\ UNCHANGED <<quarantined, progress>>
     \/ /\ Conflicts(bar) /\ duplicatePolicy = "CONFLICT_TO_QUARANTINE"
        /\ quarantined' = Append(quarantined, [symbol |-> bar.symbol, time |-> bar.time])
        /\ UNCHANGED progress
     \/ /\ Conflicts(bar) /\ duplicatePolicy = "RAISE"
        /\ progress' = "conflict"
        /\ UNCHANGED quarantined

\* read_bars and MarketDataReplaySource.read
ReadBars(symbol, from, to) ==
  ByTime({b \in repository : b.symbol = symbol /\ b.time \in from..to})

\* query_missing
QueryMissing(symbol, expected) == {t \in expected : Stored(symbol, t) = {}}

-----------------------------------------------------------------------------
(* Reconciliation *)

\* {key: bar for bar in bars}: of bars with one key the last one counts.
KeyOf(bar) == <<bar.symbol, bar.time>>
ByKey(bars, key) == bars[Max({i \in DOMAIN bars : KeyOf(bars[i]) = key})]

\* compare_bars, with tolerances of zero: the keys that one side misses and those
\* whose prices or volumes differ.  Status and the other metadata are not compared.
Issues(left, right) ==
  LET keys(bars) == {KeyOf(bars[i]) : i \in DOMAIN bars}
      compared(bars, key) == [ByKey(bars, key).content EXCEPT !.status = "UNKNOWN"] IN
  {[type |-> "MISSING_LEFT", key |-> k] : k \in keys(right) \ keys(left)}
  \cup {[type |-> "MISSING_RIGHT", key |-> k] : k \in keys(left) \ keys(right)}
  \cup {[type |-> "MISMATCH", key |-> k] : k \in
          {k \in keys(left) \cap keys(right) : compared(left, k) # compared(right, k)}}

-----------------------------------------------------------------------------
(* Steps *)

Call(call) ==
  /\ progress # "reading" /\ callsMade < MaxCalls
  /\ reading' = [what |-> call.what, symbol |-> NoValue, from |-> call.from, to |-> call.to,
                 symbols |-> call.symbols]
  /\ asked' = call.symbols
  /\ rows' = <<>>
  /\ progress' = "reading"
  /\ tally' = NoTally
  /\ callsMade' = callsMade + 1
  /\ UNCHANGED <<duplicatePolicy, wall, repository, quarantined, read>>

\* _fetch_rows for the next symbol: an answer of the provider, or an exception,
\* which leaves what the earlier symbols brought in the repository.
FetchRows ==
  /\ progress = "reading" /\ rows = <<>> /\ asked # <<>>
  /\ asked' = Tail(asked)
  /\ reading' = [reading EXCEPT !.symbol = Head(asked)]
  /\ \/ rows' \in Answers[Head(asked)] /\ UNCHANGED progress
     \/ rows' = <<>> /\ progress' = "failed"
  /\ UNCHANGED <<duplicatePolicy, wall, repository, quarantined, tally, read, callsMade>>

\* read and the save_bar of its caller: the generator goes on when the bar is saved.
TakeRow ==
  LET row == Head(rows) IN
  /\ progress = "reading" /\ reading.what = "read" /\ rows # <<>>
  /\ rows' = Tail(rows)
  /\ IF Accepted(row) /\ InWindow(BarRead(row)) THEN SaveRead(BarRead(row))
     ELSE UNCHANGED <<repository, read, quarantined, progress>>
  /\ UNCHANGED <<duplicatePolicy, wall, reading, asked, tally, callsMade>>

\* read_with_quarantine and validate_window, which counts what it yields.
CountRow ==
  LET row == Head(rows) IN
  /\ progress = "reading" /\ reading.what = "validate" /\ rows # <<>>
  /\ rows' = Tail(rows)
  /\ tally' = IF ~Accepted(row) THEN [tally EXCEPT !.refused = @ + 1]
              ELSE IF InWindow(BarRead(row)) THEN [tally EXCEPT !.bars = Append(@, BarRead(row))]
              ELSE tally
  /\ UNCHANGED <<duplicatePolicy, wall, reading, asked, progress, repository, quarantined,
                 read, callsMade>>

EndCall ==
  /\ progress = "reading" /\ rows = <<>> /\ asked = <<>>
  /\ progress' = "done"
  /\ UNCHANGED <<duplicatePolicy, wall, reading, asked, rows, repository, quarantined, tally, read,
                 callsMade>>

TimePasses ==
  /\ wall < LastNow
  /\ wall' = wall + 1
  /\ UNCHANGED <<duplicatePolicy, reading, asked, rows, progress, repository, quarantined, tally,
                 read, callsMade>>

IngestNext == \/ \E call \in Calls : Call(call)
              \/ FetchRows \/ TakeRow \/ CountRow \/ EndCall \/ TimePasses

IngestSpec == IngestInit /\ [][IngestNext]_ingestVars

-----------------------------------------------------------------------------
(* Properties *)

\* The bars of a key that were given to save_bar, by their places.
Reads(symbol, time) == {i \in DOMAIN read : KeyOf(read[i]) = <<symbol, time>>}

FirstRead(symbol, time) == read[Min(Reads(symbol, time))]

\* The bars that were given to save_bar with other content than the first ones of
\* their keys.
Contradictions ==
  {i \in DOMAIN read : read[i].content # FirstRead(read[i].symbol, read[i].time).content}

\* The repository keeps the first closed bar that is read for each key, whatever
\* the provider says of it later, and nothing of a bar that is still open; every
\* contradiction is either in the quarantine or has ended the call, and never
\* both; query_missing and a replay agree on what is there; and the reconciler
\* finds nothing between the repository and all that was read but what is in the
\* quarantine or has ended the call.
FirstReadIsKept ==
  LET symbols == {b.symbol : b \in ToSet(read)} IN
  /\ \A s \in symbols : \A t \in {b.time : b \in ToSet(read)} :
       Stored(s, t) = IF Reads(s, t) = {} THEN {} ELSE {FirstRead(s, t)}
  /\ Len(quarantined) = IF duplicatePolicy = "RAISE" THEN 0 ELSE Cardinality(Contradictions)
  /\ progress = "conflict" => duplicatePolicy = "RAISE" /\ Len(read) \in Contradictions
  /\ \A s \in symbols :
       LET replayed == ReadBars(s, 0, LastNow) IN
         /\ QueryMissing(s, 0..LastNow) = (0..LastNow) \ {b.time : b \in ToSet(replayed)}
         /\ \A i \in DOMAIN replayed : ValidBar(replayed[i])
         /\ \A i \in 1..(Len(replayed) - 1) : replayed[i].time < replayed[i + 1].time
  /\ \A issue \in Issues(SetToSeq(repository), read) :
       /\ issue.type = "MISMATCH"
       /\ \E i \in Contradictions : KeyOf(read[i]) = issue.key
=============================================================================
