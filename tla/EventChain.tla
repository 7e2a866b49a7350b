---------------------------- MODULE EventChain ----------------------------
(***************************************************************************)
(* EventChainExporter: the events of a run get numbers, wait in a buffer    *)
(* and are appended to a JSONL file when the buffer is full, on flush and   *)
(* on close.  A process that dies loses its buffer; the next one appends to *)
(* the same file with an exporter of its own.                               *)
(*                                                                         *)
(* _flush writes the entries one by one and empties the buffer at the end.  *)
(* A payload that json.dumps refuses (a Decimal is one) makes it raise half *)
(* way: what was written stays in the file, and the buffer stays as it is.  *)
(***************************************************************************)
EXTENDS Naturals, SequencesExt

CONSTANTS
  FlushEvery,   \* flush_every
  MaxEmits,     \* bound on the calls of emit of a process
  MaxProcesses  \* bound on the processes, one after the other

ASSUME ChainAssumption ==
  FlushEvery \in Nat \ {0} /\ MaxEmits \in Nat /\ MaxProcesses \in Nat \ {0}

VARIABLES
  process,   \* the number of the process
  sequence,  \* _sequence
  buffer,    \* _buffer
  lines,     \* the file
  emitted,   \* history: the entries that emit put into the buffer, in order
  raised     \* history: a flush has raised in this process

chainVars == <<process, sequence, buffer, lines, emitted, raised>>

Entry == [process : 1..MaxProcesses, sequence : 1..MaxEmits, serializable : BOOLEAN]

ChainInit ==
  /\ process = 1 /\ sequence = 0 /\ buffer = <<>>
  /\ lines = <<>> /\ emitted = <<>> /\ raised = FALSE

\* The entries up to the first that json.dumps refuses.
Writable(entries) ==
  LET refused == {i \in DOMAIN entries : ~entries[i].serializable} IN
  IF refused = {} THEN entries ELSE SubSeq(entries, 1, Min(refused) - 1)

\* Mutant of Kept: the buffer is emptied before the entries are written.
NothingKept(entries) == <<>>

\* The buffer after _flush: emptied at the end, if that is reached.
Kept(entries) == IF Writable(entries) = entries THEN <<>> ELSE entries

\* _flush
Flush(entries) ==
  /\ lines' = lines \o Writable(entries)
  /\ buffer' = Kept(entries)
  /\ raised' = (raised \/ Writable(entries) # entries)

\* emit of an event of a known type.
Emit(serializable) ==
  LET entry == [process |-> process, sequence |-> sequence + 1,
                serializable |-> serializable]
      entries == Append(buffer, entry) IN
  /\ sequence < MaxEmits
  /\ sequence' = sequence + 1
  /\ emitted' = Append(emitted, entry)
  /\ IF Len(entries) >= FlushEvery THEN Flush(entries)
     ELSE buffer' = entries /\ UNCHANGED <<lines, raised>>
  /\ UNCHANGED process

\* EventChainEntry refuses an unknown type, after the number is taken.
EmitUnknown ==
  /\ sequence < MaxEmits
  /\ sequence' = sequence + 1
  /\ UNCHANGED <<process, buffer, lines, emitted, raised>>

\* flush, and close, which does no more.
Close ==
  /\ buffer # <<>>
  /\ Flush(buffer)
  /\ UNCHANGED <<process, sequence, emitted>>

\* The process ends, closed or not, and another one exports to the same file.
Restart ==
  /\ process < MaxProcesses
  /\ process' = process + 1
  /\ sequence' = 0 /\ buffer' = <<>> /\ emitted' = <<>> /\ raised' = FALSE
  /\ UNCHANGED lines

\* The raising flush of a full buffer is tried again by every emit and close:
\* MaxLines bounds the file that they write.
MaxLines == 2 * MaxEmits * MaxProcesses

ChainNext ==
  /\ Len(lines) < MaxLines
  /\ \/ \E s \in BOOLEAN : Emit(s)
     \/ EmitUnknown \/ Close \/ Restart

ChainSpec == ChainInit /\ [][ChainNext]_chainVars

-----------------------------------------------------------------------------
(* Properties *)

WrittenBy(p) == {lines[i] : i \in {j \in DOMAIN lines : lines[j].process = p}}

\* The lines after the first n, and then the buffer, are what was emitted.
CompleteAfter(n) ==
  /\ \A i \in 1..n : lines[i].process # process
  /\ SubSeq(lines, n + 1, Len(lines)) \o buffer = emitted

\* The exporter, its file and its history are of their types.
ChainTypeOK ==
  /\ process \in 1..MaxProcesses /\ sequence \in 0..MaxEmits
  /\ buffer \in Seq(Entry) /\ lines \in Seq(Entry) /\ emitted \in Seq(Entry)
  /\ raised \in BOOLEAN

\* No event that was emitted is lost while its process lives: it is in the file
\* or still in the buffer, in order and once as long as no flush has raised.
\* What a process that dies without a raising flush leaves out is less than a
\* buffer ("runs terminated by crashes still have a partial event chain",
\* observability/event_chain.py:81).
ChainIsComplete ==
  /\ ToSet(emitted) \subseteq WrittenBy(process) \cup ToSet(buffer)
  /\ ~raised => /\ \E n \in 0..Len(lines) : CompleteAfter(n)
                /\ Len(buffer) < FlushEvery
============================================================================
