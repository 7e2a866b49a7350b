---------------------------- MODULE RunCommand ----------------------------
(***************************************************************************)
(* Invocations of run_backtest that share output directories, each its own  *)
(* process: load the spec, with --resume look at the manifest that is there,*)
(* run the orchestrator, write the manifest, with --debug the trace, and    *)
(* the manifest again, with its artifacts.  A process may be killed at any  *)
(* point.                                                                  *)
(*                                                                         *)
(* Writing a file is two steps: open(path, "w") truncates it, and the text  *)
(* gets in when it is closed, from the start: over a longer text that       *)
(* another process has put there in between, whose end remains.             *)
(***************************************************************************)
EXTENDS RunSpec, FiniteSets

CONSTANTS
  Commands,  \* number of invocations, in the order they are made
  Requests,  \* what may be invoked, in a sequence: [text, outputDir, debug, resume]
  Directory, \* output directories
  Garbled,   \* no valid JSON
  NoFile,    \* no file
  NotFound   \* nothing found by --resume

Command == 1..Commands

\* What may be in a file.
Text == {"plain", "complete", "run_complete", Garbled}
FileState == [content : Text, by : Command, length : Nat]

ASSUME CommandAssumption ==
  /\ Commands \in Nat
  /\ \A r \in ToSet(Requests) :
       /\ r.outputDir \in Directory \cup {Empty}
       /\ r.debug \in BOOLEAN /\ r.resume \in BOOLEAN
       /\ Loads(r.text) => WellFormed(r.text) /\ r.text.outputDir \in Directory
  /\ Empty \notin Directory
  /\ Garbled \notin {"plain", "complete", "run_complete"}
  /\ NoFile \notin FileState /\ NotFound \notin FileState

VARIABLES
  request,   \* which request each invocation is; 0 for none
  stage,     \* where it is
  code,      \* its exit code
  manifests, \* manifest.json of each directory
  traces,    \* debug/events.jsonl of each directory: who wrote it
  ran,       \* history: invocations whose orchestrator.run has returned
  found,     \* history: the manifest for which --resume said OK
  alone,     \* history: nobody else wrote there while the invocation did
  latest     \* history: the last invocation that began to write there

files == <<manifests, traces>>
commandHistory == <<ran, found, alone, latest>>
commandVars == <<request, stage, code, files, ran, found, alone, latest>>

SpecOf(c) == Requests[request[c]].text

\* resolve_output_dir
DirOf(c) == IF Requests[request[c]].outputDir # Empty THEN Requests[request[c]].outputDir
            ELSE SpecOf(c).outputDir

\* A file: what it says, who wrote that, and how long it is.
File(content, by, length) == [content |-> content, by |-> by, length |-> length]

Truncated(c) == File(Garbled, c, 0)

\* The artifacts block makes a manifest longer.
Length(content) == IF content = "plain" THEN 1 ELSE 2

Overlaid(file, content, c) ==
  IF Length(content) >= file.length THEN File(content, c, Length(content))
  ELSE File(Garbled, c, file.length)

\* The manifest in a file, without the artifacts or with them.
Manifest(content, c) == IF content = "plain" THEN BuiltManifest(SpecOf(c))
                        ELSE WithArtifacts(BuiltManifest(SpecOf(c)))

IsWhole(file) == file # NoFile /\ file.content # Garbled

CommandInit ==
  /\ request = [c \in Command |-> 0]
  /\ stage = [c \in Command |-> "new"]
  /\ code = [c \in Command |-> "none"]
  /\ manifests = [d \in Directory |-> NoFile]
  /\ traces = [d \in Directory |-> NoFile]
  /\ ran = {}
  /\ found = [c \in Command |-> NotFound]
  /\ alone = [c \in Command |-> TRUE]
  /\ latest = [d \in Directory |-> 0]

Writing == {"fill", "open trace", "fill trace", "reopen", "refill"}

Go(c, next) == stage' = [stage EXCEPT ![c] = next] /\ UNCHANGED code

Exit(c, exitCode) == /\ stage' = [stage EXCEPT ![c] = "exited"]
                     /\ code' = [code EXCEPT ![c] = exitCode]

-----------------------------------------------------------------------------
(* _run *)

\* The spec is loaded.
Start(c, r) ==
  /\ stage[c] = "new" /\ \A e \in 1..(c - 1) : stage[e] # "new"
  /\ request' = [request EXCEPT ![c] = r]
  /\ IF ~Loads(Requests[r].text) THEN Exit(c, "USER_ERROR")
     ELSE Go(c, IF Requests[r].resume THEN "look" ELSE "run")
  /\ UNCHANGED <<files, commandHistory>>

\* Mutant of SameHash: any manifest will do.
AnyHash(file, s) == TRUE

SameHash(file, s) == Manifest(file.content, file.by).hash = ResolvedHash(s)

\* --resume, with load_manifest: a manifest that is no JSON is an exception.
LookForManifest(c) ==
  LET file == manifests[DirOf(c)] IN
  /\ stage[c] = "look"
  /\ \/ file = NoFile /\ Go(c, "run") /\ UNCHANGED found
     \/ file # NoFile /\ ~IsWhole(file) /\ Exit(c, "TRACEBACK") /\ UNCHANGED found
     \/ /\ IsWhole(file) /\ SameHash(file, SpecOf(c))
        /\ Exit(c, "OK")
        /\ found' = [found EXCEPT ![c] = file]
     \/ /\ IsWhole(file) /\ ~SameHash(file, SpecOf(c))
        /\ Exit(c, "RUN_FAILED") /\ UNCHANGED found
  /\ UNCHANGED <<request, files, ran, alone, latest>>

\* _seed_empty_universes: UniverseSnapshot.validate wants an as_of_version, and
\* what save raises is ignored.
SeededUniverses(s) == IF s.asOf = Empty THEN {} ELSE VersionsOf(s, "universe")

\* orchestrator.run on no bars: it raises when a universe is unknown.
RunOrchestrator(c) ==
  /\ stage[c] = "run"
  /\ IF VersionsOf(SpecOf(c), "universe") \subseteq SeededUniverses(SpecOf(c))
       THEN Go(c, "open") /\ ran' = ran \cup {c}
       ELSE Exit(c, "RUN_FAILED") /\ UNCHANGED ran
  /\ UNCHANGED <<request, files, found, alone, latest>>

OtherWriters(c) == {e \in Command \ {c} : stage[e] \in Writing /\ DirOf(e) = DirOf(c)}

\* _write_manifest begins: the first thing that the invocation writes.
OpenManifest(c) ==
  /\ stage[c] = "open"
  /\ Go(c, "fill")
  /\ manifests' = [manifests EXCEPT ![DirOf(c)] = Truncated(c)]
  /\ alone' = [e \in Command |->
       alone[e] /\ (e \in OtherWriters(c) \cup {c} => OtherWriters(c) = {})]
  /\ latest' = [latest EXCEPT ![DirOf(c)] = c]
  /\ UNCHANGED <<request, traces, ran, found>>

\* Mutant of AfterManifest: the trace is left out.
NoTrace(c) == "reopen"

AfterManifest(c) == IF Requests[request[c]].debug THEN "open trace" ELSE "reopen"

FillManifest(c) ==
  /\ stage[c] = "fill"
  /\ Go(c, AfterManifest(c))
  /\ manifests' = [manifests EXCEPT ![DirOf(c)] = Overlaid(@, "plain", c)]
  /\ UNCHANGED <<request, traces, commandHistory>>

\* _write_debug_trace
OpenTrace(c) ==
  /\ stage[c] = "open trace"
  /\ Go(c, "fill trace")
  /\ traces' = [traces EXCEPT ![DirOf(c)] = Truncated(c)]
  /\ UNCHANGED <<request, manifests, commandHistory>>

FillTrace(c) ==
  /\ stage[c] = "fill trace"
  /\ Go(c, "reopen")
  /\ traces' = [traces EXCEPT ![DirOf(c)] = File("run_complete", c, 1)]
  /\ UNCHANGED <<request, manifests, commandHistory>>

\* write_text of the manifest with its artifacts.
ReopenManifest(c) ==
  /\ stage[c] = "reopen"
  /\ Go(c, "refill")
  /\ manifests' = [manifests EXCEPT ![DirOf(c)] = Truncated(c)]
  /\ UNCHANGED <<request, traces, commandHistory>>

RefillManifest(c) ==
  /\ stage[c] = "refill"
  /\ Exit(c, "OK")
  /\ manifests' = [manifests EXCEPT ![DirOf(c)] = Overlaid(@, "complete", c)]
  /\ UNCHANGED <<request, traces, commandHistory>>

\* The process is killed.
Kill(c) ==
  /\ stage[c] \notin {"new", "exited"}
  /\ Exit(c, "KILLED")
  /\ UNCHANGED <<request, files, commandHistory>>

CommandNext == \E c \in Command :
  \/ \E r \in DOMAIN Requests : Start(c, r)
  \/ LookForManifest(c) \/ RunOrchestrator(c)
  \/ OpenManifest(c) \/ FillManifest(c) \/ OpenTrace(c) \/ FillTrace(c)
  \/ ReopenManifest(c) \/ RefillManifest(c)
  \/ Kill(c)

CommandSpec == CommandInit /\ [][CommandNext]_commandVars

-----------------------------------------------------------------------------
(* Properties *)

ExitCode == {"none", "OK", "USER_ERROR", "RUN_FAILED", "TRACEBACK", "KILLED"}

\* Invocations are at a step and the files are of whole or garbled manifests.
CommandTypeOK ==
  /\ \A c \in Command : IF stage[c] = "new" THEN request[c] = 0
                        ELSE request[c] \in DOMAIN Requests
  /\ stage \in [Command -> Writing \cup {"new", "look", "run", "open", "exited"}]
  /\ code \in [Command -> ExitCode]
  /\ \A c \in Command : code[c] = "none" <=> stage[c] # "exited"
  /\ \A d \in Directory : manifests[d] # NoFile => manifests[d].by \in Command
  /\ ran \subseteq Command

\* IF --resume says OK THEN another invocation's orchestrator has finished a run
\* of the same hash in that directory, and the manifest that was found is
\* comparable with what this invocation would have written and tells of no
\* difference but the run_id: a file that was cut off or overwritten half way is
\* never taken for a finished run.
ResumeIsJustified ==
  \A c \in Command : found[c] # NotFound =>
    LET other == found[c].by
        manifest == Manifest(found[c].content, other)
        own == BuiltManifest(SpecOf(c)) IN
    /\ other \in ran \ {c} /\ DirOf(other) = DirOf(c)
    /\ Comparable(manifest, own) /\ Differences(manifest, own) \subseteq {"runId"}

\* IF an invocation ran to its end while nobody else wrote to its directory, and
\* nobody began to since, THEN the directory has its manifest with the
\* artifacts, and its trace with --debug, whatever killed invocations had left
\* there; validate accepts it if the spec names its data source.
LoneRunLeavesItsManifest ==
  \A c \in Command :
    code[c] = "OK" /\ found[c] = NotFound /\ alone[c] /\ latest[DirOf(c)] = c =>
      LET file == manifests[DirOf(c)] IN
      /\ file.content = "complete" /\ file.by = c
      /\ Requests[request[c]].debug => traces[DirOf(c)] = File("run_complete", c, 1)
      /\ SpecOf(c).source # Empty => Validated(Manifest("complete", c))
============================================================================
