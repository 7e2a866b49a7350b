------------------------- MODULE RunCommand_proofs -------------------------
(***************************************************************************)
(* What TLAPS proves of RunCommand, for any number of invocations, any specs *)
(* and directories, however they interleave and are killed: a manifest is    *)
(* whole only if its run returned, and one that nobody disturbed is there.   *)
(* And of what is around the runs: the trace that EventChain writes is       *)
(* without gaps, the numbers that AlertFlow reads are sums of what was       *)
(* counted, its alerts reach their handlers, and of the bars that            *)
(* MarketIngest reads the first ones are kept.                              *)
(***************************************************************************)
EXTENDS RunCommand, EventChain, AlertFlow, MarketIngest, SequenceTheorems, SumLemmas

-----------------------------------------------------------------------------
(* Manifests *)

ManifestField == {"runId", "mode", "status", "artifacts", "hash", "strategies", "features",
                  "source", "asOf", "cost", "from", "to", "bars", "signals"}

\* What a manifest says of its spec.
LEMMA BuiltManifestFields ==
  ASSUME NEW s
  PROVE  LET m == BuiltManifest(s) IN
         /\ DOMAIN m = ManifestField
         /\ m.hash = ResolvedHash(s) /\ m.mode = s.mode
         /\ m.strategies = VersionsOf(s, "version") /\ m.features = VersionsOf(s, "feature")
         /\ m.source = s.source /\ m.asOf = s.asOf /\ m.cost = s.cost
         /\ m.from = s.from /\ m.to = s.to
         /\ m.status = "success" /\ m.bars = 0 /\ m.signals = 0
<1> DEFINE m0 == StartedManifest(RunIdOf(s))
           m1 == [m0 EXCEPT !.mode = s.mode]
           m2 == SetConfigSnapshot(m1, ResolvedHash(s))
           m3 == SetVersions(m2, s)
           m4 == SetDataRange(m3, s)
           m5 == SetStatistics(m4, 0, 0)
<1>1. DOMAIN m1 = ManifestField /\ m1.mode = s.mode
  BY DEF StartedManifest, ManifestField
<1> HIDE DEF m1
<1>2. DOMAIN m2 = ManifestField /\ m2.mode = s.mode /\ m2.hash = ResolvedHash(s)
  BY <1>1 DEF SetConfigSnapshot, ManifestField
<1> HIDE DEF m2
<1>3. /\ DOMAIN m3 = ManifestField /\ m3.mode = s.mode /\ m3.hash = ResolvedHash(s)
      /\ m3.strategies = VersionsOf(s, "version") /\ m3.features = VersionsOf(s, "feature")
      /\ m3.source = s.source /\ m3.asOf = s.asOf /\ m3.cost = s.cost
  BY <1>2 DEF SetVersions, ManifestField
<1> HIDE DEF m3
<1>4. /\ DOMAIN m4 = ManifestField /\ m4.mode = s.mode /\ m4.hash = ResolvedHash(s)
      /\ m4.strategies = VersionsOf(s, "version") /\ m4.features = VersionsOf(s, "feature")
      /\ m4.source = s.source /\ m4.asOf = s.asOf /\ m4.cost = s.cost
      /\ m4.from = s.from /\ m4.to = s.to
  BY <1>3 DEF SetDataRange, ManifestField
<1> HIDE DEF m4
<1>5. /\ DOMAIN m5 = ManifestField /\ m5.mode = s.mode /\ m5.hash = ResolvedHash(s)
      /\ m5.strategies = VersionsOf(s, "version") /\ m5.features = VersionsOf(s, "feature")
      /\ m5.source = s.source /\ m5.asOf = s.asOf /\ m5.cost = s.cost
      /\ m5.from = s.from /\ m5.to = s.to /\ m5.bars = 0 /\ m5.signals = 0
  BY <1>4 DEF SetStatistics, ManifestField
<1> HIDE DEF m5
<1>6. BuiltManifest(s) = Finalized(m5, "success")
  BY DEF BuiltManifest, m5, m4, m3, m2, m1
<1> QED
  BY <1>5, <1>6 DEF Finalized, ManifestField

\* Specs with one hash differ in nothing that a manifest says but the run_id.
LEMMA SameHashSameFields ==
  ASSUME NEW s, NEW t, WellFormed(s), WellFormed(t), ResolvedHash(s) = ResolvedHash(t)
  PROVE  /\ s.mode = t.mode /\ s.source = t.source /\ s.asOf = t.asOf /\ s.cost = t.cost
         /\ s.from = t.from /\ s.to = t.to
         /\ \A f \in {"version", "feature"} : VersionsOf(s, f) = VersionsOf(t, f)
<1>2. ASSUME NEW u, WellFormed(u)
      PROVE  /\ ResolvedHash(u).mode = u.mode /\ ResolvedHash(u).source = u.source
             /\ ResolvedHash(u).asOf = u.asOf /\ ResolvedHash(u).cost = u.cost
             /\ ResolvedHash(u).from = u.from /\ ResolvedHash(u).to = u.to
             /\ ResolvedHash(u).bindings =
                  [i \in DOMAIN u.bindings |-> [u.bindings[i] EXCEPT !.cost = Empty]]
  <2> DEFINE bindings == [i \in DOMAIN u.bindings |-> [u.bindings[i] EXCEPT !.cost = Empty]]
  <2>1. ResolvedHash(u) = [u EXCEPT !.runId = Empty, !.outputDir = Empty, !.paths = Empty,
                                    !.bindings = bindings]
    BY DEF ResolvedHash
  <2> HIDE DEF bindings
  <2>2. /\ ResolvedHash(u).mode = u.mode /\ ResolvedHash(u).source = u.source
        /\ ResolvedHash(u).asOf = u.asOf /\ ResolvedHash(u).cost = u.cost
        /\ ResolvedHash(u).from = u.from /\ ResolvedHash(u).to = u.to
        /\ ResolvedHash(u).bindings = bindings
    BY <1>2, <2>1 DEF WellFormed, SpecField
  <2> QED
    BY <2>2 DEF bindings
<1>3. ASSUME NEW u, WellFormed(u), NEW i \in DOMAIN u.bindings
      PROVE  \A f \in {"version", "feature"} :
               ResolvedHash(u).bindings[i][f] = u.bindings[i][f]
  <2>1. ResolvedHash(u).bindings[i] = [u.bindings[i] EXCEPT !.cost = Empty]
    <3>1. ResolvedHash(u).bindings =
            [j \in DOMAIN u.bindings |-> [u.bindings[j] EXCEPT !.cost = Empty]]
      BY <1>2, <1>3
    <3> QED
      BY <1>3, <3>1
  <2>2. {"version", "feature"} \subseteq DOMAIN u.bindings[i]
    BY <1>3 DEF WellFormed, IdentityField
  <2>3. /\ [u.bindings[i] EXCEPT !.cost = Empty].version = u.bindings[i].version
        /\ [u.bindings[i] EXCEPT !.cost = Empty].feature = u.bindings[i].feature
    BY <2>2
  <2> QED
    BY <2>1, <2>3
<1>4. DOMAIN s.bindings = DOMAIN t.bindings
  <2>1. DOMAIN ResolvedHash(s).bindings = DOMAIN ResolvedHash(t).bindings
    OBVIOUS
  <2>2. ASSUME NEW u, WellFormed(u) PROVE DOMAIN ResolvedHash(u).bindings = DOMAIN u.bindings
    <3>1. ResolvedHash(u).bindings =
            [i \in DOMAIN u.bindings |-> [u.bindings[i] EXCEPT !.cost = Empty]]
      BY <1>2, <2>2
    <3> QED
      BY <3>1
  <2> QED
    BY <2>1, <2>2
<1>5. ASSUME NEW f \in {"version", "feature"} PROVE VersionsOf(s, f) = VersionsOf(t, f)
  <2>1. \A i \in DOMAIN s.bindings : s.bindings[i][f] = t.bindings[i][f]
    BY <1>3, <1>4
  <2> QED
    BY <1>4, <2>1 DEF VersionsOf
<1>6. /\ s.mode = t.mode /\ s.source = t.source /\ s.asOf = t.asOf /\ s.cost = t.cost
      /\ s.from = t.from /\ s.to = t.to
  <2>1. /\ ResolvedHash(s).mode = s.mode /\ ResolvedHash(s).source = s.source
        /\ ResolvedHash(s).asOf = s.asOf /\ ResolvedHash(s).cost = s.cost
        /\ ResolvedHash(s).from = s.from /\ ResolvedHash(s).to = s.to
    BY <1>2
  <2>2. /\ ResolvedHash(t).mode = t.mode /\ ResolvedHash(t).source = t.source
        /\ ResolvedHash(t).asOf = t.asOf /\ ResolvedHash(t).cost = t.cost
        /\ ResolvedHash(t).from = t.from /\ ResolvedHash(t).to = t.to
    BY <1>2
  <2> QED
    BY <2>1, <2>2
<1> QED
  BY <1>5, <1>6

\* What --resume finds for a spec differs from its own manifest in the run_id only.
LEMMA FoundManifestIsComparable ==
  ASSUME NEW s, NEW t, WellFormed(s), WellFormed(t), ResolvedHash(s) = ResolvedHash(t),
         NEW m \in {BuiltManifest(s), WithArtifacts(BuiltManifest(s))}
  PROVE  /\ Comparable(m, BuiltManifest(t))
         /\ Differences(m, BuiltManifest(t)) \subseteq {"runId"}
<1>1. /\ DOMAIN m = ManifestField
      /\ m.hash = ResolvedHash(s) /\ m.mode = s.mode
      /\ m.strategies = VersionsOf(s, "version") /\ m.features = VersionsOf(s, "feature")
      /\ m.source = s.source /\ m.asOf = s.asOf /\ m.cost = s.cost
      /\ m.from = s.from /\ m.to = s.to
      /\ m.status = "success" /\ m.bars = 0 /\ m.signals = 0
  BY BuiltManifestFields DEF WithArtifacts, ManifestField
<1> DEFINE n == BuiltManifest(t)
<1>2. /\ n.hash = ResolvedHash(t) /\ n.mode = t.mode
      /\ n.strategies = VersionsOf(t, "version") /\ n.features = VersionsOf(t, "feature")
      /\ n.source = t.source /\ n.asOf = t.asOf /\ n.cost = t.cost
      /\ n.from = t.from /\ n.to = t.to
      /\ n.status = "success" /\ n.bars = 0 /\ n.signals = 0
  BY BuiltManifestFields
<1> HIDE DEF n
<1>3. m.hash = n.hash /\ m.mode = n.mode /\ m.strategies = n.strategies
      /\ m.features = n.features /\ m.source = n.source /\ m.asOf = n.asOf /\ m.cost = n.cost
      /\ m.from = n.from /\ m.to = n.to /\ m.status = n.status /\ m.bars = n.bars
      /\ m.signals = n.signals
  BY <1>1, <1>2, SameHashSameFields
<1>4. Differences(m, n) \subseteq {"runId"}
  BY <1>1, <1>3 DEF Differences, ManifestField
<1> QED
  BY <1>4 DEF n, Comparable

-----------------------------------------------------------------------------
(* The inductive invariants *)

CommandStage == Writing \cup {"new", "look", "run", "open", "exited"}

\* The variables are functions of what they are to be functions of.
CommandShape ==
  /\ DOMAIN request = Command
  /\ stage \in [Command -> CommandStage] /\ code \in [Command -> ExitCode]
  /\ DOMAIN found = Command /\ alone \in [Command -> BOOLEAN]
  /\ manifests \in [Directory -> FileState \cup {NoFile}]
  /\ traces \in [Directory -> FileState \cup {NoFile}]
  /\ ran \subseteq Command
  /\ DOMAIN latest = Directory

\* What an invocation is does not change after it has started.
RequestsAreMade ==
  \A c \in Command : IF stage[c] = "new" THEN request[c] = 0 ELSE request[c] \in DOMAIN Requests

ExitsHaveCodes == \A c \in Command : code[c] = "none" <=> stage[c] # "exited"

\* An invocation that goes on has a spec that was loaded.
Loaded(c) == request[c] \in DOMAIN Requests /\ Loads(SpecOf(c))

LoadedGoOn ==
  \A c \in Command :
    stage[c] \notin {"new", "exited"} \/ c \in ran \/ found[c] # NotFound => Loaded(c)

\* Only an invocation whose orchestrator has returned writes, and ends well
\* without having found anything; while it writes there is a manifest.
WritersHaveRun ==
  /\ \A c \in Command : stage[c] \in Writing \cup {"open"} => c \in ran
  /\ \A c \in Command : stage[c] \in Writing => manifests[DirOf(c)] # NoFile
  /\ \A c \in Command : code[c] = "OK" /\ found[c] = NotFound => c \in ran
  /\ \A c \in ran : /\ stage[c] \in Writing \cup {"open", "exited"}
                    /\ SpecOf(c).asOf # Empty

\* A manifest was written by an invocation that has run, into its directory.
ManifestsAreOfRuns ==
  \A d \in Directory : manifests[d] # NoFile =>
    /\ manifests[d].content \in {"plain", "complete", Garbled}
    /\ manifests[d].by \in ran /\ DirOf(manifests[d].by) = d

FoundIsOfRun ==
  \A c \in Command : found[c] # NotFound =>
    /\ stage[c] = "exited"
    /\ found[c].content \in {"plain", "complete"}
    /\ found[c].by \in ran \ {c} /\ DirOf(found[c].by) = DirOf(c)
    /\ SameHash(found[c], SpecOf(c))

CommandInv ==
  /\ CommandShape /\ RequestsAreMade /\ ExitsHaveCodes /\ LoadedGoOn
  /\ WritersHaveRun /\ ManifestsAreOfRuns /\ FoundIsOfRun

\* Is the directory still as invocation c, undisturbed, has left it?
Owns(c) == /\ alone[c] /\ latest[DirOf(c)] = c
           /\ stage[c] \in Writing \/ (code[c] = "OK" /\ found[c] = NotFound)

\* What such an invocation has written so far.
WrittenManifest(c) ==
  IF stage[c] \in {"fill", "refill"} THEN Truncated(c)
  ELSE IF stage[c] = "exited" THEN File("complete", c, 2)
  ELSE File("plain", c, 1)

Undisturbed(c) ==
  /\ stage[c] \in Writing /\ alone[c] => latest[DirOf(c)] = c
  /\ Owns(c) =>
       /\ OtherWriters(c) = {}
       /\ manifests[DirOf(c)] = WrittenManifest(c)
       /\ Requests[request[c]].debug /\ stage[c] \in {"reopen", "refill", "exited"} =>
            traces[DirOf(c)] = File("run_complete", c, 1)

OwnersInv == CommandInv /\ \A c \in Command : Undisturbed(c)

-----------------------------------------------------------------------------
(* Specs and directories *)

\* A loaded spec is whole and names a directory.
LEMMA LoadedSpecs ==
  ASSUME NEW c \in Command, Loaded(c)
  PROVE  /\ DirOf(c) \in Directory /\ WellFormed(SpecOf(c))
         /\ VersionsOf(SpecOf(c), "universe") # {}
<1>1. Requests[request[c]] \in ToSet(Requests)
  BY DEF Loaded, ToSet
<1>2. WellFormed(SpecOf(c)) /\ SpecOf(c).outputDir \in Directory
  BY <1>1, CommandAssumption DEF Loaded, SpecOf
<1>3. DirOf(c) \in Directory
  BY <1>1, <1>2, CommandAssumption DEF DirOf
<1>4. SpecOf(c).bindings # <<>>
  BY DEF Loaded, Loads, ValidSpec
<1>5. 1 \in DOMAIN SpecOf(c).bindings
  BY <1>2, <1>4 DEF WellFormed
<1> QED
  BY <1>2, <1>3, <1>5 DEF VersionsOf

\* A step that starts no invocation changes none.
LEMMA SameRequests ==
  ASSUME UNCHANGED request, NEW c
  PROVE  SpecOf(c)' = SpecOf(c) /\ DirOf(c)' = DirOf(c) /\ Loaded(c)' = Loaded(c)
BY DEF SpecOf, DirOf, Loaded

\* Files of an invocation are files.
LEMMA FilesAreFiles ==
  ASSUME NEW c \in Command
  PROVE  /\ Truncated(c) \in FileState
         /\ File("run_complete", c, 1) \in FileState
         /\ \A file \in FileState, content \in {"plain", "complete"} :
              /\ Overlaid(file, content, c) \in FileState
              /\ Overlaid(file, content, c).by = c
              /\ Overlaid(file, content, c).content \in {content, Garbled}
         /\ Truncated(c).by = c /\ Truncated(c).content = Garbled
         /\ NoFile \notin FileState
BY CommandAssumption DEF Truncated, File, FileState, Text, Overlaid, Length

-----------------------------------------------------------------------------
(* Every step keeps the invariant *)

\* No invocation has started and there are no files.
LEMMA InitCommand == ASSUME CommandInit PROVE CommandInv
<1>1. CommandShape
  BY DEF CommandInit, CommandShape, CommandStage, ExitCode
<1> QED
  BY <1>1 DEF CommandInit, CommandInv, RequestsAreMade, ExitsHaveCodes, LoadedGoOn,
              WritersHaveRun, ManifestsAreOfRuns, FoundIsOfRun, Writing

\* The invocation has not run and has found nothing; nothing of the others changes.
LEMMA StartCommand ==
  ASSUME CommandInv, NEW c \in Command, NEW r \in DOMAIN Requests, Start(c, r)
  PROVE  CommandInv'
<1> USE DEF CommandInv
<1>1. /\ stage[c] = "new" /\ c \notin ran /\ found[c] = NotFound
      /\ UNCHANGED <<manifests, traces, ran, found, alone, latest>>
  BY DEF Start, files, commandHistory, WritersHaveRun, FoundIsOfRun, Writing
<1>2. ASSUME NEW e \in Command, e # c
      PROVE  /\ request'[e] = request[e] /\ stage'[e] = stage[e] /\ code'[e] = code[e]
             /\ SpecOf(e)' = SpecOf(e) /\ DirOf(e)' = DirOf(e) /\ Loaded(e)' = Loaded(e)
  <2>1. request'[e] = request[e]
    BY <1>2 DEF Start, CommandShape
  <2> QED
    BY <1>2, <2>1 DEF Start, Exit, Go, CommandShape, SpecOf, DirOf, Loaded
<1>3. /\ request'[c] = r
      /\ \/ stage'[c] = "exited" /\ code'[c] = "USER_ERROR"
         \/ /\ stage'[c] \in {"look", "run"} /\ code'[c] = code[c]
            /\ Loads(Requests[r].text)
  BY DEF Start, Exit, Go, CommandShape
<1>4. CommandShape'
  BY <1>1 DEF Start, Exit, Go, CommandShape, CommandStage, ExitCode
<1>5. RequestsAreMade' /\ ExitsHaveCodes'
  BY <1>1, <1>2, <1>3 DEF RequestsAreMade, ExitsHaveCodes
<1>6. LoadedGoOn'
  <2>1. stage'[c] # "exited" => Loaded(c)'
    BY <1>3 DEF Loaded, SpecOf
  <2> QED
    BY <1>1, <1>2, <1>3, <2>1 DEF LoadedGoOn
<1>7. WritersHaveRun'
  BY <1>1, <1>2, <1>3 DEF WritersHaveRun, Writing, CommandShape
<1>8. ManifestsAreOfRuns'
  BY <1>1, <1>2 DEF ManifestsAreOfRuns, CommandShape
<1>9. FoundIsOfRun'
  <2>1. ASSUME NEW e \in Command, found[e] # NotFound
        PROVE  SameHash(found[e], SpecOf(e))' = SameHash(found[e], SpecOf(e))
    <3>1. e # c /\ found[e].by \in ran \ {c}
      BY <1>1, <2>1 DEF FoundIsOfRun
    <3>2. found'[e] = found[e] /\ SpecOf(e)' = SpecOf(e)
      BY <1>1, <1>2, <2>1, <3>1
    <3>3. SpecOf(found[e].by)' = SpecOf(found[e].by)
      <4>1. found[e].by \in Command /\ found[e].by # c
        BY <3>1 DEF CommandShape
      <4> DEFINE b == found[e].by
      <4>2. request'[b] = request[b]
        BY <1>2, <4>1
      <4> QED
        BY <3>2, <4>2 DEF SpecOf
    <3> QED
      BY <3>2, <3>3 DEF SameHash, Manifest
  <2> QED
    BY <1>1, <1>2, <2>1 DEF FoundIsOfRun, CommandShape
<1> QED
  BY <1>4, <1>5, <1>6, <1>7, <1>8, <1>9

\* A step of an invocation that goes on, or exits, and keeps the files.
LEMMA LookCommand ==
  ASSUME CommandInv, NEW c \in Command, LookForManifest(c)
  PROVE  CommandInv'
<1> USE DEF CommandInv
<1> DEFINE file == manifests[DirOf(c)]
<1>1. /\ stage[c] = "look" /\ Loaded(c) /\ DirOf(c) \in Directory /\ c \notin ran
      /\ found[c] = NotFound
      /\ UNCHANGED <<request, manifests, traces, ran, alone, latest>>
  BY LoadedSpecs DEF LookForManifest, files, LoadedGoOn, WritersHaveRun, FoundIsOfRun, Writing
<1>2. \A e \in Command :
        SpecOf(e)' = SpecOf(e) /\ DirOf(e)' = DirOf(e) /\ Loaded(e)' = Loaded(e)
  BY <1>1, SameRequests
<1>3. ASSUME NEW e \in Command, e # c
      PROVE  stage'[e] = stage[e] /\ code'[e] = code[e] /\ found'[e] = found[e]
  BY <1>3 DEF LookForManifest, Exit, Go, CommandShape
<1>4. \/ /\ stage'[c] = "run" /\ code'[c] = code[c] /\ found' = found
      \/ /\ stage'[c] = "exited" /\ code'[c] \in {"TRACEBACK", "RUN_FAILED"} /\ found' = found
      \/ /\ stage'[c] = "exited" /\ code'[c] = "OK" /\ found'[c] = file
         /\ IsWhole(file) /\ SameHash(file, SpecOf(c))
  BY DEF LookForManifest, Exit, Go, CommandShape
<1>5. CommandShape'
  BY <1>1 DEF LookForManifest, Exit, Go, CommandShape, CommandStage, ExitCode
<1>6. RequestsAreMade' /\ ExitsHaveCodes' /\ LoadedGoOn'
  BY <1>1, <1>2, <1>3, <1>4 DEF RequestsAreMade, ExitsHaveCodes, LoadedGoOn
<1>7. WritersHaveRun'
  <2>1. IsWhole(file) => file \in FileState
    BY <1>1 DEF IsWhole, CommandShape
  <2>2. code'[c] = "OK" => found'[c] # NotFound
    BY <1>4, <2>1, CommandAssumption, <1>1 DEF ExitsHaveCodes
  <2> QED
    BY <1>1, <1>2, <1>3, <1>4, <2>2 DEF WritersHaveRun, Writing, CommandShape
<1>8. ManifestsAreOfRuns'
  BY <1>1, <1>2 DEF ManifestsAreOfRuns, CommandShape
<1>9. FoundIsOfRun'
  <2>1. ASSUME NEW e \in Command, NEW f
        PROVE  SameHash(f, SpecOf(e))' = SameHash(f, SpecOf(e))
    BY <1>1, <1>2 DEF SameHash, Manifest, SpecOf
  <2>2. IsWhole(file) => /\ file.content \in {"plain", "complete"}
                         /\ file.by \in ran \ {c} /\ DirOf(file.by) = DirOf(c)
    BY <1>1 DEF IsWhole, ManifestsAreOfRuns
  <2> QED
    BY <1>1, <1>2, <1>3, <1>4, <2>1, <2>2 DEF FoundIsOfRun, CommandShape
<1> QED
  BY <1>5, <1>6, <1>7, <1>8, <1>9

\* What holds of the manifest that was found is not changed by a step that keeps
\* the requests.
LEMMA SameFound ==
  ASSUME UNCHANGED request, UNCHANGED found, FoundIsOfRun, ran \subseteq ran',
         \A e \in Command : found[e] # NotFound => stage'[e] = stage[e]
  PROVE  FoundIsOfRun'
<1>1. ASSUME NEW e, NEW f
      PROVE  SameHash(f, SpecOf(e))' = SameHash(f, SpecOf(e)) /\ DirOf(e)' = DirOf(e)
  BY SameRequests DEF SameHash, Manifest, SpecOf, DirOf
<1> QED
  BY <1>1 DEF FoundIsOfRun

\* It returns, having seen an as_of_version, or fails.
LEMMA RunCommandStep ==
  ASSUME CommandInv, NEW c \in Command, RunOrchestrator(c)
  PROVE  CommandInv'
<1> USE DEF CommandInv
<1>1. /\ stage[c] = "run" /\ Loaded(c) /\ c \notin ran /\ found[c] = NotFound
      /\ UNCHANGED <<request, manifests, traces, found, alone, latest>>
  BY DEF RunOrchestrator, files, LoadedGoOn, WritersHaveRun, FoundIsOfRun, Writing
<1>2. \A e \in Command :
        SpecOf(e)' = SpecOf(e) /\ DirOf(e)' = DirOf(e) /\ Loaded(e)' = Loaded(e)
  BY <1>1, SameRequests
<1>3. \A e \in Command \ {c} : stage'[e] = stage[e] /\ code'[e] = code[e]
  BY DEF RunOrchestrator, Exit, Go, CommandShape
<1>4. \/ /\ stage'[c] = "open" /\ code'[c] = code[c] /\ ran' = ran \cup {c}
         /\ SpecOf(c).asOf # Empty
      \/ stage'[c] = "exited" /\ code'[c] = "RUN_FAILED" /\ ran' = ran
  <2>1. VersionsOf(SpecOf(c), "universe") \subseteq SeededUniverses(SpecOf(c)) =>
          SpecOf(c).asOf # Empty
    BY <1>1, LoadedSpecs DEF SeededUniverses
  <2> QED
    BY <2>1 DEF RunOrchestrator, Exit, Go, CommandShape
<1>5. CommandShape'
  BY <1>1 DEF RunOrchestrator, Exit, Go, CommandShape, CommandStage, ExitCode
<1>6. RequestsAreMade' /\ ExitsHaveCodes' /\ LoadedGoOn'
  BY <1>1, <1>2, <1>3, <1>4 DEF RequestsAreMade, ExitsHaveCodes, LoadedGoOn
<1>7. WritersHaveRun'
  BY <1>1, <1>2, <1>3, <1>4 DEF WritersHaveRun, Writing, CommandShape
<1>8. ManifestsAreOfRuns'
  <2>1. ran \subseteq ran'
    BY <1>4
  <2> QED
    BY <1>1, <1>2, <2>1 DEF ManifestsAreOfRuns, CommandShape
<1>9. FoundIsOfRun'
  BY <1>1, <1>3, <1>4, SameFound
<1> QED
  BY <1>5, <1>6, <1>7, <1>8, <1>9

\* An invocation that has run writes what is its own into its own directory.
LEMMA WriteCommand ==
  ASSUME CommandInv, NEW c \in Command, stage[c] \in Writing \cup {"open"},
         UNCHANGED <<request, ran, found>>,
         \/ \E next \in Writing : Go(c, next)
         \/ Exit(c, "OK"),
         NEW file \in FileState, file.by = c, file.content \in {"plain", "complete", Garbled},
         manifests' \in {manifests, [manifests EXCEPT ![DirOf(c)] = file]},
         manifests'[DirOf(c)] # NoFile,
         traces' \in [Directory -> FileState \cup {NoFile}],
         alone' \in [Command -> BOOLEAN], DOMAIN latest' = Directory
  PROVE  CommandInv'
<1> USE DEF CommandInv
<1>1. c \in ran /\ Loaded(c) /\ found[c] = NotFound /\ DirOf(c) \in Directory
  BY LoadedSpecs DEF WritersHaveRun, LoadedGoOn, FoundIsOfRun, Writing
<1>2. \A e \in Command :
        SpecOf(e)' = SpecOf(e) /\ DirOf(e)' = DirOf(e) /\ Loaded(e)' = Loaded(e)
  BY <1>1, SameRequests
<1>3. \A e \in Command \ {c} : stage'[e] = stage[e] /\ code'[e] = code[e]
  BY DEF Exit, Go, CommandShape
<1>4. \/ stage'[c] \in Writing /\ code'[c] = code[c]
      \/ stage'[c] = "exited" /\ code'[c] = "OK"
  BY DEF Exit, Go, CommandShape
<1>5. CommandShape'
  <2>1. stage' \in [Command -> CommandStage] /\ code' \in [Command -> ExitCode]
    BY DEF Exit, Go, CommandShape, CommandStage, ExitCode
  <2>2. manifests' \in [Directory -> FileState \cup {NoFile}]
    BY <1>1 DEF CommandShape
  <2> QED
    BY <2>1, <2>2 DEF CommandShape
<1>6. RequestsAreMade' /\ ExitsHaveCodes' /\ LoadedGoOn'
  <2>1. RequestsAreMade'
    BY <1>1, <1>3, <1>4 DEF RequestsAreMade, Loaded, Writing
  <2>2. ExitsHaveCodes'
    BY <1>3, <1>4 DEF ExitsHaveCodes, Writing
  <2>3. LoadedGoOn'
    BY <1>1, <1>2, <1>3 DEF LoadedGoOn
  <2> QED
    BY <2>1, <2>2, <2>3
<1>7. WritersHaveRun'
  <2>1. ASSUME NEW e \in Command, stage'[e] \in Writing
        PROVE  manifests'[DirOf(e)'] # NoFile
    <3>1. CASE e = c
      BY <1>2, <3>1
    <3>2. CASE e # c
      <4>1. stage[e] \in Writing /\ Loaded(e)
        BY <1>3, <2>1, <3>2 DEF WritersHaveRun, LoadedGoOn
      <4>2. manifests[DirOf(e)] # NoFile /\ DirOf(e) \in Directory
        BY <4>1, LoadedSpecs DEF WritersHaveRun
      <4>3. manifests'[DirOf(e)] # NoFile
        BY <4>2, FilesAreFiles DEF CommandShape
      <4> QED
        BY <1>2, <4>3
    <3> QED
      BY <3>1, <3>2
  <2>2. \A e \in Command : stage'[e] \in Writing \cup {"open"} => e \in ran'
    BY <1>1, <1>3, <1>4 DEF WritersHaveRun, Writing
  <2>3. \A e \in Command : code'[e] = "OK" /\ found'[e] = NotFound => e \in ran'
    BY <1>1, <1>3 DEF WritersHaveRun
  <2>4. \A e \in ran' : /\ stage'[e] \in Writing \cup {"open", "exited"}
                        /\ SpecOf(e)'.asOf # Empty
    BY <1>1, <1>2, <1>3, <1>4 DEF WritersHaveRun, CommandShape
  <2> QED
    BY <2>1, <2>2, <2>3, <2>4 DEF WritersHaveRun
<1>8. ManifestsAreOfRuns'
  <2>1. \A d \in Directory :
          \/ manifests'[d] = manifests[d]
          \/ d = DirOf(c) /\ manifests'[d] = file
    BY DEF CommandShape
  <2> QED
    BY <1>1, <1>2, <2>1 DEF ManifestsAreOfRuns, CommandShape
<1>9. FoundIsOfRun'
  BY <1>1, <1>3, SameFound
<1> QED
  BY <1>5, <1>6, <1>7, <1>8, <1>9

\* The steps of the writing invocation, and its end.
LEMMA WritingCommand ==
  ASSUME CommandInv, NEW c \in Command,
         \/ OpenManifest(c) \/ FillManifest(c) \/ OpenTrace(c) \/ FillTrace(c)
         \/ ReopenManifest(c) \/ RefillManifest(c)
  PROVE  CommandInv'
<1> USE DEF CommandInv
<1>1. stage[c] \in Writing \cup {"open"}
  BY DEF OpenManifest, FillManifest, OpenTrace, FillTrace, ReopenManifest, RefillManifest, Writing
<1>2. UNCHANGED <<request, ran, found>>
  BY DEF OpenManifest, FillManifest, OpenTrace, FillTrace, ReopenManifest, RefillManifest,
         commandHistory
<1>3. \/ \E next \in Writing : Go(c, next)
      \/ Exit(c, "OK")
  BY DEF OpenManifest, FillManifest, OpenTrace, FillTrace, ReopenManifest, RefillManifest,
         Writing, AfterManifest
<1>4. c \in ran /\ Loaded(c) /\ DirOf(c) \in Directory
  BY <1>1, LoadedSpecs DEF WritersHaveRun, LoadedGoOn, Writing
<1>5. alone' \in [Command -> BOOLEAN] /\ DOMAIN latest' = Directory
  BY DEF OpenManifest, FillManifest, OpenTrace, FillTrace, ReopenManifest, RefillManifest,
         commandHistory, CommandShape
<1>6. traces' \in [Directory -> FileState \cup {NoFile}]
  BY <1>4, FilesAreFiles
  DEF OpenManifest, FillManifest, OpenTrace, FillTrace, ReopenManifest, RefillManifest,
      commandHistory, CommandShape
<1>7. stage[c] # "open" => manifests[DirOf(c)] \in FileState
  BY <1>1, <1>4 DEF CommandShape, WritersHaveRun
<1>8. PICK file \in FileState :
        /\ file.by = c /\ file.content \in {"plain", "complete", Garbled}
        /\ \/ manifests' = [manifests EXCEPT ![DirOf(c)] = file]
           \/ manifests' = manifests /\ stage[c] # "open"
  <2>1. CASE OpenManifest(c) \/ OpenTrace(c) \/ FillTrace(c) \/ ReopenManifest(c)
    BY <2>1, FilesAreFiles DEF OpenManifest, OpenTrace, FillTrace, ReopenManifest
  <2>2. CASE FillManifest(c)
    <3> DEFINE file == Overlaid(manifests[DirOf(c)], "plain", c)
    <3>1. file \in FileState /\ file.by = c /\ file.content \in {"plain", Garbled}
      BY <1>7, <2>2, FilesAreFiles DEF FillManifest
    <3> QED
      BY <2>2, <3>1 DEF FillManifest
  <2>3. CASE RefillManifest(c)
    <3> DEFINE file == Overlaid(manifests[DirOf(c)], "complete", c)
    <3>1. file \in FileState /\ file.by = c /\ file.content \in {"complete", Garbled}
      BY <1>7, <2>3, FilesAreFiles DEF RefillManifest
    <3> QED
      BY <2>3, <3>1 DEF RefillManifest
  <2> QED
    BY <2>1, <2>2, <2>3
<1>9. manifests'[DirOf(c)] # NoFile
  BY <1>4, <1>7, <1>8, FilesAreFiles DEF CommandShape
<1> QED
  BY <1>1, <1>2, <1>3, <1>5, <1>6, <1>8, <1>9, WriteCommand

\* A killed invocation leaves the files as they are.
LEMMA KillCommand ==
  ASSUME CommandInv, NEW c \in Command, Kill(c)
  PROVE  CommandInv'
<1> USE DEF CommandInv
<1>1. /\ stage[c] \notin {"new", "exited"} /\ found[c] = NotFound
      /\ UNCHANGED <<request, manifests, traces, ran, found, alone, latest>>
  BY DEF Kill, files, commandHistory, FoundIsOfRun
<1>2. \A e \in Command :
        SpecOf(e)' = SpecOf(e) /\ DirOf(e)' = DirOf(e) /\ Loaded(e)' = Loaded(e)
  BY <1>1, SameRequests
<1>3. \A e \in Command \ {c} : stage'[e] = stage[e] /\ code'[e] = code[e]
  BY DEF Kill, Exit, CommandShape
<1>4. stage'[c] = "exited" /\ code'[c] = "KILLED"
  BY DEF Kill, Exit, CommandShape
<1>5. CommandShape'
  BY <1>1 DEF Kill, Exit, CommandShape, CommandStage, ExitCode
<1>6. RequestsAreMade' /\ ExitsHaveCodes' /\ LoadedGoOn'
  BY <1>1, <1>2, <1>3, <1>4 DEF RequestsAreMade, ExitsHaveCodes, LoadedGoOn
<1>7. WritersHaveRun'
  BY <1>1, <1>2, <1>3, <1>4 DEF WritersHaveRun, Writing, CommandShape
<1>8. ManifestsAreOfRuns'
  BY <1>1, <1>2 DEF ManifestsAreOfRuns, CommandShape
<1>9. FoundIsOfRun'
  BY <1>1, <1>3, SameFound
<1> QED
  BY <1>5, <1>6, <1>7, <1>8, <1>9

\* Nothing changes.
LEMMA StutterCommand == ASSUME CommandInv, UNCHANGED commandVars PROVE CommandInv'
<1> USE DEF commandVars, files, CommandInv
<1>1. CommandShape' /\ RequestsAreMade' /\ ExitsHaveCodes'
  BY DEF CommandShape, RequestsAreMade, ExitsHaveCodes
<1>2. LoadedGoOn'
  BY DEF LoadedGoOn, Loaded, SpecOf
<1>3. WritersHaveRun'
  BY DEF WritersHaveRun, DirOf, SpecOf
<1>4. ManifestsAreOfRuns'
  BY DEF ManifestsAreOfRuns, DirOf, SpecOf
<1>5. FoundIsOfRun'
  BY DEF FoundIsOfRun, DirOf, SpecOf, SameHash, Manifest
<1> QED
  BY <1>1, <1>2, <1>3, <1>4, <1>5

\* The inductive invariant: what an invocation has written and found is owed to runs
\* that have returned.
THEOREM CommandInvariant == CommandSpec => []CommandInv
<1>1. CommandInit => CommandInv
  BY InitCommand
<1>2. CommandInv /\ [CommandNext]_commandVars => CommandInv'
  BY StartCommand, LookCommand, RunCommandStep, WritingCommand, KillCommand, StutterCommand
  DEF CommandNext
<1> QED
  BY <1>1, <1>2, PTL DEF CommandSpec

\* The invariant, as the theorem that the type invariant of the runs holds.
THEOREM CommandTypeCorrect == CommandSpec => []CommandTypeOK
<1>1. CommandInv => CommandTypeOK
  <2> SUFFICES ASSUME CommandInv PROVE CommandTypeOK
    OBVIOUS
  <2>1. \A d \in Directory : manifests[d] # NoFile => manifests[d].by \in Command
    BY DEF CommandInv, CommandShape, ManifestsAreOfRuns
  <2> QED
    BY <2>1 DEF CommandTypeOK, CommandInv, CommandShape, CommandStage, RequestsAreMade,
                ExitsHaveCodes
<1> QED
  BY <1>1, CommandInvariant, PTL

\* run_backtest --resume (cli/run_backtest.py): whatever invocations ran, were
\* killed or wrote over one another in a directory, the manifest for which it
\* says OK is of a finished run with the same hash, and comparing it with what
\* this run would have written shows no difference but the run_id.
THEOREM ResumeJustified == CommandSpec => []ResumeIsJustified
<1>1. CommandInv => ResumeIsJustified
  <2> SUFFICES ASSUME CommandInv, NEW c \in Command, found[c] # NotFound
               PROVE  LET other == found[c].by
                          manifest == Manifest(found[c].content, other)
                          own == BuiltManifest(SpecOf(c)) IN
                      /\ other \in ran \ {c} /\ DirOf(other) = DirOf(c)
                      /\ Comparable(manifest, own)
                      /\ Differences(manifest, own) \subseteq {"runId"}
    BY DEF ResumeIsJustified
  <2> DEFINE other == found[c].by
             manifest == Manifest(found[c].content, other)
  <2>1. /\ found[c].content \in {"plain", "complete"}
        /\ other \in ran \ {c} /\ other \in Command /\ DirOf(other) = DirOf(c)
        /\ manifest.hash = ResolvedHash(SpecOf(c))
    BY DEF CommandInv, CommandShape, FoundIsOfRun, SameHash
  <2>2. WellFormed(SpecOf(c)) /\ WellFormed(SpecOf(other))
    BY <2>1, LoadedSpecs DEF CommandInv, LoadedGoOn
  <2>3. manifest \in {BuiltManifest(SpecOf(other)), WithArtifacts(BuiltManifest(SpecOf(other)))}
    BY <2>1 DEF Manifest
  <2>4. manifest.hash = ResolvedHash(SpecOf(other))
    <3>1. DOMAIN BuiltManifest(SpecOf(other)) = ManifestField
          /\ BuiltManifest(SpecOf(other)).hash = ResolvedHash(SpecOf(other))
      BY BuiltManifestFields
    <3> QED
      BY <2>3, <3>1 DEF WithArtifacts, ManifestField
  <2>5. /\ Comparable(manifest, BuiltManifest(SpecOf(c)))
        /\ Differences(manifest, BuiltManifest(SpecOf(c))) \subseteq {"runId"}
    <3> HIDE DEF manifest
    <3> QED
      BY <2>1, <2>2, <2>3, <2>4, FoundManifestIsComparable
  <2> QED
    BY <2>1, <2>5
<1> QED
  BY <1>1, CommandInvariant, PTL

-----------------------------------------------------------------------------
(* An invocation that nobody disturbs *)

StepOf(c) ==
  \/ \E r \in DOMAIN Requests : Start(c, r)
  \/ LookForManifest(c) \/ RunOrchestrator(c)
  \/ OpenManifest(c) \/ FillManifest(c) \/ OpenTrace(c) \/ FillTrace(c)
  \/ ReopenManifest(c) \/ RefillManifest(c)
  \/ Kill(c)

\* Who has not run has written nothing.
LEMMA OnlyRunsOwn ==
  ASSUME CommandInv, NEW c \in Command, c \notin ran
  PROVE  Undisturbed(c)
BY DEF CommandInv, WritersHaveRun, Undisturbed, Owns

\* A step changes nothing of the other invocations, and of the files only those
\* of a writer's directory.
LEMMA StepsAreApart ==
  ASSUME CommandInv, NEW e \in Command, StepOf(e)
  PROVE  /\ \A c \in Command \ {e} :
              /\ stage'[c] = stage[c] /\ code'[c] = code[c] /\ request'[c] = request[c]
              /\ SpecOf(c)' = SpecOf(c) /\ DirOf(c)' = DirOf(c)
              /\ c \in ran' => c \in ran
              /\ found'[c] = found[c]
         /\ \/ OpenManifest(e)
            \/ /\ UNCHANGED <<alone, latest>>
               /\ stage'[e] \in Writing => stage[e] \in Writing /\ DirOf(e)' = DirOf(e)
               /\ stage[e] \in Writing \/ UNCHANGED files
         /\ \A d \in Directory \ {DirOf(e)} : manifests'[d] = manifests[d] /\ traces'[d] = traces[d]
<1> USE DEF CommandInv
<1>1. CASE \E r \in DOMAIN Requests : Start(e, r)
  <2>1. \A c \in Command \ {e} :
          stage'[c] = stage[c] /\ code'[c] = code[c] /\ request'[c] = request[c]
    BY <1>1 DEF Start, Exit, Go, CommandShape
  <2>2. UNCHANGED <<files, ran, found, alone, latest>>
    BY <1>1 DEF Start, commandHistory
  <2>3. stage'[e] \in {"exited", "look", "run"}
    BY <1>1 DEF Start, Exit, Go, CommandShape
  <2> QED
    BY <2>1, <2>2, <2>3 DEF files, SpecOf, DirOf, Writing
<1>2. CASE LookForManifest(e) \/ RunOrchestrator(e) \/ Kill(e)
  <2>1. \A c \in Command \ {e} :
          /\ stage'[c] = stage[c] /\ code'[c] = code[c] /\ found'[c] = found[c]
          /\ c \in ran' => c \in ran
    BY <1>2 DEF LookForManifest, RunOrchestrator, Kill, Exit, Go, CommandShape, commandHistory
  <2>2. UNCHANGED <<request, files, alone, latest>> /\ stage'[e] \notin Writing
    BY <1>2 DEF LookForManifest, RunOrchestrator, Kill, Exit, Go, CommandShape, commandHistory,
                Writing
  <2> QED
    BY <2>1, <2>2 DEF files, SpecOf, DirOf
<1>3. CASE OpenManifest(e)
  <2>1. \A c \in Command \ {e} : stage'[c] = stage[c] /\ code'[c] = code[c]
    BY <1>3 DEF OpenManifest, Go, CommandShape
  <2>2. UNCHANGED <<request, ran, found>>
    BY <1>3 DEF OpenManifest
  <2>3. \A d \in Directory \ {DirOf(e)} : manifests'[d] = manifests[d] /\ traces'[d] = traces[d]
    BY <1>3 DEF OpenManifest, CommandShape
  <2> QED
    BY <1>3, <2>1, <2>2, <2>3 DEF SpecOf, DirOf
<1>4. CASE FillManifest(e) \/ OpenTrace(e) \/ FillTrace(e) \/ ReopenManifest(e) \/ RefillManifest(e)
  <2>1. \A c \in Command \ {e} : stage'[c] = stage[c] /\ code'[c] = code[c]
    BY <1>4 DEF FillManifest, OpenTrace, FillTrace, ReopenManifest, RefillManifest, Exit, Go,
                CommandShape
  <2>2. UNCHANGED <<request, ran, found, alone, latest>> /\ stage[e] \in Writing
    BY <1>4 DEF FillManifest, OpenTrace, FillTrace, ReopenManifest, RefillManifest,
                commandHistory, Writing
  <2>3. \A d \in Directory \ {DirOf(e)} : manifests'[d] = manifests[d] /\ traces'[d] = traces[d]
    BY <1>4 DEF FillManifest, OpenTrace, FillTrace, ReopenManifest, RefillManifest, CommandShape
  <2> QED
    BY <2>1, <2>2, <2>3 DEF SpecOf, DirOf
<1> QED
  BY <1>1, <1>2, <1>3, <1>4 DEF StepOf

\* Another invocation that starts to write there ends what c owns; one that is
\* writing there would be a disturbance already.
LEMMA OthersDoNotDisturb ==
  ASSUME OwnersInv, CommandInv', NEW e \in Command, StepOf(e), NEW c \in Command, c # e
  PROVE  Undisturbed(c)'
<1> USE DEF OwnersInv
<1>1. CASE c \notin ran
  BY <1>1, OnlyRunsOwn, StepsAreApart DEF CommandInv, WritersHaveRun, Undisturbed, Owns
<1>2. CASE c \in ran
  <2>1. /\ stage'[c] = stage[c] /\ code'[c] = code[c] /\ request'[c] = request[c]
        /\ found'[c] = found[c] /\ DirOf(c)' = DirOf(c)
        /\ WrittenManifest(c)' = WrittenManifest(c)
    BY StepsAreApart DEF WrittenManifest, Truncated, File
  <2>2. DirOf(c) \in Directory
    BY <1>2, LoadedSpecs DEF CommandInv, LoadedGoOn
  <2>3. CASE OpenManifest(e)
    <3>1. Loaded(e) /\ DirOf(e) \in Directory
      BY <2>3, LoadedSpecs DEF OpenManifest, CommandInv, LoadedGoOn
    <3>2. CASE DirOf(e) = DirOf(c)
      <4>1. latest'[DirOf(c)] # c
        BY <2>2, <2>3, <3>2 DEF OpenManifest, CommandInv, CommandShape
      <4>2. stage[c] \in Writing => ~alone'[c]
        BY <2>3, <3>2 DEF OpenManifest, OtherWriters
      <4> QED
        BY <2>1, <4>1, <4>2 DEF Undisturbed, Owns
    <3>3. CASE DirOf(e) # DirOf(c)
      <4>1. alone'[c] = alone[c] /\ latest'[DirOf(c)] = latest[DirOf(c)]
        <5>1. c \notin OtherWriters(e) \cup {e}
          BY <3>3 DEF OtherWriters
        <5>2. alone'[c] = (alone[c] /\ (c \in OtherWriters(e) \cup {e} => OtherWriters(e) = {}))
          BY <2>3 DEF OpenManifest
        <5>3. alone[c] \in BOOLEAN
          BY DEF CommandInv, CommandShape
        <5>4. latest'[DirOf(c)] = latest[DirOf(c)]
          BY <2>2, <2>3, <3>3 DEF OpenManifest, CommandInv, CommandShape
        <5> QED
          BY <5>1, <5>2, <5>3, <5>4
      <4>2. manifests'[DirOf(c)] = manifests[DirOf(c)] /\ traces'[DirOf(c)] = traces[DirOf(c)]
        BY <2>2, <3>3, StepsAreApart
      <4>3. OtherWriters(c)' \subseteq OtherWriters(c)
        <5>1. request' = request
          BY <2>3 DEF OpenManifest
        <5>2. \A b \in Command : DirOf(b)' = DirOf(b)
          BY <5>1, SameRequests
        <5> QED
          BY <2>1, <3>3, <5>2, StepsAreApart DEF OtherWriters
      <4> QED
        BY <2>1, <4>1, <4>2, <4>3 DEF Undisturbed, Owns, File
    <3> QED
      BY <3>2, <3>3
  <2>4. CASE ~OpenManifest(e)
    <3>1. /\ UNCHANGED <<alone, latest>>
          /\ stage'[e] \in Writing => stage[e] \in Writing /\ DirOf(e)' = DirOf(e)
          /\ stage[e] \in Writing \/ UNCHANGED files
      BY <2>4, StepsAreApart
    <3>2. Owns(c)' => Owns(c)
      BY <2>1, <3>1 DEF Owns
    <3>3. OtherWriters(c)' \subseteq OtherWriters(c)
      BY <2>1, <3>1, StepsAreApart DEF OtherWriters
    <3>4. Owns(c) => manifests'[DirOf(c)] = manifests[DirOf(c)]
                     /\ traces'[DirOf(c)] = traces[DirOf(c)]
      <4>1. Owns(c) /\ stage[e] \in Writing => DirOf(e) # DirOf(c)
        BY DEF Undisturbed, OtherWriters
      <4> QED
        BY <2>2, <3>1, <4>1, StepsAreApart DEF files
    <3> QED
      BY <2>1, <3>1, <3>2, <3>3, <3>4 DEF Undisturbed, File
  <2> QED
    BY <2>3, <2>4
<1> QED
  BY <1>1, <1>2

\* What an invocation itself does when nobody else is writing there.
LEMMA OwnStepsAreWritten ==
  ASSUME OwnersInv, CommandInv', NEW c \in Command, StepOf(c)
  PROVE  Undisturbed(c)'
<1> USE DEF OwnersInv
<1>1. CASE \/ \E r \in DOMAIN Requests : Start(c, r)
           \/ LookForManifest(c)
  <2>1. c \notin ran'
    BY <1>1 DEF Start, LookForManifest, commandHistory, CommandInv, WritersHaveRun, Writing
  <2> QED
    BY <2>1 DEF CommandInv, WritersHaveRun, Undisturbed, Owns
<1>2. CASE RunOrchestrator(c) \/ Kill(c)
  <2>1. stage'[c] \in {"open", "exited"} /\ code'[c] # "OK"
    BY <1>2 DEF RunOrchestrator, Kill, Exit, Go, CommandInv, CommandShape, ExitsHaveCodes
  <2> QED
    BY <2>1 DEF Undisturbed, Owns, Writing
<1>3. ASSUME stage[c] \in Writing \cup {"open"}, UNCHANGED request,
             \A b \in Command \ {c} : stage'[b] = stage[b]
      PROVE  /\ OtherWriters(c)' = OtherWriters(c) /\ DirOf(c)' = DirOf(c)
             /\ DirOf(c) \in Directory /\ request'[c] = request[c]
  <2>1. \A b \in Command : DirOf(b)' = DirOf(b)
    BY <1>3, SameRequests
  <2>2. DirOf(c) \in Directory
    BY <1>3, LoadedSpecs DEF CommandInv, LoadedGoOn, Writing
  <2> QED
    BY <1>3, <2>1, <2>2 DEF OtherWriters
<1>4. CASE OpenManifest(c)
  <2>1. /\ stage[c] = "open" /\ stage'[c] = "fill" /\ UNCHANGED request
        /\ \A b \in Command \ {c} : stage'[b] = stage[b]
    BY <1>4 DEF OpenManifest, Go, CommandInv, CommandShape
  <2>2. /\ OtherWriters(c)' = OtherWriters(c) /\ DirOf(c)' = DirOf(c)
        /\ DirOf(c) \in Directory
    BY <1>3, <2>1
  <2>3. /\ latest'[DirOf(c)] = c /\ manifests'[DirOf(c)] = Truncated(c)
        /\ alone'[c] => OtherWriters(c) = {}
    BY <1>4, <2>2 DEF OpenManifest, CommandInv, CommandShape
  <2> QED
    BY <2>1, <2>2, <2>3 DEF Undisturbed, Owns, WrittenManifest, Truncated, File
<1>5. CASE \/ FillManifest(c) \/ OpenTrace(c) \/ FillTrace(c)
           \/ ReopenManifest(c) \/ RefillManifest(c)
  <2>1. /\ stage[c] \in Writing /\ UNCHANGED <<request, found, alone, latest>>
        /\ \A b \in Command \ {c} : stage'[b] = stage[b]
        /\ code[c] = "none"
    BY <1>5 DEF FillManifest, OpenTrace, FillTrace, ReopenManifest, RefillManifest, Writing,
                commandHistory, Exit, Go, CommandInv, CommandShape, ExitsHaveCodes
  <2>2. /\ OtherWriters(c)' = OtherWriters(c) /\ DirOf(c)' = DirOf(c)
        /\ DirOf(c) \in Directory /\ request'[c] = request[c]
    BY <1>3, <2>1
  <2>3. SUFFICES ASSUME Owns(c)'
                 PROVE  /\ manifests'[DirOf(c)] = WrittenManifest(c)'
                        /\ Requests[request[c]].debug /\ stage'[c] \in {"reopen", "refill", "exited"}
                             => traces'[DirOf(c)] = File("run_complete", c, 1)
    <3>1. stage[c] \in Writing /\ alone[c] => latest[DirOf(c)] = c /\ OtherWriters(c) = {}
      BY <2>1 DEF Undisturbed, Owns
    <3> QED
      BY <2>1, <2>2, <3>1 DEF Undisturbed, Owns, File
  <2>4. /\ manifests[DirOf(c)] = WrittenManifest(c)
        /\ Requests[request[c]].debug /\ stage[c] \in {"reopen", "refill"} =>
             traces[DirOf(c)] = File("run_complete", c, 1)
    BY <2>1, <2>2, <2>3 DEF Undisturbed, Owns
  <2>5. CASE FillManifest(c)
    <3>1. stage[c] = "fill" /\ stage'[c] = AfterManifest(c)
      BY <2>5 DEF FillManifest, Go, CommandInv, CommandShape
    <3>2. manifests'[DirOf(c)] = Overlaid(Truncated(c), "plain", c)
      BY <2>2, <2>4, <2>5, <3>1 DEF FillManifest, CommandInv, CommandShape, WrittenManifest
    <3>3. manifests'[DirOf(c)] = File("plain", c, 1)
      BY <3>2 DEF Overlaid, Truncated, File, Length
    <3> QED
      BY <3>1, <3>3 DEF AfterManifest, WrittenManifest, File
  <2>6. CASE OpenTrace(c)
    BY <2>2, <2>4, <2>6
    DEF OpenTrace, Go, CommandInv, CommandShape, WrittenManifest, File
  <2>7. CASE FillTrace(c)
    <3>1. stage[c] = "fill trace" /\ stage'[c] = "reopen" /\ manifests' = manifests
      BY <2>7 DEF FillTrace, Go, CommandInv, CommandShape
    <3>2. traces'[DirOf(c)] = File("run_complete", c, 1)
      BY <2>2, <2>7 DEF FillTrace, CommandInv, CommandShape
    <3> QED
      BY <2>4, <3>1, <3>2 DEF WrittenManifest, File
  <2>8. CASE ReopenManifest(c)
    <3>1. stage[c] = "reopen" /\ stage'[c] = "refill" /\ traces' = traces
      BY <2>8 DEF ReopenManifest, Go, CommandInv, CommandShape
    <3>2. manifests'[DirOf(c)] = Truncated(c)
      BY <2>2, <2>8 DEF ReopenManifest, CommandInv, CommandShape
    <3> QED
      BY <2>4, <3>1, <3>2 DEF WrittenManifest, Truncated, File
  <2>9. CASE RefillManifest(c)
    <3>1. stage[c] = "refill" /\ stage'[c] = "exited" /\ traces' = traces
      BY <2>9 DEF RefillManifest, Exit, CommandInv, CommandShape
    <3>2. manifests'[DirOf(c)] = Overlaid(Truncated(c), "complete", c)
      BY <2>2, <2>4, <2>9, <3>1 DEF RefillManifest, CommandInv, CommandShape, WrittenManifest
    <3>3. manifests'[DirOf(c)] = File("complete", c, 2)
      BY <3>2 DEF Overlaid, Truncated, File, Length
    <3> QED
      BY <2>4, <3>1, <3>3 DEF WrittenManifest, File
  <2> QED
    BY <1>5, <2>5, <2>6, <2>7, <2>8, <2>9
<1> QED
  BY <1>1, <1>2, <1>4, <1>5 DEF StepOf

\* The strengthened invariant of the runs nobody disturbs.
THEOREM OwnersAreUndisturbed == CommandSpec => []OwnersInv
<1>1. CommandInit => OwnersInv
  <2> SUFFICES ASSUME CommandInit PROVE OwnersInv
    OBVIOUS
  <2>1. CommandInv /\ ran = {}
    BY InitCommand DEF CommandInit
  <2> QED
    BY <2>1, OnlyRunsOwn DEF OwnersInv
<1>2. OwnersInv /\ CommandInv' /\ [CommandNext]_commandVars => OwnersInv'
  <2> SUFFICES ASSUME OwnersInv, CommandInv', [CommandNext]_commandVars
               PROVE  OwnersInv'
    OBVIOUS
  <2>1. CASE CommandNext
    <3>1. PICK e \in Command : StepOf(e)
      BY <2>1 DEF CommandNext, StepOf
    <3> QED
      BY <3>1, OthersDoNotDisturb, OwnStepsAreWritten DEF OwnersInv
  <2>2. CASE UNCHANGED commandVars
    BY <2>2 DEF commandVars, files, OwnersInv, Undisturbed, Owns, OtherWriters, WrittenManifest,
                SpecOf, DirOf, File, Truncated
  <2> QED
    BY <2>1, <2>2
<1> QED
  BY <1>1, <1>2, CommandInvariant, PTL DEF CommandSpec

\* _write_manifest, _write_debug_trace and the second write of the manifest
\* (cli/run_backtest.py): a run that ended with nobody else writing to its
\* directory, during it or since, left its whole manifest and trace, whatever
\* killed runs had left there before.
THEOREM LoneRunKeepsItsManifest == CommandSpec => []LoneRunLeavesItsManifest
<1>1. OwnersInv => LoneRunLeavesItsManifest
  <2> SUFFICES ASSUME OwnersInv, NEW c \in Command, code[c] = "OK", found[c] = NotFound,
                      alone[c], latest[DirOf(c)] = c
               PROVE  LET file == manifests[DirOf(c)] IN
                      /\ file.content = "complete" /\ file.by = c
                      /\ Requests[request[c]].debug =>
                           traces[DirOf(c)] = File("run_complete", c, 1)
                      /\ SpecOf(c).source # Empty => Validated(Manifest("complete", c))
    BY DEF LoneRunLeavesItsManifest
  <2>1. stage[c] = "exited" /\ c \in ran /\ SpecOf(c).asOf # Empty
    BY DEF OwnersInv, CommandInv, ExitsHaveCodes, WritersHaveRun
  <2>2. /\ manifests[DirOf(c)] = File("complete", c, 2)
        /\ Requests[request[c]].debug => traces[DirOf(c)] = File("run_complete", c, 1)
    BY <2>1 DEF OwnersInv, Undisturbed, Owns, WrittenManifest
  <2>3. SpecOf(c).source # Empty => Validated(Manifest("complete", c))
    <3>1. Manifest("complete", c) = WithArtifacts(BuiltManifest(SpecOf(c)))
      BY DEF Manifest
    <3>2. /\ DOMAIN BuiltManifest(SpecOf(c)) = ManifestField
          /\ BuiltManifest(SpecOf(c)).source = SpecOf(c).source
          /\ BuiltManifest(SpecOf(c)).asOf = SpecOf(c).asOf
      BY BuiltManifestFields
    <3> QED
      BY <2>1, <3>1, <3>2 DEF Validated, WithArtifacts, ManifestField
  <2> QED
    BY <2>2, <2>3 DEF File
<1> QED
  BY <1>1, OwnersAreUndisturbed, PTL

-----------------------------------------------------------------------------
(* The event chain: lemmas *)

\* What is written of some entries is a first part of them.
LEMMA WritableIsPrefix ==
  ASSUME NEW entries \in Seq(Entry)
  PROVE  /\ Writable(entries) \in Seq(Entry)
         /\ \A i \in DOMAIN Writable(entries) : i \in DOMAIN entries
                                              /\ Writable(entries)[i] = entries[i]
<1> DEFINE refused == {i \in DOMAIN entries : ~entries[i].serializable}
<1>1. CASE refused = {}
  BY <1>1 DEF Writable
<1>2. CASE refused # {}
  <2>1. /\ Len(entries) \in Nat /\ DOMAIN entries = 1..Len(entries)
        /\ \A i \in 1..Len(entries) : entries[i] \in Entry
    OBVIOUS
  <2>2. Min(refused) \in refused
    <3>1. IsFiniteSet(1..Len(entries))
      <4>1. 1 \in Int /\ Len(entries) \in Int
        BY <2>1
      <4> QED
        BY <4>1, FS_Interval
    <3>2. refused \in SUBSET Int /\ IsFiniteSet(refused)
      BY <2>1, <3>1, FS_Subset
    <3> HIDE DEF refused
    <3> QED
      BY <1>2, <3>2, ExtremesExist
  <2> DEFINE m == Min(refused) - 1
  <2>3. m \in 0..(Len(entries) - 1)
    BY <2>1, <2>2
  <2>4. Writable(entries) = SubSeq(entries, 1, m)
    BY <1>2 DEF Writable
  <2> HIDE DEF m, refused
  <2>5. m \in Int /\ \A i \in 1..m : i \in 1..Len(entries) /\ entries[i] \in Entry
    BY <2>1, <2>3
  <2>6. /\ SubSeq(entries, 1, m) \in Seq(Entry)
        /\ Len(SubSeq(entries, 1, m)) = m
        /\ \A i \in 1..m : SubSeq(entries, 1, m)[i] = entries[i]
    <3>1. /\ SubSeq(entries, 1, m) \in Seq(Entry)
          /\ Len(SubSeq(entries, 1, m)) = IF 1 <= m THEN m - 1 + 1 ELSE 0
          /\ \A i \in 1..(m - 1 + 1) : SubSeq(entries, 1, m)[i] = entries[1 + i - 1]
      BY <2>5, SubSeqProperties
    <3> QED
      BY <2>3, <2>5, <3>1
  <2> QED
    BY <2>1, <2>4, <2>5, <2>6
<1> QED
  BY <1>1, <1>2

-----------------------------------------------------------------------------
(* The event chain: the inductive invariant *)

\* Events carry the number of their process.
ProcessesAreCounted ==
  /\ \A i \in DOMAIN emitted : emitted[i].process = process
  /\ \A i \in DOMAIN buffer : buffer[i].process = process
  /\ \A i \in DOMAIN lines : lines[i].process <= process

\* Each emitted event is in the file or in the buffer.
NothingIsLost ==
  \A i \in DOMAIN emitted : \/ \E j \in DOMAIN lines : lines[j] = emitted[i]
                            \/ \E j \in DOMAIN buffer : buffer[j] = emitted[i]

\* As long as no flush has raised, the file ends with what was emitted, up to what
\* is in the buffer.
FileIsInOrder ==
  \E before \in Seq(Entry), after \in Seq(Entry) :
    /\ lines = before \o after
    /\ \A i \in DOMAIN before : before[i].process # process
    /\ after \o buffer = emitted

ChainInv ==
  /\ ChainTypeOK /\ ProcessesAreCounted /\ NothingIsLost
  /\ ~raised => FileIsInOrder /\ Len(buffer) < FlushEvery

\* A flush keeps what it is given, in the file or in the buffer, and raises or has
\* written it all.
LEMMA FlushKeeps ==
  ASSUME ChainTypeOK, NEW entries \in Seq(Entry), Flush(entries)
  PROVE  /\ lines' \in Seq(Entry) /\ buffer' \in Seq(Entry) /\ raised' \in BOOLEAN
         /\ \A j \in DOMAIN lines : j \in DOMAIN lines' /\ lines'[j] = lines[j]
         /\ \A j \in DOMAIN lines' : \/ j \in DOMAIN lines
                                     \/ \E i \in DOMAIN entries : lines'[j] = entries[i]
         /\ \A i \in DOMAIN entries : \/ \E j \in DOMAIN lines' : lines'[j] = entries[i]
                                      \/ \E j \in DOMAIN buffer' : buffer'[j] = entries[i]
         /\ buffer' \in {<<>>, entries}
         /\ ~raised' => /\ ~raised /\ buffer' = <<>> /\ lines' = lines \o entries
<1> DEFINE written == Writable(entries)
<1>1. /\ written \in Seq(Entry)
      /\ \A i \in DOMAIN written : i \in DOMAIN entries /\ written[i] = entries[i]
  BY WritableIsPrefix
<1>2. /\ lines' = lines \o written /\ lines \in Seq(Entry)
      /\ buffer' = IF written = entries THEN <<>> ELSE entries
      /\ raised' = (raised \/ written # entries) /\ raised \in BOOLEAN
  BY DEF Flush, Kept, ChainTypeOK
<1> HIDE DEF written
<1>3. /\ lines' \in Seq(Entry)
      /\ Len(lines') = Len(lines) + Len(written)
      /\ \A i \in 1..(Len(lines) + Len(written)) :
           lines'[i] = IF i <= Len(lines) THEN lines[i] ELSE written[i - Len(lines)]
  BY <1>1, <1>2, ConcatProperties
<1>4. /\ DOMAIN lines = 1..Len(lines) /\ DOMAIN lines' = 1..Len(lines')
      /\ DOMAIN written = 1..Len(written) /\ Len(lines) \in Nat /\ Len(written) \in Nat
  BY <1>1, <1>2, <1>3
<1>5. \A j \in DOMAIN lines : j \in DOMAIN lines' /\ lines'[j] = lines[j]
  BY <1>3, <1>4
<1>6. \A j \in DOMAIN lines' : \/ j \in DOMAIN lines
                               \/ \E i \in DOMAIN entries : lines'[j] = entries[i]
  <2> SUFFICES ASSUME NEW j \in DOMAIN lines', j \notin DOMAIN lines
               PROVE  \E i \in DOMAIN entries : lines'[j] = entries[i]
    OBVIOUS
  <2>1. j - Len(lines) \in DOMAIN written /\ lines'[j] = written[j - Len(lines)]
    BY <1>3, <1>4
  <2> QED
    BY <1>1, <2>1
<1>7. ASSUME written = entries, NEW i \in DOMAIN entries
      PROVE  \E j \in DOMAIN lines' : lines'[j] = entries[i]
  <2>1. Len(lines) + i \in DOMAIN lines' /\ lines'[Len(lines) + i] = entries[i]
    BY <1>3, <1>4, <1>7
  <2> QED
    BY <2>1
<1>8. buffer' \in Seq(Entry)
  BY <1>2
<1> QED
  BY <1>2, <1>3, <1>5, <1>6, <1>7, <1>8

\* What the last element of a sequence is.
LEMMA AppendElements ==
  ASSUME NEW S, NEW s \in Seq(S), NEW x \in S
  PROVE  /\ Append(s, x) \in Seq(S)
         /\ \A i \in DOMAIN s : i \in DOMAIN Append(s, x) /\ Append(s, x)[i] = s[i]
         /\ \A i \in DOMAIN Append(s, x) : i \in DOMAIN s \/ Append(s, x)[i] = x
         /\ \E i \in DOMAIN Append(s, x) : Append(s, x)[i] = x
         /\ Len(Append(s, x)) = Len(s) + 1
<1>1. /\ Len(s) \in Nat /\ DOMAIN s = 1..Len(s)
      /\ DOMAIN Append(s, x) = 1..(Len(s) + 1)
      /\ Append(s, x)[Len(s) + 1] = x
      /\ \A i \in 1..Len(s) : Append(s, x)[i] = s[i]
  OBVIOUS
<1> QED
  BY <1>1

-----------------------------------------------------------------------------
(* The event chain: every step preserves the invariant *)

\* A flush of what is in the buffer, and maybe of a new entry.
LEMMA FlushPreserves ==
  ASSUME ChainInv, NEW entries \in Seq(Entry), Flush(entries),
         UNCHANGED process, sequence' \in 0..MaxEmits, emitted' \in Seq(Entry),
         \A i \in DOMAIN emitted' : \/ i \in DOMAIN emitted /\ emitted'[i] = emitted[i]
                                   \/ \E j \in DOMAIN entries : emitted'[i] = entries[j],
         \A j \in DOMAIN buffer : \E i \in DOMAIN entries : entries[i] = buffer[j],
         \A i \in DOMAIN entries : entries[i].process = process,
         \A after \in Seq(Entry) : after \o buffer = emitted => after \o entries = emitted'
  PROVE  ChainInv'
<1>1. /\ lines' \in Seq(Entry) /\ buffer' \in Seq(Entry) /\ raised' \in BOOLEAN
      /\ \A j \in DOMAIN lines : j \in DOMAIN lines' /\ lines'[j] = lines[j]
      /\ \A j \in DOMAIN lines' : \/ j \in DOMAIN lines
                                  \/ \E i \in DOMAIN entries : lines'[j] = entries[i]
      /\ \A i \in DOMAIN entries : \/ \E j \in DOMAIN lines' : lines'[j] = entries[i]
                                   \/ \E j \in DOMAIN buffer' : buffer'[j] = entries[i]
      /\ buffer' \in {<<>>, entries}
      /\ ~raised' => /\ ~raised /\ buffer' = <<>> /\ lines' = lines \o entries
  BY FlushKeeps DEF ChainInv
<1>2. ChainTypeOK'
  BY <1>1 DEF ChainInv, ChainTypeOK
<1>3. ProcessesAreCounted'
  <2>1. \A i \in DOMAIN emitted' : emitted'[i].process = process
    BY DEF ChainInv, ProcessesAreCounted
  <2>2. \A i \in DOMAIN lines' : lines'[i].process <= process
    <3>1. process \in Nat /\ \A j \in DOMAIN lines : lines[j].process <= process
      BY DEF ChainInv, ChainTypeOK, ProcessesAreCounted
    <3> SUFFICES ASSUME NEW j \in DOMAIN lines' PROVE lines'[j].process <= process
      OBVIOUS
    <3>2. CASE j \in DOMAIN lines
      BY <1>1, <3>1, <3>2
    <3>3. CASE \E i \in DOMAIN entries : lines'[j] = entries[i]
      <4>1. lines'[j].process = process
        BY <3>3
      <4> QED
        BY <3>1, <4>1
    <3> QED
      BY <1>1, <3>2, <3>3
  <2>3. \A i \in DOMAIN buffer' : buffer'[i].process = process
    BY <1>1
  <2> QED
    BY <2>1, <2>2, <2>3 DEF ProcessesAreCounted
<1>4. NothingIsLost'
  <2> SUFFICES ASSUME NEW i \in DOMAIN emitted'
               PROVE  \/ \E j \in DOMAIN lines' : lines'[j] = emitted'[i]
                      \/ \E j \in DOMAIN buffer' : buffer'[j] = emitted'[i]
    BY DEF NothingIsLost
  <2>1. CASE \E k \in DOMAIN entries : emitted'[i] = entries[k]
    BY <1>1, <2>1, SMTT(30)
  <2>2. CASE i \in DOMAIN emitted /\ emitted'[i] = emitted[i]
    <3>1. \/ \E j \in DOMAIN lines : lines[j] = emitted[i]
          \/ \E j \in DOMAIN buffer : buffer[j] = emitted[i]
      BY <2>2 DEF ChainInv, NothingIsLost
    <3>2. CASE \E j \in DOMAIN lines : lines[j] = emitted[i]
      BY <1>1, <2>2, <3>2
    <3>3. CASE \E j \in DOMAIN buffer : buffer[j] = emitted[i]
      <4>1. \E k \in DOMAIN entries : emitted'[i] = entries[k]
        BY <2>2, <3>3
      <4> QED
        BY <2>1, <4>1
    <3> QED
      BY <3>1, <3>2, <3>3
  <2> QED
    BY <2>1, <2>2
<1>5. ASSUME ~raised'
      PROVE  FileIsInOrder' /\ Len(buffer)' < FlushEvery
  <2>1. PICK before \in Seq(Entry), after \in Seq(Entry) :
          /\ lines = before \o after
          /\ \A i \in DOMAIN before : before[i].process # process
          /\ after \o buffer = emitted
    BY <1>1, <1>5 DEF ChainInv, FileIsInOrder
  <2>2. after \o entries \in Seq(Entry) /\ lines' = before \o (after \o entries)
    <3>1. lines' = (before \o after) \o entries
      BY <1>1, <1>5, <2>1
    <3>2. (before \o after) \o entries = before \o (after \o entries)
      BY ConcatAssociative, SMTT(30)
    <3> QED
      BY <3>1, <3>2, ConcatProperties
  <2>3. (after \o entries) \o buffer' = emitted'
    BY <1>1, <1>5, <2>1, <2>2, ConcatEmptySeq
  <2>4. FileIsInOrder'
    BY <2>1, <2>2, <2>3 DEF FileIsInOrder
  <2> QED
    BY <1>1, <1>5, <2>4, ChainAssumption
<1> QED
  BY <1>2, <1>3, <1>4, <1>5 DEF ChainInv

\* A new entry goes into the buffer, or with it into the file.
LEMMA EmitPreserves ==
  ASSUME ChainInv, NEW s \in BOOLEAN, Emit(s)
  PROVE  ChainInv'
<1> DEFINE entry == [process |-> process, sequence |-> sequence + 1, serializable |-> s]
           entries == Append(buffer, entry)
<1>1. /\ entry \in Entry /\ entry.process = process /\ sequence' \in 0..MaxEmits
      /\ emitted' = Append(emitted, entry) /\ UNCHANGED process
  BY ChainAssumption DEF Emit, Entry, ChainInv, ChainTypeOK
<1>2. /\ buffer \in Seq(Entry) /\ emitted \in Seq(Entry) /\ lines \in Seq(Entry)
  BY DEF ChainInv, ChainTypeOK
<1>3. IF Len(entries) >= FlushEvery THEN Flush(entries)
      ELSE buffer' = entries /\ UNCHANGED <<lines, raised>>
  BY DEF Emit
<1> HIDE DEF entry
<1>4. /\ entries \in Seq(Entry)
      /\ \A i \in DOMAIN buffer : i \in DOMAIN entries /\ entries[i] = buffer[i]
      /\ \A i \in DOMAIN entries : i \in DOMAIN buffer \/ entries[i] = entry
      /\ \E i \in DOMAIN entries : entries[i] = entry
      /\ Len(entries) = Len(buffer) + 1
  BY <1>1, <1>2, AppendElements
<1>5. /\ emitted' \in Seq(Entry)
      /\ \A i \in DOMAIN emitted : i \in DOMAIN emitted' /\ emitted'[i] = emitted[i]
      /\ \A i \in DOMAIN emitted' : i \in DOMAIN emitted \/ emitted'[i] = entry
  BY <1>1, <1>2, AppendElements
<1>6. \A after \in Seq(Entry) : after \o buffer = emitted => after \o entries = emitted'
  BY <1>1, <1>2, AppendAfterConcat
<1>7. \A i \in DOMAIN entries : entries[i].process = process
  BY <1>1, <1>4 DEF ChainInv, ProcessesAreCounted
<1>8. \A i \in DOMAIN emitted' : \/ i \in DOMAIN emitted /\ emitted'[i] = emitted[i]
                                \/ \E j \in DOMAIN entries : emitted'[i] = entries[j]
  BY <1>4, <1>5
<1> HIDE DEF entries
<1>9. CASE Flush(entries)
  BY <1>1, <1>4, <1>5, <1>6, <1>7, <1>8, <1>9, FlushPreserves
<1>10. CASE ~(Len(entries) >= FlushEvery) /\ buffer' = entries /\ UNCHANGED <<lines, raised>>
  <2>1. ChainTypeOK'
    BY <1>1, <1>4, <1>5, <1>10 DEF ChainInv, ChainTypeOK
  <2>2. ProcessesAreCounted'
    BY <1>1, <1>5, <1>7, <1>10 DEF ChainInv, ProcessesAreCounted
  <2>3. NothingIsLost'
    BY <1>4, <1>5, <1>10 DEF ChainInv, NothingIsLost
  <2>4. ~raised => FileIsInOrder' /\ Len(buffer)' < FlushEvery
    <3>1. Len(buffer)' < FlushEvery
      <4>1. Len(buffer) \in Nat /\ FlushEvery \in Nat
        BY <1>2, ChainAssumption
      <4> QED
        BY <1>4, <1>10, <4>1
    <3>2. ~raised => FileIsInOrder'
      BY <1>1, <1>6, <1>10 DEF ChainInv, FileIsInOrder
    <3> QED
      BY <3>1, <3>2
  <2> QED
    BY <1>10, <2>1, <2>2, <2>3, <2>4 DEF ChainInv
<1> QED
  BY <1>3, <1>9, <1>10

\* A new process starts with an empty buffer, and adds to the file of the others.
LEMMA RestartPreserves ==
  ASSUME ChainInv, Restart
  PROVE  ChainInv'
<1>1. /\ process \in 1..MaxProcesses /\ process < MaxProcesses /\ process' = process + 1
      /\ sequence' = 0 /\ buffer' = <<>> /\ emitted' = <<>> /\ raised' = FALSE
      /\ lines' = lines /\ lines \in Seq(Entry)
  BY DEF Restart, ChainInv, ChainTypeOK
<1>2. ChainTypeOK'
  <2>1. <<>> \in Seq(Entry)
    BY EmptySeq
  <2>2. process' \in 1..MaxProcesses /\ sequence' \in 0..MaxEmits
    BY <1>1, ChainAssumption
  <2> QED
    BY <1>1, <2>1, <2>2 DEF ChainTypeOK
<1>3. \A i \in DOMAIN lines : lines[i].process <= process /\ lines[i].process \in Nat
  <2>1. \A i \in DOMAIN lines : lines[i] \in Entry
    BY <1>1
  <2> QED
    BY <2>1 DEF ChainInv, ProcessesAreCounted, Entry
<1>4. ProcessesAreCounted'
  BY <1>1, <1>3 DEF ProcessesAreCounted
<1>5. NothingIsLost'
  BY <1>1 DEF NothingIsLost
<1>6. FileIsInOrder'
  <2>1. \A i \in DOMAIN lines : lines[i].process # process'
    BY <1>1, <1>3
  <2>2. lines' = lines \o <<>> /\ <<>> \in Seq(Entry) /\ <<>> \o buffer' = emitted'
    BY <1>1, ConcatEmptySeq
  <2> QED
    BY <1>1, <2>1, <2>2 DEF FileIsInOrder
<1>7. Len(buffer)' < FlushEvery
  BY <1>1, ChainAssumption
<1> QED
  BY <1>2, <1>4, <1>5, <1>6, <1>7 DEF ChainInv

\* Every step preserves the invariant.
LEMMA ChainStepPreserves ==
  ASSUME ChainInv, [ChainNext]_chainVars
  PROVE  ChainInv'
<1>1. ASSUME NEW s \in BOOLEAN, Emit(s)
      PROVE  ChainInv'
  BY <1>1, EmitPreserves
<1>2. CASE EmitUnknown
  <2>1. sequence' \in 0..MaxEmits
    BY <1>2, ChainAssumption DEF EmitUnknown, ChainInv, ChainTypeOK
  <2> QED
    BY <1>2, <2>1 DEF EmitUnknown, ChainInv, ChainTypeOK, ProcessesAreCounted, NothingIsLost,
                      FileIsInOrder
<1>3. CASE Close
  <2>1. /\ Flush(buffer) /\ UNCHANGED <<process, sequence, emitted>>
        /\ buffer \in Seq(Entry) /\ emitted \in Seq(Entry) /\ sequence \in 0..MaxEmits
        /\ \A i \in DOMAIN buffer : buffer[i].process = process
    BY <1>3 DEF Close, ChainInv, ChainTypeOK, ProcessesAreCounted
  <2> QED
    BY <2>1, FlushPreserves
<1>4. CASE Restart
  BY <1>4, RestartPreserves
<1>5. CASE UNCHANGED chainVars
  BY <1>5 DEF chainVars, ChainInv, ChainTypeOK, ProcessesAreCounted, NothingIsLost, FileIsInOrder
<1> QED
  BY <1>1, <1>2, <1>3, <1>4, <1>5 DEF ChainNext

\* At first there are no events.
LEMMA ChainInitEstablishes ==
  ASSUME ChainInit
  PROVE  ChainInv
<1>1. ChainTypeOK
  <2>1. <<>> \in Seq(Entry)
    BY EmptySeq
  <2>2. 1 \in 1..MaxProcesses /\ 0 \in 0..MaxEmits
    BY ChainAssumption
  <2> QED
    BY <2>1, <2>2 DEF ChainInit, ChainTypeOK
<1>2. ProcessesAreCounted /\ NothingIsLost
  BY DEF ChainInit, ProcessesAreCounted, NothingIsLost
<1>3. FileIsInOrder /\ Len(buffer) < FlushEvery
  <2>1. <<>> \in Seq(Entry) /\ <<>> \o <<>> = <<>> /\ Len(<<>>) = 0
    BY EmptySeq, ConcatEmptySeq
  <2>2. FileIsInOrder
    <3> DEFINE none == <<>>
    <3>1. none \in Seq(Entry) /\ lines = none \o none /\ none \o buffer = emitted
      BY <2>1 DEF ChainInit
    <3>2. \A i \in DOMAIN none : none[i].process # process
      OBVIOUS
    <3> HIDE DEF none
    <3> QED
      BY <3>1, <3>2 DEF FileIsInOrder
  <2>3. Len(buffer) < FlushEvery
    BY <2>1, ChainAssumption DEF ChainInit
  <2> QED
    BY <2>2, <2>3
<1> QED
  BY <1>1, <1>2, <1>3 DEF ChainInv

\* What the invariant says of the file is what the property says of it.
LEMMA ChainInvImpliesComplete ==
  ASSUME ChainInv
  PROVE  ChainIsComplete
<1>1. ToSet(emitted) \subseteq WrittenBy(process) \cup ToSet(buffer)
  BY DEF ChainInv, NothingIsLost, ProcessesAreCounted, ToSet, WrittenBy
<1>2. ASSUME ~raised PROVE \E n \in 0..Len(lines) : CompleteAfter(n)
  <2>1. PICK before \in Seq(Entry), after \in Seq(Entry) :
          /\ lines = before \o after
          /\ \A i \in DOMAIN before : before[i].process # process
          /\ after \o buffer = emitted
    BY <1>2 DEF ChainInv, FileIsInOrder
  <2> DEFINE n == Len(before)
             rest == SubSeq(lines, n + 1, Len(lines))
  <2>2. /\ Len(before) \in Nat /\ Len(after) \in Nat /\ lines \in Seq(Entry)
        /\ Len(lines) = Len(before) + Len(after)
        /\ \A i \in 1..(Len(before) + Len(after)) :
             lines[i] = IF i <= Len(before) THEN before[i] ELSE after[i - Len(before)]
        /\ DOMAIN before = 1..Len(before)
    BY <2>1, ConcatProperties
  <2>3. ASSUME NEW i \in 1..n PROVE lines[i].process # process
    <3>1. i \in DOMAIN before /\ lines[i] = before[i]
      BY <2>2
    <3> QED
      BY <2>1, <3>1
  <2>4. rest = after
    <3>1. n + 1 \in Int /\ Len(lines) \in Int /\ \A i \in (n + 1)..Len(lines) : lines[i] \in Entry
      BY <2>2
    <3>2. /\ rest \in Seq(Entry)
          /\ Len(rest) = IF n + 1 <= Len(lines) THEN Len(lines) - (n + 1) + 1 ELSE 0
          /\ \A i \in 1..(Len(lines) - (n + 1) + 1) : rest[i] = lines[n + 1 + i - 1]
      BY <3>1, SubSeqProperties
    <3>3. Len(rest) = Len(after)
      BY <2>2, <3>2
    <3>4. \A i \in 1..Len(rest) : rest[i] = after[i]
      <4> SUFFICES ASSUME NEW i \in 1..Len(after) PROVE rest[i] = after[i]
        BY <3>3
      <4>1. rest[i] = lines[n + i] /\ n + i \in 1..(Len(before) + Len(after))
            /\ ~(n + i <= Len(before)) /\ n + i - Len(before) = i
        BY <2>2, <3>2
      <4> QED
        BY <2>2, <4>1
    <3> QED
      BY <3>2, <3>3, <3>4, SeqEqual
  <2>5. n \in 0..Len(lines)
    BY <2>2
  <2> QED
    BY <2>1, <2>3, <2>4, <2>5 DEF CompleteAfter
<1> QED
  BY <1>1, <1>2 DEF ChainInv, ChainIsComplete

-----------------------------------------------------------------------------
(* The event chain: theorems *)

\* The exporter, its file and its history keep their types.
THEOREM ChainTypeCorrect == ChainSpec => []ChainTypeOK
<1>1. ChainInit => ChainInv
  BY ChainInitEstablishes
<1>2. ChainInv /\ [ChainNext]_chainVars => ChainInv'
  BY ChainStepPreserves
<1>3. ChainInv => ChainTypeOK
  BY DEF ChainInv
<1> QED
  BY <1>1, <1>2, <1>3, PTL DEF ChainSpec

\* EventChainExporter (observability/event_chain.py): with any flush_every, refused
\* payloads, processes that die and others that go on in the same file, no event of
\* the living process is lost, and without a refused one they are in the file and
\* in the buffer in order and once.
THEOREM ChainsAreComplete == ChainSpec => []ChainIsComplete
<1>1. ChainInit => ChainInv
  BY ChainInitEstablishes
<1>2. ChainInv /\ [ChainNext]_chainVars => ChainInv'
  BY ChainStepPreserves
<1>3. ChainInv => ChainIsComplete
  BY ChainInvImpliesComplete
<1> QED
  BY <1>1, <1>2, <1>3, PTL DEF ChainSpec

-----------------------------------------------------------------------------
(* Alerts: types *)

\* The rules of a sweep are taken from the list of rules.
LEMMA SeveritiesOfRules ==
  ASSUME NEW n \in Nat, NEW rule \in [1..n -> Breached]
  PROVE  [i \in 1..n |-> Rules[rule[i]].severity] \in Seq(Severity)
<1>1. \A i \in DOMAIN Rules : Rules[i].severity \in Severity
  <2> DEFINE R == [metric : Metric, threshold : Nat, severity : Severity]
  <2>1. Rules \in Seq(R)
    BY AlertAssumption
  <2>2. \A r \in R : r.severity \in Severity
    OBVIOUS
  <2> HIDE DEF R
  <2> QED
    BY <2>1, <2>2
<1>2. \A i \in 1..n : Rules[rule[i]].severity \in Severity
  BY <1>1 DEF Breached
<1> QED
  BY <1>2

\* Every step keeps the types.
LEMMA AlertTypesPreserved ==
  ASSUME AlertTypeOK, [AlertNext]_alertVars
  PROVE  AlertTypeOK'
<1> USE DEF AlertTypeOK
<1>0. MaxCollectors \in Nat /\ registered \in 1..MaxCollectors /\ held \in 1..registered
  BY AlertAssumption DEF Collector
<1>1. ASSUME NEW m \in Metric, NEW l \in Label, NEW n \in 0..MaxCount, Count(m, l, n)
      PROVE  AlertTypeOK'
  <2>1. n \in Nat
    BY AlertAssumption
  <2>2. OrZero(counters[registered][m][l]) \in Nat
    BY DEF OrZero
  <2>3. Incremented(counters[registered][m][l], n) \in Nat
    BY <2>1, <2>2 DEF Incremented
  <2>4. counted[registered][m] + n \in Nat
    BY <2>1
  <2>5. counters' \in [Collector -> [Metric -> [Label -> Nat \cup {NoSample}]]]
    BY <1>1, <2>3 DEF Count
  <2>6. counted' \in [Collector -> [Metric -> Nat]]
    BY <1>1, <2>4 DEF Count
  <2> QED
    BY <1>1, <2>5, <2>6 DEF Count, alerts
<1>2. ASSUME NEW m \in Metric, NEW n \in 0..MaxCount, SetGauge(m, n)
      PROVE  AlertTypeOK'
  <2>1. n \in Nat
    BY AlertAssumption
  <2> QED
    BY <1>2, <2>1 DEF SetGauge, alerts
<1>3. ASSUME NEW m \in Metric, RegisterCounter(m)
      PROVE  AlertTypeOK'
  <2>1. Blank[m] \in [Label -> Nat \cup {NoSample}]
    BY DEF Blank
  <2> QED
    BY <1>3, <2>1 DEF RegisterCounter, alerts
<1>4. CASE ResetCollector
  <2>1. Blank \in [Metric -> [Label -> Nat \cup {NoSample}]]
    BY DEF Blank
  <2>2. NoGauges \in [Metric -> Nat \cup {NoSample}]
    BY DEF NoGauges
  <2> QED
    BY <1>4, <2>1, <2>2 DEF ResetCollector, alerts
<1>5. CASE ForgetCollectors
  <2>1. registered + 1 \in 1..MaxCollectors /\ held \in 1..(registered + 1)
    BY <1>0, <1>5 DEF ForgetCollectors
  <2> QED
    BY <1>5, <2>1 DEF ForgetCollectors, alerts, Collector
<1>6. CASE NewEvaluator
  <2>1. registered \in 1..registered /\ <<>> \in Seq(Severity)
    BY <1>0, EmptySeq
  <2> QED
    BY <1>6, <2>1 DEF NewEvaluator, metrics
<1>7. CASE Evaluate
  <2>1. Cardinality(Breached) \in Nat
    <3>1. Len(Rules) \in Nat /\ DOMAIN Rules = 1..Len(Rules)
      BY AlertAssumption
    <3>2. 1 \in Int /\ Len(Rules) \in Int
      BY <3>1
    <3>3. IsFiniteSet(1..Len(Rules))
      BY <3>2, FS_Interval
    <3> QED
      BY <3>1, <3>3, FS_Subset, FS_CardinalityType DEF Breached
  <2>2. fired' \in Seq(Severity)
    <3>1. PICK rule \in [1..Cardinality(Breached) -> Breached] :
            fired' = fired \o [i \in 1..Cardinality(Breached) |-> Rules[rule[i]].severity]
      BY <1>7 DEF Evaluate
    <3> QED
      BY <2>1, <3>1, SeveritiesOfRules, ConcatProperties
  <2> QED
    BY <1>7, <2>2 DEF Evaluate, metrics
<1>8. CASE Route
  <2>1. fired' \in Seq(Severity)
    BY <1>8 DEF Route
  <2> QED
    BY <1>8, <2>1 DEF Route, metrics
<1>9. ASSUME NEW h \in Handler, NEW s \in Severity \cup {Every}, AddHandler(h, s)
      PROVE  AlertTypeOK'
  BY <1>9 DEF AddHandler, metrics
<1>10. CASE UNCHANGED alertVars
  BY <1>10 DEF alertVars
<1> QED
  BY <1>1, <1>2, <1>3, <1>4, <1>5, <1>6, <1>7, <1>8, <1>9, <1>10 DEF AlertNext

-----------------------------------------------------------------------------
(* Alerts: what is counted *)

\* The samples of a counter, as numbers.
Samples(c, m) == [l \in Label |-> OrZero(counters[c][m][l])]

\* The samples of every counter add up to what was counted since it began.
SamplesAddUp ==
  \A c \in Collector, m \in Metric : Total(Samples(c, m), Label) = counted[c][m]

LEMMA SamplesAreNumbers ==
  ASSUME AlertTypeOK, NEW c \in Collector, NEW m \in Metric
  PROVE  \A l \in Label : Samples(c, m)[l] \in Nat
BY DEF AlertTypeOK, Samples, OrZero

\* A counter without samples adds up to nothing.
LEMMA NoSamplesAddUp ==
  ASSUME NEW f, \A l \in Label : f[l] = 0
  PROVE  Total(f, Label) = 0
BY AlertAssumption, TotalOfNaturals

\* Counting adds to one sample of one counter.
LEMMA CountAddsUp ==
  ASSUME AlertTypeOK, SamplesAddUp,
         NEW m \in Metric, NEW l \in Label, NEW n \in 0..MaxCount, Count(m, l, n)
  PROVE  SamplesAddUp'
<1>1. n \in Nat /\ registered \in Collector
  BY AlertAssumption DEF AlertTypeOK
<1>2. /\ counters' = [counters EXCEPT ![registered][m][l] =
                                    Incremented(counters[registered][m][l], n)]
      /\ counted' = [counted EXCEPT ![registered][m] = counted[registered][m] + n]
  BY DEF Count
<1>3. /\ counters \in [Collector -> [Metric -> [Label -> Nat \cup {NoSample}]]]
      /\ counted \in [Collector -> [Metric -> Nat]]
  BY DEF AlertTypeOK
<1> SUFFICES ASSUME NEW c \in Collector, NEW k \in Metric
             PROVE  Total(Samples(c, k)', Label) = counted'[c][k]
  BY DEF SamplesAddUp
<1>4. CASE c = registered /\ k = m
  <2>1. /\ \A y \in Label \ {l} : counters'[c][k][y] = counters[c][k][y]
        /\ counters'[c][k][l] = Incremented(counters[c][k][l], n)
        /\ counted'[c][k] = counted[c][k] + n
    BY <1>1, <1>2, <1>3, <1>4
  <2>2. Incremented(counters[c][k][l], n) = OrZero(counters[c][k][l]) + n
    BY DEF Incremented
  <2>3. \A y \in Label : OrZero(counters[c][k][y]) \in Nat
    BY <1>3 DEF OrZero
  <2>4. OrZero(counters'[c][k][l]) = OrZero(counters[c][k][l]) + n
    <3>1. OrZero(counters[c][k][l]) + n \in Nat
      BY <1>1, <2>3
    <3> QED
      BY <2>1, <2>2, <3>1, AlertAssumption DEF OrZero
  <2> DEFINE old == Samples(c, k)
             new == Samples(c, k)'
  <2>5. /\ \A y \in Label : old[y] \in Int /\ old[y] = OrZero(counters[c][k][y])
        /\ \A y \in Label : new[y] = OrZero(counters'[c][k][y])
    BY <2>3 DEF Samples
  <2>6. /\ \A y \in Label \ {l} : new[y] = old[y]
        /\ new[l] = old[l] + n
    BY <2>1, <2>4, <2>5
  <2>7. \A y \in Label : new[y] \in Int
    BY <1>1, <2>5, <2>6
  <2> HIDE DEF old, new
  <2>8. Total(new, Label) = Total(old, Label) + (new[l] - old[l])
    <3>1. IsFiniteSet(Label) /\ l \in Label
      BY AlertAssumption
    <3>2. /\ \A y \in Label : old[y] \in Int /\ new[y] \in Int
          /\ \A y \in Label \ {l} : new[y] = old[y]
      BY <2>5, <2>6, <2>7
    <3> QED
      BY <3>1, <3>2, TotalChangesBy
  <2>9. new[l] - old[l] = n
    BY <1>1, <2>5, <2>6
  <2> QED
    BY <2>1, <2>8, <2>9 DEF SamplesAddUp, old, new
<1>5. CASE ~(c = registered /\ k = m)
  <2>1. counters'[c][k] = counters[c][k] /\ counted'[c][k] = counted[c][k]
    BY <1>1, <1>2, <1>3, <1>5
  <2>2. Samples(c, k)' = Samples(c, k)
    BY <2>1 DEF Samples
  <2> QED
    BY <2>1, <2>2 DEF SamplesAddUp
<1> QED
  BY <1>4, <1>5

\* The others empty counters, or leave them alone.
LEMMA SamplesKeepAddingUp ==
  ASSUME AlertTypeOK, SamplesAddUp, [AlertNext]_alertVars
  PROVE  SamplesAddUp'
<1>1. ASSUME NEW m \in Metric, NEW l \in Label, NEW n \in 0..MaxCount, Count(m, l, n)
      PROVE  SamplesAddUp'
  BY <1>1, CountAddsUp
<1>2. ASSUME \A c \in Collector, m \in Metric :
               \/ counters'[c][m] = counters[c][m] /\ counted'[c][m] = counted[c][m]
               \/ counters'[c][m] = Blank[m] /\ counted'[c][m] = 0
      PROVE  SamplesAddUp'
  <2> SUFFICES ASSUME NEW c \in Collector, NEW m \in Metric
               PROVE  Total(Samples(c, m)', Label) = counted'[c][m]
    BY DEF SamplesAddUp
  <2>1. CASE counters'[c][m] = counters[c][m] /\ counted'[c][m] = counted[c][m]
    <3>1. Samples(c, m)' = Samples(c, m)
      BY <2>1 DEF Samples
    <3> QED
      BY <2>1, <3>1 DEF SamplesAddUp
  <2>2. CASE counters'[c][m] = Blank[m] /\ counted'[c][m] = 0
    <3> DEFINE new == Samples(c, m)'
    <3>1. \A l \in Label : new[l] = 0
      BY <2>2 DEF Samples, Blank, OrZero
    <3> HIDE DEF new
    <3>2. Total(new, Label) = 0
      BY <3>1, NoSamplesAddUp
    <3> QED
      BY <2>2, <3>2 DEF new
  <2> QED
    BY <1>2, <2>1, <2>2
<1>3. ASSUME NEW m \in Metric, RegisterCounter(m)
      PROVE  SamplesAddUp'
  <2>1. \A c \in Collector, k \in Metric :
          \/ counters'[c][k] = counters[c][k] /\ counted'[c][k] = counted[c][k]
          \/ counters'[c][k] = Blank[k] /\ counted'[c][k] = 0
    BY <1>3 DEF RegisterCounter, AlertTypeOK
  <2> QED
    BY <1>2, <2>1
<1>4. CASE ResetCollector
  <2>1. \A c \in Collector, k \in Metric :
          \/ counters'[c][k] = counters[c][k] /\ counted'[c][k] = counted[c][k]
          \/ counters'[c][k] = Blank[k] /\ counted'[c][k] = 0
    BY <1>4 DEF ResetCollector, AlertTypeOK
  <2> QED
    BY <1>2, <2>1
<1>5. CASE UNCHANGED <<counters, counted>>
  <2>1. \A c \in Collector, k \in Metric :
          counters'[c][k] = counters[c][k] /\ counted'[c][k] = counted[c][k]
    BY <1>5
  <2> QED
    BY <1>2, <2>1
<1>6. \/ \E m \in Metric, l \in Label, n \in 0..MaxCount : Count(m, l, n)
      \/ \E m \in Metric : RegisterCounter(m)
      \/ ResetCollector
      \/ UNCHANGED <<counters, counted>>
  BY DEF AlertNext, SetGauge, ForgetCollectors, NewEvaluator, Evaluate, Route, AddHandler,
         metrics, alertVars
<1> QED
  BY <1>1, <1>3, <1>4, <1>5, <1>6

\* The sum that _read_metric makes of the samples is their total.
LEMMA SumOfSamples ==
  ASSUME AlertTypeOK, NEW c \in Collector, NEW m \in Metric
  PROVE  MapThenSumSet(LAMBDA l : OrZero(counters[c][m][l]), Label) = Total(Samples(c, m), Label)
<1> DEFINE Sums(h) == h = [t \in SUBSET Label |->
             IF t = {} THEN 0 ELSE OrZero(counters[c][m][Taken(t)]) + h[t \ {Taken(t)}]]
           sums == CHOOSE h : Sums(h)
<1>1. MapThenSumSet(LAMBDA l : OrZero(counters[c][m][l]), Label) = sums[Label]
  BY Zenon DEF MapThenSumSet, MapThenFoldSet, Taken
<1>2. \A l \in Label : Samples(c, m)[l] \in Int /\ Samples(c, m)[l] = OrZero(counters[c][m][l])
  BY SamplesAreNumbers DEF Samples
<1>3. ASSUME NEW h PROVE SumsUp(h, Samples(c, m), Label) <=> Sums(h)
  <2>1. \A t \in SUBSET Label : t # {} => Samples(c, m)[Taken(t)] = OrZero(counters[c][m][Taken(t)])
    BY <1>2 DEF Taken
  <2> QED
    BY <2>1 DEF SumsUp
<1>4. \E h : SumsUp(h, Samples(c, m), Label)
  BY <1>2, SumsExist, AlertAssumption
<1> HIDE DEF Sums
<1>5. SumsUp(sums, Samples(c, m), Label)
  BY <1>3, <1>4
<1> QED
  BY <1>1, <1>5, TotalIsSum, AlertAssumption

\* What is read is the total, or one part of it.
LEMMA ReadingsFollow ==
  ASSUME AlertTypeOK, SamplesAddUp
  PROVE  ReadingsAddUp
<1> SUFFICES ASSUME NEW c \in Collector, NEW m \in Metric, gauges[c][m] = NoSample
             PROVE  /\ ReadMetric(c, m) <= counted[c][m]
                    /\ counters[c][m][Unlabelled] = NoSample => ReadMetric(c, m) = counted[c][m]
  BY DEF ReadingsAddUp
<1>1. Total(Samples(c, m), Label) = counted[c][m] /\ counted[c][m] \in Nat
  BY DEF SamplesAddUp, AlertTypeOK
<1>2. CASE counters[c][m][Unlabelled] = NoSample
  <2>1. ReadMetric(c, m) = counted[c][m]
    BY <1>1, <1>2, SumOfSamples DEF ReadMetric
  <2> QED
    BY <1>1, <2>1
<1>3. CASE counters[c][m][Unlabelled] # NoSample
  <2> DEFINE sample == Samples(c, m)
  <2>1. ReadMetric(c, m) = sample[Unlabelled]
    BY <1>3, AlertAssumption DEF ReadMetric, Samples, OrZero
  <2>2. \A l \in Label : sample[l] \in Nat
    BY SamplesAreNumbers
  <2> HIDE DEF sample
  <2>3. sample[Unlabelled] <= Total(sample, Label)
    BY <2>2, TotalOfNaturals, AlertAssumption
  <2> QED
    BY <1>1, <1>3, <2>1, <2>3 DEF sample
<1> QED
  BY <1>2, <1>3

-----------------------------------------------------------------------------
(* Alerts: who is called *)

Addition == [handler : Handler, severity : Severity \cup {Every}]

\* The handlers of a severity are those that were added for it.
HandlersAreListed ==
  /\ added \in Seq(Addition) /\ handlers \in [Severity -> Seq(Addition)]
  /\ \A s \in Severity : \A j \in DOMAIN handlers[s] : handlers[s][j].severity = s
  /\ \A s \in Severity : \A i \in DOMAIN added :
       added[i].severity = s => \E j \in DOMAIN handlers[s] : handlers[s][j] = added[i]

\* How often something is in a list that is long enough.
LEMMA TimesIsPositive ==
  ASSUME NEW S, NEW calls \in Seq(S), NEW a
  PROVE  Times(a, calls) > 0 <=> \E i \in DOMAIN calls : calls[i] = a
<1> DEFINE I == {i \in DOMAIN calls : calls[i] = a}
<1>1. IsFiniteSet(I)
  <2>1. DOMAIN calls = 1..Len(calls) /\ 1 \in Int /\ Len(calls) \in Int
    OBVIOUS
  <2>2. IsFiniteSet(1..Len(calls))
    BY <2>1, FS_Interval
  <2> QED
    BY <2>1, <2>2, FS_Subset
<1>2. Cardinality(I) \in Nat /\ (Cardinality(I) = 0 <=> I = {})
  BY <1>1, FS_CardinalityType, FS_EmptySet
<1>3. Times(a, calls) = Cardinality(I)
  BY DEF Times
<1>4. I # {} <=> \E i \in DOMAIN calls : calls[i] = a
  OBVIOUS
<1> HIDE DEF I
<1> QED
  BY <1>2, <1>3, <1>4

\* What is not in the first list is as often in both as in the second.
LEMMA TimesOfConcat ==
  ASSUME NEW S, NEW s \in Seq(S), NEW t \in Seq(S), NEW a,
         \A i \in DOMAIN s : s[i] # a
  PROVE  Times(a, s \o t) = Times(a, t)
<1> DEFINE I == {i \in DOMAIN t : t[i] = a}
           J == {i \in DOMAIN (s \o t) : (s \o t)[i] = a}
           f == [i \in I |-> Len(s) + i]
<1>1. /\ Len(s) \in Nat /\ Len(t) \in Nat /\ DOMAIN s = 1..Len(s) /\ DOMAIN t = 1..Len(t)
      /\ DOMAIN (s \o t) = 1..(Len(s) + Len(t))
      /\ \A i \in 1..(Len(s) + Len(t)) : (s \o t)[i] = IF i <= Len(s) THEN s[i] ELSE t[i - Len(s)]
  BY ConcatProperties
<1>2. IsFiniteSet(I)
  <2>1. 1 \in Int /\ Len(t) \in Int
    BY <1>1
  <2>2. IsFiniteSet(1..Len(t))
    BY <2>1, FS_Interval
  <2> QED
    BY <1>1, <2>2, FS_Subset
<1>3. \A i \in I : i \in Int /\ Len(s) + i \in J
  BY <1>1
<1>4. \A j \in J : j \in Int /\ j - Len(s) \in I /\ Len(s) + (j - Len(s)) = j
  BY <1>1
<1>5. f \in Bijection(I, J)
  <2> HIDE DEF I, J
  <2>1. f \in [I -> J]
    BY <1>3
  <2>2. \A i, k \in I : f[i] = f[k] => i = k
    BY <1>1, <1>3
  <2>3. \A j \in J : \E i \in I : f[i] = j
    BY <1>4
  <2> HIDE DEF f
  <2> QED
    BY <2>1, <2>2, <2>3 DEF Bijection, Injection, Surjection, IsInjective
<1>6. Cardinality(I) = Cardinality(J)
  <2> HIDE DEF I, J, f
  <2> QED
    BY <1>2, <1>5, FS_Bijection DEF ExistsBijection
<1> QED
  BY <1>6 DEF Times

\* route calls those of the severity first, and then all.
LEMMA RouteReaches ==
  ASSUME AlertTypeOK, HandlersAreListed, Route
  PROVE  AlertsReachTheirHandlers'
<1> DEFINE severity == Head(fired)
           own == handlers[severity]
           called == Called(severity)
<1>1. severity \in Severity /\ severity # Every
  BY AlertAssumption DEF AlertTypeOK, Route
<1>2. /\ own \in Seq(Addition) /\ added \in Seq(Addition) /\ called = own \o added
      /\ \A j \in DOMAIN own : own[j].severity = severity
      /\ \A i \in DOMAIN added : added[i].severity = severity =>
                                 \E j \in DOMAIN own : own[j] = added[i]
  BY <1>1 DEF HandlersAreListed, Called
<1>3. PICK n \in 0..Len(called) :
        routed' = [severity |-> severity, to |-> added, raised |-> n < Len(called),
                   calls |-> SubSeq(called, 1, n)]
  BY DEF Route
<1> HIDE DEF severity, own, called
<1>4. /\ called \in Seq(Addition) /\ Len(called) = Len(own) + Len(added)
      /\ Len(own) \in Nat /\ Len(added) \in Nat
      /\ DOMAIN own = 1..Len(own) /\ DOMAIN called = 1..Len(called)
      /\ \A i \in 1..(Len(own) + Len(added)) :
           called[i] = IF i <= Len(own) THEN own[i] ELSE added[i - Len(own)]
  BY <1>2, ConcatProperties
<1> DEFINE calls == SubSeq(called, 1, n)
<1>5. /\ calls \in Seq(Addition) /\ DOMAIN calls = 1..n
      /\ \A i \in 1..n : calls[i] = called[i]
  <2>1. 1 \in Int /\ n \in Int /\ \A i \in 1..n : called[i] \in Addition
    BY <1>4
  <2>2. /\ SubSeq(called, 1, n) \in Seq(Addition)
        /\ Len(SubSeq(called, 1, n)) = IF 1 <= n THEN n - 1 + 1 ELSE 0
        /\ \A i \in 1..(n - 1 + 1) : SubSeq(called, 1, n)[i] = called[1 + i - 1]
    BY <2>1, SubSeqProperties
  <2>3. Len(calls) = n
    BY <1>4, <2>2
  <2>4. \A i \in 1..n : calls[i] = called[i]
    BY <1>4, <2>2
  <2> HIDE DEF calls
  <2> QED
    BY <2>2, <2>3, <2>4 DEF calls
<1>6. /\ routed'.severity = severity /\ routed'.to = added /\ routed'.calls = calls
      /\ routed'.raised <=> n < Len(called)
  BY <1>3
<1> HIDE DEF calls
<1>7. ASSUME NEW i \in DOMAIN added, added[i].severity = severity, n >= Len(own)
      PROVE  Times(added[i], calls) > 0
  <2>1. PICK j \in DOMAIN own : own[j] = added[i]
    BY <1>2, <1>7
  <2>2. j \in DOMAIN calls /\ calls[j] = added[i]
    BY <1>4, <1>5, <1>7, <2>1
  <2> QED
    BY <1>5, <2>2, TimesIsPositive
<1>8. ASSUME ~(n < Len(called)), NEW i \in DOMAIN added
      PROVE  /\ added[i].severity = severity => Times(added[i], calls) > 0
             /\ added[i].severity = Every => Times(added[i], calls) = Times(added[i], added)
  <2>1. n = Len(called) /\ n >= Len(own)
    BY <1>4, <1>8
  <2>2. calls = called
    BY <1>4, <2>1, SubSeqFull DEF calls
  <2>3. ASSUME added[i].severity = Every
        PROVE  Times(added[i], calls) = Times(added[i], added)
    <3>1. \A j \in DOMAIN own : own[j] # added[i]
      BY <1>1, <1>2, <2>3
    <3>2. Times(added[i], own \o added) = Times(added[i], added)
      BY <1>2, <3>1, TimesOfConcat
    <3> QED
      BY <1>2, <2>2, <3>2
  <2> QED
    BY <1>7, <2>1, <2>3
<1>9. ASSUME NEW i \in DOMAIN added, NEW k \in DOMAIN added,
             added[i].severity = severity, added[k].severity = Every, Times(added[k], calls) > 0
      PROVE  Times(added[i], calls) > 0
  <2>1. PICK j \in DOMAIN calls : calls[j] = added[k]
    BY <1>5, <1>9, TimesIsPositive
  <2>2. ~(j <= Len(own))
    <3> SUFFICES ASSUME j <= Len(own) PROVE FALSE
      OBVIOUS
    <3>1. j \in DOMAIN own /\ own[j] = added[k]
      BY <1>4, <1>5, <2>1
    <3> QED
      BY <1>1, <1>2, <1>9, <3>1
  <2>3. n >= Len(own)
    BY <1>4, <1>5, <2>1, <2>2
  <2> QED
    BY <1>7, <1>9, <2>3
<1> QED
  BY <1>6, <1>8, <1>9 DEF AlertsReachTheirHandlers

\* add_handler enters a handler with a severity into both lists.
LEMMA HandlersStayListed ==
  ASSUME HandlersAreListed, [AlertNext]_alertVars
  PROVE  HandlersAreListed'
<1>1. ASSUME NEW h \in Handler, NEW s \in Severity \cup {Every}, AddHandler(h, s)
      PROVE  HandlersAreListed'
  <2> DEFINE entry == [handler |-> h, severity |-> s]
  <2>1. entry \in Addition /\ entry.severity = s
    BY DEF Addition
  <2>2. /\ added' = Append(added, entry)
        /\ handlers' = IF s = Every THEN handlers
                       ELSE [handlers EXCEPT ![s] = Append(handlers[s], entry)]
    BY <1>1 DEF AddHandler
  <2> HIDE DEF entry
  <2>3. added \in Seq(Addition) /\ handlers \in [Severity -> Seq(Addition)]
    BY DEF HandlersAreListed
  <2>4. /\ added' \in Seq(Addition) /\ DOMAIN added' = 1..(Len(added) + 1)
        /\ DOMAIN added = 1..Len(added)
        /\ added'[Len(added) + 1] = entry
        /\ \A i \in DOMAIN added : added'[i] = added[i]
    BY <2>1, <2>2, <2>3, AppendProperties
  <2>5. \A r \in Severity :
          /\ r # s => handlers'[r] = handlers[r]
          /\ r = s => handlers'[r] = Append(handlers[r], entry)
    BY <2>2, <2>3, AlertAssumption
  <2>6. ASSUME NEW r \in Severity, r = s
        PROVE  /\ handlers'[r] \in Seq(Addition)
               /\ DOMAIN handlers'[r] = 1..(Len(handlers[r]) + 1)
               /\ DOMAIN handlers[r] = 1..Len(handlers[r])
               /\ Len(handlers[r]) \in Nat
               /\ handlers'[r][Len(handlers[r]) + 1] = entry
               /\ \A i \in DOMAIN handlers[r] : handlers'[r][i] = handlers[r][i]
    <3> DEFINE own == handlers[r]
               new == handlers'[r]
    <3>1. own \in Seq(Addition) /\ new = Append(own, entry)
      BY <2>3, <2>5, <2>6
    <3> HIDE DEF own, new
    <3>2. /\ new \in Seq(Addition) /\ DOMAIN new = 1..(Len(own) + 1)
          /\ DOMAIN own = 1..Len(own) /\ Len(own) \in Nat
          /\ new[Len(own) + 1] = entry
          /\ \A i \in DOMAIN own : new[i] = own[i]
      BY <2>1, <3>1, AppendProperties
    <3> QED
      BY <3>2 DEF own, new
  <2>7. handlers' \in [Severity -> Seq(Addition)]
    <3>1. \A r \in Severity : handlers'[r] \in Seq(Addition)
      BY <2>3, <2>5, <2>6
    <3>2. handlers' = [r \in Severity |-> handlers'[r]]
      BY <2>2, <2>3
    <3> QED
      BY <3>1, <3>2
  <2>8. ASSUME NEW r \in Severity, NEW j \in DOMAIN handlers'[r]
        PROVE  handlers'[r][j].severity = r
    <3>1. CASE r # s
      BY <2>5, <2>8, <3>1 DEF HandlersAreListed
    <3>2. CASE r = s
      <4>1. \/ j \in DOMAIN handlers[r] /\ handlers'[r][j] = handlers[r][j]
            \/ handlers'[r][j] = entry
        BY <2>6, <2>8, <3>2
      <4> QED
        BY <2>1, <3>2, <4>1 DEF HandlersAreListed
    <3> QED
      BY <3>1, <3>2
  <2>9. ASSUME NEW r \in Severity, NEW i \in DOMAIN added', added'[i].severity = r
        PROVE  \E j \in DOMAIN handlers'[r] : handlers'[r][j] = added'[i]
    <3>1. CASE i \in DOMAIN added
      <4>1. PICK j \in DOMAIN handlers[r] : handlers[r][j] = added[i]
        BY <2>4, <2>9, <3>1 DEF HandlersAreListed
      <4>2. CASE r # s
        BY <2>4, <2>5, <3>1, <4>1, <4>2
      <4>3. CASE r = s
        <5>1. j \in DOMAIN handlers'[r] /\ handlers'[r][j] = handlers[r][j]
          BY <2>6, <4>1, <4>3
        <5> QED
          BY <2>4, <3>1, <4>1, <5>1
      <4> QED
        BY <4>2, <4>3
    <3>2. CASE i = Len(added) + 1
      <4>1. r = s /\ added'[i] = entry
        BY <2>1, <2>4, <2>9, <3>2
      <4> QED
        BY <2>6, <4>1
    <3> QED
      BY <2>3, <2>4, <3>1, <3>2
  <2> QED
    BY <2>4, <2>7, <2>8, <2>9 DEF HandlersAreListed
<1>2. CASE UNCHANGED <<added, handlers>>
  BY <1>2 DEF HandlersAreListed
<1>3. \/ \E h \in Handler, s \in Severity \cup {Every} : AddHandler(h, s)
      \/ UNCHANGED <<added, handlers>>
  BY DEF AlertNext, Count, SetGauge, RegisterCounter, ResetCollector, ForgetCollectors,
         NewEvaluator, Evaluate, Route, alerts, alertVars
<1> QED
  BY <1>1, <1>2, <1>3

\* Nothing but route changes the last alert routed.
LEMMA AlertsKeepReaching ==
  ASSUME AlertTypeOK, HandlersAreListed, AlertsReachTheirHandlers, [AlertNext]_alertVars
  PROVE  AlertsReachTheirHandlers'
<1>1. CASE Route
  BY <1>1, RouteReaches
<1>2. CASE UNCHANGED routed
  BY <1>2 DEF AlertsReachTheirHandlers, Times
<1>3. Route \/ UNCHANGED routed
  BY DEF AlertNext, Count, SetGauge, RegisterCounter, ResetCollector, ForgetCollectors,
         NewEvaluator, Evaluate, AddHandler, alerts, alertVars
<1> QED
  BY <1>1, <1>2, <1>3

-----------------------------------------------------------------------------
(* Alerts: the invariant *)

AlertsAreRight ==
  /\ AlertTypeOK
  /\ SamplesAddUp
  /\ HandlersAreListed
  /\ AlertsReachTheirHandlers

\* At first nothing is counted and no handler is added.
LEMMA AlertsBegin ==
  ASSUME AlertInit
  PROVE  AlertsAreRight
<1>1. AlertTypeOK
  <2>1. 1 \in Collector /\ 1 \in 1..1
    BY AlertAssumption DEF Collector
  <2>2. <<>> \in Seq(Severity)
    BY EmptySeq
  <2>3. counters \in [Collector -> [Metric -> [Label -> Nat \cup {NoSample}]]]
    BY DEF AlertInit, Blank
  <2>4. gauges \in [Collector -> [Metric -> Nat \cup {NoSample}]]
    BY DEF AlertInit, NoGauges
  <2>5. counted \in [Collector -> [Metric -> Nat]]
    BY DEF AlertInit
  <2> QED
    BY <2>1, <2>2, <2>3, <2>4, <2>5 DEF AlertInit, AlertTypeOK
<1>2. SamplesAddUp
  <2> SUFFICES ASSUME NEW c \in Collector, NEW m \in Metric
               PROVE  Total(Samples(c, m), Label) = counted[c][m]
    BY DEF SamplesAddUp
  <2> DEFINE f == Samples(c, m)
  <2>1. \A l \in Label : f[l] = 0
    BY DEF AlertInit, Blank, Samples, OrZero
  <2> HIDE DEF f
  <2>2. Total(f, Label) = 0
    BY <2>1, NoSamplesAddUp
  <2> QED
    BY <2>2 DEF AlertInit, f
<1>3. HandlersAreListed
  <2>1. <<>> \in Seq(Addition)
    BY EmptySeq
  <2> QED
    BY <2>1 DEF AlertInit, HandlersAreListed
<1>4. AlertsReachTheirHandlers
  BY DEF AlertInit, AlertsReachTheirHandlers
<1> QED
  BY <1>1, <1>2, <1>3, <1>4 DEF AlertsAreRight

\* Every step keeps it.
LEMMA AlertsStayRight ==
  ASSUME AlertsAreRight, [AlertNext]_alertVars
  PROVE  AlertsAreRight'
BY AlertTypesPreserved, SamplesKeepAddingUp, HandlersStayListed, AlertsKeepReaching
   DEF AlertsAreRight

LEMMA AlertsAreAlwaysRight == AlertSpec => []AlertsAreRight
BY AlertsBegin, AlertsStayRight, PTL DEF AlertSpec

\* Collectors, alerts and handlers keep their types (AlertTypeOK).
THEOREM AlertTypeCorrect == AlertSpec => []AlertTypeOK
<1>1. AlertsAreRight => AlertTypeOK
  BY DEF AlertsAreRight
<1> QED
  BY <1>1, AlertsAreAlwaysRight, PTL

\* For every set of metrics, labels and rules: what the evaluator reads of a
\* metric is all that was counted of it since the counter began, or less.
THEOREM ReadingsAreSums == AlertSpec => []ReadingsAddUp
<1>1. AlertsAreRight => ReadingsAddUp
  BY ReadingsFollow DEF AlertsAreRight
<1> QED
  BY <1>1, AlertsAreAlwaysRight, PTL

\* For every number of handlers: an alert that no handler stops has reached all
\* that were added for it, and the general ones as often as they were added.
THEOREM AlertsReachHandlers == AlertSpec => []AlertsReachTheirHandlers
<1>1. AlertsAreRight => AlertsReachTheirHandlers
  BY DEF AlertsAreRight
<1> QED
  BY <1>1, AlertsAreAlwaysRight, PTL

-----------------------------------------------------------------------------
(* Bars on their way into the repository *)

\* The first bar of each key that was read is what the repository has of it.
ReadsAreKept ==
  /\ read \in Seq(ToSet(read))
  /\ IsFiniteSet(repository) /\ repository \subseteq ToSet(read)
  /\ \A bar \in ToSet(read) : ValidBar(bar)
  /\ \A bar \in ToSet(read) : Stored(bar.symbol, bar.time) = {FirstRead(bar.symbol, bar.time)}

\* Each contradiction is in the quarantine, or has ended the call.
ContradictionsAreKept ==
  /\ quarantined \in Seq(ToSet(quarantined))
  /\ Len(quarantined) = IF duplicatePolicy = "RAISE" THEN 0 ELSE Cardinality(Contradictions)
  /\ progress = "conflict" => duplicatePolicy = "RAISE" /\ Len(read) \in Contradictions

IngestInv == ReadsAreKept /\ ContradictionsAreKept

\* What one more bar does to the bars of a key.
LEMMA ReadsGrow ==
  ASSUME ReadsAreKept, NEW bar, read' = Append(read, bar)
  PROVE  /\ Len(read) \in Nat /\ DOMAIN read = 1..Len(read)
         /\ \A s, t : /\ Reads(s, t) \in SUBSET (1..Len(read))
                      /\ Reads(s, t)' = IF KeyOf(bar) = <<s, t>> THEN Reads(s, t) \cup {Len(read) + 1}
                                        ELSE Reads(s, t)
                      /\ Reads(s, t) # {} => Min(Reads(s, t)) \in Reads(s, t)
                      /\ Reads(s, t) # {} => FirstRead(s, t)' = FirstRead(s, t)
                      /\ KeyOf(bar) = <<s, t>> /\ Reads(s, t) = {} => FirstRead(s, t)' = bar
<1>1. /\ Len(read) \in Nat /\ DOMAIN read = 1..Len(read) /\ DOMAIN read' = 1..(Len(read) + 1)
      /\ \A i \in 1..Len(read) : read'[i] = read[i]
      /\ read'[Len(read) + 1] = bar
  BY AppendedElements DEF ReadsAreKept
<1>2. \A i : i \in 1..(Len(read) + 1) <=> i \in 1..Len(read) \/ i = Len(read) + 1
  BY <1>1
<1> SUFFICES ASSUME NEW s, NEW t
    PROVE  /\ Reads(s, t) \in SUBSET (1..Len(read))
           /\ Reads(s, t)' = IF KeyOf(bar) = <<s, t>> THEN Reads(s, t) \cup {Len(read) + 1}
                             ELSE Reads(s, t)
           /\ Reads(s, t) # {} => Min(Reads(s, t)) \in Reads(s, t)
           /\ Reads(s, t) # {} => FirstRead(s, t)' = FirstRead(s, t)
           /\ KeyOf(bar) = <<s, t>> /\ Reads(s, t) = {} => FirstRead(s, t)' = bar
  BY <1>1
<1>3. Reads(s, t) \in SUBSET (1..Len(read))
  BY <1>1 DEF Reads
<1>4. Reads(s, t)' = IF KeyOf(bar) = <<s, t>> THEN Reads(s, t) \cup {Len(read) + 1}
                     ELSE Reads(s, t)
  <2>1. Reads(s, t)' = {i \in DOMAIN read' : KeyOf(read'[i]) = <<s, t>>}
    BY DEF Reads
  <2>2. Reads(s, t) = {i \in DOMAIN read : KeyOf(read[i]) = <<s, t>>}
    BY DEF Reads
  <2>3. \A i : i \in Reads(s, t)' <=> \/ i \in Reads(s, t)
                                      \/ i = Len(read) + 1 /\ KeyOf(bar) = <<s, t>>
    BY <1>1, <1>2, <2>1, <2>2
  <2> QED
    BY <2>3
<1>5. Reads(s, t) # {} => Min(Reads(s, t)) \in Reads(s, t)
  <2>1. Reads(s, t) \in SUBSET Int
    BY <1>3
  <2>2. IsFiniteSet(1..Len(read))
    <3>1. 1 \in Int /\ Len(read) \in Int
      BY <1>1
    <3> QED
      BY <3>1, FS_Interval
  <2>3. IsFiniteSet(Reads(s, t))
    BY <1>3, <2>2, FS_Subset
  <2> QED
    BY <2>1, <2>3, ExtremesExist
<1>6. Min(Reads(s, t) \cup {Len(read) + 1}) =
        IF Reads(s, t) = {} THEN Len(read) + 1 ELSE Min(Reads(s, t))
  BY <1>1, <1>3, LeastStays
<1>7. FirstRead(s, t)' = read'[Min(Reads(s, t)')] /\ FirstRead(s, t) = read[Min(Reads(s, t))]
  BY DEF FirstRead
<1>8. Reads(s, t) # {} => FirstRead(s, t)' = FirstRead(s, t)
  <2>1. Reads(s, t) # {} => Min(Reads(s, t)') = Min(Reads(s, t))
    BY <1>4, <1>6
  <2>2. Reads(s, t) # {} => Min(Reads(s, t)) \in 1..Len(read)
    BY <1>3, <1>5
  <2> QED
    BY <1>1, <1>7, <2>1, <2>2
<1>9. KeyOf(bar) = <<s, t>> /\ Reads(s, t) = {} => FirstRead(s, t)' = bar
  BY <1>1, <1>4, <1>6, <1>7
<1> QED
  BY <1>3, <1>4, <1>5, <1>8, <1>9

\* What the repository has of a key is nothing if no bar of it was read, and the
\* first bar of it if one was.
LEMMA StoredIsFirst ==
  ASSUME ReadsAreKept, NEW s, NEW t
  PROVE  Stored(s, t) = IF Reads(s, t) = {} THEN {} ELSE {FirstRead(s, t)}
<1>1. DOMAIN read = 1..Len(read) /\ \A b \in ToSet(read) : \E i \in 1..Len(read) : read[i] = b
  BY SeqOfItsElements DEF ReadsAreKept
<1>2. CASE Reads(s, t) = {}
  <2>1. \A b \in repository : ~(b.symbol = s /\ b.time = t)
    BY <1>1, <1>2 DEF ReadsAreKept, Reads, KeyOf
  <2>2. Stored(s, t) = {}
    BY <2>1 DEF Stored
  <2> QED
    BY <1>2, <2>2
<1>3. CASE Reads(s, t) # {}
  <2>1. PICK i \in DOMAIN read : KeyOf(read[i]) = <<s, t>>
    BY <1>3 DEF Reads
  <2>2. read[i].symbol = s /\ read[i].time = t
    BY <2>1 DEF KeyOf
  <2>3. read[i] \in ToSet(read)
    BY SeqOfItsElements DEF ReadsAreKept
  <2>4. Stored(read[i].symbol, read[i].time) = {FirstRead(read[i].symbol, read[i].time)}
    BY <2>3 DEF ReadsAreKept
  <2> QED
    BY <1>3, <2>2, <2>4
<1> QED
  BY <1>2, <1>3

\* save_bar keeps the first bars, and adds a contradiction if there is one.
LEMMA SaveKeepsReads ==
  ASSUME ReadsAreKept, NEW bar, ValidBar(bar), repository' = Saved(bar),
         read' = Append(read, bar)
  PROVE  /\ ReadsAreKept'
         /\ Contradictions' = IF Conflicts(bar) THEN Contradictions \cup {Len(read) + 1}
                              ELSE Contradictions
<1> PICK n : n = Len(read)
  OBVIOUS
<1>0. /\ n \in Nat /\ DOMAIN read = 1..n /\ \A i \in 1..n : read[i] \in ToSet(read)
      /\ \A b \in ToSet(read) : \E i \in 1..n : read[i] = b
  BY SeqOfItsElements DEF ReadsAreKept
<1>1. /\ DOMAIN read' = 1..(n + 1)
      /\ \A i \in 1..n : read'[i] = read[i]
      /\ read'[n + 1] = bar
      /\ read' \in Seq(ToSet(read')) /\ ToSet(read') = ToSet(read) \cup {bar}
  <2>1. read \in Seq(ToSet(read))
    BY DEF ReadsAreKept
  <2>2. PICK r : r = read' /\ r = Append(read, bar)
    OBVIOUS
  <2>3. /\ r \in Seq(ToSet(r)) /\ ToSet(r) = ToSet(read) \cup {bar}
        /\ DOMAIN r = 1..(Len(read) + 1)
        /\ \A i \in 1..Len(read) : r[i] = read[i]
        /\ r[Len(read) + 1] = bar
    <3>1. r \in Seq(ToSet(r))
      BY <2>1, <2>2, AppendedElements
    <3>2. ToSet(r) = ToSet(read) \cup {bar}
      BY <2>1, <2>2, AppendedElements
    <3>3. DOMAIN r = 1..(Len(read) + 1)
      BY <2>1, <2>2, AppendedElements
    <3>4. \A i \in 1..Len(read) : r[i] = read[i]
      BY <2>1, <2>2, AppendedElements
    <3>5. r[Len(read) + 1] = bar
      BY <2>1, <2>2, AppendedElements
    <3> QED
      BY <3>1, <3>2, <3>3, <3>4, <3>5
  <2>4. /\ r \in Seq(ToSet(r)) /\ ToSet(r) = ToSet(read) \cup {bar}
        /\ DOMAIN r = 1..(n + 1)
        /\ \A i \in 1..n : r[i] = read[i]
        /\ r[n + 1] = bar
    BY <2>3
  <2> QED
    BY <2>2, <2>4
<1>2. \A i \in 1..(n + 1) : i \in 1..n \/ i = n + 1
  BY <1>0
<1>3. \A s, t : /\ Reads(s, t)' = IF KeyOf(bar) = <<s, t>> THEN Reads(s, t) \cup {n + 1}
                                  ELSE Reads(s, t)
                /\ Reads(s, t) # {} => FirstRead(s, t)' = FirstRead(s, t)
                /\ KeyOf(bar) = <<s, t>> /\ Reads(s, t) = {} => FirstRead(s, t)' = bar
  BY ReadsGrow
<1>4. \A s, t : Stored(s, t) = IF Reads(s, t) = {} THEN {} ELSE {FirstRead(s, t)}
  BY StoredIsFirst
<1>5. \A s, t : Stored(s, t)' = {b \in repository' : b.symbol = s /\ b.time = t}
  BY DEF Stored
<1>6. \A s, t : Reads(s, t) # {} => Stored(s, t)' = Stored(s, t)
  <2> SUFFICES ASSUME NEW s, NEW t, Reads(s, t) # {} PROVE Stored(s, t)' = Stored(s, t)
    OBVIOUS
  <2>1. CASE repository' = repository
    BY <1>5, <2>1 DEF Stored
  <2>2. CASE repository' # repository
    <3>1. Stored(bar.symbol, bar.time) = {} /\ repository' = repository \cup {bar}
      BY <2>2 DEF Saved
    <3>2. Stored(s, t) # {}
      BY <1>4
    <3>3. ~(bar.symbol = s /\ bar.time = t)
      BY <3>1, <3>2
    <3> QED
      BY <1>5, <3>1, <3>3 DEF Stored
  <2> QED
    BY <2>1, <2>2
<1>7. Reads(bar.symbol, bar.time) = {} => Stored(bar.symbol, bar.time)' = {bar}
  <2> SUFFICES ASSUME Reads(bar.symbol, bar.time) = {}
               PROVE  {b \in repository' : b.symbol = bar.symbol /\ b.time = bar.time} = {bar}
    BY <1>5
  <2>1. Stored(bar.symbol, bar.time) = {}
    BY <1>4
  <2>2. repository' = repository \cup {bar}
    BY <2>1 DEF Saved
  <2> QED
    BY <2>1, <2>2 DEF Stored
<1>8. ReadsAreKept'
  <2>1. IsFiniteSet(repository') /\ repository' \subseteq ToSet(read')
    <3>1. IsFiniteSet(repository) /\ repository \subseteq ToSet(read)
      BY DEF ReadsAreKept
    <3>2. IsFiniteSet(repository \cup {bar})
      BY <3>1, FS_AddElement
    <3> QED
      BY <1>1, <3>1, <3>2 DEF Saved
  <2>2. \A b \in ToSet(read') : ValidBar(b)
    BY <1>1 DEF ReadsAreKept
  <2>3. ASSUME NEW b \in ToSet(read')
        PROVE  Stored(b.symbol, b.time)' = {FirstRead(b.symbol, b.time)'}
    <3>1. PICK s, t : KeyOf(b) = <<s, t>> /\ s = b.symbol /\ t = b.time
      BY DEF KeyOf
    <3>2. CASE b \in ToSet(read)
      <4>1. Reads(s, t) # {}
        BY <1>0, <3>1, <3>2 DEF Reads
      <4>2. Stored(s, t)' = Stored(s, t) /\ FirstRead(s, t)' = FirstRead(s, t)
        BY <1>3, <1>6, <4>1
      <4>3. Stored(s, t) = {FirstRead(s, t)}
        BY <1>4, <4>1
      <4> QED
        BY <3>1, <4>2, <4>3
    <3>3. CASE b = bar
      <4>1. Reads(s, t) = {} => Stored(s, t)' = {bar}
        BY <1>7, <3>1, <3>3
      <4>2. CASE Reads(s, t) = {}
        <5>1. FirstRead(s, t)' = bar
          BY <1>3, <3>1, <3>3, <4>2
        <5> QED
          BY <3>1, <4>1, <4>2, <5>1
      <4>3. CASE Reads(s, t) # {}
        <5>1. Stored(s, t)' = Stored(s, t) /\ FirstRead(s, t)' = FirstRead(s, t)
          BY <1>3, <1>6, <4>3
        <5>2. Stored(s, t) = {FirstRead(s, t)}
          BY <1>4, <4>3
        <5> QED
          BY <3>1, <5>1, <5>2
      <4> QED
        BY <4>2, <4>3
    <3> QED
      BY <1>1, <3>2, <3>3
  <2> QED
    BY <1>1, <2>1, <2>2, <2>3 DEF ReadsAreKept
<1>9. Contradictions' = IF Conflicts(bar) THEN Contradictions \cup {n + 1} ELSE Contradictions
  <2> DEFINE First(s, t) == read'[Min({j \in DOMAIN read' : KeyOf(read'[j]) = <<s, t>>})]
  <2>1. Contradictions' = {i \in DOMAIN read' :
          read'[i].content # First(read'[i].symbol, read'[i].time).content}
    BY DEF Contradictions, FirstRead, Reads
  <2>2. \A s, t : FirstRead(s, t)' = First(s, t)
    BY DEF FirstRead, Reads
  <2> HIDE DEF First
  <2>3. ASSUME NEW i \in 1..n PROVE i \in Contradictions' <=> i \in Contradictions
    <3>1. PICK s, t : KeyOf(read[i]) = <<s, t>> /\ s = read[i].symbol /\ t = read[i].time
      BY DEF KeyOf
    <3>2. i \in Reads(s, t) /\ read'[i] = read[i] /\ i \in DOMAIN read' /\ i \in DOMAIN read
      BY <1>0, <1>1, <3>1 DEF Reads
    <3>3. i \in Contradictions <=> read[i].content # FirstRead(s, t).content
      BY <3>1, <3>2 DEF Contradictions
    <3>4. i \in Contradictions' <=> read[i].content # First(s, t).content
      BY <2>1, <3>1, <3>2
    <3>5. First(s, t) = FirstRead(s, t)
      BY <1>3, <2>2, <3>2
    <3> QED
      BY <3>3, <3>4, <3>5
  <2>4. n + 1 \in Contradictions' <=> Conflicts(bar)
    <3>1. PICK s, t : KeyOf(bar) = <<s, t>> /\ s = bar.symbol /\ t = bar.time
      BY DEF KeyOf
    <3>2. Conflicts(bar) <=> \E b \in Stored(s, t) : b.content # bar.content
      BY <3>1 DEF Conflicts
    <3>3. n + 1 \in Contradictions' <=> bar.content # First(s, t).content
      <4>1. n + 1 \in DOMAIN read'
        BY <1>0, <1>1
      <4> QED
        BY <1>1, <2>1, <3>1, <4>1
    <3>4. CASE Reads(s, t) = {}
      <4>1. First(s, t) = bar /\ Stored(s, t) = {}
        BY <1>3, <1>4, <2>2, <3>1, <3>4
      <4> QED
        BY <3>2, <3>3, <4>1
    <3>5. CASE Reads(s, t) # {}
      <4>1. Stored(s, t) = {FirstRead(s, t)} /\ First(s, t) = FirstRead(s, t)
        BY <1>3, <1>4, <2>2, <3>5
      <4> QED
        BY <3>2, <3>3, <4>1
    <3> QED
      BY <3>4, <3>5
  <2>5. Contradictions \subseteq 1..n /\ Contradictions' \subseteq 1..(n + 1)
    BY <1>0, <1>1, <2>1 DEF Contradictions
  <2>6. \A i : i \in Contradictions' <=> i \in Contradictions \/ (i = n + 1 /\ Conflicts(bar))
    <3>1. n + 1 \notin 1..n
      BY <1>0
    <3> QED
      BY <1>2, <2>3, <2>4, <2>5, <3>1
  <2> QED
    BY <2>6
<1> QED
  BY <1>8, <1>9

\* There are finitely many contradictions, all of them among the bars that were read.
LEMMA ContradictionsAreRead ==
  ASSUME ReadsAreKept
  PROVE  /\ Contradictions \in SUBSET (1..Len(read)) /\ IsFiniteSet(Contradictions)
         /\ Cardinality(Contradictions) \in Nat
<1>1. Len(read) \in Nat /\ DOMAIN read = 1..Len(read)
  BY SeqOfItsElements DEF ReadsAreKept
<1>2. Contradictions \in SUBSET (1..Len(read))
  BY <1>1 DEF Contradictions
<1>3. IsFiniteSet(1..Len(read))
  <2>1. 1 \in Int /\ Len(read) \in Int
    BY <1>1
  <2> QED
    BY <2>1, FS_Interval
<1>4. IsFiniteSet(Contradictions)
  BY <1>2, <1>3, FS_Subset
<1> QED
  BY <1>2, <1>4, FS_CardinalityType

LEMMA SaveKeepsIngest ==
  ASSUME IngestInv, NEW bar, ValidBar(bar), SaveRead(bar), progress # "conflict",
         UNCHANGED duplicatePolicy
  PROVE  IngestInv'
<1>1. ReadsAreKept /\ repository' = Saved(bar) /\ read' = Append(read, bar)
  BY DEF IngestInv, SaveRead
<1>2. /\ ReadsAreKept'
      /\ Contradictions' = IF Conflicts(bar) THEN Contradictions \cup {Len(read) + 1}
                           ELSE Contradictions
  BY <1>1, SaveKeepsReads
<1>3. /\ Contradictions \in SUBSET (1..Len(read)) /\ IsFiniteSet(Contradictions)
      /\ Cardinality(Contradictions) \in Nat
  BY <1>1, ContradictionsAreRead
<1>4. Len(read) \in Nat /\ Len(read') = Len(read) + 1
  BY <1>1, AppendedElements DEF ReadsAreKept
<1>5. Len(read) + 1 \notin Contradictions
  BY <1>3, <1>4
<1>6. Conflicts(bar) => Cardinality(Contradictions') = Cardinality(Contradictions) + 1
  BY <1>2, <1>3, <1>5, FS_AddElement
<1>7. quarantined \in Seq(ToSet(quarantined))
  BY DEF IngestInv, ContradictionsAreKept
<1>8. CASE ~Conflicts(bar)
  BY <1>2, <1>8 DEF IngestInv, ContradictionsAreKept, SaveRead
<1>9. CASE Conflicts(bar) /\ duplicatePolicy = "RAISE"
  <2>1. progress' = "conflict" /\ UNCHANGED quarantined
    BY <1>9 DEF SaveRead
  <2> QED
    BY <1>2, <1>4, <1>9, <2>1 DEF IngestInv, ContradictionsAreKept
<1>10. CASE Conflicts(bar) /\ duplicatePolicy # "RAISE"
  <2>1. PICK x : quarantined' = Append(quarantined, x)
    BY <1>10 DEF SaveRead
  <2>2. quarantined' \in Seq(ToSet(quarantined')) /\ Len(quarantined') = Len(quarantined) + 1
    BY <1>7, <2>1, AppendedElements
  <2>3. progress' = progress
    BY <1>10 DEF SaveRead
  <2> QED
    BY <1>2, <1>6, <1>10, <2>2, <2>3 DEF IngestInv, ContradictionsAreKept
<1> QED
  BY <1>8, <1>9, <1>10

LEMMA IngestBegins == IngestInit => IngestInv
<1> SUFFICES ASSUME IngestInit PROVE IngestInv
  OBVIOUS
<1>1. read = <<>> /\ quarantined = <<>> /\ repository = {} /\ progress = "idle"
  BY DEF IngestInit
<1>2. ToSet(<<>>) = {} /\ DOMAIN <<>> = {} /\ <<>> \in Seq({}) /\ Len(<<>>) = 0
  BY DEF ToSet
<1>3. ReadsAreKept
  BY <1>1, <1>2, FS_EmptySet DEF ReadsAreKept
<1>4. Contradictions = {}
  BY <1>1, <1>2 DEF Contradictions
<1>5. Cardinality(Contradictions) = 0
  BY <1>4, FS_EmptySet
<1> QED
  BY <1>1, <1>2, <1>3, <1>5 DEF IngestInv, ContradictionsAreKept

\* What does not touch the bars keeps the invariant.
LEMMA OthersKeepIngest ==
  ASSUME IngestInv, UNCHANGED <<duplicatePolicy, repository, quarantined, read>>,
         progress' # "conflict" \/ UNCHANGED progress
  PROVE  IngestInv'
<1>1. ReadsAreKept'
  BY DEF IngestInv, ReadsAreKept, Stored, FirstRead, Reads, KeyOf
<1>2. Contradictions' = Contradictions
  BY DEF Contradictions, FirstRead, Reads, KeyOf
<1> QED
  BY <1>1, <1>2 DEF IngestInv, ContradictionsAreKept

LEMMA IngestStepKeeps == IngestInv /\ [IngestNext]_ingestVars => IngestInv'
<1> SUFFICES ASSUME IngestInv, [IngestNext]_ingestVars PROVE IngestInv'
  OBVIOUS
<1>1. ASSUME NEW call \in Calls, Call(call) PROVE IngestInv'
  BY <1>1, OthersKeepIngest DEF Call
<1>2. CASE FetchRows
  BY <1>2, OthersKeepIngest DEF FetchRows
<1>3. CASE TakeRow
  <2> DEFINE row == Head(rows)
  <2>1. CASE Accepted(row) /\ InWindow(BarRead(row))
    <3>1. SaveRead(BarRead(row)) /\ UNCHANGED duplicatePolicy /\ progress # "conflict"
      BY <1>3, <2>1 DEF TakeRow
    <3>2. ValidBar(BarRead(row))
      BY <2>1 DEF Accepted, Normalizes, BarRead
    <3> QED
      BY <3>1, <3>2, SaveKeepsIngest
  <2>2. CASE ~(Accepted(row) /\ InWindow(BarRead(row)))
    BY <1>3, <2>2, OthersKeepIngest DEF TakeRow
  <2> QED
    BY <2>1, <2>2
<1>4. CASE CountRow
  BY <1>4, OthersKeepIngest DEF CountRow
<1>5. CASE EndCall
  BY <1>5, OthersKeepIngest DEF EndCall
<1>6. CASE TimePasses
  BY <1>6, OthersKeepIngest DEF TimePasses
<1>7. CASE UNCHANGED ingestVars
  BY <1>7, OthersKeepIngest DEF ingestVars
<1> QED
  BY <1>1, <1>2, <1>3, <1>4, <1>5, <1>6, <1>7 DEF IngestNext

LEMMA IngestInvariant == IngestSpec => []IngestInv
  BY IngestBegins, IngestStepKeeps, PTL DEF IngestSpec

\* Of a symbol, the repository has one bar for each time at most.
LEMMA StoredOnce ==
  ASSUME ReadsAreKept, NEW b \in repository, NEW c \in repository,
         b.symbol = c.symbol, b.time = c.time
  PROVE  b = c
<1>1. b \in ToSet(read)
  BY DEF ReadsAreKept
<1>2. Stored(b.symbol, b.time) = {FirstRead(b.symbol, b.time)}
  BY <1>1 DEF ReadsAreKept
<1>3. b \in Stored(b.symbol, b.time) /\ c \in Stored(b.symbol, b.time)
  BY DEF Stored
<1> QED
  BY <1>2, <1>3

\* A replay is in order, its bars are valid, and what it lacks query_missing tells.
LEMMA ReplayIsInOrder ==
  ASSUME ReadsAreKept, NEW s
  PROVE  LET replayed == ReadBars(s, 0, LastNow) IN
         /\ QueryMissing(s, 0..LastNow) = (0..LastNow) \ {b.time : b \in ToSet(replayed)}
         /\ \A i \in DOMAIN replayed : ValidBar(replayed[i])
         /\ \A i \in 1..(Len(replayed) - 1) : replayed[i].time < replayed[i + 1].time
<1> PICK B : B = {b \in repository : b.symbol = s /\ b.time \in 0..LastNow}
  OBVIOUS
<1> PICK replayed : replayed = ReadBars(s, 0, LastNow)
  OBVIOUS
<1>1. replayed = ByTime(B)
  BY DEF ReadBars
<1>2. IsFiniteSet(B)
  <2>1. IsFiniteSet(repository) /\ B \subseteq repository
    BY DEF ReadsAreKept
  <2> QED
    BY <2>1, FS_Subset
<1>3. \A b \in B : b.time \in Int
  <2>1. \A t \in 0..LastNow : t \in Int
    BY IngestAssumption
  <2> QED
    BY <2>1
<1>4. \A b, c \in B : b.time = c.time => b = c
  BY StoredOnce
<1>5. PICK n \in Nat : TimeOrdered(replayed, B, n)
  <2>1. \E n \in Nat : TimeOrdered(ByTime(B), B, n)
    BY <1>2, <1>3, <1>4, ByTimeProperties
  <2> QED
    BY <1>1, <2>1
<1>6. DOMAIN replayed = 1..n /\ Len(replayed) = n
  BY <1>5, LenProperties DEF TimeOrdered
<1>7. ToSet(replayed) = B
  <2>1. ToSet(replayed) = {replayed[i] : i \in 1..n}
    BY <1>6 DEF ToSet
  <2> QED
    BY <1>5, <2>1 DEF TimeOrdered
<1>8. QueryMissing(s, 0..LastNow) = (0..LastNow) \ {b.time : b \in ToSet(replayed)}
  <2>1. \A t \in 0..LastNow : Stored(s, t) = {} <=> ~\E b \in B : b.time = t
    BY DEF Stored
  <2> QED
    BY <1>7, <2>1 DEF QueryMissing
<1>9. \A i \in DOMAIN replayed : ValidBar(replayed[i])
  <2>1. \A b \in B : ValidBar(b)
    BY DEF ReadsAreKept
  <2> QED
    BY <1>5, <1>6, <2>1 DEF TimeOrdered
<1>10. ASSUME NEW i \in 1..(Len(replayed) - 1) PROVE replayed[i].time < replayed[i + 1].time
  <2>1. i \in 1..n /\ i + 1 \in 1..n /\ i < i + 1
    BY <1>6
  <2> QED
    BY <1>5, <2>1 DEF TimeOrdered
<1> QED
  BY <1>8, <1>9, <1>10

\* Of the bars of a sequence ByKey takes one with the key.
LEMMA ByKeyIsThere ==
  ASSUME NEW S, NEW bars \in Seq(S), NEW key, \E i \in DOMAIN bars : KeyOf(bars[i]) = key
  PROVE  \E i \in 1..Len(bars) : KeyOf(bars[i]) = key /\ ByKey(bars, key) = bars[i]
<1> DEFINE P == {i \in DOMAIN bars : KeyOf(bars[i]) = key}
<1>1. Len(bars) \in Nat /\ DOMAIN bars = 1..Len(bars)
  OBVIOUS
<1>2. P \in SUBSET Int /\ P \in SUBSET (1..Len(bars)) /\ P # {}
  BY <1>1
<1>3. IsFiniteSet(P)
  <2>1. IsFiniteSet(1..Len(bars))
    BY <1>1, FS_Interval
  <2> HIDE DEF P
  <2> QED
    BY <1>2, <2>1, FS_Subset
<1>4. Max(P) \in P
  <2> HIDE DEF P
  <2> QED
    BY <1>2, <1>3, ExtremesExist
<1>5. ByKey(bars, key) = bars[Max(P)]
  BY DEF ByKey
<1> QED
  BY <1>1, <1>4, <1>5

\* The reconciler finds nothing but contradictions.
LEMMA IssuesAreContradictions ==
  ASSUME ReadsAreKept, NEW issue \in Issues(SetToSeq(repository), read)
  PROVE  issue.type = "MISMATCH" /\ \E i \in Contradictions : KeyOf(read[i]) = issue.key
<1> PICK left : left = SetToSeq(repository)
  OBVIOUS
<1>1. /\ left \in Seq(repository) /\ DOMAIN left = 1..Len(left)
      /\ \A i \in DOMAIN left : left[i] \in repository
      /\ \A b \in repository : \E i \in DOMAIN left : left[i] = b
  <2>1. IsFiniteSet(repository)
    BY DEF ReadsAreKept
  <2> PICK n : n = Cardinality(repository)
    OBVIOUS
  <2>2. /\ left \in [1..n -> repository] /\ n \in Nat
        /\ \A b \in repository : \E i \in 1..n : left[i] = b
    BY <2>1, SetToSeqProperties
  <2>3. left \in Seq(repository)
    BY <2>2, SeqDef
  <2> QED
    BY <2>2, <2>3
<1>2. /\ read \in Seq(ToSet(read)) /\ DOMAIN read = 1..Len(read)
      /\ \A i \in DOMAIN read : read[i] \in ToSet(read)
      /\ \A b \in ToSet(read) : \E i \in DOMAIN read : read[i] = b
  BY SeqOfItsElements DEF ReadsAreKept
<1> DEFINE L == {KeyOf(left[i]) : i \in DOMAIN left}
           R == {KeyOf(read[i]) : i \in DOMAIN read}
<1>3. \A b \in ToSet(read) : FirstRead(b.symbol, b.time) \in repository
  <2> SUFFICES ASSUME NEW b \in ToSet(read) PROVE FirstRead(b.symbol, b.time) \in repository
    OBVIOUS
  <2>1. Stored(b.symbol, b.time) = {FirstRead(b.symbol, b.time)}
    BY DEF ReadsAreKept
  <2> QED
    BY <2>1 DEF Stored
<1>4. \A b \in ToSet(read) : KeyOf(FirstRead(b.symbol, b.time)) = KeyOf(b)
  <2> SUFFICES ASSUME NEW b \in ToSet(read) PROVE KeyOf(FirstRead(b.symbol, b.time)) = KeyOf(b)
    OBVIOUS
  <2>1. Stored(b.symbol, b.time) = {FirstRead(b.symbol, b.time)}
    BY DEF ReadsAreKept
  <2>2. FirstRead(b.symbol, b.time) \in Stored(b.symbol, b.time)
    BY <2>1
  <2> QED
    BY <2>2 DEF Stored, KeyOf
<1>5. R \subseteq L
  <2> SUFFICES ASSUME NEW i \in DOMAIN read PROVE KeyOf(read[i]) \in L
    OBVIOUS
  <2>1. PICK f : f \in repository /\ KeyOf(f) = KeyOf(read[i])
    BY <1>2, <1>3, <1>4
  <2>2. PICK j \in DOMAIN left : left[j] = f
    BY <1>1, <2>1
  <2> QED
    BY <2>1, <2>2
<1>6. L \subseteq R
  <2> SUFFICES ASSUME NEW i \in DOMAIN left PROVE KeyOf(left[i]) \in R
    OBVIOUS
  <2>1. left[i] \in ToSet(read)
    BY <1>1 DEF ReadsAreKept
  <2>2. PICK j \in DOMAIN read : read[j] = left[i]
    BY <1>2, <2>1
  <2> QED
    BY <2>2
<1> DEFINE Compared(bars, key) == [ByKey(bars, key).content EXCEPT !.status = "UNKNOWN"]
<1>7. Issues(left, read) = {[type |-> "MISSING_LEFT", key |-> k] : k \in R \ L}
                           \cup {[type |-> "MISSING_RIGHT", key |-> k] : k \in L \ R}
                           \cup {[type |-> "MISMATCH", key |-> k] : k \in
                                   {k \in L \cap R : Compared(left, k) # Compared(read, k)}}
  BY DEF Issues
<1> HIDE DEF L, R
<1>8. PICK k \in L \cap R : /\ issue = [type |-> "MISMATCH", key |-> k]
                            /\ Compared(left, k) # Compared(read, k)
  <2> HIDE DEF Compared
  <2>1. R \ L = {} /\ L \ R = {}
    BY <1>5, <1>6
  <2>2. issue \in {[type |-> "MISMATCH", key |-> k] : k \in
                    {k \in L \cap R : Compared(left, k) # Compared(read, k)}}
    BY <1>7, <2>1
  <2> QED
    BY <2>2
<1>9. ByKey(left, k).content # ByKey(read, k).content
  BY <1>8
<1>10. PICK i \in 1..Len(left) : KeyOf(left[i]) = k /\ ByKey(left, k) = left[i]
  <2>1. \E i \in DOMAIN left : KeyOf(left[i]) = k
    BY <1>8 DEF L
  <2> QED
    BY <1>1, <2>1, ByKeyIsThere
<1>11. PICK j \in 1..Len(read) : KeyOf(read[j]) = k /\ ByKey(read, k) = read[j]
  <2>1. \E j \in DOMAIN read : KeyOf(read[j]) = k
    BY <1>8 DEF R
  <2> QED
    BY <1>2, <2>1, ByKeyIsThere
<1>12. left[i] = FirstRead(read[j].symbol, read[j].time)
  <2>1. left[i] \in repository /\ read[j] \in ToSet(read)
    BY <1>1, <1>2
  <2>2. left[i].symbol = read[j].symbol /\ left[i].time = read[j].time
    BY <1>10, <1>11 DEF KeyOf
  <2>3. left[i] \in Stored(read[j].symbol, read[j].time)
    BY <2>1, <2>2 DEF Stored
  <2>4. Stored(read[j].symbol, read[j].time) = {FirstRead(read[j].symbol, read[j].time)}
    BY <2>1 DEF ReadsAreKept
  <2> QED
    BY <2>3, <2>4
<1>13. j \in Contradictions
  BY <1>2, <1>9, <1>10, <1>11, <1>12 DEF Contradictions
<1> QED
  BY <1>8, <1>11, <1>13

\* MarketIngest.FirstReadIsKept, for any rows, calls and clock: the repository keeps
\* the first closed bar of each key, whatever comes later; what contradicts it is in
\* the quarantine or has ended the call; replays and query_missing agree; and the
\* reconciler finds only what is in the quarantine or has ended the call.
THEOREM FirstReadsAreKept == IngestSpec => []FirstReadIsKept
<1>1. IngestInv => FirstReadIsKept
  <2> SUFFICES ASSUME IngestInv PROVE FirstReadIsKept
    OBVIOUS
  <2>0. ReadsAreKept
    BY DEF IngestInv
  <2>1. \A s, t : Stored(s, t) = IF Reads(s, t) = {} THEN {} ELSE {FirstRead(s, t)}
    BY <2>0, StoredIsFirst
  <2>2. \A s : LET replayed == ReadBars(s, 0, LastNow) IN
         /\ QueryMissing(s, 0..LastNow) = (0..LastNow) \ {b.time : b \in ToSet(replayed)}
         /\ \A i \in DOMAIN replayed : ValidBar(replayed[i])
         /\ \A i \in 1..(Len(replayed) - 1) : replayed[i].time < replayed[i + 1].time
    BY <2>0, ReplayIsInOrder
  <2>3. \A issue \in Issues(SetToSeq(repository), read) :
          issue.type = "MISMATCH" /\ \E i \in Contradictions : KeyOf(read[i]) = issue.key
    BY <2>0, IssuesAreContradictions
  <2>4. /\ Len(quarantined) = IF duplicatePolicy = "RAISE" THEN 0 ELSE Cardinality(Contradictions)
        /\ progress = "conflict" => duplicatePolicy = "RAISE" /\ Len(read) \in Contradictions
    BY DEF IngestInv, ContradictionsAreKept
  <2> QED
    BY <2>1, <2>2, <2>3, <2>4, Zenon DEF FirstReadIsKept
<1> QED
  BY <1>1, IngestInvariant, PTL
============================================================================
