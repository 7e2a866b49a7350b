----------------------------- MODULE RunSpec -----------------------------
(***************************************************************************)
(* A BacktestRunSpec as the commands see it: what the loader accepts, what  *)
(* is hashed of it, and the manifest that tells of its run.  A spec file is *)
(* a record; strings, times and Decimals are values.  SHA-256 is injective. *)
(***************************************************************************)
EXTENDS Integers, SequencesExt

CONSTANTS
  Empty,      \* the empty string
  NoTime,     \* a time that is not given
  Unparsable  \* a file that is no YAML of a spec

IdentityField == {"id", "strategy", "version", "params", "universe",
                  "universeVersion", "feature"}

SpecField == {"runId", "mode", "from", "to", "source", "asOf", "paths", "cost",
              "bindings", "outputDir"}

\* A spec and its bindings have their fields.
WellFormed(s) ==
  /\ DOMAIN s = SpecField
  /\ Len(s.bindings) \in Nat /\ DOMAIN s.bindings = 1..Len(s.bindings)
  /\ \A i \in DOMAIN s.bindings :
       DOMAIN s.bindings[i] = IdentityField \cup {"weight", "from", "to", "cost"}

\* StrategyBinding.validate
ValidBinding(b) ==
  /\ \A f \in IdentityField : b[f] # Empty
  /\ b.weight >= 0
  /\ b.from = NoTime \/ b.to = NoTime \/ b.from < b.to

\* _post_init_validation; the timeframe is a known one.
ValidSpec(s) ==
  /\ s.from # NoTime /\ s.to # NoTime /\ s.from < s.to
  /\ s.bindings # <<>>

\* from_yaml: every error becomes a BacktestRunSpecValidationError.
Loads(text) ==
  /\ text # Unparsable
  /\ \A i \in DOMAIN text.bindings : ValidBinding(text.bindings[i])
  /\ ValidSpec(text)

\* Mutant of ResolvedHash: the data source is not hashed.
HashWithoutSource(s) ==
  [s EXCEPT !.runId = Empty, !.outputDir = Empty, !.paths = Empty, !.source = Empty,
            !.bindings = [i \in DOMAIN @ |-> [@[i] EXCEPT !.cost = Empty]]]

\* compute_resolved_hash: the run_id, where the output goes, where the market
\* data comes from and the binding's own cost model are not hashed.
ResolvedHash(s) ==
  [s EXCEPT !.runId = Empty, !.outputDir = Empty, !.paths = Empty,
            !.bindings = [i \in DOMAIN @ |-> [@[i] EXCEPT !.cost = Empty]]]

\* run_id of the result: made of the hash if none is given.
RunIdOf(s) == IF s.runId = Empty THEN <<"run_", ResolvedHash(s)>> ELSE <<"given", s.runId>>

-----------------------------------------------------------------------------
(* Manifests *)

\* ManifestBuilder: what is there before the setters are called; what they set is
\* empty.
StartedManifest(runId) ==
  [runId |-> runId, mode |-> "backtest", status |-> "failed", artifacts |-> {},
   hash |-> Empty, strategies |-> {}, features |-> {}, source |-> Empty, asOf |-> Empty,
   cost |-> Empty, from |-> NoTime, to |-> NoTime, bars |-> 0, signals |-> 0]

VersionsOf(s, field) == {s.bindings[i][field] : i \in DOMAIN s.bindings}

SetConfigSnapshot(m, hash) == [m EXCEPT !.hash = hash]

SetVersions(m, s) ==
  [m EXCEPT !.strategies = VersionsOf(s, "version"), !.features = VersionsOf(s, "feature"),
            !.source = s.source, !.asOf = s.asOf, !.cost = s.cost]

SetDataRange(m, s) == [m EXCEPT !.from = s.from, !.to = s.to]

SetStatistics(m, bars, produced) == [m EXCEPT !.bars = bars, !.signals = produced]

\* finalize
Finalized(m, status) == [m EXCEPT !.status = status]

\* _build_manifest, of a run on the bars that the command has: none.
BuiltManifest(s) ==
  LET configured == SetConfigSnapshot([StartedManifest(RunIdOf(s)) EXCEPT !.mode = s.mode],
                                      ResolvedHash(s)) IN
  Finalized(SetStatistics(SetDataRange(SetVersions(configured, s), s), 0, 0), "success")

\* _record_artifacts: the manifest, and not the trace.
WithArtifacts(m) == [m EXCEPT !.artifacts = {"manifest"}]

\* diff_dicts of the _manifest_summary of each.
Differences(m, n) == {f \in DOMAIN m \ {"artifacts"} : m[f] # n[f]}

\* compare
Comparable(m, n) == "hash" \notin Differences(m, n)

\* validate: the required fields that can be empty.  build_artifact_set
\* leaves out the manifest, and no other artifact is ever recorded.
Validated(m) == \A f \in {"source", "asOf"} : m[f] # Empty
==========================================================================
