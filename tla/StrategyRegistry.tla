-------------------------- MODULE StrategyRegistry --------------------------
(***************************************************************************)
(* StrategyRegistry and the VersionRegistry that it freezes identities in.  *)
(* Several registries may share one VersionRegistry, which may also be      *)
(* called directly.  A call takes the lock of its registry; one that is     *)
(* refused (DuplicateStrategyError, DuplicateStrategyFreezeError,           *)
(* SchemaError) or repeats what is there changes nothing, and is no step.   *)
(*                                                                         *)
(* Where the parameters come from (mapping, JSON, YAML file) does not       *)
(* matter: a payload is a function from names to raw values.                *)
(***************************************************************************)
EXTENDS ParamSchema

CONSTANTS
  Registry,     \* the StrategyRegistry objects
  Class,        \* strategy classes
  Name,         \* strategy names
  Version,      \* strategy_versions
  Code,         \* code_versions
  NameOf,       \* name of an instance of each class
  Defaults,     \* identity of cls() for each class
  Schema,       \* param_schema of each class
  Payload,      \* payloads that are not empty mappings
  NoParams,     \* no parameters, or an empty mapping
  NoVersion,    \* strategy_version or code_version is not given
  Absent        \* nothing is frozen or registered under a name

\* What validate makes of the payloads that a class accepts.
Params(c) == {Validated(Schema[c], p) : p \in {q \in Payload : Valid(Schema[c], q)}}

\* The parameter_hashes there are: those written in the classes, and computed ones.
Hash == {Defaults[c].hash : c \in Class}
          \cup UNION {{ParameterHash(p) : p \in Params(c)} : c \in Class}

\* What VersionRegistry compares.
Identity == [version : Version, code : Code, hash : Hash]

ASSUME RegistryAssumption ==
  /\ NameOf \in [Class -> Name]
  /\ \A c \in Class : /\ Defaults[c] = [version |-> Defaults[c].version,
                                         code |-> Defaults[c].code, hash |-> Defaults[c].hash]
                       /\ Defaults[c].version \in Version /\ Defaults[c].code \in Code
                       /\ IsSchema(Schema[c])
  /\ \A c \in Class : NoParams \notin Params(c)
  /\ NoVersion \notin Version \cup Code
  /\ Absent \notin Identity

VARIABLES
  frozen,        \* _frozen_strategies of the VersionRegistry
  registrations  \* _registrations of each registry

registryVars == <<frozen, registrations>>

\* StrategySpec (but for its name) with the class and the parameters.
Registration ==
  UNION {[class : {c}, params : Params(c) \cup {NoParams}, identity : Identity] : c \in Class}

ASSUME AbsentAssumption == Absent \notin Registration

RegistryTypeOK ==
  /\ frozen \in [Name -> Identity \cup {Absent}]
  /\ registrations \in [Registry -> [Name -> Registration \cup {Absent}]]

RegistryInit ==
  /\ frozen = [n \in Name |-> Absent]
  /\ registrations = [r \in Registry |-> [n \in Name |-> Absent]]

-----------------------------------------------------------------------------

\* freeze_strategy: the first identity of a name, or the same again.
CanFreeze(n, id) == frozen[n] \in {Absent, id}

\* The identity that register puts in the StrategySpec: overrides, or what the
\* instance cls() says.
SpecIdentity(c, p, v, k) ==
  [version |-> IF v = NoVersion THEN Defaults[c].version ELSE v,
   code |-> IF k = NoVersion THEN Defaults[c].code ELSE k,
   hash |-> IF p = NoParams THEN Defaults[c].hash ELSE ParameterHash(p)]

\* freeze_strategy called by its own.
Freeze(n, id) ==
  /\ CanFreeze(n, id)
  /\ frozen' = [frozen EXCEPT ![n] = id]
  /\ UNCHANGED registrations

\* load_params: None and an empty mapping are no overrides; an empty text or
\* file is a payload without fields, and gives the defaults.
Loaded(c, payload) == IF payload = NoParams THEN NoParams ELSE Validated(Schema[c], payload)

\* register(cls, params, strategy_version, code_version), of a name that the
\* registry does not have yet.
Register(r, c, payload, v, k) ==
  LET n == NameOf[c]
      p == Loaded(c, payload)
      id == SpecIdentity(c, p, v, k) IN
  /\ payload # NoParams => Valid(Schema[c], payload)
  /\ registrations[r][n] = Absent
  /\ CanFreeze(n, id)
  /\ frozen' = [frozen EXCEPT ![n] = id]
  /\ registrations' = [registrations EXCEPT ![r][n] =
                         [class |-> c, params |-> p, identity |-> id]]

RegistryNext ==
  \/ \E n \in Name, id \in Identity : Freeze(n, id)
  \/ \E r \in Registry, c \in Class, payload \in Payload \cup {NoParams},
        v \in Version \cup {NoVersion}, k \in Code \cup {NoVersion} :
       Register(r, c, payload, v, k)

RegistrySpec == RegistryInit /\ [][RegistryNext]_registryVars

-----------------------------------------------------------------------------

\* A StrategyRuntime: its class, the parameters that it runs with and what its
\* candidates say of it.  cls() has the defaults of the schema.
Plain(c) ==
  [class |-> c, params |-> Validated(Schema[c], <<>>), identity |-> Defaults[c]]

\* from_params: the parameters are validated, and hashed, once more.
FromParams(c, p, v, k) ==
  LET resolved == Validated(Schema[c], p) IN
  [class |-> c, params |-> resolved,
   identity |-> [version |-> v, code |-> k, hash |-> ParameterHash(resolved)]]

\* Mutant of Get: from_params is not given the version of the spec.
GetOfDefaultVersion(r, n) ==
  LET found == registrations[r][n] IN
    IF found.params = NoParams THEN Plain(found.class)
    ELSE FromParams(found.class, found.params, Defaults[found.class].version,
                    found.identity.code)

\* get: from_params with the versions of the spec, but cls() when there are no
\* parameters, whatever versions were registered.
Get(r, n) ==
  LET found == registrations[r][n] IN
    IF found.params = NoParams THEN Plain(found.class)
    ELSE FromParams(found.class, found.params, found.identity.version, found.identity.code)

\* is_strategy_frozen: a name that is not there has no identity.
IsStrategyFrozen(n, id) == n \in DOMAIN frozen /\ frozen[n] # Absent /\ frozen[n] = id

IsFrozen(i) == IsStrategyFrozen(NameOf[i.class], i.identity)

\* The version overrides of a registration are in force: it has parameters,
\* or overrides nothing.
OverridesApply(r, n) ==
  LET found == registrations[r][n] IN
    found.params # NoParams \/ found.identity = Defaults[found.class]

-----------------------------------------------------------------------------

\* IF a registry has a strategy THEN the identity of its spec is the one that is
\* frozen for the name, and what get builds has that identity too, unless it was
\* registered with another version but no parameters: SignalService accepts what
\* the instance proposes, although get validates and hashes the parameters again.
RegisteredIsFrozen ==
  \A r \in Registry, n \in Name :
    registrations[r][n] # Absent =>
      /\ frozen[n] = registrations[r][n].identity
      /\ OverridesApply(r, n) => IsFrozen(Get(r, n))

\* Once frozen, the identity of a name never changes, and what is registered
\* stays as it is, so that signals of two runs under one identity compare.
FrozenForever ==
  [][/\ \A n \in Name : frozen[n] # Absent => frozen'[n] = frozen[n]
     /\ \A r \in Registry, n \in Name :
          registrations[r][n] # Absent => registrations'[r][n] = registrations[r][n]
    ]_registryVars
=============================================================================
