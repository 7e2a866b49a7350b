------------------------- MODULE ResearchRun_proofs -------------------------
(***************************************************************************)
(* What TLAPS proves of StrategyRegistry, StrategyComposer and ResearchRun.  *)
(*   Registries: for any classes, schemas, payloads and versions.  The core  *)
(* is that validation is idempotent: get validates and hashes the parameters *)
(* once more, and the instance must still have the identity that was frozen. *)
(* What the registries promise carries over to the signals that are stored,  *)
(* because an identity that the signal service has seen frozen stays so.     *)
(*   Decisions: for any composer of the shipped strategies, and any bars.    *)
(* What each policy makes of the candidates depends on their directions and  *)
(* on the order of the runtimes that they come from.                         *)
(*   Runs: for any calls of run_bars.  The engine has seen, and the          *)
(* repository holds what is called for by, the bars of the latest call that  *)
(* are not in its queue any more.                                            *)
(***************************************************************************)
EXTENDS ResearchRun, SumLemmas

-----------------------------------------------------------------------------
(* Registries: the inductive invariant *)

\* What is registered under a name is of a class of that name, has the identity
\* that is frozen for it, and parameters that validation leaves alone.
RegistrationsAgree ==
  \A r \in Registry, n \in Name :
    LET found == registrations[r][n] IN
    found # Absent =>
      /\ NameOf[found.class] = n
      /\ frozen[n] = found.identity
      /\ found.params # NoParams =>
           /\ found.identity.hash = ParameterHash(found.params)
           /\ Validated(Schema[found.class], found.params) = found.params

RegistryInv == RegistryTypeOK /\ RegistrationsAgree

-----------------------------------------------------------------------------
(* Registries: lemmas *)

\* What coerce returns it leaves alone.
LEMMA CoercedTwice ==
  ASSUME NEW field, NEW raw, field.default.type = field.type, Coercible(field, raw)
  PROVE  Coerce(field, Coerce(field, raw)) = Coerce(field, raw)
<1> DEFINE value == Coerce(field, raw)
<1>1. CASE raw.type = "None"
  <2>1. value = field.default
    BY <1>1 DEF Coerce
  <2>2. IsInstance(value, field.type)
    BY <2>1 DEF IsInstance
  <2> QED
    BY <2>1, <2>2 DEF Coerce
<1>2. CASE raw.type # "None" /\ IsInstance(raw, field.type)
  BY <1>2 DEF Coerce
<1>3. CASE raw.type # "None" /\ ~IsInstance(raw, field.type)
  <2>1. value = Converted(field.type, raw)
    BY <1>3 DEF Coerce
  <2>2. field.type \in {"int", "float", "bool", "str"}
    BY <1>3 DEF Coercible
  <2>3. value.type = field.type
    BY <2>1, <2>2 DEF Converted, Value
  <2>4. value.type # "None" /\ IsInstance(value, field.type)
    BY <2>2, <2>3 DEF IsInstance
  <2> QED
    BY <2>4 DEF Coerce
<1> QED
  BY <1>1, <1>2, <1>3

\* validate leaves alone what it returns.
LEMMA ValidatedTwice ==
  ASSUME NEW schema, NEW payload, IsSchema(schema), Valid(schema, payload)
  PROVE  Validated(schema, Validated(schema, payload)) = Validated(schema, payload)
<1> DEFINE once == Validated(schema, payload)
<1>1. DOMAIN once = DOMAIN schema
  BY DEF Validated
<1>2. ASSUME NEW f \in DOMAIN schema
      PROVE  Coerce(schema[f], once[f]) = once[f]
  <2>1. schema[f].default.type = schema[f].type
    BY DEF IsSchema
  <2>2. CASE f \in DOMAIN payload
    <3>1. once[f] = Coerce(schema[f], payload[f])
      BY <2>2 DEF Validated
    <3>2. Coercible(schema[f], payload[f])
      BY <2>2 DEF Valid
    <3> QED
      BY <2>1, <3>1, <3>2, CoercedTwice
  <2>3. CASE f \notin DOMAIN payload
    <3>1. once[f] = schema[f].default
      BY <2>3 DEF Validated
    <3>2. IsInstance(once[f], schema[f].type)
      BY <2>1, <3>1 DEF IsInstance
    <3> QED
      BY <3>1, <3>2 DEF Coerce
  <2> QED
    BY <2>2, <2>3
<1>3. Validated(schema, once) = [f \in DOMAIN schema |-> Coerce(schema[f], once[f])]
  BY <1>1 DEF Validated
<1>4. once = [f \in DOMAIN schema |-> once[f]]
  BY DEF Validated
<1> QED
  BY <1>2, <1>3, <1>4

\* The parameters of a registration are those that its class accepts.
LEMMA LoadedParams ==
  ASSUME NEW c \in Class, NEW payload \in Payload \cup {NoParams},
         payload # NoParams => Valid(Schema[c], payload)
  PROVE  /\ Loaded(c, payload) \in Params(c) \cup {NoParams}
         /\ Loaded(c, payload) # NoParams =>
              Validated(Schema[c], Loaded(c, payload)) = Loaded(c, payload)
<1>1. CASE payload = NoParams
  BY <1>1 DEF Loaded
<1>2. CASE payload # NoParams
  <2>1. Loaded(c, payload) = Validated(Schema[c], payload)
    BY <1>2 DEF Loaded
  <2>2. Loaded(c, payload) \in Params(c)
    BY <1>2, <2>1 DEF Params
  <2>3. IsSchema(Schema[c])
    BY RegistryAssumption
  <2> QED
    BY <1>2, <2>1, <2>2, <2>3, ValidatedTwice
<1> QED
  BY <1>1, <1>2

\* register only asks for identities that VersionRegistry knows of.
LEMMA SpecIdentityType ==
  ASSUME NEW c \in Class, NEW p \in Params(c) \cup {NoParams},
         NEW v \in Version \cup {NoVersion}, NEW k \in Code \cup {NoVersion}
  PROVE  SpecIdentity(c, p, v, k) \in Identity
<1>1. Defaults[c].version \in Version /\ Defaults[c].code \in Code
  BY RegistryAssumption
<1>2. Defaults[c].hash \in Hash
  BY DEF Hash
<1>3. p # NoParams => ParameterHash(p) \in Hash
  BY DEF Hash
<1> QED
  BY <1>1, <1>2, <1>3 DEF SpecIdentity, Identity

-----------------------------------------------------------------------------
(* Registries: the invariant *)

\* At first nothing is registered.
LEMMA RegistryInitEstablishes == RegistryInit => RegistryInv
BY DEF RegistryInit, RegistryInv, RegistryTypeOK, RegistrationsAgree

\* A freeze leaves the identities of other names, and repeats those there are.
LEMMA FreezePreserves ==
  ASSUME RegistryInv, NEW n \in Name, NEW id \in Identity, Freeze(n, id)
  PROVE  RegistryInv'
<1>1. RegistryTypeOK'
  BY DEF RegistryInv, RegistryTypeOK, Freeze
<1>2. \A m \in Name : frozen[m] # Absent => frozen'[m] = frozen[m]
  BY DEF RegistryInv, RegistryTypeOK, Freeze, CanFreeze
<1>3. \A r \in Registry, m \in Name :
        registrations[r][m] # Absent => frozen[m] # Absent
  BY RegistryAssumption DEF RegistryInv, RegistryTypeOK, RegistrationsAgree, Registration
<1>4. RegistrationsAgree'
  BY <1>2, <1>3 DEF RegistryInv, RegistrationsAgree, Freeze
<1> QED
  BY <1>1, <1>4 DEF RegistryInv

\* A registration freezes its identity, and other names are not touched.
LEMMA RegisterPreserves ==
  ASSUME RegistryInv, NEW r \in Registry, NEW c \in Class,
         NEW payload \in Payload \cup {NoParams}, NEW v \in Version \cup {NoVersion},
         NEW k \in Code \cup {NoVersion}, Register(r, c, payload, v, k)
  PROVE  RegistryInv'
<1> DEFINE n == NameOf[c]
           p == Loaded(c, payload)
           id == SpecIdentity(c, p, v, k)
           new == [class |-> c, params |-> p, identity |-> id]
<1>1. n \in Name
  BY RegistryAssumption
<1>2. /\ p \in Params(c) \cup {NoParams}
      /\ p # NoParams => Validated(Schema[c], p) = p
  BY LoadedParams DEF Register
<1>3. id \in Identity
  BY <1>2, SpecIdentityType
<1>4. new \in Registration
  BY <1>2, <1>3 DEF Registration
<1>5. /\ frozen' = [frozen EXCEPT ![n] = id]
      /\ registrations' = [registrations EXCEPT ![r][n] = new]
      /\ frozen[n] \in {Absent, id}
  BY DEF Register, CanFreeze
<1> HIDE DEF n, p, id, new
<1>6. RegistryTypeOK'
  BY <1>1, <1>3, <1>4, <1>5 DEF RegistryInv, RegistryTypeOK
<1>7. ASSUME NEW q \in Registry, NEW m \in Name, registrations'[q][m] # Absent
      PROVE  LET found == registrations'[q][m] IN
             /\ NameOf[found.class] = m
             /\ frozen'[m] = found.identity
             /\ found.params # NoParams =>
                  /\ found.identity.hash = ParameterHash(found.params)
                  /\ Validated(Schema[found.class], found.params) = found.params
  <2>1. CASE q = r /\ m = n
    <3>1. registrations'[q][m] = new
      BY <1>1, <1>5, <2>1 DEF RegistryInv, RegistryTypeOK
    <3>2. frozen'[m] = id
      BY <1>1, <1>5, <2>1 DEF RegistryInv, RegistryTypeOK
    <3>3. p # NoParams => id.hash = ParameterHash(p)
      BY DEF id, SpecIdentity
    <3>4. new.class = c /\ new.params = p /\ new.identity = id
      BY DEF new
    <3> QED
      BY <1>2, <2>1, <3>1, <3>2, <3>3, <3>4 DEF n
  <2>2. CASE ~(q = r /\ m = n)
    <3>1. registrations'[q][m] = registrations[q][m]
      BY <1>1, <1>5, <2>2 DEF RegistryInv, RegistryTypeOK
    <3>2. registrations[q][m] # Absent /\ frozen[m] = registrations[q][m].identity
      BY <1>7, <3>1 DEF RegistryInv, RegistrationsAgree
    <3>3. frozen[m] # Absent
      BY <3>2, RegistryAssumption DEF RegistryInv, RegistryTypeOK, Registration
    <3>4. frozen'[m] = frozen[m]
      BY <1>1, <1>5, <3>3 DEF RegistryInv, RegistryTypeOK
    <3> QED
      BY <3>1, <3>2, <3>4 DEF RegistryInv, RegistrationsAgree
  <2> QED
    BY <2>1, <2>2
<1>8. RegistrationsAgree'
  BY <1>7 DEF RegistrationsAgree
<1> QED
  BY <1>6, <1>8 DEF RegistryInv

\* Every step preserves the invariant.
LEMMA RegistryStepPreserves ==
  ASSUME RegistryInv, [RegistryNext]_registryVars
  PROVE  RegistryInv'
<1>1. ASSUME NEW n \in Name, NEW id \in Identity, Freeze(n, id)
      PROVE  RegistryInv'
  BY <1>1, FreezePreserves
<1>2. ASSUME NEW r \in Registry, NEW c \in Class, NEW payload \in Payload \cup {NoParams},
             NEW v \in Version \cup {NoVersion}, NEW k \in Code \cup {NoVersion},
             Register(r, c, payload, v, k)
      PROVE  RegistryInv'
  BY <1>2, RegisterPreserves
<1>3. CASE UNCHANGED registryVars
  BY <1>3 DEF registryVars, RegistryInv, RegistryTypeOK, RegistrationsAgree
<1> QED
  BY <1>1, <1>2, <1>3 DEF RegistryNext

\* What get builds of a registration has its identity, IF its version overrides
\* are in force.
LEMMA GetKeepsIdentity ==
  ASSUME RegistryInv, NEW r \in Registry, NEW n \in Name,
         registrations[r][n] # Absent, OverridesApply(r, n)
  PROVE  IsFrozen(Get(r, n))
<1> DEFINE found == registrations[r][n]
<1>0. n \in DOMAIN frozen /\ found.identity # Absent
  BY RegistryAssumption DEF RegistryInv, RegistryTypeOK, Registration
<1>1. /\ NameOf[found.class] = n
      /\ frozen[n] = found.identity
      /\ found.params # NoParams =>
           /\ found.identity.hash = ParameterHash(found.params)
           /\ Validated(Schema[found.class], found.params) = found.params
  BY DEF RegistryInv, RegistrationsAgree
<1>2. CASE found.params = NoParams
  <2>1. Get(r, n).class = found.class /\ Get(r, n).identity = Defaults[found.class]
    BY <1>2 DEF Get, Plain
  <2>2. found.identity = Defaults[found.class]
    BY <1>2 DEF OverridesApply
  <2> QED
    BY <1>0, <1>1, <2>1, <2>2 DEF IsFrozen, IsStrategyFrozen
<1>3. CASE found.params # NoParams
  <2>1. found.identity \in Identity
    BY DEF RegistryInv, RegistryTypeOK, Registration
  <2>2. /\ Get(r, n).class = found.class
        /\ Get(r, n).identity = [version |-> found.identity.version,
                                  code |-> found.identity.code,
                                  hash |-> ParameterHash(found.params)]
    BY <1>1, <1>3 DEF Get, FromParams
  <2>3. Get(r, n).identity = found.identity
    BY <1>1, <1>3, <2>1, <2>2 DEF Identity
  <2> QED
    BY <1>0, <1>1, <2>2, <2>3 DEF IsFrozen, IsStrategyFrozen
<1> QED
  BY <1>2, <1>3

-----------------------------------------------------------------------------
(* Registries: theorems *)

\* The maps of both registries keep their types.
THEOREM RegistryTypeCorrect == RegistrySpec => []RegistryTypeOK
<1>1. RegistryInit => RegistryInv
  BY RegistryInitEstablishes
<1>2. RegistryInv /\ [RegistryNext]_registryVars => RegistryInv'
  BY RegistryStepPreserves
<1>3. RegistryInv => RegistryTypeOK
  BY DEF RegistryInv
<1> QED
  BY <1>1, <1>2, <1>3, PTL DEF RegistrySpec

\* Whatever schemas, payloads and versions there are: a registered strategy has the
\* identity that is frozen for its name, and get builds it with that identity.
THEOREM RegisteredStaysFrozen == RegistrySpec => []RegisteredIsFrozen
<1>1. RegistryInit => RegistryInv
  BY RegistryInitEstablishes
<1>2. RegistryInv /\ [RegistryNext]_registryVars => RegistryInv'
  BY RegistryStepPreserves
<1>3. RegistryInv => RegisteredIsFrozen
  BY GetKeepsIdentity DEF RegistryInv, RegistrationsAgree, RegisteredIsFrozen
<1> QED
  BY <1>1, <1>2, <1>3, PTL DEF RegistrySpec

\* No step changes an identity that is frozen, or a registration.
THEOREM IdentitiesAreFrozenForever == RegistrySpec => FrozenForever
<1> DEFINE Kept == /\ \A n \in Name : frozen[n] # Absent => frozen'[n] = frozen[n]
                   /\ \A r \in Registry, n \in Name :
                        registrations[r][n] # Absent => registrations'[r][n] = registrations[r][n]
<1>1. RegistrySpec => []RegistryTypeOK
  BY RegistryTypeCorrect
<1>2. RegistryTypeOK /\ [RegistryNext]_registryVars => [Kept]_registryVars
  <2> SUFFICES ASSUME RegistryTypeOK, RegistryNext
               PROVE  Kept
    BY DEF registryVars
  <2>1. ASSUME NEW n \in Name, NEW id \in Identity, Freeze(n, id)
        PROVE  Kept
    BY <2>1 DEF Freeze, CanFreeze, RegistryTypeOK
  <2>2. ASSUME NEW r \in Registry, NEW c \in Class, NEW payload \in Payload \cup {NoParams},
               NEW v \in Version \cup {NoVersion}, NEW k \in Code \cup {NoVersion},
               Register(r, c, payload, v, k)
        PROVE  Kept
    BY <2>2, RegistryAssumption DEF Register, CanFreeze, RegistryTypeOK
  <2> QED
    BY <2>1, <2>2 DEF RegistryNext
<1> QED
  BY <1>1, <1>2, PTL DEF RegistrySpec, FrozenForever

-----------------------------------------------------------------------------
(* Runs: the inductive invariant *)

\* Every signal that a checking service has stored is of an identity that is
\* there, and not just not contradicted.
SignalsAreOfFrozen ==
  checked => \A e \in signals : IsStrategyFrozen(e.name, e.identity)

SignalsInv == RegistryInv /\ SignalsAreOfFrozen

-----------------------------------------------------------------------------
(* Runs: lemmas *)

\* What is frozen stays so when a strategy is registered or frozen.
LEMMA FrozenStaysFrozen ==
  ASSUME RegistryInv, [RegistryNext]_registryVars, NEW n, NEW id, IsStrategyFrozen(n, id)
  PROVE  IsStrategyFrozen(n, id)'
<1>1. CASE UNCHANGED registryVars
  BY <1>1 DEF registryVars, IsStrategyFrozen
<1>2. ASSUME NEW m \in Name, NEW other \in Identity, Freeze(m, other)
      PROVE  IsStrategyFrozen(n, id)'
  BY <1>2 DEF Freeze, CanFreeze, IsStrategyFrozen
<1>3. ASSUME NEW r \in Registry, NEW c \in Class, NEW payload \in Payload \cup {NoParams},
             NEW v \in Version \cup {NoVersion}, NEW k \in Code \cup {NoVersion},
             Register(r, c, payload, v, k)
      PROVE  IsStrategyFrozen(n, id)'
  BY <1>3 DEF Register, CanFreeze, IsStrategyFrozen
<1> QED
  BY <1>1, <1>2, <1>3 DEF RegistryNext

\* What create_event lets through has a frozen identity.
LEMMA AcceptedIsFrozen ==
  ASSUME NEW c, NEW event, Refusal(c, event) = "none", checked
  PROVE  IsStrategyFrozen(c.name, c.identity)
BY DEF Refusal, FreezeFails

-----------------------------------------------------------------------------
(* Runs: the invariant *)

\* What is called before the runs are calls of the registries.
LEMMA PrepareIsRegistryStep ==
  ASSUME NEW request \in Requests, Prepare(request)
  PROVE  RegistryNext /\ UNCHANGED <<checked, signals>>
<1>1. UNCHANGED <<checked, signals>>
  BY DEF Prepare, runVars
<1>2. CASE request.call = "register"
  <2>1. Register(request.registry, request.class, request.params, request.version,
                 request.code)
    BY <1>2 DEF Prepare
  <2> QED
    BY <1>1, <1>2, <2>1, RequestsAssumption DEF RegistryNext
<1>3. CASE request.call = "freeze"
  <2>1. Freeze(request.name, request.identity)
    BY <1>3 DEF Prepare
  <2> QED
    BY <1>1, <1>3, <2>1, RequestsAssumption DEF RegistryNext
<1> QED
  BY <1>2, <1>3, RequestsAssumption

\* run_bars adds signals of frozen identities only.
LEMMA ProcessBarPreserves ==
  ASSUME SignalsInv, ProcessBar
  PROVE  SignalsInv'
<1>1. RegistryInv'
  BY DEF SignalsInv, ProcessBar, registryVars, RegistryInv, RegistryTypeOK, RegistrationsAgree
<1>2. /\ UNCHANGED <<checked, frozen>>
      /\ \A n, id : IsStrategyFrozen(n, id) => IsStrategyFrozen(n, id)'
  BY DEF ProcessBar, registryVars, IsStrategyFrozen
<1>3. ASSUME checked, NEW e \in signals', e \notin signals
      PROVE  IsStrategyFrozen(e.name, e.identity)
  <2> DEFINE bar == Head(queue)
             c == Decide(runner, Answers(runner, Observe(seen, bar), bar)).candidate
             event == Event(c, bar, Window(Observe(seen, bar)), clock)
  <2>1. e = event /\ Refusal(c, event) = "none"
    BY <1>3 DEF ProcessBar
  <2>2. event.name = c.name /\ event.identity = c.identity
    BY DEF Event
  <2> HIDE DEF c, event
  <2>3. IsStrategyFrozen(c.name, c.identity)
    BY <1>3, <2>1, AcceptedIsFrozen
  <2> QED
    BY <2>1, <2>2, <2>3
<1>4. SignalsAreOfFrozen'
  BY <1>2, <1>3 DEF SignalsInv, SignalsAreOfFrozen
<1> QED
  BY <1>1, <1>4 DEF SignalsInv

\* A step that leaves registries and signals alone.
LEMMA OtherStepsPreserve ==
  ASSUME SignalsInv, UNCHANGED <<frozen, registrations, checked, signals>>
  PROVE  SignalsInv'
BY DEF SignalsInv, SignalsAreOfFrozen, IsStrategyFrozen, RegistryInv, RegistryTypeOK,
       RegistrationsAgree

\* Every step preserves the invariant.
LEMMA RunStepPreserves ==
  ASSUME SignalsInv, [Next]_vars
  PROVE  SignalsInv'
<1>1. ASSUME NEW request \in Requests, Prepare(request)
      PROVE  SignalsInv'
  <2>1. RegistryNext /\ UNCHANGED <<checked, signals>>
    BY <1>1, PrepareIsRegistryStep
  <2>2. RegistryInv'
    BY <2>1, RegistryStepPreserves DEF SignalsInv
  <2>3. \A n, id : IsStrategyFrozen(n, id) => IsStrategyFrozen(n, id)'
    BY <2>1, FrozenStaysFrozen DEF SignalsInv
  <2> QED
    BY <2>1, <2>2, <2>3 DEF SignalsInv, SignalsAreOfFrozen
<1>2. ASSUME NEW composer \in Composers, Compose(composer)
      PROVE  SignalsInv'
  BY <1>2, OtherStepsPreserve DEF Compose, registryVars
<1>3. CASE Advance
  BY <1>3, OtherStepsPreserve DEF Advance, registryVars
<1>4. ASSUME NEW list \in Lists, Start(list)
      PROVE  SignalsInv'
  BY <1>4, OtherStepsPreserve DEF Start, registryVars
<1>5. CASE ProcessBar
  BY <1>5, ProcessBarPreserves
<1>6. CASE Return
  BY <1>6, OtherStepsPreserve DEF Return, registryVars
<1>7. CASE UNCHANGED vars
  BY <1>7, OtherStepsPreserve DEF vars, registryVars, runVars
<1> QED
  BY <1>1, <1>2, <1>3, <1>4, <1>5, <1>6, <1>7 DEF Next

-----------------------------------------------------------------------------
(* Runs: theorems *)

\* Whatever is registered, composed and run in whatever order: a signal service
\* that has the version registry stores signals of frozen identities only, and they
\* stay frozen.
THEOREM StoredSignalsStayFrozen == Spec => []StoredSignalsAreFrozen
<1>1. Init => SignalsInv
  BY RegistryInitEstablishes DEF Init, SignalsInv, SignalsAreOfFrozen
<1>2. SignalsInv /\ [Next]_vars => SignalsInv'
  BY RunStepPreserves
<1>3. SignalsInv => StoredSignalsAreFrozen
  BY DEF SignalsInv, SignalsAreOfFrozen, StoredSignalsAreFrozen, IsStrategyFrozen
<1> QED
  BY <1>1, <1>2, <1>3, PTL DEF Spec

\* The registries of a research run are what StrategyRegistry specifies, so that its
\* theorems hold of them.
THEOREM RunImplementsRegistry == Spec => RegistrySpec
<1>1. Init => RegistryInit
  BY DEF Init
<1>2. [Next]_vars => [RegistryNext]_registryVars
  <2>1. ASSUME NEW request \in Requests, Prepare(request)
        PROVE  RegistryNext
    BY <2>1, PrepareIsRegistryStep
  <2>2. ASSUME Next, \A request \in Requests : ~Prepare(request)
        PROVE  UNCHANGED registryVars
    BY <2>2 DEF Next, Compose, Advance, Start, ProcessBar, Return
  <2> QED
    BY <2>1, <2>2 DEF vars
<1> QED
  BY <1>1, <1>2, PTL DEF Spec, RegistrySpec

-----------------------------------------------------------------------------
(* Answers and candidates *)

\* A candidate is what a runtime would say.
IsAnswerOf(c, runtime) ==
  /\ c \in Candidate /\ ValidCandidate(c)
  /\ c.name = NameOf[runtime.class] /\ c.identity = runtime.identity

\* A composer with its runtimes.
IsRunner(r) ==
  /\ r = [names |-> r.names, policy |-> r.policy, weights |-> r.weights, runtimes |-> r.runtimes]
  /\ r.runtimes \in Seq(ToSet(r.runtimes))
  /\ r.names = [i \in DOMAIN r.runtimes |-> NameOf[r.runtimes[i].class]]
  /\ \A i \in DOMAIN r.runtimes :
       r.runtimes[i].class \in Class /\ r.runtimes[i].identity \in Identity
  /\ r.weights \in Seq(Int) /\ r.policy \in Policy
  /\ ValidComposer(r)

\* The answers of its runtimes, silence included.
AreAnswersTo(a, r) ==
  /\ a = [i \in DOMAIN r.runtimes |-> a[i]]
  /\ \A i \in DOMAIN r.runtimes : a[i] # NoCandidate => IsAnswerOf(a[i], r.runtimes[i])

\* A runtime is silent or proposes a valid candidate of its own.
LEMMA AnswerIsValid ==
  ASSUME NEW runtime, runtime.class \in Class, runtime.identity \in Identity, NEW snapshot,
         Answer(runtime, snapshot) # NoCandidate
  PROVE  IsAnswerOf(Answer(runtime, snapshot), runtime)
<1> PICK p : p = OnBar(runtime, snapshot)
  OBVIOUS
<1>1. p \in {NoCandidate, Proposal("BUY", "BUY", "INCREASE_LONG", 70, 60),
             Proposal("SELL", "RISK_AVOID", "DECREASE_LONG", 60, 55),
             Proposal("SELL", "REDUCE_LONG", "DECREASE_LONG", 65, 55),
             Proposal("BUY", "BUY", "INCREASE_LONG", 55, 50),
             Proposal("SELL", "REDUCE_LONG", "DECREASE_LONG", 50, 40),
             Proposal("SELL", "REDUCE_LONG", "DECREASE_LONG", 55, 45)}
  <2>1. runtime.class \in {"BaselineRules", "Momentum", "RallyFade", "VolumePullback"}
    BY ComposersAssumption DEF ShippedSchema
  <2>2. \A f, q : BaselineRules(f, q) \in
          {NoCandidate, Proposal("BUY", "BUY", "INCREASE_LONG", 70, 60),
           Proposal("SELL", "RISK_AVOID", "DECREASE_LONG", 60, 55),
           Proposal("SELL", "REDUCE_LONG", "DECREASE_LONG", 65, 55)}
    BY DEF BaselineRules
  <2>3. \A f, q : Momentum(f, q) \in {NoCandidate, Proposal("BUY", "BUY", "INCREASE_LONG", 55, 50)}
    BY DEF Momentum
  <2>4. \A f, q : RallyFade(f, q) \in
          {NoCandidate, Proposal("SELL", "REDUCE_LONG", "DECREASE_LONG", 50, 40)}
    BY DEF RallyFade
  <2>5. \A f, q : VolumePullback(f, q) \in
          {NoCandidate, Proposal("SELL", "REDUCE_LONG", "DECREASE_LONG", 55, 45)}
    BY DEF VolumePullback
  <2> QED
    BY <2>1, <2>2, <2>3, <2>4, <2>5 DEF OnBar
<1>2. p # NoCandidate /\ Answer(runtime, snapshot) =
        [name |-> NameOf[runtime.class], identity |-> runtime.identity,
         direction |-> p.direction, action |-> p.action, exposure |-> p.exposure,
         score |-> p.score, confidence |-> p.confidence, reasons |-> <<>>]
  BY DEF Answer
<1>3. /\ p.direction \in {"BUY", "SELL"} /\ p.action \in {"BUY", "REDUCE_LONG", "RISK_AVOID"}
      /\ p.exposure \in {"INCREASE_LONG", "DECREASE_LONG"}
      /\ p.score \in 1..100 /\ p.confidence \in 1..100
      /\ p.direction = "SELL" => p.action # "BUY" /\ p.exposure # "INCREASE_LONG"
  BY <1>1, <1>2 DEF Proposal
<1>4. <<>> \in Seq(Note) /\ NameOf[runtime.class] \in Name
  BY RegistryAssumption
<1>5. Answer(runtime, snapshot) \in Candidate
  BY <1>2, <1>3, <1>4 DEF Candidate
<1>6. ValidCandidate(Answer(runtime, snapshot))
  BY <1>2, <1>3 DEF ValidCandidate
<1> QED
  BY <1>2, <1>5, <1>6 DEF IsAnswerOf

\* The candidates, the places of the runtimes that they come from, and their number.
AreCandidatesOf(cs, g, m, a, n) ==
  /\ m \in Nat /\ m <= n /\ g \in [1..m -> 1..n] /\ cs = [k \in 1..m |-> a[g[k]]]
  /\ \A i, j \in 1..m : i < j => g[i] < g[j]
  /\ \A k \in 1..m : a[g[k]] # NoCandidate
  /\ \A i \in 1..n : a[i] # NoCandidate => \E k \in 1..m : g[k] = i

\* The candidates come from increasing places.
LEMMA CandidatesArePicked ==
  ASSUME NEW n \in Nat, NEW a, DOMAIN a = 1..n
  PROVE  \E m, g : AreCandidatesOf(Candidates(a), g, m, a, n)
<1>0. PICK P : P = {i \in DOMAIN a : a[i] # NoCandidate}
  OBVIOUS
<1>1. P \in SUBSET Int /\ P \in SUBSET (1..n)
  BY <1>0
<1>2. IsFiniteSet(P)
  BY <1>1, NumbersUpTo, FS_Subset
<1>m. PICK m : m = Cardinality(P)
  OBVIOUS
<1>3. m \in Nat /\ m <= n
  <2>1. m \in Nat
    BY <1>2, <1>m, FS_CardinalityType
  <2>2. IsFiniteSet(1..n) /\ Cardinality(1..n) = n
    BY NumbersUpTo
  <2>3. Cardinality(P) <= Cardinality(1..n)
    BY <1>1, <2>2, FS_Subset
  <2> QED
    BY <1>m, <2>1, <2>2, <2>3
<1>4. PICK g \in [1..m -> P] :
        /\ \A i, j \in 1..m : i < j => g[i] < g[j]
        /\ \A x \in P : \E i \in 1..m : g[i] = x
        /\ Picked(a, P) = [k \in 1..m |-> a[g[k]]]
  <2>1. PICK g : Picks(Picked(a, P), a, P, g)
    BY <1>1, <1>2, PickedProperties
  <2> QED
    BY <1>m, <2>1 DEF Picks
<1>5. Candidates(a) = [k \in 1..m |-> a[g[k]]]
  BY <1>0, <1>4 DEF Candidates
<1>6. g \in [1..m -> 1..n]
  BY <1>1, <1>4
<1>7. \A k \in 1..m : a[g[k]] # NoCandidate
  <2>1. \A k \in 1..m : g[k] \in P
    BY <1>4
  <2> QED
    BY <1>0, <2>1
<1>8. \A i \in 1..n : a[i] # NoCandidate => \E k \in 1..m : g[k] = i
  BY <1>0, <1>4
<1>9. \A i, j \in 1..m : i < j => g[i] < g[j]
  BY <1>4
<1>10. AreCandidatesOf(Candidates(a), g, m, a, n)
  BY <1>3, <1>5, <1>6, <1>7, <1>8, <1>9 DEF AreCandidatesOf
<1> QED
  BY <1>10

-----------------------------------------------------------------------------
(* Weighted sums *)

\* The terms of a weighted sum.
Terms(items, weights, places) ==
  [i \in places |-> Sign(items[i].direction) * items[i].score * weights[i]]

\* Items with a direction and a score, and their weights.
AreWeighted(items, weights, places) ==
  \A i \in places : /\ items[i].direction \in {"BUY", "SELL"}
                    /\ items[i].score \in 1..100
                    /\ weights[i] \in Nat \ {0}

\* A term has the sign of its direction.
LEMMA TermsAreNumbers ==
  ASSUME NEW S, NEW items, NEW weights, AreWeighted(items, weights, S), NEW i \in S
  PROVE  /\ Terms(items, weights, S)[i] \in Int
         /\ items[i].direction = "BUY" => Terms(items, weights, S)[i] > 0
         /\ items[i].direction = "SELL" => Terms(items, weights, S)[i] < 0
<1> PICK s, w : s = items[i].score /\ w = weights[i]
  OBVIOUS
<1>1. s \in Nat /\ w \in Nat /\ s > 0 /\ w > 0
  BY DEF AreWeighted
<1>2. s * w \in Int /\ s * w > 0
  BY <1>1
<1>3. 1 * s * w = s * w /\ (-1) * s * w = -(s * w)
  BY <1>1
<1>4. CASE items[i].direction = "BUY"
  BY <1>2, <1>3, <1>4 DEF Terms, Sign
<1>5. CASE items[i].direction = "SELL"
  BY <1>2, <1>3, <1>5 DEF Terms, Sign
<1> QED
  BY <1>4, <1>5 DEF AreWeighted

\* A weighted sum is the total of its terms.
LEMMA WeightedSumIsTotal ==
  ASSUME NEW S, IsFiniteSet(S), NEW items, NEW weights, AreWeighted(items, weights, S)
  PROVE  WeightedSum(items, weights, S) = Total(Terms(items, weights, S), S)
<1> DEFINE Term(i) == Sign(items[i].direction) * items[i].score * weights[i]
           Sums(h) == h = [s \in SUBSET S |->
             IF s = {} THEN 0 ELSE Term(Taken(s)) + h[s \ {Taken(s)}]]
           sums == CHOOSE h : Sums(h)
           f == Terms(items, weights, S)
<1>1. WeightedSum(items, weights, S) = sums[S]
  BY Zenon DEF WeightedSum, MapThenSumSet, MapThenFoldSet, Taken
<1>2. \A i \in S : f[i] = Term(i)
  BY DEF Terms
<1>3. \A i \in S : f[i] \in Int
  BY TermsAreNumbers
<1> HIDE DEF f, Term
<1>4. ASSUME NEW h PROVE SumsUp(h, f, S) <=> Sums(h)
  <2>1. \A s \in SUBSET S : s # {} => f[Taken(s)] = Term(Taken(s))
    BY <1>2 DEF Taken
  <2> QED
    BY <2>1 DEF SumsUp
<1>5. \E h : SumsUp(h, f, S)
  BY <1>3, SumsExist
<1> HIDE DEF Sums
<1>6. SumsUp(sums, f, S)
  BY <1>4, <1>5
<1> HIDE DEF sums
<1>7. Total(f, S) = sums[S]
  BY <1>6, TotalIsSum
<1> QED
  BY <1>1, <1>7 DEF f

\* Candidates of one direction have a sum of that direction.
LEMMA SumOfOneDirection ==
  ASSUME NEW S, IsFiniteSet(S), S # {}, NEW items, NEW weights,
         AreWeighted(items, weights, S), NEW d, \A i \in S : items[i].direction = d
  PROVE  /\ WeightedSum(items, weights, S) \in Int
         /\ d = "BUY" => WeightedSum(items, weights, S) > 0
         /\ d = "SELL" => WeightedSum(items, weights, S) < 0
         /\ d \in {"BUY", "SELL"}
<1>0. PICK f : f = Terms(items, weights, S)
  OBVIOUS
<1>1. \A i \in S : f[i] \in Int /\ (d = "BUY" => f[i] > 0) /\ (d = "SELL" => f[i] < 0)
  BY <1>0, TermsAreNumbers
<1>2. WeightedSum(items, weights, S) = Total(f, S)
  BY <1>0, WeightedSumIsTotal
<1>3. PICK x : x \in S
  OBVIOUS
<1>4. CASE d = "BUY"
  <2>1. \A i \in S : f[i] \in Nat
    BY <1>1, <1>4
  <2>2. Total(f, S) \in Nat /\ f[x] <= Total(f, S)
    BY <1>3, <2>1, TotalOfNaturals
  <2> QED
    BY <1>1, <1>2, <1>3, <1>4, <2>2
<1>5. CASE d = "SELL"
  <2>0. PICK g : g = [i \in S |-> -f[i]]
    OBVIOUS
  <2>1. \A i \in S : g[i] \in Nat /\ g[i] > 0
    BY <1>1, <1>5, <2>0
  <2>2. Total(g, S) \in Nat /\ g[x] <= Total(g, S)
    BY <1>3, <2>1, TotalOfNaturals
  <2>3. \A i \in S : f[i] \in Int /\ g[i] = -f[i]
    BY <1>1, <2>0
  <2>4. Total(g, S) = -Total(f, S)
    BY <2>3, TotalNegated
  <2>5. Total(f, S) \in Int
    BY <1>1, TotalProperties
  <2> QED
    BY <1>2, <1>3, <1>5, <2>1, <2>2, <2>4, <2>5
<1>6. d \in {"BUY", "SELL"}
  BY <1>3 DEF AreWeighted
<1> QED
  BY <1>4, <1>5, <1>6

\* Items that are the same have the same sum.
LEMMA SameWeightedSum ==
  ASSUME NEW S, IsFiniteSet(S), NEW items, NEW others, NEW weights,
         AreWeighted(items, weights, S), \A i \in S : others[i] = items[i]
  PROVE  /\ WeightedSum(others, weights, S) = WeightedSum(items, weights, S)
         /\ WeightedSum(items, weights, S) \in Int
<1>1. AreWeighted(others, weights, S)
  BY DEF AreWeighted
<1>2. Terms(others, weights, S) = Terms(items, weights, S)
  BY DEF Terms
<1>3. \A i \in S : Terms(items, weights, S)[i] \in Int
  BY TermsAreNumbers
<1>4. Total(Terms(items, weights, S), S) \in Int
  BY <1>3, TotalProperties
<1> QED
  BY <1>1, <1>2, <1>4, WeightedSumIsTotal

-----------------------------------------------------------------------------
(* The policies of the composer *)

\* A sequence of m candidates, at least one.
AreCandidates(cs, m) ==
  /\ m \in Nat \ {0} /\ cs = [k \in 1..m |-> cs[k]]
  /\ \A k \in 1..m : cs[k] \in Candidate

\* A candidate with one more reason, and in another direction.
Reasoned(c, note) == [c EXCEPT !.reasons = Append(@, note)]
Turned(c, d, note) == [c EXCEPT !.direction = d, !.reasons = Append(@, note)]

\* A candidate that is made of another: the same but for reasons and direction.
IsLike(c, d) ==
  /\ c \in Candidate /\ c.name = d.name /\ c.identity = d.identity
  /\ c.action = d.action /\ c.exposure = d.exposure

\* A reason more, or another direction, makes a candidate that is like the first.
LEMMA CandidateWithReason ==
  ASSUME NEW c \in Candidate, NEW note \in Note
  PROVE  /\ IsLike(Reasoned(c, note), c) /\ Reasoned(c, note).direction = c.direction
         /\ \A d \in {"BUY", "SELL"} : /\ IsLike(Turned(c, d, note), c)
                                       /\ Turned(c, d, note).direction = d
<1>1. c.reasons \in Seq(Note)
  BY DEF Candidate
<1>2. PICK r : r = Append(c.reasons, note)
  OBVIOUS
<1>3. r \in Seq(Note)
  <2> PICK N : N = Note
    OBVIOUS
  <2>1. Append(c.reasons, note) \in Seq(N)
    BY <1>1
  <2> QED
    BY <1>2, <2>1
<1>4. Reasoned(c, note) = [c EXCEPT !.reasons = r]
  BY <1>2 DEF Reasoned
<1>5. \A d : Turned(c, d, note) = [c EXCEPT !.direction = d, !.reasons = r]
  BY <1>2 DEF Turned
<1>6. /\ [c EXCEPT !.reasons = r] \in Candidate
      /\ \A d \in {"BUY", "SELL"} : [c EXCEPT !.direction = d, !.reasons = r] \in Candidate
  BY <1>3 DEF Candidate
<1>7. c = [name |-> c.name, identity |-> c.identity, direction |-> c.direction,
           action |-> c.action, exposure |-> c.exposure, score |-> c.score,
           confidence |-> c.confidence, reasons |-> c.reasons]
  BY DEF Candidate
<1>8. IsLike(Reasoned(c, note), c) /\ Reasoned(c, note).direction = c.direction
  BY <1>4, <1>6, <1>7 DEF IsLike
<1>9. ASSUME NEW d \in {"BUY", "SELL"}
      PROVE  IsLike(Turned(c, d, note), c) /\ Turned(c, d, note).direction = d
  <2>1. Turned(c, d, note) = [c EXCEPT !.direction = d, !.reasons = r]
    BY <1>5
  <2>2. Turned(c, d, note) \in Candidate
    BY <1>6, <2>1
  <2>3. /\ Turned(c, d, note).direction = d /\ Turned(c, d, note).name = c.name
        /\ Turned(c, d, note).identity = c.identity /\ Turned(c, d, note).action = c.action
        /\ Turned(c, d, note).exposure = c.exposure
    BY <1>7, <2>1
  <2> QED
    BY <2>2, <2>3 DEF IsLike
<1> QED
  BY <1>8, <1>9

\* Candidates have one direction, or two of them differ.
LEMMA OneDirection ==
  ASSUME NEW cs, NEW m, AreCandidates(cs, m)
  PROVE  /\ Cardinality(Directions(cs)) = 1 =>
              \A k \in 1..m : cs[k].direction = cs[1].direction
         /\ Cardinality(Directions(cs)) # 1 =>
              /\ Cardinality(Directions(cs)) > 1
              /\ \E k \in 1..m : cs[k].direction # cs[1].direction
<1>1. DOMAIN cs = 1..m /\ 1 \in 1..m /\ \A k \in 1..m : cs[k].direction \in {"BUY", "SELL"}
  BY DEF AreCandidates, Candidate
<1>2. PICK D : D = Directions(cs)
  OBVIOUS
<1>3. \A k \in 1..m : cs[k].direction \in D
  BY <1>1, <1>2 DEF Directions
<1>4. \A d \in D : \E k \in 1..m : cs[k].direction = d
  BY <1>1, <1>2 DEF Directions
<1>5. IsFiniteSet(D)
  <2>1. IsFiniteSet({"BUY"}) /\ IsFiniteSet({"SELL"})
    BY FS_Singleton
  <2>2. IsFiniteSet({"BUY"} \cup {"SELL"})
    BY <2>1, FS_Union
  <2>3. D \in SUBSET ({"BUY"} \cup {"SELL"})
    BY <1>1, <1>4
  <2> QED
    BY <2>2, <2>3, FS_Subset
<1>6. Cardinality(D) \in Nat /\ Cardinality(D) # 0
  <2>1. D # {}
    BY <1>1, <1>3
  <2> QED
    BY <1>5, <2>1, FS_CardinalityType, FS_EmptySet
<1>7. Cardinality(D) = 1 <=> \E x : D = {x}
  BY <1>5, FS_Singleton
<1>8. ASSUME Cardinality(D) = 1 PROVE \A k \in 1..m : cs[k].direction = cs[1].direction
  <2>1. PICK x : D = {x}
    BY <1>7, <1>8
  <2> QED
    BY <1>1, <1>3, <2>1
<1>9. ASSUME Cardinality(D) # 1, \A k \in 1..m : cs[k].direction = cs[1].direction PROVE FALSE
  <2>1. D = {cs[1].direction}
    BY <1>1, <1>3, <1>4, <1>9
  <2> QED
    BY <1>7, <1>9, <2>1
<1> QED
  BY <1>2, <1>6, <1>8, <1>9

\* What _decide_priority_max_confidence and _decide_unanimous emit is like a candidate.
LEMMA NotedIsLike ==
  ASSUME NEW cs, NEW m, AreCandidates(cs, m), NEW i \in 1..m,
         NEW note \in {"AGGREGATED", "UNANIMOUS"}
  PROVE  /\ IsLike(WithNote(cs, i, note), cs[i])
         /\ WithNote(cs, i, note).direction = cs[i].direction
<1>1. DOMAIN cs = 1..m /\ cs[i] \in Candidate /\ \A k \in 1..m : cs[k].name \in Name
  BY DEF AreCandidates, Candidate
<1>2. PICK names : names = [j \in DOMAIN cs |-> cs[j].name]
  OBVIOUS
<1>3. names \in Seq(Name)
  <2>1. names \in [1..m -> Name] /\ m \in Nat
    BY <1>1, <1>2 DEF AreCandidates
  <2> QED
    BY <2>1, SeqDef
<1>4. PICK reason : reason = <<note, names>>
  OBVIOUS
<1>5. reason \in Note
  <2>1. reason \in {"AGGREGATED", "UNANIMOUS"} \X Seq(Name)
    BY <1>3, <1>4
  <2> QED
    BY Zenon, <2>1 DEF Note
<1>6. WithNote(cs, i, note) = Reasoned(cs[i], reason)
  BY <1>2, <1>4 DEF WithNote, Reasoned
<1> QED
  BY <1>1, <1>5, <1>6, CandidateWithReason

\* The names of a composer.
HasNames(c, n) == n \in Nat /\ c.names = [i \in 1..n |-> c.names[i]] /\ Len(c.names) = n

\* The priority of a strategy is a number, and the earlier one is the larger.
LEMMA Priorities ==
  ASSUME NEW c, NEW n, HasNames(c, n)
  PROVE  /\ \A name : Priority(c, name) \in Int
         /\ (\A i, j \in 1..n : c.names[i] = c.names[j] => i = j) =>
              \A i \in 1..n : Priority(c, c.names[i]) = n + 1 - i
<1>1. DOMAIN c.names = 1..n /\ Len(c.names) = n /\ n \in Nat
  BY DEF HasNames
<1>2. ASSUME NEW name
      PROVE  /\ Priority(c, name) \in Int
             /\ \A i \in 1..n : c.names[i] = name
                                /\ (\A j \in 1..n : c.names[j] = name => j = i)
                                => Priority(c, name) = n + 1 - i
  <2>1. PICK places : places = {i \in DOMAIN c.names : c.names[i] = name}
    OBVIOUS
  <2>2. Priority(c, name) = IF places = {} THEN 0
                            ELSE n + 1 - CHOOSE i \in places : \A j \in places : i <= j
    BY <1>1, <2>1 DEF Priority
  <2>3. places \in SUBSET Nat /\ \A i \in 1..n : i \in places <=> c.names[i] = name
    BY <1>1, <2>1
  <2>4. ASSUME places # {}
        PROVE  (CHOOSE i \in places : \A j \in places : i <= j) \in places
    <3>1. \E i \in places : \A j \in places : i <= j
      <4>1. places \in SUBSET Nat
        BY <2>3
      <4> QED
        BY Zenon, <2>4, <4>1, LeastNatural
    <3> QED
      BY <3>1
  <2>5. Priority(c, name) \in Int
    <3>1. CASE places = {}
      BY <2>2, <3>1
    <3>2. CASE places # {}
      <4>1. PICK x : x = CHOOSE i \in places : \A j \in places : i <= j
        OBVIOUS
      <4>2. x \in places
        BY Zenon, <2>4, <3>2, <4>1
      <4>3. x \in Int
        BY <2>3, <4>2
      <4> QED
        BY <1>1, <2>2, <3>2, <4>1, <4>3
    <3> QED
      BY <3>1, <3>2
  <2>6. ASSUME NEW i \in 1..n, c.names[i] = name, \A j \in 1..n : c.names[j] = name => j = i
        PROVE  Priority(c, name) = n + 1 - i
    <3>1. i \in places /\ \A j \in places : j = i
      BY <1>1, <2>1, <2>6
    <3>2. PICK x : x = CHOOSE k \in places : \A j \in places : k <= j
      OBVIOUS
    <3>3. x = i
      BY <2>4, <3>1, <3>2
    <3> QED
      BY <2>2, <3>1, <3>2, <3>3
  <2> QED
    BY <2>5, <2>6
<1> QED
  BY <1>2

\* The order that _decide_priority_max_confidence sorts by.
Before(c, cs, i, j) ==
  LET p == Priority(c, cs[i].name)
      q == Priority(c, cs[j].name) IN
    p > q \/ (p = q /\ (cs[i].confidence > cs[j].confidence
                        \/ (cs[i].confidence = cs[j].confidence /\ i < j)))

\* It finds a candidate that comes before all others.
LEMMA BestComesFirst ==
  ASSUME NEW cs, NEW m, AreCandidates(cs, m), NEW c, NEW n, HasNames(c, n)
  PROVE  \E best \in 1..m :
           /\ \A j \in 1..m \ {best} : Before(c, cs, best, j)
           /\ Cardinality(Directions(cs)) = 1 =>
                ByPriority(c, cs).candidate = WithNote(cs, best, "AGGREGATED")
<1>0. PICK D : D = 1..m
  OBVIOUS
<1>1. DOMAIN cs = D /\ m \in Nat /\ 1 \in D /\ 1 \in 1..m
      /\ \A i \in D : cs[i].confidence \in Int /\ i \in Int
  <2>1. DOMAIN cs = D /\ m \in Nat /\ 1 \in D /\ 1 \in 1..m /\ \A i \in D : i \in Int
    BY <1>0 DEF AreCandidates
  <2>2. \A i \in D : cs[i] \in Candidate
    BY <1>0 DEF AreCandidates
  <2>3. \A x \in Candidate : x.confidence \in Int
    <3>1. \A x \in Candidate : x.confidence \in 1..100
      BY DEF Candidate
    <3> QED
      BY <3>1
  <2> QED
    BY <2>1, <2>2, <2>3
<1>2. \A i \in D : Priority(c, cs[i].name) \in Int
  BY Priorities
<1>3. PICK R : R = {pair \in D \X D : Before(c, cs, pair[1], pair[2])}
  OBVIOUS
<1>4. \A i, j \in D : <<i, j>> \in R <=> Before(c, cs, i, j)
  BY <1>3
<1>5. \E best \in D : \A j \in D \ {best} : Before(c, cs, best, j)
  <2>1. IsFiniteSet(D) /\ Cardinality(D) = m
    BY <1>0, <1>1, NumbersUpTo
  <2>2. \A i \in D : <<i, i>> \notin R
    BY <1>1, <1>2, <1>4 DEF Before
  <2>3. \A i, j \in D : i # j => <<i, j>> \in R \/ <<j, i>> \in R
    BY <1>1, <1>2, <1>4 DEF Before
  <2>4. \A i, j, k \in D : <<i, j>> \in R /\ <<j, k>> \in R => <<i, k>> \in R
    BY <1>1, <1>2, <1>4 DEF Before
  <2>5. PICK s : Sorts(s, D, R)
    BY <2>1, <2>2, <2>3, <2>4, RankedSorts
  <2>6. /\ s \in [D -> D] /\ \A i, j \in D : i < j => <<s[i], s[j]>> \in R
        /\ \A x \in D : \E i \in D : s[i] = x
    BY <1>0, <2>1, <2>5 DEF Sorts
  <2>7. s[1] \in D
    BY <1>1, <2>6
  <2>8. ASSUME NEW j \in D \ {s[1]} PROVE Before(c, cs, s[1], j)
    <3>1. PICK i \in D : s[i] = j
      BY <2>6, <2>8
    <3>2. 1 < i
      BY <1>0, <1>1, <2>8, <3>1
    <3>3. <<s[1], s[i]>> \in R
      BY <1>1, <2>6, <3>2
    <3> QED
      BY <1>4, <2>7, <3>1, <3>3
  <2> QED
    BY <2>7, <2>8
<1>6. PICK best : best = CHOOSE i \in D : \A j \in D \ {i} : Before(c, cs, i, j)
  OBVIOUS
<1>7. best \in D /\ \A j \in D \ {best} : Before(c, cs, best, j)
  BY Zenon, <1>5, <1>6
<1>8. ASSUME Cardinality(Directions(cs)) = 1
      PROVE  ByPriority(c, cs).candidate = WithNote(cs, best, "AGGREGATED")
  <2>1. best = CHOOSE i \in DOMAIN cs : \A j \in DOMAIN cs \ {i} : Before(c, cs, i, j)
    BY Zenon, <1>1, <1>6
  <2>2. ByPriority(c, cs) =
          Emits(WithNote(cs, best, "AGGREGATED"), best, DOMAIN cs \ {best})
    <3>1. ~(Cardinality(Directions(cs)) > 1)
      BY <1>8
    <3> QED
      BY Zenon, <2>1, <3>1 DEF ByPriority, Before
  <2> QED
    BY <2>2 DEF Emits
<1> QED
  BY <1>0, <1>7, <1>8

\* PRIORITY_MAX_CONFIDENCE emits a candidate of the common direction, of the first
\* strategy when no two have a name; and none of two directions.
LEMMA ByPriorityDecides ==
  ASSUME NEW cs, NEW m, AreCandidates(cs, m), NEW c, NEW n, HasNames(c, n),
         NEW g \in [1..m -> 1..n], \A i, j \in 1..m : i < j => g[i] < g[j],
         \A k \in 1..m : cs[k].name = c.names[g[k]]
  PROVE  /\ Cardinality(Directions(cs)) = 1 =>
              LET winner == ByPriority(c, cs).candidate IN
              /\ winner \in Candidate /\ winner.direction = cs[1].direction
              /\ (\A i, j \in 1..n : c.names[i] = c.names[j] => i = j) =>
                   winner.name = cs[1].name
         /\ Cardinality(Directions(cs)) # 1 => ByPriority(c, cs).candidate = NoCandidate
<1>1. ASSUME Cardinality(Directions(cs)) # 1
      PROVE  ByPriority(c, cs).candidate = NoCandidate
  <2>1. Cardinality(Directions(cs)) > 1
    BY <1>1, OneDirection
  <2> QED
    BY <2>1 DEF ByPriority, Abstains
<1>2. PICK best \in 1..m :
        /\ \A j \in 1..m \ {best} : Before(c, cs, best, j)
        /\ Cardinality(Directions(cs)) = 1 =>
             ByPriority(c, cs).candidate = WithNote(cs, best, "AGGREGATED")
  BY BestComesFirst
<1>3. m \in Nat /\ 1 \in 1..m /\ n \in Nat
  BY DEF AreCandidates, HasNames
<1>4. ASSUME Cardinality(Directions(cs)) = 1
      PROVE  LET winner == ByPriority(c, cs).candidate IN
              /\ winner \in Candidate /\ winner.direction = cs[1].direction
              /\ (\A i, j \in 1..n : c.names[i] = c.names[j] => i = j) =>
                   winner.name = cs[1].name
  <2>1. PICK winner : winner = ByPriority(c, cs).candidate
    OBVIOUS
  <2>2. winner = WithNote(cs, best, "AGGREGATED")
    BY <1>2, <1>4, <2>1
  <2>3. winner \in Candidate /\ winner.direction = cs[best].direction
        /\ winner.name = cs[best].name
    BY <2>2, NotedIsLike DEF IsLike
  <2>4. cs[best].direction = cs[1].direction
    BY <1>4, OneDirection
  <2>5. ASSUME \A i, j \in 1..n : c.names[i] = c.names[j] => i = j
        PROVE  best = 1
    <3>1. \A k \in 1..m : Priority(c, cs[k].name) = n + 1 - g[k]
      BY <2>5, Priorities
    <3>2. g[1] \in Int /\ g[best] \in Int /\ (1 < best => g[1] < g[best])
      BY <1>3
    <3>3. ASSUME best # 1 PROVE FALSE
      <4>1. 1 < best
        BY <3>3
      <4>2. Before(c, cs, best, 1)
        BY <1>2, <1>3, <3>3
      <4>3. Priority(c, cs[best].name) >= Priority(c, cs[1].name)
        BY <1>3, <3>1, <3>2, <4>2 DEF Before
      <4> QED
        BY <1>3, <3>1, <3>2, <4>1, <4>3
    <3> QED
      BY <3>3
  <2> QED
    BY <2>1, <2>3, <2>4, <2>5
<1> QED
  BY <1>1, <1>4

\* UNANIMOUS emits the first candidate or none, and none of two directions.
LEMMA UnanimouslyDecides ==
  ASSUME NEW cs, NEW m, AreCandidates(cs, m)
  PROVE  LET winner == Unanimously(cs).candidate IN
         /\ \/ winner = NoCandidate
            \/ /\ winner \in Candidate /\ winner.direction = cs[1].direction
               /\ winner.name = cs[1].name
         /\ Cardinality(Directions(cs)) # 1 => winner = NoCandidate
<1>1. DOMAIN cs = 1..m /\ 1 \in 1..m
  BY DEF AreCandidates
<1>2. CASE \A i \in DOMAIN cs : /\ cs[i].direction = cs[1].direction
                                /\ cs[i].action = cs[1].action
  <2>1. Unanimously(cs).candidate = WithNote(cs, 1, "UNANIMOUS")
    BY <1>2 DEF Unanimously, Emits
  <2>2. Cardinality(Directions(cs)) = 1
    BY <1>1, <1>2, OneDirection
  <2>3. /\ WithNote(cs, 1, "UNANIMOUS") \in Candidate
        /\ WithNote(cs, 1, "UNANIMOUS").direction = cs[1].direction
        /\ WithNote(cs, 1, "UNANIMOUS").name = cs[1].name
    <3>1. IsLike(WithNote(cs, 1, "UNANIMOUS"), cs[1])
          /\ WithNote(cs, 1, "UNANIMOUS").direction = cs[1].direction
      BY <1>1, NotedIsLike
    <3> QED
      BY <3>1 DEF IsLike
  <2> QED
    BY <2>1, <2>2, <2>3
<1>3. CASE ~\A i \in DOMAIN cs : /\ cs[i].direction = cs[1].direction
                                 /\ cs[i].action = cs[1].action
  BY <1>3 DEF Unanimously, Abstains
<1> QED
  BY <1>2, <1>3

\* SCORE_WEIGHTED emits the first candidate in the direction of the sum, if it has one.
LEMMA ByScoreDecides ==
  ASSUME NEW cs, NEW m, AreCandidates(cs, m), NEW c,
         \A k \in 1..m : c.weights[k] \in Nat \ {0}
  PROVE  LET winner == ByScore(c, cs).candidate
             score == WeightedSum(cs, c.weights, 1..m) IN
         /\ score \in Int
         /\ score = 0 => winner = NoCandidate
         /\ score # 0 => /\ winner \in Candidate /\ winner.name = cs[1].name
                         /\ winner.direction = IF score > 0 THEN "BUY" ELSE "SELL"
         /\ Cardinality(Directions(cs)) = 1 =>
              score # 0 /\ winner.direction = cs[1].direction
<1>1. DOMAIN cs = 1..m /\ 1 \in 1..m /\ m \in Nat /\ cs[1] \in Candidate
  BY DEF AreCandidates
<1>2. IsFiniteSet(1..m)
  BY <1>1, NumbersUpTo
<1>3. AreWeighted(cs, c.weights, 1..m)
  BY DEF AreWeighted, AreCandidates, Candidate
<1>4. PICK score : score = WeightedSum(cs, c.weights, 1..m)
  OBVIOUS
<1>5. score \in Int
  BY <1>2, <1>3, <1>4, SameWeightedSum
<1>6. ByScore(c, cs) =
        IF score = 0 THEN Abstains("ABSTAIN_WEIGHTED_ZERO", DOMAIN cs)
        ELSE Emits(Turned(cs[1], IF score > 0 THEN "BUY" ELSE "SELL",
                          <<"WEIGHTED_SCORE", score>>), 1, DOMAIN cs \ {1})
  BY <1>1, <1>4 DEF ByScore, WeightedScore, Turned
<1>7. ASSUME score # 0
      PROVE  LET winner == ByScore(c, cs).candidate IN
             /\ winner \in Candidate /\ winner.name = cs[1].name
             /\ winner.direction = IF score > 0 THEN "BUY" ELSE "SELL"
  <2>1. PICK d \in {"BUY", "SELL"} : d = IF score > 0 THEN "BUY" ELSE "SELL"
    OBVIOUS
  <2>2. PICK note : note = <<"WEIGHTED_SCORE", score>>
    OBVIOUS
  <2>3. note \in Note
    <3>1. note \in {"WEIGHTED_SCORE"} \X Int
      BY <1>5, <2>2
    <3> QED
      BY Zenon, <3>1 DEF Note
  <2>4. ByScore(c, cs).candidate = Turned(cs[1], d, note)
    BY <1>6, <1>7, <2>1, <2>2 DEF Emits
  <2>5. /\ Turned(cs[1], d, note) \in Candidate
        /\ Turned(cs[1], d, note).direction = d
        /\ Turned(cs[1], d, note).name = cs[1].name
    BY <1>1, <2>3, CandidateWithReason DEF IsLike
  <2> QED
    BY <2>1, <2>4, <2>5
<1>8. score = 0 => ByScore(c, cs).candidate = NoCandidate
  BY <1>6 DEF Abstains
<1>9. ASSUME Cardinality(Directions(cs)) = 1
      PROVE  score # 0 /\ (IF score > 0 THEN "BUY" ELSE "SELL") = cs[1].direction
  <2>1. \A k \in 1..m : cs[k].direction = cs[1].direction
    BY <1>9, OneDirection
  <2>2. PICK d : d = cs[1].direction
    OBVIOUS
  <2>3. \A k \in 1..m : cs[k].direction = d
    BY <2>1, <2>2
  <2>4. 1..m # {}
    BY <1>1
  <2>5. (d = "BUY" => score > 0) /\ (d = "SELL" => score < 0) /\ d \in {"BUY", "SELL"}
    BY <1>2, <1>3, <1>4, <2>3, <2>4, SumOfOneDirection
  <2> QED
    BY <1>5, <2>2, <2>5
<1> QED
  BY <1>4, <1>5, <1>7, <1>8, <1>9

-----------------------------------------------------------------------------
(* Decisions *)

\* A decision by each policy: of one candidate, and of several.
LEMMA DecisionOfOne ==
  ASSUME NEW a, NEW c, AreCandidates(Candidates(a), 1)
  PROVE  Decide(c, a).candidate = Candidates(a)[1]
<1>1. PICK cs : cs = Candidates(a)
  OBVIOUS
<1>2. cs = [k \in 1..1 |-> cs[k]] /\ DOMAIN cs = 1..1
  BY <1>1 DEF AreCandidates
<1>3. cs # <<>> /\ Len(cs) = 1
  <2>1. cs \in [1..1 -> {cs[1]}]
    BY <1>2
  <2>2. cs \in Seq({cs[1]})
    BY <2>1, SeqDef
  <2> QED
    BY <1>2, <2>2
<1>4. Decide(c, a) = Emits(cs[1], 1, {})
  BY <1>1, <1>3 DEF Decide
<1> QED
  BY <1>1, <1>4 DEF Emits

\* Of several candidates, the policy decides.
LEMMA DecisionOfMore ==
  ASSUME NEW a, NEW c, NEW m, AreCandidates(Candidates(a), m), m # 1
  PROVE  /\ c.policy = "PRIORITY_MAX_CONFIDENCE" => Decide(c, a) = ByPriority(c, Candidates(a))
         /\ c.policy = "UNANIMOUS" => Decide(c, a) = Unanimously(Candidates(a))
         /\ c.policy = "SCORE_WEIGHTED" => Decide(c, a) = ByScore(c, Candidates(a))
<1>1. PICK cs : cs = Candidates(a)
  OBVIOUS
<1>2. cs = [k \in 1..m |-> cs[k]] /\ DOMAIN cs = 1..m /\ m \in Nat /\ m > 1
  BY <1>1 DEF AreCandidates
<1>3. cs # <<>> /\ Len(cs) = m
  <2>1. cs \in [1..m -> {cs[k] : k \in 1..m}]
    BY <1>2
  <2>2. PICK S : S = {cs[k] : k \in 1..m}
    OBVIOUS
  <2>3. cs \in [1..m -> S]
    BY <2>1, <2>2
  <2>4. cs \in Seq(S)
    BY <1>2, <2>3, SeqDef
  <2> QED
    BY <1>2, <2>4
<1>4. Decide(c, a) =
        CASE c.policy = "PRIORITY_MAX_CONFIDENCE" -> ByPriority(c, cs)
          [] c.policy = "UNANIMOUS" -> Unanimously(cs)
          [] c.policy = "SCORE_WEIGHTED" -> ByScore(c, cs)
  BY <1>1, <1>2, <1>3 DEF Decide
<1> QED
  BY <1>1, <1>4

\* What a runner would decide under another policy and with other weights.
Otherwise(r, policy, w) == [r EXCEPT !.policy = policy, !.weights = w]

\* Another policy leaves the names and the runtimes.
LEMMA OtherRunner ==
  ASSUME NEW r, IsRunner(r), NEW policy, NEW w
  PROVE  LET c == Otherwise(r, policy, w) n == Len(r.runtimes) IN
         /\ c.policy = policy /\ c.weights = w /\ c.names = r.names
         /\ HasNames(c, n) /\ DOMAIN r.runtimes = 1..n /\ DOMAIN r.names = 1..n
         /\ \A i \in 1..n : r.names[i] = NameOf[r.runtimes[i].class]
<1>1. PICK c, n : c = Otherwise(r, policy, w) /\ n = Len(r.runtimes)
  OBVIOUS
<1>2. c.policy = policy /\ c.weights = w /\ c.names = r.names
  <2>1. r = [names |-> r.names, policy |-> r.policy, weights |-> r.weights,
             runtimes |-> r.runtimes]
    BY DEF IsRunner
  <2>2. c = [r EXCEPT !.policy = policy, !.weights = w]
    BY <1>1 DEF Otherwise
  <2> QED
    BY <2>1, <2>2
<1>3. n \in Nat /\ DOMAIN r.runtimes = 1..n
  <2>1. r.runtimes \in Seq(ToSet(r.runtimes))
    BY DEF IsRunner
  <2> QED
    BY <1>1, <2>1
<1>4. r.names = [i \in 1..n |-> NameOf[r.runtimes[i].class]]
  BY <1>3 DEF IsRunner
<1>5. Len(r.names) = n
  <2>1. PICK S : S = {NameOf[r.runtimes[i].class] : i \in 1..n}
    OBVIOUS
  <2>2. r.names \in [1..n -> S]
    BY <1>4, <2>1
  <2>3. r.names \in Seq(S)
    BY <1>3, <2>2, SeqDef
  <2> QED
    BY <1>3, <1>4, <2>3
<1>6. HasNames(c, n)
  BY <1>2, <1>3, <1>4, <1>5 DEF HasNames
<1> QED
  BY <1>1, <1>2, <1>3, <1>4, <1>6

\* The candidates of answers are those of the runtimes.
LEMMA CandidatesOfRunner ==
  ASSUME NEW r, IsRunner(r), NEW a, AreAnswersTo(a, r), Candidates(a) # <<>>
  PROVE  \E m, g : /\ AreCandidates(Candidates(a), m)
                   /\ AreCandidatesOf(Candidates(a), g, m, a, Len(r.runtimes))
                   /\ \A k \in 1..m : Candidates(a)[k].name = r.names[g[k]]
<1>1. PICK n : n = Len(r.runtimes)
  OBVIOUS
<1>2. n \in Nat /\ DOMAIN r.runtimes = 1..n
      /\ \A i \in 1..n : r.names[i] = NameOf[r.runtimes[i].class]
  BY <1>1, OtherRunner DEF HasNames
<1>3. DOMAIN a = 1..n /\ \A i \in 1..n : a[i] # NoCandidate => IsAnswerOf(a[i], r.runtimes[i])
  BY <1>2 DEF AreAnswersTo
<1>4. PICK m, g : AreCandidatesOf(Candidates(a), g, m, a, n)
  BY <1>2, <1>3, CandidatesArePicked
<1>5. PICK cs : cs = Candidates(a)
  OBVIOUS
<1>6. /\ m \in Nat /\ g \in [1..m -> 1..n] /\ cs = [k \in 1..m |-> a[g[k]]]
      /\ \A k \in 1..m : a[g[k]] # NoCandidate
  BY <1>4, <1>5 DEF AreCandidatesOf
<1>7. \A k \in 1..m : /\ cs[k] \in Candidate /\ cs[k].name = r.names[g[k]]
  <2>1. ASSUME NEW k \in 1..m PROVE cs[k] \in Candidate /\ cs[k].name = r.names[g[k]]
    <3>1. g[k] \in 1..n /\ cs[k] = a[g[k]] /\ a[g[k]] # NoCandidate
      BY <1>6
    <3>2. IsAnswerOf(a[g[k]], r.runtimes[g[k]])
      BY <1>3, <3>1
    <3> QED
      BY <1>2, <3>1, <3>2 DEF IsAnswerOf
  <2> QED
    BY <2>1
<1>8. m # 0
  <2>1. ASSUME m = 0 PROVE cs = <<>>
    BY <1>6, <2>1
  <2> QED
    BY <1>5, <2>1
<1>9. cs = [k \in 1..m |-> cs[k]]
  BY <1>6
<1>10. AreCandidates(cs, m)
  BY <1>6, <1>7, <1>8, <1>9 DEF AreCandidates
<1> QED
  BY <1>1, <1>4, <1>5, <1>7, <1>10

\* When the silent runtimes come last, the places of the candidates are their numbers.
LEMMA PrefixOfAnswers ==
  ASSUME NEW cs, NEW g, NEW m, NEW a, NEW n \in Nat, AreCandidatesOf(cs, g, m, a, n),
         \A i \in 1..m : a[i] # NoCandidate
  PROVE  /\ {i \in 1..n : a[i] # NoCandidate} = 1..m
         /\ \A k \in 1..m : cs[k] = a[k]
<1>1. /\ m \in Nat /\ m <= n /\ g \in [1..m -> 1..n] /\ cs = [k \in 1..m |-> a[g[k]]]
      /\ \A i, j \in 1..m : i < j => g[i] < g[j]
      /\ \A k \in 1..m : a[g[k]] # NoCandidate
      /\ \A i \in 1..n : a[i] # NoCandidate => \E k \in 1..m : g[k] = i
  BY DEF AreCandidatesOf
<1>2. PICK P : P = {i \in 1..n : a[i] # NoCandidate}
  OBVIOUS
<1>3. g \in [1..m -> P] /\ \A x \in P : \E k \in 1..m : g[k] = x
  BY <1>1, <1>2
<1>4. P \in SUBSET Int /\ 1..m \in SUBSET P
  BY <1>1, <1>2
<1>5. IsFiniteSet(P) /\ Cardinality(P) = m /\ g = Ascending(P)
  BY <1>1, <1>3, <1>4, AscendingIsUnique
<1>6. 1..m = P
  <2>1. Cardinality(1..m) = m
    BY <1>1, NumbersUpTo
  <2> QED
    BY <1>4, <1>5, <2>1, FS_Subset
<1>7. [k \in 1..m |-> k] = Ascending(P)
  <2>1. PICK id : id = [k \in 1..m |-> k]
    OBVIOUS
  <2>2. id \in [1..m -> P] /\ (\A i, j \in 1..m : i < j => id[i] < id[j])
        /\ \A x \in P : \E k \in 1..m : id[k] = x
    BY <1>6, <2>1
  <2>3. id = Ascending(P)
    BY <1>1, <1>4, <2>2, AscendingIsUnique
  <2> QED
    BY <2>1, <2>3
<1>8. \A k \in 1..m : g[k] = k
  BY <1>5, <1>7
<1> QED
  BY <1>1, <1>2, <1>6, <1>8

\* Weights that ValidComposer accepts.
Counts(w, n) == \A i \in 1..n : w[i] \in Nat \ {0}

\* Of candidates of one direction, every policy makes one of that direction, or none.
LEMMA AgreedDecision ==
  ASSUME NEW r, IsRunner(r), NEW a, AreAnswersTo(a, r), Candidates(a) # <<>>,
         Cardinality(Directions(Candidates(a))) = 1,
         NEW w, Counts(w, Len(r.runtimes)), NEW policy \in Policy
  PROVE  LET emitted == Decide(Otherwise(r, policy, w), a).candidate IN
         /\ emitted = NoCandidate => policy = "UNANIMOUS"
         /\ emitted # NoCandidate =>
              /\ emitted.direction = Candidates(a)[1].direction
              /\ (\A i, j \in DOMAIN r.names : r.names[i] = r.names[j] => i = j) =>
                   emitted.name = Candidates(a)[1].name
<1>0. PICK n, cs, c, e :
        /\ n = Len(r.runtimes) /\ cs = Candidates(a) /\ c = Otherwise(r, policy, w)
        /\ e = Decide(c, a).candidate
  OBVIOUS
<1>1. /\ c.policy = policy /\ c.weights = w /\ c.names = r.names
      /\ HasNames(c, n) /\ DOMAIN r.names = 1..n
  BY <1>0, OtherRunner
<1>2. PICK m, g : /\ AreCandidates(cs, m)
                  /\ AreCandidatesOf(cs, g, m, a, n)
                  /\ \A k \in 1..m : cs[k].name = r.names[g[k]]
  BY <1>0, CandidatesOfRunner
<1>3. /\ g \in [1..m -> 1..n] /\ m <= n /\ m \in Nat /\ 1 \in 1..m /\ n \in Nat
      /\ \A i, j \in 1..m : i < j => g[i] < g[j]
  BY <1>1, <1>2 DEF AreCandidatesOf, AreCandidates, HasNames
<1>4. Cardinality(Directions(cs)) = 1
  BY <1>0
<1>5. \A x \in Candidate : x # NoCandidate
  BY ComposersAssumption
<1>6. CASE m = 1
  <2>1. AreCandidates(Candidates(a), 1)
    BY <1>0, <1>2, <1>6
  <2>2. e = cs[1]
    BY <1>0, <2>1, DecisionOfOne
  <2>3. cs[1] \in Candidate
    BY <1>2, <1>3 DEF AreCandidates
  <2> QED
    BY <1>0, <1>5, <2>2, <2>3
<1>7. CASE m # 1
  <2>0. AreCandidates(Candidates(a), m)
    BY <1>0, <1>2
  <2>1. CASE policy = "PRIORITY_MAX_CONFIDENCE"
    <3>1. e = ByPriority(c, cs).candidate
      BY <1>0, <1>1, <1>7, <2>0, <2>1, DecisionOfMore
    <3>2. \A k \in 1..m : cs[k].name = c.names[g[k]]
      BY <1>1, <1>2
    <3>3. /\ e \in Candidate /\ e.direction = cs[1].direction
          /\ (\A i, j \in 1..n : c.names[i] = c.names[j] => i = j) => e.name = cs[1].name
      BY <1>1, <1>2, <1>3, <1>4, <3>1, <3>2, ByPriorityDecides, SMTT(30)
    <3> QED
      BY <1>0, <1>1, <1>5, <3>3
  <2>2. CASE policy = "UNANIMOUS"
    <3>1. e = Unanimously(cs).candidate
      BY <1>0, <1>1, <1>7, <2>0, <2>2, DecisionOfMore
    <3>2. \/ e = NoCandidate
          \/ e.direction = cs[1].direction /\ e.name = cs[1].name
      BY <1>2, <3>1, UnanimouslyDecides
    <3> QED
      BY <1>0, <2>2, <3>2
  <2>3. CASE policy = "SCORE_WEIGHTED"
    <3>1. e = ByScore(c, cs).candidate
      BY <1>0, <1>1, <1>7, <2>0, <2>3, DecisionOfMore
    <3>2. \A k \in 1..m : c.weights[k] \in Nat \ {0}
      <4>1. \A k \in 1..m : k \in 1..n
        BY <1>3
      <4> QED
        BY <1>0, <1>1, <4>1 DEF Counts
    <3>3. e \in Candidate /\ e.name = cs[1].name /\ e.direction = cs[1].direction
      BY <1>2, <1>4, <3>1, <3>2, ByScoreDecides
    <3> QED
      BY <1>0, <1>5, <3>3
  <2> QED
    BY <2>1, <2>2, <2>3 DEF Policy
<1> QED
  BY <1>0, <1>6, <1>7

\* Of candidates that disagree, only SCORE_WEIGHTED makes one: what the weights say.
LEMMA DisputedDecision ==
  ASSUME NEW r, IsRunner(r), NEW a, AreAnswersTo(a, r), Candidates(a) # <<>>,
         Cardinality(Directions(Candidates(a))) # 1,
         NEW w, Counts(w, Len(r.runtimes))
  PROVE  LET total == WeightedSum(a, w, {i \in DOMAIN r.names : a[i] # NoCandidate})
             emitted == Decide(Otherwise(r, "SCORE_WEIGHTED", w), a).candidate IN
         /\ Decide(Otherwise(r, "UNANIMOUS", w), a).candidate = NoCandidate
         /\ Decide(Otherwise(r, "PRIORITY_MAX_CONFIDENCE", w), a).candidate = NoCandidate
         /\ (\A i \in DOMAIN Candidates(a) : a[i] # NoCandidate) =>
              (IF emitted = NoCandidate THEN 0 ELSE Sign(emitted.direction))
                = (IF total > 0 THEN 1 ELSE IF total < 0 THEN -1 ELSE 0)
<1>0. PICK n, cs : n = Len(r.runtimes) /\ cs = Candidates(a)
  OBVIOUS
<1>1. ASSUME NEW policy
      PROVE  LET c == Otherwise(r, policy, w) IN
             /\ c.policy = policy /\ c.weights = w /\ c.names = r.names
             /\ HasNames(c, n) /\ DOMAIN r.names = 1..n
  BY <1>0, OtherRunner
<1>2. PICK m, g : /\ AreCandidates(cs, m)
                  /\ AreCandidatesOf(cs, g, m, a, n)
                  /\ \A k \in 1..m : cs[k].name = r.names[g[k]]
  BY <1>0, CandidatesOfRunner
<1>3. /\ g \in [1..m -> 1..n] /\ m <= n /\ m \in Nat /\ 1 \in 1..m /\ n \in Nat
      /\ \A i, j \in 1..m : i < j => g[i] < g[j]
      /\ DOMAIN cs = 1..m
  <2>1. HasNames(Otherwise(r, "UNANIMOUS", w), n)
    BY <1>1
  <2>2. n \in Nat
    BY <2>1 DEF HasNames
  <2>3. m \in Nat /\ 1 \in 1..m /\ DOMAIN cs = 1..m
    BY <1>2 DEF AreCandidates
  <2> QED
    BY <1>2, <2>2, <2>3 DEF AreCandidatesOf
<1>4. Cardinality(Directions(cs)) # 1
  BY <1>0
<1>5. m # 1
  <2>1. \E k \in 1..m : cs[k].direction # cs[1].direction
    BY <1>2, <1>4, OneDirection
  <2> QED
    BY <2>1
<1>6. AreCandidates(Candidates(a), m)
  BY <1>0, <1>2
<1>7. Decide(Otherwise(r, "UNANIMOUS", w), a).candidate = NoCandidate
  <2>1. PICK c : c = Otherwise(r, "UNANIMOUS", w)
    OBVIOUS
  <2>2. c.policy = "UNANIMOUS"
    BY <1>1, <2>1
  <2>3. Decide(c, a) = Unanimously(cs)
    BY <1>0, <1>5, <1>6, <2>2, DecisionOfMore
  <2>4. Unanimously(cs).candidate = NoCandidate
    BY <1>2, <1>4, UnanimouslyDecides
  <2> QED
    BY <2>1, <2>3, <2>4
<1>8. Decide(Otherwise(r, "PRIORITY_MAX_CONFIDENCE", w), a).candidate = NoCandidate
  <2>1. PICK c : c = Otherwise(r, "PRIORITY_MAX_CONFIDENCE", w)
    OBVIOUS
  <2>2. c.policy = "PRIORITY_MAX_CONFIDENCE" /\ HasNames(c, n) /\ c.names = r.names
    BY Zenon, <1>1, <2>1
  <2>3. Decide(c, a) = ByPriority(c, cs)
    BY <1>0, <1>5, <1>6, <2>2, DecisionOfMore
  <2>4. Cardinality(Directions(cs)) > 1
    BY <1>2, <1>4, OneDirection
  <2>5. ByPriority(c, cs).candidate = NoCandidate
    BY <2>4 DEF ByPriority, Abstains
  <2> QED
    BY <2>1, <2>3, <2>5
<1>9. ASSUME \A i \in DOMAIN cs : a[i] # NoCandidate
      PROVE  LET total == WeightedSum(a, w, {i \in DOMAIN r.names : a[i] # NoCandidate})
                 emitted == Decide(Otherwise(r, "SCORE_WEIGHTED", w), a).candidate IN
             (IF emitted = NoCandidate THEN 0 ELSE Sign(emitted.direction))
               = (IF total > 0 THEN 1 ELSE IF total < 0 THEN -1 ELSE 0)
  <2>1. PICK c, e : c = Otherwise(r, "SCORE_WEIGHTED", w) /\ e = Decide(c, a).candidate
    OBVIOUS
  <2>2. c.policy = "SCORE_WEIGHTED" /\ c.weights = w
    BY <1>1, <2>1
  <2>3. e = ByScore(c, cs).candidate
    BY <1>0, <1>5, <1>6, <2>1, <2>2, DecisionOfMore
  <2>4. \A k \in 1..m : w[k] \in Nat \ {0}
    <3>1. \A k \in 1..m : k \in 1..n
      BY <1>3
    <3> QED
      BY <1>0, <3>1 DEF Counts
  <2>5. PICK score : score = WeightedSum(cs, w, 1..m)
    OBVIOUS
  <2>6. /\ score \in Int
        /\ score = 0 => e = NoCandidate
        /\ score # 0 => /\ e \in Candidate
                        /\ e.direction = IF score > 0 THEN "BUY" ELSE "SELL"
    BY <1>2, <2>2, <2>3, <2>4, <2>5, ByScoreDecides
  <2>7. \A i \in 1..m : a[i] # NoCandidate
    BY <1>3, <1>9
  <2>8. {i \in 1..n : a[i] # NoCandidate} = 1..m /\ \A k \in 1..m : cs[k] = a[k]
    BY <1>2, <1>3, <2>7, PrefixOfAnswers
  <2>9. AreWeighted(cs, w, 1..m) /\ IsFiniteSet(1..m)
    <3>1. \A k \in 1..m : cs[k].direction \in {"BUY", "SELL"} /\ cs[k].score \in 1..100
      BY <1>2 DEF AreCandidates, Candidate
    <3> QED
      BY <1>3, <2>4, <3>1, NumbersUpTo DEF AreWeighted
  <2>10. WeightedSum(a, w, 1..m) = score
    BY <2>5, <2>8, <2>9, SameWeightedSum
  <2>11. DOMAIN r.names = 1..n
    BY <1>1
  <2>12. WeightedSum(a, w, {i \in DOMAIN r.names : a[i] # NoCandidate}) = score
    BY <2>8, <2>10, <2>11
  <2>13. (IF e = NoCandidate THEN 0 ELSE Sign(e.direction))
           = (IF score > 0 THEN 1 ELSE IF score < 0 THEN -1 ELSE 0)
    BY <2>6, ComposersAssumption DEF Sign
  <2> QED
    BY <2>1, <2>12, <2>13
<1> QED
  BY <1>0, <1>7, <1>8, <1>9

\* A decision comes from one of the candidates, and only a weighted sum turns it.
LEMMA DecisionIsLike ==
  ASSUME NEW r, IsRunner(r), NEW a, AreAnswersTo(a, r),
         NEW c, c = Decide(r, a).candidate, c # NoCandidate
  PROVE  /\ \E i \in DOMAIN r.runtimes : c.name = NameOf[r.runtimes[i].class]
                                         /\ c.identity = r.runtimes[i].identity
         /\ \/ ValidCandidate(c)
            \/ /\ r.policy = "SCORE_WEIGHTED"
               /\ Candidates(a)[1].direction = "BUY"
               /\ Cardinality(Directions(Candidates(a))) > 1
<1>1. PICK n, cs : n = Len(r.runtimes) /\ cs = Candidates(a)
  OBVIOUS
<1>2. cs # <<>>
  <2>1. cs = <<>> => c = NoCandidate
    BY <1>1 DEF Decide, Abstains
  <2> QED
    BY <2>1
<1>3. PICK m, g : /\ AreCandidates(cs, m) /\ AreCandidatesOf(cs, g, m, a, n)
  BY <1>1, <1>2, CandidatesOfRunner
<1>4. /\ m \in Nat /\ 1 \in 1..m /\ m <= n /\ n \in Nat
      /\ HasNames(r, n) /\ DOMAIN r.runtimes = 1..n
  <2>1. PICK o : o = Otherwise(r, r.policy, r.weights)
    OBVIOUS
  <2>2. HasNames(o, n) /\ DOMAIN r.runtimes = 1..n /\ o.names = r.names
    BY <1>1, <2>1, OtherRunner
  <2>3. m \in Nat /\ 1 \in 1..m /\ m <= n
    BY <1>3 DEF AreCandidates, AreCandidatesOf
  <2> QED
    BY <2>2, <2>3 DEF HasNames
<1>5. ASSUME NEW k \in 1..m
      PROVE  \E i \in 1..n : IsAnswerOf(cs[k], r.runtimes[i])
  <2>1. g[k] \in 1..n /\ cs[k] = a[g[k]] /\ a[g[k]] # NoCandidate
    BY <1>3 DEF AreCandidatesOf
  <2> QED
    BY <1>4, <2>1 DEF AreAnswersTo
<1>6. \A k \in 1..m : cs[k] \in Candidate /\ ValidCandidate(cs[k])
  BY <1>5 DEF IsAnswerOf
<1>7. ASSUME NEW k \in 1..m, IsLike(c, cs[k])
      PROVE  /\ \E i \in DOMAIN r.runtimes : c.name = NameOf[r.runtimes[i].class]
                                             /\ c.identity = r.runtimes[i].identity
             /\ c.direction = cs[k].direction => ValidCandidate(c)
  <2>1. PICK i \in 1..n : IsAnswerOf(cs[k], r.runtimes[i])
    BY <1>5
  <2>2. c.name = NameOf[r.runtimes[i].class] /\ c.identity = r.runtimes[i].identity
    BY <1>7, <2>1 DEF IsAnswerOf, IsLike
  <2>3. c.direction = cs[k].direction => ValidCandidate(c)
    BY <1>7, <2>1 DEF IsAnswerOf, IsLike, ValidCandidate
  <2> QED
    BY <1>4, <2>2, <2>3
<1>8. CASE m = 1
  <2>1. AreCandidates(Candidates(a), 1)
    BY <1>1, <1>3, <1>8
  <2>2. c = cs[1]
    BY <1>1, <2>1, DecisionOfOne
  <2>3. IsLike(c, cs[1])
    BY <1>4, <1>6, <2>2 DEF IsLike
  <2> QED
    BY <1>4, <1>7, <2>2, <2>3
<1>9. CASE m # 1
  <2>0. AreCandidates(Candidates(a), m)
    BY <1>1, <1>3
  <2>1. CASE r.policy = "PRIORITY_MAX_CONFIDENCE"
    <3>1. c = ByPriority(r, cs).candidate
      BY <1>1, <1>9, <2>0, <2>1, DecisionOfMore
    <3>2. PICK best \in 1..m :
            Cardinality(Directions(cs)) = 1 =>
              ByPriority(r, cs).candidate = WithNote(cs, best, "AGGREGATED")
      BY <1>3, <1>4, BestComesFirst
    <3>3. Cardinality(Directions(cs)) = 1
      <4>1. Cardinality(Directions(cs)) > 1 => c = NoCandidate
        BY <3>1 DEF ByPriority, Abstains
      <4> QED
        BY <1>3, <4>1, OneDirection
    <3>4. c = WithNote(cs, best, "AGGREGATED")
      BY <3>1, <3>2, <3>3
    <3>5. IsLike(c, cs[best]) /\ c.direction = cs[best].direction
      BY <1>3, <3>4, NotedIsLike
    <3> QED
      BY <1>7, <3>5
  <2>2. CASE r.policy = "UNANIMOUS"
    <3>1. c = Unanimously(cs).candidate
      BY <1>1, <1>9, <2>0, <2>2, DecisionOfMore
    <3>2. c = WithNote(cs, 1, "UNANIMOUS")
      BY <3>1 DEF Unanimously, Emits, Abstains
    <3>3. IsLike(c, cs[1]) /\ c.direction = cs[1].direction
      BY <1>3, <1>4, <3>2, NotedIsLike
    <3> QED
      BY <1>4, <1>7, <3>3
  <2>3. CASE r.policy = "SCORE_WEIGHTED"
    <3>1. c = ByScore(r, cs).candidate
      BY <1>1, <1>9, <2>0, <2>3, DecisionOfMore
    <3>2. \A k \in 1..m : r.weights[k] \in Nat \ {0}
      <4>1. Len(r.weights) = n /\ r.weights \in Seq(Int)
            /\ \A i \in DOMAIN r.weights : r.weights[i] > 0
        BY <1>4, <2>3 DEF IsRunner, ValidComposer, HasNames
      <4>2. \A k \in 1..m : k \in DOMAIN r.weights /\ r.weights[k] \in Int
        BY <1>4, <4>1
      <4> QED
        BY <4>1, <4>2
    <3>3. PICK score : score = WeightedSum(cs, r.weights, 1..m)
      OBVIOUS
    <3>4. /\ score \in Int /\ (score = 0 => c = NoCandidate)
          /\ score # 0 => c.direction = IF score > 0 THEN "BUY" ELSE "SELL"
          /\ Cardinality(Directions(cs)) = 1 => c.direction = cs[1].direction
      BY <1>3, <3>1, <3>2, <3>3, ByScoreDecides
    <3>5. IsLike(c, cs[1])
      <4>1. PICK d \in {"BUY", "SELL"} : d = IF score > 0 THEN "BUY" ELSE "SELL"
        OBVIOUS
      <4>2. PICK note : note = <<"WEIGHTED_SCORE", score>>
        OBVIOUS
      <4>3. note \in Note
        <5>1. note \in {"WEIGHTED_SCORE"} \X Int
          BY <3>4, <4>2
        <5> QED
          BY Zenon, <5>1 DEF Note
      <4>4. DOMAIN cs = 1..m
        BY <1>3 DEF AreCandidates
      <4>5. c = Turned(cs[1], d, note)
        BY <3>1, <3>3, <3>4, <4>1, <4>2, <4>4
           DEF ByScore, WeightedScore, Turned, Emits
      <4> QED
        BY <1>4, <1>6, <4>3, <4>5, CandidateWithReason
    <3>6. CASE c.direction = cs[1].direction
      BY <1>4, <1>7, <3>5, <3>6
    <3>7. CASE c.direction # cs[1].direction
      <4>1. Cardinality(Directions(cs)) > 1
        BY <1>3, <3>4, <3>7, OneDirection
      <4>2. CASE c.direction = "BUY"
        BY <1>4, <1>7, <3>5, <4>2 DEF ValidCandidate
      <4>3. CASE c.direction = "SELL"
        <5>1. cs[1].direction = "BUY"
          BY <1>4, <1>6, <3>7, <4>3 DEF Candidate
        <5> QED
          BY <1>1, <1>4, <1>7, <2>3, <3>5, <4>1, <5>1
      <4> QED
        BY <3>4, <4>2, <4>3
    <3> QED
      BY <3>6, <3>7
  <2> QED
    BY <2>1, <2>2, <2>3 DEF Policy, IsRunner
<1> QED
  BY <1>8, <1>9

-----------------------------------------------------------------------------
(* The latest decision: invariant and theorem *)

\* What has been built, and what it was asked, is in order.
RunnerIsBuilt == runner # NoRunner => IsRunner(runner)
VerdictIsOfRunner ==
  verdict # NoVerdict => runner # NoRunner /\ AreAnswersTo(verdict.answers, runner)
RunnerRuns == outcome = "running" => runner # NoRunner

VerdictInv == RegistryInv /\ RunnerIsBuilt /\ VerdictIsOfRunner /\ RunnerRuns

\* What get builds is of a class, and has an identity.
LEMMA RuntimeIsBuilt ==
  ASSUME RegistryInv, NEW composer \in Composers, NEW source \in ToSet(composer.sources),
         Available(source)
  PROVE  Runtime(source).class \in Class /\ Runtime(source).identity \in Identity
<1>1. ASSUME NEW c \in Class PROVE Plain(c).class \in Class /\ Plain(c).identity \in Identity
  <2>1. Defaults[c].hash \in Hash
    BY DEF Hash
  <2>2. /\ Defaults[c] = [version |-> Defaults[c].version, code |-> Defaults[c].code,
                           hash |-> Defaults[c].hash]
        /\ Defaults[c].version \in Version /\ Defaults[c].code \in Code
    BY RegistryAssumption
  <2>3. Defaults[c] \in Identity
    BY <2>1, <2>2 DEF Identity
  <2> QED
    BY <2>3 DEF Plain
<1>2. CASE source.from = "class"
  <2>1. source.class \in Class
    BY <1>2, ComposersAssumption
  <2>2. Runtime(source) = Plain(source.class)
    BY <1>2 DEF Runtime
  <2> QED
    BY <1>1, <2>1, <2>2
<1>3. CASE source.from = "registry"
  <2>1. source.registry \in Registry /\ source.name \in Name
    BY <1>3, ComposersAssumption
  <2>2. PICK found : found = registrations[source.registry][source.name]
    OBVIOUS
  <2>3. found # Absent
    BY <1>3, <2>2 DEF Available
  <2>4. found \in Registration
    BY <2>1, <2>2, <2>3 DEF RegistryInv, RegistryTypeOK
  <2>5. found.class \in Class /\ found.identity \in Identity
    BY <2>4 DEF Registration
  <2>6. found.params # NoParams =>
          /\ found.identity.hash = ParameterHash(found.params)
          /\ Validated(Schema[found.class], found.params) = found.params
    BY <2>1, <2>2, <2>3 DEF RegistryInv, RegistrationsAgree
  <2>7. Runtime(source) =
          IF found.params = NoParams THEN Plain(found.class)
          ELSE FromParams(found.class, found.params, found.identity.version,
                          found.identity.code)
    BY <1>3, <2>2 DEF Runtime, Get
  <2>8. CASE found.params = NoParams
    BY <1>1, <2>5, <2>7, <2>8
  <2>9. CASE found.params # NoParams
    <3>1. /\ Runtime(source).class = found.class
          /\ Runtime(source).identity =
               [version |-> found.identity.version, code |-> found.identity.code,
                hash |-> found.identity.hash]
      BY <2>6, <2>7, <2>9 DEF FromParams
    <3> QED
      BY <2>5, <3>1 DEF Identity
  <2> QED
    BY <2>8, <2>9
<1> QED
  BY <1>2, <1>3, ComposersAssumption

\* What is composed is in order.
LEMMA ComposedIsRunner ==
  ASSUME RegistryInv, NEW composer \in Composers, Compose(composer)
  PROVE  IsRunner(runner')
<1>1. PICK n : n = Len(composer.sources)
  OBVIOUS
<1>2. /\ n \in Nat /\ DOMAIN composer.sources = 1..n
      /\ \A i \in 1..n : composer.sources[i] \in ToSet(composer.sources)
  <2>1. composer.sources \in Seq(ToSet(composer.sources))
    BY ComposersAssumption
  <2> QED
    BY <1>1, <2>1, SeqOfItsElements
<1>3. PICK rs : rs = [i \in DOMAIN composer.sources |-> Runtime(composer.sources[i])]
  OBVIOUS
<1>4. PICK r : r = [names |-> [i \in DOMAIN rs |-> NameOf[rs[i].class]],
                    policy |-> composer.policy, weights |-> composer.weights, runtimes |-> rs]
  OBVIOUS
<1>5. runner' = r /\ ValidComposer(r)
      /\ \A i \in DOMAIN composer.sources : Available(composer.sources[i])
  BY <1>3, <1>4 DEF Compose
<1>6. \A i \in 1..n : rs[i].class \in Class /\ rs[i].identity \in Identity
  BY <1>2, <1>3, <1>5, RuntimeIsBuilt
<1>7. DOMAIN rs = 1..n /\ rs \in Seq(ToSet(rs))
  <2>1. PICK S : S = {rs[i] : i \in 1..n}
    OBVIOUS
  <2>2. rs \in [1..n -> S]
    BY <1>2, <1>3, <2>1
  <2>3. rs \in Seq(S)
    BY <1>2, <2>2, SeqDef
  <2> QED
    BY <1>2, <1>3, <2>3, SeqOfItsElements
<1>8. composer.weights \in Seq(Int) /\ composer.policy \in Policy
  BY ComposersAssumption
<1>9. /\ r.names = [i \in DOMAIN rs |-> NameOf[rs[i].class]] /\ r.runtimes = rs
      /\ r.weights = composer.weights /\ r.policy = composer.policy
      /\ r = [names |-> r.names, policy |-> r.policy, weights |-> r.weights,
              runtimes |-> r.runtimes]
  BY <1>4
<1>10. IsRunner(r)
  BY <1>5, <1>6, <1>7, <1>8, <1>9 DEF IsRunner
<1> QED
  BY <1>5, <1>10

\* A runner's answers are its runtimes'.
LEMMA AnswersOfRunner ==
  ASSUME NEW r, IsRunner(r), NEW list, NEW bar
  PROVE  AreAnswersTo(Answers(r, list, bar), r)
<1>1. PICK a, s : a = Answers(r, list, bar) /\ s = Snapshot(Window(list), bar)
  OBVIOUS
<1>2. a = [i \in DOMAIN r.runtimes |-> Answer(r.runtimes[i], s)]
  BY <1>1 DEF Answers
<1>3. ASSUME NEW i \in DOMAIN r.runtimes, a[i] # NoCandidate
      PROVE  IsAnswerOf(a[i], r.runtimes[i])
  <2>1. r.runtimes[i].class \in Class /\ r.runtimes[i].identity \in Identity
    BY DEF IsRunner
  <2>2. a[i] = Answer(r.runtimes[i], s)
    BY <1>2
  <2> QED
    BY <1>3, <2>1, <2>2, AnswerIsValid
<1>4. a = [i \in DOMAIN r.runtimes |-> a[i]]
  BY <1>2
<1> QED
  BY <1>1, <1>3, <1>4 DEF AreAnswersTo

\* Every step preserves the invariant.
LEMMA VerdictStep ==
  ASSUME VerdictInv, [Next]_vars
  PROVE  VerdictInv'
<1> USE DEF VerdictInv, RunnerIsBuilt, VerdictIsOfRunner, RunnerRuns
<1>1. RegistryInv'
  <2>1. [RegistryNext]_registryVars
    <3>1. ASSUME NEW request \in Requests, Prepare(request)
          PROVE  RegistryNext
      BY <3>1, PrepareIsRegistryStep
    <3>2. ASSUME Next, \A request \in Requests : ~Prepare(request)
          PROVE  UNCHANGED registryVars
      BY <3>2 DEF Next, Compose, Advance, Start, ProcessBar, Return
    <3> QED
      BY <3>1, <3>2 DEF vars
  <2> QED
    BY <2>1, RegistryStepPreserves
<1>2. ASSUME NEW request \in Requests, Prepare(request)
      PROVE  VerdictInv'
  BY <1>1, <1>2 DEF Prepare, runVars
<1>3. ASSUME NEW composer \in Composers, Compose(composer)
      PROVE  VerdictInv'
  <2>1. IsRunner(runner')
    BY <1>3, ComposedIsRunner
  <2>2. verdict' = NoVerdict /\ outcome' = "none"
    BY <1>3 DEF Compose
  <2> QED
    BY <1>1, <2>1, <2>2
<1>4. CASE Advance
  BY <1>1, <1>4 DEF Advance
<1>5. ASSUME NEW list \in Lists, Start(list)
      PROVE  VerdictInv'
  BY <1>1, <1>5 DEF Start
<1>6. CASE ProcessBar
  <2>1. runner' = runner /\ runner # NoRunner /\ outcome = "running"
    BY <1>6 DEF ProcessBar
  <2>2. verdict'.answers = Answers(runner, Observe(seen, Head(queue)), Head(queue))
    BY <1>6 DEF ProcessBar
  <2>3. AreAnswersTo(Answers(runner, Observe(seen, Head(queue)), Head(queue)), runner)
    BY <2>1, AnswersOfRunner
  <2> QED
    BY <1>1, <2>1, <2>2, <2>3
<1>7. CASE Return
  BY <1>1, <1>7 DEF Return
<1>8. CASE UNCHANGED vars
  BY <1>1, <1>8 DEF vars, runVars
<1> QED
  BY <1>2, <1>3, <1>4, <1>5, <1>6, <1>7, <1>8 DEF Next

\* The weights that the policies are compared under count for something.
LEMMA WeightsCount ==
  ASSUME IsRunner(runner)
  PROVE  Counts(Weights, Len(runner.runtimes))
<1>1. PICK r, n : r = runner /\ n = Len(r.runtimes)
  OBVIOUS
<1>2. PICK c : c = Otherwise(r, "SCORE_WEIGHTED", r.weights)
  OBVIOUS
<1>3. /\ c.policy = "SCORE_WEIGHTED" /\ c.weights = r.weights /\ c.names = r.names
      /\ HasNames(c, n) /\ DOMAIN r.names = 1..n
  BY <1>1, <1>2, OtherRunner
<1>4. c = [r EXCEPT !.policy = "SCORE_WEIGHTED"]
  <2>1. r = [names |-> r.names, policy |-> r.policy, weights |-> r.weights,
             runtimes |-> r.runtimes]
    BY <1>1 DEF IsRunner
  <2> QED
    BY <1>2, <2>1 DEF Otherwise
<1>5. r.weights \in Seq(Int)
  BY <1>1 DEF IsRunner
<1>6. CASE ValidComposer(c)
  <2>1. Len(r.weights) = n /\ \A i \in DOMAIN r.weights : r.weights[i] > 0
    BY <1>3, <1>6 DEF ValidComposer, HasNames
  <2>2. DOMAIN r.weights = 1..n /\ \A i \in 1..n : r.weights[i] \in Int
    BY <1>5, <2>1
  <2>3. Counts(r.weights, n)
    BY <2>1, <2>2 DEF Counts
  <2> QED
    BY <1>1, <1>4, <1>6, <2>3 DEF Weights
<1>7. CASE ~ValidComposer(c)
  <2>1. Weights = [i \in 1..n |-> 1]
    BY <1>1, <1>3, <1>4, <1>7 DEF Weights
  <2> QED
    BY <1>1, <2>1 DEF Counts
<1> QED
  BY <1>6, <1>7

\* Whatever the strategies answered to the latest bar: under each policy, candidates of
\* one direction make one of that direction, of the strategy that comes first, or none
\* under UNANIMOUS; and of candidates that disagree only SCORE_WEIGHTED makes one, in
\* the direction that has the larger weighted score, if no runtime before was silent.
THEOREM PoliciesDifferOnlyOnConflicts == Spec => []PoliciesDifferOnConflictsOnly
<1>1. Init => VerdictInv
  BY RegistryInitEstablishes
     DEF Init, VerdictInv, RunnerIsBuilt, VerdictIsOfRunner, RunnerRuns
<1>2. VerdictInv /\ [Next]_vars => VerdictInv'
  BY VerdictStep
<1>3. VerdictInv => PoliciesDifferOnConflictsOnly
  <2> SUFFICES ASSUME VerdictInv, verdict # NoVerdict, Proposed # <<>>
               PROVE  PoliciesDifferOnConflictsOnly
    BY DEF PoliciesDifferOnConflictsOnly
  <2>1. PICK r, a, w : r = runner /\ a = verdict.answers /\ w = Weights
    OBVIOUS
  <2>2. IsRunner(r) /\ AreAnswersTo(a, r) /\ Candidates(a) # <<>>
    BY <2>1 DEF VerdictInv, RunnerIsBuilt, VerdictIsOfRunner, Proposed
  <2>3. Counts(w, Len(r.runtimes))
    BY <2>1, <2>2, WeightsCount
  <2>4. \A policy : Under(policy) = Decide(Otherwise(r, policy, w), a).candidate
    BY <2>1 DEF Under, Otherwise
  <2>5. Proposed = Candidates(a)
    BY <2>1 DEF Proposed
  <2>6. CASE Cardinality(Directions(Candidates(a))) = 1
    <3>1. \A policy \in Policy :
            /\ Under(policy) = NoCandidate => policy = "UNANIMOUS"
            /\ Under(policy) # NoCandidate =>
                 /\ Under(policy).direction = Candidates(a)[1].direction
                 /\ (\A i, j \in DOMAIN r.names : r.names[i] = r.names[j] => i = j) =>
                      Under(policy).name = Candidates(a)[1].name
      BY <2>2, <2>3, <2>4, <2>6, AgreedDecision
    <3> QED
      BY <2>1, <2>5, <2>6, <3>1 DEF PoliciesDifferOnConflictsOnly
  <2>7. CASE Cardinality(Directions(Candidates(a))) # 1
    <3>1. PICK total : total = WeightedSum(a, w, {i \in DOMAIN r.names : a[i] # NoCandidate})
      OBVIOUS
    <3>2. /\ Under("UNANIMOUS") = NoCandidate
          /\ Under("PRIORITY_MAX_CONFIDENCE") = NoCandidate
          /\ (\A i \in DOMAIN Candidates(a) : a[i] # NoCandidate) =>
               (IF Under("SCORE_WEIGHTED") = NoCandidate THEN 0
                ELSE Sign(Under("SCORE_WEIGHTED").direction))
                 = (IF total > 0 THEN 1 ELSE IF total < 0 THEN -1 ELSE 0)
      BY <2>2, <2>3, <2>4, <2>7, <3>1, DisputedDecision
    <3> QED
      BY <2>1, <2>5, <2>7, <3>1, <3>2 DEF PoliciesDifferOnConflictsOnly
  <2> QED
    BY <2>6, <2>7
<1> QED
  BY <1>1, <1>2, <1>3, PTL DEF Spec

-----------------------------------------------------------------------------
(* The latest call: invariant and theorem *)

\* Sorted has the bars of a list, by their times.
LEMMA SortedProperties ==
  ASSUME NEW list \in Lists
  PROVE  /\ Sorted(list) \in Seq(ToSet(list)) /\ Len(Sorted(list)) = Len(list)
         /\ \A i, j \in 1..Len(list) : i < j => Sorted(list)[i].time <= Sorted(list)[j].time
         /\ DistinctTimes(list) =>
              \A i, j \in 1..Len(list) : i < j => Sorted(list)[i].time < Sorted(list)[j].time
         /\ \A b \in ToSet(list) : \E i \in 1..Len(list) : Sorted(list)[i] = b
<1>1. /\ list \in Seq(ToSet(list)) /\ Len(list) \in Nat /\ DOMAIN list = 1..Len(list)
      /\ \A i \in 1..Len(list) : list[i] \in ToSet(list) /\ list[i].time \in Int
      /\ \A b \in ToSet(list) : \E i \in 1..Len(list) : list[i] = b
  <2>1. list \in Seq(ToSet(list)) /\ \A bar \in ToSet(list) : bar.time \in Int
    BY ListsAssumption DEF Time
  <2> QED
    BY <2>1, SeqOfItsElements
<1> PICK n \in Nat : n = Len(list)
  BY <1>1
<1> DEFINE D == 1..n
           before(i, j) == \/ list[i].time < list[j].time
                           \/ list[i].time = list[j].time /\ i < j
           Sooner == {pair \in D \X D : before(pair[1], pair[2])}
           order == Ranked(D, Sooner)
<1>2. IsFiniteSet(D) /\ Cardinality(D) = n
  BY NumbersUpTo
<1>3. Sorts(order, D, Sooner)
  <2>1. \A x, y \in D : <<x, y>> \in Sooner <=> before(x, y)
    OBVIOUS
  <2>2. \A x \in D : list[x].time \in Int /\ x \in Int
    BY <1>1
  <2> HIDE DEF D, Sooner, order
  <2>3. \A x \in D : <<x, x>> \notin Sooner
    BY <2>1, <2>2
  <2>4. \A x, y \in D : x # y => <<x, y>> \in Sooner \/ <<y, x>> \in Sooner
    BY <2>1, <2>2
  <2>5. \A x, y, z \in D : <<x, y>> \in Sooner /\ <<y, z>> \in Sooner => <<x, z>> \in Sooner
    <3> HIDE DEF before
    <3> SUFFICES ASSUME NEW x \in D, NEW y \in D, NEW z \in D, before(x, y), before(y, z)
                 PROVE  before(x, z)
      BY <2>1
    <3> USE DEF before
    <3> QED
      BY <2>2
  <2>6. order = Ranked(D, Sooner)
    BY DEF order
  <2> QED
    BY <1>2, <2>3, <2>4, <2>5, <2>6, RankedSorts
<1>4. Sorted(list) = [k \in DOMAIN order |-> list[order[k]]]
  BY <1>1 DEF Sorted
<1> HIDE DEF order
<1>5. /\ order \in [1..n -> D] /\ DOMAIN order = 1..n
      /\ \A i, j \in 1..n : i < j => <<order[i], order[j]>> \in Sooner
      /\ \A x \in D : \E i \in 1..n : order[i] = x
  <2> HIDE DEF D, Sooner
  <2> QED
    BY <1>2, <1>3 DEF Sorts
<1>6. \A i, j \in 1..n : i < j => before(order[i], order[j])
  <2>1. \A i, j \in 1..n : <<order[i], order[j]>> \in Sooner => before(order[i], order[j])
    OBVIOUS
  <2> HIDE DEF before, Sooner, D
  <2> QED
    BY <1>5, <2>1
<1> PICK r : r = Sorted(list)
  OBVIOUS
<1>7. \A k \in 1..n : r[k] = list[order[k]] /\ order[k] \in 1..n
  BY <1>4, <1>5
<1>8. r \in Seq(ToSet(list)) /\ Len(r) = n
  <2>1. r \in [1..n -> ToSet(list)]
    BY <1>1, <1>4, <1>5, <1>7
  <2> QED
    BY <2>1, SeqDef, LenProperties
<1>9. ASSUME NEW i \in 1..n, NEW j \in 1..n, i < j
       PROVE  /\ r[i].time <= r[j].time
              /\ DistinctTimes(list) => r[i].time < r[j].time
  <2>1. before(order[i], order[j])
    BY <1>6, <1>9
  <2>2. r[i] = list[order[i]] /\ r[j] = list[order[j]] /\ order[i] \in 1..n /\ order[j] \in 1..n
    BY <1>7
  <2>3. r[i].time \in Int /\ r[j].time \in Int
    BY <1>1, <2>2
  <2>4. r[i].time < r[j].time \/ (r[i].time = r[j].time /\ order[i] < order[j])
    BY <2>1, <2>2
  <2>5. DistinctTimes(list) => r[i].time # r[j].time
    <3> SUFFICES ASSUME DistinctTimes(list), r[i].time = r[j].time PROVE FALSE
      OBVIOUS
    <3>1. order[i] = order[j]
      BY <1>1, <2>2 DEF DistinctTimes
    <3>2. order[i] < order[j]
      BY <2>3, <2>4
    <3> QED
      BY <2>2, <3>1, <3>2
  <2> QED
    BY <2>3, <2>4, <2>5
<1>10. ASSUME NEW b \in ToSet(list) PROVE \E i \in 1..n : r[i] = b
  <2>1. PICK k \in 1..n : list[k] = b
    BY <1>1
  <2>2. PICK i \in 1..n : order[i] = k
    BY <1>5
  <2> QED
    BY <1>7, <2>1, <2>2
<1> QED
  BY <1>8, <1>9, <1>10

\* The latest call of run_bars.
Latest == past[Len(past)]

\* The queue has bars of the list that the call was given, at the time of the call.
CallIsOnItsList ==
  /\ clock \in Int
  /\ past \in Seq(ToSet(past))
  /\ past = <<>> => signals = {} /\ outcome = "none"
  /\ outcome = "running" =>
       /\ past # <<>> /\ Latest.list \in Lists /\ Latest.clock = clock
       /\ queue \in Seq(ToSet(Latest.list))

\* In the first call, what is in the queue is not stored.
FirstCallIsFresh ==
  outcome = "running" /\ Len(past) = 1 /\ DistinctTimes(past[1].list) =>
    /\ DistinctTimes(queue)
    /\ \A e \in signals : \A i \in DOMAIN queue : e.id.time # queue[i].time

FailureInv == VerdictInv /\ CallIsOnItsList /\ FirstCallIsFresh /\ FailuresHaveCauses

\* A call ends only as Refusal says.
LEMMA RefusalCases ==
  ASSUME NEW c, NEW event, clock \in Int, event.time \in Int
  PROVE  LET why == Refusal(c, event) IN
         /\ why = "invalid" => ~ValidCandidate(c)
         /\ why = "unfrozen" => FreezeFails(c)
         /\ why = "early" => clock < event.time
         /\ why = "conflict" => \E e \in signals : e.id = event.id /\ e # event
         /\ why \in {"invalid", "unfrozen", "early", "conflict", "none"}
<1>1. PICK other : other = \E e \in signals : e.id = event.id /\ e # event
  OBVIOUS
<1>2. clock < event.time \/ clock >= event.time
  OBVIOUS
<1>3. CASE ~ValidCandidate(c)
  BY <1>3 DEF Refusal
<1>4. CASE ValidCandidate(c) /\ FreezeFails(c)
  BY <1>4 DEF Refusal
<1>5. CASE ValidCandidate(c) /\ ~FreezeFails(c) /\ clock < event.time
  <2>1. ~(clock >= event.time)
    BY <1>5
  <2> QED
    BY <1>5, <2>1 DEF Refusal
<1>6. CASE ValidCandidate(c) /\ ~FreezeFails(c) /\ clock >= event.time
  <2>1. ~(clock < event.time)
    BY <1>6
  <2> QED
    BY <1>6, <2>1 DEF Refusal
<1> QED
  BY <1>2, <1>3, <1>4, <1>5, <1>6

\* What ProcessBar does with the bar that it takes.
LEMMA BarTaken ==
  ASSUME VerdictInv, CallIsOnItsList, ProcessBar
  PROVE  \E bar, c, event :
           /\ bar = Head(queue) /\ bar \in ToSet(Latest.list) /\ bar.time \in Int
           /\ c = Decide(runner, verdict'.answers).candidate
           /\ verdict'.answers = Answers(runner, Observe(seen, bar), bar)
           /\ event = Event(c, bar, Window(Observe(seen, bar)), clock)
           /\ event.time = bar.time /\ event.id.time = bar.time
           /\ IsRunner(runner) /\ AreAnswersTo(verdict'.answers, runner)
           /\ \/ c = NoCandidate /\ queue' = Tail(queue) /\ UNCHANGED <<outcome, signals>>
              \/ /\ c # NoCandidate /\ Refusal(c, event) = "none"
                 /\ signals' = signals \cup {event}
                 /\ queue' = Tail(queue) /\ UNCHANGED outcome
              \/ /\ c # NoCandidate /\ Refusal(c, event) # "none"
                 /\ outcome' = Refusal(c, event) /\ UNCHANGED signals
<1>1. PICK bar, a, c, event :
        /\ bar = Head(queue) /\ a = Answers(runner, Observe(seen, bar), bar)
        /\ c = Decide(runner, a).candidate
        /\ event = Event(c, bar, Window(Observe(seen, bar)), clock)
  OBVIOUS
<1>2. verdict'.answers = a /\ outcome = "running" /\ queue # <<>>
  BY <1>1 DEF ProcessBar
<1>3. IsRunner(runner)
  BY <1>2 DEF VerdictInv, RunnerIsBuilt, RunnerRuns
<1>4. AreAnswersTo(a, runner)
  BY <1>1, <1>3, AnswersOfRunner
<1>5. PICK list : list = Latest.list
  OBVIOUS
<1>6. list \in Lists /\ queue \in Seq(ToSet(list))
  BY <1>2, <1>5 DEF CallIsOnItsList
<1>7. bar \in ToSet(list)
  BY <1>1, <1>2, <1>6, TailElements
<1>8. bar.time \in Int
  BY <1>6, <1>7, ListsAssumption DEF Time
<1>9. event.time = bar.time /\ event.id.time = bar.time
  BY <1>1 DEF Event, SignalId
<1>10. \/ c = NoCandidate /\ queue' = Tail(queue) /\ UNCHANGED <<outcome, signals>>
       \/ /\ c # NoCandidate /\ Refusal(c, event) = "none"
          /\ signals' = signals \cup {event}
          /\ queue' = Tail(queue) /\ UNCHANGED outcome
       \/ /\ c # NoCandidate /\ Refusal(c, event) # "none"
          /\ outcome' = Refusal(c, event) /\ UNCHANGED signals
  BY <1>1 DEF ProcessBar
<1> QED
  BY Zenon, <1>1, <1>2, <1>3, <1>4, <1>5, <1>7, <1>8, <1>9, <1>10

\* A step that ends no call, and the queue.
LEMMA QuietStep ==
  ASSUME FailureInv, VerdictInv', clock' \in Int, UNCHANGED <<past, signals>>,
         outcome' \in {"none", "returned"}, past = <<>> => outcome' = "none"
  PROVE  FailureInv'
BY DEF FailureInv, CallIsOnItsList, FirstCallIsFresh, FailuresHaveCauses

\* A call starts with the bars of its list in the queue.
LEMMA StartStep ==
  ASSUME FailureInv, VerdictInv', NEW list \in Lists, Start(list)
  PROVE  FailureInv'
<1>1. PICK x, p : /\ x = [runner |-> runner, list |-> list, clock |-> clock, fresh |-> seen = <<>>]
                  /\ p = Append(past, x)
  OBVIOUS
<1>2. /\ past' = p /\ queue' = Sorted(list) /\ outcome' = "running"
      /\ UNCHANGED <<clock, signals>>
  BY <1>1 DEF Start
<1>3. past \in Seq(ToSet(past)) /\ clock \in Int
  BY DEF FailureInv, CallIsOnItsList
<1>4. /\ p \in Seq(ToSet(p)) /\ Len(past) \in Nat /\ Len(p) = Len(past) + 1
      /\ DOMAIN p = 1..(Len(past) + 1) /\ p[Len(past) + 1] = x
  <2>1. PICK S, s : past = s /\ s \in Seq(S)
    BY <1>3
  <2>2. p = Append(s, x)
    BY <1>1, <2>1
  <2>3. /\ p \in Seq(ToSet(p)) /\ Len(s) \in Nat /\ Len(p) = Len(s) + 1
        /\ DOMAIN p = 1..(Len(s) + 1) /\ p[Len(s) + 1] = x
    BY <2>1, <2>2, AppendedElements
  <2> QED
    BY <2>1, <2>3
<1>m. PICK m \in Nat : m = Len(past) /\ Len(p) = m + 1
  BY <1>4
<1>5. p # <<>> /\ p[Len(p)] = x
  BY <1>4
<1>6. /\ Sorted(list) \in Seq(ToSet(list)) /\ Len(Sorted(list)) = Len(list)
      /\ DistinctTimes(list) =>
           \A i, j \in 1..Len(list) : i < j => Sorted(list)[i].time < Sorted(list)[j].time
  BY SortedProperties
<1>7. CallIsOnItsList'
  <2>1. Latest' = x /\ x.list = list /\ x.clock = clock
    BY <1>1, <1>2, <1>5 DEF Latest
  <2>2. /\ clock' \in Int /\ past' \in Seq(ToSet(past')) /\ past' # <<>>
        /\ outcome' = "running"
    BY <1>2, <1>3, <1>4, <1>5
  <2>3. Latest'.list \in Lists /\ Latest'.clock = clock' /\ queue' \in Seq(ToSet(Latest'.list))
    BY <1>2, <1>6, <2>1
  <2> QED
    BY <2>2, <2>3 DEF CallIsOnItsList
<1>8. FirstCallIsFresh'
  <2> SUFFICES ASSUME Len(past') = 1, DistinctTimes(past'[1].list)
               PROVE  /\ DistinctTimes(queue')
                      /\ \A e \in signals' : \A i \in DOMAIN queue' : e.id.time # queue'[i].time
    BY DEF FirstCallIsFresh, DistinctTimes
  <2>0. past' = p
    BY <1>2
  <2>1. Len(past) = 0
    <3>1. Len(p) = 1
      BY <2>0
    <3> QED
      BY <1>m, <3>1
  <2>2. past = <<>>
    BY <1>3, <2>1
  <2>3. signals' = {}
    BY <1>2, <2>2 DEF FailureInv, CallIsOnItsList
  <2>4. p[1].list = list
    BY <1>1, <1>4, <2>1
  <2>5. PICK s : s = Sorted(list)
    OBVIOUS
  <2>6. \A i, j \in 1..Len(list) : i < j => s[i].time < s[j].time
    BY <1>6, <2>0, <2>4, <2>5
  <2>7. DOMAIN s = 1..Len(list) /\ Len(list) \in Nat /\ \A i \in DOMAIN s : s[i] \in ToSet(list)
    BY <1>6, <2>5, SeqOfItsElements
  <2>8. \A i \in DOMAIN s : s[i].time \in Int
    BY <2>7, ListsAssumption DEF Time
  <2>9. DistinctTimes(s)
    <3> SUFFICES ASSUME NEW i \in DOMAIN s, NEW j \in DOMAIN s, s[i].time = s[j].time, i # j
                 PROVE  FALSE
      BY DEF DistinctTimes
    <3>1. i < j \/ j < i
      BY <2>7
    <3>2. s[i].time < s[j].time \/ s[j].time < s[i].time
      BY <2>6, <2>7, <3>1
    <3> QED
      BY <2>8, <3>2
  <2> QED
    BY <1>2, <2>3, <2>5, <2>9
<1>9. FailuresHaveCauses'
  BY <1>2 DEF FailuresHaveCauses
<1> QED
  BY <1>7, <1>8, <1>9 DEF FailureInv

\* A bar is taken from the queue, and a call ends early only for a cause.
LEMMA BarStep ==
  ASSUME FailureInv, VerdictInv', ProcessBar
  PROVE  FailureInv'
<1>1. PICK bar, c, event :
        /\ bar = Head(queue) /\ bar \in ToSet(Latest.list) /\ bar.time \in Int
        /\ c = Decide(runner, verdict'.answers).candidate
        /\ event.time = bar.time /\ event.id.time = bar.time
        /\ IsRunner(runner) /\ AreAnswersTo(verdict'.answers, runner)
        /\ \/ c = NoCandidate /\ queue' = Tail(queue) /\ UNCHANGED <<outcome, signals>>
           \/ /\ c # NoCandidate /\ Refusal(c, event) = "none"
              /\ signals' = signals \cup {event}
              /\ queue' = Tail(queue) /\ UNCHANGED outcome
           \/ /\ c # NoCandidate /\ Refusal(c, event) # "none"
              /\ outcome' = Refusal(c, event) /\ UNCHANGED signals
  BY BarTaken DEF FailureInv
<1>2. /\ outcome = "running" /\ queue # <<>>
      /\ UNCHANGED <<registryVars, checked, runner, clock, past>>
  BY DEF ProcessBar
<1>3. PICK list : list = Latest.list
  OBVIOUS
<1>4. /\ clock \in Int /\ past \in Seq(ToSet(past)) /\ past # <<>>
      /\ list \in Lists /\ Latest.clock = clock /\ queue \in Seq(ToSet(list))
  BY <1>2, <1>3 DEF FailureInv, CallIsOnItsList
<1>5. /\ Head(queue) = queue[1] /\ 1 \in DOMAIN queue
      /\ Tail(queue) \in Seq(ToSet(list))
      /\ \A i \in DOMAIN Tail(queue) : /\ i + 1 \in DOMAIN queue /\ i \in Nat \ {0}
                                       /\ Tail(queue)[i] = queue[i + 1]
  BY <1>2, <1>4, TailElements
<1>6. CASE outcome' = "running"
  <2>1. queue' = Tail(queue) /\ (signals' = signals \/ signals' = signals \cup {event})
    <3>1. CASE c # NoCandidate /\ Refusal(c, event) # "none" /\ outcome' = Refusal(c, event)
      <4>1. Refusal(c, event) \in {"invalid", "unfrozen", "early", "conflict", "none"}
        BY <1>1, <1>4, RefusalCases
      <4> QED
        BY <1>6, <3>1, <4>1
    <3> QED
      BY <1>1, <3>1
  <2>2. CallIsOnItsList'
    BY <1>2, <1>3, <1>4, <1>5, <1>6, <2>1 DEF CallIsOnItsList, Latest
  <2>3. FirstCallIsFresh'
    <3> SUFFICES ASSUME Len(past) = 1, DistinctTimes(past[1].list)
                 PROVE  /\ DistinctTimes(queue')
                        /\ \A e \in signals' : \A i \in DOMAIN queue' :
                             e.id.time # queue'[i].time
      BY <1>2 DEF FirstCallIsFresh, DistinctTimes
    <3>1. /\ \A i, j \in DOMAIN queue : queue[i].time = queue[j].time => i = j
          /\ \A e \in signals : \A i \in DOMAIN queue : e.id.time # queue[i].time
      BY <1>2 DEF FailureInv, FirstCallIsFresh, DistinctTimes
    <3>2. PICK q : q = Tail(queue)
      OBVIOUS
    <3>3. \A i \in DOMAIN q : /\ i + 1 \in DOMAIN queue /\ i \in Nat \ {0}
                              /\ q[i] = queue[i + 1]
      BY <1>5, <3>2
    <3>4. DistinctTimes(q)
      <4> SUFFICES ASSUME NEW i \in DOMAIN q, NEW j \in DOMAIN q, q[i].time = q[j].time
                   PROVE  i = j
        BY DEF DistinctTimes
      <4>1. i + 1 = j + 1
        BY <3>1, <3>3
      <4> QED
        BY <3>3, <4>1
    <3>5. ASSUME NEW e \in signals', NEW i \in DOMAIN q
          PROVE  e.id.time # q[i].time
      <4>1. i + 1 \in DOMAIN queue /\ q[i] = queue[i + 1] /\ i + 1 # 1
        BY <3>3
      <4>2. CASE e \in signals
        BY <3>1, <4>1, <4>2
      <4>3. CASE e = event
        <5>1. event.id.time = queue[1].time
          BY <1>1, <1>5
        <5> QED
          BY <1>5, <3>1, <4>1, <4>3, <5>1
      <4> QED
        BY <2>1, <4>2, <4>3
    <3> QED
      BY <2>1, <3>2, <3>4, <3>5
  <2>4. FailuresHaveCauses'
    BY <1>6 DEF FailuresHaveCauses
  <2> QED
    BY <2>2, <2>3, <2>4 DEF FailureInv
<1>7. CASE outcome' # "running"
  <2>1. c # NoCandidate /\ outcome' = Refusal(c, event) /\ UNCHANGED signals
    BY <1>1, <1>2, <1>7
  <2>2. /\ outcome' = "invalid" => ~ValidCandidate(c)
        /\ outcome' = "unfrozen" => FreezeFails(c)
        /\ outcome' = "early" => clock < event.time
        /\ outcome' = "conflict" => \E e \in signals : e.id = event.id /\ e # event
    BY <1>1, <1>4, <2>1, RefusalCases
  <2>3. PICK r, a : r = runner /\ a = verdict'.answers
    OBVIOUS
  <2>4. /\ \E i \in DOMAIN r.runtimes : c.name = NameOf[r.runtimes[i].class]
                                        /\ c.identity = r.runtimes[i].identity
        /\ \/ ValidCandidate(c)
           \/ /\ r.policy = "SCORE_WEIGHTED"
              /\ Candidates(a)[1].direction = "BUY"
              /\ Cardinality(Directions(Candidates(a))) > 1
    BY <1>1, <2>1, <2>3, DecisionIsLike
  <2>5. CallIsOnItsList' /\ FirstCallIsFresh'
    BY <1>2, <1>4, <1>7 DEF CallIsOnItsList, FirstCallIsFresh
  <2>6. outcome' = "invalid" => /\ runner'.policy = "SCORE_WEIGHTED"
                                /\ Proposed'[1].direction = "BUY"
                                /\ Cardinality(Directions(Proposed')) > 1
    <3>1. Proposed' = Candidates(a)
      BY <2>3 DEF Proposed
    <3> QED
      BY <1>2, <2>2, <2>3, <2>4, <3>1
  <2>7. outcome' = "unfrozen" => \E i \in DOMAIN runner'.runtimes : ~IsFrozen(runner'.runtimes[i])
    BY <1>2, <2>2, <2>3, <2>4 DEF FreezeFails, IsFrozen
  <2>8. outcome' = "early" =>
          \E b \in ToSet(past'[Len(past')].list) : past'[Len(past')].clock < b.time
    BY <1>1, <1>2, <1>3, <1>4, <2>2 DEF Latest
  <2>9. outcome' = "conflict" => Len(past') > 1 \/ ~DistinctTimes(past'[1].list)
    <3>0. PICK n, first : n = Len(past) /\ first = past[1].list
      OBVIOUS
    <3>1. n \in Nat /\ n # 0
      BY <1>4, <3>0
    <3>2. n = 1 \/ n > 1
      BY <3>1
    <3>3. past' = past
      BY <1>2
    <3> SUFFICES ASSUME outcome' = "conflict", n = 1, DistinctTimes(first)
                 PROVE  FALSE
      BY <3>0, <3>2, <3>3
    <3> USE <3>0
    <3>4. PICK e \in signals : e.id = event.id
      BY <2>2
    <3>5. e.id.time # queue[1].time
      BY <1>2, <1>5 DEF FailureInv, FirstCallIsFresh
    <3> QED
      BY <1>1, <1>5, <3>4, <3>5
  <2>10. FailuresHaveCauses'
    BY <2>6, <2>7, <2>8, <2>9, <1>2 DEF FailuresHaveCauses, IsFrozen, IsStrategyFrozen, registryVars
  <2> QED
    BY <2>5, <2>10 DEF FailureInv
<1> QED
  BY <1>6, <1>7

\* The invariant holds of every run.
LEMMA FailureIsInvariant == Spec => []FailureInv
<1>1. Init => FailureInv
  <2> SUFFICES ASSUME Init PROVE FailureInv
    OBVIOUS
  <2>1. VerdictInv
    BY RegistryInitEstablishes
       DEF Init, VerdictInv, RunnerIsBuilt, VerdictIsOfRunner, RunnerRuns
  <2>2. clock \in Int
    BY ListsAssumption DEF Init
  <2>3. past \in Seq(ToSet(past))
    BY DEF Init
  <2> QED
    BY <2>1, <2>2, <2>3 DEF Init, FailureInv, CallIsOnItsList, FirstCallIsFresh, FailuresHaveCauses
<1>2. FailureInv /\ [Next]_vars => FailureInv'
  <2> SUFFICES ASSUME FailureInv, [Next]_vars PROVE FailureInv'
    OBVIOUS
  <2>0. VerdictInv' /\ clock \in Int
    BY VerdictStep DEF FailureInv, CallIsOnItsList
  <2>1. ASSUME NEW request \in Requests, Prepare(request) PROVE FailureInv'
    <3>1. UNCHANGED <<past, signals, outcome, clock>> /\ past = <<>>
      BY <2>1 DEF Prepare, runVars
    <3>2. outcome' = "none"
      BY <3>1 DEF FailureInv, CallIsOnItsList
    <3> QED
      BY <2>0, <3>1, <3>2, QuietStep
  <2>2. ASSUME NEW composer \in Composers, Compose(composer) PROVE FailureInv'
    BY <2>0, <2>2, QuietStep DEF Compose
  <2>3. CASE Advance
    <3>1. clock' \in Int
      BY <2>3, ListsAssumption DEF Advance
    <3>2. UNCHANGED <<registryVars, runner, outcome, signals, verdict, past>> /\ outcome # "running"
      BY <2>3 DEF Advance, Idle
    <3>3. CallIsOnItsList' /\ FirstCallIsFresh'
      BY <3>1, <3>2 DEF FailureInv, CallIsOnItsList, FirstCallIsFresh
    <3>4. FailuresHaveCauses'
      BY <3>2 DEF FailureInv, FailuresHaveCauses, IsFrozen, IsStrategyFrozen, registryVars,
                  Proposed
    <3> QED
      BY <2>0, <3>3, <3>4 DEF FailureInv
  <2>4. ASSUME NEW list \in Lists, Start(list) PROVE FailureInv'
    BY <2>0, <2>4, StartStep
  <2>5. CASE ProcessBar
    BY <2>0, <2>5, BarStep
  <2>6. CASE Return
    <3>1. UNCHANGED <<past, signals, clock>> /\ outcome' = "returned" /\ outcome = "running"
      BY <2>6 DEF Return
    <3>2. past # <<>>
      BY <3>1 DEF FailureInv, CallIsOnItsList
    <3> QED
      BY <2>0, <3>1, <3>2, QuietStep
  <2>7. CASE UNCHANGED vars
    <3>1. UNCHANGED <<registryVars, runner, outcome, signals, verdict, past, clock, queue>>
      BY <2>7 DEF vars, runVars
    <3>2. CallIsOnItsList' /\ FirstCallIsFresh'
      BY <3>1 DEF FailureInv, CallIsOnItsList, FirstCallIsFresh, Latest
    <3>3. FailuresHaveCauses'
      BY <3>1 DEF FailureInv, FailuresHaveCauses, IsFrozen, IsStrategyFrozen, registryVars,
                  Proposed
    <3> QED
      BY <2>0, <3>2, <3>3 DEF FailureInv
  <2> QED
    BY <2>1, <2>2, <2>3, <2>4, <2>5, <2>6, <2>7 DEF Next
<1> QED
  BY <1>1, <1>2, PTL DEF Spec

\* A call of run_bars ends early only for one of four reasons.
THEOREM FailuresAreCaused == Spec => []FailuresHaveCauses
<1>1. FailureInv => FailuresHaveCauses
  BY DEF FailureInv
<1> QED
  BY <1>1, FailureIsInvariant, PTL

-----------------------------------------------------------------------------
(* Replays: lemmas *)

\* The first so many elements of a sequence.
First(s, k) == [i \in 1..k |-> s[i]]
Rest(s, k, n) == [i \in 1..(n - k) |-> s[k + i]]

\* The engine that has seen the bars before one and is given it has the bars up to
\* its time.
LEMMA ObservedInOrder ==
  ASSUME NEW B, NEW n \in Nat, NEW s, TimeOrdered(s, B, n), \A b \in B : b.time \in Int,
         NEW k \in Nat, k < n
  PROVE  /\ Observe(First(s, k), s[k + 1]) = First(s, k + 1)
         /\ UpTo(B, s[k + 1].time) = First(s, k + 1)
<1>1. /\ s \in [1..n -> B] /\ \A i, j \in 1..n : i < j => s[i].time < s[j].time
      /\ \A b \in B : \E i \in 1..n : s[i] = b
  BY DEF TimeOrdered
<1>2. /\ k + 1 \in 1..n /\ \A i \in 1..k : i \in 1..n /\ i < k + 1
      /\ \A i \in 1..(k + 1) : i \in 1..n /\ (i = k + 1 \/ i \in 1..k)
  OBVIOUS
<1>3. PICK bar, t : bar = s[k + 1] /\ t = First(s, k)
  OBVIOUS
<1>4. bar \in B /\ bar.time \in Int /\ \A i \in 1..k : s[i] \in B /\ s[i].time \in Int
      /\ s[i].time < bar.time
  BY <1>1, <1>2, <1>3
<1>5. t \in Seq(B) /\ Len(t) = k
  <2>1. t \in [1..k -> B]
    BY <1>3, <1>4 DEF First
  <2> QED
    BY <2>1, SeqDef
<1>6. Observe(t, bar) = First(s, k + 1)
  <2>1. {i \in DOMAIN t : t[i].time <= bar.time} = 1..k
    BY <1>3, <1>4 DEF First
  <2>2. Cardinality(1..k) = k
    BY NumbersUpTo
  <2>3. Observe(t, bar) = InsertAt(t, Len(t) + 1, bar)
    BY <1>5, <2>1, <2>2 DEF Observe
  <2>4. Observe(t, bar) = Append(t, bar)
    BY <1>4, <1>5, <2>3, InsertedLast
  <2>5. PICK u : u = Append(t, bar)
    OBVIOUS
  <2>6. u \in [1..(k + 1) -> B] /\ u[k + 1] = bar /\ \A i \in 1..k : u[i] = t[i]
    <3>1. u \in Seq(B) /\ Len(u) = k + 1 /\ u[k + 1] = bar /\ \A i \in 1..k : u[i] = t[i]
      BY <1>4, <1>5, <2>5, AppendProperties
    <3> QED
      BY <3>1
  <2>7. \A i \in 1..(k + 1) : u[i] = s[i]
    BY <1>2, <1>3, <2>6 DEF First
  <2>8. u = [i \in 1..(k + 1) |-> u[i]]
    BY <2>6
  <2>9. u = First(s, k + 1)
    BY <2>7, <2>8 DEF First
  <2> QED
    BY <2>4, <2>5, <2>9
<1>7. UpTo(B, bar.time) = First(s, k + 1)
  <2>1. PICK C, v : C = {b \in B : b.time <= bar.time} /\ v = First(s, k + 1)
    OBVIOUS
  <2>2. v \in [1..(k + 1) -> C]
    BY <1>2, <1>3, <1>4, <2>1 DEF First
  <2>3. ASSUME NEW i \in 1..(k + 1), NEW j \in 1..(k + 1), i < j
        PROVE  v[i].time < v[j].time
    BY <1>1, <1>2, <2>1, <2>3 DEF First
  <2>4. ASSUME NEW b \in C PROVE \E i \in 1..(k + 1) : v[i] = b
    <3>1. PICK i \in 1..n : s[i] = b
      BY <1>1, <2>1
    <3>2. b.time <= bar.time /\ b.time \in Int
      BY <2>1
    <3>3. i <= k + 1
      <4>1. k + 1 < i => bar.time < b.time
        BY <1>1, <1>2, <1>3, <3>1
      <4> QED
        BY <1>4, <3>2, <4>1
    <3>4. i \in 1..(k + 1)
      BY <3>3
    <3> QED
      BY <2>1, <3>1, <3>4 DEF First
  <2>5. \A b \in C : b.time \in Int
    BY <2>1
  <2>6. v = ByTime(C)
    <3>1. k + 1 \in Nat
      OBVIOUS
    <3> QED
      BY <3>1, <2>2, <2>3, <2>4, <2>5, ByTimeIsUnique
  <2> QED
    BY <2>1, <2>6 DEF UpTo
<1> QED
  BY <1>3, <1>6, <1>7

\* The rest of a sequence starts with the next element.
LEMMA RestProperties ==
  ASSUME NEW B, NEW n \in Nat, NEW s \in [1..n -> B], NEW k \in Nat, k <= n
  PROVE  /\ Rest(s, k, n) # <<>> => k < n
         /\ Rest(s, k, n) = <<>> => k = n
         /\ k < n => Head(Rest(s, k, n)) = s[k + 1] /\ Tail(Rest(s, k, n)) = Rest(s, k + 1, n)
<1>1. PICK m \in Nat : m = n - k
  OBVIOUS
<1>2. PICK q : q = Rest(s, k, n)
  OBVIOUS
<1>3. q = [i \in 1..m |-> s[k + i]]
  BY <1>1, <1>2 DEF Rest
<1>4. \A i \in 1..m : k + i \in 1..n
  BY <1>1
<1>5. q \in [1..m -> B]
  BY <1>3, <1>4
<1>6. q \in Seq(B) /\ Len(q) = m
  BY <1>5, SeqDef
<1>7. q = <<>> => k = n
  BY <1>1, <1>6
<1>8. q # <<>> => k < n
  <2>1. m = 0 => q = <<>>
    BY <1>6
  <2> QED
    BY <1>1, <2>1
<1>9. ASSUME k < n PROVE Head(q) = s[k + 1] /\ Tail(q) = Rest(s, k + 1, n)
  <2>1. 1 \in 1..m /\ q # <<>>
    BY <1>1, <1>7, <1>9
  <2>2. Head(q) = q[1]
    BY <1>6, <2>1
  <2>3. q[1] = s[k + 1]
    BY <1>3, <2>1
  <2>4. Tail(q) = [i \in 1..(m - 1) |-> q[i + 1]]
    <3>1. PICK t : t = Tail(q)
      OBVIOUS
    <3>2. /\ t \in Seq(B) /\ Len(t) = m - 1
          /\ \A i \in DOMAIN t : t[i] = q[i + 1]
      BY <1>6, <2>1, <3>1, TailElements
    <3>3. DOMAIN t = 1..(m - 1) /\ t = [i \in DOMAIN t |-> t[i]]
      BY <3>2
    <3> QED
      BY <3>1, <3>2, <3>3
  <2>5. \A i \in 1..(m - 1) : q[i + 1] = s[k + 1 + i]
    <3> SUFFICES ASSUME NEW i \in 1..(m - 1) PROVE q[i + 1] = s[k + 1 + i]
      OBVIOUS
    <3>1. i + 1 \in 1..m /\ k + (i + 1) = k + 1 + i
      OBVIOUS
    <3> QED
      BY <1>3, <3>1
  <2>6. n - (k + 1) = m - 1
    BY <1>1
  <2>7. Tail(q) = Rest(s, k + 1, n)
    BY <2>4, <2>5, <2>6 DEF Rest
  <2> QED
    BY <2>2, <2>3, <2>7
<1> QED
  BY <1>2, <1>7, <1>8, <1>9

-----------------------------------------------------------------------------
(* Replays: invariant and theorem *)

\* What a bar of a set calls for.
DecidedAt(r, B, b) == Decide(r, Answers(r, UpTo(B, b.time), b)).candidate
EventAt(r, B, b, now) == Event(DecidedAt(r, B, b), b, Window(UpTo(B, b.time)), now)

\* EventsOf is what the bars call for.
LEMMA EventsAre ==
  ASSUME NEW r, NEW B, NEW now
  PROVE  /\ \A e \in EventsOf(r, B, now) :
              \E b \in B : DecidedAt(r, B, b) # NoCandidate /\ e = EventAt(r, B, b, now)
         /\ \A b \in B : DecidedAt(r, B, b) # NoCandidate =>
              EventAt(r, B, b, now) \in EventsOf(r, B, now)
BY DEF EventsOf, DecidedAt, EventAt

\* All calls were of one runner over one set of bars at one time.
OneReplay(r, B, now) ==
  /\ past # <<>>
  /\ \A i \in DOMAIN past : /\ past[i].fresh /\ DistinctTimes(past[i].list)
                            /\ ToSet(past[i].list) = B
                            /\ past[i].runner = r /\ past[i].clock = now

\* The engine has the first k of n bars, the repository what they call for, and the
\* others are in the queue.
Progress(r, B, now, s, n, k) ==
  /\ TimeOrdered(s, B, n) /\ k <= n
  /\ seen = First(s, k) /\ queue = Rest(s, k, n)
  /\ \A i \in 1..k : DecidedAt(r, B, s[i]) # NoCandidate =>
       EventAt(r, B, s[i], now) \in signals

\* What calls over the same bars store, while one runs and when it has returned.
ReplayGoes(r, B, now) ==
  /\ signals \subseteq EventsOf(r, B, now)
  /\ outcome # "conflict"
  /\ outcome = "running" =>
       /\ runner = r /\ clock = now
       /\ \E n, k \in Nat : \E s : Progress(r, B, now, s, n, k)
  /\ outcome = "returned" => EventsOf(r, B, now) \subseteq signals

ReplaysGo == \A r, B, now : OneReplay(r, B, now) => ReplayGoes(r, B, now)

ReplayInv == FailureInv /\ ReplaysGo

\* A call starts with no bar given to the engine.
LEMMA StartReplay ==
  ASSUME ReplayInv, NEW list \in Lists, Start(list), NEW r, NEW B, NEW now,
         OneReplay(r, B, now)'
  PROVE  ReplayGoes(r, B, now)'
<1>1. PICK x, p : /\ x = [runner |-> runner, list |-> list, clock |-> clock, fresh |-> seen = <<>>]
                  /\ p = Append(past, x)
  OBVIOUS
<1>2. /\ past' = p /\ queue' = Sorted(list) /\ outcome' = "running"
      /\ UNCHANGED <<clock, signals, seen, runner>>
  BY <1>1 DEF Start
<1>3. PICK S, old : past = old /\ old \in Seq(S)
  BY DEF ReplayInv, FailureInv, CallIsOnItsList
<1>4. p = Append(old, x)
  BY <1>1, <1>3
<1>5. /\ Len(old) \in Nat /\ DOMAIN old = 1..Len(old) /\ DOMAIN p = 1..(Len(old) + 1)
      /\ \A i \in 1..Len(old) : p[i] = old[i]
      /\ p[Len(old) + 1] = x
  BY <1>3, <1>4, AppendedElements
<1>6. \A i \in DOMAIN p : /\ p[i].fresh /\ DistinctTimes(p[i].list)
                          /\ ToSet(p[i].list) = B
                          /\ p[i].runner = r /\ p[i].clock = now
  BY <1>2 DEF OneReplay
<1>7. Len(old) + 1 \in DOMAIN p /\ \A i \in DOMAIN old : i \in DOMAIN p /\ p[i] = old[i]
  BY <1>5
<1>8. /\ x.fresh /\ DistinctTimes(x.list) /\ ToSet(x.list) = B /\ x.runner = r /\ x.clock = now
  BY <1>5, <1>6, <1>7
<1>9. seen = <<>> /\ DistinctTimes(list) /\ ToSet(list) = B /\ runner = r /\ clock = now
  BY <1>1, <1>8
<1>10. signals \subseteq EventsOf(r, B, now)
  <2>1. CASE past = <<>>
    BY <2>1 DEF ReplayInv, FailureInv, CallIsOnItsList
  <2>2. CASE past # <<>>
    <3>1. \A i \in DOMAIN past : /\ past[i].fresh /\ DistinctTimes(past[i].list)
                                 /\ ToSet(past[i].list) = B
                                 /\ past[i].runner = r /\ past[i].clock = now
      BY <1>3, <1>6, <1>7
    <3>2. OneReplay(r, B, now)
      BY <2>2, <3>1 DEF OneReplay
    <3> QED
      BY <3>2 DEF ReplayInv, ReplaysGo, ReplayGoes
  <2> QED
    BY <2>1, <2>2
<1>11. PICK n, s : n = Len(list) /\ s = Sorted(list)
  OBVIOUS
<1>12. /\ s \in Seq(B) /\ Len(s) = n
       /\ \A i, j \in 1..n : i < j => s[i].time < s[j].time
       /\ \A b \in B : \E i \in 1..n : s[i] = b
  BY <1>9, <1>11, SortedProperties
<1>13. n \in Nat /\ s \in [1..n -> B] /\ TimeOrdered(s, B, n)
  BY <1>12 DEF TimeOrdered
<1>14. Progress(r, B, now, s, n, 0)'
  <2>1. First(s, 0) = <<>>
    BY DEF First
  <2>2. Rest(s, 0, n) = s
    <3>1. n - 0 = n /\ \A i \in 1..n : 0 + i = i
      BY <1>13
    <3>2. s = [i \in 1..n |-> s[i]]
      BY <1>13
    <3> QED
      BY <3>1, <3>2 DEF Rest
  <2>3. seen' = First(s, 0) /\ queue' = Rest(s, 0, n) /\ 0 <= n
    BY <1>2, <1>9, <1>11, <1>13, <2>1, <2>2
  <2> QED
    BY <1>13, <2>3 DEF Progress
<1>15. \E m, k \in Nat : \E t : Progress(r, B, now, t, m, k)'
  BY <1>13, <1>14
<1> QED
  BY <1>2, <1>9, <1>10, <1>15 DEF ReplayGoes

\* A bar that is stored once more is the bar that was: the repository has it already.
LEMMA BarReplay ==
  ASSUME ReplayInv, ProcessBar, NEW r, NEW B, NEW now, OneReplay(r, B, now)
  PROVE  ReplayGoes(r, B, now)'
<1>1. PICK bar, c, event :
        /\ bar = Head(queue) /\ bar \in ToSet(Latest.list) /\ bar.time \in Int
        /\ c = Decide(runner, Answers(runner, Observe(seen, bar), bar)).candidate
        /\ event = Event(c, bar, Window(Observe(seen, bar)), clock)
        /\ event.time = bar.time /\ event.id.time = bar.time
        /\ \/ c = NoCandidate /\ queue' = Tail(queue) /\ UNCHANGED <<outcome, signals>>
           \/ /\ c # NoCandidate /\ Refusal(c, event) = "none"
              /\ signals' = signals \cup {event}
              /\ queue' = Tail(queue) /\ UNCHANGED outcome
           \/ /\ c # NoCandidate /\ Refusal(c, event) # "none"
              /\ outcome' = Refusal(c, event) /\ UNCHANGED signals
  BY BarTaken DEF ReplayInv, FailureInv
<1>2. /\ outcome = "running" /\ queue # <<>> /\ seen' = Observe(seen, bar)
      /\ UNCHANGED <<runner, clock, past>>
  BY <1>1 DEF ProcessBar
<1>3. /\ signals \subseteq EventsOf(r, B, now) /\ runner = r /\ clock = now
      /\ \E n, k \in Nat : \E s : Progress(r, B, now, s, n, k)
  BY <1>2 DEF ReplayInv, ReplaysGo, ReplayGoes
<1>n. PICK n \in Nat, k \in Nat : \E s : Progress(r, B, now, s, n, k)
  BY <1>3
<1>4. PICK s : Progress(r, B, now, s, n, k)
  BY <1>n
<1>5. /\ TimeOrdered(s, B, n) /\ k <= n
      /\ seen = First(s, k) /\ queue = Rest(s, k, n)
      /\ \A i \in 1..k : DecidedAt(r, B, s[i]) # NoCandidate =>
           EventAt(r, B, s[i], now) \in signals
  BY <1>4 DEF Progress
<1>6. /\ s \in [1..n -> B] /\ \A i, j \in 1..n : i < j => s[i].time < s[j].time
      /\ \A b \in B : \E i \in 1..n : s[i] = b
  BY <1>5 DEF TimeOrdered
<1>7. \A b \in B : b.time \in Int
  <2>1. past # <<>> /\ past \in Seq(ToSet(past)) /\ Latest.list \in Lists
    BY <1>2 DEF ReplayInv, FailureInv, CallIsOnItsList
  <2>2. Len(past) \in DOMAIN past
    BY <2>1
  <2>3. ToSet(Latest.list) = B
    BY <2>2 DEF OneReplay, Latest
  <2> QED
    BY <2>1, <2>3, ListsAssumption DEF Time
<1>8. k < n /\ bar = s[k + 1] /\ Tail(queue) = Rest(s, k + 1, n)
  <2>1. s \in [1..n -> B]
    BY <1>6
  <2>2. k <= n
    BY <1>5
  <2>3. Rest(s, k, n) # <<>>
    BY <1>2, <1>5
  <2>4. k < n
    BY <2>1, <2>2, <2>3, RestProperties
  <2>5. Head(Rest(s, k, n)) = s[k + 1] /\ Tail(Rest(s, k, n)) = Rest(s, k + 1, n)
    <3>1. k < n => Head(Rest(s, k, n)) = s[k + 1] /\ Tail(Rest(s, k, n)) = Rest(s, k + 1, n)
      BY <2>1, <2>2, RestProperties, ZenonT(30)
    <3> QED
      BY <2>4, <3>1
  <2>6. bar = Head(queue) /\ queue = Rest(s, k, n)
    BY <1>1, <1>5
  <2> QED
    BY <2>4, <2>5, <2>6
<1>9. k + 1 \in Nat /\ k + 1 \in 1..n /\ k + 1 <= n /\ bar \in B
  <2>1. k + 1 \in Nat /\ k + 1 \in 1..n /\ k + 1 <= n
    BY <1>8
  <2> QED
    BY <1>6, <1>8, <2>1
<1>10. Observe(seen, bar) = First(s, k + 1) /\ UpTo(B, bar.time) = First(s, k + 1)
  BY <1>5, <1>7, <1>8, ObservedInOrder
<1>11. c = DecidedAt(r, B, bar) /\ event = EventAt(r, B, bar, now)
  BY <1>1, <1>3, <1>10 DEF DecidedAt, EventAt
<1>12. ASSUME c # NoCandidate PROVE event \in EventsOf(r, B, now)
  BY <1>9, <1>11, <1>12, EventsAre
<1>13. signals' \subseteq EventsOf(r, B, now)
  BY <1>1, <1>3, <1>12
<1>14. \A b, d \in B : b.time = d.time => b = d
  <2> SUFFICES ASSUME NEW b \in B, NEW d \in B, b.time = d.time PROVE b = d
    OBVIOUS
  <2>1. PICK i \in 1..n, j \in 1..n : s[i] = b /\ s[j] = d
    BY <1>6
  <2>2. i < j \/ j < i \/ i = j
    OBVIOUS
  <2>3. ~(i < j) /\ ~(j < i)
    BY <1>6, <1>7, <2>1
  <2> QED
    BY <2>1, <2>2, <2>3
<1>15. ASSUME c # NoCandidate PROVE Refusal(c, event) # "conflict"
  <2> SUFFICES ASSUME NEW e \in signals, e.id = event.id, e # event PROVE FALSE
    <3>1. clock \in Int
      BY DEF ReplayInv, FailureInv, CallIsOnItsList
    <3> QED
      BY <1>1, <3>1, RefusalCases
  <2>1. PICK b \in B : e = EventAt(r, B, b, now)
    BY <1>3, EventsAre
  <2>2. e.id.time = b.time
    BY <2>1 DEF EventAt, Event, SignalId
  <2>3. b = bar
    BY <1>1, <1>9, <1>14, <2>2
  <2> QED
    BY <1>11, <2>1, <2>3
<1>16. outcome' # "conflict" /\ outcome' # "returned"
  <2>1. CASE c # NoCandidate /\ Refusal(c, event) # "none" /\ outcome' = Refusal(c, event)
    <3>1. clock \in Int
      BY DEF ReplayInv, FailureInv, CallIsOnItsList
    <3>2. Refusal(c, event) \in {"invalid", "unfrozen", "early", "conflict", "none"}
      BY <1>1, <3>1, RefusalCases
    <3> QED
      BY <1>15, <2>1, <3>2
  <2>2. CASE outcome' = outcome
    BY <1>2, <2>2
  <2> QED
    BY <1>1, <2>1, <2>2
<1>17. ASSUME outcome' = "running"
       PROVE  /\ runner' = r /\ clock' = now
              /\ \E m, j \in Nat : \E t : Progress(r, B, now, t, m, j)'
  <2>1. /\ queue' = Tail(queue)
        /\ \/ c = NoCandidate /\ signals' = signals
           \/ signals' = signals \cup {event}
    <3>1. CASE c # NoCandidate /\ Refusal(c, event) # "none" /\ outcome' = Refusal(c, event)
      <4>1. clock \in Int
        BY DEF ReplayInv, FailureInv, CallIsOnItsList
      <4>2. Refusal(c, event) \in {"invalid", "unfrozen", "early", "conflict", "none"}
        BY <1>1, <4>1, RefusalCases
      <4> QED
        BY <1>17, <3>1, <4>2
    <3> QED
      BY <1>1, <3>1
  <2>2. ASSUME NEW i \in 1..(k + 1), DecidedAt(r, B, s[i]) # NoCandidate
        PROVE  EventAt(r, B, s[i], now) \in signals'
    <3>1. i \in 1..k \/ i = k + 1
      OBVIOUS
    <3>2. CASE i \in 1..k
      BY <1>5, <2>1, <2>2, <3>2
    <3>3. CASE i = k + 1
      BY <1>8, <1>11, <2>1, <2>2, <3>3
    <3> QED
      BY <3>1, <3>2, <3>3
  <2>3. seen' = First(s, k + 1) /\ queue' = Rest(s, k + 1, n)
    BY <1>2, <1>8, <1>10, <2>1
  <2>4. Progress(r, B, now, s, n, k + 1)'
    BY <1>5, <1>9, <2>2, <2>3 DEF Progress
  <2>5. \E m, j \in Nat : \E t : Progress(r, B, now, t, m, j)'
    BY <1>9, <2>4
  <2> QED
    BY <1>2, <1>3, <2>5
<1> QED
  BY <1>13, <1>16, <1>17 DEF ReplayGoes

\* A call returns when all bars have been given to the engine.
LEMMA ReturnReplay ==
  ASSUME ReplayInv, Return, NEW r, NEW B, NEW now, OneReplay(r, B, now)
  PROVE  ReplayGoes(r, B, now)'
<1>1. /\ outcome = "running" /\ queue = <<>> /\ outcome' = "returned"
      /\ UNCHANGED <<signals, past>>
  BY DEF Return
<1>2. /\ signals \subseteq EventsOf(r, B, now)
      /\ \E n, k \in Nat : \E s : Progress(r, B, now, s, n, k)
  BY <1>1 DEF ReplayInv, ReplaysGo, ReplayGoes
<1>n. PICK n \in Nat, k \in Nat : \E s : Progress(r, B, now, s, n, k)
  BY <1>2
<1>3. PICK s : Progress(r, B, now, s, n, k)
  BY <1>n
<1>4. /\ s \in [1..n -> B] /\ k <= n /\ queue = Rest(s, k, n)
      /\ \A b \in B : \E i \in 1..n : s[i] = b
      /\ \A i \in 1..k : DecidedAt(r, B, s[i]) # NoCandidate =>
           EventAt(r, B, s[i], now) \in signals
  BY <1>3 DEF Progress, TimeOrdered
<1>5. k = n
  BY <1>1, <1>4, RestProperties
<1>6. EventsOf(r, B, now) \subseteq signals
  <2> SUFFICES ASSUME NEW e \in EventsOf(r, B, now) PROVE e \in signals
    OBVIOUS
  <2>1. PICK b \in B : DecidedAt(r, B, b) # NoCandidate /\ e = EventAt(r, B, b, now)
    BY EventsAre
  <2>2. PICK i \in 1..n : s[i] = b
    BY <1>4
  <2> QED
    BY <1>4, <1>5, <2>1, <2>2
<1> QED
  BY <1>1, <1>2, <1>6 DEF ReplayGoes

\* A step between two calls.
LEMMA QuietReplay ==
  ASSUME ReplayInv, UNCHANGED <<past, signals>>,
         (outcome' = outcome /\ outcome # "running") \/ outcome' = "none",
         NEW r, NEW B, NEW now, OneReplay(r, B, now)'
  PROVE  ReplayGoes(r, B, now)'
<1>1. OneReplay(r, B, now)
  BY DEF OneReplay
<1>2. ReplayGoes(r, B, now)
  BY <1>1 DEF ReplayInv, ReplaysGo
<1> QED
  BY <1>2 DEF ReplayGoes

\* Replaying bars stores what they call for, once.
THEOREM ReplaysAreIdempotent == Spec => []ReplayIsIdempotent
<1>1. Init => ReplaysGo
  BY DEF Init, ReplaysGo, OneReplay
<1>2. ReplayInv /\ [Next]_vars => ReplaysGo'
  <2> SUFFICES ASSUME ReplayInv, [Next]_vars, NEW r, NEW B, NEW now, OneReplay(r, B, now)'
               PROVE  ReplayGoes(r, B, now)'
    BY DEF ReplaysGo
  <2>1. ASSUME NEW request \in Requests, Prepare(request) PROVE FALSE
    BY <2>1 DEF Prepare, runVars, OneReplay
  <2>2. ASSUME NEW composer \in Composers, Compose(composer) PROVE ReplayGoes(r, B, now)'
    BY <2>2, QuietReplay DEF Compose
  <2>3. CASE Advance
    BY <2>3, QuietReplay DEF Advance, Idle
  <2>4. ASSUME NEW list \in Lists, Start(list) PROVE ReplayGoes(r, B, now)'
    BY <2>4, StartReplay
  <2>5. CASE ProcessBar
    <3>1. OneReplay(r, B, now)
      BY <2>5 DEF ProcessBar, OneReplay
    <3> QED
      BY <2>5, <3>1, BarReplay
  <2>6. CASE Return
    <3>1. OneReplay(r, B, now)
      BY <2>6 DEF Return, OneReplay
    <3> QED
      BY <2>6, <3>1, ReturnReplay
  <2>7. CASE UNCHANGED vars
    <3>1. UNCHANGED <<runner, seen, queue, outcome, clock, signals, past>>
      BY <2>7 DEF vars, runVars
    <3>2. OneReplay(r, B, now)
      BY <3>1 DEF OneReplay
    <3>3. ReplayGoes(r, B, now)
      BY <3>2 DEF ReplayInv, ReplaysGo
    <3> QED
      BY <3>1, <3>3 DEF ReplayGoes, Progress
  <2> QED
    BY <2>1, <2>2, <2>3, <2>4, <2>5, <2>6, <2>7 DEF Next
<1>3. FailureInv /\ ReplaysGo => ReplayIsIdempotent
  <2> SUFFICES ASSUME FailureInv, ReplaysGo, past # <<>>, Replayed PROVE ReplayIsIdempotent
    BY DEF ReplayIsIdempotent
  <2>1. PICK r, B, now : /\ r = past[1].runner /\ B = ToSet(past[1].list)
                         /\ now = past[1].clock
    OBVIOUS
  <2>2. OneReplay(r, B, now)
    BY <2>1 DEF Replayed, OneReplay
  <2>3. ReplayGoes(r, B, now)
    BY <2>2 DEF ReplaysGo
  <2> QED
    BY <2>1, <2>3 DEF ReplayGoes, ReplayIsIdempotent
<1>4. FailureInv /\ ReplaysGo => ReplayInv
  BY DEF ReplayInv
<1> QED
  BY <1>1, <1>2, <1>3, <1>4, FailureIsInvariant, PTL DEF Spec
============================================================================
