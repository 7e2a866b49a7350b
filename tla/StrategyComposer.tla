-------------------------- MODULE StrategyComposer --------------------------
(***************************************************************************)
(* StrategyComposer.decide: the candidates that the runtimes propose for a  *)
(* bar become one candidate or none, by the conflict policy, together with  *)
(* the ComposerDecision that says which won and which were rejected.        *)
(*                                                                         *)
(* A composer is a record of the names of its runtimes, in order, the       *)
(* policy, and the weights.  Candidates are numbered by their place in the  *)
(* list that decide collects, for the code tells them apart by identity.    *)
(***************************************************************************)
EXTENDS RuleStrategies, Sorting

Policy == {"PRIORITY_MAX_CONFIDENCE", "UNANIMOUS", "SCORE_WEIGHTED"}

\* __post_init__
ValidComposer(composer) ==
  /\ composer.names # <<>>
  /\ Len(composer.weights) \in {0, Len(composer.names)}
  /\ composer.policy = "SCORE_WEIGHTED" =>
       /\ Len(composer.weights) = Len(composer.names)
       /\ \A i \in DOMAIN composer.weights : composer.weights[i] > 0

\* _priority_of: the first runtime with the name counts most.
Priority(composer, name) ==
  LET places == {i \in DOMAIN composer.names : composer.names[i] = name} IN
    IF places = {} THEN 0
    ELSE Len(composer.names) + 1 - CHOOSE i \in places : \A j \in places : i <= j

\* A decision: the candidate that goes on, if any, the one that won (its place,
\* 0 for none), the places of the rejected ones, and why nothing goes on.
Emits(candidate, place, rejected) ==
  [candidate |-> candidate, winner |-> place, rejected |-> rejected, reason |-> "None"]

Abstains(reason, rejected) ==
  [candidate |-> NoCandidate, winner |-> 0, rejected |-> rejected, reason |-> reason]

\* replace(candidate, reason_codes=...): who else proposed something.
WithNote(candidates, i, note) ==
  [candidates[i] EXCEPT !.reasons =
     Append(@, <<note, [j \in DOMAIN candidates |-> candidates[j].name]>>)]

Directions(candidates) == {candidates[i].direction : i \in DOMAIN candidates}

\* Mutant of ByPriority: a disagreement is not looked for.
ByPriorityAlone(composer, candidates) ==
  LET best == CHOOSE i \in DOMAIN candidates : \A j \in DOMAIN candidates :
                Priority(composer, candidates[i].name) >= Priority(composer, candidates[j].name)
  IN Emits(candidates[best], best, DOMAIN candidates \ {best})

\* _decide_priority_max_confidence: by priority, then confidence, then place.
ByPriority(composer, candidates) ==
  LET before(i, j) ==
        LET p == Priority(composer, candidates[i].name)
            q == Priority(composer, candidates[j].name)
            c == candidates[i].confidence
            d == candidates[j].confidence IN
          p > q \/ (p = q /\ (c > d \/ (c = d /\ i < j)))
      best == CHOOSE i \in DOMAIN candidates :
                \A j \in DOMAIN candidates \ {i} : before(i, j) IN
  IF Cardinality(Directions(candidates)) > 1
    THEN Abstains("ABSTAIN_DIRECTION_CONFLICT", DOMAIN candidates)
    ELSE Emits(WithNote(candidates, best, "AGGREGATED"), best, DOMAIN candidates \ {best})

\* _decide_unanimous: the first of the list; the others agree and are not
\* counted as rejected.
Unanimously(candidates) ==
  IF \A i \in DOMAIN candidates : /\ candidates[i].direction = candidates[1].direction
                                  /\ candidates[i].action = candidates[1].action
    THEN Emits(WithNote(candidates, 1, "UNANIMOUS"), 1, {})
    ELSE Abstains("ABSTAIN_UNANIMOUS_FAILED", DOMAIN candidates)

Sign(direction) == CASE direction = "BUY" -> 1 [] direction = "SELL" -> -1 [] OTHER -> 0

\* The sum of score times weight over some places.
WeightedSum(items, weights, places) ==
  MapThenSumSet(LAMBDA i : Sign(items[i].direction) * items[i].score * weights[i], places)

\* zip(candidates, weights) pairs them by place, so that the weight of a runtime
\* that is silent goes to the next one.
WeightedScore(composer, candidates) ==
  WeightedSum(candidates, composer.weights, DOMAIN candidates)

\* _decide_score_weighted: the first candidate with the direction of the sum.
ByScore(composer, candidates) ==
  LET score == WeightedScore(composer, candidates) IN
  IF score = 0
    THEN Abstains("ABSTAIN_WEIGHTED_ZERO", DOMAIN candidates)
    ELSE Emits([candidates[1] EXCEPT
                  !.direction = IF score > 0 THEN "BUY" ELSE "SELL",
                  !.reasons = Append(@, <<"WEIGHTED_SCORE", score>>)],
               1, DOMAIN candidates \ {1})

\* The candidates, in the order of the runtimes, of the answers of all of them.
Candidates(answers) == Picked(answers, {i \in DOMAIN answers : answers[i] # NoCandidate})

\* decide
Decide(composer, answers) ==
  LET candidates == Candidates(answers) IN
  CASE candidates = <<>> -> Abstains("NO_CANDIDATES", {})
    [] Len(candidates) = 1 -> Emits(candidates[1], 1, {})
    [] Len(candidates) > 1 ->
         CASE composer.policy = "PRIORITY_MAX_CONFIDENCE" -> ByPriority(composer, candidates)
           [] composer.policy = "UNANIMOUS" -> Unanimously(candidates)
           [] composer.policy = "SCORE_WEIGHTED" -> ByScore(composer, candidates)
=============================================================================
