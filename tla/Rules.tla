------------------------------- MODULE Rules -------------------------------
(***************************************************************************)
(* internal/ruleengine: the rule registry (registry.go), the evaluator     *)
(* (evaluator.go), composite rules (composite.go) and hysteresis           *)
(* (hysteresis.go), over what RuleVerdicts says of a sample and a rule.    *)
(*                                                                         *)
(* `readings` is the history of a latch, which the code does not keep.     *)
(***************************************************************************)
EXTENDS RuleVerdicts, Sequences, SequencesExt

CONSTANTS
  RuleIds,        \* ids of rules
  CompositeIds,   \* ids of composite rules
  RuleChoices,    \* the rules that are registered
  Subjects,       \* subjects of a latch
  On, Off,        \* thresholds of the latch
  MaxReadings     \* bound on the readings of a latch

\* A latch is made with its off threshold below its on threshold.
ASSUME LatchBand == Off \in Int /\ On \in Int /\ Off < On

VARIABLES
  rules,       \* id -> the registered rule
  ruleOrder,   \* ids in order of registration
  composites,  \* id -> [operator, rules] with copies of rules
  active,      \* subject -> whether its latch holds
  readings     \* subject -> its readings, oldest first

rulesVars == <<rules, ruleOrder, composites>>
latchVars == <<active, readings>>

ASSUME RuleTypes == RuleChoices \subseteq Rule

RulesInit == /\ rules = << >>
             /\ ruleOrder = << >>
             /\ composites = << >>

LatchInit == /\ active = [s \in Subjects |-> FALSE]
             /\ readings = [s \in Subjects |-> << >>]

\* Evaluator.Evaluate: the triggered rules, as places in the registry's order.
Evaluate(s) == {k \in DOMAIN ruleOrder : Triggered(rules[ruleOrder[k]], s)}

\* Mutant: "and" passes over the rules of other turbines.
CompositeSkips(c, s) ==
  /\ c.rules # << >>
  /\ IF c.operator = "or" THEN \E i \in DOMAIN c.rules : Triggered(c.rules[i], s)
     ELSE \A i \in DOMAIN c.rules : AppliesTo(c.rules[i], s.turbine) => Triggered(c.rules[i], s)

\* CompositeRule.Evaluate: every operator but "or" is an and.
CompositeHolds(c, s) ==
  /\ c.rules # << >>
  /\ IF c.operator = "or" THEN \E i \in DOMAIN c.rules : Triggered(c.rules[i], s)
     ELSE \A i \in DOMAIN c.rules : Triggered(c.rules[i], s)

-----------------------------------------------------------------------------

\* Registry.Put: a known id keeps its place.
PutRule ==
  \E id \in RuleIds, r \in RuleChoices :
    /\ rules' = [i \in DOMAIN rules \cup {id} |-> IF i = id THEN r ELSE rules[i]]
    /\ ruleOrder' = IF id \in DOMAIN rules THEN ruleOrder ELSE Append(ruleOrder, id)
    /\ UNCHANGED composites

\* CompositeRegistry.Put of a composite made from what the registry lists now.
PutComposite ==
  \E id \in CompositeIds, op \in {"and", "or"} :
    /\ composites' = [i \in DOMAIN composites \cup {id} |->
                        IF i = id THEN [operator |-> op,
                                        rules |-> [k \in DOMAIN ruleOrder |-> rules[ruleOrder[k]]]]
                        ELSE composites[i]]
    /\ UNCHANGED <<rules, ruleOrder>>

\* Mutant: the latch is released below its on threshold.
LatchAfterNarrow(s, v) == v >= On

\* What Hysteresis.Evaluate leaves in its latch and returns.
LatchAfter(s, v) == IF active[s] THEN ~(v <= Off) ELSE v >= On

Latch ==
  \E s \in Subjects, v \in Values :
    /\ Len(readings[s]) < MaxReadings
    /\ active' = [active EXCEPT ![s] = LatchAfter(s, v)]
    /\ readings' = [readings EXCEPT ![s] = Append(@, v)]

RulesNext == PutRule \/ PutComposite

RulesSpec == RulesInit /\ [][RulesNext]_rulesVars

LatchSpec == LatchInit /\ [][Latch]_latchVars

-----------------------------------------------------------------------------

\* The composite's copies are still what the registry lists.
Fresh(c) == c.rules = [k \in DOMAIN ruleOrder |-> rules[ruleOrder[k]]]

\* One sample, one verdict: until a rule changes, a composite of all rules holds
\* exactly when the evaluator says so, an "or" when some rule triggers, any
\* other when there are rules and all trigger; and normalising a sample that
\* was found valid changes no verdict of a rule whose threshold is positive.
OneVerdict ==
  /\ \A id \in DOMAIN composites : LET c == composites[id] IN
       Fresh(c) => \A s \in ValidSamples :
         CompositeHolds(c, s) <=> IF c.operator = "or" THEN Evaluate(s) # {}
                                  ELSE Evaluate(s) = DOMAIN ruleOrder /\ ruleOrder # << >>
  /\ \A id \in DOMAIN rules : rules[id].threshold > 0 =>
       \A s \in ValidSamples : Triggered(rules[id], s) <=> Triggered(rules[id], Normalize(s))

\* The last reading of a subject that was outside the band, 0 for none.
LastCrossing(s) == SelectLastInSeq(readings[s], LAMBDA v : v >= On \/ v <= Off)

\* Between its thresholds a latch neither sets nor clears: it holds exactly when
\* the last reading outside the band was on the upper side, whatever came after.
LatchIsLastCrossing ==
  \A s \in Subjects : active[s] <=> LastCrossing(s) # 0 /\ readings[s][LastCrossing(s)] >= On

=============================================================================
