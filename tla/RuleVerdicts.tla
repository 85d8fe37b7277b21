---------------------------- MODULE RuleVerdicts ----------------------------
(***************************************************************************)
(* What a sample is, what makes it valid, how it is normalised and what a  *)
(* rule says of it: telemetry/validator.go and normalizer.go, and the      *)
(* conditions of ruleengine/evaluator.go.                                  *)
(*                                                                         *)
(* A sample is its turbine and its readings, a function from metrics to    *)
(* numbers.                                                                *)
(***************************************************************************)
EXTENDS Integers

CONSTANTS
  RuleTurbines,   \* turbines of samples; "" is none, and for a rule all
  Values,         \* readings
  MaxValue        \* the largest reading the validator takes

ASSUME ReadingTypes == Values \subseteq Int /\ MaxValue \in Int

\* Three metrics stand for the six: one that may not be negative, one that may
\* down to a limit, and one the validator does not look at.
Metric == {"rotor_rpm", "gen_temp", "power_output"}

Lowest == [m \in {"rotor_rpm", "gen_temp"} |-> IF m = "gen_temp" THEN -1 ELSE 0]

Sample == [turbine : RuleTurbines, value : [Metric -> Values]]

\* A rule may name a metric nothing measures.
Rule == [turbine : RuleTurbines, metric : Metric \cup {"unknown"},
         operator : {">=", "<="}, threshold : Int]

\* An unknown metric reads 0.
metricValue(s, m) == IF m \in Metric THEN s.value[m] ELSE 0

compare(v, op, threshold) == \/ op = ">=" /\ v >= threshold
                             \/ op = "<=" /\ v <= threshold

AppliesTo(r, turbine) == r.turbine \in {"", turbine}

Triggered(r, s) == AppliesTo(r, s.turbine) /\ compare(metricValue(s, r.metric), r.operator, r.threshold)

\* Validator.Validate.
Validate(s) == /\ s.turbine # ""
               /\ \A m \in DOMAIN Lowest : s.value[m] \in Lowest[m] .. MaxValue

\* ValidateBatch keeps these of a batch.
ValidSamples == {s \in Sample : Validate(s)}

\* Normalizer.Normalize.
Normalize(s) ==
  [s EXCEPT !.value = [m \in Metric |-> IF m # "gen_temp" /\ @[m] < 0 THEN 0 ELSE @[m]]]

=============================================================================
