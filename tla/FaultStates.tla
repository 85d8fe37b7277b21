----------------------------- MODULE FaultStates -----------------------------
(***************************************************************************)
(* The state machine of a turbine fault (internal/fault/transitions.go).   *)
(* The table is a relation, the two predicates are those the fault store   *)
(* asks of it.                                                             *)
(***************************************************************************)

State == {"normal", "warning", "fault", "maintenance", "retrying"}

\* The table `allowed`: the pairs <<from, to>> it lists.
Allowed == ({"normal"}      \X {"warning", "fault", "maintenance"}) \cup
           ({"warning"}     \X {"normal", "fault", "maintenance"})  \cup
           ({"fault"}       \X {"maintenance", "retrying"})         \cup
           ({"maintenance"} \X {"normal"})                          \cup
           ({"retrying"}    \X {"normal", "maintenance"})

CanTransition(from, to) == from = to \/ <<from, to>> \in Allowed

TerminalState(s) == s \in {"normal", "maintenance"}

OpenStates == {s \in State : ~TerminalState(s)}

=============================================================================
