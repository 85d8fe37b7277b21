--------------------------- MODULE MCAlarmDispatch ---------------------------
(***************************************************************************)
(* Small instances of AlarmDispatch: one turbine, a critical rule, a       *)
(* warning rule and a malformed candidate; one channel that listens to     *)
(* both tiers, and one sink.                                               *)
(***************************************************************************)
EXTENDS AlarmDispatch, TLC

Malformed == [turbine |-> "n", rule |-> "", severity |-> "info"]

TwoRules == {[turbine |-> "n", rule |-> "gen", severity |-> "critical"],
             [turbine |-> "n", rule |-> "wind", severity |-> "warning"]}

OneRule == {Malformed, [turbine |-> "n", rule |-> "gen", severity |-> "critical"]}

BothTiers == [critical |-> {"tier"}, engineer |-> {"tier"}, ops |-> {}, silent |-> {}]

NoListeners == [critical |-> {}, engineer |-> {}, ops |-> {}, silent |-> {}]

Symmetry == Permutations(Routers)

=============================================================================
