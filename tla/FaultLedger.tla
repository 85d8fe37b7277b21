----------------------------- MODULE FaultLedger -----------------------------
(***************************************************************************)
(* What internal/fault promises its callers, each operation in one step:   *)
(* the doc comments of Service.Raise, Acknowledge and Resolve, with none   *)
(* of the separate lock acquisitions their code is made of.  FaultService  *)
(* is the code; run by one caller at a time it implements this module.     *)
(*                                                                         *)
(* A fault's id is its position in `faults`, which lists every fault ever  *)
(* created in the order of creation.                                       *)
(***************************************************************************)
EXTENDS FaultStates, Naturals, Sequences

CONSTANTS Turbines, Codes

VARIABLE faults

Same(f, t, k) == f.turbine = t /\ f.code = k

OpenFor(t, k) == {i \in DOMAIN faults : ~TerminalState(faults[i].state)
                                        /\ Same(faults[i], t, k)}

Init == faults = << >>

\* An equivalent open fault does not already exist.
Raise(t, k) ==
  /\ OpenFor(t, k) = {}
  /\ faults' = Append(faults, [turbine |-> t, code |-> k, state |-> "warning"])

\* A resolved fault is left alone.
Acknowledge(i) ==
  /\ faults[i].state \in State \ {"normal"}
  /\ faults' = [faults EXCEPT ![i].state = "maintenance"]

\* Only a fault whose state may move to normal is resolved.
Resolve(i) ==
  /\ <<faults[i].state, "normal">> \in Allowed
  /\ faults' = [faults EXCEPT ![i].state = "normal"]

Next == \/ \E t \in Turbines, k \in Codes : Raise(t, k)
        \/ \E i \in DOMAIN faults : Acknowledge(i) \/ Resolve(i)

Spec == Init /\ [][Next]_faults

=============================================================================
