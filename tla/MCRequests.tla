----------------------------- MODULE MCRequests -----------------------------
(***************************************************************************)
(* Requests as a client sees them: the fault service when calls do not     *)
(* overlap, and telemetry requests that do, with clients that give up and  *)
(* post again.  They share no state, so a behaviour here is a behaviour of *)
(* one of them, chosen at the start, with the other where it begins.       *)
(***************************************************************************)
EXTENDS FaultService, TelemetryRequest

CONSTANTS k1, k2  \* clients

VARIABLE part  \* the part that runs

mcVars == <<part, vars, requestVars>>

MCInit == Init /\ RequestInit /\ part \in {"faults", "telemetry"}

MCNext == /\ UNCHANGED part
          /\ \/ part = "faults" /\ Next /\ UNCHANGED requestVars
             \/ part = "telemetry" /\ RequestNext /\ UNCHANGED vars

MCSpec == MCInit /\ [][MCNext]_mcVars /\ RequestFair

-----------------------------------------------------------------------------

Reading(turbine, rpm, temp, power) ==
  [turbine |-> turbine,
   value   |-> [m \in Metric |-> CASE m = "rotor_rpm" -> rpm
                                   [] m = "gen_temp" -> temp
                                   [] OTHER -> power]]

\* A client with a reading that triggers two rules, and one whose body begins
\* with a sample of no turbine and one out of range.
TwoBodies ==
  [k \in {k1, k2} |->
     IF k = k1 THEN <<Reading("t1", 1, 1, -1)>>
               ELSE <<Reading("", 1, 1, 1), Reading("t1", 2, 1, 1), Reading("t1", 1, 0, 1)>>]

\* The first posts twice, the second once.
PostsOfTwo == [k \in {k1, k2} |-> IF k = k1 THEN 2 ELSE 1]

\* A rule for all turbines, one for the turbine, and one for another.
ThreeRules ==
  <<[id |-> "rpm", turbine |-> "", metric |-> "rotor_rpm", operator |-> ">=", threshold |-> 1],
    [id |-> "temp", turbine |-> "t1", metric |-> "gen_temp", operator |-> ">=", threshold |-> 1],
    [id |-> "power", turbine |-> "t2", metric |-> "power_output", operator |-> "<=", threshold |-> 1]>>

SmallValues == -1 .. 2

=============================================================================
