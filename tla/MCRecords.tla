----------------------------- MODULE MCRecords -----------------------------
(***************************************************************************)
(* The parts that keep records and answer questions about them: the work   *)
(* orders and crews, the fleet, the rules, their latches, the curtailment  *)
(* schedule with the settlements made under it, and the certificates and   *)
(* services of the fleet, frames on a link, sessions and heartbeats.  They *)
(* share no state, so a behaviour here is a behaviour of one of them,      *)
(* chosen at the start, with the others where they begin.                  *)
(***************************************************************************)
EXTENDS MCWorkOrders, Fleet, Rules, GridEnergy, Upkeep, Scada,
        Connections, Bitwise

VARIABLE part  \* the part that runs

recordsVars == <<part, vars, fleetVars, rulesVars, latchVars, gridVars, upkeepVars,
                linkVars, connVars>>

RecordsInit ==
  /\ Init /\ FleetInit /\ RulesInit /\ LatchInit /\ GridInit /\ UpkeepInit
  /\ LinkInit /\ ConnInit
  /\ part \in {"orders", "fleet", "rules", "latch", "grid", "certs", "services",
               "link", "connections"}

RecordsNext ==
  /\ UNCHANGED part
  /\ \/ /\ part = "orders" /\ Next
        /\ UNCHANGED <<fleetVars, rulesVars, latchVars, gridVars, upkeepVars, linkVars, connVars>>
     \/ /\ part = "fleet" /\ FleetNext
        /\ UNCHANGED <<vars, rulesVars, latchVars, gridVars, upkeepVars, linkVars, connVars>>
     \/ /\ part = "rules" /\ RulesNext
        /\ UNCHANGED <<vars, fleetVars, latchVars, gridVars, upkeepVars, linkVars, connVars>>
     \/ /\ part = "latch" /\ Latch
        /\ UNCHANGED <<vars, fleetVars, rulesVars, gridVars, upkeepVars, linkVars, connVars>>
     \/ /\ part = "grid" /\ GridNext
        /\ UNCHANGED <<vars, fleetVars, rulesVars, latchVars, upkeepVars, linkVars, connVars>>
     \/ /\ part = "certs" /\ CertsNext
        /\ UNCHANGED <<vars, fleetVars, rulesVars, latchVars, gridVars, linkVars, connVars>>
     \/ /\ part = "services" /\ ServicesNext
        /\ UNCHANGED <<vars, fleetVars, rulesVars, latchVars, gridVars, linkVars, connVars>>
     \/ /\ part = "link" /\ LinkNext
        /\ UNCHANGED <<vars, fleetVars, rulesVars, latchVars, gridVars, upkeepVars, connVars>>
     \/ /\ part = "connections" /\ ConnNext
        /\ UNCHANGED <<vars, fleetVars, rulesVars, latchVars, gridVars, upkeepVars, linkVars>>

RecordsSpec == RecordsInit /\ [][RecordsNext]_recordsVars

-----------------------------------------------------------------------------

\* The turbines the service starts with are at one site.
TwoSeeds == <<[turbine |-> "t1", site |-> "a", state |-> "running"],
              [turbine |-> "t2", site |-> "a", state |-> "maintenance"]>>

\* Two sites: one paid well with a penalty, one that promised nothing.
TwoPPAs == [a |-> [price |-> 2, minDeliver |-> 2, penalty |-> 3],
            b |-> [price |-> 1, minDeliver |-> 0, penalty |-> 0]]

\* Three turbines of two models.
ThreeTurbines == <<[id |-> "t1", model |-> "m1"],
                   [id |-> "t2", model |-> "m2"],
                   [id |-> "t3", model |-> "m1"]>>

\* Rules for one turbine and for all, for both operators, on metrics that are
\* normalised, that are not, and that nothing measures.
SomeRules == {[turbine |-> "t1", metric |-> "rotor_rpm", operator |-> ">=", threshold |-> 1],
              [turbine |-> "t2", metric |-> "gen_temp", operator |-> ">=", threshold |-> 0],
              [turbine |-> "", metric |-> "gen_temp", operator |-> "<=", threshold |-> -1],
              [turbine |-> "", metric |-> "power_output", operator |-> "<=", threshold |-> 1],
              [turbine |-> "t1", metric |-> "power_output", operator |-> ">=", threshold |-> 2],
              [turbine |-> "", metric |-> "unknown", operator |-> "<=", threshold |-> 0]}

\* Windows that meet, follow and contain one another, within two hours.
TwoHours == {<<0, 1>>, <<0, 2>>, <<1, 2>>}

\* The checksum's operator.
BitwiseXor(x, y) == x ^^ y

\* Frames without a payload, with one that begins like a header, and with one
\* that is a byte too long.
ThreeFrames == {[address |-> 0, command |-> 1, payload |-> << >>],
                [address |-> 1, command |-> 0, payload |-> <<2, 1>>],
                [address |-> 0, command |-> 3, payload |-> <<2, 0, 1, 3>>]}

SmallValues == -2 .. 2

SmallDeltas == {-1, 1}

MinusOne == -1

=============================================================================
