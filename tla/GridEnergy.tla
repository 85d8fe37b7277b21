----------------------------- MODULE GridEnergy -----------------------------
(***************************************************************************)
(* internal/grid: the curtailment schedule (curtailment.go); and           *)
(* internal/energy: what it leaves to export (export.go), settlements      *)
(* (settlement.go) and the revenue they add up to (revenue.go).            *)
(*                                                                         *)
(* Energies, limits and prices are small integers, intervals one hour.     *)
(***************************************************************************)
EXTENDS Integers, Sequences, SequencesExt, FiniteSets

CONSTANTS
  GridSites,
  PPAs,            \* site -> its agreement, [price, minDeliver, penalty]
  Limits, Windows, \* limits of curtailments, and their <<start, end>>
  Metered,         \* energies a meter shows
  Deltas,          \* corrections of a settlement
  Horizon,         \* bound on the clock
  MaxEnergy,       \* bound on a corrected energy
  MaxCurtailments, MaxSettlements

ASSUME AgreementTypes == PPAs \in [GridSites -> [price : Int, minDeliver : Int, penalty : Int]]
ASSUME GridNumbers == /\ Windows \subseteq Int \X Int
                      /\ UNION {Limits, Metered, Deltas} \subseteq Int

VARIABLES
  hour,         \* the clock
  items,        \* the schedule's curtailments, in order of adding
  settlements,  \* settled so far
  corrected     \* the settlements AdjustEnergy was called on, not kept by the code

gridVars == <<hour, items, settlements, corrected>>

GridInit == hour = 0 /\ items = << >> /\ settlements = << >> /\ corrected = {}

\* Mutant: the end of the window is in it.
CoversEnd(c, site, at) == c.site = site /\ c.active /\ c.start <= at /\ at <= c.end

Covers(c, site, at) == c.site = site /\ c.active /\ c.start <= at /\ at < c.end

\* Schedule.ActiveFor: the first curtailment in force, 0 for none.
ActiveFor(cs, site, at) == SelectInSeq(cs, LAMBDA c : Covers(c, site, at))

\* Reconcile: what may be exported of the metered energy.
Exported(site, metered, at) ==
  LET i == ActiveFor(items, site, at)
  IN  IF i # 0 /\ metered > items[i].limit THEN items[i].limit ELSE metered

Shortfall(energy, ppa) == IF energy < ppa.minDeliver THEN ppa.minDeliver - energy ELSE 0

\* Mutant: the shortfall is not paid for.
SettleFull(site, energy) ==
  [site |-> site, energy |-> energy, price |-> PPAs[site].price,
   total |-> energy * PPAs[site].price]

\* Settle under the agreement of the site.
Settle(site, energy) ==
  [site |-> site, energy |-> energy, price |-> PPAs[site].price,
   total |-> energy * PPAs[site].price - Shortfall(energy, PPAs[site]) * PPAs[site].penalty]

\* The penalty of each settlement under the agreement it was made under.
penalties == [i \in DOMAIN settlements |->
                LET s == settlements[i] IN Shortfall(s.energy, PPAs[s.site]) * PPAs[s.site].penalty]

\* SumRevenue with those agreements.
Gross     == SumFunction([i \in DOMAIN settlements |-> settlements[i].energy * settlements[i].price])
Penalties == SumFunction(penalties)
Net       == Gross - Penalties

-----------------------------------------------------------------------------

Add == /\ Len(items) < MaxCurtailments
       /\ \E site \in GridSites, limit \in Limits, w \in Windows :
            items' = Append(items, [site |-> site, start |-> w[1], end |-> w[2],
                                    limit |-> limit, active |-> TRUE])
       /\ UNCHANGED <<hour, settlements, corrected>>

\* Schedule.Expire, with the present time or one read earlier.
Expire == /\ \E at \in 0 .. hour :
               items' = [i \in DOMAIN items |->
                           [items[i] EXCEPT !.active = @ /\ at < items[i].end]]
          /\ UNCHANGED <<hour, settlements, corrected>>

\* The energy of an hour is reconciled with the schedule and settled.
Bill == /\ Len(settlements) < MaxSettlements
        /\ \E site \in GridSites, metered \in Metered :
             settlements' = Append(settlements, Settle(site, Exported(site, metered, hour)))
        /\ UNCHANGED <<hour, items, corrected>>

\* Settlement.AdjustEnergy: the total is made anew, without the penalty.
Adjust ==
  \E i \in DOMAIN settlements, delta \in Deltas :
    LET s == settlements[i]
    IN  /\ s.energy + delta \in 0 .. MaxEnergy
        /\ settlements' = [settlements EXCEPT ![i].energy = s.energy + delta,
                                              ![i].total = (s.energy + delta) * s.price]
        /\ corrected' = corrected \cup {i}
        /\ UNCHANGED <<hour, items>>

HourPasses == /\ hour < Horizon
              /\ hour' = hour + 1
              /\ UNCHANGED <<items, settlements, corrected>>

GridNext == Add \/ Expire \/ Bill \/ Adjust \/ HourPasses

GridSpec == GridInit /\ [][GridNext]_gridVars

-----------------------------------------------------------------------------

\* Expire is housekeeping: whenever it runs, and with whatever earlier time it
\* was given, no question about the present or the future is answered
\* differently, neither whether a site is curtailed nor by which instruction.
ExpiryIsInvisible ==
  [][items' # items /\ Len(items') = Len(items) =>
       \A site \in GridSites, at \in hour' .. Horizon :
         ActiveFor(items', site, at) = ActiveFor(items, site, at)]_gridVars

\* The revenue summary and the settlements it is made of tell one story: net is
\* the sum of the totals, but for the penalties of settlements that were
\* corrected after they were made, which the correction drops from the total.
BooksAgree ==
  Net = SumFunction([i \in DOMAIN settlements |-> settlements[i].total])
        - SumFunctionOnSet(penalties, corrected)

=============================================================================
