------------------------------- MODULE Upkeep -------------------------------
(***************************************************************************)
(* What a turbine needs in time: certificates for its model                *)
(* (internal/compliance cert.go, report.go) and services                   *)
(* (internal/maintenance interval.go, plan.go).  Both keep a record, both  *)
(* say what falls due within some days, and both judge later.              *)
(*                                                                         *)
(* A day is one step of the clock.  Time 0 is the zero time of Go; the     *)
(* clock begins at 1.                                                      *)
(***************************************************************************)
EXTENDS Naturals, Sequences, SequencesExt, FiniteSets

CONSTANTS
  Turbines,      \* the fleet's list, a sequence of [id, model]
  Models,        \* models of turbines and of certificates
  Soon,          \* the days a certificate counts as expiring, 30 in the code
  Interval,      \* days between services, Plan.IntervalDays
  LastDay,       \* bound on the clock
  MaxCerts, MaxServices

ASSUME UpkeepNumbers == Soon \in Nat /\ Interval \in Nat /\ LastDay \in Nat
ASSUME ModelsKnown == \A i \in DOMAIN Turbines : Turbines[i].model \in Models
\* Registry.List has each id once.
ASSUME IdsOnce == \A i, j \in DOMAIN Turbines : Turbines[i].id = Turbines[j].id => i = j

VARIABLES
  today,     \* the clock
  certs,     \* model -> its certificates' days of expiry, 0 for none
  services   \* turbine -> the days of its services

upkeepVars == <<today, certs, services>>

TurbineIds == {Turbines[i].id : i \in DOMAIN Turbines}

UpkeepInit == /\ today = 1
              /\ certs = [m \in Models |-> << >>]
              /\ services = [t \in TurbineIds |-> << >>]

\* Certificate.Status.
Status(expires, at) == CASE expires = 0 -> "unknown"
                         [] expires # 0 /\ at > expires -> "expired"
                         [] expires # 0 /\ at <= expires /\ at + Soon > expires -> "expiring"
                         [] OTHER -> "valid"

\* Store.ValidFor.
ValidFor(m, at) == \E i \in DOMAIN certs[m] : Status(certs[m][i], at) \in {"valid", "expiring"}

\* Mutant: only the newest certificate of a model is looked at.
ExpiringNewest(at, days) ==
  {m \in Models : /\ certs[m] # << >>
                  /\ at <= Last(certs[m]) /\ at + days > Last(certs[m])}

\* Store.Expiring.
Expiring(at, days) ==
  {m \in Models : \E i \in DOMAIN certs[m] : at <= certs[m][i] /\ at + days > certs[m][i]}

\* The first turbine of each model in the list.
FirstOfModel == {i \in DOMAIN Turbines : \A j \in 1 .. i - 1 : Turbines[j].model # Turbines[i].model}

\* Auditor.Audit: the turbines its findings name, all of them critical.
Findings(at) == {Turbines[i].id : i \in {k \in FirstOfModel : ~ValidFor(Turbines[k].model, at)}}

\* Summarize.
Passed(at) == Findings(at) = {}

\* Scheduler.last.
LastService(t) == CHOOSE d \in ToSet(services[t]) : \A e \in ToSet(services[t]) : e <= d

\* Plan.NextDue and Plan.Overdue.
NextDue(t) == LastService(t) + Interval
Overdue(t, at) == at > NextDue(t)

\* A turbine with no record at all is not in the scheduler's map.
Recorded == {t \in TurbineIds : services[t] # << >>}

\* Scheduler.Upcoming.
Upcoming(at, days) == {t \in Recorded : at + days > NextDue(t)}

-----------------------------------------------------------------------------

\* Store.Add of a certificate with any day of expiry, past ones included.
AddCert == \E m \in Models, expires \in 0 .. LastDay :
             /\ Len(certs[m]) < MaxCerts
             /\ certs' = [certs EXCEPT ![m] = Append(@, expires)]
             /\ UNCHANGED <<today, services>>

\* Scheduler.Record of a service up to today, not always the latest.
Record == \E t \in TurbineIds, day \in 1 .. today :
            /\ Len(services[t]) < MaxServices
            /\ services' = [services EXCEPT ![t] = Append(@, day)]
            /\ UNCHANGED <<today, certs>>

DayPasses == /\ today < LastDay
             /\ today' = today + 1
             /\ UNCHANGED <<certs, services>>

CertsNext == AddCert \/ DayPasses

ServicesNext == Record \/ DayPasses

UpkeepSpec == UpkeepInit /\ [][CertsNext \/ ServicesNext]_upkeepVars

-----------------------------------------------------------------------------

\* Nothing falls due unannounced.  A model that passes an audit today and is not
\* listed as expiring passes every audit of the days asked about; a turbine with
\* a service record that is not upcoming is not overdue on any of them.  Adding
\* certificates and services never makes either untrue.
NothingDueUnannounced ==
  \A days \in 0 .. Soon : \A at \in today .. today + days :
    /\ \A i \in FirstOfModel :
         LET m == Turbines[i].model
         IN  Turbines[i].id \notin Findings(today) /\ m \notin Expiring(today, days)
               => Turbines[i].id \notin Findings(at)
    /\ \A t \in Recorded \ Upcoming(today, days) : ~Overdue(t, at)

=============================================================================
