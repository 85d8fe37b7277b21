------------------------------- MODULE Fleet -------------------------------
(***************************************************************************)
(* internal/turbine: Registry (registry.go, fleet.go), the handlers that   *)
(* register turbines and change their states (gateway/handlers.go,         *)
(* handlers_more.go), and the report builder and runner that read the      *)
(* registry (report/builder.go, ops/reporter.go).                          *)
(*                                                                         *)
(* The registry has one lock and every method holds it throughout; a       *)
(* request calls several methods, one after the other, and that is where   *)
(* requests interleave.  `writes` is the history of the registry, which    *)
(* the code does not keep.                                                 *)
(***************************************************************************)
EXTENDS Naturals, Sequences, SequencesExt, FiniteSets

CONSTANTS
  Users,      \* concurrent requests and report runs
  FleetIds, Sites,
  Seed,       \* the registry's first turbines, a sequence of [turbine, site, state]
  States,     \* states a request may ask for: any text is taken
  MaxWrites   \* bound on the writes to the registry

\* main.go seeds each id once.
ASSUME SeedTypes ==
  /\ Seed \in Seq([turbine : FleetIds, site : Sites, state : STRING])
  /\ \A i, j \in DOMAIN Seed : Seed[i].turbine = Seed[j].turbine => i = j

VARIABLES
  turbines,   \* id -> [site, state] for the registered ids
  order,      \* the ids in order of registration
  trail,      \* the audit history
  request,    \* per user: where it is and what it carries
  writes      \* every write to the registry, oldest first

fleetVars == <<turbines, order, trail, request, writes>>

NoRequest == [pc |-> "idle"]

FleetInit == /\ turbines = [id \in {Seed[i].turbine : i \in DOMAIN Seed} |->
                             LET t == Seed[SelectInSeq(Seed, LAMBDA x : x.turbine = id)]
                             IN  [site |-> t.site, state |-> t.state]]
             /\ order = [i \in DOMAIN Seed |-> Seed[i].turbine]
             /\ trail = << >>
             /\ request = [u \in Users |-> NoRequest]
             /\ writes = << >>

Proceed(u, r) == request' = [request EXCEPT ![u] = r]

Active(t) == t.state \in {"running", "idle"}

\* Registry.List: the turbines in order of registration, here their ids.
Listed == order

\* Registry.Stats, from one List.
Stats == [total       |-> Len(order),
          active      |-> Cardinality({k \in DOMAIN Listed : Active(turbines[Listed[k]])}),
          maintenance |-> Cardinality({k \in DOMAIN Listed : turbines[Listed[k]].state = "maintenance"})]

\* Registry.Put: a known id keeps its place and loses its record.
Put(id, t) ==
  /\ order' = IF id \in DOMAIN turbines THEN order ELSE Append(order, id)
  /\ turbines' = [i \in DOMAIN turbines \cup {id} |-> IF i = id THEN t ELSE turbines[i]]
  /\ writes' = Append(writes, [turbine |-> id, site |-> t.site])

\* handleAddTurbine up to the registry: a registered turbine runs.  A request
\* without id or name ends before, and is no step.
AddPut(u) ==
  /\ request[u].pc = "idle"
  /\ Len(writes) < MaxWrites
  /\ \E id \in FleetIds, site \in Sites :
       /\ Put(id, [site |-> site, state |-> "running"])
       /\ Proceed(u, [pc |-> "publish", turbine |-> id, then |-> "idle"])
  /\ UNCHANGED trail

\* Registry.UpdateState of a known id.
UpdateState(id, state) ==
  /\ id \in DOMAIN turbines
  /\ turbines' = [turbines EXCEPT ![id].state = state]
  /\ writes' = Append(writes, [turbine |-> id, site |-> turbines[id].site])
  /\ UNCHANGED order

\* Mutant: the event is published first, and the update may still be refused.
UpdatePublishFirst(u) ==
  /\ request[u].pc = "idle"
  /\ Len(trail) < MaxWrites
  /\ \E id \in FleetIds :
       /\ trail' = Append(trail, id)
       /\ \/ /\ \E state \in States : UpdateState(id, state)
             /\ Proceed(u, [pc |-> "get", turbine |-> id])
          \/ /\ id \notin DOMAIN turbines
             /\ UNCHANGED <<turbines, order, writes, request>>

\* handleUpdateTurbineState up to the registry; an unknown id is answered with
\* an error and is no step.
UpdateWrite(u) ==
  /\ request[u].pc = "idle"
  /\ Len(writes) < MaxWrites
  /\ \E id \in FleetIds, state \in States :
       /\ UpdateState(id, state)
       /\ Proceed(u, [pc |-> "publish", turbine |-> id, then |-> "get"])
  /\ UNCHANGED trail

\* Both handlers publish when the registry has been written; of the event only
\* the turbine matters here.
Publish(u) ==
  /\ request[u].pc = "publish"
  /\ trail' = Append(trail, request[u].turbine)
  /\ Proceed(u, IF request[u].then = "get" THEN [pc |-> "get", turbine |-> request[u].turbine]
                                        ELSE NoRequest)
  /\ UNCHANGED <<turbines, order, writes>>

\* handleUpdateTurbineState reads the turbine back for its answer, whatever
\* state it has by now.
UpdateGet(u) ==
  /\ request[u].pc = "get"
  /\ Proceed(u, NoRequest)
  /\ UNCHANGED <<turbines, order, trail, writes>>

-----------------------------------------------------------------------------

\* LatestSiteReports lists the fleet once and builds a report for the site of
\* each turbine of that list, with the site the list has for it, if there is
\* none yet.  A request for the report of one site is such a run with one Build.
ReportList(u) ==
  /\ request[u].pc = "idle"
  /\ Proceed(u, [pc    |-> "sites",
              first |-> [i \in DOMAIN Listed |-> [turbine |-> Listed[i], site |-> turbines[Listed[i]].site]],
              since |-> Len(writes),
              total |-> << >>,
              rows  |-> << >>])
  /\ UNCHANGED <<turbines, order, trail, writes>>

\* The first turbine of the list whose site has no report, 0 for none.
NextTurbine(r) == SelectInSeq(r.first, LAMBDA t : t.site \notin DOMAIN r.rows)

NextSite(r) == r.first[NextTurbine(r)].site

\* The sections of a report go under its site.
Under(sections, site, s) == [x \in DOMAIN sections \cup {site} |-> IF x = site THEN s ELSE sections[x]]

\* Build takes the fleet section from Stats.
BuildStats(u) ==
  LET r == request[u]
  IN  /\ r.pc = "sites"
      /\ NextTurbine(r) # 0
      /\ Proceed(u, [r EXCEPT !.pc = "rows", !.total = Under(@, NextSite(r), Stats)])
      /\ UNCHANGED <<turbines, order, trail, writes>>

\* Mutant: the rows are those of ListActive.
RowsOfActive(r) ==
  LET here == {k \in DOMAIN Listed : /\ Active(turbines[Listed[k]])
                                     /\ turbines[Listed[k]].site = NextSite(r)}
  IN  [k \in here |-> Listed[k]]

\* energySection has a row for each turbine of the site in a second List, here
\* under the place the turbine has in that list.
Rows(r) ==
  LET here == {k \in DOMAIN Listed : turbines[Listed[k]].site = NextSite(r)}
  IN  [k \in here |-> Listed[k]]

BuildRows(u) ==
  LET r == request[u]
  IN  /\ r.pc = "rows"
      /\ Proceed(u, [r EXCEPT !.pc = "sites", !.rows = Under(@, NextSite(r), Rows(r))])
      /\ UNCHANGED <<turbines, order, trail, writes>>

ReportEnd(u) ==
  /\ request[u].pc = "sites"
  /\ NextTurbine(request[u]) = 0
  /\ Proceed(u, NoRequest)
  /\ UNCHANGED <<turbines, order, trail, writes>>

FleetNext == \E u \in Users : \/ AddPut(u) \/ UpdateWrite(u) \/ Publish(u) \/ UpdateGet(u)
                              \/ ReportList(u) \/ BuildStats(u) \/ BuildRows(u) \/ ReportEnd(u)

FleetSpec == FleetInit /\ [][FleetNext]_fleetVars

-----------------------------------------------------------------------------

\* What is about to be published of a turbine.
Unpublished(id) == {u \in Users : request[u].pc = "publish" /\ request[u].turbine = id}

Count(s, Test(_)) == Cardinality({k \in DOMAIN s : Test(s[k])})

\* The audit history has one event for each write to a turbine's record, or a
\* request that is about to append it: no refused update leaves an event, no
\* update goes unrecorded, however requests overlap.
EveryWriteAudited ==
  \A id \in FleetIds :
    Count(writes, LAMBDA w : w.turbine = id)
      = Count(trail, LAMBDA e : e = id) + Cardinality(Unpublished(id))

\* Since the list was taken the turbine was registered at another site than t's.
MovedSince(t, n) ==
  \E k \in n + 1 .. Len(writes) : writes[k].turbine = t.turbine /\ writes[k].site # t.site

\* The places of a turbine in the reports of a run.
RowsFor(id, rows) ==
  {p \in UNION {{site} \X DOMAIN rows[site] : site \in DOMAIN rows} : rows[p[1]][p[2]] = id}

\* A run of site reports has each turbine of the fleet it began with in one row
\* of one report, unless the turbine was registered at another site meanwhile,
\* and each report counts at least that fleet, of which no more are active or
\* in maintenance than there are: the sections of a report come from different
\* moments, and what a reader adds up still agrees.
EachTurbineReportedOnce ==
  \A u \in Users : LET r == request[u] IN
    r.pc = "sites" /\ NextTurbine(r) = 0 =>
      /\ \A i \in DOMAIN r.first : \/ Cardinality(RowsFor(r.first[i].turbine, r.rows)) = 1
                                   \/ MovedSince(r.first[i], r.since)
      /\ \A site \in DOMAIN r.total :
           /\ Len(r.first) <= r.total[site].total
           /\ r.total[site].active + r.total[site].maintenance <= r.total[site].total

=============================================================================
