------------------------------ MODULE FaultFlow ------------------------------
(***************************************************************************)
(* internal/ops: from an alarm to a fault (pipeline.go, ProcessIngest) and *)
(* from a fault to a work order (faultflow.go), over the fault service,    *)
(* the alarm dispatcher and the order scheduler.                           *)
(*                                                                         *)
(* Neither holds a lock of its own: each call into a service is a step,    *)
(* Faults.Raise and Faults.Acknowledge are the two steps FaultService      *)
(* makes of them, and operators resolve and acknowledge the same faults    *)
(* and alarms in between.  The pipeline is what a triggered evaluation     *)
(* sets off; Schedule is one step here (WorkOrders has its map).           *)
(*                                                                         *)
(* An order is its position in `orders`, which keeps the fault it is for.  *)
(***************************************************************************)
EXTENDS FaultService

CONSTANTS
  Pipelines,    \* callers inside ProcessIngest
  Dispatchers,  \* callers of DispatchWorkOrder
  Operators,    \* callers of the service itself
  Rules,        \* ids of the rules
  CodeOf,       \* rule -> code of the fault it raises, for the critical ones
  MaxAlarms,    \* bounds on alarms and orders
  MaxOrders

\* A caller that has more than one part to play is more than one caller.
ASSUME FlowCallers == /\ Pipelines \cup Dispatchers \cup Operators \subseteq Callers
                      /\ Dispatchers \cap (Pipelines \cup Operators) = {}
                      /\ Pipelines \cap Operators = {}
ASSUME RuleCodes == \A r \in DOMAIN CodeOf : CodeOf[r] \in Codes

VARIABLES
  alarms,     \* Dispatcher.alarms
  orders,     \* Scheduler.orders: the fault each is for
  announced,  \* orders with a work-order event in the audit stream
  flow        \* per caller, where it is outside the services

flowVars == <<faults, call, alarms, orders, announced, flow>>

Alarms == INSTANCE AlarmStore WITH Sweeps <- {}, sweep <- << >>

Critical == DOMAIN CodeOf

Ready == [at |-> "ready"]

FlowInit == /\ Init
            /\ alarms = << >> /\ orders = << >> /\ announced = {}
            /\ flow = [c \in Callers |-> Ready]

At(c, where) == flow[c].at = where

Goto(c, next) == flow' = [flow EXCEPT ![c] = next]

-----------------------------------------------------------------------------
(***************************************************************************)
(* ProcessIngest, from a triggered evaluation on.                          *)
(***************************************************************************)

AfterDispatch(t, r) ==
  IF r \in Critical THEN [at |-> "raise", turbine |-> t, code |-> CodeOf[r]] ELSE Ready

\* Mutant: the pipeline goes on with a candidate the dispatcher refused.
EvaluateAnyway(c, t, r) ==
  /\ c \in Pipelines /\ At(c, "ready") /\ Len(alarms) < MaxAlarms
  /\ \/ Alarms!Dispatch(t, r)
     \/ Alarms!Suppress(Alarms!NewAlarm(t, r), Alarms!OpenIds) /\ UNCHANGED alarms
  /\ Goto(c, AfterDispatch(t, r))
  /\ UNCHANGED <<faults, call, orders, announced>>

\* A candidate the dispatcher refuses ends here and changes nothing.
Evaluate(c, t, r) ==
  /\ c \in Pipelines /\ At(c, "ready")
  /\ Alarms!Dispatch(t, r)
  /\ Goto(c, AfterDispatch(t, r))
  /\ UNCHANGED <<faults, call, orders, announced>>

\* Raise finds an open fault or goes on to create one.
PipelineRaise(c) ==
  /\ At(c, "raise")
  /\ \/ /\ OpenFor(flow[c].turbine, flow[c].code) # {}
        /\ Goto(c, Ready)
        /\ UNCHANGED <<faults, call>>
     \/ /\ RaiseLookup(c, flow[c].turbine, flow[c].code)
        /\ Goto(c, [flow[c] EXCEPT !.at = "create"])
  /\ UNCHANGED <<alarms, orders, announced>>

PipelineCreate(c) ==
  /\ At(c, "create")
  /\ RaiseCreate(c)
  /\ Goto(c, Ready)
  /\ UNCHANGED <<alarms, orders, announced>>

-----------------------------------------------------------------------------
(***************************************************************************)
(* DispatchWorkOrder.                                                      *)
(***************************************************************************)

InFlight == {c \in Callers : At(c, "schedule")}

\* Faults.Get, and the return for a resolved fault.
DispatchRead(c, i) ==
  /\ c \in Dispatchers /\ At(c, "ready")
  /\ Len(orders) + Cardinality(InFlight) < MaxOrders
  /\ faults[i].state # "normal"
  /\ Goto(c, [at |-> "schedule", fault |-> i])
  /\ UNCHANGED <<faults, call, alarms, orders, announced>>

\* Mutant: the flow announces the order before it acknowledges the fault.
DispatchAnnounceFirst(c) ==
  /\ At(c, "schedule")
  /\ orders' = Append(orders, flow[c].fault)
  /\ announced' = announced \cup {Len(orders) + 1}
  /\ Goto(c, [at |-> "acknowledge", fault |-> flow[c].fault, order |-> Len(orders) + 1])
  /\ UNCHANGED <<faults, call, alarms>>

\* Mutant: the flow marks the fault itself when it schedules the order.
DispatchMark(c) ==
  /\ At(c, "schedule")
  /\ orders' = Append(orders, flow[c].fault)
  /\ faults' = [faults EXCEPT ![flow[c].fault].state = "maintenance"]
  /\ Goto(c, [at |-> "acknowledge", fault |-> flow[c].fault, order |-> Len(orders) + 1])
  /\ UNCHANGED <<call, alarms, announced>>

\* Orders.Schedule.
DispatchSchedule(c) ==
  /\ At(c, "schedule")
  /\ orders' = Append(orders, flow[c].fault)
  /\ Goto(c, [at |-> "acknowledge", fault |-> flow[c].fault, order |-> Len(orders) + 1])
  /\ UNCHANGED <<faults, call, alarms, announced>>

\* Mutant: a fault that was resolved meanwhile is an error.
DispatchAckRefused(c) ==
  /\ At(c, "acknowledge")
  /\ \/ faults[flow[c].fault].state = "normal" /\ Goto(c, Ready) /\ UNCHANGED <<faults, call>>
     \/ AcknowledgeGet(c, flow[c].fault) /\ Goto(c, [flow[c] EXCEPT !.at = "acknowledging"])
  /\ UNCHANGED <<alarms, orders, announced>>

\* Faults.Acknowledge reads the fault; for a resolved one it has nothing to do.
DispatchAckRead(c) ==
  /\ At(c, "acknowledge")
  /\ \/ /\ faults[flow[c].fault].state = "normal"
        /\ Goto(c, [flow[c] EXCEPT !.at = "announce"])
        /\ UNCHANGED <<faults, call>>
     \/ /\ AcknowledgeGet(c, flow[c].fault)
        /\ Goto(c, [flow[c] EXCEPT !.at = "acknowledging"])
  /\ UNCHANGED <<alarms, orders, announced>>

\* Its Store.Transition; it fails for a state that cannot become maintenance,
\* and then DispatchWorkOrder returns the error and the order stays.
DispatchAckWrite(c) ==
  /\ At(c, "acknowledging")
  /\ \/ /\ CanTransition(faults[flow[c].fault].state, "maintenance")
        /\ Goto(c, [flow[c] EXCEPT !.at = "announce"])
     \/ /\ ~CanTransition(faults[flow[c].fault].state, "maintenance")
        /\ Goto(c, Ready)
  /\ AcknowledgeTransition(c)
  /\ UNCHANGED <<alarms, orders, announced>>

\* Audit.Publish.
DispatchAnnounce(c) ==
  /\ At(c, "announce")
  /\ announced' = announced \cup {flow[c].order}
  /\ Goto(c, Ready)
  /\ UNCHANGED <<faults, call, alarms, orders>>

-----------------------------------------------------------------------------

\* An operator, or ResolveAfterWork, at the fault service.
Operate(c) ==
  /\ c \in Operators
  /\ \/ \E i \in DOMAIN faults : AcknowledgeGet(c, i) \/ ResolveGet(c, i)
     \/ AcknowledgeTransition(c)
     \/ ResolveTransition(c)
  /\ UNCHANGED <<alarms, orders, announced, flow>>

AckOrResolveAlarm(i) ==
  /\ Alarms!Ack(i) \/ Alarms!Resolve(i)
  /\ UNCHANGED <<faults, call, orders, announced, flow>>

FlowNext ==
  \/ \E c \in Callers :
       \/ \E t \in Turbines, r \in Rules : Evaluate(c, t, r)
       \/ PipelineRaise(c) \/ PipelineCreate(c)
       \/ \E i \in DOMAIN faults : DispatchRead(c, i)
       \/ DispatchSchedule(c) \/ DispatchAckRead(c) \/ DispatchAckWrite(c)
       \/ DispatchAnnounce(c)
       \/ Operate(c)
  \/ \E i \in DOMAIN alarms : AckOrResolveAlarm(i)

\* A goroutine in the middle of its flow goes on; nobody need begin one.
FlowFair ==
  /\ \A c \in Pipelines : WF_flowVars(PipelineRaise(c) \/ PipelineCreate(c))
  /\ \A c \in Dispatchers : WF_flowVars(\/ DispatchSchedule(c) \/ DispatchAckRead(c)
                                        \/ DispatchAckWrite(c) \/ DispatchAnnounce(c))

FlowSpec == FlowInit /\ [][FlowNext]_flowVars /\ FlowFair

-----------------------------------------------------------------------------

\* The composition implements the fault service: what is proved of the service
\* holds of the faults the pipeline and the order flow work on.
ServiceSpec == Spec

\* No order is announced for a fault that is still open, or is open again:
\* whoever reads the event finds the fault acknowledged or resolved, although
\* the order was scheduled before the acknowledge and operators interfere.
AnnouncedIsAcknowledged ==
  \A o \in announced : ~IsOpen(faults[orders[o]])

\* Every order that is scheduled is announced in the end: the acknowledge that
\* comes between the two cannot fail, whatever operators do to the fault, so
\* DispatchWorkOrder never leaves an order behind that nobody hears of.
EveryOrderAnnounced ==
  \A o \in 1 .. MaxOrders : o \in DOMAIN orders ~> o \in announced

AlarmsFor(t, k) == {i \in DOMAIN alarms : /\ alarms[i].turbine = t
                                          /\ alarms[i].rule \in Critical
                                          /\ CodeOf[alarms[i].rule] = k}

RaisingFor(t, k) == {c \in Callers : /\ flow[c].at \in {"raise", "create"}
                                     /\ Same(flow[c], t, k)}

MadeFor(t, k) == {i \in DOMAIN faults : Same(faults[i], t, k)}

\* Faults and critical alarms account for each other: a turbine never has more
\* faults of a code, made or on the way, than alarms that ask for one, and one
\* alarm is enough to have a fault.
FaultsMatchAlarms ==
  \A t \in Turbines, k \in Codes :
    /\ Cardinality(MadeFor(t, k)) + Cardinality(RaisingFor(t, k)) <= Cardinality(AlarmsFor(t, k))
    /\ AlarmsFor(t, k) # {} => MadeFor(t, k) \cup RaisingFor(t, k) # {}

=============================================================================
