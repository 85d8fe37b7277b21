----------------------------- MODULE AlarmStore -----------------------------
(***************************************************************************)
(* internal/alarm: Dispatcher (dispatcher.go) with its Deduplicator        *)
(* (dedup.go), and the escalation sweep over it (ops/dispatch.go).         *)
(*                                                                         *)
(* Dispatch, Ack and Resolve each run under the dispatcher's lock and are  *)
(* one action.  Escalate is not one operation: it lists the open alarms    *)
(* and then acknowledges the old ones, each under a lock of its own.       *)
(*                                                                         *)
(* The map of alarms and its `order` slice are one sequence, an alarm's    *)
(* position its id.  Whether an alarm is older than the sweep's limit is   *)
(* left open: at the moment the sweep looks at it, any alarm may be.       *)
(***************************************************************************)
EXTENDS Naturals, Sequences, FiniteSets

CONSTANTS
  Turbines, Rules,  \* ids, strings
  Sweeps,           \* concurrent calls of Escalate
  MaxAlarms         \* bound on the alarms ever dispatched

VARIABLES
  alarms,  \* Dispatcher.alarms and Dispatcher.order
  sweep    \* per Escalate call, the listed alarms it has not yet looked at

vars == <<alarms, sweep>>

Status == {"open", "acknowledged", "resolved"}

Alarm == [turbine : Turbines, rule : Rules, status : Status]

Key(a) == a.turbine \o ":" \o a.rule

\* openLocked: the ids of the alarms that are still open.
OpenIds == {i \in DOMAIN alarms : alarms[i].status = "open"}

\* Mutant: the status test of Suppress inverted.
SuppressResolved(a, existing) ==
  \E i \in existing : Key(alarms[i]) = Key(a) /\ alarms[i].status = "resolved"

\* Does candidate a duplicate one of the alarms `existing`?
Suppress(a, existing) ==
  \E i \in existing : Key(alarms[i]) = Key(a) /\ alarms[i].status # "resolved"

Init == /\ alarms = << >>
        /\ sweep = [e \in Sweeps |-> {}]

NewAlarm(t, r) == [turbine |-> t, rule |-> r, status |-> "open"]

\* Dispatch of a candidate that is neither malformed nor a duplicate; every
\* other call returns without touching the store.
Dispatch(t, r) ==
  /\ t # "" /\ r # ""
  /\ Len(alarms) < MaxAlarms
  /\ ~Suppress(NewAlarm(t, r), OpenIds)
  /\ alarms' = Append(alarms, NewAlarm(t, r))

SetStatus(i, s) == alarms' = [alarms EXCEPT ![i].status = s]

Ack(i) == SetStatus(i, "acknowledged")

Resolve(i) == SetStatus(i, "resolved")

\* Escalate calls ListOpen.
SweepList(e) ==
  /\ sweep[e] = {}
  /\ sweep' = [sweep EXCEPT ![e] = OpenIds]
  /\ UNCHANGED alarms

\* Escalate's loop, in the order of the list: acknowledge an old alarm, pass a
\* young one.
SweepNext(e) ==
  \E i \in sweep[e] :
    /\ \A j \in sweep[e] : i <= j
    /\ sweep' = [sweep EXCEPT ![e] = @ \ {i}]
    /\ Ack(i) \/ UNCHANGED alarms

Next == \/ \E t \in Turbines, r \in Rules : Dispatch(t, r) /\ UNCHANGED sweep
        \/ \E i \in DOMAIN alarms : (Ack(i) \/ Resolve(i)) /\ UNCHANGED sweep
        \/ \E e \in Sweeps : SweepList(e) \/ SweepNext(e)

Spec == Init /\ [][Next]_vars

-----------------------------------------------------------------------------

\* The store holds well-formed alarms, and a sweep only lists ids it knows.
TypeOK == /\ alarms \in Seq(Alarm)
          /\ sweep \in [Sweeps -> SUBSET DOMAIN alarms]

\* Dedup: "a fresh evaluation should be suppressed because an identical alarm
\* is still open": no two open alarms have one key, whatever acknowledges,
\* resolves and late sweeps happen between dispatches.
OpenKeyUnique ==
  \A i, j \in OpenIds : Key(alarms[i]) = Key(alarms[j]) => i = j

=============================================================================
