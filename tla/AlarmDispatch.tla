---------------------------- MODULE AlarmDispatch ----------------------------
(***************************************************************************)
(* internal/ops/dispatch.go: DispatchAndRoute over the throttle, the alarm *)
(* store, the routing tiers (internal/alarm/routing.go) and the audit      *)
(* history, together with the other users of the same store: the telemetry *)
(* handlers (gateway/handlers.go, ops/pipeline.go), which dispatch, notify *)
(* (internal/alarm/notifier.go) and publish without AlarmDispatch's lock;  *)
(* the acknowledge and resolve requests; and the escalation sweep.         *)
(*                                                                         *)
(* One action per critical section of an inner lock.  A fan-out makes one  *)
(* non-blocking attempt at each channel; attempts at different channels    *)
(* commute, so they are one action.  The consumers of the channels are     *)
(* outside the repository and may stop for ever.                           *)
(***************************************************************************)
EXTENDS Integers, Sequences, FiniteSets

CONSTANTS
  Routers,      \* callers of DispatchAndRoute
  Ingesters,    \* telemetry requests
  Candidates,   \* [turbine, rule, severity]: what evaluation may produce
  Channels,     \* all registered channels, each of capacity Cap
  Listeners,    \* routing tier -> the channels registered for it
  Sinks,        \* channels registered with the notifier
  Cap,
  Turbines, Rules, Sweeps, MaxAlarms,   \* as in AlarmStore
  Window, Limit, MaxLag, MaxTime        \* as in Throttle

ASSUME DisjointCallers == Routers \cap Ingesters = {}
ASSUME ListenerTypes ==
  Listeners \in [{"critical", "engineer", "ops", "silent"} -> SUBSET Channels]
ASSUME CandidateTypes ==
  Candidates \subseteq [turbine : Turbines, rule : Rules \cup {""}, severity : STRING]

VARIABLES
  alarms, sweep,                    \* AlarmStore
  clock, now, granted, buckets,     \* Throttle
  mu,      \* who holds AlarmDispatch.mu
  call,    \* per caller, where it is and what it carries
  queue,   \* per channel, the ids of the alarms it buffers
  audit    \* the audit history: ids of alarms, and who published each

store  == <<alarms, sweep>>
budget == <<clock, now, granted, buckets>>
vars   == <<store, budget, mu, call, queue, audit>>

Store  == INSTANCE AlarmStore
Budget == INSTANCE Throttle WITH Callers <- Routers

ASSUME BudgetNumbers == Budget!ThrottleNumbers

RouteForSeverity(s) == CASE s = "critical" -> "critical"
                         [] s = "warning"  -> "engineer"
                         [] s = "info"     -> "ops"
                         [] OTHER          -> "silent"

Idle == [pc |-> "idle"]

Init == /\ Store!Init
        /\ Budget!Init
        /\ mu = {}
        /\ call = [c \in Routers \cup Ingesters |-> Idle]
        /\ queue = [ch \in Channels |-> << >>]
        /\ audit = << >>

Goto(c, next) == call' = [call EXCEPT ![c] = next]

\* Mutant: a send that waits for room in every channel.
SendBlocking(chs, i) ==
  /\ \A ch \in chs : Len(queue[ch]) < Cap
  /\ queue' = [ch \in Channels |-> IF ch \in chs THEN Append(queue[ch], i) ELSE queue[ch]]

\* Fanout and Notify: a full channel is passed over.
Send(chs, i) ==
  queue' = [ch \in Channels |-> IF ch \in chs /\ Len(queue[ch]) < Cap
                                  THEN Append(queue[ch], i)
                                  ELSE queue[ch]]

Publish(c) == audit' = Append(audit, [id |-> call[c].id, by |-> c])

-----------------------------------------------------------------------------
(***************************************************************************)
(* DispatchAndRoute.                                                       *)
(***************************************************************************)

\* The caller reads the clock and waits for the lock.
Enter(c, a) ==
  /\ call[c] = Idle
  /\ Budget!ReadClock(c)
  /\ Goto(c, [pc |-> "waiting", cand |-> a])
  /\ UNCHANGED <<store, clock, granted, buckets, mu, queue, audit>>

\* Mutant: DispatchAndRoute without a.mu.
AllowUnlocked(c) ==
  /\ call[c].pc = "waiting"
  /\ Budget!UseTime(c)
  /\ Budget!Grant(call[c].cand.turbine, now[c])
  /\ mu' = mu \cup {c}
  /\ Goto(c, [pc |-> "dispatch", cand |-> call[c].cand])
  /\ UNCHANGED <<store, clock, queue, audit>>

\* It takes the lock and Allow grants: it goes on, keeping the lock.
AllowGranted(c) ==
  /\ call[c].pc = "waiting"
  /\ mu = {}
  /\ Budget!UseTime(c)
  /\ Budget!Grant(call[c].cand.turbine, now[c])
  /\ mu' = {c}
  /\ Goto(c, [pc |-> "dispatch", cand |-> call[c].cand])
  /\ UNCHANGED <<store, clock, queue, audit>>

\* It takes the lock and Allow refuses: it returns.
AllowDenied(c) ==
  /\ call[c].pc = "waiting"
  /\ mu = {}
  /\ Budget!UseTime(c)
  /\ Budget!Deny(call[c].cand.turbine, now[c])
  /\ Goto(c, Idle)
  /\ UNCHANGED <<store, clock, mu, queue, audit>>

\* Mutant: Dispatch without its deduplicator.
DispatchTwins(c) ==
  /\ call[c].pc = "dispatch"
  /\ call[c].cand.rule # ""
  /\ Len(alarms) < MaxAlarms
  /\ alarms' = Append(alarms, Store!NewAlarm(call[c].cand.turbine, call[c].cand.rule))
  /\ Goto(c, [pc |-> "route", id |-> Len(alarms) + 1, cand |-> call[c].cand])
  /\ UNCHANGED <<sweep, budget, mu, queue, audit>>

\* Dispatch creates the alarm.
DispatchCreated(c) ==
  /\ call[c].pc = "dispatch"
  /\ Store!Dispatch(call[c].cand.turbine, call[c].cand.rule)
  /\ Goto(c, [pc |-> "route", id |-> Len(alarms) + 1, cand |-> call[c].cand])
  /\ UNCHANGED <<sweep, budget, mu, queue, audit>>

\* Dispatch refuses: a rule id is missing, or an identical alarm is open.
DispatchRefused(c) ==
  /\ call[c].pc = "dispatch"
  /\ LET a == call[c].cand IN
       a.rule = "" \/ Store!Suppress(Store!NewAlarm(a.turbine, a.rule), Store!OpenIds)
  /\ mu' = mu \ {c}
  /\ Goto(c, Idle)
  /\ UNCHANGED <<store, budget, queue, audit>>

\* Mutant: DispatchAndRoute returns when the fan-out met a full channel.
FanoutOrReturn(c) ==
  /\ call[c].pc = "route"
  /\ LET chs == Listeners[RouteForSeverity(call[c].cand.severity)] IN
       /\ Send(chs, call[c].id)
       /\ IF \E ch \in chs : Len(queue[ch]) = Cap
            THEN mu' = mu \ {c} /\ Goto(c, Idle)
            ELSE UNCHANGED mu /\ Goto(c, [pc |-> "publish", id |-> call[c].id])
  /\ UNCHANGED <<store, budget, audit>>

Fanout(c) ==
  /\ call[c].pc = "route"
  /\ Send(Listeners[RouteForSeverity(call[c].cand.severity)], call[c].id)
  /\ Goto(c, [pc |-> "publish", id |-> call[c].id])
  /\ UNCHANGED <<store, budget, mu, audit>>

\* The last thing it does under the lock.
PublishAndReturn(c) ==
  /\ call[c].pc = "publish"
  /\ Publish(c)
  /\ mu' = mu \ {c}
  /\ Goto(c, Idle)
  /\ UNCHANGED <<store, budget, queue>>

-----------------------------------------------------------------------------
(***************************************************************************)
(* The other users of the store.                                           *)
(***************************************************************************)

IngestDispatch(c, a) ==
  /\ call[c] = Idle
  /\ Store!Dispatch(a.turbine, a.rule)
  /\ Goto(c, [pc |-> "notify", id |-> Len(alarms) + 1])
  /\ UNCHANGED <<sweep, budget, mu, queue, audit>>

Notify(c) ==
  /\ call[c].pc = "notify"
  /\ Send(Sinks, call[c].id)
  /\ Goto(c, [pc |-> "ingestPublish", id |-> call[c].id])
  /\ UNCHANGED <<store, budget, mu, audit>>

IngestPublish(c) ==
  /\ call[c].pc = "ingestPublish"
  /\ Publish(c)
  /\ Goto(c, Idle)
  /\ UNCHANGED <<store, budget, mu, queue>>

AckOrResolve(i) ==
  /\ Store!Ack(i) \/ Store!Resolve(i)
  /\ UNCHANGED <<sweep, budget, mu, call, queue, audit>>

Escalate(e) ==
  /\ Store!SweepList(e) \/ Store!SweepNext(e)
  /\ UNCHANGED <<budget, mu, call, queue, audit>>

Receive(ch) ==
  /\ queue[ch] # << >>
  /\ queue' = [queue EXCEPT ![ch] = Tail(@)]
  /\ UNCHANGED <<store, budget, mu, call, audit>>

Tick ==
  /\ Budget!Tick
  /\ UNCHANGED <<store, now, granted, buckets, mu, call, queue, audit>>

Step(c) == DispatchCreated(c) \/ DispatchRefused(c) \/ Fanout(c) \/ PublishAndReturn(c)

Next == \/ \E c \in Routers : \/ \E a \in Candidates : Enter(c, a)
                              \/ AllowGranted(c)
                              \/ AllowDenied(c)
                              \/ Step(c)
        \/ \E c \in Ingesters : \/ \E a \in Candidates : IngestDispatch(c, a)
                                \/ Notify(c)
                                \/ IngestPublish(c)
        \/ \E i \in DOMAIN alarms : AckOrResolve(i)
        \/ \E e \in Sweeps : Escalate(e)
        \/ \E ch \in Channels : Receive(ch)
        \/ Tick

\* A goroutine that can run does; a Go mutex hands over to whoever has waited.
Fairness ==
  /\ \A c \in Routers : /\ SF_vars(AllowGranted(c) \/ AllowDenied(c))
                        /\ WF_vars(Step(c))
  /\ \A c \in Ingesters : WF_vars(Notify(c) \/ IngestPublish(c))

Spec == Init /\ [][Next]_vars
FairSpec == Spec /\ Fairness

-----------------------------------------------------------------------------

Pending(i) == {c \in Routers \cup Ingesters :
                 call[c].pc \in {"route", "publish", "notify", "ingestPublish"}
                 /\ call[c].id = i}

Published(i) == {k \in DOMAIN audit : audit[k].id = i}

\* Of every alarm in the store there is exactly one audit event, or exactly
\* one caller on its way to publish it, on whichever of the two paths.
AuditedOnce ==
  \A i \in DOMAIN alarms : Cardinality(Published(i)) + Cardinality(Pending(i)) = 1

InOrder(s) == \A j, k \in DOMAIN s : j < k => s[j] < s[k]

AuditInOrder ==
  \A j, k \in DOMAIN audit :
    j < k /\ audit[j].by \in Routers /\ audit[k].by \in Routers => audit[j].id < audit[k].id

\* The channels that only the router feeds.
TierChannels == (UNION {Listeners[r] : r \in DOMAIN Listeners}) \ Sinks

\* AlarmDispatch.mu spans dispatch, routing and publication, so the audit
\* history and every channel that only the router feeds see routed alarms in the
\* order the store created them, whatever a full channel has dropped in between.
RoutedInOrder == AuditInOrder /\ \A ch \in TierChannels : InOrder(queue[ch])

\* The composition keeps its parts: nothing that happens around the store, sweeps
\* and unlocked dispatches included, makes it anything but an AlarmStore, and
\* under the lock the throttle is used as it must be, so that the budget a
\* turbine gets is the one Throttle describes.
StoreSpec == Store!Spec
BudgetSpec == Budget!Spec
PartsSpec == StoreSpec /\ BudgetSpec

\* So what the two guarantee holds here: one open alarm per dedup key, although
\* escalation and requests close alarms at any moment of a dispatch; and the
\* budget of every window shorter by the lag, although a router may wait for the
\* lock while the clock moves on.
OpenKeyUniqueHere == Store!OpenKeyUnique
PerShorterWindowHere == Budget!PerShorterWindow

\* No consumer, however slow, keeps an alarm out of the audit history: every
\* alarm that is dispatched is eventually published.
EveryAlarmAudited ==
  \A i \in 1..MaxAlarms : i \in DOMAIN alarms ~> Published(i) # {}

=============================================================================
