# Windfarm turbine monitor: models, checks and proofs

This directory holds TLA+ models of the Go service in this repository
(`cmd/server`, `internal/...`), the TLC configurations that check them on small
instances, and theorems about them checked by TLAPS for every value of the
constants.

    tlc -config <run>.cfg <module>.tla      a run (table below)
    tlapm <component>_proofs.tla            the theorems of a component

## 1. The system

One process serves HTTP requests, each in a goroutine of its own. Handlers and
a set of flows (`internal/ops`) call services that keep their state in maps and
slices behind one lock each. Nothing is a transaction: whatever spans two calls
of a service, or two services, can be interleaved with anything else.

| component | state | operations | with whom |
|---|---|---|---|
| fault store and service (`fault`) | faults by id, their state | Raise, Acknowledge, Resolve; Create, Transition | handlers, pipeline, fault flow |
| alarm store (`alarm/dispatcher`, `dedup`) | alarms by id, their status | Dispatch, Ack, Resolve, ListOpen | handlers, pipeline, dispatch flow, escalation |
| throttle (`alarm/throttle`) | recent grant times per turbine | Allow | dispatch flow, under its lock |
| routing, notification (`alarm/routing`, `notifier`) | registered channels | Fanout, Notify | dispatch flow, pipeline, handlers |
| dispatch flow (`ops/dispatch`) | a lock | DispatchAndRoute, Escalate | throttle, store, router, audit |
| pipeline (`ops/pipeline`) | none | ProcessIngest | ingestor, rules, alarm store, notifier, faults, audit |
| fault flow (`ops/faultflow`) | none | DispatchWorkOrder, ResolveAfterWork | faults, orders, audit |
| ingestion (`telemetry/ingest`, `registry`) | a channel and workers per call; a ring per turbine | Ingest, Append | handlers, pipeline |
| batch writer (`telemetry/batchwriter`) | pending samples | Add, Flush, PeriodicallyFlush | a sink |
| work orders (`workorder/scheduler`, `crew`, `lifecycle`) | orders (no lock), free crews, a copy of the orders | Schedule, Assign, List, Release, Start, Complete | handlers, fault flow |
| audit stream (`audit/stream`) | history, a channel per subscriber | Publish, Subscribe, Unsubscribe | everybody |
| audit delivery (`audit/delivery`, `checkpoint`) | an offset per subscriber | Deliver, Get, Set, Advance | audit stream, consumers |
| job scheduler (`ops/scheduling`) | jobs, an active flag | Add, Start | jobs |
| backpressure gate (`ops/backpressure`) | a channel of slots | Acquire, Release, TryAcquire, Run | anybody |
| snapshot file (`storage/snapshot`) | a file and its `.tmp` | Write, Read | the file system |
| turbine registry (`turbine/registry`, `fleet`) | turbines by id, their order | Put, UpdateState, Get, List, Stats | handlers, report builder, audit of compliance |
| reports (`report/builder`, `ops/reporter`) | none | Build, LatestSiteReports | turbine registry, samples |
| rule engine (`ruleengine`), sample checks (`telemetry/validator`, `normalizer`) | rules and their order, composites, latches | Put, Evaluate; Validate, Normalize | handlers, pipeline |
| grid and energy (`grid/curtailment`, `energy`) | curtailments; settlements with their holder | Add, ActiveFor, Expire; Reconcile, Settle, AdjustEnergy, SumRevenue | each other |
| compliance, maintenance | certificates by model; service records by turbine | Add, ValidFor, Expiring, Audit; Record, Upcoming, Overdue | turbine registry |
| SCADA (`scada`) | a link of bytes; sessions by turbine; last heartbeats | WriteFrame, ReadFrame; Open, Close; Seen, Stale | nobody yet |
| analytics, security, forecast, weather, site, projection | maps, or none | queries, formulas, formatting | see section 6 |

`cmd/server/main.go` wires the registry, a sample registry of 1024 samples per
turbine, an ingestor of 4 workers, rules and evaluator, faults, alarm store, a
notifier without sinks, crews and orders, the audit stream and the report
builder. The dispatch flow, the pipeline, the fault flow, the order lifecycle,
`CrewPool.Release`, `Subscribe`, `Deliver`, the job scheduler, the gate, the
batch writer and `storage.Write` are exported and called by nothing in the
repository. They are modelled as a caller would use them; where the wired
program uses less, a constant says so (`DirectTargets`, `ReleaseIds`,
`Adjusted` are empty in the program) and the comment on it too.

What is hard here: the unlocked windows between two calls of a locked service
(raise, acknowledge, assign, publish), the map without a lock, times read
before a lock is granted, full channels that drop, workers that die of a bad
sample, cancellation racing with work, clients that give up and post again, a
crash between two writes of a file or of a frame.
PROJECT.json lists these, each at its line, with the properties that watch it.

## 2. Modules

| module | models | in short |
|---|---|---|
| FaultStates | `fault/transitions.go` | the transition table as a relation |
| FaultService | `fault/service.go`, `store.go` | each store call of Raise, Acknowledge, Resolve an action; `call` is what a caller carries in between |
| FaultLedger | what the comments in `service.go` promise | abstract: each operation in one step |
| AlarmStore | `alarm/dispatcher.go`, `dedup.go`, the sweep of `ops/dispatch.go` | abstract for AlarmDispatch |
| Throttle | `alarm/throttle.go` | abstract for AlarmDispatch; grants over a clock |
| AlarmDispatch | `ops/dispatch.go`, `alarm/routing.go`, `notifier.go`, the request path of `gateway/handlers.go` | composes AlarmStore and Throttle with the lock, the channels and the audit history |
| FaultFlow | `ops/pipeline.go`, `ops/faultflow.go` | composes FaultService and AlarmStore with orders and announcements |
| SampleLog | what `telemetry/ingest.go` and `registry.go` promise a caller | abstract: a call adds the samples of its batch to the logs while it is open, and says when it may return with some missing |
| IngestPool | `telemetry/ingest.go`, `registry.go` | channel, workers, rings; implements SampleLog |
| RuleVerdicts | `telemetry/validator.go`, `normalizer.go`, the conditions of `ruleengine/evaluator.go` | what makes a sample valid, and what a rule says of it |
| TelemetryRequest | `handleIngest` and `ops/pipeline.go` up to the alarm | composes SampleLog, RuleVerdicts and AlarmStore; posts, clients that give up, retries |
| WorkOrders | `workorder/scheduler.go`, `crew.go`, `lifecycle.go` | one action per access of the unlocked map |
| AuditStream | `audit/stream.go` | lock, copy of the channels, sends after it |
| AuditDelivery | `audit/delivery.go`, `checkpoint.go` | a delivery under its lock, checkpoints beside it |
| JobScheduler | `ops/scheduling.go` | rounds of jobs, ticker, cancellation |
| BackpressureGate | `ops/backpressure.go` | a channel of slots with its queue of senders |
| BatchWriter | `telemetry/batchwriter.go` | buffer, sink that may refuse, periodic flush |
| SnapshotFile | `storage/snapshot.go` | create, write, rename, crash |
| Fleet | `turbine/registry.go`, `fleet.go`, the turbine handlers, `report/builder.go`, `ops/reporter.go` | one action per call of the registry; a request or report run carries what it read |
| Rules | `ruleengine` | over RuleVerdicts: registry and composites change, samples are all that there can be; latches with the history of their readings |
| GridEnergy | `grid/curtailment.go`, `energy/export.go`, `settlement.go`, `revenue.go` | schedule, bills made under it, corrections, and the revenue computed from them |
| Upkeep | `compliance`, `maintenance/interval.go`, `plan.go` | certificates and services over a clock of days |
| Scada | `scada/framing.go` | a link byte by byte, with writes that fail or overlap and noise |
| Connections | `scada/session.go`, `heartbeat.go` | sessions, the pool, and heartbeats that come late |
| MC... | | instances; MCRequests, MCAudit, MCRuntime and MCRecords put parts side by side |
| Faults_proofs | FaultService, FaultLedger, FaultFlow | theorems (section 5) |
| Runtime_proofs | IngestPool, JobScheduler, BackpressureGate, BatchWriter, SnapshotFile | theorems |
| Records_proofs | WorkOrders, Fleet, GridEnergy, Upkeep, Connections | theorems |
| Requests_proofs | TelemetryRequest, Rules | theorems |
| Delivery_proofs | AuditStream, AuditDelivery, Scada | theorems |
| AlarmStore_, Throttle_, AlarmDispatch_proofs | the module of that name | theorems |

Conventions. An action is one critical section of the innermost lock, or one
channel operation; a call that returns without changing anything is no step.
Ids made by `platform.NewID` are fresh, so a map with its `order` slice is one
sequence and a position is an id. A `select` with a ready default is an
`IF`; a `select` over several ready channels is a disjunction. A send on a
closed channel is the panic it is (`PublishPanic`). The data race on the order
map is a choice between what the accesses do and the end of the process
(`MapThrow`), which is what the Go runtime makes of concurrent map access it
notices. Float values, payloads, titles and time stamps no property depends on
are left out.

MCRequests, MCRuntime, MCAudit and MCRecords each hold parts that share no state: a variable
`part` chosen in the initial state says which of them runs. Each behaviour is one of
a single part, and every part has its own fairness.

The definitions marked `Mutant:` next to an action are the same action with a
plausible bug. No specification uses them. Putting one in place of the action
makes the property named for it in PROJECT.json fail, which is how we know
that the property looks at the code it claims to.

## 3. Runs

| run | module | question | bounds, and why they are enough |
|---|---|---|---|
| fault_concurrent | FaultService | What do overlapping calls cost? Duplicates stay below the number of callers, a closed fault never opens again, and only an acknowledge that read a fault before it was resolved can take the resolve back. | 3 callers: two that race and one that resolves between them; 4 faults, one code; other code resolves faults directly, as the transition table allows from most states. The proofs cover the rest. |
| requests | MCRequests | What can a client rely on? Telemetry: an answer means that its samples are in the log and that every rule they trigger had an open alarm since the post; an alarm means that its reading was ingested; every post is answered. Faults: without overlap the service is the ledger its comments describe. | 2 clients, one that gives up and posts again; bodies of 1 and 3 samples, one without a turbine and one out of range, so that a batch shrinks; 3 rules: for all turbines, for one, for another; 1 alarm closed in between; a pool of 1 worker, so that one refused sample would be enough to lose the rest. Faults: 1 caller, 2 turbines, 4 faults |
| fault_duplicate | FaultService | "Raise creates a fault if an equivalent open fault does not already exist". It does not hold of two overlapping calls. | 2 callers, 2 faults |
| dispatch_order | MCAlarmDispatch | Is every alarm audited once, and do routed alarms keep their order? | 2 routers and a telemetry request, 3 alarms of 2 rules, channel of 2 |
| dispatch_clock | MCAlarmDispatch | Does the composition implement store and throttle when the clock moves under waiting routers, alarms escalate and nobody reads? | window 3, limit 2, lag 1, clock to 3: a newer time discards an entry that a late one would still count, and the bucket has room for another, so three grants fall in one window of 3 and PerShorterWindowHere holds only because it asks of windows of 2; channel of 1, so it fills |
| flow | MCFaultFlow | Do faults match the alarms they come from, is an announced order one for an acknowledged fault, is every order announced, and is all this a use of FaultService? | 2 pipelines, 2 order flows, 1 operator; 2 rules with one code, 2 alarms, 2 faults, 2 orders |
| ingest_count | MCIngestPool | "returns the number of samples successfully appended". Not of a batch with refused samples, nor of one cancelled after its last send. | the pool of runtime |
| records | MCRecords | Do answers agree that come from two moments or two pieces of code? Orders: a crew has one holder, and one more per release. Fleet: every registry write has its audit event, and a report run has each turbine in one row unless the turbine moved. Rules: evaluator and composites give one verdict, normalising keeps it, a latch is its last crossing. Grid: Expire changes no answer, and revenue and settlements differ by dropped penalties only. Upkeep: nothing falls due unannounced. Scada: frames written before the first failure arrive whole and in order, noise in a header is found, and sessions and heartbeats say what is so. | orders: 2 callers, 2 crews and a stranger, 2 orders, 1 release of a crew and of the stranger; fleet: 2 users, 3 turbines of which 2 are there at the start, 2 sites, 2 writes, enough for a write between any two reads of a report; rules: 2 ids, 6 rules that cover both operators, all turbines or one, a normalised, a checked and an unknown metric, readings -2 to 2; latch: 3 readings of each of 2 subjects; grid: 2 curtailments of 3 overlapping windows, 2 settlements, clock to 2; upkeep: 4 days, warnings 2 days ahead, 2 certificates per model and 2 services per turbine; link: bytes of 4 values, so that every header can look like a payload, 2 writers, 1 failed write, 1 changed byte, payloads up to one byte too long; connections: 3 sessions per turbine, so that one is put out, one closed and one opened after it, a delay shorter than the timeout |
| orders_leak | MCWorkOrders | "tracks which maintenance crews are free". A crew can stay busy for no order. | the orders of records, no releases |
| audit | MCAudit | Pushed: is a channel offered exactly its part of the history, and does Publish end? Replayed: once and in order, no checkpoint pulled back, and does one who reads get all? | stream: 2 publishers, 2 ids, 2 channels of 2, 3 events; delivery: 2 callers, 2 subscribers, channel of 1, 3 events, a checkpoint set to 3 by hand |
| audit_fanout | AuditStream | "fans it out to every subscriber". Not if one of them leaves in the middle. | 2 publishers, 2 ids, channel of 1, 3 events |
| runtime | MCRuntime | Does the pool implement the sample log, and return? Do jobs overlap, does cancellation end Start, is a slot or sample lost, does a saved snapshot survive? | pool: 2 calls of 2 workers; one cancelled and with 2 bad samples, enough to end both its workers, and more to send; ring of 2 for up to 5 samples; scheduler: 2 starters, 3 jobs, one of them never returning by itself; gate: 3 goroutines at 2 slots, nested 2 deep; writer: 5 samples in batches of 3; file: 2 savers that may meet, 3 lengths, crashes |

Four of the runs end in a counterexample: the code does not do what the
quoted comment says. They are in PROJECT.json under "findings".

1. `fault/service.go:19`. Raise lists and creates under two acquisitions of the
   lock; two calls create two open faults. fault_concurrent and the theorem
   DuplicatesAreBounded say how bad it gets: no more than one per caller, ever.
2. `workorder/scheduler.go:54`. Two Assign calls of one order take two crews and
   the order keeps the second; the first stays busy. Nothing gives it back:
   `Lifecycle.Start` says "releases its crew on finish" and no code does.
3. `audit/stream.go:47`. Unsubscribe closes a channel that Publish copied and
   has not reached; the send panics and the other subscribers miss the event.

4. `telemetry/ingest.go:65`. Ingest returns the length of its batch and no error
   once all of it is in the channel, whatever the workers do with it: samples
   are missing if the sink refused some, or if the context ended after the last
   send. LogSpec says exactly when samples may be missing (MayLose of
   SampleLog), and AnsweredMeansRecorded that behind the validator only a
    client that gave up can meet this, since no valid sample is refused.

Smaller disagreements, met on the way and stated here only: DispatchWorkOrder
"converts an open fault" and takes one already in maintenance (faultflow.go:35),
so a repeated call makes a second order; a late Acknowledge takes a fault that
was resolved meanwhile back to maintenance (service.go:36), and
ClosedStaysClosed says that nothing else does; Ack, of a late request or of an
escalation sweep that listed the alarm when it was open, makes a resolved alarm
acknowledged (dispatcher.go:52), which opens nothing; a cancelled Start may take
a waiting tick and run its jobs again (scheduling.go:65), "until the context is
cancelled" notwithstanding; the throttle's limit holds per
window shortened by the lag of its callers, not per window (throttle.go:22);
`Since` says "oldest first" and is in order of appending
(registry.go:64); `Count` "returns the number of open sessions" and leaves out
those Open put out of the pool, which stay open (session.go:53); two overlapping
`storage.Write` of one path share the temporary file and are not atomic: one
may rename what the other has just cut (snapshot.go:24), and LastSaveIsThere
says that the next Write alone mends it; AdjustEnergy drops the penalty Settle took off the total
(settlement.go:43), which BooksAgree states exactly; a turbine that has never
been serviced is in no list of upcoming services, since `Upcoming` goes through
the records (interval.go:44); firmware versions are compared as texts
(report/compliance.go:24).

## 4. Fairness

Safety is checked without fairness. Liveness assumes:

- a goroutine that can take its next step does (WF on its steps): Go's
  scheduler is preemptive. Nobody is assumed to *begin* a call.
- a Go mutex does not pass over a waiting goroutine for ever (SF on taking it:
  AlarmDispatch's lock, Delivery's lock): sync.Mutex has a starvation mode.
- `select` does not pass over a channel that is ready again and again (SF on
  SelectDone): it picks at random among ready channels. Tickers fire, jobs and
  functions given to `Run` return, except the `Long` jobs, which return when
  their context is cancelled.
- consumers of a channel are *not* assumed to read, except the `Served`
  subscribers of AuditDelivery, who say so in their property.

- a handler goes on until it has answered (RequestFair): what it waits for is a
  lock or an ingestion, and IngestPool shows, under fairness of its goroutines
  alone, that every ingestion returns (PoolReturns). Clients are assumed
  nothing: they may give up at any time or never, and need not post again.

WaiterServed has its exception in the formula: if all slots belong to
goroutines that wait for a further slot in a nested Run, all wait for ever.

## 5. Proofs

The proof modules assume the ASSUMEs of the modules they extend and nothing
else, but for what the third column says. These are stated by name where the
constants are declared, TLC evaluates them in every run, and each is what the
code makes of its parameters: numbers are numbers, capacities and limits are
not zero, names that stand for nothing are not names of something. One needs a
word: IdsOnce of Upkeep says that the turbines an audit is given have different
ids, which is so since they come from `Registry.List`, whose `order` takes an id
once (turbine/registry.go:34). And XorOfBytes of Scada says all that is asked of
the checksum's exclusive or: of two bytes it is a byte, and another byte on
either side gives another. The constant ByteXor stands for Go's `^`; the run
records gives it the value BitwiseXor, the `^^` of the module Bitwise.

| module | theorem | assumes besides |
|---|---|---|
| Faults_proofs | TypeInvariant, OnlyLegalMoves | |
| | DuplicatesAreBounded | NoDirectReopening: code that bypasses the service does not move faults to warning or fault |
| | ClosedFaultsStayClosed | NoDirectReturn: nor to maintenance |
| | SerialReadsAreFresh, SerialServiceIsTheLedger, SerialRaiseNeverDuplicates | one caller |
| | ImplementsService, FaultsAndAlarmsAccount | |
| | AnnouncedOrdersAreAcknowledged | NoDirectReopening |
| AlarmStore_proofs | TypeInvariant, OneOpenAlarmPerKey | |
| Throttle_proofs | TypeInvariant, ForgottenGrantsAreOld, BudgetPerShorterWindow | ThrottleNumbers: window, limit and lag are naturals |
| AlarmDispatch_proofs | ImplementsStore, ImplementsBudget, ImplementsParts, OneOpenAlarmPerKeyHere, BudgetPerShorterWindowHere | |
| | EveryAlarmAuditedOnce, RoutersKeepOrder | |
| Runtime_proofs | PoolInvariant, ImplementsLog, SamplesAppendedOnce, AtMostOneRun, NoSlotIsLost, EverySampleHasOnePlace, SavedSnapshotIsThere | |
| Records_proofs | CrewsAreExclusive, WritesAreAudited, ReportsAreOfOneFleet, ExpiryNeverSeen, EachTotalFollows, TheBooksAgree, NothingFallsDueUnannounced, ConnectionsAreKnown | |
| Requests_proofs | AnswersAreRecorded, AlarmsHaveReadings, LatchesRememberCrossings, NormalisingKeepsVerdicts, VerdictsAgree | |
| Delivery_proofs | SubscriptionsAreWhole, CheckpointsTellWhatWasSent, CheckpointsNeverRegress, FramesArriveIntact | |

The theorems of Runtime_proofs, Records_proofs, Requests_proofs and
Delivery_proofs are about the specification of each part by itself (GateSpec,
FleetSpec, StreamSpec, LinkSpec ...). The runs check the same property in
MCRuntime, MCRecords, MCRequests and MCAudit, where each behaviour is one of a
single part with the other parts at their beginning. Every invariant that a
passing run checks is stated by one of these theorems.

The arguments.

*Duplicates.* `Cardinality(OpenFor) <= n` is not inductive: a caller that found
nothing may be about to create. DuplicatesBounded therefore counts the callers
in the window too. A lookup that begins finds no open fault, so the sum is the
number of callers in the window, itself among them; a create moves one from
one set to the other; nothing else adds to either, as no closed fault reopens.

*Closed for good.* That a fault is in normal is not inductive, as a caller may
have read it before it was resolved. Settled leaves such faults out: no new
acknowledge of a settled fault begins, since Get finds it normal; those under way
are of other faults; and a resolve moves to normal only (MoveKeepsNormal).

*The serial ledger.* With one caller, ActsOnWhatItRead (what was read still
holds) is invariant because no step of somebody else exists; with it every
write is the corresponding one-step operation of FaultLedger and every read
stutters. NoDuplicateOpen follows from DuplicatesBounded with one caller.

*Faults and alarms.* A fault is never there without an alarm that asked for
one, nor an alarm without a fault that was made or is on its way. Between the
two stand the pipelines that raise. Each step keeps the balance (BalanceKept): a
new alarm comes with its pipeline; a pipeline gives up only where there is a
fault, or turns into one. Raises says that a pipeline and the call of
FaultService it is in have one turbine and code, without which the create of the
service could be of another pair than the alarm of the pipeline.

*One open alarm per key.* Suppress is asked and the alarm appended in one
critical section; acknowledges, resolves and sweeps only take alarms out of
the open set.

*The budget.* The bucket is what Allow compares, and it forgets. ForgottenAreOld
says a forgotten grant is older than the window by the real clock, although it
was forgotten by a call with some other time; this needs the clock not to be
behind any time in use. Then for a window shorter by the lag, every grant in it
is in the bucket when the next is granted (EveryWindow, for windows starting at
any integer), so the limit holds.

*Composition.* AlarmDispatch implements AlarmStore and Throttle step by step
(each action is one of theirs or leaves their variables alone), so their
invariants hold in it by instantiation. FaultFlow implements FaultService the
same way; the invariant Carries says that a flow only names faults and orders
that exist, without which the steps of the service would not be enabled for
them. AnnouncedIsAcknowledged needs to know about flows that are past their
acknowledge and before their announcement (Acknowledged); a fault that is in
maintenance or normal stays in one of the two under every step of the service,
a late Acknowledge or Resolve included.

*Dispatch.* That each alarm is audited once needs to know who is on the way to
do it. Every step either makes an alarm and puts its id into the hands of one
caller (TakesUp), or moves an id from its caller to the audit history
(LaysDown), or leaves ids where they are (KeepsIds); so an alarm has one of the
two, never both (OneHolder). The order of routed alarms is not inductive either:
what matters is that the router at work carries an alarm younger than all that
were routed before (Youngest). It does since it holds the lock (LockHeld) and the
store numbers alarms as it makes them; requests that make alarms without the
lock make them younger still, and are not routed.

*Ingestion.* That a call returns with samples missing only for a reason needs
more than where samples are (OneHand, Home, Arrived): Costs says that until the
call is cancelled or its channel drained, no more workers left than samples were
refused. So if all have left and the channel is not empty, at least as many
samples were refused as there are workers. A ring is the newest part of the log
(Rings) because cutting after each append keeps the same samples as cutting once
(TrimNewest).

*Jobs.* The flag is TRUE exactly while one caller is inside Start, and that
caller has jobs running only in its wait.

*The gate.* Slots in use are counted as pairs of goroutine and depth. A Release
with somebody in the queue hands the slot over: one pair leaves the set and one
enters, and the number of slots does not change. For this the queue may name a
goroutine once, one that can nest a level deeper and holds no slot by TryAcquire
(Waiting).

*The batch writer.* Samples are numbered as they are added, and the buffer is
the last of them without a gap (Follows). All before it are gone, to the sink or
with a refused batch, and never both (Gone). After the flush on stop, what is
still buffered came later than the stop.

*The snapshot file.* A call of Write that has met no other is the only one, and
where it is decides what is in path.tmp (AloneIn): nothing yet, or all of its
snapshot once it is about to rename. A crash takes the call away and leaves path
alone. The next call starts by cutting path.tmp to nothing, so no leftover of a
crash reaches path. Calls that met may leave anything at path and still have
that file open; but a later call that renames without having met any of them
came after all of them had ended, so nobody writes to what it puts there.

*Crews.* A crew's holders are counted. Taking it from the pool adds a holder and
spends the pool's mark; writing the order replaces the caller by the order, and
may take another crew from an order it overwrites; a release is counted. That
the holders are finitely many is part of the invariant, so nothing is assumed of
the number of callers. The overlapping writes that lose a crew (orders_leak)
only ever take holders away.

*The registry's writes.* For each id, writes equal events plus the requests that
wrote and have not published (Accounted). A refused update adds to none of the
three, and a request that publishes moves one from the last to the second.

*Verdicts.* Evaluator and composite walk the same order of rules, and while the
composite's copies are fresh they are the same rules. Normalising a valid sample
only lifts a negative speed or power to zero, and no positive threshold lies
between the two. A latch remembers the last reading outside its band
(LatchTells): inside the band neither the latch nor that reading changes, outside
it both do.

*Grid.* Expire makes a curtailment inactive only when it ended at or before the
time it was given, which is not after now; so of the curtailments that cover any time
from now on the set is the same (ExpireCovers), and with it the least
position, the one ActiveFor answers with. For settlements, TotalsFollow says what
each total is; whether the penalty is in depends on `corrected` alone.

*Upkeep.* `Status` is monotone in the day until the expiry, so the valid
certificate with which a model passes today, if it is not in the list of those
that expire, is valid on every day asked about. LastService chooses a latest
service, and there is one (UpkeepInv), so due dates are dates.

*Connections.* The open sessions of a turbine are the one in the pool, its
newest, and those Open put out (SessionsInv): Open moves the pooled one to the
others, and Close takes it away and leaves the others. What was heard last was sent at most MaxDelay before
it was heard (HeardInv), which bounds how far a late heartbeat takes time back.

*The stream.* WholeSubscription alone is not inductive. A publisher sends without
the lock, so one must know that what it carries is the last it published, and that
every channel it still has to try was subscribed when the event was appended, and
has its end not before it, even if it has been unsubscribed since (Carried); that
an id has a channel of its own, or an unsubscribe would end the part of another
one (OwnChannels); and that a channel in the map has no end yet, while one that
left has its end behind it (Attached). Then a send moves an event from what is
pending for a channel to what it was offered, and an append adds it to the
pending of exactly the channels in the map.

*Delivery.* Whoever delivers holds the lock (Locked), so the place it is at
follows the checkpoint (Place): between a send and its advance the subscriber is
one ahead, at any other moment the checkpoint is what was sent. For subscribers
whose checkpoint is set by hand only NeverRegresses is claimed, and it is a
matter of Advance comparing under the checkpoint's own lock.

*The telemetry request.* Neither property is inductive, as both look at a post
only when it is done. RequestInv says of each post, at any moment, that where
its handler is and what its ingestion answered go together (HandlerIs), that
every candidate the loops have passed has an alarm which was not closed when the
post came (Served), that a valid sample is in the log at most once, and at least
once if the ingestion answered and nobody gave up (InLogOnce, InLogAll), and
that what was closed then is closed still (ClosedStaysClosed). A candidate is
passed when its alarm is made, and that one is new, or when it is suppressed by
one that is open now, and so was not closed then. That no ingestion may return
early rests on BatchAt: every sample behind the validator names a turbine, so no
worker is lost. The alarm store's step lemmas are those of AlarmStore_proofs,
instantiated.

*Reports.* Rows are functions from a turbine's place in `Registry.List` to its
id, so "in one row" is "at one site". The list a run began with stays the beginning of
the registry's list, since `order` only grows and takes no id twice (RegistryInv).
RunInv says that a turbine nobody moved since is where the run's list has it, in
the rows of that site if they have been made, and in no others; a write of some
other turbine, or of this one at its old site, keeps that (RunKept). When no site
of the list is left without rows, each such turbine is in one.

*Sums.* BooksAgree is about sums over settlements, which the community modules
define by a recursive function over all subsets of the domain. That the
definition is one of a function at all needs an induction on the size of the
set. It is done without an induction theorem, as a least size for which it fails
(SumExists), and so it is that the sums over a set and over a part of it agree
(SumsAgree) and that any element may be taken out first (SumRemove). With EachTotalFollows for each settlement,
SumsDiffer turns the sum of the totals into gross less kept penalties.

*Frames.* What makes a reader right is where frames begin on the link, which no
variable holds. LinkInv says that there is a function that tells it (Where): the
frames laid out without trouble follow each other without a gap (Laid), and of
those not read yet the headers and the payloads are at their places in the
stream, except a header in which a byte was changed (Ahead). A read takes the first
frame and moves all others to the front by its length; a write adds at the end,
and without trouble the end is where the next frame begins. After trouble the
function stands for the frames before it only. A changed byte makes the header
bad by XorOfBytes, so the reader stops there and what follows is not misread.
LinkInv was first checked by TLC on the link of the run records.

What stays with TLC, and why:

- all liveness (EveryAlarmAudited, EveryOrderAnnounced, EveryPostAnswered,
  PoolReturns, PublishReturns, EverythingDelivered, CancelEndsStart,
  WaiterServed): TLAPS has no rules for fairness and ENABLED.

## 6. Not modelled

PROJECT.json gives a status for every part. What is left out, and why:

- `analytics`, `forecast`, `weather`, `telemetry/outlier`, `sequence` and
  `windrose`, `energy/metering`, `workorder/cost`, the parts
  forecast: averages, regressions and thresholds over floats, without state or
  with a map that is only added to. TLC has no floats, and a model over integers
  would say nothing of what is hard there.
- `projection`, `audit/retention`, `fault/history`, `workorder/parts`,
  `security`, `turbine` beyond the registry, `alarm/escalation`: tables, filters
  and counters that nothing calls and that keep no promise over several steps.
- `WaitGroupGate`: a counter beside a WaitGroup, unused.
- `platform`, `site`, `web`, `cmd/server`: no behaviour of their own. main.go
  decides which parts share state, and the models follow it.
- `.work`: Python scripts that once wrote the Go files. The program is the Go
  code under `cmd` and `internal`, which has been changed since, so every line
  in the map is a line of Go, and a count of the Python lines shows none of it.
- The file system is modelled as the kernel shows it to processes; a loss of
  power is not. Severity and revision of a fault and the times of orders are
  written and not read by what is modelled.

## 7. Plan

1. *Core* (done): faults, alarms with throttle and routing, ingestion, orders,
   audit, the two flows, the runtime parts.
2. *Records* (done): Fleet, Rules, GridEnergy, Upkeep, Scada, Connections.
3. *Requests* (done): ingestion as an abstract log that the pool implements, and
   the telemetry request on top of it, with the rules deciding which alarms a
   sample raises. Left: the request as a refinement whose alarms feed
   AlarmDispatch and FaultFlow in one model.
4. *Proofs* (done): every invariant and refinement the passing runs check, and
   their action properties, are theorems (section 5). Liveness is TLC's.
