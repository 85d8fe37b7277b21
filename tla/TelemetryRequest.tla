-------------------------- MODULE TelemetryRequest --------------------------
(***************************************************************************)
(* A telemetry request from end to end: handleIngest (gateway/handlers.go) *)
(* and, step for step the same up to the alarm, ProcessIngest              *)
(* (ops/pipeline.go).  The batch is validated and normalised, ingested,    *)
(* and only then is each sample evaluated and each triggered rule          *)
(* dispatched as an alarm; an ingestion that fails ends the request.       *)
(*                                                                         *)
(* The ingestion is SampleLog, which IngestPool implements, and the alarm  *)
(* store is AlarmStore; other requests and operators use both in between.  *)
(* What follows a created alarm (notification, audit event, fault) is in   *)
(* AlarmDispatch and FaultFlow.  The rules are those main.go registers     *)
(* before it serves.  A sample is known by its place in the body, and what *)
(* a sample and a rule ask for by the places of the two.                   *)
(*                                                                         *)
(* A client that gives up closes the connection, which cancels the context *)
(* of its request but does not stop the handler; it may then post the same *)
(* body again, while the handler of the earlier post still runs.           *)
(***************************************************************************)
EXTENDS RuleVerdicts, Sequences, Functions, FiniteSets

CONSTANTS
  Clients,
  Body,         \* client -> the samples it posts
  Registered,   \* the rules with their ids, in order of registration
  PoolSize,     \* workers of an ingestion
  MaxPosts,     \* client -> bound on its posts
  MaxClosed     \* bound on the alarms operators close

ASSUME BodyTypes == \A k \in Clients : Body[k] \in Seq(Sample)
\* Registry.Put takes no rule without an id.
RegisteredRule == [id : STRING \ {""}, turbine : RuleTurbines, metric : Metric \cup {"unknown"},
                   operator : {">=", "<="}, threshold : Int]
ASSUME RegisteredTypes == Registered \in Seq(RegisteredRule)
ASSUME PostNumbers == PoolSize \in Nat \ {0} /\ MaxPosts \in [Clients -> Nat]

VARIABLES
  log, answer, cancelled,  \* as in SampleLog, a call per post
  alarms,                  \* as in AlarmStore
  posts,                   \* per client, how many times it has posted
  handler,                 \* per post, where its handler is
  closedBefore             \* per post, the alarms that were closed when it came

ingestVars  == <<log, answer, cancelled>>
requestVars == <<ingestVars, alarms, posts, handler, closedBefore>>

\* A post is a client and its number.
Posts == UNION {{k} \X (1 .. MaxPosts[k]) : k \in Clients}

\* The samples ValidateBatch keeps.
Validated == [k \in Clients |-> {i \in DOMAIN Body[k] : Validate(Body[k][i])}]

Batches == [p \in Posts |-> [i \in Validated[p[1]] |-> Body[p[1]][i].turbine]]

\* The turbines that have logs.
Named == RuleTurbines \ {""}

Log == INSTANCE SampleLog WITH
         Calls <- Posts, Batch <- Batches, Workers <- PoolSize,
         Turbines <- Named, NoTurbine <- ""

RuleNames == {r.id : r \in Range(Registered)}

Alarms == INSTANCE AlarmStore WITH
            Turbines <- Named, Rules <- RuleNames,
            Sweeps <- {}, sweep <- << >>,
            MaxAlarms <- MaxClosed + Cardinality(RuleTurbines \X RuleNames)

\* What Evaluator.Evaluate finds for the normalised samples of the batch: a
\* candidate for each <<sample, rule>>.
Candidates ==
  [k \in Clients |-> {c \in Validated[k] \X DOMAIN Registered :
                       Triggered(Registered[c[2]], Normalize(Body[k][c[1]]))}]

\* The next one of the two loops, over the samples and over the rules of each.
FirstOf(left) ==
  CHOOSE c \in left : \A d \in left : c[1] < d[1] \/ (c[1] = d[1] /\ c[2] <= d[2])

AlarmFor(k, c) == Alarms!NewAlarm(Body[k][c[1]].turbine, Registered[c[2]].id)

Nobody == [at |-> "nowhere"]

RequestInit == /\ Log!Init
               /\ alarms = << >>
               /\ posts = [k \in Clients |-> 0]
               /\ handler = [p \in Posts |-> Nobody]
               /\ closedBefore = [p \in Posts |-> {}]

Go(p, next) == handler' = [handler EXCEPT ![p] = next]

-----------------------------------------------------------------------------

\* A first post, or another one after the client gave the last one up.
Post(k) ==
  LET p == <<k, posts[k] + 1>> IN
    /\ posts[k] < MaxPosts[k]
    /\ posts[k] > 0 => <<k, posts[k]>> \in cancelled
    /\ posts' = [posts EXCEPT ![k] = @ + 1]
    /\ Go(p, [at |-> "ingest"])
    /\ closedBefore' = [closedBefore EXCEPT ![p] = DOMAIN alarms \ Alarms!OpenIds]
    /\ UNCHANGED <<ingestVars, alarms>>

\* The client gives up, or the answer is lost on its way.
GiveUp(p) ==
  /\ handler[p] # Nobody
  /\ Log!Cancel(p)
  /\ UNCHANGED <<alarms, posts, handler, closedBefore>>

Ingest(p) ==
  /\ handler[p].at = "ingest"
  /\ \E i \in Log!Valid(p) : Log!AppendSample(p, i)
  /\ UNCHANGED <<alarms, posts, handler, closedBefore>>

\* Mutant: the handler does not wait for the ingestion.
IngestedEarly(p) ==
  /\ handler[p].at = "ingest"
  /\ answer' = [answer EXCEPT ![p] = "ok"]
  /\ Go(p, [at |-> "evaluate", left |-> Candidates[p[1]]])
  /\ UNCHANGED <<log, cancelled, alarms, posts, closedBefore>>

\* Ingest returns without an error.
Ingested(p) ==
  /\ handler[p].at = "ingest"
  /\ Log!ReturnOk(p)
  /\ Go(p, [at |-> "evaluate", left |-> Candidates[p[1]]])
  /\ UNCHANGED <<alarms, posts, closedBefore>>

\* It returns an error, and the handler answers with it.
IngestFailed(p) ==
  /\ handler[p].at = "ingest"
  /\ Log!ReturnError(p)
  /\ Go(p, [at |-> "failed"])
  /\ UNCHANGED <<alarms, posts, closedBefore>>

\* Mutant: a suppressed candidate ends the loops.
DispatchOrStop(p) ==
  /\ handler[p].at = "evaluate" /\ handler[p].left # {}
  /\ LET c == FirstOf(handler[p].left)
         a == AlarmFor(p[1], c)
     IN  \/ /\ Alarms!Dispatch(a.turbine, a.rule)
            /\ Go(p, [handler[p] EXCEPT !.left = @ \ {c}])
         \/ /\ Alarms!Suppress(a, Alarms!OpenIds)
            /\ Go(p, [handler[p] EXCEPT !.left = {}])
            /\ UNCHANGED alarms
  /\ UNCHANGED <<ingestVars, posts, closedBefore>>

\* Mutant: a suppressed candidate is dispatched until it is not.
DispatchUntilCreated(p) ==
  /\ handler[p].at = "evaluate" /\ handler[p].left # {}
  /\ LET c == FirstOf(handler[p].left)
         a == AlarmFor(p[1], c)
     IN  /\ Alarms!Dispatch(a.turbine, a.rule)
         /\ Go(p, [handler[p] EXCEPT !.left = @ \ {c}])
  /\ UNCHANGED <<ingestVars, posts, closedBefore>>

\* Alarms.Dispatch of the next candidate: an alarm, or a duplicate of one.
Dispatch(p) ==
  /\ handler[p].at = "evaluate" /\ handler[p].left # {}
  /\ LET c == FirstOf(handler[p].left)
         a == AlarmFor(p[1], c)
     IN  /\ \/ Alarms!Dispatch(a.turbine, a.rule)
            \/ Alarms!Suppress(a, Alarms!OpenIds) /\ UNCHANGED alarms
         /\ Go(p, [handler[p] EXCEPT !.left = @ \ {c}])
  /\ UNCHANGED <<ingestVars, posts, closedBefore>>

\* The loops are done, and the handler answers with its counts.
Answer(p) ==
  /\ handler[p].at = "evaluate" /\ handler[p].left = {}
  /\ Go(p, [at |-> "answered"])
  /\ UNCHANGED <<ingestVars, alarms, posts, closedBefore>>

\* An operator acknowledges or resolves an alarm.
CloseAlarm(i) ==
  /\ i \in Alarms!OpenIds => Cardinality(DOMAIN alarms \ Alarms!OpenIds) < MaxClosed
  /\ Alarms!Ack(i) \/ Alarms!Resolve(i)
  /\ UNCHANGED <<ingestVars, posts, handler, closedBefore>>

Handle(p) == Ingest(p) \/ Ingested(p) \/ IngestFailed(p) \/ Dispatch(p) \/ Answer(p)

RequestNext == \/ \E k \in Clients : Post(k)
               \/ \E p \in Posts : GiveUp(p) \/ Handle(p)
               \/ \E i \in DOMAIN alarms : CloseAlarm(i)

RequestSpec == RequestInit /\ [][RequestNext]_requestVars

\* A handler goes on until it has answered: an ingestion returns (IngestReturns),
\* and nothing else it does waits for anybody but the holder of a lock.
RequestFair == \A p \in Posts : WF_requestVars(Handle(p))

-----------------------------------------------------------------------------

\* The valid samples of a client that a rule is about.
Readings(k, r) == {i \in Validated[k] : Triggered(r, Body[k][i])}

\* A client that gets its answer can rely on it, whatever other requests,
\* earlier posts of its own and operators do meanwhile.  Every valid sample is in
\* the log, once: no sample that gets past the validator can cost the pool a
\* worker.  And of every rule a reading triggers there is an alarm that was
\* open at some moment since the post, even when another request raised it.
AnsweredMeansRecorded ==
  \A p \in Posts : handler[p].at = "answered" =>
    /\ p \notin cancelled =>
         \A i \in Validated[p[1]] : Cardinality(Log!Places(p, i)) = 1
    /\ \A r \in Range(Registered) : r.threshold > 0 =>
         \A i \in Readings(p[1], r) :
           \E j \in DOMAIN alarms \ closedBefore[p] :
             Alarms!Key(alarms[j]) = Alarms!Key(Alarms!NewAlarm(Body[p[1]][i].turbine, r.id))

\* No alarm without its reading: every alarm goes back to a sample that triggers
\* its rule and that is in the log, unless the client gave up on that post; and
\* none is raised for a post whose ingestion failed.
AlarmHasReading ==
  \A j \in DOMAIN alarms : \E p \in Posts : \E c \in Candidates[p[1]] :
    /\ handler[p].at \in {"evaluate", "answered"}
    /\ alarms[j].turbine = AlarmFor(p[1], c).turbine
    /\ alarms[j].rule = AlarmFor(p[1], c).rule
    /\ p \in cancelled \/ \A v \in Validated[p[1]] : Log!Places(p, v) # {}

\* Every post is answered, with an error or without, though its client gives up
\* and operators close the alarms it needs.
EveryPostAnswered ==
  \A p \in Posts : handler[p].at = "ingest" ~> handler[p].at \in {"answered", "failed"}

=============================================================================
