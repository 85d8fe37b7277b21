------------------------ MODULE AlarmDispatch_proofs ------------------------
(***************************************************************************)
(* AlarmDispatch implements the two components it is composed of, for      *)
(* every set of callers, candidates and channels, so what is proved of     *)
(* them alone holds of them inside it.                                     *)
(***************************************************************************)
EXTENDS AlarmDispatch, SequenceTheorems, FiniteSetTheorems, TLAPS

\* A caller that holds a candidate holds one evaluation may produce.
CandidatesOK ==
  /\ DOMAIN call = Routers \cup Ingesters
  /\ \A c \in Routers : call[c].pc \in {"waiting", "dispatch"} => call[c].cand \in Candidates

THEOREM CandidatesInvariant == Spec => []CandidatesOK
<1>1. Init => CandidatesOK
  BY DEF Init, CandidatesOK, Idle
<1>2. CandidatesOK /\ [Next]_vars => CandidatesOK'
  <2> SUFFICES ASSUME CandidatesOK, [Next]_vars PROVE CandidatesOK'
    OBVIOUS
  <2>1. ASSUME NEW c \in Routers, NEW a \in Candidates, Enter(c, a)
        PROVE  CandidatesOK'
    BY <2>1 DEF Enter, Goto, CandidatesOK
  <2>2. ASSUME NEW c \in Routers, AllowGranted(c) \/ AllowDenied(c)
        PROVE  CandidatesOK'
    BY <2>2 DEF AllowGranted, AllowDenied, Goto, Idle, CandidatesOK
  <2>3. ASSUME NEW c \in Routers, Step(c)
        PROVE  CandidatesOK'
    <3>1. CASE DispatchCreated(c)
      BY <3>1 DEF DispatchCreated, Goto, CandidatesOK
    <3>2. CASE DispatchRefused(c) \/ PublishAndReturn(c)
      <4>1. call' = [call EXCEPT ![c] = Idle]
        BY <3>2 DEF DispatchRefused, PublishAndReturn, Goto
      <4> QED
        BY <4>1 DEF Idle, CandidatesOK
    <3>3. CASE Fanout(c)
      BY <3>3 DEF Fanout, Goto, CandidatesOK
    <3> QED
      BY <2>3, <3>1, <3>2, <3>3 DEF Step
  <2>4. ASSUME NEW c \in Ingesters
        PROVE  /\ (\E a \in Candidates : IngestDispatch(c, a)) => CandidatesOK'
               /\ Notify(c) \/ IngestPublish(c) => CandidatesOK'
    BY DisjointCallers DEF IngestDispatch, Notify, IngestPublish, Goto, Idle, CandidatesOK
  <2>5. CASE UNCHANGED call
    BY <2>5 DEF CandidatesOK
  <2> QED
    BY <2>1, <2>2, <2>3, <2>4, <2>5
    DEF Next, AckOrResolve, Escalate, Receive, Tick, vars
<1> QED
  BY <1>1, <1>2, PTL DEF Spec

\* Routing, the unlocked ingest path, requests and sweeps leave the alarm
\* store an AlarmStore.
THEOREM ImplementsStore == Spec => StoreSpec
<1>1. Init => Store!Init
  BY DEF Init
<1>2. CandidatesOK /\ [Next]_vars => [Store!Next]_(Store!vars)
  <2> SUFFICES ASSUME CandidatesOK, [Next]_vars
               PROVE  Store!Next \/ UNCHANGED Store!vars
    OBVIOUS
  <2>1. ASSUME NEW t, NEW r, NEW a \in Candidates, t = a.turbine, r = a.rule,
               Store!Dispatch(t, r), UNCHANGED sweep
        PROVE  Store!Next
    <3>1. t \in Turbines /\ r \in Rules
      BY <2>1, CandidateTypes DEF Store!Dispatch
    <3> QED
      BY <2>1, <3>1 DEF Store!Next
  <2>2. ASSUME NEW c \in Routers, DispatchCreated(c)
        PROVE  Store!Next
    BY <2>1, <2>2 DEF DispatchCreated, CandidatesOK
  <2>3. ASSUME NEW c \in Ingesters, NEW a \in Candidates, IngestDispatch(c, a)
        PROVE  Store!Next
    BY <2>1, <2>3 DEF IngestDispatch
  <2>4. ASSUME NEW i \in DOMAIN alarms, AckOrResolve(i)
        PROVE  Store!Next
    BY <2>4 DEF AckOrResolve, Store!Next
  <2>5. ASSUME NEW e \in Sweeps, Escalate(e)
        PROVE  Store!Next
    BY <2>5 DEF Escalate, Store!Next
  <2>6. CASE UNCHANGED store
    BY <2>6 DEF store, Store!vars
  <2> QED
    BY <2>2, <2>3, <2>4, <2>5, <2>6
    DEF Next, Enter, AllowGranted, AllowDenied, Step, DispatchRefused, Fanout, PublishAndReturn,
        Notify, IngestPublish, Receive, Tick, vars, store
<1> QED
  BY <1>1, <1>2, CandidatesInvariant, PTL DEF Spec, StoreSpec, Store!Spec

\* Under a.mu the bucket map is used as Throttle describes it.
THEOREM ImplementsBudget == Spec => BudgetSpec
<1>1. Init => Budget!Init
  BY DEF Init
<1>2. CandidatesOK /\ [Next]_vars => [Budget!Next]_(Budget!vars)
  <2> SUFFICES ASSUME CandidatesOK, [Next]_vars
               PROVE  Budget!Next \/ UNCHANGED Budget!vars
    OBVIOUS
  <2>1. ASSUME NEW c \in Routers, NEW a \in Candidates, Enter(c, a)
        PROVE  Budget!Next
    BY <2>1 DEF Enter, Budget!Next
  <2>2. ASSUME NEW c \in Routers, AllowGranted(c) \/ AllowDenied(c)
        PROVE  Budget!Next
    <3>1. call[c].cand.turbine \in Turbines
      BY <2>2, CandidateTypes DEF AllowGranted, AllowDenied, CandidatesOK
    <3>2. Budget!Allow(c, call[c].cand.turbine) /\ UNCHANGED clock
      BY <2>2 DEF AllowGranted, AllowDenied, Budget!Allow
    <3> QED
      BY <3>1, <3>2 DEF Budget!Next
  <2>3. CASE Tick
    BY <2>3 DEF Tick, Budget!Next
  <2>4. CASE UNCHANGED budget
    BY <2>4 DEF budget, Budget!vars
  <2> QED
    BY <2>1, <2>2, <2>3, <2>4
    DEF Next, Step, DispatchCreated, DispatchRefused, Fanout, PublishAndReturn,
        IngestDispatch, Notify, IngestPublish, AckOrResolve, Escalate, Receive, vars, budget
<1> QED
  BY <1>1, <1>2, CandidatesInvariant, PTL DEF Spec, BudgetSpec, Budget!Spec

-----------------------------------------------------------------------------

StoreProofs  == INSTANCE AlarmStore_proofs
BudgetProofs == INSTANCE Throttle_proofs WITH Callers <- Routers

\* PartsSpec for any callers, candidates, channels and bounds: the composition
\* uses the alarm store and the throttle as their modules describe and in no
\* other way.
THEOREM ImplementsParts == Spec => PartsSpec
BY ImplementsStore, ImplementsBudget DEF PartsSpec

\* What is proved of AlarmStore can be used of the store in here.
LEMMA StoreProofsApply == Spec => StoreProofs!Spec
<1>1. Store!Init => StoreProofs!Init
  BY DEF Store!Init, StoreProofs!Init
<1>2. [Store!Next]_(Store!vars) => [StoreProofs!Next]_(StoreProofs!vars)
  BY DEF Store!Next, Store!vars, Store!Dispatch, Store!Suppress, Store!NewAlarm, Store!Key,
         Store!OpenIds, Store!Ack, Store!Resolve, Store!SetStatus, Store!SweepList, Store!SweepNext,
         StoreProofs!Next, StoreProofs!vars, StoreProofs!Dispatch, StoreProofs!Suppress,
         StoreProofs!NewAlarm, StoreProofs!Key, StoreProofs!OpenIds, StoreProofs!Ack,
         StoreProofs!Resolve, StoreProofs!SetStatus, StoreProofs!SweepList, StoreProofs!SweepNext
<1> QED
  BY <1>1, <1>2, ImplementsStore, PTL DEF StoreSpec, Store!Spec, StoreProofs!Spec

\* Inside the composition too, no two open alarms share a dedup key.
THEOREM OneOpenAlarmPerKeyHere == Spec => []OpenKeyUniqueHere
<1>1. StoreProofs!OpenKeyUnique => OpenKeyUniqueHere
  BY DEF OpenKeyUniqueHere, Store!OpenKeyUnique, Store!OpenIds, Store!Key,
         StoreProofs!OpenKeyUnique, StoreProofs!OpenIds, StoreProofs!Key
<1> QED
  BY <1>1, StoreProofsApply, StoreProofs!OneOpenAlarmPerKey, PTL

\* Inside the composition too, no turbine is granted more than Limit alarms in
\* any window shorter than Window by the lag.
THEOREM BudgetPerShorterWindowHere == Spec => []PerShorterWindowHere
<1>0. \A S : Budget!Cardinality(S) = BudgetProofs!Cardinality(S)
  BY DEF Budget!Cardinality, BudgetProofs!Cardinality
<1>1. BudgetProofs!Spec => []BudgetProofs!PerShorterWindow
  BY BudgetProofs!BudgetPerShorterWindow, BudgetNumbers
  DEF Budget!ThrottleNumbers, BudgetProofs!ThrottleNumbers
<1>2. Budget!Init => BudgetProofs!Init
  BY DEF Budget!Init, BudgetProofs!Init, Budget!NoTime, BudgetProofs!NoTime
<1>3. [Budget!Next]_(Budget!vars) => [BudgetProofs!Next]_(BudgetProofs!vars)
  BY <1>0 DEF Budget!Next, Budget!vars, Budget!ReadClock, Budget!UseTime, Budget!Allow, Budget!Grant,
         Budget!Deny, Budget!WithinBudget, Budget!Kept, Budget!Tick, Budget!NoTime,
         BudgetProofs!Next, BudgetProofs!vars, BudgetProofs!ReadClock, BudgetProofs!UseTime,
         BudgetProofs!Allow, BudgetProofs!Grant, BudgetProofs!Deny, BudgetProofs!WithinBudget,
         BudgetProofs!Kept, BudgetProofs!Tick, BudgetProofs!NoTime
<1>4. BudgetProofs!PerShorterWindow => PerShorterWindowHere
  BY <1>0 DEF PerShorterWindowHere, Budget!PerShorterWindow, Budget!GrantsIn, BudgetProofs!PerShorterWindow,
         BudgetProofs!GrantsIn
<1> QED
  BY <1>1, <1>2, <1>3, <1>4, ImplementsBudget, PTL DEF BudgetSpec, Budget!Spec, BudgetProofs!Spec

-----------------------------------------------------------------------------
(***************************************************************************)
(* One audit event per alarm, in order.                                    *)
(***************************************************************************)

Callers == Routers \cup Ingesters

Carrying == {"route", "publish", "notify", "ingestPublish"}

\* A caller is where its kind of caller can be, and whoever carries an id, the
\* audit history and the channels included, carries that of a stored alarm.
RecordsOK ==
  /\ alarms \in Seq(Store!Alarm)
  /\ audit \in Seq([id : Nat, by : Callers])
  /\ queue \in [Channels -> Seq(Nat)]
  /\ \A c \in Routers : call[c].pc \in {"idle", "waiting", "dispatch", "route", "publish"}
  /\ \A c \in Ingesters : call[c].pc \in {"idle", "notify", "ingestPublish"}
  /\ \A c \in Callers : call[c].pc \in Carrying => call[c].id \in DOMAIN alarms
  /\ \A k \in DOMAIN audit : audit[k].id \in DOMAIN alarms
  /\ \A ch \in Channels : \A j \in DOMAIN queue[ch] : queue[ch][j] \in DOMAIN alarms

\* An alarm has one audit event and nobody on the way to publish it, or one
\* caller on the way and no event.
OneHolder ==
  \A i \in DOMAIN alarms :
    \/ \E k \in DOMAIN audit : Published(i) = {k} /\ Pending(i) = {}
    \/ \E c \in Callers : Pending(i) = {c} /\ Published(i) = {}

\* Past the throttle, a router is the one that holds the lock.
LockHeld == \A c \in Routers : call[c].pc \in {"dispatch", "route", "publish"} => mu = {c}

\* What the router at work is about to send or publish is younger than all
\* that was routed before.
Youngest ==
  \A c \in Routers :
    /\ call[c].pc \in {"route", "publish"} =>
         \A k \in DOMAIN audit : audit[k].by \in Routers => audit[k].id < call[c].id
    /\ call[c].pc = "route" =>
         \A ch \in Channels \ Sinks : \A j \in DOMAIN queue[ch] : queue[ch][j] < call[c].id

QueuesInOrder == \A ch \in Channels \ Sinks : InOrder(queue[ch])

OrderInv == LockHeld /\ Youngest /\ QueuesInOrder /\ AuditInOrder

-----------------------------------------------------------------------------

\* The store stays well-formed inside the composition.
StoreTyped == Store!TypeOK

THEOREM StoreTypedHere == Spec => []StoreTyped
<1>1. StoreProofs!TypeOK => StoreTyped
  BY DEF StoreTyped, Store!TypeOK, Store!Alarm, Store!Status,
         StoreProofs!TypeOK, StoreProofs!Alarm, StoreProofs!Status
<1> QED
  BY <1>1, StoreProofsApply, StoreProofs!TypeInvariant, PTL

\* An append adds an element at the end.
LEMMA Appended ==
  ASSUME NEW S, NEW s \in Seq(S), NEW x
  PROVE  /\ Len(s) \in Nat /\ DOMAIN s = 1..Len(s) /\ Len(s) + 1 \notin DOMAIN s
         /\ x \in S => Append(s, x) \in Seq(S)
         /\ DOMAIN Append(s, x) = DOMAIN s \cup {Len(s) + 1}
         /\ Append(s, x)[Len(s) + 1] = x
         /\ \A j \in DOMAIN s : Append(s, x)[j] = s[j]
<1>1. Len(s) \in Nat /\ DOMAIN s = 1..Len(s)
  BY LenProperties
<1>2. s \in Seq(S \cup {x})
  OBVIOUS
<1>3. /\ Append(s, x) \in Seq(S \cup {x})
      /\ Len(Append(s, x)) = Len(s) + 1
      /\ Append(s, x)[Len(s) + 1] = x
      /\ \A j \in 1..Len(s) : Append(s, x)[j] = s[j]
  BY <1>2, AppendProperties
<1>4. DOMAIN Append(s, x) = 1..(Len(s) + 1)
  BY <1>3, LenProperties
<1>5. x \in S => S \cup {x} = S
  OBVIOUS
<1> QED
  BY <1>1, <1>3, <1>4, <1>5

\* Dispatch adds one alarm; nothing else adds or removes any.
LEMMA StoreGrows ==
  ASSUME RecordsOK, StoreTyped, [Next]_vars
  PROVE  /\ DOMAIN alarms \subseteq DOMAIN alarms'
         /\ \A t, r : Store!Dispatch(t, r) =>
              DOMAIN alarms' = DOMAIN alarms \cup {Len(alarms) + 1} /\ Len(alarms) + 1 \notin DOMAIN alarms
         /\ \A i : AckOrResolve(i) => DOMAIN alarms' = DOMAIN alarms
         /\ \A e \in Sweeps : Escalate(e) => DOMAIN alarms' = DOMAIN alarms
<1>1. \A i, st : DOMAIN [alarms EXCEPT ![i].status = st] = DOMAIN alarms
  OBVIOUS
<1>2. \A t, r : Store!Dispatch(t, r) =>
              DOMAIN alarms' = DOMAIN alarms \cup {Len(alarms) + 1} /\ Len(alarms) + 1 \notin DOMAIN alarms
  <2>1. PICK S : alarms \in Seq(S)
    BY DEF RecordsOK
  <2>2. \A x : /\ DOMAIN Append(alarms, x) = DOMAIN alarms \cup {Len(alarms) + 1}
               /\ Len(alarms) + 1 \notin DOMAIN alarms
    BY <2>1, Appended
  <2> QED
    BY <2>2 DEF Store!Dispatch
<1>3. \A i : AckOrResolve(i) => DOMAIN alarms' = DOMAIN alarms
  BY <1>1 DEF AckOrResolve, Store!Ack, Store!Resolve, Store!SetStatus
<1>4. \A e \in Sweeps : Escalate(e) => DOMAIN alarms' = DOMAIN alarms
  BY <1>1 DEF Escalate, Store!SweepList, Store!SweepNext, Store!Ack, Store!SetStatus
<1>5. DOMAIN alarms \subseteq DOMAIN alarms'
  <2>1. ASSUME NEW c, DispatchCreated(c) \/ \E a : IngestDispatch(c, a)
        PROVE  DOMAIN alarms \subseteq DOMAIN alarms'
    BY <2>1, <1>2 DEF DispatchCreated, IngestDispatch
  <2>2. CASE UNCHANGED alarms
    BY <2>2
  <2> QED
    BY <2>1, <2>2, <1>3, <1>4
    DEF Next, Enter, AllowGranted, AllowDenied, Step, DispatchRefused, Fanout, PublishAndReturn,
        Notify, IngestPublish, Receive, Tick, vars, store
<1> QED
  BY <1>2, <1>3, <1>4, <1>5

\* What a non-blocking send leaves in a channel.
LEMMA Sent ==
  ASSUME RecordsOK, NEW chs, NEW i \in DOMAIN alarms, Send(chs, i), NEW ch \in Channels
  PROVE  /\ queue' \in [Channels -> Seq(Nat)]
         /\ \/ queue'[ch] = queue[ch]
            \/ (ch \in chs /\ queue'[ch] = Append(queue[ch], i))
<1>1. i \in Nat
  BY LenProperties DEF RecordsOK
<1>2. \A q \in Seq(Nat) : Append(q, i) \in Seq(Nat)
  BY <1>1
<1> QED
  BY <1>2 DEF Send, RecordsOK

\* Every id anyone carries, buffers or has published is that of a stored alarm.
THEOREM RecordsInvariant == Spec => []RecordsOK
<1>1. Init => RecordsOK
  BY DEF Init, Store!Init, Idle, Callers, Carrying, RecordsOK
<1>2. RecordsOK /\ CandidatesOK /\ StoreTyped /\ StoreTyped' /\ [Next]_vars => RecordsOK'
  <2> SUFFICES ASSUME RecordsOK, CandidatesOK, StoreTyped, StoreTyped', [Next]_vars
               PROVE  RecordsOK'
    OBVIOUS
  <2>1. alarms' \in Seq(Store!Alarm) /\ DOMAIN alarms \subseteq DOMAIN alarms'
    BY StoreGrows DEF StoreTyped, Store!TypeOK
  <2>2. \A c \in Callers : (c \in Routers /\ c \notin Ingesters) \/ (c \in Ingesters /\ c \notin Routers)
    BY DisjointCallers DEF Callers
  <2> DEFINE CallsOK ==
               /\ \A c \in Routers : call[c].pc \in {"idle", "waiting", "dispatch", "route", "publish"}
               /\ \A c \in Ingesters : call[c].pc \in {"idle", "notify", "ingestPublish"}
               /\ \A c \in Callers : call[c].pc \in Carrying => call[c].id \in DOMAIN alarms
             AuditOK ==
               /\ audit \in Seq([id : Nat, by : Callers])
               /\ \A k \in DOMAIN audit : audit[k].id \in DOMAIN alarms
             QueuesOK ==
               /\ queue \in [Channels -> Seq(Nat)]
               /\ \A ch \in Channels : \A j \in DOMAIN queue[ch] : queue[ch][j] \in DOMAIN alarms
  <2>3. CallsOK'
    <3> USE DEF Goto, Callers, Carrying
    <3>1. ASSUME NEW c \in Callers, NEW new, call' = [call EXCEPT ![c] = new],
                 c \in Routers => new.pc \in {"idle", "waiting", "dispatch", "route", "publish"},
                 c \in Ingesters => new.pc \in {"idle", "notify", "ingestPublish"},
                 new.pc \in Carrying => new.id \in DOMAIN alarms'
          PROVE  CallsOK'
      BY <2>1, <3>1 DEF RecordsOK, CandidatesOK
    <3>2. ASSUME NEW c \in Routers, NEW a \in Candidates, Enter(c, a)
          PROVE  CallsOK'
      BY <3>1, <3>2, <2>2 DEF Enter
    <3>3. ASSUME NEW c \in Routers, AllowGranted(c) \/ AllowDenied(c)
          PROVE  CallsOK'
      BY <3>1, <3>3, <2>2 DEF AllowGranted, AllowDenied, Idle
    <3>4. ASSUME NEW c \in Routers, Step(c)
          PROVE  CallsOK'
      <4>1. CASE DispatchCreated(c)
        BY <3>1, <4>1, <2>2, StoreGrows DEF DispatchCreated
      <4>2. CASE DispatchRefused(c) \/ PublishAndReturn(c)
        BY <3>1, <4>2, <2>2 DEF DispatchRefused, PublishAndReturn, Idle
      <4>3. CASE Fanout(c)
        BY <3>1, <4>3, <2>1, <2>2 DEF Fanout, RecordsOK
      <4> QED
        BY <3>4, <4>1, <4>2, <4>3 DEF Step
    <3>5. ASSUME NEW c \in Ingesters, NEW a \in Candidates, IngestDispatch(c, a)
          PROVE  CallsOK'
      BY <3>1, <3>5, <2>2, StoreGrows DEF IngestDispatch
    <3>6. ASSUME NEW c \in Ingesters, Notify(c) \/ IngestPublish(c)
          PROVE  CallsOK'
      BY <3>1, <3>6, <2>1, <2>2 DEF Notify, IngestPublish, Idle, RecordsOK
    <3>7. CASE UNCHANGED call
      BY <3>7, <2>1 DEF RecordsOK
    <3> QED
      BY <3>2, <3>3, <3>4, <3>5, <3>6, <3>7
      DEF Next, AckOrResolve, Escalate, Receive, Tick, vars
  <2>4. AuditOK'
    <3>1. ASSUME NEW c \in Callers, Publish(c), call[c].pc \in Carrying
          PROVE  AuditOK'
      <4> DEFINE new == [id |-> call[c].id, by |-> c]
      <4>1. new \in [id : Nat, by : Callers] /\ new.id \in DOMAIN alarms
        BY <3>1, LenProperties DEF RecordsOK
      <4>2. audit \in Seq([id : Nat, by : Callers]) /\ audit' = Append(audit, new)
        BY <3>1 DEF Publish, RecordsOK
      <4> HIDE DEF new
      <4>3. /\ audit' \in Seq([id : Nat, by : Callers])
            /\ DOMAIN audit' = DOMAIN audit \cup {Len(audit) + 1}
            /\ audit'[Len(audit) + 1] = new
            /\ \A k \in DOMAIN audit : audit'[k] = audit[k]
        BY <4>1, <4>2, Appended
      <4> QED
        BY <2>1, <4>1, <4>3 DEF RecordsOK
    <3>2. ASSUME NEW c \in Callers, PublishAndReturn(c) \/ IngestPublish(c)
          PROVE  AuditOK'
      BY <3>1, <3>2 DEF PublishAndReturn, IngestPublish, Carrying
    <3>3. CASE UNCHANGED audit
      BY <3>3, <2>1 DEF RecordsOK
    <3> QED
      BY <3>2, <3>3
      DEF Next, Enter, AllowGranted, AllowDenied, Step, DispatchCreated, DispatchRefused, Fanout,
          IngestDispatch, Notify, AckOrResolve, Escalate, Receive, Tick, vars, Callers
  <2>5. QueuesOK'
    <3>1. ASSUME NEW c \in Callers, NEW chs, Send(chs, call[c].id), call[c].pc \in Carrying
          PROVE  QueuesOK'
      <4>1. PICK i \in DOMAIN alarms : i = call[c].id
        BY <3>1 DEF RecordsOK
      <4>2. Send(chs, i) /\ queue' \in [Channels -> Seq(Nat)]
        <5>1. Send(chs, i)
          BY <3>1, <4>1
        <5>2. \A q \in Seq(Nat) : Append(q, i) \in Seq(Nat)
          <6>1. i \in Nat
            BY <4>1, LenProperties DEF RecordsOK
          <6> QED
            BY <6>1
        <5> QED
          BY <5>1, <5>2 DEF Send, RecordsOK
      <4>3. ASSUME NEW ch \in Channels, NEW j \in DOMAIN queue'[ch]
            PROVE  queue'[ch][j] \in DOMAIN alarms'
        <5>1. CASE queue'[ch] = queue[ch]
          BY <5>1, <2>1, <4>3 DEF RecordsOK
        <5>2. CASE queue'[ch] = Append(queue[ch], i)
          <6>1. queue[ch] \in Seq(Nat)
            BY DEF RecordsOK
          <6>2. j = Len(queue[ch]) + 1 \/ j \in DOMAIN queue[ch]
            BY <5>2, <6>1, <4>3, Appended
          <6>3. queue'[ch][j] = i \/ (j \in DOMAIN queue[ch] /\ queue'[ch][j] = queue[ch][j])
            BY <5>2, <6>1, <6>2, Appended
          <6> QED
            BY <2>1, <4>1, <6>3 DEF RecordsOK
        <5> QED
          BY <4>2, <5>1, <5>2, Sent
      <4> QED
        BY <4>2, <4>3
    <3>2. ASSUME NEW c \in Callers, Fanout(c) \/ Notify(c)
          PROVE  QueuesOK'
      BY <3>1, <3>2 DEF Fanout, Notify, Carrying
    <3>3. ASSUME NEW ch \in Channels, Receive(ch)
          PROVE  QueuesOK'
      <4>1. queue[ch] \in Seq(Nat) /\ queue[ch] # << >>
        BY <3>3 DEF Receive, RecordsOK
      <4>2. /\ Tail(queue[ch]) \in Seq(Nat)
            /\ \A j \in DOMAIN Tail(queue[ch]) : j + 1 \in DOMAIN queue[ch]
                                                 /\ Tail(queue[ch])[j] = queue[ch][j + 1]
        BY <4>1
      <4>3. queue' = [queue EXCEPT ![ch] = Tail(queue[ch])]
        BY <3>3 DEF Receive
      <4> QED
        BY <2>1, <4>2, <4>3 DEF RecordsOK
    <3>4. CASE UNCHANGED queue
      BY <3>4, <2>1 DEF RecordsOK
    <3> QED
      BY <3>2, <3>3, <3>4
      DEF Next, Enter, AllowGranted, AllowDenied, Step, DispatchCreated, DispatchRefused,
          PublishAndReturn, IngestDispatch, IngestPublish, AckOrResolve, Escalate, Tick, vars, Callers
  <2> QED
    BY <2>1, <2>3, <2>4, <2>5 DEF RecordsOK
<1> QED
  BY <1>1, <1>2, CandidatesInvariant, StoreTypedHere, PTL DEF Spec

-----------------------------------------------------------------------------

\* A caller that takes up the id of a new alarm.
TakesUp(c) ==
  /\ call[c].pc \notin Carrying
  /\ DOMAIN alarms' = DOMAIN alarms \cup {Len(alarms) + 1}
  /\ Len(alarms) + 1 \notin DOMAIN alarms
  /\ \E new : /\ new.pc \in Carrying /\ new.id = Len(alarms) + 1
              /\ call' = [call EXCEPT ![c] = new]
  /\ UNCHANGED audit

\* A caller that lays its id down in the audit history.
LaysDown(c) ==
  /\ call[c].pc \in Carrying
  /\ DOMAIN alarms' = DOMAIN alarms
  /\ Publish(c)
  /\ call' = [call EXCEPT ![c] = Idle]

\* Whoever carries an id goes on carrying it, and nobody else begins to.
KeepsIds ==
  /\ \A c \in Callers : \/ call'[c] = call[c]
                        \/ call[c].pc \notin Carrying /\ (call'[c]).pc \notin Carrying
                        \/ /\ call[c].pc \in Carrying /\ (call'[c]).pc \in Carrying
                           /\ (call'[c]).id = call[c].id
  /\ DOMAIN alarms' = DOMAIN alarms
  /\ UNCHANGED audit

\* Every step does one of the three.
LEMMA IdsMove ==
  ASSUME RecordsOK, CandidatesOK, StoreTyped, [Next]_vars
  PROVE  (\E c \in Callers : TakesUp(c) \/ LaysDown(c)) \/ KeepsIds
<1> USE DEF Callers, Carrying
<1>1. ASSUME NEW c \in Callers, NEW new, call' = [call EXCEPT ![c] = new], UNCHANGED <<alarms, audit>>,
             \/ call[c].pc \notin Carrying /\ new.pc \notin Carrying
             \/ call[c].pc \in Carrying /\ new.pc \in Carrying /\ new.id = call[c].id
      PROVE  KeepsIds
  BY <1>1 DEF KeepsIds, CandidatesOK
<1>0. Idle.pc \notin Carrying
  BY DEF Idle
<1>2. ASSUME NEW c \in Routers, NEW a \in Candidates, Enter(c, a)
      PROVE  KeepsIds
  BY <1>0, <1>1, <1>2 DEF Enter, Goto, store
<1>3. ASSUME NEW c \in Routers, AllowGranted(c) \/ AllowDenied(c)
      PROVE  KeepsIds
  BY <1>1, <1>3 DEF AllowGranted, AllowDenied, Goto, Idle, store
<1>4. ASSUME NEW c \in Routers, Step(c)
      PROVE  TakesUp(c) \/ LaysDown(c) \/ KeepsIds
  <2>1. CASE DispatchCreated(c)
    BY <2>1, StoreGrows DEF DispatchCreated, Goto, TakesUp, CandidatesOK
  <2>2. CASE DispatchRefused(c)
    BY <1>1, <2>2 DEF DispatchRefused, Goto, Idle, store
  <2>3. CASE Fanout(c)
    BY <1>1, <2>3 DEF Fanout, Goto, store
  <2>4. CASE PublishAndReturn(c)
    BY <2>4 DEF PublishAndReturn, Goto, LaysDown, store
  <2> QED
    BY <1>4, <2>1, <2>2, <2>3, <2>4 DEF Step
<1>5. ASSUME NEW c \in Ingesters, NEW a \in Candidates, IngestDispatch(c, a)
      PROVE  TakesUp(c)
  <2>1. call[c].pc \notin Carrying /\ UNCHANGED audit
    BY <1>0, <1>5 DEF IngestDispatch
  <2>2. call' = [call EXCEPT ![c] = [pc |-> "notify", id |-> Len(alarms) + 1]]
    BY <1>5 DEF IngestDispatch, Goto
  <2>3. Store!Dispatch(a.turbine, a.rule)
    BY <1>5 DEF IngestDispatch
  <2> QED
    BY <2>1, <2>2, <2>3, StoreGrows DEF TakesUp
<1>6. ASSUME NEW c \in Ingesters, Notify(c)
      PROVE  KeepsIds
  BY <1>1, <1>6 DEF Notify, Goto, store
<1>7. ASSUME NEW c \in Ingesters, IngestPublish(c)
      PROVE  LaysDown(c)
  BY <1>7 DEF IngestPublish, Goto, LaysDown, store
<1>8. ASSUME UNCHANGED <<call, audit>>, DOMAIN alarms' = DOMAIN alarms
      PROVE  KeepsIds
  BY <1>8 DEF KeepsIds
<1> QED
  BY <1>2, <1>3, <1>4, <1>5, <1>6, <1>7, <1>8, StoreGrows
  DEF Next, AckOrResolve, Escalate, Receive, Tick, vars, store

\* Of every alarm there is one audit event, or one caller on its way to
\* publish it.
THEOREM OneHolderInvariant == Spec => []OneHolder
<1>1. Init => OneHolder
  <2>1. Init => DOMAIN alarms = {}
    BY DEF Init, Store!Init
  <2> QED
    BY <2>1 DEF OneHolder
<1>2. OneHolder /\ RecordsOK /\ CandidatesOK /\ StoreTyped /\ [Next]_vars => OneHolder'
  <2> SUFFICES ASSUME OneHolder, RecordsOK, CandidatesOK, StoreTyped, [Next]_vars
               PROVE  OneHolder'
    OBVIOUS
  <2> DEFINE HeldOnce(i) == \/ \E k \in DOMAIN audit : Published(i) = {k} /\ Pending(i) = {}
                            \/ \E c \in Callers : Pending(i) = {c} /\ Published(i) = {}
  <2>0. \A i : Pending(i) = {c \in Callers : call[c].pc \in Carrying /\ call[c].id = i}
    BY DEF Pending, Callers, Carrying
  <2>1. ASSUME NEW c \in Callers, TakesUp(c)
        PROVE  OneHolder'
    <3>0. PICK n : n = Len(alarms) + 1
      OBVIOUS
    <3>1. Published(n) = {} /\ Pending(n) = {}
      BY <2>0, <2>1, <3>0 DEF RecordsOK, TakesUp, Published
    <3>2. PICK new : new.pc \in Carrying /\ new.id = n /\ call' = [call EXCEPT ![c] = new]
      BY <2>1, <3>0 DEF TakesUp
    <3>3. \A i : Published(i)' = Published(i)
      BY <2>1 DEF TakesUp, Published
    <3>4. \A i : Pending(i)' = {d \in Callers : (call'[d]).pc \in Carrying /\ (call'[d]).id = i}
      BY DEF Pending, Callers, Carrying
    <3>5. \A d \in Callers : call'[d] = IF d = c THEN new ELSE call[d]
      BY <3>2 DEF CandidatesOK, Callers
    <3>6. Pending(n)' = {c}
      <4>1. \A d \in Callers : ~(call[d].pc \in Carrying /\ call[d].id = n)
        BY <2>0, <3>1
      <4>2. \A d \in Callers : ((call'[d]).pc \in Carrying /\ (call'[d]).id = n) <=> d = c
        BY <3>2, <3>5, <4>1
      <4> QED
        BY <2>1, <3>4, <4>2, Zenon
    <3>7. ASSUME NEW i \in DOMAIN alarms
          PROVE  Pending(i)' = Pending(i)
      <4>1. i # n
        BY <2>1, <3>0 DEF TakesUp
      <4>2. \A d \in Callers : ((call'[d]).pc \in Carrying /\ (call'[d]).id = i)
                               <=> (call[d].pc \in Carrying /\ call[d].id = i)
        BY <2>1, <3>2, <3>5, <4>1 DEF TakesUp
      <4> QED
        BY <2>0, <3>4, <4>2, Zenon
    <3>8. HeldOnce(n)'
      BY <2>1, <3>1, <3>3, <3>6
    <3>9. ASSUME NEW i \in DOMAIN alarms
          PROVE  HeldOnce(i)'
      BY <2>1, <3>3, <3>7 DEF OneHolder, TakesUp
    <3>10. DOMAIN alarms' = DOMAIN alarms \cup {n}
      BY <2>1, <3>0 DEF TakesUp
    <3> HIDE DEF HeldOnce
    <3>11. \A i \in DOMAIN alarms' : HeldOnce(i)'
      BY <3>8, <3>9, <3>10
    <3> QED
      BY <3>11 DEF OneHolder, HeldOnce
  <2>2. ASSUME NEW c \in Callers, LaysDown(c)
        PROVE  OneHolder'
    <3> DEFINE new == [id |-> call[c].id, by |-> c]
    <3>0. audit' = Append(audit, new) /\ new.id = call[c].id
      BY <2>2 DEF LaysDown, Publish
    <3> HIDE DEF new
    <3>1. /\ DOMAIN audit' = DOMAIN audit \cup {Len(audit) + 1} /\ Len(audit) + 1 \notin DOMAIN audit
          /\ audit'[Len(audit) + 1] = new
          /\ \A k \in DOMAIN audit : audit'[k] = audit[k]
      <4>1. PICK S : audit \in Seq(S)
        BY DEF RecordsOK
      <4> QED
        BY <3>0, <4>1, Appended
    <3>2. PICK i \in DOMAIN alarms : i = call[c].id
      BY <2>2 DEF LaysDown, RecordsOK
    <3>3. Pending(i) = {c} /\ Published(i) = {}
      BY <2>0, <2>2, <3>2 DEF LaysDown, OneHolder
    <3>4. Pending(i)' = {} /\ Published(i)' = {Len(audit) + 1}
      <4>1. Pending(i)' = {}
        BY <3>3, <2>0, <2>2 DEF LaysDown, CandidatesOK, Callers, Carrying, Idle, Pending
      <4>2. Published(i)' = {Len(audit) + 1}
        BY <3>0, <3>1, <3>2, <3>3 DEF Published
      <4> QED
        BY <4>1, <4>2
    <3>5. ASSUME NEW j \in DOMAIN alarms, j # i
          PROVE  Pending(j)' = Pending(j) /\ Published(j)' = Published(j)
      <4>1. Pending(j)' = Pending(j)
        BY <2>2, <3>2, <3>5 DEF LaysDown, CandidatesOK, Callers, Carrying, Idle, Pending
      <4>2. Published(j)' = Published(j)
        BY <3>0, <3>1, <3>2, <3>5 DEF Published
      <4> QED
        BY <4>1, <4>2
    <3> QED
      BY <2>2, <3>1, <3>4, <3>5 DEF OneHolder, LaysDown
  <2>3. CASE KeepsIds
    <3>1. \A i : Published(i)' = Published(i)
      BY <2>3 DEF KeepsIds, Published
    <3>2. \A i : Pending(i)' = Pending(i)
      BY <2>3 DEF KeepsIds, Pending, Callers, Carrying
    <3> QED
      BY <2>3, <3>1, <3>2 DEF OneHolder, KeepsIds
  <2> QED
    BY <2>1, <2>2, <2>3, IdsMove
<1> QED
  BY <1>1, <1>2, RecordsInvariant, CandidatesInvariant, StoreTypedHere, PTL DEF Spec

\* AuditedOnce for any callers, channels, sweeps and bounds, as many of them at
\* once as there are.
THEOREM EveryAlarmAuditedOnce == Spec => []AuditedOnce
<1>1. OneHolder => AuditedOnce
  <2>1. Cardinality({}) = 0 /\ \A x : Cardinality({x}) = 1
    BY FS_EmptySet, FS_Singleton
  <2>2. ASSUME NEW i \in DOMAIN alarms, OneHolder
        PROVE  Cardinality(Published(i)) + Cardinality(Pending(i)) = 1
    <3>1. \/ Cardinality(Published(i)) = 1 /\ Cardinality(Pending(i)) = 0
          \/ Cardinality(Published(i)) = 0 /\ Cardinality(Pending(i)) = 1
      BY <2>1, <2>2, Zenon DEF OneHolder
    <3> QED
      BY <3>1
  <2> QED
    BY <2>2 DEF AuditedOnce
<1> QED
  BY <1>1, OneHolderInvariant, PTL

-----------------------------------------------------------------------------

\* The lock admits one router past the throttle.
THEOREM LockHeldInvariant == Spec => []LockHeld
<1>1. Init => LockHeld
  BY DEF Init, Idle, LockHeld
<1>2. LockHeld /\ CandidatesOK /\ [Next]_vars => LockHeld'
  <2> SUFFICES ASSUME LockHeld, CandidatesOK, [Next]_vars
               PROVE  LockHeld'
    OBVIOUS
  <2> DEFINE Past == {"dispatch", "route", "publish"}
  <2>1. ASSUME NEW c \in Callers, NEW new, call' = [call EXCEPT ![c] = new],
               new.pc \in Past => mu' = {c},
               mu' = mu \/ \A d \in Routers : call[d].pc \in Past => d = c
        PROVE  LockHeld'
    <3>1. \A d \in Routers : call'[d] = IF d = c THEN new ELSE call[d]
      BY <2>1 DEF CandidatesOK
    <3> QED
      BY <2>1, <3>1 DEF LockHeld
  <2>2. ASSUME NEW c \in Routers, NEW a \in Candidates, Enter(c, a)
        PROVE  LockHeld'
    BY <2>1, <2>2 DEF Enter, Goto, Callers
  <2>3. ASSUME NEW c \in Routers, AllowGranted(c)
        PROVE  LockHeld'
    BY <2>1, <2>3 DEF AllowGranted, Goto, Callers, LockHeld
  <2>4. ASSUME NEW c \in Routers, AllowDenied(c)
        PROVE  LockHeld'
    BY <2>1, <2>4 DEF AllowDenied, Goto, Callers, Idle
  <2>5. ASSUME NEW c \in Routers, DispatchCreated(c) \/ Fanout(c)
        PROVE  LockHeld'
    BY <2>1, <2>5 DEF DispatchCreated, Fanout, Goto, Callers, LockHeld
  <2>6. ASSUME NEW c \in Routers, DispatchRefused(c) \/ PublishAndReturn(c)
        PROVE  LockHeld'
    <3>1. mu = {c} /\ call' = [call EXCEPT ![c] = Idle]
      BY <2>6 DEF DispatchRefused, PublishAndReturn, Goto, LockHeld
    <3>2. \A d \in Routers : call[d].pc \in Past => d = c
      BY <3>1 DEF LockHeld
    <3> QED
      BY <2>1, <3>1, <3>2 DEF Callers, Idle
  <2>7. ASSUME NEW c \in Ingesters,
               Notify(c) \/ IngestPublish(c) \/ \E a \in Candidates : IngestDispatch(c, a)
        PROVE  LockHeld'
    BY <2>1, <2>7 DEF Notify, IngestPublish, IngestDispatch, Goto, Callers, Idle
  <2>8. CASE UNCHANGED <<call, mu>>
    BY <2>8 DEF LockHeld
  <2> QED
    BY <2>2, <2>3, <2>4, <2>5, <2>6, <2>7, <2>8
    DEF Next, Step, AckOrResolve, Escalate, Receive, Tick, vars
<1> QED
  BY <1>1, <1>2, CandidatesInvariant, PTL DEF Spec

\* What the router under the lock carries is younger than all that was routed.
LEMMA YoungestStep ==
  ASSUME Youngest, LockHeld, RecordsOK, CandidatesOK, StoreTyped, [Next]_vars
  PROVE  Youngest'
<1> DEFINE
      Routed(n) == \A k \in DOMAIN audit : audit[k].by \in Routers => audit[k].id < n
      Buffered(n) == \A ch \in Channels \ Sinks : \A j \in DOMAIN queue[ch] : queue[ch][j] < n
      Young(c) == /\ call[c].pc \in {"route", "publish"} => Routed(call[c].id)
                  /\ call[c].pc = "route" => Buffered(call[c].id)
<1>0. Youngest <=> \A c \in Routers : Young(c)
  BY DEF Youngest
<1>1. Youngest' <=> \A c \in Routers : Young(c)'
  BY DEF Youngest
<1>2. ASSUME NEW c \in Callers, NEW new, call' = [call EXCEPT ![c] = new]
      PROVE  \A d \in Routers : call'[d] = IF d = c THEN new ELSE call[d]
  BY <1>2 DEF CandidatesOK
<1>3. ASSUME NEW c \in Callers, NEW new, call' = [call EXCEPT ![c] = new],
             new.pc \notin {"route", "publish"}, UNCHANGED <<audit, queue>>
      PROVE  Youngest'
  <2>1. \A d \in Routers : Young(d)'
    BY <1>0, <1>2, <1>3
  <2> QED
    BY <1>1, <2>1
<1>4. ASSUME NEW c \in Routers, NEW a \in Candidates, Enter(c, a)
      PROVE  Youngest'
  BY <1>3, <1>4 DEF Enter, Goto, Callers
<1>5. ASSUME NEW c \in Routers, AllowGranted(c) \/ AllowDenied(c) \/ DispatchRefused(c)
      PROVE  Youngest'
  BY <1>3, <1>5 DEF AllowGranted, AllowDenied, DispatchRefused, Goto, Callers, Idle
<1>6. ASSUME NEW c \in Routers, DispatchCreated(c)
      PROVE  Youngest'
  <2>1. PICK n : n = Len(alarms) + 1
    OBVIOUS
  <2>2. n \in Nat /\ DOMAIN alarms \subseteq Nat /\ \A i \in DOMAIN alarms : i < n
    <3>1. alarms \in Seq(Store!Alarm)
      BY DEF RecordsOK
    <3>2. Len(alarms) \in Nat /\ DOMAIN alarms = 1..Len(alarms)
      BY <3>1, LenProperties
    <3> QED
      BY <2>1, <3>2
  <2>3. Routed(n) /\ Buffered(n)
    BY <2>2 DEF RecordsOK
  <2>4. PICK new : new.id = n /\ call' = [call EXCEPT ![c] = new]
    BY <1>6, <2>1 DEF DispatchCreated, Goto
  <2>5. UNCHANGED <<audit, queue>>
    BY <1>6 DEF DispatchCreated
  <2>6. \A d \in Routers : Young(d)'
    BY <1>0, <1>2, <2>3, <2>4, <2>5 DEF Callers
  <2> QED
    BY <1>1, <2>6
<1>7. ASSUME NEW c \in Routers, Fanout(c)
      PROVE  Youngest'
  <2>1. call[c].pc = "route" /\ UNCHANGED audit
    BY <1>7 DEF Fanout
  <2>2. \A d \in Routers : call[d].pc \in {"route", "publish"} => d = c
    BY <2>1 DEF LockHeld
  <2>3. PICK new : new.pc = "publish" /\ new.id = call[c].id /\ call' = [call EXCEPT ![c] = new]
    BY <1>7 DEF Fanout, Goto
  <2>4. \A d \in Routers : call'[d] = IF d = c THEN new ELSE call[d]
    BY <2>3 DEF CandidatesOK
  <2>5. Routed(call[c].id)
    BY <1>0, <2>1
  <2>6. \A d \in Routers : Young(d)'
    BY <2>1, <2>2, <2>3, <2>4, <2>5
  <2> QED
    BY <1>1, <2>6
<1>8. ASSUME NEW c \in Routers, PublishAndReturn(c)
      PROVE  Youngest'
  <2>1. call[c].pc = "publish"
    BY <1>8 DEF PublishAndReturn
  <2>2. \A d \in Routers : call[d].pc \in {"route", "publish"} => d = c
    BY <2>1 DEF LockHeld
  <2>3. PICK new : new.pc = "idle" /\ call' = [call EXCEPT ![c] = new]
    BY <1>8 DEF PublishAndReturn, Goto, Idle
  <2>4. \A d \in Routers : (call'[d]).pc \notin {"route", "publish"}
    <3>1. \A d \in Routers : call'[d] = IF d = c THEN new ELSE call[d]
      BY <2>3 DEF CandidatesOK
    <3> QED
      BY <2>2, <2>3, <3>1
  <2> QED
    BY <1>1, <2>4
<1>9. ASSUME NEW c \in Ingesters, NEW a \in Candidates, IngestDispatch(c, a)
      PROVE  Youngest'
  BY <1>3, <1>9 DEF IngestDispatch, Goto, Callers
<1>10. ASSUME NEW c \in Ingesters, Notify(c)
       PROVE  Youngest'
  <2>1. \A d \in Routers : call'[d] = call[d]
    BY <1>2, <1>10, DisjointCallers DEF Notify, Goto, Callers
  <2>2. UNCHANGED audit /\ \A ch \in Channels \ Sinks : queue'[ch] = queue[ch]
    BY <1>10 DEF Notify, Send
  <2>3. \A d \in Routers : Young(d)'
    BY <1>0, <2>1, <2>2
  <2> QED
    BY <1>1, <2>3
<1>11. ASSUME NEW c \in Ingesters, IngestPublish(c)
       PROVE  Youngest'
  <2>1. \A d \in Routers : call'[d] = call[d]
    BY <1>2, <1>11, DisjointCallers DEF IngestPublish, Goto, Callers
  <2>2. \A k \in DOMAIN audit' : \/ k \in DOMAIN audit /\ audit'[k] = audit[k]
                                 \/ audit'[k].by = c
    <3> DEFINE new == [id |-> call[c].id, by |-> c]
    <3>1. audit' = Append(audit, new) /\ new.by = c
      BY <1>11 DEF IngestPublish, Publish
    <3> HIDE DEF new
    <3>2. PICK S : audit \in Seq(S)
      BY DEF RecordsOK
    <3> QED
      BY <3>1, <3>2, Appended
  <2>3. c \notin Routers /\ UNCHANGED queue
    BY <1>11, DisjointCallers DEF IngestPublish
  <2>4. \A d \in Routers : Young(d)'
    BY <1>0, <2>1, <2>2, <2>3
  <2> QED
    BY <1>1, <2>4
<1>12. ASSUME NEW ch \in Channels, Receive(ch)
       PROVE  Youngest'
  <2>1. queue[ch] \in Seq(Nat) /\ queue[ch] # << >>
    BY <1>12 DEF Receive, RecordsOK
  <2>2. \A j \in DOMAIN Tail(queue[ch]) : /\ j + 1 \in DOMAIN queue[ch]
                                          /\ Tail(queue[ch])[j] = queue[ch][j + 1]
    BY <2>1
  <2>3. queue' = [queue EXCEPT ![ch] = Tail(queue[ch])] /\ UNCHANGED <<call, audit>>
    BY <1>12 DEF Receive
  <2>4. \A g \in Channels : \A j \in DOMAIN queue'[g] :
          \E k \in DOMAIN queue[g] : queue'[g][j] = queue[g][k]
    BY <2>2, <2>3 DEF RecordsOK
  <2>5. \A d \in Routers : Young(d)'
    BY <1>0, <2>3, <2>4
  <2> QED
    BY <1>1, <2>5
<1>13. ASSUME UNCHANGED <<call, audit, queue>>
       PROVE  Youngest'
  BY <1>13 DEF Youngest
<1> QED
  BY <1>4, <1>5, <1>6, <1>7, <1>8, <1>9, <1>10, <1>11, <1>12, <1>13
  DEF Next, Step, AckOrResolve, Escalate, Tick, vars

\* Routers publish, and fill the channels that only they feed, in the order
\* the store created the alarms.
THEOREM OrderInvariant == Spec => []OrderInv
<1>1. Init => OrderInv
  <2>1. Init => audit = << >> /\ \A ch \in Channels : queue[ch] = << >>
    BY DEF Init
  <2>2. Init => \A c \in Routers : call[c].pc = "idle"
    BY DEF Init, Idle
  <2> QED
    BY <2>1, <2>2 DEF OrderInv, LockHeld, Youngest, QueuesInOrder, InOrder, AuditInOrder
<1>2. OrderInv /\ LockHeld' /\ RecordsOK /\ CandidatesOK /\ StoreTyped /\ [Next]_vars => OrderInv'
  <2> SUFFICES ASSUME OrderInv, LockHeld', RecordsOK, CandidatesOK, StoreTyped, [Next]_vars
               PROVE  OrderInv'
    OBVIOUS
  <2>1. Youngest'
    BY YoungestStep DEF OrderInv
  <2>2. QueuesInOrder'
    <3>1. ASSUME NEW c \in Routers, Fanout(c)
          PROVE  QueuesInOrder'
      <4>1. /\ call[c].pc = "route" /\ call[c].id \in DOMAIN alarms
            /\ \A ch \in Channels \ Sinks : \A j \in DOMAIN queue[ch] : queue[ch][j] < call[c].id
        BY <3>1 DEF Fanout, OrderInv, Youngest, RecordsOK, Callers, Carrying
      <4>2. PICK i \in DOMAIN alarms : i = call[c].id
        BY <4>1
      <4>3. PICK chs : Send(chs, i)
        BY <3>1, <4>2 DEF Fanout
      <4>4. ASSUME NEW ch \in Channels \ Sinks
            PROVE  InOrder(queue'[ch])
        <5>1. queue[ch] \in Seq(Nat) /\ InOrder(queue[ch])
          BY DEF RecordsOK, OrderInv, QueuesInOrder
        <5>2. CASE queue'[ch] = queue[ch]
          BY <5>1, <5>2
        <5>3. CASE queue'[ch] = Append(queue[ch], i)
          <6>1. PICK n : n = Len(queue[ch]) + 1
            OBVIOUS
          <6>2. /\ n \in Nat /\ DOMAIN queue[ch] = 1..(n - 1) /\ DOMAIN queue'[ch] = DOMAIN queue[ch] \cup {n}
                /\ queue'[ch][n] = i /\ \A j \in DOMAIN queue[ch] : queue'[ch][j] = queue[ch][j]
            BY <5>1, <5>3, <6>1, Appended
          <6>3. \A j, k \in DOMAIN queue'[ch] : j < k => queue'[ch][j] < queue'[ch][k]
            <7> SUFFICES ASSUME NEW j \in DOMAIN queue'[ch], NEW k \in DOMAIN queue'[ch], j < k
                         PROVE  queue'[ch][j] < queue'[ch][k]
              OBVIOUS
            <7>1. j \in DOMAIN queue[ch]
              BY <6>2
            <7>2. CASE k \in DOMAIN queue[ch]
              BY <5>1, <6>2, <7>1, <7>2 DEF InOrder
            <7>3. CASE k = n
              BY <4>1, <4>2, <6>2, <7>1, <7>3
            <7> QED
              BY <6>2, <7>2, <7>3
          <6> QED
            BY <6>3 DEF InOrder
        <5> QED
          BY <4>3, <5>2, <5>3, Sent
      <4> QED
        BY <4>4 DEF QueuesInOrder
    <3>2. ASSUME NEW c \in Ingesters, Notify(c)
          PROVE  QueuesInOrder'
      <4>1. \A ch \in Channels \ Sinks : queue'[ch] = queue[ch]
        BY <3>2 DEF Notify, Send
      <4> QED
        BY <4>1 DEF OrderInv, QueuesInOrder
    <3>3. ASSUME NEW ch \in Channels, Receive(ch)
          PROVE  QueuesInOrder'
      <4>1. queue[ch] \in Seq(Nat) /\ queue[ch] # << >>
        BY <3>3 DEF Receive, RecordsOK
      <4>2. \A j \in DOMAIN Tail(queue[ch]) : /\ j \in Nat /\ j + 1 \in DOMAIN queue[ch]
                                              /\ Tail(queue[ch])[j] = queue[ch][j + 1]
        BY <4>1
      <4>3. queue' = [queue EXCEPT ![ch] = Tail(queue[ch])]
        BY <3>3 DEF Receive
      <4>4. InOrder(queue[ch]) => InOrder(Tail(queue[ch]))
        <5> SUFFICES ASSUME InOrder(queue[ch]), NEW j \in DOMAIN Tail(queue[ch]),
                            NEW k \in DOMAIN Tail(queue[ch]), j < k
                     PROVE  Tail(queue[ch])[j] < Tail(queue[ch])[k]
          BY DEF InOrder
        <5>1. j \in Nat /\ k \in Nat /\ j + 1 < k + 1
          BY <4>2
        <5>2. queue[ch][j + 1] < queue[ch][k + 1]
          BY <4>2, <5>1 DEF InOrder
        <5> QED
          BY <4>2, <5>2
      <4>5. ASSUME NEW g \in Channels \ Sinks
            PROVE  InOrder(queue'[g])
        <5>1. CASE g = ch
          BY <4>3, <4>4, <5>1 DEF RecordsOK, OrderInv, QueuesInOrder
        <5>2. CASE g # ch
          BY <4>3, <5>2 DEF RecordsOK, OrderInv, QueuesInOrder
        <5> QED
          BY <5>1, <5>2
      <4> QED
        BY <4>5 DEF QueuesInOrder
    <3>4. CASE UNCHANGED queue
      BY <3>4 DEF OrderInv, QueuesInOrder
    <3> QED
      BY <3>1, <3>2, <3>3, <3>4
      DEF Next, Enter, AllowGranted, AllowDenied, Step, DispatchCreated, DispatchRefused,
          PublishAndReturn, IngestDispatch, IngestPublish, AckOrResolve, Escalate, Tick, vars
  <2>3. AuditInOrder'
    <3>1. ASSUME NEW c \in Callers, Publish(c),
                 c \in Routers => \A k \in DOMAIN audit : audit[k].by \in Routers => audit[k].id < call[c].id
          PROVE  AuditInOrder'
      <4> DEFINE new == [id |-> call[c].id, by |-> c]
      <4>1. audit' = Append(audit, new) /\ new.id = call[c].id /\ new.by = c
        BY <3>1 DEF Publish
      <4> HIDE DEF new
      <4>2. PICK n : n = Len(audit) + 1
        OBVIOUS
      <4>3. /\ n \in Nat /\ DOMAIN audit = 1..(n - 1) /\ DOMAIN audit' = DOMAIN audit \cup {n}
            /\ audit'[n] = new /\ \A k \in DOMAIN audit : audit'[k] = audit[k]
        <5>1. PICK S : audit \in Seq(S)
          BY DEF RecordsOK
        <5> QED
          BY <4>1, <4>2, <5>1, Appended
      <4> SUFFICES ASSUME NEW j \in DOMAIN audit', NEW k \in DOMAIN audit', j < k,
                          audit'[j].by \in Routers, audit'[k].by \in Routers
                   PROVE  audit'[j].id < audit'[k].id
        BY DEF AuditInOrder
      <4>4. j \in DOMAIN audit
        BY <4>3
      <4>5. CASE k \in DOMAIN audit
        BY <4>3, <4>4, <4>5 DEF OrderInv, AuditInOrder
      <4>6. CASE k = n
        BY <3>1, <4>1, <4>3, <4>4, <4>6
      <4> QED
        BY <4>3, <4>5, <4>6
    <3>2. ASSUME NEW c \in Routers, PublishAndReturn(c)
          PROVE  AuditInOrder'
      BY <3>1, <3>2 DEF PublishAndReturn, OrderInv, Youngest, Callers
    <3>3. ASSUME NEW c \in Ingesters, IngestPublish(c)
          PROVE  AuditInOrder'
      BY <3>1, <3>3, DisjointCallers DEF IngestPublish, Callers
    <3>4. CASE UNCHANGED audit
      BY <3>4 DEF OrderInv, AuditInOrder
    <3> QED
      BY <3>2, <3>3, <3>4
      DEF Next, Enter, AllowGranted, AllowDenied, Step, DispatchCreated, DispatchRefused, Fanout,
          IngestDispatch, Notify, AckOrResolve, Escalate, Receive, Tick, vars
  <2> QED
    BY <2>1, <2>2, <2>3 DEF OrderInv
<1> QED
  BY <1>1, <1>2, LockHeldInvariant, RecordsInvariant, CandidatesInvariant, StoreTypedHere, PTL DEF Spec

\* RoutedInOrder for any routers, ingesters and channels of any capacity.
THEOREM RoutersKeepOrder == Spec => []RoutedInOrder
<1>1. OrderInv => RoutedInOrder
  <2>1. TierChannels \subseteq Channels \ Sinks
    <3>1. \A r \in DOMAIN Listeners : Listeners[r] \subseteq Channels
      BY ListenerTypes
    <3> QED
      BY <3>1, Zenon DEF TierChannels
  <2> QED
    BY <2>1 DEF OrderInv, QueuesInOrder, RoutedInOrder
<1> QED
  BY <1>1, OrderInvariant, PTL

=============================================================================
