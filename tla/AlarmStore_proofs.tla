-------------------------- MODULE AlarmStore_proofs --------------------------
(***************************************************************************)
(* What holds of AlarmStore for every set of turbines, rules and sweeps.   *)
(***************************************************************************)
EXTENDS AlarmStore, SequenceTheorems, TLAPS

\* A status change touches the status of one alarm and nothing else.
LEMMA StatusProperties ==
  ASSUME NEW s \in Seq(Alarm), NEW i \in DOMAIN s, NEW st \in Status,
         NEW r, r = [s EXCEPT ![i].status = st]
  PROVE  /\ r \in Seq(Alarm)
         /\ DOMAIN r = DOMAIN s
         /\ r[i].status = st
         /\ \A j \in DOMAIN s : r[j].turbine = s[j].turbine /\ r[j].rule = s[j].rule
         /\ \A j \in DOMAIN s \ {i} : r[j] = s[j]
<1>1. i \in 1..Len(s) /\ s[i] \in Alarm
  BY ElementOfSeq
<1>2. [s[i] EXCEPT !.status = st] \in Alarm
  BY <1>1 DEF Alarm
<1>3. r = [s EXCEPT ![i] = [s[i] EXCEPT !.status = st]]
  OBVIOUS
<1>4. r \in Seq(Alarm)
  BY <1>1, <1>2, <1>3, ExceptSeq
<1> QED
  BY <1>1, <1>3, <1>4 DEF Alarm

\* A dispatched alarm is added at the end.
LEMMA DispatchProperties ==
  ASSUME NEW s \in Seq(Alarm), NEW a \in Alarm
  PROVE  /\ Append(s, a) \in Seq(Alarm)
         /\ DOMAIN Append(s, a) = DOMAIN s \cup {Len(s) + 1}
         /\ Append(s, a)[Len(s) + 1] = a
         /\ \A j \in DOMAIN s : Append(s, a)[j] = s[j]
<1>1. Len(s) \in Nat /\ DOMAIN s = 1..Len(s)
  BY LenProperties
<1>2. /\ Append(s, a) \in Seq(Alarm)
      /\ Len(Append(s, a)) = Len(s) + 1
      /\ Append(s, a)[Len(s) + 1] = a
      /\ \A j \in 1..Len(s) : Append(s, a)[j] = s[j]
  BY AppendProperties
<1>3. DOMAIN Append(s, a) = 1..(Len(s) + 1)
  BY <1>2, LenProperties
<1> QED
  BY <1>1, <1>2, <1>3

\* A step appends a candidate that no open alarm duplicates, or closes at most
\* one alarm, or leaves the store alone.
LEMMA StepShape ==
  ASSUME TypeOK, [Next]_vars
  PROVE  \/ \E t \in Turbines, r \in Rules : Dispatch(t, r) /\ UNCHANGED sweep
         \/ \E i \in DOMAIN alarms, st \in {"acknowledged", "resolved"} :
              alarms' = [alarms EXCEPT ![i].status = st]
         \/ alarms' = alarms
<1>1. ASSUME NEW e \in Sweeps, SweepNext(e)
      PROVE  \/ \E i \in DOMAIN alarms : alarms' = [alarms EXCEPT ![i].status = "acknowledged"]
             \/ alarms' = alarms
  BY <1>1 DEF SweepNext, Ack, SetStatus, TypeOK
<1> QED
  BY <1>1 DEF Next, Ack, Resolve, SetStatus, SweepList, vars

\* The store stays well formed, and no sweep ever holds an unknown id.
THEOREM TypeInvariant == Spec => []TypeOK
<1>1. Init => TypeOK
  BY DEF Init, TypeOK
<1>2. TypeOK /\ [Next]_vars => TypeOK'
  <2> SUFFICES ASSUME TypeOK, [Next]_vars PROVE TypeOK'
    OBVIOUS
  <2>1. alarms' \in Seq(Alarm) /\ DOMAIN alarms \subseteq DOMAIN alarms'
    <3>0. alarms \in Seq(Alarm)
      BY DEF TypeOK
    <3>1. CASE \E t \in Turbines, r \in Rules : Dispatch(t, r)
      <4> PICK t \in Turbines, r \in Rules : Dispatch(t, r)
        BY <3>1
      <4>1. NewAlarm(t, r) \in Alarm
        BY DEF NewAlarm, Alarm, Status
      <4> QED
        BY <3>0, <4>1, DispatchProperties DEF Dispatch
    <3>2. CASE \E i \in DOMAIN alarms, st \in {"acknowledged", "resolved"} :
                 alarms' = [alarms EXCEPT ![i].status = st]
      BY <3>0, <3>2, StatusProperties DEF Status
    <3>3. CASE alarms' = alarms
      BY <3>0, <3>3
    <3> QED
      BY <3>1, <3>2, <3>3, StepShape
  <2>2. sweep' \in [Sweeps -> SUBSET DOMAIN alarms]
    BY DEF TypeOK, Next, SweepList, SweepNext, OpenIds, vars
  <2> QED
    BY <2>1, <2>2 DEF TypeOK
<1> QED
  BY <1>1, <1>2, PTL DEF Spec

\* Among the open alarms the dedup key is a key: the check Dispatch makes
\* against them, and nothing ever reopening one, keep it so for ever.
THEOREM OneOpenAlarmPerKey == Spec => []OpenKeyUnique
<1>1. Init => OpenKeyUnique
  BY DEF Init, OpenKeyUnique, OpenIds
<1>2. TypeOK /\ OpenKeyUnique /\ [Next]_vars => OpenKeyUnique'
  <2> SUFFICES ASSUME TypeOK, OpenKeyUnique, [Next]_vars PROVE OpenKeyUnique'
    OBVIOUS
  <2>0. alarms \in Seq(Alarm)
    BY DEF TypeOK
  <2>1. CASE \E t \in Turbines, r \in Rules : Dispatch(t, r)
    <3> PICK t \in Turbines, r \in Rules : Dispatch(t, r)
      BY <2>1
    <3> DEFINE a == NewAlarm(t, r)
               n == Len(alarms) + 1
    <3>1. a \in Alarm
      BY DEF NewAlarm, Alarm, Status
    <3>2. /\ DOMAIN alarms' = DOMAIN alarms \cup {n}
          /\ alarms'[n] = a
          /\ \A j \in DOMAIN alarms : alarms'[j] = alarms[j]
      BY <2>0, <3>1, DispatchProperties DEF Dispatch
    <3>3. OpenIds' \subseteq OpenIds \cup {n}
      BY <3>2 DEF OpenIds
    <3>4. \A i \in OpenIds : Key(alarms[i]) # Key(a)
      BY DEF Dispatch, Suppress, OpenIds
    <3>5. \A i \in OpenIds : Key(alarms'[i]) = Key(alarms[i])
      BY <3>2 DEF OpenIds
    <3> QED
      BY <3>2, <3>3, <3>4, <3>5 DEF OpenKeyUnique
  <2>2. CASE \E i \in DOMAIN alarms, st \in {"acknowledged", "resolved"} :
               alarms' = [alarms EXCEPT ![i].status = st]
    <3> PICK i \in DOMAIN alarms, st \in {"acknowledged", "resolved"} :
               alarms' = [alarms EXCEPT ![i].status = st]
      BY <2>2
    <3>1. st \in Status
      BY DEF Status
    <3>2. /\ DOMAIN alarms' = DOMAIN alarms
          /\ alarms'[i].status = st
          /\ \A j \in DOMAIN alarms \ {i} : alarms'[j] = alarms[j]
      BY <2>0, <3>1, StatusProperties
    <3>3. OpenIds' \subseteq OpenIds \ {i}
      BY <3>2 DEF OpenIds
    <3>4. \A j \in OpenIds' : alarms'[j] = alarms[j]
      BY <3>2, <3>3 DEF OpenIds
    <3> QED
      BY <3>3, <3>4 DEF OpenKeyUnique
  <2>3. CASE alarms' = alarms
    BY <2>3 DEF OpenKeyUnique, OpenIds
  <2> QED
    BY <2>1, <2>2, <2>3, StepShape
<1> QED
  BY <1>1, <1>2, TypeInvariant, PTL DEF Spec

=============================================================================
