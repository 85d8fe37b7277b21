--------------------------- MODULE Requests_proofs ---------------------------
(***************************************************************************)
(* What holds of telemetry requests and of the rules that judge their      *)
(* samples, for every set of clients, bodies, rules and thresholds.        *)
(***************************************************************************)
EXTENDS TelemetryRequest, Rules, SequenceTheorems, FiniteSetTheorems,
        WellFoundedInduction, TLAPS

-----------------------------------------------------------------------------
(* Rules: latches.                                                         *)

Crossing(v) == v >= On \/ v <= Off

\* No reading of s left the band yet, or the last one that did tells.
LatchTells(s) ==
  \/ ~active[s] /\ \A i \in 1 .. Len(readings[s]) : ~Crossing(readings[s][i])
  \/ \E m \in 1 .. Len(readings[s]) :
       /\ Crossing(readings[s][m])
       /\ \A i \in m + 1 .. Len(readings[s]) : ~Crossing(readings[s][i])
       /\ active[s] <=> readings[s][m] >= On

LatchInv == /\ readings \in [Subjects -> Seq(Values)]
            /\ active \in [Subjects -> BOOLEAN]
            /\ \A s \in Subjects : LatchTells(s)

LEMMA LatchInitInv == LatchInit => LatchInv
BY EmptySeq DEF LatchInit, LatchInv, LatchTells

LEMMA LatchNextInv ==
  ASSUME LatchInv, [Latch]_latchVars
  PROVE  LatchInv'
<1>1. ASSUME NEW s \in Subjects, NEW v \in Values,
             active' = [active EXCEPT ![s] = LatchAfter(s, v)],
             readings' = [readings EXCEPT ![s] = Append(@, v)]
      PROVE  LatchInv'
  <2>1. PICK old : old = readings[s]
    OBVIOUS
  <2>2. old \in Seq(Values) /\ Len(old) \in Nat /\ \A i \in 1 .. Len(old) : old[i] \in Values
    BY <2>1, LenProperties, ElementOfSeq DEF LatchInv
  <2>3. PICK new : new = Append(old, v)
    OBVIOUS
  <2>4. /\ new \in Seq(Values) /\ Len(new) = Len(old) + 1 /\ new[Len(old) + 1] = v
        /\ \A i \in 1 .. Len(old) : new[i] = old[i]
    BY <2>2, <2>3, AppendProperties
  <2>5. \A r \in Subjects : readings'[r] = IF r = s THEN new ELSE readings[r]
    BY <1>1, <2>1, <2>3 DEF LatchInv
  <2>6. \A r \in Subjects : active'[r] = IF r = s THEN LatchAfter(s, v) ELSE active[r]
    BY <1>1 DEF LatchInv
  <2>7. readings' \in [Subjects -> Seq(Values)] /\ active' \in [Subjects -> BOOLEAN]
    <3>1. LatchAfter(s, v) \in BOOLEAN
      <4>1. LatchAfter(s, v) = TRUE \/ LatchAfter(s, v) = FALSE
        <5>1. CASE active[s]
          BY <5>1 DEF LatchAfter
        <5>2. CASE ~active[s]
          BY <5>2 DEF LatchAfter
        <5> QED
          BY <5>1, <5>2
      <4> QED
        BY <4>1
    <3>2. readings' \in [Subjects -> Seq(Values)]
      BY <1>1, <2>1, <2>3, <2>4 DEF LatchInv
    <3>3. active' \in [Subjects -> BOOLEAN]
      BY <1>1, <3>1 DEF LatchInv
    <3> QED
      BY <3>2, <3>3
  <2>8. ASSUME NEW r \in Subjects, r # s
        PROVE  LatchTells(r)'
    BY <2>5, <2>6, <2>8 DEF LatchInv, LatchTells
  <2>9. v \in Int /\ Off \in Int /\ On \in Int /\ Off < On
    BY ReadingTypes, LatchBand
  <2>10. LatchTells(s)'
    <3>1. CASE Crossing(v)
      <4>1. LatchAfter(s, v) <=> v >= On
        BY <2>9, <3>1 DEF Crossing, LatchAfter
      <4>2. /\ Len(old) + 1 \in 1 .. Len(new) /\ Crossing(new[Len(old) + 1])
            /\ \A i \in (Len(old) + 1) + 1 .. Len(new) : ~Crossing(new[i])
            /\ LatchAfter(s, v) <=> new[Len(old) + 1] >= On
        BY <2>2, <2>4, <3>1, <4>1
      <4> QED
        BY <4>2, <2>5, <2>6 DEF LatchTells
    <3>2. CASE ~Crossing(v)
      <4>1. LatchAfter(s, v) <=> active[s]
        BY <2>9, <3>2 DEF Crossing, LatchAfter
      <4>2. \A i \in 1 .. Len(new) : i \in 1 .. Len(old) \/ (i = Len(old) + 1 /\ ~Crossing(new[i]))
        BY <2>2, <2>4, <3>2
      <4>3. LatchTells(s)
        BY DEF LatchInv
      <4>4. CASE ~active[s] /\ \A i \in 1 .. Len(old) : ~Crossing(old[i])
        <5>1. \A i \in 1 .. Len(new) : ~Crossing(new[i])
          BY <4>2, <4>4, <2>4
        <5> QED
          BY <5>1, <4>1, <4>4, <2>5, <2>6 DEF LatchTells
      <4>5. ASSUME NEW m \in 1 .. Len(old), Crossing(old[m]),
                   \A i \in m + 1 .. Len(old) : ~Crossing(old[i]),
                   active[s] <=> old[m] >= On
            PROVE  LatchTells(s)'
        <5>1. m \in 1 .. Len(new) /\ new[m] = old[m]
          BY <2>2, <2>4
        <5>2. \A i \in m + 1 .. Len(new) : i \in m + 1 .. Len(old) \/ i = Len(old) + 1
          BY <2>2, <2>4
        <5>3. \A i \in m + 1 .. Len(old) : new[i] = old[i]
          BY <2>2, <2>4
        <5>4. \A i \in m + 1 .. Len(new) : ~Crossing(new[i])
          BY <5>2, <5>3, <4>5, <3>2, <2>4
        <5> QED
          BY <5>1, <5>4, <4>1, <4>5, <2>5, <2>6 DEF LatchTells
      <4> QED
        BY <4>3, <4>4, <4>5, <2>1 DEF LatchTells
    <3> QED
      BY <3>1, <3>2
  <2> QED
    BY <2>7, <2>8, <2>10 DEF LatchInv
<1>2. CASE UNCHANGED latchVars
  BY <1>2 DEF latchVars, LatchInv, LatchTells
<1> QED
  BY <1>1, <1>2 DEF Latch

\* For any thresholds and readings: a latch is on the side of the last reading
\* that left the band, however long ago that was.
THEOREM LatchesRememberCrossings == LatchSpec => []LatchIsLastCrossing
<1>1. ASSUME LatchInv, NEW s \in Subjects
      PROVE  active[s] <=> LastCrossing(s) # 0 /\ readings[s][LastCrossing(s)] >= On
  <2> DEFINE I == {i \in 1 .. Len(readings[s]) : Crossing(readings[s][i])}
  <2>1. LastCrossing(s) = IF I # {} THEN CHOOSE x \in I : \A y \in I : x >= y ELSE 0
    BY DEF LastCrossing, SelectLastInSeq, Max, Crossing
  <2>2. LatchTells(s) /\ Len(readings[s]) \in Nat
    BY <1>1, LenProperties DEF LatchInv
  <2>3. CASE I = {}
    BY <2>1, <2>2, <2>3 DEF LatchTells
  <2>4. CASE I # {}
    <3>1. PICK m \in 1 .. Len(readings[s]) :
            /\ Crossing(readings[s][m])
            /\ \A i \in m + 1 .. Len(readings[s]) : ~Crossing(readings[s][i])
            /\ active[s] <=> readings[s][m] >= On
      BY <2>2, <2>4 DEF LatchTells
    <3>2. m \in I /\ \A y \in I : m >= y
      BY <3>1, <2>2
    <3>3. \A x \in I : (\A y \in I : x >= y) => x = m
      BY <3>2, <2>2
    <3>4. LastCrossing(s) = m
      BY <2>1, <2>4, <3>2, <3>3
    <3> QED
      BY <3>1, <3>4
  <2> QED
    BY <2>3, <2>4
<1>2. LatchInv => LatchIsLastCrossing
  BY <1>1 DEF LatchIsLastCrossing
<1> QED
  BY <1>2, LatchInitInv, LatchNextInv, PTL DEF LatchSpec

-----------------------------------------------------------------------------
(* Rules: verdicts.                                                        *)

RulesInv == /\ \A id \in DOMAIN rules : rules[id] \in Rule
            /\ ruleOrder \in Seq(RuleIds)

LEMMA RulesInitInv == RulesInit => RulesInv
BY EmptySeq DEF RulesInit, RulesInv

LEMMA RulesNextInv ==
  ASSUME RulesInv, [RulesNext]_rulesVars
  PROVE  RulesInv'
<1>1. ASSUME NEW id \in RuleIds, NEW r \in RuleChoices,
             rules' = [i \in DOMAIN rules \cup {id} |-> IF i = id THEN r ELSE rules[i]],
             ruleOrder' = IF id \in DOMAIN rules THEN ruleOrder ELSE Append(ruleOrder, id)
      PROVE  RulesInv'
  <2>1. ruleOrder' \in Seq(RuleIds)
    BY <1>1, AppendProperties DEF RulesInv
  <2>2. \A i \in DOMAIN rules' : rules'[i] \in Rule
    BY <1>1, RuleTypes DEF RulesInv
  <2> QED
    BY <2>1, <2>2 DEF RulesInv
<1>2. CASE PutComposite
  BY <1>2 DEF PutComposite, RulesInv
<1>3. CASE UNCHANGED rulesVars
  BY <1>3 DEF rulesVars, RulesInv
<1> QED
  BY <1>1, <1>2, <1>3 DEF RulesNext, PutRule

\* What a rule with a positive threshold says of a valid sample it says of the
\* normalised one: only readings below zero change, and none of them reaches
\* or passes the threshold on either side.
THEOREM NormalisingKeepsVerdicts ==
  ASSUME NEW r \in Rule \cup RegisteredRule, NEW s \in ValidSamples, r.threshold > 0
  PROVE  Triggered(r, s) <=> Triggered(r, Normalize(s))
<1>1. /\ s.turbine \in RuleTurbines /\ s.value \in [Metric -> Values]
      /\ s = [turbine |-> s.turbine, value |-> s.value]
      /\ \A m \in DOMAIN Lowest : s.value[m] \in Lowest[m] .. MaxValue
  BY DEF ValidSamples, Sample, Validate
<1>2. PICK n : n = [m \in Metric |-> IF m # "gen_temp" /\ s.value[m] < 0 THEN 0 ELSE s.value[m]]
  OBVIOUS
<1>3. Normalize(s) = [turbine |-> s.turbine, value |-> n]
  BY <1>1, <1>2 DEF Normalize
<1>4. /\ r.threshold \in Int /\ r.operator \in {">=", "<="}
      /\ r.metric \in Metric \cup {"unknown"}
  BY DEF Rule, RegisteredRule
<1>5. AppliesTo(r, s.turbine) <=> AppliesTo(r, Normalize(s).turbine)
  BY <1>3
<1>6. compare(metricValue(s, r.metric), r.operator, r.threshold)
        <=> compare(metricValue(Normalize(s), r.metric), r.operator, r.threshold)
  <2>1. CASE r.metric \notin Metric
    BY <2>1 DEF metricValue
  <2>2. CASE r.metric \in Metric
    <3>1. PICK v \in Int : v = s.value[r.metric]
      BY <2>2, <1>1, ReadingTypes
    <3>2. metricValue(s, r.metric) = v /\ metricValue(Normalize(s), r.metric) = n[r.metric]
      BY <2>2, <3>1, <1>3 DEF metricValue
    <3>3. n[r.metric] = v \/ (v < 0 /\ n[r.metric] = 0)
      BY <2>2, <3>1, <1>2
    <3> QED
      BY <3>1, <3>2, <3>3, <1>4 DEF compare
  <2> QED
    BY <2>1, <2>2
<1> QED
  BY <1>5, <1>6 DEF Triggered

\* For any rules and any order of registrations: while its copies are fresh a
\* composite of all rules agrees with the evaluator, and normalising changes
\* no verdict.
THEOREM VerdictsAgree == RulesSpec => []OneVerdict
<1>1. ASSUME RulesInv, NEW id \in DOMAIN composites, Fresh(composites[id]), NEW s \in ValidSamples
      PROVE  CompositeHolds(composites[id], s)
               <=> IF composites[id].operator = "or" THEN Evaluate(s) # {}
                   ELSE Evaluate(s) = DOMAIN ruleOrder /\ ruleOrder # << >>
  <2>1. PICK c : c = composites[id]
    OBVIOUS
  <2>2. DOMAIN c.rules = DOMAIN ruleOrder
        /\ \A k \in DOMAIN ruleOrder : c.rules[k] = rules[ruleOrder[k]]
    BY <1>1, <2>1 DEF Fresh
  <2>3. Len(ruleOrder) \in Nat /\ DOMAIN ruleOrder = 1 .. Len(ruleOrder)
        /\ (ruleOrder = << >> <=> Len(ruleOrder) = 0)
    BY <1>1, LenProperties, EmptySeq DEF RulesInv
  <2>4. c.rules = << >> <=> ruleOrder = << >>
    <3>1. CASE ruleOrder = << >>
      BY <3>1, <1>1, <2>1 DEF Fresh
    <3>2. CASE ruleOrder # << >>
      <4>1. 1 \in DOMAIN c.rules
        BY <3>2, <2>2, <2>3
      <4> QED
        BY <4>1, <3>2
    <3> QED
      BY <3>1, <3>2
  <2>5. CASE c.operator = "or"
    <3>1. CompositeHolds(c, s) <=> (ruleOrder # << >> /\ \E k \in DOMAIN ruleOrder : Triggered(rules[ruleOrder[k]], s))
      BY <2>2, <2>4, <2>5 DEF CompositeHolds
    <3>2. Evaluate(s) # {} <=> \E k \in DOMAIN ruleOrder : Triggered(rules[ruleOrder[k]], s)
      BY DEF Evaluate
    <3>3. Evaluate(s) # {} => ruleOrder # << >>
      BY <3>2, <2>3
    <3> QED
      BY <3>1, <3>2, <3>3, <2>1, <2>5
  <2>6. CASE c.operator # "or"
    <3>1. CompositeHolds(c, s) <=> (ruleOrder # << >> /\ \A k \in DOMAIN ruleOrder : Triggered(rules[ruleOrder[k]], s))
      BY <2>2, <2>4, <2>6 DEF CompositeHolds
    <3>2. (Evaluate(s) = DOMAIN ruleOrder) <=> \A k \in DOMAIN ruleOrder : Triggered(rules[ruleOrder[k]], s)
      BY DEF Evaluate
    <3> QED
      BY <3>1, <3>2, <2>1, <2>6
  <2> QED
    BY <2>5, <2>6
<1>2. ASSUME RulesInv
      PROVE  OneVerdict
  <2>1. \A id \in DOMAIN rules : rules[id].threshold > 0 =>
          \A s \in ValidSamples : Triggered(rules[id], s) <=> Triggered(rules[id], Normalize(s))
    BY <1>2, NormalisingKeepsVerdicts DEF RulesInv
  <2> QED
    BY <1>1, <1>2, <2>1 DEF OneVerdict
<1> QED
  BY <1>2, RulesInitInv, RulesNextInv, PTL DEF RulesSpec

-----------------------------------------------------------------------------
(* Requests.                                                               *)

StoreLemmas == INSTANCE AlarmStore_proofs WITH
                 Turbines <- Named, Rules <- RuleNames,
                 Sweeps <- {}, sweep <- << >>,
                 MaxAlarms <- MaxClosed + Cardinality(RuleTurbines \X RuleNames)

RequestTypes ==
  /\ posts \in [Clients -> Nat]
  /\ DOMAIN handler = Posts /\ DOMAIN answer = Posts /\ DOMAIN closedBefore = Posts
  /\ alarms \in Seq(Alarms!Alarm)
  /\ log \in [Named -> Seq(Posts \X Nat)]

\* The handler's place and the answer of its ingestion tell the same.
HandlerIs(p) ==
  \/ handler[p] \in {Nobody, [at |-> "ingest"]} /\ answer[p] = "none"
  \/ handler[p] = [at |-> "failed"] /\ answer[p] = "error"
  \/ handler[p] = [at |-> "answered"] /\ answer[p] = "ok"
  \/ /\ \E left \in SUBSET Candidates[p[1]] : handler[p] = [at |-> "evaluate", left |-> left]
     /\ answer[p] = "ok"

\* Candidate c has its alarm, and the alarm was open at some moment since the post.
Raised(p, c) ==
  \E j \in DOMAIN alarms \ closedBefore[p] :
    Alarms!Key(alarms[j]) = Alarms!Key(AlarmFor(p[1], c))

\* The loops never come back to a candidate, so each they have passed has its alarm.
Served(p) ==
  /\ handler[p].at = "evaluate" => \A c \in Candidates[p[1]] \ handler[p].left : Raised(p, c)
  /\ handler[p].at = "answered" => \A c \in Candidates[p[1]] : Raised(p, c)

InLogOnce(p) == \A i \in Validated[p[1]] : \A m, n \in Log!Places(p, i) : m = n

InLogAll(p) ==
  answer[p] = "ok" /\ p \notin cancelled => \A i \in Validated[p[1]] : Log!Places(p, i) # {}

ClosedStaysClosed(p) == \A j \in closedBefore[p] : j \in DOMAIN alarms /\ alarms[j].status # "open"

PostInv(p) ==
  /\ p[2] > posts[p[1]] => handler[p] = Nobody
  /\ HandlerIs(p)
  /\ Served(p)
  /\ InLogOnce(p)
  /\ InLogAll(p)
  /\ ClosedStaysClosed(p)

RequestInv == RequestTypes /\ (\A p \in Posts : PostInv(p)) /\ AlarmHasReading

-----------------------------------------------------------------------------

LEMMA PostAt ==
  ASSUME NEW p \in Posts
  PROVE  p[1] \in Clients /\ p[2] \in 1 .. MaxPosts[p[1]] /\ p = <<p[1], p[2]>>
BY DEF Posts

LEMMA SampleAt ==
  ASSUME NEW k \in Clients, NEW i \in Validated[k]
  PROVE  /\ i \in Nat
         /\ Body[k][i] \in ValidSamples
         /\ Body[k][i].turbine \in Named
<1>1. PICK body : body = Body[k]
  OBVIOUS
<1>2. body \in Seq(Sample)
  BY <1>1, BodyTypes
<1>3. Len(body) \in Nat /\ DOMAIN body = 1 .. Len(body)
  BY <1>2, LenProperties
<1>4. i \in 1 .. Len(body) /\ Validate(body[i])
  BY <1>1, <1>3 DEF Validated
<1>5. i \in Nat
  BY <1>3, <1>4
<1>6. body[i] \in Sample
  BY <1>2, <1>4, ElementOfSeq
<1>7. body[i].turbine \in RuleTurbines
  BY <1>6 DEF Sample
<1>8. body[i].turbine # ""
  BY <1>4 DEF Validate
<1>9. body[i] \in ValidSamples
  BY <1>4, <1>6 DEF ValidSamples
<1> QED
  BY <1>1, <1>5, <1>7, <1>8, <1>9 DEF Named

LEMMA SameCardinality == \A S : Log!Cardinality(S) = Cardinality(S)
BY DEF Log!Cardinality, Cardinality

\* Every sample that gets past the validator names a turbine, so the pool meets none
\* that does not and loses no worker.
LEMMA BatchAt ==
  ASSUME NEW p \in Posts
  PROVE  /\ Log!Valid(p) = Validated[p[1]] /\ Log!Refused(p) = {}
         /\ DOMAIN Batches[p] = Validated[p[1]]
         /\ \A i \in Validated[p[1]] : Batches[p][i] \in Named /\ i \in Nat
<1>1. p[1] \in Clients
  BY PostAt
<1>2. Batches[p] = [i \in Validated[p[1]] |-> Body[p[1]][i].turbine]
  BY DEF Batches
<1>3. \A i \in Validated[p[1]] : Batches[p][i] \in Named /\ i \in Nat
  BY <1>1, <1>2, SampleAt
<1>4. Log!Valid(p) = Validated[p[1]] /\ Log!Refused(p) = {}
  <2>1. \A i \in Validated[p[1]] : Batches[p][i] # ""
    BY <1>3 DEF Named
  <2>2. Log!Samples(p) = Validated[p[1]]
    BY <1>2 DEF Log!Samples
  <2> QED
    BY <2>1, <2>2 DEF Log!Valid, Log!Refused
<1> QED
  BY <1>2, <1>3, <1>4

\* A candidate is an alarm the store takes.
LEMMA CandidateAlarm ==
  ASSUME NEW k \in Clients, NEW c \in Candidates[k]
  PROVE  /\ c \in Nat \X Nat
         /\ AlarmFor(k, c) \in Alarms!Alarm
         /\ AlarmFor(k, c).status = "open"
         /\ AlarmFor(k, c) = Alarms!NewAlarm(AlarmFor(k, c).turbine, AlarmFor(k, c).rule)
<1>1. c \in Validated[k] \X DOMAIN Registered
  BY DEF Candidates
<1>2. c[1] \in Validated[k] /\ c[2] \in DOMAIN Registered /\ c = <<c[1], c[2]>>
  BY <1>1
<1>3. c[1] \in Nat /\ Body[k][c[1]].turbine \in Named
  BY <1>2, SampleAt
<1>4. DOMAIN Registered = 1 .. Len(Registered) /\ Len(Registered) \in Nat
  BY RegisteredTypes, LenProperties
<1>5. c[2] \in Nat
  BY <1>2, <1>4
<1>6. Registered[c[2]].id \in RuleNames
  BY <1>2 DEF RuleNames, Range
<1>7. PICK t \in Named : t = Body[k][c[1]].turbine
  BY <1>3
<1>8. PICK r \in RuleNames : r = Registered[c[2]].id
  BY <1>6
<1>9. AlarmFor(k, c) = [turbine |-> t, rule |-> r, status |-> "open"]
  BY <1>7, <1>8 DEF AlarmFor, Alarms!NewAlarm
<1>10. AlarmFor(k, c) \in Alarms!Alarm
  <2>1. "open" \in Alarms!Status
    BY DEF Alarms!Status
  <2>2. [turbine |-> t, rule |-> r, status |-> "open"] \in Alarms!Alarm
    BY <2>1 DEF Alarms!Alarm
  <2> QED
    BY <2>2, <1>9
<1>11. PICK a : a = AlarmFor(k, c)
  OBVIOUS
<1>12. a.turbine = t /\ a.rule = r /\ a.status = "open"
  <2>1. a = [turbine |-> t, rule |-> r, status |-> "open"]
    BY <1>9, <1>11
  <2>2. a.turbine = t /\ a.rule = r
    BY <2>1
  <2>3. a.status = "open"
    BY <2>1
  <2> QED
    BY <2>2, <2>3
<1>13. a = Alarms!NewAlarm(a.turbine, a.rule)
  BY <1>9, <1>11, <1>12 DEF Alarms!NewAlarm
<1> QED
  BY <1>2, <1>3, <1>5, <1>10, <1>11, <1>12, <1>13

\* A set of natural numbers that is not empty has a least one.
LEMMA NatLeast ==
  ASSUME NEW S, S \subseteq Nat, S # {}
  PROVE  \E m \in S : \A y \in S : m <= y
<1>1. PICK m \in S : \A z \in S : ~(<<z, m>> \in OpToRel(<, Nat))
  BY NatLessThanWellFounded, WFMin
<1>2. ASSUME NEW z \in S, ~(m <= z)
      PROVE  FALSE
  <2>1. z \in Nat /\ m \in Nat /\ z < m
    BY <1>2
  <2>2. <<z, m>> \in OpToRel(<, Nat)
    BY <2>1 DEF OpToRel
  <2> QED
    BY <1>1, <2>2
<1> QED
  BY <1>2

\* The loops take a candidate as long as there is one.
LEMMA FirstIsLeft ==
  ASSUME NEW left, left \subseteq Nat \X Nat, left # {}
  PROVE  FirstOf(left) \in left
<1>1. PICK m \in {c[1] : c \in left} : \A y \in {c[1] : c \in left} : m <= y
  <2>1. {c[1] : c \in left} \subseteq Nat /\ {c[1] : c \in left} # {}
    OBVIOUS
  <2> QED
    BY <2>1, NatLeast
<1>2. PICK n \in {c[2] : c \in {d \in left : d[1] = m}} :
             \A y \in {c[2] : c \in {d \in left : d[1] = m}} : n <= y
  <2>1. /\ {c[2] : c \in {d \in left : d[1] = m}} \subseteq Nat
        /\ {c[2] : c \in {d \in left : d[1] = m}} # {}
    OBVIOUS
  <2> QED
    BY <2>1, NatLeast
<1>3. PICK c \in left : c[1] = m /\ c[2] = n
  BY <1>2
<1>4. ASSUME NEW d \in left
      PROVE  c[1] < d[1] \/ (c[1] = d[1] /\ c[2] <= d[2])
  <2>1. c[1] \in Nat /\ d[1] \in Nat /\ m <= d[1]
    BY <1>1
  <2>2. d[1] = m => n <= d[2]
    BY <1>2
  <2> QED
    BY <2>1, <2>2, <1>3
<1>5. \E e \in left : \A d \in left : e[1] < d[1] \/ (e[1] = d[1] /\ e[2] <= d[2])
  BY <1>4
<1> QED
  BY <1>5 DEF FirstOf

-----------------------------------------------------------------------------

\* What no step takes back: alarms stay and closed ones stay closed, ...
StoreKept ==
  /\ DOMAIN alarms \subseteq DOMAIN alarms'
  /\ \A j \in DOMAIN alarms : /\ alarms'[j].turbine = alarms[j].turbine
                              /\ alarms'[j].rule = alarms[j].rule
                              /\ alarms[j].status # "open" => alarms'[j].status # "open"

\* ... samples stay in the log, ...
LogKept == \A p \in Posts : \A i \in Validated[p[1]] : Log!Places(p, i) \subseteq Log!Places(p, i)'

\* ... and a handler whose samples are ingested keeps going.
HandlersKept ==
  \A p \in Posts : handler[p].at \in {"evaluate", "answered"} => handler'[p].at \in {"evaluate", "answered"}

\* Post p is where an alarm of turbine t and rule r may come from.
Source(p, t, r) ==
  /\ handler[p].at \in {"evaluate", "answered"}
  /\ \E c \in Candidates[p[1]] : t = AlarmFor(p[1], c).turbine /\ r = AlarmFor(p[1], c).rule
  /\ p \in cancelled \/ \A v \in Validated[p[1]] : Log!Places(p, v) # {}

LEMMA SourcesTell ==
  AlarmHasReading
    <=> \A j \in DOMAIN alarms : \E p \in Posts : Source(p, alarms[j].turbine, alarms[j].rule)
BY DEF AlarmHasReading, Source

\* Where a handler is tells what it holds.
LEMMA Phase ==
  ASSUME NEW p, HandlerIs(p)
  PROVE  /\ handler[p].at \in {"nowhere", "ingest"} => answer[p] = "none"
         /\ handler[p].at \in {"evaluate", "answered"} => answer[p] = "ok"
         /\ handler[p].at = "evaluate" =>
              /\ handler[p].left \subseteq Candidates[p[1]]
              /\ handler[p] = [at |-> "evaluate", left |-> handler[p].left]
<1>1. PICK h : h = handler[p]
  OBVIOUS
<1>2. CASE h \in {Nobody, [at |-> "ingest"]} /\ answer[p] = "none"
  <2>1. h.at = "nowhere" \/ h.at = "ingest"
    BY <1>2 DEF Nobody
  <2> QED
    BY <1>1, <1>2, <2>1
<1>3. CASE h = [at |-> "failed"] /\ answer[p] = "error"
  <2>1. h.at = "failed"
    BY <1>3
  <2> QED
    BY <1>1, <2>1
<1>4. CASE h = [at |-> "answered"] /\ answer[p] = "ok"
  <2>1. h.at = "answered"
    BY <1>4
  <2> QED
    BY <1>1, <1>4, <2>1
<1>5. ASSUME NEW left \in SUBSET Candidates[p[1]], h = [at |-> "evaluate", left |-> left], answer[p] = "ok"
      PROVE  /\ h.at = "evaluate" /\ h.left = left
             /\ h = [at |-> "evaluate", left |-> h.left]
  <2>1. h.at = "evaluate"
    BY <1>5
  <2>2. h.left = left
    BY <1>5
  <2> QED
    BY <1>5, <2>1, <2>2
<1> QED
  BY <1>1, <1>2, <1>3, <1>4, <1>5 DEF HandlerIs

LEMMA RaisedKept ==
  ASSUME StoreKept, NEW p, closedBefore'[p] = closedBefore[p], NEW c, Raised(p, c)
  PROVE  Raised(p, c)'
BY DEF StoreKept, Raised, Alarms!Key

\* A step that leaves a post alone keeps what is known of it.
LEMMA PostKept ==
  ASSUME NEW p \in Posts, PostInv(p), StoreKept, LogKept, InLogOnce(p)',
         handler'[p] = handler[p], answer'[p] = answer[p], closedBefore'[p] = closedBefore[p],
         cancelled \subseteq cancelled', posts[p[1]] \in Nat, posts'[p[1]] \in Nat,
         posts'[p[1]] >= posts[p[1]]
  PROVE  PostInv(p)'
<1>1. p[2] > posts'[p[1]] => handler'[p] = Nobody
  <2>1. p[2] \in Int
    BY PostAt, PostNumbers
  <2> QED
    BY <2>1 DEF PostInv
<1>2. HandlerIs(p)'
  BY DEF PostInv, HandlerIs
<1>3. Served(p)'
  BY RaisedKept DEF PostInv, Served
<1>4. InLogAll(p)'
  BY DEF PostInv, InLogAll, LogKept
<1>5. ClosedStaysClosed(p)'
  BY DEF PostInv, ClosedStaysClosed, StoreKept
<1> QED
  BY <1>1, <1>2, <1>3, <1>4, <1>5 DEF PostInv

\* The sources of the alarms there are stay.
LEMMA SourcesKept ==
  ASSUME RequestInv, StoreKept, LogKept, HandlersKept, cancelled \subseteq cancelled',
         NEW j \in DOMAIN alarms
  PROVE  (\E p \in Posts : Source(p, alarms[j].turbine, alarms[j].rule))'
<1>1. PICK p \in Posts : Source(p, alarms[j].turbine, alarms[j].rule)
  BY SourcesTell DEF RequestInv
<1>2. \A v \in Validated[p[1]] : Log!Places(p, v) # {} => Log!Places(p, v)' # {}
  BY DEF LogKept
<1>3. PICK t, r : t = alarms[j].turbine /\ r = alarms[j].rule
  OBVIOUS
<1>4. t = alarms'[j].turbine /\ r = alarms'[j].rule
  BY <1>3 DEF StoreKept
<1>5. Source(p, t, r)'
  BY <1>1, <1>2, <1>3 DEF Source, HandlersKept
<1> QED
  BY <1>4, <1>5

LEMMA NoLogChange ==
  ASSUME UNCHANGED log
  PROVE  LogKept /\ \A p \in Posts : InLogOnce(p) => InLogOnce(p)'
BY DEF LogKept, InLogOnce, Log!Places

LEMMA NoStoreChange ==
  ASSUME UNCHANGED alarms
  PROVE  StoreKept
BY DEF StoreKept

-----------------------------------------------------------------------------

\* A step that changes no alarm keeps every source.
LEMMA ReadingsKept ==
  ASSUME RequestInv, UNCHANGED alarms, LogKept, HandlersKept, cancelled \subseteq cancelled'
  PROVE  AlarmHasReading'
<1>1. \A j \in DOMAIN alarms' : (\E p \in Posts : Source(p, alarms[j].turbine, alarms[j].rule))'
  BY NoStoreChange, SourcesKept
<1> QED
  BY <1>1 DEF AlarmHasReading, Source

LEMMA PostKeeps ==
  ASSUME RequestInv, NEW k \in Clients, Post(k)
  PROVE  RequestInv'
<1>1. PICK p : p = <<k, posts[k] + 1>>
  OBVIOUS
<1>2. posts[k] \in Nat /\ posts[k] < MaxPosts[k] /\ MaxPosts[k] \in Nat
  BY PostNumbers DEF RequestInv, RequestTypes, Post
<1>3. p \in Posts /\ p[1] = k /\ p[2] = posts[k] + 1
  BY <1>1, <1>2 DEF Posts
<1>4. PostInv(p)
  BY <1>3 DEF RequestInv
<1>5. handler[p] = Nobody
  BY <1>2, <1>3, <1>4 DEF PostInv
<1>6. answer[p] = "none"
  <2>1. handler[p].at = "nowhere"
    BY <1>5 DEF Nobody
  <2> QED
    BY <2>1, <1>4, Phase DEF PostInv
<1>7. /\ handler' = [handler EXCEPT ![p] = [at |-> "ingest"]]
      /\ closedBefore' = [closedBefore EXCEPT ![p] = DOMAIN alarms \ Alarms!OpenIds]
      /\ posts' = [posts EXCEPT ![k] = @ + 1]
      /\ UNCHANGED <<log, answer, cancelled, alarms>>
  BY <1>1 DEF Post, Go, ingestVars
<1>8. RequestTypes'
  <2>1. posts \in [Clients -> Nat]
    BY DEF RequestInv, RequestTypes
  <2>2. posts' \in [Clients -> Nat]
    <3>1. posts' = [posts EXCEPT ![k] = posts[k] + 1] /\ posts[k] + 1 \in Nat
      BY <1>2, <1>7
    <3> QED
      BY <2>1, <3>1
  <2> QED
    BY <2>2, <1>7 DEF RequestInv, RequestTypes
<1>9. StoreKept /\ LogKept /\ \A q \in Posts : InLogOnce(q) => InLogOnce(q)'
  BY <1>7, NoLogChange, NoStoreChange
<1>10. handler'[p] = [at |-> "ingest"] /\ \A q \in Posts \ {p} : handler'[q] = handler[q]
  BY <1>3, <1>7 DEF RequestInv, RequestTypes
<1>11. posts'[k] = posts[k] + 1 /\ \A i \in Clients : posts[i] \in Nat /\ posts'[i] \in Nat /\ posts'[i] >= posts[i]
  <2>1. posts \in [Clients -> Nat]
    BY DEF RequestInv, RequestTypes
  <2>2. posts'[k] = posts[k] + 1 /\ \A i \in Clients \ {k} : posts'[i] = posts[i]
    BY <2>1, <1>7
  <2> QED
    BY <2>1, <2>2
<1>12. ASSUME NEW q \in Posts \ {p}
       PROVE  PostInv(q)'
  <2>1. PostInv(q) /\ InLogOnce(q)'
    BY <1>9 DEF RequestInv, PostInv
  <2>2. closedBefore'[q] = closedBefore[q] /\ answer'[q] = answer[q] /\ handler'[q] = handler[q]
    BY <1>7, <1>10 DEF RequestInv, RequestTypes
  <2>3. q[1] \in Clients
    BY PostAt
  <2> QED
    BY <2>1, <2>2, <2>3, <1>7, <1>9, <1>11, PostKept
<1>13. PostInv(p)'
  <2>1. ~(p[2] > posts'[p[1]])
    BY <1>2, <1>3, <1>11
  <2>2. HandlerIs(p)'
    BY <1>6, <1>7, <1>10 DEF HandlerIs
  <2>3. handler'[p].at = "ingest"
    BY <1>10
  <2>4. Served(p)'
    BY <2>3 DEF Served
  <2>5. InLogOnce(p)'
    BY <1>3, <1>4, <1>9 DEF PostInv
  <2>6. InLogAll(p)'
    BY <1>6, <1>7 DEF InLogAll
  <2>7. closedBefore'[p] = DOMAIN alarms \ Alarms!OpenIds
    BY <1>3, <1>7 DEF RequestInv, RequestTypes
  <2>8. ClosedStaysClosed(p)'
    BY <2>7, <1>7 DEF ClosedStaysClosed, Alarms!OpenIds
  <2> QED
    BY <2>1, <2>2, <2>4, <2>5, <2>6, <2>8 DEF PostInv
<1>14. HandlersKept
  <2>1. ~(handler[p].at \in {"evaluate", "answered"})
    <3>1. handler[p].at = "nowhere"
      BY <1>5 DEF Nobody
    <3> QED
      BY <3>1
  <2> QED
    BY <2>1, <1>10 DEF HandlersKept
<1>15. AlarmHasReading'
  BY <1>7, <1>9, <1>14, ReadingsKept
<1> QED
  BY <1>8, <1>12, <1>13, <1>15 DEF RequestInv

\* A client that gives up takes back a promise and nothing else.
LEMMA GiveUpKeeps ==
  ASSUME RequestInv, NEW p \in Posts, GiveUp(p)
  PROVE  RequestInv'
<1>1. cancelled \subseteq cancelled' /\ UNCHANGED <<log, answer, alarms, posts, handler, closedBefore>>
  BY DEF GiveUp, Log!Cancel
<1>2. RequestTypes'
  BY <1>1 DEF RequestInv, RequestTypes
<1>3. StoreKept /\ LogKept /\ HandlersKept /\ \A q \in Posts : InLogOnce(q) => InLogOnce(q)'
  BY <1>1, NoLogChange, NoStoreChange DEF HandlersKept
<1>4. ASSUME NEW q \in Posts
      PROVE  PostInv(q)'
  <2>1. PostInv(q) /\ InLogOnce(q)'
    BY <1>3 DEF RequestInv, PostInv
  <2>2. posts[q[1]] \in Nat
    BY PostAt DEF RequestInv, RequestTypes
  <2> QED
    BY <2>1, <2>2, <1>1, <1>3, PostKept
<1> QED
  BY <1>1, <1>2, <1>3, <1>4, ReadingsKept DEF RequestInv

\* A step of one handler that leaves the log, the posts and what was closed alone.
HandlerStep(p, next) ==
  /\ handler' = [handler EXCEPT ![p] = next]
  /\ UNCHANGED <<log, cancelled, posts, closedBefore>>
  /\ \A q \in Posts \ {p} : answer'[q] = answer[q]
  /\ DOMAIN answer' = Posts

LEMMA OthersKept ==
  ASSUME RequestInv, NEW p \in Posts, NEW next, HandlerStep(p, next), StoreKept
  PROVE  /\ handler'[p] = next
         /\ \A q \in Posts \ {p} : handler'[q] = handler[q] /\ PostInv(q)'
         /\ LogKept /\ InLogOnce(p)' /\ ClosedStaysClosed(p)'
         /\ p[2] <= posts'[p[1]] \/ handler[p] = Nobody
<1>1. LogKept /\ \A q \in Posts : InLogOnce(q) => InLogOnce(q)'
  BY NoLogChange DEF HandlerStep
<1>2. handler'[p] = next /\ \A q \in Posts \ {p} : handler'[q] = handler[q]
  BY DEF HandlerStep, RequestInv, RequestTypes
<1>3. ASSUME NEW q \in Posts \ {p}
      PROVE  PostInv(q)'
  <2>1. PostInv(q) /\ InLogOnce(q)'
    BY <1>1 DEF RequestInv, PostInv
  <2>2. posts[q[1]] \in Nat
    BY PostAt DEF RequestInv, RequestTypes
  <2> QED
    BY <2>1, <2>2, <1>1, <1>2, PostKept DEF HandlerStep
<1>4. ClosedStaysClosed(p)'
  BY DEF RequestInv, PostInv, ClosedStaysClosed, HandlerStep, StoreKept
<1>5. p[2] <= posts'[p[1]] \/ handler[p] = Nobody
  <2>1. p[2] \in Int
    BY PostAt
  <2>2. posts[p[1]] \in Nat
    BY PostAt DEF RequestInv, RequestTypes
  <2> QED
    BY <2>1, <2>2 DEF HandlerStep, RequestInv, PostInv
<1> QED
  BY <1>1, <1>2, <1>3, <1>4, <1>5 DEF RequestInv, PostInv

\* A handler that is somewhere has its post counted.
LEMMA NotPosted ==
  ASSUME RequestInv, NEW p \in Posts, NEW next, HandlerStep(p, next), StoreKept, RequestTypes',
         handler[p].at \in {"ingest", "evaluate"}
  PROVE  p[2] > posts'[p[1]] => handler'[p] = Nobody
<1>1. handler[p] # Nobody
  <2>1. Nobody.at = "nowhere"
    BY DEF Nobody
  <2> QED
    BY <2>1
<1>2. p[2] <= posts'[p[1]]
  BY <1>1, OthersKept
<1>3. p[2] \in Int /\ posts'[p[1]] \in Nat
  <2>1. p[2] \in Int /\ p[1] \in Clients
    BY PostAt
  <2>2. posts' \in [Clients -> Nat]
    BY DEF RequestTypes
  <2> QED
    BY <2>1, <2>2
<1> QED
  BY <1>2, <1>3

\* The sample goes into the log of its turbine, where it was not before, and every
\* other sample stays where it is.
LEMMA IngestKeeps ==
  ASSUME RequestInv, NEW p \in Posts, Ingest(p)
  PROVE  RequestInv'
<1>1. PICK i \in Log!Valid(p) : Log!AppendSample(p, i)
  BY DEF Ingest
<1>2. i \in Validated[p[1]] /\ i \in Nat /\ Log!Places(p, i) = {}
  BY <1>1, BatchAt DEF Log!AppendSample, Log!Appended
<1>3. PICK t \in Named : t = Batches[p][i]
  BY <1>2, BatchAt
<1>4. PICK old : old = log[t]
  OBVIOUS
<1>5. PICK new : new = Append(old, <<p, i>>)
  OBVIOUS
<1>6. /\ log' = [log EXCEPT ![t] = new]
      /\ UNCHANGED <<answer, cancelled, alarms, posts, handler, closedBefore>>
  BY <1>1, <1>3, <1>4, <1>5 DEF Log!AppendSample, Ingest
<1>7. old \in Seq(Posts \X Nat) /\ Len(old) \in Nat /\ DOMAIN old = 1 .. Len(old)
  BY <1>4, LenProperties DEF RequestInv, RequestTypes
<1>8. <<p, i>> \in Posts \X Nat
  BY <1>2
<1>9. new \in Seq(Posts \X Nat) /\ Len(new) = Len(old) + 1 /\ new[Len(old) + 1] = <<p, i>>
      /\ \A n \in 1 .. Len(old) : new[n] = old[n]
  <2>1. PICK S : S = Posts \X Nat
    OBVIOUS
  <2>2. PICK e \in S : e = <<p, i>>
    BY <2>1, <1>8
  <2>3. old \in Seq(S) /\ new = Append(old, e)
    BY <2>1, <2>2, <1>5, <1>7
  <2>4. new \in Seq(S) /\ Len(new) = Len(old) + 1 /\ new[Len(old) + 1] = e
        /\ \A n \in 1 .. Len(old) : new[n] = old[n]
    BY <2>3, AppendProperties
  <2> QED
    BY <2>1, <2>2, <2>4
<1>10. DOMAIN new = 1 .. Len(old) + 1
  BY <1>9, LenProperties
<1>11. log' \in [Named -> Seq(Posts \X Nat)]
       /\ log'[t] = new /\ \A u \in Named \ {t} : log'[u] = log[u]
  BY <1>6, <1>9 DEF RequestInv, RequestTypes
<1>12. RequestTypes'
  BY <1>6, <1>11 DEF RequestInv, RequestTypes
<1>13. ASSUME NEW q \in Posts, NEW v \in Validated[q[1]]
       PROVE  /\ Log!Places(q, v) \subseteq Log!Places(q, v)'
              /\ \A n \in Log!Places(q, v)' :
                   n \in Log!Places(q, v) \/ (q = p /\ v = i /\ n = Len(old) + 1)
  <2>1. PICK u \in Named : u = Batches[q][v]
    BY BatchAt
  <2>2. /\ Log!Places(q, v) = {n \in DOMAIN log[u] : log[u][n] = <<q, v>>}
        /\ Log!Places(q, v)' = {n \in DOMAIN log'[u] : log'[u][n] = <<q, v>>}
    BY <2>1 DEF Log!Places
  <2>3. CASE u # t
    BY <2>2, <2>3, <1>11
  <2>4. CASE u = t
    <3>0. PICK l \in Nat : l = Len(old)
      BY <1>7
    <3>1. \A n \in DOMAIN new : n \in DOMAIN old \/ n = Len(old) + 1
      <4>1. \A n \in 1 .. l + 1 : n \in 1 .. l \/ n = l + 1
        OBVIOUS
      <4> QED
        BY <4>1, <3>0, <1>7, <1>10
    <3>2. \A n \in DOMAIN old : n \in DOMAIN new /\ new[n] = old[n]
      <4>1. \A n \in 1 .. l : n \in 1 .. l + 1
        OBVIOUS
      <4> QED
        BY <4>1, <3>0, <1>7, <1>9, <1>10
    <3>3. <<p, i>> = <<q, v>> => q = p /\ v = i
      OBVIOUS
    <3> QED
      BY <2>2, <2>4, <3>1, <3>2, <3>3, <1>4, <1>9, <1>11
  <2> QED
    BY <2>3, <2>4
<1>14. LogKept
  BY <1>13 DEF LogKept
<1>15. ASSUME NEW q \in Posts
       PROVE  InLogOnce(q)'
  <2>1. InLogOnce(q)
    BY DEF RequestInv, PostInv
  <2>2. ASSUME NEW v \in Validated[q[1]], NEW m \in Log!Places(q, v)', NEW n \in Log!Places(q, v)'
        PROVE  m = n
    <3>1. CASE q = p /\ v = i
      BY <3>1, <2>2, <1>2, <1>13
    <3>2. CASE ~(q = p /\ v = i)
      BY <3>2, <2>1, <2>2, <1>13 DEF InLogOnce
    <3> QED
      BY <3>1, <3>2
  <2> QED
    BY <2>2 DEF InLogOnce
<1>16. StoreKept /\ HandlersKept
  BY <1>6, NoStoreChange DEF HandlersKept
<1>17. ASSUME NEW q \in Posts
       PROVE  PostInv(q)'
  <2>1. PostInv(q)
    BY DEF RequestInv
  <2>2. posts[q[1]] \in Nat
    BY PostAt DEF RequestInv, RequestTypes
  <2>3. posts'[q[1]] \in Nat /\ posts'[q[1]] >= posts[q[1]]
    BY <2>2, <1>6
  <2>4. handler'[q] = handler[q] /\ answer'[q] = answer[q] /\ closedBefore'[q] = closedBefore[q]
        /\ cancelled \subseteq cancelled'
    BY <1>6
  <2> QED
    BY <2>1, <2>2, <2>3, <2>4, <1>14, <1>15, <1>16, PostKept
<1>18. AlarmHasReading'
  BY <1>6, <1>14, <1>16, ReadingsKept
<1> QED
  BY <1>12, <1>17, <1>18 DEF RequestInv

\* Ingest returns without an error only when nothing is missing or the client gave up.
LEMMA IngestedKeeps ==
  ASSUME RequestInv, NEW p \in Posts, Ingested(p)
  PROVE  RequestInv'
<1>1. PICK next : next = [at |-> "evaluate", left |-> Candidates[p[1]]]
  OBVIOUS
<1>2. /\ handler' = [handler EXCEPT ![p] = next]
      /\ answer' = [answer EXCEPT ![p] = "ok"]
      /\ UNCHANGED <<log, cancelled, alarms, posts, closedBefore>>
      /\ handler[p].at = "ingest"
  BY <1>1 DEF Ingested, Go, Log!ReturnOk
<1>3. HandlerStep(p, next) /\ StoreKept
  BY <1>2, NoStoreChange DEF HandlerStep, RequestInv, RequestTypes
<1>4. RequestTypes'
  BY <1>2 DEF RequestInv, RequestTypes
<1>5. /\ handler'[p] = next /\ LogKept /\ InLogOnce(p)' /\ ClosedStaysClosed(p)'
      /\ \A q \in Posts \ {p} : handler'[q] = handler[q] /\ PostInv(q)'
  BY <1>3, OthersKept
<1>6. next.at = "evaluate" /\ next.left = Candidates[p[1]]
  BY <1>1
<1>7. answer'[p] = "ok"
  BY <1>2 DEF RequestInv, RequestTypes
<1>8. PostInv(p)'
  <2>1. p[2] > posts'[p[1]] => handler'[p] = Nobody
    BY <1>2, <1>3, <1>4, NotPosted
  <2>2. HandlerIs(p)'
    BY <1>1, <1>5, <1>7 DEF HandlerIs
  <2>3. Served(p)'
    <3>1. handler'[p].at = "evaluate" /\ handler'[p].left = Candidates[p[1]]
      BY <1>5, <1>6
    <3> QED
      BY <3>1 DEF Served
  <2>4. InLogAll(p)'
    <3>1. Log!Appended(p) = Log!Valid(p) \/ p \in cancelled
      <4>1. Cardinality(Log!Refused(p)) = 0
        BY BatchAt, FS_EmptySet
      <4>2. ~(Cardinality(Log!Refused(p)) >= PoolSize)
        BY <4>1, PostNumbers
      <4>3. ~(p \in cancelled) => ~Log!MayLose(p)
        BY <4>2, SameCardinality DEF Log!MayLose
      <4>4. Log!Appended(p) = Log!Valid(p) \/ Log!MayLose(p)
        BY DEF Ingested, Log!ReturnOk
      <4> QED
        BY <4>3, <4>4
    <3>2. p \notin cancelled => \A i \in Validated[p[1]] : Log!Places(p, i) # {}
      BY <3>1, BatchAt DEF Log!Appended
    <3> QED
      BY <3>2, <1>2, <1>5 DEF InLogAll, LogKept
  <2> QED
    BY <2>1, <2>2, <2>3, <2>4, <1>5 DEF PostInv
<1>9. HandlersKept
  BY <1>5, <1>6 DEF HandlersKept
<1>10. AlarmHasReading'
  BY <1>2, <1>5, <1>9, ReadingsKept
<1> QED
  BY <1>4, <1>5, <1>8, <1>10 DEF RequestInv

LEMMA IngestFailedKeeps ==
  ASSUME RequestInv, NEW p \in Posts, IngestFailed(p)
  PROVE  RequestInv'
<1>1. PICK next : next = [at |-> "failed"]
  OBVIOUS
<1>2. /\ handler' = [handler EXCEPT ![p] = next]
      /\ answer' = [answer EXCEPT ![p] = "error"]
      /\ UNCHANGED <<log, cancelled, alarms, posts, closedBefore>>
      /\ handler[p].at = "ingest"
  BY <1>1 DEF IngestFailed, Go, Log!ReturnError
<1>3. HandlerStep(p, next) /\ StoreKept
  BY <1>2, NoStoreChange DEF HandlerStep, RequestInv, RequestTypes
<1>4. RequestTypes'
  BY <1>2 DEF RequestInv, RequestTypes
<1>5. /\ handler'[p] = next /\ LogKept /\ InLogOnce(p)' /\ ClosedStaysClosed(p)'
      /\ \A q \in Posts \ {p} : handler'[q] = handler[q] /\ PostInv(q)'
  BY <1>3, OthersKept
<1>6. next.at = "failed"
  BY <1>1
<1>7. answer'[p] = "error"
  BY <1>2 DEF RequestInv, RequestTypes
<1>8. PostInv(p)'
  <2>1. p[2] > posts'[p[1]] => handler'[p] = Nobody
    BY <1>2, <1>3, <1>4, NotPosted
  <2>2. HandlerIs(p)'
    BY <1>1, <1>5, <1>7 DEF HandlerIs
  <2>3. Served(p)'
    <3>1. handler'[p].at = "failed"
      BY <1>5, <1>6
    <3> QED
      BY <3>1 DEF Served
  <2>4. InLogAll(p)'
    BY <1>7 DEF InLogAll
  <2> QED
    BY <2>1, <2>2, <2>3, <2>4, <1>5 DEF PostInv
<1>9. HandlersKept
  BY <1>2, <1>5 DEF HandlersKept
<1>10. AlarmHasReading'
  BY <1>2, <1>5, <1>9, ReadingsKept
<1> QED
  BY <1>4, <1>5, <1>8, <1>10 DEF RequestInv

\* Dispatch adds the candidate's alarm, or leaves the store alone because an alarm
\* with its key is open: either way one is there that was not closed at the post.
LEMMA StoreAfter ==
  ASSUME RequestInv, NEW p \in Posts, NEW a \in Alarms!Alarm, a = Alarms!NewAlarm(a.turbine, a.rule),
         a.status = "open",
         Alarms!Dispatch(a.turbine, a.rule) \/ (Alarms!Suppress(a, Alarms!OpenIds) /\ UNCHANGED alarms)
  PROVE  /\ alarms' \in Seq(Alarms!Alarm) /\ StoreKept
         /\ \E j \in DOMAIN alarms' \ closedBefore[p] : Alarms!Key(alarms'[j]) = Alarms!Key(a)
         /\ \A j \in DOMAIN alarms' \ DOMAIN alarms : alarms'[j] = a
<1>1. alarms \in Seq(Alarms!Alarm) /\ ClosedStaysClosed(p)
  BY DEF RequestInv, RequestTypes, PostInv
<1>2. CASE Alarms!Dispatch(a.turbine, a.rule)
  <2>1. alarms' = Append(alarms, a)
    BY <1>2 DEF Alarms!Dispatch
  <2>2. Len(alarms) \in Nat /\ DOMAIN alarms = 1 .. Len(alarms)
    BY <1>1, LenProperties
  <2>3. PICK n \in Nat : n = Len(alarms) + 1
    BY <2>2
  <2>4. /\ alarms' \in Seq(Alarms!Alarm)
        /\ DOMAIN alarms' = DOMAIN alarms \cup {n}
        /\ alarms'[n] = a
        /\ \A j \in DOMAIN alarms : alarms'[j] = alarms[j]
    BY <1>1, <2>1, <2>3, StoreLemmas!DispatchProperties DEF Alarms!Alarm, Alarms!Status, StoreLemmas!Alarm, StoreLemmas!Status
  <2>5. n \notin DOMAIN alarms
    BY <2>2, <2>3
  <2>6. n \notin closedBefore[p]
    BY <2>5, <1>1 DEF ClosedStaysClosed
  <2>7. StoreKept
    BY <2>4 DEF StoreKept
  <2> QED
    BY <2>4, <2>6, <2>7
<1>3. CASE Alarms!Suppress(a, Alarms!OpenIds) /\ UNCHANGED alarms
  <2>1. PICK j \in Alarms!OpenIds : Alarms!Key(alarms[j]) = Alarms!Key(a)
    BY <1>3 DEF Alarms!Suppress
  <2>2. j \in DOMAIN alarms /\ j \notin closedBefore[p]
    BY <1>1 DEF ClosedStaysClosed, Alarms!OpenIds
  <2> QED
    BY <1>1, <1>3, <2>1, <2>2, NoStoreChange
<1> QED
  BY <1>2, <1>3

LEMMA DispatchKeeps ==
  ASSUME RequestInv, NEW p \in Posts, Dispatch(p)
  PROVE  RequestInv'
<1>1. PostInv(p) /\ HandlerIs(p) /\ p[1] \in Clients /\ handler[p].at = "evaluate"
  BY PostAt DEF RequestInv, PostInv, Dispatch
<1>2. PICK left : left = handler[p].left
  OBVIOUS
<1>3. left \subseteq Candidates[p[1]] /\ left # {} /\ handler[p] = [at |-> "evaluate", left |-> left]
      /\ answer[p] = "ok"
  BY <1>1, <1>2, Phase DEF Dispatch
<1>4. PICK c : c = FirstOf(left)
  OBVIOUS
<1>5. c \in left
  <2>1. left \subseteq Nat \X Nat
    BY <1>1, <1>3, CandidateAlarm
  <2> QED
    BY <2>1, <1>3, <1>4, FirstIsLeft
<1>6. PICK a \in Alarms!Alarm : a = AlarmFor(p[1], c)
  BY <1>1, <1>3, <1>5, CandidateAlarm
<1>7. a = Alarms!NewAlarm(a.turbine, a.rule) /\ a.status = "open"
  BY <1>1, <1>3, <1>5, <1>6, CandidateAlarm
<1>8. PICK next : next = [at |-> "evaluate", left |-> left \ {c}]
  OBVIOUS
<1>9. /\ handler' = [handler EXCEPT ![p] = next]
      /\ UNCHANGED <<log, answer, cancelled, posts, closedBefore>>
  <2>1. handler' = [handler EXCEPT ![p] = [handler[p] EXCEPT !.left = @ \ {c}]]
    BY <1>2, <1>4 DEF Dispatch, Go
  <2>2. PICK h : h = handler[p]
    OBVIOUS
  <2>3. h = [at |-> "evaluate", left |-> left]
    BY <1>3, <2>2
  <2>4. [h EXCEPT !.left = @ \ {c}] = next
    BY <2>3, <1>8
  <2> QED
    BY <2>1, <2>2, <2>4 DEF Dispatch, ingestVars
<1>10. Alarms!Dispatch(a.turbine, a.rule) \/ (Alarms!Suppress(a, Alarms!OpenIds) /\ UNCHANGED alarms)
  BY <1>2, <1>4, <1>6 DEF Dispatch
<1>11. /\ alarms' \in Seq(Alarms!Alarm) /\ StoreKept
       /\ \E j \in DOMAIN alarms' \ closedBefore[p] : Alarms!Key(alarms'[j]) = Alarms!Key(a)
       /\ \A j \in DOMAIN alarms' \ DOMAIN alarms : alarms'[j] = a
  BY <1>7, <1>10, StoreAfter
<1>12. HandlerStep(p, next)
  BY <1>9 DEF HandlerStep, RequestInv, RequestTypes
<1>13. RequestTypes'
  BY <1>9, <1>11 DEF RequestInv, RequestTypes
<1>14. /\ handler'[p] = next /\ LogKept /\ InLogOnce(p)' /\ ClosedStaysClosed(p)'
       /\ \A q \in Posts \ {p} : handler'[q] = handler[q] /\ PostInv(q)'
  BY <1>11, <1>12, OthersKept
<1>15. next.at = "evaluate" /\ next.left = left \ {c}
  <2>1. next.at = "evaluate"
    BY <1>8
  <2>2. next.left = left \ {c}
    BY <1>8
  <2> QED
    BY <2>1, <2>2
<1>16. PostInv(p)'
  <2>1. p[2] > posts'[p[1]] => handler'[p] = Nobody
    BY <1>1, <1>12, <1>11, <1>13, NotPosted
  <2>2. HandlerIs(p)'
    <3>1. left \ {c} \in SUBSET Candidates[p[1]]
      BY <1>3
    <3>2. answer'[p] = "ok"
      BY <1>3, <1>9
    <3> QED
      BY <3>1, <3>2, <1>8, <1>14 DEF HandlerIs
  <2>3. Served(p)'
    <3>1. handler'[p].at = "evaluate" /\ handler'[p].left = left \ {c}
      BY <1>14, <1>15
    <3>2. Raised(p, c)'
      BY <1>6, <1>9, <1>11 DEF Raised
    <3>3. ASSUME NEW d \in Candidates[p[1]] \ left
          PROVE  Raised(p, d)'
      <4>1. Raised(p, d)
        BY <1>1, <1>2 DEF PostInv, Served
      <4> QED
        BY <4>1, <1>9, <1>11, RaisedKept
    <3> QED
      BY <3>1, <3>2, <3>3 DEF Served
  <2>4. InLogAll(p)'
    BY <1>1, <1>9, <1>14 DEF PostInv, InLogAll, LogKept
  <2> QED
    BY <2>1, <2>2, <2>3, <2>4, <1>14 DEF PostInv
<1>17. HandlersKept
  BY <1>14, <1>15 DEF HandlersKept
<1>18. AlarmHasReading'
  <2>1. ASSUME NEW j \in DOMAIN alarms'
        PROVE  (\E q \in Posts : Source(q, alarms[j].turbine, alarms[j].rule))'
    <3>1. CASE j \in DOMAIN alarms
      BY <3>1, <1>9, <1>11, <1>14, <1>17, SourcesKept
    <3>2. CASE j \notin DOMAIN alarms
      <4>1. alarms'[j] = a
        BY <3>2, <1>11
      <4>2. p \in cancelled' \/ \A v \in Validated[p[1]] : Log!Places(p, v)' # {}
        BY <1>1, <1>3, <1>9, <1>14 DEF PostInv, InLogAll, LogKept
      <4>3. handler'[p].at = "evaluate"
        BY <1>14, <1>15
      <4>4. c \in Candidates[p[1]]
        BY <1>3, <1>5
      <4>5. Source(p, alarms[j].turbine, alarms[j].rule)'
        BY <4>1, <4>2, <4>3, <4>4, <1>6 DEF Source
      <4> QED
        BY <4>5
    <3> QED
      BY <3>1, <3>2
  <2> QED
    BY <2>1 DEF AlarmHasReading, Source
<1> QED
  BY <1>13, <1>14, <1>16, <1>18 DEF RequestInv

LEMMA AnswerKeeps ==
  ASSUME RequestInv, NEW p \in Posts, Answer(p)
  PROVE  RequestInv'
<1>1. PICK next : next = [at |-> "answered"]
  OBVIOUS
<1>2. /\ handler' = [handler EXCEPT ![p] = next]
      /\ UNCHANGED <<log, answer, cancelled, alarms, posts, closedBefore>>
      /\ handler[p].at = "evaluate" /\ handler[p].left = {}
  BY <1>1 DEF Answer, Go, ingestVars
<1>3. HandlerStep(p, next) /\ StoreKept
  BY <1>2, NoStoreChange DEF HandlerStep, RequestInv, RequestTypes
<1>4. RequestTypes'
  BY <1>2 DEF RequestInv, RequestTypes
<1>5. /\ handler'[p] = next /\ LogKept /\ InLogOnce(p)' /\ ClosedStaysClosed(p)'
      /\ \A q \in Posts \ {p} : handler'[q] = handler[q] /\ PostInv(q)'
  BY <1>3, OthersKept
<1>6. next.at = "answered"
  BY <1>1
<1>7. PostInv(p) /\ answer'[p] = "ok"
  BY <1>2, Phase DEF RequestInv, PostInv
<1>8. PostInv(p)'
  <2>1. p[2] > posts'[p[1]] => handler'[p] = Nobody
    BY <1>2, <1>3, <1>4, NotPosted
  <2>2. HandlerIs(p)'
    BY <1>1, <1>5, <1>7 DEF HandlerIs
  <2>3. Served(p)'
    <3>1. handler'[p].at = "answered"
      BY <1>5, <1>6
    <3>2. \A c \in Candidates[p[1]] : Raised(p, c)
      BY <1>2, <1>7 DEF PostInv, Served
    <3> QED
      BY <3>1, <3>2, <1>2, <1>3, RaisedKept DEF Served
  <2>4. InLogAll(p)'
    BY <1>2, <1>5, <1>7 DEF PostInv, InLogAll, LogKept
  <2> QED
    BY <2>1, <2>2, <2>3, <2>4, <1>5 DEF PostInv
<1>9. HandlersKept
  BY <1>2, <1>5, <1>6 DEF HandlersKept
<1>10. AlarmHasReading'
  BY <1>2, <1>5, <1>9, ReadingsKept
<1> QED
  BY <1>4, <1>5, <1>8, <1>10 DEF RequestInv

\* Closing an alarm takes none away and opens none.
LEMMA CloseAlarmKeeps ==
  ASSUME RequestInv, NEW i \in DOMAIN alarms, CloseAlarm(i)
  PROVE  RequestInv'
<1>1. alarms \in Seq(Alarms!Alarm)
  BY DEF RequestInv, RequestTypes
<1>2. PICK st \in {"acknowledged", "resolved"} : alarms' = [alarms EXCEPT ![i].status = st]
  BY DEF CloseAlarm, Alarms!Ack, Alarms!Resolve, Alarms!SetStatus
<1>3. /\ alarms' \in Seq(Alarms!Alarm)
      /\ DOMAIN alarms' = DOMAIN alarms
      /\ alarms'[i].status = st
      /\ \A j \in DOMAIN alarms : alarms'[j].turbine = alarms[j].turbine /\ alarms'[j].rule = alarms[j].rule
      /\ \A j \in DOMAIN alarms \ {i} : alarms'[j] = alarms[j]
  <2>1. st \in StoreLemmas!Status
    BY DEF StoreLemmas!Status
  <2>2. Alarms!Alarm = StoreLemmas!Alarm
    BY DEF Alarms!Alarm, Alarms!Status, StoreLemmas!Alarm, StoreLemmas!Status
  <2>3. PICK s \in Seq(StoreLemmas!Alarm) : s = alarms
    BY <1>1, <2>2
  <2>4. PICK r : r = alarms'
    OBVIOUS
  <2>5. i \in DOMAIN s /\ r = [s EXCEPT ![i].status = st]
    BY <1>2, <2>3, <2>4
  <2>6. /\ r \in Seq(StoreLemmas!Alarm)
        /\ DOMAIN r = DOMAIN s
        /\ r[i].status = st
        /\ \A j \in DOMAIN s : r[j].turbine = s[j].turbine /\ r[j].rule = s[j].rule
        /\ \A j \in DOMAIN s \ {i} : r[j] = s[j]
    BY <2>1, <2>5, StoreLemmas!StatusProperties
  <2> QED
    BY <2>2, <2>3, <2>4, <2>6
<1>4. StoreKept
  BY <1>2, <1>3 DEF StoreKept
<1>5. UNCHANGED <<log, answer, cancelled, posts, handler, closedBefore>>
  BY DEF CloseAlarm, ingestVars
<1>6. RequestTypes'
  BY <1>3, <1>5 DEF RequestInv, RequestTypes
<1>7. LogKept /\ HandlersKept /\ \A q \in Posts : InLogOnce(q) => InLogOnce(q)'
  BY <1>5, NoLogChange DEF HandlersKept
<1>8. ASSUME NEW q \in Posts
      PROVE  PostInv(q)'
  <2>1. PostInv(q) /\ InLogOnce(q)'
    BY <1>7 DEF RequestInv, PostInv
  <2>2. posts[q[1]] \in Nat
    BY PostAt DEF RequestInv, RequestTypes
  <2>3. posts'[q[1]] \in Nat /\ posts'[q[1]] >= posts[q[1]]
    BY <2>2, <1>5
  <2>4. handler'[q] = handler[q] /\ answer'[q] = answer[q] /\ closedBefore'[q] = closedBefore[q]
        /\ cancelled \subseteq cancelled'
    BY <1>5
  <2> QED
    BY <2>1, <2>2, <2>3, <2>4, <1>4, <1>7, PostKept
<1>9. AlarmHasReading'
  <2>1. \A j \in DOMAIN alarms' : (\E q \in Posts : Source(q, alarms[j].turbine, alarms[j].rule))'
    BY <1>3, <1>4, <1>5, <1>7, SourcesKept
  <2> QED
    BY <2>1 DEF AlarmHasReading, Source
<1> QED
  BY <1>6, <1>8, <1>9 DEF RequestInv

LEMMA RequestInitInv == RequestInit => RequestInv
<1> SUFFICES ASSUME RequestInit PROVE RequestInv
  OBVIOUS
<1>1. /\ log = [t \in Named |-> << >>] /\ answer = [p \in Posts |-> "none"]
      /\ alarms = << >> /\ posts = [k \in Clients |-> 0]
      /\ handler = [p \in Posts |-> Nobody] /\ closedBefore = [p \in Posts |-> {}]
  BY DEF RequestInit, Log!Init
<1>2. RequestTypes
  <2>1. alarms \in Seq(Alarms!Alarm) /\ log \in [Named -> Seq(Posts \X Nat)]
    BY <1>1, EmptySeq
  <2>2. posts \in [Clients -> Nat]
    BY <1>1
  <2> QED
    BY <2>1, <2>2, <1>1 DEF RequestTypes
<1>3. ASSUME NEW p \in Posts
      PROVE  PostInv(p)
  <2>1. handler[p] = Nobody /\ answer[p] = "none" /\ closedBefore[p] = {}
    BY <1>1
  <2>2. Nobody.at = "nowhere"
    BY DEF Nobody
  <2>3. HandlerIs(p) /\ Served(p)
    BY <2>1, <2>2 DEF HandlerIs, Served
  <2>4. InLogOnce(p)
    <3>1. \A i \in Validated[p[1]] : Log!Places(p, i) = {}
      <4> TAKE i \in Validated[p[1]]
      <4>1. log[Batches[p][i]] = << >>
        BY <1>1, BatchAt
      <4> QED
        BY <4>1 DEF Log!Places
    <3> QED
      BY <3>1 DEF InLogOnce
  <2>5. InLogAll(p)
    BY <2>1 DEF InLogAll
  <2>6. ClosedStaysClosed(p)
    BY <2>1 DEF ClosedStaysClosed
  <2> QED
    BY <2>1, <2>3, <2>4, <2>5, <2>6 DEF PostInv
<1>4. AlarmHasReading
  BY <1>1 DEF AlarmHasReading
<1> QED
  BY <1>2, <1>3, <1>4 DEF RequestInv

LEMMA RequestNextInv ==
  ASSUME RequestInv, [RequestNext]_requestVars
  PROVE  RequestInv'
<1>1. CASE UNCHANGED requestVars
  <2>1. UNCHANGED <<log, answer, cancelled, alarms, posts, handler, closedBefore>>
    BY <1>1 DEF requestVars, ingestVars
  <2>2. RequestTypes'
    BY <2>1 DEF RequestInv, RequestTypes
  <2>3. StoreKept /\ LogKept /\ HandlersKept /\ \A q \in Posts : InLogOnce(q) => InLogOnce(q)'
    BY <2>1, NoLogChange, NoStoreChange DEF HandlersKept
  <2>4. ASSUME NEW q \in Posts
        PROVE  PostInv(q)'
    <3>1. PostInv(q) /\ InLogOnce(q)'
      BY <2>3 DEF RequestInv, PostInv
    <3>2. posts[q[1]] \in Nat
      BY PostAt DEF RequestInv, RequestTypes
    <3> QED
      BY <3>1, <3>2, <2>1, <2>3, PostKept
  <2> QED
    BY <2>1, <2>2, <2>3, <2>4, ReadingsKept DEF RequestInv
<1> QED
  BY <1>1, PostKeeps, GiveUpKeeps, IngestKeeps, IngestedKeeps, IngestFailedKeeps, DispatchKeeps,
     AnswerKeeps, CloseAlarmKeeps DEF RequestNext, Handle

\* For every set of clients and bodies, and whatever other posts, clients that give
\* up and operators do in between: who is answered has every valid sample in the
\* log, once, and an alarm for every rule that a reading triggers.
THEOREM AnswersAreRecorded == RequestSpec => []AnsweredMeansRecorded
<1>1. ASSUME RequestInv, NEW p \in Posts, handler[p].at = "answered", p \notin cancelled,
             NEW i \in Validated[p[1]]
      PROVE  Cardinality(Log!Places(p, i)) = 1
  <2>1. PostInv(p)
    BY <1>1 DEF RequestInv
  <2>2. Log!Places(p, i) # {} /\ \A m, n \in Log!Places(p, i) : m = n
    BY <1>1, <2>1, Phase DEF PostInv, InLogOnce, InLogAll
  <2>3. PICK m : Log!Places(p, i) = {m}
    BY <2>2
  <2> QED
    BY <2>3, FS_Singleton
<1>2. ASSUME RequestInv, NEW p \in Posts, handler[p].at = "answered",
             NEW r \in Range(Registered), r.threshold > 0, NEW i \in Readings(p[1], r)
      PROVE  \E j \in DOMAIN alarms \ closedBefore[p] :
               Alarms!Key(alarms[j]) = Alarms!Key(Alarms!NewAlarm(Body[p[1]][i].turbine, r.id))
  <2>1. PICK k \in Clients : k = p[1]
    BY PostAt
  <2>2. PICK n \in DOMAIN Registered : r = Registered[n]
    BY DEF Range
  <2>3. r \in RegisteredRule
    BY <2>2, RegisteredTypes, LenProperties, ElementOfSeq
  <2>4. i \in Validated[k] /\ Triggered(r, Body[k][i])
    BY <2>1, <1>2 DEF Readings
  <2>5. Triggered(Registered[n], Normalize(Body[k][i]))
    BY <1>2, <2>2, <2>3, <2>4, SampleAt, NormalisingKeepsVerdicts
  <2>6. PICK c : c = <<i, n>>
    OBVIOUS
  <2>7. c \in Candidates[k]
    BY <2>4, <2>5, <2>6 DEF Candidates
  <2>8. Raised(p, c)
    BY <1>2, <2>1, <2>7 DEF RequestInv, PostInv, Served
  <2>9. AlarmFor(k, c) = Alarms!NewAlarm(Body[k][i].turbine, r.id)
    BY <2>2, <2>6 DEF AlarmFor
  <2> QED
    BY <2>1, <2>8, <2>9 DEF Raised
<1>3. RequestInv => AnsweredMeansRecorded
  BY <1>1, <1>2 DEF AnsweredMeansRecorded
<1> QED
  BY <1>3, RequestInitInv, RequestNextInv, PTL DEF RequestSpec

\* No alarm without its reading, for any bodies, rules and numbers of posts, though
\* posts of one client overlap and alarms are closed and raised anew.
THEOREM AlarmsHaveReadings == RequestSpec => []AlarmHasReading
<1>1. RequestInv => AlarmHasReading
  BY DEF RequestInv
<1> QED
  BY <1>1, RequestInitInv, RequestNextInv, PTL DEF RequestSpec

=============================================================================
