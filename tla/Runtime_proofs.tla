--------------------------- MODULE Runtime_proofs ---------------------------
(***************************************************************************)
(* The parts that run behind the services, each for every value of its     *)
(* constants: the ingestion pool for any number of producers and workers,  *)
(* one run per job for any number of callers of Start, no slot of the gate *)
(* lost for any number of goroutines and any nesting, every sample of the  *)
(* batch writer in one place for any batch size, and the snapshot file     *)
(* whole for any savers that do not overlap.                               *)
(***************************************************************************)
EXTENDS IngestPool, JobScheduler, BackpressureGate, BatchWriter, SnapshotFile,
        SequenceTheorems, FiniteSetTheorems, TLAPS

-----------------------------------------------------------------------------
(* JobScheduler                                                            *)

JobsTypeOK ==
  /\ active \in BOOLEAN
  /\ at \in [Starters -> {"new", "round", "jobs", "select", "leave", "returned"}]
  /\ running \in [Starters -> SUBSET Nat]
  /\ jobs \in Nat

\* The flag is the claim of one caller, and rounds do not overlap.
Claimed ==
  /\ \A r, s \in Inside : r = s
  /\ active = (Inside # {})
  /\ \A s \in Starters : running[s] # {} => at[s] = "jobs"

JobsInv == JobsTypeOK /\ Claimed

\* A step inside Start that neither enters nor leaves it.
LEMMA StaysInside ==
  ASSUME JobsInv, NEW s \in Starters, NEW pc \in {"round", "jobs", "select", "leave"},
         at[s] \in {"round", "jobs", "select", "leave"}, Goto(s, pc), active' = active
  PROVE  /\ at' \in [Starters -> {"new", "round", "jobs", "select", "leave", "returned"}]
         /\ at'[s] = pc /\ \A r \in Starters \ {s} : at'[r] = at[r]
         /\ Inside' = Inside
         /\ (\A q, r \in Inside : q = r)' /\ (active = (Inside # {}))'
<1>1. /\ at' \in [Starters -> {"new", "round", "jobs", "select", "leave", "returned"}]
      /\ at'[s] = pc /\ \A r \in Starters \ {s} : at'[r] = at[r]
  BY DEF JobsInv, JobsTypeOK, Goto
<1>2. Inside' = Inside
  BY <1>1 DEF Inside
<1> QED
  BY <1>1, <1>2 DEF JobsInv, Claimed

LEMMA JobsInitInv == SchedInit => JobsInv
<1> SUFFICES ASSUME SchedInit
             PROVE  JobsInv
  OBVIOUS
<1>1. \A s \in Starters : at[s] = "new" /\ running[s] = {}
  BY DEF SchedInit
<1>2. Inside = {}
  BY <1>1 DEF Inside
<1>3. JobsTypeOK
  BY DEF SchedInit, JobsTypeOK
<1>4. active = FALSE
  BY DEF SchedInit
<1> QED
  BY <1>1, <1>2, <1>3, <1>4 DEF JobsInv, Claimed

LEMMA JobsNextInv ==
  ASSUME JobsInv, [SchedNext]_schedVars
  PROVE  JobsInv'
<1>1. CASE Add
  BY <1>1 DEF Add, JobsInv, JobsTypeOK, Claimed, Inside
<1>2. ASSUME NEW s \in Starters, CancelStart(s) \/ Tick(s)
      PROVE  JobsInv'
  BY <1>2 DEF CancelStart, Tick, JobsInv, JobsTypeOK, Claimed, Inside
<1>3. ASSUME NEW s \in Starters, Claim(s)
      PROVE  JobsInv'
  <2>1. CASE active
    BY <1>3, <2>1 DEF Claim, Goto, JobsInv, JobsTypeOK, Claimed, Inside
  <2>2. CASE ~active
    <3>1. /\ at[s] = "new" /\ at' = [at EXCEPT ![s] = "round"] /\ active' = TRUE
          /\ UNCHANGED <<jobs, running>>
      BY <1>3, <2>2 DEF Claim, Goto
    <3>2. Inside = {}
      BY <2>2 DEF JobsInv, Claimed
    <3>3. Inside' = {s}
      BY <3>1, <3>2 DEF Inside, JobsInv, JobsTypeOK
    <3>4. running[s] = {}
      BY <3>1 DEF JobsInv, Claimed
    <3>5. JobsTypeOK'
      BY <3>1 DEF JobsInv, JobsTypeOK
    <3>6. \A r \in Starters : running'[r] # {} => at'[r] = "jobs"
      BY <3>1, <3>4 DEF JobsInv, JobsTypeOK, Claimed
    <3> QED
      BY <3>1, <3>3, <3>5, <3>6 DEF JobsInv, Claimed
  <2> QED
    BY <2>1, <2>2 DEF JobsInv, JobsTypeOK
<1>4. ASSUME NEW s \in Starters, Round(s)
      PROVE  JobsInv'
  <2>1. /\ at[s] = "round" /\ Goto(s, "jobs") /\ active' = active
        /\ running' = [running EXCEPT ![s] = 1 .. jobs] /\ jobs' = jobs
    BY <1>4 DEF Round
  <2>2. /\ at' \in [Starters -> {"new", "round", "jobs", "select", "leave", "returned"}]
        /\ at'[s] = "jobs" /\ \A r \in Starters \ {s} : at'[r] = at[r]
        /\ (\A q, r \in Inside : q = r)' /\ (active = (Inside # {}))'
    BY <2>1, StaysInside
  <2>3. 1 .. jobs \subseteq Nat
    BY DEF JobsInv, JobsTypeOK
  <2>4. running' \in [Starters -> SUBSET Nat]
    BY <2>1, <2>3 DEF JobsInv, JobsTypeOK
  <2>5. JobsTypeOK'
    BY <2>1, <2>2, <2>4 DEF JobsInv, JobsTypeOK
  <2> QED
    BY <2>1, <2>2, <2>5 DEF JobsInv, JobsTypeOK, Claimed
<1>5. ASSUME NEW s \in Starters, NEW j \in Jobs, JobReturns(s, j)
      PROVE  JobsInv'
  BY <1>5 DEF JobReturns, JobsInv, JobsTypeOK, Claimed, Inside
<1>6. ASSUME NEW s \in Starters, RoundOver(s) \/ SelectTick(s) \/ SelectDone(s)
      PROVE  JobsInv'
  <2>1. PICK pc \in {"round", "select", "leave"} :
          /\ Goto(s, pc) /\ at[s] \in {"jobs", "select"} /\ running[s] = {}
          /\ UNCHANGED <<active, running, jobs>>
    BY <1>6 DEF RoundOver, SelectTick, SelectDone, JobsInv, Claimed
  <2>2. /\ at' \in [Starters -> {"new", "round", "jobs", "select", "leave", "returned"}]
        /\ at'[s] = pc /\ \A r \in Starters \ {s} : at'[r] = at[r]
        /\ (\A q, r \in Inside : q = r)' /\ (active = (Inside # {}))'
    BY <2>1, StaysInside
  <2> QED
    BY <2>1, <2>2 DEF JobsInv, JobsTypeOK, Claimed
<1>7. ASSUME NEW s \in Starters, Leave(s)
      PROVE  JobsInv'
  <2>1. /\ at[s] = "leave" /\ at' = [at EXCEPT ![s] = "returned"] /\ active' = FALSE
        /\ UNCHANGED <<jobs, running>>
    BY <1>7 DEF Leave, Goto
  <2>2. Inside' = {}
    BY <2>1 DEF Inside, JobsInv, JobsTypeOK, Claimed
  <2>3. \A r \in Starters : running'[r] # {} => at'[r] = "jobs"
    BY <2>1 DEF JobsInv, JobsTypeOK, Claimed
  <2>4. JobsTypeOK'
    BY <2>1 DEF JobsInv, JobsTypeOK
  <2> QED
    BY <2>1, <2>2, <2>3, <2>4 DEF JobsInv, Claimed
<1>8. CASE UNCHANGED schedVars
  BY <1>8 DEF schedVars, JobsInv, JobsTypeOK, Claimed, Inside
<1> QED
  BY <1>1, <1>2, <1>3, <1>4, <1>5, <1>6, <1>7, <1>8 DEF SchedNext

\* Whoever calls Start, however often, and whatever is added or cancelled in
\* between: one call runs jobs at a time, and its rounds do not overlap.
THEOREM AtMostOneRun == SchedSpec => []OneRunPerJob
<1>1. JobsInv => OneRunPerJob
  <2> SUFFICES ASSUME JobsInv
               PROVE  Cardinality(Inside) <= 1
    BY DEF JobsInv, Claimed, OneRunPerJob
  <2>1. CASE Inside = {}
    BY <2>1, FS_EmptySet
  <2>2. CASE Inside # {}
    <3>1. PICK s \in Inside : Inside = {s}
      BY <2>2 DEF JobsInv, Claimed
    <3> QED
      BY <3>1, FS_Singleton
  <2> QED
    BY <2>1, <2>2
<1> QED
  BY <1>1, JobsInitInv, JobsNextInv, PTL DEF SchedSpec

-----------------------------------------------------------------------------
(* BackpressureGate                                                        *)

GateTypeOK ==
  /\ slots \in 0 .. Limit
  /\ queue \in Seq(Users)
  /\ held \in [Users -> 0 .. Depth]
  /\ tried \subseteq Users

\* Who waits is in the queue once and may nest one call deeper; a slot taken
\* by TryAcquire is its goroutine's only one.
Waiting ==
  /\ \A j, k \in DOMAIN queue : queue[j] = queue[k] => j = k
  /\ \A k \in DOMAIN queue : held[queue[k]] < Depth /\ queue[k] \notin tried
  /\ \A w \in tried : held[w] = 1
  /\ queue # << >> => slots = Limit

SlotsAddUp == IsFiniteSet(SlotsOf(Users)) /\ Cardinality(SlotsOf(Users)) = slots

GateInv == GateTypeOK /\ Waiting /\ SlotsAddUp

\* SlotsOf(Users) as a function of what is held.
SlotsIn(h) == {t \in Users \X (1 .. Depth) : t[2] <= h[t[1]]}

\* A goroutine that takes a slot holds one it did not hold.
LEMMA SlotTaken ==
  ASSUME NEW h \in [Users -> 0 .. Depth], NEW w \in Users, h[w] < Depth
  PROVE  /\ [h EXCEPT ![w] = @ + 1] \in [Users -> 0 .. Depth]
         /\ <<w, h[w] + 1>> \notin SlotsIn(h)
         /\ SlotsIn([h EXCEPT ![w] = @ + 1]) = SlotsIn(h) \cup {<<w, h[w] + 1>>}
<1> DEFINE g == [h EXCEPT ![w] = @ + 1]
<1>0. Depth \in Nat /\ h[w] \in 0 .. Depth
  BY GateNumbers
<1>1. g \in [Users -> 0 .. Depth]
  BY <1>0
<1>2. \A v \in Users : g[v] = IF v = w THEN h[w] + 1 ELSE h[v]
  OBVIOUS
<1>3. ASSUME NEW v \in Users, NEW k \in 1 .. Depth
      PROVE  (k <= g[v]) <=> (k <= h[v] \/ (v = w /\ k = h[w] + 1))
  BY <1>0, <1>2
<1>4. <<w, h[w] + 1>> \in Users \X (1 .. Depth)
  BY <1>0
<1>5. <<w, h[w] + 1>> \notin SlotsIn(h)
  BY <1>0 DEF SlotsIn
<1>6. \A t \in Users \X (1 .. Depth) :
        (t \in SlotsIn(g)) <=> (t \in SlotsIn(h) \/ t = <<w, h[w] + 1>>)
  <2> TAKE t \in Users \X (1 .. Depth)
  <2> HIDE DEF g
  <2>1. PICK v \in Users, k \in 1 .. Depth : t = <<v, k>>
    OBVIOUS
  <2>2. (k <= g[v]) <=> (k <= h[v] \/ (v = w /\ k = h[w] + 1))
    BY <1>3
  <2>3. t[1] = v /\ t[2] = k
    BY <2>1
  <2> QED
    BY <2>1, <2>2, <2>3 DEF SlotsIn
<1> QED
  BY <1>1, <1>4, <1>5, <1>6 DEF SlotsIn

\* A goroutine that gives a slot back no longer holds its last one.
LEMMA SlotGiven ==
  ASSUME NEW h \in [Users -> 0 .. Depth], NEW w \in Users, h[w] > 0
  PROVE  /\ [h EXCEPT ![w] = @ - 1] \in [Users -> 0 .. Depth]
         /\ <<w, h[w]>> \in SlotsIn(h)
         /\ SlotsIn([h EXCEPT ![w] = @ - 1]) = SlotsIn(h) \ {<<w, h[w]>>}
<1> DEFINE g == [h EXCEPT ![w] = @ - 1]
<1>0. Depth \in Nat /\ h[w] \in 0 .. Depth
  BY GateNumbers
<1>1. g \in [Users -> 0 .. Depth]
  BY <1>0
<1>2. \A v \in Users : g[v] = IF v = w THEN h[w] - 1 ELSE h[v]
  OBVIOUS
<1>3. ASSUME NEW v \in Users, NEW k \in 1 .. Depth
      PROVE  (k <= g[v]) <=> (k <= h[v] /\ ~(v = w /\ k = h[w]))
  BY <1>0, <1>2
<1>4. <<w, h[w]>> \in SlotsIn(h)
  BY <1>0 DEF SlotsIn
<1>5. \A t \in Users \X (1 .. Depth) :
        (t \in SlotsIn(g)) <=> (t \in SlotsIn(h) /\ t # <<w, h[w]>>)
  <2> TAKE t \in Users \X (1 .. Depth)
  <2> HIDE DEF g
  <2>1. PICK v \in Users, k \in 1 .. Depth : t = <<v, k>>
    OBVIOUS
  <2>2. (k <= g[v]) <=> (k <= h[v] /\ ~(v = w /\ k = h[w]))
    BY <1>3
  <2>3. t[1] = v /\ t[2] = k
    BY <2>1
  <2> QED
    BY <2>1, <2>2, <2>3 DEF SlotsIn
<1> QED
  BY <1>1, <1>4, <1>5 DEF SlotsIn

LEMMA SlotsAreSlotsIn == SlotsOf(Users) = SlotsIn(held) /\ SlotsOf(Users)' = SlotsIn(held')
BY DEF SlotsOf, SlotsIn

LEMMA GateInitInv == GateInit => GateInv
<1> SUFFICES ASSUME GateInit
             PROVE  GateInv
  OBVIOUS
<1>1. GateTypeOK
  BY GateNumbers, EmptySeq DEF GateInit, GateTypeOK
<1>2. Waiting
  BY DEF GateInit, Waiting
<1>3. SlotsOf(Users) = {}
  BY DEF GateInit, SlotsOf
<1> QED
  BY <1>1, <1>2, <1>3, FS_EmptySet DEF GateInv, SlotsAddUp, GateInit

\* Take by a goroutine that may.
LEMMA TakeKeeps ==
  ASSUME GateInv, NEW w \in Users, Take(w), held[w] < Depth, ~Queued(w)
  PROVE  /\ slots' \in 0 .. Limit /\ held' \in [Users -> 0 .. Depth]
         /\ SlotsAddUp' /\ queue = << >> /\ queue' = << >>
         /\ \A v \in Users : held'[v] = IF v = w THEN held[w] + 1 ELSE held[v]
<1>1. slots < Limit /\ slots' = slots + 1 /\ held' = [held EXCEPT ![w] = @ + 1] /\ queue' = queue
  BY DEF Take
<1>2. slots \in 0 .. Limit /\ held \in [Users -> 0 .. Depth]
  BY DEF GateInv, GateTypeOK
<1>3. queue = << >> /\ queue' = << >>
  BY <1>1, <1>2, GateNumbers DEF GateInv, Waiting
<1>4. slots' \in 0 .. Limit
  BY <1>1, <1>2, GateNumbers
<1>5. PICK new : new = <<w, held[w] + 1>>
  OBVIOUS
<1>6. /\ held' \in [Users -> 0 .. Depth]
      /\ new \notin SlotsIn(held) /\ SlotsIn(held') = SlotsIn(held) \cup {new}
  BY <1>1, <1>2, <1>5, SlotTaken
<1>7. new \notin SlotsOf(Users) /\ SlotsOf(Users)' = SlotsOf(Users) \cup {new}
  BY <1>6, SlotsAreSlotsIn
<1>8. IsFiniteSet(SlotsOf(Users)) /\ Cardinality(SlotsOf(Users)) = slots
  BY DEF GateInv, SlotsAddUp
<1>9. IsFiniteSet(SlotsOf(Users)') /\ Cardinality(SlotsOf(Users)') = slots + 1
  BY <1>7, <1>8, FS_AddElement
<1> QED
  BY <1>1, <1>2, <1>3, <1>4, <1>6, <1>9 DEF SlotsAddUp

\* Receive by a goroutine that holds a slot and does not wait.
LEMMA ReceiveKeeps ==
  ASSUME GateInv, NEW w \in Users, Receive(w), held[w] > 0, ~Queued(w)
  PROVE  /\ slots' \in 0 .. Limit /\ queue' \in Seq(Users)
         /\ held' \in [Users -> 0 .. Depth] /\ SlotsAddUp'
         /\ \A j, k \in DOMAIN queue' : queue'[j] = queue'[k] => j = k
         /\ \A k \in DOMAIN queue' : queue'[k] # w /\ held'[queue'[k]] < Depth /\ queue'[k] \notin tried
         /\ \A v \in tried : v # w => held'[v] = 1
         /\ queue' # << >> => slots' = Limit
<1> DEFINE S == SlotsOf(Users)
<1>1. /\ slots \in 0 .. Limit /\ queue \in Seq(Users) /\ tried \subseteq Users
      /\ held \in [Users -> 0 .. Depth]
  BY DEF GateInv, GateTypeOK
<1>2. PICK old : old = <<w, held[w]>>
  OBVIOUS
<1>3. PICK h : h = [held EXCEPT ![w] = @ - 1]
  OBVIOUS
<1>4. /\ h \in [Users -> 0 .. Depth]
      /\ old \in SlotsIn(held) /\ SlotsIn(h) = SlotsIn(held) \ {old}
  BY <1>1, <1>2, <1>3, SlotGiven
<1>5. IsFiniteSet(S) /\ Cardinality(S) = slots /\ S = SlotsIn(held) /\ S' = SlotsIn(held')
  BY SlotsAreSlotsIn DEF GateInv, SlotsAddUp
<1>6. IsFiniteSet(SlotsIn(h)) /\ Cardinality(SlotsIn(h)) = slots - 1
  BY <1>4, <1>5, FS_RemoveElement
<1>7. \A v \in Users : h[v] = IF v = w THEN held[w] - 1 ELSE held[v]
  BY <1>1, <1>3
<1>8. /\ \A j, k \in DOMAIN queue : queue[j] = queue[k] => j = k
      /\ \A k \in DOMAIN queue : held[queue[k]] < Depth /\ queue[k] \notin tried
      /\ \A v \in tried : held[v] = 1
      /\ queue # << >> => slots = Limit
  BY DEF GateInv, Waiting
<1>9. slots > 0
  BY DEF Receive
<1>10. CASE queue = << >>
  <2>1. slots' = slots - 1 /\ held' = h /\ queue' = << >>
    BY <1>3, <1>10 DEF Receive
  <2>2. slots' \in 0 .. Limit
    BY <2>1, <1>1, <1>9, GateNumbers
  <2>3. SlotsAddUp'
    BY <2>1, <1>5, <1>6 DEF SlotsAddUp
  <2>4. \A v \in tried : v # w => held'[v] = 1
    BY <2>1, <1>1, <1>7, <1>8
  <2> QED
    BY <2>1, <2>2, <2>3, <2>4, <1>4, EmptySeq
<1>11. CASE queue # << >>
  <2>1. PICK v : v = Head(queue)
    OBVIOUS
  <2>2. /\ Len(queue) \in Nat /\ Len(queue) > 0 /\ DOMAIN queue = 1 .. Len(queue)
        /\ v = queue[1] /\ v \in Users
    BY <2>1, <1>1, <1>11, LenProperties, EmptySeq, HeadTailProperties
  <2>3. /\ Tail(queue) \in Seq(Users) /\ DOMAIN Tail(queue) = 1 .. Len(queue) - 1
        /\ \A i \in 1 .. Len(queue) - 1 : Tail(queue)[i] = queue[i + 1]
    <3>1. /\ Tail(queue) \in Seq(Users) /\ Len(Tail(queue)) = Len(queue) - 1
          /\ \A i \in 1 .. Len(Tail(queue)) : Tail(queue)[i] = queue[i + 1]
      BY <1>1, <1>11, HeadTailProperties
    <3> QED
      BY <3>1, LenProperties
  <2>4. v # w /\ \A k \in DOMAIN queue : queue[k] # w
    BY <2>2 DEF Queued
  <2>5. held[v] < Depth /\ v \notin tried
    BY <2>2, <1>8
  <2>6. h[v] < Depth
    BY <2>2, <2>4, <2>5, <1>7
  <2>7. held' = [held EXCEPT ![w] = @ - 1, ![v] = @ + 1] /\ queue' = Tail(queue) /\ slots' = slots
    BY <1>11, <2>1 DEF Receive
  <2>8. held' = [h EXCEPT ![v] = @ + 1]
    <3>1. held' = [u \in Users |-> IF u = v THEN held[v] + 1
                                   ELSE IF u = w THEN held[w] - 1 ELSE held[u]]
      BY <2>2, <2>4, <2>7, <1>1
    <3>2. [h EXCEPT ![v] = @ + 1] = [u \in Users |-> IF u = v THEN h[v] + 1 ELSE h[u]]
      BY <2>2, <1>4
    <3>3. \A u \in Users : (IF u = v THEN held[v] + 1 ELSE IF u = w THEN held[w] - 1 ELSE held[u])
                             = (IF u = v THEN h[v] + 1 ELSE h[u])
      BY <2>2, <2>4, <1>7
    <3> QED
      BY <3>1, <3>2, <3>3
  <2>9. PICK new : new = <<v, h[v] + 1>>
    OBVIOUS
  <2>10. /\ held' \in [Users -> 0 .. Depth]
         /\ new \notin SlotsIn(h) /\ SlotsIn(held') = SlotsIn(h) \cup {new}
    BY <2>2, <2>6, <2>8, <2>9, <1>4, SlotTaken
  <2>11. IsFiniteSet(S') /\ Cardinality(S') = slots
    <3>1. IsFiniteSet(SlotsIn(held')) /\ Cardinality(SlotsIn(held')) = (slots - 1) + 1
      BY <2>10, <1>6, FS_AddElement
    <3> QED
      BY <3>1, <1>1, <1>5
  <2>12. SlotsAddUp'
    BY <2>7, <2>11 DEF SlotsAddUp
  <2>13. \A u \in Users : held'[u] = IF u = v THEN h[v] + 1 ELSE h[u]
    BY <2>8, <1>4
  <2>14. \A j, k \in DOMAIN queue' : queue'[j] = queue'[k] => j = k
    BY <2>2, <2>3, <2>7, <1>8
  <2>15. ASSUME NEW k \in DOMAIN queue'
         PROVE  queue'[k] # w /\ held'[queue'[k]] < Depth /\ queue'[k] \notin tried
    <3>1. k \in 1 .. Len(queue) - 1 /\ k + 1 \in DOMAIN queue /\ queue'[k] = queue[k + 1]
      BY <2>2, <2>3, <2>7
    <3>2. queue'[k] \in Users
      BY <3>1, <1>1, <2>2, ElementOfSeq
    <3>3. queue'[k] # v
      BY <3>1, <2>2, <1>8
    <3>4. queue'[k] # w /\ held[queue'[k]] < Depth /\ queue'[k] \notin tried
      BY <3>1, <2>4, <1>8
    <3> QED
      BY <3>2, <3>3, <3>4, <2>13, <1>7
  <2>16. \A u \in tried : u # w => held'[u] = 1
    BY <2>13, <2>5, <1>7, <1>8, <1>1
  <2> QED
    BY <2>3, <2>7, <2>10, <2>12, <2>14, <2>15, <2>16, <1>1, <1>8, <1>11
<1> QED
  BY <1>10, <1>11

LEMMA GateNextInv ==
  ASSUME GateInv, [GateNext]_gateVars
  PROVE  GateInv'
<1>1. /\ slots \in 0 .. Limit /\ queue \in Seq(Users) /\ tried \subseteq Users
      /\ held \in [Users -> 0 .. Depth]
  BY DEF GateInv, GateTypeOK
<1>2. /\ \A j, k \in DOMAIN queue : queue[j] = queue[k] => j = k
      /\ \A k \in DOMAIN queue : held[queue[k]] < Depth /\ queue[k] \notin tried
      /\ \A v \in tried : held[v] = 1
      /\ queue # << >> => slots = Limit
  BY DEF GateInv, Waiting
<1>3. ASSUME NEW w \in Users, Acquire(w)
      PROVE  GateInv'
  <2>1. ~Queued(w) /\ w \notin tried /\ held[w] < Depth /\ tried' = tried
    BY <1>3 DEF Acquire
  <2>2. CASE Take(w)
    <3>1. /\ slots' \in 0 .. Limit /\ held' \in [Users -> 0 .. Depth]
          /\ SlotsAddUp' /\ queue' = << >>
          /\ \A v \in Users : held'[v] = IF v = w THEN held[w] + 1 ELSE held[v]
      BY <2>1, <2>2, TakeKeeps
    <3>2. \A v \in tried' : held'[v] = 1
      BY <3>1, <2>1, <1>1, <1>2
    <3>3. Waiting'
      BY <3>1, <3>2 DEF Waiting
    <3>4. GateTypeOK'
      BY <3>1, <2>1, <1>1, EmptySeq DEF GateTypeOK
    <3> QED
      BY <3>1, <3>3, <3>4 DEF GateInv
  <2>3. CASE /\ slots >= Limit
             /\ queue' = Append(queue, w) /\ UNCHANGED <<slots, held>>
    <3>1. /\ queue' \in Seq(Users) /\ Len(queue') = Len(queue) + 1
          /\ \A k \in 1 .. Len(queue) : queue'[k] = queue[k]
          /\ queue'[Len(queue) + 1] = w
      BY <2>3, <1>1, AppendProperties
    <3>2. /\ Len(queue) \in Nat /\ DOMAIN queue = 1 .. Len(queue)
          /\ DOMAIN queue' = 1 .. Len(queue) + 1
      BY <3>1, <1>1, LenProperties
    <3>3. \A k \in DOMAIN queue : queue[k] # w
      BY <2>1 DEF Queued
    <3>4. \A k \in DOMAIN queue' : k \in DOMAIN queue \/ k = Len(queue) + 1
      BY <3>2
    <3>5. \A j, k \in DOMAIN queue' : queue'[j] = queue'[k] => j = k
      BY <3>1, <3>2, <3>3, <3>4, <1>2
    <3>6. \A k \in DOMAIN queue' : held'[queue'[k]] < Depth /\ queue'[k] \notin tried'
      BY <3>1, <3>2, <3>4, <2>1, <2>3, <1>2
    <3>7. Waiting'
      BY <3>5, <3>6, <2>1, <2>3, <1>1, <1>2, GateNumbers DEF Waiting
    <3>8. SlotsAddUp'
      BY <2>3 DEF GateInv, SlotsAddUp, SlotsOf
    <3> QED
      BY <3>1, <3>7, <3>8, <2>1, <2>3, <1>1 DEF GateInv, GateTypeOK
  <2> QED
    BY <1>3, <2>2, <2>3 DEF Acquire
<1>4. ASSUME NEW w \in Users, TryAcquire(w)
      PROVE  GateInv'
  <2>1. ~Queued(w) /\ held[w] = 0 /\ Take(w) /\ tried' = tried \cup {w} /\ held[w] < Depth
    BY <1>4, GateNumbers DEF TryAcquire
  <2>2. /\ slots' \in 0 .. Limit /\ held' \in [Users -> 0 .. Depth]
        /\ SlotsAddUp' /\ queue' = << >>
        /\ \A v \in Users : held'[v] = IF v = w THEN held[w] + 1 ELSE held[v]
    BY <2>1, TakeKeeps
  <2>3. \A v \in tried' : held'[v] = 1
    BY <2>1, <2>2, <1>1, <1>2
  <2>4. Waiting'
    BY <2>2, <2>3 DEF Waiting
  <2>5. GateTypeOK'
    BY <2>1, <2>2, <1>1, EmptySeq DEF GateTypeOK
  <2> QED
    BY <2>2, <2>4, <2>5 DEF GateInv
<1>5. ASSUME NEW w \in Users, RunEnds(w) \/ Release(w)
      PROVE  GateInv'
  <2>1. Receive(w) /\ held[w] > 0 /\ ~Queued(w)
    <3>1. CASE RunEnds(w)
      BY <3>1 DEF RunEnds
    <3>2. CASE Release(w)
      BY <3>2, <1>2 DEF Release, Queued
    <3> QED
      BY <1>5, <3>1, <3>2
  <2>2. tried' \subseteq tried /\ w \notin tried'
    BY <1>5 DEF RunEnds, Release
  <2>3. /\ slots' \in 0 .. Limit /\ queue' \in Seq(Users)
        /\ held' \in [Users -> 0 .. Depth] /\ SlotsAddUp'
        /\ \A j, k \in DOMAIN queue' : queue'[j] = queue'[k] => j = k
        /\ \A k \in DOMAIN queue' : queue'[k] # w /\ held'[queue'[k]] < Depth /\ queue'[k] \notin tried
        /\ \A v \in tried : v # w => held'[v] = 1
        /\ queue' # << >> => slots' = Limit
    BY <2>1, ReceiveKeeps
  <2>4. Waiting'
    BY <2>2, <2>3 DEF Waiting
  <2>5. GateTypeOK'
    BY <2>2, <2>3, <1>1 DEF GateTypeOK
  <2> QED
    BY <2>3, <2>4, <2>5 DEF GateInv
<1>6. CASE UNCHANGED gateVars
  BY <1>6 DEF gateVars, GateInv, GateTypeOK, Waiting, SlotsAddUp, SlotsOf
<1> QED
  BY <1>3, <1>4, <1>5, <1>6 DEF GateNext

\* For any goroutines, slots and nesting: what is in use is what its users
\* hold, whatever ends by return, by panic or by Release, and while somebody
\* waits no slot is free.
THEOREM NoSlotIsLost == GateSpec => []SlotsConserved
<1>1. GateInv => SlotsConserved
  BY DEF GateInv, GateTypeOK, Waiting, SlotsAddUp, SlotsConserved, HeldBy
<1> QED
  BY <1>1, GateInitInv, GateNextInv, PTL DEF GateSpec

-----------------------------------------------------------------------------
(* SnapshotFile                                                            *)

\* Where a call of Write is that has met no other, what path.tmp holds then,
\* and that the call is the only one.
AloneIn(s) ==
  /\ \E v \in Snapshots :
       \/ save[s] = [pc |-> "write", value |-> v, file |-> "tmp"] /\ tmp = Empty
       \/ save[s] = [pc |-> "rename", value |-> v] /\ tmp = v
  /\ InWrite = {s}

\* While what is at path came from a call that met no other, no call has that
\* file open.
FileInv ==
  /\ save = [s \in Savers |-> save[s]]
  /\ ~mixed => path = last /\ \A s \in Savers : ~Writing(s, "path")
  /\ \A s \in InWrite \ shared : AloneIn(s)

LEMMA WhereItIs ==
  /\ IdleSave.pc = "idle"
  /\ \A v : [pc |-> "write", value |-> v, file |-> "tmp"].pc = "write"
  /\ \A v : [pc |-> "rename", value |-> v].pc = "rename"
BY DEF IdleSave

LEMMA FileNextInv ==
  ASSUME FileInv, [FileNext]_fileVars
  PROVE  FileInv'
<1>1. ASSUME NEW s \in Savers, NEW v \in Snapshots, OpenTmp(s, v)
      PROVE  FileInv'
  <2>1. PICK new : new = [pc |-> "write", value |-> v, file |-> "tmp"]
    OBVIOUS
  <2>2. /\ tmp' = Empty /\ path' = path /\ last' = last /\ mixed' = mixed
        /\ save' = [save EXCEPT ![s] = new]
        /\ shared' = IF InWrite = {} THEN {} ELSE InWrite \cup {s}
    BY <1>1, <2>1 DEF OpenTmp
  <2>3. save' = [r \in Savers |-> save'[r]]
    BY <2>2 DEF FileInv
  <2>4. \A r \in Savers : save'[r] = IF r = s THEN new ELSE save[r]
    BY <2>2 DEF FileInv
  <2>5. new.pc = "write" /\ new.file = "tmp" /\ new # IdleSave
    BY <2>1 DEF IdleSave
  <2>6. InWrite' = InWrite \cup {s}
    BY <2>4, <2>5 DEF InWrite
  <2>7. \A r \in Savers : Writing(r, "path")' => Writing(r, "path")
    BY <2>4, <2>5 DEF Writing
  <2>8. ASSUME NEW r \in InWrite' \ shared'
        PROVE  AloneIn(r)'
    <3>1. InWrite = {} /\ r = s
      BY <2>2, <2>6, <2>8
    <3> QED
      BY <3>1, <2>1, <2>2, <2>4, <2>6 DEF AloneIn
  <2> QED
    BY <2>2, <2>3, <2>7, <2>8 DEF FileInv
<1>2. ASSUME NEW s \in Savers, WriteTmp(s) \/ WriteFails(s)
      PROVE  FileInv'
  <2>1. PICK new : /\ save' = [save EXCEPT ![s] = new]
                   /\ \/ new = [pc |-> "rename", value |-> save[s].value] /\ WriteTmp(s)
                      \/ new = IdleSave
                   /\ last' = last /\ mixed' = mixed /\ shared' = shared
    BY <1>2 DEF WriteTmp, WriteFails
  <2>2. save' = [r \in Savers |-> save'[r]]
    BY <2>1 DEF FileInv
  <2>3. \A r \in Savers : save'[r] = IF r = s THEN new ELSE save[r]
    BY <2>1 DEF FileInv
  <2>4. save[s].pc = "write" /\ s \in InWrite
    BY <1>2 DEF WriteTmp, WriteFails, InWrite, IdleSave
  <2>5. new.pc # "write"
    BY <2>1 DEF IdleSave
  <2>6. ASSUME ~mixed
        PROVE  path' = last' /\ \A r \in Savers : ~Writing(r, "path")'
    <3>1. path = last /\ \A r \in Savers : ~Writing(r, "path")
      BY <2>6 DEF FileInv
    <3>2. path' = path
      BY <1>2, <3>1 DEF WriteTmp, WriteFails, Fill
    <3> QED
      BY <3>1, <3>2, <2>1, <2>3, <2>5 DEF Writing
  <2>7. ASSUME NEW r \in InWrite' \ shared'
        PROVE  AloneIn(r)'
    <3>1. r \in InWrite \ shared
      BY <2>1, <2>3, <2>4, <2>7 DEF InWrite
    <3>2. AloneIn(r) /\ r = s
      BY <3>1, <2>4 DEF FileInv, AloneIn
    <3>3. new # IdleSave
      BY <3>2, <2>3, <2>7 DEF InWrite
    <3>4. PICK v \in Snapshots :
            save[s] = [pc |-> "write", value |-> v, file |-> "tmp"] /\ tmp = Empty
      BY <3>2, <2>4, WhereItIs DEF AloneIn
    <3>5. tmp' = Over(tmp, v)
      BY <3>3, <3>4, <2>1 DEF WriteTmp, Fill, Writing
    <3>6. tmp' = v
      <4>1. v \in Nat /\ tmp = 0
        BY <3>4, LengthsAreCounted DEF Snapshots, Empty
      <4> QED
        BY <3>5, <4>1 DEF Over
    <3>7. save'[s] = [pc |-> "rename", value |-> v]
      BY <3>3, <3>4, <2>1, <2>3
    <3>8. InWrite' = {s}
      BY <3>2, <3>3, <2>3 DEF AloneIn, InWrite
    <3> QED
      BY <3>2, <3>6, <3>7, <3>8 DEF AloneIn
  <2> QED
    BY <2>1, <2>2, <2>6, <2>7 DEF FileInv
<1>3. ASSUME NEW s \in Savers, Rename(s)
      PROVE  FileInv'
  <2>1. save[s].pc = "rename" /\ s \in InWrite /\ shared' = shared
    BY <1>3 DEF Rename, InWrite, IdleSave
  <2>2. save' = [r \in Savers |-> save'[r]]
    BY <1>3 DEF Rename, FileInv
  <2>3. save'[s] = IdleSave /\ InWrite' \subseteq InWrite \ {s}
    BY <1>3 DEF Rename, FileInv, InWrite, FileAfterRename, IdleSave
  <2>4. InWrite' \ shared' = {}
    BY <2>1, <2>3 DEF FileInv, AloneIn
  <2>5. ASSUME ~mixed'
        PROVE  path' = last' /\ \A r \in Savers : ~Writing(r, "path")'
    <3>1. CASE tmp = Absent
      <4>1. path' = path /\ last' = last /\ mixed' = mixed /\ save' = [save EXCEPT ![s] = IdleSave]
        BY <1>3, <3>1 DEF Rename
      <4>2. \A r \in Savers : save'[r] = IF r = s THEN IdleSave ELSE save[r]
        BY <4>1 DEF FileInv
      <4> QED
        BY <4>1, <4>2, <2>5, WhereItIs DEF FileInv, Writing
    <3>2. CASE tmp # Absent
      <4>1. /\ path' = tmp /\ last' = save[s].value /\ s \notin shared
        BY <1>3, <3>2, <2>5 DEF Rename
      <4>2. AloneIn(s)
        BY <4>1, <2>1 DEF FileInv
      <4>3. tmp = save[s].value
        BY <4>2, <2>1, WhereItIs DEF AloneIn
      <4>4. \A r \in Savers : save'[r] = IdleSave
        BY <4>2, <2>3 DEF AloneIn, InWrite
      <4> QED
        BY <4>1, <4>3, <4>4, WhereItIs DEF Writing
    <3> QED
      BY <3>1, <3>2
  <2> QED
    BY <2>2, <2>4, <2>5 DEF FileInv
<1>4. CASE CrashSaves
  <2>1. \A r \in Savers : save'[r] = IdleSave
    BY <1>4 DEF CrashSaves
  <2> QED
    BY <1>4, <2>1, WhereItIs DEF CrashSaves, FileInv, InWrite, Writing
<1>5. CASE UNCHANGED fileVars
  BY <1>5 DEF fileVars, FileInv, AloneIn, InWrite, Writing
<1> QED
  BY <1>1, <1>2, <1>3, <1>4, <1>5 DEF FileNext

\* For any savers and lengths, any failed writes and any crashes: the file is
\* what the last Write that succeeded was given, unless that one met another.
THEOREM SavedSnapshotIsThere == FileSpec => []LastSaveIsThere
<1>1. FileInit => FileInv
  BY WhereItIs DEF FileInit, FileInv, InWrite, Writing
<1>2. FileInv => LastSaveIsThere
  BY DEF FileInv, LastSaveIsThere
<1> QED
  BY <1>1, <1>2, FileNextInv, PTL DEF FileSpec

-----------------------------------------------------------------------------
(* BatchWriter                                                             *)

\* A batch is the samples that follow the first n, in order.
Follows(batch, n) == /\ batch \in Seq(Nat)
                     /\ \A k \in 1 .. Len(batch) : batch[k] = n + k

\* The first n samples went to the sink or were lost, once and in order.
HandedOn(n) ==
  /\ sunk \in Seq(Nat)
  /\ \A j, k \in 1 .. Len(sunk) : j < k => sunk[j] < sunk[k]
  /\ \A m : m \in 1 .. n <=> (m \in Elements(sunk) \/ m \in lost)
  /\ \A m \in lost : m \notin Elements(sunk)

Flushed == added - Len(pending)

WriterInv ==
  /\ added \in Nat /\ Len(pending) <= added /\ Len(pending) < BatchLimit
  /\ Follows(pending, Flushed) /\ HandedOn(Flushed)
  /\ late \in Nat /\ (stopped => late <= added + 1)
  /\ flusher = "returned" => stopped /\ late <= Flushed + 1

LEMMA ElementsOfBatch ==
  ASSUME NEW n \in Nat, NEW batch, Follows(batch, n)
  PROVE  \A m : m \in Elements(batch) <=> m \in (n + 1) .. (n + Len(batch))
<1>1. Len(batch) \in Nat /\ DOMAIN batch = 1 .. Len(batch)
  BY LenProperties DEF Follows
<1>2. \A k \in 1 .. Len(batch) : batch[k] = n + k
  BY DEF Follows
<1>3. ASSUME NEW m \in Elements(batch)
      PROVE  m \in (n + 1) .. (n + Len(batch))
  <2>1. PICK k \in 1 .. Len(batch) : m = batch[k]
    BY <1>1, <1>3 DEF Elements
  <2> QED
    BY <2>1, <1>1, <1>2
<1>4. ASSUME NEW m \in (n + 1) .. (n + Len(batch))
      PROVE  m \in Elements(batch)
  <2>1. m - n \in 1 .. Len(batch) /\ m = n + (m - n)
    BY <1>1
  <2>2. batch[m - n] = m
    BY <2>1, <1>2
  <2> QED
    BY <2>1, <2>2, <1>1 DEF Elements
<1> QED
  BY <1>3, <1>4

\* What is sent, with the next samples behind it.
LEMMA JoinedBatches ==
  ASSUME NEW n \in Nat, NEW s \in Seq(Nat), NEW batch, Follows(batch, n),
         \A j, k \in 1 .. Len(s) : j < k => s[j] < s[k],
         \A i \in Elements(s) : i \in 1 .. n
  PROVE  /\ s \o batch \in Seq(Nat)
         /\ \A j, k \in 1 .. Len(s \o batch) : j < k => (s \o batch)[j] < (s \o batch)[k]
         /\ \A i : i \in Elements(s \o batch) <=> (i \in Elements(s) \/ i \in Elements(batch))
<1> DEFINE m == n + Len(batch)
           joined == s \o batch
<1>1. /\ batch \in Seq(Nat) /\ Len(batch) \in Nat
      /\ \A k \in 1 .. Len(batch) : batch[k] = n + k
  BY LenProperties DEF Follows
<1>2. /\ Len(s) \in Nat /\ DOMAIN s = 1 .. Len(s)
      /\ \A j, k \in 1 .. Len(s) : j < k => s[j] < s[k]
      /\ \A i \in Elements(s) : i \in 1 .. n
  BY LenProperties
<1>3. \A i : i \in Elements(batch) <=> i \in (n + 1) .. m
  BY ElementsOfBatch
<1>4. /\ joined \in Seq(Nat) /\ Len(joined) = Len(s) + Len(batch)
      /\ \A i \in 1 .. Len(s) + Len(batch) :
           joined[i] = IF i <= Len(s) THEN s[i] ELSE batch[i - Len(s)]
  BY <1>1, <1>2, ConcatProperties
<1> HIDE DEF joined
<1>5. DOMAIN joined = 1 .. Len(s) + Len(batch)
  BY <1>4, LenProperties
<1>6. \A i \in 1 .. Len(s) : joined[i] = s[i] /\ s[i] \in 1 .. n
  <2> TAKE i \in 1 .. Len(s)
  <2>1. i \in 1 .. Len(s) + Len(batch) /\ i <= Len(s)
    BY <1>1, <1>2
  <2>2. s[i] \in Elements(s)
    BY <1>2 DEF Elements
  <2> QED
    BY <2>1, <2>2, <1>4, <1>2
<1>7. \A i \in (Len(s) + 1) .. (Len(s) + Len(batch)) :
        joined[i] = n + (i - Len(s)) /\ i - Len(s) \in 1 .. Len(batch)
  <2> TAKE i \in (Len(s) + 1) .. (Len(s) + Len(batch))
  <2>1. /\ i \in 1 .. Len(s) + Len(batch) /\ ~(i <= Len(s))
        /\ i - Len(s) \in 1 .. Len(batch)
    BY <1>1, <1>2
  <2> QED
    BY <2>1, <1>4, <1>1
<1>8. ASSUME NEW j \in 1 .. Len(joined), NEW k \in 1 .. Len(joined), j < k
      PROVE  joined[j] < joined[k]
  <2>1. CASE k <= Len(s)
    <3>1. j \in 1 .. Len(s) /\ k \in 1 .. Len(s)
      BY <1>8, <2>1, <1>2
    <3> QED
      BY <3>1, <1>6, <1>8, <1>2
  <2>2. CASE j <= Len(s) /\ ~(k <= Len(s))
    <3>1. j \in 1 .. Len(s) /\ k \in (Len(s) + 1) .. (Len(s) + Len(batch))
      BY <1>4, <1>8, <2>2, <1>1, <1>2
    <3>2. joined[j] \in 1 .. n
      BY <3>1, <1>6
    <3>3. joined[k] = n + (k - Len(s)) /\ k - Len(s) \in 1 .. Len(batch)
      BY <3>1, <1>7
    <3> QED
      BY <3>2, <3>3, <1>1, <1>2
  <2>3. CASE ~(j <= Len(s))
    <3>0. PICK l \in Nat, b \in Nat : l = Len(s) /\ b = Len(batch)
      BY <1>1, <1>2
    <3>1. /\ j \in (Len(s) + 1) .. (Len(s) + Len(batch))
          /\ k \in (Len(s) + 1) .. (Len(s) + Len(batch))
      <4>1. j \in 1 .. l + b /\ k \in 1 .. l + b /\ j < k /\ ~(j <= l)
        BY <3>0, <1>4, <1>8, <2>3
      <4>2. j \in (l + 1) .. (l + b) /\ k \in (l + 1) .. (l + b)
        BY <4>1
      <4> QED
        BY <3>0, <4>2
    <3>2. joined[j] = n + (j - Len(s)) /\ joined[k] = n + (k - Len(s))
      BY <3>1, <1>7
    <3> QED
      BY <3>1, <3>2, <1>8, <1>1, <1>2
  <2> QED
    BY <2>1, <2>2, <2>3
<1>9. \A i : i \in Elements(joined) <=> (i \in Elements(s) \/ i \in Elements(batch))
  <2>1. ASSUME NEW i \in Elements(joined)
        PROVE  i \in Elements(s) \/ i \in Elements(batch)
    <3>1. PICK k \in 1 .. Len(s) + Len(batch) : i = joined[k]
      BY <2>1, <1>5 DEF Elements
    <3>2. CASE k <= Len(s)
      <4>1. k \in 1 .. Len(s)
        BY <3>1, <3>2, <1>2
      <4> QED
        BY <3>1, <4>1, <1>6, <1>2 DEF Elements
    <3>3. CASE ~(k <= Len(s))
      <4>1. k \in (Len(s) + 1) .. (Len(s) + Len(batch))
        BY <3>1, <3>3, <1>1, <1>2
      <4>2. i = n + (k - Len(s)) /\ k - Len(s) \in 1 .. Len(batch)
        BY <3>1, <4>1, <1>7
      <4>3. i \in (n + 1) .. m
        BY <4>2, <1>1
      <4> QED
        BY <4>3, <1>3
    <3> QED
      BY <3>2, <3>3
  <2>2. ASSUME NEW i \in Elements(s)
        PROVE  i \in Elements(joined)
    <3>1. PICK k \in 1 .. Len(s) : i = s[k]
      BY <2>2, <1>2 DEF Elements
    <3>2. k \in DOMAIN joined /\ joined[k] = i
      BY <3>1, <1>5, <1>6, <1>1, <1>2
    <3> QED
      BY <3>2 DEF Elements
  <2>3. ASSUME NEW i \in Elements(batch)
        PROVE  i \in Elements(joined)
    <3>1. i \in (n + 1) .. m
      BY <2>3, <1>3
    <3>2. Len(s) + (i - n) \in (Len(s) + 1) .. (Len(s) + Len(batch))
      <4>1. i \in Int /\ n + 1 <= i /\ i <= n + Len(batch)
        BY <3>1, <1>1
      <4> QED
        BY <4>1, <1>1, <1>2
    <3>3. PICK k \in (Len(s) + 1) .. (Len(s) + Len(batch)) : k = Len(s) + (i - n)
      BY <3>2
    <3>4. joined[k] = i
      <4>1. joined[k] = n + (k - Len(s))
        BY <1>7
      <4>2. i \in Int
        BY <3>1, <1>1
      <4> QED
        BY <4>1, <4>2, <3>3, <1>2
    <3>5. k \in DOMAIN joined
      BY <3>3, <1>5, <1>1, <1>2
    <3> QED
      BY <3>4, <3>5 DEF Elements
  <2> QED
    BY <2>1, <2>2, <2>3
<1> QED
  BY <1>4, <1>8, <1>9 DEF joined

\* A batch the sink takes goes behind what it has, a refused one among the lost.
LEMMA FlushSendsAll ==
  ASSUME NEW n \in Nat, NEW batch, Follows(batch, n), HandedOn(n), FlushOf(batch)
  PROVE  pending' = << >> /\ HandedOn(n + Len(batch))'
<1> DEFINE m == n + Len(batch)
<1>1. /\ batch \in Seq(Nat) /\ Len(batch) \in Nat
      /\ \A k \in 1 .. Len(batch) : batch[k] = n + k
  BY LenProperties DEF Follows
<1>2. /\ sunk \in Seq(Nat) /\ Len(sunk) \in Nat /\ DOMAIN sunk = 1 .. Len(sunk)
      /\ \A j, k \in 1 .. Len(sunk) : j < k => sunk[j] < sunk[k]
      /\ \A i : i \in 1 .. n <=> (i \in Elements(sunk) \/ i \in lost)
      /\ \A i \in lost : i \notin Elements(sunk)
  BY LenProperties DEF HandedOn
<1>3. \A i : i \in Elements(batch) <=> i \in (n + 1) .. m
  BY ElementsOfBatch
<1>4. \A i : i \in 1 .. m <=> (i \in 1 .. n \/ i \in (n + 1) .. m)
  BY <1>1
<1>5. \A i : i \in 1 .. n => i \notin (n + 1) .. m
  BY <1>1
<1>6. pending' = << >>
  BY DEF FlushOf
<1>7. CASE sunk' = sunk \o batch /\ lost' = lost
  <2>1. Follows(batch, n) /\ (\A i \in Elements(sunk) : i \in 1 .. n)
    BY <1>2
  <2>2. /\ sunk' \in Seq(Nat)
        /\ \A j, k \in 1 .. Len(sunk') : j < k => sunk'[j] < sunk'[k]
        /\ \A i : i \in Elements(sunk') <=> (i \in Elements(sunk) \/ i \in Elements(batch))
    BY <2>1, <1>2, <1>7, JoinedBatches
  <2>3. \A i : i \in 1 .. m <=> (i \in Elements(sunk') \/ i \in lost')
    BY <2>2, <1>2, <1>3, <1>4, <1>7
  <2>4. \A i \in lost' : i \notin Elements(sunk')
    BY <2>2, <1>2, <1>3, <1>5, <1>7
  <2>5. Elements(sunk)' = Elements(sunk') /\ m' = m
    BY DEF Elements
  <2> QED
    BY <2>2, <2>3, <2>4, <2>5, <1>6 DEF HandedOn
<1>8. CASE lost' = lost \cup Elements(batch) /\ sunk' = sunk
  <2>1. \A i : i \in 1 .. m <=> (i \in Elements(sunk) \/ i \in lost')
    BY <1>2, <1>3, <1>4, <1>8
  <2>2. \A i \in lost' : i \notin Elements(sunk)
    BY <1>2, <1>3, <1>5, <1>8
  <2> QED
    BY <2>1, <2>2, <1>2, <1>6, <1>8 DEF HandedOn
<1> QED
  BY <1>7, <1>8 DEF FlushOf

LEMMA WriterInitInv == WriterInit => WriterInv
<1> SUFFICES ASSUME WriterInit
             PROVE  WriterInv
  OBVIOUS
<1>1. /\ pending = << >> /\ added = 0 /\ sunk = << >> /\ lost = {}
      /\ stopped = FALSE /\ late = 0 /\ flusher = "on"
  BY DEF WriterInit
<1>2. Len(<< >>) = 0 /\ << >> \in Seq(Nat)
  BY EmptySeq
<1>3. Flushed = 0
  <2>1. Len(pending) = 0
    BY <1>1, <1>2
  <2> QED
    BY <2>1, <1>1 DEF Flushed
<1>4. Follows(pending, 0) /\ HandedOn(0)
  BY <1>1, <1>2 DEF Follows, HandedOn, Elements
<1> QED
  BY <1>1, <1>2, <1>3, <1>4, WriterNumbers DEF WriterInv

LEMMA WriterFacts ==
  ASSUME WriterInv
  PROVE  /\ added \in Nat /\ pending \in Seq(Nat) /\ Len(pending) \in Nat
         /\ Flushed \in Nat /\ Flushed + Len(pending) = added
         /\ Follows(pending, Flushed) /\ HandedOn(Flushed)
BY LenProperties DEF WriterInv, Follows, Flushed

\* A flush of the whole buffer, by Flush or by the flusher that returns.
LEMMA FlushEmpties ==
  ASSUME WriterInv, FlushOf(pending), added' = added
  PROVE  /\ pending' = << >> /\ Len(pending') = 0
         /\ Flushed' = added /\ Follows(pending, Flushed)' /\ HandedOn(Flushed)'
<1>1. PICK n \in Nat : n = Flushed
  BY WriterFacts
<1>2. PICK batch : batch = pending
  OBVIOUS
<1>3. Follows(batch, n) /\ HandedOn(n) /\ FlushOf(batch) /\ n + Len(batch) = added
  BY <1>1, <1>2, WriterFacts
<1>4. pending' = << >> /\ HandedOn(n + Len(batch))'
  BY <1>3, FlushSendsAll
<1>5. PICK m : m = n + Len(batch)
  OBVIOUS
<1>6. HandedOn(m)'
  BY <1>4, <1>5
<1>7. Len(pending') = 0 /\ pending' \in Seq(Nat)
  BY <1>4, EmptySeq
<1>8. Flushed' = m /\ m = added
  BY <1>3, <1>5, <1>7, WriterFacts DEF Flushed
<1>9. Follows(pending, Flushed)'
  BY <1>7 DEF Follows
<1> QED
  BY <1>4, <1>6, <1>7, <1>8, <1>9

LEMMA WriterNextInv ==
  ASSUME WriterInv, [WriterNext]_writerVars
  PROVE  WriterInv'
<1>0. /\ added \in Nat /\ Len(pending) \in Nat /\ Len(pending) < BatchLimit
      /\ late \in Nat /\ (stopped => late <= added + 1)
      /\ flusher = "returned" => stopped /\ late <= Flushed + 1
      /\ Flushed \in Nat /\ Flushed + Len(pending) = added
  BY WriterFacts DEF WriterInv
<1>1. CASE AddSample
  <2>1. PICK grown : grown = Append(pending, added + 1)
    OBVIOUS
  <2>2. PICK n \in Nat : n = Flushed
    BY WriterFacts
  <2>3. /\ grown \in Seq(Nat) /\ Len(grown) = Len(pending) + 1
        /\ \A k \in 1 .. Len(pending) : grown[k] = pending[k]
        /\ grown[Len(pending) + 1] = added + 1
    BY <2>1, <1>0, WriterFacts, AppendProperties
  <2>4. Follows(grown, n)
    <3>1. \A k \in 1 .. Len(pending) : pending[k] = n + k
      BY <2>2, WriterFacts DEF Follows
    <3>2. \A k \in 1 .. Len(grown) : k \in 1 .. Len(pending) \/ k = Len(pending) + 1
      BY <2>3, <1>0
    <3>3. added + 1 = n + (Len(pending) + 1)
      BY <2>2, <1>0
    <3> QED
      BY <3>1, <3>2, <3>3, <2>3 DEF Follows
  <2>5. HandedOn(n)
    BY <2>2, WriterFacts
  <2>6. added' = added + 1 /\ UNCHANGED <<stopped, late, flusher>>
    BY <1>1 DEF AddSample
  <2>7. CASE FlushOf(grown)
    <3>1. pending' = << >> /\ HandedOn(n + Len(grown))'
      BY <2>4, <2>5, <2>7, FlushSendsAll
    <3>2. PICK m : m = n + Len(grown)
      OBVIOUS
    <3>3. HandedOn(m)' /\ m = added + 1
      BY <3>1, <3>2, <2>2, <2>3, <1>0
    <3>4. Len(pending') = 0 /\ pending' \in Seq(Nat)
      BY <3>1, EmptySeq
    <3>5. Flushed' = m /\ Follows(pending, Flushed)'
      BY <3>3, <3>4, <2>6, <1>0 DEF Flushed, Follows
    <3>6. HandedOn(Flushed)'
      BY <3>3, <3>5
    <3> QED
      BY <3>3, <3>4, <3>5, <3>6, <2>2, <2>6, <1>0, WriterNumbers DEF WriterInv
  <2>8. CASE Len(grown) < BatchLimit /\ pending' = grown /\ UNCHANGED <<sunk, lost>>
    <3>1. Flushed' = n
      BY <2>2, <2>3, <2>6, <2>8, <1>0 DEF Flushed
    <3>2. Follows(pending, Flushed)'
      BY <3>1, <2>4, <2>8 DEF Follows
    <3>3. HandedOn(Flushed)'
      BY <3>1, <2>5, <2>8 DEF HandedOn, Elements
    <3> QED
      BY <3>1, <3>2, <3>3, <2>2, <2>3, <2>6, <2>8, <1>0 DEF WriterInv
  <2> QED
    BY <1>1, <2>1, <2>7, <2>8 DEF AddSample
<1>2. CASE Flush
  <2>1. FlushOf(pending) /\ UNCHANGED <<added, stopped, late, flusher>>
    BY <1>2 DEF Flush
  <2>2. Len(pending') = 0 /\ Flushed' = added /\ Follows(pending, Flushed)' /\ HandedOn(Flushed)'
    BY <2>1, FlushEmpties
  <2> QED
    BY <2>1, <2>2, <1>0, WriterNumbers DEF WriterInv
<1>3. CASE FlushTick
  BY <1>2, <1>3 DEF FlushTick
<1>4. CASE CloseStop
  <2>1. ~stopped /\ stopped' = TRUE /\ late' = added + 1 /\ UNCHANGED <<pending, added, sunk, lost, flusher>>
    BY <1>4 DEF CloseStop
  <2>2. Flushed' = Flushed /\ (HandedOn(Flushed)' <=> HandedOn(Flushed))
        /\ (Follows(pending, Flushed)' <=> Follows(pending, Flushed))
    BY <2>1 DEF Flushed, HandedOn, Follows, Elements
  <2> QED
    BY <2>1, <2>2, <1>0 DEF WriterInv
<1>5. CASE FlushOnStop
  <2>1. stopped /\ flusher' = "returned" /\ FlushOf(pending) /\ UNCHANGED <<added, stopped, late>>
    BY <1>5 DEF FlushOnStop
  <2>2. Len(pending') = 0 /\ Flushed' = added /\ Follows(pending, Flushed)' /\ HandedOn(Flushed)'
    BY <2>1, FlushEmpties
  <2> QED
    BY <2>1, <2>2, <1>0, WriterNumbers DEF WriterInv
<1>6. CASE UNCHANGED writerVars
  BY <1>6 DEF writerVars, WriterInv, Flushed, Follows, HandedOn, Elements
<1> QED
  BY <1>1, <1>2, <1>3, <1>4, <1>5, <1>6 DEF WriterNext

\* For any batch size, any number of samples and of calls that interleave:
\* a sample is in the sink once, refused or buffered, the buffer is the newest
\* samples, and what was added before stop was closed is out of it when
\* PeriodicallyFlush has returned.
THEOREM EverySampleHasOnePlace == WriterSpec => []EachSampleOnce
<1>1. WriterInv => EachSampleOnce
  <2> SUFFICES ASSUME WriterInv
               PROVE  EachSampleOnce
    OBVIOUS
  <2> DEFINE kept == sunk \o pending
  <2>1. /\ added \in Nat /\ Len(pending) \in Nat /\ Flushed \in Nat
        /\ Flushed + Len(pending) = added /\ Flushed = added - Len(pending)
        /\ pending \in Seq(Nat) /\ \A k \in 1 .. Len(pending) : pending[k] = Flushed + k
    BY WriterFacts DEF Follows, Flushed
  <2>2. /\ sunk \in Seq(Nat) /\ Len(sunk) \in Nat /\ DOMAIN sunk = 1 .. Len(sunk)
        /\ \A j, k \in 1 .. Len(sunk) : j < k => sunk[j] < sunk[k]
        /\ \A i : i \in 1 .. Flushed <=> (i \in Elements(sunk) \/ i \in lost)
        /\ \A i \in lost : i \notin Elements(sunk)
    BY WriterFacts, LenProperties DEF HandedOn
  <2>3. \A i : i \in Elements(pending) <=> i \in (Flushed + 1) .. added
    <3>1. Follows(pending, Flushed) /\ Flushed \in Nat
      BY WriterFacts
    <3> QED
      BY <3>1, <2>1, ElementsOfBatch
  <2>4. \A i \in Elements(sunk) : i \in 1 .. Flushed
    BY <2>2
  <2>5. PICK n \in Nat : n = Flushed
    BY <2>1
  <2>6. /\ kept \in Seq(Nat)
        /\ \A j, k \in 1 .. Len(kept) : j < k => kept[j] < kept[k]
        /\ \A i : i \in Elements(kept) <=> (i \in Elements(sunk) \/ i \in Elements(pending))
    <3>1. Follows(pending, n)
      BY <2>5, WriterFacts
    <3> QED
      BY <3>1, <2>2, <2>4, <2>5, JoinedBatches
  <2>7. \A j, k \in DOMAIN kept : j < k => kept[j] < kept[k]
    BY <2>6, LenProperties
  <2> HIDE DEF kept
  <2>8. \A i : i \in 1 .. added <=> (i \in 1 .. Flushed \/ i \in (Flushed + 1) .. added)
    BY <2>1
  <2>9. \A i : ~(i \in 1 .. Flushed /\ i \in (Flushed + 1) .. added)
    BY <2>1
  <2>10. Elements(kept) \cap lost = {}
    BY <2>2, <2>3, <2>6, <2>9
  <2>11. Elements(kept) \cup lost = 1 .. added
    BY <2>2, <2>3, <2>6, <2>8
  <2>12. Elements(pending) = (added - Len(pending) + 1) .. added
    BY <2>1, <2>3
  <2>13. ASSUME flusher = "returned", NEW i \in Elements(pending)
         PROVE  i >= late
    <3>1. late \in Nat /\ late <= Flushed + 1 /\ i \in (Flushed + 1) .. added
      BY <2>3, <2>13 DEF WriterInv
    <3> QED
      BY <3>1, <2>1
  <2>14. Len(pending) < BatchLimit
    BY DEF WriterInv
  <2> QED
    BY <2>7, <2>10, <2>11, <2>12, <2>13, <2>14 DEF EachSampleOnce, kept
<1> QED
  BY <1>1, WriterInitInv, WriterNextInv, PTL DEF WriterSpec

-----------------------------------------------------------------------------
(* IngestPool: the ingestion pool is a sample log.                         *)

PoolTypeOK ==
  /\ phase \in [Calls -> {"sending", "waiting", "returned"}]
  /\ result \in [Calls -> {"none", "all", "cancelled"}]
  /\ cancelled \subseteq Calls
  /\ sent \in [Calls -> Nat] /\ taken \in [Calls -> Nat]
  /\ worker \in [Calls -> [Pool -> {Selecting, Gone} \cup {Hand(i) : i \in Nat}]]
  /\ log \in [Turbines -> Seq(Calls \X Nat)]

\* The channel, and what the end of the sending loop says of it.
Channel ==
  \A c \in Calls :
    /\ taken[c] <= sent[c] /\ sent[c] <= Len(Batch[c])
    /\ phase[c] = "sending" <=> result[c] = "none"
    /\ result[c] = "all" => sent[c] = Len(Batch[c])
    /\ result[c] = "cancelled" => c \in cancelled /\ sent[c] < Len(Batch[c])
    /\ phase[c] = "returned" => \A w \in Pool : worker[c][w] = Gone

Logged(c, i) == \E t \in Turbines : \E k \in DOMAIN log[t] : log[t][k] = <<c, i>>

\* A sample in a hand was taken, is in no other hand, and is not in the log.
OneHand ==
  \A c \in Calls : \A w \in Pool : \A i \in Nat : worker[c][w] = Hand(i) =>
    /\ i \in 1 .. taken[c]
    /\ ~Logged(c, i)
    /\ \A v \in Pool : worker[c][v] = Hand(i) => v = w

\* A sample in the log was taken, and is where its turbine says.
Home ==
  \A t \in Turbines : \A k \in DOMAIN log[t] :
    /\ log[t][k][2] \in 1 .. taken[log[t][k][1]]
    /\ Batch[log[t][k][1]][log[t][k][2]] = t

\* A sample that was taken and will not be refused is in a hand or in the log.
Arrived ==
  \A c \in Calls : \A i \in 1 .. taken[c] : Batch[c][i] # NoTurbine =>
    (\E w \in Pool : worker[c][w] = Hand(i)) \/ Logged(c, i)

Left(c) == {w \in Pool : worker[c][w] = Gone}

\* The samples that were refused.
Spent(c) == {i \in 1 .. taken[c] : /\ Batch[c][i] = NoTurbine
                                   /\ \A w \in Pool : worker[c][w] # Hand(i)}

Drained(c) == phase[c] # "sending" /\ taken[c] = sent[c]

\* Until a call is cancelled or has drained its channel, each worker that left
\* it was the cost of a refused sample.
Costs == \A c \in Calls \ cancelled :
           Drained(c) \/ Cardinality(Left(c)) <= Cardinality(Spent(c))

PoolInv == PoolTypeOK /\ Channel /\ OneHand /\ Home /\ Arrived /\ Costs

-----------------------------------------------------------------------------

\* What a worker does tells it from the others.
LEMMA HandsDiffer ==
  /\ Selecting # Gone
  /\ \A i : Hand(i) # Selecting /\ Hand(i) # Gone
  /\ \A i, j : Hand(i) = Hand(j) => i = j
BY DEF Selecting, Gone, Hand

\* The sets that are counted are finite.
LEMMA Countable ==
  ASSUME PoolTypeOK, NEW c \in Calls
  PROVE  /\ IsFiniteSet(Pool) /\ Cardinality(Pool) = Workers
         /\ IsFiniteSet(Left(c)) /\ Cardinality(Left(c)) \in Nat
         /\ IsFiniteSet(Spent(c)) /\ Cardinality(Spent(c)) \in Nat
<1>1. IsFiniteSet(Pool) /\ Cardinality(Pool) = Workers
  BY PoolNumbers, FS_Interval DEF Pool
<1>2. IsFiniteSet(Left(c))
  BY <1>1, FS_Subset DEF Left
<1>3. IsFiniteSet(Spent(c))
  <2>1. taken[c] \in Nat
    BY DEF PoolTypeOK
  <2>2. IsFiniteSet(1 .. taken[c])
    BY <2>1, FS_Interval
  <2>3. Spent(c) \subseteq 1 .. taken[c]
    BY DEF Spent
  <2> QED
    BY <2>2, <2>3, FS_Subset
<1> QED
  BY <1>1, <1>2, <1>3, FS_CardinalityType

\* A batch and its samples.
LEMMA BatchProperties ==
  ASSUME NEW c \in Calls
  PROVE  /\ Len(Batch[c]) \in Nat /\ DOMAIN Batch[c] = 1 .. Len(Batch[c])
         /\ \A i \in 1 .. Len(Batch[c]) : Batch[c][i] \in Turbines \cup {NoTurbine}
BY BatchTypes, LenProperties, ElementOfSeq

\* What an appended sample does to the log.
LEMMA LogAppend ==
  ASSUME PoolTypeOK, NEW c \in Calls, NEW i \in Nat, NEW t \in Turbines,
         log' = [log EXCEPT ![t] = Append(@, <<c, i>>)]
  PROVE  /\ log' \in [Turbines -> Seq(Calls \X Nat)]
         /\ \A u \in Turbines : \A k \in DOMAIN log'[u] :
              \/ k \in DOMAIN log[u] /\ log'[u][k] = log[u][k]
              \/ u = t /\ log'[u][k] = <<c, i>>
         /\ \A d, j : Logged(d, j)' <=> Logged(d, j) \/ (d = c /\ j = i)
<1>1. log[t] \in Seq(Calls \X Nat) /\ <<c, i>> \in Calls \X Nat
  BY DEF PoolTypeOK
<1>2. /\ Append(log[t], <<c, i>>) \in Seq(Calls \X Nat)
      /\ Len(Append(log[t], <<c, i>>)) = Len(log[t]) + 1
      /\ \A k \in 1 .. Len(log[t]) : Append(log[t], <<c, i>>)[k] = log[t][k]
      /\ Append(log[t], <<c, i>>)[Len(log[t]) + 1] = <<c, i>>
  BY <1>1, AppendProperties
<1>3. /\ Len(log[t]) \in Nat /\ DOMAIN log[t] = 1 .. Len(log[t])
      /\ DOMAIN Append(log[t], <<c, i>>) = 1 .. Len(log[t]) + 1
  BY <1>1, <1>2, LenProperties
<1>4. /\ log'[t] = Append(log[t], <<c, i>>)
      /\ \A u \in Turbines \ {t} : log'[u] = log[u]
  BY DEF PoolTypeOK
<1>5. log' \in [Turbines -> Seq(Calls \X Nat)]
  BY <1>2 DEF PoolTypeOK
<1>6. \A u \in Turbines : \A k \in DOMAIN log'[u] :
        \/ k \in DOMAIN log[u] /\ log'[u][k] = log[u][k]
        \/ u = t /\ log'[u][k] = <<c, i>>
  BY <1>2, <1>3, <1>4
<1>7. \A u \in Turbines : \A k \in DOMAIN log[u] : k \in DOMAIN log'[u] /\ log'[u][k] = log[u][k]
  BY <1>2, <1>3, <1>4
<1>8. Len(log[t]) + 1 \in DOMAIN log'[t] /\ log'[t][Len(log[t]) + 1] = <<c, i>>
  BY <1>2, <1>3, <1>4
<1>9. ASSUME NEW d, NEW j
      PROVE  Logged(d, j)' <=> Logged(d, j) \/ (d = c /\ j = i)
  <2>1. ASSUME Logged(d, j)'
        PROVE  Logged(d, j) \/ (d = c /\ j = i)
    <3>1. PICK u \in Turbines : \E k \in DOMAIN log'[u] : log'[u][k] = <<d, j>>
      BY <2>1 DEF Logged
    <3>2. PICK k \in DOMAIN log'[u] : log'[u][k] = <<d, j>>
      BY <3>1
    <3> QED
      BY <3>2, <1>6 DEF Logged
  <2>2. Logged(d, j) => Logged(d, j)'
    BY <1>7 DEF Logged
  <2>3. Logged(c, i)'
    BY <1>8 DEF Logged
  <2> QED
    BY <2>1, <2>2, <2>3
<1> QED
  BY <1>5, <1>6, <1>9

-----------------------------------------------------------------------------
(***************************************************************************)
(* The invariant is inductive.                                             *)
(***************************************************************************)

LEMMA PoolInitInv == Init => PoolInv
<1> SUFFICES ASSUME Init PROVE PoolInv
  OBVIOUS
<1>1. PoolTypeOK
  BY DEF Init, PoolTypeOK, Pool
<1>2. Channel
  BY BatchProperties DEF Init, Channel
<1>3. OneHand /\ Home /\ Arrived
  BY HandsDiffer DEF Init, OneHand, Home, Arrived
<1>4. Costs
  <2>1. \A c \in Calls : Left(c) = {} /\ Cardinality(Spent(c)) \in Nat
    BY <1>1, Countable, HandsDiffer DEF Init, Left
  <2> QED
    BY <2>1, FS_EmptySet DEF Costs
<1> QED
  BY <1>1, <1>2, <1>3, <1>4 DEF PoolInv

\* A step that touches neither the samples' places nor the workers.
LEMMA PlacesKept ==
  ASSUME PoolInv, UNCHANGED <<taken, worker, log>>
  PROVE  /\ OneHand' /\ Home' /\ Arrived'
         /\ \A c : Left(c)' = Left(c) /\ Spent(c)' = Spent(c)
<1>1. \A c, i : Logged(c, i)' <=> Logged(c, i)
  BY DEF Logged
<1>2. OneHand'
  BY <1>1 DEF PoolInv, OneHand
<1>3. Home' /\ Arrived'
  BY <1>1 DEF PoolInv, Home, Arrived
<1> QED
  BY <1>2, <1>3 DEF Left, Spent

LEMMA SendKeeps ==
  ASSUME PoolInv, NEW c \in Calls, Send(c)
  PROVE  PoolInv'
<1>1. PoolTypeOK'
  BY DEF PoolInv, PoolTypeOK, Send
<1>2. Channel'
  BY BatchProperties DEF PoolInv, PoolTypeOK, Channel, Send
<1>3. Costs'
  BY PlacesKept DEF PoolInv, PoolTypeOK, Costs, Drained, Send
<1> QED
  BY <1>1, <1>2, <1>3, PlacesKept DEF PoolInv, Send

LEMMA CloseKeeps ==
  ASSUME PoolInv, NEW c \in Calls, CloseAll(c) \/ CloseCancelled(c)
  PROVE  PoolInv'
<1>1. PoolTypeOK'
  BY DEF PoolInv, PoolTypeOK, CloseAll, CloseCancelled, Close
<1>2. Channel'
  <2>1. CASE CloseAll(c)
    BY <2>1, BatchProperties DEF PoolInv, PoolTypeOK, Channel, CloseAll, Close
  <2>2. CASE CloseCancelled(c)
    BY <2>2, BatchProperties DEF PoolInv, PoolTypeOK, Channel, CloseCancelled, Close
  <2> QED
    BY <2>1, <2>2
<1>3. Costs'
  BY PlacesKept DEF PoolInv, PoolTypeOK, Costs, Drained, CloseAll, CloseCancelled, Close
<1> QED
  BY <1>1, <1>2, <1>3, PlacesKept DEF PoolInv, CloseAll, CloseCancelled, Close

LEMMA ReturnKeeps ==
  ASSUME PoolInv, NEW c \in Calls, Return(c)
  PROVE  PoolInv'
<1>1. PoolTypeOK'
  BY DEF PoolInv, PoolTypeOK, Return
<1>2. Channel'
  BY DEF PoolInv, PoolTypeOK, Channel, Return
<1>3. Costs'
  BY PlacesKept DEF PoolInv, PoolTypeOK, Costs, Drained, Return
<1> QED
  BY <1>1, <1>2, <1>3, PlacesKept DEF PoolInv, Return

LEMMA CancelKeeps ==
  ASSUME PoolInv, NEW c \in Calls, Cancel(c)
  PROVE  PoolInv'
<1>1. PoolTypeOK' /\ Channel'
  BY DEF PoolInv, PoolTypeOK, Channel, Cancel
<1>2. Costs'
  BY PlacesKept DEF PoolInv, Costs, Drained, Cancel
<1> QED
  BY <1>1, <1>2, PlacesKept DEF PoolInv, Cancel

\* The next sample goes to a hand.
LEMMA PoolTakeKeeps ==
  ASSUME PoolInv, NEW c \in Calls, NEW w \in Pool, WorkerTake(c, w)
  PROVE  PoolInv'
<1> DEFINE new == taken[c] + 1
<1>1. /\ new \in Nat \ {0} /\ new <= sent[c]
      /\ taken' = [taken EXCEPT ![c] = new]
      /\ worker' = [worker EXCEPT ![c][w] = Hand(new)]
      /\ worker[c][w] = Selecting
  BY DEF PoolInv, PoolTypeOK, WorkerTake, Become
<1>2. PoolTypeOK'
  BY <1>1 DEF PoolInv, PoolTypeOK, WorkerTake
<1>3. /\ \A d \in Calls \ {c} : worker'[d] = worker[d] /\ taken'[d] = taken[d]
      /\ \A v \in Pool \ {w} : worker'[c][v] = worker[c][v]
      /\ worker'[c][w] = Hand(new) /\ taken'[c] = new
  BY <1>1 DEF PoolInv, PoolTypeOK
<1>4. \A d, i : Logged(d, i)' <=> Logged(d, i)
  BY DEF WorkerTake, Logged
<1>5. \A i : Logged(c, i) => i \in 1 .. taken[c]
  BY DEF PoolInv, Home, Logged
<1>6. Channel'
  BY <1>1, <1>3, HandsDiffer DEF PoolInv, PoolTypeOK, Channel, WorkerTake
<1>7. OneHand'
  <2> SUFFICES ASSUME NEW d \in Calls, NEW u \in Pool, NEW i \in Nat, worker'[d][u] = Hand(i)
               PROVE  /\ i \in 1 .. taken'[d]
                      /\ ~Logged(d, i)'
                      /\ \A v \in Pool : worker'[d][v] = Hand(i) => v = u
    BY DEF OneHand
  <2>1. CASE d # c
    BY <2>1, <1>3, <1>4 DEF PoolInv, OneHand
  <2>2. CASE d = c /\ u = w
    <3>1. i = new
      BY <2>2, <1>3, HandsDiffer
    <3>2. \A v \in Pool : worker[c][v] # Hand(new)
      BY <1>1 DEF PoolInv, PoolTypeOK, OneHand
    <3> QED
      BY <2>2, <3>1, <3>2, <1>1, <1>3, <1>4, <1>5 DEF PoolInv, PoolTypeOK
  <2>3. CASE d = c /\ u # w
    <3>1. worker[c][u] = Hand(i)
      BY <2>3, <1>3
    <3>2. /\ i \in 1 .. taken[c] /\ ~Logged(c, i)
          /\ \A v \in Pool : worker[c][v] = Hand(i) => v = u
      BY <3>1 DEF PoolInv, OneHand
    <3>3. Hand(i) # Hand(new) /\ i \in 1 .. new
      BY <3>2, HandsDiffer DEF PoolInv, PoolTypeOK
    <3> QED
      BY <2>3, <3>2, <3>3, <1>3, <1>4
  <2> QED
    BY <2>1, <2>2, <2>3
<1>8. Home'
  <2> SUFFICES ASSUME NEW t \in Turbines, NEW k \in DOMAIN log[t]
               PROVE  log[t][k][2] \in 1 .. taken'[log[t][k][1]]
    BY DEF PoolInv, Home, WorkerTake
  <2>1. log[t][k] \in Calls \X Nat
    BY ElementOfSeq, LenProperties DEF PoolInv, PoolTypeOK
  <2> QED
    BY <2>1, <1>3, <1>1 DEF PoolInv, PoolTypeOK, Home
<1>9. Arrived'
  <2> SUFFICES ASSUME NEW d \in Calls, NEW i \in 1 .. taken'[d], Batch[d][i] # NoTurbine
               PROVE  (\E v \in Pool : worker'[d][v] = Hand(i)) \/ Logged(d, i)'
    BY DEF Arrived
  <2>1. CASE d # c
    BY <2>1, <1>3, <1>4 DEF PoolInv, Arrived
  <2>2. CASE d = c /\ i = new
    BY <2>2, <1>3
  <2>3. CASE d = c /\ i # new
    <3>1. i \in 1 .. taken[c]
      BY <2>3, <1>3 DEF PoolInv, PoolTypeOK
    <3>2. (\E v \in Pool : worker[c][v] = Hand(i)) \/ Logged(c, i)
      BY <3>1, <2>3 DEF PoolInv, Arrived
    <3>3. worker[c][w] # Hand(i)
      BY <1>1, HandsDiffer
    <3> QED
      BY <2>3, <3>2, <3>3, <1>3, <1>4
  <2> QED
    BY <2>1, <2>2, <2>3
<1>10. Costs'
  <2> SUFFICES ASSUME NEW d \in Calls \ cancelled, ~Drained(d)'
               PROVE  Cardinality(Left(d)') <= Cardinality(Spent(d)')
    BY DEF Costs, WorkerTake
  <2>1. CASE d # c
    <3>1. Left(d)' = Left(d) /\ Spent(d)' = Spent(d) /\ ~Drained(d)
      BY <2>1, <1>3 DEF Left, Spent, Drained, WorkerTake
    <3> QED
      BY <3>1 DEF PoolInv, Costs
  <2>2. CASE d = c
    <3>1. ~Drained(c)
      BY <1>1 DEF Drained, PoolInv, PoolTypeOK
    <3>2. Left(c)' = Left(c)
      BY <1>1, <1>3, HandsDiffer DEF Left
    <3>3. Spent(c)' = Spent(c)
      <4>1. \A i \in 1 .. taken[c] : worker'[c][w] # Hand(i) /\ worker[c][w] # Hand(i)
        BY <1>1, <1>3, HandsDiffer DEF PoolInv, PoolTypeOK
      <4>2. \A i \in 1 .. new : i \in 1 .. taken[c] \/ i = new
        BY DEF PoolInv, PoolTypeOK
      <4>3. new \notin Spent(c)' /\ \A i \in 1 .. taken[c] : i \in 1 .. new
        BY <1>3 DEF Spent, PoolInv, PoolTypeOK
      <4> QED
        BY <4>1, <4>2, <4>3, <1>3 DEF Spent
    <3> QED
      BY <2>2, <3>1, <3>2, <3>3 DEF PoolInv, Costs
  <2> QED
    BY <2>1, <2>2
<1> QED
  BY <1>2, <1>6, <1>7, <1>8, <1>9, <1>10 DEF PoolInv

\* Who is about to append has a sample in hand.
LEMMA HandOf ==
  ASSUME PoolTypeOK, NEW c \in Calls, NEW w \in Pool, worker[c][w].pc = "append"
  PROVE  worker[c][w].sample \in Nat /\ worker[c][w] = Hand(worker[c][w].sample)
<1>1. worker[c][w] \in {Selecting, Gone} \cup {Hand(i) : i \in Nat}
  BY DEF PoolTypeOK
<1> QED
  BY <1>1 DEF Selecting, Gone, Hand

\* A worker that leaves, with or without a sample that is refused.
LEMMA LeaveKeeps ==
  ASSUME PoolInv, NEW c \in Calls, NEW w \in Pool, Become(c, w, Gone),
         worker[c][w] = Selecting \/ worker[c][w].pc = "append",
         \A i \in Nat : worker[c][w] = Hand(i) => Batch[c][i] = NoTurbine,
         UNCHANGED <<phase, result, cancelled, sent, taken, log>>
  PROVE  /\ PoolTypeOK' /\ Channel' /\ OneHand' /\ Home' /\ Arrived'
         /\ \A d \in Calls \ {c} : Left(d)' = Left(d) /\ Spent(d)' = Spent(d)
         /\ Left(c)' = Left(c) \cup {w}
<1>1. /\ \A d \in Calls \ {c} : worker'[d] = worker[d]
      /\ \A v \in Pool \ {w} : worker'[c][v] = worker[c][v]
      /\ worker'[c][w] = Gone
  BY DEF PoolInv, PoolTypeOK, Become
<1>2. \A d, i : Logged(d, i)' <=> Logged(d, i)
  BY DEF Logged
<1>3. PoolTypeOK'
  BY DEF PoolInv, PoolTypeOK, Become
<1>4. Channel'
  BY <1>1 DEF PoolInv, Channel
<1>5. OneHand'
  <2>1. \A d \in Calls : \A v \in Pool : \A i \in Nat :
          worker'[d][v] = Hand(i) => worker[d][v] = Hand(i)
    BY <1>1, HandsDiffer
  <2> QED
    BY <2>1, <1>2 DEF PoolInv, OneHand
<1>6. Home'
  BY DEF PoolInv, Home
<1>7. Arrived'
  <2>1. \A d \in Calls : \A v \in Pool : \A i \in Nat :
          worker[d][v] = Hand(i) /\ Batch[d][i] # NoTurbine => worker'[d][v] = Hand(i)
    BY <1>1
  <2>2. \A d \in Calls : taken[d] \in Nat
    BY DEF PoolInv, PoolTypeOK
  <2> QED
    BY <2>1, <2>2, <1>2 DEF PoolInv, Arrived
<1>8. \A d \in Calls \ {c} : Left(d)' = Left(d) /\ Spent(d)' = Spent(d)
  BY <1>1 DEF Left, Spent
<1>9. Left(c)' = Left(c) \cup {w}
  BY <1>1 DEF Left
<1> QED
  BY <1>3, <1>4, <1>5, <1>6, <1>7, <1>8, <1>9

LEMMA EndKeeps ==
  ASSUME PoolInv, NEW c \in Calls, NEW w \in Pool, WorkerCancelled(c, w) \/ WorkerClosed(c, w)
  PROVE  PoolInv'
<1>1. /\ worker[c][w] = Selecting /\ Become(c, w, Gone)
      /\ UNCHANGED <<phase, result, cancelled, sent, taken, log>>
      /\ c \in cancelled \/ Drained(c)
  BY DEF WorkerCancelled, WorkerClosed, Drained
<1>2. \A i \in Nat : worker[c][w] # Hand(i)
  BY <1>1, HandsDiffer
<1>3. /\ PoolTypeOK' /\ Channel' /\ OneHand' /\ Home' /\ Arrived'
      /\ \A d \in Calls \ {c} : Left(d)' = Left(d) /\ Spent(d)' = Spent(d)
  BY <1>1, <1>2, LeaveKeeps
<1>4. Costs'
  BY <1>1, <1>3 DEF PoolInv, Costs, Drained
<1> QED
  BY <1>3, <1>4 DEF PoolInv

\* One worker less, and one refused sample more.
LEMMA RefusedKeeps ==
  ASSUME PoolInv, NEW c \in Calls, NEW w \in Pool, WorkerRefused(c, w)
  PROVE  PoolInv'
<1> DEFINE i == worker[c][w].sample
<1>1. /\ worker[c][w].pc = "append" /\ Become(c, w, Gone) /\ Batch[c][i] = NoTurbine
      /\ UNCHANGED <<phase, result, cancelled, sent, taken, log>>
  BY DEF WorkerRefused
<1>2. i \in Nat /\ worker[c][w] = Hand(i)
  BY <1>1, HandOf DEF PoolInv
<1> HIDE DEF i
<1>3. \A j \in Nat : worker[c][w] = Hand(j) => Batch[c][j] = NoTurbine
  BY <1>1, <1>2, HandsDiffer
<1>4. /\ PoolTypeOK' /\ Channel' /\ OneHand' /\ Home' /\ Arrived'
      /\ \A d \in Calls \ {c} : Left(d)' = Left(d) /\ Spent(d)' = Spent(d)
      /\ Left(c)' = Left(c) \cup {w}
  BY <1>1, <1>3, LeaveKeeps
<1>5. Cardinality(Left(c)') = Cardinality(Left(c)) + 1
  <2>1. w \notin Left(c)
    BY <1>2, HandsDiffer DEF Left
  <2> QED
    BY <2>1, <1>4, Countable, FS_AddElement DEF PoolInv
<1>6. Cardinality(Spent(c)') = Cardinality(Spent(c)) + 1
  <2>1. /\ i \in 1 .. taken[c]
        /\ \A v \in Pool : worker[c][v] = Hand(i) => v = w
    BY <1>2 DEF PoolInv, OneHand
  <2>2. /\ \A v \in Pool \ {w} : worker'[c][v] = worker[c][v]
        /\ worker'[c][w] = Gone
    BY <1>1 DEF PoolInv, PoolTypeOK, Become
  <2>3. Spent(c)' = Spent(c) \cup {i}
    <3>1. i \in Spent(c)'
      BY <1>1, <2>1, <2>2, HandsDiffer DEF Spent
    <3>2. \A j \in 1 .. taken[c] \ {i} : j \in Spent(c)' <=> j \in Spent(c)
      BY <1>1, <1>2, <2>2, HandsDiffer DEF Spent
    <3>3. Spent(c) \subseteq 1 .. taken[c] /\ Spent(c)' \subseteq 1 .. taken[c]
      BY <1>1 DEF Spent
    <3> QED
      BY <3>1, <3>2, <3>3
  <2>4. i \notin Spent(c)
    BY <1>2 DEF Spent
  <2> QED
    BY <2>3, <2>4, Countable, FS_AddElement DEF PoolInv
<1>7. Costs'
  <2> SUFFICES ASSUME NEW d \in Calls \ cancelled, ~Drained(d)'
               PROVE  Cardinality(Left(d)') <= Cardinality(Spent(d)')
    BY <1>1 DEF Costs
  <2>1. Cardinality(Left(d)) <= Cardinality(Spent(d))
    BY <1>1 DEF PoolInv, Costs, Drained
  <2>2. CASE d = c
    BY <2>1, <2>2, <1>5, <1>6, Countable DEF PoolInv
  <2>3. CASE d # c
    BY <2>1, <2>3, <1>4
  <2> QED
    BY <2>2, <2>3
<1> QED
  BY <1>4, <1>7 DEF PoolInv

\* What WorkerAppend does, in terms of the sample in hand.
LEMMA AppendShape ==
  ASSUME PoolInv, NEW c \in Calls, NEW w \in Pool, WorkerAppend(c, w)
  PROVE  \E i \in Nat :
           /\ worker[c][w] = Hand(i)
           /\ i \in 1 .. taken[c] /\ i \in DOMAIN Batch[c]
           /\ Batch[c][i] \in Turbines
           /\ log' = [log EXCEPT ![Batch[c][i]] = Append(@, <<c, i>>)]
<1> DEFINE i == worker[c][w].sample
<1>1. i \in Nat /\ worker[c][w] = Hand(i)
  BY HandOf DEF PoolInv, WorkerAppend
<1>2. /\ Batch[c][i] # NoTurbine
      /\ log' = [log EXCEPT ![Batch[c][i]] = Append(@, <<c, i>>)]
  BY DEF WorkerAppend
<1> HIDE DEF i
<1>3. i \in 1 .. taken[c]
  BY <1>1 DEF PoolInv, OneHand
<1>4. taken[c] \in Nat /\ taken[c] <= Len(Batch[c])
  BY BatchProperties DEF PoolInv, PoolTypeOK, Channel
<1>5. i \in DOMAIN Batch[c] /\ Batch[c][i] \in Turbines
  BY <1>2, <1>3, <1>4, BatchProperties
<1> QED
  BY <1>1, <1>2, <1>3, <1>5

\* The sample goes from the hand to the log.
LEMMA AppendKeeps ==
  ASSUME PoolInv, NEW c \in Calls, NEW w \in Pool, WorkerAppend(c, w)
  PROVE  PoolInv'
<1>1. PICK i \in Nat : /\ worker[c][w] = Hand(i)
                       /\ i \in 1 .. taken[c] /\ i \in DOMAIN Batch[c]
                       /\ Batch[c][i] \in Turbines
                       /\ log' = [log EXCEPT ![Batch[c][i]] = Append(@, <<c, i>>)]
  BY AppendShape
<1>2. /\ Become(c, w, Selecting)
      /\ UNCHANGED <<phase, result, cancelled, sent, taken>>
  BY DEF WorkerAppend
<1>3. /\ \A d \in Calls \ {c} : worker'[d] = worker[d]
      /\ \A v \in Pool \ {w} : worker'[c][v] = worker[c][v]
      /\ worker'[c][w] = Selecting
  BY <1>2 DEF PoolInv, PoolTypeOK, Become
<1>4. /\ log' \in [Turbines -> Seq(Calls \X Nat)]
      /\ \A u \in Turbines : \A k \in DOMAIN log'[u] :
           \/ k \in DOMAIN log[u] /\ log'[u][k] = log[u][k]
           \/ u = Batch[c][i] /\ log'[u][k] = <<c, i>>
      /\ \A d, j : Logged(d, j)' <=> Logged(d, j) \/ (d = c /\ j = i)
  BY <1>1, LogAppend DEF PoolInv
<1>5. PoolTypeOK'
  BY <1>2, <1>4 DEF PoolInv, PoolTypeOK, Become
<1>6. Channel'
  <2>1. worker[c][w] # Gone
    BY <1>1, HandsDiffer
  <2> QED
    BY <1>2, <1>3, <2>1 DEF PoolInv, Channel
<1>7. OneHand'
  <2> SUFFICES ASSUME NEW d \in Calls, NEW u \in Pool, NEW j \in Nat, worker'[d][u] = Hand(j)
               PROVE  /\ j \in 1 .. taken'[d]
                      /\ ~Logged(d, j)'
                      /\ \A v \in Pool : worker'[d][v] = Hand(j) => v = u
    BY DEF OneHand
  <2>1. worker[d][u] = Hand(j)
    BY <1>3, HandsDiffer
  <2>2. /\ j \in 1 .. taken[d] /\ ~Logged(d, j)
        /\ \A v \in Pool : worker[d][v] = Hand(j) => v = u
    BY <2>1 DEF PoolInv, OneHand
  <2>3. \A v \in Pool : worker'[d][v] = Hand(j) => worker[d][v] = Hand(j)
    BY <1>3, HandsDiffer
  <2>4. ~(d = c /\ j = i)
    <3>1. \A v \in Pool : worker[c][v] = Hand(i) => v = w
      BY <1>1 DEF PoolInv, OneHand
    <3> QED
      BY <2>1, <3>1, <1>3, HandsDiffer
  <2> QED
    BY <2>2, <2>3, <2>4, <1>2, <1>4
<1>8. Home'
  <2> SUFFICES ASSUME NEW t \in Turbines, NEW k \in DOMAIN log'[t]
               PROVE  /\ log'[t][k][2] \in 1 .. taken[log'[t][k][1]]
                      /\ Batch[log'[t][k][1]][log'[t][k][2]] = t
    BY <1>2 DEF Home
  <2>1. CASE k \in DOMAIN log[t] /\ log'[t][k] = log[t][k]
    BY <2>1 DEF PoolInv, Home
  <2>2. CASE t = Batch[c][i] /\ log'[t][k] = <<c, i>>
    BY <2>2, <1>1
  <2> QED
    BY <2>1, <2>2, <1>4
<1>9. Arrived'
  <2> SUFFICES ASSUME NEW d \in Calls, NEW j \in 1 .. taken[d], Batch[d][j] # NoTurbine
               PROVE  (\E v \in Pool : worker'[d][v] = Hand(j)) \/ Logged(d, j)'
    BY <1>2 DEF Arrived
  <2>1. (\E v \in Pool : worker[d][v] = Hand(j)) \/ Logged(d, j)
    BY DEF PoolInv, Arrived
  <2>2. ASSUME NEW v \in Pool, worker[d][v] = Hand(j)
        PROVE  worker'[d][v] = Hand(j) \/ (d = c /\ j = i)
    BY <2>2, <1>1, <1>3, HandsDiffer
  <2> QED
    BY <2>1, <2>2, <1>4
<1>10. Costs'
  <2>1. \A d \in Calls : Left(d)' = Left(d)
    BY <1>1, <1>3, HandsDiffer DEF Left
  <2>2. \A d \in Calls : Spent(d)' = Spent(d)
    <3>1. \A d \in Calls \ {c} : Spent(d)' = Spent(d)
      BY <1>2, <1>3 DEF Spent
    <3>2. \A j \in 1 .. taken[c] : j \in Spent(c)' <=> j \in Spent(c)
      BY <1>1, <1>2, <1>3, HandsDiffer, NoTurbineIsNone DEF Spent
    <3>3. Spent(c) \subseteq 1 .. taken[c] /\ Spent(c)' \subseteq 1 .. taken[c]
      BY <1>2 DEF Spent
    <3> QED
      BY <3>1, <3>2, <3>3
  <2> QED
    BY <2>1, <2>2, <1>2 DEF PoolInv, Costs, Drained
<1> QED
  BY <1>5, <1>6, <1>7, <1>8, <1>9, <1>10 DEF PoolInv

LEMMA PoolNextInv ==
  ASSUME PoolInv, [Next]_vars
  PROVE  PoolInv'
<1>1. CASE UNCHANGED vars
  <2>1. PoolTypeOK' /\ Channel' /\ Costs'
    BY <1>1, PlacesKept DEF vars, PoolInv, PoolTypeOK, Channel, Costs, Drained
  <2> QED
    BY <1>1, <2>1, PlacesKept DEF vars, PoolInv
<1>2. CASE Next
  BY <1>2, SendKeeps, CloseKeeps, ReturnKeeps, CancelKeeps, PoolTakeKeeps, EndKeeps,
     RefusedKeeps, AppendKeeps
  DEF Next, Main, Work
<1> QED
  BY <1>1, <1>2

\* No sample is in two places or in none, and until a call is cancelled or has
\* drained its channel each worker that left it left for a refused sample.
THEOREM PoolInvariant == Spec => []PoolInv
BY PoolInitInv, PoolNextInv, PTL DEF Spec

-----------------------------------------------------------------------------
(***************************************************************************)
(* The pool is a sample log.                                               *)
(***************************************************************************)

\* What the sample log calls places is what is logged.
LEMMA PlacesLogged ==
  ASSUME PoolInv, NEW c \in Calls, NEW i \in Log!Valid(c)
  PROVE  Log!Places(c, i) # {} <=> Logged(c, i)
<1>1. Batch[c][i] \in Turbines
  BY BatchProperties DEF Log!Valid, Log!Samples
<1>2. ASSUME Logged(c, i)
      PROVE  Log!Places(c, i) # {}
  <2>1. PICK t \in Turbines : \E k \in DOMAIN log[t] : log[t][k] = <<c, i>>
    BY <1>2 DEF Logged
  <2>2. PICK k \in DOMAIN log[t] : log[t][k] = <<c, i>>
    BY <2>1
  <2>3. log[t][k][1] = c /\ log[t][k][2] = i
    BY <2>2
  <2>4. Batch[c][i] = t
    BY <2>3 DEF PoolInv, Home
  <2> QED
    BY <2>2, <2>4 DEF Log!Places
<1>3. Log!Places(c, i) # {} => Logged(c, i)
  BY <1>1 DEF Log!Places, Logged
<1> QED
  BY <1>2, <1>3

\* The log counts as the pool does.
LEMMA SameCardinality == \A S : Log!Cardinality(S) = Cardinality(S)
BY DEF Log!Cardinality, Cardinality

\* A call whose workers are all gone and that was not cancelled has appended its
\* valid samples, or lost all its workers to refused ones.
LEMMA NothingLost ==
  ASSUME PoolInv, NEW c \in Calls, Return(c), result[c] = "all"
  PROVE  Log!Appended(c) = Log!Valid(c) \/ Log!MayLose(c)
<1> SUFFICES ASSUME c \notin cancelled
             PROVE  \/ Log!Appended(c) = Log!Valid(c)
                    \/ Cardinality(Log!Refused(c)) >= Workers
  BY SameCardinality DEF Log!MayLose
<1>1. /\ phase[c] # "sending" /\ sent[c] = Len(Batch[c])
      /\ \A w \in Pool : worker[c][w] = Gone
  BY DEF PoolInv, Channel, Return
<1>2. /\ taken[c] \in Nat /\ Len(Batch[c]) \in Nat /\ taken[c] <= Len(Batch[c])
      /\ Log!Samples(c) = 1 .. Len(Batch[c])
  BY <1>1, BatchProperties DEF PoolInv, PoolTypeOK, Channel, Log!Samples
<1>3. CASE Drained(c)
  <2>1. \A i \in Log!Valid(c) : i \in 1 .. taken[c] /\ Batch[c][i] # NoTurbine
    BY <1>1, <1>2, <1>3 DEF Drained, Log!Valid
  <2>2. \A i \in Log!Valid(c) : Logged(c, i)
    BY <2>1, <1>1, HandsDiffer DEF PoolInv, Arrived
  <2> QED
    BY <2>2, PlacesLogged DEF Log!Appended
<1>4. CASE ~Drained(c)
  <2>1. Left(c) = Pool
    BY <1>1 DEF Left
  <2>2. Workers <= Cardinality(Spent(c))
    BY <1>4, <2>1, Countable DEF PoolInv, Costs
  <2>3. Spent(c) \subseteq Log!Refused(c)
    BY <1>2 DEF Spent, Log!Refused, Log!Valid
  <2>4. IsFiniteSet(Log!Refused(c))
    <3>1. PICK n \in Nat : n = Len(Batch[c])
      BY <1>2
    <3>2. 1 \in Int /\ n \in Int
      OBVIOUS
    <3>3. IsFiniteSet(1 .. n)
      BY <3>2, FS_Interval
    <3>4. Log!Refused(c) \subseteq 1 .. n
      BY <3>1, <1>2 DEF Log!Refused
    <3> QED
      BY <3>3, <3>4, FS_Subset
  <2>5. Cardinality(Spent(c)) <= Cardinality(Log!Refused(c))
    BY <2>3, <2>4, FS_Subset
  <2>6. Cardinality(Log!Refused(c)) \in Nat /\ Cardinality(Spent(c)) \in Nat /\ Workers \in Nat
    BY <2>4, FS_CardinalityType, Countable, PoolNumbers DEF PoolInv
  <2> QED
    BY <2>2, <2>5, <2>6
<1> QED
  BY <1>3, <1>4

\* Each step of the pool is a step of the log or leaves it alone.
LEMMA LogStep ==
  ASSUME PoolInv, [Next]_vars
  PROVE  [Log!Next]_(Log!vars)
<1>1. ASSUME NEW c \in Calls, Send(c) \/ CloseAll(c) \/ CloseCancelled(c)
      PROVE  UNCHANGED Log!vars
  <2>1. \A d \in Calls : phase'[d] = "returned" <=> phase[d] = "returned"
    BY <1>1 DEF PoolInv, PoolTypeOK, Send, CloseAll, CloseCancelled, Close
  <2>2. \A d \in Calls : phase[d] = "returned" => result'[d] = result[d]
    BY <1>1 DEF PoolInv, PoolTypeOK, Send, CloseAll, CloseCancelled, Close
  <2>3. Answer' = Answer
    BY <2>1, <2>2 DEF Answer
  <2> QED
    BY <1>1, <2>3 DEF Log!vars, Send, CloseAll, CloseCancelled, Close
<1>2. ASSUME NEW c \in Calls, Return(c)
      PROVE  Log!ReturnOk(c) \/ Log!ReturnError(c)
  <2>1. /\ phase[c] = "waiting" /\ phase' = [phase EXCEPT ![c] = "returned"]
        /\ result' = result
    BY <1>2 DEF Return
  <2>2. Answer[c] = "none"
    BY <2>1 DEF Answer
  <2>3. \A d \in Calls \ {c} : phase'[d] = phase[d]
    BY <2>1 DEF PoolInv, PoolTypeOK
  <2>4. phase'[c] = "returned"
    BY <2>1 DEF PoolInv, PoolTypeOK
  <2>5. UNCHANGED <<log, cancelled>>
    BY <1>2 DEF Return
  <2>6. CASE result[c] = "all"
    <3>1. Answer' = [Answer EXCEPT ![c] = "ok"]
      BY <2>1, <2>3, <2>4, <2>6 DEF Answer
    <3> QED
      BY <2>2, <2>5, <2>6, <3>1, <1>2, NothingLost DEF Log!ReturnOk
  <2>7. CASE result[c] # "all"
    <3>1. Answer' = [Answer EXCEPT ![c] = "error"]
      BY <2>1, <2>3, <2>4, <2>7 DEF Answer
    <3>2. c \in cancelled /\ sent[c] < Len(Batch[c])
      BY <2>1, <2>7 DEF PoolInv, PoolTypeOK, Channel
    <3>3. Log!Samples(c) # {}
      <4>1. sent[c] \in Nat /\ Len(Batch[c]) \in Nat /\ Log!Samples(c) = 1 .. Len(Batch[c])
        BY BatchProperties DEF PoolInv, PoolTypeOK, Log!Samples
      <4>2. 1 \in 1 .. Len(Batch[c])
        BY <3>2, <4>1
      <4> QED
        BY <4>1, <4>2
    <3> QED
      BY <2>2, <2>5, <3>1, <3>2, <3>3 DEF Log!ReturnError
  <2> QED
    BY <2>6, <2>7
<1>3. ASSUME NEW c \in Calls, NEW w \in Pool,
             \/ WorkerCancelled(c, w) \/ WorkerTake(c, w)
             \/ WorkerClosed(c, w) \/ WorkerRefused(c, w)
      PROVE  UNCHANGED Log!vars
  BY <1>3 DEF WorkerCancelled, WorkerTake, WorkerClosed, WorkerRefused, Log!vars, Answer
<1>4. ASSUME NEW c \in Calls, NEW w \in Pool, WorkerAppend(c, w)
      PROVE  \E i \in Log!Valid(c) : Log!AppendSample(c, i)
  <2>1. PICK i \in Nat : /\ worker[c][w] = Hand(i)
                         /\ i \in 1 .. taken[c] /\ i \in DOMAIN Batch[c]
                         /\ Batch[c][i] \in Turbines
                         /\ log' = [log EXCEPT ![Batch[c][i]] = Append(@, <<c, i>>)]
    BY <1>4, AppendShape
  <2>2. i \in Log!Valid(c)
    BY <2>1, NoTurbineIsNone DEF Log!Valid, Log!Samples
  <2>3. i \notin Log!Appended(c)
    BY <2>1, <2>2, PlacesLogged DEF PoolInv, OneHand, Log!Appended
  <2>4. phase[c] # "returned"
    BY <2>1, HandsDiffer DEF PoolInv, Channel
  <2>5. Answer[c] = "none" /\ UNCHANGED <<Answer, cancelled>>
    BY <1>4, <2>4 DEF WorkerAppend, Answer
  <2> QED
    BY <2>1, <2>2, <2>3, <2>5 DEF Log!AppendSample
<1>5. ASSUME NEW c \in Calls, Cancel(c)
      PROVE  Log!Cancel(c)
  BY <1>5 DEF Cancel, Log!Cancel, Answer
<1>6. CASE UNCHANGED vars
  BY <1>6 DEF vars, Log!vars, Answer
<1> QED
  BY <1>1, <1>2, <1>3, <1>4, <1>5, <1>6 DEF Next, Main, Work, Log!Next

\* For every number of calls, workers and samples the pool keeps what SampleLog
\* promises: no sample twice, none after the return, and none missing but for a
\* cancellation or for as many refusals as there are workers.
THEOREM ImplementsLog == Spec => LogSpec
<1>1. Init => Log!Init
  BY DEF Init, Log!Init, Answer
<1> QED
  BY <1>1, PoolInvariant, LogStep, PTL DEF Spec, LogSpec, Log!Spec

-----------------------------------------------------------------------------
(***************************************************************************)
(* Nothing is lost or repeated on the way to the rings.                    *)
(***************************************************************************)

Newest(s) == SubSeq(s, Max({1, Len(s) - Capacity + 1}), Len(s))

\* A sample has one place in the log, and a ring is the newest part of it.
Rings ==
  /\ \A t \in Turbines : \A k, l \in DOMAIN log[t] : log[t][k] = log[t][l] => k = l
  /\ bufs \in [Turbines -> Seq(Calls \X Nat)]
  /\ \A t \in Turbines : bufs[t] = Newest(log[t])

\* Where the newest part begins.
LEMMA MaxOfTwo ==
  ASSUME NEW n \in Int
  PROVE  Max({1, n}) = IF n > 1 THEN n ELSE 1
<1> DEFINE m == IF n > 1 THEN n ELSE 1
<1>1. m \in {1, n} /\ \A y \in {1, n} : m >= y
  OBVIOUS
<1>2. \A x \in {1, n} : (\A y \in {1, n} : x >= y) => x = m
  OBVIOUS
<1> QED
  BY <1>1, <1>2 DEF Max

\* The newest part of a sequence, by its places.
LEMMA NewestProperties ==
  ASSUME NEW S, NEW s \in Seq(S)
  PROVE  /\ Newest(s) \in Seq(S)
         /\ Len(s) <= Capacity => Newest(s) = s
         /\ Len(s) > Capacity => Newest(s) = SubSeq(s, Len(s) - Capacity + 1, Len(s))
<1>1. /\ Len(s) \in Nat /\ Capacity \in Nat \ {0}
      /\ \A i \in 1 .. Len(s) : s[i] \in S
  BY PoolNumbers, LenProperties, ElementOfSeq
<1> DEFINE a == Max({1, Len(s) - Capacity + 1})
<1>2. a = IF Len(s) - Capacity + 1 > 1 THEN Len(s) - Capacity + 1 ELSE 1
  BY <1>1, MaxOfTwo
<1>3. a \in Nat \ {0}
  BY <1>1, <1>2
<1> HIDE DEF a
<1>4. SubSeq(s, a, Len(s)) \in Seq(S)
  BY <1>1, <1>3, SubSeqProperties
<1>5. Len(s) <= Capacity => a = 1
  BY <1>1, <1>2
<1>6. Len(s) > Capacity => a = Len(s) - Capacity + 1
  BY <1>1, <1>2
<1>7. Newest(s) = SubSeq(s, a, Len(s))
  BY DEF Newest, a
<1> QED
  BY <1>4, <1>5, <1>6, <1>7, SubSeqFull

\* Appending to the newest part and cutting it gives the newest part again.
LEMMA TrimNewest ==
  ASSUME NEW S, NEW s \in Seq(S), NEW x \in S
  PROVE  Trim(Append(Newest(s), x)) = Newest(Append(s, x))
<1> DEFINE g == Append(s, x)
           r == Append(Newest(s), x)
           n == Len(s)
           C == Capacity
<1>1. n \in Nat /\ C \in Nat \ {0}
  BY PoolNumbers, LenProperties
<1>2. /\ g \in Seq(S) /\ Len(g) = n + 1 /\ g[n + 1] = x
      /\ \A i \in 1 .. n : g[i] = s[i]
  BY AppendProperties
<1>3. /\ r \in Seq(S) /\ Len(r) = Len(Newest(s)) + 1 /\ r[Len(Newest(s)) + 1] = x
      /\ \A i \in 1 .. Len(Newest(s)) : r[i] = Newest(s)[i]
  BY NewestProperties, AppendProperties
<1>4. CASE n < C
  <2> HIDE DEF g
  <2>1. Newest(s) = s
    BY <1>1, <1>4, NewestProperties
  <2>2. Len(g) <= Capacity
    BY <1>1, <1>2, <1>4
  <2>3. Newest(g) = g
    BY <2>2, <1>2, NewestProperties
  <2>4. Trim(g) = g
    BY <2>2, <1>1, <1>2 DEF Trim
  <2> QED
    BY <2>1, <2>3, <2>4 DEF g
<1>5. CASE n >= C
  <2>1. Newest(s) = SubSeq(s, n - C + 1, n)
    <3>1. CASE n = C
      BY <3>1, <1>1, NewestProperties, SubSeqFull
    <3>2. CASE n > C
      BY <3>2, NewestProperties
    <3> QED
      BY <3>1, <3>2, <1>1, <1>5
  <2>2. \A i \in n - C + 1 .. n : s[i] \in S
    BY <1>1, <1>5, ElementOfSeq
  <2>3. /\ Len(Newest(s)) = C
        /\ \A i \in 1 .. C : Newest(s)[i] = s[n - C + i]
    <3>1. PICK k \in Nat, b \in Nat : k = n - C + 1 /\ b = n
      <4> HIDE DEF n, C
      <4>1. n - C + 1 \in Nat
        BY <1>1, <1>5
      <4> QED
        BY <4>1, <1>1
    <3>2. /\ Len(SubSeq(s, k, b)) = IF k <= b THEN b - k + 1 ELSE 0
          /\ \A i \in 1 .. b - k + 1 : SubSeq(s, k, b)[i] = s[k + i - 1]
      BY <3>1, <2>2, SubSeqProperties
    <3>3. k <= b /\ b - k + 1 = C /\ \A i \in 1 .. C : k + i - 1 = n - C + i
      BY <3>1, <1>1, <1>5
    <3> QED
      BY <3>1, <3>2, <3>3, <2>1
  <2>4. Len(r) = C + 1 /\ r[C + 1] = x /\ \A i \in 1 .. C : r[i] = s[n - C + i]
    BY <2>3, <1>3
  <2> HIDE DEF r, g
  <2>5. Trim(r) = SubSeq(r, 2, C + 1)
    BY <2>4, <1>1 DEF Trim
  <2>6. Newest(g) = SubSeq(g, n - C + 2, n + 1)
    <3>1. Len(g) > Capacity /\ Len(g) - Capacity + 1 = n - C + 2
      BY <1>1, <1>2, <1>5
    <3> QED
      BY <3>1, <1>2, NewestProperties
  <2>7. /\ Trim(r) \in Seq(S) /\ Len(Trim(r)) = C
        /\ \A i \in 1 .. C : Trim(r)[i] = r[i + 1]
    <3>1. \A i \in 2 .. C + 1 : r[i] \in S
      BY <2>4, <1>1, <1>3, ElementOfSeq DEF r
    <3> QED
      BY <3>1, <2>5, <1>1, SubSeqProperties
  <2>8. /\ Newest(g) \in Seq(S) /\ Len(Newest(g)) = C
        /\ \A i \in 1 .. C : Newest(g)[i] = g[n - C + 1 + i]
    <3>1. \A i \in n - C + 2 .. n + 1 : g[i] \in S
      BY <1>1, <1>2, <1>5, ElementOfSeq
    <3> QED
      BY <3>1, <2>6, <1>1, <1>5, SubSeqProperties
  <2>9. ASSUME NEW i \in 1 .. C
        PROVE  Trim(r)[i] = Newest(g)[i]
    <3>1. CASE i = C
      BY <3>1, <2>4, <2>7, <2>8, <1>1, <1>2
    <3>2. CASE i # C
      <4>1. i + 1 \in 1 .. C /\ n - C + 1 + i \in 1 .. n
        BY <3>2, <1>1, <1>5
      <4>2. Trim(r)[i] = s[n - C + (i + 1)]
        BY <4>1, <2>4, <2>7
      <4>3. Newest(g)[i] = s[n - C + 1 + i]
        BY <4>1, <2>8, <1>2
      <4> QED
        BY <4>2, <4>3, <1>1
    <3> QED
      BY <3>1, <3>2
  <2> QED
    BY <2>7, <2>8, <2>9, SeqEqual DEF r, g
<1> QED
  BY <1>1, <1>4, <1>5

\* An append to a turbine's log is an append to its ring.
LEMMA AppendRings ==
  ASSUME PoolInv, Rings, NEW c \in Calls, NEW w \in Pool, WorkerAppend(c, w)
  PROVE  Rings'
<1>1. PICK i \in Nat : /\ worker[c][w] = Hand(i)
                       /\ Batch[c][i] \in Turbines
                       /\ log' = [log EXCEPT ![Batch[c][i]] = Append(@, <<c, i>>)]
  BY AppendShape
<1> DEFINE t == Batch[c][i]
           x == <<c, i>>
<1>2. bufs' = [bufs EXCEPT ![t] = Trim(Append(@, x))]
  BY <1>1 DEF WorkerAppend, Hand
<1>3. t \in Turbines /\ x \in Calls \X Nat /\ log[t] \in Seq(Calls \X Nat)
  BY <1>1 DEF PoolInv, PoolTypeOK
<1>4. ~Logged(c, i)
  BY <1>1 DEF PoolInv, OneHand
<1>5. /\ log'[t] = Append(log[t], x) /\ bufs'[t] = Trim(Append(bufs[t], x))
      /\ \A u \in Turbines \ {t} : log'[u] = log[u] /\ bufs'[u] = bufs[u]
  BY <1>1, <1>2, <1>3 DEF PoolInv, PoolTypeOK, Rings
<1>6. \A k \in DOMAIN log[t] : log[t][k] # x
  BY <1>3, <1>4 DEF Logged
<1> HIDE DEF t, x
<1>7. bufs'[t] = Newest(log'[t])
  BY <1>3, <1>5, TrimNewest DEF Rings
<1>8. log'[t] \in Seq(Calls \X Nat)
  BY <1>3, <1>5, AppendProperties
<1>9. bufs' \in [Turbines -> Seq(Calls \X Nat)]
  <2>1. bufs'[t] \in Seq(Calls \X Nat)
    BY <1>7, <1>8, NewestProperties
  <2> QED
    BY <2>1, <1>2 DEF Rings
<1>10. \A u \in Turbines : bufs'[u] = Newest(log'[u])
  BY <1>5, <1>7 DEF Rings
<1>11. \A k, l \in DOMAIN log'[t] : log'[t][k] = log'[t][l] => k = l
  <2>1. /\ Len(log[t]) \in Nat /\ DOMAIN log[t] = 1 .. Len(log[t])
        /\ DOMAIN log'[t] = 1 .. Len(log[t]) + 1
        /\ log'[t][Len(log[t]) + 1] = x
        /\ \A k \in 1 .. Len(log[t]) : log'[t][k] = log[t][k]
    BY <1>3, <1>5, <1>8, AppendProperties, LenProperties
  <2>2. \A k, l \in DOMAIN log[t] : log[t][k] = log[t][l] => k = l
    BY <1>3 DEF Rings
  <2> QED
    BY <2>1, <2>2, <1>6
<1>12. \A u \in Turbines : \A k, l \in DOMAIN log'[u] : log'[u][k] = log'[u][l] => k = l
  BY <1>5, <1>11 DEF Rings
<1> QED
  BY <1>9, <1>10, <1>12 DEF Rings, Newest

\* Only an append changes the rings.
LEMMA NextRings ==
  ASSUME PoolInv, Rings, [Next]_vars
  PROVE  Rings'
<1>1. CASE UNCHANGED <<log, bufs>>
  BY <1>1 DEF Rings, Newest
<1>2. CASE \E c \in Calls, w \in Pool : WorkerAppend(c, w)
  BY <1>2, AppendRings
<1>3. \/ UNCHANGED <<log, bufs>>
      \/ \E c \in Calls, w \in Pool : WorkerAppend(c, w)
  BY DEF Next, vars, Main, Work, Send, CloseAll, CloseCancelled, Close, Return, Cancel,
         WorkerCancelled, WorkerTake, WorkerClosed, WorkerRefused
<1> QED
  BY <1>1, <1>2, <1>3

\* A set whose members are all equal has one of them or none.
LEMMA AtMostOne ==
  ASSUME NEW S, \A x, y \in S : x = y
  PROVE  Cardinality(S) = IF S = {} THEN 0 ELSE 1
<1>1. CASE S = {}
  BY <1>1, FS_EmptySet
<1>2. CASE S # {}
  <2>1. PICK x \in S : TRUE
    BY <1>2
  <2>2. S = {x}
    BY <2>1
  <2> QED
    BY <1>2, <2>2, FS_Singleton
<1> QED
  BY <1>1, <1>2

\* What the two invariants say of one sample.
LEMMA OncePerSample ==
  ASSUME PoolInv, Rings, NEW c \in Calls, NEW i \in Log!Valid(c)
  PROVE  Cardinality(Hands(c, i)) + Cardinality(Log!Places(c, i))
           = IF i <= taken[c] THEN 1 ELSE 0
<1>1. i \in Nat \ {0} /\ Batch[c][i] \in Turbines /\ taken[c] \in Nat
  <2>1. i \in DOMAIN Batch[c] /\ Batch[c][i] # NoTurbine
    BY DEF Log!Valid, Log!Samples
  <2>2. i \in 1 .. Len(Batch[c]) /\ Len(Batch[c]) \in Nat
    BY <2>1, BatchProperties
  <2>3. Batch[c][i] \in Turbines
    BY <2>1, <2>2, BatchProperties
  <2> QED
    BY <2>2, <2>3 DEF PoolInv, PoolTypeOK
<1>2. Cardinality(Hands(c, i)) = IF Hands(c, i) = {} THEN 0 ELSE 1
  <2>1. \A v, w \in Hands(c, i) : v = w
    BY <1>1 DEF Hands, PoolInv, OneHand
  <2> QED
    BY <2>1, AtMostOne
<1>3. Cardinality(Log!Places(c, i)) = IF Log!Places(c, i) = {} THEN 0 ELSE 1
  <2>1. \A k, l \in Log!Places(c, i) : k = l
    BY <1>1 DEF Log!Places, Rings
  <2> QED
    BY <2>1, AtMostOne
<1>4. Log!Places(c, i) # {} <=> Logged(c, i)
  BY PlacesLogged
<1>5. Hands(c, i) # {} => i <= taken[c] /\ ~Logged(c, i)
  BY <1>1 DEF Hands, PoolInv, OneHand
<1>6. Logged(c, i) => i <= taken[c]
  <2>1. ASSUME Logged(c, i)
        PROVE  i \in 1 .. taken[c]
    <3>1. PICK t \in Turbines : \E k \in DOMAIN log[t] : log[t][k] = <<c, i>>
      BY <2>1 DEF Logged
    <3>2. PICK k \in DOMAIN log[t] : log[t][k] = <<c, i>>
      BY <3>1
    <3>3. log[t][k][1] = c /\ log[t][k][2] = i
      BY <3>2
    <3> QED
      BY <3>3 DEF PoolInv, Home
  <2> QED
    BY <2>1, <1>1
<1>7. i <= taken[c] => Hands(c, i) # {} \/ Logged(c, i)
  <2>1. i \in 1 .. taken[c] => Hands(c, i) # {} \/ Logged(c, i)
    BY <1>1, NoTurbineIsNone DEF Hands, PoolInv, Arrived
  <2> QED
    BY <2>1, <1>1
<1> QED
  BY <1>2, <1>3, <1>4, <1>5, <1>6, <1>7

\* For every number of calls, workers and samples and every capacity: no sample
\* is lost or repeated on its way to its ring, and a ring is the newest part of
\* what was appended for its turbine.
THEOREM SamplesAppendedOnce == Spec => []AppendedOnce
<1>1. Init => Rings
  <2> SUFFICES ASSUME Init
               PROVE  Rings
    OBVIOUS
  <2>1. << >> \in Seq(Calls \X Nat) /\ Len(<< >>) = 0 /\ DOMAIN << >> = {}
    OBVIOUS
  <2>2. Newest(<< >>) = << >>
    <3> DEFINE e == << >>
    <3>1. e \in Seq(Calls \X Nat) /\ Len(e) = 0
      BY <2>1
    <3> HIDE DEF e
    <3>2. Len(e) <= Capacity
      BY <3>1, PoolNumbers
    <3>3. Newest(e) = e
      BY <3>1, <3>2, NewestProperties
    <3> QED
      BY <3>3 DEF e
  <2>3. /\ bufs = [t \in Turbines |-> << >>]
        /\ \A t \in Turbines : log[t] = << >> /\ bufs[t] = << >>
    BY DEF Init
  <2>4. bufs \in [Turbines -> Seq(Calls \X Nat)]
    BY <2>1, <2>3
  <2> QED
    BY <2>1, <2>2, <2>3, <2>4 DEF Rings
<1>2. PoolInv /\ Rings => AppendedOnce
  BY OncePerSample, SameCardinality DEF AppendedOnce, Rings, Newest
<1> QED
  BY <1>1, <1>2, PoolInvariant, NextRings, PTL DEF Spec

=============================================================================
