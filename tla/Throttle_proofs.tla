--------------------------- MODULE Throttle_proofs ---------------------------
(***************************************************************************)
(* The budget of Throttle for every window, limit, lag and set of callers. *)
(*                                                                         *)
(* The bound on windows is not inductive alone: it needs to know that what *)
(* a bucket has forgotten (ForgottenAreOld) lies before every window a     *)
(* grant to come can fall into.                                            *)
(***************************************************************************)
EXTENDS Throttle, FiniteSetTheorems, SequenceTheorems, TLAPS

USE DEF ThrottleNumbers

LEMMA GrantedFinite ==
  ASSUME ThrottleNumbers, TypeOK, NEW t \in Turbines
  PROVE  /\ granted[t] \in Seq(Nat)
         /\ Len(granted[t]) \in Nat
         /\ DOMAIN granted[t] = 1..Len(granted[t])
         /\ IsFiniteSet(DOMAIN granted[t])
         /\ \A k \in DOMAIN granted[t] : granted[t][k] \in Nat
<1>1. granted[t] \in Seq(Nat)
  BY DEF TypeOK
<1>2. Len(granted[t]) \in Nat /\ DOMAIN granted[t] = 1..Len(granted[t])
  BY <1>1, LenProperties
<1>3. IsFiniteSet(1..Len(granted[t]))
  BY <1>2, FS_Interval
<1>4. \A k \in 1..Len(granted[t]) : granted[t][k] \in Nat
  BY <1>1, ElementOfSeq
<1> QED
  BY <1>1, <1>2, <1>3, <1>4

LEMMA KeptFinite ==
  ASSUME ThrottleNumbers, TypeOK, NEW t \in Turbines, NEW n
  PROVE  /\ Kept(t, n) \subseteq buckets[t]
         /\ buckets[t] \subseteq DOMAIN granted[t]
         /\ IsFiniteSet(buckets[t]) /\ Cardinality(buckets[t]) \in Nat
         /\ IsFiniteSet(Kept(t, n)) /\ Cardinality(Kept(t, n)) \in Nat
         /\ Cardinality(Kept(t, n)) <= Cardinality(buckets[t])
<1>1. Kept(t, n) \subseteq buckets[t] /\ buckets[t] \subseteq DOMAIN granted[t]
  BY DEF Kept, TypeOK
<1> QED
  BY <1>1, GrantedFinite, FS_Subset, FS_CardinalityType

\* What a grant does to the turbine it is for.
LEMMA GrantProperties ==
  ASSUME ThrottleNumbers, TypeOK, NEW t \in Turbines, NEW n \in Nat, Grant(t, n)
  PROVE  /\ granted'[t] = Append(granted[t], n)
         /\ granted'[t] \in Seq(Nat)
         /\ DOMAIN granted'[t] = DOMAIN granted[t] \cup {Len(granted[t]) + 1}
         /\ Len(granted[t]) + 1 \notin DOMAIN granted[t]
         /\ granted'[t][Len(granted[t]) + 1] = n
         /\ \A k \in DOMAIN granted[t] : granted'[t][k] = granted[t][k]
         /\ buckets'[t] = Kept(t, n) \cup {Len(granted[t]) + 1}
         /\ Cardinality(buckets'[t]) <= Limit
         /\ \A u \in Turbines \ {t} : granted'[u] = granted[u] /\ buckets'[u] = buckets[u]
         /\ granted' \in [Turbines -> Seq(Nat)]
<1> DEFINE s == granted[t]
<1>1. s \in Seq(Nat) /\ Len(s) \in Nat /\ DOMAIN s = 1..Len(s)
  BY GrantedFinite
<1>2. granted'[t] = Append(s, n) /\ buckets'[t] = Kept(t, n) \cup {Len(s) + 1}
  BY DEF Grant, TypeOK
<1>3. /\ Append(s, n) \in Seq(Nat)
      /\ Len(Append(s, n)) = Len(s) + 1
      /\ Append(s, n)[Len(s) + 1] = n
      /\ \A k \in 1..Len(s) : Append(s, n)[k] = s[k]
  BY <1>1, AppendProperties
<1>4. DOMAIN Append(s, n) = 1..(Len(s) + 1)
  BY <1>3, LenProperties
<1>5. Cardinality(buckets'[t]) <= Limit
  <2>1. Len(s) + 1 \notin Kept(t, n)
    BY <1>1, KeptFinite
  <2>2. Cardinality(Kept(t, n) \cup {Len(s) + 1}) = Cardinality(Kept(t, n)) + 1
    BY <2>1, KeptFinite, FS_AddElement
  <2>3. Cardinality(Kept(t, n)) \in Nat /\ Cardinality(Kept(t, n)) < Limit
    BY KeptFinite DEF Grant, WithinBudget
  <2> QED
    BY <1>2, <2>2, <2>3, ThrottleNumbers
<1>6. \A u \in Turbines \ {t} : granted'[u] = granted[u] /\ buckets'[u] = buckets[u]
  BY DEF Grant, TypeOK
<1>7. granted' \in [Turbines -> Seq(Nat)]
  BY <1>1, <1>3 DEF Grant, TypeOK
<1> QED
  BY <1>1, <1>2, <1>3, <1>4, <1>5, <1>6, <1>7

\* Times, grants and buckets keep their types, and no bucket outgrows Limit.
THEOREM TypeInvariant ==
  ASSUME ThrottleNumbers
  PROVE  Spec => []TypeOK
<1>1. Init => TypeOK
  BY ThrottleNumbers, FS_EmptySet, EmptySeq DEF Init, TypeOK, NoTime
<1>2. TypeOK /\ [Next]_vars => TypeOK'
  <2> SUFFICES ASSUME TypeOK, [Next]_vars PROVE TypeOK'
    OBVIOUS
  <2>1. ASSUME NEW c \in Callers, ReadClock(c), UNCHANGED <<clock, granted, buckets>>
        PROVE  TypeOK'
    BY <2>1, ThrottleNumbers DEF ReadClock, TypeOK, NoTime
  <2>2. ASSUME NEW c \in Callers, NEW t \in Turbines, Allow(c, t), UNCHANGED clock
        PROVE  TypeOK'
    <3>1. /\ now' \in [Callers -> Nat \cup {NoTime}]
          /\ \A d \in Callers : now'[d] # NoTime => now'[d] <= clock /\ clock <= now'[d] + MaxLag
          /\ now[c] \in Nat
      BY <2>2 DEF Allow, UseTime, TypeOK, NoTime
    <3>2. CASE Grant(t, now[c])
      <4>1. buckets' \in [Turbines -> SUBSET (Nat \ {0})]
        BY <3>1, <3>2, KeptFinite, GrantedFinite DEF Grant, TypeOK
      <4>2. \A u \in Turbines : /\ buckets'[u] \subseteq DOMAIN granted'[u]
                                /\ Cardinality(buckets'[u]) <= Limit
        <5>1. buckets'[t] \subseteq DOMAIN granted'[t] /\ Cardinality(buckets'[t]) <= Limit
          BY <3>1, <3>2, GrantProperties, KeptFinite
        <5>2. \A u \in Turbines \ {t} : granted'[u] = granted[u] /\ buckets'[u] = buckets[u]
          BY <3>1, <3>2, GrantProperties
        <5> QED
          BY <5>1, <5>2 DEF TypeOK
      <4> QED
        BY <2>2, <3>1, <3>2, <4>1, <4>2, GrantProperties DEF TypeOK
    <3>3. CASE Deny(t, now[c])
      <4>1. /\ buckets' = [buckets EXCEPT ![t] = Kept(t, now[c])]
            /\ granted' = granted
        BY <3>3 DEF Deny
      <4>2. buckets' \in [Turbines -> SUBSET (Nat \ {0})]
        BY <4>1 DEF TypeOK, Kept
      <4>3. \A u \in Turbines : /\ buckets'[u] \subseteq DOMAIN granted'[u]
                                /\ Cardinality(buckets'[u]) <= Limit
        BY <4>1, KeptFinite, ThrottleNumbers DEF TypeOK
      <4> QED
        BY <2>2, <3>1, <4>1, <4>2, <4>3 DEF TypeOK
    <3> QED
      BY <2>2, <3>2, <3>3 DEF Allow
  <2>3. CASE Tick /\ UNCHANGED <<now, granted, buckets>>
    <3>1. clock' = clock + 1 /\ clock' \in Nat
      BY <2>3 DEF Tick, TypeOK
    <3>2. \A c \in Callers : now[c] # NoTime => now[c] <= clock' /\ clock' <= now[c] + MaxLag
      BY <2>3, <3>1, ThrottleNumbers DEF Tick, TypeOK, NoTime
    <3> QED
      BY <2>3, <3>1, <3>2 DEF TypeOK
  <2>4. CASE UNCHANGED vars
    BY <2>4 DEF vars, TypeOK
  <2> QED
    BY <2>1, <2>2, <2>3, <2>4 DEF Next
<1> QED
  BY <1>1, <1>2, PTL DEF Spec

\* A bucket only forgets what no later window can reach.
THEOREM ForgottenGrantsAreOld ==
  ASSUME ThrottleNumbers
  PROVE  Spec => []ForgottenAreOld
<1>1. Init => ForgottenAreOld
  BY DEF Init, ForgottenAreOld
<1>2. TypeOK /\ ForgottenAreOld /\ [Next]_vars => ForgottenAreOld'
  <2> SUFFICES ASSUME TypeOK, ForgottenAreOld, [Next]_vars,
                      NEW u \in Turbines, NEW k \in DOMAIN granted'[u] \ buckets'[u]
               PROVE  granted'[u][k] + Window <= clock'
    BY DEF ForgottenAreOld
  <2>0. clock \in Nat /\ Window \in Nat
    BY ThrottleNumbers DEF TypeOK
  <2>1. CASE granted' = granted /\ buckets' = buckets /\ clock' \in {clock, clock + 1}
    <3>1. granted[u][k] + Window <= clock /\ granted[u][k] \in Nat
      BY <2>1, GrantedFinite DEF ForgottenAreOld
    <3> QED
      BY <2>0, <2>1, <3>1
  <2>2. ASSUME NEW c \in Callers, NEW t \in Turbines, Allow(c, t), UNCHANGED clock
        PROVE  granted'[u][k] + Window <= clock'
    <3> DEFINE n == now[c]
    <3>1. n \in Nat /\ n <= clock
      BY <2>2 DEF Allow, UseTime, TypeOK, NoTime
    <3>2. CASE u # t
      <4>1. granted'[u] = granted[u] /\ buckets'[u] = buckets[u]
        BY <2>2, <3>2 DEF Allow, Grant, Deny, TypeOK
      <4> QED
        BY <2>2, <4>1 DEF ForgottenAreOld
    <3>3. CASE u = t
      <4>1. k \in DOMAIN granted[t] /\ k \notin Kept(t, n) /\ granted'[t][k] = granted[t][k]
        <5>1. CASE Grant(t, n)
          BY <3>1, <3>3, <5>1, GrantProperties
        <5>2. CASE Deny(t, n)
          BY <3>3, <5>2 DEF Deny, TypeOK
        <5> QED
          BY <2>2, <5>1, <5>2 DEF Allow
      <4>2. granted[t][k] \in Nat
        BY <4>1, GrantedFinite
      <4>3. CASE k \in buckets[t]
        BY <2>0, <2>2, <3>1, <3>3, <4>1, <4>2, <4>3 DEF Kept
      <4>4. CASE k \notin buckets[t]
        BY <2>2, <3>3, <4>1, <4>4 DEF ForgottenAreOld
      <4> QED
        BY <4>3, <4>4
    <3> QED
      BY <3>2, <3>3
  <2> QED
    BY <2>1, <2>2 DEF Next, Tick, vars
<1> QED
  BY <1>1, <1>2, TypeInvariant, PTL DEF Spec

-----------------------------------------------------------------------------

\* PerShorterWindow for windows starting anywhere.
EveryWindow == \A t \in Turbines : \A x \in Int :
                 /\ Cardinality(GrantsIn(t, x, Window - MaxLag)) \in Nat
                 /\ Cardinality(GrantsIn(t, x, Window - MaxLag)) <= Limit

\* The grants of a window the new grant falls into are all in its bucket.
LEMMA WindowIsInBucket ==
  ASSUME ThrottleNumbers, TypeOK, ForgottenAreOld, NEW c \in Callers, NEW t \in Turbines, NEW x \in Int,
         now[c] \in Nat, now[c] <= clock, clock <= now[c] + MaxLag, Grant(t, now[c]),
         now[c] <= x + (Window - MaxLag), clock' = clock
  PROVE  GrantsIn(t, x, Window - MaxLag)' \subseteq buckets'[t]
<1> SUFFICES ASSUME NEW k \in DOMAIN granted'[t], x < granted'[t][k]
             PROVE  k \in buckets'[t]
  BY DEF GrantsIn
<1>0. /\ clock \in Nat /\ Window \in Nat /\ MaxLag \in Nat
  BY ThrottleNumbers DEF TypeOK
<1>1. CASE k = Len(granted[t]) + 1
  BY <1>1, GrantProperties
<1>2. CASE k \in DOMAIN granted[t]
  <2>1. granted'[t][k] = granted[t][k] /\ granted[t][k] \in Nat
    BY <1>2, GrantProperties, GrantedFinite
  <2>2. clock < granted[t][k] + Window /\ granted[t][k] > now[c] - Window
    BY <1>0, <2>1
  <2>3. k \in buckets[t]
    BY <1>0, <1>2, <2>1, <2>2 DEF ForgottenAreOld
  <2> QED
    BY <2>2, <2>3, GrantProperties DEF Kept
<1> QED
  BY <1>1, <1>2, GrantProperties

LEMMA EveryWindowStep ==
  ASSUME ThrottleNumbers, TypeOK, TypeOK', ForgottenAreOld, EveryWindow, [Next]_vars
  PROVE  EveryWindow'
<1> DEFINE w == Window - MaxLag
<1> SUFFICES ASSUME NEW u \in Turbines, NEW x \in Int
             PROVE  /\ Cardinality(GrantsIn(u, x, w)') \in Nat
                    /\ Cardinality(GrantsIn(u, x, w)') <= Limit
  BY DEF EveryWindow
<1>0. w \in Int /\ Limit \in Nat
  BY ThrottleNumbers
<1>1. CASE granted'[u] = granted[u]
  <2>1. GrantsIn(u, x, w)' = GrantsIn(u, x, w)
    BY <1>1 DEF GrantsIn
  <2> QED
    BY <2>1 DEF EveryWindow
<1>2. ASSUME NEW c \in Callers, UseTime(c), Grant(u, now[c]), UNCHANGED clock
      PROVE  /\ Cardinality(GrantsIn(u, x, w)') \in Nat
             /\ Cardinality(GrantsIn(u, x, w)') <= Limit
  <2> DEFINE n == now[c]
  <2>1. n \in Nat /\ n <= clock /\ clock <= n + MaxLag
    BY <1>2 DEF UseTime, TypeOK, NoTime
  <2>2. CASE x < n /\ n <= x + w
    <3>1. GrantsIn(u, x, w)' \subseteq buckets'[u]
      BY <1>2, <2>1, <2>2, WindowIsInBucket
    <3>2. IsFiniteSet(buckets'[u]) /\ Cardinality(buckets'[u]) <= Limit
      <4>1. Kept(u, n) \cup {Len(granted[u]) + 1} = buckets'[u]
        BY <1>2, <2>1, GrantProperties
      <4>2. IsFiniteSet(Kept(u, n))
        BY KeptFinite
      <4>3. IsFiniteSet(Kept(u, n) \cup {Len(granted[u]) + 1})
        BY <4>2, FS_AddElement
      <4> QED
        BY <1>2, <2>1, <4>1, <4>3, GrantProperties
    <3> QED
      BY <1>0, <3>1, <3>2, FS_Subset, FS_CardinalityType
  <2>3. CASE ~(x < n /\ n <= x + w)
    <3>1. GrantsIn(u, x, w)' = GrantsIn(u, x, w)
      <4>1. /\ DOMAIN granted'[u] = DOMAIN granted[u] \cup {Len(granted[u]) + 1}
            /\ granted'[u][Len(granted[u]) + 1] = n
            /\ \A k \in DOMAIN granted[u] : granted'[u][k] = granted[u][k]
            /\ Len(granted[u]) + 1 \notin DOMAIN granted[u]
        BY <1>2, <2>1, GrantProperties
      <4> QED
        BY <2>3, <4>1 DEF GrantsIn
    <3> QED
      BY <3>1 DEF EveryWindow
  <2> QED
    BY <2>2, <2>3
<1>3. ASSUME NEW c \in Callers, NEW t \in Turbines, Allow(c, t), UNCHANGED clock,
             granted'[u] # granted[u]
      PROVE  UseTime(c) /\ Grant(u, now[c])
  BY <1>3 DEF Allow, Grant, Deny, TypeOK
<1> QED
  BY <1>1, <1>2, <1>3 DEF Next, vars

\* However late callers' times are, up to MaxLag, no turbine gets more than
\* Limit grants in any window of Window - MaxLag.
THEOREM BudgetPerShorterWindow ==
  ASSUME ThrottleNumbers
  PROVE  Spec => []PerShorterWindow
<1>1. Init => EveryWindow
  <2> SUFFICES ASSUME Init, NEW t \in Turbines, NEW x \in Int
               PROVE  Cardinality(GrantsIn(t, x, Window - MaxLag)) = 0
    BY ThrottleNumbers DEF EveryWindow
  <2>1. GrantsIn(t, x, Window - MaxLag) = {}
    BY DEF Init, GrantsIn
  <2> QED
    BY <2>1, FS_EmptySet
<1>2. EveryWindow /\ TypeOK => PerShorterWindow
  BY DEF EveryWindow, PerShorterWindow, TypeOK
<1>3. Spec => [](TypeOK /\ ForgottenAreOld)
  BY TypeInvariant, ForgottenGrantsAreOld, PTL
<1>4. TypeOK /\ TypeOK' /\ ForgottenAreOld /\ EveryWindow /\ [Next]_vars => EveryWindow'
  BY EveryWindowStep
<1> QED
  BY <1>1, <1>2, <1>3, <1>4, PTL DEF Spec

=============================================================================
