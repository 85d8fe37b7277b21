------------------------------ MODULE Throttle ------------------------------
(***************************************************************************)
(* internal/alarm/throttle.go: how many alarms a turbine may raise within  *)
(* a window of time.                                                       *)
(*                                                                         *)
(* The bucket of a turbine is a slice of the times it was granted.  Here   *)
(* `granted` lists every grant a turbine ever had and `buckets` says which *)
(* of them its slice still holds.  Allow is given the time: its caller     *)
(* read the clock BEFORE it got the lock under which Allow runs, so times  *)
(* can reach Allow out of order.  MaxLag bounds how far, and is the only   *)
(* assumption on scheduling.                                               *)
(***************************************************************************)
EXTENDS Integers, Sequences, FiniteSets

CONSTANTS
  Callers,
  Turbines,
  Window,   \* length of the window
  Limit,    \* grants per window
  MaxLag,   \* how old a caller's time may be when Allow gets it
  MaxTime   \* bound on the clock

\* What the theorems about the throttle assume of its numbers.
ThrottleNumbers == Window \in Nat /\ Limit \in Nat /\ MaxLag \in Nat

VARIABLES
  clock,
  now,      \* per caller, the time it read and has not yet used, or NoTime
  granted,  \* per turbine, the times of its grants, in the order of the grants
  buckets   \* per turbine, the grants its bucket still holds

vars == <<clock, now, granted, buckets>>

NoTime == -1

Init == /\ clock = 0
        /\ now = [c \in Callers |-> NoTime]
        /\ granted = [t \in Turbines |-> << >>]
        /\ buckets = [t \in Turbines |-> {}]

\* Mutant: the cutoff one too young.
KeptShort(t, n) == {k \in buckets[t] : granted[t][k] > n - Window + 1}

\* The entries of t's bucket that are after the cutoff of a call at time n.
Kept(t, n) == {k \in buckets[t] : granted[t][k] > n - Window}

WithinBudget(t, n) == Cardinality(Kept(t, n)) < Limit

\* Allow returns true.
Grant(t, n) ==
  /\ WithinBudget(t, n)
  /\ granted' = [granted EXCEPT ![t] = Append(@, n)]
  /\ buckets' = [buckets EXCEPT ![t] = Kept(t, n) \cup {Len(granted[t]) + 1}]

\* Allow returns false.
Deny(t, n) ==
  /\ ~WithinBudget(t, n)
  /\ buckets' = [buckets EXCEPT ![t] = Kept(t, n)]
  /\ UNCHANGED granted

ReadClock(c) ==
  /\ now[c] = NoTime
  /\ now' = [now EXCEPT ![c] = clock]

UseTime(c) ==
  /\ now[c] # NoTime
  /\ now' = [now EXCEPT ![c] = NoTime]

Allow(c, t) ==
  /\ UseTime(c)
  /\ Grant(t, now[c]) \/ Deny(t, now[c])

Tick ==
  /\ clock < MaxTime
  /\ \A c \in Callers : now[c] # NoTime => clock + 1 - now[c] <= MaxLag
  /\ clock' = clock + 1

Next == \/ \E c \in Callers : ReadClock(c) /\ UNCHANGED <<clock, granted, buckets>>
        \/ \E c \in Callers, t \in Turbines : Allow(c, t) /\ UNCHANGED clock
        \/ Tick /\ UNCHANGED <<now, granted, buckets>>

Spec == Init /\ [][Next]_vars

-----------------------------------------------------------------------------

\* Times are those of the clock, no older than MaxLag when they are used; a
\* bucket never outgrows the limit.
TypeOK ==
  /\ clock \in Nat
  /\ now \in [Callers -> Nat \cup {NoTime}]
  /\ \A c \in Callers : now[c] # NoTime => now[c] <= clock /\ clock <= now[c] + MaxLag
  /\ granted \in [Turbines -> Seq(Nat)]
  /\ buckets \in [Turbines -> SUBSET (Nat \ {0})]
  /\ \A t \in Turbines : /\ buckets[t] \subseteq DOMAIN granted[t]
                         /\ Cardinality(buckets[t]) <= Limit

\* A grant leaves the bucket only when no call to come can have its window
\* reach back to it.
ForgottenAreOld ==
  \A t \in Turbines : \A k \in DOMAIN granted[t] \ buckets[t] :
    granted[t][k] + Window <= clock

\* The grants of t with times in (x, x + w].
GrantsIn(t, x, w) == {k \in DOMAIN granted[t] : x < granted[t][k] /\ granted[t][k] <= x + w}

\* What the bucket delivers when times may be late: the limit holds for every
\* window shorter by the lag, at whatever instant it starts, although a call
\* with a newer time has already discarded entries an older one would count.
PerShorterWindow ==
  \A t \in Turbines : \A x \in -1..clock :
    Cardinality(GrantsIn(t, x, Window - MaxLag)) <= Limit

=============================================================================
