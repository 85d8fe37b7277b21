---------------------------- MODULE Connections ----------------------------
(***************************************************************************)
(* internal/scada: sessions (session.go) and heartbeats (heartbeat.go).    *)
(* Nothing in the repository calls them yet: the holders of sessions and   *)
(* the network are modelled as the least their signatures demand.          *)
(*                                                                         *)
(* A session is its position in `sessions`.  Times reach Seen late, and so *)
(* in any order.                                                           *)
(***************************************************************************)
EXTENDS Integers, Sequences, FiniteSets

CONSTANTS
  Connected,     \* turbines with sessions and heartbeats
  MaxSessions,   \* bound on the sessions opened for a turbine
  Timeout,       \* what Stale is asked for
  MaxDelay,      \* how late a heartbeat may be
  LastInstant    \* bound on the clock

ASSUME DelayAndTimeout == Timeout \in Int /\ MaxDelay \in Nat

VARIABLES
  sessions,  \* all sessions ever opened, [turbine, closed]
  pool,      \* SessionPool.sessions, turbine -> session
  replaced,  \* turbine -> the sessions of it that Open took out of the pool (history)
  lastSeen,  \* Heartbeat.lastSeen, turbine -> time
  heard,     \* turbine -> when its last heartbeat came
  instant    \* the clock

connVars == <<sessions, pool, replaced, lastSeen, heard, instant>>

ConnInit == /\ sessions = << >> /\ pool = << >> /\ lastSeen = << >> /\ heard = << >>
            /\ replaced = [t \in Connected |-> {}]
            /\ instant = 0

OpenedFor(t) == {s \in DOMAIN sessions : sessions[s].turbine = t}

\* Those whose IsClosed is false.
OpenOf(t) == {s \in OpenedFor(t) : ~sessions[s].closed}

\* What SessionPool.Get finds for a turbine.
Pooled(t) == IF t \in DOMAIN pool THEN {pool[t]} ELSE {}

\* SessionPool.Open: an existing session of the turbine leaves the pool.
Open(t) ==
  /\ Cardinality(OpenedFor(t)) < MaxSessions
  /\ sessions' = Append(sessions, [turbine |-> t, closed |-> FALSE])
  /\ pool' = [u \in DOMAIN pool \cup {t} |-> IF u = t THEN Len(sessions) + 1 ELSE pool[u]]
  /\ replaced' = [replaced EXCEPT ![t] = @ \cup Pooled(t)]
  /\ UNCHANGED <<lastSeen, heard, instant>>

\* Mutant: Close leaves the session in the pool.
CloseKept(t) ==
  /\ t \in DOMAIN pool
  /\ sessions' = [sessions EXCEPT ![pool[t]].closed = TRUE]
  /\ UNCHANGED <<pool, replaced, lastSeen, heard, instant>>

\* SessionPool.Close, whoever calls it, of the session that is in the pool.
Close(t) ==
  /\ t \in DOMAIN pool
  /\ sessions' = [sessions EXCEPT ![pool[t]].closed = TRUE]
  /\ pool' = [u \in DOMAIN pool \ {t} |-> pool[u]]
  /\ UNCHANGED <<replaced, lastSeen, heard, instant>>

\* Heartbeat.Seen of a heartbeat that was sent at `at`, whatever came before.
Seen(t, at) ==
  /\ lastSeen' = [u \in DOMAIN lastSeen \cup {t} |-> IF u = t THEN at ELSE lastSeen[u]]
  /\ heard' = [u \in DOMAIN heard \cup {t} |-> IF u = t THEN instant ELSE heard[u]]
  /\ UNCHANGED <<sessions, pool, replaced, instant>>

\* Heartbeat.Stale.
Stale == {t \in DOMAIN lastSeen : instant - lastSeen[t] > Timeout}

InstantPasses == /\ instant < LastInstant
                 /\ instant' = instant + 1
                 /\ UNCHANGED <<sessions, pool, replaced, lastSeen, heard>>

ConnNext == \/ \E t \in Connected : \/ Open(t) \/ Close(t)
                                    \/ \E d \in 0 .. MaxDelay : d <= instant /\ Seen(t, instant - d)
            \/ InstantPasses

ConnSpec == ConnInit /\ [][ConnNext]_connVars

-----------------------------------------------------------------------------

\* What is known of a turbine's connection is true.  The pool holds the newest
\* session of a turbine, open, and the others that are open are exactly those
\* that Open put out of it.  So a Close, whichever session its caller has in
\* mind, ends the newest one and no other; and one that Open put out stays open
\* for good, known to nobody but its holder.  A turbine is called stale when it
\* has been silent for longer than the timeout, and a late heartbeat, which may
\* take its time back, does not make it stale sooner than the delay allows.
ConnectionsKnown ==
  \A t \in Connected :
    /\ OpenOf(t) = replaced[t] \cup Pooled(t)
    /\ \A p \in Pooled(t) : p \notin replaced[t] /\ \A s \in OpenedFor(t) : s <= p
    /\ t \in DOMAIN heard =>
         LET silent == instant - heard[t] IN
           /\ silent > Timeout => t \in Stale
           /\ t \in Stale => silent > Timeout - MaxDelay

=============================================================================
