----------------------------- MODULE SampleLog -----------------------------
(***************************************************************************)
(* What internal/telemetry promises its callers: a call of Ingest adds the *)
(* samples of its batch to the logs of their turbines, each at most once,  *)
(* in any order, and only while it is open; and it may return with samples *)
(* missing only when its context was cancelled or when it met as many      *)
(* samples without a turbine as it has workers.                            *)
(*                                                                         *)
(* IngestPool implements it; TelemetryRequest is built on it.              *)
(***************************************************************************)
EXTENDS Naturals, Sequences, FiniteSets

CONSTANTS
  Calls,     \* calls of Ingest
  Batch,     \* call -> its samples, each a turbine, by their places
  Workers,   \* workers per call
  Turbines,
  NoTurbine  \* the turbine of a sample that names none

VARIABLES
  log,       \* per turbine, the samples ever appended, as <<call, index>>
  answer,    \* per call: "none" while it is open, then "ok" or "error"
  cancelled  \* the calls whose context is done

vars == <<log, answer, cancelled>>

Init == /\ log = [t \in Turbines |-> << >>]
        /\ answer = [c \in Calls |-> "none"]
        /\ cancelled = {}

Samples(c) == DOMAIN Batch[c]

Valid(c) == {i \in Samples(c) : Batch[c][i] # NoTurbine}

Refused(c) == Samples(c) \ Valid(c)

\* The places of a valid sample in the log of its turbine.
Places(c, i) == LET t == Batch[c][i]
                IN  {k \in DOMAIN log[t] : log[t][k] = <<c, i>>}

Appended(c) == {i \in Valid(c) : Places(c, i) # {}}

AppendSample(c, i) ==
  /\ answer[c] = "none"
  /\ i \in Valid(c) \ Appended(c)
  /\ log' = [log EXCEPT ![Batch[c][i]] = Append(@, <<c, i>>)]
  /\ UNCHANGED <<answer, cancelled>>

\* Why a call may return although samples are missing.
MayLose(c) == c \in cancelled \/ Cardinality(Refused(c)) >= Workers

ReturnOk(c) ==
  /\ answer[c] = "none"
  /\ Appended(c) = Valid(c) \/ MayLose(c)
  /\ answer' = [answer EXCEPT ![c] = "ok"]
  /\ UNCHANGED <<log, cancelled>>

\* An empty batch is returned before the context is looked at.
ReturnError(c) ==
  /\ answer[c] = "none"
  /\ c \in cancelled /\ Samples(c) # {}
  /\ answer' = [answer EXCEPT ![c] = "error"]
  /\ UNCHANGED <<log, cancelled>>

Cancel(c) ==
  /\ c \notin cancelled
  /\ cancelled' = cancelled \cup {c}
  /\ UNCHANGED <<log, answer>>

Next == \E c \in Calls : \/ \E i \in Valid(c) : AppendSample(c, i)
                         \/ ReturnOk(c)
                         \/ ReturnError(c)
                         \/ Cancel(c)

Spec == Init /\ [][Next]_vars

=============================================================================
