----------------------------- MODULE IngestPool -----------------------------
(***************************************************************************)
(* internal/telemetry: Ingestor.Ingest (ingest.go) appending to the sample *)
(* registry (registry.go).                                                 *)
(*                                                                         *)
(* Each call of Ingest owns a channel and a pool of workers; all calls     *)
(* share the registry.  The channel is first in, first out, and samples    *)
(* are sent in the order of the batch, so two counters say what it holds:  *)
(* samples taken + 1 .. sent.  A call is born with its goroutines started; *)
(* an empty batch returns at once and is not a call here.                  *)
(*                                                                         *)
(* `bufs` is the registry's map of rings; `log` is the history of all that *)
(* was ever appended, which the code does not keep.                        *)
(***************************************************************************)
EXTENDS Naturals, Sequences, FiniteSetsExt

CONSTANTS
  Calls,      \* calls of Ingest
  Batch,      \* call -> its samples, of which only the turbine matters here
  Workers,    \* workers per call
  Cancels,    \* the calls whose context may be cancelled
  Turbines, NoTurbine,
  Capacity    \* capacity of a turbine's ring

ASSUME PoolNumbers == Workers \in Nat \ {0} /\ Capacity \in Nat \ {0}
ASSUME BatchTypes == \A c \in Calls : Batch[c] \in Seq(Turbines \cup {NoTurbine})
ASSUME NoTurbineIsNone == NoTurbine \notin Turbines

VARIABLES
  phase,      \* per call: "sending", "waiting" (channel closed), "returned"
  result,     \* per call: "none" until the end of sending, then "all" or "cancelled"
  cancelled,  \* the calls whose context is done
  sent,       \* per call: samples sent to the channel
  taken,      \* per call: samples received from it
  worker,     \* per call and worker: "select", "done", or the sample in hand
  bufs,       \* per turbine: the ring, samples as <<call, index>>
  log         \* per turbine: everything ever appended

vars == <<phase, result, cancelled, sent, taken, worker, bufs, log>>

Pool == 1..Workers

\* What a worker is doing: waiting in its select, gone, or about to append.
Selecting == [pc |-> "select"]
Gone      == [pc |-> "done"]
Hand(i)   == [pc |-> "append", sample |-> i]

Init == /\ phase = [c \in Calls |-> "sending"]
        /\ result = [c \in Calls |-> "none"]
        /\ cancelled = {}
        /\ sent = [c \in Calls |-> 0]
        /\ taken = [c \in Calls |-> 0]
        /\ worker = [c \in Calls |-> [w \in Pool |-> Selecting]]
        /\ bufs = [t \in Turbines |-> << >>]
        /\ log = [t \in Turbines |-> << >>]

\* Mutant: a channel with room for one sample.
RoomForOne(c) == sent[c] - taken[c] < 1

\* jobs is made with a capacity of len(samples).
Room(c) == sent[c] - taken[c] < Len(Batch[c])

Send(c) ==
  /\ phase[c] = "sending"
  /\ sent[c] < Len(Batch[c])
  /\ Room(c)
  /\ sent' = [sent EXCEPT ![c] = @ + 1]
  /\ UNCHANGED <<phase, result, cancelled, taken, worker, bufs, log>>

Close(c, outcome) ==
  /\ phase[c] = "sending"
  /\ phase' = [phase EXCEPT ![c] = "waiting"]
  /\ result' = [result EXCEPT ![c] = outcome]
  /\ UNCHANGED <<cancelled, sent, taken, worker, bufs, log>>

\* The send loop runs to its end.
CloseAll(c) == sent[c] = Len(Batch[c]) /\ Close(c, "all")

\* The send loop's select takes ctx.Done, though a send was possible too.
CloseCancelled(c) == c \in cancelled /\ sent[c] < Len(Batch[c]) /\ Close(c, "cancelled")

\* wg.Wait ends and Ingest returns.
Return(c) ==
  /\ phase[c] = "waiting"
  /\ \A w \in Pool : worker[c][w] = Gone
  /\ phase' = [phase EXCEPT ![c] = "returned"]
  /\ UNCHANGED <<result, cancelled, sent, taken, worker, bufs, log>>

\* The count Ingest returns.
Returned(c) == IF result[c] = "all" THEN Len(Batch[c]) ELSE 0

-----------------------------------------------------------------------------

Become(c, w, state) == worker' = [worker EXCEPT ![c][w] = state]

WorkerCancelled(c, w) ==
  /\ worker[c][w] = Selecting
  /\ c \in cancelled
  /\ Become(c, w, Gone)
  /\ UNCHANGED <<phase, result, cancelled, sent, taken, bufs, log>>

\* Mutant: the worker reads a sample without taking it from the channel.
WorkerPeek(c, w) ==
  /\ worker[c][w] = Selecting
  /\ taken[c] < sent[c]
  /\ Become(c, w, Hand(taken[c] + 1))
  /\ UNCHANGED <<phase, result, cancelled, sent, taken, bufs, log>>

WorkerTake(c, w) ==
  /\ worker[c][w] = Selecting
  /\ taken[c] < sent[c]
  /\ taken' = [taken EXCEPT ![c] = @ + 1]
  /\ Become(c, w, Hand(taken[c] + 1))
  /\ UNCHANGED <<phase, result, cancelled, sent, bufs, log>>

\* Mutant: a worker that finds the channel empty leaves.
WorkerEmpty(c, w) ==
  /\ worker[c][w] = Selecting
  /\ taken[c] = sent[c]
  /\ Become(c, w, Gone)
  /\ UNCHANGED <<phase, result, cancelled, sent, taken, bufs, log>>

\* The channel is closed and empty.
WorkerClosed(c, w) ==
  /\ worker[c][w] = Selecting
  /\ phase[c] # "sending"
  /\ taken[c] = sent[c]
  /\ Become(c, w, Gone)
  /\ UNCHANGED <<phase, result, cancelled, sent, taken, bufs, log>>

\* The ring keeps the newest Capacity samples.
Trim(s) == IF Len(s) > Capacity THEN SubSeq(s, Len(s) - Capacity + 1, Len(s)) ELSE s

\* Append stores the sample and the worker goes back to its select.
WorkerAppend(c, w) ==
  /\ worker[c][w].pc = "append"
  /\ LET i == worker[c][w].sample
         t == Batch[c][i]
     IN  /\ t # NoTurbine
         /\ bufs' = [bufs EXCEPT ![t] = Trim(Append(@, <<c, i>>))]
         /\ log' = [log EXCEPT ![t] = Append(@, <<c, i>>)]
  /\ Become(c, w, Selecting)
  /\ UNCHANGED <<phase, result, cancelled, sent, taken>>

\* Append refuses a sample without a turbine, and the worker leaves.
WorkerRefused(c, w) ==
  /\ worker[c][w].pc = "append"
  /\ Batch[c][worker[c][w].sample] = NoTurbine
  /\ Become(c, w, Gone)
  /\ UNCHANGED <<phase, result, cancelled, sent, taken, bufs, log>>

Cancel(c) ==
  /\ c \in Cancels \ cancelled
  /\ cancelled' = cancelled \cup {c}
  /\ UNCHANGED <<phase, result, sent, taken, worker, bufs, log>>

Main(c) == Send(c) \/ CloseAll(c) \/ CloseCancelled(c) \/ Return(c)

Work(c, w) == \/ WorkerCancelled(c, w)
              \/ WorkerTake(c, w)
              \/ WorkerClosed(c, w)
              \/ WorkerAppend(c, w)
              \/ WorkerRefused(c, w)

Next == \E c \in Calls : \/ Main(c)
                         \/ \E w \in Pool : Work(c, w)
                         \/ Cancel(c)

Spec == Init /\ [][Next]_vars

\* Every goroutine that can run does.
Fair == \A c \in Calls : /\ WF_vars(Main(c))
                         /\ \A w \in Pool : WF_vars(Work(c, w))

-----------------------------------------------------------------------------

\* What a caller of Ingest sees of it: nothing, a count, or an error.
Answer == [c \in Calls |-> CASE phase[c] # "returned" -> "none"
                             [] phase[c] = "returned" /\ result[c] = "all" -> "ok"
                             [] OTHER -> "error"]

Log == INSTANCE SampleLog WITH answer <- Answer

Hands(c, i) == {w \in Pool : worker[c][w] = Hand(i)}

\* No interleaving of the workers loses or repeats a sample on its way to the
\* ring: one that left the channel is in one worker's hand or in one place of
\* its turbine's log, one that has not is in neither, and a turbine's ring is
\* the newest part of all that was appended for it.
AppendedOnce ==
  /\ \A c \in Calls : \A i \in Log!Valid(c) :
       Cardinality(Hands(c, i)) + Cardinality(Log!Places(c, i)) = IF i <= taken[c] THEN 1 ELSE 0
  /\ \A t \in Turbines :
       bufs[t] = SubSeq(log[t], Max({1, Len(log[t]) - Capacity + 1}), Len(log[t]))

\* The pool keeps what SampleLog promises, whatever workers, the sending loop and
\* a cancellation do in between: nothing is appended twice, nothing after the
\* return, and a call that returns has lost samples only if it was cancelled or
\* if refusals had cost it all its workers.
LogSpec == Log!Spec

\* Ingest: "It returns the number of samples successfully appended", when it
\* returns no error.
CountIsAppended ==
  \A c \in Calls : phase[c] = "returned" /\ result[c] = "all"
      => Returned(c) = Cardinality(Log!Appended(c))

\* Every call returns, cancelled or not, even when refusals have killed all its
\* workers: the channel has room for the whole batch, so sending never waits
\* for them.
IngestReturns == <>(\A c \in Calls : phase[c] = "returned")

=============================================================================
