----------------------------- MODULE BatchWriter -----------------------------
(***************************************************************************)
(* internal/telemetry: BatchWriter (batchwriter.go).                       *)
(*                                                                         *)
(* Add and Flush run under the writer's lock, and so does the call of the  *)
(* sink.  A sink that returns an error has taken nothing: the batch was    *)
(* taken out of `pending` before the call and is not put back.             *)
(*                                                                         *)
(* Samples are numbered in the order Add got them.                         *)
(***************************************************************************)
EXTENDS Naturals, Sequences

CONSTANTS
  BatchLimit,  \* BatchWriter.limit
  MaxSamples   \* bound on the samples added

ASSUME WriterNumbers == BatchLimit \in Nat \ {0}

VARIABLES
  pending,   \* BatchWriter.pending
  added,     \* samples added
  sunk,      \* what the sink took, in order
  lost,      \* what was in batches the sink refused
  stopped,   \* stop is closed
  late,      \* the first sample that may come after stop was closed
  flusher    \* PeriodicallyFlush: "on" or "returned"

writerVars == <<pending, added, sunk, lost, stopped, late, flusher>>

WriterInit == /\ pending = << >> /\ added = 0
              /\ sunk = << >> /\ lost = {}
              /\ stopped = FALSE /\ late = 0
              /\ flusher = "on"

Elements(q) == {q[k] : k \in DOMAIN q}

\* Mutant: flush empties the buffer only after the sink took the batch, so a
\* refused batch stays.
FlushKept(batch) ==
  \/ batch = << >> /\ pending' = << >> /\ UNCHANGED <<sunk, lost>>
  \/ batch # << >> /\ pending' = << >> /\ sunk' = sunk \o batch /\ UNCHANGED lost
  \/ batch # << >> /\ pending' = batch /\ UNCHANGED <<sunk, lost>>

\* flush of a buffer that holds `batch`.
FlushOf(batch) ==
  /\ pending' = << >>
  /\ \/ sunk' = sunk \o batch /\ UNCHANGED lost
     \/ lost' = lost \cup Elements(batch) /\ UNCHANGED sunk

AddSample ==
  LET grown == Append(pending, added + 1)
  IN /\ added < MaxSamples
     /\ added' = added + 1
     /\ \/ Len(grown) >= BatchLimit /\ FlushOf(grown)
        \/ Len(grown) < BatchLimit /\ pending' = grown /\ UNCHANGED <<sunk, lost>>
     /\ UNCHANGED <<stopped, late, flusher>>

\* Flush called by anybody; of an empty buffer it does not reach the sink.
Flush == /\ pending # << >>
         /\ FlushOf(pending)
         /\ UNCHANGED <<added, stopped, late, flusher>>

\* PeriodicallyFlush on a tick.
FlushTick == flusher = "on" /\ Flush

CloseStop == /\ ~stopped
             /\ stopped' = TRUE /\ late' = added + 1
             /\ UNCHANGED <<pending, added, sunk, lost, flusher>>

\* PeriodicallyFlush sees stop: one more Flush, and it returns.
FlushOnStop == /\ flusher = "on" /\ stopped
               /\ flusher' = "returned"
               /\ FlushOf(pending)
               /\ UNCHANGED <<added, stopped, late>>

WriterNext == AddSample \/ Flush \/ FlushTick \/ CloseStop \/ FlushOnStop

WriterSpec == WriterInit /\ [][WriterNext]_writerVars

\* The ticker fires and the flusher's select takes what is ready.
WriterFair == WF_writerVars(FlushTick) /\ WF_writerVars(FlushOnStop)

-----------------------------------------------------------------------------

\* Every sample is in one place: taken by the sink, once and in the order of
\* the Adds, refused with its batch, or still buffered; the buffer is always
\* the newest samples, fewer than the limit; and once PeriodicallyFlush has
\* returned, nothing that was added before stop was closed is still in it.
EachSampleOnce ==
  LET kept == sunk \o pending
  IN /\ \A j, k \in DOMAIN kept : j < k => kept[j] < kept[k]
     /\ Elements(kept) \cap lost = {}
     /\ Elements(kept) \cup lost = 1 .. added
     /\ Len(pending) < BatchLimit
     /\ Elements(pending) = (added - Len(pending) + 1) .. added
     /\ flusher = "returned" => \A n \in Elements(pending) : n >= late

=============================================================================
