-------------------------- MODULE BackpressureGate --------------------------
(***************************************************************************)
(* internal/ops: BackpressureGate (backpressure.go), a buffered channel    *)
(* of Limit slots.  A caller sends to take a slot and receives to give one *)
(* back; senders that find the channel full queue in the order they came,  *)
(* and a receive hands the place it frees to the first of them.            *)
(*                                                                         *)
(* A caller takes a slot with Run, which blocks and gives the slot back by *)
(* itself, or with TryAcquire, which does not block and leaves the giving  *)
(* back to a later Release.  The function given to Run may call Run again, *)
(* up to Depth calls deep: each takes a slot of its own.                   *)
(***************************************************************************)
EXTENDS Naturals, Sequences, FiniteSets

CONSTANTS
  Users,    \* goroutines that use the gate
  Limit,    \* cap(slots)
  Depth     \* how deep calls of Run are nested

ASSUME GateNumbers == Limit \in Nat \ {0} /\ Depth \in Nat \ {0}

VARIABLES
  slots,   \* len(slots)
  queue,   \* goroutines blocked in Acquire
  held,    \* per goroutine, the slots it took and has not given back
  tried    \* the goroutines whose slot came from TryAcquire

gateVars == <<slots, queue, held, tried>>

Queued(w) == \E k \in DOMAIN queue : queue[k] = w

GateInit == /\ slots = 0
            /\ queue = << >>
            /\ held = [w \in Users |-> 0]
            /\ tried = {}

\* Mutant: the channel is made one slot too large.
TakeOneMore(w) == /\ slots <= Limit
                  /\ slots' = slots + 1
                  /\ held' = [held EXCEPT ![w] = @ + 1]
                  /\ UNCHANGED queue

Take(w) == /\ slots < Limit
           /\ slots' = slots + 1
           /\ held' = [held EXCEPT ![w] = @ + 1]
           /\ UNCHANGED queue

\* Run calls Acquire.
Acquire(w) ==
  /\ ~Queued(w) /\ w \notin tried /\ held[w] < Depth
  /\ \/ Take(w)
     \/ /\ slots >= Limit
        /\ queue' = Append(queue, w)
        /\ UNCHANGED <<slots, held>>
  /\ UNCHANGED tried

\* TryAcquire that succeeds; one that fails changes nothing.
TryAcquire(w) == /\ ~Queued(w) /\ held[w] = 0
                 /\ Take(w)
                 /\ tried' = tried \cup {w}

\* `<-g.slots`: the channel stays full when somebody waits to send.
Receive(w) == /\ slots > 0
              /\ \/ /\ queue = << >>
                    /\ slots' = slots - 1
                    /\ held' = [held EXCEPT ![w] = @ - 1]
                    /\ UNCHANGED queue
                 \/ /\ queue # << >>
                    /\ held' = [held EXCEPT ![w] = @ - 1, ![Head(queue)] = @ + 1]
                    /\ queue' = Tail(queue)
                    /\ UNCHANGED slots

\* Mutant: Run calls Release without defer, and fn panics.
RunEndsOrPanics(w) == /\ held[w] > 0 /\ ~Queued(w) /\ w \notin tried
                      /\ \/ Receive(w)
                         \/ held' = [held EXCEPT ![w] = @ - 1] /\ UNCHANGED <<slots, queue>>
                      /\ UNCHANGED tried

\* The function given to Run returns or panics; the deferred Release follows.
RunEnds(w) == /\ held[w] > 0 /\ ~Queued(w) /\ w \notin tried
              /\ Receive(w)
              /\ UNCHANGED tried

\* Release by a goroutine whose TryAcquire succeeded.
Release(w) == /\ w \in tried
              /\ Receive(w)
              /\ tried' = tried \ {w}

GateNext == \E w \in Users :
              Acquire(w) \/ TryAcquire(w) \/ RunEnds(w) \/ Release(w)

GateSpec == GateInit /\ [][GateNext]_gateVars

\* Functions given to Run return, and a slot taken by TryAcquire is released.
GateFair == \A w \in Users : WF_gateVars(RunEnds(w)) /\ WF_gateVars(Release(w))

-----------------------------------------------------------------------------

\* The slots goroutines of W hold, the first, second, ... of each.
SlotsOf(W) == {t \in W \X (1 .. Depth) : t[2] <= held[t[1]]}

HeldBy(W) == Cardinality(SlotsOf(W))

\* "limits concurrent processing to a fixed number of slots": never more than
\* Limit in use, none leaks or is given back twice whether a function returned
\* or panicked, and nobody waits while one is free.
SlotsConserved == /\ HeldBy(Users) = slots
                  /\ slots <= Limit
                  /\ queue # << >> => slots = Limit

\* Everyone who waits in Acquire gets a slot, also against goroutines that
\* keep taking slots with TryAcquire, except in one case: every slot belongs
\* to a goroutine that waits for a further one, in a nested call of Run.
WaiterServed ==
  \A w \in Users :
    Queued(w) ~> (~Queued(w) \/ HeldBy({v \in Users : Queued(v)}) = Limit)

=============================================================================
