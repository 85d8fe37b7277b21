---------------------------- MODULE AuditDelivery ----------------------------
(***************************************************************************)
(* internal/audit: Delivery (delivery.go) replays the stream's history to  *)
(* a subscriber from its Checkpoint (checkpoint.go).                       *)
(*                                                                         *)
(* Deliver holds its own lock throughout, so deliveries exclude each other *)
(* and not much else: the history grows under the stream's lock, the       *)
(* consumers receive, and Checkpoint.Set has only the checkpoint's lock.   *)
(* Deliver works on a copy of the history, so an event published after the *)
(* copy waits for the next delivery.                                       *)
(*                                                                         *)
(* An event is its position in the history.                                *)
(***************************************************************************)
EXTENDS Naturals, Sequences, FiniteSets

CONSTANTS
  Callers,    \* goroutines that call Deliver
  Subs,       \* subscriber ids; each has one channel
  Served,     \* those that keep calling Deliver and reading their channel
  Cap,        \* capacity of a channel
  MaxEvents,  \* bound on the history
  Adjusted,   \* those somebody moves with Checkpoint.Set; {} in the program
  SetTo       \* the offsets they are moved to

ASSUME DeliveryNumbers == Cap \in Nat \ {0} /\ MaxEvents \in Nat /\ SetTo \subseteq Nat
ASSUME SubscriberTypes == Served \subseteq Subs /\ Adjusted \subseteq Subs

VARIABLES
  published,  \* length of Stream.history
  offset,     \* Checkpoint.offsets
  queue,      \* per subscriber, its channel
  sent,       \* per subscriber, all that was ever sent to it (history)
  mu,         \* who holds Delivery.mu
  call        \* per caller: where it is, for whom, its next index, its copy's length

vars == <<published, offset, queue, sent, mu, call>>

Idle == [pc |-> "idle"]

Init == /\ published = 0
        /\ offset = [s \in Subs |-> 0]
        /\ queue = [s \in Subs |-> << >>]
        /\ sent = [s \in Subs |-> << >>]
        /\ mu = {}
        /\ call = [c \in Callers |-> Idle]

Goto(c, next) == call' = [call EXCEPT ![c] = next]

\* At the select for event `next`, of a copy of the history of length `upto`.
Sending(s, next, upto) == [pc |-> "send", sub |-> s, next |-> next, upto |-> upto]

\* Deliver takes its lock, reads the checkpoint and copies the history.
DeliverStart(c, s) ==
  /\ call[c] = Idle
  /\ mu = {}
  /\ mu' = {c}
  /\ Goto(c, Sending(s, offset[s] + 1, published))
  /\ UNCHANGED <<published, offset, queue, sent>>

\* The channel has room: the event is sent ...
DeliverSend(c) ==
  /\ call[c].pc = "send"
  /\ call[c].next <= call[c].upto
  /\ LET s == call[c].sub IN
       /\ Len(queue[s]) < Cap
       /\ queue' = [queue EXCEPT ![s] = Append(@, call[c].next)]
       /\ sent' = [sent EXCEPT ![s] = Append(@, call[c].next)]
  /\ call' = [call EXCEPT ![c].pc = "advance"]
  /\ UNCHANGED <<published, offset, mu>>

\* Mutant: the checkpoint is moved to the end of the copy at once.
AdvanceAll(c) ==
  /\ call[c].pc = "advance"
  /\ offset' = [offset EXCEPT ![call[c].sub] = call[c].upto]
  /\ Goto(c, Sending(call[c].sub, call[c].next + 1, call[c].upto))
  /\ UNCHANGED <<published, queue, sent, mu>>

\* Mutant: the checkpoint is moved whatever it was.
AdvanceAlways(c) ==
  /\ call[c].pc = "advance"
  /\ offset' = [offset EXCEPT ![call[c].sub] = call[c].next]
  /\ Goto(c, Sending(call[c].sub, call[c].next + 1, call[c].upto))
  /\ UNCHANGED <<published, queue, sent, mu>>

\* ... and the checkpoint advanced; Advance refuses to go back, and Deliver
\* ignores the refusal.
Advance(c) ==
  /\ call[c].pc = "advance"
  /\ LET s == call[c].sub IN
       offset' = [offset EXCEPT ![s] = IF call[c].next < @ THEN @ ELSE call[c].next]
  /\ Goto(c, Sending(call[c].sub, call[c].next + 1, call[c].upto))
  /\ UNCHANGED <<published, queue, sent, mu>>

\* Mutant: at a full channel Deliver waits for room, keeping the lock.
DeliverEndPatient(c) ==
  /\ call[c].pc = "send"
  /\ call[c].next > call[c].upto
  /\ mu' = mu \ {c}
  /\ Goto(c, Idle)
  /\ UNCHANGED <<published, offset, queue, sent>>

\* The copy is exhausted or the channel is full: Deliver returns.
DeliverEnd(c) ==
  /\ call[c].pc = "send"
  /\ call[c].next > call[c].upto \/ Len(queue[call[c].sub]) = Cap
  /\ mu' = mu \ {c}
  /\ Goto(c, Idle)
  /\ UNCHANGED <<published, offset, queue, sent>>

Publish ==
  /\ published < MaxEvents
  /\ published' = published + 1
  /\ UNCHANGED <<offset, queue, sent, mu, call>>

Receive(s) ==
  /\ queue[s] # << >>
  /\ queue' = [queue EXCEPT ![s] = Tail(@)]
  /\ UNCHANGED <<published, offset, sent, mu, call>>

Set(s, n) ==
  /\ offset' = [offset EXCEPT ![s] = n]
  /\ UNCHANGED <<published, queue, sent, mu, call>>

Next == \/ \E c \in Callers : \/ \E s \in Subs : DeliverStart(c, s)
                              \/ DeliverSend(c)
                              \/ Advance(c)
                              \/ DeliverEnd(c)
        \/ Publish
        \/ \E s \in Subs : Receive(s)
        \/ \E s \in Adjusted, n \in SetTo : Set(s, n)

Spec == Init /\ [][Next]_vars

\* A delivery that has begun goes on.  A served subscriber keeps receiving, and
\* keeps being delivered to: a Go mutex does not pass over a waiting caller for
\* ever.  Of the others nothing is assumed.
Fair ==
  /\ \A c \in Callers : WF_vars(DeliverSend(c) \/ Advance(c) \/ DeliverEnd(c))
  /\ \A s \in Served : /\ WF_vars(Receive(s))
                       /\ SF_vars(\E c \in Callers : DeliverStart(c, s))

-----------------------------------------------------------------------------

\* A subscriber nobody adjusts is sent the history from its start, each event once and in
\* order, and its checkpoint says how far: exactly, but for the one event
\* between its send and its advance.
CheckpointIsSent ==
  \A s \in Subs \ Adjusted :
    LET inFlight == {c \in Callers : call[c].pc = "advance" /\ call[c].sub = s}
    IN  /\ \A k \in DOMAIN sent[s] : sent[s][k] = k
        /\ Len(sent[s]) = offset[s] + Cardinality(inFlight)
        /\ Len(sent[s]) <= published

\* A checkpoint somebody moves ahead by hand is never pulled back by a
\* delivery that was already under way.
NeverRegresses ==
  [][\A s \in Subs, c \in Callers :
       call[c].pc = "advance" /\ call'[c].pc = "send" => offset'[s] >= offset[s]]_vars

\* A subscriber that calls Deliver again and again and reads its channel gets
\* everything, even when another subscriber's channel stays full for ever:
\* a full channel ends a delivery and so gives the lock back.
EverythingDelivered ==
  \A s \in Served \ Adjusted, n \in 1..MaxEvents : published >= n ~> Len(sent[s]) >= n

=============================================================================
