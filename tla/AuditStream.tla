----------------------------- MODULE AuditStream -----------------------------
(***************************************************************************)
(* internal/audit/stream.go: the audit history and its live subscribers.   *)
(*                                                                         *)
(* Publish appends to the history and copies the list of channels under    *)
(* the stream's lock, and sends after giving the lock back.  Subscribe and *)
(* Unsubscribe run under the lock, so a channel may be closed between the  *)
(* copy and the send: a send on a closed channel panics, and ends the      *)
(* Publish (the HTTP server confines the panic to the request).            *)
(*                                                                         *)
(* An event is its position in the history; channels are numbered as they  *)
(* are made.  `offered`, `since` and `until` are history: what was tried   *)
(* on a channel, and the part of the history it was subscribed for.        *)
(***************************************************************************)
EXTENDS Naturals, Sequences, FiniteSets

CONSTANTS
  Publishers,
  SubIds,       \* subscriber ids
  ChanCap,      \* capacity of a subscriber's channel (256 in the code)
  MaxHistory,   \* bound on the events published
  MaxChannels   \* bound on the channels made

ASSUME StreamNumbers == ChanCap \in Nat \ {0} /\ MaxHistory \in Nat

VARIABLES
  history,   \* Stream.history: who published each event
  subs,      \* Stream.subs: id -> number of its channel, 0 for none
  chans,     \* per channel: [buf, closed, offered, since, until]
  publish,   \* per publisher: [event, todo], the channels still to try
  panicked   \* publishers that sent on a closed channel

streamVars == <<history, subs, chans, publish, panicked>>

StreamInit == /\ history = << >>
              /\ subs = [s \in SubIds |-> 0]
              /\ chans = << >>
              /\ publish = [p \in Publishers |-> [event |-> 0, todo |-> {}]]
              /\ panicked = {}

NewChannel == [buf |-> << >>, closed |-> FALSE, offered |-> << >>,
               since |-> Len(history), until |-> MaxHistory]

\* No event published from here on is sent to channel n.
Detach(cs, n) == IF n = 0 THEN cs ELSE [cs EXCEPT ![n].until = Len(history)]

\* An id that subscribes again gets a new channel; its old one is forgotten,
\* and not closed.
Subscribe(s) ==
  /\ Len(chans) < MaxChannels
  /\ chans' = Append(Detach(chans, subs[s]), NewChannel)
  /\ subs' = [subs EXCEPT ![s] = Len(chans) + 1]
  /\ UNCHANGED <<history, publish, panicked>>

\* Mutant: Unsubscribe closes the channel and leaves it in the map.
UnsubscribeKeep(s) ==
  /\ subs[s] # 0
  /\ chans' = [Detach(chans, subs[s]) EXCEPT ![subs[s]].closed = TRUE]
  /\ UNCHANGED <<history, subs, publish, panicked>>

Unsubscribe(s) ==
  /\ subs[s] # 0
  /\ chans' = [Detach(chans, subs[s]) EXCEPT ![subs[s]].closed = TRUE]
  /\ subs' = [subs EXCEPT ![s] = 0]
  /\ UNCHANGED <<history, publish, panicked>>

Subscribed == {subs[s] : s \in SubIds} \ {0}

\* Publish, under the lock.
PublishAppend(p) ==
  /\ publish[p].todo = {} /\ p \notin panicked
  /\ Len(history) < MaxHistory
  /\ history' = Append(history, p)
  /\ publish' = [publish EXCEPT ![p] = [event |-> Len(history) + 1, todo |-> Subscribed]]
  /\ UNCHANGED <<subs, chans, panicked>>

\* Mutant: a send that waits for room.
OfferBlocking(n, e) ==
  /\ Len(chans[n].buf) < ChanCap
  /\ chans' = [chans EXCEPT ![n].offered = Append(@, e), ![n].buf = Append(@, e)]

\* The select with a default: a full channel misses the event.
Offer(n, e) ==
  chans' = [chans EXCEPT ![n].offered = Append(@, e),
                         ![n].buf = IF Len(@) < ChanCap THEN Append(@, e) ELSE @]

\* Mutant: Publish gives up on the other channels after one it has tried.
PublishSendOne(p) ==
  \E n \in publish[p].todo :
    /\ ~chans[n].closed
    /\ Offer(n, publish[p].event)
    /\ publish' = [publish EXCEPT ![p].todo = {}]
    /\ UNCHANGED <<history, subs, panicked>>

\* Publish's loop, after the lock: the map gave the channels in any order.
PublishSend(p) ==
  \E n \in publish[p].todo :
    /\ ~chans[n].closed
    /\ Offer(n, publish[p].event)
    /\ publish' = [publish EXCEPT ![p].todo = @ \ {n}]
    /\ UNCHANGED <<history, subs, panicked>>

\* The channel was closed since the copy was made.
PublishPanic(p) ==
  \E n \in publish[p].todo :
    /\ chans[n].closed
    /\ panicked' = panicked \cup {p}
    /\ publish' = [publish EXCEPT ![p].todo = {}]
    /\ UNCHANGED <<history, subs, chans>>

\* A consumer takes an event; what a closed channel still holds stays readable.
Consume(n) ==
  /\ chans[n].buf # << >>
  /\ chans' = [chans EXCEPT ![n].buf = Tail(@)]
  /\ UNCHANGED <<history, subs, publish, panicked>>

StreamNext ==
  \/ \E s \in SubIds : Subscribe(s) \/ Unsubscribe(s)
  \/ \E p \in Publishers : PublishAppend(p) \/ PublishSend(p) \/ PublishPanic(p)
  \/ \E n \in DOMAIN chans : Consume(n)

StreamSpec == StreamInit /\ [][StreamNext]_streamVars

\* A goroutine inside Publish keeps running; no consumer need ever receive.
StreamFair == \A p \in Publishers : WF_streamVars(PublishSend(p) \/ PublishPanic(p))

-----------------------------------------------------------------------------

OfferedTo(n) == {chans[n].offered[k] : k \in DOMAIN chans[n].offered}

PendingFor(n) == {publish[p].event : p \in {q \in Publishers : n \in publish[q].todo}}

\* Events whose publisher panicked: no telling whom they reached.
Cut == {publish[p].event : p \in panicked}

\* A subscription sees the whole of its part of the history and nothing else:
\* each event appended while the channel was subscribed is offered to it once,
\* or about to be, and no other event ever is, though the sends happen after
\* the lock is gone and late ones may come after an unsubscribe.  Publishers may
\* overtake each other between the lock and the channel, but what one publisher
\* published a channel is offered in that order.
WholeSubscription ==
  \A n \in DOMAIN chans :
    LET mine == {e \in DOMAIN history : chans[n].since < e /\ e <= chans[n].until}
    IN  /\ OfferedTo(n) \cup PendingFor(n) \subseteq mine
        /\ mine \subseteq OfferedTo(n) \cup PendingFor(n) \cup Cut
        /\ Cardinality(OfferedTo(n)) = Len(chans[n].offered)
        /\ OfferedTo(n) \cap PendingFor(n) = {}
        /\ \A j, k \in DOMAIN chans[n].offered :
             /\ j < k
             /\ history[chans[n].offered[j]] = history[chans[n].offered[k]]
             => chans[n].offered[j] < chans[n].offered[k]

\* Publish: "fans it out to every subscriber without blocking".
FanOutComplete == panicked = {}

\* A subscriber that never reads keeps no publisher from returning.
PublishReturns == \A p \in Publishers : publish[p].todo # {} ~> publish[p].todo = {}

=============================================================================
