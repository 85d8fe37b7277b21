-------------------------- MODULE Delivery_proofs --------------------------
(***************************************************************************)
(* What is sent arrives, for every value of the constants.  Both ways of   *)
(* an audit event to a subscriber: a pushed channel is offered its         *)
(* subscription, a checkpoint says what was replayed.  And frames on a     *)
(* link, with any writers, payloads and checksum that sees a changed byte. *)
(***************************************************************************)
EXTENDS AuditStream, AuditDelivery, Scada, FiniteSetTheorems, SequenceTheorems, TLAPS

-----------------------------------------------------------------------------
(* AuditDelivery.                                                          *)

Working == [pc : {"send", "advance"}, sub : Subs, next : Nat, upto : Nat]

DeliveryTypes ==
  /\ published \in Nat
  /\ offset \in [Subs -> Nat]
  /\ sent \in [Subs -> Seq(Nat)]
  /\ call \in [Callers -> {Idle} \cup Working]

\* Whoever is inside Deliver holds the lock.
Locked == \A c \in Callers : call[c].pc \in {"send", "advance"} => mu = {c}

\* What a delivery to a subscriber nobody adjusts is at: the event after the
\* checkpoint, within its copy of the history.
Place ==
  \A c \in Callers : call[c].pc \in {"send", "advance"} /\ call[c].sub \notin Adjusted =>
    /\ call[c].upto <= published
    /\ call[c].next = offset[call[c].sub] + 1
    /\ call[c].pc = "advance" => call[c].next <= call[c].upto

InFlight(s) == {c \in Callers : call[c].pc = "advance" /\ call[c].sub = s}

SentSoFar ==
  \A s \in Subs \ Adjusted :
    /\ \A k \in DOMAIN sent[s] : sent[s][k] = k
    /\ Len(sent[s]) = IF InFlight(s) = {} THEN offset[s] ELSE offset[s] + 1
    /\ Len(sent[s]) <= published

DeliveryInv == DeliveryTypes /\ Locked /\ Place /\ SentSoFar

\* The states of a caller tell themselves apart.
LEMMA CallShape ==
  ASSUME DeliveryTypes, NEW c \in Callers
  PROVE  /\ call[c].pc = "idle" <=> call[c] = Idle
         /\ call[c].pc \in {"send", "advance"} <=> call[c] \in Working
         /\ call[c].pc \in {"idle", "send", "advance"}
BY DEF DeliveryTypes, Idle, Working

LEMMA DeliveryInitInv == Init => DeliveryInv
<1> SUFFICES ASSUME Init PROVE DeliveryInv
  OBVIOUS
<1>1. \A c \in Callers : call[c] = Idle /\ call[c].pc = "idle"
  BY DEF Init, Idle
<1>2. \A s : InFlight(s) = {}
  BY <1>1 DEF InFlight
<1>3. Len(<< >>) = 0 /\ << >> \in Seq(Nat) /\ DOMAIN << >> = {}
  BY EmptySeq
<1>4. DeliveryTypes
  BY <1>1, <1>3 DEF Init, DeliveryTypes
<1>5. SentSoFar
  BY <1>2, <1>3 DEF Init, SentSoFar
<1> QED
  BY <1>1, <1>4, <1>5 DEF DeliveryInv, Locked, Place

\* A caller of Deliver in its critical section is alone there.
LEMMA Alone ==
  ASSUME DeliveryInv, NEW c \in Callers, call[c].pc \in {"send", "advance"}
  PROVE  \A d \in Callers : d # c => call[d] = Idle /\ call[d].pc = "idle"
BY CallShape DEF DeliveryInv, Locked

LEMMA StartKeeps ==
  ASSUME DeliveryInv, NEW c \in Callers, NEW s \in Subs, DeliverStart(c, s)
  PROVE  DeliveryInv'
<1>1. PICK r : r = Sending(s, offset[s] + 1, published)
  OBVIOUS
<1>2. r \in Working /\ r.pc = "send" /\ r.sub = s /\ r.next = offset[s] + 1 /\ r.upto = published
  BY <1>1 DEF DeliveryInv, DeliveryTypes, Sending, Working
<1>3. call' = [call EXCEPT ![c] = r] /\ mu' = {c} /\ mu = {}
  BY <1>1 DEF DeliverStart, Goto
<1>4. \A d \in Callers : call[d].pc = "idle"
  BY <1>3, CallShape DEF DeliveryInv, Locked
<1>5. /\ call' \in [Callers -> {Idle} \cup Working] /\ call'[c] = r
      /\ \A d \in Callers : d # c => call'[d] = call[d]
  BY <1>2, <1>3 DEF DeliveryInv, DeliveryTypes
<1>6. \A u : InFlight(u) = {} /\ InFlight(u)' = {}
  BY <1>2, <1>4, <1>5 DEF InFlight
<1>7. DeliveryTypes'
  BY <1>5 DEF DeliverStart, DeliveryInv, DeliveryTypes
<1>8. Locked' /\ Place'
  BY <1>2, <1>3, <1>4, <1>5 DEF DeliverStart, DeliveryInv, DeliveryTypes, Locked, Place
<1>9. SentSoFar'
  BY <1>6 DEF DeliverStart, DeliveryInv, SentSoFar
<1> QED
  BY <1>7, <1>8, <1>9 DEF DeliveryInv

LEMMA SendKeeps ==
  ASSUME DeliveryInv, NEW c \in Callers, DeliverSend(c)
  PROVE  DeliveryInv'
<1>1. PICK r \in Working : r = call[c] /\ r.pc = "send" /\ r.next <= r.upto
  BY CallShape DEF DeliverSend, DeliveryInv
<1>2. PICK s \in Subs : s = r.sub
  BY DEF Working
<1>3. PICK n \in Nat : n = r.next
  BY DEF Working
<1>4. PICK q : q = [pc |-> "advance", sub |-> s, next |-> n, upto |-> r.upto]
  OBVIOUS
<1>5. [r EXCEPT !.pc = "advance"] = q
  BY <1>2, <1>3, <1>4 DEF Working
<1>6. q \in Working /\ q.pc = "advance" /\ q.sub = s /\ q.next = n /\ q.upto = r.upto
  BY <1>2, <1>3, <1>4 DEF Working
<1>7. call' = [call EXCEPT ![c] = q]
  BY <1>1, <1>5 DEF DeliverSend, DeliveryInv, DeliveryTypes
<1>8. /\ call' \in [Callers -> {Idle} \cup Working] /\ call'[c] = q
      /\ \A d \in Callers : d # c => call'[d] = call[d] /\ call[d].pc = "idle"
  BY <1>1, <1>6, <1>7, Alone DEF DeliveryInv, DeliveryTypes
<1>9. PICK old \in Seq(Nat) : old = sent[s]
  BY DEF DeliveryInv, DeliveryTypes
<1>10. /\ sent' \in [Subs -> Seq(Nat)]
       /\ sent'[s] = Append(old, n)
       /\ \A u \in Subs : u # s => sent'[u] = sent[u]
  BY <1>1, <1>2, <1>3, <1>9, AppendProperties DEF DeliverSend, DeliveryInv, DeliveryTypes
<1>11. DeliveryTypes'
  BY <1>8, <1>10 DEF DeliverSend, DeliveryInv, DeliveryTypes
<1>12. Locked'
  BY <1>1, <1>8 DEF DeliverSend, DeliveryInv, Locked
<1>13. Place'
  BY <1>1, <1>2, <1>3, <1>6, <1>8 DEF DeliverSend, DeliveryInv, Place
<1>14. /\ InFlight(s) = {} /\ InFlight(s)' = {c}
       /\ \A u : u # s => InFlight(u) = {} /\ InFlight(u)' = {}
  BY <1>1, <1>6, <1>8 DEF InFlight
<1>15. ASSUME s \notin Adjusted
       PROVE  /\ \A k \in DOMAIN sent'[s] : sent'[s][k] = k
              /\ Len(sent'[s]) = offset[s] + 1
              /\ Len(sent'[s]) <= published
  <2>1. n = offset[s] + 1 /\ n <= r.upto /\ r.upto <= published
    BY <1>1, <1>2, <1>3, <1>15 DEF DeliveryInv, Place
  <2>2. /\ Len(old) = offset[s] /\ DOMAIN old = 1 .. Len(old) /\ Len(old) \in Nat
        /\ \A k \in DOMAIN old : old[k] = k
    BY <1>9, <1>14, <1>15, LenProperties DEF DeliveryInv, SentSoFar
  <2>3. PICK a \in Seq(Nat) : a = Append(old, n)
    BY AppendProperties
  <2>4. /\ Len(a) = Len(old) + 1 /\ a[Len(old) + 1] = n
        /\ \A k \in 1 .. Len(old) : a[k] = old[k]
        /\ DOMAIN a = 1 .. Len(old) + 1
    BY <2>2, <2>3, AppendProperties, LenProperties
  <2>5. Len(a) <= published
    BY <1>1, <2>1, <2>2, <2>4 DEF DeliveryInv, DeliveryTypes, Working
  <2> QED
    BY <1>10, <2>1, <2>2, <2>3, <2>4, <2>5
<1>16. SentSoFar'
  <2> SUFFICES ASSUME NEW u \in Subs \ Adjusted
               PROVE  /\ \A k \in DOMAIN sent'[u] : sent'[u][k] = k
                      /\ Len(sent'[u]) = IF InFlight(u)' = {} THEN offset[u] ELSE offset[u] + 1
                      /\ Len(sent'[u]) <= published
    BY DEF SentSoFar, DeliverSend
  <2>1. CASE u = s
    BY <1>14, <1>15, <2>1
  <2>2. CASE u # s
    BY <1>10, <1>14, <2>2 DEF DeliveryInv, SentSoFar
  <2> QED
    BY <2>1, <2>2
<1> QED
  BY <1>11, <1>12, <1>13, <1>16 DEF DeliveryInv

LEMMA AdvanceKeeps ==
  ASSUME DeliveryInv, NEW c \in Callers, Advance(c)
  PROVE  DeliveryInv'
<1>1. PICK r \in Working : r = call[c] /\ r.pc = "advance"
  BY CallShape DEF Advance, DeliveryInv
<1>2. PICK s \in Subs : s = r.sub
  BY DEF Working
<1>3. PICK n \in Nat : n = r.next
  BY DEF Working
<1>4. PICK q : q = Sending(s, n + 1, r.upto)
  OBVIOUS
<1>5. q \in Working /\ q.pc = "send" /\ q.sub = s /\ q.next = n + 1 /\ q.upto = r.upto
  BY <1>2, <1>3, <1>4 DEF Working, Sending
<1>6. call' = [call EXCEPT ![c] = q]
  BY <1>1, <1>2, <1>3, <1>4 DEF Advance, Goto
<1>7. /\ call' \in [Callers -> {Idle} \cup Working] /\ call'[c] = q
      /\ \A d \in Callers : d # c => call'[d] = call[d] /\ call[d].pc = "idle"
  BY <1>1, <1>5, <1>6, Alone DEF DeliveryInv, DeliveryTypes
<1>8. /\ offset' \in [Subs -> Nat]
      /\ offset'[s] = IF n < offset[s] THEN offset[s] ELSE n
      /\ \A u \in Subs : u # s => offset'[u] = offset[u]
  BY <1>1, <1>2, <1>3 DEF Advance, DeliveryInv, DeliveryTypes
<1>9. DeliveryTypes'
  BY <1>7, <1>8 DEF Advance, DeliveryInv, DeliveryTypes
<1>10. Locked'
  BY <1>1, <1>7 DEF Advance, DeliveryInv, Locked
<1>11. s \notin Adjusted => offset'[s] = n /\ n = offset[s] + 1 /\ r.upto <= published
  BY <1>1, <1>2, <1>3, <1>8 DEF DeliveryInv, DeliveryTypes, Place
<1>12. Place'
  BY <1>5, <1>7, <1>11 DEF Advance, Place
<1>13. /\ InFlight(s) # {} /\ InFlight(s)' = {}
       /\ \A u : u # s => InFlight(u) = {} /\ InFlight(u)' = {}
  BY <1>1, <1>2, <1>5, <1>7 DEF InFlight
<1>14. SentSoFar'
  BY <1>8, <1>11, <1>13 DEF Advance, DeliveryInv, SentSoFar
<1> QED
  BY <1>9, <1>10, <1>12, <1>14 DEF DeliveryInv

LEMMA EndKeeps ==
  ASSUME DeliveryInv, NEW c \in Callers, DeliverEnd(c)
  PROVE  DeliveryInv'
<1>1. call' = [call EXCEPT ![c] = Idle] /\ call[c].pc = "send"
  BY DEF DeliverEnd, Goto
<1>2. /\ call' \in [Callers -> {Idle} \cup Working]
      /\ \A d \in Callers : call'[d].pc = "idle"
  BY <1>1, Alone DEF DeliveryInv, DeliveryTypes, Idle
<1>3. \A u : InFlight(u) = {} /\ InFlight(u)' = {}
  BY <1>1, <1>2, Alone DEF InFlight
<1>4. DeliveryTypes'
  BY <1>2 DEF DeliverEnd, DeliveryInv, DeliveryTypes
<1>5. SentSoFar'
  BY <1>3 DEF DeliverEnd, DeliveryInv, SentSoFar
<1> QED
  BY <1>2, <1>4, <1>5 DEF DeliveryInv, Locked, Place

LEMMA DeliveryNextInv ==
  ASSUME DeliveryInv, [Next]_vars
  PROVE  DeliveryInv'
<1>1. CASE Publish
  <2>1. published' = published + 1 /\ published \in Nat
    BY <1>1 DEF Publish, DeliveryInv, DeliveryTypes
  <2>2. UNCHANGED <<offset, sent, mu, call>>
    BY <1>1 DEF Publish
  <2>3. \A s : InFlight(s)' = InFlight(s)
    BY <2>2 DEF InFlight
  <2>4. \A c \in Callers : call[c].pc \in {"send", "advance"} => call[c].upto \in Nat
    BY CallShape DEF DeliveryInv, Working
  <2>5. \A s \in Subs : Len(sent[s]) \in Nat
    BY LenProperties DEF DeliveryInv, DeliveryTypes
  <2>6. Place'
    BY <2>1, <2>2, <2>4 DEF DeliveryInv, Place
  <2>7. SentSoFar'
    BY <2>1, <2>2, <2>3, <2>5 DEF DeliveryInv, SentSoFar
  <2> QED
    BY <2>1, <2>2, <2>6, <2>7 DEF DeliveryInv, DeliveryTypes, Locked
<1>2. ASSUME NEW s \in Adjusted, NEW n \in SetTo, Set(s, n)
      PROVE  DeliveryInv'
  <2>1. /\ offset' \in [Subs -> Nat]
        /\ \A u \in Subs \ Adjusted : offset'[u] = offset[u]
    BY <1>2, DeliveryNumbers DEF Set, DeliveryInv, DeliveryTypes
  <2>2. UNCHANGED <<published, sent, mu, call>>
    BY <1>2 DEF Set
  <2>3. \A u : InFlight(u)' = InFlight(u)
    BY <2>2 DEF InFlight
  <2>4. \A c \in Callers : call[c].pc \in {"send", "advance"} => call[c].sub \in Subs
    BY CallShape DEF DeliveryInv, Working
  <2>5. Place'
    BY <2>1, <2>2, <2>4 DEF DeliveryInv, Place
  <2>6. SentSoFar'
    BY <2>1, <2>2, <2>3 DEF DeliveryInv, SentSoFar
  <2> QED
    BY <2>1, <2>2, <2>5, <2>6 DEF DeliveryInv, DeliveryTypes, Locked
<1>3. CASE UNCHANGED <<published, offset, sent, mu, call>>
  <2>1. \A u : InFlight(u)' = InFlight(u)
    BY <1>3 DEF InFlight
  <2> QED
    BY <1>3, <2>1 DEF DeliveryInv, DeliveryTypes, Locked, Place, SentSoFar
<1> QED
  BY <1>1, <1>2, <1>3, StartKeeps, SendKeeps, AdvanceKeeps, EndKeeps DEF Next, Receive, vars

\* For any callers, subscribers and capacity: a subscriber nobody adjusts is
\* sent the history from its start, and its checkpoint says how far.
THEOREM CheckpointsTellWhatWasSent == Spec => []CheckpointIsSent
<1>1. ASSUME DeliveryInv, NEW s \in Subs \ Adjusted
      PROVE  /\ \A k \in DOMAIN sent[s] : sent[s][k] = k
             /\ Len(sent[s]) = offset[s] + Cardinality(InFlight(s))
             /\ Len(sent[s]) <= published
  <2>1. CASE InFlight(s) = {}
    BY <1>1, <2>1, FS_EmptySet DEF DeliveryInv, DeliveryTypes, SentSoFar
  <2>2. CASE InFlight(s) # {}
    <3>1. PICK c \in Callers : c \in InFlight(s)
      BY <2>2 DEF InFlight
    <3>2. InFlight(s) = {c}
      BY <1>1, <3>1, Alone DEF InFlight
    <3>3. Cardinality({c}) = 1
      BY FS_Singleton
    <3> QED
      BY <1>1, <3>2, <3>3 DEF DeliveryInv, DeliveryTypes, SentSoFar
  <2> QED
    BY <2>1, <2>2
<1>2. DeliveryInv => CheckpointIsSent
  BY <1>1 DEF CheckpointIsSent, InFlight
<1> QED
  BY <1>2, DeliveryInitInv, DeliveryNextInv, PTL DEF Spec

\* However a checkpoint is moved by hand, Delivery.Deliver never takes it back.
THEOREM CheckpointsNeverRegress == Spec => NeverRegresses
<1>1. ASSUME DeliveryInv, [Next]_vars
      PROVE  [\A s \in Subs, c \in Callers :
                call[c].pc = "advance" /\ call'[c].pc = "send" => offset'[s] >= offset[s]]_vars
  <2> SUFFICES ASSUME Next, NEW s \in Subs, NEW c \in Callers,
                      call[c].pc = "advance", call'[c].pc = "send"
               PROVE  offset'[s] >= offset[s]
    BY <1>1
  <2>1. Advance(c)
    <3>1. \A d \in Callers : d # c => call[d] = Idle /\ call[d].pc = "idle"
      BY <1>1, Alone
    <3>2. call' # call
      OBVIOUS
    <3>3. PICK d \in Callers : (\E u \in Subs : DeliverStart(d, u)) \/ DeliverSend(d) \/ Advance(d) \/ DeliverEnd(d)
      BY <3>2 DEF Next, Publish, Receive, Set
    <3>4. CASE d = c
      BY <3>3, <3>4 DEF DeliverStart, DeliverSend, DeliverEnd, Idle
    <3>5. CASE d # c
      <4>1. \E u \in Subs : DeliverStart(d, u)
        BY <3>1, <3>3, <3>5 DEF DeliverSend, Advance, DeliverEnd
      <4>2. call'[c] = call[c]
        BY <1>1, <3>5, <4>1 DEF DeliverStart, Goto, DeliveryInv, DeliveryTypes
      <4> QED
        BY <4>2
    <3> QED
      BY <3>4, <3>5
  <2>2. PICK r \in Working : r = call[c]
    BY <1>1, CallShape DEF DeliveryInv
  <2>3. r.sub \in Subs /\ r.next \in Nat /\ offset \in [Subs -> Nat]
    BY <1>1 DEF Working, DeliveryInv, DeliveryTypes
  <2>4. offset' = [offset EXCEPT ![r.sub] = IF r.next < offset[r.sub] THEN offset[r.sub] ELSE r.next]
    BY <2>1, <2>2 DEF Advance
  <2> QED
    BY <2>3, <2>4
<1> QED
  BY <1>1, DeliveryInitInv, DeliveryNextInv, PTL DEF Spec, NeverRegresses

-----------------------------------------------------------------------------
(* AuditStream.                                                            *)

Chan == [buf : Seq(Nat), closed : BOOLEAN, offered : Seq(Nat), since : Nat, until : Nat]

StreamTypes ==
  /\ history \in Seq(Publishers) /\ Len(history) <= MaxHistory
  /\ subs \in [SubIds -> Nat]
  /\ chans \in Seq(Chan)
  /\ publish \in [Publishers -> [event : Nat, todo : SUBSET Nat]]
  /\ panicked \subseteq Publishers

\* The map has channels that were made; one it does not have is over.
Attached ==
  /\ \A s \in SubIds : subs[s] # 0 => subs[s] \in DOMAIN chans
  /\ \A n \in DOMAIN chans : /\ chans[n].since <= Len(history)
                             /\ IF n \in Subscribed THEN chans[n].until = MaxHistory
                                                    ELSE chans[n].until <= Len(history)

\* An id has a channel of its own.
OwnChannels == \A s, t \in SubIds : s # t => subs[s] = 0 \/ subs[s] # subs[t]

\* A publisher has published nothing after the event it carries, which it tries
\* on channels subscribed when it was appended.
Carried ==
  \A p \in Publishers :
    /\ \A e \in DOMAIN history : history[e] = p => e <= publish[p].event
    /\ publish[p].todo # {} =>
         /\ publish[p].event \in DOMAIN history
         /\ history[publish[p].event] = p
         /\ p \notin panicked
         /\ \A n \in publish[p].todo : /\ n \in DOMAIN chans
                                       /\ chans[n].since < publish[p].event
                                       /\ publish[p].event <= chans[n].until

Mine(n) == {e \in DOMAIN history : chans[n].since < e /\ e <= chans[n].until}

\* What a channel was offered, and what is still to be offered to it.
OfferedRight(n) ==
  /\ OfferedTo(n) \subseteq Mine(n)
  /\ Mine(n) \subseteq OfferedTo(n) \cup PendingFor(n) \cup Cut
  /\ IsFiniteSet(OfferedTo(n)) /\ Cardinality(OfferedTo(n)) = Len(chans[n].offered)
  /\ OfferedTo(n) \cap PendingFor(n) = {}
  /\ \A j, k \in DOMAIN chans[n].offered :
       j < k /\ history[chans[n].offered[j]] = history[chans[n].offered[k]]
         => chans[n].offered[j] < chans[n].offered[k]

StreamInv == /\ StreamTypes /\ Attached /\ OwnChannels /\ Carried
             /\ \A n \in DOMAIN chans : OfferedRight(n)

-----------------------------------------------------------------------------

LEMMA StreamInitInv == StreamInit => StreamInv
<1> SUFFICES ASSUME StreamInit PROVE StreamInv
  OBVIOUS
<1>1. Len(<< >>) = 0 /\ DOMAIN << >> = {}
  OBVIOUS
<1>2. StreamTypes
  BY <1>1, EmptySeq, StreamNumbers DEF StreamInit, StreamTypes
<1> QED
  BY <1>1, <1>2 DEF StreamInit, StreamInv, Attached, OwnChannels, Carried

LEMMA StreamShape ==
  ASSUME StreamTypes
  PROVE  /\ Len(history) \in Nat /\ DOMAIN history = 1 .. Len(history)
         /\ Len(chans) \in Nat /\ DOMAIN chans = 1 .. Len(chans)
         /\ \A n \in DOMAIN chans :
              /\ chans[n] \in Chan
              /\ Len(chans[n].offered) \in Nat /\ DOMAIN chans[n].offered = 1 .. Len(chans[n].offered)
<1>1. /\ Len(history) \in Nat /\ DOMAIN history = 1 .. Len(history)
      /\ Len(chans) \in Nat /\ DOMAIN chans = 1 .. Len(chans)
  BY LenProperties DEF StreamTypes
<1>2. \A n \in DOMAIN chans : chans[n] \in Chan
  BY <1>1, ElementOfSeq DEF StreamTypes
<1>3. \A n \in DOMAIN chans : chans[n].offered \in Seq(Nat)
  BY <1>2 DEF Chan
<1> QED
  BY <1>1, <1>2, <1>3, LenProperties

\* Whoever carries an event carries another than anybody else.
LEMMA EventsDiffer ==
  ASSUME StreamInv, NEW p \in Publishers, NEW q \in Publishers, p # q,
         publish[p].todo # {}, publish[q].todo # {}
  PROVE  publish[p].event # publish[q].event
BY DEF StreamInv, Carried

\* A step that changes a channel's buffer, or ends its subscription, and nothing
\* of what is carried or published keeps what was offered right.
LEMMA SameOffers ==
  ASSUME StreamInv, NEW n \in DOMAIN chans, n \in DOMAIN chans',
         UNCHANGED <<history, publish, panicked>>,
         (chans'[n]).offered = chans[n].offered, (chans'[n]).since = chans[n].since,
         \/ (chans'[n]).until = chans[n].until
         \/ (chans'[n]).until = Len(history) /\ chans[n].until = MaxHistory
  PROVE  OfferedRight(n)'
<1>1. Mine(n)' = Mine(n)
  <2>1. \A e \in DOMAIN history : e <= (chans'[n]).until <=> e <= chans[n].until
    <3>1. PICK h \in Nat : h = Len(history) /\ DOMAIN history = 1 .. h /\ h <= MaxHistory
      BY StreamShape DEF StreamInv, StreamTypes
    <3>2. CASE (chans'[n]).until = Len(history) /\ chans[n].until = MaxHistory
      BY <3>1, <3>2, StreamNumbers
    <3> QED
      BY <3>2
  <2> QED
    BY <2>1 DEF Mine
<1>2. OfferedTo(n)' = OfferedTo(n) /\ PendingFor(n)' = PendingFor(n) /\ Cut' = Cut
  BY DEF OfferedTo, PendingFor, Cut
<1>3. OfferedRight(n)
  BY DEF StreamInv
<1>4. /\ OfferedTo(n)' \subseteq Mine(n)'
      /\ Mine(n)' \subseteq OfferedTo(n)' \cup PendingFor(n)' \cup Cut'
      /\ OfferedTo(n)' \cap PendingFor(n)' = {}
  BY <1>1, <1>2, <1>3 DEF OfferedRight
<1>5. IsFiniteSet(OfferedTo(n)') /\ Cardinality(OfferedTo(n)') = Len((chans'[n]).offered)
  BY <1>2, <1>3 DEF OfferedRight
<1>6. \A j, k \in DOMAIN (chans'[n]).offered :
        j < k /\ history[(chans'[n]).offered[j]] = history[(chans'[n]).offered[k]]
          => (chans'[n]).offered[j] < (chans'[n]).offered[k]
  BY <1>3 DEF OfferedRight
<1> QED
  BY <1>4, <1>5, <1>6 DEF OfferedRight

-----------------------------------------------------------------------------

\* Detaching a channel ends its part of the history.
LEMMA DetachShape ==
  ASSUME StreamInv, NEW s \in SubIds
  PROVE  LET cs == Detach(chans, subs[s])
         IN  /\ cs \in Seq(Chan) /\ DOMAIN cs = DOMAIN chans /\ Len(cs) = Len(chans)
             /\ \A n \in DOMAIN chans :
                  /\ cs[n].offered = chans[n].offered /\ cs[n].since = chans[n].since
                  /\ cs[n].until = IF n = subs[s] THEN Len(history) ELSE chans[n].until
<1>1. PICK i \in Nat : i = subs[s]
  BY DEF StreamInv, StreamTypes
<1>2. CASE i = 0
  BY <1>1, <1>2, StreamShape DEF Detach, StreamInv, StreamTypes
<1>3. CASE i # 0
  <2>1. i \in DOMAIN chans /\ i \in 1 .. Len(chans)
    BY <1>1, <1>3, StreamShape DEF StreamInv, Attached
  <2>2. PICK c \in Chan : /\ c = [chans[i] EXCEPT !.until = Len(history)]
                          /\ c.offered = chans[i].offered /\ c.since = chans[i].since
                          /\ c.until = Len(history)
    <3>1. PICK old \in Chan : old = chans[i]
      BY <2>1, StreamShape DEF StreamInv
    <3>2. PICK h \in Nat : h = Len(history)
      BY StreamShape DEF StreamInv
    <3>3. PICK c : c = [old EXCEPT !.until = h]
      OBVIOUS
    <3>4. c \in Chan /\ c.offered = old.offered /\ c.since = old.since /\ c.until = h
      BY <3>1, <3>3 DEF Chan
    <3> QED
      BY <3>1, <3>2, <3>3, <3>4
  <2>3. Detach(chans, subs[s]) = [chans EXCEPT ![i] = c]
    BY <1>1, <1>3, <2>2 DEF Detach
  <2>4. [chans EXCEPT ![i] = c] \in Seq(Chan) /\ Len([chans EXCEPT ![i] = c]) = Len(chans)
    BY <2>1, ExceptSeq DEF StreamInv, StreamTypes
  <2> QED
    BY <1>1, <2>1, <2>2, <2>3, <2>4
<1> QED
  BY <1>2, <1>3

\* Subscribed without what id s had.
LEMMA WithoutOwn ==
  ASSUME StreamInv, NEW s \in SubIds, NEW i, subs' = [subs EXCEPT ![s] = i]
  PROVE  Subscribed' = (Subscribed \ {subs[s]}) \cup ({i} \ {0})
<1>1. /\ subs' = [t \in SubIds |-> IF t = s THEN i ELSE subs[t]]
      /\ \A t \in SubIds : t # s /\ subs[t] # 0 => subs[t] # subs[s]
  BY DEF StreamInv, StreamTypes, OwnChannels
<1> QED
  BY <1>1 DEF Subscribed

LEMMA SubscribeKeeps ==
  ASSUME StreamInv, NEW s \in SubIds, Subscribe(s)
  PROVE  StreamInv'
<1>1. PICK cs : cs = Detach(chans, subs[s])
  OBVIOUS
<1>2. /\ cs \in Seq(Chan) /\ DOMAIN cs = DOMAIN chans /\ Len(cs) = Len(chans)
      /\ \A n \in DOMAIN chans :
           /\ cs[n].offered = chans[n].offered /\ cs[n].since = chans[n].since
           /\ cs[n].until = IF n = subs[s] THEN Len(history) ELSE chans[n].until
  BY <1>1, DetachShape
<1>3. PICK m \in Nat : m = Len(chans) /\ DOMAIN chans = 1 .. m
  BY StreamShape DEF StreamInv
<1>4. PICK h \in Nat : h = Len(history) /\ h <= MaxHistory /\ DOMAIN history = 1 .. h
  BY StreamShape DEF StreamInv, StreamTypes
<1>5. PICK new \in Chan : /\ new = NewChannel
                          /\ new.offered = << >> /\ new.since = h /\ new.until = MaxHistory
  <2>1. PICK new : new = [buf |-> << >>, closed |-> FALSE, offered |-> << >>,
                          since |-> h, until |-> MaxHistory]
    OBVIOUS
  <2>2. new \in Chan
    BY <2>1, StreamNumbers, EmptySeq DEF Chan
  <2>3. new = NewChannel
    BY <1>4, <2>1 DEF NewChannel
  <2>4. new.since = h /\ new.until = MaxHistory
    BY <2>1
  <2>5. new.offered = << >>
    BY <2>1, Zenon
  <2> QED
    BY <2>2, <2>3, <2>4, <2>5
<1>6. /\ chans' \in Seq(Chan)
      /\ DOMAIN chans' = 1 .. m + 1
      /\ chans'[m + 1] = new
      /\ \A n \in 1 .. m : chans'[n] = cs[n]
  BY <1>1, <1>2, <1>3, <1>5, AppendProperties, LenProperties DEF Subscribe
<1>7. /\ subs' = [subs EXCEPT ![s] = m + 1]
      /\ UNCHANGED <<history, publish, panicked>>
  BY <1>3 DEF Subscribe
<1>8. \A n \in 1 .. m :
        /\ (chans'[n]).offered = chans[n].offered /\ (chans'[n]).since = chans[n].since
        /\ (chans'[n]).until = IF n = subs[s] THEN h ELSE chans[n].until
  BY <1>2, <1>3, <1>4, <1>6
<1>9. StreamTypes'
  BY <1>3, <1>6, <1>7 DEF StreamInv, StreamTypes
<1>10. \A t \in SubIds : subs[t] # 0 => subs[t] \in 1 .. m
  BY <1>3 DEF StreamInv, Attached
<1>11. Subscribed' = (Subscribed \ {subs[s]}) \cup {m + 1} /\ m + 1 \notin Subscribed
       /\ subs[s] # m + 1
  <2>1. PICK i : i = m + 1 /\ {i} \ {0} = {m + 1}
    OBVIOUS
  <2>2. Subscribed' = (Subscribed \ {subs[s]}) \cup ({i} \ {0})
    BY <1>7, <2>1, WithoutOwn
  <2>3. \A t \in SubIds : subs[t] # m + 1
    BY <1>10
  <2> QED
    BY <2>1, <2>2, <2>3 DEF Subscribed
<1>12. \A n \in 1 .. m : n = subs[s] => n \in Subscribed
  BY DEF Subscribed
<1>13. Attached'
  <2>1. \A t \in SubIds : subs'[t] # 0 => subs'[t] \in DOMAIN chans'
    BY <1>6, <1>7, <1>10 DEF StreamInv, StreamTypes
  <2>2. ASSUME NEW n \in DOMAIN chans'
        PROVE  /\ (chans'[n]).since <= Len(history)
               /\ IF n \in Subscribed' THEN (chans'[n]).until = MaxHistory
                                       ELSE (chans'[n]).until <= Len(history)
    <3>1. CASE n = m + 1
      BY <1>4, <1>5, <1>6, <1>11, <3>1
    <3>2. CASE n # m + 1
      <4>1. n \in 1 .. m /\ (n \in Subscribed' <=> n \in Subscribed /\ n # subs[s])
        BY <1>3, <1>6, <1>11, <3>2
      <4> QED
        BY <1>3, <1>4, <1>8, <4>1 DEF StreamInv, Attached
    <3> QED
      BY <3>1, <3>2
  <2> QED
    BY <1>7, <2>1, <2>2 DEF Attached
<1>14. OwnChannels'
  <2>1. \A t \in SubIds : subs[t] # m + 1
    BY <1>10, <1>3
  <2> QED
    BY <1>7, <2>1 DEF StreamInv, StreamTypes, OwnChannels
<1>15. Carried'
  <2>1. ASSUME NEW p \in Publishers, NEW n \in publish[p].todo
        PROVE  /\ n \in DOMAIN chans'
               /\ (chans'[n]).since < publish[p].event /\ publish[p].event <= (chans'[n]).until
    <3>1. /\ n \in DOMAIN chans /\ publish[p].event \in DOMAIN history
          /\ chans[n].since < publish[p].event /\ publish[p].event <= chans[n].until
      BY <2>1 DEF StreamInv, Carried
    <3> QED
      BY <1>3, <1>4, <1>6, <1>8, <3>1
  <2> QED
    BY <1>7, <2>1 DEF StreamInv, Carried
<1>16. ASSUME NEW n \in DOMAIN chans'
       PROVE  OfferedRight(n)'
  <2>1. CASE n = m + 1
    <3>1. DOMAIN (chans'[n]).offered = {} /\ Len((chans'[n]).offered) = 0
      BY <1>5, <1>6, <2>1
    <3>2. OfferedTo(n)' = {}
      BY <3>1 DEF OfferedTo
    <3>3. Mine(n)' = {}
      BY <1>4, <1>5, <1>6, <1>7, <2>1 DEF Mine
    <3>4. IsFiniteSet({}) /\ Cardinality({}) = 0
      BY FS_EmptySet
    <3> QED
      BY <3>1, <3>2, <3>3, <3>4 DEF OfferedRight
  <2>2. CASE n # m + 1
    <3>1. n \in 1 .. m /\ n \in DOMAIN chans
      BY <1>3, <1>6, <2>2
    <3>2. n = subs[s] => chans[n].until = MaxHistory
      BY <1>12, <3>1 DEF StreamInv, Attached
    <3> QED
      BY <1>4, <1>7, <1>8, <3>1, <3>2, SameOffers
  <2> QED
    BY <2>1, <2>2
<1> QED
  BY <1>9, <1>13, <1>14, <1>15, <1>16 DEF StreamInv

LEMMA UnsubscribeKeeps ==
  ASSUME StreamInv, NEW s \in SubIds, Unsubscribe(s)
  PROVE  StreamInv'
<1>1. PICK cs : cs = Detach(chans, subs[s])
  OBVIOUS
<1>2. /\ cs \in Seq(Chan) /\ DOMAIN cs = DOMAIN chans /\ Len(cs) = Len(chans)
      /\ \A n \in DOMAIN chans :
           /\ cs[n].offered = chans[n].offered /\ cs[n].since = chans[n].since
           /\ cs[n].until = IF n = subs[s] THEN Len(history) ELSE chans[n].until
  BY <1>1, DetachShape
<1>3. PICK m \in Nat : m = Len(chans) /\ DOMAIN chans = 1 .. m
  BY StreamShape DEF StreamInv
<1>4. PICK h \in Nat : h = Len(history) /\ h <= MaxHistory /\ DOMAIN history = 1 .. h
  BY StreamShape DEF StreamInv, StreamTypes
<1>5. PICK i \in 1 .. m : i = subs[s] /\ i # 0 /\ i \in Subscribed
  BY <1>3 DEF Unsubscribe, StreamInv, Attached, Subscribed
<1>6. cs[i] \in Chan
  BY <1>2, <1>3, ElementOfSeq
<1>7. PICK c \in Chan : /\ c = [cs[i] EXCEPT !.closed = TRUE]
                        /\ c.offered = cs[i].offered /\ c.since = cs[i].since
                        /\ c.until = cs[i].until
  <2>1. PICK d \in Chan : d = cs[i]
    BY <1>6
  <2>2. PICK c : c = [d EXCEPT !.closed = TRUE]
    OBVIOUS
  <2>3. c \in Chan /\ c.offered = d.offered /\ c.since = d.since /\ c.until = d.until
    BY <2>1, <2>2 DEF Chan
  <2> QED
    BY <2>1, <2>2, <2>3
<1>8. chans' = [cs EXCEPT ![i] = c]
  BY <1>1, <1>5, <1>7 DEF Unsubscribe
<1>9. chans' \in Seq(Chan) /\ DOMAIN chans' = 1 .. m
  BY <1>2, <1>3, <1>5, <1>8, ExceptSeq
<1>10. \A n \in 1 .. m :
         /\ (chans'[n]).offered = chans[n].offered /\ (chans'[n]).since = chans[n].since
         /\ (chans'[n]).until = IF n = i THEN h ELSE chans[n].until
  <2>1. ASSUME NEW n \in 1 .. m
        PROVE  /\ (chans'[n]).offered = cs[n].offered /\ (chans'[n]).since = cs[n].since
               /\ (chans'[n]).until = cs[n].until
    BY <1>2, <1>3, <1>7, <1>8
  <2>2. \A n \in 1 .. m : /\ cs[n].offered = chans[n].offered /\ cs[n].since = chans[n].since
                          /\ cs[n].until = IF n = i THEN h ELSE chans[n].until
    BY <1>2, <1>3, <1>4, <1>5
  <2> QED
    BY <2>1, <2>2
<1>11. subs' = [subs EXCEPT ![s] = 0] /\ UNCHANGED <<history, publish, panicked>>
  BY DEF Unsubscribe
<1>12. StreamTypes'
  BY <1>9, <1>11 DEF StreamInv, StreamTypes
<1>13. Subscribed' = Subscribed \ {i}
  <2>1. Subscribed' = (Subscribed \ {subs[s]}) \cup ({0} \ {0})
    BY <1>11, WithoutOwn
  <2> QED
    BY <1>5, <2>1
<1>14. Attached'
  <2>1. \A t \in SubIds : subs'[t] # 0 => subs'[t] \in DOMAIN chans'
    BY <1>3, <1>9, <1>11 DEF StreamInv, StreamTypes, Attached
  <2>2. ASSUME NEW n \in DOMAIN chans'
        PROVE  /\ (chans'[n]).since <= Len(history)
               /\ IF n \in Subscribed' THEN (chans'[n]).until = MaxHistory
                                       ELSE (chans'[n]).until <= Len(history)
    BY <1>3, <1>4, <1>9, <1>10, <1>13 DEF StreamInv, Attached
  <2> QED
    BY <1>11, <2>1, <2>2 DEF Attached
<1>15. OwnChannels'
  BY <1>11 DEF StreamInv, StreamTypes, OwnChannels
<1>16. Carried'
  <2>1. ASSUME NEW p \in Publishers, NEW n \in publish[p].todo
        PROVE  /\ n \in DOMAIN chans'
               /\ (chans'[n]).since < publish[p].event /\ publish[p].event <= (chans'[n]).until
    <3>1. /\ n \in DOMAIN chans /\ publish[p].event \in DOMAIN history
          /\ chans[n].since < publish[p].event /\ publish[p].event <= chans[n].until
      BY <2>1 DEF StreamInv, Carried
    <3> QED
      BY <1>3, <1>4, <1>9, <1>10, <3>1
  <2> QED
    BY <1>11, <2>1 DEF StreamInv, Carried
<1>17. ASSUME NEW n \in DOMAIN chans'
       PROVE  OfferedRight(n)'
  <2>1. n \in 1 .. m /\ n \in DOMAIN chans /\ (n = i => chans[n].until = MaxHistory)
    BY <1>3, <1>5, <1>9 DEF StreamInv, Attached
  <2> QED
    BY <1>4, <1>10, <1>11, <2>1, SameOffers
<1> QED
  BY <1>12, <1>14, <1>15, <1>16, <1>17 DEF StreamInv

-----------------------------------------------------------------------------

\* A new event is due to the attached channels, and nobody has had it.
LEMMA PublishAppendKeeps ==
  ASSUME StreamInv, NEW p \in Publishers, PublishAppend(p)
  PROVE  StreamInv'
<1>1. PICK h \in Nat : /\ h = Len(history) /\ h < MaxHistory /\ DOMAIN history = 1 .. h
  BY StreamShape DEF PublishAppend, StreamInv
<1>2. /\ history' \in Seq(Publishers) /\ Len(history') = h + 1
      /\ DOMAIN history' = 1 .. h + 1
      /\ history'[h + 1] = p
      /\ \A e \in 1 .. h : history'[e] = history[e]
  BY <1>1, AppendProperties, LenProperties DEF PublishAppend, StreamInv, StreamTypes
<1>3. PICK S \in SUBSET Nat : S = Subscribed
  BY DEF Subscribed, StreamInv, StreamTypes
<1>4. PICK r : r = [event |-> h + 1, todo |-> S] /\ r.event = h + 1 /\ r.todo = S
  <2>1. PICK x : x = h + 1
    OBVIOUS
  <2>2. PICK r : r = [event |-> x, todo |-> S]
    OBVIOUS
  <2> QED
    BY <2>1, <2>2
<1>5. /\ publish[p].todo = {} /\ p \notin panicked
      /\ UNCHANGED <<subs, chans, panicked>>
      /\ publish' \in [Publishers -> [event : Nat, todo : SUBSET Nat]]
      /\ publish'[p] = r
      /\ \A q \in Publishers : q # p => publish'[q] = publish[q]
  BY <1>1, <1>3, <1>4 DEF PublishAppend, StreamInv, StreamTypes
<1>6. Subscribed' = Subscribed
  BY <1>5 DEF Subscribed
<1>7. StreamTypes'
  BY <1>1, <1>2, <1>5, StreamNumbers DEF StreamInv, StreamTypes
<1>8. Attached' /\ OwnChannels'
  <2>1. \A n \in DOMAIN chans : chans[n].since \in Nat /\ chans[n].until \in Nat
    BY StreamShape DEF StreamInv, Chan
  <2> QED
    BY <1>1, <1>2, <1>5, <1>6, <2>1 DEF StreamInv, Attached, OwnChannels
<1>9. \A n \in S : n \in DOMAIN chans /\ chans[n].since <= h /\ chans[n].until = MaxHistory
                   /\ chans[n].since \in Nat
  BY <1>1, <1>3, StreamShape DEF StreamInv, Attached, Subscribed, Chan
<1>10. ASSUME NEW q \in Publishers
       PROVE  /\ \A e \in DOMAIN history' : history'[e] = q => e <= (publish'[q]).event
              /\ (publish'[q]).todo # {} =>
                   /\ (publish'[q]).event \in DOMAIN history'
                   /\ history'[(publish'[q]).event] = q
                   /\ q \notin panicked
                   /\ \A n \in (publish'[q]).todo : /\ n \in DOMAIN chans
                                                    /\ chans[n].since < (publish'[q]).event
                                                    /\ (publish'[q]).event <= chans[n].until
  <2>1. CASE q = p
    BY <1>1, <1>2, <1>4, <1>5, <1>9, <2>1, StreamNumbers
  <2>2. CASE q # p
    <3>1. publish'[q] = publish[q]
      BY <1>5, <2>2
    <3>2. /\ \A e \in 1 .. h : history[e] = q => e <= publish[q].event
          /\ publish[q].todo # {} =>
               /\ publish[q].event \in 1 .. h
               /\ history[publish[q].event] = q
               /\ q \notin panicked
               /\ \A n \in publish[q].todo : /\ n \in DOMAIN chans
                                             /\ chans[n].since < publish[q].event
                                             /\ publish[q].event <= chans[n].until
      BY <1>1 DEF StreamInv, Carried
    <3>3. \A e \in 1 .. h + 1 : history'[e] = q => e \in 1 .. h
      BY <1>1, <1>2, <2>2
    <3>4. \A e \in 1 .. h : e \in 1 .. h + 1
      BY <1>1
    <3> QED
      BY <1>2, <3>1, <3>2, <3>3, <3>4
  <2> QED
    BY <2>1, <2>2
<1>11. Carried'
  BY <1>5, <1>10 DEF Carried
<1>12. ASSUME NEW n \in DOMAIN chans
       PROVE  OfferedRight(n)'
  <2>1. OfferedRight(n)
    BY DEF StreamInv
  <2>2. OfferedTo(n)' = OfferedTo(n) /\ chans' = chans
    BY <1>5 DEF OfferedTo
  <2>3. Cut' = Cut
    <3>1. \A q \in panicked : q \in Publishers /\ q # p
      BY <1>5 DEF StreamInv, StreamTypes
    <3> QED
      BY <1>5, <3>1 DEF Cut
  <2>4. PendingFor(n)' = PendingFor(n) \cup (IF n \in S THEN {h + 1} ELSE {})
    <3>1. \A q \in Publishers : n \in (publish'[q]).todo <=>
                                  (q # p /\ n \in publish[q].todo) \/ (q = p /\ n \in S)
      BY <1>4, <1>5
    <3>2. \A q \in Publishers : n \in publish[q].todo => q # p
      BY <1>5
    <3> QED
      BY <1>4, <1>5, <3>1, <3>2 DEF PendingFor
  <2>5. Mine(n)' = Mine(n) \cup (IF n \in S THEN {h + 1} ELSE {})
    <3>1. chans[n].since < h + 1 /\ (h + 1 <= chans[n].until <=> n \in S)
      BY <1>1, <1>3, StreamShape, StreamNumbers DEF StreamInv, Attached, Chan
    <3> QED
      BY <1>1, <1>2, <2>2, <3>1 DEF Mine
  <2>6. \A k \in DOMAIN chans[n].offered : chans[n].offered[k] \in 1 .. h
    BY <1>1, <2>1 DEF OfferedRight, OfferedTo, Mine
  <2>7. h + 1 \notin OfferedTo(n)
    BY <1>1, <2>6 DEF OfferedTo
  <2>8. \A j, k \in DOMAIN chans[n].offered :
          j < k /\ history'[chans[n].offered[j]] = history'[chans[n].offered[k]]
            => chans[n].offered[j] < chans[n].offered[k]
    BY <1>2, <2>1, <2>6 DEF OfferedRight
  <2>9. /\ OfferedTo(n) \subseteq Mine(n)'
        /\ Mine(n)' \subseteq OfferedTo(n) \cup PendingFor(n)' \cup Cut
        /\ OfferedTo(n) \cap PendingFor(n)' = {}
    BY <2>1, <2>4, <2>5, <2>7 DEF OfferedRight
  <2>10. IsFiniteSet(OfferedTo(n)') /\ Cardinality(OfferedTo(n)') = Len((chans'[n]).offered)
    BY <2>1, <2>2 DEF OfferedRight
  <2> QED
    BY <2>2, <2>3, <2>8, <2>9, <2>10 DEF OfferedRight
<1> QED
  BY <1>5, <1>7, <1>8, <1>11, <1>12 DEF StreamInv

LEMMA PublishSendKeeps ==
  ASSUME StreamInv, NEW p \in Publishers, PublishSend(p)
  PROVE  StreamInv'
<1>1. PICK n \in publish[p].todo :
        /\ Offer(n, publish[p].event)
        /\ publish' = [publish EXCEPT ![p].todo = publish[p].todo \ {n}]
        /\ UNCHANGED <<history, subs, panicked>>
  BY DEF PublishSend
<1>2. PICK e \in Nat : e = publish[p].event
  BY DEF StreamInv, StreamTypes
<1>3. /\ e \in DOMAIN history /\ history[e] = p /\ p \notin panicked
      /\ n \in DOMAIN chans /\ chans[n].since < e /\ e <= chans[n].until
      /\ \A x \in DOMAIN history : history[x] = p => x <= e
  BY <1>1, <1>2 DEF StreamInv, Carried
<1>4. PICK old \in Chan : old = chans[n]
  BY <1>3, StreamShape DEF StreamInv
<1>5. PICK buf \in Seq(Nat) : buf = IF Len(old.buf) < ChanCap THEN Append(old.buf, e) ELSE old.buf
  BY <1>4, AppendProperties DEF Chan
<1>6. PICK offered \in Seq(Nat) : offered = Append(old.offered, e)
  BY <1>4, AppendProperties DEF Chan
<1>7. PICK c : c = [buf |-> buf, closed |-> old.closed, offered |-> offered,
                    since |-> old.since, until |-> old.until]
  OBVIOUS
<1>8. c \in Chan /\ c.offered = offered /\ c.since = old.since /\ c.until = old.until
  BY <1>4, <1>7 DEF Chan
<1>9. PICK l \in Nat : l = Len(chans) /\ DOMAIN chans = 1 .. l
  BY StreamShape DEF StreamInv
<1>10. chans' = [chans EXCEPT ![n] = c]
  <2>0. chans = [k \in 1 .. l |-> chans[k]]
    BY <1>9, SeqDef DEF StreamInv, StreamTypes
  <2>1. PICK mid : mid = [buf |-> old.buf, closed |-> old.closed, offered |-> offered,
                          since |-> old.since, until |-> old.until]
    OBVIOUS
  <2>2. [old EXCEPT !.offered = offered] = mid
    <3>1. PICK b, d, o, f, u : old = [buf |-> b, closed |-> d, offered |-> o, since |-> f, until |-> u]
      BY <1>4 DEF Chan
    <3>2. mid = [buf |-> b, closed |-> d, offered |-> offered, since |-> f, until |-> u]
      BY <2>1, <3>1
    <3> QED
      BY <3>1, <3>2
  <2>3. PICK between : between = [k \in 1 .. l |-> IF k = n THEN mid ELSE chans[k]]
    OBVIOUS
  <2>4. [chans EXCEPT ![n].offered = offered] = between
    BY <1>3, <1>4, <1>9, <2>0, <2>2, <2>3
  <2>5. [mid EXCEPT !.buf = buf] = c
    BY <1>7, <2>1
  <2>6. mid.buf = old.buf
    BY <2>1
  <2>7. [between EXCEPT ![n].buf = IF Len(@) < ChanCap THEN Append(@, e) ELSE @]
          = [k \in 1 .. l |-> IF k = n THEN c ELSE chans[k]]
    BY <1>3, <1>5, <1>9, <2>3, <2>5, <2>6
  <2>8. chans' = [[chans EXCEPT ![n].offered = offered]
                    EXCEPT ![n].buf = IF Len(@) < ChanCap THEN Append(@, e) ELSE @]
    BY <1>1, <1>2, <1>4, <1>6 DEF Offer
  <2> QED
    BY <1>3, <1>9, <2>0, <2>4, <2>7, <2>8
<1>11. /\ chans' \in Seq(Chan) /\ DOMAIN chans' = DOMAIN chans
       /\ chans'[n] = c
       /\ \A m \in DOMAIN chans : m # n => chans'[m] = chans[m]
  BY <1>3, <1>8, <1>9, <1>10, ExceptSeq DEF StreamInv, StreamTypes
<1>12. \A m \in DOMAIN chans : (chans'[m]).since = chans[m].since /\ (chans'[m]).until = chans[m].until
  BY <1>4, <1>8, <1>11
<1>13. /\ publish' \in [Publishers -> [event : Nat, todo : SUBSET Nat]]
       /\ (publish'[p]).event = e /\ (publish'[p]).todo = publish[p].todo \ {n}
       /\ \A q \in Publishers : q # p => publish'[q] = publish[q]
  BY <1>1, <1>2 DEF StreamInv, StreamTypes
<1>14. StreamTypes'
  BY <1>1, <1>11, <1>13 DEF StreamInv, StreamTypes
<1>15. Attached' /\ OwnChannels'
  <2>1. Subscribed' = Subscribed
    BY <1>1 DEF Subscribed
  <2> QED
    BY <1>1, <1>11, <1>12, <2>1 DEF StreamInv, Attached, OwnChannels
<1>16. Carried'
  <2>1. \A q \in Publishers : /\ (publish'[q]).event = publish[q].event
                              /\ (publish'[q]).todo \subseteq publish[q].todo
    BY <1>2, <1>13
  <2> QED
    BY <1>1, <1>11, <1>12, <2>1 DEF StreamInv, Carried
<1>17. Cut' = Cut
  <2>1. \A q \in panicked : q \in Publishers /\ q # p
    BY <1>3 DEF StreamInv, StreamTypes
  <2> QED
    BY <1>1, <1>13, <2>1 DEF Cut
<1>18. \A m \in DOMAIN chans : Mine(m)' = Mine(m)
  BY <1>1, <1>12 DEF Mine
<1>19. ASSUME NEW m \in DOMAIN chans, m # n
       PROVE  OfferedRight(m)'
  <2>1. OfferedTo(m)' = OfferedTo(m)
    BY <1>11, <1>19 DEF OfferedTo
  <2>2. PendingFor(m)' = PendingFor(m)
    <3>1. \A q \in Publishers : /\ m \in (publish'[q]).todo <=> m \in publish[q].todo
                                /\ (publish'[q]).event = publish[q].event
      BY <1>2, <1>13, <1>19
    <3> QED
      BY <3>1 DEF PendingFor
  <2>3. OfferedRight(m) /\ chans'[m] = chans[m]
    BY <1>11, <1>19 DEF StreamInv
  <2>4. IsFiniteSet(OfferedTo(m)') /\ Cardinality(OfferedTo(m)') = Len((chans'[m]).offered)
    BY <2>1, <2>3 DEF OfferedRight
  <2>5. \A j, k \in DOMAIN (chans'[m]).offered :
          j < k /\ history'[(chans'[m]).offered[j]] = history'[(chans'[m]).offered[k]]
            => (chans'[m]).offered[j] < (chans'[m]).offered[k]
    BY <1>1, <2>3 DEF OfferedRight
  <2>6. /\ OfferedTo(m)' \subseteq Mine(m)'
        /\ Mine(m)' \subseteq OfferedTo(m)' \cup PendingFor(m)' \cup Cut'
        /\ OfferedTo(m)' \cap PendingFor(m)' = {}
    BY <1>17, <1>18, <2>1, <2>2, <2>3 DEF OfferedRight
  <2> QED
    BY <2>4, <2>5, <2>6 DEF OfferedRight
<1>20. OfferedRight(n)'
  <2>1. PICK k \in Nat : /\ k = Len(old.offered) /\ DOMAIN old.offered = 1 .. k
    BY <1>4, LenProperties DEF Chan
  <2>2. /\ Len(offered) = k + 1 /\ DOMAIN offered = 1 .. k + 1
        /\ offered[k + 1] = e
        /\ \A j \in 1 .. k : offered[j] = old.offered[j]
    BY <1>4, <1>6, <2>1, AppendProperties, LenProperties DEF Chan
  <2>3. PICK O : O = OfferedTo(n)
    OBVIOUS
  <2>4. O = {old.offered[j] : j \in 1 .. k}
    BY <1>4, <2>1, <2>3 DEF OfferedTo
  <2>5. OfferedTo(n)' = {offered[j] : j \in 1 .. k + 1}
    BY <1>8, <1>11, <2>2 DEF OfferedTo
  <2>6. OfferedTo(n)' = O \cup {e}
    <3>1. \A j \in 1 .. k + 1 : j \in 1 .. k \/ j = k + 1
      OBVIOUS
    <3>2. \A j \in 1 .. k : j \in 1 .. k + 1
      OBVIOUS
    <3>3. k + 1 \in 1 .. k + 1
      OBVIOUS
    <3> QED
      BY <2>2, <2>4, <2>5, <3>1, <3>2, <3>3
  <2>7. OfferedRight(n)
    BY <1>3 DEF StreamInv
  <2>8. e \in PendingFor(n)
    BY <1>1, <1>2 DEF PendingFor
  <2>9. e \notin O
    BY <2>3, <2>7, <2>8 DEF OfferedRight
  <2>10. PendingFor(n)' = PendingFor(n) \ {e}
    <3>1. \A q \in Publishers : n \in (publish'[q]).todo <=> q # p /\ n \in publish[q].todo
      BY <1>13
    <3>2. \A q \in Publishers : q # p /\ n \in publish[q].todo => publish[q].event # e
      BY <1>1, <1>2, EventsDiffer
    <3>3. \A q \in Publishers : (publish'[q]).event = publish[q].event
      BY <1>2, <1>13
    <3> QED
      BY <1>2, <3>1, <3>2, <3>3 DEF PendingFor
  <2>11. e \in Mine(n)
    BY <1>3 DEF Mine
  <2>12. /\ O \cup {e} \subseteq Mine(n)
         /\ Mine(n) \subseteq (O \cup {e}) \cup (PendingFor(n) \ {e}) \cup Cut
         /\ (O \cup {e}) \cap (PendingFor(n) \ {e}) = {}
    BY <2>3, <2>7, <2>11 DEF OfferedRight
  <2>13. IsFiniteSet(O \cup {e}) /\ Cardinality(O \cup {e}) = k + 1
    BY <1>4, <2>1, <2>3, <2>7, <2>9, FS_AddElement DEF OfferedRight
  <2>14. \A i, j \in DOMAIN offered :
           i < j /\ history[offered[i]] = history[offered[j]] => offered[i] < offered[j]
    <3> SUFFICES ASSUME NEW i \in 1 .. k + 1, NEW j \in 1 .. k + 1,
                        i < j, history[offered[i]] = history[offered[j]]
                 PROVE  offered[i] < offered[j]
      BY <2>2
    <3>1. i \in 1 .. k
      OBVIOUS
    <3>2. CASE j \in 1 .. k
      BY <1>4, <2>1, <2>2, <2>7, <3>1, <3>2 DEF OfferedRight
    <3>3. CASE j = k + 1
      <4>1. PICK x \in O : x = offered[i]
        BY <2>2, <2>4, <3>1
      <4>2. x \in DOMAIN history /\ history[x] = p /\ x # e
        BY <1>3, <2>2, <2>3, <2>7, <2>9, <3>3, <4>1 DEF OfferedRight, Mine
      <4>3. x <= e /\ x \in Nat
        BY <1>3, <4>2, StreamShape DEF StreamInv
      <4> QED
        BY <2>2, <3>3, <4>1, <4>2, <4>3
    <3> QED
      BY <3>2, <3>3
  <2>15. (chans'[n]).offered = offered /\ Mine(n)' = Mine(n)
    BY <1>3, <1>8, <1>11, <1>18
  <2>16. /\ OfferedTo(n)' \subseteq Mine(n)'
         /\ Mine(n)' \subseteq OfferedTo(n)' \cup PendingFor(n)' \cup Cut'
         /\ OfferedTo(n)' \cap PendingFor(n)' = {}
    BY <1>17, <2>6, <2>10, <2>12, <2>15
  <2>17. IsFiniteSet(OfferedTo(n)') /\ Cardinality(OfferedTo(n)') = Len((chans'[n]).offered)
    BY <2>2, <2>6, <2>13, <2>15
  <2>18. \A i, j \in DOMAIN (chans'[n]).offered :
           i < j /\ history'[(chans'[n]).offered[i]] = history'[(chans'[n]).offered[j]]
             => (chans'[n]).offered[i] < (chans'[n]).offered[j]
    BY <1>1, <2>14, <2>15
  <2> QED
    BY <2>16, <2>17, <2>18 DEF OfferedRight
<1> QED
  BY <1>11, <1>14, <1>15, <1>16, <1>19, <1>20 DEF StreamInv

\* What a panic keeps from a channel is cut.
LEMMA PublishPanicKeeps ==
  ASSUME StreamInv, NEW p \in Publishers, PublishPanic(p)
  PROVE  StreamInv'
<1>1. /\ publish[p].todo # {}
      /\ panicked' = panicked \cup {p}
      /\ publish' = [publish EXCEPT ![p].todo = {}]
      /\ UNCHANGED <<history, subs, chans>>
  BY DEF PublishPanic
<1>2. /\ publish' \in [Publishers -> [event : Nat, todo : SUBSET Nat]]
      /\ (publish'[p]).event = publish[p].event /\ (publish'[p]).todo = {}
      /\ \A q \in Publishers : q # p => publish'[q] = publish[q]
  BY <1>1 DEF StreamInv, StreamTypes
<1>3. StreamTypes'
  BY <1>1, <1>2 DEF StreamInv, StreamTypes
<1>4. Attached' /\ OwnChannels'
  BY <1>1 DEF StreamInv, Attached, OwnChannels, Subscribed
<1>5. Carried'
  <2>1. ASSUME NEW q \in Publishers
        PROVE  /\ (publish'[q]).event = publish[q].event
               /\ (publish'[q]).todo # {} => (publish'[q]).todo = publish[q].todo /\ q # p
    BY <1>2
  <2> QED
    BY <1>1, <2>1 DEF StreamInv, Carried
<1>6. Cut' = Cut \cup {publish[p].event}
  <2>1. \A q \in panicked' : q \in Publishers
    BY <1>3 DEF StreamTypes
  <2>2. \A q \in Publishers : (publish'[q]).event = publish[q].event
    BY <1>2
  <2> QED
    BY <1>1, <2>1, <2>2 DEF Cut
<1>7. ASSUME NEW n \in DOMAIN chans
      PROVE  OfferedRight(n)'
  <2>1. OfferedRight(n)
    BY DEF StreamInv
  <2>2. OfferedTo(n)' = OfferedTo(n) /\ Mine(n)' = Mine(n)
    BY <1>1 DEF OfferedTo, Mine
  <2>3. PendingFor(n)' \subseteq PendingFor(n)
        /\ PendingFor(n) \subseteq PendingFor(n)' \cup {publish[p].event}
    <3>1. \A q \in Publishers : /\ (publish'[q]).event = publish[q].event
                                /\ n \in (publish'[q]).todo <=> q # p /\ n \in publish[q].todo
      BY <1>2
    <3> QED
      BY <3>1 DEF PendingFor
  <2>4. IsFiniteSet(OfferedTo(n)') /\ Cardinality(OfferedTo(n)') = Len((chans'[n]).offered)
    BY <1>1, <2>1, <2>2 DEF OfferedRight
  <2>5. \A j, k \in DOMAIN (chans'[n]).offered :
          j < k /\ history'[(chans'[n]).offered[j]] = history'[(chans'[n]).offered[k]]
            => (chans'[n]).offered[j] < (chans'[n]).offered[k]
    BY <1>1, <2>1 DEF OfferedRight
  <2>6. /\ OfferedTo(n)' \subseteq Mine(n)'
        /\ Mine(n)' \subseteq OfferedTo(n)' \cup PendingFor(n)' \cup Cut'
        /\ OfferedTo(n)' \cap PendingFor(n)' = {}
    BY <1>6, <2>1, <2>2, <2>3 DEF OfferedRight
  <2> QED
    BY <2>4, <2>5, <2>6 DEF OfferedRight
<1> QED
  BY <1>1, <1>3, <1>4, <1>5, <1>7 DEF StreamInv

LEMMA ConsumeKeeps ==
  ASSUME StreamInv, NEW n \in DOMAIN chans, Consume(n)
  PROVE  StreamInv'
<1>1. PICK old \in Chan : old = chans[n] /\ old.buf # << >>
  BY StreamShape DEF Consume, StreamInv
<1>2. PICK c \in Chan : /\ c = [old EXCEPT !.buf = Tail(old.buf)]
                        /\ c.offered = old.offered /\ c.since = old.since /\ c.until = old.until
  <2>1. Tail(old.buf) \in Seq(Nat)
    BY <1>1, HeadTailProperties DEF Chan
  <2> QED
    BY <1>1, <2>1 DEF Chan
<1>3. chans' = [chans EXCEPT ![n] = c]
  BY <1>1, <1>2 DEF Consume
<1>4. n \in 1 .. Len(chans)
  BY StreamShape DEF StreamInv
<1>5. /\ chans' \in Seq(Chan) /\ DOMAIN chans' = DOMAIN chans
      /\ chans'[n] = c
      /\ \A m \in DOMAIN chans : m # n => chans'[m] = chans[m]
  BY <1>3, <1>4, ExceptSeq DEF StreamInv, StreamTypes
<1>6. \A m \in DOMAIN chans : /\ (chans'[m]).offered = chans[m].offered
                              /\ (chans'[m]).since = chans[m].since
                              /\ (chans'[m]).until = chans[m].until
  BY <1>1, <1>2, <1>5
<1>7. UNCHANGED <<history, subs, publish, panicked>>
  BY DEF Consume
<1>8. StreamTypes'
  BY <1>5, <1>7 DEF StreamInv, StreamTypes
<1>9. Attached' /\ OwnChannels'
  <2>1. Subscribed' = Subscribed
    BY <1>7 DEF Subscribed
  <2> QED
    BY <1>5, <1>6, <1>7, <2>1 DEF StreamInv, Attached, OwnChannels
<1>10. Carried'
  BY <1>5, <1>6, <1>7 DEF StreamInv, Carried
<1>11. \A m \in DOMAIN chans' : OfferedRight(m)'
  BY <1>5, <1>6, <1>7, SameOffers
<1> QED
  BY <1>8, <1>9, <1>10, <1>11 DEF StreamInv

LEMMA StreamNextInv ==
  ASSUME StreamInv, [StreamNext]_streamVars
  PROVE  StreamInv'
<1>1. CASE UNCHANGED streamVars
  <2>1. UNCHANGED <<history, subs, chans, publish, panicked>>
    BY <1>1 DEF streamVars
  <2>2. \A n \in DOMAIN chans' : OfferedRight(n)'
    BY <2>1, SameOffers
  <2> QED
    BY <2>1, <2>2 DEF StreamInv, StreamTypes, Attached, OwnChannels, Carried, Subscribed
<1> QED
  BY <1>1, SubscribeKeeps, UnsubscribeKeeps, PublishAppendKeeps, PublishSendKeeps,
     PublishPanicKeeps, ConsumeKeeps DEF StreamNext

\* For any publishers, subscriber ids, capacity and history: a channel is
\* offered exactly the events of its subscription, each once, in each
\* publisher's order.
THEOREM SubscriptionsAreWhole == StreamSpec => []WholeSubscription
<1>1. ASSUME StreamInv, NEW n \in DOMAIN chans
      PROVE  /\ OfferedTo(n) \cup PendingFor(n) \subseteq Mine(n)
             /\ OfferedRight(n)
  <2>1. PendingFor(n) \subseteq Mine(n)
    BY <1>1 DEF StreamInv, Carried, PendingFor, Mine
  <2> QED
    BY <1>1, <2>1 DEF StreamInv, OfferedRight
<1>2. ASSUME StreamInv
      PROVE  WholeSubscription
  <2> SUFFICES ASSUME NEW n \in DOMAIN chans
               PROVE  /\ OfferedTo(n) \cup PendingFor(n) \subseteq Mine(n)
                      /\ Mine(n) \subseteq OfferedTo(n) \cup PendingFor(n) \cup Cut
                      /\ Cardinality(OfferedTo(n)) = Len(chans[n].offered)
                      /\ OfferedTo(n) \cap PendingFor(n) = {}
                      /\ \A j, k \in DOMAIN chans[n].offered :
                           j < k /\ history[chans[n].offered[j]] = history[chans[n].offered[k]]
                             => chans[n].offered[j] < chans[n].offered[k]
    BY DEF WholeSubscription, Mine
  <2> QED
    BY <1>1, <1>2 DEF OfferedRight
<1> QED
  BY <1>2, StreamInitInv, StreamNextInv, PTL DEF StreamSpec

-----------------------------------------------------------------------------
(* Scada: frames on a link.  Where a frame begins on it is a function that *)
(* every invariant of a run can be told by, until something goes wrong.    *)

Good(s) == s[1] = Magic /\ s[HeaderSize] = checksum(s)

\* A frame that WriteFrame does not refuse.
Short == {f \in Frames : Len(f.payload) <= maxPayload}

\* The bytes x stand in s after the first at bytes.
There(s, at, x) == at + Len(x) <= Len(s) /\ \A j \in 1 .. Len(x) : s[at + j] = x[j]

\* Frame k of fs begins after pos[k] bytes.
Laid(pos, n, fs) ==
  /\ \A k \in 1 .. n + 1 : pos[k] \in Nat
  /\ \A j, k \in 1 .. n + 1 : j < k => pos[j] + HeaderSize <= pos[k]
  /\ \A k \in 1 .. n : pos[k + 1] = pos[k] + HeaderSize + Len(fs[k].payload)

\* With r frames read, the headers of the others, and the payloads of those that
\* are whole, are where they belong, but for a changed header that is read next.
Ahead(s, pos, n, whole, fs, r, dirty) ==
  /\ \A k \in r + 1 .. n : (dirty /\ k = r + 1) \/ There(s, pos[k] - pos[r + 1], Header(fs[k]))
  /\ \A k \in r + 1 .. whole : There(s, pos[k] - pos[r + 1] + HeaderSize, fs[k].payload)
  /\ dirty /\ r < n => Len(s) >= HeaderSize /\ ~Good(s)

\* What ReadFrame may return.
RawFrame == [address : Bytes, command : Bytes, payload : Seq(Bytes)]

LinkTypes ==
  /\ stream \in Seq(Bytes) /\ begun \in Seq(Short) /\ received \in Seq(RawFrame)
  /\ DOMAIN writing = LinkWriters
  /\ \A w \in LinkWriters : writing[w] = << >> \/ \E f \in Short : writing[w] = <<f>>
  /\ intact \in Nat /\ intact <= Len(begun)
  /\ trouble \in BOOLEAN /\ noise \in BOOLEAN

\* Without trouble at most one frame is being written, and it is the last begun.
OneAtATime ==
  ~trouble => \/ Busy = {} /\ intact = Len(begun)
              \/ /\ \E w \in LinkWriters : Busy = {w} /\ writing[w] = <<begun[intact + 1]>>
                 /\ Len(begun) = intact + 1

ReadRight ==
  \A k \in DOMAIN received : (~trouble \/ k <= intact) =>
    k <= Len(begun) /\ received[k] = begun[k]

Sound == IF trouble THEN intact ELSE Len(begun)

Where(pos) ==
  /\ Laid(pos, Sound, begun)
  /\ Ahead(stream, pos, Sound, intact, begun, Len(received), noise)
  /\ ~trouble => Len(stream) + pos[Len(received) + 1]
                   + (IF Busy = {} THEN 0 ELSE Len(begun[Sound].payload)) = pos[Sound + 1]

\* Of the frames laid out without trouble those not read yet are there, and
\* without trouble nothing else is.
InPlace == Len(received) <= Sound => \E pos : Where(pos)

Arrives ==
  /\ ReadRight /\ InPlace
  /\ ~trouble /\ noise => Len(received) < Len(begun)
  /\ reader = "failed" => noise \/ trouble

LinkInv == LinkTypes /\ OneAtATime /\ Arrives

LEMMA ChecksumIsByte ==
  ASSUME NEW x, x[1] \in Bytes, x[2] \in Bytes, x[3] \in Bytes, x[4] \in Bytes
  PROVE  checksum(x) \in Bytes
<1>1. 0 \in Bytes
  BY FrameTypes DEF Bytes
<1>2. PICK p \in Bytes : p = ByteXor(0, x[1])
  BY <1>1, XorOfBytes
<1>3. PICK q \in Bytes : q = ByteXor(p, x[2])
  BY XorOfBytes
<1>4. PICK r \in Bytes : r = ByteXor(q, x[3])
  BY XorOfBytes
<1>5. ByteXor(r, x[4]) \in Bytes
  BY XorOfBytes
<1> QED
  BY <1>2, <1>3, <1>4, <1>5 DEF checksum

LEMMA AppendedTo ==
  ASSUME NEW S, NEW x \in Seq(S), NEW e \in S, NEW n \in Nat, n = Len(x)
  PROVE  /\ Append(x, e) \in Seq(S) /\ Len(Append(x, e)) = n + 1 /\ Append(x, e)[n + 1] = e
         /\ \A i \in 1 .. n : Append(x, e)[i] = x[i]
BY AppendProperties

\* What WriteFrame makes of a frame it does not refuse.
LEMMA HeaderShape ==
  ASSUME NEW f \in Short
  PROVE  LET h == Header(f) IN
         /\ h \in Seq(Bytes) /\ Len(h) = HeaderSize
         /\ h[1] = Magic /\ h[2] = f.address /\ h[3] = f.command /\ h[4] = Len(f.payload)
         /\ Good(h)
<1>1. PICK len \in Nat : len = Len(f.payload)
  BY FrameTypes, LenProperties DEF Short
<1>2. len \in Bytes /\ len % Byte = len
  <2>1. PICK k \in Nat \ {0} : k = Byte
    BY FrameTypes
  <2>2. len <= k - 1
    BY <1>1, <2>1 DEF Short, maxPayload
  <2>3. len \in 0 .. k - 1 /\ len % k = len
    BY <2>2
  <2> QED
    BY <2>1, <2>3 DEF Bytes
<1>3. PICK body : body = <<Magic, f.address, f.command, len>>
  OBVIOUS
<1>4. f.address \in Bytes /\ f.command \in Bytes /\ Magic \in Bytes
  BY FrameTypes DEF Short
<1>5. body \in Seq(Bytes) /\ Len(body) = 4
  BY <1>2, <1>3, <1>4
<1>6. body[1] = Magic /\ body[2] = f.address /\ body[3] = f.command /\ body[4] = len
  BY <1>3
<1>7. PICK sum \in Bytes : sum = checksum(body)
  BY <1>2, <1>4, <1>6, ChecksumIsByte
<1>8. PICK h : h = Append(body, sum)
  OBVIOUS
<1>9. Header(f) = h
  BY <1>1, <1>2, <1>3, <1>7, <1>8 DEF Header
<1>10. h \in Seq(Bytes) /\ Len(h) = 5 /\ h[5] = sum /\ \A i \in 1 .. 4 : h[i] = body[i]
  <2>1. PICK n \in Nat : n = Len(body)
    BY <1>5, LenProperties
  <2>2. /\ h \in Seq(Bytes) /\ Len(h) = n + 1 /\ h[n + 1] = sum
        /\ \A i \in 1 .. n : h[i] = body[i]
    BY <1>5, <1>8, <2>1, AppendedTo
  <2>3. n = 4
    BY <1>5, <2>1
  <2> QED
    BY <2>2, <2>3
<1>11. h[1] = body[1] /\ h[2] = body[2] /\ h[3] = body[3] /\ h[4] = body[4]
  BY <1>10
<1>12. checksum(h) = sum
  BY <1>7, <1>11 DEF checksum
<1> QED
  BY <1>1, <1>6, <1>9, <1>10, <1>11, <1>12 DEF HeaderSize, Good

\* A changed byte is found.
LEMMA ChangeIsFound ==
  ASSUME NEW s \in Seq(Bytes), Len(s) >= HeaderSize, Good(s),
         NEW k \in 1 .. HeaderSize, NEW c \in Bytes, c # s[k]
  PROVE  ~Good([s EXCEPT ![k] = c])
<1>1. PICK t : t = [s EXCEPT ![k] = c]
  OBVIOUS
<1>2. /\ s[1] \in Bytes /\ s[2] \in Bytes /\ s[3] \in Bytes /\ s[4] \in Bytes /\ s[5] \in Bytes
      /\ {1, 2, 3, 4, 5} \subseteq DOMAIN s
  BY ElementOfSeq, LenProperties DEF HeaderSize
<1>3. \A i \in 1 .. 5 : t[i] = IF i = k THEN c ELSE s[i]
  BY <1>1, <1>2
<1>4. PICK p \in Bytes, q \in Bytes, r \in Bytes, u \in Bytes :
        /\ p = ByteXor(0, s[1]) /\ q = ByteXor(p, s[2]) /\ r = ByteXor(q, s[3]) /\ u = ByteXor(r, s[4])
  <2>1. 0 \in Bytes
    BY FrameTypes DEF Bytes
  <2>2. PICK p \in Bytes : p = ByteXor(0, s[1])
    BY <1>2, <2>1, XorOfBytes
  <2>3. PICK q \in Bytes : q = ByteXor(p, s[2])
    BY <1>2, XorOfBytes
  <2>4. PICK r \in Bytes : r = ByteXor(q, s[3])
    BY <1>2, XorOfBytes
  <2>5. PICK u \in Bytes : u = ByteXor(r, s[4])
    BY <1>2, XorOfBytes
  <2> QED
    BY <2>2, <2>3, <2>4, <2>5
<1>5. u = s[5] /\ s[1] = Magic
  BY <1>4 DEF Good, checksum, HeaderSize
<1>6. CASE k = 1
  BY <1>1, <1>3, <1>5, <1>6 DEF Good
<1>7. CASE k = 5
  <2>1. t[1] = s[1] /\ t[2] = s[2] /\ t[3] = s[3] /\ t[4] = s[4] /\ t[5] = c
    BY <1>3, <1>7
  <2>2. checksum(t) = u
    BY <2>1, <1>4 DEF checksum
  <2> QED
    BY <1>1, <1>5, <1>7, <2>1, <2>2 DEF Good, HeaderSize
<1>8. CASE k = 4
  <2>1. t[1] = s[1] /\ t[2] = s[2] /\ t[3] = s[3] /\ t[4] = c /\ t[5] = s[5]
    BY <1>3, <1>8
  <2>2. checksum(t) = ByteXor(r, c)
    BY <2>1, <1>4 DEF checksum
  <2>3. ByteXor(r, c) # u
    BY <1>2, <1>4, <1>8, XorOfBytes
  <2> QED
    BY <1>1, <1>5, <2>1, <2>2, <2>3 DEF Good, HeaderSize
<1>9. CASE k = 3
  <2>1. t[1] = s[1] /\ t[2] = s[2] /\ t[3] = c /\ t[4] = s[4] /\ t[5] = s[5]
    BY <1>3, <1>9
  <2>2. checksum(t) = ByteXor(ByteXor(q, c), s[4])
    BY <2>1, <1>4 DEF checksum
  <2>3. PICK r2 \in Bytes : r2 = ByteXor(q, c)
    BY XorOfBytes
  <2>4. r2 # r
    BY <1>2, <1>4, <1>9, <2>3, XorOfBytes
  <2>5. ByteXor(r2, s[4]) # u
    BY <1>2, <1>4, <2>4, XorOfBytes
  <2> QED
    BY <1>1, <1>5, <2>1, <2>2, <2>3, <2>5 DEF Good, HeaderSize
<1>10. CASE k = 2
  <2>1. t[1] = s[1] /\ t[2] = c /\ t[3] = s[3] /\ t[4] = s[4] /\ t[5] = s[5]
    BY <1>3, <1>10
  <2>2. checksum(t) = ByteXor(ByteXor(ByteXor(p, c), s[3]), s[4])
    BY <2>1, <1>4 DEF checksum
  <2>3. PICK q2 \in Bytes : q2 = ByteXor(p, c)
    BY XorOfBytes
  <2>4. q2 # q
    BY <1>2, <1>4, <1>10, <2>3, XorOfBytes
  <2>5. PICK r2 \in Bytes : r2 = ByteXor(q2, s[3])
    BY <1>2, XorOfBytes
  <2>6. r2 # r
    BY <1>2, <1>4, <2>4, <2>5, XorOfBytes
  <2>7. ByteXor(r2, s[4]) # u
    BY <1>2, <1>4, <2>6, XorOfBytes
  <2> QED
    BY <1>1, <1>5, <2>1, <2>2, <2>3, <2>5, <2>7 DEF Good, HeaderSize
<1> QED
  BY <1>6, <1>7, <1>8, <1>9, <1>10 DEF HeaderSize

\* What stands somewhere stays there when more is written,
LEMMA ThereKept ==
  ASSUME NEW s \in Seq(Bytes), NEW e \in Seq(Bytes), NEW x \in Seq(Bytes), NEW at \in Nat,
         There(s, at, x)
  PROVE  There(s \o e, at, x)
<1>1. PICK l \in Nat : l = Len(s)
  BY LenProperties
<1>2. PICK m \in Nat : m = Len(e)
  BY LenProperties
<1>3. PICK n \in Nat : n = Len(x)
  BY LenProperties
<1>4. /\ Len(s \o e) = l + m
      /\ \A i \in 1 .. l + m : (s \o e)[i] = IF i <= l THEN s[i] ELSE e[i - l]
  BY <1>1, <1>2, ConcatProperties
<1>5. at + n <= l /\ \A j \in 1 .. n : s[at + j] = x[j]
  BY <1>1, <1>3 DEF There
<1>6. \A j \in 1 .. n : at + j \in 1 .. l + m /\ at + j <= l
  BY <1>5
<1> QED
  BY <1>3, <1>4, <1>5, <1>6 DEF There

\* what is written stands at the end,
LEMMA ThereEnd ==
  ASSUME NEW s \in Seq(Bytes), NEW e \in Seq(Bytes)
  PROVE  There(s \o e, Len(s), e)
<1>1. PICK l \in Nat : l = Len(s)
  BY LenProperties
<1>2. PICK m \in Nat : m = Len(e)
  BY LenProperties
<1>4. /\ Len(s \o e) = l + m
      /\ \A i \in 1 .. l + m : (s \o e)[i] = IF i <= l THEN s[i] ELSE e[i - l]
  BY <1>1, <1>2, ConcatProperties
<1>6. \A j \in 1 .. m : l + j \in 1 .. l + m /\ ~(l + j <= l) /\ (l + j) - l = j
  OBVIOUS
<1> QED
  BY <1>1, <1>2, <1>4, <1>6 DEF There

\* and what is read moves it to the front.
LEMMA ThereShifted ==
  ASSUME NEW s \in Seq(Bytes), NEW x \in Seq(Bytes), NEW at \in Nat, There(s, at, x),
         NEW d \in Nat, d <= at
  PROVE  There(SubSeq(s, d + 1, Len(s)), at - d, x)
<1>1. PICK l \in Nat : l = Len(s)
  BY LenProperties
<1>3. PICK n \in Nat : n = Len(x)
  BY LenProperties
<1>5. at + n <= l /\ \A j \in 1 .. n : s[at + j] = x[j]
  BY <1>1, <1>3 DEF There
<1>6. d + 1 \in 1 .. l + 1 /\ l - (d + 1) + 1 = l - d
  BY <1>5
<1>7. /\ Len(SubSeq(s, d + 1, l)) = l - d
      /\ \A i \in 1 .. l - d : SubSeq(s, d + 1, l)[i] = s[d + i]
  <2>1. \A i \in d + 1 .. l : s[i] \in Bytes
    <3>1. \A i \in d + 1 .. l : i \in 1 .. l
      OBVIOUS
    <3> QED
      BY <1>1, <3>1, ElementOfSeq
  <2>2. PICK m \in Int : m = d + 1 /\ m <= l + 1
    BY <1>6
  <2>3. PICK t : t = SubSeq(s, m, l)
    OBVIOUS
  <2>4. /\ Len(t) = (IF m <= l THEN l - m + 1 ELSE 0)
        /\ \A i \in 1 .. l - m + 1 : t[i] = s[m + i - 1]
    BY <2>1, <2>2, <2>3, SubSeqProperties
  <2>5. l - m + 1 = l - d /\ (IF m <= l THEN l - m + 1 ELSE 0) = l - d
    BY <2>2
  <2>6. \A i \in 1 .. l - d : m + i - 1 = d + i
    BY <2>2
  <2>7. Len(t) = l - d
    BY <2>4, <2>5
  <2>8. \A i \in 1 .. l - d : t[i] = s[d + i]
    BY <2>4, <2>5, <2>6
  <2> QED
    BY <2>2, <2>3, <2>7, <2>8
<1>8. \A j \in 1 .. n : (at - d) + j \in 1 .. l - d /\ d + ((at - d) + j) = at + j
  BY <1>5
<1>9. (at - d) + n <= l - d
  BY <1>5
<1> QED
  BY <1>1, <1>3, <1>5, <1>7, <1>8, <1>9 DEF There

LEMMA FrameAt ==
  ASSUME NEW fs \in Seq(Short), NEW k \in 1 .. Len(fs)
  PROVE  /\ fs[k] \in Short
         /\ Header(fs[k]) \in Seq(Bytes) /\ Len(Header(fs[k])) = HeaderSize
         /\ fs[k].payload \in Seq(Bytes) /\ Len(fs[k].payload) \in Nat
<1>1. PICK f \in Short : f = fs[k]
  BY ElementOfSeq
<1>2. f.payload \in Seq(Bytes)
  BY FrameTypes DEF Short
<1>3. Len(f.payload) \in Nat
  BY <1>2, LenProperties
<1> QED
  BY <1>1, <1>2, <1>3, HeaderShape

LEMMA GrownStream ==
  ASSUME NEW s \in Seq(Bytes), NEW e \in Seq(Bytes)
  PROVE  /\ s \o e \in Seq(Bytes)
         /\ Len(s) \in Nat /\ Len(e) \in Nat /\ Len(s \o e) = Len(s) + Len(e)
         /\ Len(s) >= HeaderSize => (Good(s \o e) <=> Good(s))
<1>1. PICK l \in Nat : l = Len(s)
  BY LenProperties
<1>2. PICK m \in Nat : m = Len(e)
  BY LenProperties
<1>3. /\ s \o e \in Seq(Bytes) /\ Len(s \o e) = l + m
      /\ \A i \in 1 .. l + m : (s \o e)[i] = IF i <= l THEN s[i] ELSE e[i - l]
  BY <1>1, <1>2, ConcatProperties
<1>4. ASSUME l >= 5
      PROVE  Good(s \o e) <=> Good(s)
  <2>1. PICK t : t = s \o e
    OBVIOUS
  <2>2. \A i \in 1 .. 5 : i \in 1 .. l + m /\ i <= l
    BY <1>4
  <2>3. \A i \in 1 .. 5 : t[i] = s[i]
    BY <1>3, <2>1, <2>2
  <2>4. t[1] = s[1] /\ t[2] = s[2] /\ t[3] = s[3] /\ t[4] = s[4] /\ t[5] = s[5]
    BY <2>3
  <2> QED
    BY <2>1, <2>4 DEF Good, checksum, HeaderSize
<1> QED
  BY <1>1, <1>2, <1>3, <1>4 DEF HeaderSize

\* Frames laid out in s, and what of them is asked for when e is written after it.
Carries(s, e, pos, fs, n, whole, fs2, n2, whole2, r, dirty) ==
  /\ s \in Seq(Bytes) /\ e \in Seq(Bytes) /\ fs \in Seq(Short) /\ dirty \in BOOLEAN
  /\ n \in Nat /\ n <= Len(fs) /\ whole \in Nat /\ whole <= n
  /\ n2 \in Nat /\ n2 <= n /\ whole2 \in Nat /\ whole2 <= whole /\ whole2 <= n2
  /\ r \in Nat /\ r <= n2
  /\ Laid(pos, n, fs) /\ Ahead(s, pos, n, whole, fs, r, dirty)
  /\ \A k \in 1 .. n : fs2[k] = fs[k]

\* What is ahead stays ahead when more is written, also of fewer of the frames.
LEMMA AheadKept ==
  ASSUME NEW s, NEW e, NEW pos, NEW fs, NEW n, NEW whole, NEW fs2, NEW n2, NEW whole2,
         NEW r, NEW dirty,
         Carries(s, e, pos, fs, n, whole, fs2, n2, whole2, r, dirty)
  PROVE  Laid(pos, n2, fs2) /\ Ahead(s \o e, pos, n2, whole2, fs2, r, dirty)
<1> USE DEF Carries
<1>1. PICK l \in Nat : l = Len(fs)
  BY LenProperties
<1>2. \A k \in 1 .. n : /\ k \in 1 .. l
                        /\ Header(fs[k]) \in Seq(Bytes) /\ fs[k].payload \in Seq(Bytes)
  BY <1>1, FrameAt
<1>0. /\ \A k \in 1 .. n + 1 : pos[k] \in Nat
      /\ \A j, k \in 1 .. n + 1 : j < k => pos[j] + 5 <= pos[k]
      /\ \A k \in 1 .. n : pos[k + 1] = pos[k] + 5 + Len(fs[k].payload)
  BY DEF Laid, HeaderSize
<1>3. Laid(pos, n2, fs2)
  <2>1. \A k \in 1 .. n2 + 1 : k \in 1 .. n + 1
    OBVIOUS
  <2>2. \A j, k \in 1 .. n2 + 1 : j < k => pos[j] + 5 <= pos[k]
    BY <1>0, <2>1
  <2>3. \A k \in 1 .. n2 : k \in 1 .. n
    OBVIOUS
  <2>4. \A k \in 1 .. n2 : pos[k + 1] = pos[k] + 5 + Len(fs2[k].payload)
    BY <1>0, <2>3
  <2> QED
    BY <1>0, <2>1, <2>2, <2>4 DEF Laid, HeaderSize
<1>4. ASSUME NEW k \in r + 1 .. n2
      PROVE  /\ k \in 1 .. n /\ k \in r + 1 .. n
             /\ pos[k] - pos[r + 1] \in Nat /\ pos[k] - pos[r + 1] + HeaderSize \in Nat
  <2>0. k \in 1 .. n /\ k \in r + 1 .. n /\ k \in 1 .. n + 1 /\ r + 1 \in 1 .. n + 1 /\ k \in Nat /\ r + 1 <= k
    OBVIOUS
  <2>1. pos[k] \in Nat /\ pos[r + 1] \in Nat
    BY <1>0, <2>0
  <2>2. k = r + 1 \/ r + 1 < k
    BY <2>0
  <2>3. k = r + 1 \/ pos[r + 1] + 5 <= pos[k]
    BY <1>0, <2>0, <2>2
  <2>4. pos[r + 1] <= pos[k]
    BY <2>1, <2>3
  <2> QED
    BY <2>0, <2>1, <2>4 DEF HeaderSize
<1>5. ASSUME NEW k \in r + 1 .. n2
      PROVE  (dirty /\ k = r + 1) \/ There(s \o e, pos[k] - pos[r + 1], Header(fs2[k]))
  <2>1. (dirty /\ k = r + 1) \/ There(s, pos[k] - pos[r + 1], Header(fs[k]))
    BY <1>4 DEF Ahead
  <2>2. fs2[k] = fs[k] /\ Header(fs[k]) \in Seq(Bytes)
    BY <1>2, <1>4
  <2> QED
    BY <1>4, <2>1, <2>2, ThereKept
<1>6. ASSUME NEW k \in r + 1 .. whole2
      PROVE  There(s \o e, pos[k] - pos[r + 1] + HeaderSize, fs2[k].payload)
  <2>0. k \in r + 1 .. n2 /\ k \in r + 1 .. whole
    OBVIOUS
  <2>1. There(s, pos[k] - pos[r + 1] + HeaderSize, fs[k].payload)
    BY <2>0 DEF Ahead
  <2>2. fs2[k] = fs[k] /\ fs[k].payload \in Seq(Bytes)
    BY <1>2, <1>4, <2>0
  <2> QED
    BY <1>4, <2>0, <2>1, <2>2, ThereKept
<1>7. ASSUME dirty, r < n2
      PROVE  Len(s \o e) >= HeaderSize /\ ~Good(s \o e)
  <2>1. Len(s) >= HeaderSize /\ ~Good(s)
    BY <1>7 DEF Ahead
  <2> QED
    BY <2>1, GrownStream DEF HeaderSize
<1>8. Ahead(s \o e, pos, n2, whole2, fs2, r, dirty)
  BY <1>5, <1>6, <1>7 DEF Ahead
<1> QED
  BY <1>3, <1>8

\* Numbers and parts of a state of the link.
LEMMA LinkShape ==
  ASSUME LinkTypes
  PROVE  /\ Len(begun) \in Nat /\ DOMAIN begun = 1 .. Len(begun)
         /\ Len(received) \in Nat /\ DOMAIN received = 1 .. Len(received)
         /\ Len(stream) \in Nat
         /\ Sound \in Nat /\ intact <= Sound /\ Sound <= Len(begun)
<1>1. Len(begun) \in Nat /\ DOMAIN begun = 1 .. Len(begun) /\ Len(stream) \in Nat
  BY LenProperties DEF LinkTypes
<1>2. Len(received) \in Nat /\ DOMAIN received = 1 .. Len(received)
  BY LenProperties DEF LinkTypes
<1> QED
  BY <1>1, <1>2 DEF LinkTypes, Sound

LEMMA PartOfHeader ==
  ASSUME NEW x \in Seq(Bytes), NEW k \in Int, k <= Len(x)
  PROVE  SubSeq(x, 1, k) \in Seq(Bytes)
<1>1. PICK n \in Nat : n = Len(x)
  BY LenProperties
<1>2. \A i \in 1 .. k : x[i] \in Bytes
  BY <1>1, ElementOfSeq
<1> QED
  BY <1>2, SubSeqProperties

\* A header that goes out.
LEMMA HeaderShows ==
  ASSUME LinkTypes, OneAtATime, NEW w \in LinkWriters, NEW f \in Frames, WriteHeader(w, f)
  PROVE  /\ f \in Short /\ LinkTypes' /\ OneAtATime'
         /\ stream' = stream \o Header(f) /\ Header(f) \in Seq(Bytes)
         /\ Len(begun') = Len(begun) + 1 /\ begun'[Len(begun) + 1] = f
         /\ \A k \in 1 .. Len(begun) : begun'[k] = begun[k]
<1>1. f \in Short
  BY DEF WriteHeader, Short
<1>2. Header(f) \in Seq(Bytes)
  BY <1>1, HeaderShape
<1>3. stream' = stream \o Header(f) /\ begun' = Append(begun, f)
      /\ writing' = [writing EXCEPT ![w] = <<f>>] /\ writing[w] = << >>
      /\ trouble' = (trouble \/ Busy # {})
      /\ UNCHANGED <<intact, noise, received, reader>>
  BY DEF WriteHeader, PutHeader
<1>4. PICK l \in Nat : l = Len(begun)
  BY LinkShape
<1>5. /\ begun' \in Seq(Short) /\ Len(begun') = l + 1 /\ begun'[l + 1] = f
      /\ \A k \in 1 .. l : begun'[k] = begun[k]
  BY <1>1, <1>3, <1>4, AppendedTo DEF LinkTypes
<1>6. stream' \in Seq(Bytes)
  BY <1>2, <1>3, GrownStream DEF LinkTypes
<1>7. /\ DOMAIN writing' = LinkWriters
      /\ \A v \in LinkWriters : writing'[v] = IF v = w THEN <<f>> ELSE writing[v]
  BY <1>3 DEF LinkTypes
<1>8. LinkTypes'
  <2>1. \A v \in LinkWriters : writing'[v] = << >> \/ \E g \in Short : writing'[v] = <<g>>
    BY <1>1, <1>7 DEF LinkTypes
  <2>2. intact' \in Nat /\ intact' <= Len(begun')
    BY <1>3, <1>4, <1>5 DEF LinkTypes
  <2>3. trouble' \in BOOLEAN /\ noise' \in BOOLEAN /\ received' \in Seq(RawFrame)
    BY <1>3 DEF LinkTypes
  <2> QED
    BY <1>5, <1>6, <1>7, <2>1, <2>2, <2>3 DEF LinkTypes
<1>9. OneAtATime'
  <2>1. SUFFICES ASSUME ~trouble' PROVE OneAtATime'
    BY DEF OneAtATime
  <2>2. ~trouble /\ Busy = {}
    BY <1>3, <2>1
  <2>3. intact = l
    BY <1>4, <2>2 DEF OneAtATime
  <2>4. <<f>> # << >>
    OBVIOUS
  <2>5. Busy' = {w}
    <3>1. \A v \in LinkWriters : writing[v] = << >>
      BY <2>2 DEF Busy
    <3>2. \A v \in LinkWriters : writing'[v] # << >> <=> v = w
      BY <1>7, <2>4, <3>1
    <3> QED
      BY <3>2 DEF Busy
  <2>6. writing'[w] = <<begun'[l + 1]>>
    BY <1>5, <1>7
  <2> QED
    BY <1>3, <1>5, <2>3, <2>5, <2>6 DEF OneAtATime
<1> QED
  BY <1>1, <1>2, <1>3, <1>4, <1>5, <1>8, <1>9

\* A payload that goes out.
LEMMA PayloadShows ==
  ASSUME LinkTypes, OneAtATime, NEW w \in LinkWriters, WritePayload(w)
  PROVE  /\ LinkTypes' /\ OneAtATime'
         /\ writing[w][1].payload \in Seq(Bytes)
         /\ ~trouble => /\ Len(begun) = intact + 1 /\ intact' = intact + 1
                        /\ Busy # {} /\ Busy' = {}
                        /\ writing[w][1] = begun[Len(begun)]
<1>1. PICK f \in Short : writing[w] = <<f>>
  BY DEF WritePayload, LinkTypes
<1>2. writing[w][1] = f /\ f.payload \in Seq(Bytes)
  BY <1>1, FrameTypes DEF Short
<1>3. stream' = stream \o f.payload
      /\ writing' = [writing EXCEPT ![w] = << >>] /\ writing[w] # << >>
      /\ intact' = (IF trouble THEN intact ELSE intact + 1)
      /\ UNCHANGED <<begun, trouble, noise, received, reader>>
  BY <1>2 DEF WritePayload
<1>4. stream' \in Seq(Bytes)
  BY <1>2, <1>3, GrownStream DEF LinkTypes
<1>5. /\ DOMAIN writing' = LinkWriters
      /\ \A v \in LinkWriters : writing'[v] = IF v = w THEN << >> ELSE writing[v]
  BY <1>3 DEF LinkTypes
<1>6. w \in Busy
  BY <1>3 DEF Busy
<1>7. ASSUME ~trouble
      PROVE  /\ Len(begun) = intact + 1 /\ intact' = intact + 1
             /\ Busy # {} /\ Busy' = {}
             /\ f = begun[Len(begun)]
  <2>1. PICK v \in LinkWriters : Busy = {v} /\ writing[v] = <<begun[intact + 1]>>
    BY <1>6, <1>7 DEF OneAtATime
  <2>2. Len(begun) = intact + 1
    BY <1>6, <1>7 DEF OneAtATime
  <2>3. v = w
    BY <1>6, <2>1
  <2>4. Busy' = {}
    BY <1>5, <2>1, <2>3 DEF Busy
  <2>5. <<f>> = <<begun[intact + 1]>>
    BY <1>1, <2>1, <2>3
  <2>6. f = begun[intact + 1]
    BY <2>5
  <2> QED
    BY <1>3, <1>6, <1>7, <2>2, <2>4, <2>6
<1>8. LinkTypes'
  <2>1. \A v \in LinkWriters : writing'[v] = << >> \/ \E g \in Short : writing'[v] = <<g>>
    BY <1>5 DEF LinkTypes
  <2>2. intact' \in Nat /\ intact' <= Len(begun')
    <3>1. CASE trouble
      BY <1>3, <3>1 DEF LinkTypes
    <3>2. CASE ~trouble
      BY <1>3, <1>7, <3>2 DEF LinkTypes
    <3> QED
      BY <3>1, <3>2
  <2>3. trouble' \in BOOLEAN /\ noise' \in BOOLEAN /\ received' \in Seq(RawFrame) /\ begun' \in Seq(Short)
    BY <1>3 DEF LinkTypes
  <2> QED
    BY <1>4, <1>5, <2>1, <2>2, <2>3 DEF LinkTypes
<1>9. OneAtATime'
  <2>1. trouble' => OneAtATime'
    BY DEF OneAtATime
  <2>2. ~trouble' => Busy' = {} /\ intact' = Len(begun')
    BY <1>3, <1>7
  <2> QED
    BY <2>1, <2>2 DEF OneAtATime
<1> QED
  BY <1>2, <1>7, <1>8, <1>9

\* A write that fails leaves bytes, and nothing else changes but what is being written.
LEMMA FailureShows ==
  ASSUME LinkTypes, NEW w \in LinkWriters,
         PayloadFails(w) \/ \E f \in Frames : HeaderFails(w, f)
  PROVE  /\ LinkTypes' /\ OneAtATime' /\ trouble'
         /\ \E e \in Seq(Bytes) : stream' = stream \o e
         /\ UNCHANGED <<begun, intact, noise, received, reader>>
<1>1. CASE PayloadFails(w)
  <2>1. PICK f \in Short : writing[w] = <<f>>
    BY <1>1 DEF PayloadFails, LinkTypes
  <2>2. writing[w][1] = f /\ f.payload \in Seq(Bytes)
    BY <2>1, FrameTypes DEF Short
  <2>3. PICK n \in Nat : n = Len(f.payload)
    BY <2>2, LenProperties
  <2>4. PICK k \in 0 .. n - 1 : stream' = stream \o SubSeq(f.payload, 1, k)
    BY <1>1, <2>2, <2>3 DEF PayloadFails
  <2>5. PICK e \in Seq(Bytes) : e = SubSeq(f.payload, 1, k)
    <3>1. k \in Int /\ k <= Len(f.payload)
      BY <2>3
    <3> QED
      BY <2>2, <3>1, PartOfHeader
  <2>6. writing' = [writing EXCEPT ![w] = << >>] /\ trouble' = TRUE
        /\ UNCHANGED <<begun, intact, noise, received, reader>>
    BY <1>1 DEF PayloadFails
  <2>7. stream' \in Seq(Bytes)
    BY <2>4, <2>5, GrownStream DEF LinkTypes
  <2>8. /\ DOMAIN writing' = LinkWriters
        /\ \A v \in LinkWriters : writing'[v] = IF v = w THEN << >> ELSE writing[v]
    BY <2>6 DEF LinkTypes
  <2>9. LinkTypes'
    BY <2>6, <2>7, <2>8 DEF LinkTypes
  <2> QED
    BY <2>4, <2>5, <2>6, <2>9 DEF OneAtATime
<1>2. CASE \E f \in Frames : HeaderFails(w, f)
  <2>1. PICK f \in Frames : HeaderFails(w, f)
    BY <1>2
  <2>2. f \in Short
    BY <2>1 DEF HeaderFails, Short
  <2>3. PICK h \in Seq(Bytes) : h = Header(f) /\ Len(h) = 5
    BY <2>2, HeaderShape DEF HeaderSize
  <2>4. PICK k \in 0 .. 5 - 1 : stream' = stream \o SubSeq(h, 1, k)
    <3>1. PICK k \in 0 .. HeaderSize - 1 : stream' = stream \o SubSeq(Header(f), 1, k)
      BY <2>1 DEF HeaderFails
    <3> QED
      BY <2>3, <3>1 DEF HeaderSize
  <2>5. PICK e \in Seq(Bytes) : e = SubSeq(h, 1, k)
    <3>1. k \in Int /\ k <= Len(h)
      BY <2>3
    <3> QED
      BY <3>1, PartOfHeader
  <2>6. trouble' = TRUE /\ UNCHANGED <<writing, begun, intact, noise, received, reader>>
    BY <2>1 DEF HeaderFails
  <2>7. stream' \in Seq(Bytes)
    BY <2>4, <2>5, GrownStream DEF LinkTypes
  <2>8. LinkTypes'
    BY <2>6, <2>7 DEF LinkTypes
  <2> QED
    BY <2>4, <2>5, <2>6, <2>8 DEF OneAtATime
<1> QED
  BY <1>1, <1>2

LEMMA ReadInRange ==
  ASSUME LinkTypes, ReadRight, ~trouble
  PROVE  Len(received) <= Len(begun)
<1>1. PICK r \in Nat : r = Len(received) /\ DOMAIN received = 1 .. r
  BY LinkShape
<1>2. PICK l \in Nat : l = Len(begun)
  BY LinkShape
<1>3. r = 0 \/ r \in 1 .. r
  OBVIOUS
<1>4. r = 0 \/ r <= l
  BY <1>1, <1>2, <1>3 DEF ReadRight
<1> QED
  BY <1>1, <1>2, <1>4

\* Whatever is written in trouble leaves what was laid out without it.
LEMMA TroubleKeeps ==
  ASSUME LinkInv, trouble', NEW e \in Seq(Bytes), stream' = stream \o e,
         UNCHANGED <<intact, noise, received, reader>>,
         Len(begun) <= Len(begun'), Len(begun') \in Nat,
         \A k \in 1 .. Len(begun) : begun'[k] = begun[k]
  PROVE  Arrives'
<1>0. LinkTypes /\ ReadRight /\ InPlace
  BY DEF LinkInv, Arrives
<1>1. PICK l \in Nat, r \in Nat, n \in Nat, i \in Nat :
        /\ l = Len(begun) /\ r = Len(received) /\ n = Sound /\ i = intact
        /\ i <= n /\ n <= l /\ DOMAIN received = 1 .. r
  BY <1>0, LinkShape DEF LinkTypes
<1>2. Sound' = i
  BY <1>1 DEF Sound
<1>3. ReadRight'
  <2>1. SUFFICES ASSUME NEW k \in 1 .. r, k <= i
                 PROVE  k <= Len(begun') /\ received[k] = begun'[k]
    BY <1>1 DEF ReadRight
  <2>2. k <= l /\ received[k] = begun[k]
    BY <1>0, <1>1, <2>1 DEF ReadRight
  <2> QED
    BY <1>1, <2>2
<1>4. InPlace'
  <2>1. SUFFICES ASSUME r <= i PROVE \E pos : Where(pos)'
    BY <1>1, <1>2 DEF InPlace
  <2>2. PICK pos : Where(pos)
    BY <1>0, <1>1, <2>1 DEF InPlace
  <2>3. Laid(pos, n, begun) /\ Ahead(stream, pos, n, i, begun, r, noise)
    BY <1>1, <2>2 DEF Where
  <2>4. \A k \in 1 .. n : begun'[k] = begun[k]
    BY <1>1
  <2>5. stream \in Seq(Bytes) /\ begun \in Seq(Short) /\ noise \in BOOLEAN
    BY <1>0 DEF LinkTypes
  <2>6. Laid(pos, i, begun') /\ Ahead(stream \o e, pos, i, i, begun', r, noise)
    <3>1. n <= Len(begun) /\ i <= n /\ i <= i /\ r <= i
      BY <1>1, <2>1
    <3>2. Carries(stream, e, pos, begun, n, i, begun', i, i, r, noise)
      BY <2>3, <2>4, <2>5, <3>1 DEF Carries
    <3> QED
      BY <3>2, AheadKept
  <2>7. Where(pos)'
    BY <1>1, <1>2, <2>6 DEF Where
  <2> QED
    BY <2>7
<1> QED
  BY <1>3, <1>4 DEF Arrives

LEMMA HeaderKeeps ==
  ASSUME LinkInv, NEW w \in LinkWriters, NEW f \in Frames, WriteHeader(w, f)
  PROVE  LinkInv'
<1>0. LinkTypes /\ OneAtATime /\ ReadRight /\ InPlace
  BY DEF LinkInv, Arrives
<1>1. /\ f \in Short /\ LinkTypes' /\ OneAtATime'
      /\ stream' = stream \o Header(f) /\ Header(f) \in Seq(Bytes)
      /\ Len(begun') = Len(begun) + 1 /\ begun'[Len(begun) + 1] = f
      /\ \A k \in 1 .. Len(begun) : begun'[k] = begun[k]
  BY <1>0, HeaderShows
<1>2. trouble' = (trouble \/ Busy # {}) /\ UNCHANGED <<intact, noise, received, reader>>
  BY DEF WriteHeader, PutHeader
<1>3. PICK l \in Nat, r \in Nat, i \in Nat :
        /\ l = Len(begun) /\ r = Len(received) /\ i = intact /\ DOMAIN received = 1 .. r
  BY <1>0, LinkShape DEF LinkTypes
<1>4. CASE trouble'
  <2>1. Len(begun) <= Len(begun') /\ Len(begun') \in Nat
    BY <1>1, <1>3
  <2> QED
    BY <1>1, <1>2, <1>4, <2>1, TroubleKeeps DEF LinkInv
<1>5. CASE ~trouble'
  <2>1. ~trouble /\ Busy = {}
    BY <1>2, <1>5
  <2>2. i = l /\ Sound = l /\ Sound' = l + 1 /\ r <= l
    BY <1>0, <1>1, <1>3, <1>5, <2>1, ReadInRange DEF OneAtATime, Sound
  <2>3. PICK pos : Where(pos)
    BY <1>0, <1>3, <2>2 DEF InPlace
  <2>4. /\ Laid(pos, l, begun) /\ Ahead(stream, pos, l, l, begun, r, noise)
        /\ Len(stream) + pos[r + 1] = pos[l + 1]
    <3>1. Len(stream) \in Nat /\ pos[r + 1] \in Nat
      <4>1. r + 1 \in 1 .. l + 1
        BY <2>2
      <4> QED
        BY <1>0, <2>2, <2>3, <4>1, LinkShape DEF Where, Laid
    <3>2. Len(stream) + pos[r + 1] + 0 = pos[l + 1]
      BY <1>3, <2>1, <2>2, <2>3 DEF Where
    <3>3. Laid(pos, l, begun) /\ Ahead(stream, pos, l, l, begun, r, noise)
      BY <1>3, <2>2, <2>3 DEF Where
    <3> QED
      BY <3>1, <3>2, <3>3
  <2>5. PICK h \in Seq(Bytes) : h = Header(f) /\ Len(h) = 5
    BY <1>1, HeaderShape DEF HeaderSize
  <2>6. stream \in Seq(Bytes) /\ begun \in Seq(Short) /\ noise \in BOOLEAN
    BY <1>0 DEF LinkTypes
  <2>7. Laid(pos, l, begun') /\ Ahead(stream \o h, pos, l, l, begun', r, noise)
    <3>1. l <= Len(begun) /\ l <= l /\ r <= l
      BY <1>3, <2>2
    <3>2. \A k \in 1 .. l : begun'[k] = begun[k]
      BY <1>1, <1>3
    <3>3. Carries(stream, h, pos, begun, l, l, begun', l, l, r, noise)
      BY <2>4, <2>6, <3>1, <3>2 DEF Carries
    <3> QED
      BY <3>3, AheadKept
  <2>8. PICK p \in Nat : p = Len(f.payload)
    BY <1>1, FrameTypes, LenProperties DEF Short
  <2>9. PICK next : next = [k \in 1 .. l + 2 |-> IF k = l + 2 THEN pos[l + 1] + 5 + p ELSE pos[k]]
    OBVIOUS
  <2>10. next[l + 2] = pos[l + 1] + 5 + p /\ \A k \in 1 .. l + 1 : next[k] = pos[k]
    BY <2>9
  <2>11. /\ \A k \in 1 .. l + 1 : pos[k] \in Nat
         /\ \A j, k \in 1 .. l + 1 : j < k => pos[j] + 5 <= pos[k]
         /\ \A k \in 1 .. l : pos[k + 1] = pos[k] + 5 + Len(begun'[k].payload)
    BY <2>7 DEF Laid, HeaderSize
  <2>12. Laid(next, l + 1, begun')
    <3>1. \A k \in 1 .. (l + 1) + 1 : next[k] \in Nat
      <4>1. \A k \in 1 .. (l + 1) + 1 : k = l + 2 \/ k \in 1 .. l + 1
        OBVIOUS
      <4>2. l + 1 \in 1 .. l + 1
        OBVIOUS
      <4>3. pos[l + 1] + 5 + p \in Nat
        BY <2>11, <4>2
      <4> QED
        BY <2>10, <2>11, <4>1, <4>3
    <3>2. ASSUME NEW j \in 1 .. (l + 1) + 1, NEW k \in 1 .. (l + 1) + 1, j < k
          PROVE  next[j] + 5 <= next[k]
      <4>1. j \in 1 .. l + 1
        BY <3>2
      <4>2. CASE k = l + 2
        <5>1. j = l + 1 \/ j < l + 1
          BY <4>1
        <5>2. l + 1 \in 1 .. l + 1
          OBVIOUS
        <5>3. pos[j] \in Nat /\ pos[l + 1] \in Nat /\ pos[j] <= pos[l + 1]
          BY <2>11, <4>1, <5>1, <5>2
        <5> QED
          BY <2>10, <4>1, <4>2, <5>3
      <4>3. CASE k # l + 2
        <5>1. k \in 1 .. l + 1
          BY <4>3
        <5> QED
          BY <2>10, <2>11, <3>2, <4>1, <5>1
      <4> QED
        BY <4>2, <4>3
    <3>3. ASSUME NEW k \in 1 .. l + 1
          PROVE  next[k + 1] = next[k] + 5 + Len(begun'[k].payload)
      <4>1. CASE k = l + 1
        <5>1. begun'[k] = f
          BY <1>1, <1>3, <4>1
        <5> QED
          BY <2>8, <2>10, <4>1, <5>1
      <4>2. CASE k # l + 1
        <5>1. k \in 1 .. l /\ k + 1 \in 1 .. l + 1
          BY <4>2
        <5> QED
          BY <2>10, <2>11, <5>1
      <4> QED
        BY <4>1, <4>2
    <3> QED
      BY <3>1, <3>2, <3>3 DEF Laid, HeaderSize
  <2>13. r + 1 \in 1 .. l + 1 /\ next[r + 1] = pos[r + 1]
    BY <2>2, <2>10
  <2>14. PICK at \in Nat : at = Len(stream) /\ at + pos[r + 1] = pos[l + 1]
    BY <1>0, <2>4, LinkShape
  <2>15. at = pos[l + 1] - pos[r + 1]
    BY <2>11, <2>13, <2>14
  <2>16. ASSUME NEW k \in r + 1 .. l + 1
         PROVE  (noise /\ k = r + 1) \/ There(stream \o h, next[k] - next[r + 1], Header(begun'[k]))
    <3>1. CASE k = l + 1
      <4>1. begun'[k] = f /\ next[k] = pos[l + 1]
        <5>1. begun'[l + 1] = f
          BY <1>1, <1>3
        <5>2. l + 1 \in 1 .. l + 1
          OBVIOUS
        <5> QED
          BY <2>10, <3>1, <5>1, <5>2
      <4>2. There(stream \o h, at, h)
        BY <2>5, <2>6, <2>14, ThereEnd
      <4> QED
        BY <2>5, <2>13, <2>15, <4>1, <4>2
    <3>2. CASE k # l + 1
      <4>1. k \in r + 1 .. l /\ k \in 1 .. l + 1
        BY <2>2, <3>2
      <4>2. (noise /\ k = r + 1) \/ There(stream \o h, pos[k] - pos[r + 1], Header(begun'[k]))
        BY <2>7, <4>1 DEF Ahead
      <4> QED
        BY <2>10, <2>13, <4>1, <4>2
    <3> QED
      BY <3>1, <3>2
  <2>17. ASSUME NEW k \in r + 1 .. l
         PROVE  There(stream \o h, next[k] - next[r + 1] + HeaderSize, begun'[k].payload)
    <3>1. k \in 1 .. l + 1
      BY <2>2
    <3>2. There(stream \o h, pos[k] - pos[r + 1] + HeaderSize, begun'[k].payload)
      BY <2>7 DEF Ahead
    <3> QED
      BY <2>10, <2>13, <3>1, <3>2
  <2>18. noise => r < l
    BY <1>3, <2>1 DEF LinkInv, Arrives
  <2>19. Ahead(stream \o h, next, l + 1, l, begun', r, noise)
    <3>1. noise => Len(stream \o h) >= HeaderSize /\ ~Good(stream \o h)
      BY <2>7, <2>18 DEF Ahead
    <3> QED
      BY <2>16, <2>17, <3>1 DEF Ahead
  <2>20. Len(stream \o h) = at + 5
    BY <2>5, <2>6, <2>14, GrownStream
  <2>21. (at + 5) + next[r + 1] + p = next[(l + 1) + 1]
    <3>1. PICK a \in Nat : a = pos[r + 1]
      BY <2>11, <2>13
    <3>2. PICK c \in Nat : c = pos[l + 1] /\ at + a = c
      BY <2>14, <3>1
    <3>3. next[l + 2] = c + 5 + p /\ next[r + 1] = a
      BY <2>10, <2>13, <3>1, <3>2
    <3>4. (at + 5) + a + p = c + 5 + p /\ (l + 1) + 1 = l + 2
      BY <3>2
    <3> QED
      BY <3>3, <3>4
  <2>22. Busy' # {}
    <3>1. Len(begun') # intact'
      BY <1>1, <1>2, <1>3, <2>2
    <3> QED
      BY <1>1, <1>5, <3>1 DEF OneAtATime
  <2>23. Len(begun'[l + 1].payload) = p
    BY <1>1, <1>3, <2>8
  <2>24. Where(next)'
    <3>1. stream' = stream \o h /\ Sound' = l + 1 /\ intact' = l /\ Len(received') = r /\ noise' = noise
      BY <1>1, <1>2, <1>3, <2>2, <2>5
    <3> QED
      BY <2>12, <2>19, <2>20, <2>21, <2>22, <2>23, <3>1 DEF Where
  <2>25. ReadRight'
    <3>1. SUFFICES ASSUME NEW k \in 1 .. r
                   PROVE  k <= Len(begun') /\ received[k] = begun'[k]
      BY <1>2, <1>3 DEF ReadRight
    <3>2. k <= l /\ received[k] = begun[k]
      BY <1>0, <1>3, <2>1 DEF ReadRight
    <3> QED
      BY <1>1, <1>3, <3>2
  <2>26. noise' => Len(received') < Len(begun')
    BY <1>1, <1>2, <1>3, <2>18
  <2>27. reader' = "failed" => noise' \/ trouble'
    BY <1>2, <2>1 DEF LinkInv, Arrives
  <2> QED
    BY <1>1, <2>24, <2>25, <2>26, <2>27 DEF LinkInv, Arrives, InPlace
<1> QED
  BY <1>4, <1>5

LEMMA PayloadKeeps ==
  ASSUME LinkInv, NEW w \in LinkWriters, WritePayload(w)
  PROVE  LinkInv'
<1>0. LinkTypes /\ OneAtATime /\ ReadRight /\ InPlace
  BY DEF LinkInv, Arrives
<1>1. /\ LinkTypes' /\ OneAtATime' /\ writing[w][1].payload \in Seq(Bytes)
      /\ ~trouble => /\ Len(begun) = intact + 1 /\ intact' = intact + 1
                     /\ Busy # {} /\ Busy' = {}
                     /\ writing[w][1] = begun[Len(begun)]
  BY <1>0, PayloadShows
<1>2. /\ stream' = stream \o writing[w][1].payload
      /\ intact' = IF trouble THEN intact ELSE intact + 1
      /\ UNCHANGED <<begun, trouble, noise, received, reader>>
  BY DEF WritePayload
<1>3. PICK l \in Nat, r \in Nat, i \in Nat :
        /\ l = Len(begun) /\ r = Len(received) /\ i = intact /\ DOMAIN received = 1 .. r
  BY <1>0, LinkShape DEF LinkTypes
<1>4. CASE trouble
  <2>1. Len(begun) <= Len(begun') /\ Len(begun') \in Nat
    BY <1>2, <1>3
  <2>2. PICK e \in Seq(Bytes) : stream' = stream \o e
    BY <1>1, <1>2
  <2> QED
    BY <1>1, <1>2, <1>4, <2>1, <2>2, TroubleKeeps DEF LinkInv
<1>5. CASE ~trouble
  <2>2. l = i + 1 /\ Sound = l /\ Sound' = l /\ r <= l /\ intact' = l
    BY <1>0, <1>1, <1>2, <1>3, <1>5, ReadInRange DEF Sound
  <2>3. PICK pos : Where(pos)
    BY <1>0, <1>3, <2>2 DEF InPlace
  <2>4. PICK p \in Seq(Bytes) : p = begun[l].payload /\ stream' = stream \o p
    BY <1>1, <1>2, <1>3, <1>5
  <2>5. PICK q \in Nat : q = Len(p)
    BY LenProperties
  <2>6. stream \in Seq(Bytes) /\ begun \in Seq(Short) /\ noise \in BOOLEAN
    BY <1>0 DEF LinkTypes
  <2>7. Laid(pos, l, begun) /\ Ahead(stream, pos, l, i, begun, r, noise)
    BY <1>3, <2>2, <2>3 DEF Where
  <2>8. PICK at \in Nat : at = Len(stream)
    BY <1>0, LinkShape
  <2>9. PICK a \in Nat, c \in Nat, d \in Nat :
          /\ a = pos[r + 1] /\ c = pos[l] /\ d = pos[l + 1] /\ d = c + 5 + q
    <3>1. r + 1 \in 1 .. l + 1 /\ l \in 1 .. l + 1 /\ l + 1 \in 1 .. l + 1 /\ l \in 1 .. l
      BY <2>2
    <3>2. pos[l + 1] = pos[l] + 5 + Len(begun[l].payload)
      BY <2>7, <3>1 DEF Laid, HeaderSize
    <3> QED
      BY <2>4, <2>5, <2>7, <3>1, <3>2 DEF Laid
  <2>10. at + a + q = d
    BY <1>1, <1>3, <1>5, <2>2, <2>3, <2>4, <2>5, <2>8, <2>9 DEF Where
  <2>11. Laid(pos, l, begun) /\ Ahead(stream \o p, pos, l, i, begun, r, noise)
    <3>1. l <= Len(begun) /\ i <= l /\ i <= i /\ l <= l /\ r <= l
      BY <1>3, <2>2
    <3>2. Carries(stream, p, pos, begun, l, i, begun, l, i, r, noise)
      BY <2>6, <2>7, <3>1 DEF Carries
    <3> QED
      BY <3>2, AheadKept
  <2>12. ASSUME NEW k \in r + 1 .. l
         PROVE  There(stream \o p, pos[k] - pos[r + 1] + HeaderSize, begun[k].payload)
    <3>1. CASE k = l
      <4>1. There(stream \o p, at, p)
        BY <2>6, <2>8, ThereEnd
      <4>2. c - a + 5 = at
        <5>1. d = c + 5 + q
          BY <2>9
        <5> QED
          BY <2>10, <5>1
      <4> QED
        BY <2>4, <2>9, <3>1, <4>1, <4>2 DEF HeaderSize
    <3>2. CASE k # l
      <4>1. k \in r + 1 .. i
        BY <2>2, <3>2
      <4> QED
        BY <2>11, <4>1 DEF Ahead
    <3> QED
      BY <3>1, <3>2
  <2>13. Ahead(stream \o p, pos, l, l, begun, r, noise)
    BY <2>11, <2>12 DEF Ahead
  <2>14. Len(stream \o p) = at + q
    BY <2>5, <2>6, <2>8, GrownStream
  <2>15. Where(pos)'
    <3>1. (at + q) + a + 0 = d
      BY <2>10
    <3>2. Len(stream') + pos[Len(received') + 1]
            + (IF Busy' = {} THEN 0 ELSE Len(begun'[Sound'].payload)) = pos[Sound' + 1]
      BY <1>1, <1>2, <1>3, <1>5, <2>2, <2>4, <2>9, <2>14, <3>1
    <3> QED
      BY <1>2, <1>3, <2>2, <2>4, <2>11, <2>13, <3>2 DEF Where
  <2>16. ReadRight'
    BY <1>0, <1>2, <1>5 DEF ReadRight
  <2>17. /\ ~trouble' /\ noise' => Len(received') < Len(begun')
         /\ reader' = "failed" => noise' \/ trouble'
    BY <1>2 DEF LinkInv, Arrives
  <2> QED
    BY <1>1, <2>15, <2>16, <2>17 DEF LinkInv, Arrives, InPlace
<1> QED
  BY <1>4, <1>5

LEMMA FailureKeeps ==
  ASSUME LinkInv, NEW w \in LinkWriters,
         PayloadFails(w) \/ \E f \in Frames : HeaderFails(w, f)
  PROVE  LinkInv'
<1>1. /\ LinkTypes' /\ OneAtATime' /\ trouble'
      /\ \E e \in Seq(Bytes) : stream' = stream \o e
      /\ UNCHANGED <<begun, intact, noise, received, reader>>
  BY FailureShows DEF LinkInv
<1>2. Len(begun) <= Len(begun') /\ Len(begun') \in Nat
  BY <1>1, LinkShape DEF LinkInv
<1> QED
  BY <1>1, <1>2, TroubleKeeps DEF LinkInv

-----------------------------------------------------------------------------

\* A header at the front of the stream is a good one.
LEMMA FrontHeader ==
  ASSUME NEW s, NEW f \in Short, There(s, 0, Header(f))
  PROVE  /\ Good(s) /\ Len(s) >= HeaderSize
         /\ s[2] = f.address /\ s[3] = f.command /\ s[4] = Len(f.payload)
<1>1. PICK h : h = Header(f) /\ Len(h) = 5
  BY HeaderShape DEF HeaderSize
<1>2. h[2] = f.address /\ h[3] = f.command /\ h[4] = Len(f.payload) /\ Good(h)
  BY <1>1, HeaderShape
<1>3. 0 + 5 <= Len(s) /\ \A j \in 1 .. 5 : s[0 + j] = h[j]
  BY <1>1 DEF There
<1>4. \A j \in 1 .. 5 : s[j] = h[j]
  BY <1>3
<1>5. s[1] = h[1] /\ s[2] = h[2] /\ s[3] = h[3] /\ s[4] = h[4] /\ s[5] = h[5]
  BY <1>4
<1>6. Good(s)
  BY <1>2, <1>5 DEF Good, checksum, HeaderSize
<1> QED
  BY <1>2, <1>3, <1>5, <1>6 DEF HeaderSize

\* What comes after a changed byte stands where it stood.
LEMMA ThereUntouched ==
  ASSUME NEW s \in Seq(Bytes), NEW x \in Seq(Bytes), NEW at \in Nat, There(s, at, x),
         NEW k \in 1 .. Len(s), k <= at, NEW c \in Bytes
  PROVE  There([s EXCEPT ![k] = c], at, x)
<1>1. PICK l \in Nat : l = Len(s)
  BY LenProperties
<1>2. PICK n \in Nat : n = Len(x)
  BY LenProperties
<1>3. PICK t : t = [s EXCEPT ![k] = c]
  OBVIOUS
<1>4. Len(t) = l /\ \A j \in 1 .. l : t[j] = IF j = k THEN c ELSE s[j]
  BY <1>1, <1>3, ExceptSeq
<1>5. at + n <= l /\ \A j \in 1 .. n : s[at + j] = x[j]
  BY <1>1, <1>2 DEF There
<1>6. \A j \in 1 .. n : at + j \in 1 .. l /\ at + j # k
  BY <1>1, <1>5
<1> QED
  BY <1>2, <1>3, <1>4, <1>5, <1>6 DEF There

\* Without trouble there is nothing on the link but frames that are not read.
LEMMA StreamTells ==
  ASSUME LinkInv, ~trouble, Len(stream) >= HeaderSize
  PROVE  Len(received) < Len(begun)
<1>0. LinkTypes /\ OneAtATime /\ ReadRight /\ InPlace
  BY DEF LinkInv, Arrives
<1>1. PICK l \in Nat, r \in Nat, at \in Nat :
        /\ l = Len(begun) /\ r = Len(received) /\ at = Len(stream) /\ Sound = l
  BY <1>0, LinkShape DEF Sound
<1>2. r <= l /\ at >= 5
  BY <1>0, <1>1, ReadInRange DEF HeaderSize
<1>3. SUFFICES ASSUME r = l PROVE FALSE
  BY <1>1, <1>2
<1>4. PICK pos : Where(pos)
  BY <1>0, <1>1, <1>2 DEF InPlace
<1>5. PICK a \in Nat : a = pos[l + 1]
  BY <1>1, <1>4 DEF Where, Laid
<1>6. PICK q \in Nat : q = IF Busy = {} THEN 0 ELSE Len(begun[l].payload)
  <2>1. CASE Busy = {}
    BY <2>1
  <2>2. CASE Busy # {}
    <3>1. l = intact + 1
      BY <1>0, <1>1, <2>2 DEF OneAtATime
    <3>2. l \in 1 .. l /\ begun \in Seq(Short)
      BY <1>0, <3>1 DEF LinkTypes
    <3> QED
      BY <1>1, <2>2, <3>2, FrameAt
  <2> QED
    BY <2>1, <2>2
<1>7. at + a + q = a
  BY <1>1, <1>3, <1>4, <1>5, <1>6 DEF Where
<1> QED
  BY <1>2, <1>7

\* The frame that is read next, as long as it was laid out without trouble.
LEMMA NextFrame ==
  ASSUME LinkInv, Len(received) < Sound
  PROVE  \E pos : /\ Where(pos)
                  /\ ~noise => There(stream, 0, Header(begun[Len(received) + 1]))
<1>0. LinkTypes /\ InPlace
  BY DEF LinkInv, Arrives
<1>1. PICK r \in Nat, n \in Nat : r = Len(received) /\ n = Sound /\ r < n
  BY <1>0, LinkShape
<1>2. PICK pos : Where(pos)
  BY <1>0, <1>1 DEF InPlace
<1>3. Laid(pos, n, begun) /\ Ahead(stream, pos, n, intact, begun, r, noise)
  BY <1>1, <1>2 DEF Where
<1>4. r + 1 \in r + 1 .. n /\ r + 1 \in 1 .. n + 1
  BY <1>1
<1>5. PICK a \in Nat : a = pos[r + 1]
  BY <1>3, <1>4 DEF Laid
<1>6. ~noise => There(stream, a - a, Header(begun[r + 1]))
  BY <1>3, <1>4, <1>5 DEF Ahead
<1>7. a - a = 0
  OBVIOUS
<1> QED
  BY <1>1, <1>2, <1>6, <1>7

LEMMA NoiseKeeps ==
  ASSUME LinkInv, Corrupt
  PROVE  LinkInv'
<1>0. LinkTypes /\ OneAtATime /\ ReadRight /\ InPlace
  BY DEF LinkInv, Arrives
<1>1. PICK k \in 1 .. 5, c \in Bytes : c # stream[k] /\ stream' = [stream EXCEPT ![k] = c]
  BY DEF Corrupt, HeaderSize
<1>2. /\ ~noise /\ noise' = TRUE /\ Len(stream) >= HeaderSize /\ reader = "reading"
      /\ UNCHANGED <<writing, begun, intact, trouble, received, reader>>
  BY DEF Corrupt
<1>3. PICK l \in Nat, r \in Nat, i \in Nat, n \in Nat, at \in Nat :
        /\ l = Len(begun) /\ r = Len(received) /\ i = intact /\ n = Sound /\ at = Len(stream)
        /\ i <= n /\ n <= l
  BY <1>0, LinkShape DEF LinkTypes
<1>4. at >= 5 /\ k \in 1 .. at
  BY <1>2, <1>3 DEF HeaderSize
<1>5. stream \in Seq(Bytes)
  BY <1>0 DEF LinkTypes
<1>6. stream' \in Seq(Bytes) /\ Len(stream') = at
  BY <1>1, <1>3, <1>4, <1>5, ExceptSeq
<1>7. LinkTypes' /\ OneAtATime' /\ ReadRight' /\ Sound' = n /\ Busy' = Busy
  BY <1>0, <1>2, <1>3, <1>6 DEF LinkTypes, OneAtATime, ReadRight, Sound, Busy
<1>8. ~trouble => r < l
  BY <1>2, <1>3, StreamTells
<1>9. ASSUME r <= n
      PROVE  \E pos : Where(pos)'
  <2>1. PICK pos : Where(pos) /\ (r < n => There(stream, 0, Header(begun[r + 1])))
    <3>1. CASE r < n
      BY <1>2, <1>3, <3>1, NextFrame
    <3>2. CASE ~(r < n)
      BY <1>0, <1>3, <1>9, <3>2 DEF InPlace
    <3> QED
      BY <3>1, <3>2
  <2>2. Laid(pos, n, begun) /\ Ahead(stream, pos, n, i, begun, r, noise)
    BY <1>3, <2>1 DEF Where
  <2>3. ASSUME NEW j \in r + 1 .. n
        PROVE  /\ j \in 1 .. l
               /\ pos[j] - pos[r + 1] \in Nat /\ pos[j] - pos[r + 1] + 5 \in Nat
               /\ j # r + 1 => 5 <= pos[j] - pos[r + 1]
               /\ 5 <= pos[j] - pos[r + 1] + 5
    <3>1. j \in 1 .. n + 1 /\ r + 1 \in 1 .. n + 1 /\ (j = r + 1 \/ r + 1 < j)
      BY <1>9
    <3>2. PICK a \in Nat, d \in Nat : a = pos[r + 1] /\ d = pos[j]
      BY <2>2, <3>1 DEF Laid
    <3>3. j = r + 1 \/ a + 5 <= d
      BY <2>2, <3>1, <3>2 DEF Laid, HeaderSize
    <3>4. j = r + 1 => d = a
      BY <3>2
    <3>5. d - a \in Nat /\ d - a + 5 \in Nat /\ (j # r + 1 => 5 <= d - a) /\ 5 <= d - a + 5
      BY <3>3, <3>4
    <3>6. j \in 1 .. l
      BY <1>3
    <3> QED
      BY <3>2, <3>5, <3>6
  <2>4. ASSUME NEW j \in r + 1 .. n, j # r + 1
        PROVE  There(stream', pos[j] - pos[r + 1], Header(begun[j]))
    <3>1. There(stream, pos[j] - pos[r + 1], Header(begun[j]))
      BY <2>2, <2>4 DEF Ahead
    <3>2. PICK d \in Nat : d = pos[j] - pos[r + 1] /\ k <= d
      BY <2>3, <2>4
    <3>3. Header(begun[j]) \in Seq(Bytes)
      BY <1>0, <1>3, <2>3, FrameAt DEF LinkTypes
    <3> QED
      BY <1>1, <1>3, <1>4, <1>5, <3>1, <3>2, <3>3, ThereUntouched
  <2>5. ASSUME NEW j \in r + 1 .. i
        PROVE  There(stream', pos[j] - pos[r + 1] + HeaderSize, begun[j].payload)
    <3>0. j \in r + 1 .. n
      BY <1>3
    <3>1. There(stream, pos[j] - pos[r + 1] + HeaderSize, begun[j].payload)
      BY <2>2 DEF Ahead
    <3>2. PICK d \in Nat : d = pos[j] - pos[r + 1] + HeaderSize /\ k <= d
      BY <2>3, <3>0 DEF HeaderSize
    <3>3. begun[j].payload \in Seq(Bytes)
      BY <1>0, <1>3, <2>3, <3>0, FrameAt DEF LinkTypes
    <3> QED
      BY <1>1, <1>3, <1>4, <1>5, <3>1, <3>2, <3>3, ThereUntouched
  <2>6. ASSUME r < n
        PROVE  ~Good(stream')
    <3>1. PICK f \in Short : f = begun[r + 1]
      <4>1. r + 1 \in 1 .. Len(begun)
        BY <1>3, <2>6
      <4> QED
        BY <1>0, <4>1, FrameAt DEF LinkTypes
    <3>2. Good(stream)
      BY <2>1, <2>6, <3>1, FrontHeader
    <3>3. k \in 1 .. HeaderSize
      BY DEF HeaderSize
    <3> QED
      BY <1>1, <1>2, <1>5, <3>2, <3>3, ChangeIsFound
  <2>7. Ahead(stream', pos, n, i, begun, r, TRUE)
    <3>1. Len(stream') >= HeaderSize
      BY <1>4, <1>6 DEF HeaderSize
    <3> QED
      BY <2>4, <2>5, <2>6, <3>1 DEF Ahead
  <2>8. ~trouble => Len(stream') + pos[r + 1]
                   + (IF Busy = {} THEN 0 ELSE Len(begun[n].payload)) = pos[n + 1]
    BY <1>3, <1>6, <2>1 DEF Where
  <2>9. Where(pos)'
    BY <1>2, <1>3, <1>7, <2>2, <2>7, <2>8 DEF Where
  <2> QED
    BY <2>9
<1>10. InPlace'
  BY <1>2, <1>3, <1>7, <1>9 DEF InPlace
<1>11. Arrives'
  <2>1. ~trouble' /\ noise' => Len(received') < Len(begun')
    BY <1>2, <1>3, <1>8
  <2>2. reader' = "failed" => noise' \/ trouble'
    BY <1>2
  <2> QED
    BY <1>7, <1>10, <2>1, <2>2 DEF Arrives
<1> QED
  BY <1>7, <1>11 DEF LinkInv

\* What ReadFrame makes of a stream: a header, and what its length byte says.
LEMMA FrameRead ==
  ASSUME LinkTypes, Len(stream) >= HeaderSize
  PROVE  FrameEnd \in Nat /\ FrameEnd >= HeaderSize
<1>1. PICK at \in Nat : at = Len(stream) /\ at >= 5
  BY LinkShape DEF HeaderSize
<1>2. stream[4] \in Bytes
  BY <1>1, ElementOfSeq DEF LinkTypes
<1>3. PICK n \in Nat : n = stream[4]
  BY <1>2, FrameTypes DEF Bytes
<1> QED
  BY <1>3 DEF FrameEnd, HeaderSize

\* It is the frame that was written, and what follows is at the front then.
LEMMA ReadTells ==
  ASSUME LinkInv, Len(received) < Sound, Good(stream), Len(stream) >= HeaderSize,
         FrameEnd <= Len(stream)
  PROVE  LET r == Len(received) IN
         /\ ~noise
         /\ [address |-> stream[2], command |-> stream[3],
             payload |-> SubSeq(stream, HeaderSize + 1, FrameEnd)] = begun[r + 1]
         /\ \E pos : Where(pos) /\ pos[r + 2] = pos[r + 1] + FrameEnd
<1>0. LinkTypes /\ OneAtATime /\ InPlace
  BY DEF LinkInv, Arrives
<1>1. PICK l \in Nat, r \in Nat, i \in Nat, n \in Nat, at \in Nat :
        /\ l = Len(begun) /\ r = Len(received) /\ i = intact /\ n = Sound /\ at = Len(stream)
        /\ i <= n /\ n <= l /\ r < n
  BY <1>0, LinkShape DEF LinkTypes
<1>2. PICK pos : Where(pos) /\ (~noise => There(stream, 0, Header(begun[r + 1])))
  BY <1>1, NextFrame
<1>3. Laid(pos, n, begun) /\ Ahead(stream, pos, n, i, begun, r, noise)
  BY <1>1, <1>2 DEF Where
<1>4. ~noise
  <2>1. noise => ~Good(stream)
    BY <1>1, <1>3 DEF Ahead
  <2> QED
    BY <2>1
<1>5. PICK f \in Short : f = begun[r + 1]
  <2>1. r + 1 \in 1 .. Len(begun)
    BY <1>1
  <2> QED
    BY <1>0, <2>1, FrameAt DEF LinkTypes
<1>6. PICK p \in Seq(Bytes) : p = f.payload
  BY FrameTypes DEF Short
<1>7. PICK q \in Nat : q = Len(p)
  BY LenProperties
<1>8. stream[2] = f.address /\ stream[3] = f.command /\ stream[4] = q
  BY <1>2, <1>4, <1>5, <1>6, <1>7, FrontHeader
<1>9. FrameEnd = 5 + q /\ 5 + q <= at
  BY <1>1, <1>8 DEF FrameEnd, HeaderSize
<1>10. PICK a \in Nat, d \in Nat : a = pos[r + 1] /\ d = pos[r + 2] /\ d = a + 5 + q
  <2>1. r + 1 \in 1 .. n /\ r + 1 \in 1 .. n + 1 /\ (r + 1) + 1 \in 1 .. n + 1 /\ (r + 1) + 1 = r + 2
    BY <1>1
  <2>2. pos[(r + 1) + 1] = pos[r + 1] + 5 + Len(begun[r + 1].payload)
    BY <1>3, <2>1 DEF Laid, HeaderSize
  <2>3. pos[r + 1] \in Nat /\ pos[r + 2] \in Nat
    BY <1>3, <2>1 DEF Laid
  <2> QED
    BY <1>5, <1>6, <1>7, <2>1, <2>2, <2>3
<1>11. d = a + FrameEnd
  <2>1. d = a + 5 + q
    BY <1>10
  <2>2. d = a + (5 + q)
    BY <2>1
  <2> QED
    BY <1>9, <2>2
<1>12. ASSUME NEW j \in 1 .. q
       PROVE  stream[5 + j] = p[j]
  <2>1. CASE r + 1 <= i
    <3>1. r + 1 \in r + 1 .. i
      BY <1>1, <2>1
    <3>2. There(stream, a - a + 5, p)
      BY <1>3, <1>5, <1>6, <1>10, <3>1 DEF Ahead, HeaderSize
    <3>3. a - a + 5 = 5
      OBVIOUS
    <3>4. There(stream, 5, p)
      BY <3>2, <3>3
    <3> QED
      BY <1>7, <3>4 DEF There
  <2>2. CASE ~(r + 1 <= i)
    <3>1. ~trouble /\ n = l
      BY <1>1, <2>2 DEF Sound
    <3>2. l = i + 1 /\ Busy # {}
      BY <1>0, <1>1, <2>2, <3>1 DEF OneAtATime
    <3>3. l = r + 1
      BY <1>1, <2>2, <3>2
    <3>4. at + pos[r + 1] + Len(begun[n].payload) = pos[n + 1]
      BY <1>1, <1>2, <3>1, <3>2 DEF Where
    <3>5. n = r + 1 /\ n + 1 = r + 2
      BY <3>1, <3>3
    <3>6. at + a + q = d
      BY <1>5, <1>6, <1>7, <1>10, <3>4, <3>5
    <3>7. d = a + 5 + q
      BY <1>10
    <3>8. at = 5
      BY <3>6, <3>7
    <3>9. q = 0
      BY <1>9, <3>8
    <3> QED
      BY <3>9
  <2> QED
    BY <2>1, <2>2
<1>13. SubSeq(stream, 6, 5 + q) = p
  <2>1. \A j \in 6 .. 5 + q : stream[j] \in Bytes
    <3>1. \A j \in 6 .. 5 + q : j \in 1 .. at
      BY <1>9
    <3> QED
      BY <1>0, <1>1, <3>1, ElementOfSeq DEF LinkTypes
  <2>2. PICK m \in Int : m = 5 + q
    OBVIOUS
  <2>3. PICK x : x = SubSeq(stream, 6, m)
    OBVIOUS
  <2>4. /\ x \in Seq(Bytes) /\ Len(x) = (IF 6 <= m THEN m - 6 + 1 ELSE 0)
        /\ \A j \in 1 .. m - 6 + 1 : x[j] = stream[6 + j - 1]
    BY <2>1, <2>2, <2>3, SubSeqProperties
  <2>5. m - 6 + 1 = q /\ Len(x) = q
    BY <2>2, <2>4
  <2>6. \A j \in 1 .. q : 6 + j - 1 = 5 + j
    OBVIOUS
  <2>7. \A j \in 1 .. q : x[j] = p[j]
    BY <1>12, <2>4, <2>5, <2>6
  <2>8. x = p
    BY <1>7, <2>4, <2>5, <2>7, SeqEqual
  <2> QED
    BY <2>2, <2>3, <2>8
<1>14. [address |-> stream[2], command |-> stream[3], payload |-> SubSeq(stream, HeaderSize + 1, FrameEnd)] = f
  <2>1. HeaderSize + 1 = 6
    BY DEF HeaderSize
  <2>2. f = [address |-> f.address, command |-> f.command, payload |-> f.payload]
    BY FrameTypes DEF Short
  <2> QED
    BY <1>6, <1>8, <1>9, <1>13, <2>1, <2>2
<1> QED
  BY <1>1, <1>2, <1>4, <1>5, <1>10, <1>11, <1>14

LEMMA ReadKeeps ==
  ASSUME LinkInv, ReadFrame
  PROVE  LinkInv'
<1>0. LinkTypes /\ OneAtATime /\ ReadRight /\ InPlace
  BY DEF LinkInv, Arrives
<1>1. /\ Len(stream) >= HeaderSize
      /\ UNCHANGED <<writing, begun, intact, trouble, noise>>
  BY DEF ReadFrame
<1>2. PICK l \in Nat, r \in Nat, i \in Nat, n \in Nat, at \in Nat :
        /\ l = Len(begun) /\ r = Len(received) /\ i = intact /\ n = Sound /\ at = Len(stream)
        /\ i <= n /\ n <= l /\ DOMAIN received = 1 .. r
  BY <1>0, LinkShape DEF LinkTypes
<1>3. Sound' = n /\ Busy' = Busy /\ (trouble \/ n = l)
  BY <1>1, <1>2 DEF Sound, Busy
<1>4. HeaderGood <=> Good(stream)
  BY DEF HeaderGood, Good
<1>5. CASE ~HeaderGood /\ reader' = "failed" /\ UNCHANGED <<received, stream>>
  <2>1. noise \/ trouble
    <3>1. SUFFICES ASSUME ~noise, ~trouble PROVE FALSE
      OBVIOUS
    <3>2. r < l /\ n = l
      BY <1>1, <1>2, <1>3, <3>1, StreamTells
    <3>3. There(stream, 0, Header(begun[r + 1]))
      BY <1>2, <3>1, <3>2, NextFrame
    <3>4. begun[r + 1] \in Short
      <4>1. r + 1 \in 1 .. Len(begun)
        BY <1>2, <3>2
      <4> QED
        BY <1>0, <4>1, FrameAt DEF LinkTypes
    <3> QED
      BY <1>4, <1>5, <3>3, <3>4, FrontHeader
  <2>2. LinkTypes' /\ OneAtATime' /\ ReadRight'
    BY <1>0, <1>1, <1>3, <1>5 DEF LinkTypes, OneAtATime, ReadRight
  <2>3. \A pos : Where(pos) => Where(pos)'
    BY <1>1, <1>2, <1>3, <1>5 DEF Where
  <2>4. InPlace'
    BY <1>0, <1>2, <1>3, <1>5, <2>3 DEF InPlace
  <2>5. ~trouble' /\ noise' => Len(received') < Len(begun')
    BY <1>1, <1>5 DEF LinkInv, Arrives
  <2> QED
    BY <1>1, <2>1, <2>2, <2>4, <2>5 DEF LinkInv, Arrives
<1>6. ASSUME HeaderGood, Len(stream) >= FrameEnd, UNCHANGED reader,
             NEW f, f = [address |-> stream[2], command |-> stream[3],
                         payload |-> SubSeq(stream, HeaderSize + 1, FrameEnd)],
             received' = Append(received, f),
             stream' = SubSeq(stream, FrameEnd + 1, Len(stream))
      PROVE  LinkInv'
  <2>1. PICK d \in Nat : d = FrameEnd /\ d >= 5 /\ d <= at
    BY <1>0, <1>1, <1>2, <1>6, FrameRead DEF HeaderSize
  <2>2. stream \in Seq(Bytes) /\ begun \in Seq(Short) /\ received \in Seq(RawFrame)
    BY <1>0 DEF LinkTypes
  <2>3. stream' \in Seq(Bytes) /\ Len(stream') = at - d
    <3>1. stream' = SubSeq(stream, d + 1, at)
      BY <1>2, <1>6, <2>1
    <3>2. \A j \in d + 1 .. at : stream[j] \in Bytes
      <4>1. \A j \in d + 1 .. at : j \in 1 .. at
        BY <2>1
      <4> QED
        BY <1>2, <2>2, <4>1, ElementOfSeq
    <3>3. PICK m \in Int : m = d + 1
      OBVIOUS
    <3>4. stream' \in Seq(Bytes) /\ Len(stream') = (IF m <= at THEN at - m + 1 ELSE 0)
      BY <3>1, <3>2, <3>3, SubSeqProperties
    <3>5. (IF m <= at THEN at - m + 1 ELSE 0) = at - d
      BY <2>1, <3>3
    <3> QED
      BY <3>4, <3>5
  <2>3b. f \in RawFrame
    <3>1. stream[2] \in Bytes /\ stream[3] \in Bytes
      BY <1>2, <2>1, <2>2, ElementOfSeq
    <3>2. \A j \in 6 .. d : stream[j] \in Bytes
      <4>1. \A j \in 6 .. d : j \in 1 .. at
        BY <2>1
      <4> QED
        BY <1>2, <2>2, <4>1, ElementOfSeq
    <3>3. PICK x : x = SubSeq(stream, 6, d)
      OBVIOUS
    <3>4. x \in Seq(Bytes)
      BY <3>2, <3>3, SubSeqProperties
    <3>5. HeaderSize + 1 = 6
      BY DEF HeaderSize
    <3>6. f = [address |-> stream[2], command |-> stream[3], payload |-> x]
      BY <1>6, <2>1, <3>3, <3>5
    <3> QED
      BY <3>1, <3>4, <3>6 DEF RawFrame
  <2>4. /\ received' \in Seq(RawFrame) /\ Len(received') = r + 1 /\ DOMAIN received' = 1 .. r + 1
        /\ received'[r + 1] = f /\ \A k \in 1 .. r : received'[k] = received[k]
    <3>1. /\ received' \in Seq(RawFrame) /\ Len(received') = r + 1
          /\ received'[r + 1] = f /\ \A k \in 1 .. r : received'[k] = received[k]
      BY <1>2, <1>6, <2>2, <2>3b, AppendedTo
    <3> QED
      BY <3>1, LenProperties
  <2>5. LinkTypes' /\ OneAtATime'
    BY <1>0, <1>1, <1>3, <2>3, <2>4 DEF LinkTypes, OneAtATime
  <2>6. r < n => /\ ~noise /\ f = begun[r + 1]
                 /\ \E pos : Where(pos) /\ pos[r + 2] = pos[r + 1] + d
    BY <1>1, <1>2, <1>4, <1>6, <2>1, ReadTells
  <2>7. ReadRight'
    <3>1. SUFFICES ASSUME NEW k \in 1 .. r + 1, ~trouble \/ k <= i
                   PROVE  k <= l /\ received'[k] = begun[k]
      BY <1>1, <1>2, <2>4 DEF ReadRight
    <3>2. CASE k <= r
      <4>1. k \in 1 .. r
        BY <3>2
      <4> QED
        BY <1>0, <1>2, <2>4, <3>1, <4>1 DEF ReadRight
    <3>3. CASE ~(k <= r)
      <4>1. k = r + 1
        BY <3>3
      <4>2. ~trouble => r < l
        BY <1>1, <1>2, StreamTells
      <4>3. r < n
        <5>1. CASE trouble
          BY <1>2, <3>1, <4>1, <5>1
        <5>2. CASE ~trouble
          BY <1>3, <4>2, <5>2
        <5> QED
          BY <5>1, <5>2
      <4> QED
        BY <1>2, <2>4, <2>6, <4>1, <4>3
    <3> QED
      BY <3>2, <3>3
  <2>8. ASSUME r + 1 <= n
        PROVE  \E pos : Where(pos)'
    <3>1. r < n
      BY <2>8
    <3>2. PICK pos : Where(pos) /\ pos[r + 2] = pos[r + 1] + d
      BY <2>6, <3>1
    <3>3. Laid(pos, n, begun) /\ Ahead(stream, pos, n, i, begun, r, noise)
      BY <1>2, <3>2 DEF Where
    <3>4. PICK a \in Nat, b \in Nat : a = pos[r + 1] /\ b = pos[(r + 1) + 1] /\ b = a + d
      <4>1. r + 1 \in 1 .. n + 1 /\ r + 2 \in 1 .. n + 1 /\ (r + 1) + 1 = r + 2
        BY <2>8
      <4>2. pos[r + 1] \in Nat /\ pos[r + 2] \in Nat
        BY <3>3, <4>1 DEF Laid
      <4> QED
        BY <3>2, <4>1, <4>2
    <3>5. ASSUME NEW k \in (r + 1) + 1 .. n
          PROVE  \E c \in Nat : /\ c = pos[k] /\ k \in r + 1 .. n /\ k # r + 1 /\ k \in 1 .. l
                                /\ d <= c - a /\ c - a \in Nat
                                /\ (c - a) - d = c - b
      <4>1. k \in 1 .. n + 1 /\ (r + 1) + 1 \in 1 .. n + 1 /\ (k = (r + 1) + 1 \/ (r + 1) + 1 < k)
        BY <2>8
      <4>2. PICK c \in Nat : c = pos[k]
        BY <3>3, <4>1 DEF Laid
      <4>3. b <= c
        <5>1. k = (r + 1) + 1 \/ b + 5 <= c
          BY <3>3, <3>4, <4>1, <4>2 DEF Laid, HeaderSize
        <5>2. k = (r + 1) + 1 => b = c
          BY <3>4, <4>2
        <5> QED
          BY <5>1, <5>2
      <4>4. b = a + d
        BY <3>4
      <4>5. d <= c - a /\ c - a \in Nat /\ (c - a) - d = c - b
        BY <4>3, <4>4
      <4>6. k \in r + 1 .. n /\ k # r + 1 /\ k \in 1 .. l
        BY <1>2
      <4> QED
        BY <4>2, <4>5, <4>6
    <3>6. stream' = SubSeq(stream, d + 1, Len(stream))
      BY <1>6, <2>1
    <3>7. ASSUME NEW k \in (r + 1) + 1 .. n
          PROVE  There(stream', pos[k] - b, Header(begun[k]))
      <4>1. PICK c \in Nat : /\ c = pos[k] /\ k \in r + 1 .. n /\ k # r + 1 /\ k \in 1 .. l
                             /\ d <= c - a /\ c - a \in Nat
                             /\ (c - a) - d = c - b
        BY <3>5
      <4>2. There(stream, c - a, Header(begun[k]))
        BY <3>3, <3>4, <4>1 DEF Ahead
      <4>3. Header(begun[k]) \in Seq(Bytes)
        BY <1>2, <2>2, <4>1, FrameAt
      <4>4. There(stream', (c - a) - d, Header(begun[k]))
        BY <2>2, <3>6, <4>1, <4>2, <4>3, ThereShifted
      <4> QED
        BY <4>1, <4>4
    <3>8. ASSUME NEW k \in (r + 1) + 1 .. i
          PROVE  There(stream', pos[k] - b + HeaderSize, begun[k].payload)
      <4>0. k \in (r + 1) + 1 .. n /\ k \in r + 1 .. i
        BY <1>2
      <4>1. PICK c \in Nat : /\ c = pos[k] /\ k \in r + 1 .. n /\ k # r + 1 /\ k \in 1 .. l
                             /\ d <= c - a /\ c - a \in Nat
                             /\ (c - a) - d = c - b
        BY <3>5, <4>0
      <4>2. PICK x \in Seq(Bytes) : x = begun[k].payload
        BY <1>2, <2>2, <4>1, FrameAt
      <4>3. PICK e \in Nat : e = c - a + 5 /\ d <= e /\ e - d = c - b + 5
        <5>1. PICK g \in Nat : g = c - a
          BY <4>1
        <5>2. d <= g /\ g - d = c - b
          BY <4>1, <5>1
        <5>3. d <= g + 5 /\ (g + 5) - d = (g - d) + 5 /\ g + 5 \in Nat
          BY <5>2
        <5> QED
          BY <5>1, <5>2, <5>3
      <4>4. There(stream, e, x)
        BY <3>3, <3>4, <4>0, <4>1, <4>2, <4>3 DEF Ahead, HeaderSize
      <4>5. There(stream', e - d, x)
        BY <2>2, <3>6, <4>3, <4>4, ThereShifted
      <4> QED
        BY <4>1, <4>2, <4>3, <4>5 DEF HeaderSize
    <3>9. ~noise
      BY <2>6, <3>1
    <3>10. Ahead(stream', pos, n, i, begun, r + 1, noise)
      BY <3>4, <3>7, <3>8, <3>9 DEF Ahead
    <3>11. ~trouble => Len(stream') + b
                         + (IF Busy = {} THEN 0 ELSE Len(begun[n].payload)) = pos[n + 1]
      <4>1. (at - d) + b = at + a
        BY <2>1, <3>4
      <4>2. Len(stream') + b = Len(stream) + pos[r + 1]
        BY <1>2, <2>3, <3>4, <4>1
      <4> QED
        BY <1>2, <3>2, <4>2 DEF Where
    <3>12. Where(pos)'
      BY <1>1, <1>2, <1>3, <2>4, <3>3, <3>4, <3>10, <3>11 DEF Where
    <3> QED
      BY <3>12
  <2>9. InPlace'
    BY <1>3, <2>4, <2>8 DEF InPlace
  <2>10. ~trouble' /\ noise' => Len(received') < Len(begun')
    <3>1. ~trouble => r < n
      BY <1>1, <1>2, <1>3, StreamTells
    <3> QED
      BY <1>1, <2>6, <3>1
  <2>11. reader' = "failed" => noise' \/ trouble'
    BY <1>1, <1>6 DEF LinkInv, Arrives
  <2> QED
    BY <2>5, <2>7, <2>9, <2>10, <2>11 DEF LinkInv, Arrives
<1> QED
  BY <1>5, <1>6 DEF ReadFrame

LEMMA LinkInitInv == LinkInit => LinkInv
<1> SUFFICES ASSUME LinkInit PROVE LinkInv
  OBVIOUS
<1>1. /\ stream = << >> /\ begun = << >> /\ received = << >> /\ intact = 0
      /\ trouble = FALSE /\ noise = FALSE /\ reader = "reading"
      /\ writing = [w \in LinkWriters |-> << >>]
  BY DEF LinkInit
<1>2. Len(stream) = 0 /\ Len(begun) = 0 /\ Len(received) = 0 /\ Busy = {} /\ Sound = 0
  BY <1>1, EmptySeq DEF Busy, Sound
<1>3. LinkTypes
  <2>1. stream \in Seq(Bytes) /\ begun \in Seq(Short)
    BY <1>1, EmptySeq
  <2>2. received \in Seq(RawFrame)
    BY <1>1, EmptySeq
  <2>3. DOMAIN writing = LinkWriters /\ \A w \in LinkWriters : writing[w] = << >>
    BY <1>1
  <2>4. intact \in Nat /\ intact <= Len(begun)
    BY <1>1, <1>2
  <2>5. trouble \in BOOLEAN /\ noise \in BOOLEAN
    BY <1>1
  <2> QED
    BY <2>1, <2>2, <2>3, <2>4, <2>5 DEF LinkTypes
<1>4. Where([k \in {1} |-> 0])
  BY <1>1, <1>2 DEF Where, Laid, Ahead
<1>5. OneAtATime /\ ReadRight
  <2>1. DOMAIN received = {}
    BY <1>1
  <2> QED
    BY <1>1, <1>2, <2>1 DEF OneAtATime, ReadRight
<1> QED
  BY <1>1, <1>2, <1>3, <1>4, <1>5 DEF LinkInv, Arrives, InPlace

LEMMA LinkNextInv ==
  ASSUME LinkInv, [LinkNext]_linkVars
  PROVE  LinkInv'
<1>1. CASE UNCHANGED linkVars
  <2>1. Sound' = Sound /\ Busy' = Busy
    BY <1>1 DEF linkVars, Sound, Busy
  <2>2. \A pos : Where(pos) => Where(pos)'
    BY <1>1, <2>1 DEF linkVars, Where
  <2> QED
    BY <1>1, <2>1, <2>2
    DEF linkVars, LinkInv, LinkTypes, OneAtATime, Arrives, ReadRight, InPlace
<1> QED
  BY <1>1, HeaderKeeps, PayloadKeeps, FailureKeeps, NoiseKeeps, ReadKeeps DEF LinkNext

\* Frames laid out without trouble arrive as they were written, or not at all,
\* and a reader gives up only after noise or trouble: for any number of writers,
\* any frames, any size of a byte and any checksum that sees a changed byte.
THEOREM FramesArriveIntact == LinkSpec => []FramesIntact
<1>1. LinkInv => FramesIntact
  BY DEF LinkInv, LinkTypes, Arrives, ReadRight, FramesIntact
<1> QED
  BY <1>1, LinkInitInv, LinkNextInv, PTL DEF LinkSpec

=============================================================================
